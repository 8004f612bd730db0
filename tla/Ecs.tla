-------------------------------- MODULE Ecs --------------------------------
(***************************************************************************)
(* Equivalence classes of characters (ecs.cpp).                            *)
(*                                                                         *)
(* While the rules are parsed the classes are doubly linked lists in two   *)
(* arrays, nextecm and ecgroup (fwd and bck here).  mkechar() takes a      *)
(* character with a transition of its own out of its list; mkeccl() splits *)
(* the lists along a character class, in place, in one pass over the       *)
(* class.  At the end cre8ecs() overwrites the backward links with class   *)
(* numbers and ccl2ecl() rewrites every character class in those numbers.  *)
(*                                                                         *)
(* One action per step of the loops: each member of a list that mkeccl()   *)
(* looks at, each number that cre8ecs() writes.  NUL is the character 0 in *)
(* a table and the member csize of a list.                                 *)
(*                                                                         *)
(* A definition with a suffix, as Break_ForwardOnly, is a wrong variant of *)
(* the one it stands before: a slip that the properties must notice.       *)
(***************************************************************************)
EXTENDS Integers, FiniteSets

CONSTANTS
  csize,     \* the number of characters
  Tables,    \* the character classes of the rules
  Singles,   \* the characters with transitions of their own
  MaxCalls   \* bound: the calls of mkechar and mkeccl

Chars == 0 .. csize - 1
Members == 1 .. csize
NIL == 0

ASSUME CsizeAssumption == csize \in Nat \ {0}
ASSUME TablesAssumption == Tables \subseteq SUBSET Chars /\ Singles \subseteq Chars
ASSUME MaxCallsAssumption == MaxCalls \in Nat

VARIABLES
  fwd, bck,   \* nextecm and ecgroup
  cclflags,   \* the members of the table that need no more processing; static
  ccls,       \* the character classes that mkeccl() is done with
  singles,    \* the characters given to mkechar()
  pc,
  table, at,  \* mkeccl: the class, and the character its iterator is at
  oldec,      \* mkeccl: the last member left in the old list
  newec,      \* mkeccl: the last member of the new list
  rest,       \* mkeccl: what its second iterator has not passed
  i,          \* the list member looked at
  numecs,     \* the classes numbered so far
  start,      \* cre8ecs: the member its outer loop is at
  ecls,       \* ccl2ecl: each class in class numbers
  calls

vars == <<fwd, bck, cclflags, ccls, singles, pc, table, at, oldec, newec,
          rest, i, numecs, start, ecls, calls>>
mkecclvars == <<table, at, oldec, newec, rest>>
cre8ecsvars == <<numecs, start, ecls>>

\* "Map NUL's to csize", and back.
Mapped_Not(c) == c
Mapped(c) == IF c = 0 THEN csize ELSE c
Raw(c) == IF c = csize THEN 0 ELSE c

Least(S) == CHOOSE x \in S : \A y \in S : x <= y

\* check_options() links all the characters into one list.
Init ==
  /\ fwd = [c \in 0 .. csize |-> IF c \in 1 .. csize - 1 THEN c + 1 ELSE NIL]
  /\ bck = [c \in 0 .. csize |-> IF c \in 2 .. csize THEN c - 1 ELSE NIL]
  /\ cclflags = {} /\ ccls = {} /\ singles = {}
  /\ pc = "parse"
  /\ table = {} /\ at = 0 /\ oldec = NIL /\ newec = NIL /\ rest = {} /\ i = NIL
  /\ numecs = 0 /\ start = 1 /\ ecls = [T \in {} |-> {}]
  /\ calls = 0

----------------------------------------------------------------------------
(* mkechar()                                                               *)

\* The lists without c: an array whose entry for a neighbour of c, if it has
\* one, is the other neighbour.
Break_ForwardOnly(link, neighbour, c) == [link EXCEPT ![c] = NIL]
Break(link, neighbour, c) ==
  [x \in DOMAIN link |-> IF x = c THEN NIL
                         ELSE IF x = neighbour /\ x # NIL THEN link[c]
                         ELSE link[x]]

MkEChar(c) ==
  /\ pc = "parse" /\ calls < MaxCalls
  /\ fwd' = Break(fwd, bck[Mapped(c)], Mapped(c))
  /\ bck' = Break(bck, fwd[Mapped(c)], Mapped(c))
  /\ singles' = singles \cup {c}
  /\ calls' = calls + 1
  /\ UNCHANGED <<cclflags, ccls, pc, i, mkecclvars, cre8ecsvars>>

----------------------------------------------------------------------------
(* mkeccl()                                                                *)

After(c) == {d \in table : d > c}

\* The loop over the class begins: nothing to do for an empty one.
MkEccl(T) ==
  /\ pc = "parse" /\ calls < MaxCalls
  /\ calls' = calls + 1
  /\ IF T = {} THEN /\ ccls' = ccls \cup {T}
                    /\ UNCHANGED <<pc, table, at>>
     ELSE /\ table' = T
          /\ at' = Least(T)
          /\ pc' = "member"
          /\ UNCHANGED ccls
  /\ UNCHANGED <<fwd, bck, cclflags, singles, oldec, newec, rest, i, cre8ecsvars>>

\* Its body, for one member of the class, up to the loop over the list.
BeginMember ==
  /\ pc = "member"
  /\ oldec' = bck[Mapped(at)]
  /\ newec' = Mapped(at)
  /\ rest' = After(at)
  /\ i' = fwd[Mapped(at)]
  /\ pc' = "follow"
  /\ UNCHANGED <<fwd, bck, cclflags, ccls, singles, table, at, calls, cre8ecsvars>>

\* The member i of the list is one of the class that has not been processed.
IsCompanion_Any == i \notin cclflags
IsCompanion_NextOnly == rest # {} /\ i = Least(rest) /\ i \notin cclflags
IsCompanion == i \in rest /\ i \notin cclflags

\* "We found an old companion of cclm in the ccl."
LinkCompanion ==
  /\ pc = "follow" /\ i # NIL /\ IsCompanion
  /\ bck' = [bck EXCEPT ![i] = newec]
  /\ fwd' = [fwd EXCEPT ![newec] = i]
  /\ newec' = i
  /\ cclflags' = cclflags \cup {i}
  /\ rest' = {d \in rest : d >= i}
  /\ i' = fwd'[i]
  /\ UNCHANGED <<ccls, singles, pc, table, at, oldec, calls, cre8ecsvars>>

\* "Symbol isn't in character class.  Put it in the old equivalence class."
LinkOther ==
  /\ pc = "follow" /\ i # NIL /\ ~IsCompanion
  /\ bck' = [bck EXCEPT ![i] = oldec]
  /\ fwd' = IF oldec # NIL THEN [fwd EXCEPT ![oldec] = i] ELSE fwd
  /\ oldec' = i
  /\ rest' = {d \in rest : d >= i}
  /\ i' = fwd'[i]
  /\ UNCHANGED <<cclflags, ccls, singles, pc, table, at, newec, calls, cre8ecsvars>>

\* The flagged members that follow in the class: they are passed over, and
\* their flags reset.
Skipped_None == {}
Skipped == {d \in After(at) : \A e \in After(at) : e <= d => e \in cclflags}

\* The old list ends at oldec, the new one begins at cclm; its next member.
EndMember ==
  /\ pc = "follow" /\ i = NIL
  /\ LET cclm == Mapped(at)
         split == bck[cclm] # NIL \/ oldec # bck[cclm]
         ended == IF split THEN [fwd EXCEPT ![oldec] = NIL] ELSE fwd
     IN  /\ bck' = IF split THEN [bck EXCEPT ![cclm] = NIL] ELSE bck
         /\ fwd' = [ended EXCEPT ![newec] = NIL]
  /\ cclflags' = cclflags \ Skipped
  /\ IF After(at) = Skipped
     THEN /\ pc' = "parse"
          /\ ccls' = ccls \cup {table}
          /\ UNCHANGED at
     ELSE /\ pc' = "member"
          /\ at' = Least(After(at) \ Skipped)
          /\ UNCHANGED ccls
  /\ UNCHANGED <<singles, table, oldec, newec, rest, i, calls, cre8ecsvars>>

----------------------------------------------------------------------------
(* cre8ecs() and ccl2ecl(), called by readin()                             *)

BeginNumbering ==
  /\ pc = "parse"
  /\ pc' = "number"
  /\ UNCHANGED <<fwd, bck, cclflags, ccls, singles, i, calls, mkecclvars, cre8ecsvars>>

\* A member without a predecessor begins a class, and represents it.
NumberHead ==
  /\ pc = "number" /\ start <= csize
  /\ IF bck[start] = NIL
     THEN /\ numecs' = numecs + 1
          /\ bck' = [bck EXCEPT ![start] = numecs + 1]
          /\ i' = fwd[start]
          /\ pc' = "spread"
          /\ UNCHANGED start
     ELSE /\ start' = start + 1
          /\ UNCHANGED <<numecs, bck, i, pc>>
  /\ UNCHANGED <<fwd, cclflags, ccls, singles, ecls, calls, mkecclvars>>

\* The other members get the number with a minus sign.
Number == -numecs

Spread ==
  /\ pc = "spread"
  /\ IF i # NIL
     THEN /\ bck' = [bck EXCEPT ![i] = Number]
          /\ i' = fwd[i]
          /\ UNCHANGED <<pc, start>>
     ELSE /\ pc' = "number"
          /\ start' = start + 1
          /\ UNCHANGED <<bck, i>>
  /\ UNCHANGED <<fwd, cclflags, ccls, singles, numecs, ecls, calls, mkecclvars>>

\* ccl2ecl() for one class: the numbers of the members that represent theirs.
EclOf(group, T) == {group[c] : c \in {d \in T : group[d] > 0}}

\* NUL goes to "its expected place", and the classes are rewritten.
Finish ==
  /\ pc = "number" /\ start > csize
  /\ bck' = [bck EXCEPT ![0] = bck[csize]]
  /\ ecls' = [T \in ccls |-> EclOf(bck', T)]
  /\ pc' = "done"
  /\ UNCHANGED <<fwd, cclflags, ccls, singles, i, numecs, start, calls, mkecclvars>>

Terminated == pc = "done" /\ UNCHANGED vars

Next ==
  \/ \E c \in Singles : MkEChar(c)
  \/ \E T \in Tables : MkEccl(T)
  \/ BeginMember
  \/ LinkCompanion
  \/ LinkOther
  \/ EndMember
  \/ BeginNumbering
  \/ NumberHead
  \/ Spread
  \/ Finish
  \/ Terminated

Spec == Init /\ [][Next]_vars

----------------------------------------------------------------------------
(* What must be true of it.                                                *)

Abs(n) == IF n < 0 THEN -n ELSE n

TypeOK ==
  /\ fwd \in [0 .. csize -> 0 .. csize]
  /\ bck \in [0 .. csize -> -csize .. csize]
  /\ cclflags \subseteq Chars /\ ccls \subseteq Tables /\ singles \subseteq Singles
  /\ pc \in {"parse", "member", "follow", "number", "spread", "done"}
  /\ table \subseteq Chars /\ at \in Chars /\ rest \subseteq Chars
  /\ {oldec, newec, i} \subseteq 0 .. csize
  /\ numecs \in 0 .. csize /\ start \in 1 .. csize + 1
  /\ calls \in 0 .. MaxCalls

\* A class number stands for its characters: a character is in a character
\* class just when its number is in the rewritten one.  All the tables of the
\* scanner are indexed by these numbers.
ClassesDecideTables ==
  pc = "done" => \A T \in ccls : \A c \in Chars : c \in T <=> Abs(bck[c]) \in ecls[T]

\* A character with a transition of its own shares its number with no other
\* and represents itself: sympartition() uses ecgroup[tch] as an index as it
\* stands, without taking its absolute value.
SinglesStandAlone ==
  pc = "done" => \A c \in singles : /\ bck[c] > 0
                                    /\ \A d \in Chars \ {c} : Abs(bck[d]) # bck[c]

\* mkeccl() leaves no flag behind in its static array for the next call.
NoStaleFlag == pc = "parse" => cclflags = {}

\* Nothing tells the characters c and d apart.
Alike(c, d) == /\ c \in singles \/ d \in singles => c = d
               /\ \A T \in ccls : c \in T <=> d \in T

\* The classes are as few as the rules allow: characters that nothing tells
\* apart get the same number.  Not so NUL, which is first in a table
\* but last in the lists: a class with NUL and another character splits it off.
Coarsest ==
  pc = "done" => \A c, d \in Chars \ {0} : Alike(c, d) => Abs(bck[c]) = Abs(bck[d])
=============================================================================
