----------------------------- MODULE EcsProofs -----------------------------
(***************************************************************************)
(* Proofs about module Ecs, for every alphabet, every set of character     *)
(* classes and every order of the calls.                                   *)
(*                                                                         *)
(* The properties are about class numbers, the program about links.  Two   *)
(* facts about a single link carry over to whole lists without mentioning  *)
(* reachability: its ends belong to the same finished classes (Together),  *)
(* and, while a class is being split off, either both or none of them have *)
(* been processed (Processed).  Only the two links that are about to be    *)
(* rewritten, out of newec and oldec, are exempt.                          *)
(*                                                                         *)
(* That no list is split without need is as local: a link passes over no   *)
(* member that belongs to the same list (Dense), so the greatest member    *)
(* that could be parted from a later one is linked to a greater such one.  *)
(***************************************************************************)
EXTENDS Ecs, TLAPS, WellFoundedInduction

----------------------------------------------------------------------------
(* The inductive invariant.                                                *)

\* The members x and y are in the same finished classes, and neither has been
\* given to mkechar() unless they are one.
Together(x, y) == /\ \A T \in ccls : Raw(x) \in T <=> Raw(y) \in T
                  /\ \A c \in singles : Raw(x) = c <=> Raw(y) = c

\* The part of the table that mkeccl() has put into new lists.
Processed == {d \in table : IF pc = "follow" THEN d <= at ELSE d < at} \cup cclflags

\* Every link goes to a greater member: the loops over the lists end, and
\* mkeccl() finds what it looks for in one pass over the class.
Increasing == \A x \in Members : fwd[x] # NIL => fwd[x] > x

\* Until cre8ecs() there are no numbers, and no entry of bck is negative.
Unnumbered ==
  pc \in {"parse", "member", "follow"} =>
    numecs = 0 /\ start = 1 /\ \A x \in 0 .. csize : bck[x] >= 0

\* The links form doubly linked lists of members that belong together.
Links ==
  /\ \A x \in Members : fwd[x] # NIL => bck[fwd[x]] = x /\ Together(x, fwd[x])
  /\ \A y \in Members : bck[y] # NIL => bck[y] \in Members /\ fwd[bck[y]] = y

ParseInv == cclflags = {} /\ Links

MemberInv ==
  /\ Links
  /\ table \in Tables /\ at \in table
  /\ cclflags \subseteq After(at)
  /\ \A x \in Members : fwd[x] # NIL => (Raw(x) \in Processed <=> Raw(fwd[x]) \in Processed)

\* mkeccl(), between two steps along a list: newec and oldec end the two lists
\* that it is divided into, and i begins what is left of it.
FollowInv ==
  /\ table \in Tables /\ at \in table
  /\ cclflags \subseteq After(at) /\ rest \subseteq After(at)
  /\ newec \in Members /\ newec >= Mapped(at) /\ newec # oldec
  /\ i # NIL => i > newec /\ i > oldec /\ bck[i] \in {newec, oldec} \ {NIL}
  /\ i # NIL => Together(newec, i)
  /\ oldec # NIL => Together(newec, oldec)
  /\ Raw(newec) \in Processed
  /\ oldec # NIL => Raw(oldec) \notin Processed
  /\ i # NIL => Raw(i) \notin Processed
  /\ \A x \in Members : fwd[x] # NIL => Together(x, fwd[x])
  /\ \A x \in Members \ {newec, oldec} : fwd[x] # NIL =>
       /\ bck[fwd[x]] = x
       /\ fwd[x] # Mapped(at)
       /\ Raw(x) \in Processed <=> Raw(fwd[x]) \in Processed
  /\ \A y \in Members \ {i, Mapped(at)} : bck[y] # NIL =>
       bck[y] \in Members \ {newec, oldec} /\ fwd[bck[y]] = y

\* The members that cre8ecs() has given a number.  A positive entry of bck is
\* a number or a link: only its place tells.
Numbered == {x \in Members : x < start \/ bck[x] < 0 \/ (pc = "spread" /\ x = start)}

\* What holds of the numbers given so far, and of the links that are left.
NumberInv ==
  /\ \A x, y \in Members : fwd[x] # NIL /\ fwd[x] = fwd[y] => x = y
  /\ \A x \in Members : fwd[x] # NIL => Together(x, fwd[x])
  /\ \A x \in Numbered : Abs(bck[x]) \in 1 .. numecs
  /\ \A x, y \in Numbered : Abs(bck[x]) = Abs(bck[y]) => Together(x, y)
  /\ \A n \in 1 .. numecs : \E x \in Numbered : bck[x] = n
  /\ \A x \in Members : fwd[x] # NIL /\ fwd[x] \notin Numbered => bck[fwd[x]] = x
  /\ \A y \in Members \ Numbered : bck[y] # NIL => bck[y] \in Members /\ fwd[bck[y]] = y
  /\ \A x \in Members : fwd[x] # NIL /\ fwd[x] \in Numbered => x \in Numbered

\* Between two classes the numbered members are whole lists.
BetweenInv ==
  /\ numecs < start
  /\ \A x \in Numbered : fwd[x] # NIL =>
       fwd[x] \in Numbered /\ Abs(bck[fwd[x]]) = Abs(bck[x])

\* Within a class, all but the rest of its list from i on.
SpreadInv ==
  /\ start <= csize /\ numecs \in 1 .. start
  /\ \A x \in Numbered : fwd[x] # NIL /\ fwd[x] # i =>
       fwd[x] \in Numbered /\ Abs(bck[fwd[x]]) = Abs(bck[x])
  /\ i # NIL => /\ i \notin Numbered
                 /\ \E x \in Numbered : fwd[x] = i /\ Abs(bck[x]) = numecs

IInv ==
  /\ TypeOK
  /\ Increasing
  /\ Unnumbered
  /\ pc = "parse" => ParseInv
  /\ pc = "member" => MemberInv
  /\ pc = "follow" => FollowInv
  /\ pc \in {"number", "spread"} => NumberInv
  /\ pc = "number" => BetweenInv
  /\ pc = "spread" => SpreadInv
  /\ ClassesDecideTables
  /\ SinglesStandAlone

----------------------------------------------------------------------------
(* The invariant behind Coarsest: no list has been split that did not have *)
(* to be.  Again about single links: a link never passes over a member     *)
(* that belongs to the same list.  NUL, the last member but the first in a *)
(* class, is left out.                                                     *)

Inner == 1 .. csize - 1

\* The link out of x leads to y or to a member before it.
LinkUpTo(x, y) == fwd[x] # NIL /\ fwd[x] <= y

Dense == \A x, y \in Inner : x < y /\ Together(x, y) => LinkUpTo(x, y)

\* Together, and not yet divided by the class that is being processed.
Undivided(x, y) == Together(x, y) /\ (x \in Processed <=> y \in Processed)

\* Between two members of the class, the new lists hold all that belongs to them.
MemberCoarse ==
  /\ \A x, y \in Inner : x < y /\ Undivided(x, y) => LinkUpTo(x, y)
  /\ \A x \in Inner \cap Processed, y \in (Inner \cap table) \ Processed : ~Together(x, y)

\* The pass along the list has still to come to y.
Due(y) == \/ newec \in Inner /\ Together(newec, y) /\ y \in After(at)
          \/ oldec # NIL /\ Together(oldec, y) /\ oldec < y

FollowCoarse ==
  /\ \A x \in Inner \ {newec, oldec}, y \in Inner :
       x < y /\ Undivided(x, y) => LinkUpTo(x, y)
  /\ \A y \in Inner : newec < y /\ Together(newec, y) => y \notin Processed
  /\ \A y \in Inner \ Processed : Due(y) => i # NIL /\ i <= y
  /\ \A x \in Inner \cap Processed, y \in (Inner \cap table) \ Processed :
       Together(x, y) => newec \in Inner /\ Together(newec, y)
  /\ \A d \in After(at) : d > newec /\ d > oldec => d \in rest

CoarseInv ==
  /\ pc \in {"parse", "number", "spread"} => Dense
  /\ pc = "member" => MemberCoarse
  /\ pc = "follow" => FollowCoarse
  /\ Coarsest

----------------------------------------------------------------------------
(* About the operators.                                                    *)

\* Mapped and Raw are inverses of each other.
LEMMA MappedRaw ==
  /\ \A c \in Chars : Mapped(c) \in Members /\ Raw(Mapped(c)) = c
  /\ \A x \in Members : Raw(x) \in Chars /\ Mapped(Raw(x)) = x
BY CsizeAssumption DEF Mapped, Raw, Chars, Members

\* A set of characters has a least one.
LEMMA LeastIsLeast ==
  ASSUME NEW S, S \subseteq Chars, S # {}
  PROVE  Least(S) \in S /\ \A y \in S : Least(S) <= y
<1>1. S \subseteq Nat
  BY DEF Chars
<1>2. PICK x \in S : \A y \in S : <<y, x>> \notin OpToRel(<, Nat)
  BY <1>1, WFMin, NatLessThanWellFounded
<1>3. \A y \in S : ~(y < x)
  BY <1>1, <1>2 DEF OpToRel
<1>4. \A y \in S : x <= y
  BY <1>1, <1>3
<1> QED
  BY <1>4 DEF Least

LEMMA MembersAreNumbers ==
  /\ Members \subseteq 0 .. csize /\ Members \subseteq Int /\ csize \in Members
  /\ NIL \notin Members /\ 0 .. csize = Members \cup {NIL}
BY CsizeAssumption DEF Members, NIL

\* What the arrays hold.
LEMMA Arrays ==
  ASSUME TypeOK
  PROVE  /\ fwd \in [0 .. csize -> 0 .. csize] /\ bck \in [0 .. csize -> -csize .. csize]
         /\ \A x \in Members : fwd[x] \in Members \cup {NIL}
         /\ \A x \in Members : bck[x] \in -csize .. csize
<1>1. fwd \in [0 .. csize -> 0 .. csize] /\ bck \in [0 .. csize -> -csize .. csize]
  BY DEF TypeOK
<1>2. \A x \in Members : fwd[x] \in 0 .. csize
  BY <1>1, MembersAreNumbers
<1>3. \A x \in Members : bck[x] \in -csize .. csize
  BY <1>1, MembersAreNumbers
<1> QED
  BY <1>1, <1>2, <1>3, MembersAreNumbers

LEMMA TogetherIsTransitive ==
  \A x, y, z : Together(x, y) => /\ Together(y, x)
                                 /\ Together(y, z) => Together(x, z)
BY DEF Together

----------------------------------------------------------------------------
(* The initial states, and mkechar().                                      *)

LEMMA InitInv == Init => IInv
<1> SUFFICES ASSUME Init PROVE IInv
  OBVIOUS
<1> USE CsizeAssumption
<1>1. TypeOK
  BY MaxCallsAssumption DEF Init, TypeOK, NIL, Chars
<1>2. Increasing /\ Unnumbered
  BY DEF Init, Increasing, Unnumbered, Members, NIL
<1>3. ParseInv
  BY DEF Init, ParseInv, Links, Together, Members, NIL
<1>4. ClassesDecideTables /\ SinglesStandAlone
  BY DEF Init, ClassesDecideTables, SinglesStandAlone
<1> QED
  BY <1>1, <1>2, <1>3, <1>4 DEF IInv, Init

LEMMA MkECharInv ==
  ASSUME IInv, NEW c \in Singles, MkEChar(c)
  PROVE  IInv'
<1>1. PICK m \in Members : m = Mapped(c)
  BY TablesAssumption, MappedRaw
<1>2. Links /\ Unnumbered /\ Increasing /\ TypeOK /\ pc = "parse" /\ pc' = "parse"
  BY DEF IInv, ParseInv, MkEChar
<1>3. /\ fwd' = [x \in 0 .. csize |-> IF x = m THEN NIL
                   ELSE IF x = bck[m] /\ x # NIL THEN fwd[m] ELSE fwd[x]]
      /\ bck' = [x \in 0 .. csize |-> IF x = m THEN NIL
                   ELSE IF x = fwd[m] /\ x # NIL THEN bck[m] ELSE bck[x]]
  BY <1>1, <1>2 DEF MkEChar, Break, TypeOK
<1>4. /\ \A x \in Members : fwd'[x] = IF x = m THEN NIL
                                      ELSE IF x = bck[m] THEN fwd[m] ELSE fwd[x]
      /\ \A x \in Members : bck'[x] = IF x = m THEN NIL
                                      ELSE IF x = fwd[m] THEN bck[m] ELSE bck[x]
  BY <1>3, MembersAreNumbers
<1>5. /\ \A x \in Members : fwd[x] \in Members \cup {NIL} /\ fwd[x] # x
      /\ \A x \in Members : bck[x] \in Members \cup {NIL} /\ bck[x] # x
  <2>1. ASSUME NEW x \in Members PROVE fwd[x] \in Members \cup {NIL} /\ fwd[x] # x
    <3>1. x \in Int /\ x # NIL /\ fwd[x] \in Members \cup {NIL}
      BY <1>2, Arrays, MembersAreNumbers
    <3>2. fwd[x] # NIL => fwd[x] > x
      BY <1>2 DEF Increasing
    <3> QED
      BY <3>1, <3>2
  <2>2. \A x \in Members : bck[x] \in Members \cup {NIL}
    BY <1>2 DEF Links
  <2>3. \A x \in Members : bck[x] # x
    BY <1>2, <2>1, MembersAreNumbers DEF Links
  <2> QED
    BY <2>1, <2>2, <2>3
<1>6. TypeOK'
  <2>1. fwd' \in [0 .. csize -> 0 .. csize]
    <3>1. fwd[m] \in 0 .. csize /\ NIL \in 0 .. csize
      BY <1>1, <1>5, MembersAreNumbers
    <3> QED
      BY <1>2, <1>3, <3>1, Arrays
  <2>2. bck' \in [0 .. csize -> -csize .. csize]
    <3>1. bck[m] \in -csize .. csize /\ NIL \in -csize .. csize
      BY SMTT(60), <1>1, <1>2, Arrays, CsizeAssumption DEF NIL
    <3> QED
      BY <1>2, <1>3, <3>1, Arrays
  <2>3. singles' \subseteq Singles /\ calls' \in 0 .. MaxCalls
    BY <1>2, MaxCallsAssumption DEF TypeOK, MkEChar
  <2> QED
    BY <1>2, <2>1, <2>2, <2>3 DEF TypeOK, MkEChar, mkecclvars, cre8ecsvars
<1>7. Increasing'
  <2> SUFFICES ASSUME NEW x \in Members, fwd'[x] # NIL PROVE fwd'[x] > x
    BY DEF Increasing
  <2>1. CASE x = bck[m]
    <3>1. fwd[x] = m /\ fwd'[x] = fwd[m] /\ fwd[m] # NIL
      BY <1>1, <1>2, <1>4, <1>5, <2>1, MembersAreNumbers DEF Links
    <3>2. m > x /\ fwd[m] > m /\ {x, m, fwd[m]} \subseteq Int
      BY <1>1, <1>2, <1>5, <3>1, MembersAreNumbers DEF Increasing
    <3> QED
      BY <3>1, <3>2
  <2>2. CASE x # bck[m]
    BY <1>2, <1>4, <2>2 DEF Increasing
  <2> QED
    BY <2>1, <2>2
<1>8. Unnumbered'
  BY <1>1, <1>2, <1>3, MembersAreNumbers DEF Unnumbered, NIL, MkEChar, cre8ecsvars
<1>9. Links'
  <2> DEFINE StillTogether(x, y) == /\ \A T \in ccls' : Raw(x) \in T <=> Raw(y) \in T
                                    /\ \A d \in singles' : Raw(x) = d <=> Raw(y) = d
  <2>1. \A x, y \in Members \ {m} : Together(x, y) => StillTogether(x, y)
    <3>1. \A x \in Members \ {m} : Raw(x) # c
      BY <1>1, MappedRaw
    <3>2. QED
      BY <3>1 DEF Together, MkEChar
  <2>2. ASSUME NEW x \in Members, fwd'[x] # NIL
        PROVE  /\ bck'[fwd'[x]] = x /\ Together(x, fwd'[x])
               /\ x # m /\ fwd'[x] \in Members \ {m}
    <3>1. CASE x = bck[m]
      <4>1. fwd[x] = m /\ fwd'[x] = fwd[m] /\ fwd[m] \in Members /\ fwd[m] # m
        BY <1>1, <1>2, <1>4, <1>5, <2>2, <3>1, MembersAreNumbers DEF Links
      <4>2. Together(x, m) /\ Together(m, fwd[m])
        BY <1>1, <1>2, <4>1, MembersAreNumbers DEF Links
      <4>3. bck'[fwd[m]] = x
        BY <1>4, <3>1, <4>1
      <4> QED
        BY <4>1, <4>2, <4>3, TogetherIsTransitive
    <3>2. CASE x # bck[m]
      <4>1. x # m /\ fwd'[x] = fwd[x] /\ fwd[x] \in Members /\ bck[fwd[x]] = x
        BY <1>1, <1>2, <1>4, <1>5, <2>2, <3>2 DEF Links
      <4>2. fwd[x] # m /\ fwd[x] # fwd[m]
        BY <1>1, <1>2, <3>2, <4>1, MembersAreNumbers DEF Links
      <4> QED
        BY <1>2, <1>4, <4>1, <4>2, MembersAreNumbers DEF Links
    <3> QED
      BY <3>1, <3>2
  <2>3. ASSUME NEW y \in Members, bck'[y] # NIL
        PROVE  bck'[y] \in Members /\ fwd'[bck'[y]] = y
    <3>1. CASE y = fwd[m]
      <4>1. bck'[y] = bck[m] /\ bck[m] \in Members /\ bck[m] # m
        BY <1>1, <1>2, <1>4, <1>5, <2>3, <3>1 DEF Links
      <4> QED
        BY <1>4, <3>1, <4>1
    <3>2. CASE y # fwd[m]
      <4>1. y # m /\ bck'[y] = bck[y] /\ bck[y] \in Members /\ fwd[bck[y]] = y
        BY <1>1, <1>2, <1>4, <1>5, <2>3, <3>2 DEF Links
      <4>2. bck[y] # m /\ bck[y] # bck[m]
        BY <1>1, <1>2, <3>2, <4>1, MembersAreNumbers DEF Links
      <4> QED
        BY <1>4, <4>1, <4>2
    <3> QED
      BY <3>1, <3>2
  <2>4. \A x \in Members : fwd'[x] # NIL => /\ bck'[fwd'[x]] = x
                                            /\ StillTogether(x, fwd'[x])
    BY <2>1, <2>2
  <2> QED
    BY <2>3, <2>4 DEF Links, Together
<1>10. ParseInv' /\ ClassesDecideTables' /\ SinglesStandAlone'
  BY <1>2, <1>9 DEF IInv, ParseInv, ClassesDecideTables, SinglesStandAlone, MkEChar
<1> QED
  BY <1>2, <1>6, <1>7, <1>8, <1>10 DEF IInv

----------------------------------------------------------------------------
(* mkeccl()                                                                *)

LEMMA CharsAreNumbers == Chars \subseteq Int
BY CsizeAssumption DEF Chars

LEMMA AfterIsChars == ASSUME TypeOK PROVE After(at) \subseteq Chars /\ table \subseteq Int
BY CharsAreNumbers DEF TypeOK, After

LEMMA MkEcclInv ==
  ASSUME IInv, NEW T \in Tables, MkEccl(T)
  PROVE  IInv'
<1>1. TypeOK /\ Increasing /\ Unnumbered /\ ParseInv /\ pc = "parse"
  BY DEF IInv, MkEccl
<1>2. T \subseteq Chars
  BY TablesAssumption
<1>3. Increasing' /\ Unnumbered'
  BY <1>1 DEF Increasing, Unnumbered, MkEccl, cre8ecsvars
<1>4. calls' \in 0 .. MaxCalls
  BY <1>1, MaxCallsAssumption DEF TypeOK, MkEccl
<1>5. CASE T = {}
  <2>1. TypeOK'
    BY <1>1, <1>4, <1>5 DEF TypeOK, MkEccl, cre8ecsvars
  <2>2. \A x, y : Together(x, y) => Together(x, y)'
    BY <1>5 DEF Together, MkEccl
  <2>3. ParseInv'
    BY <1>1, <1>5, <2>2 DEF ParseInv, Links, MkEccl
  <2> QED
    BY <1>1, <1>3, <1>5, <2>1, <2>3 DEF IInv, ClassesDecideTables, SinglesStandAlone, MkEccl
<1>6. CASE T # {}
  <2>1. /\ table' = T /\ at' = Least(T) /\ pc' = "member"
        /\ UNCHANGED <<fwd, bck, cclflags, ccls, singles, rest>>
    BY <1>6 DEF MkEccl
  <2>2. Least(T) \in T /\ \A d \in T : Least(T) <= d
    BY <1>2, <1>6, LeastIsLeast
  <2>3. TypeOK'
    BY <1>1, <1>2, <1>4, <1>6, <2>2 DEF TypeOK, MkEccl, cre8ecsvars
  <2>4. Processed' = {}
    <3>1. ASSUME NEW d \in T PROVE ~(d < Least(T))
      <4>1. d \in Int /\ Least(T) \in Int /\ Least(T) <= d
        BY <1>2, <2>2, CharsAreNumbers
      <4> QED
        BY <4>1
    <3> QED
      BY <1>1, <2>1, <3>1 DEF Processed, ParseInv
  <2>5. MemberInv'
    <3>1. Links'
      BY <1>1, <2>1 DEF ParseInv, Links, Together
    <3>2. cclflags' \subseteq After(at)'
      BY <1>1, <2>1 DEF ParseInv
    <3> QED
      BY <2>1, <2>2, <2>4, <3>1, <3>2 DEF MemberInv
  <2> QED
    BY <1>3, <2>1, <2>3, <2>5 DEF IInv, ClassesDecideTables, SinglesStandAlone
<1> QED
  BY <1>5, <1>6

\* The member that mkeccl() begins with is the only one it processes.
LEMMA BeginMemberProcessed ==
  ASSUME TypeOK, MemberInv, pc = "member", BeginMember
  PROVE  at \notin Processed /\ Processed' = Processed \cup {at}
<1>1. at \in table /\ table \subseteq Int
  BY AfterIsChars DEF MemberInv
<1>2. at \notin cclflags
  BY <1>1 DEF MemberInv, After
<1>3. /\ Processed = {d \in table : d < at} \cup cclflags
      /\ Processed' = {d \in table : d <= at} \cup cclflags
  BY DEF Processed, BeginMember
<1>4. ASSUME NEW d \in table PROVE d <= at <=> d < at \/ d = at
  <2>1. d \in Int /\ at \in Int
    BY <1>1
  <2> QED
    BY <2>1
<1>5. ~(at < at)
  <2>1. at \in Int
    BY <1>1
  <2> QED
    BY <2>1
<1>6. Processed' = Processed \cup {at}
  BY <1>1, <1>3, <1>4
<1> QED
  BY <1>2, <1>3, <1>5, <1>6

LEMMA BeginMemberInv ==
  ASSUME IInv, BeginMember
  PROVE  IInv'
<1>1. TypeOK /\ Increasing /\ Unnumbered /\ MemberInv /\ pc = "member" /\ pc' = "follow"
  BY DEF IInv, BeginMember
<1>2. PICK m \in Members : m = Mapped(at) /\ Raw(m) = at
  BY <1>1, MappedRaw DEF TypeOK
<1>3. /\ oldec' = bck[m] /\ newec' = m /\ rest' = After(at) /\ i' = fwd[m]
      /\ UNCHANGED <<fwd, bck, cclflags, ccls, singles, table, at>>
  BY <1>2 DEF BeginMember
<1>4. \A x \in Members : fwd[x] \in Members \cup {NIL} /\ (fwd[x] # NIL => fwd[x] > x)
  BY <1>1, Arrays DEF Increasing
<1>5. oldec' # NIL => oldec' \in Members /\ fwd[oldec'] = m /\ m > oldec'
  BY <1>1, <1>2, <1>3, <1>4, MembersAreNumbers DEF MemberInv, Links
<1>6. i' # NIL => i' \in Members /\ bck[i'] = m /\ i' > m
  BY <1>1, <1>2, <1>3, <1>4 DEF MemberInv, Links
<1>7. oldec' \in Members \cup {NIL} /\ i' \in Members \cup {NIL}
  BY <1>5, <1>6
<1>8. TypeOK'
  <2>1. {oldec', newec', i'} \subseteq 0 .. csize
    BY <1>2, <1>3, <1>7, MembersAreNumbers
  <2>2. rest' \subseteq Chars
    BY <1>1, <1>3, AfterIsChars
  <2> QED
    BY <1>1, <2>1, <2>2 DEF TypeOK, BeginMember, cre8ecsvars
<1>9. Increasing' /\ Unnumbered'
  BY <1>1, <1>3 DEF Increasing, Unnumbered, BeginMember, cre8ecsvars
<1>10. at \notin Processed /\ Processed' = Processed \cup {at}
  BY <1>1, BeginMemberProcessed
<1>11. \A x \in Members \ {m} : Raw(x) \in Processed' <=> Raw(x) \in Processed
  BY <1>2, <1>10, MappedRaw
<1>12. oldec' # NIL => Raw(oldec') \notin Processed' /\ Together(oldec', m)
  BY <1>1, <1>2, <1>5, <1>10, <1>11, MembersAreNumbers DEF MemberInv, Links
<1>13. i' # NIL => Raw(i') \notin Processed' /\ Together(m, i')
  BY <1>1, <1>2, <1>3, <1>6, <1>10, <1>11, MembersAreNumbers DEF MemberInv, Links
<1>14. FollowInv'
  <2>1. newec' \in Members /\ newec' >= m /\ newec' # oldec'
    BY <1>2, <1>3, <1>5, MembersAreNumbers
  <2>2. i' # NIL => i' > newec' /\ i' > oldec' /\ bck'[i'] \in {newec', oldec'} \ {NIL}
    <3>1. oldec' = NIL => i' > oldec' \/ i' = NIL
      BY <1>7, MembersAreNumbers DEF Members, NIL
    <3> QED
      BY <1>2, <1>3, <1>5, <1>6, <1>7, <3>1, MembersAreNumbers
  <2>3. ASSUME NEW x \in Members \ {newec', oldec'}, fwd'[x] # NIL
        PROVE  /\ bck'[fwd'[x]] = x
               /\ fwd'[x] # m
               /\ Raw(x) \in Processed' <=> Raw(fwd'[x]) \in Processed'
    <3>1. bck[fwd[x]] = x /\ fwd[x] \in Members
      BY <1>1, <1>3, <1>4, <2>3 DEF MemberInv, Links
    <3>2. x # m /\ fwd[x] # m
      BY <1>3, <2>3, <3>1
    <3>3. Raw(x) \in Processed <=> Raw(fwd[x]) \in Processed
      BY <1>1, <1>3, <2>3 DEF MemberInv
    <3> QED
      BY <1>3, <1>11, <3>1, <3>2, <3>3
  <2>4. ASSUME NEW y \in Members \ {i', m}, bck'[y] # NIL
        PROVE  bck'[y] \in Members \ {newec', oldec'} /\ fwd'[bck'[y]] = y
    <3>1. bck[y] \in Members /\ fwd[bck[y]] = y
      BY <1>1, <1>3, <2>4 DEF MemberInv, Links
    <3>2. bck[y] # m
      BY <1>3, <2>4, <3>1
    <3>3. bck[y] # oldec'
      BY <1>5, <2>4, <3>1, MembersAreNumbers
    <3> QED
      BY <1>3, <3>1, <3>2, <3>3
  <2>6. \A x \in Members : fwd'[x] # NIL => Together(x, fwd[x])'
    BY <1>1, <1>3 DEF MemberInv, Links, Together
  <2>7. /\ i' # NIL => Together(newec, i)'
        /\ oldec' # NIL => Together(newec, oldec)'
    BY <1>3, <1>12, <1>13, TogetherIsTransitive DEF Together
  <2>8. table' \in Tables /\ at' \in table' /\ cclflags' \subseteq After(at)' /\ rest' \subseteq After(at)'
    BY <1>1, <1>3 DEF MemberInv, After
  <2>9. Raw(newec') \in Processed' /\ (oldec' # NIL => Raw(oldec') \notin Processed')
        /\ (i' # NIL => Raw(i') \notin Processed')
    BY <1>2, <1>3, <1>10, <1>12, <1>13
  <2> QED
    BY <1>2, <1>3, <2>1, <2>2, <2>3, <2>4, <2>6, <2>7, <2>8, <2>9 DEF FollowInv
<1> QED
  BY <1>1, <1>8, <1>9, <1>14 DEF IInv, ClassesDecideTables, SinglesStandAlone

\* What the two steps along a list have in common.
LEMMA FollowFacts ==
  ASSUME TypeOK, Increasing, FollowInv, i # NIL
  PROVE  /\ i \in Members /\ newec \in Members /\ oldec \in Members \cup {NIL}
         /\ newec # i /\ oldec # i /\ newec # oldec /\ i # Mapped(at)
         /\ Mapped(at) \in Members
         /\ \A x \in Members : fwd[x] \in Members \cup {NIL} /\ fwd[x] # x
         /\ fwd[i] # NIL => fwd[i] > i /\ bck[fwd[i]] = i /\ Together(i, fwd[i])
                            /\ fwd[i] > newec /\ fwd[i] > oldec
         /\ \A x \in Members \ {newec, oldec} : fwd[x] # i
<1>1. i \in Members /\ oldec \in Members \cup {NIL} /\ at \in Chars
  BY MembersAreNumbers DEF TypeOK
<1>2. newec \in Members /\ newec # oldec /\ i > newec /\ i > oldec /\ newec >= Mapped(at)
      /\ bck[i] \in {newec, oldec}
  BY DEF FollowInv
<1>3. Mapped(at) \in Members
  BY <1>1, MappedRaw
<1>4. {i, newec, oldec, Mapped(at)} \subseteq Int
  BY <1>1, <1>2, <1>3, MembersAreNumbers DEF NIL
<1>5. newec # i /\ oldec # i /\ i # Mapped(at)
  BY <1>2, <1>4
<1>6. ASSUME NEW x \in Members PROVE fwd[x] \in Members \cup {NIL} /\ fwd[x] # x
  <2>1. x \in Int /\ x # NIL /\ fwd[x] \in Members \cup {NIL}
    BY Arrays, MembersAreNumbers
  <2>2. fwd[x] # NIL => fwd[x] > x
    BY DEF Increasing
  <2> QED
    BY <2>1, <2>2
<1>7. ASSUME fwd[i] # NIL
      PROVE  fwd[i] > i /\ bck[fwd[i]] = i /\ Together(i, fwd[i]) /\ fwd[i] > newec /\ fwd[i] > oldec
  <2>1. fwd[i] > i /\ bck[fwd[i]] = i /\ Together(i, fwd[i])
    BY <1>1, <1>5, <1>7 DEF Increasing, FollowInv
  <2>2. fwd[i] \in Int
    BY <1>1, <1>6, <1>7, MembersAreNumbers
  <2> QED
    BY <1>2, <1>4, <2>1, <2>2
<1>8. ASSUME NEW x \in Members \ {newec, oldec} PROVE fwd[x] # i
  BY <1>2 DEF FollowInv
<1> QED
  BY <1>1, <1>2, <1>3, <1>5, <1>6, <1>7, <1>8

LEMMA LinkCompanionInv ==
  ASSUME IInv, LinkCompanion
  PROVE  IInv'
<1>1. TypeOK /\ Increasing /\ Unnumbered /\ FollowInv /\ i # NIL /\ pc = "follow" /\ pc' = "follow"
  BY DEF IInv, LinkCompanion
<1>2. /\ i \in rest /\ newec' = i /\ cclflags' = cclflags \cup {i} /\ rest' \subseteq rest
      /\ UNCHANGED <<ccls, singles, table, at, oldec>>
  BY DEF LinkCompanion, IsCompanion
<1>3. /\ i \in Members /\ newec \in Members /\ oldec \in Members \cup {NIL}
      /\ newec # i /\ oldec # i /\ newec # oldec /\ i # Mapped(at)
      /\ \A x \in Members : fwd[x] \in Members \cup {NIL} /\ fwd[x] # x
      /\ fwd[i] # NIL => fwd[i] > i /\ bck[fwd[i]] = i /\ Together(i, fwd[i]) /\ fwd[i] > oldec
      /\ \A x \in Members \ {newec, oldec} : fwd[x] # i
  BY <1>1, FollowFacts
<1>4. fwd' = [fwd EXCEPT ![newec] = i] /\ bck' = [bck EXCEPT ![i] = newec]
  BY DEF LinkCompanion
<1>5. /\ \A x \in Members : fwd'[x] = IF x = newec THEN i ELSE fwd[x]
      /\ \A x \in Members : bck'[x] = IF x = i THEN newec ELSE bck[x]
  BY <1>1, <1>4, Arrays, MembersAreNumbers
<1>6. i' = fwd[i]
  BY <1>3, <1>5 DEF LinkCompanion
<1>7. i > newec /\ i > oldec /\ newec >= Mapped(at) /\ Together(newec, i)
      /\ (oldec # NIL => Together(newec, oldec))
  BY <1>1 DEF FollowInv
<1>8. TypeOK'
  <2>1. fwd' \in [0 .. csize -> 0 .. csize]
    BY <1>1, <1>3, <1>4, Arrays, MembersAreNumbers
  <2>2. bck' \in [0 .. csize -> -csize .. csize]
    <3>1. newec \in -csize .. csize
      BY <1>3, CsizeAssumption DEF Members
    <3> QED
      BY <1>1, <1>4, <3>1, Arrays
  <2>3. {oldec', newec', i'} \subseteq 0 .. csize
    BY <1>2, <1>3, <1>6, MembersAreNumbers
  <2>4. i \in Chars /\ rest' \subseteq Chars
    BY <1>1, <1>2 DEF TypeOK
  <2> QED
    BY <1>1, <1>2, <2>1, <2>2, <2>3, <2>4 DEF TypeOK, LinkCompanion, cre8ecsvars
<1>9. Increasing' /\ Unnumbered'
  <2>1. Increasing'
    BY <1>1, <1>3, <1>5, <1>7 DEF Increasing
  <2>2. \A x \in 0 .. csize : bck'[x] = IF x = i THEN newec ELSE bck[x]
    BY <1>1, <1>4, Arrays
  <2>3. newec >= 0
    BY <1>3, CsizeAssumption DEF Members
  <2> QED
    BY <1>1, <2>1, <2>2, <2>3 DEF Unnumbered, LinkCompanion, cre8ecsvars
<1>10. Processed' = Processed \cup {i} /\ Raw(i) = i
  <2>1. i \in Chars
    BY <1>1, <1>2 DEF TypeOK
  <2>2. Raw(i) = i
    BY <2>1, CsizeAssumption DEF Chars, Raw
  <2> QED
    BY <1>1, <1>2, <2>2 DEF Processed
<1>11. \A x \in Members \ {i} : Raw(x) \in Processed' <=> Raw(x) \in Processed
  BY <1>3, <1>10, MappedRaw
<1>12. FollowInv'
  <2>1. table' \in Tables /\ at' \in table' /\ cclflags' \subseteq After(at)' /\ rest' \subseteq After(at)'
    BY <1>1, <1>2 DEF FollowInv, After
  <2>2. newec' \in Members /\ newec' >= Mapped(at)' /\ newec' # oldec'
    <3>1. {i, newec, Mapped(at)} \subseteq Int
      BY <1>1, <1>3, FollowFacts, MembersAreNumbers
    <3> QED
      BY <1>2, <1>3, <1>7, <3>1 DEF Mapped
  <2>3. i' # NIL => i' > newec' /\ i' > oldec' /\ bck'[i'] \in {newec', oldec'} \ {NIL}
    BY <1>2, <1>3, <1>5, <1>6, MembersAreNumbers
  <2>4. /\ i' # NIL => Together(newec, i)'
        /\ oldec' # NIL => Together(newec, oldec)'
    BY <1>2, <1>3, <1>6, <1>7, TogetherIsTransitive DEF Together
  <2>5. /\ Raw(newec') \in Processed'
        /\ oldec' # NIL => Raw(oldec') \notin Processed'
        /\ i' # NIL => Raw(i') \notin Processed'
    <3>1. Raw(newec') \in Processed'
      BY <1>2, <1>10
    <3>2. oldec # NIL => Raw(oldec) \notin Processed'
      BY <1>1, <1>3, <1>11 DEF FollowInv
    <3>3. fwd[i] # NIL => Raw(fwd[i]) \notin Processed'
      BY <1>1, <1>3, <1>11 DEF FollowInv
    <3> QED
      BY <1>2, <1>6, <3>1, <3>2, <3>3
  <2>6. ASSUME NEW x \in Members, fwd'[x] # NIL PROVE Together(x, fwd[x])'
    <3>1. Together(x, fwd'[x])
      BY <1>1, <1>5, <1>7, <2>6 DEF FollowInv
    <3> QED
      BY <1>2, <3>1 DEF Together
  <2>7. ASSUME NEW x \in Members \ {newec', oldec'}, fwd'[x] # NIL
        PROVE  /\ bck'[fwd'[x]] = x
               /\ fwd'[x] # Mapped(at)
               /\ Raw(x) \in Processed' <=> Raw(fwd'[x]) \in Processed'
    <3>1. CASE x = newec
      <4>1. Raw(x) \in Processed'
        BY <1>1, <1>10, <3>1 DEF FollowInv
      <4> QED
        BY <1>3, <1>5, <1>10, <3>1, <4>1
    <3>2. CASE x # newec
      <4>1. fwd'[x] = fwd[x] /\ fwd[x] \in Members \ {i} /\ x # i /\ x # oldec
        BY <1>2, <1>3, <1>5, <2>7, <3>2
      <4>2. /\ bck[fwd[x]] = x
            /\ fwd[x] # Mapped(at)
            /\ Raw(x) \in Processed <=> Raw(fwd[x]) \in Processed
        BY <1>1, <2>7, <3>2, <4>1 DEF FollowInv
      <4> QED
        BY <1>5, <1>11, <2>7, <4>1, <4>2
    <3> QED
      BY <3>1, <3>2
  <2>8. ASSUME NEW y \in Members \ {i', Mapped(at)}, bck'[y] # NIL
        PROVE  bck'[y] \in Members \ {newec', oldec'} /\ fwd'[bck'[y]] = y
    <3>1. CASE y = i
      BY <1>2, <1>3, <1>5, <3>1
    <3>2. CASE y # i
      <4>1. bck'[y] = bck[y] /\ bck[y] \in Members \ {newec, oldec} /\ fwd[bck[y]] = y
        BY <1>1, <1>5, <2>8, <3>2 DEF FollowInv
      <4>2. bck[y] # i
        BY <1>6, <2>8, <4>1
      <4> QED
        BY <1>2, <1>5, <4>1, <4>2
    <3> QED
      BY <3>1, <3>2
  <2>9. Mapped(at)' = Mapped(at)
    BY <1>2 DEF Mapped
  <2> QED
    BY <2>1, <2>2, <2>3, <2>4, <2>5, <2>6, <2>7, <2>8, <2>9 DEF FollowInv
<1> QED
  BY <1>1, <1>8, <1>9, <1>12 DEF IInv, ClassesDecideTables, SinglesStandAlone

LEMMA LinkOtherInv ==
  ASSUME IInv, LinkOther
  PROVE  IInv'
<1>1. TypeOK /\ Increasing /\ Unnumbered /\ FollowInv /\ i # NIL /\ pc = "follow" /\ pc' = "follow"
  BY DEF IInv, LinkOther
<1>2. /\ oldec' = i /\ rest' \subseteq rest
      /\ UNCHANGED <<ccls, singles, table, at, newec, cclflags>>
  BY DEF LinkOther
<1>3. /\ i \in Members /\ newec \in Members /\ oldec \in Members \cup {NIL}
      /\ newec # i /\ oldec # i /\ newec # oldec /\ i # Mapped(at)
      /\ \A x \in Members : fwd[x] \in Members \cup {NIL} /\ fwd[x] # x
      /\ fwd[i] # NIL => fwd[i] > i /\ bck[fwd[i]] = i /\ Together(i, fwd[i]) /\ fwd[i] > newec
      /\ \A x \in Members \ {newec, oldec} : fwd[x] # i
  BY <1>1, FollowFacts
<1>4. /\ fwd' = IF oldec # NIL THEN [fwd EXCEPT ![oldec] = i] ELSE fwd
      /\ bck' = [bck EXCEPT ![i] = oldec]
  BY DEF LinkOther
<1>5. /\ \A x \in Members : fwd'[x] = IF x = oldec THEN i ELSE fwd[x]
      /\ \A x \in Members : bck'[x] = IF x = i THEN oldec ELSE bck[x]
  BY <1>1, <1>4, Arrays, MembersAreNumbers
<1>6. i' = fwd[i]
  BY <1>3, <1>5 DEF LinkOther
<1>7. i > newec /\ i > oldec /\ Together(newec, i) /\ (oldec # NIL => Together(newec, oldec))
  BY <1>1 DEF FollowInv
<1>8. TypeOK'
  <2>1. fwd' \in [0 .. csize -> 0 .. csize]
    BY <1>1, <1>3, <1>4, Arrays, MembersAreNumbers
  <2>2. bck' \in [0 .. csize -> -csize .. csize]
    <3>1. oldec \in -csize .. csize
      BY <1>3, CsizeAssumption DEF Members, NIL
    <3> QED
      BY <1>1, <1>4, <3>1, Arrays
  <2>3. {oldec', newec', i'} \subseteq 0 .. csize
    BY <1>2, <1>3, <1>6, MembersAreNumbers
  <2>4. rest' \subseteq Chars
    BY <1>1, <1>2 DEF TypeOK
  <2> QED
    BY <1>1, <1>2, <2>1, <2>2, <2>3, <2>4 DEF TypeOK, LinkOther, cre8ecsvars
<1>9. Increasing' /\ Unnumbered'
  <2>1. Increasing'
    BY <1>1, <1>3, <1>5, <1>7 DEF Increasing
  <2>2. \A x \in 0 .. csize : bck'[x] = IF x = i THEN oldec ELSE bck[x]
    BY <1>1, <1>4, Arrays
  <2>3. oldec >= 0
    BY <1>3, CsizeAssumption DEF Members, NIL
  <2> QED
    BY <1>1, <2>1, <2>2, <2>3 DEF Unnumbered, LinkOther, cre8ecsvars
<1>10. Processed' = Processed
  BY <1>1, <1>2 DEF Processed
<1>11. FollowInv'
  <2>1. table' \in Tables /\ at' \in table' /\ cclflags' \subseteq After(at)' /\ rest' \subseteq After(at)'
    BY <1>1, <1>2 DEF FollowInv, After
  <2>2. newec' \in Members /\ newec' >= Mapped(at)' /\ newec' # oldec'
    BY <1>1, <1>2, <1>3 DEF FollowInv, Mapped
  <2>3. i' # NIL => i' > newec' /\ i' > oldec' /\ bck'[i'] \in {newec', oldec'} \ {NIL}
    BY <1>2, <1>3, <1>5, <1>6, MembersAreNumbers
  <2>4. /\ i' # NIL => Together(newec, i)'
        /\ oldec' # NIL => Together(newec, oldec)'
    BY <1>2, <1>3, <1>6, <1>7, TogetherIsTransitive DEF Together
  <2>5. /\ Raw(newec') \in Processed'
        /\ oldec' # NIL => Raw(oldec') \notin Processed'
        /\ i' # NIL => Raw(i') \notin Processed'
    <3>1. Raw(newec) \in Processed /\ Raw(i) \notin Processed
      BY <1>1 DEF FollowInv
    <3>2. fwd[i] # NIL => Raw(fwd[i]) \notin Processed
      BY <1>1, <1>3 DEF FollowInv
    <3> QED
      BY <1>2, <1>6, <1>10, <3>1, <3>2
  <2>6. ASSUME NEW x \in Members, fwd'[x] # NIL PROVE Together(x, fwd[x])'
    <3>1. Together(x, fwd'[x])
      <4>1. CASE x = oldec
        BY <1>5, <1>7, <4>1, MembersAreNumbers, TogetherIsTransitive
      <4>2. CASE x # oldec
        BY <1>1, <1>5, <2>6, <4>2 DEF FollowInv
      <4> QED
        BY <4>1, <4>2
    <3> QED
      BY <1>2, <3>1 DEF Together
  <2>7. ASSUME NEW x \in Members \ {newec', oldec'}, fwd'[x] # NIL
        PROVE  /\ bck'[fwd'[x]] = x
               /\ fwd'[x] # Mapped(at)
               /\ Raw(x) \in Processed' <=> Raw(fwd'[x]) \in Processed'
    <3>1. CASE x = oldec
      <4>1. Raw(x) \notin Processed /\ Raw(i) \notin Processed
        BY <1>1, <3>1, MembersAreNumbers DEF FollowInv
      <4> QED
        BY <1>3, <1>5, <1>10, <3>1, <4>1
    <3>2. CASE x # oldec
      <4>1. fwd'[x] = fwd[x] /\ fwd[x] \in Members \ {i} /\ x # i /\ x # newec
        BY <1>2, <1>3, <1>5, <2>7, <3>2
      <4>2. /\ bck[fwd[x]] = x
            /\ fwd[x] # Mapped(at)
            /\ Raw(x) \in Processed <=> Raw(fwd[x]) \in Processed
        BY <1>1, <2>7, <3>2, <4>1 DEF FollowInv
      <4> QED
        BY <1>5, <1>10, <4>1, <4>2
    <3> QED
      BY <3>1, <3>2
  <2>8. ASSUME NEW y \in Members \ {i', Mapped(at)}, bck'[y] # NIL
        PROVE  bck'[y] \in Members \ {newec', oldec'} /\ fwd'[bck'[y]] = y
    <3>1. CASE y = i
      BY <1>2, <1>3, <1>5, <2>8, <3>1
    <3>2. CASE y # i
      <4>1. bck'[y] = bck[y] /\ bck[y] \in Members \ {newec, oldec} /\ fwd[bck[y]] = y
        BY <1>1, <1>5, <2>8, <3>2 DEF FollowInv
      <4>2. bck[y] # i
        BY <1>6, <2>8, <4>1
      <4> QED
        BY <1>2, <1>5, <4>1, <4>2
    <3> QED
      BY <3>1, <3>2
  <2>9. Mapped(at)' = Mapped(at)
    BY <1>2 DEF Mapped
  <2> QED
    BY <2>1, <2>2, <2>3, <2>4, <2>5, <2>6, <2>7, <2>8, <2>9 DEF FollowInv
<1> QED
  BY <1>1, <1>8, <1>9, <1>11 DEF IInv, ClassesDecideTables, SinglesStandAlone

\* What EndMember leaves: lists again, in which the processed members are
\* whole lists.
LEMMA EndMemberLinks ==
  ASSUME TypeOK, Increasing, Unnumbered, FollowInv, i = NIL, pc = "follow", EndMember
  PROVE  /\ fwd' \in [0 .. csize -> 0 .. csize] /\ bck' \in [0 .. csize -> -csize .. csize]
         /\ Increasing' /\ \A x \in 0 .. csize : bck'[x] >= 0
         /\ \A x \in Members : fwd'[x] # NIL =>
              /\ bck'[fwd'[x]] = x /\ Together(x, fwd'[x])
              /\ Raw(x) \in Processed <=> Raw(fwd'[x]) \in Processed
         /\ \A y \in Members : bck'[y] # NIL => bck'[y] \in Members /\ fwd'[bck'[y]] = y
<1>1. PICK m \in Members : m = Mapped(at) /\ Raw(m) = at
  BY MappedRaw DEF TypeOK
<1>2. newec \in Members /\ oldec \in Members \cup {NIL} /\ newec # oldec
  BY MembersAreNumbers DEF FollowInv, TypeOK
<1>3. DEFINE split == bck[m] # NIL \/ oldec # bck[m]
<1>4. /\ fwd' = [IF split THEN [fwd EXCEPT ![oldec] = NIL] ELSE fwd EXCEPT ![newec] = NIL]
      /\ bck' = IF split THEN [bck EXCEPT ![m] = NIL] ELSE bck
  BY <1>1 DEF EndMember
<1>5. ~split => oldec = NIL
  OBVIOUS
<1>6. /\ \A x \in Members : fwd'[x] = IF x \in {newec, oldec} THEN NIL ELSE fwd[x]
      /\ \A x \in Members : bck'[x] = IF x = m THEN NIL ELSE bck[x]
  <2>1. ASSUME NEW x \in Members PROVE fwd'[x] = IF x \in {newec, oldec} THEN NIL ELSE fwd[x]
    <3>1. CASE split
      BY <1>2, <1>4, <3>1, Arrays, MembersAreNumbers
    <3>2. CASE ~split
      BY <1>2, <1>4, <1>5, <3>2, Arrays, MembersAreNumbers
    <3> QED
      BY <3>1, <3>2
  <2>2. ASSUME NEW x \in Members PROVE bck'[x] = IF x = m THEN NIL ELSE bck[x]
    BY <1>1, <1>4, Arrays, MembersAreNumbers
  <2> QED
    BY <2>1, <2>2
<1> HIDE DEF split
<1>7. fwd' \in [0 .. csize -> 0 .. csize]
  BY <1>2, <1>4, Arrays, MembersAreNumbers
<1>8. bck' \in [0 .. csize -> -csize .. csize]
  <2>1. NIL \in -csize .. csize
    BY CsizeAssumption DEF NIL
  <2> QED
    BY <1>1, <1>4, <2>1, Arrays
<1>9. Increasing'
  BY <1>6 DEF Increasing
<1>10. \A x \in 0 .. csize : bck'[x] >= 0
  <2>1. \A x \in 0 .. csize : bck'[x] \in {bck[x], NIL}
    BY <1>1, <1>4, Arrays, MembersAreNumbers
  <2> QED
    BY <2>1 DEF Unnumbered, NIL
<1>11. ASSUME NEW x \in Members, fwd'[x] # NIL
       PROVE  /\ bck'[fwd'[x]] = x /\ Together(x, fwd'[x])
              /\ Raw(x) \in Processed <=> Raw(fwd'[x]) \in Processed
  <2>1. x \in Members \ {newec, oldec} /\ fwd'[x] = fwd[x]
    BY <1>6, <1>11
  <2>2. fwd[x] \in Members /\ fwd[x] # m /\ bck[fwd[x]] = x
    BY <1>1, <1>11, <2>1, Arrays DEF FollowInv
  <2>3. Together(x, fwd[x]) /\ (Raw(x) \in Processed <=> Raw(fwd[x]) \in Processed)
    BY <1>11, <2>1 DEF FollowInv
  <2> QED
    BY <1>6, <2>1, <2>2, <2>3
<1>12. ASSUME NEW y \in Members, bck'[y] # NIL
       PROVE  bck'[y] \in Members /\ fwd'[bck'[y]] = y
  <2>1. y # m /\ y # i /\ bck'[y] = bck[y]
    BY <1>6, <1>12, MembersAreNumbers
  <2>2. bck[y] \in Members \ {newec, oldec} /\ fwd[bck[y]] = y
    BY <1>1, <1>12, <2>1 DEF FollowInv
  <2> QED
    BY <1>6, <2>1, <2>2
<1> QED
  BY <1>7, <1>8, <1>9, <1>10, <1>11, <1>12

\* The member that mkeccl() goes on with is the first that has not been
\* processed.
LEMMA NextMember ==
  ASSUME TypeOK, FollowInv, After(at) # Skipped,
         NEW n, n = Least(After(at) \ Skipped)
  PROVE  /\ n \in After(at) /\ n \notin cclflags
         /\ \A d \in table : d < n <=> d <= at \/ d \in Skipped
         /\ \A d \in cclflags \ Skipped : d > n
<1> DEFINE R == After(at) \ Skipped
<1>1. R # {} /\ R \subseteq Chars
  BY AfterIsChars DEF Skipped
<1>2. n \in R /\ \A d \in R : n <= d
  BY <1>1, LeastIsLeast
<1>3. at \in Int /\ n \in Int /\ table \subseteq Int /\ After(at) \subseteq table
  BY <1>1, <1>2, CharsAreNumbers, AfterIsChars DEF TypeOK, After
<1>4. \A d \in Skipped : d \in cclflags
  <2> SUFFICES ASSUME NEW d \in Skipped PROVE d \in cclflags
    OBVIOUS
  <2>1. d \in Int /\ d \in After(at)
    BY <1>3 DEF Skipped
  <2> QED
    BY <2>1 DEF Skipped
<1>5. n \notin cclflags
  <2> SUFFICES ASSUME n \in cclflags PROVE n \in Skipped
    BY <1>2
  <2>1. ASSUME NEW e \in After(at), e <= n PROVE e \in cclflags
    <3>1. CASE e \in Skipped
      BY <1>4, <3>1
    <3>2. CASE e \notin Skipped
      <4>1. n <= e /\ e \in Int
        BY <1>2, <1>3, <3>2
      <4>2. e = n
        BY <1>3, <2>1, <4>1
      <4> QED
        BY <4>2
    <3> QED
      BY <3>1, <3>2
  <2> QED
    BY <1>2, <2>1 DEF Skipped
<1>6. ASSUME NEW d \in table PROVE d < n <=> d <= at \/ d \in Skipped
  <2>1. d \in Int /\ n > at
    BY <1>2, <1>3 DEF After
  <2>2. CASE d <= at
    BY <1>3, <2>1, <2>2
  <2>3. CASE d \in Skipped
    <3>1. n \in After(at) /\ \A e \in After(at) : e <= d => e \in cclflags
      BY <1>2, <2>3 DEF Skipped
    <3>2. ~(n <= d)
      BY <1>5, <3>1
    <3> QED
      BY <1>3, <2>1, <2>3, <3>2
  <2>4. CASE ~(d <= at) /\ d \notin Skipped
    <3>1. d \in R
      BY <1>3, <2>1, <2>4 DEF After
    <3>2. n <= d
      BY <1>2, <3>1
    <3> QED
      BY <1>3, <2>1, <2>4, <3>2
  <2> QED
    BY <2>2, <2>3, <2>4
<1>7. ASSUME NEW d \in cclflags \ Skipped PROVE d > n
  <2>1. d \in R
    BY DEF FollowInv
  <2>2. n <= d /\ d # n /\ d \in Int
    BY <1>2, <1>3, <1>5, <2>1
  <2> QED
    BY <1>3, <2>2
<1> QED
  BY <1>2, <1>5, <1>6, <1>7

\* The members processed are the whole class in the end; they stay the same
\* when the flags of those passed over are reset.
LEMMA EndMemberProcessed ==
  ASSUME TypeOK, FollowInv, pc = "follow", EndMember
  PROVE  IF After(at) = Skipped THEN Processed = table ELSE Processed' = Processed
<1>1. /\ cclflags \subseteq After(at) /\ After(at) \subseteq table
      /\ table \subseteq Int /\ at \in Int
  BY AfterIsChars DEF FollowInv, After
<1>2. Processed = {d \in table : d <= at} \cup cclflags
  BY DEF Processed
<1>3. \A d \in Skipped : d \in cclflags /\ d \in table
  <2> SUFFICES ASSUME NEW d \in Skipped PROVE d \in cclflags /\ d \in table
    OBVIOUS
  <2>1. d \in After(at) /\ d \in Int
    BY <1>1 DEF Skipped
  <2> QED
    BY <1>1, <2>1 DEF Skipped
<1>4. CASE After(at) = Skipped
  <2>1. ASSUME NEW d \in table PROVE d \in Processed
    <3>1. CASE d <= at
      BY <1>2, <3>1
    <3>2. CASE ~(d <= at)
      BY <1>1, <1>2, <1>3, <1>4, <3>2 DEF After
    <3> QED
      BY <3>1, <3>2
  <2> QED
    BY <1>1, <1>2, <1>4, <2>1
<1>5. CASE After(at) # Skipped
  <2>1. /\ pc' = "member" /\ UNCHANGED table /\ cclflags' = cclflags \ Skipped
        /\ at' = Least(After(at) \ Skipped)
    BY <1>5 DEF EndMember
  <2>2. \A d \in table : d < at' <=> d <= at \/ d \in Skipped
    BY <1>5, <2>1, NextMember
  <2>3. Processed' = {d \in table : d < at'} \cup (cclflags \ Skipped)
    BY <2>1 DEF Processed
  <2> QED
    BY <1>1, <1>2, <1>3, <1>5, <2>2, <2>3
<1> QED
  BY <1>4, <1>5

LEMMA EndMemberInv ==
  ASSUME IInv, EndMember
  PROVE  IInv'
<1>1. TypeOK /\ Increasing /\ Unnumbered /\ FollowInv /\ i = NIL /\ pc = "follow"
  BY DEF IInv, EndMember
<1>2. /\ fwd' \in [0 .. csize -> 0 .. csize] /\ bck' \in [0 .. csize -> -csize .. csize]
      /\ Increasing' /\ \A x \in 0 .. csize : bck'[x] >= 0
      /\ \A x \in Members : fwd'[x] # NIL =>
           /\ bck'[fwd'[x]] = x /\ Together(x, fwd'[x])
           /\ Raw(x) \in Processed <=> Raw(fwd'[x]) \in Processed
      /\ \A y \in Members : bck'[y] # NIL => bck'[y] \in Members /\ fwd'[bck'[y]] = y
  BY <1>1, EndMemberLinks
<1>3. cclflags \subseteq After(at) /\ After(at) \subseteq table /\ table \in Tables /\ at \in table
  BY <1>1 DEF FollowInv, After
<1>4. cclflags' = cclflags \ Skipped /\ UNCHANGED table
  BY DEF EndMember
<1>5. Unnumbered'
  BY <1>1, <1>2 DEF Unnumbered, EndMember, cre8ecsvars
<1>6. table \subseteq Int /\ at \in Int
  BY <1>1, <1>3, AfterIsChars
<1>7. Processed = {d \in table : d <= at} \cup cclflags
  BY <1>1 DEF Processed
<1>8. CASE After(at) = Skipped
  <2>1. pc' = "parse" /\ ccls' = ccls \cup {table} /\ UNCHANGED <<at, singles>>
    BY <1>8 DEF EndMember
  <2>2. Processed = table
    BY <1>1, <1>8, EndMemberProcessed
  <2>3. TypeOK'
    BY <1>1, <1>2, <1>3, <1>4, <2>1 DEF TypeOK, EndMember, cre8ecsvars
  <2>4. ParseInv'
    <3>1. cclflags' = {}
      BY <1>3, <1>4, <1>8
    <3>2. ASSUME NEW x \in Members, fwd'[x] # NIL PROVE Together(x, fwd[x])'
      <4>1. Together(x, fwd'[x]) /\ (Raw(x) \in table <=> Raw(fwd'[x]) \in table)
        BY <1>2, <2>2, <3>2
      <4> QED
        BY <2>1, <4>1 DEF Together
    <3> QED
      BY <1>2, <3>1, <3>2 DEF ParseInv, Links
  <2> QED
    BY <1>2, <1>5, <2>1, <2>3, <2>4 DEF IInv, ClassesDecideTables, SinglesStandAlone
<1>9. CASE After(at) # Skipped
  <2>1. pc' = "member" /\ UNCHANGED <<ccls, singles>> /\ at' = Least(After(at) \ Skipped)
    BY <1>9 DEF EndMember
  <2>2. /\ at' \in After(at) /\ at' \notin cclflags
        /\ \A d \in table : d < at' <=> d <= at \/ d \in Skipped
        /\ \A d \in cclflags \ Skipped : d > at'
    BY <1>1, <1>9, <2>1, NextMember
  <2>3. TypeOK'
    <3>1. at' \in Chars /\ cclflags' \subseteq Chars
      BY <1>1, <1>4, <2>2, AfterIsChars DEF TypeOK
    <3> QED
      BY <1>1, <1>2, <1>4, <2>1, <3>1 DEF TypeOK, EndMember, cre8ecsvars
  <2>4. Processed' = Processed
    BY <1>1, <1>9, EndMemberProcessed
  <2>5. MemberInv'
    <3>1. Links'
      BY <1>2, <2>1 DEF Links, Together
    <3>2. cclflags' \subseteq After(at)'
      BY <1>3, <1>4, <2>2 DEF After
    <3>3. \A x \in Members : fwd'[x] # NIL => (Raw(x) \in Processed' <=> Raw(fwd'[x]) \in Processed')
      BY <1>2, <2>4
    <3> QED
      BY <1>3, <1>4, <2>2, <3>1, <3>2, <3>3 DEF MemberInv
  <2> QED
    BY <1>2, <1>5, <2>1, <2>3, <2>5 DEF IInv, ClassesDecideTables, SinglesStandAlone
<1> QED
  BY <1>8, <1>9

----------------------------------------------------------------------------
(* cre8ecs() and ccl2ecl()                                                 *)

LEMMA BeginNumberingInv ==
  ASSUME IInv, BeginNumbering
  PROVE  IInv'
<1>1. /\ TypeOK /\ Increasing /\ Unnumbered /\ Links /\ pc = "parse" /\ pc' = "number"
      /\ UNCHANGED <<fwd, bck, ccls, singles, numecs, start>>
  BY DEF IInv, ParseInv, BeginNumbering, cre8ecsvars
<1>2. numecs = 0 /\ start = 1 /\ \A x \in Members : bck[x] >= 0 /\ bck[x] \in Int
  BY <1>1, Arrays, MembersAreNumbers DEF Unnumbered
<1>3. Numbered' = {}
  BY <1>1, <1>2 DEF Numbered, Members
<1>4. TypeOK'
  BY <1>1 DEF TypeOK, BeginNumbering, mkecclvars, cre8ecsvars
<1>5. NumberInv'
  <2>1. \A x, y \in Members : fwd[x] # NIL /\ fwd[x] = fwd[y] => x = y
    BY <1>1 DEF Links
  <2>2. \A x \in Members : fwd[x] # NIL => bck[fwd[x]] = x /\ Together(x, fwd[x])'
    BY <1>1 DEF Links, Together
  <2> QED
    BY <1>1, <1>2, <1>3, <2>1, <2>2 DEF NumberInv, Links
<1>6. BetweenInv'
  BY <1>1, <1>2, <1>3 DEF BetweenInv
<1> QED
  BY <1>1, <1>4, <1>5, <1>6 DEF IInv, Increasing, Unnumbered, ClassesDecideTables, SinglesStandAlone

LEMMA NumberHeadInv ==
  ASSUME IInv, NumberHead
  PROVE  IInv'
<1>1. /\ TypeOK /\ Increasing /\ NumberInv /\ BetweenInv /\ pc = "number"
      /\ start <= csize /\ UNCHANGED <<fwd, ccls, singles>>
  BY DEF IInv, NumberHead
<1>2. start \in Members /\ start \in 1 .. csize /\ numecs \in 0 .. csize /\ csize \in Nat
  BY <1>1, CsizeAssumption DEF TypeOK, Members
<1>3. Numbered = {x \in Members : x < start \/ bck[x] < 0}
  BY <1>1 DEF Numbered
<1>4. \A x, y : Together(x, y)' <=> Together(x, y)
  BY <1>1 DEF Together
<1>5. CASE bck[start] = NIL
  <2>1. /\ numecs' = numecs + 1 /\ bck' = [bck EXCEPT ![start] = numecs + 1]
        /\ i' = fwd[start] /\ pc' = "spread" /\ UNCHANGED start
    BY <1>5 DEF NumberHead
  <2>2. numecs' \in 1 .. start /\ numecs' \in 0 .. csize /\ numecs' \in -csize .. csize
    BY <1>1, <1>2, <2>1 DEF BetweenInv
  <2>3. \A x \in Members : bck'[x] = IF x = start THEN numecs' ELSE bck[x]
    BY <1>1, <2>1, Arrays, MembersAreNumbers
  <2>4. start \notin Numbered /\ Numbered' = Numbered \cup {start}
    <3>1. ~(start < start) /\ ~(bck[start] < 0)
      BY <1>2, <1>5 DEF NIL
    <3>2. ~(numecs' < 0)
      BY <2>2
    <3>3. Numbered' = {x \in Members : x < start \/ bck'[x] < 0 \/ x = start}
      BY <2>1 DEF Numbered
    <3> QED
      BY <1>2, <1>3, <2>3, <3>1, <3>2, <3>3
  <2>5. TypeOK'
    <3>1. fwd[start] \in 0 .. csize
      BY <1>1, <1>2, Arrays, MembersAreNumbers
    <3>2. bck' \in [0 .. csize -> -csize .. csize]
      BY <1>1, <2>1, <2>2, Arrays
    <3> QED
      BY <1>1, <2>1, <2>2, <3>1, <3>2 DEF TypeOK, NumberHead, mkecclvars
  <2>6. \A x \in Members : fwd[x] # start
    <3> SUFFICES ASSUME NEW x \in Members, fwd[x] = start PROVE FALSE
      OBVIOUS
    <3>1. bck[start] = x
      BY <1>1, <1>2, <2>4, MembersAreNumbers DEF NumberInv
    <3> QED
      BY <1>5, <3>1, MembersAreNumbers
  <2>7. /\ \A x \in Numbered : Abs(bck[x]) \in 1 .. numecs
        /\ Abs(numecs') = numecs' /\ \A n \in 1 .. numecs : n # numecs'
    BY <1>1, <1>2, <2>1, <2>2 DEF NumberInv, Abs
  <2>8. NumberInv'
    <3>1. \A x \in Numbered' : Abs(bck'[x]) \in 1 .. numecs'
      <4>1. \A n \in 1 .. numecs : n \in 1 .. numecs'
        BY <1>2, <2>1
      <4> QED
        BY <2>2, <2>3, <2>4, <2>7, <4>1 DEF Numbered
    <3>2. ASSUME NEW x \in Numbered', NEW y \in Numbered', Abs(bck'[x]) = Abs(bck'[y])
          PROVE  Together(x, y)
      <4>1. x \in Members /\ y \in Members
        BY DEF Numbered
      <4>2. CASE x = start
        <5>1. y = start
          BY <2>3, <2>4, <2>7, <3>2, <4>1, <4>2
        <5> QED
          BY <4>2, <5>1 DEF Together
      <4>3. CASE x # start
        <5>1. y # start /\ x \in Numbered /\ y \in Numbered
          BY <2>3, <2>4, <2>7, <3>2, <4>1, <4>3
        <5> QED
          BY <1>1, <2>3, <3>2, <4>1, <4>3, <5>1 DEF NumberInv
      <4> QED
        BY <4>2, <4>3
    <3>3. ASSUME NEW n \in 1 .. numecs' PROVE \E x \in Numbered' : bck'[x] = n
      <4>1. CASE n = numecs'
        BY <1>2, <2>3, <2>4, <4>1
      <4>2. CASE n # numecs'
        <5>1. n \in 1 .. numecs
          BY <1>2, <2>1, <4>2
        <5>2. PICK x \in Numbered : bck[x] = n
          BY <1>1, <5>1 DEF NumberInv
        <5>3. x # start /\ x \in Members
          BY <2>4, <5>2 DEF Numbered
        <5> QED
          BY <2>3, <2>4, <5>2, <5>3
      <4> QED
        BY <4>1, <4>2
    <3>4. ASSUME NEW x \in Members, fwd[x] # NIL, fwd[x] \notin Numbered' PROVE bck'[fwd[x]] = x
      BY <1>1, <2>3, <2>4, <3>4, Arrays DEF NumberInv
    <3>5. ASSUME NEW y \in Members \ Numbered', bck'[y] # NIL
          PROVE  bck'[y] \in Members /\ fwd[bck'[y]] = y
      BY <1>1, <2>3, <2>4, <3>5 DEF NumberInv
    <3>6. ASSUME NEW x \in Members, fwd[x] # NIL, fwd[x] \in Numbered' PROVE x \in Numbered'
      BY <1>1, <2>4, <2>6, <3>6 DEF NumberInv
    <3> QED
      BY <1>1, <1>4, <3>1, <3>2, <3>3, <3>4, <3>5, <3>6 DEF NumberInv
  <2>9. SpreadInv'
    <3>1. ASSUME NEW x \in Numbered', fwd[x] # NIL, fwd[x] # fwd[start]
          PROVE  fwd[x] \in Numbered' /\ Abs(bck'[fwd[x]]) = Abs(bck'[x])
      <4>1. x # start /\ x \in Numbered
        BY <2>4, <3>1
      <4>2. fwd[x] \in Numbered /\ Abs(bck[fwd[x]]) = Abs(bck[x])
        BY <1>1, <3>1, <4>1 DEF BetweenInv
      <4>3. fwd[x] # start /\ x \in Members /\ fwd[x] \in Members
        BY <2>4, <4>1, <4>2 DEF Numbered
      <4> QED
        BY <2>3, <2>4, <4>1, <4>2, <4>3
    <3>2. ASSUME fwd[start] # NIL PROVE fwd[start] \notin Numbered'
      BY <1>1, <1>2, <2>4, <2>6, <3>2 DEF NumberInv
    <3>3. Abs(bck'[start]) = numecs'
      BY <1>2, <2>3, <2>7
    <3> QED
      BY <1>1, <2>1, <2>2, <2>4, <3>1, <3>2, <3>3 DEF SpreadInv
  <2> QED
    BY <1>1, <2>1, <2>5, <2>8, <2>9 DEF IInv, Increasing, Unnumbered, ClassesDecideTables, SinglesStandAlone
<1>6. CASE bck[start] # NIL
  <2>1. start' = start + 1 /\ pc' = "number" /\ UNCHANGED <<numecs, bck, i>>
    BY <1>1, <1>6 DEF NumberHead
  <2>2. start \in Numbered
    <3> SUFFICES ASSUME start \notin Numbered PROVE FALSE
      OBVIOUS
    <3>1. bck[start] \in Members /\ fwd[bck[start]] = start
      BY <1>1, <1>2, <1>6 DEF NumberInv
    <3>2. start > bck[start]
      BY <1>1, <1>2, <3>1, MembersAreNumbers DEF Increasing
    <3>3. bck[start] \in Numbered
      BY <1>2, <1>3, <3>1, <3>2, MembersAreNumbers
    <3> QED
      BY <1>1, <1>2, <3>1, <3>3, MembersAreNumbers DEF BetweenInv
  <2>3. Numbered' = Numbered
    <3>1. Numbered' = {x \in Members : x < start + 1 \/ bck[x] < 0}
      BY <2>1 DEF Numbered
    <3>2. \A x \in Members : x < start + 1 <=> x < start \/ x = start
      BY <1>2, MembersAreNumbers
    <3> QED
      BY <1>3, <2>2, <3>1, <3>2
  <2>4. TypeOK'
    <3>1. start' \in 1 .. csize + 1
      BY <1>2, <2>1, CsizeAssumption DEF Members
    <3> QED
      BY <1>1, <2>1, <3>1 DEF TypeOK, NumberHead, mkecclvars
  <2>5. NumberInv'
    BY <1>1, <1>4, <2>1, <2>3 DEF NumberInv
  <2>6. BetweenInv'
    BY <1>1, <1>2, <2>1, <2>3 DEF BetweenInv
  <2> QED
    BY <1>1, <2>1, <2>4, <2>5, <2>6 DEF IInv, Increasing, Unnumbered, ClassesDecideTables, SinglesStandAlone
<1> QED
  BY <1>5, <1>6

LEMMA SpreadStepInv ==
  ASSUME IInv, Spread
  PROVE  IInv'
<1>1. TypeOK /\ Increasing /\ NumberInv /\ SpreadInv /\ pc = "spread"
  BY DEF IInv, Spread
<1>2. /\ start \in Members /\ start \in Int /\ numecs \in Int /\ numecs >= 1
      /\ numecs <= start /\ numecs <= csize /\ start <= csize /\ csize \in Int
  BY <1>1, CsizeAssumption DEF SpreadInv, TypeOK, Members
<1>3. Numbered = {x \in Members : x < start \/ bck[x] < 0 \/ x = start}
  BY <1>1 DEF Numbered
<1>4. \A x, y : Together(x, y)' <=> Together(x, y)
  BY DEF Together, Spread
<1>5. CASE i # NIL
  <2>1. /\ bck' = [bck EXCEPT ![i] = -numecs] /\ i' = fwd[i]
        /\ UNCHANGED <<fwd, numecs, start, ccls, singles, pc>>
    BY <1>5 DEF Spread, Number
  <2>2. i \in Members /\ i \notin Numbered /\ i \in Int
    BY <1>1, <1>5, MembersAreNumbers DEF TypeOK, SpreadInv
  <2>3. PICK p \in Numbered : fwd[p] = i /\ Abs(bck[p]) = numecs
    BY <1>1, <1>5 DEF SpreadInv
  <2>4. \A x \in Members : bck'[x] = IF x = i THEN -numecs ELSE bck[x]
    BY <1>1, <2>1, <2>2, Arrays, MembersAreNumbers
  <2>5. Numbered' = Numbered \cup {i}
    <3>1. Numbered' = {x \in Members : x < start \/ bck'[x] < 0 \/ x = start}
      BY <1>1, <2>1 DEF Numbered
    <3>2. -numecs < 0
      BY <1>2
    <3> QED
      BY <1>3, <2>2, <2>4, <3>1, <3>2
  <2>6. p \in Members /\ Together(p, i)
    <3>1. p \in Members
      BY DEF Numbered
    <3> QED
      BY <1>1, <1>5, <2>3, <3>1 DEF NumberInv
  <2>7. Abs(-numecs) = numecs
    BY <1>2 DEF Abs
  <2>8. TypeOK'
    <3>1. fwd[i] \in 0 .. csize
      BY <1>1, <2>2, Arrays, MembersAreNumbers
    <3>2. -numecs \in -csize .. csize
      BY <1>2
    <3>3. bck' \in [0 .. csize -> -csize .. csize]
      BY <1>1, <2>1, <3>2, Arrays
    <3> QED
      BY <1>1, <2>1, <3>1, <3>3 DEF TypeOK, Spread, mkecclvars
  <2>9. NumberInv'
    <3>1. \A x \in Numbered' : Abs(bck'[x]) \in 1 .. numecs'
      <4>1. \A x \in Numbered : x \in Members /\ Abs(bck[x]) \in 1 .. numecs
        BY <1>1 DEF NumberInv, Numbered
      <4>2. numecs \in 1 .. numecs
        BY <1>2
      <4> QED
        BY <2>1, <2>2, <2>4, <2>5, <2>7, <4>1, <4>2
    <3>2. ASSUME NEW x \in Numbered' PROVE \E z \in Numbered : Together(x, z) /\ Abs(bck'[x]) = Abs(bck[z])
      <4>1. CASE x = i
        BY <2>2, <2>3, <2>4, <2>6, <2>7, <4>1, TogetherIsTransitive
      <4>2. CASE x # i
        <5>1. x \in Numbered /\ x \in Members
          BY <2>5, <4>2 DEF Numbered
        <5> QED
          BY <2>4, <4>2, <5>1 DEF Together
      <4> QED
        BY <4>1, <4>2
    <3>3. ASSUME NEW x \in Numbered', NEW y \in Numbered', Abs(bck'[x]) = Abs(bck'[y])
          PROVE  Together(x, y)
      <4>1. PICK v \in Numbered : Together(x, v) /\ Abs(bck'[x]) = Abs(bck[v])
        BY <3>2
      <4>2. PICK w \in Numbered : Together(y, w) /\ Abs(bck'[y]) = Abs(bck[w])
        BY <3>2
      <4>3. Together(v, w)
        <5>1. v \in Members /\ w \in Members
          BY DEF Numbered
        <5> QED
          BY <1>1, <3>3, <4>1, <4>2, <5>1 DEF NumberInv
      <4> QED
        BY <4>1, <4>2, <4>3, TogetherIsTransitive
    <3>4. ASSUME NEW n \in 1 .. numecs' PROVE \E x \in Numbered' : bck'[x] = n
      <4>1. PICK x \in Numbered : bck[x] = n
        BY <1>1, <2>1 DEF NumberInv
      <4>2. x # i /\ x \in Members
        BY <2>2, <4>1 DEF Numbered
      <4> QED
        BY <2>4, <2>5, <4>1, <4>2
    <3>5. ASSUME NEW x \in Members, fwd[x] # NIL, fwd[x] \notin Numbered' PROVE bck'[fwd[x]] = x
      BY <1>1, <2>4, <2>5, <3>5, Arrays DEF NumberInv
    <3>6. ASSUME NEW y \in Members \ Numbered', bck'[y] # NIL
          PROVE  bck'[y] \in Members /\ fwd[bck'[y]] = y
      BY <1>1, <2>4, <2>5, <3>6 DEF NumberInv
    <3>7. ASSUME NEW x \in Members, fwd[x] # NIL, fwd[x] \in Numbered' PROVE x \in Numbered'
      <4>1. CASE fwd[x] = i
        BY <1>1, <1>5, <2>3, <2>5, <2>6, <4>1 DEF NumberInv
      <4>2. CASE fwd[x] # i
        BY <1>1, <2>5, <3>7, <4>2 DEF NumberInv
      <4> QED
        BY <4>1, <4>2
    <3> QED
      BY <1>1, <1>4, <2>1, <3>1, <3>3, <3>4, <3>5, <3>6, <3>7 DEF NumberInv
  <2>10. SpreadInv'
    <3>1. ASSUME NEW x \in Numbered', fwd[x] # NIL, fwd[x] # fwd[i]
          PROVE  fwd[x] \in Numbered' /\ Abs(bck'[fwd[x]]) = Abs(bck'[x])
      <4>1. x # i /\ x \in Numbered /\ x \in Members
        BY <2>5, <3>1 DEF Numbered
      <4>2. CASE fwd[x] = i
        <5>1. x = p
          BY <1>1, <1>5, <2>3, <2>6, <4>1, <4>2 DEF NumberInv
        <5> QED
          BY <2>2, <2>3, <2>4, <2>5, <2>7, <4>1, <4>2, <5>1
      <4>3. CASE fwd[x] # i
        <5>1. fwd[x] \in Numbered /\ Abs(bck[fwd[x]]) = Abs(bck[x])
          BY <1>1, <3>1, <4>1, <4>3 DEF SpreadInv
        <5>2. fwd[x] \in Members
          BY <5>1 DEF Numbered
        <5> QED
          BY <2>4, <2>5, <4>1, <4>3, <5>1, <5>2
      <4> QED
        BY <4>2, <4>3
    <3>2. ASSUME fwd[i] # NIL PROVE fwd[i] \notin Numbered'
      <4>1. fwd[i] > i /\ fwd[i] \in Members
        BY <1>1, <2>2, <3>2, Arrays DEF Increasing
      <4>2. fwd[i] # i
        BY <2>2, <4>1, MembersAreNumbers
      <4> QED
        BY <1>1, <2>2, <2>5, <3>2, <4>2 DEF NumberInv
    <3>3. Abs(bck'[i]) = numecs
      BY <2>2, <2>4, <2>7
    <3>4. numecs \in 1 .. start
      BY <1>2
    <3> QED
      BY <1>2, <2>1, <2>5, <3>1, <3>2, <3>3, <3>4 DEF SpreadInv
  <2> QED
    BY <1>1, <2>1, <2>8, <2>9, <2>10 DEF IInv, Increasing, Unnumbered, ClassesDecideTables, SinglesStandAlone
<1>6. CASE i = NIL
  <2>1. pc' = "number" /\ start' = start + 1 /\ UNCHANGED <<fwd, bck, i, ccls, singles, numecs>>
    BY <1>6 DEF Spread
  <2>2. Numbered' = Numbered
    <3>1. Numbered' = {x \in Members : x < start + 1 \/ bck[x] < 0}
      BY <2>1 DEF Numbered
    <3>2. \A x \in Members : x < start + 1 <=> x < start \/ x = start
      BY <1>2, MembersAreNumbers
    <3> QED
      BY <1>3, <3>1, <3>2
  <2>3. TypeOK'
    <3>1. start' \in 1 .. csize + 1
      BY <1>2, <2>1, CsizeAssumption DEF Members
    <3> QED
      BY <1>1, <2>1, <3>1 DEF TypeOK, Spread, mkecclvars
  <2>4. NumberInv'
    BY <1>1, <1>4, <2>1, <2>2 DEF NumberInv
  <2>5. BetweenInv'
    <3>1. \A x \in Numbered : fwd[x] # NIL =>
            fwd[x] \in Numbered /\ Abs(bck[fwd[x]]) = Abs(bck[x])
      BY <1>1, <1>6 DEF SpreadInv
    <3>2. numecs < start + 1
      BY <1>2
    <3> QED
      BY <2>1, <2>2, <3>1, <3>2 DEF BetweenInv
  <2> QED
    BY <1>1, <2>1, <2>3, <2>4, <2>5 DEF IInv, Increasing, Unnumbered, ClassesDecideTables, SinglesStandAlone
<1> QED
  BY <1>5, <1>6

\* All members are numbered, and what ccl2ecl() writes stands for the classes.
LEMMA FinishInv ==
  ASSUME IInv, Finish
  PROVE  IInv'
<1>1. TypeOK /\ Increasing /\ NumberInv /\ pc = "number" /\ start > csize /\ pc' = "done"
  BY DEF IInv, Finish
<1>2. /\ bck' = [bck EXCEPT ![0] = bck[csize]]
      /\ UNCHANGED <<ccls, singles>> /\ ecls' = [T \in ccls |-> EclOf(bck', T)]
  BY DEF Finish
<1>3. TypeOK'
  <2>1. bck[csize] \in -csize .. csize
    BY <1>1, Arrays, MembersAreNumbers
  <2>2. bck' \in [0 .. csize -> -csize .. csize]
    BY <1>1, <1>2, <2>1, Arrays
  <2> QED
    BY <1>1, <2>2 DEF TypeOK, Finish, mkecclvars
<1>4. ASSUME NEW c \in Chars
      PROVE  /\ Mapped(c) \in Numbered /\ Mapped(c) \in Members /\ Raw(Mapped(c)) = c
             /\ bck'[c] = bck[Mapped(c)]
  <2>1. Mapped(c) \in Members /\ Raw(Mapped(c)) = c
    BY MappedRaw
  <2>2. Mapped(c) < start
    BY <1>1, <2>1, CsizeAssumption DEF Members, TypeOK
  <2>3. c \in 0 .. csize /\ 0 \in 0 .. csize
    BY CsizeAssumption DEF Chars
  <2>4. bck'[c] = bck[Mapped(c)]
    BY <1>1, <1>2, <2>3, Arrays DEF Mapped
  <2> QED
    BY <2>1, <2>2, <2>4 DEF Numbered
<1>5. ASSUME NEW c \in Chars, NEW d \in Chars, NEW T \in ccls, Abs(bck'[c]) = Abs(bck'[d])
      PROVE  c \in T <=> d \in T
  <2>1. Together(Mapped(c), Mapped(d))
    BY <1>1, <1>4, <1>5 DEF NumberInv
  <2> QED
    BY <1>4, <2>1 DEF Together
<1>6. ASSUME NEW c \in Chars
      PROVE  \E d \in Chars : bck'[d] = Abs(bck'[c]) /\ bck'[d] > 0
  <2>1. Abs(bck'[c]) \in 1 .. numecs
    BY <1>1, <1>4 DEF NumberInv
  <2>2. PICK x \in Numbered : bck[x] = Abs(bck'[c])
    BY <1>1, <2>1 DEF NumberInv
  <2>3. x \in Members /\ Raw(x) \in Chars /\ Mapped(Raw(x)) = x
    BY MappedRaw DEF Numbered
  <2>4. Abs(bck'[c]) > 0
    BY <1>1, <2>1 DEF TypeOK
  <2> QED
    BY <1>4, <2>2, <2>3, <2>4
<1>7. ASSUME NEW T \in ccls, NEW c \in Chars
      PROVE  c \in T <=> Abs(bck'[c]) \in EclOf(bck', T)
  <2>1. T \subseteq Chars
    BY <1>1, TablesAssumption DEF TypeOK
  <2>2. ASSUME c \in T PROVE Abs(bck'[c]) \in EclOf(bck', T)
    <3>1. PICK d \in Chars : bck'[d] = Abs(bck'[c]) /\ bck'[d] > 0
      BY <1>6
    <3>2. Abs(bck'[d]) = bck'[d]
      <4>1. bck'[d] \in Int
        BY <1>3, CsizeAssumption DEF TypeOK, Chars
      <4> QED
        BY <3>1, <4>1 DEF Abs
    <3>3. d \in T
      BY <1>5, <2>2, <3>1, <3>2
    <3> QED
      BY <3>1, <3>3 DEF EclOf
  <2>3. ASSUME Abs(bck'[c]) \in EclOf(bck', T) PROVE c \in T
    <3>1. PICK d \in T : bck'[d] > 0 /\ bck'[d] = Abs(bck'[c])
      BY <2>3 DEF EclOf
    <3>2. Abs(bck'[d]) = bck'[d]
      <4>1. bck'[d] \in Int
        BY <1>3, <2>1, CsizeAssumption DEF TypeOK, Chars
      <4> QED
        BY <3>1, <4>1 DEF Abs
    <3> QED
      BY <1>5, <2>1, <3>1, <3>2
  <2> QED
    BY <2>2, <2>3
<1>8. ClassesDecideTables'
  <2> SUFFICES ASSUME NEW T \in ccls, NEW c \in Chars
               PROVE  c \in T <=> Abs(bck'[c]) \in ecls'[T]
    BY <1>2 DEF ClassesDecideTables
  <2>1. ecls'[T] = EclOf(bck', T)
    BY <1>2
  <2> QED
    BY <1>7, <2>1
<1>9. SinglesStandAlone'
  <2> SUFFICES ASSUME NEW c \in singles
               PROVE  /\ bck'[c] > 0
                      /\ \A d \in Chars \ {c} : Abs(bck'[d]) # bck'[c]
    BY <1>2 DEF SinglesStandAlone
  <2>1. c \in Chars
    BY <1>1, TablesAssumption DEF TypeOK
  <2>2. \A d \in Chars : Abs(bck'[c]) = Abs(bck'[d]) => c = d
    BY <1>1, <1>4, <2>1 DEF NumberInv, Together
  <2>3. PICK d \in Chars : bck'[d] = Abs(bck'[c]) /\ bck'[d] > 0
    BY <1>6, <2>1
  <2>4. Abs(bck'[d]) = bck'[d]
    <3>1. bck'[d] \in Int
      BY <1>3, CsizeAssumption DEF TypeOK, Chars
    <3> QED
      BY <2>3, <3>1 DEF Abs
  <2>5. c = d
    BY <2>2, <2>3, <2>4
  <2> QED
    BY <2>2, <2>3, <2>4, <2>5
<1>10. Increasing' /\ Unnumbered'
  BY <1>1 DEF Increasing, Unnumbered, Finish
<1> QED
  BY <1>1, <1>3, <1>8, <1>9, <1>10 DEF IInv

----------------------------------------------------------------------------
(* The classes are as few as possible.                                     *)

LEMMA InnerIs ==
  /\ Inner \subseteq Members /\ Inner \subseteq Chars /\ Inner \subseteq Int /\ Members \subseteq Int
  /\ \A x \in Inner : Raw(x) = x /\ Mapped(x) = x
  /\ \A x \in Members, y \in Inner : x <= y => x \in Inner
  /\ \A x \in Members : x \in Inner \/ x = csize
BY CsizeAssumption DEF Inner, Members, Chars, Raw, Mapped

LEMMA InitCoarse == ASSUME Init PROVE CoarseInv
<1>1. Dense
  BY CsizeAssumption DEF Init, Dense, Inner, LinkUpTo, NIL
<1>2. Coarsest
  BY DEF Init, Coarsest
<1> QED
  BY <1>1, <1>2 DEF Init, CoarseInv

\* A character that leaves its list belongs to no other member any more.
LEMMA MkECharCoarse ==
  ASSUME IInv, CoarseInv, NEW c \in Singles, MkEChar(c)
  PROVE  CoarseInv'
<1>1. PICK m \in Members : m = Mapped(c) /\ Raw(m) = c
  BY TablesAssumption, MappedRaw
<1>2. /\ Links /\ Increasing /\ TypeOK /\ Dense /\ pc = "parse" /\ pc' = "parse"
      /\ singles' = singles \cup {c} /\ UNCHANGED ccls
  BY DEF IInv, CoarseInv, ParseInv, MkEChar
<1>3. fwd' = [x \in 0 .. csize |-> IF x = m THEN NIL
                ELSE IF x = bck[m] /\ x # NIL THEN fwd[m] ELSE fwd[x]]
  BY <1>1, <1>2 DEF MkEChar, Break, TypeOK
<1>4. \A x \in Members : fwd'[x] = IF x = m THEN NIL
                                   ELSE IF x = bck[m] THEN fwd[m] ELSE fwd[x]
  BY <1>3, MembersAreNumbers
<1>5. ASSUME NEW x \in Inner, NEW y \in Inner, x < y, Together(x, y)'
      PROVE  LinkUpTo(x, y)'
  <2>1. x \in Members /\ y \in Members /\ x \in Int /\ y \in Int /\ m \in Int
    BY InnerIs
  <2>2. Together(x, y) /\ (Raw(x) = c <=> Raw(y) = c)
    BY <1>2, <1>5 DEF Together
  <2>3. x # m /\ y # m
    <3>1. x # y
      BY <1>5, <2>1
    <3>2. Mapped(Raw(x)) = x /\ Mapped(Raw(y)) = y
      BY <2>1, MappedRaw
    <3> QED
      BY <1>1, <2>2, <3>1, <3>2
  <2>4. fwd[x] # NIL /\ fwd[x] <= y /\ fwd[x] \in Members
    BY <1>2, <1>5, <2>1, <2>2, Arrays DEF Dense, LinkUpTo
  <2>5. CASE x = bck[m]
    <3>1. fwd[x] = m
      BY <1>1, <1>2, <2>1, <2>5, MembersAreNumbers DEF Links
    <3>2. m < y /\ m \in Inner
      BY <2>1, <2>3, <2>4, <3>1, InnerIs
    <3>3. Together(m, y)
      BY <1>2, <2>1, <2>2, <2>4, <3>1, TogetherIsTransitive DEF Links
    <3>4. fwd[m] # NIL /\ fwd[m] <= y
      BY <1>2, <3>2, <3>3 DEF Dense, LinkUpTo
    <3> QED
      BY <1>4, <2>1, <2>3, <2>5, <3>4 DEF LinkUpTo
  <2>6. CASE x # bck[m]
    BY <1>4, <2>1, <2>3, <2>4, <2>6 DEF LinkUpTo
  <2> QED
    BY <2>5, <2>6
<1>6. Dense'
  BY <1>5 DEF Dense
<1> QED
  BY <1>2, <1>6 DEF CoarseInv, Coarsest

LEMMA MkEcclCoarse ==
  ASSUME IInv, CoarseInv, NEW T \in Tables, MkEccl(T)
  PROVE  CoarseInv'
<1>1. TypeOK /\ ParseInv /\ Dense /\ pc = "parse" /\ UNCHANGED <<fwd, singles, cclflags>>
  BY DEF IInv, CoarseInv, MkEccl
<1>2. T \subseteq Chars
  BY TablesAssumption
<1>3. CASE T = {}
  <2>1. pc' = "parse" /\ ccls' = ccls \cup {T}
    BY <1>1, <1>3 DEF MkEccl
  <2>2. \A x, y : Together(x, y)' => Together(x, y)
    BY <1>1, <2>1 DEF Together
  <2>3. Dense'
    BY <1>1, <2>2 DEF Dense, LinkUpTo
  <2> QED
    BY <2>1, <2>3 DEF CoarseInv, Coarsest
<1>4. CASE T # {}
  <2>1. table' = T /\ at' = Least(T) /\ pc' = "member" /\ UNCHANGED ccls
    BY <1>4 DEF MkEccl
  <2>2. Processed' = {}
    <3>1. ASSUME NEW d \in T PROVE ~(d < Least(T))
      <4>1. d \in Int /\ Least(T) \in Int /\ Least(T) <= d
        BY <1>2, <1>4, LeastIsLeast, CharsAreNumbers
      <4> QED
        BY <4>1
    <3> QED
      BY <1>1, <2>1, <3>1 DEF Processed, ParseInv
  <2>3. MemberCoarse'
    BY <1>1, <2>1, <2>2 DEF MemberCoarse, Dense, Undivided, Together, LinkUpTo
  <2> QED
    BY <2>1, <2>3 DEF CoarseInv, Coarsest
<1> QED
  BY <1>3, <1>4

LEMMA BeginMemberCoarse ==
  ASSUME IInv, CoarseInv, BeginMember
  PROVE  CoarseInv'
<1>1. TypeOK /\ Increasing /\ MemberInv /\ MemberCoarse /\ pc = "member" /\ pc' = "follow"
  BY DEF IInv, CoarseInv, BeginMember
<1>2. PICK m \in Members : m = Mapped(at) /\ Raw(m) = at
  BY <1>1, MappedRaw DEF TypeOK
<1>3. /\ oldec' = bck[m] /\ newec' = m /\ rest' = After(at) /\ i' = fwd[m]
      /\ UNCHANGED <<fwd, bck, cclflags, ccls, singles, table, at>>
  BY <1>2 DEF BeginMember
<1>4. at \notin Processed /\ Processed' = Processed \cup {at} /\ at \in table /\ at \in Int
  BY <1>1, BeginMemberProcessed, AfterIsChars DEF MemberInv
<1>5. m \in Inner => m = at
  BY <1>2, InnerIs
<1>6. at \in Inner => m = at
  BY <1>2, InnerIs
<1>7. \A x, y : Together(x, y)' <=> Together(x, y)
  BY <1>3 DEF Together
<1>8. ASSUME NEW x \in Inner \cap Processed', NEW y \in (Inner \cap table) \ Processed', Together(x, y)
      PROVE  x = at
  BY <1>1, <1>4, <1>8 DEF MemberCoarse
<1>9. ASSUME NEW x \in Inner \ {newec', oldec'}, NEW y \in Inner, x < y, Undivided(x, y)'
      PROVE  LinkUpTo(x, y)
  <2>1. Together(x, y) /\ (x \in Processed' <=> y \in Processed') /\ x # at
    BY <1>3, <1>6, <1>7, <1>9 DEF Undivided
  <2>2. y # at
    <3> SUFFICES ASSUME y = at PROVE FALSE
      OBVIOUS
    <3>1. x \in Processed
      BY <1>4, <2>1
    <3> QED
      BY <1>1, <1>4, <2>1, <3>1 DEF MemberCoarse
  <2>3. Undivided(x, y)
    BY <1>4, <2>1, <2>2 DEF Undivided
  <2> QED
    BY <1>1, <1>9, <2>3 DEF MemberCoarse
<1>10. ASSUME NEW y \in Inner, newec' < y, Together(newec', y)
       PROVE  y \notin Processed'
  <2>1. m \in Inner /\ m # y
    BY <1>3, <1>10, InnerIs
  <2>2. m = at /\ Together(y, at) /\ y # at
    BY <1>3, <1>5, <1>10, <2>1, TogetherIsTransitive
  <2> QED
    BY <1>1, <1>4, <2>1, <2>2 DEF MemberCoarse
<1>11. ASSUME NEW y \in Inner \ Processed', m \in Inner, m < y, Together(m, y)
       PROVE  i' # NIL /\ i' <= y
  <2>1. Undivided(m, y)
    BY <1>4, <1>5, <1>11 DEF Undivided
  <2> QED
    BY <1>1, <1>3, <1>11, <2>1 DEF MemberCoarse, LinkUpTo
<1>12. ASSUME NEW y \in Inner \ Processed', Due(y)'
       PROVE  i' # NIL /\ i' <= y
  <2>1. CASE newec' \in Inner /\ Together(newec, y)' /\ y \in After(at)'
    <3>1. m \in Inner /\ Together(m, y)
      BY <1>3, <1>7, <2>1
    <3>2. m < y
      BY <1>3, <1>5, <2>1, <3>1 DEF After
    <3> QED
      BY <1>11, <3>1, <3>2
  <2>2. CASE oldec' # NIL /\ Together(oldec, y)' /\ oldec' < y
    <3>1. bck[m] \in Members /\ fwd[bck[m]] = m /\ Together(bck[m], m)
          /\ (Raw(bck[m]) \in Processed <=> at \in Processed)
      BY <1>1, <1>2, <1>3, <2>2, MembersAreNumbers DEF MemberInv, Links
    <3>2. bck[m] < y /\ bck[m] \in Inner /\ y \in Int /\ m \in Int
      <4>1. bck[m] < y /\ y \in Int /\ m \in Int /\ bck[m] \in Int
        BY <1>3, <2>2, <3>1, InnerIs
      <4>2. bck[m] <= y
        BY <4>1
      <4> QED
        BY <3>1, <4>1, <4>2, InnerIs
    <3>3. Together(bck[m], y) /\ bck[m] \notin Processed /\ y \notin Processed
      BY <1>3, <1>4, <1>7, <2>2, <3>1, <3>2, InnerIs
    <3>4. m <= y
      BY <1>1, <3>1, <3>2, <3>3 DEF MemberCoarse, Undivided, LinkUpTo
    <3>5. m \in Inner /\ m # y
      BY <1>4, <1>5, <3>4, InnerIs
    <3>6. m < y /\ Together(m, y)
      BY <3>1, <3>2, <3>3, <3>4, <3>5, TogetherIsTransitive
    <3> QED
      BY <1>11, <3>5, <3>6
  <2> QED
    BY <1>12, <2>1, <2>2 DEF Due
<1>13. FollowCoarse'
  <2>1. \A x \in Inner \cap Processed', y \in (Inner \cap table') \ Processed' :
          Together(x, y)' => newec' \in Inner /\ Together(newec, y)'
    BY <1>3, <1>6, <1>7, <1>8
  <2>2. \A x \in Inner \ {newec', oldec'}, y \in Inner : x < y /\ Undivided(x, y)' => LinkUpTo(x, y)'
    BY <1>3, <1>9 DEF LinkUpTo
  <2>3. \A y \in Inner : newec' < y /\ Together(newec, y)' => y \notin Processed'
    BY <1>10, <1>3 DEF Together
  <2>4. After(at)' = rest'
    BY <1>3 DEF After
  <2> QED
    BY <1>12, <2>1, <2>2, <2>3, <2>4 DEF FollowCoarse
<1> QED
  BY <1>1, <1>13 DEF CoarseInv, Coarsest

\* What the two steps along a list have in common: the link that they follow
\* out of i passes over nothing, and the second iterator of mkeccl() has not
\* passed i.
LEMMA FollowCoarseFacts ==
  ASSUME IInv, FollowCoarse, pc = "follow", i # NIL
  PROVE  /\ i \in Members /\ newec \in Members /\ newec < i /\ newec \in Inner
         /\ oldec # NIL => oldec \in Members
         /\ oldec < i /\ oldec \in Int /\ i \notin Processed
         /\ Together(newec, i) /\ (oldec # NIL => Together(oldec, i))
         /\ newec \in Processed
         /\ \A y \in Inner \ Processed : i < y /\ Together(i, y) => fwd[i] # NIL /\ fwd[i] <= y
         /\ i \in table => i \in rest
<1>1. TypeOK /\ Increasing /\ FollowInv
  BY DEF IInv
<1>2. /\ i \in Members /\ newec \in Members /\ oldec \in Members \cup {NIL}
      /\ newec # i /\ oldec # i /\ newec # oldec
  BY <1>1, FollowFacts
<1>3. newec < i /\ oldec < i /\ Together(newec, i) /\ (oldec # NIL => Together(newec, oldec))
      /\ Raw(newec) \in Processed /\ Raw(i) \notin Processed
  BY <1>1 DEF FollowInv
<1>4. newec \in Inner
  BY <1>2, <1>3, CsizeAssumption DEF Members, Inner
<1>5. newec \in Processed
  BY <1>3, <1>4, InnerIs
<1>6. oldec \in Int
  BY <1>2, InnerIs DEF NIL
<1>7. i \notin Processed
  <2>1. CASE i \in Inner
    BY <1>3, <2>1, InnerIs
  <2>2. CASE i \notin Inner
    <3>1. i = csize
      BY <1>2, <2>2, InnerIs
    <3>2. Processed \subseteq Chars
      BY <1>1 DEF Processed, TypeOK
    <3> QED
      BY <3>1, <3>2, CsizeAssumption DEF Chars
  <2> QED
    BY <2>1, <2>2
<1>8. ASSUME NEW y \in Inner \ Processed, i < y, Together(i, y)
      PROVE  fwd[i] # NIL /\ fwd[i] <= y
  <2>1. i \in Inner
    <3>1. i <= y
      BY <1>2, <1>8, InnerIs
    <3> QED
      BY <1>2, <3>1, InnerIs
  <2>2. Undivided(i, y)
    BY <1>7, <1>8 DEF Undivided
  <2> QED
    BY <1>2, <1>8, <2>1, <2>2 DEF FollowCoarse, LinkUpTo
<1>9. ASSUME i \in table PROVE i \in rest
  <2>1. i > at
    <3>1. Mapped(at) = at \/ at = 0
      BY DEF Mapped
    <3>2. newec >= Mapped(at) /\ at \in Int
      BY <1>1, AfterIsChars DEF FollowInv
    <3> QED
      BY <1>2, <1>3, <3>1, <3>2, InnerIs, CsizeAssumption DEF Members
  <2>2. i \in After(at)
    BY <1>9, <2>1 DEF After
  <2> QED
    BY <1>3, <2>2 DEF FollowCoarse
<1> QED
  BY <1>2, <1>3, <1>4, <1>5, <1>6, <1>7, <1>8, <1>9, TogetherIsTransitive

LEMMA LinkCompanionCoarse ==
  ASSUME IInv, CoarseInv, LinkCompanion
  PROVE  CoarseInv'
<1>1. TypeOK /\ FollowInv /\ FollowCoarse /\ i # NIL /\ pc = "follow" /\ pc' = "follow"
  BY DEF IInv, CoarseInv, LinkCompanion
<1>2. /\ i \in rest /\ newec' = i /\ cclflags' = cclflags \cup {i}
      /\ rest' = {d \in rest : d >= i}
      /\ UNCHANGED <<ccls, singles, table, at, oldec>>
  BY DEF LinkCompanion, IsCompanion
<1>3. /\ i \in Members /\ newec \in Members /\ newec < i /\ newec \in Inner
      /\ oldec < i /\ oldec \in Int /\ i \notin Processed
      /\ Together(newec, i) /\ (oldec # NIL => Together(oldec, i))
      /\ newec \in Processed
      /\ \A y \in Inner \ Processed : i < y /\ Together(i, y) => fwd[i] # NIL /\ fwd[i] <= y
  BY <1>1, FollowCoarseFacts
<1>4. /\ \A x \in Members : fwd'[x] = IF x = newec THEN i ELSE fwd[x]
      /\ i' = fwd[i]
  <2>1. \A x \in Members : fwd'[x] = IF x = newec THEN i ELSE fwd[x]
    BY <1>1, Arrays, MembersAreNumbers DEF LinkCompanion
  <2>2. newec # i
    BY <1>3, InnerIs
  <2> QED
    BY <1>3, <2>1, <2>2 DEF LinkCompanion
<1>5. Processed' = Processed \cup {i}
  BY <1>1, <1>2 DEF Processed
<1>6. i \in Inner /\ i \in Int /\ Inner \subseteq Int /\ newec \in Int
  <2>1. i \in Chars
    BY <1>1, <1>2 DEF TypeOK
  <2>2. i # csize
    BY <2>1, CsizeAssumption DEF Chars
  <2> QED
    BY <1>3, <2>2, InnerIs
<1>7. \A x, y : Together(x, y)' <=> Together(x, y)
  BY <1>2 DEF Together
<1>8. ASSUME NEW x \in Inner \ {newec', oldec'}, NEW y \in Inner, x < y, Undivided(x, y)'
      PROVE  LinkUpTo(x, y)'
  <2>1. Together(x, y) /\ (x \in Processed' <=> y \in Processed') /\ x # i /\ x # oldec
    BY <1>2, <1>7, <1>8 DEF Undivided
  <2>2. x \in Int /\ y \in Int /\ x \in Members
    BY InnerIs
  <2>3. CASE x = newec
    <3>1. y \notin Processed
      BY <1>1, <1>8, <2>1, <2>3 DEF FollowCoarse
    <3>2. y = i
      BY <1>3, <1>5, <2>1, <2>3, <3>1
    <3>3. fwd'[x] = i /\ i <= y
      BY <1>4, <1>6, <2>2, <2>3, <3>2
    <3> QED
      BY <1>1, <3>3 DEF LinkUpTo
  <2>4. CASE x # newec /\ y # i
    <3>1. Undivided(x, y)
      BY <1>5, <2>1, <2>4 DEF Undivided
    <3> QED
      BY <1>1, <1>4, <1>8, <2>1, <2>2, <2>4, <3>1 DEF FollowCoarse, LinkUpTo
  <2>5. CASE x # newec /\ y = i
    <3>1. x \in Processed /\ Together(x, newec) /\ Together(newec, x)
      BY <1>3, <1>5, <2>1, <2>5, TogetherIsTransitive
    <3>2. ~(newec < x)
      BY <1>1, <3>1 DEF FollowCoarse
    <3>3. x < newec
      BY <1>6, <2>2, <2>5, <3>2
    <3>4. Undivided(x, newec)
      BY <1>3, <3>1 DEF Undivided
    <3>5. fwd[x] # NIL /\ fwd[x] <= newec
      BY <1>1, <1>3, <2>1, <2>5, <3>3, <3>4 DEF FollowCoarse, LinkUpTo
    <3>6. fwd[x] \in Int
      BY <1>1, <2>2, Arrays, InnerIs, <3>5
    <3>7. fwd[x] <= y
      BY <1>3, <1>6, <2>5, <3>5, <3>6
    <3> QED
      BY <1>4, <2>2, <2>5, <3>5, <3>7 DEF LinkUpTo
  <2> QED
    BY <2>3, <2>4, <2>5
<1>9. ASSUME NEW y \in Inner, newec' < y, Together(newec', y)
      PROVE  y \notin Processed'
  <2>1. y \in Int /\ y # i /\ newec < y
    BY <1>2, <1>3, <1>6, <1>9
  <2>2. Together(newec, y)
    BY <1>2, <1>3, <1>9, TogetherIsTransitive
  <2> QED
    BY <1>1, <1>5, <2>1, <2>2 DEF FollowCoarse
<1>10. ASSUME NEW y \in Inner \ Processed', Due(y)'
       PROVE  i' # NIL /\ i' <= y
  <2>1. y # i /\ y \notin Processed /\ y \in Int
    BY <1>5, InnerIs
  <2>2. Due(y) /\ Together(i, y)
    <3>1. CASE newec' \in Inner /\ Together(newec, y)' /\ y \in After(at)'
      <4>1. Together(i, y) /\ y \in After(at)
        BY <1>2, <3>1 DEF Together, After
      <4>2. Together(newec, y)
        BY <1>3, <4>1, TogetherIsTransitive
      <4> QED
        BY <1>3, <4>1, <4>2 DEF Due
    <3>2. CASE oldec' # NIL /\ Together(oldec, y)' /\ oldec' < y
      <4>1. oldec # NIL /\ Together(oldec, y) /\ oldec < y
        BY <1>2, <3>2 DEF Together
      <4>2. Together(i, y)
        BY <1>3, <4>1, TogetherIsTransitive
      <4> QED
        BY <4>1, <4>2 DEF Due
    <3> QED
      BY <1>10, <3>1, <3>2 DEF Due
  <2>3. i <= y
    BY <1>1, <2>1, <2>2 DEF FollowCoarse
  <2>4. i < y
    BY <1>6, <2>1, <2>3
  <2> QED
    BY <1>3, <1>4, <2>1, <2>2, <2>4
<1>11. ASSUME NEW x \in Inner \cap Processed', NEW y \in (Inner \cap table) \ Processed', Together(x, y)
       PROVE  Together(i, y)
  <2>1. CASE x = i
    BY <1>11, <2>1
  <2>2. CASE x # i
    <3>1. Together(newec, y)
      BY <1>1, <1>5, <1>11, <2>2 DEF FollowCoarse
    <3> QED
      BY <1>3, <3>1, TogetherIsTransitive
  <2> QED
    BY <2>1, <2>2
<1>12. ASSUME NEW d \in After(at), d > newec', d > oldec'
       PROVE  d \in rest'
  <2>1. d \in Int
    BY <1>1, AfterIsChars, CharsAreNumbers
  <2>2. d > newec /\ d > oldec /\ d >= i
    BY <1>2, <1>3, <1>6, <1>12, <2>1
  <2> QED
    BY <1>1, <1>2, <2>2 DEF FollowCoarse
<1>13. FollowCoarse'
  <2>1. \A x \in Inner \cap Processed', y \in (Inner \cap table') \ Processed' :
          Together(x, y)' => newec' \in Inner /\ Together(newec, y)'
    BY <1>2, <1>6, <1>7, <1>11
  <2>2. \A y \in Inner : newec' < y /\ Together(newec, y)' => y \notin Processed'
    BY <1>9 DEF Together, LinkCompanion
  <2>3. After(at)' = After(at)
    BY <1>2 DEF After
  <2> QED
    BY <1>8, <1>10, <1>12, <2>1, <2>2, <2>3 DEF FollowCoarse
<1> QED
  BY <1>1, <1>13 DEF CoarseInv, Coarsest

LEMMA LinkOtherCoarse ==
  ASSUME IInv, CoarseInv, LinkOther
  PROVE  CoarseInv'
<1>1. TypeOK /\ FollowInv /\ FollowCoarse /\ i # NIL /\ pc = "follow" /\ pc' = "follow"
  BY DEF IInv, CoarseInv, LinkOther
<1>2. /\ oldec' = i /\ rest' = {d \in rest : d >= i} /\ ~IsCompanion
      /\ UNCHANGED <<ccls, singles, table, at, newec, cclflags>>
  BY DEF LinkOther
<1>3. /\ i \in Members /\ newec \in Members /\ newec < i /\ newec \in Inner
      /\ oldec # NIL => oldec \in Members
      /\ oldec < i /\ oldec \in Int /\ i \notin Processed
      /\ Together(newec, i) /\ (oldec # NIL => Together(oldec, i))
      /\ \A y \in Inner \ Processed : i < y /\ Together(i, y) => fwd[i] # NIL /\ fwd[i] <= y
      /\ i \in table => i \in rest
  BY <1>1, FollowCoarseFacts
<1>4. i \notin table
  <2>1. i \notin cclflags
    BY <1>3 DEF Processed
  <2> QED
    BY <1>2, <1>3, <2>1 DEF IsCompanion
<1>5. /\ \A x \in Members : fwd'[x] = IF x = oldec THEN i ELSE fwd[x]
      /\ i' = fwd[i]
  <2>1. \A x \in Members : fwd'[x] = IF x = oldec THEN i ELSE fwd[x]
    BY <1>1, <1>3, Arrays, MembersAreNumbers DEF LinkOther
  <2>2. oldec # i
    BY <1>3, InnerIs
  <2> QED
    BY <1>3, <2>1, <2>2 DEF LinkOther
<1>6. Processed' = Processed
  BY <1>1, <1>2 DEF Processed
<1>7. i \in Int /\ newec \in Int /\ Inner \subseteq Int /\ Inner \subseteq Members
  BY <1>3, InnerIs
<1>8. \A x, y : Together(x, y)' <=> Together(x, y)
  BY <1>2 DEF Together
<1>9. ASSUME NEW x \in Inner \ {newec', oldec'}, NEW y \in Inner, x < y, Undivided(x, y)'
      PROVE  LinkUpTo(x, y)'
  <2>1. Undivided(x, y) /\ x # i /\ x # newec /\ x \in Members
    BY <1>2, <1>6, <1>7, <1>8, <1>9 DEF Undivided
  <2>2. CASE x = oldec
    <3>1. oldec \notin Processed
      <4>1. oldec # NIL
        BY <2>1, <2>2, MembersAreNumbers
      <4>2. Raw(oldec) \notin Processed
        BY <1>1, <4>1 DEF FollowInv
      <4> QED
        BY <2>2, <4>2, InnerIs
    <3>2. oldec # NIL /\ Together(oldec, y) /\ y \notin Processed
      BY <2>1, <2>2, <3>1, MembersAreNumbers DEF Undivided
    <3>3. Due(y)
      BY <1>9, <2>2, <3>2 DEF Due
    <3>4. i # NIL /\ i <= y
      BY <1>1, <3>2, <3>3 DEF FollowCoarse
    <3> QED
      BY <1>5, <2>1, <2>2, <3>4 DEF LinkUpTo
  <2>3. CASE x # oldec
    BY <1>1, <1>5, <1>9, <2>1, <2>3 DEF FollowCoarse, LinkUpTo
  <2> QED
    BY <2>2, <2>3
<1>10. ASSUME NEW y \in Inner \ Processed', Due(y)'
       PROVE  i' # NIL /\ i' <= y
  <2>1. y \notin Processed /\ y \in Int
    BY <1>6, <1>7
  <2>2. i < y /\ Together(i, y)
    <3>1. CASE newec' \in Inner /\ Together(newec, y)' /\ y \in After(at)'
      <4>1. Together(newec, y) /\ y \in After(at)
        BY <1>2, <3>1 DEF Together, After
      <4>2. i <= y
        BY <1>1, <1>3, <2>1, <4>1 DEF FollowCoarse, Due
      <4>3. y # i
        BY <1>4, <4>1 DEF After
      <4> QED
        BY <1>3, <1>7, <2>1, <4>1, <4>2, <4>3, TogetherIsTransitive
    <3>2. CASE oldec' # NIL /\ Together(oldec, y)' /\ oldec' < y
      BY <1>2, <3>2 DEF Together
    <3> QED
      BY <1>10, <3>1, <3>2 DEF Due
  <2> QED
    BY <1>3, <1>5, <2>1, <2>2
<1>11. ASSUME NEW d \in After(at), d > newec', d > oldec'
       PROVE  d \in rest'
  <2>1. d \in Int
    BY <1>1, AfterIsChars, CharsAreNumbers
  <2>2. d > newec /\ d > oldec /\ d >= i
    BY <1>2, <1>3, <1>7, <1>11, <2>1
  <2> QED
    BY <1>1, <1>2, <2>2 DEF FollowCoarse
<1>12. FollowCoarse'
  <2>1. \A x \in Inner \cap Processed', y \in (Inner \cap table') \ Processed' :
          Together(x, y)' => newec' \in Inner /\ Together(newec, y)'
    BY <1>1, <1>2, <1>6, <1>8 DEF FollowCoarse, Together
  <2>2. \A y \in Inner : newec' < y /\ Together(newec, y)' => y \notin Processed'
    BY <1>1, <1>2, <1>6 DEF FollowCoarse, Together
  <2>3. After(at)' = After(at)
    BY <1>2 DEF After
  <2> QED
    BY <1>9, <1>10, <1>11, <2>1, <2>2, <2>3 DEF FollowCoarse
<1> QED
  BY <1>1, <1>12 DEF CoarseInv, Coarsest

LEMMA EndMemberCoarse ==
  ASSUME IInv, CoarseInv, EndMember
  PROVE  CoarseInv'
<1>1. TypeOK /\ FollowInv /\ FollowCoarse /\ i = NIL /\ pc = "follow"
  BY DEF IInv, CoarseInv, EndMember
<1>2. newec \in Members /\ oldec \in Members \cup {NIL} /\ newec # oldec
  BY <1>1, MembersAreNumbers DEF FollowInv, TypeOK
<1>3. \A x \in Members \ {newec, oldec} : fwd'[x] = fwd[x]
  BY <1>1, <1>2, Arrays, MembersAreNumbers DEF EndMember
<1>4. UNCHANGED <<table, singles>>
  BY DEF EndMember
<1>5. ASSUME NEW x \in Inner, NEW y \in Inner, x < y, Undivided(x, y)
      PROVE  LinkUpTo(x, y)'
  <2>1. x \in Members
    BY InnerIs
  <2>2. x # newec
    <3> SUFFICES ASSUME x = newec PROVE FALSE
      OBVIOUS
    <3>1. Raw(newec) \in Processed
      BY <1>1 DEF FollowInv
    <3>2. y \in Processed
      BY <1>5, <3>1, InnerIs DEF Undivided
    <3> QED
      BY <1>1, <1>5, <3>2 DEF FollowCoarse, Undivided
  <2>3. x # oldec
    <3> SUFFICES ASSUME x = oldec PROVE FALSE
      OBVIOUS
    <3>1. oldec # NIL
      BY <2>1, MembersAreNumbers
    <3>2. Raw(oldec) \notin Processed
      BY <1>1, <3>1 DEF FollowInv
    <3>3. y \in Inner \ Processed /\ Due(y)
      BY <1>5, <3>1, <3>2, InnerIs DEF Undivided, Due
    <3> QED
      BY <1>1, <3>3 DEF FollowCoarse
  <2>4. LinkUpTo(x, y)
    BY <1>1, <1>5, <2>2, <2>3 DEF FollowCoarse
  <2> QED
    BY <1>3, <2>1, <2>2, <2>3, <2>4 DEF LinkUpTo
<1>6. ASSUME NEW x \in Inner \cap Processed, NEW y \in (Inner \cap table) \ Processed, Together(x, y)
      PROVE  FALSE
  <2>1. newec \in Inner /\ Together(newec, y)
    BY <1>1, <1>6 DEF FollowCoarse
  <2>2. y \in After(at)
    <3>1. y \in table /\ y \notin {d \in table : d <= at}
      BY <1>1, <1>6 DEF Processed
    <3>2. y \in Int /\ at \in Int
      BY <1>1, InnerIs, AfterIsChars DEF FollowInv
    <3> QED
      BY <3>1, <3>2 DEF After
  <2> QED
    BY <1>1, <1>6, <2>1, <2>2 DEF FollowCoarse, Due
<1>7. CASE After(at) = Skipped
  <2>1. pc' = "parse" /\ ccls' = ccls \cup {table}
    BY <1>7 DEF EndMember
  <2>2. Processed = table
    BY <1>1, <1>7, EndMemberProcessed
  <2>3. ASSUME NEW x \in Inner, NEW y \in Inner, Together(x, y)'
        PROVE  Undivided(x, y)
    BY <1>4, <2>1, <2>2, <2>3, InnerIs DEF Undivided, Together
  <2>4. Dense'
    BY <1>5, <2>3 DEF Dense
  <2> QED
    BY <2>1, <2>4 DEF CoarseInv, Coarsest
<1>8. CASE After(at) # Skipped
  <2>1. pc' = "member" /\ UNCHANGED ccls
    BY <1>8 DEF EndMember
  <2>2. Processed' = Processed
    BY <1>1, <1>8, EndMemberProcessed
  <2>3. \A x, y : (Together(x, y)' <=> Together(x, y)) /\ (Undivided(x, y)' <=> Undivided(x, y))
    BY <1>4, <2>1, <2>2 DEF Together, Undivided
  <2>4. MemberCoarse'
    BY <1>4, <1>5, <1>6, <2>2, <2>3 DEF MemberCoarse
  <2> QED
    BY <2>1, <2>4 DEF CoarseInv, Coarsest
<1> QED
  BY <1>7, <1>8

\* Nothing is linked any more once the numbers are given.
LEMMA NumberingCoarse ==
  ASSUME CoarseInv, BeginNumbering \/ NumberHead \/ Spread
  PROVE  CoarseInv'
<1>1. Dense /\ pc' \in {"number", "spread"} /\ UNCHANGED <<fwd, ccls, singles>>
  BY DEF CoarseInv, BeginNumbering, NumberHead, Spread
<1>2. Dense'
  BY <1>1 DEF Dense, LinkUpTo, Together
<1> QED
  BY <1>1, <1>2 DEF CoarseInv, Coarsest

\* Along the links, all members that belong together have one number: if not,
\* take the greatest member whose number differs from that of a later one.
LEMMA OneNumber ==
  ASSUME IInv, Dense, pc = "number", start > csize,
         NEW x \in Inner, NEW y \in Inner, Together(x, y)
  PROVE  Abs(bck[x]) = Abs(bck[y])
<1> DEFINE Differ(u, v) == u < v /\ Together(u, v) /\ Abs(bck[u]) # Abs(bck[v])
           Bad == {csize - u : u \in {u \in Inner : \E v \in Inner : Differ(u, v)}}
<1>1. TypeOK /\ Increasing /\ NumberInv /\ BetweenInv
  BY DEF IInv
<1>2. Numbered = Members
  <2>1. \A u \in Members : u < start
    BY <1>1, CsizeAssumption DEF Members, TypeOK
  <2> QED
    BY <2>1 DEF Numbered
<1>3. Bad = {}
  <2> SUFFICES ASSUME Bad # {} PROVE FALSE
    OBVIOUS
  <2>1. Bad \subseteq Chars
    BY CsizeAssumption DEF Chars, Inner
  <2>2. Least(Bad) \in Bad /\ \A n \in Bad : Least(Bad) <= n
    BY <2>1, LeastIsLeast
  <2>3. PICK u \in Inner : Least(Bad) = csize - u /\ \E v \in Inner : Differ(u, v)
    BY <2>2
  <2>4. PICK v \in Inner : Differ(u, v)
    BY <2>3
  <2>5. u \in Members /\ {u, v, csize} \subseteq Int
    BY InnerIs, CsizeAssumption
  <2>6. fwd[u] # NIL /\ fwd[u] <= v
    BY <2>4 DEF Dense, LinkUpTo
  <2>7. /\ fwd[u] \in Members /\ fwd[u] \in Int /\ u < fwd[u]
        /\ Together(u, fwd[u]) /\ Abs(bck[fwd[u]]) = Abs(bck[u])
    <3>1. fwd[u] \in Members /\ fwd[u] > u
      BY <1>1, <2>5, <2>6, Arrays DEF Increasing
    <3>2. Together(u, fwd[u]) /\ Abs(bck[fwd[u]]) = Abs(bck[u])
      BY <1>1, <1>2, <2>5, <2>6 DEF NumberInv, BetweenInv
    <3> QED
      BY <2>5, <3>1, <3>2, InnerIs
  <2>8. fwd[u] \in Inner /\ fwd[u] # v
    BY <2>4, <2>6, <2>7, InnerIs
  <2>9. Differ(fwd[u], v)
    <3>1. fwd[u] < v
      BY <2>5, <2>6, <2>7, <2>8
    <3>2. Together(fwd[u], v)
      BY <2>4, <2>7, TogetherIsTransitive
    <3> QED
      BY <2>4, <2>7, <3>1, <3>2
  <2>10. csize - fwd[u] \in Bad
    BY <2>8, <2>9
  <2>11. Least(Bad) <= csize - fwd[u]
    BY <2>2, <2>10
  <2> QED
    BY <2>3, <2>5, <2>7, <2>11
<1>4. \A u, v \in Inner : ~Differ(u, v)
  BY <1>3
<1>5. x \in Int /\ y \in Int
  BY InnerIs
<1>6. CASE x = y
  BY <1>6
<1>7. CASE x < y
  BY <1>4, <1>7
<1>8. CASE y < x
  <2>1. Together(y, x)
    BY TogetherIsTransitive
  <2> QED
    BY <1>4, <1>8, <2>1
<1> QED
  BY <1>5, <1>6, <1>7, <1>8

LEMMA FinishCoarse ==
  ASSUME IInv, CoarseInv, Finish
  PROVE  CoarseInv'
<1>1. /\ TypeOK /\ Dense /\ pc = "number" /\ start > csize /\ pc' = "done"
      /\ UNCHANGED <<ccls, singles>> /\ bck' = [bck EXCEPT ![0] = bck[csize]]
  BY DEF IInv, CoarseInv, Finish
<1>2. ASSUME NEW c \in Chars \ {0}, NEW d \in Chars \ {0}, Alike(c, d)
      PROVE  Abs(bck'[c]) = Abs(bck'[d])
  <2>1. c \in Inner /\ d \in Inner
    BY CsizeAssumption DEF Chars, Inner
  <2>2. Together(c, d)
    BY <1>2, <2>1, InnerIs DEF Alike, Together
  <2>3. bck'[c] = bck[c] /\ bck'[d] = bck[d]
    BY <1>1, <2>1, Arrays, InnerIs, MembersAreNumbers
  <2> QED
    BY <1>1, <2>1, <2>2, <2>3, OneNumber
<1>3. Coarsest'
  BY <1>1, <1>2 DEF Coarsest, Alike
<1> QED
  BY <1>1, <1>3 DEF CoarseInv

LEMMA StepCoarse == IInv /\ CoarseInv /\ [Next]_vars => CoarseInv'
<1> SUFFICES ASSUME IInv, CoarseInv, [Next]_vars PROVE CoarseInv'
  OBVIOUS
<1>1. CASE UNCHANGED vars
  <2> USE <1>1 DEF vars
  <2>1. /\ \A x, y : Together(x, y)' <=> Together(x, y)
        /\ \A x, y : LinkUpTo(x, y)' <=> LinkUpTo(x, y)
        /\ Processed' = Processed /\ After(at)' = After(at)
    BY DEF Together, LinkUpTo, Processed, After
  <2>2. (Dense' <=> Dense) /\ (Coarsest' <=> Coarsest)
    BY <2>1 DEF Dense, Coarsest, Alike
  <2>3. \A x, y : (Undivided(x, y)' <=> Undivided(x, y)) /\ (Due(y)' <=> Due(y))
    BY <2>1 DEF Undivided, Due
  <2>4. (MemberCoarse' <=> MemberCoarse) /\ (FollowCoarse' <=> FollowCoarse)
    BY <2>1, <2>3 DEF MemberCoarse, FollowCoarse
  <2> QED
    BY <2>2, <2>4 DEF CoarseInv
<1>2. CASE \E c \in Singles : MkEChar(c)
  BY <1>2, MkECharCoarse
<1>3. CASE \E T \in Tables : MkEccl(T)
  BY <1>3, MkEcclCoarse
<1>4. CASE BeginMember
  BY <1>4, BeginMemberCoarse
<1>5. CASE LinkCompanion
  BY <1>5, LinkCompanionCoarse
<1>6. CASE LinkOther
  BY <1>6, LinkOtherCoarse
<1>7. CASE EndMember
  BY <1>7, EndMemberCoarse
<1>8. CASE BeginNumbering \/ NumberHead \/ Spread
  BY <1>8, NumberingCoarse
<1>9. CASE Finish
  BY <1>9, FinishCoarse
<1> QED
  BY <1>1, <1>2, <1>3, <1>4, <1>5, <1>6, <1>7, <1>8, <1>9 DEF Next, Terminated

----------------------------------------------------------------------------
(* The theorems.                                                           *)

LEMMA StepInv == IInv /\ [Next]_vars => IInv'
<1> SUFFICES ASSUME IInv, [Next]_vars PROVE IInv'
  OBVIOUS
<1>1. CASE UNCHANGED vars
  <2> USE <1>1 DEF vars
  <2>1. (\A x, y : Together(x, y)' <=> Together(x, y)) /\ Processed' = Processed /\ Numbered' = Numbered
    BY DEF Together, Processed, Numbered
  <2>2. (Links' <=> Links) /\ (Increasing' <=> Increasing) /\ (Unnumbered' <=> Unnumbered)
    BY <2>1 DEF Links, Increasing, Unnumbered
  <2>3. /\ (TypeOK' <=> TypeOK) /\ (ClassesDecideTables' <=> ClassesDecideTables)
        /\ (SinglesStandAlone' <=> SinglesStandAlone)
    BY DEF TypeOK, ClassesDecideTables, SinglesStandAlone
  <2>4. (ParseInv' <=> ParseInv) /\ (MemberInv' <=> MemberInv)
    BY <2>1, <2>2 DEF ParseInv, MemberInv, After
  <2>5. FollowInv' <=> FollowInv
    BY <2>1 DEF FollowInv, After
  <2>6. (NumberInv' <=> NumberInv) /\ (BetweenInv' <=> BetweenInv) /\ (SpreadInv' <=> SpreadInv)
    BY <2>1 DEF NumberInv, BetweenInv, SpreadInv
  <2> QED
    BY <2>2, <2>3, <2>4, <2>5, <2>6 DEF IInv
<1>2. CASE \E c \in Singles : MkEChar(c)
  BY <1>2, MkECharInv
<1>3. CASE \E T \in Tables : MkEccl(T)
  BY <1>3, MkEcclInv
<1>4. CASE BeginMember
  BY <1>4, BeginMemberInv
<1>5. CASE LinkCompanion
  BY <1>5, LinkCompanionInv
<1>6. CASE LinkOther
  BY <1>6, LinkOtherInv
<1>7. CASE EndMember
  BY <1>7, EndMemberInv
<1>8. CASE BeginNumbering
  BY <1>8, BeginNumberingInv
<1>9. CASE NumberHead
  BY <1>9, NumberHeadInv
<1>10. CASE Spread
  BY <1>10, SpreadStepInv
<1>11. CASE Finish
  BY <1>11, FinishInv
<1> QED
  BY <1>1, <1>2, <1>3, <1>4, <1>5, <1>6, <1>7, <1>8, <1>9, <1>10, <1>11 DEF Next, Terminated

THEOREM Invariance == Spec => []IInv
BY InitInv, StepInv, PTL DEF Spec

\* The arrays of ecs.cpp never hold an index outside them: all the loops over
\* the lists, in every order of the calls, stay within nextecm and ecgroup.
THEOREM TypeCorrect == Spec => []TypeOK
<1>1. IInv => TypeOK
  BY DEF IInv
<1> QED
  BY Invariance, <1>1, PTL

\* Whatever the alphabet and the order of the calls of mkeccl() and mkechar(),
\* the numbers that cre8ecs() gives decide every character class.
THEOREM ClassesDecide == Spec => []ClassesDecideTables
<1>1. IInv => ClassesDecideTables
  BY DEF IInv
<1> QED
  BY Invariance, <1>1, PTL

\* A character that mkechar() has been given keeps a class of its own, however
\* often mkeccl() splits the lists around it, and represents it with a positive
\* number, which sympartition() uses as an index.
THEOREM SinglesAlone == Spec => []SinglesStandAlone
<1>1. IInv => SinglesStandAlone
  BY DEF IInv
<1> QED
  BY Invariance, <1>1, PTL

\* mkeccl() always leaves its static array of flags clear.
THEOREM FlagsAreClear == Spec => []NoStaleFlag
<1>1. IInv => NoStaleFlag
  BY DEF IInv, ParseInv, NoStaleFlag
<1> QED
  BY Invariance, <1>1, PTL

\* cre8ecs() gives no more numbers than the rules ask for: however mkeccl()
\* divides its lists in place, two characters other than NUL that no class and
\* no single character tells apart are never parted.
THEOREM AsCoarseAsPossible == Spec => []Coarsest
<1>1. Init => IInv /\ CoarseInv
  BY InitInv, InitCoarse
<1>2. (IInv /\ CoarseInv) /\ [Next]_vars => (IInv /\ CoarseInv)'
  BY StepInv, StepCoarse
<1>3. IInv /\ CoarseInv => Coarsest
  BY DEF CoarseInv
<1> QED
  BY <1>1, <1>2, <1>3, PTL DEF Spec

=============================================================================
