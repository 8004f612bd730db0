-------------------------------- MODULE Dfa --------------------------------
(***************************************************************************)
(* From the NFA to a DFA (dfa.cpp), after the rules have been parsed.      *)
(*                                                                         *)
(* ntod() makes two states for each start condition, one for the beginning *)
(* of a line, and one state for the end of the buffer.  Then it takes the  *)
(* states in order and follows the symbols that leave them.  A symbol is   *)
(* an equivalence class of characters; the numbers of the classes, and the *)
(* lists that sympartition() makes of them, are what module Ecs shows that *)
(* mkechar(), mkeccl() and cre8ecs() leave behind.                         *)
(*                                                                         *)
(* The NFA states of a DFA state are a bag: symfollowset() lists a state   *)
(* as often as it is reached, and nothing removes the copies.              *)
(*                                                                         *)
(* Left out: -CF scanners, the encoding of the rows as tables, statistics, *)
(* and the text of the backing-up report.                                  *)
(***************************************************************************)
EXTENDS Nfa, Bags

CONSTANTS
  useecs,    \* whether equivalence classes are used: -Ce
  Rejects    \* whether the actions use REJECT: one, the other, or either

ASSUME DfaAssumption == useecs \in BOOLEAN /\ Rejects \subseteq BOOLEAN

VARIABLES
  reject,    \* the one chosen; then also true if a rule is variable
  ecgroup,   \* for each character the number of its class
  dfas,      \* the DFA states: [dss: a bag of NFA states, acc: what it accepts]
  start,     \* the number of start states made
  end_of_buffer_state,
  todo_head, \* the DFA states whose symbols have been followed, or are being
  sym,       \* the last symbol looked at
  state,     \* the transitions of this DFA state; 0 for none
  nxt,       \* the transitions of the ones before it
  num_backing_up

dfavars == <<reject, ecgroup, dfas, start, end_of_buffer_state, todo_head, sym, state, nxt,
             num_backing_up>>
allvars == <<vars, dfavars>>

----------------------------------------------------------------------------
(* The classes of characters, once the rules are read.                     *)

Member(c) == IF c = 0 THEN csize ELSE c

\* The characters and classes that patterns have transitions on; the two of '.'
\* are made together.
Singles == {nfas[s].on : s \in DOMAIN nfas} \cap Alphabet
Named == {k \in DOMAIN Classes : \E s \in DOMAIN nfas : nfas[s].on = ClassSym(k)}
Used ==
  LET dots == {DotCcl(dot_all) : dot_all \in BOOLEAN}
  IN  Named \cup IF dots \cap Named = {} THEN {} ELSE dots

\* Nothing has split c from d; a class with NUL splits NUL off.
Together(c, d) ==
  \/ c = d
  \/ /\ {c, d} \cap Singles = {}
     /\ \A k \in Used : c \in Classes[k].table <=> d \in Classes[k].table
     /\ 0 \in {c, d} => \A k \in Used : 0 \notin Classes[k].table

\* The least member of the class of c; cre8ecs() numbers classes by these.
Least(c) == Min({Member(d) : d \in {x \in Alphabet : Together(c, x)}})

EcNumbers ==
  IF useecs
  THEN [c \in Alphabet |-> Cardinality({Least(d) : d \in {x \in Alphabet : Least(x) <= Least(c)}})]
  ELSE [c \in Alphabet |-> Member(c)]

numecs == Cardinality(Range(ecgroup))
Symbols == 1 .. numecs
NUL_ec == ecgroup[0]

\* The table of a class: after ccl2ecl() in class numbers, else in characters.
Table(k) == IF useecs THEN {ecgroup[c] : c \in AllCcls[k].table} ELSE AllCcls[k].table

Mapped(ch) == IF ch = 0 THEN NUL_ec ELSE ch

\* A walk along a table, which is in increasing order, comes across symbol e
\* before it comes across a greater one.
Met(k, e) ==
  \E ch \in Table(k) : Mapped(ch) = e /\ \A d \in Table(k) : d < ch => Mapped(d) <= e

----------------------------------------------------------------------------
(* The operations on sets of NFA states.                                   *)

\* epsclosure(): the states it is given, all of them, and those reachable
\* that have a transition on a symbol or accept.
Closure_NoSeeds(nf, bag) ==
  LET reach == EpsReach(nf, DOMAIN bag)
      kept == {s \in reach : nf[s].acc # NIL \/ nf[s].on # EPS}
  IN  [dss |-> SetToBag(kept), acc |-> Numbers(nf, reach)]
Closure(nf, bag) ==
  LET reach == EpsReach(nf, DOMAIN bag)
      added == {s \in reach \ DOMAIN bag : nf[s].acc # NIL \/ nf[s].on # EPS}
  IN  [dss |-> bag (+) SetToBag(added), acc |-> Numbers(nf, reach)]

\* What a state accepts: the first of the rules, or with REJECT all of them.
Accepted_Last(acc) == IF reject \/ acc = {} THEN acc ELSE {Max(acc)}
Accepted(acc) == IF reject \/ acc = {} THEN acc ELSE {Min(acc)}

\* snstods(): a state that is there already, or a new one.
Known(c) == {i \in DOMAIN dfas : dfas[i].dss = c.dss}
Extended(c) == IF Known(c) # {} THEN dfas ELSE Append(dfas, [dss |-> c.dss, acc |-> Accepted(c.acc)])
Snstods_New(c) == Len(dfas) + 1
Snstods(c) == IF Known(c) # {} THEN Min(Known(c)) ELSE Len(dfas) + 1

\* symfollowset(): whether NFA state s has a transition on symbol e, and the
\* targets of those of DFA state ds that have.
Follows(s, e) ==
  IF nfas[s].on \in Alphabet THEN ecgroup[nfas[s].on] = e
  ELSE \E k \in DOMAIN AllCcls : nfas[s].on = ClassSym(k) /\ AllCcls[k].ng # Met(k, e)

Symfollowset(dss, e) ==
  LET from == {s \in DOMAIN dss : Follows(s, e)}
      to(t) == {s \in from : nfas[s].to[1] = t}
  IN  [t \in {nfas[s].to[1] : s \in from} |-> MapThenSumSet(LAMBDA s : dss[s], to(t))]

\* sympartition(): the symbols with a transition, and for each symbol the one
\* before it that has the same ones.  A negated class marks the symbols that
\* its walk passes by, the others those in the table.
Marked(s, e) ==
  IF nfas[s].on \in Alphabet THEN ecgroup[nfas[s].on] = e
  ELSE \E k \in DOMAIN AllCcls :
         /\ nfas[s].on = ClassSym(k)
         /\ IF AllCcls[k].ng THEN ~Met(k, e) ELSE e \in {Mapped(ch) : ch \in Table(k)}
Symlist_All(dss) == Symbols
Symlist(dss) == {e \in Symbols : \E s \in DOMAIN dss : Marked(s, e)}

SameTransitions_Tables(dss, d, e) ==
  \A s \in DOMAIN dss, k \in DOMAIN AllCcls :
    nfas[s].on = ClassSym(k) => (d \in Table(k) <=> e \in Table(k))
SameTransitions(dss, d, e) ==
  \A s \in DOMAIN dss :
    /\ nfas[s].on \in Alphabet => ecgroup[nfas[s].on] \notin {d, e}
    /\ \A k \in DOMAIN AllCcls : nfas[s].on = ClassSym(k) =>
         /\ d \in Table(k) <=> e \in Table(k)
         /\ 0 \in Table(k) => NUL_ec \notin {d, e}

Duplist(dss, e) == {d \in 1 .. e - 1 : SameTransitions(dss, d, e)}

----------------------------------------------------------------------------
(* ntod()                                                                  *)

DfaInit ==
  /\ Init
  /\ reject \in Rejects
  /\ ecgroup = [c \in Alphabet |-> Member(c)]
  /\ dfas = <<>> /\ start = 0 /\ end_of_buffer_state = 0
  /\ todo_head = 0 /\ sym = 0 /\ state = <<>> /\ nxt = <<>>
  /\ num_backing_up = 0

\* The end of readin() and of flex_main()'s look at the rules.
ReadIn ==
  /\ pc = "parsed"
  /\ ecgroup' = EcNumbers
  /\ reject' = (reject \/ \E k \in DOMAIN rules : rules[k].variable)
  /\ pc' = "starts"
  /\ UNCHANGED <<budget, nfas, stk, rule, rules, conds, steps>>
  /\ UNCHANGED <<dfas, start, end_of_buffer_state, todo_head, sym, state, nxt, num_backing_up>>

NumConditionStates == 2 * Len(Exclusive)

\* One start state: not at the beginning of a line, then at it.
StartState ==
  /\ pc = "starts" /\ start < NumConditionStates
  /\ LET cond == conds[(start \div 2) + 1]
         top == IF start % 2 = 0 THEN [n |-> nfas, m |-> cond.set]
                ELSE MkBranch(nfas, cond.bol, cond.set)
     IN  /\ nfas' = top.n
         /\ dfas' = Extended(Closure(top.n, SetToBag({top.m})))
  /\ start' = start + 1
  /\ UNCHANGED <<budget, stk, rule, rules, conds, pc, steps>>
  /\ UNCHANGED <<reject, ecgroup, end_of_buffer_state, todo_head, sym, state, nxt, num_backing_up>>

\* The state of no NFA states at all.  It must be new: "could not create
\* unique end-of-buffer state".
EndOfBufferState ==
  /\ pc = "starts" /\ start = NumConditionStates
  /\ LET none == [dss |-> EmptyBag, acc |-> {}]
     IN  /\ Known(none) = {}
         /\ dfas' = Extended(none)
         /\ end_of_buffer_state' = Snstods(none)
  /\ pc' = "todo"
  /\ UNCHANGED <<budget, nfas, stk, rule, rules, conds, steps>>
  /\ UNCHANGED <<reject, ecgroup, start, todo_head, sym, state, nxt, num_backing_up>>

BeginState ==
  /\ pc = "todo" /\ todo_head < Len(dfas)
  /\ todo_head' = todo_head + 1
  /\ sym' = 0
  /\ state' = [e \in Symbols |-> 0]
  /\ pc' = "symbols"
  /\ UNCHANGED <<budget, nfas, stk, rule, rules, conds, steps>>
  /\ UNCHANGED <<reject, ecgroup, dfas, start, end_of_buffer_state, nxt, num_backing_up>>

\* The next symbol of the list: it goes where the one before it goes that has
\* the same transitions, or else it is followed.
NextSymbol == LET ahead == {e \in Symlist(dfas[todo_head].dss) : e > sym}
              IN  IF ahead = {} THEN NIL ELSE Min(ahead)

Follow ==
  LET e == NextSymbol
      duplicates == Duplist(dfas[todo_head].dss, e)
      target == Closure(nfas, Symfollowset(dfas[todo_head].dss, e))
  IN  /\ pc = "symbols" /\ e # NIL
      /\ IF duplicates # {}
         THEN /\ state' = [state EXCEPT ![e] = state[Max(duplicates)]]
              /\ UNCHANGED dfas
         ELSE /\ state' = [state EXCEPT ![e] = Snstods(target)]
              /\ dfas' = Extended(target)
      /\ sym' = e
      /\ UNCHANGED vars
      /\ UNCHANGED <<reject, ecgroup, start, end_of_buffer_state, todo_head, nxt, num_backing_up>>

\* check_for_backing_up(), of the states after the first ones.
BacksUp_RejectOnly(ds) == ds > NumConditionStates + 1 /\ reject /\ dfas[ds].acc = {}
BacksUp(ds) == ds > NumConditionStates + 1 /\ dfas[ds].acc = {}

EndState ==
  /\ pc = "symbols" /\ NextSymbol = NIL
  /\ num_backing_up' = num_backing_up + IF BacksUp(todo_head) THEN 1 ELSE 0
  /\ nxt' = Append(nxt, state)
  /\ pc' = "todo"
  /\ UNCHANGED <<budget, nfas, stk, rule, rules, conds, steps>>
  /\ UNCHANGED <<reject, ecgroup, dfas, start, end_of_buffer_state, todo_head, sym, state>>

Finish ==
  /\ pc = "todo" /\ todo_head = Len(dfas)
  /\ pc' = "done"
  /\ UNCHANGED <<budget, nfas, stk, rule, rules, conds, steps>>
  /\ UNCHANGED dfavars

Done == pc = "done" /\ UNCHANGED allvars

DfaNext ==
  \/ Parse /\ UNCHANGED dfavars
  \/ ReadIn
  \/ StartState
  \/ EndOfBufferState
  \/ BeginState
  \/ Follow
  \/ EndState
  \/ Finish
  \/ Done

DfaSpec == DfaInit /\ [][DfaNext]_allvars

----------------------------------------------------------------------------
(* What must be true of it.                                                *)

DfaTypeOK ==
  /\ pc \in {"rule", "trail", "parsed", "starts", "todo", "symbols", "done"}
  /\ ecgroup \in [Alphabet -> 1 .. csize]
  /\ \A d \in Range(dfas) : IsABag(d.dss) /\ DOMAIN d.dss \subseteq DOMAIN nfas
  /\ end_of_buffer_state \in 0 .. Len(dfas) /\ todo_head \in 0 .. Len(dfas)
  /\ \A r \in Range(nxt) \cup {state} : Range(r) \subseteq 0 .. Len(dfas)
  /\ num_backing_up \in 0 .. Len(dfas)

\* Where the scanner is in after a word, from start state d; 0 once it jams.
Run(d, w) ==
  LET at[i \in 0 .. Len(w)] ==
        IF i = 0 THEN d ELSE IF at[i - 1] = 0 THEN 0 ELSE nxt[at[i - 1]][ecgroup[w[i]]]
  IN  at[Len(w)]

\* The state that the scanner starts in: yy_start, plus one at the beginning
\* of a line.
StartOf(i, bol) == 2 * i - 1 + IF bol THEN 1 ELSE 0

\* The accepting numbers that a word should have.
Deserves(i, bol, w, whole) ==
  LET active == {k \in DOMAIN rules : i \in rules[k].active /\ (rules[k].bol => bol)}
  IN  {k \in active : w \in whole[k]} \cup
      {k + YY_TRAILING_HEAD_MASK : k \in {j \in active : rules[j].variable /\ w \in rules[j].head}}

\* In every start condition, at the beginning of a line or not, the DFA
\* accepts after every text just what the patterns of the active rules mean:
\* the first rule that matches it, or all of them if there is REJECT.  It is
\* the rules that decide, whatever the classes, the lists and the duplicates.
Scans ==
  pc = "done" =>
    LET whole == [k \in DOMAIN rules |-> Cat(rules[k].head, rules[k].trail)]
    IN  \A i \in Conditions, bol \in BOOLEAN, w \in AllWords :
          LET at == Run(StartOf(i, bol), w)
              deserved == Deserves(i, bol, w, whole)
          IN  (IF at = 0 THEN {} ELSE dfas[at].acc) =
              {k \in deserved : reject \/ \A j \in deserved : k <= j}

\* A symbol listed as a duplicate is one of a symbol that has a transition:
\* the search of targstate[] for the target of that one ends.
DuplicatesFound ==
  pc = "symbols" /\ NextSymbol # NIL =>
    LET duplicates == Duplist(dfas[todo_head].dss, NextSymbol)
    IN  duplicates # {} => state[Max(duplicates)] # 0

\* No text leads to the end-of-buffer state, and nothing leaves it: the
\* scanner is in it only when it has seen the mark at the end of the buffer.
EobApart ==
  pc = "done" =>
    /\ end_of_buffer_state = NumConditionStates + 1
    /\ \A r \in Range(nxt) : end_of_buffer_state \notin Range(r)
    /\ Range(nxt[end_of_buffer_state]) = {0}

\* When no state needs backing up a scanner with full tables is generated
\* without the code for it; then it never jams in a state that accepts nothing.
BackingUpKnown ==
  pc = "done" /\ num_backing_up = 0 =>
    \A i \in Conditions, bol \in BOOLEAN, w \in AllWords \ {<<>>} :
      LET at == Run(StartOf(i, bol), w)
      IN  at # 0 => dfas[at].acc # {}
=============================================================================
