----------------------------- MODULE NfaProofs -----------------------------
(***************************************************************************)
(* For all patterns: mkxtion() never finds "too many transitions", the     *)
(* machines on the parser's stack stay self-contained, what is cut off a   *)
(* match is the trailing context, and rules know of their newlines.  And   *)
(* for every NFA that this leads to: the search for a duplicate's target   *)
(* ends, no text leads to the end-of-buffer state, and the states that     *)
(* need backing up are noticed.                                            *)
(*                                                                         *)
(* The argument for the machines: the final state of every machine has a   *)
(* transition left, and the machines on the stack divide the top of the    *)
(* state array among them, each closed under its transitions. The          *)
(* operations of nfa.cpp preserve this of the machine they return and      *)
(* leave the states below it alone. What is counted of a rule, and what is *)
(* known of its newlines, needs none of that: they follow the words of the *)
(* values.                                                                 *)
(*                                                                         *)
(* The argument for the DFA: the states that the rules hang below are on   *)
(* nothing, accept nothing, and no symbol leads to one.  So each is in the *)
(* start state that was made from it and in no state that a symbol leads   *)
(* to: those come after the first ones.  When the rules are read no state  *)
(* on a symbol is without its transition, so that a symbol leads to some   *)
(* state.                                                                  *)
(***************************************************************************)
EXTENDS Dfa, NumberLemmas, FiniteSetTheorems

NfaState == [on : Int, to : Seq(Nat), acc : Nat, first : Nat, last : Nat, final : Nat]
Syms == Alphabet \cup {EPS} \cup {ClassSym(k) : k \in DOMAIN AllCcls}

\* A state with a transition left.
Slots(on) == IF on = EPS THEN 2 ELSE 1
Room(st) == Len(st.to) < Slots(st.on)

\* A state of an array of n states, with an accepting number in A.
Fits(st, n, A) ==
  /\ st.on \in Syms /\ st.acc \in A
  /\ st.first \in 1 .. n /\ st.last \in 1 .. n /\ st.final \in 1 .. n
  /\ \A k \in DOMAIN st.to : st.to[k] \in 1 .. n
  /\ Len(st.to) <= Slots(st.on)

Good(nf, A) == nf \in Seq(NfaState) /\ \A s \in 1 .. Len(nf) : Fits(nf[s], Len(nf), A)

\* No transition leaves a .. z.
Closed(nf, a, z) == \A s \in a .. z : \A k \in DOMAIN nf[s].to : nf[s].to[k] \in a .. z

\* A state on a symbol without its transition.
Lacks(st) == st.on # EPS /\ Len(st.to) = 0
Led(nf, a, z) == \A s \in a .. z : ~Lacks(nf[s])

\* The machine m has the states a .. z, and only its final state may have no
\* transition on its symbol.
Shape(nf, m, a, z) ==
  /\ a \in 1 .. z /\ z \in 1 .. Len(nf) /\ m \in a .. z
  /\ nf[m].first = a /\ nf[m].last = z /\ nf[m].final \in a .. z
  /\ Room(nf[nf[m].final])
Tight(nf, m, a, z) == \A s \in a .. z : Lacks(nf[s]) => s = nf[m].final
Machine(nf, m, a, z) == Shape(nf, m, a, z) /\ Tight(nf, m, a, z)

\* It can be linked to another.
Ready(nf, m) == m \in 1 .. Len(nf) /\ Room(nf[nf[m].final])

----------------------------------------------------------------------------
(* The operations on states.                                               *)

LEMMA Max2 == ASSUME NEW a \in Int, NEW b \in Int PROVE Max({a, b}) = IF a >= b THEN a ELSE b
<1> DEFINE S == {a, b}
           u == IF a >= b THEN a ELSE b
<1>1. S \subseteq Int /\ S # {} /\ u \in Int /\ \A y \in S : y <= u
  OBVIOUS
<1> HIDE DEF S, u
<1>2. Max(S) \in S /\ \A y \in S : y <= Max(S)
  BY <1>1, MaxIs
<1> QED
  BY <1>2 DEF S, u

LEMMA Min2 == ASSUME NEW a \in Int, NEW b \in Int PROVE Min({a, b}) = IF a <= b THEN a ELSE b
<1> DEFINE S == {a, b}
           l == IF a <= b THEN a ELSE b
<1>1. S \subseteq Int /\ S # {} /\ l \in Int /\ \A y \in S : l <= y
  OBVIOUS
<1> HIDE DEF S, l
<1>2. Min(S) \in S /\ \A y \in S : Min(S) <= y
  BY <1>1, MinIs
<1> QED
  BY <1>2 DEF S, l

\* A state of an array.
LEMMA GoodElement ==
  ASSUME NEW A \in SUBSET Nat, NEW nf, Good(nf, A), NEW s \in 1 .. Len(nf)
  PROVE  /\ nf[s] \in NfaState /\ Fits(nf[s], Len(nf), A) /\ Len(nf) \in Nat
         /\ nf[s].to \in Seq(Nat) /\ nf[s].on \in Int
<1>1. nf[s] \in NfaState /\ Fits(nf[s], Len(nf), A) /\ Len(nf) \in Nat
  BY DEF Good
<1> QED
  BY <1>1 DEF NfaState

\* mkstate() adds a state and leaves the others alone.
Added(n, nf, label, A) ==
  LET s == Len(nf) + 1
  IN  /\ Good(n, A) /\ Len(n) = s /\ Len(nf) \in Nat
      /\ \A t \in 1 .. Len(nf) : n[t] = nf[t]
      /\ n[s].on = label /\ n[s].to = <<>> /\ n[s].acc = NIL /\ n[s].final = s
      /\ Machine(n, s, s, s) /\ Closed(n, s, s)

LEMMA MkStateIs ==
  ASSUME NEW A \in SUBSET Nat, NIL \in A, NEW nf, Good(nf, A), NEW label \in Syms
  PROVE  Added(MkState(nf, label), nf, label, A)
<1> DEFINE n == MkState(nf, label)
           s == Len(nf) + 1
           new == [on |-> label, to |-> <<>>, acc |-> NIL, first |-> s, last |-> s, final |-> s]
<1>1. nf \in Seq(NfaState) /\ Len(nf) \in Nat
  BY DEF Good
<1>2. label \in Int
  BY DEF Syms, Alphabet, EPS, ClassSym, AllCcls, Classes
<1>3. new \in NfaState
  BY <1>1, <1>2 DEF NfaState, NIL
<1>4. n = Append(nf, new)
  BY DEF MkState
<1> HIDE DEF new, n
<1>5. n \in Seq(NfaState) /\ Len(n) = s /\ n[s] = new /\ \A t \in 1 .. Len(nf) : n[t] = nf[t]
  BY <1>1, <1>3, <1>4
<1>6. Fits(new, s, A) /\ Room(new)
  BY <1>1 DEF new, Fits, Slots, Room
<1>7. ASSUME NEW t \in 1 .. Len(nf) PROVE Fits(nf[t], s, A)
  BY <1>1 DEF Good, Fits
<1>8. Good(n, A)
  BY <1>1, <1>5, <1>6, <1>7 DEF Good
<1>9. /\ new.on = label /\ new.to = <<>> /\ new.acc = NIL /\ new.first = s /\ new.last = s /\ new.final = s
      /\ DOMAIN new.to = {}
  BY DEF new
<1> QED
  BY <1>1, <1>5, <1>6, <1>8, <1>9 DEF Machine, Shape, Tight, Closed, Added, n

\* mkxtion() from a state with a transition left.
Pushed(n, nf, from, to, A) ==
  /\ Good(n, A) /\ Len(n) = Len(nf) /\ Len(nf) \in Nat
  /\ \A t \in 1 .. Len(nf) : t # from => n[t] = nf[t]
  /\ n[from].to = Append(nf[from].to, to)
  /\ n[from].on = nf[from].on /\ n[from].acc = nf[from].acc
  /\ n[from].first = nf[from].first /\ n[from].last = nf[from].last
  /\ n[from].final = nf[from].final
  /\ Len(n[from].to) = Len(nf[from].to) + 1
  /\ \A k \in DOMAIN n[from].to :
       n[from].to[k] = to \/ (k \in DOMAIN nf[from].to /\ n[from].to[k] = nf[from].to[k])

LEMMA MkXtionIs ==
  ASSUME NEW A \in SUBSET Nat, NEW nf, Good(nf, A),
         NEW from \in 1 .. Len(nf), NEW to \in 1 .. Len(nf), Room(nf[from])
  PROVE  Pushed(MkXtion(nf, from, to), nf, from, to, A)
<1> DEFINE n == MkXtion(nf, from, to)
           new == [nf[from] EXCEPT !.to = Append(@, to)]
<1>1. /\ nf \in Seq(NfaState) /\ Len(nf) \in Nat /\ nf[from] \in NfaState
      /\ Fits(nf[from], Len(nf), A) /\ nf[from].to \in Seq(Nat)
  BY GoodElement DEF Good
<1>2. n = [nf EXCEPT ![from] = new]
  BY DEF MkXtion
<1>t. Append(nf[from].to, to) \in Seq(Nat)
  BY <1>1
<1>3. /\ new \in NfaState /\ new.to = Append(nf[from].to, to)
      /\ new.on = nf[from].on /\ new.acc = nf[from].acc
      /\ new.first = nf[from].first /\ new.last = nf[from].last /\ new.final = nf[from].final
  BY <1>1, <1>t DEF NfaState
<1> HIDE DEF new, n
<1>4. /\ n \in Seq(NfaState) /\ Len(n) = Len(nf) /\ n[from] = new
      /\ \A t \in 1 .. Len(nf) : t # from => n[t] = nf[t]
  BY <1>1, <1>2, <1>3
<1>5. /\ Len(new.to) = Len(nf[from].to) + 1
      /\ \A k \in DOMAIN new.to : new.to[k] = to \/ (k \in DOMAIN nf[from].to /\ new.to[k] = nf[from].to[k])
  BY <1>1, <1>3
<1>6. Fits(new, Len(nf), A)
  <2>1. Len(nf[from].to) + 1 <= Slots(nf[from].on)
    <3>1. Slots(nf[from].on) \in Nat /\ Len(nf[from].to) \in Nat
      BY <1>1 DEF Slots
    <3> QED
      BY <3>1 DEF Room
  <2> QED
    BY <1>1, <1>3, <1>5, <2>1 DEF Fits
<1>7. Good(n, A)
  BY <1>1, <1>4, <1>6 DEF Good
<1> QED
  BY <1>1, <1>3, <1>4, <1>5, <1>7 DEF Pushed, n

LEMMA PushedLacks ==
  ASSUME NEW A \in SUBSET Nat, NEW nf, Good(nf, A), NEW from \in 1 .. Len(nf), NEW to, NEW n,
         Pushed(n, nf, from, to, A), NEW t \in 1 .. Len(nf), Lacks(n[t])
  PROVE  Lacks(nf[t]) /\ t # from
<1>1. Len(nf[from].to) \in Nat
  BY GoodElement
<1> QED
  BY <1>1 DEF Pushed, Lacks

\* link_machines().
Linked(n, nf, x, y, e, A) ==
  /\ Good(n, A) /\ Len(n) = Len(nf) /\ Len(nf) \in Nat /\ e \in 1 .. Len(nf)
  /\ \A t \in 1 .. Len(nf) : t # x /\ t # e => n[t] = nf[t]
  /\ \A t \in 1 .. Len(nf) : n[t].on = nf[t].on /\ n[t].acc = nf[t].acc
  /\ \A t \in 1 .. Len(nf) : t # x =>
       n[t].first = nf[t].first /\ n[t].last = nf[t].last /\ n[t].final = nf[t].final
  /\ \A t \in 1 .. Len(nf) : t # e => n[t].to = nf[t].to
  /\ n[x].final = nf[y].final
  /\ n[x].last = IF nf[x].last >= nf[y].last THEN nf[x].last ELSE nf[y].last
  /\ n[x].first = IF nf[x].first <= nf[y].first THEN nf[x].first ELSE nf[y].first
  /\ Len(n[e].to) = Len(nf[e].to) + 1
  /\ \A k \in DOMAIN n[e].to :
       n[e].to[k] = y \/ (k \in DOMAIN nf[e].to /\ n[e].to[k] = nf[e].to[k])

LEMMA LinkIs ==
  ASSUME NEW A \in SUBSET Nat, NEW nf, Good(nf, A),
         NEW x \in 1 .. Len(nf), NEW y \in 1 .. Len(nf), Room(nf[nf[x].final])
  PROVE  Linked(Link(nf, x, y), nf, x, y, nf[x].final, A)
<1> DEFINE n == Link(nf, x, y)
           e == nf[x].final
           b == MkXtion(nf, e, y)
           last == IF nf[x].last >= nf[y].last THEN nf[x].last ELSE nf[y].last
           first == IF nf[x].first <= nf[y].first THEN nf[x].first ELSE nf[y].first
           new == [b[x] EXCEPT !.final = nf[y].final, !.last = last, !.first = first]
<1>1. /\ nf[x] \in NfaState /\ nf[y] \in NfaState /\ Fits(nf[x], Len(nf), A)
      /\ Fits(nf[y], Len(nf), A) /\ Len(nf) \in Nat
  BY GoodElement
<1>2. /\ e \in 1 .. Len(nf) /\ nf[x].last \in 1 .. Len(nf) /\ nf[y].last \in 1 .. Len(nf)
      /\ nf[x].first \in 1 .. Len(nf) /\ nf[y].first \in 1 .. Len(nf)
      /\ nf[y].final \in 1 .. Len(nf)
  BY <1>1 DEF Fits
<1>3. Pushed(b, nf, e, y, A)
  BY <1>2, MkXtionIs
<1> HIDE DEF b
<1>4. b[x].last = nf[x].last /\ b[x].first = nf[x].first /\ b[x] \in NfaState /\ Fits(b[x], Len(nf), A)
  <2>1. x \in 1 .. Len(b)
    BY <1>3 DEF Pushed
  <2>2. b[x] \in NfaState /\ Fits(b[x], Len(b), A)
    BY <2>1, <1>3, GoodElement DEF Pushed
  <2>3. CASE x = e
    BY <1>3, <2>2, <2>3 DEF Pushed
  <2>4. CASE x # e
    BY <1>3, <2>2, <2>4 DEF Pushed
  <2> QED
    BY <2>3, <2>4
<1>5. last = Max({nf[x].last, nf[y].last}) /\ first = Min({nf[x].first, nf[y].first})
  BY SMTT(60), <1>2, Max2, Min2
<1>6. b \in Seq(NfaState)
  BY <1>3 DEF Pushed, Good
<1>7. n = [b EXCEPT ![x] = Taking(b[x], nf[y].final, nf[y].last, nf[y].first)]
  <2> HIDE DEF last, first, new
  <2> QED
    BY ONLY Zenon DEF n, Link, b, e
<1>8. n = [b EXCEPT ![x] = new]
  <2>1. Taking(b[x], nf[y].final, nf[y].last, nf[y].first) = new
    <3> HIDE DEF last, first
    <3> QED
      BY <1>4, <1>5 DEF Taking
  <2> HIDE DEF n, new
  <2> QED
    BY ONLY <1>7, <2>1
<1> HIDE DEF n
<1>9. last \in 1 .. Len(nf) /\ first \in 1 .. Len(nf)
  BY <1>2
<1>10. /\ new.final = nf[y].final /\ new.last = last /\ new.first = first
       /\ new.to = b[x].to /\ new.on = b[x].on /\ new.acc = b[x].acc /\ new \in NfaState
  <2> HIDE DEF last, first
  <2>1. b[x] \in NfaState /\ nf[y].final \in Nat /\ last \in Nat /\ first \in Nat
    BY <1>2, <1>4, <1>9
  <2> QED
    BY <2>1 DEF NfaState
<1> HIDE DEF new
<1>11. Fits(new, Len(nf), A)
  BY <1>2, <1>4, <1>9, <1>10 DEF Fits
<1>12. /\ n \in Seq(NfaState) /\ Len(n) = Len(nf) /\ n[x] = new
       /\ \A t \in 1 .. Len(nf) : t # x => n[t] = b[t]
  <2>1. Len(b) = Len(nf)
    BY <1>3 DEF Pushed
  <2>2. DOMAIN b = 1 .. Len(nf) /\ \A t \in 1 .. Len(nf) : b[t] \in NfaState
    BY <1>6, <2>1
  <2>3. DOMAIN n = DOMAIN b /\ n[x] = new /\ \A t \in DOMAIN b : t # x => n[t] = b[t]
    BY <1>8, <2>2
  <2>4. new \in NfaState
    BY <1>10
  <2>5. n \in [1 .. Len(nf) -> NfaState]
    BY <1>8, <2>2, <2>4
  <2>6. n \in Seq(NfaState) /\ Len(n) = Len(nf)
    BY <1>1, <2>5
  <2> QED
    BY <2>2, <2>3, <2>6
<1>13. Good(n, A)
  <2> SUFFICES ASSUME NEW t \in 1 .. Len(n) PROVE Fits(n[t], Len(n), A)
    BY <1>12 DEF Good
  <2>1. t # x => Fits(b[t], Len(b), A)
    BY <1>3, <1>12 DEF Good, Pushed
  <2> QED
    BY <2>1, <1>3, <1>11, <1>12 DEF Pushed
<1>14. \A t \in 1 .. Len(nf) : t # x /\ t # e => n[t] = nf[t]
  BY <1>3, <1>12 DEF Pushed
<1>15. \A t \in 1 .. Len(nf) : n[t].on = b[t].on /\ n[t].acc = b[t].acc /\ n[t].to = b[t].to
  BY <1>10, <1>12
<1>16. \A t \in 1 .. Len(nf) : t # x =>
         n[t].first = nf[t].first /\ n[t].last = nf[t].last /\ n[t].final = nf[t].final
  BY <1>3, <1>12 DEF Pushed
<1>17. \A t \in 1 .. Len(nf) : b[t].on = nf[t].on /\ b[t].acc = nf[t].acc
  BY <1>3 DEF Pushed
<1>18. \A t \in 1 .. Len(nf) : t # e => b[t].to = nf[t].to
  BY <1>3 DEF Pushed
<1>19. n[e].to = b[e].to
  BY <1>2, <1>15
<1>20. n[x].final = nf[y].final /\ n[x].last = last /\ n[x].first = first
  BY <1>10, <1>12
<1> HIDE DEF e
<1>21. /\ Len(n[e].to) = Len(nf[e].to) + 1
       /\ \A k \in DOMAIN n[e].to :
            n[e].to[k] = y \/ (k \in DOMAIN nf[e].to /\ n[e].to[k] = nf[e].to[k])
  BY <1>3, <1>19 DEF Pushed
<1> HIDE DEF last, first
<1>22. /\ \A t \in 1 .. Len(nf) : n[t].on = nf[t].on /\ n[t].acc = nf[t].acc
       /\ \A t \in 1 .. Len(nf) : t # e => n[t].to = nf[t].to
  BY <1>15, <1>17, <1>18
<1> USE DEF last, first
<1>23. Linked(n, nf, x, y, e, A)
  BY <1>1, <1>2, <1>12, <1>13, <1>14, <1>16, <1>20, <1>21, <1>22 DEF Linked
<1> QED
  BY <1>23 DEF n, e

----------------------------------------------------------------------------
(* Machines.                                                               *)

\* A machine is what its own states say.
LEMMA ShapeKept ==
  ASSUME NEW nf, NEW n, NEW m, NEW a, NEW z, Shape(nf, m, a, z),
         nf[m].final \in a .. z => n[nf[m].final] = nf[nf[m].final],
         n[m] = nf[m], Len(nf) \in Nat, Len(n) \in Nat, z <= Len(n), a \in Int, z \in Int
  PROVE  Shape(n, m, a, z)
BY DEF Shape

LEMMA ClosedKept ==
  ASSUME NEW nf, NEW n, NEW a, NEW z, Closed(nf, a, z), \A t \in a .. z : n[t] = nf[t]
  PROVE  Closed(n, a, z)
BY DEF Closed

\* So are two closed neighbours together.
LEMMA ClosedUnion ==
  ASSUME NEW nf, NEW a \in Int, NEW b \in Int, NEW z \in Int,
         Closed(nf, a, b), Closed(nf, b + 1, z), a <= b + 1, b <= z
  PROVE  Closed(nf, a, z)
<1> SUFFICES ASSUME NEW s \in a .. z, NEW k \in DOMAIN nf[s].to PROVE nf[s].to[k] \in a .. z
  BY DEF Closed
<1>1. CASE s \in a .. b
  BY <1>1 DEF Closed
<1>2. CASE s \in b + 1 .. z
  BY <1>2 DEF Closed
<1> QED
  BY <1>1, <1>2

\* Two machines that are linked become one of the states of both, if no
\* transition leaves these, and has the final state of the second.
Joined(n, nf, x, ax, zx, y, a, z, A) ==
  /\ Good(n, A) /\ Len(n) = Len(nf) /\ Len(nf) \in Nat
  /\ Shape(n, x, a, z) /\ Closed(n, a, z)
  /\ \A t \in 1 .. Len(nf) : t \notin ax .. zx => n[t] = nf[t]
  /\ n[x].final = nf[y].final
  /\ \A t \in 1 .. Len(nf) : n[t].on = nf[t].on
  /\ \A t \in 1 .. Len(nf) : t # nf[x].final => n[t].to = nf[t].to
  /\ Len(n[nf[x].final].to) = Len(nf[nf[x].final].to) + 1
  /\ \A t \in 1 .. Len(nf) : t # x => n[t].final = nf[t].final
  /\ \A t \in 1 .. Len(nf) : Lacks(n[t]) => Lacks(nf[t]) /\ t # nf[x].final

LEMMA JoinIs ==
  ASSUME NEW A \in SUBSET Nat, NEW nf, Good(nf, A),
         NEW x, NEW ax, NEW zx, Shape(nf, x, ax, zx),
         NEW y, NEW ay, NEW zy, Shape(nf, y, ay, zy),
         zx < ay \/ zy < ax, NEW a, NEW z,
         a = IF ax <= ay THEN ax ELSE ay, z = IF zx >= zy THEN zx ELSE zy,
         Closed(nf, a, z)
  PROVE  Joined(Link(nf, x, y), nf, x, ax, zx, y, a, z, A)
<1> DEFINE n == Link(nf, x, y)
           e == nf[x].final
<1>1. /\ Len(nf) \in Nat /\ ax \in 1 .. zx /\ zx \in 1 .. Len(nf) /\ x \in ax .. zx
      /\ e \in ax .. zx /\ Room(nf[e]) /\ nf[x].first = ax /\ nf[x].last = zx
      /\ ay \in 1 .. zy /\ zy \in 1 .. Len(nf) /\ y \in ay .. zy
      /\ nf[y].final \in ay .. zy /\ Room(nf[nf[y].final]) /\ nf[y].first = ay /\ nf[y].last = zy
  BY DEF Shape, Good
<1>2. ax \in Int /\ zx \in Int /\ ay \in Int /\ zy \in Int /\ x \in 1 .. Len(nf) /\ y \in 1 .. Len(nf)
  BY <1>1
<1>3. Linked(n, nf, x, y, e, A)
  BY <1>1, <1>2, LinkIs
<1> HIDE DEF n, e
<1>4. \A t \in 1 .. Len(nf) : t \notin ax .. zx => n[t] = nf[t]
  BY <1>1, <1>3 DEF Linked
<1>5. nf[y].final \in 1 .. Len(nf) /\ nf[y].final \notin ax .. zx
  BY <1>1, <1>2
<1>6. n[nf[y].final] = nf[nf[y].final]
  BY <1>4, <1>5
<1>7. Shape(n, x, a, z)
  BY <1>1, <1>2, <1>3, <1>6 DEF Shape, Linked
<1>8. Closed(n, a, z)
  <2> SUFFICES ASSUME NEW s \in a .. z, NEW k \in DOMAIN n[s].to PROVE n[s].to[k] \in a .. z
    BY DEF Closed
  <2>1. s \in 1 .. Len(nf) /\ y \in a .. z
    BY <1>1, <1>2
  <2>2. \A j \in DOMAIN nf[s].to : nf[s].to[j] \in a .. z
    BY DEF Closed
  <2>3. CASE s = e
    BY <1>3, <2>1, <2>2, <2>3 DEF Linked
  <2>4. CASE s # e
    BY <1>3, <2>1, <2>2, <2>4 DEF Linked
  <2> QED
    BY <2>3, <2>4
<1>9. ASSUME NEW t \in 1 .. Len(nf), Lacks(n[t]) PROVE Lacks(nf[t]) /\ t # e
  <2>1. Len(nf[e].to) \in Nat /\ e \in 1 .. Len(nf)
    BY <1>1, <1>2, GoodElement
  <2> QED
    BY <1>3, <1>9, <2>1 DEF Linked, Lacks
<1> QED
  BY <1>1, <1>3, <1>4, <1>7, <1>8, <1>9 DEF n, e, Linked, Joined

\* A transition within a machine leaves it a machine, if its final state has
\* one left.
Arched(n, nf, x, a, z, from, to, A) ==
  Pushed(n, nf, from, to, A) /\ Shape(n, x, a, z) /\ Closed(n, a, z)

LEMMA ArcIs ==
  ASSUME NEW A \in SUBSET Nat, NEW nf, Good(nf, A),
         NEW x, NEW a, NEW z, Shape(nf, x, a, z), Closed(nf, a, z),
         NEW from \in a .. z, NEW to \in a .. z, Room(nf[from]),
         from = nf[x].final => Len(nf[from].to) + 1 < Slots(nf[from].on)
  PROVE  Arched(MkXtion(nf, from, to), nf, x, a, z, from, to, A)
<1> DEFINE n == MkXtion(nf, from, to)
<1>1. /\ a \in 1 .. z /\ z \in 1 .. Len(nf) /\ x \in a .. z /\ Len(nf) \in Nat
      /\ nf[x].final \in a .. z /\ Room(nf[nf[x].final]) /\ nf[x].first = a /\ nf[x].last = z
  BY DEF Shape, Good
<1>2. from \in 1 .. Len(nf) /\ to \in 1 .. Len(nf) /\ x \in 1 .. Len(nf) /\ nf[x].final \in 1 .. Len(nf)
  BY <1>1
<1>3. Pushed(n, nf, from, to, A)
  BY <1>2, MkXtionIs
<1> HIDE DEF n
<1>4. n[x].first = a /\ n[x].last = z /\ n[x].final = nf[x].final
  BY <1>1, <1>2, <1>3 DEF Pushed
<1>5. Room(n[nf[x].final])
  BY <1>1, <1>2, <1>3 DEF Pushed, Room
<1>6. Shape(n, x, a, z)
  BY <1>1, <1>3, <1>4, <1>5 DEF Shape, Pushed
<1>7. Closed(n, a, z)
  <2> SUFFICES ASSUME NEW s \in a .. z, NEW k \in DOMAIN n[s].to PROVE n[s].to[k] \in a .. z
    BY DEF Closed
  <2>1. s \in 1 .. Len(nf)
    BY <1>1
  <2>2. \A j \in DOMAIN nf[s].to : nf[s].to[j] \in a .. z
    BY DEF Closed
  <2>3. CASE s = from
    BY <1>3, <2>1, <2>2, <2>3 DEF Pushed
  <2>4. CASE s # from
    BY <1>3, <2>1, <2>2, <2>4 DEF Pushed
  <2> QED
    BY <2>3, <2>4
<1> QED
  BY <1>3, <1>6, <1>7 DEF n, Arched

\* The machine m has the last states of the array, from a.
OnTop(nf, m, a, A) == Good(nf, A) /\ Machine(nf, m, a, Len(nf)) /\ Closed(nf, a, Len(nf))

\* The states below a stay as they are.
Keeps(n, nf, a) ==
  /\ Len(nf) \in Nat /\ Len(n) \in Nat /\ Len(nf) <= Len(n) /\ a \in 1 .. Len(nf) + 1
  /\ \A t \in 1 .. a - 1 : n[t] = nf[t]

LEMMA KeepsTwice ==
  ASSUME NEW n, NEW p, NEW q, NEW a, Keeps(p, n, a), Keeps(q, p, a)
  PROVE  Keeps(q, n, a)
BY DEF Keeps

\* A new state beside a machine.
Beside(n, nf, m, a, label, A) ==
  LET s == Len(nf) + 1
  IN  /\ Added(n, nf, label, A)
      /\ Machine(n, m, a, Len(nf)) /\ Closed(n, a, Len(nf)) /\ Closed(n, a, s)
      /\ a \in Int /\ a <= Len(nf) /\ Keeps(n, nf, a)

LEMMA BesideIs ==
  ASSUME NEW A \in SUBSET Nat, NIL \in A, NEW nf, NEW m, NEW a, OnTop(nf, m, a, A),
         NEW label \in Syms
  PROVE  Beside(MkState(nf, label), nf, m, a, label, A)
<1> DEFINE n == MkState(nf, label)
           z == Len(nf)
<1>1. Added(n, nf, label, A)
  BY MkStateIs DEF OnTop
<1> HIDE DEF n
<1>2. /\ z \in Nat /\ a \in 1 .. z /\ m \in a .. z /\ nf[m].final \in a .. z
      /\ Machine(nf, m, a, z) /\ Closed(nf, a, z) /\ Len(n) = z + 1
      /\ \A t \in 1 .. z : n[t] = nf[t]
  BY <1>1 DEF OnTop, Machine, Shape, Added
<1> HIDE DEF z
<1>3. n[m] = nf[m] /\ n[nf[m].final] = nf[nf[m].final] /\ \A t \in a .. z : n[t] = nf[t]
  BY <1>2
<1>4. Machine(n, m, a, z)
  <2>1. Shape(n, m, a, z)
    BY <1>2, <1>3 DEF Machine, Shape
  <2>2. Tight(n, m, a, z)
    BY <1>2, <1>3 DEF Machine, Tight
  <2> QED
    BY <2>1, <2>2 DEF Machine
<1>5. Closed(n, a, z)
  BY <1>2, <1>3, ClosedKept
<1>6. Closed(n, a, z + 1)
  <2>1. Closed(n, z + 1, z + 1)
    BY <1>1 DEF Added, z
  <2> QED
    BY <1>2, <1>5, <2>1, ClosedUnion
<1>7. Keeps(n, nf, a)
  BY <1>2 DEF Keeps, z
<1> QED
  BY <1>1, <1>2, <1>4, <1>5, <1>6, <1>7 DEF Beside, n, z

\* The end of a machine is a new state.
LEMMA EndIs ==
  ASSUME NEW A \in SUBSET Nat, NIL \in A, NEW nf, NEW m, NEW a, OnTop(nf, m, a, A),
         NEW label \in Syms
  PROVE  LET n == Link(MkState(nf, label), m, Len(nf) + 1)
         IN  /\ OnTop(n, m, a, A) /\ Keeps(n, nf, a)
             /\ label = EPS => Led(n, a, Len(n))
<1> DEFINE b == MkState(nf, label)
           s == Len(nf) + 1
           n == Link(b, m, s)
<1>1. Beside(b, nf, m, a, label, A)
  BY BesideIs
<1> HIDE DEF b
<1>2. Joined(n, b, m, a, Len(nf), s, a, s, A)
  <2>1. /\ Len(nf) \in Nat /\ a \in Int /\ a <= Len(nf) /\ Good(b, A)
        /\ Shape(b, m, a, Len(nf)) /\ Shape(b, s, s, s) /\ Closed(b, a, s)
    BY <1>1 DEF Beside, Added, Machine
  <2>2. Len(nf) < s /\ a = (IF a <= s THEN a ELSE s) /\ s = IF Len(nf) >= s THEN Len(nf) ELSE s
    BY <2>1
  <2> HIDE DEF s
  <2> QED
    BY <2>1, <2>2, JoinIs
<1> HIDE DEF n
<1>5. /\ Len(nf) \in Nat /\ Len(b) = s /\ a \in Int /\ Tight(b, m, a, Len(nf))
      /\ b[s].final = s /\ b[s].on = label
  BY <1>1 DEF Beside, Added, Machine
<1>6. ASSUME NEW t \in a .. s, Lacks(n[t]) PROVE t = s /\ Lacks(b[t])
  <2>1. t \in 1 .. Len(b)
    BY <1>1, <1>5 DEF Beside, Keeps
  <2>2. Lacks(b[t]) /\ t # b[m].final
    BY <1>2, <1>6, <2>1 DEF Joined
  <2>3. t \notin a .. Len(nf)
    BY <1>5, <2>2 DEF Tight
  <2> QED
    BY <1>5, <2>2, <2>3
<1>7. Tight(n, m, a, s)
  BY <1>2, <1>5, <1>6 DEF Tight, Joined
<1>8. label = EPS => Led(n, a, s)
  <2> HIDE DEF s
  <2> QED
    BY <1>5, <1>6 DEF Led, Lacks
<1>3. OnTop(n, m, a, A)
  BY <1>1, <1>2, <1>7 DEF Joined, OnTop, Beside, Added, Machine
<1>4. Keeps(n, nf, a)
  BY <1>1, <1>2 DEF Joined, Beside, Added, Keeps
<1>9. Len(n) = s
  BY <1>2, <1>5 DEF Joined
<1> QED
  BY <1>3, <1>4, <1>8, <1>9 DEF n, b

\* What an operation returns.
Made(r, nf, a, A) == OnTop(r.n, r.m, a, A) /\ Keeps(r.n, nf, a)

\* mkopt()
LEMMA MkOptIs ==
  ASSUME NEW A \in SUBSET Nat, NIL \in A, NEW nf, NEW m, NEW a, OnTop(nf, m, a, A)
  PROVE  Made(MkOpt(nf, m), nf, a, A)
<1> DEFINE n == IF SuperFreeEpsilon(nf, nf[m].final) THEN nf
                ELSE Link(MkState(nf, EPS), m, Len(nf) + 1)
           eps == Len(n) + 1
           b == MkState(n, EPS)
           front == Link(b, eps, m)
           last == MkXtion(front, eps, front[eps].final)
<1>e. EPS \in Syms
  BY DEF Syms
<1>1. OnTop(n, m, a, A) /\ Keeps(n, nf, a) /\ Led(n, a, Len(n))
  <2>1. CASE SuperFreeEpsilon(nf, nf[m].final)
    <3>1. n = nf /\ nf[nf[m].final].on = EPS
      BY <2>1 DEF SuperFreeEpsilon
    <3>2. OnTop(nf, m, a, A) /\ Keeps(nf, nf, a)
      BY DEF OnTop, Keeps, Machine, Shape, Good
    <3>3. Led(nf, a, Len(nf))
      BY <3>1 DEF OnTop, Machine, Tight, Led, Lacks
    <3> QED
      BY <3>1, <3>2, <3>3
  <2>2. CASE ~SuperFreeEpsilon(nf, nf[m].final)
    BY <1>e, <2>2, EndIs
  <2> QED
    BY <2>1, <2>2
<1> HIDE DEF n
<1>2. Beside(b, n, m, a, EPS, A)
  BY <1>1, <1>e, BesideIs
<1> HIDE DEF b
<1>3. /\ Len(n) \in Nat /\ a \in Int /\ a <= Len(n) /\ Good(b, A) /\ Len(b) = eps
      /\ Shape(b, m, a, Len(n)) /\ Shape(b, eps, eps, eps) /\ Closed(b, a, eps)
      /\ b[eps].final = eps /\ b[eps].on = EPS /\ b[eps].to = <<>> /\ eps \in Nat
      /\ b[m].final \in a .. Len(n)
  BY <1>2 DEF Beside, Added, Machine, Shape
<1>l. Led(b, a, eps)
  <2>1. ASSUME NEW t \in a .. eps PROVE ~Lacks(b[t])
    <3>1. CASE t = eps
      BY <1>3, <3>1 DEF Lacks
    <3>2. CASE t # eps
      <4>1. t \in a .. Len(n) /\ t \in 1 .. Len(n)
        BY <1>2, <1>3, <3>2 DEF Beside, Keeps
      <4>2. b[t] = n[t]
        BY <1>2, <4>1 DEF Beside, Added
      <4> QED
        BY <1>1, <4>1, <4>2 DEF Led
    <3> QED
      BY <3>1, <3>2
  <2> QED
    BY <2>1 DEF Led
<1>4. Joined(front, b, eps, eps, eps, m, a, eps, A)
  <2>1. Len(n) < eps /\ a = (IF eps <= a THEN eps ELSE a) /\ eps = IF eps >= Len(n) THEN eps ELSE Len(n)
    BY <1>3
  <2> HIDE DEF eps
  <2> QED
    BY <1>3, <2>1, JoinIs
<1> HIDE DEF front, eps
<1>5. /\ Good(front, A) /\ Len(front) = eps /\ Shape(front, eps, a, eps) /\ Closed(front, a, eps)
      /\ front[eps].on = EPS /\ Len(front[eps].to) = 1 /\ front[eps].final = b[m].final
  BY <1>3, <1>4 DEF Joined
<1>6. Arched(last, front, eps, a, eps, eps, front[eps].final, A)
  <2>1. front[eps].final # eps
    BY <1>3, <1>5 DEF eps
  <2>2. eps \in a .. eps /\ front[eps].final \in a .. eps
    BY <1>3, <1>5 DEF Machine, Shape
  <2>3. Room(front[eps])
    BY <1>5 DEF Room, Slots
  <2> QED
    BY <1>5, <2>1, <2>2, <2>3, ArcIs
<1> HIDE DEF last
<1>m. Tight(last, eps, a, eps)
  <2>1. ASSUME NEW t \in a .. eps PROVE ~Lacks(last[t])
    <3>1. t \in 1 .. eps
      BY <1>5 DEF Shape
    <3>2. ~Lacks(front[t])
      BY <1>3, <1>4, <1>l, <3>1 DEF Joined, Led
    <3>3. eps \in 1 .. Len(front)
      BY <1>5 DEF Shape
    <3> QED
      BY <1>5, <1>6, <3>1, <3>2, <3>3, PushedLacks DEF Arched
  <2> QED
    BY <2>1 DEF Tight
<1>7. OnTop(last, eps, a, A)
  BY <1>5, <1>6, <1>m DEF Arched, Pushed, OnTop, Machine
<1>8. Keeps(last, n, a)
  BY <1>2, <1>3, <1>4, <1>6 DEF Arched, Pushed, Joined, Keeps, Beside, eps
<1>9. MkOpt(nf, m) = [n |-> last, m |-> eps]
  BY DEF MkOpt, last, front, b, eps, n
<1> QED
  BY <1>1, <1>7, <1>8, <1>9, KeepsTwice DEF Made

\* mkposcl() returns its machine.
LEMMA MkPosClIs ==
  ASSUME NEW A \in SUBSET Nat, NIL \in A, NEW nf, NEW m, NEW a, OnTop(nf, m, a, A)
  PROVE  Made(MkPosCl(nf, m), nf, a, A) /\ MkPosCl(nf, m).m = m
<1>e. EPS \in Syms
  BY DEF Syms
<1>0. /\ Len(nf) \in Nat /\ a \in 1 .. Len(nf) /\ m \in a .. Len(nf) /\ nf[m].final \in a .. Len(nf)
      /\ Room(nf[nf[m].final]) /\ Good(nf, A) /\ Machine(nf, m, a, Len(nf)) /\ Closed(nf, a, Len(nf))
  BY DEF OnTop, Machine, Shape, Good
<1>1. CASE SuperFreeEpsilon(nf, nf[m].final)
  <2> DEFINE n == MkXtion(nf, nf[m].final, m)
  <2>1. Len(nf[nf[m].final].to) + 1 < Slots(nf[nf[m].final].on)
    BY <1>1 DEF SuperFreeEpsilon, Slots
  <2>2. Arched(n, nf, m, a, Len(nf), nf[m].final, m, A)
    BY <1>0, <2>1, ArcIs DEF Machine
  <2> HIDE DEF n
  <2>3. OnTop(n, m, a, A) /\ Keeps(n, nf, a)
    <3>1. /\ Good(n, A) /\ Len(n) = Len(nf) /\ Shape(n, m, a, Len(nf)) /\ Closed(n, a, Len(nf))
          /\ \A t \in 1 .. Len(nf) : t # nf[m].final => n[t] = nf[t]
      BY <2>2 DEF Arched, Pushed
    <3>2. \A t \in 1 .. a - 1 : t \in 1 .. Len(nf) /\ t # nf[m].final
      BY <1>0
    <3>3. a \in 1 .. Len(nf) + 1 /\ Len(nf) <= Len(nf)
      BY <1>0
    <3>4. Keeps(n, nf, a)
      BY <1>0, <3>1, <3>2, <3>3 DEF Keeps
    <3> QED
      <4>1. Tight(n, m, a, Len(nf))
        <5>1. n[m].final = nf[m].final
          <6>1. Pushed(n, nf, nf[m].final, m, A) /\ m \in 1 .. Len(nf)
            BY <1>0, <2>2 DEF Arched
          <6>2. PICK f : f = nf[m].final
            OBVIOUS
          <6>3. (m = f => n[f].final = nf[f].final) /\ (m # f => n[m] = nf[m])
            BY <6>1, <6>2 DEF Pushed
          <6> QED
            BY <6>2, <6>3
        <5>2. ASSUME NEW t \in a .. Len(nf), Lacks(n[t]) PROVE Lacks(nf[t])
          <6>1. t \in 1 .. Len(nf) /\ nf[m].final \in 1 .. Len(nf)
            BY <1>0
          <6> QED
            BY <1>0, <2>2, <5>2, <6>1, PushedLacks DEF Arched
        <5> QED
          BY <1>0, <5>1, <5>2 DEF Tight, Machine
      <4> QED
        BY <3>1, <3>4, <4>1 DEF OnTop, Machine
  <2>4. MkPosCl(nf, m) = [n |-> n, m |-> m]
    BY <1>1 DEF MkPosCl, n
  <2> QED
    BY <2>3, <2>4 DEF Made
<1>2. CASE ~SuperFreeEpsilon(nf, nf[m].final)
  <2> DEFINE eps == Len(nf) + 1
             b == MkState(nf, EPS)
             c == MkXtion(b, eps, m)
             n == Link(c, m, eps)
  <2>1. Beside(b, nf, m, a, EPS, A)
    BY <1>e, BesideIs
  <2> HIDE DEF b
  <2>2. /\ Good(b, A) /\ Len(b) = eps /\ Shape(b, m, a, Len(nf)) /\ Shape(b, eps, eps, eps)
        /\ b[eps].final = eps /\ b[eps].on = EPS /\ b[eps].to = <<>> /\ Closed(b, a, eps)
        /\ \A t \in 1 .. Len(nf) : b[t] = nf[t]
    BY <2>1 DEF Beside, Added, Machine
  <2>3. Pushed(c, b, eps, m, A)
    <3>1. Room(b[eps]) /\ eps \in 1 .. Len(b) /\ m \in 1 .. Len(b)
      BY <1>0, <2>2 DEF Room, Slots
    <3> QED
      BY <2>2, <3>1, MkXtionIs
  <2> HIDE DEF c
  <2>4. /\ \A t \in 1 .. Len(nf) : c[t] = b[t]
        /\ Len(c) = eps /\ Good(c, A) /\ eps \in Nat
        /\ c[eps].first = eps /\ c[eps].last = eps /\ c[eps].final = eps /\ Room(c[eps])
        /\ \A k \in DOMAIN c[eps].to : c[eps].to[k] = m
        /\ c[eps].on = EPS
    BY <1>0, <2>2, <2>3 DEF Pushed, Machine, Shape, Room, Slots
  <2>5. Shape(c, eps, eps, eps)
    BY <2>4 DEF Shape
  <2>6. Shape(c, m, a, Len(nf))
    BY <1>0, <2>2, <2>4 DEF Shape
  <2>7. Closed(c, a, eps)
    <3> SUFFICES ASSUME NEW s \in a .. eps, NEW k \in DOMAIN c[s].to PROVE c[s].to[k] \in a .. eps
      BY DEF Closed
    <3>1. CASE s = eps
      BY <1>0, <2>4, <3>1
    <3>2. CASE s # eps
      <4>1. s \in 1 .. Len(nf)
        BY <1>0, <3>2
      <4>2. c[s] = b[s]
        BY <2>4, <4>1
      <4> QED
        BY <2>2, <4>2 DEF Closed
    <3> QED
      BY <3>1, <3>2
  <2>8. Joined(n, c, m, a, Len(nf), eps, a, eps, A)
    <3>1. Len(nf) < eps /\ a = (IF a <= eps THEN a ELSE eps)
          /\ eps = IF Len(nf) >= eps THEN Len(nf) ELSE eps
      BY <1>0
    <3> HIDE DEF eps
    <3> QED
      BY <2>4, <2>5, <2>6, <2>7, <3>1, JoinIs
  <2> HIDE DEF n
  <2>t. Tight(n, m, a, eps)
    <3>1. ASSUME NEW t \in a .. eps PROVE ~Lacks(n[t])
      <4>1. t \in 1 .. eps
        BY <1>0
      <4>2. Lacks(n[t]) => Lacks(c[t]) /\ t # c[m].final
        BY <2>4, <2>8, <4>1 DEF Joined
      <4>3. CASE t = eps
        BY <2>4, <4>2, <4>3 DEF Lacks
      <4>4. CASE t # eps
        <5>1. t \in a .. Len(nf) /\ t \in 1 .. Len(nf) /\ m \in 1 .. Len(nf)
          BY <1>0, <4>4
        <5>2. c[t] = nf[t] /\ c[m] = nf[m]
          BY <2>2, <2>4, <5>1
        <5> QED
          BY <1>0, <4>2, <5>1, <5>2 DEF Machine, Tight
      <4> QED
        BY <4>3, <4>4
    <3> QED
      BY <3>1 DEF Tight
  <2>9. OnTop(n, m, a, A)
    BY <2>4, <2>8, <2>t DEF Joined, OnTop, Machine
  <2>10. Keeps(n, nf, a)
    BY SMTT(60), <1>0, <2>2, <2>4, <2>8 DEF Joined, Keeps
  <2>11. MkPosCl(nf, m) = [n |-> n, m |-> m]
    BY <1>2 DEF MkPosCl, n, c, b, eps
  <2> QED
    BY <2>9, <2>10, <2>11 DEF Made
<1> QED
  BY <1>1, <1>2

\* mkclos()
LEMMA MkClosIs ==
  ASSUME NEW A \in SUBSET Nat, NIL \in A, NEW nf, NEW m, NEW a, OnTop(nf, m, a, A)
  PROVE  Made(MkClos(nf, m), nf, a, A)
<1> DEFINE p == MkPosCl(nf, m)
           q == MkOpt(p.n, p.m)
<1>1. Made(p, nf, a, A)
  BY MkPosClIs
<1> HIDE DEF p
<1>2. Made(q, p.n, a, A)
  BY <1>1, MkOptIs DEF Made
<1> HIDE DEF q
<1>3. MkClos(nf, m) = q
  BY DEF MkClos, q, p
<1> QED
  BY <1>1, <1>2, <1>3, KeepsTwice DEF Made

\* The final state of a machine is made another of its states.
Ends(n, nf, m, a, z, A) ==
  /\ Good(n, A) /\ Shape(n, m, a, z) /\ Closed(n, a, z) /\ Len(n) = Len(nf)
  /\ \A t \in 1 .. Len(nf) : t # m => n[t] = nf[t]
  /\ \A t \in 1 .. Len(nf) : n[t].to = nf[t].to /\ n[t].on = nf[t].on

LEMMA FinalIs ==
  ASSUME NEW A \in SUBSET Nat, NEW nf, Good(nf, A), NEW a, NEW z, NEW m \in a .. z,
         a \in 1 .. z, z \in 1 .. Len(nf), nf[m].first = a, nf[m].last = z,
         Closed(nf, a, z), NEW f \in a .. z, Room(nf[f])
  PROVE  Ends([nf EXCEPT ![m].final = f], nf, m, a, z, A)
<1> DEFINE new == [nf[m] EXCEPT !.final = f]
           n == [nf EXCEPT ![m].final = f]
<1>1. m \in 1 .. Len(nf) /\ f \in 1 .. Len(nf) /\ Len(nf) \in Nat /\ nf \in Seq(NfaState)
  BY DEF Good
<1>2. nf[m] \in NfaState /\ Fits(nf[m], Len(nf), A)
  BY <1>1, GoodElement
<1>3. /\ new \in NfaState /\ new.final = f /\ new.to = nf[m].to /\ new.on = nf[m].on
      /\ new.acc = nf[m].acc /\ new.first = nf[m].first /\ new.last = nf[m].last
  <2>1. nf[m] \in NfaState /\ f \in Nat
    BY <1>1, <1>2
  <2> HIDE DEF n
  <2> QED
    BY <2>1 DEF NfaState
<1>4. n = [nf EXCEPT ![m] = new]
  OBVIOUS
<1> HIDE DEF n, new
<1>5. n \in Seq(NfaState) /\ Len(n) = Len(nf) /\ n[m] = new /\ \A t \in 1 .. Len(nf) : t # m => n[t] = nf[t]
  BY <1>1, <1>3, <1>4
<1>6. Fits(new, Len(nf), A)
  BY <1>1, <1>2, <1>3 DEF Fits
<1>7. Good(n, A)
  BY <1>5, <1>6 DEF Good
<1>8. \A t \in 1 .. Len(nf) : n[t].to = nf[t].to /\ n[t].on = nf[t].on
  BY <1>3, <1>5
<1>9. Room(n[f])
  BY <1>1, <1>8 DEF Room
<1>10. Shape(n, m, a, z)
  BY <1>1, <1>3, <1>5, <1>9 DEF Shape
<1>11. Closed(n, a, z)
  BY <1>1, <1>8 DEF Closed
<1> QED
  BY <1>5, <1>7, <1>8, <1>10, <1>11 DEF n, Ends

\* mkor() of two neighbours.
LEMMA MkOrIs ==
  ASSUME NEW A \in SUBSET Nat, NIL \in A, NEW nf, NEW x, NEW y, NEW a, NEW b, Good(nf, A),
         Machine(nf, x, a, b), Closed(nf, a, b),
         Machine(nf, y, b + 1, Len(nf)), Closed(nf, b + 1, Len(nf))
  PROVE  Made(MkOr(nf, x, y), nf, a, A)
<1> DEFINE eps == Len(nf) + 1
           s == MkState(nf, EPS)
           c == Link(s, eps, x)
           n == MkXtion(c, eps, y)
           fx == nf[x].final
           fy == nf[y].final
<1>e. EPS \in Syms
  BY DEF Syms
<1>1. /\ Len(nf) \in Nat /\ a \in 1 .. b /\ b \in 1 .. Len(nf) /\ x \in a .. b /\ fx \in a .. b
      /\ y \in b + 1 .. Len(nf) /\ fy \in b + 1 .. Len(nf) /\ Room(nf[fx]) /\ Room(nf[fy])
      /\ b + 1 \in 1 .. Len(nf) /\ a \in Int /\ b \in Int /\ eps \in Nat
  BY DEF Machine, Shape, Good
<1>t. \A t \in a .. Len(nf) : Lacks(nf[t]) => t = fx \/ t = fy
  <2>1. \A t \in a .. Len(nf) : t \in a .. b \/ t \in b + 1 .. Len(nf)
    BY <1>1
  <2> QED
    BY <2>1 DEF Machine, Tight
<1>2. Added(s, nf, EPS, A)
  BY <1>e, MkStateIs
<1> HIDE DEF s
<1>3. /\ Good(s, A) /\ Len(s) = eps /\ \A t \in 1 .. Len(nf) : s[t] = nf[t]
      /\ Shape(s, eps, eps, eps) /\ Closed(s, eps, eps)
      /\ s[eps].final = eps /\ s[eps].to = <<>> /\ s[eps].on = EPS
  BY <1>2 DEF Added, Machine
<1>4. Shape(s, x, a, b)
  <2>0. x \in 1 .. Len(nf) /\ fx \in 1 .. Len(nf) /\ b \in 1 .. eps
    BY <1>1
  <2> HIDE DEF eps, fx
  <2>1. s[x] = nf[x] /\ s[fx] = nf[fx] /\ b \in 1 .. Len(s)
    BY <1>3, <2>0
  <2> USE DEF fx
  <2> QED
    BY <1>1, <2>1 DEF Machine, Shape
<1>5. Closed(s, a, eps)
  <2>1. Closed(nf, a, Len(nf))
    BY <1>1, ClosedUnion
  <2>2. Closed(s, a, Len(nf))
    BY <1>1, <1>3, <2>1, ClosedKept
  <2>3. /\ Closed(s, Len(nf) + 1, eps) /\ a \in Int /\ Len(nf) \in Int /\ eps \in Int
        /\ a <= Len(nf) + 1 /\ Len(nf) <= eps
    BY <1>1, <1>3
  <2> HIDE DEF eps
  <2> QED
    BY <2>2, <2>3, ClosedUnion
<1>6. Joined(c, s, eps, eps, eps, x, a, eps, A)
  <2>1. b < eps /\ a = (IF eps <= a THEN eps ELSE a) /\ eps = IF eps >= b THEN eps ELSE b
    BY <1>1
  <2> HIDE DEF eps
  <2> QED
    BY <1>3, <1>4, <1>5, <2>1, JoinIs
<1> HIDE DEF c
<1>7. /\ Good(c, A) /\ Len(c) = eps /\ Shape(c, eps, a, eps) /\ Closed(c, a, eps)
      /\ \A t \in 1 .. Len(nf) : c[t] = nf[t]
      /\ c[eps].final = fx /\ c[eps].on = EPS /\ Len(c[eps].to) = 1
  <2>1. x \in 1 .. Len(nf) /\ s[x].final = fx
    BY <1>1, <1>3
  <2>2. eps \in 1 .. Len(s)
    BY <1>1, <1>3
  <2>3. ASSUME NEW t \in 1 .. Len(nf) PROVE c[t] = nf[t]
    <3>1. t \in 1 .. Len(s) /\ t \notin eps .. eps
      BY <1>1, <1>3
    <3> QED
      BY <1>3, <1>6, <3>1 DEF Joined
  <2> HIDE DEF eps, fx
  <2> QED
    BY <1>3, <1>6, <2>1, <2>2, <2>3 DEF Joined
<1>8. Arched(n, c, eps, a, eps, eps, y, A)
  <2>1. eps \in a .. eps /\ y \in a .. eps /\ Room(c[eps]) /\ eps # c[eps].final
    BY SMTT(60), <1>1, <1>7 DEF Room, Slots
  <2> QED
    BY <1>7, <2>1, ArcIs
<1> HIDE DEF n
<1>9. /\ Good(n, A) /\ Len(n) = eps /\ Shape(n, eps, a, eps) /\ Closed(n, a, eps)
      /\ \A t \in 1 .. Len(nf) : n[t] = nf[t]
      /\ n[eps].final = fx /\ n[eps].first = a /\ n[eps].last = eps /\ n[y].final = fy
      /\ Room(n[fx]) /\ Room(n[fy])
  <2>1. Pushed(n, c, eps, y, A) /\ Shape(n, eps, a, eps) /\ Closed(n, a, eps)
    BY <1>8 DEF Arched
  <2>2. \A t \in 1 .. Len(nf) : n[t] = nf[t]
    <3>1. \A t \in 1 .. Len(nf) : t \in 1 .. Len(c) /\ t # eps
      BY <1>1, <1>7
    <3> QED
      BY <1>7, <2>1, <3>1 DEF Pushed
  <2>3. n[eps].final = fx /\ n[eps].first = a /\ n[eps].last = eps
    BY <1>7, <2>1 DEF Pushed, Shape
  <2>4. y \in 1 .. Len(nf) /\ fx \in 1 .. Len(nf) /\ fy \in 1 .. Len(nf)
    BY <1>1
  <2>5. Good(n, A) /\ Len(n) = eps
    BY <1>7, <2>1 DEF Pushed
  <2> QED
    BY <1>1, <2>1, <2>2, <2>3, <2>4, <2>5
<1>u. \A t \in a .. eps : Lacks(n[t]) => t = fx \/ t = fy
  <2> SUFFICES ASSUME NEW t \in a .. eps, Lacks(n[t]) PROVE t = fx \/ t = fy
    OBVIOUS
  <2>1. CASE t = eps
    BY <1>7, <1>8, <2>1 DEF Arched, Pushed, Lacks
  <2>2. CASE t # eps
    <3>1. t \in a .. Len(nf) /\ t \in 1 .. Len(nf)
      BY <1>1, <2>2
    <3> QED
      BY <1>9, <1>t, <3>1
  <2> QED
    BY <2>1, <2>2
<1>10. /\ fx \in a .. eps /\ fy \in a .. eps /\ fx # fy /\ eps \in a .. eps /\ eps # fx /\ eps # fy
       /\ a \in 1 .. eps /\ eps \in 1 .. eps /\ fx \in 1 .. eps /\ fy \in 1 .. eps
  BY SMTT(60), <1>1
<1> DEFINE Result(j, end) == [n |-> [j EXCEPT ![eps].final = end], m |-> eps]
<1>11. ASSUME NEW j, Good(j, A), Closed(j, a, eps), Len(j) = eps,
              \A t \in 1 .. a - 1 : j[t] = nf[t], j[eps].first = a, j[eps].last = eps,
              NEW end \in a .. eps, Room(j[end]), Led(j, a, eps)
       PROVE  Made(Result(j, end), nf, a, A)
  <2> DEFINE k == [j EXCEPT ![eps].final = end]
  <2>1. Ends(k, j, eps, a, eps, A)
    BY <1>10, <1>11, FinalIs
  <2> HIDE DEF k
  <2>2. Tight(k, eps, a, eps)
    <3>1. \A t \in a .. eps : t \in 1 .. Len(j)
      BY <1>10, <1>11
    <3> QED
      BY <1>11, <2>1, <3>1 DEF Ends, Led, Tight, Lacks
  <2>3. OnTop(k, eps, a, A) /\ Keeps(k, nf, a)
    BY <1>1, <1>11, <2>1, <2>2 DEF OnTop, Keeps, Ends, Machine
  <2> QED
    BY <2>3 DEF Made, k
<1>12. CASE FreeEnd(n, eps)
  <2> DEFINE j == MkXtion(n, fy, fx)
  <2>1. Arched(j, n, eps, a, eps, fy, fx, A)
    BY <1>9, <1>10, ArcIs
  <2> HIDE DEF j
  <2>2. /\ Good(j, A) /\ Closed(j, a, eps) /\ Len(j) = eps /\ Room(j[fx])
        /\ j[eps].first = a /\ j[eps].last = eps /\ \A t \in 1 .. a - 1 : j[t] = nf[t]
    <3>1. j[fx] = n[fx] /\ j[eps] = n[eps]
      BY <1>9, <1>10, <2>1 DEF Arched, Pushed
    <3>2. \A t \in 1 .. a - 1 : t \in 1 .. Len(nf) /\ t # fy /\ t \in 1 .. eps
      BY <1>1
    <3> QED
      BY <1>9, <2>1, <3>1, <3>2 DEF Arched, Pushed
  <2>3. MkOr(nf, x, y) = Result(j, fx)
    BY <1>9, <1>12 DEF MkOr, j, n, c, s
  <2>4. Led(j, a, eps)
    <3>1. ~Lacks(n[fx])
      BY <1>9, <1>12 DEF FreeEnd, SuperFreeEpsilon, Lacks
    <3>2. ASSUME NEW t \in a .. eps, Lacks(j[t]) PROVE FALSE
      <4>1. t \in 1 .. Len(n) /\ fy \in 1 .. Len(n)
        BY <1>1, <1>9, <1>10
      <4>2. Lacks(n[t]) /\ t # fy
        <5>1. Good(n, A) /\ Pushed(j, n, fy, fx, A)
          BY <1>9, <2>1 DEF Arched
        <5> HIDE DEF fx, fy, eps
        <5> QED
          BY <3>2, <4>1, <5>1, PushedLacks
      <4> QED
        BY <1>u, <3>1, <4>2
    <3> QED
      BY <3>2 DEF Led
  <2> QED
    BY <1>10, <1>11, <2>2, <2>3, <2>4
<1>13. CASE ~FreeEnd(n, eps) /\ FreeEnd(n, y)
  <2> DEFINE j == MkXtion(n, fx, fy)
  <2>1. Pushed(j, n, fx, fy, A)
    BY <1>9, <1>10, MkXtionIs
  <2> HIDE DEF j
  <2>2. \A t \in 1 .. eps : t # fx => j[t] = n[t]
    BY <1>9, <2>1 DEF Pushed
  <2>3. Closed(j, a, eps)
    <3> SUFFICES ASSUME NEW t \in a .. eps, NEW k \in DOMAIN j[t].to PROVE j[t].to[k] \in a .. eps
      BY DEF Closed
    <3>1. t \in 1 .. eps /\ \A i \in DOMAIN n[t].to : n[t].to[i] \in a .. eps
      BY <1>1, <1>9 DEF Closed
    <3>2. CASE t = fx
      BY <1>10, <2>1, <3>1, <3>2 DEF Pushed
    <3>3. CASE t # fx
      BY <2>2, <3>1, <3>3
    <3> QED
      BY <3>2, <3>3
  <2>4. j[fy] = n[fy] /\ j[eps] = n[eps] /\ \A t \in 1 .. a - 1 : j[t] = nf[t]
    <3>1. \A t \in 1 .. a - 1 : t \in 1 .. Len(nf) /\ t # fx /\ t \in 1 .. eps
      BY <1>1
    <3> QED
      BY <1>9, <1>10, <2>2, <3>1
  <2>5. MkOr(nf, x, y) = Result(j, fy)
    BY <1>9, <1>13 DEF MkOr, j, n, c, s
  <2>6. Good(j, A) /\ Len(j) = eps
    BY <1>9, <2>1 DEF Pushed
  <2>7. Led(j, a, eps)
    <3>1. ~Lacks(n[fy])
      BY <1>9, <1>13 DEF FreeEnd, SuperFreeEpsilon, Lacks
    <3>2. ASSUME NEW t \in a .. eps, Lacks(j[t]) PROVE FALSE
      <4>1. t \in 1 .. Len(n) /\ fx \in 1 .. Len(n)
        BY <1>1, <1>9, <1>10
      <4>2. Lacks(n[t]) /\ t # fx
        <5>1. Good(n, A) /\ Pushed(j, n, fx, fy, A)
          BY <1>9, <2>1
        <5> HIDE DEF fx, fy, eps
        <5> QED
          BY <3>2, <4>1, <5>1, PushedLacks
      <4> QED
        BY <1>u, <3>1, <4>2
    <3> QED
      BY <3>2 DEF Led
  <2> QED
    BY <1>9, <1>10, <1>11, <2>3, <2>4, <2>5, <2>6, <2>7
<1>14. CASE ~FreeEnd(n, eps) /\ ~FreeEnd(n, y)
  <2> DEFINE e == Len(n) + 1
             p == MkState(n, EPS)
             new == Link(p, eps, e)
             j == MkXtion(new, fy, e)
             k == [j EXCEPT ![eps].final = e]
  <2>2. Added(p, n, EPS, A)
    BY <1>9, <1>e, MkStateIs
  <2> HIDE DEF p
  <2>3. /\ Good(p, A) /\ Len(p) = e /\ Shape(p, eps, a, eps) /\ Shape(p, e, e, e)
        /\ Closed(p, a, e) /\ p[e].final = e /\ \A t \in 1 .. eps : p[t] = n[t]
        /\ p[e].on = EPS
    <3>1. /\ Good(p, A) /\ Len(p) = e /\ Shape(p, e, e, e) /\ Closed(p, e, e)
          /\ p[e].final = e /\ p[e].on = EPS /\ \A t \in 1 .. eps : p[t] = n[t]
      BY <1>9, <2>2 DEF Added, Machine
    <3>2. Len(n) = eps /\ e = eps + 1 /\ eps \in Nat /\ a \in 1 .. eps /\ n[eps].final \in a .. eps
      BY <1>1, <1>9, <1>10
    <3> HIDE DEF eps, e
    <3>3. Shape(p, eps, a, eps)
      <4>1. p[eps] = n[eps] /\ p[n[eps].final] = n[n[eps].final]
        BY <3>1, <3>2
      <4> QED
        BY <1>9, <3>1, <3>2, <4>1 DEF Shape
    <3>4. Closed(p, a, eps)
      <4>1. \A t \in a .. eps : p[t] = n[t]
        BY <3>1, <3>2
      <4> QED
        BY <1>9, <4>1, ClosedKept
    <3>5. Closed(p, a, e)
      <4>1. Closed(p, eps + 1, e) /\ a \in Int /\ eps \in Int /\ e \in Int /\ a <= eps + 1 /\ eps <= e
        BY <3>1, <3>2
      <4> QED
        BY ONLY <3>4, <4>1, ClosedUnion
    <3> QED
      BY <3>1, <3>3, <3>5
  <2>4. e = eps + 1
    BY <1>9
  <2>5. Joined(new, p, eps, a, eps, e, a, e, A)
    <3>1. eps < e /\ a = (IF a <= e THEN a ELSE e) /\ e = IF eps >= e THEN eps ELSE e
      BY <1>1, <2>4
    <3> HIDE DEF e, eps
    <3> QED
      BY <2>3, <3>1, JoinIs
  <2> HIDE DEF new
  <2>6. /\ Good(new, A) /\ Len(new) = e /\ Shape(new, eps, a, e) /\ Closed(new, a, e)
        /\ new[eps].final = e /\ Room(new[fy]) /\ new[y].final = fy
        /\ \A t \in 1 .. a - 1 : new[t] = nf[t]
    <3>1. p[eps] = n[eps] /\ p[y] = n[y] /\ p[fy] = n[fy]
      <4>1. y \in 1 .. eps
        BY <1>1
      <4> HIDE DEF eps, fy, e
      <4> QED
        BY <1>10, <2>3, <4>1
    <3>2. /\ eps \in 1 .. Len(p) /\ fy \in 1 .. Len(p) /\ y \in 1 .. Len(p) /\ y # eps
          /\ fy # p[eps].final
      BY <1>1, <1>9, <1>10, <2>3, <2>4, <3>1
    <3>3. new[fy].to = p[fy].to /\ new[fy].on = p[fy].on /\ new[y].final = p[y].final
      BY <2>5, <3>2 DEF Joined
    <3>4. ASSUME NEW t \in 1 .. a - 1 PROVE new[t] = nf[t]
      <4>1. t \in 1 .. Len(p) /\ t \notin a .. eps /\ t \in 1 .. Len(nf) /\ t \in 1 .. eps
        BY <1>1, <2>3, <2>4
      <4> QED
        BY <1>9, <2>3, <2>5, <4>1 DEF Joined
    <3> QED
      BY <1>9, <2>3, <2>5, <3>1, <3>3, <3>4 DEF Joined, Room
  <2>7. e \in a .. e /\ fy \in a .. e /\ fy # e /\ e \in 1 .. e /\ eps \in a .. e /\ a \in 1 .. e
    BY <1>1, <2>4
  <2>8. Arched(j, new, eps, a, e, fy, e, A)
    <3> HIDE DEF e, eps
    <3> QED
      BY <2>6, <2>7, ArcIs
  <2> HIDE DEF j
  <2>9. /\ Good(j, A) /\ Shape(j, eps, a, e) /\ Closed(j, a, e) /\ Len(j) = e
        /\ j[e] = new[e] /\ j[eps] = new[eps] /\ \A t \in 1 .. a - 1 : j[t] = nf[t]
    <3>1. \A t \in 1 .. a - 1 : t \in 1 .. Len(new) /\ t # fy
      BY <1>1, <2>4, <2>6
    <3>2. e \in 1 .. Len(new) /\ eps \in 1 .. Len(new) /\ eps # fy /\ e # fy
      <4>1. fy \in a .. e /\ eps \in a .. e /\ e \in 1 .. e /\ a \in 1 .. e /\ Len(new) = e
        BY <2>6, <2>7
      <4>2. eps # fy
        BY <1>10, <2>7
      <4>3. e # fy
        BY <2>7
      <4> HIDE DEF e, eps, fy
      <4> QED
        BY <4>1, <4>2, <4>3
    <3> QED
      BY <2>6, <2>8, <3>1, <3>2 DEF Arched, Pushed
  <2>10. j[eps].first = a /\ j[eps].last = e /\ Room(j[e])
    BY <2>6, <2>9 DEF Machine, Shape
  <2>11. Ends(k, j, eps, a, e, A)
    <3> HIDE DEF e, eps
    <3> QED
      BY <2>7, <2>9, <2>10, FinalIs
  <2> HIDE DEF k
  <2>l. Tight(k, eps, a, e)
    <3>1. ASSUME NEW t \in a .. e, Lacks(k[t]) PROVE FALSE
      <4>1. /\ t \in 1 .. e /\ fy \in 1 .. e /\ Len(p) = e /\ Len(new) = e /\ Len(j) = e
        BY <2>3, <2>6, <2>7, <2>9
      <4>2. Lacks(j[t])
        BY <2>11, <3>1, <4>1 DEF Ends, Lacks
      <4>3. Lacks(new[t]) /\ t # fy
        BY <2>6, <2>8, <4>1, <4>2, PushedLacks DEF Arched
      <4>4. Lacks(p[t]) /\ t # p[eps].final
        BY <2>5, <4>1, <4>3 DEF Joined
      <4>5. t # e
        BY <2>3, <4>4 DEF Lacks
      <4>6. t \in a .. eps /\ t \in 1 .. eps /\ eps \in 1 .. eps
        BY <1>10, <2>4, <4>5, <4>1
      <4>7. Lacks(n[t]) /\ t # fx
        BY <1>9, <2>3, <4>4, <4>6
      <4> QED
        BY <1>u, <4>3, <4>6, <4>7
    <3> QED
      BY <3>1 DEF Tight
  <2>12. OnTop(k, eps, a, A) /\ Keeps(k, nf, a)
    <3>1. \A t \in 1 .. a - 1 : t \in 1 .. Len(j) /\ t # eps
      BY <1>1, <2>4, <2>9
    <3> QED
      BY <1>1, <2>4, <2>9, <2>11, <2>l, <3>1 DEF OnTop, Keeps, Ends, Machine
  <2>13. MkOr(nf, x, y) = [n |-> k, m |-> eps]
    BY <2>6, <1>9, <1>14 DEF MkOr, k, j, new, p, n, c, s
  <2> QED
    BY <2>12, <2>13 DEF Made
<1> QED
  BY <1>12, <1>13, <1>14

----------------------------------------------------------------------------
(* Copies.                                                                 *)

\* Neighbours that are linked, in either order.
LEMMA NeighboursIs ==
  ASSUME NEW A \in SUBSET Nat, NEW nf, NEW x, NEW y, NEW a, NEW b, Good(nf, A),
         Machine(nf, x, a, b), Closed(nf, a, b),
         Machine(nf, y, b + 1, Len(nf)), Closed(nf, b + 1, Len(nf))
  PROVE  /\ OnTop(Link(nf, x, y), x, a, A) /\ Keeps(Link(nf, x, y), nf, a)
         /\ OnTop(Link(nf, y, x), y, a, A) /\ Keeps(Link(nf, y, x), nf, a)
<1> DEFINE z == Len(nf)
           n == Link(nf, x, y)
           p == Link(nf, y, x)
<1>1. z \in Nat /\ a \in 1 .. b /\ b \in 1 .. z /\ b + 1 \in 1 .. z /\ a \in Int /\ b \in Int
  BY DEF Machine, Shape, Good
<1>2. Closed(nf, a, z)
  BY <1>1, ClosedUnion
<1>3. /\ b < b + 1 /\ a = (IF a <= b + 1 THEN a ELSE b + 1) /\ z = (IF b >= z THEN b ELSE z)
      /\ a = (IF b + 1 <= a THEN b + 1 ELSE a) /\ z = IF z >= b THEN z ELSE b
  BY <1>1
<1> HIDE DEF n, p
<1>4. Joined(n, nf, x, a, b, y, a, z, A)
  BY <1>2, <1>3, JoinIs DEF n, Machine
<1>5. Joined(p, nf, y, b + 1, z, x, a, z, A)
  BY <1>2, <1>3, JoinIs DEF p, Machine
<1>t. \A t \in a .. z : Lacks(nf[t]) => t = nf[x].final \/ t = nf[y].final
  <2>1. \A t \in a .. z : t \in a .. b \/ t \in b + 1 .. z
    BY <1>1
  <2> QED
    BY <2>1 DEF Machine, Tight
<1>u. \A t \in a .. z : t \in 1 .. z
  BY <1>1
<1>8. Tight(n, x, a, z) /\ Tight(p, y, a, z)
  <2>1. /\ \A t \in a .. z : Lacks(n[t]) => Lacks(nf[t]) /\ t # nf[x].final
        /\ n[x].final = nf[y].final
    BY <1>4, <1>u DEF Joined
  <2>2. /\ \A t \in a .. z : Lacks(p[t]) => Lacks(nf[t]) /\ t # nf[y].final
        /\ p[y].final = nf[x].final
    BY <1>5, <1>u DEF Joined
  <2> QED
    BY <1>t, <2>1, <2>2 DEF Tight
<1>6. OnTop(n, x, a, A) /\ Keeps(n, nf, a)
  BY <1>1, <1>4, <1>8 DEF Joined, OnTop, Keeps, Machine
<1>7. OnTop(p, y, a, A) /\ Keeps(p, nf, a)
  BY <1>1, <1>5, <1>8 DEF Joined, OnTop, Keeps, Machine
<1> QED
  BY <1>6, <1>7 DEF n, p

\* A machine below the states that change.
LEMMA MachineBelow ==
  ASSUME NEW nf, NEW n, NEW m, NEW a, NEW z, NEW b, Machine(nf, m, a, z), Closed(nf, a, z),
         Keeps(n, nf, b), z < b
  PROVE  Machine(n, m, a, z) /\ Closed(n, a, z)
<1>1. /\ Len(nf) \in Nat /\ Len(n) \in Nat /\ Len(nf) <= Len(n) /\ b \in 1 .. Len(nf) + 1
      /\ a \in 1 .. z /\ z \in 1 .. Len(nf) /\ m \in a .. z /\ nf[m].final \in a .. z
      /\ \A t \in 1 .. b - 1 : n[t] = nf[t]
  BY DEF Keeps, Machine, Shape
<1>2. \A t \in a .. z : n[t] = nf[t]
  BY <1>1
<1>3. Closed(n, a, z)
  BY <1>2, ClosedKept
<1>4. n[m] = nf[m] /\ n[nf[m].final] = nf[nf[m].final]
  BY <1>1, <1>2
<1>5. Machine(n, m, a, z)
  <2>1. Shape(n, m, a, z)
    <3>1. Shape(nf, m, a, z) /\ a \in Int /\ z \in Int /\ z <= Len(n)
      BY <1>1 DEF Machine
    <3> QED
      BY <1>1, <1>4, <3>1, ShapeKept
  <2>2. Tight(n, m, a, z)
    BY <1>2, <1>4 DEF Machine, Tight
  <2> QED
    BY <2>1, <2>2 DEF Machine
<1> QED
  BY <1>3, <1>5

\* dupmachine() makes a machine at the end of the array.
LEMMA DupMachineIs ==
  ASSUME NEW A \in SUBSET Nat, NEW nf, NEW m, NEW a, NEW z, Good(nf, A),
         Machine(nf, m, a, z), Closed(nf, a, z)
  PROVE  Made(DupMachine(nf, m), nf, Len(nf) + 1, A)
<1> DEFINE L == Len(nf)
           up == Offset(nf, m)
           size == z - a + 1
           L2 == L + size
           copy(s) == [nf[s] EXCEPT !.to = [k \in DOMAIN @ |-> @[k] + up],
                                    !.first = s + up, !.last = s + up, !.final = s + up]
           dup == [k \in 1 .. nf[m].last - nf[m].first + 1 |-> copy(nf[m].first + k - 1)]
           all == nf \o dup
           M == m + up
           e == nf[m].final + up
           new == [all[M] EXCEPT !.first = a + up, !.last = z + up, !.final = e]
           n == [all EXCEPT ![M] = new]
<1>1. /\ L \in Nat /\ a \in 1 .. z /\ z \in 1 .. L /\ m \in a .. z /\ nf \in Seq(NfaState)
      /\ nf[m].first = a /\ nf[m].last = z /\ nf[m].final \in a .. z /\ Room(nf[nf[m].final])
  BY DEF Machine, Shape, Good
<1>2. up = L + 1 - a /\ up \in Nat /\ size \in Nat /\ L2 \in Nat /\ z + up = L2 /\ a + up = L + 1
  BY <1>1 DEF Offset
<1>i. /\ a \in Int /\ z \in Int /\ L \in Int /\ up \in Int /\ 1 <= a /\ a <= z /\ z <= L
      /\ up = L + 1 - a /\ size = z - a + 1 /\ L2 = L + size /\ m \in a .. z
      /\ nf[m].final \in a .. z /\ size \in Int /\ L2 \in Int
  BY <1>1, <1>2
<1> HIDE DEF L, up
<1>3. ASSUME NEW s \in a .. z
      PROVE  /\ copy(s) \in NfaState /\ Fits(copy(s), L2, A)
             /\ copy(s).on = nf[s].on /\ Len(copy(s).to) = Len(nf[s].to)
             /\ \A k \in DOMAIN copy(s).to : copy(s).to[k] \in L + 1 .. L2
  <2> DEFINE to == [k \in DOMAIN nf[s].to |-> nf[s].to[k] + up]
  <2>1. s \in 1 .. L /\ s + up \in 1 .. L2 /\ s + up \in Nat
    <3> HIDE DEF size, L2
    <3> QED
      BY <1>i
  <2>2. nf[s] \in NfaState /\ Fits(nf[s], L, A) /\ nf[s].to \in Seq(Nat)
    BY <2>1, GoodElement DEF L
  <2>3. \A k \in DOMAIN nf[s].to : nf[s].to[k] \in a .. z /\ nf[s].to[k] + up \in L + 1 .. L2
    BY <1>1, <1>2 DEF Closed
  <2>4. to \in Seq(Nat) /\ Len(to) = Len(nf[s].to) /\ \A k \in DOMAIN to : to[k] \in L + 1 .. L2
    <3>1. \A k \in DOMAIN nf[s].to : nf[s].to[k] + up \in Nat
      BY <1>1, <1>2, <2>3
    <3> QED
      BY SMTT(60), <2>2, <2>3, <3>1
  <2> DEFINE c == [nf[s] EXCEPT !.to = to, !.first = s + up, !.last = s + up, !.final = s + up]
  <2>5. copy(s) = c
    OBVIOUS
  <2> HIDE DEF to
  <2>6. /\ c \in NfaState /\ c.to = to /\ c.on = nf[s].on /\ c.acc = nf[s].acc
        /\ c.first = s + up /\ c.last = s + up /\ c.final = s + up
    BY <2>1, <2>2, <2>4 DEF NfaState
  <2> HIDE DEF c, copy
  <2>7. \A k \in DOMAIN to : to[k] \in 1 .. L2
    BY SMTT(60), <1>1, <1>2, <2>4
  <2>8. Fits(c, L2, A)
    BY <2>1, <2>2, <2>4, <2>6, <2>7 DEF Fits
  <2> QED
    BY <2>4, <2>5, <2>6, <2>8
<1> HIDE DEF copy
<1>4. dup \in Seq(NfaState) /\ Len(dup) = size /\ \A k \in 1 .. size : dup[k] = copy(a + k - 1)
  <2>1. \A k \in 1 .. size : a + k - 1 \in a .. z
    <3> HIDE DEF size
    <3> QED
      BY <1>i
  <2>2. \A k \in 1 .. size : copy(a + k - 1) \in NfaState
    BY <1>3, <2>1
  <2>3. dup = [k \in 1 .. size |-> copy(a + k - 1)]
    BY <1>1
  <2> HIDE DEF dup, size
  <2> QED
    BY <1>2, <2>2, <2>3
<1> HIDE DEF dup
<1>5. /\ all \in Seq(NfaState) /\ Len(all) = L2 /\ \A t \in 1 .. L : all[t] = nf[t]
      /\ \A t \in L + 1 .. L2 : all[t] = dup[t - L]
  BY SMTT(60), <1>1, <1>2, <1>4 DEF L
<1> HIDE DEF all
<1>6. ASSUME NEW s \in a .. z PROVE all[s + up] = copy(s) /\ s + up \in L + 1 .. L2
  <2>1. s + up - L \in 1 .. size /\ a + (s + up - L) - 1 = s /\ s + up \in L + 1 .. L2
    <3> HIDE DEF size, L2
    <3> QED
      BY <1>i
  <2>2. dup[s + up - L] = copy(a + (s + up - L) - 1)
    BY <1>4, <2>1
  <2>3. all[s + up] = dup[s + up - L]
    <3> DEFINE t == s + up
    <3>1. t \in L + 1 .. L2
      BY <2>1
    <3> HIDE DEF t, L2
    <3>2. all[t] = dup[t - L]
      BY <1>5, <3>1
    <3> QED
      BY <3>2, <1>i DEF t
  <2> QED
    BY <2>1, <2>2, <2>3
<1>7. ASSUME NEW t \in L + 1 .. L2 PROVE t - up \in a .. z /\ (t - up) + up = t
  <2> HIDE DEF size, L2
  <2> QED
    BY <1>i
<1>8. ASSUME NEW t \in 1 .. L2 PROVE Fits(all[t], L2, A)
  <2>1. CASE t \in 1 .. L
    <3>1. Fits(nf[t], L, A) /\ all[t] = nf[t]
      BY <1>5, <2>1 DEF Good, L
    <3>2. 1 .. L \subseteq 1 .. L2
      BY <1>1, <1>2
    <3> HIDE DEF L2
    <3> QED
      BY <3>1, <3>2 DEF Fits
  <2>2. CASE t \in L + 1 .. L2
    BY <1>3, <1>6, <1>7, <2>2
  <2> QED
    BY <1>1, <1>2, <2>1, <2>2
<1>9. M \in L + 1 .. L2 /\ e \in L + 1 .. L2 /\ M = m + up
  BY <1>1, <1>6
<1> HIDE DEF L2, e
<1>10. /\ new \in NfaState /\ new.first = L + 1 /\ new.last = L2 /\ new.final = e
       /\ new.to = all[M].to /\ new.on = all[M].on /\ new.acc = all[M].acc
  <2>1. all[M] \in NfaState /\ e \in Nat /\ a + up \in Nat /\ z + up \in Nat /\ a + up = L + 1 /\ z + up = L2
    BY <1>1, <1>2, <1>5, <1>9
  <2> HIDE DEF M
  <2> QED
    BY <2>1 DEF NfaState
<1> HIDE DEF new, M
<1>11. n \in Seq(NfaState) /\ Len(n) = L2 /\ n[M] = new /\ \A t \in 1 .. L2 : t # M => n[t] = all[t]
  <2>1. M \in 1 .. Len(all)
    BY <1>1, <1>5, <1>9
  <2> QED
    BY <1>5, <1>10, <2>1
<1>12. DupMachine(nf, m) = [n |-> n, m |-> M]
  <2>1. z - a + 1 = nf[m].last - nf[m].first + 1 /\ nf[m].first + up = a + up
        /\ nf[m].last + up = z + up
    BY <1>1
  <2>2. DupMachine(nf, m).m = M
    BY DEF DupMachine, M, up
  <2>3. n = [all EXCEPT ![M].first = nf[m].first + up, ![M].last = nf[m].last + up,
                        ![M].final = nf[m].final + up]
    BY <1>1, <1>5, <1>9 DEF new, e, NfaState
  <2>4. DupMachine(nf, m).n = [all EXCEPT ![m + up].first = nf[m].first + up,
                                         ![m + up].last = nf[m].last + up,
                                         ![m + up].final = nf[m].final + up]
    BY DEF DupMachine, up, all, dup, copy
  <2>5. DupMachine(nf, m) = [n |-> DupMachine(nf, m).n, m |-> DupMachine(nf, m).m]
    BY DEF DupMachine
  <2> HIDE DEF n
  <2> QED
    BY <2>2, <2>3, <2>4, <2>5 DEF M
<1> HIDE DEF n
<1>13. \A t \in 1 .. L2 : n[t].to = all[t].to /\ n[t].on = all[t].on
  BY <1>10, <1>11
<1>14. Good(n, A)
  <2> SUFFICES ASSUME NEW t \in 1 .. L2 PROVE Fits(n[t], L2, A)
    BY <1>11 DEF Good
  <2>1. CASE t # M
    BY <1>8, <1>11, <2>1
  <2>2. CASE t = M
    <3>1. Fits(all[M], L2, A) /\ L + 1 \in 1 .. L2 /\ L2 \in 1 .. L2 /\ e \in 1 .. L2
      BY <1>1, <1>2, <1>8, <1>9, <2>2 DEF L2
    <3> QED
      BY <1>10, <1>11, <2>2, <3>1 DEF Fits
  <2> QED
    BY <2>1, <2>2
<1>15. Closed(n, L + 1, L2)
  <2> SUFFICES ASSUME NEW t \in L + 1 .. L2, NEW k \in DOMAIN n[t].to PROVE n[t].to[k] \in L + 1 .. L2
    BY DEF Closed
  <2>1. t \in 1 .. L2 /\ t - up \in a .. z /\ all[t] = copy(t - up)
    <3>1. t \in 1 .. L2
      BY <1>i DEF L2
    <3> QED
      BY <1>6, <1>7, <3>1
  <2> QED
    BY <1>3, <1>13, <2>1
<1>16. Room(n[e])
  <2>1. all[e] = copy(nf[m].final) /\ e \in 1 .. L2
    BY SMTT(60), <1>1, <1>2, <1>6, <1>9 DEF e
  <2>2. Len(copy(nf[m].final).to) = Len(nf[nf[m].final].to) /\ copy(nf[m].final).on = nf[nf[m].final].on
    BY <1>1, <1>3
  <2>3. n[e].to = copy(nf[m].final).to /\ n[e].on = copy(nf[m].final).on
    BY <1>13, <2>1
  <2> QED
    BY <1>1, <2>2, <2>3 DEF Room
<1>t. Tight(n, M, L + 1, L2)
  <2>1. ASSUME NEW t \in L + 1 .. L2, Lacks(n[t]) PROVE t = e
    <3>1. t \in 1 .. L2
      BY <1>i DEF L2
    <3>2. t - up \in a .. z /\ (t - up) + up = t /\ all[t] = copy(t - up)
      BY <1>6, <1>7
    <3>3. n[t].to = copy(t - up).to /\ n[t].on = copy(t - up).on
      BY <1>13, <3>1, <3>2
    <3>4. Len(copy(t - up).to) = Len(nf[t - up].to) /\ copy(t - up).on = nf[t - up].on
      BY <1>3, <3>2
    <3>5. Lacks(nf[t - up])
      BY <2>1, <3>3, <3>4 DEF Lacks
    <3>6. t - up = nf[m].final
      BY <3>2, <3>5 DEF Machine, Tight
    <3> QED
      BY <3>2, <3>6 DEF e
  <2>2. n[M].final = e
    BY <1>10, <1>11
  <2> QED
    BY <2>1, <2>2 DEF Tight
<1>17. Machine(n, M, L + 1, L2)
  <2>1. L + 1 \in 1 .. L2 /\ L2 \in 1 .. L2
    <3> HIDE DEF size
    <3> QED
      BY <1>i DEF L2
  <2> QED
    BY <1>9, <1>10, <1>11, <1>16, <1>t, <2>1 DEF Machine, Shape
<1>18. Keeps(n, nf, L + 1)
  <2>1. \A t \in 1 .. L : t \in 1 .. L2 /\ t # M
    BY <1>1, <1>2, <1>9 DEF L2
  <2>2. L \in Nat /\ L2 \in Nat /\ L <= L2 /\ L + 1 \in 1 .. L + 1 /\ (L + 1) - 1 = L
    <3> HIDE DEF size
    <3> QED
      BY <1>i DEF L2
  <2>3. \A t \in 1 .. L : n[t] = nf[t]
    BY <1>5, <1>11, <2>1
  <2> QED
    BY <1>11, <2>2, <2>3 DEF Keeps, L
<1> QED
  BY <1>11, <1>12, <1>14, <1>15, <1>17, <1>18 DEF Made, OnTop, L

LEMMA KeepsLess ==
  ASSUME NEW n, NEW p, NEW q, NEW a, NEW b, Keeps(p, n, b), Keeps(q, p, a), a \in 1 .. b
  PROVE  Keeps(q, n, a)
<1>1. a \in Int /\ b \in 1 .. Len(n) + 1 /\ Len(n) \in Nat
  BY DEF Keeps
<1>2. \A t \in 1 .. a - 1 : t \in 1 .. b - 1
  BY <1>1
<1> QED
  BY <1>1, <1>2 DEF Keeps

\* The machine on top and one that is made after it are linked.
LEMMA FollowedIs ==
  ASSUME NEW A \in SUBSET Nat, NEW nf, NEW x, NEW a, NEW r, OnTop(nf, x, a, A),
         Made(r, nf, Len(nf) + 1, A)
  PROVE  /\ OnTop(Link(r.n, x, r.m), x, a, A) /\ Keeps(Link(r.n, x, r.m), nf, a)
         /\ OnTop(Link(r.n, r.m, x), r.m, a, A) /\ Keeps(Link(r.n, r.m, x), nf, a)
<1>1. /\ Good(nf, A) /\ Machine(nf, x, a, Len(nf)) /\ Closed(nf, a, Len(nf)) /\ Len(nf) \in Nat
      /\ a \in 1 .. Len(nf)
  BY DEF OnTop, Machine, Shape, Good
<1>2. /\ Good(r.n, A) /\ Machine(r.n, r.m, Len(nf) + 1, Len(r.n))
      /\ Closed(r.n, Len(nf) + 1, Len(r.n)) /\ Keeps(r.n, nf, Len(nf) + 1)
  BY DEF Made, OnTop
<1>3. Machine(r.n, x, a, Len(nf)) /\ Closed(r.n, a, Len(nf))
  <2>1. Len(nf) < Len(nf) + 1
    BY <1>1
  <2> QED
    BY <1>1, <1>2, <2>1, MachineBelow
<1>4. /\ OnTop(Link(r.n, x, r.m), x, a, A) /\ Keeps(Link(r.n, x, r.m), r.n, a)
      /\ OnTop(Link(r.n, r.m, x), r.m, a, A) /\ Keeps(Link(r.n, r.m, x), r.n, a)
  BY <1>2, <1>3, NeighboursIs
<1>5. a \in 1 .. Len(nf) + 1
  BY <1>1
<1> QED
  BY <1>2, <1>4, <1>5, KeepsLess

\* copysingl()
LEMMA CopySinglIs ==
  ASSUME NEW A \in SUBSET Nat, NIL \in A, NEW nf, NEW m, NEW a, OnTop(nf, m, a, A),
         NEW num \in Nat
  PROVE  Made(CopySingl(nf, m, num), nf, Len(nf) + 1, A)
<1> DEFINE copy == Len(nf) + 1
           next(p) == LET d == DupMachine(p, m) IN Link(d.n, copy, d.m)
           n[i \in 0 .. num] == IF i = 0 THEN MkState(nf, EPS) ELSE next(n[i - 1])
           S == {p \in Seq(NfaState) : OnTop(p, copy, copy, A) /\ Keeps(p, nf, copy)}
           G == [q \in (0 .. num) \X S |-> next(q[2])]
<1>1. /\ Good(nf, A) /\ Machine(nf, m, a, Len(nf)) /\ Closed(nf, a, Len(nf)) /\ Len(nf) \in Nat
      /\ copy \in 1 .. Len(nf) + 1 /\ Len(nf) < copy
  BY DEF OnTop, Good
<1>2. MkState(nf, EPS) \in S
  <2> DEFINE s == MkState(nf, EPS)
  <2>1. Added(s, nf, EPS, A)
    BY <1>1, MkStateIs DEF Syms
  <2> HIDE DEF s
  <2>2. s \in Seq(NfaState) /\ OnTop(s, copy, copy, A) /\ Keeps(s, nf, copy)
    BY <1>1, <2>1 DEF Added, OnTop, Keeps, Good
  <2> QED
    BY <2>2 DEF s
<1>3. ASSUME NEW p \in S PROVE next(p) \in S
  <2> DEFINE d == DupMachine(p, m)
             q == Link(d.n, copy, d.m)
  <2>1. OnTop(p, copy, copy, A) /\ Keeps(p, nf, copy)
    OBVIOUS
  <2> HIDE DEF S, copy
  <2>2. Machine(p, m, a, Len(nf)) /\ Closed(p, a, Len(nf))
    BY <1>1, <2>1, MachineBelow
  <2>3. Made(d, p, Len(p) + 1, A)
    BY <2>1, <2>2, DupMachineIs DEF OnTop
  <2> HIDE DEF d
  <2>4. OnTop(q, copy, copy, A) /\ Keeps(q, p, copy)
    BY <2>1, <2>3, FollowedIs
  <2>5. Keeps(q, nf, copy) /\ q \in Seq(NfaState)
    BY <2>1, <2>4, KeepsTwice DEF OnTop, Good
  <2> QED
    BY <2>4, <2>5 DEF S, d
<1> HIDE DEF S, next
<1>4. n = [i \in 0 .. num |-> IF i = 0 THEN MkState(nf, EPS) ELSE next(n[i - 1])]
  <2>1. PICK f : Recursion(f, 0, num, MkState(nf, EPS), G)
    BY RecursionExists
  <2>2. f[0] \in S
    BY <1>2, <2>1 DEF Recursion
  <2>3. ASSUME NEW i \in 1 .. num, f[i - 1] \in S PROVE f[i] = next(f[i - 1]) /\ f[i] \in S
    <3>1. f[i] = G[<<i, f[i - 1]>>]
      <4>1. i \in 0 .. num /\ i # 0
        OBVIOUS
      <4> HIDE DEF G
      <4> QED
        BY <2>1, <4>1 DEF Recursion
    <3>2. G[<<i, f[i - 1]>>] = next(f[i - 1])
      BY <2>3
    <3> QED
      BY <1>3, <2>3, <3>1, <3>2
  <2>4. \A i \in 0 + 1 .. num : f[i - 1] \in S => f[i] \in S
    BY <2>3
  <2>5. \A i \in 0 .. num : f[i] \in S
    BY <2>2, <2>4, PassedOn
  <2>6. \A i \in 1 .. num : f[i] = next(f[i - 1])
    BY <2>3, <2>5
  <2>7. f = [i \in 0 .. num |-> IF i = 0 THEN MkState(nf, EPS) ELSE next(f[i - 1])]
    <3>1. f = [i \in 0 .. num |-> f[i]] /\ f[0] = MkState(nf, EPS)
      BY <2>1 DEF Recursion
    <3>2. ASSUME NEW i \in 0 .. num
          PROVE  f[i] = IF i = 0 THEN MkState(nf, EPS) ELSE next(f[i - 1])
      <4>1. CASE i = 0
        BY <3>1, <4>1
      <4>2. CASE i # 0
        <5>1. i \in 1 .. num
          BY <4>2
        <5> QED
          BY <2>6, <4>2, <5>1
      <4> QED
        BY <4>1, <4>2
    <3> QED
      BY <3>1, <3>2
  <2> QED
    BY <2>7 DEF n
<1> HIDE DEF n
<1>5. n[0] \in S
  BY <1>2, <1>4
<1>6. \A i \in 0 + 1 .. num : n[i - 1] \in S => n[i] \in S
  BY <1>3, <1>4
<1>7. n[num] \in S
  BY <1>5, <1>6, PassedOn
<1>8. CopySingl(nf, m, num) = [n |-> n[num], m |-> copy]
  BY DEF CopySingl, n, next
<1> QED
  BY <1>7, <1>8 DEF Made, S

\* {n}, and mkrep() to infinity.
LEMMA ExactlyIs ==
  ASSUME NEW A \in SUBSET Nat, NIL \in A, NEW nf, NEW m, NEW a, OnTop(nf, m, a, A),
         NEW num \in Nat
  PROVE  LET r == CopySingl(nf, m, num)
         IN  OnTop(Link(r.n, m, r.m), m, a, A) /\ Keeps(Link(r.n, m, r.m), nf, a)
BY CopySinglIs, FollowedIs

LEMMA MkRepFromIs ==
  ASSUME NEW A \in SUBSET Nat, NIL \in A, NEW nf, NEW m, NEW a, OnTop(nf, m, a, A),
         NEW lb \in Nat \ {0}
  PROVE  Made(MkRepFrom(nf, m, lb), nf, a, A)
<1> DEFINE base == CopySingl(nf, m, lb - 1)
           copy == DupMachine(base.n, m)
           clos == MkClos(copy.n, copy.m)
           l1 == Len(nf) + 1
           l2 == Len(base.n) + 1
           p == Link(clos.n, base.m, clos.m)
           q == Link(p, m, base.m)
<1>1. Made(base, nf, l1, A)
  BY CopySinglIs
<1>0. /\ Machine(nf, m, a, Len(nf)) /\ Closed(nf, a, Len(nf)) /\ Len(nf) < l1
      /\ l1 \in Int /\ Len(nf) \in Nat /\ l1 \in 1 .. l2
  <2>1. Len(nf) \in Nat /\ Len(base.n) \in Nat /\ Len(nf) <= Len(base.n)
    BY <1>1 DEF Made, Keeps
  <2> HIDE DEF base
  <2> QED
    BY <2>1 DEF OnTop
<1> HIDE DEF base, l1
<1>2. Machine(base.n, m, a, Len(nf)) /\ Closed(base.n, a, Len(nf))
  BY <1>0, <1>1, MachineBelow DEF Made
<1>3. Made(copy, base.n, l2, A)
  BY <1>1, <1>2, DupMachineIs DEF Made, OnTop
<1> HIDE DEF copy
<1>4. Made(clos, copy.n, l2, A)
  BY <1>3, MkClosIs DEF Made
<1> HIDE DEF clos
<1>5. Made(clos, base.n, l2, A)
  BY <1>3, <1>4, KeepsTwice DEF Made
<1>6. OnTop(p, base.m, l1, A) /\ Keeps(p, base.n, l1)
  BY <1>1, <1>5, FollowedIs DEF Made
<1> HIDE DEF p
<1>7. Keeps(p, nf, l1)
  BY <1>1, <1>6, KeepsTwice DEF Made
<1> DEFINE r == [n |-> p, m |-> base.m]
<1>8. Made(r, nf, Len(nf) + 1, A) /\ r.n = p /\ r.m = base.m
  BY <1>6, <1>7 DEF Made, l1
<1> HIDE DEF r
<1>9. OnTop(q, m, a, A) /\ Keeps(q, nf, a)
  BY <1>8, FollowedIs
<1>10. MkRepFrom(nf, m, lb) = [n |-> q, m |-> m]
  BY DEF MkRepFrom, q, p, clos, copy, base
<1> QED
  BY <1>9, <1>10 DEF Made

\* mkrep() to ub.
LEMMA MkRepIs ==
  ASSUME NEW A \in SUBSET Nat, NIL \in A, NEW nf, NEW m, NEW a, OnTop(nf, m, a, A),
         NEW lb \in Nat \ {0}, NEW ub \in Nat, lb <= ub
  PROVE  Made(MkRep(nf, m, lb, ub), nf, a, A)
<1> DEFINE base == CopySingl(nf, m, lb - 1)
           B == base.n
           l1 == Len(nf) + 1
           l2 == Len(B) + 1
           init == [n |-> MkState(B, EPS), m |-> Len(B) + 1]
           next(t) == LET copy == DupMachine(t.n, m) IN MkOpt(Link(copy.n, copy.m, t.m), copy.m)
           tail[i \in lb .. ub] == IF i = lb THEN init ELSE next(tail[i - 1])
           S == {t \in [n : Seq(NfaState), m : Nat] : Made(t, B, l2, A)}
           G == [q \in (lb .. ub) \X S |-> next(q[2])]
           p == Link(tail[ub].n, base.m, tail[ub].m)
           q == Link(p, m, base.m)
<1>1. Made(base, nf, l1, A)
  BY CopySinglIs
<1> HIDE DEF base
<1>0. /\ Machine(nf, m, a, Len(nf)) /\ Closed(nf, a, Len(nf)) /\ Len(nf) < l1 /\ Len(nf) < l2
      /\ l1 \in Int /\ Len(nf) \in Nat /\ l1 \in 1 .. l2 /\ Len(B) \in Nat
  <2>1. Len(nf) \in Nat /\ Len(B) \in Nat /\ Len(nf) <= Len(B)
    BY <1>1 DEF Made, Keeps
  <2> HIDE DEF B
  <2> QED
    BY <2>1 DEF OnTop
<1>2. Machine(B, m, a, Len(nf)) /\ Closed(B, a, Len(nf)) /\ Good(B, A)
  <2> HIDE DEF l1
  <2> QED
    BY <1>0, <1>1, MachineBelow DEF Made, OnTop
<1> HIDE DEF B
<1>3. init \in S
  <2> DEFINE s == MkState(B, EPS)
  <2>1. Added(s, B, EPS, A)
    BY <1>2, MkStateIs DEF Syms
  <2> HIDE DEF s
  <2>2. s \in Seq(NfaState) /\ OnTop(s, l2, l2, A) /\ Keeps(s, B, l2)
    BY <1>0, <2>1 DEF Added, OnTop, Keeps, Good
  <2>3. l2 \in Nat
    BY <1>0
  <2> HIDE DEF l2
  <2> QED
    BY <2>2, <2>3 DEF s, l2, Made
<1> HIDE DEF init
<1>4. ASSUME NEW t \in S PROVE next(t) \in S
  <2> DEFINE copy == DupMachine(t.n, m)
             k == Link(copy.n, copy.m, t.m)
             o == MkOpt(k, copy.m)
  <2>1. OnTop(t.n, t.m, l2, A) /\ Keeps(t.n, B, l2)
    BY DEF Made
  <2> HIDE DEF S, l2
  <2>2. Machine(t.n, m, a, Len(nf)) /\ Closed(t.n, a, Len(nf))
    BY <1>0, <1>2, <2>1, MachineBelow
  <2>3. Made(copy, t.n, Len(t.n) + 1, A)
    BY <2>1, <2>2, DupMachineIs DEF OnTop
  <2> HIDE DEF copy
  <2>4. OnTop(k, copy.m, l2, A) /\ Keeps(k, t.n, l2)
    BY <2>1, <2>3, FollowedIs
  <2> HIDE DEF k
  <2>5. Made(o, k, l2, A)
    BY <2>4, MkOptIs
  <2>6. o \in [n : Seq(NfaState), m : Nat]
    <3>1. DOMAIN o = {"n", "m"} /\ o = [n |-> o.n, m |-> o.m]
      BY DEF MkOpt
    <3> HIDE DEF o
    <3>2. o.n \in Seq(NfaState) /\ o.m \in Nat
      BY <2>5 DEF Made, OnTop, Good, Machine, Shape
    <3> QED
      BY <3>1, <3>2
  <2> HIDE DEF o
  <2>7. Made(o, B, l2, A)
    BY <2>1, <2>4, <2>5, KeepsTwice DEF Made
  <2> QED
    BY <2>6, <2>7 DEF S, o, k, copy
<1> HIDE DEF S, next
<1>5. tail = [i \in lb .. ub |-> IF i = lb THEN init ELSE next(tail[i - 1])]
  <2>1. PICK f : Recursion(f, lb, ub, init, G)
    BY RecursionExists
  <2>2. f[lb] \in S /\ f[lb] = init
    <3> HIDE DEF G
    <3> QED
      BY <1>3, <2>1 DEF Recursion
  <2>3. ASSUME NEW i \in lb + 1 .. ub, f[i - 1] \in S PROVE f[i] = next(f[i - 1]) /\ f[i] \in S
    <3>1. f[i] = G[<<i, f[i - 1]>>]
      <4>1. i \in lb .. ub /\ i # lb
        OBVIOUS
      <4> HIDE DEF G
      <4> QED
        BY <2>1, <4>1 DEF Recursion
    <3>2. G[<<i, f[i - 1]>>] = next(f[i - 1])
      BY <2>3
    <3> QED
      BY <1>4, <2>3, <3>1, <3>2
  <2>4. \A i \in lb + 1 .. ub : f[i - 1] \in S => f[i] \in S
    BY <2>3
  <2>5. \A i \in lb .. ub : f[i] \in S
    BY <2>2, <2>4, PassedOn
  <2>6. \A i \in lb + 1 .. ub : f[i] = next(f[i - 1])
    BY <2>3, <2>5
  <2>7. f = [i \in lb .. ub |-> IF i = lb THEN init ELSE next(f[i - 1])]
    <3>1. f = [i \in lb .. ub |-> f[i]]
      <4> HIDE DEF G
      <4> QED
        BY <2>1 DEF Recursion
    <3>2. ASSUME NEW i \in lb .. ub
          PROVE  f[i] = IF i = lb THEN init ELSE next(f[i - 1])
      <4>1. CASE i = lb
        BY <2>2, <4>1
      <4>2. CASE i # lb
        <5>1. i \in lb + 1 .. ub
          BY <4>2
        <5> QED
          BY <2>6, <4>2, <5>1
      <4> QED
        BY <4>1, <4>2
    <3> QED
      BY <3>1, <3>2
  <2> QED
    BY <2>7 DEF tail
<1> HIDE DEF tail
<1>6. tail[lb] \in S
  BY <1>3, <1>5
<1>7. \A i \in lb + 1 .. ub : tail[i - 1] \in S => tail[i] \in S
  BY <1>4, <1>5
<1>8. tail[ub] \in S
  BY <1>6, <1>7, PassedOn
<1>9. Made(tail[ub], B, l2, A)
  BY <1>8 DEF S
<1>10. OnTop(p, base.m, l1, A) /\ Keeps(p, B, l1)
  <2>1. OnTop(B, base.m, l1, A)
    BY <1>1 DEF Made, B
  <2> HIDE DEF l1
  <2> QED
    BY <1>9, <2>1, FollowedIs
<1> HIDE DEF p
<1>11. Keeps(p, nf, l1)
  BY <1>1, <1>10, KeepsTwice DEF Made, B
<1> DEFINE r == [n |-> p, m |-> base.m]
<1>12. Made(r, nf, Len(nf) + 1, A) /\ r.n = p /\ r.m = base.m
  BY <1>10, <1>11 DEF Made
<1> HIDE DEF r
<1>13. OnTop(q, m, a, A) /\ Keeps(q, nf, a)
  BY <1>12, FollowedIs
<1>14. MkRep(nf, m, lb, ub) = [n |-> q, m |-> m]
  BY DEF MkRep, q, p, tail, next, init, B, base
<1> QED
  BY <1>13, <1>14 DEF Made

----------------------------------------------------------------------------
(* The end of a rule: from here on it only matters that machines can be    *)
(* linked.                                                                 *)

\* A state is given an accepting number.
Numbered(n, nf, A) ==
  /\ Good(n, A) /\ Len(n) = Len(nf)
  /\ \A t \in 1 .. Len(nf) :
       n[t].final = nf[t].final /\ n[t].on = nf[t].on /\ n[t].to = nf[t].to

LEMMA AccIs ==
  ASSUME NEW A \in SUBSET Nat, NEW nf, Good(nf, A), NEW s \in 1 .. Len(nf), NEW number \in A
  PROVE  Numbered([nf EXCEPT ![s].acc = number], nf, A)
<1> DEFINE new == [nf[s] EXCEPT !.acc = number]
           n == [nf EXCEPT ![s].acc = number]
<1>1. Len(nf) \in Nat /\ nf \in Seq(NfaState)
  BY DEF Good
<1>2. nf[s] \in NfaState /\ Fits(nf[s], Len(nf), A)
  BY <1>1, GoodElement
<1>3. /\ new \in NfaState /\ new.final = nf[s].final /\ new.to = nf[s].to /\ new.on = nf[s].on
      /\ new.acc = number /\ new.first = nf[s].first /\ new.last = nf[s].last
  <2>1. nf[s] \in NfaState /\ number \in Nat
    BY <1>2
  <2> HIDE DEF n
  <2> QED
    BY <2>1 DEF NfaState
<1>4. n = [nf EXCEPT ![s] = new]
  OBVIOUS
<1> HIDE DEF n, new
<1>5. n \in Seq(NfaState) /\ Len(n) = Len(nf) /\ n[s] = new /\ \A t \in 1 .. Len(nf) : t # s => n[t] = nf[t]
  BY <1>1, <1>3, <1>4
<1>6. Fits(new, Len(nf), A)
  BY <1>1, <1>2, <1>3 DEF Fits
<1>7. Good(n, A)
  BY <1>5, <1>6 DEF Good
<1>8. \A t \in 1 .. Len(nf) :
        n[t].final = nf[t].final /\ n[t].on = nf[t].on /\ n[t].to = nf[t].to
  BY <1>3, <1>5
<1> QED
  BY <1>5, <1>7, <1>8 DEF n, Numbered

\* Two machines that can be linked to others and do not share a final state.
Apart(nf, x, y, A) ==
  /\ Good(nf, A) /\ Ready(nf, x) /\ Ready(nf, y) /\ x # y /\ nf[x].final # nf[y].final

\* Linking the first to the second makes one that can be linked.
Relinked(n, nf, x, y, A) ==
  /\ Good(n, A) /\ Ready(n, x) /\ Len(n) = Len(nf)
  /\ \A w : Apart(nf, x, w, A) /\ w # y /\ nf[w].final # nf[y].final => Apart(n, x, w, A)

LEMMA LinkApart ==
  ASSUME NEW A \in SUBSET Nat, NEW nf, NEW x, NEW y, Apart(nf, x, y, A)
  PROVE  Relinked(Link(nf, x, y), nf, x, y, A)
<1> DEFINE n == Link(nf, x, y)
           e == nf[x].final
<1>1. /\ x \in 1 .. Len(nf) /\ y \in 1 .. Len(nf) /\ Room(nf[e]) /\ Room(nf[nf[y].final])
      /\ e # nf[y].final /\ Good(nf, A)
  BY DEF Apart, Ready
<1>2. Linked(n, nf, x, y, e, A)
  BY <1>1, LinkIs
<1> HIDE DEF n
<1>3. nf[y].final \in 1 .. Len(nf)
  BY <1>1, GoodElement DEF Fits
<1>4. Ready(n, x)
  BY <1>1, <1>2, <1>3 DEF Linked, Ready, Room
<1>5. ASSUME NEW w, Apart(nf, x, w, A), w # y, nf[w].final # nf[y].final
      PROVE  Apart(n, x, w, A)
  <2>1. /\ w \in 1 .. Len(nf) /\ w # x /\ nf[w].final # e /\ Room(nf[nf[w].final])
    BY <1>5 DEF Apart, Ready
  <2>2. nf[w].final \in 1 .. Len(nf)
    BY <1>1, <2>1, GoodElement DEF Fits
  <2>3. n[w].final = nf[w].final /\ Room(n[nf[w].final])
    BY <1>2, <2>1, <2>2 DEF Linked, Room
  <2> QED
    BY <1>2, <1>4, <1>5, <2>1, <2>3 DEF Apart, Linked, Ready
<1> QED
  BY <1>2, <1>4, <1>5 DEF n, Linked, Relinked

\* A new state is apart from every machine.
LEMMA MkStateApart ==
  ASSUME NEW A \in SUBSET Nat, NIL \in A, NEW nf, Good(nf, A), NEW label \in Syms
  PROVE  LET n == MkState(nf, label)
         IN  /\ Good(n, A) /\ Len(n) = Len(nf) + 1 /\ Ready(n, Len(nf) + 1)
             /\ \A x : Ready(nf, x) => Apart(n, x, Len(nf) + 1, A) /\ n[x].final = nf[x].final
             /\ \A x, y : Apart(nf, x, y, A) => Apart(n, x, y, A)
<1> DEFINE n == MkState(nf, label)
           s == Len(nf) + 1
<1>1. Added(n, nf, label, A)
  BY MkStateIs
<1> HIDE DEF n
<1>2. Good(n, A) /\ Len(n) = s /\ Ready(n, s) /\ n[s].final = s /\ Len(nf) \in Nat
  BY <1>1 DEF Added, Machine, Shape, Ready
<1>3. ASSUME NEW x, Ready(nf, x)
      PROVE  x \in 1 .. Len(nf) /\ nf[x].final \in 1 .. Len(nf) /\ Ready(n, x) /\ n[x].final = nf[x].final
  <2>1. x \in 1 .. Len(nf) /\ Room(nf[nf[x].final])
    BY <1>3 DEF Ready
  <2>2. nf[x].final \in 1 .. Len(nf)
    BY <2>1, GoodElement DEF Fits
  <2>3. n[x] = nf[x] /\ n[nf[x].final] = nf[nf[x].final] /\ x \in 1 .. Len(n)
    BY <1>1, <1>2, <2>1, <2>2 DEF Added
  <2> QED
    BY <2>1, <2>2, <2>3 DEF Ready
<1>4. ASSUME NEW x, Ready(nf, x) PROVE Apart(n, x, s, A) /\ n[x].final = nf[x].final
  <2>1. x # s /\ n[x].final # s
    BY <1>2, <1>3, <1>4
  <2> QED
    BY <1>2, <1>3, <1>4, <2>1 DEF Apart
<1>5. ASSUME NEW x, NEW y, Apart(nf, x, y, A) PROVE Apart(n, x, y, A)
  BY <1>2, <1>3, <1>5 DEF Apart
<1> QED
  BY <1>2, <1>4, <1>5 DEF n

\* add_accept()
LEMMA AddAcceptIs ==
  ASSUME NEW A \in SUBSET Nat, NIL \in A, NEW nf, NEW m, Good(nf, A), Ready(nf, m),
         NEW number \in A
  PROVE  LET n == AddAccept(nf, m, number)
         IN  /\ Good(n, A) /\ Ready(n, m) /\ Len(nf) <= Len(n)
             /\ \A w : Apart(nf, m, w, A) => Apart(n, m, w, A)
<1> DEFINE e == nf[m].final
           s == Len(nf) + 1
<1>1. m \in 1 .. Len(nf) /\ e \in 1 .. Len(nf) /\ Room(nf[e]) /\ Len(nf) \in Nat
  BY GoodElement DEF Ready, Fits
<1>2. CASE nf[e].on = EPS
  <2> DEFINE n == [nf EXCEPT ![e].acc = number]
  <2>1. Numbered(n, nf, A)
    BY <1>1, AccIs
  <2>2. n = AddAccept(nf, m, number)
    BY <1>2 DEF AddAccept
  <2> HIDE DEF n
  <2>3. ASSUME NEW w, Ready(nf, w) PROVE Ready(n, w) /\ n[w].final = nf[w].final
    <3>1. w \in 1 .. Len(nf) /\ Room(nf[nf[w].final])
      BY <2>3 DEF Ready
    <3>2. nf[w].final \in 1 .. Len(nf)
      BY <3>1, GoodElement DEF Fits
    <3> QED
      BY <2>1, <3>1, <3>2 DEF Ready, Room, Numbered
  <2> QED
    BY <1>1, <2>1, <2>2, <2>3 DEF Apart, Numbered
<1>3. CASE nf[e].on # EPS
  <2> DEFINE b == MkState(nf, EPS)
             c == [b EXCEPT ![s].acc = number]
             n == Link(c, m, s)
  <2>1. /\ Good(b, A) /\ Len(b) = s /\ Ready(b, s)
        /\ \A x : Ready(nf, x) => Apart(b, x, s, A) /\ b[x].final = nf[x].final
        /\ \A x, y : Apart(nf, x, y, A) => Apart(b, x, y, A)
    BY MkStateApart DEF Syms
  <2> HIDE DEF b
  <2>2. Numbered(c, b, A)
    <3>1. s \in 1 .. Len(b)
      BY <1>1, <2>1
    <3> QED
      BY <2>1, <3>1, AccIs
  <2> HIDE DEF c
  <2>3. ASSUME NEW w, Ready(b, w) PROVE Ready(c, w) /\ c[w].final = b[w].final
    <3>1. w \in 1 .. Len(b) /\ Room(b[b[w].final])
      BY <2>3 DEF Ready
    <3>2. b[w].final \in 1 .. Len(b)
      BY <2>1, <3>1, GoodElement DEF Fits
    <3> QED
      BY <2>2, <3>1, <3>2 DEF Ready, Room, Numbered
  <2>4. \A x, y : Apart(b, x, y, A) => Apart(c, x, y, A)
    BY <2>2, <2>3 DEF Apart, Numbered
  <2>5. Apart(c, m, s, A)
    BY <2>1, <2>4
  <2>6. /\ Good(n, A) /\ Ready(n, m) /\ Len(n) = Len(c)
        /\ \A w : Apart(c, m, w, A) /\ w # s /\ c[w].final # c[s].final => Apart(n, m, w, A)
    BY <2>5, LinkApart DEF Relinked
  <2> HIDE DEF n
  <2>7. ASSUME NEW w, Apart(nf, m, w, A) PROVE Apart(n, m, w, A)
    <3>1. Apart(c, m, w, A) /\ Apart(c, w, s, A)
      BY <2>1, <2>4, <2>7 DEF Apart
    <3> QED
      BY <2>6, <3>1 DEF Apart
  <2>8. n = AddAccept(nf, m, number)
    BY <1>3 DEF AddAccept, n, c, b
  <2>9. Len(nf) <= Len(n)
    BY <1>1, <2>1, <2>2, <2>6 DEF Numbered
  <2> QED
    BY <2>6, <2>7, <2>8, <2>9
<1> QED
  BY <1>2, <1>3

\* States on nothing that accept nothing, where no symbol leads.
Bare(nf, C) ==
  /\ C \subseteq 1 .. Len(nf)
  /\ \A p \in C : nf[p].on = EPS /\ nf[p].acc = NIL
  /\ \A t \in 1 .. Len(nf) : nf[t].on # EPS => \A k \in DOMAIN nf[t].to : nf[t].to[k] \notin C

\* The only states that may be without the transition on their symbol.
Lax(nf, F) == \A t \in 1 .. Len(nf) : Lacks(nf[t]) => t \in F

Adding(n, nf, label) ==
  /\ \A C : Bare(nf, C) => Bare(n, C)
  /\ \A F : Lax(nf, F) => Lax(n, F \cup {Len(nf) + 1}) /\ (label = EPS => Lax(n, F))
  /\ \A w \in 1 .. Len(nf) : n[w].final = nf[w].final

LEMMA AddedSpares ==
  ASSUME NEW A, NEW nf, NEW n, NEW label, Added(n, nf, label, A)
  PROVE  Adding(n, nf, label)
<1> DEFINE s == Len(nf) + 1
<1>1. /\ Len(nf) \in Nat /\ Len(n) = s /\ n[s].on = label /\ n[s].to = <<>>
      /\ \A t \in 1 .. Len(nf) : n[t] = nf[t]
  BY DEF Added
<1>2. \A t \in 1 .. Len(n) : t = s \/ t \in 1 .. Len(nf)
  BY <1>1
<1>3. DOMAIN n[s].to = {} /\ Len(nf) <= Len(n)
  BY <1>1
<1> HIDE DEF s
<1>4. ASSUME NEW C, Bare(nf, C) PROVE Bare(n, C)
  <2>1. C \subseteq 1 .. Len(n)
    BY <1>1, <1>3, <1>4 DEF Bare, s
  <2>2. \A p \in C : n[p].on = EPS /\ n[p].acc = NIL
    BY <1>1, <1>4 DEF Bare
  <2>3. ASSUME NEW t \in 1 .. Len(n), n[t].on # EPS, NEW k \in DOMAIN n[t].to
        PROVE  n[t].to[k] \notin C
    BY <1>1, <1>2, <1>3, <1>4, <2>3 DEF Bare
  <2> QED
    BY <2>1, <2>2, <2>3 DEF Bare
<1>5. ASSUME NEW F, Lax(nf, F) PROVE Lax(n, F \cup {s}) /\ (label = EPS => Lax(n, F))
  <2>1. ASSUME NEW t \in 1 .. Len(n), Lacks(n[t])
        PROVE  t \in F \cup {s} /\ (label = EPS => t \in F)
    BY <1>1, <1>2, <1>5, <2>1 DEF Lax, Lacks
  <2> QED
    BY <2>1 DEF Lax
<1> QED
  BY <1>1, <1>4, <1>5 DEF s, Adding

Leading(n, nf, x, y) ==
  /\ \A C : Bare(nf, C) /\ y \notin C => Bare(n, C)
  /\ \A F : Lax(nf, F) => Lax(n, F \ {nf[x].final})
  /\ \A w \in 1 .. Len(nf) : w # x => n[w].final = nf[w].final
  /\ n[x].final = nf[y].final

LEMMA LinkedSpares ==
  ASSUME NEW A \in SUBSET Nat, NEW nf, NEW x \in 1 .. Len(nf), NEW y, Good(nf, A), NEW n,
         Linked(n, nf, x, y, nf[x].final, A)
  PROVE  Leading(n, nf, x, y)
<1>1. PICK e : e = nf[x].final
  OBVIOUS
<1>2. /\ Len(nf) \in Nat /\ Len(n) = Len(nf) /\ e \in 1 .. Len(nf)
      /\ \A t \in 1 .. Len(nf) : n[t].on = nf[t].on /\ n[t].acc = nf[t].acc
      /\ \A t \in 1 .. Len(nf) : t # e => n[t].to = nf[t].to
      /\ Len(n[e].to) = Len(nf[e].to) + 1 /\ Len(nf[e].to) \in Nat
      /\ \A k \in DOMAIN n[e].to :
           n[e].to[k] = y \/ (k \in DOMAIN nf[e].to /\ n[e].to[k] = nf[e].to[k])
  BY <1>1, GoodElement DEF Linked
<1>3. ASSUME NEW C, Bare(nf, C), y \notin C PROVE Bare(n, C)
  <2>1. ASSUME NEW t \in 1 .. Len(n), n[t].on # EPS, NEW k \in DOMAIN n[t].to
        PROVE  n[t].to[k] \notin C
    BY <1>2, <1>3, <2>1 DEF Bare
  <2> QED
    BY <1>2, <1>3, <2>1 DEF Bare
<1>4. ASSUME NEW F, Lax(nf, F) PROVE Lax(n, F \ {e})
  <2>1. ASSUME NEW t \in 1 .. Len(n), Lacks(n[t]) PROVE t \in F \ {e}
    <3>1. t # e
      BY <1>2, <2>1 DEF Lacks
    <3> QED
      BY <1>2, <1>4, <2>1, <3>1 DEF Lax, Lacks
  <2> QED
    BY <2>1 DEF Lax
<1>5. /\ \A w \in 1 .. Len(nf) : w # x => n[w].final = nf[w].final
      /\ n[x].final = nf[y].final
  BY DEF Linked
<1> QED
  BY <1>1, <1>3, <1>4, <1>5 DEF Leading

Accepting(n, nf, s) ==
  /\ \A C : Bare(nf, C) /\ s \notin C => Bare(n, C)
  /\ \A F : Lax(nf, F) => Lax(n, F)
  /\ \A w \in 1 .. Len(nf) : n[w].final = nf[w].final

LEMMA AccSpares ==
  ASSUME NEW A \in SUBSET Nat, NEW nf, Good(nf, A), NEW s \in 1 .. Len(nf), NEW number \in A
  PROVE  Accepting([nf EXCEPT ![s].acc = number], nf, s)
<1> DEFINE n == [nf EXCEPT ![s].acc = number]
<1>1. /\ Len(n) = Len(nf) /\ \A t \in 1 .. Len(nf) :
             n[t].final = nf[t].final /\ n[t].on = nf[t].on /\ n[t].to = nf[t].to
  BY AccIs DEF Numbered
<1>2. \A t \in 1 .. Len(nf) : t # s => n[t] = nf[t]
  BY DEF Good
<1> HIDE DEF n
<1>3. ASSUME NEW C, Bare(nf, C), s \notin C PROVE Bare(n, C)
  BY <1>1, <1>2, <1>3 DEF Bare
<1>4. ASSUME NEW F, Lax(nf, F) PROVE Lax(n, F)
  BY <1>1, <1>4 DEF Lax, Lacks
<1> QED
  BY <1>1, <1>3, <1>4 DEF n, Accepting

\* What add_accept() and the head's accepting do beside that: the end of the
\* machine gets its transition or needs none.
Closes(n, nf, m) ==
  /\ \A C : Bare(nf, C) /\ nf[m].final \notin C => Bare(n, C) /\ n[m].final \notin C
  /\ \A F : Lax(nf, F) => Lax(n, F \ {nf[m].final})
  /\ \A w \in 1 .. Len(nf) : w # m => n[w].final = nf[w].final

LEMMA AddAcceptCloses ==
  ASSUME NEW A \in SUBSET Nat, NIL \in A, NEW nf, NEW m, Good(nf, A), Ready(nf, m),
         NEW number \in A
  PROVE  Closes(AddAccept(nf, m, number), nf, m)
<1> DEFINE e == nf[m].final
           s == Len(nf) + 1
<1>1. m \in 1 .. Len(nf) /\ e \in 1 .. Len(nf) /\ Room(nf[e]) /\ Len(nf) \in Nat
  BY GoodElement DEF Ready, Fits
<1>2. CASE nf[e].on = EPS
  <2> DEFINE n == [nf EXCEPT ![e].acc = number]
  <2>1. /\ \A C : Bare(nf, C) /\ e \notin C => Bare(n, C)
        /\ \A F : Lax(nf, F) => Lax(n, F)
        /\ \A w \in 1 .. Len(nf) : n[w].final = nf[w].final
    <3>1. Accepting(n, nf, e)
      BY <1>1, AccSpares
    <3> HIDE DEF n
    <3> QED
      BY <3>1 DEF Accepting
  <2>2. n = AddAccept(nf, m, number)
    BY <1>2 DEF AddAccept
  <2>3. Numbered(n, nf, A)
    BY <1>1, AccIs
  <2> HIDE DEF n
  <2>4. ASSUME NEW F, Lax(nf, F) PROVE Lax(n, F \ {e})
    <3>1. Lax(n, F) /\ ~Lacks(n[e])
      BY <1>1, <1>2, <2>1, <2>3, <2>4 DEF Numbered, Lacks
    <3> QED
      BY <3>1 DEF Lax
  <2> QED
    BY <1>1, <2>1, <2>2, <2>4 DEF Closes
<1>3. CASE nf[e].on # EPS
  <2> DEFINE b == MkState(nf, EPS)
             c == [b EXCEPT ![s].acc = number]
             n == Link(c, m, s)
  <2>1. Added(b, nf, EPS, A)
    BY MkStateIs DEF Syms
  <2>2. /\ \A C : Bare(nf, C) => Bare(b, C)
        /\ \A F : Lax(nf, F) => Lax(b, F)
        /\ \A w \in 1 .. Len(nf) : b[w].final = nf[w].final
    BY <2>1, AddedSpares DEF Adding
  <2>3. Good(b, A) /\ Len(b) = s /\ b[s].final = s /\ b[e] = nf[e]
    BY <1>1, <2>1 DEF Added
  <2> HIDE DEF b
  <2>4. s \in 1 .. Len(b) /\ s \in Nat
    BY <1>1, <2>3
  <2>5. /\ \A C : Bare(b, C) /\ s \notin C => Bare(c, C)
        /\ \A F : Lax(b, F) => Lax(c, F)
        /\ \A w \in 1 .. Len(b) : c[w].final = b[w].final
        /\ Numbered(c, b, A)
    <3>1. Accepting(c, b, s)
      BY <2>3, <2>4, AccSpares
    <3>2. Numbered(c, b, A)
      BY <2>3, <2>4, AccIs
    <3> HIDE DEF c
    <3> QED
      BY <3>1, <3>2 DEF Accepting
  <2> HIDE DEF c
  <2>6. /\ Good(c, A) /\ Len(c) = s /\ m \in 1 .. s /\ c[m].final = e /\ c[s].final = s
        /\ Room(c[e]) /\ e \in 1 .. s
    BY <1>1, <2>2, <2>3, <2>4, <2>5 DEF Numbered, Room
  <2> HIDE DEF s, e
  <2>7. Linked(n, c, m, s, c[m].final, A)
    BY <2>4, <2>3, <2>6, LinkIs
  <2> HIDE DEF n
  <2>8. /\ \A C : Bare(c, C) /\ s \notin C => Bare(n, C)
        /\ \A F : Lax(c, F) => Lax(n, F \ {e})
        /\ \A w \in 1 .. s : w # m => n[w].final = c[w].final
        /\ n[m].final = s
    <3>1. Leading(n, c, m, s)
      BY <2>6, <2>7, LinkedSpares
    <3> QED
      BY <2>6, <3>1 DEF Leading
  <2>9. ASSUME NEW C, Bare(nf, C) PROVE s \notin C
    BY <1>1, <2>9 DEF Bare, s
  <2>10. n = AddAccept(nf, m, number)
    BY <1>3 DEF AddAccept, n, c, b, s, e
  <2>11. \A w \in 1 .. Len(nf) : w \in 1 .. s
    BY <1>1 DEF s
  <2>12. \A C : Bare(nf, C) /\ nf[m].final \notin C => Bare(n, C) /\ n[m].final \notin C
    BY <2>2, <2>5, <2>8, <2>9
  <2>13. \A F : Lax(nf, F) => Lax(n, F \ {nf[m].final})
    BY <2>2, <2>5, <2>8 DEF e
  <2>14. \A w \in 1 .. Len(nf) : w # m => n[w].final = nf[w].final
    BY <2>2, <2>3, <2>5, <2>8, <2>11
  <2> QED
    BY <2>10, <2>12, <2>13, <2>14 DEF Closes
<1> QED
  BY <1>2, <1>3

LEMMA ConditionsAre == Len(Exclusive) \in Nat /\ Conditions = 1 .. Len(Exclusive)
<1>1. Exclusive \in Seq(BOOLEAN)
  BY NfaAssumption, Zenon
<1> QED
  BY <1>1 DEF Conditions

\* mkbranch()
LEMMA MkBranchIs ==
  ASSUME NEW A \in SUBSET Nat, NIL \in A, NEW nf, Good(nf, A),
         NEW first \in 1 .. Len(nf), NEW second \in 1 .. Len(nf)
  PROVE  LET r == MkBranch(nf, first, second)
         IN  /\ Good(r.n, A) /\ Len(r.n) = Len(nf) + 1 /\ r.m = Len(nf) + 1
             /\ \A t \in 1 .. Len(nf) : r.n[t] = nf[t]
             /\ r.n[r.m].on = EPS /\ r.n[r.m].acc = NIL
<1> DEFINE s == Len(nf) + 1
           b == MkState(nf, EPS)
           c == MkXtion(b, s, first)
           d == MkXtion(c, s, second)
<1>1. Added(b, nf, EPS, A)
  BY MkStateIs DEF Syms
<1> HIDE DEF b
<1>2. /\ Good(b, A) /\ Len(b) = s /\ s \in Nat /\ b[s].on = EPS /\ Len(b[s].to) = 0
      /\ Room(b[s]) /\ s \in 1 .. s /\ first \in 1 .. s /\ second \in 1 .. s
      /\ b[s].acc = NIL
      /\ \A t \in 1 .. Len(nf) : b[t] = nf[t] /\ t # s /\ t \in 1 .. s
  BY <1>1 DEF Added, Room, Slots
<1>3. Pushed(c, b, s, first, A)
  BY <1>2, MkXtionIs
<1> HIDE DEF c
<1>4. /\ Good(c, A) /\ Len(c) = s /\ Room(c[s]) /\ c[s].on = EPS /\ c[s].acc = NIL
      /\ \A t \in 1 .. Len(nf) : c[t] = nf[t]
  BY <1>2, <1>3 DEF Pushed, Room, Slots
<1>5. Pushed(d, c, s, second, A)
  BY <1>2, <1>4, MkXtionIs
<1> HIDE DEF d
<1>6. MkBranch(nf, first, second) = [n |-> d, m |-> s]
  BY DEF MkBranch, d, c, b
<1>7. /\ Good(d, A) /\ Len(d) = s /\ d[s].on = EPS /\ d[s].acc = NIL
      /\ \A t \in 1 .. Len(nf) : d[t] = nf[t]
  BY <1>2, <1>4, <1>5 DEF Pushed
<1> QED
  BY <1>6, <1>7

\* The states of the start conditions.
CondSet(z) == [Conditions -> [set : 1 .. z, bol : 1 .. z]]

LEMMA CondSetGrows ==
  ASSUME NEW y \in Nat, NEW z \in Nat, y <= z, NEW c \in CondSet(y)
  PROVE  c \in CondSet(z)
<1>1. 1 .. y \subseteq 1 .. z
  OBVIOUS
<1> QED
  BY <1>1 DEF CondSet

\* The states that rules without '^' are hung below are different ones, and
\* bare; the rules are finished.
Sets(c) == {c[i].set : i \in Conditions}
Distinct(c) == \A i, j \in Conditions : c[i].set = c[j].set => i = j
Rooted(nf, c) == Bare(nf, Sets(c)) /\ Distinct(c) /\ Lax(nf, {})

\* A new state on nothing after the others.
Topped(n, nf, s) ==
  /\ Len(nf) \in Nat /\ s = Len(nf) + 1 /\ Len(n) = s
  /\ \A t \in 1 .. Len(nf) : n[t] = nf[t]
  /\ n[s].on = EPS /\ n[s].acc = NIL

LEMMA ToppedBare ==
  ASSUME NEW A, NEW nf, Good(nf, A), NEW n, NEW s, Topped(n, nf, s), NEW C, Bare(nf, C)
  PROVE  Bare(n, C \cup {s}) /\ Bare(n, C) /\ s \notin C
<1>1. \A t \in 1 .. Len(nf) : \A k \in DOMAIN nf[t].to : nf[t].to[k] # s
  BY DEF Good, Fits, Topped
<1>2. C \subseteq 1 .. Len(nf) /\ s \notin C /\ C \cup {s} \subseteq 1 .. Len(n)
  <2>1. C \subseteq 1 .. Len(nf)
    BY DEF Bare
  <2>2. Len(nf) \in Nat /\ s = Len(nf) + 1 /\ Len(n) = s
    BY DEF Topped
  <2>3. s \notin 1 .. Len(nf) /\ s \in 1 .. s /\ 1 .. Len(nf) \subseteq 1 .. s
    BY ONLY <2>2
  <2> QED
    BY ONLY <2>1, <2>2, <2>3, Zenon
<1>3. \A p \in C \cup {s} : n[p].on = EPS /\ n[p].acc = NIL
  BY <1>2 DEF Bare, Topped
<1>4. \A t \in 1 .. Len(n) : n[t].on # EPS => t \in 1 .. Len(nf) /\ n[t] = nf[t]
  BY DEF Topped
<1>5. ASSUME NEW t \in 1 .. Len(n), n[t].on # EPS, NEW k \in DOMAIN n[t].to
      PROVE  n[t].to[k] \notin C \cup {s}
  BY <1>1, <1>4, <1>5 DEF Bare
<1> QED
  BY <1>2, <1>3, <1>5 DEF Bare

LEMMA BranchRooted ==
  ASSUME NEW A, NEW nf, Good(nf, A), NEW n, NEW s, Topped(n, nf, s), NEW c \in CondSet(Len(nf)),
         Rooted(nf, c), NEW i \in Conditions, NEW part \in {"set", "bol"}
  PROVE  Rooted(n, [c EXCEPT ![i][part] = s])
<1> DEFINE d == [c EXCEPT ![i][part] = s]
<1>1. Bare(n, Sets(c) \cup {s}) /\ Bare(n, Sets(c)) /\ s \notin Sets(c)
  BY ToppedBare DEF Rooted
<1>2. Lax(n, {})
  BY DEF Rooted, Lax, Lacks, Topped
<1>3. CASE part = "bol"
  <2>1. \A j \in Conditions : d[j].set = c[j].set
    BY <1>3 DEF CondSet
  <2> HIDE DEF d
  <2>2. Sets(d) = Sets(c) /\ Distinct(d)
    BY <2>1 DEF Sets, Distinct, Rooted
  <2> QED
    BY <1>1, <1>2, <2>2 DEF Rooted, d
<1>4. CASE part = "set"
  <2>1. d[i].set = s /\ \A j \in Conditions : j # i => d[j].set = c[j].set
    BY <1>4 DEF CondSet
  <2> HIDE DEF d
  <2>2. Sets(d) \subseteq Sets(c) \cup {s}
    BY <2>1 DEF Sets
  <2>3. Distinct(d)
    BY <1>1, <2>1 DEF Sets, Distinct, Rooted
  <2>4. Bare(n, Sets(d))
    BY <1>1, <2>2 DEF Bare
  <2> QED
    BY <1>2, <2>3, <2>4 DEF Rooted, d
<1> QED
  BY <1>3, <1>4

LEMMA BranchedIs ==
  ASSUME NEW A \in SUBSET Nat, NIL \in A, NEW nf, Good(nf, A), NEW m \in 1 .. Len(nf),
         NEW part \in {"set", "bol"}, NEW cs, conds \in CondSet(Len(nf)), Rooted(nf, conds)
  PROVE  LET r == Branched(nf, m, part, cs)
         IN  /\ Good(r.n, A) /\ r.conds \in CondSet(Len(r.n)) /\ Len(nf) <= Len(r.n)
             /\ Rooted(r.n, r.conds)
<1> DEFINE L == Len(Exclusive)
           init == [n |-> nf, conds |-> conds]
           next(i, before) ==
             LET branch == MkBranch(before.n, before.conds[i][part], m)
             IN  IF i \in cs
                 THEN [n |-> branch.n, conds |-> [before.conds EXCEPT ![i][part] = branch.m]]
                 ELSE before
           b[i \in 0 .. L] == IF i = 0 THEN init ELSE next(i, b[i - 1])
           S == {t \in [n : Seq(NfaState), conds : [Conditions -> [set : Nat, bol : Nat]]] :
                   /\ Good(t.n, A) /\ Len(nf) <= Len(t.n) /\ t.conds \in CondSet(Len(t.n))
                   /\ Rooted(t.n, t.conds)}
           G == [q \in (0 .. L) \X S |-> next(q[1], q[2])]
<1>1. L \in Nat /\ Conditions = 1 .. L /\ Len(nf) \in Nat /\ nf \in Seq(NfaState)
  BY ConditionsAre DEF Good
<1>i. L \in Int /\ 0 \in Int /\ 0 <= L
  BY <1>1
<1>2. init \in S
  <2>1. conds \in [Conditions -> [set : Nat, bol : Nat]]
    BY <1>1 DEF CondSet
  <2> QED
    BY <1>1, <2>1
<1>3. ASSUME NEW i \in 1 .. L, NEW t \in S PROVE next(i, t) \in S
  <2>1. CASE i \notin cs
    BY <2>1
  <2>2. CASE i \in cs
    <3> DEFINE branch == MkBranch(t.n, t.conds[i][part], m)
               c == [t.conds EXCEPT ![i][part] = branch.m]
    <3>1. /\ Good(t.n, A) /\ Len(nf) <= Len(t.n) /\ Len(t.n) \in Nat /\ m \in 1 .. Len(t.n)
          /\ t.conds \in CondSet(Len(t.n)) /\ i \in Conditions
      BY <1>1 DEF Good
    <3>2. t.conds[i] \in [set : 1 .. Len(t.n), bol : 1 .. Len(t.n)]
      BY <3>1 DEF CondSet
    <3>3. t.conds[i][part] \in 1 .. Len(t.n)
      <4>1. t.conds[i].set = t.conds[i]["set"] /\ t.conds[i].bol = t.conds[i]["bol"]
        BY Zenon
      <4>2. t.conds[i].set \in 1 .. Len(t.n) /\ t.conds[i].bol \in 1 .. Len(t.n)
        BY <3>2
      <4> QED
        BY <4>1, <4>2
    <3>4. /\ Good(branch.n, A) /\ Len(branch.n) = Len(t.n) + 1 /\ branch.m = Len(t.n) + 1
          /\ Topped(branch.n, t.n, branch.m)
      <4>2. PICK y : y = t.conds[i][part]
        OBVIOUS
      <4>1. y \in 1 .. Len(t.n) /\ m \in 1 .. Len(t.n) /\ Good(t.n, A) /\ Len(t.n) \in Nat
        BY <3>1, <3>3, <4>2
      <4>3. PICK r : r = MkBranch(t.n, y, m)
        OBVIOUS
      <4>4. /\ Good(r.n, A) /\ Len(r.n) = Len(t.n) + 1 /\ r.m = Len(t.n) + 1
            /\ \A u \in 1 .. Len(t.n) : r.n[u] = t.n[u]
            /\ r.n[r.m].on = EPS /\ r.n[r.m].acc = NIL
        BY ONLY <4>1, <4>3, A \in SUBSET Nat, NIL \in A, MkBranchIs
      <4>5. Topped(r.n, t.n, r.m)
        BY <4>1, <4>4 DEF Topped
      <4>6. branch = r
        BY <4>2, <4>3
      <4> QED
        BY <4>4, <4>5, <4>6
    <3> HIDE DEF branch
    <3>5. c \in CondSet(Len(branch.n))
      <4>1. t.conds \in CondSet(Len(branch.n))
        BY <3>1, <3>4, CondSetGrows
      <4>2. branch.m \in 1 .. Len(branch.n)
        BY <3>1, <3>4
      <4> QED
        BY <3>1, <4>1, <4>2 DEF CondSet
    <3>6. c \in [Conditions -> [set : Nat, bol : Nat]]
      BY <3>5 DEF CondSet
    <3>7. branch.n \in Seq(NfaState) /\ Len(nf) <= Len(branch.n)
      BY <1>1, <3>1, <3>4 DEF Good
    <3>8. next(i, t) = [n |-> branch.n, conds |-> c]
      BY <2>2 DEF branch
    <3>9. Rooted(branch.n, c)
      BY <3>1, <3>4, BranchRooted
    <3> HIDE DEF c, next
    <3> QED
      BY <3>4, <3>5, <3>6, <3>7, <3>8, <3>9
  <2> QED
    BY <2>1, <2>2
<1> HIDE DEF S, next, init, L
<1>4. b = [i \in 0 .. L |-> IF i = 0 THEN init ELSE next(i, b[i - 1])]
  <2>1. PICK f : Recursion(f, 0, L, init, G)
    BY <1>i, RecursionExists
  <2>2. f[0] \in S /\ f[0] = init
    <3> HIDE DEF G
    <3> QED
      BY <1>1, <1>2, <2>1 DEF Recursion
  <2>3. ASSUME NEW i \in 1 .. L, f[i - 1] \in S PROVE f[i] = next(i, f[i - 1]) /\ f[i] \in S
    <3>1. f[i] = G[<<i, f[i - 1]>>]
      <4>1. i \in 0 .. L /\ i # 0
        BY <1>1
      <4> HIDE DEF G
      <4> QED
        BY <2>1, <4>1 DEF Recursion
    <3>2. G[<<i, f[i - 1]>>] = next(i, f[i - 1])
      BY <1>1, <2>3
    <3> QED
      BY <1>3, <2>3, <3>1, <3>2
  <2>4. \A i \in 0 + 1 .. L : f[i - 1] \in S => f[i] \in S
    BY <2>3
  <2>5. \A i \in 0 .. L : f[i] \in S
    BY <1>i, <2>2, <2>4, PassedOn
  <2>6. \A i \in 1 .. L : f[i] = next(i, f[i - 1])
    BY <1>1, <2>3, <2>5
  <2>7. f = [i \in 0 .. L |-> IF i = 0 THEN init ELSE next(i, f[i - 1])]
    <3>1. f = [i \in 0 .. L |-> f[i]]
      <4> HIDE DEF G
      <4> QED
        BY <2>1 DEF Recursion
    <3>2. ASSUME NEW i \in 0 .. L
          PROVE  f[i] = IF i = 0 THEN init ELSE next(i, f[i - 1])
      <4>1. CASE i = 0
        BY <2>2, <4>1
      <4>2. CASE i # 0
        <5>1. i \in 1 .. L
          BY <1>1, <4>2
        <5> QED
          BY <2>6, <4>2, <5>1
      <4> QED
        BY <4>1, <4>2
    <3> QED
      BY <3>1, <3>2
  <2> QED
    BY <2>7 DEF b
<1> HIDE DEF b
<1>5. b[0] \in S
  BY <1>1, <1>2, <1>4
<1>6. \A i \in 0 + 1 .. L : b[i - 1] \in S => b[i] \in S
  BY <1>1, <1>3, <1>4
<1>7. b[L] \in S
  <2>1. \A i \in 0 .. L : b[i] \in S
    BY <1>i, <1>5, <1>6, PassedOn
  <2> QED
    BY <1>i, <2>1
<1>8. Branched(nf, m, part, cs) = b[L]
  BY DEF Branched, b, next, init, L
<1> QED
  BY <1>7, <1>8 DEF S

\* The states that the start conditions begin with.
StartStates ==
  LET n[i \in 0 .. 2 * Len(Exclusive)] == IF i = 0 THEN <<>> ELSE MkState(n[i - 1], EPS)
  IN  n[2 * Len(Exclusive)]

LEMMA StartStatesAre ==
  ASSUME NEW A \in SUBSET Nat, NIL \in A
  PROVE  /\ Good(StartStates, A) /\ Len(StartStates) = 2 * Len(Exclusive)
         /\ \A t \in 1 .. Len(StartStates) : StartStates[t].on = EPS /\ StartStates[t].acc = NIL
<1> DEFINE L == 2 * Len(Exclusive)
           n[i \in 0 .. L] == IF i = 0 THEN <<>> ELSE MkState(n[i - 1], EPS)
           Blank(p) == \A t \in 1 .. Len(p) : p[t].on = EPS /\ p[t].acc = NIL
           S == {p \in Seq(NfaState) : Good(p, A) /\ Blank(p)}
           G == [q \in (0 .. L) \X S |-> MkState(q[2], EPS)]
<1>1. L \in Nat
  BY ConditionsAre
<1>i. L \in Int /\ 0 \in Int /\ 0 <= L
  BY <1>1
<1>2. <<>> \in S
  BY DEF Good
<1>3. ASSUME NEW p \in S PROVE MkState(p, EPS) \in S /\ Len(MkState(p, EPS)) = Len(p) + 1
  <2>1. Added(MkState(p, EPS), p, EPS, A)
    BY MkStateIs DEF Syms
  <2>2. Blank(MkState(p, EPS))
    <3>1. PICK q : q = MkState(p, EPS)
      OBVIOUS
    <3>2. \A t \in 1 .. Len(q) : t = Len(p) + 1 \/ t \in 1 .. Len(p)
      BY <2>1, <3>1 DEF Added
    <3> QED
      BY <2>1, <3>1, <3>2 DEF Added
  <2> HIDE DEF Blank
  <2> QED
    BY <2>1, <2>2 DEF Added, Good
<1> HIDE DEF S, L
<1>4. n = [i \in 0 .. L |-> IF i = 0 THEN <<>> ELSE MkState(n[i - 1], EPS)]
  <2>1. PICK f : Recursion(f, 0, L, <<>>, G)
    BY <1>i, RecursionExists
  <2>2. f[0] \in S /\ f[0] = <<>>
    <3> HIDE DEF G
    <3> QED
      BY <1>1, <1>2, <2>1 DEF Recursion
  <2>3. ASSUME NEW i \in 1 .. L, f[i - 1] \in S PROVE f[i] = MkState(f[i - 1], EPS) /\ f[i] \in S
    <3>1. f[i] = G[<<i, f[i - 1]>>]
      <4>1. i \in 0 .. L /\ i # 0
        BY <1>1
      <4> HIDE DEF G
      <4> QED
        BY <2>1, <4>1 DEF Recursion
    <3>2. G[<<i, f[i - 1]>>] = MkState(f[i - 1], EPS)
      BY <1>1, <2>3
    <3> QED
      BY <1>3, <2>3, <3>1, <3>2
  <2>4. \A i \in 0 + 1 .. L : f[i - 1] \in S => f[i] \in S
    BY <2>3
  <2>5. \A i \in 0 .. L : f[i] \in S
    BY <1>i, <2>2, <2>4, PassedOn
  <2>6. \A i \in 1 .. L : f[i] = MkState(f[i - 1], EPS)
    BY <1>1, <2>3, <2>5
  <2>7. f = [i \in 0 .. L |-> IF i = 0 THEN <<>> ELSE MkState(f[i - 1], EPS)]
    <3>1. f = [i \in 0 .. L |-> f[i]]
      <4> HIDE DEF G
      <4> QED
        BY <2>1 DEF Recursion
    <3>2. ASSUME NEW i \in 0 .. L
          PROVE  f[i] = IF i = 0 THEN <<>> ELSE MkState(f[i - 1], EPS)
      <4>1. CASE i = 0
        BY <2>2, <4>1
      <4>2. CASE i # 0
        <5>1. i \in 1 .. L
          BY <1>1, <4>2
        <5> QED
          BY <2>6, <4>2, <5>1
      <4> QED
        BY <4>1, <4>2
    <3> QED
      BY <3>1, <3>2
  <2> QED
    BY <2>7 DEF n
<1> HIDE DEF n
<1> DEFINE T == {q \in Nat \X S : Len(q[2]) = q[1]}
           g == [i \in 0 .. L |-> <<i, n[i]>>]
<1>5. g[0] \in T
  BY <1>1, <1>2, <1>4
<1>6. ASSUME NEW i \in 0 + 1 .. L, g[i - 1] \in T PROVE g[i] \in T
  <2>1. i - 1 \in 0 .. L /\ i \in 0 .. L /\ i # 0 /\ i \in Nat
    BY <1>1
  <2>2. g[i - 1] = <<i - 1, n[i - 1]>> /\ g[i] = <<i, n[i]>>
    BY <2>1
  <2> HIDE DEF g
  <2>3. n[i - 1] \in S /\ Len(n[i - 1]) = i - 1
    BY <1>6, <2>2
  <2>4. n[i] = MkState(n[i - 1], EPS)
    BY <1>4, <2>1
  <2>5. n[i] \in S /\ Len(n[i]) = i
    BY <1>3, <2>1, <2>3, <2>4
  <2> QED
    BY <2>1, <2>2, <2>5
<1>7. g[L] \in T /\ g[L] = <<L, n[L]>>
  <2>1. L \in 0 .. L
    BY <1>1
  <2> HIDE DEF T
  <2>2. g[L] = <<L, n[L]>>
    BY <2>1
  <2> HIDE DEF g
  <2> QED
    BY <1>1, <1>5, <1>6, <2>1, <2>2, PassedOn
<1>8. StartStates = n[L]
  BY DEF StartStates, n, L
<1> HIDE DEF g
<1>9. n[L] \in S /\ Len(n[L]) = L
  BY <1>7
<1>10. Good(n[L], A) /\ Blank(n[L])
  <2> HIDE DEF Blank
  <2> QED
    BY <1>9 DEF S
<1> QED
  BY <1>8, <1>9, <1>10 DEF L

----------------------------------------------------------------------------
(* The invariant.                                                          *)

Accs == {NIL} \cup {id + h : id \in 1 .. Len(budget) + 1, h \in {0, YY_TRAILING_HEAD_MASK}}

\* The machines on the stack lie side by side, up to the end of the array.
StackOK(nf, s) ==
  /\ s \in Seq(Range(s))
  /\ \A i \in 1 .. Len(s) :
       /\ Machine(nf, s[i].m, nf[s[i].m].first, nf[s[i].m].last)
       /\ Closed(nf, nf[s[i].m].first, nf[s[i].m].last)
  /\ \A i \in 1 .. Len(s) - 1 : nf[s[i].m].last + 1 = nf[s[i + 1].m].first
  /\ \A i, j \in 1 .. Len(s) : i < j => nf[s[i].m].last < nf[s[j].m].first
  /\ Len(s) > 0 => nf[s[Len(s)].m].last = Len(nf)

\* The bare states lie below the machines, and only the ends of the machines
\* may be without a transition.
Below(nf, s, C) == \A p \in C, j \in 1 .. Len(s) : p < nf[s[j].m].first
Finals(nf, s) == {nf[s[j].m].final : j \in 1 .. Len(s)}
Hung(nf, s, C) == Bare(nf, C) /\ Below(nf, s, C) /\ Lax(nf, Finals(nf, s))

IInv ==
  /\ Good(nfas, Accs) /\ StackOK(nfas, stk) /\ conds \in CondSet(Len(nfas))
  /\ budget \in Budgets /\ rules \in Seq(Range(rules)) /\ pc \in {"rule", "trail", "parsed"}
  /\ pc # "parsed" => Len(rules) <= Len(budget)
  /\ stk # <<>> => RuleId \in DOMAIN budget
  /\ pc = "trail" => stk # <<>>
  /\ pc = "parsed" => stk = <<>>
  /\ Hung(nfas, stk, Sets(conds)) /\ Distinct(conds)

LEMMA SeqRange == ASSUME NEW V, NEW s \in Seq(V) PROVE s \in Seq(Range(s))
<1>1. \A i \in 1 .. Len(s) : s[i] \in Range(s)
  BY DEF Range
<1> QED
  BY <1>1

LEMMA SeqFacts ==
  ASSUME NEW V, NEW s \in Seq(V)
  PROVE  /\ Len(s) \in Nat /\ DOMAIN s = 1 .. Len(s)
         /\ \A W : V \subseteq W => s \in Seq(W)
         /\ \A x : Append(s, x) # <<>>
<1>1. ASSUME NEW x PROVE Append(s, x) # <<>>
  <2>1. s \in Seq(V \cup {x})
    OBVIOUS
  <2> QED
    BY <2>1
<1> QED
  BY <1>1

LEMMA ConcatFacts ==
  ASSUME NEW V, NEW s \in Seq(V), NEW t \in Seq(V)
  PROVE  s \o t \in Seq(V) /\ Len(s \o t) = Len(s) + Len(t)
OBVIOUS

\* Where the last k machines begin.
Base(nf, s, k) == IF k = 0 THEN Len(nf) + 1 ELSE nf[s[Len(s) + 1 - k].m].first

\* They are replaced by one, m, that begins at a; the l machines below stay.
KeptStack(n, nf, s, t, l, a, m) ==
  /\ Len(s) \in Nat /\ l \in 0 .. Len(s) /\ t \in Seq(Range(t)) /\ Len(t) = l + 1
  /\ t[l + 1].m = m /\ a \in Int
  /\ Machine(n, m, a, Len(n)) /\ Closed(n, a, Len(n)) /\ n[m].first = a /\ n[m].last = Len(n)
  /\ \A i \in 1 .. l :
       /\ t[i] = s[i] /\ nf[s[i].m].last < a
       /\ Machine(n, s[i].m, nf[s[i].m].first, nf[s[i].m].last)
       /\ Closed(n, nf[s[i].m].first, nf[s[i].m].last)
       /\ n[s[i].m].first = nf[s[i].m].first /\ n[s[i].m].last = nf[s[i].m].last
       /\ n[s[i].m].final = nf[s[i].m].final

LEMMA StackKept ==
  ASSUME NEW A \in SUBSET Nat, NEW nf, NEW s, NEW k \in 0 .. Len(s), NEW r, NEW words,
         Good(nf, A), StackOK(nf, s), Made(r, nf, Base(nf, s, k), A)
  PROVE  KeptStack(r.n, nf, s, Append(SubSeq(s, 1, Len(s) - k), [m |-> r.m, words |-> words]),
                   Len(s) - k, Base(nf, s, k), r.m)
<1> DEFINE x == [m |-> r.m, words |-> words]
           u == SubSeq(s, 1, Len(s) - k)
           t == Append(u, x)
           a == Base(nf, s, k)
           n == r.n
           l == Len(s) - k
<1>1. s \in Seq(Range(s)) /\ Len(s) \in Nat /\ Len(nf) \in Nat /\ l \in 0 .. Len(s) /\ l \in Nat
  BY DEF StackOK, Good
<1>2. /\ OnTop(n, r.m, a, A) /\ Keeps(n, nf, a)
  BY DEF Made
<1>3. u \in Seq(Range(s)) /\ Len(u) = l /\ \A i \in 1 .. l : u[i] = s[i]
  <2>1. \A i \in 1 .. l : i \in 1 .. Len(s)
    BY <1>1
  <2> QED
    BY <1>1, <2>1
<1>4. /\ t \in Seq(Range(s) \cup {x}) /\ Len(t) = l + 1 /\ t[l + 1] = x
      /\ \A i \in 1 .. l : t[i] = s[i]
  <2>1. u \in Seq(Range(s) \cup {x}) /\ x \in Range(s) \cup {x}
    BY <1>3
  <2> HIDE DEF u, x
  <2>2. t \in Seq(Range(s) \cup {x}) /\ Len(t) = Len(u) + 1 /\ t[Len(u) + 1] = x
        /\ \A i \in 1 .. Len(u) : t[i] = u[i]
    BY <2>1
  <2> QED
    BY <1>3, <2>2
<1>5. t \in Seq(Range(t))
  <2> HIDE DEF t
  <2> QED
    BY <1>4, SeqRange
<1>6. x.m = r.m
  OBVIOUS
<1> HIDE DEF t, x, u
<1>7. /\ Machine(n, r.m, a, Len(n)) /\ Closed(n, a, Len(n)) /\ a \in Int
      /\ n[r.m].first = a /\ n[r.m].last = Len(n)
  BY <1>2 DEF OnTop, Machine, Shape, Keeps
<1>8. ASSUME NEW i \in 1 .. l
      PROVE  /\ nf[s[i].m].last < a
             /\ Machine(n, s[i].m, nf[s[i].m].first, nf[s[i].m].last)
             /\ Closed(n, nf[s[i].m].first, nf[s[i].m].last)
             /\ n[s[i].m].first = nf[s[i].m].first /\ n[s[i].m].last = nf[s[i].m].last
             /\ n[s[i].m].final = nf[s[i].m].final
  <2>1. /\ i \in 1 .. Len(s) /\ Machine(nf, s[i].m, nf[s[i].m].first, nf[s[i].m].last)
        /\ Closed(nf, nf[s[i].m].first, nf[s[i].m].last)
    BY <1>1 DEF StackOK
  <2>2. nf[s[i].m].last < a
    <3>1. CASE k = 0
      BY <1>1, <2>1, <3>1 DEF Base, Machine, Shape
    <3>2. CASE k # 0
      <4>1. Len(s) + 1 - k \in 1 .. Len(s) /\ i < Len(s) + 1 - k
        BY <1>1, <3>2
      <4> QED
        BY <2>1, <3>2, <4>1 DEF Base, StackOK
    <3> QED
      BY <3>1, <3>2
  <2>3. /\ Machine(n, s[i].m, nf[s[i].m].first, nf[s[i].m].last)
        /\ Closed(n, nf[s[i].m].first, nf[s[i].m].last)
    BY <1>2, <2>1, <2>2, MachineBelow
  <2>4. n[s[i].m] = nf[s[i].m]
    <3>1. s[i].m \in 1 .. a - 1
      <4>1. PICK p, f, y : p = s[i].m /\ f = nf[p].first /\ y = nf[p].last
        OBVIOUS
      <4>2. p \in f .. y /\ f \in 1 .. y /\ y \in 1 .. Len(nf) /\ y < a /\ a \in Int
        BY <1>7, <2>1, <2>2, <4>1 DEF Machine, Shape
      <4>3. p \in 1 .. a - 1
        BY ONLY <4>2
      <4> QED
        BY <4>1, <4>3
    <3> QED
      BY <1>2, <3>1 DEF Keeps
  <2> QED
    BY <2>2, <2>3, <2>4 DEF Machine, Shape
<1> HIDE DEF a, n, l
<1> QED
  BY <1>1, <1>4, <1>5, <1>6, <1>7, <1>8 DEF KeptStack, t, x, u, a, n, l

LEMMA StackReduced ==
  ASSUME NEW A \in SUBSET Nat, NEW nf, NEW s, NEW k \in 0 .. Len(s), NEW r, NEW words,
         Good(nf, A), StackOK(nf, s), Made(r, nf, Base(nf, s, k), A)
  PROVE  StackOK(r.n, Append(SubSeq(s, 1, Len(s) - k), [m |-> r.m, words |-> words]))
<1> DEFINE x == [m |-> r.m, words |-> words]
           u == SubSeq(s, 1, Len(s) - k)
           t == Append(u, x)
           a == Base(nf, s, k)
           n == r.n
           l == Len(s) - k
<1>1. s \in Seq(Range(s)) /\ Len(s) \in Nat /\ Len(nf) \in Nat /\ l \in 0 .. Len(s) /\ l \in Nat
  BY DEF StackOK, Good
<1>2. KeptStack(n, nf, s, t, l, a, r.m)
  BY StackKept
<1> HIDE DEF t, x, u
<1>4. /\ Len(t) = l + 1 /\ t[l + 1].m = r.m
      /\ \A i \in 1 .. l : t[i] = s[i]
  BY <1>2 DEF KeptStack
<1>5. t \in Seq(Range(t))
  BY <1>2 DEF KeptStack
<1>7. /\ Machine(n, r.m, a, Len(n)) /\ Closed(n, a, Len(n)) /\ a \in Int
      /\ n[r.m].first = a /\ n[r.m].last = Len(n)
  BY <1>2 DEF KeptStack
<1>8. ASSUME NEW i \in 1 .. l
      PROVE  /\ nf[s[i].m].last < a
             /\ Machine(n, s[i].m, nf[s[i].m].first, nf[s[i].m].last)
             /\ Closed(n, nf[s[i].m].first, nf[s[i].m].last)
             /\ n[s[i].m].first = nf[s[i].m].first /\ n[s[i].m].last = nf[s[i].m].last
  BY <1>2 DEF KeptStack
<1> HIDE DEF a, n
<1>9. ASSUME NEW i \in 1 .. l + 1
      PROVE  /\ Machine(n, t[i].m, n[t[i].m].first, n[t[i].m].last)
             /\ Closed(n, n[t[i].m].first, n[t[i].m].last)
  <2>1. CASE i = l + 1
    BY <1>4, <1>7, <2>1
  <2>2. CASE i # l + 1
    <3>1. i \in 1 .. l
      BY <1>1, <2>2
    <3> QED
      BY <1>4, <1>8, <3>1
  <2> QED
    BY <2>1, <2>2
<1>10. ASSUME NEW i \in 1 .. l PROVE n[t[i].m].last + 1 = n[t[i + 1].m].first
  <2>0. t[i].m = s[i].m /\ n[t[i].m].last = nf[s[i].m].last
    BY <1>4, <1>8
  <2>1. CASE i = l
    <3>1. t[i + 1].m = r.m /\ n[t[i + 1].m].first = a
      BY <1>4, <1>7, <2>1
    <3>2. CASE k = 0
      <4>1. nf[s[i].m].last = Len(nf)
        BY <1>1, <2>1, <3>2 DEF StackOK
      <4> QED
        BY <2>0, <3>1, <3>2, <4>1 DEF a, Base
    <3>3. CASE k # 0
      <4>1. Len(s) + 1 - k = i + 1 /\ i \in 1 .. Len(s) - 1
        BY <1>1, <2>1, <3>3
      <4>2. nf[s[i].m].last + 1 = nf[s[i + 1].m].first
        BY <4>1 DEF StackOK
      <4> QED
        BY <2>0, <3>1, <3>3, <4>1, <4>2 DEF a, Base
    <3> QED
      BY <3>2, <3>3
  <2>2. CASE i # l
    <3>1. i + 1 \in 1 .. l /\ i \in 1 .. Len(s) - 1
      BY <1>1, <2>2
    <3>2. n[t[i + 1].m].first = nf[s[i + 1].m].first
      BY <1>4, <1>8, <3>1
    <3> QED
      BY <2>0, <3>1, <3>2 DEF StackOK
  <2> QED
    BY <2>1, <2>2
<1>11. ASSUME NEW i \in 1 .. l + 1, NEW j \in 1 .. l + 1, i < j
       PROVE  n[t[i].m].last < n[t[j].m].first
  <2>1. i \in 1 .. l /\ i \in 1 .. Len(s)
    BY <1>1, <1>11
  <2>2. n[t[i].m].last = nf[s[i].m].last /\ nf[s[i].m].last < a
    BY <1>4, <1>8, <2>1
  <2>3. CASE j = l + 1
    BY <1>4, <1>7, <2>2, <2>3
  <2>4. CASE j # l + 1
    <3>1. j \in 1 .. l /\ j \in 1 .. Len(s)
      BY <1>1, <2>4
    <3>2. n[t[j].m].first = nf[s[j].m].first
      BY <1>4, <1>8, <3>1
    <3> QED
      BY <1>11, <2>1, <2>2, <3>1, <3>2 DEF StackOK
  <2> QED
    BY <2>3, <2>4
<1>12. n[t[Len(t)].m].last = Len(n)
  BY <1>4, <1>7
<1>13. StackOK(n, t)
  <2>1. Len(t) - 1 = l
    BY <1>1, <1>4
  <2> QED
    BY <1>4, <1>5, <1>9, <1>10, <1>11, <1>12, <2>1 DEF StackOK
<1> QED
  BY <1>13 DEF n, t, u, x

LEMMA HungReduced ==
  ASSUME NEW A \in SUBSET Nat, NEW nf, NEW s, NEW k \in 0 .. Len(s), NEW r, NEW words,
         Good(nf, A), StackOK(nf, s), Made(r, nf, Base(nf, s, k), A), NEW C, Hung(nf, s, C)
  PROVE  Hung(r.n, Append(SubSeq(s, 1, Len(s) - k), [m |-> r.m, words |-> words]), C)
<1> DEFINE l == Len(s) - k
           n == r.n
<1>1. PICK t, a : /\ t = Append(SubSeq(s, 1, Len(s) - k), [m |-> r.m, words |-> words])
                  /\ a = Base(nf, s, k)
  OBVIOUS
<1>2. KeptStack(n, nf, s, t, l, a, r.m)
  BY <1>1, StackKept
<1>3. /\ Len(nf) \in Nat /\ Len(n) \in Nat /\ Len(nf) <= Len(n) /\ a \in 1 .. Len(nf) + 1
      /\ \A i \in 1 .. a - 1 : n[i] = nf[i]
  BY <1>1 DEF Made, Keeps
<1>4. /\ Len(s) \in Nat /\ l \in 0 .. Len(s) /\ Len(t) = l + 1 /\ t[l + 1].m = r.m
      /\ Machine(n, r.m, a, Len(n)) /\ Closed(n, a, Len(n)) /\ n[r.m].first = a
      /\ \A i \in 1 .. l : /\ t[i] = s[i] /\ n[s[i].m].first = nf[s[i].m].first
                          /\ n[s[i].m].final = nf[s[i].m].final
  BY <1>2 DEF KeptStack
<1> HIDE DEF n
<1>5. C \subseteq 1 .. a - 1
  <2>1. ASSUME NEW p \in C PROVE p \in 1 .. Len(nf) /\ p < a
    <3>1. p \in 1 .. Len(nf)
      BY DEF Hung, Bare
    <3>2. CASE k = 0
      BY <1>1, <1>3, <3>1, <3>2 DEF Base
    <3>3. CASE k # 0
      <4>1. Len(s) + 1 - k \in 1 .. Len(s)
        BY <1>4, <3>3
      <4> QED
        BY <1>1, <3>1, <3>3, <4>1 DEF Base, Hung, Below
    <3> QED
      BY <3>2, <3>3
  <2> QED
    BY <1>3, <2>1
<1>6. Bare(n, C)
  <2>1. C \subseteq 1 .. Len(n)
    BY <1>3, <1>5
  <2>2. \A p \in C : n[p].on = EPS /\ n[p].acc = NIL
    BY <1>3, <1>5 DEF Hung, Bare
  <2>3. ASSUME NEW i \in 1 .. Len(n), n[i].on # EPS, NEW j \in DOMAIN n[i].to
        PROVE  n[i].to[j] \notin C
    <3>1. CASE i < a
      <4>1. n[i] = nf[i] /\ i \in 1 .. Len(nf)
        BY <1>3, <3>1
      <4> QED
        BY <2>3, <4>1 DEF Hung, Bare
    <3>2. CASE ~(i < a)
      <4>1. i \in a .. Len(n)
        BY <1>3, <3>2
      <4>2. n[i].to[j] \in a .. Len(n)
        BY <1>4, <4>1 DEF Closed
      <4> QED
        BY <1>3, <1>5, <4>2
    <3> QED
      BY <3>1, <3>2
  <2> QED
    BY <2>1, <2>2, <2>3 DEF Bare
<1>7. Below(n, t, C)
  <2>1. ASSUME NEW p \in C, NEW j \in 1 .. Len(t) PROVE p < n[t[j].m].first
    <3>1. CASE j = l + 1
      BY <1>3, <1>4, <1>5, <3>1
    <3>2. CASE j # l + 1
      <4>1. j \in 1 .. l /\ j \in 1 .. Len(s)
        BY <1>4, <3>2
      <4> QED
        BY <1>4, <4>1 DEF Hung, Below
    <3> QED
      BY <3>1, <3>2
  <2> QED
    BY <2>1 DEF Below
<1>8. Lax(n, Finals(n, t))
  <2>1. \A j \in 1 .. l : j \in 1 .. Len(t) /\ n[t[j].m].final = nf[s[j].m].final
    BY <1>4
  <2>2. l + 1 \in 1 .. Len(t)
    BY <1>4
  <2>3. ASSUME NEW i \in 1 .. Len(n), Lacks(n[i]) PROVE i \in Finals(n, t)
    <3>1. CASE i < a
      <4>1. n[i] = nf[i] /\ i \in 1 .. Len(nf)
        BY <1>3, <3>1
      <4>2. PICK j \in 1 .. Len(s) : i = nf[s[j].m].final
        BY <2>3, <4>1 DEF Hung, Lax, Finals
      <4>3. j \in 1 .. l
        <5>1. CASE k = 0
          BY <1>4, <5>1
        <5>2. CASE k # 0 /\ j > l
          <6>1. l + 1 \in 1 .. Len(s) /\ a = nf[s[l + 1].m].first
            BY <1>1, <1>4, <5>2 DEF Base
          <6>2. nf[s[j].m].first >= a
            <7>1. CASE j = l + 1
              BY <1>3, <6>1, <7>1
            <7>2. CASE j # l + 1
              <8>1. l + 1 < j
                <9>1. Len(s) \in Nat /\ l \in 0 .. Len(s) /\ j \in 1 .. Len(s)
                  BY <1>4
                <9> HIDE DEF l
                <9> QED
                  BY ONLY <5>2, <7>2, <9>1
              <8>2. nf[s[l + 1].m].last < nf[s[j].m].first
                BY <6>1, <8>1 DEF StackOK
              <8>3. Machine(nf, s[l + 1].m, nf[s[l + 1].m].first, nf[s[l + 1].m].last)
                BY <6>1 DEF StackOK
              <8>4. Machine(nf, s[j].m, nf[s[j].m].first, nf[s[j].m].last)
                BY DEF StackOK
              <8>5. /\ nf[s[l + 1].m].first \in 1 .. nf[s[l + 1].m].last
                    /\ nf[s[l + 1].m].last \in 1 .. Len(nf)
                    /\ nf[s[j].m].last \in 1 .. Len(nf)
                    /\ nf[s[j].m].first \in 1 .. nf[s[j].m].last
                BY <8>3, <8>4 DEF Machine, Shape
              <8>6. PICK b, f, g : /\ b = nf[s[l + 1].m].last /\ f = nf[s[j].m].first
                                   /\ g = nf[s[j].m].last
                OBVIOUS
              <8>7. b < f /\ a \in 1 .. b /\ b \in 1 .. Len(nf) /\ g \in 1 .. Len(nf) /\ f \in 1 .. g
                BY <6>1, <8>2, <8>5, <8>6
              <8>8. f >= a
                BY ONLY <1>3, <8>7
              <8> QED
                BY <8>6, <8>8
            <7> QED
              BY <7>1, <7>2
          <6>3. Machine(nf, s[j].m, nf[s[j].m].first, nf[s[j].m].last)
            BY DEF StackOK
          <6>4. i \in nf[s[j].m].first .. nf[s[j].m].last
            BY <4>2, <6>3 DEF Machine, Shape
          <6>5. nf[s[j].m].first \in 1 .. nf[s[j].m].last
            BY <6>3 DEF Machine, Shape
          <6> QED
            BY <1>3, <3>1, <6>2, <6>4, <6>5
        <5> QED
          BY <1>4, <5>1, <5>2
      <4> QED
        BY <2>1, <4>2, <4>3 DEF Finals
    <3>2. CASE ~(i < a)
      <4>1. i \in a .. Len(n)
        BY <1>3, <3>2
      <4>2. i = n[r.m].final
        BY <1>4, <2>3, <4>1 DEF Machine, Tight
      <4> QED
        BY <1>4, <2>2, <4>2 DEF Finals
    <3> QED
      BY <3>1, <3>2
  <2> QED
    BY <2>3 DEF Lax
<1> QED
  BY <1>1, <1>6, <1>7, <1>8 DEF Hung, n

\* The last machine.
LEMMA TopIs ==
  ASSUME NEW A \in SUBSET Nat, NEW nf, NEW s, Good(nf, A), StackOK(nf, s), Len(s) >= 1
  PROVE  OnTop(nf, s[Len(s)].m, Base(nf, s, 1), A)
<1>1. Len(s) \in Nat /\ Len(s) \in 1 .. Len(s) /\ Len(s) + 1 - 1 = Len(s)
  BY DEF StackOK
<1> QED
  BY <1>1 DEF StackOK, OnTop, Base

\* The last machine and the one before it.
LEMMA TopTwoAre ==
  ASSUME NEW A \in SUBSET Nat, NEW nf, NEW s, Good(nf, A), StackOK(nf, s), Len(s) >= 2
  PROVE  LET x == s[Len(s) - 1].m
             y == s[Len(s)].m
             b == nf[x].last
         IN  /\ Machine(nf, x, Base(nf, s, 2), b) /\ Closed(nf, Base(nf, s, 2), b)
             /\ Machine(nf, y, b + 1, Len(nf)) /\ Closed(nf, b + 1, Len(nf))
<1>1. /\ Len(s) \in Nat /\ Len(s) \in 1 .. Len(s) /\ Len(s) - 1 \in 1 .. Len(s)
      /\ Len(s) - 1 \in 1 .. Len(s) - 1 /\ (Len(s) - 1) + 1 = Len(s)
      /\ Len(s) + 1 - 2 = Len(s) - 1 /\ Len(s) > 0
  BY DEF StackOK
<1>2. /\ nf[s[Len(s) - 1].m].last + 1 = nf[s[Len(s)].m].first
      /\ nf[s[Len(s)].m].last = Len(nf)
  BY <1>1 DEF StackOK
<1>3. /\ Machine(nf, s[Len(s) - 1].m, nf[s[Len(s) - 1].m].first, nf[s[Len(s) - 1].m].last)
      /\ Closed(nf, nf[s[Len(s) - 1].m].first, nf[s[Len(s) - 1].m].last)
      /\ Machine(nf, s[Len(s)].m, nf[s[Len(s)].m].first, nf[s[Len(s)].m].last)
      /\ Closed(nf, nf[s[Len(s)].m].first, nf[s[Len(s)].m].last)
  BY <1>1 DEF StackOK
<1> QED
  BY <1>1, <1>2, <1>3 DEF Base

----------------------------------------------------------------------------
(* The actions.                                                            *)

LEMMA AccsAre ==
  ASSUME budget \in Budgets
  PROVE  /\ Accs \in SUBSET Nat /\ NIL \in Accs /\ Len(budget) \in Nat
         /\ DOMAIN budget = 1 .. Len(budget)
         /\ \A id \in 1 .. Len(budget) + 1 : id \in Accs /\ id + YY_TRAILING_HEAD_MASK \in Accs
<1>1. YY_TRAILING_HEAD_MASK \in Nat
  BY NfaAssumption, Zenon
<1>2. budget \in Seq(Nat)
  BY NfaAssumption, Zenon
<1>3. Len(budget) \in Nat /\ DOMAIN budget = 1 .. Len(budget)
  BY <1>2
<1>4. ASSUME NEW id \in 1 .. Len(budget) + 1
      PROVE  id + 0 \in Accs /\ id + YY_TRAILING_HEAD_MASK \in Accs
  BY <1>4 DEF Accs
<1>5. Accs \subseteq Nat
  BY <1>1, <1>3 DEF Accs, NIL
<1> QED
  BY <1>3, <1>4, <1>5 DEF Accs

LEMMA ClassesAre ==
  /\ Len(Ccls) \in Nat /\ Len(CclOps) \in Nat
  /\ DOMAIN AllCcls = 1 .. Len(Ccls) + Len(CclOps) + 3
  /\ Len(AllCcls) = Len(Ccls) + Len(CclOps) + 3
<1> DEFINE a == [k \in DOMAIN Ccls |-> Bracketed(Ccls[k])]
           b == [k \in DOMAIN CclOps |-> Combined(CclOps[k])]
           d == <<Bracketed(ccldot), Bracketed(cclany)>>
<1>1. Ccls \in Seq(CclSet)
  BY NfaAssumption, Zenon
<1>2. CclOps \in Seq([op : {"{-}", "{+}"}, a : CclSet, b : CclSet])
  BY NfaAssumption, Zenon
<1>3. /\ Len(Ccls) \in Nat /\ DOMAIN Ccls = 1 .. Len(Ccls)
      /\ Len(CclOps) \in Nat /\ DOMAIN CclOps = 1 .. Len(CclOps)
  BY <1>1, <1>2, SeqFacts
<1>4. a \in Seq(Range(a)) /\ Len(a) = Len(Ccls)
  <2>1. a = [k \in 1 .. Len(Ccls) |-> a[k]]
    BY <1>3
  <2>2. \A k \in 1 .. Len(Ccls) : a[k] \in Range(a)
    BY <1>3 DEF Range
  <2> HIDE DEF a
  <2> QED
    BY <1>3, <2>1, <2>2
<1>5. b \in Seq(Range(b)) /\ Len(b) = Len(CclOps)
  <2>1. b = [k \in 1 .. Len(CclOps) |-> b[k]]
    BY <1>3
  <2>2. \A k \in 1 .. Len(CclOps) : b[k] \in Range(b)
    BY <1>3 DEF Range
  <2> HIDE DEF b
  <2> QED
    BY <1>3, <2>1, <2>2
<1> DEFINE V == Range(a) \cup Range(b) \cup {Bracketed(ccldot), Bracketed(cclany)}
<1>6. a \in Seq(V) /\ b \in Seq(V) /\ d \in Seq(V) /\ Len(d) = 2
  <2>1. a \in Seq(V)
    <3>1. Range(a) \subseteq V
      OBVIOUS
    <3> HIDE DEF a, V
    <3> QED
      BY <1>4, <3>1, SeqFacts
  <2>2. b \in Seq(V)
    <3>1. Range(b) \subseteq V
      OBVIOUS
    <3> HIDE DEF b, V
    <3> QED
      BY <1>5, <3>1, SeqFacts
  <2>3. d \in Seq(V) /\ Len(d) = 2
    OBVIOUS
  <2> QED
    BY <2>1, <2>2, <2>3
<1>7. Classes = a \o b \o d
  BY DEF Classes
<1> HIDE DEF a, b, d
<1>8. Classes \in Seq(V) /\ Len(Classes) = Len(Ccls) + Len(CclOps) + 2
  <2>1. a \o b \in Seq(V) /\ Len(a \o b) = Len(Ccls) + Len(CclOps)
    <3> HIDE DEF V
    <3> QED
      BY SMTT(60), <1>4, <1>5, <1>6, ConcatFacts
  <2> HIDE DEF V
  <2>2. (a \o b) \o d \in Seq(V) /\ Len((a \o b) \o d) = Len(a \o b) + Len(d)
    BY <1>6, <2>1, ConcatFacts
  <2> QED
    BY <1>3, <1>6, <1>7, <2>1, <2>2
<1>9. Bracketed(cclany) \in V
  OBVIOUS
<1> HIDE DEF V
<1>10. AllCcls \in Seq(V) /\ Len(AllCcls) = Len(Classes) + 1
  BY <1>8, <1>9 DEF AllCcls
<1> QED
  BY <1>3, <1>8, <1>10

LEMMA ClassSyms ==
  /\ \A c \in Alphabet : c \in Syms
  /\ \A k \in 1 .. Len(Ccls) + Len(CclOps) : ClassSym(k) \in Syms
  /\ \A dot_all \in BOOLEAN : ClassSym(DotCcl(dot_all)) \in Syms
  /\ ClassSym(Len(AllCcls)) \in Syms /\ EPS \in Syms /\ NL \in Syms
<1>1. NL \in Alphabet
  <2>1. NL \in 0 .. csize - 1
    BY NfaAssumption, Zenon
  <2> QED
    BY <2>1 DEF Alphabet
<1>2. /\ \A k \in 1 .. Len(Ccls) + Len(CclOps) : k \in DOMAIN AllCcls
      /\ \A dot_all \in BOOLEAN : DotCcl(dot_all) \in DOMAIN AllCcls
      /\ Len(AllCcls) \in DOMAIN AllCcls
  BY ClassesAre DEF DotCcl
<1> QED
  BY <1>1, <1>2 DEF Syms

\* A reduction within a pattern.
LEMMA ReduceKeeps ==
  ASSUME IInv, NEW k \in {0, 1, 2}, Reduces(k), NEW r, NEW words, Reduce(k, r, words),
         Made(r, nfas, Base(nfas, stk, k), Accs)
  PROVE  IInv'
<1> DEFINE x == [m |-> r.m, words |-> words]
<1>1. /\ nfas' = r.n /\ stk' = Append(SubSeq(stk, 1, Len(stk) - k), x)
      /\ budget' = budget /\ rules' = rules /\ conds' = conds /\ pc' = pc
  BY DEF Reduce, Unchanged
<1>2. /\ Good(nfas, Accs) /\ StackOK(nfas, stk) /\ conds \in CondSet(Len(nfas))
      /\ Accs \in SUBSET Nat /\ stk \in Seq(Range(stk)) /\ Len(stk) \in Nat
  <2>1. Good(nfas, Accs) /\ StackOK(nfas, stk) /\ conds \in CondSet(Len(nfas)) /\ budget \in Budgets
    BY DEF IInv
  <2>2. stk \in Seq(Range(stk))
    BY <2>1 DEF StackOK
  <2> QED
    BY <2>1, <2>2, AccsAre, SeqFacts
<1>3. k \in 0 .. Len(stk)
  <2>1. CASE pc = "trail"
    <3>1. Len(Tail(stk)) >= k /\ stk # <<>>
      BY <2>1 DEF Reduces, Values, IInv
    <3>2. Len(Tail(stk)) = Len(stk) - 1
      BY <1>2, <3>1
    <3> QED
      BY <1>2, <3>1, <3>2
  <2>2. CASE pc # "trail"
    BY <1>2, <2>2 DEF Reduces, Values
  <2> QED
    BY <2>1, <2>2
<1>4. StackOK(nfas', stk')
  BY <1>1, <1>2, <1>3, StackReduced
<1>5. Accs' = Accs
  BY <1>1 DEF Accs
<1>6. Good(nfas', Accs') /\ Len(nfas) <= Len(nfas') /\ Len(nfas) \in Nat /\ Len(nfas') \in Nat
  BY <1>1, <1>5 DEF Made, OnTop, Keeps
<1>7. conds' \in CondSet(Len(nfas'))
  BY <1>1, <1>2, <1>6, CondSetGrows
<1>8. stk' # <<>>
  <2>1. SubSeq(stk, 1, Len(stk) - k) \in Seq(Range(stk))
    BY <1>2, <1>3
  <2> HIDE DEF x
  <2> QED
    BY <1>1, <2>1, SeqFacts
<1>9. RuleId' \in DOMAIN budget'
  BY <1>1 DEF Reduces, RuleId
<1>10. Hung(nfas', stk', Sets(conds')) /\ Distinct(conds')
  <2>1. Hung(nfas, stk, Sets(conds)) /\ Distinct(conds)
    BY DEF IInv
  <2>2. Hung(nfas', stk', Sets(conds))
    BY <1>1, <1>2, <1>3, <2>1, HungReduced
  <2> QED
    BY <1>1, <2>1, <2>2
<1> QED
  <2>1. pc' # "parsed"
    BY <1>1 DEF Reduces
  <2> QED
    BY <1>1, <1>4, <1>6, <1>7, <1>8, <1>9, <1>10, <2>1 DEF IInv

LEMMA RootedHung ==
  ASSUME NEW nf, NEW c, Rooted(nf, c) PROVE Hung(nf, <<>>, Sets(c)) /\ Distinct(c)
<1>1. Finals(nf, <<>>) = {} /\ Below(nf, <<>>, Sets(c))
  BY DEF Finals, Below
<1> QED
  BY <1>1 DEF Rooted, Hung

\* The end of a rule.
LEMMA FinishKeeps ==
  ASSUME IInv, NEW nf, NEW m, NEW info, NEW bol, NEW list, NEW next,
         Good(nf, Accs), Ready(nf, m), Len(nfas) <= Len(nf), stk # <<>>,
         Bare(nf, Sets(conds)), nf[m].final \notin Sets(conds), Lax(nf, {nf[m].final}),
         FinishRule(nf, m, info, bol, list, next)
  PROVE  IInv'
<1> DEFINE part == IF bol THEN "bol" ELSE "set"
           n == AddAccept(nf, m, RuleId)
           done == Branched(n, m, part, Active(list))
<1>1. /\ Accs \in SUBSET Nat /\ NIL \in Accs /\ RuleId \in Accs /\ RuleId \in 1 .. Len(budget)
      /\ Len(budget) \in Nat
  BY AccsAre DEF IInv
<1>2. /\ Good(n, Accs) /\ Ready(n, m) /\ Len(nf) <= Len(n)
  BY <1>1, AddAcceptIs
<1>r. Rooted(n, conds)
  <2>1. Closes(n, nf, m)
    BY <1>1, AddAcceptCloses
  <2> HIDE DEF n
  <2>2. Bare(n, Sets(conds)) /\ Lax(n, {nf[m].final} \ {nf[m].final})
    BY <2>1 DEF Closes
  <2>3. {nf[m].final} \ {nf[m].final} = {}
    OBVIOUS
  <2>4. Lax(n, {})
    BY ONLY <2>2, <2>3
  <2> QED
    BY <2>2, <2>4 DEF Rooted, IInv
<1>3. part \in {"set", "bol"}
  OBVIOUS
<1> HIDE DEF n, part
<1>4. /\ conds \in CondSet(Len(n)) /\ m \in 1 .. Len(n)
      /\ Len(nfas) \in Nat /\ Len(n) \in Nat
  <2>1. Len(nfas) \in Nat /\ Len(n) \in Nat /\ Len(nf) \in Nat
    BY <1>2 DEF IInv, Good
  <2>2. conds \in CondSet(Len(n))
    BY <1>2, <2>1, CondSetGrows DEF IInv
  <2> QED
    BY <1>2, <2>1, <2>2 DEF Ready
<1>5. Good(done.n, Accs) /\ done.conds \in CondSet(Len(done.n)) /\ Rooted(done.n, done.conds)
  BY <1>1, <1>2, <1>r, <1>3, <1>4, BranchedIs
<1>6. /\ nfas' = done.n /\ conds' = done.conds /\ stk' = <<>> /\ pc' = "rule"
      /\ budget' = budget
  BY DEF FinishRule, n, part
<1> HIDE DEF done
<1>7. rules' \in Seq(Range(rules')) /\ Len(rules') = RuleId
  <2>1. PICK x : rules' = Append(rules, x)
    BY DEF FinishRule
  <2>2. rules \in Seq(Range(rules) \cup {x}) /\ x \in Range(rules) \cup {x}
    BY DEF IInv
  <2>3. rules' \in Seq(Range(rules) \cup {x}) /\ Len(rules') = Len(rules) + 1
    BY <2>1, <2>2
  <2> QED
    BY <2>3, SeqRange DEF RuleId
<1>8. Accs' = Accs
  BY <1>6 DEF Accs
<1>9. StackOK(nfas', stk')
  BY <1>6 DEF StackOK
<1>10. Hung(nfas', stk', Sets(conds')) /\ Distinct(conds')
  BY <1>5, <1>6, RootedHung
<1> QED
  BY <1>1, <1>5, <1>6, <1>7, <1>8, <1>9, <1>10 DEF IInv

\* What a reduction finds.
LEMMA ReducesIs ==
  ASSUME IInv, NEW k \in {0, 1, 2}, Reduces(k)
  PROVE  /\ Len(stk) \in Nat /\ Len(stk) >= k /\ Len(nfas) \in Nat
         /\ Good(nfas, Accs) /\ StackOK(nfas, stk) /\ Accs \in SUBSET Nat /\ NIL \in Accs
<1>1. /\ Good(nfas, Accs) /\ StackOK(nfas, stk) /\ Accs \in SUBSET Nat /\ NIL \in Accs
      /\ stk \in Seq(Range(stk)) /\ Len(stk) \in Nat /\ Len(nfas) \in Nat
  BY AccsAre, SeqFacts DEF IInv, StackOK, Good
<1>2. CASE pc = "trail"
  <2>1. Len(Tail(stk)) >= k /\ stk # <<>>
    BY <1>2 DEF Reduces, Values, IInv
  <2>2. Len(Tail(stk)) = Len(stk) - 1
    BY <1>1, <2>1
  <2> QED
    BY <1>1, <2>1, <2>2
<1>3. CASE pc # "trail"
  BY <1>1, <1>3 DEF Reduces, Values
<1> QED
  BY <1>1, <1>2, <1>3

\* The reductions that make a state.
LEMMA NewStateKeeps ==
  ASSUME IInv, Reduces(0), NEW label \in Syms, NEW words, Reduce(0, NewState(label), words)
  PROVE  IInv'
<1> DEFINE n == MkState(nfas, label)
           s == Len(nfas) + 1
           r == NewState(label)
<1>1. Good(nfas, Accs) /\ Accs \in SUBSET Nat /\ NIL \in Accs /\ s \in Nat /\ Len(nfas) \in Nat
  BY ReducesIs
<1>2. Added(n, nfas, label, Accs)
  BY <1>1, MkStateIs
<1>3. r.n = n /\ r.m = s
  BY DEF NewState
<1> HIDE DEF n, r
<1>4. Made(r, nfas, s, Accs)
  BY <1>1, <1>2, <1>3 DEF Added, Made, OnTop, Keeps
<1>5. Base(nfas, stk, 0) = s
  BY DEF Base
<1> QED
  BY <1>4, <1>5, ReduceKeeps DEF r

\* Those that change the last machine.
LEMMA TopKeeps ==
  ASSUME IInv, Reduces(1), NEW r, NEW words, Reduce(1, r, words),
         Made(r, nfas, Base(nfas, stk, 1), Accs)
  PROVE  IInv'
BY ReduceKeeps

LEMMA TopReady ==
  ASSUME IInv, Reduces(1)
  PROVE  /\ OnTop(nfas, Top(1).m, Base(nfas, stk, 1), Accs)
         /\ Accs \in SUBSET Nat /\ NIL \in Accs
<1>1. /\ Len(stk) \in Nat /\ Len(stk) >= 1 /\ Good(nfas, Accs) /\ StackOK(nfas, stk)
      /\ Accs \in SUBSET Nat /\ NIL \in Accs
  BY ReducesIs
<1>2. Top(1) = stk[Len(stk)]
  BY <1>1 DEF Top
<1> QED
  BY <1>1, <1>2, TopIs

\* A pair of letters, the first of which is made first.
LEMMA CaseCharKeeps ==
  ASSUME IInv, NEW c \in Alphabet, NEW d \in Alphabet, CaseChar(c, d, "left")
  PROVE  IInv'
<1> DEFINE s == Len(nfas) + 1
           p == MkState(nfas, c)
           n == MkState(p, d)
           r == MkOr(n, s, s + 1)
<1>0. Reduces(0) /\ Reduce(0, r, {<<c>>, <<d>>})
  BY DEF CaseChar
<1>1. Good(nfas, Accs) /\ Accs \in SUBSET Nat /\ NIL \in Accs /\ Len(nfas) \in Nat
  BY <1>0, ReducesIs
<1> HIDE DEF r
<1>2. Added(p, nfas, c, Accs)
  BY <1>1, ClassSyms, MkStateIs
<1> HIDE DEF p
<1>3. Good(p, Accs) /\ Len(p) = s
  BY <1>2 DEF Added
<1>4. Added(n, p, d, Accs)
  BY <1>1, <1>3, ClassSyms, MkStateIs
<1> HIDE DEF n
<1>5. /\ Good(n, Accs) /\ Len(n) = s + 1 /\ s \in Nat
      /\ Machine(n, s + 1, s + 1, Len(n)) /\ Closed(n, s + 1, Len(n))
      /\ \A t \in 1 .. s : n[t] = p[t]
  BY <1>1, <1>3, <1>4 DEF Added
<1>6. Machine(n, s, s, s) /\ Closed(n, s, s)
  <2>1. Keeps(n, p, s + 1)
    BY <1>3, <1>5 DEF Keeps
  <2>2. Machine(p, s, s, s) /\ Closed(p, s, s) /\ s < s + 1
    BY <1>2, <1>5 DEF Added
  <2> HIDE DEF s
  <2> QED
    BY <2>1, <2>2, MachineBelow
<1>7. Made(r, n, s, Accs)
  <2> HIDE DEF s
  <2> QED
    BY <1>1, <1>5, <1>6, MkOrIs DEF r
<1>8. Keeps(n, nfas, s)
  BY <1>1, <1>2, <1>3, <1>5 DEF Keeps, Added
<1>9. Made(r, nfas, s, Accs)
  BY <1>7, <1>8, KeepsTwice DEF Made
<1>10. Base(nfas, stk, 0) = s
  BY DEF Base
<1> QED
  BY <1>0, <1>9, <1>10, ReduceKeeps

LEMMA ConcatenationKeeps == ASSUME IInv, Concatenation PROVE IInv'
<1> DEFINE x == Top(2).m
           y == Top(1).m
           r == [n |-> Link(nfas, x, y), m |-> x]
           words == Cat(Top(2).words, Top(1).words)
<1>1. Reduces(2) /\ Reduce(2, r, words)
  BY DEF Concatenation
<1>2. /\ Len(stk) \in Nat /\ Len(stk) >= 2 /\ Good(nfas, Accs) /\ StackOK(nfas, stk)
      /\ Accs \in SUBSET Nat
  BY <1>1, ReducesIs
<1>3. Top(2) = stk[Len(stk) - 1] /\ Top(1) = stk[Len(stk)]
  BY <1>2 DEF Top
<1>4. OnTop(Link(nfas, x, y), x, Base(nfas, stk, 2), Accs) /\ Keeps(Link(nfas, x, y), nfas, Base(nfas, stk, 2))
  BY <1>2, <1>3, TopTwoAre, NeighboursIs
<1>5. Made(r, nfas, Base(nfas, stk, 2), Accs)
  BY <1>4 DEF Made
<1> HIDE DEF r, words
<1> QED
  BY <1>1, <1>5, ReduceKeeps

LEMMA AlternationKeeps == ASSUME IInv, Alternation PROVE IInv'
<1> DEFINE x == Top(2).m
           y == Top(1).m
           r == MkOr(nfas, x, y)
           words == Top(2).words \cup Top(1).words
<1>1. Reduces(2) /\ Reduce(2, r, words)
  BY DEF Alternation
<1>2. /\ Len(stk) \in Nat /\ Len(stk) >= 2 /\ Good(nfas, Accs) /\ StackOK(nfas, stk)
      /\ Accs \in SUBSET Nat /\ NIL \in Accs
  BY <1>1, ReducesIs
<1>3. Top(2) = stk[Len(stk) - 1] /\ Top(1) = stk[Len(stk)]
  BY <1>2 DEF Top
<1>4. Made(r, nfas, Base(nfas, stk, 2), Accs)
  BY <1>2, <1>3, TopTwoAre, MkOrIs
<1> HIDE DEF r, words
<1> QED
  BY <1>1, <1>4, ReduceKeeps

\* {lb,ub}, {lb,} and {n}.
LEMMA RepetitionKeeps ==
  ASSUME IInv, NEW p \in Repeats,
         Repeat(p[1], p[2]) \/ RepeatFrom(p[1]) \/ RepeatExactly(p[1])
  PROVE  IInv'
<1> DEFINE lb == p[1]
           ub == p[2]
           m == Top(1).m
           a == Base(nfas, stk, 1)
           l == Max({lb, 1})
<1>1. lb \in Nat /\ ub \in Nat /\ ub >= 1 /\ lb <= ub
  <2>1. lb \in Nat /\ ub \in Nat \ {0} /\ lb <= ub
    BY NfaAssumption, Zenon
  <2> QED
    BY <2>1
<1>2. Reduces(1)
  BY DEF Repeat, RepeatFrom, RepeatExactly
<1>3. OnTop(nfas, m, a, Accs) /\ Accs \in SUBSET Nat /\ NIL \in Accs
  BY <1>2, TopReady
<1>4. l \in Nat \ {0} /\ l <= ub
  <2>1. l = IF lb >= 1 THEN lb ELSE 1
    BY <1>1, Max2
  <2> QED
    BY <1>1, <2>1
<1> HIDE DEF lb, ub, m, a, l
<1>5. CASE Repeat(lb, ub)
  <2> DEFINE some == MkRep(nfas, m, l, ub)
             r == IF lb = 0 THEN MkOpt(some.n, some.m) ELSE some
  <2>1. Made(some, nfas, a, Accs)
    BY <1>1, <1>3, <1>4, MkRepIs
  <2>2. PICK words : Reduce(1, r, words)
    BY <1>5 DEF Repeat, m, l
  <2> HIDE DEF some
  <2>3. Made(r, nfas, a, Accs)
    <3>1. CASE lb = 0
      <4>1. Made(MkOpt(some.n, some.m), some.n, a, Accs)
        BY <1>3, <2>1, MkOptIs DEF Made
      <4> QED
        BY <2>1, <3>1, <4>1, KeepsTwice DEF Made
    <3>2. CASE lb # 0
      BY <2>1, <3>2
    <3> QED
      BY <3>1, <3>2
  <2> HIDE DEF r
  <2> QED
    BY <1>2, <2>2, <2>3, TopKeeps DEF a
<1>6. CASE RepeatFrom(lb)
  <2> DEFINE r == MkRepFrom(nfas, m, lb)
  <2>1. PICK words : Reduce(1, r, words)
    BY <1>6 DEF RepeatFrom, m
  <2>2. lb \in Nat \ {0}
    BY <1>1, <1>6 DEF RepeatFrom
  <2>3. Made(r, nfas, a, Accs)
    BY <1>3, <2>2, MkRepFromIs
  <2> HIDE DEF r
  <2> QED
    BY <1>2, <2>1, <2>3, TopKeeps DEF a
<1>7. CASE RepeatExactly(lb)
  <2> DEFINE copies == CopySingl(nfas, m, lb - 1)
             n == Link(copies.n, m, copies.m)
             r == [n |-> n, m |-> m]
  <2>1. PICK words : Reduce(1, r, words)
    BY <1>7 DEF RepeatExactly, m
  <2>2. lb - 1 \in Nat
    BY <1>1, <1>7 DEF RepeatExactly
  <2>3. OnTop(n, m, a, Accs) /\ Keeps(n, nfas, a)
    BY <1>3, <2>2, ExactlyIs
  <2> HIDE DEF n
  <2>4. Made(r, nfas, a, Accs)
    BY <2>3 DEF Made
  <2> HIDE DEF r
  <2> QED
    BY <1>2, <2>1, <2>4, TopKeeps DEF a
<1> QED
  BY <1>5, <1>6, <1>7 DEF lb, ub

LEMMA SlashKeeps == ASSUME IInv, Slash PROVE IInv'
<1>1. /\ nfas' = nfas /\ stk' = stk /\ rules' = rules /\ conds' = conds /\ budget' = budget
      /\ pc' = "trail" /\ Len(stk) = 1 /\ pc = "rule"
  BY DEF Slash
<1>2. stk # <<>>
  BY <1>1
<1>3. Accs' = Accs /\ RuleId' = RuleId
  BY <1>1 DEF Accs, RuleId
<1> QED
  BY <1>1, <1>2, <1>3 DEF IInv

\* A machine on the stack is ready to be linked.
LEMMA OnlyReady ==
  ASSUME IInv, NEW i \in 1 .. Len(stk)
  PROVE  /\ Ready(nfas, stk[i].m) /\ Good(nfas, Accs) /\ Accs \in SUBSET Nat /\ NIL \in Accs
         /\ Len(nfas) \in Nat /\ stk # <<>> /\ RuleId \in Accs
         /\ RuleId + YY_TRAILING_HEAD_MASK \in Accs
         /\ stk[i].m \notin Sets(conds) /\ nfas[stk[i].m].final \notin Sets(conds)
         /\ Bare(nfas, Sets(conds)) /\ Lax(nfas, Finals(nfas, stk))
<1>1. stk \in Seq(Range(stk)) /\ Len(stk) \in Nat
  BY SeqFacts DEF IInv, StackOK
<1>2. stk # <<>>
  BY <1>1
<1>3. Machine(nfas, stk[i].m, nfas[stk[i].m].first, nfas[stk[i].m].last)
  BY DEF IInv, StackOK
<1>4. Len(nfas) \in Nat /\ Good(nfas, Accs)
  BY DEF IInv, Good
<1>5. Ready(nfas, stk[i].m)
  BY <1>3, <1>4 DEF Machine, Shape, Ready
<1>6. /\ Accs \in SUBSET Nat /\ NIL \in Accs /\ Len(budget) \in Nat /\ RuleId \in 1 .. Len(budget)
      /\ \A id \in 1 .. Len(budget) + 1 : id \in Accs /\ id + YY_TRAILING_HEAD_MASK \in Accs
  BY <1>2, AccsAre DEF IInv
<1>7. stk[i].m \notin Sets(conds) /\ nfas[stk[i].m].final \notin Sets(conds)
  <2>1. PICK a, z, m, e : /\ a = nfas[stk[i].m].first /\ z = nfas[stk[i].m].last
                          /\ m = stk[i].m /\ e = nfas[stk[i].m].final
    OBVIOUS
  <2>2. m \in a .. z /\ e \in a .. z /\ a \in 1 .. z /\ z \in 1 .. Len(nfas)
    BY <1>3, <2>1 DEF Machine, Shape
  <2>3. \A p \in Sets(conds) : p \in 1 .. Len(nfas) /\ p < a
    BY <2>1 DEF IInv, Hung, Bare, Below
  <2>4. m \notin Sets(conds) /\ e \notin Sets(conds)
    BY ONLY <1>4, <2>2, <2>3
  <2> QED
    BY <2>1, <2>4
<1> QED
  BY <1>2, <1>4, <1>5, <1>6, <1>7 DEF IInv, Hung

LEMMA OnlyFinal ==
  ASSUME IInv, Len(stk) = 1 PROVE Lax(nfas, {nfas[stk[1].m].final})
<1>1. Finals(nfas, stk) = {nfas[stk[1].m].final}
  BY DEF Finals
<1>2. Lax(nfas, Finals(nfas, stk))
  BY DEF IInv, Hung
<1> QED
  BY ONLY <1>1, <1>2

LEMMA FinishPlainKeeps ==
  ASSUME IInv, NEW bol, NEW list, NEW next, FinishPlain(bol, list, next)
  PROVE  IInv'
<1>1. 1 \in 1 .. Len(stk)
  BY DEF FinishPlain
<1>2. /\ Ready(nfas, stk[1].m) /\ Good(nfas, Accs) /\ stk # <<>> /\ Len(nfas) <= Len(nfas)
      /\ Bare(nfas, Sets(conds)) /\ nfas[stk[1].m].final \notin Sets(conds)
  BY <1>1, OnlyReady
<1>3. PICK info : FinishRule(nfas, stk[1].m, info, bol, list, next)
  BY DEF FinishPlain
<1>4. Lax(nfas, {nfas[stk[1].m].final})
  <2>1. Len(stk) = 1
    BY DEF FinishPlain
  <2> QED
    BY <1>1, <2>1, OnlyFinal
<1> QED
  BY <1>2, <1>3, <1>4, FinishKeeps

LEMMA LinkLeads ==
  ASSUME NEW A \in SUBSET Nat, NEW nf, NEW x, NEW y, Apart(nf, x, y, A)
  PROVE  Leading(Link(nf, x, y), nf, x, y)
<1>1. x \in 1 .. Len(nf) /\ y \in 1 .. Len(nf) /\ Room(nf[nf[x].final]) /\ Good(nf, A)
  BY DEF Apart, Ready
<1>2. Linked(Link(nf, x, y), nf, x, y, nf[x].final, A)
  BY <1>1, LinkIs
<1> QED
  BY <1>1, <1>2, LinkedSpares

\* The end of a head accepts.
LEMMA HeadAcceptsIs ==
  ASSUME NEW A \in SUBSET Nat, NIL \in A, RuleId + YY_TRAILING_HEAD_MASK \in A,
         NEW nf, NEW m, NEW variable, Good(nf, A), Ready(nf, m)
  PROVE  LET n == HeadAccepts(nf, variable, m)
         IN  /\ Good(n, A) /\ Ready(n, m) /\ Len(nf) <= Len(n)
             /\ \A w : Apart(nf, m, w, A) => Apart(n, m, w, A)
<1>1. CASE variable
  BY <1>1, AddAcceptIs DEF HeadAccepts
<1>2. CASE ~variable
  BY <1>2 DEF HeadAccepts, Good
<1> QED
  BY <1>1, <1>2

\* The end of the head stays the only state of the head without a transition.
Heads(n, nf, m) ==
  /\ \A C : Bare(nf, C) /\ nf[m].final \notin C => Bare(n, C) /\ n[m].final \notin C
  /\ \A F : Lax(nf, F \cup {nf[m].final}) => Lax(n, F \cup {n[m].final})
  /\ \A w \in 1 .. Len(nf) : w # m => n[w].final = nf[w].final

LEMMA HeadAcceptsHeads ==
  ASSUME NEW A \in SUBSET Nat, NIL \in A, RuleId + YY_TRAILING_HEAD_MASK \in A,
         NEW nf, NEW m, NEW variable, Good(nf, A), Ready(nf, m)
  PROVE  Heads(HeadAccepts(nf, variable, m), nf, m)
<1>1. CASE variable
  <2>1. PICK n : n = HeadAccepts(nf, variable, m)
    OBVIOUS
  <2>2. Closes(n, nf, m)
    BY <1>1, <2>1, AddAcceptCloses DEF HeadAccepts
  <2>3. ASSUME NEW F, Lax(nf, F \cup {nf[m].final}) PROVE Lax(n, F \cup {n[m].final})
    <3>1. Lax(n, (F \cup {nf[m].final}) \ {nf[m].final})
      BY <2>2, <2>3 DEF Closes
    <3> QED
      BY <3>1 DEF Lax
  <2> QED
    BY <2>1, <2>2, <2>3 DEF Closes, Heads
<1>2. CASE ~variable
  BY <1>2 DEF HeadAccepts, Heads
<1> QED
  BY <1>1, <1>2

LEMMA FinishTrailingKeeps ==
  ASSUME IInv, NEW bol, NEW list, NEW next, FinishTrailing(bol, list, next)
  PROVE  IInv'
<1> DEFINE x == stk[1].m
           y == stk[2].m
           n == IF nfas[nfas[y].last].on = EPS THEN nfas
                ELSE Link(MkState(nfas, EPS), y, Len(nfas) + 1)
           h == HeadAccepts(n, IsVariable, x)
           l == Link(h, x, y)
<1>1. 1 \in 1 .. Len(stk) /\ 2 \in 1 .. Len(stk) /\ 1 < 2
  BY DEF FinishTrailing
<1>2. /\ Ready(nfas, x) /\ Ready(nfas, y) /\ Good(nfas, Accs) /\ stk # <<>> /\ Len(nfas) \in Nat
      /\ Accs \in SUBSET Nat /\ NIL \in Accs /\ RuleId + YY_TRAILING_HEAD_MASK \in Accs
  BY <1>1, OnlyReady
<1>3. Apart(nfas, x, y, Accs) /\ Apart(nfas, y, x, Accs)
  <2>1. /\ Machine(nfas, x, nfas[x].first, nfas[x].last)
        /\ Machine(nfas, y, nfas[y].first, nfas[y].last) /\ nfas[x].last < nfas[y].first
    BY <1>1 DEF IInv, StackOK
  <2> HIDE DEF x, y
  <2>2. x # y /\ nfas[x].final # nfas[y].final
    <3> DEFINE ax == nfas[x].first
               zx == nfas[x].last
               ay == nfas[y].first
               zy == nfas[y].last
    <3>1. /\ x \in ax .. zx /\ nfas[x].final \in ax .. zx /\ ax \in 1 .. zx /\ zx \in 1 .. Len(nfas)
          /\ y \in ay .. zy /\ nfas[y].final \in ay .. zy /\ ay \in 1 .. zy /\ zy \in 1 .. Len(nfas)
          /\ zx < ay
      BY <2>1 DEF Machine, Shape
    <3> HIDE DEF ax, zx, ay, zy
    <3> QED
      BY <1>2, <3>1
  <2> QED
    BY <1>2, <2>2 DEF Apart
<1> DEFINE C == Sets(conds)
<1>c. /\ Bare(nfas, C) /\ x \notin C /\ y \notin C
      /\ nfas[x].final \notin C /\ nfas[y].final \notin C
      /\ Lax(nfas, {nfas[x].final, nfas[y].final})
  <2>1. Finals(nfas, stk) = {nfas[x].final, nfas[y].final}
    <3>1. Len(stk) = 2
      BY DEF FinishTrailing
    <3>2. 1 .. 2 = {1, 2}
      OBVIOUS
    <3> QED
      BY <3>1, <3>2 DEF Finals
  <2>2. Lax(nfas, Finals(nfas, stk))
    BY <1>1, OnlyReady
  <2>3. Lax(nfas, {nfas[x].final, nfas[y].final})
    BY ONLY <2>1, <2>2
  <2> QED
    BY <1>1, <2>3, OnlyReady
<1> HIDE DEF x, y, C
<1>d. /\ Bare(n, C) /\ n[x].final \notin C /\ n[y].final \notin C
      /\ Lax(n, {n[x].final, n[y].final})
  <2>1. CASE nfas[nfas[y].last].on = EPS
    BY <1>c, <2>1
  <2>2. CASE nfas[nfas[y].last].on # EPS
    <3> DEFINE s == Len(nfas) + 1
               b == MkState(nfas, EPS)
    <3>1. Added(b, nfas, EPS, Accs)
      BY <1>2, ClassSyms, MkStateIs
    <3>2. /\ Good(b, Accs) /\ Len(b) = s /\ Apart(b, y, s, Accs)
          /\ x \in 1 .. Len(nfas) /\ y \in 1 .. Len(nfas) /\ x # y
      <4>1. Good(b, Accs) /\ Len(b) = s /\ Apart(b, y, s, Accs)
        BY <1>2, ClassSyms, MkStateApart
      <4> HIDE DEF b, s
      <4> QED
        BY <1>3, <4>1 DEF Apart, Ready
    <3>3. /\ Bare(b, C) /\ b[x].final = nfas[x].final /\ b[y].final = nfas[y].final
          /\ b[s].final = s /\ Lax(b, {nfas[x].final, nfas[y].final})
      <4>1. b[s].final = s
        BY <3>1 DEF Added
      <4>2. Adding(b, nfas, EPS)
        BY <3>1, AddedSpares
      <4> HIDE DEF b
      <4> QED
        BY <1>c, <3>2, <4>1, <4>2 DEF Adding
    <3> HIDE DEF b
    <3>4. PICK q : q = Link(b, y, s)
      OBVIOUS
    <3>5. Leading(q, b, y, s)
      BY <1>2, <3>2, <3>4, LinkLeads
    <3>6. s \notin C /\ x \in 1 .. Len(b)
      BY <1>2, <1>c, <3>2 DEF Bare
    <3>7. Bare(q, C) /\ q[x].final = nfas[x].final /\ q[y].final = s
      BY <3>2, <3>3, <3>5, <3>6 DEF Leading
    <3>8. Lax(q, {nfas[x].final, nfas[y].final} \ {nfas[y].final})
      BY <3>3, <3>5 DEF Leading
    <3>9. Lax(q, {q[x].final, q[y].final})
      BY <3>7, <3>8 DEF Lax
    <3>10. n = q
      BY <2>2, <3>4 DEF b
    <3> HIDE DEF n
    <3> QED
      BY <1>c, <3>6, <3>7, <3>9, <3>10
  <2> QED
    BY <2>1, <2>2
<1>4. Apart(n, x, y, Accs) /\ Len(nfas) <= Len(n)
  <2>1. CASE nfas[nfas[y].last].on = EPS
    BY <1>2, <1>3, <2>1
  <2>2. CASE nfas[nfas[y].last].on # EPS
    <3> DEFINE s == Len(nfas) + 1
               b == MkState(nfas, EPS)
    <3>1. /\ Good(b, Accs) /\ Len(b) = s
          /\ Apart(b, y, s, Accs) /\ Apart(b, x, s, Accs) /\ Apart(b, y, x, Accs)
      BY <1>2, <1>3, ClassSyms, MkStateApart
    <3> HIDE DEF b
    <3>2. x # s /\ b[x].final # b[s].final
      BY <3>1 DEF Apart
    <3>3. Apart(Link(b, y, s), y, x, Accs) /\ Len(Link(b, y, s)) = s
      <4>1. Relinked(Link(b, y, s), b, y, s, Accs)
        BY <1>2, <3>1, LinkApart
      <4> QED
        BY <3>1, <3>2, <4>1 DEF Relinked
    <3>4. n = Link(b, y, s)
      BY <2>2 DEF b
    <3> HIDE DEF n
    <3> QED
      BY <1>2, <3>3, <3>4 DEF Apart
  <2> QED
    BY <2>1, <2>2
<1> HIDE DEF n
<1>5. Apart(h, x, y, Accs) /\ Len(n) <= Len(h)
  BY <1>2, <1>4, HeadAcceptsIs DEF Apart
<1>e. Heads(h, n, x)
  BY <1>2, <1>4, HeadAcceptsHeads DEF Apart
<1> HIDE DEF h
<1>f. Bare(h, C) /\ h[y].final \notin C /\ Lax(h, {h[x].final, h[y].final})
  <2>1. Bare(h, C) /\ h[y].final = n[y].final
    BY <1>4, <1>d, <1>e DEF Heads, Apart, Ready
  <2>2. {n[x].final, n[y].final} = {n[y].final} \cup {n[x].final}
    OBVIOUS
  <2>3. Lax(h, {n[y].final} \cup {h[x].final})
    BY <1>d, <1>e, <2>2 DEF Heads
  <2> QED
    BY <1>d, <2>1, <2>3 DEF Lax
<1>6. Good(l, Accs) /\ Ready(l, x) /\ Len(l) = Len(h)
  <2>1. Relinked(l, h, x, y, Accs)
    BY <1>2, <1>5, LinkApart
  <2> QED
    BY <2>1 DEF Relinked
<1>7. PICK info : FinishRule(l, x, info, bol, list, next)
  BY DEF FinishTrailing, l, h, n, x, y
<1>g. Leading(l, h, x, y)
  BY <1>2, <1>5, LinkLeads
<1> HIDE DEF l
<1>i. Bare(l, C) /\ l[x].final \notin C /\ Lax(l, {l[x].final})
  <2>1. Bare(l, C) /\ l[x].final = h[y].final
    BY <1>c, <1>f, <1>g DEF Leading
  <2>2. Lax(l, {h[x].final, h[y].final} \ {h[x].final})
    BY <1>f, <1>g DEF Leading
  <2> QED
    BY <1>f, <2>1, <2>2 DEF Lax
<1>8. Len(nfas) <= Len(l)
  <2>1. Len(n) \in Nat /\ Len(h) \in Nat
    BY <1>4, <1>5 DEF Apart, Good
  <2> QED
    BY <1>2, <1>4, <1>5, <1>6, <2>1
<1> QED
  BY <1>2, <1>6, <1>7, <1>8, <1>i, FinishKeeps DEF C

LEMMA FinishEolKeeps ==
  ASSUME IInv, NEW bol, NEW list, NEW next, FinishEol(bol, list, next)
  PROVE  IInv'
<1> DEFINE x == stk[1].m
           variable == lex_compat \/ rule.continued
           n == HeadAccepts(nfas, variable, x)
           eps == Len(n) + 1
           b == MkState(n, EPS)
           c == MkState(b, NL)
           eol == Link(c, eps, eps + 1)
           l == Link(eol, x, eps)
<1>1. 1 \in 1 .. Len(stk)
  BY DEF FinishEol
<1>2. /\ Ready(nfas, x) /\ Good(nfas, Accs) /\ stk # <<>> /\ Len(nfas) \in Nat
      /\ Accs \in SUBSET Nat /\ NIL \in Accs /\ RuleId + YY_TRAILING_HEAD_MASK \in Accs
  BY <1>1, OnlyReady
<1>c. /\ Bare(nfas, Sets(conds)) /\ x \notin Sets(conds) /\ nfas[x].final \notin Sets(conds)
      /\ Lax(nfas, {nfas[x].final})
  <2>1. Len(stk) = 1
    BY DEF FinishEol
  <2> QED
    BY <1>1, <2>1, OnlyReady, OnlyFinal
<1> DEFINE C == Sets(conds)
<1> HIDE DEF x, variable, C
<1>d. Heads(n, nfas, x)
  BY <1>2, HeadAcceptsHeads
<1>3. Good(n, Accs) /\ Ready(n, x) /\ Len(nfas) <= Len(n) /\ Len(n) \in Nat
  <2>1. Good(n, Accs) /\ Ready(n, x) /\ Len(nfas) <= Len(n)
    BY <1>2, HeadAcceptsIs
  <2> QED
    BY <2>1 DEF Good
<1> HIDE DEF n
<1>e. Bare(n, C) /\ n[x].final \notin C /\ Lax(n, {n[x].final})
  <2>1. Lax(nfas, {} \cup {nfas[x].final})
    BY <1>c DEF Lax
  <2>2. Lax(n, {} \cup {n[x].final})
    BY <1>d, <2>1 DEF Heads
  <2> QED
    BY <1>c, <1>d, <2>2 DEF Heads, Lax, C
<1>f. /\ Added(b, n, EPS, Accs) /\ Added(c, b, NL, Accs)
  <2>1. Added(b, n, EPS, Accs)
    BY <1>2, <1>3, ClassSyms, MkStateIs
  <2> HIDE DEF b
  <2>2. Good(b, Accs) /\ NL \in Syms
    BY <2>1, ClassSyms DEF Added
  <2>3. Added(c, b, NL, Accs)
    BY <1>2, <2>2, MkStateIs
  <2> QED
    BY <2>1, <2>3
<1>4. Good(b, Accs) /\ Len(b) = eps /\ Ready(b, eps) /\ Apart(b, x, eps, Accs) /\ Ready(b, x)
  BY <1>2, <1>3, ClassSyms, MkStateApart DEF Apart
<1> HIDE DEF b
<1>5. /\ Len(c) = eps + 1
      /\ Apart(c, x, eps + 1, Accs) /\ Apart(c, eps, eps + 1, Accs) /\ Apart(c, x, eps, Accs)
  BY <1>2, <1>4, ClassSyms, MkStateApart
<1> HIDE DEF c
<1>g. /\ eps \notin C /\ eps + 1 \notin C /\ Bare(c, C)
      /\ c[eps + 1].final = eps + 1 /\ Lax(c, {c[x].final, eps + 1})
  <2>1. C \subseteq 1 .. Len(n)
    BY <1>e DEF Bare
  <2>2. eps \notin C /\ eps + 1 \notin C
    BY <1>3, <2>1
  <2>3. Len(b) = eps /\ x \in 1 .. Len(n) /\ x \in 1 .. Len(b)
    BY <1>3, <1>4 DEF Ready
  <2> HIDE DEF eps
  <2>a. Adding(b, n, EPS) /\ Adding(c, b, NL)
    BY <1>f, AddedSpares
  <2>4. Bare(b, C) /\ Lax(b, {n[x].final}) /\ b[x].final = n[x].final
    BY <1>e, <2>a, <2>3 DEF Adding
  <2>5. Bare(c, C) /\ Lax(c, {n[x].final} \cup {eps + 1}) /\ c[x].final = b[x].final
    BY <2>a, <2>3, <2>4 DEF Adding
  <2>6. c[eps + 1].final = eps + 1
    BY <1>f, <2>3 DEF Added
  <2> QED
    BY <2>2, <2>4, <2>5, <2>6 DEF Lax
<1> HIDE DEF eps
<1>6. Apart(c, eps, x, Accs) /\ x # eps + 1 /\ c[x].final # c[eps + 1].final
  BY <1>5 DEF Apart
<1>7. Apart(eol, eps, x, Accs) /\ Len(eol) = Len(c)
  <2>1. Relinked(eol, c, eps, eps + 1, Accs)
    BY <1>2, <1>5, LinkApart
  <2> HIDE DEF eol
  <2> QED
    BY <1>6, <2>1 DEF Relinked
<1>i. Leading(eol, c, eps, eps + 1)
  BY <1>2, <1>5, LinkLeads
<1> HIDE DEF eol
<1>j. /\ Bare(eol, C) /\ eol[eps].final = eps + 1 /\ eol[x].final = c[x].final
      /\ Lax(eol, {c[x].final, eps + 1})
  <2>1. x # eps /\ x \in 1 .. Len(c)
    BY <1>5 DEF Apart, Ready
  <2>2. Lax(eol, {c[x].final, eps + 1} \ {c[eps].final})
    BY <1>g, <1>i DEF Leading
  <2> QED
    BY <1>g, <1>i, <2>1, <2>2 DEF Leading, Lax
<1>8. Good(l, Accs) /\ Ready(l, x) /\ Len(l) = Len(eol)
  <2>1. Apart(eol, x, eps, Accs)
    BY <1>7 DEF Apart
  <2>2. Relinked(l, eol, x, eps, Accs)
    BY <1>2, <2>1, LinkApart
  <2> QED
    BY <2>2 DEF Relinked
<1>k. Leading(l, eol, x, eps)
  <2>1. Apart(eol, x, eps, Accs)
    BY <1>7 DEF Apart
  <2> QED
    BY <1>2, <2>1, LinkLeads
<1> HIDE DEF l
<1>l. Bare(l, C) /\ l[x].final \notin C /\ Lax(l, {l[x].final})
  <2>1. Bare(l, C) /\ l[x].final = eps + 1
    BY <1>g, <1>j, <1>k DEF Leading
  <2>2. Lax(l, {c[x].final, eps + 1} \ {c[x].final})
    BY <1>j, <1>k DEF Leading
  <2> QED
    BY <1>g, <2>1, <2>2 DEF Lax
<1>9. Len(nfas) <= Len(l)
  BY <1>2, <1>3, <1>5, <1>7, <1>8 DEF eps
<1>10. PICK info : FinishRule(l, x, info, bol, list, next)
  BY DEF FinishEol, l, eol, c, b, eps, n, variable, x
<1> QED
  BY <1>2, <1>8, <1>9, <1>10, <1>l, FinishKeeps DEF C

LEMMA DefaultRuleKeeps == ASSUME IInv, DefaultRule PROVE IInv'
<1> DEFINE m == Len(nfas) + 1
           s == MkState(nfas, ClassSym(Len(AllCcls)))
           n == AddAccept(s, m, RuleId)
           done == Branched(n, m, "set", Conditions)
<1>1. /\ Accs \in SUBSET Nat /\ NIL \in Accs /\ RuleId \in Accs
      /\ Good(nfas, Accs) /\ Len(nfas) \in Nat
  <2>1. RuleId \in 1 .. Len(budget) + 1
    <3>1. Len(rules) \in Nat /\ Len(budget) \in Nat /\ Len(rules) <= Len(budget)
      BY AccsAre, SeqFacts DEF IInv, DefaultRule
    <3> QED
      BY <3>1 DEF RuleId
  <2> QED
    BY <2>1, AccsAre DEF IInv, Good
<1>2. Good(s, Accs) /\ Len(s) = m /\ Ready(s, m)
  BY <1>1, ClassSyms, MkStateApart
<1>c. Added(s, nfas, ClassSym(Len(AllCcls)), Accs)
  BY <1>1, ClassSyms, MkStateIs
<1> HIDE DEF s
<1>d. Bare(s, Sets(conds)) /\ Lax(s, {m}) /\ s[m].final = m /\ m \notin Sets(conds)
  <2>1. Hung(nfas, <<>>, Sets(conds))
    BY DEF IInv, DefaultRule
  <2>2. Bare(nfas, Sets(conds)) /\ Lax(nfas, {})
    BY <2>1 DEF Hung, Finals, Lax
  <2>3. m \notin Sets(conds)
    <3>1. Sets(conds) \subseteq 1 .. Len(nfas)
      BY <2>2 DEF Bare
    <3> QED
      BY <1>1, <3>1
  <2>4. Bare(s, Sets(conds)) /\ Lax(s, {} \cup {m})
    <3>1. Adding(s, nfas, ClassSym(Len(AllCcls)))
      BY <1>c, AddedSpares
    <3> QED
      BY <2>2, <3>1 DEF Adding
  <2> QED
    BY <1>c, <2>3, <2>4 DEF Added, Lax
<1>e. Closes(n, s, m)
  BY <1>1, <1>2, AddAcceptCloses
<1>3. Good(n, Accs) /\ Ready(n, m) /\ Len(s) <= Len(n) /\ Len(n) \in Nat
  <2>1. Good(n, Accs) /\ Ready(n, m) /\ Len(s) <= Len(n)
    BY <1>1, <1>2, AddAcceptIs
  <2> QED
    BY <2>1 DEF Good
<1> HIDE DEF n
<1>4. conds \in CondSet(Len(n)) /\ m \in 1 .. Len(n)
  <2>1. Len(nfas) <= Len(n)
    BY <1>1, <1>2, <1>3
  <2> QED
    BY <1>1, <1>3, <2>1, CondSetGrows DEF IInv, Ready
<1>f. Rooted(n, conds)
  <2>1. Bare(n, Sets(conds)) /\ Lax(n, {m} \ {m})
    BY <1>d, <1>e DEF Closes
  <2> QED
    BY <2>1 DEF Rooted, Lax, IInv
<1>5. Good(done.n, Accs) /\ done.conds \in CondSet(Len(done.n)) /\ Rooted(done.n, done.conds)
  BY <1>1, <1>3, <1>4, <1>f, BranchedIs
<1>6. /\ nfas' = done.n /\ conds' = done.conds /\ stk' = stk /\ stk = <<>> /\ pc' = "parsed"
      /\ budget' = budget
  BY DEF DefaultRule, n, s
<1> HIDE DEF done
<1>7. rules' \in Seq(Range(rules'))
  <2>1. PICK x : rules' = Append(rules, x)
    BY DEF DefaultRule
  <2>2. rules \in Seq(Range(rules) \cup {x}) /\ x \in Range(rules) \cup {x}
    BY DEF IInv
  <2>3. rules' \in Seq(Range(rules) \cup {x})
    BY <2>1, <2>2
  <2> QED
    BY <2>3, SeqRange
<1>8. Accs' = Accs
  BY <1>6 DEF Accs
<1>9. StackOK(nfas', stk')
  BY <1>6 DEF StackOK
<1>10. Hung(nfas', stk', Sets(conds')) /\ Distinct(conds')
  BY <1>5, <1>6, RootedHung
<1> QED
  BY <1>5, <1>6, <1>7, <1>8, <1>9, <1>10 DEF IInv

\* It holds at the beginning.
LEMMA InitInv == ASSUME Init PROVE IInv
<1>1. nfas = StartStates /\ stk = <<>> /\ rules = <<>> /\ pc = "rule" /\ budget \in Budgets
  BY DEF Init, StartStates
<1>2. Accs \in SUBSET Nat /\ NIL \in Accs /\ Len(budget) \in Nat
  BY <1>1, AccsAre
<1>3. Good(nfas, Accs) /\ Len(nfas) = 2 * Len(Exclusive)
  BY <1>1, <1>2, StartStatesAre
<1>4. conds \in CondSet(Len(nfas))
  <2>1. conds = [i \in Conditions |-> [set |-> 2 * i - 1, bol |-> 2 * i]]
    BY DEF Init
  <2>2. ASSUME NEW i \in Conditions PROVE 2 * i - 1 \in 1 .. Len(nfas) /\ 2 * i \in 1 .. Len(nfas)
    BY <1>3, ConditionsAre
  <2> QED
    BY <2>1, <2>2 DEF CondSet
<1>5. StackOK(nfas, stk)
  BY <1>1 DEF StackOK
<1>6. Rooted(nfas, conds)
  <2>1. \A t \in 1 .. Len(nfas) : nfas[t].on = EPS /\ nfas[t].acc = NIL
    BY <1>1, <1>2, StartStatesAre
  <2>2. Sets(conds) \subseteq 1 .. Len(nfas)
    BY <1>4 DEF CondSet, Sets
  <2>3. Distinct(conds)
    <3>1. \A i \in Conditions : conds[i].set = 2 * i - 1
      BY DEF Init
    <3> QED
      BY <3>1, ConditionsAre DEF Distinct
  <2> QED
    BY <2>1, <2>2, <2>3 DEF Rooted, Bare, Lax, Lacks
<1>7. Hung(nfas, stk, Sets(conds)) /\ Distinct(conds)
  BY <1>1, <1>6, RootedHung
<1> QED
  BY <1>1, <1>2, <1>3, <1>4, <1>5, <1>7 DEF IInv

\* The two letters of a case-insensitive pattern are made in the order they
\* are written in, or there are none.
LeftFirst == Cases = {} \/ Orders \subseteq {"left"}

\* Every step preserves it.
LEMMA StepInv == ASSUME LeftFirst, IInv, [Next]_vars PROVE IInv'
<1>1. ASSUME NEW c \in Chars, Char(c) PROVE IInv'
  <2>1. Chars \subseteq 0 .. csize - 1
    BY NfaAssumption, Zenon
  <2>2. c \in Syms
    BY <2>1, ClassSyms DEF Alphabet
  <2>3. Reduces(0) /\ Reduce(0, NewState(c), {<<c>>})
    BY <1>1 DEF Char
  <2> QED
    BY <2>2, <2>3, NewStateKeeps
<1>2. ASSUME NEW p \in Cases, NEW order \in Orders, CaseChar(p[1], p[2], order) PROVE IInv'
  <2>1. Cases \subseteq (0 .. csize - 1) \X (0 .. csize - 1)
    BY NfaAssumption, Zenon
  <2>2. p[1] \in Alphabet /\ p[2] \in Alphabet /\ order = "left"
    BY <2>1 DEF Alphabet, LeftFirst
  <2> QED
    BY <1>2, <2>2, CaseCharKeeps
<1>3. ASSUME NEW k \in 1 .. Len(Ccls) + Len(CclOps), Class(k) PROVE IInv'
  <2>1. ClassSym(k) \in Syms
    BY ClassSyms
  <2>2. Reduces(0) /\ Reduce(0, NewState(ClassSym(k)), {<<c>> : c \in Denotes(k)})
    BY <1>3 DEF Class
  <2> QED
    BY <2>1, <2>2, NewStateKeeps
<1>4. ASSUME NEW dot_all \in Dots, Dot(dot_all) PROVE IInv'
  <2>1. Dots \subseteq BOOLEAN
    BY NfaAssumption, Zenon
  <2>2. ClassSym(DotCcl(dot_all)) \in Syms
    BY <2>1, ClassSyms
  <2>3. Reduces(0) /\ Reduce(0, NewState(ClassSym(DotCcl(dot_all))), {<<c>> : c \in Denotes(DotCcl(dot_all))})
    BY <1>4 DEF Dot
  <2> QED
    BY <2>2, <2>3, NewStateKeeps
<1>5. ASSUME EmptyString PROVE IInv'
  BY <1>5, ClassSyms, NewStateKeeps DEF EmptyString
<1>6. ASSUME Star \/ Plus \/ Optional PROVE IInv'
  <2>1. Reduces(1)
    BY <1>6 DEF Star, Plus, Optional
  <2> DEFINE m == Top(1).m
             a == Base(nfas, stk, 1)
  <2>2. OnTop(nfas, m, a, Accs) /\ Accs \in SUBSET Nat /\ NIL \in Accs
    BY <2>1, TopReady
  <2>3. Made(MkClos(nfas, m), nfas, a, Accs) /\ Made(MkPosCl(nfas, m), nfas, a, Accs)
        /\ Made(MkOpt(nfas, m), nfas, a, Accs)
    BY <2>2, MkClosIs, MkPosClIs, MkOptIs
  <2>4. CASE Star
    <3>1. PICK words : Reduce(1, MkClos(nfas, m), words)
      BY <2>4 DEF Star
    <3> QED
      BY <2>1, <2>3, <3>1, TopKeeps
  <2>5. CASE Plus
    <3>1. PICK words : Reduce(1, MkPosCl(nfas, m), words)
      BY <2>5 DEF Plus
    <3> QED
      BY <2>1, <2>3, <3>1, TopKeeps
  <2>6. CASE Optional
    <3>1. PICK words : Reduce(1, MkOpt(nfas, m), words)
      BY <2>6 DEF Optional
    <3> QED
      BY <2>1, <2>3, <3>1, TopKeeps
  <2> QED
    BY <1>6, <2>4, <2>5, <2>6
<1>7. ASSUME UNCHANGED vars PROVE IInv'
  BY <1>7 DEF IInv, vars, Accs, RuleId
<1> QED
  BY <1>1, <1>2, <1>3, <1>4, <1>5, <1>6, <1>7, ConcatenationKeeps, AlternationKeeps,
     RepetitionKeeps, SlashKeeps, FinishPlainKeeps, FinishTrailingKeeps, FinishEolKeeps,
     DefaultRuleKeeps DEF Next, Parse, Terminated

LEMMA InvTypeOK == ASSUME IInv PROVE TypeOK
<1>1. /\ Good(nfas, Accs) /\ nfas \in Seq(NfaState) /\ DOMAIN nfas = 1 .. Len(nfas)
      /\ Len(nfas) \in Nat
  BY SeqFacts DEF IInv, Good
<1>2. ASSUME NEW s \in DOMAIN nfas
      PROVE  /\ nfas[s].on \in Alphabet \cup {EPS} \cup {ClassSym(k) : k \in DOMAIN AllCcls}
             /\ Range(nfas[s].to) \cup {nfas[s].first, nfas[s].last, nfas[s].final} \subseteq DOMAIN nfas
             /\ nfas[s].acc \in Accs
             /\ Len(nfas[s].to) <= IF nfas[s].on = EPS THEN 2 ELSE 1
  <2>1. Fits(nfas[s], Len(nfas), Accs)
    BY <1>1 DEF Good
  <2> QED
    BY <1>1, <2>1 DEF Fits, Syms, Slots, Range
<1>3. ASSUME NEW v \in Range(stk) PROVE v.m \in DOMAIN nfas
  <2>1. stk \in Seq(Range(stk)) /\ DOMAIN stk = 1 .. Len(stk)
    BY SeqFacts DEF IInv, StackOK
  <2>2. PICK i \in 1 .. Len(stk) : v = stk[i]
    BY <2>1 DEF Range
  <2>3. Machine(nfas, v.m, nfas[v.m].first, nfas[v.m].last)
    BY <2>2 DEF IInv, StackOK
  <2> QED
    BY <1>1, <2>3 DEF Machine, Shape
<1>4. ASSUME NEW i \in Conditions PROVE {conds[i].set, conds[i].bol} \subseteq DOMAIN nfas
  BY <1>1 DEF IInv, CondSet
<1> QED
  BY <1>2, <1>3, <1>4 DEF TypeOK, IInv, Accs

LEMMA InvSelfContained == ASSUME IInv PROVE SelfContained
<1>1. /\ stk \in Seq(Range(stk)) /\ DOMAIN stk = 1 .. Len(stk) /\ Len(stk) \in Nat
  BY SeqFacts DEF IInv, StackOK
<1>2. ASSUME NEW i \in DOMAIN stk
      PROVE  /\ {stk[i].m, nfas[stk[i].m].final} \subseteq Extent(stk[i].m)
             /\ \A s \in Extent(stk[i].m) : Range(nfas[s].to) \subseteq Extent(stk[i].m)
             /\ i > 1 => nfas[stk[i - 1].m].last < nfas[stk[i].m].first
  <2>1. /\ Machine(nfas, stk[i].m, nfas[stk[i].m].first, nfas[stk[i].m].last)
        /\ Closed(nfas, nfas[stk[i].m].first, nfas[stk[i].m].last)
    BY <1>1 DEF IInv, StackOK
  <2>2. i > 1 => nfas[stk[i - 1].m].last < nfas[stk[i].m].first
    <3>1. i > 1 => i - 1 \in 1 .. Len(stk) /\ i - 1 < i /\ i \in 1 .. Len(stk)
      BY <1>1
    <3> QED
      BY <3>1 DEF IInv, StackOK
  <2>3. \A s \in Extent(stk[i].m) : Range(nfas[s].to) \subseteq Extent(stk[i].m)
    BY <2>1 DEF Closed, Extent, Range
  <2>4. {stk[i].m, nfas[stk[i].m].final} \subseteq Extent(stk[i].m)
    BY <2>1 DEF Machine, Shape, Extent
  <2> QED
    BY <2>2, <2>3, <2>4
<1>3. stk # <<>> => nfas[Top(1).m].last = Len(nfas)
  <2>1. stk # <<>> => Len(stk) > 0 /\ Len(stk) + 1 - 1 = Len(stk)
    BY <1>1
  <2> QED
    BY <2>1 DEF IInv, StackOK, Top
<1> QED
  BY <1>2, <1>3 DEF SelfContained

----------------------------------------------------------------------------
(* The theorems.                                                           *)

\* Whatever patterns are read, every transition, extent and final state is a
\* state that exists, and mkxtion() never finds "too many transitions".
THEOREM TypeCorrect == ASSUME LeftFirst PROVE Spec => []TypeOK
<1>1. Init => IInv
  BY InitInv
<1>2. IInv /\ [Next]_vars => IInv'
  BY StepInv
<1>3. IInv => TypeOK
  BY InvTypeOK
<1> QED
  BY <1>1, <1>2, <1>3, PTL DEF Spec

\* Whatever patterns are read, the machines on the parser's stack do not share
\* states, no transition leaves one, and the last has the last states made.
THEOREM AlwaysSelfContained == ASSUME LeftFirst PROVE Spec => []SelfContained
<1>1. Init => IInv
  BY InitInv
<1>2. IInv /\ [Next]_vars => IInv'
  BY StepInv
<1>3. IInv => SelfContained
  BY InvSelfContained
<1> QED
  BY <1>1, <1>2, <1>3, PTL DEF Spec

----------------------------------------------------------------------------
(* What the parser counts.  Nothing of this depends on the machines.       *)

RuleRec == [len : Nat, varlength : BOOLEAN, headcnt : Nat, has_nl : BOOLEAN, continued : BOOLEAN]

\* The head of a trailing context lies below the values of the pattern.
Bottom == IF pc = "trail" THEN 1 ELSE 0

ValuesInv ==
  /\ stk \in Seq(Range(stk)) /\ rules \in Seq(Range(rules)) /\ rule \in RuleRec
  /\ pc \in {"rule", "trail", "parsed"} /\ Bottom <= Len(stk)

\* A value put in the place of the last k.
Replaced(t, s, k, x) ==
  /\ t \in Seq(Range(t)) /\ Len(t) = Len(s) - k + 1 /\ t[Len(s) - k + 1] = x
  /\ \A i \in 1 .. Len(s) - k : t[i] = s[i]

LEMMA ReplacedIs ==
  ASSUME NEW s, s \in Seq(Range(s)), NEW k \in 0 .. Len(s), NEW x
  PROVE  Replaced(Append(SubSeq(s, 1, Len(s) - k), x), s, k, x)
<1> DEFINE u == SubSeq(s, 1, Len(s) - k)
           t == Append(u, x)
           l == Len(s) - k
<1>1. Len(s) \in Nat /\ l \in 0 .. Len(s) /\ l \in Nat
  OBVIOUS
<1>2. u \in Seq(Range(s)) /\ Len(u) = l /\ \A i \in 1 .. l : u[i] = s[i]
  <2>1. \A i \in 1 .. l : i \in 1 .. Len(s)
    BY <1>1
  <2> QED
    BY <1>1, <2>1
<1>3. u \in Seq(Range(s) \cup {x}) /\ x \in Range(s) \cup {x}
  BY <1>2
<1> HIDE DEF u
<1>4. t \in Seq(Range(s) \cup {x}) /\ Len(t) = Len(u) + 1 /\ t[Len(u) + 1] = x
      /\ \A i \in 1 .. Len(u) : t[i] = u[i]
  BY <1>3
<1> HIDE DEF t
<1>5. t \in Seq(Range(t))
  BY <1>4, SeqRange
<1> QED
  BY <1>2, <1>4, <1>5 DEF Replaced, u, t

\* What a reduction does to the values.
LEMMA ReduceReplaces ==
  ASSUME ValuesInv, NEW k \in {0, 1, 2}, Reduces(k), NEW r, NEW words, Reduce(k, r, words)
  PROVE  /\ Replaced(stk', stk, k, [m |-> r.m, words |-> words])
         /\ Len(stk) \in Nat /\ Bottom <= Len(stk) - k /\ Bottom \in {0, 1}
         /\ pc' = pc /\ pc \in {"rule", "trail"} /\ rules' = rules /\ Bottom' = Bottom
<1>1. /\ stk' = Append(SubSeq(stk, 1, Len(stk) - k), [m |-> r.m, words |-> words])
      /\ pc' = pc /\ rules' = rules /\ pc \in {"rule", "trail"}
  BY DEF Reduce, Unchanged, Reduces
<1>2. stk \in Seq(Range(stk)) /\ Len(stk) \in Nat /\ Bottom <= Len(stk)
  BY DEF ValuesInv
<1>3. Bottom <= Len(stk) - k
  <2>1. CASE pc = "trail"
    <3>1. Len(Tail(stk)) >= k /\ stk # <<>>
      BY <1>2, <2>1 DEF Reduces, Values, Bottom
    <3>2. Len(Tail(stk)) = Len(stk) - 1
      BY <1>2, <3>1
    <3> QED
      BY <1>2, <2>1, <3>1, <3>2 DEF Bottom
  <2>2. CASE pc # "trail"
    BY <1>2, <2>2 DEF Reduces, Values, Bottom
  <2> QED
    BY <2>1, <2>2
<1>4. k \in 0 .. Len(stk)
  BY <1>2, <1>3 DEF Bottom
<1>5. Replaced(stk', stk, k, [m |-> r.m, words |-> words])
  BY <1>1, <1>2, <1>4, ReplacedIs
<1> QED
  BY <1>1, <1>2, <1>3, <1>5 DEF Bottom

LEMMA ReduceValues ==
  ASSUME ValuesInv, NEW k \in {0, 1, 2}, Reduces(k), NEW r, NEW words, Reduce(k, r, words),
         rule' \in RuleRec
  PROVE  ValuesInv'
<1>1. /\ Replaced(stk', stk, k, [m |-> r.m, words |-> words])
      /\ Len(stk) \in Nat /\ Bottom <= Len(stk) - k /\ Bottom \in {0, 1}
      /\ pc' = pc /\ pc \in {"rule", "trail"} /\ rules' = rules /\ Bottom' = Bottom
  BY ReduceReplaces
<1>2. stk' \in Seq(Range(stk')) /\ Len(stk') = Len(stk) - k + 1
  BY <1>1 DEF Replaced
<1>3. Bottom' <= Len(stk')
  BY <1>1, <1>2
<1>4. rules' \in Seq(Range(rules'))
  BY <1>1 DEF ValuesInv
<1> QED
  BY <1>1, <1>2, <1>3, <1>4 DEF ValuesInv

\* What the reductions do to what is known of the rule.
LEMMA RuleAfter ==
  ASSUME rule \in RuleRec
  PROVE  /\ Varies => rule' \in RuleRec /\ rule'.varlength /\ rule'.headcnt = rule.headcnt
                      /\ rule'.has_nl = rule.has_nl
         /\ \A nl : Counted(nl) => /\ rule' \in RuleRec /\ rule'.len = rule.len + 1
                                   /\ rule'.varlength = rule.varlength /\ rule'.headcnt = rule.headcnt
                                   /\ rule'.has_nl = (rule.has_nl \/ nl)
<1>1. Varies => rule' \in RuleRec /\ rule'.varlength /\ rule'.headcnt = rule.headcnt
                /\ rule'.has_nl = rule.has_nl
  BY DEF Varies, RuleRec
<1>2. ASSUME NEW nl, Counted(nl)
      PROVE  /\ rule' \in RuleRec /\ rule'.len = rule.len + 1
             /\ rule'.varlength = rule.varlength /\ rule'.headcnt = rule.headcnt
             /\ rule'.has_nl = (rule.has_nl \/ nl)
  <2>1. PICK e \in BOOLEAN : e = (rule.has_nl \/ nl)
    OBVIOUS
  <2>2. rule' = [rule EXCEPT !.len = @ + 1, !.has_nl = e]
    BY <1>2, <2>1 DEF Counted, RuleRec
  <2>3. /\ rule'.len = rule.len + 1 /\ rule'.has_nl = e
        /\ rule'.varlength = rule.varlength /\ rule'.headcnt = rule.headcnt
    BY <2>2 DEF RuleRec
  <2>4. rule.len \in Nat /\ rule.len + 1 \in Nat
    BY DEF RuleRec
  <2>5. PICK l \in Nat : l = rule.len + 1
    BY <2>4
  <2>6. rule' = [rule EXCEPT !.len = l, !.has_nl = e]
    BY <2>2, <2>5
  <2>7. rule' \in RuleRec
    BY ONLY <2>1, <2>5, <2>6, rule \in RuleRec DEF RuleRec
  <2> QED
    BY ONLY <2>1, <2>3, <2>7, Zenon
<1> QED
  BY <1>1, <1>2

----------------------------------------------------------------------------
(* The lengths of the values.                                              *)

\* All words have this length.
Uniform(W, n) == \A w \in W : w \in Seq(Alphabet) /\ Len(w) = n

\* p[i] is the length of the values above b up to value i.
Lengths(p, s, b, total) ==
  /\ p \in [b .. Len(s) -> Nat] /\ p[b] = 0 /\ p[Len(s)] = total
  /\ \A i \in b + 1 .. Len(s) : p[i - 1] <= p[i] /\ Uniform(s[i].words, p[i] - p[i - 1])
Measured(s, b, total) == \E p : Lengths(p, s, b, total)

LEMMA CatUniform ==
  ASSUME NEW A, NEW B, NEW m \in Nat, NEW n \in Nat, Uniform(A, m), Uniform(B, n)
  PROVE  Uniform(Cat(A, B), m + n)
<1> SUFFICES ASSUME NEW w \in Cat(A, B) PROVE w \in Seq(Alphabet) /\ Len(w) = m + n
  BY DEF Uniform
<1>1. PICK p \in A \X B : w = p[1] \o p[2]
  BY DEF Cat, Short
<1>2. PICK x, y : x = p[1] /\ y = p[2]
  OBVIOUS
<1>3. x \in Seq(Alphabet) /\ y \in Seq(Alphabet) /\ Len(x) = m /\ Len(y) = n
  BY <1>2 DEF Uniform
<1>4. x \o y \in Seq(Alphabet) /\ Len(x \o y) = Len(x) + Len(y)
  BY <1>3, ConcatFacts
<1> QED
  BY <1>1, <1>2, <1>3, <1>4

\* The values up to n stay, and one more follows them.
LEMMA OneMoreMeasured ==
  ASSUME NEW s, NEW b \in {0, 1}, NEW total \in Nat, NEW p, Lengths(p, s, b, total), Len(s) \in Nat,
         NEW k \in {0, 1, 2}, b <= Len(s) - k, NEW x, NEW t, Replaced(t, s, k, x),
         NEW more \in Nat, p[Len(s) - k] <= more, Uniform(x.words, more - p[Len(s) - k])
  PROVE  Measured(t, b, more)
<1> DEFINE n == Len(s) - k
           q == [i \in b .. n + 1 |-> IF i = n + 1 THEN more ELSE p[i]]
<1>1. n \in Nat /\ b <= n /\ b \in Nat /\ n <= Len(s) /\ Len(t) = n + 1
  BY DEF Replaced
<1>2. \A i \in b .. n : i \in b .. Len(s) /\ p[i] \in Nat /\ i # n + 1 /\ i \in b .. n + 1
  <2>1. p \in [b .. Len(s) -> Nat]
    BY DEF Lengths
  <2> HIDE DEF n
  <2>2. TAKE i \in b .. n
  <2>3. i \in b .. Len(s) /\ i # n + 1 /\ i \in b .. n + 1
    BY ONLY <1>1, <2>2, Len(s) \in Nat
  <2> QED
    BY ONLY <2>1, <2>3
<1>3. n + 1 \in b .. n + 1 /\ b \in b .. n /\ n \in b .. n
  BY <1>1
<1>4. q \in [b .. n + 1 -> Nat] /\ q[n + 1] = more /\ \A i \in b .. n : q[i] = p[i]
  <2>1. \A i \in b .. n + 1 : i = n + 1 \/ i \in b .. n
    BY <1>1
  <2> HIDE DEF n
  <2> QED
    BY <1>2, <1>3, <2>1
<1> HIDE DEF q
<1>5. ASSUME NEW i \in b + 1 .. n + 1
      PROVE  q[i - 1] <= q[i] /\ Uniform(t[i].words, q[i] - q[i - 1])
  <2>1. CASE i = n + 1
    <3>1. i - 1 = n /\ q[i - 1] = p[n] /\ q[i] = more /\ t[i] = x
      BY <1>1, <1>3, <1>4, <2>1 DEF Replaced
    <3> QED
      BY <3>1
  <2>2. CASE i # n + 1
    <3>1. i \in b + 1 .. Len(s) /\ i \in b .. n /\ i - 1 \in b .. n /\ i \in 1 .. n
      BY <1>1, <2>2
    <3>2. q[i] = p[i] /\ q[i - 1] = p[i - 1] /\ t[i] = s[i]
      BY <1>4, <3>1 DEF Replaced
    <3> QED
      BY <3>1, <3>2 DEF Lengths
  <2> QED
    BY <2>1, <2>2
<1>6. Lengths(q, t, b, more)
  <2>1. q[b] = 0
    BY <1>3, <1>4 DEF Lengths
  <2> HIDE DEF n
  <2> QED
    BY <1>1, <1>4, <1>5, <2>1 DEF Lengths
<1> QED
  BY <1>6 DEF Measured

\* One more value of a known length, and two that are joined.
LEMMA PushMeasured ==
  ASSUME NEW s, NEW b \in {0, 1}, NEW total \in Nat, Measured(s, b, total), Len(s) \in Nat, b <= Len(s),
         NEW x, NEW t, Replaced(t, s, 0, x), NEW l \in Nat, Uniform(x.words, l)
  PROVE  Measured(t, b, total + l)
<1>1. PICK p : Lengths(p, s, b, total)
  BY DEF Measured
<1>2. PICK k, more : k = 0 /\ more = total + l
  OBVIOUS
<1>3. /\ k \in {0, 1, 2} /\ b <= Len(s) - k /\ Replaced(t, s, k, x) /\ more \in Nat
      /\ Len(s) - k = Len(s)
  BY <1>2
<1>4. p[Len(s)] = total /\ total <= more /\ more - total = l
  BY <1>1, <1>2 DEF Lengths
<1>5. p[Len(s) - k] <= more /\ Uniform(x.words, more - p[Len(s) - k])
  BY <1>3, <1>4
<1>6. Measured(t, b, more)
  BY <1>1, <1>3, <1>5, OneMoreMeasured
<1> QED
  BY <1>2, <1>6

LEMMA JoinMeasured ==
  ASSUME NEW s, NEW b \in {0, 1}, NEW total \in Nat, Measured(s, b, total), Len(s) \in Nat,
         b <= Len(s) - 2, NEW x, x.words = Cat(s[Len(s) - 1].words, s[Len(s)].words),
         NEW t, Replaced(t, s, 2, x)
  PROVE  Measured(t, b, total)
<1>1. PICK p : Lengths(p, s, b, total)
  BY DEF Measured
<1>2. PICK k, n : k = 2 /\ n = Len(s)
  OBVIOUS
<1>3. /\ n - 2 \in b .. n /\ n - 1 \in b .. n /\ n \in b .. n /\ n - 1 \in b + 1 .. n
      /\ n \in b + 1 .. n /\ (n - 1) - 1 = n - 2
  BY <1>2
<1>4. PICK u \in Nat, v \in Nat, w \in Nat : u = p[n - 2] /\ v = p[n - 1] /\ w = p[n]
  BY <1>1, <1>2, <1>3 DEF Lengths
<1>5. w = total /\ u <= v /\ v <= w /\ Uniform(s[n - 1].words, v - u) /\ Uniform(s[n].words, w - v)
  <2>1. u <= v /\ Uniform(s[n - 1].words, v - u)
    BY <1>1, <1>2, <1>3, <1>4 DEF Lengths
  <2>2. v <= w /\ Uniform(s[n].words, w - v) /\ w = total
    BY <1>1, <1>2, <1>3, <1>4 DEF Lengths
  <2> QED
    BY <2>1, <2>2
<1>6. PICK c, d : c = v - u /\ d = w - v
  OBVIOUS
<1>7. c \in Nat /\ d \in Nat /\ c + d = w - u /\ u <= w
  BY ONLY <1>4, <1>5, <1>6
<1>8. Uniform(x.words, w - u)
  <2>1. Uniform(Cat(s[n - 1].words, s[n].words), c + d)
    BY <1>5, <1>6, <1>7, CatUniform
  <2> QED
    BY <1>2, <1>7, <2>1
<1>9. /\ k \in {0, 1, 2} /\ b <= Len(s) - k /\ Replaced(t, s, k, x) /\ Len(s) - k = n - 2
  BY <1>2
<1>10. p[Len(s) - k] <= total /\ Uniform(x.words, total - p[Len(s) - k])
  BY <1>4, <1>5, <1>7, <1>8, <1>9
<1> QED
  BY <1>1, <1>9, <1>10, OneMoreMeasured

----------------------------------------------------------------------------
(* What is counted is the length.                                          *)

Fixed == rule.varlength \/ Measured(stk, Bottom, rule.len)
HeadFixed == pc = "trail" /\ rule.headcnt > 0 => Uniform(stk[1].words, rule.headcnt)

CountInv == ValuesInv /\ Fixed /\ HeadFixed /\ CutsAtHead

LEMMA HeadStays ==
  ASSUME CountInv, NEW k \in {0, 1, 2}, Reduces(k), NEW r, NEW words, Reduce(k, r, words),
         rule' \in RuleRec, rule'.headcnt = rule.headcnt
  PROVE  ValuesInv' /\ HeadFixed' /\ CutsAtHead'
<1>1. /\ Replaced(stk', stk, k, [m |-> r.m, words |-> words])
      /\ Len(stk) \in Nat /\ Bottom <= Len(stk) - k
      /\ pc' = pc /\ rules' = rules
  BY ReduceReplaces DEF CountInv
<1>2. HeadFixed'
  <2>1. CASE pc = "trail"
    <3>1. 1 \in 1 .. Len(stk) - k
      BY <1>1, <2>1 DEF Bottom
    <3>2. stk'[1] = stk[1]
      BY <1>1, <3>1 DEF Replaced
    <3> QED
      BY <1>1, <3>2 DEF CountInv, HeadFixed
  <2>2. CASE pc # "trail"
    BY <1>1, <2>2 DEF HeadFixed
  <2> QED
    BY <2>1, <2>2
<1>3. CutsAtHead'
  BY <1>1 DEF CountInv, CutsAtHead
<1> QED
  BY <1>2, <1>3, ReduceValues DEF CountInv

\* One more character, and none.
LEMMA CountedCounts ==
  ASSUME CountInv, Reduces(0), NEW r, NEW words, Reduce(0, r, words), NEW nl, Counted(nl),
         Uniform(words, 1)
  PROVE  CountInv'
<1>1. /\ rule' \in RuleRec /\ rule'.len = rule.len + 1
      /\ rule'.varlength = rule.varlength /\ rule'.headcnt = rule.headcnt
  BY RuleAfter DEF CountInv, ValuesInv
<1>2. PICK k, b, l, n, x : /\ k = 0 /\ b = Bottom /\ l = 1 /\ n = rule.len
                          /\ x = [m |-> r.m, words |-> words]
  OBVIOUS
<1>3. k \in {0, 1, 2} /\ Reduces(k) /\ Reduce(k, r, words)
  BY <1>2
<1>4. ValuesInv' /\ HeadFixed' /\ CutsAtHead'
  BY <1>1, <1>3, HeadStays
<1>5. /\ Replaced(stk', stk, k, x) /\ Len(stk) \in Nat /\ b <= Len(stk) - k /\ b \in {0, 1}
      /\ Bottom' = Bottom
  BY <1>2, <1>3, ReduceReplaces DEF CountInv
<1>6. Fixed'
  <2>1. CASE rule.varlength
    BY <1>1, <2>1 DEF Fixed
  <2>2. CASE ~rule.varlength
    <3>1. Measured(stk, b, n)
      BY <1>2, <2>2 DEF CountInv, Fixed
    <3>2. n \in Nat /\ l \in Nat /\ b <= Len(stk) /\ x.words = words
      BY <1>2, <1>5 DEF CountInv, ValuesInv, RuleRec
    <3>3. Replaced(stk', stk, 0, x) /\ Uniform(x.words, l)
      BY <1>2, <1>5, <3>2
    <3>4. Measured(stk', b, n + l)
      BY <1>5, <3>1, <3>2, <3>3, PushMeasured
    <3> QED
      BY <1>1, <1>2, <1>5, <3>4 DEF Fixed
  <2> QED
    BY <2>1, <2>2
<1> QED
  BY <1>4, <1>6 DEF CountInv

LEMMA EmptyStringCounts == ASSUME CountInv, EmptyString PROVE CountInv'
<1>1. rule' = rule /\ rule \in RuleRec
  BY DEF EmptyString, CountInv, ValuesInv
<1>2. PICK r, words : Reduces(0) /\ Reduce(0, r, words) /\ words = {<<>>}
  BY DEF EmptyString
<1>3. PICK k, b, l, n, x : /\ k = 0 /\ b = Bottom /\ l = 0 /\ n = rule.len
                          /\ x = [m |-> r.m, words |-> words]
  OBVIOUS
<1>4. k \in {0, 1, 2} /\ Reduces(k) /\ Reduce(k, r, words)
  BY <1>2, <1>3
<1>5. ValuesInv' /\ HeadFixed' /\ CutsAtHead'
  BY <1>1, <1>4, HeadStays
<1>6. /\ Replaced(stk', stk, k, x) /\ Len(stk) \in Nat /\ b <= Len(stk) - k /\ b \in {0, 1}
      /\ Bottom' = Bottom
  BY <1>3, <1>4, ReduceReplaces DEF CountInv
<1>7. Fixed'
  <2>1. CASE rule.varlength
    BY <1>1, <2>1 DEF Fixed
  <2>2. CASE ~rule.varlength
    <3>1. Measured(stk, b, n)
      BY <1>3, <2>2 DEF CountInv, Fixed
    <3>2. n \in Nat /\ l \in Nat /\ b <= Len(stk) /\ x.words = {<<>>} /\ n + l = n
      BY <1>2, <1>3, <1>6 DEF CountInv, ValuesInv, RuleRec
    <3>3. Replaced(stk', stk, 0, x)
      BY <1>3, <1>6
    <3>4. Uniform(x.words, l)
      <4>1. <<>> \in Seq(Alphabet) /\ Len(<<>>) = 0
        OBVIOUS
      <4> QED
        BY ONLY <1>3, <3>2, <4>1 DEF Uniform
    <3>5. Measured(stk', b, n + l)
      BY <1>6, <3>1, <3>2, <3>3, <3>4, PushMeasured
    <3> QED
      BY <1>1, <1>3, <1>6, <3>2, <3>5 DEF Fixed
  <2> QED
    BY <2>1, <2>2
<1> QED
  BY <1>5, <1>7 DEF CountInv

LEMMA ConcatenationCounts == ASSUME CountInv, Concatenation PROVE CountInv'
<1>1. rule' = rule /\ rule \in RuleRec
  BY DEF Concatenation, CountInv, ValuesInv
<1>2. PICK r, words : Reduces(2) /\ Reduce(2, r, words) /\ words = Cat(Top(2).words, Top(1).words)
  BY DEF Concatenation
<1>3. PICK k, b, n, x : k = 2 /\ b = Bottom /\ n = rule.len /\ x = [m |-> r.m, words |-> words]
  OBVIOUS
<1>4. k \in {0, 1, 2} /\ Reduces(k) /\ Reduce(k, r, words)
  BY <1>2, <1>3
<1>5. ValuesInv' /\ HeadFixed' /\ CutsAtHead'
  BY <1>1, <1>4, HeadStays
<1>6. /\ Replaced(stk', stk, k, x) /\ Len(stk) \in Nat /\ b <= Len(stk) - k /\ b \in {0, 1}
      /\ Bottom' = Bottom
  BY <1>3, <1>4, ReduceReplaces DEF CountInv
<1>7. Fixed'
  <2>1. CASE rule.varlength
    BY <1>1, <2>1 DEF Fixed
  <2>2. CASE ~rule.varlength
    <3>1. Measured(stk, b, n)
      BY <1>3, <2>2 DEF CountInv, Fixed
    <3>2. n \in Nat /\ b <= Len(stk) - 2 /\ Replaced(stk', stk, 2, x)
      BY <1>3, <1>6 DEF CountInv, ValuesInv, RuleRec
    <3>3. Len(stk) + 1 - 2 = Len(stk) - 1 /\ Len(stk) + 1 - 1 = Len(stk)
      BY <1>6
    <3>4. x.words = Cat(stk[Len(stk) - 1].words, stk[Len(stk)].words)
      BY <1>2, <1>3, <3>3 DEF Top
    <3>5. Measured(stk', b, n)
      BY <1>6, <3>1, <3>2, <3>4, JoinMeasured
    <3> QED
      BY <1>1, <1>3, <1>6, <3>5 DEF Fixed
  <2> QED
    BY <2>1, <2>2
<1> QED
  BY <1>5, <1>7 DEF CountInv

\* The other operators.
LEMMA VariesCounts ==
  ASSUME CountInv, NEW k \in {0, 1, 2}, Reduces(k), NEW r, NEW words, Reduce(k, r, words), Varies
  PROVE  CountInv'
<1>1. rule' \in RuleRec /\ rule'.varlength /\ rule'.headcnt = rule.headcnt
  BY RuleAfter DEF CountInv, ValuesInv
<1>2. ValuesInv' /\ HeadFixed' /\ CutsAtHead'
  BY <1>1, HeadStays
<1> QED
  BY <1>1, <1>2 DEF CountInv, Fixed

\* The '/'.
LEMMA SlashRule ==
  ASSUME Slash, rule \in RuleRec
  PROVE  /\ rule' \in RuleRec /\ rule'.len = 0 /\ ~rule'.varlength /\ rule'.has_nl = rule.has_nl
         /\ rule'.headcnt > 0 => ~rule.varlength /\ rule'.headcnt = rule.len
<1>1. PICK n \in Nat : n = (IF rule.varlength THEN 0 ELSE rule.len)
  BY DEF RuleRec
<1>2. rule' = [rule EXCEPT !.headcnt = n, !.varlength = FALSE, !.len = 0]
  BY <1>1 DEF Slash
<1>3. rule'.len = 0 /\ ~rule'.varlength /\ rule'.headcnt = n /\ rule'.has_nl = rule.has_nl
  BY <1>2 DEF RuleRec
<1>4. rule \in RuleRec
  OBVIOUS
<1>5. rule' \in RuleRec
  BY ONLY <1>1, <1>2, <1>4 DEF RuleRec
<1> QED
  BY <1>1, <1>3, <1>5

LEMMA SlashCounts == ASSUME CountInv, Slash PROVE CountInv'
<1>1. /\ pc = "rule" /\ Len(stk) = 1 /\ pc' = "trail" /\ stk' = stk /\ rules' = rules
      /\ rule \in RuleRec
  BY DEF Slash, CountInv, ValuesInv
<1>2. /\ rule' \in RuleRec /\ rule'.len = 0 /\ ~rule'.varlength
      /\ rule'.headcnt > 0 => ~rule.varlength /\ rule'.headcnt = rule.len
  BY <1>1, SlashRule
<1>3. Bottom = 0 /\ Bottom' = 1
  BY <1>1 DEF Bottom
<1>4. ValuesInv'
  <2>1. stk \in Seq(Range(stk)) /\ rules \in Seq(Range(rules))
    BY DEF CountInv, ValuesInv
  <2>2. stk' \in Seq(Range(stk')) /\ rules' \in Seq(Range(rules')) /\ Bottom' <= Len(stk')
    BY <1>1, <1>3, <2>1
  <2> QED
    BY <1>1, <1>2, <2>2 DEF ValuesInv
<1>5. Fixed'
  <2> DEFINE p == [i \in 1 .. 1 |-> 0]
  <2>1. Lengths(p, stk, 1, 0)
    BY <1>1 DEF Lengths
  <2>2. Measured(stk, 1, 0)
    BY <2>1 DEF Measured
  <2> QED
    BY <1>1, <1>2, <1>3, <2>2 DEF Fixed
<1>6. HeadFixed'
  <2> SUFFICES ASSUME rule'.headcnt > 0 PROVE Uniform(stk[1].words, rule'.headcnt)
    BY <1>1 DEF HeadFixed
  <2>1. Measured(stk, 0, rule.len)
    BY <1>2, <1>3 DEF CountInv, Fixed
  <2>2. PICK p : Lengths(p, stk, 0, rule.len)
    BY <2>1 DEF Measured
  <2>3. p[0] = 0 /\ p[1] = rule.len /\ Uniform(stk[1].words, p[1] - p[1 - 1])
    <3>1. 1 \in 0 + 1 .. Len(stk)
      BY <1>1
    <3> QED
      BY <1>1, <2>2, <3>1 DEF Lengths
  <2>4. p[1] - p[1 - 1] = rule.len
    BY <1>1, <2>3 DEF RuleRec
  <2> QED
    BY <1>2, <2>3, <2>4
<1>7. CutsAtHead'
  BY <1>1 DEF CountInv, CutsAtHead
<1> QED
  BY <1>4, <1>5, <1>6, <1>7 DEF CountInv

\* How a match is cut: the rules of this kind are those that CutsAtHead wants.
Cut(info) ==
  ~info.variable =>
    \A h \in info.head, t \in info.trail :
      IF info.headcnt > 0 THEN Len(h) = info.headcnt ELSE Len(t) = info.trailcnt

LEMMA OneMoreCut ==
  ASSUME ValuesInv, CutsAtHead, NEW x, rules' = Append(rules, x), Cut(x)
  PROVE  CutsAtHead' /\ rules' \in Seq(Range(rules'))
<1>1. rules \in Seq(Range(rules) \cup {x}) /\ Len(rules) \in Nat
  BY DEF ValuesInv
<1>2. rules' \in Seq(Range(rules) \cup {x})
  BY <1>1
<1>3. rules' \in Seq(Range(rules'))
  BY <1>2, SeqRange
<1>4. ASSUME NEW k \in DOMAIN rules' PROVE Cut(rules'[k])
  <2>1. CASE k = Len(rules) + 1
    BY <1>1, <2>1
  <2>2. CASE k # Len(rules) + 1
    <3>1. k \in DOMAIN rules /\ rules'[k] = rules[k]
      BY <1>1, <1>4, <2>2
    <3> QED
      BY <3>1 DEF CutsAtHead, Cut
  <2> QED
    BY <2>1, <2>2
<1> QED
  BY <1>3, <1>4 DEF CutsAtHead, Cut

LEMMA FinishCounts ==
  ASSUME CountInv, NEW nf, NEW m, NEW info, NEW bol, NEW list, NEW next \in BOOLEAN,
         FinishRule(nf, m, info, bol, list, next), Cut(info)
  PROVE  CountInv'
<1>1. /\ rule' = NewRule(next) /\ stk' = <<>> /\ pc' = "rule"
  BY DEF FinishRule
<1>2. PICK x : /\ rules' = Append(rules, x)
               /\ x.variable = info.variable /\ x.headcnt = info.headcnt /\ x.trailcnt = info.trailcnt
               /\ x.head = info.head /\ x.trail = info.trail
  BY DEF FinishRule
<1>3. Cut(x)
  BY <1>2 DEF Cut
<1>4. CutsAtHead' /\ rules' \in Seq(Range(rules'))
  BY <1>2, <1>3, OneMoreCut DEF CountInv
<1>5. rule' \in RuleRec /\ rule'.len = 0 /\ Bottom' = 0 /\ Len(stk') = 0 /\ stk' \in Seq(Range(stk'))
  BY <1>1 DEF NewRule, RuleRec, Bottom
<1>6. ValuesInv' /\ HeadFixed'
  BY <1>1, <1>4, <1>5 DEF ValuesInv, HeadFixed
<1>7. Fixed'
  <2> DEFINE p == [i \in 0 .. 0 |-> 0]
  <2>1. Lengths(p, stk', 0, 0)
    BY <1>5 DEF Lengths
  <2>2. Measured(stk', 0, 0)
    BY <2>1 DEF Measured
  <2> QED
    BY <1>5, <2>2 DEF Fixed
<1> QED
  BY <1>4, <1>6, <1>7 DEF CountInv

LEMMA FinishTrailingCounts ==
  ASSUME CountInv, NEW bol, NEW list, NEW next \in BOOLEAN, FinishTrailing(bol, list, next)
  PROVE  CountInv'
<1>1. pc = "trail" /\ Len(stk) = 2 /\ rule \in RuleRec
  BY DEF FinishTrailing, CountInv, ValuesInv
<1>2. PICK nf, m, info :
        /\ FinishRule(nf, m, info, bol, list, next)
        /\ info = [variable |-> IsVariable,
                   headcnt |-> IF rule.continued THEN 0 ELSE rule.headcnt,
                   trailcnt |-> IF IsVariable THEN 0 ELSE rule.len,
                   head |-> stk[1].words, trail |-> stk[2].words]
  BY DEF FinishTrailing
<1>3. /\ info.variable = IsVariable /\ info.head = stk[1].words /\ info.trail = stk[2].words
      /\ ~IsVariable => info.headcnt = rule.headcnt /\ info.trailcnt = rule.len
  BY <1>2 DEF IsVariable
<1>4. ASSUME ~IsVariable, NEW h \in stk[1].words, NEW t \in stk[2].words
      PROVE  IF rule.headcnt > 0 THEN Len(h) = rule.headcnt ELSE Len(t) = rule.len
  <2>1. CASE rule.headcnt > 0
    BY <1>1, <1>4, <2>1 DEF CountInv, HeadFixed, Uniform
  <2>2. CASE ~(rule.headcnt > 0)
    <3>1. rule.headcnt = 0 /\ ~rule.varlength /\ Bottom = 1
      BY <1>1, <1>4, <2>2 DEF IsVariable, RuleRec, Bottom
    <3>2. PICK p : Lengths(p, stk, 1, rule.len)
      BY <3>1 DEF CountInv, Fixed, Measured
    <3>3. p[1] = 0 /\ p[2] = rule.len /\ Uniform(stk[2].words, p[2] - p[2 - 1])
      <4>1. 2 \in 1 + 1 .. Len(stk)
        BY <1>1
      <4> QED
        BY <1>1, <3>2, <4>1 DEF Lengths
    <3>4. p[2] - p[2 - 1] = rule.len
      BY <1>1, <3>3 DEF RuleRec
    <3> QED
      BY <1>4, <2>2, <3>3, <3>4 DEF Uniform
  <2> QED
    BY <2>1, <2>2
<1>5. Cut(info)
  BY <1>3, <1>4 DEF Cut
<1> QED
  BY <1>2, <1>5, FinishCounts

LEMMA DefaultRuleCounts == ASSUME CountInv, DefaultRule PROVE CountInv'
<1>1. pc = "rule" /\ pc' = "parsed" /\ stk' = stk /\ rule' = rule
  BY DEF DefaultRule
<1>2. PICK x : rules' = Append(rules, x) /\ x.headcnt = 0 /\ x.trailcnt = 0 /\ x.trail = {<<>>}
  BY DEF DefaultRule
<1>3. Cut(x)
  BY <1>2 DEF Cut
<1>4. CutsAtHead' /\ rules' \in Seq(Range(rules'))
  BY <1>2, <1>3, OneMoreCut DEF CountInv
<1>5. Bottom' = Bottom /\ HeadFixed'
  BY <1>1 DEF Bottom, HeadFixed
<1>6. ValuesInv' /\ Fixed'
  BY <1>1, <1>4, <1>5 DEF CountInv, ValuesInv, Fixed
<1> QED
  BY <1>4, <1>5, <1>6 DEF CountInv

LEMMA InitCounts == ASSUME Init PROVE CountInv
<1>1. stk = <<>> /\ rules = <<>> /\ rule = NewRule(FALSE) /\ pc = "rule"
  BY DEF Init
<1>2. rule \in RuleRec /\ rule.len = 0 /\ Bottom = 0 /\ Len(stk) = 0 /\ stk \in Seq(Range(stk))
  BY <1>1 DEF NewRule, RuleRec, Bottom
<1>3. ValuesInv /\ HeadFixed /\ CutsAtHead
  <2>1. rules \in Seq(Range(rules)) /\ DOMAIN rules = {}
    BY <1>1
  <2>2. ValuesInv
    <3>1. pc \in {"rule", "trail", "parsed"} /\ Bottom <= Len(stk)
      BY ONLY <1>1, <1>2
    <3> QED
      BY ONLY <1>2, <2>1, <3>1 DEF ValuesInv
  <2> QED
    BY <1>1, <2>1, <2>2 DEF HeadFixed, CutsAtHead
<1>4. Fixed
  <2> DEFINE p == [i \in 0 .. 0 |-> 0]
  <2>1. Lengths(p, stk, 0, 0)
    BY <1>2 DEF Lengths
  <2>2. Measured(stk, 0, 0)
    BY <2>1 DEF Measured
  <2> QED
    BY <1>2, <2>2 DEF Fixed
<1> QED
  BY <1>3, <1>4 DEF CountInv

\* The words of characters.
LEMMA OneCharacter ==
  /\ \A c \in Alphabet : Uniform({<<c>>}, 1)
  /\ \A c, d \in Alphabet : Uniform({<<c>>, <<d>>}, 1)
  /\ \A k : Denotes(k) \subseteq Alphabet /\ Uniform({<<c>> : c \in Denotes(k)}, 1)
<1>1. \A k : Denotes(k) \subseteq Alphabet
  BY DEF Denotes, Members
<1>2. \A c \in Alphabet : <<c>> \in Seq(Alphabet) /\ Len(<<c>>) = 1
  OBVIOUS
<1> QED
  BY <1>1, <1>2 DEF Uniform

LEMMA StepCounts == ASSUME CountInv, [Next]_vars PROVE CountInv'
<1>1. ASSUME NEW c \in Chars, Char(c) PROVE CountInv'
  <2>1. Chars \subseteq 0 .. csize - 1
    BY NfaAssumption, Zenon
  <2>2. Uniform({<<c>>}, 1)
    BY <2>1, OneCharacter DEF Alphabet
  <2> QED
    BY <1>1, <2>2, CountedCounts DEF Char
<1>2. ASSUME NEW p \in Cases, NEW order \in Orders, CaseChar(p[1], p[2], order) PROVE CountInv'
  <2>1. Cases \subseteq (0 .. csize - 1) \X (0 .. csize - 1)
    BY NfaAssumption, Zenon
  <2>2. Uniform({<<p[1]>>, <<p[2]>>}, 1)
    BY <2>1, OneCharacter DEF Alphabet
  <2>3. PICK r : Reduces(0) /\ Reduce(0, r, {<<p[1]>>, <<p[2]>>}) /\ Counted(p[1] = NL)
    BY <1>2 DEF CaseChar
  <2> QED
    BY <2>2, <2>3, CountedCounts
<1>3. ASSUME NEW k \in 1 .. Len(Ccls) + Len(CclOps), Class(k) PROVE CountInv'
  BY <1>3, OneCharacter, CountedCounts DEF Class
<1>4. ASSUME NEW dot_all \in Dots, Dot(dot_all) PROVE CountInv'
  BY <1>4, OneCharacter, CountedCounts DEF Dot
<1>5. ASSUME Alternation \/ Star \/ Plus \/ Optional PROVE CountInv'
  BY <1>5, VariesCounts DEF Alternation, Star, Plus, Optional
<1>6. ASSUME NEW r \in Repeats, Repeat(r[1], r[2]) \/ RepeatFrom(r[1]) \/ RepeatExactly(r[1])
      PROVE  CountInv'
  BY <1>6, VariesCounts DEF Repeat, RepeatFrom, RepeatExactly
<1>7. ASSUME NEW bol \in Bols, NEW next \in BOOLEAN, NEW list \in Lists,
             FinishPlain(bol, list, next) \/ FinishEol(bol, list, next)
      PROVE  CountInv'
  <2>1. CASE FinishPlain(bol, list, next)
    <3>1. PICK nf, m, info : /\ FinishRule(nf, m, info, bol, list, next)
                             /\ info.headcnt = 0 /\ info.trailcnt = 0 /\ info.trail = {<<>>}
      BY <2>1 DEF FinishPlain
    <3>2. Cut(info)
      BY <3>1 DEF Cut
    <3> QED
      BY <3>1, <3>2, FinishCounts
  <2>2. CASE FinishEol(bol, list, next)
    <3>1. PICK nf, m, info : /\ FinishRule(nf, m, info, bol, list, next)
                             /\ info.headcnt = 0 /\ info.trailcnt = 1 /\ info.trail = {<<NL>>}
      BY <2>2 DEF FinishEol
    <3>2. Cut(info)
      BY <3>1 DEF Cut
    <3> QED
      BY <3>1, <3>2, FinishCounts
  <2> QED
    BY <1>7, <2>1, <2>2
<1>8. ASSUME UNCHANGED vars PROVE CountInv'
  BY <1>8 DEF CountInv, ValuesInv, Fixed, HeadFixed, CutsAtHead, Bottom, vars
<1> QED
  BY <1>1, <1>2, <1>3, <1>4, <1>5, <1>6, <1>7, <1>8, EmptyStringCounts, ConcatenationCounts,
     SlashCounts, FinishTrailingCounts, DefaultRuleCounts DEF Next, Parse, Terminated

\* What the action of a rule gives back is its trailing context: the lengths
\* that the productions for singletons count in rulelen, and keep in headcnt and
\* trailcnt, are those of every word of the head, or of the context.
THEOREM AlwaysCutsAtHead == Spec => []CutsAtHead
<1>1. Init => CountInv
  BY InitCounts
<1>2. CountInv /\ [Next]_vars => CountInv'
  BY StepCounts
<1>3. CountInv => CutsAtHead
  BY DEF CountInv
<1> QED
  BY <1>1, <1>2, <1>3, PTL DEF Spec

----------------------------------------------------------------------------
(* Words without a newline.                                                *)

\* Words over a set of characters.
Over(W, V) == W \subseteq Seq(V)

LEMMA CatOver == ASSUME NEW V, NEW A, NEW B, Over(A, V), Over(B, V) PROVE Over(Cat(A, B), V)
<1> SUFFICES ASSUME NEW w \in Cat(A, B) PROVE w \in Seq(V)
  BY DEF Over
<1>1. PICK p \in A \X B : w = p[1] \o p[2]
  BY DEF Cat, Short
<1>2. PICK x, y : x = p[1] /\ y = p[2]
  OBVIOUS
<1>3. x \in Seq(V) /\ y \in Seq(V)
  BY <1>2 DEF Over
<1>4. x \o y \in Seq(V)
  BY <1>3, ConcatFacts
<1> QED
  BY <1>1, <1>2, <1>4

LEMMA TimesOver == ASSUME NEW V, NEW A, Over(A, V), NEW num \in Nat PROVE Over(Times(A, num), V)
<1> DEFINE base == {<<>>}
           next(p) == Cat(p, A)
           n[i \in 0 .. num] == IF i = 0 THEN base ELSE next(n[i - 1])
           S == SUBSET Seq(V)
           G == [q \in (0 .. num) \X S |-> next(q[2])]
<1>1. base \in S
  OBVIOUS
<1>2. ASSUME NEW p \in S PROVE next(p) \in S
  BY CatOver DEF Over
<1> HIDE DEF S, next, base
<1>3. n = [i \in 0 .. num |-> IF i = 0 THEN base ELSE next(n[i - 1])]
  <2>1. PICK f : Recursion(f, 0, num, base, G)
    BY RecursionExists
  <2>2. f[0] \in S
    BY <1>1, <2>1 DEF Recursion
  <2>3. ASSUME NEW i \in 1 .. num, f[i - 1] \in S PROVE f[i] = next(f[i - 1]) /\ f[i] \in S
    <3>1. f[i] = G[<<i, f[i - 1]>>]
      <4>1. i \in 0 .. num /\ i # 0
        OBVIOUS
      <4> HIDE DEF G
      <4> QED
        BY <2>1, <4>1 DEF Recursion
    <3>2. G[<<i, f[i - 1]>>] = next(f[i - 1])
      BY <2>3
    <3> QED
      BY <1>2, <2>3, <3>1, <3>2
  <2>4. \A i \in 0 + 1 .. num : f[i - 1] \in S => f[i] \in S
    BY <2>3
  <2>5. \A i \in 0 .. num : f[i] \in S
    BY <2>2, <2>4, PassedOn
  <2>6. \A i \in 1 .. num : f[i] = next(f[i - 1])
    BY <2>3, <2>5
  <2>7. f = [i \in 0 .. num |-> IF i = 0 THEN base ELSE next(f[i - 1])]
    <3>1. f = [i \in 0 .. num |-> f[i]] /\ f[0] = base
      BY <2>1 DEF Recursion
    <3>2. ASSUME NEW i \in 0 .. num
          PROVE  f[i] = IF i = 0 THEN base ELSE next(f[i - 1])
      <4>1. CASE i = 0
        BY <3>1, <4>1
      <4>2. CASE i # 0
        <5>1. i \in 1 .. num
          BY <4>2
        <5> QED
          BY <2>6, <4>2, <5>1
      <4> QED
        BY <4>1, <4>2
    <3> QED
      BY <3>1, <3>2
  <2> QED
    BY <2>7 DEF n
<1> HIDE DEF n
<1>4. n[0] \in S
  BY <1>1, <1>3
<1>5. \A i \in 0 + 1 .. num : n[i - 1] \in S => n[i] \in S
  BY <1>2, <1>3
<1>6. n[num] \in S
  BY <1>4, <1>5, PassedOn
<1>7. Times(A, num) = n[num]
  BY DEF Times, n, next, base
<1> QED
  BY <1>6, <1>7 DEF Over, S

LEMMA RepetitionsOver ==
  ASSUME NEW V, NEW A, Over(A, V), NEW lb \in Nat
  PROVE  Over(AtLeast(A, lb), V) /\ \A ub \in Nat : Over(Between(A, lb, ub), V)
<1>1. ASSUME NEW ub \in Nat PROVE Over(Between(A, lb, ub), V)
  <2>1. \A n \in lb .. ub : Over(Times(A, n), V)
    BY TimesOver
  <2> QED
    BY <2>1 DEF Between, Over
<1>2. MaxWord \in Nat
  BY NfaAssumption, Zenon
<1>3. lb + MaxWord \in Nat
  BY <1>2
<1> QED
  BY <1>1, <1>3 DEF AtLeast

Clean(W) == W \subseteq Seq(Alphabet \ {NL})

LEMMA CleanOver == ASSUME NEW W PROVE Clean(W) <=> Over(W, Alphabet \ {NL})
BY DEF Clean, Over

LEMMA CatClean == ASSUME NEW A, NEW B, Clean(A), Clean(B) PROVE Clean(Cat(A, B))
BY CleanOver, CatOver

LEMMA TimesClean == ASSUME NEW A, Clean(A), NEW num \in Nat PROVE Clean(Times(A, num))
BY CleanOver, TimesOver

LEMMA RepetitionsClean ==
  ASSUME NEW A, Clean(A), NEW lb \in Nat
  PROVE  Clean(AtLeast(A, lb)) /\ \A ub \in Nat : Clean(Between(A, lb, ub))
BY CleanOver, RepetitionsOver

----------------------------------------------------------------------------
(* What the classes know of newlines.                                      *)

LEMMA ConcatElements ==
  ASSUME NEW V, NEW s \in Seq(V), NEW t \in Seq(V)
  PROVE  /\ \A i \in 1 .. Len(s) : (s \o t)[i] = s[i]
         /\ \A i \in 1 .. Len(t) : (s \o t)[Len(s) + i] = t[i]
OBVIOUS

LEMMA ClassIs ==
  /\ \A k \in 1 .. Len(Ccls) : Classes[k] = Bracketed(Ccls[k]) /\ AllCcls[k] = Classes[k]
  /\ \A k \in 1 .. Len(CclOps) : Classes[Len(Ccls) + k] = Combined(CclOps[k])
  /\ \A k \in 1 .. Len(CclOps) : AllCcls[Len(Ccls) + k] = Combined(CclOps[k])
  /\ AllCcls[Len(Ccls) + Len(CclOps) + 1] = Bracketed(ccldot)
  /\ AllCcls[Len(Ccls) + Len(CclOps) + 2] = Bracketed(cclany)
  /\ AllCcls[Len(Ccls) + Len(CclOps) + 3] = Bracketed(cclany)
<1> DEFINE a == [k \in DOMAIN Ccls |-> Bracketed(Ccls[k])]
           b == [k \in DOMAIN CclOps |-> Combined(CclOps[k])]
           d == <<Bracketed(ccldot), Bracketed(cclany)>>
           V == Range(a) \cup Range(b) \cup {Bracketed(ccldot), Bracketed(cclany)}
<1>1. Ccls \in Seq(CclSet) /\ CclOps \in Seq([op : {"{-}", "{+}"}, a : CclSet, b : CclSet])
  BY NfaAssumption, Zenon
<1>2. /\ Len(Ccls) \in Nat /\ DOMAIN Ccls = 1 .. Len(Ccls)
      /\ Len(CclOps) \in Nat /\ DOMAIN CclOps = 1 .. Len(CclOps)
  BY <1>1, SeqFacts
<1>3. PICK la, lb : la = Len(Ccls) /\ lb = Len(CclOps)
  OBVIOUS
<1>4. /\ la \in Nat /\ DOMAIN a = 1 .. la /\ \A k \in 1 .. la : a[k] = Bracketed(Ccls[k]) /\ a[k] \in V
      /\ a = [k \in 1 .. la |-> a[k]]
  BY <1>2, <1>3 DEF Range
<1>5. /\ lb \in Nat /\ DOMAIN b = 1 .. lb /\ \A k \in 1 .. lb : b[k] = Combined(CclOps[k]) /\ b[k] \in V
      /\ b = [k \in 1 .. lb |-> b[k]]
  BY <1>2, <1>3 DEF Range
<1>6. /\ d \in Seq(V) /\ Len(d) = 2 /\ d[1] = Bracketed(ccldot) /\ d[2] = Bracketed(cclany)
      /\ Bracketed(cclany) \in V
  OBVIOUS
<1>7. Classes = (a \o b) \o d
  BY DEF Classes
<1> HIDE DEF a, b, d, V
<1>8. a \in Seq(V) /\ Len(a) = la
  BY <1>4
<1>9. b \in Seq(V) /\ Len(b) = lb
  BY <1>5
<1>10. PICK ab : ab = a \o b
  OBVIOUS
<1>11. /\ ab \in Seq(V) /\ Len(ab) = la + lb
       /\ \A i \in 1 .. la : ab[i] = a[i]
       /\ \A i \in 1 .. lb : ab[la + i] = b[i]
  <2>1. a \o b \in Seq(V) /\ Len(a \o b) = Len(a) + Len(b)
    BY <1>8, <1>9, ConcatFacts
  <2>2. /\ \A i \in 1 .. Len(a) : (a \o b)[i] = a[i]
        /\ \A i \in 1 .. Len(b) : (a \o b)[Len(a) + i] = b[i]
    BY <1>8, <1>9, ConcatElements
  <2> QED
    BY <1>8, <1>9, <1>10, <2>1, <2>2
<1>12. /\ Classes \in Seq(V) /\ Len(Classes) = la + lb + 2
       /\ \A i \in 1 .. la + lb : Classes[i] = ab[i]
       /\ Classes[la + lb + 1] = d[1] /\ Classes[la + lb + 2] = d[2]
  <2>1. Classes = ab \o d
    BY <1>7, <1>10
  <2>2. ab \o d \in Seq(V) /\ Len(ab \o d) = Len(ab) + Len(d)
    BY <1>6, <1>11, ConcatFacts
  <2>3. /\ \A i \in 1 .. Len(ab) : (ab \o d)[i] = ab[i]
        /\ \A i \in 1 .. Len(d) : (ab \o d)[Len(ab) + i] = d[i]
    BY <1>6, <1>11, ConcatElements
  <2>4. PICK n \in Nat : n = la + lb
    BY <1>4, <1>5
  <2>5. 1 \in 1 .. Len(d) /\ 2 \in 1 .. Len(d)
    BY <1>6
  <2> QED
    BY <1>6, <1>11, <2>1, <2>2, <2>3, <2>4, <2>5
<1>13. /\ \A i \in 1 .. la + lb + 2 : AllCcls[i] = Classes[i]
       /\ AllCcls[la + lb + 3] = Bracketed(cclany)
  BY <1>4, <1>5, <1>6, <1>12 DEF AllCcls
<1>14. \A i \in 1 .. la : i \in 1 .. la + lb /\ i \in 1 .. la + lb + 2
  BY <1>4, <1>5
<1>15. \A i \in 1 .. lb : la + i \in 1 .. la + lb /\ la + i \in 1 .. la + lb + 2
  BY <1>4, <1>5
<1>16. la + lb + 1 \in 1 .. la + lb + 2 /\ la + lb + 2 \in 1 .. la + lb + 2
  BY <1>4, <1>5
<1>17. \A k \in 1 .. la : Classes[k] = Bracketed(Ccls[k]) /\ AllCcls[k] = Classes[k]
  BY ONLY <1>4, <1>11, <1>12, <1>13, <1>14
<1>18. \A k \in 1 .. lb : Classes[la + k] = Combined(CclOps[k]) /\ AllCcls[la + k] = Combined(CclOps[k])
  <2>1. \A k \in 1 .. lb : Classes[la + k] = Combined(CclOps[k])
    BY ONLY <1>5, <1>11, <1>12, <1>15
  <2> QED
    BY ONLY <1>13, <1>15, <2>1
<1>19. /\ AllCcls[la + lb + 1] = Bracketed(ccldot)
       /\ AllCcls[la + lb + 2] = Bracketed(cclany)
       /\ AllCcls[la + lb + 3] = Bracketed(cclany)
  BY ONLY <1>6, <1>12, <1>13, <1>16
<1> QED
  BY ONLY <1>3, <1>17, <1>18, <1>19

LEMMA BracketedIs == ASSUME NEW c, (NL \in c.table) # c.ng PROVE Bracketed(c).has_nl
<1>1. PICK e \in BOOLEAN : e = ((NL \in c.table) # c.ng)
  OBVIOUS
<1>2. e
  BY <1>1
<1>3. Bracketed(c) = [table |-> c.table, ng |-> c.ng, has_nl |-> e]
  BY ONLY <1>1, Zenon DEF Bracketed
<1> QED
  BY <1>2, <1>3

\* A class that may match a newline says so.
LEMMA ClassNewlines ==
  ASSUME NewlinesKnown, NEW k \in 1 .. Len(Ccls) + Len(CclOps), NL \in Denotes(k)
  PROVE  Classes[k].has_nl
<1>1. /\ Len(Ccls) \in Nat /\ Len(CclOps) \in Nat /\ DOMAIN CclOps = 1 .. Len(CclOps)
  <2>1. CclOps \in Seq([op : {"{-}", "{+}"}, a : CclSet, b : CclSet])
    BY NfaAssumption, Zenon
  <2> QED
    BY <2>1, ClassesAre, SeqFacts
<1>2. CASE k - Len(Ccls) \in DOMAIN CclOps
  <2>1. PICK j \in 1 .. Len(CclOps) : j = k - Len(Ccls) /\ k = Len(Ccls) + j
    <3>1. PICK l, n, i : l = Len(Ccls) /\ n = Len(CclOps) /\ i = k - Len(Ccls)
      OBVIOUS
    <3>2. l \in Nat /\ n \in Nat /\ i \in 1 .. n /\ k \in 1 .. l + n /\ i = k - l
      BY <1>1, <1>2, <3>1
    <3>3. k = l + i
      BY ONLY <3>2
    <3> QED
      BY <3>1, <3>2, <3>3
  <2>2. PICK c : c = CclOps[j]
    OBVIOUS
  <2>3. Classes[k] = Combined(c)
    BY <2>1, <2>2, ClassIs
  <2>4. NL \in (IF c.op = "{-}" THEN Members(c.a) \ Members(c.b) ELSE Members(c.a) \cup Members(c.b))
    BY <1>2, <2>1, <2>2 DEF Denotes
  <2>5. c.op \in {"{-}", "{+}"}
    <3>1. CclOps \in Seq([op : {"{-}", "{+}"}, a : CclSet, b : CclSet])
      BY NfaAssumption, Zenon
    <3>2. PICK V : V = [op : {"{-}", "{+}"}, a : CclSet, b : CclSet]
      OBVIOUS
    <3>3. CclOps \in Seq(V)
      BY <3>1, <3>2, Zenon
    <3>4. c \in V
      BY <2>2, <3>3
    <3> QED
      BY <3>2, <3>4
  <2>6. c.op = "{-}"
    BY <1>1, <2>2, <2>4, <2>5 DEF NewlinesKnown
  <2>7. NL \in Members(c.a) \ Members(c.b)
    BY <2>4, <2>6
  <2> QED
    <3>1. PICK x : x = [table |-> Members(c.a) \ Members(c.b), ng |-> FALSE]
      OBVIOUS
    <3>2. Classes[k] = Bracketed(x)
      BY <2>3, <2>6, <3>1 DEF Combined, ccl_set_diff
    <3>3. (NL \in x.table) # x.ng
      BY <2>7, <3>1
    <3> QED
      BY <3>2, <3>3, BracketedIs
<1>3. CASE k - Len(Ccls) \notin DOMAIN CclOps
  <2>1. k \in 1 .. Len(Ccls)
    BY <1>1, <1>3
  <2>2. Classes[k] = Bracketed(Ccls[k]) /\ AllCcls[k] = Bracketed(Ccls[k])
    BY <2>1, ClassIs
  <2>3. NL \in Members(Bracketed(Ccls[k]))
    BY <1>3, <2>2 DEF Denotes
  <2>4. (NL \in Ccls[k].table) # Ccls[k].ng
    BY <2>3 DEF Members, ccl_contains, Bracketed
  <2> QED
    BY <2>2, <2>4, BracketedIs
<1> QED
  BY <1>2, <1>3

\* Nor does a '.' match one, unless it is told to.
LEMMA DotNewlines == NL \notin Denotes(DotCcl(FALSE))
<1>1. /\ Len(Ccls) \in Nat /\ Len(CclOps) \in Nat /\ DOMAIN CclOps = 1 .. Len(CclOps)
  <2>1. CclOps \in Seq([op : {"{-}", "{+}"}, a : CclSet, b : CclSet])
    BY NfaAssumption, Zenon
  <2> QED
    BY <2>1, ClassesAre, SeqFacts
<1>2. DotCcl(FALSE) = Len(Ccls) + Len(CclOps) + 1
  BY DEF DotCcl
<1>3. DotCcl(FALSE) - Len(Ccls) \notin DOMAIN CclOps
  <2>1. PICK l, n : l = Len(Ccls) /\ n = Len(CclOps)
    OBVIOUS
  <2>2. l \in Nat /\ n \in Nat /\ (l + n + 1) - l \notin 1 .. n
    BY <1>1, <2>1
  <2> QED
    BY <1>1, <1>2, <2>1, <2>2
<1>4. Denotes(DotCcl(FALSE)) = Members(Bracketed(ccldot))
  BY <1>2, <1>3, ClassIs DEF Denotes
<1> QED
  BY <1>4 DEF Members, ccl_contains, Bracketed, ccldot

----------------------------------------------------------------------------
(* What the rules know of newlines.                                        *)

Quiet == rule.has_nl \/ \A i \in 1 .. Len(stk) : Clean(stk[i].words)
QuietRules ==
  \A k \in DOMAIN rules : (pc = "parsed" => k < Len(rules)) => rules[k].has_nl \/ Clean(rules[k].head)

NlInv == ValuesInv /\ Quiet /\ QuietRules

LEMMA ReduceQuiet ==
  ASSUME NlInv, NEW k \in {0, 1, 2}, Reduces(k), NEW r, NEW words, Reduce(k, r, words),
         rule' \in RuleRec, rule.has_nl => rule'.has_nl, ~rule'.has_nl => Clean(words)
  PROVE  NlInv'
<1>1. /\ Replaced(stk', stk, k, [m |-> r.m, words |-> words])
      /\ Len(stk) \in Nat /\ Bottom <= Len(stk) - k /\ Bottom \in {0, 1}
      /\ pc' = pc /\ rules' = rules
  BY ReduceReplaces DEF NlInv
<1>2. Quiet'
  <2> SUFFICES ASSUME ~rule'.has_nl, NEW i \in 1 .. Len(stk') PROVE Clean(stk'[i].words)
    BY DEF Quiet
  <2>1. PICK n : n = Len(stk) - k
    OBVIOUS
  <2>2. n \in Nat /\ Len(stk') = n + 1 /\ n <= Len(stk)
    BY <1>1, <2>1 DEF Replaced
  <2>3. CASE i = n + 1
    BY <1>1, <2>1, <2>3 DEF Replaced
  <2>4. CASE i # n + 1
    <3>1. i \in 1 .. n /\ i \in 1 .. Len(stk)
      BY <1>1, <2>2, <2>4
    <3>2. stk'[i] = stk[i]
      BY <1>1, <2>1, <3>1 DEF Replaced
    <3> QED
      BY <3>1, <3>2 DEF NlInv, Quiet
  <2> QED
    BY <2>3, <2>4
<1>3. QuietRules'
  BY <1>1 DEF NlInv, QuietRules
<1> QED
  BY <1>2, <1>3, ReduceValues DEF NlInv

\* The values that are reduced.
LEMMA TopsQuiet ==
  ASSUME NlInv, NEW k \in {1, 2}, Reduces(k)
  PROVE  /\ rule.has_nl \/ Clean(Top(1).words)
         /\ k = 2 => rule.has_nl \/ Clean(Top(2).words)
<1>1. Len(stk) \in Nat /\ Len(stk) >= k
  <2>1. stk \in Seq(Range(stk)) /\ Len(stk) \in Nat
    BY DEF NlInv, ValuesInv
  <2>2. CASE pc = "trail"
    <3>1. Len(Tail(stk)) >= k /\ stk # <<>>
      BY <2>1, <2>2 DEF Reduces, Values, NlInv, ValuesInv, Bottom
    <3>2. Len(Tail(stk)) = Len(stk) - 1
      BY <2>1, <3>1
    <3> QED
      BY <2>1, <3>1, <3>2
  <2>3. CASE pc # "trail"
    BY <2>1, <2>3 DEF Reduces, Values
  <2> QED
    BY <2>2, <2>3
<1>2. Len(stk) + 1 - 1 \in 1 .. Len(stk) /\ (k = 2 => Len(stk) + 1 - 2 \in 1 .. Len(stk))
  BY <1>1
<1> QED
  BY <1>2 DEF NlInv, Quiet, Top

LEMMA LastQuiet == ASSUME NlInv, Reduces(1) PROVE rule.has_nl \/ Clean(Top(1).words)
<1>1. PICK k \in {1, 2} : k = 1
  OBVIOUS
<1> QED
  BY <1>1, TopsQuiet

LEMMA LastTwoQuiet ==
  ASSUME NlInv, Reduces(2) PROVE rule.has_nl \/ (Clean(Top(2).words) /\ Clean(Top(1).words))
<1>1. PICK k \in {1, 2} : k = 2
  OBVIOUS
<1>2. Reduces(k)
  BY <1>1
<1> QED
  BY <1>1, <1>2, TopsQuiet

\* Characters and classes.
LEMMA CountedQuiet ==
  ASSUME NlInv, Reduces(0), NEW r, NEW words, Reduce(0, r, words), NEW nl, Counted(nl),
         ~nl => Clean(words)
  PROVE  NlInv'
<1>1. rule' \in RuleRec /\ rule'.has_nl = (rule.has_nl \/ nl) /\ rule \in RuleRec
  BY RuleAfter DEF NlInv, ValuesInv
<1>2. PICK a, b : a = rule.has_nl /\ b = rule'.has_nl
  BY <1>1 DEF RuleRec
<1>3. b = (a \/ nl)
  BY <1>1, <1>2, Zenon
<1>4. a => b
  BY <1>3, Zenon
<1>5. ~b => ~nl
  BY <1>3, Zenon
<1>6. PICK k \in {0, 1, 2} : k = 0
  OBVIOUS
<1>7. Reduces(k) /\ Reduce(k, r, words)
  BY <1>6
<1> QED
  BY <1>1, <1>2, <1>4, <1>5, <1>7, ReduceQuiet

\* Operators leave the flag alone.
LEMMA OperatorQuiet ==
  ASSUME NlInv, NEW k \in {0, 1, 2}, Reduces(k), NEW r, NEW words, Reduce(k, r, words),
         Varies \/ UNCHANGED rule, ~rule.has_nl => Clean(words)
  PROVE  NlInv'
<1>1. rule' \in RuleRec /\ rule'.has_nl = rule.has_nl
  BY RuleAfter DEF NlInv, ValuesInv
<1> QED
  BY <1>1, ReduceQuiet

LEMMA OperatorsQuiet ==
  ASSUME NlInv, EmptyString \/ Concatenation \/ Alternation \/ Star \/ Plus \/ Optional PROVE NlInv'
<1>1. CASE EmptyString
  <2>1. Clean({<<>>})
    BY DEF Clean
  <2> QED
    BY <1>1, <2>1, OperatorQuiet DEF EmptyString
<1>2. CASE Concatenation
  <2>1. rule.has_nl \/ Clean(Cat(Top(2).words, Top(1).words))
    BY <1>2, LastTwoQuiet, CatClean DEF Concatenation
  <2> QED
    BY <1>2, <2>1, OperatorQuiet DEF Concatenation
<1>3. CASE Alternation
  <2>1. rule.has_nl \/ (Clean(Top(2).words) /\ Clean(Top(1).words))
    BY <1>3, LastTwoQuiet DEF Alternation
  <2>2. rule.has_nl \/ Clean(Top(2).words \cup Top(1).words)
    BY <2>1 DEF Clean
  <2> QED
    BY <1>3, <2>2, OperatorQuiet DEF Alternation
<1>4. CASE Star
  <2>1. rule.has_nl \/ Clean(AtLeast(Top(1).words, 0))
    BY <1>4, LastQuiet, RepetitionsClean DEF Star
  <2> QED
    BY <1>4, <2>1, OperatorQuiet DEF Star
<1>5. CASE Plus
  <2>1. rule.has_nl \/ Clean(AtLeast(Top(1).words, 1))
    BY <1>5, LastQuiet, RepetitionsClean DEF Plus
  <2> QED
    BY <1>5, <2>1, OperatorQuiet DEF Plus
<1>6. CASE Optional
  <2>1. rule.has_nl \/ Clean(Top(1).words)
    BY <1>6, LastQuiet DEF Optional
  <2>2. Clean(Top(1).words) => Clean({<<>>} \cup Top(1).words)
    <3>1. <<>> \in Seq(Alphabet \ {NL})
      OBVIOUS
    <3> QED
      BY ONLY <3>1 DEF Clean
  <2> QED
    BY <1>6, <2>1, <2>2, OperatorQuiet DEF Optional
<1> QED
  BY <1>1, <1>2, <1>3, <1>4, <1>5, <1>6

LEMMA RepetitionsQuiet ==
  ASSUME NlInv, NEW b \in Repeats, Repeat(b[1], b[2]) \/ RepeatFrom(b[1]) \/ RepeatExactly(b[1])
  PROVE  NlInv'
<1>1. b[1] \in Nat /\ b[2] \in Nat
  BY NfaAssumption, Zenon
<1>2. Reduces(1)
  BY DEF Repeat, RepeatFrom, RepeatExactly
<1>3. ~rule.has_nl => /\ Clean(AtLeast(Top(1).words, b[1]))
                      /\ Clean(Between(Top(1).words, b[1], b[2]))
                      /\ Clean(Times(Top(1).words, b[1]))
  <2>1. rule.has_nl \/ Clean(Top(1).words)
    BY <1>2, LastQuiet
  <2>2. Clean(Top(1).words) => /\ Clean(AtLeast(Top(1).words, b[1]))
                                 /\ Clean(Between(Top(1).words, b[1], b[2]))
                                 /\ Clean(Times(Top(1).words, b[1]))
    <3>1. ASSUME NEW A, Clean(A)
          PROVE  /\ Clean(AtLeast(A, b[1])) /\ Clean(Between(A, b[1], b[2]))
                 /\ Clean(Times(A, b[1]))
      BY <1>1, <3>1, RepetitionsClean, TimesClean
    <3> QED
      BY ONLY <3>1
  <2> QED
    BY ONLY <2>1, <2>2
<1>4. CASE Repeat(b[1], b[2])
  BY <1>2, <1>3, <1>4, OperatorQuiet DEF Repeat
<1>5. CASE RepeatFrom(b[1])
  BY <1>2, <1>3, <1>5, OperatorQuiet DEF RepeatFrom
<1>6. CASE RepeatExactly(b[1])
  BY <1>2, <1>3, <1>6, OperatorQuiet DEF RepeatExactly
<1> QED
  BY <1>4, <1>5, <1>6

\* A finished rule.
LEMMA FinishQuiet ==
  ASSUME NlInv, NEW nf, NEW m, NEW info, NEW bol, NEW list, NEW next \in BOOLEAN,
         FinishRule(nf, m, info, bol, list, next), Len(stk) >= 1, info.head = stk[1].words,
         pc # "parsed"
  PROVE  NlInv'
<1>1. /\ rule' = NewRule(next) /\ stk' = <<>> /\ pc' = "rule"
  BY DEF FinishRule
<1>2. PICK x : /\ rules' = Append(rules, x) /\ x.head = info.head
               /\ rule.has_nl => x.has_nl
  <2>1. PICK e : e <=> \/ rule.has_nl
                       \/ rule.continued /\ rules[Len(rules)].has_nl
    OBVIOUS
  <2> QED
    BY DEF FinishRule
<1>3. rules \in Seq(Range(rules) \cup {x}) /\ Len(rules) \in Nat
  BY DEF NlInv, ValuesInv
<1>4. rules' \in Seq(Range(rules'))
  <2>1. rules' \in Seq(Range(rules) \cup {x})
    BY <1>2, <1>3
  <2> QED
    BY <2>1, SeqRange
<1>5. ASSUME NEW k \in DOMAIN rules' PROVE rules'[k].has_nl \/ Clean(rules'[k].head)
  <2>1. CASE k = Len(rules) + 1
    <3>1. rules'[k] = x
      BY <1>2, <1>3, <2>1
    <3>2. rule.has_nl \/ Clean(stk[1].words)
      <4>1. 1 \in 1 .. Len(stk)
        BY DEF NlInv, ValuesInv
      <4> QED
        BY <4>1 DEF NlInv, Quiet
    <3> QED
      BY <1>2, <3>1, <3>2
  <2>2. CASE k # Len(rules) + 1
    <3>1. k \in DOMAIN rules /\ rules'[k] = rules[k]
      BY <1>2, <1>3, <1>5, <2>2
    <3> QED
      BY <3>1 DEF NlInv, QuietRules
  <2> QED
    BY <2>1, <2>2
<1>6. rule' \in RuleRec /\ Bottom' = 0 /\ Len(stk') = 0 /\ stk' \in Seq(Range(stk'))
  BY <1>1 DEF NewRule, RuleRec, Bottom
<1>7. ValuesInv'
  BY <1>1, <1>4, <1>6 DEF ValuesInv
<1> QED
  BY <1>5, <1>6, <1>7 DEF NlInv, Quiet, QuietRules

LEMMA DefaultRuleQuiet == ASSUME NlInv, DefaultRule PROVE NlInv'
<1>1. pc = "rule" /\ pc' = "parsed" /\ stk' = stk /\ rule' = rule
  BY DEF DefaultRule
<1>2. PICK x : rules' = Append(rules, x)
  BY DEF DefaultRule
<1>3. rules \in Seq(Range(rules) \cup {x}) /\ Len(rules) \in Nat
  BY DEF NlInv, ValuesInv
<1>4. rules' \in Seq(Range(rules')) /\ Len(rules') = Len(rules) + 1
  <2>1. rules' \in Seq(Range(rules) \cup {x}) /\ Len(rules') = Len(rules) + 1
    BY <1>2, <1>3
  <2> QED
    BY <2>1, SeqRange
<1>5. ASSUME NEW k \in DOMAIN rules', k < Len(rules') PROVE rules'[k].has_nl \/ Clean(rules'[k].head)
  <2>1. k \in DOMAIN rules /\ rules'[k] = rules[k]
    BY <1>2, <1>3, <1>4, <1>5
  <2> QED
    BY <1>1, <2>1 DEF NlInv, QuietRules
<1>6. Bottom' = Bottom
  BY <1>1 DEF Bottom
<1>7. ValuesInv'
  BY <1>1, <1>4, <1>6 DEF NlInv, ValuesInv
<1> QED
  BY <1>1, <1>5, <1>7 DEF NlInv, Quiet, QuietRules

LEMMA InitQuiet == ASSUME Init PROVE NlInv
<1>1. stk = <<>> /\ rules = <<>> /\ ValuesInv
  BY InitCounts DEF Init, CountInv
<1>2. Len(stk) = 0 /\ DOMAIN rules = {}
  BY <1>1
<1> QED
  BY <1>1, <1>2 DEF NlInv, Quiet, QuietRules

\* The words of characters that are no newlines.
LEMMA CharactersClean ==
  ASSUME NEW C, C \subseteq Alphabet, NL \notin C
  PROVE  Clean({<<c>> : c \in C})
<1>1. \A c \in C : <<c>> \in Seq(Alphabet \ {NL})
  OBVIOUS
<1> QED
  BY <1>1 DEF Clean

LEMMA StepQuiet == ASSUME NewlinesKnown, NlInv, [Next]_vars PROVE NlInv'
<1>1. ASSUME NEW c \in Chars, Char(c) PROVE NlInv'
  <2>1. Chars \subseteq 0 .. csize - 1
    BY NfaAssumption, Zenon
  <2>2. c # NL => Clean({<<c>>})
    BY <2>1 DEF Alphabet, Clean
  <2>3. Reduces(0) /\ Reduce(0, NewState(c), {<<c>>}) /\ Counted(c = NL)
    BY <1>1 DEF Char
  <2> QED
    BY <2>2, <2>3, CountedQuiet
<1>2. ASSUME NEW p \in Cases, NEW order \in Orders, CaseChar(p[1], p[2], order) PROVE NlInv'
  <2>1. Cases \subseteq (0 .. csize - 1) \X (0 .. csize - 1)
    BY NfaAssumption, Zenon
  <2>2. p[1] \in Alphabet \ {NL} /\ p[2] \in Alphabet \ {NL}
    BY <2>1 DEF Alphabet, NewlinesKnown
  <2>3. Clean({<<p[1]>>, <<p[2]>>})
    BY <2>2 DEF Clean
  <2>4. PICK r : Reduces(0) /\ Reduce(0, r, {<<p[1]>>, <<p[2]>>}) /\ Counted(p[1] = NL)
    BY <1>2 DEF CaseChar
  <2> QED
    BY <2>3, <2>4, CountedQuiet
<1>3. ASSUME NEW k \in 1 .. Len(Ccls) + Len(CclOps), Class(k) PROVE NlInv'
  <2>1. ~Classes[k].has_nl => Clean({<<c>> : c \in Denotes(k)})
    BY ClassNewlines, OneCharacter, CharactersClean
  <2>2. /\ Reduces(0) /\ Reduce(0, NewState(ClassSym(k)), {<<c>> : c \in Denotes(k)})
        /\ Counted(Classes[k].has_nl)
    BY <1>3 DEF Class
  <2> QED
    BY <2>1, <2>2, CountedQuiet
<1>4. ASSUME NEW dot_all \in Dots, Dot(dot_all) PROVE NlInv'
  <2>1. dot_all = FALSE
    <3>1. Dots \subseteq BOOLEAN
      BY NfaAssumption, Zenon
    <3> QED
      BY <3>1 DEF NewlinesKnown
  <2>2. Clean({<<c>> : c \in Denotes(DotCcl(dot_all))})
    BY <2>1, DotNewlines, OneCharacter, CharactersClean
  <2>3. /\ Reduces(0)
        /\ Reduce(0, NewState(ClassSym(DotCcl(dot_all))), {<<c>> : c \in Denotes(DotCcl(dot_all))})
        /\ Counted(FALSE)
    BY <1>4 DEF Dot
  <2> QED
    BY <2>2, <2>3, CountedQuiet
<1>5. ASSUME Slash PROVE NlInv'
  <2>1. pc = "rule" /\ Len(stk) = 1 /\ pc' = "trail" /\ stk' = stk /\ rules' = rules
    BY <1>5 DEF Slash
  <2>2. rule' \in RuleRec /\ rule'.has_nl = rule.has_nl
    BY <1>5, SlashRule DEF NlInv, ValuesInv
  <2>3. Bottom' = 1
    BY <2>1 DEF Bottom
  <2>4. ValuesInv'
    <3>1. stk \in Seq(Range(stk)) /\ rules \in Seq(Range(rules))
      BY DEF NlInv, ValuesInv
    <3>2. stk' \in Seq(Range(stk')) /\ rules' \in Seq(Range(rules')) /\ Bottom' <= Len(stk')
      BY <2>1, <2>3, <3>1
    <3> QED
      BY <2>1, <2>2, <3>2 DEF ValuesInv
  <2> QED
    BY <2>1, <2>2, <2>4 DEF NlInv, Quiet, QuietRules
<1>6. ASSUME NEW bol \in Bols, NEW next \in BOOLEAN, NEW list \in Lists,
             FinishPlain(bol, list, next) \/ FinishTrailing(bol, list, next) \/ FinishEol(bol, list, next)
      PROVE  NlInv'
  <2>1. PICK nf, m, info : FinishRule(nf, m, info, bol, list, next) /\ info.head = stk[1].words
    BY <1>6 DEF FinishPlain, FinishTrailing, FinishEol
  <2>2. pc # "parsed" /\ Len(stk) >= 1
    BY <1>6 DEF FinishPlain, FinishTrailing, FinishEol
  <2> QED
    BY <2>1, <2>2, FinishQuiet
<1>7. ASSUME UNCHANGED vars PROVE NlInv'
  BY <1>7 DEF NlInv, ValuesInv, Quiet, QuietRules, Bottom, vars
<1> QED
  BY <1>1, <1>2, <1>3, <1>4, <1>5, <1>6, <1>7, OperatorsQuiet, RepetitionsQuiet, DefaultRuleQuiet
     DEF Next, Parse, Terminated

LEMMA QuietNoticed == ASSUME NlInv PROVE NewlinesNoticed
<1> SUFFICES ASSUME NEW k \in DOMAIN rules, pc = "parsed" => k < Len(rules),
                    NEW h \in rules[k].head, NL \in Range(h), Clean(rules[k].head)
             PROVE  FALSE
  BY DEF NlInv, QuietRules, NewlinesNoticed
<1>1. h \in Seq(Alphabet \ {NL})
  BY DEF Clean
<1>2. PICK i \in DOMAIN h : h[i] = NL
  BY DEF Range
<1> QED
  BY <1>1, <1>2

\* A rule whose head may match a newline has rule_has_nl set, however the
\* newline came into it: as a character, by a class, by what a negation or a
\* difference makes of one, in an operand of any operator, before or after
\* the '/'.  The characters and classes that say nothing of newlines are the
\* exceptions that NewlinesKnown lists.
THEOREM AlwaysNewlinesNoticed == ASSUME NewlinesKnown PROVE Spec => []NewlinesNoticed
<1>1. Init => NlInv
  BY InitQuiet
<1>2. NlInv /\ [Next]_vars => NlInv'
  BY StepQuiet
<1>3. NlInv => NewlinesNoticed
  BY QuietNoticed
<1> QED
  BY <1>1, <1>2, <1>3, PTL DEF Spec

----------------------------------------------------------------------------
(* The classes of characters, as numbers.                                  *)

LEMMA AlphabetIs == /\ csize \in Nat /\ csize # 0 /\ 0 \in Alphabet
                    /\ \A c \in Alphabet : c \in Nat /\ Member(c) \in 1 .. csize
<1>1. csize \in Nat \ {0}
  BY NfaAssumption, Zenon
<1> QED
  BY <1>1 DEF Alphabet, Member

LEMMA LeastIs == ASSUME NEW c \in Alphabet PROVE Least(c) \in 1 .. csize
<1> DEFINE M == {Member(d) : d \in {x \in Alphabet : Together(c, x)}}
<1>1. M \subseteq 1 .. csize
  BY AlphabetIs
<1>2. Together(c, c)
  BY DEF Together
<1>3. M # {}
  BY <1>2
<1> HIDE DEF M
<1>4. M \subseteq Int /\ 1 \in Int /\ \A y \in M : 1 <= y
  BY <1>1
<1>5. Min(M) \in M
  BY <1>3, <1>4, MinIs
<1> QED
  BY <1>1, <1>5 DEF Least, M

LEMMA EcNumbersAre == EcNumbers \in [Alphabet -> 1 .. csize]
<1>1. CASE ~useecs
  BY <1>1, AlphabetIs DEF EcNumbers
<1>2. CASE useecs
  <2> DEFINE E(c) == {Least(d) : d \in {x \in Alphabet : Least(x) <= Least(c)}}
  <2>1. ASSUME NEW c \in Alphabet PROVE Cardinality(E(c)) \in 1 .. csize
    <3>1. E(c) \subseteq 1 .. csize
      BY LeastIs
    <3>2. Least(c) \in E(c)
      <4>1. Least(c) <= Least(c)
        BY LeastIs
      <4> QED
        BY <4>1
    <3> HIDE DEF E
    <3>3. csize \in Int /\ csize # 0 /\ csize \in Nat /\ 1 \in Int
      BY AlphabetIs
    <3>4. IsFiniteSet(1 .. csize) /\ Cardinality(1 .. csize) = csize
      <4>1. /\ IsFiniteSet(1 .. csize)
            /\ Cardinality(1 .. csize) = IF 1 > csize THEN 0 ELSE csize - 1 + 1
        BY <3>3, FS_Interval
      <4> QED
        BY <3>3, <4>1
    <3>5. IsFiniteSet(E(c)) /\ Cardinality(E(c)) <= csize
      BY <3>1, <3>4, FS_Subset
    <3>6. Cardinality(E(c)) \in Nat
      BY <3>5, FS_CardinalityType
    <3>7. Cardinality(E(c)) # 0
      BY <3>2, <3>5, FS_EmptySet
    <3> QED
      BY <3>3, <3>5, <3>6, <3>7
  <2>2. EcNumbers = [c \in Alphabet |-> Cardinality(E(c))]
    BY <1>2 DEF EcNumbers
  <2> HIDE DEF E
  <2> QED
    BY <2>1, <2>2
<1> QED
  BY <1>1, <1>2

\* The symbols are a finite number.
LEMMA NumecsIs == ASSUME ecgroup \in [Alphabet -> 1 .. csize] PROVE numecs \in Nat
<1>1. Range(ecgroup) \subseteq 1 .. csize
  BY DEF Range
<1>2. csize \in Int /\ 1 \in Int
  BY AlphabetIs
<1>3. IsFiniteSet(1 .. csize)
  BY <1>2, FS_Interval
<1>4. IsFiniteSet(Range(ecgroup))
  BY <1>1, <1>3, FS_Subset
<1> QED
  BY <1>4, FS_CardinalityType DEF numecs

LEMMA SeqElement == ASSUME NEW V, NEW s \in Seq(V), NEW i \in 1 .. Len(s) PROVE s[i] \in V
OBVIOUS

\* The tables of the classes hold characters.
LEMMA TablesAre == ASSUME NEW k \in DOMAIN AllCcls PROVE AllCcls[k].table \subseteq Alphabet
<1>1. Ccls \in Seq(CclSet) /\ CclOps \in Seq([op : {"{-}", "{+}"}, a : CclSet, b : CclSet])
  BY NfaAssumption, Zenon
<1>2. NL \in Alphabet /\ CclSet = [table : SUBSET Alphabet, ng : BOOLEAN]
  <2>1. NL \in 0 .. csize - 1
    BY NfaAssumption, Zenon
  <2> QED
    BY <2>1 DEF Alphabet, CclSet
<1>3. PICK la, lb : la = Len(Ccls) /\ lb = Len(CclOps)
  OBVIOUS
<1>4. la \in Nat /\ lb \in Nat /\ k \in 1 .. la + lb + 3
  BY <1>3, ClassesAre
<1>5. ASSUME NEW c PROVE Bracketed(c).table = c.table
  <2>1. PICK e : e = ((NL \in c.table) # c.ng)
    OBVIOUS
  <2>2. Bracketed(c) = [table |-> c.table, ng |-> c.ng, has_nl |-> e]
    BY ONLY <2>1, Zenon DEF Bracketed
  <2> QED
    BY <2>2
<1>6. Bracketed(cclany).table = {} /\ Bracketed(ccldot).table = {NL}
  BY <1>5 DEF cclany, ccldot
<1>7. CASE k \in 1 .. la
  <2>1. AllCcls[k].table = Ccls[k].table
    BY <1>3, <1>5, <1>7, ClassIs
  <2>2. k \in 1 .. Len(Ccls)
    BY <1>3, <1>7
  <2>3. Ccls[k] \in CclSet
    BY ONLY <1>1, <2>2, SeqElement
  <2> QED
    BY <1>2, <2>1, <2>3
<1>8. CASE k \in la + 1 .. la + lb
  <2>1. PICK j \in 1 .. lb : k = la + j
    <3>1. k - la \in 1 .. lb /\ k = la + (k - la)
      BY <1>4, <1>8
    <3> QED
      BY <3>1
  <2>2. PICK c : c = CclOps[j]
    OBVIOUS
  <2>3. AllCcls[k] = Combined(c)
    BY <1>3, <1>4, <1>8, <2>1, <2>2, ClassIs
  <2>4. c.a \in CclSet /\ c.b \in CclSet
    <3>1. j \in 1 .. Len(CclOps)
      BY <1>3
    <3>2. CclOps[j] \in [op : {"{-}", "{+}"}, a : CclSet, b : CclSet]
      BY ONLY <1>1, <3>1, SeqElement
    <3> QED
      BY <2>2, <3>2
  <2>5. CASE c.op = "{-}"
    <3>1. AllCcls[k].table = Members(c.a) \ Members(c.b)
      <4>1. PICK x : x = [table |-> Members(c.a) \ Members(c.b), ng |-> FALSE]
        OBVIOUS
      <4>2. AllCcls[k] = Bracketed(x)
        BY <2>3, <2>5, <4>1 DEF Combined, ccl_set_diff
      <4> QED
        BY <1>5, <4>1, <4>2
    <3> QED
      BY <3>1 DEF Members
  <2>6. CASE c.op # "{-}"
    <3>1. AllCcls[k].table = c.a.table \cup c.b.table
      <4>1. AllCcls[k] = [table |-> c.a.table \cup c.b.table, ng |-> FALSE, has_nl |-> FALSE]
        BY ONLY <2>3, <2>6, Zenon DEF Combined, ccl_set_union
      <4> QED
        BY <4>1
    <3> QED
      BY <1>2, <2>4, <3>1
  <2> QED
    BY <2>5, <2>6
<1>9. CASE k \in la + lb + 1 .. la + lb + 3
  <2>1. AllCcls[k] \in {Bracketed(cclany), Bracketed(ccldot)}
    <3>1. k = la + lb + 1 \/ k = la + lb + 2 \/ k = la + lb + 3
      BY <1>4, <1>9
    <3>2. /\ AllCcls[la + lb + 1] = Bracketed(ccldot)
          /\ AllCcls[la + lb + 2] = Bracketed(cclany)
          /\ AllCcls[la + lb + 3] = Bracketed(cclany)
      BY <1>3, ClassIs
    <3> QED
      BY ONLY <3>1, <3>2
  <2> QED
    BY <1>2, <1>6, <2>1
<1> QED
  BY <1>4, <1>7, <1>8, <1>9

LEMMA TableIs ==
  ASSUME ecgroup \in [Alphabet -> 1 .. csize], NEW k \in DOMAIN AllCcls
  PROVE  Table(k) \subseteq Int /\ NUL_ec \in Nat /\ NUL_ec # 0
<1>1. AllCcls[k].table \subseteq Alphabet
  BY TablesAre
<1> QED
  BY <1>1, AlphabetIs DEF Table, NUL_ec

----------------------------------------------------------------------------
(* The duplicates of a symbol.                                             *)

\* A symbol that has the same transitions as one of the list is in it.
LEMMA DuplicateListed ==
  ASSUME ecgroup \in [Alphabet -> 1 .. csize], NEW dss, NEW e \in Symlist(dss),
         NEW d \in Duplist(dss, e)
  PROVE  d \in Symlist(dss)
<1>1. /\ e \in 1 .. numecs /\ d \in 1 .. e - 1 /\ numecs \in Nat /\ d \in Symbols
      /\ SameTransitions(dss, d, e)
  BY NumecsIs DEF Symlist, Symbols, Duplist
<1>2. PICK s \in DOMAIN dss : Marked(s, e)
  BY DEF Symlist
<1>3. nfas[s].on \in Alphabet => ecgroup[nfas[s].on] \notin {d, e}
  BY <1>1 DEF SameTransitions
<1>4. nfas[s].on \notin Alphabet
  BY <1>2, <1>3 DEF Marked
<1>5. PICK k \in DOMAIN AllCcls :
        /\ nfas[s].on = ClassSym(k)
        /\ IF AllCcls[k].ng THEN ~Met(k, e) ELSE e \in {Mapped(ch) : ch \in Table(k)}
  BY <1>2, <1>4 DEF Marked
<1>6. /\ d \in Table(k) <=> e \in Table(k)
      /\ 0 \in Table(k) => NUL_ec \notin {d, e}
  BY <1>1, <1>5 DEF SameTransitions
<1>7. Table(k) \subseteq Int /\ NUL_ec \in Nat /\ NUL_ec # 0
  BY TableIs
<1>8. d \in Int /\ e \in Int /\ d # 0 /\ e # 0 /\ d < e
  BY <1>1
<1>9. ASSUME ~AllCcls[k].ng PROVE Marked(s, d)
  <2>1. PICK ch \in Table(k) : Mapped(ch) = e
    BY <1>5, <1>9
  <2>2. ch # 0 /\ ch = e
    BY <1>6, <2>1 DEF Mapped
  <2>3. d \in Table(k) /\ Mapped(d) = d
    BY <1>6, <1>8, <2>1, <2>2 DEF Mapped
  <2> QED
    BY <1>4, <1>5, <1>9, <2>3 DEF Marked
<1>10. ASSUME AllCcls[k].ng, Met(k, d) PROVE Met(k, e)
  <2>1. PICK ch \in Table(k) : Mapped(ch) = d /\ \A x \in Table(k) : x < ch => Mapped(x) <= d
    BY <1>10 DEF Met
  <2>2. ch # 0 /\ ch = d
    BY <1>6, <2>1 DEF Mapped
  <2>3. e \in Table(k) /\ Mapped(e) = e
    BY <1>6, <1>8, <2>1, <2>2 DEF Mapped
  <2>4. ASSUME NEW x \in Table(k), x < e PROVE Mapped(x) <= e
    <3>1. CASE x # 0
      BY <1>7, <1>8, <2>4, <3>1 DEF Mapped
    <3>2. CASE x = 0
      <4>1. 0 < d
        BY <1>1
      <4>2. Mapped(x) <= d /\ Mapped(x) = NUL_ec
        BY <2>1, <2>2, <3>2, <4>1 DEF Mapped
      <4> QED
        BY <1>7, <1>8, <4>2
    <3> QED
      BY <3>1, <3>2
  <2> QED
    BY <2>3, <2>4 DEF Met
<1>11. Marked(s, d)
  BY <1>4, <1>5, <1>9, <1>10 DEF Marked
<1> QED
  BY <1>1, <1>11 DEF Symlist

\* The next symbol is the first of the list after the last one.
LEMMA NextSymbolIs ==
  ASSUME ecgroup \in [Alphabet -> 1 .. csize], NextSymbol # NIL, sym \in Nat
  PROVE  /\ NextSymbol \in Symlist(dfas[todo_head].dss) /\ NextSymbol \in 1 .. numecs
         /\ numecs \in Nat /\ sym < NextSymbol
         /\ \A d \in Symlist(dfas[todo_head].dss) : d <= sym \/ NextSymbol <= d
<1>1. PICK L, n : L = Symlist(dfas[todo_head].dss) /\ n = numecs
  OBVIOUS
<1>2. n \in Nat /\ L \subseteq 1 .. n /\ L \subseteq Int /\ \A y \in L : 1 <= y
  <2>1. n \in Nat
    BY <1>1, NumecsIs
  <2>2. L \subseteq 1 .. n
    BY <1>1 DEF Symlist, Symbols
  <2> QED
    BY ONLY <2>1, <2>2
<1> DEFINE ahead == {e \in L : e > sym}
<1>3. ahead # {} /\ NextSymbol = Min(ahead)
  BY <1>1 DEF NextSymbol
<1>4. ahead \subseteq Int /\ 1 \in Int /\ \A y \in ahead : 1 <= y
  <2>1. ahead \subseteq L
    OBVIOUS
  <2> HIDE DEF ahead
  <2> QED
    BY ONLY <1>2, <2>1
<1>5. Min(ahead) \in ahead /\ \A y \in ahead : Min(ahead) <= y
  <2> HIDE DEF ahead
  <2> QED
    BY <1>3, <1>4, MinIs
<1>6. PICK e, x : e = NextSymbol /\ x = sym
  OBVIOUS
<1>7. e \in L /\ e > x /\ \A y \in L : y > x => e <= y
  BY <1>3, <1>5, <1>6
<1>8. e \in 1 .. n /\ x < e /\ \A d \in L : d <= x \/ e <= d
  <2>1. x \in Nat
    BY <1>6
  <2> QED
    BY ONLY <1>2, <1>7, <2>1
<1> QED
  BY <1>1, <1>2, <1>6, <1>7, <1>8

\* The symbols of the list so far have their transitions.
Filled == \A d \in Symlist(dfas[todo_head].dss) : d <= sym => state[d] # 0

DupInv ==
  /\ ecgroup \in [Alphabet -> 1 .. csize]
  /\ dfas \in Seq(Range(dfas)) /\ todo_head \in 0 .. Len(dfas)
  /\ pc = "symbols" =>
       todo_head # 0 /\ sym \in Nat /\ DOMAIN state = Symbols /\ Filled

LEMMA GreatestDuplicate ==
  ASSUME DupInv, pc = "symbols", NextSymbol # NIL,
         Duplist(dfas[todo_head].dss, NextSymbol) # {}
  PROVE  state[Max(Duplist(dfas[todo_head].dss, NextSymbol))] # 0
<1>1. PICK dss, e, x : dss = dfas[todo_head].dss /\ e = NextSymbol /\ x = sym
  OBVIOUS
<1>2. /\ e \in Symlist(dss) /\ e \in Nat /\ x \in Nat
      /\ \A d \in Symlist(dss) : d <= x \/ e <= d
  BY <1>1, NextSymbolIs DEF DupInv
<1>3. PICK S : S = Duplist(dss, e)
  OBVIOUS
<1>4. S \subseteq Int /\ e \in Int /\ (\A y \in S : y <= e) /\ (\A y \in S : y < e) /\ S # {}
  <2>1. S \subseteq 1 .. e - 1 /\ S # {}
    BY <1>1, <1>3 DEF Duplist
  <2> QED
    BY ONLY <1>2, <2>1
<1>5. PICK d : d = Max(S)
  OBVIOUS
<1>6. d \in S
  BY <1>4, <1>5, MaxIs
<1>7. d \in Symlist(dss)
  BY <1>2, <1>3, <1>6, DuplicateListed DEF DupInv
<1>8. d <= x
  BY ONLY <1>2, <1>4, <1>6, <1>7
<1> QED
  BY <1>1, <1>3, <1>5, <1>7, <1>8 DEF DupInv, Filled

LEMMA SymbolsSame ==
  ASSUME nfas' = nfas, ecgroup' = ecgroup, NEW dss
  PROVE  Symlist(dss)' = Symlist(dss) /\ Symbols' = Symbols
<1>1. numecs' = numecs
  BY DEF numecs
<1> QED
  BY <1>1 DEF Symlist, Symbols, Marked, Met, Mapped, NUL_ec, Table

\* snstods()
LEMMA ExtendedIs ==
  ASSUME dfas \in Seq(Range(dfas)), NEW c
  PROVE  /\ Extended(c) \in Seq(Range(Extended(c)))
         /\ Len(dfas) \in Nat /\ Len(Extended(c)) \in Nat /\ Len(dfas) <= Len(Extended(c))
         /\ \A i \in 1 .. Len(dfas) : Extended(c)[i] = dfas[i]
         /\ Len(Extended(c)) <= Len(dfas) + 1
         /\ \A i \in 1 .. Len(Extended(c)) : i > Len(dfas) =>
              Extended(c)[i] = [dss |-> c.dss, acc |-> Accepted(c.acc)]
         /\ Snstods(c) \in 1 .. Len(Extended(c))
         /\ Extended(c)[Snstods(c)].dss = c.dss
<1> DEFINE new == [dss |-> c.dss, acc |-> Accepted(c.acc)]
           V == Range(dfas) \cup {new}
<1>1. Len(dfas) \in Nat /\ DOMAIN dfas = 1 .. Len(dfas)
  BY SeqFacts
<1>2. CASE Known(c) # {}
  <2>1. Extended(c) = dfas /\ Snstods(c) = Min(Known(c))
    BY <1>2 DEF Extended, Snstods
  <2>2. Known(c) \subseteq 1 .. Len(dfas)
    BY <1>1 DEF Known
  <2>3. Known(c) \subseteq Int /\ 1 \in Int /\ \A y \in Known(c) : 1 <= y
    BY <1>1, <2>2
  <2>4. Min(Known(c)) \in Known(c)
    BY <1>2, <2>3, MinIs
  <2>5. dfas[Min(Known(c))].dss = c.dss
    BY <2>4 DEF Known
  <2> QED
    BY <1>1, <2>1, <2>2, <2>4, <2>5
<1>3. CASE Known(c) = {}
  <2>1. Extended(c) = Append(dfas, new) /\ Snstods(c) = Len(dfas) + 1
    BY <1>3 DEF Extended, Snstods
  <2>2. new.dss = c.dss
    OBVIOUS
  <2>3. dfas \in Seq(V) /\ new \in V
    BY SeqFacts
  <2> HIDE DEF new, V
  <2>4. /\ Append(dfas, new) \in Seq(V) /\ Len(Append(dfas, new)) = Len(dfas) + 1
        /\ \A i \in 1 .. Len(dfas) : Append(dfas, new)[i] = dfas[i]
        /\ Append(dfas, new)[Len(dfas) + 1] = new
    BY <2>3
  <2>5. Append(dfas, new) \in Seq(Range(Append(dfas, new)))
    BY <2>4, SeqRange
  <2>6. \A i \in 1 .. Len(dfas) + 1 : i > Len(dfas) => i = Len(dfas) + 1
    BY <1>1
  <2> QED
    BY <1>1, <2>1, <2>2, <2>4, <2>5, <2>6 DEF new
<1> QED
  BY <1>2, <1>3

\* Following the symbols is no part of parsing.
LEMMA ParsePc ==
  ASSUME Parse PROVE pc \in {"rule", "trail"} /\ pc' \in {"rule", "trail", "parsed"}
<1>1. ASSUME NEW k, Reduces(k), NEW r, NEW words, Reduce(k, r, words)
      PROVE  pc \in {"rule", "trail"} /\ pc' = pc
  BY <1>1 DEF Reduces, Reduce, Unchanged
<1>2. ASSUME NEW c, Char(c) PROVE pc \in {"rule", "trail"} /\ pc' = pc
  BY <1>1, <1>2 DEF Char
<1>3. ASSUME NEW c, NEW d, NEW order, CaseChar(c, d, order) PROVE pc \in {"rule", "trail"} /\ pc' = pc
  BY <1>1, <1>3 DEF CaseChar
<1>4. ASSUME NEW k, Class(k) PROVE pc \in {"rule", "trail"} /\ pc' = pc
  BY <1>1, <1>4 DEF Class
<1>5. ASSUME NEW dot_all, Dot(dot_all) PROVE pc \in {"rule", "trail"} /\ pc' = pc
  BY <1>1, <1>5 DEF Dot
<1>6. ASSUME EmptyString \/ Concatenation \/ Alternation \/ Star \/ Plus \/ Optional
      PROVE  pc \in {"rule", "trail"} /\ pc' = pc
  BY <1>1, <1>6 DEF EmptyString, Concatenation, Alternation, Star, Plus, Optional
<1>7. ASSUME NEW lb, NEW ub, Repeat(lb, ub) PROVE pc \in {"rule", "trail"} /\ pc' = pc
  BY <1>1, <1>7 DEF Repeat
<1>8. ASSUME NEW lb, RepeatFrom(lb) \/ RepeatExactly(lb) PROVE pc \in {"rule", "trail"} /\ pc' = pc
  BY <1>1, <1>8 DEF RepeatFrom, RepeatExactly
<1>9. ASSUME Slash PROVE pc \in {"rule", "trail"} /\ pc' = "trail"
  BY <1>9 DEF Slash
<1>10. ASSUME NEW bol, NEW list, NEW next,
              FinishPlain(bol, list, next) \/ FinishTrailing(bol, list, next) \/ FinishEol(bol, list, next)
       PROVE  pc \in {"rule", "trail"} /\ pc' = "rule"
  BY <1>10 DEF FinishPlain, FinishTrailing, FinishEol, FinishRule
<1>11. ASSUME DefaultRule PROVE pc \in {"rule", "trail"} /\ pc' = "parsed"
  BY <1>11 DEF DefaultRule
<1> QED
  BY <1>2, <1>3, <1>4, <1>5, <1>6, <1>7, <1>8, <1>9, <1>10, <1>11 DEF Parse

LEMMA FollowFills == ASSUME DupInv, Follow PROVE DupInv'
<1>1. /\ pc = "symbols" /\ NextSymbol # NIL /\ sym' = NextSymbol /\ pc' = pc /\ nfas' = nfas
      /\ ecgroup' = ecgroup /\ todo_head' = todo_head
  BY DEF Follow, vars
<1>2. /\ ecgroup \in [Alphabet -> 1 .. csize] /\ dfas \in Seq(Range(dfas))
      /\ todo_head \in 0 .. Len(dfas) /\ todo_head # 0 /\ sym \in Nat
      /\ DOMAIN state = Symbols /\ Filled
  BY <1>1 DEF DupInv
<1>3. PICK dss, e, x : dss = dfas[todo_head].dss /\ e = NextSymbol /\ x = sym
  OBVIOUS
<1>4. /\ e \in Symlist(dss) /\ e \in Symbols /\ e \in Nat
      /\ \A d \in Symlist(dss) : d <= x \/ e <= d
  BY <1>1, <1>2, <1>3, NextSymbolIs DEF Symbols
<1>5. PICK y : state' = [state EXCEPT ![e] = y] /\ y # 0
  <2>1. CASE Duplist(dss, e) # {}
    <3>1. PICK y : y = state[Max(Duplist(dss, e))]
      OBVIOUS
    <3>2. state' = [state EXCEPT ![e] = y]
      BY <1>3, <2>1, <3>1 DEF Follow
    <3> QED
      BY <1>1, <1>3, <2>1, <3>1, <3>2, GreatestDuplicate
  <2>2. CASE Duplist(dss, e) = {}
    <3>1. PICK c : c = Closure(nfas, Symfollowset(dss, e))
      OBVIOUS
    <3>2. state' = [state EXCEPT ![e] = Snstods(c)]
      BY <1>3, <2>2, <3>1 DEF Follow
    <3>3. Snstods(c) # 0
      <4>1. PICK i, l : i = Snstods(c) /\ l = Len(Extended(c))
        OBVIOUS
      <4>2. i \in 1 .. l /\ l \in Nat
        BY <1>2, <4>1, ExtendedIs
      <4>3. i # 0
        BY ONLY <4>2
      <4> QED
        BY <4>1, <4>3
    <3> QED
      BY <3>2, <3>3
  <2> QED
    BY <2>1, <2>2
<1>6. /\ dfas' \in Seq(Range(dfas')) /\ Len(dfas) <= Len(dfas') /\ Len(dfas) \in Nat /\ Len(dfas') \in Nat
      /\ dfas'[todo_head] = dfas[todo_head]
  <2>1. CASE dfas' = dfas
    BY <1>2, <2>1
  <2>2. CASE dfas' # dfas
    <3>1. PICK c : dfas' = Extended(c)
      BY <2>2 DEF Follow
    <3>2. todo_head \in 1 .. Len(dfas)
      BY <1>2
    <3> QED
      BY <1>2, <3>1, <3>2, ExtendedIs
  <2> QED
    BY <2>1, <2>2
<1>7. todo_head' \in 0 .. Len(dfas')
  BY <1>1, <1>2, <1>6
<1>8. Symlist(dss)' = Symlist(dss) /\ Symbols' = Symbols
  BY <1>1, SymbolsSame
<1>9. DOMAIN state' = Symbols' /\ sym' \in Nat
  BY <1>1, <1>2, <1>3, <1>4, <1>5, <1>8
<1>10. Filled'
  <2>1. (dfas[todo_head].dss)' = dss
    BY <1>1, <1>3, <1>6
  <2> SUFFICES ASSUME NEW d \in Symlist(dss), d <= e PROVE state'[d] # 0
    BY <1>1, <1>3, <1>8, <2>1 DEF Filled
  <2>2. CASE d = e
    BY <1>2, <1>4, <1>5, <2>2
  <2>3. CASE d # e
    <3>1. numecs \in Nat /\ d \in Nat /\ d \in DOMAIN state
      BY <1>2, NumecsIs DEF Symlist, Symbols
    <3>2. d <= x
      BY <1>4, <2>3, <3>1
    <3>3. state[d] # 0
      BY <1>2, <1>3, <3>2 DEF Filled
    <3> QED
      BY <1>5, <2>3, <3>1, <3>3
  <2> QED
    BY <2>2, <2>3
<1> QED
  BY <1>1, <1>2, <1>6, <1>7, <1>9, <1>10 DEF DupInv

LEMMA BeginFills == ASSUME DupInv, BeginState PROVE DupInv'
<1>1. /\ todo_head < Len(dfas) /\ todo_head' = todo_head + 1 /\ sym' = 0 /\ nfas' = nfas
      /\ ecgroup' = ecgroup /\ dfas' = dfas /\ state' = [e \in Symbols |-> 0]
  BY DEF BeginState
<1>2. /\ ecgroup \in [Alphabet -> 1 .. csize] /\ dfas \in Seq(Range(dfas))
      /\ todo_head \in 0 .. Len(dfas) /\ Len(dfas) \in Nat
  BY DEF DupInv
<1>3. PICK dss : dss = (dfas[todo_head].dss)'
  OBVIOUS
<1>4. Symlist(dss)' = Symlist(dss) /\ Symbols' = Symbols
  BY <1>1, SymbolsSame
<1>5. \A d \in Symlist(dss) : ~(d <= 0)
  BY <1>2, NumecsIs DEF Symlist, Symbols
<1>6. Filled'
  BY <1>1, <1>3, <1>4, <1>5 DEF Filled
<1> QED
  BY <1>1, <1>2, <1>4, <1>6 DEF DupInv

LEMMA StepDup == ASSUME DupInv, [DfaNext]_allvars PROVE DupInv'
<1>1. CASE Parse /\ UNCHANGED dfavars
  <2>1. pc' # "symbols"
    BY <1>1, ParsePc
  <2> QED
    BY <1>1, <2>1 DEF DupInv, dfavars
<1>2. CASE ReadIn
  BY <1>2, EcNumbersAre DEF DupInv, ReadIn
<1>3. ASSUME NEW c, dfas' = Extended(c), UNCHANGED <<ecgroup, todo_head>>, pc' # "symbols" PROVE DupInv'
  <2>1. dfas' \in Seq(Range(dfas')) /\ Len(dfas) <= Len(dfas') /\ Len(dfas) \in Nat /\ Len(dfas') \in Nat
    BY <1>3, ExtendedIs DEF DupInv
  <2>2. todo_head' \in 0 .. Len(dfas')
    BY <1>3, <2>1 DEF DupInv
  <2> QED
    BY <1>3, <2>1, <2>2 DEF DupInv
<1>4. CASE StartState
  <2>1. PICK c : dfas' = Extended(c)
    BY <1>4 DEF StartState
  <2> QED
    BY <1>3, <1>4, <2>1 DEF StartState
<1>5. CASE EndOfBufferState
  <2>1. PICK c : dfas' = Extended(c)
    BY <1>5 DEF EndOfBufferState
  <2> QED
    BY <1>3, <1>5, <2>1 DEF EndOfBufferState
<1>6. CASE EndState \/ Finish \/ Done
  <2>1. pc' # "symbols" /\ UNCHANGED <<ecgroup, dfas, todo_head>>
    <3>1. ASSUME EndState PROVE pc' # "symbols" /\ UNCHANGED <<ecgroup, dfas, todo_head>>
      BY <3>1 DEF EndState
    <3>2. ASSUME Finish PROVE pc' # "symbols" /\ UNCHANGED <<ecgroup, dfas, todo_head>>
      BY <3>2 DEF Finish, dfavars
    <3>3. ASSUME Done PROVE pc' # "symbols" /\ UNCHANGED <<ecgroup, dfas, todo_head>>
      BY <3>3 DEF Done, dfavars, allvars, vars
    <3> QED
      BY <1>6, <3>1, <3>2, <3>3
  <2> QED
    BY <2>1 DEF DupInv
<1>7. CASE UNCHANGED allvars
  <2>1. /\ UNCHANGED <<ecgroup, dfas, todo_head, pc, sym, state, nfas>>
    BY <1>7 DEF allvars, dfavars, vars
  <2>2. PICK dss : dss = dfas[todo_head].dss
    OBVIOUS
  <2>3. Symlist(dss)' = Symlist(dss) /\ Symbols' = Symbols
    BY <2>1, SymbolsSame
  <2>4. Filled' <=> Filled
    BY <2>1, <2>2, <2>3 DEF Filled
  <2> QED
    BY <2>1, <2>3, <2>4 DEF DupInv
<1> QED
  BY <1>1, <1>2, <1>4, <1>5, <1>6, <1>7, FollowFills, BeginFills DEF DfaNext

\* The search for the target of a duplicate symbol ends: the symbol it is a
\* duplicate of has a transition.
THEOREM AlwaysDuplicatesFound == DfaSpec => []DuplicatesFound
<1>1. ASSUME DfaInit PROVE DupInv
  <2>1. ecgroup \in [Alphabet -> 1 .. csize]
    BY <1>1, AlphabetIs DEF DfaInit
  <2>2. pc = "rule"
    BY <1>1 DEF DfaInit, Init
  <2>3. dfas = <<>> /\ todo_head = 0
    BY <1>1 DEF DfaInit
  <2> QED
    BY <2>1, <2>2, <2>3 DEF DupInv
<1>2. ASSUME DupInv PROVE DuplicatesFound
  BY <1>2, GreatestDuplicate DEF DuplicatesFound
<1> QED
  BY <1>1, <1>2, StepDup, PTL DEF DfaSpec

----------------------------------------------------------------------------
(* What the states of a DFA state are.                                     *)

\* The way on nothing stays in the array.
LEMMA EpsReachIs ==
  ASSUME NEW A, NEW nf, Good(nf, A), NEW S \in SUBSET (1 .. Len(nf))
  PROVE  EpsReach(nf, S) \subseteq 1 .. Len(nf)
<1> DEFINE more(T) == T \cup UNION {Range(nf[s].to) : s \in {t \in T : nf[t].on = EPS}}
           reach[T \in SUBSET DOMAIN nf] == IF more(T) = T THEN T ELSE reach[more(T)]
           D == SUBSET (1 .. Len(nf))
           P == {T \in D : more(T) = T}
           m == [T \in D |-> Len(nf) - Cardinality(T)]
           next == [T \in D |-> more(T)]
           v == [T \in D |-> T]
           G == [q \in D \X D |-> q[2]]
<1>1. DOMAIN nf = 1 .. Len(nf) /\ Len(nf) \in Nat
  BY DEF Good
<1>2. ASSUME NEW T \in D PROVE more(T) \in D
  <2>1. ASSUME NEW s \in T PROVE Range(nf[s].to) \subseteq 1 .. Len(nf)
    BY DEF Range, Good, Fits
  <2> QED
    BY <2>1
<1>3. ASSUME NEW T \in D PROVE IsFiniteSet(T) /\ Cardinality(T) \in Nat /\ Cardinality(T) <= Len(nf)
  <2>1. Len(nf) \in Int /\ 1 \in Int /\ Len(nf) = IF 1 > Len(nf) THEN 0 ELSE Len(nf) - 1 + 1
    BY <1>1
  <2>2. IsFiniteSet(1 .. Len(nf)) /\ Cardinality(1 .. Len(nf)) = Len(nf)
    BY <2>1, FS_Interval
  <2>3. IsFiniteSet(T) /\ Cardinality(T) <= Cardinality(1 .. Len(nf))
    BY <2>2, FS_Subset
  <2> QED
    BY <2>2, <2>3, FS_CardinalityType
<1>4. ASSUME NEW T \in D, more(T) # T PROVE Cardinality(T) < Cardinality(more(T))
  <2>1. T \subseteq more(T) /\ more(T) \in D
    BY <1>2
  <2> HIDE DEF more
  <2>2. IsFiniteSet(more(T))
    BY <1>3, <2>1
  <2>3. Cardinality(T) <= Cardinality(more(T)) /\ (Cardinality(T) = Cardinality(more(T)) => T = more(T))
    BY <2>1, <2>2, FS_Subset
  <2> QED
    BY <1>3, <1>4, <2>1, <2>3
<1> HIDE DEF more
<1>5. m \in [D -> Nat] /\ next \in [D -> D] /\ \A T \in D : m[T] <= Len(nf)
  BY <1>1, <1>2, <1>3
<1>6. \A T \in D \ P : m[next[T]] < m[T]
  <2> SUFFICES ASSUME NEW T \in D, more(T) # T PROVE m[more(T)] < m[T]
    OBVIOUS
  <2> QED
    BY <1>1, <1>2, <1>3, <1>4
<1>7. (\A T \in D : T \in P => v[T] \in D) /\ (\A T \in D, y \in D : G[<<T, y>>] \in D /\ G[<<T, y>>] = y)
  OBVIOUS
<1>8. PICK f : Descent(f, D, P, v, next, G)
  <2> HIDE DEF D, P, m, next, v, G
  <2> QED
    BY <1>1, <1>5, <1>6, DescentExists
<1>9. \A T \in D : f[T] \in D
  <2> HIDE DEF D, P, m, next, v, G
  <2> QED
    BY <1>5, <1>6, <1>7, <1>8, DescentIs
<1>10. f = [T \in SUBSET DOMAIN nf |-> IF more(T) = T THEN T ELSE f[more(T)]]
  <2>1. f = [T \in D |-> f[T]] /\ \A T \in D : f[T] = IF T \in P THEN v[T] ELSE G[<<T, f[next[T]]>>]
    <3> HIDE DEF D, P, m, next, v, G
    <3> QED
      BY <1>8 DEF Descent
  <2>2. ASSUME NEW T \in D PROVE f[T] = IF more(T) = T THEN T ELSE f[more(T)]
    <3>1. next[T] = more(T) /\ v[T] = T /\ (T \in P <=> more(T) = T) /\ more(T) \in D
      BY <1>2
    <3>2. G[<<T, f[more(T)]>>] = f[more(T)]
      <4> HIDE DEF G, D
      <4> QED
        BY <1>7, <1>9, <3>1
    <3> HIDE DEF D, P, next, v, G
    <3> QED
      BY <2>1, <3>1, <3>2
  <2> HIDE DEF P, next, v, G
  <2> QED
    BY <1>1, <2>1, <2>2
<1>11. reach = [T \in SUBSET DOMAIN nf |-> IF more(T) = T THEN T ELSE reach[more(T)]]
  <2> HIDE DEF D, P, m, next, v, G
  <2> QED
    BY <1>10 DEF reach
<1>12. EpsReach(nf, S) = reach[S]
  BY DEF EpsReach, reach, more
<1> HIDE DEF reach
<1> DEFINE H == [q \in D \X (D \cup {reach[T] : T \in D}) |-> q[2]]
<1>13. Descent(reach, D, P, v, next, H)
  <2>1. ASSUME NEW T \in D
        PROVE  (IF more(T) = T THEN T ELSE reach[more(T)]) = IF T \in P THEN v[T] ELSE H[<<T, reach[next[T]]>>]
    <3>1. next[T] = more(T) /\ v[T] = T /\ (T \in P <=> more(T) = T) /\ more(T) \in D
      BY <1>2
    <3>2. H[<<T, reach[more(T)]>>] = reach[more(T)]
      <4> HIDE DEF D
      <4> QED
        BY <3>1
    <3> HIDE DEF D, P, next, v, H
    <3> QED
      BY <3>1, <3>2
  <2>2. D = SUBSET DOMAIN nf
    BY <1>1
  <2> HIDE DEF D, P, next, v, H
  <2> QED
    BY <1>11, <2>1, <2>2 DEF Descent
<1>14. \A T \in D, y \in D : H[<<T, y>>] \in D
  <2> HIDE DEF D
  <2> QED
    OBVIOUS
<1>15. \A T \in D : reach[T] \in D
  <2> HIDE DEF D, P, m, next, v, G, H
  <2> QED
    BY <1>5, <1>6, <1>7, <1>13, <1>14, DescentIs
<1> QED
  BY <1>12, <1>15

Total(b, S) == MapThenSumSet(LAMBDA s : b[s], S)

\* A sum of numbers, none of which is zero, is one itself, unless it is empty.
LEMMA SumIs ==
  ASSUME NEW S, IsFiniteSet(S), NEW b, \A s \in S : b[s] \in Nat /\ b[s] > 0
  PROVE  /\ Total(b, S) \in Nat
         /\ S # {} => Total(b, S) > 0
<1> DEFINE D == SUBSET S
           elt(T) == CHOOSE x \in T : TRUE
           iter[T \in D] == IF T = {} THEN 0 ELSE b[elt(T)] + iter[T \ {elt(T)}]
           P == {{}}
           m == [T \in D |-> Cardinality(T)]
           next == [T \in D |-> T \ {elt(T)}]
           v == [T \in D |-> 0]
           G == [q \in D \X Nat |-> IF q[1] = {} THEN 0 ELSE b[elt(q[1])] + q[2]]
<1>1. \A T \in D : T # {} => elt(T) \in T
  OBVIOUS
<1>0. \A T \in D : T \ {elt(T)} \in D
  OBVIOUS
<1> HIDE DEF elt
<1>2. ASSUME NEW T \in D PROVE IsFiniteSet(T) /\ Cardinality(T) \in Nat /\ Cardinality(T) <= Cardinality(S)
  BY FS_Subset, FS_CardinalityType
<1>3. ASSUME NEW T \in D, T # {} PROVE Cardinality(T \ {elt(T)}) < Cardinality(T)
  <2>1. Cardinality(T \ {elt(T)}) = Cardinality(T) - 1
    BY <1>1, <1>2, <1>3, FS_RemoveElement
  <2> QED
    BY <1>2, <2>1
<1>4. m \in [D -> Nat] /\ next \in [D -> D] /\ Cardinality(S) \in Nat /\ \A T \in D : m[T] <= Cardinality(S)
  BY <1>0, <1>2, FS_CardinalityType
<1>5. \A T \in D \ P : m[next[T]] < m[T]
  BY <1>0, <1>3
<1>6. /\ \A T \in D, y \in Nat : T # {} => G[<<T, y>>] = b[elt(T)] + y
      /\ \A T \in D, y \in Nat : G[<<T, y>>] \in Nat
  BY <1>1
<1>7. PICK f : Descent(f, D, P, v, next, G)
  <2> HIDE DEF D, P, m, next, v, G
  <2> QED
    BY <1>4, <1>5, DescentExists
<1>8. \A T \in D : f[T] \in Nat
  <2>1. \A T \in D : T \in P => v[T] \in Nat
    OBVIOUS
  <2> HIDE DEF D, P, m, next, v, G
  <2> QED
    BY <1>4, <1>5, <1>6, <1>7, <2>1, DescentIs
<1>9. \A T \in D : f[T] = IF T = {} THEN 0 ELSE b[elt(T)] + f[T \ {elt(T)}]
  <2> SUFFICES ASSUME NEW T \in D PROVE f[T] = IF T = {} THEN 0 ELSE b[elt(T)] + f[T \ {elt(T)}]
    OBVIOUS
  <2>1. f[T] = IF T \in P THEN v[T] ELSE G[<<T, f[next[T]]>>]
    <3> HIDE DEF D, P, m, next, v, G
    <3> QED
      BY <1>7 DEF Descent
  <2>2. next[T] = T \ {elt(T)} /\ v[T] = 0 /\ (T \in P <=> T = {}) /\ T \ {elt(T)} \in D
    BY <1>0
  <2>3. f[T \ {elt(T)}] \in Nat
    BY <1>8, <2>2
  <2>4. T # {} => G[<<T, f[T \ {elt(T)}]>>] = b[elt(T)] + f[T \ {elt(T)}]
    BY <1>6, <2>3
  <2> HIDE DEF D, P, next, v, G
  <2> QED
    BY <2>1, <2>2, <2>4
<1>10. f = [T \in D |-> IF T = {} THEN 0 ELSE b[elt(T)] + f[T \ {elt(T)}]]
  <2>1. f = [T \in D |-> f[T]]
    <3> HIDE DEF D, P, m, next, v, G
    <3> QED
      BY <1>7 DEF Descent
  <2> HIDE DEF D
  <2> QED
    BY <1>9, <2>1
<1>11. iter = [T \in D |-> IF T = {} THEN 0 ELSE b[elt(T)] + iter[T \ {elt(T)}]]
  <2> HIDE DEF D
  <2> QED
    BY <1>10 DEF iter
<1>12. Total(b, S) = iter[S]
  BY DEF Total, MapThenSumSet, MapThenFoldSet, iter, elt
<1> HIDE DEF iter
<1> DEFINE Y == Nat \cup {iter[T] : T \in D}
           H == [q \in D \X Y |-> IF q[1] = {} THEN 0 ELSE b[elt(q[1])] + q[2]]
<1>13. ASSUME NEW T \in D PROVE iter[T] = IF T = {} THEN 0 ELSE b[elt(T)] + iter[T \ {elt(T)}]
  <2> HIDE DEF D
  <2> QED
    BY <1>11
<1>14. Descent(iter, D, P, v, next, H)
  <2>1. ASSUME NEW T \in D
        PROVE  (IF T = {} THEN 0 ELSE b[elt(T)] + iter[T \ {elt(T)}]) = IF T \in P THEN v[T] ELSE H[<<T, iter[next[T]]>>]
    <3>1. next[T] = T \ {elt(T)} /\ v[T] = 0 /\ (T \in P <=> T = {}) /\ T \ {elt(T)} \in D
      BY <1>0
    <3>2. T # {} => H[<<T, iter[T \ {elt(T)}]>>] = b[elt(T)] + iter[T \ {elt(T)}]
      <4> HIDE DEF D
      <4> QED
        BY <3>1
    <3> HIDE DEF D, P, next, v, H
    <3> QED
      BY <3>1, <3>2
  <2>2. iter = [T \in D |-> IF T \in P THEN v[T] ELSE H[<<T, iter[next[T]]>>]]
    <3> DEFINE I(T) == IF T = {} THEN 0 ELSE b[elt(T)] + iter[T \ {elt(T)}]
               J(T) == IF T \in P THEN v[T] ELSE H[<<T, iter[next[T]]>>]
    <3>1. iter = [T \in D |-> I(T)]
      <4> HIDE DEF D
      <4> QED
        BY <1>11
    <3>2. \A T \in D : I(T) = J(T)
      <4> HIDE DEF D, P, next, v, H
      <4> QED
        BY <2>1
    <3>3. iter = [T \in D |-> J(T)]
      <4> HIDE DEF D, I, J
      <4> QED
        BY <3>1, <3>2
    <3> HIDE DEF D, P, next, v, H
    <3> QED
      BY <3>3
  <2> HIDE DEF D, P, next, v, H
  <2> QED
    BY <2>2 DEF Descent
<1>15. \A T \in D, y \in Nat : H[<<T, y>>] \in Nat
  BY <1>1
<1>16. \A T \in D : iter[T] \in Nat
  <2>1. \A T \in D : T \in P => v[T] \in Nat
    OBVIOUS
  <2> HIDE DEF D, P, m, next, v, G, H
  <2> QED
    BY <1>4, <1>5, <1>14, <1>15, <2>1, DescentIs
<1>17. S \in D
  OBVIOUS
<1>18. ASSUME S # {} PROVE iter[S] > 0
  <2>1. iter[S] = b[elt(S)] + iter[S \ {elt(S)}] /\ elt(S) \in S /\ S \ {elt(S)} \in D
    <3>1. iter[S] = b[elt(S)] + iter[S \ {elt(S)}]
      BY <1>13, <1>17, <1>18
    <3> QED
      BY <1>0, <1>1, <1>17, <1>18, <3>1
  <2>2. b[elt(S)] \in Nat /\ b[elt(S)] > 0 /\ iter[S \ {elt(S)}] \in Nat
    <3> HIDE DEF D
    <3> QED
      BY <1>16, <2>1
  <2> QED
    BY <2>1, <2>2
<1> QED
  <2> HIDE DEF D
  <2> QED
    BY <1>12, <1>16, <1>17, <1>18
LEMMA FiniteUpTo ==
  ASSUME NEW n \in Nat, NEW S \in SUBSET (1 .. n) PROVE IsFiniteSet(S)
<1>1. IsFiniteSet(1 .. n)
  BY FS_Interval
<1> QED
  BY <1>1, FS_Subset

\* A bag of states of the array.
BagOK(nf, b) == IsABag(b) /\ DOMAIN b \subseteq 1 .. Len(nf)

\* epsclosure() keeps what it is given and adds states that accept or have a
\* transition on a symbol.
Enclosed(nf, bag, c) ==
  /\ BagOK(nf, c.dss) /\ DOMAIN bag \subseteq DOMAIN c.dss
  /\ \A s \in DOMAIN c.dss : s \in DOMAIN bag \/ nf[s].acc # NIL \/ nf[s].on # EPS

LEMMA ClosureIs ==
  ASSUME NEW A, NEW nf, Good(nf, A), NEW bag, BagOK(nf, bag)
  PROVE  Enclosed(nf, bag, Closure(nf, bag))
<1> DEFINE reach == EpsReach(nf, DOMAIN bag)
           added == {s \in reach \ DOMAIN bag : nf[s].acc # NIL \/ nf[s].on # EPS}
           b == bag (+) SetToBag(added)
<1>1. DOMAIN bag \in SUBSET (1 .. Len(nf)) /\ bag \in [DOMAIN bag -> {n \in Nat : n > 0}]
  BY DEF BagOK, IsABag
<1>2. reach \subseteq 1 .. Len(nf)
  BY <1>1, EpsReachIs
<1>3. Closure(nf, bag).dss = b
  BY DEF Closure
<1>4. added \cap DOMAIN bag = {} /\ added \subseteq 1 .. Len(nf)
  BY <1>2
<1>5. \A s \in added : nf[s].acc # NIL \/ nf[s].on # EPS
  OBVIOUS
<1> HIDE DEF added
<1>6. b = [e \in DOMAIN bag \cup added |-> IF e \in DOMAIN bag THEN bag[e] ELSE 1]
  <2>1. b = [e \in DOMAIN bag \cup added |-> (IF e \in DOMAIN bag THEN bag[e] ELSE 0)
                                           + (IF e \in added THEN 1 ELSE 0)]
    BY DEF (+), SetToBag
  <2> QED
    BY <1>1, <1>4, <2>1
<1> HIDE DEF b
<1>7. DOMAIN b = DOMAIN bag \cup added /\ \A e \in DOMAIN b : b[e] \in {n \in Nat : n > 0}
  BY <1>1, <1>6
<1>8. b = [e \in DOMAIN b |-> b[e]]
  BY <1>6
<1>9. IsABag(b)
  BY <1>7, <1>8 DEF IsABag
<1> QED
  BY <1>1, <1>3, <1>4, <1>5, <1>7, <1>9 DEF Enclosed, BagOK
\* A state that follows a symbol has a transition, on a symbol.
LEMMA FollowsLeads ==
  ASSUME NEW A, Good(nfas, A), Lax(nfas, {}), NEW s \in 1 .. Len(nfas), NEW e, Follows(s, e)
  PROVE  nfas[s].on # EPS /\ 1 \in DOMAIN nfas[s].to /\ nfas[s].to[1] \in 1 .. Len(nfas)
<1>1. nfas[s].on # EPS
  <2>1. \A k \in DOMAIN AllCcls : ClassSym(k) # EPS
    BY ClassesAre DEF ClassSym, EPS
  <2>2. EPS \notin Alphabet
    BY AlphabetIs DEF EPS
  <2> QED
    BY <2>1, <2>2 DEF Follows
<1>2. nfas[s].to \in Seq(Nat) /\ Fits(nfas[s], Len(nfas), A)
  <2>1. nfas \in Seq(NfaState) /\ Fits(nfas[s], Len(nfas), A)
    BY DEF Good
  <2>2. nfas[s] \in NfaState
    BY ONLY <2>1, s \in 1 .. Len(nfas), SeqElement
  <2> QED
    BY <2>1, <2>2 DEF NfaState
<1>3. Len(nfas[s].to) # 0
  BY <1>1 DEF Lax, Lacks
<1>4. 1 \in DOMAIN nfas[s].to
  BY <1>2, <1>3
<1> QED
  BY <1>1, <1>2, <1>4 DEF Fits

\* symfollowset(): the states that the symbol leads to, from states on a symbol.
Targets(dss, b) ==
  /\ BagOK(nfas, b)
  /\ \A t \in DOMAIN b : \E s \in 1 .. Len(nfas) :
       nfas[s].on # EPS /\ 1 \in DOMAIN nfas[s].to /\ nfas[s].to[1] = t
LEMMA SymfollowsetIs ==
  ASSUME NEW A, Good(nfas, A), Lax(nfas, {}), NEW dss, BagOK(nfas, dss), NEW e
  PROVE  /\ Targets(dss, Symfollowset(dss, e))
         /\ (\E s \in DOMAIN dss : Follows(s, e)) => DOMAIN Symfollowset(dss, e) # {}
<1> DEFINE from == {s \in DOMAIN dss : Follows(s, e)}
           to(t) == {s \in from : nfas[s].to[1] = t}
           T == {nfas[s].to[1] : s \in from}
           b == [t \in T |-> Total(dss, to(t))]
<1>1. Symfollowset(dss, e) = b
  BY DEF Symfollowset, Total
<1>2. /\ from \subseteq 1 .. Len(nfas) /\ from \subseteq DOMAIN dss
      /\ \A s \in from : Follows(s, e)
  BY DEF BagOK
<1>3. from # {} <=> \E s \in DOMAIN dss : Follows(s, e)
  OBVIOUS
<1> HIDE DEF from
<1>4. \A s \in from : nfas[s].on # EPS /\ 1 \in DOMAIN nfas[s].to /\ nfas[s].to[1] \in 1 .. Len(nfas)
  BY <1>2, FollowsLeads
<1>5. T \subseteq 1 .. Len(nfas) /\ (T # {} <=> from # {})
  BY <1>4
<1>6. \A t \in T : \E s \in 1 .. Len(nfas) :
        nfas[s].on # EPS /\ 1 \in DOMAIN nfas[s].to /\ nfas[s].to[1] = t
  BY <1>2, <1>4
<1>7. ASSUME NEW t \in T PROVE to(t) \subseteq 1 .. Len(nfas) /\ to(t) # {} /\ to(t) \subseteq DOMAIN dss
  BY <1>2
<1> HIDE DEF T, to
<1>8. ASSUME NEW t \in T PROVE b[t] \in {n \in Nat : n > 0}
  <2>1. IsFiniteSet(to(t))
    <3>1. Len(nfas) \in Nat
      BY DEF Good
    <3> QED
      BY <1>7, <3>1, FiniteUpTo
  <2>2. \A s \in to(t) : dss[s] \in Nat /\ dss[s] > 0
    BY <1>7 DEF BagOK, IsABag
  <2>3. Total(dss, to(t)) \in Nat /\ Total(dss, to(t)) > 0
    BY <1>7, <2>1, <2>2, SumIs
  <2> QED
    BY <2>3
<1>9. DOMAIN b = T /\ b = [t \in T |-> b[t]]
  OBVIOUS
<1> HIDE DEF b
<1>10. BagOK(nfas, b)
  BY <1>5, <1>8, <1>9 DEF BagOK, IsABag
<1> QED
  BY <1>1, <1>3, <1>5, <1>6, <1>9, <1>10 DEF Targets

\* If characters are the symbols, no class that is not negated has NUL: the
\* walk along its table then meets every symbol that is in it.
NulsNumbered == useecs \/ \A k \in DOMAIN AllCcls : ~AllCcls[k].ng => 0 \notin AllCcls[k].table

LEMMA MarkedFollows ==
  ASSUME NulsNumbered, ecgroup \in [Alphabet -> 1 .. csize], NEW s, NEW e, Marked(s, e)
  PROVE  Follows(s, e)
<1>1. CASE nfas[s].on \in Alphabet
  BY <1>1 DEF Marked, Follows
<1>2. CASE nfas[s].on \notin Alphabet
  <2>1. PICK k \in DOMAIN AllCcls :
          /\ nfas[s].on = ClassSym(k)
          /\ IF AllCcls[k].ng THEN ~Met(k, e) ELSE e \in {Mapped(ch) : ch \in Table(k)}
    BY <1>2 DEF Marked
  <2>2. CASE AllCcls[k].ng
    <3>1. AllCcls[k].ng # Met(k, e)
      <4>1. ~Met(k, e)
        BY <2>1, <2>2
      <4>2. PICK g : g = AllCcls[k].ng
        OBVIOUS
      <4>3. g # Met(k, e)
        BY <2>2, <4>1, <4>2, Zenon
      <4> QED
        BY <4>2, <4>3, Zenon
    <3> QED
      BY <1>2, <2>1, <3>1 DEF Follows
  <2>3. CASE ~AllCcls[k].ng
    <3>1. 0 \notin Table(k) /\ Table(k) \subseteq Int
      <4>1. AllCcls[k].table \subseteq Alphabet /\ Table(k) \subseteq Int
        BY TablesAre, TableIs
      <4>2. CASE useecs
        BY <4>1, <4>2 DEF Table
      <4>3. CASE ~useecs
        BY <2>3, <4>1, <4>3 DEF Table, NulsNumbered
      <4> QED
        BY <4>2, <4>3
    <3>2. PICK ch \in Table(k) : Mapped(ch) = e
      BY <2>1, <2>3
    <3>3. \A d \in Table(k) : Mapped(d) = d
      BY <3>1 DEF Mapped
    <3>4. ASSUME NEW d \in Table(k), d < ch PROVE Mapped(d) <= e
      BY <3>1, <3>2, <3>3, <3>4
    <3>5. Met(k, e)
      BY <3>2, <3>4 DEF Met
    <3> QED
      BY <1>2, <2>1, <2>3, <3>5 DEF Follows
  <2> QED
    BY <2>2, <2>3
<1> QED
  BY <1>1, <1>2

----------------------------------------------------------------------------
(* The DFA and what it is made from.                                       *)

\* The rules are read and their machines hung up.
Sealed ==
  /\ budget \in Budgets /\ Good(nfas, Accs) /\ conds \in CondSet(Len(nfas)) /\ Rooted(nfas, conds)

BagsOK == \A i \in 1 .. Len(dfas) : BagOK(nfas, dfas[i].dss)

\* The state p that a start state was made from is in it, and is bare.
Seeded(nf, b, p) ==
  /\ Bare(nf, {p}) /\ p \in DOMAIN b
  /\ \A s \in DOMAIN b : s = p \/ nf[s].acc # NIL \/ nf[s].on # EPS
StartsOK == \A i \in 1 .. start : \E p : Seeded(nfas, dfas[i].dss, p)

\* No start state has the states that the next ones will be made from.
Unused ==
  \A j \in Conditions : start <= 2 * j - 2 =>
    \A i \in 1 .. start : conds[j].set \notin DOMAIN dfas[i].dss

\* One more start state.
LEMMA SeededIs ==
  ASSUME NEW A, NEW nf, Good(nf, A), NEW m, Bare(nf, {m})
  PROVE  LET c == Closure(nf, SetToBag({m}))
         IN  BagOK(nf, c.dss) /\ Seeded(nf, c.dss, m)
<1> DEFINE b == SetToBag({m})
           c == Closure(nf, b)
<1>1. DOMAIN b = {m} /\ BagOK(nf, b)
  BY DEF SetToBag, BagOK, IsABag, Bare
<1> HIDE DEF b
<1>2. Enclosed(nf, b, c)
  BY <1>1, ClosureIs
<1> HIDE DEF c
<1>3. BagOK(nf, c.dss) /\ Seeded(nf, c.dss, m)
  BY <1>1, <1>2 DEF Enclosed, Seeded
<1> QED
  BY <1>3 DEF c, b

\* A state that is added on top.
LEMMA SeededKept ==
  ASSUME NEW A, NEW nf, Good(nf, A), NEW n, NEW s, Topped(n, nf, s), NEW b, BagOK(nf, b)
  PROVE  BagOK(n, b) /\ s \notin DOMAIN b /\ \A p : Seeded(nf, b, p) => Seeded(n, b, p)
<1>1. Len(nf) \in Nat /\ s = Len(nf) + 1 /\ Len(n) = s /\ \A t \in 1 .. Len(nf) : n[t] = nf[t]
  BY DEF Topped
<1>2. DOMAIN b \subseteq 1 .. Len(nf) /\ IsABag(b)
  BY DEF BagOK
<1>3. BagOK(n, b) /\ s \notin DOMAIN b
  <2>1. 1 .. Len(nf) \subseteq 1 .. Len(n) /\ s \notin 1 .. Len(nf)
    BY ONLY <1>1
  <2> QED
    BY <1>2, <2>1 DEF BagOK
<1>4. ASSUME NEW p, Seeded(nf, b, p) PROVE Seeded(n, b, p)
  <2>1. Bare(n, {p})
    BY <1>4, ToppedBare DEF Seeded
  <2> QED
    BY <1>1, <1>2, <1>4, <2>1 DEF Seeded
<1> QED
  BY <1>3, <1>4

LEMMA ToppedRooted ==
  ASSUME NEW A, NEW nf, Good(nf, A), NEW n, NEW s, Topped(n, nf, s), NEW c, Rooted(nf, c)
  PROVE  Rooted(n, c)
<1>1. Bare(n, Sets(c))
  BY ToppedBare DEF Rooted
<1>2. Lax(n, {})
  BY DEF Rooted, Lax, Lacks, Topped
<1> QED
  BY <1>1, <1>2 DEF Rooted

\* A bare state is in a start state only if that was made from it.
LEMMA BareSeed ==
  ASSUME NEW nf, NEW b, NEW p, Seeded(nf, b, p), NEW C, Bare(nf, C), NEW q \in C, q \in DOMAIN b
  PROVE  q = p
BY DEF Seeded, Bare

LEMMA StartIs ==
  ASSUME start \in Nat, start < NumConditionStates
  PROVE  LET i == (start \div 2) + 1
         IN  /\ i \in Conditions
             /\ start % 2 = 0 => start = 2 * i - 2
             /\ \A j \in Conditions : start + 1 <= 2 * j - 2 => j # i /\ start <= 2 * j - 2
<1>1. PICK N \in Nat : N = Len(Exclusive)
  BY ConditionsAre
<1>2. NumConditionStates = 2 * N /\ Conditions = 1 .. N
  BY <1>1, ConditionsAre DEF NumConditionStates
<1>3. PICK x \in Nat : x = start
  OBVIOUS
<1>4. PICK q \in Nat : q = x \div 2 /\ x = 2 * q + (x % 2) /\ x % 2 \in {0, 1}
  <2>1. x % 2 \in {0, 1}
    OBVIOUS
  <2>2. x \div 2 \in Nat
    OBVIOUS
  <2>3. x = 2 * (x \div 2) + (x % 2)
    OBVIOUS
  <2> QED
    BY <2>1, <2>2, <2>3
<1>5. x < 2 * N
  BY <1>2, <1>3
<1>6. /\ q + 1 \in 1 .. N
      /\ x % 2 = 0 => x = 2 * (q + 1) - 2
      /\ \A j \in 1 .. N : x + 1 <= 2 * j - 2 => j # q + 1 /\ x <= 2 * j - 2
  <2>1. PICK r : r = x % 2
    OBVIOUS
  <2> QED
    BY ONLY <1>4, <1>5, <2>1, q \in Nat, x \in Nat, N \in Nat
<1> QED
  BY <1>2, <1>3, <1>4, <1>6
\* What a start state is made from.
Starting(n, m) ==
  /\ Good(n, Accs) /\ Len(nfas) <= Len(n) /\ conds \in CondSet(Len(n)) /\ Rooted(n, conds)
  /\ Bare(n, {m})
  /\ \A i \in 1 .. Len(dfas) : BagOK(n, dfas[i].dss) /\ m \notin DOMAIN dfas[i].dss
  /\ \A i \in 1 .. Len(dfas) : \A p : Seeded(nfas, dfas[i].dss, p) => Seeded(n, dfas[i].dss, p)
  /\ \A j \in Conditions : start + 1 <= 2 * j - 2 => conds[j].set # m

LEMMA StartMade ==
  ASSUME Sealed, BagsOK, Unused, Len(dfas) = start, start \in Nat, StartState
  PROVE  \E n, m : Starting(n, m) /\ nfas' = n /\ dfas' = Extended(Closure(n, SetToBag({m})))
<1> DEFINE i == (start \div 2) + 1
<1>1. /\ i \in Conditions
      /\ start % 2 = 0 => start = 2 * i - 2
      /\ \A j \in Conditions : start + 1 <= 2 * j - 2 => j # i /\ start <= 2 * j - 2
  BY StartIs DEF StartState
<1>2. PICK cond : cond = conds[i]
  OBVIOUS
<1>3. /\ Good(nfas, Accs) /\ conds \in CondSet(Len(nfas)) /\ Rooted(nfas, conds)
      /\ Accs \in SUBSET Nat /\ NIL \in Accs
  BY AccsAre DEF Sealed
<1>4. /\ cond.set \in 1 .. Len(nfas) /\ cond.bol \in 1 .. Len(nfas) /\ Len(nfas) \in Nat
      /\ \A j \in Conditions : conds[j].set \in 1 .. Len(nfas)
  BY <1>1, <1>2, <1>3 DEF CondSet, Good
<1>5. CASE start % 2 = 0
  <2>1. nfas' = nfas /\ dfas' = Extended(Closure(nfas, SetToBag({cond.set})))
    BY <1>2, <1>5 DEF StartState
  <2>2. Bare(nfas, {cond.set})
    BY <1>1, <1>2, <1>3 DEF Rooted, Bare, Sets
  <2>3. \A k \in 1 .. Len(dfas) : cond.set \notin DOMAIN dfas[k].dss
    <3>1. start <= 2 * i - 2
      BY <1>1, <1>5
    <3> HIDE DEF i
    <3> QED
      BY <1>1, <1>2, <3>1 DEF Unused
  <2>4. \A j \in Conditions : start + 1 <= 2 * j - 2 => conds[j].set # cond.set
    BY <1>1, <1>2, <1>3 DEF Rooted, Distinct
  <2>5. Starting(nfas, cond.set)
    BY <1>3, <1>4, <2>2, <2>3, <2>4 DEF Starting, BagsOK
  <2> QED
    BY <2>1, <2>5
<1>6. CASE start % 2 # 0
  <2>1. PICK r : r = MkBranch(nfas, cond.bol, cond.set)
    OBVIOUS
  <2>2. /\ Good(r.n, Accs) /\ Len(r.n) = Len(nfas) + 1 /\ r.m = Len(nfas) + 1
        /\ \A t \in 1 .. Len(nfas) : r.n[t] = nfas[t]
        /\ r.n[r.m].on = EPS /\ r.n[r.m].acc = NIL
    BY <1>3, <1>4, <2>1, MkBranchIs
  <2>3. nfas' = r.n /\ dfas' = Extended(Closure(r.n, SetToBag({r.m})))
    BY <1>2, <1>6, <2>1 DEF StartState
  <2>4. Topped(r.n, nfas, r.m)
    BY <1>4, <2>2 DEF Topped
  <2>5. Rooted(r.n, conds)
    BY <1>3, <2>4, ToppedRooted
  <2>6. Bare(r.n, {r.m})
    <3>1. Bare(r.n, Sets(conds) \cup {r.m})
      BY <1>3, <2>4, ToppedBare DEF Rooted
    <3> QED
      BY <3>1 DEF Bare
  <2>7. conds \in CondSet(Len(r.n)) /\ Len(nfas) <= Len(r.n)
    <3>1. Len(nfas) <= Len(r.n) /\ Len(r.n) \in Nat
      BY <1>4, <2>2
    <3> QED
      BY <1>3, <1>4, <3>1, CondSetGrows
  <2>8. \A k \in 1 .. Len(dfas) :
          /\ BagOK(r.n, dfas[k].dss) /\ r.m \notin DOMAIN dfas[k].dss
          /\ \A p : Seeded(nfas, dfas[k].dss, p) => Seeded(r.n, dfas[k].dss, p)
    BY <1>3, <2>4, SeededKept DEF BagsOK
  <2>9. \A j \in Conditions : conds[j].set # r.m
    BY <1>4, <2>2
  <2>10. Starting(r.n, r.m)
    BY <2>2, <2>5, <2>6, <2>7, <2>8, <2>9 DEF Starting
  <2> QED
    BY <2>3, <2>10
<1> QED
  BY <1>5, <1>6

LEMMA StartStateKeeps ==
  ASSUME Sealed, BagsOK, StartsOK, Unused, Len(dfas) = start, start \in Nat,
         dfas \in Seq(Range(dfas)), StartState
  PROVE  Sealed' /\ BagsOK' /\ StartsOK' /\ Unused' /\ Len(dfas') = start' /\ start' = start + 1
<1>1. PICK n, m : Starting(n, m) /\ nfas' = n /\ dfas' = Extended(Closure(n, SetToBag({m})))
  BY StartMade
<1>2. start' = start + 1 /\ UNCHANGED <<budget, conds>>
  BY DEF StartState
<1>3. PICK c : c = Closure(n, SetToBag({m}))
  OBVIOUS
<1>4. BagOK(n, c.dss) /\ Seeded(n, c.dss, m)
  BY <1>1, <1>3, SeededIs DEF Starting
<1>5. Known(c) = {}
  <2>1. \A i \in 1 .. Len(dfas) : m \notin DOMAIN dfas[i].dss
    BY <1>1 DEF Starting
  <2>2. m \in DOMAIN c.dss /\ DOMAIN dfas = 1 .. Len(dfas)
    BY <1>4, SeqFacts DEF Seeded
  <2> QED
    BY <2>1, <2>2 DEF Known
<1>6. /\ Len(dfas') = start + 1 /\ dfas'[start + 1].dss = c.dss
      /\ \A i \in 1 .. start : dfas'[i] = dfas[i]
  <2>1. PICK new : new = [dss |-> c.dss, acc |-> Accepted(c.acc)]
    OBVIOUS
  <2>2. dfas' = Append(dfas, new)
    BY <1>1, <1>3, <1>5, <2>1 DEF Extended
  <2>3. dfas \in Seq(Range(dfas) \cup {new})
    BY SeqFacts
  <2> QED
    BY <2>1, <2>2, <2>3
<1>7. Sealed'
  <2>1. Accs' = Accs
    BY <1>2 DEF Accs
  <2> QED
    BY <1>1, <1>2, <2>1 DEF Sealed, Starting
<1>8. \A i \in 1 .. start + 1 : i = start + 1 \/ i \in 1 .. start
  OBVIOUS
<1>9. BagsOK'
  <2>1. \A i \in 1 .. start : BagOK(n, dfas[i].dss)
    BY <1>1 DEF Starting
  <2> QED
    BY <1>1, <1>4, <1>6, <1>8, <2>1 DEF BagsOK
<1>10. StartsOK'
  <2>1. \A i \in 1 .. start : \E p : Seeded(n, dfas[i].dss, p)
    BY <1>1 DEF Starting, StartsOK
  <2> QED
    BY <1>1, <1>2, <1>4, <1>6, <1>8, <2>1 DEF StartsOK
<1>11. Unused'
  <2> SUFFICES ASSUME NEW j \in Conditions, start + 1 <= 2 * j - 2, NEW i \in 1 .. start + 1
               PROVE  conds[j].set \notin DOMAIN dfas'[i].dss
    BY <1>2 DEF Unused
  <2>1. CASE i \in 1 .. start
    <3>1. j \in Nat
      BY ConditionsAre
    <3>2. start <= 2 * j - 2
      BY <3>1
    <3> QED
      BY <1>6, <2>1, <3>2 DEF Unused
  <2>2. CASE i = start + 1
    <3>1. conds[j].set # m /\ Bare(n, Sets(conds)) /\ conds[j].set \in Sets(conds)
      BY <1>1 DEF Starting, Rooted, Sets
    <3>2. conds[j].set \notin DOMAIN c.dss
      BY <1>4, <3>1, BareSeed
    <3> QED
      BY <1>6, <2>2, <3>2
  <2> QED
    BY <1>8, <2>1, <2>2
<1> QED
  BY <1>2, <1>6, <1>7, <1>9, <1>10, <1>11
\* A row of transitions leads to states that there are, none of them a start
\* state or the end-of-buffer state, and from that nowhere.
Beyond(d) == d = 0 \/ d > NumConditionStates + 1
Row(r, i) ==
  /\ DOMAIN r = Symbols
  /\ \A e \in Symbols : /\ r[e] \in 0 .. Len(dfas)
                        /\ NulsNumbered => Beyond(r[e])
                        /\ i = end_of_buffer_state => r[e] = 0

EndsThere ==
  /\ start = NumConditionStates /\ end_of_buffer_state = start + 1
  /\ end_of_buffer_state \in 1 .. Len(dfas) /\ dfas[end_of_buffer_state].dss = EmptyBag

\* The new states of a symbol are none of the first ones.
LEMMA TargetIs ==
  ASSUME Sealed, BagsOK, ecgroup \in [Alphabet -> 1 .. csize], NEW dss, BagOK(nfas, dss),
         NEW e \in Symlist(dss)
  PROVE  LET c == Closure(nfas, Symfollowset(dss, e))
         IN  /\ BagOK(nfas, c.dss)
             /\ NulsNumbered => DOMAIN c.dss # {}
             /\ \A b, p : Seeded(nfas, b, p) => p \notin DOMAIN c.dss
<1> DEFINE b == Symfollowset(dss, e)
           c == Closure(nfas, b)
<1>1. Good(nfas, Accs) /\ Lax(nfas, {})
  BY DEF Sealed, Rooted
<1>2. Targets(dss, b) /\ ((\E s \in DOMAIN dss : Follows(s, e)) => DOMAIN b # {})
  BY <1>1, SymfollowsetIs
<1>3. NulsNumbered => DOMAIN b # {}
  <2>1. PICK s \in DOMAIN dss : Marked(s, e)
    BY DEF Symlist
  <2> HIDE DEF b
  <2> QED
    BY <1>2, <2>1, MarkedFollows
<1> HIDE DEF b
<1>4. Enclosed(nfas, b, c)
  BY <1>1, <1>2, ClosureIs DEF Targets
<1> HIDE DEF c
<1>5. ASSUME NEW d, NEW p, Seeded(nfas, d, p), p \in DOMAIN c.dss PROVE FALSE
  <2>1. Bare(nfas, {p})
    BY <1>5 DEF Seeded
  <2>2. p \in DOMAIN b
    BY <1>4, <1>5, <2>1 DEF Enclosed, Bare
  <2>3. PICK s \in 1 .. Len(nfas) : nfas[s].on # EPS /\ 1 \in DOMAIN nfas[s].to /\ nfas[s].to[1] = p
    BY <1>2, <2>2 DEF Targets
  <2> QED
    BY <2>1, <2>3 DEF Bare
<1>6. BagOK(nfas, c.dss) /\ (NulsNumbered => DOMAIN c.dss # {})
  BY <1>3, <1>4 DEF Enclosed
<1> QED
  BY <1>5, <1>6 DEF c, b

\* Where the symbol leads has been noted.
Entered(e) ==
  \E v \in 0 .. Len(dfas') : state' = [state EXCEPT ![e] = v] /\ (NulsNumbered => Beyond(v))

LEMMA FollowLeads ==
  ASSUME Sealed, BagsOK, StartsOK, EndsThere, DupInv, Follow, Row(state, todo_head)
  PROVE  /\ BagsOK' /\ Len(dfas) \in Nat /\ Len(dfas') \in Nat /\ Len(dfas) <= Len(dfas')
         /\ \A i \in 1 .. Len(dfas) : dfas'[i] = dfas[i]
         /\ todo_head # end_of_buffer_state
         /\ Entered(NextSymbol)
<1>1. /\ pc = "symbols" /\ NextSymbol # NIL /\ nfas' = nfas
      /\ ecgroup \in [Alphabet -> 1 .. csize] /\ dfas \in Seq(Range(dfas))
      /\ todo_head \in 1 .. Len(dfas) /\ sym \in Nat /\ DOMAIN state = Symbols
  BY DEF Follow, vars, DupInv
<1>2. PICK dss, e : dss = dfas[todo_head].dss /\ e = NextSymbol
  OBVIOUS
<1>3. e \in Symlist(dss) /\ e \in 1 .. numecs /\ numecs \in Nat
  BY <1>1, <1>2, NextSymbolIs
<1>4. BagOK(nfas, dss)
  BY <1>1, <1>2 DEF BagsOK
<1>5. todo_head # end_of_buffer_state
  <2>1. Symlist(EmptyBag) = {}
    BY DEF Symlist, EmptyBag, SetToBag
  <2> QED
    BY <1>2, <1>3, <2>1 DEF EndsThere
<1>6. PICK c : c = Closure(nfas, Symfollowset(dss, e))
  OBVIOUS
<1>7. /\ BagOK(nfas, c.dss)
      /\ NulsNumbered => DOMAIN c.dss # {}
      /\ \A b, p : Seeded(nfas, b, p) => p \notin DOMAIN c.dss
  BY <1>1, <1>3, <1>4, <1>6, TargetIs
<1>8. CASE Duplist(dss, e) # {}
  <2>1. state' = [state EXCEPT ![e] = state[Max(Duplist(dss, e))]] /\ dfas' = dfas
    BY <1>2, <1>8 DEF Follow
  <2>2. Max(Duplist(dss, e)) \in Symbols
    <3>1. PICK S : S = Duplist(dss, e)
      OBVIOUS
    <3>2. S \subseteq 1 .. e - 1 /\ S # {}
      BY <1>8, <3>1 DEF Duplist
    <3>3. e \in Int /\ S \subseteq Int /\ \A y \in S : y <= e
      BY ONLY <1>3, <3>2
    <3>4. Max(S) \in S
      BY <3>2, <3>3, MaxIs
    <3>5. Max(S) \in 1 .. numecs
      <4>1. PICK m, k : m = Max(S) /\ k = numecs
        OBVIOUS
      <4>2. m \in 1 .. e - 1 /\ e \in 1 .. k /\ k \in Nat
        BY <1>3, <3>2, <3>4, <4>1
      <4>3. m \in 1 .. k
        BY ONLY <4>2
      <4> QED
        BY <4>1, <4>3
    <3> QED
      BY <3>1, <3>5 DEF Symbols
  <2>3. state[Max(Duplist(dss, e))] \in 0 .. Len(dfas) /\ (NulsNumbered => Beyond(state[Max(Duplist(dss, e))]))
    BY <2>2 DEF Row
  <2>4. BagsOK' /\ Len(dfas) \in Nat
    <3>1. nfas' = nfas /\ dfas' = dfas /\ dfas \in Seq(Range(dfas))
      BY <1>1, <2>1
    <3> QED
      BY <3>1, SeqFacts DEF BagsOK
  <2>5. Entered(e)
    <3>1. PICK v : v = state[Max(Duplist(dss, e))]
      OBVIOUS
    <3>2. v \in 0 .. Len(dfas') /\ state' = [state EXCEPT ![e] = v] /\ (NulsNumbered => Beyond(v))
      BY <2>1, <2>3, <3>1
    <3> QED
      BY <3>2 DEF Entered
  <2> QED
    BY <1>2, <1>5, <2>1, <2>4, <2>5
<1>9. CASE Duplist(dss, e) = {}
  <2>1. state' = [state EXCEPT ![e] = Snstods(c)] /\ dfas' = Extended(c)
    BY <1>2, <1>6, <1>9 DEF Follow
  <2>2. /\ Len(dfas) \in Nat /\ Len(dfas') \in Nat /\ Len(dfas) <= Len(dfas')
        /\ \A i \in 1 .. Len(dfas) : dfas'[i] = dfas[i]
        /\ \A i \in 1 .. Len(dfas') : i > Len(dfas) =>
              dfas'[i] = [dss |-> c.dss, acc |-> Accepted(c.acc)]
        /\ Snstods(c) \in 1 .. Len(dfas') /\ dfas'[Snstods(c)].dss = c.dss
    BY <1>1, <2>1, ExtendedIs
  <2>3. BagsOK'
    <3>1. ASSUME NEW i \in 1 .. Len(dfas') PROVE BagOK(nfas, dfas'[i].dss)
      <4>1. i \in 1 .. Len(dfas) \/ i > Len(dfas)
        BY <2>2
      <4> QED
        BY <1>7, <2>2, <4>1 DEF BagsOK
    <3> QED
      BY <1>1, <3>1 DEF BagsOK
  <2>4. ASSUME NulsNumbered PROVE Beyond(Snstods(c))
    <3>1. PICK v : v = Snstods(c)
      OBVIOUS
    <3>2. v # end_of_buffer_state
      <4>1. end_of_buffer_state \in 1 .. Len(dfas) /\ dfas[end_of_buffer_state].dss = EmptyBag
        BY DEF EndsThere
      <4>2. DOMAIN EmptyBag = {}
        BY DEF EmptyBag, SetToBag
      <4> QED
        BY <1>7, <2>2, <2>4, <3>1, <4>1, <4>2
    <3>3. v \in Nat /\ v # 0 /\ start = NumConditionStates /\ end_of_buffer_state = start + 1 /\ start \in Nat
      <4>1. NumConditionStates \in Nat
        BY ConditionsAre DEF NumConditionStates
      <4> QED
        BY <2>2, <3>1, <4>1 DEF EndsThere
    <3>4. ASSUME v \in 1 .. start PROVE FALSE
      <4>1. PICK p : Seeded(nfas, dfas[v].dss, p)
        BY <3>4 DEF StartsOK
      <4>2. p \in DOMAIN dfas[v].dss
        BY <4>1 DEF Seeded
      <4>3. v \in 1 .. Len(dfas)
        BY <2>2, <3>3, <3>4 DEF EndsThere
      <4> QED
        BY <1>7, <2>2, <3>1, <4>1, <4>2, <4>3
    <3> QED
      BY <3>1, <3>2, <3>3, <3>4 DEF Beyond
  <2>5. Snstods(c) \in 0 .. Len(dfas')
    BY <2>2
  <2> QED
    BY <1>2, <1>5, <2>1, <2>2, <2>3, <2>4, <2>5 DEF Entered
<1> QED
  BY <1>8, <1>9
----------------------------------------------------------------------------
(* The invariant.                                                          *)

Reading == {"rule", "trail", "parsed"}
Fresh ==
  /\ end_of_buffer_state = 0 /\ todo_head = 0 /\ nxt = <<>> /\ state = <<>> /\ num_backing_up = 0
  /\ Len(dfas) = start /\ start \in 0 .. NumConditionStates

Wired ==
  /\ EndsThere
  /\ nxt \in Seq(Range(nxt))
  /\ Len(nxt) = IF pc = "symbols" THEN todo_head - 1 ELSE todo_head
  /\ \A i \in 1 .. Len(nxt) : Row(nxt[i], i)
  /\ Range(state) \subseteq 0 .. Len(dfas)
  /\ pc = "symbols" => Row(state, todo_head)
  /\ num_backing_up \in 0 .. Len(nxt)
  /\ num_backing_up = 0 =>
       \A i \in 1 .. Len(nxt) : i > NumConditionStates + 1 => dfas[i].acc # {}
  /\ pc = "done" => todo_head = Len(dfas)

DfaInv ==
  /\ DupInv /\ BagsOK /\ StartsOK
  /\ pc \in Reading \cup {"starts", "todo", "symbols", "done"}
  /\ pc \in Reading => IInv /\ start = 0
  /\ pc \notin Reading => Sealed
  /\ pc \in Reading \cup {"starts"} => Fresh
  /\ pc = "starts" => Unused
  /\ pc \in {"todo", "symbols", "done"} => Wired

\* More DFA states change nothing of the rows.
LEMMA RowKept ==
  ASSUME NEW r, NEW i, Row(r, i), Len(dfas) \in Nat, Len(dfas') \in Nat, Len(dfas) <= Len(dfas'),
         UNCHANGED <<ecgroup, end_of_buffer_state>>
  PROVE  Row(r, i)'
<1>1. Symbols' = Symbols
  BY DEF Symbols, numecs
<1>2. 0 .. Len(dfas) \subseteq 0 .. Len(dfas')
  OBVIOUS
<1> QED
  BY <1>1, <1>2 DEF Row, Beyond, NumConditionStates

LEMMA InitDfaInv == ASSUME DfaInit PROVE DfaInv
<1>1. IInv /\ pc = "rule"
  BY InitInv DEF DfaInit, Init
<1>2. ecgroup \in [Alphabet -> 1 .. csize]
  BY AlphabetIs DEF DfaInit
<1>3. /\ dfas = <<>> /\ start = 0 /\ end_of_buffer_state = 0 /\ todo_head = 0 /\ state = <<>>
      /\ nxt = <<>> /\ num_backing_up = 0
  BY DEF DfaInit
<1>4. NumConditionStates \in Nat
  BY ConditionsAre DEF NumConditionStates
<1>5. Fresh
  BY <1>3, <1>4 DEF Fresh
<1> QED
  BY <1>1, <1>2, <1>3, <1>5 DEF DfaInv, DupInv, BagsOK, StartsOK, Reading

LEMMA ParseKeeps ==
  ASSUME LeftFirst, DfaInv, DupInv', Parse, UNCHANGED dfavars PROVE DfaInv'
<1>1. pc \in Reading /\ pc' \in Reading
  BY ParsePc DEF Reading
<1>2. IInv'
  <2>1. IInv /\ [Next]_vars
    BY <1>1 DEF DfaInv, Next
  <2> QED
    BY <2>1, StepInv
<1>3. Fresh /\ start = 0
  BY <1>1 DEF DfaInv
<1>4. UNCHANGED <<dfas, start, end_of_buffer_state, todo_head, state, nxt, num_backing_up>>
  BY DEF dfavars
<1>5. Fresh'
  BY <1>3, <1>4 DEF Fresh, NumConditionStates
<1>6. BagsOK' /\ StartsOK'
  BY <1>3, <1>4 DEF Fresh, BagsOK, StartsOK
<1> QED
  BY <1>1, <1>2, <1>3, <1>4, <1>5, <1>6 DEF DfaInv, Reading

LEMMA ReadInKeeps == ASSUME DfaInv, DupInv', ReadIn PROVE DfaInv'
<1>1. /\ pc = "parsed" /\ pc' = "starts" /\ IInv /\ Fresh /\ start = 0
  BY DEF DfaInv, ReadIn, Reading
<1>2. UNCHANGED <<dfas, start, end_of_buffer_state, todo_head, state, nxt, num_backing_up, nfas, conds, budget>>
  BY DEF ReadIn
<1>3. Sealed
  <2>1. stk = <<>>
    BY <1>1 DEF IInv
  <2>2. Finals(nfas, stk) = {}
    BY <2>1 DEF Finals
  <2> QED
    BY <1>1, <2>2 DEF Sealed, IInv, Hung, Rooted
<1>4. Sealed'
  BY <1>2, <1>3 DEF Sealed, Accs
<1>5. Fresh'
  BY <1>1, <1>2 DEF Fresh, NumConditionStates
<1>6. BagsOK' /\ StartsOK' /\ Unused'
  BY <1>1, <1>2 DEF Fresh, BagsOK, StartsOK, Unused
<1> QED
  BY <1>1, <1>4, <1>5, <1>6 DEF DfaInv, Reading

LEMMA StartKeeps == ASSUME DfaInv, DupInv', StartState PROVE DfaInv'
<1>1. /\ pc = "starts" /\ pc' = "starts" /\ start < NumConditionStates
      /\ UNCHANGED <<end_of_buffer_state, todo_head, state, nxt, num_backing_up>>
  BY DEF StartState
<1>2. Sealed /\ BagsOK /\ StartsOK /\ Unused /\ Fresh /\ dfas \in Seq(Range(dfas))
  BY <1>1 DEF DfaInv, Reading, DupInv
<1>3. start \in Nat /\ Len(dfas) = start /\ NumConditionStates \in Nat
  BY <1>2, ConditionsAre DEF Fresh, NumConditionStates
<1>4. Sealed' /\ BagsOK' /\ StartsOK' /\ Unused' /\ Len(dfas') = start' /\ start' = start + 1
  BY <1>2, <1>3, StartStateKeeps
<1>5. Fresh'
  BY <1>1, <1>2, <1>3, <1>4 DEF Fresh, NumConditionStates
<1> QED
  BY <1>1, <1>4, <1>5 DEF DfaInv, Reading

LEMMA EndOfBufferKeeps == ASSUME DfaInv, DupInv', EndOfBufferState PROVE DfaInv'
<1> DEFINE none == [dss |-> EmptyBag, acc |-> {}]
<1>1. /\ pc = "starts" /\ pc' = "todo" /\ start = NumConditionStates /\ Known(none) = {}
      /\ dfas' = Extended(none) /\ end_of_buffer_state' = Snstods(none)
      /\ UNCHANGED <<start, todo_head, state, nxt, num_backing_up, nfas, conds, budget>>
  BY DEF EndOfBufferState
<1>2. Sealed /\ BagsOK /\ StartsOK /\ Fresh /\ dfas \in Seq(Range(dfas))
  BY <1>1 DEF DfaInv, Reading, DupInv
<1>3. start \in Nat /\ Len(dfas) = start
  BY <1>2 DEF Fresh
<1>4. /\ Len(dfas') = start + 1 /\ dfas'[start + 1].dss = EmptyBag /\ end_of_buffer_state' = start + 1
      /\ \A i \in 1 .. start : dfas'[i] = dfas[i]
  <2>1. PICK new : new = [dss |-> EmptyBag, acc |-> Accepted({})]
    OBVIOUS
  <2>2. dfas' = Append(dfas, new) /\ end_of_buffer_state' = Len(dfas) + 1
    BY <1>1, <2>1 DEF Extended, Snstods
  <2>3. dfas \in Seq(Range(dfas) \cup {new})
    BY <1>2, SeqFacts
  <2> QED
    BY <1>3, <2>1, <2>2, <2>3
<1>5. \A i \in 1 .. start + 1 : i = start + 1 \/ i \in 1 .. start
  BY <1>3
<1>6. BagsOK'
  <2>1. BagOK(nfas, EmptyBag)
    BY DEF BagOK, IsABag, EmptyBag, SetToBag
  <2>2. \A i \in 1 .. start : BagOK(nfas, dfas[i].dss)
    BY <1>2, <1>3 DEF BagsOK
  <2> QED
    BY <1>1, <1>4, <1>5, <2>1, <2>2 DEF BagsOK
<1>7. StartsOK'
  BY <1>1, <1>2, <1>4 DEF StartsOK
<1>8. Sealed'
  BY <1>1, <1>2 DEF Sealed, Accs
<1>9. EndsThere'
  BY <1>1, <1>3, <1>4 DEF EndsThere, NumConditionStates
<1>10. Wired'
  <2>1. nxt = <<>> /\ state = <<>> /\ todo_head = 0 /\ num_backing_up = 0
    BY <1>2 DEF Fresh
  <2>2. nxt' \in Seq(Range(nxt')) /\ Len(nxt') = 0 /\ Range(state') = {}
    BY <1>1, <2>1 DEF Range
  <2> QED
    BY <1>1, <1>9, <2>1, <2>2 DEF Wired
<1> QED
  BY <1>1, <1>6, <1>7, <1>8, <1>10 DEF DfaInv, Reading

LEMMA BeginKeeps == ASSUME DfaInv, DupInv', BeginState PROVE DfaInv'
<1>1. /\ pc = "todo" /\ pc' = "symbols" /\ todo_head < Len(dfas) /\ todo_head' = todo_head + 1
      /\ state' = [e \in Symbols |-> 0]
      /\ UNCHANGED <<budget, nfas, conds, ecgroup, dfas, start, end_of_buffer_state, nxt, num_backing_up>>
  BY DEF BeginState
<1>2. Sealed /\ BagsOK /\ StartsOK /\ Wired /\ Len(dfas) \in Nat /\ todo_head \in Nat
  BY <1>1, SeqFacts DEF DfaInv, Reading, DupInv
<1>3. Sealed' /\ BagsOK' /\ StartsOK' /\ EndsThere' /\ Symbols' = Symbols /\ NumConditionStates' = NumConditionStates
  BY <1>1, <1>2 DEF Sealed, Accs, BagsOK, StartsOK, Wired, EndsThere, Symbols, numecs, NumConditionStates
<1>4. \A r, i : Row(r, i) => Row(r, i)'
  BY <1>1, <1>2, RowKept
<1>5. Row(state, todo_head)' /\ Range(state') \subseteq 0 .. Len(dfas)
  BY <1>1, <1>2, <1>3 DEF Row, Beyond, Range
<1>6. Wired'
  <2>1. /\ nxt \in Seq(Range(nxt)) /\ Len(nxt) = todo_head /\ \A i \in 1 .. Len(nxt) : Row(nxt[i], i)
        /\ num_backing_up \in 0 .. Len(nxt)
        /\ num_backing_up = 0 =>
             \A i \in 1 .. Len(nxt) : i > NumConditionStates + 1 => dfas[i].acc # {}
    BY <1>1, <1>2 DEF Wired
  <2> QED
    BY <1>1, <1>2, <1>3, <1>4, <1>5, <2>1 DEF Wired
<1> QED
  BY <1>1, <1>3, <1>6 DEF DfaInv, Reading
LEMMA FollowKeeps == ASSUME DfaInv, DupInv', Follow PROVE DfaInv'
<1>1. /\ pc = "symbols" /\ pc' = "symbols" /\ NextSymbol # NIL
      /\ UNCHANGED <<budget, nfas, conds, ecgroup, start, end_of_buffer_state, todo_head, nxt, num_backing_up>>
  BY DEF Follow, vars
<1>2. Sealed /\ BagsOK /\ StartsOK /\ Wired /\ DupInv
  BY <1>1 DEF DfaInv, Reading
<1>3. EndsThere /\ Row(state, todo_head)
  BY <1>1, <1>2 DEF Wired
<1>4. /\ BagsOK' /\ Len(dfas) \in Nat /\ Len(dfas') \in Nat /\ Len(dfas) <= Len(dfas')
      /\ \A i \in 1 .. Len(dfas) : dfas'[i] = dfas[i]
      /\ todo_head # end_of_buffer_state
      /\ Entered(NextSymbol)
  BY <1>2, <1>3, FollowLeads
<1>e. PICK e : e = NextSymbol
  OBVIOUS
<1>5. PICK v : /\ v \in 0 .. Len(dfas') /\ state' = [state EXCEPT ![e] = v]
               /\ NulsNumbered => Beyond(v)
  <2>1. Entered(e)
    BY <1>4, <1>e
  <2> QED
    BY <2>1 DEF Entered
<1>6. start \in Nat /\ start < Len(dfas) /\ end_of_buffer_state \in 1 .. Len(dfas)
  <2>1. NumConditionStates \in Nat
    BY ConditionsAre DEF NumConditionStates
  <2> QED
    BY <1>3, <1>4, <2>1 DEF EndsThere
<1>7. Sealed' /\ Symbols' = Symbols /\ NumConditionStates' = NumConditionStates
  BY <1>1, <1>2 DEF Sealed, Accs, Symbols, numecs, NumConditionStates
<1>8. StartsOK'
  <2>1. \A i \in 1 .. start : i \in 1 .. Len(dfas)
    BY <1>4, <1>6
  <2> QED
    BY <1>1, <1>2, <1>4, <2>1 DEF StartsOK
<1>9. EndsThere'
  <2>1. end_of_buffer_state \in 1 .. Len(dfas')
    BY <1>4, <1>6
  <2> QED
    BY <1>1, <1>3, <1>4, <1>6, <1>7, <2>1 DEF EndsThere
<1>10. \A r, i : Row(r, i) => Row(r, i)'
  BY <1>1, <1>4, RowKept
<1>11. Row(state, todo_head)'
  <2>1. /\ DOMAIN state' = DOMAIN state
        /\ \A d \in DOMAIN state : state'[d] = IF d = e THEN v ELSE state[d]
    BY <1>5
  <2>2. Row(state, todo_head) /\ DOMAIN state = Symbols
    BY <1>3 DEF Row
  <2>3. \A d \in Symbols : state[d] \in 0 .. Len(dfas) /\ (NulsNumbered => Beyond(state[d]))
    BY <2>2 DEF Row
  <2>5. \A d \in Symbols : state'[d] \in 0 .. Len(dfas') /\ (NulsNumbered => Beyond(state'[d]))
    <3>1. 0 .. Len(dfas) \subseteq 0 .. Len(dfas')
      BY <1>4
    <3>2. v \in 0 .. Len(dfas') /\ (NulsNumbered => Beyond(v))
      BY <1>5
    <3> QED
      BY <2>1, <2>2, <2>3, <3>1, <3>2
  <2> QED
    BY <1>1, <1>4, <1>7, <2>1, <2>2, <2>5 DEF Row, Beyond
<1>12. Range(state') \subseteq 0 .. Len(dfas')
  BY <1>11 DEF Row, Range
<1>13. Wired'
  <2>1. /\ nxt \in Seq(Range(nxt)) /\ Len(nxt) = todo_head - 1 /\ \A i \in 1 .. Len(nxt) : Row(nxt[i], i)
        /\ num_backing_up \in 0 .. Len(nxt)
        /\ num_backing_up = 0 =>
             \A i \in 1 .. Len(nxt) : i > NumConditionStates + 1 => dfas[i].acc # {}
    BY <1>1, <1>2 DEF Wired
  <2>2. \A i \in 1 .. Len(nxt) : i \in 1 .. Len(dfas)
    <3>1. todo_head \in 0 .. Len(dfas)
      BY <1>2 DEF DupInv
    <3> QED
      BY <1>4, <2>1, <3>1
  <2> QED
    BY <1>1, <1>4, <1>7, <1>9, <1>10, <1>11, <1>12, <2>1, <2>2 DEF Wired
<1> QED
  BY <1>1, <1>4, <1>7, <1>8, <1>13 DEF DfaInv, Reading

LEMMA EndStateKeeps == ASSUME DfaInv, DupInv', EndState PROVE DfaInv'
<1>1. /\ pc = "symbols" /\ pc' = "todo"
      /\ num_backing_up' = num_backing_up + IF BacksUp(todo_head) THEN 1 ELSE 0
      /\ nxt' = Append(nxt, state)
      /\ UNCHANGED <<budget, nfas, conds, ecgroup, dfas, start, end_of_buffer_state, todo_head, state>>
  BY DEF EndState
<1>2. Sealed /\ BagsOK /\ StartsOK /\ Wired /\ DupInv /\ todo_head \in 1 .. Len(dfas) /\ Len(dfas) \in Nat
  BY <1>1, SeqFacts DEF DfaInv, Reading, DupInv
<1>3. Sealed' /\ BagsOK' /\ StartsOK' /\ Symbols' = Symbols /\ NumConditionStates' = NumConditionStates
  BY <1>1, <1>2 DEF Sealed, Accs, BagsOK, StartsOK, Symbols, numecs, NumConditionStates
<1>4. EndsThere'
  BY <1>1, <1>2, <1>3 DEF EndsThere, Wired
<1>5. \A r, i : Row(r, i) => Row(r, i)'
  BY <1>1, <1>2, RowKept
<1>6. /\ nxt \in Seq(Range(nxt)) /\ Len(nxt) = todo_head - 1 /\ \A i \in 1 .. Len(nxt) : Row(nxt[i], i)
      /\ num_backing_up \in 0 .. Len(nxt) /\ Row(state, todo_head) /\ Range(state) \subseteq 0 .. Len(dfas)
      /\ num_backing_up = 0 =>
           \A i \in 1 .. Len(nxt) : i > NumConditionStates + 1 => dfas[i].acc # {}
  BY <1>1, <1>2 DEF Wired
<1>7. /\ nxt' \in Seq(Range(nxt')) /\ Len(nxt') = todo_head /\ nxt'[todo_head] = state
      /\ \A i \in 1 .. todo_head - 1 : nxt'[i] = nxt[i]
  <2>1. nxt \in Seq(Range(nxt) \cup {state})
    BY <1>6, SeqFacts
  <2>2. /\ nxt' \in Seq(Range(nxt) \cup {state}) /\ Len(nxt') = Len(nxt) + 1
        /\ nxt'[Len(nxt) + 1] = state /\ \A i \in 1 .. Len(nxt) : nxt'[i] = nxt[i]
    BY <1>1, <2>1
  <2>3. todo_head = Len(nxt) + 1
    BY <1>2, <1>6
  <2> QED
    BY <1>6, <2>2, <2>3, SeqRange
<1>8. \A i \in 1 .. todo_head : i = todo_head \/ i \in 1 .. todo_head - 1
  BY <1>2
<1>9. \A i \in 1 .. Len(nxt') : Row(nxt'[i], i)
  BY <1>6, <1>7, <1>8
<1>10. num_backing_up' \in 0 .. Len(nxt')
  BY <1>1, <1>2, <1>6, <1>7
<1>11. ASSUME num_backing_up' = 0, NEW i \in 1 .. Len(nxt'), i > NumConditionStates + 1
       PROVE  dfas[i].acc # {}
  <2>1. num_backing_up = 0 /\ ~BacksUp(todo_head)
    <3>1. PICK z : z = num_backing_up
      OBVIOUS
    <3>2. z \in Nat
      BY <1>6, <3>1
    <3> QED
      BY <1>1, <1>11, <3>1, <3>2
  <2>2. CASE i = todo_head
    BY <1>11, <2>1, <2>2 DEF BacksUp
  <2>3. CASE i # todo_head
    BY <1>6, <1>7, <1>8, <1>11, <2>1, <2>3
  <2> QED
    BY <2>2, <2>3
<1>12. Wired'
  <2>1. \A i \in 1 .. Len(nxt') : Row(nxt[i], i)'
    <3>1. \A i \in 1 .. Len(nxt') : Row(nxt'[i], i) => Row(nxt[i], i)'
      BY <1>1, <1>3 DEF Row, Beyond
    <3> QED
      BY <1>9, <3>1
  <2> QED
    BY <1>1, <1>3, <1>4, <1>6, <1>7, <1>10, <1>11, <2>1 DEF Wired
<1> QED
  BY <1>1, <1>3, <1>12 DEF DfaInv, Reading

LEMMA RestKeeps ==
  ASSUME DfaInv, DupInv', Finish \/ Done \/ UNCHANGED allvars PROVE DfaInv'
<1>1. /\ UNCHANGED <<budget, nfas, conds, stk, rules, rule, steps>> /\ UNCHANGED dfavars
  <2>1. ASSUME Finish PROVE UNCHANGED <<budget, nfas, conds, stk, rules, rule, steps>> /\ UNCHANGED dfavars
    BY <2>1 DEF Finish
  <2>2. ASSUME Done \/ UNCHANGED allvars
        PROVE  UNCHANGED <<budget, nfas, conds, stk, rules, rule, steps>> /\ UNCHANGED dfavars
    BY <2>2 DEF Done, allvars, vars
  <2> QED
    BY <2>1, <2>2
<1>2. UNCHANGED <<reject, ecgroup, dfas, start, end_of_buffer_state, todo_head, sym, state, nxt, num_backing_up>>
  BY <1>1 DEF dfavars
<1>3. (Sealed => Sealed') /\ (BagsOK => BagsOK') /\ (StartsOK => StartsOK') /\ (Fresh => Fresh') /\ (Unused => Unused')
  BY <1>1, <1>2 DEF Sealed, Accs, BagsOK, StartsOK, Fresh, Unused, NumConditionStates
<1>4. /\ EndsThere => EndsThere'
      /\ \A r, i : Row(r, i) => Row(r, i)'
      /\ \A i : Row(nxt[i], i) => Row(nxt[i], i)'
      /\ Row(state, todo_head) => Row(state, todo_head)'
  <2>1. Symbols' = Symbols
    BY <1>2 DEF Symbols, numecs
  <2> QED
    BY <1>2, <2>1 DEF EndsThere, Row, Beyond, NumConditionStates
<1>5. CASE Finish
  <2>1. pc = "todo" /\ todo_head = Len(dfas) /\ pc' = "done"
    BY <1>5 DEF Finish
  <2>2. Sealed /\ BagsOK /\ StartsOK /\ Wired
    BY <2>1 DEF DfaInv, Reading
  <2>3. Wired'
    BY <1>2, <1>4, <2>1, <2>2 DEF Wired, NumConditionStates
  <2> QED
    BY <1>3, <2>1, <2>2, <2>3 DEF DfaInv, Reading
<1>6. CASE pc' = pc
  <2>1. Wired => Wired'
    BY <1>2, <1>4, <1>6 DEF Wired, NumConditionStates
  <2>2. IInv => IInv'
    BY <1>1, <1>6 DEF IInv, Accs, RuleId
  <2> QED
    BY <1>2, <1>3, <1>6, <2>1, <2>2 DEF DfaInv
<1>7. Done \/ UNCHANGED allvars => pc' = pc
  BY DEF Done, allvars, vars
<1> QED
  BY <1>5, <1>6, <1>7

LEMMA StepDfaInv == ASSUME LeftFirst, DfaInv, [DfaNext]_allvars PROVE DfaInv'
<1>1. DupInv'
  BY StepDup DEF DfaInv
<1> QED
  BY <1>1, ParseKeeps, ReadInKeeps, StartKeeps, EndOfBufferKeeps, BeginKeeps, FollowKeeps,
     EndStateKeeps, RestKeeps DEF DfaNext

LEMMA InvDfaTypeOK == ASSUME DfaInv PROVE DfaTypeOK
<1>1. pc \in {"rule", "trail", "parsed", "starts", "todo", "symbols", "done"}
  BY DEF DfaInv, Reading
<1>2. ecgroup \in [Alphabet -> 1 .. csize] /\ todo_head \in 0 .. Len(dfas)
      /\ dfas \in Seq(Range(dfas)) /\ Len(dfas) \in Nat /\ DOMAIN dfas = 1 .. Len(dfas)
  BY SeqFacts DEF DfaInv, DupInv
<1>3. \A d \in Range(dfas) : IsABag(d.dss) /\ DOMAIN d.dss \subseteq DOMAIN nfas
  <2>1. DOMAIN nfas = 1 .. Len(nfas)
    BY SeqFacts DEF DfaInv, Sealed, IInv, Good
  <2>2. ASSUME NEW d \in Range(dfas) PROVE BagOK(nfas, d.dss)
    BY <1>2 DEF DfaInv, BagsOK, Range
  <2> QED
    BY <2>1, <2>2 DEF BagOK
<1>4. CASE Fresh
  <2>1. Range(nxt) \cup {state} = {<<>>} /\ Range(<<>>) = {}
    BY <1>4 DEF Fresh, Range
  <2>2. \A r \in Range(nxt) \cup {state} : Range(r) \subseteq 0 .. Len(dfas)
    BY <2>1
  <2> QED
    BY <1>1, <1>2, <1>3, <1>4, <2>2 DEF DfaTypeOK, Fresh
<1>5. CASE Wired
  <2>1. \A r \in Range(nxt) \cup {state} : Range(r) \subseteq 0 .. Len(dfas)
    <3>1. ASSUME NEW r \in Range(nxt) PROVE Range(r) \subseteq 0 .. Len(dfas)
      <4>1. PICK i \in 1 .. Len(nxt) : r = nxt[i]
        BY <1>5, SeqFacts DEF Wired, Range
      <4>2. Row(r, i)
        BY <1>5, <4>1 DEF Wired
      <4> QED
        BY <4>2 DEF Row, Range
    <3> QED
      BY <1>5, <3>1 DEF Wired
  <2>2. end_of_buffer_state \in 0 .. Len(dfas)
    BY <1>5 DEF Wired, EndsThere
  <2>3. num_backing_up \in 0 .. Len(dfas)
    <3>1. num_backing_up \in 0 .. Len(nxt) /\ (Len(nxt) = todo_head \/ Len(nxt) = todo_head - 1)
      BY <1>5 DEF Wired
    <3> QED
      BY <1>2, <3>1
  <2> QED
    BY <1>1, <1>2, <1>3, <2>1, <2>2, <2>3 DEF DfaTypeOK
<1>6. Fresh \/ Wired
  BY DEF DfaInv, Reading
<1> QED
  BY <1>4, <1>5, <1>6

\* There is a symbol, that of NUL.
LEMMA SymbolsThere == ASSUME ecgroup \in [Alphabet -> 1 .. csize] PROVE Symbols # {}
<1>1. PICK R : R = Range(ecgroup)
  OBVIOUS
<1>2. R \subseteq 1 .. csize /\ R # {} /\ csize \in Nat
  BY <1>1, AlphabetIs DEF Range
<1>3. IsFiniteSet(R)
  BY <1>2, FiniteUpTo
<1>4. Cardinality(R) \in Nat /\ Cardinality(R) # 0
  BY <1>2, <1>3, FS_CardinalityType, FS_EmptySet
<1>5. 1 \in Symbols
  <2>1. PICK k : k = Cardinality(R)
    OBVIOUS
  <2>2. numecs = k /\ k \in Nat /\ k # 0
    BY <1>1, <1>4, <2>1 DEF numecs
  <2> QED
    BY <2>2 DEF Symbols
<1> QED
  BY <1>5

LEMMA InvEobApart == ASSUME NulsNumbered, DfaInv PROVE EobApart
<1> SUFFICES ASSUME pc = "done" PROVE EobApart
  BY DEF EobApart
<1>1. Wired /\ EndsThere /\ ecgroup \in [Alphabet -> 1 .. csize]
  BY DEF DfaInv, Reading, Wired, DupInv
<1>2. /\ end_of_buffer_state = NumConditionStates + 1 /\ NumConditionStates \in Nat
      /\ end_of_buffer_state \in 1 .. Len(nxt)
  <2>1. NumConditionStates \in Nat
    BY ConditionsAre DEF NumConditionStates
  <2> QED
    BY <1>1, <2>1 DEF Wired, EndsThere
<1>3. ASSUME NEW r \in Range(nxt) PROVE end_of_buffer_state \notin Range(r)
  <2>1. PICK i \in 1 .. Len(nxt) : r = nxt[i]
    BY <1>1, SeqFacts DEF Wired, Range
  <2>2. Row(r, i)
    BY <1>1, <2>1 DEF Wired
  <2>3. \A e \in DOMAIN r : Beyond(r[e])
    BY <2>2 DEF Row
  <2>4. ~Beyond(end_of_buffer_state)
    BY <1>2 DEF Beyond
  <2> QED
    BY <2>3, <2>4 DEF Range
<1>4. Range(nxt[end_of_buffer_state]) = {0}
  <2>1. Row(nxt[end_of_buffer_state], end_of_buffer_state)
    BY <1>1, <1>2 DEF Wired
  <2>2. Symbols # {}
    BY <1>1, SymbolsThere
  <2> QED
    BY <2>1, <2>2 DEF Row, Range
<1> QED
  BY <1>2, <1>3, <1>4, Zenon DEF EobApart

----------------------------------------------------------------------------
(* Every character has a symbol.                                           *)

Dense(g) == \A c \in Alphabet : g[c] \in 1 .. Cardinality(Range(g))

\* The numbers of the classes are the ranks of their least members, and there
\* are as many of one as of the other.
LEMMA RanksDense == ASSUME useecs PROVE Dense(EcNumbers)
<1> DEFINE L == {Least(c) : c \in Alphabet}
           below(x) == {y \in L : y <= x}
           R == Range(EcNumbers)
           f == [x \in L |-> Cardinality(below(x))]
<1>1. L \subseteq 1 .. csize /\ csize \in Nat
  BY LeastIs, AlphabetIs
<1>2. ASSUME NEW x PROVE IsFiniteSet(below(x)) /\ Cardinality(below(x)) \in Nat /\ below(x) \subseteq L
  <2>1. below(x) \in SUBSET (1 .. csize) /\ below(x) \subseteq L
    BY <1>1
  <2> HIDE DEF below, L
  <2> QED
    BY <1>1, <2>1, FiniteUpTo, FS_CardinalityType
<1>3. IsFiniteSet(L)
  <2> HIDE DEF L
  <2> QED
    BY <1>1, FiniteUpTo
<1>4. EcNumbers = [c \in Alphabet |-> Cardinality(below(Least(c)))]
  <2>1. \A c \in Alphabet : below(Least(c)) = {Least(d) : d \in {x \in Alphabet : Least(x) <= Least(c)}}
    OBVIOUS
  <2> HIDE DEF below, L
  <2> QED
    BY <2>1 DEF EcNumbers
<1>5. f \in [L -> R]
  <2>1. ASSUME NEW x \in L PROVE f[x] \in R
    <3>1. PICK c \in Alphabet : x = Least(c)
      OBVIOUS
    <3>2. EcNumbers[c] = f[x] /\ c \in DOMAIN EcNumbers
      <4> HIDE DEF below, L
      <4> QED
        BY <1>4, <3>1
    <3> HIDE DEF f, L
    <3> QED
      BY <3>2 DEF Range
  <2>2. DOMAIN f = L /\ f = [x \in L |-> f[x]]
    OBVIOUS
  <2> HIDE DEF f, L, R
  <2> QED
    BY <2>1, <2>2
<1>6. ASSUME NEW x \in L, NEW y \in L, x < y PROVE f[x] < f[y]
  <2>1. below(x) \subseteq below(y) /\ y \in below(y) /\ y \notin below(x)
    BY <1>1, <1>6
  <2>2. f[x] = Cardinality(below(x)) /\ f[y] = Cardinality(below(y))
    OBVIOUS
  <2> HIDE DEF below, L, f
  <2>3. /\ Cardinality(below(x)) <= Cardinality(below(y))
        /\ Cardinality(below(x)) = Cardinality(below(y)) => below(x) = below(y)
    BY <1>2, <2>1, FS_Subset
  <2>4. below(x) # below(y)
    BY <2>1
  <2> QED
    BY <1>2, <2>2, <2>3, <2>4
<1>7. \A x, y \in L : f[x] = f[y] => x = y
  <2> SUFFICES ASSUME NEW x \in L, NEW y \in L, f[x] = f[y], x # y PROVE FALSE
    OBVIOUS
  <2>1. x \in Int /\ y \in Int /\ f[x] \in Nat /\ f[y] \in Nat
    <3>1. f[x] = Cardinality(below(x)) /\ f[y] = Cardinality(below(y))
      OBVIOUS
    <3> HIDE DEF f, L, below
    <3> QED
      BY <1>1, <1>2, <3>1
  <2>2. x < y \/ y < x
    BY <2>1
  <2> HIDE DEF f, L
  <2> QED
    BY <1>6, <2>1, <2>2
<1>8. IsFiniteSet(R) /\ R \subseteq 1 .. csize
  <2>1. R \subseteq 1 .. csize
    BY EcNumbersAre DEF Range
  <2> HIDE DEF R
  <2> QED
    BY <1>1, <2>1, FiniteUpTo
<1>9. Cardinality(L) <= Cardinality(R)
  <2>1. Cardinality(L) \in Nat /\ Cardinality(R) \in Nat
    BY <1>3, <1>8, FS_CardinalityType
  <2>2. ~(Cardinality(R) < Cardinality(L))
    <3> HIDE DEF L, R, f
    <3> QED
      BY <1>3, <1>5, <1>7, <1>8, FS_PigeonHole
  <2> HIDE DEF L, R
  <2> QED
    BY <2>1, <2>2
<1>10. ASSUME NEW c \in Alphabet PROVE EcNumbers[c] \in 1 .. Cardinality(R)
  <2>1. EcNumbers[c] = Cardinality(below(Least(c))) /\ EcNumbers[c] \in 1 .. csize
    <3> HIDE DEF below
    <3> QED
      BY <1>4, EcNumbersAre
  <2> HIDE DEF below, L, R
  <2>2. Cardinality(below(Least(c))) <= Cardinality(L)
    BY <1>2, <1>3, FS_Subset
  <2>3. Cardinality(L) \in Nat /\ Cardinality(R) \in Nat
    BY <1>3, <1>8, FS_CardinalityType
  <2> QED
    BY <1>1, <1>9, <2>1, <2>2, <2>3
<1> QED
  BY <1>10 DEF Dense

\* So it is if the characters are the symbols.
LEMMA MembersDense == ASSUME ~useecs PROVE Dense(EcNumbers)
<1>1. EcNumbers = [c \in Alphabet |-> Member(c)]
  BY DEF EcNumbers
<1>2. csize \in Nat /\ csize # 0 /\ Alphabet = 0 .. csize - 1
  BY AlphabetIs DEF Alphabet
<1>3. Range(EcNumbers) = 1 .. csize
  <2>1. \A c \in Alphabet : Member(c) \in 1 .. csize
    BY AlphabetIs
  <2>2. ASSUME NEW k \in 1 .. csize PROVE \E c \in Alphabet : Member(c) = k
    <3>1. CASE k = csize
      BY <1>2, <3>1, AlphabetIs DEF Member
    <3>2. CASE k # csize
      <4>1. k \in Alphabet /\ k # 0
        BY <1>2, <3>2
      <4> QED
        BY <4>1 DEF Member
    <3> QED
      BY <3>1, <3>2
  <2> QED
    BY <1>1, <2>1, <2>2 DEF Range
<1>4. Cardinality(1 .. csize) = csize
  <2>1. 1 \in Int /\ csize \in Int /\ csize = IF 1 > csize THEN 0 ELSE csize - 1 + 1
    BY <1>2
  <2> QED
    BY <2>1, FS_Interval
<1> QED
  BY <1>1, <1>3, <1>4, AlphabetIs DEF Dense

\* Once the rules are read.
SymbolsInv == pc \notin Reading => \A c \in Alphabet : ecgroup[c] \in Symbols

LEMMA StepSymbols == ASSUME SymbolsInv, [DfaNext]_allvars PROVE SymbolsInv'
<1>1. ASSUME UNCHANGED ecgroup, pc' \in Reading \/ pc \notin Reading PROVE SymbolsInv'
  BY <1>1 DEF SymbolsInv, Symbols, numecs
<1>2. CASE Parse /\ UNCHANGED dfavars
  <2>1. pc' \in Reading
    BY <1>2, ParsePc DEF Reading
  <2> QED
    BY <2>1 DEF SymbolsInv
<1>3. CASE ReadIn
  <2>1. PICK g : g = EcNumbers
    OBVIOUS
  <2>2. Dense(g)
    BY <2>1, RanksDense, MembersDense
  <2>3. ecgroup' = g
    BY <1>3, <2>1 DEF ReadIn
  <2> QED
    BY <2>2, <2>3 DEF SymbolsInv, Symbols, numecs, Dense
<1>4. CASE StartState
  BY <1>1, <1>4 DEF StartState, Reading
<1>5. CASE EndOfBufferState
  BY <1>1, <1>5 DEF EndOfBufferState, Reading
<1>6. CASE BeginState
  BY <1>1, <1>6 DEF BeginState, Reading
<1>7. CASE Follow
  BY <1>1, <1>7 DEF Follow, Reading
<1>8. CASE EndState
  BY <1>1, <1>8 DEF EndState, Reading
<1>9. CASE Finish
  BY <1>1, <1>9 DEF Finish, Reading, dfavars
<1>10. CASE Done
  BY <1>1, <1>10 DEF Done, Reading, allvars, dfavars
<1>11. CASE UNCHANGED allvars
  <2>1. UNCHANGED <<pc, ecgroup>>
    BY <1>11 DEF allvars, vars, dfavars
  <2> QED
    BY <1>1, <2>1 DEF SymbolsInv
<1> QED
  BY <1>2, <1>3, <1>4, <1>5, <1>6, <1>7, <1>8, <1>9, <1>10, <1>11 DEF DfaNext
----------------------------------------------------------------------------
(* Backing up.                                                             *)

LEMMA AllWordsAre == ASSUME NEW w \in AllWords PROVE w \in Seq(Alphabet)
<1> DEFINE A == {<<c>> : c \in Alphabet}
<1>1. Over(A, Alphabet)
  <2>1. \A c \in Alphabet : <<c>> \in Seq(Alphabet)
    OBVIOUS
  <2> QED
    BY <2>1 DEF Over
<1> HIDE DEF A
<1>2. MaxWord \in Nat /\ 0 \in Nat
  BY NfaAssumption, Zenon
<1>3. Over(Between(A, 0, MaxWord), Alphabet)
  BY <1>1, <1>2, RepetitionsOver
<1>4. AllWords = Between(A, 0, MaxWord)
  BY DEF AllWords, A
<1> QED
  BY <1>3, <1>4 DEF Over

\* Where a text leads is no start state, and not the end-of-buffer state.
LEMMA RunLeads ==
  ASSUME NulsNumbered, Wired, pc = "done", \A c \in Alphabet : ecgroup[c] \in Symbols,
         dfas \in Seq(Range(dfas)), NEW d \in 1 .. Len(dfas), NEW w \in Seq(Alphabet), w # <<>>
  PROVE  Run(d, w) \in 0 .. Len(dfas) /\ Beyond(Run(d, w))
<1> DEFINE n == Len(w)
           V == 0 .. Len(dfas)
           next(i, x) == IF x = 0 THEN 0 ELSE nxt[x][ecgroup[w[i]]]
           at[i \in 0 .. n] == IF i = 0 THEN d ELSE next(i, at[i - 1])
           G == [q \in (0 .. n) \X V |-> next(q[1], q[2])]
<1>1. n \in Nat /\ n # 0 /\ \A i \in 1 .. n : w[i] \in Alphabet
  OBVIOUS
<1>2. Len(nxt) = Len(dfas) /\ Len(dfas) \in Nat /\ \A i \in 1 .. Len(nxt) : Row(nxt[i], i)
  BY SeqFacts DEF Wired
<1>3. ASSUME NEW i \in 1 .. n, NEW x \in V PROVE next(i, x) \in V /\ Beyond(next(i, x))
  <2>1. CASE x = 0
    BY <1>2, <2>1 DEF Beyond
  <2>2. CASE x # 0
    <3>1. x \in 1 .. Len(nxt) /\ ecgroup[w[i]] \in Symbols
      BY <1>1, <1>2, <2>2
    <3>2. Row(nxt[x], x)
      BY <1>2, <3>1
    <3> QED
      BY <2>2, <3>1, <3>2 DEF Row
  <2> QED
    BY <2>1, <2>2
<1>4. d \in V
  BY <1>2
<1> HIDE DEF n, V, next
<1>z. 0 \in Int /\ n \in Int /\ 0 <= n
  BY <1>1
<1>5. at = [i \in 0 .. n |-> IF i = 0 THEN d ELSE next(i, at[i - 1])]
  <2>1. PICK f : Recursion(f, 0, n, d, G)
    <3> HIDE DEF G
    <3> QED
      BY ONLY <1>z, RecursionExists
  <2>2. f[0] = d /\ f[0] \in V
    BY <1>1, <1>4, <2>1 DEF Recursion
  <2>3. ASSUME NEW i \in 1 .. n, f[i - 1] \in V PROVE f[i] = next(i, f[i - 1]) /\ f[i] \in V
    <3>1. i \in 0 .. n /\ i # 0
      BY <1>1
    <3>2. f[i] = G[<<i, f[i - 1]>>]
      <4> HIDE DEF G
      <4> QED
        BY <2>1, <3>1 DEF Recursion
    <3>3. G[<<i, f[i - 1]>>] = next(i, f[i - 1])
      BY <2>3, <3>1
    <3> QED
      BY <1>3, <2>3, <3>2, <3>3
  <2> HIDE DEF G
  <2>4. \A i \in 0 + 1 .. n : f[i - 1] \in V => f[i] \in V
    BY <2>3
  <2>5. \A i \in 0 .. n : f[i] \in V
    <3> HIDE DEF V
    <3> QED
      BY <1>z, <2>2, <2>4, PassedOn
  <2>6. \A i \in 1 .. n : f[i] = next(i, f[i - 1])
    <3>1. \A i \in 1 .. n : i - 1 \in 0 .. n
      BY <1>1
    <3> QED
      BY <2>3, <2>5, <3>1
  <2>7. f = [i \in 0 .. n |-> IF i = 0 THEN d ELSE next(i, f[i - 1])]
    <3>1. f = [i \in 0 .. n |-> f[i]]
      BY <2>1 DEF Recursion
    <3>2. ASSUME NEW i \in 0 .. n
          PROVE  f[i] = IF i = 0 THEN d ELSE next(i, f[i - 1])
      <4>1. CASE i = 0
        BY <2>2, <4>1
      <4>2. CASE i # 0
        <5>1. i \in 1 .. n
          BY <1>1, <4>2
        <5> QED
          BY <2>6, <4>2, <5>1
      <4> QED
        BY <4>1, <4>2
    <3> QED
      BY <3>1, <3>2
  <2> QED
    BY <2>7 DEF at
<1>6. Run(d, w) = at[n]
  BY DEF Run, at, next, n
<1> HIDE DEF at, G
<1>7. at[0] \in V /\ \A i \in 1 .. n : at[i] = next(i, at[i - 1])
  BY <1>1, <1>4, <1>5
<1>8. \A i \in 0 + 1 .. n : at[i - 1] \in V => at[i] \in V
  BY <1>3, <1>7
<1>9. \A i \in 0 .. n : at[i] \in V
  BY <1>z, <1>7, <1>8, PassedOn
<1>10. n \in 1 .. n /\ n - 1 \in 0 .. n
  BY <1>1
<1>11. at[n] \in V /\ Beyond(at[n])
  BY <1>3, <1>7, <1>9, <1>10
<1> QED
  BY <1>6, <1>11 DEF V

LEMMA InvBackingUpKnown == ASSUME NulsNumbered, DfaInv, SymbolsInv PROVE BackingUpKnown
<1> SUFFICES ASSUME pc = "done", num_backing_up = 0, NEW i \in Conditions, NEW bol \in BOOLEAN,
                    NEW w \in AllWords, w # <<>>, Run(StartOf(i, bol), w) # 0
             PROVE  dfas[Run(StartOf(i, bol), w)].acc # {}
  BY DEF BackingUpKnown
<1>1. Wired /\ EndsThere /\ (\A c \in Alphabet : ecgroup[c] \in Symbols) /\ dfas \in Seq(Range(dfas))
  BY DEF DfaInv, Reading, Wired, DupInv, SymbolsInv
<1>2. PICK N \in Nat : N = Len(Exclusive)
  BY ConditionsAre
<1>3. NumConditionStates = 2 * N /\ i \in 1 .. N
  BY <1>2, ConditionsAre DEF NumConditionStates
<1>4. PICK d : d = StartOf(i, bol)
  OBVIOUS
<1>5. d \in 1 .. Len(dfas)
  <2>1. d = 2 * i - 1 \/ d = 2 * i
    BY <1>3, <1>4 DEF StartOf
  <2>2. 2 * N + 1 <= Len(dfas) /\ Len(dfas) \in Nat
    BY <1>1, <1>3, SeqFacts DEF EndsThere
  <2> QED
    BY <1>3, <2>1, <2>2
<1>6. PICK a : a = Run(d, w)
  OBVIOUS
<1>7. a \in 0 .. Len(dfas) /\ Beyond(a) /\ a # 0
  BY <1>1, <1>4, <1>5, <1>6, AllWordsAre, RunLeads
<1>8. a > NumConditionStates + 1 /\ a \in 1 .. Len(nxt)
  BY <1>1, <1>7 DEF Wired, Beyond
<1>9. dfas[a].acc # {}
  BY <1>1, <1>8 DEF Wired
<1> QED
  BY <1>4, <1>6, <1>9

----------------------------------------------------------------------------
(* The theorems.                                                           *)

\* Whatever the patterns, DFA states are bags of NFA states that there are, and
\* transitions lead to DFA states that there are.
THEOREM DfaTypeCorrect == ASSUME LeftFirst PROVE DfaSpec => []DfaTypeOK
<1>1. DfaInit => DfaInv
  BY InitDfaInv
<1>2. DfaInv /\ [DfaNext]_allvars => DfaInv'
  BY StepDfaInv
<1>3. DfaInv => DfaTypeOK
  BY InvDfaTypeOK
<1> QED
  BY <1>1, <1>2, <1>3, PTL DEF DfaSpec

\* No text leads to the end-of-buffer state and nothing leaves it, whatever the
\* patterns, unless characters are the symbols and a class has NUL.
THEOREM AlwaysEobApart == ASSUME LeftFirst, NulsNumbered PROVE DfaSpec => []EobApart
<1>1. DfaInit => DfaInv
  BY InitDfaInv
<1>2. DfaInv /\ [DfaNext]_allvars => DfaInv'
  BY StepDfaInv
<1>3. DfaInv => EobApart
  BY InvEobApart
<1> QED
  BY <1>1, <1>2, <1>3, PTL DEF DfaSpec

\* Under the same condition: when no state needs backing up, the scanner never
\* jams in a state that accepts nothing, for every state that a text leads to
\* comes after the first ones and has been looked at.
THEOREM AlwaysBackingUpKnown == ASSUME LeftFirst, NulsNumbered PROVE DfaSpec => []BackingUpKnown
<1>1. DfaInit => DfaInv /\ SymbolsInv
  <2>1. DfaInit => SymbolsInv
    BY DEF DfaInit, Init, SymbolsInv, Reading
  <2> QED
    BY <2>1, InitDfaInv
<1>2. DfaInv /\ SymbolsInv /\ [DfaNext]_allvars => DfaInv' /\ SymbolsInv'
  BY StepDfaInv, StepSymbols
<1>3. DfaInv /\ SymbolsInv => BackingUpKnown
  BY InvBackingUpKnown
<1> QED
  BY <1>1, <1>2, <1>3, PTL DEF DfaSpec
=============================================================================
