---------------------------- MODULE TblcmpProofs ----------------------------
(***************************************************************************)
(* Proofs about the transition tables, for any automaton, any order of its *)
(* rows and any thresholds:                                                *)
(*   - no place of nxt and chk is ever given away twice;                   *)
(*   - the queue of protos stays one chain of rows that are what they are  *)
(*     named for;                                                          *)
(*   - the scanner's lookup finds in the tables, compressed, full or fast, *)
(*     the states that ntod() computed, and stays inside of the arrays.    *)
(* For the last, DecodeInv relates the tables to the rows in each phase:   *)
(* Packed() while rows and templates are put down (what is in the arrays   *)
(* or waits on the one-stack, with what the default means, makes up the    *)
(* row), Finished() with the row of the jam state behind, Decoded() after  *)
(* gentabs(), when the defaults are links that lead to it.                 *)
(***************************************************************************)
EXTENDS Tblcmp, NumberLemmas, FiniteSetTheorems, SequenceTheorems

----------------------------------------------------------------------------
(* The inductive invariant                                                 *)

Fields == {"size", "chk", "nxt", "tblend", "firstfree", "one", "base", "def"}

\* Both arrays have their size, nothing is taken behind tblend, and the rows
\* that wait have a class or what mkentry() found in place of one.
Shaped(t) ==
  /\ DOMAIN t = Fields
  /\ t.size \in Nat /\ DOMAIN t.chk = 0 .. t.size - 1 /\ DOMAIN t.nxt = 0 .. t.size - 1
  /\ t.tblend \in Nat /\ t.firstfree \in Int
Waiting(t) ==
  /\ t.one \in Seq(Range(t.one))
  /\ \A k \in DOMAIN t.one : t.one[k].sym \in Nat
EmptyBehind(t) == \A a \in DOMAIN t.chk : a > t.tblend => t.chk[a] = 0
Arrays(t) == Shaped(t) /\ Waiting(t) /\ EmptyBehind(t)

\* What has been claimed in t is the same in u.
Keeps(t, u) ==
  \A a \in DOMAIN t.chk : t.chk[a] # 0 => u.chk[a] = t.chk[a] /\ u.nxt[a] = t.nxt[a]

IInv == pc # "done" => Arrays(tbl)

----------------------------------------------------------------------------
(* Finding room                                                            *)

LEMMA LargerIs ==
  \A a, b \in Int : /\ Larger(a, b) \in Int /\ Larger(a, b) >= a /\ Larger(a, b) >= b
                    /\ Larger(a, b) \in {a, b}
BY DEF Larger

LEMMA FreeFromIs ==
  ASSUME NEW t, Shaped(t), NEW a \in Int
  PROVE  LET b == Min(FreeFrom(t, a)) IN b \in Int /\ b >= a /\ Free(t, b)
<1> DEFINE end == Larger(a, t.size)
<1>1. end \in Int /\ end >= a /\ end >= t.size
  <2>1. t.size \in Int
    BY DEF Shaped
  <2> QED
    BY <2>1, LargerIs
<1>2. end \in FreeFrom(t, a)
  BY <1>1 DEF FreeFrom, Free
<1>3. FreeFrom(t, a) \subseteq Int /\ \A b \in FreeFrom(t, a) : a <= b /\ Free(t, b)
  BY <1>1 DEF FreeFrom
<1>4. Min(FreeFrom(t, a)) \in FreeFrom(t, a)
  BY <1>2, <1>3, MinIs
<1> QED
  BY <1>3, <1>4

\* g is t with longer arrays.
Extends(g, t) ==
  /\ Shaped(g) /\ EmptyBehind(g) /\ g.size >= t.size
  /\ g.one = t.one /\ g.tblend = t.tblend /\ g.firstfree = t.firstfree
  /\ \A a \in 0 .. t.size - 1 : g.chk[a] = t.chk[a] /\ g.nxt[a] = t.nxt[a]

LEMMA GrownFits ==
  ASSUME NEW t, Shaped(t), EmptyBehind(t), NEW n \in Int
  PROVE  Extends(Grown(t, n), t) /\ Grown(t, n).size >= n
<1>1. CASE n <= t.size
  BY <1>1 DEF Grown, Shaped, Extends
<1>2. CASE ~(n <= t.size)
  <2> DEFINE g == Grown(t, n)
  <2>1. n \in Nat /\ n > t.size
    BY <1>2 DEF Shaped
  <2>2. g = [t EXCEPT !.size = n,
               !.chk = [a \in 0 .. n - 1 |-> IF a < t.size THEN t.chk[a] ELSE 0],
               !.nxt = [a \in 0 .. n - 1 |-> IF a < t.size THEN t.nxt[a] ELSE 0]]
    BY <1>2 DEF Grown
  <2>3. /\ DOMAIN g = Fields /\ g.size = n
        /\ g.chk = [a \in 0 .. n - 1 |-> IF a < t.size THEN t.chk[a] ELSE 0]
        /\ g.nxt = [a \in 0 .. n - 1 |-> IF a < t.size THEN t.nxt[a] ELSE 0]
        /\ g.one = t.one /\ g.tblend = t.tblend /\ g.firstfree = t.firstfree
    BY <2>2 DEF Shaped, Fields
  <2> HIDE DEF g
  <2>4. Shaped(g)
    BY <2>1, <2>3 DEF Shaped
  <2>5. EmptyBehind(g)
    BY <2>1, <2>3 DEF Shaped, EmptyBehind
  <2>6. \A a \in 0 .. t.size - 1 : g.chk[a] = t.chk[a] /\ g.nxt[a] = t.nxt[a]
    BY <2>1, <2>3 DEF Shaped
  <2>7. g.size >= n /\ g.size >= t.size
    BY <2>1, <2>3 DEF Shaped
  <2> QED
    BY <2>3, <2>4, <2>5, <2>6, <2>7 DEF g, Extends
<1> QED
  BY <1>1, <1>2

\* Whoever writes only where it was free, after the arrays have grown, and
\* moves tblend behind what it wrote, reclaims nothing.
LEMMA Claims ==
  ASSUME NEW t, Shaped(t), EmptyBehind(t), NEW g, Extends(g, t), NEW u, Shaped(u), NEW own,
         u.size = g.size, u.tblend >= t.tblend,
         \A a \in own : Free(t, a) /\ a <= u.tblend,
         \A a \in (0 .. u.size - 1) \ own : u.chk[a] = g.chk[a] /\ u.nxt[a] = g.nxt[a]
  PROVE  EmptyBehind(u) /\ Keeps(t, u)
<1>1. /\ Shaped(g) /\ EmptyBehind(g) /\ g.size >= t.size /\ g.tblend = t.tblend
      /\ \A a \in 0 .. t.size - 1 : g.chk[a] = t.chk[a] /\ g.nxt[a] = t.nxt[a]
  BY DEF Extends
<1>2. u.size = g.size /\ \A a \in (0 .. u.size - 1) \ own : u.chk[a] = g.chk[a] /\ u.nxt[a] = g.nxt[a]
  OBVIOUS
<1>3. EmptyBehind(u)
  <2> SUFFICES ASSUME NEW a \in DOMAIN u.chk, a > u.tblend PROVE u.chk[a] = 0
    BY DEF EmptyBehind
  <2>1. a \in 0 .. g.size - 1 /\ a > g.tblend
    BY <1>1, <1>2 DEF Shaped
  <2>2. a \notin own
    BY <2>1 DEF Shaped
  <2> QED
    BY <1>1, <1>2, <2>1, <2>2 DEF Shaped, EmptyBehind
<1>4. Keeps(t, u)
  <2> SUFFICES ASSUME NEW a \in DOMAIN t.chk, t.chk[a] # 0
               PROVE  u.chk[a] = t.chk[a] /\ u.nxt[a] = t.nxt[a]
    BY DEF Keeps
  <2>1. a \in 0 .. t.size - 1 /\ a \in 0 .. u.size - 1
    BY <1>1, <1>2 DEF Shaped
  <2>2. a \notin own
    BY <2>1 DEF Free, Shaped
  <2> QED
    BY <1>1, <1>2, <2>1, <2>2
<1> QED
  BY <1>3, <1>4

----------------------------------------------------------------------------
(* mk1tbl(), stack1() and mkentry()                                        *)

LEMMA Mk1tblFits ==
  ASSUME NEW t, Arrays(t), NEW state, NEW sym \in Nat, NEW onenxt, NEW onedef
  PROVE  LET u == Mk1tbl(t, state, sym, onenxt, onedef)
         IN  Shaped(u) /\ EmptyBehind(u) /\ Keeps(t, u) /\ u.one = t.one
<1> DEFINE from == Larger(t.firstfree, sym)
           a == IF from >= t.size THEN from + 1 ELSE Min(FreeFrom(t, from))
           n == IF a > t.tblend THEN a + 2 ELSE a + 1
           g == Grown(t, n)
           u == Mk1tbl(t, state, sym, onenxt, onedef)
<1>1. Shaped(t) /\ EmptyBehind(t)
  BY DEF Arrays
<1>2. from \in Nat
  BY <1>1, LargerIs DEF Shaped
<1>3. a \in Nat /\ Free(t, a)
  <2>1. CASE from >= t.size
    BY <1>1, <1>2, <2>1 DEF Free, Shaped
  <2>2. CASE ~(from >= t.size)
    BY <1>1, <1>2, <2>2, FreeFromIs
  <2> QED
    BY <2>1, <2>2
<1>4. u = [g EXCEPT !.base[state] = a - sym, !.def[state] = onedef,
                    !.chk[a] = state, !.nxt[a] = onenxt,
                    !.firstfree = IF a > t.tblend THEN a + 1 ELSE a,
                    !.tblend = Larger(t.tblend, a)]
  BY DEF Mk1tbl
<1> HIDE DEF from, u, a
<1>5. n \in Int /\ n > a
  BY <1>1, <1>3 DEF Shaped
<1>6. Extends(g, t) /\ g.size >= n /\ Shaped(g) /\ g.one = t.one
  BY <1>1, <1>5, GrownFits DEF Extends
<1> HIDE DEF n, g
<1>7. /\ DOMAIN u = Fields /\ u.size = g.size /\ u.one = t.one
      /\ u.chk = [g.chk EXCEPT ![a] = state] /\ u.nxt = [g.nxt EXCEPT ![a] = onenxt]
      /\ u.firstfree = IF a > t.tblend THEN a + 1 ELSE a
      /\ u.tblend = Larger(t.tblend, a)
  BY <1>4, <1>6 DEF Shaped, Fields
<1>8. u.tblend \in Nat /\ u.tblend >= t.tblend /\ u.tblend >= a
  <2>1. t.tblend \in Nat /\ a \in Nat
    BY <1>1, <1>3 DEF Shaped
  <2>2. LET l == Larger(t.tblend, a) IN l \in Int /\ l >= t.tblend /\ l >= a
    BY <2>1 DEF Larger
  <2> QED
    BY <1>7, <2>1, <2>2
<1>9. Shaped(u)
  BY <1>3, <1>6, <1>7, <1>8 DEF Shaped
<1> DEFINE own == {a}
<1>10. \A b \in (0 .. u.size - 1) \ own : u.chk[b] = g.chk[b] /\ u.nxt[b] = g.nxt[b]
  BY <1>6, <1>7 DEF Shaped
<1>11. \A b \in own : Free(t, b) /\ b <= u.tblend
  BY <1>3, <1>8
<1> HIDE DEF own
<1>12. EmptyBehind(u) /\ Keeps(t, u)
  BY <1>1, <1>6, <1>7, <1>8, <1>9, <1>10, <1>11, Claims
<1> QED
  BY <1>7, <1>9, <1>12 DEF u

LEMMA Stack1Fits ==
  ASSUME NEW t, Arrays(t), NEW state, NEW sym \in Nat, NEW next, NEW def
  PROVE  LET u == Stack1(t, state, sym, next, def) IN Arrays(u) /\ Keeps(t, u)
<1> DEFINE u == Stack1(t, state, sym, next, def)
           e == [state |-> state, sym |-> sym, next |-> next, def |-> def]
<1>1. CASE Len(t.one) >= ONE_STACK_SIZE - 1
  <2>1. u = Mk1tbl(t, state, sym, next, def)
    BY <1>1 DEF Stack1
  <2>2. Shaped(u) /\ EmptyBehind(u) /\ Keeps(t, u) /\ u.one = t.one
    BY <2>1, Mk1tblFits
  <2> QED
    BY <2>2 DEF Arrays, Waiting
<1>2. CASE ~(Len(t.one) >= ONE_STACK_SIZE - 1)
  <2>1. u = [t EXCEPT !.one = Append(@, e)]
    BY <1>2 DEF Stack1
  <2>2. /\ DOMAIN u = Fields /\ u.one = Append(t.one, e)
        /\ u.size = t.size /\ u.chk = t.chk /\ u.nxt = t.nxt
        /\ u.tblend = t.tblend /\ u.firstfree = t.firstfree
    BY <2>1 DEF Arrays, Shaped, Fields
  <2>3. Waiting(u)
    <3> DEFINE W == Range(t.one) \cup {e}
    <3>1. t.one \in Seq(W) /\ e \in W
      BY DEF Arrays, Waiting
    <3> HIDE DEF W
    <3>2. /\ u.one \in Seq(W) /\ Len(u.one) = Len(t.one) + 1
          /\ u.one[Len(u.one)] = e
          /\ \A k \in 1 .. Len(t.one) : u.one[k] = t.one[k]
      BY <2>2, <3>1
    <3>3. \A k \in DOMAIN u.one : u.one[k].sym \in Nat
      <4> SUFFICES ASSUME NEW k \in DOMAIN u.one PROVE u.one[k].sym \in Nat
        OBVIOUS
      <4>1. k \in 1 .. Len(u.one) /\ Len(t.one) \in Nat /\ DOMAIN t.one = 1 .. Len(t.one)
        BY <3>1, <3>2
      <4>2. CASE k = Len(u.one)
        BY <3>2, <4>2
      <4>3. CASE k # Len(u.one)
        BY <3>2, <4>1, <4>3 DEF Arrays, Waiting
      <4> QED
        BY <4>2, <4>3
    <3>4. u.one \in Seq(Range(u.one))
      <4>1. u.one \in [1 .. Len(u.one) -> Range(u.one)] /\ Len(u.one) \in Nat
        BY <3>2 DEF Range
      <4> QED
        BY <4>1, SeqDef
    <3> QED
      BY <3>3, <3>4 DEF Waiting
  <2>4. Shaped(u) /\ EmptyBehind(u) /\ Keeps(t, u)
    BY <2>2 DEF Arrays, Shaped, EmptyBehind, Keeps
  <2> QED
    BY <2>3, <2>4 DEF Arrays
<1> QED
  BY <1>1, <1>2

\* Where the entries of a row begin and end.
LEMMA NeededIs ==
  ASSUME NEW numchars \in Nat, NEW needed, needed \subseteq 1 .. numchars
  PROVE  LET minec == Min(needed \cup {numchars + 1})
             maxec == Max(needed \cup {0})
         IN  /\ minec \in 1 .. numchars + 1 /\ maxec \in 0 .. numchars
             /\ \A c \in needed : c \in 1 .. numchars /\ minec <= c /\ c <= maxec
             /\ needed # {} => minec \in needed /\ minec <= maxec
<1> DEFINE minec == Min(needed \cup {numchars + 1})
           maxec == Max(needed \cup {0})
           S == needed \cup {numchars + 1}
           T == needed \cup {0}
<1>1. S \subseteq Int /\ S # {} /\ \A y \in S : 1 <= y /\ y <= numchars + 1
  OBVIOUS
<1>2. T \subseteq Int /\ T # {} /\ \A y \in T : 0 <= y /\ y <= numchars
  OBVIOUS
<1> HIDE DEF S, T
<1>3. Min(S) \in S /\ \A y \in S : Min(S) <= y
  <2>1. 1 \in Int /\ \A y \in S : 1 <= y
    BY <1>1
  <2> QED
    BY <1>1, <2>1, MinIs
<1>4. Max(T) \in T /\ \A y \in T : y <= Max(T)
  <2>1. numchars \in Int /\ \A y \in T : y <= numchars
    BY <1>2
  <2> QED
    BY <1>2, <2>1, MaxIs
<1>5. minec \in S /\ \A y \in S : minec <= y
  BY <1>3 DEF S
<1>6. maxec \in T /\ \A y \in T : y <= maxec
  BY <1>4 DEF T
<1> HIDE DEF minec, maxec
<1>7. \A c \in needed : c \in S /\ c \in T
  BY DEF S, T
<1>8. /\ minec \in 1 .. numchars + 1 /\ maxec \in 0 .. numchars
      /\ \A c \in needed : c \in 1 .. numchars /\ minec <= c /\ c <= maxec
  BY <1>1, <1>2, <1>5, <1>6, <1>7
<1>9. ASSUME needed # {} PROVE minec \in needed /\ minec <= maxec
  <2>1. PICK c \in needed : TRUE
    BY <1>9
  <2>2. minec <= c /\ c <= numchars /\ c <= maxec /\ c \in Int
    BY <1>8
  <2>3. minec # numchars + 1
    BY <1>8, <2>2
  <2> QED
    BY <1>5, <1>8, <2>2, <2>3 DEF S
<1> QED
  BY <1>8, <1>9 DEF minec, maxec

\* The place mkentry() finds is free, with those behind it that the row needs.
LEMMA PlaceForIs ==
  ASSUME NEW t, Shaped(t), EmptyBehind(t), NEW needed, NEW minec \in Nat, NEW sparse,
         \A c \in needed : c \in Nat /\ minec <= c
  PROVE  LET a == PlaceFor(t, needed, minec, sparse)
         IN  a \in Int /\ a >= minec /\ \A c \in needed : Free(t, a + c - minec)
<1> DEFINE a == PlaceFor(t, needed, minec, sparse)
<1>1. CASE sparse
  <2> DEFINE end == Larger(Larger(t.firstfree, t.size), minec)
             S == {b \in t.firstfree .. end : b >= minec /\ FitsAt(t, needed, minec, b)}
  <2>1. end \in Int /\ end >= t.firstfree /\ end >= t.size /\ end >= minec
    BY DEF Larger, Shaped
  <2>2. FitsAt(t, needed, minec, end)
    <3> SUFFICES ASSUME NEW c \in needed PROVE Free(t, end + c - minec)
      BY DEF FitsAt
    <3> HIDE DEF end
    <3>1. end + c - minec >= t.size
      BY <2>1 DEF Shaped
    <3> QED
      BY <3>1 DEF Free
  <2>3. end \in S /\ S \subseteq Int /\ \A b \in S : t.firstfree <= b
    BY <2>1, <2>2 DEF Shaped
  <2>4. Min(S) \in S
    BY <2>3, MinIs DEF Shaped
  <2>5. a = Min(S)
    BY <1>1 DEF PlaceFor
  <2>6. a \in S
    BY <2>4, <2>5
  <2> HIDE DEF a, end
  <2>7. a \in t.firstfree .. end /\ a >= minec /\ FitsAt(t, needed, minec, a)
    BY <2>6
  <2>8. a \in Int
    BY <2>1, <2>7 DEF Shaped
  <2> QED
    BY <2>7, <2>8 DEF FitsAt, a
<1>2. CASE ~sparse
  <2>1. a = Larger(t.tblend + 1, minec)
    BY <1>2 DEF PlaceFor
  <2>2. a \in Int /\ a >= t.tblend + 1 /\ a >= minec
    BY <2>1 DEF Larger, Shaped
  <2>3. ASSUME NEW c \in needed PROVE Free(t, a + c - minec)
    <3> HIDE DEF a
    <3>1. a + c - minec \in Int /\ a + c - minec > t.tblend /\ a + c - minec >= 0
      BY <2>2 DEF Shaped
    <3> QED
      BY <3>1 DEF Free, EmptyBehind, Shaped
  <2> QED
    BY <2>2, <2>3
<1> QED
  BY <1>1, <1>2

LEMMA MkEntryFits ==
  ASSUME NEW t, Arrays(t), NEW row, NEW numchars \in Nat, NEW statenum, NEW deflink,
         NEW totaltrans, NEW over
  PROVE  LET u == MkEntry(t, row, numchars, statenum, deflink, totaltrans, over)
         IN  Arrays(u) /\ Keeps(t, u)
<1> DEFINE needed == {c \in 1 .. numchars : NeedsEntry(row, c, deflink)}
           minec == Min(needed \cup {numchars + 1})
           maxec == Max(needed \cup {0})
           sparse == totaltrans * 100 <= numchars * INTERIOR_FIT_PERCENTAGE
           a == PlaceFor(t, needed, minec, sparse)
           tblbase == a - minec
           tbllast == tblbase + maxec
           g == Grown(t, tbllast + 2)
           own == {tblbase + c : c \in needed}
           f == [g EXCEPT !.base[statenum] = tblbase, !.def[statenum] = deflink,
                     !.chk = [b \in DOMAIN @ |-> IF b \in own THEN statenum ELSE @[b]],
                     !.nxt = [b \in DOMAIN @ |-> IF b \in own THEN row[b - tblbase] ELSE @[b]]]
           u == MkEntry(t, row, numchars, statenum, deflink, totaltrans, over)
<1>1. u = IF totaltrans = 0
          THEN NoEntry(t, statenum, deflink)
          ELSE IF totaltrans = 1
          THEN Stack1(t, statenum, minec, IF needed = {} THEN over ELSE row[minec], deflink)
          ELSE [f EXCEPT !.firstfree = IF a = @ THEN NextFree(f) ELSE @,
                         !.tblend = Larger(@, tbllast)]
  BY DEF MkEntry
<1>2. /\ minec \in 1 .. numchars + 1 /\ maxec \in 0 .. numchars
      /\ \A c \in needed : c \in 1 .. numchars /\ minec <= c /\ c <= maxec
  <2>1. needed \subseteq 1 .. numchars
    OBVIOUS
  <2> HIDE DEF needed
  <2> QED
    BY <2>1, NeededIs
<1> HIDE DEF minec, maxec, u
<1>3. CASE totaltrans = 0
  <2>1. u = NoEntry(t, statenum, deflink)
    BY <1>1, <1>3
  <2>2. /\ DOMAIN u = Fields /\ u.one = t.one
        /\ u.size = t.size /\ u.chk = t.chk /\ u.nxt = t.nxt
        /\ u.tblend = t.tblend /\ u.firstfree = t.firstfree
    BY <2>1 DEF NoEntry, Arrays, Shaped, Fields
  <2>3. Arrays(u) /\ Keeps(t, u)
    BY <2>2 DEF Arrays, Shaped, Waiting, EmptyBehind, Keeps
  <2> QED
    BY <2>3 DEF u
<1>4. CASE totaltrans # 0 /\ totaltrans = 1
  <2> DEFINE next == IF needed = {} THEN over ELSE row[minec]
  <2>1. u = Stack1(t, statenum, minec, next, deflink)
    BY <1>1, <1>4
  <2> HIDE DEF next
  <2>2. minec \in Nat
    BY <1>2
  <2>3. Arrays(u) /\ Keeps(t, u)
    BY <2>1, <2>2, Stack1Fits
  <2> QED
    BY <2>3 DEF u
<1>5. CASE totaltrans # 0 /\ totaltrans # 1
  <2>1. Shaped(t) /\ EmptyBehind(t) /\ t.one \in Seq(Range(t.one))
    BY DEF Arrays, Waiting
  <2>2. /\ a \in Int /\ a >= minec /\ \A c \in needed : Free(t, a + c - minec)
    <3>1. minec \in Nat /\ \A c \in needed : c \in Nat /\ minec <= c
      BY <1>2
    <3> HIDE DEF needed, sparse
    <3> QED
      BY <2>1, <3>1, PlaceForIs
  <2> HIDE DEF a, sparse
  <2>3. tblbase \in Nat /\ tbllast \in Nat
    BY <1>2, <2>2
  <2>4. \A b \in own : Free(t, b) /\ b <= tbllast
    <3> SUFFICES ASSUME NEW c \in needed
                 PROVE  Free(t, tblbase + c) /\ tblbase + c <= tbllast
      OBVIOUS
    <3>1. c \in Int /\ minec \in Int /\ maxec \in Int /\ c <= maxec
      BY <1>2
    <3>2. Free(t, a + c - minec)
      BY <2>2
    <3> HIDE DEF needed
    <3>3. a + c - minec = tblbase + c
      BY <2>2, <3>1
    <3>4. tblbase + c <= tbllast
      BY <2>2, <3>1
    <3> QED
      BY <3>2, <3>3, <3>4
  <2> HIDE DEF needed, tblbase, tbllast, own
  <2>5. Extends(g, t) /\ Shaped(g)
    BY <2>1, <2>3, GrownFits DEF Extends
  <2> HIDE DEF g
  <2>6. /\ DOMAIN f = Fields /\ f.size = g.size /\ f.one = t.one
        /\ f.firstfree = t.firstfree /\ f.tblend = t.tblend
        /\ f.chk = [b \in DOMAIN g.chk |-> IF b \in own THEN statenum ELSE g.chk[b]]
        /\ f.nxt = [b \in DOMAIN g.nxt |-> IF b \in own THEN row[b - tblbase] ELSE g.nxt[b]]
    BY <2>5 DEF Extends, Shaped, Fields
  <2> HIDE DEF f
  <2>7. Shaped(f)
    BY <2>1, <2>5, <2>6 DEF Shaped
  <2>8. u = [f EXCEPT !.firstfree = IF a = @ THEN NextFree(f) ELSE @,
                      !.tblend = Larger(@, tbllast)]
    BY <1>1, <1>5 DEF f, g, own, tblbase, tbllast, a, needed, sparse
  <2>9. /\ DOMAIN u = Fields /\ u.size = f.size /\ u.one = t.one
        /\ u.chk = f.chk /\ u.nxt = f.nxt
        /\ u.firstfree = IF a = f.firstfree THEN NextFree(f) ELSE f.firstfree
        /\ u.tblend = Larger(f.tblend, tbllast)
    BY <2>6, <2>8 DEF Fields
  <2>10. u.tblend \in Nat /\ u.tblend >= t.tblend /\ u.tblend >= tbllast
    BY <2>1, <2>3, <2>6, <2>9 DEF Larger, Shaped
  <2>11. u.firstfree \in Int
    <3>1. f.firstfree \in Int /\ f.firstfree + 1 \in Int
      BY <2>7 DEF Shaped
    <3>2. NextFree(f) \in Int
      BY <2>7, <3>1, FreeFromIs DEF NextFree
    <3> QED
      BY <2>9, <3>1, <3>2
  <2>12. Shaped(u)
    BY <2>7, <2>9, <2>10, <2>11 DEF Shaped
  <2>13. \A b \in (0 .. u.size - 1) \ own : u.chk[b] = g.chk[b] /\ u.nxt[b] = g.nxt[b]
    BY <2>5, <2>6, <2>9 DEF Shaped
  <2>14. \A b \in own : Free(t, b) /\ b <= u.tblend
    <3>1. \A b \in own : b \in Int
      BY <2>3, <1>2 DEF own, needed
    <3> QED
      BY <2>3, <2>4, <2>10, <3>1
  <2>15. EmptyBehind(u) /\ Keeps(t, u)
    BY <2>1, <2>5, <2>6, <2>9, <2>10, <2>12, <2>13, <2>14, Claims
  <2> QED
    BY <2>9, <2>12, <2>15 DEF Arrays, Waiting, u
<1> QED
  BY <1>3, <1>4, <1>5

----------------------------------------------------------------------------
(* place_state()                                                           *)

LEMMA PlaceAtFits ==
  ASSUME NEW t, Arrays(t), NEW row, NEW statenum, NEW numtrans, NEW a \in Int,
         RoomAt(t, row, a)
  PROVE  LET u == PlaceAt(t, row, statenum, numtrans, a) IN Arrays(u) /\ Keeps(t, u)
<1> DEFINE g == Grown(t, a + numecs + 1)
           mine == {a + c : c \in {d \in Ecs : row[d] # 0}}
           own == {a - 1, a} \cup mine
           u == PlaceAt(t, row, statenum, numtrans, a)
<1>1. numecs \in Nat
  BY SizesAssumption
<1>2. Shaped(t) /\ EmptyBehind(t)
  BY DEF Arrays
<1>3. Extends(g, t) /\ Shaped(g)
  BY <1>1, <1>2, GrownFits DEF Extends
<1>4. u = [g EXCEPT !.base[statenum] = a,
                !.chk = [b \in DOMAIN @ |-> IF b \in {a - 1, a} THEN 1
                                            ELSE IF b \in mine THEN b - a ELSE @[b]],
                !.nxt = [b \in DOMAIN @ |-> IF b \in mine THEN row[b - a] ELSE @[b]],
                !.firstfree = IF numtrans <= MAX_XTIONS_FULL_INTERIOR_FIT THEN a + 1 ELSE @,
                !.tblend = Larger(@, a + numecs)]
  BY DEF PlaceAt
<1>5. \A b \in own : b \in Int /\ Free(t, b) /\ b <= a + numecs
  BY <1>1 DEF RoomAt, Ecs
<1>6. \A b : b \notin own => b \notin {a - 1, a} /\ b \notin mine
  OBVIOUS
<1> HIDE DEF g, mine, own, u
<1>7. /\ DOMAIN u = Fields /\ u.size = g.size /\ u.one = t.one
      /\ u.chk = [b \in DOMAIN g.chk |-> IF b \in {a - 1, a} THEN 1
                                         ELSE IF b \in mine THEN b - a ELSE g.chk[b]]
      /\ u.nxt = [b \in DOMAIN g.nxt |-> IF b \in mine THEN row[b - a] ELSE g.nxt[b]]
      /\ u.firstfree = IF numtrans <= MAX_XTIONS_FULL_INTERIOR_FIT THEN a + 1 ELSE t.firstfree
      /\ u.tblend = Larger(t.tblend, a + numecs)
  BY <1>3, <1>4 DEF Extends, Shaped, Fields
<1>8. u.tblend \in Nat /\ u.tblend >= t.tblend /\ u.tblend >= a + numecs
  BY <1>1, <1>2, <1>7 DEF Larger, Shaped
<1>9. Shaped(u)
  BY <1>2, <1>3, <1>7, <1>8 DEF Shaped
<1>10. \A b \in (0 .. u.size - 1) \ own : u.chk[b] = g.chk[b] /\ u.nxt[b] = g.nxt[b]
  BY <1>3, <1>6, <1>7 DEF Shaped
<1>11. \A b \in own : Free(t, b) /\ b <= u.tblend
  BY <1>1, <1>5, <1>8
<1>12. EmptyBehind(u) /\ Keeps(t, u)
  BY <1>2, <1>3, <1>7, <1>8, <1>9, <1>10, <1>11, Claims
<1> QED
  BY <1>7, <1>9, <1>12 DEF Arrays, Waiting, u

----------------------------------------------------------------------------
(* The actions                                                             *)

LEMMA InitInv == Init => IInv
<1> SUFFICES ASSUME Init PROVE Arrays(tbl)
  BY DEF IInv
<1>1. Shaped(tbl)
  BY DEF Init, Shaped, Fields
<1>2. Waiting(tbl)
  <2>1. tbl.one = <<>>
    BY DEF Init
  <2> QED
    BY <2>1 DEF Waiting
<1>3. EmptyBehind(tbl)
  BY DEF Init, EmptyBehind
<1> QED
  BY <1>1, <1>2, <1>3 DEF Arrays

\* What an action does that hands one row to the tables.
Good == Arrays(tbl') /\ Keeps(tbl, tbl')

LEMMA Untouched == ASSUME Arrays(tbl), tbl' = tbl PROVE Good
BY DEF Good, Keeps

LEMMA EndOfBufferStateGood ==
  ASSUME Arrays(tbl), EndOfBufferState PROVE Good
<1>1. tbl' = Stack1(tbl, ds, 0, 0, JAMSTATE)
  BY DEF EndOfBufferState
<1> QED
  BY <1>1, Stack1Fits DEF Good

LEMMA NumecsIsNat == numecs \in Nat
BY SizesAssumption

LEMMA SmallStateGood ==
  ASSUME Arrays(tbl), NEW r, NEW over, SmallState(r, over) PROVE Good
<1>1. tbl' = MkEntry(tbl, Row(r), numecs, ds, JAMSTATE, Total(r), over)
  BY DEF SmallState
<1> QED
  BY <1>1, MkEntryFits, NumecsIsNat DEF Good

LEMMA NewProtoGood ==
  ASSUME Arrays(tbl), NEW r, NEW over, NewProto(r, over) PROVE Good
<1>1. tbl' = MkEntry(tbl, Row(r), numecs, ds, JAMSTATE, Total(r), over)
  BY DEF NewProto
<1> QED
  BY <1>1, MkEntryFits, NumecsIsNat DEF Good

LEMMA MkTemplateGood ==
  ASSUME Arrays(tbl), NEW r, MkTemplate(r) PROVE Good
<1> DEFINE proto == prot'.save[prot'.first]
           row == Without(Row(r), proto)
           deflink == -Len(tnxt')
           diff == Differences(Row(r), proto)
<1>1. tbl' = MkEntry(tbl, row, numecs, ds, deflink, diff, 0)
  BY DEF MkTemplate
<1> HIDE DEF row, deflink, diff
<1> QED
  BY <1>1, MkEntryFits, NumecsIsNat DEF Good

LEMMA UseProtoGood ==
  ASSUME Arrays(tbl), NEW r, UseProto(r) PROVE Good
<1> DEFINE row == Without(Row(r), prot.save[Best(r).slot])
           deflink == prot.tbl[Best(r).slot]
           diff == Best(r).diff
<1>1. tbl' = MkEntry(tbl, row, numecs, ds, deflink, diff, 0)
  BY DEF UseProto
<1> HIDE DEF row, deflink, diff
<1> QED
  BY <1>1, MkEntryFits, NumecsIsNat DEF Good

LEMMA PlaceStateGood ==
  ASSUME Arrays(tbl), NEW r, PlaceState(r) PROVE Good
<1>1. PICK a \in TableSpace(tbl, r.to, Total(r)) :
        tbl' = PlaceAt(tbl, r.to, ds, Total(r), a)
  BY DEF PlaceState
<1> DEFINE from == SearchFrom(tbl, Total(r))
<1>2. from \in Int
  BY NumecsIsNat DEF SearchFrom, Arrays, Shaped
<1>3. a \in Int /\ RoomAt(tbl, r.to, a)
  <2> HIDE DEF from
  <2>1. Larger(from, tbl.size) + 1 \in Int
    BY <1>2 DEF Larger, Arrays, Shaped
  <2>2. a \in from .. Larger(from, tbl.size) + 1 /\ RoomAt(tbl, r.to, a)
    BY <1>1 DEF TableSpace, from
  <2> QED
    BY <1>2, <2>1, <2>2
<1> QED
  BY <1>1, <1>3, PlaceAtFits DEF Good

LEMMA PlaceState0Good ==
  ASSUME Arrays(tbl), PlaceState0 PROVE Good
<1>1. PICK a \in TableSpace(tbl, NoRow.to, 0) :
        tbl' = PlaceAt(tbl, NoRow.to, 0, 0, a)
  BY DEF PlaceState0
<1> DEFINE from == SearchFrom(tbl, 0)
<1>2. from \in Int
  BY NumecsIsNat DEF SearchFrom, Arrays, Shaped
<1>3. a \in Int /\ RoomAt(tbl, NoRow.to, a)
  <2> HIDE DEF from
  <2>1. Larger(from, tbl.size) + 1 \in Int
    BY <1>2 DEF Larger, Arrays, Shaped
  <2>2. a \in from .. Larger(from, tbl.size) + 1 /\ RoomAt(tbl, NoRow.to, a)
    BY <1>1 DEF TableSpace, from
  <2> QED
    BY <1>2, <2>1, <2>2
<1> QED
  BY <1>1, <1>3, PlaceAtFits DEF Good

\* The meta-equivalence classes are numbered from 1 and not more than the classes.
LEMMA NummecsIsNat == nummecs \in Nat
<1> DEFINE numbers == {Meta(c) : c \in Ecs}
<1>1. ASSUME NEW c \in Ecs PROVE Meta(c) \in 0 .. numecs
  <2> DEFINE Leader(d) == Min({e \in Ecs : \A T \in TransSets : e \in T <=> d \in T})
             heads == {d \in 1 .. Leader(c) : Leader(d) = d}
  <2>1. Leader(c) \in Ecs
    <3> DEFINE S == {e \in Ecs : \A T \in TransSets : e \in T <=> c \in T}
    <3>1. c \in S /\ S \subseteq Ecs
      OBVIOUS
    <3> HIDE DEF S
    <3>2. S \subseteq Int /\ S # {} /\ 1 \in Int /\ \A y \in S : 1 <= y
      BY <3>1, NumecsIsNat DEF Ecs
    <3>3. Min(S) \in S
      BY <3>2, MinIs
    <3> QED
      BY <3>1, <3>3 DEF S
  <2>2. Meta(c) = IF c = 0 \/ ~usemecs THEN c ELSE Cardinality(heads)
    BY DEF Meta
  <2>3. heads \subseteq 1 .. numecs
    <3> HIDE DEF Leader
    <3>1. heads \subseteq 1 .. Leader(c)
      OBVIOUS
    <3>2. 1 .. Leader(c) \subseteq 1 .. numecs
      BY <2>1, NumecsIsNat DEF Ecs
    <3> QED
      BY <3>1, <3>2
  <2> HIDE DEF heads
  <2>4. Cardinality(heads) \in Nat /\ Cardinality(heads) <= numecs
    <3>1. IsFiniteSet(1 .. numecs) /\ Cardinality(1 .. numecs) = numecs
      BY FS_Interval, NumecsIsNat
    <3> QED
      BY <2>3, <3>1, FS_Subset, FS_CardinalityType
  <2> QED
    BY <2>2, <2>4, NumecsIsNat DEF Ecs
<1>2. 1 \in Ecs
  BY SizesAssumption DEF Ecs
<1>3. numbers \subseteq Int /\ numbers # {} /\ numecs \in Int /\ \A y \in numbers : 0 <= y /\ y <= numecs
  BY <1>1, <1>2, NumecsIsNat
<1> HIDE DEF numbers
<1>4. Max(numbers) \in numbers
  BY <1>3, MaxIs
<1> QED
  BY <1>3, <1>4 DEF nummecs, numbers

LEMMA CmptmpsGood ==
  ASSUME Arrays(tbl), Cmptmps PROVE Good
<1> DEFINE n == placed + 1
           tmp == [m \in 1 .. nummecs |-> tnxt[n][Min({c \in Ecs : Meta(c) = m})]]
           total == Cardinality({m \in 1 .. nummecs : tmp[m] > 0})
           state == TemplateState(n)
<1>1. tbl' = MkEntry(tbl, tmp, nummecs, state, JAMSTATE, total, 0)
  BY DEF Cmptmps
<1> HIDE DEF tmp, total, state
<1> QED
  BY <1>1, MkEntryFits, NummecsIsNat DEF Good

LEMMA OneTransitionGood ==
  ASSUME Arrays(tbl), OneTransition PROVE Good
<1> DEFINE e == Last(tbl.one)
           u == Mk1tbl(tbl, e.state, e.sym, e.next, e.def)
<1>1. tbl' = [u EXCEPT !.one = Front(@)] /\ tbl.one # <<>>
  BY DEF OneTransition
<1>2. tbl.one \in Seq(Range(tbl.one)) /\ Len(tbl.one) \in Nat \ {0} /\ DOMAIN tbl.one = 1 .. Len(tbl.one)
  BY <1>1 DEF Arrays, Waiting
<1>3. e.sym \in Nat
  BY <1>2 DEF Arrays, Waiting, Last
<1>4. Shaped(u) /\ EmptyBehind(u) /\ Keeps(tbl, u) /\ u.one = tbl.one
  BY <1>3, Mk1tblFits
<1> HIDE DEF u
<1>5. /\ DOMAIN tbl' = Fields /\ tbl'.one = Front(tbl.one)
      /\ tbl'.size = u.size /\ tbl'.chk = u.chk /\ tbl'.nxt = u.nxt
      /\ tbl'.tblend = u.tblend /\ tbl'.firstfree = u.firstfree
  BY <1>1, <1>4 DEF Shaped, Fields
<1>6. Shaped(tbl') /\ EmptyBehind(tbl') /\ Keeps(tbl, tbl')
  BY <1>4, <1>5 DEF Shaped, EmptyBehind, Keeps
<1>7. Waiting(tbl')
  <2> DEFINE q == Front(tbl.one)
  <2>1. q = SubSeq(tbl.one, 1, Len(tbl.one) - 1)
    BY DEF Front
  <2>2. Len(q) = Len(tbl.one) - 1 /\ \A k \in 1 .. Len(q) : q[k] = tbl.one[k]
    BY <1>2, <2>1
  <2>3. q \in Seq(Range(tbl.one))
    BY <1>2, <2>1
  <2> HIDE DEF q
  <2>4. q \in Seq(Range(q))
    <3>1. q \in [1 .. Len(q) -> Range(q)] /\ Len(q) \in Nat
      BY <2>3 DEF Range
    <3> QED
      BY <3>1, SeqDef
  <2>5. \A k \in DOMAIN q : q[k].sym \in Nat
    BY <1>2, <2>2, <2>3 DEF Arrays, Waiting
  <2> QED
    BY <1>5, <2>4, <2>5 DEF Waiting, q
<1> QED
  BY <1>6, <1>7 DEF Arrays, Good

LEMMA MkdeftblGood ==
  ASSUME Arrays(tbl), Mkdeftbl PROVE Good
<1> DEFINE jambase == tbl.tblend + 1
           g == Grown(tbl, jambase + numecs + 1)
           own == jambase .. jambase + numecs
<1>1. tbl' = [g EXCEPT !.chk = [a \in DOMAIN @ |-> IF a \in own THEN jamstate ELSE @[a]],
                       !.nxt = [a \in DOMAIN @ |-> IF a = jambase THEN EobState
                                                   ELSE IF a \in own THEN 0 ELSE @[a]],
                       !.base[jamstate] = jambase, !.def[jamstate] = 0,
                       !.tblend = jambase + numecs]
  BY DEF Mkdeftbl
<1>2. Shaped(tbl) /\ EmptyBehind(tbl) /\ jambase \in Nat /\ jambase > tbl.tblend
  BY DEF Arrays, Shaped
<1>3. Extends(g, tbl) /\ Shaped(g)
  <2> DEFINE n == jambase + numecs + 1
  <2>1. n \in Int
    BY <1>2, NumecsIsNat
  <2> HIDE DEF n, jambase
  <2>2. Extends(Grown(tbl, n), tbl)
    BY <1>2, <2>1, GrownFits
  <2> QED
    BY <2>2 DEF Extends, n
<1>4. /\ jambase \in own
      /\ \A a \in own : a \in Nat /\ a >= jambase /\ a <= jambase + numecs
  BY <1>2, NumecsIsNat
<1> HIDE DEF g, own, jambase
<1>5. /\ DOMAIN tbl' = Fields /\ tbl'.size = g.size /\ tbl'.one = tbl.one
      /\ tbl'.chk = [a \in DOMAIN g.chk |-> IF a \in own THEN jamstate ELSE g.chk[a]]
      /\ tbl'.nxt = [a \in DOMAIN g.nxt |-> IF a = jambase THEN EobState
                                            ELSE IF a \in own THEN 0 ELSE g.nxt[a]]
      /\ tbl'.firstfree = tbl.firstfree /\ tbl'.tblend = jambase + numecs
  BY <1>1, <1>3 DEF Extends, Shaped, Fields
<1>6. tbl'.tblend \in Nat /\ tbl'.tblend >= tbl.tblend
  BY <1>2, <1>5, NumecsIsNat DEF Shaped
<1>7. Shaped(tbl')
  BY <1>2, <1>3, <1>5, <1>6 DEF Shaped
<1>8. \A a \in (0 .. tbl'.size - 1) \ own : tbl'.chk[a] = g.chk[a] /\ tbl'.nxt[a] = g.nxt[a]
  BY <1>3, <1>4, <1>5 DEF Shaped
<1>9. \A a \in own : Free(tbl, a) /\ a <= tbl'.tblend
  BY <1>2, <1>4, <1>5 DEF Free, EmptyBehind, Shaped
<1>10. EmptyBehind(tbl') /\ Keeps(tbl, tbl')
  BY <1>2, <1>3, <1>5, <1>6, <1>7, <1>8, <1>9, Claims
<1> QED
  BY <1>5, <1>7, <1>10 DEF Arrays, Waiting, Good

----------------------------------------------------------------------------
(* The theorem                                                             *)

\* Every step before the last leaves the arrays as they should be, and what is
\* claimed in them.
LEMMA StepGood ==
  ASSUME IInv, [Next]_vars
  PROVE  pc' # "done" => Good
<1> SUFFICES ASSUME pc' # "done" PROVE Good
  OBVIOUS
<1>1. CASE UNCHANGED vars
  BY <1>1, Untouched DEF IInv, vars
<1>2. ASSUME pc # "done" PROVE Arrays(tbl)
  BY <1>2 DEF IInv
<1>3. CASE EndOfBufferState
  BY <1>2, <1>3, EndOfBufferStateGood DEF EndOfBufferState, Given
<1>4. ASSUME NEW r \in Rows, NEW over \in Behind(r), SmallState(r, over) PROVE Good
  BY <1>2, <1>4, SmallStateGood DEF SmallState, Compressed, Given
<1>5. ASSUME NEW r \in Rows, NEW over \in Behind(r), NewProto(r, over) PROVE Good
  BY <1>2, <1>5, NewProtoGood DEF NewProto, Compressed, Given
<1>6. ASSUME NEW r \in Rows, MkTemplate(r) PROVE Good
  BY <1>2, <1>6, MkTemplateGood DEF MkTemplate, Compressed, Given
<1>7. ASSUME NEW r \in Rows, UseProto(r) PROVE Good
  BY <1>2, <1>7, UseProtoGood DEF UseProto, Compressed, Given
<1>8. ASSUME NEW r \in Rows, FullRow(r) PROVE Good
  BY <1>2, <1>8, Untouched DEF FullRow, Given
<1>9. ASSUME NEW r \in Rows, PlaceState(r) PROVE Good
  BY <1>2, <1>9, PlaceStateGood DEF PlaceState, Given
<1>10. CASE RowsEnd
  BY <1>2, <1>10, Untouched DEF RowsEnd
<1>11. CASE Cmptmps
  BY <1>2, <1>11, CmptmpsGood DEF Cmptmps
<1>12. CASE OneTransition
  BY <1>2, <1>12, OneTransitionGood DEF OneTransition
<1>13. CASE Mkdeftbl
  BY <1>2, <1>13, MkdeftblGood DEF Mkdeftbl
<1>14. CASE PlaceState0
  BY <1>2, <1>14, PlaceState0Good DEF PlaceState0
<1>15. (~Gentabs /\ ~Genctbl /\ ~Terminated) \/ UNCHANGED vars
  BY DEF Gentabs, Genctbl, Terminated
<1> QED
  BY <1>1, <1>3, <1>4, <1>5, <1>6, <1>7, <1>8, <1>9, <1>10, <1>11, <1>12, <1>13, <1>14, <1>15
     DEF Next

LEMMA StepInv == IInv /\ [Next]_vars => IInv'
<1> SUFFICES ASSUME IInv, [Next]_vars, pc' # "done" PROVE Arrays(tbl')
  BY DEF IInv
<1> QED
  BY StepGood DEF Good

\* The shape of nxt and chk, before the marks in them become numbers of states.
THEOREM ArraysSound == Spec => []IInv
BY InitInv, StepInv, PTL DEF Spec

\* Whatever the rows of the automaton, their order, the form of the tables and
\* the thresholds: a place of nxt and chk that mkentry(), mk1tbl(), place_state()
\* or mkdeftbl() has claimed keeps its entry.
THEOREM NeverReclaimed == Spec => NothingReclaimed
<1>1. IInv /\ [Next]_vars =>
        [pc' # "done" => \A a \in DOMAIN tbl.chk : tbl.chk[a] # 0 =>
                           tbl'.chk[a] = tbl.chk[a] /\ tbl'.nxt[a] = tbl.nxt[a]]_vars
  BY StepGood DEF Good, Keeps
<1> QED
  BY <1>1, ArraysSound, PTL DEF Spec, NothingReclaimed

----------------------------------------------------------------------------
(* The queue of protos                                                     *)

ProtoFields == {"num", "first", "last", "next", "prev", "tbl", "comst", "save"}
Slots == 1 .. MSP - 1

\* The links are those of a queue of slots, or there is none.
Linked(p) ==
  /\ DOMAIN p = ProtoFields /\ p.num \in Nat
  /\ p.first \in Slots \cup {NIL} /\ p.last \in Slots
  /\ p.next \in [Slots -> Slots \cup {NIL}] /\ p.prev \in [Slots -> Slots \cup {NIL}]
  /\ DOMAIN p.tbl = Slots /\ DOMAIN p.save = Slots

\* q is the queue: the slots from 1 on, each once, linked in both directions.
Order(q, n) ==
  /\ n \in Nat /\ n < MSP /\ q \in [1 .. n -> 1 .. n]
  /\ \A s \in 1 .. n : \E k \in 1 .. n : q[k] = s
  /\ \A k, m \in 1 .. n : q[k] = q[m] => k = m
Ends(p, q, n) ==
  /\ n = 0 => p.first = NIL /\ p.last = 1
  /\ n # 0 => p.first = q[1] /\ p.last = q[n] /\ p.next[q[n]] = NIL
Links(p, q, n) == \A k \in 1 .. n - 1 : p.next[q[k]] = q[k + 1] /\ p.prev[q[k + 1]] = q[k]
Chain(p, q, n) == Order(q, n) /\ Ends(p, q, n) /\ Links(p, q, n)

\* While there is room each proto has a slot of its own; when there is none left
\* there are two at least.
Room(num) == num + 1 < MSP /\ numecs * (num + 1) < PROT_SAVE_SIZE
Counted(num, n) == n <= num /\ (Room(num) => n = num) /\ (~Room(num) => n >= 2)

\* f has the rows of the states and templates that the slots are named for.
Filled(p, n, f) == \A s \in 1 .. n : p.tbl[s] \in DOMAIN f /\ p.save[s] = f[p.tbl[s]]
Queued(p, f, n) ==
  Linked(p) /\ n \in Nat /\ Counted(p.num, n) /\ Filled(p, n, f) /\ \E q : Chain(p, q, n)

Named == ((1 .. Len(rows)) \ {EobState}) \cup {-m : m \in 1 .. Len(tnxt)}
Content == [m \in Named |-> IF m < 0 THEN tnxt[-m] ELSE Row([to |-> rows[m]])]

IsSeq(s) == s \in Seq(Range(s))
ProtosOK == IsSeq(rows) /\ IsSeq(tnxt) /\ \E n \in Nat : Queued(prot, Content, n)

LEMMA SizesAre ==
  MSP \in Nat /\ MSP >= 3 /\ numecs \in Nat \ {0} /\ PROT_SAVE_SIZE \in Nat /\ PROT_SAVE_SIZE > 2 * numecs
BY SizesAssumption, ThresholdsAssumption

\* The count goes on when there is no room any more; for two there is.
LEMMA RoomIs ==
  /\ Room(0) /\ Room(1)
  /\ \A num \in Nat : ~Room(num) => ~Room(num + 1)
<1>1. numecs * (0 + 1) = numecs /\ numecs * (1 + 1) = 2 * numecs
  BY SizesAre
<1>2. Room(0) /\ Room(1)
  BY <1>1, SizesAre DEF Room
<1>3. ASSUME NEW num \in Nat, ~Room(num) PROVE ~Room(num + 1)
  <2>1. /\ numecs * (num + 1 + 1) = numecs * (num + 1) + numecs
        /\ numecs * (num + 1) \in Nat
    BY SizesAre
  <2> QED
    BY <1>3, <2>1, SizesAre DEF Room
<1> QED
  BY <1>2, <1>3

LEMMA CountedOn ==
  ASSUME NEW num \in Nat, NEW n \in Nat, Counted(num, n)
  PROVE  Counted(num + 1, IF Room(num) THEN n + 1 ELSE n)
<1>1. CASE Room(num)
  <2>1. n = num /\ (~Room(num + 1) => num # 0)
    BY <1>1, RoomIs DEF Counted
  <2> QED
    BY <1>1, <2>1 DEF Counted
<1>2. CASE ~Room(num)
  BY <1>2, RoomIs DEF Counted
<1> QED
  BY <1>1, <1>2

\* To go to the front: from place j, or from outside (j = n).
ToFront(q, j, n, s) == [k \in 1 .. n |-> IF k = 1 THEN s ELSE IF k <= j THEN q[k - 1] ELSE q[k]]

LEMMA FrontOrder ==
  ASSUME NEW n \in Nat, NEW q, Order(q, n), NEW j \in 1 .. n
  PROVE  Order(ToFront(q, j, n, q[j]), n)
<1> DEFINE r == ToFront(q, j, n, q[j])
<1>1. /\ r = [k \in 1 .. n |-> IF k = 1 THEN q[j] ELSE IF k <= j THEN q[k - 1] ELSE q[k]]
      /\ \A k \in 1 .. n : q[k] \in 1 .. n
  BY DEF ToFront, Order
<1> HIDE DEF r
<1>0. /\ r[1] = q[j]
      /\ \A k \in 2 .. j : r[k] = q[k - 1]
      /\ \A k \in j + 1 .. n : r[k] = q[k]
  BY <1>1
\* The place each of its slots had in q.
<1> DEFINE Was(k) == IF k = 1 THEN j ELSE IF k <= j THEN k - 1 ELSE k
<1>3. \A k \in 1 .. n : Was(k) \in 1 .. n /\ r[k] = q[Was(k)]
  BY <1>1
<1>4. \A k, m \in 1 .. n : Was(k) = Was(m) => k = m
  OBVIOUS
<1>6. r \in [1 .. n -> 1 .. n]
  <2> HIDE DEF Was
  <2>1. \A k \in 1 .. n : r[k] \in 1 .. n
    BY <1>1, <1>3
  <2> QED
    BY <1>1, <2>1
<1>2. ASSUME NEW s \in 1 .. n PROVE \E k \in 1 .. n : r[k] = s
  <2>1. PICK k \in 1 .. n : q[k] = s
    BY DEF Order
  <2>2. CASE k = j
    BY <1>0, <2>1, <2>2
  <2>3. CASE k < j
    <3>1. k + 1 \in 2 .. j /\ k + 1 \in 1 .. n /\ k + 1 - 1 = k
      BY <2>3
    <3>2. r[k + 1] = q[k + 1 - 1]
      BY <1>0, <3>1
    <3> QED
      BY <2>1, <3>1, <3>2
  <2>4. CASE k > j
    BY <1>0, <2>1, <2>4
  <2> QED
    BY <2>2, <2>3, <2>4
<1>5. \A k, m \in 1 .. n : r[k] = r[m] => k = m
  <2> HIDE DEF Was
  <2> QED
    BY <1>3, <1>4 DEF Order
<1>7. n < MSP
  BY DEF Order
<1>8. Order(r, n)
  BY <1>2, <1>5, <1>6, <1>7 DEF Order
<1> QED
  BY <1>8 DEF r

LEMMA NewOrder ==
  ASSUME NEW n \in Nat, n + 1 < MSP, NEW q, Order(q, n)
  PROVE  Order(ToFront(q, n + 1, n + 1, n + 1), n + 1)
<1> DEFINE r == ToFront(q, n + 1, n + 1, n + 1)
<1>5. \A k \in 2 .. n + 1 : k - 1 \in 1 .. n
  OBVIOUS
<1>6. \A k \in 1 .. n : q[k] \in 1 .. n
  BY DEF Order
<1>1. \A k \in 2 .. n + 1 : k - 1 \in 1 .. n /\ q[k - 1] \in 1 .. n
  BY <1>5, <1>6
<1>2. /\ r \in [1 .. n + 1 -> 1 .. n + 1] /\ r[1] = n + 1
      /\ \A k \in 2 .. n + 1 : r[k] = q[k - 1]
  BY <1>1 DEF ToFront
<1> HIDE DEF r
<1>3. ASSUME NEW s \in 1 .. n + 1 PROVE \E k \in 1 .. n + 1 : r[k] = s
  <2>1. CASE s = n + 1
    BY <1>2, <2>1
  <2>2. CASE s # n + 1
    <3>1. PICK k \in 1 .. n : q[k] = s
      BY <2>2 DEF Order
    <3>2. k + 1 \in 2 .. n + 1 /\ k + 1 - 1 = k
      OBVIOUS
    <3>3. r[k + 1] = q[k + 1 - 1]
      BY <1>2, <3>2
    <3> QED
      BY <3>1, <3>2, <3>3
  <2> QED
    BY <2>1, <2>2
<1>4. ASSUME NEW k \in 1 .. n + 1, NEW m \in 1 .. n + 1, r[k] = r[m] PROVE k = m
  <2>0. r[1] = n + 1 /\ \A i \in 2 .. n + 1 : r[i] \in 1 .. n
    BY <1>1, <1>2
  <2>1. CASE k = 1 /\ m # 1
    BY <1>4, <2>0, <2>1
  <2>2. CASE k # 1 /\ m = 1
    BY <1>4, <2>0, <2>2
  <2>3. CASE k # 1 /\ m # 1
    <3>1. q[k - 1] = q[m - 1] /\ k - 1 \in 1 .. n /\ m - 1 \in 1 .. n
      BY <1>2, <1>4, <2>3
    <3>2. k - 1 = m - 1
      BY <3>1 DEF Order
    <3> QED
      BY <3>2
  <2> QED
    BY <2>1, <2>2, <2>3
<1>7. n + 1 \in Nat
  OBVIOUS
<1>8. Order(r, n + 1)
  BY <1>2, <1>3, <1>4, <1>7 DEF Order
<1> QED
  BY <1>8 DEF r

LEMMA InSlots ==
  ASSUME NEW p, NEW n \in Nat, NEW q, Chain(p, q, n)
  PROVE  /\ \A k \in 1 .. n : q[k] \in Slots /\ q[k] # NIL
         /\ \A k, m \in 1 .. n : k # m => q[k] # q[m]
<1>1. \A k \in 1 .. n : q[k] \in 1 .. n
  BY DEF Chain, Order
<1>2. n < MSP /\ MSP \in Nat
  BY SizesAre DEF Chain, Order
<1>3. \A k \in 1 .. n : q[k] \in Slots /\ q[k] # NIL
  BY <1>1, <1>2 DEF Slots, NIL
<1> QED
  BY <1>3 DEF Chain, Order

\* mkprot(), as long as there is room.
LEMMA MkProtAdds ==
  ASSUME NEW p, Linked(p), NEW n \in Nat, Room(p.num), p.num = n, NEW q, Chain(p, q, n),
         NEW row, NEW m, NEW com
  PROVE  LET u == MkProt(p, row, m, com)
         IN  /\ Linked(u) /\ u.num = p.num + 1 /\ u.first = n + 1
             /\ u.tbl = [p.tbl EXCEPT ![n + 1] = m] /\ u.save = [p.save EXCEPT ![n + 1] = row]
             /\ Chain(u, ToFront(q, n + 1, n + 1, n + 1), n + 1)
<1> DEFINE u == MkProt(p, row, m, com)
           r == ToFront(q, n + 1, n + 1, n + 1)
<1>1. n + 1 \in Slots /\ n + 1 < MSP
  BY SizesAre DEF Room, Slots
<1>2. ~(p.num + 1 >= MSP \/ numecs * (p.num + 1) >= PROT_SAVE_SIZE)
  <2>1. numecs * (p.num + 1) \in Int
    BY SizesAre
  <2> QED
    BY <2>1, SizesAre DEF Room
<1>3. u = [num |-> p.num + 1, first |-> n + 1, last |-> p.last,
           next |-> [[p.next EXCEPT ![p.last] = @] EXCEPT ![n + 1] = p.first],
           prev |-> IF p.first # NIL THEN [p.prev EXCEPT ![p.first] = n + 1] ELSE p.prev,
           tbl |-> [p.tbl EXCEPT ![n + 1] = m],
           comst |-> [p.comst EXCEPT ![n + 1] = com],
           save |-> [p.save EXCEPT ![n + 1] = row]]
  BY <1>2 DEF MkProt
<1>4. [p.next EXCEPT ![p.last] = @] = p.next
  BY DEF Linked
<1> HIDE DEF u
<1>5. /\ DOMAIN u = ProtoFields /\ u.num = p.num + 1 /\ u.first = n + 1 /\ u.last = p.last
      /\ u.next = [p.next EXCEPT ![n + 1] = p.first]
      /\ u.prev = IF p.first # NIL THEN [p.prev EXCEPT ![p.first] = n + 1] ELSE p.prev
      /\ u.tbl = [p.tbl EXCEPT ![n + 1] = m]
      /\ u.save = [p.save EXCEPT ![n + 1] = row]
  BY <1>3, <1>4 DEF ProtoFields
<1>6. Linked(u)
  BY <1>1, <1>5 DEF Linked
<1>7. Order(r, n + 1)
  BY <1>1, NewOrder DEF Chain
<1>8. r[1] = n + 1 /\ \A k \in 2 .. n + 1 : r[k] = q[k - 1]
  BY DEF ToFront
<1> HIDE DEF r
<1>9. \A k \in 1 .. n : q[k] \in Slots /\ q[k] # n + 1
  <2>1. \A k \in 1 .. n : q[k] \in 1 .. n
    BY DEF Chain, Order
  <2> QED
    BY <2>1, InSlots
<1>10. Ends(u, r, n + 1)
  <2>1. CASE n = 0
    <3>1. p.first = NIL /\ p.last = 1
      BY <2>1 DEF Chain, Ends
    <3>2. u.next[n + 1] = p.first
      BY <1>1, <1>5 DEF Linked
    <3> QED
      BY <1>5, <1>8, <2>1, <3>1, <3>2 DEF Ends
  <2>2. CASE n # 0
    <3>1. p.last = q[n] /\ p.next[q[n]] = NIL /\ q[n] \in Slots /\ q[n] # n + 1
      BY <1>9, <2>2 DEF Chain, Ends
    <3>2. u.next[q[n]] = NIL
      BY <1>5, <3>1 DEF Linked
    <3>3. r[n + 1] = q[n]
      <4>1. n + 1 \in 2 .. n + 1 /\ n + 1 - 1 = n
        BY <2>2
      <4> QED
        BY <1>8, <4>1
    <3> QED
      BY <1>5, <1>8, <3>1, <3>2, <3>3 DEF Ends
  <2> QED
    BY <2>1, <2>2
<1>11. Links(u, r, n + 1)
  <2> SUFFICES ASSUME NEW k \in 1 .. n
               PROVE  u.next[r[k]] = r[k + 1] /\ u.prev[r[k + 1]] = r[k]
    BY DEF Links
  <2>1. r[k + 1] = q[k]
    <3>1. k + 1 \in 2 .. n + 1 /\ k + 1 - 1 = k
      OBVIOUS
    <3> QED
      BY <1>8, <3>1
  <2>2. p.first = q[1] /\ q[1] \in Slots
    BY <1>9 DEF Chain, Ends
  <2>3. CASE k = 1
    <3>1. q[1] # NIL
      BY <2>2, SizesAre DEF Slots, NIL
    <3> QED
      BY <1>1, <1>5, <1>8, <2>1, <2>2, <2>3, <3>1 DEF Linked
  <2>4. CASE k # 1
    <3>1. k - 1 \in 1 .. n - 1 /\ k - 1 + 1 = k /\ k - 1 \in 1 .. n /\ 1 \in 1 .. n
      BY <2>4
    <3>2. p.next[q[k - 1]] = q[k] /\ p.prev[q[k]] = q[k - 1]
      BY <3>1 DEF Chain, Links
    <3>3. r[k] = q[k - 1] /\ q[k - 1] \in Slots /\ q[k - 1] # n + 1
      BY <1>8, <1>9, <2>4, <3>1
    <3>4. q[k] # q[1] /\ q[k] \in Slots
      BY <1>9, <2>4, <3>1 DEF Chain, Order
    <3> QED
      BY <1>5, <2>1, <2>2, <3>2, <3>3, <3>4 DEF Linked
  <2> QED
    BY <2>3, <2>4
<1> QED
  BY <1>5, <1>6, <1>7, <1>10, <1>11 DEF u, r, Chain

\* The links of u are those of p, but that the slot at place j has come first.
Relinked(p, u, q, j, n) ==
  /\ u.first = q[j] /\ u.last = IF j = n THEN q[n - 1] ELSE p.last
  /\ u.next[q[j]] = q[1] /\ u.next[q[j - 1]] = p.next[q[j]]
  /\ \A s \in Slots : s # q[j] /\ s # q[j - 1] => u.next[s] = p.next[s]
  /\ u.prev[q[1]] = q[j] /\ (j < n => u.prev[q[j + 1]] = q[j - 1])
  /\ \A s \in Slots : s # q[1] /\ s # q[j] /\ (j < n => s # q[j + 1]) => u.prev[s] = p.prev[s]

LEMMA RelinkedIs ==
  ASSUME NEW p, NEW n \in Nat, NEW q, Chain(p, q, n), NEW j \in 2 .. n,
         NEW u, Relinked(p, u, q, j, n)
  PROVE  Chain(u, ToFront(q, j, n, q[j]), n)
<1> DEFINE r == ToFront(q, j, n, q[j])
<1>1. Order(r, n)
  BY FrontOrder DEF Chain
<1>2. r[1] = q[j] /\ (\A k \in 2 .. j : r[k] = q[k - 1]) /\ \A k \in j + 1 .. n : r[k] = q[k]
  BY DEF ToFront
<1> HIDE DEF r
<1>3. /\ \A k \in 1 .. n : q[k] \in Slots
      /\ \A k, m \in 1 .. n : k # m => q[k] # q[m]
  BY InSlots
<1>4. /\ p.first = q[1] /\ p.last = q[n] /\ p.next[q[n]] = NIL
      /\ \A k \in 1 .. n - 1 : p.next[q[k]] = q[k + 1] /\ p.prev[q[k + 1]] = q[k]
  BY DEF Chain, Ends, Links
<1>5. j - 1 \in 1 .. n /\ j - 1 \in 1 .. n - 1 /\ 1 \in 1 .. n /\ n # 0
  OBVIOUS
<1>6. Ends(u, r, n)
  <2>1. CASE j = n
    <3>1. r[n] = q[n - 1] /\ u.last = q[n - 1] /\ u.next[q[n - 1]] = NIL
      BY <1>2, <1>4, <2>1 DEF Relinked
    <3> QED
      BY <1>2, <1>5, <3>1 DEF Ends, Relinked
  <2>2. CASE j # n
    <3>1. n \in j + 1 .. n /\ n # j - 1 /\ n \in 1 .. n
      BY <2>2
    <3>2. r[n] = q[n] /\ u.last = q[n]
      BY <1>2, <1>4, <2>2, <3>1 DEF Relinked
    <3>3. q[n] \in Slots /\ q[n] # q[j] /\ q[n] # q[j - 1]
      BY <1>3, <1>5, <2>2, <3>1
    <3>4. u.next[q[n]] = NIL
      BY <1>4, <3>3 DEF Relinked
    <3> QED
      BY <1>2, <1>5, <3>2, <3>4 DEF Ends, Relinked
  <2> QED
    BY <2>1, <2>2
<1>7. Links(u, r, n)
  <2> SUFFICES ASSUME NEW k \in 1 .. n - 1
               PROVE  u.next[r[k]] = r[k + 1] /\ u.prev[r[k + 1]] = r[k]
    BY DEF Links
  <2>1. CASE k = 1
    <3>1. 2 \in 2 .. j /\ 2 - 1 = 1
      OBVIOUS
    <3>2. r[2] = q[1]
      BY <1>2, <3>1
    <3> QED
      BY <1>2, <2>1, <3>2 DEF Relinked
  <2>2. CASE k # 1 /\ k < j
    <3>1. k \in 2 .. j /\ k + 1 \in 2 .. j /\ k + 1 - 1 = k /\ k - 1 \in 1 .. n - 1 /\ k - 1 + 1 = k
          /\ k \in 1 .. n /\ k - 1 \in 1 .. n /\ k - 1 # j - 1 /\ k - 1 # j /\ k # j + 1
      BY <2>2
    <3>2. r[k] = q[k - 1] /\ r[k + 1] = q[k]
      BY <1>2, <3>1
    <3>3. p.next[q[k - 1]] = q[k] /\ p.prev[q[k]] = q[k - 1]
      BY <1>4, <3>1
    <3>4. q[k - 1] \in Slots /\ q[k - 1] # q[j] /\ q[k - 1] # q[j - 1]
      BY <1>3, <1>5, <3>1
    <3>5. q[k] \in Slots /\ q[k] # q[1] /\ q[k] # q[j]
      BY <1>3, <1>5, <2>2, <3>1
    <3>6. j < n => q[k] # q[j + 1]
      <4> SUFFICES ASSUME j < n PROVE q[k] # q[j + 1]
        OBVIOUS
      <4>1. j + 1 \in 1 .. n
        OBVIOUS
      <4> QED
        BY <1>3, <3>1, <4>1
    <3> QED
      BY <3>2, <3>3, <3>4, <3>5, <3>6 DEF Relinked
  <2>3. CASE k = j
    <3>1. j \in 2 .. j /\ j + 1 \in j + 1 .. n /\ j < n /\ j \in 1 .. n - 1
      BY <2>3
    <3>2. r[j] = q[j - 1] /\ r[j + 1] = q[j + 1]
      BY <1>2, <3>1
    <3>3. p.next[q[j]] = q[j + 1]
      BY <1>4, <3>1
    <3> QED
      BY <2>3, <3>1, <3>2, <3>3 DEF Relinked
  <2>4. CASE k > j
    <3>1. k \in j + 1 .. n /\ k + 1 \in j + 1 .. n /\ k \in 1 .. n /\ k + 1 \in 1 .. n
          /\ k # j /\ k # j - 1 /\ k + 1 # 1 /\ k + 1 # j /\ k + 1 # j + 1 /\ (j < n => j + 1 \in 1 .. n)
      BY <2>4
    <3>2. r[k] = q[k] /\ r[k + 1] = q[k + 1]
      BY <1>2, <3>1
    <3>3. p.next[q[k]] = q[k + 1] /\ p.prev[q[k + 1]] = q[k]
      BY <1>4
    <3>4. q[k] \in Slots /\ q[k] # q[j] /\ q[k] # q[j - 1]
      BY <1>3, <1>5, <3>1
    <3>5. q[k + 1] \in Slots /\ q[k + 1] # q[1] /\ q[k + 1] # q[j] /\ (j < n => q[k + 1] # q[j + 1])
      BY <1>3, <1>5, <3>1
    <3> QED
      BY <3>2, <3>3, <3>4, <3>5 DEF Relinked
  <2> QED
    BY <2>1, <2>2, <2>3, <2>4
<1> QED
  BY <1>1, <1>6, <1>7 DEF r, Chain

\* mkprot(), when the last one makes room.
LEMMA MkProtReuses ==
  ASSUME NEW p, Linked(p), NEW n \in Nat, n >= 2, ~Room(p.num), NEW q, Chain(p, q, n),
         NEW row, NEW m, NEW com
  PROVE  LET u == MkProt(p, row, m, com)
         IN  /\ Linked(u) /\ u.num = p.num + 1 /\ u.first = q[n]
             /\ u.tbl = [p.tbl EXCEPT ![q[n]] = m] /\ u.save = [p.save EXCEPT ![q[n]] = row]
             /\ Chain(u, ToFront(q, n, n, q[n]), n)
<1> DEFINE u == MkProt(p, row, m, com)
<1>1. p.num + 1 >= MSP \/ numecs * (p.num + 1) >= PROT_SAVE_SIZE
  <2>1. numecs * (p.num + 1) \in Int
    BY SizesAre DEF Linked
  <2> QED
    BY <2>1, SizesAre DEF Room, Linked
<1>2. /\ p.first = q[1] /\ p.last = q[n] /\ p.next[q[n]] = NIL /\ p.prev[q[n]] = q[n - 1]
  <2>1. n - 1 \in 1 .. n - 1 /\ n - 1 + 1 = n
    OBVIOUS
  <2>2. p.prev[q[n]] = q[n - 1]
    BY <2>1 DEF Chain, Links
  <2> QED
    BY <2>2 DEF Chain, Ends
<1>3. /\ q[1] \in Slots /\ q[n] \in Slots /\ q[n - 1] \in Slots
      /\ q[n] # q[1] /\ q[n] # q[n - 1] /\ q[1] # NIL
  <2>1. 1 \in 1 .. n /\ n \in 1 .. n /\ n - 1 \in 1 .. n /\ n # 1 /\ n # n - 1
    OBVIOUS
  <2>2. /\ \A k \in 1 .. n : q[k] \in Slots /\ q[k] # NIL
        /\ \A k, l \in 1 .. n : k # l => q[k] # q[l]
    BY InSlots
  <2> QED
    BY ZenonT(30), <2>1, <2>2
<1>4. u = [num |-> p.num + 1, first |-> q[n], last |-> q[n - 1],
           next |-> [[p.next EXCEPT ![q[n - 1]] = NIL] EXCEPT ![q[n]] = q[1]],
           prev |-> [p.prev EXCEPT ![q[1]] = q[n]],
           tbl |-> [p.tbl EXCEPT ![q[n]] = m],
           comst |-> [p.comst EXCEPT ![q[n]] = com],
           save |-> [p.save EXCEPT ![q[n]] = row]]
  BY <1>1, <1>2, <1>3 DEF MkProt
<1> HIDE DEF u
<1>5. /\ DOMAIN u = ProtoFields /\ u.num = p.num + 1 /\ u.first = q[n] /\ u.last = q[n - 1]
      /\ u.next = [[p.next EXCEPT ![q[n - 1]] = NIL] EXCEPT ![q[n]] = q[1]]
      /\ u.prev = [p.prev EXCEPT ![q[1]] = q[n]]
      /\ u.tbl = [p.tbl EXCEPT ![q[n]] = m]
      /\ u.save = [p.save EXCEPT ![q[n]] = row]
  BY <1>4 DEF ProtoFields
<1>6. Linked(u)
  BY <1>3, <1>5 DEF Linked
<1>7. Relinked(p, u, q, n, n)
  BY <1>2, <1>3, <1>5 DEF Relinked, Linked
<1>8. n \in 2 .. n
  OBVIOUS
<1>9. Chain(u, ToFront(q, n, n, q[n]), n)
  BY <1>7, <1>8, RelinkedIs
<1> QED
  BY <1>5, <1>6, <1>9 DEF u

\* mv2front()
LEMMA Mv2frontIs ==
  ASSUME NEW p, Linked(p), NEW n \in Nat, NEW q, Chain(p, q, n), NEW e \in 1 .. n
  PROVE  LET u == Mv2front(p, e)
         IN  /\ Linked(u) /\ u.num = p.num /\ u.tbl = p.tbl /\ u.save = p.save
             /\ \E r : Chain(u, r, n)
<1> DEFINE u == Mv2front(p, e)
<1>1. CASE p.first = e
  <2>1. u = p
    BY <1>1 DEF Mv2front
  <2> QED
    BY <2>1
<1>2. CASE p.first # e
  <2>1. PICK j \in 1 .. n : q[j] = e
    BY DEF Chain, Order
  <2>2. /\ p.first = q[1] /\ p.last = q[n] /\ p.next[q[n]] = NIL
        /\ \A k \in 1 .. n - 1 : p.next[q[k]] = q[k + 1] /\ p.prev[q[k + 1]] = q[k]
    BY DEF Chain, Ends, Links
  <2>3. j \in 2 .. n /\ j - 1 \in 1 .. n - 1 /\ j - 1 + 1 = j /\ j - 1 \in 1 .. n /\ 1 \in 1 .. n
        /\ n \in 1 .. n
    BY <1>2, <2>1, <2>2
  <2>4. p.prev[q[j]] = q[j - 1]
    BY <2>2, <2>3
  <2>5. /\ \A k \in 1 .. n : q[k] \in Slots /\ q[k] # NIL
        /\ \A k, m \in 1 .. n : k # m => q[k] # q[m]
    BY InSlots
  <2> DEFINE before == q[j - 1]
             after == p.next[q[j]]
             next == [[p.next EXCEPT ![before] = after] EXCEPT ![q[j]] = q[1]]
             prev == [s \in DOMAIN p.prev |-> IF s = q[1] THEN q[j]
                                              ELSE IF s = q[j] THEN NIL
                                              ELSE IF s = after THEN before ELSE p.prev[s]]
             last == IF q[j] = p.last THEN before ELSE p.last
  <2>6. u = [p EXCEPT !.first = q[j], !.last = last, !.next = next, !.prev = prev]
    BY <1>2, <2>1, <2>2, <2>4 DEF Mv2front
  <2>7. /\ q[j] \in Slots /\ q[1] \in Slots /\ before \in Slots /\ q[j] # before /\ q[j] # q[1]
        /\ after \in Slots \cup {NIL}
    BY <2>3, <2>5 DEF Linked
  <2>8. (j < n => after = q[j + 1] /\ q[j + 1] # q[1] /\ q[j + 1] # q[j] /\ q[j + 1] \in Slots) /\ (j = n => after = NIL)
    <3>1. CASE j < n
      <4>1. j \in 1 .. n - 1 /\ j + 1 \in 1 .. n /\ j + 1 # 1 /\ j + 1 # j
        BY <3>1
      <4> QED
        BY <2>2, <2>3, <2>5, <3>1, <4>1
    <3>2. CASE j = n
      BY <2>2, <3>2
    <3> QED
      BY <2>3, <3>1, <3>2
  <2>9. last = (IF j = n THEN q[n - 1] ELSE p.last) /\ last \in Slots
    <3>1. q[j] = q[n] <=> j = n
      BY <2>3, <2>5
    <3> QED
      BY <2>2, <2>3, <2>5, <3>1
  <2>10. /\ next \in [Slots -> Slots \cup {NIL}] /\ prev \in [Slots -> Slots \cup {NIL}]
    BY <2>7 DEF Linked
  <2>11. /\ next[q[j]] = q[1] /\ next[before] = after
         /\ \A s \in Slots : s # q[j] /\ s # before => next[s] = p.next[s]
    BY <2>7 DEF Linked
  <2>12. /\ prev[q[1]] = q[j] /\ (j < n => prev[q[j + 1]] = before)
         /\ \A s \in Slots : s # q[1] /\ s # q[j] /\ (j < n => s # q[j + 1]) => prev[s] = p.prev[s]
    <3>1. DOMAIN p.prev = Slots /\ NIL \notin Slots
      BY SizesAre DEF Linked, NIL, Slots
    <3> QED
      BY <2>3, <2>7, <2>8, <3>1
  <2> HIDE DEF next, prev, last, u, after
  <2>13. /\ DOMAIN u = ProtoFields /\ u.num = p.num /\ u.tbl = p.tbl /\ u.save = p.save
         /\ u.first = q[j] /\ u.last = last /\ u.next = next /\ u.prev = prev
    BY <2>6 DEF Linked, ProtoFields
  <2>14. Linked(u)
    BY <2>7, <2>9, <2>10, <2>13 DEF Linked
  <2>15. Relinked(p, u, q, j, n)
    BY <2>9, <2>11, <2>12, <2>13 DEF Relinked, after
  <2>16. Chain(u, ToFront(q, j, n, q[j]), n)
    BY <2>3, <2>15, RelinkedIs
  <2> QED
    BY <2>13, <2>14, <2>16 DEF u
<1> QED
  BY <1>1, <1>2

\* Following the links gives the queue.
LEMMA QueueIs ==
  ASSUME NEW p, Linked(p), NEW n \in Nat, NEW q, Chain(p, q, n)
  PROVE  q \in Seq(Slots) /\ Len(q) = n /\ Queue(p) = q
<1> DEFINE Next1(v) == LET s == IF v = <<>> THEN p.first ELSE p.next[Last(v)]
                       IN  IF s = NIL THEN v ELSE Append(v, s)
           Up(k) == SubSeq(q, 1, IF k <= n THEN k ELSE n)
           F(f) == f = [k \in 0 .. MSP |-> IF k = 0 THEN <<>> ELSE Next1(f[k - 1])]
           w == [k \in 0 .. MSP |-> Up(k)]
<1>1. \A k \in 1 .. n : q[k] \in Slots /\ q[k] # NIL
  BY InSlots
<1>2. q \in Seq(Slots) /\ Len(q) = n
  <2>1. q \in [1 .. n -> Slots]
    BY <1>1 DEF Chain, Order
  <2>2. q \in Seq(Slots)
    BY <2>1, SeqDef
  <2>3. DOMAIN q = 1 .. Len(q) /\ Len(q) \in Nat /\ DOMAIN q = 1 .. n
    BY <2>1, <2>2, LenProperties
  <2>4. Len(q) = n
    <3> DEFINE m == Len(q)
    <3>1. m \in Nat /\ 1 .. m = 1 .. n
      BY <2>3
    <3> HIDE DEF m
    <3>2. n # 0 => n \in 1 .. m
      BY <3>1
    <3>3. m # 0 => m \in 1 .. n
      BY <3>1
    <3> QED
      BY <3>1, <3>2, <3>3 DEF m
  <2> QED
    BY <2>2, <2>4
<1>3. ASSUME NEW k \in Nat
      PROVE  /\ Up(k) \in Seq(Slots) /\ Len(Up(k)) = IF k <= n THEN k ELSE n
             /\ \A i \in 1 .. Len(Up(k)) : Up(k)[i] = q[i]
  <2> DEFINE e == IF k <= n THEN k ELSE n
  <2>1. e \in 0 .. n /\ \A i \in 1 .. e : q[i] \in Slots
    BY <1>1
  <2> HIDE DEF e
  <2>2. /\ SubSeq(q, 1, e) \in Seq(Slots) /\ Len(SubSeq(q, 1, e)) = e
        /\ \A i \in 1 .. e : SubSeq(q, 1, e)[i] = q[i]
    <3>1. \A i \in 1 .. e - 1 + 1 : SubSeq(q, 1, e)[i] = q[1 + i - 1]
      BY <2>1, SubSeqProperties
    <3>2. SubSeq(q, 1, e) \in Seq(Slots) /\ Len(SubSeq(q, 1, e)) = IF 1 <= e THEN e - 1 + 1 ELSE 0
      BY <2>1, SubSeqProperties
    <3> QED
      BY <2>1, <3>1, <3>2
  <2> QED
    BY <2>2 DEF e
<1> HIDE DEF Up
<1>4. ASSUME NEW k \in 1 .. n PROVE Next1(Up(k - 1)) = Up(k)
  <2> DEFINE v == Up(k - 1)
  <2>1. /\ v \in Seq(Slots) /\ Len(v) = k - 1 /\ \A i \in 1 .. k - 1 : v[i] = q[i]
        /\ Up(k) \in Seq(Slots) /\ Len(Up(k)) = k /\ \A i \in 1 .. k : Up(k)[i] = q[i]
    <3>1. k - 1 \in Nat /\ k \in Nat /\ k - 1 <= n /\ k <= n
      OBVIOUS
    <3> QED
      BY <1>3, <3>1
  <2> HIDE DEF v
  <2>2. (IF v = <<>> THEN p.first ELSE p.next[Last(v)]) = q[k]
    <3>1. CASE k = 1
      <4>1. v = <<>>
        BY <2>1, <3>1, EmptySeq
      <4> QED
        BY <3>1, <4>1 DEF Chain, Ends
    <3>2. CASE k # 1
      <4>1. v # <<>>
        BY <2>1, <3>2, EmptySeq
      <4>2. Last(v) = q[k - 1]
        <5>1. k - 1 \in 1 .. k - 1
          BY <3>2
        <5> QED
          BY <2>1, <5>1 DEF Last
      <4>3. k - 1 \in 1 .. n - 1 /\ k - 1 + 1 = k
        BY <3>2
      <4>4. p.next[q[k - 1]] = q[k]
        BY <4>3 DEF Chain, Links
      <4> QED
        BY <4>1, <4>2, <4>4
    <3> QED
      BY <3>1, <3>2
  <2>3. Append(v, q[k]) = Up(k)
    <3> DEFINE z == Append(v, q[k])
    <3>1. z \in Seq(Slots) /\ Len(z) = k /\ z[k] = q[k] /\ \A i \in 1 .. k - 1 : z[i] = q[i]
      BY <1>1, <2>1
    <3> HIDE DEF z
    <3>2. \A i \in 1 .. Len(z) : z[i] = Up(k)[i]
      <4> SUFFICES ASSUME NEW i \in 1 .. k PROVE z[i] = q[i]
        BY <2>1, <3>1
      <4> QED
        BY <3>1
    <3>3. z = Up(k)
      BY <2>1, <3>1, <3>2, SeqEqual
    <3> QED
      BY <3>3 DEF z
  <2> QED
    BY <1>1, <2>2, <2>3 DEF v
<1>5. ASSUME NEW k \in Nat, k >= n PROVE Up(k) = q
  BY <1>2, <1>5, SubSeqFull DEF Up
<1>6. Next1(q) = q
  <2>1. CASE n = 0
    <3>1. q = <<>>
      BY <1>2, <2>1, EmptySeq
    <3> QED
      BY <2>1, <3>1 DEF Chain, Ends
  <2>2. CASE n # 0
    <3>1. q # <<>>
      BY <1>2, <2>2, EmptySeq
    <3>2. p.next[Last(q)] = NIL
      BY <1>2, <2>2 DEF Chain, Ends, Last
    <3> QED
      BY <3>1, <3>2
  <2> QED
    BY <2>1, <2>2
<1>7. Up(0) = <<>>
  <2>1. 0 \in Nat /\ 0 <= n
    OBVIOUS
  <2>2. Up(0) \in Seq(Slots) /\ Len(Up(0)) = 0
    BY <1>3, <2>1
  <2> QED
    BY <2>2, EmptySeq
<1>8. \A k \in 0 .. MSP : Up(k) = IF k = 0 THEN <<>> ELSE Next1(Up(k - 1))
  <2> SUFFICES ASSUME NEW k \in 0 .. MSP PROVE Up(k) = IF k = 0 THEN <<>> ELSE Next1(Up(k - 1))
    OBVIOUS
  <2> HIDE DEF Next1
  <2>1. CASE k = 0
    BY <1>7, <2>1
  <2>2. CASE k # 0 /\ k <= n
    <3>1. k \in 1 .. n
      BY <2>2
    <3> QED
      BY <1>4, <2>2, <3>1
  <2>3. CASE k > n
    <3>1. k \in Nat /\ k - 1 \in Nat /\ k >= n /\ k - 1 >= n /\ k # 0
      BY <2>3
    <3>2. Up(k) = q /\ Up(k - 1) = q
      BY <1>5, <3>1
    <3> QED
      BY <1>6, <3>1, <3>2
  <2> QED
    BY <2>1, <2>2, <2>3
<1> HIDE DEF Next1
<1>9. F(w)
  <2>1. \A k \in 0 .. MSP : k # 0 => k - 1 \in 0 .. MSP /\ w[k - 1] = Up(k - 1)
    BY SizesAre
  <2>2. w = [k \in 0 .. MSP |-> IF k = 0 THEN <<>> ELSE Next1(w[k - 1])]
    BY <1>8, <2>1
  <2> QED
    BY <2>2
<1> DEFINE from == CHOOSE f : F(f)
<1>10. F(from)
  BY <1>9
<1>11. Queue(p) = from[MSP]
  BY DEF Queue, Next1
<1> HIDE DEF from
<1> DEFINE P == {k \in Nat : k <= MSP => from[k] = Up(k)}
<1>12. 0 \in P
  BY <1>7, <1>10, SizesAre
<1>13. ASSUME NEW k \in Nat, k \in P PROVE k + 1 \in P
  <2> SUFFICES ASSUME k + 1 <= MSP PROVE from[k + 1] = Up(k + 1)
    OBVIOUS
  <2>1. k + 1 \in 0 .. MSP /\ k + 1 # 0 /\ k + 1 - 1 = k /\ k <= MSP
    BY SizesAre
  <2>2. from[k + 1] = Next1(from[k])
    BY <1>10, <2>1
  <2>3. from[k] = Up(k)
    BY <1>13, <2>1
  <2> QED
    BY <1>8, <2>1, <2>2, <2>3
<1> HIDE DEF P
<1>14. MSP \in P
  BY <1>12, <1>13, SetInduction, SizesAre
<1>15. from[MSP] = Up(MSP)
  BY <1>14, SizesAre DEF P
<1>16. Up(MSP) = q
  BY <1>5, SizesAre DEF Chain, Order
<1> QED
  BY <1>2, <1>11, <1>15, <1>16

\* Whoever gets the row of f that it is named for keeps the queue in order.
Within(f, g) == \A m \in DOMAIN f : m \in DOMAIN g /\ g[m] = f[m]

LEMMA QueuedWithin ==
  ASSUME NEW p, NEW f, NEW n, Queued(p, f, n), NEW g, Within(f, g)
  PROVE  Queued(p, g, n)
BY DEF Queued, Filled, Within

LEMMA MkProtQueued ==
  ASSUME NEW p, NEW f, NEW n, Queued(p, f, n), NEW m \in DOMAIN f, NEW row, row = f[m], NEW com
  PROVE  LET u == MkProt(p, row, m, com)
         IN  Queued(u, f, IF Room(p.num) THEN n + 1 ELSE n) /\ u.first # NIL /\ u.save[u.first] = row
<1> DEFINE u == MkProt(p, row, m, com)
           k == IF Room(p.num) THEN n + 1 ELSE n
<1>1. /\ Linked(p) /\ n \in Nat /\ p.num \in Nat /\ Counted(p.num, n) /\ Filled(p, n, f)
      /\ DOMAIN p.tbl = Slots /\ DOMAIN p.save = Slots
  BY DEF Queued, Linked
<1>2. PICK q : Chain(p, q, n)
  BY DEF Queued
<1>3. \A i \in 1 .. n : i \in Slots
  BY <1>1, <1>2, SizesAre DEF Chain, Order, Slots
<1>4. CASE Room(p.num)
  <2>1. p.num = n /\ n + 1 \in Slots
    BY <1>1, <1>4, SizesAre DEF Counted, Room, Slots
  <2>2. /\ Linked(u) /\ u.num = p.num + 1 /\ u.first = n + 1
        /\ u.tbl = [p.tbl EXCEPT ![n + 1] = m] /\ u.save = [p.save EXCEPT ![n + 1] = row]
        /\ Chain(u, ToFront(q, n + 1, n + 1, n + 1), n + 1)
    BY <1>1, <1>2, <1>4, <2>1, MkProtAdds
  <2> HIDE DEF u
  <2>3. Filled(u, n + 1, f)
    <3> SUFFICES ASSUME NEW i \in 1 .. n + 1
                 PROVE  u.tbl[i] \in DOMAIN f /\ u.save[i] = f[u.tbl[i]]
      BY DEF Filled
    <3>1. CASE i = n + 1
      BY <1>1, <2>1, <2>2, <3>1
    <3>2. CASE i # n + 1
      <4>1. i \in 1 .. n /\ i \in Slots
        BY <1>1, <1>3, <3>2
      <4> QED
        BY <1>1, <2>2, <3>2, <4>1 DEF Filled
    <3> QED
      BY <3>1, <3>2
  <2>4. Counted(u.num, n + 1) /\ n + 1 \in Nat
    BY <1>1, <1>4, <2>2, CountedOn
  <2>5. u.save[u.first] = row /\ u.first # NIL
    BY <1>1, <2>1, <2>2, SizesAre DEF NIL, Slots
  <2> QED
    BY <1>4, <2>2, <2>3, <2>4, <2>5 DEF Queued, u
<1>5. CASE ~Room(p.num)
  <2>1. n >= 2
    BY <1>1, <1>5 DEF Counted
  <2>2. /\ Linked(u) /\ u.num = p.num + 1 /\ u.first = q[n]
        /\ u.tbl = [p.tbl EXCEPT ![q[n]] = m] /\ u.save = [p.save EXCEPT ![q[n]] = row]
        /\ Chain(u, ToFront(q, n, n, q[n]), n)
    BY <1>1, <1>2, <1>5, <2>1, MkProtReuses
  <2> HIDE DEF u
  <2>3. q[n] \in Slots /\ q[n] # NIL
    <3>1. \A i \in 1 .. n : q[i] \in Slots /\ q[i] # NIL
      BY <1>1, <1>2, InSlots
    <3>2. n \in 1 .. n
      BY <1>1, <2>1
    <3> QED
      BY <3>1, <3>2
  <2>4. Filled(u, n, f)
    <3> SUFFICES ASSUME NEW i \in 1 .. n
                 PROVE  u.tbl[i] \in DOMAIN f /\ u.save[i] = f[u.tbl[i]]
      BY DEF Filled
    <3>1. i \in Slots
      BY <1>3
    <3>2. CASE i = q[n]
      BY <1>1, <2>2, <2>3, <3>2
    <3>3. CASE i # q[n]
      BY <1>1, <2>2, <3>1, <3>3 DEF Filled
    <3> QED
      BY <3>2, <3>3
  <2>5. Counted(u.num, n)
    BY <1>1, <1>5, <2>2, CountedOn
  <2>6. u.save[u.first] = row /\ u.first # NIL
    BY <1>1, <2>2, <2>3
  <2> QED
    BY <1>1, <1>5, <2>2, <2>4, <2>5, <2>6 DEF Queued, u
<1> QED
  BY <1>4, <1>5

LEMMA Mv2frontQueued ==
  ASSUME NEW p, NEW f, NEW n, Queued(p, f, n), NEW e \in 1 .. n
  PROVE  Queued(Mv2front(p, e), f, n)
<1> DEFINE u == Mv2front(p, e)
<1>1. Linked(p) /\ n \in Nat /\ Counted(p.num, n) /\ Filled(p, n, f)
  BY DEF Queued
<1>2. PICK q : Chain(p, q, n)
  BY DEF Queued
<1>3. /\ Linked(u) /\ u.num = p.num /\ u.tbl = p.tbl /\ u.save = p.save
      /\ \E r : Chain(u, r, n)
  BY <1>1, <1>2, Mv2frontIs
<1> HIDE DEF u
<1>4. Filled(u, n, f)
  BY <1>1, <1>3 DEF Filled
<1> QED
  BY <1>1, <1>3, <1>4 DEF Queued, u

LEMMA AppendIsSeq ==
  ASSUME NEW s, IsSeq(s), NEW e
  PROVE  /\ IsSeq(Append(s, e)) /\ Len(s) \in Nat /\ Len(Append(s, e)) = Len(s) + 1
         /\ Append(s, e)[Len(s) + 1] = e /\ \A k \in 1 .. Len(s) : Append(s, e)[k] = s[k]
<1> DEFINE W == Range(s) \cup {e}
           u == Append(s, e)
<1>1. s \in Seq(W) /\ e \in W
  BY DEF IsSeq
<1> HIDE DEF W
<1>2. /\ u \in Seq(W) /\ Len(s) \in Nat /\ Len(u) = Len(s) + 1
      /\ u[Len(s) + 1] = e /\ \A k \in 1 .. Len(s) : u[k] = s[k]
  BY <1>1
<1> HIDE DEF u
<1>3. u \in [1 .. Len(u) -> Range(u)] /\ Len(u) \in Nat
  BY <1>2 DEF Range
<1>4. u \in Seq(Range(u))
  BY <1>3, SeqDef
<1> QED
  BY <1>2, <1>4 DEF IsSeq, u

\* t is s, or s and more.
Grows(s, t) ==
  /\ IsSeq(t) /\ Len(s) \in Nat /\ Len(t) \in Nat /\ Len(s) <= Len(t)
  /\ \A k \in 1 .. Len(s) : t[k] = s[k]

LEMMA AppendGrows ==
  ASSUME NEW s, IsSeq(s), NEW t, t = s \/ \E e : t = Append(s, e)
  PROVE  Grows(s, t)
<1>1. CASE t = s
  BY <1>1 DEF Grows, IsSeq
<1>2. ASSUME NEW e, t = Append(s, e) PROVE Grows(s, t)
  BY <1>2, AppendIsSeq DEF Grows
<1> QED
  BY <1>1, <1>2

\* What is named goes on to have its row.
LEMMA ContentWithin ==
  ASSUME Grows(rows, rows'), Grows(tnxt, tnxt'), nultrans' = nultrans
  PROVE  Within(Content, Content')
<1> SUFFICES ASSUME NEW m \in Named PROVE m \in Named' /\ Content'[m] = Content[m]
  BY DEF Within, Content
<1>1. CASE m \in 1 .. Len(rows)
  <2>1. m \in 1 .. Len(rows') /\ ~(m < 0) /\ rows'[m] = rows[m]
    BY <1>1 DEF Grows
  <2>2. m \in Named'
    BY <2>1 DEF Named
  <2> QED
    BY <2>1, <2>2 DEF Content, Row
<1>2. ASSUME NEW k \in 1 .. Len(tnxt), m = -k PROVE m \in Named' /\ Content'[m] = Content[m]
  <2>1. k \in 1 .. Len(tnxt') /\ m < 0 /\ -m = k /\ tnxt'[k] = tnxt[k]
    BY <1>2 DEF Grows
  <2>2. m \in Named'
    BY <1>2, <2>1 DEF Named
  <2> QED
    BY <2>1, <2>2 DEF Content
<1> QED
  BY <1>1, <1>2 DEF Named

LEMMA InitProtos == ASSUME Init PROVE ProtosOK
<1>1. rows = <<>> /\ tnxt = <<>> /\ prot = NoProtos
  BY DEF Init
<1>2. IsSeq(rows) /\ IsSeq(tnxt)
  BY <1>1 DEF IsSeq
<1>3. Linked(prot)
  BY <1>1, SizesAre DEF NoProtos, Linked, ProtoFields, Slots, NIL
<1>4. Counted(prot.num, 0)
  BY <1>1, RoomIs DEF NoProtos, Counted
<1>5. Filled(prot, 0, Content)
  BY DEF Filled
<1>6. Chain(prot, [k \in 1 .. 0 |-> 1], 0)
  BY <1>1, SizesAre DEF NoProtos, Chain, Order, Ends, Links, NIL
<1>7. Queued(prot, Content, 0)
  BY <1>3, <1>4, <1>5, <1>6 DEF Queued
<1> QED
  BY <1>2, <1>7 DEF ProtosOK

\* The actions that leave the queue alone.
LEMMA SameProtos ==
  ASSUME ProtosOK, prot' = prot, tnxt' = tnxt, nultrans' = nultrans,
         rows' = rows \/ \E e : rows' = Append(rows, e)
  PROVE  ProtosOK'
<1>1. Grows(rows, rows') /\ Grows(tnxt, tnxt')
  BY AppendGrows DEF ProtosOK
<1>2. Within(Content, Content')
  BY <1>1, ContentWithin
<1>3. PICK n \in Nat : Queued(prot, Content, n)
  BY DEF ProtosOK
<1>4. Queued(prot, Content', n)
  BY <1>2, <1>3, QueuedWithin
<1>5. Queued(prot', Content', n)
  BY <1>4
<1> QED
  BY <1>1, <1>5 DEF ProtosOK, Grows

LEMMA NewProtoQueued ==
  ASSUME ProtosOK, NEW r, NEW over, NewProto(r, over) PROVE ProtosOK'
<1>1. /\ rows' = Append(rows, r.to) /\ tnxt' = tnxt /\ nultrans' = nultrans
      /\ prot' = MkProt(prot, Row(r), ds, Com(r))
  BY DEF NewProto, Compressed, Given, options
<1>2. Grows(rows, rows') /\ Grows(tnxt, tnxt')
  BY <1>1, AppendGrows DEF ProtosOK
<1>3. PICK n \in Nat : Queued(prot, Content', n)
  BY <1>1, <1>2, ContentWithin, QueuedWithin DEF ProtosOK
<1>4. ds \in Named' /\ ~(ds < 0) /\ rows'[ds] = r.to
  <2>1. /\ Len(rows) \in Nat /\ Len(rows') = Len(rows) + 1 /\ rows'[Len(rows) + 1] = r.to
    BY <1>1, AppendIsSeq DEF ProtosOK
  <2>2. ds # EobState
    BY DEF NewProto, Compressed
  <2> QED
    BY <2>1, <2>2 DEF Named, ds
<1>5. ds \in DOMAIN Content' /\ Content'[ds] = Row(r)
  BY <1>1, <1>4 DEF Content, Row
<1>6. Queued(prot', Content', IF Room(prot.num) THEN n + 1 ELSE n)
  BY <1>1, <1>3, <1>5, MkProtQueued
<1> QED
  BY <1>2, <1>6 DEF ProtosOK, Grows

LEMMA MkTemplateQueued ==
  ASSUME ProtosOK, NEW r, MkTemplate(r) PROVE ProtosOK'
<1>1. /\ rows' = Append(rows, r.to) /\ tnxt' = Append(tnxt, TemplateRow(r)) /\ nultrans' = nultrans
      /\ prot' = MkProt(prot, TemplateRow(r), -Len(tnxt'), Com(r))
  BY DEF MkTemplate, Compressed, Given, options
<1>2. Grows(rows, rows') /\ Grows(tnxt, tnxt')
  BY <1>1, AppendGrows DEF ProtosOK
<1>3. PICK n \in Nat : Queued(prot, Content', n)
  BY <1>1, <1>2, ContentWithin, QueuedWithin DEF ProtosOK
<1>4. PICK m : m = -Len(tnxt')
  OBVIOUS
<1>5. m \in Named' /\ m < 0 /\ tnxt'[-m] = TemplateRow(r)
  <2>1. /\ Len(tnxt) \in Nat /\ Len(tnxt') = Len(tnxt) + 1
        /\ tnxt'[Len(tnxt) + 1] = TemplateRow(r)
    BY <1>1, AppendIsSeq DEF ProtosOK
  <2>2. Len(tnxt') \in 1 .. Len(tnxt') /\ m < 0 /\ -m = Len(tnxt')
    BY <1>4, <2>1
  <2> QED
    BY <1>4, <2>1, <2>2 DEF Named
<1>6. m \in DOMAIN Content' /\ Content'[m] = TemplateRow(r)
  BY <1>5 DEF Content
<1>7. prot' = MkProt(prot, TemplateRow(r), m, Com(r))
  BY <1>1, <1>4
<1>8. Queued(prot', Content', IF Room(prot.num) THEN n + 1 ELSE n)
  BY <1>3, <1>6, <1>7, MkProtQueued
<1> QED
  BY <1>2, <1>8 DEF ProtosOK, Grows

LEMMA Sizes2 ==
  ASSUME NEW S, S \subseteq Ecs PROVE Cardinality(S) \in Nat
<1>1. IsFiniteSet(Ecs)
  BY FS_Interval, SizesAre DEF Ecs
<1> QED
  BY <1>1, FS_Subset, FS_CardinalityType

\* bldtbl() has a proto to take when the row is not unlike all of them.
LEMMA BestInQueue ==
  ASSUME NEW n, Queued(prot, Content, n), NEW r, ~TooFew(r), ~Unlike(r)
  PROVE  /\ Best(r).slot \in 1 .. n
         /\ Best(r).diff = Differences(Row(r), prot.save[Best(r).slot])
<1> DEFINE q == Queue(prot)
           total == Total(r)
           D(k) == Differences(Row(r), prot.save[q[k]])
           same == {k \in DOMAIN q : prot.comst[q[k]] = Com(r)}
           k0 == IF CheckCom(r) /\ same # {} THEN Min(same) ELSE 1
           diff0 == IF q = <<>> \/ (CheckCom(r) /\ same = {}) THEN total ELSE D(k0)
           better == IF diff0 * 100 > total * FIRST_MATCH_DIFF_PERCENTAGE
                     THEN {k \in k0 .. Len(q) : D(k) < diff0} ELSE {}
           best == {k \in better : \A i \in better : D(k) <= D(i)}
<1>1. Best(r) = IF better # {} THEN [slot |-> q[Min(best)], diff |-> D(Min(best))]
                ELSE [slot |-> IF q = <<>> THEN NIL ELSE q[k0], diff |-> diff0]
  BY DEF Best, Chosen
<1>2. Linked(prot) /\ n \in Nat
  BY DEF Queued
<1>3. q \in Seq(Slots) /\ Len(q) = n /\ DOMAIN q = 1 .. n /\ \A k \in 1 .. n : q[k] \in 1 .. n
  <2>1. PICK c : Chain(prot, c, n)
    BY DEF Queued
  <2>2. c \in Seq(Slots) /\ Len(c) = n /\ q = c
    BY <1>2, <2>1, QueueIs
  <2> QED
    BY <2>1, <2>2 DEF Chain, Order
<1>4. total \in Nat /\ total # 0
  <2>1. total \in Nat
    BY Sizes2 DEF Total, Symbols
  <2>2. numecs * PROTO_SIZE_PERCENTAGE > 0
    BY SizesAre, ThresholdsAssumption
  <2>3. ~(total * 100 < numecs * PROTO_SIZE_PERCENTAGE)
    BY DEF TooFew
  <2>4. numecs * PROTO_SIZE_PERCENTAGE \in Int
    BY SizesAre, ThresholdsAssumption
  <2> HIDE DEF total
  <2> QED
    BY <2>1, <2>2, <2>3, <2>4
<1>5. \A k : D(k) \in Nat
  BY Sizes2 DEF Differences
<1>6. same \subseteq 1 .. n
  BY <1>3
<1>7. n # 0 => k0 \in 1 .. n
  <2>1. CASE same # {}
    <3> HIDE DEF same
    <3>1. same \subseteq Int /\ same # {} /\ 1 \in Int /\ \A y \in same : 1 <= y
      BY <1>2, <1>6, <2>1
    <3>2. Min(same) \in same
      BY <3>1, MinIs
    <3>3. Min(same) \in 1 .. n
      BY <1>6, <3>2
    <3> QED
      BY <1>2, <2>1, <3>3
  <2>2. CASE same = {}
    BY <1>2, <2>2
  <2> QED
    BY <2>1, <2>2
<1>8. CASE better = {} /\ (n = 0 \/ (CheckCom(r) /\ same = {}))
  <2>1. diff0 = total
    BY <1>3, <1>8, EmptySeq
  <2>4. Best(r).diff = total
    <3> HIDE DEF better, best, k0, diff0, q, D, total
    <3> QED
      BY <1>1, <1>8, <2>1
  <2>5. ~(total * 100 > total * ACCEPTABLE_DIFF_PERCENTAGE)
    BY <2>4 DEF Unlike
  <2>6. PICK a \in 0 .. 99 : a = ACCEPTABLE_DIFF_PERCENTAGE
    BY ThresholdsAssumption
  <2> HIDE DEF total
  <2>7. total * 100 = total * a + total * (100 - a) /\ total * a \in Int /\ total * (100 - a) \in Int
    BY <1>4
  <2>8. total * (100 - a) > 0
    BY <1>4
  <2>9. total * 100 > total * a
    BY <2>7, <2>8
  <2> QED
    BY <2>5, <2>6, <2>9
<1>9. CASE n # 0 /\ better = {} /\ ~(CheckCom(r) /\ same = {})
  <2>1. q # <<>>
    BY <1>3, <1>9, EmptySeq
  <2>2. Best(r).slot = q[k0] /\ Best(r).diff = diff0
    <3> HIDE DEF better, best, k0, diff0, q, D
    <3> QED
      BY <1>1, <1>9, <2>1
  <2>3. diff0 = D(k0)
    BY <1>9, <2>1
  <2> HIDE DEF k0, diff0
  <2> QED
    BY <1>3, <1>7, <1>9, <2>2, <2>3 DEF q
<1>10. CASE n # 0 /\ better # {}
  <2>1. better \subseteq 1 .. n
    <3> HIDE DEF k0, diff0, D
    <3>1. better \subseteq k0 .. n
      BY <1>3
    <3> HIDE DEF better
    <3> QED
      BY <1>2, <1>7, <1>10, <3>1
  <2> HIDE DEF better
  <2> DEFINE V == {D(k) : k \in better}
  <2>2. V \subseteq Int /\ V # {} /\ 0 \in Int /\ \A y \in V : 0 <= y
    <3> HIDE DEF D
    <3> QED
      BY <1>5, <1>10
  <2>3. Min(V) \in V /\ \A y \in V : Min(V) <= y
    <3> HIDE DEF V
    <3> QED
      BY <2>2, MinIs
  <2>4. PICK k \in better : Min(V) = D(k)
    BY <2>3
  <2>5. k \in best
    BY <2>3, <2>4
  <2>7. best \subseteq 1 .. n
    BY <2>1
  <2> HIDE DEF best
  <2>6. best \subseteq Int /\ best # {} /\ 1 \in Int /\ \A y \in best : 1 <= y
    BY <1>2, <2>5, <2>7
  <2>8. Min(best) \in best
    BY <2>6, MinIs
  <2>9. Best(r).slot = q[Min(best)] /\ Best(r).diff = D(Min(best))
    BY <1>1, <1>10
  <2> QED
    BY <1>3, <2>7, <2>8, <2>9
<1>11. n = 0 => better = {}
  BY <1>3
<1> QED
  BY <1>8, <1>9, <1>10, <1>11

LEMMA UseProtoQueued ==
  ASSUME ProtosOK, NEW r, UseProto(r) PROVE ProtosOK'
<1> DEFINE e == Best(r).slot
           p == IF Best(r).diff * 100 >= Total(r) * NEW_PROTO_DIFF_PERCENTAGE
                THEN MkProt(prot, Row(r), ds, Com(r)) ELSE prot
<1>1. /\ rows' = Append(rows, r.to) /\ tnxt' = tnxt /\ nultrans' = nultrans
      /\ prot' = Mv2front(p, e) /\ ~TooFew(r) /\ ~Unlike(r)
  BY DEF UseProto, Compressed, Given, options
<1>2. Grows(rows, rows') /\ Grows(tnxt, tnxt')
  BY <1>1, AppendGrows DEF ProtosOK
<1>3. PICK n \in Nat : Queued(prot, Content, n)
  BY DEF ProtosOK
<1>4. e \in 1 .. n
  BY <1>1, <1>3, BestInQueue
<1>5. Queued(prot, Content', n)
  BY <1>1, <1>2, <1>3, ContentWithin, QueuedWithin
<1>6. ds \in Named' /\ ~(ds < 0) /\ rows'[ds] = r.to
  <2>1. /\ Len(rows) \in Nat /\ Len(rows') = Len(rows) + 1 /\ rows'[Len(rows) + 1] = r.to
    BY <1>1, AppendIsSeq DEF ProtosOK
  <2>2. ds # EobState
    BY DEF UseProto, Compressed
  <2> QED
    BY <2>1, <2>2 DEF Named, ds
<1>7. ds \in DOMAIN Content' /\ Content'[ds] = Row(r)
  BY <1>1, <1>6 DEF Content, Row
<1>8. \E k \in Nat : k >= n /\ Queued(p, Content', k)
  <2>1. CASE p = prot
    BY <1>3, <1>5, <2>1
  <2>2. CASE p = MkProt(prot, Row(r), ds, Com(r))
    <3>1. Queued(p, Content', IF Room(prot.num) THEN n + 1 ELSE n)
      BY <1>5, <1>7, <2>2, MkProtQueued
    <3> HIDE DEF p
    <3>2. CASE Room(prot.num)
      BY <1>3, <3>1, <3>2
    <3>3. CASE ~Room(prot.num)
      BY <1>3, <3>1, <3>3
    <3> QED
      BY <3>2, <3>3
  <2> QED
    BY <2>1, <2>2
<1> HIDE DEF p, e
<1>9. PICK k \in Nat : k >= n /\ Queued(p, Content', k)
  BY <1>8
<1>10. e \in 1 .. k
  BY <1>3, <1>4, <1>9
<1>11. Queued(prot', Content', k)
  BY <1>1, <1>9, <1>10, Mv2frontQueued
<1> QED
  BY <1>2, <1>11 DEF ProtosOK, Grows

LEMMA StepProtos == ASSUME ProtosOK, [Next]_vars PROVE ProtosOK'
<1>1. CASE UNCHANGED vars
  BY <1>1, SameProtos DEF vars
<1>2. CASE EndOfBufferState
  BY <1>2, SameProtos DEF EndOfBufferState, Given, options
<1>3. ASSUME NEW r \in Rows, NEW over \in Behind(r), SmallState(r, over) PROVE ProtosOK'
  BY <1>3, SameProtos DEF SmallState, Compressed, Given, options
<1>4. ASSUME NEW r \in Rows, NEW over \in Behind(r), NewProto(r, over) PROVE ProtosOK'
  BY <1>4, NewProtoQueued
<1>5. ASSUME NEW r \in Rows, MkTemplate(r) PROVE ProtosOK'
  BY <1>5, MkTemplateQueued
<1>6. ASSUME NEW r \in Rows, UseProto(r) PROVE ProtosOK'
  BY <1>6, UseProtoQueued
<1>7. ASSUME NEW r \in Rows, FullRow(r) PROVE ProtosOK'
  BY <1>7, SameProtos DEF FullRow, Given, options
<1>8. ASSUME NEW r \in Rows, PlaceState(r) PROVE ProtosOK'
  BY <1>8, SameProtos DEF PlaceState, Given, options
<1>9. CASE RowsEnd
  BY <1>9, SameProtos DEF RowsEnd, options
<1>10. CASE Cmptmps
  BY <1>10, SameProtos DEF Cmptmps, options
<1>11. CASE OneTransition
  BY <1>11, SameProtos DEF OneTransition, options
<1>12. CASE Mkdeftbl
  BY <1>12, SameProtos DEF Mkdeftbl, options
<1>13. CASE Gentabs
  BY <1>13, SameProtos DEF Gentabs, options
<1>14. CASE PlaceState0
  BY <1>14, SameProtos DEF PlaceState0, options
<1>15. CASE Genctbl
  BY <1>15, SameProtos DEF Genctbl, options
<1>16. CASE Terminated
  BY <1>16, SameProtos DEF Terminated, vars
<1> QED
  BY <1>1, <1>2, <1>3, <1>4, <1>5, <1>6, <1>7, <1>8, <1>9, <1>10, <1>11, <1>12, <1>13, <1>14,
     <1>15, <1>16 DEF Next

LEMMA ProtosCurrent == ASSUME ProtosOK PROVE ProtosAreCurrent
<1> DEFINE q == Queue(prot)
           RowOf(m) == IF m < 0 THEN tnxt[-m] ELSE Row([to |-> rows[m]])
<1>1. PICK n \in Nat : Queued(prot, Content, n)
  BY DEF ProtosOK
<1>2. PICK c : Chain(prot, c, n)
  BY <1>1 DEF Queued
<1>3. Linked(prot) /\ Filled(prot, n, Content)
  BY <1>1 DEF Queued
<1>4. q \in Seq(Slots) /\ Len(q) = n /\ DOMAIN q = 1 .. n /\ q = c
  <2>1. c \in Seq(Slots) /\ Len(c) = n /\ q = c
    BY <1>2, <1>3, QueueIs
  <2> QED
    BY <2>1
<1> HIDE DEF q
<1>5. \A k, l \in DOMAIN q : q[k] = q[l] => k = l
  BY <1>2, <1>4 DEF Chain, Order
<1>6. q # <<>> => Last(q) = prot.last
  <2>1. q # <<>> => n # 0
    BY <1>4, EmptySeq
  <2> QED
    BY <1>2, <1>4, <2>1 DEF Chain, Ends, Last
<1>7. \A k \in 2 .. Len(q) : prot.prev[q[k]] = q[k - 1]
  <2> SUFFICES ASSUME NEW k \in 2 .. n PROVE prot.prev[q[k]] = q[k - 1]
    BY <1>4
  <2>1. k - 1 \in 1 .. n - 1 /\ k - 1 + 1 = k
    OBVIOUS
  <2> QED
    BY <1>2, <1>4, <2>1 DEF Chain, Links
<1>8. \A k \in DOMAIN q : prot.save[q[k]] = RowOf(prot.tbl[q[k]])
  <2> SUFFICES ASSUME NEW k \in 1 .. n PROVE prot.save[q[k]] = RowOf(prot.tbl[q[k]])
    BY <1>4
  <2>1. q[k] \in 1 .. n
    BY <1>2, <1>4 DEF Chain, Order
  <2>2. prot.tbl[q[k]] \in Named /\ prot.save[q[k]] = Content[prot.tbl[q[k]]]
    BY <1>3, <2>1 DEF Filled, Content
  <2> QED
    BY <2>2 DEF Content
<1> QED
  BY <1>5, <1>6, <1>7, <1>8 DEF ProtosAreCurrent, q

\* Whatever rows come in whatever order: the links of mkprot() and mv2front() form
\* one chain, the same in both directions, whose end is the last proto, and each
\* slot in it still holds the row of the state or template it is named for, so
\* that bldtbl() never writes a difference to a row that is no longer there.
THEOREM ProtosHold == Spec => []ProtosAreCurrent
BY InitProtos, StepProtos, ProtosCurrent, PTL DEF Spec

----------------------------------------------------------------------------
(* What the tables hold for a state or a template x                        *)

Classes == 0 .. numecs + 1   \* the last for what mkentry() may find behind a row

Waits(t, x) == \E k \in DOMAIN t.one : t.one[k].state = x
Waiter(t, x) == t.one[CHOOSE k \in DOMAIN t.one : t.one[k].state = x]
Has(t, x, c) ==
  t.base[x] # JAMSTATE /\ t.base[x] + c \in DOMAIN t.chk /\ t.chk[t.base[x] + c] = x

\* Its entries, in the arrays or on the one-stack, its default, and whether it
\* has nothing but the default to jam.
Entries(t, x) ==
  IF Waits(t, x) THEN [c \in {Waiter(t, x).sym} |-> Waiter(t, x).next]
  ELSE [c \in {e \in Classes : Has(t, x, e)} |-> t.nxt[t.base[x] + c]]
Default(t, x) == IF Waits(t, x) THEN Waiter(t, x).def ELSE t.def[x]
Jammed(t, x) == ~Waits(t, x) /\ t.base[x] = JAMSTATE

Same(t, u, x) ==
  /\ Entries(u, x) = Entries(t, x) /\ Default(u, x) = Default(t, x)
  /\ Jammed(u, x) <=> Jammed(t, x)

\* The arrays reach behind tblend, so that the searches stop inside.
Behaved(t) ==
  /\ DOMAIN t.base = AllStates /\ DOMAIN t.def = AllStates
  /\ \A x \in AllStates : t.base[x] \in 0 .. t.tblend \cup {JAMSTATE}
  /\ t.firstfree \in 1 .. t.tblend + 1
  /\ t.size >= 1 /\ (t.tblend > 0 => t.size >= t.tblend + 2)
  /\ t.chk[0] = 0 /\ Len(t.one) < ONE_STACK_SIZE

\* What is in the arrays or waits belongs to one of the states and templates L.
Owned(t, L) ==
  /\ \A k \in DOMAIN t.one : t.one[k].state \in L /\ t.one[k].sym \in Classes
  /\ \A k, l \in DOMAIN t.one : t.one[k].state = t.one[l].state => k = l
  /\ \A a \in DOMAIN t.chk : t.chk[a] # 0 => t.chk[a] \in L /\ ~Waits(t, t.chk[a])
Sound(t, L) == Arrays(t) /\ Behaved(t) /\ Owned(t, L)

\* u is t with the entries E for x in the arrays, from b on.
Wrote(t, u, x, b, d, E) ==
  /\ u.base = [t.base EXCEPT ![x] = b] /\ u.def = [t.def EXCEPT ![x] = d]
  /\ \A c \in DOMAIN E : /\ c \in Classes /\ b + c \in DOMAIN u.chk
                         /\ u.chk[b + c] = x /\ u.nxt[b + c] = E[c]
  /\ \A a \in DOMAIN t.chk : t.chk[a] # 0 =>
       a \in DOMAIN u.chk /\ u.chk[a] = t.chk[a] /\ u.nxt[a] = t.nxt[a]
  /\ \A a \in DOMAIN u.chk : u.chk[a] # 0 =>
       \/ a \in DOMAIN t.chk /\ u.chk[a] = t.chk[a]
       \/ u.chk[a] = x /\ \E c \in DOMAIN E : a = b + c
  /\ b = JAMSTATE => DOMAIN E = {}

LEMMA JamIs == JAMSTATE \in Int /\ JAMSTATE < 0 /\ numecs \in Nat /\ numecs > 0 /\ lastdfa \in Nat
BY SizesAssumption DEF JAMSTATE

\* The others keep what they have, and x has E.
LEMMA WroteGives ==
  ASSUME NEW t, NEW u, NEW L, Owned(t, L), DOMAIN t.base = AllStates, DOMAIN t.def = AllStates,
         \A y \in AllStates : t.base[y] \in Int,
         NEW x \in AllStates, x # 0, NEW b \in Int, NEW d, NEW E, E = [c \in DOMAIN E |-> E[c]],
         Wrote(t, u, x, b, d, E), \A a \in DOMAIN t.chk : t.chk[a] # x,
         ~Waits(u, x),
         \A y \in AllStates : y # x => (Waits(u, y) <=> Waits(t, y)),
         \A y \in AllStates : Waits(u, y) => Waiter(u, y) = Waiter(t, y)
  PROVE  /\ Entries(u, x) = E /\ Default(u, x) = d /\ (Jammed(u, x) <=> b = JAMSTATE)
         /\ \A y \in AllStates \ {0, x} : Same(t, u, y)
<1>1. u.base[x] = b /\ u.def[x] = d
  BY DEF Wrote
<1>2. ASSUME NEW c \in Classes PROVE Has(u, x, c) <=> c \in DOMAIN E
  <2>1. c \in Int
    BY JamIs DEF Classes
  <2>2. ASSUME c \in DOMAIN E PROVE Has(u, x, c)
    BY <1>1, <2>2 DEF Has, Wrote
  <2>3. ASSUME Has(u, x, c) PROVE c \in DOMAIN E
    <3>1. b + c \in DOMAIN u.chk /\ u.chk[b + c] = x
      BY <1>1, <2>3 DEF Has
    <3>2. PICK e \in DOMAIN E : b + c = b + e
      BY <3>1 DEF Wrote
    <3>3. e \in Int
      BY <3>2, JamIs DEF Wrote, Classes
    <3> QED
      BY <2>1, <3>2, <3>3
  <2> QED
    BY <2>2, <2>3
<1>3. Entries(u, x) = E
  <2>1. {c \in Classes : Has(u, x, c)} = DOMAIN E
    BY <1>2 DEF Wrote
  <2>2. Entries(u, x) = [c \in DOMAIN E |-> u.nxt[b + c]]
    BY <1>1, <2>1 DEF Entries
  <2> QED
    BY <2>2 DEF Wrote
<1>4. ASSUME NEW y \in AllStates \ {0, x} PROVE Same(t, u, y)
  <2>1. u.base[y] = t.base[y] /\ u.def[y] = t.def[y]
    BY <1>4 DEF Wrote
  <2>2. ASSUME NEW c PROVE Has(u, y, c) <=> Has(t, y, c)
    BY <1>4, <2>1 DEF Has, Wrote
  <2>3. ASSUME NEW c, Has(t, y, c) PROVE u.nxt[u.base[y] + c] = t.nxt[t.base[y] + c]
    BY <1>4, <2>1, <2>3 DEF Has, Wrote
  <2>4. (Waits(u, y) <=> Waits(t, y)) /\ (Waits(u, y) => Waiter(u, y) = Waiter(t, y))
    BY <1>4
  <2>5. Entries(u, y) = Entries(t, y)
    <3>1. CASE Waits(u, y)
      BY <2>4, <3>1 DEF Entries
    <3>2. CASE ~Waits(u, y)
      <4>1. {e \in Classes : Has(u, y, e)} = {e \in Classes : Has(t, y, e)}
        BY <2>2
      <4>2. [c \in {e \in Classes : Has(t, y, e)} |-> u.nxt[u.base[y] + c]]
              = [c \in {e \in Classes : Has(t, y, e)} |-> t.nxt[t.base[y] + c]]
        BY <2>3
      <4> QED
        BY <2>4, <3>2, <4>1, <4>2 DEF Entries
    <3> QED
      BY <3>1, <3>2
  <2> QED
    BY <2>1, <2>4, <2>5 DEF Same, Default, Jammed
<1> QED
  BY <1>1, <1>3, <1>4 DEF Default, Jammed

LEMMA WroteOwned ==
  ASSUME NEW t, NEW u, NEW L, Owned(t, L), NEW x, NEW b, NEW d, NEW E,
         Wrote(t, u, x, b, d, E), ~Waits(u, x),
         \A k \in DOMAIN u.one : k \in DOMAIN t.one /\ u.one[k] = t.one[k]
  PROVE  Owned(u, L \cup {x})
<1>1. \A y : Waits(u, y) => Waits(t, y)
  BY DEF Waits
<1>2. ASSUME NEW a \in DOMAIN u.chk, u.chk[a] # 0
      PROVE  u.chk[a] \in L \cup {x} /\ ~Waits(u, u.chk[a])
  <2>1. CASE u.chk[a] = x
    BY <2>1
  <2>2. CASE a \in DOMAIN t.chk /\ u.chk[a] = t.chk[a]
    BY <1>1, <1>2, <2>2 DEF Owned
  <2> QED
    BY <1>2, <2>1, <2>2 DEF Wrote
<1>3. \A k \in DOMAIN u.one : u.one[k].state \in L \cup {x} /\ u.one[k].sym \in Classes
  BY DEF Owned
<1>4. \A k, l \in DOMAIN u.one : u.one[k].state = u.one[l].state => k = l
  BY DEF Owned
<1> QED
  BY <1>2, <1>3, <1>4 DEF Owned

LEMMA GrownKeeps ==
  \A t, n : /\ Grown(t, n).base = t.base /\ Grown(t, n).def = t.def
BY DEF Grown


\* What Extends() says, place by place.
LEMMA ExtendsIs ==
  ASSUME NEW t, Shaped(t), NEW g, Extends(g, t), t.size > t.tblend
  PROVE  /\ DOMAIN g.chk = 0 .. g.size - 1 /\ DOMAIN g.nxt = 0 .. g.size - 1 /\ g.size \in Nat
         /\ \A a \in DOMAIN t.chk : a \in DOMAIN g.chk /\ g.chk[a] = t.chk[a] /\ g.nxt[a] = t.nxt[a]
         /\ \A a \in DOMAIN g.chk : g.chk[a] # 0 => a \in DOMAIN t.chk
BY DEF Extends, Shaped, EmptyBehind

LEMMA BehavedSize == ASSUME NEW t, Behaved(t), Shaped(t) PROVE t.size > t.tblend
BY DEF Behaved, Shaped

\* mk1tbl() writes one entry.
LEMMA Mk1tblWrites ==
  ASSUME NEW t, NEW L, Sound(t, L), NEW x \in AllStates, x # 0, NEW sym \in Classes,
         NEW onenxt, NEW onedef, NEW E, E = [c \in {sym} |-> onenxt]
  PROVE  LET u == Mk1tbl(t, x, sym, onenxt, onedef)
         IN  /\ Shaped(u) /\ EmptyBehind(u) /\ u.one = t.one /\ Behaved(u)
             /\ \E b \in Nat : Wrote(t, u, x, b, onedef, E)
<1> DEFINE from == Larger(t.firstfree, sym)
           a == IF from >= t.size THEN from + 1 ELSE Min(FreeFrom(t, from))
           n == IF a > t.tblend THEN a + 2 ELSE a + 1
           g == Grown(t, n)
           u == Mk1tbl(t, x, sym, onenxt, onedef)
<1>1. Shaped(t) /\ EmptyBehind(t) /\ Behaved(t) /\ Arrays(t)
  BY DEF Sound, Arrays
<1>2. sym \in Nat /\ t.size \in Nat /\ t.firstfree \in Nat /\ t.firstfree >= 1 /\ t.tblend \in Nat
      /\ t.size > t.tblend /\ t.size >= 1
  <2>1. sym \in Nat
    BY JamIs DEF Classes
  <2> QED
    BY <1>1, <2>1, BehavedSize DEF Shaped, Behaved
<1>3. from \in Nat /\ from >= 1 /\ from >= sym
  BY <1>2 DEF Larger
<1>4. a \in Nat /\ Free(t, a) /\ a >= from
  <2>1. CASE from >= t.size
    BY <1>2, <1>3, <2>1 DEF Free
  <2>2. CASE ~(from >= t.size)
    BY <1>1, <1>3, <2>2, FreeFromIs
  <2> QED
    BY <2>1, <2>2
<1>5. u = [g EXCEPT !.base[x] = a - sym, !.def[x] = onedef,
                    !.chk[a] = x, !.nxt[a] = onenxt,
                    !.firstfree = IF a > t.tblend THEN a + 1 ELSE a,
                    !.tblend = Larger(t.tblend, a)]
  BY DEF Mk1tbl
<1>6. Shaped(u) /\ EmptyBehind(u) /\ Keeps(t, u) /\ u.one = t.one
  <2>1. sym \in Nat
    BY <1>2
  <2> HIDE DEF u
  <2> QED
    BY <1>1, <2>1, Mk1tblFits DEF u
<1> HIDE DEF from, u, a
<1>7. a \in Nat /\ a >= 1 /\ a >= sym /\ n \in Int /\ n > a /\ (a > t.tblend => n = a + 2)
  BY <1>2, <1>3, <1>4
<1>8. Extends(g, t) /\ g.size >= n /\ Shaped(g) /\ g.one = t.one
  BY <1>1, <1>7, GrownFits DEF Extends
<1>9. g.base = t.base /\ g.def = t.def
  BY GrownKeeps
<1> HIDE DEF n, g
<1>10. /\ u.base = [t.base EXCEPT ![x] = a - sym] /\ u.def = [t.def EXCEPT ![x] = onedef]
       /\ u.size = g.size
       /\ u.chk = [g.chk EXCEPT ![a] = x] /\ u.nxt = [g.nxt EXCEPT ![a] = onenxt]
       /\ u.firstfree = IF a > t.tblend THEN a + 1 ELSE a
       /\ u.tblend = Larger(t.tblend, a)
  BY <1>5, <1>8, <1>9 DEF Shaped, Fields
<1>11. /\ DOMAIN g.chk = 0 .. g.size - 1 /\ DOMAIN g.nxt = 0 .. g.size - 1 /\ g.size \in Nat
       /\ \A c \in DOMAIN t.chk : c \in DOMAIN g.chk /\ g.chk[c] = t.chk[c] /\ g.nxt[c] = t.nxt[c]
       /\ \A c \in DOMAIN g.chk : g.chk[c] # 0 => c \in DOMAIN t.chk
  BY <1>1, <1>2, <1>8, ExtendsIs
<1>12. a \in DOMAIN g.chk /\ a \in DOMAIN g.nxt
  BY <1>7, <1>8, <1>11
<1>13. /\ u.tblend \in Nat /\ u.tblend >= t.tblend /\ u.tblend >= a
       /\ (u.tblend = a \/ (a <= t.tblend /\ u.tblend = t.tblend))
  BY <1>2, <1>7, <1>10 DEF Larger
<1>14. Behaved(u)
  <2>1. \A y \in AllStates : u.base[y] \in 0 .. u.tblend \cup {JAMSTATE}
    <3> SUFFICES ASSUME NEW y \in AllStates PROVE u.base[y] \in 0 .. u.tblend \cup {JAMSTATE}
      OBVIOUS
    <3>1. CASE y = x
      <4>1. u.base[y] = a - sym
        BY <1>1, <1>10, <3>1 DEF Behaved
      <4> QED
        BY <1>2, <1>7, <1>13, <4>1
    <3>2. CASE y # x
      <4>1. u.base[y] = t.base[y] /\ t.base[y] \in 0 .. t.tblend \cup {JAMSTATE}
        BY <1>1, <1>10, <3>2 DEF Behaved
      <4> QED
        BY <1>2, <1>13, <4>1
    <3> QED
      BY <3>1, <3>2
  <2>2. u.firstfree \in 1 .. u.tblend + 1
    BY <1>2, <1>7, <1>10, <1>13
  <2>3. u.size >= 1 /\ u.size >= u.tblend + 2
    <3>1. g.size >= t.size
      BY <1>8 DEF Extends
    <3>2. CASE a > t.tblend
      BY <1>2, <1>7, <1>8, <1>10, <1>11, <1>13, <3>2
    <3>3. CASE ~(a > t.tblend)
      BY <1>1, <1>2, <1>7, <1>10, <1>11, <1>13, <3>1, <3>3 DEF Behaved
    <3> QED
      BY <3>2, <3>3
  <2>4. u.chk[0] = 0
    <3>1. 0 \in DOMAIN t.chk
      BY <1>1, <1>2 DEF Shaped
    <3> QED
      BY <1>1, <1>7, <1>10, <1>11, <3>1 DEF Behaved
  <2> QED
    BY <1>1, <1>6, <1>10, <2>1, <2>2, <2>3, <2>4 DEF Behaved
<1>15. Wrote(t, u, x, a - sym, onedef, E)
  <2>1. a - sym + sym = a /\ a - sym # JAMSTATE
    BY <1>2, <1>7, JamIs
  <2>2. /\ a \in DOMAIN u.chk /\ u.chk[a] = x /\ u.nxt[a] = onenxt
    BY <1>10, <1>12
  <2>3. \A c \in DOMAIN t.chk : t.chk[c] # 0 =>
          c \in DOMAIN u.chk /\ u.chk[c] = t.chk[c] /\ u.nxt[c] = t.nxt[c]
    BY <1>6, <1>10, <1>11 DEF Keeps
  <2>4. \A c \in DOMAIN u.chk : u.chk[c] # 0 =>
          (c \in DOMAIN t.chk /\ u.chk[c] = t.chk[c]) \/ c = a
    BY <1>10, <1>11
  <2> QED
    BY <1>10, <2>1, <2>2, <2>3, <2>4 DEF Wrote
<1>16. a - sym \in Nat
  BY <1>2, <1>7
<1> QED
  BY <1>6, <1>14, <1>15, <1>16 DEF u

\* x has got the entries E and the default d, in the arrays or on the one-stack.
Gives(t, u, L, x, E, d, jam) ==
  /\ Sound(u, L \cup {x})
  /\ Entries(u, x) = E /\ Default(u, x) = d /\ (Jammed(u, x) <=> jam)
  /\ \A y \in AllStates \ {0, x} : Same(t, u, y)

LEMMA WaiterIs ==
  ASSUME NEW t, NEW L, Owned(t, L), NEW k \in DOMAIN t.one
  PROVE  Waits(t, t.one[k].state) /\ Waiter(t, t.one[k].state) = t.one[k]
BY DEF Owned, Waits, Waiter

LEMMA FreshIs ==
  ASSUME NEW t, NEW L, Owned(t, L), NEW x, x # 0, x \notin L
  PROVE  ~Waits(t, x) /\ \A a \in DOMAIN t.chk : t.chk[a] # x
BY DEF Owned, Waits

LEMMA SoundIs ==
  ASSUME NEW t, NEW L, Sound(t, L)
  PROVE  /\ Owned(t, L) /\ DOMAIN t.base = AllStates /\ DOMAIN t.def = AllStates
         /\ \A y \in AllStates : t.base[y] \in Int
BY JamIs DEF Sound, Behaved, Arrays, Shaped

LEMMA WroteSound ==
  ASSUME NEW t, NEW L, Sound(t, L), NEW x \in AllStates, x # 0, x \notin L,
         NEW u, Shaped(u), EmptyBehind(u), Behaved(u), u.one = t.one,
         NEW b \in Int, NEW d, NEW E, E = [c \in DOMAIN E |-> E[c]], Wrote(t, u, x, b, d, E)
  PROVE  Gives(t, u, L, x, E, d, b = JAMSTATE)
<1>1. Owned(t, L) /\ ~Waits(t, x) /\ \A a \in DOMAIN t.chk : t.chk[a] # x
  BY SoundIs, FreshIs
<1>2. \A y : (Waits(u, y) <=> Waits(t, y)) /\ Waiter(u, y) = Waiter(t, y)
  BY DEF Waits, Waiter
<1>3. Owned(u, L \cup {x})
  BY <1>1, <1>2, WroteOwned
<1>4. Sound(u, L \cup {x})
  BY <1>3 DEF Sound, Arrays, Waiting
<1>5. /\ Entries(u, x) = E /\ Default(u, x) = d /\ (Jammed(u, x) <=> b = JAMSTATE)
      /\ \A y \in AllStates \ {0, x} : Same(t, u, y)
  BY <1>1, <1>2, SoundIs, WroteGives
<1> QED
  BY <1>4, <1>5 DEF Gives

\* stack1()
LEMMA Stack1Gives ==
  ASSUME NEW t, NEW L, Sound(t, L), NEW x \in AllStates, x # 0, x \notin L,
         NEW sym \in Classes, NEW next, NEW def, NEW E, E = [c \in {sym} |-> next]
  PROVE  Gives(t, Stack1(t, x, sym, next, def), L, x, E, def, FALSE)
<1> DEFINE u == Stack1(t, x, sym, next, def)
           e == [state |-> x, sym |-> sym, next |-> next, def |-> def]
<1>1. CASE Len(t.one) >= ONE_STACK_SIZE - 1
  <2>1. u = Mk1tbl(t, x, sym, next, def)
    BY <1>1 DEF Stack1
  <2> HIDE DEF u
  <2>2. Shaped(u) /\ EmptyBehind(u) /\ u.one = t.one /\ Behaved(u)
        /\ \E b \in Nat : Wrote(t, u, x, b, def, E)
    BY <2>1, Mk1tblWrites
  <2>3. PICK b \in Nat : Wrote(t, u, x, b, def, E)
    BY <2>2
  <2> HIDE DEF u
  <2>4. E = [c \in DOMAIN E |-> E[c]]
    OBVIOUS
  <2>5. b \in Int /\ b # JAMSTATE
    BY JamIs
  <2>6. Gives(t, u, L, x, E, def, b = JAMSTATE)
    BY <2>2, <2>3, <2>4, <2>5, WroteSound
  <2> QED
    BY <2>5, <2>6 DEF u, Gives
<1>2. CASE ~(Len(t.one) >= ONE_STACK_SIZE - 1)
  <2>1. u = [t EXCEPT !.one = Append(@, e)]
    BY <1>2 DEF Stack1
  <2>2. Arrays(t) /\ Behaved(t) /\ Owned(t, L)
    BY DEF Sound
  <2>3. Arrays(u)
    BY <2>2, Stack1Fits, JamIs DEF Classes
  <2>4. /\ u.one = Append(t.one, e)
        /\ u.size = t.size /\ u.chk = t.chk /\ u.nxt = t.nxt /\ u.base = t.base /\ u.def = t.def
        /\ u.tblend = t.tblend /\ u.firstfree = t.firstfree
    BY <2>1, <2>2 DEF Arrays, Shaped, Fields
  <2> HIDE DEF u
  <2> DEFINE W == Range(t.one) \cup {e}
  <2>5. t.one \in Seq(W) /\ e \in W
    BY <2>2 DEF Arrays, Waiting
  <2> HIDE DEF W
  <2>6. /\ Len(t.one) \in Nat /\ DOMAIN t.one = 1 .. Len(t.one)
        /\ Len(u.one) = Len(t.one) + 1 /\ DOMAIN u.one = 1 .. Len(t.one) + 1
        /\ u.one[Len(t.one) + 1] = e
        /\ \A k \in 1 .. Len(t.one) : u.one[k] = t.one[k]
    BY <2>4, <2>5
  <2>7. PICK n \in Nat : n = Len(t.one)
    BY <2>6
  <2>8. /\ DOMAIN t.one = 1 .. n /\ DOMAIN u.one = 1 .. n + 1 /\ u.one[n + 1] = e
        /\ \A k \in 1 .. n : u.one[k] = t.one[k]
        /\ n + 1 \in 1 .. n + 1 /\ 1 .. n + 1 = (1 .. n) \cup {n + 1}
    BY <2>6, <2>7
  <2> HIDE DEF e
  <2>9. e.state = x /\ e.sym = sym /\ e.next = next /\ e.def = def
    BY DEF e
  <2>10. ~Waits(t, x) /\ \A a \in DOMAIN t.chk : t.chk[a] # x
    BY <2>2, FreshIs
  <2>11. \A y : Waits(u, y) <=> Waits(t, y) \/ y = x
    BY <2>8, <2>9 DEF Waits
  <2>12. Owned(u, L \cup {x})
    <3>1. \A k \in DOMAIN u.one : u.one[k].state \in L \cup {x} /\ u.one[k].sym \in Classes
      BY <2>2, <2>8, <2>9 DEF Owned
    <3>2. ASSUME NEW k \in DOMAIN u.one, NEW l \in DOMAIN u.one, u.one[k].state = u.one[l].state
          PROVE  k = l
      <4>1. \A m \in 1 .. n : t.one[m].state # x
        BY <2>8, <2>10 DEF Waits
      <4>2. k \in 1 .. n /\ l \in 1 .. n => k = l
        BY <2>2, <2>8, <3>2 DEF Owned
      <4> QED
        BY <2>8, <2>9, <3>2, <4>1, <4>2
    <3>3. \A a \in DOMAIN u.chk : u.chk[a] # 0 => u.chk[a] \in L \cup {x} /\ ~Waits(u, u.chk[a])
      BY <2>2, <2>4, <2>10, <2>11 DEF Owned
    <3> QED
      BY <3>1, <3>2, <3>3 DEF Owned
  <2>13. Behaved(u)
    <3>1. Len(u.one) < ONE_STACK_SIZE
      BY <1>2, <2>6, SizesAssumption
    <3> QED
      BY <2>2, <2>4, <3>1 DEF Behaved
  <2>14. Waits(u, x) /\ Waiter(u, x) = e
    BY <2>8, <2>9, <2>12, WaiterIs
  <2>15. Entries(u, x) = E /\ Default(u, x) = def /\ ~Jammed(u, x)
    BY <2>9, <2>14 DEF Entries, Default, Jammed
  <2>16. ASSUME NEW y \in AllStates \ {0, x} PROVE Same(t, u, y)
    <3>1. Waits(u, y) <=> Waits(t, y)
      BY <2>11
    <3>2. ASSUME Waits(t, y) PROVE Waiter(u, y) = Waiter(t, y)
      <4>1. PICK k \in DOMAIN t.one : t.one[k].state = y
        BY <3>2 DEF Waits
      <4>2. k \in DOMAIN u.one /\ u.one[k] = t.one[k]
        BY <2>8
      <4> QED
        BY <2>2, <2>12, <4>1, <4>2, WaiterIs
    <3>3. \A c : Has(u, y, c) <=> Has(t, y, c)
      BY <2>4 DEF Has
    <3>4. Entries(u, y) = Entries(t, y)
      BY <2>4, <3>1, <3>2, <3>3 DEF Entries
    <3> QED
      BY <2>4, <3>1, <3>2, <3>4 DEF Same, Default, Jammed
  <2> QED
    BY <2>3, <2>12, <2>13, <2>15, <2>16 DEF Gives, Sound, u
<1> QED
  BY <1>1, <1>2

\* A row of entries that is put down where mkentry() found room.
LEMMA StoredGives ==
  ASSUME NEW t, NEW L, Sound(t, L), NEW x \in AllStates, x # 0, x \notin L,
         NEW row, NEW numchars \in Nat, numchars <= numecs, NEW deflink, NEW total, NEW over,
         NEW needed, needed = {c \in 1 .. numchars : NeedsEntry(row, c, deflink)},
         needed # {}, total # 0, total # 1, NEW E, E = [c \in needed |-> row[c]]
  PROVE  Gives(t, MkEntry(t, row, numchars, x, deflink, total, over), L, x, E, deflink, FALSE)
<1> DEFINE minec == Min(needed \cup {numchars + 1})
           maxec == Max(needed \cup {0})
           sparse == total * 100 <= numchars * INTERIOR_FIT_PERCENTAGE
           a == PlaceFor(t, needed, minec, sparse)
           tblbase == a - minec
           tbllast == tblbase + maxec
           g == Grown(t, tbllast + 2)
           own == {tblbase + c : c \in needed}
           f == [g EXCEPT !.base[x] = tblbase, !.def[x] = deflink,
                     !.chk = [b \in DOMAIN @ |-> IF b \in own THEN x ELSE @[b]],
                     !.nxt = [b \in DOMAIN @ |-> IF b \in own THEN row[b - tblbase] ELSE @[b]]]
           u == MkEntry(t, row, numchars, x, deflink, total, over)
<1>1. u = [f EXCEPT !.firstfree = IF a = @ THEN NextFree(f) ELSE @,
                    !.tblend = Larger(@, tbllast)]
  BY DEF MkEntry
<1>2. Arrays(t) /\ Shaped(t) /\ EmptyBehind(t) /\ Behaved(t) /\ Owned(t, L)
  BY DEF Sound, Arrays
<1>3. Arrays(u) /\ Keeps(t, u)
  <2> HIDE DEF u
  <2> QED
    BY <1>2, MkEntryFits DEF u
<1>4. needed \subseteq 1 .. numchars
  OBVIOUS
<1>5. /\ minec \in 1 .. numchars + 1 /\ maxec \in 0 .. numchars
      /\ \A c \in needed : c \in 1 .. numchars /\ minec <= c /\ c <= maxec
      /\ minec \in needed /\ minec <= maxec
  <2> HIDE DEF minec, maxec
  <2> QED
    BY <1>4, NeededIs DEF minec, maxec
<1> HIDE DEF minec, maxec, sparse
<1>6. a \in Int /\ a >= minec /\ \A c \in needed : Free(t, a + c - minec)
  <2>1. minec \in Nat /\ \A c \in needed : c \in Nat /\ minec <= c
    BY <1>5
  <2> QED
    BY <1>2, <2>1, PlaceForIs
<1> HIDE DEF a
<1>7. /\ tblbase \in Nat /\ tbllast \in Nat /\ tbllast >= a /\ tbllast >= 1 /\ tblbase <= tbllast
      /\ a >= 1 /\ \A c \in needed : tblbase + c >= 1 /\ tblbase + c <= tbllast
  BY <1>5, <1>6
<1>8. \A b \in own : b \in Nat /\ b >= 1 /\ b <= tbllast /\ Free(t, b)
  <2> SUFFICES ASSUME NEW c \in needed
               PROVE  /\ tblbase + c \in Nat /\ tblbase + c >= 1 /\ tblbase + c <= tbllast
                      /\ Free(t, tblbase + c)
    OBVIOUS
  <2>1. Free(t, a + c - minec) /\ a + c - minec = tblbase + c
    BY <1>5, <1>6
  <2> HIDE DEF tblbase, tbllast
  <2> QED
    BY <1>5, <1>7, <2>1
<1>9. \A b : b \in own <=> \E c \in needed : b = tblbase + c
  OBVIOUS
<1> HIDE DEF tblbase, tbllast, own
<1>11. Extends(g, t) /\ Shaped(g) /\ g.size >= tbllast + 2
  <2>1. tbllast + 2 \in Int
    BY <1>7
  <2>2. Extends(Grown(t, tbllast + 2), t) /\ Grown(t, tbllast + 2).size >= tbllast + 2
    BY <1>2, <2>1, GrownFits
  <2> QED
    BY <2>2 DEF Extends
<1>12. g.base = t.base /\ g.def = t.def
  BY GrownKeeps
<1> HIDE DEF g
<1>13. /\ DOMAIN f = Fields /\ f.size = g.size /\ f.one = t.one
       /\ f.firstfree = t.firstfree /\ f.tblend = t.tblend
       /\ f.base = [t.base EXCEPT ![x] = tblbase] /\ f.def = [t.def EXCEPT ![x] = deflink]
       /\ f.chk = [b \in DOMAIN g.chk |-> IF b \in own THEN x ELSE g.chk[b]]
       /\ f.nxt = [b \in DOMAIN g.nxt |-> IF b \in own THEN row[b - tblbase] ELSE g.nxt[b]]
  BY <1>11, <1>12 DEF Extends, Shaped, Fields
<1> HIDE DEF f
<1>14. /\ u.size = g.size /\ u.one = t.one
       /\ u.base = [t.base EXCEPT ![x] = tblbase] /\ u.def = [t.def EXCEPT ![x] = deflink]
       /\ u.chk = f.chk /\ u.nxt = f.nxt
       /\ u.firstfree = IF a = t.firstfree THEN NextFree(f) ELSE t.firstfree
       /\ u.tblend = Larger(t.tblend, tbllast)
  BY <1>1, <1>13 DEF Fields
<1> HIDE DEF u
<1>15. /\ t.tblend \in Nat /\ t.size \in Nat /\ t.size > t.tblend /\ t.size >= 1
       /\ t.firstfree \in 1 .. t.tblend + 1
  BY <1>2, BehavedSize DEF Shaped, Behaved
<1>16. /\ DOMAIN g.chk = 0 .. g.size - 1 /\ DOMAIN g.nxt = 0 .. g.size - 1 /\ g.size \in Nat
       /\ \A c \in DOMAIN t.chk : c \in DOMAIN g.chk /\ g.chk[c] = t.chk[c] /\ g.nxt[c] = t.nxt[c]
       /\ \A c \in DOMAIN g.chk : g.chk[c] # 0 => c \in DOMAIN t.chk
       /\ g.size >= t.size
  <2>1. g.size >= t.size
    BY <1>11 DEF Extends
  <2> QED
    BY <1>2, <1>11, <1>15, <2>1, ExtendsIs
<1>17. /\ u.tblend \in Nat /\ u.tblend >= t.tblend /\ u.tblend >= tbllast
       /\ (u.tblend = tbllast \/ (tbllast <= t.tblend /\ u.tblend = t.tblend))
  BY <1>7, <1>14, <1>15 DEF Larger
<1>18. u.size >= u.tblend + 2
  <2>1. CASE u.tblend = tbllast
    BY <1>11, <1>14, <2>1
  <2>2. CASE tbllast <= t.tblend /\ u.tblend = t.tblend
    BY <1>2, <1>7, <1>14, <1>15, <1>16, <2>2 DEF Behaved
  <2> QED
    BY <1>17, <2>1, <2>2
<1>19. u.firstfree \in 1 .. u.tblend + 1
  <2>1. CASE a = t.firstfree
    <3> DEFINE z == u.tblend + 1
               F == FreeFrom(f, f.firstfree + 1)
    <3>1. z \in DOMAIN g.chk
      BY <1>14, <1>16, <1>17, <1>18
    <3>2. z \notin own
      <4>1. z > tbllast /\ z \in Int /\ tbllast \in Int
        BY <1>7, <1>17
      <4> HIDE DEF z
      <4> QED
        BY <1>8, <4>1
    <3>3. g.chk[z] = 0
      <4>1. EmptyBehind(g) /\ g.tblend = t.tblend
        BY <1>11 DEF Extends
      <4> QED
        BY <1>15, <1>17, <3>1, <4>1 DEF EmptyBehind
    <3>4. Free(f, z)
      BY <1>13, <3>1, <3>2, <3>3 DEF Free
    <3>5. z \in Nat /\ z >= f.firstfree + 1 /\ f.firstfree \in Nat /\ f.firstfree >= 1
      BY <1>7, <1>13, <1>15, <1>17, <2>1
    <3>6. Larger(f.firstfree + 1, f.size) \in Int /\ z <= Larger(f.firstfree + 1, f.size)
      <4>1. f.size \in Int /\ z <= f.size
        BY <1>13, <1>14, <1>16, <1>17, <1>18
      <4> HIDE DEF z
      <4> QED
        BY <3>5, <4>1 DEF Larger
    <3>7. z \in F
      <4> HIDE DEF z
      <4> QED
        BY <3>4, <3>5, <3>6 DEF FreeFrom
    <3>8. F \subseteq Int /\ \A y \in F : f.firstfree + 1 <= y
      <4> HIDE DEF z
      <4> QED
        BY <3>5, <3>6 DEF FreeFrom
    <3> HIDE DEF F, z
    <3>9. Min(F) \in F /\ \A y \in F : Min(F) <= y
      <4>1. f.firstfree + 1 \in Int
        BY <3>5
      <4> QED
        BY <3>7, <3>8, <4>1, MinIs
    <3>10. u.firstfree = Min(F)
      BY <1>14, <2>1 DEF NextFree, F
    <3>11. Min(F) <= z /\ f.firstfree + 1 <= Min(F) /\ Min(F) \in Int
      BY <3>7, <3>8, <3>9
    <3> QED
      BY <1>17, <3>5, <3>10, <3>11 DEF z
  <2>2. CASE a # t.firstfree
    BY <1>14, <1>15, <1>17, <2>2
  <2> QED
    BY <2>1, <2>2
<1>20. Behaved(u)
  <2>1. \A y \in AllStates : u.base[y] \in 0 .. u.tblend \cup {JAMSTATE}
    <3> SUFFICES ASSUME NEW y \in AllStates PROVE u.base[y] \in 0 .. u.tblend \cup {JAMSTATE}
      OBVIOUS
    <3>1. CASE y = x
      <4>1. u.base[y] = tblbase
        BY <1>2, <1>14, <3>1 DEF Behaved
      <4> QED
        BY <1>7, <1>17, <4>1
    <3>2. CASE y # x
      <4>1. u.base[y] = t.base[y] /\ t.base[y] \in 0 .. t.tblend \cup {JAMSTATE}
        BY <1>2, <1>14, <3>2 DEF Behaved
      <4> QED
        BY <1>15, <1>17, <4>1
    <3> QED
      BY <3>1, <3>2
  <2>2. u.chk[0] = 0
    <3>1. 0 \in DOMAIN t.chk /\ 0 \notin own
      BY <1>2, <1>8, <1>15 DEF Shaped
    <3> QED
      BY <1>2, <1>13, <1>14, <1>16, <3>1 DEF Behaved
  <2>3. u.size >= 1
    BY <1>15, <1>14, <1>16
  <2> QED
    BY <1>2, <1>14, <1>18, <1>19, <2>1, <2>2, <2>3 DEF Behaved
<1>21. Wrote(t, u, x, tblbase, deflink, E)
  <2>1. ASSUME NEW c \in needed
        PROVE  /\ c \in Classes /\ tblbase + c \in DOMAIN u.chk
               /\ u.chk[tblbase + c] = x /\ u.nxt[tblbase + c] = E[c]
    <3>1. c \in Classes
      BY <1>5, JamIs DEF Classes
    <3>2. tblbase + c \in own /\ tblbase + c \in DOMAIN g.chk /\ tblbase + c \in DOMAIN g.nxt
      BY <1>7, <1>9, <1>11, <1>16, <1>5
    <3>3. PICK b : b = tblbase + c
      OBVIOUS
    <3>4. b - tblbase = c /\ b \in own /\ b \in DOMAIN g.nxt /\ b \in DOMAIN g.chk
      BY <1>5, <1>7, <3>2, <3>3
    <3>5. u.nxt[b] = row[c] /\ u.chk[b] = x /\ b \in DOMAIN u.chk
      BY <1>13, <1>14, <3>4
    <3> QED
      BY <3>1, <3>3, <3>5
  <2>2. \A c \in DOMAIN t.chk : t.chk[c] # 0 =>
          c \in DOMAIN u.chk /\ u.chk[c] = t.chk[c] /\ u.nxt[c] = t.nxt[c]
    BY <1>3, <1>13, <1>14, <1>16 DEF Keeps
  <2>3. \A c \in DOMAIN u.chk : u.chk[c] # 0 =>
          \/ c \in DOMAIN t.chk /\ u.chk[c] = t.chk[c]
          \/ u.chk[c] = x /\ \E e \in needed : c = tblbase + e
    BY <1>9, <1>13, <1>14, <1>16
  <2>4. tblbase # JAMSTATE
    BY <1>7, JamIs
  <2> QED
    BY <1>14, <2>1, <2>2, <2>3, <2>4 DEF Wrote
<1>22. Gives(t, u, L, x, E, deflink, tblbase = JAMSTATE)
  BY <1>3, <1>7, <1>14, <1>20, <1>21, WroteSound DEF Arrays
<1> QED
  BY <1>7, <1>22, JamIs DEF Gives, u

\* x has got the entries of the row for the classes needed up to n, and d.
Puts(t, u, L, x, needed, row, n, d, jam) ==
  /\ Sound(u, L \cup {x})
  /\ \A c \in 0 .. n : /\ c \in DOMAIN Entries(u, x) <=> c \in needed
                       /\ c \in needed => Entries(u, x)[c] = row[c]
  /\ Default(u, x) = d /\ (Jammed(u, x) <=> jam)
  /\ \A y \in AllStates \ {0, x} : Same(t, u, y)

LEMMA GivesPuts ==
  ASSUME NEW t, NEW u, NEW L, NEW x, NEW needed, NEW row, NEW n, NEW d, NEW jam, NEW E,
         Gives(t, u, L, x, E, d, jam),
         \A c \in 0 .. n : (c \in DOMAIN E <=> c \in needed) /\ (c \in needed => E[c] = row[c])
  PROVE  Puts(t, u, L, x, needed, row, n, d, jam)
BY DEF Gives, Puts

LEMMA NoEntryGives ==
  ASSUME NEW t, NEW L, Sound(t, L), NEW x \in AllStates, x # 0, x \notin L, NEW d,
         NEW E, E = [c \in {} |-> 0]
  PROVE  Gives(t, NoEntry(t, x, d), L, x, E, d, d = JAMSTATE)
<1> DEFINE u == NoEntry(t, x, d)
           b == IF d = JAMSTATE THEN JAMSTATE ELSE 0
<1>1. Arrays(t) /\ Shaped(t) /\ EmptyBehind(t) /\ Behaved(t)
  BY DEF Sound, Arrays
<1>2. /\ DOMAIN u = Fields /\ u.one = t.one
      /\ u.size = t.size /\ u.chk = t.chk /\ u.nxt = t.nxt
      /\ u.tblend = t.tblend /\ u.firstfree = t.firstfree
      /\ u.base = [t.base EXCEPT ![x] = b] /\ u.def = [t.def EXCEPT ![x] = d]
  BY <1>1 DEF NoEntry, Shaped, Fields
<1> HIDE DEF u
<1>3. Shaped(u) /\ EmptyBehind(u)
  BY <1>1, <1>2 DEF Shaped, EmptyBehind
<1>4. b \in Int /\ b \in {0, JAMSTATE}
  BY JamIs
<1>5. Behaved(u)
  <2>1. 0 \in 0 .. t.tblend
    BY <1>1 DEF Shaped
  <2>2. \A y \in AllStates : u.base[y] \in 0 .. u.tblend \cup {JAMSTATE}
    BY <1>1, <1>2, <1>4, <2>1 DEF Behaved
  <2> QED
    BY <1>1, <1>2, <2>2 DEF Behaved
<1>6. Wrote(t, u, x, b, d, E)
  BY <1>1, <1>2 DEF Wrote
<1>7. (b = JAMSTATE) <=> (d = JAMSTATE)
  BY JamIs
<1>8. E = [c \in DOMAIN E |-> E[c]]
  OBVIOUS
<1> HIDE DEF b
<1>9. Gives(t, u, L, x, E, d, b = JAMSTATE)
  BY <1>2, <1>3, <1>4, <1>5, <1>6, <1>8, WroteSound
<1> QED
  BY <1>7, <1>9 DEF Gives, u

\* mkentry(), told that there are as many transitions as it will find, or one
\* more (which is in the table for NUL).
LEMMA MkEntryPuts ==
  ASSUME NEW t, NEW L, Sound(t, L), NEW x \in AllStates, x # 0, x \notin L,
         NEW row, NEW numchars \in Nat, numchars <= numecs, NEW d, NEW total, NEW over,
         NEW needed, needed = {c \in 1 .. numchars : NeedsEntry(row, c, d)},
         total \in {Cardinality(needed), Cardinality(needed) + 1}
  PROVE  Puts(t, MkEntry(t, row, numchars, x, d, total, over), L, x, needed, row, numchars, d,
              total = 0 /\ d = JAMSTATE)
<1> DEFINE u == MkEntry(t, row, numchars, x, d, total, over)
           minec == Min(needed \cup {numchars + 1})
<1>1. needed \subseteq 1 .. numchars /\ IsFiniteSet(needed)
  <2>1. needed \subseteq 1 .. numchars
    OBVIOUS
  <2>2. IsFiniteSet(1 .. numchars)
    BY FS_Interval
  <2> QED
    BY <2>1, <2>2, FS_Subset
<1>2. Cardinality(needed) \in Nat /\ (Cardinality(needed) = 0 <=> needed = {})
  BY <1>1, FS_CardinalityType, FS_EmptySet
<1>3. /\ minec \in 1 .. numchars + 1 /\ (needed # {} => minec \in needed)
  <2> HIDE DEF minec
  <2> QED
    BY <1>1, NeededIs DEF minec
<1>4. u = IF total = 0
          THEN NoEntry(t, x, d)
          ELSE IF total = 1
          THEN Stack1(t, x, minec, IF needed = {} THEN over ELSE row[minec], d)
          ELSE u
  BY DEF MkEntry
<1> HIDE DEF minec
<1>5. CASE total = 0
  <2>1. PICK E : E = [c \in {} |-> 0]
    OBVIOUS
  <2>2. u = NoEntry(t, x, d)
    BY <1>4, <1>5
  <2> HIDE DEF u
  <2>3. Gives(t, u, L, x, E, d, d = JAMSTATE)
    BY <2>1, <2>2, NoEntryGives
  <2>4. needed = {}
    BY <1>2, <1>5
  <2>5. Puts(t, u, L, x, needed, row, numchars, d, d = JAMSTATE)
    BY <2>1, <2>3, <2>4, GivesPuts
  <2> QED
    BY <1>5, <2>5 DEF Puts, u
<1>6. CASE total = 1
  <2>1. PICK next : next = IF needed = {} THEN over ELSE row[minec]
    OBVIOUS
  <2>2. u = Stack1(t, x, minec, next, d)
    BY <1>4, <1>6, <2>1
  <2> HIDE DEF u
  <2>3. PICK E : E = [c \in {minec} |-> next]
    OBVIOUS
  <2>4. minec \in Classes
    BY <1>3, JamIs DEF Classes
  <2>5. Gives(t, u, L, x, E, d, FALSE)
    BY <2>2, <2>3, <2>4, Stack1Gives
  <2>6. needed = {} \/ needed = {minec}
    <3>1. Cardinality(needed) \in {0, 1}
      BY <1>2, <1>6
    <3>2. CASE Cardinality(needed) = 1
      <4>1. PICK c : needed = {c}
        BY <1>1, <3>2, FS_Singleton
      <4> QED
        BY <1>3, <4>1
    <3> QED
      BY <1>2, <3>1, <3>2
  <2>7. ASSUME NEW c \in 0 .. numchars
        PROVE  (c \in DOMAIN E <=> c \in needed) /\ (c \in needed => E[c] = row[c])
    <3>1. CASE needed = {}
      <4>1. minec = numchars + 1
        <5>1. minec \in {numchars + 1}
          <6>1. numchars + 1 \in Int
            OBVIOUS
          <6>2. Min({numchars + 1}) = numchars + 1
            <7> DEFINE S == {numchars + 1}
            <7>1. S \subseteq Int /\ S # {} /\ \A y \in S : numchars + 1 <= y
              BY <6>1
            <7> HIDE DEF S
            <7>2. Min(S) \in S
              BY <6>1, <7>1, MinIs
            <7> QED
              BY <7>2 DEF S
          <6>3. needed \cup {numchars + 1} = {numchars + 1}
            BY <3>1
          <6> QED
            BY <6>2, <6>3 DEF minec
        <5> QED
          BY <5>1
      <4> QED
        BY <2>3, <3>1, <4>1
    <3>2. CASE needed = {minec}
      BY <2>1, <2>3, <3>2
    <3> QED
      BY <2>6, <3>1, <3>2
  <2>8. Puts(t, u, L, x, needed, row, numchars, d, FALSE)
    BY <2>5, <2>7, GivesPuts
  <2> QED
    BY <1>6, <2>8 DEF Puts, u
<1>7. CASE total # 0 /\ total # 1
  <2>1. needed # {}
    BY <1>2, <1>7
  <2>2. PICK E : E = [c \in needed |-> row[c]]
    OBVIOUS
  <2> HIDE DEF u
  <2>3. Gives(t, u, L, x, E, d, FALSE)
    BY <1>7, <2>1, <2>2, StoredGives DEF u
  <2>4. \A c \in 0 .. numchars : (c \in DOMAIN E <=> c \in needed) /\ (c \in needed => E[c] = row[c])
    BY ONLY <2>2
  <2>5. Puts(t, u, L, x, needed, row, numchars, d, FALSE)
    BY <2>3, <2>4, GivesPuts
  <2> QED
    BY <1>7, <2>5 DEF Puts, u
<1> QED
  BY <1>5, <1>6, <1>7

LEMMA FrontIs ==
  ASSUME NEW q, q \in Seq(Range(q)), q # <<>>
  PROVE  \E n \in Nat : /\ Front(q) \in Seq(Range(Front(q))) /\ Len(q) = n + 1 /\ Len(Front(q)) = n
                        /\ DOMAIN q = 1 .. n + 1 /\ DOMAIN Front(q) = 1 .. n
                        /\ Last(q) = q[n + 1] /\ n + 1 \in 1 .. n + 1
                        /\ \A k \in 1 .. n : k \in 1 .. n + 1 /\ k # n + 1 /\ Front(q)[k] = q[k]
<1>1. Len(q) \in Nat /\ Len(q) # 0 /\ DOMAIN q = 1 .. Len(q)
  BY EmptySeq
<1>2. PICK n \in Nat : Len(q) = n + 1
  <2>1. Len(q) - 1 \in Nat /\ Len(q) = (Len(q) - 1) + 1
    BY <1>1
  <2> QED
    BY <2>1
<1>3. Front(q) = SubSeq(q, 1, n)
  <2>1. Len(q) - 1 = n
    BY <1>2
  <2> QED
    BY <2>1 DEF Front
<1>4. Front(q) = [k \in 1 .. n |-> q[k]]
  <2>1. SubSeq(q, 1, n) = [k \in 1 .. (1 + n - 1) |-> q[k + 1 - 1]]
    BY <1>2, SubSeqProperties
  <2> QED
    BY <1>3, <2>1
<1>5. Front(q) \in Seq(Range(Front(q)))
  <2>1. Front(q) \in [1 .. n -> Range(Front(q))]
    BY <1>4 DEF Range
  <2> QED
    BY <2>1, SeqDef
<1>6. Last(q) = q[n + 1]
  BY <1>2 DEF Last
<1>7. Len(Front(q)) = n
  BY <1>4, <1>5
<1> QED
  BY <1>1, <1>2, <1>4, <1>5, <1>6, <1>7

\* A row that waited goes into the arrays: nothing else changes for anyone.
LEMMA WaiterSettles ==
  ASSUME NEW t, NEW L, Sound(t, L), L \subseteq AllStates \ {0}, t.one # <<>>,
         NEW e, e = Last(t.one),
         NEW u, u = [Mk1tbl(t, e.state, e.sym, e.next, e.def) EXCEPT !.one = Front(@)]
  PROVE  Sound(u, L) /\ \A y \in AllStates \ {0} : Same(t, u, y)
<1>1. Arrays(t) /\ Behaved(t) /\ Owned(t, L) /\ t.one \in Seq(Range(t.one))
  BY DEF Sound, Arrays, Waiting
<1>2. PICK n \in Nat : /\ Front(t.one) \in Seq(Range(Front(t.one))) /\ Len(t.one) = n + 1
                       /\ Len(Front(t.one)) = n
                       /\ DOMAIN t.one = 1 .. n + 1 /\ DOMAIN Front(t.one) = 1 .. n
                       /\ e = t.one[n + 1] /\ n + 1 \in 1 .. n + 1
                       /\ \A k \in 1 .. n : k \in 1 .. n + 1 /\ k # n + 1 /\ Front(t.one)[k] = t.one[k]
  BY <1>1, FrontIs
<1>3. e.state \in AllStates /\ e.state # 0 /\ e.state \in L /\ e.sym \in Classes
  BY <1>1, <1>2 DEF Owned
<1>4. PICK x, sym, next, d : x = e.state /\ sym = e.sym /\ next = e.next /\ d = e.def
  OBVIOUS
<1>5. PICK E : E = [c \in {sym} |-> next]
  OBVIOUS
<1>6. PICK v : v = Mk1tbl(t, x, sym, next, d)
  OBVIOUS
<1>7. x \in AllStates /\ x # 0 /\ x \in L /\ sym \in Classes
  BY <1>3, <1>4
<1>8. Shaped(v) /\ EmptyBehind(v) /\ v.one = t.one /\ Behaved(v) /\ \E b \in Nat : Wrote(t, v, x, b, d, E)
  BY ONLY Sound(t, L), <1>5, <1>6, <1>7, Mk1tblWrites
<1>9. PICK b \in Nat : Wrote(t, v, x, b, d, E)
  BY <1>8
<1>10. /\ DOMAIN u = Fields /\ u.one = Front(t.one)
       /\ u.size = v.size /\ u.chk = v.chk /\ u.nxt = v.nxt /\ u.base = v.base /\ u.def = v.def
       /\ u.tblend = v.tblend /\ u.firstfree = v.firstfree
  BY <1>4, <1>6, <1>8 DEF Shaped, Fields
<1>11. \A k \in DOMAIN u.one : k \in DOMAIN t.one /\ k # n + 1 /\ u.one[k] = t.one[k]
  BY <1>2, <1>10
<1>12. Wrote(t, u, x, b, d, E)
  BY ZenonT(60), <1>9, <1>10 DEF Wrote
<1>13. ~Waits(u, x)
  BY <1>1, <1>2, <1>4, <1>11 DEF Owned, Waits
<1>14. Waits(t, x) /\ Waiter(t, x) = e
  BY <1>1, <1>2, <1>4, WaiterIs
<1>15. \A a \in DOMAIN t.chk : t.chk[a] # x
  BY <1>1, <1>7, <1>14 DEF Owned
<1>16. Owned(u, L)
  <2>1. Owned(u, L \cup {x})
    BY <1>1, <1>11, <1>12, <1>13, WroteOwned
  <2>2. L \cup {x} = L
    BY <1>7
  <2> QED
    BY <2>1, <2>2
<1>17. Behaved(u)
  <2>1. Len(u.one) < ONE_STACK_SIZE
    BY <1>1, <1>2, <1>10, SizesAssumption DEF Behaved
  <2> QED
    BY <1>8, <1>10, <2>1 DEF Behaved
<1>18. Sound(u, L)
  <2>1. Waiting(u)
    BY <1>1, <1>2, <1>10, <1>11 DEF Arrays, Waiting
  <2>2. Shaped(u) /\ EmptyBehind(u)
    BY <1>8, <1>10 DEF Shaped, EmptyBehind
  <2> QED
    BY <1>16, <1>17, <2>1, <2>2 DEF Sound, Arrays
<1>19. \A y \in AllStates : y # x => (Waits(u, y) <=> Waits(t, y))
  <2>1. ASSUME NEW y, y # x, Waits(t, y) PROVE Waits(u, y)
    <3>1. PICK k \in 1 .. n + 1 : t.one[k].state = y
      BY <1>2, <2>1 DEF Waits
    <3>2. k \in 1 .. n
      BY <1>2, <1>4, <2>1, <3>1
    <3> QED
      BY <1>2, <1>10, <3>1, <3>2 DEF Waits
  <2>2. ASSUME NEW y, Waits(u, y) PROVE Waits(t, y)
    BY <1>11, <2>2 DEF Waits
  <2> QED
    BY <2>1, <2>2
<1>20. \A y \in AllStates : Waits(u, y) => Waiter(u, y) = Waiter(t, y)
  <2> SUFFICES ASSUME NEW y \in AllStates, Waits(u, y) PROVE Waiter(u, y) = Waiter(t, y)
    OBVIOUS
  <2>1. PICK k \in DOMAIN u.one : u.one[k].state = y
    BY DEF Waits
  <2>2. Waiter(u, u.one[k].state) = u.one[k]
    BY <1>16, <2>1, WaiterIs
  <2>3. k \in DOMAIN t.one /\ u.one[k] = t.one[k]
    BY <1>11, <2>1
  <2>4. Waiter(t, t.one[k].state) = t.one[k]
    BY <1>1, <2>3, WaiterIs
  <2> QED
    BY <2>1, <2>2, <2>3, <2>4
<1>21. b \in Int /\ b # JAMSTATE /\ E = [c \in DOMAIN E |-> E[c]]
  BY <1>5, JamIs
<1>22. /\ Entries(u, x) = E /\ Default(u, x) = d /\ (Jammed(u, x) <=> b = JAMSTATE)
       /\ \A y \in AllStates \ {0, x} : Same(t, u, y)
  <2>1. DOMAIN t.base = AllStates /\ DOMAIN t.def = AllStates /\ \A y \in AllStates : t.base[y] \in Int
    BY SoundIs
  <2> QED
    BY ONLY <1>1, <1>7, <1>12, <1>13, <1>15, <1>19, <1>20, <1>21, <2>1, WroteGives
<1>23. Same(t, u, x)
  <2>1. Entries(t, x) = E
    BY <1>4, <1>5, <1>14 DEF Entries
  <2>2. Default(t, x) = d /\ ~Jammed(t, x)
    BY <1>4, <1>14 DEF Default, Jammed
  <2> QED
    BY <1>21, <1>22, <2>1, <2>2 DEF Same
<1> QED
  BY <1>18, <1>22, <1>23

----------------------------------------------------------------------------
(* Meta-equivalence classes                                                *)

Alike(d) == {e \in Ecs : \A T \in TransSets : e \in T <=> d \in T}
Leader(d) == Min(Alike(d))
Heads(k) == {d \in 1 .. k : Leader(d) = d}

LEMMA LeaderIs ==
  ASSUME NEW d \in Ecs
  PROVE  /\ Leader(d) \in Ecs /\ Leader(d) \in Alike(d) /\ Leader(Leader(d)) = Leader(d)
         /\ \A e \in Alike(d) : Leader(e) = Leader(d)
<1>1. d \in Alike(d) /\ Alike(d) \subseteq Ecs
  BY DEF Alike
<1>2. Min(Alike(d)) \in Alike(d)
  <2>1. Alike(d) \subseteq Int /\ Alike(d) # {} /\ 1 \in Int /\ \A y \in Alike(d) : 1 <= y
    BY <1>1, NumecsIsNat DEF Ecs
  <2> QED
    BY <2>1, MinIs
<1>3. \A e \in Alike(d) : Alike(e) = Alike(d)
  BY DEF Alike
<1> QED
  BY <1>1, <1>2, <1>3 DEF Leader

LEMMA HeadsAre ==
  /\ Cardinality(Heads(0)) = 0
  /\ \A k \in Nat : /\ Cardinality(Heads(k)) \in Nat /\ Cardinality(Heads(k)) <= k
                    /\ Cardinality(Heads(k + 1)) = IF Leader(k + 1) = k + 1
                                                   THEN Cardinality(Heads(k)) + 1
                                                   ELSE Cardinality(Heads(k))
<1>1. Heads(0) = {}
  BY DEF Heads
<1>2. ASSUME NEW k \in Nat PROVE IsFiniteSet(Heads(k)) /\ Cardinality(Heads(k)) <= k
  <2>1. IsFiniteSet(1 .. k) /\ Cardinality(1 .. k) = k
    BY FS_Interval
  <2>2. Heads(k) \subseteq 1 .. k
    BY DEF Heads
  <2> QED
    BY <2>1, <2>2, FS_Subset
<1>3. ASSUME NEW k \in Nat
      PROVE  Cardinality(Heads(k + 1)) = IF Leader(k + 1) = k + 1 THEN Cardinality(Heads(k)) + 1
                                                                  ELSE Cardinality(Heads(k))
  <2>1. 1 .. k + 1 = (1 .. k) \cup {k + 1} /\ k + 1 \notin 1 .. k
    OBVIOUS
  <2>2. CASE Leader(k + 1) = k + 1
    <3>1. Heads(k + 1) = Heads(k) \cup {k + 1} /\ k + 1 \notin Heads(k)
      BY <2>1, <2>2 DEF Heads
    <3> QED
      BY <1>2, <2>2, <3>1, FS_AddElement
  <2>3. CASE Leader(k + 1) # k + 1
    <3>1. Heads(k + 1) = Heads(k)
      BY <2>1, <2>3 DEF Heads
    <3> QED
      BY <2>3, <3>1
  <2> QED
    BY <2>2, <2>3
<1> QED
  BY <1>1, <1>2, <1>3, FS_EmptySet, FS_CardinalityType

LEMMA HeadsGrow ==
  ASSUME NEW k \in Nat, NEW m \in Nat, k <= m
  PROVE  Cardinality(Heads(k)) <= Cardinality(Heads(m))
<1>1. IsFiniteSet(1 .. m) /\ Heads(m) \subseteq 1 .. m
  BY FS_Interval DEF Heads
<1>2. IsFiniteSet(Heads(m)) /\ Heads(k) \subseteq Heads(m)
  BY <1>1, FS_Subset DEF Heads
<1> QED
  BY <1>2, FS_Subset

LEMMA MetaOf ==
  ASSUME usemecs, NEW c \in Ecs
  PROVE  Meta(c) = Cardinality(Heads(Leader(c)))
<1>1. c # 0
  BY DEF Ecs
<1> QED
  BY <1>1 DEF Meta, Heads, Leader, Alike

\* Classes with the same number are in the same templates.
LEMMA MetaAlike ==
  ASSUME NEW c \in Ecs, NEW d \in Ecs, Meta(c) = Meta(d)
  PROVE  \A T \in TransSets : c \in T <=> d \in T
<1>1. CASE ~usemecs
  BY <1>1 DEF Meta
<1>2. CASE usemecs
  <2>1. ASSUME NEW a \in Ecs, NEW b \in Ecs, Leader(a) < Leader(b)
        PROVE  Cardinality(Heads(Leader(a))) < Cardinality(Heads(Leader(b)))
    <3>1. PICK k \in Nat : Leader(b) = k + 1 /\ Leader(a) \in Nat /\ Leader(a) <= k
      <4>1. Leader(a) \in 1 .. numecs /\ Leader(b) \in 1 .. numecs
        BY LeaderIs DEF Ecs
      <4>2. Leader(b) - 1 \in Nat /\ Leader(b) = (Leader(b) - 1) + 1 /\ Leader(a) <= Leader(b) - 1
        BY <2>1, <4>1, NumecsIsNat
      <4> QED
        BY <4>1, <4>2, NumecsIsNat
    <3>2. Leader(k + 1) = k + 1
      BY <3>1, LeaderIs
    <3>3. Cardinality(Heads(k + 1)) = Cardinality(Heads(k)) + 1 /\ Cardinality(Heads(k)) \in Nat
      BY <3>2, HeadsAre
    <3>4. Cardinality(Heads(Leader(a))) <= Cardinality(Heads(k)) /\ Cardinality(Heads(Leader(a))) \in Nat
      BY <3>1, HeadsGrow, HeadsAre
    <3> QED
      BY <3>1, <3>3, <3>4
  <2>2. Leader(c) = Leader(d)
    <3>1. Leader(c) \in Int /\ Leader(d) \in Int
      BY LeaderIs, NumecsIsNat DEF Ecs
    <3>2. Cardinality(Heads(Leader(c))) = Cardinality(Heads(Leader(d)))
      BY <1>2, MetaOf
    <3>3. ~(Leader(c) < Leader(d)) /\ ~(Leader(d) < Leader(c))
      <4>1. Cardinality(Heads(Leader(c))) \in Int
        BY LeaderIs, HeadsAre, NumecsIsNat DEF Ecs
      <4> QED
        BY <2>1, <3>2, <4>1
    <3> QED
      BY <3>1, <3>3
  <2>3. Leader(c) \in Alike(c) /\ Leader(d) \in Alike(d)
    BY LeaderIs
  <2> QED
    BY <2>2, <2>3 DEF Alike
<1> QED
  BY <1>1, <1>2

LEMMA MetaRange ==
  /\ nummecs \in 1 .. numecs /\ Meta(0) = 0
  /\ \A c \in Ecs : Meta(c) \in 1 .. nummecs
  /\ \A m \in 1 .. nummecs : \E c \in Ecs : Meta(c) = m
<1> DEFINE numbers == {Meta(c) : c \in Ecs}
<1>1. ASSUME NEW c \in Ecs PROVE Meta(c) \in 1 .. numecs
  <2>1. CASE ~usemecs
    BY <2>1 DEF Meta, Ecs
  <2>2. CASE usemecs
    <3>1. Leader(c) \in 1 .. numecs /\ Leader(Leader(c)) = Leader(c)
      BY LeaderIs DEF Ecs
    <3>2. PICK k \in Nat : Leader(c) = k + 1 /\ k + 1 <= numecs
      <4>1. Leader(c) - 1 \in Nat /\ Leader(c) = (Leader(c) - 1) + 1 /\ Leader(c) <= numecs
        BY <3>1, NumecsIsNat
      <4> QED
        BY <4>1
    <3>3. Cardinality(Heads(k + 1)) = Cardinality(Heads(k)) + 1 /\ Cardinality(Heads(k)) \in Nat
          /\ Cardinality(Heads(k)) <= k
      BY <3>1, <3>2, HeadsAre
    <3> QED
      BY <2>2, <3>2, <3>3, MetaOf, NumecsIsNat
  <2> QED
    BY <2>1, <2>2
<1>2. 1 \in Ecs
  BY SizesAssumption DEF Ecs
<1>3. numbers \subseteq Int /\ numbers # {} /\ numecs \in Int /\ \A y \in numbers : y <= numecs
  BY <1>1, <1>2, NumecsIsNat
<1>4. \A c \in Ecs : Meta(c) \in numbers
  OBVIOUS
<1> HIDE DEF numbers
<1>5. Max(numbers) \in numbers /\ \A y \in numbers : y <= Max(numbers)
  BY <1>3, MaxIs
<1>6. PICK top \in Ecs : nummecs = Meta(top)
  BY <1>5 DEF nummecs, numbers
<1>7. nummecs \in 1 .. numecs /\ \A c \in Ecs : Meta(c) \in 1 .. nummecs
  <2>1. \A c \in Ecs : Meta(c) <= nummecs
    BY <1>4, <1>5 DEF nummecs, numbers
  <2> QED
    BY <1>1, <1>6, <2>1, NumecsIsNat
<1>8. ASSUME NEW m \in 1 .. nummecs PROVE \E c \in Ecs : Meta(c) = m
  <2>1. CASE ~usemecs
    <3>1. m \in Ecs
      BY <1>7, NumecsIsNat DEF Ecs
    <3> QED
      BY <2>1, <3>1 DEF Meta
  <2>2. CASE usemecs
    <3> DEFINE K == {k \in Nat : Cardinality(Heads(k)) >= m}
    <3>1. Leader(top) \in K /\ Leader(top) \in 1 .. numecs
      <4>1. Leader(top) \in 1 .. numecs
        BY LeaderIs DEF Ecs
      <4>2. m <= Cardinality(Heads(Leader(top)))
        BY <1>6, <2>2, MetaOf
      <4>3. Cardinality(Heads(Leader(top))) \in Int /\ m \in Int
        BY <4>1, HeadsAre, NumecsIsNat, <1>7
      <4> QED
        BY <4>1, <4>2, <4>3, NumecsIsNat
    <3>2. PICK n \in K : \A k \in K : n <= k
      <4>1. K \subseteq Int /\ K # {} /\ 0 \in Int /\ \A y \in K : 0 <= y
        BY <3>1
      <4> HIDE DEF K
      <4>2. Min(K) \in K /\ \A y \in K : Min(K) <= y
        BY <4>1, MinIs
      <4> QED
        BY <4>2
    <3>3. n \in Nat /\ m \in Nat /\ m >= 1 /\ n # 0 /\ n <= numecs
      <4>1. n <= Leader(top)
        BY <3>1, <3>2
      <4>2. m >= 1 /\ m \in Nat
        BY <1>7
      <4> QED
        BY <3>1, <3>2, <4>1, <4>2, HeadsAre, NumecsIsNat
    <3>4. PICK j \in Nat : n = j + 1
      <4>1. n - 1 \in Nat /\ n = (n - 1) + 1
        BY <3>3
      <4> QED
        BY <4>1
    <3>5. ~(Cardinality(Heads(j)) >= m) /\ Cardinality(Heads(j + 1)) >= m
      BY <3>2, <3>4
    <3>6. Leader(j + 1) = j + 1 /\ Cardinality(Heads(j + 1)) = m
      <4>1. PICK h, h2 : h = Cardinality(Heads(j)) /\ h2 = Cardinality(Heads(j + 1))
        OBVIOUS
      <4>2. h \in Nat /\ h2 = IF Leader(j + 1) = j + 1 THEN h + 1 ELSE h
        BY <4>1, HeadsAre
      <4>3. ~(h >= m) /\ h2 >= m /\ m \in Nat
        BY <3>3, <3>5, <4>1
      <4>4. Leader(j + 1) = j + 1 /\ h2 = m
        BY ONLY <4>2, <4>3
      <4> QED
        BY <4>1, <4>4
    <3>7. j + 1 \in Ecs
      BY <3>3, <3>4, NumecsIsNat DEF Ecs
    <3>8. Meta(j + 1) = m
      BY <2>2, <3>6, <3>7, MetaOf
    <3> QED
      BY <3>7, <3>8
  <2> QED
    BY <2>1, <2>2
<1>9. Meta(0) = 0
  BY DEF Meta
<1> QED
  BY <1>7, <1>8, <1>9

----------------------------------------------------------------------------
(* What the tables say of the rows                                         *)

\* Where each class leads: 0 jams, and class 0 is the end of the buffer.
Characters == 0 .. numecs
Jams == [c \in Characters |-> IF c = 0 THEN EobState ELSE 0]
WithEob(row) == [c \in Characters |-> IF c = 0 THEN EobState ELSE row[c]]
Goal(s) == IF s = EobState THEN [c \in Characters |-> 0] ELSE WithEob(Row([to |-> rows[s]]))
Means(d) == IF d = JAMSTATE THEN Jams ELSE WithEob(Content[d])

\* The entries of state s and what its default means make up its row, and its
\* default is a template or a state before it.
StateOK(t, s) ==
  /\ Default(t, s) = JAMSTATE \/ (Default(t, s) \in Named /\ Default(t, s) < s)
  /\ \A c \in Characters :
       Goal(s)[c] = IF c \in DOMAIN Entries(t, s) THEN Entries(t, s)[c] ELSE Means(Default(t, s))[c]
  /\ s # EobState => (Jammed(t, s) <=> rows[s] = NoRow.to)
TemplateOK(t, n) ==
  LET E == Entries(t, TemplateState(n))
  IN  /\ Default(t, TemplateState(n)) = JAMSTATE /\ ~Jammed(t, TemplateState(n))
      /\ \A c \in Characters :
           WithEob(tnxt[n])[c] = IF Meta(c) \in DOMAIN E THEN E[Meta(c)] ELSE Jams[Meta(c)]

Listed == (1 .. Len(rows)) \cup {TemplateState(n) : n \in 1 .. placed}
Right(t) ==
  /\ \A s \in 1 .. Len(rows) : StateOK(t, s)
  /\ \A n \in 1 .. placed : TemplateOK(t, n)
Packed(t) == Sound(t, Listed) /\ Right(t)

\* With the row of the jam state behind everything else.
Finished(t) ==
  /\ Shaped(t) /\ t.one = <<>> /\ DOMAIN t.base = AllStates /\ DOMAIN t.def = AllStates
  /\ t.base[jamstate] \in Nat /\ t.base[jamstate] >= 1
  /\ t.tblend = t.base[jamstate] + numecs /\ t.size > t.tblend
  /\ t.firstfree \in 1 .. t.base[jamstate]
  /\ \A x \in AllStates \ {jamstate} : t.base[x] \in 0 .. t.base[jamstate] - 1 \cup {JAMSTATE}
  /\ t.chk[0] = 0 /\ \A a \in DOMAIN t.chk : t.chk[a] \in AllStates
  /\ Entries(t, jamstate) = Jams
  /\ Right(t)

\* A template goes to one state only, and not nowhere.
Flat(row) ==
  /\ row \in [Ecs -> 0 .. lastdfa] /\ \E c \in Ecs : row[c] # 0
  /\ \A c, d \in Ecs : row[c] # 0 /\ row[d] # 0 => row[c] = row[d]

RowsOK ==
  /\ IsSeq(rows) /\ Len(rows) <= lastdfa
  /\ \A s \in 1 .. Len(rows) : rows[s] \in [Ecs -> 0 .. lastdfa]
  /\ scheme # "fast" /\ EobState <= Len(rows) => rows[EobState] = NoRow.to
  /\ nultrans => /\ IsSeq(nul) /\ Len(nul) = Len(rows)
                 /\ \A s \in 1 .. Len(rows) : nul[s] = rows[s][NUL_ec]
TemplatesOK ==
  /\ IsSeq(tnxt) /\ Len(tnxt) <= Len(rows) /\ placed \in 0 .. Len(tnxt)
  /\ \A n \in 1 .. Len(tnxt) : Flat(tnxt[n])
ControlOK ==
  /\ scheme \in {"compressed", "full", "fast"}
  /\ pc \in {"begin", "rows", "templates", "emit", "done"}
  /\ pc = "begin" => scheme = "fast" /\ rows = <<>>
  /\ pc \in {"begin", "rows"} => placed = 0
  /\ pc = "templates" => scheme = "compressed"
  /\ pc \notin {"begin", "rows"} => Len(rows) = lastdfa
  /\ pc = "emit" => scheme # "full" /\ placed = Len(tnxt)
  /\ scheme # "compressed" => ~usemecs /\ tnxt = <<>>
  /\ scheme = "fast" => ~nultrans
  /\ scheme = "compressed" /\ nultrans => numecs * PROTO_SIZE_PERCENTAGE > 100
\* A full table has its rows, and none of the others.
Unused(t) ==
  /\ t.size = 1 /\ DOMAIN t.chk = {0} /\ DOMAIN t.nxt = {0} /\ t.chk[0] = 0
  /\ t.tblend = 0 /\ t.firstfree = 1 /\ t.one = <<>>
  /\ \A x \in AllStates : t.base[x] = 0
FullTo(s) ==
  [c \in 0 .. (IF nultrans THEN numecs - 1 ELSE numecs) |->
     IF Goal(s)[c] = 0 THEN -s ELSE Goal(s)[c]]
Written == IsSeq(full) /\ Len(full) = Len(rows) /\ \A s \in 1 .. Len(rows) : full[s] = FullTo(s)

\* What gentabs() leaves: Then() for the states, jamstate for the jams.
Then(v) == IF v = 0 THEN jamstate ELSE v
Hit(t, x, c) == t.chk[t.base[x] + c] = x
Leads(x, c, v) ==
  \/ x \in States /\ c \in Characters /\ v = Goal(x)[c]
  \/ \E n \in 1 .. Len(tnxt), e \in Characters :
       x = TemplateState(n) /\ c = Meta(e) /\ v = WithEob(tnxt[n])[e]
  \/ x = jamstate /\ c \in Characters /\ v = Jams[c]
Steps(x) == IF x = jamstate THEN 0 ELSE IF x > jamstate THEN 1 ELSE x + 1
Column(t, x, c) == IF usemecs /\ t.def[x] >= TemplateState(1) THEN Meta(c) ELSE c
Decoded(t) ==
  /\ t.tblend \in Nat
  /\ \A s \in States \ {EobState} : t.base[s] = t.base[jamstate] <=> rows[s] = NoRow.to
  /\ \A x \in AllStates \ {0}, c \in Characters, v \in 0 .. lastdfa : Leads(x, c, v) =>
       /\ t.base[x] \in Nat /\ t.base[x] + numecs <= t.tblend
       /\ Hit(t, x, c) => t.nxt[t.base[x] + c] = Then(v)
       /\ ~Hit(t, x, c) => Steps(t.def[x]) < Steps(x) /\ Leads(t.def[x], Column(t, x, c), v)

----------------------------------------------------------------------------
(* The rows and the templates                                              *)

Framed == ControlOK /\ RowsOK /\ TemplatesOK

LEMMA RowsAre ==
  ASSUME NEW r \in Rows
  PROVE  /\ r.to \in [Ecs -> 0 .. lastdfa] /\ r.uniq \subseteq Ecs /\ r.uniq \subseteq Symbols(r)
         /\ \A c \in Symbols(r) \ r.uniq : \E d \in r.uniq : d < c /\ r.to[d] = r.to[c]
BY RowsAssumption DEF RowType

LEMMA NoRowIs == NoRow.to \in [Ecs -> 0 .. lastdfa]
BY JamIs DEF NoRow

\* A row more.
LEMMA GivenRows ==
  ASSUME RowsOK, NEW r, Given(r), r.to \in [Ecs -> 0 .. lastdfa],
         scheme # "fast" /\ ds = EobState => r.to = NoRow.to
  PROVE  RowsOK' /\ Len(rows') = Len(rows) + 1 /\ rows'[Len(rows) + 1] = r.to
         /\ Len(rows) \in Nat /\ \A s \in 1 .. Len(rows) : rows'[s] = rows[s]
<1>1. /\ rows' = Append(rows, r.to) /\ nul' = IF nultrans THEN Append(nul, r.to[NUL_ec]) ELSE nul
      /\ scheme' = scheme /\ nultrans' = nultrans /\ Len(rows) < lastdfa /\ IsSeq(rows)
  BY DEF Given, options, RowsOK
<1>2. PICK n \in Nat : n = Len(rows)
  BY <1>1, AppendIsSeq
<1>3. /\ IsSeq(rows') /\ Len(rows') = n + 1 /\ rows'[n + 1] = r.to
      /\ \A s \in 1 .. n : rows'[s] = rows[s]
  BY <1>1, <1>2, AppendIsSeq
<1>4. 1 .. n + 1 = (1 .. n) \cup {n + 1} /\ n + 1 <= lastdfa
  BY <1>1, <1>2, JamIs
<1>5. \A s \in 1 .. n + 1 : rows'[s] \in [Ecs -> 0 .. lastdfa]
  BY <1>2, <1>3, <1>4 DEF RowsOK
<1>6. scheme # "fast" /\ EobState <= n + 1 => rows'[EobState] = NoRow.to
  <2> SUFFICES ASSUME scheme # "fast", EobState <= n + 1 PROVE rows'[EobState] = NoRow.to
    OBVIOUS
  <2>1. EobState \in 1 .. n + 1
    BY SizesAssumption DEF States
  <2>2. CASE EobState = n + 1
    BY <1>2, <1>3, <2>2 DEF ds
  <2>3. CASE EobState \in 1 .. n
    BY <1>2, <1>3, <2>3 DEF RowsOK
  <2> QED
    BY <1>4, <2>1, <2>2, <2>3
<1>7. nultrans => /\ IsSeq(nul') /\ Len(nul') = n + 1
                  /\ \A s \in 1 .. n + 1 : nul'[s] = rows'[s][NUL_ec]
  <2> SUFFICES ASSUME nultrans
               PROVE  IsSeq(nul') /\ Len(nul') = n + 1 /\ \A s \in 1 .. n + 1 : nul'[s] = rows'[s][NUL_ec]
    OBVIOUS
  <2>1. IsSeq(nul) /\ Len(nul) = n /\ \A s \in 1 .. n : nul[s] = rows[s][NUL_ec]
    BY <1>2 DEF RowsOK
  <2>2. /\ IsSeq(nul') /\ Len(nul') = n + 1 /\ nul'[n + 1] = r.to[NUL_ec]
        /\ \A s \in 1 .. n : nul'[s] = nul[s]
    BY <1>1, <2>1, AppendIsSeq
  <2> QED
    BY <1>3, <1>4, <2>1, <2>2
<1>8. RowsOK'
  BY <1>1, <1>3, <1>4, <1>5, <1>6, <1>7 DEF RowsOK
<1> QED
  BY <1>2, <1>3, <1>8

\* ntod() counts a destination at least once, if there is one.
LEMMA FrequencyIs ==
  ASSUME NEW r \in Rows, NEW c \in r.uniq PROVE Frequency(r, c) \in Nat /\ Frequency(r, c) <= numecs + 1
<1> DEFINE S == {d \in Symbols(r) \ r.uniq : r.to[d] = r.to[c]}
<1>1. S \subseteq Ecs
  BY DEF Symbols
<1> HIDE DEF S
<1>2. IsFiniteSet(Ecs) /\ Cardinality(Ecs) = numecs
  BY FS_Interval, SizesAre DEF Ecs
<1>3. Cardinality(S) \in Nat /\ Cardinality(S) <= numecs
  BY <1>1, <1>2, FS_Subset, FS_CardinalityType
<1>4. Frequency(r, c) \in {1, 1 + Cardinality(S)}
  BY DEF Frequency, S
<1> QED
  BY <1>3, <1>4, NumecsIsNat

LEMMA ComIs ==
  ASSUME NEW r \in Rows, ~TooFew(r), Homogeneous(r)
  PROVE  CheckCom(r) /\ Com(r) \in 1 .. lastdfa
<1>1. PICK total \in Nat : total = Total(r)
  BY Sizes2 DEF Total, Symbols
<1>2. total > 0
  <2>1. numecs * PROTO_SIZE_PERCENTAGE > 0 /\ numecs * PROTO_SIZE_PERCENTAGE \in Int
    BY SizesAre, ThresholdsAssumption
  <2>2. ~(total * 100 < numecs * PROTO_SIZE_PERCENTAGE)
    BY <1>1 DEF TooFew
  <2> QED
    BY <2>1, <2>2
<1>3. PICK lo \in Int, hi \in Int : lo = CHECK_COM_PERCENTAGE /\ hi = TEMPLATE_SAME_PERCENTAGE
                                    /\ lo >= 0 /\ lo < hi
  BY ThresholdsAssumption
<1>4. r.uniq # {} /\ ComFreq(r) \in Nat /\ \E c \in r.uniq : Frequency(r, c) = ComFreq(r)
  <2> DEFINE F == {Frequency(r, c) : c \in r.uniq}
  <2>1. r.uniq # {}
    <3>1. Symbols(r) # {}
      BY <1>1, <1>2, FS_EmptySet DEF Total
    <3> QED
      BY <3>1, RowsAre
  <2>2. F \subseteq Nat /\ F # {}
    BY <2>1, FrequencyIs
  <2>3. \A y \in F : y <= numecs + 1
    BY FrequencyIs
  <2> HIDE DEF F
  <2>5. Max(F) \in F
    <3>1. F \subseteq Int /\ F # {} /\ numecs + 1 \in Int /\ \A y \in F : y <= numecs + 1
      BY <2>2, <2>3, NumecsIsNat
    <3> QED
      BY <3>1, MaxIs
  <2>6. ComFreq(r) = Max(F)
    BY <2>1 DEF ComFreq, F
  <2> QED
    BY <2>1, <2>2, <2>5, <2>6 DEF F
<1>5. CheckCom(r)
  <2>1. PICK f \in Nat : f = ComFreq(r)
    BY <1>4
  <2>2. f * 100 >= total * hi
    BY <1>1, <1>3, <2>1 DEF Homogeneous
  <2>3. total * hi = total * lo + total * (hi - lo) /\ total * (hi - lo) > 0
        /\ total * hi \in Int /\ total * lo \in Int /\ total * (hi - lo) \in Int
    BY <1>2, <1>3
  <2>4. f * 100 > total * lo
    BY <2>2, <2>3
  <2> QED
    BY <1>1, <1>3, <2>1, <2>4 DEF CheckCom
<1>6. ComState(r) \in 1 .. lastdfa
  <2> DEFINE S == {c \in r.uniq : Frequency(r, c) = ComFreq(r)}
  <2>1. S # {} /\ S \subseteq r.uniq
    BY <1>4
  <2>2. r.uniq \subseteq 1 .. numecs
    BY RowsAre DEF Ecs
  <2>3. ComState(r) = r.to[Min(S)]
    BY <1>4 DEF ComState
  <2> HIDE DEF S
  <2>4. Min(S) \in S
    <3>1. S \subseteq Int /\ S # {} /\ 1 \in Int /\ \A y \in S : 1 <= y
      BY <2>1, <2>2, JamIs
    <3> QED
      BY <3>1, MinIs
  <2>5. Min(S) \in Symbols(r) /\ Min(S) \in Ecs
    BY <2>1, <2>4, RowsAre
  <2>6. r.to[Min(S)] \in 0 .. lastdfa /\ r.to[Min(S)] # 0
    BY <2>5, RowsAre DEF Symbols
  <2> QED
    BY <2>3, <2>6, JamIs
<1> QED
  BY <1>5, <1>6 DEF Com

\* What is left of a row that is not too short, when NUL has a table of its own.
LEMMA RowIs ==
  ASSUME NEW r \in Rows
  PROVE  /\ Row(r) \in [Ecs -> 0 .. lastdfa] /\ \A c \in Ecs : Row(r)[c] # 0 => Row(r)[c] = r.to[c]
         /\ \A c \in Ecs : ~(nultrans /\ c = NUL_ec) => Row(r)[c] = r.to[c]
         /\ nultrans => Row(r)[NUL_ec] = 0
<1>1. NUL_ec \in Ecs
  BY SizesAre DEF NUL_ec, Ecs
<1> QED
  BY <1>1, RowsAre, JamIs DEF Row

LEMMA LongRow ==
  ASSUME ControlOK, scheme = "compressed", NEW r \in Rows, ~TooFew(r)
  PROVE  Total(r) \in Nat /\ Total(r) > 0 /\ \E c \in Ecs : Row(r)[c] # 0
<1>1. PICK total \in Nat : total = Total(r)
  BY Sizes2 DEF Total, Symbols
<1>2. PICK m \in Int : m = numecs * PROTO_SIZE_PERCENTAGE /\ m > 0 /\ (nultrans => m > 100)
                       /\ total * 100 >= m
  <2>1. numecs * PROTO_SIZE_PERCENTAGE > 0 /\ numecs * PROTO_SIZE_PERCENTAGE \in Int
    BY SizesAre, ThresholdsAssumption
  <2>2. ~(total * 100 < numecs * PROTO_SIZE_PERCENTAGE)
    BY <1>1 DEF TooFew
  <2>3. nultrans => numecs * PROTO_SIZE_PERCENTAGE > 100
    BY DEF ControlOK
  <2> QED
    BY <2>1, <2>2, <2>3
<1>3. total > 0 /\ (nultrans => total > 1)
  BY <1>2
<1>4. \E c \in Symbols(r) : ~(nultrans /\ c = NUL_ec)
  <2>1. CASE nultrans
    <3> SUFFICES ASSUME Symbols(r) \subseteq {NUL_ec} PROVE FALSE
      OBVIOUS
    <3>1. Cardinality({NUL_ec}) = 1 /\ IsFiniteSet({NUL_ec})
      BY FS_Singleton
    <3>2. Cardinality(Symbols(r)) <= 1
      BY <3>1, FS_Subset
    <3> QED
      BY <1>1, <1>3, <2>1, <3>2 DEF Total
  <2>2. CASE ~nultrans
    <3>1. Symbols(r) # {}
      BY <1>1, <1>3, FS_EmptySet DEF Total
    <3> QED
      BY <2>2, <3>1
  <2> QED
    BY <2>1, <2>2
<1>5. \E c \in Ecs : Row(r)[c] # 0
  BY <1>4, RowIs DEF Symbols
<1> QED
  BY <1>1, <1>3, <1>5

LEMMA TemplateRowFlat ==
  ASSUME ControlOK, scheme = "compressed", NEW r \in Rows, ~TooFew(r), Homogeneous(r)
  PROVE  Flat(TemplateRow(r))
<1>1. PICK c \in Ecs : Row(r)[c] # 0
  BY LongRow
<1>2. Com(r) \in 1 .. lastdfa
  BY ComIs
<1>3. PICK m \in 1 .. lastdfa : m = Com(r)
  BY <1>2
<1>4. m \in 0 .. lastdfa /\ m # 0 /\ 0 \in 0 .. lastdfa
  BY <1>3, JamIs
<1> QED
  BY <1>1, <1>3, <1>4 DEF Flat, TemplateRow

LEMMA InitFramed == ASSUME Init PROVE Framed
<1>1. /\ rows = <<>> /\ tnxt = <<>> /\ placed = 0 /\ nul = <<>> /\ Len(rows) = 0 /\ Len(tnxt) = 0
      /\ pc = IF scheme = "fast" THEN "begin" ELSE "rows"
  BY DEF Init
<1>2. IsSeq(rows) /\ IsSeq(tnxt) /\ IsSeq(nul) /\ Len(nul) = 0
  BY <1>1 DEF IsSeq
<1>3. ~(EobState <= 0)
  BY SizesAssumption DEF States
<1>4. scheme \in {"compressed", "full", "fast"}
  BY SizesAssumption DEF Init
<1>5. RowsOK
  BY <1>1, <1>2, <1>3, JamIs DEF RowsOK
<1>6. TemplatesOK
  BY <1>1, <1>2 DEF TemplatesOK
<1>7. ControlOK
  BY <1>1, <1>4 DEF ControlOK, Init
<1> QED
  BY <1>5, <1>6, <1>7 DEF Framed

\* The actions that take a row and have no template for it.
LEMMA GivenFramed ==
  ASSUME Framed, NEW r, Given(r), r.to \in [Ecs -> 0 .. lastdfa],
         scheme # "fast" /\ ds = EobState => r.to = NoRow.to, tnxt' = tnxt
  PROVE  Framed'
<1>1. RowsOK' /\ Len(rows') = Len(rows) + 1 /\ Len(rows) \in Nat
  BY GivenRows DEF Framed
<1>2. TemplatesOK'
  <2>1. placed' = placed /\ TemplatesOK
    BY DEF Given, Framed
  <2> QED
    BY <1>1, <2>1 DEF TemplatesOK, IsSeq
<1>3. ControlOK'
  BY DEF Given, Framed, ControlOK, options
<1> QED
  BY <1>1, <1>2, <1>3 DEF Framed

LEMMA MkTemplateFramed ==
  ASSUME Framed, NEW r \in Rows, MkTemplate(r)
  PROVE  Framed'
<1>1. /\ Given(r) /\ scheme = "compressed" /\ ds # EobState /\ tnxt' = Append(tnxt, TemplateRow(r))
      /\ ~TooFew(r) /\ Homogeneous(r) /\ IsSeq(tnxt) /\ placed' = placed
  BY DEF MkTemplate, Compressed, Given, Framed, TemplatesOK
<1>2. RowsOK' /\ Len(rows') = Len(rows) + 1 /\ Len(rows) \in Nat
  BY <1>1, GivenRows, RowsAre DEF Framed
<1>3. Flat(TemplateRow(r))
  BY <1>1, TemplateRowFlat DEF Framed
<1>4. PICK n \in Nat : n = Len(tnxt) /\ 1 .. n + 1 = (1 .. n) \cup {n + 1}
  <2>1. Len(tnxt) \in Nat
    BY <1>1, AppendIsSeq
  <2> QED
    BY <2>1
<1>5. /\ IsSeq(tnxt') /\ Len(tnxt') = n + 1 /\ tnxt'[n + 1] = TemplateRow(r)
      /\ \A k \in 1 .. n : tnxt'[k] = tnxt[k]
  BY <1>1, <1>4, AppendIsSeq
<1>6. \A k \in 1 .. n + 1 : Flat(tnxt'[k])
  BY <1>3, <1>4, <1>5 DEF Framed, TemplatesOK
<1>7. TemplatesOK'
  <2>1. n <= Len(rows) /\ placed \in 0 .. n
    BY <1>4 DEF Framed, TemplatesOK
  <2>2. n + 1 <= Len(rows') /\ placed' \in 0 .. n + 1
    BY <1>1, <1>2, <2>1
  <2> QED
    BY <1>5, <1>6, <2>2 DEF TemplatesOK, Flat
<1>8. ControlOK'
  BY <1>1 DEF Given, Framed, ControlOK, options
<1> QED
  BY <1>2, <1>7, <1>8 DEF Framed

\* The others keep the rows.
LEMMA LaterFramed ==
  ASSUME Framed, rows' = rows, nul' = nul, tnxt' = tnxt, scheme' = scheme, nultrans' = nultrans,
         placed' \in 0 .. Len(tnxt), ControlOK'
  PROVE  Framed'
<1>1. RowsOK'
  BY DEF Framed, RowsOK, IsSeq
<1>2. TemplatesOK'
  BY DEF Framed, TemplatesOK, IsSeq
<1> QED
  BY <1>1, <1>2 DEF Framed

LEMMA PlacedIs ==
  ASSUME Framed PROVE placed \in 0 .. Len(tnxt) /\ Len(tnxt) \in Nat /\ placed \in Nat
<1>1. Len(tnxt) \in Nat
  BY AppendIsSeq DEF Framed, TemplatesOK
<1> QED
  BY <1>1 DEF Framed, TemplatesOK

LEMMA StepFramed == ASSUME Framed, [Next]_vars PROVE Framed'
<1>1. CASE UNCHANGED vars
  <2>1. ControlOK'
    BY <1>1 DEF Framed, ControlOK, vars
  <2> QED
    BY <1>1, <2>1, LaterFramed, PlacedIs DEF vars
<1>2. CASE EndOfBufferState
  BY <1>2, GivenFramed, NoRowIs DEF EndOfBufferState
<1>3. ASSUME NEW r \in Rows, NEW over \in Behind(r), SmallState(r, over) PROVE Framed'
  BY <1>3, GivenFramed, RowsAre DEF SmallState, Compressed
<1>4. ASSUME NEW r \in Rows, NEW over \in Behind(r), NewProto(r, over) PROVE Framed'
  BY <1>4, GivenFramed, RowsAre DEF NewProto, Compressed
<1>5. ASSUME NEW r \in Rows, MkTemplate(r) PROVE Framed'
  BY <1>5, MkTemplateFramed
<1>6. ASSUME NEW r \in Rows, UseProto(r) PROVE Framed'
  BY <1>6, GivenFramed, RowsAre DEF UseProto, Compressed
<1>7. ASSUME NEW r \in Rows, FullRow(r) PROVE Framed'
  BY <1>7, GivenFramed, RowsAre DEF FullRow
<1>8. ASSUME NEW r \in Rows, PlaceState(r) PROVE Framed'
  BY <1>8, GivenFramed, RowsAre DEF PlaceState
<1>9. CASE RowsEnd
  <2>1. ControlOK'
    BY <1>9, PlacedIs DEF RowsEnd, options, Framed, ControlOK, TemplatesOK
  <2> QED
    BY <1>9, <2>1, LaterFramed, PlacedIs DEF RowsEnd, options
<1>10. CASE Cmptmps
  <2>1. ControlOK'
    BY <1>10 DEF Cmptmps, options, Framed, ControlOK
  <2>2. placed' \in 0 .. Len(tnxt)
    BY <1>10, PlacedIs DEF Cmptmps
  <2> QED
    BY <1>10, <2>1, <2>2, LaterFramed DEF Cmptmps, options
<1>11. CASE OneTransition
  <2>1. ControlOK'
    BY <1>11 DEF OneTransition, options, Framed, ControlOK
  <2> QED
    BY <1>11, <2>1, LaterFramed, PlacedIs DEF OneTransition, options
<1>12. CASE Mkdeftbl
  <2>1. ControlOK'
    BY <1>12 DEF Mkdeftbl, options, Framed, ControlOK
  <2> QED
    BY <1>12, <2>1, LaterFramed, PlacedIs DEF Mkdeftbl, options
<1>13. CASE Gentabs
  <2>1. ControlOK'
    BY <1>13 DEF Gentabs, options, Framed, ControlOK
  <2> QED
    BY <1>13, <2>1, LaterFramed, PlacedIs DEF Gentabs, options
<1>14. CASE PlaceState0
  <2>1. ControlOK'
    BY <1>14 DEF PlaceState0, options, Framed, ControlOK
  <2> QED
    BY <1>14, <2>1, LaterFramed, PlacedIs DEF PlaceState0, options
<1>15. CASE Genctbl
  <2>1. ControlOK'
    BY <1>15 DEF Genctbl, options, Framed, ControlOK
  <2> QED
    BY <1>15, <2>1, LaterFramed, PlacedIs DEF Genctbl, options
<1>16. CASE Terminated
  <2>1. ControlOK'
    BY <1>16 DEF Framed, ControlOK, vars, Terminated
  <2> QED
    BY <1>16, <2>1, LaterFramed, PlacedIs DEF vars, Terminated
<1> QED
  BY <1>1, <1>2, <1>3, <1>4, <1>5, <1>6, <1>7, <1>8, <1>9, <1>10, <1>11, <1>12, <1>13, <1>14,
     <1>15, <1>16 DEF Next

----------------------------------------------------------------------------
(* One row more in the tables                                              *)

Growing == Grows(rows, rows') /\ Grows(tnxt, tnxt') /\ nultrans' = nultrans

LEMMA MeansKept ==
  ASSUME Growing, NEW d, d = JAMSTATE \/ d \in Named
  PROVE  /\ Means(d)' = Means(d) /\ (d # JAMSTATE => d \in Named' /\ Content'[d] = Content[d])
<1>1. Within(Content, Content')
  BY ContentWithin DEF Growing
<1>2. d \in Named => d \in Named' /\ Content'[d] = Content[d]
  BY <1>1 DEF Within, Content
<1> QED
  BY <1>2 DEF Means, WithEob, Jams, Characters

\* What a state has goes on to be its row.
LEMMA StateKept ==
  ASSUME Growing, NEW s \in 1 .. Len(rows), StateOK(tbl, s), Same(tbl, tbl', s)
  PROVE  StateOK(tbl, s)'
<1>1. rows'[s] = rows[s]
  BY DEF Growing, Grows
<1>2. /\ Entries(tbl, s)' = Entries(tbl, s) /\ Default(tbl, s)' = Default(tbl, s)
      /\ (Jammed(tbl, s)' <=> Jammed(tbl, s))
  BY DEF Same
<1>3. PICK d : d = Default(tbl, s)
  OBVIOUS
<1>4. d = JAMSTATE \/ (d \in Named /\ d < s)
  BY <1>3 DEF StateOK
<1>5. /\ Means(d)' = Means(d) /\ (d # JAMSTATE => d \in Named')
  BY <1>4, MeansKept
<1>6. Goal(s)' = Goal(s)
  BY <1>1 DEF Growing, Goal, Row, WithEob, Characters
<1>7. Default(tbl, s)' = d
  BY <1>2, <1>3
<1>8. \A c \in Characters :
         Goal(s)[c] = IF c \in DOMAIN Entries(tbl, s) THEN Entries(tbl, s)[c] ELSE Means(d)[c]
  BY <1>3 DEF StateOK
<1>9. s # EobState => (Jammed(tbl, s) <=> rows[s] = NoRow.to)
  BY DEF StateOK
<1>10. NoRow' = NoRow /\ Characters' = Characters
  BY DEF NoRow, Characters
<1>11. /\ d = JAMSTATE \/ (d \in Named' /\ d < s)
       /\ \A c \in Characters : Goal(s)'[c] = IF c \in DOMAIN Entries(tbl, s)' THEN Entries(tbl, s)'[c]
                                             ELSE Means(d)'[c]
       /\ s # EobState => (Jammed(tbl, s)' <=> rows'[s] = NoRow.to)
  BY <1>1, <1>2, <1>4, <1>5, <1>6, <1>8, <1>9
<1> QED
  BY <1>7, <1>10, <1>11 DEF StateOK

\* A state that has got its entries.
LEMMA StateIs ==
  ASSUME Growing, NEW s \in States, s = Len(rows'), NEW r, rows'[s] = r.to, s # EobState,
         NEW t, NEW L, NEW needed, NEW row, NEW d, NEW jam,
         Puts(t, tbl', L, s, needed, row, numecs, d, jam), needed \subseteq Ecs,
         d = JAMSTATE \/ (d \in Named' /\ d < s),
         \A c \in Ecs : Row(r)[c] = IF c \in needed THEN row[c]
                                    ELSE IF d = JAMSTATE THEN 0 ELSE Content'[d][c],
         jam <=> r.to = NoRow.to
  PROVE  StateOK(tbl, s)'
<1>1. Default(tbl, s)' = d /\ (Jammed(tbl, s)' <=> jam)
      /\ \A c \in Characters : (c \in DOMAIN Entries(tbl, s)' <=> c \in needed)
                               /\ (c \in needed => Entries(tbl, s)'[c] = row[c])
  BY DEF Puts, Characters
<1>2. Means(d)' = IF d = JAMSTATE THEN Jams ELSE WithEob(Content'[d])
  BY DEF Means, Jams, WithEob, Characters
<1>3. Goal(s)' = WithEob(Row(r))
  BY DEF Growing, Goal, Row, WithEob, Characters
<1>4. Characters = {0} \cup Ecs /\ 0 \notin Ecs
  BY NumecsIsNat DEF Characters, Ecs
<1>5. ASSUME NEW c \in Characters
      PROVE  Goal(s)'[c] = IF c \in DOMAIN Entries(tbl, s)' THEN Entries(tbl, s)'[c] ELSE Means(d)'[c]
  <2>1. CASE c = 0
    <3>1. c \notin needed
      BY <1>4, <2>1
    <3>2. Goal(s)'[c] = EobState /\ Means(d)'[c] = EobState
      BY <1>2, <1>3, <2>1, <1>4 DEF WithEob, Jams
    <3> QED
      BY <1>1, <1>2, <3>1, <3>2
  <2>2. CASE c \in Ecs
    <3>1. c # 0
      BY <1>4, <2>2
    <3>2. Goal(s)'[c] = Row(r)[c]
      BY <1>3, <3>1 DEF WithEob
    <3>3. Means(d)'[c] = IF d = JAMSTATE THEN 0 ELSE Content'[d][c]
      BY <1>2, <3>1 DEF WithEob, Jams
    <3> QED
      BY <1>1, <1>2, <2>2, <3>2, <3>3
  <2> QED
    BY <1>4, <2>1, <2>2
<1>6. NoRow' = NoRow /\ Characters' = Characters
  BY DEF NoRow, Characters
<1> QED
  BY <1>1, <1>2, <1>5, <1>6 DEF StateOK

\* All of them, when the row of ds comes in.
LEMMA RowPacked ==
  ASSUME Framed, Growing, pc = "rows", placed' = placed, Packed(tbl), Len(rows) < lastdfa,
         Len(rows') = Len(rows) + 1,
         NEW s, s = Len(rows'), Sound(tbl', Listed \cup {s}),
         \A y \in AllStates \ {0, s} : Same(tbl, tbl', y), StateOK(tbl, s)'
  PROVE  Packed(tbl)'
<1>1. PICK n \in Nat : n = Len(rows) /\ s = n + 1 /\ n < lastdfa
  BY DEF Growing, Grows
<1>2. placed = 0
  BY DEF Framed, ControlOK
<1>3. Listed = 1 .. n /\ Listed' = 1 .. n + 1 /\ (1 .. n) \cup {s} = 1 .. n + 1
  BY <1>1, <1>2 DEF Listed
<1>4. Sound(tbl', Listed')
  BY <1>3
<1>5. ASSUME NEW y \in 1 .. n PROVE StateOK(tbl, y)'
  <2>1. y \in AllStates \ {0, s}
    BY <1>1, JamIs DEF AllStates
  <2>2. StateOK(tbl, y)
    BY <1>1 DEF Packed, Right
  <2> QED
    BY <1>1, <2>1, <2>2, StateKept
<1>6. \A y \in 1 .. n + 1 : StateOK(tbl, y)'
  BY <1>1, <1>3, <1>5
<1>7. Right(tbl)'
  BY <1>1, <1>2, <1>6 DEF Right
<1> QED
  BY <1>4, <1>7 DEF Packed

\* No template has a number that means to jam.
Distinguishable == lastdfa < -JAMSTATE

LEMMA NewState ==
  ASSUME Framed, Packed(tbl), NEW r, Given(r), r.to \in [Ecs -> 0 .. lastdfa],
         scheme # "fast" /\ ds = EobState => r.to = NoRow.to,
         tnxt' = tnxt \/ \E e : tnxt' = Append(tnxt, e)
  PROVE  \E s \in States : /\ s = ds /\ s = Len(rows') /\ s \in AllStates /\ s # 0 /\ s \notin Listed
                           /\ rows'[s] = r.to /\ Len(rows) \in Nat /\ s = Len(rows) + 1
                           /\ Growing
<1>1. /\ Len(rows') = Len(rows) + 1 /\ rows'[Len(rows) + 1] = r.to /\ Len(rows) \in Nat
  BY GivenRows DEF Framed
<1>2. Len(rows) < lastdfa /\ pc = "rows" /\ nultrans' = nultrans /\ rows' = Append(rows, r.to)
  BY DEF Given, options
<1>3. PICK n \in Nat : n = Len(rows) /\ n < lastdfa
  BY <1>1, <1>2
<1>4. placed = 0
  BY <1>2 DEF Framed, ControlOK
<1>5. n + 1 \notin Listed /\ n + 1 \in States /\ n + 1 \in AllStates /\ n + 1 # 0
  BY <1>3, <1>4, JamIs DEF Listed, States, AllStates
<1>6. Growing
  BY <1>2, AppendGrows DEF Growing, Framed, RowsOK, TemplatesOK
<1> QED
  BY <1>1, <1>3, <1>5, <1>6 DEF ds

LEMMA EndOfBufferPacked ==
  ASSUME Framed, Packed(tbl), EndOfBufferState PROVE Packed(tbl)'
<1>1. /\ Given(NoRow) /\ tbl' = Stack1(tbl, ds, 0, 0, JAMSTATE) /\ ds = EobState /\ tnxt' = tnxt
  BY DEF EndOfBufferState
<1>2. PICK s \in States : /\ s = ds /\ s = Len(rows') /\ s \in AllStates /\ s # 0 /\ s \notin Listed
                          /\ rows'[s] = NoRow.to /\ Len(rows) \in Nat /\ s = Len(rows) + 1 /\ Growing
  BY <1>1, NewState, NoRowIs
<1>3. PICK E : E = [c \in {0} |-> 0]
  OBVIOUS
<1>4. 0 \in Classes
  BY JamIs DEF Classes
<1>5. Gives(tbl, tbl', Listed, s, E, JAMSTATE, FALSE)
  BY <1>1, <1>2, <1>3, <1>4, Stack1Gives DEF Packed
<1>6. /\ Sound(tbl', Listed \cup {s}) /\ Entries(tbl, s)' = E /\ Default(tbl, s)' = JAMSTATE
      /\ \A y \in AllStates \ {0, s} : Same(tbl, tbl', y)
  BY <1>5 DEF Gives
<1>7. s = EobState
  BY <1>1, <1>2
<1>8. \A c \in Characters : Goal(s)'[c] = 0
  BY <1>7 DEF Goal, Characters
<1>9. \A c \in Characters : Means(JAMSTATE)'[c] = IF c = 0 THEN EobState ELSE 0
  BY DEF Means, Jams, Characters
<1>10. \A c \in Characters :
         Goal(s)'[c] = IF c \in DOMAIN Entries(tbl, s)' THEN Entries(tbl, s)'[c]
                       ELSE Means(JAMSTATE)'[c]
  BY <1>3, <1>6, <1>8, <1>9
<1>11. Characters' = Characters
  BY DEF Characters
<1>12. StateOK(tbl, s)'
  BY <1>6, <1>7, <1>10, <1>11 DEF StateOK
<1> QED
  BY <1>1, <1>2, <1>6, <1>12, RowPacked DEF Given, Framed

\* A row put down whole.
LEMMA WholePacked ==
  ASSUME Framed, Packed(tbl), NEW r \in Rows, Given(r), ds # EobState, tnxt' = tnxt, NEW over,
         tbl' = MkEntry(tbl, Row(r), numecs, ds, JAMSTATE, Total(r), over)
  PROVE  Packed(tbl)'
<1>1. PICK s \in States : /\ s = ds /\ s = Len(rows') /\ s \in AllStates /\ s # 0 /\ s \notin Listed
                          /\ rows'[s] = r.to /\ Len(rows) \in Nat /\ s = Len(rows) + 1 /\ Growing
  BY NewState, RowsAre
<1>2. PICK needed : needed = {c \in 1 .. numecs : NeedsEntry(Row(r), c, JAMSTATE)}
  OBVIOUS
<1>3. needed \subseteq Ecs /\ \A c \in Ecs : c \in needed <=> Row(r)[c] # 0
  <2>1. \A c \in Ecs : Row(r)[c] # SAME_TRANS
    <3>1. \A v \in 0 .. lastdfa : v # SAME_TRANS
      BY JamIs DEF SAME_TRANS
    <3> QED
      BY <3>1, RowIs
  <2> QED
    BY <1>2, <2>1 DEF NeedsEntry, Ecs
<1>4. IsFiniteSet(Symbols(r)) /\ Symbols(r) \subseteq Ecs
  <2>1. IsFiniteSet(Ecs)
    BY FS_Interval, SizesAre DEF Ecs
  <2>2. Symbols(r) \subseteq Ecs
    BY DEF Symbols
  <2> QED
    BY <2>1, <2>2, FS_Subset
<1>5. Total(r) \in {Cardinality(needed), Cardinality(needed) + 1}
  <2>1. CASE nultrans /\ NUL_ec \in Symbols(r)
    <3>1. needed = Symbols(r) \ {NUL_ec}
      BY <1>3, <2>1, RowIs DEF Symbols
    <3>2. Cardinality(Symbols(r) \ {NUL_ec}) = Cardinality(Symbols(r)) - 1
      BY <1>4, <2>1, FS_RemoveElement
    <3>3. Cardinality(Symbols(r)) \in Nat /\ Cardinality(needed) = Cardinality(Symbols(r)) - 1
      BY <1>4, <3>1, <3>2, FS_CardinalityType
    <3> QED
      BY <3>3 DEF Total
  <2>2. CASE ~(nultrans /\ NUL_ec \in Symbols(r))
    <3>1. needed = Symbols(r)
      BY <1>3, <2>2, RowIs DEF Symbols
    <3> QED
      BY <3>1 DEF Total
  <2> QED
    BY <2>1, <2>2
<1>6. PICK jam : jam = (Total(r) = 0 /\ JAMSTATE = JAMSTATE)
  OBVIOUS
<1>7. jam <=> r.to = NoRow.to
  <2>1. Total(r) = 0 <=> Symbols(r) = {}
    BY <1>4, FS_EmptySet DEF Total
  <2>2. Symbols(r) = {} <=> r.to = NoRow.to
    <3>1. r.to = [c \in Ecs |-> r.to[c]]
      BY RowsAre
    <3> QED
      BY <3>1 DEF Symbols, NoRow
  <2> QED
    BY <1>6, <2>1, <2>2
<1>8. Puts(tbl, tbl', Listed, s, needed, Row(r), numecs, JAMSTATE, jam)
  BY <1>1, <1>2, <1>5, <1>6, MkEntryPuts, NumecsIsNat DEF Packed
<1>9. \A c \in Ecs : Row(r)[c] = IF c \in needed THEN Row(r)[c] ELSE 0
  BY <1>3
<1>10. StateOK(tbl, s)'
  BY <1>1, <1>3, <1>7, <1>8, <1>9, StateIs
<1>11. Sound(tbl', Listed \cup {s}) /\ \A y \in AllStates \ {0, s} : Same(tbl, tbl', y)
  BY <1>8 DEF Puts
<1> QED
  BY <1>1, <1>10, <1>11, RowPacked DEF Given, Framed

\* A row put down as a difference to that of d.
Spells(R, P, row, needed) ==
  \A c \in Ecs : R[c] = IF c \in needed THEN row[c] ELSE P[c]

LEMMA DifferenceIs ==
  ASSUME NEW R, \A c \in Ecs : R[c] \in 0 .. lastdfa, NEW P, NEW d, d # JAMSTATE,
         NEW row, row = Without(R, P),
         NEW needed, \A c : c \in needed <=> c \in Ecs /\ NeedsEntry(row, c, d)
  PROVE  /\ needed \subseteq Ecs /\ Cardinality(needed) = Differences(R, P)
         /\ Spells(R, P, row, needed)
<1>1. \A c \in Ecs : R[c] # SAME_TRANS
  BY JamIs DEF SAME_TRANS
<1>2. \A c \in Ecs : row[c] = IF P[c] = R[c] THEN SAME_TRANS ELSE R[c]
  BY DEF Without
<1>3. needed = {c \in Ecs : P[c] # R[c]}
  BY <1>1, <1>2 DEF NeedsEntry, Ecs
<1> QED
  BY <1>2, <1>3 DEF Differences, Spells

LEMMA DifferencePacked ==
  ASSUME Framed, Packed(tbl), scheme = "compressed", NEW r \in Rows, Given(r), ds # EobState,
         ~TooFew(r), tnxt' = tnxt \/ \E e : tnxt' = Append(tnxt, e),
         NEW d, d # JAMSTATE, d \in Named', d < ds, NEW P, P = Content'[d],
         tbl' = MkEntry(tbl, Without(Row(r), P), numecs, ds, d, Differences(Row(r), P), 0)
  PROVE  Packed(tbl)'
<1>1. PICK s \in States : /\ s = ds /\ s = Len(rows') /\ s \in AllStates /\ s # 0 /\ s \notin Listed
                          /\ rows'[s] = r.to /\ Len(rows) \in Nat /\ s = Len(rows) + 1 /\ Growing
  BY NewState, RowsAre
<1>2. PICK R : R = Row(r) /\ \A c \in Ecs : R[c] \in 0 .. lastdfa
  BY RowIs
<1>3. PICK row, total : row = Without(R, P) /\ total = Differences(R, P)
  OBVIOUS
<1>4. PICK needed : needed = {c \in 1 .. numecs : NeedsEntry(row, c, d)}
  OBVIOUS
<1>5. /\ needed \subseteq Ecs /\ Cardinality(needed) = total
      /\ Spells(R, P, row, needed)
  <2>1. \A c : c \in needed <=> c \in Ecs /\ NeedsEntry(row, c, d)
    BY <1>4 DEF Ecs
  <2> QED
    BY <1>2, <1>3, <2>1, DifferenceIs
<1>6. PICK jam : jam = (total = 0 /\ d = JAMSTATE)
  OBVIOUS
<1>7. Puts(tbl, tbl', Listed, s, needed, row, numecs, d, jam)
  <2>1. tbl' = MkEntry(tbl, row, numecs, s, d, total, 0) /\ total \in {Cardinality(needed), Cardinality(needed) + 1}
    BY <1>1, <1>2, <1>3, <1>5
  <2> QED
    BY <1>1, <1>4, <1>6, <2>1, MkEntryPuts, NumecsIsNat DEF Packed
<1>8. ~jam /\ r.to # NoRow.to
  <2>1. \E c \in Ecs : Row(r)[c] # 0
    BY LongRow DEF Framed
  <2>2. \E c \in Ecs : r.to[c] # 0
    BY <2>1, RowIs
  <2> QED
    BY <1>6, <2>2 DEF NoRow
<1>9. StateOK(tbl, s)'
  <2>1. \A c \in Ecs : Row(r)[c] = IF c \in needed THEN row[c]
                                   ELSE IF d = JAMSTATE THEN 0 ELSE Content'[d][c]
    BY <1>2, <1>5 DEF Spells
  <2>2. d = JAMSTATE \/ (d \in Named' /\ d < s)
    BY <1>1
  <2> QED
    BY <1>1, <1>5, <1>7, <1>8, <2>1, <2>2, StateIs
<1>10. Sound(tbl', Listed \cup {s}) /\ \A y \in AllStates \ {0, s} : Same(tbl, tbl', y)
  BY <1>7 DEF Puts
<1> QED
  BY <1>1, <1>9, <1>10, RowPacked DEF Given, Framed

LEMMA MkTemplatePacked ==
  ASSUME Distinguishable, Framed, ProtosOK, Packed(tbl), NEW r \in Rows, MkTemplate(r)
  PROVE  Packed(tbl)'
<1>1. /\ Given(r) /\ scheme = "compressed" /\ ds # EobState /\ ~TooFew(r) /\ nultrans' = nultrans
      /\ rows' = Append(rows, r.to) /\ tnxt' = Append(tnxt, TemplateRow(r))
      /\ prot' = MkProt(prot, TemplateRow(r), -Len(tnxt'), Com(r))
      /\ tbl' = MkEntry(tbl, Without(Row(r), prot'.save[prot'.first]), numecs, ds, -Len(tnxt'),
                        Differences(Row(r), prot'.save[prot'.first]), 0)
  BY DEF MkTemplate, Compressed, Given, options
<1>2. PICK k \in Nat, s \in Nat : /\ k = Len(tnxt) /\ s = Len(rows) /\ k <= s /\ s < lastdfa
  <2>1. Len(tnxt) \in Nat /\ Len(rows) \in Nat /\ Len(tnxt) <= Len(rows) /\ Len(rows) < lastdfa
    BY <1>1, AppendIsSeq DEF Framed, TemplatesOK, RowsOK, Given
  <2> QED
    BY <2>1
<1>3. PICK d : d = -Len(tnxt')
  OBVIOUS
<1>4. Len(tnxt') = k + 1 /\ tnxt'[k + 1] = TemplateRow(r)
  BY <1>1, <1>2, AppendIsSeq DEF Framed, TemplatesOK
<1>5. d \in Int /\ d < 0 /\ -d = k + 1 /\ d < ds /\ d # JAMSTATE /\ k + 1 \in 1 .. k + 1
  <2>1. d \in Int /\ d < 0 /\ -d = k + 1 /\ d < s + 1
    BY <1>2, <1>3, <1>4
  <2>2. k + 1 <= lastdfa
    BY <1>2, JamIs
  <2>3. d # JAMSTATE
    BY <2>1, <2>2, JamIs DEF Distinguishable
  <2> QED
    BY <1>2, <2>1, <2>3 DEF ds
<1>6. d \in Named' /\ Content'[d] = TemplateRow(r)
  <2>1. d \in Named'
    BY <1>3, <1>4, <1>5 DEF Named
  <2> QED
    BY <1>4, <1>5, <2>1 DEF Content
<1>7. prot'.save[prot'.first] = TemplateRow(r)
  <2>1. Growing
    BY <1>1, AppendGrows DEF Growing, Framed, RowsOK, TemplatesOK
  <2>2. PICK n \in Nat : Queued(prot, Content', n)
    BY <2>1, ContentWithin, QueuedWithin DEF ProtosOK, Growing
  <2>3. d \in DOMAIN Content'
    BY <1>6 DEF Content
  <2> QED
    BY <1>1, <1>3, <1>6, <2>2, <2>3, MkProtQueued
<1>8. PICK P : P = Content'[d]
  OBVIOUS
<1>9. tbl' = MkEntry(tbl, Without(Row(r), P), numecs, ds, d, Differences(Row(r), P), 0)
  BY <1>1, <1>3, <1>6, <1>7, <1>8
<1>10. tnxt' = tnxt \/ \E e : tnxt' = Append(tnxt, e)
  BY <1>1
<1> QED
  BY <1>1, <1>5, <1>6, <1>8, <1>9, <1>10, DifferencePacked

LEMMA UseProtoPacked ==
  ASSUME Distinguishable, Framed, ProtosOK, Packed(tbl), NEW r \in Rows, UseProto(r)
  PROVE  Packed(tbl)'
<1>1. PICK e : e = Best(r).slot
  OBVIOUS
<1>2. /\ Given(r) /\ scheme = "compressed" /\ ds # EobState /\ ~TooFew(r) /\ ~Unlike(r) /\ nultrans' = nultrans
      /\ rows' = Append(rows, r.to) /\ tnxt' = tnxt
      /\ tbl' = MkEntry(tbl, Without(Row(r), prot.save[e]), numecs, ds, prot.tbl[e], Best(r).diff, 0)
  BY <1>1 DEF UseProto, Compressed, Given, options
<1>3. PICK n \in Nat : Queued(prot, Content, n)
  BY DEF ProtosOK
<1>4. e \in 1 .. n /\ Best(r).diff = Differences(Row(r), prot.save[e])
  BY <1>1, <1>2, <1>3, BestInQueue
<1>5. PICK d : d = prot.tbl[e]
  OBVIOUS
<1>6. d \in Named /\ prot.save[e] = Content[d]
  <2>1. d \in DOMAIN Content /\ prot.save[e] = Content[d]
    BY <1>3, <1>4, <1>5 DEF Queued, Filled
  <2> QED
    BY <2>1 DEF Content
<1>7. Growing
  BY <1>2, AppendGrows DEF Growing, Framed, RowsOK, TemplatesOK
<1>8. PICK k \in Nat, s \in Nat : /\ k = Len(tnxt) /\ s = Len(rows) /\ k <= s /\ s < lastdfa
  <2>1. Len(tnxt) \in Nat /\ Len(rows) \in Nat /\ Len(tnxt) <= Len(rows) /\ Len(rows) < lastdfa
    BY <1>2, AppendIsSeq DEF Framed, TemplatesOK, RowsOK, Given
  <2> QED
    BY <2>1
<1>9. d < ds /\ d # JAMSTATE
  <2>1. CASE d \in 1 .. s
    BY <1>8, <2>1, JamIs DEF ds
  <2>2. ASSUME NEW m \in 1 .. k, d = -m PROVE d < ds /\ d # JAMSTATE
    <3>1. d \in Int /\ d < 0 /\ -d <= lastdfa
      BY <1>8, <2>2, JamIs
    <3>2. d # JAMSTATE
      BY <3>1, JamIs DEF Distinguishable
    <3> QED
      BY <1>8, <3>1, <3>2 DEF ds
  <2> QED
    BY <1>6, <1>8, <2>1, <2>2 DEF Named
<1>10. PICK P : P = Content'[d]
  OBVIOUS
<1>11. d \in Named' /\ P = prot.save[e]
  BY <1>6, <1>7, <1>9, <1>10, MeansKept
<1>12. tbl' = MkEntry(tbl, Without(Row(r), P), numecs, ds, d, Differences(Row(r), P), 0)
  BY <1>2, <1>4, <1>5, <1>11
<1> QED
  BY <1>2, <1>9, <1>10, <1>11, <1>12, DifferencePacked

----------------------------------------------------------------------------
(* The templates, and the rows that waited                                 *)

LEMMA TemplateKept ==
  ASSUME tnxt' = tnxt, usemecs' = usemecs, NEW n, TemplateOK(tbl, n), Same(tbl, tbl', TemplateState(n))
  PROVE  TemplateOK(tbl, n)'
<1>1. PICK x : x = TemplateState(n)
  OBVIOUS
<1>2. TransSets' = TransSets
  BY DEF TransSets
<1>3. \A c : Meta(c)' = Meta(c)
  BY <1>2 DEF Meta
<1>4. TemplateState(n)' = x
  BY <1>1 DEF TemplateState, jamstate
<1>5. /\ Default(tbl, x) = JAMSTATE /\ ~Jammed(tbl, x)
      /\ \A c \in Characters :
           WithEob(tnxt[n])[c] = IF Meta(c) \in DOMAIN Entries(tbl, x) THEN Entries(tbl, x)[Meta(c)]
                                 ELSE Jams[Meta(c)]
  BY <1>1 DEF TemplateOK
<1>6. Entries(tbl', x) = Entries(tbl, x) /\ Default(tbl', x) = JAMSTATE /\ ~Jammed(tbl', x)
  BY <1>1, <1>5 DEF Same
<1>7. /\ Default(tbl', x) = JAMSTATE /\ ~Jammed(tbl', x)
      /\ \A c \in Characters :
           WithEob(tnxt'[n])[c] = IF Meta(c)' \in DOMAIN Entries(tbl', x) THEN Entries(tbl', x)[Meta(c)']
                                  ELSE Jams[Meta(c)']
  BY <1>3, <1>5, <1>6
<1> QED
  BY <1>4, <1>7 DEF TemplateOK

LEMMA ListedStates ==
  ASSUME Framed
  PROVE  /\ Listed \subseteq AllStates \ {0} /\ Len(rows) \in Nat /\ Len(rows) <= lastdfa
         /\ \A n \in 1 .. Len(tnxt) : /\ TemplateState(n) \in AllStates \ {0}
                                      /\ TemplateState(n) > jamstate
                                      /\ TemplateState(n) \notin 1 .. Len(rows)
<1>1. PICK k \in Nat, s \in Nat : /\ k = Len(tnxt) /\ s = Len(rows) /\ k <= s /\ s <= lastdfa
  <2>1. Len(tnxt) \in Nat /\ Len(rows) \in Nat /\ Len(tnxt) <= Len(rows) /\ Len(rows) <= lastdfa
    BY AppendIsSeq DEF Framed, TemplatesOK, RowsOK
  <2> QED
    BY <2>1
<1>2. ASSUME NEW n \in 1 .. k
      PROVE  /\ TemplateState(n) \in AllStates \ {0} /\ TemplateState(n) > jamstate
             /\ TemplateState(n) \notin 1 .. s
  BY <1>1, JamIs DEF TemplateState, jamstate, AllStates
<1>3. \A n \in 1 .. placed : n \in 1 .. k
  BY <1>1 DEF Framed, TemplatesOK
<1>4. \A n \in 1 .. s : n \in AllStates \ {0}
  BY <1>1, JamIs DEF AllStates
<1> QED
  BY <1>1, <1>2, <1>3, <1>4 DEF Listed

LEMMA OldKept ==
  ASSUME Framed, Right(tbl), rows' = rows, tnxt' = tnxt, nultrans' = nultrans, usemecs' = usemecs,
         NEW L, Listed \subseteq L, \A y \in L : Same(tbl, tbl', y)
  PROVE  /\ \A s \in 1 .. Len(rows) : StateOK(tbl, s)'
         /\ \A n \in 1 .. placed : TemplateOK(tbl, n)'
<1>1. Growing
  BY AppendGrows DEF Growing, Framed, RowsOK, TemplatesOK
<1>2. ASSUME NEW s \in 1 .. Len(rows) PROVE StateOK(tbl, s)'
  <2>1. s \in Listed /\ StateOK(tbl, s)
    BY DEF Listed, Right
  <2> QED
    BY <1>1, <2>1, StateKept
<1>3. ASSUME NEW n \in 1 .. placed PROVE TemplateOK(tbl, n)'
  <2>1. TemplateState(n) \in Listed /\ TemplateOK(tbl, n)
    BY DEF Listed, Right
  <2> QED
    BY <2>1, TemplateKept
<1> QED
  BY <1>2, <1>3

LEMMA SamePacked ==
  ASSUME Framed, Packed(tbl), rows' = rows, tnxt' = tnxt, nultrans' = nultrans, usemecs' = usemecs,
         placed' = placed, Sound(tbl', Listed), \A y \in AllStates \ {0} : Same(tbl, tbl', y)
  PROVE  Packed(tbl)'
<1>1. Listed' = Listed
  BY DEF Listed, TemplateState, jamstate
<1>2. /\ \A s \in 1 .. Len(rows) : StateOK(tbl, s)'
      /\ \A n \in 1 .. placed : TemplateOK(tbl, n)'
  BY ListedStates, OldKept DEF Packed
<1> QED
  BY <1>1, <1>2 DEF Packed, Right

LEMMA OneTransitionPacked ==
  ASSUME Framed, Packed(tbl), OneTransition PROVE Packed(tbl)'
<1>1. tbl.one # <<>>
  BY DEF OneTransition
<1>2. PICK e, u : e = Last(tbl.one) /\ u = tbl'
  OBVIOUS
<1>3. u = [Mk1tbl(tbl, e.state, e.sym, e.next, e.def) EXCEPT !.one = Front(@)]
  BY <1>2 DEF OneTransition
<1>4. Sound(u, Listed) /\ \A y \in AllStates \ {0} : Same(tbl, u, y)
  BY <1>1, <1>2, <1>3, ListedStates, WaiterSettles DEF Packed
<1> QED
  BY <1>2, <1>4, SamePacked DEF OneTransition, options

\* The columns of a template are those of the classes.
LEMMA Columns ==
  ASSUME Framed, NEW n \in 1 .. Len(tnxt),
         NEW tmp, tmp = [m \in 1 .. nummecs |-> tnxt[n][Min({c \in Ecs : Meta(c) = m})]]
  PROVE  /\ \A m \in 1 .. nummecs : tmp[m] \in 0 .. lastdfa
         /\ \A c \in Ecs : tmp[Meta(c)] = tnxt[n][c]
<1>1. tnxt[n] \in [Ecs -> 0 .. lastdfa]
      /\ \A c, d \in Ecs : tnxt[n][c] # 0 /\ tnxt[n][d] # 0 => tnxt[n][c] = tnxt[n][d]
  BY DEF Framed, TemplatesOK, Flat
<1>2. n \in DOMAIN tnxt
  BY DEF Framed, TemplatesOK, IsSeq
<1>3. ASSUME NEW m \in 1 .. nummecs
      PROVE  \E k \in Ecs : Meta(k) = m /\ tmp[m] = tnxt[n][k]
  <2> DEFINE S == {c \in Ecs : Meta(c) = m}
  <2>1. S # {} /\ S \subseteq Ecs
    BY MetaRange
  <2>2. \A c \in S : Meta(c) = m
    OBVIOUS
  <2> HIDE DEF S
  <2>3. Min(S) \in S
    <3>1. S \subseteq Int /\ S # {} /\ 1 \in Int /\ \A y \in S : 1 <= y
      BY <2>1, NumecsIsNat DEF Ecs
    <3> QED
      BY <3>1, MinIs
  <2> QED
    BY <2>1, <2>2, <2>3 DEF S
<1>4. ASSUME NEW c \in Ecs PROVE tmp[Meta(c)] = tnxt[n][c]
  <2>1. Meta(c) \in 1 .. nummecs
    BY MetaRange
  <2>2. PICK k \in Ecs : Meta(k) = Meta(c) /\ tmp[Meta(c)] = tnxt[n][k]
    BY <1>3, <2>1
  <2>3. PICK T : T = {d \in Ecs : tnxt[n][d] # 0}
    OBVIOUS
  <2>4. T \in TransSets
    BY <1>2, <2>3 DEF TransSets
  <2>5. k \in T <=> c \in T
    BY <2>2, <2>4, MetaAlike
  <2> QED
    BY <1>1, <2>2, <2>3, <2>5
<1> QED
  BY <1>1, <1>3, <1>4

LEMMA TemplatePacked ==
  ASSUME Framed, pc = "templates", Packed(tbl), Cmptmps PROVE Packed(tbl)'
<1>1. PICK n : n = placed + 1
  OBVIOUS
<1>2. PICK tmp : tmp = [m \in 1 .. nummecs |-> tnxt[n][Min({c \in Ecs : Meta(c) = m})]]
  OBVIOUS
<1>3. PICK total : total = Cardinality({m \in 1 .. nummecs : tmp[m] > 0})
  OBVIOUS
<1>4. /\ tbl' = MkEntry(tbl, tmp, nummecs, TemplateState(n), JAMSTATE, total, 0) /\ placed' = n
      /\ rows' = rows /\ tnxt' = tnxt /\ nultrans' = nultrans /\ usemecs' = usemecs
      /\ placed < Len(tnxt)
  BY <1>1, <1>2, <1>3 DEF Cmptmps, options
<1>5. n \in 1 .. Len(tnxt) /\ placed \in Nat /\ 1 .. n = (1 .. placed) \cup {n} /\ n \notin 1 .. placed
  BY <1>1, <1>4, PlacedIs
<1>6. PICK x : x = TemplateState(n)
  OBVIOUS
<1>7. x \in AllStates /\ x # 0 /\ x \notin Listed /\ Listed' = Listed \cup {x}
  <2>1. x \in AllStates \ {0} /\ x \notin 1 .. Len(rows)
    BY <1>5, <1>6, ListedStates
  <2>2. \A m \in 1 .. placed : TemplateState(m) # x
    BY <1>5, <1>6, JamIs DEF TemplateState, jamstate
  <2>3. x \notin Listed
    BY <2>1, <2>2 DEF Listed
  <2>4. \A m : TemplateState(m)' = TemplateState(m)
    BY DEF TemplateState, jamstate
  <2>5. Listed' = Listed \cup {x}
    BY <1>4, <1>5, <1>6, <2>4 DEF Listed
  <2> QED
    BY <2>1, <2>3, <2>5
<1>8. /\ \A m \in 1 .. nummecs : tmp[m] \in 0 .. lastdfa
      /\ \A c \in Ecs : tmp[Meta(c)] = tnxt[n][c]
  BY <1>2, <1>5, Columns
<1>9. PICK needed : needed = {m \in 1 .. nummecs : NeedsEntry(tmp, m, JAMSTATE)}
  OBVIOUS
<1>10. nummecs \in Nat /\ nummecs <= numecs
  BY MetaRange, NumecsIsNat
<1>11. /\ \A m : m \in needed <=> m \in 1 .. nummecs /\ tmp[m] # 0
       /\ needed = {m \in 1 .. nummecs : tmp[m] > 0}
  <2>1. \A m \in 1 .. nummecs : tmp[m] # SAME_TRANS /\ (tmp[m] # 0 <=> tmp[m] > 0)
    BY <1>8, JamIs DEF SAME_TRANS
  <2> QED
    BY <1>9, <2>1 DEF NeedsEntry
<1>12. total = Cardinality(needed)
  BY <1>3, <1>11
<1>13. total # 0
  <2>1. \E c \in Ecs : tnxt[n][c] # 0
    BY <1>5 DEF Framed, TemplatesOK, Flat
  <2>2. needed # {}
    BY <1>8, <1>11, <2>1, MetaRange
  <2>3. IsFiniteSet(1 .. nummecs) /\ needed \subseteq 1 .. nummecs
    BY <1>10, <1>11, FS_Interval
  <2>4. IsFiniteSet(needed)
    BY <2>3, FS_Subset
  <2> QED
    BY <1>12, <2>2, <2>4, FS_EmptySet
<1>14. PICK jam : jam = (total = 0 /\ JAMSTATE = JAMSTATE)
  OBVIOUS
<1>15. Puts(tbl, tbl', Listed, x, needed, tmp, nummecs, JAMSTATE, jam)
  <2>1. tbl' = MkEntry(tbl, tmp, nummecs, x, JAMSTATE, total, 0)
        /\ total \in {Cardinality(needed), Cardinality(needed) + 1}
    BY <1>4, <1>6, <1>12
  <2> QED
    BY <1>7, <1>9, <1>10, <1>14, <2>1, MkEntryPuts DEF Packed
<1>16. /\ Sound(tbl', Listed') /\ \A y \in AllStates \ {0, x} : Same(tbl, tbl', y)
       /\ Default(tbl', x) = JAMSTATE /\ ~Jammed(tbl', x)
       /\ \A m \in 0 .. nummecs : /\ m \in DOMAIN Entries(tbl', x) <=> m \in needed
                                  /\ m \in needed => Entries(tbl', x)[m] = tmp[m]
  BY <1>7, <1>13, <1>14, <1>15 DEF Puts
<1>17. TemplateOK(tbl, n)'
  <2>1. TransSets' = TransSets
    BY <1>4 DEF TransSets
  <2>2. \A c : Meta(c)' = Meta(c)
    BY <1>4, <2>1 DEF Meta
  <2>3. TemplateState(n)' = x
    BY <1>6 DEF TemplateState, jamstate
  <2>4. ASSUME NEW c \in Characters
        PROVE  WithEob(tnxt[n])[c] = IF Meta(c) \in DOMAIN Entries(tbl', x)
                                     THEN Entries(tbl', x)[Meta(c)] ELSE Jams[Meta(c)]
    <3>1. CASE c = 0
      <4>1. Meta(c) = 0 /\ 0 \notin needed /\ 0 \in 0 .. nummecs /\ 0 \in Characters
        BY <1>10, <1>11, <3>1, MetaRange, NumecsIsNat DEF Characters
      <4> QED
        BY <1>16, <3>1, <4>1 DEF WithEob, Jams
    <3>2. CASE c # 0
      <4>1. c \in Ecs
        BY <3>2, NumecsIsNat DEF Characters, Ecs
      <4>2. PICK m : m = Meta(c)
        OBVIOUS
      <4>3. m \in 1 .. nummecs /\ m \in 0 .. nummecs /\ m # 0 /\ m \in Characters
        BY <1>10, <4>1, <4>2, MetaRange, NumecsIsNat DEF Characters
      <4>4. WithEob(tnxt[n])[c] = tmp[m]
        BY <1>8, <3>2, <4>1, <4>2 DEF WithEob
      <4>5. Jams[m] = 0
        BY <4>3 DEF Jams
      <4> QED
        BY <1>11, <1>16, <4>2, <4>3, <4>4, <4>5
    <3> QED
      BY <3>1, <3>2
  <2>5. Characters' = Characters /\ Jams' = Jams
    BY DEF Characters, Jams
  <2>6. /\ Default(tbl', x) = JAMSTATE /\ ~Jammed(tbl', x)
        /\ \A c \in Characters :
             WithEob(tnxt'[n])[c] = IF Meta(c)' \in DOMAIN Entries(tbl', x) THEN Entries(tbl', x)[Meta(c)']
                                    ELSE Jams[Meta(c)']
    BY <1>4, <1>16, <2>2, <2>4
  <2> QED
    BY <2>3, <2>5, <2>6 DEF TemplateOK
<1>18. /\ \A s \in 1 .. Len(rows) : StateOK(tbl, s)'
       /\ \A m \in 1 .. placed : TemplateOK(tbl, m)'
  <2>1. \A y \in Listed : Same(tbl, tbl', y)
    BY <1>7, <1>16, ListedStates
  <2> QED
    BY <1>4, <2>1, OldKept DEF Packed
<1>19. Right(tbl)'
  BY <1>4, <1>5, <1>17, <1>18 DEF Right
<1> QED
  BY <1>16, <1>19 DEF Packed

----------------------------------------------------------------------------
(* The jam state                                                           *)

LEMMA JamstateIs ==
  ASSUME Framed PROVE jamstate \in AllStates /\ jamstate # 0 /\ jamstate \notin Listed
<1>1. jamstate \in AllStates /\ jamstate # 0 /\ jamstate \in Nat
  BY JamIs DEF jamstate, AllStates
<1>2. jamstate \notin 1 .. Len(rows)
  BY ListedStates, JamIs DEF jamstate
<1>3. ASSUME NEW n \in 1 .. placed PROVE TemplateState(n) # jamstate
  <2>1. n \in Int /\ n >= 1
    BY PlacedIs
  <2> QED
    BY <1>1, <2>1 DEF TemplateState
<1> QED
  BY <1>1, <1>2, <1>3 DEF Listed

LEMMA MkdeftblFinishes ==
  ASSUME Framed, Packed(tbl), Mkdeftbl PROVE Finished(tbl)'
<1>1. PICK t, u, b : t = tbl /\ u = tbl' /\ b = t.tblend + 1
  OBVIOUS
<1>2. PICK g : g = Grown(t, b + numecs + 1)
  OBVIOUS
<1>3. PICK own : own = b .. b + numecs
  OBVIOUS
<1>4. /\ u = [g EXCEPT !.chk = [a \in DOMAIN @ |-> IF a \in own THEN jamstate ELSE @[a]],
                       !.nxt = [a \in DOMAIN @ |-> IF a = b THEN EobState
                                                   ELSE IF a \in own THEN 0 ELSE @[a]],
                       !.base[jamstate] = b, !.def[jamstate] = 0,
                       !.tblend = b + numecs]
      /\ t.one = <<>> /\ rows' = rows /\ tnxt' = tnxt /\ nultrans' = nultrans /\ usemecs' = usemecs
      /\ placed' = placed
  BY <1>1, <1>2, <1>3 DEF Mkdeftbl, options
<1>5. Sound(t, Listed) /\ Right(tbl)
  BY <1>1 DEF Packed
<1>6. Shaped(t) /\ EmptyBehind(t) /\ Behaved(t) /\ Owned(t, Listed)
  BY <1>5 DEF Sound, Arrays
<1>7. PICK top \in Nat : /\ top = t.tblend /\ b = top + 1 /\ t.size \in Nat /\ t.size > top
                         /\ t.firstfree \in 1 .. top + 1
  BY <1>1, <1>6, BehavedSize DEF Shaped, Behaved
<1>8. b \in Nat /\ b >= 1 /\ b # JAMSTATE /\ b + numecs + 1 \in Int /\ b + numecs \in Nat
  BY <1>7, JamIs
<1>9. Extends(g, t) /\ g.size >= b + numecs + 1
  BY <1>2, <1>6, <1>8, GrownFits
<1>10. Shaped(g) /\ g.one = t.one /\ g.firstfree = t.firstfree
  BY <1>9 DEF Extends
<1>11. g.base = t.base /\ g.def = t.def
  BY <1>2, GrownKeeps
<1>12. /\ DOMAIN g.chk = 0 .. g.size - 1 /\ DOMAIN g.nxt = 0 .. g.size - 1 /\ g.size \in Nat
       /\ \A c \in DOMAIN t.chk : c \in DOMAIN g.chk /\ g.chk[c] = t.chk[c] /\ g.nxt[c] = t.nxt[c]
       /\ \A c \in DOMAIN g.chk : g.chk[c] # 0 => c \in DOMAIN t.chk
  BY <1>6, <1>7, <1>9, ExtendsIs
<1>13. /\ DOMAIN u = Fields /\ u.size = g.size /\ u.one = t.one /\ u.firstfree = t.firstfree
       /\ u.tblend = b + numecs
       /\ u.base = [t.base EXCEPT ![jamstate] = b] /\ u.def = [t.def EXCEPT ![jamstate] = 0]
       /\ u.chk = [a \in DOMAIN g.chk |-> IF a \in own THEN jamstate ELSE g.chk[a]]
       /\ u.nxt = [a \in DOMAIN g.nxt |-> IF a = b THEN EobState ELSE IF a \in own THEN 0 ELSE g.nxt[a]]
  BY <1>4, <1>10, <1>11 DEF Shaped, Fields
<1>14. \A a \in own : a \in DOMAIN g.chk /\ a \in DOMAIN g.nxt /\ a >= b /\ a \in Int
  BY <1>3, <1>8, <1>9, <1>12
<1>15. \A a \in DOMAIN t.chk : t.chk[a] # 0 => a \notin own /\ a # b
  <2>1. \A a \in DOMAIN t.chk : a \in Int
    BY <1>6 DEF Shaped
  <2>2. \A a \in DOMAIN t.chk : t.chk[a] # 0 => a <= top
    BY <1>6, <1>7, <2>1 DEF EmptyBehind
  <2> QED
    BY <1>7, <1>14, <2>1, <2>2
<1>16. jamstate \in AllStates /\ jamstate # 0 /\ jamstate \notin Listed
  BY JamstateIs
<1>17. Wrote(t, u, jamstate, b, 0, Jams)
  <2>1. ASSUME NEW c \in Characters
        PROVE  /\ c \in Classes /\ b + c \in DOMAIN u.chk
               /\ u.chk[b + c] = jamstate /\ u.nxt[b + c] = Jams[c]
    <3>1. c \in Nat /\ c <= numecs /\ c \in Classes
      BY NumecsIsNat DEF Characters, Classes
    <3>2. PICK a : a = b + c
      OBVIOUS
    <3>3. a \in own /\ (a = b <=> c = 0)
      BY <1>3, <1>8, <3>1, <3>2, NumecsIsNat
    <3>4. u.chk[a] = jamstate /\ u.nxt[a] = IF c = 0 THEN EobState ELSE 0
      BY <1>13, <1>14, <3>3
    <3> QED
      BY <1>13, <1>14, <3>1, <3>2, <3>3, <3>4 DEF Jams
  <2>2. ASSUME NEW a \in DOMAIN t.chk, t.chk[a] # 0
        PROVE  a \in DOMAIN u.chk /\ u.chk[a] = t.chk[a] /\ u.nxt[a] = t.nxt[a]
    BY <1>12, <1>13, <1>15, <2>2
  <2>3. ASSUME NEW a \in DOMAIN u.chk, u.chk[a] # 0
        PROVE  \/ a \in DOMAIN t.chk /\ u.chk[a] = t.chk[a]
               \/ u.chk[a] = jamstate /\ \E c \in Characters : a = b + c
    <3>1. CASE a \in own
      <4>1. a - b \in Characters /\ a = b + (a - b)
        BY <1>3, <1>8, <3>1, NumecsIsNat DEF Characters
      <4> QED
        BY <1>13, <2>3, <3>1, <4>1
    <3>2. CASE a \notin own
      BY <1>12, <1>13, <2>3, <3>2
    <3> QED
      BY <3>1, <3>2
  <2>4. DOMAIN Jams = Characters
    BY DEF Jams
  <2> QED
    BY <1>8, <1>13, <2>1, <2>2, <2>3, <2>4 DEF Wrote
<1>18. /\ Entries(u, jamstate) = Jams
       /\ \A y \in AllStates \ {0, jamstate} : Same(t, u, y)
  <2>1. PICK E : E = Jams
    OBVIOUS
  <2>2. E = [c \in DOMAIN E |-> E[c]]
    BY <2>1 DEF Jams
  <2>3. \A y : ~Waits(u, y) /\ ~Waits(t, y)
    BY <1>4, <1>13 DEF Waits
  <2>4. \A a \in DOMAIN t.chk : t.chk[a] # jamstate
    BY <1>6, <1>16, FreshIs
  <2>5. b \in Int
    BY <1>8
  <2> QED
    BY <1>5, <1>6, <1>16, <1>17, <2>1, <2>2, <2>3, <2>4, <2>5, SoundIs, WroteGives
<1>19. Shaped(u)
  BY <1>8, <1>10, <1>12, <1>13 DEF Shaped
<1>20. \A x \in AllStates \ {jamstate} : u.base[x] \in 0 .. u.base[jamstate] - 1 \cup {JAMSTATE}
  <2>1. u.base[jamstate] = b /\ b - 1 = top
    BY <1>6, <1>7, <1>13, <1>16 DEF Behaved
  <2>2. \A x \in AllStates \ {jamstate} : u.base[x] = t.base[x]
    BY <1>6, <1>13 DEF Behaved
  <2> QED
    BY <1>6, <1>7, <2>1, <2>2 DEF Behaved
<1>21. u.chk[0] = 0 /\ \A a \in DOMAIN u.chk : u.chk[a] \in AllStates
  <2>1. 0 \in AllStates
    BY JamIs DEF AllStates
  <2>2. \A a \in DOMAIN t.chk : t.chk[a] \in AllStates
    BY <1>6, <2>1, ListedStates DEF Owned
  <2>3. \A a \in DOMAIN u.chk : u.chk[a] \in AllStates
    BY <1>12, <1>13, <1>16, <2>1, <2>2
  <2>4. 0 \in DOMAIN t.chk /\ 0 \notin own
    BY <1>3, <1>6, <1>7, <1>8 DEF Shaped
  <2> QED
    BY <1>6, <1>12, <1>13, <2>3, <2>4 DEF Behaved
<1>22. Right(tbl)'
  <2>1. \A y \in Listed : Same(tbl, tbl', y)
    BY <1>1, <1>16, <1>18, ListedStates
  <2> QED
    BY <1>4, <1>5, <2>1, OldKept DEF Right
<1>23. jamstate' = jamstate /\ Jams' = Jams
  BY DEF jamstate, Jams, Characters
<1>24. /\ Shaped(u) /\ u.one = <<>> /\ DOMAIN u.base = AllStates /\ DOMAIN u.def = AllStates
       /\ u.base[jamstate] \in Nat /\ u.base[jamstate] >= 1
       /\ u.tblend = u.base[jamstate] + numecs /\ u.size > u.tblend
       /\ u.firstfree \in 1 .. u.base[jamstate]
  <2>1. DOMAIN u.base = AllStates /\ DOMAIN u.def = AllStates /\ u.base[jamstate] = b
    BY <1>6, <1>13, <1>16 DEF Behaved
  <2>2. u.size > b + numecs /\ u.firstfree \in 1 .. b
    BY <1>7, <1>8, <1>9, <1>12, <1>13
  <2> QED
    BY <1>4, <1>8, <1>13, <1>19, <2>1, <2>2
<1> QED
  BY <1>1, <1>18, <1>20, <1>21, <1>22, <1>23, <1>24 DEF Finished

----------------------------------------------------------------------------
(* gentabs()                                                               *)

LEMMA StatesAre ==
  /\ jamstate \in Nat /\ jamstate = lastdfa + 1 /\ jamstate # 0
  /\ \A s \in States : s \in Nat /\ s >= 1 /\ s < jamstate /\ s \in AllStates
  /\ \A n \in Nat \ {0} : TemplateState(n) \in Nat /\ TemplateState(n) > jamstate
                          /\ TemplateState(n) >= TemplateState(1)
  /\ \A s \in States : ~(s >= TemplateState(1))
  /\ ~(jamstate >= TemplateState(1))
BY JamIs DEF States, AllStates, jamstate, TemplateState

\* What a state or template finds in its row once the tables are finished.
LEMMA FoundIs ==
  ASSUME NEW t, Finished(t), NEW x \in AllStates \ {0}, x # jamstate, NEW c \in Characters,
         NEW base, t.base[x] # JAMSTATE => base = t.base[x],
         t.base[x] = JAMSTATE => base = t.base[jamstate]
  PROVE  /\ base \in Nat /\ base <= t.base[jamstate] /\ base + c \in DOMAIN t.chk /\ base + c <= t.tblend
         /\ t.chk[base + c] = x <=> c \in DOMAIN Entries(t, x)
         /\ t.chk[base + c] = x => base + c > 0 /\ t.nxt[base + c] = Entries(t, x)[c]
<1>1. PICK jb \in Nat : jb = t.base[jamstate]
  BY DEF Finished
<1>2. /\ t.one = <<>> /\ jb >= 1 /\ t.tblend = jb + numecs /\ t.size > t.tblend /\ t.size \in Nat
      /\ DOMAIN t.chk = 0 .. t.size - 1 /\ t.chk[0] = 0
  BY <1>1 DEF Finished, Shaped
<1>3. c \in Nat /\ c <= numecs /\ c \in Classes
  BY NumecsIsNat DEF Characters, Classes
<1>4. base \in Nat /\ base <= jb
  <2>1. t.base[x] \in 0 .. jb - 1 \cup {JAMSTATE}
    BY <1>1 DEF Finished
  <2> QED
    BY <1>1, <2>1
<1>5. base + c \in DOMAIN t.chk /\ base + c <= t.tblend
  BY <1>2, <1>3, <1>4, NumecsIsNat
<1>6. ~Waits(t, x) /\ ~Waits(t, jamstate)
  BY <1>2 DEF Waits
<1>7. Entries(t, x) = [e \in {d \in Classes : Has(t, x, d)} |-> t.nxt[t.base[x] + e]]
  BY <1>6 DEF Entries
<1>8. CASE t.base[x] # JAMSTATE
  <2>1. base = t.base[x]
    BY <1>8
  <2>2. Has(t, x, c) <=> t.chk[base + c] = x
    BY <1>5, <1>8, <2>1 DEF Has
  <2>3. t.chk[base + c] = x => base + c > 0
    <3>1. PICK a : a = base + c
      OBVIOUS
    <3>2. a \in Nat /\ (t.chk[a] = x => a # 0)
      BY <1>2, <1>3, <1>4, <3>1
    <3> QED
      BY <3>1, <3>2
  <2> QED
    BY <1>1, <1>3, <1>4, <1>5, <1>7, <2>1, <2>2, <2>3
<1>9. CASE t.base[x] = JAMSTATE
  <2>1. base = jb
    BY <1>1, <1>9
  <2>2. c \notin DOMAIN Entries(t, x)
    BY <1>7, <1>9 DEF Has
  <2>3. c \in DOMAIN Entries(t, jamstate)
    BY DEF Finished, Jams
  <2>4. Has(t, jamstate, c)
    BY <1>6, <2>3 DEF Entries
  <2>5. t.chk[base + c] # x
    BY <1>1, <2>1, <2>4 DEF Has
  <2> QED
    BY <1>1, <1>4, <1>5, <2>2, <2>5
<1> QED
  BY <1>8, <1>9

LEMMA JamFound ==
  ASSUME NEW t, Finished(t), NEW c \in Characters
  PROVE  /\ t.base[jamstate] + c \in DOMAIN t.chk /\ t.base[jamstate] + c > 0
         /\ t.base[jamstate] + c <= t.tblend
         /\ t.chk[t.base[jamstate] + c] = jamstate /\ t.nxt[t.base[jamstate] + c] = Jams[c]
<1>1. PICK jb \in Nat : jb = t.base[jamstate]
  BY DEF Finished
<1>2. t.one = <<>> /\ jb >= 1 /\ t.tblend = jb + numecs
  BY <1>1 DEF Finished
<1>3. c \in Nat /\ c <= numecs
  BY NumecsIsNat DEF Characters
<1>4. ~Waits(t, jamstate)
  BY <1>2 DEF Waits
<1>5. c \in DOMAIN Entries(t, jamstate) /\ Entries(t, jamstate)[c] = Jams[c]
  BY DEF Finished, Jams
<1>6. Has(t, jamstate, c) /\ t.nxt[jb + c] = Jams[c]
  BY <1>1, <1>4, <1>5 DEF Entries
<1> QED
  BY <1>1, <1>2, <1>3, <1>6, NumecsIsNat DEF Has

\* gentabs(), field by field.
Made(t, u) ==
  /\ u.chk = t.chk /\ u.tblend = t.tblend /\ u.size = t.size /\ u.one = t.one
  /\ DOMAIN u.nxt = DOMAIN t.nxt
  /\ \A a \in DOMAIN t.nxt : u.nxt[a] = IF a > 0 /\ (t.chk[a] = 0 \/ t.nxt[a] = 0) THEN jamstate ELSE t.nxt[a]
  /\ \A x \in AllStates : u.base[x] = IF x \in States /\ t.base[x] = JAMSTATE THEN t.base[jamstate]
                                      ELSE t.base[x]
  /\ \A s \in States : u.def[s] = IF t.def[s] = JAMSTATE THEN jamstate
                                  ELSE IF t.def[s] < 0 THEN TemplateState(-t.def[s]) ELSE t.def[s]
  /\ \A n \in 1 .. Len(tnxt) : u.def[TemplateState(n)] = jamstate

LEMMA GentabsMade ==
  ASSUME Framed, Finished(tbl), Gentabs PROVE Made(tbl, tbl')
<1>1. DOMAIN tnxt = 1 .. Len(tnxt)
  BY DEF Framed, TemplatesOK, IsSeq
<1>2. PICK templates : templates = {TemplateState(n) : n \in DOMAIN tnxt}
  OBVIOUS
<1>3. \A s \in States : s \notin templates
  <2>1. \A n \in 1 .. Len(tnxt) : n \in Nat \ {0}
    BY PlacedIs
  <2> QED
    BY <1>1, <1>2, <2>1, StatesAre
<1>4. PICK def : def = [s \in AllStates |-> IF s \in templates \/ tbl.def[s] = JAMSTATE THEN jamstate
                                            ELSE IF tbl.def[s] < 0 THEN TemplateState(-tbl.def[s])
                                            ELSE tbl.def[s]]
  OBVIOUS
<1>5. DOMAIN tbl = Fields /\ DOMAIN tbl.base = AllStates /\ DOMAIN tbl.def = AllStates
  BY DEF Finished, Shaped
<1>6. /\ tbl'.chk = tbl.chk /\ tbl'.tblend = tbl.tblend /\ tbl'.size = tbl.size /\ tbl'.one = tbl.one
      /\ tbl'.base = [s \in AllStates |-> IF s \in States /\ tbl.base[s] = JAMSTATE
                                          THEN tbl.base[jamstate] ELSE tbl.base[s]]
      /\ tbl'.def = [s \in AllStates |-> IF s \in States \cup templates THEN def[s] ELSE tbl.def[s]]
      /\ tbl'.nxt = [a \in DOMAIN tbl.nxt |-> IF a > 0 /\ (tbl.chk[a] = 0 \/ tbl.nxt[a] = 0)
                                              THEN jamstate ELSE tbl.nxt[a]]
  BY <1>2, <1>4, <1>5 DEF Gentabs, Fields
<1>7. \A n \in 1 .. Len(tnxt) : TemplateState(n) \in templates /\ TemplateState(n) \in AllStates
  BY <1>1, <1>2, ListedStates
<1> QED
  BY <1>3, <1>4, <1>6, <1>7, StatesAre DEF Made

\* Every row that is looked up from there on: what is found, or where it goes on.
Arrives(u, x, c, v) ==
  /\ u.base[x] \in Nat /\ u.base[x] + numecs <= u.tblend
  /\ Hit(u, x, c) => u.nxt[u.base[x] + c] = Then(v)
  /\ ~Hit(u, x, c) => Steps(u.def[x]) < Steps(x) /\ Leads(u.def[x], Column(u, x, c), v)

LEMMA StateArrives ==
  ASSUME Framed, Len(rows) = lastdfa, Finished(tbl), NEW u, Made(tbl, u),
         NEW s \in States, NEW c \in Characters
  PROVE  /\ Arrives(u, s, c, Goal(s)[c])
         /\ s # EobState => (u.base[s] = u.base[jamstate] <=> rows[s] = NoRow.to)
<1>1. PICK t, b, v : t = tbl /\ b = u.base[s] /\ v = Goal(s)[c]
  OBVIOUS
<1>2. Finished(t) /\ Made(t, u) /\ s \in AllStates \ {0} /\ s # jamstate /\ s \in 1 .. Len(rows)
      /\ s \in Nat /\ s >= 1
  BY <1>1, StatesAre DEF States
<1>3. (t.base[s] # JAMSTATE => b = t.base[s]) /\ (t.base[s] = JAMSTATE => b = t.base[jamstate])
  BY <1>1, <1>2 DEF Made
<1>4. /\ b \in Nat /\ b <= t.base[jamstate] /\ b + c \in DOMAIN t.chk /\ b + c <= t.tblend
      /\ t.chk[b + c] = s <=> c \in DOMAIN Entries(t, s)
      /\ t.chk[b + c] = s => b + c > 0 /\ t.nxt[b + c] = Entries(t, s)[c]
  BY <1>2, <1>3, FoundIs
<1>5. StateOK(t, s)
  BY <1>1, <1>2 DEF Finished, Right
<1>6. PICK d : d = t.def[s]
  OBVIOUS
<1>7. ~Waits(t, s)
  BY <1>2 DEF Waits, Finished
<1>8. /\ d = JAMSTATE \/ (d \in Named /\ d < s)
      /\ v = IF c \in DOMAIN Entries(t, s) THEN Entries(t, s)[c] ELSE Means(d)[c]
      /\ s # EobState => (t.base[s] = JAMSTATE <=> rows[s] = NoRow.to)
  <2>1. Default(t, s) = d /\ (Jammed(t, s) <=> t.base[s] = JAMSTATE)
    BY <1>6, <1>7 DEF Default, Jammed
  <2> QED
    BY <1>1, <1>5, <2>1 DEF StateOK
<1>9. /\ DOMAIN t.chk = DOMAIN t.nxt /\ u.chk = t.chk /\ u.tblend = t.tblend
      /\ t.tblend = t.base[jamstate] + numecs /\ t.base[jamstate] \in Nat
  BY <1>2 DEF Finished, Shaped, Made
<1>10. Hit(u, s, c) <=> t.chk[b + c] = s
  BY <1>1, <1>9 DEF Hit
<1>11. ASSUME Hit(u, s, c) PROVE u.nxt[b + c] = Then(v)
  <2>1. b + c > 0 /\ t.nxt[b + c] = v /\ t.chk[b + c] # 0 /\ b + c \in DOMAIN t.nxt
    BY <1>2, <1>4, <1>8, <1>9, <1>10, <1>11
  <2> QED
    BY <1>2, <2>1 DEF Made, Then
<1>12. ASSUME ~Hit(u, s, c) PROVE Steps(u.def[s]) < Steps(s) /\ Leads(u.def[s], Column(u, s, c), v)
  <2>1. v = Means(d)[c]
    BY <1>4, <1>8, <1>10, <1>12
  <2>2. Steps(s) = s + 1
    BY <1>2, StatesAre DEF Steps
  <2>3. CASE d = JAMSTATE
    <3>1. u.def[s] = jamstate
      BY <1>2, <1>6, <2>3 DEF Made
    <3>2. Column(u, s, c) = c
      BY <3>1, StatesAre DEF Column
    <3>3. v = Jams[c]
      BY <2>1, <2>3 DEF Means
    <3>4. Steps(jamstate) = 0
      BY DEF Steps
    <3> QED
      BY <1>2, <2>2, <3>1, <3>2, <3>3, <3>4 DEF Leads
  <2>4. ASSUME d # JAMSTATE, NEW m \in 1 .. Len(tnxt), d = -m
        PROVE  Steps(u.def[s]) < Steps(s) /\ Leads(u.def[s], Column(u, s, c), v)
    <3>1. m \in Nat \ {0} /\ d < 0 /\ -d = m
      BY <2>4, PlacedIs
    <3>2. u.def[s] = TemplateState(m)
      BY <1>2, <1>6, <2>4, <3>1 DEF Made
    <3>3. TemplateState(m) >= TemplateState(1) /\ TemplateState(m) > jamstate /\ TemplateState(m) \in Nat
      BY <3>1, StatesAre
    <3>4. Column(u, s, c) = Meta(c)
      BY <3>2, <3>3 DEF Column, Meta
    <3>5. v = WithEob(tnxt[m])[c]
      <4>1. Content[d] = tnxt[m]
        BY <1>8, <2>4, <3>1 DEF Content
      <4> QED
        BY <2>1, <2>4, <4>1 DEF Means
    <3>6. Steps(TemplateState(m)) = 1
      BY <3>3, StatesAre DEF Steps
    <3> QED
      BY <1>2, <2>2, <3>2, <3>4, <3>5, <3>6 DEF Leads
  <2>5. CASE d # JAMSTATE /\ d \in (1 .. Len(rows)) \ {EobState}
    <3>1. d \in States /\ ~(d < 0) /\ d \in Nat
      BY <2>5, ListedStates DEF States
    <3>2. u.def[s] = d
      BY <1>2, <1>6, <2>5, <3>1 DEF Made
    <3>3. Column(u, s, c) = c
      BY <3>1, <3>2, StatesAre DEF Column
    <3>4. v = Goal(d)[c]
      <4>1. Content[d] = Row([to |-> rows[d]])
        BY <1>8, <2>5, <3>1 DEF Content
      <4> QED
        BY <2>1, <2>5, <4>1 DEF Means, Goal
    <3>5. Steps(d) = d + 1 /\ d < s
      BY <1>8, <2>5, <3>1, StatesAre DEF Steps
    <3> QED
      BY <1>2, <2>2, <3>1, <3>2, <3>3, <3>4, <3>5 DEF Leads
  <2> QED
    BY <1>8, <2>3, <2>4, <2>5 DEF Named
<1>13. s # EobState => (u.base[s] = u.base[jamstate] <=> rows[s] = NoRow.to)
  <2>1. jamstate \notin States /\ jamstate \in AllStates
    BY StatesAre, JamstateIs
  <2>2. u.base[jamstate] = t.base[jamstate]
    BY <1>2, <2>1 DEF Made
  <2>3. t.base[s] # JAMSTATE => b # t.base[jamstate]
    <3>1. t.base[s] \in 0 .. t.base[jamstate] - 1 \cup {JAMSTATE} /\ t.base[jamstate] \in Nat
      BY <1>2 DEF Finished
    <3> QED
      BY <1>3, <3>1
  <2> QED
    BY <1>1, <1>3, <1>8, <2>2, <2>3
<1> QED
  BY <1>1, <1>4, <1>9, <1>11, <1>12, <1>13, NumecsIsNat DEF Arrives

LEMMA TemplateArrives ==
  ASSUME Framed, placed = Len(tnxt), Finished(tbl), NEW u, Made(tbl, u),
         NEW n \in 1 .. Len(tnxt), NEW e \in Characters
  PROVE  Arrives(u, TemplateState(n), Meta(e), WithEob(tnxt[n])[e])
<1>1. PICK t, x, b, c, v : /\ t = tbl /\ x = TemplateState(n) /\ b = u.base[x] /\ c = Meta(e)
                           /\ v = WithEob(tnxt[n])[e]
  OBVIOUS
<1>2. Finished(t) /\ Made(t, u) /\ x \in AllStates \ {0} /\ x # jamstate /\ x \notin States
      /\ n \in Nat \ {0} /\ x > jamstate /\ x \in Nat
  <2>1. n \in Nat \ {0}
    BY PlacedIs
  <2>2. x \in AllStates \ {0} /\ x > jamstate /\ x \in Nat
    BY <1>1, <2>1, ListedStates, StatesAre
  <2> QED
    BY <1>1, <2>1, <2>2, StatesAre
<1>3. c \in Characters
  BY <1>1, MetaRange, NumecsIsNat DEF Characters, Ecs
<1>4. TemplateOK(t, n)
  BY <1>1, <1>2 DEF Finished, Right
<1>5. ~Waits(t, x)
  BY <1>2 DEF Waits, Finished
<1>6. /\ t.def[x] = JAMSTATE /\ t.base[x] # JAMSTATE
      /\ v = IF c \in DOMAIN Entries(t, x) THEN Entries(t, x)[c] ELSE Jams[c]
  <2>1. Default(t, x) = t.def[x] /\ (Jammed(t, x) <=> t.base[x] = JAMSTATE)
    BY <1>5 DEF Default, Jammed
  <2> QED
    BY <1>1, <1>4, <2>1 DEF TemplateOK
<1>7. b = t.base[x]
  BY <1>1, <1>2 DEF Made
<1>8. /\ b \in Nat /\ b <= t.base[jamstate] /\ b + c \in DOMAIN t.chk /\ b + c <= t.tblend
      /\ t.chk[b + c] = x <=> c \in DOMAIN Entries(t, x)
      /\ t.chk[b + c] = x => b + c > 0 /\ t.nxt[b + c] = Entries(t, x)[c]
  BY <1>2, <1>3, <1>6, <1>7, FoundIs
<1>9. /\ DOMAIN t.chk = DOMAIN t.nxt /\ u.chk = t.chk /\ u.tblend = t.tblend
      /\ t.tblend = t.base[jamstate] + numecs /\ t.base[jamstate] \in Nat
  BY <1>2 DEF Finished, Shaped, Made
<1>10. Hit(u, x, c) <=> t.chk[b + c] = x
  BY <1>1, <1>9 DEF Hit
<1>11. ASSUME Hit(u, x, c) PROVE u.nxt[b + c] = Then(v)
  <2>1. b + c > 0 /\ t.nxt[b + c] = v /\ t.chk[b + c] # 0 /\ b + c \in DOMAIN t.nxt
    BY <1>2, <1>6, <1>8, <1>9, <1>10, <1>11
  <2> QED
    BY <1>2, <2>1 DEF Made, Then
<1>12. ASSUME ~Hit(u, x, c) PROVE Steps(u.def[x]) < Steps(x) /\ Leads(u.def[x], Column(u, x, c), v)
  <2>1. v = Jams[c]
    BY <1>6, <1>8, <1>10, <1>12
  <2>2. u.def[x] = jamstate
    BY <1>1, <1>2 DEF Made
  <2>3. Column(u, x, c) = c
    BY <2>2, StatesAre DEF Column
  <2>4. Steps(jamstate) = 0 /\ Steps(x) = 1
    BY <1>2, StatesAre DEF Steps
  <2> QED
    BY <1>3, <2>1, <2>2, <2>3, <2>4 DEF Leads
<1> QED
  BY <1>1, <1>8, <1>9, <1>11, <1>12, NumecsIsNat DEF Arrives

LEMMA JamArrives ==
  ASSUME Framed, Finished(tbl), NEW u, Made(tbl, u), NEW c \in Characters
  PROVE  Arrives(u, jamstate, c, Jams[c])
<1>1. PICK t, b : t = tbl /\ b = t.base[jamstate]
  OBVIOUS
<1>2. /\ b \in Nat /\ b + c \in DOMAIN t.chk /\ b + c > 0 /\ b + numecs <= t.tblend
      /\ t.chk[b + c] = jamstate /\ t.nxt[b + c] = Jams[c]
  BY <1>1, JamFound, NumecsIsNat DEF Finished
<1>3. u.base[jamstate] = b /\ u.chk = t.chk /\ u.tblend = t.tblend
  BY <1>1, StatesAre, JamstateIs DEF Made
<1>4. Hit(u, jamstate, c)
  BY <1>2, <1>3 DEF Hit
<1>5. u.nxt[b + c] = Then(Jams[c])
  <2>1. b + c \in DOMAIN t.nxt /\ t.chk[b + c] # 0
    BY <1>1, <1>2, StatesAre DEF Finished, Shaped
  <2> QED
    BY <1>1, <1>2, <2>1 DEF Made, Then
<1> QED
  BY <1>2, <1>3, <1>4, <1>5 DEF Arrives

LEMMA GentabsDecodes ==
  ASSUME Framed, pc = "emit", scheme = "compressed", Finished(tbl), Gentabs
  PROVE  Decoded(tbl)'
<1>1. /\ rows' = rows /\ tnxt' = tnxt /\ nultrans' = nultrans /\ usemecs' = usemecs
      /\ Len(rows) = lastdfa /\ placed = Len(tnxt)
  BY DEF Gentabs, options, Framed, ControlOK
<1>2. PICK u : u = tbl' /\ Made(tbl, u)
  BY GentabsMade
<1>3. ASSUME NEW x \in AllStates \ {0}, NEW c \in Characters, NEW v, Leads(x, c, v)
      PROVE  Arrives(u, x, c, v)
  BY <1>1, <1>2, <1>3, StateArrives, TemplateArrives, JamArrives DEF Leads
<1>4. \A s \in States \ {EobState} : u.base[s] = u.base[jamstate] <=> rows[s] = NoRow.to
  <2>1. 0 \in Characters
    BY NumecsIsNat DEF Characters
  <2> QED
    BY <1>1, <1>2, <2>1, StateArrives
<1>5. Decoded(u)
  <2>1. u.tblend \in Nat
    BY <1>2, NumecsIsNat DEF Made, Finished
  <2> QED
    BY <1>3, <1>4, <2>1 DEF Decoded, Arrives
<1>6. TransSets' = TransSets
  BY <1>1 DEF TransSets
<1>7. \A c : Meta(c)' = Meta(c)
  BY <1>1, <1>6 DEF Meta
<1>8. /\ jamstate' = jamstate /\ Jams' = Jams /\ Characters' = Characters /\ NoRow' = NoRow
      /\ \A n : TemplateState(n)' = TemplateState(n)
      /\ \A x : Steps(x)' = Steps(x) /\ Then(x)' = Then(x) /\ WithEob(x)' = WithEob(x)
  BY DEF jamstate, Jams, Characters, NoRow, TemplateState, Steps, Then, WithEob
<1>9. \A s : Goal(s)' = Goal(s)
  BY <1>1, <1>8 DEF Goal, Row
<1>10. \A x, c, v : Leads(x, c, v)' <=> Leads(x, c, v)
  BY <1>1, <1>7, <1>8, <1>9 DEF Leads
<1>11. \A x, c : Column(tbl, x, c)' = Column(u, x, c) /\ (Hit(tbl, x, c)' <=> Hit(u, x, c))
  BY <1>1, <1>2, <1>7, <1>8 DEF Column, Hit
<1> QED
  BY <1>1, <1>2, <1>5, <1>8, <1>10, <1>11 DEF Decoded

----------------------------------------------------------------------------
(* The scanner's lookup                                                    *)

\* One round of the loop of gen_next_compressed_state(), at a state and a column.
Round(t, p) == IF Hit(t, p[1], p[2]) THEN p ELSE <<t.def[p[1]], Column(t, p[1], p[2])>>

LEMMA LeadsIs ==
  ASSUME Framed, Len(rows) = lastdfa, NEW x, NEW c, NEW v, Leads(x, c, v)
  PROVE  x \in AllStates \ {0} /\ c \in Characters /\ Steps(x) \in Nat
<1>1. CASE x \in States /\ c \in Characters
  BY <1>1, StatesAre DEF Steps
<1>2. ASSUME NEW n \in 1 .. Len(tnxt), NEW e \in Characters, x = TemplateState(n), c = Meta(e)
      PROVE  x \in AllStates \ {0} /\ c \in Characters /\ Steps(x) \in Nat
  <2>1. x \in AllStates \ {0} /\ x > jamstate
    BY <1>2, ListedStates
  <2>2. c \in Characters
    BY <1>2, MetaRange, NumecsIsNat DEF Characters, Ecs
  <2> QED
    BY <2>1, <2>2 DEF Steps
<1>3. CASE x = jamstate /\ c \in Characters
  BY <1>3, JamstateIs DEF Steps
<1> QED
  BY <1>1, <1>2, <1>3 DEF Leads

LEMMA GoalRange ==
  ASSUME Framed, Len(rows) = lastdfa, NEW s \in States, NEW c \in Characters
  PROVE  Goal(s)[c] \in 0 .. lastdfa
<1>1. EobState \in 0 .. lastdfa /\ 0 \in 0 .. lastdfa
  BY SizesAssumption, JamIs DEF States
<1>2. rows[s] \in [Ecs -> 0 .. lastdfa]
  BY DEF Framed, RowsOK, States
<1>3. c # 0 => c \in Ecs
  BY NumecsIsNat DEF Characters, Ecs
<1> QED
  BY <1>1, <1>2, <1>3 DEF Goal, WithEob, Row

\* Following the defaults ends at the row that has the entry.
LEMMA LookupIs ==
  ASSUME Framed, Len(rows) = lastdfa, Decoded(tbl), NEW s \in States, NEW c \in Characters
  PROVE  LET p == Lookup(s, c)
         IN  /\ tbl.nxt[tbl.base[p[1]] + p[2]] = Then(Goal(s)[c])
             /\ tbl.base[p[1]] + c <= tbl.tblend
<1>1. PICK v : v = Goal(s)[c]
  OBVIOUS
<1>2. v \in 0 .. lastdfa /\ Leads(s, c, v)
  BY <1>1, GoalRange DEF Leads
<1>3. PICK N \in Nat : N = lastdfa + 2
  BY JamIs
<1>4. PICK S : S = {p \in (AllStates \ {0}) \X Characters : Leads(p[1], p[2], v)}
  OBVIOUS
<1>5. <<s, c>> \in S /\ Steps(s) \in Nat /\ Steps(s) < N
  <2>1. s \in AllStates \ {0}
    BY <1>2, LeadsIs
  <2>2. Steps(s) = s + 1 /\ s \in Nat /\ s <= lastdfa
    BY StatesAre DEF Steps, States
  <2> QED
    BY <1>2, <1>3, <1>4, <2>1, <2>2, JamIs
<1>6. ASSUME NEW p \in S
      PROVE  /\ Round(tbl, p) \in S /\ Steps(p[1]) \in Nat
             /\ Hit(tbl, p[1], p[2]) => Round(tbl, p) = p
             /\ ~Hit(tbl, p[1], p[2]) => Steps(Round(tbl, p)[1]) < Steps(p[1])
  <2>1. PICK x \in AllStates \ {0}, e \in Characters : p = <<x, e>> /\ Leads(x, e, v)
    BY <1>4
  <2>2. p[1] = x /\ p[2] = e /\ Steps(x) \in Nat
    BY <2>1, LeadsIs
  <2>3. CASE Hit(tbl, x, e)
    BY <2>1, <2>2, <2>3 DEF Round
  <2>4. CASE ~Hit(tbl, x, e)
    <3>1. PICK d, f : d = tbl.def[x] /\ f = Column(tbl, x, e)
      OBVIOUS
    <3>2. Steps(d) < Steps(x) /\ Leads(d, f, v)
      BY <1>2, <2>1, <2>4, <3>1 DEF Decoded
    <3>3. Round(tbl, p) = <<d, f>>
      BY <2>2, <2>4, <3>1 DEF Round
    <3>4. d \in AllStates \ {0} /\ f \in Characters
      BY <3>2, LeadsIs
    <3>5. <<d, f>> \in S
      BY <1>4, <3>2, <3>4
    <3> QED
      BY <2>2, <2>4, <3>2, <3>3, <3>5
  <2> QED
    BY <2>3, <2>4
<1> DEFINE Is(f) == f = [n \in 0 .. N |-> IF n = 0 THEN <<s, c>> ELSE Round(tbl, f[n - 1])]
<1>7. \E f : Is(f)
  <2>1. PICK G : G = [z \in (0 .. N) \X S |-> Round(tbl, z[2])]
    OBVIOUS
  <2>2. G \in [(0 .. N) \X S -> S]
    BY <1>6, <2>1
  <2>3. PICK f \in [0 .. N -> S] : Recursion(f, 0, N, <<s, c>>, G)
    <3>1. 0 \in Int /\ N \in Int /\ 0 <= N
      BY <1>3
    <3>2. PICK z \in S : z = <<s, c>>
      BY <1>5
    <3>3. PICK H \in [(0 .. N) \X S -> S] : H = G
      BY <2>2
    <3>4. \E f \in [0 .. N -> S] : Recursion(f, 0, N, z, H)
      BY <3>1, RecursionIs
    <3> QED
      BY <3>2, <3>3, <3>4
  <2>4. ASSUME NEW n \in 0 .. N, n # 0 PROVE G[<<n, f[n - 1]>>] = Round(tbl, f[n - 1])
    <3>1. n - 1 \in 0 .. N
      BY <1>3, <2>4
    <3>2. <<n, f[n - 1]>> \in (0 .. N) \X S
      BY <2>3, <3>1
    <3> QED
      BY <2>1, <3>2
  <2>5. Is(f)
    BY <2>3, <2>4 DEF Recursion
  <2> QED
    BY <2>5
<1>8. PICK f : Is(f) /\ Lookup(s, c) = f[N]
  <2>1. Lookup(s, c) = (CHOOSE f : Is(f))[N]
    BY <1>3 DEF Lookup, Round, Hit, Column
  <2> QED
    BY <1>7, <2>1
<1> HIDE DEF Is
<1>9. f[0] = <<s, c>> /\ \A n \in 1 .. N : f[n] = Round(tbl, f[n - 1])
  <2>1. f[0] = <<s, c>>
    BY <1>3, <1>8 DEF Is
  <2>2. ASSUME NEW n \in 1 .. N PROVE f[n] = Round(tbl, f[n - 1])
    <3>1. n \in 0 .. N /\ n # 0
      BY <1>3
    <3> QED
      BY <1>8, <3>1 DEF Is
  <2> QED
    BY <2>1, <2>2
<1> DEFINE P == {k \in Nat : k <= N => /\ f[k] \in S
                                       /\ Hit(tbl, f[k][1], f[k][2]) \/ Steps(f[k][1]) + k <= Steps(s)}
<1>10. 0 \in P
  <2>1. PICK z \in S : z = f[0] /\ z[1] = s
    BY <1>5, <1>9
  <2>2. Steps(z[1]) + 0 <= Steps(s)
    BY <1>5, <2>1
  <2> QED
    BY <2>1, <2>2
<1>11. ASSUME NEW k \in Nat, k \in P PROVE k + 1 \in P
  <2> SUFFICES ASSUME k + 1 <= N
               PROVE  /\ f[k + 1] \in S
                      /\ Hit(tbl, f[k + 1][1], f[k + 1][2]) \/ Steps(f[k + 1][1]) + (k + 1) <= Steps(s)
    OBVIOUS
  <2>1. k <= N /\ k + 1 \in 1 .. N /\ k + 1 - 1 = k
    BY <1>3
  <2>2. PICK p, q : p = f[k] /\ q = f[k + 1]
    OBVIOUS
  <2>3. p \in S /\ (Hit(tbl, p[1], p[2]) \/ Steps(p[1]) + k <= Steps(s))
    BY <1>11, <2>1, <2>2
  <2>4. q = Round(tbl, p)
    BY <1>9, <2>1, <2>2
  <2>5. q \in S /\ Steps(q[1]) \in Nat /\ Steps(p[1]) \in Nat
    BY <1>6, <2>3, <2>4
  <2>6. CASE Hit(tbl, p[1], p[2])
    BY <1>6, <2>2, <2>3, <2>4, <2>5, <2>6
  <2>7. CASE ~Hit(tbl, p[1], p[2])
    <3>1. Steps(q[1]) < Steps(p[1])
      BY <1>6, <2>3, <2>4, <2>7
    <3>2. Steps(q[1]) + (k + 1) <= Steps(s)
      BY <1>5, <2>3, <2>5, <2>7, <3>1
    <3> QED
      BY <2>2, <2>5, <3>2
  <2> QED
    BY <2>6, <2>7
<1> HIDE DEF P
<1>12. N \in P
  BY <1>3, <1>10, <1>11, SetInduction
<1>13. PICK p \in S : p = Lookup(s, c) /\ (Hit(tbl, p[1], p[2]) \/ Steps(p[1]) + N <= Steps(s))
  BY <1>3, <1>8, <1>12 DEF P
<1>14. Hit(tbl, p[1], p[2])
  <2>1. Steps(p[1]) \in Nat
    BY <1>6
  <2> QED
    BY <1>3, <1>5, <1>13, <2>1
<1>15. PICK x \in AllStates \ {0}, e \in Characters : p = <<x, e>> /\ Leads(x, e, v)
  BY <1>4
<1>16. tbl.base[x] \in Nat /\ tbl.base[x] + numecs <= tbl.tblend /\ tbl.nxt[tbl.base[x] + e] = Then(v)
  BY <1>2, <1>14, <1>15 DEF Decoded
<1>17. c \in Nat /\ c <= numecs
  BY NumecsIsNat DEF Characters
<1>18. tbl.base[x] + c <= tbl.tblend
  <2>1. tbl.tblend \in Int
    BY DEF Decoded
  <2> QED
    BY <1>16, <1>17, <2>1, NumecsIsNat
<1> QED
  BY <1>1, <1>13, <1>15, <1>16, <1>18

\* For every state and class the scanner finds what the rows say.
LEMMA GoalIs ==
  ASSUME Framed, Len(rows) = lastdfa, scheme # "fast", NEW s \in States, NEW c \in Characters,
         ~(nultrans /\ c = NUL_ec)
  PROVE  Goal(s)[c] = IF s = EobState \/ (c # 0 /\ rows[s][c] = 0) THEN 0
                      ELSE IF c = 0 THEN EobState ELSE rows[s][c]
<1>1. c # 0 => c \in Ecs
  BY NumecsIsNat DEF Characters, Ecs
<1>2. rows[s] \in [Ecs -> 0 .. lastdfa]
  BY DEF Framed, RowsOK, States
<1>3. c # 0 => Row([to |-> rows[s]])[c] = rows[s][c]
  BY <1>1, <1>2 DEF Row
<1> QED
  BY <1>1, <1>3 DEF Goal, WithEob

LEMMA NulIs ==
  ASSUME Framed, Len(rows) = lastdfa, scheme # "fast", nultrans, NEW s \in States
  PROVE  /\ nul[s] = rows[s][NUL_ec] /\ NUL_ec # 0 /\ NUL_ec \in Ecs
         /\ s = EobState => rows[s][NUL_ec] = 0
<1>1. NUL_ec # 0 /\ NUL_ec \in Ecs
  BY NumecsIsNat, SizesAssumption DEF NUL_ec, Ecs
<1>2. s \in 1 .. Len(rows) /\ s <= Len(rows)
  BY JamIs DEF States
<1>3. s = EobState => rows[s] = NoRow.to
  BY <1>2 DEF Framed, RowsOK
<1> QED
  BY <1>1, <1>2, <1>3 DEF Framed, RowsOK, NoRow

LEMMA CompressedDecodes ==
  ASSUME Framed, scheme = "compressed", pc = "done", Decoded(tbl)
  PROVE  TablesDecode /\ ReadsStayInside
<1>1. Len(rows) = lastdfa
  BY DEF Framed, ControlOK
<1>2. EobState # 0
  BY SizesAssumption, StatesAre
<1>3. ASSUME NEW s \in States, NEW c \in 0 .. numecs
      PROVE  NextState(s, c) = IF s = EobState \/ (c # 0 /\ rows[s][c] = 0) THEN jamstate
                               ELSE IF c = 0 THEN EobState ELSE rows[s][c]
  <2>1. CASE nultrans /\ c = NUL_ec
    BY <1>1, <2>1, NulIs DEF NextState
  <2>2. CASE ~(nultrans /\ c = NUL_ec)
    <3>1. CompressedNext(s, c) = Then(Goal(s)[c])
      BY <1>1, LookupIs DEF CompressedNext, Characters
    <3>2. Goal(s)[c] = IF s = EobState \/ (c # 0 /\ rows[s][c] = 0) THEN 0
                       ELSE IF c = 0 THEN EobState ELSE rows[s][c]
      BY <1>1, <2>2, GoalIs DEF Characters
    <3>3. NextState(s, c) = Then(Goal(s)[c])
      BY <2>2, <3>1 DEF NextState
    <3> QED
      BY <1>2, <3>2, <3>3 DEF Then
  <2> QED
    BY <2>1, <2>2
<1>4. TablesDecode
  BY <1>3 DEF TablesDecode, Decoded
<1>5. ASSUME NEW s \in States PROVE tbl.base[s] >= 0
  <2>1. 0 \in Characters
    BY NumecsIsNat DEF Characters
  <2>2. Goal(s)[0] \in 0 .. lastdfa /\ Leads(s, 0, Goal(s)[0]) /\ s \in AllStates \ {0}
    BY <1>1, <2>1, GoalRange, StatesAre DEF Leads
  <2>3. tbl.base[s] \in Nat
    BY <2>1, <2>2 DEF Decoded
  <2> QED
    BY <2>3
<1>6. ASSUME NEW s \in States, NEW c \in 0 .. numecs
      PROVE  tbl.base[Lookup(s, c)[1]] + c <= tbl.tblend
  BY <1>1, LookupIs DEF Characters
<1>7. ReadsStayInside
  BY <1>5, <1>6 DEF ReadsStayInside
<1> QED
  BY <1>4, <1>7

----------------------------------------------------------------------------
(* Compressed tables from the first row to the last                        *)

CompressedOK ==
  /\ scheme = "compressed" /\ pc \in {"rows", "templates"} => Packed(tbl)
  /\ scheme = "compressed" /\ pc = "emit" => Finished(tbl)
  /\ scheme = "compressed" /\ pc = "done" => Decoded(tbl)

LEMMA InitCompressed == ASSUME Init PROVE CompressedOK
<1>1. /\ rows = <<>> /\ tnxt = <<>> /\ placed = 0 /\ Len(rows) = 0
      /\ pc = IF scheme = "fast" THEN "begin" ELSE "rows"
  BY DEF Init
<1>2. Listed = {}
  BY <1>1 DEF Listed
<1>3. /\ tbl.size = 1 /\ DOMAIN tbl.chk = {0} /\ DOMAIN tbl.nxt = {0} /\ tbl.chk[0] = 0 /\ tbl.nxt[0] = 0
      /\ tbl.tblend = 0 /\ tbl.firstfree = 1 /\ tbl.one = <<>>
      /\ tbl.base = [s \in AllStates |-> 0] /\ tbl.def = [s \in AllStates |-> 0]
  BY DEF Init, AllStates
<1>4. Arrays(tbl)
  <2>1. pc # "done"
    BY <1>1
  <2> QED
    BY <2>1, InitInv DEF IInv
<1>5. Behaved(tbl)
  <2>1. DOMAIN tbl.base = AllStates /\ DOMAIN tbl.def = AllStates /\ \A x \in AllStates : tbl.base[x] = 0
    BY <1>3
  <2>2. Len(tbl.one) = 0 /\ 0 < ONE_STACK_SIZE
    BY <1>3, SizesAssumption, ThresholdsAssumption
  <2>3. 0 \in 0 .. tbl.tblend /\ tbl.firstfree \in 1 .. tbl.tblend + 1
    BY <1>3
  <2> QED
    BY <1>3, <2>1, <2>2, <2>3 DEF Behaved
<1>6. Owned(tbl, {})
  BY <1>3 DEF Owned
<1>7. Right(tbl)
  BY <1>1 DEF Right
<1> QED
  BY <1>1, <1>2, <1>4, <1>5, <1>6, <1>7 DEF CompressedOK, Packed, Sound

LEMMA SameCompressed ==
  ASSUME Framed, CompressedOK, rows' = rows, tnxt' = tnxt, placed' = placed, tbl' = tbl, options' = options,
         pc' = pc
  PROVE  CompressedOK'
<1>1. scheme' = scheme /\ usemecs' = usemecs /\ nultrans' = nultrans
  BY DEF options
<1>2. \A y : Same(tbl, tbl', y)
  BY DEF Same
<1>3. ASSUME scheme = "compressed", pc \in {"rows", "templates"} PROVE Packed(tbl)'
  <2>1. Packed(tbl) /\ Sound(tbl', Listed)
    BY <1>3 DEF CompressedOK, Packed
  <2> QED
    BY <1>1, <1>2, <2>1, SamePacked
<1>4. TransSets' = TransSets
  BY DEF TransSets
<1>5. \A c : Meta(c)' = Meta(c)
  BY <1>1, <1>4 DEF Meta
<1>6. /\ jamstate' = jamstate /\ Jams' = Jams /\ Characters' = Characters /\ NoRow' = NoRow
      /\ AllStates' = AllStates /\ States' = States
      /\ \A n : TemplateState(n)' = TemplateState(n)
      /\ \A x : Steps(x)' = Steps(x) /\ Then(x)' = Then(x) /\ WithEob(x)' = WithEob(x)
  BY DEF jamstate, Jams, Characters, NoRow, TemplateState, Steps, Then, WithEob, AllStates, States
<1>7. ASSUME scheme = "compressed", pc = "emit" PROVE Finished(tbl)'
  <2>1. Finished(tbl) /\ Right(tbl)
    BY <1>7 DEF CompressedOK, Finished
  <2>2. Right(tbl)'
    <3>1. /\ \A s \in 1 .. Len(rows) : StateOK(tbl, s)'
          /\ \A n \in 1 .. placed : TemplateOK(tbl, n)'
      BY <1>1, <1>2, <2>1, OldKept
    <3> QED
      BY <3>1 DEF Right
  <2>3. (Entries(tbl, jamstate) = Jams)' /\ Shaped(tbl)'
    BY <1>6, <2>1 DEF Finished, Entries, Has, Waits, Waiter, Shaped
  <2> QED
    BY <1>6, <2>1, <2>2, <2>3 DEF Finished
<1>8. ASSUME scheme = "compressed", pc = "done" PROVE Decoded(tbl)'
  <2>1. Decoded(tbl)
    BY <1>8 DEF CompressedOK
  <2>2. \A s : Goal(s)' = Goal(s)
    BY <1>1, <1>6 DEF Goal, Row
  <2>3. \A x, c, v : Leads(x, c, v)' <=> Leads(x, c, v)
    BY <1>5, <1>6, <2>2 DEF Leads
  <2>4. \A x, c : Column(tbl, x, c)' = Column(tbl, x, c) /\ (Hit(tbl, x, c)' <=> Hit(tbl, x, c))
    BY <1>1, <1>5, <1>6 DEF Column, Hit
  <2> QED
    BY <1>6, <2>1, <2>3, <2>4 DEF Decoded
<1> QED
  BY <1>1, <1>3, <1>7, <1>8 DEF CompressedOK

LEMMA StepCompressed ==
  ASSUME Distinguishable, Framed, ProtosOK, CompressedOK, [Next]_vars PROVE CompressedOK'
<1> SUFFICES ASSUME scheme = "compressed" \/ UNCHANGED vars PROVE CompressedOK'
  <2>1. scheme' = scheme
    BY DEF Next, EndOfBufferState, SmallState, NewProto, MkTemplate, UseProto, FullRow, PlaceState, Compressed,
           Given, RowsEnd, Cmptmps, OneTransition, Mkdeftbl, Gentabs, PlaceState0, Genctbl, Terminated,
           options, vars
  <2> QED
    BY <2>1 DEF CompressedOK
<1>1. CASE UNCHANGED vars
  BY <1>1, SameCompressed DEF vars, options
<1>2. ASSUME scheme = "compressed", NEW r, Given(r), Packed(tbl) => Packed(tbl)' PROVE CompressedOK'
  BY <1>2 DEF Given, CompressedOK, options
<1>3. CASE EndOfBufferState
  BY <1>2, <1>3, EndOfBufferPacked DEF EndOfBufferState
<1>4. ASSUME NEW r \in Rows, NEW over \in Behind(r), SmallState(r, over) PROVE CompressedOK'
  BY <1>2, <1>4, WholePacked DEF SmallState, Compressed
<1>5. ASSUME NEW r \in Rows, NEW over \in Behind(r), NewProto(r, over) PROVE CompressedOK'
  BY <1>2, <1>5, WholePacked DEF NewProto, Compressed
<1>6. ASSUME NEW r \in Rows, MkTemplate(r) PROVE CompressedOK'
  BY <1>2, <1>6, MkTemplatePacked DEF MkTemplate, Compressed
<1>7. ASSUME NEW r \in Rows, UseProto(r) PROVE CompressedOK'
  BY <1>2, <1>7, UseProtoPacked DEF UseProto, Compressed
<1>8. ASSUME scheme = "compressed", pc \in {"rows", "templates"}, pc' \in {"rows", "templates"},
             Packed(tbl) => Packed(tbl)'
      PROVE  CompressedOK'
  BY <1>8 DEF CompressedOK
<1>9. ASSUME scheme = "compressed", RowsEnd PROVE CompressedOK'
  <2>1. pc = "rows" /\ pc' = "templates" /\ tbl' = tbl /\ rows' = rows /\ tnxt' = tnxt /\ placed' = placed
        /\ usemecs' = usemecs /\ nultrans' = nultrans
    BY <1>9 DEF RowsEnd, options
  <2>2. \A y : Same(tbl, tbl', y)
    BY <2>1 DEF Same
  <2>3. Packed(tbl) => Sound(tbl', Listed)
    BY <2>1 DEF Packed
  <2> QED
    BY <1>8, <1>9, <2>1, <2>2, <2>3, SamePacked
<1>10. ASSUME scheme = "compressed", Cmptmps PROVE CompressedOK'
  BY <1>8, <1>10, TemplatePacked DEF Cmptmps
<1>11. ASSUME scheme = "compressed", OneTransition PROVE CompressedOK'
  BY <1>8, <1>11, OneTransitionPacked DEF OneTransition
<1>12. ASSUME scheme = "compressed", Mkdeftbl PROVE CompressedOK'
  <2>1. pc = "templates" /\ pc' = "emit" /\ Packed(tbl)
    BY <1>12 DEF Mkdeftbl, CompressedOK
  <2> QED
    BY <1>12, <2>1, MkdeftblFinishes DEF CompressedOK
<1>13. ASSUME scheme = "compressed", Gentabs PROVE CompressedOK'
  <2>1. pc = "emit" /\ pc' = "done" /\ Finished(tbl)
    BY <1>13 DEF Gentabs, CompressedOK
  <2> QED
    BY <1>13, <2>1, GentabsDecodes DEF CompressedOK
<1>14. CASE Terminated
  BY <1>14, SameCompressed DEF Terminated, vars, options
<1>15. scheme = "compressed" => /\ ~\E r \in Rows : FullRow(r) \/ PlaceState(r)
                                /\ ~PlaceState0 /\ ~Genctbl
  BY DEF Framed, ControlOK, FullRow, PlaceState, PlaceState0, Genctbl
<1> QED
  BY <1>1, <1>3, <1>4, <1>5, <1>6, <1>7, <1>9, <1>10, <1>11, <1>12, <1>13, <1>14, <1>15 DEF Next

----------------------------------------------------------------------------
(* Full tables                                                             *)

FullTableOK == scheme = "full" => Unused(tbl) /\ Written

LEMMA InitFull == ASSUME Init PROVE FullTableOK
<1>1. Unused(tbl)
  BY DEF Init, Unused, AllStates
<1>2. rows = <<>> /\ full = <<>> /\ Len(rows) = 0 /\ Len(full) = 0
  BY DEF Init
<1>3. Written
  BY <1>2 DEF Written, IsSeq
<1> QED
  BY <1>1, <1>3 DEF FullTableOK

LEMMA FullRowWritten ==
  ASSUME Framed, Unused(tbl), Written, NEW r \in Rows, FullRow(r)
  PROVE  Unused(tbl)' /\ Written'
<1>1. PICK s \in Nat : s = Len(rows)
  BY ListedStates
<1>2. /\ Given(r) /\ tbl' = tbl /\ nultrans' = nultrans /\ scheme = "full" /\ ds = s + 1
      /\ full' = Append(full, [c \in 0 .. (IF nultrans THEN numecs - 1 ELSE numecs) |->
                                 IF c = 0 THEN IF ds = EobState THEN -EobState ELSE EobState
                                 ELSE IF Row(r)[c] = 0 THEN -ds ELSE Row(r)[c]])
  BY <1>1 DEF FullRow, Given, options, ds
<1>3. rows'[s + 1] = r.to /\ Len(rows') = s + 1 /\ \A k \in 1 .. s : rows'[k] = rows[k]
  <2>1. r.to \in [Ecs -> 0 .. lastdfa]
    BY RowsAre
  <2>2. scheme # "fast" /\ ds = EobState => r.to = NoRow.to
    BY DEF FullRow
  <2> QED
    BY <1>1, <1>2, <2>1, <2>2, GivenRows DEF Framed
<1>4. IsSeq(full) /\ Len(full) = s /\ \A k \in 1 .. s : full[k] = FullTo(k)
  BY <1>1 DEF Written
<1>5. PICK row : row = [c \in 0 .. (IF nultrans THEN numecs - 1 ELSE numecs) |->
                          IF c = 0 THEN IF ds = EobState THEN -EobState ELSE EobState
                          ELSE IF Row(r)[c] = 0 THEN -ds ELSE Row(r)[c]]
  OBVIOUS
<1>6. /\ IsSeq(full') /\ Len(full') = s + 1 /\ full'[s + 1] = row
      /\ \A k \in 1 .. s : full'[k] = FullTo(k)
  BY <1>1, <1>2, <1>4, <1>5, AppendIsSeq
<1>7. ASSUME NEW k \in 1 .. s PROVE Goal(k)' = Goal(k)
  <2>1. rows'[k] = rows[k] /\ nultrans' = nultrans
    BY <1>2, <1>3
  <2>2. Row([to |-> rows[k]])' = Row([to |-> rows[k]])
    BY <2>1 DEF Row
  <2> QED
    BY <2>2 DEF Goal, WithEob, Characters
<1>8. \A k \in 1 .. s : FullTo(k)' = FullTo(k)
  BY <1>2, <1>7 DEF FullTo
<1>9. FullTo(s + 1)' = row
  <2>1. PICK G, m : G = Goal(s + 1)' /\ m = IF nultrans THEN numecs - 1 ELSE numecs
    OBVIOUS
  <2>2. FullTo(s + 1)' = [c \in 0 .. m |-> IF G[c] = 0 THEN -(s + 1) ELSE G[c]]
    BY <1>2, <2>1 DEF FullTo
  <2>3. row = [c \in 0 .. m |-> IF c = 0 THEN IF s + 1 = EobState THEN -EobState ELSE EobState
                                ELSE IF Row(r)[c] = 0 THEN -(s + 1) ELSE Row(r)[c]]
    BY <1>2, <1>5, <2>1
  <2>4. EobState # 0 /\ 0 .. m \subseteq Characters /\ \A c \in 0 .. m : c # 0 => c \in Ecs
    BY <2>1, NumecsIsNat, SizesAssumption, StatesAre DEF Characters, Ecs
  <2>5. CASE s + 1 = EobState
    <3>1. G = [c \in Characters |-> 0]
      BY <2>1, <2>5 DEF Goal, Characters
    <3>2. r = NoRow
      BY <1>2, <2>5 DEF FullRow
    <3>3. \A c \in Ecs : Row(r)[c] = 0
      BY <3>2 DEF Row, NoRow
    <3> QED
      BY <2>2, <2>3, <2>4, <2>5, <3>1, <3>3
  <2>6. CASE s + 1 # EobState
    <3>1. G = [c \in Characters |-> IF c = 0 THEN EobState ELSE Row(r)[c]]
      BY <1>2, <1>3, <2>1, <2>6 DEF Goal, WithEob, Row, Characters
    <3> QED
      BY <2>2, <2>3, <2>4, <2>6, <3>1
  <2> QED
    BY <2>5, <2>6
<1>10. 1 .. s + 1 = (1 .. s) \cup {s + 1}
  OBVIOUS
<1>11. Written'
  BY <1>3, <1>6, <1>8, <1>9, <1>10 DEF Written
<1>12. Unused(tbl)'
  BY <1>2 DEF Unused, AllStates
<1> QED
  BY <1>11, <1>12

LEMMA StepFull == ASSUME Framed, FullTableOK, [Next]_vars PROVE FullTableOK'
<1>1. scheme' = scheme
  BY DEF Next, EndOfBufferState, SmallState, NewProto, MkTemplate, UseProto, FullRow, PlaceState, Compressed,
         Given, RowsEnd, Cmptmps, OneTransition, Mkdeftbl, Gentabs, PlaceState0, Genctbl, Terminated,
         options, vars
<1> SUFFICES ASSUME scheme = "full" PROVE Unused(tbl)' /\ Written'
  BY <1>1 DEF FullTableOK
<1>2. Unused(tbl) /\ Written
  BY DEF FullTableOK
<1>3. CASE rows' = rows /\ nultrans' = nultrans /\ tbl' = tbl /\ full' = full
  <2>1. \A k : FullTo(k)' = FullTo(k)
    BY <1>3 DEF FullTo, Goal, WithEob, Row, Characters
  <2>2. Unused(tbl)' /\ Written'
    BY <1>2, <1>3, <2>1 DEF Unused, Written, AllStates, IsSeq
  <2> QED
    BY <2>2
<1>4. ASSUME NEW r \in Rows, FullRow(r) PROVE Unused(tbl)' /\ Written'
  BY <1>2, <1>4, FullRowWritten
<1>5. \/ \E r \in Rows : FullRow(r)
      \/ rows' = rows /\ nultrans' = nultrans /\ tbl' = tbl /\ full' = full
  <2>1. /\ ~EndOfBufferState /\ ~Cmptmps /\ ~OneTransition /\ ~Mkdeftbl /\ ~Gentabs /\ ~PlaceState0 /\ ~Genctbl
        /\ ~\E r \in Rows : \/ \E over \in Behind(r) : SmallState(r, over) \/ NewProto(r, over)
                            \/ MkTemplate(r) \/ UseProto(r) \/ PlaceState(r)
    BY DEF Framed, ControlOK, EndOfBufferState, Cmptmps, OneTransition, Mkdeftbl, Gentabs, PlaceState0, Genctbl,
           SmallState, NewProto, MkTemplate, UseProto, PlaceState, Compressed
  <2>2. (\E r \in Rows : FullRow(r)) \/ RowsEnd \/ Terminated \/ UNCHANGED vars
    BY <2>1 DEF Next
  <2> QED
    BY <2>2 DEF RowsEnd, Terminated, vars, options
<1> QED
  BY <1>3, <1>4, <1>5

LEMMA FullDecodes ==
  ASSUME Framed, scheme = "full", FullTableOK
  PROVE  TablesDecode /\ ReadsStayInside
<1>1. Unused(tbl) /\ Written
  BY DEF FullTableOK
<1>2. ReadsStayInside
  BY <1>1 DEF ReadsStayInside, Unused
<1>3. ASSUME pc = "done", NEW s \in States, NEW c \in 0 .. numecs
      PROVE  FullNext(s, c) = IF s = EobState \/ (c # 0 /\ rows[s][c] = 0) THEN -s
                              ELSE IF c = 0 THEN EobState ELSE rows[s][c]
  <2>1. Len(rows) = lastdfa
    BY <1>3 DEF Framed, ControlOK
  <2>2. CASE nultrans /\ c = NUL_ec
    BY <2>1, <2>2, NulIs DEF FullNext
  <2>3. CASE ~(nultrans /\ c = NUL_ec)
    <3>1. full[s] = FullTo(s)
      BY <1>1, <2>1 DEF Written, States
    <3>2. c \in 0 .. (IF nultrans THEN numecs - 1 ELSE numecs)
      BY <2>3, NumecsIsNat DEF NUL_ec
    <3>3. FullNext(s, c) = IF Goal(s)[c] = 0 THEN -s ELSE Goal(s)[c]
      BY <2>3, <3>1, <3>2 DEF FullNext, FullTo
    <3>4. Goal(s)[c] = IF s = EobState \/ (c # 0 /\ rows[s][c] = 0) THEN 0
                       ELSE IF c = 0 THEN EobState ELSE rows[s][c]
      BY <2>1, <2>3, GoalIs DEF Characters
    <3>5. EobState # 0
      BY SizesAssumption, StatesAre
    <3> QED
      BY <3>3, <3>4, <3>5
  <2> QED
    BY <2>2, <2>3
<1>4. TablesDecode
  BY <1>3 DEF TablesDecode
<1> QED
  BY <1>2, <1>4

----------------------------------------------------------------------------
(* Full speed                                                              *)

\* t has a mark before and at the base of each of the states P, the entries of
\* its row of R behind it, and nothing else.
Marked(t, P, a) == \E s \in P : a \in {t.base[s] - 1, t.base[s]}
Moves(R, s, c) == s \in 1 .. Len(R) /\ c \in Ecs /\ R[s][c] # 0
FastTable(t, P, R) ==
  /\ Shaped(t) /\ t.one = <<>> /\ DOMAIN t.base = AllStates
  /\ t.size = t.tblend + 1 /\ t.firstfree \in Nat /\ t.firstfree >= 1
  /\ t.tblend > 0 => t.firstfree < t.size /\ t.tblend > numecs
  /\ \A x \in AllStates \ P : t.base[x] = 0
  /\ \A s \in P : /\ t.base[s] \in Nat /\ t.base[s] >= 1 /\ t.base[s] + numecs <= t.tblend
                  /\ t.chk[t.base[s]] = 1 /\ t.chk[t.base[s] - 1] = 1
  /\ \A s, u \in P : s # u => t.base[u] # t.base[s] /\ t.base[u] # t.base[s] - 1
  /\ \A s \in P, c \in Ecs : Moves(R, s, c) =>
       /\ t.chk[t.base[s] + c] = c /\ t.nxt[t.base[s] + c] = R[s][c]
       /\ ~Marked(t, P, t.base[s] + c)
  /\ \A a \in DOMAIN t.chk : t.chk[a] # 0 /\ ~Marked(t, P, a) =>
       \E s \in P, c \in Ecs : Moves(R, s, c) /\ a = t.base[s] + c

Needs(row) == {c \in Ecs : row[c] # 0}

\* place_state() takes two places for its marks and those the row needs.
Took(t, u, row, x, a) ==
  /\ u.base = [t.base EXCEPT ![x] = a] /\ u.one = t.one /\ Shaped(u)
  /\ u.tblend \in {t.tblend, a + numecs} /\ u.tblend >= t.tblend /\ u.tblend >= a + numecs
  /\ u.size = u.tblend + 1
  /\ u.chk[a] = 1 /\ u.chk[a - 1] = 1
  /\ \A c \in Needs(row) : u.chk[a + c] = c /\ u.nxt[a + c] = row[c]
  /\ \A b \in DOMAIN t.chk : t.chk[b] # 0 =>
       /\ u.chk[b] = t.chk[b] /\ u.nxt[b] = t.nxt[b] /\ b \notin {a - 1, a}
       /\ \A c \in Needs(row) : b # a + c
  /\ \A b \in DOMAIN u.chk : u.chk[b] # 0 =>
       \/ b \in {a - 1, a} \/ \E c \in Needs(row) : b = a + c
       \/ b \in DOMAIN t.chk /\ t.chk[b] # 0

LEMMA PlaceAtTakes ==
  ASSUME NEW t, Shaped(t), t.size = t.tblend + 1, NEW a \in Int, a >= 1, NEW row, RoomAt(t, row, a),
         NEW x, NEW n, NEW u, u = PlaceAt(t, row, x, n, a)
  PROVE  /\ Took(t, u, row, x, a)
         /\ u.firstfree = IF n <= MAX_XTIONS_FULL_INTERIOR_FIT THEN a + 1 ELSE t.firstfree
<1>1. PICK g, mine : g = Grown(t, a + numecs + 1) /\ mine = {a + c : c \in {d \in Ecs : row[d] # 0}}
  OBVIOUS
<1>2. u = [g EXCEPT !.base[x] = a,
                !.chk = [b \in DOMAIN @ |-> IF b \in {a - 1, a} THEN 1
                                            ELSE IF b \in mine THEN b - a ELSE @[b]],
                !.nxt = [b \in DOMAIN @ |-> IF b \in mine THEN row[b - a] ELSE @[b]],
                !.firstfree = IF n <= MAX_XTIONS_FULL_INTERIOR_FIT THEN a + 1 ELSE @,
                !.tblend = Larger(@, a + numecs)]
  BY <1>1 DEF PlaceAt
<1>3. /\ DOMAIN g = Fields /\ DOMAIN g.chk = 0 .. g.size - 1 /\ DOMAIN g.nxt = 0 .. g.size - 1
      /\ g.tblend = t.tblend /\ g.firstfree = t.firstfree /\ g.one = t.one /\ g.base = t.base
      /\ g.size = IF a + numecs <= t.tblend THEN t.size ELSE a + numecs + 1
      /\ \A b \in DOMAIN g.chk : IF b < t.size THEN g.chk[b] = t.chk[b] /\ g.nxt[b] = t.nxt[b]
                                 ELSE g.chk[b] = 0
  <2>1. CASE a + numecs + 1 <= t.size
    BY <1>1, <2>1, NumecsIsNat DEF Grown, Shaped
  <2>2. CASE ~(a + numecs + 1 <= t.size)
    <3>1. PICK m \in Nat : m = a + numecs + 1
      BY NumecsIsNat
    <3>2. g = [t EXCEPT !.size = m,
                 !.chk = [b \in 0 .. m - 1 |-> IF b < t.size THEN t.chk[b] ELSE 0],
                 !.nxt = [b \in 0 .. m - 1 |-> IF b < t.size THEN t.nxt[b] ELSE 0]]
      BY <1>1, <2>2, <3>1 DEF Grown
    <3>3. /\ DOMAIN g = Fields /\ g.size = m /\ g.tblend = t.tblend /\ g.firstfree = t.firstfree
          /\ g.one = t.one /\ g.base = t.base
          /\ g.chk = [b \in 0 .. m - 1 |-> IF b < t.size THEN t.chk[b] ELSE 0]
          /\ g.nxt = [b \in 0 .. m - 1 |-> IF b < t.size THEN t.nxt[b] ELSE 0]
      BY <3>2 DEF Shaped, Fields
    <3>4. ~(a + numecs <= t.tblend)
      BY <2>2, NumecsIsNat DEF Shaped
    <3>5. /\ DOMAIN g.chk = 0 .. g.size - 1 /\ DOMAIN g.nxt = 0 .. g.size - 1
          /\ \A b \in DOMAIN g.chk : IF b < t.size THEN g.chk[b] = t.chk[b] /\ g.nxt[b] = t.nxt[b]
                                     ELSE g.chk[b] = 0
      BY <3>3
    <3> QED
      BY <3>1, <3>3, <3>4, <3>5
  <2> QED
    BY <2>1, <2>2
<1>4. /\ DOMAIN u = Fields /\ u.size = g.size /\ u.one = t.one /\ u.base = [t.base EXCEPT ![x] = a]
      /\ u.chk = [b \in DOMAIN g.chk |-> IF b \in {a - 1, a} THEN 1
                                         ELSE IF b \in mine THEN b - a ELSE g.chk[b]]
      /\ u.nxt = [b \in DOMAIN g.nxt |-> IF b \in mine THEN row[b - a] ELSE g.nxt[b]]
      /\ u.firstfree = IF n <= MAX_XTIONS_FULL_INTERIOR_FIT THEN a + 1 ELSE t.firstfree
      /\ u.tblend = Larger(t.tblend, a + numecs)
  BY <1>2, <1>3 DEF Fields
<1>5. \A b : b \in mine <=> \E c \in Needs(row) : b = a + c
  BY <1>1 DEF Needs
<1> HIDE <1>1, <1>2
<1>6. /\ u.tblend \in {t.tblend, a + numecs} /\ u.tblend >= t.tblend /\ u.tblend >= a + numecs
      /\ u.size = u.tblend + 1 /\ u.tblend \in Nat
  BY <1>3, <1>4, NumecsIsNat DEF Larger, Shaped
<1>7. DOMAIN u.chk = 0 .. u.size - 1 /\ DOMAIN u.nxt = 0 .. u.size - 1
  BY <1>3, <1>4
<1>8. Shaped(u)
  BY <1>4, <1>6, <1>7, NumecsIsNat DEF Shaped
<1>9. u.chk[a] = 1 /\ u.chk[a - 1] = 1
  <2>1. a \in DOMAIN g.chk /\ a - 1 \in DOMAIN g.chk
    BY <1>3, <1>4, <1>6, NumecsIsNat
  <2> QED
    BY <1>4, <2>1
<1>10. ASSUME NEW c \in Needs(row) PROVE u.chk[a + c] = c /\ u.nxt[a + c] = row[c] /\ Free(t, a + c)
  <2>1. c \in Nat /\ c >= 1 /\ c <= numecs /\ row[c] # 0 /\ c \in Ecs
    BY NumecsIsNat DEF Needs, Ecs
  <2>2. a + c \in mine /\ a + c \notin {a - 1, a} /\ (a + c) - a = c
    BY <1>5, <2>1
  <2>3. a + c \in DOMAIN g.chk /\ a + c \in DOMAIN g.nxt
    BY <1>3, <1>4, <1>6, <2>1, NumecsIsNat
  <2>4. Free(t, a + c)
    BY <2>1 DEF RoomAt
  <2> QED
    BY <1>4, <2>2, <2>3, <2>4
<1>11. ASSUME NEW b \in DOMAIN t.chk, t.chk[b] # 0
       PROVE  /\ u.chk[b] = t.chk[b] /\ u.nxt[b] = t.nxt[b] /\ b \notin {a - 1, a}
              /\ \A c \in Needs(row) : b # a + c
  <2>1. b \in Nat /\ b < t.size /\ ~Free(t, b)
    BY <1>11 DEF Shaped, Free
  <2>2. b \notin {a - 1, a} /\ \A c \in Needs(row) : b # a + c
    BY <1>10, <2>1 DEF RoomAt
  <2>3. b \in DOMAIN g.chk /\ b \in DOMAIN g.nxt
    BY <1>3, <1>4, <1>6, <2>1 DEF Shaped
  <2> QED
    BY <1>3, <1>4, <1>5, <2>1, <2>2, <2>3
<1>12. ASSUME NEW b \in DOMAIN u.chk, u.chk[b] # 0
       PROVE  \/ b \in {a - 1, a} \/ \E c \in Needs(row) : b = a + c
              \/ b \in DOMAIN t.chk /\ t.chk[b] # 0
  <2>1. b \in DOMAIN g.chk /\ b \in Nat
    BY <1>3, <1>4
  <2>2. CASE b \notin {a - 1, a} /\ b \notin mine
    <3>1. g.chk[b] # 0
      BY <1>4, <1>12, <2>1, <2>2
    <3>2. b < t.size /\ t.chk[b] # 0
      BY <1>3, <2>1, <3>1
    <3> QED
      BY <2>1, <3>2 DEF Shaped
  <2> QED
    BY <1>5, <2>2
<1> QED
  BY <1>4, <1>6, <1>8, <1>9, <1>10, <1>11, <1>12 DEF Took

\* A state more.
LEMMA TookPlaced ==
  ASSUME NEW t, NEW P, P \subseteq AllStates, NEW R, FastTable(t, P, R), NEW x \in AllStates, x \notin P,
         NEW a \in Int, a >= 1, NEW row, NEW u, Took(t, u, row, x, a),
         u.firstfree = a + 1 \/ (u.firstfree = t.firstfree /\ t.tblend > 0),
         NEW S, \A s \in P, c \in Ecs : /\ Moves(S, s, c) <=> Moves(R, s, c)
                                        /\ Moves(R, s, c) => S[s][c] = R[s][c],
         \A c \in Ecs : Moves(S, x, c) <=> c \in Needs(row),
         \A c \in Needs(row) : S[x][c] = row[c]
  PROVE  FastTable(u, P \cup {x}, S)
<1>1. Shaped(t) /\ Shaped(u) /\ DOMAIN t.base = AllStates /\ numecs \in Nat /\ numecs >= 1
  BY NumecsIsNat, SizesAssumption DEF FastTable, Took
<1>2. u.base[x] = a /\ DOMAIN u.base = AllStates /\ \A s \in AllStates \ {x} : u.base[s] = t.base[s]
  BY <1>1 DEF Took
<1>3. \A s \in P : s # x /\ u.base[s] = t.base[s]
  BY <1>2
<1>4. ASSUME NEW s \in P
      PROVE  /\ t.base[s] \in Nat /\ t.base[s] >= 1 /\ t.base[s] \in DOMAIN t.chk /\ t.base[s] - 1 \in DOMAIN t.chk
             /\ t.chk[t.base[s]] = 1 /\ t.chk[t.base[s] - 1] = 1 /\ t.base[s] + numecs <= t.tblend
             /\ \A c \in Ecs : t.base[s] + c \in DOMAIN t.chk
  <2>1. /\ t.base[s] \in Nat /\ t.base[s] >= 1 /\ t.base[s] + numecs <= t.tblend
        /\ t.chk[t.base[s]] = 1 /\ t.chk[t.base[s] - 1] = 1
    BY DEF FastTable
  <2>2. DOMAIN t.chk = 0 .. t.tblend /\ t.tblend \in Nat
    BY <1>1 DEF Shaped, FastTable
  <2>3. \A c \in Ecs : c \in Nat /\ c <= numecs
    BY <1>1 DEF Ecs
  <2> QED
    BY <1>1, <2>1, <2>2, <2>3
<1>5. \A c \in Needs(row) : c \in Ecs /\ c \in Nat /\ c >= 1
  BY <1>1 DEF Needs, Ecs
<1>6. \A b : Marked(u, P \cup {x}, b) <=> (Marked(t, P, b) \/ b \in {a - 1, a})
  BY <1>2, <1>3 DEF Marked
<1>7. \A b : Marked(t, P, b) => b \in DOMAIN t.chk /\ t.chk[b] # 0
  BY <1>4 DEF Marked
<1>8. /\ u.one = <<>> /\ u.size = u.tblend + 1 /\ u.firstfree \in Nat /\ u.firstfree >= 1
      /\ u.tblend > 0 => u.firstfree < u.size /\ u.tblend > numecs
  <2>1. /\ t.tblend \in Nat /\ u.tblend \in Nat /\ u.tblend >= t.tblend /\ u.tblend >= a + numecs
        /\ t.size = t.tblend + 1 /\ u.size = u.tblend + 1 /\ u.one = <<>>
    BY <1>1 DEF Shaped, FastTable, Took
  <2>2. CASE u.firstfree = a + 1
    BY <1>1, <2>1, <2>2
  <2>3. CASE u.firstfree = t.firstfree /\ t.tblend > 0
    <3>1. t.firstfree \in Nat /\ t.firstfree >= 1 /\ t.firstfree < t.size
      BY <2>3 DEF FastTable
    <3> QED
      BY <1>1, <2>1, <2>3, <3>1
  <2> QED
    BY <2>2, <2>3
<1>9. \A y \in AllStates \ (P \cup {x}) : u.base[y] = 0
  BY <1>2 DEF FastTable
<1>10. ASSUME NEW s \in P \cup {x}
       PROVE  /\ u.base[s] \in Nat /\ u.base[s] >= 1 /\ u.base[s] + numecs <= u.tblend
              /\ u.chk[u.base[s]] = 1 /\ u.chk[u.base[s] - 1] = 1
  <2>1. CASE s = x
    BY <1>2, <2>1 DEF Took
  <2>2. CASE s \in P
    <3>1. PICK b \in Nat : b = t.base[s] /\ u.base[s] = b
      BY <1>3, <1>4, <2>2
    <3>2. u.chk[b] = 1 /\ u.chk[b - 1] = 1
      BY <1>4, <2>2, <3>1 DEF Took
    <3>3. u.tblend >= t.tblend /\ u.tblend \in Nat /\ t.tblend \in Nat
      BY <1>1 DEF Shaped, Took
    <3> QED
      BY <1>1, <1>4, <2>2, <3>1, <3>2, <3>3
  <2> QED
    BY <2>1, <2>2
<1>11. ASSUME NEW s \in P \cup {x}, NEW y \in P \cup {x}, s # y
       PROVE  u.base[y] # u.base[s] /\ u.base[y] # u.base[s] - 1
  <2>1. \A z \in P : t.base[z] \in Nat /\ t.base[z] \notin {a - 1, a} /\ t.base[z] - 1 \notin {a - 1, a}
    BY <1>4 DEF Took
  <2>2. CASE s = x /\ y \in P
    BY <1>2, <1>3, <2>1, <2>2
  <2>3. CASE y = x /\ s \in P
    BY <1>2, <1>3, <2>1, <2>3
  <2>4. CASE s \in P /\ y \in P
    BY <1>3, <1>11, <2>4 DEF FastTable
  <2> QED
    BY <1>11, <2>2, <2>3, <2>4
<1>12. ASSUME NEW s \in P \cup {x}, NEW c \in Ecs, Moves(S, s, c)
       PROVE  /\ u.chk[u.base[s] + c] = c /\ u.nxt[u.base[s] + c] = S[s][c]
              /\ ~Marked(u, P \cup {x}, u.base[s] + c)
  <2>1. CASE s = x
    <3>1. c \in Needs(row) /\ S[x][c] = row[c] /\ u.base[s] = a
      BY <1>2, <1>12, <2>1
    <3>2. u.chk[a + c] = c /\ u.nxt[a + c] = row[c]
      BY <3>1 DEF Took
    <3>3. ~Marked(t, P, a + c)
      BY <1>7, <3>1 DEF Took
    <3>4. a + c \notin {a - 1, a}
      BY <1>5, <3>1
    <3> QED
      BY <1>6, <2>1, <3>1, <3>2, <3>3, <3>4
  <2>2. CASE s \in P
    <3>1. PICK b : b = t.base[s] + c
      OBVIOUS
    <3>2. Moves(R, s, c) /\ S[s][c] = R[s][c] /\ b = u.base[s] + c /\ b \in DOMAIN t.chk
      BY <1>3, <1>4, <1>12, <2>2, <3>1
    <3>3. t.chk[b] = c /\ t.nxt[b] = R[s][c] /\ ~Marked(t, P, b)
      BY <2>2, <3>1, <3>2 DEF FastTable
    <3>4. c # 0
      BY DEF Ecs
    <3>5. u.chk[b] = c /\ u.nxt[b] = R[s][c] /\ b \notin {a - 1, a}
      BY <3>2, <3>3, <3>4 DEF Took
    <3> QED
      BY <1>6, <3>2, <3>3, <3>5
  <2> QED
    BY <2>1, <2>2
<1>13. ASSUME NEW b \in DOMAIN u.chk, u.chk[b] # 0, ~Marked(u, P \cup {x}, b)
       PROVE  \E s \in P \cup {x}, c \in Ecs : Moves(S, s, c) /\ b = u.base[s] + c
  <2>1. b \notin {a - 1, a} /\ ~Marked(t, P, b)
    BY <1>6, <1>13
  <2>2. CASE \E c \in Needs(row) : b = a + c
    BY <1>2, <1>5, <2>2
  <2>3. CASE b \in DOMAIN t.chk /\ t.chk[b] # 0
    <3>1. PICK s \in P, c \in Ecs : Moves(R, s, c) /\ b = t.base[s] + c
      BY <2>1, <2>3 DEF FastTable
    <3> QED
      BY <1>3, <3>1
  <2> QED
    BY <1>13, <2>1, <2>2, <2>3 DEF Took
<1> QED
  BY <1>1, <1>2, <1>8, <1>9, <1>10, <1>11, <1>12, <1>13 DEF FastTable

Placed == IF pc = "begin" THEN {} ELSE 0 .. Len(rows)

\* What genctbl() leaves.
FastDecoded ==
  /\ tbl.tblend \in Nat
  /\ FastAction(eobbase) = EOB_ACTION /\ FastNext(eobbase, 0) = JAMSTATE
  /\ \A s \in States : /\ tbl.base[s] \in Nat /\ tbl.base[s] + numecs <= tbl.tblend
                       /\ FastAction(tbl.base[s]) = s
  /\ \A s \in States, c \in Characters :
       FastNext(tbl.base[s], c) = IF c = 0 THEN eobbase
                                  ELSE IF rows[s][c] = 0 THEN JAMSTATE
                                  ELSE tbl.base[rows[s][c]]
FastTableOK ==
  /\ scheme = "fast" /\ pc # "done" => FastTable(tbl, Placed, rows)
  /\ scheme = "fast" /\ pc = "done" => FastDecoded

LEMMA InitFast == ASSUME Init PROVE FastTableOK
<1> SUFFICES ASSUME scheme = "fast" PROVE FastTable(tbl, Placed, rows) /\ pc # "done"
  BY DEF FastTableOK
<1>1. pc = "begin" /\ pc # "done" /\ Placed = {} /\ rows = <<>>
  BY DEF Init, Placed
<1>2. Shaped(tbl)
  BY <1>1, InitInv DEF IInv, Arrays
<1>3. /\ tbl.one = <<>> /\ tbl.base = [s \in AllStates |-> 0] /\ tbl.size = 1 /\ tbl.tblend = 0
      /\ tbl.firstfree = 1 /\ DOMAIN tbl.chk = {0} /\ tbl.chk[0] = 0
  BY DEF Init, AllStates
<1> QED
  BY <1>1, <1>2, <1>3 DEF FastTable

LEMMA SpaceIs ==
  ASSUME NEW t, NEW P, NEW R, FastTable(t, P, R), NEW row, NEW n, NEW a \in TableSpace(t, row, n)
  PROVE  a \in Int /\ a >= 1 /\ RoomAt(t, row, a)
<1>1. PICK from : from = SearchFrom(t, n)
  OBVIOUS
<1>2. from \in Int /\ from >= 1
  <2>1. /\ t.firstfree \in Nat /\ t.firstfree >= 1 /\ t.tblend \in Nat
        /\ t.tblend > 0 => t.tblend > numecs
    BY DEF FastTable, Shaped
  <2> QED
    BY <1>1, <2>1, NumecsIsNat DEF SearchFrom
<1>3. Larger(from, t.size) + 1 \in Int
  BY <1>2 DEF Larger, FastTable, Shaped
<1>4. a \in from .. Larger(from, t.size) + 1 /\ RoomAt(t, row, a)
  BY <1>1 DEF TableSpace
<1> QED
  BY <1>2, <1>3, <1>4

LEMMA PlaceState0Fast ==
  ASSUME Framed, FastTable(tbl, Placed, rows), PlaceState0
  PROVE  FastTable(tbl, Placed, rows)'
<1>1. /\ pc = "begin" /\ rows = <<>> /\ rows' = <<>> /\ pc' = "rows" /\ Len(rows') = 0
  BY DEF PlaceState0, Framed, ControlOK
<1>2. PICK a \in TableSpace(tbl, NoRow.to, 0) : tbl' = PlaceAt(tbl, NoRow.to, 0, 0, a)
  BY DEF PlaceState0
<1>3. Placed = {} /\ Placed' = {} \cup {0}
  BY <1>1 DEF Placed
<1>4. FastTable(tbl, {}, rows)
  BY <1>3
<1>5. a \in Int /\ a >= 1 /\ RoomAt(tbl, NoRow.to, a) /\ Shaped(tbl) /\ tbl.size = tbl.tblend + 1
  BY <1>2, <1>4, SpaceIs DEF FastTable
<1>6. 0 <= MAX_XTIONS_FULL_INTERIOR_FIT /\ 0 \in AllStates
  BY SizesAssumption, JamIs DEF AllStates
<1>7. PICK u, row : u = tbl' /\ row = NoRow.to
  OBVIOUS
<1>8. Took(tbl, u, row, 0, a) /\ u.firstfree = a + 1
  BY <1>2, <1>5, <1>6, <1>7, PlaceAtTakes
<1>9. Needs(row) = {} /\ \A s, c : ~Moves(rows, s, c)
  BY <1>1, <1>7 DEF Needs, NoRow, Moves
<1>10. FastTable(u, {} \cup {0}, rows)
  BY <1>4, <1>5, <1>6, <1>8, <1>9, TookPlaced
<1>11. FastTable(tbl', Placed', rows')
  BY <1>1, <1>3, <1>7, <1>10
<1> QED
  BY <1>11 DEF FastTable, AllStates, Shaped, Fields, Moves, Marked, Ecs

LEMMA PlaceStateFast ==
  ASSUME Framed, FastTable(tbl, Placed, rows), NEW r \in Rows, PlaceState(r)
  PROVE  FastTable(tbl, Placed, rows)'
<1>1. PICK n \in Nat : n = Len(rows)
  BY ListedStates
<1>2. /\ pc = "rows" /\ pc' = "rows" /\ n < lastdfa /\ Given(r) /\ scheme = "fast" /\ ds = n + 1
  BY <1>1 DEF PlaceState, Given, ds
<1>3. rows'[n + 1] = r.to /\ Len(rows') = n + 1 /\ \A k \in 1 .. n : rows'[k] = rows[k]
  <2>1. r.to \in [Ecs -> 0 .. lastdfa]
    BY RowsAre
  <2> QED
    BY <1>1, <1>2, <2>1, GivenRows DEF Framed
<1>4. PICK a \in TableSpace(tbl, r.to, Total(r)) : tbl' = PlaceAt(tbl, r.to, ds, Total(r), a)
  BY DEF PlaceState
<1>5. PICK P, x : P = 0 .. n /\ x = n + 1
  OBVIOUS
<1>6. Placed = P /\ Placed' = P \cup {x} /\ x \in AllStates /\ x \notin P /\ P \subseteq AllStates /\ 0 \in P
  BY <1>1, <1>2, <1>3, <1>5, JamIs DEF Placed, AllStates
<1>7. FastTable(tbl, P, rows)
  BY <1>6
<1>8. a \in Int /\ a >= 1 /\ RoomAt(tbl, r.to, a) /\ Shaped(tbl) /\ tbl.size = tbl.tblend + 1
  BY <1>4, <1>7, SpaceIs DEF FastTable
<1>9. tbl.tblend > 0
  BY <1>6, <1>7, NumecsIsNat DEF FastTable, Shaped
<1>10. PICK u, row, S : u = tbl' /\ row = r.to /\ S = rows'
  OBVIOUS
<1>11. Took(tbl, u, row, x, a) /\ (u.firstfree = a + 1 \/ (u.firstfree = tbl.firstfree /\ tbl.tblend > 0))
  <2>1. u = PlaceAt(tbl, row, x, Total(r), a)
    BY <1>2, <1>4, <1>5, <1>10
  <2>2. /\ Took(tbl, u, row, x, a)
        /\ u.firstfree = IF Total(r) <= MAX_XTIONS_FULL_INTERIOR_FIT THEN a + 1 ELSE tbl.firstfree
    BY <1>8, <1>10, <2>1, PlaceAtTakes
  <2> QED
    BY <1>9, <2>2
<1>12. \A s \in P, c \in Ecs : /\ Moves(S, s, c) <=> Moves(rows, s, c)
                               /\ Moves(rows, s, c) => S[s][c] = rows[s][c]
  <2> SUFFICES ASSUME NEW s \in P PROVE /\ s \in 1 .. Len(S) <=> s \in 1 .. Len(rows)
                                        /\ s \in 1 .. Len(rows) => S[s] = rows[s]
    BY DEF Moves
  <2> QED
    BY <1>1, <1>3, <1>5, <1>10
<1>13. /\ \A c \in Ecs : Moves(S, x, c) <=> c \in Needs(row)
       /\ \A c \in Needs(row) : S[x][c] = row[c]
  BY <1>3, <1>5, <1>10 DEF Moves, Needs
<1>14. FastTable(u, P \cup {x}, S)
  BY <1>6, <1>7, <1>8, <1>11, <1>12, <1>13, TookPlaced
<1>15. FastTable(tbl', Placed', rows')
  BY <1>6, <1>10, <1>14
<1> QED
  BY <1>15 DEF FastTable, AllStates, Shaped, Fields, Moves, Marked, Ecs

\* genctbl(), place by place.
MadePlace(t, u, starts, a) ==
  IF a \in starts THEN u.chk[a] = 0 /\ u.nxt[a] = t.tblend + 2 - a
  ELSE IF a + 1 \in starts
  THEN u.chk[a] = 0 /\ u.nxt[a] = CHOOSE s \in 0 .. lastdfa : t.base[s] = a + 1
  ELSE /\ u.chk[a] = IF t.chk[a] \in Ecs THEN t.chk[a] ELSE 0
       /\ t.chk[a] \in Ecs => u.nxt[a] = t.base[t.nxt[a]] - (a - t.chk[a])
MadeFast(t, u) ==
  /\ u.base = t.base /\ u.tblend = t.tblend /\ u.one = t.one /\ u.size = t.tblend + 3
  /\ DOMAIN u.chk = 0 .. t.tblend + 2 /\ DOMAIN u.nxt = 0 .. t.tblend + 2
  /\ u.chk[t.tblend + 2] = 1 /\ u.chk[t.tblend + 1] = numecs + 1 /\ u.nxt[t.tblend + 1] = EOB_ACTION
  /\ \A a \in 0 .. t.tblend : MadePlace(t, u, {t.base[s] : s \in 0 .. lastdfa}, a)

\* genctbl()'s two passes over a grown table g: the marks it leaves in yy_verify,
\* and the table it writes from them.
GenctblMarks(g, starts, e) ==
  [a \in DOMAIN g.chk |-> IF a = e THEN 1
                          ELSE IF a = e - 1 THEN numecs + 1
                          ELSE IF a \in starts THEN EOB_POSITION
                          ELSE IF a + 1 \in starts THEN ACTION_POSITION
                          ELSE g.chk[a]]
GenctblTable(t, g, chk, e) ==
  [g EXCEPT !.chk = [a \in DOMAIN @ |-> IF a < e - 1 /\ chk[a] \notin Ecs THEN 0 ELSE chk[a]],
            !.nxt = [a \in DOMAIN @ |->
               IF a = e THEN 0
               ELSE IF a = e - 1 THEN EOB_ACTION
               ELSE IF chk[a] = EOB_POSITION THEN e - a
               ELSE IF chk[a] = ACTION_POSITION
               THEN CHOOSE s \in 0 .. lastdfa : t.base[s] = a + 1
               ELSE IF chk[a] > numecs \/ chk[a] = 0 THEN 0
               ELSE t.base[g.nxt[a]] - (a - chk[a])]]

LEMMA GenctblMakes ==
  ASSUME FastTable(tbl, Placed, rows), Genctbl
  PROVE  \E u : u = tbl' /\ MadeFast(tbl, u)
<1>1. PICK t, e, starts : t = tbl /\ e = t.tblend + 2 /\ starts = {t.base[s] : s \in 0 .. lastdfa}
  OBVIOUS
<1>2. PICK g : g = Grown(t, e + 1)
  OBVIOUS
<1>3. t.tblend \in Nat /\ t.size = t.tblend + 1 /\ DOMAIN t = Fields /\ Shaped(t) /\ e \in Nat
  BY <1>1 DEF FastTable, Shaped
<1>4. PICK chk : chk = GenctblMarks(g, starts, e)
  OBVIOUS
<1>5. tbl' = GenctblTable(t, g, chk, e)
  <2>1. tbl' = GenctblTable(tbl, Grown(tbl, eobbase + 1),
                       GenctblMarks(Grown(tbl, eobbase + 1), {tbl.base[s] : s \in 0 .. lastdfa}, eobbase), eobbase)
    BY DEF Genctbl, GenctblTable, GenctblMarks
  <2>2. e = eobbase /\ starts = {tbl.base[s] : s \in 0 .. lastdfa}
    BY <1>1 DEF eobbase
  <2>3. g = Grown(tbl, eobbase + 1)
    BY <1>1, <1>2, <2>2
  <2>4. chk = GenctblMarks(Grown(tbl, eobbase + 1), {tbl.base[s] : s \in 0 .. lastdfa}, eobbase)
    BY <1>4, <2>2, <2>3
  <2> QED
    BY ONLY <1>1, <2>1, <2>2, <2>3, <2>4
<1>6. PICK u : u = tbl'
  OBVIOUS
<1>7. g = [t EXCEPT !.size = e + 1,
                    !.chk = [b \in 0 .. e |-> IF b < t.size THEN t.chk[b] ELSE 0],
                    !.nxt = [b \in 0 .. e |-> IF b < t.size THEN t.nxt[b] ELSE 0]]
  <2>1. ~(e + 1 <= t.size) /\ e + 1 - 1 = e
    BY <1>1, <1>3
  <2>2. PICK m \in Nat : m = e + 1 /\ m - 1 = e
    BY <1>3
  <2>3. g = [t EXCEPT !.size = m,
                      !.chk = [b \in 0 .. m - 1 |-> IF b < t.size THEN t.chk[b] ELSE 0],
                      !.nxt = [b \in 0 .. m - 1 |-> IF b < t.size THEN t.nxt[b] ELSE 0]]
    BY <1>2, <2>1, <2>2 DEF Grown
  <2> QED
    BY <2>2, <2>3
<1>8. /\ DOMAIN g = Fields /\ g.size = e + 1 /\ g.base = t.base /\ g.tblend = t.tblend /\ g.one = t.one
      /\ g.chk = [b \in 0 .. e |-> IF b < t.size THEN t.chk[b] ELSE 0]
      /\ g.nxt = [b \in 0 .. e |-> IF b < t.size THEN t.nxt[b] ELSE 0]
  BY <1>3, <1>7 DEF Fields
<1>9. /\ u.size = e + 1 /\ u.base = t.base /\ u.tblend = t.tblend /\ u.one = t.one
      /\ u.chk = [a \in 0 .. e |-> IF a < e - 1 /\ chk[a] \notin Ecs THEN 0 ELSE chk[a]]
      /\ u.nxt = [a \in 0 .. e |->
                     IF a = e THEN 0
                     ELSE IF a = e - 1 THEN EOB_ACTION
                     ELSE IF chk[a] = EOB_POSITION THEN e - a
                     ELSE IF chk[a] = ACTION_POSITION
                     THEN CHOOSE s \in 0 .. lastdfa : t.base[s] = a + 1
                     ELSE IF chk[a] > numecs \/ chk[a] = 0 THEN 0
                     ELSE t.base[g.nxt[a]] - (a - chk[a])]
  BY <1>5, <1>6, <1>8 DEF Fields, GenctblTable
<1> HIDE <1>5, <1>7
<1>10. chk = [a \in 0 .. e |-> IF a = e THEN 1
                               ELSE IF a = e - 1 THEN numecs + 1
                               ELSE IF a \in starts THEN EOB_POSITION
                               ELSE IF a + 1 \in starts THEN ACTION_POSITION
                               ELSE g.chk[a]]
  BY <1>4, <1>8 DEF GenctblMarks
<1>11. /\ EOB_POSITION = -1 /\ ACTION_POSITION = -2 /\ numecs \in Nat
       /\ \A c \in Ecs : c \in Nat /\ c >= 1 /\ c <= numecs
  BY NumecsIsNat DEF EOB_POSITION, ACTION_POSITION, Ecs
<1>12. u.chk[e] = 1 /\ u.chk[e - 1] = numecs + 1 /\ u.nxt[e - 1] = EOB_ACTION
  <2>1. e \in 0 .. e /\ e - 1 \in 0 .. e /\ ~(e < e - 1) /\ ~(e - 1 < e - 1) /\ e - 1 # e
    BY <1>1, <1>3
  <2> QED
    BY <1>9, <1>10, <2>1
<1>13. ASSUME NEW a \in 0 .. t.tblend PROVE MadePlace(t, u, starts, a)
  <2>1. a \in 0 .. e /\ a < e - 1 /\ a # e /\ a # e - 1 /\ a < t.size
    BY <1>1, <1>3
  <2>2. g.chk[a] = t.chk[a] /\ g.nxt[a] = t.nxt[a]
    BY <1>8, <2>1
  <2>3. PICK k : k = chk[a]
    OBVIOUS
  <2>4. k = IF a \in starts THEN -1 ELSE IF a + 1 \in starts THEN -2 ELSE t.chk[a]
    BY <1>10, <1>11, <2>1, <2>2, <2>3
  <2>5. /\ u.chk[a] = IF k \notin Ecs THEN 0 ELSE k
        /\ u.nxt[a] = IF k = -1 THEN e - a
                      ELSE IF k = -2 THEN CHOOSE s \in 0 .. lastdfa : t.base[s] = a + 1
                      ELSE IF k > numecs \/ k = 0 THEN 0
                      ELSE t.base[t.nxt[a]] - (a - k)
    BY <1>9, <1>11, <2>1, <2>2, <2>3
  <2>6. CASE a \in starts
    <3>1. k = -1 /\ k \notin Ecs
      BY <1>11, <2>4, <2>6
    <3>2. u.chk[a] = 0 /\ u.nxt[a] = e - a
      BY <2>5, <3>1
    <3>3. e - a = t.tblend + 2 - a
      BY <1>1, <1>3
    <3> QED
      BY <2>6, <3>2, <3>3 DEF MadePlace
  <2>7. CASE a \notin starts /\ a + 1 \in starts
    BY <1>1, <1>11, <2>4, <2>5, <2>7 DEF MadePlace
  <2>8. CASE a \notin starts /\ a + 1 \notin starts
    <3>1. k = t.chk[a]
      BY <2>4, <2>8
    <3>2. k \in Ecs => k # -1 /\ k # -2 /\ ~(k > numecs) /\ k # 0
      BY <1>11
    <3> QED
      BY <2>5, <2>8, <3>1, <3>2 DEF MadePlace
  <2> QED
    BY <2>6, <2>7, <2>8
<1>14. MadeFast(t, u)
  <2>1. e = t.tblend + 2 /\ e - 1 = t.tblend + 1 /\ e + 1 = t.tblend + 3
    BY <1>1, <1>3
  <2>2. DOMAIN u.chk = 0 .. t.tblend + 2 /\ DOMAIN u.nxt = 0 .. t.tblend + 2
    BY <1>9, <2>1
  <2> QED
    BY <1>1, <1>9, <1>12, <1>13, <2>1, <2>2 DEF MadeFast
<1> QED
  BY <1>1, <1>6, <1>14

LEMMA GenctblDecodes ==
  ASSUME Framed, scheme = "fast", FastTable(tbl, Placed, rows), Genctbl
  PROVE  FastDecoded'
<1>1. PICK t, u, e : t = tbl /\ u = tbl' /\ MadeFast(t, u) /\ e = t.tblend + 2
  BY GenctblMakes
<1>2. PICK P : P = 0 .. lastdfa
  OBVIOUS
<1>3. Len(rows) = lastdfa /\ rows' = rows /\ FastTable(t, P, rows)
  <2>1. pc = "emit" /\ Len(rows) = lastdfa /\ rows' = rows
    BY DEF Genctbl, Framed, ControlOK
  <2> QED
    BY <1>1, <1>2, <2>1 DEF Placed
<1>4. /\ t.tblend \in Nat /\ numecs \in Nat /\ e \in Nat /\ u.base = t.base /\ u.tblend = t.tblend
      /\ DOMAIN t.chk = 0 .. t.tblend
  BY <1>1, <1>3, NumecsIsNat DEF FastTable, Shaped, MadeFast
<1>5. \A s \in P : t.base[s] \in Nat /\ t.base[s] >= 1 /\ t.base[s] + numecs <= t.tblend
  BY <1>3 DEF FastTable
<1>6. \A s, y \in P : s # y => t.base[y] # t.base[s] /\ t.base[y] # t.base[s] - 1
  BY <1>3 DEF FastTable
<1>7. PICK starts : starts = {t.base[s] : s \in 0 .. lastdfa}
  OBVIOUS
<1>8. ASSUME NEW a \in 0 .. t.tblend
      PROVE  /\ a \in starts => u.chk[a] = 0 /\ u.nxt[a] = e - a
             /\ a \notin starts /\ a + 1 \in starts =>
                  u.chk[a] = 0 /\ u.nxt[a] = CHOOSE s \in 0 .. lastdfa : t.base[s] = a + 1
             /\ a \notin starts /\ a + 1 \notin starts =>
                  /\ u.chk[a] = IF t.chk[a] \in Ecs THEN t.chk[a] ELSE 0
                  /\ t.chk[a] \in Ecs => u.nxt[a] = t.base[t.nxt[a]] - (a - t.chk[a])
  <2>1. MadePlace(t, u, starts, a)
    BY <1>1, <1>7 DEF MadeFast
  <2>2. a \in starts => u.chk[a] = 0 /\ u.nxt[a] = e - a
    <3>1. e - a = t.tblend + 2 - a
      BY <1>1, <1>4
    <3> QED
      BY <2>1, <3>1 DEF MadePlace
  <2>3. a \notin starts /\ a + 1 \in starts =>
          u.chk[a] = 0 /\ u.nxt[a] = CHOOSE s \in 0 .. lastdfa : t.base[s] = a + 1
    BY <2>1 DEF MadePlace
  <2>4. a \notin starts /\ a + 1 \notin starts =>
          /\ u.chk[a] = IF t.chk[a] \in Ecs THEN t.chk[a] ELSE 0
          /\ t.chk[a] \in Ecs => u.nxt[a] = t.base[t.nxt[a]] - (a - t.chk[a])
    BY <2>1 DEF MadePlace
  <2> QED
    BY <2>2, <2>3, <2>4
<1>9. \A a \in 0 .. t.tblend : Marked(t, P, a) <=> (a \in starts \/ a + 1 \in starts)
  <2> SUFFICES ASSUME NEW a \in 0 .. t.tblend PROVE Marked(t, P, a) <=> (a \in starts \/ a + 1 \in starts)
    OBVIOUS
  <2>1. \A s \in P : a \in {t.base[s] - 1, t.base[s]} <=> (a = t.base[s] \/ a + 1 = t.base[s])
    BY <1>4, <1>5
  <2> QED
    BY <1>2, <1>7, <2>1 DEF Marked
<1>10. u.nxt[e - 1] = EOB_ACTION /\ u.chk[e + 0] # 0
  BY <1>1, <1>4 DEF MadeFast
<1>11. ASSUME NEW s \in P PROVE u.nxt[t.base[s] - 1] = s
  <2>1. PICK a : a = t.base[s] - 1
    OBVIOUS
  <2>2. a \in 0 .. t.tblend /\ a + 1 = t.base[s] /\ a + 1 \in starts
    BY <1>2, <1>4, <1>5, <1>7, <2>1
  <2>3. a \notin starts
    <3>1. \A y \in P : t.base[y] # a
      BY <1>5, <1>6, <2>1
    <3> QED
      BY <1>2, <1>7, <3>1
  <2>4. u.nxt[a] = CHOOSE y \in 0 .. lastdfa : t.base[y] = a + 1
    BY <1>8, <2>2, <2>3
  <2>5. \A y \in 0 .. lastdfa : t.base[y] = a + 1 => y = s
    BY <1>2, <1>6, <2>2
  <2> QED
    BY <1>2, <2>1, <2>2, <2>4, <2>5
<1>12. ASSUME NEW s \in P
       PROVE  u.chk[t.base[s] + 0] = 0 /\ t.base[s] + u.nxt[t.base[s] + 0] = e
  <2>1. PICK a \in Nat : a = t.base[s] /\ a + 0 = a /\ a \in 0 .. t.tblend /\ a \in starts
    BY <1>2, <1>4, <1>5, <1>7
  <2>2. u.chk[a] = 0 /\ u.nxt[a] = e - a
    BY <1>8, <2>1
  <2> QED
    BY <1>4, <2>1, <2>2
<1>13. ASSUME NEW s \in States, NEW c \in Ecs
       PROVE  IF u.chk[t.base[s] + c] = c THEN rows[s][c] # 0 /\ t.base[s] + u.nxt[t.base[s] + c] = t.base[rows[s][c]]
              ELSE rows[s][c] = 0
  <2>1. PICK b \in Nat, a \in Int : b = t.base[s] /\ a = b + c
    BY <1>2, <1>5, NumecsIsNat DEF States, Ecs
  <2>2. c \in Nat /\ c >= 1 /\ c <= numecs /\ s \in P /\ s \in 1 .. Len(rows) /\ a \in 0 .. t.tblend
    <3>1. c \in Nat /\ c >= 1 /\ c <= numecs /\ s \in P /\ s \in 1 .. Len(rows)
      BY <1>2, <1>3, <1>4, JamIs DEF Ecs, States
    <3>2. b + numecs <= t.tblend
      BY <1>5, <2>1, <3>1
    <3>3. t.tblend \in Nat /\ numecs \in Nat /\ b \in Nat /\ c \in Nat /\ c <= numecs
      BY <1>4, <2>1, <3>1
    <3>4. b + c \in 0 .. t.tblend
      BY ONLY <3>2, <3>3
    <3> QED
      BY <2>1, <3>1, <3>4
  <2>3. CASE rows[s][c] # 0
    <3>1. Moves(rows, s, c)
      BY <2>2, <2>3 DEF Moves
    <3>2. t.chk[a] = c /\ t.nxt[a] = rows[s][c] /\ ~Marked(t, P, a)
      BY <1>3, <2>1, <2>2, <3>1 DEF FastTable
    <3>3. u.chk[a] = c /\ u.nxt[a] = t.base[rows[s][c]] - (a - c)
      BY <1>8, <1>9, <2>2, <3>2
    <3>4. rows[s][c] \in P
      BY <1>2, <2>2 DEF Framed, RowsOK
    <3>5. PICK d \in Nat : d = t.base[rows[s][c]]
      BY <1>5, <3>4
    <3>6. b + (d - (a - c)) = d
      BY <2>1, <2>2
    <3> QED
      BY <2>1, <2>3, <3>3, <3>5, <3>6
  <2>4. CASE rows[s][c] = 0
    <3> SUFFICES ASSUME u.chk[a] = c PROVE FALSE
      BY <2>1, <2>4
    <3>1. c # 0
      BY <2>2
    <3>2. a \notin starts /\ a + 1 \notin starts
      BY <1>8, <2>2, <3>1
    <3>3. t.chk[a] = c /\ ~Marked(t, P, a)
      BY <1>8, <1>9, <2>2, <3>1, <3>2
    <3>4. PICK p \in P, d \in Ecs : Moves(rows, p, d) /\ a = t.base[p] + d
      <4>1. \A k \in DOMAIN t.chk : t.chk[k] # 0 /\ ~Marked(t, P, k) =>
              \E p \in P, d \in Ecs : Moves(rows, p, d) /\ k = t.base[p] + d
        BY <1>3 DEF FastTable
      <4>2. a \in DOMAIN t.chk
        BY <1>4, <2>2
      <4> QED
        BY <3>1, <3>3, <4>1, <4>2
    <3>5. t.chk[a] = d
      BY <1>3, <3>4 DEF FastTable
    <3>6. t.base[p] = t.base[s]
      <4>1. d = c
        BY <3>3, <3>5
      <4>2. PICK q \in Nat : q = t.base[p]
        BY <1>5, <3>4
      <4>3. q + c = b + c /\ b \in Nat /\ c \in Nat
        BY <2>1, <2>2, <3>4, <4>1, <4>2
      <4>4. q = b
        BY ONLY <4>2, <4>3
      <4> QED
        BY <2>1, <4>2, <4>4
    <3>7. p = s /\ d = c
      BY <1>6, <2>2, <3>3, <3>5, <3>6
    <3> QED
      BY <2>4, <3>4, <3>7 DEF Moves
  <2> QED
    BY <2>1, <2>3, <2>4
<1>14. eobbase' = e /\ \A b : FastAction(b)' = u.nxt[b - 1]
  BY <1>1, <1>4 DEF eobbase, FastAction
<1>15. \A b, c : FastNext(b, c)' = IF u.chk[b + c] = c THEN b + u.nxt[b + c] ELSE JAMSTATE
  BY <1>1 DEF FastNext
<1>16. \A s \in States : s \in P
  BY <1>2, JamIs DEF States
<1>17. \A c \in Characters : c # 0 => c \in Ecs
  BY <1>4 DEF Characters, Ecs
<1>18. FastAction(eobbase)' = EOB_ACTION' /\ FastNext(eobbase, 0)' = JAMSTATE'
  BY <1>10, <1>14, <1>15 DEF EOB_ACTION, JAMSTATE
<1>19. \A s \in States : /\ tbl'.base[s] \in Nat /\ tbl'.base[s] + numecs <= tbl'.tblend
                         /\ FastAction(tbl.base[s])' = s
  BY <1>1, <1>4, <1>5, <1>11, <1>14, <1>16
<1>20. ASSUME NEW s \in States, NEW c \in Characters
       PROVE  FastNext(tbl.base[s], c)' = IF c = 0 THEN eobbase'
                                           ELSE IF rows'[s][c] = 0 THEN JAMSTATE
                                           ELSE tbl'.base[rows'[s][c]]
  <2>1. tbl'.base = t.base /\ rows' = rows
    BY <1>1, <1>3, <1>4
  <2>2. CASE c = 0
    BY <1>12, <1>14, <1>15, <1>16, <2>1, <2>2
  <2>3. CASE c # 0
    BY <1>13, <1>15, <1>17, <2>1, <2>3
  <2> QED
    BY <2>2, <2>3
<1>21. tbl'.tblend \in Nat
  BY <1>1, <1>4
<1> QED
  BY <1>18, <1>19, <1>20, <1>21 DEF FastDecoded, States, Characters, JAMSTATE

LEMMA SameFast ==
  ASSUME FastTableOK, rows' = rows, tbl' = tbl, scheme' = scheme,
         pc' = pc \/ (pc = "rows" /\ pc' = "emit")
  PROVE  FastTableOK'
<1>1. pc' = "done" <=> pc = "done"
  OBVIOUS
<1>2. Placed' = Placed
  BY DEF Placed
<1>3. FastTable(tbl, Placed, rows)' <=> FastTable(tbl, Placed, rows)
  <2>1. FastTable(tbl, Placed, rows)' <=> FastTable(tbl', Placed', rows')
    BY DEF FastTable, AllStates, Shaped, Fields, Moves, Marked, Ecs
  <2> QED
    BY <1>2, <2>1
<1>4. FastDecoded' <=> FastDecoded
  <2>1. /\ eobbase' = eobbase /\ \A b : FastAction(b)' = FastAction(b)
        /\ \A b, c : FastNext(b, c)' = FastNext(b, c)
    BY DEF eobbase, FastAction, FastNext
  <2> QED
    BY <2>1 DEF FastDecoded
<1> QED
  BY <1>1, <1>3, <1>4 DEF FastTableOK

LEMMA StepFast == ASSUME Framed, FastTableOK, [Next]_vars PROVE FastTableOK'
<1>1. scheme' = scheme
  BY DEF Next, EndOfBufferState, SmallState, NewProto, MkTemplate, UseProto, FullRow, PlaceState, Compressed,
         Given, RowsEnd, Cmptmps, OneTransition, Mkdeftbl, Gentabs, PlaceState0, Genctbl, Terminated,
         options, vars
<1> SUFFICES ASSUME scheme = "fast" PROVE FastTableOK'
  BY <1>1 DEF FastTableOK
<1>2. CASE UNCHANGED vars \/ Terminated \/ RowsEnd
  <2>1. rows' = rows /\ tbl' = tbl /\ (pc' = pc \/ (pc = "rows" /\ pc' = "emit"))
    BY <1>2 DEF vars, Terminated, RowsEnd
  <2> QED
    BY <1>1, <2>1, SameFast
<1>3. CASE PlaceState0
  <2>1. pc # "done" /\ pc' # "done"
    BY <1>3 DEF PlaceState0
  <2> QED
    BY <1>3, <2>1, PlaceState0Fast DEF FastTableOK
<1>4. ASSUME NEW r \in Rows, PlaceState(r) PROVE FastTableOK'
  <2>1. pc # "done" /\ pc' # "done"
    BY <1>4 DEF PlaceState, Given
  <2> QED
    BY <1>4, <2>1, PlaceStateFast DEF FastTableOK
<1>5. CASE Genctbl
  <2>1. pc # "done" /\ pc' = "done"
    BY <1>5 DEF Genctbl
  <2> QED
    BY <1>5, <2>1, GenctblDecodes DEF FastTableOK
<1>6. /\ ~EndOfBufferState /\ ~Cmptmps /\ ~OneTransition /\ ~Mkdeftbl /\ ~Gentabs
      /\ ~\E r \in Rows : \/ \E over \in Behind(r) : SmallState(r, over) \/ NewProto(r, over)
                          \/ MkTemplate(r) \/ UseProto(r) \/ FullRow(r)
  BY DEF Framed, ControlOK, EndOfBufferState, Cmptmps, OneTransition, Mkdeftbl, Gentabs,
         SmallState, NewProto, MkTemplate, UseProto, FullRow, Compressed
<1>7. UNCHANGED vars \/ Terminated \/ RowsEnd \/ PlaceState0 \/ Genctbl \/ \E r \in Rows : PlaceState(r)
  BY <1>6 DEF Next
<1> QED
  BY <1>2, <1>3, <1>4, <1>5, <1>7

LEMMA FastDecodes ==
  ASSUME Framed, scheme = "fast", pc = "done", FastTableOK
  PROVE  TablesDecode /\ ReadsStayInside
<1>1. FastDecoded
  BY DEF FastTableOK
<1>2. ReadsStayInside
  <2>1. ASSUME NEW s \in States, NEW c \in 0 .. numecs PROVE tbl.base[s] >= 0 /\ tbl.base[s] + c <= tbl.tblend
    <3>1. PICK b \in Nat : b = tbl.base[s] /\ b + numecs <= tbl.tblend
      BY <1>1 DEF FastDecoded
    <3>2. tbl.tblend \in Int
      BY <1>1 DEF FastDecoded
    <3> QED
      BY <3>1, <3>2, NumecsIsNat
  <2>2. 0 \in 0 .. numecs
    BY NumecsIsNat
  <2> QED
    BY <2>1, <2>2 DEF ReadsStayInside
<1>3. TablesDecode
  BY <1>1 DEF TablesDecode, FastDecoded, Characters
<1> QED
  BY <1>2, <1>3

----------------------------------------------------------------------------
(* What is in them                                                         *)

Typed(t) ==
  /\ DOMAIN t.chk = 0 .. t.size - 1 /\ DOMAIN t.nxt = 0 .. t.size - 1
  /\ \A a \in DOMAIN t.chk : t.chk[a] \in AllStates \cup Ecs \cup {numecs + 1}
  /\ \A s \in AllStates : t.base[s] \in Nat \cup {JAMSTATE}
  /\ Len(t.one) < ONE_STACK_SIZE

LEMMA NoneWaits == Len(<<>>) < ONE_STACK_SIZE
BY SizesAssumption, ThresholdsAssumption

LEMMA PackedTyped == ASSUME Framed, NEW t, Packed(t) PROVE Typed(t)
<1>1. Sound(t, Listed) /\ Listed \subseteq AllStates /\ 0 \in AllStates
  BY ListedStates, JamIs DEF Packed, AllStates
<1>2. Shaped(t) /\ Behaved(t) /\ Owned(t, Listed)
  BY <1>1 DEF Sound, Arrays
<1>3. \A a \in DOMAIN t.chk : t.chk[a] \in AllStates
  BY <1>1, <1>2 DEF Owned
<1>4. \A s \in AllStates : t.base[s] \in Nat \cup {JAMSTATE}
  BY <1>2 DEF Behaved, Shaped
<1> QED
  BY <1>2, <1>3, <1>4 DEF Typed, Shaped, Behaved

LEMMA FinishedTyped == ASSUME Framed, NEW t, Finished(t) PROVE Typed(t)
<1>1. \A s \in AllStates : t.base[s] \in Nat \cup {JAMSTATE}
  BY DEF Finished
<1> QED
  BY <1>1, NoneWaits DEF Finished, Typed, Shaped

LEMMA GentabsTyped == ASSUME Framed, Finished(tbl), Gentabs PROVE Typed(tbl)'
<1>1. PICK t, u : t = tbl /\ u = tbl' /\ Made(t, u) /\ Typed(t) /\ Finished(t)
  BY GentabsMade, FinishedTyped
<1>2. \A s \in AllStates : u.base[s] \in Nat \cup {JAMSTATE}
  BY <1>1 DEF Made, Typed, Finished
<1>3. DOMAIN u.chk = 0 .. u.size - 1 /\ DOMAIN u.nxt = 0 .. u.size - 1
  BY <1>1 DEF Made, Typed
<1>4. \A a \in DOMAIN u.chk : u.chk[a] \in AllStates \cup Ecs \cup {numecs + 1}
  BY <1>1 DEF Made, Typed
<1>5. Len(u.one) < ONE_STACK_SIZE
  BY <1>1 DEF Made, Typed
<1> QED
  BY <1>1, <1>2, <1>3, <1>4, <1>5 DEF Typed, AllStates, Ecs, JAMSTATE

LEMMA UnusedTyped == ASSUME NEW t, Unused(t) PROVE Typed(t)
<1>1. 0 \in AllStates /\ 0 .. 1 - 1 = {0}
  BY JamIs DEF AllStates
<1> QED
  BY <1>1, NoneWaits DEF Unused, Typed

LEMMA FastTyped == ASSUME NEW t, NEW P, P \subseteq AllStates, NEW R, FastTable(t, P, R) PROVE Typed(t)
<1>1. DOMAIN t.chk = 0 .. t.size - 1 /\ DOMAIN t.nxt = 0 .. t.size - 1 /\ t.one = <<>>
  BY DEF FastTable, Shaped
<1>2. \A s \in AllStates : t.base[s] \in Nat \cup {JAMSTATE}
  BY DEF FastTable
<1>3. 0 \in AllStates /\ 1 \in Ecs
  BY JamIs DEF AllStates, Ecs
<1>4. ASSUME NEW a \in DOMAIN t.chk PROVE t.chk[a] \in AllStates \cup Ecs
  <2>1. CASE t.chk[a] = 0
    BY <1>2, <1>3, <2>1
  <2>2. CASE Marked(t, P, a)
    <3>1. t.chk[a] = 1
      BY <2>2 DEF Marked, FastTable
    <3> QED
      BY <1>3, <3>1
  <2>3. CASE t.chk[a] # 0 /\ ~Marked(t, P, a)
    <3>1. PICK s \in P, c \in Ecs : Moves(R, s, c) /\ a = t.base[s] + c
      BY <2>3 DEF FastTable
    <3>2. t.chk[a] = c
      BY <3>1 DEF FastTable
    <3> QED
      BY <3>2
  <2> QED
    BY <2>1, <2>2, <2>3
<1> QED
  BY <1>1, <1>2, <1>4, NoneWaits DEF Typed

LEMMA PlacedStates == ASSUME Framed PROVE Placed \subseteq AllStates
BY ListedStates, JamIs DEF Placed, AllStates

LEMMA GenctblTyped == ASSUME Framed, FastTable(tbl, Placed, rows), Genctbl PROVE Typed(tbl)'
<1>1. PICK t, u : t = tbl /\ u = tbl' /\ MadeFast(t, u)
  BY GenctblMakes
<1>2. Typed(t) /\ t.tblend \in Nat /\ t.one = <<>>
  BY <1>1, PlacedStates, FastTyped DEF FastTable, Shaped
<1>3. PICK m \in Nat, e \in Nat : m = t.tblend /\ e = m + 2
  BY <1>2
<1>4. DOMAIN u.chk = 0 .. u.size - 1 /\ DOMAIN u.nxt = 0 .. u.size - 1 /\ DOMAIN u.chk = 0 .. e
  <2>1. u.size = t.tblend + 3 /\ DOMAIN u.chk = 0 .. t.tblend + 2 /\ DOMAIN u.nxt = 0 .. t.tblend + 2
    BY <1>1 DEF MadeFast
  <2>2. u.size - 1 = e /\ t.tblend + 2 = e
    BY <1>3, <2>1
  <2> QED
    BY <2>1, <2>2
<1>5. 0 \in AllStates /\ 1 \in Ecs
  BY JamIs DEF AllStates, Ecs
<1>6. \A a \in 0 .. t.tblend : u.chk[a] \in Ecs \cup {0}
  <2> SUFFICES ASSUME NEW a \in 0 .. t.tblend PROVE u.chk[a] \in Ecs \cup {0}
    OBVIOUS
  <2>1. PICK starts : MadePlace(t, u, starts, a)
    BY <1>1 DEF MadeFast
  <2> QED
    BY <2>1 DEF MadePlace
<1>7. u.chk[e] = 1 /\ u.chk[e - 1] = numecs + 1
  <2>1. t.tblend + 2 = e /\ t.tblend + 1 = e - 1
    BY <1>3
  <2> QED
    BY <1>1, <2>1 DEF MadeFast
<1>8. \A a \in DOMAIN u.chk : u.chk[a] \in AllStates \cup Ecs \cup {numecs + 1}
  <2> SUFFICES ASSUME NEW a \in 0 .. e PROVE u.chk[a] \in AllStates \cup Ecs \cup {numecs + 1}
    BY <1>4
  <2>1. a \in 0 .. t.tblend \/ a = e - 1 \/ a = e
    BY <1>3
  <2> QED
    BY <1>5, <1>6, <1>7, <2>1
<1>9. u.base = t.base /\ u.one = <<>>
  BY <1>1, <1>2 DEF MadeFast
<1> QED
  BY <1>1, <1>2, <1>4, <1>8, <1>9, NoneWaits DEF Typed, AllStates, Ecs, JAMSTATE

----------------------------------------------------------------------------
(* The tables, from the first row to the scanner                           *)

TypedOK == pc = "done" => Typed(tbl)
DecodeInv ==
  IInv /\ ProtosOK /\ Framed /\ CompressedOK /\ FullTableOK /\ FastTableOK /\ TypedOK

LEMMA InitDecode == ASSUME Init PROVE DecodeInv
<1>1. TypedOK
  BY DEF Init, TypedOK
<1> QED
  BY <1>1, InitInv, InitProtos, InitFramed, InitCompressed, InitFull, InitFast DEF DecodeInv

LEMMA StepTyped ==
  ASSUME Framed, CompressedOK, FullTableOK, FullTableOK', FastTableOK, TypedOK, [Next]_vars PROVE TypedOK'
<1> SUFFICES ASSUME pc' = "done" PROVE Typed(tbl)'
  BY DEF TypedOK
<1>1. CASE pc = "done" /\ tbl' = tbl
  BY <1>1 DEF TypedOK, Typed, AllStates, Ecs, JAMSTATE
<1>2. CASE RowsEnd
  <2>1. scheme' = "full"
    BY <1>2 DEF RowsEnd, options, Framed, ControlOK
  <2>2. Unused(tbl)'
    BY <2>1 DEF FullTableOK
  <2>3. Unused(tbl')
    BY <2>2 DEF Unused, AllStates
  <2>4. Typed(tbl')
    BY <2>3, UnusedTyped
  <2> QED
    BY <2>4 DEF Typed, AllStates, Ecs, JAMSTATE
<1>3. CASE Gentabs
  BY <1>3, GentabsTyped DEF CompressedOK, Gentabs
<1>4. CASE Genctbl
  BY <1>4, GenctblTyped DEF FastTableOK, Genctbl
<1>5. /\ ~EndOfBufferState /\ ~Cmptmps /\ ~OneTransition /\ ~Mkdeftbl /\ ~PlaceState0
      /\ ~\E r \in Rows : \/ \E over \in Behind(r) : SmallState(r, over) \/ NewProto(r, over)
                          \/ MkTemplate(r) \/ UseProto(r) \/ FullRow(r) \/ PlaceState(r)
  BY DEF EndOfBufferState, Cmptmps, OneTransition, Mkdeftbl, PlaceState0, PlaceState,
         SmallState, NewProto, MkTemplate, UseProto, FullRow, Compressed, Given
<1>6. RowsEnd \/ Gentabs \/ Genctbl \/ Terminated \/ UNCHANGED vars
  BY <1>5 DEF Next
<1>7. Terminated \/ UNCHANGED vars => pc = "done" /\ tbl' = tbl
  BY DEF Terminated, vars
<1> QED
  BY <1>1, <1>2, <1>3, <1>4, <1>6, <1>7

LEMMA StepDecode == ASSUME Distinguishable, DecodeInv, [Next]_vars PROVE DecodeInv'
<1>1. IInv /\ ProtosOK /\ Framed /\ CompressedOK /\ FullTableOK /\ FastTableOK /\ TypedOK
  BY DEF DecodeInv
<1>2. IInv' /\ ProtosOK' /\ Framed'
  BY <1>1, StepInv, StepProtos, StepFramed
<1>3. CompressedOK' /\ FullTableOK' /\ FastTableOK'
  BY <1>1, StepCompressed, StepFull, StepFast
<1>4. TypedOK'
  BY <1>1, <1>3, StepTyped
<1> QED
  BY <1>2, <1>3, <1>4 DEF DecodeInv

LEMMA TblTyped == ASSUME DecodeInv PROVE TblTypeOK
<1>1. Framed /\ ProtosOK
  BY DEF DecodeInv
<1>2. Typed(tbl)
  <2>1. scheme \in {"compressed", "full", "fast"} /\ pc \in {"begin", "rows", "templates", "emit", "done"}
    BY <1>1 DEF Framed, ControlOK
  <2>2. CASE pc = "done"
    BY <2>2 DEF DecodeInv, TypedOK
  <2>3. CASE scheme = "full"
    BY <2>3, UnusedTyped DEF DecodeInv, FullTableOK
  <2>4. CASE scheme = "fast" /\ pc # "done"
    BY <1>1, <2>4, PlacedStates, FastTyped DEF DecodeInv, FastTableOK
  <2>5. CASE scheme = "compressed" /\ pc # "done"
    <3>1. pc # "begin"
      BY <1>1, <2>5 DEF Framed, ControlOK
    <3>2. Packed(tbl) \/ Finished(tbl)
      BY <2>1, <2>5, <3>1 DEF DecodeInv, CompressedOK
    <3> QED
      BY <1>1, <3>2, PackedTyped, FinishedTyped
  <2> QED
    BY <2>1, <2>2, <2>3, <2>4, <2>5
<1>3. prot.first \in 0 .. MSP - 1 /\ prot.last \in 1 .. MSP - 1
  <2>1. Linked(prot) /\ MSP \in Nat /\ MSP >= 3
    BY <1>1, SizesAre DEF ProtosOK, Queued
  <2> QED
    BY <2>1 DEF Linked, Slots, NIL
<1>4. Len(rows) \in 0 .. lastdfa /\ Len(tnxt) \in 0 .. Len(rows) /\ placed \in 0 .. Len(tnxt)
  <2>1. Len(rows) \in Nat /\ Len(rows) <= lastdfa /\ Len(tnxt) \in Nat /\ Len(tnxt) <= Len(rows)
    BY <1>1, ListedStates, PlacedIs DEF Framed, TemplatesOK
  <2> QED
    BY <1>1, <2>1, PlacedIs, JamIs
<1>5. pc \in {"begin", "rows", "templates", "emit", "done"}
  BY <1>1 DEF Framed, ControlOK
<1> QED
  BY <1>2, <1>3, <1>4, <1>5 DEF TblTypeOK, Typed

LEMMA TablesCorrect == ASSUME DecodeInv PROVE TablesDecode /\ ReadsStayInside
<1>1. Framed /\ CompressedOK /\ FullTableOK /\ FastTableOK
      /\ scheme \in {"compressed", "full", "fast"} /\ pc \in {"begin", "rows", "templates", "emit", "done"}
  BY DEF DecodeInv, Framed, ControlOK
<1>2. CASE scheme = "full"
  BY <1>1, <1>2, FullDecodes
<1>3. CASE scheme # "full" /\ pc = "done"
  BY <1>1, <1>3, CompressedDecodes, FastDecodes DEF CompressedOK
<1>4. CASE scheme # "full" /\ pc # "done"
  <2>1. TablesDecode
    BY <1>4 DEF TablesDecode
  <2>2. tbl.tblend > 0 => tbl.firstfree < tbl.size
    <3>1. CASE scheme = "fast"
      BY <1>1, <1>4, <3>1 DEF FastTableOK, FastTable
    <3>2. CASE scheme = "compressed"
      <4>1. pc # "begin"
        BY <1>1, <3>2 DEF Framed, ControlOK
      <4>2. CASE Packed(tbl)
        BY <4>2 DEF Packed, Sound, Arrays, Shaped, Behaved
      <4>3. CASE Finished(tbl)
        BY <4>3, NumecsIsNat DEF Finished, Shaped
      <4> QED
        BY <1>1, <1>4, <3>2, <4>1, <4>2, <4>3 DEF CompressedOK
    <3> QED
      BY <1>1, <1>4, <3>1, <3>2
  <2>3. ReadsStayInside
    BY <1>4, <2>2 DEF ReadsStayInside
  <2> QED
    BY <2>1, <2>3
<1> QED
  BY <1>2, <1>3, <1>4

\* Whatever rows the automaton has, and in whatever order its states come: when
\* the tables are written, the scanner's lookup finds in them, for each state and
\* each class, the state that ntod() computed, and jams where there is none.
THEOREM TablesHold == Distinguishable => (Spec => []TablesDecode)
<1> SUFFICES ASSUME Distinguishable PROVE Spec => []TablesDecode
  OBVIOUS
<1>1. DecodeInv /\ [Next]_vars => DecodeInv'
  BY StepDecode
<1>2. Init => DecodeInv
  BY InitDecode
<1>3. DecodeInv => TablesDecode
  BY TablesCorrect
<1> QED
  BY <1>1, <1>2, <1>3, PTL DEF Spec

\* And neither the searches for room, which have no bound of their own, nor the
\* lookups of the scanner leave the arrays.
THEOREM ReadsHold == Distinguishable => (Spec => []ReadsStayInside)
<1> SUFFICES ASSUME Distinguishable PROVE Spec => []ReadsStayInside
  OBVIOUS
<1>1. DecodeInv /\ [Next]_vars => DecodeInv'
  BY StepDecode
<1>2. Init => DecodeInv
  BY InitDecode
<1>3. DecodeInv => ReadsStayInside
  BY TablesCorrect
<1> QED
  BY <1>1, <1>2, <1>3, PTL DEF Spec

\* nxt and chk grow together, hold states and classes only, and the rows that
\* wait on the one-stack never fill it.
THEOREM TblTypesHold == Distinguishable => (Spec => []TblTypeOK)
<1> SUFFICES ASSUME Distinguishable PROVE Spec => []TblTypeOK
  OBVIOUS
<1>1. DecodeInv /\ [Next]_vars => DecodeInv'
  BY StepDecode
<1>2. Init => DecodeInv
  BY InitDecode
<1>3. DecodeInv => TblTypeOK
  BY TblTyped
<1> QED
  BY <1>1, <1>2, <1>3, PTL DEF Spec
=============================================================================
