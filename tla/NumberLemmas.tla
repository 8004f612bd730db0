---------------------------- MODULE NumberLemmas ----------------------------
(***************************************************************************)
(* Least and greatest numbers of a set, induction over a set of natural    *)
(* numbers, and functions defined by recursion over an interval, from the  *)
(* well-foundedness of <.                                                  *)
(***************************************************************************)
EXTENDS Integers, FiniteSetsExt, TLAPS, WellFoundedInduction

\* Min() of a set that is bounded below is its least element.
LEMMA MinIs ==
  ASSUME NEW S, S \subseteq Int, S # {}, NEW l \in Int, \A y \in S : l <= y
  PROVE  Min(S) \in S /\ \A y \in S : Min(S) <= y
<1> DEFINE above == {n \in Nat : l + n \in S}
<1>1. above \subseteq Nat /\ above # {}
  <2>1. PICK y \in S : TRUE
    OBVIOUS
  <2>2. y - l \in Nat /\ l + (y - l) = y
    BY <2>1
  <2> QED
    BY <2>1, <2>2
<1> HIDE DEF above
<1>2. PICK n \in above : \A k \in above : <<k, n>> \notin OpToRel(<, Nat)
  BY <1>1, WFMin, NatLessThanWellFounded
<1>3. n \in Nat /\ \A k \in above : k \in Nat /\ n <= k
  <2>1. \A k \in above : ~(k < n)
    BY <1>1, <1>2 DEF OpToRel
  <2> QED
    BY <1>1, <2>1
<1>4. ASSUME NEW y \in S PROVE l + n <= y
  <2>1. y - l \in above
    <3>1. y - l \in Nat /\ l + (y - l) = y
      OBVIOUS
    <3> QED
      BY <3>1 DEF above
  <2> QED
    BY <1>3, <2>1
<1>5. l + n \in S
  BY <1>2 DEF above
<1> QED
  BY <1>4, <1>5 DEF Min

\* Max() of a set that is bounded above is its greatest element.
LEMMA MaxIs ==
  ASSUME NEW S, S \subseteq Int, S # {}, NEW u \in Int, \A y \in S : y <= u
  PROVE  Max(S) \in S /\ \A y \in S : y <= Max(S)
<1> DEFINE below == {n \in Nat : u - n \in S}
<1>1. below \subseteq Nat /\ below # {}
  <2>1. PICK y \in S : TRUE
    OBVIOUS
  <2>2. u - y \in Nat /\ u - (u - y) = y
    BY <2>1
  <2> QED
    BY <2>1, <2>2
<1> HIDE DEF below
<1>2. PICK n \in below : \A k \in below : <<k, n>> \notin OpToRel(<, Nat)
  BY <1>1, WFMin, NatLessThanWellFounded
<1>3. n \in Nat /\ \A k \in below : k \in Nat /\ n <= k
  <2>1. \A k \in below : ~(k < n)
    BY <1>1, <1>2 DEF OpToRel
  <2> QED
    BY <1>1, <2>1
<1>4. ASSUME NEW y \in S PROVE y <= u - n
  <2>1. u - y \in below
    <3>1. u - y \in Nat /\ u - (u - y) = y
      OBVIOUS
    <3> QED
      BY <3>1 DEF below
  <2> QED
    BY <1>3, <2>1
<1>5. u - n \in S
  BY <1>2 DEF below
<1>6. \A y \in S : u - n >= y
  BY <1>3, <1>4
<1>7. Max(S) \in S /\ \A y \in S : Max(S) >= y
  BY <1>5, <1>6 DEF Max
<1> QED
  BY <1>7

\* A set with 0 that has with each number the next one has all numbers.
LEMMA SetInduction ==
  ASSUME NEW P, 0 \in P, \A k \in Nat : k \in P => k + 1 \in P
  PROVE  \A k \in Nat : k \in P
<1> DEFINE N == {k \in Nat : k \notin P}
<1> SUFFICES ASSUME N # {} PROVE FALSE
  OBVIOUS
<1>1. PICK n \in N : \A k \in N : n <= k
  <2>1. N \subseteq Int /\ N # {} /\ 0 \in Int /\ \A y \in N : 0 <= y
    OBVIOUS
  <2> HIDE DEF N
  <2>2. Min(N) \in N /\ \A y \in N : Min(N) <= y
    BY <2>1, MinIs
  <2> QED
    BY <2>2
<1>2. n - 1 \in Nat
  BY <1>1
<1>3. n - 1 \in P
  BY <1>1, <1>2
<1> QED
  BY <1>1, <1>2, <1>3

\* What holds of the first value of a recursive function and is passed on to
\* each next one holds of all.
LEMMA PassedOn ==
  ASSUME NEW a \in Int, NEW b \in Int, NEW f, NEW S, f[a] \in S,
         \A i \in a + 1 .. b : f[i - 1] \in S => f[i] \in S
  PROVE  \A i \in a .. b : f[i] \in S
<1> DEFINE P == {k \in Nat : a + k <= b => f[a + k] \in S}
<1>1. 0 \in P
  OBVIOUS
<1>2. ASSUME NEW k \in Nat, k \in P PROVE k + 1 \in P
  <2> SUFFICES ASSUME a + (k + 1) <= b PROVE f[a + (k + 1)] \in S
    OBVIOUS
  <2>1. a + (k + 1) \in a + 1 .. b /\ a + (k + 1) - 1 = a + k /\ a + k <= b
    OBVIOUS
  <2>2. f[a + k] \in S
    BY <1>2, <2>1
  <2> QED
    BY <2>1, <2>2
<1> HIDE DEF P
<1>3. \A k \in Nat : k \in P
  BY <1>1, <1>2, SetInduction
<1> SUFFICES ASSUME NEW i \in a .. b PROVE f[i] \in S
  OBVIOUS
<1>4. i - a \in P /\ a + (i - a) = i /\ i <= b
  BY <1>3
<1> QED
  BY <1>4 DEF P

\* f is the function that begins with init and goes on with G.
Recursion(f, a, b, init, G) ==
  f = [i \in a .. b |-> IF i = a THEN init ELSE G[<<i, f[i - 1]>>]]

\* There is such a function.
LEMMA RecursionExists ==
  ASSUME NEW a \in Int, NEW b \in Int, a <= b, NEW init, NEW G
  PROVE  \E f : Recursion(f, a, b, init, G)
<1> DEFINE P == {k \in Nat : \E f : Recursion(f, a, a + k, init, G)}
<1>1. 0 \in P
  <2> DEFINE f == [i \in a .. a + 0 |-> init]
  <2>1. Recursion(f, a, a + 0, init, G)
    BY DEF Recursion
  <2> QED
    BY <2>1
<1>2. ASSUME NEW k \in Nat, k \in P PROVE k + 1 \in P
  <2>1. PICK f : Recursion(f, a, a + k, init, G)
    BY <1>2
  <2> DEFINE h == [i \in a .. a + (k + 1) |-> IF i \in a .. a + k THEN f[i] ELSE G[<<i, f[a + k]>>]]
             g == [i \in a .. a + (k + 1) |-> IF i = a THEN init ELSE G[<<i, h[i - 1]>>]]
  <2>2. ASSUME NEW i \in a .. a + (k + 1) PROVE h[i] = g[i]
    <3>1. CASE i = a
      <4>1. f[a] = init /\ a \in a .. a + k
        BY <2>1 DEF Recursion
      <4> QED
        BY <3>1, <4>1
    <3>2. CASE i # a /\ i \in a .. a + k
      <4>1. f[i] = G[<<i, f[i - 1]>>]
        BY <2>1, <3>2 DEF Recursion
      <4>2. i - 1 \in a .. a + k /\ i - 1 \in a .. a + (k + 1)
        BY <3>2
      <4>3. h[i - 1] = f[i - 1]
        BY <4>2
      <4> QED
        BY <3>2, <4>1, <4>3
    <3>3. CASE i # a /\ i \notin a .. a + k
      <4>1. i - 1 = a + k /\ i - 1 \in a .. a + k /\ i - 1 \in a .. a + (k + 1)
        BY <3>3
      <4>2. h[i - 1] = f[a + k]
        BY <4>1
      <4> QED
        BY <3>3, <4>2
    <3> QED
      BY <3>1, <3>2, <3>3
  <2>3. h = g
    BY <2>2
  <2>4. Recursion(h, a, a + (k + 1), init, G)
    BY <2>3 DEF Recursion
  <2> QED
    BY <2>4
<1> HIDE DEF P
<1>3. \A k \in Nat : k \in P
  BY <1>1, <1>2, SetInduction
<1>4. b - a \in P /\ a + (b - a) = b
  BY <1>3
<1> QED
  BY <1>4 DEF P

\* Its values are in a set that G does not lead out of.
LEMMA RecursionIs ==
  ASSUME NEW a \in Int, NEW b \in Int, a <= b, NEW S, NEW init \in S,
         NEW G \in [(a .. b) \X S -> S]
  PROVE  \E f \in [a .. b -> S] : Recursion(f, a, b, init, G)
<1>1. PICK f : Recursion(f, a, b, init, G)
  BY RecursionExists
<1>2. f = [i \in a .. b |-> f[i]] /\ f[a] = init
  BY <1>1 DEF Recursion
<1>3. ASSUME NEW i \in a + 1 .. b, f[i - 1] \in S PROVE f[i] \in S
  <2>1. f[i] = G[<<i, f[i - 1]>>]
    BY <1>1 DEF Recursion
  <2>2. <<i, f[i - 1]>> \in (a .. b) \X S
    BY <1>3
  <2> QED
    BY <2>1, <2>2
<1>4. \A i \in a .. b : f[i] \in S
  BY <1>2, <1>3, PassedOn
<1> QED
  BY <1>1, <1>2, <1>4

\* f goes on from next[T], with a smaller measure, until it comes to P.
Descent(f, D, P, v, next, G) ==
  f = [T \in D |-> IF T \in P THEN v[T] ELSE G[<<T, f[next[T]]>>]]

LEMMA DescentExists ==
  ASSUME NEW D, NEW m \in [D -> Nat], NEW max \in Nat, \A T \in D : m[T] <= max,
         NEW P, NEW next \in [D -> D], \A T \in D \ P : m[next[T]] < m[T], NEW v, NEW G
  PROVE  \E f : Descent(f, D, P, v, next, G)
<1> DEFINE Val(f, T) == IF T \in P THEN v[T] ELSE G[<<T, f[next[T]]>>]
           Up(f, k) == \A T \in D : m[T] < k => f[T] = Val(f, T)
           Q == {k \in Nat : \E f : Up(f, k)}
<1>1. 0 \in Q
  <2>1. \A T \in D : ~(m[T] < 0)
    OBVIOUS
  <2> HIDE DEF Val
  <2>2. Up(P, 0)
    BY <2>1
  <2> QED
    BY <2>2
<1>2. ASSUME NEW k \in Nat, k \in Q PROVE k + 1 \in Q
  <2>1. PICK f : Up(f, k)
    BY <1>2
  <2> DEFINE g == [T \in D |-> Val(f, T)]
  <2>2. ASSUME NEW T \in D, m[T] < k PROVE g[T] = f[T]
    BY <2>1, <2>2
  <2>3. ASSUME NEW T \in D, m[T] < k + 1 PROVE g[T] = Val(g, T)
    <3>1. CASE T \in P
      BY <3>1
    <3>2. CASE T \notin P
      <4>1. next[T] \in D /\ m[next[T]] < k
        <5>1. next[T] \in D /\ m[next[T]] < m[T]
          BY <3>2
        <5> QED
          BY <2>3, <5>1
      <4>2. g[next[T]] = f[next[T]]
        BY <2>2, <4>1
      <4>3. g[T] = Val(f, T)
        OBVIOUS
      <4> HIDE DEF g
      <4> QED
        BY <3>2, <4>2, <4>3
    <3> QED
      BY <3>1, <3>2
  <2> HIDE DEF g, Val
  <2>4. Up(g, k + 1)
    BY <2>3
  <2> QED
    BY <2>4
<1> HIDE DEF Q
<1>3. max + 1 \in Q
  BY <1>1, <1>2, SetInduction
<1>4. PICK f : Up(f, max + 1)
  BY <1>3 DEF Q
<1> DEFINE g == [T \in D |-> f[T]]
<1>5. ASSUME NEW T \in D PROVE g[T] = Val(g, T)
  <2>1. m[T] < max + 1
    OBVIOUS
  <2>2. f[T] = Val(f, T)
    BY <1>4, <2>1
  <2>3. next[T] \in D
    OBVIOUS
  <2>4. g[T] = f[T] /\ g[next[T]] = f[next[T]]
    BY <2>3
  <2> HIDE DEF g
  <2> QED
    BY <2>2, <2>4
<1>6. g = [T \in D |-> Val(g, T)]
  <2>1. g = [T \in D |-> g[T]]
    OBVIOUS
  <2> HIDE DEF g, Val
  <2> QED
    BY <1>5, <2>1
<1> HIDE DEF g
<1> QED
  BY <1>6 DEF Descent

\* Its values are in a set that G does not lead out of.
LEMMA DescentIs ==
  ASSUME NEW D, NEW m \in [D -> Nat], NEW P, NEW next \in [D -> D],
         \A T \in D \ P : m[next[T]] < m[T], NEW v, NEW G,
         NEW V, \A T \in D : T \in P => v[T] \in V, \A T \in D, y \in V : G[<<T, y>>] \in V,
         NEW f, Descent(f, D, P, v, next, G)
  PROVE  \A T \in D : f[T] \in V
<1> DEFINE Q == {k \in Nat : \A T \in D : m[T] < k => f[T] \in V}
<1>1. 0 \in Q
  BY \A T \in D : ~(m[T] < 0)
<1>2. ASSUME NEW k \in Nat, k \in Q PROVE k + 1 \in Q
  <2>1. ASSUME NEW T \in D, m[T] < k + 1 PROVE f[T] \in V
    <3>1. CASE T \in P
      <4>1. f[T] = v[T]
        BY <3>1 DEF Descent
      <4> QED
        BY <3>1, <4>1
    <3>2. CASE T \notin P
      <4>1. next[T] \in D /\ m[next[T]] < m[T]
        BY <3>2
      <4>2. m[next[T]] < k
        <5>1. m[T] \in Nat /\ m[next[T]] \in Nat
          BY <4>1
        <5> QED
          BY ONLY <2>1, <4>1, <5>1, k \in Nat
      <4>3. f[next[T]] \in V
        BY <1>2, <4>1, <4>2
      <4>4. f[T] = G[<<T, f[next[T]]>>]
        BY <3>2 DEF Descent
      <4> QED
        BY <4>3, <4>4
    <3> QED
      BY <3>1, <3>2
  <2> QED
    BY <2>1
<1> HIDE DEF Q
<1>3. \A k \in Nat : k \in Q
  BY <1>1, <1>2, SetInduction
<1> SUFFICES ASSUME NEW T \in D PROVE f[T] \in V
  OBVIOUS
<1>4. m[T] + 1 \in Nat /\ m[T] < m[T] + 1
  OBVIOUS
<1>5. m[T] + 1 \in Q
  BY <1>3, <1>4
<1> QED
  BY <1>4, <1>5 DEF Q
=============================================================================
