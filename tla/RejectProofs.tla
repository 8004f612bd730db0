---------------------------- MODULE RejectProofs ----------------------------
(***************************************************************************)
(* For all rules and texts: the search for a match never goes back past    *)
(* the start state, REJECT leads to the next best match, and yytext ends   *)
(* where trailing context begins.                                          *)
(*                                                                         *)
(* The argument: the states on the stack are the beginnings of the text    *)
(* that was read, so the accept lists on the way back name the matches,    *)
(* the best first; while the beginning of a trail is looked for, a head of *)
(* the rule lies on the stack below; and the default rule, which cannot be *)
(* rejected, lies at the bottom.                                           *)
(***************************************************************************)
EXTENDS Reject, NumberLemmas, FiniteSetTheorems, SequenceTheorems

----------------------------------------------------------------------------
(* The inductive invariant                                                 *)

\* The first n characters from place b of the text t, and the matches there.
Word(t, b, n) == SubSeq(t, b + 1, b + n)
MatchesAt(R, t, b) ==
  {m \in (1 .. Len(t) - b) \X DOMAIN R : Word(t, b, m[1]) \in Whole(R[m[2]])}
BetterThan(R, t, b, m) == {k \in MatchesAt(R, t, b) : Better(k, m)}

\* The accept list of the state that is stacked after n characters, and the
\* matches that lie before its entry j on the way back.
ListAt(R, stk, n) == Lists[R][stk[n + 1]]
Passed(R, t, b, stk, n, j) ==
  {m \in MatchesAt(R, t, b) :
     \/ m[1] > n
     \/ m[1] = n /\ \E k \in 1 .. j - 1 : ListAt(R, stk, n)[k] = Marked(R, m[2])}

\* Record f is what REJECT goes back to after match m.
Keeps(R, b, stk, f, m) ==
  /\ f.cp = b + m[1] /\ f.ptr = m[1]
  /\ f.lp \in 1 .. Len(ListAt(R, stk, m[1]))
  /\ ListAt(R, stk, m[1])[f.lp] = Marked(R, m[2])

Fixed ==
  /\ rules \in RuleSets /\ text \in Texts /\ interactive \in BOOLEAN /\ real_reject \in BOOLEAN
  /\ real_reject \/ variable_trailing_context_rules
  /\ begin \in 0 .. Len(text) /\ rejects \in Nat

\* What was stacked: the whole run, or the states of the text.
Stacked ==
  \/ stack = Run(begin)
  \/ /\ begin < Len(text) /\ Len(Run(begin)) > Len(text) - begin + 1
     /\ stack = [n \in 1 .. Len(text) - begin + 1 |-> Run(begin)[n]]

AtPlace ==
  /\ ptr \in 1 .. Len(stack) - 1 /\ cp = begin + ptr /\ current = stack[ptr + 1]
  /\ lp \in Nat \ {0} /\ lp <= Len(ListAt(rules, stack, ptr)) + 1

\* The search for a match.  Before the start state there is a rule without
\* trailing context, or the end of the buffer.
Searching ==
  /\ Cardinality(Passed(rules, text, begin, stack, ptr, lp)) = rejects
  /\ ptr = 1 => \E k \in lp .. Len(ListAt(rules, stack, 1)) :
                  ListAt(rules, stack, 1)[k] \in {Len(rules), EOB_ACTION(rules)}

\* Match m is one of a rule with trailing context, and between its end and
\* where the scanner is no head of the rule ends.
TrailOf(m) ==
  /\ m \in MatchesAt(rules, text, begin) /\ rules[m[2]].variable /\ ptr <= m[1]
  /\ Cardinality(BetterThan(rules, text, begin, m)) = rejects
  /\ real_reject => Keeps(rules, begin, stack, full, m)
  /\ \A n \in ptr + 1 .. m[1] : Word(text, begin, n) \notin rules[m[2]].head

LookingForHead ==
  \E m \in MatchesAt(rules, text, begin) :
    /\ TrailOf(m) /\ looking = m[2] + YY_TRAILING_HEAD_MASK
    /\ \A k \in 1 .. lp - 1 : ListAt(rules, stack, ptr)[k] # looking

MatchFound(m) ==
  /\ m \in MatchesAt(rules, text, begin)
  /\ ~rules[m[2]].variable /\ m[1] = ptr /\ full.cp = cp
  /\ Cardinality(BetterThan(rules, text, begin, m)) = rejects
  /\ ListAt(rules, stack, ptr)[lp] = act
  /\ variable_trailing_context_rules => Keeps(rules, begin, stack, full, m)
HeadFound(m) == TrailOf(m) /\ Word(text, begin, ptr) \in rules[m[2]].head

Chosen ==
  \/ act = EOB_ACTION(rules) /\ current = EobState /\ rejects = 0
  \/ \E m \in MatchesAt(rules, text, begin) : act = m[2] /\ (MatchFound(m) \/ HeadFound(m))

Bounds == /\ cp \in 0 .. Len(text) + 2 /\ stack \in Seq(DOMAIN acclist)
          /\ Len(stack) <= Len(text) + 3 /\ ptr \in 0 .. Len(stack)
          /\ full \in [cp : Nat, ptr : Nat, lp : Nat]

IInv ==
  /\ Fixed /\ Bounds
  /\ pc \in {"match", "find_action", "find_rule", "action", "eof"}
  /\ pc = "match" => looking = 0 /\ rejects = 0
  /\ pc = "find_action" =>
       Stacked /\ ptr = Len(stack) /\ cp = begin + ptr - 1 /\ looking = 0 /\ rejects = 0
  /\ pc = "find_rule" =>
       /\ Stacked /\ AtPlace
       /\ looking = 0 => Searching
       /\ looking # 0 => LookingForHead
  /\ pc = "action" =>
       Stacked /\ AtPlace /\ looking = 0 /\ lp <= Len(ListAt(rules, stack, ptr)) /\ Chosen

----------------------------------------------------------------------------
(* The accept list of a state                                              *)

Ascending(s) == \A j, k \in DOMAIN s : j < k => s[j] < s[k]

\* A set of numbers up to u is finite.
LEMMA FiniteBelow ==
  ASSUME NEW u \in Nat, NEW S \in SUBSET (0 .. u)
  PROVE  IsFiniteSet(S) /\ Cardinality(S) \in Nat
<1>1. IsFiniteSet(0 .. u)
  BY FS_Interval
<1>2. IsFiniteSet(S)
  BY <1>1, FS_Subset
<1> QED
  BY <1>2, FS_CardinalityType

\* A finite set of numbers can be put in order.
LEMMA SortedExists ==
  ASSUME NEW u \in Nat, NEW S \in SUBSET (0 .. u)
  PROVE  \E s \in [1 .. Cardinality(S) -> S] : Ascending(s)
<1> DEFINE Ordered(T) == \E s \in [1 .. Cardinality(T) -> T] : Ascending(s)
           P == {n \in Nat : \A T \in SUBSET (0 .. u) : Cardinality(T) = n => Ordered(T)}
<1>1. \A T \in SUBSET (0 .. u) : IsFiniteSet(T) /\ Cardinality(T) \in Nat
  BY FiniteBelow
<1>2. 0 \in P
  <2> SUFFICES ASSUME NEW T \in SUBSET (0 .. u), Cardinality(T) = 0 PROVE Ordered(T)
    OBVIOUS
  <2>1. [k \in 1 .. 0 |-> 0] \in [1 .. 0 -> T] /\ Ascending([k \in 1 .. 0 |-> 0])
    BY DEF Ascending
  <2> QED
    BY <2>1
<1>3. ASSUME NEW n \in Nat, n \in P PROVE n + 1 \in P
  <2> SUFFICES ASSUME NEW T \in SUBSET (0 .. u), Cardinality(T) = n + 1 PROVE Ordered(T)
    OBVIOUS
  <2>1. T # {} /\ IsFiniteSet(T)
    BY <1>1, FS_EmptySet
  <2>2. Max(T) \in T /\ \A y \in T : y <= Max(T)
    <3>1. T \subseteq Int /\ u \in Int /\ \A y \in T : y <= u
      OBVIOUS
    <3> QED
      BY <2>1, <3>1, MaxIs
  <2>3. PICK m \in T : \A y \in T : y <= m
    BY <2>2
  <2>4. Cardinality(T \ {m}) = n
    BY <2>1, FS_RemoveElement
  <2>5. PICK s \in [1 .. n -> T \ {m}] : Ascending(s)
    <3>1. T \ {m} \in SUBSET (0 .. u)
      OBVIOUS
    <3> QED
      BY <1>3, <2>4, <3>1
  <2> DEFINE f == [k \in 1 .. n + 1 |-> IF k = n + 1 THEN m ELSE s[k]]
  <2>6. f \in [1 .. n + 1 -> T]
    BY <2>3, <2>5
  <2>7. Ascending(f)
    <3> SUFFICES ASSUME NEW j \in 1 .. n + 1, NEW k \in 1 .. n + 1, j < k PROVE f[j] < f[k]
      BY DEF Ascending
    <3>1. j \in 1 .. n /\ f[j] = s[j] /\ s[j] \in T \ {m}
      BY <2>5
    <3>2. CASE k = n + 1
      <4>1. s[j] <= m /\ s[j] # m
        BY <2>3, <3>1
      <4>2. s[j] \in Int /\ m \in Int
        <5>1. \A x \in T : x \in Int
          OBVIOUS
        <5> QED
          BY <3>1, <5>1
      <4> QED
        BY <3>1, <3>2, <4>1, <4>2
    <3>3. CASE k # n + 1
      BY <2>5, <3>1, <3>3 DEF Ascending
    <3> QED
      BY <3>2, <3>3
  <2> QED
    BY <2>6, <2>7
<1> HIDE DEF P, Ordered
<1>4. \A k \in Nat : k \in P
  BY <1>2, <1>3, SetInduction
<1> QED
  BY <1>1, <1>4 DEF P, Ordered

\* Sorted() leaves out no number.
LEMMA SortedIs ==
  ASSUME NEW u \in Nat, NEW S \in SUBSET (0 .. u)
  PROVE  /\ Cardinality(S) \in Nat
         /\ Sorted(S) \in [1 .. Cardinality(S) -> S] /\ Ascending(Sorted(S))
         /\ \A x \in S : \E k \in 1 .. Cardinality(S) : Sorted(S)[k] = x
<1> DEFINE n == Cardinality(S)
           s == Sorted(S)
<1>1. IsFiniteSet(S) /\ n \in Nat
  BY FiniteBelow
<1>2. s \in [1 .. n -> S] /\ Ascending(s)
  BY SortedExists DEF Sorted, Ascending
<1> HIDE DEF s
<1>3. s \in Injection(1 .. n, S)
  <2> SUFFICES ASSUME NEW j \in 1 .. n, NEW k \in 1 .. n, s[j] = s[k] PROVE j = k
    BY <1>2 DEF Injection, IsInjective
  <2>1. s[j] \in Int /\ s[k] \in Int
    <3>1. \A x \in S : x \in Int
      OBVIOUS
    <3> QED
      BY <1>2, <3>1
  <2>2. ~(s[j] < s[k]) /\ ~(s[k] < s[j])
    BY <2>1
  <2>3. ~(j < k) /\ ~(k < j)
    BY <1>2, <2>2 DEF Ascending
  <2>4. j \in Int /\ k \in Int
    BY <1>1
  <2> QED
    BY <2>3, <2>4
<1>4. Cardinality(1 .. n) = n
  BY <1>1, FS_Interval
<1>5. s \in Surjection(1 .. n, S)
  BY <1>1, <1>3, <1>4, FS_Injection
<1> HIDE DEF n
<1>6. \A x \in S : \E k \in 1 .. n : s[k] = x
  BY <1>5 DEF Surjection
<1> QED
  BY <1>1, <1>2, <1>6 DEF s, n

LEMMA Masks ==
  /\ YY_TRAILING_MASK \in Nat /\ YY_TRAILING_MASK > 2
  /\ YY_TRAILING_HEAD_MASK = YY_TRAILING_MASK + YY_TRAILING_MASK
BY DEF YY_TRAILING_MASK, YY_TRAILING_HEAD_MASK

\* Rule numbers, marked or not, stay apart from one another and from the
\* numbers of heads.
LEMMA MarksAre ==
  ASSUME NEW R \in RuleSets
  PROVE  /\ Len(R) \in Nat \ {0} /\ DOMAIN R = 1 .. Len(R)
         /\ \A i \in DOMAIN R :
              /\ IsRule(R[i]) /\ Marked(R, i) \in Nat \ {0} /\ ~HasHeadMask(Marked(R, i))
              /\ HasTrailMask(Marked(R, i)) <=> R[i].variable
              /\ Marked(R, i) = IF R[i].variable THEN i + YY_TRAILING_MASK ELSE i
              /\ Marked(R, i) # EOB_ACTION(R)
         /\ \A i, j \in DOMAIN R : Marked(R, i) = Marked(R, j) => i = j
         /\ \A i \in DOMAIN R : /\ i + YY_TRAILING_HEAD_MASK \in Nat \ {0}
                                /\ HasHeadMask(i + YY_TRAILING_HEAD_MASK)
                                /\ Marked(R, i + YY_TRAILING_HEAD_MASK) = i + YY_TRAILING_HEAD_MASK
         /\ EOB_ACTION(R) \in Nat \ {0} /\ EOB_ACTION(R) \notin DOMAIN R
         /\ ~HasHeadMask(EOB_ACTION(R)) /\ ~HasTrailMask(EOB_ACTION(R))
         /\ R[Len(R)] = DefaultRule
<1>1. /\ R \in Seq(Range(R)) /\ R # <<>> /\ Len(R) + 1 < YY_TRAILING_MASK
      /\ \A i \in DOMAIN R : IsRule(R[i])
      /\ R[Len(R)] = DefaultRule
  BY RulesAssumption
<1>2. Len(R) \in Nat \ {0} /\ DOMAIN R = 1 .. Len(R)
  BY <1>1, LenProperties, EmptySeq
<1>3. ASSUME NEW i \in DOMAIN R
      PROVE  /\ IsRule(R[i]) /\ Marked(R, i) \in Nat \ {0} /\ ~HasHeadMask(Marked(R, i))
             /\ HasTrailMask(Marked(R, i)) <=> R[i].variable
             /\ Marked(R, i) = IF R[i].variable THEN i + YY_TRAILING_MASK ELSE i
             /\ Marked(R, i) # EOB_ACTION(R)
             /\ i \in 1 .. YY_TRAILING_MASK - 2
  <2>1. i \in 1 .. YY_TRAILING_MASK - 2 /\ EOB_ACTION(R) <= YY_TRAILING_MASK - 1
    <3>1. i \in 1 .. Len(R) /\ Len(R) \in Nat /\ Len(R) + 1 < YY_TRAILING_MASK
      BY <1>1, <1>2
    <3> QED
      BY <3>1, Masks DEF EOB_ACTION
  <2>2. Marked(R, i) = IF R[i].variable THEN i + YY_TRAILING_MASK ELSE i
    BY DEF Marked
  <2> QED
    BY <1>1, <1>2, <2>1, <2>2, Masks DEF HasHeadMask, HasTrailMask, EOB_ACTION
<1>4. ASSUME NEW i \in DOMAIN R, NEW j \in DOMAIN R, Marked(R, i) = Marked(R, j) PROVE i = j
  <2>1. i \in 1 .. YY_TRAILING_MASK - 2 /\ j \in 1 .. YY_TRAILING_MASK - 2
    BY <1>3
  <2>2. Marked(R, i) \in {i, i + YY_TRAILING_MASK} /\ Marked(R, j) \in {j, j + YY_TRAILING_MASK}
    BY <1>3
  <2>3. \/ Marked(R, i) = i /\ Marked(R, j) = j
        \/ Marked(R, i) = i + YY_TRAILING_MASK /\ Marked(R, j) = j + YY_TRAILING_MASK
    BY <1>4, <2>1, <2>2, Masks
  <2> QED
    BY <1>4, <2>1, <2>3, Masks
<1>5. ASSUME NEW i \in DOMAIN R
      PROVE  /\ i + YY_TRAILING_HEAD_MASK \in Nat \ {0} /\ HasHeadMask(i + YY_TRAILING_HEAD_MASK)
             /\ Marked(R, i + YY_TRAILING_HEAD_MASK) = i + YY_TRAILING_HEAD_MASK
  <2>1. i \in 1 .. Len(R) /\ i + YY_TRAILING_HEAD_MASK > Len(R)
    BY <1>1, <1>2, Masks
  <2>2. i + YY_TRAILING_HEAD_MASK \notin DOMAIN R
    BY <1>2, <2>1
  <2> QED
    BY <2>1, <2>2, Masks DEF Marked, HasHeadMask
<1>6. /\ EOB_ACTION(R) \in Nat \ {0} /\ EOB_ACTION(R) \notin DOMAIN R
      /\ ~HasHeadMask(EOB_ACTION(R)) /\ ~HasTrailMask(EOB_ACTION(R))
  BY <1>1, <1>2, Masks DEF EOB_ACTION, HasHeadMask, HasTrailMask
<1> QED
  BY <1>1, <1>2, <1>3, <1>4, <1>5, <1>6

\* Which entry of a list stands for a rule that has matched, which for the end
\* of the head of one.
Ends(R, w, x, i) == w \in Whole(R[i]) /\ x = Marked(R, i)
HeadEnds(R, w, x, i) == R[i].variable /\ w \in R[i].head /\ x = i + YY_TRAILING_HEAD_MASK

\* L lists the rules that match w in their order, then the heads that do.
IsList(R, w, L) ==
  /\ Len(L) \in Nat /\ DOMAIN L = 1 .. Len(L)
  /\ \A k \in DOMAIN L : \E i \in DOMAIN R : Ends(R, w, L[k], i) \/ HeadEnds(R, w, L[k], i)
  /\ \A i \in DOMAIN R : w \in Whole(R[i]) => \E k \in DOMAIN L : L[k] = Marked(R, i)
  /\ \A i \in DOMAIN R : R[i].variable /\ w \in R[i].head
                           => \E k \in DOMAIN L : L[k] = i + YY_TRAILING_HEAD_MASK
  /\ \A i, j \in DOMAIN R : \A k, l \in DOMAIN L :
       L[k] = Marked(R, i) /\ L[l] = Marked(R, j) => (k < l <=> i < j)
  /\ \A k, l \in DOMAIN L : HasHeadMask(L[k]) /\ ~HasHeadMask(L[l]) => l < k

LEMMA ListIs ==
  ASSUME NEW R \in RuleSets, NEW w
  PROVE  IsList(R, w, AcceptList(R, w))
<1> DEFINE A == AcceptSet(R, w)
           N == Sorted(A)
           L == AcceptList(R, w)
           n == Cardinality(A)
           u == Len(R) + YY_TRAILING_HEAD_MASK
           Plain(x) == \E i \in DOMAIN R : x = i /\ w \in Whole(R[i])
           HeadOf(x) == \E i \in DOMAIN R : R[i].variable /\ w \in R[i].head
                                              /\ x = i + YY_TRAILING_HEAD_MASK
<1>1. Len(R) \in Nat \ {0} /\ DOMAIN R = 1 .. Len(R) /\ u \in Nat /\ u - Len(R) = YY_TRAILING_HEAD_MASK
      /\ Len(R) < YY_TRAILING_HEAD_MASK
  <2>1. Len(R) + 1 < YY_TRAILING_MASK
    BY RulesAssumption
  <2> QED
    BY <2>1, MarksAre, Masks
<1>2. \A x : x \in A <=> Plain(x) \/ HeadOf(x)
  BY DEF AcceptSet
<1>3. A \in SUBSET (0 .. u)
  <2>1. \A i \in DOMAIN R : i \in 0 .. u /\ i + YY_TRAILING_HEAD_MASK \in 0 .. u
    BY <1>1
  <2> HIDE DEF u, A
  <2> QED
    BY <1>2, <2>1
<1> HIDE DEF A
<1>4. /\ n \in Nat /\ N \in [1 .. n -> A] /\ Ascending(N)
      /\ \A x \in A : \E k \in 1 .. n : N[k] = x
  <2> HIDE DEF u
  <2> QED
    BY <1>1, <1>3, SortedIs
<1>5. L = [k \in 1 .. n |-> Marked(R, N[k])]
  BY <1>4 DEF AcceptList, A
<1>6. Len(L) = n /\ DOMAIN L = 1 .. n
  BY <1>4, <1>5
<1> HIDE DEF N, n, L
<1>7. ASSUME NEW k \in 1 .. n
      PROVE  \/ \E i \in DOMAIN R : N[k] = i /\ Ends(R, w, L[k], i)
             \/ \E i \in DOMAIN R : N[k] = i + YY_TRAILING_HEAD_MASK /\ HeadEnds(R, w, L[k], i)
  <2>1. L[k] = Marked(R, N[k]) /\ (Plain(N[k]) \/ HeadOf(N[k]))
    BY <1>2, <1>4, <1>5
  <2>2. CASE Plain(N[k])
    BY <2>1, <2>2 DEF Ends
  <2>3. CASE HeadOf(N[k])
    <3>1. PICK i \in DOMAIN R : R[i].variable /\ w \in R[i].head /\ N[k] = i + YY_TRAILING_HEAD_MASK
      BY <2>3
    <3>2. Marked(R, i + YY_TRAILING_HEAD_MASK) = i + YY_TRAILING_HEAD_MASK
      BY MarksAre
    <3> QED
      BY <2>1, <3>1, <3>2 DEF HeadEnds
  <2> QED
    BY <2>1, <2>2, <2>3
<1>8. ASSUME NEW i \in DOMAIN R, w \in Whole(R[i]) PROVE \E k \in 1 .. n : L[k] = Marked(R, i)
  <2>1. i \in A
    BY <1>2, <1>8
  <2> QED
    BY <1>4, <1>5, <2>1
<1>9. ASSUME NEW i \in DOMAIN R, R[i].variable, w \in R[i].head
      PROVE  \E k \in 1 .. n : L[k] = i + YY_TRAILING_HEAD_MASK
  <2>1. i + YY_TRAILING_HEAD_MASK \in A
    BY <1>2, <1>9
  <2>2. PICK k \in 1 .. n : N[k] = i + YY_TRAILING_HEAD_MASK
    BY <1>4, <2>1
  <2>3. L[k] = i + YY_TRAILING_HEAD_MASK
    BY <1>5, <2>2, MarksAre
  <2> QED
    BY <2>3
<1>10. ASSUME NEW k \in 1 .. n, NEW i \in DOMAIN R, L[k] = Marked(R, i) PROVE N[k] = i
  <2>1. ~HasHeadMask(L[k])
    BY <1>10, MarksAre
  <2>2. PICK j \in DOMAIN R : \/ N[k] = j /\ Ends(R, w, L[k], j)
                              \/ HeadEnds(R, w, L[k], j)
    BY <1>7
  <2>3. ~HeadEnds(R, w, L[k], j)
    BY <2>1, MarksAre DEF HeadEnds
  <2> QED
    BY <1>10, <2>2, <2>3, MarksAre DEF Ends
<1>11. \A k \in 1 .. n : N[k] \in Int
  <2>1. \A x \in A : x \in Int
    BY <1>3
  <2> QED
    BY <1>4, <2>1
<1>12. \A k, l \in 1 .. n : k < l <=> N[k] < N[l]
  <2> SUFFICES ASSUME NEW k \in 1 .. n, NEW l \in 1 .. n PROVE k < l <=> N[k] < N[l]
    OBVIOUS
  <2>1. k \in Int /\ l \in Int /\ N[k] \in Int /\ N[l] \in Int
    BY <1>4, <1>11
  <2>2. (k < l => N[k] < N[l]) /\ (l < k => N[l] < N[k])
    BY <1>4 DEF Ascending
  <2> QED
    BY <2>1, <2>2
<1>13. ASSUME NEW i \in DOMAIN R, NEW j \in DOMAIN R, NEW k \in 1 .. n, NEW l \in 1 .. n,
              L[k] = Marked(R, i), L[l] = Marked(R, j)
       PROVE  k < l <=> i < j
  BY <1>10, <1>12, <1>13
<1>14. ASSUME NEW k \in 1 .. n, NEW l \in 1 .. n, HasHeadMask(L[k]), ~HasHeadMask(L[l])
       PROVE  l < k
  <2>1. PICK i \in DOMAIN R : N[k] = i + YY_TRAILING_HEAD_MASK
    BY <1>7, <1>14, MarksAre DEF Ends
  <2>2. PICK j \in DOMAIN R : N[l] = j
    BY <1>7, <1>14, MarksAre DEF HeadEnds
  <2>3. N[l] < N[k]
    BY <1>1, <2>1, <2>2
  <2> QED
    BY <1>12, <2>3
<1>15. IsList(R, w, L)
  <2>1. \A k \in 1 .. n : \E i \in DOMAIN R : Ends(R, w, L[k], i) \/ HeadEnds(R, w, L[k], i)
    BY <1>7
  <2> QED
    BY <1>4, <1>6, <2>1, <1>8, <1>9, <1>13, <1>14 DEF IsList
<1> QED
  BY <1>15 DEF L

----------------------------------------------------------------------------
(* Words of the text                                                       *)

LEMMA WordIs ==
  ASSUME NEW t \in Seq(Alphabet), NEW b \in Nat, NEW n \in Nat, b + n <= Len(t)
  PROVE  /\ Word(t, b, n) \in Seq(Alphabet) /\ Len(Word(t, b, n)) = n
         /\ \A i \in 1 .. n : Word(t, b, n)[i] = t[b + i]
<1>1. Len(t) \in Nat /\ \A i \in b + 1 .. b + n : t[i] \in Alphabet
  <2>1. Len(t) \in Nat
    BY LenProperties
  <2>2. \A i \in b + 1 .. b + n : i \in 1 .. Len(t)
    BY <2>1
  <2> QED
    BY <2>1, <2>2, ElementOfSeq
<1> DEFINE w == SubSeq(t, b + 1, b + n)
<1>2. /\ w \in Seq(Alphabet) /\ Len(w) = IF b + 1 <= b + n THEN b + n - (b + 1) + 1 ELSE 0
      /\ \A i \in 1 .. b + n - (b + 1) + 1 : w[i] = t[b + 1 + i - 1]
  <2>1. b + 1 \in Int /\ b + n \in Int
    OBVIOUS
  <2> QED
    BY <1>1, <2>1, SubSeqProperties
<1> HIDE DEF w
<1>3. Len(w) = n
  BY <1>2
<1>4. \A i \in 1 .. n : w[i] = t[b + i]
  <2> SUFFICES ASSUME NEW i \in 1 .. n PROVE w[i] = t[b + i]
    OBVIOUS
  <2>1. i \in 1 .. b + n - (b + 1) + 1 /\ b + 1 + i - 1 = b + i
    OBVIOUS
  <2> QED
    BY <1>2, <2>1
<1> QED
  BY <1>2, <1>3, <1>4 DEF w, Word

LEMMA NextWord ==
  ASSUME NEW t \in Seq(Alphabet), NEW b \in Nat, NEW n \in Nat \ {0}, b + n <= Len(t)
  PROVE  t[b + n] \in Alphabet /\ Word(t, b, n) = Append(Word(t, b, n - 1), t[b + n])
<1> DEFINE v == Word(t, b, n - 1)
           w == Word(t, b, n)
           c == t[b + n]
<1>1. Len(t) \in Nat /\ b + n \in 1 .. Len(t) /\ n - 1 \in Nat /\ b + (n - 1) <= Len(t)
  BY LenProperties
<1>2. c \in Alphabet
  BY <1>1, ElementOfSeq
<1>3. v \in Seq(Alphabet) /\ Len(v) = n - 1 /\ \A i \in 1 .. n - 1 : v[i] = t[b + i]
  BY <1>1, WordIs
<1>4. w \in Seq(Alphabet) /\ Len(w) = n /\ \A i \in 1 .. n : w[i] = t[b + i]
  BY <1>1, WordIs
<1> HIDE DEF v, w, c
<1>5. /\ Append(v, c) \in Seq(Alphabet) /\ Len(Append(v, c)) = n
      /\ \A i \in 1 .. n : Append(v, c)[i] = IF i = n THEN c ELSE v[i]
  BY <1>2, <1>3
<1>6. \A i \in 1 .. n : w[i] = Append(v, c)[i]
  <2> SUFFICES ASSUME NEW i \in 1 .. n PROVE w[i] = Append(v, c)[i]
    OBVIOUS
  <2>1. CASE i = n
    BY <1>4, <1>5, <2>1 DEF c
  <2>2. CASE i # n
    <3>1. i \in 1 .. n - 1
      BY <2>2
    <3> QED
      BY <1>3, <1>4, <1>5, <2>2, <3>1
  <2> QED
    BY <2>1, <2>2
<1>7. w = Append(v, c)
  BY <1>4, <1>5, <1>6, SeqEqual
<1> QED
  BY <1>2, <1>7 DEF v, w, c

\* The parts h and u of a word are words, and so is h with some of u.
Parted(t, b, n, h, u) ==
  /\ Len(h) \in 0 .. n /\ h = Word(t, b, Len(h)) /\ u = SubSeq(t, b + Len(h) + 1, b + n)
  /\ \A k \in Len(h) .. n : Word(t, b, k) = h \o SubSeq(u, 1, k - Len(h))

LEMMA WordParts ==
  ASSUME NEW t \in Seq(Alphabet), NEW b \in Nat, NEW n \in Nat, NEW h \in Seq(Alphabet),
         NEW u \in Seq(Alphabet), b + n <= Len(t), h \o u = Word(t, b, n)
  PROVE  Parted(t, b, n, h, u)
<1> DEFINE w == Word(t, b, n)
           l == Len(h)
<1>1. w \in Seq(Alphabet) /\ Len(w) = n /\ \A i \in 1 .. n : w[i] = t[b + i]
  BY WordIs
<1>2. /\ l \in Nat /\ Len(u) \in Nat /\ n = l + Len(u)
      /\ \A i \in 1 .. n : w[i] = IF i <= l THEN h[i] ELSE u[i - l]
  <2>1. l \in Nat /\ Len(u) \in Nat
    BY LenProperties
  <2>2. /\ Len(h \o u) = Len(h) + Len(u)
        /\ \A i \in 1 .. Len(h) + Len(u) : (h \o u)[i] = IF i <= Len(h) THEN h[i] ELSE u[i - Len(h)]
    BY ConcatProperties
  <2>3. h \o u = w
    OBVIOUS
  <2> HIDE DEF w
  <2> QED
    BY <1>1, <2>1, <2>2, <2>3
<1> HIDE DEF w, l
<1>3. l \in 0 .. n /\ b + l <= Len(t) /\ Len(t) \in Nat
  BY <1>2, LenProperties
<1>4. ASSUME NEW k \in l .. n PROVE Word(t, b, k) = h \o SubSeq(u, 1, k - l)
  <2> DEFINE x == Word(t, b, k)
             v == SubSeq(u, 1, k - l)
  <2>1. k \in Nat /\ b + k <= Len(t) /\ k - l \in Nat /\ k - l <= Len(u)
    BY <1>2, <1>3
  <2>2. x \in Seq(Alphabet) /\ Len(x) = k /\ \A i \in 1 .. k : x[i] = t[b + i]
    BY <2>1, WordIs
  <2>3. v \in Seq(Alphabet) /\ Len(v) = k - l /\ \A i \in 1 .. k - l : v[i] = u[i]
    <3>1. 0 + (k - l) <= Len(u) /\ 0 + 1 = 1 /\ 0 + (k - l) = k - l
      BY <2>1
    <3>2. v = Word(u, 0, k - l)
      BY <3>1 DEF Word
    <3>3. v \in Seq(Alphabet) /\ Len(v) = k - l /\ \A i \in 1 .. k - l : v[i] = u[0 + i]
      BY <2>1, <3>1, <3>2, WordIs
    <3> QED
      BY <3>3
  <2> HIDE DEF x, v
  <2>4. /\ h \o v \in Seq(Alphabet) /\ Len(h \o v) = k
        /\ \A i \in 1 .. k : (h \o v)[i] = IF i <= l THEN h[i] ELSE v[i - l]
    <3>1. /\ h \o v \in Seq(Alphabet) /\ Len(h \o v) = l + Len(v)
          /\ \A i \in 1 .. l + Len(v) : (h \o v)[i] = IF i <= l THEN h[i] ELSE v[i - l]
      BY <2>3, ConcatProperties DEF l
    <3>2. l + Len(v) = k
      BY <1>2, <2>1, <2>3
    <3> QED
      BY <3>1, <3>2
  <2>5. ASSUME NEW i \in 1 .. k PROVE x[i] = (h \o v)[i]
    <3>1. i \in 1 .. n /\ x[i] = w[i]
      <4>1. i \in 1 .. n
        BY <2>1
      <4> QED
        BY <1>1, <2>2, <4>1
    <3>2. CASE i <= l
      BY <1>2, <2>4, <3>1, <3>2
    <3>3. CASE ~(i <= l)
      <4>1. i - l \in 1 .. k - l
        BY <1>2, <2>1, <3>3
      <4> QED
        BY <1>2, <2>3, <2>4, <3>1, <3>3, <4>1
    <3> QED
      BY <3>2, <3>3
  <2>6. x = h \o v
    BY <2>2, <2>4, <2>5, SeqEqual
  <2> QED
    BY <2>6 DEF x, v
<1>5. h = Word(t, b, l)
  <2> DEFINE x == Word(t, b, l)
  <2>1. x \in Seq(Alphabet) /\ Len(x) = l /\ \A i \in 1 .. l : x[i] = t[b + i]
    BY <1>2, <1>3, WordIs
  <2> HIDE DEF x
  <2>2. ASSUME NEW i \in 1 .. l PROVE h[i] = x[i]
    <3>1. i \in 1 .. n /\ i <= l
      BY <1>2
    <3> QED
      BY <1>1, <1>2, <2>1, <3>1
  <2>3. h = x
    BY <2>1, <2>2, SeqEqual DEF l
  <2> QED
    BY <2>3 DEF x
<1>6. u = SubSeq(t, b + l + 1, b + n)
  <2> DEFINE x == Word(t, b + l, n - l)
  <2>1. /\ n - l \in Nat /\ b + l \in Nat /\ b + l + (n - l) = b + n /\ n - l = Len(u)
        /\ b + l + (n - l) <= Len(t)
    BY <1>2, <1>3
  <2>2. x \in Seq(Alphabet) /\ Len(x) = n - l /\ \A i \in 1 .. n - l : x[i] = t[b + l + i]
    <3> DEFINE k == n - l
               c == b + l
    <3>1. k \in Nat /\ c \in Nat /\ c + k <= Len(t)
      BY <2>1
    <3> HIDE DEF k, c
    <3>2. /\ Word(t, c, k) \in Seq(Alphabet) /\ Len(Word(t, c, k)) = k
          /\ \A i \in 1 .. k : Word(t, c, k)[i] = t[c + i]
      BY <3>1, WordIs
    <3> QED
      BY <3>2 DEF k, c
  <2>3. x = SubSeq(t, b + l + 1, b + n)
    BY <2>1 DEF Word
  <2> HIDE DEF x
  <2>4. ASSUME NEW i \in 1 .. Len(u) PROVE u[i] = x[i]
    <3>1. l + i \in 1 .. n /\ ~(l + i <= l) /\ l + i - l = i /\ b + (l + i) = b + l + i
      BY <1>2
    <3>2. w[l + i] = u[i] /\ w[l + i] = t[b + l + i]
      BY <1>1, <1>2, <3>1
    <3> QED
      BY <2>1, <2>2, <3>2
  <2>5. u = x
    BY <2>1, <2>2, <2>4, SeqEqual
  <2> QED
    BY <2>3, <2>5
<1> QED
  BY <1>3, <1>4, <1>5, <1>6 DEF l, Parted

LEMMA WordPrefix ==
  ASSUME NEW t \in Seq(Alphabet), NEW b \in Nat, NEW n \in Nat, b + n <= Len(t), NEW k \in 0 .. n
  PROVE  Word(t, b, k) \in Prefixes(Word(t, b, n))
<1> DEFINE w == Word(t, b, n)
           v == Word(t, b, k)
           p == Word(w, 0, k)
<1>1. w \in Seq(Alphabet) /\ Len(w) = n /\ \A i \in 1 .. n : w[i] = t[b + i]
  BY WordIs
<1>2. v \in Seq(Alphabet) /\ Len(v) = k /\ \A i \in 1 .. k : v[i] = t[b + i]
  <2>1. Len(t) \in Nat /\ k \in Nat /\ b + k <= Len(t)
    BY LenProperties
  <2> QED
    BY <2>1, WordIs
<1> HIDE DEF w, v
<1>3. p \in Seq(Alphabet) /\ Len(p) = k /\ \A i \in 1 .. k : p[i] = w[0 + i]
  <2>1. k \in Nat /\ 0 \in Nat /\ 0 + k <= Len(w) /\ w \in Seq(Alphabet)
    BY <1>1
  <2> QED
    BY ZenonT(60), <2>1, WordIs
<1>4. p = SubSeq(w, 1, k)
  BY DEF Word
<1> HIDE DEF p
<1>5. \A i \in 1 .. k : v[i] = p[i]
  BY <1>1, <1>2, <1>3
<1>6. v = p
  BY <1>2, <1>3, <1>5, SeqEqual
<1> QED
  BY <1>1, <1>4, <1>6 DEF Prefixes, v, w

----------------------------------------------------------------------------
(* The states                                                              *)

States(R) == Beginnings(R) \cup {EobState, JamState}

LEMMA ListsAre ==
  ASSUME NEW R \in RuleSets
  PROVE  /\ DOMAIN Lists[R] = States(R)
         /\ Lists[R][EobState] = <<EOB_ACTION(R)>> /\ Lists[R][JamState] = <<>>
         /\ \A w \in Beginnings(R) : w # EobState /\ w # JamState => Lists[R][w] = AcceptList(R, w)
         /\ EobState # JamState
<1>1. EobState # JamState
  BY DEF EobState, JamState, EOB, JAM
<1> QED
  BY <1>1 DEF Lists, States

LEMMA WholeWords ==
  ASSUME NEW R \in RuleSets, NEW i \in DOMAIN R, NEW w \in Whole(R[i])
  PROVE  w \in Seq(Alphabet) /\ Prefixes(w) \subseteq Beginnings(R)
<1>1. IsRule(R[i])
  BY MarksAre
<1>2. PICK h \in R[i].head, u \in R[i].trail : w = h \o u
  BY DEF Whole
<1>3. h \in Seq(Alphabet) /\ u \in Seq(Alphabet)
  BY <1>1, <1>2 DEF IsRule
<1> QED
  BY <1>2, <1>3, ConcatProperties DEF Beginnings

\* The states that are beginnings of words are none of the others.
LEMMA BeginningsAre ==
  ASSUME NEW R \in RuleSets
  PROVE  /\ Beginnings(R) \subseteq Seq(Alphabet)
         /\ <<>> \in Beginnings(R) /\ EobState \notin Beginnings(R) /\ JamState \notin Beginnings(R)
         /\ <<>> # EobState /\ <<>> # JamState
         /\ \A c \in Alphabet : <<c>> \in Beginnings(R) /\ <<c>> \in Whole(R[Len(R)])
<1>1. ASSUME NEW w \in Beginnings(R) PROVE w \in Seq(Alphabet)
  <2>1. PICK i \in DOMAIN R : \E v \in Whole(R[i]) : w \in Prefixes(v)
    BY DEF Beginnings
  <2>2. PICK v \in Whole(R[i]) : w \in Prefixes(v)
    BY <2>1
  <2>3. PICK l \in 0 .. Len(v) : w = SubSeq(v, 1, l)
    BY <2>2 DEF Prefixes
  <2>4. v \in Seq(Alphabet) /\ Len(v) \in Nat
    BY <2>2, WholeWords, LenProperties
  <2>5. l \in Nat /\ 0 + l <= Len(v) /\ w = Word(v, 0, l)
    BY <2>3, <2>4 DEF Word
  <2> QED
    BY <2>4, <2>5, WordIs
<1>2. \A c \in Alphabet : <<c>> \in Whole(R[Len(R)])
  <2> SUFFICES ASSUME NEW c \in Alphabet PROVE <<c>> \in Whole(R[Len(R)])
    OBVIOUS
  <2>1. R[Len(R)] = DefaultRule
    BY MarksAre
  <2>2. <<c>> \o <<>> = <<c>>
    BY ConcatEmptySeq
  <2>3. <<c>> \in DefaultRule.head /\ <<>> \in DefaultRule.trail
    BY DEF DefaultRule
  <2>4. \A h \in DefaultRule.head, u \in DefaultRule.trail : h \o u \in Whole(DefaultRule)
    BY DEF Whole
  <2> QED
    BY <2>1, <2>2, <2>3, <2>4
<1>3. \A w : w \in Seq(Alphabet) => <<>> \in Prefixes(w) /\ w \in Prefixes(w)
  <2> SUFFICES ASSUME NEW w \in Seq(Alphabet) PROVE <<>> \in Prefixes(w) /\ w \in Prefixes(w)
    OBVIOUS
  <2>1. SubSeq(w, 1, 0) = <<>> /\ 0 \in 0 .. Len(w) /\ Len(w) \in 0 .. Len(w)
    BY LenProperties, SubSeqEmpty
  <2>2. SubSeq(w, 1, Len(w)) = w
    BY SubSeqFull
  <2> QED
    BY <2>1, <2>2 DEF Prefixes
<1>4. Len(R) \in DOMAIN R /\ DefaultRule.head # {}
  BY MarksAre DEF IsRule
<1>5. PICK c0 \in Alphabet : TRUE
  BY <1>4 DEF DefaultRule
<1>6. \A c \in Alphabet : <<c>> \in Beginnings(R)
  <2> SUFFICES ASSUME NEW c \in Alphabet PROVE <<c>> \in Beginnings(R)
    OBVIOUS
  <2>1. <<c>> \in Seq(Alphabet)
    OBVIOUS
  <2> QED
    BY <1>2, <1>3, <1>4, <2>1, WholeWords
<1>7. <<>> \in Beginnings(R)
  <2>1. <<c0>> \in Seq(Alphabet)
    OBVIOUS
  <2> QED
    BY <1>2, <1>3, <1>4, <2>1, WholeWords
<1>8. EobState \notin Seq(Alphabet) /\ JamState \notin Seq(Alphabet)
  <2>1. EOB \notin Alphabet /\ JAM \notin Alphabet
    BY TextsAssumption
  <2>2. EobState[1] = EOB /\ JamState[1] = JAM /\ Len(EobState) = 1 /\ Len(JamState) = 1
    BY DEF EobState, JamState
  <2>3. \A w \in Seq(Alphabet) : Len(w) = 1 => w[1] \in Alphabet
    BY ElementOfSeq
  <2> QED
    BY <2>1, <2>2, <2>3
<1>9. <<>> # EobState /\ <<>> # JamState
  BY DEF EobState, JamState
<1> QED
  BY <1>1, <1>2, <1>6, <1>7, <1>8, <1>9

\* Nothing but a jam follows a jam or the end of the buffer.
LEMMA DeadEnds ==
  ASSUME NEW R \in RuleSets, NEW s \in {EobState, JamState}, NEW c
  PROVE  s \notin Seq(Alphabet) /\ Append(s, c) \notin States(R)
<1>1. EOB \notin Alphabet /\ JAM \notin Alphabet
  BY TextsAssumption
<1>2. s = <<EOB>> \/ s = <<JAM>>
  BY DEF EobState, JamState
<1>3. s[1] \notin Alphabet /\ Len(s) = 1
  BY <1>1, <1>2
<1>4. Append(s, c)[1] \notin Alphabet /\ Len(Append(s, c)) = 2
  <2> DEFINE S == {EOB, JAM, c}
  <2>0. EOB \in S /\ JAM \in S /\ c \in S
    OBVIOUS
  <2> HIDE DEF S
  <2>1. s \in Seq(S)
    <3>1. \A x \in S : <<x>> \in Seq(S)
      OBVIOUS
    <3> QED
      BY <1>2, <2>0, <3>1
  <2>2. Len(Append(s, c)) = Len(s) + 1 /\ \A i \in 1 .. Len(s) : Append(s, c)[i] = s[i]
    BY <2>0, <2>1
  <2>3. 1 \in 1 .. Len(s)
    BY <1>3
  <2> QED
    BY <1>3, <2>2, <2>3
<1>5. \A w \in Seq(Alphabet) : Len(w) \in {1, 2} => w[1] \in Alphabet
  BY ElementOfSeq
<1>6. s \notin Seq(Alphabet) /\ Append(s, c) \notin Seq(Alphabet)
  BY <1>3, <1>4, <1>5
<1>7. Len(EobState) = 1 /\ Len(JamState) = 1
  BY DEF EobState, JamState
<1>8. Append(s, c) # EobState /\ Append(s, c) # JamState
  BY <1>4, <1>7
<1>9. Append(s, c) \notin Beginnings(R)
  BY <1>6, BeginningsAre
<1> QED
  BY <1>6, <1>8, <1>9 DEF States

LEMMA NxtIs ==
  ASSUME rules \in RuleSets, NEW s \in States(rules), NEW c
  PROVE  /\ yy_nxt(s, c) \in States(rules)
         /\ s \in {EobState, JamState} => yy_nxt(s, c) = JamState
         /\ s \in Beginnings(rules) /\ c = EOB => yy_nxt(s, c) = EobState
         /\ s \in Beginnings(rules) /\ c \in Alphabet =>
              yy_nxt(s, c) = IF Append(s, c) \in Beginnings(rules) THEN Append(s, c) ELSE JamState
<1>1. DOMAIN acclist = States(rules)
  BY ListsAre DEF acclist
<1>2. EobState \in States(rules) /\ JamState \in States(rules)
  BY DEF States
<1>3. yy_nxt(s, c) \in States(rules)
  BY <1>1, <1>2 DEF yy_nxt
<1>4. s \in {EobState, JamState} => yy_nxt(s, c) = JamState
  BY <1>1, DeadEnds DEF yy_nxt
<1>5. s \in Beginnings(rules) /\ c = EOB => yy_nxt(s, c) = EobState
  BY BeginningsAre DEF yy_nxt
<1>6. ASSUME s \in Beginnings(rules), c \in Alphabet
      PROVE  yy_nxt(s, c) = IF Append(s, c) \in Beginnings(rules) THEN Append(s, c) ELSE JamState
  <2>1. c # EOB
    BY <1>6, TextsAssumption
  <2>2. Append(s, c) \in Seq(Alphabet)
    <3>1. s \in Seq(Alphabet)
      BY <1>6, BeginningsAre
    <3> QED
      BY <1>6, <3>1
  <2>3. Append(s, c) \in States(rules) <=> Append(s, c) \in Beginnings(rules)
    BY <2>2, DeadEnds DEF States
  <2> QED
    BY <1>1, <2>1, <2>3 DEF yy_nxt
<1> QED
  BY <1>3, <1>4, <1>5, <1>6

----------------------------------------------------------------------------
(* What yy_match stacks                                                    *)

\* A state that may be stacked after n characters from b.
After(R, t, b, n, s) ==
  \/ s = Word(t, b, n) /\ b + n <= Len(t) /\ s \in Beginnings(R)
  \/ s = EobState /\ b + n = Len(t) + 1
  \/ s = JamState

\* The states on a stack; those on the way to a match are all there.
Shape(R, t, b, stk) ==
  /\ stk \in Seq(States(R)) /\ Len(stk) \in 2 .. Len(t) - b + 3
  /\ \A n \in 0 .. Len(stk) - 1 : After(R, t, b, n, stk[n + 1])
  /\ \A m \in MatchesAt(R, t, b) :
       m[1] < Len(stk) /\ \A n \in 0 .. m[1] : stk[n + 1] = Word(t, b, n)
  /\ b = Len(t) => stk[2] = EobState

Known == rules \in RuleSets /\ text \in Texts /\ begin \in 0 .. Len(text)

LEMMA KnownText ==
  ASSUME Known
  PROVE  /\ text \in Seq(Alphabet) /\ Len(text) \in Nat /\ begin \in Nat
         /\ \A q \in Nat : CharAt(q) = IF q < Len(text) THEN text[q + 1] ELSE EOB
         /\ \A n \in Nat : begin + n < Len(text) =>
              /\ CharAt(begin + n) \in Alphabet
              /\ Word(text, begin, n + 1) = Append(Word(text, begin, n), CharAt(begin + n))
         /\ Word(text, begin, 0) = <<>>
<1>1. text \in Seq(Alphabet)
  BY TextsAssumption DEF Known
<1>2. Len(text) \in Nat /\ begin \in Nat
  <2>1. Len(text) \in Nat
    BY <1>1, LenProperties
  <2> QED
    BY <2>1 DEF Known
<1>3. ASSUME NEW n \in Nat, begin + n < Len(text)
      PROVE  /\ CharAt(begin + n) \in Alphabet
             /\ Word(text, begin, n + 1) = Append(Word(text, begin, n), CharAt(begin + n))
  <2>1. n + 1 \in Nat \ {0} /\ begin + (n + 1) <= Len(text) /\ n + 1 - 1 = n
    BY <1>2, <1>3
  <2>2. /\ text[begin + (n + 1)] \in Alphabet
        /\ Word(text, begin, n + 1) = Append(Word(text, begin, n + 1 - 1), text[begin + (n + 1)])
    BY <1>1, <1>2, <2>1, NextWord
  <2>3. CharAt(begin + n) = text[begin + (n + 1)]
    <3>1. begin + n + 1 = begin + (n + 1)
      BY <1>2
    <3> QED
      BY <1>3, <3>1 DEF CharAt
  <2> QED
    BY <2>1, <2>2, <2>3
<1>4. Word(text, begin, 0) = <<>>
  BY <1>2, SubSeqEmpty DEF Word
<1> QED
  BY <1>1, <1>2, <1>3, <1>4 DEF CharAt

\* f gives the state after each number of characters.
Follows(f) ==
  /\ DOMAIN f = 0 .. Len(text) - begin + 2 /\ f[0] = <<>>
  /\ \A n \in 1 .. Len(text) - begin + 2 : f[n] = yy_nxt(f[n - 1], CharAt(begin + n - 1))

LEMMA FollowsShape ==
  ASSUME Known, NEW f, Follows(f)
  PROVE  \A n \in 0 .. Len(text) - begin + 2 : After(rules, text, begin, n, f[n])
<1> DEFINE u == Len(text) - begin + 2
           A(n) == After(rules, text, begin, n, f[n])
           P == {k \in Nat : k <= u => A(k)}
<1>1. u \in Nat /\ Len(text) \in Nat /\ begin \in Nat
  BY KnownText DEF Known
<1>2. 0 \in P
  <2>1. f[0] = Word(text, begin, 0) /\ f[0] \in Beginnings(rules)
    BY KnownText, BeginningsAre DEF Follows, Known
  <2>2. begin + 0 <= Len(text)
    BY KnownText DEF Known
  <2> QED
    BY <2>1, <2>2 DEF After
<1>3. ASSUME NEW k \in Nat, k \in P PROVE k + 1 \in P
  <2> SUFFICES ASSUME k + 1 <= u PROVE A(k + 1)
    OBVIOUS
  <2> DEFINE s == f[k]
             c == CharAt(begin + k)
  <2>1. A(k)
    BY <1>1, <1>3
  <2>2. f[k + 1] = yy_nxt(s, c)
    <3>1. k + 1 \in 1 .. u /\ k + 1 - 1 = k /\ begin + (k + 1) - 1 = begin + k
      BY <1>1
    <3> QED
      BY <3>1 DEF Follows
  <2>3. s \in States(rules)
    BY <2>1 DEF After, States
  <2> HIDE DEF s, c
  <2>4. CASE s \in {EobState, JamState}
    BY <2>2, <2>3, <2>4, NxtIs DEF After, Known
  <2>5. CASE s = Word(text, begin, k) /\ s \in Beginnings(rules) /\ begin + k < Len(text)
    <3>1. c \in Alphabet /\ Word(text, begin, k + 1) = Append(s, c)
      BY <2>5, KnownText DEF c
    <3>2. yy_nxt(s, c) = IF Append(s, c) \in Beginnings(rules) THEN Append(s, c) ELSE JamState
      BY <2>3, <2>5, <3>1, NxtIs DEF Known
    <3>3. begin + (k + 1) <= Len(text)
      BY <1>1, <2>5
    <3> QED
      BY <2>2, <3>1, <3>2, <3>3 DEF After
  <2>6. CASE s \in Beginnings(rules) /\ begin + k = Len(text)
    <3>1. c = EOB
      BY <1>1, <2>6, KnownText DEF c
    <3>2. f[k + 1] = EobState
      BY <2>2, <2>3, <2>6, <3>1, NxtIs DEF Known
    <3>3. begin + (k + 1) = Len(text) + 1
      BY <1>1, <2>6
    <3> QED
      BY <3>2, <3>3 DEF After
  <2> QED
    <3>1. begin + k <= Len(text) => begin + k < Len(text) \/ begin + k = Len(text)
      BY <1>1
    <3> QED
      BY <2>1, <2>4, <2>5, <2>6, <3>1 DEF After, s
<1> HIDE DEF P
<1>4. \A k \in Nat : k \in P
  BY <1>2, <1>3, SetInduction
<1>5. \A n \in 0 .. u : n \in Nat /\ n <= u
  BY <1>1
<1> QED
  BY <1>4, <1>5 DEF P

\* On the way to a match the states are the beginnings of it, and none of them
\* stops the scanner.
LEMMA FollowsMatch ==
  ASSUME Known, NEW f, Follows(f), NEW m \in MatchesAt(rules, text, begin)
  PROVE  /\ m[1] \in 1 .. Len(text) - begin
         /\ \A n \in 0 .. m[1] : f[n] = Word(text, begin, n)
         /\ \A n \in 1 .. m[1] - 1 : ~Stops(f[n])
<1> DEFINE l == m[1]
           P == {k \in Nat : k <= l => f[k] = Word(text, begin, k)}
<1>1. l \in 1 .. Len(text) - begin /\ Len(text) \in Nat /\ begin \in Nat /\ l \in Nat
      /\ text \in Seq(Alphabet) /\ begin + l <= Len(text)
  <2>1. l \in 1 .. Len(text) - begin
    BY DEF MatchesAt
  <2>2. Len(text) \in Nat /\ begin \in Nat /\ text \in Seq(Alphabet)
    BY KnownText
  <2> HIDE DEF l
  <2> QED
    BY <2>1, <2>2
<1>2. \A n \in 0 .. l : Word(text, begin, n) \in Beginnings(rules)
  <2>1. m[2] \in DOMAIN rules /\ Word(text, begin, l) \in Whole(rules[m[2]])
    BY DEF MatchesAt
  <2>2. Prefixes(Word(text, begin, l)) \subseteq Beginnings(rules)
    BY <2>1, WholeWords DEF Known
  <2> HIDE DEF l
  <2> QED
    BY <1>1, <2>2, WordPrefix
<1> HIDE DEF l
<1>3. 0 \in P
  BY KnownText DEF Follows
<1>4. ASSUME NEW k \in Nat, k + 1 <= l
      PROVE  /\ k \in 0 .. l /\ k + 1 \in 0 .. l /\ begin + k < Len(text)
             /\ k + 1 \in 1 .. Len(text) - begin + 2 /\ k + 1 - 1 = k
             /\ begin + (k + 1) - 1 = begin + k
  BY <1>1, <1>4
<1>5. ASSUME NEW k \in Nat, k + 1 <= l
      PROVE  /\ CharAt(begin + k) \in Alphabet
             /\ yy_nxt(Word(text, begin, k), CharAt(begin + k)) = Word(text, begin, k + 1)
  <2> DEFINE w == Word(text, begin, k)
             v == Word(text, begin, k + 1)
             c == CharAt(begin + k)
  <2>1. k \in 0 .. l /\ k + 1 \in 0 .. l /\ begin + k < Len(text)
    BY <1>4, <1>5
  <2>2. c \in Alphabet /\ v = Append(w, c)
    BY <2>1, KnownText
  <2>3. w \in Beginnings(rules) /\ v \in Beginnings(rules)
    BY <1>2, <2>1
  <2> HIDE DEF w, v, c
  <2>4. w \in States(rules)
    BY <2>3 DEF States
  <2>5. yy_nxt(w, c) = IF Append(w, c) \in Beginnings(rules) THEN Append(w, c) ELSE JamState
    BY <2>2, <2>3, <2>4, NxtIs DEF Known
  <2> QED
    BY <2>2, <2>3, <2>5 DEF w, v, c
<1>6. ASSUME NEW k \in Nat, k \in P PROVE k + 1 \in P
  <2> SUFFICES ASSUME k + 1 <= l PROVE f[k + 1] = Word(text, begin, k + 1)
    OBVIOUS
  <2>1. k \in 0 .. l /\ k + 1 \in 1 .. Len(text) - begin + 2 /\ k + 1 - 1 = k
        /\ begin + (k + 1) - 1 = begin + k
    BY <1>4
  <2>2. f[k + 1] = yy_nxt(f[k + 1 - 1], CharAt(begin + (k + 1) - 1))
    BY <2>1 DEF Follows
  <2>3. f[k] = Word(text, begin, k)
    BY <1>6, <2>1
  <2> QED
    BY <1>5, <2>1, <2>2, <2>3
<1> HIDE DEF P
<1>7. \A k \in Nat : k \in P
  BY <1>3, <1>6, SetInduction
<1>8. \A n \in 0 .. l : f[n] = Word(text, begin, n)
  <2>1. \A n \in 0 .. l : n \in Nat /\ n <= l
    BY <1>1
  <2> QED
    BY <1>7, <2>1 DEF P
<1>9. ASSUME NEW n \in 1 .. l - 1 PROVE ~Stops(f[n])
  <2>1. n \in Nat /\ n + 1 <= l /\ n \in 0 .. l /\ n + 1 \in 0 .. l
    BY <1>1
  <2>2. f[n] \in Beginnings(rules) /\ f[n] = Word(text, begin, n)
    BY <1>2, <1>8, <2>1
  <2>3. CharAt(begin + n) \in Alphabet /\ yy_nxt(f[n], CharAt(begin + n)) \in Beginnings(rules)
    BY <1>2, <1>5, <2>1, <2>2
  <2>4. JamState \notin Beginnings(rules)
    BY BeginningsAre DEF Known
  <2> QED
    BY <2>2, <2>3, <2>4 DEF Stops, NoTransitions
<1> QED
  BY <1>1, <1>8, <1>9 DEF l

\* Run() stops before the characters end.
LEMMA RunIs ==
  ASSUME Known
  PROVE  Shape(rules, text, begin, Run(begin))
<1> DEFINE u == Len(text) - begin + 2
           S == States(rules)
           next(n, s) == yy_nxt(s, CharAt(begin + n - 1))
           f[n \in 0 .. u] == IF n = 0 THEN <<>> ELSE yy_nxt(f[n - 1], CharAt(begin + n - 1))
           G == [x \in (0 .. u) \X S |-> next(x[1], x[2])]
<1>1. u \in Nat /\ u >= 2 /\ Len(text) \in Nat /\ begin \in Nat
  BY KnownText DEF Known
<1>2. <<>> \in S
  BY BeginningsAre DEF Known, States
<1> HIDE DEF u
<1>3. f = [n \in 0 .. u |-> IF n = 0 THEN <<>> ELSE yy_nxt(f[n - 1], CharAt(begin + n - 1))]
  <2>1. \A n, s : s \in S => next(n, s) \in S
    BY NxtIs DEF Known
  <2> HIDE DEF next, S
  <2>2. G \in [(0 .. u) \X S -> S]
    BY <2>1
  <2> HIDE DEF G
  <2>3. PICK g \in [0 .. u -> S] : Recursion(g, 0, u, <<>>, G)
    <3>1. 0 \in Int /\ u \in Int /\ 0 <= u
      BY <1>1
    <3> QED
      BY <1>2, <2>2, <3>1, RecursionIs
  <2>4. g = [n \in 0 .. u |-> IF n = 0 THEN <<>> ELSE yy_nxt(g[n - 1], CharAt(begin + n - 1))]
    <3>1. ASSUME NEW n \in 0 .. u
          PROVE  g[n] = IF n = 0 THEN <<>> ELSE yy_nxt(g[n - 1], CharAt(begin + n - 1))
      <4>1. CASE n = 0
        BY <2>3, <4>1 DEF Recursion
      <4>2. CASE n # 0
        <5>1. g[n] = G[<<n, g[n - 1]>>]
          BY <2>3, <4>2 DEF Recursion
        <5>2. <<n, g[n - 1]>> \in (0 .. u) \X S
          <6>1. n - 1 \in 0 .. u
            BY <1>1, <4>2
          <6> QED
            BY <2>3, <6>1
        <5>3. G[<<n, g[n - 1]>>] = next(n, g[n - 1])
          BY <5>2 DEF G
        <5> QED
          BY <4>2, <5>1, <5>3 DEF next
      <4> QED
        BY <4>1, <4>2
    <3> QED
      BY <2>3, <3>1
  <2> QED
    BY <2>4
<1> HIDE DEF f
<1>4. Follows(f)
  <2>1. DOMAIN f = 0 .. u
    BY <1>3
  <2>2. f[0] = <<>>
    BY <1>1, <1>3
  <2>3. ASSUME NEW n \in 1 .. u PROVE f[n] = yy_nxt(f[n - 1], CharAt(begin + n - 1))
    <3>1. n \in 0 .. u /\ n # 0
      BY <1>1
    <3> QED
      BY <1>3, <3>1
  <2> QED
    BY <2>1, <2>2, <2>3 DEF Follows, u
<1>5. \A n \in 0 .. u : After(rules, text, begin, n, f[n])
  BY <1>4, FollowsShape DEF u
<1> DEFINE Z == {n \in 1 .. u : Stops(f[n])}
           length == Min(Z)
<1>6. u \in Z
  <2>1. After(rules, text, begin, u, f[u])
    BY <1>1, <1>5
  <2>2. ~(begin + u <= Len(text)) /\ begin + u # Len(text) + 1
    BY <1>1 DEF u
  <2>3. f[u] = JamState
    BY <2>1, <2>2 DEF After
  <2> QED
    BY <1>1, <2>3 DEF Stops
<1>7. length \in Z /\ \A n \in Z : length <= n
  <2>1. Z \subseteq Int /\ Z # {} /\ 0 \in Int /\ \A n \in Z : 0 <= n
    BY <1>6
  <2> HIDE DEF Z
  <2> QED
    BY <2>1, MinIs
<1> DEFINE run == [n \in 1 .. length + 1 |-> f[n - 1]]
<1>8. Run(begin) = run
  BY DEF Run, f, u
<1> HIDE DEF length
<1>9. length \in 1 .. u /\ length \in Nat
  BY <1>1, <1>7
<1>10. \A n \in 0 .. length : n \in 0 .. u /\ n + 1 \in 1 .. length + 1 /\ run[n + 1] = f[n]
  <2>1. \A n \in 0 .. length : n + 1 \in 1 .. length + 1 /\ n + 1 - 1 = n
    BY <1>9
  <2> QED
    BY <1>1, <1>9, <2>1
<1>11. run \in Seq(S) /\ Len(run) = length + 1
  <2>1. ASSUME NEW n \in 1 .. length + 1 PROVE f[n - 1] \in S
    <3>1. n - 1 \in 0 .. u
      BY <1>1, <1>9
    <3> QED
      BY <1>5, <3>1 DEF After, States
  <2> HIDE DEF S
  <2>2. run \in [1 .. length + 1 -> S] /\ length + 1 \in Nat
    BY <1>9, <2>1
  <2> QED
    BY <2>2
<1> HIDE DEF run
<1>12. Len(run) \in 2 .. Len(text) - begin + 3
  BY <1>1, <1>9, <1>11 DEF u
<1>13. \A n \in 0 .. Len(run) - 1 : After(rules, text, begin, n, run[n + 1])
  <2>1. Len(run) - 1 = length
    BY <1>9, <1>11
  <2> QED
    BY <1>5, <1>10, <2>1
<1>14. ASSUME NEW m \in MatchesAt(rules, text, begin)
       PROVE  m[1] < Len(run) /\ \A n \in 0 .. m[1] : run[n + 1] = Word(text, begin, n)
  <2>1. /\ m[1] \in 1 .. Len(text) - begin
        /\ \A n \in 0 .. m[1] : f[n] = Word(text, begin, n)
        /\ \A n \in 1 .. m[1] - 1 : ~Stops(f[n])
    BY <1>4, FollowsMatch
  <2>2. ~(length < m[1])
    <3> SUFFICES ASSUME length < m[1] PROVE FALSE
      OBVIOUS
    <3>1. length \in 1 .. m[1] - 1
      BY <1>9, <2>1
    <3>2. Stops(f[length])
      BY <1>7
    <3> QED
      BY <2>1, <3>1, <3>2
  <2>3. \A n \in 0 .. m[1] : n \in 0 .. length
    BY <1>9, <2>1, <2>2
  <2>4. m[1] < Len(run)
    BY <1>9, <1>11, <2>1, <2>2
  <2> QED
    BY <1>10, <2>1, <2>3, <2>4
<1>15. ASSUME begin = Len(text) PROVE run[2] = EobState
  <2>1. f[1] = yy_nxt(f[1 - 1], CharAt(begin + 1 - 1)) /\ f[0] = <<>>
    <3>1. 1 \in 1 .. u
      BY <1>1
    <3> QED
      BY <1>4, <3>1 DEF Follows, u
  <2>2. CharAt(begin) = EOB /\ 1 - 1 = 0 /\ begin + 1 - 1 = begin
    BY <1>1, <1>15, KnownText
  <2>3. <<>> \in Beginnings(rules)
    BY BeginningsAre DEF Known
  <2>4. yy_nxt(<<>>, EOB) = EobState
    BY <1>2, <2>3, NxtIs DEF Known
  <2>5. run[1 + 1] = f[1]
    BY <1>9, <1>10
  <2> QED
    BY <2>1, <2>2, <2>4, <2>5
<1>16. Shape(rules, text, begin, run)
  BY <1>11, <1>12, <1>13, <1>14, <1>15 DEF Shape
<1> QED
  BY <1>8, <1>16

LEMMA StackedShape ==
  ASSUME Known, Stacked
  PROVE  Shape(rules, text, begin, stack)
<1> DEFINE run == Run(begin)
           left == Len(text) - begin
<1>1. Shape(rules, text, begin, run)
  BY RunIs
<1>2. CASE stack = run
  BY <1>1, <1>2
<1>3. CASE /\ begin < Len(text) /\ Len(run) > left + 1
           /\ stack = [n \in 1 .. left + 1 |-> run[n]]
  <2>1. left \in Nat \ {0} /\ Len(text) \in Nat /\ begin \in Nat /\ Len(run) \in Nat
    <3>1. Len(text) \in Nat /\ begin \in Nat
      BY KnownText
    <3> QED
      BY <1>1, <1>3, <3>1 DEF Shape
  <2> HIDE DEF run
  <2>2. \A n \in 1 .. left + 1 : run[n] \in States(rules)
    <3>1. \A n \in 1 .. left + 1 : n \in 1 .. Len(run)
      BY <1>3, <2>1
    <3> QED
      BY <1>1, <3>1, ElementOfSeq DEF Shape
  <2>3. stack \in Seq(States(rules)) /\ Len(stack) = left + 1
    <3> DEFINE S == States(rules)
    <3>1. left + 1 \in Nat
      BY <2>1
    <3> HIDE DEF S, left
    <3>2. stack \in [1 .. left + 1 -> S]
      BY <1>3, <2>2 DEF S
    <3> QED
      BY <3>1, <3>2 DEF S
  <2>4. \A n \in 0 .. left : n \in 0 .. Len(run) - 1 /\ stack[n + 1] = run[n + 1]
    BY <1>3, <2>1
  <2>5. \A m \in MatchesAt(rules, text, begin) : m[1] \in 1 .. left
    BY DEF MatchesAt
  <2>6. /\ \A n \in 0 .. Len(run) - 1 : After(rules, text, begin, n, run[n + 1])
        /\ \A m \in MatchesAt(rules, text, begin) :
             \A n \in 0 .. m[1] : run[n + 1] = Word(text, begin, n)
    BY <1>1 DEF Shape
  <2>7. \A n \in 0 .. Len(stack) - 1 : After(rules, text, begin, n, stack[n + 1])
    <3>1. Len(stack) - 1 = left
      BY <2>1, <2>3
    <3> QED
      BY <2>4, <2>6, <3>1
  <2>8. ASSUME NEW m \in MatchesAt(rules, text, begin)
        PROVE  m[1] < Len(stack) /\ \A n \in 0 .. m[1] : stack[n + 1] = Word(text, begin, n)
    <3>1. m[1] \in 1 .. left
      BY <2>5
    <3>2. m[1] < Len(stack) /\ \A n \in 0 .. m[1] : n \in 0 .. left
      BY <2>1, <2>3, <3>1
    <3> QED
      BY <2>4, <2>6, <3>2
  <2>9. Len(stack) \in 2 .. Len(text) - begin + 3 /\ begin # Len(text)
    BY <1>3, <2>1, <2>3
  <2> QED
    BY <2>3, <2>7, <2>8, <2>9 DEF Shape
<1> QED
  BY <1>2, <1>3 DEF Stacked

\* What the list of the state stacked after n characters says of the matches.
Listing(R, t, b, stk, n) ==
  LET L == ListAt(R, stk, n)
  IN  /\ Len(L) \in Nat /\ DOMAIN L = 1 .. Len(L)
      /\ \A k \in DOMAIN L :
           \/ \E i \in DOMAIN R : L[k] = Marked(R, i) /\ <<n, i>> \in MatchesAt(R, t, b)
           \/ \E i \in DOMAIN R : /\ L[k] = i + YY_TRAILING_HEAD_MASK /\ R[i].variable
                                  /\ Word(t, b, n) \in R[i].head /\ b + n <= Len(t)
           \/ L[k] = EOB_ACTION(R) /\ stk[n + 1] = EobState /\ b + n = Len(t) + 1
      /\ \A i \in DOMAIN R : <<n, i>> \in MatchesAt(R, t, b) => \E k \in DOMAIN L : L[k] = Marked(R, i)
      /\ \A i \in DOMAIN R :
           R[i].variable /\ Word(t, b, n) \in R[i].head /\ stk[n + 1] = Word(t, b, n) /\ b + n <= Len(t)
             => \E k \in DOMAIN L : L[k] = i + YY_TRAILING_HEAD_MASK
      /\ \A i, j \in DOMAIN R : \A k, l \in DOMAIN L :
           L[k] = Marked(R, i) /\ L[l] = Marked(R, j) => (k < l <=> i < j)
      /\ \A k, l \in DOMAIN L : HasHeadMask(L[k]) /\ ~HasHeadMask(L[l]) => l < k

LEMMA ListingIs ==
  ASSUME NEW R \in RuleSets, NEW t \in Seq(Alphabet), NEW b \in 0 .. Len(t), NEW stk,
         Shape(R, t, b, stk), NEW n \in 1 .. Len(stk) - 1
  PROVE  Listing(R, t, b, stk, n)
<1> DEFINE s == stk[n + 1]
           L == ListAt(R, stk, n)
           w == Word(t, b, n)
<1>1. b \in Nat /\ Len(t) \in Nat /\ n \in Nat \ {0} /\ Len(stk) \in Nat /\ n \in 0 .. Len(stk) - 1
  <2>1. Len(t) \in Nat /\ Len(stk) \in Nat
    BY LenProperties DEF Shape
  <2> QED
    BY <2>1
<1>2. After(R, t, b, n, s)
  BY <1>1 DEF Shape
<1>3. L = Lists[R][s]
  BY DEF ListAt
<1>4. \A i : <<n, i>> \in MatchesAt(R, t, b) => s = w /\ b + n <= Len(t)
  <2> SUFFICES ASSUME NEW i, <<n, i>> \in MatchesAt(R, t, b) PROVE s = w /\ b + n <= Len(t)
    OBVIOUS
  <2>1. n \in 1 .. Len(t) - b
    BY DEF MatchesAt
  <2>2. \A m \in MatchesAt(R, t, b) : \A j \in 0 .. m[1] : stk[j + 1] = Word(t, b, j)
    BY DEF Shape
  <2>3. n \in 0 .. <<n, i>>[1]
    BY <1>1
  <2>4. stk[n + 1] = Word(t, b, n)
    BY <2>2, <2>3
  <2> QED
    BY <1>1, <2>1, <2>4
<1>5. b + n <= Len(t) => w \in Seq(Alphabet)
  BY <1>1, WordIs
<1>6. EobState \notin Seq(Alphabet) /\ JamState \notin Seq(Alphabet)
  BY DeadEnds
<1>7. s # w \/ ~(b + n <= Len(t)) =>
        /\ \A i : <<n, i>> \notin MatchesAt(R, t, b)
        /\ ~(s = w /\ b + n <= Len(t))
  BY <1>4
<1>8. CASE s = w /\ b + n <= Len(t) /\ s \in Beginnings(R)
  <2>1. L = AcceptList(R, w)
    BY <1>3, <1>8, BeginningsAre, ListsAre
  <2> HIDE DEF L, s, w
  <2>2. IsList(R, w, L)
    BY <2>1, ListIs
  <2>3. \A i \in DOMAIN R : <<n, i>> \in MatchesAt(R, t, b) <=> w \in Whole(R[i])
    <3> SUFFICES ASSUME NEW i \in DOMAIN R
                 PROVE  <<n, i>> \in MatchesAt(R, t, b) <=> w \in Whole(R[i])
      OBVIOUS
    <3>1. <<n, i>> \in (1 .. Len(t) - b) \X DOMAIN R
      BY <1>1, <1>8
    <3> QED
      BY <3>1 DEF MatchesAt, w
  <2>4. \A k \in DOMAIN L :
          \/ \E i \in DOMAIN R : L[k] = Marked(R, i) /\ <<n, i>> \in MatchesAt(R, t, b)
          \/ \E i \in DOMAIN R : /\ L[k] = i + YY_TRAILING_HEAD_MASK /\ R[i].variable
                                 /\ w \in R[i].head /\ b + n <= Len(t)
    BY <1>8, <2>2, <2>3 DEF IsList, Ends, HeadEnds
  <2>5. \A i \in DOMAIN R : <<n, i>> \in MatchesAt(R, t, b) => \E k \in DOMAIN L : L[k] = Marked(R, i)
    BY <2>2, <2>3 DEF IsList
  <2> QED
    BY <2>2, <2>4, <2>5 DEF IsList, Listing, L, w
<1>9. CASE s = EobState /\ b + n = Len(t) + 1
  <2>1. Len(L) = 1 /\ DOMAIN L = 1 .. 1 /\ L[1] = EOB_ACTION(R)
    <3>1. L = <<EOB_ACTION(R)>>
      BY <1>3, <1>9, ListsAre
    <3> QED
      BY <3>1
  <2>2. ~(b + n <= Len(t))
    BY <1>1, <1>9
  <2>3. \A i \in DOMAIN R : EOB_ACTION(R) # Marked(R, i)
    BY MarksAre
  <2>4. ~HasHeadMask(EOB_ACTION(R))
    BY MarksAre
  <2> HIDE DEF L, w
  <2>5. \A k \in DOMAIN L : L[k] = EOB_ACTION(R)
    BY <2>1
  <2>6. Len(L) \in Nat /\ DOMAIN L = 1 .. Len(L)
    BY <2>1
  <2> QED
    BY <1>7, <1>9, <2>2, <2>3, <2>4, <2>5, <2>6 DEF Listing, L, w
<1>10. CASE s = JamState
  <2>1. L = <<>> /\ Len(L) = 0 /\ DOMAIN L = {} /\ {} = 1 .. 0
    BY <1>3, <1>10, ListsAre
  <2>2. ~(s = w /\ b + n <= Len(t))
    BY <1>5, <1>6, <1>10
  <2> HIDE DEF L, w
  <2>3. Len(L) \in Nat /\ DOMAIN L = 1 .. Len(L) /\ \A k \in DOMAIN L : FALSE
    BY <2>1
  <2> QED
    BY <1>4, <2>2, <2>3 DEF Listing, L, w
<1> QED
  BY <1>2, <1>8, <1>9, <1>10 DEF After

----------------------------------------------------------------------------
(* The matches on the way back                                             *)

LEMMA CountTo ==
  ASSUME NEW n \in Nat
  PROVE  IsFiniteSet(1 .. n) /\ Cardinality(1 .. n) = n
<1>1. /\ IsFiniteSet(1 .. n)
      /\ Cardinality(1 .. n) = IF 1 > n THEN 0 ELSE n - 1 + 1
  BY FS_Interval
<1> QED
  BY <1>1

LEMMA PassedBelow ==
  ASSUME NEW R \in RuleSets, NEW t \in Seq(Alphabet), NEW b \in 0 .. Len(t)
  PROVE  /\ IsFiniteSet(MatchesAt(R, t, b))
         /\ \A S \in SUBSET MatchesAt(R, t, b) :
              IsFiniteSet(S) /\ Cardinality(S) \in Nat /\ Cardinality(S) <= Len(t) * Len(R)
<1> DEFINE all == (1 .. Len(t)) \X (1 .. Len(R))
<1>1. Len(t) \in Nat /\ Len(R) \in Nat /\ DOMAIN R = 1 .. Len(R)
  BY LenProperties, MarksAre
<1>2. IsFiniteSet(1 .. Len(t)) /\ Cardinality(1 .. Len(t)) = Len(t)
  BY <1>1, CountTo
<1>3. IsFiniteSet(1 .. Len(R)) /\ Cardinality(1 .. Len(R)) = Len(R)
  BY <1>1, CountTo
<1>4. IsFiniteSet(all) /\ Cardinality(all) = Len(t) * Len(R)
  BY <1>2, <1>3, FS_Product
<1>5. MatchesAt(R, t, b) \subseteq all
  <2>1. \A n \in 1 .. Len(t) - b : n \in 1 .. Len(t)
    BY <1>1
  <2> QED
    BY <1>1, <2>1 DEF MatchesAt
<1> HIDE DEF all
<1>6. \A S \in SUBSET all :
        IsFiniteSet(S) /\ Cardinality(S) \in Nat /\ Cardinality(S) <= Len(t) * Len(R)
  BY <1>4, FS_Subset, FS_CardinalityType
<1> QED
  BY <1>5, <1>6

LEMMA MatchPair ==
  ASSUME NEW R, NEW t, NEW b, NEW m \in MatchesAt(R, t, b)
  PROVE  m = <<m[1], m[2]>> /\ m[1] \in 1 .. Len(t) - b /\ m[2] \in DOMAIN R
         /\ Word(t, b, m[1]) \in Whole(R[m[2]])
BY DEF MatchesAt

LEMMA PassedIs ==
  ASSUME NEW R, NEW t, NEW b, NEW stk, NEW n, NEW j, NEW m
  PROVE  m \in Passed(R, t, b, stk, n, j)
           <=> /\ m \in MatchesAt(R, t, b)
               /\ m[1] > n \/ (m[1] = n /\ \E k \in 1 .. j - 1 : ListAt(R, stk, n)[k] = Marked(R, m[2]))
BY DEF Passed

\* At the end of the list all matches of that length have been passed.
LEMMA PassedAll ==
  ASSUME NEW R \in RuleSets, NEW t \in Seq(Alphabet), NEW b \in 0 .. Len(t), NEW stk,
         NEW n \in Nat, Listing(R, t, b, stk, n)
  PROVE  Passed(R, t, b, stk, n, Len(ListAt(R, stk, n)) + 1) = Passed(R, t, b, stk, n - 1, 1)
<1> DEFINE L == ListAt(R, stk, n)
           M == MatchesAt(R, t, b)
<1>1. \A m \in M : m[1] \in Int /\ (m[1] > n - 1 <=> m[1] > n \/ m[1] = n)
  BY MatchPair
<1>2. \A m \in M : m[1] = n => \E k \in 1 .. Len(L) + 1 - 1 : L[k] = Marked(R, m[2])
  <2> SUFFICES ASSUME NEW m \in M, m[1] = n PROVE \E k \in 1 .. Len(L) + 1 - 1 : L[k] = Marked(R, m[2])
    OBVIOUS
  <2>1. m = <<n, m[2]>> /\ m[2] \in DOMAIN R
    BY MatchPair
  <2>2. <<n, m[2]>> \in MatchesAt(R, t, b)
    BY <2>1
  <2>3. \E k \in DOMAIN L : L[k] = Marked(R, m[2])
    BY <2>1, <2>2 DEF Listing
  <2>4. Len(L) \in Nat /\ DOMAIN L = 1 .. Len(L)
    BY DEF Listing
  <2> HIDE DEF L
  <2>5. Len(L) + 1 - 1 = Len(L)
    BY <2>4
  <2> QED
    BY <2>3, <2>4, <2>5
<1>3. \A m \in M : ~\E k \in 1 .. 1 - 1 : ListAt(R, stk, n - 1)[k] = Marked(R, m[2])
  OBVIOUS
<1> QED
  BY <1>1, <1>2, <1>3 DEF Passed

\* A head in the list is no match.
LEMMA PassedHead ==
  ASSUME NEW R \in RuleSets, NEW t, NEW b, NEW stk, NEW n, Listing(R, t, b, stk, n),
         NEW j \in DOMAIN ListAt(R, stk, n), HasHeadMask(ListAt(R, stk, n)[j])
  PROVE  Passed(R, t, b, stk, n, j + 1) = Passed(R, t, b, stk, n, j)
<1> DEFINE L == ListAt(R, stk, n)
           i == j + 1
<1>1. \A m \in MatchesAt(R, t, b) : L[j] # Marked(R, m[2])
  BY MarksAre, MatchPair
<1>2. j \in Nat \ {0}
  BY DEF Listing
<1> HIDE DEF L
<1>3. \A k : k \in 1 .. i - 1 <=> k \in 1 .. j - 1 \/ k = j
  BY <1>2
<1> HIDE DEF i
<1>4. \A m \in MatchesAt(R, t, b) :
        (\E k \in 1 .. i - 1 : L[k] = Marked(R, m[2])) <=> (\E k \in 1 .. j - 1 : L[k] = Marked(R, m[2]))
  BY <1>1, <1>3
<1>5. \A m : m \in Passed(R, t, b, stk, n, i) <=> m \in Passed(R, t, b, stk, n, j)
  BY <1>4, PassedIs DEF L
<1>6. Passed(R, t, b, stk, n, i) = Passed(R, t, b, stk, n, j)
  BY <1>5
<1> QED
  BY <1>6 DEF i

\* Before the entry of a match lie those that are better, behind it that one too.
LEMMA PassedMatch ==
  ASSUME NEW R \in RuleSets, NEW t, NEW b, NEW stk, NEW n, Listing(R, t, b, stk, n),
         NEW j \in DOMAIN ListAt(R, stk, n), NEW m \in MatchesAt(R, t, b), m[1] = n,
         ListAt(R, stk, n)[j] = Marked(R, m[2])
  PROVE  /\ Passed(R, t, b, stk, n, j) = BetterThan(R, t, b, m)
         /\ Passed(R, t, b, stk, n, j + 1) = BetterThan(R, t, b, m) \cup {m}
         /\ m \notin BetterThan(R, t, b, m)
<1> DEFINE L == ListAt(R, stk, n)
           M == MatchesAt(R, t, b)
           i == j + 1
<1>1. DOMAIN L = 1 .. Len(L) /\ Len(L) \in Nat /\ j \in Nat \ {0} /\ j <= Len(L)
  BY DEF Listing
<1>2. m = <<n, m[2]>> /\ m[2] \in DOMAIN R /\ n \in Int /\ DOMAIN R \subseteq Int
  BY MatchPair, MarksAre
<1>3. \A k \in M : k[1] = n => k = <<n, k[2]>> /\ k[2] \in DOMAIN R /\ \E l \in DOMAIN L : L[l] = Marked(R, k[2])
  <2> SUFFICES ASSUME NEW k \in M, k[1] = n
               PROVE  k = <<n, k[2]>> /\ k[2] \in DOMAIN R /\ \E l \in DOMAIN L : L[l] = Marked(R, k[2])
    OBVIOUS
  <2>1. k = <<n, k[2]>> /\ k[2] \in DOMAIN R
    BY MatchPair
  <2>2. <<n, k[2]>> \in MatchesAt(R, t, b)
    BY <2>1
  <2> QED
    BY <2>1, <2>2 DEF Listing
<1>4. \A x, y \in DOMAIN R : \A k, h \in DOMAIN L :
        L[k] = Marked(R, x) /\ L[h] = Marked(R, y) => (k < h <=> x < y)
  BY DEF Listing
<1> HIDE DEF L
<1>5. ASSUME NEW k \in M, k[1] = n
      PROVE  /\ (\E l \in 1 .. j - 1 : L[l] = Marked(R, k[2])) <=> k[2] < m[2]
             /\ (\E l \in 1 .. i - 1 : L[l] = Marked(R, k[2])) <=> k[2] < m[2] \/ k = m
  <2>1. k = <<n, k[2]>> /\ k[2] \in DOMAIN R
    BY <1>3, <1>5
  <2>2. PICK l \in DOMAIN L : L[l] = Marked(R, k[2])
    BY <1>3, <1>5
  <2>3. (l < j <=> k[2] < m[2]) /\ (j < l <=> m[2] < k[2]) /\ L[j] = Marked(R, m[2]) /\ j \in DOMAIN L
    BY <1>2, <1>4, <2>1, <2>2 DEF L
  <2>4. \A h \in DOMAIN L : L[h] = Marked(R, k[2]) => h = l
    <3> SUFFICES ASSUME NEW h \in DOMAIN L, L[h] = Marked(R, k[2]) PROVE h = l
      OBVIOUS
    <3>1. ~(h < l) /\ ~(l < h)
      <4>1. k[2] \in Int /\ ~(k[2] < k[2])
        BY <1>2, <2>1
      <4> QED
        BY <1>4, <2>1, <2>2, <4>1
    <3> QED
      BY <1>1, <3>1
  <2>5. \A h : (h \in 1 .. j - 1 => h \in DOMAIN L /\ h < j) /\ (h \in 1 .. i - 1 => h \in DOMAIN L /\ h <= j)
    BY <1>1
  <2>6. (l < j => l \in 1 .. j - 1) /\ (l <= j => l \in 1 .. i - 1)
    BY <1>1
  <2>7. l <= j <=> k[2] <= m[2]
    <3>1. l \in Int /\ j \in Int /\ k[2] \in Int /\ m[2] \in Int
      BY <1>1, <1>2, <2>1
    <3> QED
      BY <2>3, <3>1
  <2>8. k[2] <= m[2] <=> k[2] < m[2] \/ k = m
    <3>1. k[2] \in Int /\ m[2] \in Int
      BY <1>2, <2>1
    <3>2. k[2] = m[2] <=> k = m
      BY <1>2, <2>1
    <3> QED
      BY <3>1, <3>2
  <2> QED
    BY <2>2, <2>3, <2>4, <2>5, <2>6, <2>7, <2>8
<1> HIDE DEF i
<1>6. \A k \in M : k[1] \in Int
  BY MatchPair
<1>7. \A k \in M : Better(k, m) <=> k[1] > n \/ (k[1] = n /\ k[2] < m[2])
  BY <1>2, <1>6 DEF Better
<1>8. Passed(R, t, b, stk, n, j) = BetterThan(R, t, b, m)
  BY <1>5, <1>7 DEF Passed, BetterThan, L
<1>9. Passed(R, t, b, stk, n, i) = BetterThan(R, t, b, m) \cup {m}
  <2>1. \A k \in M : k[1] > n \/ (k[1] = n /\ \E l \in 1 .. i - 1 : L[l] = Marked(R, k[2]))
                       <=> Better(k, m) \/ k = m
    BY <1>5, <1>7
  <2>2. \A k : k \in Passed(R, t, b, stk, n, i)
                 <=> k \in M /\ (k[1] > n \/ (k[1] = n /\ \E l \in 1 .. i - 1 : L[l] = Marked(R, k[2])))
    BY PassedIs DEF L
  <2>3. \A k : k \in BetterThan(R, t, b, m) \cup {m} <=> k \in M /\ (Better(k, m) \/ k = m)
    BY DEF BetterThan
  <2> QED
    BY <2>1, <2>2, <2>3
<1>10. ~Better(m, m)
  BY <1>2, <1>7
<1> QED
  BY <1>8, <1>9, <1>10 DEF BetterThan, i

LEMMA RunKept ==
  ASSUME UNCHANGED <<rules, text, interactive, begin>>
  PROVE  Run(begin)' = Run(begin)
BY DEF Run, Stops, NoTransitions, yy_nxt, CharAt, acclist

LEMMA StackKept ==
  ASSUME Stacked, UNCHANGED <<rules, text, interactive, begin, stack>>
  PROVE  Stacked'
BY RunKept DEF Stacked

LEMMA DefaultIs ==
  ASSUME NEW R \in RuleSets
  PROVE  /\ Len(R) \in DOMAIN R /\ DOMAIN R = 1 .. Len(R) /\ Len(R) \in Nat
         /\ ~R[Len(R)].variable /\ Marked(R, Len(R)) = Len(R) /\ ~HasHeadMask(Len(R))
<1>1. Len(R) \in DOMAIN R /\ DOMAIN R = 1 .. Len(R) /\ Len(R) \in Nat
  BY MarksAre
<1>2. ~R[Len(R)].variable
  <2>1. R[Len(R)] = DefaultRule
    BY MarksAre
  <2> QED
    BY <2>1 DEF DefaultRule
<1>3. Marked(R, Len(R)) = Len(R) /\ ~HasHeadMask(Marked(R, Len(R)))
  BY <1>1, <1>2, MarksAre
<1> QED
  BY <1>1, <1>2, <1>3

\* Before the start state the default rule has matched, if not the end of the
\* buffer, and nothing comes behind it.
LEMMA BottomIs ==
  ASSUME NEW R \in RuleSets, NEW t \in Seq(Alphabet), NEW b \in 0 .. Len(t), NEW stk,
         Shape(R, t, b, stk)
  PROVE  /\ \E k \in 1 .. Len(ListAt(R, stk, 1)) :
              ListAt(R, stk, 1)[k] \in {Len(R), EOB_ACTION(R)}
         /\ \A m \in MatchesAt(R, t, b) : \A j \in DOMAIN ListAt(R, stk, 1) :
              m[1] = 1 /\ m[2] # Len(R) /\ ListAt(R, stk, 1)[j] = Marked(R, m[2]) =>
                \E k \in j + 1 .. Len(ListAt(R, stk, 1)) : ListAt(R, stk, 1)[k] = Len(R)
<1> DEFINE L == ListAt(R, stk, 1)
<1>1. Len(t) \in Nat /\ b \in Nat /\ Len(stk) \in Nat /\ 1 \in 1 .. Len(stk) - 1
  <2>1. Len(t) \in Nat
    BY LenProperties
  <2> QED
    BY <2>1 DEF Shape
<1>2. Listing(R, t, b, stk, 1)
  BY <1>1, ListingIs
<1>3. Len(L) \in Nat /\ DOMAIN L = 1 .. Len(L)
  BY <1>2 DEF Listing
<1>4. Len(R) \in DOMAIN R /\ DOMAIN R = 1 .. Len(R) /\ Len(R) \in Nat /\ Marked(R, Len(R)) = Len(R)
  BY DefaultIs
<1>5. CASE b = Len(t)
  <2>1. L = <<EOB_ACTION(R)>>
    <3>1. stk[1 + 1] = EobState
      BY <1>5 DEF Shape
    <3> QED
      BY <3>1, ListsAre DEF ListAt
  <2>2. \A m \in MatchesAt(R, t, b) : FALSE
    <3>1. \A n \in 1 .. Len(t) - b : FALSE
      BY <1>1, <1>5
    <3> QED
      BY <3>1, MatchPair
  <2>3. 1 \in 1 .. Len(L) /\ L[1] = EOB_ACTION(R)
    BY <2>1
  <2> HIDE DEF L
  <2> QED
    BY <2>2, <2>3 DEF L
<1>6. CASE b < Len(t)
  <2>1. /\ t[b + 1] \in Alphabet
        /\ Word(t, b, 1) = Append(Word(t, b, 0), t[b + 1])
    <3>1. 1 \in Nat \ {0} /\ b + 1 <= Len(t) /\ 1 - 1 = 0
      BY <1>1, <1>6
    <3>2. /\ t[b + 1] \in Alphabet
          /\ Word(t, b, 1) = Append(Word(t, b, 1 - 1), t[b + 1])
      BY <1>1, <3>1, NextWord
    <3> QED
      BY <3>1, <3>2
  <2>2. Word(t, b, 0) = <<>>
    BY <1>1, SubSeqEmpty DEF Word
  <2>3. Word(t, b, 1) = <<t[b + 1]>>
    <3>1. \A c : Append(<<>>, c) = <<c>>
      OBVIOUS
    <3> QED
      BY <2>1, <2>2, <3>1
  <2>4. Word(t, b, 1) \in Whole(R[Len(R)])
    BY <2>1, <2>3, BeginningsAre
  <2>5. <<1, Len(R)>> \in MatchesAt(R, t, b)
    <3>1. <<1, Len(R)>> \in (1 .. Len(t) - b) \X DOMAIN R
      BY <1>1, <1>4, <1>6
    <3> QED
      BY <2>4, <3>1 DEF MatchesAt
  <2>6. PICK k \in DOMAIN L : L[k] = Len(R)
    BY <1>2, <1>4, <2>5 DEF Listing
  <2>7. ASSUME NEW m \in MatchesAt(R, t, b), NEW j \in DOMAIN L,
               m[2] # Len(R), L[j] = Marked(R, m[2])
        PROVE  k \in j + 1 .. Len(L)
    <3>1. m[2] \in DOMAIN R
      BY MatchPair
    <3>2. m[2] < Len(R)
      BY <1>4, <2>7, <3>1
    <3>3. \A x, y \in DOMAIN R : \A g, h \in DOMAIN L :
            L[g] = Marked(R, x) /\ L[h] = Marked(R, y) => (g < h <=> x < y)
      BY <1>2 DEF Listing
    <3>4. L[k] = Marked(R, Len(R)) /\ L[j] = Marked(R, m[2])
      BY <1>4, <2>6, <2>7
    <3> HIDE DEF L
    <3>5. j < k
      BY <1>4, <3>1, <3>2, <3>3, <3>4
    <3> QED
      BY <1>3, <3>5
  <2> HIDE DEF L
  <2> QED
    BY <1>3, <2>6, <2>7 DEF L
<1> QED
  BY <1>1, <1>5, <1>6

\* Of a match, the head ends somewhere above the start state.
LEMMA HeadBelow ==
  ASSUME NEW R \in RuleSets, NEW t \in Seq(Alphabet), NEW b \in 0 .. Len(t),
         NEW m \in MatchesAt(R, t, b)
  PROVE  \E n \in 1 .. m[1] :
           LET u == SubSeq(t, b + n + 1, b + m[1])
           IN  /\ Word(t, b, n) \in R[m[2]].head /\ u \in R[m[2]].trail
               /\ \A k \in n .. m[1] : Word(t, b, k) = Word(t, b, n) \o SubSeq(u, 1, k - n)
<1> DEFINE l == m[1]
           r == R[m[2]]
<1>1. b \in Nat /\ l \in Nat /\ l \in 1 .. Len(t) - b /\ b + l <= Len(t) /\ IsRule(r) /\ Word(t, b, l) \in Whole(r)
  <2>1. Len(t) \in Nat
    BY LenProperties
  <2>2. l \in 1 .. Len(t) - b /\ m[2] \in DOMAIN R /\ Word(t, b, l) \in Whole(r)
    BY MatchPair
  <2>3. IsRule(r)
    BY <2>2, MarksAre
  <2> HIDE DEF l, r
  <2>4. b \in Nat /\ l \in Nat /\ b + l <= Len(t)
    BY <2>1, <2>2
  <2> QED
    BY <2>2, <2>3, <2>4
<1> HIDE DEF l, r
<1>2. PICK h \in r.head, u \in r.trail : Word(t, b, l) = h \o u
  BY <1>1 DEF Whole
<1>3. h \in Seq(Alphabet) /\ u \in Seq(Alphabet) /\ h # <<>>
  BY <1>1, <1>2 DEF IsRule
<1>4. /\ Len(h) \in 0 .. l /\ h = Word(t, b, Len(h)) /\ u = SubSeq(t, b + Len(h) + 1, b + l)
      /\ \A k \in Len(h) .. l : Word(t, b, k) = h \o SubSeq(u, 1, k - Len(h))
  <2>1. h \o u = Word(t, b, l)
    BY <1>2
  <2>2. b \in Nat /\ l \in Nat /\ b + l <= Len(t)
    BY <1>1
  <2>3. h \in Seq(Alphabet) /\ u \in Seq(Alphabet)
    BY <1>3
  <2>4. Parted(t, b, l, h, u)
    BY <2>1, <2>2, <2>3, WordParts
  <2> QED
    BY <2>4 DEF Parted
<1>5. Len(h) \in 1 .. l
  <2>1. Len(h) # 0
    BY <1>3, EmptySeq
  <2> QED
    BY <1>1, <1>4, <2>1
<1> QED
  BY <1>2, <1>4, <1>5 DEF l, r

\* Where the scanner looks for a rule.
LEMMA Here ==
  ASSUME Fixed, Stacked, AtPlace
  PROVE  /\ Known /\ Shape(rules, text, begin, stack) /\ Listing(rules, text, begin, stack, ptr)
         /\ text \in Seq(Alphabet) /\ Len(text) \in Nat /\ begin \in Nat /\ Len(stack) \in Nat
         /\ stack \in Seq(DOMAIN acclist) /\ current \in DOMAIN acclist
         /\ Len(stack) <= Len(text) - begin + 3 /\ cp \in 0 .. Len(text) + 2
         /\ acclist[current] = ListAt(rules, stack, ptr)
         /\ \A n \in 0 .. Len(stack) - 1 : After(rules, text, begin, n, stack[n + 1])
<1>1. Known
  BY DEF Fixed, Known
<1>2. Shape(rules, text, begin, stack)
  BY <1>1, StackedShape
<1>3. /\ text \in Seq(Alphabet) /\ Len(text) \in Nat /\ begin \in Nat
      /\ rules \in RuleSets /\ begin \in 0 .. Len(text)
  BY <1>1, KnownText DEF Known
<1>4. Listing(rules, text, begin, stack, ptr)
  BY <1>2, <1>3, ListingIs DEF AtPlace
<1>5. Len(stack) \in Nat /\ Len(stack) <= Len(text) - begin + 3
  BY <1>2, <1>3 DEF Shape
<1>6. stack \in Seq(DOMAIN acclist)
  BY <1>2, <1>3, ListsAre DEF Shape, acclist
<1>7. current \in DOMAIN acclist
  <2>1. ptr + 1 \in 1 .. Len(stack)
    BY <1>5 DEF AtPlace
  <2> QED
    BY <1>6, <2>1, ElementOfSeq DEF AtPlace
<1>8. cp \in 0 .. Len(text) + 2
  BY <1>3, <1>5 DEF AtPlace
<1>9. acclist[current] = ListAt(rules, stack, ptr)
  BY DEF AtPlace, ListAt, acclist
<1> QED
  BY <1>1, <1>2, <1>3, <1>4, <1>5, <1>6, <1>7, <1>8, <1>9 DEF Shape

\* What an entry of a list means, told by its marks.
Entry(R, t, b, stk, n, x) ==
  /\ x \in Nat \ {0}
  /\ \A i \in DOMAIN R : x = Marked(R, i) => <<n, i>> \in MatchesAt(R, t, b)
  /\ \A i \in DOMAIN R : x = i + YY_TRAILING_HEAD_MASK => R[i].variable /\ Word(t, b, n) \in R[i].head
  /\ x = EOB_ACTION(R) => stk[n + 1] = EobState /\ b + n = Len(t) + 1
  /\ HasTrailMask(x) => \E i \in DOMAIN R : R[i].variable /\ x = Marked(R, i)
  /\ ~HasHeadMask(x) /\ ~HasTrailMask(x) =>
       x = EOB_ACTION(R) \/ (x \in DOMAIN R /\ ~R[x].variable /\ x = Marked(R, x))

LEMMA EntryIs ==
  ASSUME NEW R \in RuleSets, NEW t, NEW b, NEW stk, NEW n, Listing(R, t, b, stk, n),
         NEW k \in DOMAIN ListAt(R, stk, n)
  PROVE  Entry(R, t, b, stk, n, ListAt(R, stk, n)[k])
<1> DEFINE L == ListAt(R, stk, n)
           x == L[k]
           IsMatch(i) == x = Marked(R, i) /\ <<n, i>> \in MatchesAt(R, t, b)
           IsHead(i) == x = i + YY_TRAILING_HEAD_MASK /\ R[i].variable /\ Word(t, b, n) \in R[i].head
           IsEnd == x = EOB_ACTION(R) /\ stk[n + 1] = EobState /\ b + n = Len(t) + 1
<1>1. (\E i \in DOMAIN R : IsMatch(i)) \/ (\E i \in DOMAIN R : IsHead(i)) \/ IsEnd
  BY DEF Listing
<1> SUFFICES Entry(R, t, b, stk, n, x)
  OBVIOUS
<1> HIDE DEF x
<1>2. /\ Len(R) \in Nat \ {0} /\ DOMAIN R = 1 .. Len(R)
      /\ EOB_ACTION(R) \in Nat \ {0} /\ EOB_ACTION(R) \notin DOMAIN R
      /\ ~HasHeadMask(EOB_ACTION(R)) /\ ~HasTrailMask(EOB_ACTION(R))
  BY MarksAre
<1>3. \A i \in DOMAIN R :
        /\ Marked(R, i) \in Nat \ {0} /\ ~HasHeadMask(Marked(R, i))
        /\ HasTrailMask(Marked(R, i)) <=> R[i].variable
        /\ ~R[i].variable => Marked(R, i) = i
        /\ Marked(R, i) # EOB_ACTION(R)
  BY MarksAre
<1>4. \A i, j \in DOMAIN R : Marked(R, i) = Marked(R, j) => i = j
  BY MarksAre
<1>5. \A i \in DOMAIN R : i + YY_TRAILING_HEAD_MASK \in Nat \ {0} /\ HasHeadMask(i + YY_TRAILING_HEAD_MASK)
  BY MarksAre
<1>6. ASSUME NEW i \in DOMAIN R, NEW j \in DOMAIN R,
             i + YY_TRAILING_HEAD_MASK = j + YY_TRAILING_HEAD_MASK
      PROVE  i = j
  BY <1>2, <1>6, Masks
<1>7. \A i \in DOMAIN R : ~HasTrailMask(i + YY_TRAILING_HEAD_MASK)
  BY <1>5 DEF HasTrailMask
<1>8. CASE \E i \in DOMAIN R : IsMatch(i)
  <2>1. PICK i \in DOMAIN R : IsMatch(i)
    BY <1>8
  <2>2. ~HasHeadMask(x) /\ x # EOB_ACTION(R) /\ x \in Nat \ {0}
    BY <1>3, <2>1
  <2>3. \A j \in DOMAIN R : x # j + YY_TRAILING_HEAD_MASK
    BY <1>5, <2>2
  <2>4. \A j \in DOMAIN R : x = Marked(R, j) => j = i
    BY <1>4, <2>1
  <2>5. HasTrailMask(x) <=> R[i].variable
    BY <1>3, <2>1
  <2>6. ~R[i].variable => x = i
    BY <1>3, <2>1
  <2> QED
    BY <2>1, <2>2, <2>3, <2>4, <2>5, <2>6 DEF Entry
<1>9. CASE \E i \in DOMAIN R : IsHead(i)
  <2>1. PICK i \in DOMAIN R : IsHead(i)
    BY <1>9
  <2>2. HasHeadMask(x) /\ ~HasTrailMask(x) /\ x \in Nat \ {0}
    BY <1>5, <1>7, <2>1
  <2>3. \A j \in DOMAIN R : x # Marked(R, j)
    BY <1>3, <2>2
  <2>4. \A j \in DOMAIN R : x = j + YY_TRAILING_HEAD_MASK => j = i
    BY <1>6, <2>1
  <2>5. x # EOB_ACTION(R)
    BY <1>2, <2>2
  <2> QED
    BY <2>1, <2>2, <2>3, <2>4, <2>5 DEF Entry
<1>10. CASE IsEnd
  <2>1. x \in Nat \ {0} /\ ~HasHeadMask(x) /\ ~HasTrailMask(x)
    BY <1>2, <1>10
  <2>2. \A j \in DOMAIN R : x # Marked(R, j) /\ x # j + YY_TRAILING_HEAD_MASK
    BY <1>2, <1>3, <1>5, <1>10
  <2> QED
    BY <1>10, <2>1, <2>2 DEF Entry
<1> QED
  BY <1>1, <1>8, <1>9, <1>10

\* What stays as long as the scanner is at work on one token.
LEMMA FixedKept ==
  ASSUME Fixed, UNCHANGED scanner, begin' \in 0 .. Len(text), rejects' \in Nat
  PROVE  Fixed'
BY DEF Fixed, scanner, variable_trailing_context_rules

LEMMA BoundsKept ==
  ASSUME Fixed, Bounds, Stacked, AtPlace, UNCHANGED <<scanner, begin, stack>>,
         ptr' \in 1 .. Len(stack) - 1, cp' = begin + ptr',
         full' \in [cp : Nat, ptr : Nat, lp : Nat]
  PROVE  Bounds'
<1>1. /\ Len(text) \in Nat /\ begin \in Nat /\ Len(stack) \in Nat
      /\ Len(stack) <= Len(text) - begin + 3
  BY Here
<1>2. UNCHANGED <<rules, text, stack, acclist>>
  BY DEF scanner, acclist
<1>3. cp' \in 0 .. Len(text) + 2 /\ ptr' \in 0 .. Len(stack)
  <2> DEFINE p == ptr'
             q == cp'
             n == Len(text)
             l == Len(stack)
  <2>1. n \in Nat /\ begin \in Nat /\ l \in Nat /\ l <= n - begin + 3
    BY <1>1
  <2>2. p \in 1 .. l - 1 /\ q = begin + p
    OBVIOUS
  <2> HIDE DEF p, q, n, l
  <2>3. q \in 0 .. n + 2 /\ p \in 0 .. l
    BY <2>1, <2>2
  <2> QED
    BY <2>3 DEF p, q, n, l
<1> QED
  BY <1>2, <1>3 DEF Bounds

----------------------------------------------------------------------------
(* The steps keep the invariant                                            *)

LEMMA FoundPlace ==
  ASSUME IInv, pc = "find_rule"
  PROVE  Fixed /\ Bounds /\ Stacked /\ AtPlace
BY DEF IInv

LEMMA Searches ==
  ASSUME Fixed', Bounds', Stacked', AtPlace', pc' = "find_rule",
         looking' = 0 => Searching', looking' # 0 => LookingForHead'
  PROVE  IInv'
BY DEF IInv

LEMMA Acts ==
  ASSUME Fixed', Bounds', Stacked', AtPlace', pc' = "action", looking' = 0,
         lp' <= Len(ListAt(rules, stack, ptr))', Chosen'
  PROVE  IInv'
BY DEF IInv

\* Before the list of a place has been looked at, nothing there has passed.
LEMMA NonePassed ==
  ASSUME NEW R, NEW t, NEW b, NEW stk, NEW n
  PROVE  Passed(R, t, b, stk, n, 1) = {m \in MatchesAt(R, t, b) : m[1] > n}
BY DEF Passed

\* The place where all that was stacked has been left behind.
LEMMA TopIs ==
  ASSUME NEW R \in RuleSets, NEW t \in Seq(Alphabet), NEW b \in 0 .. Len(t), NEW stk,
         Shape(R, t, b, stk)
  PROVE  Cardinality(Passed(R, t, b, stk, Len(stk) - 1, 1)) = 0
<1>1. Len(t) \in Nat /\ b \in Nat /\ Len(stk) \in Nat
  <2>1. Len(t) \in Nat
    BY LenProperties
  <2> QED
    BY <2>1 DEF Shape
<1>2. \A m \in MatchesAt(R, t, b) : m[1] \in Int /\ m[1] < Len(stk)
  BY MatchPair DEF Shape
<1>3. \A m \in MatchesAt(R, t, b) : ~(m[1] > Len(stk) - 1)
  BY <1>1, <1>2
<1>4. Passed(R, t, b, stk, Len(stk) - 1, 1) = {}
  BY <1>3, NonePassed
<1> QED
  BY <1>4, FS_EmptySet

LEMMA MatchStep ==
  ASSUME IInv, Match
  PROVE  IInv'
<1> USE DEF Match
<1>1. Fixed /\ Bounds /\ looking = 0 /\ rejects = 0
  BY DEF IInv
<1>2. Known
  BY <1>1 DEF Fixed, Known
<1>3. Shape(rules, text, begin, Run(begin))
  BY <1>2, RunIs
<1>4. /\ Len(text) \in Nat /\ begin \in Nat /\ Len(Run(begin)) \in Nat
      /\ Len(Run(begin)) <= Len(text) - begin + 3 /\ Len(Run(begin)) >= 2
  <2>1. Len(text) \in Nat /\ begin \in Nat
    BY <1>2, KnownText
  <2> QED
    BY <1>3, <2>1 DEF Shape
<1>5. Run(begin) \in Seq(DOMAIN acclist)
  BY <1>2, <1>3, ListsAre DEF Shape, acclist, Known
<1>6. Fixed'
  BY <1>1, FixedKept DEF Fixed
<1>7. Bounds'
  <2> DEFINE l == Len(Run(begin))
             n == Len(text)
  <2>1. n \in Nat /\ begin \in Nat /\ l \in Nat /\ l <= n - begin + 3 /\ l >= 2
    BY <1>4
  <2>2. begin + l - 1 \in 0 .. n + 2 /\ l <= n + 3 /\ l \in 0 .. l
    <3> HIDE DEF l, n
    <3> QED
      BY <2>1
  <2>3. UNCHANGED <<text, acclist, full>>
    BY DEF scanner, acclist
  <2> QED
    BY <1>1, <1>5, <2>2, <2>3 DEF Bounds
<1>8. Stacked'
  <2>1. Run(begin)' = Run(begin)
    BY RunKept DEF scanner
  <2> QED
    BY <2>1 DEF Stacked
<1> QED
  BY <1>1, <1>6, <1>7, <1>8 DEF IInv

LEMMA FindActionStep ==
  ASSUME IInv, FindAction
  PROVE  IInv'
<1> USE DEF FindAction, PopState
<1>1. /\ Fixed /\ Bounds /\ Stacked /\ ptr = Len(stack) /\ cp = begin + ptr - 1
      /\ looking = 0 /\ rejects = 0
  BY DEF IInv
<1>2. Known
  BY <1>1 DEF Fixed, Known
<1>3. Shape(rules, text, begin, stack)
  BY <1>1, <1>2, StackedShape
<1>4. /\ text \in Seq(Alphabet) /\ Len(text) \in Nat /\ begin \in Nat /\ rules \in RuleSets
      /\ begin \in 0 .. Len(text) /\ Len(stack) \in Nat /\ Len(stack) >= 2
  <2>1. Len(text) \in Nat /\ begin \in Nat /\ text \in Seq(Alphabet)
    BY <1>2, KnownText
  <2> QED
    BY <1>2, <1>3, <2>1 DEF Shape, Known
<1> DEFINE n == Len(stack) - 1
<1>5. n \in Nat /\ n \in 1 .. Len(stack) - 1 /\ ptr' = n /\ cp' = begin + n /\ n + 1 = ptr
  BY <1>1, <1>4
<1>6. Listing(rules, text, begin, stack, n)
  BY <1>3, <1>4, <1>5, ListingIs
<1>7. Len(ListAt(rules, stack, n)) \in Nat
  BY <1>6 DEF Listing
<1>8. UNCHANGED <<rules, text, interactive, begin, stack, rejects, looking, full>>
  BY DEF scanner
<1> HIDE DEF n
<1>9. Stacked'
  BY <1>1, <1>8, StackKept
<1>10. AtPlace'
  <2>1. n \in 1 .. Len(stack) - 1 /\ current' = stack[n + 1]
    BY <1>5
  <2>2. 1 \in Nat \ {0} /\ 1 <= Len(ListAt(rules, stack, n)) + 1
    BY <1>7
  <2> QED
    BY <1>5, <1>8, <2>1, <2>2 DEF AtPlace
<1>11. Searching'
  <2>1. Cardinality(Passed(rules, text, begin, stack, n, 1)) = rejects
    BY <1>1, <1>3, <1>4, TopIs DEF n
  <2>2. \E k \in 1 .. Len(ListAt(rules, stack, 1)) :
          ListAt(rules, stack, 1)[k] \in {Len(rules), EOB_ACTION(rules)}
    BY <1>3, <1>4, BottomIs
  <2> QED
    BY <1>5, <1>8, <2>1, <2>2 DEF Searching
<1>12. Fixed'
  BY <1>1, <1>8, FixedKept DEF Fixed
<1>13. Bounds'
  <2>1. n \in 0 .. Len(stack) /\ cp' = cp
    BY <1>4, <1>5
  <2> QED
    BY <1>1, <1>5, <1>8, <2>1 DEF Bounds, acclist
<1> QED
  BY <1>1, <1>8, <1>9, <1>10, <1>11, <1>12, <1>13, Searches

\* Where a head of the match ends, its number is in the list; so there is
\* one below, as long as none has been found.
LEMMA HeadAhead ==
  ASSUME Fixed, Stacked, AtPlace, NEW m, TrailOf(m),
         \A k \in DOMAIN ListAt(rules, stack, ptr) :
           ListAt(rules, stack, ptr)[k] # m[2] + YY_TRAILING_HEAD_MASK
  PROVE  Word(text, begin, ptr) \notin rules[m[2]].head /\ ptr > 1
<1> DEFINE L == ListAt(rules, stack, ptr)
           l == m[1]
           head == rules[m[2]].head
<1>1. /\ rules \in RuleSets /\ text \in Seq(Alphabet) /\ begin \in 0 .. Len(text)
      /\ Len(text) \in Nat /\ begin \in Nat
      /\ Shape(rules, text, begin, stack) /\ Listing(rules, text, begin, stack, ptr)
  BY Here DEF Fixed
<1>2. /\ m \in MatchesAt(rules, text, begin) /\ rules[m[2]].variable /\ ptr <= l
      /\ \A n \in ptr + 1 .. l : Word(text, begin, n) \notin head
  BY DEF TrailOf
<1>3. l \in 1 .. Len(text) - begin /\ m[2] \in DOMAIN rules
  BY <1>2, MatchPair
<1>4. ptr \in Nat \ {0}
  <2>1. Len(stack) \in Nat
    BY Here
  <2> QED
    BY <2>1 DEF AtPlace
<1>5. ptr \in 0 .. l /\ begin + ptr <= Len(text)
  <2> HIDE DEF l
  <2> QED
    BY <1>1, <1>2, <1>3, <1>4
<1>6. stack[ptr + 1] = Word(text, begin, ptr)
  BY <1>1, <1>2, <1>5 DEF Shape
<1>7. Word(text, begin, ptr) \notin head
  <2> SUFFICES ASSUME Word(text, begin, ptr) \in head PROVE FALSE
    OBVIOUS
  <2> QED
    BY <1>1, <1>2, <1>3, <1>5, <1>6 DEF Listing
<1>8. PICK n \in 1 .. l : Word(text, begin, n) \in head
  BY <1>1, <1>2, HeadBelow
<1> HIDE DEF l, head
<1>9. ~(n > ptr) /\ n # ptr
  BY <1>2, <1>3, <1>4, <1>7, <1>8
<1> QED
  BY <1>3, <1>4, <1>7, <1>8, <1>9 DEF l, head

LEMMA BackUpStep ==
  ASSUME IInv, BackUp
  PROVE  IInv'
<1> DEFINE L == ListAt(rules, stack, ptr)
           p == ptr - 1
<1>1. /\ pc = "find_rule" /\ ~Listed /\ cp' = cp - 1
      /\ ptr' = p /\ current' = stack[ptr] /\ lp' = 1
      /\ UNCHANGED <<scanner, pc, begin, stack, act, looking, full, rejects>>
  BY DEF BackUp, PopState, Backed
<1>2. Fixed /\ Bounds /\ Stacked /\ AtPlace
  BY <1>1, FoundPlace
<1>3. /\ Shape(rules, text, begin, stack) /\ Listing(rules, text, begin, stack, ptr)
      /\ text \in Seq(Alphabet) /\ Len(text) \in Nat /\ begin \in Nat /\ Len(stack) \in Nat
      /\ rules \in RuleSets /\ begin \in 0 .. Len(text) /\ rejects \in Nat
      /\ acclist[current] = L
  BY <1>2, Here DEF Fixed
<1>4. Len(L) \in Nat /\ DOMAIN L = 1 .. Len(L)
  BY <1>3 DEF Listing
<1>5. ptr \in 1 .. Len(stack) - 1 /\ cp = begin + ptr /\ lp \in Nat \ {0} /\ lp <= Len(L) + 1
  BY <1>2 DEF AtPlace
<1>6. lp = Len(L) + 1
  <2>1. ~(lp <= Len(L))
    BY <1>1, <1>3 DEF Listed
  <2> HIDE DEF L
  <2> QED
    BY <1>4, <1>5, <2>1
<1>7. UNCHANGED <<rules, text, interactive, begin, stack, rejects, looking, full, real_reject>>
  BY <1>1 DEF scanner
<1>8. ASSUME looking # 0
      PROVE  \E m \in MatchesAt(rules, text, begin) :
               /\ TrailOf(m) /\ looking = m[2] + YY_TRAILING_HEAD_MASK
               /\ Word(text, begin, ptr) \notin rules[m[2]].head /\ ptr > 1
  <2>1. PICK m \in MatchesAt(rules, text, begin) :
          /\ TrailOf(m) /\ looking = m[2] + YY_TRAILING_HEAD_MASK
          /\ \A k \in 1 .. lp - 1 : L[k] # looking
    BY <1>1, <1>8 DEF IInv, LookingForHead
  <2>2. lp - 1 = Len(L)
    <3> HIDE DEF L
    <3> QED
      BY <1>4, <1>6
  <2>3. \A k \in DOMAIN L : L[k] # looking
    BY <1>4, <2>1, <2>2
  <2> QED
    BY <1>2, <2>1, <2>3, HeadAhead
<1>9. looking = 0 => Searching
  BY <1>1 DEF IInv
<1>10. ptr # 1
  <2>1. CASE looking = 0
    <3> HIDE DEF L
    <3>1. \A k : k \notin lp .. Len(L)
      BY <1>4, <1>6
    <3> QED
      BY <1>9, <2>1, <3>1 DEF Searching, L
  <2>2. CASE looking # 0
    <3>1. ptr > 1
      BY <1>8, <2>2
    <3> QED
      BY <3>1
  <2> QED
    BY <2>1, <2>2
<1>11. p \in 1 .. Len(stack) - 1 /\ p \in Nat \ {0} /\ p + 1 = ptr /\ cp' = begin + p /\ ptr \in Nat
  BY <1>1, <1>3, <1>5, <1>10
<1>12. Listing(rules, text, begin, stack, p)
  BY <1>3, <1>11, ListingIs
<1>13. Len(ListAt(rules, stack, p)) \in Nat
  BY <1>12 DEF Listing
<1> HIDE DEF L, p
<1>14. Fixed' /\ Bounds' /\ Stacked'
  <2>1. full' \in [cp : Nat, ptr : Nat, lp : Nat]
    BY <1>2, <1>7 DEF Bounds
  <2>2. begin' \in 0 .. Len(text) /\ rejects' \in Nat
    BY <1>3, <1>7
  <2>3. Fixed'
    BY <1>1, <1>2, <2>2, FixedKept
  <2>4. Bounds'
    BY <1>1, <1>2, <1>11, <2>1, BoundsKept
  <2>5. Stacked'
    BY <1>2, <1>7, StackKept
  <2> QED
    BY <2>3, <2>4, <2>5
<1>15. AtPlace'
  <2>1. current' = stack[p + 1]
    BY <1>1, <1>11
  <2>2. 1 \in Nat \ {0} /\ 1 <= Len(ListAt(rules, stack, p)) + 1
    BY <1>13
  <2> QED
    BY <1>1, <1>7, <1>11, <2>1, <2>2 DEF AtPlace
<1>16. ASSUME looking' = 0 PROVE Searching'
  <2>1. Cardinality(Passed(rules, text, begin, stack, p, 1)) = rejects
    <3>1. Cardinality(Passed(rules, text, begin, stack, ptr, lp)) = rejects
      BY <1>7, <1>9, <1>16 DEF Searching
    <3>2. Passed(rules, text, begin, stack, ptr, lp) = Passed(rules, text, begin, stack, ptr - 1, 1)
      BY <1>3, <1>6, <1>11, PassedAll DEF L
    <3> QED
      BY <3>1, <3>2 DEF p
  <2>2. \E k \in 1 .. Len(ListAt(rules, stack, 1)) :
          ListAt(rules, stack, 1)[k] \in {Len(rules), EOB_ACTION(rules)}
    BY <1>3, BottomIs
  <2> QED
    BY <1>1, <1>7, <2>1, <2>2 DEF Searching
<1>17. ASSUME looking' # 0 PROVE LookingForHead'
  <2>1. PICK m \in MatchesAt(rules, text, begin) :
          /\ TrailOf(m) /\ looking = m[2] + YY_TRAILING_HEAD_MASK
          /\ Word(text, begin, ptr) \notin rules[m[2]].head
    BY <1>7, <1>8, <1>17
  <2>2. m[1] \in Int
    BY MatchPair
  <2>3. p <= m[1] /\ \A n \in p + 1 .. m[1] : n = ptr \/ n \in ptr + 1 .. m[1]
    <3>1. ptr <= m[1]
      BY <2>1 DEF TrailOf
    <3> QED
      BY <1>11, <2>2, <3>1
  <2>4. TrailOf(m)'
    BY <1>1, <1>7, <2>1, <2>3 DEF TrailOf
  <2>5. \A k : k \notin 1 .. 1 - 1
    OBVIOUS
  <2> QED
    BY <1>1, <1>7, <2>1, <2>4, <2>5 DEF LookingForHead
<1> QED
  BY <1>1, <1>14, <1>15, <1>16, <1>17, Searches

LEMMA AtEntry ==
  ASSUME IInv, AtRule
  PROVE  /\ Fixed /\ Bounds /\ Stacked /\ AtPlace /\ rejects \in Nat
         /\ Shape(rules, text, begin, stack) /\ Listing(rules, text, begin, stack, ptr)
         /\ text \in Seq(Alphabet) /\ Len(text) \in Nat /\ begin \in Nat
         /\ rules \in RuleSets /\ begin \in 0 .. Len(text) /\ ptr \in Nat \ {0} /\ cp = begin + ptr
         /\ Number = ListAt(rules, stack, ptr)[lp]
         /\ DOMAIN ListAt(rules, stack, ptr) = 1 .. Len(ListAt(rules, stack, ptr))
         /\ Len(ListAt(rules, stack, ptr)) \in Nat
         /\ lp \in Nat \ {0} /\ lp <= Len(ListAt(rules, stack, ptr))
         /\ lp \in DOMAIN ListAt(rules, stack, ptr)
         /\ Entry(rules, text, begin, stack, ptr, Number)
<1> DEFINE L == ListAt(rules, stack, ptr)
<1>1. Fixed /\ Bounds /\ Stacked /\ AtPlace
  BY FoundPlace DEF AtRule
<1>2. /\ Shape(rules, text, begin, stack) /\ Listing(rules, text, begin, stack, ptr)
      /\ text \in Seq(Alphabet) /\ Len(text) \in Nat /\ begin \in Nat /\ Len(stack) \in Nat
      /\ rules \in RuleSets /\ begin \in 0 .. Len(text) /\ rejects \in Nat
      /\ acclist[current] = L
  BY <1>1, Here DEF Fixed
<1>3. Len(L) \in Nat /\ DOMAIN L = 1 .. Len(L)
  BY <1>2 DEF Listing
<1>4. ptr \in Nat \ {0} /\ cp = begin + ptr /\ lp \in Nat \ {0}
  BY <1>1, <1>2 DEF AtPlace
<1>5. lp <= Len(L) /\ Number = L[lp]
  BY <1>2 DEF AtRule, Listed, Number
<1>6. lp \in DOMAIN L
  <2> HIDE DEF L
  <2> QED
    BY <1>3, <1>4, <1>5
<1>7. Entry(rules, text, begin, stack, ptr, L[lp])
  BY <1>2, <1>6, EntryIs
<1> HIDE DEF L
<1> QED
  BY <1>1, <1>2, <1>3, <1>4, <1>5, <1>6, <1>7 DEF L

\* The scanner stays where it is.
LEMMA PlaceKept ==
  ASSUME IInv, AtRule, UNCHANGED <<scanner, begin, stack, cp, ptr, current, rejects>>,
         lp' \in {lp, lp + 1}, full' \in [cp : Nat, ptr : Nat, lp : Nat]
  PROVE  Fixed' /\ Bounds' /\ Stacked' /\ AtPlace'
<1> DEFINE L == ListAt(rules, stack, ptr)
<1>1. /\ Fixed /\ Bounds /\ Stacked /\ AtPlace /\ rejects \in Nat /\ begin \in 0 .. Len(text)
      /\ Len(L) \in Nat /\ lp \in Nat \ {0} /\ lp <= Len(L)
  BY AtEntry
<1>2. UNCHANGED <<rules, text, interactive, begin, stack, acclist>>
  BY DEF scanner, acclist
<1>3. Fixed'
  BY <1>1, FixedKept
<1>4. Bounds'
  BY <1>1, <1>2 DEF Bounds
<1>5. Stacked'
  BY <1>1, <1>2, StackKept
<1>6. AtPlace'
  <2>1. lp' \in Nat \ {0} /\ lp' <= Len(L) + 1
    <3> HIDE DEF L
    <3> QED
      BY <1>1
  <2> QED
    BY <1>1, <1>2, <2>1 DEF AtPlace
<1> QED
  BY <1>3, <1>4, <1>5, <1>6

LEMMA TrailBeginStep ==
  ASSUME IInv, TrailBegin
  PROVE  IInv'
<1> DEFINE L == ListAt(rules, stack, ptr)
<1>1. /\ pc = "find_rule" /\ AtRule /\ Number = looking
      /\ looking' = 0 /\ act' = Number - YY_TRAILING_HEAD_MASK /\ pc' = "action"
      /\ UNCHANGED <<scanner, begin, cp, stack, ptr, current, lp, full, rejects>>
  BY DEF TrailBegin, IsTrailBegin, AtRule
<1>2. /\ Bounds /\ rules \in RuleSets /\ Listing(rules, text, begin, stack, ptr) /\ Number = L[lp]
      /\ lp <= Len(L) /\ Entry(rules, text, begin, stack, ptr, Number)
  BY <1>1, AtEntry
<1>3. looking # 0
  BY <1>1, <1>2 DEF Entry
<1>4. PICK m \in MatchesAt(rules, text, begin) : TrailOf(m) /\ looking = m[2] + YY_TRAILING_HEAD_MASK
  BY <1>1, <1>3 DEF IInv, LookingForHead
<1>5. m[2] \in DOMAIN rules
  BY MatchPair
<1>6. Word(text, begin, ptr) \in rules[m[2]].head
  <2>1. \A i \in DOMAIN rules : Number = i + YY_TRAILING_HEAD_MASK =>
          rules[i].variable /\ Word(text, begin, ptr) \in rules[i].head
    BY <1>2 DEF Entry
  <2> QED
    BY <1>1, <1>4, <1>5, <2>1
<1>7. act' = m[2]
  <2>1. m[2] \in Int
    BY <1>2, <1>5, MarksAre
  <2> QED
    BY <1>1, <1>4, <2>1, Masks
<1>8. UNCHANGED <<rules, text, begin, stack, ptr, lp, real_reject, full, rejects>>
  BY <1>1 DEF scanner
<1>9. Chosen'
  <2>1. TrailOf(m)'
    BY <1>4, <1>8 DEF TrailOf
  <2>2. HeadFound(m)'
    BY <1>6, <1>8, <2>1 DEF HeadFound
  <2>3. m \in MatchesAt(rules', text', begin')
    BY <1>8
  <2> QED
    BY <1>7, <2>2, <2>3 DEF Chosen
<1>10. Fixed' /\ Bounds' /\ Stacked' /\ AtPlace'
  <2>1. full' \in [cp : Nat, ptr : Nat, lp : Nat]
    BY <1>2, <1>8 DEF Bounds
  <2> QED
    BY <1>1, <2>1, PlaceKept
<1>11. lp' <= Len(ListAt(rules, stack, ptr))'
  BY <1>2, <1>8
<1> QED
  BY <1>1, <1>9, <1>10, <1>11, Acts

LEMMA SkipStep ==
  ASSUME IInv, Skip
  PROVE  IInv'
<1> DEFINE L == ListAt(rules, stack, ptr)
<1>1. /\ pc = "find_rule" /\ AtRule /\ Number # looking /\ (HasHeadMask(Number) \/ looking # 0)
      /\ lp' = lp + 1
      /\ UNCHANGED <<scanner, pc, begin, cp, stack, ptr, current, looking, full, rejects>>
  BY DEF Skip, IsTrailBegin, AtRule
<1>2. /\ Bounds /\ rules \in RuleSets /\ Listing(rules, text, begin, stack, ptr) /\ Number = L[lp]
      /\ lp \in DOMAIN L /\ lp \in Nat \ {0} /\ lp <= Len(L) /\ Len(L) \in Nat
  BY <1>1, AtEntry
<1>3. UNCHANGED <<rules, text, begin, stack, ptr, real_reject, looking, full, rejects>>
  BY <1>1 DEF scanner
<1>4. Fixed' /\ Bounds' /\ Stacked' /\ AtPlace'
  <2>1. full' \in [cp : Nat, ptr : Nat, lp : Nat]
    BY <1>2, <1>3 DEF Bounds
  <2> QED
    BY <1>1, <2>1, PlaceKept
<1> DEFINE j == lp + 1
<1> HIDE DEF L, j
<1>5. ASSUME looking' = 0 PROVE Searching'
  <2>1. Searching /\ HasHeadMask(L[lp])
    BY <1>1, <1>2, <1>3, <1>5 DEF IInv
  <2>2. Passed(rules, text, begin, stack, ptr, lp + 1) = Passed(rules, text, begin, stack, ptr, lp)
    BY <1>2, <2>1, PassedHead DEF L
  <2>3. L[lp] \notin {Len(rules), EOB_ACTION(rules)}
    <3>1. ~HasHeadMask(EOB_ACTION(rules)) /\ Len(rules) \in DOMAIN rules
      BY <1>2, MarksAre
    <3>2. ~HasHeadMask(Len(rules))
      BY <1>2, DefaultIs
    <3> QED
      BY <2>1, <3>1, <3>2
  <2>4. \A k \in lp .. Len(L) : k = lp \/ k \in j .. Len(L)
    BY <1>2 DEF j
  <2>5. ptr = 1 => \E k \in j .. Len(L) : L[k] \in {Len(rules), EOB_ACTION(rules)}
    <3> SUFFICES ASSUME ptr = 1
                 PROVE  \E k \in j .. Len(L) : L[k] \in {Len(rules), EOB_ACTION(rules)}
      OBVIOUS
    <3>1. PICK k \in lp .. Len(L) : L[k] \in {Len(rules), EOB_ACTION(rules)}
      BY <2>1 DEF Searching, L
    <3> QED
      BY <2>3, <2>4, <3>1
  <2>6. lp' = j
    BY <1>1 DEF j
  <2>7. ptr = 1 => L = ListAt(rules, stack, 1)
    BY DEF L
  <2> QED
    BY <1>1, <1>3, <2>1, <2>2, <2>5, <2>6, <2>7 DEF Searching, j
<1>6. ASSUME looking' # 0 PROVE LookingForHead'
  <2>1. PICK m \in MatchesAt(rules, text, begin) :
          /\ TrailOf(m) /\ looking = m[2] + YY_TRAILING_HEAD_MASK
          /\ \A k \in 1 .. lp - 1 : L[k] # looking
    BY <1>1, <1>3, <1>6 DEF IInv, LookingForHead, L
  <2>2. TrailOf(m)'
    BY <1>3, <2>1 DEF TrailOf
  <2>3. \A k \in 1 .. j - 1 : k = lp \/ k \in 1 .. lp - 1
    BY <1>2 DEF j
  <2>4. \A k \in 1 .. j - 1 : L[k] # looking
    BY <1>1, <1>2, <2>1, <2>3
  <2>5. lp' = j /\ L' = L
    BY <1>1, <1>3 DEF j, L
  <2> QED
    BY <1>3, <2>1, <2>2, <2>4, <2>5 DEF LookingForHead, L
<1> QED
  BY <1>1, <1>4, <1>5, <1>6, Searches

\* At an entry that names a match, while nothing is looked for, that match is
\* the best after those that were rejected.
LEMMA NextBestHere ==
  ASSUME IInv, AtRule, looking = 0, NEW i \in DOMAIN rules, Number = Marked(rules, i)
  PROVE  /\ <<ptr, i>> \in MatchesAt(rules, text, begin)
         /\ Cardinality(BetterThan(rules, text, begin, <<ptr, i>>)) = rejects
         /\ Keeps(rules, begin, stack, FullMatch, <<ptr, i>>)
<1> DEFINE L == ListAt(rules, stack, ptr)
           m == <<ptr, i>>
<1>1. /\ rules \in RuleSets /\ Listing(rules, text, begin, stack, ptr)
      /\ text \in Seq(Alphabet) /\ begin \in 0 .. Len(text) /\ ptr \in Nat \ {0} /\ cp = begin + ptr
      /\ Number = L[lp] /\ lp \in DOMAIN L /\ DOMAIN L = 1 .. Len(L)
      /\ Entry(rules, text, begin, stack, ptr, Number)
  BY AtEntry
<1>2. m \in MatchesAt(rules, text, begin)
  BY <1>1 DEF Entry
<1>3. m \in MatchesAt(rules, text, begin) /\ m[1] = ptr /\ m[2] = i
  BY <1>2
<1>4. Passed(rules, text, begin, stack, ptr, lp) = BetterThan(rules, text, begin, m)
  <2>1. L[lp] = Marked(rules, m[2])
    BY <1>1, <1>3
  <2> HIDE DEF m
  <2> QED
    BY <1>1, <1>3, <2>1, PassedMatch
<1>5. Searching
  BY DEF IInv, AtRule
<1>6. Keeps(rules, begin, stack, FullMatch, m)
  <2>1. FullMatch.cp = cp /\ FullMatch.ptr = ptr /\ FullMatch.lp = lp
    BY DEF FullMatch
  <2> HIDE DEF m
  <2> QED
    BY <1>1, <1>3, <2>1 DEF Keeps
<1> QED
  BY <1>3, <1>4, <1>5, <1>6 DEF Searching

LEMMA FullMatchIs ==
  ASSUME IInv, AtRule
  PROVE  /\ FullMatch \in [cp : Nat, ptr : Nat, lp : Nat] /\ FullMatch.cp = cp
         /\ full \in [cp : Nat, ptr : Nat, lp : Nat]
<1>1. Bounds /\ begin \in Nat /\ ptr \in Nat \ {0} /\ cp = begin + ptr /\ lp \in Nat \ {0}
  BY AtEntry
<1>2. cp \in Nat
  BY <1>1
<1> QED
  BY <1>1, <1>2 DEF FullMatch, Bounds

LEMMA TrailEndStep ==
  ASSUME IInv, TrailEnd
  PROVE  IInv'
<1> DEFINE L == ListAt(rules, stack, ptr)
<1>1. /\ pc = "find_rule" /\ AtRule /\ looking = 0 /\ HasTrailMask(Number)
      /\ lp' = lp + 1 /\ looking' = Number - YY_TRAILING_MASK + YY_TRAILING_HEAD_MASK
      /\ full' = IF real_reject THEN FullMatch ELSE full
      /\ UNCHANGED <<scanner, pc, begin, cp, stack, ptr, current, rejects>>
  BY DEF TrailEnd, AtRule
<1>2. /\ Fixed /\ rules \in RuleSets /\ Listing(rules, text, begin, stack, ptr) /\ Number = L[lp]
      /\ lp \in DOMAIN L /\ lp \in Nat \ {0} /\ lp <= Len(L) /\ Len(L) \in Nat /\ DOMAIN L = 1 .. Len(L)
      /\ ptr \in Nat \ {0} /\ Entry(rules, text, begin, stack, ptr, Number)
  BY <1>1, AtEntry
<1>3. PICK i \in DOMAIN rules : rules[i].variable /\ Number = Marked(rules, i)
  BY <1>1, <1>2 DEF Entry
<1>4. PICK m : /\ m = <<ptr, i>> /\ m \in MatchesAt(rules, text, begin)
                 /\ Cardinality(BetterThan(rules, text, begin, m)) = rejects
                 /\ Keeps(rules, begin, stack, FullMatch, m)
  BY <1>1, <1>3, NextBestHere
<1>5. m[1] = ptr /\ m[2] = i
  BY <1>4
<1>6. UNCHANGED <<rules, text, begin, stack, ptr, real_reject, rejects>>
  BY <1>1 DEF scanner
<1> HIDE DEF L
<1>7. looking' = i + YY_TRAILING_HEAD_MASK /\ looking' # 0 /\ HasHeadMask(looking')
  <2>1. i \in Nat /\ Marked(rules, i) = i + YY_TRAILING_MASK
    BY <1>2, <1>3, MarksAre
  <2>2. looking' = i + YY_TRAILING_HEAD_MASK
    BY <1>1, <1>3, <2>1, Masks
  <2>3. i + YY_TRAILING_HEAD_MASK \in Nat \ {0} /\ HasHeadMask(i + YY_TRAILING_HEAD_MASK)
    BY <1>2, MarksAre
  <2> QED
    BY <2>2, <2>3
<1>8. TrailOf(m)'
  <2>1. \A n : n \notin ptr + 1 .. ptr
    BY <1>2
  <2>2. real_reject' => Keeps(rules', begin', stack', full', m)
    BY <1>1, <1>4, <1>6
  <2>3. /\ m \in MatchesAt(rules', text', begin') /\ rules'[m[2]].variable /\ ptr' <= m[1]
        /\ Cardinality(BetterThan(rules', text', begin', m)) = rejects'
    BY <1>2, <1>3, <1>4, <1>5, <1>6
  <2>4. \A n \in ptr' + 1 .. m[1] : Word(text', begin', n) \notin rules'[m[2]].head
    BY <1>5, <1>6, <2>1
  <2> QED
    BY <2>2, <2>3, <2>4 DEF TrailOf
<1>9. \A k \in 1 .. lp' - 1 : L[k] # looking'
  <2> SUFFICES ASSUME NEW k \in 1 .. lp' - 1, L[k] = looking' PROVE FALSE
    OBVIOUS
  <2>1. k \in DOMAIN L /\ ~(lp < k)
    BY <1>1, <1>2
  <2>2. HasHeadMask(L[k]) /\ ~HasHeadMask(L[lp])
    BY <1>2, <1>3, <1>7, MarksAre
  <2> QED
    BY <1>2, <2>1, <2>2 DEF Listing, L
<1>10. LookingForHead'
  <2>1. L' = L
    BY <1>6 DEF L
  <2>2. m \in MatchesAt(rules', text', begin')
    BY <1>4, <1>6
  <2>3. looking' = m[2] + YY_TRAILING_HEAD_MASK
    BY <1>5, <1>7
  <2>4. \A k \in 1 .. lp' - 1 : ListAt(rules', stack', ptr')[k] # looking'
    BY <1>6, <1>9 DEF L
  <2> QED
    BY <1>8, <2>2, <2>3, <2>4 DEF LookingForHead
<1>11. Fixed' /\ Bounds' /\ Stacked' /\ AtPlace'
  <2>1. full' \in [cp : Nat, ptr : Nat, lp : Nat]
    BY <1>1, FullMatchIs
  <2> QED
    BY <1>1, <2>1, PlaceKept
<1> QED
  BY <1>1, <1>7, <1>10, <1>11, Searches

LEMMA RuleMatchedStep ==
  ASSUME IInv, RuleMatched
  PROVE  IInv'
<1> DEFINE L == ListAt(rules, stack, ptr)
<1>1. /\ pc = "find_rule" /\ AtRule /\ looking = 0 /\ ~HasHeadMask(Number) /\ ~HasTrailMask(Number)
      /\ act' = Number /\ pc' = "action"
      /\ full' = IF variable_trailing_context_rules THEN FullMatch ELSE [full EXCEPT !.cp = cp]
      /\ UNCHANGED <<scanner, begin, cp, stack, ptr, current, lp, looking, rejects>>
  BY DEF RuleMatched, AtRule
<1>2. /\ Fixed /\ rules \in RuleSets /\ Listing(rules, text, begin, stack, ptr) /\ Number = L[lp]
      /\ lp \in DOMAIN L /\ lp <= Len(L) /\ AtPlace /\ Searching
      /\ ptr \in Nat \ {0} /\ begin \in Nat /\ Len(text) \in Nat
      /\ Entry(rules, text, begin, stack, ptr, Number)
  <2>1. Searching
    BY <1>1 DEF IInv
  <2> QED
    BY <1>1, <2>1, AtEntry
<1>3. UNCHANGED <<rules, text, begin, stack, ptr, real_reject, rejects, current, cp, lp>>
      /\ variable_trailing_context_rules' = variable_trailing_context_rules
  BY <1>1 DEF scanner, variable_trailing_context_rules
<1>4. /\ Number = EOB_ACTION(rules) => stack[ptr + 1] = EobState /\ begin + ptr = Len(text) + 1
      /\ Number = EOB_ACTION(rules) \/ (Number \in DOMAIN rules /\ ~rules[Number].variable
                                          /\ Number = Marked(rules, Number))
  BY <1>1, <1>2 DEF Entry
<1> HIDE DEF L
<1>5. full' \in [cp : Nat, ptr : Nat, lp : Nat] /\ full'.cp = cp
  <2>1. /\ FullMatch \in [cp : Nat, ptr : Nat, lp : Nat] /\ FullMatch.cp = cp
        /\ full \in [cp : Nat, ptr : Nat, lp : Nat]
    BY <1>1, FullMatchIs
  <2>2. cp \in Nat
    BY <2>1
  <2> QED
    BY <1>1, <2>1, <2>2
<1>6. ASSUME Number = EOB_ACTION(rules) PROVE Chosen'
  <2>1. current = EobState
    BY <1>2, <1>4, <1>6 DEF AtPlace
  <2>2. \A m \in MatchesAt(rules, text, begin) : m[1] \in Int /\ m[1] <= Len(text) - begin
    BY MatchPair
  <2>3. \A m \in MatchesAt(rules, text, begin) : ~(m[1] > ptr) /\ m[1] # ptr
    BY <1>2, <1>4, <1>6, <2>2
  <2>4. Passed(rules, text, begin, stack, ptr, lp) = {}
    BY <2>3 DEF Passed
  <2>5. rejects = 0
    BY <1>2, <2>4, FS_EmptySet DEF Searching
  <2>6. act' = EOB_ACTION(rules') /\ current' = EobState /\ rejects' = 0
    BY <1>1, <1>3, <1>6, <2>1, <2>5
  <2> QED
    BY <2>6 DEF Chosen
<1>7. ASSUME Number # EOB_ACTION(rules) PROVE Chosen'
  <2>1. Number \in DOMAIN rules /\ ~rules[Number].variable /\ Number = Marked(rules, Number)
    BY <1>4, <1>7
  <2>2. PICK m : /\ m = <<ptr, Number>> /\ m \in MatchesAt(rules, text, begin)
                 /\ Cardinality(BetterThan(rules, text, begin, m)) = rejects
                 /\ Keeps(rules, begin, stack, FullMatch, m)
    BY <1>1, <2>1, NextBestHere
  <2>3. m[1] = ptr /\ m[2] = Number
    BY <2>2
  <2>4. MatchFound(m)'
    <3>1. variable_trailing_context_rules' => Keeps(rules', begin', stack', full', m)
      BY <1>1, <1>3, <2>2
    <3>2. /\ m \in MatchesAt(rules', text', begin') /\ ~rules'[m[2]].variable /\ m[1] = ptr'
          /\ full'.cp = cp' /\ Cardinality(BetterThan(rules', text', begin', m)) = rejects'
      BY <1>3, <1>5, <2>1, <2>2, <2>3
    <3>3. ListAt(rules', stack', ptr')[lp'] = act'
      BY <1>1, <1>2, <1>3 DEF L
    <3> QED
      BY <3>1, <3>2, <3>3 DEF MatchFound
  <2>5. m \in MatchesAt(rules', text', begin') /\ act' = m[2]
    BY <1>1, <1>3, <2>2, <2>3
  <2> QED
    BY <2>4, <2>5 DEF Chosen
<1>8. Fixed' /\ Bounds' /\ Stacked' /\ AtPlace'
  BY <1>1, <1>5, PlaceKept
<1>9. lp' <= Len(ListAt(rules, stack, ptr))'
  BY <1>2, <1>3 DEF L
<1> QED
  BY <1>1, <1>6, <1>7, <1>8, <1>9, Acts

\* What an action knows of the match it was chosen for.
LEMMA ChosenRule ==
  ASSUME IInv, IsRuleAct
  PROVE  \E m \in MatchesAt(rules, text, begin) : act = m[2] /\ (MatchFound(m) \/ HeadFound(m))
<1>1. Chosen /\ Fixed
  BY DEF IInv, IsRuleAct
<1>2. act # EOB_ACTION(rules)
  BY <1>1, MarksAre DEF IsRuleAct, Fixed
<1> QED
  BY <1>1, <1>2 DEF Chosen

LEMMA AtAction ==
  ASSUME IInv, pc = "action"
  PROVE  /\ Fixed /\ Bounds /\ Stacked /\ AtPlace /\ looking = 0 /\ rejects \in Nat
         /\ Shape(rules, text, begin, stack)
         /\ text \in Seq(Alphabet) /\ Len(text) \in Nat /\ begin \in Nat /\ Len(stack) \in Nat
         /\ rules \in RuleSets /\ begin \in 0 .. Len(text)
         /\ ptr \in 1 .. Len(stack) - 1 /\ cp = begin + ptr /\ current = stack[ptr + 1]
<1>1. Fixed /\ Bounds /\ Stacked /\ AtPlace /\ looking = 0
  BY DEF IInv
<1> QED
  BY <1>1, Here DEF AtPlace, Fixed

\* Whatever the action is, REJECT goes on behind the entry of its match.
LEMMA RestoredIs ==
  ASSUME IInv, REJECT
  PROVE  \E m \in MatchesAt(rules, text, begin) : \E k \in DOMAIN ListAt(rules, stack, m[1]) :
           /\ act = m[2] /\ Cardinality(BetterThan(rules, text, begin, m)) = rejects
           /\ ListAt(rules, stack, m[1])[k] = Marked(rules, m[2])
           /\ cp' = begin + m[1] /\ ptr' = m[1] /\ current' = stack[m[1] + 1] /\ lp' = k + 1
<1>1. /\ IsRuleAct /\ pc = "action" /\ real_reject /\ cp' = full.cp
      /\ IF variable_trailing_context_rules
         THEN ptr' = full.ptr /\ current' = stack[full.ptr + 1] /\ lp' = full.lp + 1
         ELSE lp' = lp + 1 /\ UNCHANGED <<ptr, current>>
  BY DEF REJECT, IsRuleAct, Restored, NextInList
<1>2. PICK m \in MatchesAt(rules, text, begin) : act = m[2] /\ (MatchFound(m) \/ HeadFound(m))
  BY <1>1, ChosenRule
<1> DEFINE L == ListAt(rules, stack, m[1])
<1>3. /\ rules \in RuleSets /\ Shape(rules, text, begin, stack)
      /\ text \in Seq(Alphabet) /\ begin \in 0 .. Len(text) /\ begin \in Nat /\ Len(stack) \in Nat
      /\ Len(text) \in Nat /\ AtPlace
  BY <1>1, AtAction
<1>4. m[2] \in DOMAIN rules /\ m[1] \in 1 .. Len(text) - begin
  BY MatchPair
<1>5. DOMAIN L = 1 .. Len(L) /\ Len(L) \in Nat
  <2>1. m[1] < Len(stack)
    BY <1>3 DEF Shape
  <2>2. m[1] \in 1 .. Len(stack) - 1
    BY <1>3, <1>4, <2>1
  <2> QED
    BY <1>3, <2>2, ListingIs DEF Listing
<1>6. Cardinality(BetterThan(rules, text, begin, m)) = rejects
  BY <1>2 DEF MatchFound, HeadFound, TrailOf
<1>7. CASE variable_trailing_context_rules
  <2>1. Keeps(rules, begin, stack, full, m)
    BY <1>1, <1>2, <1>7 DEF MatchFound, HeadFound, TrailOf
  <2>2. full.lp \in DOMAIN L /\ L[full.lp] = Marked(rules, m[2]) /\ full.cp = begin + m[1] /\ full.ptr = m[1]
    BY <1>5, <2>1 DEF Keeps
  <2> HIDE DEF L
  <2> QED
    BY <1>1, <1>2, <1>6, <1>7, <2>2 DEF L
<1>8. CASE ~variable_trailing_context_rules
  <2>1. ~rules[m[2]].variable
    BY <1>4, <1>8 DEF variable_trailing_context_rules
  <2>2. MatchFound(m)
    BY <1>2, <2>1 DEF HeadFound, TrailOf
  <2>3. m[1] = ptr /\ full.cp = cp /\ L[lp] = act
    BY <2>2 DEF MatchFound
  <2>4. lp \in DOMAIN L
    <3>1. lp <= Len(L) /\ lp \in Nat \ {0}
      BY <1>1, <1>3, <2>3 DEF IInv, AtPlace
    <3> HIDE DEF L
    <3> QED
      BY <1>5, <3>1
  <2>5. Marked(rules, m[2]) = m[2]
    BY <1>3, <1>4, <2>1, MarksAre
  <2>6. cp' = begin + m[1] /\ ptr' = m[1] /\ current' = stack[m[1] + 1] /\ lp' = lp + 1
    BY <1>1, <1>3, <1>8, <2>3 DEF AtPlace
  <2> HIDE DEF L
  <2> QED
    BY <1>2, <1>6, <2>3, <2>4, <2>5, <2>6 DEF L
<1> QED
  BY <1>7, <1>8

LEMMA REJECTStep ==
  ASSUME IInv, REJECT
  PROVE  IInv'
<1>1. /\ pc = "action" /\ IsRuleAct /\ act # Len(rules)
      /\ pc' = "find_rule" /\ rejects' = Counted(rejects)
      /\ UNCHANGED <<scanner, begin, stack, act, looking, full>>
  BY DEF REJECT, IsRuleAct
<1>2. PICK m \in MatchesAt(rules, text, begin) : \E k \in DOMAIN ListAt(rules, stack, m[1]) :
        /\ act = m[2] /\ Cardinality(BetterThan(rules, text, begin, m)) = rejects
        /\ ListAt(rules, stack, m[1])[k] = Marked(rules, m[2])
        /\ cp' = begin + m[1] /\ ptr' = m[1] /\ current' = stack[m[1] + 1] /\ lp' = k + 1
  BY RestoredIs
<1> DEFINE n == m[1]
           L == ListAt(rules, stack, n)
           M == MatchesAt(rules, text, begin)
           B == BetterThan(rules, text, begin, m)
<1>3. PICK k \in DOMAIN L :
        /\ act = m[2] /\ Cardinality(B) = rejects /\ L[k] = Marked(rules, m[2])
        /\ cp' = begin + n /\ ptr' = n /\ current' = stack[n + 1] /\ lp' = k + 1
  BY <1>2
<1>4. /\ Fixed /\ Bounds /\ Stacked /\ AtPlace /\ looking = 0 /\ rejects \in Nat
      /\ rules \in RuleSets /\ Shape(rules, text, begin, stack)
      /\ text \in Seq(Alphabet) /\ begin \in 0 .. Len(text) /\ begin \in Nat /\ Len(stack) \in Nat
      /\ Len(text) \in Nat
  BY <1>1, AtAction
<1>5. m[2] \in DOMAIN rules /\ n \in 1 .. Len(text) - begin
  BY MatchPair
<1>6. n \in 1 .. Len(stack) - 1
  <2>1. n < Len(stack)
    BY <1>4 DEF Shape
  <2> HIDE DEF n
  <2> QED
    BY <1>4, <1>5, <2>1
<1>7. Listing(rules, text, begin, stack, n)
  BY <1>4, <1>6, ListingIs
<1>8. DOMAIN L = 1 .. Len(L) /\ Len(L) \in Nat
  BY <1>7 DEF Listing
<1>9. k \in Nat \ {0} /\ k <= Len(L)
  <2> HIDE DEF L
  <2> QED
    BY <1>8
<1>10. /\ Passed(rules, text, begin, stack, n, k + 1) = B \cup {m} /\ m \notin B
  BY <1>3, <1>4, <1>7, PassedMatch
<1>11. Cardinality(B \cup {m}) = rejects + 1 /\ rejects + 1 <= Len(text) * Len(rules)
  <2>1. /\ B \in SUBSET M /\ B \cup {m} \in SUBSET M
    BY DEF BetterThan
  <2> HIDE DEF B, M
  <2>2. IsFiniteSet(B) /\ Cardinality(B \cup {m}) <= Len(text) * Len(rules)
    BY <1>4, <2>1, PassedBelow DEF M
  <2>3. Cardinality(B \cup {m}) = Cardinality(B) + 1
    BY <1>10, <2>2, FS_AddElement
  <2> QED
    BY <1>3, <2>2, <2>3
<1>12. rejects' = rejects + 1 /\ rejects' \in Nat
  <2> DEFINE bound == Len(text) * Len(rules)
  <2>1. rejects \in Nat /\ rejects + 1 <= bound
    BY <1>4, <1>11
  <2>2. bound \in Int
    <3>1. Len(text) \in Nat /\ Len(rules) \in Nat
      BY <1>4, MarksAre
    <3> QED
      BY <3>1
  <2>3. rejects' = IF rejects > bound THEN rejects ELSE rejects + 1
    BY <1>1 DEF Counted
  <2> HIDE DEF bound
  <2>4. ~(rejects > bound)
    BY <2>1, <2>2
  <2> QED
    BY <2>1, <2>3, <2>4
<1>13. UNCHANGED <<rules, text, interactive, begin, stack, real_reject, looking, full>>
  BY <1>1 DEF scanner
<1> HIDE DEF n, L, M, B
<1>14. Fixed' /\ Bounds' /\ Stacked'
  <2>1. full' \in [cp : Nat, ptr : Nat, lp : Nat] /\ begin' \in 0 .. Len(text)
    BY <1>4, <1>13 DEF Bounds
  <2>2. Fixed'
    BY <1>1, <1>4, <1>12, <2>1, FixedKept
  <2>3. Bounds'
    BY <1>1, <1>3, <1>4, <1>6, <2>1, BoundsKept
  <2>4. Stacked'
    BY <1>4, <1>13, StackKept
  <2> QED
    BY <2>2, <2>3, <2>4
<1>15. AtPlace'
  <2>1. lp' \in Nat \ {0} /\ lp' <= Len(L) + 1
    BY <1>3, <1>8, <1>9
  <2> QED
    BY <1>3, <1>6, <1>13, <2>1 DEF AtPlace, L
<1>16. Searching'
  <2>1. Cardinality(Passed(rules, text, begin, stack, n, k + 1)) = rejects'
    BY <1>10, <1>11, <1>12
  <2>2. ASSUME n = 1
        PROVE  \E j \in k + 1 .. Len(L) : L[j] \in {Len(rules), EOB_ACTION(rules)}
    <3>1. /\ k \in DOMAIN ListAt(rules, stack, 1) /\ m[1] = 1 /\ m[2] # Len(rules)
          /\ ListAt(rules, stack, 1)[k] = Marked(rules, m[2])
      BY <1>1, <1>3, <2>2 DEF L, n
    <3>2. \E j \in k + 1 .. Len(ListAt(rules, stack, 1)) : ListAt(rules, stack, 1)[j] = Len(rules)
      BY <1>4, <3>1, BottomIs
    <3> QED
      BY <2>2, <3>2 DEF L
  <2> QED
    BY <1>3, <1>13, <2>1, <2>2 DEF Searching, L
<1> QED
  BY <1>1, <1>4, <1>13, <1>14, <1>15, <1>16, Searches

LEMMA AcceptStep ==
  ASSUME IInv, Accept
  PROVE  IInv'
<1>1. /\ pc = "action" /\ IsRuleAct /\ begin' = cp /\ pc' = "match" /\ rejects' = 0
      /\ UNCHANGED <<scanner, cp, stack, ptr, current, lp, act, looking, full>>
  BY DEF Accept, IsRuleAct
<1>2. PICK m \in MatchesAt(rules, text, begin) : act = m[2] /\ (MatchFound(m) \/ HeadFound(m))
  BY <1>1, ChosenRule
<1>3. /\ Fixed /\ Bounds /\ looking = 0 /\ Len(text) \in Nat /\ begin \in Nat /\ Len(stack) \in Nat
      /\ ptr \in 1 .. Len(stack) - 1 /\ cp = begin + ptr
  BY <1>1, AtAction
<1>4. m[1] \in 1 .. Len(text) - begin
  BY MatchPair
<1>5. ptr <= m[1]
  <2>1. m[1] = ptr \/ ptr <= m[1]
    BY <1>2 DEF MatchFound, HeadFound, TrailOf
  <2> QED
    BY <1>3, <2>1
<1>6. cp \in 0 .. Len(text)
  BY <1>3, <1>4, <1>5
<1>7. Fixed'
  BY <1>1, <1>3, <1>6, FixedKept
<1>8. Bounds'
  BY <1>1, <1>3 DEF Bounds, acclist, scanner
<1> QED
  BY <1>1, <1>3, <1>7, <1>8 DEF IInv

\* At the end of the buffer the scanner stands behind the text.
LEMMA EndIs ==
  ASSUME IInv, pc = "action", act = EOB_ACTION(rules)
  PROVE  rejects = 0 /\ begin + ptr = Len(text) + 1
<1>1. /\ Fixed /\ Chosen /\ rules \in RuleSets /\ Stacked /\ AtPlace
  BY DEF IInv, Fixed
<1>2. act \notin DOMAIN rules
  BY <1>1, MarksAre
<1>3. \A m \in MatchesAt(rules, text, begin) : act # m[2]
  BY <1>2, MatchPair
<1>4. current = EobState /\ rejects = 0
  BY <1>1, <1>3 DEF Chosen
<1>5. /\ Len(stack) \in Nat /\ ptr \in 1 .. Len(stack) - 1 /\ current = stack[ptr + 1]
  BY AtAction
<1>6. After(rules, text, begin, ptr, stack[ptr + 1])
  <2>1. ptr \in 0 .. Len(stack) - 1
    BY <1>5
  <2> QED
    BY <1>1, <2>1, Here
<1>7. EobState \notin Beginnings(rules) /\ EobState # JamState
  BY <1>1, BeginningsAre, ListsAre
<1> QED
  BY <1>4, <1>5, <1>6, <1>7 DEF After

LEMMA LastMatchStep ==
  ASSUME IInv, LastMatch
  PROVE  IInv'
<1> DEFINE left == Len(text) - begin
           run == Run(begin)
           part == [n \in 1 .. left + 1 |-> run[n]]
<1>1. /\ pc = "action" /\ act = EOB_ACTION(rules) /\ begin < Len(text)
      /\ stack' = part /\ ptr' = Len(stack') /\ cp' = Len(text) /\ pc' = "find_action"
      /\ UNCHANGED <<scanner, begin, current, lp, act, looking, full, rejects>>
  BY DEF LastMatch
<1>2. /\ Fixed /\ Bounds /\ Stacked /\ looking = 0 /\ Len(text) \in Nat /\ begin \in Nat
      /\ Len(stack) \in Nat /\ ptr \in 1 .. Len(stack) - 1 /\ rules \in RuleSets
      /\ begin \in 0 .. Len(text)
  BY <1>1, AtAction
<1>3. rejects = 0 /\ begin + ptr = Len(text) + 1
  BY <1>1, EndIs
<1>4. left \in Nat /\ left + 1 = ptr /\ left + 1 < Len(stack)
  BY <1>2, <1>3
<1>5. stack = run
  <2>1. Len(stack) # left + 1
    BY <1>4
  <2>2. stack # part
    <3>1. Len(part) = left + 1
      BY <1>4
    <3> QED
      BY <2>1, <3>1
  <2> QED
    BY <1>2, <2>2 DEF Stacked
<1>6. Len(part) = left + 1 /\ part \in Seq(DOMAIN acclist)
  <2>1. stack \in Seq(DOMAIN acclist)
    BY <1>2 DEF Bounds
  <2>2. \A n \in 1 .. left + 1 : n \in 1 .. Len(stack)
    BY <1>2, <1>4
  <2>3. \A n \in 1 .. left + 1 : run[n] \in DOMAIN acclist
    BY <1>5, <2>1, <2>2, ElementOfSeq
  <2>4. left + 1 \in Nat
    BY <1>4
  <2> HIDE DEF left, run
  <2> QED
    BY <2>3, <2>4
<1>7. Run(begin)' = run
  BY <1>1, RunKept DEF scanner
<1>8. UNCHANGED <<rules, text, begin, acclist, full, rejects, looking>>
  BY <1>1 DEF scanner, acclist
<1> HIDE DEF run
<1>9. Stacked'
  <2>1. begin' < Len(text)' /\ Len(run) > Len(text)' - begin' + 1
    BY <1>1, <1>2, <1>4, <1>5, <1>8
  <2>2. stack' = [n \in 1 .. Len(text)' - begin' + 1 |-> run[n]]
    BY <1>1, <1>8
  <2> QED
    BY <1>7, <2>1, <2>2 DEF Stacked
<1>10. Fixed'
  BY <1>1, <1>2, <1>3, FixedKept
<1> DEFINE l == Len(part)
<1>11. l \in Nat /\ l <= Len(text) + 3 /\ l \in 0 .. l /\ Len(text) = begin + l - 1
       /\ Len(text) \in 0 .. Len(text) + 2
  <2>1. l = left + 1
    BY <1>6
  <2> HIDE DEF l
  <2> QED
    BY <1>2, <1>4, <2>1
<1>12. Bounds'
  <2>1. Len(stack') = l /\ ptr' = l /\ stack' \in Seq(DOMAIN acclist)
    BY <1>1, <1>6
  <2> HIDE DEF l
  <2> QED
    BY <1>1, <1>2, <1>8, <1>11, <2>1 DEF Bounds
<1>13. ptr' = Len(stack') /\ cp' = begin' + ptr' - 1
  <2>1. ptr' = l /\ Len(stack') = l /\ begin' = begin /\ cp' = Len(text)
    BY <1>1
  <2> HIDE DEF l
  <2> QED
    BY <1>11, <2>1
<1> HIDE DEF l, part
<1> QED
  BY <1>1, <1>2, <1>3, <1>8, <1>9, <1>10, <1>12, <1>13 DEF IInv

LEMMA EndOfFileStep ==
  ASSUME IInv, EndOfFile
  PROVE  IInv'
<1>1. /\ pc' = "eof" /\ pc = "action"
      /\ UNCHANGED <<scanner, begin, cp, stack, ptr, current, lp, act, looking, full, rejects>>
  BY DEF EndOfFile
<1>2. Fixed /\ Bounds /\ rejects \in Nat /\ begin \in 0 .. Len(text)
  BY <1>1, AtAction
<1>3. Fixed'
  BY <1>1, <1>2, FixedKept
<1>4. Bounds'
  BY <1>1, <1>2 DEF Bounds, acclist, scanner
<1> QED
  BY <1>1, <1>3, <1>4 DEF IInv

LEMMA StutterStep ==
  ASSUME IInv, UNCHANGED vars
  PROVE  IInv'
<1>1. UNCHANGED <<scanner, pc, begin, cp, stack, ptr, current, lp, act, looking, full, rejects>>
  BY DEF vars
<1>2. UNCHANGED <<rules, text, interactive, real_reject, acclist, variable_trailing_context_rules>>
  BY <1>1 DEF scanner, acclist, variable_trailing_context_rules
<1>3. Run(begin)' = Run(begin)
  BY <1>1, <1>2, RunKept
<1>4. Fixed => Fixed'
  BY <1>1, <1>2 DEF Fixed
<1>5. Bounds => Bounds'
  BY <1>1, <1>2 DEF Bounds
<1>6. Stacked => Stacked'
  BY <1>1, <1>2, <1>3 DEF Stacked
<1>7. AtPlace => AtPlace'
  BY <1>1, <1>2 DEF AtPlace
<1>8. Searching => Searching'
  BY <1>1, <1>2 DEF Searching
<1>9. \A m : TrailOf(m)' = TrailOf(m)
  BY <1>1, <1>2 DEF TrailOf
<1>10. LookingForHead => LookingForHead'
  BY <1>1, <1>2, <1>9 DEF LookingForHead
<1>11. \A m : MatchFound(m)' = MatchFound(m) /\ HeadFound(m)' = HeadFound(m)
  BY <1>1, <1>2, <1>9 DEF MatchFound, HeadFound
<1>12. Chosen => Chosen'
  BY <1>1, <1>2, <1>11 DEF Chosen
<1> QED
  BY <1>1, <1>2, <1>4, <1>5, <1>6, <1>7, <1>8, <1>10, <1>12 DEF IInv

----------------------------------------------------------------------------
(* What is true of the scanner                                             *)

LEMMA Starts ==
  ASSUME Init
  PROVE  IInv
<1>1. rules \in RuleSets /\ text \in Texts
  BY DEF Init
<1>2. text \in Seq(Alphabet) /\ Len(text) \in Nat
  <2>1. text \in Seq(Alphabet)
    BY <1>1, TextsAssumption
  <2> QED
    BY <2>1, LenProperties
<1>3. Fixed
  BY <1>2 DEF Init, Fixed
<1>4. Bounds
  <2>1. stack = <<>> /\ ptr = 0 /\ cp = 0 /\ full = [cp |-> 0, ptr |-> 0, lp |-> 0]
    BY DEF Init
  <2>2. Len(stack) = 0 /\ stack \in Seq(DOMAIN acclist)
    BY <2>1
  <2>3. Len(stack) <= Len(text) + 3 /\ cp \in 0 .. Len(text) + 2 /\ ptr \in 0 .. Len(stack)
    BY <1>2, <2>1, <2>2
  <2>4. full \in [cp : Nat, ptr : Nat, lp : Nat]
    BY <2>1
  <2> QED
    BY <2>2, <2>3, <2>4 DEF Bounds
<1> QED
  BY <1>3, <1>4 DEF Init, IInv

LEMMA Steps ==
  ASSUME IInv, [Next]_vars
  PROVE  IInv'
<1>1. CASE UNCHANGED vars
  BY <1>1, StutterStep
<1>2. CASE Step
  BY <1>2, MatchStep, FindActionStep, BackUpStep, TrailBeginStep, SkipStep, TrailEndStep,
     RuleMatchedStep, REJECTStep, AcceptStep, LastMatchStep, EndOfFileStep DEF Step
<1> QED
  BY <1>1, <1>2 DEF Next, Terminated

LEMMA Invariance == Spec => []IInv
<1>1. Init => IInv
  BY Starts
<1>2. IInv /\ [Next]_vars => IInv'
  BY Steps
<1> QED
  BY <1>1, <1>2, PTL DEF Spec

LEMMA TypesFollow ==
  ASSUME IInv
  PROVE  RejectTypeOK
<1>1. Fixed /\ Bounds
  BY DEF IInv
<1>2. /\ pc \in {"match", "find_action", "find_rule", "action", "eof"}
      /\ begin \in 0 .. Len(text) /\ cp \in 0 .. Len(text) + 2
      /\ Len(stack) <= Len(text) + 3 /\ ptr \in 0 .. Len(stack)
  BY <1>1 DEF IInv, Fixed, Bounds
<1>3. pc = "find_action" => ptr = cp - begin + 1
  <2> SUFFICES ASSUME pc = "find_action" PROVE ptr = cp - begin + 1
    OBVIOUS
  <2>1. ptr = Len(stack) /\ cp = begin + ptr - 1 /\ stack \in Seq(DOMAIN acclist)
    BY <1>1 DEF IInv, Bounds
  <2>2. Len(stack) \in Nat
    BY <2>1, LenProperties
  <2>3. begin \in Int
    BY <1>2
  <2> QED
    BY <2>1, <2>2, <2>3
<1>4. pc = "find_rule" => ptr = cp - begin /\ current \in DOMAIN acclist
  <2> SUFFICES ASSUME pc = "find_rule" PROVE ptr = cp - begin /\ current \in DOMAIN acclist
    OBVIOUS
  <2>1. Stacked /\ AtPlace
    BY FoundPlace
  <2>2. current \in DOMAIN acclist /\ begin \in Nat /\ Len(stack) \in Nat
    BY <1>1, <2>1, Here
  <2>3. ptr \in 1 .. Len(stack) - 1 /\ cp = begin + ptr
    BY <2>1 DEF AtPlace
  <2> QED
    BY <2>2, <2>3
<1>5. pc \in {"match", "action"} => looking = 0
  BY DEF IInv
<1> QED
  BY <1>2, <1>3, <1>4, <1>5 DEF RejectTypeOK

LEMMA MatchesAre == Matches = MatchesAt(rules, text, begin)
BY DEF Matches, MatchesAt, Word

LEMMA BestFollows ==
  ASSUME IInv
  PROVE  NextBest
<1> SUFFICES ASSUME IsRuleAct
             PROVE  \E m \in Matches :
                      /\ m[2] = act /\ Cardinality({k \in Matches : Better(k, m)}) = rejects
                      /\ ~rules[act].variable => cp = begin + m[1]
                      /\ real_reject => full.cp = begin + m[1]
  BY DEF NextBest
<1>1. PICK m \in MatchesAt(rules, text, begin) : act = m[2] /\ (MatchFound(m) \/ HeadFound(m))
  BY ChosenRule
<1>2. cp = begin + ptr
  BY AtAction DEF IsRuleAct
<1>3. {k \in Matches : Better(k, m)} = BetterThan(rules, text, begin, m)
  BY MatchesAre DEF BetterThan
<1>4. Cardinality(BetterThan(rules, text, begin, m)) = rejects
  BY <1>1 DEF MatchFound, HeadFound, TrailOf
<1>5. ~rules[act].variable => cp = begin + m[1]
  BY <1>1, <1>2 DEF MatchFound, HeadFound, TrailOf
<1>6. real_reject => full.cp = begin + m[1]
  <2>1. MatchFound(m) => full.cp = begin + m[1]
    BY <1>2 DEF MatchFound
  <2>2. HeadFound(m) /\ real_reject => full.cp = begin + m[1]
    BY DEF HeadFound, TrailOf, Keeps
  <2> QED
    BY <1>1, <2>1, <2>2
<1> QED
  BY <1>1, <1>3, <1>4, <1>5, <1>6, MatchesAre

LEMMA CutFollows ==
  ASSUME IInv
  PROVE  TrailingContextCut
<1> SUFFICES ASSUME IsRuleAct, rules[act].variable
             PROVE  /\ SubSeq(text, begin + 1, cp) \in rules[act].head
                    /\ real_reject /\ ~Dangerous(rules[act]) =>
                         SubSeq(text, cp + 1, full.cp) \in rules[act].trail
  BY DEF TrailingContextCut
<1>1. PICK m \in MatchesAt(rules, text, begin) : act = m[2] /\ (MatchFound(m) \/ HeadFound(m))
  BY ChosenRule
<1>2. TrailOf(m) /\ Word(text, begin, ptr) \in rules[act].head
  BY <1>1 DEF MatchFound, HeadFound
<1>3. /\ Fixed /\ cp = begin + ptr /\ rules \in RuleSets /\ text \in Seq(Alphabet)
      /\ begin \in 0 .. Len(text) /\ begin \in Nat /\ Len(stack) \in Nat /\ ptr \in 1 .. Len(stack) - 1
  BY AtAction DEF IsRuleAct
<1> DEFINE l == m[1]
           r == rules[act]
<1>4. SubSeq(text, begin + 1, cp) \in r.head
  BY <1>2, <1>3 DEF Word
<1>5. ASSUME real_reject, ~Dangerous(r)
      PROVE  SubSeq(text, cp + 1, full.cp) \in r.trail
  <2>1. l \in Nat /\ ptr \in Nat /\ ptr <= l
    <3>1. l \in 1 .. Len(text) - begin /\ ptr <= l
      BY <1>2, MatchPair DEF TrailOf
    <3>2. Len(text) \in Nat
      BY <1>3, LenProperties
    <3> HIDE DEF l
    <3> QED
      BY <1>3, <3>1, <3>2
  <2>2. PICK n \in 1 .. l :
          LET u == SubSeq(text, begin + n + 1, begin + l)
          IN  /\ Word(text, begin, n) \in r.head /\ u \in r.trail
              /\ \A k \in n .. l : Word(text, begin, k) = Word(text, begin, n) \o SubSeq(u, 1, k - n)
    BY <1>1, <1>3, HeadBelow
  <2> DEFINE u == SubSeq(text, begin + n + 1, begin + l)
             h == Word(text, begin, n)
  <2>3. /\ h \in r.head /\ u \in r.trail
        /\ \A k \in n .. l : Word(text, begin, k) = h \o SubSeq(u, 1, k - n)
    BY <2>2
  <2>4. n <= ptr
    <3>1. \A k \in ptr + 1 .. l : Word(text, begin, k) \notin r.head
      BY <1>1, <1>2 DEF TrailOf
    <3>2. n \notin ptr + 1 .. l
      BY <2>3, <3>1
    <3> HIDE DEF l
    <3> QED
      BY <2>1, <3>2
  <2>5. Len(u) = l - n
    <3>1. l - n \in Nat /\ begin + n \in Nat /\ begin + n + (l - n) = begin + l
          /\ begin + l <= Len(text)
      <4>1. l \in 1 .. Len(text) - begin
        BY MatchPair
      <4>2. Len(text) \in Nat
        BY <1>3, LenProperties
      <4> HIDE DEF l
      <4> QED
        BY <1>3, <2>1, <4>1, <4>2
    <3>2. Word(text, begin + n, l - n) = u
      BY <3>1 DEF Word
    <3> HIDE DEF l, u
    <3> QED
      BY <1>3, <3>1, <3>2, WordIs
  <2>6. n = ptr
    <3> SUFFICES ASSUME n # ptr PROVE FALSE
      OBVIOUS
    <3>1. ptr - n \in 1 .. Len(u) /\ ptr \in n .. l
      <4> HIDE DEF l, u
      <4> QED
        BY <2>1, <2>4, <2>5
    <3>2. h \o SubSeq(u, 1, ptr - n) \in r.head
      BY <1>2, <2>3, <3>1
    <3> HIDE DEF h, u
    <3> QED
      BY <1>5, <2>3, <3>1, <3>2 DEF Dangerous
  <2>7. full.cp = begin + l
    BY <1>2, <1>5 DEF TrailOf, Keeps
  <2> QED
    BY <1>3, <2>3, <2>6, <2>7
<1> QED
  BY <1>4, <1>5

\* yy_state_ptr never runs below yy_state_buf, however often actions use
\* REJECT, and stays in step with yy_cp; between tokens nothing is looked for.
THEOREM TypesHold == Spec => []RejectTypeOK
<1>1. IInv => RejectTypeOK
  BY TypesFollow
<1> QED
  BY <1>1, Invariance, PTL

\* The action is that of the best match, and after each REJECT that of the next
\* best one: the longest, and of the longest the rule that comes first.
THEOREM NextBestHolds == Spec => []NextBest
<1>1. IInv => NextBest
  BY BestFollows
<1> QED
  BY <1>1, Invariance, PTL

\* yytext of a rule with trailing context is a head of the rule; the rest of
\* the match is a trail, unless the trailing context is dangerous.
THEOREM TrailingContextHolds == Spec => []TrailingContextCut
<1>1. IInv => TrailingContextCut
  BY CutFollows
<1> QED
  BY <1>1, Invariance, PTL
=============================================================================
