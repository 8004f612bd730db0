---------------------------- MODULE ScannerProofs ----------------------------
(***************************************************************************)
(* Proofs about a generated scanner, whatever the rules, the sizes, the    *)
(* matching loop, the reads and the calls of the actions: it keeps inside  *)
(* its buffer, where the text it has read is always followed by both       *)
(* marks; its tokens are those that module Lexer promises; and yylineno    *)
(* counts what has been read.  The scanners are those that save the state  *)
(* before every NUL (NulsSaved), as all do without a yy_NUL_trans.         *)
(***************************************************************************)
EXTENDS Scanner, NumberLemmas, FiniteSetTheorems, SequenceTheorems

----------------------------------------------------------------------------
(* The automaton                                                           *)

States == DOMAIN Delta \cup {Jam}
AllStates == States \cup {EobState}

\* States, rules and what stands for none of them are numbers apart.
LEMMA Numbering ==
  /\ DOMAIN Delta \subseteq Nat \ {0} /\ Rules \subseteq Nat \ {0}
  /\ EobState \in Nat /\ EobState \notin States /\ Jam \notin DOMAIN Delta
  /\ YY_END_OF_BUFFER \notin Rules \cup {0}
<1>1. ASSUME NEW S, IsFiniteSet(S), S = 1 .. Cardinality(S), S # {}
      PROVE  S \subseteq Nat \ {0} /\ Max(S) \in S /\ 1 + Max(S) \notin S
  <2>1. Cardinality(S) \in Nat
    BY <1>1, FS_CardinalityType
  <2>2. S \subseteq Int /\ \A y \in S : y <= Cardinality(S)
    BY <1>1, <2>1
  <2>3. Max(S) \in S /\ \A y \in S : y <= Max(S)
    BY <1>1, <2>1, <2>2, MaxIs
  <2>4. S \subseteq Nat \ {0}
    BY <1>1, <2>1
  <2>5. 1 + Max(S) \notin S
    <3> SUFFICES ASSUME NEW y \in S, y = 1 + Max(S) PROVE FALSE
      OBVIOUS
    <3>1. y <= Max(S) /\ Max(S) \in Nat
      BY <2>3, <2>4
    <3> QED
      BY <3>1
  <2> QED
    BY <2>3, <2>4, <2>5
<1>2. DOMAIN Delta \subseteq Nat \ {0} /\ Max(DOMAIN Delta) \in DOMAIN Delta
      /\ EobState \notin DOMAIN Delta
  BY <1>1, AutomatonAssumption DEF EobState
<1>3. Rules \subseteq Nat \ {0} /\ Max(Rules) \in Rules /\ YY_END_OF_BUFFER \notin Rules
  BY <1>1, AutomatonAssumption DEF YY_END_OF_BUFFER
<1>4. EobState \in Nat /\ EobState # Jam
  BY <1>2 DEF EobState, Jam
<1>5. YY_END_OF_BUFFER # 0
  <2>1. Max(Rules) \in Nat \ {0}
    BY <1>3
  <2> QED
    BY <2>1 DEF YY_END_OF_BUFFER
<1> QED
  BY <1>2, <1>3, <1>4, <1>5 DEF States, Jam

\* What yy_accept holds for the states, the jam and the end-of-buffer state.
LEMMA YyAcceptIs ==
  /\ \A s \in AllStates : /\ YyAccept(s) \in Rules \cup {0, YY_END_OF_BUFFER}
                          /\ YyAccept(s) \in Rules => s \in DOMAIN Delta
                          /\ YyAccept(s) = YY_END_OF_BUFFER <=> s = EobState
  /\ YyAccept(Jam) = 0 /\ YyAccept(Start) = 0
<1>1. Start \in DOMAIN Delta /\ Accept[Start] = 0
  BY AutomatonAssumption
<1>2. \A s \in DOMAIN Delta : Accept[s] \in Rules \cup {0}
  BY AutomatonAssumption
<1> QED
  BY <1>1, <1>2, Numbering DEF YyAccept, AllStates, States

\* A step of the matching loop, on a NUL and on another character.
LEMMA NextStateIs ==
  /\ \A s \in AllStates, c \in Chars : NextState(s, c) \in AllStates
  /\ \A s \in AllStates : NextState(s, NUL) \in {EobState, Jam}
  /\ \A c : NextState(Jam, c) = Jam /\ NextState(EobState, c) = Jam
  /\ \A c \in Chars : YyAccept(NextState(Start, c)) # 0
<1>1. \A s \in DOMAIN Delta : \A c \in Chars : Delta[s][c] \in States
  BY AutomatonAssumption DEF States
<1>2. ASSUME NEW c \in Chars PROVE YyAccept(NextState(Start, c)) # 0
  <2>1. Start \in DOMAIN Delta /\ Delta[Start][c] # Jam /\ Accept[Delta[Start][c]] # 0
    BY AutomatonAssumption
  <2>2. Start \notin {Jam, EobState}
    BY <2>1, Numbering DEF States
  <2>3. CASE c = NUL
    <3>1. NextState(Start, c) = EobState
      BY <2>2, <2>3 DEF NextState
    <3> QED
      BY <3>1, Numbering DEF YyAccept
  <2>4. CASE c # NUL
    <3>1. NextState(Start, c) = Delta[Start][c]
      BY <2>2, <2>4 DEF NextState
    <3>2. Delta[Start][c] # EobState
      BY <1>1, <2>1, Numbering
    <3> QED
      BY <2>1, <3>1, <3>2 DEF YyAccept
  <2> QED
    BY <2>3, <2>4
<1> QED
  BY <1>1, <1>2, Numbering DEF NextState, AllStates, States

\* A step of yy_get_previous_state() never leads to the end-of-buffer state.
LEMMA ReplayStateIs ==
  /\ \A s \in States, c \in Chars : ReplayState(s, c) \in States
  /\ \A c \in Chars : YyAccept(ReplayState(Start, c)) \in Rules
<1>1. \A s \in DOMAIN Delta : \A c \in Chars : Delta[s][c] \in States
  BY AutomatonAssumption DEF States
<1>2. NUL \in Chars
  BY CharsAssumption
<1>3. \A s \in States, c \in Chars :
        ReplayState(s, c) = IF s = Jam THEN Jam ELSE Delta[s][c]
  BY Numbering DEF ReplayState, NulState, NextState, States
<1>4. ASSUME NEW c \in Chars PROVE YyAccept(ReplayState(Start, c)) \in Rules
  <2>1. /\ Start \in DOMAIN Delta /\ Delta[Start][c] # Jam /\ Accept[Delta[Start][c]] # 0
        /\ \A s \in DOMAIN Delta : Accept[s] \in Rules \cup {0}
    BY AutomatonAssumption
  <2>2. ReplayState(Start, c) = Delta[Start][c]
    BY <1>3, <2>1, Numbering DEF States
  <2>3. Delta[Start][c] \in DOMAIN Delta
    BY <1>1, <2>1 DEF States
  <2> QED
    BY <2>1, <2>2, <2>3, Numbering DEF YyAccept, States
<1>5. ASSUME NEW s \in States, NEW c \in Chars PROVE ReplayState(s, c) \in States
  BY <1>1, <1>3 DEF States
<1> QED
  BY <1>4, <1>5

----------------------------------------------------------------------------
(* Runs of the automaton                                                   *)

\* Both kinds of run at once.
Trans(replay, s, c) == IF replay THEN ReplayState(s, c) ELSE NextState(s, c)
Runs(replay, ch, i, s, m, f) ==
  f = [p \in i .. m |-> IF p = i THEN s ELSE Trans(replay, f[p - 1], ch[p - 1])]

\* There is a run of the automaton over any text.
LEMMA RunExists ==
  ASSUME NEW replay, NEW ch, NEW i \in Nat, NEW s, NEW m \in Nat, i <= m
  PROVE  \E f : Runs(replay, ch, i, s, m, f)
<1> DEFINE P == {k \in Nat : \E f : Runs(replay, ch, i, s, i + k, f)}
<1>1. 0 \in P
  <2> DEFINE f == [p \in i .. i |-> s]
  <2>1. Runs(replay, ch, i, s, i + 0, f)
    BY DEF Runs
  <2> QED
    BY <2>1
<1>2. ASSUME NEW k \in Nat, k \in P PROVE k + 1 \in P
  <2>1. PICK f : Runs(replay, ch, i, s, i + k, f)
    BY <1>2
  <2> DEFINE h == [p \in i .. i + k + 1 |->
                     IF p = i + k + 1 THEN Trans(replay, f[p - 1], ch[p - 1]) ELSE f[p]]
  <2>2. \A p \in i .. i + k : f[p] = IF p = i THEN s ELSE Trans(replay, f[p - 1], ch[p - 1])
    BY <2>1 DEF Runs
  <2>3. \A p \in i .. i + k : h[p] = f[p]
    OBVIOUS
  <2>4. ASSUME NEW p \in i .. i + k + 1
        PROVE  h[p] = IF p = i THEN s ELSE Trans(replay, h[p - 1], ch[p - 1])
    <3>1. CASE p = i
      BY <2>2, <2>3, <3>1
    <3>2. CASE p # i
      <4>1. p - 1 \in i .. i + k
        BY <3>2
      <4>2. h[p - 1] = f[p - 1]
        BY <2>3, <4>1
      <4>3. h[p] = Trans(replay, f[p - 1], ch[p - 1])
        <5>1. CASE p = i + k + 1
          BY <5>1
        <5>2. CASE p # i + k + 1
          BY <2>2, <2>3, <3>2, <5>2
        <5> QED
          BY <5>1, <5>2
      <4> QED
        BY <3>2, <4>2, <4>3
    <3> QED
      BY <3>1, <3>2
  <2>5. h = [p \in i .. i + k + 1 |-> h[p]]
    OBVIOUS
  <2> HIDE DEF h
  <2>6. Runs(replay, ch, i, s, i + (k + 1), h)
    <3>1. i + (k + 1) = i + k + 1
      OBVIOUS
    <3> QED
      BY <2>4, <2>5, <3>1 DEF Runs
  <2> QED
    BY <2>6
<1> HIDE DEF P
<1>3. m - i \in P
  BY <1>1, <1>2, SetInduction
<1>4. m - i \in P => \E f : Runs(replay, ch, i, s, i + (m - i), f)
  BY DEF P
<1>5. i + (m - i) = m
  OBVIOUS
<1> QED
  BY <1>3, <1>4, <1>5

\* yy_ch_buf with two marks behind the first n characters.
Marked(ch, size, n) ==
  /\ size \in Nat /\ n \in 0 .. size
  /\ DOMAIN ch = 0 .. size + 1 /\ ch[n] = NUL /\ ch[n + 1] = NUL
\* From lo on they are characters.
Holds(ch, lo, n) == lo \in 0 .. n /\ \A i \in lo .. n - 1 : ch[i] \in Chars

\* The last index of a buffer.
LEMMA MaxOfCells == ASSUME NEW size \in Nat PROVE Max(0 .. size + 1) = size + 1
<1>1. Max(0 .. size + 1) \in 0 .. size + 1 /\ \A y \in 0 .. size + 1 : y <= Max(0 .. size + 1)
  BY MaxIs
<1>2. size + 1 \in 0 .. size + 1
  OBVIOUS
<1> QED
  BY <1>1, <1>2

\* The paths of the matching loop and of a replay, one transition at a time.
LEMMA PathIs ==
  ASSUME NEW ch, NEW size \in Nat, DOMAIN ch = 0 .. size + 1, NEW i \in 0 .. size + 2, NEW s
  PROVE  /\ LET st == MatchPath(ch, i, s)
            IN  st[i] = s /\ \A p \in i + 1 .. size + 2 : st[p] = NextState(st[p - 1], ch[p - 1])
         /\ LET st == ReplayPath(ch, i, s)
            IN  st[i] = s /\ \A p \in i + 1 .. size + 2 : st[p] = ReplayState(st[p - 1], ch[p - 1])
<1>1. Max(DOMAIN ch) + 1 = size + 2 /\ i \in Nat /\ size + 2 \in Nat /\ i <= size + 2
  BY MaxOfCells
<1>2. PICK f : Runs(FALSE, ch, i, s, size + 2, f)
  BY <1>1, RunExists
<1>3. f = [p \in i .. Max(DOMAIN ch) + 1 |-> IF p = i THEN s ELSE NextState(f[p - 1], ch[p - 1])]
  BY <1>1, <1>2 DEF Runs, Trans
<1> DEFINE st == MatchPath(ch, i, s)
<1>4. st = [p \in i .. Max(DOMAIN ch) + 1 |-> IF p = i THEN s ELSE NextState(st[p - 1], ch[p - 1])]
  BY <1>3 DEF MatchPath, ReplayPath, Path
<1>5. PICK h : Runs(TRUE, ch, i, s, size + 2, h)
  BY <1>1, RunExists
<1>6. h = [p \in i .. Max(DOMAIN ch) + 1 |-> IF p = i THEN s ELSE ReplayState(h[p - 1], ch[p - 1])]
  BY <1>1, <1>5 DEF Runs, Trans
<1> DEFINE rt == ReplayPath(ch, i, s)
<1>7. rt = [p \in i .. Max(DOMAIN ch) + 1 |-> IF p = i THEN s ELSE ReplayState(rt[p - 1], ch[p - 1])]
  BY <1>6 DEF MatchPath, ReplayPath, Path
<1> HIDE DEF st, rt
<1>8. st[i] = s /\ \A p \in i + 1 .. size + 2 : st[p] = NextState(st[p - 1], ch[p - 1])
  BY <1>1, <1>4
<1>9. rt[i] = s /\ \A p \in i + 1 .. size + 2 : rt[p] = ReplayState(rt[p - 1], ch[p - 1])
  BY <1>1, <1>7
<1> QED
  BY <1>8, <1>9 DEF st, rt

\* The matching loop comes to the first mark at the latest, and jams behind it.
LEMMA RunToMark ==
  ASSUME NEW ch, NEW size, NEW n, Marked(ch, size, n), NEW cp, Holds(ch, cp, n), NEW s \in States
  PROVE  LET st == MatchPath(ch, cp, s)
         IN  /\ st[cp] = s
             /\ \A p \in cp .. n + 2 : st[p] \in AllStates
             /\ st[n + 1] \in {EobState, Jam} /\ st[n + 2] = Jam
             /\ \A p \in cp .. n + 1 : st[p + 1] = NextState(st[p], ch[p])
             /\ s = Start => YyAccept(st[cp + 1]) # 0
<1> DEFINE st == MatchPath(ch, cp, s)
<1>1. size \in Nat /\ n \in 0 .. size /\ cp \in 0 .. n /\ cp \in 0 .. size + 2 /\ n \in Nat /\ cp \in Nat
  BY DEF Marked, Holds
<1>2. /\ st[cp] = s
      /\ \A p \in cp + 1 .. size + 2 : st[p] = NextState(st[p - 1], ch[p - 1])
  <2>1. DOMAIN ch = 0 .. size + 1
    BY DEF Marked
  <2>2. size \in Nat /\ cp \in 0 .. size + 2
    BY <1>1
  <2> QED
    BY <2>1, <2>2, PathIs
<1> HIDE DEF st
<1>3. ASSUME NEW p \in cp .. n + 1 PROVE st[p + 1] = NextState(st[p], ch[p])
  <2>1. p + 1 \in cp + 1 .. size + 2 /\ (p + 1) - 1 = p
    BY <1>1
  <2> QED
    BY <1>2, <2>1
<1>4. \A p \in cp .. n + 1 : ch[p] \in Chars
  <2>1. NUL \in Chars /\ ch[n] = NUL /\ ch[n + 1] = NUL
    BY CharsAssumption DEF Marked
  <2>2. \A p \in cp .. n - 1 : ch[p] \in Chars
    BY DEF Holds
  <2>3. \A p \in cp .. n + 1 : p \in cp .. n - 1 \/ p = n \/ p = n + 1
    BY <1>1
  <2> QED
    BY <2>1, <2>2, <2>3
<1>5. ASSUME NEW p \in cp .. n + 2 PROVE st[p] \in AllStates
  <2> DEFINE P == {k \in Nat : cp + k <= n + 2 => st[cp + k] \in AllStates}
  <2>1. 0 \in P
    BY <1>1, <1>2 DEF AllStates
  <2>2. ASSUME NEW k \in Nat, k \in P PROVE k + 1 \in P
    <3> SUFFICES ASSUME cp + (k + 1) <= n + 2 PROVE st[cp + (k + 1)] \in AllStates
      OBVIOUS
    <3>1. cp + k \in cp .. n + 1 /\ cp + (k + 1) = (cp + k) + 1
      BY <1>1
    <3>2. st[cp + k] \in AllStates
      BY <1>1, <2>2, <3>1
    <3> QED
      BY <1>3, <1>4, <3>1, <3>2, NextStateIs
  <2> HIDE DEF P
  <2>3. p - cp \in P
    BY <1>1, <2>1, <2>2, SetInduction
  <2>4. cp + (p - cp) = p
    BY <1>1
  <2> QED
    BY <1>1, <2>3, <2>4 DEF P
<1>6. n \in cp .. n + 1 /\ n + 1 \in cp .. n + 1 /\ (n + 1) + 1 = n + 2 /\ cp \in cp .. n + 1
  BY <1>1
<1>7. st[n + 1] \in {EobState, Jam}
  <2>1. st[n + 1] = NextState(st[n], NUL)
    BY <1>3, <1>6 DEF Marked
  <2>2. st[n] \in AllStates
    BY <1>1, <1>5
  <2> QED
    BY <2>1, <2>2, NextStateIs
<1>8. st[n + 2] = Jam
  BY <1>3, <1>6, <1>7, NextStateIs
<1>9. s = Start => YyAccept(st[cp + 1]) # 0
  BY <1>2, <1>3, <1>4, <1>6, NextStateIs
<1> QED
  BY <1>2, <1>3, <1>5, <1>7, <1>8, <1>9 DEF st

\* yy_get_previous_state() goes over characters only.
LEMMA ReplayOverText ==
  ASSUME NEW ch, NEW size, NEW n, Marked(ch, size, n), NEW bp, Holds(ch, bp, n), NEW end \in bp .. n
  PROVE  LET st == ReplayPath(ch, bp, Start)
         IN  /\ st[bp] = Start
             /\ \A p \in bp .. end : st[p] \in States
             /\ end > bp => YyAccept(st[bp + 1]) \in Rules
<1> DEFINE st == ReplayPath(ch, bp, Start)
<1>1. size \in Nat /\ n \in 0 .. size /\ bp \in 0 .. n /\ bp \in 0 .. size + 2 /\ n \in Nat /\ bp \in Nat
      /\ end \in Nat
  BY DEF Marked, Holds
<1>2. /\ st[bp] = Start
      /\ \A p \in bp + 1 .. size + 2 : st[p] = ReplayState(st[p - 1], ch[p - 1])
  <2>1. DOMAIN ch = 0 .. size + 1
    BY DEF Marked
  <2> QED
    BY <1>1, <2>1, PathIs
<1> HIDE DEF st
<1>3. ASSUME NEW p \in bp .. end - 1 PROVE st[p + 1] = ReplayState(st[p], ch[p])
  <2>1. p + 1 \in bp + 1 .. size + 2 /\ (p + 1) - 1 = p
    BY <1>1
  <2> QED
    BY <1>2, <2>1
<1>4. \A p \in bp .. end - 1 : ch[p] \in Chars
  BY <1>1 DEF Holds
<1>5. ASSUME NEW p \in bp .. end PROVE st[p] \in States
  <2> DEFINE P == {k \in Nat : bp + k <= end => st[bp + k] \in States}
  <2>1. 0 \in P
    BY <1>1, <1>2, AutomatonAssumption DEF States
  <2>2. ASSUME NEW k \in Nat, k \in P PROVE k + 1 \in P
    <3> SUFFICES ASSUME bp + (k + 1) <= end PROVE st[bp + (k + 1)] \in States
      OBVIOUS
    <3>1. bp + k \in bp .. end - 1 /\ bp + (k + 1) = (bp + k) + 1
      BY <1>1
    <3>2. st[bp + k] \in States
      BY <1>1, <2>2, <3>1
    <3> QED
      BY <1>3, <1>4, <3>1, <3>2, ReplayStateIs
  <2> HIDE DEF P
  <2>3. p - bp \in P
    BY <1>1, <2>1, <2>2, SetInduction
  <2>4. bp + (p - bp) = p
    BY <1>1
  <2> QED
    BY <1>1, <2>3, <2>4 DEF P
<1>6. end > bp => YyAccept(st[bp + 1]) \in Rules
  <2>1. end > bp => bp \in bp .. end - 1
    BY <1>1
  <2> QED
    BY <1>2, <1>3, <1>4, <2>1, ReplayStateIs
<1> QED
  BY <1>2, <1>5, <1>6 DEF st

\* The places of a run at which gen_backing_up() looks.
Places(first, last) == IF mode = "full" THEN first + 1 .. last ELSE first .. last - 1
At(st, q) == [state |-> st[q], cpos |-> IF mode = "full" THEN q - 1 ELSE q]

\* gen_backing_up() keeps the old pair or sets it at an accepting place.
LEMMA LastIs ==
  ASSUME NEW first \in Nat, NEW last \in Nat, NEW st, NEW old
  PROVE  LET la == LastAccepting(st, first, last, old)
         IN  \/ la = old /\ \A q \in Places(first, last) : YyAccept(st[q]) = 0
             \/ \E q \in Places(first, last) : YyAccept(st[q]) # 0 /\ la = At(st, q)
<1> DEFINE qs == {q \in Places(first, last) : YyAccept(st[q]) # 0}
<1>1. qs = IF mode = "full" THEN {q \in first + 1 .. last : YyAccept(st[q]) # 0}
           ELSE {q \in first .. last - 1 : YyAccept(st[q]) # 0}
  BY DEF Places
<1>2. LastAccepting(st, first, last, old) =
        IF qs = {} THEN old
        ELSE [state |-> st[Max(qs)], cpos |-> IF mode = "full" THEN Max(qs) - 1 ELSE Max(qs)]
  BY <1>1 DEF LastAccepting
<1>3. CASE qs = {}
  BY <1>2, <1>3
<1>4. CASE qs # {}
  <2>1. qs \subseteq Int /\ last \in Int /\ \A q \in qs : q <= last
    BY DEF Places
  <2> HIDE DEF qs
  <2>2. Max(qs) \in qs
    BY <1>4, <2>1, MaxIs
  <2>3. Max(qs) \in Places(first, last) /\ YyAccept(st[Max(qs)]) # 0
    BY <2>2 DEF qs
  <2> QED
    BY <1>2, <1>4, <2>3 DEF At
<1> QED
  BY <1>3, <1>4

----------------------------------------------------------------------------
(* The locals of yylex()                                                   *)

Locals(r) ==
  /\ DOMAIN r = {"cp", "bp", "cs", "last", "intact"}
  /\ r.cp \in Nat /\ r.bp \in Nat /\ r.cs \in AllStates /\ r.intact \in BOOLEAN
  /\ DOMAIN r.last = {"state", "cpos"} /\ r.last.state \in AllStates /\ r.last.cpos \in Nat

\* There is a match to back up to, not behind index hi.
LastOK(r, hi) == YyAccept(r.last.state) \in Rules /\ BackUpTo(r.last) \in r.bp + 1 .. hi
Accepts(r) == mode # "full" /\ YyAccept(r.cs) \in Rules

\* The matching loop can go on with r: at the first character of the token, or
\* with a match known.
Ready(r) ==
  \/ r.cp = r.bp /\ r.cs = Start
  \/ r.cp > r.bp /\ (LastOK(r, r.cp) \/ Accepts(r))

\* What yy_find_action finds is a match in the text, or a NUL or mark.
FoundIn(r) ==
  IF YyAccept(r.cs) # 0 THEN [act |-> YyAccept(r.cs), cp |-> r.cp]
  ELSE [act |-> YyAccept(r.last.state), cp |-> BackUpTo(r.last)]
Settled(r, n) ==
  \/ FoundIn(r).act \in Rules /\ FoundIn(r).cp \in r.bp + 1 .. n
  \/ FoundIn(r).act = YY_END_OF_BUFFER /\ FoundIn(r).cp \in r.bp + 1 .. n + 1

\* A scan that accepts, or that knows where to back up to, finds its action.
LEMMA Settles ==
  ASSUME NEW r, NEW n \in Nat, r.bp \in Nat, r.cp \in r.bp + 1 .. n, r.cs \in States,
         LastOK(r, n) \/ Accepts(r)
  PROVE  Settled(r, n)
<1>1. YyAccept(r.cs) # 0 => YyAccept(r.cs) \in Rules
  BY YyAcceptIs, Numbering DEF AllStates
<1>2. 0 \notin Rules
  BY Numbering
<1> QED
  BY <1>1, <1>2 DEF Settled, FoundIn, LastOK, Accepts

\* What yy_get_previous_state() leaves.
LEMMA ReplayIs ==
  ASSUME NEW ch, NEW size, NEW n, Marked(ch, size, n), NEW bp, Holds(ch, bp, n),
         NEW end \in bp .. n, Locals(l)
  PROVE  LET r == Replay(ch, bp, end)
         IN  /\ Locals(r) /\ r.bp = bp /\ r.cp = end /\ r.intact = l.intact /\ r.cs \in States
             /\ Ready(r)
             /\ end > bp + 1 => LastOK(r, end)
<1> DEFINE st == ReplayPath(ch, bp, Start)
           la == LastAccepting(st, bp, end, l.last)
           r == Replay(ch, bp, end)
<1>1. n \in Nat /\ bp \in Nat /\ end \in Nat /\ bp <= end /\ end <= n
  BY DEF Marked, Holds
<1>2. /\ st[bp] = Start
      /\ \A p \in bp .. end : st[p] \in States
      /\ end > bp => YyAccept(st[bp + 1]) \in Rules
  BY ReplayOverText
<1>3. \/ la = l.last /\ \A q \in Places(bp, end) : YyAccept(st[q]) = 0
      \/ \E q \in Places(bp, end) : YyAccept(st[q]) # 0 /\ la = At(st, q)
  BY <1>1, LastIs
<1>4. r = [l EXCEPT !.bp = bp, !.cp = end, !.cs = st[end], !.last = la]
  BY DEF Replay
<1> HIDE DEF st, la, r
<1>5. /\ DOMAIN r = DOMAIN l /\ r.bp = bp /\ r.cp = end /\ r.cs = st[end] /\ r.last = la
      /\ r.intact = l.intact
  BY <1>4 DEF Locals
<1>6. Places(bp, end) \subseteq bp .. end
  BY <1>1 DEF Places
<1>7. ASSUME NEW q \in Places(bp, end), YyAccept(st[q]) # 0, la = At(st, q)
      PROVE  /\ DOMAIN la = {"state", "cpos"} /\ la.state \in AllStates /\ la.cpos \in Nat
             /\ LastOK(r, end)
  <2>1. q \in bp .. end /\ st[q] \in States /\ YyAccept(st[q]) \in Rules
    BY <1>2, <1>6, <1>7, YyAcceptIs, Numbering DEF AllStates
  <2>2. q # bp
    BY <1>2, <1>7, YyAcceptIs
  <2>3. BackUpTo(la) = q /\ la.state = st[q] /\ DOMAIN la = {"state", "cpos"} /\ la.cpos \in {q - 1, q}
    BY <1>1, <1>7, <2>1 DEF At, BackUpTo
  <2>4. q - 1 \in Nat /\ q \in Nat
    BY <1>1, <2>1, <2>2
  <2> QED
    BY <1>1, <1>5, <2>1, <2>2, <2>3, <2>4 DEF LastOK, AllStates
<1>8. Locals(r)
  <2>1. DOMAIN la = {"state", "cpos"} /\ la.state \in AllStates /\ la.cpos \in Nat
    BY <1>3, <1>7 DEF Locals
  <2>2. st[end] \in AllStates
    BY <1>1, <1>2 DEF AllStates
  <2> QED
    BY <1>1, <1>5, <2>1, <2>2 DEF Locals
<1>9. ASSUME end > bp, mode = "full" \/ end > bp + 1 PROVE LastOK(r, end)
  <2>1. bp + 1 \in Places(bp, end)
    BY <1>1, <1>9 DEF Places
  <2>2. YyAccept(st[bp + 1]) # 0
    BY <1>2, <1>9, Numbering
  <2> QED
    BY <1>3, <1>7, <2>1, <2>2
<1>10. Ready(r)
  <2>1. CASE end = bp
    BY <1>2, <1>5, <2>1 DEF Ready
  <2>2. CASE end > bp /\ (mode = "full" \/ end > bp + 1)
    BY <1>5, <1>9, <2>2 DEF Ready
  <2>3. CASE end = bp + 1 /\ mode # "full"
    BY <1>1, <1>2, <1>5, <2>3 DEF Ready, Accepts
  <2> QED
    BY <1>1, <2>1, <2>2, <2>3
<1>11. st[end] \in States
  BY <1>1, <1>2
<1> QED
  BY <1>1, <1>5, <1>8, <1>9, <1>10, <1>11 DEF r

\* The matching loop ends with a match, a NUL or a mark found.
LEMMA MatchIs ==
  ASSUME Match, mode \in Modes, Locals(l), l.cs \in States, Ready(l), l.bp <= l.cp,
         NEW size, NEW n, Marked(b.ch_buf, size, n), Holds(b.ch_buf, l.cp, n)
  PROVE  /\ Locals(l') /\ l'.bp = l.bp /\ l'.cp <= n + 1
         /\ Settled(l', n)
<1> DEFINE ch == b.ch_buf
           st == MatchPath(ch, l.cp, l.cs)
           whole == {p \in l.cp .. Max(DOMAIN ch) : NextState(st[p], ch[p]) = Jam}
           packed == {p \in l.cp + 1 .. Max(DOMAIN ch) + 1 : st[p] = Jam}
           waiting == {p \in l.cp + 1 .. Max(DOMAIN ch) + 1 : OnlyJams(st[p])}
           end == CASE mode = "full" -> Min(whole) [] mode = "compressed" -> Min(packed)
                    [] mode = "interactive" -> Min(waiting)
           la == LastAccepting(st, l.cp, end, l.last)
           r == [l EXCEPT !.last = la,
                          !.cp = IF mode = "compressed" THEN la.cpos ELSE end,
                          !.cs = IF mode = "compressed" THEN la.state ELSE st[end]]
<1>1. l' = r
  BY DEF Match
<1>2. /\ st[l.cp] = l.cs
      /\ \A p \in l.cp .. n + 2 : st[p] \in AllStates
      /\ st[n + 1] \in {EobState, Jam} /\ st[n + 2] = Jam
      /\ \A p \in l.cp .. n + 1 : st[p + 1] = NextState(st[p], ch[p])
      /\ l.cs = Start => YyAccept(st[l.cp + 1]) # 0
  BY RunToMark
<1> HIDE DEF st
<1>3. /\ size \in Nat /\ n \in 0 .. size /\ l.cp \in 0 .. n /\ n \in Nat /\ l.cp \in Nat /\ l.bp \in Nat
      /\ Max(DOMAIN ch) = size + 1
  BY MaxOfCells DEF Marked, Holds, Locals
<1>4. mode \in {"full", "compressed", "interactive"}
  BY ModesAssumption
\* Where the loop ends, and that it has left the start state by then.
<1>5. mode = "full" => end \in l.cp .. n + 1 /\ st[end + 1] = Jam
  <2>1. SUFFICES ASSUME mode = "full" PROVE end \in l.cp .. n + 1 /\ st[end + 1] = Jam
    OBVIOUS
  <2>2. whole \subseteq Int /\ l.cp \in Int /\ \A y \in whole : l.cp <= y
    BY <1>3
  <2>3. n + 1 \in whole
    <3>1. n + 1 \in l.cp .. n + 1 /\ n + 1 \in l.cp .. Max(DOMAIN ch) /\ (n + 1) + 1 = n + 2
      BY <1>3
    <3>2. NextState(st[n + 1], ch[n + 1]) = Jam
      BY <1>2, <3>1
    <3> QED
      BY <3>1, <3>2
  <2> HIDE DEF whole
  <2>4. PICK m \in whole : m = Min(whole) /\ \A y \in whole : m <= y
    BY <2>2, <2>3, MinIs
  <2>5. end = m
    BY <2>1, <2>4
  <2>6. m <= n + 1
    BY <2>3, <2>4
  <2>7. m \in l.cp .. n + 1 /\ NextState(st[m], ch[m]) = Jam
    BY <1>3, <2>6 DEF whole
  <2> HIDE DEF end
  <2> QED
    BY <1>2, <2>5, <2>7
<1>6. mode = "compressed" => end \in l.cp + 1 .. n + 2 /\ st[end] = Jam
  <2>1. SUFFICES ASSUME mode = "compressed" PROVE end \in l.cp + 1 .. n + 2 /\ st[end] = Jam
    OBVIOUS
  <2>2. packed \subseteq Int /\ l.cp + 1 \in Int /\ \A y \in packed : l.cp + 1 <= y
    BY <1>3
  <2>3. n + 2 \in packed
    BY <1>2, <1>3
  <2> HIDE DEF packed
  <2>4. PICK m \in packed : m = Min(packed) /\ \A y \in packed : m <= y
    BY <2>2, <2>3, MinIs
  <2>5. end = m
    BY <2>1, <2>4
  <2>6. m <= n + 2
    BY <2>3, <2>4
  <2> HIDE DEF end
  <2> QED
    BY <1>3, <2>5, <2>6 DEF packed
<1>7. mode = "interactive" => end \in l.cp + 1 .. n + 1
  <2>1. SUFFICES ASSUME mode = "interactive" PROVE end \in l.cp + 1 .. n + 1
    OBVIOUS
  <2>2. waiting \subseteq Int /\ l.cp + 1 \in Int /\ \A y \in waiting : l.cp + 1 <= y
    BY <1>3
  <2>3. n + 1 \in waiting
    BY <1>2, <1>3 DEF OnlyJams
  <2> HIDE DEF waiting
  <2>4. PICK m \in waiting : m = Min(waiting) /\ \A y \in waiting : m <= y
    BY <2>2, <2>3, MinIs
  <2>5. end = m
    BY <2>1, <2>4
  <2>6. m <= n + 1
    BY <2>3, <2>4
  <2> HIDE DEF end
  <2> QED
    BY <1>3, <2>5, <2>6 DEF waiting
<1> HIDE DEF whole, packed, waiting, end
<1>8. end \in l.cp .. n + 2 /\ end \in Nat /\ (mode # "compressed" => end <= n + 1)
  BY <1>3, <1>4, <1>5, <1>6, <1>7
<1>9. \/ la = l.last /\ \A q \in Places(l.cp, end) : YyAccept(st[q]) = 0
      \/ \E q \in Places(l.cp, end) : YyAccept(st[q]) # 0 /\ la = At(st, q)
  BY <1>3, <1>8, LastIs
<1> HIDE DEF la
<1>10. Places(l.cp, end) \subseteq l.cp .. n + 1
  BY <1>3, <1>4, <1>5, <1>6, <1>7 DEF Places
<1>11. /\ DOMAIN r = DOMAIN l /\ r.bp = l.bp /\ r.last = la /\ r.intact = l.intact
       /\ r.cp = IF mode = "compressed" THEN la.cpos ELSE end
       /\ r.cs = IF mode = "compressed" THEN la.state ELSE st[end]
  BY DEF Locals
<1> HIDE DEF r
\* An accepting place of the run.
<1>12. ASSUME NEW q \in l.cp .. n + 1, YyAccept(st[q]) # 0
       PROVE  /\ q \in l.bp + 1 .. n + 1
              /\ \/ YyAccept(st[q]) \in Rules /\ q <= n
                 \/ YyAccept(st[q]) = YY_END_OF_BUFFER
  <2>1. st[q] \in AllStates
    BY <1>2, <1>3
  <2>2. YyAccept(st[q]) \in Rules => q # n + 1
    BY <1>2, YyAcceptIs, Numbering DEF AllStates
  <2>3. q # l.bp
    BY <1>2, <1>3, <1>12, YyAcceptIs DEF Ready
  <2> QED
    BY <1>3, <1>12, <2>1, <2>2, <2>3, YyAcceptIs
<1>13. ASSUME NEW q \in Places(l.cp, end), YyAccept(st[q]) # 0, la = At(st, q)
       PROVE  /\ DOMAIN la = {"state", "cpos"} /\ la.state = st[q] /\ la.cpos \in Nat
              /\ BackUpTo(la) = q /\ q \in l.cp .. n + 1 /\ (mode # "full" => la.cpos = q)
  <2>1. q \in l.cp .. n + 1 /\ q \in l.bp + 1 .. n + 1
    BY <1>10, <1>12, <1>13
  <2>2. q - 1 \in Nat /\ q \in Nat
    BY <1>3, <2>1
  <2> QED
    BY <1>13, <2>1, <2>2 DEF At, BackUpTo
<1>14. DOMAIN la = {"state", "cpos"} /\ la.state \in AllStates /\ la.cpos \in Nat
  BY <1>2, <1>3, <1>9, <1>13 DEF Locals
\* When the run adds no match, there was one before.
<1>15. ASSUME \A q \in Places(l.cp, end) : YyAccept(st[q]) = 0,
              mode # "compressed" => YyAccept(st[end]) = 0
       PROVE  LastOK(l, l.cp) /\ l.cp > l.bp
  <2>1. ASSUME l.cs = Start PROVE FALSE
    <3>1. YyAccept(st[l.cp + 1]) # 0 /\ st[l.cp + 1] # Jam /\ YyAccept(st[l.cp]) = 0
      BY <1>2, <2>1, YyAcceptIs
    <3>2. CASE mode = "full"
      <4>1. end # l.cp
        BY <1>5, <3>1, <3>2
      <4>2. l.cp + 1 \in Places(l.cp, end)
        BY <1>3, <1>8, <3>2, <4>1 DEF Places
      <4> QED
        BY <1>15, <3>1, <4>2
    <3>3. CASE mode = "compressed"
      <4>1. end # l.cp + 1
        BY <1>6, <3>1, <3>3
      <4>2. l.cp + 1 \in Places(l.cp, end)
        BY <1>3, <1>6, <3>3, <4>1 DEF Places
      <4> QED
        BY <1>15, <3>1, <4>2
    <3>4. CASE mode = "interactive"
      <4>1. end # l.cp + 1
        BY <1>15, <3>1, <3>4
      <4>2. l.cp + 1 \in Places(l.cp, end)
        BY <1>3, <1>7, <3>4, <4>1 DEF Places
      <4> QED
        BY <1>15, <3>1, <4>2
    <3> QED
      BY <1>4, <3>2, <3>3, <3>4
  <2>2. ASSUME Accepts(l) PROVE FALSE
    <3>1. mode # "full" /\ YyAccept(st[l.cp]) # 0
      BY <1>2, <2>2, Numbering DEF Accepts
    <3>2. l.cp \in Places(l.cp, end)
      BY <1>3, <1>4, <1>6, <1>7, <3>1 DEF Places
    <3> QED
      BY <1>15, <3>1, <3>2
  <2> QED
    BY <2>1, <2>2 DEF Ready
<1>16. Locals(r) /\ r.cp <= n + 1
  <2>1. r.cs \in AllStates
    BY <1>2, <1>3, <1>8, <1>11, <1>14
  <2>2. r.cp \in Nat
    BY <1>8, <1>11, <1>14
  <2>3. mode = "compressed" => la.cpos <= n + 1
    <3>1. CASE la = l.last /\ \A q \in Places(l.cp, end) : YyAccept(st[q]) = 0
      BY <1>3, <1>15, <3>1 DEF LastOK, BackUpTo
    <3>2. CASE \E q \in Places(l.cp, end) : YyAccept(st[q]) # 0 /\ la = At(st, q)
      BY <1>3, <1>13, <3>2
    <3> QED
      BY <1>9, <3>1, <3>2
  <2>4. r.cp <= n + 1
    BY <1>8, <1>11, <2>3
  <2> QED
    BY <1>3, <1>11, <1>14, <2>1, <2>2, <2>4 DEF Locals
<1>17. Settled(r, n)
  <2>1. CASE mode # "compressed" /\ YyAccept(st[end]) # 0
    <3>1. FoundIn(r) = [act |-> YyAccept(st[end]), cp |-> end]
      BY <1>11, <2>1 DEF FoundIn
    <3>2. end \in l.cp .. n + 1
      BY <1>3, <1>8, <2>1
    <3> QED
      BY <1>3, <1>11, <1>12, <2>1, <3>1, <3>2 DEF Settled
  <2>2. CASE ~(mode # "compressed" /\ YyAccept(st[end]) # 0)
    <3>1. FoundIn(r).act = YyAccept(la.state) /\ FoundIn(r).cp = BackUpTo(la)
      BY <1>11, <2>2 DEF FoundIn, BackUpTo
    <3>2. CASE \E q \in Places(l.cp, end) : YyAccept(st[q]) # 0 /\ la = At(st, q)
      <4>1. PICK q \in Places(l.cp, end) : YyAccept(st[q]) # 0 /\ la = At(st, q)
        BY <3>2
      <4>2. la.state = st[q] /\ BackUpTo(la) = q /\ q \in l.cp .. n + 1
        BY <1>13, <4>1
      <4> QED
        BY <1>3, <1>11, <1>12, <3>1, <4>1, <4>2 DEF Settled
    <3>3. CASE la = l.last /\ \A q \in Places(l.cp, end) : YyAccept(st[q]) = 0
      <4>1. LastOK(l, l.cp)
        BY <1>15, <2>2, <3>3
      <4> QED
        BY <1>3, <1>11, <3>1, <3>3, <4>1 DEF Settled, LastOK
    <3> QED
      BY <1>9, <3>2, <3>3
  <2> QED
    BY <2>1, <2>2
<1> QED
  BY <1>1, <1>11, <1>16, <1>17

----------------------------------------------------------------------------
(* yy_get_next_buffer() and yyrestart()                                    *)

BufferShape(bb) ==
  /\ DOMAIN bb = {"ch_buf", "buf_size", "n_chars", "fill", "status"}
  /\ bb.buf_size \in Nat /\ DOMAIN bb.ch_buf = 0 .. bb.buf_size + 1
  /\ bb.fill \in BOOLEAN /\ bb.status \in {"NEW", "NORMAL", "EOF_PENDING"}
  /\ bb.fill => bb.buf_size > 0
GlobalsShape(gg) ==
  /\ DOMAIN gg = {"n_chars", "c_buf_p", "text_ptr", "hold_char", "more_flag", "more_len", "lineno"}
  /\ gg.more_flag \in BOOLEAN /\ gg.more_len \in Nat
StreamShape(y) ==
  /\ DOMAIN y = {"cur", "next", "eof"}
  /\ y.cur \in Seq(Chars) /\ y.next \in Seq(Seq(Chars))
  /\ y.eof \in BOOLEAN /\ (y.eof => y.cur = <<>>)
Over(y) == y.cur = <<>> /\ y.next = <<>>

\* What yyrestart() leaves: an empty buffer, marked, that will be filled.
LEMMA RestartIs ==
  ASSUME NEW bb, BufferShape(bb), bb.fill, NEW gg, GlobalsShape(gg)
  PROVE  LET r == Restart(bb, gg)
         IN  /\ BufferShape(r.b) /\ GlobalsShape(r.g)
             /\ r.b.fill /\ r.b.buf_size = bb.buf_size /\ r.b.n_chars = 0 /\ r.b.status = "NEW"
             /\ Marked(r.b.ch_buf, bb.buf_size, 0)
             /\ \A i \in DOMAIN bb.ch_buf : r.b.ch_buf[i] \in {NUL, bb.ch_buf[i]}
             /\ r.g.n_chars = 0 /\ r.g.c_buf_p = 0 /\ r.g.text_ptr = 0 /\ r.g.hold_char = NUL
             /\ r.g.more_flag = gg.more_flag /\ r.g.more_len = gg.more_len
<1> DEFINE r == Restart(bb, gg)
<1>1. r = [b |-> [bb EXCEPT !.n_chars = 0, !.ch_buf[0] = NUL, !.ch_buf[1] = NUL,
                            !.fill = TRUE, !.status = "NEW"],
           g |-> [gg EXCEPT !.n_chars = 0, !.text_ptr = 0, !.c_buf_p = 0, !.hold_char = NUL]]
  BY DEF Restart
<1> HIDE DEF r
<1>2. DOMAIN bb.ch_buf = 0 .. bb.buf_size + 1 /\ bb.buf_size \in Nat /\ bb.buf_size > 0
  BY DEF BufferShape
<1>3. /\ DOMAIN r.b = DOMAIN bb /\ r.b.fill /\ r.b.fill \in BOOLEAN
      /\ r.b.buf_size = bb.buf_size /\ r.b.n_chars = 0 /\ r.b.status = "NEW"
      /\ r.b.ch_buf = [[bb.ch_buf EXCEPT ![0] = NUL] EXCEPT ![1] = NUL]
  BY <1>1 DEF BufferShape
<1>4. /\ DOMAIN r.b.ch_buf = 0 .. bb.buf_size + 1 /\ r.b.ch_buf[0] = NUL /\ r.b.ch_buf[1] = NUL
      /\ \A i \in DOMAIN bb.ch_buf : r.b.ch_buf[i] \in {NUL, bb.ch_buf[i]}
  BY <1>2, <1>3
<1>5. /\ r.g.n_chars = 0 /\ r.g.c_buf_p = 0 /\ r.g.text_ptr = 0 /\ r.g.hold_char = NUL
      /\ r.g.more_flag = gg.more_flag /\ r.g.more_len = gg.more_len /\ GlobalsShape(r.g)
  BY <1>1 DEF GlobalsShape
<1>6. BufferShape(r.b)
  BY <1>2, <1>3, <1>4 DEF BufferShape
<1>7. Marked(r.b.ch_buf, bb.buf_size, 0)
  BY <1>2, <1>4 DEF Marked
<1> QED
  BY <1>3, <1>4, <1>5, <1>6, <1>7 DEF r

\* The buffer is doubled until there is room for a character.
Doubles(size, m, f) == f = [n \in 0 .. m |-> IF n = 0 THEN size ELSE 2 * f[n - 1]]

\* There is a sequence of doubled sizes.
LEMMA DoublesExists ==
  ASSUME NEW size, NEW m \in Nat
  PROVE  \E f : Doubles(size, m, f)
<1> DEFINE P == {k \in Nat : \E f : Doubles(size, k, f)}
<1>1. 0 \in P
  <2> DEFINE f == [n \in 0 .. 0 |-> size]
  <2>1. Doubles(size, 0, f)
    BY DEF Doubles
  <2> QED
    BY <2>1
<1>2. ASSUME NEW k \in Nat, k \in P PROVE k + 1 \in P
  <2>1. PICK f : Doubles(size, k, f)
    BY <1>2
  <2> DEFINE h == [n \in 0 .. k + 1 |-> IF n = k + 1 THEN 2 * f[n - 1] ELSE f[n]]
  <2>2. \A n \in 0 .. k : f[n] = IF n = 0 THEN size ELSE 2 * f[n - 1]
    BY <2>1 DEF Doubles
  <2>3. \A n \in 0 .. k : h[n] = f[n]
    OBVIOUS
  <2>4. ASSUME NEW n \in 0 .. k + 1
        PROVE  h[n] = IF n = 0 THEN size ELSE 2 * h[n - 1]
    <3>1. CASE n = 0
      BY <2>2, <2>3, <3>1
    <3>2. CASE n # 0
      <4>1. n - 1 \in 0 .. k
        BY <3>2
      <4>2. h[n - 1] = f[n - 1]
        BY <2>3, <4>1
      <4>3. h[n] = 2 * f[n - 1]
        <5>1. CASE n = k + 1
          BY <5>1
        <5>2. CASE n # k + 1
          BY <2>2, <2>3, <3>2, <5>2
        <5> QED
          BY <5>1, <5>2
      <4> QED
        BY <3>2, <4>2, <4>3
    <3> QED
      BY <3>1, <3>2
  <2>5. h = [n \in 0 .. k + 1 |-> h[n]]
    OBVIOUS
  <2> HIDE DEF h
  <2>6. Doubles(size, k + 1, h)
    BY <2>4, <2>5 DEF Doubles
  <2> QED
    BY <2>6
<1> HIDE DEF P
<1>3. m \in P
  BY <1>1, <1>2, SetInduction
<1> QED
  BY <1>3 DEF P

\* The buffer grows until something can be read.
LEMMA GrownSizeIs ==
  ASSUME NEW size \in Nat \ {0}, NEW moved \in Nat
  PROVE  GrownSize(size, moved) \in Nat /\ GrownSize(size, moved) >= size
         /\ GrownSize(size, moved) > moved + 1
<1>1. \E f : Doubles(size, moved + 1, f)
  BY DoublesExists
<1>2. PICK sz : /\ Doubles(size, moved + 1, sz)
                /\ GrownSize(size, moved) = sz[Min({n \in 0 .. moved + 1 : sz[n] - moved - 1 > 0})]
  BY <1>1 DEF GrownSize, Doubles
<1>3. sz[0] = size /\ \A n \in 1 .. moved + 1 : sz[n] = 2 * sz[n - 1]
  BY <1>2 DEF Doubles
<1>4. ASSUME NEW n \in 0 .. moved + 1
      PROVE  sz[n] \in Nat /\ sz[n] >= size /\ sz[n] >= n + 1
  <2> DEFINE P == {k \in Nat : k <= moved + 1 => sz[k] \in Nat /\ sz[k] >= size /\ sz[k] >= k + 1}
  <2>1. 0 \in P
    BY <1>3
  <2>2. ASSUME NEW k \in Nat, k \in P PROVE k + 1 \in P
    <3> SUFFICES ASSUME k + 1 <= moved + 1
                 PROVE  sz[k + 1] \in Nat /\ sz[k + 1] >= size /\ sz[k + 1] >= (k + 1) + 1
      OBVIOUS
    <3>1. sz[k] \in Nat /\ sz[k] >= size /\ sz[k] >= k + 1
      BY <2>2
    <3>2. sz[k + 1] = 2 * sz[k]
      BY <1>3
    <3> QED
      BY <3>1, <3>2
  <2> HIDE DEF P
  <2>3. n \in P
    BY <2>1, <2>2, SetInduction
  <2> QED
    BY <2>3 DEF P
<1> DEFINE S == {n \in 0 .. moved + 1 : sz[n] - moved - 1 > 0}
<1>5. moved + 1 \in S
  BY <1>4
<1>6. S \subseteq Int /\ 0 \in Int /\ \A y \in S : 0 <= y
  OBVIOUS
<1> HIDE DEF S
<1>7. PICK n \in S : n = Min(S)
  BY <1>5, <1>6, MinIs
<1>8. n \in 0 .. moved + 1 /\ sz[n] - moved - 1 > 0
  BY DEF S
<1>9. GrownSize(size, moved) = sz[n]
  BY <1>2, <1>7 DEF S
<1> QED
  BY <1>4, <1>8, <1>9

\* A read has room, if there is one.
LEMMA SizeIs ==
  ASSUME BufferShape(b), NEW gg, MovedChars(gg) \in 0 .. b.buf_size
  PROVE  /\ SizeToRead(gg) \in Nat /\ SizeToRead(gg) >= b.buf_size
         /\ CanRead => SizeToRead(gg) >= MovedChars(gg) + 2
<1>1. b.buf_size \in Nat /\ (CanRead => b.buf_size \in Nat \ {0}) /\ MovedChars(gg) \in Nat
  BY DEF BufferShape, CanRead
<1>2. CASE CanRead /\ b.buf_size - MovedChars(gg) - 1 <= 0
  <2>1. SizeToRead(gg) = GrownSize(b.buf_size, MovedChars(gg))
    BY <1>2 DEF SizeToRead
  <2> DEFINE grown == GrownSize(b.buf_size, MovedChars(gg))
  <2>2. grown \in Nat /\ grown >= b.buf_size /\ grown > MovedChars(gg) + 1
    BY <1>1, <1>2, GrownSizeIs
  <2> HIDE DEF grown
  <2>3. SizeToRead(gg) = grown
    BY <2>1 DEF grown
  <2> QED
    BY <1>1, <2>2, <2>3
<1>3. CASE ~(CanRead /\ b.buf_size - MovedChars(gg) - 1 <= 0)
  <2>1. SizeToRead(gg) = b.buf_size
    BY <1>3 DEF SizeToRead
  <2> QED
    BY <1>1, <1>3, <2>1
<1> QED
  BY <1>2, <1>3

\* The stream after a read; a read of no characters ends a segment.
LEMMA ReadIs ==
  ASSUME BufferShape(b), b.fill, StreamShape(yyin), b.status = "EOF_PENDING" => yyin.cur = <<>>,
         NEW gg, MovedChars(gg) \in 0 .. b.buf_size, NEW k \in Reads(gg)
  PROVE  /\ k \in Nat
         /\ k # 0 => /\ CanRead /\ MovedChars(gg) + k + 1 <= SizeToRead(gg)
                     /\ \A i \in 1 .. k : Stream.cur[i] \in Chars
         /\ StreamShape(AfterRead(k))
         /\ k = 0 => AfterRead(k).cur = <<>>
         /\ yyin.next = <<>> => AfterRead(k).next = <<>>
         /\ yyin.cur = <<>> /\ yyin.next = <<>> => k = 0
         /\ k = 0 /\ yyin.cur # <<>> => yyin.next = <<>>
<1> DEFINE room == SizeToRead(gg) - MovedChars(gg) - 1
           most == {room, YY_READ_BUF_SIZE, Len(Stream.cur)}
<1>1. /\ StreamShape(Stream) /\ (yyin.next = <<>> => Stream = yyin) /\ (yyin.cur # <<>> => Stream = yyin)
  <2>1. CASE yyin.eof /\ yyin.next # <<>>
    <3>1. Stream = [cur |-> Head(yyin.next), next |-> Tail(yyin.next), eof |-> FALSE]
      BY <2>1 DEF Stream
    <3>2. yyin.next \in Seq(Seq(Chars)) /\ yyin.next # <<>> /\ yyin.cur = <<>>
      BY <2>1 DEF StreamShape
    <3>3. Head(yyin.next) \in Seq(Chars) /\ Tail(yyin.next) \in Seq(Seq(Chars))
      <4> DEFINE C == Seq(Chars)
      <4>1. \A q \in Seq(C) : q # <<>> => Head(q) \in C /\ Tail(q) \in Seq(C)
        <5> HIDE DEF C
        <5> QED
          OBVIOUS
      <4> QED
        BY <3>2, <4>1
    <3> QED
      BY <3>1, <3>2, <3>3, <2>1 DEF StreamShape
  <2>2. CASE ~(yyin.eof /\ yyin.next # <<>>)
    BY <2>2 DEF Stream
  <2> QED
    BY <2>1, <2>2
<1>2. SizeToRead(gg) \in Nat /\ MovedChars(gg) \in Nat /\ room \in Int
  BY SizeIs DEF BufferShape
<1>3. Stream.cur \in Seq(Chars) /\ Len(Stream.cur) \in Nat
  BY <1>1 DEF StreamShape
<1>4. CASE ~CanRead
  <2>1. k = 0 /\ AfterRead(k) = yyin
    BY <1>4 DEF Reads, AfterRead
  <2>2. yyin.cur = <<>>
    BY <1>4 DEF CanRead
  <2> QED
    BY <2>1, <2>2
<1>5. CASE CanRead /\ Stream.cur = <<>>
  <2>1. k = 0 /\ AfterRead(k) = [Stream EXCEPT !.cur = SubSeq(@, k + 1, Len(@)), !.eof = (k = 0)]
    BY <1>5 DEF Reads, AfterRead
  <2>2. SubSeq(Stream.cur, k + 1, Len(Stream.cur)) = <<>>
    BY <1>5, <2>1
  <2>3. AfterRead(k) = [Stream EXCEPT !.cur = <<>>, !.eof = TRUE]
    BY <2>1, <2>2
  <2>4. StreamShape(AfterRead(k)) /\ AfterRead(k).cur = <<>> /\ AfterRead(k).next = Stream.next
    BY <1>1, <1>3, <1>5, <2>3 DEF StreamShape
  <2> QED
    BY <1>1, <1>5, <2>1, <2>4
<1>6. CASE CanRead /\ Stream.cur # <<>>
  <2>1. k \in 1 .. Min(most) /\ AfterRead(k) = [Stream EXCEPT !.cur = SubSeq(@, k + 1, Len(@)), !.eof = (k = 0)]
    BY <1>6 DEF Reads, AfterRead
  <2>2. Min(most) \in Int /\ Min(most) <= room /\ Min(most) <= Len(Stream.cur)
    <3> DEFINE least == IF room < YY_READ_BUF_SIZE
                        THEN IF room < Len(Stream.cur) THEN room ELSE Len(Stream.cur)
                        ELSE IF YY_READ_BUF_SIZE < Len(Stream.cur) THEN YY_READ_BUF_SIZE ELSE Len(Stream.cur)
    <3> HIDE DEF room
    <3>1. YY_READ_BUF_SIZE \in Int /\ room \in Int
      BY <1>2, SizeAssumption
    <3>2. most \subseteq Int /\ least \in Int /\ \A y \in most : least <= y
      BY <1>3, <3>1
    <3>3. room \in most /\ Len(Stream.cur) \in most
      OBVIOUS
    <3> HIDE DEF most, least
    <3> QED
      BY <3>2, <3>3, MinIs
  <2> HIDE DEF most
  <2>3. k \in Nat /\ k # 0 /\ k <= room /\ k <= Len(Stream.cur)
    BY <1>2, <1>3, <2>1, <2>2
  <2>4. MovedChars(gg) + k + 1 <= SizeToRead(gg)
    BY <1>2, <2>3
  <2>5. \A i \in 1 .. k : Stream.cur[i] \in Chars
    BY <1>3, <2>3
  <2>6. SubSeq(Stream.cur, k + 1, Len(Stream.cur)) \in Seq(Chars)
    BY <1>3, <2>3
  <2>7. AfterRead(k) = [Stream EXCEPT !.cur = SubSeq(Stream.cur, k + 1, Len(Stream.cur)), !.eof = FALSE]
    BY <2>1, <2>3
  <2>8. StreamShape(AfterRead(k)) /\ AfterRead(k).next = Stream.next
    BY <1>1, <2>6, <2>7 DEF StreamShape
  <2> QED
    BY <1>1, <1>6, <2>3, <2>4, <2>5, <2>8
<1> QED
  BY <1>4, <1>5, <1>6

\* Where the text that is moved, and the characters that are read, come to.
Copied(ch2, ch, tp, move, cur, k) ==
  /\ \A i \in 0 .. move - 1 : ch2[i] = ch[tp + i]
  /\ \A i \in 1 .. k : ch2[move + i - 1] = cur[i]

\* What yy_get_next_buffer() leaves, for each of its answers.
LEMMA NextBufferIs ==
  ASSUME BufferShape(b), b.fill, StreamShape(yyin), b.status = "EOF_PENDING" => yyin.cur = <<>>,
         NEW gg, GlobalsShape(gg), Marked(b.ch_buf, b.buf_size, gg.n_chars),
         Holds(b.ch_buf, gg.text_ptr, gg.n_chars), gg.c_buf_p \in gg.text_ptr + 1 .. gg.n_chars + 1,
         NEW k \in Reads(gg)
  PROVE  LET r == NextBuffer(gg, k)
             move == MovedChars(gg)
         IN  /\ BufferShape(r.b) /\ r.b.fill /\ r.b.buf_size >= b.buf_size
             /\ GlobalsShape(r.g) /\ r.g.text_ptr = 0
             /\ r.g.more_flag = gg.more_flag /\ r.g.more_len = gg.more_len
             /\ r.g.n_chars = move + k
             /\ Marked(r.b.ch_buf, r.b.buf_size, r.g.n_chars) /\ Holds(r.b.ch_buf, 0, r.g.n_chars)
             /\ \/ r.ret = "CONTINUE_SCAN" /\ k # 0 /\ r.b.status = b.status /\ r.b.n_chars = k
                \/ /\ r.ret = "LAST_MATCH" /\ k = 0 /\ move # gg.more_len
                   /\ r.b.status = "EOF_PENDING"
                \/ /\ r.ret = "END_OF_FILE" /\ k = 0 /\ move = gg.more_len
                   /\ r.b.status = "NEW" /\ r.b.n_chars = 0 /\ r.g.hold_char = NUL /\ r.g.c_buf_p = 0
             /\ r.ret # "END_OF_FILE" => Copied(r.b.ch_buf, b.ch_buf, gg.text_ptr, move, Stream.cur, k)
<1> DEFINE move == MovedChars(gg)
           size == SizeToRead(gg)
           n == IF CanRead THEN k ELSE 0
           ch == [i \in Cells(size) |->
                    IF i < move THEN b.ch_buf[gg.text_ptr + i]
                    ELSE IF i < move + n THEN Stream.cur[i - move + 1]
                    ELSE IF i \in DOMAIN b.ch_buf THEN b.ch_buf[i] ELSE Undef]
           rb == [b EXCEPT !.ch_buf = ch, !.buf_size = size, !.n_chars = n]
           rg == [gg EXCEPT !.n_chars = n]
           eof == IF move = gg.more_len THEN Restart(rb, rg)
                  ELSE [b |-> [rb EXCEPT !.status = "EOF_PENDING"], g |-> rg]
           got == IF n = 0 THEN eof ELSE [b |-> rb, g |-> rg]
           total == got.g.n_chars + move
           r == NextBuffer(gg, k)
<1>1. /\ b.buf_size \in Nat /\ gg.n_chars \in 0 .. b.buf_size /\ gg.text_ptr \in 0 .. gg.n_chars
      /\ gg.n_chars \in Nat /\ gg.text_ptr \in Nat /\ gg.c_buf_p \in Nat
      /\ gg.c_buf_p <= gg.n_chars + 1 /\ gg.text_ptr + 1 <= gg.c_buf_p
  BY DEF BufferShape, Marked, Holds
<1>2. move = gg.c_buf_p - gg.text_ptr - 1 /\ move \in Nat /\ move <= gg.n_chars /\ move \in 0 .. b.buf_size
      /\ gg.text_ptr + move <= gg.n_chars
  BY <1>1 DEF MovedChars
<1>3. /\ k \in Nat
      /\ k # 0 => CanRead /\ move + k + 1 <= size /\ \A i \in 1 .. k : Stream.cur[i] \in Chars
  BY <1>2, ReadIs
<1>4. size \in Nat /\ size >= b.buf_size
  BY <1>2, SizeIs
<1>5. r = [ret |-> IF n # 0 THEN "CONTINUE_SCAN"
                   ELSE IF move = gg.more_len THEN "END_OF_FILE" ELSE "LAST_MATCH",
           b |-> [got.b EXCEPT !.ch_buf[total] = NUL, !.ch_buf[total + 1] = NUL],
           g |-> [got.g EXCEPT !.n_chars = total, !.text_ptr = 0]]
  <2>1. ~(gg.c_buf_p > gg.n_chars + 1)
    BY <1>1
  <2> QED
    BY <2>1 DEF NextBuffer
<1>0. n = k
  BY <1>3
<1> HIDE DEF n
<1> HIDE DEF move, size, r
<1>6. DOMAIN ch = 0 .. size + 1 /\ \A i \in 0 .. move + k - 1 : ch[i] \in Chars
  <2>1. DOMAIN ch = 0 .. size + 1
    BY DEF Cells
  <2>2. ASSUME NEW i \in 0 .. move + k - 1 PROVE ch[i] \in Chars
    <3>1. i \in 0 .. size + 1
      BY <1>1, <1>2, <1>3, <1>4
    <3>2. CASE i < move
      <4>1. gg.text_ptr + i \in gg.text_ptr .. gg.n_chars - 1
        BY SMTT(60), <1>1, <1>2, <3>2
      <4>2. ch[i] = b.ch_buf[gg.text_ptr + i]
        BY <3>1, <3>2 DEF Cells
      <4> QED
        BY <4>1, <4>2 DEF Holds
    <3>3. CASE ~(i < move)
      <4>1. k # 0 /\ i - move + 1 \in 1 .. k /\ i < move + k
        BY <1>2, <1>3, <3>3
      <4>2. ch[i] = Stream.cur[i - move + 1]
        BY <1>0, <3>1, <3>3, <4>1 DEF Cells
      <4> QED
        BY <1>3, <4>1, <4>2
    <3> QED
      BY <3>2, <3>3
  <2> QED
    BY <2>1, <2>2
<1>17. Copied(ch, b.ch_buf, gg.text_ptr, move, Stream.cur, k)
  <2>1. ASSUME NEW i \in 0 .. move - 1 PROVE ch[i] = b.ch_buf[gg.text_ptr + i]
    <3>1. i \in 0 .. size + 1 /\ i < move
      BY <1>1, <1>2, <1>4
    <3> QED
      BY <3>1 DEF Cells
  <2>2. ASSUME NEW i \in 1 .. k PROVE ch[move + i - 1] = Stream.cur[i]
    <3> DEFINE j == move + i - 1
    <3>1. j \in 0 .. size + 1 /\ ~(j < move) /\ j < move + k /\ j - move + 1 = i
      BY <1>2, <1>3, <1>4
    <3> HIDE DEF j
    <3>2. ch[j] = Stream.cur[j - move + 1]
      BY <1>0, <3>1 DEF Cells
    <3> QED
      BY <3>1, <3>2 DEF j
  <2> HIDE DEF ch
  <2> QED
    BY <2>1, <2>2 DEF Copied
<1> HIDE DEF ch
<1>7. /\ BufferShape(rb) /\ rb.fill /\ rb.ch_buf = ch /\ rb.buf_size = size /\ rb.n_chars = k
      /\ rb.status = b.status
      /\ GlobalsShape(rg) /\ rg.n_chars = k /\ rg.more_flag = gg.more_flag /\ rg.more_len = gg.more_len
  <2>1. /\ DOMAIN rb = DOMAIN b /\ rb.fill = b.fill /\ rb.ch_buf = ch /\ rb.buf_size = size
        /\ rb.n_chars = k /\ rb.status = b.status
    BY <1>0 DEF BufferShape
  <2>2. GlobalsShape(rg) /\ rg.n_chars = k /\ rg.more_flag = gg.more_flag /\ rg.more_len = gg.more_len
    BY <1>0 DEF GlobalsShape
  <2> HIDE DEF rb
  <2>3. BufferShape(rb)
    BY <1>1, <1>4, <1>6, <2>1 DEF BufferShape
  <2> QED
    BY <2>1, <2>2, <2>3
<1> HIDE DEF rb, rg
\* What comes of the read, before the marks are written.
<1>8. /\ BufferShape(got.b) /\ got.b.fill /\ got.b.buf_size = size
      /\ GlobalsShape(got.g) /\ got.g.n_chars = k
      /\ got.g.more_flag = gg.more_flag /\ got.g.more_len = gg.more_len
      /\ \A i \in 0 .. move + k - 1 : got.b.ch_buf[i] \in Chars
      /\ \/ k # 0 /\ got.b.status = b.status /\ got.b.n_chars = k
         \/ k = 0 /\ move # gg.more_len /\ got.b.status = "EOF_PENDING"
         \/ /\ k = 0 /\ move = gg.more_len /\ got.b.status = "NEW" /\ got.b.n_chars = 0
            /\ got.g.hold_char = NUL /\ got.g.c_buf_p = 0
  <2>1. CASE k # 0
    <3>1. got = [b |-> rb, g |-> rg]
      BY <1>0, <2>1
    <3> HIDE DEF got
    <3> QED
      BY <1>6, <1>7, <2>1, <3>1
  <2>2. CASE k = 0 /\ move # gg.more_len
    <3>1. got = [b |-> [rb EXCEPT !.status = "EOF_PENDING"], g |-> rg]
      BY <1>0, <2>2
    <3> HIDE DEF got
    <3> QED
      BY <1>6, <1>7, <2>2, <3>1 DEF BufferShape
  <2>3. CASE k = 0 /\ move = gg.more_len
    <3>1. got = Restart(rb, rg)
      BY <1>0, <2>3
    <3> DEFINE re == Restart(rb, rg)
    <3>2. /\ BufferShape(re.b) /\ GlobalsShape(re.g)
          /\ re.b.fill /\ re.b.buf_size = size /\ re.b.n_chars = 0 /\ re.b.status = "NEW"
          /\ \A i \in DOMAIN ch : re.b.ch_buf[i] \in {NUL, ch[i]}
          /\ re.g.n_chars = 0 /\ re.g.c_buf_p = 0 /\ re.g.hold_char = NUL
          /\ re.g.more_flag = gg.more_flag /\ re.g.more_len = gg.more_len
      <4>1. /\ BufferShape(re.b) /\ GlobalsShape(re.g)
            /\ re.b.fill /\ re.b.buf_size = rb.buf_size /\ re.b.n_chars = 0 /\ re.b.status = "NEW"
            /\ \A i \in DOMAIN rb.ch_buf : re.b.ch_buf[i] \in {NUL, rb.ch_buf[i]}
            /\ re.g.n_chars = 0 /\ re.g.c_buf_p = 0 /\ re.g.hold_char = NUL
            /\ re.g.more_flag = rg.more_flag /\ re.g.more_len = rg.more_len
        <5>1. BufferShape(rb) /\ rb.fill /\ GlobalsShape(rg)
          BY <1>7
        <5>2. BufferShape(re.b) /\ GlobalsShape(re.g) /\ re.b.fill
          BY <5>1, RestartIs
        <5>3. re.b.buf_size = rb.buf_size /\ re.b.n_chars = 0 /\ re.b.status = "NEW"
          BY <5>1, RestartIs
        <5>4. \A i \in DOMAIN rb.ch_buf : re.b.ch_buf[i] \in {NUL, rb.ch_buf[i]}
          BY <5>1, RestartIs
        <5>5. re.g.n_chars = 0 /\ re.g.c_buf_p = 0 /\ re.g.hold_char = NUL
          BY <5>1, RestartIs
        <5>6. re.g.more_flag = rg.more_flag
          BY <5>1, RestartIs
        <5>7. re.g.more_len = rg.more_len
          BY <5>1, RestartIs
        <5> HIDE DEF re
        <5> QED
          BY <5>2, <5>3, <5>4, <5>5, <5>6, <5>7
      <4> HIDE DEF re
      <4> QED
        BY <1>7, <4>1
    <3> HIDE DEF re
    <3>3. \A i \in 0 .. move + k - 1 : re.b.ch_buf[i] \in Chars
      <4>1. \A i \in 0 .. move + k - 1 : i \in DOMAIN ch
        BY <1>1, <1>2, <1>4, <1>6, <2>3
      <4> QED
        BY <1>6, <3>2, <4>1, CharsAssumption
    <3>4. got = re
      BY <3>1 DEF re
    <3> HIDE DEF got
    <3> QED
      BY <2>3, <3>2, <3>3, <3>4
  <2> QED
    BY <2>1, <2>2, <2>3
<1> HIDE DEF got
<1>9. total = move + k /\ total \in Nat /\ total <= size
  BY SMTT(60), <1>1, <1>2, <1>3, <1>4, <1>8
<1> HIDE DEF total
<1>10. /\ r.b.fill /\ r.b.buf_size = size /\ r.b.status = got.b.status /\ r.b.n_chars = got.b.n_chars
       /\ DOMAIN r.b = DOMAIN got.b /\ r.b.fill \in BOOLEAN
       /\ r.b.ch_buf = [[got.b.ch_buf EXCEPT ![total] = NUL] EXCEPT ![total + 1] = NUL]
  BY <1>5, <1>8 DEF BufferShape
<1>11. DOMAIN got.b.ch_buf = 0 .. size + 1
  BY <1>8 DEF BufferShape
<1>12. /\ DOMAIN r.b.ch_buf = 0 .. size + 1 /\ r.b.ch_buf[total] = NUL /\ r.b.ch_buf[total + 1] = NUL
       /\ \A i \in 0 .. total - 1 : r.b.ch_buf[i] = got.b.ch_buf[i]
  BY <1>4, <1>9, <1>10, <1>11
<1>13. BufferShape(r.b) /\ Marked(r.b.ch_buf, r.b.buf_size, total) /\ Holds(r.b.ch_buf, 0, total)
  <2>1. BufferShape(r.b)
    BY <1>4, <1>8, <1>10, <1>12 DEF BufferShape
  <2>2. Marked(r.b.ch_buf, r.b.buf_size, total)
    BY <1>4, <1>9, <1>10, <1>12 DEF Marked
  <2>3. Holds(r.b.ch_buf, 0, total)
    <3>1. \A i \in 0 .. total - 1 : i \in 0 .. move + k - 1
      BY <1>2, <1>3, <1>9
    <3>2. 0 \in 0 .. total
      BY <1>9
    <3> QED
      BY <1>8, <1>12, <3>1, <3>2 DEF Holds
  <2> QED
    BY <2>1, <2>2, <2>3
<1>14. /\ GlobalsShape(r.g) /\ r.g.text_ptr = 0 /\ r.g.n_chars = total
       /\ r.g.more_flag = gg.more_flag /\ r.g.more_len = gg.more_len
       /\ r.g.hold_char = got.g.hold_char /\ r.g.c_buf_p = got.g.c_buf_p
  BY <1>5, <1>8 DEF GlobalsShape
<1>15. r.ret = IF k # 0 THEN "CONTINUE_SCAN"
               ELSE IF move = gg.more_len THEN "END_OF_FILE" ELSE "LAST_MATCH"
  BY <1>5, <1>0
<1>16. r.b.buf_size >= b.buf_size
  BY <1>4, <1>10
<1>18. r.ret # "END_OF_FILE" => Copied(r.b.ch_buf, b.ch_buf, gg.text_ptr, move, Stream.cur, k)
  <2> SUFFICES ASSUME r.ret # "END_OF_FILE"
               PROVE  Copied(r.b.ch_buf, b.ch_buf, gg.text_ptr, move, Stream.cur, k)
    OBVIOUS
  <2>1. got.b.ch_buf = ch
    <3>1. k # 0 \/ move # gg.more_len
      BY <1>15
    <3>2. rb.ch_buf = ch /\ DOMAIN rb = {"ch_buf", "buf_size", "n_chars", "fill", "status"}
      BY <1>7 DEF BufferShape
    <3>3. got.b = rb \/ got.b = [rb EXCEPT !.status = "EOF_PENDING"]
      BY <1>0, <3>1 DEF got
    <3> QED
      BY <3>2, <3>3
  <2>2. ASSUME NEW i \in 0 .. move + k - 1 PROVE r.b.ch_buf[i] = ch[i]
    BY <1>2, <1>3, <1>9, <1>12, <2>1, <2>2
  <2>3. ASSUME NEW i \in 0 .. move - 1 PROVE r.b.ch_buf[i] = b.ch_buf[gg.text_ptr + i]
    <3>1. i \in 0 .. move + k - 1
      BY <1>2, <1>3
    <3> QED
      BY <1>17, <2>2, <3>1 DEF Copied
  <2>4. ASSUME NEW i \in 1 .. k PROVE r.b.ch_buf[move + i - 1] = Stream.cur[i]
    <3>1. move + i - 1 \in 0 .. move + k - 1
      BY <1>2, <1>3
    <3> QED
      BY <1>17, <2>2, <3>1 DEF Copied
  <2> QED
    BY <2>3, <2>4 DEF Copied
<1> QED
  BY <1>8, <1>9, <1>10, <1>13, <1>14, <1>15, <1>16, <1>18 DEF move, r

----------------------------------------------------------------------------
(* The inductive invariant                                                 *)

Shapes ==
  /\ mode \in Modes /\ input \in Inputs
  /\ pc \in {"start", "match", "find", "eob", "action", "input", "eof", "fatal"}
  /\ BufferShape(b) /\ GlobalsShape(g) /\ Locals(l) /\ StreamShape(yyin)
InRange == g.c_buf_p \in 0 .. b.buf_size + 1 /\ l.cp <= b.buf_size + 1 /\ l.bp <= b.buf_size + 1

\* The text in the buffer is written, and followed by both marks.
Texts == Marked(Clean, b.buf_size, g.n_chars) /\ Holds(Clean, g.text_ptr, g.n_chars)

\* A buffer that waits for its last match, or is in memory, has nothing to read.
Sourced == (b.status = "EOF_PENDING" => yyin.cur = <<>>) /\ (~b.fill => Over(yyin))

\* The count that replaces the global one when a new buffer comes to its end
\* is the same, since new buffers are empty or nothing more can be read.
Fresh ==
  b.status = "NEW" =>
    /\ b.n_chars = g.n_chars \/ (pc = "eof" /\ g.more_len # 0)
    /\ b.fill => Over(yyin) \/ (g.n_chars = 0 /\ pc \in {"start", "match", "find", "eof"})

AtStart ==
  pc = "start" => Holds(Clean, g.c_buf_p, g.n_chars) /\ (g.more_flag => g.text_ptr <= g.c_buf_p)
InToken ==
  pc \in {"match", "find", "eob"} =>
    l.bp \in 0 .. g.n_chars /\ Holds(Clean, l.bp - g.more_len, g.n_chars) /\ ~g.more_flag
AtMatch == pc = "match" => l.cp \in l.bp .. g.n_chars /\ l.cs \in States /\ Ready(l)
AtFind == pc = "find" => Settled(l, g.n_chars)
AtEob ==
  pc = "eob" => /\ g.c_buf_p = l.cp /\ l.cp \in l.bp + 1 .. g.n_chars + 1
                /\ g.text_ptr = l.bp - g.more_len /\ b.status # "NEW"
                /\ g.hold_char = b.ch_buf[g.c_buf_p]
InCall ==
  pc \in {"action", "input"} =>
    /\ Holds(Clean, g.c_buf_p, g.n_chars)
    /\ g.n_chars - g.text_ptr > g.more_len \/ (g.n_chars = g.text_ptr /\ Over(yyin))
AtAction ==
  pc = "action" => /\ l.intact => g.text_ptr = l.bp - g.more_len /\ g.text_ptr <= g.c_buf_p
                   /\ g.more_flag => l.intact
AtInput ==
  pc = "input" => /\ ~g.more_flag /\ ~l.intact
                  /\ g.c_buf_p = g.n_chars => b.fill /\ (yyin.cur # <<>> \/ yyin.next = <<>>)
AtEof == pc = "eof" => Holds(Clean, g.c_buf_p, g.n_chars) /\ ~g.more_flag
Phases ==
  AtStart /\ InToken /\ AtMatch /\ AtFind /\ AtEob /\ InCall /\ AtAction /\ AtInput /\ AtEof

IInv == Shapes /\ InRange /\ Texts /\ Sourced /\ Fresh /\ Phases

\* The invariant bounds the pointers.
LEMMA InvTypes ==
  ASSUME IInv
  PROVE  /\ b.buf_size \in Nat /\ g.n_chars \in Nat /\ g.n_chars <= b.buf_size
         /\ g.text_ptr \in 0 .. g.n_chars /\ g.text_ptr \in Nat /\ g.c_buf_p \in Nat
         /\ g.more_len \in Nat /\ l.cp \in Nat /\ l.bp \in Nat
         /\ DOMAIN b.ch_buf = 0 .. b.buf_size + 1 /\ g.c_buf_p \in DOMAIN b.ch_buf
BY DEF IInv, Shapes, InRange, Texts, Marked, Holds, BufferShape, GlobalsShape, Locals

\* Marks and text are those of the cells.
LEMMA SameCells ==
  ASSUME NEW ch, NEW size, NEW n, Marked(ch, size, n),
         NEW ch2, DOMAIN ch2 = DOMAIN ch, \A i \in DOMAIN ch : ch2[i] = ch[i]
  PROVE  Marked(ch2, size, n) /\ \A lo : Holds(ch, lo, n) => Holds(ch2, lo, n)
<1>1. size \in Nat /\ n \in 0 .. size /\ DOMAIN ch = 0 .. size + 1 /\ n \in DOMAIN ch /\ n + 1 \in DOMAIN ch
  BY DEF Marked
<1>2. Marked(ch2, size, n)
  BY <1>1 DEF Marked
<1>3. ASSUME NEW lo, Holds(ch, lo, n) PROVE Holds(ch2, lo, n)
  <2>1. \A i \in lo .. n - 1 : i \in DOMAIN ch
    BY <1>1, <1>3 DEF Holds
  <2> QED
    BY <1>3, <2>1 DEF Holds
<1> QED
  BY <1>2, <1>3

\* YY_DO_BEFORE_ACTION hides a character where putting it back finds it.
LEMMA HiddenIs ==
  ASSUME NEW bb, BufferShape(bb), NEW gg, GlobalsShape(gg), NEW bp, NEW cp \in DOMAIN bb.ch_buf
  PROVE  LET d == DoBeforeAction(bb, gg, bp, cp)
             back == [d.b EXCEPT !.ch_buf[d.g.c_buf_p] = d.g.hold_char]
         IN  /\ BufferShape(d.b) /\ d.b.buf_size = bb.buf_size /\ d.b.n_chars = bb.n_chars
             /\ d.b.fill = bb.fill /\ d.b.status = bb.status
             /\ GlobalsShape(d.g) /\ d.g.n_chars = gg.n_chars /\ d.g.c_buf_p = cp
             /\ d.g.text_ptr = bp - gg.more_len /\ d.g.hold_char = bb.ch_buf[cp]
             /\ d.g.more_flag = gg.more_flag /\ d.g.more_len = gg.more_len
             /\ DOMAIN back.ch_buf = DOMAIN bb.ch_buf
             /\ \A i \in DOMAIN bb.ch_buf : back.ch_buf[i] = bb.ch_buf[i]
<1> DEFINE d == DoBeforeAction(bb, gg, bp, cp)
           back == [d.b EXCEPT !.ch_buf[d.g.c_buf_p] = d.g.hold_char]
<1>1. d = [b |-> [bb EXCEPT !.ch_buf[cp] = NUL],
           g |-> [gg EXCEPT !.text_ptr = bp - gg.more_len, !.hold_char = bb.ch_buf[cp], !.c_buf_p = cp]]
  BY DEF DoBeforeAction
<1> HIDE DEF d
<1>2. /\ BufferShape(d.b) /\ d.b.buf_size = bb.buf_size /\ d.b.n_chars = bb.n_chars
      /\ d.b.fill = bb.fill /\ d.b.status = bb.status
      /\ d.b.ch_buf = [bb.ch_buf EXCEPT ![cp] = NUL]
  BY <1>1 DEF BufferShape
<1>3. /\ GlobalsShape(d.g) /\ d.g.n_chars = gg.n_chars /\ d.g.c_buf_p = cp
      /\ d.g.text_ptr = bp - gg.more_len /\ d.g.hold_char = bb.ch_buf[cp]
      /\ d.g.more_flag = gg.more_flag /\ d.g.more_len = gg.more_len
  BY <1>1 DEF GlobalsShape
<1>4. back.ch_buf = [d.b.ch_buf EXCEPT ![cp] = bb.ch_buf[cp]]
  BY <1>2, <1>3 DEF BufferShape
<1> HIDE DEF back
<1>5. DOMAIN back.ch_buf = DOMAIN bb.ch_buf /\ \A i \in DOMAIN bb.ch_buf : back.ch_buf[i] = bb.ch_buf[i]
  BY <1>2, <1>4
<1> QED
  BY <1>2, <1>3, <1>5 DEF d, back

\* The buffer with the hidden character put back.
LEMMA RestoredIs ==
  ASSUME IInv
  PROVE  /\ BufferShape(Restored) /\ Restored.buf_size = b.buf_size /\ Restored.n_chars = b.n_chars
         /\ Restored.fill = b.fill /\ Restored.status = b.status
         /\ Restored.ch_buf = [b.ch_buf EXCEPT ![g.c_buf_p] = g.hold_char]
BY InvTypes DEF Restored, BufferShape, IInv, Shapes

----------------------------------------------------------------------------
(* Every step keeps it                                                     *)

\* The top of the loop keeps the invariant.
LEMMA StartTokenInv == ASSUME IInv, StartToken PROVE IInv'
<1>1. /\ pc = "start" /\ pc' = "match" /\ b' = Restored /\ mode' = mode /\ input' = input /\ yyin' = yyin
      /\ g' = [g EXCEPT !.more_len = IF g.more_flag THEN g.c_buf_p - g.text_ptr ELSE 0,
                        !.more_flag = FALSE]
      /\ l' = [l EXCEPT !.cp = g.c_buf_p, !.bp = g.c_buf_p, !.cs = Start]
  BY DEF StartToken, Kept
<1>2. Clean = Restored.ch_buf /\ Clean' = Restored.ch_buf
  BY <1>1 DEF Clean
<1>3. /\ Marked(Restored.ch_buf, b.buf_size, g.n_chars)
      /\ Holds(Restored.ch_buf, g.text_ptr, g.n_chars) /\ Holds(Restored.ch_buf, g.c_buf_p, g.n_chars)
      /\ g.more_flag => g.text_ptr <= g.c_buf_p
  BY <1>1, <1>2 DEF IInv, Texts, Phases, AtStart
<1>4. /\ g.c_buf_p \in 0 .. g.n_chars /\ g.n_chars <= b.buf_size /\ g.n_chars \in Nat /\ b.buf_size \in Nat
      /\ g.text_ptr \in Nat /\ g.c_buf_p \in Nat
  BY <1>3, InvTypes DEF Holds
<1>5. /\ GlobalsShape(g') /\ g'.n_chars = g.n_chars /\ g'.c_buf_p = g.c_buf_p /\ g'.text_ptr = g.text_ptr
      /\ ~g'.more_flag /\ g'.more_len = IF g.more_flag THEN g.c_buf_p - g.text_ptr ELSE 0
  BY <1>1, <1>3, <1>4 DEF IInv, Shapes, GlobalsShape
<1>6. /\ Locals(l') /\ l'.cp = g.c_buf_p /\ l'.bp = g.c_buf_p /\ l'.cs = Start
  BY <1>1, <1>4, AutomatonAssumption DEF IInv, Shapes, Locals, AllStates, States
<1>7. Shapes' /\ InRange' /\ Texts' /\ Sourced' /\ Fresh'
  BY <1>1, <1>2, <1>3, <1>4, <1>5, <1>6, RestoredIs
     DEF IInv, Shapes, InRange, Texts, Sourced, Fresh
<1>8. InToken'
  <2>1. Holds(Restored.ch_buf, g.c_buf_p - g'.more_len, g.n_chars)
    <3>1. CASE g.more_flag
      <4>1. g.c_buf_p - g'.more_len = g.text_ptr
        BY <1>4, <1>5, <3>1
      <4> QED
        BY <1>3, <4>1
    <3>2. CASE ~g.more_flag
      <4>1. g.c_buf_p - g'.more_len = g.c_buf_p
        BY <1>4, <1>5, <3>2
      <4> QED
        BY <1>3, <4>1
    <3> QED
      BY <3>1, <3>2
  <2> QED
    BY <1>2, <1>4, <1>5, <1>6, <2>1 DEF InToken
<1>9. AtMatch'
  BY <1>4, <1>5, <1>6, AutomatonAssumption DEF AtMatch, Ready, States
<1> QED
  BY <1>1, <1>7, <1>8, <1>9 DEF IInv, Phases, AtStart, AtFind, AtEob, InCall, AtAction, AtInput, AtEof

\* The matching loop keeps the invariant.
LEMMA MatchInv == ASSUME IInv, Match PROVE IInv'
<1>1. /\ pc = "match" /\ pc' = "find" /\ b' = b /\ g' = g /\ mode' = mode /\ input' = input /\ yyin' = yyin
  BY DEF Match, Kept
<1>2. Clean = b.ch_buf /\ Clean' = b.ch_buf
  BY <1>1 DEF Clean
<1>3. /\ Marked(b.ch_buf, b.buf_size, g.n_chars) /\ l.bp \in 0 .. g.n_chars
      /\ Holds(b.ch_buf, l.bp - g.more_len, g.n_chars) /\ ~g.more_flag
      /\ l.cp \in l.bp .. g.n_chars /\ l.cs \in States /\ Ready(l)
  BY <1>1, <1>2 DEF IInv, Texts, Phases, InToken, AtMatch
<1>4. Holds(b.ch_buf, l.cp, g.n_chars)
  BY <1>3, InvTypes DEF Holds
<1>5. l.bp <= l.cp /\ mode \in Modes /\ Locals(l)
  BY <1>3, InvTypes DEF IInv, Shapes
<1>6. Locals(l') /\ l'.bp = l.bp /\ l'.cp <= g.n_chars + 1 /\ Settled(l', g.n_chars)
  BY <1>3, <1>4, <1>5, MatchIs
<1>7. Shapes' /\ InRange' /\ Texts' /\ Sourced' /\ Fresh'
  <2>1. l'.cp \in Nat
    BY <1>6 DEF Locals
  <2>2. l'.cp <= b.buf_size + 1
    BY <1>6, <2>1, InvTypes
  <2> QED
    BY <1>1, <1>2, <1>6, <2>2 DEF IInv, Shapes, InRange, Texts, Sourced, Fresh
<1>8. InToken'
  BY <1>1, <1>2, <1>3, <1>6 DEF InToken
<1>9. AtFind'
  BY <1>1, <1>6 DEF AtFind, Settled, FoundIn, YyAccept, BackUpTo
<1> QED
  BY <1>1, <1>7, <1>8, <1>9 DEF IInv, Phases, AtStart, AtMatch, AtEob, InCall, AtAction, AtInput, AtEof

\* The action found is a rule's, behind some text, or the end-of-buffer action.
LEMMA FoundIs ==
  ASSUME IInv, pc = "find"
  PROVE  /\ \/ Found.act \in Rules /\ Found.cp \in l.bp + 1 .. g.n_chars
            \/ Found.act = YY_END_OF_BUFFER /\ Found.cp \in l.bp + 1 .. g.n_chars + 1
         /\ Found.cp \in Nat /\ Found.cp \in DOMAIN b.ch_buf
<1>1. Found = FoundIn(l)
  BY DEF Found, FoundIn
<1>2. \/ Found.act \in Rules /\ Found.cp \in l.bp + 1 .. g.n_chars
      \/ Found.act = YY_END_OF_BUFFER /\ Found.cp \in l.bp + 1 .. g.n_chars + 1
  BY <1>1 DEF IInv, Phases, AtFind, Settled
<1> QED
  BY <1>2, InvTypes

\* YY_DO_BEFORE_ACTION keeps the invariant, for a rule.
LEMMA RuleMatchedInv == ASSUME IInv, RuleMatched PROVE IInv'
<1> DEFINE d == DoBeforeAction(b, g, l.bp, Found.cp)
           newlines == IF CanMatchEol(Found.act)
                       THEN MatchedNewlines(b.ch_buf, l.bp, Found.cp) ELSE 0
<1>1. /\ pc = "find" /\ pc' = "action" /\ mode' = mode /\ input' = input /\ yyin' = yyin
      /\ b' = d.b /\ g' = [d.g EXCEPT !.lineno = @ + newlines]
      /\ l' = [l EXCEPT !.cp = Found.cp, !.intact = TRUE]
      /\ Found.act # YY_END_OF_BUFFER
  BY DEF RuleMatched, Kept
<1> DEFINE back == [d.b EXCEPT !.ch_buf[d.g.c_buf_p] = d.g.hold_char]
<1>2. /\ Found.cp \in l.bp + 1 .. g.n_chars /\ Found.cp \in Nat /\ Found.cp \in DOMAIN b.ch_buf
  BY <1>1, FoundIs
<1>3. BufferShape(b) /\ GlobalsShape(g) /\ Locals(l)
  BY DEF IInv, Shapes
<1>4. /\ BufferShape(d.b) /\ d.b.buf_size = b.buf_size /\ d.b.n_chars = b.n_chars
      /\ d.b.fill = b.fill /\ d.b.status = b.status
      /\ GlobalsShape(d.g) /\ d.g.n_chars = g.n_chars /\ d.g.c_buf_p = Found.cp
      /\ d.g.text_ptr = l.bp - g.more_len
      /\ d.g.more_flag = g.more_flag /\ d.g.more_len = g.more_len
      /\ DOMAIN back.ch_buf = DOMAIN b.ch_buf
      /\ \A i \in DOMAIN b.ch_buf : back.ch_buf[i] = b.ch_buf[i]
  BY <1>2, <1>3, HiddenIs
<1> HIDE DEF d, newlines
<1>5. /\ GlobalsShape(g') /\ g'.n_chars = g.n_chars /\ g'.c_buf_p = Found.cp /\ g'.hold_char = d.g.hold_char
      /\ g'.text_ptr = l.bp - g.more_len /\ g'.more_flag = g.more_flag /\ g'.more_len = g.more_len
  BY <1>1, <1>4 DEF GlobalsShape
<1>6. Locals(l') /\ l'.cp = Found.cp /\ l'.bp = l.bp /\ l'.intact
  BY <1>1, <1>2, <1>3 DEF Locals
<1>7. Clean = b.ch_buf /\ Clean' = back.ch_buf
  BY <1>1, <1>4, <1>5 DEF Clean, Restored
<1> HIDE DEF back
<1>8. /\ l.bp \in 0 .. g.n_chars /\ Holds(b.ch_buf, l.bp - g.more_len, g.n_chars) /\ ~g.more_flag
      /\ Marked(b.ch_buf, b.buf_size, g.n_chars)
  BY <1>1, <1>7 DEF IInv, Texts, Phases, InToken
<1>9. Marked(Clean', b.buf_size, g.n_chars) /\ \A lo : Holds(b.ch_buf, lo, g.n_chars) => Holds(Clean', lo, g.n_chars)
  BY <1>4, <1>7, <1>8, SameCells
<1>10. Holds(b.ch_buf, Found.cp, g.n_chars)
  BY SMTT(60), <1>2, <1>8, InvTypes DEF Holds
<1>11. Texts' /\ InCall' /\ AtAction'
  <2> DEFINE tp == l.bp - g.more_len
  <2>1. g.n_chars - tp > g.more_len /\ tp <= Found.cp
    <3>1. l.bp \in Int /\ g.more_len \in Nat /\ g.n_chars \in Int /\ Found.cp \in Int
      BY <1>2, InvTypes
    <3>2. l.bp + 1 <= Found.cp /\ Found.cp <= g.n_chars
      BY <1>2, <3>1
    <3> QED
      BY <3>1, <3>2
  <2>2. Holds(Clean', tp, g.n_chars) /\ Holds(Clean', Found.cp, g.n_chars)
    BY <1>8, <1>9, <1>10
  <2>3. g'.text_ptr = tp
    BY <1>5
  <2>4. b'.buf_size = b.buf_size
    BY <1>1, <1>4
  <2> HIDE DEF tp
  <2>5. Texts'
    BY <1>5, <1>9, <2>2, <2>3, <2>4 DEF Texts
  <2>6. InCall'
    BY <1>5, <2>1, <2>2, <2>3 DEF InCall
  <2>7. AtAction'
    BY <1>5, <1>6, <1>8, <2>1, <2>3 DEF AtAction, tp
  <2> QED
    BY <2>5, <2>6, <2>7
<1>12. Shapes' /\ InRange' /\ Sourced'
  BY <1>1, <1>2, <1>4, <1>5, <1>6, InvTypes DEF IInv, Shapes, InRange, Sourced
<1>13. Fresh'
  BY <1>1, <1>2, <1>4, <1>5, <1>8, InvTypes DEF IInv, Fresh
<1> QED
  BY <1>1, <1>11, <1>12, <1>13 DEF IInv, Phases, AtStart, InToken, AtMatch, AtFind, AtEob, AtInput, AtEof

\* The beginning of the end-of-buffer action keeps the invariant.
LEMMA EndOfBufferMatchedInv == ASSUME IInv, EndOfBufferMatched PROVE IInv'
<1> DEFINE d == DoBeforeAction(b, g, l.bp, Found.cp)
           new == b.status = "NEW"
<1>1. /\ pc = "find" /\ pc' = "eob" /\ mode' = mode /\ input' = input /\ yyin' = yyin
      /\ b' = [b EXCEPT !.status = IF new THEN "NORMAL" ELSE @]
      /\ g' = [d.g EXCEPT !.n_chars = IF new THEN b.n_chars ELSE @]
      /\ l' = [l EXCEPT !.cp = Found.cp]
  BY DEF EndOfBufferMatched, Kept
<1>2. /\ Found.cp \in l.bp + 1 .. g.n_chars + 1 /\ Found.cp \in Nat /\ Found.cp \in DOMAIN b.ch_buf
  BY <1>1, FoundIs, InvTypes
<1>3. BufferShape(b) /\ GlobalsShape(g) /\ Locals(l)
  BY DEF IInv, Shapes
<1>4. /\ GlobalsShape(d.g) /\ d.g.n_chars = g.n_chars /\ d.g.c_buf_p = Found.cp
      /\ d.g.text_ptr = l.bp - g.more_len /\ d.g.hold_char = b.ch_buf[Found.cp]
      /\ d.g.more_flag = g.more_flag /\ d.g.more_len = g.more_len
  BY <1>2, <1>3, HiddenIs
<1> HIDE DEF d
<1>5. b.status = "NEW" => b.n_chars = g.n_chars
  BY <1>1 DEF IInv, Fresh
<1>6. /\ GlobalsShape(g') /\ g'.n_chars = g.n_chars /\ g'.c_buf_p = Found.cp
      /\ g'.text_ptr = l.bp - g.more_len /\ g'.more_flag = g.more_flag /\ g'.more_len = g.more_len
      /\ g'.hold_char = b.ch_buf[Found.cp]
  BY <1>1, <1>4, <1>5 DEF GlobalsShape
<1>7. /\ BufferShape(b') /\ b'.buf_size = b.buf_size /\ b'.ch_buf = b.ch_buf /\ b'.fill = b.fill
      /\ b'.status # "NEW" /\ (b'.status = "EOF_PENDING" => b.status = "EOF_PENDING")
  BY <1>1, <1>3 DEF BufferShape
<1>8. Locals(l') /\ l'.cp = Found.cp /\ l'.bp = l.bp
  BY <1>1, <1>2, <1>3 DEF Locals
<1>9. Clean = b.ch_buf /\ Clean' = b.ch_buf
  BY <1>1, <1>7 DEF Clean
<1>10. /\ l.bp \in 0 .. g.n_chars /\ Holds(b.ch_buf, l.bp - g.more_len, g.n_chars) /\ ~g.more_flag
       /\ Marked(b.ch_buf, b.buf_size, g.n_chars)
  BY <1>1, <1>9 DEF IInv, Texts, Phases, InToken
<1>11. Texts' /\ InToken' /\ AtEob'
  BY <1>1, <1>2, <1>6, <1>7, <1>8, <1>9, <1>10, InvTypes DEF Texts, InToken, AtEob
<1>12. Shapes' /\ InRange' /\ Sourced' /\ Fresh'
  BY <1>1, <1>2, <1>6, <1>7, <1>8, InvTypes DEF IInv, Shapes, InRange, Sourced, Fresh
<1> QED
  BY <1>1, <1>11, <1>12 DEF IInv, Phases, AtStart, AtMatch, AtFind, InCall, AtAction, AtInput, AtEof

\* The end of an action keeps the invariant.
LEMMA ReturnInv == ASSUME IInv, Return PROVE IInv'
<1>1. /\ pc = "action" /\ pc' = "start" /\ mode' = mode /\ input' = input /\ yyin' = yyin
      /\ b' = b /\ g' = g /\ l' = l
  BY DEF Return, Kept
<1>2. Clean' = Clean
  BY <1>1 DEF Clean, Restored
<1>3. Shapes' /\ InRange' /\ Texts' /\ Sourced'
  BY <1>1, <1>2 DEF IInv, Shapes, InRange, Texts, Sourced
<1>4. Fresh'
  BY <1>1 DEF IInv, Fresh
<1>5. AtStart'
  BY <1>1, <1>2 DEF IInv, Phases, InCall, AtAction, AtStart
<1> QED
  BY <1>1, <1>3, <1>4, <1>5
     DEF IInv, Phases, InToken, AtMatch, AtFind, AtEob, InCall, AtAction, AtInput, AtEof

\* A call after the end of the input keeps the invariant.
LEMMA CallAgainInv == ASSUME IInv, CallAgain, ~MoreAtEof PROVE IInv'
<1>1. /\ pc = "eof" /\ pc' = "start" /\ mode' = mode /\ input' = input /\ yyin' = yyin
      /\ b' = b /\ g' = g /\ l' = l /\ g.more_len = 0
  BY DEF CallAgain, Kept
<1>2. Clean' = Clean
  BY <1>1 DEF Clean, Restored
<1>3. Shapes' /\ InRange' /\ Texts' /\ Sourced'
  BY <1>1, <1>2 DEF IInv, Shapes, InRange, Texts, Sourced
<1>4. Fresh'
  BY <1>1 DEF IInv, Fresh
<1>5. AtStart'
  BY <1>1, <1>2 DEF IInv, Phases, AtEof, AtStart
<1> QED
  BY <1>1, <1>3, <1>4, <1>5
     DEF IInv, Phases, InToken, AtMatch, AtFind, AtEob, InCall, AtAction, AtInput, AtEof

\* yymore() keeps the invariant.
LEMMA MoreInv == ASSUME IInv, More PROVE IInv'
<1>1. /\ pc = "action" /\ pc' = pc /\ mode' = mode /\ input' = input /\ yyin' = yyin
      /\ b' = b /\ l' = l /\ l.intact /\ g' = [g EXCEPT !.more_flag = TRUE]
  BY DEF More, Calls, Kept
<1>2. /\ GlobalsShape(g') /\ g'.n_chars = g.n_chars /\ g'.c_buf_p = g.c_buf_p /\ g'.text_ptr = g.text_ptr
      /\ g'.more_len = g.more_len /\ g'.hold_char = g.hold_char
  BY <1>1 DEF IInv, Shapes, GlobalsShape
<1>3. Clean' = Clean
  BY <1>1, <1>2 DEF Clean, Restored
<1>4. Shapes' /\ InRange' /\ Texts' /\ Sourced' /\ Fresh'
  BY <1>1, <1>2, <1>3 DEF IInv, Shapes, InRange, Texts, Sourced, Fresh
<1>5. InCall' /\ AtAction'
  BY <1>1, <1>2, <1>3 DEF IInv, Phases, InCall, AtAction
<1> QED
  BY <1>1, <1>4, <1>5 DEF IInv, Phases, AtStart, InToken, AtMatch, AtFind, AtEob, AtInput, AtEof

\* yyless() keeps the invariant.
LEMMA LessInv == ASSUME IInv, NEW n \in 0 .. Len(yytext), Less(n) PROVE IInv'
<1> DEFINE cp == l.bp + n - g.more_len
           back == Newlines(SubSeq(yytext, n + 1, Len(yytext)))
           d == DoBeforeAction(Restored, g, l.bp, cp)
           shown == [d.b EXCEPT !.ch_buf[d.g.c_buf_p] = d.g.hold_char]
<1>1. /\ pc = "action" /\ pc' = pc /\ mode' = mode /\ input' = input /\ yyin' = yyin
      /\ l.intact /\ b' = d.b /\ g' = [d.g EXCEPT !.lineno = @ - back]
      /\ l' = [l EXCEPT !.cp = cp]
  BY DEF Less, Calls, Kept
<1>2. Clean = Restored.ch_buf
  BY <1>1 DEF Clean
<1>3. /\ Marked(Restored.ch_buf, b.buf_size, g.n_chars) /\ Holds(Restored.ch_buf, g.text_ptr, g.n_chars)
      /\ Holds(Restored.ch_buf, g.c_buf_p, g.n_chars)
      /\ g.text_ptr = l.bp - g.more_len /\ g.text_ptr <= g.c_buf_p
  BY <1>1, <1>2 DEF IInv, Texts, Phases, InCall, AtAction
<1>4. cp \in g.text_ptr .. g.c_buf_p /\ cp \in Nat /\ cp <= g.n_chars /\ cp \in DOMAIN Restored.ch_buf
  <2>1. g.c_buf_p - g.text_ptr \in Nat
    BY <1>3, InvTypes
  <2>2. Len(yytext) = g.c_buf_p - g.text_ptr
    BY <2>1 DEF yytext, Slice
  <2>3. cp = g.text_ptr + n
    BY <1>3, <2>1, <2>2, InvTypes
  <2>4. g.c_buf_p <= g.n_chars
    BY <1>3, InvTypes DEF Holds
  <2> HIDE DEF cp
  <2>5. n \in Int /\ 0 <= n /\ n <= g.c_buf_p - g.text_ptr
    BY <2>1, <2>2
  <2>6. cp \in Int /\ g.text_ptr <= cp /\ cp <= g.c_buf_p
    <3>1. g.text_ptr \in Int /\ g.c_buf_p \in Int
      BY InvTypes
    <3> QED
      BY <2>3, <2>5, <3>1
  <2>7. cp \in Nat /\ cp <= g.n_chars /\ cp <= b.buf_size
    BY <2>4, <2>6, InvTypes
  <2>8. cp \in 0 .. b.buf_size + 1
    BY <2>7, InvTypes
  <2>9. DOMAIN Restored.ch_buf = 0 .. b.buf_size + 1
    BY <1>3 DEF Marked
  <2> QED
    BY <2>6, <2>7, <2>8, <2>9, InvTypes
<1> HIDE DEF cp, back
<1>5. BufferShape(Restored) /\ GlobalsShape(g) /\ Locals(l)
  BY RestoredIs DEF IInv, Shapes
<1>6. /\ BufferShape(d.b) /\ d.b.buf_size = b.buf_size /\ d.b.n_chars = b.n_chars
      /\ d.b.fill = b.fill /\ d.b.status = b.status
  BY <1>4, <1>5, HiddenIs, RestoredIs
<1>7. /\ GlobalsShape(d.g) /\ d.g.n_chars = g.n_chars /\ d.g.c_buf_p = cp
      /\ d.g.text_ptr = l.bp - g.more_len
      /\ d.g.more_flag = g.more_flag /\ d.g.more_len = g.more_len
  BY <1>4, <1>5, HiddenIs
<1>8. /\ DOMAIN shown.ch_buf = DOMAIN Restored.ch_buf
      /\ \A i \in DOMAIN Restored.ch_buf : shown.ch_buf[i] = Restored.ch_buf[i]
  BY <1>4, <1>5, HiddenIs
<1> HIDE DEF d
<1>9. /\ GlobalsShape(g') /\ g'.n_chars = g.n_chars /\ g'.c_buf_p = cp /\ g'.hold_char = d.g.hold_char
      /\ g'.text_ptr = g.text_ptr /\ g'.more_flag = g.more_flag /\ g'.more_len = g.more_len
  BY <1>1, <1>3, <1>7 DEF GlobalsShape
<1>10. Locals(l') /\ l'.cp = cp /\ l'.bp = l.bp /\ l'.intact = l.intact
  BY <1>1, <1>4, <1>5 DEF Locals
<1>11. Clean' = shown.ch_buf
  BY <1>1, <1>7, <1>9 DEF Clean, Restored
<1> HIDE DEF shown
<1>12. /\ Marked(Clean', b.buf_size, g.n_chars)
       /\ \A lo : Holds(Restored.ch_buf, lo, g.n_chars) => Holds(Clean', lo, g.n_chars)
  BY <1>3, <1>8, <1>11, SameCells
<1>13. Holds(Restored.ch_buf, cp, g.n_chars)
  BY <1>3, <1>4, InvTypes DEF Holds
<1>14. Texts' /\ InCall' /\ AtAction'
  BY <1>1, <1>3, <1>4, <1>6, <1>9, <1>10, <1>12, <1>13 DEF IInv, Phases, Texts, InCall, AtAction
<1>15. Shapes' /\ InRange' /\ Sourced' /\ Fresh'
  BY <1>1, <1>4, <1>6, <1>9, <1>10, InvTypes DEF IInv, Shapes, InRange, Sourced, Fresh
<1> QED
  BY <1>1, <1>14, <1>15 DEF IInv, Phases, AtStart, InToken, AtMatch, AtFind, AtEob, AtInput, AtEof

\* The buffer after unput(c): everything up by ShiftUp, and c before the text.
Shifted(ch2, ch, size, up, at, c) ==
  /\ DOMAIN ch2 = 0 .. size + 1 /\ ch2[at] = c
  /\ \A i \in 0 .. size + 1 : i # at => ch2[i] = IF i >= up THEN ch[i - up] ELSE ch[i]

\* What yyunput() does when it finds room.
LEMMA PushedIs ==
  ASSUME IInv, NEW c \in Pushable, Unput(c), pc' # "fatal"
  PROVE  /\ pc = "action" /\ pc' = "action" /\ ~g.more_flag /\ UNCHANGED <<mode, input, yyin, out>>
         /\ BufferShape(b') /\ b'.buf_size = b.buf_size /\ b'.fill = b.fill /\ b'.status = b.status
         /\ b'.n_chars = IF g.c_buf_p < 2 THEN g'.n_chars ELSE b.n_chars
         /\ GlobalsShape(g') /\ g'.more_flag = g.more_flag /\ g'.more_len = g.more_len
         /\ ShiftUp \in Nat /\ (g.c_buf_p >= 2 => ShiftUp = 0)
         /\ g'.n_chars = g.n_chars + ShiftUp /\ g'.n_chars <= b.buf_size
         /\ g'.text_ptr = g.text_ptr + ShiftUp
         /\ g'.c_buf_p + 1 = g.c_buf_p + ShiftUp /\ g'.c_buf_p \in Nat /\ g'.c_buf_p < g'.n_chars
         /\ g.c_buf_p <= g.n_chars
         /\ Locals(l') /\ l'.cp = l.cp /\ l'.bp = l.bp /\ ~l'.intact
         /\ Shifted(Clean', Clean, b.buf_size, ShiftUp, g'.c_buf_p, c)
<1> DEFINE up == ShiftUp
           ch == [i \in DOMAIN b.ch_buf |->
                    IF up > 0 /\ i >= up THEN Restored.ch_buf[i - up] ELSE Restored.ch_buf[i]]
           cp == g.c_buf_p + up
           n == IF g.c_buf_p < 2 THEN b.buf_size ELSE g.n_chars
<1>1. /\ pc = "action" /\ UNCHANGED <<mode, input, yyin, out>> /\ ~g.more_flag
      /\ cp >= 2 /\ pc' = pc
      /\ b' = [b EXCEPT !.ch_buf = [ch EXCEPT ![cp - 1] = c],
                        !.n_chars = IF g.c_buf_p < 2 THEN n ELSE @]
      /\ g' = [g EXCEPT !.n_chars = n, !.c_buf_p = cp - 1, !.hold_char = c, !.text_ptr = @ + up,
                        !.lineno = IF c = NL THEN @ - 1 ELSE @]
      /\ l' = [l EXCEPT !.intact = FALSE]
  BY DEF Unput, Calls, Kept
<1>2. Clean = Restored.ch_buf
  BY <1>1 DEF Clean
<1>3. g.c_buf_p <= g.n_chars
  BY <1>1 DEF IInv, Phases, InCall, Holds
\* How far everything moves.
<1>4. up \in Nat /\ n = g.n_chars + up /\ n \in Nat /\ n <= b.buf_size /\ (g.c_buf_p >= 2 => up = 0)
  BY InvTypes DEF ShiftUp
<1>5. ch = [i \in 0 .. b.buf_size + 1 |->
              IF i >= up THEN Restored.ch_buf[i - up] ELSE Restored.ch_buf[i]]
  <2>1. ASSUME NEW i \in 0 .. b.buf_size + 1
        PROVE  (IF up > 0 /\ i >= up THEN Restored.ch_buf[i - up] ELSE Restored.ch_buf[i])
                 = IF i >= up THEN Restored.ch_buf[i - up] ELSE Restored.ch_buf[i]
    <3>1. up = 0 => i - up = i
      BY <1>4, InvTypes
    <3> QED
      BY <1>4, <3>1
  <2> HIDE DEF up
  <2> QED
    BY <2>1, InvTypes
<1> HIDE DEF up, n, ch
<1>6. cp - 1 < n /\ cp - 1 \in Nat /\ cp - 1 \in 0 .. b.buf_size + 1 /\ cp \in Nat
  <2>1. cp \in Int /\ cp >= 2
    BY <1>1, <1>4, InvTypes
  <2>2. cp <= n
    BY <1>3, <1>4, InvTypes
  <2> HIDE DEF cp
  <2> QED
    BY <1>4, <2>1, <2>2, InvTypes
<1>7. cp = g.c_buf_p + up
  OBVIOUS
<1> HIDE DEF cp
<1>8. /\ BufferShape(b') /\ b'.buf_size = b.buf_size /\ b'.fill = b.fill /\ b'.status = b.status
      /\ b'.ch_buf = [ch EXCEPT ![cp - 1] = c]
      /\ b'.n_chars = IF g.c_buf_p < 2 THEN n ELSE b.n_chars
  BY <1>1, <1>5 DEF IInv, Shapes, BufferShape
<1>9. /\ GlobalsShape(g') /\ g'.n_chars = n /\ g'.c_buf_p = cp - 1 /\ g'.hold_char = c
      /\ g'.text_ptr = g.text_ptr + up /\ g'.more_flag = g.more_flag /\ g'.more_len = g.more_len
  BY <1>1 DEF IInv, Shapes, GlobalsShape
<1>10. Locals(l') /\ l'.cp = l.cp /\ l'.bp = l.bp /\ ~l'.intact
  BY <1>1 DEF IInv, Shapes, Locals
<1>11. /\ DOMAIN Clean' = 0 .. b.buf_size + 1 /\ Clean'[cp - 1] = c
       /\ \A i \in 0 .. b.buf_size + 1 :
            i # cp - 1 => Clean'[i] = IF i >= up THEN Restored.ch_buf[i - up] ELSE Restored.ch_buf[i]
  <2>1. Clean' = [b'.ch_buf EXCEPT ![cp - 1] = c]
    BY <1>1, <1>8, <1>9 DEF Clean, Restored, BufferShape
  <2> QED
    BY <1>5, <1>6, <1>8, <2>1
<1>12. Shifted(Clean', Clean, b.buf_size, up, g'.c_buf_p, c)
  BY <1>2, <1>9, <1>11 DEF Shifted
<1>13. g'.c_buf_p + 1 = g.c_buf_p + up
  BY <1>6, <1>7, <1>9
<1> QED
  BY <1>1, <1>3, <1>4, <1>6, <1>8, <1>9, <1>10, <1>12, <1>13 DEF up

\* yyunput() keeps the invariant.
LEMMA UnputInv == ASSUME IInv, NEW c \in Pushable, Unput(c) PROVE IInv'
<1>1. CASE pc' = "fatal"
  <2>0. /\ pc = "action" /\ mode' = mode /\ input' = input /\ yyin' = yyin /\ b' = b /\ g' = g /\ l' = l
    BY <1>1 DEF Unput, Calls, Kept
  <2>1. Clean' = Clean
    BY <1>1, <2>0 DEF Clean, Restored
  <2>2. Shapes' /\ InRange' /\ Texts' /\ Sourced'
    BY <1>1, <2>0, <2>1 DEF IInv, Shapes, InRange, Texts, Sourced
  <2>3. Fresh'
    BY <1>1, <2>0 DEF IInv, Fresh
  <2> QED
    BY <1>1, <2>2, <2>3
       DEF IInv, Phases, AtStart, InToken, AtMatch, AtFind, AtEob, InCall, AtAction, AtInput, AtEof
<1>2. CASE pc' # "fatal"
  <2>1. /\ pc = "action" /\ pc' = "action" /\ ~g.more_flag /\ UNCHANGED <<mode, input, yyin>>
        /\ BufferShape(b') /\ b'.buf_size = b.buf_size /\ b'.fill = b.fill /\ b'.status = b.status
        /\ b'.n_chars = IF g.c_buf_p < 2 THEN g'.n_chars ELSE b.n_chars
        /\ GlobalsShape(g') /\ g'.more_flag = g.more_flag /\ g'.more_len = g.more_len
        /\ ShiftUp \in Nat /\ (g.c_buf_p >= 2 => ShiftUp = 0)
        /\ g'.n_chars = g.n_chars + ShiftUp /\ g'.n_chars <= b.buf_size
        /\ g'.text_ptr = g.text_ptr + ShiftUp
        /\ g'.c_buf_p + 1 = g.c_buf_p + ShiftUp /\ g'.c_buf_p \in Nat /\ g'.c_buf_p < g'.n_chars
        /\ Locals(l') /\ l'.cp = l.cp /\ l'.bp = l.bp /\ ~l'.intact
        /\ Shifted(Clean', Clean, b.buf_size, ShiftUp, g'.c_buf_p, c)
    BY <1>2, PushedIs
  <2>2. PICK up \in Nat : up = ShiftUp
    BY <2>1
  <2>3. PICK n, at, size, ch, ch2 :
          n = g'.n_chars /\ at = g'.c_buf_p /\ size = b.buf_size /\ ch = Clean /\ ch2 = Clean'
    OBVIOUS
  <2>4. /\ Marked(ch, size, g.n_chars) /\ Holds(ch, g.text_ptr, g.n_chars)
        /\ Holds(ch, g.c_buf_p, g.n_chars)
        /\ g.n_chars - g.text_ptr > g.more_len \/ (g.n_chars = g.text_ptr /\ Over(yyin))
    BY <2>1, <2>3 DEF IInv, Texts, Phases, InCall
  <2>5. /\ size \in Nat /\ n \in Nat /\ at \in Nat /\ g.n_chars \in Nat /\ g.c_buf_p \in Nat
        /\ g.text_ptr \in Nat /\ g.text_ptr <= g.n_chars /\ c \in Chars
        /\ n = g.n_chars + up /\ n <= size /\ at + 1 = g.c_buf_p + up /\ at < n
    <3>1. /\ size \in Nat /\ g.n_chars \in Nat /\ g.c_buf_p \in Nat /\ g.text_ptr \in Nat
          /\ g.text_ptr <= g.n_chars
      BY <2>3, InvTypes
    <3>2. n = g.n_chars + up /\ n <= size /\ at + 1 = g.c_buf_p + up /\ at < n /\ at \in Nat
      BY <2>1, <2>2, <2>3
    <3>3. c \in Chars
      BY CharsAssumption
    <3>4. n \in Nat
      BY ONLY <2>2, <3>1, <3>2, up \in Nat
    <3> QED
      BY <3>1, <3>2, <3>3, <3>4
  <2>6. /\ DOMAIN ch2 = 0 .. size + 1 /\ ch2[at] = c
        /\ \A i \in 0 .. size + 1 : i # at => ch2[i] = IF i >= up THEN ch[i - up] ELSE ch[i]
    BY <2>1, <2>2, <2>3 DEF Shifted
  <2>7. Marked(ch2, size, n)
    <3>1. n \in 0 .. size + 1 /\ n + 1 \in 0 .. size + 1 /\ n # at /\ n + 1 # at
          /\ n >= up /\ n + 1 >= up /\ n - up = g.n_chars /\ (n + 1) - up = g.n_chars + 1
      BY <2>5
    <3>2. ch2[n] = NUL /\ ch2[n + 1] = NUL
      BY <2>4, <2>6, <3>1 DEF Marked
    <3> QED
      BY <2>5, <2>6, <3>2 DEF Marked
  \* What was text from lo on is, higher up; and so is the character put before it.
  <2>8. ASSUME NEW lo \in Nat, Holds(ch, lo, g.n_chars), NEW i \in lo + up .. n - 1 PROVE ch2[i] \in Chars
    <3>1. CASE i = at
      BY <2>5, <2>6, <3>1
    <3>2. CASE i # at
      <4>1. i - up \in lo .. g.n_chars - 1 /\ i >= up /\ i \in 0 .. size + 1
        <5>1. i \in Int /\ lo + up <= i /\ i <= n - 1
          BY <2>5, <2>8
        <5> QED
          BY <2>5, <5>1
      <4> QED
        BY <2>6, <2>8, <3>2, <4>1 DEF Holds
    <3> QED
      BY <3>1, <3>2
  <2>9. Holds(ch2, g.text_ptr + up, n)
    <3>1. g.text_ptr + up \in 0 .. n
      BY <2>5
    <3> QED
      BY <2>4, <2>5, <2>8, <3>1 DEF Holds
  <2>10. Holds(ch2, at, n)
    <3>1. ASSUME NEW i \in at .. n - 1 PROVE ch2[i] \in Chars
      <4>1. i = at \/ i \in g.c_buf_p + up .. n - 1
        BY <2>5
      <4> QED
        BY <2>4, <2>5, <2>6, <2>8, <4>1
    <3>2. at \in 0 .. n
      BY <2>5
    <3> QED
      BY <3>1, <3>2 DEF Holds
  <2>11. n - (g.text_ptr + up) = g.n_chars - g.text_ptr /\ (g.n_chars = g.text_ptr => n = g.text_ptr + up)
    BY <2>5
  <2>12. Texts' /\ InCall' /\ AtAction'
    BY <2>1, <2>2, <2>3, <2>4, <2>7, <2>9, <2>10, <2>11 DEF Texts, InCall, AtAction
  <2>13. InRange'
    <3>1. g'.c_buf_p \in 0 .. b'.buf_size + 1
      BY <2>1, <2>3, <2>5
    <3> QED
      BY <2>1, <3>1 DEF IInv, InRange
  <2>14. Shapes' /\ Sourced'
    BY <2>1 DEF IInv, Shapes, Sourced
  <2>15. Fresh'
    <3>1. g.c_buf_p >= 2 => g'.n_chars = g.n_chars
      BY <2>1, InvTypes
    <3> QED
      BY <2>1, <3>1, InvTypes DEF IInv, Fresh
  <2> QED
    BY <2>1, <2>12, <2>13, <2>14, <2>15
       DEF IInv, Phases, AtStart, InToken, AtMatch, AtFind, AtEob, AtInput, AtEof
<1> QED
  BY <1>1, <1>2

\* The beginning of input() keeps the invariant.
LEMMA BeginInputInv == ASSUME IInv, BeginInput, ~InputAtEof PROVE IInv'
<1>1. /\ pc = "action" /\ pc' = "input" /\ mode' = mode /\ input' = input /\ yyin' = yyin /\ ~g.more_flag
      /\ b' = Restored /\ g' = g /\ l' = [l EXCEPT !.intact = FALSE]
      /\ (g.c_buf_p = g.n_chars /\ yyin.cur = <<>>) => b.fill /\ yyin.next = <<>>
  BY DEF BeginInput, Calls, Kept
<1>2. Clean = Restored.ch_buf /\ Clean' = Restored.ch_buf
  BY <1>1 DEF Clean
<1>3. Locals(l') /\ l'.cp = l.cp /\ l'.bp = l.bp /\ ~l'.intact
  BY <1>1 DEF IInv, Shapes, Locals
<1>4. Shapes' /\ InRange' /\ Texts' /\ Sourced' /\ Fresh'
  BY <1>1, <1>2, <1>3, RestoredIs DEF IInv, Shapes, InRange, Texts, Sourced, Fresh
<1>5. InCall'
  BY <1>1, <1>2 DEF IInv, Phases, InCall
<1>6. AtInput'
  BY <1>1, <1>3, RestoredIs DEF IInv, Sourced, Over, AtInput
<1> QED
  BY <1>1, <1>4, <1>5, <1>6 DEF IInv, Phases, AtStart, InToken, AtMatch, AtFind, AtEob, AtAction, AtEof

\* input() takes a character of the text.
LEMMA TakenIs ==
  ASSUME NEW bb, BufferShape(bb), NEW gg, GlobalsShape(gg), NEW n, gg.n_chars = n,
         Marked(bb.ch_buf, bb.buf_size, n), NEW i \in 0 .. n - 1, TakeChar(bb, gg, i)
  PROVE  /\ pc' = "action" /\ BufferShape(b') /\ b'.buf_size = bb.buf_size
         /\ b'.n_chars = bb.n_chars /\ b'.fill = bb.fill /\ b'.status = bb.status
         /\ GlobalsShape(g') /\ g'.n_chars = n /\ g'.c_buf_p = i + 1 /\ g'.text_ptr = gg.text_ptr
         /\ g'.more_flag = gg.more_flag /\ g'.more_len = gg.more_len
         /\ Marked(Clean', bb.buf_size, n)
         /\ \A lo : Holds(bb.ch_buf, lo, n) => Holds(Clean', lo, n)
         /\ \A j \in DOMAIN bb.ch_buf : j # i => Clean'[j] = bb.ch_buf[j]
<1> DEFINE c == bb.ch_buf[i]
<1>1. /\ pc' = "action" /\ b' = [bb EXCEPT !.ch_buf[i] = NUL]
      /\ g' = [gg EXCEPT !.c_buf_p = i + 1, !.hold_char = bb.ch_buf[i + 1],
                         !.lineno = IF c = NL THEN @ + 1 ELSE @]
  BY DEF TakeChar
<1>2. /\ bb.buf_size \in Nat /\ n \in Nat /\ n <= bb.buf_size /\ DOMAIN bb.ch_buf = 0 .. bb.buf_size + 1
      /\ i \in Nat /\ i < n /\ i \in DOMAIN bb.ch_buf /\ i + 1 \in DOMAIN bb.ch_buf
      /\ n \in DOMAIN bb.ch_buf /\ n + 1 \in DOMAIN bb.ch_buf
  BY DEF Marked
<1>3. /\ BufferShape(b') /\ b'.buf_size = bb.buf_size /\ b'.n_chars = bb.n_chars /\ b'.fill = bb.fill
      /\ b'.status = bb.status /\ b'.ch_buf = [bb.ch_buf EXCEPT ![i] = NUL]
  BY <1>1 DEF BufferShape
<1>4. /\ GlobalsShape(g') /\ g'.n_chars = n /\ g'.c_buf_p = i + 1 /\ g'.text_ptr = gg.text_ptr
      /\ g'.hold_char = bb.ch_buf[i + 1]
      /\ g'.more_flag = gg.more_flag /\ g'.more_len = gg.more_len
  BY <1>1 DEF GlobalsShape
<1>5. Clean' = [b'.ch_buf EXCEPT ![i + 1] = bb.ch_buf[i + 1]]
  BY <1>1, <1>3, <1>4 DEF Clean, Restored, BufferShape
<1>6. /\ DOMAIN Clean' = DOMAIN bb.ch_buf
      /\ \A j \in DOMAIN bb.ch_buf : Clean'[j] = IF j = i THEN NUL ELSE bb.ch_buf[j]
  BY <1>2, <1>3, <1>5
<1>7. Marked(Clean', bb.buf_size, n)
  BY <1>2, <1>6 DEF Marked
<1>8. ASSUME NEW lo, Holds(bb.ch_buf, lo, n) PROVE Holds(Clean', lo, n)
  <2>1. \A j \in lo .. n - 1 : j \in DOMAIN bb.ch_buf
    BY <1>2, <1>8 DEF Holds
  <2> QED
    BY <1>6, <1>8, <2>1, CharsAssumption DEF Holds
<1>9. \A j \in DOMAIN bb.ch_buf : j # i => Clean'[j] = bb.ch_buf[j]
  BY <1>6
<1> QED
  BY <1>1, <1>3, <1>4, <1>7, <1>8, <1>9

\* input() from the buffer keeps the invariant.
LEMMA InputCharInv == ASSUME IInv, InputChar PROVE IInv'
<1>1. /\ pc = "input" /\ mode' = mode /\ input' = input /\ yyin' = yyin /\ l' = l
      /\ ~AtMark /\ TakeChar(b, g, g.c_buf_p)
  BY DEF InputChar, Kept
<1>2. Clean = b.ch_buf
  BY <1>1 DEF Clean
<1>3. /\ Marked(b.ch_buf, b.buf_size, g.n_chars) /\ Holds(b.ch_buf, g.text_ptr, g.n_chars)
      /\ Holds(b.ch_buf, g.c_buf_p, g.n_chars)
      /\ g.n_chars - g.text_ptr > g.more_len \/ (g.n_chars = g.text_ptr /\ Over(yyin))
      /\ ~g.more_flag /\ ~l.intact
  BY <1>1, <1>2 DEF IInv, Texts, Phases, InCall, AtInput
<1>4. g.c_buf_p \in 0 .. g.n_chars - 1
  BY <1>1, <1>3, InvTypes DEF AtMark, Marked, Holds
<1>5. BufferShape(b) /\ GlobalsShape(g)
  BY DEF IInv, Shapes
<1> DEFINE i == g.c_buf_p
<1>6. /\ pc' = "action" /\ BufferShape(b') /\ b'.buf_size = b.buf_size
      /\ b'.n_chars = b.n_chars /\ b'.fill = b.fill /\ b'.status = b.status
      /\ GlobalsShape(g') /\ g'.n_chars = g.n_chars /\ g'.c_buf_p = i + 1 /\ g'.text_ptr = g.text_ptr
      /\ g'.more_flag = g.more_flag /\ g'.more_len = g.more_len
      /\ Marked(Clean', b.buf_size, g.n_chars)
      /\ \A lo : Holds(b.ch_buf, lo, g.n_chars) => Holds(Clean', lo, g.n_chars)
  BY <1>1, <1>3, <1>4, <1>5, TakenIs
<1>7. Holds(b.ch_buf, i + 1, g.n_chars)
  BY <1>3, <1>4, InvTypes DEF Holds
<1>8. Texts' /\ InCall' /\ AtAction'
  BY <1>1, <1>3, <1>6, <1>7 DEF Texts, InCall, AtAction
<1>9. Shapes' /\ InRange' /\ Sourced' /\ Fresh'
  BY <1>1, <1>4, <1>6, InvTypes DEF IInv, Shapes, InRange, Sourced, Fresh
<1> QED
  BY <1>6, <1>8, <1>9 DEF IInv, Phases, AtStart, InToken, AtMatch, AtFind, AtEob, AtInput, AtEof

\* Where a mark or a NUL was reached.
LEMMA EobIs ==
  ASSUME IInv, pc = "eob"
  PROVE  /\ Marked(b.ch_buf, b.buf_size, g.n_chars)
         /\ Holds(b.ch_buf, g.text_ptr, g.n_chars) /\ Holds(b.ch_buf, l.bp, g.n_chars)
         /\ l.bp = g.text_ptr + g.more_len /\ l.bp <= g.n_chars
         /\ g.c_buf_p = l.cp /\ l.bp + 1 <= l.cp /\ l.cp <= g.n_chars + 1
         /\ b.status # "NEW" /\ ~g.more_flag /\ g.hold_char = b.ch_buf[g.c_buf_p]
<1>1. Clean = b.ch_buf
  BY DEF Clean
<1>2. /\ Marked(b.ch_buf, b.buf_size, g.n_chars) /\ Holds(b.ch_buf, g.text_ptr, g.n_chars)
      /\ l.bp \in 0 .. g.n_chars /\ ~g.more_flag
      /\ g.c_buf_p = l.cp /\ l.cp \in l.bp + 1 .. g.n_chars + 1
      /\ g.text_ptr = l.bp - g.more_len /\ b.status # "NEW" /\ g.hold_char = b.ch_buf[g.c_buf_p]
  BY <1>1 DEF IInv, Texts, Phases, InToken, AtEob
<1>3. /\ l.bp = g.text_ptr + g.more_len /\ l.bp <= g.n_chars /\ g.text_ptr <= l.bp
      /\ l.bp + 1 <= l.cp /\ l.cp <= g.n_chars + 1
  BY <1>2, InvTypes
<1>4. Holds(b.ch_buf, l.bp, g.n_chars)
  BY <1>2, <1>3, InvTypes DEF Holds
<1> QED
  BY <1>2, <1>3, <1>4

\* A NUL of the text, gone over or backed up from, keeps the invariant.
\* No matching loop but that of the full tables has a yy_NUL_trans: the others
\* save every state they leave, that before a NUL too.
NulsSaved == NulTables \subseteq {"full"}

LEMMA SavedOverNul ==
  ASSUME NulsSaved, NEW before, NEW over PROVE OverNul(before, over) = over
BY DEF NulsSaved, OverNul, nultrans

\* What yylex() does once it knows that it has met a NUL.
LEMMA ReallyNulIs ==
  ASSUME NulsSaved, ReallyNul
  PROVE  LET at == l.cp - 1
             bp == g.text_ptr + g.more_len
             before == Replay(b.ch_buf, bp, at)
             over == Replay(b.ch_buf, bp, at + 1)
         IN  IF NulState(before.cs) # Jam
             THEN g' = [g EXCEPT !.c_buf_p = at + 1] /\ l' = over /\ pc' = "match"
             ELSE /\ g' = [g EXCEPT !.c_buf_p = at] /\ pc' = "find"
                  /\ l' = IF mode = "full" THEN before
                          ELSE IF mode = "interactive" THEN [before EXCEPT !.last = over.last]
                          ELSE [over EXCEPT !.cp = over.last.cpos, !.cs = over.last.state]
BY SavedOverNul DEF ReallyNul, NulConsumed

LEMMA ReallyNulInv == ASSUME IInv, ReallyNul, NulsSaved PROVE IInv'
<1> DEFINE at == l.cp - 1
           before == Replay(b.ch_buf, l.bp, at)
           over == Replay(b.ch_buf, l.bp, at + 1)
           n == g.n_chars
<1>1. /\ pc = "eob" /\ g.c_buf_p <= n /\ mode' = mode /\ input' = input /\ yyin' = yyin /\ b' = b
  BY DEF ReallyNul, Kept
<1>2. /\ Marked(b.ch_buf, b.buf_size, n) /\ Holds(b.ch_buf, g.text_ptr, n) /\ Holds(b.ch_buf, l.bp, n)
      /\ l.bp = g.text_ptr + g.more_len /\ l.bp <= n /\ g.c_buf_p = l.cp /\ l.bp + 1 <= l.cp
      /\ b.status # "NEW" /\ ~g.more_flag
  BY <1>1, EobIs
<1>3. IF NulState(before.cs) # Jam
      THEN g' = [g EXCEPT !.c_buf_p = at + 1] /\ l' = over /\ pc' = "match"
      ELSE /\ g' = [g EXCEPT !.c_buf_p = at] /\ pc' = "find"
           /\ l' = IF mode = "full" THEN before
                   ELSE IF mode = "interactive" THEN [before EXCEPT !.last = over.last]
                   ELSE [over EXCEPT !.cp = over.last.cpos, !.cs = over.last.state]
  BY <1>2, ReallyNulIs
<1>4. /\ l.bp \in Nat /\ at \in Nat /\ n \in Nat /\ l.bp <= at /\ at + 1 <= n /\ b.buf_size \in Nat
      /\ n <= b.buf_size /\ at \in l.bp .. n /\ at + 1 \in l.bp .. n
  <2>1. l.bp \in Int /\ l.cp \in Int /\ n \in Int /\ 0 <= l.bp /\ l.bp + 1 <= l.cp /\ l.cp <= n
        /\ b.buf_size \in Nat /\ n <= b.buf_size /\ n \in Nat /\ l.bp \in Nat
    BY <1>1, <1>2, InvTypes
  <2> QED
    BY <2>1
<1>5. Locals(l)
  BY DEF IInv, Shapes
<1> HIDE DEF at
<1>6. /\ Locals(before) /\ before.bp = l.bp /\ before.cp = at /\ before.cs \in States
      /\ Ready(before)
  BY <1>2, <1>4, <1>5, ReplayIs
<1>7. /\ Locals(over) /\ over.bp = l.bp /\ over.cp = at + 1 /\ over.cs \in States /\ Ready(over)
      /\ at + 1 > l.bp + 1 => LastOK(over, at + 1)
  BY <1>2, <1>4, <1>5, ReplayIs
<1> HIDE DEF before, over
<1>8. Clean = b.ch_buf /\ Clean' = b.ch_buf /\ pc' \in {"match", "find"}
  BY <1>1, <1>3 DEF Clean
<1>9. /\ GlobalsShape(g') /\ g'.n_chars = n /\ g'.text_ptr = g.text_ptr /\ g'.c_buf_p \in {at, at + 1}
      /\ g'.more_len = g.more_len /\ ~g'.more_flag
  BY <1>2, <1>3 DEF IInv, Shapes, GlobalsShape
\* What both ways have in common.
<1>10. ASSUME Locals(l'), l'.bp = l.bp, l'.cp <= n, AtMatch', AtFind' PROVE IInv'
  <2>1. Shapes'
    BY <1>1, <1>8, <1>9, <1>10 DEF IInv, Shapes
  <2>2. InRange'
    <3>1. g'.c_buf_p \in 0 .. b.buf_size + 1 /\ l.bp <= b.buf_size + 1
      BY <1>4, <1>9
    <3>2. l'.cp <= b.buf_size + 1
      BY <1>4, <1>10 DEF Locals
    <3> QED
      BY <1>1, <1>10, <3>1, <3>2 DEF InRange
  <2>3. Texts' /\ Sourced' /\ Fresh'
    BY <1>1, <1>2, <1>8, <1>9 DEF IInv, Texts, Sourced, Fresh
  <2>4. InToken'
    <3>1. l.bp - g.more_len = g.text_ptr /\ l.bp \in 0 .. n
      BY <1>2, <1>4, InvTypes
    <3> QED
      BY <1>2, <1>8, <1>9, <1>10, <3>1 DEF InToken
  <2> QED
    BY <1>8, <1>10, <2>1, <2>2, <2>3, <2>4
       DEF IInv, Phases, AtStart, AtEob, InCall, AtAction, AtInput, AtEof
<1>11. CASE NulState(before.cs) # Jam
  <2>1. l' = over /\ pc' = "match"
    BY <1>3, <1>11
  <2>2. AtMatch'
    <3>1. Ready(l')
      BY <1>7, <2>1
    <3>2. Ready(l)'
      BY <1>1, <3>1 DEF Ready, LastOK, Accepts, BackUpTo, YyAccept
    <3> QED
      BY <1>4, <1>7, <1>9, <2>1, <3>2 DEF AtMatch
  <2>3. AtFind'
    BY <2>1 DEF AtFind
  <2> QED
    BY <1>4, <1>7, <1>10, <2>1, <2>2, <2>3
<1>12. CASE NulState(before.cs) = Jam
  <2>1. at > l.bp
    <3>1. before.cs # Start
      BY <1>12, AutomatonAssumption, CharsAssumption, Numbering DEF NulState, States
    <3> QED
      BY <1>4, <1>6, <3>1 DEF Ready
  <2>2. LastOK(over, at + 1)
    BY <1>4, <1>7, <2>1
  <2>3. /\ YyAccept(over.last.state) \in Rules /\ BackUpTo(over.last) \in l.bp + 1 .. n
        /\ over.last.state \in States
    <3>1. YyAccept(over.last.state) \in Rules /\ BackUpTo(over.last) \in l.bp + 1 .. at + 1
      BY <1>7, <2>2 DEF LastOK
    <3>2. BackUpTo(over.last) \in l.bp + 1 .. n
      BY <1>4, <3>1
    <3> QED
      BY <1>7, <3>1, <3>2, YyAcceptIs DEF Locals, States
  <2>4. Locals(l') /\ l'.bp = l.bp /\ l'.cp \in l.bp + 1 .. n /\ l'.cs \in States
        /\ (LastOK(l', n) \/ Accepts(l'))
    <3>1. CASE mode = "full"
      <4>1. l' = before
        BY <1>3, <1>12, <3>1
      <4>2. LastOK(before, n)
        <5>1. LastOK(before, at)
          BY <1>4, <1>6, <2>1, <3>1 DEF Ready, Accepts
        <5> QED
          BY <1>4, <1>6, <5>1 DEF LastOK
      <4> QED
        BY <1>4, <1>6, <2>1, <4>1, <4>2
    <3>2. CASE mode = "interactive"
      <4> DEFINE r == [before EXCEPT !.last = over.last]
      <4>1. l' = r
        BY <1>3, <1>12, <3>2
      <4>2. Locals(r) /\ r.bp = l.bp /\ r.cp = at /\ r.cs \in States /\ r.last = over.last
        BY <1>6, <1>7 DEF Locals
      <4> HIDE DEF r
      <4>3. LastOK(r, n)
        BY <2>3, <4>2 DEF LastOK
      <4> QED
        BY <1>4, <2>1, <4>1, <4>2, <4>3
    <3>3. CASE mode # "full" /\ mode # "interactive"
      <4> DEFINE r == [over EXCEPT !.cp = over.last.cpos, !.cs = over.last.state]
      <4>1. l' = r
        BY <1>3, <1>12, <3>3
      <4>2. over.last.cpos \in l.bp + 1 .. n /\ over.last.state \in AllStates
        BY <2>3, <3>3 DEF BackUpTo, AllStates
      <4>3. Locals(r) /\ r.bp = l.bp /\ r.cp = over.last.cpos /\ r.cs = over.last.state
        BY <1>4, <1>7, <4>2 DEF Locals
      <4> HIDE DEF r
      <4>4. Accepts(r)
        BY <2>3, <3>3, <4>3 DEF Accepts
      <4> QED
        BY <2>3, <4>1, <4>2, <4>3, <4>4
    <3> QED
      BY <3>1, <3>2, <3>3
  <2>5. Settled(l', n)
    BY <1>4, <2>4, Settles
  <2>6. AtFind' /\ AtMatch'
    BY <1>1, <1>3, <1>9, <1>12, <2>5 DEF AtFind, AtMatch, Settled, FoundIn, YyAccept, BackUpTo
  <2> QED
    BY <1>4, <1>10, <2>4, <2>6
<1> QED
  BY <1>11, <1>12

\* A NUL that hides a NUL: the buffer with nothing hidden is the buffer.
LEMMA NothingHidden ==
  ASSUME pc' \in {"start", "action", "eof"}, BufferShape(b'),
         NEW size, NEW n, Marked(b'.ch_buf, size, n),
         g'.c_buf_p \in DOMAIN b'.ch_buf, b'.ch_buf[g'.c_buf_p] = NUL, g'.hold_char = NUL
  PROVE  Marked(Clean', size, n) /\ \A lo : Holds(b'.ch_buf, lo, n) => Holds(Clean', lo, n)
<1>1. Clean' = [b'.ch_buf EXCEPT ![g'.c_buf_p] = NUL]
  BY DEF Clean, Restored, BufferShape
<1>2. DOMAIN Clean' = DOMAIN b'.ch_buf /\ \A i \in DOMAIN b'.ch_buf : Clean'[i] = b'.ch_buf[i]
  BY <1>1
<1> QED
  BY <1>2, SameCells

\* YY_NEW_FILE, as Refill and InputRefill do it after a read that found an end.
LEMMA RestartedInv ==
  ASSUME NEW bb, BufferShape(bb), bb.fill, NEW gg, GlobalsShape(gg),
         b' = Restart(bb, gg).b, g' = Restart(bb, gg).g, pc' \in {"start", "action"}
  PROVE  /\ BufferShape(b') /\ GlobalsShape(g') /\ b'.fill /\ b'.buf_size = bb.buf_size
         /\ b'.status = "NEW" /\ b'.n_chars = 0
         /\ g'.n_chars = 0 /\ g'.text_ptr = 0 /\ g'.c_buf_p = 0
         /\ g'.more_flag = gg.more_flag /\ g'.more_len = gg.more_len
         /\ Marked(Clean', bb.buf_size, 0) /\ Holds(Clean', 0, 0)
<1>1. /\ BufferShape(b') /\ GlobalsShape(g') /\ b'.fill /\ b'.buf_size = bb.buf_size
      /\ b'.status = "NEW" /\ b'.n_chars = 0
      /\ g'.n_chars = 0 /\ g'.text_ptr = 0 /\ g'.c_buf_p = 0 /\ g'.hold_char = NUL
      /\ g'.more_flag = gg.more_flag /\ g'.more_len = gg.more_len
      /\ Marked(b'.ch_buf, bb.buf_size, 0)
  BY RestartIs
<1>2. b'.ch_buf[0] = NUL /\ 0 \in DOMAIN b'.ch_buf
  BY <1>1 DEF Marked
<1>3. Holds(b'.ch_buf, 0, 0)
  BY DEF Holds
<1>4. Marked(Clean', bb.buf_size, 0) /\ Holds(Clean', 0, 0)
  BY <1>1, <1>2, <1>3, NothingHidden
<1> QED
  BY <1>1, <1>4

\* yylex() goes on matching, or backs up, in the text after a refill.
LEMMA ResumedInv ==
  ASSUME IInv, mode' = mode, input' = input, StreamShape(yyin'),
         BufferShape(b'), GlobalsShape(g'), Locals(l'), ~g'.more_flag, Sourced', b'.status # "NEW",
         Marked(b'.ch_buf, b'.buf_size, g'.n_chars), Holds(b'.ch_buf, g'.text_ptr, g'.n_chars),
         g'.c_buf_p \in 0 .. g'.n_chars, l'.bp = g'.text_ptr + g'.more_len,
         l'.cp \in l'.bp .. g'.n_chars, pc' \in {"match", "find"}, l'.cs \in States,
         pc' = "match" => Ready(l'), pc' = "find" => Settled(l', g'.n_chars)
  PROVE  IInv'
<1>1. Clean' = b'.ch_buf
  BY DEF Clean
<1>2. /\ b'.buf_size \in Nat /\ g'.n_chars \in Nat /\ g'.n_chars <= b'.buf_size
      /\ g'.text_ptr \in Nat /\ g'.more_len \in Nat /\ l'.bp \in Nat /\ l'.cp \in Nat
      /\ l'.bp <= l'.cp /\ l'.cp <= g'.n_chars
  BY DEF Marked, Holds, GlobalsShape, Locals
<1>3. Shapes' /\ Texts' /\ Fresh'
  BY <1>1 DEF IInv, Shapes, Texts, Fresh
<1>4. InRange'
  BY <1>2 DEF InRange
<1>5. InToken'
  <2>1. l'.bp - g'.more_len = g'.text_ptr /\ l'.bp \in 0 .. g'.n_chars
    BY <1>2
  <2> QED
    BY <1>1, <2>1 DEF InToken
<1>6. AtMatch'
  BY DEF AtMatch, Ready, LastOK, Accepts, BackUpTo, YyAccept
<1>7. AtFind'
  BY DEF AtFind, Settled, FoundIn, YyAccept, BackUpTo
<1> QED
  BY <1>3, <1>4, <1>5, <1>6, <1>7 DEF IInv, Phases, AtStart, AtEob, InCall, AtAction, AtInput, AtEof

\* yylex() returns at an end of file, with no text left.
LEMMA EndedInv ==
  ASSUME IInv, mode' = mode, input' = input, StreamShape(yyin'), Over(yyin'), l' = l, pc' = "eof",
         BufferShape(b'), b'.buf_size >= b.buf_size, GlobalsShape(g'), ~g'.more_flag,
         Marked(b'.ch_buf, b'.buf_size, g'.n_chars), Holds(b'.ch_buf, g'.text_ptr, g'.n_chars),
         g'.c_buf_p = g'.n_chars, g'.hold_char = NUL,
         b'.status = "NEW" => b'.n_chars = 0 /\ g'.n_chars = g'.more_len
  PROVE  IInv'
<1>1. /\ b'.buf_size \in Nat /\ g'.n_chars \in Nat /\ g'.n_chars <= b'.buf_size
      /\ DOMAIN b'.ch_buf = 0 .. b'.buf_size + 1 /\ b'.ch_buf[g'.n_chars] = NUL
      /\ g'.n_chars \in 0 .. b'.buf_size + 1
  BY DEF Marked
<1>2. Holds(b'.ch_buf, g'.c_buf_p, g'.n_chars)
  BY <1>1 DEF Holds
<1>3. /\ Marked(Clean', b'.buf_size, g'.n_chars) /\ Holds(Clean', g'.text_ptr, g'.n_chars)
      /\ Holds(Clean', g'.c_buf_p, g'.n_chars)
  BY <1>1, <1>2, NothingHidden
<1>4. Shapes' /\ Texts' /\ Sourced'
  BY <1>3 DEF IInv, Shapes, Texts, Sourced, Over
<1>5. InRange'
  <2>1. l.cp <= b.buf_size + 1 /\ l.bp <= b.buf_size + 1 /\ l.cp \in Nat /\ l.bp \in Nat /\ b.buf_size \in Nat
    BY InvTypes DEF IInv, InRange
  <2>2. l.cp <= b'.buf_size + 1 /\ l.bp <= b'.buf_size + 1
    BY <1>1, <2>1
  <2> QED
    BY <1>1, <2>2 DEF InRange
<1>6. Fresh'
  <2>1. b'.status = "NEW" => b'.n_chars = g'.n_chars \/ g'.more_len # 0
    OBVIOUS
  <2> QED
    BY <2>1 DEF Fresh
<1>7. AtEof'
  BY <1>3 DEF AtEof
<1> QED
  BY <1>4, <1>5, <1>6, <1>7
     DEF IInv, Phases, AtStart, InToken, AtMatch, AtFind, AtEob, InCall, AtAction, AtInput

\* A refill keeps the invariant, whatever it brings.
LEMMA RefillInv == ASSUME IInv, Refill PROVE IInv'
<1> DEFINE n == g.n_chars
           amount == l.cp - g.text_ptr - 1
<1>1. /\ pc = "eob" /\ g.c_buf_p > n /\ mode' = mode /\ input' = input
  BY DEF Refill, Kept
<1>2. /\ Marked(b.ch_buf, b.buf_size, n) /\ Holds(b.ch_buf, g.text_ptr, n) /\ Holds(b.ch_buf, l.bp, n)
      /\ l.bp = g.text_ptr + g.more_len /\ l.bp <= n /\ g.c_buf_p = l.cp /\ l.cp <= n + 1
      /\ b.status # "NEW" /\ ~g.more_flag /\ g.hold_char = b.ch_buf[g.c_buf_p]
  BY <1>1, EobIs
<1>3. /\ BufferShape(b) /\ GlobalsShape(g) /\ Locals(l) /\ StreamShape(yyin)
      /\ (b.status = "EOF_PENDING" => yyin.cur = <<>>) /\ (~b.fill => Over(yyin))
  BY DEF IInv, Shapes, Sourced
<1>4. /\ g.text_ptr \in Nat /\ g.more_len \in Nat /\ n \in Nat /\ b.buf_size \in Nat /\ n <= b.buf_size
      /\ l.bp \in Nat /\ l.cp = n + 1 /\ g.c_buf_p = n + 1 /\ g.text_ptr <= n
      /\ MovedChars(g) = n - g.text_ptr /\ amount = n - g.text_ptr /\ MovedChars(g) \in 0 .. b.buf_size
      /\ amount \in Nat /\ g.more_len <= amount /\ g.c_buf_p \in g.text_ptr + 1 .. n + 1
  <2>1. /\ g.text_ptr \in Nat /\ g.more_len \in Nat /\ n \in Nat /\ b.buf_size \in Nat /\ n <= b.buf_size
        /\ l.cp \in Nat
    BY InvTypes
  <2>2. l.cp = n + 1 /\ g.text_ptr <= n /\ g.more_len <= n - g.text_ptr /\ l.bp \in Nat
    BY <1>1, <1>2, <2>1
  <2>3. MovedChars(g) = n - g.text_ptr
    BY <1>2, <2>1, <2>2 DEF MovedChars
  <2>4. amount = n - g.text_ptr
    BY <2>1, <2>2
  <2>5. n - g.text_ptr \in 0 .. b.buf_size
    BY <2>1, <2>2
  <2> HIDE DEF n, amount
  <2> QED
    BY <1>2, <2>1, <2>2, <2>3, <2>4, <2>5
<1>5. PICK k \in Reads(g) :
        LET r == NextBuffer(g, k)
            bp == r.g.text_ptr + g.more_len
            restarted == Restart(r.b, r.g)
        IN  /\ r.ret = "CONTINUE_SCAN" =>
                 /\ b' = r.b
                 /\ g' = [r.g EXCEPT !.c_buf_p = r.g.text_ptr + amount]
                 /\ l' = Replay(r.b.ch_buf, bp, r.g.text_ptr + amount)
                 /\ pc' = "match"
                 /\ yyin' = AfterRead(k)
            /\ r.ret = "LAST_MATCH" =>
                 /\ b' = r.b
                 /\ g' = [r.g EXCEPT !.c_buf_p = r.g.n_chars]
                 /\ l' = Replay(r.b.ch_buf, bp, r.g.n_chars)
                 /\ pc' = "find"
                 /\ yyin' = AfterRead(k)
            /\ r.ret = "END_OF_FILE" /\ AfterRead(k).next = <<>> =>
                 /\ b' = r.b
                 /\ g' = [r.g EXCEPT !.c_buf_p = r.g.text_ptr + g.more_len]
                 /\ pc' = "eof"
                 /\ yyin' = AfterRead(k)
                 /\ l' = l
            /\ r.ret = "END_OF_FILE" /\ AfterRead(k).next # <<>> =>
                 /\ b' = restarted.b
                 /\ g' = restarted.g
                 /\ pc' = "start"
                 /\ yyin' = [cur |-> Head(AfterRead(k).next), next |-> Tail(AfterRead(k).next),
                             eof |-> FALSE]
                 /\ l' = l
  BY DEF Refill
<1> DEFINE r == NextBuffer(g, k)
           bp == r.g.text_ptr + g.more_len
<1>6. CASE b.fill
  <2>1. /\ BufferShape(r.b) /\ r.b.fill /\ r.b.buf_size >= b.buf_size
        /\ GlobalsShape(r.g) /\ r.g.text_ptr = 0
        /\ r.g.more_flag = g.more_flag /\ r.g.more_len = g.more_len
        /\ r.g.n_chars = MovedChars(g) + k
        /\ Marked(r.b.ch_buf, r.b.buf_size, r.g.n_chars) /\ Holds(r.b.ch_buf, 0, r.g.n_chars)
        /\ \/ r.ret = "CONTINUE_SCAN" /\ k # 0 /\ r.b.status = b.status /\ r.b.n_chars = k
           \/ /\ r.ret = "LAST_MATCH" /\ k = 0 /\ MovedChars(g) # g.more_len
              /\ r.b.status = "EOF_PENDING"
           \/ /\ r.ret = "END_OF_FILE" /\ k = 0 /\ MovedChars(g) = g.more_len
              /\ r.b.status = "NEW" /\ r.b.n_chars = 0 /\ r.g.hold_char = NUL /\ r.g.c_buf_p = 0
    BY <1>2, <1>3, <1>4, <1>6, NextBufferIs
  <2>2. /\ k \in Nat
        /\ k # 0 => CanRead
        /\ StreamShape(AfterRead(k))
        /\ k = 0 => AfterRead(k).cur = <<>>
    BY <1>3, <1>4, <1>6, ReadIs
  <2>3. bp = g.more_len /\ r.g.text_ptr + amount = amount /\ r.g.n_chars = amount + k
    BY <1>4, <2>1
  <2>4. CASE r.ret = "CONTINUE_SCAN"
    <3>1. /\ b' = r.b /\ g' = [r.g EXCEPT !.c_buf_p = amount]
          /\ l' = Replay(r.b.ch_buf, g.more_len, amount)
          /\ pc' = "match" /\ yyin' = AfterRead(k)
      BY <1>5, <2>3, <2>4
    <3>2. k # 0 /\ r.b.status = b.status
      BY <2>1, <2>4
    <3>3. CanRead
      BY <2>2, <3>2
    <3> HIDE DEF r, bp
    <3>4. /\ GlobalsShape(g') /\ g'.text_ptr = 0 /\ g'.n_chars = amount + k /\ g'.c_buf_p = amount
          /\ g'.more_len = g.more_len /\ ~g'.more_flag
      BY <1>2, <2>1, <2>3, <3>1 DEF GlobalsShape
    <3>5. Marked(b'.ch_buf, b'.buf_size, g'.n_chars) /\ Holds(b'.ch_buf, 0, g'.n_chars)
      BY <2>1, <2>3, <3>1, <3>4
    <3>6. /\ amount + k \in Nat /\ amount \in g.more_len .. amount + k
          /\ g.more_len \in 0 .. amount + k /\ amount \in 0 .. amount + k
      <4> HIDE DEF amount
      <4> QED
        BY SMTT(60), <1>4, <2>2
    <3>7. Holds(b'.ch_buf, g.more_len, g'.n_chars)
      BY <1>4, <3>4, <3>5, <3>6 DEF Holds
    <3>8. /\ Locals(l') /\ l'.bp = g.more_len /\ l'.cp = amount /\ l'.cs \in States /\ Ready(l')
      <4>1. /\ Marked(r.b.ch_buf, r.b.buf_size, r.g.n_chars) /\ Holds(r.b.ch_buf, g.more_len, r.g.n_chars)
            /\ amount \in g.more_len .. r.g.n_chars
        BY <2>1, <2>3, <3>1, <3>4, <3>6, <3>7
      <4> HIDE DEF amount
      <4> QED
        BY <1>3, <3>1, <4>1, ReplayIs
    <3>9. Sourced'
      BY <1>6, <2>1, <3>1, <3>2, <3>3 DEF Sourced, CanRead
    <3>10. l'.bp = g'.text_ptr + g'.more_len
      BY <1>4, <3>4, <3>8
    <3>11. BufferShape(b') /\ b'.status # "NEW" /\ StreamShape(yyin')
      BY <1>2, <2>1, <2>2, <3>1, <3>2
    <3>12. g'.c_buf_p \in 0 .. g'.n_chars /\ l'.cp \in l'.bp .. g'.n_chars
      BY <3>4, <3>6, <3>8
    <3> QED
      BY <1>1, <3>1, <3>4, <3>5, <3>8, <3>9, <3>10, <3>11, <3>12, ResumedInv
  <2>5. CASE r.ret = "LAST_MATCH"
    <3>0. k = 0 /\ MovedChars(g) # g.more_len /\ r.b.status = "EOF_PENDING"
      BY <2>1, <2>5
    <3>1. /\ b' = r.b /\ g' = [r.g EXCEPT !.c_buf_p = r.g.n_chars]
          /\ l' = Replay(r.b.ch_buf, g.more_len, r.g.n_chars)
          /\ pc' = "find" /\ yyin' = AfterRead(k)
      BY <1>5, <2>3, <2>5
    <3> HIDE DEF r, bp
    <3>2. r.g.n_chars = amount /\ amount > g.more_len
      <4>1. amount # g.more_len
        BY <1>4, <3>0
      <4> HIDE DEF amount
      <4> QED
        BY <1>4, <2>3, <3>0, <4>1
    <3> HIDE DEF amount
    <3>4. /\ GlobalsShape(g') /\ g'.text_ptr = 0 /\ g'.n_chars = amount /\ g'.c_buf_p = amount
          /\ g'.more_len = g.more_len /\ ~g'.more_flag
      BY <1>2, <2>1, <3>1, <3>2 DEF GlobalsShape
    <3>5. Marked(b'.ch_buf, b'.buf_size, amount) /\ Holds(b'.ch_buf, 0, amount)
      BY <2>1, <3>1, <3>2
    <3>6. /\ amount \in g.more_len .. amount /\ g.more_len \in 0 .. amount /\ amount \in 0 .. amount
          /\ amount \in g.more_len + 1 .. amount
      BY <1>4, <3>2
    <3>7. Holds(b'.ch_buf, g.more_len, amount)
      BY <1>4, <3>5, <3>6 DEF Holds
    <3>8. /\ Locals(l') /\ l'.bp = g.more_len /\ l'.cp = amount /\ l'.cs \in States /\ Ready(l')
      BY <1>3, <3>1, <3>2, <3>5, <3>6, <3>7, ReplayIs
    <3>9. Settled(l', amount)
      <4>1. LastOK(l', amount) \/ Accepts(l')
        BY <1>4, <3>2, <3>8 DEF Ready
      <4> QED
        BY <1>4, <3>6, <3>8, <4>1, Settles
    <3>10. Sourced'
      BY <1>6, <2>1, <2>2, <3>0, <3>1 DEF Sourced
    <3>11. BufferShape(b') /\ b'.status # "NEW" /\ StreamShape(yyin')
      BY <2>1, <2>2, <3>0, <3>1
    <3>12. l'.bp = g'.text_ptr + g'.more_len /\ g'.c_buf_p \in 0 .. g'.n_chars
           /\ l'.cp \in l'.bp .. g'.n_chars
      BY <1>4, <3>4, <3>6, <3>8
    <3> QED
      BY <1>1, <3>1, <3>4, <3>5, <3>8, <3>9, <3>10, <3>11, <3>12, ResumedInv
  <2>6. CASE r.ret = "END_OF_FILE" /\ AfterRead(k).next = <<>>
    <3>0. k = 0 /\ MovedChars(g) = g.more_len /\ r.b.status = "NEW" /\ r.b.n_chars = 0 /\ r.g.hold_char = NUL
      BY <2>1, <2>6
    <3>1. /\ b' = r.b /\ g' = [r.g EXCEPT !.c_buf_p = g.more_len] /\ l' = l
          /\ pc' = "eof" /\ yyin' = AfterRead(k)
      BY <1>5, <2>3, <2>6
    <3> HIDE DEF r, bp
    <3>2. r.g.n_chars = g.more_len
      BY <1>4, <2>1, <3>0
    <3>3. /\ GlobalsShape(g') /\ g'.text_ptr = 0 /\ g'.n_chars = g.more_len /\ g'.c_buf_p = g.more_len
          /\ g'.more_len = g.more_len /\ ~g'.more_flag /\ g'.hold_char = NUL
      BY <1>2, <2>1, <3>0, <3>1, <3>2 DEF GlobalsShape
    <3>4. StreamShape(yyin') /\ Over(yyin')
      BY <2>2, <2>6, <3>0, <3>1 DEF Over
    <3>5. /\ BufferShape(b') /\ b'.buf_size >= b.buf_size /\ b'.n_chars = 0
          /\ Marked(b'.ch_buf, b'.buf_size, g'.n_chars) /\ Holds(b'.ch_buf, g'.text_ptr, g'.n_chars)
      BY <2>1, <3>0, <3>1, <3>2, <3>3
    <3> QED
      BY <1>1, <3>1, <3>3, <3>4, <3>5, EndedInv
  <2>7. CASE r.ret = "END_OF_FILE" /\ AfterRead(k).next # <<>>
    <3> DEFINE s == AfterRead(k)
    <3>1. /\ b' = Restart(r.b, r.g).b /\ g' = Restart(r.b, r.g).g /\ l' = l /\ pc' = "start"
          /\ yyin' = [cur |-> Head(s.next), next |-> Tail(s.next), eof |-> FALSE]
      BY <1>5, <2>7
    <3> HIDE DEF r, bp
    <3>2. /\ BufferShape(b') /\ GlobalsShape(g') /\ b'.fill /\ b'.buf_size = r.b.buf_size
          /\ b'.status = "NEW" /\ b'.n_chars = 0
          /\ g'.n_chars = 0 /\ g'.text_ptr = 0 /\ g'.c_buf_p = 0
          /\ g'.more_flag = r.g.more_flag /\ g'.more_len = r.g.more_len
          /\ Marked(Clean', r.b.buf_size, 0) /\ Holds(Clean', 0, 0)
      BY <2>1, <3>1, RestartedInv
    <3>3. StreamShape(yyin')
      <4> DEFINE C == Seq(Chars)
      <4>1. \A q \in Seq(C) : q # <<>> => Head(q) \in C /\ Tail(q) \in Seq(C)
        <5> HIDE DEF C
        <5> QED
          OBVIOUS
      <4>2. Head(s.next) \in Seq(Chars) /\ Tail(s.next) \in Seq(Seq(Chars))
        BY <2>2, <2>7, <4>1 DEF StreamShape
      <4> QED
        BY <3>1, <4>2 DEF StreamShape
    <3>4. Shapes' /\ Texts' /\ Sourced'
      BY <1>1, <1>3, <3>1, <3>2, <3>3 DEF IInv, Shapes, Texts, Sourced
    <3>5. InRange'
      <4>1. l.cp <= b.buf_size + 1 /\ l.bp <= b.buf_size + 1 /\ l.cp \in Nat /\ l.bp \in Nat
        BY InvTypes DEF IInv, InRange
      <4>2. b'.buf_size \in Nat /\ b'.buf_size >= b.buf_size
        BY <2>1, <3>2 DEF BufferShape
      <4>3. l.cp <= b'.buf_size + 1 /\ l.bp <= b'.buf_size + 1
        BY <1>4, <4>1, <4>2
      <4> QED
        BY <3>1, <3>2, <4>2, <4>3 DEF InRange
    <3>6. Fresh' /\ AtStart'
      BY <1>2, <2>1, <3>1, <3>2 DEF Fresh, AtStart
    <3> QED
      BY <3>1, <3>4, <3>5, <3>6
         DEF IInv, Phases, InToken, AtMatch, AtFind, AtEob, InCall, AtAction, AtInput, AtEof
  <2> QED
    BY <2>1, <2>4, <2>5, <2>6, <2>7
<1>7. CASE ~b.fill
  <2>1. k = 0 /\ AfterRead(k) = yyin
    BY <1>7 DEF Reads, AfterRead, CanRead
  <2>2. yyin.cur = <<>> /\ yyin.next = <<>>
    BY <1>3, <1>7 DEF Over
  <2>3. /\ r = [ret |-> IF g.c_buf_p - g.text_ptr - g.more_len = 1 THEN "END_OF_FILE" ELSE "LAST_MATCH",
                b |-> b, g |-> g]
    <3>1. ~(g.c_buf_p > g.n_chars + 1)
      BY <1>4
    <3> QED
      BY Zenon, <1>7, <3>1 DEF NextBuffer
  <2> HIDE DEF r
  <2>4. r.b = b /\ r.g = g /\ bp = l.bp
    BY <1>2, <2>3
  <2>5. CASE g.c_buf_p - g.text_ptr - g.more_len = 1
    <3>1. r.ret = "END_OF_FILE"
      BY <2>3, <2>5
    <3>2. b' = b /\ g' = [g EXCEPT !.c_buf_p = l.bp] /\ pc' = "eof" /\ yyin' = yyin /\ l' = l
      BY <1>2, <1>5, <2>1, <2>2, <2>4, <3>1 DEF r
    <3>3. l.bp = n
      BY <1>2, <1>4, <2>5
    <3>4. g.hold_char = NUL
      BY <1>2, <1>4 DEF Marked
    <3>5. /\ GlobalsShape(g') /\ g'.text_ptr = g.text_ptr /\ g'.n_chars = n /\ g'.c_buf_p = n
          /\ g'.hold_char = NUL /\ ~g'.more_flag
      BY <1>2, <1>3, <3>2, <3>3, <3>4 DEF GlobalsShape
    <3>6. Over(yyin') /\ StreamShape(yyin') /\ BufferShape(b') /\ b'.buf_size >= b.buf_size
      BY <1>3, <1>4, <2>2, <3>2 DEF Over
    <3>7. Marked(b'.ch_buf, b'.buf_size, g'.n_chars) /\ Holds(b'.ch_buf, g'.text_ptr, g'.n_chars)
      BY <1>2, <3>2, <3>5
    <3> QED
      BY <1>1, <1>2, <3>2, <3>5, <3>6, <3>7, EndedInv
  <2>6. CASE g.c_buf_p - g.text_ptr - g.more_len # 1
    <3>1. r.ret = "LAST_MATCH"
      BY <2>3, <2>6
    <3>2. /\ b' = b /\ g' = [g EXCEPT !.c_buf_p = n] /\ pc' = "find" /\ yyin' = yyin
          /\ l' = Replay(b.ch_buf, l.bp, n)
      BY <1>2, <1>5, <2>1, <2>4, <3>1 DEF r
    <3>3. l.bp < n
      BY <1>2, <1>4, <2>6
    <3>4. /\ GlobalsShape(g') /\ g'.text_ptr = g.text_ptr /\ g'.n_chars = n /\ g'.c_buf_p = n
          /\ g'.more_len = g.more_len /\ ~g'.more_flag
      BY <1>2, <1>3, <3>2 DEF GlobalsShape
    <3>5. n \in l.bp .. n /\ n \in l.bp + 1 .. n /\ n \in 0 .. n
      BY <1>4, <3>3
    <3>6. /\ Locals(l') /\ l'.bp = l.bp /\ l'.cp = n /\ l'.cs \in States /\ Ready(l')
      BY <1>2, <1>3, <3>2, <3>5, ReplayIs
    <3>7. Settled(l', n)
      <4>1. LastOK(l', n) \/ Accepts(l')
        BY <1>4, <3>3, <3>6 DEF Ready
      <4> QED
        BY <1>4, <3>5, <3>6, <4>1, Settles
    <3>8. Sourced'
      BY <1>3, <3>2 DEF Sourced, Over
    <3>9. /\ StreamShape(yyin') /\ BufferShape(b') /\ b'.status # "NEW"
          /\ Marked(b'.ch_buf, b'.buf_size, g'.n_chars) /\ Holds(b'.ch_buf, g'.text_ptr, g'.n_chars)
      BY <1>2, <1>3, <3>2, <3>4
    <3>10. g'.c_buf_p \in 0 .. g'.n_chars /\ l'.bp = g'.text_ptr + g'.more_len /\ l'.cp \in l'.bp .. g'.n_chars
      BY <1>2, <3>4, <3>5, <3>6
    <3> QED
      BY <1>1, <3>2, <3>4, <3>6, <3>7, <3>8, <3>9, <3>10, ResumedInv
  <2> QED
    BY <2>5, <2>6
<1> QED
  BY <1>6, <1>7

\* input() at the end of the text keeps the invariant.
LEMMA InputRefillInv == ASSUME IInv, InputRefill PROVE IInv'
<1> DEFINE past == [g EXCEPT !.c_buf_p = @ + 1]
           n == g.n_chars
           move == n - g.text_ptr
<1>1. /\ pc = "input" /\ AtMark /\ mode' = mode /\ input' = input /\ l' = l
  BY DEF InputRefill, Kept
<1>2. Clean = b.ch_buf
  BY <1>1 DEF Clean
<1>3. /\ Marked(b.ch_buf, b.buf_size, n) /\ Holds(b.ch_buf, g.text_ptr, n)
      /\ Holds(b.ch_buf, g.c_buf_p, n)
      /\ move > g.more_len \/ (n = g.text_ptr /\ Over(yyin))
      /\ ~g.more_flag /\ ~l.intact
      /\ g.c_buf_p = n => b.fill /\ (yyin.cur # <<>> \/ yyin.next = <<>>)
  BY <1>1, <1>2 DEF IInv, Texts, Phases, InCall, AtInput
<1>4. g.c_buf_p = n /\ b.fill /\ (yyin.cur # <<>> \/ yyin.next = <<>>)
  <2>1. g.c_buf_p <= n /\ g.c_buf_p >= n
    BY <1>1, <1>3, InvTypes DEF AtMark, Holds
  <2> QED
    BY <1>3, <2>1, InvTypes
<1>5. /\ BufferShape(b) /\ GlobalsShape(g) /\ StreamShape(yyin)
      /\ (b.status = "EOF_PENDING" => yyin.cur = <<>>)
      /\ b.status = "NEW" => Over(yyin)
  BY <1>1, <1>4 DEF IInv, Shapes, Sourced, Fresh
<1>6. /\ g.text_ptr \in Nat /\ g.more_len \in Nat /\ n \in Nat /\ b.buf_size \in Nat /\ n <= b.buf_size
      /\ g.text_ptr <= n /\ move \in Nat /\ move \in 0 .. b.buf_size
  BY InvTypes
<1>7. /\ GlobalsShape(past) /\ past.c_buf_p = n + 1 /\ past.n_chars = n /\ past.text_ptr = g.text_ptr
      /\ past.more_flag = g.more_flag /\ past.more_len = g.more_len
  BY <1>4, <1>5 DEF GlobalsShape
<1>8. PICK k \in Reads(past) :
        LET r == NextBuffer(past, k)
            ended == IF r.ret = "LAST_MATCH" THEN Restart(r.b, r.g) ELSE [b |-> r.b, g |-> r.g]
        IN  /\ r.ret = "CONTINUE_SCAN" =>
                 TakeChar(r.b, r.g, r.g.text_ptr + (g.c_buf_p - g.text_ptr)) /\ yyin' = AfterRead(k)
            /\ r.ret \in {"END_OF_FILE", "LAST_MATCH"} /\ AfterRead(k).next = <<>> =>
                 b' = ended.b /\ g' = ended.g /\ pc' = "action" /\ yyin' = AfterRead(k)
  BY DEF InputRefill
<1> DEFINE r == NextBuffer(past, k)
<1> HIDE DEF past
<1>9. MovedChars(past) = move
  BY <1>6, <1>7 DEF MovedChars
<1>10. past.c_buf_p \in past.text_ptr + 1 .. past.n_chars + 1
  BY <1>6, <1>7
<1>11. /\ BufferShape(r.b) /\ r.b.fill /\ r.b.buf_size >= b.buf_size
       /\ GlobalsShape(r.g) /\ r.g.text_ptr = 0
       /\ r.g.more_flag = g.more_flag /\ r.g.more_len = g.more_len
       /\ r.g.n_chars = move + k
       /\ Marked(r.b.ch_buf, r.b.buf_size, r.g.n_chars) /\ Holds(r.b.ch_buf, 0, r.g.n_chars)
       /\ \/ r.ret = "CONTINUE_SCAN" /\ k # 0 /\ r.b.status = b.status /\ r.b.n_chars = k
          \/ /\ r.ret = "LAST_MATCH" /\ k = 0 /\ move # g.more_len
             /\ r.b.status = "EOF_PENDING"
          \/ /\ r.ret = "END_OF_FILE" /\ k = 0 /\ move = g.more_len
             /\ r.b.status = "NEW" /\ r.b.n_chars = 0 /\ r.g.hold_char = NUL /\ r.g.c_buf_p = 0
  <2> HIDE DEF move, n
  <2>1. Marked(b.ch_buf, b.buf_size, past.n_chars) /\ Holds(b.ch_buf, past.text_ptr, past.n_chars)
    BY <1>3, <1>7
  <2> QED
    BY <1>4, <1>5, <1>7, <1>9, <1>10, <2>1, NextBufferIs
<1>12. /\ k \in Nat
       /\ k # 0 => CanRead
       /\ StreamShape(AfterRead(k))
       /\ k = 0 => AfterRead(k).cur = <<>>
       /\ yyin.next = <<>> => AfterRead(k).next = <<>>
       /\ yyin.cur = <<>> /\ yyin.next = <<>> => k = 0
       /\ k = 0 /\ yyin.cur # <<>> => yyin.next = <<>>
  <2>1. MovedChars(past) \in 0 .. b.buf_size
    BY <1>6, <1>9
  <2> QED
    BY <1>4, <1>5, <2>1, ReadIs
<1> HIDE DEF r
<1>13. ASSUME b'.buf_size = r.b.buf_size, g'.c_buf_p \in 0 .. r.b.buf_size + 1 PROVE InRange'
  <2>1. l.cp <= b.buf_size + 1 /\ l.bp <= b.buf_size + 1 /\ l.cp \in Nat /\ l.bp \in Nat
    BY InvTypes DEF IInv, InRange
  <2>2. r.b.buf_size \in Nat /\ r.b.buf_size >= b.buf_size
    BY <1>11 DEF BufferShape
  <2>3. l.cp <= r.b.buf_size + 1 /\ l.bp <= r.b.buf_size + 1
    BY <1>6, <2>1, <2>2
  <2> QED
    BY <1>1, <1>13, <2>3 DEF InRange
<1>14. CASE r.ret = "CONTINUE_SCAN"
  <2>1. k # 0 /\ r.b.status = b.status /\ CanRead /\ ~Over(yyin)
    BY <1>11, <1>12, <1>14 DEF Over
  <2> DEFINE total == move + k
  <2>2. /\ move \in 0 .. total - 1 /\ r.g.text_ptr + (g.c_buf_p - g.text_ptr) = move /\ total \in Nat
        /\ total > g.more_len /\ move + 1 \in 0 .. total /\ total - 0 = total
    <3>1. move > g.more_len
      BY <1>3, <2>1
    <3>2. r.g.text_ptr + (g.c_buf_p - g.text_ptr) = move
      BY <1>4, <1>6, <1>11
    <3> HIDE DEF move
    <3> QED
      BY <1>6, <1>12, <2>1, <3>1, <3>2
  <2>3. TakeChar(r.b, r.g, move) /\ yyin' = AfterRead(k)
    BY <1>8, <1>14, <2>2 DEF r
  <2> HIDE DEF total
  <2>4. Marked(r.b.ch_buf, r.b.buf_size, total) /\ Holds(r.b.ch_buf, 0, total) /\ r.g.n_chars = total
    BY <1>11 DEF total
  <2> HIDE DEF move
  <2>5. /\ pc' = "action" /\ BufferShape(b') /\ b'.buf_size = r.b.buf_size
        /\ b'.n_chars = r.b.n_chars /\ b'.fill = r.b.fill /\ b'.status = r.b.status
        /\ GlobalsShape(g') /\ g'.n_chars = total /\ g'.c_buf_p = move + 1 /\ g'.text_ptr = r.g.text_ptr
        /\ g'.more_flag = r.g.more_flag /\ g'.more_len = r.g.more_len
        /\ Marked(Clean', r.b.buf_size, total)
        /\ \A lo : Holds(r.b.ch_buf, lo, total) => Holds(Clean', lo, total)
    BY ZenonT(60), <1>11, <2>2, <2>3, <2>4, TakenIs
  <2>6. Holds(r.b.ch_buf, move + 1, total)
    <3>1. \A i \in move + 1 .. total - 1 : i \in 0 .. total - 1
      BY <1>6, <2>2
    <3> QED
      BY <2>2, <2>4, <3>1 DEF Holds
  <2>7. Texts'
    BY <1>11, <2>4, <2>5 DEF Texts
  <2>8. InCall' /\ AtAction'
    <3>1. Holds(Clean', move + 1, total)
      BY <2>5, <2>6
    <3>2. g'.n_chars - g'.text_ptr > g'.more_len
      BY <1>11, <2>2, <2>5
    <3> QED
      BY <1>1, <1>3, <1>11, <2>5, <3>1, <3>2 DEF InCall, AtAction
  <2>9. Shapes'
    BY <1>1, <1>12, <2>3, <2>5 DEF IInv, Shapes
  <2>10. Sourced'
    BY <1>11, <2>1, <2>5 DEF Sourced, CanRead
  <2>11. Fresh'
    BY <1>5, <2>1, <2>5 DEF Fresh
  <2>12. InRange'
    <3>1. total <= r.b.buf_size /\ r.b.buf_size \in Nat
      BY <2>4 DEF Marked
    <3>2. move + 1 \in 0 .. r.b.buf_size + 1
      BY <1>6, <2>2, <3>1
    <3> QED
      BY <1>13, <2>5, <3>2
  <2> QED
    BY <2>5, <2>7, <2>8, <2>9, <2>10, <2>11, <2>12
       DEF IInv, Phases, AtStart, InToken, AtMatch, AtFind, AtEob, AtInput, AtEof
<1>15. CASE r.ret \in {"END_OF_FILE", "LAST_MATCH"}
  <2>1. k = 0 /\ AfterRead(k).next = <<>> /\ AfterRead(k).cur = <<>>
    BY <1>4, <1>11, <1>12, <1>15
  \* The buffer is empty then, and nothing follows.
  <2>2. /\ BufferShape(b') /\ GlobalsShape(g') /\ b'.fill /\ b'.buf_size = r.b.buf_size
        /\ b'.status = "NEW" /\ b'.n_chars = 0 /\ pc' = "action" /\ yyin' = AfterRead(k)
        /\ g'.n_chars = 0 /\ g'.text_ptr = 0 /\ g'.c_buf_p = 0 /\ ~g'.more_flag
        /\ Marked(Clean', r.b.buf_size, 0) /\ Holds(Clean', 0, 0)
    <3>1. CASE r.ret = "LAST_MATCH"
      <4>1. b' = Restart(r.b, r.g).b /\ g' = Restart(r.b, r.g).g /\ pc' = "action" /\ yyin' = AfterRead(k)
        BY <1>8, <2>1, <3>1 DEF r
      <4> QED
        BY <1>3, <1>11, <4>1, RestartedInv
    <3>2. CASE r.ret = "END_OF_FILE"
      <4>1. b' = r.b /\ g' = r.g /\ pc' = "action" /\ yyin' = AfterRead(k)
        BY <1>8, <2>1, <3>2 DEF r
      <4>2. move = g.more_len /\ r.b.status = "NEW" /\ r.b.n_chars = 0 /\ r.g.hold_char = NUL /\ r.g.c_buf_p = 0
        BY <1>11, <3>2
      <4>3. r.g.n_chars = 0
        BY <1>3, <1>6, <1>11, <2>1, <4>2
      <4>4. Marked(b'.ch_buf, r.b.buf_size, 0) /\ Holds(b'.ch_buf, 0, 0)
        BY <1>11, <4>1, <4>3
      <4>5. 0 \in DOMAIN b'.ch_buf /\ b'.ch_buf[0] = NUL
        BY <4>4 DEF Marked
      <4>6. Marked(Clean', r.b.buf_size, 0) /\ Holds(Clean', 0, 0)
        BY <1>11, <4>1, <4>2, <4>4, <4>5, NothingHidden
      <4> QED
        BY <1>3, <1>11, <4>1, <4>2, <4>3, <4>6
    <3> QED
      BY <1>15, <3>1, <3>2
  <2>3. Over(yyin')
    BY <2>1, <2>2 DEF Over
  <2>4. Shapes' /\ Texts' /\ Sourced' /\ Fresh'
    BY <1>1, <1>12, <2>2, <2>3 DEF IInv, Shapes, Texts, Sourced, Fresh
  <2>5. InRange'
    <3>1. 0 \in 0 .. r.b.buf_size + 1
      BY <1>11 DEF BufferShape
    <3> QED
      BY <1>13, <2>2, <3>1
  <2>6. InCall' /\ AtAction'
    BY <1>1, <1>3, <2>2, <2>3 DEF InCall, AtAction
  <2> QED
    BY <2>2, <2>4, <2>5, <2>6
       DEF IInv, Phases, AtStart, InToken, AtMatch, AtFind, AtEob, AtInput, AtEof
<1> QED
  BY <1>11, <1>14, <1>15

----------------------------------------------------------------------------
(* The scanner keeps inside its buffer                                     *)

\* The invariant holds before the first match.
LEMMA InitInv == ASSUME Init PROVE IInv
<1> DEFINE C == Seq(Chars)
<1>1. input # <<>> /\ Head(input) \in Seq(Chars) /\ Tail(input) \in Seq(Seq(Chars))
  <2>1. \A q \in Seq(C) : q # <<>> => Head(q) \in C /\ Tail(q) \in Seq(C)
    <3> HIDE DEF C
    <3> QED
      OBVIOUS
  <2>2. input \in Seq(Seq(Chars)) /\ input # <<>>
    BY CharsAssumption DEF Init
  <2> QED
    BY <2>1, <2>2
<1>2. /\ mode \in Modes /\ input \in Inputs /\ pc = "start"
      /\ l = [cp |-> 0, bp |-> 0, cs |-> Start, last |-> [state |-> Jam, cpos |-> 0], intact |-> TRUE]
      /\ g = [n_chars |-> b.n_chars, c_buf_p |-> 0, text_ptr |-> 0,
              hold_char |-> b.ch_buf[0], more_flag |-> FALSE, more_len |-> 0, lineno |-> 1]
  BY DEF Init
<1>3. Locals(l)
  BY <1>2, AutomatonAssumption DEF Locals, AllStates, States
<1>4. GlobalsShape(g) /\ g.n_chars = b.n_chars /\ g.c_buf_p = 0 /\ g.text_ptr = 0
      /\ g.hold_char = b.ch_buf[0] /\ ~g.more_flag
  BY <1>2 DEF GlobalsShape
\* The buffer a file starts with, and the one in memory.
<1>5. /\ BufferShape(b) /\ b.status = "NEW" /\ StreamShape(yyin)
      /\ Marked(b.ch_buf, b.buf_size, b.n_chars) /\ Holds(b.ch_buf, 0, b.n_chars)
      /\ b.fill => b.n_chars = 0
      /\ ~b.fill => Over(yyin)
  <2>1. PICK source \in Sources :
          /\ source = "memory" => Len(input) = 1
          /\ yyin = [cur |-> IF source = "file" THEN Head(input) ELSE <<>>,
                     next |-> Tail(input), eof |-> FALSE]
          /\ b = IF source = "file"
                 THEN Loaded([i \in 0 .. YY_BUF_SIZE + 1 |-> IF i < 2 THEN NUL ELSE Undef],
                             YY_BUF_SIZE, 0, TRUE)
                 ELSE LET s == Head(input)
                      IN  Loaded([i \in 0 .. Len(s) + 1 |-> IF i < Len(s) THEN s[i + 1] ELSE NUL],
                                 Len(s), Len(s), FALSE)
    BY DEF Init
  <2>2. StreamShape(yyin)
    <3>1. <<>> \in Seq(Chars)
      OBVIOUS
    <3> QED
      BY <1>1, <2>1, <3>1 DEF StreamShape
  <2>3. CASE source = "file"
    <3> DEFINE ch == [i \in 0 .. YY_BUF_SIZE + 1 |-> IF i < 2 THEN NUL ELSE Undef]
    <3>1. b = Loaded(ch, YY_BUF_SIZE, 0, TRUE)
      BY <2>1, <2>3
    <3>2. DOMAIN ch = 0 .. YY_BUF_SIZE + 1 /\ ch[0] = NUL /\ ch[1] = NUL
      BY SizeAssumption
    <3> HIDE DEF ch
    <3>3. /\ b.ch_buf = ch /\ b.buf_size = YY_BUF_SIZE /\ b.n_chars = 0 /\ b.fill /\ b.status = "NEW"
          /\ BufferShape(b)
      BY <3>1, <3>2, SizeAssumption DEF Loaded, BufferShape
    <3>4. Marked(ch, YY_BUF_SIZE, 0) /\ Holds(ch, 0, 0)
      BY <3>2, SizeAssumption DEF Marked, Holds
    <3> QED
      BY <2>2, <3>3, <3>4
  <2>4. CASE source # "file"
    <3> DEFINE s == Head(input)
               m == Len(s)
               ch == [i \in 0 .. m + 1 |-> IF i < m THEN s[i + 1] ELSE NUL]
    <3>1. b = Loaded(ch, m, m, FALSE)
      BY <2>1, <2>4
    <3>2. m \in Nat /\ \A i \in 1 .. m : s[i] \in Chars
      BY <1>1
    <3>3. DOMAIN ch = 0 .. m + 1 /\ ch[m] = NUL /\ ch[m + 1] = NUL
      BY <3>2
    <3>4. ASSUME NEW i \in 0 .. m - 1 PROVE ch[i] \in Chars
      <4>1. i + 1 \in 1 .. m /\ i < m /\ i \in 0 .. m + 1
        BY <3>2
      <4>2. ch[i] = s[i + 1]
        BY <4>1
      <4> QED
        BY <3>2, <4>1, <4>2
    <3> HIDE DEF ch, s, m
    <3>5. /\ b.ch_buf = ch /\ b.buf_size = m /\ b.n_chars = m /\ ~b.fill /\ b.status = "NEW"
          /\ BufferShape(b)
      BY <3>1, <3>2, <3>3 DEF Loaded, BufferShape
    <3>6. Marked(ch, m, m) /\ Holds(ch, 0, m)
      BY <3>2, <3>3, <3>4 DEF Marked, Holds
    <3>7. Over(yyin)
      <4>1. source = "memory"
        BY <2>4, ModesAssumption
      <4>2. Len(input) = 1 /\ input \in Seq(Seq(Chars))
        BY <2>1, <4>1, CharsAssumption, <1>2
      <4>3. \A q \in Seq(C) : Len(q) = 1 => Tail(q) = <<>>
        <5> HIDE DEF C
        <5> SUFFICES ASSUME NEW q \in Seq(C), Len(q) = 1 PROVE Tail(q) = <<>>
          OBVIOUS
        <5>1. q # <<>>
          BY SMTT(60), EmptySeq
        <5>2. Tail(q) \in Seq(C) /\ Len(Tail(q)) = 0
          BY <5>1, HeadTailProperties
        <5> QED
          BY <5>2, EmptySeq
      <4>4. Tail(input) = <<>>
        BY <4>2, <4>3
      <4> QED
        BY <2>1, <2>4, <4>4 DEF Over
    <3> QED
      BY <2>2, <3>5, <3>6, <3>7
  <2> QED
    BY <2>3, <2>4
<1>6. 0 \in DOMAIN b.ch_buf /\ b.buf_size \in Nat
  BY <1>5 DEF Marked
<1>7. Clean = [b.ch_buf EXCEPT ![0] = b.ch_buf[0]]
  BY <1>2, <1>4, <1>5 DEF Clean, Restored, BufferShape
<1>8. Marked(Clean, b.buf_size, b.n_chars) /\ Holds(Clean, 0, b.n_chars)
  <2>1. DOMAIN Clean = DOMAIN b.ch_buf /\ \A i \in DOMAIN b.ch_buf : Clean[i] = b.ch_buf[i]
    BY <1>6, <1>7
  <2> QED
    BY <1>5, <2>1, SameCells
<1>9. Shapes /\ Texts /\ Sourced
  BY <1>2, <1>3, <1>4, <1>5, <1>8 DEF Shapes, Texts, Sourced
<1>10. InRange
  BY <1>2, <1>4, <1>6 DEF InRange
<1>11. Fresh /\ AtStart
  BY <1>2, <1>4, <1>5, <1>8 DEF Fresh, AtStart
<1> QED
  BY <1>2, <1>9, <1>10, <1>11
     DEF IInv, Phases, InToken, AtMatch, AtFind, AtEob, InCall, AtAction, AtInput, AtEof

\* Every step keeps the invariant.
LEMMA StepInv == ASSUME IInv, [Next]_vars, ~MoreAtEof, ~InputAtEof, NulsSaved PROVE IInv'
<1>1. CASE UNCHANGED vars
  <2>1. Clean' = Clean
    BY <1>1 DEF vars, Clean, Restored
  <2>2. Shapes' /\ InRange' /\ Texts' /\ Sourced' /\ Fresh'
    BY <1>1, <2>1 DEF vars, IInv, Shapes, InRange, Texts, Sourced, Fresh
  <2>3. AtStart' /\ InToken' /\ AtEob' /\ InCall' /\ AtAction' /\ AtInput' /\ AtEof'
    BY <1>1, <2>1 DEF vars, IInv, Phases, AtStart, InToken, AtEob, InCall, AtAction, AtInput, AtEof
  <2>4. AtMatch' /\ AtFind'
    BY <1>1 DEF vars, IInv, Phases, AtMatch, AtFind, Ready, LastOK, Accepts, Settled, FoundIn,
                BackUpTo, YyAccept
  <2> QED
    BY <2>2, <2>3, <2>4 DEF IInv, Phases
<1>2. CASE StartToken
  BY <1>2, StartTokenInv
<1>3. CASE Match
  BY <1>3, MatchInv
<1>4. CASE RuleMatched
  BY <1>4, RuleMatchedInv
<1>5. CASE EndOfBufferMatched
  BY <1>5, EndOfBufferMatchedInv
<1>6. CASE ReallyNul
  BY <1>6, ReallyNulInv
<1>7. CASE Refill
  BY <1>7, RefillInv
<1>8. CASE \E n \in 0 .. Len(yytext) : Less(n)
  BY <1>8, LessInv
<1>9. CASE More
  BY <1>9, MoreInv
<1>10. CASE \E c \in Pushable : Unput(c)
  BY <1>10, UnputInv
<1>11. CASE BeginInput
  BY <1>11, BeginInputInv
<1>12. CASE InputChar
  BY <1>12, InputCharInv
<1>13. CASE InputRefill
  BY <1>13, InputRefillInv
<1>14. CASE Return
  BY <1>14, ReturnInv
<1>15. CASE CallAgain
  BY <1>15, CallAgainInv
<1>16. CASE Terminated
  BY <1>1, <1>16 DEF Terminated
<1> QED
  BY <1>1, <1>2, <1>3, <1>4, <1>5, <1>6, <1>7, <1>8, <1>9, <1>10, <1>11, <1>12, <1>13, <1>14,
     <1>15, <1>16 DEF Next

\* The invariant says what the runs check.
LEMMA InvImplies == ASSUME IInv PROVE TypeOK /\ BufferWellFormed
<1>1. BufferWellFormed
  <2>1. Marked(Clean, b.buf_size, g.n_chars) /\ Holds(Clean, g.text_ptr, g.n_chars)
    BY DEF IInv, Texts
  <2> QED
    BY <2>1, CharsAssumption DEF Marked, Holds, BufferWellFormed
<1>2. TypeOK
  <2>1. /\ mode \in Modes /\ input \in Inputs /\ BufferShape(b) /\ GlobalsShape(g) /\ Locals(l)
        /\ pc \in {"start", "match", "find", "eob", "action", "input", "eof", "fatal"}
    BY DEF IInv, Shapes
  <2>2. {g.c_buf_p, g.text_ptr, l.cp, l.bp} \subseteq 0 .. b.buf_size + 1
    BY InvTypes DEF IInv, InRange
  <2> QED
    BY <2>1, <2>2 DEF TypeOK, BufferShape, GlobalsShape, Locals, AllStates, States
<1> QED
  BY <1>1, <1>2

\* The pointers of yylex() stay within the cells of yy_ch_buf, and its flags
\* and states within their types, in every run of every scanner with no
\* yy_NUL_trans beside compressed tables, whose caller keeps to the two rules:
\* not to call again after an end of file that a yymore() was waiting at, and
\* not to call input() where one file has ended and another follows.
THEOREM TypeCorrect ==
  ASSUME ~MoreAtEof, ~InputAtEof, NulsSaved PROVE Spec => []TypeOK
<1>1. Init => IInv
  BY InitInv
<1>2. IInv /\ [Next]_vars => IInv'
  BY StepInv
<1>3. IInv => TypeOK
  BY InvImplies
<1> QED
  BY <1>1, <1>2, <1>3, PTL DEF Spec

\* Of the same scanners, under the same two rules: the text that was read always fits yy_ch_buf, is
\* written in every cell, and is followed by both end-of-buffer marks, whatever
\* the rules of the scanner, the matching loop, the sizes of the buffer and of
\* the reads, and the calls of yyless, yymore, unput and input.
THEOREM BufferAlwaysEnds ==
  ASSUME ~MoreAtEof, ~InputAtEof, NulsSaved PROVE Spec => []BufferWellFormed
<1>1. Init => IInv
  BY InitInv
<1>2. IInv /\ [Next]_vars => IInv'
  BY StepInv
<1>3. IInv => BufferWellFormed
  BY InvImplies
<1> QED
  BY <1>1, <1>2, <1>3, PTL DEF Spec

----------------------------------------------------------------------------
(* The automaton over the text, and what a replay or the loop knows of it. *)

\* The states that module Lexer goes through, one transition at a time.
LEMMA ReachedSteps ==
  ASSUME NEW s \in Seq(Chars)
  PROVE  /\ \A n \in 0 .. Len(s) : Lex!Reached(s, n) \in States
         /\ Lex!Reached(s, 0) = Start
         /\ \A n \in 1 .. Len(s) :
              Lex!Reached(s, n) = IF Lex!Reached(s, n - 1) = Jam THEN Jam
                                  ELSE Delta[Lex!Reached(s, n - 1)][s[n]]
<1> DEFINE Goes(f, n) ==
             f = [i \in 0 .. n |-> IF i = 0 THEN Start
                                   ELSE IF f[i - 1] = 0 THEN 0 ELSE Delta[f[i - 1]][s[i]]]
<1>1. Start \in States /\ 0 \in States /\ \A q \in States \ {0}, c \in Chars : Delta[q][c] \in States
  BY AutomatonAssumption DEF States, Jam
<1>2. ASSUME NEW n \in 0 .. Len(s) PROVE \E f : Goes(f, n)
  <2> DEFINE G == [x \in (0 .. n) \X States |->
                     IF x[1] = 0 \/ x[2] = 0 THEN 0 ELSE Delta[x[2]][s[x[1]]]]
  <2>1. \A i \in 0 .. n : i # 0 => s[i] \in Chars
    OBVIOUS
  <2>2. G \in [(0 .. n) \X States -> States]
    BY <1>1, <2>1
  <2>3. PICK f \in [0 .. n -> States] : Recursion(f, 0, n, Start, G)
    <3> HIDE DEF G
    <3>1. 0 \in Int /\ n \in Int /\ 0 <= n /\ Start \in States
      BY <1>1
    <3> QED
      BY ONLY <2>2, <3>1, RecursionIs
  <2>4. Goes(f, n)
    <3>1. f = [i \in 0 .. n |-> IF i = 0 THEN Start ELSE G[<<i, f[i - 1]>>]]
      BY <2>3 DEF Recursion
    <3>2. ASSUME NEW i \in 0 .. n, i # 0
          PROVE  G[<<i, f[i - 1]>>] = IF f[i - 1] = 0 THEN 0 ELSE Delta[f[i - 1]][s[i]]
      <4>1. f[i - 1] \in States
        BY <2>3, <3>2
      <4> QED
        BY <3>2, <4>1
    <3> HIDE DEF G
    <3> QED
      BY <3>1, <3>2
  <2> QED
    BY <2>4
<1>3. ASSUME NEW n \in 0 .. Len(s), NEW f, Goes(f, n)
      PROVE  /\ f[0] = Start
             /\ \A i \in 1 .. n : f[i] = IF f[i - 1] = 0 THEN 0 ELSE Delta[f[i - 1]][s[i]]
             /\ \A i \in 0 .. n : f[i] \in States
  <2>1. f[0] = Start /\ \A i \in 1 .. n : f[i] = IF f[i - 1] = 0 THEN 0 ELSE Delta[f[i - 1]][s[i]]
    BY <1>3
  <2>2. \A i \in 1 .. n : s[i] \in Chars
    OBVIOUS
  <2> HIDE DEF Goes
  <2>3. \A i \in 0 + 1 .. n : f[i - 1] \in States => f[i] \in States
    BY <1>1, <2>1, <2>2
  <2>4. \A i \in 0 .. n : f[i] \in States
    <3>1. 0 \in Int /\ n \in Int /\ f[0] \in States
      BY <1>1, <2>1
    <3> QED
      BY ONLY <2>3, <3>1, PassedOn
  <2> QED
    BY <2>1, <2>4
<1>4. ASSUME NEW n \in 0 .. Len(s) PROVE \E f : Goes(f, n) /\ Lex!Reached(s, n) = f[n]
  <2> DEFINE r == CHOOSE f : Goes(f, n)
  <2>1. Lex!Reached(s, n) = r[n]
    BY DEF Lex!Reached
  <2>2. Goes(r, n)
    BY <1>2
  <2> QED
    BY <2>1, <2>2
<1> HIDE DEF Goes
<1>5. ASSUME NEW n \in 0 .. Len(s), NEW m \in 0 .. Len(s), n <= m,
             NEW f, Goes(f, n), NEW h, Goes(h, m)
      PROVE  f[n] = h[n]
  <2> DEFINE P == {k \in Nat : k <= n => f[k] = h[k]}
  <2>1. 0 \in P
    BY <1>3, <1>5
  <2>2. ASSUME NEW k \in Nat, k \in P PROVE k + 1 \in P
    <3> SUFFICES ASSUME k + 1 <= n PROVE f[k + 1] = h[k + 1]
      OBVIOUS
    <3>1. k + 1 \in 1 .. n /\ k + 1 \in 1 .. m /\ (k + 1) - 1 = k
      BY <1>5
    <3>2. f[k] = h[k]
      BY <2>2, <3>1
    <3> QED
      BY <1>3, <1>5, <3>1, <3>2
  <2> HIDE DEF P
  <2>3. n \in P
    BY <2>1, <2>2, SetInduction
  <2> QED
    BY <2>3 DEF P
<1>6. \A n \in 0 .. Len(s) : Lex!Reached(s, n) \in States
  BY <1>3, <1>4
<1>7. Lex!Reached(s, 0) = Start
  <2>1. 0 \in 0 .. Len(s)
    OBVIOUS
  <2> QED
    BY <1>3, <1>4, <2>1
<1>8. ASSUME NEW n \in 1 .. Len(s)
      PROVE  Lex!Reached(s, n) = IF Lex!Reached(s, n - 1) = Jam THEN Jam
                                 ELSE Delta[Lex!Reached(s, n - 1)][s[n]]
  <2>1. n - 1 \in 0 .. Len(s) /\ n \in 0 .. Len(s) /\ n - 1 <= n /\ n \in 1 .. n
    OBVIOUS
  <2>2. PICK f : Goes(f, n - 1) /\ Lex!Reached(s, n - 1) = f[n - 1]
    BY <1>4, <2>1
  <2>3. PICK h : Goes(h, n) /\ Lex!Reached(s, n) = h[n]
    BY <1>4, <2>1
  <2>4. f[n - 1] = h[n - 1]
    BY <1>5, <2>1, <2>2, <2>3
  <2>5. h[n] = IF h[n - 1] = 0 THEN 0 ELSE Delta[h[n - 1]][s[n]]
    BY <1>3, <2>1, <2>3
  <2> QED
    BY <2>2, <2>3, <2>4, <2>5 DEF Jam
<1> QED
  BY <1>6, <1>7, <1>8

\* Once it has jammed it stays so.
LEMMA JamStays ==
  ASSUME NEW s \in Seq(Chars), NEW n \in 0 .. Len(s), Lex!Reached(s, n) = Jam
  PROVE  \A k \in n .. Len(s) : Lex!Reached(s, k) = Jam
<1>1. \A k \in n + 1 .. Len(s) : Lex!Reached(s, k - 1) = Jam => Lex!Reached(s, k) = Jam
  BY ReachedSteps
<1> DEFINE f == [k \in n .. Len(s) |-> Lex!Reached(s, k)]
<1>2. n \in Int /\ Len(s) \in Int /\ f[n] \in {Jam}
  OBVIOUS
<1>3. \A k \in n + 1 .. Len(s) : f[k - 1] \in {Jam} => f[k] \in {Jam}
  BY <1>1
<1>4. \A k \in n .. Len(s) : f[k] \in {Jam}
  <2> HIDE DEF f
  <2> QED
    BY ONLY <1>2, <1>3, PassedOn
<1> QED
  BY <1>4

\* From a state with jams only, the next character jams.
LEMMA NoWayOn ==
  ASSUME NEW s \in Seq(Chars), NEW n \in 0 .. Len(s), OnlyJams(Lex!Reached(s, n))
  PROVE  \A k \in n + 1 .. Len(s) : Lex!Reached(s, k) = Jam
<1> SUFFICES ASSUME n + 1 <= Len(s) PROVE \A k \in n + 1 .. Len(s) : Lex!Reached(s, k) = Jam
  OBVIOUS
<1>1. n + 1 \in 1 .. Len(s) /\ (n + 1) - 1 = n /\ n + 1 \in 0 .. Len(s) /\ s[n + 1] \in Chars
  OBVIOUS
<1>2. Lex!Reached(s, n) \in States
  BY ReachedSteps
<1>3. Lex!Reached(s, n + 1) = Jam
  <2>1. Lex!Reached(s, n + 1) = IF Lex!Reached(s, n) = Jam THEN Jam
                                ELSE Delta[Lex!Reached(s, n)][s[n + 1]]
    BY <1>1, ReachedSteps
  <2>2. Lex!Reached(s, n) # Jam => Lex!Reached(s, n) \in DOMAIN Delta
                                   /\ DOMAIN Delta[Lex!Reached(s, n)] = Chars
    BY <1>2, AutomatonAssumption DEF States
  <2> QED
    BY <1>1, <1>2, <2>1, <2>2, Numbering DEF OnlyJams
<1> QED
  BY <1>1, <1>3, JamStays

\* The run of the tables over characters is the automaton's.
Follows(f, p, s, a, m) ==
  /\ f[p] = Lex!Reached(s, a)
  /\ \A k \in 0 .. m - 1 : f[p + k + 1] = ReplayState(f[p + k], s[a + k + 1])
\* The states f, from p on, are those of s from a on.
Agrees(f, p, s, a, m) == \A k \in 0 .. m : f[p + k] = Lex!Reached(s, a + k)

\* A path over the text goes through the states of module Lexer.
LEMMA Along ==
  ASSUME NEW s \in Seq(Chars), NEW a \in Nat, NEW m \in Nat, a + m <= Len(s), NEW p \in Nat, NEW f,
         Follows(f, p, s, a, m)
  PROVE  Agrees(f, p, s, a, m)
<1>1. ASSUME NEW q \in States, NEW c \in Chars
      PROVE  ReplayState(q, c) = IF q = Jam THEN Jam ELSE Delta[q][c]
  BY Numbering, CharsAssumption DEF ReplayState, NulState, NextState, States
<1> DEFINE P == {k \in Nat : k <= m => f[p + k] = Lex!Reached(s, a + k)}
<1>2. 0 \in P
  BY DEF Follows
<1>3. ASSUME NEW k \in Nat, k \in P PROVE k + 1 \in P
  <2> SUFFICES ASSUME k + 1 <= m PROVE f[p + (k + 1)] = Lex!Reached(s, a + (k + 1))
    OBVIOUS
  <2>1. /\ k \in 0 .. m - 1 /\ p + k + 1 = p + (k + 1) /\ a + k + 1 = a + (k + 1)
        /\ a + k + 1 \in 1 .. Len(s) /\ (a + k + 1) - 1 = a + k /\ a + k \in 0 .. Len(s)
        /\ s[a + k + 1] \in Chars
    OBVIOUS
  <2>2. f[p + k] = Lex!Reached(s, a + k)
    BY <1>3, <2>1
  <2>3. f[p + k + 1] = ReplayState(f[p + k], s[a + k + 1])
    BY <2>1 DEF Follows
  <2>4. Lex!Reached(s, a + k) \in States
    BY <2>1, ReachedSteps
  <2>5. Lex!Reached(s, a + k + 1) = IF Lex!Reached(s, a + k) = Jam THEN Jam
                                    ELSE Delta[Lex!Reached(s, a + k)][s[a + k + 1]]
    BY <2>1, ReachedSteps
  <2> QED
    BY <1>1, <2>1, <2>2, <2>3, <2>4, <2>5
<1> HIDE DEF P
<1>4. ASSUME NEW k \in 0 .. m PROVE f[p + k] = Lex!Reached(s, a + k)
  <2>1. k \in P
    BY <1>2, <1>3, SetInduction
  <2> QED
    BY <2>1 DEF P
<1> QED
  BY <1>4 DEF Agrees

\* yy_accept says which lengths match.
LEMMA AcceptedIs ==
  ASSUME NEW s \in Seq(Chars), NEW n \in 0 .. Len(s)
  PROVE  /\ Lex!Accepted(s, n) <=> YyAccept(Lex!Reached(s, n)) # 0
         /\ Lex!Accepted(s, n) <=> YyAccept(Lex!Reached(s, n)) \in Rules
         /\ Lex!Accepted(s, n) => YyAccept(Lex!Reached(s, n)) = Accept[Lex!Reached(s, n)]
         /\ ~Lex!Accepted(s, 0)
         /\ n = 1 => Lex!Accepted(s, n)
<1>1. Lex!Reached(s, n) \in States /\ Lex!Reached(s, 0) = Start
  BY ReachedSteps
<1>2. 0 \notin Rules /\ EobState \notin States
  BY Numbering
<1>3. \A q \in States : YyAccept(q) = IF q = 0 THEN 0 ELSE Accept[q]
  BY <1>2 DEF YyAccept, Jam
<1>4. \A q \in States \ {0} : Accept[q] \in Rules \cup {0}
  BY AutomatonAssumption DEF States, Jam
<1>5. Accept[Start] = 0
  BY AutomatonAssumption
<1>6. n = 1 => Lex!Accepted(s, n)
  <2>1. n = 1 => Lex!Reached(s, n) = Delta[Start][s[1]] /\ s[1] \in Chars
    BY <1>1, ReachedSteps, AutomatonAssumption, Numbering
  <2> QED
    BY <2>1, AutomatonAssumption DEF Lex!Accepted, Jam
<1> QED
  BY <1>1, <1>2, <1>3, <1>4, <1>5, <1>6 DEF Lex!Accepted

\* W is what there is to match: the text of the buffer from lo to n, and more.
Text(W, ch, lo, n) ==
  /\ W \in Seq(Chars) /\ lo \in Nat /\ n \in Nat /\ lo <= n /\ n - lo <= Len(W)
  /\ \A i \in lo .. n - 1 : W[i - lo + 1] = ch[i]

\* The lengths that gen_backing_up() has looked at by the time the loop has
\* gone over c characters.
Seen(c) == 1 .. IF mode = "full" THEN c ELSE c - 1
\* The pair that it keeps is that of the longest of them that is a match.
Knows(last, bp, W, c) ==
  \/ \A m \in Seen(c) : ~Lex!Accepted(W, m)
  \/ LET k == BackUpTo(last) - bp
     IN  /\ k \in Seen(c) /\ Lex!Accepted(W, k) /\ last.state = Lex!Reached(W, k)
         /\ \A m \in Seen(c) : m > k => ~Lex!Accepted(W, m)

\* gen_backing_up() keeps the last of the accepting places.
LEMMA LastIsGreatest ==
  ASSUME NEW first \in Nat, NEW last \in Nat, NEW st, NEW old
  PROVE  LET la == LastAccepting(st, first, last, old)
         IN  \/ la = old /\ \A q \in Places(first, last) : YyAccept(st[q]) = 0
             \/ \E q \in Places(first, last) :
                  /\ YyAccept(st[q]) # 0 /\ la = At(st, q)
                  /\ \A p \in Places(first, last) : p > q => YyAccept(st[p]) = 0
<1> DEFINE qs == {q \in Places(first, last) : YyAccept(st[q]) # 0}
<1>1. qs = IF mode = "full" THEN {q \in first + 1 .. last : YyAccept(st[q]) # 0}
           ELSE {q \in first .. last - 1 : YyAccept(st[q]) # 0}
  BY DEF Places
<1>2. LastAccepting(st, first, last, old) =
        IF qs = {} THEN old
        ELSE [state |-> st[Max(qs)], cpos |-> IF mode = "full" THEN Max(qs) - 1 ELSE Max(qs)]
  BY <1>1 DEF LastAccepting
<1>3. CASE qs = {}
  BY <1>2, <1>3
<1>4. CASE qs # {}
  <2>1. qs \subseteq Int /\ last \in Int /\ \A q \in qs : q <= last
    BY DEF Places
  <2> HIDE DEF qs
  <2>2. Max(qs) \in qs /\ \A q \in qs : q <= Max(qs)
    BY <1>4, <2>1, MaxIs
  <2>3. PICK m : m = Max(qs)
    OBVIOUS
  <2>4. m \in qs /\ m \in Int /\ \A p \in Places(first, last) : p > m => p \notin qs
    <3>1. m \in qs /\ m \in Int
      BY <2>1, <2>2, <2>3
    <3>2. ASSUME NEW p \in Places(first, last), p > m, p \in qs PROVE FALSE
      BY <2>1, <2>2, <2>3, <3>1, <3>2
    <3> QED
      BY <3>1, <3>2
  <2>5. LastAccepting(st, first, last, old) = At(st, m)
    BY <1>2, <1>4, <2>3 DEF At
  <2> QED
    BY <2>4, <2>5 DEF qs
<1> QED
  BY <1>3, <1>4

\* A run of the loop from cp to end keeps the pair so.
LEMMA KnowsMore ==
  ASSUME NEW W \in Seq(Chars), NEW bp \in Nat, NEW cp \in Nat, NEW end \in Nat,
         bp <= cp, cp <= end, end - bp <= Len(W),
         NEW st, \A p \in cp .. end : st[p] = Lex!Reached(W, p - bp),
         NEW old, Knows(old, bp, W, cp - bp)
  PROVE  Knows(LastAccepting(st, cp, end, old), bp, W, end - bp)
<1> DEFINE la == LastAccepting(st, cp, end, old)
<1>1. /\ \A m \in Seen(end - bp) : m \in 1 .. Len(W)
                              /\ (m \in Seen(cp - bp) \/ bp + m \in Places(cp, end))
      /\ \A q \in Places(cp, end) : q - bp \in 0 .. Len(W) /\ q \in cp .. end
      /\ \A q \in Places(cp, end) : q - bp \in Seen(end - bp) \/ q = bp
      /\ \A m \in Seen(cp - bp) : m \in Seen(end - bp) /\ \A q \in Places(cp, end) : m < q - bp
  BY DEF Seen, Places
<1>2. \A q \in Places(cp, end) : YyAccept(st[q]) # 0 <=> Lex!Accepted(W, q - bp)
  BY <1>1, AcceptedIs
<1>3. \A m \in Seen(end - bp) : (bp + m) - bp = m
  BY <1>1
<1>4. \/ la = old /\ \A q \in Places(cp, end) : YyAccept(st[q]) = 0
      \/ \E q \in Places(cp, end) :
           /\ YyAccept(st[q]) # 0 /\ la = At(st, q)
           /\ \A p \in Places(cp, end) : p > q => YyAccept(st[p]) = 0
  BY LastIsGreatest
<1> HIDE DEF la
<1>5. ASSUME la = old, \A q \in Places(cp, end) : YyAccept(st[q]) = 0
      PROVE  Knows(la, bp, W, end - bp)
  <2>1. \A m \in Seen(end - bp) : m \notin Seen(cp - bp) => ~Lex!Accepted(W, m)
    BY <1>1, <1>2, <1>3, <1>5
  <2>2. CASE \A m \in Seen(cp - bp) : ~Lex!Accepted(W, m)
    BY <2>1, <2>2, Zenon DEF Knows
  <2>3. CASE ~\A m \in Seen(cp - bp) : ~Lex!Accepted(W, m)
    <3>1. PICK k : k = BackUpTo(old) - bp
      OBVIOUS
    <3>2. /\ k \in Seen(cp - bp) /\ Lex!Accepted(W, k) /\ old.state = Lex!Reached(W, k)
          /\ \A m \in Seen(cp - bp) : m > k => ~Lex!Accepted(W, m)
      BY <2>3, <3>1 DEF Knows
    <3>3. \A m \in Seen(end - bp) : m > k => ~Lex!Accepted(W, m)
      BY <2>1, <3>2
    <3>4. k \in Seen(end - bp)
      BY <1>1, <3>2
    <3>5. Knows(old, bp, W, end - bp)
      BY <3>1, <3>2, <3>3, <3>4, Zenon DEF Knows
    <3> QED
      BY <1>5, <3>5, Zenon
  <2> QED
    BY <2>2, <2>3
<1>6. ASSUME NEW q \in Places(cp, end), YyAccept(st[q]) # 0, la = At(st, q),
             \A p \in Places(cp, end) : p > q => YyAccept(st[p]) = 0
      PROVE  Knows(la, bp, W, end - bp)
  <2>1. Lex!Accepted(W, q - bp) /\ q \in cp .. end
    BY <1>1, <1>2, <1>6
  <2>2. q # bp
    BY <2>1, AcceptedIs
  <2>3. BackUpTo(la) = q /\ la.state = Lex!Reached(W, q - bp)
    BY <1>6, <2>1 DEF At, BackUpTo
  <2>4. ASSUME NEW m \in Seen(end - bp), m > q - bp PROVE ~Lex!Accepted(W, m)
    <3>1. m \notin Seen(cp - bp) /\ m \in Nat
      BY <1>1, <2>1, <2>4
    <3>2. bp + m \in Places(cp, end) /\ bp + m > q
      BY <1>1, <2>1, <2>4, <3>1
    <3> QED
      BY <1>2, <1>3, <1>6, <3>2
  <2>5. q - bp \in Seen(end - bp)
    BY <1>1, <2>2
  <2> QED
    BY <2>1, <2>3, <2>4, <2>5 DEF Knows
<1> QED
  BY <1>4, <1>5, <1>6 DEF la

----------------------------------------------------------------------------
(* Matching finds the longest match.                                       *)

\* The longest prefix of W that a rule matches.
Longest(W, m) ==
  m \in 1 .. Len(W) /\ Lex!Accepted(W, m) /\ \A k \in m + 1 .. Len(W) : ~Lex!Accepted(W, k)
\* yy_find_action finds it, or it finds that a NUL has been read.
Finds(r, W, ch) ==
  IF FoundIn(r).act \in Rules
  THEN Longest(W, FoundIn(r).cp - r.bp) /\ FoundIn(r).act = Accept[Lex!Reached(W, FoundIn(r).cp - r.bp)]
  ELSE ch[FoundIn(r).cp - 1] = NUL

\* Nothing longer than the c characters gone over can match.
LEMMA Resolves ==
  ASSUME NEW W \in Seq(Chars), NEW c \in 1 .. Len(W), NEW r, r.bp \in Nat,
         Knows(r.last, r.bp, W, c), \A k \in c + 1 .. Len(W) : ~Lex!Accepted(W, k),
         Lex!Accepted(W, c) => FoundIn(r) = [act |-> YyAccept(Lex!Reached(W, c)), cp |-> r.bp + c],
         ~Lex!Accepted(W, c) => /\ FoundIn(r).act = YyAccept(r.last.state)
                                /\ FoundIn(r).cp = BackUpTo(r.last)
  PROVE  \A ch : Finds(r, W, ch)
<1>1. ASSUME NEW k \in 1 .. Len(W), Longest(W, k), FoundIn(r).act = YyAccept(Lex!Reached(W, k)),
             FoundIn(r).cp - r.bp = k
      PROVE  \A ch : Finds(r, W, ch)
  <2>1. k \in 0 .. Len(W) /\ Lex!Accepted(W, k)
    BY <1>1 DEF Longest
  <2>2. YyAccept(Lex!Reached(W, k)) \in Rules /\ YyAccept(Lex!Reached(W, k)) = Accept[Lex!Reached(W, k)]
    BY <2>1, AcceptedIs
  <2> QED
    BY <1>1, <2>2 DEF Finds
<1>2. CASE Lex!Accepted(W, c)
  <2>1. FoundIn(r).act = YyAccept(Lex!Reached(W, c)) /\ FoundIn(r).cp - r.bp = c
    BY <1>2
  <2>2. Longest(W, c)
    BY <1>2 DEF Longest
  <2> QED
    BY <1>1, <2>1, <2>2
<1>3. CASE ~Lex!Accepted(W, c)
  <2>1. 1 \in 0 .. Len(W)
    OBVIOUS
  <2>2. Lex!Accepted(W, 1)
    BY <2>1, AcceptedIs
  <2>3. /\ 1 \in Seen(c) /\ Seen(c) \subseteq 1 .. c
        /\ \A m \in 1 .. Len(W) : m <= c => m = c \/ m \in Seen(c)
    <3>1. c # 1
      BY <1>3, <2>2
    <3> QED
      BY <3>1 DEF Seen
  <2>4. PICK k : k = BackUpTo(r.last) - r.bp
    OBVIOUS
  <2>5. /\ k \in Seen(c) /\ Lex!Accepted(W, k) /\ r.last.state = Lex!Reached(W, k)
        /\ \A m \in Seen(c) : m > k => ~Lex!Accepted(W, m)
    BY <2>2, <2>3, <2>4 DEF Knows
  <2>6. k \in 1 .. Len(W)
    BY <2>3, <2>5
  <2>7. ASSUME NEW m \in k + 1 .. Len(W) PROVE ~Lex!Accepted(W, m)
    <3>1. m \in 1 .. Len(W) /\ m > k
      BY <2>6
    <3>2. CASE m <= c
      BY <1>3, <2>3, <2>5, <3>1, <3>2
    <3>3. CASE ~(m <= c)
      <4>1. m \in c + 1 .. Len(W)
        BY <3>1, <3>3
      <4> QED
        BY <4>1
    <3> QED
      BY <3>2, <3>3
  <2>8. Longest(W, k)
    BY <2>5, <2>6, <2>7 DEF Longest
  <2>9. FoundIn(r).act = YyAccept(Lex!Reached(W, k)) /\ FoundIn(r).cp - r.bp = k
    BY <1>3, <2>4, <2>5
  <2> QED
    BY <1>1, <2>6, <2>8, <2>9
<1> QED
  BY <1>2, <1>3

\* yylex()'s locals after c characters of W.
Tracks(r, W) ==
  /\ r.cp >= r.bp /\ r.cp - r.bp <= Len(W)
  /\ r.cs = Lex!Reached(W, r.cp - r.bp) /\ Knows(r.last, r.bp, W, r.cp - r.bp)

\* yy_get_previous_state() brings them back.
LEMMA ReplayTracks ==
  ASSUME NEW ch, NEW size, NEW n, Marked(ch, size, n), NEW bp, Holds(ch, bp, n),
         NEW end \in bp .. n, Locals(l), NEW W, Text(W, ch, bp, n)
  PROVE  Tracks(Replay(ch, bp, end), W)
<1> DEFINE st == ReplayPath(ch, bp, Start)
           la == LastAccepting(st, bp, end, l.last)
           r == Replay(ch, bp, end)
<1>1. /\ n \in Nat /\ bp \in Nat /\ end \in Nat /\ bp <= end /\ end <= n /\ size \in Nat /\ n <= size
      /\ bp \in 0 .. size + 2 /\ DOMAIN ch = 0 .. size + 1 /\ W \in Seq(Chars) /\ end - bp <= Len(W)
      /\ end - bp \in Nat
  BY DEF Marked, Holds, Text
<1>2. /\ st[bp] = Start
      /\ \A p \in bp + 1 .. size + 2 : st[p] = ReplayState(st[p - 1], ch[p - 1])
  BY <1>1, PathIs
<1>3. r = [l EXCEPT !.bp = bp, !.cp = end, !.cs = st[end], !.last = la]
  BY DEF Replay
<1> HIDE DEF st
<1>4. ASSUME NEW k \in 0 .. (end - bp) - 1 PROVE st[bp + k + 1] = ReplayState(st[bp + k], W[0 + k + 1])
  <2>1. /\ bp + k + 1 \in bp + 1 .. size + 2 /\ (bp + k + 1) - 1 = bp + k
        /\ bp + k \in bp .. n - 1 /\ (bp + k) - bp + 1 = 0 + k + 1
    BY <1>1
  <2>2. W[0 + k + 1] = ch[bp + k]
    BY <2>1 DEF Text
  <2> QED
    BY <1>2, <2>1, <2>2
<1>5. Agrees(st, bp, W, 0, end - bp)
  <2>1. st[bp] = Lex!Reached(W, 0) /\ 0 \in Nat /\ 0 + (end - bp) <= Len(W)
    BY <1>1, <1>2, ReachedSteps
  <2>2. Follows(st, bp, W, 0, end - bp)
    BY <1>4, <2>1 DEF Follows
  <2> QED
    BY ONLY <1>1, <2>1, <2>2, Along
<1>6. ASSUME NEW p \in bp .. end PROVE st[p] = Lex!Reached(W, p - bp)
  <2>1. p - bp \in 0 .. end - bp /\ bp + (p - bp) = p /\ 0 + (p - bp) = p - bp
    BY <1>1
  <2> QED
    BY <1>5, <2>1 DEF Agrees
<1>7. Knows(l.last, bp, W, bp - bp)
  <2>1. Seen(bp - bp) = {}
    BY <1>1 DEF Seen
  <2> QED
    BY <2>1 DEF Knows
<1>8. Knows(la, bp, W, end - bp)
  <2>1. bp \in Nat /\ end \in Nat /\ bp <= end /\ bp <= bp /\ end - bp <= Len(W) /\ W \in Seq(Chars)
    BY <1>1
  <2>2. \A p \in bp .. end : st[p] = Lex!Reached(W, p - bp)
    BY <1>6
  <2>3. Knows(LastAccepting(st, bp, end, l.last), bp, W, end - bp)
    BY ONLY <1>7, <2>1, <2>2, KnowsMore
  <2> QED
    BY <2>3
<1> HIDE DEF la, r
<1>9. r.bp = bp /\ r.cp = end /\ r.cs = st[end] /\ r.last = la
  BY <1>3 DEF Locals
<1> QED
  BY <1>1, <1>6, <1>8, <1>9 DEF Tracks, r

\* Where the matching loop, begun at cp, comes to a stop.
Ends(st, cp, n, end) ==
  /\ mode = "full" => /\ end \in cp .. n + 1 /\ st[end + 1] = Jam
                      /\ \A p \in cp .. end - 1 : st[p + 1] # Jam
  /\ mode = "compressed" => /\ end \in cp + 1 .. n + 2 /\ st[end] = Jam
                            /\ \A p \in cp + 1 .. end - 1 : st[p] # Jam
  /\ mode = "interactive" => /\ end \in cp + 1 .. n + 1 /\ OnlyJams(st[end])
                             /\ \A p \in cp + 1 .. end - 1 : ~OnlyJams(st[p])

LoopEnd(st, ch, cp) ==
  CASE mode = "full" -> Min({p \in cp .. Max(DOMAIN ch) : NextState(st[p], ch[p]) = Jam})
    [] mode = "compressed" -> Min({p \in cp + 1 .. Max(DOMAIN ch) + 1 : st[p] = Jam})
    [] mode = "interactive" -> Min({p \in cp + 1 .. Max(DOMAIN ch) + 1 : OnlyJams(st[p])})

\* The loop ends, and the states it goes through before do not jam.
LEMMA LoopEnds ==
  ASSUME NEW ch, NEW size, NEW n, Marked(ch, size, n), NEW cp, Holds(ch, cp, n), NEW s \in States
  PROVE  Ends(MatchPath(ch, cp, s), cp, n, LoopEnd(MatchPath(ch, cp, s), ch, cp))
<1> DEFINE st == MatchPath(ch, cp, s)
           whole == {p \in cp .. Max(DOMAIN ch) : NextState(st[p], ch[p]) = Jam}
           packed == {p \in cp + 1 .. Max(DOMAIN ch) + 1 : st[p] = Jam}
           waiting == {p \in cp + 1 .. Max(DOMAIN ch) + 1 : OnlyJams(st[p])}
           end == CASE mode = "full" -> Min(whole) [] mode = "compressed" -> Min(packed)
                    [] mode = "interactive" -> Min(waiting)
<1>1. /\ st[n + 1] \in {EobState, Jam} /\ st[n + 2] = Jam
      /\ \A p \in cp .. n + 1 : st[p + 1] = NextState(st[p], ch[p])
  BY RunToMark
<1> HIDE DEF st
<1>2. /\ size \in Nat /\ n \in 0 .. size /\ cp \in 0 .. n /\ n \in Nat /\ cp \in Nat
      /\ Max(DOMAIN ch) = size + 1
  BY MaxOfCells DEF Marked, Holds
<1>3. ASSUME mode = "full"
      PROVE  end \in cp .. n + 1 /\ st[end + 1] = Jam /\ \A p \in cp .. end - 1 : st[p + 1] # Jam
  <2>1. whole \subseteq Int /\ cp \in Int /\ \A y \in whole : cp <= y
    BY <1>2
  <2>2. n + 1 \in whole
    <3>1. n + 1 \in cp .. n + 1 /\ n + 1 \in cp .. Max(DOMAIN ch) /\ (n + 1) + 1 = n + 2
      BY <1>2
    <3>2. NextState(st[n + 1], ch[n + 1]) = Jam
      BY <1>1, <3>1
    <3> QED
      BY <3>1, <3>2
  <2>3. \A p \in cp .. n + 1 : p \in whole <=> st[p + 1] = Jam
    BY <1>1, <1>2
  <2>4. end = Min(whole)
    BY <1>3
  <2> HIDE DEF whole, end
  <2>5. PICK m \in whole : m = Min(whole) /\ \A y \in whole : m <= y
    BY <2>1, <2>2, MinIs
  <2>6. m \in cp .. n + 1
    BY <1>2, <2>1, <2>2, <2>5
  <2>7. \A p \in cp .. m - 1 : p \in cp .. n + 1 /\ p \notin whole
    BY <1>2, <2>5, <2>6
  <2> QED
    BY <2>3, <2>4, <2>5, <2>6, <2>7
<1>4. ASSUME mode = "compressed"
      PROVE  end \in cp + 1 .. n + 2 /\ st[end] = Jam /\ \A p \in cp + 1 .. end - 1 : st[p] # Jam
  <2>1. packed \subseteq Int /\ cp + 1 \in Int /\ \A y \in packed : cp + 1 <= y
    BY <1>2
  <2>2. n + 2 \in packed
    BY <1>1, <1>2
  <2>3. \A p \in cp + 1 .. n + 2 : p \in packed <=> st[p] = Jam
    BY <1>2
  <2>4. end = Min(packed)
    BY <1>4
  <2> HIDE DEF packed, end
  <2>5. PICK m \in packed : m = Min(packed) /\ \A y \in packed : m <= y
    BY <2>1, <2>2, MinIs
  <2>6. m \in cp + 1 .. n + 2
    BY <1>2, <2>1, <2>2, <2>5
  <2>7. \A p \in cp + 1 .. m - 1 : p \in cp + 1 .. n + 2 /\ p \notin packed
    BY <1>2, <2>5, <2>6
  <2> QED
    BY <2>3, <2>4, <2>5, <2>6, <2>7
<1>5. ASSUME mode = "interactive"
      PROVE  end \in cp + 1 .. n + 1 /\ OnlyJams(st[end]) /\ \A p \in cp + 1 .. end - 1 : ~OnlyJams(st[p])
  <2>1. waiting \subseteq Int /\ cp + 1 \in Int /\ \A y \in waiting : cp + 1 <= y
    BY <1>2
  <2>2. n + 1 \in waiting
    BY <1>1, <1>2 DEF OnlyJams
  <2>3. \A p \in cp + 1 .. n + 1 : p \in waiting <=> OnlyJams(st[p])
    BY <1>2
  <2>4. end = Min(waiting)
    BY <1>5
  <2> HIDE DEF waiting, end
  <2>5. PICK m \in waiting : m = Min(waiting) /\ \A y \in waiting : m <= y
    BY <2>1, <2>2, MinIs
  <2>6. m \in cp + 1 .. n + 1
    BY <1>2, <2>1, <2>2, <2>5
  <2>7. \A p \in cp + 1 .. m - 1 : p \in cp + 1 .. n + 1 /\ p \notin waiting
    BY <1>2, <2>5, <2>6
  <2> QED
    BY <2>3, <2>4, <2>5, <2>6, <2>7
<1> HIDE DEF whole, packed, waiting, end
<1>6. Ends(st, cp, n, end)
  BY <1>3, <1>4, <1>5 DEF Ends
<1> QED
  BY <1>6 DEF end, whole, packed, waiting, st, LoopEnd

\* A NUL, and nothing else, leads to the end-of-buffer state.
LEMMA ToEob ==
  /\ \A s \in AllStates, c \in Chars : NextState(s, c) = EobState => c = NUL
  /\ \A s \in DOMAIN Delta : NextState(s, NUL) = EobState
  /\ \A s \in States, c \in Chars : NextState(s, c) # EobState => NextState(s, c) = ReplayState(s, c)
<1>1. \A s \in DOMAIN Delta : \A c \in Chars : Delta[s][c] \in States
  BY AutomatonAssumption DEF States
<1>2. EobState \notin States /\ EobState # Jam /\ Jam \notin DOMAIN Delta
  BY Numbering DEF States
<1>3. \A s \in AllStates : s \in {Jam, EobState} \/ s \in DOMAIN Delta
  BY DEF AllStates, States
<1>4. \A s \in DOMAIN Delta : s \notin {Jam, EobState}
  BY <1>2 DEF States
<1>5. ASSUME NEW s \in AllStates, NEW c \in Chars, NextState(s, c) = EobState PROVE c = NUL
  BY <1>1, <1>2, <1>3, <1>5 DEF NextState
<1>6. ASSUME NEW s \in DOMAIN Delta PROVE NextState(s, NUL) = EobState
  BY <1>4 DEF NextState
<1>7. ASSUME NEW s \in States, NEW c \in Chars, NextState(s, c) # EobState
      PROVE  NextState(s, c) = ReplayState(s, c)
  <2>1. CASE s = Jam
    BY <2>1 DEF NextState, ReplayState, NulState
  <2>2. CASE s # Jam
    <3>1. s \in DOMAIN Delta
      BY <2>2 DEF States
    <3>2. c # NUL
      BY <1>6, <1>7, <3>1
    <3> QED
      BY <3>2 DEF ReplayState
  <2> QED
    BY <2>1, <2>2
<1> QED
  BY <1>5, <1>6, <1>7

\* A match from where the scanner is ends with the longest match known, or behind
\* a NUL.
LEMMA MatchFinds ==
  ASSUME Match, mode \in Modes, Locals(l), l.cs \in States, Ready(l), l.bp <= l.cp,
         NEW size, NEW n, Marked(b.ch_buf, size, n), Holds(b.ch_buf, l.cp, n),
         NEW W, Text(W, b.ch_buf, l.bp, n), Tracks(l, W)
  PROVE  Finds(l', W, b.ch_buf)
<1> DEFINE ch == b.ch_buf
           st == MatchPath(ch, l.cp, l.cs)
           end == LoopEnd(st, ch, l.cp)
           la == LastAccepting(st, l.cp, end, l.last)
           r == [l EXCEPT !.last = la,
                          !.cp = IF mode = "compressed" THEN la.cpos ELSE end,
                          !.cs = IF mode = "compressed" THEN la.state ELSE st[end]]
<1>1. l' = r
  BY DEF Match, LoopEnd
<1>2. /\ st[l.cp] = l.cs
      /\ \A p \in l.cp .. n + 2 : st[p] \in AllStates
      /\ st[n + 1] \in {EobState, Jam} /\ st[n + 2] = Jam
      /\ \A p \in l.cp .. n + 1 : st[p + 1] = NextState(st[p], ch[p])
      /\ l.cs = Start => YyAccept(st[l.cp + 1]) # 0
  BY RunToMark
<1>3. Ends(st, l.cp, n, end)
  BY LoopEnds
<1> HIDE DEF st, end
<1>4. /\ n \in Nat /\ l.cp \in 0 .. n /\ l.cp \in Nat /\ l.bp \in Nat /\ l.bp <= l.cp /\ ch[n] = NUL
      /\ W \in Seq(Chars) /\ n - l.bp <= Len(W)
      /\ mode \in {"full", "compressed", "interactive"}
  BY ModesAssumption DEF Marked, Holds, Locals, Text
<1>5. /\ end \in Nat /\ end \in l.cp .. n + 2
      /\ mode # "compressed" => end <= n + 1
      /\ mode # "full" => end >= l.cp + 1
  BY <1>3, <1>4 DEF Ends
<1>6. \A p \in l.cp .. n + 1 : ch[p] \in Chars
  <2>1. NUL \in Chars /\ ch[n + 1] = NUL
    BY CharsAssumption DEF Marked
  <2>2. \A p \in l.cp .. n - 1 : ch[p] \in Chars
    BY DEF Holds
  <2>3. \A p \in l.cp .. n + 1 : p \in l.cp .. n - 1 \/ p = n \/ p = n + 1
    BY <1>4
  <2> QED
    BY <1>4, <2>1, <2>2, <2>3
<1>7. PICK last : last = la
  OBVIOUS
<1>8. \/ last = l.last /\ \A q \in Places(l.cp, end) : YyAccept(st[q]) = 0
      \/ \E q \in Places(l.cp, end) :
           /\ YyAccept(st[q]) # 0 /\ last = At(st, q)
           /\ \A p \in Places(l.cp, end) : p > q => YyAccept(st[p]) = 0
  BY <1>4, <1>5, <1>7, LastIsGreatest
<1>9. /\ r.bp = l.bp /\ r.last = last
      /\ r.cp = IF mode = "compressed" THEN last.cpos ELSE end
      /\ r.cs = IF mode = "compressed" THEN last.state ELSE st[end]
  BY <1>7 DEF Locals
<1> HIDE DEF r, la
\* What is found when the state the loop stops in accepts nothing.
<1>10. mode = "compressed" \/ YyAccept(st[end]) = 0 =>
         FoundIn(r).act = YyAccept(last.state) /\ FoundIn(r).cp = BackUpTo(last)
  BY <1>9 DEF FoundIn, BackUpTo
<1>11. mode # "compressed" /\ YyAccept(st[end]) # 0 =>
         FoundIn(r) = [act |-> YyAccept(st[end]), cp |-> end]
  BY <1>9 DEF FoundIn
\* The loop has come to a NUL or a mark.
<1>12. ASSUME NEW q \in l.cp + 1 .. end, q <= n + 1, st[q] = EobState
       PROVE  Finds(r, W, ch)
  <2>1. /\ q - 1 \in l.cp .. n + 1 /\ (q - 1) + 1 = q /\ q \in l.cp .. n + 1
        /\ q \in Nat
    BY <1>4, <1>12
  <2>2. ch[q - 1] = NUL
    <3>1. st[q - 1] \in AllStates /\ ch[q - 1] \in Chars /\ NextState(st[q - 1], ch[q - 1]) = EobState
      BY <1>2, <1>4, <1>6, <1>12, <2>1
    <3> QED
      BY <3>1, ToEob
  <2>3. st[q + 1] = Jam /\ YyAccept(EobState) = YY_END_OF_BUFFER /\ YY_END_OF_BUFFER # 0
        /\ YY_END_OF_BUFFER \notin Rules /\ OnlyJams(EobState) /\ EobState # Jam
    BY <1>2, <1>12, <2>1, NextStateIs, YyAcceptIs, Numbering DEF OnlyJams, AllStates, States
  <2>4. FoundIn(r).act = YY_END_OF_BUFFER /\ FoundIn(r).cp = q
    <3>1. CASE mode = "full"
      <4>1. \A p \in l.cp .. end - 1 : st[p + 1] # Jam
        BY <1>3, <3>1 DEF Ends
      <4>2. q = end
        BY <1>5, <1>12, <2>1, <2>3, <4>1
      <4> QED
        BY <1>11, <1>12, <2>3, <3>1, <4>2
    <3>2. CASE mode = "interactive"
      <4>1. \A p \in l.cp + 1 .. end - 1 : ~OnlyJams(st[p])
        BY <1>3, <3>2 DEF Ends
      <4>2. q = end
        <5>1. q # end => q \in l.cp + 1 .. end - 1
          BY <1>4, <1>5, <1>12, <2>1
        <5> QED
          BY <1>12, <2>3, <4>1, <5>1
      <4> QED
        BY <1>11, <1>12, <2>3, <3>2, <4>2
    <3>3. CASE mode = "compressed"
      <4>1. st[end] = Jam /\ \A p \in l.cp + 1 .. end - 1 : st[p] # Jam
        BY <1>3, <3>3 DEF Ends
      <4>2. q = end - 1
        <5>1. q # end
          BY <1>12, <2>3, <4>1
        <5>2. q + 1 \notin l.cp + 1 .. end - 1
          BY <2>3, <4>1
        <5> QED
          BY <1>4, <1>5, <1>12, <2>1, <5>1, <5>2
      <4>3. q \in Places(l.cp, end) /\ Places(l.cp, end) \subseteq l.cp .. q
        BY <1>4, <1>5, <1>12, <3>3, <4>2 DEF Places
      <4>4. YyAccept(st[q]) # 0
        BY <1>12, <2>3
      <4>5. last = At(st, q)
        BY <1>4, <1>8, <2>1, <4>3, <4>4
      <4>6. last.state = EobState /\ BackUpTo(last) = q
        BY <1>12, <3>3, <4>5 DEF At, BackUpTo
      <4> QED
        BY <1>10, <2>3, <3>3, <4>6
    <3> QED
      BY <1>4, <3>1, <3>2, <3>3
  <2>5. FoundIn(r).act \notin Rules
    BY <2>3, <2>4
  <2>6. ch[FoundIn(r).cp - 1] = NUL
    BY <2>2, <2>4
  <2> QED
    BY ONLY <2>5, <2>6, Zenon DEF Finds
\* It stops in a jam of its own.
<1>13. ASSUME \A q \in l.cp + 1 .. end : q <= n + 1 => st[q] # EobState, l.cs = Jam
       PROVE  Finds(r, W, ch)
  <2>1. st[l.cp] = Jam /\ st[l.cp + 1] = Jam /\ OnlyJams(Jam) /\ YyAccept(Jam) = 0
    <3>1. st[l.cp] = Jam
      BY <1>2, <1>13
    <3>2. l.cp \in l.cp .. n + 1
      BY <1>4
    <3>3. st[l.cp + 1] = NextState(Jam, ch[l.cp])
      BY <1>2, <3>1, <3>2
    <3>4. st[l.cp + 1] = Jam /\ OnlyJams(Jam)
      BY <3>3, NextStateIs DEF OnlyJams
    <3> QED
      BY <3>1, <3>4, YyAcceptIs
  <2>2. end = IF mode = "full" THEN l.cp ELSE l.cp + 1
    <3>1. PICK c \in Nat : c = l.cp
      BY <1>4
    <3>2. mode = "full" => end = c
      <4>1. mode = "full" => end \in c .. n + 1 /\ \A p \in c .. end - 1 : st[p + 1] # Jam
        BY <1>3, <3>1 DEF Ends
      <4>2. mode = "full" /\ end > c => c \in c .. end - 1
        BY <1>4, <1>5, <3>1, <4>1
      <4> QED
        BY <1>4, <1>5, <2>1, <3>1, <4>1, <4>2
    <3>3. mode = "compressed" => end = c + 1
      <4>1. mode = "compressed" =>
              end \in c + 1 .. n + 2 /\ \A p \in c + 1 .. end - 1 : st[p] # Jam
        BY <1>3, <3>1 DEF Ends
      <4>2. mode = "compressed" /\ end > c + 1 => c + 1 \in c + 1 .. end - 1
        BY <1>4, <1>5, <3>1, <4>1
      <4> QED
        BY <1>4, <1>5, <2>1, <3>1, <4>1, <4>2
    <3>4. mode = "interactive" => end = c + 1
      <4>1. mode = "interactive" =>
              end \in c + 1 .. n + 1 /\ \A p \in c + 1 .. end - 1 : ~OnlyJams(st[p])
        BY <1>3, <3>1 DEF Ends
      <4>2. OnlyJams(st[c + 1])
        BY <2>1, <3>1
      <4>3. mode = "interactive" /\ end > c + 1 => c + 1 \in c + 1 .. end - 1
        BY <1>4, <1>5, <3>1, <4>1
      <4> QED
        BY <1>4, <1>5, <3>1, <4>1, <4>2, <4>3
    <3> QED
      BY <1>4, <3>1, <3>2, <3>3, <3>4
  <2>3. \A q \in Places(l.cp, end) : q = l.cp
    BY <1>4, <2>2 DEF Places
  <2>4. last = l.last
    BY <1>8, <2>1, <2>3
  <2>5. YyAccept(st[end]) = 0
    BY <2>1, <2>2
  <2> DEFINE c == l.cp - l.bp
  <2>6. c \in 0 .. Len(W) /\ Lex!Reached(W, c) = Jam
    BY <1>4, <1>13 DEF Tracks
  <2>7. c # 0
    BY <1>4, <2>6, ReachedSteps, AutomatonAssumption, Numbering
  <2>8. \A k \in c .. Len(W) : ~Lex!Accepted(W, k)
    <3>1. \A k \in c .. Len(W) : Lex!Reached(W, k) = Jam
      BY <1>4, <2>6, JamStays
    <3> QED
      BY <3>1 DEF Lex!Accepted, Jam
  <2>9. c \in 1 .. Len(W) /\ ~Lex!Accepted(W, c) /\ \A k \in c + 1 .. Len(W) : ~Lex!Accepted(W, k)
    BY <2>6, <2>7, <2>8
  <2>10. Knows(r.last, r.bp, W, c)
    BY <1>9, <2>4 DEF Tracks
  <2>11. FoundIn(r).act = YyAccept(r.last.state) /\ FoundIn(r).cp = BackUpTo(r.last)
    BY <1>9, <1>10, <2>5
  <2> HIDE DEF c
  <2> QED
    BY <1>4, <1>9, <2>9, <2>10, <2>11, Resolves
<1>14. ASSUME \A q \in l.cp + 1 .. end : q <= n + 1 => st[q] # EobState, l.cs # Jam
       PROVE  Finds(r, W, ch)
  <2>1. end <= n
    <3>1. SUFFICES ASSUME n + 1 <= end PROVE FALSE
      BY <1>4, <1>5
    <3>2. st[n + 1] = Jam
      <4>1. n + 1 \in l.cp + 1 .. end
        BY <1>4, <3>1
      <4> QED
        BY <1>2, <1>14, <4>1
    <3>3. st[n] \in AllStates /\ st[n + 1] = NextState(st[n], NUL)
      BY <1>2, <1>4
    <3>4. st[n] # EobState
      <4>1. CASE n = l.cp
        BY <1>2, <4>1, Numbering
      <4>2. CASE n # l.cp
        <5>1. n \in l.cp + 1 .. end
          BY <1>4, <1>5, <3>1, <4>2
        <5> QED
          BY <1>14, <5>1
      <4> QED
        BY <4>1, <4>2
    <3>5. st[n] # Jam
      <4>1. CASE n = l.cp
        BY <1>2, <1>14, <4>1
      <4>2. CASE n # l.cp
        <5>1. n \in l.cp + 1 .. end - 1 /\ n - 1 \in l.cp .. end - 1 /\ (n - 1) + 1 = n
          BY <1>4, <1>5, <3>1, <4>2
        <5>2. OnlyJams(Jam)
          BY DEF OnlyJams
        <5> QED
          BY <1>3, <1>4, <5>1, <5>2 DEF Ends
      <4> QED
        BY <4>1, <4>2
    <3>6. st[n] \in DOMAIN Delta /\ EobState # Jam
      BY <3>3, <3>4, <3>5, Numbering DEF AllStates, States
    <3> QED
      BY <3>2, <3>3, <3>6, ToEob
  <2>2. \A p \in l.cp .. end : st[p] \in States
    <3>1. ASSUME NEW p \in l.cp .. end PROVE st[p] # EobState
      <4>1. CASE p = l.cp
        BY <1>2, <4>1, Numbering
      <4>2. CASE p # l.cp
        <5>1. p \in l.cp + 1 .. end /\ p <= n + 1
          BY <1>4, <1>5, <2>1, <4>2
        <5> QED
          BY <1>14, <5>1
      <4> QED
        BY <4>1, <4>2
    <3> QED
      BY <1>2, <1>4, <1>5, <2>1, <3>1 DEF AllStates
  <2>3. \A p \in l.cp .. end - 1 : st[p + 1] = ReplayState(st[p], ch[p])
    <3>1. ASSUME NEW p \in l.cp .. end - 1 PROVE st[p + 1] = ReplayState(st[p], ch[p])
      <4>1. p \in l.cp .. end /\ p + 1 \in l.cp .. end /\ p \in l.cp .. n + 1
        BY <1>4, <1>5, <2>1
      <4>2. NextState(st[p], ch[p]) # EobState
        BY <1>2, <2>2, <4>1, Numbering
      <4> QED
        BY <1>2, <1>6, <2>2, <4>1, <4>2, ToEob
    <3> QED
      BY <3>1
  <2>4. \A p \in l.cp .. end : st[p] = Lex!Reached(W, p - l.bp)
    <3> DEFINE a == l.cp - l.bp
               m == end - l.cp
    <3>1. a \in Nat /\ m \in Nat /\ a + m <= Len(W)
      <4>1. a \in Nat /\ m \in Nat /\ a + m = end - l.bp
        BY <1>4, <1>5, <2>1
      <4>2. end - l.bp <= Len(W)
        <5>1. end \in Int /\ l.bp \in Int /\ n \in Int /\ Len(W) \in Int
          BY <1>4, <1>5
        <5>2. end <= n /\ n - l.bp <= Len(W)
          BY <1>4, <2>1
        <5> QED
          BY ONLY <5>1, <5>2
      <4> QED
        BY ONLY <4>1, <4>2
    <3>2. ASSUME NEW k \in 0 .. m - 1
          PROVE  st[l.cp + k + 1] = ReplayState(st[l.cp + k], W[a + k + 1])
      <4>1. /\ l.cp + k \in l.cp .. end - 1 /\ l.cp + k \in l.bp .. n - 1
            /\ (l.cp + k) - l.bp + 1 = a + k + 1
        <5>1. /\ l.cp \in Int /\ l.bp \in Int /\ n \in Int /\ end \in Int
              /\ l.bp <= l.cp /\ end <= n
          BY <1>4, <1>5, <2>1
        <5>2. k \in Int /\ 0 <= k /\ k <= end - l.cp - 1
          BY <5>1
        <5> QED
          BY ONLY <5>1, <5>2
      <4>2. W[a + k + 1] = ch[l.cp + k]
        BY <4>1 DEF Text
      <4> QED
        BY <2>3, <4>1, <4>2
    <3>3. st[l.cp] = Lex!Reached(W, a)
      BY <1>2 DEF Tracks
    <3> HIDE DEF a, m
    <3>4. Follows(st, l.cp, W, a, m)
      BY <3>2, <3>3 DEF Follows
    <3>5. Agrees(st, l.cp, W, a, m)
      BY ONLY <1>4, <3>1, <3>4, Along
    <3> SUFFICES ASSUME NEW p \in l.cp .. end PROVE st[p] = Lex!Reached(W, p - l.bp)
      OBVIOUS
    <3>6. p - l.cp \in 0 .. m /\ l.cp + (p - l.cp) = p /\ a + (p - l.cp) = p - l.bp
      BY <1>4, <1>5 DEF a, m
    <3> QED
      BY <3>5, <3>6 DEF Agrees
  <2> DEFINE c == end - l.bp
  <2>5. c \in 0 .. Len(W) /\ st[end] = Lex!Reached(W, c)
    BY <1>4, <1>5, <2>1, <2>4
  <2>6. c # 0
    <3>1. CASE mode # "full"
      BY <1>4, <1>5, <3>1
    <3>2. CASE mode = "full"
      <4>1. SUFFICES ASSUME end = l.bp PROVE FALSE
        BY <1>4, <1>5
      <4>2. end = l.cp /\ l.cp = l.bp /\ st[l.cp + 1] = Jam
        BY <1>3, <1>4, <1>5, <3>2, <4>1 DEF Ends
      <4>3. l.cs = Start
        BY <4>2, <1>4 DEF Ready
      <4> QED
        BY <1>2, <4>2, <4>3, YyAcceptIs
    <3> QED
      BY <3>1, <3>2
  <2>7. \A k \in c + 1 .. Len(W) : Lex!Reached(W, k) = Jam
    <3> HIDE DEF c
    <3>1. CASE OnlyJams(st[end])
      BY <1>4, <2>5, <3>1, NoWayOn
    <3>2. CASE ~OnlyJams(st[end])
      <4>1. mode = "full" /\ st[end] # Jam
        BY <1>3, <1>4, <3>2 DEF Ends, OnlyJams
      <4>2. st[end] \in DOMAIN Delta /\ st[end + 1] = Jam /\ st[end + 1] = NextState(st[end], ch[end])
            /\ EobState # Jam /\ ch[end] \in Chars
        BY <1>2, <1>3, <1>4, <1>5, <1>6, <2>1, <2>2, <4>1, Numbering DEF Ends, States
      <4>3. ch[end] # NUL
        BY <4>2, ToEob
      <4>4. end < n
        BY <1>4, <1>5, <2>1, <4>3
      <4>5. ReplayState(st[end], ch[end]) = Jam
        BY <2>2, <1>5, <4>2, ToEob DEF States
      <4>6. Delta[st[end]][ch[end]] = Jam
        BY <4>2, <4>3, <4>5, Numbering DEF ReplayState, NextState, States
      <4>7. c + 1 \in 1 .. Len(W) /\ (c + 1) - 1 = c /\ W[c + 1] = ch[end] /\ c + 1 \in 0 .. Len(W)
        <5>1. end \in l.bp .. n - 1 /\ end - l.bp + 1 = c + 1 /\ c + 1 <= n - l.bp
          BY <1>4, <1>5, <4>4 DEF c
        <5> QED
          BY <1>4, <2>5, <5>1 DEF Text
      <4>8. Lex!Reached(W, c + 1) = Jam
        BY <1>4, <2>5, <4>1, <4>6, <4>7, ReachedSteps
      <4> QED
        BY <1>4, <4>7, <4>8, JamStays
    <3> QED
      BY <3>1, <3>2
  <2>8. \A k \in c + 1 .. Len(W) : ~Lex!Accepted(W, k)
    BY <2>7 DEF Lex!Accepted, Jam
  <2>9. Knows(r.last, r.bp, W, c)
    <3>1. Knows(l.last, l.bp, W, l.cp - l.bp)
      BY DEF Tracks
    <3>2. Knows(LastAccepting(st, l.cp, end, l.last), l.bp, W, end - l.bp)
      <4>1. l.bp \in Nat /\ l.cp \in Nat /\ end \in Nat /\ l.bp <= l.cp /\ l.cp <= end
            /\ end - l.bp <= Len(W) /\ W \in Seq(Chars)
        BY <1>4, <1>5, <2>1
      <4> QED
        BY ONLY <2>4, <3>1, <4>1, KnowsMore
    <3> QED
      BY <1>7, <1>9, <3>2 DEF la
  <2>10. Lex!Accepted(W, c) <=> YyAccept(st[end]) # 0
    BY <1>4, <2>5, AcceptedIs
  <2>11. mode = "compressed" => YyAccept(st[end]) = 0
    BY <1>3, YyAcceptIs DEF Ends
  <2>12. Lex!Accepted(W, c) => FoundIn(r) = [act |-> YyAccept(Lex!Reached(W, c)), cp |-> r.bp + c]
    <3>1. r.bp + c = end
      BY <1>4, <1>5, <1>9
    <3> QED
      BY <1>11, <2>5, <2>10, <2>11, <3>1
  <2>13. ~Lex!Accepted(W, c) => /\ FoundIn(r).act = YyAccept(r.last.state)
                                /\ FoundIn(r).cp = BackUpTo(r.last)
    BY <1>9, <1>10, <2>10
  <2>14. c \in 1 .. Len(W)
    BY <2>5, <2>6
  <2> HIDE DEF c
  <2> QED
    BY <1>4, <1>9, <2>8, <2>9, <2>12, <2>13, <2>14, Resolves
<1>15. Finds(r, W, ch)
  <2>1. CASE \E q \in l.cp + 1 .. end : q <= n + 1 /\ st[q] = EobState
    BY <1>12, <2>1
  <2>2. CASE ~\E q \in l.cp + 1 .. end : q <= n + 1 /\ st[q] = EobState
    BY <1>13, <1>14, <2>2
  <2> QED
    BY <2>1, <2>2
<1> QED
  BY <1>1, <1>15

----------------------------------------------------------------------------
(* What is known between the steps, for module Lexer.                      *)
Pending == yyin.eof /\ yyin.next # <<>> => b.status = "EOF_PENDING"
\* What yylex() knows of the text, at each place in its loop.
Knowing ==
  /\ Pending
  /\ pc = "match" => Tracks(l, Unread)
  /\ pc = "find" => Finds(l, Unread, b.ch_buf)
  /\ pc = "eob" => b.ch_buf[l.cp - 1] = NUL

\* The action ends: the text of yymore() is kept.
LEMMA ReturnLexes == ASSUME IInv, Knowing, Return PROVE Lex!Return /\ Knowing'
<1>1. pc = "action" /\ pc' = "start" /\ UNCHANGED <<mode, input, yyin, b, g, l, out, ops, eofs>>
  BY DEF Return, Kept
<1>2. Clean' = Clean /\ yytext' = yytext
  BY <1>1 DEF Clean, Restored, yytext
<1>3. Unread' = Unread
  BY <1>1, <1>2 DEF Unread, TokenStart
<1>4. Carry' = (IF MoreCalled THEN ActionText ELSE <<>>) /\ ActionText' = <<>> /\ MoreCalled' = FALSE
      /\ Phase = "action" /\ Phase' = "scan"
  BY <1>1, <1>2 DEF Carry, ActionText, MoreCalled, Phase, IInv, Phases, AtAction
<1>5. Lex!Return
  BY <1>1, <1>3, <1>4 DEF Lex!Return
<1>6. Knowing'
  BY <1>1 DEF Knowing, Pending
<1> QED
  BY <1>5, <1>6

----------------------------------------------------------------------------
(* The text that is still to match.                                        *)

\* What there is to match when the text from lo to n is in the buffer ch and
\* cur is still to be read.
Word(ch, lo, n, cur) == Slice(ch, lo, n) \o cur

\* A slice of the buffer is the sequence of its characters.
LEMMA SliceIs ==
  ASSUME NEW ch, NEW i \in Int, NEW j \in Int, i <= j, NEW S, \A k \in i .. j - 1 : ch[k] \in S
  PROVE  /\ Slice(ch, i, j) \in Seq(S) /\ Len(Slice(ch, i, j)) = j - i
         /\ \A k \in 1 .. j - i : Slice(ch, i, j)[k] = ch[i + k - 1]
<1>1. j - i \in Nat /\ \A k \in 1 .. j - i : i + k - 1 \in i .. j - 1
  OBVIOUS
<1>2. Slice(ch, i, j) = [k \in 1 .. j - i |-> ch[i + k - 1]]
  BY DEF Slice
<1>3. Slice(ch, i, j) \in [1 .. j - i -> S]
  BY <1>1, <1>2
<1>4. Slice(ch, i, j) \in Seq(S) /\ Len(Slice(ch, i, j)) = j - i
  <2> HIDE DEF Slice
  <2> QED
    BY <1>1, <1>3, IsASeq, LenProperties
<1> QED
  BY <1>2, <1>4

\* W is that word, character by character.
Spells(W, ch, lo, n, cur) ==
  /\ W \in Seq(Chars) /\ Len(W) = n - lo + Len(cur)
  /\ \A k \in 1 .. n - lo : W[k] = ch[lo + k - 1]
  /\ \A k \in 1 .. Len(cur) : W[n - lo + k] = cur[k]

\* The word spells what it is made of.
LEMMA WordIs ==
  ASSUME NEW ch, NEW lo, NEW n \in Nat, Holds(ch, lo, n), NEW cur \in Seq(Chars)
  PROVE  Spells(Word(ch, lo, n, cur), ch, lo, n, cur)
<1>0. lo \in Nat /\ lo <= n /\ \A k \in lo .. n - 1 : ch[k] \in Chars
  BY DEF Holds
<1>1. PICK s \in Seq(Chars) : /\ s = Slice(ch, lo, n) /\ Len(s) = n - lo
                          /\ \A k \in 1 .. n - lo : s[k] = ch[lo + k - 1]
  <2>1. /\ Slice(ch, lo, n) \in Seq(Chars) /\ Len(Slice(ch, lo, n)) = n - lo
        /\ \A k \in 1 .. n - lo : Slice(ch, lo, n)[k] = ch[lo + k - 1]
    BY <1>0, SliceIs
  <2> QED
    BY <2>1
<1>2. Word(ch, lo, n, cur) = s \o cur
  BY <1>1 DEF Word
<1>3. PICK m \in Nat : m = n - lo /\ Len(s) = m
  BY <1>0, <1>1
<1>4. /\ s \o cur \in Seq(Chars) /\ Len(s \o cur) = m + Len(cur)
      /\ \A k \in 1 .. m : (s \o cur)[k] = s[k]
      /\ \A k \in 1 .. Len(cur) : (s \o cur)[m + k] = cur[k]
  <2>1. /\ s \o cur \in Seq(Chars) /\ Len(s \o cur) = Len(s) + Len(cur)
        /\ \A k \in 1 .. Len(s) + Len(cur) :
             (s \o cur)[k] = IF k <= Len(s) THEN s[k] ELSE cur[k - Len(s)]
    BY ConcatProperties
  <2>2. \A k \in 1 .. m : k \in 1 .. m + Len(cur) /\ k <= m
    BY <1>3
  <2>3. \A k \in 1 .. Len(cur) : m + k \in 1 .. m + Len(cur) /\ ~(m + k <= m) /\ (m + k) - m = k
    BY <1>3
  <2> QED
    BY <1>3, <2>1, <2>2, <2>3
<1> QED
  BY <1>1, <1>2, <1>3, <1>4 DEF Spells

\* The word depends on the characters alone.
LEMMA SameWord ==
  ASSUME NEW ch, NEW lo, NEW n \in Nat, Holds(ch, lo, n), NEW cur \in Seq(Chars),
         NEW W, Spells(W, ch, lo, n, cur)
  PROVE  Word(ch, lo, n, cur) = W
<1> DEFINE V == Word(ch, lo, n, cur)
<1>1. Spells(V, ch, lo, n, cur)
  BY WordIs
<1> HIDE DEF V
<1>2. lo \in Nat /\ lo <= n /\ n - lo \in Nat /\ V \in Seq(Chars) /\ W \in Seq(Chars) /\ Len(V) = Len(W)
      /\ Len(V) = n - lo + Len(cur)
  BY <1>1 DEF Holds, Spells
<1>3. ASSUME NEW i \in 1 .. Len(V) PROVE V[i] = W[i]
  <2>1. CASE i <= n - lo
    BY <1>1, <1>2, <2>1 DEF Spells
  <2>2. CASE ~(i <= n - lo)
    <3>1. i - (n - lo) \in 1 .. Len(cur) /\ n - lo + (i - (n - lo)) = i
      BY <1>2, <2>2
    <3>2. V[n - lo + (i - (n - lo))] = cur[i - (n - lo)] /\ W[n - lo + (i - (n - lo))] = cur[i - (n - lo)]
      BY <1>1, <3>1 DEF Spells
    <3> QED
      BY <3>1, <3>2
  <2> QED
    BY <2>1, <2>2
<1>4. V = W
  BY ONLY <1>2, <1>3, SeqEqual
<1> QED
  BY <1>4 DEF V

\* The word after its first d characters.
LEMMA DropWord ==
  ASSUME NEW ch, NEW lo, NEW n \in Nat, Holds(ch, lo, n), NEW cur \in Seq(Chars),
         NEW hi \in lo .. n
  PROVE  Word(ch, hi, n, cur) = Lex!Drop(Word(ch, lo, n, cur), hi - lo)
<1> DEFINE V == Word(ch, lo, n, cur)
           d == hi - lo
           W == SubSeq(V, d + 1, Len(V))
<1>1. Spells(V, ch, lo, n, cur)
  BY WordIs
<1> HIDE DEF V
<1>2. /\ lo \in Nat /\ lo <= n /\ hi \in Nat /\ hi <= n /\ d \in Nat /\ hi = lo + d
      /\ V \in Seq(Chars) /\ Len(V) = n - lo + Len(cur) /\ Len(V) \in Nat /\ Len(cur) \in Nat
  BY <1>1 DEF Holds, Spells
<1>3. Holds(ch, hi, n)
  BY <1>2 DEF Holds
<1> HIDE DEF d
<1>4. /\ W \in Seq(Chars) /\ Len(W) = Len(V) - d
      /\ \A k \in 1 .. Len(V) - d : W[k] = V[d + k]
  <2>1. d + 1 \in Int /\ Len(V) \in Int /\ d + 1 <= Len(V) + 1 /\ Len(V) - (d + 1) + 1 = Len(V) - d
    BY <1>2
  <2>2. \A i \in d + 1 .. Len(V) : V[i] \in Chars
    BY <1>2
  <2>3. /\ W \in Seq(Chars) /\ Len(W) = IF d + 1 <= Len(V) THEN Len(V) - (d + 1) + 1 ELSE 0
        /\ \A i \in 1 .. Len(V) - (d + 1) + 1 : W[i] = V[(d + 1) + i - 1]
    BY <2>1, <2>2, SubSeqProperties
  <2>4. \A i \in 1 .. Len(V) - d : (d + 1) + i - 1 = d + i
    BY <1>2
  <2> HIDE DEF W
  <2> QED
    BY <2>1, <2>3, <2>4
<1> HIDE DEF W
<1>5. ASSUME NEW k \in 1 .. n - hi PROVE W[k] = ch[hi + k - 1]
  <2>1. d + k \in 1 .. n - lo /\ k \in 1 .. Len(V) - d /\ lo + (d + k) - 1 = hi + k - 1
    BY <1>2
  <2>2. V[d + k] = ch[lo + (d + k) - 1]
    BY <1>1, <2>1 DEF Spells
  <2> QED
    BY <1>4, <2>1, <2>2
<1>6. ASSUME NEW k \in 1 .. Len(cur) PROVE W[n - hi + k] = cur[k]
  <2>1. n - hi + k \in 1 .. Len(V) - d /\ d + (n - hi + k) = n - lo + k
    BY <1>2
  <2>2. V[n - lo + k] = cur[k]
    BY <1>1 DEF Spells
  <2> QED
    BY <1>4, <2>1, <2>2
<1>7. Spells(W, ch, hi, n, cur)
  BY <1>2, <1>4, <1>5, <1>6 DEF Spells
<1>8. Word(ch, hi, n, cur) = W
  BY <1>3, <1>7, SameWord
<1> QED
  BY <1>8 DEF W, V, d, Lex!Drop

\* k of the characters to be read have come into the buffer, and the text may
\* have moved.
Brings(ch2, lo2, n2, cur2, ch, lo, n, cur, k) ==
  /\ n2 - lo2 = n - lo + k /\ Len(cur) = Len(cur2) + k
  /\ \A i \in 0 .. n - lo - 1 : ch2[lo2 + i] = ch[lo + i]
  /\ \A i \in 1 .. k : ch2[lo2 + (n - lo) + i - 1] = cur[i]
  /\ \A i \in 1 .. Len(cur2) : cur2[i] = cur[k + i]

\* The word is the same after a read, and after its text has moved.
LEMMA MovedWord ==
  ASSUME NEW ch, NEW lo, NEW n \in Nat, Holds(ch, lo, n), NEW cur \in Seq(Chars),
         NEW ch2, NEW lo2, NEW n2 \in Nat, Holds(ch2, lo2, n2), NEW cur2 \in Seq(Chars),
         NEW k \in Nat, Brings(ch2, lo2, n2, cur2, ch, lo, n, cur, k)
  PROVE  Word(ch2, lo2, n2, cur2) = Word(ch, lo, n, cur)
<1>0. /\ n2 - lo2 = n - lo + k /\ Len(cur) = Len(cur2) + k
      /\ \A i \in 0 .. n - lo - 1 : ch2[lo2 + i] = ch[lo + i]
      /\ \A i \in 1 .. k : ch2[lo2 + (n - lo) + i - 1] = cur[i]
      /\ \A i \in 1 .. Len(cur2) : cur2[i] = cur[k + i]
  BY DEF Brings
<1> DEFINE V == Word(ch, lo, n, cur)
<1>1. Spells(V, ch, lo, n, cur)
  BY WordIs
<1> HIDE DEF V
<1>2. /\ lo \in Nat /\ lo <= n /\ lo2 \in Nat /\ lo2 <= n2 /\ Len(cur) \in Nat /\ Len(cur2) \in Nat
      /\ V \in Seq(Chars) /\ Len(V) = n - lo + Len(cur)
  BY <1>1 DEF Holds, Spells
<1>3. Len(V) = n2 - lo2 + Len(cur2)
  <2>1. n2 - lo2 = n - lo + k /\ Len(cur) = Len(cur2) + k
    BY <1>0
  <2> QED
    BY ONLY <1>2, <2>1, k \in Nat, n \in Nat, n2 \in Nat
<1>4. ASSUME NEW j \in 1 .. n2 - lo2 PROVE V[j] = ch2[lo2 + j - 1]
  <2>1. CASE j <= n - lo
    <3>1. j \in 1 .. n - lo /\ j - 1 \in 0 .. n - lo - 1 /\ lo2 + (j - 1) = lo2 + j - 1
          /\ lo + (j - 1) = lo + j - 1
      BY <1>0, <1>2, <2>1
    <3>2. V[j] = ch[lo + j - 1]
      BY <1>1, <3>1 DEF Spells
    <3> QED
      BY <1>0, <3>1, <3>2
  <2>2. CASE ~(j <= n - lo)
    <3> DEFINE i == j - (n - lo)
    <3>1. i \in 1 .. k /\ i \in 1 .. Len(cur) /\ n - lo + i = j /\ lo2 + (n - lo) + i - 1 = lo2 + j - 1
      BY <1>0, <1>2, <2>2
    <3> HIDE DEF i
    <3>2. V[n - lo + i] = cur[i]
      BY <1>1, <3>1 DEF Spells
    <3>3. ch2[lo2 + (n - lo) + i - 1] = cur[i]
      BY <1>0, <3>1
    <3> QED
      BY <3>1, <3>2, <3>3
  <2> QED
    BY <2>1, <2>2
<1>5. ASSUME NEW j \in 1 .. Len(cur2) PROVE V[n2 - lo2 + j] = cur2[j]
  <2>1. k + j \in 1 .. Len(cur) /\ n - lo + (k + j) = n2 - lo2 + j
    BY <1>0, <1>2
  <2>2. V[n - lo + (k + j)] = cur[k + j]
    BY <1>1, <2>1 DEF Spells
  <2> QED
    BY <1>0, <2>1, <2>2
<1>6. Spells(V, ch2, lo2, n2, cur2)
  BY <1>2, <1>3, <1>4, <1>5 DEF Spells
<1> QED
  BY <1>6, SameWord DEF V

\* The same characters in another buffer.
LEMMA SameCellsWord ==
  ASSUME NEW ch, NEW lo, NEW n \in Nat, Holds(ch, lo, n), NEW cur \in Seq(Chars),
         NEW ch2, \A i \in lo .. n - 1 : ch2[i] = ch[i]
  PROVE  Word(ch2, lo, n, cur) = Word(ch, lo, n, cur) /\ Holds(ch2, lo, n)
<1>1. lo \in Nat /\ lo <= n
  BY DEF Holds
<1>2. \A k \in 1 .. n - lo : lo + k - 1 \in lo .. n - 1
  BY <1>1
<1>3. Slice(ch2, lo, n) = Slice(ch, lo, n)
  BY <1>2 DEF Slice
<1> QED
  BY <1>3 DEF Word, Holds

\* The first d characters of a sequence, and the others.
LEMMA PartsOf ==
  ASSUME NEW S, NEW s \in Seq(S), NEW d \in 0 .. Len(s)
  PROVE  /\ SubSeq(s, 1, d) \in Seq(S) /\ Len(SubSeq(s, 1, d)) = d
         /\ \A k \in 1 .. d : SubSeq(s, 1, d)[k] = s[k]
         /\ SubSeq(s, d + 1, Len(s)) \in Seq(S) /\ Len(SubSeq(s, d + 1, Len(s))) = Len(s) - d
         /\ \A k \in 1 .. Len(s) - d : SubSeq(s, d + 1, Len(s))[k] = s[d + k]
<1>1. PICK m \in Nat : m = Len(s)
  OBVIOUS
<1>2. d \in Nat /\ d <= m /\ \A i \in 1 .. m : s[i] \in S
  BY <1>1
<1>3. /\ SubSeq(s, 1, d) \in Seq(S) /\ Len(SubSeq(s, 1, d)) = d
      /\ \A k \in 1 .. d : SubSeq(s, 1, d)[k] = s[k]
  <2>1. PICK a \in Int : a = 1
    OBVIOUS
  <2>2. d \in Int /\ \A i \in a .. d : s[i] \in S
    BY <1>2, <2>1
  <2>3. /\ SubSeq(s, a, d) \in Seq(S) /\ Len(SubSeq(s, a, d)) = IF a <= d THEN d - a + 1 ELSE 0
        /\ \A i \in 1 .. d - a + 1 : SubSeq(s, a, d)[i] = s[a + i - 1]
    BY <2>2, SubSeqProperties
  <2>4. d - a + 1 = d /\ (~(a <= d) => d = 0) /\ \A i \in 1 .. d : a + i - 1 = i
    BY <1>2, <2>1
  <2> QED
    BY <2>1, <2>3, <2>4
<1>4. /\ SubSeq(s, d + 1, m) \in Seq(S) /\ Len(SubSeq(s, d + 1, m)) = m - d
      /\ \A k \in 1 .. m - d : SubSeq(s, d + 1, m)[k] = s[d + k]
  <2>1. PICK a \in Int : a = d + 1
    BY <1>2
  <2>2. m \in Int /\ \A i \in a .. m : s[i] \in S
    BY <1>2, <2>1
  <2>3. /\ SubSeq(s, a, m) \in Seq(S) /\ Len(SubSeq(s, a, m)) = IF a <= m THEN m - a + 1 ELSE 0
        /\ \A i \in 1 .. m - a + 1 : SubSeq(s, a, m)[i] = s[a + i - 1]
    BY <2>1, <2>2, SubSeqProperties
  <2>4. m - a + 1 = m - d /\ (~(a <= m) => m - d = 0) /\ \A i \in 1 .. m - d : a + i - 1 = d + i
    BY <1>2, <2>1
  <2> QED
    BY <2>1, <2>3, <2>4
<1> QED
  BY <1>1, <1>3, <1>4

\* A part of a text.
Parts(ch, i, j, d) ==
  /\ SubSeq(Slice(ch, i, j), 1, d) = Slice(ch, i, i + d)
  /\ SubSeq(Slice(ch, i, j), d + 1, Len(Slice(ch, i, j))) = Slice(ch, i + d, j)

LEMMA SliceOfSlice ==
  ASSUME NEW ch, NEW i \in Int, NEW j \in Int, NEW d \in 0 .. j - i
  PROVE  Parts(ch, i, j, d)
<1> DEFINE S == {ch[k] : k \in i .. j - 1}
<1>1. \A k \in i .. j - 1 : ch[k] \in S
  OBVIOUS
<1> HIDE DEF S
<1>2. i <= j /\ d \in Nat /\ i + d \in Int /\ i + d <= j /\ i <= i + d
  OBVIOUS
<1>3. PICK s : /\ s = Slice(ch, i, j) /\ s \in Seq(S) /\ Len(s) = j - i
               /\ \A k \in 1 .. j - i : s[k] = ch[i + k - 1]
  <2>1. /\ Slice(ch, i, j) \in Seq(S) /\ Len(Slice(ch, i, j)) = j - i
        /\ \A k \in 1 .. j - i : Slice(ch, i, j)[k] = ch[i + k - 1]
    BY ONLY i \in Int, j \in Int, <1>1, <1>2, SliceIs
  <2> QED
    BY <2>1
<1>4. PICK t : /\ t = Slice(ch, i, i + d) /\ t \in Seq(S) /\ Len(t) = d
               /\ \A k \in 1 .. d : t[k] = ch[i + k - 1]
  <2>1. \A k \in i .. (i + d) - 1 : ch[k] \in S
    BY <1>1, <1>2
  <2>2. (i + d) - i = d
    BY <1>2
  <2>4. i \in Int /\ i + d \in Int /\ i <= i + d
    BY <1>2
  <2>3. /\ Slice(ch, i, i + d) \in Seq(S) /\ Len(Slice(ch, i, i + d)) = (i + d) - i
        /\ \A k \in 1 .. (i + d) - i : Slice(ch, i, i + d)[k] = ch[i + k - 1]
    BY ONLY <2>1, <2>4, SliceIs
  <2> QED
    BY <2>2, <2>3
<1>5. PICK u : /\ u = Slice(ch, i + d, j) /\ u \in Seq(S) /\ Len(u) = (j - i) - d
               /\ \A k \in 1 .. (j - i) - d : u[k] = ch[i + d + k - 1]
  <2>1. \A k \in i + d .. j - 1 : ch[k] \in S
    BY <1>1, <1>2
  <2>2. j - (i + d) = (j - i) - d
    OBVIOUS
  <2>3. /\ Slice(ch, i + d, j) \in Seq(S) /\ Len(Slice(ch, i + d, j)) = j - (i + d)
        /\ \A k \in 1 .. j - (i + d) : Slice(ch, i + d, j)[k] = ch[i + d + k - 1]
    BY <1>2, <2>1, SliceIs
  <2> QED
    BY <2>2, <2>3
<1>6. /\ SubSeq(s, 1, d) \in Seq(S) /\ Len(SubSeq(s, 1, d)) = d
      /\ \A k \in 1 .. d : SubSeq(s, 1, d)[k] = s[k]
      /\ SubSeq(s, d + 1, Len(s)) \in Seq(S) /\ Len(SubSeq(s, d + 1, Len(s))) = Len(s) - d
      /\ \A k \in 1 .. Len(s) - d : SubSeq(s, d + 1, Len(s))[k] = s[d + k]
  <2>1. s \in Seq(S) /\ d \in 0 .. Len(s)
    BY <1>2, <1>3
  <2> QED
    BY ONLY <2>1, PartsOf
<1>7. /\ SubSeq(s, d + 1, j - i) \in Seq(S) /\ Len(SubSeq(s, d + 1, j - i)) = (j - i) - d
      /\ \A k \in 1 .. (j - i) - d : SubSeq(s, d + 1, j - i)[k] = s[d + k]
  <2>1. Len(s) = j - i
    BY <1>3
  <2> QED
    BY ONLY <1>6, <2>1
<1>8. SubSeq(s, 1, d) = t
  <2>1. \A k \in 1 .. d : SubSeq(s, 1, d)[k] = t[k]
    BY <1>2, <1>3, <1>4, <1>6
  <2> QED
    BY ONLY <1>4, <1>6, <2>1, SeqEqual
<1>9. SubSeq(s, d + 1, j - i) = u
  <2>1. ASSUME NEW k \in 1 .. (j - i) - d PROVE SubSeq(s, d + 1, j - i)[k] = u[k]
    <3>1. d + k \in 1 .. j - i /\ i + (d + k) - 1 = i + d + k - 1
      BY <1>2
    <3> QED
      BY <1>3, <1>5, <1>7, <3>1
  <2> QED
    BY ONLY <1>5, <1>7, <2>1, SeqEqual
<1>10. /\ SubSeq(Slice(ch, i, j), 1, d) = Slice(ch, i, i + d)
       /\ SubSeq(Slice(ch, i, j), d + 1, j - i) = Slice(ch, i + d, j)
  BY ONLY <1>3, <1>4, <1>5, <1>8, <1>9, Zenon
<1>11. Len(Slice(ch, i, j)) = j - i
  BY ONLY <1>3, Zenon
<1> QED
  BY ONLY <1>10, <1>11, Zenon DEF Parts

\* Slices of equal cells are equal.
LEMMA SameSlice ==
  ASSUME NEW ch, NEW ch2, NEW i \in Int, NEW j \in Int, \A k \in i .. j - 1 : ch2[k] = ch[k]
  PROVE  Slice(ch2, i, j) = Slice(ch, i, j)
<1>1. \A k \in 1 .. j - i : i + k - 1 \in i .. j - 1
  OBVIOUS
<1> QED
  BY <1>1 DEF Slice

\* The text from lo to hi, and then what follows it.
LEMMA SplitWord ==
  ASSUME NEW ch, NEW lo, NEW n \in Nat, Holds(ch, lo, n), NEW cur \in Seq(Chars), NEW hi \in lo .. n
  PROVE  /\ Word(ch, lo, n, cur) = Slice(ch, lo, hi) \o Word(ch, hi, n, cur)
         /\ SubSeq(Word(ch, lo, n, cur), 1, hi - lo) = Slice(ch, lo, hi)
<1> DEFINE R == Word(ch, hi, n, cur)
           V == Word(ch, lo, n, cur)
<1>1. /\ lo \in Nat /\ hi \in Nat /\ lo <= hi /\ hi <= n /\ Len(cur) \in Nat
      /\ \A k \in lo .. hi - 1 : ch[k] \in Chars
  BY DEF Holds
<1>2. Holds(ch, hi, n)
  BY <1>1 DEF Holds
<1>3. Spells(R, ch, hi, n, cur) /\ Spells(V, ch, lo, n, cur)
  BY <1>2, WordIs
<1> HIDE DEF R, V
<1>4. PICK P \in Seq(Chars) : /\ P = Slice(ch, lo, hi) /\ Len(P) = hi - lo
                              /\ \A k \in 1 .. hi - lo : P[k] = ch[lo + k - 1]
  <2>1. /\ Slice(ch, lo, hi) \in Seq(Chars) /\ Len(Slice(ch, lo, hi)) = hi - lo
        /\ \A k \in 1 .. hi - lo : Slice(ch, lo, hi)[k] = ch[lo + k - 1]
    <3>1. lo \in Int /\ hi \in Int
      BY <1>1
    <3> QED
      BY ONLY <1>1, <3>1, SliceIs
  <2> QED
    BY <2>1
<1>5. PICK m \in Nat : m = hi - lo /\ Len(P) = m
  BY <1>1, <1>4
<1>6. R \in Seq(Chars) /\ Len(R) = n - hi + Len(cur) /\ Len(R) \in Nat
  BY <1>1, <1>3 DEF Spells
<1>7. /\ P \o R \in Seq(Chars) /\ Len(P \o R) = m + Len(R)
      /\ \A k \in 1 .. m : (P \o R)[k] = P[k]
      /\ \A k \in 1 .. Len(R) : (P \o R)[m + k] = R[k]
  <2>1. /\ P \o R \in Seq(Chars) /\ Len(P \o R) = Len(P) + Len(R)
        /\ \A k \in 1 .. Len(P) + Len(R) :
             (P \o R)[k] = IF k <= Len(P) THEN P[k] ELSE R[k - Len(P)]
    BY <1>6, ConcatProperties
  <2>2. \A k \in 1 .. m : k \in 1 .. m + Len(R) /\ k <= m
    BY <1>5, <1>6
  <2>3. \A k \in 1 .. Len(R) : m + k \in 1 .. m + Len(R) /\ ~(m + k <= m) /\ (m + k) - m = k
    BY <1>5, <1>6
  <2> QED
    BY <1>5, <2>1, <2>2, <2>3
<1>8. ASSUME NEW k \in 1 .. n - lo PROVE (P \o R)[k] = ch[lo + k - 1]
  <2>1. CASE k <= m
    <3>1. k \in 1 .. m
      BY <2>1
    <3> QED
      BY <1>4, <1>5, <1>7, <3>1
  <2>2. CASE ~(k <= m)
    <3>1. k - m \in 1 .. n - hi /\ k - m \in 1 .. Len(R) /\ m + (k - m) = k /\ hi + (k - m) - 1 = lo + k - 1
      BY <1>1, <1>5, <1>6, <2>2
    <3>2. R[k - m] = ch[hi + (k - m) - 1]
      BY <1>3, <3>1 DEF Spells
    <3> QED
      BY <1>7, <3>1, <3>2
  <2> QED
    BY <2>1, <2>2
<1>9. ASSUME NEW k \in 1 .. Len(cur) PROVE (P \o R)[n - lo + k] = cur[k]
  <2>1. n - hi + k \in 1 .. Len(R) /\ m + (n - hi + k) = n - lo + k
    BY <1>1, <1>5, <1>6
  <2>2. R[n - hi + k] = cur[k]
    BY <1>3 DEF Spells
  <2> QED
    BY <1>7, <2>1, <2>2
<1>10. Spells(P \o R, ch, lo, n, cur)
  <2>1. Len(P \o R) = n - lo + Len(cur)
    BY <1>1, <1>5, <1>6, <1>7
  <2> QED
    BY <1>7, <1>8, <1>9, <2>1 DEF Spells
<1>11. V = P \o R
  BY <1>10, SameWord DEF V
<1>12. SubSeq(V, 1, m) = P
  <2>1. V \in Seq(Chars) /\ Len(V) \in Nat /\ m <= Len(V)
    BY <1>5, <1>6, <1>7, <1>11
  <2>2. \A i \in 1 .. m : V[i] \in Chars
    BY <2>1, <1>5
  <2>3. /\ SubSeq(V, 1, m) \in Seq(Chars) /\ Len(SubSeq(V, 1, m)) = IF 1 <= m THEN m - 1 + 1 ELSE 0
        /\ \A i \in 1 .. m - 1 + 1 : SubSeq(V, 1, m)[i] = V[1 + i - 1]
    <3>1. 1 \in Int /\ m \in Int /\ 1 <= m + 1
      BY <1>5
    <3> QED
      BY <2>2, <3>1, SubSeqProperties
  <2>4. Len(SubSeq(V, 1, m)) = m
    BY <1>5, <2>3
  <2>5. \A i \in 1 .. m : SubSeq(V, 1, m)[i] = P[i]
    <3>1. \A i \in 1 .. m : i \in 1 .. m - 1 + 1 /\ 1 + i - 1 = i
      BY <1>5
    <3> QED
      BY <1>7, <1>11, <2>3, <3>1
  <2> QED
    BY ONLY <1>4, <1>5, <2>3, <2>4, <2>5, SeqEqual
<1> QED
  BY <1>4, <1>5, <1>11, <1>12 DEF R, V

\* Two slices, one behind the other.
LEMMA JoinSlices ==
  ASSUME NEW ch, NEW i \in Nat, NEW j \in Nat, NEW n \in Nat, i <= j, Holds(ch, i, n), j <= n,
         NEW m \in j .. n
  PROVE  Slice(ch, i, j) \o Slice(ch, j, m) = Slice(ch, i, m)
<1>1. PICK e \in Seq(Chars) : e = <<>>
  <2>1. <<>> \in Seq(Chars)
    OBVIOUS
  <2> QED
    BY <2>1
<1>2. j \in i .. m /\ m \in Nat /\ Holds(ch, i, m) /\ i \in i .. m /\ e \in Seq(Chars)
  BY DEF Holds
<1>3. ASSUME NEW k \in i .. m PROVE Word(ch, k, m, e) = Slice(ch, k, m)
  <2>1. k \in Int /\ m \in Int /\ k <= m /\ \A p \in k .. m - 1 : ch[p] \in Chars
    BY <1>2 DEF Holds
  <2>2. Slice(ch, k, m) \in Seq(Chars)
    BY ONLY <2>1, SliceIs
  <2> HIDE DEF Slice
  <2> QED
    BY <1>1, <2>2 DEF Word
<1>4. Word(ch, i, m, e) = Slice(ch, i, j) \o Word(ch, j, m, e)
  BY ONLY <1>2, SplitWord
<1>5. Word(ch, i, m, e) = Slice(ch, i, m) /\ Word(ch, j, m, e) = Slice(ch, j, m)
  BY <1>2, <1>3
<1> QED
  BY ONLY <1>4, <1>5, Zenon

\* What there is to match, while the buffer is in order.
LEMMA UnreadIs ==
  ASSUME IInv, pc # "fatal"
  PROVE  /\ Unread = Word(Clean, TokenStart, g.n_chars, yyin.cur)
         /\ Holds(Clean, TokenStart, g.n_chars) /\ yyin.cur \in Seq(Chars) /\ g.n_chars \in Nat
         /\ TokenStart \in Nat /\ TokenStart <= g.n_chars
         /\ Unread \in Seq(Chars)
         /\ Text(Unread, Clean, TokenStart, g.n_chars)
<1>1. Unread = Word(Clean, TokenStart, g.n_chars, yyin.cur)
  BY DEF Unread, Word
<1>2. /\ yyin.cur \in Seq(Chars) /\ g.n_chars \in Nat /\ g.more_len \in Nat /\ g.c_buf_p \in Nat
      /\ l.bp \in Nat
      /\ pc \in {"start", "match", "find", "eob", "action", "input", "eof", "fatal"}
  BY InvTypes DEF IInv, Shapes, StreamShape
<1>3. Holds(Clean, TokenStart, g.n_chars)
  <2>1. CASE pc \in {"match", "find", "eob"}
    <3>1. l.bp \in 0 .. g.n_chars /\ Holds(Clean, l.bp - g.more_len, g.n_chars) /\ TokenStart = l.bp
      BY <2>1 DEF IInv, Phases, InToken, TokenStart
    <3>2. \A i \in l.bp .. g.n_chars - 1 : i \in l.bp - g.more_len .. g.n_chars - 1
      BY <1>2
    <3> QED
      BY <3>1, <3>2 DEF Holds
  <2>2. CASE pc \in {"start", "action", "input", "eof"}
    <3>1. TokenStart = g.c_buf_p
      BY <2>2 DEF TokenStart
    <3> QED
      BY <2>2, <3>1 DEF IInv, Phases, AtStart, InCall, AtEof
  <2> QED
    BY <1>2, <2>1, <2>2
<1>4. TokenStart \in Nat /\ TokenStart <= g.n_chars
  BY <1>2, <1>3 DEF Holds
<1>5. Spells(Unread, Clean, TokenStart, g.n_chars, yyin.cur)
  BY <1>1, <1>2, <1>3, WordIs
<1>6. Text(Unread, Clean, TokenStart, g.n_chars)
  <2> DEFINE W == Unread
             ch == Clean
             lo == TokenStart
  <2>1. Spells(W, ch, lo, g.n_chars, yyin.cur) /\ lo \in Nat /\ lo <= g.n_chars /\ Len(yyin.cur) \in Nat
    BY <1>2, <1>4, <1>5
  <2> HIDE DEF W, ch, lo
  <2>2. ASSUME NEW i \in lo .. g.n_chars - 1 PROVE W[i - lo + 1] = ch[i]
    <3>1. i - lo + 1 \in 1 .. g.n_chars - lo /\ lo + (i - lo + 1) - 1 = i
      BY <1>2, <2>1
    <3> QED
      BY <2>1, <3>1 DEF Spells
  <2>3. Text(W, ch, lo, g.n_chars)
    BY <1>2, <2>1, <2>2 DEF Text, Spells
  <2> QED
    BY <2>3 DEF W, ch, lo
<1> QED
  BY <1>1, <1>2, <1>3, <1>4, <1>5, <1>6 DEF Spells

----------------------------------------------------------------------------
(* Every step is one of module Lexer, or none of its steps.                *)

\* A slice of no cells.
LEMMA EmptySlice == ASSUME NEW ch, NEW i \in Int PROVE Slice(ch, i, i) = <<>>
<1>1. Slice(ch, i, i) \in Seq({}) /\ Len(Slice(ch, i, i)) = i - i
  BY SliceIs
<1> HIDE DEF Slice
<1>2. Len(Slice(ch, i, i)) = 0
  BY <1>1
<1> QED
  BY <1>1, <1>2, EmptySeq

\* What is known in the next state.
LEMMA KnowingNext ==
  ASSUME mode' = mode, Pending',
         pc' = "match" => Tracks(l', Unread'),
         pc' = "find" => Finds(l', Unread', b'.ch_buf),
         pc' = "eob" => b'.ch_buf[l'.cp - 1] = NUL
  PROVE  Knowing'
<1>1. ASSUME Tracks(l', Unread') PROVE Tracks(l, Unread)'
  BY <1>1, Zenon DEF Tracks, Knows, Seen, BackUpTo
<1>2. ASSUME Finds(l', Unread', b'.ch_buf) PROVE Finds(l, Unread, b.ch_buf)'
  BY <1>2, Zenon DEF Finds, FoundIn, BackUpTo, YyAccept, Longest
<1> QED
  BY <1>1, <1>2, Zenon DEF Knowing

\* The top of the loop starts a match with nothing gone over.
LEMMA StartTokenLexes == ASSUME IInv, Knowing, StartToken PROVE UNCHANGED Lex!absvars /\ Knowing'
<1>1. /\ pc = "start" /\ pc' = "match" /\ b' = Restored
      /\ g' = [g EXCEPT !.more_len = IF g.more_flag THEN g.c_buf_p - g.text_ptr ELSE 0,
                        !.more_flag = FALSE]
      /\ l' = [l EXCEPT !.cp = g.c_buf_p, !.bp = g.c_buf_p, !.cs = Start]
      /\ UNCHANGED <<mode, yyin, out>>
  BY DEF StartToken, Kept
<1>2. GlobalsShape(g) /\ Locals(l)
  BY DEF IInv, Shapes
<1>3. /\ g'.more_len = (IF g.more_flag THEN g.c_buf_p - g.text_ptr ELSE 0)
      /\ g'.n_chars = g.n_chars
      /\ l'.cp = g.c_buf_p /\ l'.bp = g.c_buf_p /\ l'.cs = Start
  BY <1>1, <1>2 DEF GlobalsShape, Locals
<1>4. Clean' = Clean /\ TokenStart' = TokenStart /\ b'.ch_buf = Clean
  BY <1>1, <1>3 DEF Clean, TokenStart
<1>5. Unread' = Unread
  BY <1>1, <1>3, <1>4 DEF Unread
<1>6. Carry' = Carry
  <2>1. Carry' = Slice(Restored.ch_buf, g.c_buf_p - g'.more_len, g.c_buf_p)
    BY <1>1, <1>3 DEF Carry
  <2>2. Carry = IF g.more_flag THEN Slice(b.ch_buf, g.text_ptr, g.c_buf_p) ELSE <<>>
    BY <1>1 DEF Carry, yytext
  <2>3. g.c_buf_p \in Nat /\ g.text_ptr \in Nat /\ DOMAIN b.ch_buf = 0 .. b.buf_size + 1
        /\ g.c_buf_p \in DOMAIN b.ch_buf
    BY InvTypes
  <2>4. CASE g.more_flag
    <3>1. g.c_buf_p - g'.more_len = g.text_ptr
      BY <1>3, <2>3, <2>4
    <3>2. \A k \in g.text_ptr .. g.c_buf_p - 1 : Restored.ch_buf[k] = b.ch_buf[k]
      <4>1. Restored.ch_buf = [b.ch_buf EXCEPT ![g.c_buf_p] = g.hold_char]
        BY RestoredIs
      <4>2. b.buf_size \in Nat
        BY InvTypes
      <4> QED
        BY <2>3, <4>1, <4>2
    <3>3. Slice(Restored.ch_buf, g.text_ptr, g.c_buf_p) = Slice(b.ch_buf, g.text_ptr, g.c_buf_p)
      BY <2>3, <3>2, SameSlice
    <3> QED
      BY <2>1, <2>2, <2>4, <3>1, <3>3
  <2>5. CASE ~g.more_flag
    <3>1. g.c_buf_p - g'.more_len = g.c_buf_p
      BY <1>3, <2>3, <2>5
    <3> QED
      BY <2>1, <2>2, <2>3, <2>5, <3>1, EmptySlice
  <2> QED
    BY <2>4, <2>5
<1>7. ActionText' = ActionText /\ MoreCalled' = MoreCalled /\ Phase' = Phase
  BY <1>1 DEF ActionText, MoreCalled, Phase
<1>8. Tracks(l', Unread')
  <2>1. Unread \in Seq(Chars) /\ g.c_buf_p \in Nat
    BY <1>1, UnreadIs, InvTypes
  <2>2. Seen(g.c_buf_p - g.c_buf_p) = {} /\ g.c_buf_p - g.c_buf_p = 0
    BY <2>1 DEF Seen
  <2>3. Lex!Reached(Unread, 0) = Start
    BY <2>1, ReachedSteps
  <2>4. Knows(l'.last, g.c_buf_p, Unread, g.c_buf_p - g.c_buf_p)
    BY <2>2 DEF Knows
  <2> QED
    BY <1>3, <1>5, <2>1, <2>2, <2>3, <2>4 DEF Tracks
<1>9. Pending'
  BY <1>1, RestoredIs DEF Knowing, Pending
<1>10. Knowing'
  BY <1>1, <1>8, <1>9, KnowingNext
<1> QED
  BY <1>1, <1>5, <1>6, <1>7, <1>10 DEF Lex!absvars

\* The matching loop reads the text without changing it.
LEMMA MatchLexes == ASSUME IInv, Knowing, Match PROVE UNCHANGED Lex!absvars /\ Knowing'
<1>1. pc = "match" /\ pc' = "find" /\ UNCHANGED <<mode, input, yyin, b, g, out>>
  BY DEF Match, Kept
<1>2. l'.bp = l.bp
  <2>1. /\ mode \in Modes /\ Locals(l) /\ l.cs \in States /\ Ready(l) /\ l.bp <= l.cp
        /\ Marked(Clean, b.buf_size, g.n_chars) /\ Holds(Clean, TokenStart, g.n_chars)
    BY <1>1, UnreadIs DEF IInv, Shapes, Texts, Phases, AtMatch
  <2> QED
    BY DEF Match, Locals, IInv, Shapes
<1>3. Clean' = Clean /\ Clean = b.ch_buf /\ TokenStart' = TokenStart /\ TokenStart = l.bp
  BY <1>1, <1>2 DEF Clean, TokenStart
<1>4. Unread' = Unread
  BY <1>1, <1>3 DEF Unread
<1>5. Carry' = Carry /\ ActionText' = ActionText /\ MoreCalled' = MoreCalled /\ Phase' = Phase
  BY <1>1, <1>2 DEF Carry, ActionText, MoreCalled, Phase
<1>6. Finds(l', Unread, b.ch_buf)
  <2>1. /\ mode \in Modes /\ Locals(l) /\ l.cs \in States /\ Ready(l)
        /\ Marked(b.ch_buf, b.buf_size, g.n_chars) /\ l.cp \in l.bp .. g.n_chars
    BY <1>1, <1>3 DEF IInv, Shapes, Texts, Phases, AtMatch
  <2>2. Text(Unread, b.ch_buf, l.bp, g.n_chars) /\ Holds(b.ch_buf, l.bp, g.n_chars) /\ g.n_chars \in Nat
        /\ l.bp \in Nat
    BY <1>1, <1>3, UnreadIs
  <2>3. l.bp <= l.cp /\ Holds(b.ch_buf, l.cp, g.n_chars)
    <3>1. \A i \in l.cp .. g.n_chars - 1 : i \in l.bp .. g.n_chars - 1
      BY <2>1, <2>2
    <3> QED
      BY <2>1, <2>2, <3>1 DEF Holds
  <2>4. Tracks(l, Unread)
    BY <1>1 DEF Knowing
  <2> QED
    BY <2>1, <2>2, <2>3, <2>4, MatchFinds
<1>7. Knowing'
  <2>1. Pending'
    BY <1>1 DEF Knowing, Pending
  <2> QED
    BY <1>1, <1>4, <1>6, <2>1, KnowingNext
<1> QED
  BY <1>1, <1>4, <1>5, <1>7 DEF Lex!absvars

\* The longest length that a rule matches.
LEMMA LongestIs ==
  ASSUME NEW W \in Seq(Chars), NEW m, Longest(W, m)
  PROVE  Lex!MatchLengths(W) # {} /\ Lex!Max(Lex!MatchLengths(W)) = m
<1> DEFINE ms == Lex!MatchLengths(W)
<1>1. m \in ms /\ m \in 1 .. Len(W) /\ Len(W) \in Nat
  BY DEF Longest, Lex!MatchLengths
<1>2. ms \subseteq Int /\ \A y \in ms : y <= m
  <2>1. \A y \in ms : y \in 1 .. Len(W) /\ Lex!Accepted(W, y)
    BY DEF Lex!MatchLengths
  <2>2. \A y \in m + 1 .. Len(W) : ~Lex!Accepted(W, y)
    BY DEF Longest
  <2> HIDE DEF ms
  <2>3. ASSUME NEW y \in ms PROVE y <= m
    <3>1. y \in 1 .. Len(W) /\ y \notin m + 1 .. Len(W)
      BY <2>1, <2>2
    <3> QED
      BY <1>1, <3>1
  <2> QED
    BY <1>1, <2>1, <2>3
<1> HIDE DEF ms
<1>3. Max(ms) \in ms /\ \A y \in ms : y <= Max(ms)
  <2>1. m \in Int
    BY <1>1
  <2> QED
    BY <1>1, <1>2, <2>1, MaxIs
<1>4. Max(ms) = m
  <2>1. PICK q : q = Max(ms)
    OBVIOUS
  <2>2. q \in ms /\ q \in Int /\ m \in Int /\ m <= q /\ q <= m
    BY <1>1, <1>2, <1>3, <2>1
  <2> QED
    BY <2>1, <2>2
<1>5. Lex!Max(ms) = Max(ms)
  BY DEF Max, Lex!Max
<1> QED
  BY <1>1, <1>4, <1>5 DEF ms

\* Two buffers hold the same text from lo to n.
SameText(ch2, ch, lo, n) == \A i \in lo .. n - 1 : ch2[i] = ch[i]

\* The pointers of a match; and the text divided at its end.
InOrder(tp, bp, cp, n) ==
  tp \in Nat /\ bp \in Nat /\ cp \in Nat /\ n \in Nat /\ tp <= bp /\ bp <= cp /\ cp <= n

Divides(ch, tp, bp, cp, n, cur, clean) ==
  /\ Slice(ch, tp, bp) \o SubSeq(Word(ch, bp, n, cur), 1, cp - bp) = Slice(ch, tp, cp)
  /\ Word(clean, cp, n, cur) = Lex!Drop(Word(ch, bp, n, cur), cp - bp)

\* The text of a match from bp to cp, behind what yymore() kept from tp on, and
\* what is left after it.
LEMMA TokenText ==
  ASSUME NEW ch, NEW tp, NEW bp, NEW cp, NEW n, InOrder(tp, bp, cp, n),
         Holds(ch, tp, n), NEW cur, cur \in Seq(Chars), NEW clean, SameText(clean, ch, tp, n)
  PROVE  Divides(ch, tp, bp, cp, n, cur, clean)
<1>1. /\ cp \in bp .. n /\ bp <= n
      /\ tp \in Nat /\ bp \in Nat /\ cp \in Nat /\ n \in Nat /\ tp <= bp /\ bp <= cp /\ cp <= n
  BY DEF InOrder
<1>2. Holds(ch, bp, n) /\ Holds(ch, cp, n)
  <2>1. \A i \in bp .. n - 1 : i \in tp .. n - 1
    BY <1>1
  <2>2. \A i \in cp .. n - 1 : i \in tp .. n - 1
    BY <1>1
  <2> QED
    BY <1>1, <2>1, <2>2 DEF Holds
<1>3. SubSeq(Word(ch, bp, n, cur), 1, cp - bp) = Slice(ch, bp, cp)
  BY <1>1, <1>2, SplitWord
<1>4. Slice(ch, tp, bp) \o Slice(ch, bp, cp) = Slice(ch, tp, cp)
  BY <1>1, JoinSlices
<1>5. Word(ch, cp, n, cur) = Lex!Drop(Word(ch, bp, n, cur), cp - bp)
  BY <1>1, <1>2, DropWord
<1>6. Word(clean, cp, n, cur) = Word(ch, cp, n, cur)
  <2>1. \A i \in cp .. n - 1 : clean[i] = ch[i]
    BY <1>1 DEF SameText
  <2> QED
    BY <1>1, <1>2, <2>1, SameCellsWord
<1> QED
  BY <1>3, <1>4, <1>5, <1>6 DEF Divides

\* The rule that is chosen is that of the longest match, and yytext is its text.
LEMMA RuleMatchedLexes == ASSUME IInv, Knowing, RuleMatched PROVE Lex!Token /\ Knowing'
<1> DEFINE d == DoBeforeAction(b, g, l.bp, Found.cp)
           newlines == IF CanMatchEol(Found.act)
                       THEN MatchedNewlines(b.ch_buf, l.bp, Found.cp) ELSE 0
<1>1. /\ pc = "find" /\ pc' = "action" /\ mode' = mode /\ input' = input /\ yyin' = yyin
      /\ b' = d.b /\ g' = [d.g EXCEPT !.lineno = @ + newlines]
      /\ out' = Append(out, <<"token", Found.act, Slice(b.ch_buf, d.g.text_ptr, d.g.c_buf_p)>>)
      /\ l' = [l EXCEPT !.cp = Found.cp, !.intact = TRUE]
      /\ Found.act # YY_END_OF_BUFFER
  BY DEF RuleMatched, Kept
<1> DEFINE back == [d.b EXCEPT !.ch_buf[d.g.c_buf_p] = d.g.hold_char]
<1>2. Found.act \in Rules /\ Found.cp \in l.bp + 1 .. g.n_chars /\ Found.cp \in Nat
      /\ Found.cp \in DOMAIN b.ch_buf
  BY <1>1, FoundIs
<1>3. BufferShape(b) /\ GlobalsShape(g) /\ Locals(l)
  BY DEF IInv, Shapes
<1>4. /\ d.b.status = b.status
      /\ GlobalsShape(d.g) /\ d.g.n_chars = g.n_chars /\ d.g.c_buf_p = Found.cp
      /\ d.g.text_ptr = l.bp - g.more_len /\ d.g.more_flag = g.more_flag
      /\ \A i \in DOMAIN b.ch_buf : back.ch_buf[i] = b.ch_buf[i]
  BY <1>2, <1>3, HiddenIs
<1>5. d.b.ch_buf = [b.ch_buf EXCEPT ![Found.cp] = NUL]
  BY <1>3 DEF DoBeforeAction, BufferShape
<1> HIDE DEF d, newlines
<1>6. /\ g'.n_chars = g.n_chars /\ g'.c_buf_p = Found.cp /\ g'.hold_char = d.g.hold_char
      /\ g'.text_ptr = l.bp - g.more_len /\ g'.more_flag = g.more_flag
  BY <1>1, <1>4 DEF GlobalsShape
<1>7. l'.intact
  BY <1>1, <1>3 DEF Locals
<1>8. Clean = b.ch_buf /\ Clean' = back.ch_buf
  BY <1>1, <1>4, <1>6 DEF Clean, Restored
<1>9. \A i \in DOMAIN b.ch_buf : Clean'[i] = b.ch_buf[i]
  BY <1>4, <1>8
<1> HIDE DEF back
<1>10. PICK cp : cp = Found.cp
  OBVIOUS
<1>11. PICK tp : tp = l.bp - g.more_len
  OBVIOUS
<1>12. PICK bp : bp = l.bp
  OBVIOUS
<1>13. PICK n : n = g.n_chars
  OBVIOUS
<1>14. PICK ch : ch = b.ch_buf
  OBVIOUS
<1>15. PICK cur : cur = yyin.cur
  OBVIOUS
<1>16. Holds(ch, tp, n) /\ ~g.more_flag /\ bp \in 0 .. n
  BY <1>1, <1>8, <1>11, <1>12, <1>13, <1>14 DEF IInv, Phases, InToken
<1>17. /\ Unread = Word(ch, bp, n, cur) /\ cur \in Seq(Chars) /\ n \in Nat /\ Unread \in Seq(Chars)
  BY <1>1, <1>8, <1>12, <1>13, <1>14, <1>15, UnreadIs DEF TokenStart
<1>18. /\ bp \in Nat /\ g.more_len \in Nat /\ cp \in Nat /\ b.buf_size \in Nat /\ n <= b.buf_size
       /\ DOMAIN ch = 0 .. b.buf_size + 1 /\ cp \in bp + 1 .. n /\ tp = bp - g.more_len
  BY <1>2, <1>10, <1>11, <1>12, <1>13, <1>14, InvTypes
<1>19. tp \in Nat /\ tp <= bp /\ bp <= cp /\ cp <= n
  <2>1. tp \in 0 .. n
    BY <1>16 DEF Holds
  <2> QED
    BY <1>17, <1>18, <2>1
<1>20. \A i \in tp .. n - 1 : i \in DOMAIN ch
  BY <1>17, <1>18, <1>19
<1>21. \A i \in tp .. n - 1 : Clean'[i] = ch[i]
  BY <1>9, <1>14, <1>20
<1>22. /\ Slice(ch, tp, bp) \o SubSeq(Unread, 1, cp - bp) = Slice(ch, tp, cp)
       /\ Word(Clean', cp, n, cur) = Lex!Drop(Unread, cp - bp)
  <2>1. PICK clean : clean = Clean'
    OBVIOUS
  <2>2. SameText(clean, ch, tp, n)
    BY <1>21, <2>1 DEF SameText
  <2>3. Divides(ch, tp, bp, cp, n, cur, clean)
    <3>1. InOrder(tp, bp, cp, n)
      BY <1>16, <1>17, <1>18, <1>19 DEF InOrder
    <3> QED
      BY ONLY <1>16, <1>17, <2>2, <3>1, TokenText
  <2> QED
    BY <1>17, <2>1, <2>3 DEF Divides
<1>23. Longest(Unread, cp - bp) /\ Found.act = Accept[Lex!Reached(Unread, cp - bp)]
  <2>1. Finds(l, Unread, b.ch_buf)
    BY <1>1 DEF Knowing
  <2> QED
    BY <1>2, <1>10, <1>12, <2>1 DEF Finds, FoundIn, Found
<1>24. Lex!MatchLengths(Unread) # {} /\ Lex!Max(Lex!MatchLengths(Unread)) = cp - bp
  BY <1>17, <1>23, LongestIs
<1>25. Carry = Slice(ch, tp, bp)
  BY <1>1, <1>11, <1>12, <1>14 DEF Carry
<1>26. ActionText' = Slice(ch, tp, cp)
  <2>1. PICK ch2 : ch2 = d.b.ch_buf
    OBVIOUS
  <2>2. ActionText' = Slice(ch2, tp, cp)
    BY <1>1, <1>6, <1>7, <1>10, <1>11, <2>1 DEF ActionText, yytext
  <2>3. ch2 = [ch EXCEPT ![cp] = NUL]
    BY <1>5, <1>10, <1>14, <2>1
  <2>4. \A k \in tp .. cp - 1 : ch2[k] = ch[k]
    <3>1. \A k \in tp .. cp - 1 : k \in tp .. n - 1 /\ k # cp
      BY <1>17, <1>18, <1>19
    <3> QED
      BY <1>20, <2>3, <3>1
  <2>5. tp \in Int /\ cp \in Int
    BY <1>18, <1>19
  <2> QED
    BY <2>2, <2>4, <2>5, SameSlice
<1>27. Unread' = Lex!Drop(Unread, cp - bp)
  <2>1. Unread' = Word(Clean', cp, n, cur)
    BY <1>1, <1>6, <1>10, <1>13, <1>15 DEF Unread, Word, TokenStart
  <2> QED
    BY <1>22, <2>1
<1>28. Phase = "scan" /\ Phase' = "action" /\ Carry' = <<>> /\ MoreCalled' = FALSE
  BY <1>1, <1>6, <1>16 DEF Phase, Carry, MoreCalled
<1>29. out' = Append(out, <<"token", Accept[Lex!Reached(Unread, cp - bp)], Slice(ch, tp, cp)>>)
  BY <1>1, <1>4, <1>10, <1>11, <1>14, <1>23
<1>30. Lex!Token
  <2>1. Carry \o SubSeq(Unread, 1, Lex!Max(Lex!MatchLengths(Unread))) = Slice(ch, tp, cp)
    BY <1>22, <1>24, <1>25
  <2> QED
    BY <1>1, <1>24, <1>26, <1>27, <1>28, <1>29, <2>1 DEF Lex!Token
<1>31. Knowing'
  <2>1. Pending'
    BY <1>1, <1>4 DEF Knowing, Pending
  <2> QED
    BY <1>1, <2>1, KnowingNext
<1> QED
  BY <1>30, <1>31

\* A mark or a NUL is reached: nothing is taken.
LEMMA EndOfBufferMatchedLexes ==
  ASSUME IInv, Knowing, EndOfBufferMatched PROVE UNCHANGED Lex!absvars /\ Knowing'
<1> DEFINE d == DoBeforeAction(b, g, l.bp, Found.cp)
<1>1. /\ pc = "find" /\ pc' = "eob" /\ UNCHANGED <<mode, yyin, out>>
      /\ b' = [b EXCEPT !.status = IF b.status = "NEW" THEN "NORMAL" ELSE @]
      /\ g' = [d.g EXCEPT !.n_chars = IF b.status = "NEW" THEN b.n_chars ELSE @]
      /\ l' = [l EXCEPT !.cp = Found.cp]
      /\ Found.act = YY_END_OF_BUFFER
  BY DEF EndOfBufferMatched, Kept
<1>2. BufferShape(b) /\ GlobalsShape(g) /\ Locals(l) /\ Fresh
  BY DEF IInv, Shapes
<1>3. Found.cp \in DOMAIN b.ch_buf
  BY <1>1, FoundIs
<1>4. GlobalsShape(d.g) /\ d.g.n_chars = g.n_chars /\ d.g.more_len = g.more_len
  BY <1>2, <1>3, HiddenIs
<1> HIDE DEF d
<1>5. g'.n_chars = g.n_chars /\ g'.more_len = g.more_len
  BY <1>1, <1>2, <1>4 DEF GlobalsShape, Fresh
<1>6. /\ b'.ch_buf = b.ch_buf /\ (b'.status = b.status \/ b.status = "NEW")
      /\ l'.bp = l.bp /\ l'.cp = Found.cp
  BY <1>1, <1>2 DEF BufferShape, Locals
<1>7. Clean' = Clean /\ TokenStart' = TokenStart
  BY <1>1, <1>6 DEF Clean, TokenStart
<1>8. Unread' = Unread
  BY <1>1, <1>5, <1>7 DEF Unread
<1>9. Carry' = Carry /\ ActionText' = ActionText /\ MoreCalled' = MoreCalled /\ Phase' = Phase
  BY <1>1, <1>5, <1>6 DEF Carry, ActionText, MoreCalled, Phase
<1>10. b'.ch_buf[l'.cp - 1] = NUL
  <2>1. Finds(l, Unread, b.ch_buf)
    BY <1>1 DEF Knowing
  <2> QED
    BY <1>1, <1>6, <2>1, Numbering DEF Finds, FoundIn, Found
<1>11. Pending'
  BY <1>1, <1>6 DEF Knowing, Pending
<1>12. Knowing'
  BY <1>1, <1>10, <1>11, KnowingNext
<1> QED
  BY <1>1, <1>8, <1>9, <1>12 DEF Lex!absvars

\* A longest match that is found.
LEMMA FoundLongest ==
  ASSUME NEW W \in Seq(Chars), NEW r, NEW k, Longest(W, k),
         FoundIn(r).act = YyAccept(Lex!Reached(W, k)), FoundIn(r).cp - r.bp = k
  PROVE  \A ch : Finds(r, W, ch)
<1>1. k \in 0 .. Len(W) /\ Lex!Accepted(W, k)
  BY DEF Longest
<1>2. YyAccept(Lex!Reached(W, k)) \in Rules /\ YyAccept(Lex!Reached(W, k)) = Accept[Lex!Reached(W, k)]
  BY <1>1, AcceptedIs
<1> QED
  BY <1>2 DEF Finds

\* No rule matches more than c characters of W.
Beyond(W, c) == \A k \in c + 1 .. Len(W) : ~Lex!Accepted(W, k)

\* A replay up to where nothing longer can match.
LEMMA ReplayFinds ==
  ASSUME NEW ch, NEW size, NEW n, Marked(ch, size, n), NEW bp, Holds(ch, bp, n),
         NEW end \in bp .. n, end > bp, Locals(l), NEW W, Text(W, ch, bp, n), Beyond(W, end - bp)
  PROVE  \A x : Finds(Replay(ch, bp, end), W, x)
<1> DEFINE r == Replay(ch, bp, end)
           c == end - bp
<1>1. n \in Nat /\ bp \in Nat /\ end \in Nat /\ W \in Seq(Chars) /\ c \in 1 .. Len(W) /\ bp + c = end
  BY DEF Marked, Holds, Text
<1>2. Tracks(r, W) /\ r.bp = bp /\ r.cp = end
  BY ReplayTracks, ReplayIs
<1> HIDE DEF r
<1>3. r.cs = Lex!Reached(W, c) /\ Knows(r.last, r.bp, W, c)
  BY <1>2 DEF Tracks
<1>4. Lex!Accepted(W, c) <=> YyAccept(Lex!Reached(W, c)) # 0
  BY <1>1, AcceptedIs
<1>5. Lex!Accepted(W, c) => FoundIn(r) = [act |-> YyAccept(Lex!Reached(W, c)), cp |-> r.bp + c]
  BY <1>1, <1>2, <1>3, <1>4 DEF FoundIn
<1>6. ~Lex!Accepted(W, c) => FoundIn(r).act = YyAccept(r.last.state) /\ FoundIn(r).cp = BackUpTo(r.last)
  BY <1>3, <1>4 DEF FoundIn, BackUpTo
<1>7. \A k \in c + 1 .. Len(W) : ~Lex!Accepted(W, k)
  BY DEF Beyond
<1> HIDE DEF c
<1>8. \A x : Finds(r, W, x)
  BY <1>1, <1>2, <1>3, <1>5, <1>6, <1>7, Resolves
<1> QED
  BY <1>8 DEF r

\* A NUL is a character like any other: the scanner goes on over it or backs up.
LEMMA ReallyNulLexes ==
  ASSUME IInv, Knowing, ReallyNul, NulsSaved PROVE UNCHANGED Lex!absvars /\ Knowing'
<1> DEFINE at == l.cp - 1
           bp == l.bp
           ch == b.ch_buf
           n == g.n_chars
           W == Unread
           before == Replay(ch, bp, at)
           over == Replay(ch, bp, at + 1)
           c == at - bp
<1>1. /\ Marked(ch, b.buf_size, n) /\ Holds(ch, bp, n) /\ bp = g.text_ptr + g.more_len
      /\ g.c_buf_p = l.cp /\ bp + 1 <= l.cp /\ pc = "eob" /\ l.cp <= n
  BY EobIs DEF ReallyNul
<1>2. Locals(l) /\ GlobalsShape(g) /\ mode \in {"full", "compressed", "interactive"}
  BY ModesAssumption DEF IInv, Shapes
<1>3. n \in Nat /\ bp \in Nat /\ l.cp \in Nat /\ at \in bp .. n /\ at + 1 \in bp .. n /\ at + 1 = l.cp
      /\ at \in bp .. n - 1
  BY <1>1, InvTypes
<1>4. W \in Seq(Chars) /\ Text(W, ch, bp, n) /\ n - bp <= Len(W) /\ Len(W) \in Nat
  BY <1>1, UnreadIs DEF TokenStart, Clean, Text
<1>5. /\ UNCHANGED <<mode, yyin, b, out>>
      /\ IF NulState(before.cs) # Jam
         THEN /\ g' = [g EXCEPT !.c_buf_p = at + 1] /\ l' = over /\ pc' = "match"
         ELSE /\ g' = [g EXCEPT !.c_buf_p = at]
              /\ l' = IF mode = "full" THEN before
                      ELSE IF mode = "interactive" THEN [before EXCEPT !.last = over.last]
                      ELSE [over EXCEPT !.cp = over.last.cpos, !.cs = over.last.state]
              /\ pc' = "find"
  BY <1>1, ReallyNulIs DEF ReallyNul, Kept
<1>6. Tracks(before, W) /\ Locals(before) /\ before.bp = bp /\ before.cp = at /\ before.cs \in States
  BY <1>1, <1>2, <1>3, <1>4, ReplayTracks, ReplayIs
<1>7. Tracks(over, W) /\ Locals(over) /\ over.bp = bp /\ over.cp = at + 1
  BY <1>1, <1>2, <1>3, <1>4, ReplayTracks, ReplayIs
<1>8. ch[at] = NUL
  BY <1>1 DEF Knowing
<1>9. ASSUME NEW x \in Seq(Chars), Text(x, ch, bp, n) PROVE x[c + 1] = NUL
  BY <1>3, <1>8, <1>9 DEF Text
<1>10. /\ c \in Nat /\ c + 1 \in 1 .. Len(W) /\ (c + 1) - 1 = c /\ W[c + 1] = NUL /\ c \in 0 .. Len(W)
       /\ (at + 1) - bp = c + 1 /\ bp + c = at /\ bp + (c + 1) = at + 1 /\ c + 1 \in 0 .. Len(W)
  <2>1. bp \in Int /\ at \in Int /\ n \in Int /\ bp <= at /\ at < n
    BY <1>3
  <2>2. Len(W) \in Nat /\ n - bp <= Len(W)
    BY <1>4
  <2>3. W[c + 1] = NUL
    BY <1>4, <1>9
  <2>4. c \in Nat /\ c + 1 <= Len(W)
    BY <2>1, <2>2
  <2>5. (at + 1) - bp = c + 1 /\ bp + c = at /\ bp + (c + 1) = at + 1
    BY <2>1
  <2> HIDE DEF c
  <2>6. c + 1 \in 1 .. Len(W) /\ (c + 1) - 1 = c /\ c \in 0 .. Len(W) /\ c + 1 \in 0 .. Len(W)
    BY <2>2, <2>4
  <2> QED
    BY <2>3, <2>4, <2>5, <2>6
<1>11. /\ before.cs = Lex!Reached(W, c) /\ Knows(before.last, bp, W, c)
       /\ over.cs = Lex!Reached(W, c + 1) /\ Knows(over.last, bp, W, c + 1)
  BY <1>6, <1>7, <1>10 DEF Tracks
<1>12. before.last.state \in AllStates /\ before.last.cpos \in Nat
       /\ over.last.state \in AllStates /\ over.last.cpos \in Nat
  BY <1>6, <1>7 DEF Locals
<1> HIDE DEF W, before, over, c, at, n
<1>13. g'.n_chars = g.n_chars /\ g'.more_len = g.more_len
  BY <1>2, <1>5 DEF GlobalsShape
<1>14. l'.bp = bp
  BY <1>5, <1>6, <1>7 DEF Locals
<1>15. Clean' = Clean /\ TokenStart' = TokenStart /\ pc' \in {"match", "find"}
  BY <1>1, <1>5, <1>14 DEF Clean, TokenStart
<1>16. Unread' = W
  BY <1>5, <1>13, <1>15 DEF Unread, W
<1>17. Carry' = Carry /\ ActionText' = ActionText /\ MoreCalled' = MoreCalled /\ Phase' = Phase
  BY <1>1, <1>5, <1>13, <1>14, <1>15 DEF Carry, ActionText, MoreCalled, Phase
<1>21. mode' = mode /\ Pending'
  BY <1>5 DEF Knowing, Pending
<1>18. ASSUME NulState(before.cs) # Jam PROVE Knowing'
  <2>1. Tracks(l', Unread') /\ pc' = "match"
    BY <1>5, <1>7, <1>16, <1>18
  <2> QED
    BY <1>21, <2>1, KnowingNext
<1>19. ASSUME NulState(before.cs) = Jam PROVE Finds(l', W, ch)
  <2>1. Lex!Reached(W, c + 1) = Jam
    <3>1. Lex!Reached(W, c + 1) = IF before.cs = Jam THEN Jam ELSE Delta[before.cs][NUL]
      BY <1>4, <1>10, <1>11, ReachedSteps
    <3>2. before.cs # EobState
      BY <1>6, Numbering
    <3> QED
      BY <1>19, <3>1, <3>2 DEF NulState
  <2>2. \A k \in c + 1 .. Len(W) : Lex!Reached(W, k) = Jam
    BY <1>4, <1>10, <2>1, JamStays
  <2>3. \A k \in c + 1 .. Len(W) : ~Lex!Accepted(W, k)
    BY <2>2 DEF Lex!Accepted, Jam
  <2>4. c # 0
    <3>1. SUFFICES ASSUME c = 0 PROVE FALSE
      OBVIOUS
    <3>2. before.cs = Start
      BY <1>4, <1>11, <3>1, ReachedSteps
    <3>3. Start \in DOMAIN Delta /\ Delta[Start][NUL] # Jam
      BY AutomatonAssumption, CharsAssumption
    <3> QED
      BY <1>19, <3>2, <3>3, Numbering DEF NulState, States
  <2>5. c \in 1 .. Len(W) /\ at > bp
    BY <1>3, <1>10, <2>4
  <2>6. CASE mode = "full"
    <3>1. l' = before
      BY <1>5, <1>19, <2>6
    <3>2. Beyond(W, at - bp)
      BY <2>3 DEF Beyond, c
    <3>3. \A x : Finds(before, W, x)
      BY <1>1, <1>2, <1>3, <1>4, <2>5, <3>2, ReplayFinds DEF before, n
    <3> QED
      BY <3>1, <3>3
  <2>7. ASSUME NEW r, r.bp = bp, r.last = over.last, ~Lex!Accepted(W, c) \/ mode = "compressed",
               FoundIn(r).act = YyAccept(r.last.state), FoundIn(r).cp = BackUpTo(r.last)
        PROVE  Finds(r, W, ch)
    <3>1. ~Lex!Accepted(W, c + 1) /\ \A k \in (c + 1) + 1 .. Len(W) : ~Lex!Accepted(W, k)
      BY <1>10, <2>3
    <3>2. r.bp \in Nat /\ Knows(r.last, r.bp, W, c + 1)
      BY <1>3, <1>11, <2>7
    <3> QED
      BY <1>4, <1>10, <2>7, <3>1, <3>2, Resolves
  <2>8. CASE mode = "interactive"
    <3> DEFINE r == [before EXCEPT !.last = over.last]
    <3>1. l' = r
      BY <1>5, <1>19, <2>8
    <3>2. r.bp = bp /\ r.cp = at /\ r.cs = Lex!Reached(W, c) /\ r.last = over.last
      BY <1>6, <1>11 DEF Locals
    <3> HIDE DEF r
    <3>3. Lex!Accepted(W, c) <=> YyAccept(Lex!Reached(W, c)) # 0
      BY <1>4, <1>10, AcceptedIs
    <3>4. CASE Lex!Accepted(W, c)
      <4>1. Longest(W, c)
        BY <2>3, <2>5, <3>4 DEF Longest
      <4>2. FoundIn(r).act = YyAccept(Lex!Reached(W, c)) /\ FoundIn(r).cp - r.bp = c
        BY <3>2, <3>3, <3>4 DEF FoundIn, c
      <4> QED
        BY <1>4, <3>1, <4>1, <4>2, FoundLongest
    <3>5. CASE ~Lex!Accepted(W, c)
      <4>1. FoundIn(r).act = YyAccept(r.last.state) /\ FoundIn(r).cp = BackUpTo(r.last)
        BY <3>2, <3>3, <3>5 DEF FoundIn, BackUpTo
      <4> QED
        BY <2>7, <3>1, <3>2, <3>5, <4>1
    <3> QED
      BY <3>4, <3>5
  <2>9. CASE mode = "compressed"
    <3> DEFINE r == [over EXCEPT !.cp = over.last.cpos, !.cs = over.last.state]
    <3>1. l' = r
      BY <1>5, <1>19, <2>9
    <3>2. r.bp = bp /\ r.last = over.last /\ r.cp = r.last.cpos /\ r.cs = r.last.state
      BY <1>7 DEF Locals
    <3> HIDE DEF r
    <3>3. FoundIn(r).act = YyAccept(r.last.state) /\ FoundIn(r).cp = BackUpTo(r.last)
      BY <2>9, <3>2 DEF FoundIn, BackUpTo
    <3> QED
      BY <2>7, <2>9, <3>1, <3>2, <3>3
  <2> QED
    BY <1>2, <2>6, <2>8, <2>9
<1>20. ASSUME NulState(before.cs) = Jam PROVE Knowing'
  <2>1. Finds(l', Unread', b'.ch_buf) /\ pc' = "find"
    BY <1>5, <1>16, <1>19, <1>20
  <2> QED
    BY <1>21, <2>1, KnowingNext
<1> QED
  BY <1>5, <1>16, <1>17, <1>18, <1>20 DEF Lex!absvars, W

\* The first character of what there is to match.
TakesFirst(V, ch, lo, n, cur) == V # <<>> /\ Head(V) = ch[lo] /\ Tail(V) = Word(ch, lo + 1, n, cur)

\* The first character of the word, and the rest.
LEMMA FirstOfWord ==
  ASSUME NEW ch, NEW lo, NEW n \in Nat, Holds(ch, lo, n), lo < n, NEW cur \in Seq(Chars)
  PROVE  TakesFirst(Word(ch, lo, n, cur), ch, lo, n, cur) /\ Holds(ch, lo + 1, n)
<1> DEFINE V == Word(ch, lo, n, cur)
<1>1. Spells(V, ch, lo, n, cur)
  BY WordIs
<1> HIDE DEF V
<1>2. /\ lo \in Nat /\ V \in Seq(Chars) /\ Len(V) = n - lo + Len(cur) /\ Len(cur) \in Nat
      /\ Len(V) \in Nat \ {0} /\ lo + 1 \in Nat /\ lo + 1 <= n
  BY <1>1 DEF Holds, Spells
<1>3. V # <<>>
  BY <1>2, EmptySeq
<1>4. Holds(ch, lo + 1, n)
  <2>1. \A i \in lo + 1 .. n - 1 : i \in lo .. n - 1
    BY <1>2
  <2>2. lo + 1 \in 0 .. n
    BY <1>2
  <2> DEFINE lo1 == lo + 1
  <2>3. lo1 \in 0 .. n /\ \A i \in lo1 .. n - 1 : ch[i] \in Chars
    BY <2>1, <2>2 DEF Holds
  <2> HIDE DEF lo1
  <2>4. Holds(ch, lo1, n)
    BY <2>3 DEF Holds
  <2> QED
    BY <2>4 DEF lo1
<1>5. Head(V) = ch[lo]
  <2>1. Head(V) = V[1]
    BY <1>2, <1>3
  <2>2. 1 \in 1 .. n - lo /\ lo + 1 - 1 = lo
    BY <1>2
  <2> QED
    BY <1>1, <2>1, <2>2 DEF Spells
<1>6. PICK T : T = Tail(V)
  OBVIOUS
<1>7. T \in Seq(Chars) /\ Len(T) = Len(V) - 1 /\ \A i \in 1 .. Len(T) : T[i] = V[i + 1]
  BY <1>2, <1>3, <1>6, HeadTailProperties
<1>8. ASSUME NEW k \in 1 .. n - (lo + 1) PROVE T[k] = ch[(lo + 1) + k - 1]
  <2>1. k \in 1 .. Len(T) /\ k + 1 \in 1 .. n - lo /\ lo + (k + 1) - 1 = (lo + 1) + k - 1
    BY <1>2, <1>7
  <2>2. V[k + 1] = ch[lo + (k + 1) - 1]
    BY <1>1, <2>1 DEF Spells
  <2> QED
    BY <1>7, <2>1, <2>2
<1>9. ASSUME NEW k \in 1 .. Len(cur) PROVE T[n - (lo + 1) + k] = cur[k]
  <2>1. n - (lo + 1) + k \in 1 .. Len(T) /\ (n - (lo + 1) + k) + 1 = n - lo + k
    BY <1>2, <1>7
  <2>2. V[n - lo + k] = cur[k]
    BY <1>1 DEF Spells
  <2> QED
    BY <1>7, <2>1, <2>2
<1>10. Len(T) = n - (lo + 1) + Len(cur)
  BY <1>2, <1>7
<1>11. Spells(T, ch, lo + 1, n, cur)
  BY <1>7, <1>8, <1>9, <1>10 DEF Spells
<1>12. Word(ch, lo + 1, n, cur) = T
  BY <1>4, <1>11, SameWord
<1> QED
  BY <1>3, <1>4, <1>5, <1>6, <1>12 DEF V, TakesFirst

\* The text from lo to n is found from lo2 to n2.
Moved(ch2, lo2, n2, ch, lo, n) == n2 - lo2 = n - lo /\ \A i \in 0 .. n - lo - 1 : ch2[lo2 + i] = ch[lo + i]
\* V is the word behind c.
Pushes(V, c, ch, lo, n, cur) == V = <<c>> \o Word(ch, lo, n, cur)

\* The word in another place.
LEMMA SamePlaceWord ==
  ASSUME NEW ch, NEW lo, NEW n \in Nat, Holds(ch, lo, n), NEW cur \in Seq(Chars),
         NEW ch2, NEW lo2, NEW n2 \in Nat, Holds(ch2, lo2, n2), Moved(ch2, lo2, n2, ch, lo, n)
  PROVE  Word(ch2, lo2, n2, cur) = Word(ch, lo, n, cur)
<1> DEFINE V == Word(ch, lo, n, cur)
<1>1. Spells(V, ch, lo, n, cur)
  BY WordIs
<1> HIDE DEF V
<1>2. /\ lo \in Nat /\ lo <= n /\ lo2 \in Nat /\ lo2 <= n2 /\ n2 - lo2 = n - lo
      /\ \A i \in 0 .. n - lo - 1 : ch2[lo2 + i] = ch[lo + i]
  BY DEF Holds, Moved
<1>3. ASSUME NEW k \in 1 .. n2 - lo2 PROVE V[k] = ch2[lo2 + k - 1]
  <2>1. /\ k \in 1 .. n - lo /\ k - 1 \in 0 .. n - lo - 1
        /\ lo + (k - 1) = lo + k - 1 /\ lo2 + (k - 1) = lo2 + k - 1
    BY <1>2
  <2>2. V[k] = ch[lo + k - 1]
    BY <1>1, <2>1 DEF Spells
  <2>3. ch2[lo2 + (k - 1)] = ch[lo + (k - 1)]
    BY <1>2, <2>1
  <2> QED
    BY <2>1, <2>2, <2>3
<1>4. Spells(V, ch2, lo2, n2, cur)
  BY <1>1, <1>2, <1>3 DEF Spells
<1>5. Word(ch2, lo2, n2, cur) = V
  BY <1>4, SameWord
<1> QED
  BY <1>5 DEF V

\* The word with a character put before it.
LEMMA PushedWord ==
  ASSUME NEW ch, NEW lo, NEW n \in Nat, Holds(ch, lo, n), NEW cur \in Seq(Chars),
         NEW ch2, NEW lo2 \in Nat, NEW n2 \in Nat, lo2 < n2, Holds(ch2, lo2, n2),
         Moved(ch2, lo2 + 1, n2, ch, lo, n)
  PROVE  Pushes(Word(ch2, lo2, n2, cur), ch2[lo2], ch, lo, n, cur)
<1>1. /\ Word(ch2, lo2, n2, cur) = Slice(ch2, lo2, lo2 + 1) \o Word(ch2, lo2 + 1, n2, cur)
      /\ Holds(ch2, lo2 + 1, n2)
  <2>1. PICK hi : hi = lo2 + 1
    OBVIOUS
  <2>2. Holds(ch2, lo2 + 1, n2)
    BY FirstOfWord
  <2>3. hi \in lo2 .. n2 /\ Holds(ch2, lo2, n2) /\ n2 \in Nat /\ cur \in Seq(Chars)
    BY <2>1
  <2>4. Word(ch2, lo2, n2, cur) = Slice(ch2, lo2, hi) \o Word(ch2, hi, n2, cur)
    BY ONLY <2>3, SplitWord
  <2> QED
    BY ONLY <2>1, <2>2, <2>4, Zenon
<1>2. Slice(ch2, lo2, lo2 + 1) = <<ch2[lo2]>>
  <2>1. (lo2 + 1) - lo2 = 1 /\ lo2 + 1 - 1 = lo2
    OBVIOUS
  <2>2. Slice(ch2, lo2, lo2 + 1) = [k \in 1 .. 1 |-> ch2[lo2 + k - 1]]
    BY <2>1 DEF Slice
  <2> QED
    BY <2>1, <2>2
<1>3. Word(ch2, lo2 + 1, n2, cur) = Word(ch, lo, n, cur)
  <2>1. PICK hi : hi = lo2 + 1
    OBVIOUS
  <2>2. Holds(ch2, hi, n2) /\ Moved(ch2, hi, n2, ch, lo, n)
    BY <1>1, <2>1
  <2>3. Word(ch2, hi, n2, cur) = Word(ch, lo, n, cur)
    BY <2>2, SamePlaceWord
  <2> QED
    BY ONLY <2>1, <2>3, Zenon
<1> QED
  BY <1>1, <1>2, <1>3 DEF Pushes

\* yytext, while an action can look at it.
LEMMA YytextIs ==
  ASSUME IInv, pc = "action", l.intact
  PROVE  /\ ActionText = yytext /\ yytext = Slice(Clean, g.text_ptr, g.c_buf_p)
         /\ yytext \in Seq(Chars) /\ Len(yytext) = g.c_buf_p - g.text_ptr /\ yytext # <<-1>>
         /\ g.text_ptr \in Nat /\ g.c_buf_p \in Nat /\ g.n_chars \in Nat
         /\ g.text_ptr <= g.c_buf_p /\ g.c_buf_p <= g.n_chars
         /\ Holds(Clean, g.text_ptr, g.n_chars) /\ Lex!Intact
<1>1. Clean = Restored.ch_buf
  BY DEF Clean
<1>2. /\ Holds(Clean, g.text_ptr, g.n_chars) /\ Holds(Clean, g.c_buf_p, g.n_chars)
      /\ g.text_ptr <= g.c_buf_p
  BY DEF IInv, Texts, Phases, InCall, AtAction
<1>3. /\ g.text_ptr \in Nat /\ g.c_buf_p \in Nat /\ g.n_chars \in Nat /\ g.c_buf_p <= g.n_chars
      /\ b.buf_size \in Nat /\ DOMAIN b.ch_buf = 0 .. b.buf_size + 1 /\ g.n_chars <= b.buf_size
  BY <1>2, InvTypes DEF Holds
<1>4. yytext = Slice(Clean, g.text_ptr, g.c_buf_p)
  <2>1. \A k \in g.text_ptr .. g.c_buf_p - 1 : Clean[k] = b.ch_buf[k]
    <3>1. Clean = [b.ch_buf EXCEPT ![g.c_buf_p] = g.hold_char]
      BY <1>1, RestoredIs
    <3>2. \A k \in g.text_ptr .. g.c_buf_p - 1 : k \in DOMAIN b.ch_buf /\ k # g.c_buf_p
      BY <1>3
    <3> QED
      BY <3>1, <3>2
  <2>2. PICK clean : clean = Clean
    OBVIOUS
  <2>3. PICK ch : ch = b.ch_buf
    OBVIOUS
  <2>4. \A k \in g.text_ptr .. g.c_buf_p - 1 : clean[k] = ch[k]
    BY <2>1, <2>2, <2>3
  <2>5. g.text_ptr \in Int /\ g.c_buf_p \in Int
    BY <1>3
  <2>6. Slice(clean, g.text_ptr, g.c_buf_p) = Slice(ch, g.text_ptr, g.c_buf_p)
    BY ONLY <2>4, <2>5, SameSlice
  <2> QED
    BY <2>2, <2>3, <2>6 DEF yytext
<1>5. yytext \in Seq(Chars) /\ Len(yytext) = g.c_buf_p - g.text_ptr
  <2>1. \A k \in g.text_ptr .. g.c_buf_p - 1 : Clean[k] \in Chars
    BY <1>2, <1>3 DEF Holds
  <2>2. g.text_ptr \in Int /\ g.c_buf_p \in Int /\ g.text_ptr <= g.c_buf_p
    BY <1>2, <1>3
  <2>3. /\ Slice(Clean, g.text_ptr, g.c_buf_p) \in Seq(Chars)
        /\ Len(Slice(Clean, g.text_ptr, g.c_buf_p)) = g.c_buf_p - g.text_ptr
    BY <2>1, <2>2, SliceIs
  <2> QED
    BY <1>4, <2>3
<1>6. yytext # <<-1>>
  <2>1. SUFFICES ASSUME yytext = <<-1>> PROVE FALSE
    OBVIOUS
  <2>2. PICK s \in Seq(Chars) : s = <<-1>>
    BY <1>5, <2>1
  <2>3. Len(s) = 1 /\ s[1] = -1
    BY <2>2
  <2>4. -1 \in Chars
    BY <2>3
  <2> QED
    BY <2>4, CharsAssumption DEF Undef
<1>7. ActionText = yytext
  BY DEF ActionText
<1>8. Lex!Intact
  BY <1>6, <1>7 DEF Lex!Intact, Lex!Gone, Phase
<1> QED
  BY <1>2, <1>3, <1>4, <1>5, <1>6, <1>7, <1>8

\* yymore() changes no text.
LEMMA MoreLexes == ASSUME IInv, Knowing, More PROVE Lex!More /\ Knowing'
<1>1. /\ pc = "action" /\ pc' = pc /\ UNCHANGED <<mode, yyin, b, l, out>>
      /\ l.intact /\ g' = [g EXCEPT !.more_flag = TRUE]
  BY DEF More, Calls, Kept
<1>2. /\ g'.n_chars = g.n_chars /\ g'.c_buf_p = g.c_buf_p /\ g'.text_ptr = g.text_ptr
      /\ g'.hold_char = g.hold_char /\ g'.more_flag
  BY <1>1 DEF IInv, Shapes, GlobalsShape
<1>3. Clean' = Clean /\ TokenStart' = TokenStart /\ yytext' = yytext
  BY <1>1, <1>2 DEF Clean, Restored, TokenStart, yytext
<1>4. Unread' = Unread
  BY <1>1, <1>2, <1>3 DEF Unread
<1>5. Carry' = Carry /\ ActionText' = ActionText /\ MoreCalled' = TRUE /\ Phase' = Phase
  BY <1>1, <1>2, <1>3 DEF Carry, ActionText, MoreCalled, Phase
<1>6. Lex!Intact
  BY <1>1, YytextIs
<1>7. Knowing'
  BY <1>1, KnowingNext DEF Knowing, Pending
<1> QED
  BY <1>1, <1>4, <1>5, <1>6, <1>7 DEF Lex!More

\* The text from tp to c is given back from cp on.
GivesBack(ch, tp, cp, c, n, cur, clean) ==
  /\ SubSeq(Slice(ch, tp, c), 1, cp - tp) = Slice(ch, tp, cp)
  /\ Word(clean, cp, n, cur) = Lex!Drop(Slice(ch, tp, c), cp - tp) \o Word(ch, c, n, cur)

\* The text of a token, cut, and followed by what is to match.
LEMMA GivenBack ==
  ASSUME NEW ch, NEW tp, NEW cp, NEW c, NEW n, InOrder(tp, cp, c, n),
         Holds(ch, tp, n), NEW cur, cur \in Seq(Chars), NEW clean, SameText(clean, ch, tp, n)
  PROVE  GivesBack(ch, tp, cp, c, n, cur, clean)
<1>1. /\ tp \in Int /\ cp \in Nat /\ c \in Int /\ n \in Nat /\ tp <= cp /\ cp <= c /\ c <= n
      /\ c \in cp .. n
  BY DEF InOrder
<1>2. PICK d : d = cp - tp
  OBVIOUS
<1>3. d \in 0 .. c - tp /\ tp + d = cp
  BY <1>1, <1>2
<1>4. /\ SubSeq(Slice(ch, tp, c), 1, d) = Slice(ch, tp, tp + d)
      /\ SubSeq(Slice(ch, tp, c), d + 1, Len(Slice(ch, tp, c))) = Slice(ch, tp + d, c)
  <2>1. tp \in Int /\ c \in Int /\ d \in 0 .. c - tp
    BY <1>1, <1>3
  <2>2. Parts(ch, tp, c, d)
    BY ONLY <2>1, SliceOfSlice
  <2> QED
    BY ONLY <2>2, Zenon DEF Parts
<1>5. Lex!Drop(Slice(ch, tp, c), d) = Slice(ch, cp, c)
  BY ONLY <1>3, <1>4, Zenon DEF Lex!Drop
<1>6. Holds(ch, cp, n)
  <2>1. cp \in 0 .. n /\ \A i \in cp .. n - 1 : i \in tp .. n - 1
    BY <1>1
  <2> QED
    BY <2>1 DEF Holds
<1>7. Word(clean, cp, n, cur) = Word(ch, cp, n, cur)
  <2>1. \A i \in cp .. n - 1 : clean[i] = ch[i]
    BY <1>1 DEF SameText
  <2>2. cur \in Seq(Chars)
    OBVIOUS
  <2> QED
    BY ONLY <1>1, <1>6, <2>1, <2>2, SameCellsWord
<1>8. Word(ch, cp, n, cur) = Slice(ch, cp, c) \o Word(ch, c, n, cur)
  <2>1. cur \in Seq(Chars)
    OBVIOUS
  <2> QED
    BY ONLY <1>1, <1>6, <2>1, SplitWord
<1>9. Word(clean, cp, n, cur) = Lex!Drop(Slice(ch, tp, c), d) \o Word(ch, c, n, cur)
  BY ONLY <1>5, <1>7, <1>8, Zenon
<1>10. SubSeq(Slice(ch, tp, c), 1, d) = Slice(ch, tp, cp)
  BY ONLY <1>3, <1>4, Zenon
<1> QED
  BY ONLY <1>2, <1>9, <1>10, Zenon DEF GivesBack

\* yyless(n) gives back all of yytext but its first n characters.
LEMMA LessLexes ==
  ASSUME IInv, Knowing, NEW n \in 0 .. Len(yytext), Less(n)
  PROVE  n \in 0 .. Len(ActionText) /\ Lex!Less(n) /\ Knowing'
<1> DEFINE cp == l.bp + n - g.more_len
           back == Newlines(SubSeq(yytext, n + 1, Len(yytext)))
           d == DoBeforeAction(Restored, g, l.bp, cp)
           shown == [d.b EXCEPT !.ch_buf[d.g.c_buf_p] = d.g.hold_char]
<1>1. /\ pc = "action" /\ pc' = pc /\ UNCHANGED <<mode, input, yyin, out>>
      /\ l.intact /\ b' = d.b /\ g' = [d.g EXCEPT !.lineno = @ - back]
      /\ l' = [l EXCEPT !.cp = cp]
  BY DEF Less, Calls, Kept
<1>2. Clean = Restored.ch_buf /\ TokenStart = g.c_buf_p
  BY <1>1 DEF Clean, TokenStart
<1>3. /\ ActionText = yytext /\ yytext = Slice(Clean, g.text_ptr, g.c_buf_p)
      /\ yytext \in Seq(Chars) /\ Len(yytext) = g.c_buf_p - g.text_ptr
      /\ g.text_ptr \in Nat /\ g.c_buf_p \in Nat /\ g.n_chars \in Nat
      /\ g.text_ptr <= g.c_buf_p /\ g.c_buf_p <= g.n_chars
      /\ Holds(Clean, g.text_ptr, g.n_chars) /\ Lex!Intact
  BY <1>1, YytextIs
<1>4. g.text_ptr = l.bp - g.more_len /\ l.bp \in Nat /\ g.more_len \in Nat /\ b.buf_size \in Nat
      /\ g.n_chars <= b.buf_size /\ DOMAIN Restored.ch_buf = 0 .. b.buf_size + 1
  <2>1. g.text_ptr = l.bp - g.more_len
    BY <1>1 DEF IInv, Phases, AtAction
  <2> QED
    BY <2>1, InvTypes, RestoredIs
<1>5. n \in Nat /\ n <= g.c_buf_p - g.text_ptr
  <2>1. PICK m : m = Len(yytext)
    OBVIOUS
  <2>2. n \in 0 .. m /\ m \in Nat /\ m = g.c_buf_p - g.text_ptr
    BY <1>3, <2>1
  <2> QED
    BY ONLY <2>2
<1>6. cp = g.text_ptr + n /\ cp \in Nat /\ cp <= g.c_buf_p /\ cp \in DOMAIN Restored.ch_buf
  <2>1. g.text_ptr \in Nat /\ g.c_buf_p \in Nat /\ g.c_buf_p <= g.n_chars /\ g.n_chars \in Nat
    BY <1>3
  <2>2. cp = g.text_ptr + n
    BY ONLY <1>4, <1>5, <2>1 DEF cp
  <2> HIDE DEF cp
  <2>3. cp \in Nat /\ cp <= g.c_buf_p
    BY ONLY <1>5, <2>1, <2>2
  <2>4. cp \in 0 .. b.buf_size + 1
    BY ONLY <1>4, <2>1, <2>3
  <2> QED
    BY <1>4, <2>2, <2>3, <2>4
<1> HIDE DEF cp, back
<1>7. BufferShape(Restored) /\ GlobalsShape(g) /\ Locals(l)
  BY RestoredIs DEF IInv, Shapes
<1>8. /\ d.b.status = b.status /\ d.b.ch_buf = [Restored.ch_buf EXCEPT ![cp] = NUL]
      /\ GlobalsShape(d.g) /\ d.g.n_chars = g.n_chars /\ d.g.c_buf_p = cp
      /\ d.g.text_ptr = l.bp - g.more_len /\ d.g.more_flag = g.more_flag
      /\ \A i \in DOMAIN Restored.ch_buf : shown.ch_buf[i] = Restored.ch_buf[i]
  <2>1. /\ d.b.status = Restored.status
        /\ GlobalsShape(d.g) /\ d.g.n_chars = g.n_chars /\ d.g.c_buf_p = cp
        /\ d.g.text_ptr = l.bp - g.more_len /\ d.g.more_flag = g.more_flag
        /\ \A i \in DOMAIN Restored.ch_buf : shown.ch_buf[i] = Restored.ch_buf[i]
    BY <1>6, <1>7, HiddenIs
  <2>2. d.b.ch_buf = [Restored.ch_buf EXCEPT ![cp] = NUL]
    BY <1>7 DEF DoBeforeAction, BufferShape
  <2> QED
    BY <2>1, <2>2, RestoredIs
<1> HIDE DEF d
<1>9. /\ g'.n_chars = g.n_chars /\ g'.c_buf_p = cp /\ g'.text_ptr = g.text_ptr
      /\ g'.hold_char = d.g.hold_char /\ g'.more_flag = g.more_flag
  BY <1>1, <1>4, <1>8 DEF GlobalsShape
<1>10. l'.intact = l.intact
  BY <1>1, <1>7 DEF Locals
<1>11. Clean' = shown.ch_buf
  BY <1>1, <1>8, <1>9 DEF Clean, Restored
<1> HIDE DEF shown
<1>12. PICK ch : ch = Clean
  OBVIOUS
<1>13. PICK clean : clean = Clean'
  OBVIOUS
<1>14. PICK tp, p, c, m : tp = g.text_ptr /\ p = cp /\ c = g.c_buf_p /\ m = g.n_chars
  OBVIOUS
<1>15. PICK cur \in Seq(Chars) : cur = yyin.cur
  BY <1>1, UnreadIs
<1>16. InOrder(tp, p, c, m) /\ Holds(ch, tp, m) /\ p - tp = n
  <2>1. g.text_ptr <= cp /\ cp - g.text_ptr = n
    BY ONLY <1>3, <1>5, <1>6
  <2> QED
    BY <1>3, <1>6, <1>12, <1>14, <2>1 DEF InOrder
<1>17. SameText(clean, ch, tp, m)
  <2>1. \A i \in tp .. m - 1 : i \in DOMAIN Restored.ch_buf
    BY ONLY <1>3, <1>4, <1>14
  <2> QED
    BY <1>2, <1>8, <1>11, <1>12, <1>13, <2>1 DEF SameText
<1>18. GivesBack(ch, tp, p, c, m, cur, clean)
  BY ONLY <1>15, <1>16, <1>17, GivenBack
<1>19. Unread = Word(ch, c, m, cur)
  BY <1>1, <1>2, <1>12, <1>14, <1>15, UnreadIs
<1>20. Unread' = Word(clean, p, m, cur)
  BY <1>1, <1>9, <1>13, <1>14, <1>15 DEF Unread, Word, TokenStart
<1>21. ActionText' = Slice(ch, tp, p)
  <2>1. PICK ch2 : ch2 = d.b.ch_buf
    OBVIOUS
  <2>2. ActionText' = Slice(ch2, tp, p)
    BY <1>1, <1>9, <1>10, <1>14, <2>1 DEF ActionText, yytext
  <2>3. ch2 = [ch EXCEPT ![p] = NUL]
    BY <1>2, <1>8, <1>12, <1>14, <2>1
  <2>4. tp \in Int /\ p \in Int /\ p <= m /\ m \in Int
    BY <1>16 DEF InOrder
  <2>5. \A k \in tp .. p - 1 : k \in DOMAIN ch /\ k # p
    <3>1. \A k \in tp .. p - 1 : k \in 0 .. b.buf_size + 1 /\ k # p
      BY ONLY <1>3, <1>4, <1>14, <2>4
    <3> QED
      BY <1>2, <1>4, <1>12, <3>1
  <2>6. \A k \in tp .. p - 1 : ch2[k] = ch[k]
    BY ONLY <2>3, <2>5
  <2> QED
    BY ONLY <2>2, <2>4, <2>6, SameSlice
<1>22. ActionText = Slice(ch, tp, c)
  BY <1>3, <1>12, <1>14
<1>23. ActionText' = SubSeq(ActionText, 1, n) /\ Unread' = Lex!Drop(ActionText, n) \o Unread
  BY <1>16, <1>18, <1>19, <1>20, <1>21, <1>22 DEF GivesBack
<1>24. Carry' = Carry /\ MoreCalled' = MoreCalled /\ Phase' = Phase
  BY <1>1, <1>9 DEF Carry, MoreCalled, Phase
<1>25. Knowing'
  <2>1. b'.status = b.status
    BY <1>1, <1>8
  <2>2. Pending'
    BY <1>1, <2>1 DEF Knowing, Pending
  <2> QED
    BY <1>1, <2>2, KnowingNext
<1>26. n \in 0 .. Len(ActionText)
  BY <1>3
<1> QED
  BY <1>1, <1>3, <1>23, <1>24, <1>25, <1>26 DEF Lex!Less

\* unput() puts its character before the text, or finds no room for it.
LEMMA UnputLexes ==
  ASSUME IInv, Knowing, NEW c \in Pushable, Unput(c)
  PROVE  (Lex!Unput(c) \/ Lex!PushBackOverflow) /\ Knowing'
<1>0. c \in Chars /\ pc = "action" /\ ~g.more_flag /\ UNCHANGED <<mode, yyin, out>>
  BY CharsAssumption DEF Unput, Calls, Kept
<1>1. Phase = "action" /\ MoreCalled = FALSE
  BY <1>0 DEF Phase, MoreCalled
<1>2. CASE pc' = "fatal"
  <2>1. b' = b /\ g' = g /\ l' = l
    BY <1>0, <1>2 DEF Unput
  <2>2. Clean' = Clean /\ TokenStart' = TokenStart
    BY <1>0, <1>2, <2>1 DEF Clean, Restored, TokenStart
  <2>3. Unread' = Unread
    BY <1>0, <2>1, <2>2 DEF Unread
  <2>4. Carry' = Carry /\ ActionText' = ActionText /\ MoreCalled' = MoreCalled /\ Phase' = "fatal"
    BY <1>0, <1>2, <2>1 DEF Carry, ActionText, yytext, MoreCalled, Phase
  <2>5. Pending'
    BY <1>0, <2>1 DEF Knowing, Pending
  <2>6. Knowing'
    BY <1>0, <1>2, <2>5, KnowingNext
  <2> QED
    BY <1>0, <1>1, <2>3, <2>4, <2>6 DEF Lex!PushBackOverflow
<1>3. CASE pc' # "fatal"
  <2>1. /\ pc' = "action" /\ b'.buf_size = b.buf_size /\ b'.status = b.status
        /\ g'.more_flag = g.more_flag
        /\ ShiftUp \in Nat
        /\ g'.n_chars = g.n_chars + ShiftUp /\ g'.n_chars <= b.buf_size
        /\ g'.c_buf_p + 1 = g.c_buf_p + ShiftUp /\ g'.c_buf_p \in Nat /\ g'.c_buf_p < g'.n_chars
        /\ g.c_buf_p <= g.n_chars /\ ~l'.intact
        /\ Shifted(Clean', Clean, b.buf_size, ShiftUp, g'.c_buf_p, c)
    BY <1>3, PushedIs
  <2>2. IInv'
    BY UnputInv
  <2>3. PICK up \in Nat : up = ShiftUp
    BY <2>1
  <2>4. PICK lo, lo2 : lo = g.c_buf_p /\ lo2 = g'.c_buf_p
    OBVIOUS
  <2>5. PICK n, n2, size : n = g.n_chars /\ n2 = g'.n_chars /\ size = b.buf_size
    OBVIOUS
  <2>6. PICK ch, ch2 : ch = Clean /\ ch2 = Clean'
    OBVIOUS
  <2>7. PICK cur \in Seq(Chars) : cur = yyin.cur
    BY <1>0, UnreadIs
  <2>8. Unread = Word(ch, lo, n, cur) /\ Holds(ch, lo, n)
    BY <1>0, <2>4, <2>5, <2>6, <2>7, UnreadIs DEF TokenStart
  <2>9. Unread' = Word(ch2, lo2, n2, cur)
    BY <1>0, <2>1, <2>4, <2>5, <2>6, <2>7 DEF Unread, Word, TokenStart
  <2>10. Holds(ch2, lo2, n2)
    BY <2>1, <2>2, <2>4, <2>5, <2>6 DEF IInv, Phases, InCall
  <2>11. /\ lo \in Nat /\ n \in Nat /\ size \in Nat /\ n2 = n + up /\ n2 \in Nat /\ n2 <= size
         /\ lo2 + 1 = lo + up /\ lo2 \in Nat /\ lo2 < n2 /\ lo <= n
    <3>1. lo \in Nat /\ n \in Nat /\ size \in Nat
      BY <2>4, <2>5, InvTypes
    <3>2. /\ n2 = n + up /\ n2 <= size /\ lo2 + 1 = lo + up /\ lo2 \in Nat /\ lo2 < n2 /\ lo <= n
      BY <2>1, <2>3, <2>4, <2>5
    <3>3. n2 \in Nat
      BY ONLY <3>1, <3>2, up \in Nat
    <3> QED
      BY <3>1, <3>2, <3>3
  <2>12. Shifted(ch2, ch, size, up, lo2, c)
    BY <2>1, <2>3, <2>4, <2>5, <2>6
  <2>13. Moved(ch2, lo2 + 1, n2, ch, lo, n)
    <3>1. n2 - (lo2 + 1) = n - lo
      BY ONLY <2>11, up \in Nat
    <3>2. ASSUME NEW i \in 0 .. n - lo - 1 PROVE ch2[lo2 + 1 + i] = ch[lo + i]
      <4>1. PICK j : j = lo2 + 1 + i
        OBVIOUS
      <4>2. i \in Int /\ 0 <= i /\ i < n - lo
        BY ONLY <2>11, <3>2
      <4>3. j \in 0 .. size + 1 /\ j # lo2 /\ j >= up /\ j - up = lo + i
        BY ONLY <2>11, up \in Nat, <4>1, <4>2
      <4>4. ch2[j] = ch[j - up]
        BY ONLY <2>12, <4>3 DEF Shifted
      <4> QED
        BY ONLY <4>1, <4>3, <4>4, Zenon
    <3> QED
      BY ONLY <3>1, <3>2, Zenon DEF Moved
  <2>14. Pushes(Word(ch2, lo2, n2, cur), ch2[lo2], ch, lo, n, cur)
    BY <2>8, <2>10, <2>11, <2>13, PushedWord
  <2>15. Unread' = <<c>> \o Unread
    BY ONLY <2>8, <2>9, <2>12, <2>14, Zenon DEF Pushes, Shifted
  <2>16. ActionText' = Lex!Gone /\ Carry' = Carry /\ MoreCalled' = MoreCalled /\ Phase' = Phase
    BY <1>0, <2>1 DEF ActionText, Lex!Gone, Carry, MoreCalled, Phase
  <2>17. Pending'
    BY <1>0, <2>1 DEF Knowing, Pending
  <2>18. Knowing'
    BY <1>0, <2>1, <2>17, KnowingNext
  <2> QED
    BY <1>0, <1>1, <2>15, <2>16, <2>18 DEF Lex!Unput
<1> QED
  BY <1>2, <1>3

\* input() begins: yytext is gone.
LEMMA BeginInputLexes == ASSUME IInv, Knowing, BeginInput PROVE Lex!BeginInput /\ Knowing'
<1>1. /\ pc = "action" /\ pc' = "input" /\ UNCHANGED <<mode, yyin, out>> /\ ~g.more_flag
      /\ b' = Restored /\ g' = g
  BY DEF BeginInput, Calls, Kept
<1>2. Clean' = Clean /\ TokenStart' = TokenStart
  BY <1>1 DEF Clean, TokenStart
<1>3. Unread' = Unread
  BY <1>1, <1>2 DEF Unread
<1>4. Carry' = Carry /\ ActionText' = Lex!Gone /\ MoreCalled' = FALSE /\ MoreCalled = FALSE
      /\ Phase = "action" /\ Phase' = "input"
  BY <1>1 DEF Carry, ActionText, Lex!Gone, MoreCalled, Phase
<1>5. Pending'
  BY <1>1, RestoredIs DEF Knowing, Pending
<1>6. Knowing'
  BY <1>1, <1>5, KnowingNext
<1> QED
  BY <1>1, <1>3, <1>4, <1>6 DEF Lex!BeginInput

\* input() takes the first character of what there is to match.
Takes(W, ch, lo, n, cur) ==
  W # <<>> /\ Head(W) = ch[lo] /\ Tail(W) = Word(Clean', lo + 1, n, cur)

\* The character that input() takes is the first one, and only it is overwritten.
LEMMA TakenWord ==
  ASSUME NEW bb, BufferShape(bb), NEW gg, GlobalsShape(gg), NEW n, gg.n_chars = n,
         Marked(bb.ch_buf, bb.buf_size, n), NEW i \in 0 .. n - 1, TakeChar(bb, gg, i),
         Holds(bb.ch_buf, i, n), NEW cur \in Seq(Chars)
  PROVE  Takes(Word(bb.ch_buf, i, n, cur), bb.ch_buf, i, n, cur)
<1> DEFINE ch == bb.ch_buf
<1>1. n \in Nat /\ i \in Nat /\ i < n /\ n <= bb.buf_size /\ bb.buf_size \in Nat
      /\ DOMAIN ch = 0 .. bb.buf_size + 1
  BY DEF Marked
<1>2. \A j \in DOMAIN ch : j # i => Clean'[j] = ch[j]
  BY TakenIs
<1>3. PICK lo : lo = i + 1
  OBVIOUS
<1>4. PICK clean : clean = Clean'
  OBVIOUS
<1>5. TakesFirst(Word(ch, i, n, cur), ch, i, n, cur) /\ Holds(ch, i + 1, n)
  BY <1>1, FirstOfWord
<1> HIDE DEF ch
<1>6. \A j \in lo .. n - 1 : clean[j] = ch[j]
  <2>1. \A j \in lo .. n - 1 : j \in 0 .. bb.buf_size + 1 /\ j # i
    BY <1>1, <1>3
  <2> QED
    BY <1>1, <1>2, <1>4, <2>1
<1>7. Holds(ch, lo, n)
  BY ONLY <1>3, <1>5, Zenon
<1>8. cur \in Seq(Chars)
  OBVIOUS
<1>9. Word(clean, lo, n, cur) = Word(ch, lo, n, cur)
  BY ONLY <1>1, <1>6, <1>7, <1>8, SameCellsWord
<1>10. Takes(Word(ch, i, n, cur), ch, i, n, cur)
  BY ONLY <1>3, <1>4, <1>5, <1>9, Zenon DEF Takes, TakesFirst
<1> QED
  BY <1>10 DEF ch

\* yylineno goes on by the character that input() takes, if it takes one.
CountsTaken ==
  \/ /\ Unread # <<>> /\ Unread' = Tail(Unread)
     /\ g'.lineno = IF Head(Unread) = NL THEN g.lineno + 1 ELSE g.lineno
  \/ Unread' = Unread /\ g'.lineno = g.lineno

\* input() from the buffer.
LEMMA InputCharLexes ==
  ASSUME IInv, Knowing, InputChar PROVE Lex!EndInput /\ CountsTaken /\ Knowing'
<1>1. /\ pc = "input" /\ UNCHANGED <<mode, yyin, l>> /\ ~AtMark /\ TakeChar(b, g, g.c_buf_p)
  BY DEF InputChar, Kept
<1>2. Clean = b.ch_buf /\ TokenStart = g.c_buf_p
  BY <1>1 DEF Clean, TokenStart
<1>3. /\ Marked(b.ch_buf, b.buf_size, g.n_chars) /\ Holds(b.ch_buf, g.c_buf_p, g.n_chars)
      /\ ~g.more_flag /\ ~l.intact /\ BufferShape(b) /\ GlobalsShape(g)
  BY <1>1, <1>2 DEF IInv, Shapes, Texts, Phases, InCall, AtInput
<1>4. g.c_buf_p \in 0 .. g.n_chars - 1
  BY <1>1, <1>3, InvTypes DEF AtMark, Marked, Holds
<1>5. /\ pc' = "action" /\ b'.status = b.status /\ g'.n_chars = g.n_chars
      /\ g'.c_buf_p = g.c_buf_p + 1 /\ g'.more_flag = g.more_flag
  BY <1>1, <1>3, <1>4, TakenIs
<1>6. PICK lo, n, ch : lo = g.c_buf_p /\ n = g.n_chars /\ ch = b.ch_buf
  OBVIOUS
<1>7. PICK cur \in Seq(Chars) : cur = yyin.cur
  BY <1>1, UnreadIs
<1>8. Unread = Word(ch, lo, n, cur)
  BY <1>1, <1>2, <1>6, <1>7, UnreadIs
<1>9. Unread' = Word(Clean', lo + 1, n, cur)
  BY <1>1, <1>5, <1>6, <1>7 DEF Unread, Word, TokenStart
<1>10. Takes(Word(ch, lo, n, cur), ch, lo, n, cur)
  BY <1>1, <1>3, <1>4, <1>6, <1>7, TakenWord
<1>11. Unread # <<>> /\ Head(Unread) = ch[lo] /\ Unread' = Tail(Unread)
  BY ONLY <1>8, <1>9, <1>10, Zenon DEF Takes
<1>12. out' = Append(out, <<"input", Head(Unread)>>)
  BY <1>1, <1>6, <1>11 DEF TakeChar
<1>13. /\ Carry' = Carry /\ ActionText' = ActionText /\ MoreCalled' = MoreCalled
       /\ Phase = "input" /\ Phase' = "action"
  BY <1>1, <1>3, <1>5 DEF Carry, ActionText, MoreCalled, Phase
<1>14. Pending'
  BY <1>1, <1>5 DEF Knowing, Pending
<1>15. Knowing'
  BY <1>1, <1>5, <1>14, KnowingNext
<1>16. CountsTaken
  <2>1. g' = [g EXCEPT !.c_buf_p = g.c_buf_p + 1, !.hold_char = b.ch_buf[g.c_buf_p + 1],
                       !.lineno = IF ch[lo] = NL THEN @ + 1 ELSE @]
    BY <1>1, <1>6 DEF TakeChar
  <2>2. g'.lineno = IF ch[lo] = NL THEN g.lineno + 1 ELSE g.lineno
    BY <1>3, <2>1 DEF GlobalsShape
  <2> QED
    BY <1>11, <2>2 DEF CountsTaken
<1> QED
  BY <1>1, <1>11, <1>12, <1>13, <1>15, <1>16 DEF Lex!EndInput

\* What a read takes from the stream: cur was left of it, cur2 is left after it.
Took(cur, cur2, k) ==
  /\ cur \in Seq(Chars) /\ cur2 \in Seq(Chars) /\ k \in Nat /\ Len(cur) = Len(cur2) + k
  /\ \A i \in 1 .. Len(cur2) : cur2[i] = cur[k + i]

\* A read, when no end of file was met that the buffer does not know of.
LEMMA ReadText ==
  ASSUME BufferShape(b), b.fill, StreamShape(yyin), b.status = "EOF_PENDING" => yyin.cur = <<>>,
         Pending, NEW gg, MovedChars(gg) \in 0 .. b.buf_size, NEW k \in Reads(gg)
  PROVE  /\ Took(yyin.cur, AfterRead(k).cur, k) /\ AfterRead(k).next = yyin.next
         /\ k # 0 => Stream = yyin /\ ~AfterRead(k).eof
         /\ k = 0 => yyin.cur = <<>> /\ AfterRead(k).cur = <<>>
<1>1. /\ k \in Nat
      /\ k # 0 => CanRead /\ MovedChars(gg) + k + 1 <= SizeToRead(gg)
      /\ StreamShape(AfterRead(k))
      /\ k = 0 => AfterRead(k).cur = <<>>
  BY ReadIs
<1>2. yyin.cur \in Seq(Chars) /\ AfterRead(k).cur \in Seq(Chars)
  BY <1>1 DEF StreamShape
<1>3. ASSUME yyin.cur = <<>>, AfterRead(k).cur = <<>>, k = 0 PROVE Took(yyin.cur, AfterRead(k).cur, k)
  <2>1. PICK e : e = <<>> /\ e = yyin.cur /\ e = AfterRead(k).cur
    BY <1>3
  <2>2. e \in Seq(Chars) /\ Len(e) = 0
    BY ONLY <2>1
  <2>3. Took(e, e, 0)
    BY ONLY <2>2 DEF Took
  <2> QED
    BY <1>3, <2>1, <2>3
<1>4. CASE ~CanRead
  <2>1. k = 0 /\ AfterRead(k) = yyin /\ yyin.cur = <<>>
    BY <1>4 DEF Reads, AfterRead, CanRead
  <2> QED
    BY <1>3, <2>1
<1>5. CASE CanRead
  <2>1. Stream = yyin
    BY <1>5 DEF Stream, Pending, CanRead
  <2>2. AfterRead(k) = [yyin EXCEPT !.cur = SubSeq(@, k + 1, Len(@)), !.eof = (k = 0)]
    BY <1>5, <2>1 DEF AfterRead
  <2>3. /\ AfterRead(k).cur = SubSeq(yyin.cur, k + 1, Len(yyin.cur))
        /\ AfterRead(k).next = yyin.next /\ AfterRead(k).eof = (k = 0)
    BY <2>2 DEF StreamShape
  <2>4. CASE yyin.cur = <<>>
    <3>1. k = 0
      BY <2>1, <2>4 DEF Reads
    <3> QED
      BY <1>1, <1>3, <2>3, <2>4, <3>1
  <2>5. CASE yyin.cur # <<>>
    <3> DEFINE room == SizeToRead(gg) - MovedChars(gg) - 1
               most == {room, YY_READ_BUF_SIZE, Len(yyin.cur)}
    <3>1. k \in 1 .. Min(most)
      BY <1>5, <2>1, <2>5 DEF Reads
    <3>2. Min(most) \in Int /\ Min(most) <= Len(yyin.cur)
      <4>1. SizeToRead(gg) \in Nat /\ MovedChars(gg) \in Nat
        BY SizeIs DEF BufferShape
      <4>2. room \in Int /\ YY_READ_BUF_SIZE \in Int /\ Len(yyin.cur) \in Int
        BY <1>2, <4>1, SizeAssumption
      <4> HIDE DEF room
      <4> DEFINE least == IF room < YY_READ_BUF_SIZE
                          THEN IF room < Len(yyin.cur) THEN room ELSE Len(yyin.cur)
                          ELSE IF YY_READ_BUF_SIZE < Len(yyin.cur) THEN YY_READ_BUF_SIZE ELSE Len(yyin.cur)
      <4>3. most \subseteq Int /\ least \in Int /\ \A y \in most : least <= y
        BY <4>2
      <4>4. Len(yyin.cur) \in most
        OBVIOUS
      <4> HIDE DEF most, least
      <4> QED
        BY <4>3, <4>4, MinIs
    <3> HIDE DEF most
    <3>3. PICK cur \in Seq(Chars) : cur = yyin.cur
      BY <1>2
    <3>4. k \in Nat /\ k # 0 /\ k <= Len(cur) /\ Len(cur) \in Nat
      BY <3>1, <3>2, <3>3
    <3>5. PICK cur2 \in Seq(Chars) : cur2 = AfterRead(k).cur
      BY <1>2
    <3>6. cur2 = SubSeq(cur, k + 1, Len(cur))
      BY <2>3, <3>3, <3>5
    <3>7. Took(cur, cur2, k)
      <4>1. Len(cur2) = Len(cur) - k /\ \A i \in 1 .. Len(cur) - k : cur2[i] = cur[k + i]
        BY ONLY <3>4, <3>6, cur \in Seq(Chars)
      <4>2. Len(cur) = Len(cur2) + k
        BY <3>4, <4>1
      <4> QED
        BY <3>4, <4>1, <4>2 DEF Took
    <3> QED
      BY <2>1, <2>3, <3>3, <3>4, <3>5, <3>7
  <2> QED
    BY <2>4, <2>5
<1> QED
  BY <1>4, <1>5

\* A read has moved the text that began at tp to the front of the buffer: what
\* is to match from lo on, and the text before it, are what they were.
Brought(ch2, n2, cur2, ch, tp, lo, n, cur) ==
  /\ Word(ch2, lo - tp, n2, cur2) = Word(ch, lo, n, cur)
  /\ Slice(ch2, 0, lo - tp) = Slice(ch, tp, lo)

\* Text that is copied and read as yy_get_next_buffer() does it is the same word.
LEMMA BroughtText ==
  ASSUME NEW ch, NEW tp, NEW n \in Nat, Holds(ch, tp, n), NEW lo \in tp .. n,
         NEW cur, NEW cur2, NEW k, Took(cur, cur2, k),
         NEW ch2, NEW move, move = n - tp, Copied(ch2, ch, tp, move, cur, k),
         NEW n2 \in Nat, n2 = move + k, Holds(ch2, 0, n2)
  PROVE  Brought(ch2, n2, cur2, ch, tp, lo, n, cur)
<1>1. /\ tp \in Nat /\ tp <= n /\ lo \in Nat /\ tp <= lo /\ lo <= n /\ move \in Nat /\ k \in Nat
      /\ cur \in Seq(Chars) /\ cur2 \in Seq(Chars) /\ Len(cur) = Len(cur2) + k
      /\ \A i \in 1 .. Len(cur2) : cur2[i] = cur[k + i]
  BY DEF Holds, Took
<1>2. PICK lo2 \in Nat : lo2 = lo - tp
  BY <1>1
<1>3. lo2 <= n2 /\ n2 - lo2 = n - lo + k /\ lo2 + (n - lo) = move /\ lo2 <= move
  BY <1>1, <1>2
<1>4. Holds(ch, lo, n)
  <2>1. \A i \in lo .. n - 1 : i \in tp .. n - 1
    BY <1>1
  <2> QED
    BY <1>1, <2>1 DEF Holds
<1>5. Holds(ch2, lo2, n2)
  <2>1. \A i \in lo2 .. n2 - 1 : i \in 0 .. n2 - 1
    BY <1>2
  <2> QED
    BY <1>3, <2>1 DEF Holds
<1>6. \A i \in 0 .. move - 1 : ch2[i] = ch[tp + i]
  BY DEF Copied
<1>7. \A i \in 0 .. n - lo - 1 : ch2[lo2 + i] = ch[lo + i]
  <2>1. \A i \in 0 .. n - lo - 1 : lo2 + i \in 0 .. move - 1 /\ tp + (lo2 + i) = lo + i
    BY <1>1, <1>2
  <2> QED
    BY <1>6, <2>1
<1>8. \A i \in 1 .. k : ch2[lo2 + (n - lo) + i - 1] = cur[i]
  <2>1. \A i \in 1 .. k : ch2[move + i - 1] = cur[i]
    BY DEF Copied
  <2> QED
    BY <1>3, <2>1
<1>9. Word(ch2, lo2, n2, cur2) = Word(ch, lo, n, cur)
  <2>1. Brings(ch2, lo2, n2, cur2, ch, lo, n, cur, k)
    BY <1>1, <1>3, <1>7, <1>8 DEF Brings
  <2>2. n \in Nat /\ n2 \in Nat /\ k \in Nat /\ cur \in Seq(Chars) /\ cur2 \in Seq(Chars)
    BY <1>1
  <2> QED
    BY ONLY <1>4, <1>5, <2>1, <2>2, MovedWord
<1>10. Slice(ch2, 0, lo2) = Slice(ch, tp, lo)
  <2>1. \A i \in 1 .. lo2 : i - 1 \in 0 .. move - 1 /\ 0 + i - 1 = i - 1 /\ tp + (i - 1) = tp + i - 1
    BY <1>1, <1>3
  <2>2. \A i \in 1 .. lo2 : ch2[0 + i - 1] = ch[tp + i - 1]
    BY <1>6, <2>1
  <2>3. lo2 - 0 = lo2
    BY <1>2
  <2> QED
    BY <1>2, <2>2, <2>3 DEF Slice
<1> QED
  BY <1>2, <1>9, <1>10 DEF Brought

\* yy_get_next_buffer() loses nothing of what is to match.
LEMMA TextAfterRead ==
  ASSUME BufferShape(b), b.fill, StreamShape(yyin), b.status = "EOF_PENDING" => yyin.cur = <<>>,
         Pending, NEW gg, GlobalsShape(gg), NEW n, gg.n_chars = n, Marked(b.ch_buf, b.buf_size, n),
         NEW tp, gg.text_ptr = tp, Holds(b.ch_buf, tp, n), gg.c_buf_p = n + 1,
         NEW k \in Reads(gg), NEW r, r = NextBuffer(gg, k), r.ret # "END_OF_FILE", NEW lo \in tp .. n
  PROVE  Brought(r.b.ch_buf, r.g.n_chars, AfterRead(k).cur, b.ch_buf, tp, lo, n, yyin.cur)
<1>1. /\ n \in Nat /\ tp \in Nat /\ tp <= n /\ n <= b.buf_size /\ b.buf_size \in Nat
      /\ gg.c_buf_p \in gg.text_ptr + 1 .. gg.n_chars + 1
  BY DEF Marked, Holds
<1>2. PICK move : move = n - tp
  OBVIOUS
<1>3. MovedChars(gg) = move /\ move \in 0 .. b.buf_size /\ move \in Nat
  BY <1>1, <1>2 DEF MovedChars
<1>4. /\ Took(yyin.cur, AfterRead(k).cur, k)
      /\ k # 0 => Stream = yyin
  BY <1>3, ReadText
<1>5. /\ r.g.n_chars = move + k /\ Holds(r.b.ch_buf, 0, r.g.n_chars)
      /\ Copied(r.b.ch_buf, b.ch_buf, tp, move, Stream.cur, k)
  BY <1>1, <1>3, NextBufferIs
<1>6. Copied(r.b.ch_buf, b.ch_buf, tp, move, yyin.cur, k)
  <2>1. CASE k = 0
    BY <1>5, <2>1 DEF Copied
  <2>2. CASE k # 0
    BY <1>4, <1>5, <2>2
  <2> QED
    BY <2>1, <2>2
<1>7. PICK n2 : n2 = r.g.n_chars
  OBVIOUS
<1>8. k \in Nat
  BY <1>4 DEF Took
<1>9. n2 \in Nat /\ n2 = move + k /\ Holds(r.b.ch_buf, 0, n2)
  BY <1>3, <1>5, <1>7, <1>8
<1>10. Brought(r.b.ch_buf, n2, AfterRead(k).cur, b.ch_buf, tp, lo, n, yyin.cur)
  BY ONLY <1>1, <1>2, <1>4, <1>6, <1>9, lo \in tp .. n, Holds(b.ch_buf, tp, n), BroughtText
<1> QED
  BY <1>7, <1>10

\* There is nothing to match when there is no text and no more to read.
LEMMA EmptyWord ==
  ASSUME NEW ch, NEW n \in Nat, NEW cur, cur = <<>>
  PROVE  Word(ch, n, n, cur) = <<>>
<1>1. PICK e : e = Slice(ch, n, n)
  OBVIOUS
<1>2. e = <<>>
  BY <1>1, EmptySlice
<1>3. e \o cur = <<>>
  BY ONLY <1>2, cur = <<>>
<1> QED
  BY <1>1, <1>3 DEF Word

\* Reads and restarts leave yylineno alone.
LEMMA LinesKept ==
  ASSUME NEW gg, GlobalsShape(gg)
  PROVE  /\ \A k : /\ NextBuffer(gg, k).g.lineno = gg.lineno
                   /\ "lineno" \in DOMAIN NextBuffer(gg, k).g
                   /\ \A bb : Restart(bb, NextBuffer(gg, k).g).g.lineno = gg.lineno
         /\ \A bb : Restart(bb, gg).g.lineno = gg.lineno
<1> DEFINE D == DOMAIN gg
<1>1. "lineno" \in D
  BY DEF GlobalsShape
<1>2. ASSUME NEW bb, NEW h, "lineno" \in DOMAIN h, h.lineno = gg.lineno
      PROVE  "lineno" \in DOMAIN Restart(bb, h).g /\ Restart(bb, h).g.lineno = gg.lineno
  BY <1>2 DEF Restart
<1>3. ASSUME NEW k
      PROVE  NextBuffer(gg, k).g.lineno = gg.lineno /\ "lineno" \in DOMAIN NextBuffer(gg, k).g
  <2> DEFINE move == MovedChars(gg)
             size == SizeToRead(gg)
             n == IF CanRead THEN k ELSE 0
             ch == [i \in Cells(size) |->
                      IF i < move THEN b.ch_buf[gg.text_ptr + i]
                      ELSE IF i < move + n THEN Stream.cur[i - move + 1]
                      ELSE IF i \in DOMAIN b.ch_buf THEN b.ch_buf[i] ELSE Undef]
             read == [b |-> [b EXCEPT !.ch_buf = ch, !.buf_size = size, !.n_chars = n],
                      g |-> [gg EXCEPT !.n_chars = n]]
             eof == IF move = gg.more_len THEN Restart(read.b, read.g)
                    ELSE [read EXCEPT !.b.status = "EOF_PENDING"]
             got == IF n = 0 THEN eof ELSE read
             total == got.g.n_chars + move
             last == [got.g EXCEPT !.n_chars = total, !.text_ptr = 0]
  <2>1. "lineno" \in DOMAIN read.g /\ read.g.lineno = gg.lineno
    BY <1>1
  <2>2. NextBuffer(gg, k).g \in {gg, last}
    BY DEF NextBuffer
  <2> HIDE DEF read, n, ch, size, move
  <2>3. "lineno" \in DOMAIN Restart(read.b, read.g).g /\ Restart(read.b, read.g).g.lineno = gg.lineno
    BY <1>2, <2>1
  <2>4. got.g \in {read.g, Restart(read.b, read.g).g}
    <3>1. [read EXCEPT !.b.status = "EOF_PENDING"].g = read.g
      <4>1. "g" \in DOMAIN read
        BY DEF read
      <4> QED
        BY <4>1
    <3> QED
      BY <3>1
  <2>5. "lineno" \in DOMAIN got.g /\ got.g.lineno = gg.lineno
    BY <2>1, <2>3, <2>4
  <2> HIDE DEF got
  <2>6. last.lineno = gg.lineno /\ "lineno" \in DOMAIN last
    BY <2>5
  <2> HIDE DEF last
  <2> QED
    BY <1>1, <2>2, <2>6
<1>4. ASSUME NEW bb PROVE Restart(bb, gg).g.lineno = gg.lineno
  BY <1>1, <1>2
<1>5. ASSUME NEW k, NEW bb PROVE Restart(bb, NextBuffer(gg, k).g).g.lineno = gg.lineno
  BY <1>2, <1>3
<1> QED
  BY <1>3, <1>4, <1>5

\* input() at the end of the text: the next character is read, or there is none.
LEMMA InputRefillLexes ==
  ASSUME IInv, Knowing, InputRefill PROVE Lex!EndInput /\ CountsTaken /\ Knowing'
<1> DEFINE past == [g EXCEPT !.c_buf_p = @ + 1]
<1>1. PICK n, tp, move : n = g.n_chars /\ tp = g.text_ptr /\ move = n - tp
  OBVIOUS
<1>2. /\ pc = "input" /\ AtMark /\ UNCHANGED <<mode, input, l>>
  BY DEF InputRefill, Kept
<1>3. Clean = b.ch_buf /\ TokenStart = g.c_buf_p
  BY <1>2 DEF Clean, TokenStart
<1>4. /\ Marked(b.ch_buf, b.buf_size, n) /\ Holds(b.ch_buf, tp, n) /\ Holds(b.ch_buf, g.c_buf_p, n)
      /\ ~g.more_flag /\ ~l.intact /\ (move > g.more_len \/ n = tp)
      /\ g.c_buf_p = n => b.fill /\ (yyin.cur # <<>> \/ yyin.next = <<>>)
  BY <1>1, <1>2, <1>3 DEF IInv, Texts, Phases, InCall, AtInput
<1>5. g.c_buf_p = n /\ b.fill /\ (yyin.cur # <<>> \/ yyin.next = <<>>)
  <2>1. g.c_buf_p <= n /\ g.c_buf_p >= n
    BY <1>1, <1>2, <1>4, InvTypes DEF AtMark, Holds
  <2> QED
    BY <1>1, <1>4, <2>1, InvTypes
<1>6. /\ BufferShape(b) /\ GlobalsShape(g) /\ StreamShape(yyin) /\ Pending
      /\ (b.status = "EOF_PENDING" => yyin.cur = <<>>)
  BY DEF IInv, Shapes, Sourced, Knowing
<1>7. /\ tp \in Nat /\ g.more_len \in Nat /\ n \in Nat /\ b.buf_size \in Nat /\ n <= b.buf_size
      /\ tp <= n /\ move \in Nat /\ move \in 0 .. b.buf_size /\ n \in tp .. n
  BY <1>1, InvTypes
<1>8. /\ GlobalsShape(past) /\ past.c_buf_p = n + 1 /\ past.n_chars = n /\ past.text_ptr = tp
      /\ past.more_flag = g.more_flag /\ past.more_len = g.more_len
  BY <1>1, <1>5, <1>6 DEF GlobalsShape
<1>9. PICK k \in Reads(past) :
        LET r == NextBuffer(past, k)
            ended == IF r.ret = "LAST_MATCH" THEN Restart(r.b, r.g) ELSE [b |-> r.b, g |-> r.g]
        IN  /\ r.ret = "CONTINUE_SCAN" =>
                 TakeChar(r.b, r.g, r.g.text_ptr + (g.c_buf_p - g.text_ptr)) /\ yyin' = AfterRead(k)
            /\ r.ret \in {"END_OF_FILE", "LAST_MATCH"} /\ AfterRead(k).next = <<>> =>
                 /\ b' = ended.b /\ g' = ended.g /\ pc' = "action" /\ yyin' = AfterRead(k)
                 /\ out' = Append(out, <<"input", NUL>>)
  BY DEF InputRefill
<1> HIDE DEF past
<1>10. PICK r : r = NextBuffer(past, k)
  OBVIOUS
<1>11. past.c_buf_p \in past.text_ptr + 1 .. past.n_chars + 1 /\ MovedChars(past) = move
  BY <1>1, <1>7, <1>8 DEF MovedChars
<1>12. /\ BufferShape(r.b) /\ r.b.fill /\ GlobalsShape(r.g) /\ r.g.text_ptr = 0
       /\ r.g.more_flag = g.more_flag /\ r.g.more_len = g.more_len
       /\ r.g.n_chars = move + k
       /\ Marked(r.b.ch_buf, r.b.buf_size, r.g.n_chars) /\ Holds(r.b.ch_buf, 0, r.g.n_chars)
       /\ \/ r.ret = "CONTINUE_SCAN" /\ k # 0 /\ r.b.status = b.status
          \/ r.ret = "LAST_MATCH" /\ k = 0
          \/ r.ret = "END_OF_FILE" /\ k = 0 /\ move = g.more_len /\ r.g.c_buf_p = 0
  <2>1. Marked(b.ch_buf, b.buf_size, past.n_chars) /\ Holds(b.ch_buf, past.text_ptr, past.n_chars)
    BY <1>4, <1>8
  <2> QED
    BY <1>5, <1>6, <1>8, <1>10, <1>11, <2>1, NextBufferIs
<1>13. /\ Took(yyin.cur, AfterRead(k).cur, k) /\ AfterRead(k).next = yyin.next
       /\ k # 0 => ~AfterRead(k).eof
       /\ k = 0 => yyin.cur = <<>> /\ AfterRead(k).cur = <<>>
  BY <1>5, <1>6, <1>7, <1>11, ReadText
<1>14. k \in Nat /\ AfterRead(k).cur \in Seq(Chars) /\ yyin.cur \in Seq(Chars)
  BY <1>13 DEF Took
<1>15. Unread = Word(b.ch_buf, n, n, yyin.cur)
  BY <1>1, <1>3, <1>5 DEF Unread, Word
<1>16. /\ Phase = "input" /\ Carry = <<>> /\ ActionText = <<-1>> /\ ~MoreCalled
  BY <1>2 DEF Carry, ActionText, MoreCalled, Phase
<1>17. ASSUME pc' = "action", ~g'.more_flag
       PROVE  Phase' = "action" /\ Carry' = <<>> /\ ActionText' = <<-1>> /\ ~MoreCalled'
  BY <1>2, <1>4, <1>17 DEF Carry, ActionText, MoreCalled, Phase
<1>18. CASE r.ret = "CONTINUE_SCAN"
  <2>1. k # 0 /\ r.b.status = b.status
    BY <1>12, <1>18
  <2>2. r.g.text_ptr + (g.c_buf_p - g.text_ptr) = move
    BY <1>1, <1>5, <1>7, <1>12
  <2>3. TakeChar(r.b, r.g, move) /\ yyin' = AfterRead(k)
    BY <1>9, <1>10, <1>18, <2>2
  <2>4. PICK total : total = move + k
    OBVIOUS
  <2>5. total \in Nat /\ move \in 0 .. total - 1 /\ total = r.g.n_chars
    BY <1>7, <1>12, <1>14, <2>1, <2>4
  <2>6. Marked(r.b.ch_buf, r.b.buf_size, total) /\ Holds(r.b.ch_buf, 0, total)
    BY <1>12, <2>5
  <2>7. /\ pc' = "action" /\ b'.status = r.b.status /\ g'.n_chars = total /\ g'.c_buf_p = move + 1
        /\ g'.more_flag = r.g.more_flag
    BY <1>12, <2>3, <2>5, <2>6, TakenIs
  <2>8. Holds(r.b.ch_buf, move, total)
    <3>1. \A i \in move .. total - 1 : i \in 0 .. total - 1
      BY <1>7, <2>5
    <3>2. move \in 0 .. total
      BY <1>7, <2>5
    <3> QED
      BY <2>6, <3>1, <3>2 DEF Holds
  <2>9. PICK cur \in Seq(Chars) : cur = AfterRead(k).cur
    BY <1>14
  <2>10. Takes(Word(r.b.ch_buf, move, total, cur), r.b.ch_buf, move, total, cur)
    BY <1>12, <2>3, <2>5, <2>6, <2>8, TakenWord
  <2>11. Brought(r.b.ch_buf, r.g.n_chars, AfterRead(k).cur, b.ch_buf, tp, n, n, yyin.cur)
    BY <1>4, <1>5, <1>6, <1>7, <1>8, <1>10, <1>18, TextAfterRead
  <2>12. Unread = Word(r.b.ch_buf, move, total, cur)
    BY <1>1, <1>15, <2>5, <2>9, <2>11 DEF Brought
  <2>13. Unread' = Word(Clean', move + 1, total, cur)
    BY <2>3, <2>7, <2>9 DEF Unread, Word, TokenStart
  <2>14. Unread # <<>> /\ Head(Unread) = r.b.ch_buf[move] /\ Unread' = Tail(Unread)
    BY ONLY <2>10, <2>12, <2>13, Zenon DEF Takes
  <2>15. out' = Append(out, <<"input", Head(Unread)>>)
    BY <2>3, <2>14 DEF TakeChar
  <2>16. Phase' = "action" /\ Carry' = <<>> /\ ActionText' = <<-1>> /\ ~MoreCalled'
    BY <1>4, <1>12, <1>17, <2>7
  <2>17. yyin'.next = yyin.next
    BY <1>13, <2>3
  <2>18. Pending'
    BY <1>13, <2>1, <2>3 DEF Pending
  <2>19. Knowing'
    BY <1>2, <2>7, <2>18, KnowingNext
  <2>20. CountsTaken
    <3>1. r.g.lineno = g.lineno
      <4>1. r.g.lineno = past.lineno
        BY <1>8, <1>10, LinesKept
      <4>2. past.lineno = g.lineno
        BY <1>6 DEF past, GlobalsShape
      <4> QED
        BY <4>1, <4>2
    <3>2. g' = [r.g EXCEPT !.c_buf_p = move + 1, !.hold_char = r.b.ch_buf[move + 1],
                           !.lineno = IF r.b.ch_buf[move] = NL THEN @ + 1 ELSE @]
      BY <2>3 DEF TakeChar
    <3>3. g'.lineno = IF r.b.ch_buf[move] = NL THEN g.lineno + 1 ELSE g.lineno
      BY <1>12, <3>1, <3>2 DEF GlobalsShape
    <3> QED
      BY <2>14, <3>3 DEF CountsTaken
  <2> QED
    BY <1>16, <2>14, <2>15, <2>16, <2>17, <2>19, <2>20 DEF Lex!EndInput, MoreCalled
<1>19. CASE r.ret \in {"END_OF_FILE", "LAST_MATCH"}
  <2>1. k = 0 /\ yyin.cur = <<>> /\ AfterRead(k).cur = <<>> /\ yyin.next = <<>> /\ AfterRead(k).next = <<>>
    BY <1>5, <1>12, <1>13, <1>19
  <2>2. pc' = "action" /\ yyin' = AfterRead(k) /\ out' = Append(out, <<"input", NUL>>)
    BY <1>9, <1>10, <1>19, <2>1
  <2>3. /\ g'.n_chars = 0 /\ g'.c_buf_p = 0 /\ g'.more_flag = g.more_flag
    <3>1. CASE r.ret = "LAST_MATCH"
      <4>1. g' = Restart(r.b, r.g).g
        BY <1>9, <1>10, <2>1, <3>1
      <4> QED
        BY <1>12, <4>1, RestartIs
    <3>2. CASE r.ret = "END_OF_FILE"
      <4>1. g' = r.g
        BY <1>9, <1>10, <2>1, <3>2
      <4>2. move = g.more_len /\ r.g.c_buf_p = 0
        BY <1>12, <3>2
      <4>3. move = 0
        BY <1>1, <1>4, <1>7, <4>2
      <4> QED
        BY <1>12, <2>1, <4>1, <4>2, <4>3
    <3> QED
      BY <1>19, <3>1, <3>2
  <2>4. Unread = <<>>
    BY <1>7, <1>15, <2>1, EmptyWord
  <2>5. Unread' = <<>>
    <3>1. Unread' = Word(Clean', 0, 0, <<>>)
      BY <2>1, <2>2, <2>3 DEF Unread, Word, TokenStart
    <3> QED
      BY <3>1, EmptyWord
  <2>6. Phase' = "action" /\ Carry' = <<>> /\ ActionText' = <<-1>> /\ ~MoreCalled'
    BY <1>4, <1>17, <2>2, <2>3
  <2>7. Knowing'
    <3>1. Pending'
      BY <2>1, <2>2 DEF Pending
    <3> QED
      BY <1>2, <2>2, <3>1, KnowingNext
  <2>8. g'.lineno = g.lineno
    <3>1. r.g.lineno = g.lineno
      <4>1. r.g.lineno = past.lineno
        BY <1>8, <1>10, LinesKept
      <4>2. past.lineno = g.lineno
        BY <1>6 DEF past, GlobalsShape
      <4> QED
        BY <4>1, <4>2
    <3>2. g' = r.g \/ g' = Restart(r.b, r.g).g
      BY <1>9, <1>10, <1>19, <2>1
    <3> QED
      BY <1>12, <3>1, <3>2, LinesKept
  <2>9. CountsTaken
    BY <2>4, <2>5, <2>8 DEF CountsTaken
  <2> QED
    BY <1>16, <2>1, <2>2, <2>4, <2>5, <2>6, <2>7, <2>9 DEF Lex!EndInput, MoreCalled
<1> QED
  BY <1>12, <1>18, <1>19

\* The word holds the text of the buffer.
LEMMA WordText ==
  ASSUME NEW ch, NEW lo, NEW n \in Nat, Holds(ch, lo, n), NEW cur \in Seq(Chars)
  PROVE  Text(Word(ch, lo, n, cur), ch, lo, n)
<1>1. PICK W : W = Word(ch, lo, n, cur)
  OBVIOUS
<1>2. Spells(W, ch, lo, n, cur)
  BY <1>1, WordIs
<1>3. lo \in Nat /\ lo <= n /\ W \in Seq(Chars) /\ Len(W) = n - lo + Len(cur) /\ Len(cur) \in Nat
  BY <1>2 DEF Spells, Holds
<1>4. ASSUME NEW i \in lo .. n - 1 PROVE W[i - lo + 1] = ch[i]
  <2>1. i - lo + 1 \in 1 .. n - lo /\ lo + (i - lo + 1) - 1 = i
    BY <1>3
  <2> QED
    BY <1>2, <2>1 DEF Spells
<1>5. Text(W, ch, lo, n)
  BY <1>3, <1>4 DEF Text
<1> QED
  BY <1>1, <1>5

\* After a refill yylex() goes on where it was.
LEMMA GoesOn ==
  ASSUME pc \in {"match", "find", "eob"}, pc' \in {"match", "find", "eob"}, Unread' = Unread, out' = out,
         yyin'.next = yyin.next, l.bp - g.more_len = g.text_ptr, NEW lo2, l'.bp - g'.more_len = lo2,
         Slice(b'.ch_buf, lo2, l'.bp) = Slice(b.ch_buf, g.text_ptr, l.bp)
  PROVE  UNCHANGED Lex!absvars
<1>1. Carry' = Carry /\ ActionText' = ActionText /\ MoreCalled' = MoreCalled /\ Phase' = Phase
  BY DEF Carry, ActionText, MoreCalled, Phase
<1> QED
  BY <1>1 DEF Lex!absvars

\* A replay of all the text there is, when no more can be read.
LEMMA LastMatch ==
  ASSUME NEW ch, NEW size, NEW n, Marked(ch, size, n), NEW lo, Holds(ch, lo, n), lo < n, Locals(l),
         NEW cur, cur = <<>>
  PROVE  \A x : Finds(Replay(ch, lo, n), Word(ch, lo, n, cur), x)
<1>1. n \in Nat /\ lo \in Nat /\ n \in lo .. n /\ n > lo
  BY DEF Marked, Holds
<1>2. PICK e \in Seq(Chars) : e = cur /\ Len(e) = 0
  <2>1. <<>> \in Seq(Chars) /\ Len(<<>>) = 0
    OBVIOUS
  <2> QED
    BY <2>1
<1>3. PICK W : W = Word(ch, lo, n, e)
  OBVIOUS
<1>4. Text(W, ch, lo, n)
  BY <1>1, <1>3, WordText
<1>5. Len(W) = n - lo
  <2>1. Spells(W, ch, lo, n, e)
    BY <1>1, <1>3, WordIs
  <2> QED
    BY <1>1, <1>2, <2>1 DEF Spells
<1>6. Beyond(W, n - lo)
  <2>1. \A k \in n - lo + 1 .. Len(W) : FALSE
    BY <1>1, <1>5
  <2> QED
    BY <2>1 DEF Beyond
<1>7. \A x : Finds(Replay(ch, lo, n), W, x)
  BY <1>1, <1>4, <1>6, ReplayFinds
<1> QED
  BY <1>2, <1>3, <1>7

\* A refill loses no text; an end of file is seen when all has been matched.
LEMMA RefillLexes ==
  ASSUME IInv, Knowing, Refill
  PROVE  (Lex!EndOfFile \/ Lex!NextSegment \/ UNCHANGED Lex!absvars) /\ Knowing'
<1>1. PICK n, tp, move, bp, more : /\ n = g.n_chars /\ tp = g.text_ptr /\ move = n - tp
                                   /\ bp = l.bp /\ more = g.more_len
  OBVIOUS
<1>2. pc = "eob" /\ g.c_buf_p > n /\ mode' = mode
  BY <1>1 DEF Refill, Kept
<1>3. /\ Marked(b.ch_buf, b.buf_size, n) /\ Holds(b.ch_buf, tp, n) /\ Holds(b.ch_buf, bp, n)
      /\ bp = tp + more /\ bp <= n /\ g.c_buf_p = l.cp /\ l.cp <= n + 1
      /\ b.status # "NEW" /\ ~g.more_flag
  BY <1>1, <1>2, EobIs
<1>4. /\ BufferShape(b) /\ GlobalsShape(g) /\ Locals(l) /\ StreamShape(yyin) /\ Pending
      /\ (b.status = "EOF_PENDING" => yyin.cur = <<>>) /\ (~b.fill => Over(yyin))
  BY DEF IInv, Shapes, Sourced, Knowing
<1>5. /\ tp \in Nat /\ more \in Nat /\ n \in Nat /\ b.buf_size \in Nat /\ n <= b.buf_size /\ bp \in Nat
      /\ l.cp \in Nat /\ g.c_buf_p \in Nat
  BY <1>1, InvTypes
<1>6. /\ l.cp = n + 1 /\ g.c_buf_p = n + 1 /\ tp <= n /\ move \in Nat /\ bp \in tp .. n /\ more <= move
      /\ bp - more = tp /\ move \in 0 .. b.buf_size
  BY <1>1, <1>2, <1>3, <1>5
<1>7. l.cp - g.text_ptr - 1 = move /\ MovedChars(g) = move
      /\ g.c_buf_p \in g.text_ptr + 1 .. g.n_chars + 1
  BY <1>1, <1>5, <1>6 DEF MovedChars
<1>8. PICK k \in Reads(g) :
        LET r == NextBuffer(g, k)
            front == r.g.text_ptr + g.more_len
            amount == l.cp - g.text_ptr - 1
            restarted == Restart(r.b, r.g)
            s == AfterRead(k)
        IN  /\ r.ret = "CONTINUE_SCAN" =>
                 /\ b' = r.b
                 /\ g' = [r.g EXCEPT !.c_buf_p = r.g.text_ptr + amount]
                 /\ l' = Replay(r.b.ch_buf, front, r.g.text_ptr + amount)
                 /\ pc' = "match" /\ yyin' = s /\ out' = out
            /\ r.ret = "LAST_MATCH" =>
                 /\ b' = r.b
                 /\ g' = [r.g EXCEPT !.c_buf_p = r.g.n_chars]
                 /\ l' = Replay(r.b.ch_buf, front, r.g.n_chars)
                 /\ pc' = "find" /\ yyin' = s /\ out' = out
            /\ r.ret = "END_OF_FILE" /\ s.next = <<>> =>
                 /\ b' = r.b
                 /\ g' = [r.g EXCEPT !.c_buf_p = front]
                 /\ pc' = "eof" /\ yyin' = s /\ out' = Append(out, <<"eof">>)
            /\ r.ret = "END_OF_FILE" /\ s.next # <<>> =>
                 /\ g' = restarted.g
                 /\ pc' = "start" /\ out' = out
                 /\ yyin' = [cur |-> Head(s.next), next |-> Tail(s.next), eof |-> FALSE]
  BY DEF Refill
<1>9. PICK r : r = NextBuffer(g, k)
  OBVIOUS
<1>10. Clean = b.ch_buf /\ TokenStart = bp
  BY <1>1, <1>2 DEF Clean, TokenStart
<1>11. PICK cur : cur = yyin.cur
  OBVIOUS
<1>12. Unread = Word(b.ch_buf, bp, n, cur) /\ cur \in Seq(Chars)
  BY <1>1, <1>4, <1>10, <1>11 DEF Unread, Word, StreamShape
<1>13. pc' \in {"match", "find"} => Unread' = Word(b'.ch_buf, l'.bp, g'.n_chars, yyin'.cur)
  BY DEF Unread, Word, Clean, TokenStart
<1>14. Phase = "scan" /\ ActionText = <<>> /\ ~MoreCalled
  BY <1>2 DEF Phase, ActionText, MoreCalled
<1>15. ASSUME r.ret = "END_OF_FILE", bp = n, cur = <<>>, AfterRead(k).next = yyin.next,
              AfterRead(k).cur = <<>>, ~r.g.more_flag, GlobalsShape(r.g),
              r.g.text_ptr + more = r.g.n_chars, r.g.n_chars \in Nat,
              b.fill => BufferShape(r.b) /\ r.b.fill, ~b.fill => yyin.next = <<>>
       PROVE  (Lex!EndOfFile \/ Lex!NextSegment) /\ Knowing'
  <2>1. Unread = <<>>
    BY <1>5, <1>12, <1>15, EmptyWord
  <2>2. ASSUME AfterRead(k).next = <<>> PROVE Lex!EndOfFile /\ Knowing'
    <3>1. /\ g' = [r.g EXCEPT !.c_buf_p = r.g.text_ptr + g.more_len]
          /\ pc' = "eof" /\ yyin' = AfterRead(k) /\ out' = Append(out, <<"eof">>)
      BY <1>8, <1>9, <1>15, <2>2
    <3>2. PICK m \in Nat : m = r.g.n_chars
      BY <1>15
    <3>3. g'.n_chars = m /\ g'.c_buf_p = m
      BY <1>1, <1>15, <3>1, <3>2 DEF GlobalsShape
    <3>4. Unread' = Word(Clean', m, m, yyin'.cur)
      BY <3>1, <3>3 DEF Unread, Word, TokenStart
    <3>5. Unread' = <<>>
      BY <1>15, <3>1, <3>4, EmptyWord
    <3>6. Carry' = <<>> /\ ActionText' = <<>> /\ MoreCalled' = FALSE /\ Phase' = "eof"
      BY <3>1 DEF Carry, ActionText, MoreCalled, Phase
    <3>7. Lex!EndOfFile
      BY <1>14, <1>15, <2>1, <2>2, <3>1, <3>5, <3>6 DEF Lex!EndOfFile, MoreCalled
    <3>8. Pending'
      BY <2>2, <3>1 DEF Pending
    <3> QED
      BY <1>2, <3>1, <3>7, <3>8, KnowingNext
  <2>3. ASSUME AfterRead(k).next # <<>> PROVE Lex!NextSegment /\ Knowing'
    <3>1. b.fill
      BY <1>15, <2>3
    <3>2. /\ g' = Restart(r.b, r.g).g /\ pc' = "start" /\ out' = out
          /\ yyin' = [cur |-> Head(yyin.next), next |-> Tail(yyin.next), eof |-> FALSE]
      BY <1>8, <1>9, <1>15, <2>3
    <3>3. g'.n_chars = 0 /\ g'.c_buf_p = 0 /\ ~g'.more_flag
      BY <1>15, <3>1, <3>2, RestartIs
    <3>4. PICK e : e = <<>>
      OBVIOUS
    <3>5. Slice(Clean', 0, 0) = e
      BY <3>4, EmptySlice
    <3>6. Unread' = e \o Head(yyin.next)
      BY <3>2, <3>3, <3>5 DEF Unread, TokenStart
    <3>7. PICK h \in Seq(Chars) : h = Head(yyin.next)
      <4> DEFINE C == Seq(Chars)
      <4>1. \A q \in Seq(C) : q # <<>> => Head(q) \in C
        <5> HIDE DEF C
        <5> QED
          OBVIOUS
      <4> QED
        BY <1>4, <1>15, <2>3, <4>1 DEF StreamShape
    <3>8. Unread' = Head(yyin.next)
      <4>1. e \o h = h
        BY ONLY <3>4, h \in Seq(Chars)
      <4> QED
        BY <3>6, <3>7, <4>1
    <3>9. Carry' = <<>> /\ ActionText' = <<>> /\ MoreCalled' = FALSE /\ Phase' = "scan"
      BY <3>2, <3>3 DEF Carry, ActionText, MoreCalled, Phase
    <3>10. yyin'.next = Tail(yyin.next) /\ ~yyin'.eof /\ yyin.next # <<>>
      BY <1>15, <2>3, <3>2
    <3>11. Lex!NextSegment
      BY <1>14, <2>1, <3>2, <3>8, <3>9, <3>10 DEF Lex!NextSegment, MoreCalled
    <3>12. Pending'
      BY <3>10 DEF Pending
    <3> QED
      BY <1>2, <3>2, <3>11, <3>12, KnowingNext
  <2> QED
    BY <2>2, <2>3
<1>16. CASE b.fill
  <2>1. /\ BufferShape(r.b) /\ r.b.fill /\ GlobalsShape(r.g) /\ r.g.text_ptr = 0
        /\ r.g.more_flag = g.more_flag /\ r.g.more_len = g.more_len
        /\ r.g.n_chars = move + k
        /\ Marked(r.b.ch_buf, r.b.buf_size, r.g.n_chars) /\ Holds(r.b.ch_buf, 0, r.g.n_chars)
        /\ \/ r.ret = "CONTINUE_SCAN" /\ k # 0 /\ r.b.status = b.status
           \/ r.ret = "LAST_MATCH" /\ k = 0 /\ move # g.more_len /\ r.b.status = "EOF_PENDING"
           \/ r.ret = "END_OF_FILE" /\ k = 0 /\ move = g.more_len
    BY <1>1, <1>3, <1>4, <1>7, <1>9, <1>16, NextBufferIs
  <2>2. /\ Took(yyin.cur, AfterRead(k).cur, k) /\ AfterRead(k).next = yyin.next
        /\ k # 0 => ~AfterRead(k).eof
        /\ k = 0 => yyin.cur = <<>> /\ AfterRead(k).cur = <<>>
    BY <1>4, <1>6, <1>7, <1>16, ReadText
  <2>3. PICK cur2 \in Seq(Chars) : cur2 = AfterRead(k).cur
    BY <2>2 DEF Took
  <2>4. k \in Nat
    BY <2>2 DEF Took
  <2>5. PICK n2 : n2 = r.g.n_chars
    OBVIOUS
  <2>6. n2 \in Nat /\ n2 = move + k /\ more \in 0 .. n2 /\ move \in more .. n2
    BY <1>5, <1>6, <2>1, <2>4, <2>5
  <2>7. Holds(r.b.ch_buf, more, n2)
    <3>1. \A i \in more .. n2 - 1 : i \in 0 .. n2 - 1
      BY <1>5
    <3> QED
      BY <2>1, <2>5, <2>6, <3>1 DEF Holds
  <2>8. ASSUME r.ret # "END_OF_FILE"
        PROVE  /\ Word(r.b.ch_buf, more, n2, cur2) = Unread
               /\ Slice(r.b.ch_buf, 0, more) = Slice(b.ch_buf, tp, bp)
    <3>1. Brought(r.b.ch_buf, r.g.n_chars, AfterRead(k).cur, b.ch_buf, tp, bp, n, yyin.cur)
      BY <1>1, <1>3, <1>4, <1>6, <1>9, <1>16, <2>8, TextAfterRead
    <3>2. bp - tp = more
      BY <1>3, <1>5
    <3> QED
      BY <1>11, <1>12, <2>3, <2>5, <3>1, <3>2 DEF Brought
  <2>9. ASSUME pc' \in {"match", "find"}, b' = r.b, g'.n_chars = n2, g'.more_len = more, l'.bp = more,
               yyin' = AfterRead(k), out' = out, r.ret # "END_OF_FILE"
        PROVE  Unread' = Unread /\ UNCHANGED Lex!absvars
    <3>1. Unread' = Unread
      BY <1>13, <2>3, <2>8, <2>9
    <3>2. l'.bp - g'.more_len = 0
      BY <1>5, <2>9
    <3>3. l.bp - g.more_len = g.text_ptr
      BY <1>1, <1>6
    <3>4. Slice(b'.ch_buf, 0, l'.bp) = Slice(b.ch_buf, g.text_ptr, l.bp)
      BY <1>1, <2>8, <2>9
    <3>5. PICK lo2 : lo2 = 0
      OBVIOUS
    <3>6. UNCHANGED Lex!absvars
      BY <1>2, <2>2, <2>9, <3>1, <3>2, <3>3, <3>4, <3>5, GoesOn
    <3> QED
      BY <3>1, <3>6
  <2>10. CASE r.ret = "CONTINUE_SCAN"
    <3>1. /\ b' = r.b /\ g' = [r.g EXCEPT !.c_buf_p = move] /\ l' = Replay(r.b.ch_buf, more, move)
          /\ pc' = "match" /\ yyin' = AfterRead(k) /\ out' = out
      BY <1>1, <1>5, <1>6, <1>7, <1>8, <1>9, <2>1, <2>10
    <3>2. g'.n_chars = n2 /\ g'.more_len = more
      BY <1>1, <2>1, <2>5, <3>1 DEF GlobalsShape
    <3>3. Marked(r.b.ch_buf, r.b.buf_size, n2)
      BY <2>1, <2>5
    <3>4. l'.bp = more
      BY <1>4, <2>6, <2>7, <3>1, <3>3, ReplayIs
    <3>5. Unread' = Unread /\ UNCHANGED Lex!absvars
      BY <2>9, <2>10, <3>1, <3>2, <3>4
    <3>6. Text(Unread, r.b.ch_buf, more, n2)
      BY <2>3, <2>6, <2>7, <2>8, <2>10, WordText
    <3>7. Tracks(l', Unread')
      BY <1>4, <2>6, <2>7, <3>1, <3>3, <3>5, <3>6, ReplayTracks
    <3>8. Pending'
      BY <2>1, <2>2, <2>10, <3>1 DEF Pending
    <3> QED
      BY <1>2, <3>1, <3>5, <3>7, <3>8, KnowingNext
  <2>11. CASE r.ret = "LAST_MATCH"
    <3>0. k = 0 /\ move # more /\ r.b.status = "EOF_PENDING" /\ n2 = move /\ more < n2 /\ cur2 = <<>>
      BY <1>1, <1>5, <1>6, <2>1, <2>2, <2>3, <2>6, <2>11
    <3>1. /\ b' = r.b /\ g' = [r.g EXCEPT !.c_buf_p = r.g.n_chars] /\ l' = Replay(r.b.ch_buf, more, n2)
          /\ pc' = "find" /\ yyin' = AfterRead(k) /\ out' = out
      BY <1>1, <1>5, <1>8, <1>9, <2>1, <2>5, <2>11
    <3>2. g'.n_chars = n2 /\ g'.more_len = more
      BY <1>1, <2>1, <2>5, <3>1 DEF GlobalsShape
    <3>3. Marked(r.b.ch_buf, r.b.buf_size, n2)
      BY <2>1, <2>5
    <3>4. n2 \in more .. n2
      BY <1>5, <2>6, <3>0
    <3>5. l'.bp = more
      BY <1>4, <2>7, <3>1, <3>3, <3>4, ReplayIs
    <3>6. Unread' = Unread /\ UNCHANGED Lex!absvars
      BY <2>9, <2>11, <3>1, <3>2, <3>5
    <3>7. Finds(l', Unread', b'.ch_buf)
      <4>1. \A x : Finds(Replay(r.b.ch_buf, more, n2), Word(r.b.ch_buf, more, n2, cur2), x)
        BY <1>4, <2>7, <3>0, <3>3, LastMatch
      <4> QED
        BY <2>8, <2>11, <3>1, <3>6, <4>1
    <3>8. Pending'
      BY <3>0, <3>1 DEF Pending
    <3> QED
      BY <1>2, <3>1, <3>6, <3>7, <3>8, KnowingNext
  <2>12. CASE r.ret = "END_OF_FILE"
    <3>1. k = 0 /\ move = more
      BY <1>1, <2>1, <2>12
    <3>2. bp = n
      BY <1>1, <1>3, <1>5, <3>1
    <3>3. r.g.text_ptr + more = r.g.n_chars /\ r.g.n_chars \in Nat
      BY <1>5, <2>1, <3>1
    <3> QED
      BY <1>3, <1>11, <1>15, <1>16, <2>1, <2>2, <2>12, <3>1, <3>2, <3>3
  <2> QED
    BY <2>1, <2>10, <2>11, <2>12
<1>17. CASE ~b.fill
  <2>1. k = 0 /\ AfterRead(k) = yyin
    BY <1>17 DEF Reads, AfterRead, CanRead
  <2>2. yyin.cur = <<>> /\ yyin.next = <<>> /\ cur = <<>>
    BY <1>4, <1>11, <1>17 DEF Over
  <2>3. r = [ret |-> IF g.c_buf_p - g.text_ptr - g.more_len = 1 THEN "END_OF_FILE" ELSE "LAST_MATCH",
             b |-> b, g |-> g]
    <3>1. ~(g.c_buf_p > g.n_chars + 1)
      BY <1>1, <1>5, <1>6
    <3> QED
      BY Zenon, <1>9, <1>17, <3>1 DEF NextBuffer
  <2>4. r.b = b /\ r.g = g /\ r.g.text_ptr + g.more_len = bp
    BY <1>1, <1>3, <2>3
  <2>5. CASE g.c_buf_p - g.text_ptr - g.more_len = 1
    <3>1. r.ret = "END_OF_FILE"
      BY <2>3, <2>5
    <3>2. bp = n
      BY <1>1, <1>3, <1>5, <1>6, <2>5
    <3>3. r.g.text_ptr + more = r.g.n_chars /\ r.g.n_chars \in Nat
      BY <1>1, <1>5, <2>4, <3>2
    <3> QED
      BY <1>3, <1>4, <1>15, <1>17, <2>1, <2>2, <2>4, <3>1, <3>2, <3>3
  <2>6. CASE g.c_buf_p - g.text_ptr - g.more_len # 1
    <3>1. r.ret = "LAST_MATCH"
      BY <2>3, <2>6
    <3>2. /\ b' = b /\ g' = [g EXCEPT !.c_buf_p = n] /\ l' = Replay(b.ch_buf, bp, n)
          /\ pc' = "find" /\ yyin' = yyin /\ out' = out
      BY <1>1, <1>8, <1>9, <2>1, <2>4, <3>1
    <3>3. bp < n
      BY <1>1, <1>3, <1>5, <1>6, <2>6
    <3>4. g'.n_chars = n /\ g'.more_len = more
      BY <1>1, <1>4, <3>2 DEF GlobalsShape
    <3>5. n \in bp .. n
      BY <1>5, <3>3
    <3>6. l'.bp = bp
      BY <1>3, <1>4, <3>2, <3>5, ReplayIs
    <3>7. Unread' = Unread
      BY <1>11, <1>12, <1>13, <3>2, <3>4, <3>6
    <3>8. UNCHANGED Lex!absvars
      BY <1>1, <1>2, <1>6, <3>2, <3>4, <3>6, <3>7, GoesOn
    <3>9. Finds(l', Unread', b'.ch_buf)
      <4>1. \A x : Finds(Replay(b.ch_buf, bp, n), Word(b.ch_buf, bp, n, cur), x)
        BY <1>3, <1>4, <2>2, <3>3, LastMatch
      <4> QED
        BY <1>12, <3>2, <3>7, <4>1
    <3>10. Pending'
      BY <2>2, <3>2 DEF Pending
    <3> QED
      BY <1>2, <3>2, <3>8, <3>9, <3>10, KnowingNext
  <2> QED
    BY <2>5, <2>6
<1> QED
  BY <1>16, <1>17

\* The scanner is called again at the end of the input.
LEMMA CallAgainLexes == ASSUME IInv, Knowing, CallAgain PROVE Lex!CallAgain /\ Knowing'
<1>1. pc = "eof" /\ pc' = "start" /\ UNCHANGED <<mode, yyin, b, g, l, out>>
  BY DEF CallAgain, Kept
<1>2. Clean' = Clean /\ TokenStart' = TokenStart
  BY <1>1 DEF Clean, Restored, TokenStart
<1>3. Unread' = Unread
  BY <1>1, <1>2 DEF Unread
<1>4. /\ Carry' = Carry /\ ActionText' = ActionText /\ MoreCalled' = MoreCalled
      /\ Phase = "eof" /\ Phase' = "scan"
  BY <1>1 DEF IInv, Phases, AtEof, Carry, ActionText, MoreCalled, Phase
<1>5. Pending'
  BY <1>1 DEF Knowing, Pending
<1>6. Knowing'
  BY <1>1, <1>5, KnowingNext
<1> QED
  BY <1>1, <1>3, <1>4, <1>6 DEF Lex!CallAgain

\* Nothing happens.
LEMMA StutterLexes == ASSUME Knowing, UNCHANGED vars PROVE UNCHANGED Lex!absvars /\ Knowing'
<1>1. UNCHANGED <<mode, yyin, b, g, l, pc, out>>
  BY DEF vars
<1>2. Clean' = Clean /\ TokenStart' = TokenStart /\ yytext' = yytext
  BY <1>1 DEF Clean, Restored, TokenStart, yytext
<1>3. Unread' = Unread
  BY <1>1, <1>2 DEF Unread
<1>4. Carry' = Carry /\ ActionText' = ActionText /\ MoreCalled' = MoreCalled /\ Phase' = Phase
  BY <1>1, <1>2 DEF Carry, ActionText, MoreCalled, Phase
<1>5. Pending'
  BY <1>1 DEF Knowing, Pending
<1>6. /\ pc' = "match" => Tracks(l', Unread')
      /\ pc' = "find" => Finds(l', Unread', b'.ch_buf)
      /\ pc' = "eob" => b'.ch_buf[l'.cp - 1] = NUL
  BY <1>1, <1>3 DEF Knowing
<1>7. Knowing'
  BY <1>1, <1>5, <1>6, KnowingNext
<1> QED
  BY <1>1, <1>3, <1>4, <1>7 DEF Lex!absvars

\* What there is to match in the buffer that a file starts with, and in memory.
LEMMA InitLexes == ASSUME Init PROVE Lex!Init(input) /\ Knowing
<1> DEFINE C == Seq(Chars)
<1>1. PICK s \in Seq(Chars) : s = Head(input)
  <2>1. \A q \in Seq(C) : q # <<>> => Head(q) \in C
    <3> HIDE DEF C
    <3> QED
      OBVIOUS
  <2>2. input \in Seq(Seq(Chars)) /\ input # <<>>
    BY CharsAssumption DEF Init
  <2> QED
    BY <2>1, <2>2
<1>2. IInv
  BY InitInv
<1>3. /\ pc = "start" /\ out = <<>> /\ yyin.next = Tail(input) /\ ~yyin.eof
      /\ ~g.more_flag /\ g.c_buf_p = 0 /\ g.n_chars = b.n_chars /\ g.hold_char = b.ch_buf[0]
  BY DEF Init
<1>4. \A i \in DOMAIN b.ch_buf : Clean[i] = b.ch_buf[i]
  BY <1>2, <1>3, RestoredIs DEF Clean
<1>5. Unread = Word(Clean, 0, b.n_chars, yyin.cur)
  BY <1>3 DEF Unread, Word, TokenStart
<1>6. PICK source \in Sources :
        /\ yyin = [cur |-> IF source = "file" THEN Head(input) ELSE <<>>,
                   next |-> Tail(input), eof |-> FALSE]
        /\ b = IF source = "file"
               THEN Loaded([i \in 0 .. YY_BUF_SIZE + 1 |-> IF i < 2 THEN NUL ELSE Undef],
                           YY_BUF_SIZE, 0, TRUE)
               ELSE LET t == Head(input)
                    IN  Loaded([i \in 0 .. Len(t) + 1 |-> IF i < Len(t) THEN t[i + 1] ELSE NUL],
                               Len(t), Len(t), FALSE)
  BY DEF Init
<1>7. CASE source = "file"
  <2>1. yyin.cur = s /\ b.n_chars = 0
    BY <1>1, <1>6, <1>7 DEF Loaded
  <2>2. PICK e : e = <<>>
    OBVIOUS
  <2>3. Slice(Clean, 0, 0) = e
    BY <2>2, EmptySlice
  <2>4. Unread = e \o s
    BY <1>5, <2>1, <2>3 DEF Word
  <2>5. e \o s = s
    BY ONLY <2>2, s \in Seq(Chars)
  <2> QED
    BY <1>1, <1>3, <2>4, <2>5 DEF Lex!Init, Carry, ActionText, MoreCalled, Phase, Knowing, Pending
<1>8. CASE source # "file"
  <2>1. PICK m \in Nat : m = Len(s)
    OBVIOUS
  <2>2. PICK ch : ch = [i \in 0 .. m + 1 |-> IF i < m THEN s[i + 1] ELSE NUL]
    OBVIOUS
  <2>3. yyin.cur = <<>> /\ b.ch_buf = ch /\ b.n_chars = m
    BY <1>1, <1>6, <1>8, <2>1, <2>2 DEF Loaded
  <2>4. PICK clean : clean = Clean
    OBVIOUS
  <2>5. \A i \in 0 .. m - 1 : clean[i] = s[i + 1]
    <3>1. \A i \in 0 .. m - 1 : i \in 0 .. m + 1 /\ i < m
      BY <2>1
    <3>2. DOMAIN ch = 0 .. m + 1 /\ \A i \in 0 .. m + 1 : i < m => ch[i] = s[i + 1]
      BY <2>2
    <3>3. \A i \in DOMAIN ch : clean[i] = ch[i]
      BY <1>4, <2>3, <2>4
    <3> QED
      BY <3>1, <3>2, <3>3
  <2>6. \A i \in 1 .. m : s[i] = clean[0 + i - 1]
    <3>1. \A i \in 1 .. m : i - 1 \in 0 .. m - 1 /\ (i - 1) + 1 = i /\ 0 + i - 1 = i - 1
      BY <2>1
    <3> QED
      BY <2>5, <3>1
  <2>7. PICK e \in Seq(Chars) : e = <<>> /\ Len(e) = 0
    <3>1. <<>> \in Seq(Chars) /\ Len(<<>>) = 0
      OBVIOUS
    <3> QED
      BY <3>1
  <2>8. PICK lo \in Nat : lo = 0
    OBVIOUS
  <2>9. Holds(clean, lo, m)
    <3>1. \A i \in 0 .. m - 1 : i + 1 \in 1 .. m
      BY <2>1
    <3>2. \A i \in 1 .. m : s[i] \in Chars
      BY <2>1
    <3> QED
      BY <2>5, <2>8, <3>1, <3>2 DEF Holds
  <2>10. Spells(s, clean, lo, m, e)
    BY <2>1, <2>6, <2>7, <2>8 DEF Spells
  <2>11. Word(clean, lo, m, e) = s
    BY <2>9, <2>10, SameWord
  <2>12. Unread = s
    BY <1>5, <2>3, <2>4, <2>7, <2>8, <2>11
  <2> QED
    BY <1>1, <1>3, <2>12 DEF Lex!Init, Carry, ActionText, MoreCalled, Phase, Knowing, Pending
<1> QED
  BY <1>7, <1>8

\* Every step is one of module Lexer or invisible to it.
LEMMA StepLexes ==
  ASSUME IInv, Knowing, [Next]_vars, NulsSaved
  PROVE  [Lex!Next]_(Lex!absvars) /\ Knowing'
<1>1. CASE UNCHANGED vars
  BY <1>1, StutterLexes
<1>2. CASE StartToken
  BY <1>2, StartTokenLexes
<1>3. CASE Match
  BY <1>3, MatchLexes
<1>4. CASE RuleMatched
  BY <1>4, RuleMatchedLexes DEF Lex!Next
<1>5. CASE EndOfBufferMatched
  BY <1>5, EndOfBufferMatchedLexes
<1>6. CASE ReallyNul
  BY <1>6, ReallyNulLexes
<1>7. CASE Refill
  BY <1>7, RefillLexes DEF Lex!Next
<1>8. CASE \E n \in 0 .. Len(yytext) : Less(n)
  <2>1. PICK n \in 0 .. Len(yytext) : Less(n)
    BY <1>8
  <2>2. Lex!Less(n) /\ Knowing'
    BY <2>1, LessLexes
  <2>3. n \in 0 .. Len(ActionText)
    BY <2>2 DEF Lex!Less
  <2> QED
    BY <2>2, <2>3 DEF Lex!Next
<1>9. CASE More
  BY <1>9, MoreLexes DEF Lex!Next
<1>10. CASE \E c \in Pushable : Unput(c)
  BY <1>10, UnputLexes DEF Lex!Next
<1>11. CASE BeginInput
  BY <1>11, BeginInputLexes DEF Lex!Next
<1>12. CASE InputChar
  BY <1>12, InputCharLexes DEF Lex!Next
<1>13. CASE InputRefill
  BY <1>13, InputRefillLexes DEF Lex!Next
<1>14. CASE Return
  BY <1>14, ReturnLexes DEF Lex!Next
<1>15. CASE CallAgain
  BY <1>15, CallAgainLexes DEF Lex!Next
<1>16. CASE Terminated
  BY <1>1, <1>16 DEF Terminated
<1> QED
  BY <1>1, <1>2, <1>3, <1>4, <1>5, <1>6, <1>7, <1>8, <1>9, <1>10, <1>11, <1>12, <1>13, <1>14,
     <1>15, <1>16 DEF Next

\* However the reads cut the input and the buffer ends, however the matching
\* loop backs up and the actions call yyless, yymore, unput and input, each
\* scanner behaves as module Lexer says: its tokens are the longest matches of
\* the input, in order, a NUL is a character like any other, and each end of
\* file comes after the last of its segment.  Scanners with a yy_NUL_trans
\* beside compressed tables are left out: they lose the match before a NUL.
THEOREM ScansAsPromised ==
  ASSUME ~MoreAtEof, ~InputAtEof, NulsSaved PROVE Spec => LexerSpec
<1>1. Init => IInv /\ Knowing /\ Lex!Init(input)
  BY InitInv, InitLexes
<1>2. IInv /\ Knowing /\ [Next]_vars => IInv' /\ Knowing' /\ [Lex!Next]_(Lex!absvars)
  BY StepInv, StepLexes
<1> QED
  BY <1>1, <1>2, PTL DEF Spec, LexerSpec

----------------------------------------------------------------------------
(* The count of the lines.                                                 *)

\* Where the newlines of a sequence are.
NewlinesOf(s) == {i \in DOMAIN s : s[i] = NL}

\* A sequence has a number of newlines.
LEMMA NewlinesAre ==
  ASSUME NEW s \in Seq(Chars)
  PROVE  /\ IsFiniteSet(NewlinesOf(s)) /\ Newlines(s) = Cardinality(NewlinesOf(s))
         /\ Newlines(s) \in Nat
<1>1. DOMAIN s = 1 .. Len(s) /\ Len(s) \in Nat
  OBVIOUS
<1>2. IsFiniteSet(1 .. Len(s))
  BY <1>1, FS_Interval
<1>3. NewlinesOf(s) \in SUBSET (1 .. Len(s))
  BY <1>1 DEF NewlinesOf
<1>4. IsFiniteSet(NewlinesOf(s))
  BY <1>2, <1>3, FS_Subset
<1>5. Cardinality(NewlinesOf(s)) \in Nat
  BY <1>4, FS_CardinalityType
<1> QED
  BY <1>4, <1>5 DEF Newlines, NewlinesOf

\* The newlines of two sequences, one behind the other, add up.
LEMMA NewlinesAdd ==
  ASSUME NEW s \in Seq(Chars), NEW t \in Seq(Chars)
  PROVE  s \o t \in Seq(Chars) /\ Newlines(s \o t) = Newlines(s) + Newlines(t)
<1>1. PICK u : u = s \o t
  OBVIOUS
<1>2. PICK m \in Nat : m = Len(s)
  OBVIOUS
<1>3. PICK n \in Nat : n = Len(t)
  OBVIOUS
<1>4. /\ u \in Seq(Chars) /\ Len(u) = m + n
      /\ \A i \in 1 .. m + n : u[i] = IF i <= m THEN s[i] ELSE t[i - m]
  BY <1>1, <1>2, <1>3, ConcatProperties
<1>5. DOMAIN s = 1 .. m /\ DOMAIN t = 1 .. n /\ DOMAIN u = 1 .. m + n
  BY <1>2, <1>3, <1>4
<1> DEFINE A == NewlinesOf(s)
           B == NewlinesOf(t)
           Z == {i \in m + 1 .. m + n : u[i] = NL}
<1>6. A \subseteq 1 .. m /\ \A i \in 1 .. m : i \in A <=> s[i] = NL
  BY <1>5 DEF NewlinesOf
<1>7. B \subseteq 1 .. n /\ \A i \in 1 .. n : i \in B <=> t[i] = NL
  BY <1>5 DEF NewlinesOf
<1>8. NewlinesOf(u) = A \cup Z
  <2>1. NewlinesOf(u) = {i \in 1 .. m + n : u[i] = NL}
    BY <1>5 DEF NewlinesOf
  <2>2. ASSUME NEW i \in 1 .. m PROVE u[i] = s[i] /\ i \in 1 .. m + n /\ i \notin m + 1 .. m + n
    BY <1>4
  <2>3. 1 .. m + n = (1 .. m) \cup (m + 1 .. m + n)
    OBVIOUS
  <2> HIDE DEF A
  <2> QED
    BY <1>6, <2>1, <2>2, <2>3
<1>9. A \cap Z = {}
  BY <1>6
<1>10. ExistsBijection(B, Z)
  <2> DEFINE f == [j \in B |-> m + j]
  <2>1. ASSUME NEW j \in B PROVE m + j \in Z
    <3>1. j \in 1 .. n /\ t[j] = NL
      BY <1>7
    <3>2. m + j \in 1 .. m + n /\ ~(m + j <= m) /\ (m + j) - m = j /\ m + j \in m + 1 .. m + n
      BY <3>1
    <3> QED
      BY <1>4, <3>1, <3>2
  <2>2. ASSUME NEW i \in Z PROVE i - m \in B /\ m + (i - m) = i
    <3>1. i \in 1 .. m + n /\ ~(i <= m) /\ i - m \in 1 .. n /\ m + (i - m) = i /\ u[i] = NL
      OBVIOUS
    <3>2. t[i - m] = NL
      BY <1>4, <3>1
    <3> QED
      BY <1>7, <3>1, <3>2
  <2>3. ASSUME NEW j \in B, NEW k \in B, m + j = m + k PROVE j = k
    BY <1>7, <2>3
  <2> HIDE DEF B, Z
  <2>4. f \in Injection(B, Z)
    BY <2>1, <2>3 DEF Injection, IsInjective
  <2>5. f \in Surjection(B, Z)
    BY <2>1, <2>2 DEF Surjection
  <2> QED
    BY <2>4, <2>5 DEF ExistsBijection, Bijection
<1>11. IsFiniteSet(A) /\ IsFiniteSet(B) /\ Newlines(s) = Cardinality(A) /\ Newlines(t) = Cardinality(B)
       /\ Newlines(s) \in Nat /\ Newlines(t) \in Nat
  BY NewlinesAre
<1> HIDE DEF A, B, Z
<1>12. IsFiniteSet(Z) /\ Cardinality(Z) = Cardinality(B)
  BY <1>10, <1>11, FS_Bijection
<1>13. Cardinality(A \cup Z) = Cardinality(A) + Cardinality(Z) - Cardinality(A \cap Z)
  BY <1>11, <1>12, FS_Union
<1>14. Cardinality(A \cap Z) = 0
  BY <1>9, FS_EmptySet
<1>15. Newlines(u) = Cardinality(A \cup Z)
  BY <1>4, <1>8, NewlinesAre
<1> QED
  BY <1>1, <1>4, <1>11, <1>12, <1>13, <1>14, <1>15

\* No character and one character.
LEMMA NewlinesOne ==
  /\ Newlines(<<>>) = 0
  /\ \A c \in Chars : <<c>> \in Seq(Chars) /\ Newlines(<<c>>) = IF c = NL THEN 1 ELSE 0
<1>1. Newlines(<<>>) = 0
  <2>1. {i \in DOMAIN <<>> : <<>>[i] = NL} = {}
    OBVIOUS
  <2> QED
    BY <2>1, FS_EmptySet DEF Newlines
<1>2. ASSUME NEW c \in Chars PROVE <<c>> \in Seq(Chars) /\ Newlines(<<c>>) = IF c = NL THEN 1 ELSE 0
  <2>1. <<c>> \in Seq(Chars) /\ DOMAIN <<c>> = {1} /\ <<c>>[1] = c
    OBVIOUS
  <2>2. {i \in DOMAIN <<c>> : <<c>>[i] = NL} = IF c = NL THEN {1} ELSE {}
    BY <2>1
  <2>3. Cardinality({1}) = 1 /\ Cardinality({}) = 0
    BY FS_Singleton, FS_EmptySet
  <2> QED
    BY <2>1, <2>2, <2>3 DEF Newlines
<1> QED
  BY <1>1, <1>2

\* The first character, and the others.
LEMMA NewlinesHead ==
  ASSUME NEW s \in Seq(Chars), s # <<>>
  PROVE  /\ Tail(s) \in Seq(Chars)
         /\ Newlines(s) = Newlines(Tail(s)) + (IF Head(s) = NL THEN 1 ELSE 0)
<1>1. /\ Head(s) \in Chars /\ Tail(s) \in Seq(Chars) /\ Len(Tail(s)) = Len(s) - 1
      /\ \A i \in 1 .. Len(Tail(s)) : Tail(s)[i] = s[i + 1]
  BY HeadTailProperties
<1>2. PICK c \in Chars : c = Head(s)
  BY <1>1
<1>3. PICK t \in Seq(Chars) : t = Tail(s)
  BY <1>1
<1>4. PICK o \in Seq(Chars) : o = <<c>>
  BY NewlinesOne
<1>5. s = o \o t
  <2>1. Len(o) = 1 /\ o[1] = c /\ s[1] = c /\ Len(s) \in Nat /\ Len(t) \in Nat
    BY <1>2, <1>4
  <2>2. /\ o \o t \in Seq(Chars) /\ Len(o \o t) = 1 + Len(t)
        /\ \A i \in 1 .. 1 + Len(t) : (o \o t)[i] = IF i <= 1 THEN o[i] ELSE t[i - 1]
    <3>1. /\ o \o t \in Seq(Chars) /\ Len(o \o t) = Len(o) + Len(t)
          /\ \A i \in 1 .. Len(o) + Len(t) : (o \o t)[i] = IF i <= Len(o) THEN o[i] ELSE t[i - Len(o)]
      BY ConcatProperties
    <3> QED
      BY <2>1, <3>1
  <2>3. PICK v \in Seq(Chars) : v = o \o t
    BY <2>2
  <2>4. Len(v) = Len(s)
    BY <1>1, <1>3, <2>1, <2>2, <2>3
  <2>5. ASSUME NEW i \in 1 .. Len(s) PROVE v[i] = s[i]
    <3>1. CASE i = 1
      BY <1>1, <1>3, <2>1, <2>2, <2>3, <3>1
    <3>2. CASE i # 1
      <4>1. i - 1 \in 1 .. Len(t) /\ (i - 1) + 1 = i /\ i \in 1 .. 1 + Len(t) /\ ~(i <= 1)
        BY <1>1, <1>3, <2>1, <3>2
      <4> QED
        BY <1>1, <1>3, <2>2, <2>3, <4>1
    <3> QED
      BY <3>1, <3>2
  <2>6. v = s
    BY ONLY <2>4, <2>5, v \in Seq(Chars), s \in Seq(Chars), SeqEqual
  <2> QED
    BY <2>3, <2>6
<1>6. Newlines(o \o t) = Newlines(o) + Newlines(t)
  BY NewlinesAdd
<1>7. Newlines(o) = IF c = NL THEN 1 ELSE 0
  BY <1>4, NewlinesOne
<1>8. Newlines(t) \in Nat
  BY NewlinesAre
<1>9. Newlines(s) = Newlines(t) + (IF c = NL THEN 1 ELSE 0)
  BY <1>5, <1>6, <1>7, <1>8
<1> QED
  BY <1>1, <1>2, <1>3, <1>9

\* The first n characters, and the others.
LEMMA NewlinesDrop ==
  ASSUME NEW s \in Seq(Chars), NEW n \in 0 .. Len(s)
  PROVE  /\ SubSeq(s, 1, n) \in Seq(Chars) /\ Lex!Drop(s, n) \in Seq(Chars)
         /\ Newlines(s) = Newlines(SubSeq(s, 1, n)) + Newlines(Lex!Drop(s, n))
<1>1. n \in Nat /\ Len(s) \in Nat /\ n <= Len(s)
  OBVIOUS
<1>2. PICK u, v : u = SubSeq(s, 1, n) /\ v = SubSeq(s, n + 1, Len(s))
  OBVIOUS
<1>3. u \in Seq(Chars) /\ Len(u) = n /\ \A i \in 1 .. n : u[i] = s[i]
  BY <1>2, PartsOf
<1>4. /\ v \in Seq(Chars) /\ Len(v) = Len(s) - n
      /\ \A i \in 1 .. Len(s) - n : v[i] = s[n + i]
  BY <1>2, PartsOf
<1>5. PICK w : w = u \o v
  OBVIOUS
<1>6. /\ w \in Seq(Chars) /\ Len(w) = n + (Len(s) - n)
      /\ \A i \in 1 .. n + (Len(s) - n) : w[i] = IF i <= n THEN u[i] ELSE v[i - n]
  <2>1. /\ u \o v \in Seq(Chars) /\ Len(u \o v) = Len(u) + Len(v)
        /\ \A i \in 1 .. Len(u) + Len(v) : (u \o v)[i] = IF i <= Len(u) THEN u[i] ELSE v[i - Len(u)]
    BY <1>3, <1>4, ConcatProperties
  <2> QED
    BY <1>3, <1>4, <1>5, <2>1
<1>7. Len(w) = Len(s)
  BY <1>1, <1>6
<1>8. ASSUME NEW i \in 1 .. Len(s) PROVE w[i] = s[i]
  <2>1. i \in 1 .. n + (Len(s) - n) /\ (i <= n => i \in 1 .. n)
        /\ (~(i <= n) => i - n \in 1 .. Len(s) - n /\ n + (i - n) = i)
    BY <1>1
  <2> QED
    BY <1>3, <1>4, <1>6, <2>1
<1>9. w = s
  BY ONLY <1>6, <1>7, <1>8, s \in Seq(Chars), SeqEqual
<1>10. Newlines(s) = Newlines(u) + Newlines(v)
  <2>1. Newlines(u \o v) = Newlines(u) + Newlines(v)
    BY <1>3, <1>4, NewlinesAdd
  <2> QED
    BY <1>5, <1>9, <2>1
<1> QED
  BY <1>2, <1>3, <1>4, <1>10 DEF Lex!Drop

\* f holds what the first segments are together.
Flattens(f, segs) ==
  /\ f \in [1 .. Len(segs) -> Seq(Chars)] /\ f[1] = segs[1]
  /\ \A i \in 1 + 1 .. Len(segs) : f[i] = f[i - 1] \o segs[i]

\* FlattenSeq() is the last value of its recursive function.
LEMMA FlattenIs ==
  ASSUME NEW segs \in Seq(Seq(Chars)), segs # <<>>
  PROVE  \E f : Flattens(f, segs) /\ FlattenSeq(segs) = f[Len(segs)]
<1>1. PICK n \in Nat : n = Len(segs)
  OBVIOUS
<1>2. n >= 1 /\ \A i \in 1 .. n : segs[i] \in Seq(Chars)
  BY <1>1
<1> DEFINE Whole(f) == f = [i \in 1 .. Len(segs) |-> IF i = 1 THEN segs[i] ELSE f[i - 1] \o segs[i]]
<1>3. \E f : Whole(f)
  <2>1. PICK G : G = [x \in (1 .. n) \X Seq(Chars) |-> x[2] \o segs[x[1]]]
    OBVIOUS
  <2>2. \A i \in 1 .. n : \A s \in Seq(Chars) : G[<<i, s>>] = s \o segs[i]
    <3>1. ASSUME NEW i \in 1 .. n, NEW s \in Seq(Chars) PROVE G[<<i, s>>] = s \o segs[i]
      <4>1. <<i, s>> \in (1 .. n) \X Seq(Chars) /\ <<i, s>>[1] = i /\ <<i, s>>[2] = s
        OBVIOUS
      <4> QED
        BY <2>1, <4>1
    <3> QED
      BY <3>1
  <2>3. G \in [(1 .. n) \X Seq(Chars) -> Seq(Chars)]
    <3>1. ASSUME NEW x \in (1 .. n) \X Seq(Chars) PROVE x[2] \o segs[x[1]] \in Seq(Chars)
      <4>1. x[2] \in Seq(Chars) /\ segs[x[1]] \in Seq(Chars)
        BY <1>2
      <4> QED
        BY <4>1, NewlinesAdd
    <3> QED
      BY <2>1, <3>1
  <2>4. PICK a \in Int : a = 1
    OBVIOUS
  <2>5. PICK init \in Seq(Chars) : init = segs[1]
    BY <1>2
  <2>6. PICK f \in [a .. n -> Seq(Chars)] : Recursion(f, a, n, init, G)
    <3>1. G \in [(a .. n) \X Seq(Chars) -> Seq(Chars)] /\ a <= n /\ n \in Int
      BY <1>2, <2>3, <2>4
    <3> QED
      BY <3>1, RecursionIs
  <2>7. f = [i \in 1 .. n |-> IF i = 1 THEN init ELSE G[<<i, f[i - 1]>>]]
    BY <2>4, <2>6 DEF Recursion
  <2>8. ASSUME NEW i \in 1 .. n
        PROVE  (IF i = 1 THEN init ELSE G[<<i, f[i - 1]>>]) = (IF i = 1 THEN segs[i] ELSE f[i - 1] \o segs[i])
    <3>1. CASE i = 1
      BY <2>5, <3>1
    <3>2. CASE i # 1
      <4>1. i - 1 \in a .. n
        BY <2>4, <3>2
      <4>2. f[i - 1] \in Seq(Chars)
        BY <2>6, <4>1
      <4> QED
        BY <2>2, <3>2, <4>2
    <3> QED
      BY <3>1, <3>2
  <2>9. f = [i \in 1 .. n |-> IF i = 1 THEN segs[i] ELSE f[i - 1] \o segs[i]]
    BY <2>7, <2>8
  <2> QED
    BY <1>1, <2>9
<1>4. PICK f : f = CHOOSE x : Whole(x)
  OBVIOUS
<1>5. FlattenSeq(segs) = f[n]
  <2>1. Len(segs) # 0
    BY <1>1, <1>2
  <2> QED
    BY <1>1, <1>4, <2>1 DEF FlattenSeq
<1>6. Whole(f)
  BY <1>3, <1>4
<1>7. f = [i \in 1 .. n |-> IF i = 1 THEN segs[i] ELSE f[i - 1] \o segs[i]]
  BY <1>1, <1>6
<1> HIDE DEF Whole
<1>8. f[1] = segs[1] /\ DOMAIN f = 1 .. n
  BY <1>2, <1>7
<1>9. ASSUME NEW i \in 1 + 1 .. n PROVE f[i] = f[i - 1] \o segs[i]
  <2>1. i \in 1 .. n /\ i # 1
    OBVIOUS
  <2> QED
    BY <1>7, <2>1
<1>10. \A i \in 1 .. n : f[i] \in Seq(Chars)
  <2>1. PICK a \in Int : a = 1
    OBVIOUS
  <2>2. f[a] \in Seq(Chars)
    BY <1>2, <1>8, <2>1
  <2>3. ASSUME NEW i \in a + 1 .. n, f[i - 1] \in Seq(Chars) PROVE f[i] \in Seq(Chars)
    <3>1. i \in 1 + 1 .. n /\ i \in 1 .. n
      BY <2>1
    <3>2. segs[i] \in Seq(Chars) /\ f[i] = f[i - 1] \o segs[i]
      BY <1>2, <1>9, <3>1
    <3> QED
      BY <2>3, <3>2, NewlinesAdd
  <2>4. n \in Int
    OBVIOUS
  <2>5. \A i \in a .. n : f[i] \in Seq(Chars)
    BY <2>2, <2>3, <2>4, PassedOn
  <2> QED
    BY <2>1, <2>5
<1>11. f = [i \in 1 .. n |-> f[i]]
  BY <1>7, <1>8
<1>12. f \in [1 .. n -> Seq(Chars)]
  BY <1>10, <1>11
<1> QED
  BY <1>1, <1>5, <1>8, <1>9, <1>12 DEF Flattens

\* The newlines of what is still to be scanned after the current segment.
LinesIn(segs) == Newlines(FlattenSeq(segs))

\* The first segment, and the others.
LEMMA LinesOf ==
  ASSUME NEW segs \in Seq(Seq(Chars))
  PROVE  /\ LinesIn(segs) \in Nat
         /\ segs # <<>> => LinesIn(segs) = Newlines(Head(segs)) + LinesIn(Tail(segs))
<1>1. CASE segs = <<>>
  <2>1. Len(segs) = 0
    BY <1>1
  <2>2. FlattenSeq(segs) = <<>>
    BY <1>1, <2>1 DEF FlattenSeq
  <2> QED
    BY <1>1, <2>2, NewlinesOne DEF LinesIn
<1>2. CASE segs # <<>>
  <2>1. /\ Head(segs) \in Seq(Chars) /\ Tail(segs) \in Seq(Seq(Chars)) /\ Len(Tail(segs)) = Len(segs) - 1
        /\ \A i \in 1 .. Len(Tail(segs)) : Tail(segs)[i] = segs[i + 1]
    BY <1>2, HeadTailProperties
  <2>2. PICK t \in Seq(Seq(Chars)) : t = Tail(segs)
    BY <2>1
  <2>3. PICK n \in Nat : n = Len(t)
    OBVIOUS
  <2>4. Len(segs) = n + 1 /\ Head(segs) = segs[1] /\ \A i \in 1 .. n : t[i] = segs[i + 1]
    BY <1>2, <2>1, <2>2, <2>3
  <2>5. PICK f : Flattens(f, segs) /\ FlattenSeq(segs) = f[n + 1]
    BY <1>2, <2>4, FlattenIs
  <2>6. PICK h : h = segs[1]
    OBVIOUS
  <2>7. h \in Seq(Chars) /\ f[1] = h /\ f[n + 1] \in Seq(Chars)
    <3>1. 1 \in 1 .. n + 1 /\ n + 1 \in 1 .. n + 1
      BY <2>3
    <3> QED
      BY <2>1, <2>4, <2>5, <2>6, <3>1 DEF Flattens
  <2>8. CASE t = <<>>
    <3>1. n = 0 /\ FlattenSeq(t) = <<>>
      BY <2>3, <2>8 DEF FlattenSeq
    <3>2. FlattenSeq(segs) = h
      BY <2>5, <2>7, <3>1
    <3> QED
      BY <2>2, <2>4, <2>6, <2>7, <3>1, <3>2, NewlinesOne, NewlinesAre DEF LinesIn
  <2>9. CASE t # <<>>
    <3>1. PICK e : Flattens(e, t) /\ FlattenSeq(t) = e[n]
      BY <2>3, <2>9, FlattenIs
    <3>2. n >= 1
      BY <2>3, <2>9
    <3>3. \A i \in 1 .. n : e[i] \in Seq(Chars) /\ f[i] \in Seq(Chars) /\ f[i + 1] \in Seq(Chars)
                            /\ t[i] \in Seq(Chars)
      <4>1. ASSUME NEW i \in 1 .. n PROVE i \in 1 .. n + 1 /\ i + 1 \in 1 .. n + 1
        OBVIOUS
      <4> QED
        <5>1. e \in [1 .. n -> Seq(Chars)]
          BY <2>3, <3>1 DEF Flattens
        <5>2. f \in [1 .. n + 1 -> Seq(Chars)]
          BY <2>4, <2>5 DEF Flattens
        <5>3. t \in [1 .. n -> Seq(Chars)]
          BY <2>3
        <5> QED
          BY <4>1, <5>1, <5>2, <5>3
    <3> DEFINE Same(i) == Newlines(f[i + 1]) = Newlines(h) + Newlines(e[i])
    <3>4. Same(1)
      <4>1. 1 + 1 \in 1 + 1 .. n + 1 /\ 1 \in 1 .. n /\ (1 + 1) - 1 = 1
        BY <3>2
      <4>2. f[1 + 1] = f[(1 + 1) - 1] \o segs[1 + 1]
        BY <2>4, <2>5, <4>1 DEF Flattens
      <4>3. e[1] = segs[1 + 1]
        BY <2>4, <3>1, <4>1 DEF Flattens
      <4>4. f[1 + 1] = h \o e[1]
        BY <2>7, <4>1, <4>2, <4>3
      <4>5. e[1] \in Seq(Chars)
        BY <3>3, <4>1
      <4> QED
        BY <2>7, <4>4, <4>5, NewlinesAdd
    <3>5. ASSUME NEW i \in 1 + 1 .. n, Same(i - 1) PROVE Same(i)
      <4>1. i \in 1 .. n /\ i - 1 \in 1 .. n /\ i + 1 \in 1 + 1 .. n + 1 /\ (i + 1) - 1 = i /\ (i - 1) + 1 = i
        OBVIOUS
      <4>2. f[i + 1] = f[i] \o t[i]
        BY <2>4, <2>5, <4>1 DEF Flattens
      <4>3. e[i] = e[i - 1] \o t[i]
        BY <2>3, <3>1 DEF Flattens
      <4>4. Newlines(f[i + 1]) = Newlines(f[i]) + Newlines(t[i])
        BY <3>3, <4>1, <4>2, NewlinesAdd
      <4>5. Newlines(e[i]) = Newlines(e[i - 1]) + Newlines(t[i])
        BY <3>3, <4>1, <4>3, NewlinesAdd
      <4>6. Newlines(f[i]) = Newlines(h) + Newlines(e[i - 1])
        BY <3>5, <4>1
      <4>7. /\ Newlines(h) \in Nat /\ Newlines(e[i - 1]) \in Nat /\ Newlines(t[i]) \in Nat
        BY <2>7, <3>3, <4>1, NewlinesAre
      <4> QED
        BY <4>4, <4>5, <4>6, <4>7
    <3>6. Same(n)
      <4> HIDE DEF Same
      <4>1. PICK F : F = [i \in 1 .. n |-> Same(i)]
        OBVIOUS
      <4>2. PICK a \in Int : a = 1
        OBVIOUS
      <4>7. PICK S : S = {TRUE}
        OBVIOUS
      <4>3. F[a] \in S
        <5>1. 1 \in 1 .. n
          BY <3>2
        <5> QED
          BY <3>4, <4>1, <4>2, <4>7, <5>1
      <4>4. ASSUME NEW i \in a + 1 .. n, F[i - 1] \in S PROVE F[i] \in S
        <5>1. i \in 1 + 1 .. n /\ i \in 1 .. n /\ i - 1 \in 1 .. n
          BY <4>2
        <5>2. Same(i - 1)
          BY <4>1, <4>4, <4>7, <5>1
        <5> QED
          BY <3>5, <4>1, <4>7, <5>1, <5>2
      <4>5. \A i \in a .. n : F[i] \in S
        <5>1. n \in Int
          BY <2>3
        <5> QED
          BY <4>3, <4>4, <5>1, PassedOn
      <4>6. n \in a .. n /\ n \in 1 .. n
        BY <3>2, <4>2
      <4> QED
        BY <4>1, <4>5, <4>6, <4>7
    <3>7. n \in 1 .. n
      BY <3>2
    <3>8. Newlines(h) \in Nat /\ Newlines(e[n]) \in Nat
      BY <2>7, <3>3, <3>7, NewlinesAre
    <3> QED
      BY <2>2, <2>4, <2>5, <2>6, <3>1, <3>6, <3>8 DEF LinesIn
  <2> QED
    BY <2>8, <2>9
<1> QED
  BY <1>1, <1>2

\* A match of a rule whose has_nl is not set has no newline.
LEMMA OtherRulesMatchNone ==
  ASSUME NewlineRulesKnown, NEW W \in Seq(Chars), NEW n \in 1 .. Len(W), Lex!Accepted(W, n),
         ~CanMatchEol(Accept[Lex!Reached(W, n)])
  PROVE  Newlines(SubSeq(W, 1, n)) = 0
<1>1. PICK seen \in SUBSET DOMAIN Delta :
        \A s \in DOMAIN Delta :
          /\ s \in seen => Accept[s] = 0 \/ CanMatchEol(Accept[s])
          /\ \A c \in Chars : c = NL \/ s \in seen => Delta[s][c] \in seen \cup {Jam}
  BY DEF NewlineRulesKnown
<1>2. PICK m \in Nat : m = Len(W)
  OBVIOUS
<1>3. n \in 1 .. m /\ \A i \in 1 .. m : W[i] \in Chars
  BY <1>2
<1>4. /\ \A i \in 0 .. m : Lex!Reached(W, i) \in DOMAIN Delta \cup {Jam}
      /\ \A i \in 1 .. m : Lex!Reached(W, i) = IF Lex!Reached(W, i - 1) = Jam THEN Jam
                                              ELSE Delta[Lex!Reached(W, i - 1)][W[i]]
  BY <1>2, ReachedSteps DEF States
<1>5. PICK S : S = seen \cup {Jam}
  OBVIOUS
<1>6. ASSUME NEW i \in 1 .. m,
             W[i] = NL \/ Lex!Reached(W, i - 1) \in S
      PROVE  Lex!Reached(W, i) \in S
  <2>1. i - 1 \in 0 .. m
    OBVIOUS
  <2> QED
    BY <1>1, <1>3, <1>4, <1>5, <1>6, <2>1
<1>7. ASSUME NEW i \in 1 .. n, W[i] = NL PROVE FALSE
  <2>1. i \in 1 .. m /\ i \in Int /\ n \in Int /\ i \in i .. n /\ n \in i .. n
    BY <1>3
  <2>2. PICK f : f = [k \in i .. n |-> Lex!Reached(W, k)]
    OBVIOUS
  <2>3. f[i] \in S
    BY <1>6, <1>7, <2>1, <2>2
  <2>4. ASSUME NEW k \in i + 1 .. n, f[k - 1] \in S PROVE f[k] \in S
    <3>1. k \in 1 .. m /\ k - 1 \in i .. n /\ k \in i .. n
      BY <1>3
    <3> QED
      BY <1>6, <2>2, <2>4, <3>1
  <2>5. \A k \in i .. n : f[k] \in S
    BY <2>1, <2>3, <2>4, PassedOn
  <2>6. Lex!Reached(W, n) \in S
    BY <2>1, <2>2, <2>5
  <2>7. Lex!Reached(W, n) # 0 /\ Accept[Lex!Reached(W, n)] # 0
    BY DEF Lex!Accepted
  <2>8. Lex!Reached(W, n) \in seen /\ Lex!Reached(W, n) \in DOMAIN Delta
    BY <1>5, <2>6, <2>7 DEF Jam
  <2> QED
    BY <1>1, <2>7, <2>8
<1>8. PICK u : u = SubSeq(W, 1, n)
  OBVIOUS
<1>9. u \in Seq(Chars) /\ Len(u) = n /\ \A i \in 1 .. n : u[i] = W[i]
  <2>1. n \in 0 .. Len(W)
    OBVIOUS
  <2> QED
    BY <1>8, <2>1, PartsOf
<1>10. NewlinesOf(u) = {}
  BY <1>7, <1>9 DEF NewlinesOf
<1>11. Newlines(u) = 0
  BY <1>9, <1>10, NewlinesAre, FS_EmptySet
<1> QED
  BY <1>8, <1>11

\* yylineno counts what has been read.
Counted ==
  g.lineno \in Int /\ g.lineno + Newlines(Unread) + LinesIn(yyin.next) = 1 + LinesIn(input)

\* The loop leaves yylineno alone between two matches.
LEMMA LoopKeepsLines ==
  ASSUME IInv,
         \/ StartToken \/ Match \/ EndOfBufferMatched \/ ReallyNul \/ Refill
         \/ More \/ BeginInput \/ Return \/ CallAgain
  PROVE  g'.lineno = g.lineno /\ input' = input
<1>1. GlobalsShape(g)
  BY DEF IInv, Shapes
<1>2. input' = input
  BY DEF StartToken, Match, EndOfBufferMatched, ReallyNul, Refill, More, BeginInput, Return, CallAgain, Kept
<1>3. ASSUME StartToken PROVE g'.lineno = g.lineno
  BY <1>1, <1>3 DEF StartToken, GlobalsShape
<1>4. ASSUME EndOfBufferMatched PROVE g'.lineno = g.lineno
  <2> DEFINE d == DoBeforeAction(b, g, l.bp, Found.cp)
  <2>1. "lineno" \in DOMAIN d.g /\ d.g.lineno = g.lineno
    BY <1>1 DEF DoBeforeAction, GlobalsShape
  <2>2. g' = [d.g EXCEPT !.n_chars = IF b.status = "NEW" THEN b.n_chars ELSE @]
    BY <1>4 DEF EndOfBufferMatched
  <2> HIDE DEF d
  <2> QED
    BY <2>1, <2>2
<1>5. ASSUME ReallyNul PROVE g'.lineno = g.lineno
  <2>1. PICK x : g' = [g EXCEPT !.c_buf_p = x]
    BY <1>5 DEF ReallyNul
  <2> QED
    BY <1>1, <2>1 DEF GlobalsShape
<1>6. ASSUME Refill PROVE g'.lineno = g.lineno
  <2>1. PICK k \in Reads(g) :
          LET r == NextBuffer(g, k)
              bp == r.g.text_ptr + g.more_len
              s == AfterRead(k)
          IN  /\ r.ret = "CONTINUE_SCAN" => g' = [r.g EXCEPT !.c_buf_p = r.g.text_ptr + (l.cp - g.text_ptr - 1)]
              /\ r.ret = "LAST_MATCH" => g' = [r.g EXCEPT !.c_buf_p = r.g.n_chars]
              /\ r.ret = "END_OF_FILE" /\ s.next = <<>> => g' = [r.g EXCEPT !.c_buf_p = bp]
              /\ r.ret = "END_OF_FILE" /\ s.next # <<>> => g' = Restart(r.b, r.g).g
              /\ r.ret = "FATAL" => g' = g
    BY <1>6 DEF Refill
  <2>2. PICK r : r = NextBuffer(g, k)
    OBVIOUS
  <2>3. r.g.lineno = g.lineno /\ "lineno" \in DOMAIN r.g /\ Restart(r.b, r.g).g.lineno = g.lineno
    BY <1>1, <2>2, LinesKept
  <2>4. r.ret \in {"CONTINUE_SCAN", "LAST_MATCH", "END_OF_FILE", "FATAL"}
    BY <2>2 DEF NextBuffer
  <2>5. \A x : [r.g EXCEPT !.c_buf_p = x].lineno = g.lineno
    BY <2>3
  <2> QED
    BY <2>1, <2>2, <2>3, <2>4, <2>5
<1>7. ASSUME More PROVE g'.lineno = g.lineno
  BY <1>1, <1>7 DEF More, GlobalsShape
<1>8. ASSUME Match \/ BeginInput \/ Return \/ CallAgain PROVE g'.lineno = g.lineno
  BY <1>8 DEF Match, BeginInput, Return, CallAgain
<1> QED
  BY <1>2, <1>3, <1>4, <1>5, <1>6, <1>7, <1>8

\* The same text, and the same count.
LEMMA SameCount ==
  ASSUME Counted, Unread' = Unread, yyin'.next = yyin.next, input' = input, g'.lineno = g.lineno
  PROVE  Counted'
BY DEF Counted, LinesIn

\* A match counts its newlines.
LEMMA RuleMatchedCounts ==
  ASSUME IInv, Knowing, Counted, RuleMatched, NewlineRulesKnown PROVE Counted'
<1> DEFINE d == DoBeforeAction(b, g, l.bp, Found.cp)
           newlines == IF CanMatchEol(Found.act)
                       THEN MatchedNewlines(b.ch_buf, l.bp, Found.cp) ELSE 0
<1>1. pc = "find" /\ input' = input /\ yyin' = yyin /\ g' = [d.g EXCEPT !.lineno = @ + newlines]
      /\ Found.act # YY_END_OF_BUFFER
  BY DEF RuleMatched, Kept
<1>2. "lineno" \in DOMAIN d.g /\ d.g.lineno = g.lineno
  BY DEF IInv, Shapes, GlobalsShape, DoBeforeAction
<1> HIDE DEF d
<1>3. g'.lineno = g.lineno + newlines
  BY <1>1, <1>2
<1>4. PICK W \in Seq(Chars) : W = Unread
  BY <1>1, UnreadIs
<1>5. PICK bp, cp, n, ch, cur : /\ bp = l.bp /\ cp = Found.cp /\ n = g.n_chars /\ ch = b.ch_buf
                                /\ cur = yyin.cur
  OBVIOUS
<1>6. Found.act \in Rules /\ cp \in bp + 1 .. n
  BY <1>1, <1>5, FoundIs
<1>7. W = Word(ch, bp, n, cur) /\ Holds(ch, bp, n) /\ cur \in Seq(Chars) /\ n \in Nat /\ bp \in Nat
  BY <1>1, <1>4, <1>5, UnreadIs DEF TokenStart, Clean
<1>8. PICK k : k = cp - bp
  OBVIOUS
<1>9. cp \in bp .. n
  BY <1>6, <1>7
<1>10. SubSeq(W, 1, k) = Slice(ch, bp, cp)
  BY <1>7, <1>8, <1>9, SplitWord
<1>11. Longest(W, k) /\ Found.act = Accept[Lex!Reached(W, k)]
  <2>1. Finds(l, Unread, b.ch_buf)
    BY <1>1 DEF Knowing
  <2> QED
    BY <1>4, <1>5, <1>6, <1>8, <2>1 DEF Finds, FoundIn, Found
<1>12. k \in 1 .. Len(W) /\ Lex!Accepted(W, k) /\ k \in 0 .. Len(W)
  BY <1>11 DEF Longest
<1>13. newlines = Newlines(SubSeq(W, 1, k))
  <2>1. CASE CanMatchEol(Found.act)
    BY <1>5, <1>10, <2>1 DEF MatchedNewlines
  <2>2. CASE ~CanMatchEol(Found.act)
    BY <1>11, <1>12, <2>2, OtherRulesMatchNone
  <2> QED
    BY <2>1, <2>2
<1> HIDE DEF newlines
<1>14. Unread' = Lex!Drop(W, k)
  <2>1. Lex!Token
    BY RuleMatchedLexes
  <2>2. Lex!Max(Lex!MatchLengths(W)) = k
    BY <1>11, LongestIs
  <2> QED
    BY <1>4, <2>1, <2>2 DEF Lex!Token
<1>15. /\ SubSeq(W, 1, k) \in Seq(Chars) /\ Lex!Drop(W, k) \in Seq(Chars)
       /\ Newlines(W) = Newlines(SubSeq(W, 1, k)) + Newlines(Lex!Drop(W, k))
  BY <1>12, NewlinesDrop
<1>16. PICK p \in Nat, q \in Nat : p = Newlines(SubSeq(W, 1, k)) /\ q = Newlines(Lex!Drop(W, k))
  BY <1>15, NewlinesAre
<1>17. PICK r \in Nat : r = LinesIn(yyin.next)
  BY LinesOf DEF IInv, Shapes, StreamShape
<1>18. g'.lineno = g.lineno + p /\ Newlines(Unread) = p + q /\ Newlines(Unread') = q
       /\ LinesIn(yyin'.next) = r /\ LinesIn(input') = LinesIn(input)
  BY <1>1, <1>3, <1>4, <1>13, <1>14, <1>15, <1>16, <1>17
<1>19. g.lineno \in Int /\ g.lineno + (p + q) + r = 1 + LinesIn(input)
  BY <1>17, <1>18 DEF Counted
<1>20. g'.lineno \in Int /\ g'.lineno + q + r = 1 + LinesIn(input)
  BY <1>18, <1>19
<1> QED
  BY <1>18, <1>20 DEF Counted, LinesIn

\* yyless() takes back the newlines of what it gives back.
LEMMA LessCounts ==
  ASSUME IInv, Knowing, Counted, NEW n \in 0 .. Len(yytext), Less(n) PROVE Counted'
<1> DEFINE cp == l.bp + n - g.more_len
           d == DoBeforeAction(Restored, g, l.bp, cp)
           back == Newlines(SubSeq(yytext, n + 1, Len(yytext)))
<1>1. pc = "action" /\ l.intact /\ input' = input /\ yyin' = yyin
      /\ g' = [d.g EXCEPT !.lineno = @ - back]
  BY DEF Less, Calls, Kept
<1>2. "lineno" \in DOMAIN d.g /\ d.g.lineno = g.lineno
  BY DEF IInv, Shapes, GlobalsShape, DoBeforeAction
<1> HIDE DEF d
<1>3. g'.lineno = g.lineno - back
  BY <1>1, <1>2
<1>4. PICK t \in Seq(Chars) : t = yytext /\ t = ActionText
  BY <1>1, YytextIs
<1>5. PICK W \in Seq(Chars) : W = Unread
  BY <1>1, UnreadIs
<1>6. n \in 0 .. Len(t)
  BY <1>4
<1>7. Lex!Drop(t, n) \in Seq(Chars)
  BY <1>6, NewlinesDrop
<1>8. back = Newlines(Lex!Drop(t, n))
  BY <1>4 DEF Lex!Drop
<1> HIDE DEF back
<1>9. Unread' = Lex!Drop(t, n) \o W
  BY <1>4, <1>5, LessLexes DEF Lex!Less
<1>10. Newlines(Unread') = Newlines(Lex!Drop(t, n)) + Newlines(W)
  BY <1>7, <1>9, NewlinesAdd
<1>11. PICK p \in Nat, q \in Nat : p = Newlines(Lex!Drop(t, n)) /\ q = Newlines(W)
  BY <1>7, NewlinesAre
<1>12. PICK r \in Nat : r = LinesIn(yyin.next)
  BY LinesOf DEF IInv, Shapes, StreamShape
<1>13. g'.lineno = g.lineno - p /\ Newlines(Unread) = q /\ Newlines(Unread') = p + q
       /\ LinesIn(yyin'.next) = r /\ LinesIn(input') = LinesIn(input)
  BY <1>1, <1>3, <1>5, <1>8, <1>10, <1>11, <1>12
<1>14. g.lineno \in Int /\ g.lineno + q + r = 1 + LinesIn(input)
  BY <1>12, <1>13 DEF Counted
<1>15. g'.lineno \in Int /\ g'.lineno + (p + q) + r = 1 + LinesIn(input)
  BY <1>13, <1>14
<1> QED
  BY <1>13, <1>15 DEF Counted, LinesIn

\* unput() takes back the newline that it pushes.
LEMMA UnputCounts ==
  ASSUME IInv, Knowing, Counted, NEW c \in Pushable, Unput(c) PROVE Counted'
<1>1. c \in Chars /\ pc = "action" /\ input' = input /\ yyin' = yyin
  BY CharsAssumption DEF Unput, Calls, Kept
<1>2. PICK W \in Seq(Chars) : W = Unread
  BY <1>1, UnreadIs
<1>3. ASSUME pc' = "fatal" PROVE Counted'
  <2>1. g' = g
    BY <1>1, <1>3 DEF Unput
  <2>2. Unread' = Unread
    <3>1. Phase = "action" /\ Phase' = "fatal"
      BY <1>1, <1>3 DEF Phase
    <3>2. ~Lex!Unput(c)
      BY <3>1 DEF Lex!Unput
    <3> QED
      BY <3>2, UnputLexes DEF Lex!PushBackOverflow
  <2> QED
    BY <1>1, <2>1, <2>2, SameCount
<1>4. ASSUME pc' # "fatal" PROVE Counted'
  <2>1. g'.lineno = (IF c = NL THEN g.lineno - 1 ELSE g.lineno) /\ pc' = "action"
    <3> DEFINE cp == g.c_buf_p + ShiftUp
               n == IF g.c_buf_p < 2 THEN b.buf_size ELSE g.n_chars
               gg == [g EXCEPT !.n_chars = n, !.c_buf_p = cp - 1, !.hold_char = c,
                               !.text_ptr = @ + ShiftUp,
                               !.lineno = IF c = NL THEN @ - 1 ELSE @]
    <3>1. g' = gg /\ pc' = pc
      BY <1>4 DEF Unput
    <3>2. "lineno" \in DOMAIN g
      BY DEF IInv, Shapes, GlobalsShape
    <3>3. gg.lineno = IF c = NL THEN g.lineno - 1 ELSE g.lineno
      BY <3>2
    <3> QED
      BY <1>1, <3>1, <3>3
  <2>2. Unread' = <<c>> \o W
    <3>1. Phase' # "fatal"
      BY <2>1 DEF Phase
    <3>2. ~Lex!PushBackOverflow
      BY <3>1 DEF Lex!PushBackOverflow
    <3> QED
      BY <1>2, <3>2, UnputLexes DEF Lex!Unput
  <2>3. PICK o \in Seq(Chars) : o = <<c>> /\ Newlines(o) = IF c = NL THEN 1 ELSE 0
    BY <1>1, NewlinesOne
  <2>4. Newlines(Unread') = Newlines(o) + Newlines(W)
    BY <2>2, <2>3, NewlinesAdd
  <2>5. PICK p \in Nat, q \in Nat : p = Newlines(o) /\ q = Newlines(W)
    BY NewlinesAre
  <2>6. PICK r \in Nat : r = LinesIn(yyin.next)
    BY LinesOf DEF IInv, Shapes, StreamShape
  <2>7. g.lineno \in Int /\ g.lineno + q + r = 1 + LinesIn(input)
    BY <1>2, <2>5, <2>6 DEF Counted
  <2>8. g'.lineno = g.lineno - p
    BY <2>1, <2>3, <2>5, <2>7
  <2>9. g'.lineno \in Int /\ g'.lineno + (p + q) + r = 1 + LinesIn(input)
    BY <2>7, <2>8
  <2>10. Newlines(Unread') = p + q /\ LinesIn(yyin'.next) = r /\ LinesIn(input') = LinesIn(input)
    BY <1>1, <2>4, <2>5, <2>6
  <2> QED
    BY <2>9, <2>10 DEF Counted, LinesIn
<1> QED
  BY <1>3, <1>4

\* input() counts the newline that it takes.
LEMMA InputCounts ==
  ASSUME IInv, Knowing, Counted, InputChar \/ InputRefill PROVE Counted'
<1>1. pc = "input" /\ input' = input
  BY DEF InputChar, InputRefill, Kept
<1>2. Lex!EndInput /\ CountsTaken
  BY InputCharLexes, InputRefillLexes
<1>3. yyin'.next = yyin.next
  BY <1>2 DEF Lex!EndInput
<1>4. PICK W \in Seq(Chars) : W = Unread
  BY <1>1, UnreadIs
<1>5. CASE Unread' = Unread /\ g'.lineno = g.lineno
  BY <1>1, <1>3, <1>5, SameCount
<1>6. ASSUME W # <<>>, Unread' = Tail(W), g'.lineno = IF Head(W) = NL THEN g.lineno + 1 ELSE g.lineno
      PROVE  Counted'
  <2>1. Tail(W) \in Seq(Chars) /\ Newlines(W) = Newlines(Tail(W)) + (IF Head(W) = NL THEN 1 ELSE 0)
    BY <1>6, NewlinesHead
  <2>2. PICK p \in Nat : p = IF Head(W) = NL THEN 1 ELSE 0
    OBVIOUS
  <2>3. PICK q \in Nat : q = Newlines(Tail(W))
    BY <2>1, NewlinesAre
  <2>4. PICK r \in Nat : r = LinesIn(yyin.next)
    BY LinesOf DEF IInv, Shapes, StreamShape
  <2>5. g.lineno \in Int /\ g.lineno + (q + p) + r = 1 + LinesIn(input)
    BY <1>4, <2>1, <2>2, <2>3, <2>4 DEF Counted
  <2>6. g'.lineno = g.lineno + p
    BY <1>6, <2>2, <2>5
  <2>7. g'.lineno \in Int /\ g'.lineno + q + r = 1 + LinesIn(input)
    BY <2>5, <2>6
  <2>8. Newlines(Unread') = q /\ LinesIn(yyin'.next) = r /\ LinesIn(input') = LinesIn(input)
    BY <1>1, <1>3, <1>6, <2>3, <2>4
  <2> QED
    BY <2>7, <2>8 DEF Counted, LinesIn
<1> QED
  BY <1>2, <1>4, <1>5, <1>6 DEF CountsTaken

\* A segment that begins has its newlines still to come.
LEMMA RefillCounts ==
  ASSUME IInv, Knowing, Counted, Refill PROVE Counted'
<1>1. g'.lineno = g.lineno /\ input' = input
  BY LoopKeepsLines
<1>2. CASE Lex!EndOfFile \/ UNCHANGED Lex!absvars
  <2>1. Unread' = Unread /\ yyin'.next = yyin.next
    BY <1>2 DEF Lex!EndOfFile, Lex!absvars
  <2> QED
    BY <1>1, <2>1, SameCount
<1>3. CASE Lex!NextSegment
  <2>1. Unread = <<>> /\ yyin.next # <<>> /\ Unread' = Head(yyin.next) /\ yyin'.next = Tail(yyin.next)
    BY <1>3 DEF Lex!NextSegment
  <2>2. PICK segs \in Seq(Seq(Chars)) : segs = yyin.next
    BY DEF IInv, Shapes, StreamShape
  <2>3. Head(segs) \in Seq(Chars) /\ Tail(segs) \in Seq(Seq(Chars))
    BY <2>1, <2>2, HeadTailProperties
  <2>4. PICK p \in Nat : p = Newlines(Head(segs))
    BY <2>3, NewlinesAre
  <2>5. PICK r \in Nat : r = LinesIn(Tail(segs))
    BY <2>3, LinesOf
  <2>6. LinesIn(yyin.next) = p + r /\ Newlines(Unread) = 0
    BY <2>1, <2>2, <2>4, <2>5, LinesOf, NewlinesOne
  <2>7. g.lineno \in Int /\ g.lineno + 0 + (p + r) = 1 + LinesIn(input)
    BY <2>6 DEF Counted
  <2>8. g'.lineno \in Int /\ g'.lineno + p + r = 1 + LinesIn(input)
    BY <1>1, <2>7
  <2>9. Newlines(Unread') = p /\ LinesIn(yyin'.next) = r /\ LinesIn(input') = LinesIn(input)
    BY <1>1, <2>1, <2>2, <2>4, <2>5
  <2> QED
    BY <2>8, <2>9 DEF Counted, LinesIn
<1> QED
  BY <1>2, <1>3, RefillLexes

\* Before the first match all newlines are still to come.
LEMMA InitCounts == ASSUME Init PROVE Counted
<1>1. input \in Inputs /\ yyin.next = Tail(input) /\ g.lineno = 1
  BY DEF Init
<1>2. PICK segs \in Seq(Seq(Chars)) : segs = input /\ segs # <<>>
  BY <1>1, CharsAssumption
<1>3. Head(segs) \in Seq(Chars) /\ Tail(segs) \in Seq(Seq(Chars))
  BY <1>2, HeadTailProperties
<1>4. Unread = Head(segs)
  BY <1>2, InitLexes DEF Lex!Init
<1>5. PICK p \in Nat : p = Newlines(Head(segs))
  BY <1>3, NewlinesAre
<1>6. PICK r \in Nat : r = LinesIn(Tail(segs))
  BY <1>3, LinesOf
<1>7. LinesIn(input) = p + r
  BY <1>2, <1>5, <1>6, LinesOf
<1> QED
  BY <1>1, <1>2, <1>4, <1>5, <1>6, <1>7 DEF Counted

\* Every step keeps the count.
LEMMA StepCounts ==
  ASSUME IInv, Knowing, Counted, [Next]_vars, NewlineRulesKnown, NulsSaved PROVE Counted'
<1>1. CASE UNCHANGED vars \/ Terminated
  <2>1. UNCHANGED vars
    BY <1>1 DEF Terminated
  <2>2. UNCHANGED Lex!absvars
    BY <2>1, StutterLexes
  <2> QED
    BY <2>1, <2>2, SameCount DEF vars, Lex!absvars
<1>2. CASE StartToken \/ Match \/ EndOfBufferMatched \/ ReallyNul
  <2>1. UNCHANGED Lex!absvars
    BY <1>2, StartTokenLexes, MatchLexes, EndOfBufferMatchedLexes, ReallyNulLexes
  <2>2. g'.lineno = g.lineno /\ input' = input
    BY <1>2, LoopKeepsLines
  <2> QED
    BY <2>1, <2>2, SameCount DEF Lex!absvars
<1>3. CASE More \/ BeginInput \/ Return \/ CallAgain
  <2>1. Lex!More \/ Lex!BeginInput \/ Lex!Return \/ Lex!CallAgain
    BY <1>3, MoreLexes, BeginInputLexes, ReturnLexes, CallAgainLexes
  <2>2. Unread' = Unread /\ yyin'.next = yyin.next
    BY <2>1 DEF Lex!More, Lex!BeginInput, Lex!Return, Lex!CallAgain
  <2>3. g'.lineno = g.lineno /\ input' = input
    BY <1>3, LoopKeepsLines
  <2> QED
    BY <2>2, <2>3, SameCount
<1>4. CASE RuleMatched
  BY <1>4, RuleMatchedCounts
<1>5. CASE Refill
  BY <1>5, RefillCounts
<1>6. CASE \E n \in 0 .. Len(yytext) : Less(n)
  BY <1>6, LessCounts
<1>7. CASE \E c \in Pushable : Unput(c)
  BY <1>7, UnputCounts
<1>8. CASE InputChar \/ InputRefill
  BY <1>8, InputCounts
<1> QED
  BY <1>1, <1>2, <1>3, <1>4, <1>5, <1>6, <1>7, <1>8 DEF Next

\* yylineno is exact whenever yylex() is about to match or has returned at an
\* end of file, if the parser has seen the newlines of every rule that matches
\* one: no yyless, yymore, unput, input, refill or new segment makes it drift.
\* The scanners are those of the theorems before it.
THEOREM LinesAreCounted ==
  ASSUME NewlineRulesKnown, ~MoreAtEof, ~InputAtEof, NulsSaved PROVE Spec => []LinenoExact
<1>1. Init => IInv /\ Knowing /\ Counted
  BY InitInv, InitLexes, InitCounts
<1>2. IInv /\ Knowing /\ Counted /\ [Next]_vars => IInv' /\ Knowing' /\ Counted'
  BY StepInv, StepLexes, StepCounts
<1>3. Counted => LinenoExact
  BY DEF Counted, LinesIn, LinenoExact
<1> QED
  BY <1>1, <1>2, <1>3, PTL DEF Spec
=============================================================================
