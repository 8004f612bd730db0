------------------------------- MODULE Reject -------------------------------
(***************************************************************************)
(* REJECT and trailing context of variable length, as the generated        *)
(* scanner finds its way back (gen_start_state(), gen_next_match(),        *)
(* gen_find_action() and make_tables() in gen.cpp, yylex() in flex.skl)    *)
(* over the lists of accepting numbers that snstods() and gentabs() make.  *)
(*                                                                         *)
(* A rule is given by the words it matches, so a state of the automaton is *)
(* a beginning of words; dfa.cpp is modelled in Dfa.  The text is in the   *)
(* buffer as a whole: reading it in parts is modelled in Scanner.          *)
(***************************************************************************)
EXTENDS Integers, SequencesExt, FiniteSetsExt

CONSTANTS
  Alphabet,
  RuleSets,   \* bound: sequences of rules
  Texts       \* bound: what is scanned

YY_TRAILING_MASK == 8192
YY_TRAILING_HEAD_MASK == 16384
HasHeadMask(act) == act >= YY_TRAILING_HEAD_MASK
HasTrailMask(act) == act >= YY_TRAILING_MASK /\ ~HasHeadMask(act)

\* A rule matches a head and a trail; both are of variable length, or the
\* trail is empty.  The default rule comes last.
IsRule(r) == /\ r.variable \in BOOLEAN
             /\ r.head \subseteq Seq(Alphabet) /\ r.head # {} /\ <<>> \notin r.head
             /\ r.trail \subseteq Seq(Alphabet) /\ r.trail # {}
             /\ ~r.variable => r.trail = {<<>>}
DefaultRule == [variable |-> FALSE, head |-> {<<c>> : c \in Alphabet}, trail |-> {<<>>}]

ASSUME RulesAssumption ==
  \A R \in RuleSets : /\ R \in Seq(Range(R)) /\ R # <<>> /\ Len(R) + 1 < YY_TRAILING_MASK
                      /\ \A i \in DOMAIN R : IsRule(R[i])
                      /\ R[Len(R)] = DefaultRule

Whole(r) == {h \o t : h \in r.head, t \in r.trail}

----------------------------------------------------------------------------
(* The tables                                                              *)

\* The states: beginnings of words, the end of the buffer, the jam.
EOB == "end of buffer"
JAM == "jam"
EobState == <<EOB>>
JamState == <<JAM>>

ASSUME TextsAssumption == Texts \subseteq Seq(Alphabet) /\ {EOB, JAM} \cap Alphabet = {}

Beginnings(R) ==
  UNION {UNION {Prefixes(w) : w \in Whole(R[i])} : i \in DOMAIN R}

\* snstods() sorts the numbers; gentabs() then marks the rules that have
\* trailing context to be looked for.
AcceptSet_HeadAtEnd(R, w) ==
  UNION {{i, i + YY_TRAILING_HEAD_MASK} : i \in {j \in DOMAIN R : w \in Whole(R[j])}}
AcceptSet(R, w) ==
  {i \in DOMAIN R : w \in Whole(R[i])}
    \cup {i + YY_TRAILING_HEAD_MASK : i \in {j \in DOMAIN R : R[j].variable /\ w \in R[j].head}}
Marked(R, n) == IF n \in DOMAIN R /\ R[n].variable THEN n + YY_TRAILING_MASK ELSE n
Sorted(S) ==
  CHOOSE s \in [1 .. Cardinality(S) -> S] : \A j, k \in DOMAIN s : j < k => s[j] < s[k]
AcceptList(R, w) ==
  LET numbers == Sorted(AcceptSet(R, w))
  IN  [k \in DOMAIN numbers |-> Marked(R, numbers[k])]

\* yy_acclist of each set of rules, cut where yy_accept says that the list of
\* a state begins.  The end of the buffer has its own action, the jam has none.
EOB_ACTION(R) == Len(R) + 1
Lists ==
  [R \in RuleSets |->
    [w \in Beginnings(R) \cup {EobState, JamState} |->
      IF w = EobState THEN <<EOB_ACTION(R)>> ELSE IF w = JamState THEN <<>> ELSE AcceptList(R, w)]]

VARIABLES
  rules, text, interactive,
  real_reject,   \* an action uses REJECT
  pc,
  begin,         \* where the token begins
  cp,            \* yy_cp
  stack, ptr,    \* yy_state_buf, and how much of it is in use
  current,       \* yy_current_state
  lp, act,
  looking,       \* yy_looking_for_trail_begin
  full,          \* yy_full_match, yy_full_state, yy_full_lp
  rejects        \* the rules rejected for this token

scanner == <<rules, text, interactive, real_reject>>
vars == <<scanner, pc, begin, cp, stack, ptr, current, lp, act, looking, full, rejects>>

acclist == Lists[rules]
variable_trailing_context_rules == \E i \in DOMAIN rules : rules[i].variable
yy_nxt(s, c) ==
  IF c = EOB /\ s \notin {EobState, JamState} THEN EobState
  ELSE IF Append(s, c) \in DOMAIN acclist THEN Append(s, c) ELSE JamState
CharAt(p) == IF p < Len(text) THEN text[p + 1] ELSE EOB
NoTransitions(s) == \A c \in Alphabet : yy_nxt(s, c) = JamState
Stops(s) == s = JamState \/ (interactive /\ NoTransitions(s))

Init ==
  /\ rules \in RuleSets /\ text \in Texts /\ interactive \in BOOLEAN /\ real_reject \in BOOLEAN
  /\ real_reject \/ variable_trailing_context_rules
  /\ pc = "match" /\ begin = 0 /\ cp = 0 /\ stack = <<>> /\ ptr = 0 /\ current = <<>>
  /\ lp = 0 /\ act = 0 /\ looking = 0 /\ full = [cp |-> 0, ptr |-> 0, lp |-> 0] /\ rejects = 0

----------------------------------------------------------------------------
(* yylex()                                                                 *)

\* The states after each character from p on, until the scanner jams, or, if
\* it is interactive, is in a state that no character leads out of.
Run(p) ==
  LET after[n \in 0 .. Len(text) - p + 2] == IF n = 0 THEN <<>> ELSE yy_nxt(after[n - 1], CharAt(p + n - 1))
      length == Min({n \in 1 .. Len(text) - p + 2 : Stops(after[n])})
  IN  [n \in 1 .. length + 1 |-> after[n - 1]]

\* yy_match: the states are stacked on the way.
Match ==
  /\ pc = "match"
  /\ stack' = Run(begin) /\ ptr' = Len(stack') /\ cp' = begin + Len(stack') - 1
  /\ pc' = "find_action"
  /\ UNCHANGED <<scanner, begin, current, lp, act, looking, full, rejects>>

\* yy_find_action, and the end of the loop below: the state before.
PopState == /\ ptr' = ptr - 1 /\ current' = stack[ptr] /\ lp' = 1

FindAction ==
  /\ pc = "find_action" /\ PopState /\ pc' = "find_rule"
  /\ UNCHANGED <<scanner, begin, cp, stack, act, looking, full, rejects>>

Listed == lp <= Len(acclist[current])
Number == acclist[current][lp]
FullMatch == [cp |-> cp, ptr |-> ptr, lp |-> lp]

\* The text goes back with the state.
Backed_NotText(p) == p
Backed(p) == p - 1
BackUp ==
  /\ pc = "find_rule" /\ ~Listed
  /\ cp' = Backed(cp) /\ PopState
  /\ UNCHANGED <<scanner, pc, begin, stack, act, looking, full, rejects>>

AtRule == pc = "find_rule" /\ Listed

\* The place where the trail of the rule begins.
IsTrailBegin == Number = looking
TrailBegin ==
  /\ AtRule /\ IsTrailBegin
  /\ looking' = 0 /\ act' = Number - YY_TRAILING_HEAD_MASK /\ pc' = "action"
  /\ UNCHANGED <<scanner, begin, cp, stack, ptr, current, lp, full, rejects>>

\* Not what is looked for, or a head while nothing is.
Skip ==
  /\ AtRule /\ ~IsTrailBegin /\ (HasHeadMask(Number) \/ looking # 0)
  /\ act' = Number /\ lp' = lp + 1
  /\ UNCHANGED <<scanner, pc, begin, cp, stack, ptr, current, looking, full, rejects>>

\* A rule with trailing context has matched: go and look for its head.
TrailEnd ==
  /\ AtRule /\ looking = 0 /\ HasTrailMask(Number)
  /\ act' = Number /\ lp' = lp + 1
  /\ looking' = Number - YY_TRAILING_MASK + YY_TRAILING_HEAD_MASK
  /\ full' = IF real_reject THEN FullMatch ELSE full
  /\ UNCHANGED <<scanner, pc, begin, cp, stack, ptr, current, rejects>>

RuleMatched ==
  /\ AtRule /\ looking = 0 /\ ~HasHeadMask(Number) /\ ~HasTrailMask(Number)
  /\ act' = Number /\ pc' = "action"
  /\ full' = IF variable_trailing_context_rules THEN FullMatch ELSE [full EXCEPT !.cp = cp]
  /\ UNCHANGED <<scanner, begin, cp, stack, ptr, current, lp, looking, rejects>>

IsRuleAct == pc = "action" /\ act \in DOMAIN rules

\* Bound: no more than there can be matches and one.
Counted(n) == IF n > Len(text) * Len(rules) THEN n ELSE n + 1

\* REJECT, in any action but that of the default rule.
Restored_PtrOnly(f) == [cp |-> f.cp, ptr |-> f.ptr, lp |-> f.lp, current |-> current]
Restored(f) == [cp |-> f.cp, ptr |-> f.ptr, lp |-> f.lp, current |-> stack[f.ptr + 1]]
NextInList_Same(n) == n
NextInList(n) == n + 1
REJECT ==
  /\ IsRuleAct /\ real_reject /\ act # Len(rules)
  /\ cp' = full.cp
  /\ IF variable_trailing_context_rules
     THEN LET r == Restored(full)
          IN  ptr' = r.ptr /\ current' = r.current /\ lp' = NextInList(r.lp)
     ELSE lp' = NextInList(lp) /\ UNCHANGED <<ptr, current>>
  /\ pc' = "find_rule" /\ rejects' = Counted(rejects)
  /\ UNCHANGED <<scanner, begin, stack, act, looking, full>>

\* An action that does something else: the next token begins behind this one.
Accept ==
  /\ IsRuleAct
  /\ begin' = cp /\ pc' = "match" /\ rejects' = 0
  /\ UNCHANGED <<scanner, cp, stack, ptr, current, lp, act, looking, full>>

\* The end of the buffer, behind some text: its last match, with the states of
\* the text stacked again by yy_get_previous_state().
LastMatch ==
  /\ pc = "action" /\ act = EOB_ACTION(rules) /\ begin < Len(text)
  /\ stack' = [n \in 1 .. Len(text) - begin + 1 |-> Run(begin)[n]]
  /\ ptr' = Len(stack') /\ cp' = Len(text) /\ pc' = "find_action"
  /\ UNCHANGED <<scanner, begin, current, lp, act, looking, full, rejects>>

EndOfFile ==
  /\ pc = "action" /\ act = EOB_ACTION(rules) /\ begin = Len(text)
  /\ pc' = "eof"
  /\ UNCHANGED <<scanner, begin, cp, stack, ptr, current, lp, act, looking, full, rejects>>

Step == \/ Match
        \/ FindAction
        \/ BackUp
        \/ TrailBegin
        \/ Skip
        \/ TrailEnd
        \/ RuleMatched
        \/ REJECT
        \/ Accept
        \/ LastMatch
        \/ EndOfFile
Terminated == pc = "eof" /\ UNCHANGED vars
Next == Step \/ Terminated

\* yylex() is one loop, called until the end of the file.
Spec == Init /\ [][Next]_vars /\ WF_vars(Step)

----------------------------------------------------------------------------
(* What must be true of it.                                                *)

\* The stack never runs below the start state and stays in step with the
\* text, and between tokens nothing is being looked for.
RejectTypeOK ==
  /\ pc \in {"match", "find_action", "find_rule", "action", "eof"}
  /\ begin \in 0 .. Len(text) /\ cp \in 0 .. Len(text) + 2
  /\ Len(stack) <= Len(text) + 3 /\ ptr \in 0 .. Len(stack)
  /\ pc = "find_action" => ptr = cp - begin + 1
  /\ pc = "find_rule" => ptr = cp - begin /\ current \in DOMAIN acclist
  /\ pc \in {"match", "action"} => looking = 0

\* The matches at the beginning of the token, the best first: the longest, and
\* of those the rule that comes first.
Matches ==
  {m \in (1 .. Len(text) - begin) \X DOMAIN rules :
     SubSeq(text, begin + 1, begin + m[1]) \in Whole(rules[m[2]])}
Better(m, k) == m[1] > k[1] \/ (m[1] = k[1] /\ m[2] < k[2])

\* The action is that of the best match, and after each REJECT that of the
\* "second best" one, the trailing context counted.
NextBest ==
  IsRuleAct =>
    \E m \in Matches :
      /\ m[2] = act /\ Cardinality({k \in Matches : Better(k, m)}) = rejects
      /\ ~rules[act].variable => cp = begin + m[1]
      /\ real_reject => full.cp = begin + m[1]

\* yytext ends where the trailing context begins: it is a head of the rule,
\* and what follows, up to the end of the match, is a trail, unless a head of
\* the rule may reach into its own trail ("dangerous trailing context").
Dangerous(r) ==
  \E h \in r.head, t \in r.trail : \E n \in 1 .. Len(t) : h \o SubSeq(t, 1, n) \in r.head
TrailingContextCut ==
  IsRuleAct /\ rules[act].variable =>
    /\ SubSeq(text, begin + 1, cp) \in rules[act].head
    /\ real_reject /\ ~Dangerous(rules[act]) => SubSeq(text, cp + 1, full.cp) \in rules[act].trail

\* The scanner gets to the end of any text, however often actions use REJECT.
ScansAll == <>(pc = "eof")
=============================================================================
