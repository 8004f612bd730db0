-------------------------------- MODULE Nfa --------------------------------
(***************************************************************************)
(* From patterns to an NFA (the rules section of parse.y, and nfa.cpp).    *)
(*                                                                         *)
(* The parser reduces a pattern from the inside out; its value stack holds *)
(* machines, which are NFA states that know the extent of their fragment   *)
(* in the state array.  Fragments are destroyed, linked and copied in      *)
(* place.  When a rule is finished its machine gets an accepting number    *)
(* and is hung below the start conditions it is active in.                 *)
(*                                                                         *)
(* One action per reduction.  Beside each machine the model keeps the      *)
(* words, up to a length, that the pattern means: the code does not.       *)
(*                                                                         *)
(* Left out: patterns that are errors, <<EOF>> rules, warnings, and the    *)
(* association of states with rules that only the warnings use.            *)
(*                                                                         *)
(* A definition with a suffix, as Varies_Not, is a wrong variant of the    *)
(* one it stands before: a slip that the properties must notice.           *)
(***************************************************************************)
EXTENDS Integers, Sequences, FiniteSets, FiniteSetsExt, Functions

CONSTANTS
  csize,        \* the number of characters, NUL = 0 among them
  NL,           \* '\n'
  Chars,        \* the characters that patterns name
  Cases,        \* the pairs of letters that a case-insensitive pattern names
  Orders,       \* in which order the build makes the two states of such a pair
  Ccls,         \* the classes in brackets that are patterns: [table, ng]
  CclOps,       \* those made of two by {-} or {+}: [op, a, b]
  Dots,         \* sf_dot_all() of the '.' in patterns; {} for none
  Repeats,      \* the bounds <<lb, ub>> of the repetitions {lb,ub}
  Exclusive,    \* for each start condition, INITIAL first, whether it is exclusive
  Bols,         \* whether rules begin with '^'
  Lists,        \* the sets of start conditions that rules are preceded by; {} for none
  lex_compat,   \* -l
  YY_TRAILING_HEAD_MASK,
  Budgets,      \* bound: the reductions of each rule's pattern, for some numbers of rules
  MaxWord       \* bound: the length of the words that are kept

EPS == -1
NIL == 0
Conditions == DOMAIN Exclusive

CclSet == [table : SUBSET (0 .. csize - 1), ng : BOOLEAN]

\* A transition on class number k is a transition on -1 - k.
ClassSym(k) == -1 - k

ASSUME NfaAssumption ==
  /\ csize \in Nat \ {0} /\ NL \in 0 .. csize - 1
  /\ Chars \subseteq 0 .. csize - 1 /\ Cases \subseteq (0 .. csize - 1) \X (0 .. csize - 1)
  /\ Orders \subseteq {"left", "right"}
  /\ Ccls \in Seq(CclSet) /\ CclOps \in Seq([op : {"{-}", "{+}"}, a : CclSet, b : CclSet])
  /\ \A r \in Repeats : r[1] \in Nat /\ r[2] \in Nat \ {0} /\ r[1] <= r[2]
  /\ Exclusive \in Seq(BOOLEAN) /\ Exclusive # <<>> /\ ~Exclusive[1]
  /\ Lists \subseteq SUBSET Conditions /\ Bols \subseteq BOOLEAN /\ Dots \subseteq BOOLEAN
  /\ YY_TRAILING_HEAD_MASK \in Nat /\ MaxWord \in Nat
  /\ \A b \in Budgets : b \in Seq(Nat) /\ YY_TRAILING_HEAD_MASK > Len(b) + 1

VARIABLES
  budget,   \* the bound chosen
  nfas,     \* the NFA states: [on, to, acc, first, last, final]
  stk,      \* the parser's values: [m: a machine, words: what it should match]
  rule,     \* what the parser knows of the rule it is in
  rules,    \* the finished rules
  conds,    \* for each start condition: the states [set, bol]
  pc,       \* "rule", "trail" (after the '/'), "parsed"
  steps     \* the reductions of this pattern

vars == <<budget, nfas, stk, rule, rules, conds, pc, steps>>

----------------------------------------------------------------------------
(* Words, and sets of them: what patterns mean.                            *)

Alphabet == 0 .. csize - 1
Short(W) == {w \in W : Len(w) <= MaxWord}
Cat(A, B) == Short({p[1] \o p[2] : p \in A \X B})
Times(A, n) == LET t[i \in 0 .. n] == IF i = 0 THEN {<<>>} ELSE Cat(t[i - 1], A) IN t[n]
Between(A, lb, ub) == UNION {Times(A, n) : n \in lb .. ub}
AtLeast(A, lb) == Between(A, lb, lb + MaxWord)
AllWords == Between({<<c>> : c \in Alphabet}, 0, MaxWord)

----------------------------------------------------------------------------
(* Character classes (ccl.cpp).                                            *)

ccl_contains(ccl, ch) == (ch \in ccl.table) # ccl.ng
Members(ccl) == {ch \in Alphabet : ccl_contains(ccl, ch)}

\* ccladd() of each member notices a newline, cclnegate() turns that over.
Bracketed_Unnegated(c) == [table |-> c.table, ng |-> c.ng, has_nl |-> NL \in c.table]
Bracketed(c) == [table |-> c.table, ng |-> c.ng, has_nl |-> (NL \in c.table) # c.ng]

ccl_set_diff(a, b) == Bracketed([table |-> Members(a) \ Members(b), ng |-> FALSE])

\* The union takes the tables as they are, negated or not, and notices nothing.
ccl_set_union(a, b) == [table |-> a.table \cup b.table, ng |-> FALSE, has_nl |-> FALSE]

Combined(c) == IF c.op = "{-}" THEN ccl_set_diff(c.a, c.b) ELSE ccl_set_union(c.a, c.b)

\* ccldot and cclany.
ccldot == [table |-> {NL}, ng |-> TRUE]
cclany == [table |-> {}, ng |-> TRUE]
DotCcl(dot_all) == Len(Ccls) + Len(CclOps) + IF dot_all THEN 2 ELSE 1

\* The classes of the patterns, then the one of the default rule, which is
\* made like cclany.
Classes == [k \in DOMAIN Ccls |-> Bracketed(Ccls[k])] \o [k \in DOMAIN CclOps |-> Combined(CclOps[k])]
             \o <<Bracketed(ccldot), Bracketed(cclany)>>
AllCcls == Append(Classes, Bracketed(cclany))

\* What a class means.
Denotes(k) ==
  IF k - Len(Ccls) \in DOMAIN CclOps
  THEN LET c == CclOps[k - Len(Ccls)]
       IN  IF c.op = "{-}" THEN Members(c.a) \ Members(c.b) ELSE Members(c.a) \cup Members(c.b)
  ELSE Members(AllCcls[k])

----------------------------------------------------------------------------
(* The operations on machines.  An operator takes the array of states and  *)
(* returns the new array, or that and a machine, [n, m].                   *)

\* mkstate(): the new state is the last of the array.
MkState(nf, sym) ==
  LET s == Len(nf) + 1
  IN  Append(nf, [on |-> sym, to |-> <<>>, acc |-> NIL, first |-> s, last |-> s, final |-> s])

\* mkxtion(): trans1, then trans2.
MkXtion(nf, from, to) == [nf EXCEPT ![from].to = Append(@, to)]

\* link_machines(): the machine is first.
Link_KeepsExtent(nf, first, last) ==
  [MkXtion(nf, nf[first].final, last) EXCEPT ![first].final = nf[last].final]
\* The state first takes over the end of the machine last and covers its states.
Taking(s, final, last, first) ==
  [s EXCEPT !.final = final, !.last = Max({@, last}), !.first = Min({@, first})]
Link(nf, first, last) ==
  [MkXtion(nf, nf[first].final, last) EXCEPT
     ![first] = Taking(@, nf[last].final, nf[last].last, nf[last].first)]

SuperFreeEpsilon_OneSlot(nf, s) == nf[s].on = EPS /\ Len(nf[s].to) < 2
SuperFreeEpsilon(nf, s) == nf[s].on = EPS /\ nf[s].to = <<>>

\* add_accept()
AddAccept_AnyState(nf, m, number) == [nf EXCEPT ![nf[m].final].acc = number]
AddAccept(nf, m, number) ==
  IF nf[nf[m].final].on = EPS
  THEN [nf EXCEPT ![nf[m].final].acc = number]
  ELSE LET s == Len(nf) + 1
       IN  Link([MkState(nf, EPS) EXCEPT ![s].acc = number], m, s)

\* dupmachine(): states first .. last again, moved up to the end of the array.
Offset(nf, m) == Len(nf) + 1 - nf[m].first

DupMachine(nf, m) ==
  LET up == Offset(nf, m)
      copy(s) == [nf[s] EXCEPT !.to = [k \in DOMAIN @ |-> @[k] + up],
                               !.first = s + up, !.last = s + up, !.final = s + up]
      all == nf \o [k \in 1 .. nf[m].last - nf[m].first + 1 |-> copy(nf[m].first + k - 1)]
  IN  [n |-> [all EXCEPT ![m + up].first = nf[m].first + up,
                         ![m + up].last = nf[m].last + up,
                         ![m + up].final = nf[m].final + up],
       m |-> m + up]

\* copysingl()
CopySingl(nf, singl, num) ==
  LET copy == Len(nf) + 1
      n[i \in 0 .. num] ==
        IF i = 0 THEN MkState(nf, EPS)
        ELSE LET d == DupMachine(n[i - 1], singl) IN Link(d.n, copy, d.m)
  IN  [n |-> n[num], m |-> copy]

\* mkopt(): a new state in front, even if the machine begins with one.
MkOpt(nf, m) ==
  LET n == IF SuperFreeEpsilon(nf, nf[m].final) THEN nf
           ELSE Link(MkState(nf, EPS), m, Len(nf) + 1)
      eps == Len(n) + 1
      front == Link(MkState(n, EPS), eps, m)
  IN  [n |-> MkXtion(front, eps, front[eps].final), m |-> eps]

\* mkposcl()
MkPosCl(nf, m) ==
  IF SuperFreeEpsilon(nf, nf[m].final)
  THEN [n |-> MkXtion(nf, nf[m].final, m), m |-> m]
  ELSE LET eps == Len(nf) + 1
       IN  [n |-> Link(MkXtion(MkState(nf, EPS), eps, m), m, eps), m |-> m]

\* mkclos()
MkClos(nf, m) == LET p == MkPosCl(nf, m) IN MkOpt(p.n, p.m)

\* mkor(): the end is the final state of the first if it is free, of the
\* second if that is, and else a new one.
FreeEnd_InUse(nf, m) == nf[nf[m].final].on = EPS /\ nf[nf[m].final].acc = NIL
FreeEnd(nf, m) == SuperFreeEpsilon(nf, nf[m].final) /\ nf[nf[m].final].acc = NIL

MkOr(nf, first, second) ==
  LET eps == Len(nf) + 1
      n == MkXtion(Link(MkState(nf, EPS), eps, first), eps, second)
      new == Link(MkState(n, EPS), eps, Len(n) + 1)
      joined ==
        IF FreeEnd(n, eps)
          THEN [n |-> MkXtion(n, n[second].final, n[eps].final), end |-> n[eps].final]
        ELSE IF FreeEnd(n, second)
          THEN [n |-> MkXtion(n, n[eps].final, n[second].final), end |-> n[second].final]
        ELSE [n |-> MkXtion(new, new[second].final, new[eps].final), end |-> new[eps].final]
  IN  [n |-> [joined.n EXCEPT ![eps].final = joined.end], m |-> eps]

\* mkrep(), to infinity and to ub.
MkRepFrom(nf, m, lb) ==
  LET base == CopySingl(nf, m, lb - 1)
      copy == DupMachine(base.n, m)
      clos == MkClos(copy.n, copy.m)
  IN  [n |-> Link(Link(clos.n, base.m, clos.m), m, base.m), m |-> m]

MkRep(nf, m, lb, ub) ==
  LET base == CopySingl(nf, m, lb - 1)
      tail[i \in lb .. ub] ==
        IF i = lb THEN [n |-> MkState(base.n, EPS), m |-> Len(base.n) + 1]
        ELSE LET t == tail[i - 1]
                 copy == DupMachine(t.n, m)
             IN  MkOpt(Link(copy.n, copy.m, t.m), copy.m)
  IN  [n |-> Link(Link(tail[ub].n, base.m, tail[ub].m), m, base.m), m |-> m]

\* mkbranch()
MkBranch(nf, first, second) ==
  LET eps == Len(nf) + 1
  IN  [n |-> MkXtion(MkXtion(MkState(nf, EPS), eps, first), eps, second), m |-> eps]

----------------------------------------------------------------------------
(* Reductions within a pattern.                                            *)

NewRule(continued) ==
  [len |-> 0, varlength |-> FALSE, headcnt |-> 0, has_nl |-> FALSE, continued |-> continued]

Init ==
  /\ budget \in Budgets
  /\ nfas = LET n[i \in 0 .. 2 * Len(Exclusive)] ==
                  IF i = 0 THEN <<>> ELSE MkState(n[i - 1], EPS)
            IN  n[2 * Len(Exclusive)]
  /\ conds = [i \in Conditions |-> [set |-> 2 * i - 1, bol |-> 2 * i]]
  /\ stk = <<>> /\ rules = <<>>
  /\ rule = NewRule(FALSE)
  /\ pc = "rule"
  /\ steps = 0

RuleId == Len(rules) + 1

\* The values of the pattern that is being read: the head of a trailing
\* context, once read, is left alone.
Values == IF pc = "trail" THEN Tail(stk) ELSE stk

\* n values may be reduced to one: enough steps are left to join the others.
Reduces(n) ==
  /\ pc \in {"rule", "trail"} /\ RuleId \in DOMAIN budget
  /\ Len(Values) >= n /\ steps + 1 + Len(Values) - n <= budget[RuleId]
Unchanged == UNCHANGED <<budget, rules, conds, pc>>

\* The last n values are replaced by one.
Reduce(n, r, words) ==
  /\ nfas' = r.n
  /\ stk' = Append(SubSeq(stk, 1, Len(stk) - n), [m |-> r.m, words |-> words])
  /\ steps' = steps + 1
  /\ Unchanged

NewState(sym) == [n |-> MkState(nfas, sym), m |-> Len(nfas) + 1]

\* One more character of the pattern's text.
Counted(has_nl) == rule' = [rule EXCEPT !.len = @ + 1, !.has_nl = @ \/ has_nl]

Char(c) ==
  /\ Reduces(0)
  /\ Reduce(0, NewState(c), {<<c>>})
  /\ Counted(c = NL)

\* A letter of a case-insensitive pattern: mkor(mkstate(c), mkstate(d)).  The
\* language leaves the order of the two calls open.
CaseChar(c, d, order) ==
  /\ Reduces(0)
  /\ LET s == Len(nfas) + 1
         n == IF order = "left" THEN MkState(MkState(nfas, c), d)
              ELSE MkState(MkState(nfas, d), c)
     IN  Reduce(0, IF order = "left" THEN MkOr(n, s, s + 1) ELSE MkOr(n, s + 1, s),
                {<<c>>, <<d>>})
  /\ Counted(c = NL)

Class(k) ==
  /\ Reduces(0)
  /\ Reduce(0, NewState(ClassSym(k)), {<<c>> : c \in Denotes(k)})
  /\ Counted(Classes[k].has_nl)

\* '.' looks at no newline flag.
Dot(dot_all) ==
  /\ Reduces(0)
  /\ Reduce(0, NewState(ClassSym(DotCcl(dot_all))), {<<c>> : c \in Denotes(DotCcl(dot_all))})
  /\ Counted(FALSE)

\* "", to which the characters of a string are linked.
EmptyString ==
  /\ Reduces(0)
  /\ Reduce(0, NewState(EPS), {<<>>})
  /\ UNCHANGED rule

Top(i) == stk[Len(stk) + 1 - i]

Concatenation ==
  /\ Reduces(2)
  /\ Reduce(2, [n |-> Link(nfas, Top(2).m, Top(1).m), m |-> Top(2).m],
            Cat(Top(2).words, Top(1).words))
  /\ UNCHANGED rule

\* The other operators make the length of the text unknown.
Varies_Not == UNCHANGED rule
Varies == rule' = [rule EXCEPT !.varlength = TRUE]

Alternation ==
  /\ Reduces(2)
  /\ Reduce(2, MkOr(nfas, Top(2).m, Top(1).m), Top(2).words \cup Top(1).words)
  /\ Varies

Star == Reduces(1) /\ Reduce(1, MkClos(nfas, Top(1).m), AtLeast(Top(1).words, 0)) /\ Varies
Plus == Reduces(1) /\ Reduce(1, MkPosCl(nfas, Top(1).m), AtLeast(Top(1).words, 1)) /\ Varies
Optional == Reduces(1) /\ Reduce(1, MkOpt(nfas, Top(1).m), {<<>>} \cup Top(1).words) /\ Varies

\* {lb,ub}
Repeat(lb, ub) ==
  /\ Reduces(1)
  /\ LET some == MkRep(nfas, Top(1).m, Max({lb, 1}), ub)
     IN  Reduce(1, IF lb = 0 THEN MkOpt(some.n, some.m) ELSE some, Between(Top(1).words, lb, ub))
  /\ Varies

\* {lb,}
RepeatFrom(lb) ==
  /\ Reduces(1) /\ lb > 0
  /\ Reduce(1, MkRepFrom(nfas, Top(1).m, lb), AtLeast(Top(1).words, lb))
  /\ Varies

\* {n}
RepeatExactly(n) ==
  /\ Reduces(1) /\ n > 0
  /\ LET copies == CopySingl(nfas, Top(1).m, n - 1)
     IN  Reduce(1, [n |-> Link(copies.n, Top(1).m, copies.m), m |-> Top(1).m],
                Times(Top(1).words, n))
  /\ Varies

----------------------------------------------------------------------------
(* The end of a pattern, and of a rule.                                    *)

\* The '/': what was read is the head of a trailing context.
Slash ==
  /\ pc = "rule" /\ Len(stk) = 1 /\ steps < budget[RuleId]
  /\ rule' = [rule EXCEPT !.headcnt = IF rule.varlength THEN 0 ELSE rule.len,
                          !.varlength = FALSE, !.len = 0]
  /\ pc' = "trail"
  /\ UNCHANGED <<budget, nfas, stk, rules, conds, steps>>

\* Which conditions a rule is added to.
Active(list) == IF list # {} THEN list ELSE {i \in Conditions : ~Exclusive[i]}

\* A machine is added to one part of each of those conditions.
Branched(nf, m, part, cs) ==
  LET b[i \in 0 .. Len(Exclusive)] ==
        IF i = 0 THEN [n |-> nf, conds |-> conds]
        ELSE LET before == b[i - 1]
                 branch == MkBranch(before.n, before.conds[i][part], m)
             IN  IF i \in cs
                 THEN [n |-> branch.n, conds |-> [before.conds EXCEPT ![i][part] = branch.m]]
                 ELSE before
  IN  b[Len(Exclusive)]

\* finish_rule(), and flexrule.  info is what the productions for "rule" found
\* out, next is whether the action is '|'.
FinishRule(nf, m, info, bol, list, next) ==
  LET done == Branched(AddAccept(nf, m, RuleId), m, IF bol THEN "bol" ELSE "set", Active(list))
  IN  /\ nfas' = done.n
      /\ conds' = done.conds
      /\ rules' = Append(rules,
           [m |-> m, variable |-> info.variable, headcnt |-> info.headcnt,
            trailcnt |-> info.trailcnt, head |-> info.head, trail |-> info.trail,
            has_nl |-> \/ rule.has_nl
                       \/ rule.continued /\ rules[Len(rules)].has_nl,
            bol |-> bol, active |-> Active(list)])
      /\ rule' = NewRule(next)
      /\ stk' = <<>>
      /\ pc' = "rule"
      /\ steps' = 0
      /\ UNCHANGED budget

\* A rule without trailing context.
FinishPlain(bol, list, next) ==
  /\ pc = "rule" /\ Len(stk) = 1
  /\ FinishRule(nfas, stk[1].m,
                [variable |-> FALSE, headcnt |-> 0, trailcnt |-> 0,
                 head |-> stk[1].words, trail |-> {<<>>}], bol, list, next)

\* The end of the head accepts, when no count tells where it is.
HeadAccepts(nf, variable, m) ==
  IF variable THEN AddAccept(nf, m, RuleId + YY_TRAILING_HEAD_MASK) ELSE nf

\* A rule r/s.  After an action '|' the context is made variable.
IsVariable == lex_compat \/ rule.continued \/ (rule.varlength /\ rule.headcnt = 0)

FinishTrailing(bol, list, next) ==
  /\ pc = "trail" /\ Len(stk) = 2
  /\ LET head == stk[1]
         trail == stk[2]
         n == IF nfas[nfas[trail.m].last].on = EPS THEN nfas
              ELSE Link(MkState(nfas, EPS), trail.m, Len(nfas) + 1)
     IN  FinishRule(Link(HeadAccepts(n, IsVariable, head.m), head.m, trail.m), head.m,
                    [variable |-> IsVariable,
                     headcnt |-> IF rule.continued THEN 0 ELSE rule.headcnt,
                     trailcnt |-> IF IsVariable THEN 0 ELSE rule.len,
                     head |-> head.words, trail |-> trail.words], bol, list, next)

\* A rule r$
FinishEol(bol, list, next) ==
  /\ pc = "rule" /\ Len(stk) = 1
  /\ LET variable == lex_compat \/ rule.continued
         n == HeadAccepts(nfas, variable, stk[1].m)
         eps == Len(n) + 1
         eol == Link(MkState(MkState(n, EPS), NL), eps, eps + 1)
     IN  FinishRule(Link(eol, stk[1].m, eps), stk[1].m,
                    [variable |-> variable, headcnt |-> 0, trailcnt |-> 1,
                     head |-> stk[1].words, trail |-> {<<NL>>}], bol, list, next)

\* The rules end: any character at all is matched by the default rule, in
\* every start condition.
DefaultRule ==
  /\ pc = "rule" /\ stk = <<>>
  /\ LET m == Len(nfas) + 1
         done == Branched(AddAccept(MkState(nfas, ClassSym(Len(AllCcls))), m, RuleId),
                          m, "set", Conditions)
     IN  /\ nfas' = done.n
         /\ conds' = done.conds
         /\ rules' = Append(rules,
              [m |-> m, variable |-> FALSE, headcnt |-> 0, trailcnt |-> 0,
               head |-> {<<c>> : c \in Alphabet}, trail |-> {<<>>},
               has_nl |-> FALSE, bol |-> FALSE, active |-> Conditions])
  /\ pc' = "parsed"
  /\ UNCHANGED <<budget, stk, rule, steps>>

Parse ==
  \/ \E c \in Chars : Char(c)
  \/ \E p \in Cases, order \in Orders : CaseChar(p[1], p[2], order)
  \/ \E k \in 1 .. Len(Ccls) + Len(CclOps) : Class(k)
  \/ \E dot_all \in Dots : Dot(dot_all)
  \/ EmptyString
  \/ Concatenation
  \/ Alternation
  \/ Star
  \/ Plus
  \/ Optional
  \/ \E r \in Repeats : Repeat(r[1], r[2])
  \/ \E r \in Repeats : RepeatFrom(r[1])
  \/ \E r \in Repeats : RepeatExactly(r[1])
  \/ Slash
  \/ \E bol \in Bols, next \in BOOLEAN, list \in Lists : FinishPlain(bol, list, next)
  \/ \E bol \in Bols, next \in BOOLEAN, list \in Lists : FinishTrailing(bol, list, next)
  \/ \E bol \in Bols, next \in BOOLEAN, list \in Lists : FinishEol(bol, list, next)
  \/ DefaultRule

Terminated == pc = "parsed" /\ UNCHANGED vars

Next == Parse \/ Terminated

Spec == Init /\ [][Next]_vars

----------------------------------------------------------------------------
(* What must be true of it.                                                *)

\* Targets, extents and final states are states that exist, accepting numbers
\* are those of rules, and mkxtion() never finds "too many transitions": a
\* state has one on a symbol, and two on nothing.
TypeOK ==
  /\ \A s \in DOMAIN nfas :
       /\ nfas[s].on \in Alphabet \cup {EPS} \cup {ClassSym(k) : k \in DOMAIN AllCcls}
       /\ Range(nfas[s].to) \cup {nfas[s].first, nfas[s].last, nfas[s].final} \subseteq DOMAIN nfas
       /\ nfas[s].acc \in {NIL} \cup {id + h : id \in 1 .. Len(budget) + 1,
                                              h \in {0, YY_TRAILING_HEAD_MASK}}
       /\ Len(nfas[s].to) <= IF nfas[s].on = EPS THEN 2 ELSE 1
  /\ \A v \in Range(stk) : v.m \in DOMAIN nfas
  /\ \A i \in Conditions : {conds[i].set, conds[i].bol} \subseteq DOMAIN nfas
  /\ pc \in {"rule", "trail", "parsed"}

Extent(m) == nfas[m].first .. nfas[m].last

\* Each machine on the parser's stack is self-contained: it lies within its
\* extent, no other machine does, and no transition leaves it.  dupmachine()
\* copies extents, and mkopt() wants the last one made.
SelfContained ==
  /\ \A i \in DOMAIN stk :
       /\ {stk[i].m, nfas[stk[i].m].final} \subseteq Extent(stk[i].m)
       /\ \A s \in Extent(stk[i].m) : Range(nfas[s].to) \subseteq Extent(stk[i].m)
       /\ i > 1 => nfas[stk[i - 1].m].last < nfas[stk[i].m].first
  /\ stk # <<>> => nfas[Top(1).m].last = Len(nfas)

EpsReach(nf, S) ==
  LET reach[T \in SUBSET DOMAIN nf] ==
        LET more == T \cup UNION {Range(nf[s].to) : s \in {t \in T : nf[t].on = EPS}}
        IN  IF more = T THEN T ELSE reach[more]
  IN  reach[S]

Matches(sym, c) == sym = c \/ \E k \in DOMAIN AllCcls : sym = ClassSym(k) /\ ccl_contains(AllCcls[k], c)

\* The states a machine can be in after a word.
After(nf, m, w) ==
  LET at[i \in 0 .. Len(w)] ==
        EpsReach(nf, IF i = 0 THEN {m}
                     ELSE UNION {Range(nf[s].to) : s \in {t \in at[i - 1] : Matches(nf[t].on, w[i])}})
  IN  at[Len(w)]

\* Each machine on the stack matches what its pattern means, however the
\* machines it was made from were linked, copied and cut.
MachinesMatch ==
  \A v \in Range(stk) :
    LET n == AddAccept(nfas, v.m, 1)
    IN  \A w \in AllWords : n[v.m].final \in After(n, v.m, w) <=> w \in v.words

\* The rules that a state set accepts.
Numbers(nf, S) == {nf[s].acc : s \in S} \ {NIL}

\* So does each finished rule, and no later rule changes that.  The end of the
\* head of a variable trailing context is marked after the head's words.
RulesMatch ==
  pc = "parsed" =>
    \A k \in DOMAIN rules : \A w \in AllWords :
      LET numbers == Numbers(nfas, After(nfas, rules[k].m, w))
      IN  /\ k \in numbers <=> w \in Cat(rules[k].head, rules[k].trail)
          /\ k + YY_TRAILING_HEAD_MASK \in numbers <=> rules[k].variable /\ w \in rules[k].head
          /\ numbers \subseteq {k, k + YY_TRAILING_HEAD_MASK}

\* What the action of a rule gives back is the trailing context: by the length
\* of the head, or else of the context, every match is cut at the same place.
CutsAtHead ==
  \A k \in DOMAIN rules : ~rules[k].variable =>
    \A h \in rules[k].head, t \in rules[k].trail :
      IF rules[k].headcnt > 0 THEN Len(h) = rules[k].headcnt ELSE Len(t) = rules[k].trailcnt

\* A '.' that matches a newline and a union of classes say nothing of newlines,
\* and letters are none.
NewlinesKnown ==
  /\ TRUE \notin Dots
  /\ \A i \in DOMAIN CclOps : CclOps[i].op = "{+}" => NL \notin Members(CclOps[i].a) \cup Members(CclOps[i].b)
  /\ \A p \in Cases : NL \notin {p[1], p[2]}

\* Without those, a rule whose text may hold a newline says so, for yylineno.
\* The default rule does not.
NewlinesNoticed ==
  \A k \in DOMAIN rules :
    (pc = "parsed" => k < Len(rules)) /\ (\E h \in rules[k].head : NL \in Range(h))
      => rules[k].has_nl
=============================================================================
