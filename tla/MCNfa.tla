------------------------------- MODULE MCNfa -------------------------------
(***************************************************************************)
(* Nfa over the characters NUL = 0, a = 1, A = 2 and \n = 3, with the      *)
(* classes [^a], [^a]{-}[A] and [a]{+}[\0a].                               *)
(***************************************************************************)
EXTENDS Nfa

Of(table, ng) == [table |-> table, ng |-> ng]
MCCcls == <<Of({1}, TRUE)>>
MCCclOps == <<[op |-> "{-}", a |-> Of({1}, TRUE), b |-> Of({2}, FALSE)],
              [op |-> "{+}", a |-> Of({1}, FALSE), b |-> Of({0, 1}, FALSE)]>>
MCCases == {<<1, 2>>}
MCRepeats == {<<0, 2>>, <<2, 3>>}
MCBudgets == {<<4>>, <<1, 2>>}
CaseBudgets == {<<2>>}
MCExclusive == <<FALSE, TRUE>>

ASSUME NewlinesAssumption == NewlinesKnown
=============================================================================
