------------------------------- MODULE MCDfa -------------------------------
(***************************************************************************)
(* Dfa over the characters NUL = 0, a = 1, b = 2 and \n = 3, with the      *)
(* class [\0b], '.', and an exclusive start condition.                     *)
(***************************************************************************)
EXTENDS Dfa

MCCcls == <<[table |-> {0, 2}, ng |-> FALSE]>>
NulCcls == <<[table |-> {0, 2}, ng |-> TRUE]>>
MCCclOps == <<>>
MCRepeats == {<<0, 2>>, <<3, 3>>}
MCBudgets == {<<3>>, <<1, 1>>}
NulBudgets == {<<1>>}
MCExclusive == <<FALSE, TRUE>>
=============================================================================
