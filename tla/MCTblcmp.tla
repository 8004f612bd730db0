------------------------------ MODULE MCTblcmp ------------------------------
(***************************************************************************)
(* Tblcmp with four classes and four states.  The percentages are set so   *)
(* that with rows this small each decision of bldtbl() goes both ways, and *)
(* the queue of protos and the one-stack overflow.                         *)
(***************************************************************************)
EXTENDS Tblcmp

R(a, b, c, d, uniq) == [to |-> <<a, b, c, d>>, uniq |-> uniq]

\* No transition, one, all to the same state, nearly all, all different.
MCRows == {
  R(0, 0, 0, 0, {}), R(0, 0, 3, 0, {3}), R(0, 0, 0, 3, {4}),
  R(3, 3, 3, 3, {1}), R(3, 3, 0, 3, {1}), R(3, 3, 4, 3, {1, 3, 4}),
  R(3, 4, 1, 0, {1, 2, 3}), R(3, 4, 1, 3, {1, 2, 3}), R(0, 4, 0, 3, {2, 4}) }
=============================================================================
