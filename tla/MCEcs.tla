------------------------------- MODULE MCEcs -------------------------------
(***************************************************************************)
(* Ecs with every character class and every character over a small         *)
(* alphabet, in every order of up to MaxCalls calls.                       *)
(***************************************************************************)
EXTENDS Ecs

MCTables == SUBSET (0 .. csize - 1)
MCSingles == 0 .. csize - 1
=============================================================================
