----------------------------- MODULE MCBuffers -----------------------------
(* Buffers with two files, three buffers and memory of one character. *)
EXTENDS Buffers
CONSTANTS f, g, b1, b2, b3

MCFiles == {f, g}
MCLengths == [s \in MCFiles |-> IF s = f THEN 3 ELSE 1]
MCHandles == {b1, b2, b3}
MCStrings == {1}
MCCalls == 3
Alike == Permutations(MCHandles)
=============================================================================
