----------------------------- MODULE MCScanner -----------------------------
(***************************************************************************)
(* Scanner on a small automaton, that of the rules                         *)
(*    1:  a      2:  a(\n\0)+      3:  \n      4:  . (the default rule)    *)
(* with a = 1 and \n = 2.  The second rule backs up, over NULs too, and    *)
(* outgrows the buffer.                                                    *)
(***************************************************************************)
EXTENDS Scanner

CONSTANT MaxLen  \* bound: the characters of the whole input

MCRules == 1 .. 4

\* States: 1 start, 2 after a, 3 after a\n, 4 after a\n\0, 5 after \n, 6 after \0.
MCDelta == << 0 :> 6 @@ 1 :> 2 @@ 2 :> 5,
              0 :> 0 @@ 1 :> 0 @@ 2 :> 3,
              0 :> 4 @@ 1 :> 0 @@ 2 :> 0,
              0 :> 0 @@ 1 :> 0 @@ 2 :> 3,
              0 :> 0 @@ 1 :> 0 @@ 2 :> 0,
              0 :> 0 @@ 1 :> 0 @@ 2 :> 0 >>

MCAccept == <<0, 1, 0, 2, 3, 4>>

\* With its rule for \n the automaton has no newline that goes unnoticed.
ASSUME NewlinesAssumption == NewlineRulesKnown

\* One segment or two: all the short ones, and longer ones that make the
\* second rule grow the buffer, back up, meet a NUL or meet the end of a segment.
MCInputs ==
  {<<s>> : s \in BoundedSeq({0, 1, 2}, MaxLen)}
  \cup {<<s>> : s \in {<<1, 2, 0, 1>>, <<1, 2, 0, 2>>, <<1, 2, 1, 2, 0>>, <<1, 2, 0, 2, 0>>}}
  \cup {<<s, t>> : s \in {<<>>, <<1>>, <<1, 2>>}, t \in {<<>>, <<0>>, <<0, 2>>, <<2, 0>>}}
=============================================================================
