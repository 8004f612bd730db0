----------------------------- MODULE MCReject -----------------------------
(***************************************************************************)
(* Reject with rules that overlap: without trailing context, with one such *)
(* rule, and with two whose heads end in the same states.                  *)
(***************************************************************************)
EXTENDS Reject

Plain(words) == [variable |-> FALSE, head |-> words, trail |-> {<<>>}]
Trailing(head, trail) == [variable |-> TRUE, head |-> head, trail |-> trail]
Default == Plain({<<"a">>, <<"b">>})

a == <<"a">>
b == <<"b">>
MCRuleSets == {
  <<Plain({a, a \o b}), Plain({a \o b, a \o b \o a}), Default>>,
  <<Plain({a \o b}), Trailing({a, a \o a}, {b, b \o b}), Plain({a \o a \o b}), Default>>,
  <<Trailing({a, a \o b}, {b \o a, a, a \o a}), Trailing({a \o b, a}, {a, b}), Default>>,
  <<Trailing({a, a \o a}, {<<>>, a, a \o b}), Plain({a \o a \o a}), Default>> }
MCTexts == SeqOf({"a", "b"}, 5)
=============================================================================
