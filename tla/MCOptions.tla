----------------------------- MODULE MCOptions -----------------------------
(***************************************************************************)
(* Options with the part of flexopts[] that sets flags, and each kind of   *)
(* argument.  Words are spelled in pieces, so that some share a prefix.    *)
(***************************************************************************)
EXTENDS Options

O(letter, val, arg) == [long |-> FALSE, name |-> <<letter>>, val |-> val, arg |-> arg]
L(name, val, arg) == [long |-> TRUE, name |-> name, val |-> val, arg |-> arg]
MCOpts == <<
  O("7", "OPT_7BIT", "none"), L(<<"7bit">>, "OPT_7BIT", "none"), O("8", "OPT_8BIT", "none"),
  L(<<"array">>, "OPT_ARRAY", "none"), O("B", "OPT_BATCH", "none"),
  L(<<"b", "ison-bridge">>, "OPT_BISON_BRIDGE", "none"),
  O("C", "OPT_COMPRESSION", "optional"), O("+", "OPT_CPLUSPLUS", "none"),
  L(<<"ecs">>, "OPT_ECS", "none"), L(<<"no", "ecs">>, "OPT_NO_ECS", "none"),
  O("F", "OPT_FAST", "none"), L(<<"f", "ast">>, "OPT_FAST", "none"),
  O("f", "OPT_FULL", "none"), L(<<"f", "ull">>, "OPT_FULL", "none"),
  O("h", "OPT_HELP", "none"), O("I", "OPT_INTERACTIVE", "none"),
  O("l", "OPT_LEX_COMPAT", "none"), L(<<"main">>, "OPT_MAIN", "none"),
  L(<<"meta-ecs">>, "OPT_META_ECS", "none"), L(<<"no", "meta-ecs">>, "OPT_NO_META_ECS", "none"),
  O("o", "OPT_OUTFILE", "required"), L(<<"outfile">>, "OPT_OUTFILE", "required"),
  L(<<"pointer">>, "OPT_POINTER", "none"),
  L(<<"re", "ad">>, "OPT_READ", "none"), O("R", "OPT_REENTRANT", "none"),
  L(<<"re", "entrant">>, "OPT_REENTRANT", "none"),
  L(<<"no", "re", "entrant">>, "OPT_NO_REENTRANT", "none"),
  L(<<"re", "ject">>, "OPT_REJECT", "none"), L(<<"no", "re", "ject">>, "OPT_NO_REJECT", "none"),
  L(<<"tables-", "file">>, "OPT_TABLES_FILE", "optional"),
  L(<<"tables-", "verify">>, "OPT_TABLES_VERIFY", "none"),
  O("V", "OPT_VERSION", "none"),
  L(<<"yylineno">>, "OPT_YYLINENO", "none"), L(<<"no", "yylineno">>, "OPT_NO_YYLINENO", "none"),
  L(<<"yymore">>, "OPT_YYMORE", "none"), L(<<"no", "yymore">>, "OPT_NO_YYMORE", "none"),
  L(<<"no", "yywrap">>, "OPT_NO_YYWRAP", "none"), L(<<"yywrap">>, "OPT_YYWRAP", "none") >>

\* Runs with and without arguments, known and unknown; every word, cut short,
\* and with "=".
Runs == {Short(r) : r \in {<<"C", "f">>, <<"C", "e", "m">>, <<"C">>, <<"C", "x">>, <<"f", "I">>,
                           <<"+", "C", "F">>, <<"l">>, <<"V">>, <<"o">>, <<"I", "o", "f">>, <<"I", "z">>}}
Words == {Long(MCOpts[i].name, FALSE) : i \in {j \in DOMAIN MCOpts : MCOpts[j].long}}
Others == {Long(<<"f">>, FALSE), Long(<<"no", "re">>, FALSE), Long(<<"b">>, FALSE), Long(<<>>, TRUE),
           Long(<<"outfile">>, TRUE), Long(<<"tables-", "file">>, TRUE), Long(<<"yymore">>, TRUE)}
Elements == Runs \cup Words \cup Others \cup {End, Operand}
Few == {Short(<<"o">>), Short(<<"f", "I">>), Long(<<"outfile">>, FALSE), Long(<<"f">>, FALSE),
        Short(<<"C", "e", "m">>), End, Operand}
MCArgvs == SeqOf(Elements, 2) \cup SeqOf(Few, 4)
=============================================================================
