------------------------------ MODULE Options ------------------------------
(***************************************************************************)
(* The options: the command line (scanopt.cpp, flexinit() in flexmain.cpp, *)
(* the table of options.cpp), the %option lines of the first section       *)
(* (scan.l), and what check_options() and readin() make of them before the *)
(* rules become tables.                                                    *)
(*                                                                         *)
(* A command line is a sequence of elements, each a run of letters behind  *)
(* one dash, a word behind two with or without "=", "--", or an operand.   *)
(* Options that only write text have no effect here.                       *)
(***************************************************************************)
EXTENDS Integers, SequencesExt, FiniteSetsExt

CONSTANTS
  Opts,       \* bound: the table of the options, a part of flexopts[]
  Argvs,      \* bound: the command lines
  Settings,   \* bound: the options that %option lines may set or unset
  MaxLines,   \* bound: how many of them
  unspecified \* the value of a flag that nobody has set

Kinds == {"none", "required", "optional"}
Short(letters) == [kind |-> "short", letters |-> letters]
Long(name, eq) == [kind |-> "long", name |-> name, eq |-> eq]
End == [kind |-> "end"]
Operand == [kind |-> "operand"]

\* A short option is named by one letter.
ASSUME OptsAssumption ==
  /\ Opts \in Seq(Range(Opts))
  /\ \A i \in DOMAIN Opts :
       /\ Opts[i].arg \in Kinds /\ Opts[i].long \in BOOLEAN /\ Opts[i].name # <<>>
       /\ ~Opts[i].long => Opts[i].name = <<Opts[i].name[1]>>

\* The letters of a run are a sequence that is not empty; a "--" and an operand
\* are told apart by their kind alone.
IsElement(e) ==
  \/ e.kind = "short" /\ e.letters # <<>> /\ e.letters \in Seq(Range(e.letters))
  \/ e.kind = "long" /\ e.eq \in BOOLEAN
  \/ e \in {End, Operand}
IsCommandLine(a) == a \in Seq(Range(a)) /\ \A i \in DOMAIN a : IsElement(a[i])
ASSUME ArgvsAssumption == \A a \in Argvs : IsCommandLine(a)

OptionNames == {
  "7bit", "array", "pointer", "batch", "interactive", "always-interactive", "bison-bridge",
  "bison-locations", "c++", "ecs", "meta-ecs", "full", "fast", "lex-compat", "main", "read",
  "reentrant", "reject", "yymore", "yylineno", "yywrap", "tables-verify"}
ASSUME SettingsAssumption == Settings \subseteq OptionNames
ASSUME UnspecifiedAssumption == unspecified \notin BOOLEAN /\ unspecified \notin {128, 256}

VARIABLES
  pc,
  argv, index, subscript,   \* scanopt() is about to read argv[index][subscript]
  optind,                   \* where the operands begin
  read,                     \* the options read: which, where, and its argument
  flags,                    \* the globals of flexmain.cpp
  lines,                    \* the %option lines so far
  actions                   \* what the actions of the rules use

commandline == <<argv, index, subscript, optind, read>>
vars == <<pc, commandline, flags, lines, actions>>

argc == Len(argv) + 1

----------------------------------------------------------------------------
(* scanopt()                                                               *)

\* An argument is the place in argv where it begins.
NoArg == <<>>

First(S) == {i \in S : \A j \in S : i <= j}
Final(S) == {i \in S : \A j \in S : j <= i}

\* find_opt(): an exact match, or a prefix that names one option; ambiguity
\* is no error between neighbours in the table with the same value.
FindLong_AnyMatch(name) ==
  LET matches == {i \in DOMAIN Opts : Opts[i].long /\ IsPrefix(name, Opts[i].name)}
  IN  Final(matches)
FindLong(name) ==
  LET matches == {i \in DOMAIN Opts : Opts[i].long /\ IsPrefix(name, Opts[i].name)}
      exact == {i \in matches : Opts[i].name = name}
      counted == {i \in matches : LET before == {j \in matches : j < i}
                                  IN  before = {} \/ Opts[Max(before)].val # Opts[i].val}
  IN  IF exact # {} THEN First(exact)
      ELSE IF Cardinality(counted) = 1 THEN Final(matches) ELSE {}

FindShort(letter) ==
  LET matches == {i \in DOMAIN Opts : ~Opts[i].long /\ Opts[i].name[1] = letter}
  IN  IF Cardinality(matches) = 1 THEN matches ELSE {}

\* What a call of scanopt() finds: the option, the place it is read from, and
\* the text that follows it there.
Element == argv[index]
AtOption == index < argc /\ Element.kind \in {"short", "long"}
InRun == Element.kind = "short"
Place == IF subscript = 0 THEN 1 ELSE subscript
Found == IF InRun THEN FindShort(Element.letters[Place]) ELSE FindLong(Element.name)
Trailing == IF InRun
            THEN IF Place < Len(Element.letters) THEN <<index, Place + 1>> ELSE NoArg
            ELSE IF Element.eq THEN <<index, 0>> ELSE NoArg
HasNext_Any == index + 1 < argc
HasNext == index + 1 < argc /\ argv[index + 1].kind # "end"

\* No error: the option is known, and has an argument if and only if it must.
Understood(o) ==
  CASE o.arg = "none" -> InRun \/ Trailing = NoArg
    [] o.arg = "required" -> Trailing # NoArg \/ HasNext
    [] o.arg = "optional" -> TRUE

ArgOf(o) ==
  CASE o.arg = "none" -> NoArg
    [] o.arg = "required" -> IF Trailing # NoArg THEN Trailing ELSE <<index + 1, 0>>
    [] o.arg = "optional" -> Trailing

\* INC_INDEX, or the next letter of a run.
Advance_KeepSubscript(o) ==
  IF o.arg = "none" /\ Trailing # NoArg
  THEN index' = index /\ subscript' = Place + 1
  ELSE /\ index' = index + IF o.arg = "required" /\ Trailing = NoArg THEN 2 ELSE 1
       /\ subscript' = subscript
Advance_NotOptional(o) ==
  IF o.arg = "none" /\ Trailing # NoArg
  THEN index' = index /\ subscript' = Place + 1
  ELSE /\ index' = index + CASE o.arg = "required" /\ Trailing = NoArg -> 2
                             [] o.arg = "optional" /\ Trailing = NoArg -> 0
                             [] OTHER -> 1
       /\ subscript' = 0
Advance(o) ==
  IF o.arg = "none" /\ Trailing # NoArg
  THEN index' = index /\ subscript' = Place + 1
  ELSE /\ index' = index + IF o.arg = "required" /\ Trailing = NoArg THEN 2 ELSE 1
       /\ subscript' = 0

----------------------------------------------------------------------------
(* flexinit(): what the options set                                        *)

Defaults == [
  useecs |-> TRUE, usemecs |-> TRUE, fulltbl |-> FALSE, fullspd |-> FALSE,
  sawcmpflag |-> FALSE, use_read |-> FALSE, csize |-> unspecified,
  interactive |-> unspecified, lex_compat |-> FALSE, C_plus_plus |-> FALSE,
  reentrant |-> FALSE, bison_bridge_lval |-> FALSE, yytext_is_array |-> FALSE,
  do_yylineno |-> FALSE, do_yywrap |-> TRUE, reject |-> FALSE, real_reject |-> FALSE,
  yymore_used |-> FALSE, yymore_really_used |-> unspecified,
  reject_really_used |-> unspecified, tablesext |-> FALSE, tablesverify |-> FALSE,
  tablesnamed |-> FALSE, gentables |-> TRUE]

FullTables == [useecs |-> FALSE, usemecs |-> FALSE, use_read |-> TRUE, fulltbl |-> TRUE]
FastTables == [useecs |-> FALSE, usemecs |-> FALSE, use_read |-> TRUE, fullspd |-> TRUE]

Assigned(e, f) == [x \in DOMAIN f |-> IF x \in DOMAIN e THEN e[x] ELSE f[x]]

\* Options that leave every flag of this module as it is.
Nothing == [f \in {} |-> FALSE]

Effect == [
  OPT_CPLUSPLUS |-> [C_plus_plus |-> TRUE], OPT_BATCH |-> [interactive |-> FALSE],
  OPT_FULL |-> FullTables, OPT_FAST |-> FastTables,
  OPT_INTERACTIVE |-> [interactive |-> TRUE], OPT_LEX_COMPAT |-> [lex_compat |-> TRUE],
  OPT_MAIN |-> [do_yywrap |-> FALSE], OPT_OUTFILE |-> Nothing,
  OPT_BISON_BRIDGE |-> [bison_bridge_lval |-> TRUE],
  OPT_REENTRANT |-> [reentrant |-> TRUE], OPT_NO_REENTRANT |-> [reentrant |-> FALSE],
  OPT_TABLES_VERIFY |-> [tablesverify |-> TRUE],
  OPT_7BIT |-> [csize |-> 128], OPT_8BIT |-> [csize |-> 256],
  OPT_ARRAY |-> [yytext_is_array |-> TRUE], OPT_POINTER |-> [yytext_is_array |-> FALSE],
  OPT_ECS |-> [useecs |-> TRUE], OPT_NO_ECS |-> [useecs |-> FALSE],
  OPT_META_ECS |-> [usemecs |-> TRUE], OPT_NO_META_ECS |-> [usemecs |-> FALSE],
  OPT_READ |-> [use_read |-> TRUE],
  OPT_YYLINENO |-> [do_yylineno |-> TRUE], OPT_NO_YYLINENO |-> [do_yylineno |-> FALSE],
  OPT_YYWRAP |-> [do_yywrap |-> TRUE], OPT_NO_YYWRAP |-> [do_yywrap |-> FALSE],
  OPT_YYMORE |-> [yymore_really_used |-> TRUE],
  OPT_NO_YYMORE |-> [yymore_really_used |-> FALSE],
  OPT_REJECT |-> [reject_really_used |-> TRUE],
  OPT_NO_REJECT |-> [reject_really_used |-> FALSE]]

\* The first -C takes the default compression back; its letters, and those of
\* the ones after it, add to what is set.
FirstCompression(f) ==
  IF f.sawcmpflag THEN f
  ELSE [f EXCEPT !.useecs = FALSE, !.usemecs = FALSE, !.fulltbl = FALSE, !.sawcmpflag = TRUE]
Letters(arg) ==
  IF arg = NoArg THEN <<>> ELSE SubSeq(argv[arg[1]].letters, arg[2], Len(argv[arg[1]].letters))
Compression == {"e", "F", "f", "m", "r"}
Compressed(f, used) ==
  [FirstCompression(f) EXCEPT
     !.useecs = @ \/ "e" \in used, !.fullspd = @ \/ "F" \in used, !.fulltbl = @ \/ "f" \in used,
     !.usemecs = @ \/ "m" \in used, !.use_read = @ \/ "r" \in used]

Init ==
  /\ pc = "argv" /\ argv \in Argvs /\ index = 1 /\ subscript = 0 /\ optind = 1
  /\ read = {} /\ flags = Defaults /\ lines = 0 /\ actions = {}

\* An option is found and understood.
ReadOption(o) ==
  /\ Understood(Opts[o])
  /\ read' = read \cup {[opt |-> o, at |-> <<index, Place>>, arg |-> ArgOf(Opts[o])]}
  /\ Advance(Opts[o])
  /\ UNCHANGED <<argv, optind, lines, actions>>

SetFlags(o) ==
  /\ Opts[o].val \in DOMAIN Effect
  /\ ReadOption(o)
  /\ flags' = Assigned(Effect[Opts[o].val], flags)
  /\ UNCHANGED pc

SetCompression(o) ==
  /\ Opts[o].val = "OPT_COMPRESSION"
  /\ ReadOption(o)
  /\ LET used == ToSet(Letters(ArgOf(Opts[o])))
     IN  IF used \subseteq Compression
         THEN flags' = Compressed(flags, used) /\ UNCHANGED pc
         ELSE pc' = "error" /\ UNCHANGED flags

\* The name of the file is assigned from a null pointer if there is none.
TablesFile(o) ==
  /\ Opts[o].val = "OPT_TABLES_FILE"
  /\ ReadOption(o)
  /\ flags' = [flags EXCEPT !.tablesext = TRUE, !.tablesnamed = TRUE]
  /\ pc' = IF ArgOf(Opts[o]) = NoArg THEN "error" ELSE pc

\* --help and --version.
PrintAndExit(o) ==
  /\ Opts[o].val \in {"OPT_HELP", "OPT_VERSION"}
  /\ ReadOption(o) /\ pc' = "exit" /\ UNCHANGED flags

ScanoptError ==
  /\ pc = "argv" /\ AtOption
  /\ \A o \in Found : ~Understood(Opts[o])
  /\ pc' = "error"
  /\ UNCHANGED <<commandline, flags, lines, actions>>

\* scanopt() returns 0: the rest are the input files.
OptionsEnd ==
  /\ pc = "argv" /\ ~AtOption
  /\ optind' = IF index < argc /\ Element.kind = "end" THEN index + 1 ELSE index
  /\ pc' = "operands"
  /\ UNCHANGED <<argv, index, subscript, read, flags, lines, actions>>

InputFiles ==
  /\ pc = "operands" /\ pc' = "section1"
  /\ argv' = <<>> /\ index' = 1 /\ subscript' = 0 /\ optind' = 1 /\ read' = {}
  /\ UNCHANGED <<flags, lines, actions>>
----------------------------------------------------------------------------
(* The first section: %option lines set or unset (scan.l)                  *)

\* "full" and "fast" do not look at the sense, nor does "main" when unset.
Setting(name, sense) ==
  CASE name = "7bit" -> [csize |-> IF sense THEN 128 ELSE 256]
    [] name = "array" -> [yytext_is_array |-> sense]
    [] name = "pointer" -> [yytext_is_array |-> ~sense]
    [] name = "batch" -> [interactive |-> ~sense]
    [] name \in {"interactive", "always-interactive"} -> [interactive |-> sense]
    [] name \in {"bison-bridge", "bison-locations"} ->
         IF sense \/ name = "bison-bridge" THEN [bison_bridge_lval |-> sense] ELSE Nothing
    [] name = "c++" -> [C_plus_plus |-> sense]
    [] name = "ecs" -> [useecs |-> sense]
    [] name = "meta-ecs" -> [usemecs |-> sense]
    [] name = "full" -> FullTables
    [] name = "fast" -> FastTables
    [] name = "lex-compat" -> [lex_compat |-> sense]
    [] name = "main" -> IF sense THEN [do_yywrap |-> FALSE] ELSE Nothing
    [] name = "read" -> [use_read |-> sense]
    [] name = "reentrant" -> [reentrant |-> sense]
    [] name = "reject" -> [reject_really_used |-> sense]
    [] name = "yymore" -> [yymore_really_used |-> sense]
    [] name = "yylineno" -> [do_yylineno |-> sense]
    [] name = "yywrap" -> [do_yywrap |-> sense]
    [] name = "tables-verify" ->
         IF sense THEN [tablesverify |-> TRUE, tablesext |-> TRUE] ELSE [tablesverify |-> FALSE]

OptionLine ==
  /\ pc = "section1" /\ lines < MaxLines
  /\ \E name \in Settings, sense \in BOOLEAN : flags' = Assigned(Setting(name, sense), flags)
  /\ lines' = lines + 1
  /\ UNCHANGED <<pc, commandline, actions>>

----------------------------------------------------------------------------
(* check_options(), at the end of the first section                        *)

LexConflict(f) ==
  f.lex_compat /\ (f.C_plus_plus \/ f.fulltbl \/ f.fullspd \/ f.reentrant \/ f.bison_bridge_lval)
LexCompat(f) ==
  IF f.lex_compat
  THEN [f EXCEPT !.yytext_is_array = TRUE, !.do_yylineno = TRUE, !.use_read = FALSE] ELSE f

\* What was left unspecified depends on the tables.
Specified(f) ==
  LET full == f.fulltbl \/ f.fullspd
  IN  [f EXCEPT !.csize = IF @ # unspecified THEN @
                          ELSE IF full /\ ~f.useecs THEN 128 ELSE 256,
                !.interactive = IF @ # unspecified THEN @ ELSE ~full]
TablesConflict(f) ==
  (f.fulltbl \/ f.fullspd) /\ (f.usemecs \/ f.interactive \/ (f.fulltbl /\ f.fullspd))

Cplusplus(f) == [f EXCEPT !.yytext_is_array = @ /\ ~f.C_plus_plus]
CplusplusConflict(f) ==
  f.C_plus_plus /\ (f.fullspd \/ f.reentrant \/ f.bison_bridge_lval)

Checked(f) ==
  LET g == Cplusplus(Specified(LexCompat(f)))
  IN  [g EXCEPT !.gentables = g.tablesverify \/ (@ /\ ~g.tablesext)]
Conflict(f) ==
  LexConflict(f) \/ TablesConflict(Specified(LexCompat(f))) \/ CplusplusConflict(f)

\* The file for the tables may not be created, and is not if it has no name:
\* the one made from the prefix is copied before it is made.
CheckOptions ==
  /\ pc = "section1"
  /\ IF Conflict(flags)
     THEN pc' = "error" /\ UNCHANGED flags
     ELSE /\ flags' = Checked(flags)
          /\ pc' \in {"rules"} \cup (IF flags.tablesext THEN {"error"} ELSE {})
          /\ pc' = "rules" /\ flags.tablesext => flags.tablesnamed
  /\ lines' = 0
  /\ UNCHANGED <<commandline, actions>>

----------------------------------------------------------------------------
(* The rules, and the decisions readin() takes after them                  *)

\* The scanner of the actions sees REJECT and yymore(); the parser, trailing
\* context of variable length.
Rules ==
  /\ pc = "rules"
  /\ \E used \in SUBSET {"REJECT", "yymore", "variable"} :
       /\ actions' = used
       /\ flags' = [flags EXCEPT !.reject = "REJECT" \in used, !.yymore_used = "yymore" \in used]
  /\ pc' = "readin"
  /\ UNCHANGED <<commandline, lines>>

\* %option has the last word on what is used.
Really(option, seen) == IF option = unspecified THEN seen ELSE option

Decided_VariableFirst(f, variable) ==
  LET reject == Really(f.reject_really_used, f.reject \/ variable)
  IN  [f EXCEPT !.yymore_used = Really(f.yymore_really_used, @),
                !.real_reject = reject, !.reject = reject]
Decided(f, variable) ==
  LET reject == Really(f.reject_really_used, f.reject)
  IN  [f EXCEPT !.yymore_used = Really(f.yymore_really_used, @),
                !.real_reject = reject, !.reject = reject \/ variable]

Readin ==
  /\ pc = "readin"
  /\ flags' = Decided(flags, "variable" \in actions)
  /\ pc' = IF flags'.reject /\ (flags.fulltbl \/ flags.fullspd) THEN "error" ELSE "generate"
  /\ UNCHANGED <<commandline, lines, actions>>

Stopped == {"generate", "error", "exit"}
Step ==
  \/ /\ pc = "argv" /\ AtOption
     /\ \E o \in Found : SetFlags(o) \/ SetCompression(o) \/ TablesFile(o) \/ PrintAndExit(o)
  \/ ScanoptError
  \/ OptionsEnd
  \/ InputFiles
  \/ OptionLine
  \/ CheckOptions
  \/ Rules
  \/ Readin
Terminated == pc \in Stopped /\ UNCHANGED vars
Next == Step \/ Terminated

\* One thread runs through all of it; nothing else can hold it up.
Spec == Init /\ [][Next]_vars /\ WF_vars(Step)

----------------------------------------------------------------------------
(* What must be true of it.                                                *)

OptionsTypeOK ==
  /\ pc \in {"argv", "operands", "section1", "rules", "readin"} \cup Stopped
  /\ index \in 1 .. argc /\ (pc = "operands" => optind \in 1 .. argc)
  /\ pc = "argv" /\ subscript > 0 => index < argc /\ InRun /\ subscript \in DOMAIN Element.letters
  /\ DOMAIN flags = DOMAIN Defaults
  /\ flags.csize \in {128, 256, unspecified}
  /\ flags.interactive \in BOOLEAN \cup {unspecified}

\* Every character of the command line before the operands is read as one
\* thing: an option, the argument of the option before it, or the "--" that
\* ends them; and an argument in an element of its own is never "--".
Units(i) == {<<i, k>> : k \in IF argv[i].kind = "short" THEN DOMAIN argv[i].letters ELSE {1}}
Taken(r) ==
  {r.at} \cup IF r.arg = NoArg THEN {}
             ELSE IF r.arg[1] # r.at[1] THEN Units(r.arg[1])
             ELSE {u \in Units(r.arg[1]) : u[2] >= r.arg[2] /\ argv[u[1]].kind = "short"}
AllTaken == UNION {Taken(r) : r \in read}
Ended == optind > 1 /\ argv[optind - 1] = End /\ <<optind - 1, 1>> \notin AllTaken
ArgvReadOnce ==
  /\ \A r, q \in read : r # q => Taken(r) \cap Taken(q) = {}
  /\ \A r \in read : r.arg # NoArg /\ r.arg[1] # r.at[1] => argv[r.arg[1]] # End
  /\ pc = "operands" =>
       /\ AllTaken = UNION {Units(i) : i \in 1 .. optind - (IF Ended THEN 2 ELSE 1)}
       /\ optind < argc /\ ~Ended => argv[optind] = Operand

\* An option read is the one that was meant: a letter names one, a word the
\* one it spells or the only meaning it can be short for.
OptionsMeant ==
  \A r \in read :
    LET o == Opts[r.opt]
        e == argv[r.at[1]]
        abbreviated == {Opts[i].val : i \in {j \in DOMAIN Opts :
                                              Opts[j].long /\ IsPrefix(e.name, Opts[j].name)}}
    IN  IF e.kind = "short"
        THEN ~o.long /\ o.name = <<e.letters[r.at[2]]>>
        ELSE o.long /\ (o.name = e.name \/ abbreviated = {o.val})

\* However the options came together, the tables and the code that make_tables()
\* and ntod() are told to make fit each other: one kind of table; no
\* back-tracking, meta-classes or interactive reading with full tables; no
\* %array in a C++ scanner; the state stack wherever a rule needs it.
ChoicesFit ==
  pc = "generate" =>
    /\ ~(flags.fulltbl /\ flags.fullspd)
    /\ flags.fulltbl \/ flags.fullspd =>
         ~flags.reject /\ ~flags.usemecs /\ ~flags.interactive /\ ~flags.lex_compat
    /\ flags.C_plus_plus =>
         ~flags.fullspd /\ ~flags.yytext_is_array /\ ~flags.reentrant /\ ~flags.bison_bridge_lval
    /\ flags.lex_compat => flags.yytext_is_array /\ flags.do_yylineno /\ ~flags.use_read
    /\ "variable" \in actions => flags.reject
    /\ "REJECT" \in actions /\ ~flags.reject => flags.reject_really_used = FALSE
    /\ flags.gentables \/ flags.tablesnamed
    /\ flags.csize # unspecified /\ flags.interactive # unspecified

\* flex comes to an end whatever the command line is.
Ends == <>(pc \in Stopped)
=============================================================================
