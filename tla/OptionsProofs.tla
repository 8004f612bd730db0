--------------------------- MODULE OptionsProofs ---------------------------
(***************************************************************************)
(* What Options.tla model-checks for some tables of options and command    *)
(* lines, proved for all.                                                  *)
(***************************************************************************)
EXTENDS Options, NumberLemmas, FiniteSetTheorems

Trits == BOOLEAN \cup {unspecified}

\* The flags as a record of the globals, some of which have three values.
FlagsOK(f) ==
  /\ DOMAIN f = DOMAIN Defaults
  /\ f.csize \in {128, 256, unspecified}
  /\ f.interactive \in Trits
  /\ f.reject_really_used \in Trits

\* Assignments that keep to that and leave gentables alone.
Assigns(e) ==
  /\ "gentables" \notin DOMAIN e
  /\ "csize" \in DOMAIN e => e["csize"] \in {128, 256}
  /\ "interactive" \in DOMAIN e => e["interactive"] \in BOOLEAN
  /\ "reject_really_used" \in DOMAIN e => e["reject_really_used"] \in BOOLEAN

LEMMA EffectAssigns == \A v \in DOMAIN Effect : Assigns(Effect[v])
<1> DEFINE typed == {"OPT_7BIT", "OPT_8BIT", "OPT_BATCH", "OPT_INTERACTIVE", "OPT_REJECT",
                     "OPT_NO_REJECT", "OPT_FULL", "OPT_FAST", "OPT_OUTFILE"}
<1> SUFFICES ASSUME NEW v \in DOMAIN Effect PROVE Assigns(Effect[v])
  OBVIOUS
<1>1. Assigns(Effect["OPT_7BIT"]) /\ Assigns(Effect["OPT_8BIT"])
  BY DEF Effect, Assigns
<1>2. Assigns(Effect["OPT_BATCH"]) /\ Assigns(Effect["OPT_INTERACTIVE"])
  BY DEF Effect, Assigns
<1>3. Assigns(Effect["OPT_REJECT"]) /\ Assigns(Effect["OPT_NO_REJECT"])
  BY DEF Effect, Assigns
<1>4. Assigns(Effect["OPT_FULL"]) /\ Assigns(Effect["OPT_FAST"])
  BY DEF Effect, Assigns, FullTables, FastTables
<1>5. Assigns(Effect["OPT_OUTFILE"])
  BY DEF Effect, Assigns, Nothing
<1>6. CASE v \in typed
  BY <1>6, <1>1, <1>2, <1>3, <1>4, <1>5
<1>7. CASE v \notin typed
  <2>1. DOMAIN Effect[v] \cap {"csize", "interactive", "reject_really_used", "gentables"} = {}
    BY <1>7, SMTT(60) DEF Effect
  <2> QED BY <2>1 DEF Assigns
<1> QED BY <1>6, <1>7

LEMMA SettingAssigns ==
  ASSUME NEW name \in Settings, NEW sense \in BOOLEAN
  PROVE  Assigns(Setting(name, sense))
<1>1. CASE name = "7bit"
  BY <1>1 DEF Assigns, Setting
<1>2. CASE name \in {"batch", "interactive", "always-interactive"}
  BY <1>2 DEF Assigns, Setting
<1>3. CASE name = "reject"
  BY <1>3 DEF Assigns, Setting
<1>4. CASE name \in {"full", "fast"}
  <2>1. Setting(name, sense) \in {FullTables, FastTables}
    BY <1>4 DEF Setting
  <2>2. Assigns(FullTables) /\ Assigns(FastTables)
    BY DEF Assigns, FullTables, FastTables
  <2> QED BY <2>1, <2>2
<1>5. CASE name \notin {"7bit", "batch", "interactive", "always-interactive",
                        "reject", "full", "fast"}
  <2>1. DOMAIN Setting(name, sense)
          \cap {"csize", "interactive", "reject_really_used", "gentables"} = {}
    BY <1>5, SettingsAssumption DEF OptionNames, Setting, Nothing
  <2> QED BY <2>1 DEF Assigns
<1> QED BY <1>1, <1>2, <1>3, <1>4, <1>5

LEMMA AssignedFlags ==
  ASSUME NEW f, FlagsOK(f), NEW e, Assigns(e)
  PROVE  FlagsOK(Assigned(e, f)) /\ Assigned(e, f).gentables = f.gentables
BY DEF FlagsOK, Assigns, Assigned, Defaults, Trits

LEMMA CompressedFlags ==
  ASSUME NEW f, FlagsOK(f), NEW used
  PROVE  FlagsOK(Compressed(f, used)) /\ Compressed(f, used).gentables = f.gentables
BY DEF FlagsOK, Compressed, FirstCompression, Defaults

----------------------------------------------------------------------------
(* The flags from the command line to the tables.                          *)

\* What check_options() has seen to, and what is decided after it keeps.
Fits(f) ==
  /\ ~(f.fulltbl /\ f.fullspd)
  /\ f.fulltbl \/ f.fullspd => ~f.usemecs /\ ~f.interactive /\ ~f.lex_compat
  /\ f.C_plus_plus =>
       ~f.fullspd /\ ~f.yytext_is_array /\ ~f.reentrant /\ ~f.bison_bridge_lval
  /\ f.lex_compat => f.yytext_is_array /\ f.do_yylineno /\ ~f.use_read
  /\ f.gentables \/ f.tablesnamed
  /\ f.csize # unspecified /\ f.interactive # unspecified

FlagsInv ==
  /\ FlagsOK(flags)
  /\ pc \in {"argv", "operands", "section1"} => flags.gentables
  /\ pc \in {"rules", "readin", "generate"} => Fits(flags)
  /\ pc = "readin" => flags.reject = ("REJECT" \in actions)
  /\ pc = "generate" =>
       /\ flags.fulltbl \/ flags.fullspd => ~flags.reject
       /\ "variable" \in actions => flags.reject
       /\ "REJECT" \in actions /\ ~flags.reject => flags.reject_really_used = FALSE

LEMMA CheckedOK ==
  ASSUME NEW f, FlagsOK(f)
  PROVE  FlagsOK(Checked(f))
<1>1. FlagsOK(LexCompat(f))
  BY DEF FlagsOK, LexCompat, Defaults
<1>2. FlagsOK(Specified(LexCompat(f)))
  BY <1>1 DEF FlagsOK, Specified, Defaults, Trits
<1>3. FlagsOK(Cplusplus(Specified(LexCompat(f))))
  BY <1>2 DEF FlagsOK, Cplusplus, Defaults
<1> QED BY <1>3 DEF FlagsOK, Checked, Defaults

LEMMA CheckedFits ==
  ASSUME NEW f, FlagsOK(f), ~Conflict(f), f.gentables, f.tablesext => f.tablesnamed
  PROVE  Fits(Checked(f))
<1> DEFINE l == LexCompat(f)
           s == Specified(l)
           g == Cplusplus(s)
           kept == {"fulltbl", "fullspd", "usemecs", "lex_compat", "C_plus_plus", "reentrant",
                    "bison_bridge_lval", "gentables", "tablesnamed", "tablesext"}
<1>1. /\ DOMAIN l = DOMAIN Defaults
      /\ \A x \in kept : l[x] = f[x]
      /\ f.lex_compat => l.yytext_is_array /\ l.do_yylineno /\ ~l.use_read
  BY DEF FlagsOK, LexCompat, Defaults
<1>2. /\ DOMAIN s = DOMAIN Defaults
      /\ \A x \in kept \cup {"yytext_is_array", "do_yylineno", "use_read"} : s[x] = l[x]
      /\ s.csize # unspecified /\ s.interactive # unspecified
  <2> HIDE DEF l
  <2>1. DOMAIN s = DOMAIN Defaults /\ \A x \in DOMAIN l \ {"csize", "interactive"} : s[x] = l[x]
    BY <1>1 DEF Specified
  <2>2. s.csize # unspecified /\ s.interactive # unspecified
    BY <1>1, UnspecifiedAssumption DEF Specified, Defaults
  <2>3. kept \cup {"yytext_is_array", "do_yylineno", "use_read"}
          \subseteq DOMAIN l \ {"csize", "interactive"}
    BY <1>1 DEF Defaults
  <2> QED BY <2>1, <2>2, <2>3
<1>3. /\ DOMAIN g = DOMAIN Defaults
      /\ \A x \in kept \cup {"csize", "interactive", "do_yylineno", "use_read"} : g[x] = s[x]
      /\ g.yytext_is_array = (s.yytext_is_array /\ ~s.C_plus_plus)
  BY <1>2 DEF Cplusplus, Defaults
<1>4. /\ \A x \in DOMAIN g \ {"gentables"} : Checked(f)[x] = g[x]
      /\ Checked(f).gentables = (g.tablesverify \/ (g.gentables /\ ~g.tablesext))
  BY <1>3 DEF Checked, Defaults
<1> DEFINE k == Checked(f)
<1> HIDE DEF l, s, g, k
<1>5. \A x \in DOMAIN g \ {"gentables"} : k[x] = g[x]
  BY <1>4 DEF k
<1>6. /\ k.fulltbl = f.fulltbl /\ k.fullspd = f.fullspd /\ k.usemecs = f.usemecs
      /\ k.lex_compat = f.lex_compat /\ k.C_plus_plus = f.C_plus_plus
      /\ k.reentrant = f.reentrant /\ k.bison_bridge_lval = f.bison_bridge_lval
      /\ k.tablesnamed = f.tablesnamed
  <2>1. \A x \in kept : g[x] = f[x]
    BY <1>1, <1>2, <1>3
  <2>2. kept \ {"gentables"} \subseteq DOMAIN g \ {"gentables"}
    BY <1>3 DEF Defaults
  <2>3. \A x \in kept \ {"gentables"} : k[x] = f[x]
    BY <1>5, <2>1, <2>2
  <2> QED
    BY <2>3
<1>7. k.interactive = s.interactive /\ k.csize = s.csize
  BY <1>3, <1>5 DEF Defaults
<1>8. /\ k.do_yylineno = l.do_yylineno /\ k.use_read = l.use_read
      /\ k.yytext_is_array = (l.yytext_is_array /\ ~f.C_plus_plus)
  <2>1. k.do_yylineno = g.do_yylineno /\ k.use_read = g.use_read
        /\ k.yytext_is_array = g.yytext_is_array
    BY <1>3, <1>5 DEF Defaults
  <2>2. g.do_yylineno = l.do_yylineno /\ g.use_read = l.use_read
        /\ s.yytext_is_array = l.yytext_is_array
    BY <1>2, <1>3
  <2>3. s.C_plus_plus = f.C_plus_plus
    BY <1>1, <1>2
  <2> QED
    BY <1>3, <2>1, <2>2, <2>3
<1>9. ~LexConflict(f) /\ ~TablesConflict(s) /\ ~CplusplusConflict(f)
  BY DEF Conflict, s, l
<1>10. /\ ~(f.fulltbl /\ f.fullspd)
       /\ f.fulltbl \/ f.fullspd => ~f.usemecs /\ ~s.interactive
  <2>1. s.fulltbl = f.fulltbl /\ s.fullspd = f.fullspd /\ s.usemecs = f.usemecs
    BY <1>1, <1>2
  <2> QED
    BY <1>9, <2>1 DEF TablesConflict
<1>11. k.gentables \/ k.tablesnamed
  <2>1. g.gentables = f.gentables /\ g.tablesext = f.tablesext
    BY <1>1, <1>2, <1>3
  <2>2. k.gentables = (g.tablesverify \/ (g.gentables /\ ~g.tablesext))
    BY <1>4 DEF k
  <2> QED
    BY <1>6, <2>1, <2>2
<1>12. k.csize # unspecified /\ k.interactive # unspecified
  BY <1>2, <1>7
<1>13. k.C_plus_plus =>
         ~k.fullspd /\ ~k.yytext_is_array /\ ~k.reentrant /\ ~k.bison_bridge_lval
  BY <1>6, <1>8, <1>9 DEF CplusplusConflict
<1>14. k.lex_compat => k.yytext_is_array /\ k.do_yylineno /\ ~k.use_read
  BY <1>1, <1>6, <1>8, <1>9 DEF LexConflict
<1>15. k.fulltbl \/ k.fullspd => ~k.usemecs /\ ~k.interactive /\ ~k.lex_compat
  BY <1>6, <1>7, <1>9, <1>10 DEF LexConflict
<1>16. Fits(k)
  BY <1>6, <1>10, <1>11, <1>12, <1>13, <1>14, <1>15 DEF Fits
<1> QED
  BY <1>16 DEF k

LEMMA FlagsInit == Init => FlagsInv
BY DEF Init, FlagsInv, FlagsOK, Defaults, Trits

LEMMA FlagsStep == FlagsInv /\ [Next]_vars => FlagsInv'
<1> SUFFICES ASSUME FlagsInv, [Next]_vars PROVE FlagsInv'
  OBVIOUS
<1> USE DEF FlagsInv
<1>1. ASSUME NEW o \in Found, pc = "argv", SetFlags(o) PROVE FlagsInv'
  BY <1>1, EffectAssigns, AssignedFlags DEF SetFlags
<1>2. ASSUME NEW o \in Found, pc = "argv", SetCompression(o) PROVE FlagsInv'
  BY <1>2, CompressedFlags DEF SetCompression
<1>3. ASSUME NEW o \in Found, pc = "argv", TablesFile(o) PROVE FlagsInv'
  BY <1>3 DEF TablesFile, FlagsOK, Defaults
<1>4. ASSUME NEW o \in Found, pc = "argv", PrintAndExit(o) PROVE FlagsInv'
  BY <1>4 DEF PrintAndExit
<1>5. CASE ScanoptError
  BY <1>5 DEF ScanoptError
<1>6. CASE OptionsEnd
  BY <1>6 DEF OptionsEnd
<1>7. CASE InputFiles
  BY <1>7 DEF InputFiles
<1>8. CASE OptionLine
  BY <1>8, SettingAssigns, AssignedFlags DEF OptionLine
<1>9. CASE CheckOptions
  BY <1>9, CheckedOK, CheckedFits DEF CheckOptions
<1>10. CASE Rules
  BY <1>10 DEF Rules, FlagsOK, Fits, Defaults
<1>11. CASE Readin
  <2> DEFINE seen == "variable" \in actions
             r == Really(flags.reject_really_used, flags.reject)
             kept == DOMAIN Defaults \ {"yymore_used", "real_reject", "reject"}
  <2>1. pc = "readin" /\ FlagsOK(flags) /\ Fits(flags) /\ flags.reject = ("REJECT" \in actions)
    BY <1>11 DEF Readin
  <2>2. flags' = Decided(flags, seen) /\ pc' \in {"generate", "error"} /\ UNCHANGED actions
    BY <1>11 DEF Readin
  <2>3. DOMAIN flags' = DOMAIN Defaults /\ \A x \in kept : flags'[x] = flags[x]
    BY <2>1, <2>2 DEF Decided, FlagsOK
  <2>4. "reject" \in DOMAIN flags /\ "real_reject" \in DOMAIN flags
    BY <2>1 DEF FlagsOK, Defaults
  <2>5. flags'.reject = (r \/ seen) /\ flags'.real_reject = r
    BY <2>2, <2>4 DEF Decided
  <2>6. {"fulltbl", "fullspd", "usemecs", "interactive", "lex_compat", "C_plus_plus", "yytext_is_array",
         "reentrant", "bison_bridge_lval", "do_yylineno", "use_read", "gentables", "tablesnamed",
         "csize", "reject_really_used"} \subseteq kept
    BY DEF Defaults
  <2> HIDE DEF kept
  <2>7. FlagsOK(flags)' /\ Fits(flags)'
    <3>1. flags'.csize = flags.csize /\ flags'.interactive = flags.interactive
          /\ flags'.reject_really_used = flags.reject_really_used
      BY <2>3, <2>6
    <3>2. FlagsOK(flags)'
      BY <2>1, <2>3, <3>1 DEF FlagsOK
    <3>3. /\ flags'.fulltbl = flags.fulltbl /\ flags'.fullspd = flags.fullspd
          /\ flags'.usemecs = flags.usemecs /\ flags'.lex_compat = flags.lex_compat
          /\ flags'.C_plus_plus = flags.C_plus_plus /\ flags'.yytext_is_array = flags.yytext_is_array
          /\ flags'.reentrant = flags.reentrant /\ flags'.bison_bridge_lval = flags.bison_bridge_lval
          /\ flags'.do_yylineno = flags.do_yylineno /\ flags'.use_read = flags.use_read
          /\ flags'.gentables = flags.gentables /\ flags'.tablesnamed = flags.tablesnamed
      BY <2>3, <2>6
    <3> QED
      BY <2>1, <3>1, <3>2, <3>3 DEF Fits
  <2>8. pc' = "generate" => ~(flags'.reject /\ (flags.fulltbl \/ flags.fullspd))
    BY <1>11 DEF Readin
  <2>9. flags'.fulltbl = flags.fulltbl /\ flags'.fullspd = flags.fullspd
        /\ flags'.reject_really_used = flags.reject_really_used
    BY <2>3, <2>6
  <2>10. "REJECT" \in actions /\ ~flags'.reject => flags'.reject_really_used = FALSE
    <3>1. r = flags.reject_really_used \/ r = flags.reject
      BY DEF Really
    <3>2. flags.reject_really_used \in Trits
      BY <2>1 DEF FlagsOK
    <3>3. CASE flags.reject_really_used = unspecified
      BY <2>1, <2>5, <3>3 DEF Really
    <3>4. CASE flags.reject_really_used \in BOOLEAN
      BY <2>5, <2>9, <3>4, UnspecifiedAssumption DEF Really
    <3> QED
      BY <3>2, <3>3, <3>4 DEF Trits
  <2> QED
    BY <2>2, <2>5, <2>7, <2>8, <2>9, <2>10
<1>12. CASE UNCHANGED vars
  BY <1>12 DEF vars
<1> QED
  BY <1>1, <1>2, <1>3, <1>4, <1>5, <1>6, <1>7, <1>8, <1>9, <1>10, <1>11, <1>12
     DEF Next, Step, Terminated

\* Whatever the table of options, the command line and the %option lines: the
\* tables and the code that flex goes on to make fit each other, as make_tables()
\* and ntod() rely on.
THEOREM ChoicesAlwaysFit == Spec => []ChoicesFit
<1>1. FlagsInv => ChoicesFit
  BY DEF FlagsInv, Fits, ChoicesFit
<1> QED BY <1>1, FlagsInit, FlagsStep, PTL DEF Spec

----------------------------------------------------------------------------
(* The command line.                                                       *)

\* What lies before a position of scanopt().
Before(i, s) == (UNION {Units(j) : j \in 1 .. i - 1}) \cup {<<i, k>> : k \in 1 .. s - 1}

Position ==
  /\ IsCommandLine(argv)
  /\ index \in 1 .. argc /\ subscript \in Nat
  /\ subscript > 0 => index < argc /\ InRun /\ subscript \in DOMAIN Element.letters

ReadOnce ==
  /\ AllTaken = Before(index, subscript)
  /\ \A r, q \in read : r # q => Taken(r) \cap Taken(q) = {}
  /\ \A r \in read : r.arg # NoArg /\ r.arg[1] # r.at[1] => argv[r.arg[1]] # End

OperandsInv ==
  pc = "operands" =>
    /\ subscript = 0 /\ ~AtOption
    /\ optind = IF index < argc /\ Element.kind = "end" THEN index + 1 ELSE index

ArgvInv == Position /\ ReadOnce /\ OperandsInv

LEMMA FoundOption == ASSUME NEW o \in Found PROVE Opts[o].arg \in Kinds
BY OptsAssumption DEF Found, FindShort, FindLong, First, Final

LEMMA LettersOf ==
  ASSUME NEW a, IsCommandLine(a), NEW i \in DOMAIN a, a[i].kind = "short"
  PROVE  /\ Len(a[i].letters) \in Nat \ {0}
         /\ DOMAIN a[i].letters = 1 .. Len(a[i].letters)
<1>1. a[i].letters # <<>> /\ a[i].letters \in Seq(Range(a[i].letters))
  BY DEF IsCommandLine, IsElement, End, Operand
<1> QED BY <1>1, SMTT(30)

LEMMA ArgvLength ==
  ASSUME IsCommandLine(argv)
  PROVE  Len(argv) \in Nat /\ DOMAIN argv = 1 .. Len(argv) /\ argc = Len(argv) + 1
BY DEF IsCommandLine, argc

LEMMA InBefore ==
  ASSUME NEW i, NEW s, NEW u
  PROVE  u \in Before(i, s) <=> \/ \E j \in 1 .. i - 1 : u \in Units(j)
                               \/ \E k \in 1 .. s - 1 : u = <<i, k>>
<1>1. u \in UNION {Units(j) : j \in 1 .. i - 1} <=> \E j \in 1 .. i - 1 : u \in Units(j)
  OBVIOUS
<1>2. u \in {<<i, k>> : k \in 1 .. s - 1} <=> \E k \in 1 .. s - 1 : u = <<i, k>>
  OBVIOUS
<1> QED BY <1>1, <1>2 DEF Before

\* An element is what lies before Place and what is read from there.
Rest == IF InRun THEN {<<index, k>> : k \in Place .. Len(Element.letters)} ELSE {<<index, 1>>}

LEMMA PlaceInElement ==
  ASSUME Position, AtOption
  PROVE  /\ index \in DOMAIN argv
         /\ Place \in Nat \ {0} /\ (~InRun => Place = 1 /\ subscript = 0)
         /\ InRun => Place <= Len(Element.letters) /\ Len(Element.letters) \in Nat
         /\ Before(index, subscript) \cup Rest = Before(index + 1, 0)
         /\ Before(index, subscript) \cap Rest = {}
<1>1. index \in DOMAIN argv /\ index \in Nat \ {0}
  BY ArgvLength DEF Position, AtOption
<1>2. InRun => Len(Element.letters) \in Nat \ {0} /\ DOMAIN Element.letters = 1 .. Len(Element.letters)
  BY <1>1, LettersOf DEF Position, InRun, Element
<1>3. /\ Place \in Nat \ {0} /\ (~InRun => Place = 1 /\ subscript = 0)
      /\ InRun => Place <= Len(Element.letters)
      /\ 1 .. subscript - 1 = 1 .. Place - 1
  BY <1>2 DEF Position, Place
<1>4. Units(index) = {<<index, k>> : k \in 1 .. Place - 1} \cup Rest
  <2>1. CASE InRun
    BY <2>1, <1>2, <1>3 DEF Units, Rest, InRun, Element
  <2>2. CASE ~InRun
    BY <2>2, <1>3 DEF Units, Rest, InRun, Element
  <2> QED BY <2>1, <2>2
<1>5. ASSUME NEW u
      PROVE  u \in Before(index, subscript) <=>
               \/ \E j \in 1 .. index - 1 : u \in Units(j)
               \/ \E k \in 1 .. Place - 1 : u = <<index, k>>
  <2>1. u \in Before(index, subscript) <=>
          \/ \E j \in 1 .. index - 1 : u \in Units(j)
          \/ \E k \in 1 .. subscript - 1 : u = <<index, k>>
    BY InBefore
  <2> QED BY <1>3, <2>1
<1>6. ASSUME NEW u
      PROVE  u \in Before(index + 1, 0) <=> u \in Before(index, subscript) \/ u \in Rest
  <2>1. u \in Before(index + 1, 0) <=> \E j \in 1 .. index : u \in Units(j)
    BY <1>1, InBefore
  <2>2. u \in Units(index) <=> (\E k \in 1 .. Place - 1 : u = <<index, k>>) \/ u \in Rest
    BY <1>4
  <2> QED BY <1>1, <1>5, <2>1, <2>2
<1>7. ASSUME NEW u \in Before(index, subscript), u \in Rest PROVE FALSE
  <2>1. \A j \in 1 .. index - 1 : u \in Units(j) => u[1] = j
    BY DEF Units
  <2>2. u[1] = index /\ u[2] \in Nat /\ u[2] >= Place
    BY <1>7, <1>1, <1>2, <1>3 DEF Rest
  <2>3. \E k \in 1 .. Place - 1 : u = <<index, k>>
    BY <1>1, <1>5, <1>7, <2>1, <2>2
  <2> QED BY <1>3, <2>2, <2>3
<1> QED
  BY <1>1, <1>2, <1>3, <1>6, <1>7

\* An option takes what is read, and no more.
LEMMA OptionTakes ==
  ASSUME Position, AtOption, NEW o \in Found, Understood(Opts[o]), Advance(Opts[o]),
         NEW r, r = [opt |-> o, at |-> <<index, Place>>, arg |-> ArgOf(Opts[o])]
  PROVE  /\ Before(index, subscript) \cup Taken(r) = Before(index', subscript')
         /\ Before(index, subscript) \cap Taken(r) = {}
         /\ index' \in 1 .. argc /\ subscript' \in Nat
         /\ subscript' > 0 => index' = index /\ InRun /\ subscript' \in DOMAIN Element.letters
         /\ r.arg # NoArg /\ r.arg[1] # r.at[1] => argv[r.arg[1]] # End
<1> DEFINE at == <<index, Place>>
<1>1. /\ index \in Nat \ {0} /\ Len(argv) \in Nat /\ index \in DOMAIN argv
      /\ argc = Len(argv) + 1 /\ index < argc
  BY PlaceInElement, ArgvLength DEF Position, AtOption
<1>2. /\ r.at = at /\ r.at[1] = index /\ r.arg = ArgOf(Opts[o])
      /\ Opts[o].arg \in {"none", "required", "optional"}
  BY FoundOption DEF Kinds
<1>3. /\ Place \in Nat \ {0} /\ (~InRun => Place = 1 /\ subscript = 0)
      /\ InRun => Place <= Len(Element.letters) /\ Len(Element.letters) \in Nat
  BY PlaceInElement
<1>4. \/ Trailing = NoArg /\ (InRun => Place = Len(Element.letters))
      \/ InRun /\ Trailing = <<index, Place + 1>> /\ Place < Len(Element.letters)
      \/ ~InRun /\ Trailing = <<index, 0>>
  BY <1>3 DEF Trailing
<1>5. \A i, k : <<i, k>> # NoArg
  BY DEF NoArg
<1>6. ASSUME NEW u
      PROVE  u \in Before(index + 1, 0) <=> u \in Before(index, subscript) \/ u \in Rest
  BY PlaceInElement
<1>7. ASSUME NEW u \in Before(index, subscript), u \in Rest PROVE FALSE
  BY <1>7, PlaceInElement
<1>8. CASE Opts[o].arg = "none" /\ Trailing # NoArg
  <2>1. InRun /\ Place < Len(Element.letters)
    BY <1>8, <1>4 DEF Understood
  <2>2. Taken(r) = {at} /\ r.arg = NoArg
    BY <1>2, <1>8 DEF Taken, ArgOf
  <2>3. index' = index /\ subscript' = Place + 1
    BY <1>8 DEF Advance
  <2>4. subscript' \in DOMAIN Element.letters
    <3>1. DOMAIN Element.letters = 1 .. Len(Element.letters)
      BY <1>1, <2>1, LettersOf DEF Position, InRun, Element
    <3> QED BY <1>3, <2>1, <2>3, <3>1
  <2>5. \A k : k \in 1 .. (Place + 1) - 1 <=> k \in 1 .. subscript - 1 \/ k = Place
    BY <1>3 DEF Place, Position
  <2>6. ASSUME NEW u PROVE u \in Before(index, Place + 1) <=> u \in Before(index, subscript) \/ u = at
    <3>1. u \in Before(index, Place + 1) <=>
            \/ \E j \in 1 .. index - 1 : u \in Units(j)
            \/ \E k \in 1 .. (Place + 1) - 1 : u = <<index, k>>
      BY InBefore
    <3>2. u \in Before(index, subscript) <=>
            \/ \E j \in 1 .. index - 1 : u \in Units(j)
            \/ \E k \in 1 .. subscript - 1 : u = <<index, k>>
      BY InBefore
    <3> QED BY <2>5, <3>1, <3>2
  <2>7. at \in Rest
    BY <1>3, <2>1 DEF Rest
  <2> QED BY SMTT(60), <1>1, <1>3, <1>7, <2>1, <2>2, <2>3, <2>4, <2>6, <2>7
<1>9. CASE Opts[o].arg = "required" /\ Trailing = NoArg
  <2>1. Taken(r) = {at} \cup Units(index + 1) /\ r.arg = <<index + 1, 0>>
    BY <1>1, <1>2, <1>5, <1>9 DEF Taken, ArgOf
  <2>2. index' = index + 2 /\ subscript' = 0
    BY <1>1, <1>9 DEF Advance
  <2>3. HasNext
    BY <1>9 DEF Understood
  <2>4. {at} = Rest
    <3>1. CASE InRun
      <4>1. Place .. Len(Element.letters) = {Place}
        BY <1>3, <1>4, <1>5, <1>9, <3>1
      <4> QED BY <3>1, <4>1 DEF Rest
    <3>2. CASE ~InRun
      BY <1>3, <3>2 DEF Rest
    <3> QED BY <3>1, <3>2
  <2>5. ASSUME NEW u PROVE u \in Before(index + 2, 0) <=> u \in Before(index + 1, 0) \/ u \in Units(index + 1)
    <3>1. u \in Before(index + 2, 0) <=> \E j \in 1 .. index + 1 : u \in Units(j)
      BY <1>1, InBefore
    <3>2. u \in Before(index + 1, 0) <=> \E j \in 1 .. index : u \in Units(j)
      BY <1>1, InBefore
    <3> QED BY <1>1, <3>1, <3>2
  <2>6. ASSUME NEW u \in Before(index + 1, 0), u \in Units(index + 1) PROVE FALSE
    <3>1. \A j \in 1 .. index + 1 : u \in Units(j) => u[1] = j
      BY DEF Units
    <3>2. \E j \in 1 .. index : u \in Units(j)
      BY <1>1, InBefore
    <3> QED BY <1>1, <2>6, <3>1, <3>2
  <2>7. index' \in 1 .. argc /\ argv[index + 1] # End
    BY <1>1, <2>2, <2>3 DEF HasNext, End
  <2> QED BY <1>1, <1>2, <1>6, <1>7, <2>1, <2>2, <2>4, <2>5, <2>6, <2>7
<1>10. CASE /\ ~(Opts[o].arg = "none" /\ Trailing # NoArg)
            /\ ~(Opts[o].arg = "required" /\ Trailing = NoArg)
  <2>1. Taken(r) = Rest /\ (r.arg # NoArg => r.arg[1] = index)
    <3>1. r.arg = Trailing
      BY <1>2, <1>10 DEF ArgOf
    <3>2. CASE Trailing = NoArg
      BY <1>2, <1>3, <1>4, <1>5, <3>1, <3>2 DEF Taken, Rest
    <3>3. CASE InRun /\ Trailing = <<index, Place + 1>>
      <4>1. Taken(r) = {at} \cup {u \in Units(index) : u[2] >= Place + 1}
        BY <1>2, <1>5, <3>1, <3>3 DEF Taken, Units, InRun, Element
      <4>2. Units(index) = {<<index, k>> : k \in 1 .. Len(Element.letters)}
        BY <1>1, <3>3, LettersOf DEF Position, Units, InRun, Element
      <4> QED BY <1>2, <1>3, <3>1, <3>3, <4>1, <4>2 DEF Rest
    <3>4. CASE ~InRun /\ Trailing = <<index, 0>>
      BY <1>2, <1>3, <1>5, <3>1, <3>4 DEF Taken, Rest, Units, InRun, Element
    <3> QED BY <1>4, <3>2, <3>3, <3>4
  <2>2. index' = index + 1 /\ subscript' = 0
    BY <1>1, <1>10 DEF Advance
  <2> QED
    BY <1>1, <1>2, <1>6, <1>7, <2>1, <2>2
<1> QED BY <1>8, <1>9, <1>10

----------------------------------------------------------------------------
(* Every call of scanopt() keeps to that.                                  *)

LEMMA ArgvInit == Init => ArgvInv
<1> SUFFICES ASSUME Init PROVE ArgvInv
  OBVIOUS
<1>1. IsCommandLine(argv)
  BY ArgvsAssumption DEF Init
<1>2. Position
  BY <1>1, ArgvLength DEF Init, Position
<1>3. Before(1, 0) = {}
  BY InBefore
<1>4. ReadOnce
  BY <1>3 DEF Init, ReadOnce, AllTaken
<1> QED BY <1>2, <1>4 DEF Init, ArgvInv, OperandsInv

LEMMA EmptyLine == IsCommandLine(<<>>)
BY DEF IsCommandLine

\* A step that reads nothing.
LEMMA NothingRead ==
  ASSUME Position, ReadOnce, UNCHANGED <<argv, index, subscript, read>>
  PROVE  Position' /\ ReadOnce'
<1>1. Position'
  BY DEF Position, argc, InRun, Element
<1>2. \A i : Units(i)' = Units(i)
  BY DEF Units
<1>3. \A r \in read : Taken(r)' = Taken(r)
  BY <1>2 DEF Taken
<1> QED BY <1>1, <1>2, <1>3 DEF ReadOnce, AllTaken, Before

LEMMA OptionRead ==
  ASSUME ArgvInv, pc = "argv", AtOption, NEW o \in Found, ReadOption(o)
  PROVE  Position' /\ ReadOnce'
<1> DEFINE r == [opt |-> o, at |-> <<index, Place>>, arg |-> ArgOf(Opts[o])]
<1>1. /\ Understood(Opts[o]) /\ Advance(Opts[o])
      /\ read' = read \cup {r} /\ argv' = argv
  BY DEF ReadOption
<1>2. Position /\ ReadOnce
  BY DEF ArgvInv
<1>3. /\ Before(index, subscript) \cup Taken(r) = Before(index', subscript')
      /\ Before(index, subscript) \cap Taken(r) = {}
      /\ index' \in 1 .. argc /\ subscript' \in Nat
      /\ subscript' > 0 => index' = index /\ InRun /\ subscript' \in DOMAIN Element.letters
      /\ r.arg # NoArg /\ r.arg[1] # r.at[1] => argv[r.arg[1]] # End
  BY <1>1, <1>2, OptionTakes
<1> HIDE DEF r
<1>4. Position'
  BY <1>1, <1>2, <1>3 DEF Position, AtOption, argc, InRun, Element
<1>5. \A i : Units(i)' = Units(i)
  BY <1>1 DEF Units
<1>6. \A q : Taken(q)' = Taken(q)
  BY <1>1, <1>5 DEF Taken
<1>7. Before(index, subscript)' = Before(index', subscript')
  BY <1>5 DEF Before
<1>8. AllTaken' = AllTaken \cup Taken(r)
  BY <1>1, <1>6 DEF AllTaken
<1>9. \A q \in read : Taken(q) \cap Taken(r) = {}
  BY <1>2, <1>3 DEF ReadOnce, AllTaken
<1> QED BY <1>1, <1>2, <1>3, <1>4, <1>6, <1>7, <1>8, <1>9 DEF ReadOnce

LEMMA ArgvStep == ArgvInv /\ [Next]_vars => ArgvInv'
<1> SUFFICES ASSUME ArgvInv, [Next]_vars PROVE ArgvInv'
  OBVIOUS
<1> USE DEF ArgvInv
<1>1. ASSUME NEW o \in Found, pc = "argv", AtOption, ReadOption(o), pc' # "operands" PROVE ArgvInv'
  BY <1>1, OptionRead DEF OperandsInv
<1>2. CASE ScanoptError
  BY <1>2, NothingRead DEF ScanoptError, commandline, OperandsInv
<1>3. CASE OptionsEnd
  <2>1. Position' /\ ReadOnce'
    BY <1>3, NothingRead DEF OptionsEnd
  <2>2. subscript = 0
    BY <1>3 DEF OptionsEnd, Position, AtOption, InRun
  <2> QED BY <1>3, <2>1, <2>2 DEF OptionsEnd, OperandsInv, AtOption, Element, argc
<1>4. CASE InputFiles
  <2>1. Position'
    BY <1>4, EmptyLine DEF InputFiles, Position, argc
  <2>2. Before(1, 0)' = {}
    BY DEF Before
  <2>3. ReadOnce'
    BY <1>4, <2>2 DEF InputFiles, ReadOnce, AllTaken
  <2> QED BY <1>4, <2>1, <2>3 DEF InputFiles, OperandsInv
<1>5. CASE OptionLine \/ CheckOptions \/ Rules \/ Readin
  BY <1>5, NothingRead DEF OptionLine, CheckOptions, Rules, Readin, commandline, OperandsInv
<1>6. CASE UNCHANGED vars
  BY <1>6, NothingRead DEF vars, commandline, OperandsInv, AtOption, Element, argc
<1> QED
  BY <1>1, <1>2, <1>3, <1>4, <1>5, <1>6
     DEF Next, Step, Terminated, SetFlags, SetCompression, TablesFile, PrintAndExit

LEMMA OperandsBegin ==
  ASSUME ArgvInv, pc = "operands"
  PROVE  /\ AllTaken = UNION {Units(i) : i \in 1 .. optind - (IF Ended THEN 2 ELSE 1)}
         /\ optind < argc /\ ~Ended => argv[optind] = Operand
<1>1. /\ index \in Nat \ {0} /\ Len(argv) \in Nat /\ DOMAIN argv = 1 .. Len(argv)
      /\ argc = Len(argv) + 1 /\ index <= argc
  BY ArgvLength DEF ArgvInv, Position
<1>2. AllTaken = UNION {Units(i) : i \in 1 .. index - 1}
  <2>1. \A u : u \in AllTaken <=> \E i \in 1 .. index - 1 : u \in Units(i)
    BY InBefore DEF ArgvInv, ReadOnce, OperandsInv
  <2> QED BY <2>1
<1>3. ASSUME NEW i \in DOMAIN argv PROVE IsElement(argv[i])
  BY DEF ArgvInv, Position, IsCommandLine
<1>4. CASE index < argc /\ Element.kind = "end"
  <2>1. optind = index + 1 /\ argv[index] = End
    BY <1>1, <1>3, <1>4 DEF ArgvInv, OperandsInv, IsElement, End, Operand, Element
  <2>2. <<index, 1>> \notin AllTaken
    <3>1. \A i : <<index, 1>> \in Units(i) => i = index
      BY DEF Units
    <3> QED BY <1>1, <1>2, <3>1
  <2>3. Ended
    BY <1>1, <2>1, <2>2 DEF Ended
  <2> QED BY <1>1, <1>2, <2>1, <2>3
<1>5. CASE ~(index < argc /\ Element.kind = "end")
  <2>1. optind = index
    BY <1>5 DEF ArgvInv, OperandsInv
  <2>2. \A i \in DOMAIN argv : <<i, 1>> \in Units(i)
    <3> SUFFICES ASSUME NEW i \in DOMAIN argv PROVE <<i, 1>> \in Units(i)
      OBVIOUS
    <3>1. CASE argv[i].kind = "short"
      <4>1. 1 \in DOMAIN argv[i].letters
        BY <3>1, LettersOf DEF ArgvInv, Position
      <4> QED BY <3>1, <4>1 DEF Units
    <3>2. CASE argv[i].kind # "short"
      BY <3>2 DEF Units
    <3> QED BY <3>1, <3>2
  <2>3. ~Ended
    BY <1>1, <1>2, <2>1, <2>2 DEF Ended
  <2>4. index < argc => argv[index] = Operand
    BY <1>1, <1>3, <1>5 DEF ArgvInv, OperandsInv, AtOption, IsElement, End, Element
  <2> QED BY <1>2, <2>1, <2>3, <2>4
<1> QED BY <1>4, <1>5

\* For every command line, every unit before the operands is read as one thing,
\* by the calls of scanopt() that flexinit() makes in a loop.
THEOREM EveryUnitOnce == Spec => []ArgvReadOnce
<1>1. ArgvInv => ArgvReadOnce
  BY OperandsBegin DEF ArgvInv, ReadOnce, ArgvReadOnce
<1> QED BY <1>1, ArgvInit, ArgvStep, PTL DEF Spec

----------------------------------------------------------------------------
(* What a name is short for.                                               *)

\* If each of the matches but the least has the value of the one before it,
\* they all have one value.
LikeBefore(matches, m, val) ==
  \A i \in matches \ {m} : val[Max({j \in matches : j < i})] = val[i]
LEMMA OneMeaning ==
  ASSUME NEW matches, matches \subseteq Nat, NEW m \in matches, \A i \in matches : m <= i, NEW val,
         LikeBefore(matches, m, val)
  PROVE  \A i \in matches : val[i] = val[m]
<1> DEFINE others == {i \in matches : val[i] # val[m]}
<1> SUFFICES ASSUME others # {} PROVE FALSE
  OBVIOUS
<1>0. others \subseteq matches
  OBVIOUS
<1>1. PICK b \in others : \A i \in others : b <= i
  <2>0. \A y \in others : y \in Nat
    BY <1>0
  <2> HIDE DEF others
  <2>1. others \subseteq Int /\ others # {} /\ 0 \in Int /\ \A y \in others : 0 <= y
    BY <2>0
  <2> HIDE DEF others
  <2>2. Min(others) \in others /\ \A y \in others : Min(others) <= y
    BY <2>1, MinIs
  <2> QED
    BY <2>2
<1> DEFINE before == {j \in matches : j < b}
<1>2. b \in Nat /\ b \in matches \ {m} /\ m \in before
  BY <1>1
<1>3. PICK x \in before : x = Max(before)
  <2>0. \A y \in before : y \in Int /\ y <= b
    BY <1>2
  <2>1. before # {}
    BY <1>2
  <2> HIDE DEF before
  <2>2. before \subseteq Int /\ b \in Int /\ \A y \in before : y <= b
    BY <1>2, <2>0
  <2>3. Max(before) \in before
    BY <2>1, <2>2, MaxIs
  <2> QED
    BY <2>3
<1>4. val[x] = val[b]
  BY <1>2, <1>3 DEF LikeBefore
<1>5. x \in matches /\ x \notin others
  <2>1. x \in matches /\ x < b /\ x \in Nat
    BY <1>3
  <2>2. ~(b <= x)
    BY <1>2, <2>1
  <2> HIDE DEF others
  <2> QED
    BY <1>1, <2>1, <2>2
<1> QED
  BY <1>1, <1>4, <1>5

\* find_opt() of a word: the option has that name, or it has the only value of
\* the options that the word can be short for.
LEMMA LongMeant ==
  ASSUME NEW name, NEW o \in FindLong(name)
  PROVE  /\ o \in DOMAIN Opts /\ Opts[o].long
         /\ \/ Opts[o].name = name
            \/ {Opts[i].val : i \in {j \in DOMAIN Opts : Opts[j].long /\ IsPrefix(name, Opts[j].name)}}
                 = {Opts[o].val}
<1> DEFINE matches == {i \in DOMAIN Opts : Opts[i].long /\ IsPrefix(name, Opts[i].name)}
           exact == {i \in matches : Opts[i].name = name}
           counted == {i \in matches : LET before == {j \in matches : j < i}
                                       IN  before = {} \/ Opts[Max(before)].val # Opts[i].val}
<1>1. o \in IF exact # {} THEN First(exact) ELSE IF Cardinality(counted) = 1 THEN Final(matches) ELSE {}
  BY DEF FindLong
<1>2. matches \subseteq DOMAIN Opts /\ DOMAIN Opts = 1 .. Len(Opts) /\ Len(Opts) \in Nat
  BY OptsAssumption
<1>3. CASE exact # {}
  <2>1. o \in exact
    BY <1>1, <1>3 DEF First
  <2> QED
    BY <2>1
<1>4. CASE exact = {}
  <2>1. Cardinality(counted) = 1 /\ o \in matches
    BY <1>1, <1>4 DEF Final
  <2>2. matches \subseteq Nat /\ matches # {}
    BY <1>2, <2>1
  <2>3. PICK m \in matches : \A i \in matches : m <= i
    <3>1. matches \subseteq Int /\ 0 \in Int /\ \A y \in matches : 0 <= y
      BY <2>2
    <3> HIDE DEF matches
    <3>2. Min(matches) \in matches /\ \A y \in matches : Min(matches) <= y
      BY <2>2, <3>1, MinIs
    <3> QED
      BY <3>2
  <2>4. m \in counted
    <3>1. ASSUME NEW j \in matches, j < m PROVE FALSE
      <4>1. j \in Nat /\ m \in Nat /\ m <= j
        BY <2>2, <2>3
      <4> QED
        BY <3>1, <4>1
    <3>2. {j \in matches : j < m} = {}
      BY <3>1
    <3> QED
      BY <2>3, <3>2
  <2>5. counted = {m}
    <3>1. IsFiniteSet(1 .. Len(Opts))
      BY <1>2, FS_Interval
    <3>2. counted \subseteq 1 .. Len(Opts)
      BY <1>2
    <3> HIDE DEF counted
    <3>3. IsFiniteSet(counted)
      BY <3>1, <3>2, FS_Subset
    <3>4. \E x : counted = {x}
      BY <2>1, <3>3, FS_Singleton
    <3> QED
      BY <2>4, <3>4
  <2>6. PICK val : val = [i \in DOMAIN Opts |-> Opts[i].val]
    OBVIOUS
  <2>7. ASSUME NEW i \in matches \ {m} PROVE val[Max({j \in matches : j < i})] = val[i]
    <3> DEFINE before == {j \in matches : j < i}
    <3>1. i \notin counted
      BY <2>5
    <3>2. before # {} /\ Opts[Max(before)].val = Opts[i].val
      BY <3>1
    <3>3. before \subseteq Int /\ i \in Int /\ \A y \in before : y <= i
      BY <2>2
    <3>4. before \subseteq DOMAIN Opts
      BY <1>2
    <3> HIDE DEF before
    <3>5. Max(before) \in before
      BY <3>2, <3>3, MaxIs
    <3>6. val[Max(before)] = val[i]
      BY <1>2, <2>6, <3>2, <3>4, <3>5
    <3> QED
      BY <3>6 DEF before
  <2> HIDE DEF matches
  <2>8. \A i \in matches : val[i] = val[m]
    <3>1. LikeBefore(matches, m, val)
      BY <2>7 DEF LikeBefore
    <3> QED
      BY <2>2, <2>3, <3>1, OneMeaning
  <2>9. \A i \in matches : Opts[i].val = Opts[o].val
    BY <1>2, <2>1, <2>6, <2>8
  <2>10. {Opts[i].val : i \in matches} = {Opts[o].val}
    BY <2>1, <2>9
  <2>11. o \in DOMAIN Opts /\ Opts[o].long
    BY <2>1 DEF matches
  <2> QED
    BY <2>10, <2>11 DEF matches
<1> QED
  BY <1>3, <1>4

\* The option that a call of scanopt() finds is the one meant there.
Meant(r) ==
  LET o == Opts[r.opt]
      e == argv[r.at[1]]
      abbreviated == {Opts[i].val : i \in {j \in DOMAIN Opts :
                                            Opts[j].long /\ IsPrefix(e.name, Opts[j].name)}}
  IN  IF e.kind = "short"
      THEN ~o.long /\ o.name = <<e.letters[r.at[2]]>>
      ELSE o.long /\ (o.name = e.name \/ abbreviated = {o.val})

LEMMA FoundMeant ==
  ASSUME NEW o \in Found, NEW r, r = [opt |-> o, at |-> <<index, Place>>, arg |-> ArgOf(Opts[o])]
  PROVE  Meant(r)
<1>1. r.opt = o /\ r.at[1] = index /\ r.at[2] = Place
  OBVIOUS
<1>2. CASE InRun
  <2>1. o \in FindShort(Element.letters[Place])
    BY <1>2 DEF Found
  <2>2. o \in DOMAIN Opts /\ ~Opts[o].long /\ Opts[o].name[1] = Element.letters[Place]
    BY <2>1 DEF FindShort
  <2>3. Opts[o].name = <<Element.letters[Place]>>
    BY <2>2, OptsAssumption
  <2> QED
    BY <1>1, <1>2, <2>2, <2>3 DEF Meant, InRun, Element
<1>3. CASE ~InRun
  <2>1. o \in FindLong(Element.name)
    BY <1>3 DEF Found
  <2> QED
    BY <1>1, <1>3, <2>1, LongMeant DEF Meant, InRun, Element
<1> QED
  BY <1>2, <1>3

AllMeant == \A r \in read : Meant(r)

LEMMA MeantStep == AllMeant /\ [Next]_vars => AllMeant'
<1> SUFFICES ASSUME AllMeant, [Next]_vars PROVE AllMeant'
  OBVIOUS
<1>1. ASSUME NEW o \in Found, ReadOption(o) PROVE AllMeant'
  <2>1. PICK r : r = [opt |-> o, at |-> <<index, Place>>, arg |-> ArgOf(Opts[o])]
    OBVIOUS
  <2>2. read' = read \cup {r} /\ argv' = argv
    BY <1>1, <2>1 DEF ReadOption
  <2>3. \A q \in read \cup {r} : Meant(q)
    BY <2>1, FoundMeant DEF AllMeant
  <2> QED
    BY <2>2, <2>3 DEF AllMeant, Meant
<1>2. CASE InputFiles
  BY <1>2 DEF InputFiles, AllMeant
<1>3. CASE ScanoptError \/ OptionsEnd \/ OptionLine \/ CheckOptions \/ Rules \/ Readin \/ UNCHANGED vars
  <2>1. read' = read /\ argv' = argv
    BY <1>3 DEF ScanoptError, OptionsEnd, OptionLine, CheckOptions, Rules, Readin, vars, commandline
  <2> QED
    BY <2>1 DEF AllMeant, Meant
<1> QED
  BY <1>1, <1>2, <1>3
     DEF Next, Step, Terminated, SetFlags, SetCompression, TablesFile, PrintAndExit

\* For every table of options and every command line: the option that scanopt()
\* reads is the one that the letter or the word there names, or the only
\* meaning that the word can be short for.
THEOREM AlwaysMeant == Spec => []OptionsMeant
<1>1. Init => AllMeant
  BY DEF Init, AllMeant
<1>2. AllMeant => OptionsMeant
  BY DEF AllMeant, Meant, OptionsMeant
<1> QED
  BY <1>1, <1>2, MeantStep, PTL DEF Spec

----------------------------------------------------------------------------
(* The phases, and the types.                                              *)

Phases == pc \in {"argv", "operands", "section1", "rules", "readin"} \cup Stopped

LEMMA PhasesStep == Phases /\ [Next]_vars => Phases'
BY DEF Phases, Stopped, Next, Step, SetFlags, SetCompression, TablesFile, PrintAndExit, ScanoptError,
       OptionsEnd, InputFiles, OptionLine, CheckOptions, Rules, Readin, Terminated, vars

\* scanopt() stays within argv and the letters of a run, the operands begin in
\* it, and the flags keep the values they can have.
THEOREM TypeCorrect == Spec => []OptionsTypeOK
<1>1. ArgvInv /\ FlagsInv /\ Phases => OptionsTypeOK
  <2> SUFFICES ASSUME ArgvInv, FlagsInv, Phases PROVE OptionsTypeOK
    OBVIOUS
  <2>1. pc = "operands" => optind \in 1 .. argc
    BY ArgvLength DEF ArgvInv, Position, OperandsInv
  <2>2. pc = "argv" /\ subscript > 0 =>
          index < argc /\ InRun /\ subscript \in DOMAIN Element.letters
    BY DEF ArgvInv, Position
  <2> QED BY <2>1, <2>2 DEF OptionsTypeOK, ArgvInv, Position, FlagsInv, FlagsOK, Phases, Trits
<1>2. Init => Phases
  BY DEF Init, Phases
<1> QED BY <1>1, <1>2, ArgvInit, ArgvStep, FlagsInit, FlagsStep, PhasesStep, PTL DEF Spec
=============================================================================
