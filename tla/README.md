# Verification of flex

TLA+ models of flex as it is in `src/src`: the generator (a C++ program that
turns patterns into an automaton and its tables) and the scanner it generates
(the skeleton `flex.skl`, completed by `gen.cpp`). TLC checks the models on
small instances; TLAPS proves results about the generated scanner's buffer, the
NFA, the equivalence classes, the options, the packed tables, the stack of
buffers and REJECT for every instance.

## The system

The generator is sequential. It reads its options and a file of rules, builds an
NFA while it parses them, makes a DFA of it, compresses its tables and writes
the scanner, and, if asked to, the tables in a file of their own.

| part | code | state it keeps | operations |
|---|---|---|---|
| driver, options | `flexmain.cpp`, `scanopt.cpp`, `options.cpp`, `scan.l` | flags, place in `argv` | `scanopt`, `flexinit`, `%option`, `check_options`, `readin` |
| rules parser | `parse.y` | `rulelen`, `varlength`, `headcnt`, `trailcnt`, continued action, active start conditions | one production per pattern operator, `finish_rule`, the default rule |
| NFA | `nfa.cpp` | `nfas` (transitions, accepting number, extent of a fragment), `rules` | `mkstate`, `link_machines`, `mkor`, `mkopt`, `mkposcl`, `mkrep`, `dupmachine`, `add_accept`, `mkbranch` |
| character classes | `ccl.cpp` | `ccls` (table, negation, newline flag) | `ccladd`, `cclnegate`, set difference and union |
| equivalence classes | `ecs.cpp` | `nextecm`, `ecgroup` (doubly linked lists in arrays), `cclflags` | `mkechar`, `mkeccl`, `cre8ecs`, `ccl2ecl` |
| subset construction | `dfa.cpp` | `dfas`, `symlist`, `duplist`, `state` | `ntod`, `epsclosure`, `snstods`, `symfollowset`, `sympartition`, `check_for_backing_up` |
| table compression | `tblcmp.cpp` | `tnxt`, `nxt`, `chk`, `base`, `def`, templates and a queue of protos | `bldtbl`, `mkentry`, `mktemplate`, `find_table_space`, `cmptmps` |
| code generation | `gen.cpp` | the text of the scanner, the tables in it | `gen_next_match`, `gen_find_action`, `make_tables`, `gentabs`, ... |
| serialized tables | `tables.cpp`, `tables_shared.cpp` | a file, the bytes written, where the size goes | `yytbl_hdr_fwrite`, `yytbl_data_compress`, `yytbl_data_fwrite`, and in the scanner `yytbl_fload` |
| flex's own scanner | `scan.l`, `scanflags.cpp`, `sym.cpp` | its start conditions, a stack of flags, tables of names | tokens for `parse.y` |
| output assembly | `misc.cpp`, `context.cpp`, `simple_m4.cpp` | text and its nesting | `skelout`, macro expansion |

A generated scanner keeps a buffer (`yy_ch_buf`, ended by two NULs), positions
into it (`yy_c_buf_p`, `yytext_ptr`), a character hidden under the terminator
of `yytext`, the last accepting state or, with REJECT, the stack of all states,
`yylineno`, a start condition, and stacks of buffers and of start conditions.
The user's actions run in the middle of `yylex()` and call back into it:
`yyless`, `yymore`, `yyunput`, `input`, `REJECT`, and the functions that change
buffers; `YY_INPUT` and `yywrap` are supplied by the user and may deliver any
number of characters, or none, or another buffer.

What connects the parts: reductions of the parser make NFA states and split
equivalence classes in the same step; `readin()` turns links into class
numbers; `ntod()` reads NFA, classes and rules and hands each row it has made
to `tblcmp.cpp`; the scanner relies on numbers `ntod()` gives to the start
states and to the end-of-buffer state, on the newline flags and
trailing-context counts of the rules, and decodes what `tblcmp.cpp` has packed;
options decide which of the forms of tables and code are made, and must not
choose two that exclude each other.

There are no threads. What is hard is order and partial knowledge: reads that
cut a token anywhere, a NUL that may be data or the end of the buffer, calls of
an action in any order at the end of a file or in the middle of a buffer;
options in any order; a file of tables that an earlier run broke off; and in
the generator structures that are rewritten in place (fragments copied by
extent, lists split in one pass, rows interleaved in one array, a queue that
forgets, globals collected over a pattern) where any sequence of legal
operations must leave the next one something it can work on. `PROJECT.json`
lists these hazards by line.

What makes each part correct: the scanner delivers the tokens that the rules
mean whatever the reads deliver, and counts lines; no character is lost or
doubled when buffers change; REJECT finds the next best match; classes tell
apart exactly the characters that patterns tell apart; a machine matches the
words its pattern means; the DFA accepts what the active rules match; compressed
rows decode to the rows they encode; a loader finds its own tables, number for
number; every option is read once, as what it means.

## Modules

The scanner:

- **`Lexer`**: the abstract specification of a scanner. The input is a
  sequence of segments that ends of file separate; a step takes the longest
  match and an action may give back, keep, push or take characters. No buffer.
- **`Scanner`**: `yylex()` over one buffer, one action per step that ends where
  control returns to the loop: `Match` (the loop of `gen_next_match`, in its
  full, compressed and interactive forms), `Found` (`gen_find_action`, with
  backing up), `EndOfBufferMatched` and what follows it (`ReallyNul`, `Replay`
  as `yy_get_previous_state`, `Refill` as `yy_get_next_buffer` with its move,
  growth and read), the calls `Less`, `More`, `Unput` and the steps of `input()`,
  `Return` to the caller and `CallAgain` after an end of file. A cell of the
  buffer nobody has written is `Undef`. It implements `Lexer`.
  **`ScannerProofs`** proves that it keeps inside its buffer, that it implements
  `Lexer`, and that `yylineno` is exact.
- **`Buffers`**: all the buffers and their stack: one action per function that
  the user calls (`yy_switch_to_buffer`, `yypush_buffer_state`, `Scan`,
  `yypop_buffer_state`, `yy_delete_buffer`, `yy_flush_buffer`, `yyrestart`,
  `yylex_destroy`), in actions, between calls and inside `yywrap()`, with
  `Token`, `Refill`, `EndOfFile` of `yylex()` and the steps of `input()`. Tokens
  are any number of characters here; what reads do to a token is in `Scanner`.
  The guards of the user's calls are the rules that a user must keep:
  - a buffer is taken to the top only if it is not on the stack (`MayTake`),
    and a buffer below the top is not deleted;
  - `yywrap()` for exhausted memory does not push over that buffer (`Spent`),
    and nobody comes back to it: its position is behind the first mark then,
    and the scanner would stop with "end of buffer missed";
  - `input()` is not called at the end of a buffer in memory (`InputEnd` is for
    files), where it restarts the buffer on a file it has not got.

  `BuffersTypeOK` and `Conserved` are about users who keep them. These may still
  meet "end of buffer missed" (`EndMissed`), where `input()` has read on in a
  buffer that `yylex()` has not begun with: `BuffersTypeOK` says that the
  scanner stops nowhere else. The characters of the files are no NULs; what
  `yylex()` does with those is in `Scanner`.
  **`BuffersProofs`** proves both.
- **`Reject`**: scanning with REJECT and with trailing context of variable
  length: the stack of states, the accept lists with their masked numbers, and
  the steps of `gen_find_action` that take, pass or look for a number
  (`TrailBegin`, `TrailEnd`, `Skip`, `BackUp`). **`RejectProofs`** proves its
  three invariants.
- **`Serial`**: the writer of serialized tables and the loader, byte by byte.
  `Flexend` may come before all tables are written, as after an error in the
  rules, and the files of several runs are put one behind the other.

The generator:

- **`Options`**: `scanopt()` as it walks `argv`, the flags that `flexinit()` and
  `%option` lines set, `check_options()`, and what `readin()` decides when it
  knows what the actions use. An option that only writes text has no flag.
  **`OptionsProofs`** proves all of its properties but `Ends`.
- **`Ecs`**: `ecs.cpp`, one action per step of its loops, since the lists are
  rewritten while they are walked. **`EcsProofs`** proves it.
- **`Nfa`**: the reductions of `parse.y` with the operations of `nfa.cpp` and the
  classes of `ccl.cpp`. The parser's value stack holds machines. Beside each
  the model keeps the words, up to `MaxWord` characters, that its pattern
  means; the code has no such thing, and the properties compare the two. An NFA
  state is a record of symbol, targets (`trans1`, then `trans2`), accepting
  number and extent. Actions `FinishPlain`, `FinishTrailing` and `FinishEol`
  stand for the productions of `rule` together with `finish_rule()` and the
  `flexrule` that hangs the machine below its start conditions.
  **`NfaProofs`** proves that machines stay self-contained, where matches are
  cut, and what is known of newlines.
- **`Dfa`**: extends `Nfa`: when the rules have been parsed, `ReadIn` numbers
  the classes, `StartState` and `EndOfBufferState` make the first states, and
  `BeginState`, `Follow`, `EndState` are the loop of `ntod()`, one `Follow` per
  symbol. It takes from `Ecs` what that module shows of the lists: the
  partition is the coarsest one (NUL apart), numbered by least members. A DFA
  state holds a bag of NFA states because `symfollowset()` does not remove
  copies, and states with different copies are different states to `snstods()`.
  **`NfaProofs`**, which extends it, proves all but `Scans`.
- **`Tblcmp`**: rows of any automaton come one by one, as from the end of
  `ntod()`'s loop, and are packed as `bldtbl()`, `place_state()` or a full table
  does it; then `gentabs()` and `genctbl()` write the arrays. The operators that
  begin with `yy_` read them as the generated scanner does. The percentages of
  `flexdef.h` are constants, set so that rows of four classes take every branch.
  **`TblcmpProofs`** proves all of its properties.

**`MC...`** modules hold the constants for TLC. In every module with runs, a
definition with a suffix, such as `FreeEnd_InUse`, is a wrong variant of the
definition it precedes. Nothing uses it; each shows that a property notices
such a slip. **`NumberLemmas`** proves what `Min` and `Max` of a set of numbers
are, principles of induction, and that recursive functions exist, for
`ScannerProofs`, `NfaProofs`, `RejectProofs` and `TblcmpProofs`.

## Runs

| run | question | result |
|---|---|---|
| `scanner` | Does the buffered scanner implement `Lexer` (`LexerSpec`), keep the buffer well formed, count lines, and reach the end (`Finishes`), in each of its matching loops? | holds, 637,772 states |
| `scanner_nul` | Does it implement `Lexer` with compressed tables that keep NUL transitions in a table of their own? | no: finding 1 |
| `buffers` | However buffers are switched, pushed, popped, flushed, restarted and deleted: is each character delivered once, in order through each buffer, and is the stack sound, is "end of buffer missed" met in no other case than that of `input()`? | holds, 774,008 states |
| `reject` | Does REJECT lead to the next best match, is trailing context cut where it may begin, is all of the text scanned? | holds, 39,304 states |
| `serial` | Does a scanner load its own tables from a file of several sets, number for number, and does loading end? | holds, 23,350 states |
| `options` | Is each word of the command line read once and as what it means, and do the combinations that are let through fit each other? | holds, 97,623 states |
| `ecs` | After any three calls on any classes over five characters: is the partition the coarsest possible, do the numbers decide every class, do single characters stand alone, are the flags clear? | holds, 468,384 states |
| `nfa` | Are machines contiguous, do they match what their patterns mean, do finished rules accept and cut at the right place, are newlines noticed? | holds, 82,238 states |
| `nfa_case` | The same of case-insensitive letters when arguments are evaluated right to left | no: finding 2 |
| `dfa` | Does the DFA accept after every text what the active rules mean? Is every duplicate found, the end-of-buffer state apart, the backing-up count reliable? | holds, 701,136 states |
| `dfa_noecs` | The same without equivalence classes, with NUL in a class | no: finding 3 |
| `tables` | Do compressed, full and full-speed tables give back every row, do searches stay inside the arrays, are protos what they were, is a place taken once (`NothingReclaimed`)? | holds, 719,707 states |

### Bounds

- `scanner`: an automaton of six states with a rule that backs up over NULs and
  outgrows the buffer; buffers and reads of two characters, so that every
  token is cut in every place, buffers grow and text moves; inputs of three
  characters, some longer ones and some of two segments; two calls of actions
  (`MaxOps`) and one end of file that the caller continues after (`MaxEofs`).
  Two calls let each pair interact (`yyless` after `yymore`, `unput` after
  `input`); a third meets no state that is new in kind. `NulTables` says which
  loops take NULs by `yy_NUL_trans`: full tables do here, where it is allowed
  for; compressed ones do in `scanner_nul`, without calls of actions.
- `buffers`: a file of three characters and one of one, three buffers, one
  character in memory, three calls of the user. A stack of two with a third
  buffer beside it is the least in which push, pop and switch differ; three
  calls create, push and pop or switch, beside the buffer that the first call
  of `yylex()` makes. Three characters are what two buffers of one file can
  share so that one of them waits with a part of the file in the middle. The
  buffers are interchangeable, so the run uses symmetry.
- `reject`: four sets of rules that overlap (without trailing context, with one
  such rule, with two whose heads end in the same states, with a trail that
  may be empty), every text of up to five characters over `a` and `b`, batch
  and interactive.
- `serial`: three scanners with -CF, full and compressed tables, whose numbers
  lie at the ends of each width (127, 128, -128, 32767, -32767, 32768); any
  order of runs, each broken off anywhere; four names to look for, one of them
  nobody's and a prefix of others; loaders whose `long` has 32 and 64 bits. `Wrap`
  stands for 2^32, which TLC cannot count to.
- `options`: the part of `flexopts[]` that sets flags; every command line of up
  to two elements, and up to four of seven that take and lack arguments; up to
  two `%option` lines (`MaxLines`), which can undo one another. Words are
  sequences of pieces, so that some share a prefix.
- `ecs`: every class and character over five characters, three calls
  (`MaxCalls`): two members on each side of a split, with NUL.
- `nfa`: one rule of four reductions, or two rules of one and two; the
  characters newline, a letter in both cases, the class `[^a]` and what
  `[^a]{-}[A]` and `[a]{+}[\0a]` give, in an alphabet of four; words of up to
  three characters (`MaxWord`). Four reductions nest each operator in each other
  and then join or repeat the result, so that every operator meets machines
  that end in a used, a free and a symbol state. The repetitions are `{0,2}` and
  `{2,3}`. Two rules cover continued actions.
- `dfa`: one rule of three reductions or two of one, each with or without `^`,
  in any of two start conditions or both, one of them exclusive, the second
  rule with or without a preceding `|` action; the character `a`, `.` and the
  class `[\0b]`; REJECT or not. Words of three characters. With the default
  rule, a state that needs backing up takes two characters, which `a{3}` has.
- `tables`: five states, one of them that of the end of the buffer, over nine
  kinds of rows of four classes (empty, one transition, all to one state, nearly
  all, all different), in any order, for each scheme, with and without
  meta-classes and a NUL table. The
  queue of protos holds two (`MSP`) and the stack of rows with one transition
  two (`ONE_STACK_SIZE`), so that both overflow.

Assumptions on constants that the code does not check: `NfaAssumption` keeps
rule numbers below `YY_TRAILING_HEAD_MASK` (the rest of it says what the scanner
of patterns delivers: classes of characters, repetitions whose upper bound is
positive and not below the lower one). `RulesAssumption` of `Reject` keeps them
below `YY_TRAILING_MASK`: `flexdef.h:108` says that `new_rule()` checks this, but
it does not. `SetsAssumption` says that the
numbers of a table fit into the array the generated scanner has for them.

### Fairness

The properties of liveness are `Finishes` (a scanner that is called until the
input is used up gets to its end), `ScansAll` (a text is scanned whole however
often actions use REJECT), `Ends` (options come to a decision) and `LoadEnds`
(loading ends, unless `long` has 32 bits and a set without any table is in the
way). All of them
assume only that a program that can take a step takes one: `Fairness` of
`Scanner`, `WF_vars(Step)` in `Reject` and `Options`, `WF_vars(Load)` in
`Serial`, where loading is a loop inside one call. A sequential program whose
caller keeps calling, and whose reads return, does that. No action is favoured
over another. `Buffers` depends on what a user does, and has no liveness; that
the loops of `Ecs`, `Nfa`, `Dfa` and `Tblcmp` end can be seen in the finite
state graphs and, for `Ecs`, in the proved order of the links.

### Findings

With runs that show them:

1. `gen.cpp:895`: the branch of `yy_try_NUL_trans()` for a table of NUL
   transitions does not save the accepting state in front of the NUL, although
   the comment at `gen.cpp:946` says that compressed tables have done so
   already; `gen_next_state()` does it for its own such branch (`gen.cpp:848`).
   Without equivalence classes there always is such a table (`dfa.cpp:456`).
   A match that ends in front of the NUL is forgotten for an older one, or for
   the end-of-buffer state itself in a batch scanner without one (`gen.cpp:2004`):
   with the rule `a` the text `a\0` is gone over again and again.
2. `parse.y:754`: the order of the two states of a case-insensitive letter is
   left to the compiler; one of the orders breaks what `dupmachine()` relies on.
3. `dfa.cpp:940` and `dfa.cpp:1036`: without equivalence classes (`-Cf`, `-f`)
   the walks along a table take NUL for the greatest member although it comes
   first: `[^\0b]` matches `b`, and `[\0b]` does not.

Met while modelling, without a run. The runs that pass take these steps where an
action or operator is named, and their properties make the exception; the guards
or constants named keep the others out:

- `parse.y:149`: the default rule never has `has_nl`, so `%option yylineno`
  misses newlines that it matches (`NewlineRulesKnown`).
- `flex.skl:1770`: the count in the buffer gets what was read, without the text
  that was moved in front of it (`flex.skl:1801` adds it to `yy_n_chars` only). In
  a buffer that is still new, after two calls of `input()` that had to read,
  `yylex()` takes this count (`flex.skl:1410`) and stops at the end of the text
  with "end of buffer missed" (`flex.skl:1678`): `InputRefill`, `EndMissed`.
- `flex.skl:1480`: after an end of file reached with `yymore()` pending, the
  next call stops with "end of buffer missed" (`MoreAtEof = FALSE`).
- `ecs.cpp:113`: a table is sorted with NUL first, the lists have it last; a
  class with NUL always puts NUL in a class of its own (`Coarsest` leaves NUL out).
- `ccl.cpp:133`: the union of classes takes the table of a negated class as if
  it were not negated, and does not set `has_nl` (`CclOps` has no such union).
- `parse.y:708`: `(?s:.)` matches newlines without saying so (`Dots`, and
  `NewlinesNoticed` leaves the default rule out).
- `flex.skl:3455`: a set that was broken off before its first table has
  `th_ssize` 0, and 0 less `th_hsize` is a `flex_uint32_t` of nearly 2^32. Where a
  `long` has 64 bits, the loader goes behind the end of the file and fails,
  although its own set may follow; where it has 32, it goes back to the same
  header, forever (`SkipBy`, `InTheWay`). A set broken off later loads without an
  error. `flex.texi` describes the size as that of the whole set.
- `flex.skl:3172`: the loader refuses a header of more than 1024 bytes, which
  flex would write for a long prefix.
- `flexmain.cpp:465`: `--tables-file` without a name fails always: the name is
  copied before it is made (`CheckOptions`).
- `scan.l:359`: `%option nofull` and `nofast` set what they should unset
  (`Setting`).
- `flexmain.cpp:1275`: `%option noreject` with trailing context of variable
  length is let through, and the code of `gen.cpp:496` for it does not compile.
- `gen.cpp:895`: with REJECT and a NUL table the state after a NUL is not put on
  the stack; `Reject` has no NULs.
- `flex.skl:3002`: `yylex_destroy()` deletes the current buffer only, though its
  comment speaks of all; the memory of those below it is lost (`yylex_destroy`
  in `Buffers`).
- `flex.skl:2040` with memory buffers: the rule `Spent` above.

## Proofs

The theorems hold for all values of the constants, from the assumptions that
the modules name (numbers and states of an automaton count from 1, the default
rule matches every character, inputs consist of characters).

**`ScannerProofs`**, for every automaton, input, matching loop, size of the
buffer and of the reads, and any number of calls of `yyless`, `yymore`, `unput`
and `input`:

- `BufferAlwaysEnds` (`BufferWellFormed`): the text that was read is written in
  every cell, fits `yy_ch_buf` and is followed by both marks.
- `TypeCorrect` (`TypeOK`): no pointer leaves the cells of `yy_ch_buf`.
- `ScansAsPromised` (`LexerSpec`): the scanner implements `Lexer`. Its tokens are
  the longest matches of the input, in order, with a NUL like any other
  character; the text of `yymore`, `yyless`, `unput` and `input` is where the
  program left it; and each end of file comes behind the last character of its
  segment, however the reads cut the input.
- `LinesAreCounted` (`LinenoExact`): `yylineno` is one more than the newlines
  before the next character to match, whatever the actions give back, push or
  take. It needs `NewlineRulesKnown`: every rule that matches a newline has
  `has_nl` set and is not the default rule.

All have two hypotheses about callers, `~MoreAtEof` and `~InputAtEof`: without
them the scanner stops with "end of buffer missed", or forgets that a buffer was
new (see the findings and hazards). And all have one about the tables,
`NulsSaved`: only full tables keep NUL transitions apart. Without it
`LexerSpec` and `Finishes` do not hold (finding 1, run `scanner_nul`); with it
`SavedOverNul` shows that going over a NUL keeps the same match as the loop does. `BufferWellFormed` says nothing of the place where
matching starts or of what backing up goes back to, so it is not inductive.
`IInv` adds, for each place in `yylex()`, what the code there relies on:

- `Texts`: the buffer without what `YY_DO_BEFORE_ACTION` hides has text from
  `yytext_ptr` on (or from `yy_c_buf_p`, when `unput` has put it before that),
  then two marks.
- `Ready`: the matching loop begins at the first character of a token in the
  start state, or has a match to back up to, either kept or in the state it is
  in. `Replay` after a refill comes back to such a state (`ReplayIs`).
- `Settled`: `yy_find_action` finds the end of a match inside the text, or a NUL
  or mark not behind the first mark (`MatchIs`, for each of the three loops).
- `Fresh`: the count that replaces `yy_n_chars` when a new buffer is first left
  is the same number. The reason is that a new buffer is empty or there is
  nothing left to read, which `InCall` must keep up for `input()`: where a read
  finds an end with no more than the prefix of `yymore()` in the buffer,
  the buffer is empty and the input is over.

`NextBufferIs`, `ReadIs` and `GrownSizeIs` say what `yy_get_next_buffer()` does
to marks and text, `RestartIs` what `yyrestart()` does, `HiddenIs` and
`SameCells` that hiding a character and putting it back changes no text. Runs
of the automaton are recursive functions over the buffer; `RunExists`,
`RunToMark` and `ReplayOverText` go along them by `SetInduction`, induction over
a set of numbers, where the library has it over an operator.

For the refinement the invariant has a second part, `Knowing`, which ties the
scanner's places to the text that `Lexer` has still to match (`Unread`: what is in
the buffer from the start of the token on, and what is not yet read):

- `Tracks`: the loop is in the state that `Lexer` reaches over the characters gone
  over, and the backing-up pair is the longest match among them (`Knows`).
- `Finds`: what `yy_find_action` will choose is the longest match of the whole
  text, or there is a NUL before the place (`MatchFinds`, `ReplayFinds`: a loop
  that stops has jammed, and a state that has jammed matches nothing longer).
- `Pending`: a stream that has ended and has another segment is one whose buffer
  waits for it, so no read mixes two segments.

A buffer and a stream are one word (`Word`, `Spells`), and what a step does to the
word is shown once for each way in which cells change: nothing but a hidden
character (`SameCellsWord`), a part taken (`SplitWord`, `DropWord`), a character put
before it (`PushedWord`), text that moves to the front while more is read behind
it (`MovedWord`, `TextAfterRead`). Then each step of `yylex()` is a step of `Lexer`
(`RuleMatched` is `Token`, the refill at an end of file `NextSegment` or
`EndOfFile`) or changes none of its variables (`StepLexes`).

`LinesAreCounted` follows from the same steps: `Counted` says at every place that
`yylineno` and the newlines of the word and of the segments after it make up those
of the input, and `Newlines` adds over what is put together (`NewlinesAdd`).

**`EcsProofs`**, for every alphabet, every set of classes and single characters
and every number of calls:

- `TypeCorrect`: the links never leave their arrays (`TypeOK`).
- `ClassesDecide`: characters with the same class number are in the same
  classes (`ClassesDecideTables`), so nothing is lost when `ccl2ecl()` rewrites
  a class in class numbers.
- `SinglesAlone`: a character given to `mkechar()` keeps a class of its own and
  heads it (`SinglesStandAlone`).
- `FlagsAreClear`: `cclflags`, which is static, is clear between calls
  (`NoStaleFlag`).
- `AsCoarseAsPossible`: characters other than NUL that no class and no single
  character tells apart get the same number (`Coarsest`).
- `Invariance`: the inductive invariant `IInv` they follow from.

The properties speak of class numbers and the program of links, so none of
them is inductive. Statements about reachability along the links would need
induction over lists. Instead `IInv` says two things of each single link,
which pass along whole lists by themselves: its ends belong together (in the
same finished classes, neither a single character), and both or neither are in
the part of the class that `mkeccl()` has processed. Only the links out of
`newec` and `oldec`, which are about to be rewritten, are exempt. `Increasing`,
that each link leads to a greater member, is what makes one pass over the class
enough. While `cre8ecs()` overwrites the backward links with numbers, the
invariant says that numbered members with the same number belong together.
There is one lemma per action (`MkECharInv`, `LinkCompanionInv`,
`EndMemberInv`, `SpreadStepInv`, ...).

`Coarsest` needs the converse, that members which belong together are linked,
and gets it the same way (`CoarseInv`): the link out of a member leads to the
next one that belongs to it or to one before that (`Dense`). While `mkeccl()` follows a
list, this holds but for `newec` and `oldec`; what they still miss lies at
`i` or behind it (`Due`), and the second iterator has not passed it. `OneNumber`
then takes the greatest member with a number other than that of a later one it
belongs with: its link leads to a greater such member. NUL must be left out: it
is the first member of a class but the last of a list.

**`NfaProofs`**, for all patterns, with whatever repetitions, classes, trailing
contexts, start conditions and number of rules:

- `TypeCorrect` (`TypeOK`): `mkxtion()` never finds "too many transitions", and
  every transition, extent, final state and start condition is a state that
  exists.
- `AlwaysSelfContained` (`SelfContained`): the machines on the parser's stack
  share no states, no transition leaves one, and the last one has the last
  states made.

Both have the hypothesis `LeftFirst`: there are no case-insensitive patterns, or
their two letters are made in the order they are written in. In the other order
`AlwaysSelfContained` is false (finding 2, run `nfa_case`).

`SelfContained` is not inductive: nothing in it keeps `link_machines()` from
giving a final state a third transition. `IInv` adds that the final state of
each machine has one left (`Room`) and is in the machine's extent, that extents
on the stack lie side by side up to the end of the state array (`StackOK`), and
that the start conditions are states below them (`CondSet`). Each function of
`nfa.cpp` has a lemma of what it does to one machine: `LinkIs`, `MkOptIs`,
`MkPosClIs`, `MkOrIs`, `DupMachineIs`, `CopySinglIs`, `MkRepIs`, `BranchedIs`.
Each says that the result is again a machine of the
last states, and that states below it are as before. Those of
`copysingl()` and `mkrep()`, which repeat, go by `SetInduction` along recursive
functions. `StackReduced` turns this into the invariant of the stack for all
reductions, and there is one lemma `...Keeps` per action.

What the parser counts and notes of a rule needs no machines, only the words of
the values on its stack:

- `AlwaysCutsAtHead` (`CutsAtHead`): where the length of the head or of the
  trailing context is taken to be fixed, every word of it has that length. The
  parser has one count for all values on its stack, so `Measured` says that
  there is a way to divide the count among them such that the words of each
  are of its length (`Uniform`). A concatenation joins two neighbours
  (`JoinMeasured`), and all other operators set `varlength`. The count of the head
  is kept over the `/` (`HeadFixed`).
- `AlwaysNewlinesNoticed` (`NewlinesNoticed`): `rule_has_nl` is set if a word of
  the head has a newline. As long as it is not set, no word on the stack has
  one (`Quiet`). The argument about each class goes through what is put into its
  table and when it is negated (`ClassNewlines`). Its hypothesis is
  `NewlinesKnown`: no `.` that matches newlines, no `{+}` of classes with one and
  no letter that is one. For the first two the code sets nothing: `NewlinesNoticed`
  is false with them.

**`Dfa`**, in `NfaProofs`, for all rules, with equivalence classes or without:

- `AlwaysDuplicatesFound` (`DuplicatesFound`): a duplicate is looked up in the
  transitions that the state already has, by a loop with no other end. So what
  `sympartition()` names as the duplicate of a listed symbol must be listed
  itself: `DuplicateListed` goes through the ways in which a symbol gets
  listed, by a character, a class, what a negated class leaves out, and NUL,
  which is number 0 in a table and `NUL_ec` in the list. The symbols are taken in order,
  so every listed one up to the current one has its transition (`Filled`),
  and `GreatestDuplicate` is among them.
- `DfaTypeCorrect` (`DfaTypeOK`): DFA states are different bags of states that
  exist, and transitions lead to DFA states that exist. What `epsclosure()`
  reaches is a recursive function along the length of the list; the `Descent`
  lemmas of `NumberLemmas` show that there is one and that it stays among
  the states (`EpsReachIs`).
- `AlwaysEobApart` (`EobApart`): the generated scanner tells the end of the buffer
  by the number of its state, so no text may lead there, and nothing may leave
  it. The states that rules are hung below are on nothing, accept nothing, and no
  symbol leads to one (`Bare`). The parser never changes that: they lie below
  all machines on its stack, and rules are hung below them by epsilon transitions
  alone (`Hung`, part of `IInv`). So each start state has the state it was made from
  (`Seeded`), no state that a symbol leads to has it (`TargetIs`), and no two
  start states are the same. The end-of-buffer state has no NFA states, and a
  symbol that is followed leads to some: when the rules are read only the ends
  of machines ever lacked a transition (`Lax`), and they have been linked. That
  a listed symbol has a state on it is `MarkedFollows`.
- `AlwaysBackingUpKnown` (`BackingUpKnown`): if no state was counted by
  `ntod()`, every state that a text leads to accepts. Such a state comes after
  the first ones (`Beyond`), and those are all looked at (`Wired`). Along the
  text `Run` goes by `RunLeads`; that every character has a symbol to go by is
  `SymbolsInv`, where the numbers of the classes have no gaps (`RanksDense`).

The last three have the hypothesis `LeftFirst`, as the machines have to be
self-contained. The last two have `NulsNumbered` too: characters are not the
symbols, or no class but a negated one has NUL. Otherwise a symbol can be
listed for a class although the walk along its table does not find
it (finding 3); it then leads to no NFA states, which is the end-of-buffer
state. The run `dfa` keeps to both.

**`OptionsProofs`**, for every table of options and every command line:

- `TypeCorrect` (`OptionsTypeOK`): `scanopt()` reads inside `argv` and inside
  its runs of letters.
- `EveryUnitOnce` (`ArgvReadOnce`): every letter and word before the operands is
  read exactly once. The invariant `ArgvInv` says that what has been read is
  what lies before the current place; `OptionTakes` shows that an option with
  its argument takes the units from there to the place `Advance` goes to.
- `AlwaysMeant` (`OptionsMeant`): the option read is the one that the letter or
  word there names. `find_opt()` counts the options that a word is short for
  and skips one with the value of the match before it; `LongMeant` shows that
  when it counts one, all the matches have its value, wherever they are in the table.
- `ChoicesAlwaysFit` (`ChoicesFit`): what gets through `check_options()` and
  `readin()` fits. The flags change in only two ways before, by assignments
  that keep their types and leave `gentables` alone (`Assigns`), so the
  argument is about the two functions themselves (`CheckedFits`).

**`BuffersProofs`**, for any number of files, buffers, characters and calls:

- `BuffersSound` (`BuffersTypeOK`): no buffer is on the stack twice, deleted or
  above the top, every text ends in its two marks, the position is inside
  the text when the scanner runs, and "end of buffer missed" is only for a new
  buffer that is filled from a file and whose own count is less than what is
  in it. `IInv` adds to it what each function relies
  on: no buffer below the top has its position behind its mark (`Below`), so
  that popping finds a place to continue from; and the position of the current
  buffer is behind its mark only inside `yywrap()`, before another buffer is
  switched to (`Positioned`). The text of the current buffer is measured by
  `yy_n_chars`, since the buffer's own count may be too small (`InputRefill`);
  whatever switches to another buffer puts it right. Where the scanner stops is
  `Missed`. Lemmas about the parts that functions share
  (`Placed`, `Rewritten`, `Removed`, `Repositioned`) carry one short proof for
  each action.
- `NothingIsLost` (`Conserved`): every character that has been read, or is scanned
  from memory, was taken once, or waits in one buffer, or was discarded by the
  user; none of them is the NUL at the end of `yytext`; and through one buffer
  the text of a file comes in order. What came `Through` a buffer and what
  still waits in it make one sequence, and a step does one of three things to
  these sequences: it leaves them (`AllStays`: also a token only moves the
  boundary, `Consumed`), appends the next part of a source to one of them
  (`FileComes`, `MemoryComes`), or cuts off what waits and discards it
  (`SomeDropped`). That each of these keeps `Kept` is shown for sequences alone
  (`KeepsSame`, `KeepsGrown`, `KeepsDropped`). What is left for each action is
  what waits before and after it: saving the old buffer puts back the hidden
  character (`RestIs`), loading the new one hides it again (`RestLoaded`).
  Restarts lose nothing because nothing waits then (`Idle`), and the first
  call of `yylex()` loads what is loaded already (`Loaded`).

**`TblcmpProofs`**, for any automaton, order of its rows, form of the tables and
thresholds:

- `NeverReclaimed` (`NothingReclaimed`): a place that an entry of one row has
  claimed keeps that entry until the marks become numbers of states, although
  rows are placed inside the gaps of others, before them and behind them, and
  the arrays grow meanwhile.
- `ArraysSound`: the inductive invariant `IInv`. Both arrays have one size and
  nothing is taken behind `tblend`. The second part is what the code relies on
  when `mkentry()` puts a row behind `tblend` without a search, and when
  `find_table_space()` takes places that the arrays did not yet have.

Which entries a row has comes from templates and protos; they do not matter
here, since each writer looks at `chk` itself. So the lemma `Claims` says once
that a function that writes only to free places up to the new `tblend` keeps
both the invariant and what was claimed, and each of `mkentry()`, `mk1tbl()`,
`place_state()` and `mkdeftbl()` is shown to be such a function.

- `ProtosHold` (`ProtosAreCurrent`): the queue of protos is one chain whose slots
  hold the rows they are named for. `Queue` follows the links, which is no
  statement that a step preserves; `ProtosOK` says instead that there is an
  order of the slots in use (`Order`) with the links of a queue in that order
  (`Chain`), and `QueueIs` that `Queue` is then this order, by induction. Adding
  a slot, taking the last one and moving one to the front all put a slot in
  front and keep the others in order (`ToFront`, `Relinked`), so they share the
  proof that the chain is still one. That `mkprot()` and `mv2front()` in a row
  do not take the same proto twice needs that two protos are left when there
  is no more room (`Counted`), for which `MSP >= 3` and room for two rows are
  assumed (`ThresholdsAssumption`; `flexdef.h` has 50 and 2000).

- `TablesHold` (`TablesDecode`), `ReadsHold` (`ReadsStayInside`) and `TblTypesHold`
  (`TblTypeOK`): the tables decode to the rows of the automaton, and nobody
  leaves the arrays.

These three have the hypothesis `Distinguishable`, fewer than 32766 states: a
template is known by its negative number, and `JAMSTATE`, which says that a state
has no default, is one of the negative numbers, -32766. `flex` has no limit of
its own on the states of the automaton, so this is a hypothesis of the theorems
and no assumption of the module.

`TablesDecode` says nothing before the scanner looks at the tables, so `DecodeInv`
carries the meaning of what has been put down through each phase:

- `Packed`: what a state or template has in the arrays, or on the one-stack, are its
  `Entries`; where it has none, what its default `Means` holds. Both together
  make up its row (`StateOK`, `TemplateOK`). A default is a template or a state before,
  so the rows never change once they are right: every writer leaves the entries
  of the others as they are (`Same`), and the argument for one row more
  (`RowPacked`) is the same for rows put down whole (`WholePacked`), as a
  difference to a proto (`UseProtoPacked`) or to a template (`MkTemplatePacked`).
  That the difference is to the row the default stands for is
  `ProtosOK`. For a template there is a column per meta class, and classes of one
  meta class lead to the same state (`MetaAlike`). `WaiterSettles` says that
  a row from the one-stack is the same when it is in the arrays.
- `Finished`: behind them the row of the jam state, so that every lookup, also from
  a base of 0, stays inside.
- `Decoded`: after `gentabs()` the defaults are links. `Leads(x, c, v)` says that
  column `c` of row `x` stands for `v`: there is an entry, which is `v`, or
  the default `Leads` to `v`, too, and is nearer to the jam state (`Steps`). `LookupIs` goes
  along the loop of the scanner with this.
- `Written` for full tables, `FastTable` for full speed: two marks for each state
  at places of their own, its entries behind them, and nothing else, so
  that a class that has no entry never finds the entry of another state. `GenctblMakes`
  says what the marks become.

That an interactive scanner stops at the right states (the base of the jam state)
needs that a state without transitions never has anything put down: such a state
is too small to be compared with protos, or has no transition but on NUL, which is
taken out only when each of the characters has a class of its own (`Init`).

**`RejectProofs`**, for all rules (any words as heads and trails) and texts,
batch and interactive:

- `NextBestHolds` (`NextBest`): the action is that of the best match, and every
  REJECT leads to the next best one.
- `TrailingContextHolds` (`TrailingContextCut`): `yytext` of a rule with trailing
  context is one of its heads, and the rest of the match one of its trails,
  unless the trailing context is dangerous.
- `TypesHold` (`RejectTypeOK`): `yy_state_ptr` never runs below `yy_state_buf`.

The scanner does not know matches, only entries of accept lists, so `NextBest`
is not inductive. `IInv` says what the search has to do with matches:

- `Stacked`: the stack holds the states of the text from `yytext` on, so the list
  at depth n names the rules that match n characters, in their order and
  before the heads (`StackedShape`, `ListingIs`).
- `Searching`: the matches that the search has left behind (`Passed`) are as many
  as were rejected. An entry is the best match not yet passed (`PassedMatch`),
  and a head is passed without losing one (`PassedHead`).
- `LookingForHead`: between the end of the match and where the scanner is no
  head of its rule ends. Since a match is a head and a trail, there is one
  below (`HeadBelow`), and `BackUp` stops before the start state.
- `Chosen`: `yy_full_lp` and the others lead back to the entry of the match, so
  the search goes on behind it; and what lies at the bottom is the default
  rule, which cannot be rejected (`BottomIs`).

`Run` is a recursive function; `RecursionIs` of `NumberLemmas` shows that there is
one, and `FollowsShape` and `FollowsMatch` go along it.

Only model-checked: that machines match what their patterns mean (`MachinesMatch`,
`RulesMatch`) and that the DFA does (`Scans`), since the states after a word and
what a pattern means are both recursive over data; and `Serial`
(`SizesRecorded`, `LoadsItsOwn`), whose numbers are taken apart into bytes and
put together again by recursion along them.
Out of the prover's reach: what needs fairness (`Finishes`, `ScansAll`, `Ends`,
`LoadEnds`).

## Not modelled

- The stack of start conditions, a stack of numbers in an array:
  `yy_top_state()` on an empty one reads before its beginning (`flex.skl:2557`).
- `%array` and the C++ class, other forms of what `Scanner` and `Buffers` model.
- `<<EOF>>` rules, erroneous rules, warnings and reports
  (`check_trailing_context`, the backing-up report, statistics).
- NULs in `Reject`: the state behind a NUL is found another way there.
- The verification of loaded tables against compiled ones (`--tables-verify`).
- Everything whose result is text: the rest of `scan.l`, the stack of scan
  flags, `skelout`, contexts and the macro processor, and the text of the code.

## Plan

Done: `Lexer`, `Scanner` and `ScannerProofs`, `Ecs` and `EcsProofs`, `Nfa` with classes
and `NfaProofs`, `Dfa` with its proofs there, `Options` and `OptionsProofs`, `Tblcmp` and `TblcmpProofs`, `Reject` and `RejectProofs`, `Serial`,
`Buffers` and `BuffersProofs`.

1. NULs in `Reject`, with the NUL table.
2. `%if` nesting in `skelout`, and the stack of scan flags with the parentheses
   of patterns.
3. Proofs: that machines match what their patterns mean (`MachinesMatch`), by the
   constructions one at a time, along words as `RunLeads` goes.
