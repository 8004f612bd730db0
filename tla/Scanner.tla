------------------------------ MODULE Scanner ------------------------------
(***************************************************************************)
(* The run-time part of a generated scanner (flex.skl, and the code that   *)
(* gen.cpp writes into it): yylex() over one buffer.                       *)
(*                                                                         *)
(* The buffer ends in two NUL characters, the end-of-buffer marks, and the *)
(* input may hold NUL characters of its own.  Matching runs into a mark    *)
(* and only then finds out which of the two it is, whether there is more   *)
(* to read, and what to do with the half-matched text.  Reads deliver any  *)
(* number of characters.  Actions call yyless, yymore, unput and input.    *)
(*                                                                         *)
(* One action per step of yylex() that ends where control comes back to    *)
(* the loop: a match, the choice of its rule, the end-of-buffer action,    *)
(* and one per call of the user's actions.  Pointers into yy_ch_buf are    *)
(* indices from 0.                                                         *)
(*                                                                         *)
(* Left out: start conditions, '^', trailing context, REJECT, %array, and  *)
(* changes of buffer inside an action.                                     *)
(*                                                                         *)
(* A definition with a suffix, as Restart_OneMark, is a wrong variant of   *)
(* the one it stands before: a slip that the properties must notice.       *)
(***************************************************************************)
EXTENDS Integers, Sequences, FiniteSets, FiniteSetsExt, SequencesExt

CONSTANTS
  Rules, Delta, Accept, Start,  \* the automaton, as in module Lexer
  NlRules, DefaultRule,         \* the rules that may match NL; the default rule
  NUL, NL,                      \* '\0' and '\n'
  Pushable,                     \* the characters that actions pass to unput()
  Inputs,                       \* the inputs to scan: sequences of segments
  Modes,                        \* the matching loops: "full", "compressed", "interactive"
  NulTables,                    \* those of them whose tables keep the NUL transitions apart
  Sources,                      \* "file": filled by YY_INPUT; "memory": yy_scan_buffer
  YY_BUF_SIZE, YY_READ_BUF_SIZE,
  Ops,                          \* the calls actions make: "less", "more", "unput", "input"
  MaxOps,                       \* bound: how many of them in a behaviour
  MaxEofs,                      \* bound: how many ends of file the caller asks for
  MoreAtEof,                    \* whether the caller calls again after an end of
                                \* file that a yymore() was waiting at
  InputAtEof                    \* whether input() is called where a segment has
                                \* ended and another follows

\* The state that a mark leads to, and its action.
EobState == 1 + Max(DOMAIN Delta)
YY_END_OF_BUFFER == 1 + Max(Rules)
Jam == 0
Chars == DOMAIN Delta[Start]

\* A cell of yy_ch_buf nobody has written yet.
Undef == -1

\* Rules and states are numbered from 1.
ASSUME AutomatonAssumption ==
  /\ IsFiniteSet(Rules) /\ Rules = 1 .. Cardinality(Rules)
  /\ DefaultRule \in Rules
  /\ IsFiniteSet(DOMAIN Delta) /\ DOMAIN Delta = 1 .. Cardinality(DOMAIN Delta)
  /\ Start \in DOMAIN Delta
  /\ \A s \in DOMAIN Delta :
       /\ Accept[s] \in Rules \cup {0} /\ DOMAIN Delta[s] = Chars
       /\ \A c \in Chars : Delta[s][c] \in DOMAIN Delta \cup {Jam}
  \* Any single character is matched, by the default rule if by no other.
  /\ Accept[Start] = 0
  /\ \A c \in Chars : Delta[Start][c] # Jam /\ Accept[Delta[Start][c]] # 0

\* What there is to scan is written in the characters of the automaton.
ASSUME CharsAssumption ==
  /\ NUL \in Chars /\ Undef \notin Chars /\ Pushable \subseteq Chars
  /\ \A segments \in Inputs : segments # <<>> /\ segments \in Seq(Seq(Chars))

ASSUME ModesAssumption ==
  /\ Modes \subseteq {"full", "compressed", "interactive"} /\ NulTables \subseteq Modes
  /\ Sources \subseteq {"file", "memory"}

ASSUME SizeAssumption == YY_BUF_SIZE \in Nat \ {0} /\ YY_READ_BUF_SIZE \in Nat \ {0}

VARIABLES
  mode,    \* how the tables are laid out; fixed
  input,   \* the whole input; fixed
  yyin,    \* the stream: what is left of it, and whether it has returned EOF
  b,       \* YY_CURRENT_BUFFER
  g,       \* the scanner's globals
  l,       \* yylex's locals and the backing-up pair
  pc,      \* where yylex() is
  out,     \* what the program has seen
  ops, eofs

vars == <<mode, input, yyin, b, g, l, pc, out, ops, eofs>>

----------------------------------------------------------------------------
(* The automaton as the tables hold it.                                    *)

\* yy_accept, with the action of the end-of-buffer state.
YyAccept(s) == IF s = EobState THEN YY_END_OF_BUFFER
               ELSE IF s = Jam THEN 0 ELSE Accept[s]

\* yy_rule_can_match_eol: has_nl of the rule, which the parser sets when it
\* reads a newline in a pattern.  The default rule is not read from anywhere.
CanMatchEol(r) == r \in NlRules \ {DefaultRule}

\* The transition of the matching loop: a NUL character is a mark to it.
NextState(s, c) ==
  IF s \in {Jam, EobState} THEN Jam ELSE IF c = NUL THEN EobState ELSE Delta[s][c]

\* The transition on a NUL that has been found to be one, from the row of s
\* (NUL_ec) or from yy_NUL_trans.
NulState(s) == IF s \in {Jam, EobState} THEN Jam ELSE Delta[s][NUL]

\* yy_base[s] = jambase: only the jam state follows.
OnlyJams(s) ==
  s \in {Jam, EobState} \/ \A c \in DOMAIN Delta[s] : Delta[s][c] = Jam

\* The states gone through from state s, over the characters from index i
\* on, with Step for the transition.
Path(Step(_, _), ch, i, s) ==
  LET st[p \in i .. Max(DOMAIN ch) + 1] ==
        IF p = i THEN s ELSE Step(st[p - 1], ch[p - 1])
  IN  st

MatchPath(ch, i, s) == Path(NextState, ch, i, s)

\* gen_backing_up(): the last accepting state of a path, which a transition
\* out of q leaves (compressed tables) or a transition into q enters (full).
\* The position kept is yy_cp at that point.
LastAccepting(st, first, last, old) ==
  LET qs == IF mode = "full"
            THEN {q \in first + 1 .. last : YyAccept(st[q]) # 0}
            ELSE {q \in first .. last - 1 : YyAccept(st[q]) # 0}
  IN  IF qs = {} THEN old
      ELSE [state |-> st[Max(qs)],
            cpos |-> IF mode = "full" THEN Max(qs) - 1 ELSE Max(qs)]

\* Where yy_cp goes when the scanner backs up.
BackUpTo(la) == IF mode = "full" THEN la.cpos + 1 ELSE la.cpos

----------------------------------------------------------------------------
(* The buffer.                                                             *)

Slice(ch, i, j) == [k \in 1 .. j - i |-> ch[i + k - 1]]

Newlines(s) == Cardinality({i \in DOMAIN s : s[i] = NL})

yytext == Slice(b.ch_buf, g.text_ptr, g.c_buf_p)

\* YY_DO_BEFORE_ACTION, with the match ending before cp.
DoBeforeAction(bb, gg, bp, cp) ==
  [b |-> [bb EXCEPT !.ch_buf[cp] = NUL],
   g |-> [gg EXCEPT !.text_ptr = bp - gg.more_len, !.hold_char = bb.ch_buf[cp],
                    !.c_buf_p = cp]]

\* Undo what it did to the buffer.
Restored == [b EXCEPT !.ch_buf[g.c_buf_p] = g.hold_char]

\* The newlines of a match, counted from yy_more_len on.
MatchedNewlines_FromYytext(ch, bp, cp) == Newlines(Slice(ch, bp - g.more_len, cp))
MatchedNewlines(ch, bp, cp) == Newlines(Slice(ch, bp, cp))

\* yyrestart(yyin): yy_init_buffer, yy_flush_buffer and yy_load_buffer_state.
Restart_OneMark(bb, gg) ==
  [b |-> [bb EXCEPT !.n_chars = 0, !.ch_buf[0] = NUL, !.fill = TRUE, !.status = "NEW"],
   g |-> [gg EXCEPT !.n_chars = 0, !.text_ptr = 0, !.c_buf_p = 0, !.hold_char = NUL]]
Restart(bb, gg) ==
  [b |-> [bb EXCEPT !.n_chars = 0, !.ch_buf[0] = NUL, !.ch_buf[1] = NUL,
                    !.fill = TRUE, !.status = "NEW"],
   g |-> [gg EXCEPT !.n_chars = 0, !.text_ptr = 0, !.c_buf_p = 0, !.hold_char = NUL]]

\* The sizes yyrealloc() gives the buffer until something can be read.
GrownSize(size, moved) ==
  LET sz[n \in 0 .. moved + 1] == IF n = 0 THEN size ELSE 2 * sz[n - 1]
  IN  sz[Min({n \in 0 .. moved + 1 : sz[n] - moved - 1 > 0})]

\* A stream that has returned EOF goes on with the next segment: a terminal
\* after its ^D, or a new file that yywrap() opened.
Stream == IF yyin.eof /\ yyin.next # <<>>
          THEN [cur |-> Head(yyin.next), next |-> Tail(yyin.next), eof |-> FALSE]
          ELSE yyin

\* yy_get_next_buffer(): how much text it moves to the front, and the size
\* of the buffer it reads into.
MovedChars(gg) == gg.c_buf_p - gg.text_ptr - 1

CanRead_EvenAfterEof == b.fill
CanRead == b.fill /\ b.status # "EOF_PENDING"

SizeToRead(gg) ==
  IF CanRead /\ b.buf_size - MovedChars(gg) - 1 <= 0
  THEN GrownSize(b.buf_size, MovedChars(gg)) ELSE b.buf_size

\* YY_INPUT: how many characters a read may deliver, 0 only at the end of a
\* segment, and the stream after it.
Reads(gg) ==
  IF ~CanRead \/ Stream.cur = <<>> THEN {0}
  ELSE 1 .. Min({SizeToRead(gg) - MovedChars(gg) - 1, YY_READ_BUF_SIZE, Len(Stream.cur)})

AfterRead(k) ==
  IF ~CanRead THEN yyin
  ELSE [Stream EXCEPT !.cur = SubSeq(@, k + 1, Len(@)), !.eof = (k = 0)]

\* The cells yyrealloc() makes: "room in for 2 EOB chars".
Cells_NoMarks(size) == 0 .. size - 1
Cells(size) == 0 .. size + 1

\* yy_get_next_buffer(), when the read delivers k characters.
NextBuffer(gg, k) ==
  LET move == MovedChars(gg)
      size == SizeToRead(gg)
      n == IF CanRead THEN k ELSE 0
      ch == [i \in Cells(size) |->
               IF i < move THEN b.ch_buf[gg.text_ptr + i]
               ELSE IF i < move + n THEN Stream.cur[i - move + 1]
               ELSE IF i \in DOMAIN b.ch_buf THEN b.ch_buf[i] ELSE Undef]
      read == [b |-> [b EXCEPT !.ch_buf = ch, !.buf_size = size, !.n_chars = n],
               g |-> [gg EXCEPT !.n_chars = n]]
      eof == IF move = gg.more_len THEN Restart(read.b, read.g)
             ELSE [read EXCEPT !.b.status = "EOF_PENDING"]
      got == IF n = 0 THEN eof ELSE read
      total == got.g.n_chars + move
      done == [b |-> [got.b EXCEPT !.ch_buf[total] = NUL, !.ch_buf[total + 1] = NUL],
               g |-> [got.g EXCEPT !.n_chars = total, !.text_ptr = 0]]
  IN  IF gg.c_buf_p > gg.n_chars + 1
        THEN [ret |-> "FATAL", b |-> b, g |-> gg]
      ELSE IF ~b.fill
        THEN [ret |-> IF gg.c_buf_p - gg.text_ptr - gg.more_len = 1
                      THEN "END_OF_FILE" ELSE "LAST_MATCH",
              b |-> b, g |-> gg]
      ELSE [ret |-> IF n # 0 THEN "CONTINUE_SCAN"
                    ELSE IF move = gg.more_len THEN "END_OF_FILE" ELSE "LAST_MATCH",
            b |-> done.b, g |-> done.g]

----------------------------------------------------------------------------
(* yylex().                                                                *)

Kept == UNCHANGED <<mode, input>>

Loaded(ch, size, n, fill) ==
  [ch_buf |-> ch, buf_size |-> size, n_chars |-> n, fill |-> fill, status |-> "NEW"]

Init ==
  /\ mode \in Modes
  /\ input \in Inputs
  /\ \E source \in Sources :
       /\ source = "memory" => Len(input) = 1
       /\ yyin = [cur |-> IF source = "file" THEN Head(input) ELSE <<>>,
                  next |-> Tail(input), eof |-> FALSE]
       /\ b = IF source = "file"
              THEN Loaded([i \in 0 .. YY_BUF_SIZE + 1 |-> IF i < 2 THEN NUL ELSE Undef],
                          YY_BUF_SIZE, 0, TRUE)
              ELSE LET s == Head(input)
                   IN  Loaded([i \in 0 .. Len(s) + 1 |->
                                 IF i < Len(s) THEN s[i + 1] ELSE NUL],
                              Len(s), Len(s), FALSE)
       /\ g = [n_chars |-> b.n_chars, c_buf_p |-> 0, text_ptr |-> 0,
               hold_char |-> b.ch_buf[0], more_flag |-> FALSE, more_len |-> 0,
               lineno |-> 1]
  /\ l = [cp |-> 0, bp |-> 0, cs |-> Start, last |-> [state |-> Jam, cpos |-> 0],
          intact |-> TRUE]
  /\ pc = "start"
  /\ out = <<>>
  /\ ops = 0 /\ eofs = 0

\* The top of the loop: yymore's prefix, yy_cp, yy_bp and the start state.
StartToken ==
  /\ pc = "start"
  /\ b' = Restored
  /\ g' = [g EXCEPT !.more_len = IF g.more_flag THEN g.c_buf_p - g.text_ptr ELSE 0,
                    !.more_flag = FALSE]
  /\ l' = [l EXCEPT !.cp = g.c_buf_p, !.bp = g.c_buf_p, !.cs = Start]
  /\ pc' = "match"
  /\ Kept /\ UNCHANGED <<yyin, out, ops, eofs>>

\* yy_match: run the automaton until it jams.
Match ==
  /\ pc = "match"
  /\ LET ch == b.ch_buf
         st == MatchPath(ch, l.cp, l.cs)
         end == CASE mode = "full" ->
                       Min({p \in l.cp .. Max(DOMAIN ch) : NextState(st[p], ch[p]) = Jam})
                  [] mode = "compressed" ->
                       Min({p \in l.cp + 1 .. Max(DOMAIN ch) + 1 : st[p] = Jam})
                  [] mode = "interactive" ->
                       Min({p \in l.cp + 1 .. Max(DOMAIN ch) + 1 : OnlyJams(st[p])})
         la == LastAccepting(st, l.cp, end, l.last)
     IN  l' = [l EXCEPT !.last = la,
                        !.cp = IF mode = "compressed" THEN la.cpos ELSE end,
                        !.cs = IF mode = "compressed" THEN la.state ELSE st[end]]
  /\ pc' = "find"
  /\ Kept /\ UNCHANGED <<yyin, b, g, out, ops, eofs>>

\* yy_find_action, after the backing up that a non-accepting state asks for.
Found ==
  IF YyAccept(l.cs) # 0 THEN [act |-> YyAccept(l.cs), cp |-> l.cp]
  ELSE [act |-> YyAccept(l.last.state), cp |-> BackUpTo(l.last)]

RuleMatched ==
  /\ pc = "find" /\ Found.act # YY_END_OF_BUFFER
  /\ LET d == DoBeforeAction(b, g, l.bp, Found.cp)
         newlines == IF CanMatchEol(Found.act)
                     THEN MatchedNewlines(b.ch_buf, l.bp, Found.cp) ELSE 0
     IN  /\ b' = d.b
         /\ g' = [d.g EXCEPT !.lineno = @ + newlines]
         /\ out' = Append(out, <<"token", Found.act,
                                 Slice(b.ch_buf, d.g.text_ptr, d.g.c_buf_p)>>)
  /\ l' = [l EXCEPT !.cp = Found.cp, !.intact = TRUE]
  /\ pc' = "action"
  /\ Kept /\ UNCHANGED <<yyin, ops, eofs>>

\* A mark or a NUL was reached; the buffer's count replaces the global one
\* when the buffer is new.
EndOfBufferMatched ==
  /\ pc = "find" /\ Found.act = YY_END_OF_BUFFER
  /\ LET d == DoBeforeAction(b, g, l.bp, Found.cp)
         new == b.status = "NEW"
     IN  /\ b' = [b EXCEPT !.status = IF new THEN "NORMAL" ELSE @]
         /\ g' = [d.g EXCEPT !.n_chars = IF new THEN b.n_chars ELSE @]
  /\ l' = [l EXCEPT !.cp = Found.cp]
  /\ pc' = "eob"
  /\ Kept /\ UNCHANGED <<yyin, out, ops, eofs>>

\* yy_get_previous_state(): the text from yy_bp to index end, once more; the
\* transition takes every NUL for a character.
ReplayState(s, c) == IF c = NUL THEN NulState(s) ELSE NextState(s, c)
ReplayPath(ch, i, s) == Path(ReplayState, ch, i, s)

Replay(ch, bp, end) ==
  LET st == ReplayPath(ch, bp, Start)
  IN  [l EXCEPT !.bp = bp, !.cp = end, !.cs = st[end],
                !.last = LastAccepting(st, bp, end, @)]

\* "Consume the NUL": the position after it.
NulConsumed_Not(at) == at
NulConsumed(at) == at + 1

\* yy_NUL_trans is there: without equivalence classes it always is.
nultrans == mode \in NulTables

\* yy_try_NUL_trans(), from what before holds: the transition that over has
\* taken saves the state it leaves, or enters; but one through yy_NUL_trans
\* does not save the state it leaves.
OverNul(before, over) ==
  IF nultrans /\ mode # "full" THEN [over EXCEPT !.last = before.last] ELSE over

\* "This was really a NUL": go on over it, or back up.
ReallyNul ==
  /\ pc = "eob" /\ g.c_buf_p <= g.n_chars
  /\ LET at == l.cp - 1
         bp == g.text_ptr + g.more_len
         before == Replay(b.ch_buf, bp, at)
         over == OverNul(before, Replay(b.ch_buf, bp, NulConsumed(at)))
     IN  IF NulState(before.cs) # Jam
         THEN /\ g' = [g EXCEPT !.c_buf_p = NulConsumed(at)]
              /\ l' = over
              /\ pc' = "match"
         ELSE /\ g' = [g EXCEPT !.c_buf_p = at]
              /\ l' = IF mode = "full" THEN before
                      ELSE IF mode = "interactive" THEN [before EXCEPT !.last = over.last]
                      ELSE [over EXCEPT !.cp = over.last.cpos, !.cs = over.last.state]
              /\ pc' = "find"
  /\ Kept /\ UNCHANGED <<yyin, b, out, ops, eofs>>

\* A mark: yy_get_next_buffer() and the three things that may come of it.
Refill ==
  /\ pc = "eob" /\ g.c_buf_p > g.n_chars
  /\ \E k \in Reads(g) :
       LET amount == l.cp - g.text_ptr - 1
           r == NextBuffer(g, k)
           bp == r.g.text_ptr + g.more_len
           restarted == Restart(r.b, r.g)
       IN  CASE r.ret = "CONTINUE_SCAN" ->
                  /\ b' = r.b
                  /\ g' = [r.g EXCEPT !.c_buf_p = r.g.text_ptr + amount]
                  /\ l' = Replay(r.b.ch_buf, bp, r.g.text_ptr + amount)
                  /\ pc' = "match"
                  /\ yyin' = AfterRead(k)
                  /\ UNCHANGED out
             [] r.ret = "LAST_MATCH" ->
                  /\ b' = r.b
                  /\ g' = [r.g EXCEPT !.c_buf_p = r.g.n_chars]
                  /\ l' = Replay(r.b.ch_buf, bp, r.g.n_chars)
                  /\ pc' = "find"
                  /\ yyin' = AfterRead(k)
                  /\ UNCHANGED out
             [] r.ret = "END_OF_FILE" /\ AfterRead(k).next = <<>> -> \* yywrap() is true
                  /\ b' = r.b
                  /\ g' = [r.g EXCEPT !.c_buf_p = r.g.text_ptr + g.more_len]
                  /\ pc' = "eof"
                  /\ yyin' = AfterRead(k)
                  /\ out' = Append(out, <<"eof">>)
                  /\ UNCHANGED l
             [] r.ret = "END_OF_FILE" /\ AfterRead(k).next # <<>> -> \* YY_NEW_FILE
                  /\ b' = restarted.b
                  /\ g' = restarted.g
                  /\ pc' = "start"
                  /\ yyin' = LET s == AfterRead(k)
                             IN  [cur |-> Head(s.next), next |-> Tail(s.next), eof |-> FALSE]
                  /\ UNCHANGED <<out, l>>
             [] r.ret = "FATAL" ->
                  /\ pc' = "fatal"
                  /\ UNCHANGED <<b, g, l, yyin, out>>
  /\ Kept /\ UNCHANGED <<ops, eofs>>

----------------------------------------------------------------------------
(* What the actions do.                                                    *)

Calls(op) == pc = "action" /\ op \in Ops /\ ops < MaxOps

\* yyless(n)
Less(n) ==
  /\ Calls("less") /\ l.intact
  /\ n \in 0 .. Len(yytext)
  /\ LET cp == l.bp + n - g.more_len
         back == Newlines(SubSeq(yytext, n + 1, Len(yytext)))
         d == DoBeforeAction(Restored, g, l.bp, cp)
     IN  /\ b' = d.b
         /\ g' = [d.g EXCEPT !.lineno = @ - back]
         /\ l' = [l EXCEPT !.cp = cp]
  /\ ops' = ops + 1
  /\ Kept /\ UNCHANGED <<yyin, pc, out, eofs>>

\* yymore()
More ==
  /\ Calls("more") /\ l.intact
  /\ g' = [g EXCEPT !.more_flag = TRUE]
  /\ ops' = ops + 1
  /\ Kept /\ UNCHANGED <<yyin, b, l, pc, out, eofs>>

\* yyunput(): how far the text moves up to make room.
ShiftUp == IF g.c_buf_p < 2 THEN b.buf_size - g.n_chars ELSE 0

\* yyunput(c, yytext_ptr): the text moves to the end of the buffer when there
\* are not two cells left before it.
Unput(c) ==
  /\ Calls("unput") /\ ~g.more_flag
  /\ LET up == ShiftUp
         ch == [i \in DOMAIN b.ch_buf |->
                  IF up > 0 /\ i >= up THEN Restored.ch_buf[i - up] ELSE Restored.ch_buf[i]]
         cp == g.c_buf_p + up
         n == IF g.c_buf_p < 2 THEN b.buf_size ELSE g.n_chars
     IN  \/ /\ cp >= 2
            /\ b' = [b EXCEPT !.ch_buf = [ch EXCEPT ![cp - 1] = c],
                              !.n_chars = IF g.c_buf_p < 2 THEN n ELSE @]
            /\ g' = [g EXCEPT !.n_chars = n, !.c_buf_p = cp - 1, !.hold_char = c,
                              !.text_ptr = @ + up,
                              !.lineno = IF c = NL THEN @ - 1 ELSE @]
            /\ l' = [l EXCEPT !.intact = FALSE]
            /\ UNCHANGED pc
         \/ /\ cp < 2 \* "flex scanner push-back overflow"
            /\ pc' = "fatal"
            /\ UNCHANGED <<b, g, l>>
  /\ ops' = ops + 1
  /\ Kept /\ UNCHANGED <<yyin, out, eofs>>

\* input() is called; a memory buffer is not read past its end.
BeginInput ==
  /\ Calls("input") /\ ~g.more_flag
  /\ LET atend == g.c_buf_p = g.n_chars /\ yyin.cur = <<>>
     IN  atend => b.fill /\ (InputAtEof \/ yyin.next = <<>>)
  /\ b' = Restored
  /\ l' = [l EXCEPT !.intact = FALSE]
  /\ pc' = "input"
  /\ ops' = ops + 1
  /\ Kept /\ UNCHANGED <<yyin, g, out, eofs>>

\* Its character, at index i of the buffer.
TakeChar(bb, gg, i) ==
  LET c == bb.ch_buf[i]
  IN  /\ b' = [bb EXCEPT !.ch_buf[i] = NUL]
      /\ g' = [gg EXCEPT !.c_buf_p = i + 1, !.hold_char = bb.ch_buf[i + 1],
                         !.lineno = IF c = NL THEN @ + 1 ELSE @]
      /\ out' = Append(out, <<"input", c>>)
      /\ pc' = "action"

AtMark == b.ch_buf[g.c_buf_p] = NUL /\ g.c_buf_p >= g.n_chars

InputChar ==
  /\ pc = "input" /\ ~AtMark
  /\ TakeChar(b, g, g.c_buf_p)
  /\ Kept /\ UNCHANGED <<yyin, l, ops, eofs>>

InputRefill ==
  /\ pc = "input" /\ AtMark
  /\ LET past == [g EXCEPT !.c_buf_p = @ + 1]
         offset == g.c_buf_p - g.text_ptr
     IN  \E k \in Reads(past) :
           LET r == NextBuffer(past, k)
               s == AfterRead(k)
               \* LAST_MATCH: "so convert" it to END_OF_FILE, after a yyrestart()
               ended == IF r.ret = "LAST_MATCH" THEN Restart(r.b, r.g)
                        ELSE [b |-> r.b, g |-> r.g]
               restarted == Restart(r.b, r.g)
           IN  CASE r.ret = "CONTINUE_SCAN" ->
                      /\ TakeChar(r.b, r.g, r.g.text_ptr + offset)
                      /\ yyin' = s
                 [] r.ret \in {"END_OF_FILE", "LAST_MATCH"} /\ s.next = <<>> ->
                      /\ b' = ended.b
                      /\ g' = ended.g
                      /\ out' = Append(out, <<"input", NUL>>)
                      /\ pc' = "action"
                      /\ yyin' = s
                 [] r.ret \in {"END_OF_FILE", "LAST_MATCH"} /\ s.next # <<>> ->
                      /\ b' = restarted.b
                      /\ g' = restarted.g
                      /\ yyin' = [cur |-> Head(s.next), next |-> Tail(s.next), eof |-> FALSE]
                      /\ UNCHANGED <<out, pc>>
                 [] r.ret = "FATAL" ->
                      /\ pc' = "fatal"
                      /\ UNCHANGED <<b, g, yyin, out>>
  /\ Kept /\ UNCHANGED <<l, ops, eofs>>

\* The action is over: the loop goes on, in this call of yylex() or the next.
Return ==
  /\ pc = "action"
  /\ pc' = "start"
  /\ Kept /\ UNCHANGED <<yyin, b, g, l, out, ops, eofs>>

\* yylex() is called again after it has returned YY_NULL.
CallAgain ==
  /\ pc = "eof" /\ eofs < MaxEofs
  /\ g.more_len = 0 \/ MoreAtEof
  /\ eofs' = eofs + 1
  /\ pc' = "start"
  /\ Kept /\ UNCHANGED <<yyin, b, g, l, out, ops>>

Stopped == pc \in {"eof", "fatal"}

Terminated == Stopped /\ UNCHANGED vars

Next ==
  \/ StartToken
  \/ Match
  \/ RuleMatched
  \/ EndOfBufferMatched
  \/ ReallyNul
  \/ Refill
  \/ \E n \in 0 .. Len(yytext) : Less(n)
  \/ More
  \/ \E c \in Pushable : Unput(c)
  \/ BeginInput
  \/ InputChar
  \/ InputRefill
  \/ Return
  \/ CallAgain
  \/ Terminated

\* The scanner is a sequential program: it keeps running until it stops.  This
\* is WF_vars(Next) with ENABLED <<Next>>_vars written out.
Fairness == []<>Stopped \/ []<><<Next>>_vars

Spec == Init /\ [][Next]_vars /\ Fairness

----------------------------------------------------------------------------
(* What must be true of it.                                                *)

\* The buffer without what YY_DO_BEFORE_ACTION has done to it.
Clean == IF pc \in {"start", "action", "eof", "fatal"} THEN Restored.ch_buf ELSE b.ch_buf

TypeOK ==
  /\ mode \in Modes /\ input \in Inputs
  /\ b.buf_size \in Nat /\ DOMAIN b.ch_buf = 0 .. b.buf_size + 1
  /\ b.status \in {"NEW", "NORMAL", "EOF_PENDING"} /\ b.fill \in BOOLEAN
  /\ {g.c_buf_p, g.text_ptr, l.cp, l.bp} \subseteq 0 .. b.buf_size + 1
  /\ g.more_len \in Nat /\ g.more_flag \in BOOLEAN
  /\ l.cs \in DOMAIN Delta \cup {Jam, EobState}
  /\ pc \in {"start", "match", "find", "eob", "action", "input", "eof", "fatal"}

\* The text that has been read always fits the buffer, is followed by both
\* marks, and holds no cell that was never written: matching stops at the
\* second mark at the latest, and no read or push-back leaves a gap.  This is
\* what yy_get_next_buffer, yyunput and yyrestart keep up between them.
BufferWellFormed ==
  /\ g.n_chars \in 0 .. b.buf_size
  /\ Clean[g.n_chars] = NUL /\ Clean[g.n_chars + 1] = NUL
  /\ \A i \in g.text_ptr .. g.n_chars - 1 : Clean[i] # Undef

\* The characters that yylex() has still to match.
TokenStart == IF pc \in {"match", "find", "eob"} THEN l.bp ELSE g.c_buf_p

Unread == Slice(Clean, TokenStart, g.n_chars) \o yyin.cur

\* yylineno counts the newlines before the next character to match, whatever
\* the actions have given back, pushed or taken in between.
LinenoExact ==
  pc \in {"start", "eof"} =>
    g.lineno + Newlines(Unread) + Newlines(FlattenSeq(yyin.next))
      = 1 + Newlines(FlattenSeq(input))

\* The rules whose has_nl is set are all those that match a newline: seen are
\* the states that a text with a newline may lead to.  The default rule must not
\* match one, since its has_nl is never set.
NewlineRulesKnown ==
  \E seen \in SUBSET DOMAIN Delta : \A s \in DOMAIN Delta :
    /\ s \in seen => Accept[s] = 0 \/ CanMatchEol(Accept[s])
    /\ \A c \in Chars : c = NL \/ s \in seen => Delta[s][c] \in seen \cup {Jam}

\* What the variables of module Lexer are here: the text that yymore() keeps,
\* yytext while an action can look at it, and where the call of yylex() is.
Carry ==
  CASE pc = "start" -> IF g.more_flag THEN yytext ELSE <<>>
    [] pc \in {"match", "find", "eob"} -> Slice(b.ch_buf, l.bp - g.more_len, l.bp)
    [] OTHER -> <<>>

ActionText ==
  CASE pc \in {"action", "fatal"} -> IF l.intact THEN yytext ELSE <<-1>>
    [] pc = "input" -> <<-1>>
    [] OTHER -> <<>>

MoreCalled == pc \in {"action", "fatal"} /\ g.more_flag

Phase == IF pc \in {"start", "match", "find", "eob"} THEN "scan" ELSE pc

Lex == INSTANCE Lexer WITH
  rest <- Unread, later <- yyin.next, carry <- Carry, text <- ActionText,
  more <- MoreCalled, phase <- Phase

\* However the reads cut the input, and wherever the buffer ends, the program
\* sees what the specification of module Lexer says: the longest matches,
\* within a segment, with NUL characters like any other, and an end of file
\* after each last segment, however often it is asked for.  Compressed tables
\* with a yy_NUL_trans beside them break it: they forget a match before a NUL.
LexerSpec == Lex!Init(input) /\ [][Lex!Next]_(Lex!absvars)

\* Every input is scanned to its end: no run of reads, replays, back-ups and
\* restarts goes on for ever.  (The actions are bounded by MaxOps: a scanner
\* that always answers with yyless(0) does loop.)
Finishes == <>Stopped
=============================================================================
