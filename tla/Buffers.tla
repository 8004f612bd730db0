------------------------------ MODULE Buffers ------------------------------
(***************************************************************************)
(* The input buffers of a generated scanner and their stack (flex.skl):    *)
(* creating, switching, pushing, popping, flushing, restarting, deleting,  *)
(* scanning memory, input(), and the end of a buffer with yywrap().  The   *)
(* user's code calls them in actions, between calls of yylex() and in      *)
(* yywrap().                                                               *)
(*                                                                         *)
(* A token is any number of the characters that are in the buffer; tokens  *)
(* that a read cuts, growing buffers and yymore() are modelled in Scanner. *)
(***************************************************************************)
EXTENDS Integers, SequencesExt, FiniteSetsExt

CONSTANTS
  Files, Lengths,   \* the input files, and how many characters each has
  Handles,          \* bound: the objects that a run may create
  Strings,          \* bound: how many characters may be scanned from memory
  Calls,            \* bound: how often the user may manage buffers
  NULL              \* no buffer, no file

ASSUME BuffersAssumption ==
  /\ NULL \notin Files \cup Handles /\ Files \cap Handles = {}
  /\ Lengths \in [Files -> Nat] /\ Strings \subseteq Nat /\ IsFiniteSet(Handles) /\ Calls \in Nat

Sources == Files \cup Handles
NUL == <<>>         \* the character, and each of the two marks at the end
Marks == <<NUL, NUL>>
Chars == (Sources \X Nat) \cup {NUL}

\* struct yy_buffer_state
Buffer == [ch : Seq(Chars), pos : Nat, n_chars : Nat, file : Files \cup {NULL},
           fill : BOOLEAN, new : BOOLEAN]
ASSUME NullAssumption == NULL \notin Buffer

VARIABLES
  buf,              \* struct yy_buffer_state of each handle; NULL before and after
  made,             \* the handles that yyalloc() has returned so far
  stack, top,       \* yy_buffer_stack, as long as yy_buffer_stack_max says
  c_buf_p, n_chars, hold_char, text_ptr, yyin,
  switched,         \* yy_did_buffer_switch_on_eof
  init,             \* yy_init
  pc,               \* who runs: "user", "yywrap" from yylex(), "input" from input(), or how it ended
  calls,            \* how often the user did
  at,               \* how much of each file has been read
  taken,            \* what the user got through each buffer, as tokens or from input()
  dropped           \* what the user had discarded

globals == <<c_buf_p, n_chars, hold_char, text_ptr, yyin>>
history == <<at, taken, dropped>>
vars == <<buf, made, stack, top, globals, switched, init, pc, calls, history>>

Current == IF stack = <<>> THEN NULL ELSE stack[top]

Init ==
  /\ buf = [h \in Handles |-> NULL] /\ made = {} /\ stack = <<>> /\ top = 1
  /\ c_buf_p = 0 /\ n_chars = 0 /\ hold_char = NUL /\ text_ptr = 0 /\ yyin = NULL
  /\ switched = FALSE /\ init = FALSE /\ pc = "user" /\ calls = 0
  /\ at = [f \in Files |-> 0] /\ taken = [h \in Handles |-> <<>>] /\ dropped = {}

----------------------------------------------------------------------------
(* One buffer                                                              *)

\* yy_flush_buffer() and yy_init_buffer(), but for loading the current buffer.
Flushed(b) == [b EXCEPT !.n_chars = 0, !.ch = Marks, !.pos = 0, !.new = TRUE]
Initialized(b, f) == [Flushed(b) EXCEPT !.file = f, !.fill = TRUE]
Fresh(f) == [ch |-> Marks, pos |-> 0, n_chars |-> 0, file |-> f, fill |-> TRUE, new |-> TRUE]
FromMemory(h, n) ==
  [ch |-> [i \in 1 .. n |-> <<h, i>>] \o Marks, pos |-> 0, n_chars |-> n,
   file |-> NULL, fill |-> FALSE, new |-> TRUE]

\* yy_load_buffer_state()
Load(b) ==
  /\ n_chars' = b.n_chars /\ c_buf_p' = b.pos /\ text_ptr' = b.pos
  /\ yyin' = b.file /\ hold_char' = b.ch[b.pos + 1]

\* "Flush out information for old buffer."
Restored_NotChar(b) == b.ch
Restored(b) == [b.ch EXCEPT ![c_buf_p + 1] = hold_char]
Saved ==
  IF Current = NULL THEN buf
  ELSE LET b == buf[Current]
       IN  [buf EXCEPT ![Current] = [b EXCEPT !.ch = Restored(b), !.pos = c_buf_p, !.n_chars = n_chars]]

\* What waits in a buffer for the scanner.
Waiting(h) ==
  LET b == buf[h]
  IN  IF h = Current THEN SubSeq(Restored(b), c_buf_p + 1, n_chars)
      ELSE SubSeq(b.ch, b.pos + 1, b.n_chars)
Discard(hs) == dropped' = dropped \cup UNION {Range(Waiting(h)) : h \in hs}

\* yyensure_buffer_stack()
Ensured ==
  IF stack = <<>> THEN <<NULL>>
  ELSE IF top >= Len(stack) THEN stack \o [k \in 1 .. 8 |-> NULL] ELSE stack

----------------------------------------------------------------------------
(* The user's calls                                                        *)

Users == pc \in {"user", "yywrap", "input"}
Live == {h \in Handles : buf[h] # NULL}
OnStack == Range(stack) \ {NULL}

\* What the user must not do.  When yywrap() is called for a buffer in memory,
\* its position is behind the first mark; whoever comes back to such a buffer
\* gets "end of buffer missed".
Spent == Current # NULL /\ c_buf_p > n_chars
MayTake(h) == h \in Live \ OnStack /\ buf[h].pos <= buf[h].n_chars

\* yy_create_buffer()
Create(h, f) ==
  /\ Users /\ h \notin made
  /\ made' = made \cup {h} /\ buf' = [buf EXCEPT ![h] = Fresh(f)]
  /\ UNCHANGED <<stack, top, globals, switched, init, pc, history>>

\* yy_switch_to_buffer() and yypush_buffer_state() to a buffer that is not on
\* the stack, with bf what the objects are then.
PlaceOnTop(bf, h) ==
  /\ buf' = bf /\ stack' = [Ensured EXCEPT ![top] = h]
  /\ Load(bf[h]) /\ switched' = TRUE
yy_switch_to_buffer(h) ==
  /\ Users
  /\ \/ MayTake(h) /\ PlaceOnTop(Saved, h)
     \/ h = Current /\ stack' = Ensured /\ UNCHANGED <<buf, globals, switched>>
  /\ UNCHANGED <<made, top, init, pc, history>>

TopFor_Always == top + 1
TopFor == IF Current = NULL THEN top ELSE top + 1
yypush_buffer_state(h) ==
  /\ Users /\ MayTake(h) /\ ~Spent
  /\ top' = TopFor /\ buf' = Saved /\ stack' = [Ensured EXCEPT ![top'] = h]
  /\ Load(buf'[h]) /\ switched' = TRUE
  /\ UNCHANGED <<made, init, pc, history>>

\* yy_scan_bytes(), yy_scan_string() and yy_scan_buffer()
Scan(h, n) ==
  /\ Users /\ h \notin made
  /\ made' = made \cup {h}
  /\ PlaceOnTop([Saved EXCEPT ![h] = FromMemory(h, n)], h)
  /\ UNCHANGED <<top, init, pc, history>>

yypop_buffer_state ==
  /\ Users /\ Current # NULL
  /\ Discard({Current})
  /\ buf' = [buf EXCEPT ![Current] = NULL]
  /\ top' = IF top > 1 THEN top - 1 ELSE top
  /\ stack' = [stack EXCEPT ![top] = NULL]
  /\ IF stack'[top'] # NULL THEN Load(buf[stack'[top']]) /\ switched' = TRUE
     ELSE UNCHANGED <<globals, switched>>
  /\ UNCHANGED <<made, init, pc, at, taken>>

\* yy_delete_buffer() of the current buffer, or of one that is not on the stack.
yy_delete_buffer(h) ==
  /\ Users /\ h \in Live /\ h \notin OnStack \ {Current}
  /\ Discard({h})
  /\ buf' = [buf EXCEPT ![h] = NULL]
  /\ stack' = IF h = Current THEN [stack EXCEPT ![top] = NULL] ELSE stack
  /\ UNCHANGED <<made, top, globals, switched, init, pc, at, taken>>

yy_flush_buffer(h) ==
  /\ Users /\ h \in Live
  /\ Discard({h})
  /\ buf' = [buf EXCEPT ![h] = Flushed(@)]
  /\ IF h = Current THEN Load(buf'[h]) ELSE UNCHANGED globals
  /\ UNCHANGED <<made, stack, top, switched, init, pc, at, taken>>

\* yyrestart(), as the user calls it and as the scanner does.
Restart(f) ==
  /\ Current # NULL
  /\ buf' = [buf EXCEPT ![Current] = Initialized(@, f)] /\ Load(buf'[Current])
yyrestart(f) ==
  /\ Users /\ Restart(f) /\ Discard({Current})
  /\ UNCHANGED <<made, stack, top, switched, init, pc, at, taken>>

\* Without a current buffer, yyrestart() and the first call of yylex() create one.
NewCurrent(h, f) ==
  /\ Current = NULL /\ h \notin made
  /\ made' = made \cup {h} /\ buf' = [buf EXCEPT ![h] = Fresh(f)]
  /\ stack' = [Ensured EXCEPT ![top] = h] /\ Load(buf'[h])
RestartNew(h, f) ==
  /\ Users /\ NewCurrent(h, f)
  /\ UNCHANGED <<top, switched, init, pc, history>>

\* yylex_destroy() deletes the current buffer; yypop_buffer_state() then does
\* nothing, so of the buffers below it the memory stays behind.
yylex_destroy ==
  /\ pc = "user"
  /\ Discard(OnStack)
  /\ buf' = [h \in Handles |-> IF h \in OnStack THEN NULL ELSE buf[h]]
  /\ stack' = <<>> /\ top' = 1 /\ c_buf_p' = 0 /\ init' = FALSE /\ yyin' = NULL
  /\ UNCHANGED <<made, n_chars, hold_char, text_ptr, switched, pc, at, taken>>

----------------------------------------------------------------------------
(* yylex() and input()                                                     *)

FirstCall ==
  /\ pc = "user" /\ ~init
  /\ init' = TRUE /\ pc' = "yylex"
  /\ \/ \E h \in Handles, f \in Files : (yyin \in {NULL, f}) /\ NewCurrent(h, f)
     \/ Current # NULL /\ Load(buf[Current]) /\ UNCHANGED <<buf, made, stack>>
  /\ UNCHANGED <<top, switched, history>>

Scanning == pc \in {"user", "yylex"} /\ init /\ Current # NULL
Taken(chars) == taken' = [taken EXCEPT ![Current] = @ \o chars]

\* A token of k characters, and yytext cut off behind it.
Token(k) ==
  /\ Scanning /\ c_buf_p + k <= n_chars
  /\ LET ch == Restored(buf[Current])
         end == c_buf_p + k
     IN  /\ Taken(SubSeq(ch, c_buf_p + 1, end))
         /\ text_ptr' = c_buf_p /\ c_buf_p' = end /\ hold_char' = ch[end + 1]
         /\ buf' = [buf EXCEPT ![Current].ch = [ch EXCEPT ![end + 1] = NUL]]
  /\ pc' = "user"
  /\ UNCHANGED <<made, stack, top, n_chars, yyin, switched, init, at, dropped>>

\* What a read returns: some of what the file still has.
Read(f, r) == [i \in 1 .. r |-> <<f, at[f] + i>>]
HasMore(f) == at[f] < Lengths[f]
Reads(f, r) == r \in 1 .. Lengths[f] - at[f] /\ at' = [at EXCEPT ![f] = @ + r]

\* YY_END_OF_BUFFER.  A buffer that is new takes yyin as its file, and the scanner
\* the buffer's own count of its characters.
Begun(b) == IF b.new THEN [b EXCEPT !.new = FALSE, !.file = yyin] ELSE b
Count == IF buf[Current].new THEN buf[Current].n_chars ELSE n_chars

\* "end of buffer missed": the match has met the mark behind that count.
EndMissed ==
  /\ Scanning /\ Max({c_buf_p, n_chars}) > Count
  /\ pc' = "fatal"
  /\ UNCHANGED <<buf, made, stack, top, globals, switched, init, history>>

\* It is where it should be, with nothing matched before it.
AtEnd == Scanning /\ c_buf_p = Count /\ n_chars = Count
Refill(r) ==
  /\ AtEnd /\ buf[Current].fill /\ Reads(yyin, r)
  /\ LET b == [Begun(buf[Current]) EXCEPT !.ch = Read(yyin, r) \o Marks, !.n_chars = r]
     IN  /\ buf' = [buf EXCEPT ![Current] = b]
         /\ n_chars' = r /\ c_buf_p' = 0 /\ text_ptr' = 0 /\ hold_char' = b.ch[1]
  /\ pc' = "yylex"
  /\ UNCHANGED <<made, stack, top, yyin, switched, init, taken, dropped>>

EndOfFile ==
  /\ AtEnd
  /\ \/ /\ ~buf[Current].fill
        /\ buf' = [buf EXCEPT ![Current] = Begun(@)]
        /\ text_ptr' = c_buf_p /\ c_buf_p' = c_buf_p + 1 /\ hold_char' = NUL
        /\ UNCHANGED <<n_chars, yyin>>
     \/ buf[Current].fill /\ ~HasMore(yyin) /\ Restart(yyin)
  /\ switched' = FALSE /\ pc' = "yywrap"
  /\ UNCHANGED <<made, stack, top, init, history>>

\* yywrap() returns 1: the <<EOF>> rule.
WrapDone ==
  /\ pc = "yywrap"
  /\ c_buf_p' = text_ptr /\ pc' = "user"
  /\ UNCHANGED <<buf, made, stack, top, n_chars, hold_char, text_ptr, yyin, switched, init, history>>

\* It returns 0, after it has switched to another buffer or pointed yyin to a file.
NewFile(f) == IF switched THEN UNCHANGED <<buf, globals>> ELSE Restart(f)
WrapMore(f) ==
  /\ pc = "yywrap" /\ Current # NULL /\ NewFile(f)
  /\ pc' = "yylex"
  /\ UNCHANGED <<made, stack, top, switched, init, history>>

\* input(), in an action or once more after yywrap().
Inputs == pc \in {"user", "again"} /\ init /\ Current # NULL
InputChar ==
  /\ Inputs /\ c_buf_p < n_chars
  /\ LET ch == Restored(buf[Current])
     IN  /\ Taken(<<ch[c_buf_p + 1]>>) /\ hold_char' = ch[c_buf_p + 2]
         /\ buf' = [buf EXCEPT ![Current].ch = [ch EXCEPT ![c_buf_p + 1] = NUL]]
  /\ c_buf_p' = c_buf_p + 1 /\ pc' = "user"
  /\ UNCHANGED <<made, stack, top, n_chars, text_ptr, yyin, switched, init, at, dropped>>

\* The text of the token is moved to the beginning, what is read comes behind:
\* the buffer's own count is only that of what is read.
InputRefill(r) ==
  /\ Inputs /\ c_buf_p = n_chars /\ buf[Current].fill /\ Reads(yyin, r)
  /\ LET text == SubSeq(buf[Current].ch, text_ptr + 1, c_buf_p)
         offset == Len(text)
         ch == text \o Read(yyin, r) \o Marks
     IN  /\ buf' = [buf EXCEPT ![Current] = [@ EXCEPT !.ch = [ch EXCEPT ![offset + 1] = NUL],
                                                      !.n_chars = r]]
         /\ n_chars' = offset + r /\ text_ptr' = 0 /\ c_buf_p' = offset + 1
         /\ Taken(<<ch[offset + 1]>>) /\ hold_char' = ch[offset + 2]
  /\ pc' = "user"
  /\ UNCHANGED <<made, stack, top, yyin, switched, init, dropped>>

\* yy_did_buffer_switch_on_eof is not reset before yywrap().
InputEnd ==
  /\ Inputs /\ c_buf_p = n_chars /\ buf[Current].fill /\ ~HasMore(yyin)
  /\ Restart(yyin) /\ pc' = "input"
  /\ UNCHANGED <<made, stack, top, switched, init, history>>

InputDone ==
  /\ pc = "input" /\ pc' = "user"
  /\ UNCHANGED <<buf, made, stack, top, globals, switched, init, history>>

\* With the flag set, yyin alone is changed.
InputMore(f) ==
  /\ pc = "input" /\ Current # NULL /\ ~(~buf[Current].fill /\ c_buf_p = n_chars)
  /\ \/ NewFile(f)
     \/ switched /\ buf[Current].fill /\ yyin' = f
        /\ UNCHANGED <<buf, c_buf_p, n_chars, hold_char, text_ptr>>
  /\ pc' = "again"
  /\ UNCHANGED <<made, stack, top, switched, init, history>>

----------------------------------------------------------------------------
User ==
  \/ \E h \in Handles :
       \/ yy_switch_to_buffer(h)
       \/ yypush_buffer_state(h)
       \/ yy_delete_buffer(h)
       \/ yy_flush_buffer(h)
       \/ \E f \in Files : Create(h, f) \/ RestartNew(h, f)
       \/ \E n \in Strings : Scan(h, n)
  \/ \E f \in Files : yyrestart(f)
  \/ yypop_buffer_state
  \/ yylex_destroy
Scanner ==
  \/ FirstCall
  \/ \E k \in 1 .. n_chars : Token(k)
  \/ \E f \in Files : yyin = f /\ \E r \in 1 .. Lengths[f] : Refill(r) \/ InputRefill(r)
  \/ EndMissed
  \/ EndOfFile
  \/ InputChar
  \/ InputEnd
Wrap ==
  \/ WrapDone
  \/ InputDone
  \/ \E f \in Files : WrapMore(f) \/ InputMore(f)
Next ==
  \/ calls < Calls /\ User /\ calls' = calls + 1
  \/ (Scanner \/ Wrap) /\ UNCHANGED calls
Spec == Init /\ [][Next]_vars

----------------------------------------------------------------------------
(* What must be true of it.                                                *)

\* The stack holds no buffer twice, none that has been deleted and none above
\* its top, every text ends in its two marks, and the positions are in it.  A
\* user who keeps to the rules gets "end of buffer missed" only where input() has
\* read on in a buffer that yylex() has not begun: nowhere else does the scanner
\* take a count that is too small.
BuffersTypeOK ==
  /\ pc \in {"user", "yylex", "yywrap", "input", "again", "fatal"}
  /\ buf \in [Handles -> Buffer \cup {NULL}]
  /\ OnStack \subseteq Live /\ Live \subseteq made
  /\ stack # <<>> => top \in DOMAIN stack
  /\ \A i, j \in DOMAIN stack : stack[i] # NULL => i <= top /\ (stack[i] = stack[j] => i = j)
  /\ \A h \in Live \ {Current} : /\ Len(buf[h].ch) = buf[h].n_chars + 2
                                 /\ buf[h].pos <= buf[h].n_chars + 1
  /\ Current # NULL => /\ Len(buf[Current].ch) = n_chars + 2 /\ c_buf_p <= n_chars + 1
                       /\ buf[Current].n_chars <= n_chars
                       /\ ~init \/ ~buf[Current].fill => buf[Current].n_chars = n_chars
  /\ Scanning => c_buf_p <= n_chars
  /\ pc = "fatal" => /\ init /\ Current # NULL /\ c_buf_p <= n_chars
                     /\ buf[Current].new /\ buf[Current].fill /\ Count < n_chars

\* What has come through a buffer so far, and what waits in it.
Rest(h) == IF h \in Live THEN Waiting(h) ELSE <<>>
Through(h) == taken[h] \o Rest(h)

\* Every character that was read, or scanned from memory, has been taken once, or
\* waits in one buffer, or has been discarded by the user: however buffers are
\* switched in the middle of an action, the character that yytext's end hides
\* comes back, and no text is scanned twice.  Through one buffer the text of a
\* file comes in order; of two buffers of one file each has its share.
Delivered(s) == IF s \in Files THEN at[s] ELSE IF buf[s] # NULL /\ ~buf[s].fill THEN buf[s].n_chars ELSE 0
Conserved ==
  /\ \A s \in Sources : \A i \in 1 .. Delivered(s) :
       <<s, i>> \in dropped \/ \E h \in Handles : <<s, i>> \in Range(Through(h))
  /\ \A h \in Handles : Range(Through(h)) \cap (dropped \cup {NUL}) = {}
  /\ \A g, h \in Handles : \A i \in DOMAIN Through(g), j \in DOMAIN Through(h) :
       Through(g)[i] = Through(h)[j] => g = h /\ i = j
  /\ \A h \in Handles : \A i, j \in DOMAIN Through(h) :
       i < j /\ Through(h)[i][1] = Through(h)[j][1] => Through(h)[i][2] < Through(h)[j][2]
=============================================================================
