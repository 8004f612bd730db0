--------------------------- MODULE BuffersProofs ---------------------------
(***************************************************************************)
(* Proofs that BuffersTypeOK and Conserved are invariants of Buffers:      *)
(* however the user manages buffers, for any number of files, objects and  *)
(* characters.                                                             *)
(***************************************************************************)
EXTENDS Buffers, SequenceTheorems, TLAPS

----------------------------------------------------------------------------
(* The inductive invariant                                                 *)

Pcs == {"user", "yylex", "yywrap", "input", "again", "fatal"}
Control ==
  /\ pc \in Pcs /\ init \in BOOLEAN /\ switched \in BOOLEAN
  /\ ~init => pc = "user"
  /\ at \in [Files -> Nat]

Globals ==
  /\ c_buf_p \in Nat /\ n_chars \in Nat /\ text_ptr \in Nat
  /\ hold_char \in Chars /\ yyin \in Files \cup {NULL}

Objects ==
  /\ made \subseteq Handles
  /\ buf \in [Handles -> Buffer \cup {NULL}]
  /\ Live \subseteq made

Stacked ==
  /\ stack \in Seq(Handles \cup {NULL}) /\ top \in Nat
  /\ IF stack = <<>> THEN top = 1 ELSE top \in DOMAIN stack
  /\ \A i \in DOMAIN stack : stack[i] # NULL => i <= top /\ stack[i] \in Live
  /\ \A i, j \in DOMAIN stack : stack[i] # NULL /\ stack[i] = stack[j] => i = j

Ended(b) == Len(b.ch) = b.n_chars + 2
Texts == \A h \in Live : h # Current => Ended(buf[h]) /\ buf[h].pos <= buf[h].n_chars + 1

\* Below the top there is no buffer with its position behind the mark: none can
\* be pushed over while it is there.
Below ==
  \A i \in DOMAIN stack :
    i < top /\ stack[i] # NULL => buf[stack[i]].pos <= buf[stack[i]].n_chars

\* The position is behind the first mark in yywrap() only, and only as long as
\* no other buffer has been switched to; before the first call of yylex() the
\* position in the buffer is still the one that was loaded.  The current buffer's
\* own count may be too small after that call, if it is filled from a file.
Positioned ==
  Current # NULL =>
    /\ Len(buf[Current].ch) = n_chars + 2 /\ buf[Current].n_chars <= n_chars
    /\ ~init \/ ~buf[Current].fill => buf[Current].n_chars = n_chars
    /\ c_buf_p <= n_chars \/ (pc = "yywrap" /\ ~switched /\ c_buf_p = n_chars + 1)
    /\ pc = "yywrap" => text_ptr <= n_chars
    /\ ~init => buf[Current].pos <= buf[Current].n_chars

\* "end of buffer missed" is for such a count alone.
Missed ==
  pc = "fatal" => /\ init /\ Current # NULL /\ c_buf_p <= n_chars
                  /\ buf[Current].new /\ buf[Current].fill /\ Count < n_chars

IInv == Control /\ Globals /\ Objects /\ Stacked /\ Texts /\ Below /\ Positioned

----------------------------------------------------------------------------
(* What the operators of Buffers keep                                      *)

\* The stack as yyensure_buffer_stack() leaves it has room at the top, and
\* above it if there is a buffer at the top.
LEMMA EnsuredFits ==
  ASSUME Stacked
  PROVE  /\ Ensured \in Seq(Handles \cup {NULL})
         /\ top \in DOMAIN Ensured
         /\ Current # NULL => top + 1 \in DOMAIN Ensured
         /\ DOMAIN stack \subseteq DOMAIN Ensured
         /\ \A i \in DOMAIN Ensured :
              Ensured[i] = IF i \in DOMAIN stack THEN stack[i] ELSE NULL
PROOF
<1>1. CASE stack = <<>>
  <2>1. Ensured = <<NULL>> BY <1>1 DEF Ensured
  <2>2. QED BY <1>1, <2>1 DEF Stacked, Current
<1>2. CASE stack # <<>> /\ top >= Len(stack)
  <2> DEFINE new == [k \in 1 .. 8 |-> NULL]
  <2>1. Ensured = stack \o new BY <1>2 DEF Ensured
  <2>2. new \in Seq(Handles \cup {NULL}) /\ Len(new) = 8 OBVIOUS
  <2>3. stack \in Seq(Handles \cup {NULL}) BY DEF Stacked
  <2>4. /\ stack \o new \in Seq(Handles \cup {NULL})
        /\ Len(stack \o new) = Len(stack) + 8
        /\ \A i \in 1 .. Len(stack) + 8 :
             (stack \o new)[i] = IF i <= Len(stack) THEN stack[i] ELSE new[i - Len(stack)]
    <3> DEFINE H == Handles \cup {NULL}
    <3>1. stack \in Seq(H) /\ new \in Seq(H) /\ Len(new) = 8
      BY <2>2, <2>3
    <3> HIDE DEF new, H
    <3>2. /\ stack \o new \in Seq(H) /\ Len(stack \o new) = Len(stack) + Len(new)
          /\ \A i \in 1 .. Len(stack) + Len(new) :
               (stack \o new)[i] = IF i <= Len(stack) THEN stack[i] ELSE new[i - Len(stack)]
      BY <3>1, ConcatProperties
    <3> QED
      BY <3>1, <3>2 DEF H
  <2>5. \A i \in 1 .. Len(stack) + 8 :
             i > Len(stack) => new[i - Len(stack)] = NULL
    BY SMTT(60), <2>3
  <2>6. top \in Nat /\ top = Len(stack) /\ Len(stack) \in Nat BY <1>2, <2>3 DEF Stacked
  <2>7. DOMAIN stack = 1 .. Len(stack) BY <2>3
  <2>8. DOMAIN Ensured = 1 .. Len(stack) + 8 BY <2>1, <2>4
  <2> HIDE DEF new
  <2>9. QED BY <2>1, <2>4, <2>5, <2>6, <2>7, <2>8, <1>2 DEF Stacked
<1>3. CASE stack # <<>> /\ ~(top >= Len(stack))
  BY <1>3 DEF Ensured, Stacked
<1>4. QED BY <1>1, <1>2, <1>3

\* A buffer whose position is in its text can be loaded.
LEMMA LoadFits ==
  ASSUME NEW b \in Buffer, Ended(b), b.pos <= b.n_chars, Load(b)
  PROVE  Globals' /\ n_chars' = b.n_chars /\ c_buf_p' = b.pos /\ text_ptr' = b.pos
PROOF
<1>1. b.ch \in Seq(Chars) /\ b.pos \in Nat /\ b.n_chars \in Nat /\ b.file \in Files \cup {NULL}
  BY DEF Buffer
<1>2. b.pos + 1 \in 1 .. Len(b.ch) BY <1>1 DEF Ended
<1>3. b.ch[b.pos + 1] \in Chars BY <1>1, <1>2
<1>4. QED BY <1>1, <1>3 DEF Load, Globals

LEMMA CurrentIsLive ==
  ASSUME Stacked, Objects, Current # NULL
  PROVE  Current \in Live /\ Current \in Handles /\ buf[Current] \in Buffer /\ top \in DOMAIN stack
PROOF
<1>1. stack # <<>> /\ top \in DOMAIN stack /\ Current = stack[top] BY DEF Current, Stacked
<1>2. Current \in Live BY <1>1 DEF Stacked
<1>3. QED BY <1>1, <1>2 DEF Live, Objects

\* The current buffer's text with the hidden character put back.
LEMMA RestoredFits ==
  ASSUME IInv, Current # NULL
  PROVE  /\ Restored(buf[Current]) \in Seq(Chars)
         /\ Len(Restored(buf[Current])) = n_chars + 2 /\ n_chars \in Nat
PROOF
<1>1. Current \in Live /\ buf[Current] \in Buffer BY CurrentIsLive DEF IInv
<1>2. Len(buf[Current].ch) = n_chars + 2 BY DEF IInv, Positioned
<1>3. buf[Current].ch \in Seq(Chars) /\ buf[Current].n_chars \in Nat BY <1>1 DEF Buffer
<1>4. hold_char \in Chars BY DEF IInv, Globals
<1>5. c_buf_p \in Nat /\ n_chars \in Nat /\ c_buf_p <= n_chars + 1
  BY DEF IInv, Globals, Positioned
<1> DEFINE ch == buf[Current].ch
<1>6. ch \in Seq(Chars) /\ Len(ch) = n_chars + 2 /\ c_buf_p + 1 \in 1 .. Len(ch)
  BY <1>2, <1>3, <1>5
<1>7. Restored(buf[Current]) = [ch EXCEPT ![c_buf_p + 1] = hold_char] BY DEF Restored
<1> HIDE DEF ch
<1>8. /\ [ch EXCEPT ![c_buf_p + 1] = hold_char] \in Seq(Chars)
      /\ Len([ch EXCEPT ![c_buf_p + 1] = hold_char]) = Len(ch)
  BY <1>4, <1>6
<1>9. QED BY <1>5, <1>6, <1>7, <1>8

\* Saving the current buffer changes no other, and keeps the current one whole.
LEMMA SavedFits ==
  ASSUME IInv
  PROVE  /\ Saved \in [Handles -> Buffer \cup {NULL}]
         /\ \A h \in Handles : h # Current => Saved[h] = buf[h]
         /\ \A h \in Handles : Saved[h] = NULL <=> buf[h] = NULL
         /\ \A h \in Live : Ended(Saved[h]) /\ Saved[h].pos <= Saved[h].n_chars + 1
         /\ Current # NULL /\ ~Spent => Saved[Current].pos <= Saved[Current].n_chars
PROOF
<1>1. CASE Current = NULL
  <2>1. Saved = buf BY <1>1 DEF Saved
  <2>2. \A h \in Live : h # Current BY <1>1, BuffersAssumption DEF Live
  <2>3. QED BY <1>1, <2>1, <2>2 DEF IInv, Objects, Texts
<1>2. CASE Current # NULL
  <2> DEFINE b == buf[Current]
             s == [b EXCEPT !.ch = Restored(b), !.pos = c_buf_p, !.n_chars = n_chars]
  <2>1. Current \in Live /\ Current \in Handles /\ b \in Buffer BY <1>2, CurrentIsLive DEF IInv
  <2>2. Saved = [buf EXCEPT ![Current] = s] BY <1>2 DEF Saved
  <2>3. Restored(b) \in Seq(Chars) /\ Len(Restored(b)) = n_chars + 2
    BY <1>2, RestoredFits
  <2>4. c_buf_p \in Nat /\ n_chars \in Nat BY DEF IInv, Globals
  <2>5. s \in Buffer BY <2>1, <2>3, <2>4 DEF Buffer
  <2>6. s.ch = Restored(b) /\ s.pos = c_buf_p /\ s.n_chars = n_chars BY <2>1 DEF Buffer
  <2>7. Ended(s) BY <2>3, <2>6 DEF Ended
  <2>8. s.pos <= s.n_chars + 1 BY <1>2, <2>4, <2>6 DEF IInv, Positioned
  <2>9. ~Spent => s.pos <= s.n_chars BY <1>2, <2>4, <2>6 DEF Spent
  <2>10. s # NULL BY <2>5, NullAssumption
  <2>11. buf \in [Handles -> Buffer \cup {NULL}] BY DEF IInv, Objects
  <2> HIDE DEF s
  <2>12. Saved \in [Handles -> Buffer \cup {NULL}] BY <2>1, <2>2, <2>5, <2>11
  <2>13. \A h \in Handles : Saved[h] = IF h = Current THEN s ELSE buf[h] BY <2>2, <2>11
  <2>14. \A h \in Handles : Saved[h] = NULL <=> buf[h] = NULL BY <2>1, <2>10, <2>13 DEF Live
  <2>15. \A h \in Live : Ended(Saved[h]) /\ Saved[h].pos <= Saved[h].n_chars + 1
    BY <2>7, <2>8, <2>13 DEF Live, IInv, Texts
  <2>16. QED BY <2>1, <2>9, <2>12, <2>13, <2>14, <2>15
<1>3. QED BY <1>1, <1>2

----------------------------------------------------------------------------
(* Two kinds of step                                                       *)

\* A buffer that is not on the stack is put at its top, or above it.
LEMMA Placed ==
  ASSUME IInv,
         NEW h \in Handles, h \notin OnStack,
         NEW t, t = top \/ (t = top + 1 /\ Current # NULL /\ ~Spent),
         buf' \in [Handles -> Buffer \cup {NULL}],
         \A g \in Handles \ {h} : buf'[g] = Saved[g],
         buf'[h] \in Buffer, Ended(buf'[h]), buf'[h].pos <= buf'[h].n_chars,
         made' = made \/ made' = made \cup {h}, h \in made',
         top' = t, stack' = [Ensured EXCEPT ![t] = h], Load(buf'[h]),
         Control'
  PROVE  IInv'
PROOF
<1> DEFINE H == Handles \cup {NULL}
<1>1. /\ Ensured \in Seq(H) /\ t \in DOMAIN Ensured
      /\ DOMAIN stack \subseteq DOMAIN Ensured
      /\ \A i \in DOMAIN Ensured :
           Ensured[i] = IF i \in DOMAIN stack THEN stack[i] ELSE NULL
  BY EnsuredFits DEF IInv
<1>2. /\ stack' \in Seq(H) /\ DOMAIN stack' = DOMAIN Ensured /\ stack'[t] = h
      /\ \A i \in DOMAIN stack' : i # t => stack'[i] = Ensured[i]
  BY <1>1
<1>3. stack' # <<>> BY <1>1, <1>2
<1>4. Current' = h BY <1>2, <1>3 DEF Current
<1>5. h # NULL BY BuffersAssumption
<1>6. \A i \in DOMAIN stack' : i # t /\ stack'[i] # NULL =>
        i \in DOMAIN stack /\ stack'[i] = stack[i] /\ stack[i] \in Live /\ stack[i] # h
  <2> SUFFICES ASSUME NEW i \in DOMAIN stack', i # t, stack'[i] # NULL
               PROVE  i \in DOMAIN stack /\ stack'[i] = stack[i] /\ stack[i] \in Live /\ stack[i] # h
    OBVIOUS
  <2>1. i \in DOMAIN stack /\ stack'[i] = stack[i] BY <1>1, <1>2
  <2>2. stack[i] \in OnStack BY <2>1 DEF OnStack, Range
  <2>3. QED BY <2>1, <2>2 DEF IInv, Stacked
<1>7. \A g \in Handles \ {h} : g \in Live <=> g \in Live'
  BY SavedFits DEF Live
<1>8. h \in Live' BY NullAssumption DEF Live
<1>9. Objects'
  <2>1. Live' \subseteq made' BY <1>7 DEF Live, IInv, Objects
  <2>2. QED BY <2>1 DEF IInv, Objects
<1>10. top \in Nat /\ t \in Nat /\ t >= top BY DEF IInv, Stacked
<1>11. Stacked'
  <2>1. \A i \in DOMAIN stack' : stack'[i] # NULL => i <= t /\ stack'[i] \in Live'
    <3>1. \A i \in DOMAIN stack : stack[i] # NULL => i <= top /\ stack[i] \in Live
      BY DEF IInv, Stacked
    <3>2. stack \in Seq(H) BY DEF IInv, Stacked
    <3>3. QED BY <1>2, <1>6, <1>7, <1>8, <1>10, <3>1, <3>2 DEF Live
  <2>2. \A i, j \in DOMAIN stack' : stack'[i] # NULL /\ stack'[i] = stack'[j] => i = j
    BY <1>2, <1>6 DEF IInv, Stacked
  <2>3. QED BY <1>1, <1>2, <1>3, <1>10, <2>1, <2>2 DEF Stacked
<1>12. Globals' /\ n_chars' = buf'[h].n_chars /\ c_buf_p' = buf'[h].pos /\ text_ptr' = buf'[h].pos
  BY LoadFits
<1>13. Texts'
  <2>1. \A g \in Live : Ended(Saved[g]) /\ Saved[g].pos <= Saved[g].n_chars + 1 BY SavedFits
  <2>2. \A g \in Live' \ {h} : g \in Live /\ buf'[g] = Saved[g] BY <1>7 DEF Live
  <2>3. QED BY <1>4, <2>1, <2>2 DEF Texts, Ended
<1>14. Below'
  <2> SUFFICES ASSUME NEW i \in DOMAIN stack', i < t, stack'[i] # NULL
               PROVE  buf'[stack'[i]].pos <= buf'[stack'[i]].n_chars
    BY DEF Below
  <2>1. i \in DOMAIN stack /\ stack'[i] = stack[i] /\ stack[i] \in Handles \ {h}
    BY <1>6, <1>10 DEF Live
  <2>2. buf'[stack[i]] = Saved[stack[i]] BY <2>1
  <2>3. CASE stack[i] = Current
    <3>1. i = top
      <4>1. stack # <<>> BY <2>1
      <4>2. Current = stack[top] /\ top \in DOMAIN stack BY <4>1 DEF Current, IInv, Stacked
      <4>3. QED BY <2>1, <2>3, <4>2, <1>6, <1>10 DEF IInv, Stacked
    <3>2. Current # NULL /\ ~Spent BY <2>1, <2>3, <3>1, BuffersAssumption
    <3>3. QED BY <2>1, <2>2, <2>3, <3>2, SavedFits
  <2>4. CASE stack[i] # Current
    <3>1. Saved[stack[i]] = buf[stack[i]] BY <2>1, <2>4, SavedFits
    <3>2. i # top
      BY <2>1, <2>4 DEF Current
    <3>3. i < top
      <4>1. i <= top BY <1>6, <2>1 DEF IInv, Stacked
      <4>2. i \in Nat BY <2>1 DEF IInv, Stacked
      <4>3. QED BY <1>10, <3>2, <4>1, <4>2
    <3>4. QED BY <2>1, <2>2, <3>1, <3>3, BuffersAssumption DEF IInv, Below
  <2>5. QED BY <2>3, <2>4
<1>15. Positioned'
  <2>1. buf'[h].ch \in Seq(Chars) /\ Len(buf'[h].ch) = n_chars' + 2 /\ n_chars' \in Nat
    BY <1>12 DEF Ended, Buffer
  <2>2. QED BY <1>4, <1>12, <2>1 DEF Positioned
<1>16. QED BY <1>9, <1>11, <1>12, <1>13, <1>14, <1>15 DEF IInv

\* The stack stays as it is, and at most the current buffer changes.
LEMMA Rewritten ==
  ASSUME IInv, Current # NULL,
         NEW b \in Buffer, Len(b.ch) = n_chars' + 2, b.n_chars <= n_chars',
         buf' = [buf EXCEPT ![Current] = b],
         UNCHANGED <<made, stack, top>>,
         Control', Globals',
         ~init' \/ ~b.fill => b.n_chars = n_chars',
         c_buf_p' <= n_chars' \/ (pc' = "yywrap" /\ ~switched' /\ c_buf_p' = n_chars' + 1),
         pc' = "yywrap" => text_ptr' <= n_chars',
         ~init' => b.pos <= b.n_chars
  PROVE  IInv'
PROOF
<1>1. Current \in Live /\ Current \in Handles /\ top \in DOMAIN stack
  BY CurrentIsLive DEF IInv
<1>2. Current' = Current BY DEF Current
<1>3. b # NULL BY NullAssumption
<1>4. buf \in [Handles -> Buffer \cup {NULL}] BY DEF IInv, Objects
<1>5. \A h \in Handles : buf'[h] = IF h = Current THEN b ELSE buf[h] BY <1>4
<1>6. Live' = Live BY <1>1, <1>3, <1>5 DEF Live
<1>7. Objects' BY <1>1, <1>4, <1>6 DEF IInv, Objects
<1>8. Stacked' BY <1>6 DEF IInv, Stacked
<1>9. Texts'
  BY <1>2, <1>5, <1>6 DEF IInv, Texts, Live, Ended
<1>10. Below'
  <2> SUFFICES ASSUME NEW i \in DOMAIN stack, i < top, stack[i] # NULL
               PROVE  buf'[stack[i]].pos <= buf'[stack[i]].n_chars
    BY DEF Below
  <2>1. stack[i] \in Handles BY DEF IInv, Stacked, Live
  <2>2. Current = stack[top] BY <1>1 DEF Current
  <2>3. i # top /\ stack[i] # Current
    <3>1. i \in Nat /\ top \in Nat BY DEF IInv, Stacked
    <3>2. QED BY <1>1, <2>2, <3>1 DEF IInv, Stacked
  <2>4. QED BY <1>5, <2>1, <2>3 DEF IInv, Below
<1>11. Positioned' BY <1>1, <1>2, <1>5 DEF Positioned
<1>12. QED BY <1>7, <1>8, <1>9, <1>10, <1>11 DEF IInv

\* A buffer that is not the current one is created, flushed or deleted.
LEMMA OffTop ==
  ASSUME IInv,
         NEW h \in Handles, h # Current,
         NEW b \in Buffer \cup {NULL},
         b = NULL => h \notin OnStack,
         b # NULL => Ended(b) /\ b.pos <= b.n_chars /\ h \in made',
         buf' = [buf EXCEPT ![h] = b],
         made' = made \/ made' = made \cup {h},
         UNCHANGED <<stack, top, globals, switched, init, pc, at>>
  PROVE  IInv'
PROOF
<1>1. Control' /\ Globals' BY DEF IInv, Control, Globals, globals
<1>2. Current' = Current BY DEF Current
<1>3. buf \in [Handles -> Buffer \cup {NULL}] BY DEF IInv, Objects
<1>4. \A g \in Handles : buf'[g] = IF g = h THEN b ELSE buf[g] BY <1>3
<1>5. \A g \in Handles \ {h} : g \in Live' <=> g \in Live BY <1>4 DEF Live
<1>6. h \in Live' <=> b # NULL BY <1>4 DEF Live
<1>7. Objects'
  <2>1. Live' \subseteq made' BY <1>5, <1>6 DEF Live, IInv, Objects
  <2>2. QED BY <1>3, <2>1 DEF IInv, Objects
<1>8. Stacked'
  <2>1. \A i \in DOMAIN stack : stack[i] # NULL => stack[i] \in Live'
    <3> SUFFICES ASSUME NEW i \in DOMAIN stack, stack[i] # NULL
                 PROVE  stack[i] \in Live'
      OBVIOUS
    <3>1. stack[i] \in Live /\ stack[i] \in OnStack BY DEF IInv, Stacked, OnStack, Range
    <3>2. stack[i] = h => b # NULL BY <3>1
    <3>3. QED BY <1>5, <1>6, <3>1, <3>2 DEF Live
  <2>2. QED BY <2>1 DEF IInv, Stacked
<1>9. Texts'
  <2>1. b # NULL => Ended(b) /\ b.pos <= b.n_chars + 1 BY DEF Buffer
  <2>2. \A g \in Live' : g = h \/ g \in Live BY <1>5 DEF Live
  <2>3. QED BY <1>2, <1>4, <1>6, <2>1, <2>2 DEF IInv, Texts, Live, Ended
<1>10. Below'
  <2> SUFFICES ASSUME NEW i \in DOMAIN stack, i < top, stack[i] # NULL
               PROVE  buf'[stack[i]].pos <= buf'[stack[i]].n_chars
    BY DEF Below
  <2>1. stack[i] \in Handles /\ stack[i] \in OnStack BY DEF IInv, Stacked, Live, OnStack, Range
  <2>2. QED BY <1>4, <2>1 DEF IInv, Below
<1>11. Positioned'
  <2>1. Current # NULL => buf'[Current] = buf[Current]
    BY <1>4, CurrentIsLive DEF IInv
  <2>2. QED BY <1>2, <2>1 DEF IInv, Positioned, globals
<1>12. QED BY <1>1, <1>7, <1>8, <1>9, <1>10, <1>11 DEF IInv

\* The current buffer is deleted, and may be popped.
LEMMA Removed ==
  ASSUME IInv, Current # NULL,
         buf' = [buf EXCEPT ![Current] = NULL],
         stack' = [stack EXCEPT ![top] = NULL],
         top' = top \/ (top > 1 /\ top' = top - 1),
         UNCHANGED made
  PROVE  /\ Objects' /\ Stacked' /\ Texts' /\ Below'
         /\ Current' # NULL => /\ top' < top /\ Current' = stack[top']
                               /\ Current' \in Live' /\ buf'[Current'] = buf[Current']
                               /\ buf[Current'] \in Buffer
                               /\ Ended(buf[Current'])
                               /\ buf[Current'].pos <= buf[Current'].n_chars
PROOF
<1>1. /\ Current \in Live /\ Current \in Handles /\ top \in DOMAIN stack
      /\ Current = stack[top] /\ stack # <<>>
  BY CurrentIsLive DEF IInv, Current
<1>2. buf \in [Handles -> Buffer \cup {NULL}] BY DEF IInv, Objects
<1>3. \A g \in Handles : buf'[g] = IF g = Current THEN NULL ELSE buf[g] BY <1>2
<1>4. Live' = Live \ {Current} BY <1>1, <1>3 DEF Live
<1>5. /\ stack' \in Seq(Handles \cup {NULL}) /\ DOMAIN stack' = DOMAIN stack /\ stack' # <<>>
      /\ \A i \in DOMAIN stack : stack'[i] = IF i = top THEN NULL ELSE stack[i]
  BY <1>1 DEF IInv, Stacked
<1>6. top \in Nat /\ DOMAIN stack = 1 .. Len(stack) /\ Len(stack) \in Nat BY DEF IInv, Stacked
<1>7. top' \in Nat /\ top' \in DOMAIN stack /\ (top' = top \/ top' = top - 1) BY <1>1, <1>6
<1>8. \A i \in DOMAIN stack : i # top /\ stack[i] # NULL =>
        stack[i] \in Live' /\ i < top /\ stack[i] # Current
  BY <1>1, <1>4, <1>6 DEF IInv, Stacked
<1>9. Objects' BY <1>2, <1>4 DEF IInv, Objects
<1>10. Stacked'
  <2>1. \A i \in DOMAIN stack' : stack'[i] # NULL => i <= top' /\ stack'[i] \in Live'
    BY <1>5, <1>6, <1>7, <1>8
  <2>2. \A i, j \in DOMAIN stack' : stack'[i] # NULL /\ stack'[i] = stack'[j] => i = j
    BY <1>5 DEF IInv, Stacked
  <2>3. QED BY <1>5, <1>7, <2>1, <2>2 DEF Stacked
<1>11. \A h \in Live' : Ended(buf'[h]) /\ buf'[h].pos <= buf'[h].n_chars + 1
  BY <1>3, <1>4 DEF IInv, Texts, Live
<1>12. Texts' BY <1>11 DEF Texts, Ended
<1>13. \A i \in DOMAIN stack' : stack'[i] # NULL =>
         /\ i # top /\ stack'[i] = stack[i] /\ buf'[stack[i]] = buf[stack[i]]
         /\ buf[stack[i]].pos <= buf[stack[i]].n_chars
  <2> SUFFICES ASSUME NEW i \in DOMAIN stack', stack'[i] # NULL
               PROVE  /\ i # top /\ stack'[i] = stack[i] /\ buf'[stack[i]] = buf[stack[i]]
                      /\ buf[stack[i]].pos <= buf[stack[i]].n_chars
    OBVIOUS
  <2>1. i # top /\ stack'[i] = stack[i] /\ i \in DOMAIN stack BY <1>5
  <2>2. stack[i] \in Handles /\ stack[i] # Current /\ i < top BY <1>8, <2>1 DEF Live
  <2>3. QED BY <1>3, <2>1, <2>2 DEF IInv, Below
<1>14. Below' BY <1>13 DEF Below
<1>15. Current' # NULL => /\ top' < top /\ Current' = stack[top']
                          /\ Current' \in Live' /\ buf'[Current'] = buf[Current']
                          /\ buf[Current'] \in Buffer
                          /\ Ended(buf[Current'])
                          /\ buf[Current'].pos <= buf[Current'].n_chars
  <2> SUFFICES ASSUME Current' # NULL
               PROVE  /\ top' < top /\ Current' = stack[top']
                      /\ Current' \in Live' /\ buf'[Current'] = buf[Current']
                      /\ buf[Current'] \in Buffer
                      /\ Ended(buf[Current'])
                      /\ buf[Current'].pos <= buf[Current'].n_chars
    OBVIOUS
  <2>1. Current' = stack'[top'] BY <1>5 DEF Current
  <2>2. top' < top BY <1>5, <1>6, <1>7, <2>1
  <2>3. Current' = stack[top'] /\ Current' \in Live' BY <1>5, <1>7, <1>8, <2>1, <2>2
  <2>4. Current' \in Handles /\ buf[Current'] # NULL BY <1>4, <2>3 DEF Live
  <2>5. buf[Current'] \in Buffer BY <1>2, <2>4
  <2>6. /\ buf'[Current'] = buf[Current']
        /\ buf[Current'].pos <= buf[Current'].n_chars
    BY <1>5, <1>7, <1>13, <2>1, <2>3
  <2>7. Ended(buf[Current']) BY <1>11, <2>3, <2>6
  <2>8. QED BY <2>2, <2>3, <2>5, <2>6, <2>7
<1>16. QED BY <1>9, <1>10, <1>12, <1>14, <1>15

----------------------------------------------------------------------------
(* Buffers as they are made                                                *)

LEMMA MarksFit == Marks \in Seq(Chars) /\ Len(Marks) = 2 /\ NUL \in Chars
BY DEF Marks, Chars

LEMMA FreshFits ==
  ASSUME NEW f \in Files \cup {NULL}
  PROVE  Fresh(f) \in Buffer /\ Ended(Fresh(f)) /\ Fresh(f).pos <= Fresh(f).n_chars
BY MarksFit DEF Fresh, Buffer, Ended

LEMMA FlushedFits ==
  ASSUME NEW b \in Buffer
  PROVE  Flushed(b) \in Buffer /\ Ended(Flushed(b)) /\ Flushed(b).pos <= Flushed(b).n_chars
PROOF
<1>1. /\ Flushed(b).ch = Marks /\ Flushed(b).pos = 0 /\ Flushed(b).n_chars = 0
      /\ DOMAIN Flushed(b) = DOMAIN b
  BY DEF Flushed, Buffer
<1>2. Flushed(b) \in Buffer BY MarksFit DEF Flushed, Buffer
<1>3. QED BY <1>1, <1>2, MarksFit DEF Ended

LEMMA InitializedFits ==
  ASSUME NEW b \in Buffer, NEW f \in Files \cup {NULL}
  PROVE  /\ Initialized(b, f) \in Buffer /\ Ended(Initialized(b, f))
         /\ Initialized(b, f).pos <= Initialized(b, f).n_chars
PROOF
<1> DEFINE c == Flushed(b)
<1>1. c \in Buffer /\ Ended(c) /\ c.pos <= c.n_chars BY FlushedFits
<1> HIDE DEF c
<1>2. [c EXCEPT !.file = f, !.fill = TRUE] \in Buffer BY <1>1 DEF Buffer
<1>3. /\ [c EXCEPT !.file = f, !.fill = TRUE].ch = c.ch
      /\ [c EXCEPT !.file = f, !.fill = TRUE].pos = c.pos
      /\ [c EXCEPT !.file = f, !.fill = TRUE].n_chars = c.n_chars
  BY <1>1 DEF Buffer
<1>4. QED BY <1>1, <1>2, <1>3 DEF Initialized, c, Ended

LEMMA MemoryFits ==
  ASSUME NEW h \in Handles, NEW n \in Nat
  PROVE  /\ FromMemory(h, n) \in Buffer /\ Ended(FromMemory(h, n))
         /\ FromMemory(h, n).pos <= FromMemory(h, n).n_chars
PROOF
<1> DEFINE s == [i \in 1 .. n |-> <<h, i>>]
<1>1. s \in Seq(Chars) /\ Len(s) = n BY DEF Chars, Sources
<1> HIDE DEF s
<1>2. s \o Marks \in Seq(Chars) /\ Len(s \o Marks) = n + 2
  <2>1. \A t \in Seq(Chars), m \in Seq(Chars) : t \o m \in Seq(Chars) /\ Len(t \o m) = Len(t) + Len(m)
    OBVIOUS
  <2>2. QED BY <1>1, <2>1, MarksFit
<1>3. FromMemory(h, n) =
        [ch |-> s \o Marks, pos |-> 0, n_chars |-> n, file |-> NULL, fill |-> FALSE, new |-> TRUE]
  BY DEF FromMemory, s
<1>4. QED BY <1>2, <1>3 DEF Buffer, Ended

\* yyrestart() of the current buffer.
LEMMA RestartKeeps ==
  ASSUME IInv, NEW f \in Files \cup {NULL}, Restart(f),
         UNCHANGED <<made, stack, top>>, Control'
  PROVE  IInv'
PROOF
<1> DEFINE b == Initialized(buf[Current], f)
<1>1. Current # NULL /\ buf' = [buf EXCEPT ![Current] = b] BY DEF Restart
<1>2. Current \in Handles /\ buf[Current] \in Buffer BY <1>1, CurrentIsLive DEF IInv
<1>3. b \in Buffer /\ Ended(b) /\ b.pos <= b.n_chars BY <1>2, InitializedFits
<1>4. buf'[Current] = b BY <1>1, <1>2 DEF IInv, Objects
<1>5. Load(b) BY <1>4 DEF Restart
<1> HIDE DEF b
<1>6. Globals' /\ n_chars' = b.n_chars /\ c_buf_p' = b.pos /\ text_ptr' = b.pos
  BY <1>3, <1>5, LoadFits
<1>7. b.n_chars \in Nat /\ Len(b.ch) = n_chars' + 2 /\ b.n_chars <= n_chars'
  BY <1>3, <1>6 DEF Buffer, Ended
<1>8. QED BY <1>1, <1>3, <1>6, <1>7, Rewritten

\* What the calls of the user leave of the control state.
LEMMA UserControls ==
  ASSUME IInv, UNCHANGED <<init, pc, at>>, switched' \in BOOLEAN
  PROVE  Control'
BY DEF IInv, Control

\* A handle that is not yet made is not in use.
LEMMA NotMade ==
  ASSUME IInv, NEW h \in Handles, h \notin made
  PROVE  h \notin Live /\ h \notin OnStack /\ h # Current
PROOF
<1>1. h \notin Live BY DEF IInv, Objects
<1>2. h # NULL BY BuffersAssumption
<1>3. h \notin OnStack BY <1>1 DEF IInv, Stacked, OnStack, Range
<1>4. h # Current BY <1>1, <1>2, CurrentIsLive DEF IInv
<1>5. QED BY <1>1, <1>3, <1>4

----------------------------------------------------------------------------
(* The user's calls                                                        *)

LEMMA CreateInv ==
  ASSUME IInv, NEW h \in Handles, NEW f \in Files, Create(h, f)
  PROVE  IInv'
PROOF
<1>1. Fresh(f) \in Buffer /\ Ended(Fresh(f)) /\ Fresh(f).pos <= Fresh(f).n_chars BY FreshFits
<1>2. Fresh(f) # NULL BY <1>1, NullAssumption
<1>3. h # Current BY NotMade DEF Create
<1>4. QED BY <1>1, <1>2, <1>3, OffTop DEF Create, history

LEMMA SwitchInv ==
  ASSUME IInv, NEW h \in Handles, yy_switch_to_buffer(h)
  PROVE  IInv'
PROOF
<1>1. CASE MayTake(h) /\ PlaceOnTop(Saved, h)
  <2>1. h \in Live /\ h \notin OnStack /\ buf[h].pos <= buf[h].n_chars BY <1>1 DEF MayTake
  <2>2. h # Current
    <3>1. Current # NULL => Current \in OnStack
      BY CurrentIsLive DEF IInv, Current, OnStack, Range
    <3>2. h # NULL BY BuffersAssumption
    <3>3. QED BY <2>1, <3>1, <3>2
  <2>3. Saved[h] = buf[h] /\ Saved \in [Handles -> Buffer \cup {NULL}] BY <2>2, SavedFits
  <2>4. buf[h] \in Buffer /\ Ended(buf[h]) /\ h \in made
    BY <2>1, <2>2 DEF IInv, Objects, Texts, Live
  <2>5. Control' BY <1>1, UserControls DEF yy_switch_to_buffer, PlaceOnTop, history
  <2>6. /\ buf' = Saved /\ stack' = [Ensured EXCEPT ![top] = h] /\ Load(buf'[h])
        /\ top' = top /\ made' = made
    BY <1>1 DEF PlaceOnTop, yy_switch_to_buffer
  <2>7. QED BY <2>1, <2>3, <2>4, <2>5, <2>6, Placed
<1>2. CASE h = Current /\ stack' = Ensured /\ UNCHANGED <<buf, globals, switched>>
  <2>1. stack # <<>> /\ h # NULL
    BY <1>2, BuffersAssumption DEF Current
  <2>2. /\ Ensured \in Seq(Handles \cup {NULL}) /\ top \in DOMAIN Ensured
        /\ DOMAIN stack \subseteq DOMAIN Ensured
        /\ \A i \in DOMAIN Ensured : Ensured[i] = IF i \in DOMAIN stack THEN stack[i] ELSE NULL
    BY EnsuredFits DEF IInv
  <2>3. UNCHANGED <<buf, made, top, globals, switched, init, pc, at>>
    BY <1>2 DEF yy_switch_to_buffer, history
  <2>4. Ensured # <<>> BY <2>2
  <2>5. top \in DOMAIN stack BY <2>1 DEF IInv, Stacked
  <2>6. Current' = Current BY <1>2, <2>1, <2>2, <2>3, <2>4, <2>5 DEF Current
  <2>7. Live' = Live BY <2>3 DEF Live
  <2>8. Control' /\ Globals' /\ Objects' /\ Texts' /\ Positioned'
    BY <2>3, <2>6, <2>7 DEF IInv, Control, Globals, Objects, Texts, Positioned, globals, Ended
  <2>9. Stacked' BY <1>2, <2>2, <2>3, <2>4, <2>7 DEF IInv, Stacked
  <2>10. Below' BY <1>2, <2>2, <2>3 DEF IInv, Below
  <2>11. QED BY <2>8, <2>9, <2>10 DEF IInv
<1>3. QED BY <1>1, <1>2 DEF yy_switch_to_buffer

LEMMA PushInv ==
  ASSUME IInv, NEW h \in Handles, yypush_buffer_state(h)
  PROVE  IInv'
PROOF
<1>1. MayTake(h) /\ ~Spent BY DEF yypush_buffer_state
<1>2. h \in Live /\ h \notin OnStack /\ buf[h].pos <= buf[h].n_chars BY <1>1 DEF MayTake
<1>3. h # Current
  <2>1. Current # NULL => Current \in OnStack
    BY CurrentIsLive DEF IInv, Current, OnStack, Range
  <2>2. h # NULL BY BuffersAssumption
  <2>3. QED BY <1>2, <2>1, <2>2
<1>4. Saved[h] = buf[h] /\ Saved \in [Handles -> Buffer \cup {NULL}] BY <1>3, SavedFits
<1>5. buf[h] \in Buffer /\ Ended(buf[h]) /\ h \in made
  BY <1>2, <1>3 DEF IInv, Objects, Texts, Live
<1>6. Control' BY UserControls DEF yypush_buffer_state, history
<1>7. /\ buf' = Saved /\ stack' = [Ensured EXCEPT ![TopFor] = h] /\ Load(buf'[h])
      /\ top' = TopFor /\ made' = made
  BY DEF yypush_buffer_state
<1>8. TopFor = top \/ (TopFor = top + 1 /\ Current # NULL /\ ~Spent) BY <1>1 DEF TopFor
<1>9. QED BY <1>2, <1>4, <1>5, <1>6, <1>7, <1>8, Placed

LEMMA ScanInv ==
  ASSUME IInv, NEW h \in Handles, NEW n \in Strings, Scan(h, n)
  PROVE  IInv'
PROOF
<1> DEFINE b == FromMemory(h, n)
<1>1. n \in Nat BY BuffersAssumption
<1>2. b \in Buffer /\ Ended(b) /\ b.pos <= b.n_chars BY <1>1, MemoryFits
<1> HIDE DEF b
<1>3. h \notin OnStack BY NotMade DEF Scan
<1>4. Saved \in [Handles -> Buffer \cup {NULL}] BY SavedFits
<1>5. /\ buf' = [Saved EXCEPT ![h] = b] /\ stack' = [Ensured EXCEPT ![top] = h] /\ Load(buf'[h])
      /\ top' = top /\ made' = made \cup {h}
  BY DEF Scan, PlaceOnTop, b
<1>6. buf'[h] = b /\ buf' \in [Handles -> Buffer \cup {NULL}] BY <1>2, <1>4, <1>5
<1>7. \A g \in Handles \ {h} : buf'[g] = Saved[g] BY <1>4, <1>5
<1>8. Control' BY UserControls DEF Scan, PlaceOnTop, history
<1>9. QED BY <1>2, <1>3, <1>5, <1>6, <1>7, <1>8, Placed

\* yyrestart() and yylex() when there is no current buffer.
LEMMA NewCurrentKeeps ==
  ASSUME IInv, NEW h \in Handles, NEW f \in Files, NewCurrent(h, f), top' = top, Control'
  PROVE  IInv'
PROOF
<1> DEFINE b == Fresh(f)
<1>1. b \in Buffer /\ Ended(b) /\ b.pos <= b.n_chars BY FreshFits
<1> HIDE DEF b
<1>2. h \notin OnStack BY NotMade DEF NewCurrent
<1>3. Saved = buf /\ buf \in [Handles -> Buffer \cup {NULL}]
  BY DEF NewCurrent, Saved, IInv, Objects
<1>4. /\ buf' = [buf EXCEPT ![h] = b] /\ stack' = [Ensured EXCEPT ![top] = h] /\ Load(buf'[h])
      /\ made' = made \cup {h}
  BY DEF NewCurrent, b
<1>5. buf'[h] = b /\ buf' \in [Handles -> Buffer \cup {NULL}] BY <1>1, <1>3, <1>4
<1>6. \A g \in Handles \ {h} : buf'[g] = Saved[g] BY <1>3, <1>4
<1>7. QED BY <1>1, <1>2, <1>4, <1>5, <1>6, Placed

LEMMA RestartNewInv ==
  ASSUME IInv, NEW h \in Handles, NEW f \in Files, RestartNew(h, f)
  PROVE  IInv'
PROOF
<1>1. Control' BY UserControls DEF RestartNew, history, IInv, Control
<1>2. QED BY <1>1, NewCurrentKeeps DEF RestartNew

LEMMA RestartInv ==
  ASSUME IInv, NEW f \in Files, yyrestart(f)
  PROVE  IInv'
PROOF
<1>1. Control' BY UserControls DEF yyrestart, IInv, Control
<1>2. QED BY <1>1, RestartKeeps DEF yyrestart

LEMMA PopInv ==
  ASSUME IInv, yypop_buffer_state
  PROVE  IInv'
PROOF
<1>1. /\ Current # NULL /\ buf' = [buf EXCEPT ![Current] = NULL]
      /\ stack' = [stack EXCEPT ![top] = NULL] /\ made' = made
      /\ top' = top \/ (top > 1 /\ top' = top - 1)
  BY DEF yypop_buffer_state
<1>2. /\ Objects' /\ Stacked' /\ Texts' /\ Below'
      /\ Current' # NULL => /\ Current' = stack[top'] /\ top' < top
                            /\ buf'[Current'] = buf[Current'] /\ buf[Current'] \in Buffer
                            /\ Ended(buf[Current'])
                            /\ buf[Current'].pos <= buf[Current'].n_chars
  BY <1>1, Removed
<1>3. stack # <<>> /\ top \in DOMAIN stack BY <1>1 DEF Current, IInv, Stacked
<1>4. Current' = stack'[top']
  <2>1. stack' # <<>> BY <1>1, <1>3 DEF IInv, Stacked
  <2>2. QED BY <2>1 DEF Current
<1>5. CASE Current' = NULL
  <2>1. UNCHANGED <<globals, switched, init, pc, at>>
    BY <1>4, <1>5 DEF yypop_buffer_state
  <2>2. QED BY <1>2, <1>5, <2>1 DEF IInv, Control, Globals, Positioned, globals
<1>6. CASE Current' # NULL
  <2> DEFINE b == buf[Current']
  <2>1. b \in Buffer /\ Ended(b) /\ b.pos <= b.n_chars /\ buf'[Current'] = b BY <1>2, <1>6
  <2>2. stack'[top'] = stack[top'] /\ stack'[top'] # NULL BY <1>2, <1>4, <1>6
  <2>3. Load(b) /\ switched' = TRUE BY <1>4, <2>2 DEF yypop_buffer_state
  <2> HIDE DEF b
  <2>4. Globals' /\ n_chars' = b.n_chars /\ c_buf_p' = b.pos /\ text_ptr' = b.pos
    BY <2>1, <2>3, LoadFits
  <2>5. Control' BY <2>3, UserControls DEF yypop_buffer_state
  <2>6. Positioned'
    <3>1. b.n_chars \in Nat /\ Len(b.ch) = n_chars' + 2 BY <2>1, <2>4 DEF Buffer, Ended
    <3>2. QED BY <2>1, <2>4, <3>1 DEF Positioned
  <2>7. QED BY <1>2, <2>4, <2>5, <2>6 DEF IInv
<1>7. QED BY <1>5, <1>6

LEMMA DeleteInv ==
  ASSUME IInv, NEW h \in Handles, yy_delete_buffer(h)
  PROVE  IInv'
PROOF
<1>1. UNCHANGED <<made, top, globals, switched, init, pc, at>> BY DEF yy_delete_buffer
<1>2. CASE h = Current
  <2>1. Current # NULL BY <1>2, BuffersAssumption
  <2>2. buf' = [buf EXCEPT ![Current] = NULL] /\ stack' = [stack EXCEPT ![top] = NULL]
    BY <1>2 DEF yy_delete_buffer
  <2>3. top' = top /\ top \in Nat BY <1>1 DEF IInv, Stacked
  <2>4. Objects' /\ Stacked' /\ Texts' /\ Below' /\ (Current' # NULL => top' < top)
    BY <1>1, <2>1, <2>2, <2>3, Removed
  <2>5. Current' = NULL BY <2>3, <2>4
  <2>6. QED BY <1>1, <2>4, <2>5 DEF IInv, Control, Globals, Positioned, globals
<1>3. CASE h # Current
  <2>1. h \notin OnStack BY <1>3 DEF yy_delete_buffer
  <2>2. buf' = [buf EXCEPT ![h] = NULL] /\ stack' = stack BY <1>3 DEF yy_delete_buffer
  <2>3. QED BY <1>1, <1>3, <2>1, <2>2, OffTop
<1>4. QED BY <1>2, <1>3

LEMMA FlushInv ==
  ASSUME IInv, NEW h \in Handles, yy_flush_buffer(h)
  PROVE  IInv'
PROOF
<1> DEFINE b == Flushed(buf[h])
<1>1. h \in Live /\ buf' = [buf EXCEPT ![h] = b] BY DEF yy_flush_buffer
<1>2. h \in made /\ buf[h] \in Buffer BY <1>1 DEF IInv, Objects, Live
<1>3. b \in Buffer /\ Ended(b) /\ b.pos <= b.n_chars BY <1>2, FlushedFits
<1>4. b # NULL BY <1>3, NullAssumption
<1>5. buf'[h] = b BY <1>1 DEF IInv, Objects
<1>6. UNCHANGED <<made, stack, top, switched, init, pc, at>> BY DEF yy_flush_buffer
<1>7. CASE h = Current
  <2>1. Load(b) BY <1>5, <1>7 DEF yy_flush_buffer
  <2> HIDE DEF b
  <2>2. Globals' /\ n_chars' = b.n_chars /\ c_buf_p' = b.pos /\ text_ptr' = b.pos
    BY <1>3, <2>1, LoadFits
  <2>3. Control' BY <1>6 DEF IInv, Control
  <2>4. Current # NULL BY <1>7, BuffersAssumption
  <2>5. b.n_chars \in Nat /\ Len(b.ch) = n_chars' + 2 /\ b.n_chars <= n_chars'
        /\ c_buf_p' <= n_chars' /\ text_ptr' <= n_chars'
    BY <1>3, <2>2 DEF Buffer, Ended
  <2>6. QED BY <1>1, <1>3, <1>6, <1>7, <2>2, <2>3, <2>4, <2>5, Rewritten
<1>8. CASE h # Current
  <2>1. UNCHANGED globals BY <1>8 DEF yy_flush_buffer
  <2> HIDE DEF b
  <2>2. QED BY <1>1, <1>2, <1>3, <1>4, <1>6, <1>8, <2>1, OffTop
<1>9. QED BY <1>7, <1>8

LEMMA DestroyInv ==
  ASSUME IInv, yylex_destroy
  PROVE  IInv'
PROOF
<1>1. /\ pc' = "user" /\ stack' = <<>> /\ top' = 1 /\ c_buf_p' = 0 /\ init' = FALSE /\ yyin' = NULL
      /\ UNCHANGED <<made, n_chars, hold_char, text_ptr, switched, at>>
      /\ buf' = [h \in Handles |-> IF h \in OnStack THEN NULL ELSE buf[h]]
  BY DEF yylex_destroy
<1>2. \A h \in Handles : buf'[h] = IF h \in OnStack THEN NULL ELSE buf[h] BY <1>1
<1>3. Live' = Live \ OnStack BY <1>2 DEF Live
<1>4. Current' = NULL BY <1>1 DEF Current
<1>5. Control' /\ Globals' BY <1>1 DEF IInv, Control, Globals, Pcs
<1>6. Objects' BY <1>1, <1>3 DEF IInv, Objects
<1>7. Stacked' BY <1>1 DEF Stacked
<1>8. \A h \in Live' : h # Current /\ buf'[h] = buf[h]
  <2>1. Current # NULL => Current \in OnStack BY CurrentIsLive DEF IInv, Current, OnStack, Range
  <2>2. \A h \in Live' : h \in Handles /\ h \notin OnStack /\ h # NULL
    BY <1>3, BuffersAssumption DEF Live
  <2>3. QED BY <1>2, <2>1, <2>2
<1>9. Texts' BY <1>3, <1>8 DEF IInv, Texts, Ended
<1>10. Below' /\ Positioned' BY <1>1, <1>4 DEF Below, Positioned
<1>11. QED BY <1>5, <1>6, <1>7, <1>9, <1>10 DEF IInv

----------------------------------------------------------------------------
(* yylex(), yywrap() and input()                                           *)

LEMMA FirstCallInv ==
  ASSUME IInv, FirstCall
  PROVE  IInv'
PROOF
<1>1. Control' BY DEF FirstCall, IInv, Control, Pcs, history
<1>2. CASE \E h \in Handles, f \in Files : (yyin \in {NULL, f}) /\ NewCurrent(h, f)
  BY <1>1, <1>2, NewCurrentKeeps DEF FirstCall
<1>3. CASE Current # NULL /\ Load(buf[Current]) /\ UNCHANGED <<buf, made, stack>>
  <2> DEFINE b == buf[Current]
  <2>1. b \in Buffer /\ Current \in Live /\ Current \in Handles BY <1>3, CurrentIsLive DEF IInv
  <2>2. Ended(b) BY <1>3 DEF FirstCall, IInv, Positioned, Ended
  <2>3. b.pos <= b.n_chars BY <1>3 DEF FirstCall, IInv, Positioned
  <2>4. Load(b) /\ buf' = [buf EXCEPT ![Current] = b]
    BY <1>3, <2>1 DEF IInv, Objects
  <2> HIDE DEF b
  <2>5. Globals' /\ n_chars' = b.n_chars /\ c_buf_p' = b.pos /\ text_ptr' = b.pos
    BY <2>1, <2>2, <2>3, <2>4, LoadFits
  <2>6. UNCHANGED <<made, stack, top>> BY <1>3 DEF FirstCall
  <2>7. b.n_chars \in Nat /\ Len(b.ch) = n_chars' + 2 /\ b.n_chars <= n_chars'
        /\ c_buf_p' <= n_chars' /\ text_ptr' <= n_chars'
    BY <2>1, <2>2, <2>3, <2>5 DEF Buffer, Ended
  <2>8. QED BY <1>1, <1>3, <2>1, <2>3, <2>4, <2>5, <2>6, <2>7, Rewritten
<1>4. QED BY <1>2, <1>3 DEF FirstCall

\* Outside yywrap() the position is in the text.
LEMMA InText ==
  ASSUME IInv, Current # NULL, pc # "yywrap"
  PROVE  /\ c_buf_p \in Nat /\ n_chars \in Nat /\ c_buf_p <= n_chars
         /\ Len(buf[Current].ch) = n_chars + 2 /\ buf[Current].n_chars <= n_chars
BY DEF IInv, Positioned, Globals

\* Ending yytext with a NUL.
LEMMA CutFits ==
  ASSUME NEW s \in Seq(Chars), NEW i \in 1 .. Len(s)
  PROVE  /\ [s EXCEPT ![i] = NUL] \in Seq(Chars) /\ Len([s EXCEPT ![i] = NUL]) = Len(s)
         /\ s[i] \in Chars
BY MarksFit

\* The count that YY_END_OF_BUFFER finds.
LEMMA CountFits ==
  ASSUME IInv, Current # NULL
  PROVE  /\ Count \in Nat /\ Count <= n_chars
         /\ ~init \/ ~buf[Current].fill => buf[Current].n_chars = n_chars /\ Count = n_chars
PROOF
<1>1. buf[Current] \in Buffer BY CurrentIsLive DEF IInv
<1>2. buf[Current].n_chars \in Nat /\ n_chars \in Nat BY <1>1 DEF Buffer, IInv, Globals
<1>3. QED BY <1>2 DEF Count, IInv, Positioned

LEMMA LargerIs == \A m, n \in Nat : m <= n => Max({m, n}) = n
PROOF
<1> SUFFICES ASSUME NEW m \in Nat, NEW n \in Nat, m <= n PROVE Max({m, n}) = n OBVIOUS
<1>1. n \in {m, n} /\ \A y \in {m, n} : n >= y OBVIOUS
<1>2. \A x \in {m, n} : (\A y \in {m, n} : x >= y) => x = n OBVIOUS
<1>3. Max({m, n}) = CHOOSE x \in {m, n} : \A y \in {m, n} : x >= y BY DEF Max
<1>4. QED BY <1>1, <1>2, <1>3

LEMMA TokenInv ==
  ASSUME IInv, NEW k \in Nat, Token(k)
  PROVE  IInv'
PROOF
<1> DEFINE ch == Restored(buf[Current])
           end == c_buf_p + k
           cut == [ch EXCEPT ![end + 1] = NUL]
           b == [buf[Current] EXCEPT !.ch = cut]
<1>1. Current # NULL /\ init /\ end <= n_chars BY DEF Token, Scanning
<1>2. c_buf_p \in Nat /\ n_chars \in Nat /\ end \in Nat BY DEF IInv, Globals
<1>3. ch \in Seq(Chars) /\ Len(ch) = n_chars + 2
  BY <1>1, RestoredFits
<1>4. Current \in Handles /\ buf[Current] \in Buffer BY <1>1, CurrentIsLive DEF IInv
<1>5. ch[end + 1] \in Chars /\ cut \in Seq(Chars) /\ Len(cut) = n_chars + 2
  <2> HIDE DEF ch
  <2>1. end + 1 \in 1 .. Len(ch) BY <1>1, <1>2, <1>3
  <2>2. QED BY <1>3, <2>1, CutFits
<1>6. b.ch = cut /\ b.n_chars = buf[Current].n_chars /\ b.fill = buf[Current].fill
  BY <1>4 DEF Buffer
<1>7. b \in Buffer
  <2> HIDE DEF cut
  <2>1. QED BY <1>4, <1>5 DEF Buffer
<1>8. Len(b.ch) = n_chars + 2 /\ b.n_chars <= n_chars /\ (~b.fill => b.n_chars = n_chars)
  BY <1>1, <1>5, <1>6 DEF IInv, Positioned
<1>9. /\ text_ptr' = c_buf_p /\ c_buf_p' = end /\ hold_char' = ch[end + 1] /\ pc' = "user"
      /\ UNCHANGED <<made, stack, top, n_chars, yyin, switched, init, at>>
      /\ buf' = [buf EXCEPT ![Current] = b]
  BY DEF Token
<1> HIDE DEF b, cut, ch, end
<1>10. Control' /\ Globals' BY <1>2, <1>5, <1>9 DEF IInv, Control, Globals, Pcs
<1>11. QED BY <1>1, <1>7, <1>8, <1>9, <1>10, Rewritten

\* A buffer that has been read into once takes yyin as its file.
LEMMA BegunFits ==
  ASSUME IInv, NEW b \in Buffer
  PROVE  /\ Begun(b) \in Buffer /\ Begun(b).ch = b.ch /\ Begun(b).n_chars = b.n_chars
         /\ Begun(b).pos = b.pos
BY DEF Begun, Buffer, IInv, Globals

\* What is read are characters.
LEMMA ReadFits ==
  ASSUME IInv, NEW f \in Files, NEW r \in Nat, Reads(f, r)
  PROVE  /\ Read(f, r) \in Seq(Chars) /\ Len(Read(f, r)) = r
         /\ at' \in [Files -> Nat]
PROOF
<1>1. at \in [Files -> Nat] BY DEF IInv, Control
<1>2. at[f] \in Nat BY <1>1
<1>3. \A i \in 1 .. r : <<f, at[f] + i>> \in Chars BY <1>2 DEF Chars, Sources
<1>4. Read(f, r) \in Seq(Chars) /\ Len(Read(f, r)) = r BY <1>3 DEF Read
<1>5. QED BY <1>1, <1>2, <1>4 DEF Reads

LEMMA Concatenates ==
  \A s \in Seq(Chars), t \in Seq(Chars) : s \o t \in Seq(Chars) /\ Len(s \o t) = Len(s) + Len(t)
OBVIOUS

LEMMA RefillInv ==
  ASSUME IInv, NEW f \in Files, yyin = f, NEW r \in Nat, r > 0, Refill(r)
  PROVE  IInv'
PROOF
<1> DEFINE ch == Read(yyin, r) \o Marks
           b == [Begun(buf[Current]) EXCEPT !.ch = ch, !.n_chars = r]
<1>1. Current # NULL /\ init /\ Reads(f, r) BY DEF Refill, AtEnd, Scanning
<1>2. Read(yyin, r) \in Seq(Chars) /\ Len(Read(yyin, r)) = r /\ at' \in [Files -> Nat]
  BY <1>1, ReadFits
<1>3. ch \in Seq(Chars) /\ Len(ch) = r + 2 BY <1>2, MarksFit, Concatenates
<1>4. Current \in Handles /\ buf[Current] \in Buffer BY <1>1, CurrentIsLive DEF IInv
<1>5. Begun(buf[Current]) \in Buffer BY <1>4, BegunFits
<1>6. /\ buf' = [buf EXCEPT ![Current] = b]
      /\ n_chars' = r /\ c_buf_p' = 0 /\ text_ptr' = 0 /\ hold_char' = b.ch[1]
      /\ pc' = "yylex" /\ UNCHANGED <<made, stack, top, yyin, switched, init>>
  BY DEF Refill
<1> HIDE DEF ch
<1>7. b \in Buffer /\ b.ch = ch /\ b.n_chars = r BY <1>3, <1>5 DEF Buffer
<1> HIDE DEF b
<1>8. Ended(b) BY <1>3, <1>7 DEF Ended
<1>9. ch[1] \in Chars BY <1>3
<1>10. Control' /\ Globals'
  BY <1>1, <1>2, <1>6, <1>7, <1>9 DEF IInv, Control, Globals, Pcs
<1>11. n_chars' = b.n_chars /\ c_buf_p' <= n_chars' /\ pc' # "yywrap" /\ init'
  BY <1>1, <1>6, <1>7
<1>12. Len(b.ch) = n_chars' + 2 /\ b.n_chars <= n_chars'
  BY <1>7, <1>8, <1>11 DEF Ended
<1>13. QED BY <1>1, <1>6, <1>7, <1>10, <1>11, <1>12, Rewritten

LEMMA EndOfFileInv ==
  ASSUME IInv, EndOfFile
  PROVE  IInv'
PROOF
<1>1. /\ Current # NULL /\ init /\ c_buf_p = n_chars /\ n_chars = Count
      /\ switched' = FALSE /\ pc' = "yywrap" /\ UNCHANGED <<made, stack, top, init, at>>
  BY DEF EndOfFile, AtEnd, Scanning, history
<1>2. Control' BY <1>1 DEF IInv, Control, Pcs
<1>3. CASE /\ ~buf[Current].fill
           /\ buf' = [buf EXCEPT ![Current] = Begun(@)]
           /\ text_ptr' = c_buf_p /\ c_buf_p' = c_buf_p + 1 /\ hold_char' = NUL
           /\ UNCHANGED <<n_chars, yyin>>
  <2> DEFINE b == Begun(buf[Current])
  <2>1. Current \in Live /\ Current \in Handles /\ buf[Current] \in Buffer
    BY <1>1, CurrentIsLive DEF IInv
  <2>2. /\ b \in Buffer /\ b.ch = buf[Current].ch /\ b.n_chars = buf[Current].n_chars
    BY <2>1, BegunFits
  <2>3. Len(b.ch) = n_chars + 2 BY <1>1, <2>2 DEF IInv, Positioned
  <2>4. buf' = [buf EXCEPT ![Current] = b] BY <1>3
  <2> HIDE DEF b
  <2>5. Globals' BY <1>3, MarksFit DEF IInv, Globals
  <2>6. n_chars' = n_chars /\ n_chars = b.n_chars BY <1>1, <1>3, <2>2 DEF IInv, Positioned
  <2>7. c_buf_p' = n_chars' + 1 /\ text_ptr' <= n_chars' BY <1>1, <1>3 DEF IInv, Globals
  <2>8. Len(b.ch) = n_chars' + 2 /\ b.n_chars <= n_chars' /\ b.n_chars = n_chars'
    BY <2>2, <2>3, <2>6 DEF Buffer
  <2>9. QED BY <1>1, <1>2, <2>2, <2>3, <2>4, <2>5, <2>6, <2>7, <2>8, Rewritten
<1>4. CASE Restart(yyin)
  BY <1>1, <1>2, <1>4, RestartKeeps DEF IInv, Globals
<1>5. QED BY <1>3, <1>4 DEF EndOfFile

\* A step that changes the text and the positions of no buffer but those of the
\* current one, if there is one.
LEMMA Repositioned ==
  ASSUME IInv, Control', Globals', UNCHANGED <<buf, made, stack, top>>,
         Current # NULL =>
           /\ n_chars' = n_chars /\ c_buf_p' <= n_chars'
           /\ pc' = "yywrap" => text_ptr' <= n_chars'
           /\ init' = init
  PROVE  IInv'
PROOF
<1>1. Current' = Current /\ Live' = Live BY DEF Current, Live
<1>2. Objects' /\ Stacked' /\ Texts' /\ Below'
  BY <1>1 DEF IInv, Objects, Stacked, Texts, Below, Ended
<1>3. Positioned' BY <1>1 DEF IInv, Positioned
<1>4. QED BY <1>2, <1>3 DEF IInv

LEMMA EndMissedInv ==
  ASSUME IInv, EndMissed
  PROVE  IInv'
PROOF
<1>1. /\ pc' = "fatal" /\ init /\ Current # NULL /\ pc # "yywrap"
      /\ UNCHANGED <<buf, made, stack, top, globals, switched, init, at>>
  BY DEF EndMissed, Scanning, history
<1>2. Control' /\ Globals' BY <1>1 DEF IInv, Control, Globals, Pcs, globals
<1>3. c_buf_p <= n_chars BY <1>1, InText
<1>4. QED BY <1>1, <1>2, <1>3, Repositioned DEF globals

LEMMA WrapDoneInv ==
  ASSUME IInv, WrapDone
  PROVE  IInv'
PROOF
<1>1. /\ pc = "yywrap" /\ c_buf_p' = text_ptr /\ pc' = "user"
      /\ UNCHANGED <<buf, made, stack, top, n_chars, hold_char, text_ptr, yyin, switched, init, at>>
  BY DEF WrapDone, history
<1>2. Control' /\ Globals' BY <1>1 DEF IInv, Control, Globals, Pcs
<1>3. Current # NULL => text_ptr <= n_chars BY <1>1 DEF IInv, Positioned
<1>4. QED BY <1>1, <1>2, <1>3, Repositioned

LEMMA InputDoneInv ==
  ASSUME IInv, InputDone
  PROVE  IInv'
PROOF
<1>1. /\ pc = "input" /\ pc' = "user"
      /\ UNCHANGED <<buf, made, stack, top, globals, switched, init, at>>
  BY DEF InputDone, history
<1>2. Control' /\ Globals' BY <1>1 DEF IInv, Control, Globals, Pcs, globals
<1>3. Current # NULL => c_buf_p <= n_chars BY <1>1, InText
<1>4. QED BY <1>1, <1>2, <1>3, Repositioned DEF globals

LEMMA WrapMoreInv ==
  ASSUME IInv, NEW f \in Files, WrapMore(f)
  PROVE  IInv'
PROOF
<1>1. /\ pc = "yywrap" /\ Current # NULL /\ NewFile(f) /\ pc' = "yylex"
      /\ UNCHANGED <<made, stack, top, switched, init, at>>
  BY DEF WrapMore, history
<1>2. init BY <1>1 DEF IInv, Control
<1>3. Control' BY <1>1, <1>2 DEF IInv, Control, Pcs
<1>4. CASE switched
  <2>1. UNCHANGED <<buf, globals>> BY <1>1, <1>4 DEF NewFile
  <2>2. Globals' BY <2>1 DEF IInv, Globals, globals
  <2>3. c_buf_p <= n_chars BY <1>1, <1>4 DEF IInv, Positioned
  <2>4. QED BY <1>1, <1>3, <2>1, <2>2, <2>3, Repositioned DEF globals
<1>5. CASE ~switched
  BY <1>1, <1>3, <1>5, RestartKeeps DEF NewFile
<1>6. QED BY <1>4, <1>5

LEMMA InputCharInv ==
  ASSUME IInv, InputChar
  PROVE  IInv'
PROOF
<1> DEFINE ch == Restored(buf[Current])
           cut == [ch EXCEPT ![c_buf_p + 1] = NUL]
           b == [buf[Current] EXCEPT !.ch = cut]
<1>1. Current # NULL /\ init /\ c_buf_p < n_chars BY DEF InputChar, Inputs
<1>2. c_buf_p \in Nat /\ n_chars \in Nat BY DEF IInv, Globals
<1>3. ch \in Seq(Chars) /\ Len(ch) = n_chars + 2
  BY <1>1, RestoredFits
<1>4. Current \in Handles /\ buf[Current] \in Buffer BY <1>1, CurrentIsLive DEF IInv
<1>5. ch[c_buf_p + 2] \in Chars /\ cut \in Seq(Chars) /\ Len(cut) = n_chars + 2
  <2> HIDE DEF ch
  <2>1. c_buf_p + 1 \in 1 .. Len(ch) /\ c_buf_p + 2 \in 1 .. Len(ch) BY <1>1, <1>2, <1>3
  <2>2. QED BY <1>3, <2>1, CutFits
<1>6. b.ch = cut /\ b.n_chars = buf[Current].n_chars /\ b.fill = buf[Current].fill
  BY <1>4 DEF Buffer
<1>7. b \in Buffer
  <2> HIDE DEF cut
  <2>1. QED BY <1>4, <1>5 DEF Buffer
<1>8. Len(b.ch) = n_chars + 2 /\ b.n_chars <= n_chars /\ (~b.fill => b.n_chars = n_chars)
  BY <1>1, <1>5, <1>6 DEF IInv, Positioned
<1>9. /\ c_buf_p' = c_buf_p + 1 /\ hold_char' = ch[c_buf_p + 2] /\ pc' = "user"
      /\ UNCHANGED <<made, stack, top, n_chars, text_ptr, yyin, switched, init, at>>
      /\ buf' = [buf EXCEPT ![Current] = b]
  BY DEF InputChar
<1> HIDE DEF b, cut, ch
<1>10. Control' /\ Globals' BY <1>2, <1>5, <1>9 DEF IInv, Control, Globals, Pcs
<1>11. c_buf_p' <= n_chars' BY <1>1, <1>2, <1>9
<1>12. QED BY <1>1, <1>7, <1>8, <1>9, <1>10, <1>11, Rewritten

LEMMA InputRefillInv ==
  ASSUME IInv, NEW f \in Files, yyin = f, NEW r \in Nat, r > 0, InputRefill(r)
  PROVE  IInv'
PROOF
<1> DEFINE old == buf[Current]
           text == SubSeq(old.ch, text_ptr + 1, c_buf_p)
           offset == Len(text)
           ch == text \o Read(yyin, r) \o Marks
           cut == [ch EXCEPT ![offset + 1] = NUL]
           b == [old EXCEPT !.ch = cut, !.n_chars = r]
<1>1. Current # NULL /\ init /\ c_buf_p = n_chars /\ Reads(f, r) /\ old.fill BY DEF InputRefill, Inputs
<1>2. c_buf_p \in Nat /\ n_chars \in Nat /\ text_ptr \in Nat BY DEF IInv, Globals
<1>3. Current \in Live /\ Current \in Handles /\ old \in Buffer BY <1>1, CurrentIsLive DEF IInv
<1>4. old.ch \in Seq(Chars) /\ Len(old.ch) = n_chars + 2
  BY <1>1, <1>3 DEF Buffer, IInv, Positioned
<1>5. text \in Seq(Chars) /\ offset \in Nat
  <2>1. \A i \in text_ptr + 1 .. c_buf_p : old.ch[i] \in Chars BY <1>1, <1>2, <1>4
  <2>2. text \in Seq(Chars) BY <1>1, <1>2, <1>4, <2>1
  <2> HIDE DEF text
  <2>3. QED BY <2>2
<1> HIDE DEF text
<1>6. Read(yyin, r) \in Seq(Chars) /\ Len(Read(yyin, r)) = r /\ at' \in [Files -> Nat]
  BY <1>1, ReadFits
<1>7. ch \in Seq(Chars) /\ Len(ch) = offset + r + 2
  <2>1. text \o Read(yyin, r) \in Seq(Chars) /\ Len(text \o Read(yyin, r)) = offset + r
    BY <1>5, <1>6, Concatenates
  <2> DEFINE both == text \o Read(yyin, r)
  <2> HIDE DEF both
  <2>2. both \o Marks \in Seq(Chars) /\ Len(both \o Marks) = offset + r + 2
    BY <2>1, MarksFit, Concatenates DEF both
  <2>3. QED BY <2>2 DEF both
<1>8. /\ buf' = [buf EXCEPT ![Current] = b]
      /\ n_chars' = offset + r /\ text_ptr' = 0 /\ c_buf_p' = offset + 1
      /\ hold_char' = ch[offset + 2] /\ pc' = "user"
      /\ UNCHANGED <<made, stack, top, yyin, switched, init>>
  BY DEF InputRefill, text
<1> HIDE DEF ch, offset
<1>9. ch[offset + 2] \in Chars /\ cut \in Seq(Chars) /\ Len(cut) = offset + r + 2
  <2>1. offset + 1 \in 1 .. Len(ch) /\ offset + 2 \in 1 .. Len(ch) BY <1>5, <1>7
  <2>2. QED BY <1>7, <2>1, CutFits
<1> HIDE DEF cut
<1>10. b \in Buffer /\ b.ch = cut /\ b.n_chars = r /\ b.fill
  <2> HIDE DEF old
  <2>1. QED BY <1>1, <1>3, <1>9 DEF Buffer
<1> HIDE DEF b
<1>11. Len(b.ch) = n_chars' + 2 /\ b.n_chars <= n_chars' BY <1>5, <1>8, <1>9, <1>10
<1>12. Control' /\ Globals' BY <1>1, <1>5, <1>6, <1>8, <1>9 DEF IInv, Control, Globals, Pcs
<1>13. c_buf_p' <= n_chars' BY <1>5, <1>8
<1>14. QED BY <1>1, <1>8, <1>10, <1>11, <1>12, <1>13, Rewritten

LEMMA InputEndInv ==
  ASSUME IInv, InputEnd
  PROVE  IInv'
PROOF
<1>1. Restart(yyin) /\ pc' = "input" /\ init /\ UNCHANGED <<made, stack, top, switched, init, at>>
  BY DEF InputEnd, Inputs, history
<1>2. Control' BY <1>1 DEF IInv, Control, Pcs
<1>3. QED BY <1>1, <1>2, RestartKeeps DEF IInv, Globals

LEMMA InputMoreInv ==
  ASSUME IInv, NEW f \in Files, InputMore(f)
  PROVE  IInv'
PROOF
<1>1. /\ pc = "input" /\ Current # NULL /\ pc' = "again"
      /\ UNCHANGED <<made, stack, top, switched, init, at>>
  BY DEF InputMore, history
<1>2. Control' BY <1>1 DEF IInv, Control, Pcs
<1>3. c_buf_p <= n_chars BY <1>1, InText
<1>4. CASE switched /\ UNCHANGED <<buf, globals>>
  <2>1. Globals' BY <1>4 DEF IInv, Globals, globals
  <2>2. QED BY <1>1, <1>2, <1>3, <1>4, <2>1, Repositioned DEF globals
<1>5. CASE Restart(f)
  BY <1>1, <1>2, <1>5, RestartKeeps
<1>6. CASE yyin' = f /\ UNCHANGED <<buf, c_buf_p, n_chars, hold_char, text_ptr>>
  <2>1. Globals' BY <1>6 DEF IInv, Globals
  <2>2. QED BY <1>1, <1>2, <1>3, <1>6, <2>1, Repositioned
<1>7. QED BY <1>4, <1>5, <1>6 DEF InputMore, NewFile

----------------------------------------------------------------------------
(* The theorem                                                             *)

LEMMA BuffersInit == Init => IInv
PROOF
<1> SUFFICES ASSUME Init PROVE IInv OBVIOUS
<1>1. /\ buf = [h \in Handles |-> NULL] /\ made = {} /\ stack = <<>> /\ top = 1
      /\ c_buf_p = 0 /\ n_chars = 0 /\ hold_char = NUL /\ text_ptr = 0 /\ yyin = NULL
      /\ switched = FALSE /\ init = FALSE /\ pc = "user" /\ at = [f \in Files |-> 0]
  BY DEF Init
<1>2. Current = NULL /\ Live = {} BY <1>1 DEF Current, Live
<1>3. Control /\ Globals BY <1>1, MarksFit DEF Control, Globals, Pcs
<1>4. Objects BY <1>1, <1>2 DEF Objects
<1>5. Stacked /\ Texts /\ Below /\ Positioned
  BY <1>1, <1>2 DEF Stacked, Texts, Below, Positioned
<1>6. QED BY <1>3, <1>4, <1>5 DEF IInv

LEMMA UserInv == IInv /\ User => IInv'
PROOF
<1> SUFFICES ASSUME IInv, User PROVE IInv' OBVIOUS
<1>1. ASSUME NEW h \in Handles, yy_switch_to_buffer(h) PROVE IInv' BY <1>1, SwitchInv
<1>2. ASSUME NEW h \in Handles, yypush_buffer_state(h) PROVE IInv' BY <1>2, PushInv
<1>3. ASSUME NEW h \in Handles, yy_delete_buffer(h) PROVE IInv' BY <1>3, DeleteInv
<1>4. ASSUME NEW h \in Handles, yy_flush_buffer(h) PROVE IInv' BY <1>4, FlushInv
<1>5. ASSUME NEW h \in Handles, NEW f \in Files, Create(h, f) PROVE IInv' BY <1>5, CreateInv
<1>6. ASSUME NEW h \in Handles, NEW f \in Files, RestartNew(h, f) PROVE IInv'
  BY <1>6, RestartNewInv
<1>7. ASSUME NEW h \in Handles, NEW n \in Strings, Scan(h, n) PROVE IInv' BY <1>7, ScanInv
<1>8. ASSUME NEW f \in Files, yyrestart(f) PROVE IInv' BY <1>8, RestartInv
<1>9. CASE yypop_buffer_state BY <1>9, PopInv
<1>10. CASE yylex_destroy BY <1>10, DestroyInv
<1>11. QED
  BY <1>1, <1>2, <1>3, <1>4, <1>5, <1>6, <1>7, <1>8, <1>9, <1>10 DEF User

LEMMA ScannerInv == IInv /\ (Scanner \/ Wrap) => IInv'
PROOF
<1> SUFFICES ASSUME IInv, Scanner \/ Wrap PROVE IInv' OBVIOUS
<1>1. CASE FirstCall BY <1>1, FirstCallInv
<1>2. ASSUME NEW k \in 1 .. n_chars, Token(k) PROVE IInv'
  <2>1. k \in Nat BY DEF IInv, Globals
  <2>2. QED BY <1>2, <2>1, TokenInv
<1>3. ASSUME NEW f \in Files, yyin = f, NEW r \in 1 .. Lengths[f], Refill(r) \/ InputRefill(r)
      PROVE IInv'
  <2>1. r \in Nat /\ r > 0 BY BuffersAssumption
  <2>2. QED BY <1>3, <2>1, RefillInv, InputRefillInv
<1>4. CASE EndOfFile \/ EndMissed BY <1>4, EndOfFileInv, EndMissedInv
<1>5. CASE InputChar BY <1>5, InputCharInv
<1>6. CASE InputEnd BY <1>6, InputEndInv
<1>7. CASE WrapDone BY <1>7, WrapDoneInv
<1>8. CASE InputDone BY <1>8, InputDoneInv
<1>9. ASSUME NEW f \in Files, WrapMore(f) \/ InputMore(f) PROVE IInv'
  BY <1>9, WrapMoreInv, InputMoreInv
<1>10. QED
  BY <1>1, <1>2, <1>3, <1>4, <1>5, <1>6, <1>7, <1>8, <1>9 DEF Scanner, Wrap

LEMMA Stutter == IInv /\ UNCHANGED vars => IInv'
PROOF
<1> SUFFICES ASSUME IInv, UNCHANGED vars PROVE IInv' OBVIOUS
<1>1. UNCHANGED <<buf, made, stack, top, c_buf_p, n_chars, hold_char, text_ptr, yyin, switched,
                  init, pc, at>>
  BY DEF vars, globals, history
<1>2. Current' = Current /\ Live' = Live BY <1>1 DEF Current, Live
<1>3. Control' /\ Globals' BY <1>1 DEF IInv, Control, Globals
<1>4. Objects' /\ Stacked' /\ Texts' /\ Below' /\ Positioned'
  BY <1>1, <1>2 DEF IInv, Objects, Stacked, Texts, Below, Positioned, Ended
<1>5. QED BY <1>3, <1>4 DEF IInv

LEMMA BuffersStep == IInv /\ [Next]_vars => IInv'
BY UserInv, ScannerInv, Stutter DEF Next

LEMMA MissedInit == Init => Missed
BY DEF Init, Missed

\* Only one step stops the program.
LEMMA MissedStep == IInv /\ Missed /\ [Next]_vars => Missed'
PROOF
<1> SUFFICES ASSUME IInv, Missed, [Next]_vars PROVE Missed' OBVIOUS
<1>1. CASE UNCHANGED vars BY <1>1 DEF vars, globals, Missed, Current, Count
<1>2. CASE EndMissed
  <2>1. Current # NULL /\ init /\ c_buf_p <= n_chars /\ Max({c_buf_p, n_chars}) > Count
    BY <1>2, InText DEF EndMissed, Scanning
  <2>2. Max({c_buf_p, n_chars}) = n_chars BY <2>1, LargerIs DEF IInv, Globals
  <2>3. Count < n_chars BY <2>1, <2>2, CountFits
  <2>4. buf[Current].new /\ buf[Current].fill
    BY <2>1, <2>3 DEF Count, IInv, Positioned, Globals
  <2>5. QED BY <1>2, <2>1, <2>3, <2>4 DEF EndMissed, globals, Missed, Current, Count
<1>3. ASSUME User PROVE pc' # "fatal"
  <2>1. Users /\ pc' = pc
    BY <1>3 DEF User, yy_switch_to_buffer, yypush_buffer_state, yy_delete_buffer, yy_flush_buffer,
      Create, RestartNew, Scan, yyrestart, yypop_buffer_state, yylex_destroy, Users
  <2>2. QED BY <2>1 DEF Users
<1>4. ASSUME Scanner \/ Wrap, ~EndMissed PROVE pc' # "fatal"
  BY <1>4 DEF Scanner, Wrap, FirstCall, Token, Refill, InputRefill, EndOfFile, InputChar, InputEnd,
    WrapDone, InputDone, WrapMore, InputMore
<1>5. QED BY <1>1, <1>2, <1>3, <1>4 DEF Next, Missed

LEMMA Sound == IInv /\ Missed => BuffersTypeOK
PROOF
<1> SUFFICES ASSUME IInv, Missed PROVE BuffersTypeOK OBVIOUS
<1>1. pc \in Pcs /\ buf \in [Handles -> Buffer \cup {NULL}] /\ Live \subseteq made
  BY DEF IInv, Control, Objects
<1>2. OnStack \subseteq Live BY DEF OnStack, Range, IInv, Stacked
<1>3. stack # <<>> => top \in DOMAIN stack BY DEF IInv, Stacked
<1>4. \A i, j \in DOMAIN stack : stack[i] # NULL => i <= top /\ (stack[i] = stack[j] => i = j)
  BY DEF IInv, Stacked
<1>5. \A h \in Live \ {Current} : /\ Len(buf[h].ch) = buf[h].n_chars + 2
                                  /\ buf[h].pos <= buf[h].n_chars + 1
  BY DEF IInv, Texts, Ended
<1>6. Current # NULL => /\ Len(buf[Current].ch) = n_chars + 2 /\ c_buf_p <= n_chars + 1
                        /\ buf[Current].n_chars <= n_chars
                        /\ ~init \/ ~buf[Current].fill => buf[Current].n_chars = n_chars
  BY DEF IInv, Positioned, Globals
<1>7. Scanning => c_buf_p <= n_chars BY InText DEF Scanning
<1>8. QED BY <1>1, <1>2, <1>3, <1>4, <1>5, <1>6, <1>7 DEF BuffersTypeOK, Pcs, Missed

\* Whatever the user's actions and yywrap() do with buffers, as long as they keep
\* to the rules: the stack of yyensure_buffer_stack() holds no buffer twice, none
\* that has been deleted and none above its top, and no position leaves its text.
\* The scanner gets to "end of buffer missed" only in a buffer that yylex() has
\* not begun and input() has read on in, whose own count is then too small.
THEOREM BuffersSound == Spec => []BuffersTypeOK
PROOF
<1>1. Init => IInv /\ Missed BY BuffersInit, MissedInit
<1>2. IInv /\ Missed /\ [Next]_vars => IInv' /\ Missed' BY BuffersStep, MissedStep
<1>3. IInv /\ Missed => BuffersTypeOK BY Sound
<1>4. QED BY <1>1, <1>2, <1>3, PTL DEF Spec

----------------------------------------------------------------------------
(* What came through the buffers, as functions of the handles              *)

\* A character that was read from a file, or belongs to a text in memory.
From(c, A, M) ==
  \E s \in Sources, n \in Nat : c = <<s, n>> /\ IF s \in Files THEN 1 <= n /\ n <= A[s] ELSE s \in M

Known(T, D, A, M) ==
  /\ \A h \in Handles : \A i \in DOMAIN T[h] : From(T[h][i], A, M)
  /\ \A c \in D : From(c, A, M)
Present(T, D, s, i) ==
  <<s, i>> \in D \/ \E h \in Handles : \E k \in DOMAIN T[h] : T[h][k] = <<s, i>>
Complete(T, D, V) == \A s \in Sources : \A i \in Nat : 1 <= i /\ i <= V[s] => Present(T, D, s, i)
Apart(T, D) == \A h \in Handles : \A i \in DOMAIN T[h] : T[h][i] \notin D
Once(T) ==
  \A g, h \in Handles : \A i \in DOMAIN T[g], j \in DOMAIN T[h] : T[g][i] = T[h][j] => g = h /\ i = j
Ordered(T) ==
  \A h \in Handles : \A i, j \in DOMAIN T[h] : i < j /\ T[h][i][1] = T[h][j][1] => T[h][i][2] < T[h][j][2]

Kept(T, D, A, M, V) ==
  /\ T \in [Handles -> Seq(Chars)]
  /\ V \in [Sources -> Nat]
  /\ Known(T, D, A, M) /\ Complete(T, D, V) /\ Apart(T, D) /\ Once(T) /\ Ordered(T)

Streams == [h \in Handles |-> Through(h)]
Deliveries == [s \in Sources |-> Delivered(s)]
Account == Kept(Streams, dropped, at, made, Deliveries)

LEMMA T1 ==
  ASSUME Account, Streams' = Streams, dropped' = dropped, at' = at, made' = made, Deliveries' = Deliveries
  PROVE Account'
BY DEF Account

\* Nothing moves.
LEMMA KeepsSame ==
  ASSUME NEW T, NEW D, NEW A, NEW M, NEW V, NEW N, NEW W,
         Kept(T, D, A, M, V), M \subseteq N, W \in [Sources -> Nat],
         \A s \in Sources : W[s] <= V[s]
  PROVE  Kept(T, D, A, N, W)
PROOF
<1>1. \A c : From(c, A, M) => From(c, A, N) BY DEF From
<1>2. Known(T, D, A, N) BY <1>1 DEF Kept, Known
<1>3. Complete(T, D, W)
  <2> SUFFICES ASSUME NEW s \in Sources, NEW i \in Nat, 1 <= i, i <= W[s] PROVE Present(T, D, s, i)
    BY DEF Complete
  <2>1. W[s] \in Nat /\ V[s] \in Nat /\ W[s] <= V[s] BY DEF Kept
  <2>2. i <= V[s] BY <2>1
  <2>3. QED BY <2>2 DEF Kept, Complete
<1>4. QED BY <1>2, <1>3 DEF Kept

\* What waits in some buffers is discarded.
LEMMA KeepsDropped ==
  ASSUME NEW T, NEW D, NEW A, NEW M, NEW V, NEW U, NEW E, NEW W,
         Kept(T, D, A, M, V), U \in [Handles -> Seq(Chars)], W \in [Sources -> Nat],
         \A s \in Sources : W[s] <= V[s],
         \A h \in Handles : Len(U[h]) <= Len(T[h]) /\ \A i \in DOMAIN U[h] : U[h][i] = T[h][i],
         \A c : c \in E <=> c \in D \/ \E h \in Handles : \E i \in DOMAIN T[h] :
                                         i > Len(U[h]) /\ c = T[h][i]
  PROVE  Kept(U, E, A, M, W)
PROOF
<1>1. \A h \in Handles : /\ T[h] \in Seq(Chars) /\ U[h] \in Seq(Chars)
                         /\ DOMAIN T[h] = 1 .. Len(T[h]) /\ DOMAIN U[h] = 1 .. Len(U[h])
                         /\ Len(T[h]) \in Nat /\ Len(U[h]) \in Nat
  BY DEF Kept
<1>2. \A h \in Handles : \A i \in DOMAIN U[h] : i \in DOMAIN T[h] /\ U[h][i] = T[h][i] /\ i <= Len(U[h])
  BY <1>1
<1>3. \A h \in Handles : \A i \in DOMAIN T[h] : i > Len(U[h]) \/ i \in DOMAIN U[h]
  BY <1>1
<1>4. Known(U, E, A, M)
  <2>1. \A h \in Handles : \A i \in DOMAIN U[h] : From(U[h][i], A, M) BY <1>2 DEF Kept, Known
  <2>2. \A c \in E : From(c, A, M) BY DEF Kept, Known
  <2>3. QED BY <2>1, <2>2 DEF Known
<1>5. Complete(U, E, W)
  <2> SUFFICES ASSUME NEW s \in Sources, NEW i \in Nat, 1 <= i, i <= W[s] PROVE Present(U, E, s, i)
    BY DEF Complete
  <2>1. W[s] \in Nat /\ V[s] \in Nat /\ W[s] <= V[s] BY DEF Kept
  <2>2. Present(T, D, s, i) BY <2>1 DEF Kept, Complete
  <2>3. CASE <<s, i>> \in D BY <2>3 DEF Present
  <2>4. ASSUME NEW h \in Handles, NEW k \in DOMAIN T[h], T[h][k] = <<s, i>>
        PROVE  Present(U, E, s, i)
    <3>1. CASE k > Len(U[h]) BY <2>4, <3>1 DEF Present
    <3>2. CASE k \in DOMAIN U[h] BY <1>2, <2>4, <3>2 DEF Present
    <3>3. QED BY <1>3, <3>1, <3>2
  <2>5. QED BY <2>2, <2>3, <2>4 DEF Present
<1>6. Apart(U, E)
  <2> SUFFICES ASSUME NEW h \in Handles, NEW i \in DOMAIN U[h], U[h][i] \in E PROVE FALSE
    BY DEF Apart
  <2>1. i \in DOMAIN T[h] /\ U[h][i] = T[h][i] /\ i <= Len(U[h]) BY <1>2
  <2>2. T[h][i] \notin D BY <2>1 DEF Kept, Apart
  <2>3. PICK g \in Handles : \E j \in DOMAIN T[g] : j > Len(U[g]) /\ U[h][i] = T[g][j]
    BY <2>1, <2>2
  <2>4. PICK j \in DOMAIN T[g] : j > Len(U[g]) /\ U[h][i] = T[g][j] BY <2>3
  <2>5. g = h /\ j = i BY <2>1, <2>4 DEF Kept, Once
  <2>6. i \in Nat /\ Len(U[h]) \in Nat BY <1>1, <2>1
  <2>7. QED BY <2>1, <2>4, <2>5, <2>6
<1>7. Once(U) BY <1>2 DEF Kept, Once
<1>8. Ordered(U) BY <1>2 DEF Kept, Ordered
<1>9. QED BY <1>4, <1>5, <1>6, <1>7, <1>8 DEF Kept

\* The next n characters of the source s, behind its first a, come into h.
Grown(T, U, h, s, a, n) ==
  /\ U \in [Handles -> Seq(Chars)]
  /\ \A g \in Handles : g # h => U[g] = T[g]
  /\ Len(U[h]) = Len(T[h]) + n
  /\ \A i \in DOMAIN T[h] : U[h][i] = T[h][i]
  /\ \A i \in 1 .. n : U[h][Len(T[h]) + i] = <<s, a + i>>
Admits(A, M, B, N, s, a, n) ==
  /\ \A c : From(c, A, M) => From(c, B, N)
  /\ \A m \in Nat : From(<<s, m>>, A, M) => m <= a
  /\ \A m \in Nat : a < m /\ m <= a + n => From(<<s, m>>, B, N)
Raised(V, W, s, a, n) ==
  /\ W \in [Sources -> Nat]
  /\ \A i \in Nat : i <= W[s] => i <= V[s] \/ (a < i /\ i <= a + n)
  /\ \A t \in Sources : t # s => W[t] <= V[t]

LEMMA KeepsGrown ==
  ASSUME NEW T, NEW D, NEW A, NEW M, NEW V, NEW U, NEW B, NEW N, NEW W,
         NEW h \in Handles, NEW s \in Sources, NEW a \in Nat, NEW n \in Nat,
         Kept(T, D, A, M, V),
         Grown(T, U, h, s, a, n), Admits(A, M, B, N, s, a, n), Raised(V, W, s, a, n)
  PROVE  Kept(U, D, B, N, W)
PROOF
<1> USE DEF Grown, Admits, Raised
<1>1. \A g \in Handles : /\ T[g] \in Seq(Chars) /\ U[g] \in Seq(Chars)
                         /\ DOMAIN T[g] = 1 .. Len(T[g]) /\ DOMAIN U[g] = 1 .. Len(U[g])
                         /\ Len(T[g]) \in Nat /\ Len(U[g]) \in Nat
  BY DEF Kept
<1> DEFINE l == Len(T[h])
           Old(g, i) == i \in DOMAIN T[g] /\ U[g][i] = T[g][i] /\ From(T[g][i], A, M)
           New(g, i) == /\ g = h /\ i \in Nat /\ l < i /\ i - l \in 1 .. n
                        /\ U[h][i] = <<s, a + (i - l)>>
                        /\ ~From(U[h][i], A, M) /\ From(U[h][i], B, N)
<1>2. \A g \in Handles : \A i \in DOMAIN U[g] : Old(g, i) \/ New(g, i)
  <2> SUFFICES ASSUME NEW g \in Handles, NEW i \in DOMAIN U[g] PROVE Old(g, i) \/ New(g, i)
    OBVIOUS
  <2>1. CASE i \in DOMAIN T[g]
    <3>1. U[g][i] = T[g][i] BY <2>1
    <3>2. From(T[g][i], A, M) BY <2>1 DEF Kept, Known
    <3>3. QED BY <2>1, <3>1, <3>2
  <2>2. CASE i \notin DOMAIN T[g]
    <3>1. g = h BY <2>2
    <3>2. i \in Nat /\ l < i /\ i <= l + n /\ l \in Nat BY <1>1, <2>2, <3>1
    <3>3. i - l \in 1 .. n /\ l + (i - l) = i BY <3>2
    <3>4. U[h][i] = <<s, a + (i - l)>> BY <3>3
    <3>5. a + (i - l) \in Nat /\ a < a + (i - l) /\ a + (i - l) <= a + n BY <3>3
    <3>6. ~From(U[h][i], A, M) /\ From(U[h][i], B, N) BY <3>4, <3>5
    <3>7. QED BY <3>1, <3>2, <3>3, <3>4, <3>6
  <2>3. QED BY <2>1, <2>2
<1>3. Known(U, D, B, N)
  <2>1. \A g \in Handles : \A i \in DOMAIN U[g] : From(U[g][i], B, N) BY <1>2
  <2>2. \A c \in D : From(c, B, N) BY DEF Kept, Known
  <2>3. QED BY <2>1, <2>2 DEF Known
<1>4. \A g \in Handles : \A i \in DOMAIN T[g] : i \in DOMAIN U[g] /\ U[g][i] = T[g][i]
  <2> SUFFICES ASSUME NEW g \in Handles, NEW i \in DOMAIN T[g]
               PROVE  i \in DOMAIN U[g] /\ U[g][i] = T[g][i]
    OBVIOUS
  <2>1. CASE g = h BY <1>1, <2>1
  <2>2. CASE g # h BY <2>2
  <2>3. QED BY <2>1, <2>2
<1>5. \A t \in Sources : \A i \in Nat : Present(T, D, t, i) => Present(U, D, t, i)
  BY <1>4 DEF Present
<1>6. Complete(U, D, W)
  <2> SUFFICES ASSUME NEW t \in Sources, NEW i \in Nat, 1 <= i, i <= W[t] PROVE Present(U, D, t, i)
    BY DEF Complete
  <2>1. CASE i <= V[t]
    <3>1. Present(T, D, t, i) BY <2>1 DEF Kept, Complete
    <3>2. QED BY <1>5, <3>1
  <2>2. CASE ~(i <= V[t])
    <3>1. t = s
      <4>1. W[t] \in Nat /\ V[t] \in Nat BY DEF Kept
      <4>2. QED BY <2>2, <4>1
    <3>2. a < i /\ i <= a + n BY <2>2, <3>1
    <3>3. i - a \in 1 .. n /\ a + (i - a) = i BY <3>2
    <3>4. U[h][l + (i - a)] = <<s, i>> BY <3>3
    <3>5. l + (i - a) \in DOMAIN U[h] BY <1>1, <3>3
    <3>6. QED BY <3>1, <3>4, <3>5 DEF Present
  <2>3. QED BY <2>1, <2>2
<1>7. Apart(U, D)
  <2> SUFFICES ASSUME NEW g \in Handles, NEW i \in DOMAIN U[g], U[g][i] \in D PROVE FALSE
    BY DEF Apart
  <2>1. From(U[g][i], A, M) BY DEF Kept, Known
  <2>2. Old(g, i) BY <1>2, <2>1
  <2>3. QED BY <2>2 DEF Kept, Apart
<1>8. Once(U)
  <2> SUFFICES ASSUME NEW g \in Handles, NEW k \in Handles, NEW i \in DOMAIN U[g], NEW j \in DOMAIN U[k],
                      U[g][i] = U[k][j]
               PROVE  g = k /\ i = j
    BY DEF Once
  <2>1. CASE Old(g, i) /\ Old(k, j)
    <3>1. i \in DOMAIN T[g] /\ j \in DOMAIN T[k] /\ T[g][i] = T[k][j] BY <2>1
    <3>2. Once(T) BY DEF Kept
    <3> HIDE DEF Old
    <3>3. QED BY <3>1, <3>2 DEF Once
  <2>2. CASE Old(g, i) /\ New(k, j) BY <2>2
  <2>3. CASE New(g, i) /\ Old(k, j) BY <2>3
  <2>4. CASE New(g, i) /\ New(k, j)
    <3>1. g = k /\ l \in Nat BY <1>1, <2>4
    <3>2. <<s, a + (i - l)>> = <<s, a + (j - l)>> BY <2>4
    <3>3. a + (i - l) = a + (j - l) BY <3>2
    <3>4. i \in Nat /\ j \in Nat BY <2>4
    <3>5. i = j BY ONLY <3>1, <3>3, <3>4, a \in Nat
    <3>6. QED BY <3>1, <3>5
  <2>5. QED BY <1>2, <2>1, <2>2, <2>3, <2>4
<1>9. Ordered(U)
  <2> SUFFICES ASSUME NEW g \in Handles, NEW i \in DOMAIN U[g], NEW j \in DOMAIN U[g], i < j,
                      U[g][i][1] = U[g][j][1]
               PROVE  U[g][i][2] < U[g][j][2]
    BY DEF Ordered
  <2>0. i \in Nat /\ j \in Nat /\ l \in Nat BY <1>1
  <2>1. CASE Old(g, i) /\ Old(g, j) BY <2>1 DEF Kept, Ordered
  <2>2. CASE Old(g, i) /\ New(g, j)
    <3>1. PICK t \in Sources, m \in Nat : U[g][i] = <<t, m>> BY <2>2 DEF From
    <3>2. U[g][j] = <<s, a + (j - l)>> BY <2>2
    <3>3. t = s BY <3>1, <3>2
    <3>4. m <= a BY <2>2, <3>1, <3>3
    <3>5. j - l \in Nat /\ j - l >= 1 BY <2>2
    <3>6. QED BY <3>1, <3>2, <3>4, <3>5
  <2>3. CASE New(g, i) /\ Old(g, j)
    <3>1. l < i /\ g = h BY <2>3
    <3>2. j <= l BY <1>1, <2>3, <3>1
    <3>3. QED BY <2>0, <3>1, <3>2
  <2>4. CASE New(g, i) /\ New(g, j)
    <3>1. U[g][i] = <<s, a + (i - l)>> /\ U[g][j] = <<s, a + (j - l)>> BY <2>4
    <3>2. a + (i - l) < a + (j - l)
      <4>1. \A w, x, y, z \in Int : x < y => w + (x - z) < w + (y - z) OBVIOUS
      <4> HIDE DEF l
      <4>2. a \in Int /\ i \in Int /\ j \in Int /\ l \in Int /\ i < j BY <2>0
      <4>3. QED BY ONLY <4>1, <4>2
    <3>3. QED BY <3>1, <3>2
  <2>5. QED BY <1>2, <2>1, <2>2, <2>3, <2>4
<1>10. QED BY <1>3, <1>6, <1>7, <1>8, <1>9 DEF Kept

----------------------------------------------------------------------------
(* The invariant behind Conserved, and the kinds of step that keep it      *)

\* What waits in a buffer that is not the current one.
Stored(b) == SubSeq(b.ch, b.pos + 1, b.n_chars)

\* Before the first call of yylex() nothing has changed since the buffer was
\* loaded.
Loaded ==
  Current # NULL /\ ~init =>
    c_buf_p = buf[Current].pos /\ hold_char = buf[Current].ch[c_buf_p + 1]

\* In yywrap() nothing waits in the buffer, or another one has been loaded: to
\* restart the buffer, or to go back to yytext_ptr, loses nothing.
Idle ==
  Current # NULL =>
    /\ pc \in {"yywrap", "input"} /\ ~switched => c_buf_p >= n_chars
    /\ pc = "yywrap" => IF switched THEN text_ptr = c_buf_p ELSE text_ptr >= n_chars

CInv == taken \in [Handles -> Seq(Chars)] /\ Loaded /\ Idle /\ Account

\* No text in memory becomes longer.
Shrinks(h) ==
  buf'[h] # NULL /\ ~buf'[h].fill =>
    buf[h] # NULL /\ ~buf[h].fill /\ buf'[h].n_chars <= buf[h].n_chars

LEMMA NextDeliveries ==
  ASSUME IInv'
  PROVE  /\ Deliveries' \in [Sources -> Nat]
         /\ \A f \in Files : Deliveries'[f] = at'[f]
         /\ \A h \in Handles : Deliveries'[h] =
              IF buf'[h] # NULL /\ ~buf'[h].fill THEN buf'[h].n_chars ELSE 0
PROOF
<1>1. at' \in [Files -> Nat] /\ buf' \in [Handles -> Buffer \cup {NULL}]
  BY DEF IInv, Control, Objects
<1>2. \A h \in Handles : h \notin Files BY BuffersAssumption
<1>3. \A h \in Handles : buf'[h] # NULL => buf'[h].n_chars \in Nat BY <1>1 DEF Buffer
<1>4. \A s \in Sources : Delivered(s)' \in Nat BY <1>1, <1>3 DEF Delivered, Sources
<1>5. QED BY <1>2, <1>4 DEF Deliveries, Delivered, Sources

LEMMA DeliveriesAre ==
  /\ \A f \in Files : Deliveries[f] = at[f]
  /\ \A h \in Handles : Deliveries[h] = IF buf[h] # NULL /\ ~buf[h].fill THEN buf[h].n_chars ELSE 0
PROOF
<1>1. \A h \in Handles : h \notin Files BY BuffersAssumption
<1>2. QED BY <1>1 DEF Deliveries, Delivered, Sources

LEMMA Fewer ==
  ASSUME IInv', NEW h \in Handles, Shrinks(h), Account
  PROVE  Deliveries'[h] <= Deliveries[h]
PROOF
<1>1. Deliveries'[h] = IF buf'[h] # NULL /\ ~buf'[h].fill THEN buf'[h].n_chars ELSE 0
  BY NextDeliveries
<1>2. Deliveries[h] = IF buf[h] # NULL /\ ~buf[h].fill THEN buf[h].n_chars ELSE 0
  BY DeliveriesAre
<1>3. Deliveries[h] \in Nat BY DEF Account, Kept, Sources
<1>4. QED BY <1>1, <1>2, <1>3 DEF Shrinks

\* Nothing of what has come through any buffer changes.
LEMMA AllStays ==
  ASSUME IInv', Account, at' = at, dropped' = dropped, made \subseteq made',
         \A h \in Handles : Through(h)' = Through(h) /\ Shrinks(h)
  PROVE  Account'
PROOF
<1>1. Streams' = Streams BY DEF Streams
<1>2. Deliveries' \in [Sources -> Nat] BY NextDeliveries
<1>3. \A s \in Sources : Deliveries'[s] <= Deliveries[s]
  <2>1. \A f \in Files : Deliveries'[f] <= Deliveries[f]
    <3>1. \A f \in Files : Deliveries'[f] = Deliveries[f] BY NextDeliveries, DeliveriesAre
    <3>2. \A f \in Files : Deliveries[f] \in Nat BY DEF Account, Kept, Sources
    <3>3. QED BY <3>1, <3>2
  <2>2. \A h \in Handles : Deliveries'[h] <= Deliveries[h] BY Fewer
  <2>3. QED BY <2>1, <2>2 DEF Sources
<1>4. Kept(Streams, dropped, at, made', Deliveries') BY <1>2, <1>3, KeepsSame DEF Account
<1>5. QED BY <1>1, <1>4 DEF Account

LEMMA Appended ==
  ASSUME NEW s \in Seq(Chars), NEW t \in Seq(Chars)
  PROVE  /\ s \o t \in Seq(Chars) /\ Len(s \o t) = Len(s) + Len(t)
         /\ \A i \in DOMAIN s : (s \o t)[i] = s[i]
         /\ \A i \in 1 .. Len(t) : (s \o t)[Len(s) + i] = t[i]
         /\ \A i \in DOMAIN (s \o t) : i > Len(s) => i - Len(s) \in DOMAIN t
OBVIOUS

\* What waits in the buffers hs is discarded.
LEMMA SomeDropped ==
  ASSUME IInv', taken \in [Handles -> Seq(Chars)], Account,
         NEW hs \in SUBSET Live, Discard(hs), UNCHANGED <<made, at, taken>>,
         \A h \in Handles : Rest(h) \in Seq(Chars),
         \A h \in Handles : Rest(h)' = IF h \in hs THEN <<>> ELSE Rest(h),
         \A h \in Handles : Shrinks(h)
  PROVE  Account'
PROOF
<1> DEFINE U == [h \in Handles |-> Through(h)']
<1>1. Streams' = U BY DEF Streams
<1>2. \A h \in Handles : /\ Streams[h] = taken[h] \o Rest(h)
                         /\ U[h] = IF h \in hs THEN taken[h] ELSE Streams[h]
  <2> SUFFICES ASSUME NEW h \in Handles
               PROVE  /\ Streams[h] = taken[h] \o Rest(h)
                      /\ U[h] = IF h \in hs THEN taken[h] ELSE Streams[h]
    OBVIOUS
  <2>1. Streams[h] = taken[h] \o Rest(h) BY DEF Streams, Through
  <2>2. U[h] = taken[h] \o Rest(h)' BY DEF Through
  <2>3. taken[h] \o <<>> = taken[h]
    <3>1. taken[h] \in Seq(Chars) OBVIOUS
    <3>2. QED BY <3>1
  <2>4. QED BY <2>1, <2>2, <2>3
<1> HIDE DEF U
<1>3. \A h \in Handles : /\ taken[h] \in Seq(Chars)
                         /\ Streams[h] \in Seq(Chars) /\ Len(Streams[h]) = Len(taken[h]) + Len(Rest(h))
                         /\ \A i \in DOMAIN taken[h] : Streams[h][i] = taken[h][i]
                         /\ \A i \in 1 .. Len(Rest(h)) : Streams[h][Len(taken[h]) + i] = Rest(h)[i]
                         /\ \A i \in DOMAIN Streams[h] : i > Len(taken[h]) => i - Len(taken[h]) \in DOMAIN Rest(h)
  <2> SUFFICES ASSUME NEW h \in Handles
               PROVE  /\ taken[h] \in Seq(Chars)
                      /\ Streams[h] \in Seq(Chars) /\ Len(Streams[h]) = Len(taken[h]) + Len(Rest(h))
                      /\ \A i \in DOMAIN taken[h] : Streams[h][i] = taken[h][i]
                      /\ \A i \in 1 .. Len(Rest(h)) : Streams[h][Len(taken[h]) + i] = Rest(h)[i]
                      /\ \A i \in DOMAIN Streams[h] : i > Len(taken[h]) => i - Len(taken[h]) \in DOMAIN Rest(h)
    OBVIOUS
  <2>1. taken[h] \in Seq(Chars) /\ Rest(h) \in Seq(Chars) OBVIOUS
  <2>2. Streams[h] = taken[h] \o Rest(h) BY <1>2
  <2>3. QED BY ONLY <2>1, <2>2, Appended
<1>4. U \in [Handles -> Seq(Chars)]
  <2>1. U = [h \in Handles |-> U[h]] BY DEF U
  <2>2. \A h \in Handles : U[h] \in Seq(Chars) BY <1>2, <1>3
  <2>3. QED BY <2>1, <2>2
<1>5. \A h \in Handles : Len(U[h]) <= Len(Streams[h]) /\ \A i \in DOMAIN U[h] : U[h][i] = Streams[h][i]
  <2> SUFFICES ASSUME NEW h \in Handles
               PROVE  Len(U[h]) <= Len(Streams[h]) /\ \A i \in DOMAIN U[h] : U[h][i] = Streams[h][i]
    OBVIOUS
  <2>1. CASE h \in hs
    <3>1. U[h] = taken[h] BY <1>2, <2>1
    <3>2. Len(taken[h]) \in Nat /\ Len(Rest(h)) \in Nat BY <1>3
    <3>3. Len(taken[h]) <= Len(Streams[h]) BY <1>3, <3>2
    <3>4. QED BY <1>3, <3>1, <3>3
  <2>2. CASE h \notin hs
    <3>1. U[h] = Streams[h] BY <1>2, <2>2
    <3>2. Len(Streams[h]) \in Nat BY <1>3
    <3>3. QED BY <3>1, <3>2
  <2>3. QED BY <2>1, <2>2
<1>6. \A s \in Sources : Deliveries'[s] <= Deliveries[s]
  <2>1. \A f \in Files : Deliveries'[f] <= Deliveries[f]
    <3>1. \A f \in Files : Deliveries'[f] = Deliveries[f] BY NextDeliveries, DeliveriesAre
    <3>2. \A f \in Files : Deliveries[f] \in Nat BY DEF Account, Kept, Sources
    <3>3. QED BY <3>1, <3>2
  <2>2. \A h \in Handles : Deliveries'[h] <= Deliveries[h] BY Fewer
  <2>3. QED BY <2>1, <2>2 DEF Sources
<1>7. \A c : c \in dropped' <=> c \in dropped \/ \E h \in Handles : \E i \in DOMAIN Streams[h] :
                                                   i > Len(U[h]) /\ c = Streams[h][i]
  <2>1. dropped' = dropped \cup UNION {Range(Waiting(h)) : h \in hs} BY DEF Discard
  <2>2. \A h \in hs : h \in Handles /\ Waiting(h) = Rest(h) BY DEF Rest, Live
  <2>3. \A c : c \in dropped' <=> c \in dropped \/ \E h \in hs : \E k \in DOMAIN Rest(h) : c = Rest(h)[k]
    BY <2>1, <2>2 DEF Range
  <2>4. ASSUME NEW c, NEW h \in hs, NEW k \in DOMAIN Rest(h), c = Rest(h)[k]
        PROVE  \E i \in DOMAIN Streams[h] : i > Len(U[h]) /\ c = Streams[h][i]
    <3>1. h \in Handles /\ U[h] = taken[h] BY <1>2, <2>2
    <3>2. k \in 1 .. Len(Rest(h)) BY <3>1
    <3>3. Len(taken[h]) \in Nat /\ Len(Rest(h)) \in Nat BY <1>3, <3>1
    <3>4. Streams[h][Len(taken[h]) + k] = c BY <1>3, <2>4, <3>1, <3>2
    <3>5. Len(taken[h]) + k \in 1 .. Len(Streams[h]) BY <1>3, <3>1, <3>2, <3>3
    <3>6. Len(taken[h]) + k \in DOMAIN Streams[h] BY <1>3, <3>1, <3>5
    <3>7. Len(taken[h]) + k > Len(U[h]) BY <3>1, <3>2, <3>3
    <3>8. QED BY <3>4, <3>6, <3>7
  <2>5. ASSUME NEW c, NEW h \in Handles, NEW i \in DOMAIN Streams[h], i > Len(U[h]), c = Streams[h][i]
        PROVE  h \in hs /\ \E k \in DOMAIN Rest(h) : c = Rest(h)[k]
    <3>1. i \in 1 .. Len(Streams[h]) /\ Len(Streams[h]) \in Nat BY <1>3
    <3>2. h \in hs /\ U[h] = taken[h] BY <1>2, <2>5, <3>1
    <3>3. i - Len(taken[h]) \in DOMAIN Rest(h) BY <1>3, <2>5, <3>2
    <3>4. i - Len(taken[h]) \in 1 .. Len(Rest(h)) /\ Len(taken[h]) \in Nat BY <1>3, <3>3
    <3>5. Streams[h][Len(taken[h]) + (i - Len(taken[h]))] = Rest(h)[i - Len(taken[h])] BY <1>3, <3>4
    <3>6. Len(taken[h]) + (i - Len(taken[h])) = i BY <3>1, <3>4
    <3>7. QED BY <2>5, <3>2, <3>3, <3>5, <3>6
  <2>6. ASSUME NEW c, c \in dropped'
        PROVE  c \in dropped \/ \E h \in Handles : \E i \in DOMAIN Streams[h] :
                                   i > Len(U[h]) /\ c = Streams[h][i]
    <3>1. CASE c \in dropped BY <3>1
    <3>2. ASSUME NEW h \in hs, NEW k \in DOMAIN Rest(h), c = Rest(h)[k]
          PROVE  \E g \in Handles : \E i \in DOMAIN Streams[g] : i > Len(U[g]) /\ c = Streams[g][i]
      BY <2>2, <2>4, <3>2
    <3>3. QED BY <2>3, <2>6, <3>1, <3>2
  <2>7. ASSUME NEW c, NEW h \in Handles, NEW i \in DOMAIN Streams[h], i > Len(U[h]), c = Streams[h][i]
        PROVE  c \in dropped'
    BY <2>3, <2>5, <2>7
  <2>8. \A c : c \in dropped => c \in dropped' BY <2>1
  <2>9. QED BY <2>6, <2>7, <2>8
<1>8. Kept(U, dropped', at, made, Deliveries')
  <2>1. Kept(Streams, dropped, at, made, Deliveries) BY DEF Account
  <2>2. Deliveries' \in [Sources -> Nat] BY NextDeliveries
  <2>3. QED BY <1>4, <1>5, <1>6, <1>7, <2>1, <2>2, KeepsDropped
<1>9. QED BY <1>1, <1>8 DEF Account

LEMMA StreamsGrow ==
  ASSUME Account, NEW h \in Handles, NEW s \in Sources, NEW a \in Nat, NEW n \in Nat, NEW r \in Seq(Chars),
         Len(r) = n, \A i \in 1 .. n : r[i] = <<s, a + i>>,
         Through(h)' = Through(h) \o r, \A g \in Handles : g # h => Through(g)' = Through(g)
  PROVE  Grown(Streams, Streams', h, s, a, n)
PROOF
<1> DEFINE U == [g \in Handles |-> Through(g)']
<1>1. Streams' = U BY DEF Streams
<1>2. U[h] = Streams[h] \o r /\ \A g \in Handles : g # h => U[g] = Streams[g] BY DEF Streams
<1>3. U = [g \in Handles |-> U[g]] OBVIOUS
<1>4. Streams \in [Handles -> Seq(Chars)] BY DEF Account, Kept
<1>5. Streams[h] \in Seq(Chars) BY <1>4
<1> HIDE DEF U
<1>6. /\ U[h] \in Seq(Chars) /\ Len(U[h]) = Len(Streams[h]) + n
      /\ \A i \in DOMAIN Streams[h] : U[h][i] = Streams[h][i]
      /\ \A i \in 1 .. n : U[h][Len(Streams[h]) + i] = r[i]
  <2>1. U[h] = Streams[h] \o r BY <1>2
  <2>2. r \in Seq(Chars) /\ Len(r) = n OBVIOUS
  <2> DEFINE c == Streams[h] \o r
  <2>3. /\ c \in Seq(Chars) /\ Len(c) = Len(Streams[h]) + Len(r)
        /\ \A i \in DOMAIN Streams[h] : c[i] = Streams[h][i]
        /\ \A i \in 1 .. Len(r) : c[Len(Streams[h]) + i] = r[i]
    BY ONLY <1>5, <2>2, Appended
  <2>4. U[h] = c BY <2>1
  <2> HIDE DEF c
  <2>5. QED BY <2>2, <2>3, <2>4
<1>7. U \in [Handles -> Seq(Chars)]
  <2>1. \A g \in Handles : U[g] \in Seq(Chars) BY <1>2, <1>4, <1>6
  <2>2. QED BY <1>3, <2>1
<1>8. QED BY <1>1, <1>2, <1>6, <1>7 DEF Grown

\* A part of a file is read into the buffer h.
LEMMA FileComes ==
  ASSUME IInv', Account, NEW h \in Handles, NEW f \in Files, NEW n \in Nat, NEW r \in Seq(Chars),
         at \in [Files -> Nat], at' = [at EXCEPT ![f] = @ + n],
         Len(r) = n, \A i \in 1 .. n : r[i] = <<f, at[f] + i>>,
         Through(h)' = Through(h) \o r, \A g \in Handles : g # h => Through(g)' = Through(g),
         \A g \in Handles : Shrinks(g),
         UNCHANGED <<dropped, made>>
  PROVE  Account'
PROOF
<1> DEFINE U == Streams'
           W == Deliveries'
           B == at'
<1>1. f \in Sources /\ at[f] \in Nat BY DEF Sources
<1>2. Grown(Streams, U, h, f, at[f], n)
  BY <1>1, StreamsGrow
<1>3. W \in [Sources -> Nat] BY NextDeliveries
<1>4. \A g \in Files : W[g] = B[g] /\ Deliveries[g] = at[g] BY NextDeliveries, DeliveriesAre
<1>5. \A g \in Handles : W[g] <= Deliveries[g] BY Fewer
<1>6. B[f] = at[f] + n /\ \A g \in Files : g # f => B[g] = at[g] OBVIOUS
<1>7. Kept(Streams, dropped, at, made, Deliveries) BY DEF Account
<1> HIDE DEF U, W, B
<1>8. \A c : From(c, at, made) => From(c, B, made)
  <2> SUFFICES ASSUME NEW s \in Sources, NEW m \in Nat, s \in Files, m <= at[s]
               PROVE  m <= B[s]
    BY DEF From
  <2>1. CASE s = f BY <1>1, <1>6, <2>1
  <2>2. CASE s # f BY <1>6, <2>2
  <2>3. QED BY <2>1, <2>2
<1>9. \A m \in Nat : From(<<f, m>>, at, made) => m <= at[f]
  <2> SUFFICES ASSUME NEW m \in Nat, NEW s \in Sources, NEW k \in Nat, <<f, m>> = <<s, k>>,
                      IF s \in Files THEN 1 <= k /\ k <= at[s] ELSE s \in made
               PROVE  m <= at[f]
    BY DEF From
  <2>1. s = f /\ k = m OBVIOUS
  <2>2. QED BY <2>1
<1>10. \A m \in Nat : at[f] < m /\ m <= at[f] + n => From(<<f, m>>, B, made)
  <2> SUFFICES ASSUME NEW m \in Nat, at[f] < m, m <= at[f] + n PROVE From(<<f, m>>, B, made)
    OBVIOUS
  <2>1. 1 <= m /\ m <= B[f] BY <1>1, <1>6
  <2>2. QED BY <1>1, <2>1 DEF From
<1>11. \A i \in Nat : i <= W[f] => i <= Deliveries[f] \/ (at[f] < i /\ i <= at[f] + n)
  BY <1>1, <1>4, <1>6
<1>12. \A t \in Sources : t # f => W[t] <= Deliveries[t]
  <2>1. \A g \in Files : g # f => W[g] <= Deliveries[g]
    <3>1. \A g \in Files : g # f => W[g] = Deliveries[g] BY <1>4, <1>6
    <3>2. \A g \in Files : Deliveries[g] \in Nat BY <1>4
    <3>3. QED BY <3>1, <3>2
  <2>2. QED BY <1>5, <2>1 DEF Sources
<1>13. Kept(U, dropped, B, made, W)
  <2>1. Admits(at, made, B, made, f, at[f], n) BY <1>8, <1>9, <1>10 DEF Admits
  <2>2. Raised(Deliveries, W, f, at[f], n) BY <1>3, <1>11, <1>12 DEF Raised
  <2>3. QED BY <1>1, <1>2, <1>7, <2>1, <2>2, KeepsGrown
<1>14. QED BY <1>13 DEF Account, U, W, B

\* A text in memory is scanned as the buffer h.
LEMMA MemoryComes ==
  ASSUME IInv, IInv', Account, NEW h \in Handles, NEW n \in Nat, NEW r \in Seq(Chars),
         h \notin made, made' = made \cup {h},
         Len(r) = n, \A i \in 1 .. n : r[i] = <<h, i>>,
         Through(h)' = Through(h) \o r, \A g \in Handles : g # h => Through(g)' = Through(g),
         \A g \in Handles : g # h => Shrinks(g),
         buf'[h].n_chars = n,
         UNCHANGED <<dropped, at>>
  PROVE  Account'
PROOF
<1> DEFINE U == Streams'
           W == Deliveries'
           N == made'
<1>1. h \in Sources /\ h \notin Files BY BuffersAssumption DEF Sources
<1>0. \A i \in 1 .. n : r[i] = <<h, 0 + i>> OBVIOUS
<1>2. Grown(Streams, U, h, h, 0, n)
  BY <1>0, <1>1, StreamsGrow
<1>3. W \in [Sources -> Nat] BY NextDeliveries
<1>4. \A g \in Files : W[g] = at[g] /\ Deliveries[g] = at[g] BY NextDeliveries, DeliveriesAre
<1>5. \A g \in Handles : g # h => W[g] <= Deliveries[g] BY Fewer
<1>6. W[h] <= n
  <2>1. W[h] = IF buf'[h] # NULL /\ ~buf'[h].fill THEN n ELSE 0 BY NextDeliveries
  <2>2. QED BY <2>1
<1>7. Kept(Streams, dropped, at, made, Deliveries) BY DEF Account
<1>14. at' = at /\ dropped' = dropped OBVIOUS
<1>8. N = made \cup {h} OBVIOUS
<1> HIDE DEF U, W, N
<1>9. \A c : From(c, at, made) => From(c, at, N) BY <1>8 DEF From
<1>10. \A m \in Nat : From(<<h, m>>, at, made) => m <= 0
  <2> SUFFICES ASSUME NEW m \in Nat, NEW s \in Sources, NEW k \in Nat, <<h, m>> = <<s, k>>,
                      IF s \in Files THEN 1 <= k /\ k <= at[s] ELSE s \in made
               PROVE  FALSE
    BY DEF From
  <2>1. s = h OBVIOUS
  <2>2. QED BY <1>1, <2>1
<1>11. \A m \in Nat : 0 < m /\ m <= 0 + n => From(<<h, m>>, at, N)
  BY <1>1, <1>8 DEF From
<1>12. \A i \in Nat : i <= W[h] => i <= Deliveries[h] \/ (0 < i /\ i <= 0 + n)
  <2>1. Deliveries[h] \in Nat /\ W[h] \in Nat BY <1>1, <1>3, <1>7 DEF Kept
  <2>2. QED BY <1>6, <2>1
<1>13. \A t \in Sources : t # h => W[t] <= Deliveries[t]
  <2>1. \A g \in Files : W[g] <= Deliveries[g]
    <3>1. \A g \in Files : W[g] = Deliveries[g] BY <1>4
    <3>2. \A g \in Files : Deliveries[g] \in Nat BY <1>7 DEF Kept, Sources
    <3>3. QED BY <3>1, <3>2
  <2>2. QED BY <1>5, <2>1 DEF Sources
<1>15. Kept(U, dropped, at, N, W)
  <2>1. Admits(at, made, at, N, h, 0, n) BY <1>9, <1>10, <1>11 DEF Admits
  <2>2. Raised(Deliveries, W, h, 0, n) BY <1>3, <1>12, <1>13 DEF Raised
  <2>3. 0 \in Nat OBVIOUS
  <2>4. QED BY <1>1, <1>2, <1>7, <2>1, <2>2, <2>3, KeepsGrown
<1>16. QED BY <1>14, <1>15 DEF Account, U, W, N

----------------------------------------------------------------------------
(* What waits in the buffers after a step                                  *)

LEMMA PartOf ==
  ASSUME NEW s \in Seq(Chars), NEW i \in Nat, NEW j \in Nat, j <= Len(s)
  PROVE  SubSeq(s, i + 1, j) \in Seq(Chars)
PROOF
<1>1. \A k \in i + 1 .. j : s[k] \in Chars OBVIOUS
<1>2. QED BY <1>1

\* What waits in each buffer, as saving the current one would leave it.
LEMMA RestIs ==
  ASSUME IInv, NEW h \in Handles
  PROVE  /\ Rest(h) = IF h \in Live THEN Stored(Saved[h]) ELSE <<>>
         /\ Rest(h) \in Seq(Chars)
         /\ h \in Live /\ h # Current => Rest(h) = Stored(buf[h])
         /\ h \in Live => /\ Saved[h].fill = buf[h].fill
                          /\ ~buf[h].fill => Saved[h].n_chars = buf[h].n_chars
PROOF
<1>1. CASE h \notin Live BY <1>1 DEF Rest
<1>2. CASE h \in Live /\ h # Current
  <2>1. Rest(h) = Stored(buf[h]) BY <1>2 DEF Rest, Waiting, Stored
  <2>2. Saved[h] = buf[h] BY <1>2, SavedFits
  <2>3. buf[h] \in Buffer BY <1>2 DEF Live, IInv, Objects
  <2>4. /\ buf[h].ch \in Seq(Chars) /\ buf[h].pos \in Nat /\ buf[h].n_chars \in Nat
        /\ buf[h].n_chars <= Len(buf[h].ch)
    BY <1>2, <2>3 DEF Buffer, IInv, Texts, Ended
  <2>5. Rest(h) \in Seq(Chars) BY <2>1, <2>4, PartOf DEF Stored
  <2>6. QED BY <1>2, <2>1, <2>2, <2>5
<1>3. CASE h \in Live /\ h = Current
  <2> DEFINE b == buf[h]
             s == [b EXCEPT !.ch = Restored(b), !.pos = c_buf_p, !.n_chars = n_chars]
  <2>1. h # NULL BY BuffersAssumption
  <2>2. Saved = [buf EXCEPT ![h] = s] BY <1>3, <2>1 DEF Saved
  <2>3. Saved[h] = s BY <2>2 DEF IInv, Objects
  <2>4. b \in Buffer BY <1>3 DEF Live, IInv, Objects
  <2>5. Restored(b) \in Seq(Chars) /\ Len(Restored(b)) = n_chars + 2 /\ n_chars \in Nat
        /\ (~b.fill => b.n_chars = n_chars)
    BY <1>3, <2>1, RestoredFits DEF IInv, Positioned
  <2>6. c_buf_p \in Nat BY DEF IInv, Globals
  <2>7. s.ch = Restored(b) /\ s.pos = c_buf_p /\ s.n_chars = n_chars /\ s.fill = b.fill
    BY <2>4 DEF Buffer
  <2>8. Rest(h) = SubSeq(Restored(b), c_buf_p + 1, n_chars) BY <1>3 DEF Rest, Waiting
  <2> HIDE DEF s
  <2>9. Rest(h) = Stored(s) BY <2>7, <2>8 DEF Stored
  <2>10. Rest(h) \in Seq(Chars) BY <2>5, <2>6, <2>8, PartOf
  <2>11. QED BY <1>3, <2>3, <2>5, <2>7, <2>9, <2>10
<1>4. QED BY <1>1, <1>2, <1>3

\* What waits after a step, in a buffer that is not the current one then, and in
\* the one that has just been loaded.
LEMMA RestElsewhere ==
  ASSUME NEW h \in Handles, h # Current'
  PROVE  Rest(h)' = IF buf'[h] = NULL THEN <<>> ELSE Stored(buf'[h])
BY DEF Rest, Waiting, Live, Stored

LEMMA RestLoaded ==
  ASSUME NEW h \in Handles, h = Current', NEW b \in Buffer, b.pos <= b.n_chars, Ended(b),
         buf'[h] = b, Load(b)
  PROVE  Rest(h)' = Stored(b)
PROOF
<1>1. b # NULL BY NullAssumption
<1>2. b.ch \in Seq(Chars) /\ b.pos \in Nat /\ b.n_chars \in Nat BY DEF Buffer
<1>3. b.pos + 1 \in DOMAIN b.ch BY <1>2 DEF Ended
<1>4. c_buf_p' = b.pos /\ n_chars' = b.n_chars /\ hold_char' = b.ch[b.pos + 1] BY DEF Load
<1>5. Restored(buf[h])' = b.ch
  <2>1. Restored(buf[h])' = [b.ch EXCEPT ![b.pos + 1] = b.ch[b.pos + 1]] BY <1>4 DEF Restored
  <2>2. QED BY <1>2, <1>3, <2>1
<1>6. Rest(h)' = SubSeq(Restored(buf[h])', b.pos + 1, b.n_chars)
  BY <1>1, <1>4 DEF Rest, Waiting, Live
<1>7. QED BY <1>5, <1>6 DEF Stored

\* A text that has just been emptied.
LEMMA Nothing ==
  ASSUME NEW b \in Buffer, b.pos >= b.n_chars
  PROVE  Stored(b) = <<>>
PROOF
<1>1. b.pos \in Nat /\ b.n_chars \in Nat /\ b.ch \in Seq(Chars) BY DEF Buffer
<1>2. QED BY <1>1 DEF Stored

\* If nothing that Waiting() looks at changes, the same waits.
LEMMA RestSame ==
  ASSUME NEW h \in Handles, buf'[h] = buf[h],
         \/ h # Current /\ h # Current'
         \/ Current' = Current /\ UNCHANGED <<c_buf_p, n_chars, hold_char>>
  PROVE  Rest(h)' = Rest(h)
BY DEF Rest, Waiting, Live, Restored

LEMMA ThroughSame ==
  ASSUME NEW h \in Handles, taken' = taken, Rest(h)' = Rest(h)
  PROVE  Through(h)' = Through(h)
BY DEF Through

LEMMA ShrinksSame ==
  ASSUME IInv, NEW h \in Handles, buf'[h] = buf[h]
  PROVE  Shrinks(h)
PROOF
<1>1. buf[h] # NULL => buf[h].n_chars \in Nat BY DEF IInv, Objects, Buffer
<1>2. QED BY <1>1 DEF Shrinks

\* The buffer g comes to the top of the stack.
LEMMA PlacedCurrent ==
  ASSUME IInv, NEW g \in Handles, NEW t, t = top \/ (t = top + 1 /\ Current # NULL),
         top' = t, stack' = [Ensured EXCEPT ![t] = g]
  PROVE  Current' = g
PROOF
<1>1. Ensured \in Seq(Handles \cup {NULL}) /\ t \in DOMAIN Ensured BY EnsuredFits DEF IInv
<1>2. stack' # <<>> /\ stack'[t] = g BY <1>1
<1>3. QED BY <1>2 DEF Current

LEMMA PlacedKeeps ==
  ASSUME IInv, NEW g \in Handles, Current' = g,
         NEW k \in Handles, k # g, buf'[k] = Saved[k]
  PROVE  Rest(k)' = Rest(k) /\ Shrinks(k)
PROOF
<1>1. Rest(k)' = IF buf'[k] = NULL THEN <<>> ELSE Stored(buf'[k]) BY RestElsewhere
<1>2. buf'[k] = NULL <=> k \notin Live BY SavedFits DEF Live
<1>3. Rest(k)' = Rest(k) BY <1>1, <1>2, RestIs
<1>4. Shrinks(k)
  <2>1. CASE k \in Live
    <3>1. buf'[k].fill = buf[k].fill /\ (~buf[k].fill => buf'[k].n_chars = buf[k].n_chars)
      BY <2>1, RestIs
    <3>2. buf[k] \in Buffer BY <2>1 DEF Live, IInv, Objects
    <3>3. buf[k].n_chars \in Nat BY <3>2 DEF Buffer
    <3>4. QED BY <2>1, <3>1, <3>3 DEF Shrinks, Live
  <2>2. CASE k \notin Live BY <1>2, <2>2 DEF Shrinks
  <2>3. QED BY <2>1, <2>2
<1>5. QED BY <1>3, <1>4

----------------------------------------------------------------------------
(* Conserved: the user's calls                                             *)

\* The current buffer has just been loaded.
LEMMA JustLoaded ==
  ASSUME NEW b \in Buffer, Current' # NULL => buf'[Current'] = b /\ Load(b),
         switched' \/ b.pos >= b.n_chars
  PROVE  Loaded' /\ Idle'
PROOF
<1>1. Current' # NULL => /\ c_buf_p' = b.pos /\ n_chars' = b.n_chars /\ text_ptr' = b.pos
                         /\ hold_char' = b.ch[b.pos + 1] /\ buf'[Current'] = b
  BY DEF Load
<1>2. QED BY <1>1 DEF Loaded, Idle

\* The current buffer is left alone.
LEMMA LeftAlone ==
  ASSUME CInv, Current' = Current, Current # NULL => buf'[Current] = buf[Current],
         UNCHANGED <<globals, switched, init, pc>>
  PROVE  Loaded' /\ Idle'
BY DEF CInv, Loaded, Idle, globals

LEMMA FreshIs ==
  ASSUME NEW f \in Files \cup {NULL}
  PROVE  Stored(Fresh(f)) = <<>> /\ Fresh(f).fill /\ Fresh(f) # NULL /\ Fresh(f).pos >= Fresh(f).n_chars
PROOF
<1>1. Fresh(f) \in Buffer BY FreshFits
<1>2. Fresh(f).pos = 0 /\ Fresh(f).n_chars = 0 /\ Fresh(f).fill BY DEF Fresh
<1>3. QED BY <1>1, <1>2, Nothing, NullAssumption

LEMMA CreateKeeps ==
  ASSUME IInv, IInv', CInv, NEW h \in Handles, NEW f \in Files, Create(h, f)
  PROVE  CInv'
PROOF
<1>1. h \notin made /\ h \notin Live /\ h # Current BY NotMade DEF Create
<1>2. /\ buf' = [buf EXCEPT ![h] = Fresh(f)] /\ made' = made \cup {h}
      /\ UNCHANGED <<stack, top, globals, switched, init, pc, at, taken, dropped>>
  BY DEF Create, history
<1>3. Current' = Current BY <1>2 DEF Current
<1>4. buf'[h] = Fresh(f) /\ \A g \in Handles : g # h => buf'[g] = buf[g]
  BY <1>2 DEF IInv, Objects
<1>5. \A g \in Handles : Rest(g)' = Rest(g) /\ Shrinks(g)
  <2> SUFFICES ASSUME NEW g \in Handles PROVE Rest(g)' = Rest(g) /\ Shrinks(g) OBVIOUS
  <2>1. CASE g = h
    <3>1. Rest(g) = <<>> BY <1>1, <2>1 DEF Rest
    <3>2. Rest(g)' = <<>> BY <1>1, <1>3, <1>4, <2>1, RestElsewhere, FreshIs
    <3>3. Shrinks(g) BY <1>4, <2>1, FreshIs DEF Shrinks
    <3>4. QED BY <3>1, <3>2, <3>3
  <2>2. CASE g # h
    <3>1. UNCHANGED <<c_buf_p, n_chars, hold_char>> BY <1>2 DEF globals
    <3>2. QED BY <1>3, <1>4, <2>2, <3>1, RestSame, ShrinksSame
  <2>3. QED BY <2>1, <2>2
<1>6. Account' BY <1>2, <1>5, ThroughSame, AllStays DEF CInv
<1>7. Current # NULL => buf'[Current] = buf[Current]
  BY <1>1, <1>4, CurrentIsLive DEF IInv
<1>8. Loaded' /\ Idle' BY <1>2, <1>3, <1>7, LeftAlone
<1>9. QED BY <1>2, <1>6, <1>8 DEF CInv

\* A buffer that holds what it held before is placed on the stack.
LEMMA PlacingKeeps ==
  ASSUME IInv, IInv', CInv, NEW g \in Handles, NEW b \in Buffer,
         NEW t, t = top \/ (t = top + 1 /\ Current # NULL),
         top' = t, stack' = [Ensured EXCEPT ![t] = g],
         \A k \in Handles : k # g => buf'[k] = Saved[k],
         buf'[g] = b, Ended(b), b.pos <= b.n_chars, Load(b),
         Stored(b) = Rest(g), Shrinks(g), made \subseteq made',
         switched' \/ b.pos >= b.n_chars,
         UNCHANGED history
  PROVE  CInv'
PROOF
<1>1. Current' = g BY PlacedCurrent
<1>2. Rest(g)' = Rest(g) BY <1>1, RestLoaded
<1>3. \A k \in Handles : Rest(k)' = Rest(k) /\ Shrinks(k) BY <1>1, <1>2, PlacedKeeps
<1>4. UNCHANGED <<at, taken, dropped>> BY DEF history
<1>5. Account' BY <1>3, <1>4, ThroughSame, AllStays DEF CInv
<1>6. Loaded' /\ Idle' BY <1>1, JustLoaded
<1>7. QED BY <1>4, <1>5, <1>6 DEF CInv

\* A buffer that may be taken is not the current one, and waits as it is stored.
LEMMA TakenIs ==
  ASSUME IInv, NEW h \in Handles, MayTake(h)
  PROVE  /\ h # Current /\ Saved[h] = buf[h] /\ buf[h] \in Buffer /\ Ended(buf[h])
         /\ buf[h].pos <= buf[h].n_chars /\ Stored(buf[h]) = Rest(h)
PROOF
<1>1. h \in Live /\ h \notin OnStack /\ buf[h].pos <= buf[h].n_chars BY DEF MayTake
<1>2. h # Current
  <2>1. Current # NULL => Current \in OnStack
    BY CurrentIsLive DEF IInv, Current, OnStack, Range
  <2>2. h # NULL BY BuffersAssumption
  <2>3. QED BY <1>1, <2>1, <2>2
<1>3. Saved[h] = buf[h] BY <1>2, SavedFits
<1>4. buf[h] \in Buffer /\ Ended(buf[h]) BY <1>1, <1>2 DEF IInv, Objects, Texts, Live
<1>5. QED BY <1>1, <1>2, <1>3, <1>4, RestIs

LEMMA SwitchKeeps ==
  ASSUME IInv, IInv', CInv, NEW h \in Handles, yy_switch_to_buffer(h)
  PROVE  CInv'
PROOF
<1>1. CASE MayTake(h) /\ PlaceOnTop(Saved, h)
  <2>1. /\ h # Current /\ Saved[h] = buf[h] /\ buf[h] \in Buffer /\ Ended(buf[h])
        /\ buf[h].pos <= buf[h].n_chars /\ Stored(buf[h]) = Rest(h)
    BY <1>1, TakenIs
  <2>2. /\ buf' = Saved /\ stack' = [Ensured EXCEPT ![top] = h] /\ Load(Saved[h])
        /\ switched' = TRUE /\ top' = top /\ made' = made /\ UNCHANGED history
    BY <1>1 DEF PlaceOnTop, yy_switch_to_buffer
  <2>3. \A k \in Handles : buf'[k] = Saved[k] BY <2>2
  <2>4. Shrinks(h) BY <2>1, <2>3, ShrinksSame
  <2>5. Load(buf[h]) BY <2>1, <2>2
  <2>6. buf'[h] = buf[h] BY <2>1, <2>2
  <2>7. QED BY <2>1, <2>2, <2>3, <2>4, <2>5, <2>6, PlacingKeeps
<1>2. CASE h = Current /\ stack' = Ensured /\ UNCHANGED <<buf, globals, switched>>
  <2>1. stack # <<>> /\ h # NULL BY <1>2, BuffersAssumption DEF Current
  <2>2. UNCHANGED <<buf, made, top, globals, switched, init, pc, at, taken, dropped>>
    BY <1>2 DEF yy_switch_to_buffer, history
  <2>3. Current' = Current
    <3>1. /\ Ensured \in Seq(Handles \cup {NULL}) /\ top \in DOMAIN Ensured
          /\ Ensured[top] = IF top \in DOMAIN stack THEN stack[top] ELSE NULL
      BY EnsuredFits DEF IInv
    <3>2. top \in DOMAIN stack /\ Ensured # <<>> BY <2>1, <3>1 DEF IInv, Stacked
    <3>3. QED BY <1>2, <2>1, <2>2, <3>1, <3>2 DEF Current
  <2>4. UNCHANGED <<c_buf_p, n_chars, hold_char>> BY <2>2 DEF globals
  <2>5. \A g \in Handles : Rest(g)' = Rest(g) /\ Shrinks(g)
    BY <2>2, <2>3, <2>4, RestSame, ShrinksSame
  <2>6. Account' BY <2>2, <2>5, ThroughSame, AllStays DEF CInv
  <2>7. Loaded' /\ Idle' BY <2>2, <2>3, LeftAlone
  <2>8. QED BY <2>2, <2>6, <2>7 DEF CInv
<1>3. QED BY <1>1, <1>2 DEF yy_switch_to_buffer

LEMMA PushKeeps ==
  ASSUME IInv, IInv', CInv, NEW h \in Handles, yypush_buffer_state(h)
  PROVE  CInv'
PROOF
<1>1. MayTake(h) BY DEF yypush_buffer_state
<1>2. /\ h # Current /\ Saved[h] = buf[h] /\ buf[h] \in Buffer /\ Ended(buf[h])
      /\ buf[h].pos <= buf[h].n_chars /\ Stored(buf[h]) = Rest(h)
  BY <1>1, TakenIs
<1>3. /\ buf' = Saved /\ stack' = [Ensured EXCEPT ![TopFor] = h] /\ Load(Saved[h])
      /\ switched' = TRUE /\ top' = TopFor /\ made' = made /\ UNCHANGED history
  BY DEF yypush_buffer_state
<1>4. TopFor = top \/ (TopFor = top + 1 /\ Current # NULL) BY DEF TopFor
<1>5. \A k \in Handles : buf'[k] = Saved[k] BY <1>3
<1>6. Shrinks(h) BY <1>2, <1>5, ShrinksSame
<1>7. Load(buf[h]) BY <1>2, <1>3
<1>8. buf'[h] = buf[h] BY <1>2, <1>3
<1>9. QED BY <1>2, <1>3, <1>4, <1>5, <1>6, <1>7, <1>8, PlacingKeeps

LEMMA MemoryIs ==
  ASSUME NEW h \in Handles, NEW n \in Nat
  PROVE  /\ Stored(FromMemory(h, n)) = [i \in 1 .. n |-> <<h, i>>]
         /\ [i \in 1 .. n |-> <<h, i>>] \in Seq(Chars)
PROOF
<1> DEFINE s == [i \in 1 .. n |-> <<h, i>>]
           m == s \o Marks
<1>1. s \in Seq(Chars) /\ Len(s) = n BY DEF Chars, Sources
<1>2. FromMemory(h, n).ch = m /\ FromMemory(h, n).pos = 0 /\ FromMemory(h, n).n_chars = n
  BY DEF FromMemory
<1> HIDE DEF s
<1>3. m \in Seq(Chars) /\ Len(m) = n + 2 /\ \A i \in 1 .. n : m[i] = s[i]
  <2>1. /\ m \in Seq(Chars) /\ Len(m) = Len(s) + Len(Marks)
        /\ \A i \in DOMAIN s : m[i] = s[i]
    BY <1>1, MarksFit, Appended
  <2>2. QED BY <1>1, <2>1, MarksFit
<1> HIDE DEF m
<1>4. SubSeq(m, 0 + 1, n) = s BY <1>1, <1>3
<1>5. Stored(FromMemory(h, n)) = s BY <1>2, <1>4 DEF Stored
<1>6. QED BY <1>1, <1>5 DEF s

LEMMA ScanKeeps ==
  ASSUME IInv, IInv', CInv, NEW h \in Handles, NEW n \in Strings, Scan(h, n)
  PROVE  CInv'
PROOF
<1> DEFINE b == FromMemory(h, n)
           r == [i \in 1 .. n |-> <<h, i>>]
<1>1. n \in Nat BY BuffersAssumption
<1>2. b \in Buffer /\ Ended(b) /\ b.pos <= b.n_chars BY <1>1, MemoryFits
<1>3. Stored(b) = r /\ r \in Seq(Chars) BY <1>1, MemoryIs
<1>4. b.n_chars = n BY DEF FromMemory
<1>5. Len(r) = n /\ \A i \in 1 .. n : r[i] = <<h, i>> BY <1>1
<1>6. Saved \in [Handles -> Buffer \cup {NULL}] BY SavedFits
<1>7. h \notin made /\ h \notin Live BY NotMade DEF Scan
<1>8. /\ buf' = [Saved EXCEPT ![h] = b] /\ stack' = [Ensured EXCEPT ![top] = h] /\ Load(buf'[h])
      /\ switched' = TRUE /\ top' = top /\ made' = made \cup {h}
      /\ UNCHANGED <<at, taken, dropped>>
  BY DEF Scan, PlaceOnTop, history
<1> HIDE DEF b, r
<1>9. buf'[h] = b /\ \A k \in Handles : k # h => buf'[k] = Saved[k] BY <1>2, <1>6, <1>8
<1>10. Load(b) BY <1>8, <1>9
<1>11. Current' = h BY <1>8, PlacedCurrent
<1>12. Rest(h)' = r BY <1>2, <1>3, <1>9, <1>10, <1>11, RestLoaded
<1>13. Rest(h) = <<>> BY <1>7 DEF Rest
<1>14. taken[h] \in Seq(Chars) BY DEF CInv
<1>15. Through(h) = taken[h] BY <1>13, <1>14 DEF Through
<1>16. Through(h)' = Through(h) \o r BY <1>8, <1>12, <1>15 DEF Through
<1>17. \A k \in Handles : k # h => Rest(k)' = Rest(k) /\ Shrinks(k) BY <1>9, <1>11, PlacedKeeps
<1>18. \A k \in Handles : k # h => Through(k)' = Through(k) BY <1>8, <1>17, ThroughSame
<1>19. buf'[h].n_chars = n BY <1>4, <1>9
<1>20. Account'
  BY <1>1, <1>3, <1>5, <1>7, <1>8, <1>16, <1>17, <1>18, <1>19, MemoryComes DEF CInv
<1>21. Loaded' /\ Idle' BY <1>2, <1>8, <1>9, <1>10, <1>11, JustLoaded
<1>22. QED BY <1>8, <1>20, <1>21 DEF CInv

LEMMA NewCurrentRest ==
  ASSUME IInv, IInv', CInv, NEW h \in Handles, NEW f \in Files, NewCurrent(h, f), top' = top,
         UNCHANGED history
  PROVE  CInv'
PROOF
<1> DEFINE b == Fresh(f)
<1>1. b \in Buffer /\ Ended(b) /\ b.pos <= b.n_chars BY FreshFits
<1>2. Stored(b) = <<>> /\ b.fill /\ b # NULL /\ b.pos >= b.n_chars BY FreshIs
<1>3. h \notin Live BY NotMade DEF NewCurrent
<1>4. Stored(b) = Rest(h) BY <1>2, <1>3 DEF Rest
<1>5. Saved = buf BY DEF NewCurrent, Saved
<1>6. /\ buf' = [buf EXCEPT ![h] = b] /\ stack' = [Ensured EXCEPT ![top] = h] /\ Load(buf'[h])
      /\ made \subseteq made'
  BY DEF NewCurrent
<1> HIDE DEF b
<1>7. buf'[h] = b /\ \A k \in Handles : k # h => buf'[k] = Saved[k] BY <1>5, <1>6 DEF IInv, Objects
<1>8. Load(b) BY <1>6, <1>7
<1>9. Shrinks(h) BY <1>2, <1>7 DEF Shrinks
<1>10. QED BY <1>1, <1>2, <1>4, <1>6, <1>7, <1>8, <1>9, PlacingKeeps

LEMMA RestartNewKeeps ==
  ASSUME IInv, IInv', CInv, NEW h \in Handles, NEW f \in Files, RestartNew(h, f)
  PROVE  CInv'
BY NewCurrentRest DEF RestartNew

\* Only the current buffer and the one that becomes the current buffer matter.
LEMMA RestOthers ==
  ASSUME IInv, NEW h \in Handles, buf'[h] = buf[h], h # Current, h # Current'
  PROVE  Rest(h)' = Rest(h) /\ Shrinks(h)
BY RestSame, ShrinksSame

LEMMA NULLShrinks ==
  ASSUME NEW h \in Handles, buf'[h] = NULL
  PROVE  Shrinks(h)
BY DEF Shrinks

LEMMA CurrentHandle ==
  ASSUME IInv
  PROVE  /\ Current # NULL => Current \in Handles /\ Current \in Live /\ buf[Current] \in Buffer
                              /\ Len(buf[Current].ch) = n_chars + 2 /\ Current \in OnStack
         /\ \A h \in Handles : h # NULL
         /\ OnStack \subseteq Live
PROOF
<1>1. OnStack \subseteq Live BY DEF IInv, Stacked, OnStack, Range
<1>2. CASE Current # NULL
  <2>1. /\ Current \in Live /\ Current \in Handles /\ buf[Current] \in Buffer
        /\ top \in DOMAIN stack
    BY <1>2, CurrentIsLive DEF IInv
  <2>2. Len(buf[Current].ch) = n_chars + 2 BY <1>2 DEF IInv, Positioned
  <2>3. Current \in OnStack BY <1>2, <2>1 DEF Current, OnStack, Range
  <2>4. QED BY <1>1, <2>1, <2>2, <2>3, BuffersAssumption
<1>3. QED BY <1>1, <1>2, BuffersAssumption

LEMMA PopKeeps ==
  ASSUME IInv, IInv', CInv, yypop_buffer_state
  PROVE  CInv'
PROOF
<1>1. /\ Current # NULL /\ Discard({Current}) /\ buf' = [buf EXCEPT ![Current] = NULL]
      /\ stack' = [stack EXCEPT ![top] = NULL]
      /\ top' = top \/ (top > 1 /\ top' = top - 1)
      /\ UNCHANGED <<made, init, pc, at, taken>>
  BY DEF yypop_buffer_state
<1>2. Current \in Handles /\ Current \in Live BY <1>1, CurrentHandle
<1>3. buf'[Current] = NULL /\ \A h \in Handles : h # Current => buf'[h] = buf[h]
  BY <1>1, <1>2 DEF IInv, Objects
<1>4. Current' # NULL => /\ Current' \in Live' /\ buf[Current'] \in Buffer /\ Ended(buf[Current'])
                         /\ buf[Current'].pos <= buf[Current'].n_chars
  BY <1>1, Removed
<1>5. Current' # NULL => Current' # Current /\ Current' \in Handles /\ buf'[Current'] = buf[Current']
                         /\ Current' \in Live
  BY <1>3, <1>4 DEF Live
<1>6. Current' # NULL => Load(buf[Current']) /\ switched'
  <2>1. stack # <<>> BY <1>1 DEF Current
  <2>2. stack' # <<>> BY <1>1, <2>1 DEF IInv, Stacked
  <2>3. Current' = stack'[top'] BY <2>2 DEF Current
  <2>4. Current' # NULL => Load(buf[stack'[top']]) /\ switched' = TRUE
    BY <2>3 DEF yypop_buffer_state
  <2>5. QED BY <2>3, <2>4
<1>7. Current' # Current
  BY <1>1, <1>5
<1>8. \A h \in Handles : Rest(h)' = (IF h \in {Current} THEN <<>> ELSE Rest(h)) /\ Shrinks(h)
  <2> SUFFICES ASSUME NEW h \in Handles
               PROVE  Rest(h)' = (IF h \in {Current} THEN <<>> ELSE Rest(h)) /\ Shrinks(h)
    OBVIOUS
  <2>1. CASE h = Current
    <3>1. Rest(h)' = <<>> BY <1>3, <1>7, <2>1, RestElsewhere
    <3>2. QED BY <1>3, <2>1, <3>1, NULLShrinks
  <2>2. CASE h # Current /\ h = Current'
    <3>1. h # NULL BY CurrentHandle
    <3>2. Rest(h)' = Stored(buf[h]) BY <1>4, <1>5, <1>6, <2>2, <3>1, RestLoaded
    <3>3. Rest(h) = Stored(buf[h]) BY <1>5, <2>2, <3>1, RestIs
    <3>4. Shrinks(h) BY <1>3, <2>2, ShrinksSame
    <3>5. QED BY <2>2, <3>2, <3>3, <3>4
  <2>3. CASE h # Current /\ h # Current' BY <1>3, <2>3, RestOthers
  <2>4. QED BY <2>1, <2>2, <2>3
<1>9. \A h \in Handles : Rest(h) \in Seq(Chars) BY RestIs
<1>10. Account'
  <2> DEFINE hs == {Current}
  <2>1. hs \in SUBSET Live /\ Discard(hs) BY <1>1, <1>2
  <2>2. \A h \in Handles : Rest(h)' = IF h \in hs THEN <<>> ELSE Rest(h) BY <1>8
  <2>3. \A h \in Handles : Shrinks(h) BY <1>8
  <2> HIDE DEF hs
  <2>4. QED BY <1>1, <1>9, <2>1, <2>2, <2>3, SomeDropped DEF CInv
<1>11. Loaded' /\ Idle'
  <2>1. CASE Current' = NULL BY <2>1 DEF Loaded, Idle
  <2>2. CASE Current' # NULL BY <1>4, <1>5, <1>6, <2>2, JustLoaded
  <2>3. QED BY <2>1, <2>2
<1>12. QED BY <1>1, <1>10, <1>11 DEF CInv

LEMMA DeleteKeeps ==
  ASSUME IInv, IInv', CInv, NEW h \in Handles, yy_delete_buffer(h)
  PROVE  CInv'
PROOF
<1>1. /\ h \in Live /\ h \notin OnStack \ {Current} /\ Discard({h}) /\ buf' = [buf EXCEPT ![h] = NULL]
      /\ stack' = IF h = Current THEN [stack EXCEPT ![top] = NULL] ELSE stack
      /\ UNCHANGED <<made, top, globals, switched, init, pc, at, taken>>
  BY DEF yy_delete_buffer
<1>2. buf'[h] = NULL /\ \A g \in Handles : g # h => buf'[g] = buf[g]
  BY <1>1 DEF IInv, Objects
<1>3. Current' = IF h = Current THEN NULL ELSE Current
  <2>1. CASE h = Current
    <3>1. Current # NULL /\ stack # <<>> BY <2>1, CurrentHandle DEF Current
    <3>2. top \in DOMAIN stack /\ stack \in Seq(Handles \cup {NULL}) BY <3>1 DEF IInv, Stacked
    <3>3. stack' # <<>> /\ stack'[top] = NULL BY <1>1, <2>1, <3>1, <3>2
    <3>4. QED BY <1>1, <2>1, <3>3 DEF Current
  <2>2. CASE h # Current BY <1>1, <2>2 DEF Current
  <2>3. QED BY <2>1, <2>2
<1>4. h # NULL /\ h # Current' BY <1>3, CurrentHandle
<1>5. \A g \in Handles : Rest(g)' = (IF g \in {h} THEN <<>> ELSE Rest(g)) /\ Shrinks(g)
  <2> SUFFICES ASSUME NEW g \in Handles
               PROVE  Rest(g)' = (IF g \in {h} THEN <<>> ELSE Rest(g)) /\ Shrinks(g)
    OBVIOUS
  <2>1. CASE g = h
    <3>1. Rest(g)' = <<>> BY <1>2, <1>4, <2>1, RestElsewhere
    <3>2. QED BY <1>2, <2>1, <3>1, NULLShrinks
  <2>2. CASE g # h
    <3>1. UNCHANGED <<c_buf_p, n_chars, hold_char>> BY <1>1 DEF globals
    <3>2. (g # Current /\ g # Current') \/ Current' = Current
      <4>1. g # NULL BY CurrentHandle
      <4>2. QED BY <1>3, <2>2, <4>1
    <3>3. QED BY <1>2, <2>2, <3>1, <3>2, RestSame, ShrinksSame
  <2>3. QED BY <2>1, <2>2
<1>6. \A g \in Handles : Rest(g) \in Seq(Chars) BY RestIs
<1>7. Account'
  <2> DEFINE hs == {h}
  <2>1. hs \in SUBSET Live /\ Discard(hs) BY <1>1
  <2>2. \A g \in Handles : Rest(g)' = IF g \in hs THEN <<>> ELSE Rest(g) BY <1>5
  <2>3. \A g \in Handles : Shrinks(g) BY <1>5
  <2> HIDE DEF hs
  <2>4. QED BY <1>1, <1>6, <2>1, <2>2, <2>3, SomeDropped DEF CInv
<1>8. Loaded' /\ Idle'
  <2>1. CASE h = Current BY <1>3, <2>1 DEF Loaded, Idle
  <2>2. CASE h # Current
    <3>1. Current' = Current /\ (Current # NULL => buf'[Current] = buf[Current])
      BY <1>2, <1>3, <2>2, CurrentHandle
    <3>2. QED BY <1>1, <3>1, LeftAlone
  <2>3. QED BY <2>1, <2>2
<1>9. QED BY <1>1, <1>7, <1>8 DEF CInv

LEMMA FlushKeeps ==
  ASSUME IInv, IInv', CInv, NEW h \in Handles, yy_flush_buffer(h)
  PROVE  CInv'
PROOF
<1> DEFINE b == Flushed(buf[h])
<1>1. /\ h \in Live /\ Discard({h}) /\ buf' = [buf EXCEPT ![h] = b]
      /\ h = Current => Load(buf'[h])
      /\ h # Current => UNCHANGED globals
      /\ UNCHANGED <<made, stack, top, switched, init, pc, at, taken>>
  BY DEF yy_flush_buffer
<1>2. buf[h] \in Buffer /\ buf[h].n_chars \in Nat /\ buf[h] # NULL
  BY <1>1 DEF Live, IInv, Objects, Buffer
<1>3. b \in Buffer /\ Ended(b) /\ b.pos <= b.n_chars BY <1>2, FlushedFits
<1>4. b.pos = 0 /\ b.n_chars = 0 /\ b.fill = buf[h].fill BY <1>2 DEF Flushed, Buffer
<1>5. buf'[h] = b /\ \A g \in Handles : g # h => buf'[g] = buf[g]
  BY <1>1 DEF IInv, Objects
<1> HIDE DEF b
<1>6. Current' = Current BY <1>1 DEF Current
<1>7. Stored(b) = <<>> BY <1>3, <1>4, Nothing
<1>8. b # NULL BY <1>3, NullAssumption
<1>9. \A g \in Handles : Rest(g)' = (IF g \in {h} THEN <<>> ELSE Rest(g)) /\ Shrinks(g)
  <2> SUFFICES ASSUME NEW g \in Handles
               PROVE  Rest(g)' = (IF g \in {h} THEN <<>> ELSE Rest(g)) /\ Shrinks(g)
    OBVIOUS
  <2>1. CASE g = h
    <3>1. Shrinks(g) BY <1>2, <1>4, <1>5, <2>1 DEF Shrinks
    <3>2. CASE h = Current
      <4>1. Load(b) BY <1>1, <1>5, <3>2
      <4>2. Rest(g)' = <<>> BY <1>3, <1>5, <1>6, <1>7, <2>1, <3>2, <4>1, RestLoaded
      <4>3. QED BY <2>1, <3>1, <4>2
    <3>3. CASE h # Current
      <4>1. Rest(g)' = <<>> BY <1>5, <1>6, <1>7, <1>8, <2>1, <3>3, RestElsewhere
      <4>2. QED BY <2>1, <3>1, <4>1
    <3>4. QED BY <3>2, <3>3
  <2>2. CASE g # h
    <3>1. CASE g # Current BY <1>5, <1>6, <2>2, <3>1, RestOthers
    <3>2. CASE g = Current
      <4>1. UNCHANGED <<c_buf_p, n_chars, hold_char>> BY <1>1, <2>2, <3>2 DEF globals
      <4>2. QED BY <1>5, <1>6, <2>2, <4>1, RestSame, ShrinksSame
    <3>3. QED BY <3>1, <3>2
  <2>3. QED BY <2>1, <2>2
<1>10. \A g \in Handles : Rest(g) \in Seq(Chars) BY RestIs
<1>11. Account'
  <2> DEFINE hs == {h}
  <2>1. hs \in SUBSET Live /\ Discard(hs) BY <1>1
  <2>2. \A g \in Handles : Rest(g)' = IF g \in hs THEN <<>> ELSE Rest(g) BY <1>9
  <2>3. \A g \in Handles : Shrinks(g) BY <1>9
  <2> HIDE DEF hs
  <2>4. QED BY <1>1, <1>10, <2>1, <2>2, <2>3, SomeDropped DEF CInv
<1>12. Loaded' /\ Idle'
  <2>1. CASE h = Current
    <3>1. Load(b) /\ buf'[Current'] = b BY <1>1, <1>5, <1>6, <2>1
    <3>2. b.pos >= b.n_chars BY <1>4
    <3>3. QED BY <1>3, <3>1, <3>2, JustLoaded
  <2>2. CASE h # Current
    <3>1. Current # NULL => buf'[Current] = buf[Current] BY <1>5, <2>2, CurrentHandle
    <3>2. QED BY <1>1, <1>6, <2>2, <3>1, LeftAlone
  <2>3. QED BY <2>1, <2>2
<1>13. QED BY <1>1, <1>11, <1>12 DEF CInv

LEMMA DestroyKeeps ==
  ASSUME IInv, IInv', CInv, yylex_destroy
  PROVE  CInv'
PROOF
<1>1. /\ Discard(OnStack) /\ stack' = <<>> /\ UNCHANGED <<made, at, taken>>
      /\ buf' = [h \in Handles |-> IF h \in OnStack THEN NULL ELSE buf[h]]
  BY DEF yylex_destroy
<1>2. Current' = NULL BY <1>1 DEF Current
<1>3. OnStack \in SUBSET Live BY CurrentHandle
<1> DEFINE hs == OnStack
<1>4. hs \in SUBSET Live /\ Discard(hs) BY <1>1, <1>3
<1>5. \A h \in Handles : buf'[h] = IF h \in hs THEN NULL ELSE buf[h] BY <1>1
<1>6. \A h \in Handles : h # Current' /\ (h = Current => h \in hs)
  BY <1>2, CurrentHandle
<1> HIDE DEF hs
<1>7. \A h \in Handles : Rest(h)' = (IF h \in hs THEN <<>> ELSE Rest(h)) /\ Shrinks(h)
  <2> SUFFICES ASSUME NEW h \in Handles
               PROVE  Rest(h)' = (IF h \in hs THEN <<>> ELSE Rest(h)) /\ Shrinks(h)
    OBVIOUS
  <2>1. CASE h \in hs
    <3>1. Rest(h)' = <<>> BY <1>5, <1>6, <2>1, RestElsewhere
    <3>2. QED BY <1>5, <2>1, <3>1, NULLShrinks
  <2>2. CASE h \notin hs BY <1>5, <1>6, <2>2, RestOthers
  <2>3. QED BY <2>1, <2>2
<1>8. \A h \in Handles : Rest(h) \in Seq(Chars) BY RestIs
<1>9. Account'
  <2>1. \A h \in Handles : Rest(h)' = IF h \in hs THEN <<>> ELSE Rest(h) BY <1>7
  <2>2. \A h \in Handles : Shrinks(h) BY <1>7
  <2>3. QED BY <1>1, <1>4, <1>8, <2>1, <2>2, SomeDropped DEF CInv
<1>10. Loaded' /\ Idle' BY <1>2 DEF Loaded, Idle
<1>11. QED BY <1>1, <1>9, <1>10 DEF CInv

----------------------------------------------------------------------------
(* Conserved: yylex(), yywrap() and input()                                *)

LEMMA PastTheEnd ==
  ASSUME NEW s, NEW i \in Nat, NEW j \in Nat, i >= j
  PROVE  SubSeq(s, i + 1, j) = <<>>
OBVIOUS

\* yyrestart() empties the current buffer and leaves the others alone.
LEMMA RestartEmpties ==
  ASSUME IInv, NEW f \in Files \cup {NULL}, Restart(f), UNCHANGED <<stack, top>>
  PROVE  /\ Current # NULL /\ Current' = Current
         /\ \A h \in Handles : Rest(h)' = (IF h \in {Current} THEN <<>> ELSE Rest(h)) /\ Shrinks(h)
         /\ Loaded' /\ Idle'
PROOF
<1> DEFINE b == Initialized(buf[Current], f)
<1>1. /\ Current # NULL /\ buf' = [buf EXCEPT ![Current] = b] /\ Load(buf'[Current])
  BY DEF Restart
<1>2. Current \in Handles /\ buf[Current] \in Buffer BY <1>1, CurrentHandle
<1>3. b \in Buffer /\ Ended(b) /\ b.pos <= b.n_chars BY <1>2, InitializedFits
<1>4. b.fill /\ b.n_chars = 0
  <2> DEFINE c == Flushed(buf[Current])
  <2>1. c \in Buffer BY <1>2, FlushedFits
  <2>2. c.n_chars = 0 BY <1>2 DEF Flushed, Buffer
  <2>3. b = [c EXCEPT !.file = f, !.fill = TRUE] BY DEF Initialized
  <2> HIDE DEF c, b
  <2>4. QED BY <2>1, <2>2, <2>3 DEF Buffer
<1>5. buf'[Current] = b /\ \A h \in Handles : h # Current => buf'[h] = buf[h]
  BY <1>1, <1>2 DEF IInv, Objects
<1> HIDE DEF b
<1>6. Load(b) BY <1>1, <1>5
<1>7. Current' = Current BY DEF Current
<1>8. b.pos >= b.n_chars BY <1>3, <1>4 DEF Buffer
<1>9. Stored(b) = <<>> BY <1>3, <1>8, Nothing
<1>11. \A h \in Handles : Rest(h)' = (IF h \in {Current} THEN <<>> ELSE Rest(h)) /\ Shrinks(h)
  <2> SUFFICES ASSUME NEW h \in Handles
               PROVE  Rest(h)' = (IF h \in {Current} THEN <<>> ELSE Rest(h)) /\ Shrinks(h)
    OBVIOUS
  <2>1. CASE h = Current
    <3>1. Shrinks(h) BY <1>4, <1>5, <2>1 DEF Shrinks
    <3>2. Rest(h)' = Stored(b) BY <1>3, <1>5, <1>6, <1>7, <2>1, RestLoaded
    <3>3. QED BY <1>9, <2>1, <3>1, <3>2
  <2>2. CASE h # Current BY <1>5, <1>7, <2>2, RestOthers
  <2>3. QED BY <2>1, <2>2
<1>12. Loaded' /\ Idle' BY <1>3, <1>5, <1>6, <1>7, <1>8, JustLoaded
<1>13. QED BY <1>1, <1>7, <1>11, <1>12

LEMMA YyrestartKeeps ==
  ASSUME IInv, IInv', CInv, NEW f \in Files, yyrestart(f)
  PROVE  CInv'
PROOF
<1>1. Restart(f) /\ Discard({Current}) /\ UNCHANGED <<made, stack, top, at, taken>>
  BY DEF yyrestart
<1>2. /\ Current # NULL
      /\ \A h \in Handles : Rest(h)' = (IF h \in {Current} THEN <<>> ELSE Rest(h)) /\ Shrinks(h)
      /\ Loaded' /\ Idle'
  BY <1>1, RestartEmpties
<1>3. \A h \in Handles : Rest(h) \in Seq(Chars) BY RestIs
<1> DEFINE hs == {Current}
<1>4. hs \in SUBSET Live /\ Discard(hs) BY <1>1, <1>2, CurrentHandle
<1>5. \A h \in Handles : Rest(h)' = IF h \in hs THEN <<>> ELSE Rest(h) BY <1>2
<1>6. \A h \in Handles : Shrinks(h) BY <1>2
<1> HIDE DEF hs
<1>7. Account' BY <1>1, <1>3, <1>4, <1>5, <1>6, SomeDropped DEF CInv
<1>8. QED BY <1>1, <1>2, <1>7 DEF CInv

\* Nothing waits in a buffer that has been scanned to its end.
LEMMA Drained ==
  ASSUME IInv, Current # NULL, c_buf_p >= n_chars
  PROVE  Rest(Current) = <<>>
PROOF
<1>1. c_buf_p \in Nat /\ n_chars \in Nat BY DEF IInv, Globals
<1>2. Current \in Live BY CurrentHandle
<1>3. Rest(Current) = SubSeq(Restored(buf[Current]), c_buf_p + 1, n_chars) BY <1>2 DEF Rest, Waiting
<1>4. QED BY <1>1, <1>3

\* So to restart it loses nothing.
LEMMA RestartDrained ==
  ASSUME IInv, IInv', CInv, NEW f \in Files \cup {NULL}, Restart(f),
         UNCHANGED <<made, stack, top, history>>, c_buf_p >= n_chars
  PROVE  CInv'
PROOF
<1>1. /\ Current # NULL
      /\ \A h \in Handles : Rest(h)' = (IF h \in {Current} THEN <<>> ELSE Rest(h)) /\ Shrinks(h)
      /\ Loaded' /\ Idle'
  BY RestartEmpties
<1>2. Rest(Current) = <<>> BY <1>1, Drained
<1>3. \A h \in Handles : Rest(h)' = Rest(h) /\ Shrinks(h) BY <1>1, <1>2
<1>4. UNCHANGED <<at, taken, dropped>> BY DEF history
<1>5. Account' BY <1>3, <1>4, ThroughSame, AllStays DEF CInv
<1>6. QED BY <1>1, <1>4, <1>5 DEF CInv

\* While the scanner runs it makes no difference how the current buffer was loaded.
LEMMA Running ==
  ASSUME init', pc' \notin {"yywrap", "input"}
  PROVE  Loaded' /\ Idle'
BY DEF Loaded, Idle

LEMMA FirstCallKeeps ==
  ASSUME IInv, IInv', CInv, FirstCall
  PROVE  CInv'
PROOF
<1>1. ~init /\ init' = TRUE /\ pc' = "yylex" /\ UNCHANGED <<top, switched, history>> BY DEF FirstCall
<1>2. CASE \E h \in Handles, f \in Files : (yyin \in {NULL, f}) /\ NewCurrent(h, f)
  BY <1>1, <1>2, NewCurrentRest
<1>3. CASE Current # NULL /\ Load(buf[Current]) /\ UNCHANGED <<buf, made, stack>>
  <2>1. Current' = Current BY <1>1, <1>3 DEF Current
  <2>2. Current \in Handles /\ Current \in Live /\ buf[Current] \in Buffer BY <1>3, CurrentHandle
  <2>3. /\ c_buf_p = buf[Current].pos /\ hold_char = buf[Current].ch[c_buf_p + 1]
    BY <1>1, <1>3 DEF CInv, Loaded
  <2>4. n_chars = buf[Current].n_chars BY <1>1, <1>3 DEF IInv, Positioned
  <2>5. c_buf_p' = c_buf_p /\ n_chars' = n_chars /\ hold_char' = hold_char
    BY <1>3, <2>3, <2>4 DEF Load
  <2>6. \A h \in Handles : Rest(h)' = Rest(h) /\ Shrinks(h)
    BY <1>3, <2>1, <2>5, RestSame, ShrinksSame
  <2>7. UNCHANGED <<at, taken, dropped>> BY <1>1 DEF history
  <2>8. Account' BY <1>3, <2>6, <2>7, ThroughSame, AllStays DEF CInv
  <2>9. Loaded' /\ Idle' BY <1>1, Running
  <2>10. QED BY <2>7, <2>8, <2>9 DEF CInv
<1>4. QED BY <1>2, <1>3 DEF FirstCall

LEMMA EndOfFileKeeps ==
  ASSUME IInv, IInv', CInv, EndOfFile
  PROVE  CInv'
PROOF
<1>1. /\ Current # NULL /\ init /\ c_buf_p = n_chars /\ c_buf_p \in Nat
      /\ switched' = FALSE /\ pc' = "yywrap" /\ UNCHANGED <<made, stack, top, init, history>>
  BY DEF EndOfFile, AtEnd, Scanning, IInv, Globals
<1>2. CASE /\ ~buf[Current].fill
           /\ buf' = [buf EXCEPT ![Current] = Begun(@)]
           /\ text_ptr' = c_buf_p /\ c_buf_p' = c_buf_p + 1 /\ hold_char' = NUL
           /\ UNCHANGED <<n_chars, yyin>>
  <2> DEFINE b == Begun(buf[Current])
  <2>1. Current \in Handles /\ Current \in Live /\ buf[Current] \in Buffer BY <1>1, CurrentHandle
  <2>2. b \in Buffer /\ b.ch = buf[Current].ch /\ b.n_chars = buf[Current].n_chars
    BY <2>1, BegunFits
  <2>3. b.fill = buf[Current].fill BY <2>1 DEF Begun, Buffer
  <2>4. buf'[Current] = b /\ \A h \in Handles : h # Current => buf'[h] = buf[h]
    BY <1>2, <2>1 DEF IInv, Objects
  <2> HIDE DEF b
  <2>5. Current' = Current BY <1>1 DEF Current
  <2>6. \A h \in Handles : Rest(h)' = Rest(h) /\ Shrinks(h)
    <3> SUFFICES ASSUME NEW h \in Handles PROVE Rest(h)' = Rest(h) /\ Shrinks(h) OBVIOUS
    <3>1. CASE h = Current
      <4>1. Rest(h) = <<>> BY <1>1, <3>1, Drained
      <4>2. b # NULL BY <2>2, NullAssumption
      <4>3. Rest(h)' = SubSeq(Restored(buf[h])', c_buf_p' + 1, n_chars')
        BY <2>4, <2>5, <3>1, <4>2 DEF Rest, Waiting, Live
      <4>4. c_buf_p' \in Nat /\ n_chars' \in Nat /\ c_buf_p' >= n_chars' BY <1>1, <1>2
      <4>5. Rest(h)' = <<>> BY <4>3, <4>4, PastTheEnd
      <4>6. b.n_chars \in Nat /\ buf[h] # NULL BY <2>1, <2>2, <3>1 DEF Buffer, Live
      <4>7. Shrinks(h) BY <2>2, <2>3, <2>4, <3>1, <4>6 DEF Shrinks
      <4>8. QED BY <4>1, <4>5, <4>7
    <3>2. CASE h # Current BY <2>4, <2>5, <3>2, RestOthers
    <3>3. QED BY <3>1, <3>2
  <2>7. UNCHANGED <<at, taken, dropped>> BY <1>1 DEF history
  <2>8. Account' BY <1>1, <2>6, <2>7, ThroughSame, AllStays DEF CInv
  <2>9. Loaded' /\ Idle' BY <1>1, <1>2 DEF Loaded, Idle
  <2>10. QED BY <2>7, <2>8, <2>9 DEF CInv
<1>3. CASE Restart(yyin)
  <2>1. yyin \in Files \cup {NULL} /\ c_buf_p >= n_chars BY <1>1 DEF IInv, Globals
  <2>2. QED BY <1>1, <1>3, <2>1, RestartDrained
<1>4. QED BY <1>2, <1>3 DEF EndOfFile

LEMMA WrapDoneKeeps ==
  ASSUME IInv, IInv', CInv, WrapDone
  PROVE  CInv'
PROOF
<1>1. /\ pc = "yywrap" /\ c_buf_p' = text_ptr /\ pc' = "user"
      /\ UNCHANGED <<buf, made, stack, top, n_chars, hold_char, text_ptr, yyin, switched, init, history>>
  BY DEF WrapDone
<1>2. init' BY <1>1 DEF IInv, Control
<1>3. Current' = Current BY <1>1 DEF Current
<1>4. ASSUME NEW h \in Handles PROVE Rest(h)' = Rest(h) /\ Shrinks(h)
  <2>1. Shrinks(h) BY <1>1, ShrinksSame
  <2>2. CASE h # Current BY <1>1, <1>3, <2>2, RestOthers
  <2>3. CASE h = Current /\ switched
    <3>1. text_ptr = c_buf_p BY <1>1, <2>3, CurrentHandle DEF CInv, Idle
    <3>2. QED BY <1>1, <1>3, <2>1, <3>1, RestSame
  <2>4. CASE h = Current /\ ~switched
    <3>1. Current # NULL /\ Current \in Live BY <2>4, CurrentHandle
    <3>2. c_buf_p >= n_chars /\ text_ptr >= n_chars BY <1>1, <2>4, <3>1 DEF CInv, Idle
    <3>3. Rest(h) = <<>> BY <2>4, <3>1, <3>2, Drained
    <3>4. Rest(h)' = SubSeq(Restored(buf[h])', text_ptr + 1, n_chars)
      BY <1>1, <1>3, <2>4, <3>1 DEF Rest, Waiting, Live
    <3>5. text_ptr \in Nat /\ n_chars \in Nat BY DEF IInv, Globals
    <3>6. Rest(h)' = <<>> BY <3>2, <3>4, <3>5
    <3>7. QED BY <2>1, <3>3, <3>6
  <2>5. QED BY <2>2, <2>3, <2>4
<1>5. UNCHANGED <<at, taken, dropped>> BY <1>1 DEF history
<1>6. Account' BY <1>1, <1>4, <1>5, ThroughSame, AllStays DEF CInv
<1>7. Loaded' /\ Idle' BY <1>1, <1>2, Running
<1>8. QED BY <1>5, <1>6, <1>7 DEF CInv

\* A step after which the current buffer is as it was.
LEMMA NothingMoves ==
  ASSUME IInv, IInv', CInv, Loaded', Idle',
         UNCHANGED <<buf, made, stack, top, c_buf_p, n_chars, hold_char, history>>
  PROVE  CInv'
PROOF
<1>1. Current' = Current BY DEF Current
<1>2. \A h \in Handles : Rest(h)' = Rest(h) /\ Shrinks(h) BY <1>1, RestSame, ShrinksSame
<1>3. UNCHANGED <<at, taken, dropped>> BY DEF history
<1>4. Account' BY <1>2, <1>3, ThroughSame, AllStays DEF CInv
<1>5. QED BY <1>3, <1>4 DEF CInv

LEMMA InputDoneKeeps ==
  ASSUME IInv, IInv', CInv, InputDone
  PROVE  CInv'
PROOF
<1>1. /\ pc = "input" /\ pc' = "user" /\ UNCHANGED <<buf, made, stack, top, globals, init, history>>
  BY DEF InputDone
<1>2. init' BY <1>1 DEF IInv, Control
<1>3. Loaded' /\ Idle' BY <1>1, <1>2, Running
<1>4. QED BY <1>1, <1>3, NothingMoves DEF globals

LEMMA WrapMoreKeeps ==
  ASSUME IInv, IInv', CInv, NEW f \in Files, WrapMore(f)
  PROVE  CInv'
PROOF
<1>1. /\ pc = "yywrap" /\ Current # NULL /\ NewFile(f) /\ pc' = "yylex"
      /\ UNCHANGED <<made, stack, top, switched, init, history>>
  BY DEF WrapMore
<1>2. init' BY <1>1 DEF IInv, Control
<1>3. Loaded' /\ Idle' BY <1>1, <1>2, Running
<1>4. CASE switched BY <1>1, <1>3, <1>4, NothingMoves DEF NewFile, globals
<1>5. CASE ~switched
  <2>1. c_buf_p >= n_chars BY <1>1, <1>5 DEF CInv, Idle
  <2>2. QED BY <1>1, <1>5, <2>1, RestartDrained DEF NewFile
<1>6. QED BY <1>4, <1>5

LEMMA EndMissedKeeps ==
  ASSUME IInv, IInv', CInv, EndMissed
  PROVE  CInv'
PROOF
<1>1. /\ init /\ pc' = "fatal"
      /\ UNCHANGED <<buf, made, stack, top, globals, switched, init, history>>
  BY DEF EndMissed, Scanning
<1>2. Loaded' /\ Idle' BY <1>1, Running
<1>3. QED BY <1>1, <1>2, NothingMoves DEF globals

LEMMA InputEndKeeps ==
  ASSUME IInv, IInv', CInv, InputEnd
  PROVE  CInv'
PROOF
<1>1. c_buf_p = n_chars /\ c_buf_p \in Nat /\ yyin \in Files \cup {NULL} /\ Restart(yyin)
      /\ UNCHANGED <<made, stack, top, history>>
  BY DEF InputEnd, IInv, Globals
<1>2. c_buf_p >= n_chars BY <1>1
<1>3. QED BY <1>1, <1>2, RestartDrained

LEMMA InputMoreKeeps ==
  ASSUME IInv, IInv', CInv, NEW f \in Files, InputMore(f)
  PROVE  CInv'
PROOF
<1>1. /\ pc = "input" /\ Current # NULL /\ pc' = "again"
      /\ UNCHANGED <<made, stack, top, switched, init, history>>
  BY DEF InputMore
<1>2. init' BY <1>1 DEF IInv, Control
<1>3. Loaded' /\ Idle' BY <1>1, <1>2, Running
<1>4. CASE switched /\ UNCHANGED <<buf, globals>> BY <1>1, <1>3, <1>4, NothingMoves DEF globals
<1>5. CASE ~switched /\ Restart(f)
  <2>1. c_buf_p >= n_chars BY <1>1, <1>5 DEF CInv, Idle
  <2>2. QED BY <1>1, <1>5, <2>1, RestartDrained
<1>6. CASE UNCHANGED <<buf, c_buf_p, n_chars, hold_char>> BY <1>1, <1>3, <1>6, NothingMoves
<1>7. QED BY <1>4, <1>5, <1>6 DEF InputMore, NewFile

LEMMA Associates == \A s, t, u \in Seq(Chars) : (s \o t) \o u = s \o (t \o u)
BY ConcatAssociative

\* What waits in the current buffer after a step.
LEMMA RestHere ==
  ASSUME NEW g \in Handles, g = Current', NEW b \in Buffer, buf'[g] = b
  PROVE  Rest(g)' = SubSeq([b.ch EXCEPT ![c_buf_p' + 1] = hold_char'], c_buf_p' + 1, n_chars')
PROOF
<1>1. b # NULL BY NullAssumption
<1>2. g \in Live' BY <1>1 DEF Live
<1>3. Restored(buf[g])' = [b.ch EXCEPT ![c_buf_p' + 1] = hold_char'] BY DEF Restored
<1>4. QED BY <1>2, <1>3 DEF Rest, Waiting

\* The characters c are taken from the front of what waits in the current buffer.
LEMMA Consumed ==
  ASSUME IInv, IInv', CInv, NEW g \in Handles, g = Current, g = Current',
         NEW c \in Seq(Chars), taken' = [taken EXCEPT ![g] = @ \o c],
         NEW w \in Seq(Chars), Rest(g) = c \o w, Rest(g)' = w,
         \A h \in Handles : h # g => buf'[h] = buf[h],
         Shrinks(g), UNCHANGED <<made, at, dropped>>, Loaded', Idle'
  PROVE  CInv'
PROOF
<1>1. taken \in [Handles -> Seq(Chars)] BY DEF CInv
<1>2. taken[g] \in Seq(Chars) BY <1>1
<1>3. taken[g] \o c \in Seq(Chars) BY <1>2, ConcatProperties
<1>4. taken' \in [Handles -> Seq(Chars)] BY <1>1, <1>3
<1>5. taken'[g] = taken[g] \o c /\ \A h \in Handles : h # g => taken'[h] = taken[h] BY <1>1
<1>6. (taken[g] \o c) \o w = taken[g] \o (c \o w) BY <1>2, Associates
<1>7. Through(g)' = Through(g) BY <1>5, <1>6 DEF Through
<1>8. ASSUME NEW h \in Handles PROVE Through(h)' = Through(h) /\ Shrinks(h)
  <2>1. CASE h = g BY <1>7, <2>1
  <2>2. CASE h # g
    <3>1. Rest(h)' = Rest(h) /\ Shrinks(h) BY <2>2, RestOthers
    <3>2. QED BY <1>5, <2>2, <3>1 DEF Through
  <2>3. QED BY <2>1, <2>2
<1>9. Account' BY <1>8, AllStays DEF CInv
<1>10. QED BY <1>4, <1>9 DEF CInv

\* A part of a file is read into the current buffer, in which nothing waited; of
\* it the characters c are taken at once.
LEMMA Refilled ==
  ASSUME IInv, IInv', CInv, NEW g \in Handles, g = Current, g = Current', Rest(g) = <<>>,
         NEW f \in Files, NEW n \in Nat, Reads(f, n),
         NEW c \in Seq(Chars), taken' = [taken EXCEPT ![g] = @ \o c],
         NEW w \in Seq(Chars), Read(f, n) = c \o w, Rest(g)' = w,
         \A h \in Handles : h # g => buf'[h] = buf[h],
         Shrinks(g), UNCHANGED <<made, dropped>>, Loaded', Idle'
  PROVE  CInv'
PROOF
<1> DEFINE r == Read(f, n)
<1>1. taken \in [Handles -> Seq(Chars)] BY DEF CInv
<1>2. taken[g] \in Seq(Chars) BY <1>1
<1>3. taken[g] \o c \in Seq(Chars) BY <1>2, ConcatProperties
<1>4. taken' \in [Handles -> Seq(Chars)] BY <1>1, <1>3
<1>5. taken'[g] = taken[g] \o c /\ \A h \in Handles : h # g => taken'[h] = taken[h] BY <1>1
<1>6. (taken[g] \o c) \o w = taken[g] \o (c \o w) BY <1>2, Associates
<1>7. Through(g) = taken[g] BY <1>2, ConcatEmptySeq DEF Through
<1>8. Through(g)' = Through(g) \o r BY <1>5, <1>6, <1>7 DEF Through
<1>9. \A h \in Handles : (h # g => Through(h)' = Through(h)) /\ Shrinks(h)
  <2> SUFFICES ASSUME NEW h \in Handles, h # g PROVE Through(h)' = Through(h) /\ Shrinks(h)
    OBVIOUS
  <2>1. Rest(h)' = Rest(h) /\ Shrinks(h) BY RestOthers
  <2>2. QED BY <1>5, <2>1 DEF Through
<1>10. r \in Seq(Chars) /\ Len(r) = n BY ReadFits
<1>11. \A i \in 1 .. n : r[i] = <<f, at[f] + i>> BY DEF Read
<1>12. at \in [Files -> Nat] /\ at' = [at EXCEPT ![f] = @ + n] BY DEF Reads, IInv, Control
<1> HIDE DEF r
<1>13. Account' BY <1>8, <1>9, <1>10, <1>11, <1>12, FileComes DEF CInv
<1>14. QED BY <1>4, <1>13 DEF CInv

LEMMA TokenKeeps ==
  ASSUME IInv, IInv', CInv, NEW k \in Nat, Token(k)
  PROVE  CInv'
PROOF
<1>0. Current # NULL BY DEF Token, Scanning
<1> PICK g \in Handles : g = Current BY <1>0, CurrentHandle
<1> DEFINE ch == Restored(buf[Current])
           end == c_buf_p + k
           cut == [ch EXCEPT ![end + 1] = NUL]
           b == [buf[g] EXCEPT !.ch = cut]
           c == SubSeq(ch, c_buf_p + 1, end)
           w == SubSeq(ch, end + 1, n_chars)
<1>1. /\ Current # NULL /\ init /\ end <= n_chars
      /\ Taken(c) /\ c_buf_p' = end /\ hold_char' = ch[end + 1] /\ pc' = "user"
      /\ UNCHANGED <<made, stack, top, n_chars, init, at, dropped>>
      /\ buf' = [buf EXCEPT ![Current].ch = cut]
  BY DEF Token, Scanning
<1>2. c_buf_p \in Nat /\ n_chars \in Nat /\ end \in Nat BY DEF IInv, Globals
<1>3. ch \in Seq(Chars) /\ Len(ch) = n_chars + 2 BY <1>1, RestoredFits
<1>4. g \in Live /\ buf[g] \in Buffer /\ g = Current'
  BY <1>1, CurrentHandle DEF Current
<1>5. buf'[g] = b /\ \A h \in Handles : h # g => buf'[h] = buf[h]
  BY <1>1, <1>4 DEF IInv, Objects
<1>6. b.ch = cut /\ b.fill = buf[g].fill /\ b.n_chars = buf[g].n_chars BY <1>4 DEF Buffer
<1>7. buf'[g] \in Buffer
  <2> HIDE DEF ch
  <2>1. end + 1 \in 1 .. Len(ch) BY <1>1, <1>2, <1>3
  <2>2. cut \in Seq(Chars) BY <1>3, <2>1, CutFits
  <2> HIDE DEF cut
  <2>3. QED BY <1>4, <1>5, <2>2 DEF Buffer
<1>8. buf[g].n_chars \in Nat /\ buf[g] # NULL BY <1>4 DEF Buffer, Live
<1>9. Shrinks(g) BY <1>5, <1>6, <1>8 DEF Shrinks
<1>10. Rest(g) = SubSeq(ch, c_buf_p + 1, n_chars) BY <1>4 DEF Rest, Waiting
<1> HIDE DEF b, ch
<1>11. [cut EXCEPT ![end + 1] = ch[end + 1]] = ch
  <2>1. end + 1 \in DOMAIN ch /\ ch = [i \in DOMAIN ch |-> ch[i]] BY <1>1, <1>2, <1>3
  <2>2. QED BY <2>1
<1>12. Rest(g)' = w
  <2> HIDE DEF end, cut
  <2>1. b \in Buffer /\ buf'[g] = b BY <1>5, <1>7
  <2>2. Rest(g)' = SubSeq([b.ch EXCEPT ![c_buf_p' + 1] = hold_char'], c_buf_p' + 1, n_chars')
    BY <1>4, <2>1, RestHere
  <2>3. b.ch = cut /\ c_buf_p' = end /\ hold_char' = ch[end + 1] /\ n_chars' = n_chars BY <1>1, <1>6
  <2>4. Rest(g)' = SubSeq([cut EXCEPT ![end + 1] = ch[end + 1]], end + 1, n_chars)
    BY ONLY <2>2, <2>3
  <2>5. QED BY <1>11, <2>4
<1>13. c \in Seq(Chars) /\ w \in Seq(Chars)
  <2>1. end <= Len(ch) /\ n_chars <= Len(ch) BY <1>1, <1>2, <1>3
  <2> HIDE DEF end
  <2>2. c \in Seq(Chars) BY <1>2, <1>3, <2>1, PartOf
  <2>3. w \in Seq(Chars) BY <1>2, <1>3, <2>1, PartOf
  <2>4. QED BY <2>2, <2>3
<1>14. SubSeq(ch, c_buf_p + 1, n_chars) = c \o w
  <2> DEFINE m == c_buf_p + 1
  <2>1. m \in 1 .. Len(ch) + 1 /\ end \in m - 1 .. Len(ch) /\ n_chars \in end .. Len(ch)
    BY <1>1, <1>2, <1>3
  <2> HIDE DEF m, end
  <2>2. SubSeq(ch, m, end) \o SubSeq(ch, end + 1, n_chars) = SubSeq(ch, m, n_chars)
    BY ONLY <1>3, <2>1, ConcatAdjacentSubSeq
  <2>3. QED BY <2>2 DEF m
<1>15. taken' = [taken EXCEPT ![g] = @ \o c] BY <1>1 DEF Taken
<1>16. Loaded' /\ Idle' BY <1>1, Running
<1> HIDE DEF c, w, end, cut
<1>17. QED BY <1>1, <1>4, <1>5, <1>9, <1>10, <1>12, <1>13, <1>14, <1>15, <1>16, Consumed

\* Cutting the text off before a position, and putting back the character there,
\* leaves what comes behind.
LEMMA CutBehind ==
  ASSUME NEW s \in Seq(Chars), NEW i \in Nat, NEW j \in Nat, i + 2 <= Len(s), j <= Len(s)
  PROVE  SubSeq([[s EXCEPT ![i + 1] = NUL] EXCEPT ![i + 2] = s[i + 2]], i + 2, j) = SubSeq(s, i + 2, j)
PROOF
<1> DEFINE cut == [s EXCEPT ![i + 1] = NUL]
           m == i + 2
           v == SubSeq(cut, m, j)
           u == SubSeq(s, m, j)
<1>1. [cut EXCEPT ![i + 2] = s[i + 2]] = cut
  <2>1. i + 2 \in DOMAIN s /\ i + 1 # i + 2 OBVIOUS
  <2>2. cut[i + 2] = s[i + 2] BY <2>1
  <2>3. QED BY <2>1, <2>2
<1>2. i + 1 \in 1 .. Len(s) OBVIOUS
<1>3. cut \in Seq(Chars) /\ \A k \in 1 .. Len(s) : k # i + 1 => cut[k] = s[k]
  BY <1>2, MarksFit, ExceptSeq
<1>4. \A k \in m .. j : cut[k] \in Chars /\ s[k] \in Chars /\ cut[k] = s[k]
  <2>1. \A k \in m .. j : k \in 1 .. Len(s) /\ k # i + 1 OBVIOUS
  <2>2. QED BY <1>3, <2>1
<1>5. m \in Int /\ j \in Int OBVIOUS
<1> HIDE DEF m, cut
<1>6. /\ v \in Seq(Chars) /\ Len(v) = IF m <= j THEN j - m + 1 ELSE 0
      /\ \A k \in 1 .. j - m + 1 : v[k] = cut[m + k - 1]
  BY <1>4, <1>5, SubSeqProperties
<1>7. /\ u \in Seq(Chars) /\ Len(u) = IF m <= j THEN j - m + 1 ELSE 0
      /\ \A k \in 1 .. j - m + 1 : u[k] = s[m + k - 1]
  BY <1>4, <1>5, SubSeqProperties
<1>8. \A k \in 1 .. Len(v) : v[k] = u[k]
  <2> SUFFICES ASSUME NEW k \in 1 .. Len(v) PROVE v[k] = u[k] OBVIOUS
  <2>1. k \in 1 .. j - m + 1 BY <1>5, <1>6
  <2>2. m + k - 1 \in m .. j BY <1>5, <2>1
  <2>3. QED BY <1>4, <1>6, <1>7, <2>1, <2>2
<1> HIDE DEF v, u
<1>9. v = u BY <1>6, <1>7, <1>8, SeqEqual
<1>10. QED BY <1>1, <1>9 DEF v, u, m, cut

LEMMA InputCharKeeps ==
  ASSUME IInv, IInv', CInv, InputChar
  PROVE  CInv'
PROOF
<1>0. Current # NULL BY DEF InputChar, Inputs
<1> PICK g \in Handles : g = Current BY <1>0, CurrentHandle
<1> DEFINE ch == Restored(buf[Current])
           cut == [ch EXCEPT ![c_buf_p + 1] = NUL]
           b == [buf[g] EXCEPT !.ch = cut]
           c == <<ch[c_buf_p + 1]>>
           w == SubSeq(ch, c_buf_p + 2, n_chars)
<1>1. /\ Current # NULL /\ init /\ c_buf_p < n_chars
      /\ Taken(c) /\ c_buf_p' = c_buf_p + 1 /\ hold_char' = ch[c_buf_p + 2] /\ pc' = "user"
      /\ UNCHANGED <<made, stack, top, n_chars, init, at, dropped>>
      /\ buf' = [buf EXCEPT ![Current].ch = cut]
  BY DEF InputChar, Inputs
<1>2. c_buf_p \in Nat /\ n_chars \in Nat BY DEF IInv, Globals
<1>3. ch \in Seq(Chars) /\ Len(ch) = n_chars + 2 BY <1>1, RestoredFits
<1>4. g \in Live /\ buf[g] \in Buffer /\ g = Current'
  BY <1>1, CurrentHandle DEF Current
<1>5. buf'[g] = b /\ \A h \in Handles : h # g => buf'[h] = buf[h]
  BY <1>1, <1>4 DEF IInv, Objects
<1>6. b.ch = cut /\ b.fill = buf[g].fill /\ b.n_chars = buf[g].n_chars BY <1>4 DEF Buffer
<1>7. buf'[g] \in Buffer
  <2> HIDE DEF ch
  <2>1. c_buf_p + 1 \in 1 .. Len(ch) BY <1>1, <1>2, <1>3
  <2>2. cut \in Seq(Chars) BY <1>3, <2>1, CutFits
  <2> HIDE DEF cut
  <2>3. QED BY <1>4, <1>5, <2>2 DEF Buffer
<1>8. buf[g].n_chars \in Nat /\ buf[g] # NULL BY <1>4 DEF Buffer, Live
<1>9. Shrinks(g) BY <1>5, <1>6, <1>8 DEF Shrinks
<1>10. Rest(g) = SubSeq(ch, c_buf_p + 1, n_chars) BY <1>4 DEF Rest, Waiting
<1> HIDE DEF b, ch
<1>11. SubSeq([cut EXCEPT ![c_buf_p + 2] = ch[c_buf_p + 2]], c_buf_p + 2, n_chars) = w
  BY <1>1, <1>2, <1>3, CutBehind
<1>13. Rest(g)' = w
  <2>1. c_buf_p' + 1 = c_buf_p + 2 /\ c_buf_p + 1 + 1 = c_buf_p + 2 BY <1>1, <1>2
  <2> HIDE DEF cut
  <2>2. b \in Buffer /\ buf'[g] = b BY <1>5, <1>7
  <2>3. Rest(g)' = SubSeq([b.ch EXCEPT ![c_buf_p' + 1] = hold_char'], c_buf_p' + 1, n_chars')
    BY <1>4, <2>2, RestHere
  <2>4. b.ch = cut /\ hold_char' = ch[c_buf_p + 2] /\ n_chars' = n_chars BY <1>1, <1>6
  <2>5. Rest(g)' = SubSeq([cut EXCEPT ![c_buf_p + 2] = ch[c_buf_p + 2]], c_buf_p + 2, n_chars)
    BY ONLY <2>1, <2>3, <2>4
  <2>6. QED BY <1>11, <2>5 DEF cut
<1>14. SubSeq(ch, c_buf_p + 1, n_chars) = c \o w
  <2>1. c_buf_p + 1 \in 1 .. Len(ch) /\ n_chars \in c_buf_p + 1 .. Len(ch) BY <1>1, <1>2, <1>3
  <2>2. c_buf_p + 1 + 1 = c_buf_p + 2 BY <1>2
  <2>3. SubSeq(ch, c_buf_p + 1, n_chars) = <<ch[c_buf_p + 1]>> \o SubSeq(ch, c_buf_p + 1 + 1, n_chars)
    BY <1>3, <2>1, SubSeqRecursiveFirst
  <2>4. QED BY <2>2, <2>3
<1>15. c \in Seq(Chars) /\ w \in Seq(Chars)
  <2>1. ch[c_buf_p + 1] \in Chars BY <1>1, <1>2, <1>3
  <2>2. c_buf_p + 1 \in Nat /\ c_buf_p + 1 + 1 = c_buf_p + 2 /\ n_chars <= Len(ch) BY <1>1, <1>2, <1>3
  <2>3. SubSeq(ch, c_buf_p + 1 + 1, n_chars) \in Seq(Chars) BY <1>2, <1>3, <2>2, PartOf
  <2>4. QED BY <2>1, <2>2, <2>3
<1>16. taken' = [taken EXCEPT ![g] = @ \o c] BY <1>1 DEF Taken
<1>17. Loaded' /\ Idle' BY <1>1, Running
<1> HIDE DEF c, w, cut
<1>18. QED BY <1>1, <1>4, <1>5, <1>9, <1>10, <1>13, <1>14, <1>15, <1>16, <1>17, Consumed

LEMMA Middle ==
  ASSUME NEW t \in Seq(Chars), NEW r \in Seq(Chars), NEW m \in Seq(Chars)
  PROVE  SubSeq((t \o r) \o m, Len(t) + 1, Len(t) + Len(r)) = r
PROOF
<1> DEFINE q == t \o r
           s == q \o m
           a == Len(t)
           n == Len(r)
           k == a + 1
           l == a + n
           v == SubSeq(s, k, l)
<1>1. a \in Nat /\ n \in Nat /\ Len(m) \in Nat /\ n = Len(r) OBVIOUS
<1>2. /\ q \in Seq(Chars) /\ Len(q) = a + n
      /\ \A i \in 1 .. n : q[a + i] = r[i]
  BY Appended
<1> HIDE DEF q
<1>3. /\ s \in Seq(Chars) /\ Len(s) = Len(q) + Len(m) /\ \A i \in DOMAIN q : s[i] = q[i]
  BY <1>2, Appended
<1>4. DOMAIN q = 1 .. a + n BY <1>2
<1> HIDE DEF s, a, n
<1>5. \A i \in 1 .. n : s[a + i] = r[i]
  <2> SUFFICES ASSUME NEW i \in 1 .. n PROVE s[a + i] = r[i] OBVIOUS
  <2>1. a + i \in 1 .. a + n BY <1>1
  <2>2. QED BY <1>2, <1>3, <1>4, <2>1
<1>6. \A i \in k .. l : s[i] \in Chars
  <2>1. \A i \in k .. l : i \in 1 .. Len(s) BY <1>1, <1>2, <1>3
  <2>2. QED BY <1>3, <2>1
<1>7. k \in Int /\ l \in Int /\ l - k + 1 = n /\ (k <= l <=> n # 0)
      /\ \A i \in 1 .. n : k + i - 1 = a + i
  BY <1>1
<1> HIDE DEF k, l
<1>8. /\ v \in Seq(Chars) /\ Len(v) = IF k <= l THEN l - k + 1 ELSE 0
      /\ \A i \in 1 .. l - k + 1 : v[i] = s[k + i - 1]
  BY <1>6, <1>7, SubSeqProperties
<1> HIDE DEF v
<1>9. Len(v) = n BY <1>7, <1>8
<1>10. \A i \in 1 .. n : v[i] = r[i] BY <1>5, <1>7, <1>8
<1>11. v = r BY <1>1, <1>8, <1>9, <1>10, SeqEqual
<1>12. QED BY <1>11 DEF v, k, l, s, a, n, q

LEMMA RefillKeeps ==
  ASSUME IInv, IInv', CInv, NEW f \in Files, yyin = f, NEW r \in Nat, r > 0, Refill(r)
  PROVE  CInv'
PROOF
<1>0. Current # NULL BY DEF Refill, AtEnd, Scanning
<1> PICK g \in Handles : g = Current BY <1>0, CurrentHandle
<1> DEFINE read == Read(f, r)
           ch == read \o Marks
           b == [Begun(buf[g]) EXCEPT !.ch = ch, !.n_chars = r]
<1>1. /\ init /\ c_buf_p = n_chars /\ buf[g].fill /\ Reads(f, r)
      /\ buf' = [buf EXCEPT ![Current] = b] /\ n_chars' = r /\ c_buf_p' = 0 /\ hold_char' = b.ch[1]
      /\ pc' = "yylex" /\ UNCHANGED <<made, stack, top, init, taken, dropped>>
  BY DEF Refill, AtEnd, Scanning
<1>2. read \in Seq(Chars) /\ Len(read) = r BY <1>1, ReadFits
<1>3. buf[g] \in Buffer /\ g = Current' BY <1>0, <1>1, CurrentHandle DEF Current
<1>4. Begun(buf[g]) \in Buffer /\ Begun(buf[g]).fill = buf[g].fill
  BY <1>3, BegunFits DEF Begun, Buffer
<1> HIDE DEF read
<1>5. ch \in Seq(Chars) /\ Len(ch) = r + 2 BY <1>2, MarksFit, Concatenates
<1>6. SubSeq(ch, 1, r) = read
  <2>1. <<>> \in Seq(Chars) /\ Len(<<>>) = 0 BY EmptySeq
  <2>2. SubSeq((<<>> \o read) \o Marks, Len(<<>>) + 1, Len(<<>>) + Len(read)) = read
    BY <1>2, <2>1, MarksFit, Middle
  <2>3. <<>> \o read = read BY <1>2, ConcatEmptySeq
  <2>4. SubSeq(read \o Marks, 0 + 1, 0 + r) = read BY <1>2, <2>1, <2>2, <2>3
  <2>5. QED BY <2>4
<1> HIDE DEF ch
<1>7. b \in Buffer /\ b.ch = ch /\ b.fill BY <1>1, <1>4, <1>5 DEF Buffer
<1>8. buf'[g] = b /\ \A h \in Handles : h # g => buf'[h] = buf[h]
  BY <1>1 DEF IInv, Objects
<1> HIDE DEF b
<1>9. Rest(g)' = read
  <2>1. Rest(g)' = SubSeq([b.ch EXCEPT ![c_buf_p' + 1] = hold_char'], c_buf_p' + 1, n_chars')
    BY <1>3, <1>7, <1>8, RestHere
  <2>2. Rest(g)' = SubSeq([ch EXCEPT ![1] = ch[1]], 1, r) BY <1>1, <1>7, <2>1
  <2>3. [ch EXCEPT ![1] = ch[1]] = ch BY <1>5
  <2>4. QED BY <1>6, <2>2, <2>3
<1>10. Rest(g) = <<>>
  <2>1. c_buf_p >= n_chars BY <1>1 DEF IInv, Globals
  <2>2. QED BY <1>0, <2>1, Drained
<1>11. Shrinks(g) BY <1>7, <1>8 DEF Shrinks
<1>12. Loaded' /\ Idle' BY <1>1, Running
<1>13. <<>> \in Seq(Chars) /\ <<>> \o read = read BY <1>2, ConcatEmptySeq, EmptySeq
<1>14. taken' = [taken EXCEPT ![g] = @ \o <<>>]
  <2>1. taken \in [Handles -> Seq(Chars)] BY DEF CInv
  <2>2. taken[g] \o <<>> = taken[g]
    <3>1. taken[g] \in Seq(Chars) BY <2>1
    <3>2. QED BY <3>1
  <2>3. QED BY <1>1, <2>1, <2>2
<1>15. Read(f, r) = <<>> \o read BY <1>13 DEF read
<1>16. QED
  BY <1>1, <1>2, <1>3, <1>8, <1>9, <1>10, <1>11, <1>12, <1>13, <1>14, <1>15, Refilled

LEMMA InputRefillKeeps ==
  ASSUME IInv, IInv', CInv, NEW f \in Files, yyin = f, NEW r \in Nat, r > 0, InputRefill(r)
  PROVE  CInv'
PROOF
<1>0. Current # NULL BY DEF InputRefill, Inputs
<1> PICK g \in Handles : g = Current BY <1>0, CurrentHandle
<1> DEFINE old == buf[g]
           text == SubSeq(old.ch, text_ptr + 1, c_buf_p)
           offset == Len(text)
           read == Read(f, r)
           ch == text \o read \o Marks
           cut == [ch EXCEPT ![offset + 1] = NUL]
           b == [old EXCEPT !.ch = cut, !.n_chars = r]
           c == <<ch[offset + 1]>>
           w == SubSeq(ch, offset + 2, offset + r)
<1>1. /\ init /\ c_buf_p = n_chars /\ old.fill /\ Reads(f, r)
      /\ buf' = [buf EXCEPT ![Current] = b] /\ n_chars' = offset + r /\ c_buf_p' = offset + 1
      /\ hold_char' = ch[offset + 2] /\ Taken(c)
      /\ pc' = "user" /\ UNCHANGED <<made, stack, top, init, dropped>>
  BY DEF InputRefill, Inputs
<1>2. read \in Seq(Chars) /\ Len(read) = r BY <1>1, ReadFits
<1>3. old \in Buffer /\ Len(old.ch) = n_chars + 2 /\ g = Current'
  BY <1>0, <1>1, CurrentHandle DEF Current
<1>4. text \in Seq(Chars) /\ offset \in Nat
  <2>1. c_buf_p \in Nat /\ n_chars \in Nat /\ text_ptr \in Nat BY DEF IInv, Globals
  <2>2. old.ch \in Seq(Chars) /\ c_buf_p <= Len(old.ch) BY <1>1, <1>3, <2>1 DEF Buffer
  <2>3. text \in Seq(Chars) BY <2>1, <2>2, PartOf
  <2> HIDE DEF text
  <2>4. QED BY <2>3
<1> HIDE DEF text, read
<1>5. ch \in Seq(Chars) /\ Len(ch) = offset + r + 2
  <2> DEFINE both == text \o read
  <2>1. both \in Seq(Chars) /\ Len(both) = offset + r BY <1>2, <1>4, Concatenates
  <2> HIDE DEF both
  <2>2. both \o Marks \in Seq(Chars) /\ Len(both \o Marks) = offset + r + 2
    BY <2>1, MarksFit, Concatenates
  <2>3. QED BY <2>2 DEF both
<1>6. SubSeq(ch, offset + 1, offset + r) = read BY <1>2, <1>4, MarksFit, Middle
<1> HIDE DEF ch, offset
<1>7. read = c \o w
  <2> DEFINE m == offset + 1
             n == offset + r
  <2>1. m \in 1 .. Len(ch) /\ n \in m .. Len(ch) /\ m + 1 = offset + 2 BY <1>4, <1>5
  <2> HIDE DEF m, n
  <2>2. SubSeq(ch, m, n) = <<ch[m]>> \o SubSeq(ch, m + 1, n)
    BY <1>5, <2>1, SubSeqRecursiveFirst
  <2>3. QED BY <1>6, <2>1, <2>2 DEF m, n
<1>8. c \in Seq(Chars) /\ w \in Seq(Chars)
  <2>1. ch[offset + 1] \in Chars BY <1>4, <1>5
  <2>2. offset + 1 \in Nat /\ offset + r \in Nat /\ offset + r <= Len(ch) /\ offset + 1 + 1 = offset + 2
    BY <1>4, <1>5
  <2>3. SubSeq(ch, offset + 1 + 1, offset + r) \in Seq(Chars) BY <1>5, <2>2, PartOf
  <2>4. QED BY <2>1, <2>2, <2>3
<1>9. cut \in Seq(Chars)
  <2>1. offset + 1 \in 1 .. Len(ch) BY <1>4, <1>5
  <2>2. QED BY <1>5, <2>1, CutFits
<1>10. SubSeq([cut EXCEPT ![offset + 2] = ch[offset + 2]], offset + 2, offset + r) = w
  <2>1. offset + 2 <= Len(ch) /\ offset + r \in Nat /\ offset + r <= Len(ch) BY <1>4, <1>5
  <2>2. QED BY <1>4, <1>5, <2>1, CutBehind
<1> HIDE DEF cut, c, w
<1>11. b \in Buffer /\ b.ch = cut /\ b.fill
  <2>1. old \in Buffer /\ old.fill BY <1>1, <1>3
  <2> HIDE DEF old
  <2>2. QED BY <1>9, <2>1 DEF Buffer
<1> HIDE DEF old
<1>12. buf'[g] = b /\ \A h \in Handles : h # g => buf'[h] = buf[h]
  BY <1>1 DEF IInv, Objects
<1> HIDE DEF b
<1>13. Rest(g)' = w
  <2>1. Rest(g)' = SubSeq([b.ch EXCEPT ![c_buf_p' + 1] = hold_char'], c_buf_p' + 1, n_chars')
    BY <1>3, <1>11, <1>12, RestHere
  <2>2. c_buf_p' + 1 = offset + 2 /\ n_chars' = offset + r /\ hold_char' = ch[offset + 2] /\ b.ch = cut
    BY <1>1, <1>4, <1>11
  <2>3. Rest(g)' = SubSeq([cut EXCEPT ![offset + 2] = ch[offset + 2]], offset + 2, offset + r)
    BY ONLY <2>1, <2>2
  <2>4. QED BY <1>10, <2>3
<1>14. Rest(g) = <<>>
  <2>1. c_buf_p >= n_chars BY <1>1 DEF IInv, Globals
  <2>2. QED BY <1>0, <2>1, Drained
<1>15. Shrinks(g) BY <1>11, <1>12 DEF Shrinks
<1>16. Loaded' /\ Idle' BY <1>1, Running
<1>17. taken' = [taken EXCEPT ![g] = @ \o c] BY <1>1 DEF Taken
<1>18. Read(f, r) = c \o w BY <1>7 DEF read
<1>19. QED
  BY <1>1, <1>3, <1>8, <1>12, <1>13, <1>14, <1>15, <1>16, <1>17, <1>18, Refilled

----------------------------------------------------------------------------
(* The theorem about what is read                                         *)

LEMMA ConservedInit == Init => CInv
PROOF
<1> SUFFICES ASSUME Init PROVE CInv OBVIOUS
<1>1. /\ buf = [h \in Handles |-> NULL] /\ stack = <<>>
      /\ at = [f \in Files |-> 0] /\ taken = [h \in Handles |-> <<>>] /\ dropped = {}
  BY DEF Init
<1>2. Current = NULL /\ Live = {} BY <1>1 DEF Current, Live
<1>3. Loaded /\ Idle BY <1>2 DEF Loaded, Idle
<1>4. \A h \in Handles : Through(h) = <<>>
  <2>1. \A h \in Handles : taken[h] = <<>> /\ Rest(h) = <<>> BY <1>1, <1>2 DEF Rest
  <2>2. <<>> \o <<>> = <<>> OBVIOUS
  <2>3. QED BY <2>1, <2>2 DEF Through
<1>5. \A h \in Handles : h \notin Files BY BuffersAssumption
<1>6. \A s \in Sources : Delivered(s) = 0 BY <1>1, <1>5 DEF Delivered, Sources
<1> DEFINE T == [h \in Handles |-> <<>>]
           V == [s \in Sources |-> 0]
<1>7. Streams = T BY <1>4 DEF Streams
<1>8. Deliveries = V BY <1>6 DEF Deliveries
<1>9. Kept(T, {}, at, made, V)
  <2>1. T \in [Handles -> Seq(Chars)] /\ V \in [Sources -> Nat] BY EmptySeq
  <2>2. \A h \in Handles : DOMAIN T[h] = {} OBVIOUS
  <2>3. \A s \in Sources : V[s] = 0 OBVIOUS
  <2> HIDE DEF T, V
  <2>4. Known(T, {}, at, made) /\ Apart(T, {}) /\ Once(T) /\ Ordered(T)
    BY <2>2 DEF Known, Apart, Once, Ordered
  <2>5. Complete(T, {}, V) BY <2>3 DEF Complete
  <2>6. QED BY <2>1, <2>4, <2>5 DEF Kept
<1>10. taken \in [Handles -> Seq(Chars)] BY <1>1, EmptySeq
<1> HIDE DEF T, V
<1>11. Account BY <1>1, <1>7, <1>8, <1>9 DEF Account
<1>12. QED BY <1>3, <1>10, <1>11 DEF CInv

LEMMA UserKeeps == IInv /\ IInv' /\ CInv /\ User => CInv'
PROOF
<1> SUFFICES ASSUME IInv, IInv', CInv, User PROVE CInv' OBVIOUS
<1>1. ASSUME NEW h \in Handles, yy_switch_to_buffer(h) PROVE CInv' BY <1>1, SwitchKeeps
<1>2. ASSUME NEW h \in Handles, yypush_buffer_state(h) PROVE CInv' BY <1>2, PushKeeps
<1>3. ASSUME NEW h \in Handles, yy_delete_buffer(h) PROVE CInv' BY <1>3, DeleteKeeps
<1>4. ASSUME NEW h \in Handles, yy_flush_buffer(h) PROVE CInv' BY <1>4, FlushKeeps
<1>5. ASSUME NEW h \in Handles, NEW f \in Files, Create(h, f) PROVE CInv' BY <1>5, CreateKeeps
<1>6. ASSUME NEW h \in Handles, NEW f \in Files, RestartNew(h, f) PROVE CInv'
  BY <1>6, RestartNewKeeps
<1>7. ASSUME NEW h \in Handles, NEW n \in Strings, Scan(h, n) PROVE CInv' BY <1>7, ScanKeeps
<1>8. ASSUME NEW f \in Files, yyrestart(f) PROVE CInv' BY <1>8, YyrestartKeeps
<1>9. CASE yypop_buffer_state BY <1>9, PopKeeps
<1>10. CASE yylex_destroy BY <1>10, DestroyKeeps
<1>11. QED
  BY <1>1, <1>2, <1>3, <1>4, <1>5, <1>6, <1>7, <1>8, <1>9, <1>10 DEF User

LEMMA ScannerKeeps == IInv /\ IInv' /\ CInv /\ (Scanner \/ Wrap) => CInv'
PROOF
<1> SUFFICES ASSUME IInv, IInv', CInv, Scanner \/ Wrap PROVE CInv' OBVIOUS
<1>1. CASE FirstCall BY <1>1, FirstCallKeeps
<1>2. ASSUME NEW k \in 1 .. n_chars, Token(k) PROVE CInv'
  <2>1. k \in Nat BY DEF IInv, Globals
  <2>2. QED BY <1>2, <2>1, TokenKeeps
<1>3. ASSUME NEW f \in Files, yyin = f, NEW r \in 1 .. Lengths[f], Refill(r) \/ InputRefill(r)
      PROVE CInv'
  <2>1. r \in Nat /\ r > 0 BY BuffersAssumption
  <2>2. QED BY <1>3, <2>1, RefillKeeps, InputRefillKeeps
<1>4. CASE EndOfFile BY <1>4, EndOfFileKeeps
<1>5. CASE InputChar BY <1>5, InputCharKeeps
<1>6. CASE InputEnd BY <1>6, InputEndKeeps
<1>7. CASE WrapDone BY <1>7, WrapDoneKeeps
<1>8. CASE InputDone BY <1>8, InputDoneKeeps
<1>9. ASSUME NEW f \in Files, WrapMore(f) \/ InputMore(f) PROVE CInv'
  BY <1>9, WrapMoreKeeps, InputMoreKeeps
<1>10. CASE EndMissed BY <1>10, EndMissedKeeps
<1>11. QED
  BY <1>1, <1>2, <1>3, <1>4, <1>5, <1>6, <1>7, <1>8, <1>9, <1>10 DEF Scanner, Wrap

LEMMA ConservedStep == IInv /\ IInv' /\ CInv /\ [Next]_vars => CInv'
PROOF
<1>1. ASSUME IInv, IInv', CInv, UNCHANGED vars PROVE CInv'
  <2>1. /\ UNCHANGED <<buf, made, stack, top, c_buf_p, n_chars, hold_char, history>>
        /\ UNCHANGED <<globals, switched, init, pc>>
    BY <1>1 DEF vars, globals
  <2>2. Current' = Current BY <2>1 DEF Current
  <2>3. Loaded' /\ Idle' BY <1>1, <2>1, <2>2, LeftAlone
  <2>4. QED BY <1>1, <2>1, <2>3, NothingMoves
<1>2. QED BY <1>1, UserKeeps, ScannerKeeps DEF Next

LEMMA AccountMeans == CInv => Conserved
PROOF
<1> SUFFICES ASSUME CInv PROVE Conserved OBVIOUS
<1>1. Kept(Streams, dropped, at, made, Deliveries) BY DEF CInv, Account
<1>2. \A h \in Handles : Streams[h] = Through(h) BY DEF Streams
<1>3. ASSUME NEW s \in Sources, NEW i \in 1 .. Delivered(s)
      PROVE  <<s, i>> \in dropped \/ \E h \in Handles : <<s, i>> \in Range(Through(h))
  <2>1. Deliveries[s] = Delivered(s) BY DEF Deliveries
  <2>2. Delivered(s) \in Nat BY <1>1, <2>1 DEF Kept
  <2>3. i \in Nat /\ 1 <= i /\ i <= Delivered(s) BY <2>2
  <2>4. Present(Streams, dropped, s, i) BY <1>1, <2>1, <2>3 DEF Kept, Complete
  <2>5. QED BY <1>2, <2>4 DEF Present, Range
<1>4. ASSUME NEW h \in Handles PROVE Range(Through(h)) \cap (dropped \cup {NUL}) = {}
  <2> SUFFICES ASSUME NEW i \in DOMAIN Through(h), Through(h)[i] \in dropped \cup {NUL}
               PROVE  FALSE
    BY DEF Range
  <2>1. Through(h)[i] \notin dropped BY <1>1, <1>2 DEF Kept, Apart
  <2>2. From(Through(h)[i], at, made) BY <1>1, <1>2 DEF Kept, Known
  <2>3. PICK s \in Sources, n \in Nat : Through(h)[i] = <<s, n>> BY <2>2 DEF From
  <2>4. <<s, n>> # NUL BY DEF NUL
  <2>5. QED BY <2>1, <2>3, <2>4
<1>5. \A g, h \in Handles : \A i \in DOMAIN Through(g), j \in DOMAIN Through(h) :
        Through(g)[i] = Through(h)[j] => g = h /\ i = j
  BY <1>1, <1>2 DEF Kept, Once
<1>6. \A h \in Handles : \A i, j \in DOMAIN Through(h) :
        i < j /\ Through(h)[i][1] = Through(h)[j][1] => Through(h)[i][2] < Through(h)[j][2]
  BY <1>1, <1>2 DEF Kept, Ordered
<1>7. QED BY <1>3, <1>4, <1>5, <1>6 DEF Conserved

\* Whatever the user's actions and yywrap() do with buffers, as long as they keep
\* to the rules, and whatever parts of the files each read returns: of every
\* character that was read, or is scanned from memory, the user has got one copy
\* through a token or input(), or one copy waits in one buffer, or the user has
\* discarded it; none is the NUL that ends yytext, and through each buffer those
\* of one file come in order.
THEOREM NothingIsLost == Spec => []Conserved
PROOF
<1>1. Init => IInv /\ CInv BY BuffersInit, ConservedInit
<1>2. IInv /\ CInv /\ [Next]_vars => (IInv /\ CInv)'
  BY BuffersStep, ConservedStep
<1>3. IInv /\ CInv => Conserved BY AccountMeans
<1>4. QED BY <1>1, <1>2, <1>3, PTL DEF Spec
============================================================================
