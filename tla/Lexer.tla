------------------------------- MODULE Lexer -------------------------------
(***************************************************************************)
(* What a generated scanner promises, with no buffer in sight.             *)
(*                                                                         *)
(* The input is a sequence of segments (the files, or the stretches of a   *)
(* terminal's input, that end-of-file marks separate).  A call of yylex()  *)
(* removes the longest prefix of the current segment that a rule matches;  *)
(* the action may give a part of it back (yyless), keep it for the next    *)
(* token (yymore), push characters (unput) or take them (input).  How many *)
(* characters each read delivers cannot be seen here: this is the module   *)
(* Scanner is shown to implement.                                          *)
(***************************************************************************)
EXTENDS Integers, Sequences, FiniteSetsExt

CONSTANTS
  Rules,     \* the numbers of the rules
  Delta,     \* the automaton: Delta[s][c], 0 when it jams
  Accept,    \* Accept[s]: the rule a state accepts, 0 when none
  Start,     \* its start state
  Pushable,  \* the characters the actions pass to unput()
  NUL        \* the character '\0', which input() also returns at the end

VARIABLES
  rest,      \* what is left of the current segment
  later,     \* the segments after it
  carry,     \* the text yymore() kept for the next token
  text,      \* yytext, while an action runs
  more,      \* whether that action called yymore()
  phase,     \* "scan", "action", "input", "eof" or "fatal"
  out        \* what the program saw: tokens, characters, ends of file

absvars == <<rest, later, carry, text, more, phase, out>>

\* The state the automaton reaches after the first n characters of s.
Reached(s, n) ==
  LET r[i \in 0 .. n] == IF i = 0 THEN Start
                         ELSE IF r[i - 1] = 0 THEN 0 ELSE Delta[r[i - 1]][s[i]]
  IN  r[n]

Accepted(s, n) == Reached(s, n) # 0 /\ Accept[Reached(s, n)] # 0

MatchLengths(s) == {n \in 1 .. Len(s) : Accepted(s, n)}

Drop(s, n) == SubSeq(s, n + 1, Len(s))

\* unput() and input() destroy yytext.
Gone == <<-1>>
Intact == phase = "action" /\ text # Gone

----------------------------------------------------------------------------

Init(segments) ==
  /\ rest = Head(segments)
  /\ later = Tail(segments)
  /\ carry = <<>>
  /\ text = <<>>
  /\ more = FALSE
  /\ phase = "scan"
  /\ out = <<>>

\* yylex() matches the longest prefix and runs the action of its rule.
Token ==
  /\ phase = "scan"
  /\ MatchLengths(rest) # {}
  /\ LET n == Max(MatchLengths(rest))
         t == carry \o SubSeq(rest, 1, n)
     IN  /\ text' = t
         /\ rest' = Drop(rest, n)
         /\ out' = Append(out, <<"token", Accept[Reached(rest, n)], t>>)
  /\ phase' = "action"
  /\ carry' = <<>>
  /\ more' = FALSE
  /\ UNCHANGED later

\* yyless(n): all but the first n characters of yytext are read again.
Less(n) ==
  /\ Intact
  /\ n \in 0 .. Len(text)
  /\ text' = SubSeq(text, 1, n)
  /\ rest' = Drop(text, n) \o rest
  /\ UNCHANGED <<later, carry, more, phase, out>>

\* yymore(): the next token is appended to this one.
More ==
  /\ Intact
  /\ more' = TRUE
  /\ UNCHANGED <<rest, later, carry, text, phase, out>>

\* unput(c): c is the next character; yytext is lost.
Unput(c) ==
  /\ phase = "action" /\ ~more
  /\ rest' = <<c>> \o rest
  /\ text' = Gone
  /\ UNCHANGED <<later, carry, more, phase, out>>

\* unput() may find no room for the character.
PushBackOverflow ==
  /\ phase = "action" /\ ~more
  /\ phase' = "fatal"
  /\ UNCHANGED <<rest, later, carry, text, more, out>>

\* input(): the next character of the input, whichever segment it is in.
BeginInput ==
  /\ phase = "action" /\ ~more
  /\ phase' = "input"
  /\ text' = Gone
  /\ UNCHANGED <<rest, later, carry, more, out>>

EndInput ==
  /\ phase = "input"
  /\ phase' = "action"
  /\ \/ /\ rest # <<>>
        /\ rest' = Tail(rest)
        /\ out' = Append(out, <<"input", Head(rest)>>)
     \/ /\ rest = <<>> /\ later = <<>>
        /\ out' = Append(out, <<"input", NUL>>)
        /\ UNCHANGED rest
  /\ UNCHANGED <<later, carry, text, more>>

\* The action ends; the scanner is called again, or goes on by itself.
Return ==
  /\ phase = "action"
  /\ phase' = "scan"
  /\ carry' = IF more THEN text ELSE <<>>
  /\ text' = <<>>
  /\ more' = FALSE
  /\ UNCHANGED <<rest, later, out>>

\* A segment ends and yywrap() says that another follows.
NextSegment ==
  /\ phase \in {"scan", "input"} /\ rest = <<>> /\ later # <<>>
  /\ rest' = Head(later)
  /\ later' = Tail(later)
  /\ carry' = <<>>
  /\ UNCHANGED <<text, more, phase, out>>

\* The last segment ends: the <<EOF>> action.
EndOfFile ==
  /\ phase = "scan" /\ rest = <<>> /\ later = <<>>
  /\ phase' = "eof"
  /\ carry' = <<>>
  /\ out' = Append(out, <<"eof">>)
  /\ UNCHANGED <<rest, later, text, more>>

\* The caller may call the scanner again after the end of file.
CallAgain ==
  /\ phase = "eof"
  /\ phase' = "scan"
  /\ UNCHANGED <<rest, later, carry, text, more, out>>

Next ==
  \/ Token
  \/ \E n \in 0 .. Len(text) : Less(n)
  \/ More
  \/ \E c \in Pushable : Unput(c)
  \/ PushBackOverflow
  \/ BeginInput
  \/ EndInput
  \/ Return
  \/ NextSegment
  \/ EndOfFile
  \/ CallAgain
=============================================================================
