------------------------------ MODULE LogText ------------------------------
(***************************************************************************)
(* The text of a JSONL file as a sequence of numbered lines.  An append    *)
(* that is interrupted leaves the start of a line; what is written next    *)
(* ends that line, which then is nobody's record.                          *)
(***************************************************************************)
EXTENDS Integers, Sequences

Torn == 0   \* a line without its end: only ever the last of a text
Junk == -1  \* a line two writers share

EndsTorn(s) == s # << >> /\ s[Len(s)] = Torn

\* What the start of a line becomes when t is written behind it.
Ended(line) == IF line = Torn THEN Torn ELSE Junk

\* The file that holds s, after t is written at its end.
Join(s, t) == IF t # << >> /\ EndsTorn(s)
              THEN [s EXCEPT ![Len(s)] = Ended(t[1])] \o Tail(t)
              ELSE s \o t

Write(s, line) == Join(s, <<line>>)

\* component_lines: an unfinished last line is not yielded.
CompleteLines(s) == IF EndsTorn(s) THEN SubSeq(s, 1, Len(s) - 1) ELSE s
=============================================================================
