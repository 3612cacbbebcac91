----------------------------- MODULE OctetStream -----------------------------
(***************************************************************************)
(* What the front end of each protocol decoder promises, without any       *)
(* protocol: the octets of a line are divided into consecutive frames from *)
(* the front, and the process exits clean only when every line came out    *)
(* whole.                                                                  *)
(***************************************************************************)
EXTENDS Integers, Sequences

CONSTANTS Least    \* the fewest octets a frame has

VARIABLES line,    \* number of octets of the line
          offset,  \* octets divided so far
          frames,  \* the frames of the line: where each starts and its size
          broken,  \* some line was left unfinished, or was not hex
          status   \* "idle", "reading", or how the process exited

vars == <<line, offset, frames, broken, status>>

Init ==
  /\ line = 0 /\ offset = 0 /\ frames = <<>>
  /\ broken = FALSE
  /\ status = "idle"

NextLine ==
  /\ status = "idle"
  /\ line' \in Nat
  /\ offset' = 0 /\ frames' = <<>>
  /\ status' = "reading"
  /\ UNCHANGED broken

NotHex ==
  /\ status = "idle"
  /\ broken' = TRUE
  /\ UNCHANGED <<line, offset, frames, status>>

Frame ==
  /\ status = "reading"
  /\ \E size \in Least..(line - offset) :
       /\ frames' = Append(frames, [at |-> offset, size |-> size])
       /\ offset' = offset + size
  /\ UNCHANGED <<line, broken, status>>

EndLine ==
  /\ status = "reading"
  /\ broken' = (broken \/ offset < line)
  /\ line' = 0 /\ offset' = 0 /\ frames' = <<>>
  /\ status' = "idle"

Exit ==
  /\ status = "idle"
  /\ status' = IF broken THEN "errors" ELSE "clean"
  /\ UNCHANGED <<line, offset, frames, broken>>

\* No input to read.
Unreadable ==
  /\ status = "idle" /\ line = 0 /\ ~broken
  /\ status' = "unusable"
  /\ UNCHANGED <<line, offset, frames, broken>>

Next == NextLine \/ NotHex \/ Frame \/ EndLine \/ Exit \/ Unreadable

Spec == Init /\ [][Next]_vars
=============================================================================
