-------------------------- MODULE MpTcpEndedStream --------------------------
(***************************************************************************)
(* What closing an MPTCP connection promises, whatever its sub-flows do:   *)
(* the byte stream of MpTcpStream comes to one end.  The reader sees it    *)
(* after the writer has shut the stream and the last byte was delivered,   *)
(* unless the connection was aborted, and nothing comes after it.          *)
(***************************************************************************)
EXTENDS MpTcpStream

VARIABLES
  shut,      \* the writer has said that it writes no more
  ended,     \* the reader has been told that nothing more comes
  aborted    \* one end has given the connection up

endVars == <<shut, ended, aborted>>

EndedInit == StreamInit /\ shut = FALSE /\ ended = FALSE /\ aborted = FALSE

WriteMore == ~ shut /\ Write /\ UNCHANGED endVars

DeliverMore == ~ ended /\ Deliver /\ UNCHANGED endVars

Shut ==
  /\ ~ shut /\ shut' = TRUE
  /\ UNCHANGED <<streamVars, ended, aborted>>

(* The reader comes to the end of the stream. *)
End ==
  /\ ~ ended /\ ended' = TRUE
  /\ shut /\ Len(delivered) = written
  /\ UNCHANGED <<streamVars, shut, aborted>>

(* An abort may reach the reader at once, later or not at all. *)
Abort ==
  /\ aborted' = TRUE
  /\ ended' \in {ended, TRUE}
  /\ UNCHANGED <<streamVars, shut>>

EndedNext == WriteMore \/ DeliverMore \/ Shut \/ End \/ Abort

EndedSpec == EndedInit /\ [][EndedNext]_<<streamVars, endVars>>
=============================================================================
