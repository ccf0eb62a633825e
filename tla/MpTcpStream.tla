---------------------------- MODULE MpTcpStream -----------------------------
(***************************************************************************)
(* What an MPTCP connection promises its applications, whatever its        *)
(* sub-flows do: one stream of bytes, of which the reader gets every byte  *)
(* once and in order, and never one the writer has not written.            *)
(***************************************************************************)
EXTENDS Integers, Sequences

CONSTANT StreamLength   \* the bytes the writer may write

VARIABLES
  written,    \* the number of bytes the writer has handed over
  delivered   \* the bytes the reader has been given, the n-th written named n

streamVars == <<written, delivered>>

StreamInit == written = 0 /\ delivered = << >>

Write ==
  /\ written' \in written + 1 .. StreamLength
  /\ UNCHANGED delivered

Deliver ==
  /\ \E n \in Len(delivered) + 1 .. written : delivered' = [i \in 1 .. n |-> i]
  /\ UNCHANGED written

StreamNext == Write \/ Deliver

StreamSpec == StreamInit /\ [][StreamNext]_streamVars

LiveStreamSpec == StreamSpec /\ WF_streamVars(Deliver)
=============================================================================
