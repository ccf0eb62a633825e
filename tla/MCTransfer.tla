---------------------------- MODULE MCTransfer -----------------------------
(***************************************************************************)
(* Small instances of MpTcpTransfer for TLC.  The values of the constants  *)
(* that need a name are here, the numbers are in the .cfg files.           *)
(***************************************************************************)
EXTENDS MpTcpTransferInv

(* Which SYNs of InitiateSubflows were lost. *)
NoSynLost == {}
SecondSynLost == {1}
=============================================================================
