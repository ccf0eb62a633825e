------------------------------ MODULE MCClose -------------------------------
(***************************************************************************)
(* Small instances of MpTcpClose for TLC.                                  *)
(***************************************************************************)
EXTENDS MpTcpCloseInv
=============================================================================
