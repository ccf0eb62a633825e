---------------------------- MODULE MCHandshake ----------------------------
(***************************************************************************)
(* Small instances of MpTcpHandshake for TLC.                              *)
(***************************************************************************)
EXTENDS MpTcpHandshake

AllPathManagers == {"Default", "FullMesh", "NdiffPorts"}
=============================================================================
