---------------------------- MODULE MCProcTable ----------------------------
(***************************************************************************)
(* Instances of ProcTable for TLC.                                         *)
(***************************************************************************)
EXTENDS ProcTableInv, TLC
=============================================================================
