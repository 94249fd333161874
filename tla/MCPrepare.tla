------------------------------ MODULE MCPrepare ------------------------------
(***************************************************************************)
(* Small instances of Prepare.                                             *)
(***************************************************************************)
EXTENDS Prepare
===============================================================================
