----------------------------- MODULE MCWebClient ------------------------------
(***************************************************************************)
(* Small instance of WebClient: two calls of the pages beside sign-in and  *)
(* sign-out, and one refresh that is lost.                                 *)
(***************************************************************************)
EXTENDS WebClient

CONSTANTS r1, r2
===============================================================================
