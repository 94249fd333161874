------------------------------ MODULE MCRunGuard ------------------------------
(***************************************************************************)
(* TLC instances of RunGuard: one server; the PREPARE directories of two   *)
(* pairs under one configuration id (derived/processing/<pair>/            *)
(* <config>: one last component, status file inside) and the directory of  *)
(* one pair under a stage that keeps its status files deeper.              *)
(***************************************************************************)
EXTENDS RunGuard

CONSTANTS w1, w2, w3, p1, p2, prepareA, prepareB, routing, config, pair

OneServer == [w \in Worker |-> p1]

LastComponent == [r \in RunRoot |-> IF r = routing THEN pair ELSE config]
===============================================================================
