---------------------------- MODULE MCPairRegistry ----------------------------
(***************************************************************************)
(* Small instances of PairRegistry: two threads, alike.                    *)
(***************************************************************************)
EXTENDS PairRegistry, TLC

Symmetry == Permutations(Thread) \cup Permutations(Files)
===============================================================================
