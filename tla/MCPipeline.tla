------------------------------ MODULE MCPipeline ------------------------------
(***************************************************************************)
(* Small instances of Pipeline: two match tiles and, of every stage, the   *)
(* runs that the question at hand needs.                                   *)
(***************************************************************************)
EXTENDS Pipeline

TwoTiles == <<"t1", "t2">>

Runs(match, m8, trust, spatial, registration, metrics) ==
    [MATCH |-> match, M8 |-> m8, TRUST |-> trust, SPATIAL |-> spatial,
     REGISTRATION |-> registration, METRICS |-> metrics]

\* A second SPATIAL run, before or after REGISTRATION; MATCH and TRUST again;
\* a deep matching run somewhere before SPATIAL; METRICS twice.
SelectedOrJudgedAgain ==
    {Runs(1, 0, 1, 2, 1, 0), Runs(2, 0, 2, 0, 0, 0), Runs(1, 1, 1, 1, 0, 0),
     Runs(1, 0, 1, 1, 1, 2)}
===============================================================================
