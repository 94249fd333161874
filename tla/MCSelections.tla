----------------------------- MODULE MCSelections -----------------------------
(***************************************************************************)
(* Small instances of the two selections: SPATIAL's over two tiles of up   *)
(* to three candidates each on a grid of two rows, and M8's over all lists *)
(* of up to six correspondences.                                           *)
(***************************************************************************)
EXTENDS SpatialReliability, BalancedSelection

\* A behavior looks at one of the two; the other has no input.
SelectionsInit ==
    \/ corr = <<>> /\ M8Init /\ Init
    \/ tiles = <<<<>>>> /\ Init /\ M8Init

SelectionsNext ==
    \/ corr = <<>> /\ Next /\ UNCHANGED m8_vars
    \/ corr # <<>> /\ M8Next /\ UNCHANGED vars

SelectionsSpec == SelectionsInit /\ [][SelectionsNext]_<<vars, m8_vars>>

Mapped(cell) == [finite |-> TRUE, inlier |-> TRUE, a |-> cell, b |-> NoCell]

\* Inliers of two neighbouring cells and of one apart, one that only the
\* second side maps and one that neither does, an outlier, and a candidate
\* whose coordinates are not finite.
SomeCandidates ==
    {Mapped(<<0, 0>>), Mapped(<<1, 1>>), Mapped(<<0, 3>>),
     [Mapped(NoCell) EXCEPT !.b = <<1, 1>>], Mapped(NoCell),
     [Mapped(<<0, 0>>) EXCEPT !.inlier = FALSE],
     [Mapped(NoCell) EXCEPT !.finite = FALSE, !.inlier = FALSE]}

\* Mappings by residual and cell: three in one cell, two in the next row, one
\* alone; the last is an outlier.
SomeMappings == 1 .. 7
Residuals == <<0, 1, 1, 0, 2, 2, 9>>
Cells == <<<<0, 0>>, <<0, 0>>, <<0, 0>>, <<1, 0>>, <<1, 0>>, <<0, 1>>, <<0, 1>>>>
===============================================================================
