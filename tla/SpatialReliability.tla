-------------------------- MODULE SpatialReliability --------------------------
(***************************************************************************)
(* What one SPATIAL run computes (backend/app/spatial/service.py, the loop *)
(* of SpatialService.run; reliability.py; selection.py): each TRUSTED      *)
(* tile's candidates are judged again, every inlier becomes a record in a  *)
(* cell of the scene grid, cells with enough records are reliable, a flood *)
(* fill labels the connected components of reliable cells, and the largest *)
(* components are the region whose records are selected for REGISTRATION.  *)
(*                                                                         *)
(* A candidate is what the run tells apart: whether its coordinates are    *)
(* finite, the cell each side maps to (NoCell when it maps nowhere), and   *)
(* whether the tile's model counts it as an inlier.  As configured,        *)
(* boundary.edge_policy is REPORT_ONLY (configs/app.yaml): no component is *)
(* left out for touching the edge of the grid.  SpatialStage models the    *)
(* files of the same run.                                                  *)
(***************************************************************************)
EXTENDS Integers, FiniteSets

CONSTANTS
    Rows, Cols,                         \* the scene grid
    NoCell,
    Candidate, MaxCandidates,           \* a tile's candidates, and how many
    MaxTiles,                           \* trusted tiles
    min_verified_inliers_per_cell, min_trusted_tiles_per_cell,
    connectivity,                       \* 4 or 8
    min_component_cells, min_component_correspondences,
    min_selected_region_cells, max_selected_correspondences

Cell == (0 .. Rows - 1) \X (0 .. Cols - 1)

ASSUME GridAssumption ==
    /\ {Rows, Cols, MaxTiles, MaxCandidates} \subseteq Nat \ {0}
    /\ NoCell \notin Cell
ASSUME CandidateAssumption ==
    /\ Candidate \subseteq [finite : BOOLEAN, inlier : BOOLEAN,
                            a : Cell \cup {NoCell}, b : Cell \cup {NoCell}]
    /\ \A c \in Candidate : c.inlier => c.finite
ASSUME CapAssumption ==
    {min_selected_region_cells, max_selected_correspondences} \subseteq Nat

VARIABLES
    tiles,      \* the trusted tiles' candidates, tile after tile
    k,          \* the tile that comes next
    records,    \* verified_records
    usable,     \* the finite candidates with their cells
    failed,     \* recompute_failed
    processed,  \* processed_tiles
    late,       \* timeout_flagged
    reliable,   \* result.reliable_cells
    stack,      \* _label_components: cells seen and not yet visited,
    cells_local,        \* the cells of the component it is at,
    components,         \* and the ones it has found
    region,     \* selected_ids, then plan.selected_cell_ids
    primary,    \* the reason of each record
    pc

tile_vars == <<tiles, k, records, usable, failed, processed, late>>
label_vars == <<stack, cells_local, components>>
vars == <<tile_vars, reliable, label_vars, region, primary, pc>>

Tile == UNION {[1 .. n -> Candidate] : n \in 0 .. MaxCandidates}

Init ==
    /\ tiles \in UNION {[1 .. n -> Tile] : n \in 1 .. MaxTiles}
    /\ k = 1 /\ failed = 0 /\ processed = 0 /\ late = FALSE
    /\ records = {} /\ usable = {}
    /\ reliable = {} /\ stack = {} /\ cells_local = {} /\ components = {}
    /\ region = {} /\ primary = <<>>
    /\ pc = "tiles"

-------------------------------------------------------------------------------
(* The tiles *)

SceneKey(c) == IF c.a # NoCell THEN c.a ELSE c.b

\* np.where(finite)[0], and the positions of the inliers among them.
FinitePositions(tile) == {p \in DOMAIN tile : tile[p].finite}
InlierPositions(tile) == {p \in FinitePositions(tile) : tile[p].inlier}

\* The index of a position in one of these arrays.
IndexIn(p, positions) == Cardinality({q \in positions : q < p})

\* Faulty variant: the cells are looked up in the tile's array of all
\* candidates, the ones that are not finite included.
RecordsWithGaps(tile) ==
    {[tile |-> k, cand |-> at[1], key |-> SceneKey(tile[at[2]])] :
        at \in {at \in InlierPositions(tile) \X DOMAIN tile :
                    IndexIn(at[1], InlierPositions(tile))
                        = IndexIn(at[2], DOMAIN tile)}}

\* The cells are an array over the finite candidates, and inlier number j
\* takes cell number j.
Records(tile) ==
    {[tile |-> k, cand |-> at[1], key |-> SceneKey(tile[at[2]])] :
        at \in {at \in InlierPositions(tile) \X FinitePositions(tile) :
                    IndexIn(at[1], InlierPositions(tile))
                        = IndexIn(at[2], FinitePositions(tile))}}

UsableCells(tile) ==
    {[tile |-> k, cand |-> p, key |-> SceneKey(tile[p])] :
        p \in FinitePositions(tile)}

MoreTiles == pc = "tiles" /\ k \in DOMAIN tiles /\ ~late

UseTile ==
    /\ MoreTiles
    /\ FinitePositions(tiles[k]) # {}
    /\ records' = records \cup Records(tiles[k])
    /\ usable' = usable \cup UsableCells(tiles[k])
    /\ processed' = processed + 1
    /\ k' = k + 1
    /\ UNCHANGED <<tiles, failed, late, reliable, label_vars, region, primary,
                   pc>>

\* No candidate is finite, the tile's file cannot be read, or the model that
\* TRUST accepted does not come out again.
FailTile ==
    /\ MoreTiles
    /\ failed' = failed + 1
    /\ k' = k + 1
    /\ UNCHANGED <<tiles, records, usable, processed, late, reliable,
                   label_vars, region, primary, pc>>

\* max_runtime_seconds are over before the next tile.
RunLate ==
    /\ MoreTiles
    /\ late' = TRUE
    /\ UNCHANGED <<tiles, k, records, usable, failed, processed, reliable,
                   label_vars, region, primary, pc>>

TilesDone == pc = "tiles" /\ (k \notin DOMAIN tiles \/ late)
AllFailed == failed > 0 /\ processed = 0

\* Every tile failed: the run is FAILED and nothing is selected.
RefuseAll ==
    /\ TilesDone /\ AllFailed
    /\ pc' = "refused"
    /\ UNCHANGED <<tile_vars, reliable, label_vars, region, primary>>

-------------------------------------------------------------------------------
(* compute_reliability *)

RecordsIn(cell) == {r \in records : r.key = cell}
Verified(cell) == Cardinality(RecordsIn(cell))
Usable(cell) == Cardinality({u \in usable : u.key = cell})
TrustedTiles(cell) == {r.tile : r \in RecordsIn(cell)}

ReliableCells ==
    {c \in Cell : /\ Verified(c) + Usable(c) > 0
                  /\ Verified(c) >= min_verified_inliers_per_cell
                  /\ Cardinality(TrustedTiles(c)) >= min_trusted_tiles_per_cell}

Aggregate ==
    /\ TilesDone /\ ~AllFailed
    /\ reliable' = ReliableCells
    /\ pc' = "label"
    /\ UNCHANGED <<tile_vars, label_vars, region, primary>>

-------------------------------------------------------------------------------
(* _label_components: a flood fill from one cell after the other *)

RowMajor(c, d) == c[1] < d[1] \/ (c[1] = d[1] /\ c[2] < d[2])

Adjacent(c, d) ==
    /\ c # d
    /\ c[1] - d[1] \in -1 .. 1
    /\ c[2] - d[2] \in -1 .. 1
    /\ connectivity = 4 => (c[1] = d[1] \/ c[2] = d[2])

\* A cell is marked when it is pushed.
visited == (UNION components) \cup cells_local \cup stack

StartComponent ==
    /\ pc = "label" /\ stack = {} /\ cells_local = {}
    /\ \E c \in reliable \ visited :
          /\ \A d \in reliable \ visited : ~RowMajor(d, c)
          /\ stack' = {c}
    /\ UNCHANGED <<tile_vars, reliable, cells_local, components, region,
                   primary, pc>>

\* Which cell is popped makes no difference to the components.
Visit(c) ==
    /\ pc = "label"
    /\ cells_local' = cells_local \cup {c}
    /\ stack' = (stack \ {c})
                  \cup {d \in reliable \ visited : Adjacent(c, d)}
    /\ UNCHANGED <<tile_vars, reliable, components, region, primary, pc>>

\* Faulty variant: the fill stops at the first cell's neighbours.
FinishAfterOne ==
    /\ pc = "label" /\ cells_local # {}
    /\ components' = components \cup {cells_local}
    /\ cells_local' = {} /\ stack' = {}
    /\ UNCHANGED <<tile_vars, reliable, region, primary, pc>>

FinishComponent ==
    /\ pc = "label" /\ stack = {} /\ cells_local # {}
    /\ components' = components \cup {cells_local}
    /\ cells_local' = {}
    /\ UNCHANGED <<tile_vars, reliable, stack, region, primary, pc>>

EndLabels ==
    /\ pc = "label" /\ stack = {} /\ cells_local = {}
    /\ reliable \subseteq visited
    /\ pc' = "plan"
    /\ UNCHANGED <<tile_vars, reliable, label_vars, region, primary>>

-------------------------------------------------------------------------------
(* plan_selection *)

Correspondences(p) == Cardinality({r \in records : r.key \in p})

EligibleComponents ==
    {p \in components :
        /\ Cardinality(p) >= min_component_cells
        /\ Correspondences(p) >= min_component_correspondences}

\* Of two components alike the code takes the one whose number is less as a
\* string; here either.
LargerEvidence(p, q) ==
    \/ Cardinality(p) > Cardinality(q)
    \/ /\ Cardinality(p) = Cardinality(q)
       /\ Correspondences(p) > Correspondences(q)

Covered == region # {} /\ Cardinality(region) >= min_selected_region_cells
Remaining == {p \in EligibleComponents : ~ p \subseteq region}

\* Components are taken, largest first, until the region is large enough.
TakeComponent(p) ==
    /\ pc = "plan" /\ ~Covered
    /\ \A q \in Remaining : ~LargerEvidence(q, p)
    /\ region' = region \cup p
    /\ UNCHANGED <<tile_vars, reliable, label_vars, primary, pc>>

-------------------------------------------------------------------------------
(* assign_reasons *)

SelectedBefore(r, s) ==
    \/ RowMajor(r.key, s.key)
    \/ /\ r.key = s.key
       /\ r.tile < s.tile \/ (r.tile = s.tile /\ r.cand < s.cand)

\* Faulty variant: the cap falls on the records in the order they were made.
KeptInOrder(r, eligible) ==
    Cardinality({s \in eligible :
                    s.tile < r.tile \/ (s.tile = r.tile /\ s.cand < r.cand)})
        < max_selected_correspondences

\* selected[:cap]
Kept(r, eligible) ==
    Cardinality({s \in eligible : SelectedBefore(s, r)})
        < max_selected_correspondences

\* A component is seen ("projected") for its cells alone.
Projected(cell) ==
    \E p \in components : cell \in p /\ Cardinality(p) >= min_component_cells

Reason(r, cells) ==
    LET eligible == {s \in records : s.key \in cells}
    IN  CASE r.key = NoCell -> "NOT_MAPPABLE"
          [] r.key # NoCell /\ r \in eligible ->
                IF Kept(r, eligible) THEN "SUPPORTED_REGION" ELSE "LIMIT"
          [] OTHER ->
                IF r.key \in reliable /\ Projected(r.key)
                THEN "OUTSIDE_SELECTED_REGION" ELSE "LOW_SPATIAL_SUPPORT"

\* The region stands if it is large enough.
Decide ==
    /\ pc = "plan"
    /\ Covered \/ Remaining = {}
    /\ region' = IF Covered THEN region ELSE {}
    /\ primary' = [r \in records |-> Reason(r, region')]
    /\ pc' = "decided"
    /\ UNCHANGED <<tile_vars, reliable, label_vars>>

-------------------------------------------------------------------------------

Next ==
    \/ UseTile \/ FailTile \/ RunLate \/ RefuseAll \/ Aggregate
    \/ StartComponent \/ (\E c \in stack : Visit(c)) \/ FinishComponent
    \/ EndLabels
    \/ (\E p \in Remaining : TakeComponent(p)) \/ Decide

Spec == Init /\ [][Next]_vars

-------------------------------------------------------------------------------
(* Properties *)

Selected == {r \in DOMAIN primary : primary[r] = "SUPPORTED_REGION"}
OwnCell(r) == SceneKey(tiles[r.tile][r.cand])
OutlierBefore(r) ==
    \E p \in 1 .. r.cand - 1 :
        tiles[r.tile][p].finite /\ ~tiles[r.tile][p].inlier

\* SpatialService.run with assign_reasons: what goes to REGISTRATION lies in
\* the supported region, whole components of reliable cells and no other
\* place, also with tiles that fail, candidates that are not finite and a
\* side that maps nowhere.  It is so for a correspondence that no outlier
\* precedes in its tile; the code looks the cell of any other up at the wrong
\* position.
SelectedInRegion ==
    pc = "decided" =>
        /\ \A r \in Selected : OutlierBefore(r) \/ OwnCell(r) \in region
        /\ \A c \in region, d \in reliable \ region : ~Adjacent(c, d)

\* assign_reasons: the cap keeps the first correspondences of the region in
\* the order of rows, columns, tiles and candidates, as many as it allows,
\* and says LIMIT of the others of the region and of nothing else.
CapKeepsTheFirst ==
    pc = "decided" =>
        LET eligible == {r \in records : r.key \in region}
        IN  /\ Selected \subseteq eligible
            /\ Cardinality(Selected) =
                   IF Cardinality(eligible) < max_selected_correspondences
                   THEN Cardinality(eligible)
                   ELSE max_selected_correspondences
            /\ \A r \in DOMAIN primary :
                   primary[r] = "LIMIT" <=> r \in eligible \ Selected
            /\ \A r \in Selected, s \in eligible \ Selected :
                   SelectedBefore(r, s)

\* The reliable cells that every set with the cell holds if it holds, with
\* each of its cells, the reliable ones next to it.
Closed(cells) ==
    \A c \in cells, d \in reliable : Adjacent(c, d) => d \in cells
ConnectedTo(cell) ==
    {d \in reliable : \A cells \in SUBSET reliable :
                          cell \in cells /\ Closed(cells) => d \in cells}

\* _label_components: whatever the order of its stack, the flood fill finds
\* the connected components of the reliable cells: none is split, joined to
\* another or missed, although it marks a cell when it pushes it.
LabelsAreComponents ==
    pc \in {"plan", "decided"} =>
        components = {ConnectedTo(c) : c \in reliable}

===============================================================================
