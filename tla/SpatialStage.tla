----------------------------- MODULE SpatialStage -----------------------------
(***************************************************************************)
(* SPATIAL, the M5 stage (backend/app/spatial/service.py: SpatialService.  *)
(* run): it takes the list of TRUSTED tiles from TRUST's verdicts, looks   *)
(* for the inliers of each tile's candidates again, maps them to a scene   *)
(* grid and selects a supported region of it.                              *)
(***************************************************************************)
EXTENDS RunFiles

CONSTANT NamesTiles
\* Does the decision in a tile's candidate .json name the two PREPARE tiles
\* that were matched (tile_a, tile_b)?  What MATCH writes does not; the
\* artifacts that the tests of this stage prepare do.
ASSUME NamesAssumption == NamesTiles \subseteq BOOLEAN

TrustedTiles == {t \in Tile : <<t, "TRUSTED">> \in disk["tile_trust"].val}
WithCandidates == {t \in Tile : t \in disk["match_summary"].val}

\* _match_run_dir takes the last directory that is there; "m8" sorts after
\* the MATCH configurations and has no summary.json of its own.
MatchRunFound == Exists("match_summary") /\ ~Exists("m8")

\* prerequisites, then the checks of the gate and of the verdicts in run().
Ready ==
    /\ MatchRunFound
    /\ WithCandidates # {}
    /\ Holds("trust_status", "COMPLETE")
    /\ TrustedTiles # {}

\* Faulty variant: the status is left alone until the run ends.
StartSpatialQuietly ==
    /\ Ready /\ run = NoRun
    /\ runs' = [runs EXCEPT !["SPATIAL"] = @ + 1]
    /\ WithinBudget(runs')
    /\ \E tiles \in InOrder(TrustedTiles) :
          run' = [NoRun EXCEPT !.stage = "SPATIAL", !.id = LastRun + 1,
                               !.pc = "map", !.tiles = tiles]
    /\ UNCHANGED <<disk, resetting, resets>>

StartSpatial ==
    /\ Ready
    /\ \E tiles \in InOrder(TrustedTiles) : Begin("SPATIAL", "map", tiles)

\* load_scene_map: without PREPARE's overlap there is no scene at all; a tile
\* whose decision names no tiles is in the scene without a mapping.  MATCH's
\* summary lists every tile, with candidates or without.
LoadScene ==
    /\ At("SPATIAL", "map")
    /\ \/ /\ \E names \in NamesTiles :
                Continue([run EXCEPT !.pc = "tiles",
                             !.scene = {t \in Tile : names /\ Exists(t)}])
          /\ UNCHANGED disk
       \/ /\ disk' = [disk EXCEPT !["spatial_status"] = Content({"BLOCKED"})]
          /\ Continue(Finally(<<Write("mapping", {"NOT_MAPPABLE"})>>))

HasTrustedTile == run.k <= Len(run.tiles) /\ ~run.late

SpatialTimeout ==
    /\ At("SPATIAL", "tiles") /\ HasTrustedTile
    /\ Continue([run EXCEPT !.late = TRUE])
    /\ UNCHANGED disk

\* Any candidates with a model are used, whatever evaluate_tile now says of
\* the tile; missing candidates and candidates without a model are not.
UseTile ==
    /\ At("SPATIAL", "tiles") /\ HasTrustedTile
    /\ LET t == run.tiles[run.k]
           usable == Holds(t, "good") \/ Holds(t, "weak")
       IN  Continue(
             IF usable
             THEN [run EXCEPT !.k = @ + 1, !.done = @ + 1,
                              !.out = @ \cup {t}]
             ELSE [run EXCEPT !.k = @ + 1])
    /\ UNCHANGED disk

\* Nothing but failures: FAILED and a summary, nothing else is written.
NothingRecomputed ==
    /\ At("SPATIAL", "tiles") /\ ~HasTrustedTile
    /\ run.done = 0 /\ run.k > 1
    /\ disk' = [disk EXCEPT !["spatial_status"] = Content({"FAILED"})]
    /\ Continue(Finally(<<Write("spatial_summary", {})>>))

\* The tiles that may have inliers in the selected region; without a region
\* no inlier is selected.
Selectable(outcome) ==
    IF outcome = "SELECTED" THEN run.out \cap run.scene ELSE {}

\* selected_count > 0, or no .npz is written.
Artifacts(outcome) ==
    <<Write("selection", {outcome}),
      Write("mapping", {"MAPPED"} \cup run.scene)>>
    \o (IF Selectable(outcome) # {} THEN <<Write("selected_npz", run.out)>>
        ELSE <<>>)
    \o <<Write("spatial_summary", {})>>

\* plan_selection selects a region or none.  A region's cells are reliable:
\* each holds min_verified_inliers_per_cell inliers with a place in the scene,
\* and of these max_selected_correspondences stay selected (configs/app.yaml:
\* 4 and 4000; neither is 0).  The artifacts come first, then the status;
\* without a selection an older .npz stays.
SelectRegion ==
    /\ At("SPATIAL", "tiles") /\ ~HasTrustedTile
    /\ run.done # 0 \/ run.k = 1
    /\ \E outcome \in {"SELECTED", "INSUFFICIENT"} :
          /\ outcome = "SELECTED" => Selectable(outcome) # {}
          /\ Continue(Finally(
               Artifacts(outcome)
               \o <<Write("spatial_status",
                          {IF run.late THEN "FAILED" ELSE "COMPLETE"})>>))
    /\ UNCHANGED disk

SpatialNext ==
    \/ StartSpatial \/ LoadScene \/ SpatialTimeout \/ UseTile
    \/ NothingRecomputed \/ SelectRegion
===============================================================================
