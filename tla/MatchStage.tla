------------------------------ MODULE MatchStage ------------------------------
(***************************************************************************)
(* MATCH (backend/app/matching/service.py: MatchingService.run): per match *)
(* tile, candidate correspondences of a pair that PREPARE made ready; and  *)
(* the M8 expansion run, which writes only its own m8 directory beside it. *)
(*                                                                         *)
(* What a tile's candidates are worth is fixed when they are written, for  *)
(* every later evaluation of them is deterministic (seeded RANSAC):        *)
(*   "good"  the trust engine accepts them,                                *)
(*   "weak"  it rejects them but fits a model with inliers,                *)
(*   "bad"   it fits none; a file that a crash tore counts as one of these *)
(*           (write_candidate_artifacts writes it in place).                 *)
(***************************************************************************)
EXTENDS RunFiles

CONSTANT Quality    \* which of these the tiles' candidates may have
ASSUME QualityAssumption == Quality \subseteq {"good", "weak", "bad"}

Running == [disk EXCEPT !["match_status"] = Content({"RUNNING"})]

\* run(): PREPARE is READY_FOR_MATCHING.
StartMatch == Begin("MATCH", "build", TileSeq)

\* _build_match_tiles assembles tiles, none, or raises (_fail).
BuildTiles ==
    /\ At("MATCH", "build")
    /\ \/ /\ disk' = Running
          /\ Continue([run EXCEPT !.pc = "decide"])
       \/ \E state \in {"BLOCKED", "FAILED"} : EndWith(state)

WriteDecisions ==
    /\ At("MATCH", "decide")
    /\ disk' = [disk EXCEPT !["decisions"] = Content({})]
    /\ Continue([run EXCEPT !.pc = "hash"])

\* manifest.finish_step hashes the decisions outside of any try.
HashDecisions ==
    /\ At("MATCH", "hash")
    /\ \/ /\ Exists("decisions")
          /\ disk' = Running
          /\ Continue([run EXCEPT !.pc = "tiles"])
       \/ /\ ~Exists("decisions")
          /\ Stop
          /\ UNCHANGED disk

\* _run_one_tile, then the status.  Without candidates the tile's .npz of an
\* earlier run stays; an exception fails the run.
MatchTile ==
    /\ At("MATCH", "tiles")
    /\ run.k <= Len(run.tiles)
    /\ LET t == run.tiles[run.k]
           next == [run EXCEPT !.k = @ + 1]
       IN  \/ disk' = Running /\ Continue(next)
           \/ \E q \in Quality :
                /\ disk' = [Running EXCEPT ![t] = Content({q})]
                /\ Continue([next EXCEPT !.out = @ \cup {t}])
           \/ EndWith("FAILED")

\* candidates.json, summary.json, their hashes for the manifest, and COMPLETE
\* last.  (A missing candidates.json leaves what a crash there leaves.)
MatchDone ==
    /\ At("MATCH", "tiles")
    /\ run.k > Len(run.tiles)
    /\ disk' = Running
    /\ Continue(Finally(<<Write("match_summary", run.out),
                          WriteAfterHashing("match_status", {"COMPLETE"},
                                            {"match_summary"})>>))

\* M8Service.run: for the other stages it is a directory beside the MATCH
\* run's, whatever its state; they read nothing in it.
StartM8 == Begin("M8", "deep", <<>>)

WriteM8 ==
    /\ At("M8", "deep")
    /\ Continue(Finally(<<Write("m8", {"COMPLETE"})>>))
    /\ UNCHANGED disk

MatchNext ==
    \/ StartMatch \/ BuildTiles \/ WriteDecisions \/ HashDecisions
    \/ MatchTile \/ MatchDone
    \/ StartM8 \/ WriteM8
===============================================================================
