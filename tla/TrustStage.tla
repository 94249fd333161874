------------------------------ MODULE TrustStage ------------------------------
(***************************************************************************)
(* TRUST, the M4 gate (backend/app/trust/service.py: TrustService.run): a  *)
(* verdict for every tile for which MATCH's summary names candidates, read *)
(* from the candidate files as they are now; MATCH's status is not read.   *)
(***************************************************************************)
EXTENDS RunFiles

Verdict == {"TRUSTED", "REJECTED", "FAILED", "MISSING", "TIMEOUT"}

\* Faulty variant: any model with inliers is trusted.
EvaluatedLeniently(t) ==
    CASE ~Exists(t) -> "FAILED"
      [] Exists(t) /\ Holds(t, "bad") -> "REJECTED"
      [] OTHER -> "TRUSTED"

\* evaluate_tile, which turns every exception into FAILED.
Evaluated(t) ==
    CASE ~Exists(t) -> "FAILED"
      [] Exists(t) /\ Holds(t, "good") -> "TRUSTED"
      [] OTHER -> "REJECTED"

\* prerequisites: a MATCH summary with candidates; m8 is not a MATCH run.
StartTrust ==
    LET listed == disk["match_summary"].val
    IN  /\ Exists("match_summary") /\ listed # {}
        /\ \E tiles \in InOrder(listed) : Begin("TRUST", "gate", tiles)

HasTile == run.k <= Len(run.tiles) /\ ~run.late
ThisTile == run.tiles[run.k]

\* Out of time: match_tiles[tiles_processed:] are FAILED with TIMEOUT.
Timeout ==
    /\ At("TRUST", "gate") /\ HasTile
    /\ Continue([run EXCEPT !.late = TRUE,
                   !.out = @ \cup {<<run.tiles[i], "TIMEOUT">> :
                                     i \in run.done + 1 .. Len(run.tiles)}])
    /\ UNCHANGED disk

\* cand_path.is_file(): a missing artifact is FAILED and not processed.
LookForTile ==
    /\ At("TRUST", "gate") /\ HasTile
    /\ \/ /\ Exists(ThisTile)
          /\ Continue([run EXCEPT !.pc = "evaluate"])
       \/ /\ ~Exists(ThisTile)
          /\ Continue([run EXCEPT !.k = @ + 1,
                                  !.out = @ \cup {<<ThisTile, "MISSING">>}])
    /\ UNCHANGED disk

EvaluateTile ==
    /\ At("TRUST", "evaluate")
    /\ LET v == Evaluated(ThisTile)
           judged == [run EXCEPT !.done = @ + 1,
                                 !.out = @ \cup {<<ThisTile, v>>}]
       IN  Continue(IF v = "TRUSTED" THEN [judged EXCEPT !.pc = "gather"]
                    ELSE [judged EXCEPT !.pc = "gate", !.k = @ + 1])
    /\ UNCHANGED disk

\* The inliers of a TRUSTED tile come from a second np.load, in no try.
GatherInliers ==
    /\ At("TRUST", "gather")
    /\ \/ Exists(ThisTile) /\ Continue([run EXCEPT !.pc = "gate", !.k = @ + 1])
       \/ ~Exists(ThisTile) /\ Stop
    /\ UNCHANGED disk

Trusted(verdicts) == {t \in Tile : <<t, "TRUSTED">> \in verdicts}

\* Faulty variant: a timeout does not fail a gate that trusted some tile.
GateDoneInTime ==
    /\ At("TRUST", "gate") /\ ~HasTile
    /\ LET some == Trusted(run.out) # {}
           state == IF some THEN "COMPLETE" ELSE "FAILED"
       IN  Continue(Finally(<<Write("trust_status", {state}),
                              Write("tile_trust", run.out)>>))
    /\ UNCHANGED disk

\* The gate: the status is written first, the verdicts last.
GateDone ==
    /\ At("TRUST", "gate") /\ ~HasTile
    /\ LET some == Trusted(run.out) # {}
           state == IF some /\ ~run.late THEN "COMPLETE" ELSE "FAILED"
       IN  Continue(Finally(<<Write("trust_status", {state}),
                              Write("tile_trust", run.out)>>))
    /\ UNCHANGED disk

TrustNext ==
    \/ StartTrust \/ Timeout \/ LookForTile \/ EvaluateTile \/ GatherInliers
    \/ GateDone
===============================================================================
