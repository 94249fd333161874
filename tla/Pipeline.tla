------------------------------- MODULE Pipeline -------------------------------
(***************************************************************************)
(* The stages MATCH, M8, TRUST, SPATIAL, REGISTRATION and METRICS of one   *)
(* image pair on the files they share.  Runs of one pair exclude each      *)
(* other; between any two steps of one, reset requests delete files and    *)
(* the process dies.                                                       *)
(***************************************************************************)
EXTENDS MatchStage, TrustStage, SpatialStage, RegistrationStage,
        MetricsStage

Next ==
    \/ MatchNext \/ TrustNext \/ SpatialNext \/ RegistrationNext
    \/ MetricsNext
    \/ WriteNext
    \/ Elsewhere

Spec == FilesInit /\ [][Next]_fileVars

-------------------------------------------------------------------------------
\* Types: no file is by a run that has not been started, and the run in
\* progress is the one that started last.

State == {"RUNNING", "BLOCKED", "FAILED", "COMPLETE", "INSUFFICIENT",
          "SELECTED", "MAPPED", "NOT_MAPPABLE", "good", "weak", "bad"}
FileOfRuns == {"transform", "provenance", "experiment", "report"}
Values(f) == IF f = "tile_trust" THEN SUBSET (Tile \X Verdict)
             ELSE IF f \in FileOfRuns THEN SUBSET (1 .. LastRun)
             ELSE IF f = "match_summary" THEN SUBSET Tile
             ELSE SUBSET (Tile \cup State)
Findings(s) == CASE s = "TRUST" -> SUBSET (Tile \X Verdict)
                 [] s \in {"REGISTRATION", "METRICS"} -> SUBSET (1 .. LastRun)
                 [] OTHER -> SUBSET Tile

Places == [MATCH |-> {"build", "decide", "hash", "tiles", "write"},
           M8 |-> {"deep", "write"},
           TRUST |-> {"gate", "evaluate", "gather", "write"},
           SPATIAL |-> {"map", "tiles", "write"},
           REGISTRATION |-> {"load", "mapping", "fit", "write"},
           METRICS |-> {"collect", "identify", "write"}]

DiskOK ==
    /\ disk = [f \in File |-> [by |-> disk[f].by, val |-> disk[f].val]]
    /\ \A f \in File : /\ disk[f].by \in 0 .. LastRun /\ disk[f].val \in Values(f)
                       /\ disk[f].by = 0 => disk[f] = Absent

RunOK(r) ==
    /\ r \in [stage : Stage, id : {LastRun} \ {0}, pc : Places[r.stage],
              tiles : Seq(Tile), k : Nat \ {0}, done : Nat, late : BOOLEAN,
              out : Findings(r.stage), scene : SUBSET Tile, todo : {r.todo}]
    /\ r.todo \in Seq({r.todo[i] : i \in DOMAIN r.todo})
    /\ r.pc = "write" <=> r.todo # <<>>

TypeOK ==
    /\ DiskOK
    /\ run = NoRun \/ RunOK(run)
    /\ runs \in [Stage -> Nat] /\ resets \in Nat /\ resetting \subseteq Stage
    /\ resetting # {} => resets > 0

-------------------------------------------------------------------------------
\* What the stages promise each other through their files

By(f, n) == disk[f].by = n \/ (resets > 0 /\ ~Exists(f))

MatchIsWhole ==
    Holds("match_status", "COMPLETE") =>
        \A f \in {"decisions", "match_summary"} \cup disk["match_summary"].val :
           By(f, disk["match_status"].by)

SpatialIsWhole ==
    Holds("spatial_status", "COMPLETE") =>
        /\ \A f \in {"selection", "mapping", "spatial_summary"} :
              By(f, disk["spatial_status"].by)
        /\ Holds("selection", "SELECTED") =>
              By("selected_npz", disk["spatial_status"].by)

RegistrationIsWhole ==
    Holds("registration_status", "COMPLETE") =>
        \A f \in {"transform", "registration_summary"} :
           By(f, disk["registration_status"].by)

MetricsIsWhole ==
    Holds("metrics_status", "COMPLETE") =>
        \A f \in {"experiment", "report"} : By(f, disk["metrics_status"].by)

\* COMPLETE is written when a run's results are there: those beside a COMPLETE
\* status of MATCH, SPATIAL, REGISTRATION or METRICS are all there and by the
\* same run, however often runs crashed or were repeated; only resets take some
\* away.  (REGISTRATION's provenance and manifest come after COMPLETE and are
\* not among them.)
CompleteIsWhole ==
    MatchIsWhole /\ SpatialIsWhole /\ RegistrationIsWhole /\ MetricsIsWhole

FittedToOneRun == Exists("transform") => \E n \in 1 .. LastRun : disk["transform"].val = {n}

NamesItsSelection ==
    disk["provenance"].by = disk["transform"].by =>
        disk["provenance"].val \subseteq disk["transform"].val

\* The correspondences and the mapping that REGISTRATION fits to come from
\* one SPATIAL run, the one whose status and selection it has checked, even
\* if SPATIAL's directory is reset between two reads or a later SPATIAL run
\* selected nothing and left an older .npz.  The provenance, written when the
\* run has long been COMPLETE, names no other selection than that.
EvidenceIsOneSelection ==
    /\ FittedToOneRun
    /\ At("REGISTRATION", "fit") =>
         \A f \in {"spatial_status", "selection", "selected_npz", "mapping"} :
            Exists(f) => disk[f].by \in run.out
    /\ NamesItsSelection

\* A TRUSTED verdict stays true of the tile's candidates for as long as no
\* later MATCH run has written them again.
VerdictsStand ==
    \A t \in TrustedTiles :
        Exists(t) /\ disk[t].by < disk["tile_trust"].by => Holds(t, "good")

OneVerdictEach(verdicts) ==
    (\A t \in Tile : <<t, "MISSING">> \notin verdicts) =>
        \A t \in Tile, u, v \in Verdict :
           <<t, u>> \in verdicts /\ <<t, v>> \in verdicts => u = v

InTime(verdicts) == \A t \in Tile : <<t, "TIMEOUT">> \notin verdicts

CompleteGate ==
    Holds("trust_status", "COMPLETE") /\ disk["tile_trust"].by = disk["trust_status"].by =>
        TrustedTiles # {} /\ InTime(disk["tile_trust"].val)

\* TRUST gives every tile that MATCH listed a verdict, and only one unless a
\* tile's artifact was missing; a gate that is COMPLETE trusted a tile and
\* left none out for lack of time.
VerdictPerTile ==
    /\ At("TRUST", "write") =>
         /\ \A i \in DOMAIN run.tiles :
               \E v \in Verdict : <<run.tiles[i], v>> \in run.out
         /\ OneVerdictEach(run.out)
    /\ CompleteGate
===============================================================================
