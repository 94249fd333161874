----------------------------- MODULE PipelineProofs -----------------------------
(***************************************************************************)
(* Proofs about Pipeline: for any match tiles, any number of runs of every *)
(* stage, resets and deaths of the server, a COMPLETE stage is whole       *)
(* (CompleteIsWhole), REGISTRATION fits to one selection                   *)
(* (EvidenceIsOneSelection), a verdict stays true of its candidates        *)
(* (VerdictsStand) and TRUST judges every tile (VerdictPerTile).           *)
(***************************************************************************)
EXTENDS Pipeline, FiniteSetTheorems, SequenceTheorems, TLAPS

-------------------------------------------------------------------------------
(***************************************************************************)
(* The inductive invariant: the last writes of a run.                      *)
(***************************************************************************)
MatchPlans(r) == {<<Write("match_summary", r.out),
                    WriteAfterHashing("match_status", {"COMPLETE"}, {"match_summary"})>>}
M8Plans == {<<Write("m8", {"COMPLETE"})>>}

\* A gate says COMPLETE of verdicts that are.
Outcomes(verdicts) == IF Trusted(verdicts) # {} /\ InTime(verdicts)
                      THEN {"COMPLETE", "FAILED"} ELSE {"FAILED"}
TrustPlans(r) ==
    {<<Write("trust_status", {state}), Write("tile_trust", r.out)>> :
        state \in Outcomes(r.out)}

SpatialPlans(r) ==
    {<<Write("mapping", {"NOT_MAPPABLE"})>>, <<Write("spatial_summary", {})>>}
    \cup {<<Write("selection", {"SELECTED"}), Write("mapping", {"MAPPED"} \cup r.scene),
            Write("selected_npz", r.out), Write("spatial_summary", {}),
            Write("spatial_status", {state})>> : state \in {"FAILED", "COMPLETE"}}
    \cup {<<Write("selection", {"INSUFFICIENT"}), Write("mapping", {"MAPPED"} \cup r.scene),
            Write("spatial_summary", {}),
            Write("spatial_status", {state})>> : state \in {"FAILED", "COMPLETE"}}

FailedFits(r) ==
    {<<Write("registration_status", {state}), Write("registration_summary", {})>> :
        state \in {"INSUFFICIENT", "FAILED"}}
    \cup {<<Write("registration_status", {state}), Write("registration_summary", {}),
            Write("transform", r.out)>> : state \in {"INSUFFICIENT", "FAILED"}}
Fit(r) ==
    <<Write("transform", r.out), Write("registration_summary", {}),
      Write("registration_status", {"COMPLETE"}),
      WriteNaming("provenance", {"selected_npz"})>>
RegistrationPlans(r) == FailedFits(r) \cup {Fit(r)}

MetricsPlans(r) ==
    {<<Write("experiment", sources), Write("report", r.out),
       Write("metrics_status", {"COMPLETE"})>> : sources \in SUBSET (1 .. r.id)}

Plans(r) ==
    CASE r.stage = "MATCH" -> MatchPlans(r)
      [] r.stage = "M8" -> M8Plans
      [] r.stage = "TRUST" -> TrustPlans(r)
      [] r.stage = "SPATIAL" -> SpatialPlans(r)
      [] r.stage = "REGISTRATION" -> RegistrationPlans(r)
      [] r.stage = "METRICS" -> MetricsPlans(r)

\* A write that was made, for all that a reset has not undone.
Kept(w) == By(w.file, run.id) /\ (Exists(w.file) => disk[w.file].val = w.val)

\* What remains is the end of a plan, and what came before it was written.
Follows(plan) ==
    LET made == Len(plan) - Len(run.todo)
    IN  /\ made >= 0
        /\ \A i \in 1 .. Len(run.todo) : run.todo[i] = plan[made + i]
        /\ \A i \in 1 .. made : Kept(plan[i])

FollowsPlan == run.pc = "write" => \E plan \in Plans(run) : Follows(plan)

-------------------------------------------------------------------------------
(***************************************************************************)
(* The inductive invariant: each stage.                                    *)
(***************************************************************************)
MatchInv ==
    /\ MatchIsWhole
    /\ run.stage = "MATCH" =>
         /\ ~ Holds("match_status", "COMPLETE")
         /\ run.pc \in {"hash", "tiles", "write"} => By("decisions", run.id)
         /\ \A t \in run.out : By(t, run.id)

\* How many tiles the gate has come to a verdict about, in time.
Judged(r) == IF r.pc = "gather" THEN r.k ELSE r.k - 1

TrustProgress(r) ==
    /\ \A i, j \in DOMAIN r.tiles : r.tiles[i] = r.tiles[j] => i = j
    /\ Judged(r) <= Len(r.tiles) /\ r.done <= Judged(r)
    /\ r.pc = "evaluate" => r.k <= Len(r.tiles)
    /\ r.pc \in {"evaluate", "gather"} => ~ r.late
    /\ r.pc = "write" => r.late \/ Judged(r) = Len(r.tiles)
    /\ \A i \in 1 .. Judged(r) : \E v \in Verdict : <<r.tiles[i], v>> \in r.out
    /\ r.late => \A i \in r.done + 1 .. Len(r.tiles) : <<r.tiles[i], "TIMEOUT">> \in r.out
    /\ ~ r.late => InTime(r.out)
    /\ \A t \in Tile, v \in Verdict : <<t, v>> \in r.out =>
          \E i \in DOMAIN r.tiles : r.tiles[i] = t /\ (i <= Judged(r) \/ r.late)
    /\ (\A t \in Tile : <<t, "MISSING">> \notin r.out) => r.done = Judged(r)
    /\ OneVerdictEach(r.out)

\* The candidates a verdict was made from can only disappear before it is written.
VerdictsOfRunStand ==
    \A t \in Trusted(run.out) : Exists(t) => Holds(t, "good")

TrustInv ==
    /\ VerdictsStand /\ CompleteGate
    /\ run.stage = "TRUST" =>
         /\ disk["tile_trust"].by # run.id
         /\ TrustProgress(run) /\ VerdictsOfRunStand

SpatialInv ==
    SpatialIsWhole /\ (run.stage = "SPATIAL" => ~ Holds("spatial_status", "COMPLETE"))

\* While REGISTRATION runs, what there is of SPATIAL's is of one run.
Evidence == {"spatial_status", "selection", "selected_npz", "mapping"}

OfOneRun ==
    \E n \in 1 .. LastRun :
        /\ \A f \in Evidence : Exists(f) => disk[f].by = n
        /\ run.pc # "load" => run.out = {n}

RegistrationInv ==
    /\ RegistrationIsWhole /\ FittedToOneRun /\ NamesItsSelection
    /\ run.stage = "REGISTRATION" =>
         /\ OfOneRun
         /\ disk["provenance"].by # run.id
         /\ Holds("registration_status", "COMPLETE") =>
              /\ run.pc = "write" /\ Len(run.todo) = 1
              /\ run.todo[1].file = "provenance"

MetricsInv ==
    MetricsIsWhole /\ (run.stage = "METRICS" => ~ Holds("metrics_status", "COMPLETE"))

PipelineInv ==
    /\ TypeOK /\ FollowsPlan
    /\ MatchInv /\ TrustInv /\ SpatialInv /\ RegistrationInv /\ MetricsInv

-------------------------------------------------------------------------------
(***************************************************************************)
(* Stages, files and runs.                                                 *)
(***************************************************************************)
LEMMA Stages == Stage = {"MATCH", "M8", "TRUST", "SPATIAL", "REGISTRATION", "METRICS"}
  BY DEF Stage, FilesOf

LEMMA StageFiles ==
  /\ FilesOf["MATCH"] = Tile \cup {"match_status", "decisions", "match_summary"}
  /\ FilesOf["M8"] = {"m8"}
  /\ FilesOf["TRUST"] = {"trust_status", "tile_trust"}
  /\ FilesOf["SPATIAL"] = {"spatial_status", "selection", "mapping", "selected_npz",
                           "spatial_summary"}
  /\ FilesOf["REGISTRATION"] = {"registration_status", "transform",
                                "registration_summary", "provenance"}
  /\ FilesOf["METRICS"] = {"metrics_status", "experiment", "report"}
  /\ \A s \in Stage : FilesOf[s] \subseteq File
  BY DEF Stage, File, FilesOf

LEMMA StatusFiles ==
  /\ StatusOf["MATCH"] = "match_status" /\ StatusOf["M8"] = "m8"
  /\ StatusOf["TRUST"] = "trust_status" /\ StatusOf["SPATIAL"] = "spatial_status"
  /\ StatusOf["REGISTRATION"] = "registration_status"
  /\ StatusOf["METRICS"] = "metrics_status"
  BY DEF StatusOf

\* A tile's name is no other file's.
LEMMA TilesAreOfMatch ==
  /\ Tile \cap {"match_status", "decisions", "match_summary"} = {}
  /\ \A s \in Stage : s # "MATCH" => Tile \cap FilesOf[s] = {}
  BY TilesAssumption DEF Tile

LEMMA OneStagePerFile ==
  ASSUME NEW s \in Stage, NEW t \in Stage, s # t
  PROVE  FilesOf[s] \cap FilesOf[t] = {}
<1>1. CASE s = "MATCH" \/ t = "MATCH"
  BY <1>1, StageFiles, Stages, TilesAreOfMatch
<1>2. CASE s # "MATCH" /\ t # "MATCH"
  BY <1>2, StageFiles, Stages
<1>3. QED
  BY <1>1, <1>2

LEMMA NoRunFields ==
  /\ NoRun.stage = "none" /\ NoRun.pc = "idle" /\ NoRun.todo = <<>>
  /\ NoRun.id = 0 /\ NoRun.out = {} /\ NoRun.scene = {} /\ NoRun.late = FALSE
  /\ NoRun.k = 1 /\ NoRun.done = 0 /\ NoRun.tiles = <<>>
  /\ "none" \notin Stage
  BY Stages DEF NoRun

LEMMA LastRunType ==
  ASSUME TypeOK
  PROVE  LastRun \in Nat
  BY Stages DEF TypeOK, LastRun

\* What may be found in a file.
LEMMA FileValues ==
  /\ Values("tile_trust") = SUBSET (Tile \X Verdict)
  /\ \A f \in FileOfRuns : Values(f) = SUBSET (1 .. LastRun)
  /\ Values("match_summary") = SUBSET Tile
  /\ \A f \in File \ (FileOfRuns \cup {"tile_trust", "match_summary"}) :
        Values(f) = SUBSET (Tile \cup State)
  BY DEF Values, FileOfRuns

LEMMA StatusIsNoResult ==
  /\ \A f \in {"match_status", "decisions", "m8", "trust_status", "spatial_status",
               "selection", "mapping", "spatial_summary", "selected_npz",
               "registration_status", "registration_summary", "metrics_status"} \cup Tile :
        f \in File \ (FileOfRuns \cup {"tile_trust", "match_summary"})
  /\ FileOfRuns \cup {"tile_trust", "match_summary"} \subseteq File
  BY StageFiles, Stages, TilesAreOfMatch DEF FileOfRuns

\* A run that goes on is typed by its stage.
LEMMA RunInProgress ==
  ASSUME TypeOK, run # NoRun
  PROVE  /\ run.stage \in Stage /\ run.id = LastRun /\ run.id # 0
         /\ run.pc \in Places[run.stage]
         /\ run.tiles \in Seq(Tile) /\ run.k \in Nat \ {0} /\ run.done \in Nat
         /\ run.late \in BOOLEAN /\ run.out \in Findings(run.stage)
         /\ run.scene \subseteq Tile
         /\ run = [stage |-> run.stage, id |-> run.id, pc |-> run.pc, tiles |-> run.tiles,
                   k |-> run.k, done |-> run.done, late |-> run.late, out |-> run.out,
                   scene |-> run.scene, todo |-> run.todo]
         /\ run.todo \in Seq({run.todo[i] : i \in DOMAIN run.todo})
         /\ run.pc = "write" <=> run.todo # <<>>
  BY DEF TypeOK, RunOK

LEMMA StageIsRun ==
  ASSUME TypeOK
  PROVE  run = NoRun <=> run.stage \notin Stage
  BY NoRunFields, RunInProgress

\* The number of a run in progress is that of no file from before its time.
LEMMA RunIsLast ==
  ASSUME TypeOK
  PROVE  /\ LastRun \in Nat
         /\ \A f \in File : disk[f].by \in 0 .. LastRun
         /\ run # NoRun => run.id = LastRun
  BY LastRunType, RunInProgress DEF TypeOK, DiskOK

-------------------------------------------------------------------------------
(***************************************************************************)
(* What a step may do to the files: the run in progress writes its own     *)
(* stage's, a request that is admitted its status, a reset deletes.        *)
(***************************************************************************)
OnlyDeleted(f) == disk'[f] = disk[f] \/ (disk'[f] = Absent /\ resets' > 0)

LEMMA FrameFile ==
  ASSUME NEW f, OnlyDeleted(f), resets > 0 => resets' > 0
  PROVE  /\ \A n : By(f, n) => By(f, n)'
         /\ \A v : Holds(f, v)' => Holds(f, v) /\ disk'[f] = disk[f]
         /\ Exists(f)' => Exists(f) /\ disk'[f] = disk[f]
<1>1. CASE disk'[f] = disk[f]
  BY <1>1 DEF By, Holds, Exists
<1>2. CASE disk'[f] = Absent /\ resets' > 0
  BY <1>2 DEF By, Holds, Exists, Absent
<1>3. QED
  BY <1>1, <1>2 DEF OnlyDeleted

\* A step of the run in progress.
OwnStep ==
    /\ run.stage \in Stage
    /\ \A f \in File : \/ disk'[f] = disk[f]
                       \/ f \in FilesOf[run.stage] /\ disk'[f].by = run.id
    /\ UNCHANGED <<runs, resetting, resets>>
    /\ run' = NoRun \/ run'.stage = run.stage

LEMMA OwnStepLastRun == OwnStep => LastRun' = LastRun
  BY DEF OwnStep, LastRun

\* It leaves the files of the other stages alone.
LEMMA OwnStepElsewhere ==
  ASSUME OwnStep, NEW s \in Stage, s # run.stage, NEW f \in FilesOf[s]
  PROVE  f \in File /\ disk'[f] = disk[f]
  BY OneStagePerFile, StageFiles DEF OwnStep

LEMMA MatchFrame ==
  ASSUME TypeOK, MatchIsWhole, run'.stage # "MATCH", resets > 0 => resets' > 0,
         \A f \in FilesOf["MATCH"] : OnlyDeleted(f)
  PROVE  MatchInv'
<1>1. SUFFICES ASSUME Holds("match_status", "COMPLETE")',
                      NEW f \in {"decisions", "match_summary"} \cup disk'["match_summary"].val
               PROVE  By(f, disk["match_status"].by)'
  BY DEF MatchInv, MatchIsWhole
<1>2. {"match_status", "match_summary", "decisions"} \cup Tile \subseteq FilesOf["MATCH"]
  BY StageFiles
<1>3. Holds("match_status", "COMPLETE") /\ disk'["match_status"] = disk["match_status"]
  BY <1>1, <1>2, FrameFile
<1>4. disk'["match_summary"].val \subseteq disk["match_summary"].val
  BY <1>2 DEF OnlyDeleted, Absent
<1>5. disk["match_summary"].val \subseteq Tile
  BY StatusIsNoResult, FileValues DEF TypeOK, DiskOK
<1>6. f \in FilesOf["MATCH"] /\ By(f, disk["match_status"].by)
  BY <1>1, <1>2, <1>3, <1>4, <1>5 DEF MatchIsWhole
<1>7. QED
  BY <1>3, <1>6, FrameFile

LEMMA SpatialFrame ==
  ASSUME SpatialIsWhole, run'.stage # "SPATIAL", resets > 0 => resets' > 0,
         \A f \in FilesOf["SPATIAL"] : OnlyDeleted(f)
  PROVE  SpatialInv'
<1> SUFFICES ASSUME Holds("spatial_status", "COMPLETE")' PROVE SpatialIsWhole'
  BY DEF SpatialInv, SpatialIsWhole
<1>1. \A f \in {"spatial_status", "selection", "mapping", "selected_npz", "spatial_summary"} :
         OnlyDeleted(f)
  BY StageFiles
<1>2. Holds("spatial_status", "COMPLETE") /\ disk'["spatial_status"] = disk["spatial_status"]
  BY <1>1, FrameFile
<1>3. \A f \in {"selection", "mapping", "spatial_summary"} :
         By(f, disk["spatial_status"].by)'
  BY <1>1, <1>2, FrameFile DEF SpatialIsWhole
<1>4. Holds("selection", "SELECTED")' => By("selected_npz", disk["spatial_status"].by)'
  BY <1>1, <1>2, FrameFile DEF SpatialIsWhole
<1>5. QED
  BY <1>3, <1>4 DEF SpatialIsWhole

LEMMA MetricsFrame ==
  ASSUME MetricsIsWhole, run'.stage # "METRICS", resets > 0 => resets' > 0,
         \A f \in FilesOf["METRICS"] : OnlyDeleted(f)
  PROVE  MetricsInv'
<1> SUFFICES ASSUME Holds("metrics_status", "COMPLETE")' PROVE MetricsIsWhole'
  BY DEF MetricsInv, MetricsIsWhole
<1>1. \A f \in {"metrics_status", "experiment", "report"} : OnlyDeleted(f)
  BY StageFiles
<1>2. Holds("metrics_status", "COMPLETE") /\ disk'["metrics_status"] = disk["metrics_status"]
  BY <1>1, FrameFile
<1>3. QED
  BY <1>1, <1>2, FrameFile DEF MetricsIsWhole

LEMMA RegistrationFiles ==
  ASSUME TypeOK, RegistrationIsWhole, FittedToOneRun, NamesItsSelection,
         resets > 0 => resets' > 0, LastRun' >= LastRun, LastRun' \in Nat,
         \A f \in FilesOf["REGISTRATION"] : OnlyDeleted(f)
  PROVE  RegistrationIsWhole' /\ FittedToOneRun' /\ NamesItsSelection'
<1>1. \A f \in {"registration_status", "transform", "registration_summary", "provenance"} :
         OnlyDeleted(f) /\ f \in File
  BY StageFiles, Stages
<1>2. RegistrationIsWhole'
  <2> SUFFICES ASSUME Holds("registration_status", "COMPLETE")' PROVE RegistrationIsWhole'
    BY DEF RegistrationIsWhole
  <2>1. /\ Holds("registration_status", "COMPLETE")
        /\ disk'["registration_status"] = disk["registration_status"]
    BY <1>1, FrameFile
  <2>2. QED
    BY <1>1, <2>1, FrameFile DEF RegistrationIsWhole
<1>3. FittedToOneRun'
  <2> SUFFICES ASSUME Exists("transform")'
               PROVE  \E n \in 1 .. LastRun' : disk'["transform"].val = {n}
    BY DEF FittedToOneRun
  <2>1. Exists("transform") /\ disk'["transform"] = disk["transform"]
    BY <1>1, FrameFile
  <2>2. QED
    BY <2>1, LastRunType DEF FittedToOneRun
<1>4. NamesItsSelection'
  <2> SUFFICES ASSUME disk'["provenance"].by = disk'["transform"].by
               PROVE  disk'["provenance"].val \subseteq disk'["transform"].val
    BY DEF NamesItsSelection
  <2>1. CASE disk'["provenance"] = Absent
    BY <2>1 DEF Absent
  <2>2. CASE disk'["provenance"] # Absent
    <3>1. disk'["provenance"] = disk["provenance"] /\ disk["provenance"] # Absent
      BY <1>1, <2>2 DEF OnlyDeleted
    <3>2. disk["provenance"].by # 0
      BY <1>1, <3>1 DEF TypeOK, DiskOK
    <3>3. disk'["transform"] = disk["transform"]
      BY <1>1, <3>1, <3>2 DEF OnlyDeleted, Absent
    <3>4. QED
      BY <3>1, <3>3 DEF NamesItsSelection
  <2>3. QED
    BY <2>1, <2>2
<1>5. QED
  BY <1>2, <1>3, <1>4

LEMMA RegistrationFrame ==
  ASSUME TypeOK, RegistrationIsWhole, FittedToOneRun, NamesItsSelection,
         run'.stage # "REGISTRATION", resets > 0 => resets' > 0, LastRun' >= LastRun,
         LastRun' \in Nat,
         \A f \in FilesOf["REGISTRATION"] : OnlyDeleted(f)
  PROVE  RegistrationInv'
  BY RegistrationFiles DEF RegistrationInv

LEMMA TrustFiles ==
  ASSUME TypeOK, VerdictsStand, CompleteGate, resets > 0 => resets' > 0,
         \A f \in FilesOf["TRUST"] : OnlyDeleted(f),
         \A t \in Tile : OnlyDeleted(t) \/ disk'[t].by = LastRun
  PROVE  VerdictsStand' /\ CompleteGate'
<1>1. \A f \in {"trust_status", "tile_trust"} : OnlyDeleted(f) /\ f \in File
  BY StageFiles, Stages
<1>2. \A v : v \in disk'["tile_trust"].val => disk'["tile_trust"] = disk["tile_trust"]
  BY <1>1 DEF OnlyDeleted, Absent
<1>3. VerdictsStand'
  <2> SUFFICES ASSUME NEW t \in TrustedTiles', Exists(t)',
                      disk'[t].by < disk'["tile_trust"].by
               PROVE  Holds(t, "good")'
    BY DEF VerdictsStand
  <2>1. disk'["tile_trust"] = disk["tile_trust"] /\ t \in TrustedTiles /\ t \in Tile
    BY <1>2 DEF TrustedTiles
  <2>2. LastRun \in Nat /\ disk["tile_trust"].by \in 0 .. LastRun
    BY <1>1, RunIsLast
  <2>3. disk'[t].by # LastRun
    BY <2>1, <2>2
  <2>4. disk'[t] = disk[t]
    BY <2>1, <2>3 DEF OnlyDeleted, Exists, Absent
  <2>5. QED
    BY <2>1, <2>4 DEF VerdictsStand, Exists, Holds
<1>4. CompleteGate'
  <2> SUFFICES ASSUME Holds("trust_status", "COMPLETE")',
                      disk'["tile_trust"].by = disk'["trust_status"].by
               PROVE  TrustedTiles' # {} /\ InTime(disk["tile_trust"].val)'
    BY DEF CompleteGate
  <2>1. Holds("trust_status", "COMPLETE") /\ disk'["trust_status"] = disk["trust_status"]
    BY <1>1, FrameFile
  <2>2. disk["trust_status"].by # 0
    <3>1. disk["trust_status"] # Absent
      BY <2>1 DEF Holds, Absent
    <3>2. QED
      BY <1>1, <3>1 DEF TypeOK, DiskOK
  <2>3. disk'["tile_trust"] = disk["tile_trust"]
    BY <1>1, <2>1, <2>2 DEF OnlyDeleted, Absent
  <2>4. QED
    BY <2>1, <2>3 DEF CompleteGate, TrustedTiles, InTime
<1>5. QED
  BY <1>3, <1>4

LEMMA TrustFrame ==
  ASSUME TypeOK, VerdictsStand, CompleteGate,
         run'.stage # "TRUST", resets > 0 => resets' > 0,
         \A f \in FilesOf["TRUST"] : OnlyDeleted(f),
         \A t \in Tile : OnlyDeleted(t) \/ disk'[t].by = LastRun
  PROVE  TrustInv'
  BY TrustFiles DEF TrustInv

\* A step of the run in progress disturbs no other stage.
OthersKeep ==
    /\ run.stage # "MATCH" => MatchInv'
    /\ run.stage # "TRUST" => TrustInv'
    /\ run.stage # "SPATIAL" => SpatialInv'
    /\ run.stage # "REGISTRATION" => RegistrationInv'
    /\ run.stage # "METRICS" => MetricsInv'

LEMMA OwnStepKeepsOthers ==
  ASSUME PipelineInv, OwnStep
  PROVE  OthersKeep
<1>1. TypeOK /\ run # NoRun /\ run.id = LastRun /\ LastRun' = LastRun /\ LastRun \in Nat
  BY NoRunFields, RunIsLast, OwnStepLastRun DEF PipelineInv, OwnStep
<1>2. \A s \in Stage \ {run.stage} :
         /\ run'.stage # s
         /\ \A f \in FilesOf[s] : OnlyDeleted(f)
  BY OwnStepElsewhere, NoRunFields DEF OwnStep, OnlyDeleted
<1>3. resets' = resets
  BY DEF OwnStep
<1>4. \A t \in Tile : OnlyDeleted(t) \/ disk'[t].by = LastRun
  BY <1>1, StageFiles, Stages DEF OwnStep, OnlyDeleted
<1>5. run.stage # "MATCH" => MatchInv'
  BY <1>1, <1>2, <1>3, Stages, MatchFrame DEF PipelineInv, MatchInv
<1>6. run.stage # "TRUST" => TrustInv'
  BY <1>1, <1>2, <1>3, <1>4, Stages, TrustFrame DEF PipelineInv, TrustInv
<1>7. run.stage # "SPATIAL" => SpatialInv'
  BY <1>1, <1>2, <1>3, Stages, SpatialFrame DEF PipelineInv, SpatialInv
<1>8. run.stage # "REGISTRATION" => RegistrationInv'
  BY <1>1, <1>2, <1>3, Stages, RegistrationFrame DEF PipelineInv, RegistrationInv
<1>9. run.stage # "METRICS" => MetricsInv'
  BY <1>1, <1>2, <1>3, Stages, MetricsFrame DEF PipelineInv, MetricsInv
<1>10. QED
  BY <1>5, <1>6, <1>7, <1>8, <1>9 DEF OthersKeep

-------------------------------------------------------------------------------
(***************************************************************************)
(* Files after one was written or deleted.                                 *)
(***************************************************************************)
LEMMA ValuesGrow ==
  ASSUME LastRun \in Nat, LastRun' \in Nat, LastRun <= LastRun', NEW f
  PROVE  Values(f) \subseteq Values(f)'
<1>1. 1 .. LastRun \subseteq 1 .. LastRun'
  OBVIOUS
<1>2. QED
  BY <1>1 DEF Values

LEMMA DiskWrite ==
  ASSUME DiskOK, LastRun \in Nat, LastRun' \in Nat, LastRun <= LastRun',
         NEW f \in File, NEW n \in 0 .. LastRun', NEW v, v \in Values(f)',
         n = 0 => v = {},
         disk' = [disk EXCEPT ![f] = [by |-> n, val |-> v]]
  PROVE  /\ DiskOK'
         /\ disk'[f].by = n /\ disk'[f].val = v
         /\ \A g \in File \ {f} : disk'[g] = disk[g]
<1>1. /\ DOMAIN disk = File
      /\ \A g \in File : disk[g] = [by |-> disk[g].by, val |-> disk[g].val]
  BY DEF DiskOK
<1>2. /\ disk'[f] = [by |-> n, val |-> v]
      /\ \A g \in File \ {f} : disk'[g] = disk[g]
      /\ disk' = [g \in File |-> disk'[g]]
  BY <1>1
<1>3. \A g \in File : disk'[g] = [by |-> disk'[g].by, val |-> disk'[g].val]
  BY <1>1, <1>2
<1>4. \A g \in File : disk'[g].by \in 0 .. LastRun' /\ disk'[g].val \in Values(g)'
  <2> SUFFICES ASSUME NEW g \in File
               PROVE  disk'[g].by \in 0 .. LastRun' /\ disk'[g].val \in Values(g)'
    OBVIOUS
  <2>1. Values(g) \subseteq Values(g)'
    BY ValuesGrow
  <2>2. disk[g].by \in 0 .. LastRun' /\ disk[g].val \in Values(g)'
    BY <2>1 DEF DiskOK
  <2>3. QED
    BY <1>2, <2>2
<1>5. \A g \in File : disk'[g].by = 0 => disk'[g] = Absent
  BY <1>2 DEF DiskOK, Absent
<1>6. QED
  BY <1>2, <1>3, <1>4, <1>5 DEF DiskOK

LEMMA DiskStays ==
  ASSUME DiskOK, LastRun' = LastRun, UNCHANGED disk
  PROVE  DiskOK'
<1>1. \A f : Values(f)' = Values(f)
  BY DEF Values
<1>2. QED
  BY <1>1 DEF DiskOK

LEMMA RunStays ==
  ASSUME run' = NoRun \/ (run' = run /\ LastRun' = LastRun),
         run = NoRun \/ RunOK(run)
  PROVE  run' = NoRun \/ RunOK(run)'
<1>1. CASE LastRun' = LastRun
  <2>1. \A s : Findings(s)' = Findings(s)
    BY <1>1 DEF Findings
  <2>2. QED
    BY <1>1, <2>1 DEF RunOK
<1>2. QED
  BY <1>1

-------------------------------------------------------------------------------
(***************************************************************************)
(* Resets and crashes.                                                     *)
(***************************************************************************)
ElsewhereKeeps ==
    /\ TypeOK' /\ LastRun' = LastRun
    /\ resets > 0 => resets' > 0
    /\ \A f \in File : OnlyDeleted(f)
    /\ run' \in {run, NoRun}

LEMMA ElsewhereFrame ==
  ASSUME TypeOK, Elsewhere
  PROVE  ElsewhereKeeps
<1>1. LastRun \in Nat
  BY LastRunType
<1>2. CASE Crash
  <2>1. LastRun' = LastRun
    BY <1>2 DEF Crash, LastRun
  <2>2. DiskOK'
    BY <1>2, <2>1, DiskStays DEF TypeOK, Crash
  <2>3. QED
    BY <1>2, <2>1, <2>2 DEF Crash, TypeOK, OnlyDeleted, ElsewhereKeeps
<1>3. ASSUME NEW s \in Stage, Reset(s) PROVE ElsewhereKeeps
  <2>1. LastRun' = LastRun
    BY <1>3 DEF Reset, LastRun
  <2>2. DiskOK'
    BY <1>3, <2>1, DiskStays DEF TypeOK, Reset
  <2>3. run' = NoRun \/ RunOK(run)'
    BY <1>3, <2>1, RunStays DEF Reset, TypeOK
  <2>4. resets' = resets + 1 /\ resets \in Nat
    BY <1>3 DEF Reset, TypeOK
  <2>5. TypeOK'
    BY <1>3, <2>2, <2>3, <2>4 DEF Reset, TypeOK
  <2>6. QED
    BY <1>3, <2>1, <2>4, <2>5 DEF Reset, OnlyDeleted, ElsewhereKeeps
<1>4. ASSUME NEW s \in Stage, EndReset(s) PROVE ElsewhereKeeps
  <2>1. LastRun' = LastRun
    BY <1>4 DEF EndReset, LastRun
  <2>2. DiskOK'
    BY <1>4, <2>1, DiskStays DEF TypeOK, EndReset
  <2>3. run' = NoRun \/ RunOK(run)'
    BY <1>4, <2>1, RunStays DEF EndReset, TypeOK
  <2>4. QED
    BY <1>4, <2>1, <2>2, <2>3 DEF EndReset, TypeOK, OnlyDeleted, ElsewhereKeeps
<1>5. ASSUME NEW s \in Stage, NEW f \in File, Delete(s, f) PROVE ElsewhereKeeps
  <2>1. LastRun' = LastRun
    BY <1>5 DEF Delete, LastRun
  <2>2. {} \in Values(f)'
    BY DEF Values
  <2>3. disk' = [disk EXCEPT ![f] = [by |-> 0, val |-> {}]]
    BY <1>5 DEF Delete, Absent
  <2>4. 0 \in 0 .. LastRun' /\ DiskOK /\ LastRun' \in Nat /\ LastRun <= LastRun'
    BY <1>1, <2>1 DEF TypeOK
  <2>5. /\ DiskOK'
        /\ \A g \in File \ {f} : disk'[g] = disk[g]
    BY <1>1, <2>2, <2>3, <2>4, DiskWrite
  <2>6. run' = NoRun \/ RunOK(run)'
    BY <1>5, <2>1, RunStays DEF Delete, TypeOK
  <2>7. resets' > 0
    BY <1>5 DEF Delete, TypeOK
  <2>8. disk'[f] = Absent
    BY <2>3 DEF TypeOK, DiskOK, Absent
  <2>9. \A g \in File : OnlyDeleted(g)
    BY <2>5, <2>7, <2>8 DEF OnlyDeleted
  <2>10. QED
    BY <1>5, <2>1, <2>5, <2>6, <2>7, <2>9 DEF Delete, TypeOK, ElsewhereKeeps
<1>6. QED
  BY <1>2, <1>3, <1>4, <1>5 DEF Elsewhere

-------------------------------------------------------------------------------
(***************************************************************************)
(* Plans.                                                                  *)
(***************************************************************************)
\* A plan writes files of its stage, each once, and only the provenance says whose
\* files there are.
OfStage(plan, s) ==
    /\ Len(plan) \in Nat \ {0} /\ DOMAIN plan = 1 .. Len(plan)
    /\ \A i \in 1 .. Len(plan) :
          /\ plan[i].file \in FilesOf[s]
          /\ plan[i].names # {} => /\ plan[i].file = "provenance" /\ i = Len(plan)
                                  /\ plan[i].names = {"selected_npz"}
    /\ \A i, j \in 1 .. Len(plan) : plan[i].file = plan[j].file => i = j

LEMMA PlansAreOfStage ==
  ASSUME NEW r, r.stage \in Stage, NEW plan \in Plans(r)
  PROVE  OfStage(plan, r.stage)
<1>1. CASE r.stage = "MATCH"
  <2>1. plan = <<Write("match_summary", r.out),
                 WriteAfterHashing("match_status", {"COMPLETE"}, {"match_summary"})>>
    BY <1>1 DEF Plans, MatchPlans
  <2>2. /\ Len(plan) = 2 /\ DOMAIN plan = 1 .. 2
        /\ plan[1].file = "match_summary" /\ plan[2].file = "match_status"
        /\ plan[1].names = {} /\ plan[2].names = {}
    BY <2>1 DEF Write, WriteAfterHashing
  <2>3. QED
    BY <1>1, <2>2, StageFiles DEF OfStage
<1>2. CASE r.stage = "M8"
  <2>1. plan = <<Write("m8", {"COMPLETE"})>>
    BY <1>2 DEF Plans, M8Plans
  <2>2. Len(plan) = 1 /\ DOMAIN plan = 1 .. 1 /\ plan[1].file = "m8" /\ plan[1].names = {}
    BY <2>1 DEF Write, WriteAfterHashing
  <2>3. QED
    BY <1>2, <2>2, StageFiles DEF OfStage
<1>3. CASE r.stage = "TRUST"
  <2>1. PICK state : plan = <<Write("trust_status", {state}), Write("tile_trust", r.out)>>
    BY <1>3 DEF Plans, TrustPlans
  <2>2. /\ Len(plan) = 2 /\ DOMAIN plan = 1 .. 2
        /\ plan[1].file = "trust_status" /\ plan[2].file = "tile_trust"
        /\ plan[1].names = {} /\ plan[2].names = {}
    BY <2>1 DEF Write, WriteAfterHashing
  <2>3. QED
    BY <1>3, <2>2, StageFiles DEF OfStage
<1>4. CASE r.stage = "SPATIAL"
  <2>1. plan \in SpatialPlans(r)
    BY <1>4 DEF Plans
  <2>2. CASE plan = <<Write("mapping", {"NOT_MAPPABLE"})>>
    <3>1. Len(plan) = 1 /\ DOMAIN plan = 1 .. 1 /\ plan[1].file = "mapping"
          /\ plan[1].names = {}
      BY <2>2 DEF Write, WriteAfterHashing
    <3>2. QED
      BY <1>4, <3>1, StageFiles DEF OfStage
  <2>3. CASE plan = <<Write("spatial_summary", {})>>
    <3>1. Len(plan) = 1 /\ DOMAIN plan = 1 .. 1 /\ plan[1].file = "spatial_summary"
          /\ plan[1].names = {}
      BY <2>3 DEF Write, WriteAfterHashing
    <3>2. QED
      BY <1>4, <3>1, StageFiles DEF OfStage
  <2>4. ASSUME NEW state,
               plan = <<Write("selection", {"SELECTED"}),
                        Write("mapping", {"MAPPED"} \cup r.scene),
                        Write("selected_npz", r.out), Write("spatial_summary", {}),
                        Write("spatial_status", {state})>>
        PROVE  OfStage(plan, "SPATIAL")
    <3>1. /\ Len(plan) = 5 /\ DOMAIN plan = 1 .. 5
          /\ plan[1].file = "selection" /\ plan[2].file = "mapping"
          /\ plan[3].file = "selected_npz" /\ plan[4].file = "spatial_summary"
          /\ plan[5].file = "spatial_status"
          /\ plan[1].names = {} /\ plan[2].names = {} /\ plan[3].names = {}
          /\ plan[4].names = {} /\ plan[5].names = {}
      BY <2>4 DEF Write, WriteAfterHashing
    <3>2. QED
      BY <3>1, StageFiles DEF OfStage
  <2>5. ASSUME NEW state,
               plan = <<Write("selection", {"INSUFFICIENT"}),
                        Write("mapping", {"MAPPED"} \cup r.scene),
                        Write("spatial_summary", {}), Write("spatial_status", {state})>>
        PROVE  OfStage(plan, "SPATIAL")
    <3>1. /\ Len(plan) = 4 /\ DOMAIN plan = 1 .. 4
          /\ plan[1].file = "selection" /\ plan[2].file = "mapping"
          /\ plan[3].file = "spatial_summary" /\ plan[4].file = "spatial_status"
          /\ plan[1].names = {} /\ plan[2].names = {} /\ plan[3].names = {}
          /\ plan[4].names = {}
      BY <2>5 DEF Write, WriteAfterHashing
    <3>2. QED
      BY <3>1, StageFiles DEF OfStage
  <2>6. QED
    BY <1>4, <2>1, <2>2, <2>3, <2>4, <2>5 DEF SpatialPlans
<1>5. CASE r.stage = "REGISTRATION"
  <2>1. CASE plan = Fit(r)
    <3>1. /\ Len(plan) = 4 /\ DOMAIN plan = 1 .. 4
          /\ plan[1].file = "transform" /\ plan[2].file = "registration_summary"
          /\ plan[3].file = "registration_status" /\ plan[4].file = "provenance"
          /\ plan[1].names = {} /\ plan[2].names = {} /\ plan[3].names = {}
          /\ plan[4].names = {"selected_npz"}
      BY <2>1 DEF Fit, Write, WriteNaming
    <3>2. QED
      BY <1>5, <3>1, StageFiles DEF OfStage
  <2>2. ASSUME NEW state,
               plan = <<Write("registration_status", {state}),
                        Write("registration_summary", {})>>
        PROVE  OfStage(plan, "REGISTRATION")
    <3>1. /\ Len(plan) = 2 /\ DOMAIN plan = 1 .. 2
          /\ plan[1].file = "registration_status" /\ plan[2].file = "registration_summary"
          /\ plan[1].names = {} /\ plan[2].names = {}
      BY <2>2 DEF Write, WriteAfterHashing
    <3>2. QED
      BY <3>1, StageFiles DEF OfStage
  <2>3. ASSUME NEW state,
               plan = <<Write("registration_status", {state}),
                        Write("registration_summary", {}), Write("transform", r.out)>>
        PROVE  OfStage(plan, "REGISTRATION")
    <3>1. /\ Len(plan) = 3 /\ DOMAIN plan = 1 .. 3
          /\ plan[1].file = "registration_status" /\ plan[2].file = "registration_summary"
          /\ plan[3].file = "transform"
          /\ plan[1].names = {} /\ plan[2].names = {} /\ plan[3].names = {}
      BY <2>3 DEF Write, WriteAfterHashing
    <3>2. QED
      BY <3>1, StageFiles DEF OfStage
  <2>4. QED
    BY <1>5, <2>1, <2>2, <2>3 DEF Plans, RegistrationPlans, FailedFits
<1>6. CASE r.stage = "METRICS"
  <2>1. PICK sources : plan = <<Write("experiment", sources), Write("report", r.out),
                                Write("metrics_status", {"COMPLETE"})>>
    BY <1>6 DEF Plans, MetricsPlans
  <2>2. /\ Len(plan) = 3 /\ DOMAIN plan = 1 .. 3
        /\ plan[1].file = "experiment" /\ plan[2].file = "report"
        /\ plan[3].file = "metrics_status"
        /\ plan[1].names = {} /\ plan[2].names = {} /\ plan[3].names = {}
    BY <2>1 DEF Write, WriteAfterHashing
  <2>3. QED
    BY <1>6, <2>2, StageFiles DEF OfStage
<1>7. QED
  BY <1>1, <1>2, <1>3, <1>4, <1>5, <1>6, Stages

\* The writes a run has made are what a reset leaves of them.
LEMMA FollowsAfterDeletion ==
  ASSUME TypeOK, FollowsPlan, run' \in {run, NoRun}, resets > 0 => resets' > 0,
         \A f \in File : OnlyDeleted(f)
  PROVE  FollowsPlan'
<1>1. CASE run' = NoRun
  BY <1>1, NoRunFields DEF FollowsPlan
<1>2. ASSUME run' = run, run.pc = "write" PROVE FollowsPlan'
  <2>1. PICK plan \in Plans(run) : Follows(plan)
    BY <1>2 DEF FollowsPlan
  <2>2. run.stage \in Stage
    BY <1>2, NoRunFields, RunInProgress
  <2>3. OfStage(plan, run.stage)
    BY <2>1, <2>2, PlansAreOfStage
  <2>4. Len(run.todo) \in Nat
    BY <1>2, NoRunFields, RunInProgress, LenProperties
  <2>5. ASSUME NEW i \in 1 .. Len(plan) - Len(run.todo), Kept(plan[i])
        PROVE  Kept(plan[i])'
    <3>1. i \in 1 .. Len(plan)
      <4>1. Len(plan) \in Nat
        BY <2>3 DEF OfStage
      <4>2. QED
        BY <2>4, <4>1
    <3>2. plan[i].file \in File
      BY <2>2, <2>3, <3>1, StageFiles DEF OfStage
    <3>3. OnlyDeleted(plan[i].file)
      BY <3>2
    <3>4. QED
      BY <1>2, <2>5, <3>3, FrameFile DEF Kept
  <2>6. Follows(plan)'
    BY <1>2, <2>1, <2>5 DEF Follows
  <2>7. QED
    BY <1>2, <2>1, <2>6 DEF FollowsPlan
<1>3. QED
  BY <1>1, <1>2 DEF FollowsPlan

LEMMA DeletionsKeepInv ==
  ASSUME PipelineInv, ElsewhereKeeps
  PROVE  PipelineInv'
<1>1. TypeOK /\ FollowsPlan /\ ElsewhereKeeps
  BY DEF PipelineInv
<1> DEFINE Still(s) == run'.stage = s /\ run' = run /\ run.stage = s
<1>2. \A s \in Stage : run'.stage # s \/ Still(s)
  BY <1>1, NoRunFields DEF ElsewhereKeeps
<1>3. /\ resets > 0 => resets' > 0
      /\ LastRun' = LastRun /\ LastRun \in Nat
      /\ \A s \in Stage : \A f \in FilesOf[s] : f \in File /\ OnlyDeleted(f)
  BY <1>1, LastRunType, StageFiles DEF ElsewhereKeeps
<1>4. TypeOK' /\ FollowsPlan'
  BY <1>1, FollowsAfterDeletion DEF ElsewhereKeeps
<1>5. MatchInv'
  <2>1. CASE run'.stage # "MATCH"
    BY <1>1, <1>3, <2>1, MatchFrame, Stages DEF PipelineInv, MatchInv
  <2>2. CASE Still("MATCH")
    <3>1. "match_status" \in FilesOf["MATCH"] /\ "decisions" \in FilesOf["MATCH"]
          /\ \A t \in run.out : t \in FilesOf["MATCH"]
      BY <1>1, <2>2, NoRunFields, RunInProgress, StageFiles, Stages DEF Findings
    <3>2. /\ OnlyDeleted("match_status") /\ OnlyDeleted("decisions")
          /\ \A t \in run.out : OnlyDeleted(t)
      BY <1>3, <3>1, Stages
    <3>3. ~ Holds("match_status", "COMPLETE")'
      BY <1>3, <2>2, <3>2, FrameFile DEF PipelineInv, MatchInv
    <3>4. run.pc \in {"hash", "tiles", "write"} => By("decisions", run.id)'
      BY <1>3, <2>2, <3>2, FrameFile DEF PipelineInv, MatchInv, By, Exists
    <3>5. \A t \in run.out : By(t, run.id)'
      BY <1>3, <2>2, <3>2, FrameFile DEF PipelineInv, MatchInv, By, Exists
    <3>6. QED
      BY <2>2, <3>3, <3>4, <3>5 DEF MatchInv, MatchIsWhole
  <2>3. QED
    BY <1>2, <2>1, <2>2, Stages
<1>6. TrustInv'
  <2>1. \A t \in Tile : OnlyDeleted(t)
    BY <1>3, StageFiles, Stages
  <2>2. VerdictsStand /\ CompleteGate
    BY DEF PipelineInv, TrustInv
  <2>3. CASE run'.stage # "TRUST"
    BY <1>1, <1>3, <2>1, <2>2, <2>3, TrustFrame, Stages
  <2>4. CASE Still("TRUST")
    <3>1. OnlyDeleted("tile_trust") /\ OnlyDeleted("trust_status")
      BY <1>3, StageFiles, Stages
    <3>2. VerdictsStand' /\ CompleteGate'
      BY <1>1, <1>3, <2>1, <2>2, TrustFiles, StageFiles, Stages
    <3>3. disk'["tile_trust"].by # run.id
      BY <1>1, <2>4, <3>1, NoRunFields, RunInProgress DEF PipelineInv, TrustInv, OnlyDeleted, Absent
    <3>4. TrustProgress(run)'
      BY <2>4 DEF PipelineInv, TrustInv
    <3>5. VerdictsOfRunStand'
      <4> SUFFICES ASSUME NEW t \in Trusted(run.out), Exists(t)' PROVE Holds(t, "good")'
        BY <2>4 DEF VerdictsOfRunStand
      <4>1. OnlyDeleted(t)
        BY <2>1 DEF Trusted
      <4>2. Exists(t) /\ disk'[t] = disk[t]
        BY <4>1, <1>3, FrameFile
      <4>3. QED
        BY <4>2, <2>4 DEF PipelineInv, TrustInv, VerdictsOfRunStand, Holds
    <3>6. QED
      BY <2>4, <3>2, <3>3, <3>4, <3>5 DEF TrustInv
  <2>5. QED
    BY <1>2, <2>3, <2>4, Stages
<1>7. SpatialInv'
  <2>1. CASE run'.stage # "SPATIAL"
    BY <1>1, <1>3, <2>1, SpatialFrame, Stages DEF PipelineInv, SpatialInv
  <2>2. CASE Still("SPATIAL")
    <3>1. OnlyDeleted("spatial_status")
      BY <1>3, StageFiles, Stages
    <3>2. ~ Holds("spatial_status", "COMPLETE")'
      BY <1>3, <2>2, <3>1, FrameFile DEF PipelineInv, SpatialInv
    <3>3. QED
      BY <2>2, <3>2 DEF SpatialInv, SpatialIsWhole
  <2>3. QED
    BY <1>2, <2>1, <2>2, Stages
<1>8. RegistrationInv'
  <2>1. CASE run'.stage # "REGISTRATION"
    BY <1>1, <1>3, <2>1, RegistrationFrame, Stages DEF PipelineInv, RegistrationInv
  <2>2. CASE Still("REGISTRATION")
    <3>1. /\ OnlyDeleted("registration_status") /\ OnlyDeleted("provenance")
          /\ \A f \in Evidence : OnlyDeleted(f)
      BY <1>3, StageFiles, Stages DEF Evidence
    <3>2. RegistrationIsWhole' /\ FittedToOneRun' /\ NamesItsSelection'
      BY <1>1, <1>3, RegistrationFiles, Stages DEF PipelineInv, RegistrationInv
    <3>3. OfOneRun'
      <4>1. PICK n \in 1 .. LastRun : /\ \A f \in Evidence : Exists(f) => disk[f].by = n
                                      /\ run.pc # "load" => run.out = {n}
        BY <2>2 DEF PipelineInv, RegistrationInv, OfOneRun
      <4>2. \A f \in Evidence : Exists(f)' => disk'[f].by = n
        BY <1>3, <3>1, <4>1, FrameFile
      <4>3. QED
        BY <1>3, <2>2, <4>1, <4>2 DEF OfOneRun
    <3>4. disk'["provenance"].by # run.id
      BY <1>1, <2>2, <3>1, NoRunFields, RunInProgress
         DEF PipelineInv, RegistrationInv, OnlyDeleted, Absent
    <3>5. Holds("registration_status", "COMPLETE")' => Holds("registration_status", "COMPLETE")
      BY <1>3, <3>1, FrameFile
    <3>6. QED
      BY <2>2, <3>2, <3>3, <3>4, <3>5 DEF PipelineInv, RegistrationInv
  <2>3. QED
    BY <1>2, <2>1, <2>2, Stages
<1>9. MetricsInv'
  <2>1. CASE run'.stage # "METRICS"
    BY <1>1, <1>3, <2>1, MetricsFrame, Stages DEF PipelineInv, MetricsInv
  <2>2. CASE Still("METRICS")
    <3>1. OnlyDeleted("metrics_status")
      BY <1>3, StageFiles, Stages
    <3>2. ~ Holds("metrics_status", "COMPLETE")'
      BY <1>3, <2>2, <3>1, FrameFile DEF PipelineInv, MetricsInv
    <3>3. QED
      BY <2>2, <3>2 DEF MetricsInv, MetricsIsWhole
  <2>3. QED
    BY <1>2, <2>1, <2>2, Stages
<1>10. QED
  BY <1>4, <1>5, <1>6, <1>7, <1>8, <1>9 DEF PipelineInv

LEMMA ElsewhereStep ==
  ASSUME PipelineInv, Elsewhere
  PROVE  PipelineInv'
  BY ElsewhereFrame, DeletionsKeepInv DEF PipelineInv

-------------------------------------------------------------------------------
(***************************************************************************)
(* Runs that start.                                                        *)
(***************************************************************************)
LEMMA RunTyped ==
  ASSUME NEW s \in Stage, NEW pc \in Places[s], NEW tiles \in Seq(Tile),
         NEW k \in Nat \ {0}, NEW done \in Nat, NEW late \in BOOLEAN,
         NEW out \in Findings(s)', NEW scene \in SUBSET Tile, NEW W,
         NEW todo \in Seq(W), pc = "write" <=> todo # <<>>,
         LastRun' \in Nat \ {0},
         run' = [stage |-> s, id |-> LastRun', pc |-> pc, tiles |-> tiles, k |-> k,
                 done |-> done, late |-> late, out |-> out, scene |-> scene, todo |-> todo]
  PROVE  RunOK(run)'
<1>1. todo \in Seq({todo[i] : i \in DOMAIN todo})
  OBVIOUS
<1>2. QED
  BY <1>1 DEF RunOK

LEMMA CountedRun ==
  ASSUME TypeOK, NEW s \in Stage, runs' = [runs EXCEPT ![s] = @ + 1]
  PROVE  /\ LastRun' = LastRun + 1 /\ LastRun \in Nat
         /\ runs' \in [Stage -> Nat]
<1>1. /\ LastRun \in Nat
      /\ runs \in [Stage -> Nat]
  BY LastRunType DEF TypeOK
<1>2. /\ runs'[s] = runs[s] + 1
      /\ \A t \in Stage \ {s} : runs'[t] = runs[t]
      /\ runs' \in [Stage -> Nat]
  BY <1>1
<1>3. \A t \in Stage : runs[t] \in Nat
  BY <1>1
<1>4. LastRun' = LastRun + 1
  BY <1>2, <1>3, Stages DEF LastRun
<1>5. QED
  BY <1>1, <1>2, <1>4

Started(s, where, tiles) ==
    /\ run = NoRun /\ TypeOK' /\ FollowsPlan'
    /\ LastRun \in Nat /\ LastRun' = LastRun + 1 /\ resets' = resets
    /\ run' = [NoRun EXCEPT !.stage = s, !.id = LastRun', !.pc = where, !.tiles = tiles]
    /\ disk'[StatusOf[s]] = [by |-> LastRun', val |-> {"RUNNING"}]
    /\ \A f \in File \ {StatusOf[s]} : disk'[f] = disk[f]

LEMMA BeginTypes ==
  ASSUME TypeOK, NEW s \in Stage, NEW where \in Places[s], where # "write",
         NEW tiles \in Seq(Tile), Begin(s, where, tiles)
  PROVE  Started(s, where, tiles)
<1>1. /\ run = NoRun /\ runs' = [runs EXCEPT ![s] = @ + 1]
      /\ UNCHANGED <<resetting, resets>>
  BY DEF Begin
<1>2. LastRun' = LastRun + 1 /\ LastRun \in Nat /\ runs' \in [Stage -> Nat]
  BY <1>1, CountedRun
<1>3. /\ run' = [NoRun EXCEPT !.stage = s, !.id = LastRun', !.pc = where, !.tiles = tiles]
      /\ disk' = [disk EXCEPT ![StatusOf[s]] = [by |-> LastRun', val |-> {"RUNNING"}]]
  BY <1>2 DEF Begin
<1>4. StatusOf[s] \in File \ (FileOfRuns \cup {"tile_trust", "match_summary"})
  BY StatusFiles, StatusIsNoResult, Stages
<1>5. {"RUNNING"} \in Values(StatusOf[s])'
  <2>1. StatusOf[s] \notin FileOfRuns \cup {"tile_trust", "match_summary"}
    BY <1>4
  <2>2. "RUNNING" \in State
    BY DEF State
  <2>3. QED
    BY <2>1, <2>2 DEF Values
<1>6. /\ DiskOK'
      /\ disk'[StatusOf[s]] = [by |-> LastRun', val |-> {"RUNNING"}]
      /\ \A f \in File \ {StatusOf[s]} : disk'[f] = disk[f]
  <2>1. /\ LastRun' \in 0 .. LastRun' /\ LastRun' # 0 /\ LastRun <= LastRun'
        /\ LastRun' \in Nat
    BY <1>2
  <2>2. /\ DiskOK'
        /\ \A f \in File \ {StatusOf[s]} : disk'[f] = disk[f]
    BY <1>2, <1>3, <1>4, <1>5, <2>1, DiskWrite DEF TypeOK
  <2>3. DOMAIN disk = File
    BY DEF TypeOK, DiskOK
  <2>4. QED
    BY <1>3, <1>4, <2>2, <2>3
<1>7. RunOK(run)' /\ run'.pc # "write"
  <2>1. run' = [stage |-> s, id |-> LastRun', pc |-> where, tiles |-> tiles, k |-> 1,
                done |-> 0, late |-> FALSE, out |-> {}, scene |-> {}, todo |-> <<>>]
    BY <1>3 DEF NoRun
  <2>2. {} \in Findings(s)'
    BY DEF Findings
  <2>3. LastRun' \in Nat \ {0} /\ 1 \in Nat \ {0} /\ 0 \in Nat
    BY <1>2
  <2>4. /\ {} \in SUBSET Tile /\ FALSE \in BOOLEAN
        /\ <<>> \in Seq({})
    OBVIOUS
  <2>5. RunOK(run)'
    BY <2>1, <2>2, <2>3, <2>4, RunTyped
  <2>6. QED
    BY <2>1, <2>5
<1>8. TypeOK' /\ FollowsPlan'
  BY <1>1, <1>2, <1>6, <1>7 DEF TypeOK, FollowsPlan
<1>9. QED
  BY <1>1, <1>2, <1>3, <1>6, <1>8 DEF Started

LEMMA StartedKeepsOthers ==
  ASSUME PipelineInv, NEW s \in Stage, NEW where, NEW tiles, Started(s, where, tiles)
  PROVE  /\ s # "MATCH" => MatchInv'
         /\ s # "TRUST" => TrustInv'
         /\ s # "SPATIAL" => SpatialInv'
         /\ s # "REGISTRATION" => RegistrationInv'
         /\ s # "METRICS" => MetricsInv'
<1>1. /\ TypeOK /\ LastRun \in Nat /\ LastRun' \in Nat /\ LastRun' >= LastRun
      /\ resets' = resets /\ run'.stage = s
  BY DEF Started, PipelineInv, NoRun
<1>2. StatusOf[s] \in FilesOf[s] /\ StatusOf[s] \in File \ Tile
  BY StatusFiles, StageFiles, Stages, TilesAreOfMatch
<1>3. \A t \in Stage \ {s} : \A f \in FilesOf[t] : OnlyDeleted(f)
  BY <1>2, OneStagePerFile, StageFiles DEF Started, OnlyDeleted
<1>4. \A t \in Tile : OnlyDeleted(t)
  BY <1>2, StageFiles, Stages DEF Started, OnlyDeleted
<1>5. s # "MATCH" => MatchInv'
  BY <1>1, <1>3, Stages, MatchFrame DEF PipelineInv, MatchInv
<1>6. s # "TRUST" => TrustInv'
  BY <1>1, <1>3, <1>4, Stages, TrustFrame DEF PipelineInv, TrustInv
<1>7. s # "SPATIAL" => SpatialInv'
  BY <1>1, <1>3, Stages, SpatialFrame DEF PipelineInv, SpatialInv
<1>8. s # "REGISTRATION" => RegistrationInv'
  BY <1>1, <1>3, Stages, RegistrationFrame DEF PipelineInv, RegistrationInv
<1>9. s # "METRICS" => MetricsInv'
  BY <1>1, <1>3, Stages, MetricsFrame DEF PipelineInv, MetricsInv
<1>10. QED
  BY <1>5, <1>6, <1>7, <1>8, <1>9

\* An enumeration in order names no tile twice.
LEMMA InOrderNamesOnce ==
  ASSUME NEW S \in SUBSET Tile, NEW list \in InOrder(S)
  PROVE  /\ list \in Seq(Tile)
         /\ \A i, j \in DOMAIN list : list[i] = list[j] => i = j
<1>1. /\ list \in [1 .. Cardinality(S) -> S]
      /\ \A i, j \in DOMAIN list : i < j =>
           \E m, n \in DOMAIN TileSeq :
              m < n /\ list[i] = TileSeq[m] /\ list[j] = TileSeq[n]
  BY DEF InOrder
<1>2. /\ DOMAIN TileSeq = 1 .. Len(TileSeq) /\ Len(TileSeq) \in Nat
      /\ \A m, n \in DOMAIN TileSeq : TileSeq[m] = TileSeq[n] => m = n
  BY TilesAssumption
<1>3. Cardinality(S) \in Nat
  <2>1. IsFiniteSet(1 .. Len(TileSeq))
    BY <1>2, FS_Interval
  <2>2. TileSeq \in Surjection(1 .. Len(TileSeq), Tile)
    BY <1>2, TilesAssumption DEF Tile, Surjection
  <2>3. IsFiniteSet(Tile)
    BY <2>1, <2>2, FS_Surjection
  <2>4. IsFiniteSet(S)
    BY <2>3, FS_Subset
  <2>5. QED
    BY <2>4, FS_CardinalityType
<1>4. list \in Seq(Tile)
  BY <1>1, <1>3
<1>5. \A i, j \in DOMAIN list : i < j => list[i] # list[j]
  BY <1>1, <1>2
<1>6. \A i, j \in DOMAIN list : i < j \/ i = j \/ j < i
  BY <1>1, <1>3
<1>7. QED
  BY <1>4, <1>5, <1>6

LEMMA StartMatchStep ==
  ASSUME PipelineInv, StartMatch
  PROVE  PipelineInv'
<1>1. TileSeq \in Seq(Tile)
  <2>1. TileSeq \in Seq(STRING)
    BY TilesAssumption
  <2>2. TileSeq \in [1 .. Len(TileSeq) -> Tile] /\ Len(TileSeq) \in Nat
    BY <2>1 DEF Tile
  <2>3. QED
    BY <2>2
<1>2. Started("MATCH", "build", TileSeq)
  <2>1. "build" \in Places["MATCH"] /\ "MATCH" \in Stage
    BY Stages DEF Places
  <2>2. QED
    BY <1>1, <2>1, BeginTypes DEF StartMatch, PipelineInv
<1>3. TrustInv' /\ SpatialInv' /\ RegistrationInv' /\ MetricsInv'
  BY <1>2, Stages, StartedKeepsOthers
<1>4. run'.pc = "build" /\ run'.out = {}
  BY <1>2 DEF Started, NoRun
<1>5. ~ Holds("match_status", "COMPLETE")'
  BY <1>2, StatusFiles DEF Started, Holds
<1>6. MatchInv'
  BY <1>4, <1>5 DEF MatchInv, MatchIsWhole
<1>7. QED
  BY <1>2, <1>3, <1>6 DEF PipelineInv, Started

LEMMA StartM8Step ==
  ASSUME PipelineInv, StartM8
  PROVE  PipelineInv'
<1>1. Started("M8", "deep", <<>>)
  <2>1. "deep" \in Places["M8"] /\ "M8" \in Stage /\ <<>> \in Seq(Tile)
    BY Stages DEF Places
  <2>2. QED
    BY <2>1, BeginTypes DEF StartM8, PipelineInv
<1>2. MatchInv' /\ TrustInv' /\ SpatialInv' /\ RegistrationInv' /\ MetricsInv'
  BY <1>1, Stages, StartedKeepsOthers
<1>3. QED
  BY <1>1, <1>2 DEF PipelineInv, Started

LEMMA StartMetricsStep ==
  ASSUME PipelineInv, StartMetrics
  PROVE  PipelineInv'
<1>1. Started("METRICS", "collect", <<>>)
  <2>1. "collect" \in Places["METRICS"] /\ "METRICS" \in Stage /\ <<>> \in Seq(Tile)
    BY Stages DEF Places
  <2>2. QED
    BY <2>1, BeginTypes DEF StartMetrics, PipelineInv
<1>2. MatchInv' /\ TrustInv' /\ SpatialInv' /\ RegistrationInv'
  BY <1>1, Stages, StartedKeepsOthers
<1>3. ~ Holds("metrics_status", "COMPLETE")'
  BY <1>1, StatusFiles DEF Started, Holds
<1>4. MetricsInv'
  BY <1>3 DEF MetricsInv, MetricsIsWhole
<1>5. QED
  BY <1>1, <1>2, <1>4 DEF PipelineInv, Started

LEMMA StartSpatialStep ==
  ASSUME PipelineInv, StartSpatial
  PROVE  PipelineInv'
<1>1. PICK tiles \in InOrder(TrustedTiles) : Begin("SPATIAL", "map", tiles)
  BY DEF StartSpatial
<1>2. Started("SPATIAL", "map", tiles)
  <2>1. "map" \in Places["SPATIAL"] /\ "SPATIAL" \in Stage
    BY Stages DEF Places
  <2>2. tiles \in Seq(Tile)
    BY <1>1, InOrderNamesOnce DEF TrustedTiles
  <2>3. QED
    BY <1>1, <2>1, <2>2, BeginTypes DEF PipelineInv
<1>3. MatchInv' /\ TrustInv' /\ RegistrationInv' /\ MetricsInv'
  BY <1>2, Stages, StartedKeepsOthers
<1>4. ~ Holds("spatial_status", "COMPLETE")'
  BY <1>2, StatusFiles DEF Started, Holds
<1>5. SpatialInv'
  BY <1>4 DEF SpatialInv, SpatialIsWhole
<1>6. QED
  BY <1>2, <1>3, <1>5 DEF PipelineInv, Started

LEMMA StartRegistrationStep ==
  ASSUME PipelineInv, StartRegistration
  PROVE  PipelineInv'
<1>1. Started("REGISTRATION", "load", <<>>)
  <2>1. "load" \in Places["REGISTRATION"] /\ "REGISTRATION" \in Stage /\ <<>> \in Seq(Tile)
    BY Stages DEF Places
  <2>2. QED
    BY <2>1, BeginTypes DEF StartRegistration, PipelineInv
<1>2. MatchInv' /\ TrustInv' /\ SpatialInv' /\ MetricsInv'
  BY <1>1, Stages, StartedKeepsOthers
<1>3. ~ Holds("registration_status", "COMPLETE")'
  BY <1>1, StatusFiles DEF Started, Holds
<1>4. /\ disk'["transform"] = disk["transform"]
      /\ disk'["provenance"] = disk["provenance"]
      /\ \A f \in Evidence : disk'[f] = disk[f]
  BY <1>1, StatusFiles, StageFiles, Stages DEF Started, Evidence
<1>5. FittedToOneRun'
  BY <1>1, <1>4 DEF PipelineInv, RegistrationInv, FittedToOneRun, Started, Exists
<1>6. NamesItsSelection'
  BY <1>4 DEF PipelineInv, RegistrationInv, NamesItsSelection
<1>7. /\ run'.id = LastRun' /\ run'.pc = "load" /\ LastRun' = LastRun + 1 /\ LastRun \in Nat
  BY <1>1 DEF Started, NoRun
<1>8. disk["provenance"].by \in 0 .. LastRun /\ disk["spatial_status"].by \in 0 .. LastRun
  BY RunIsLast, StageFiles, Stages DEF PipelineInv
<1>9. OfOneRun'
  <2>1. Holds("spatial_status", "COMPLETE") /\ Holds("selection", "SELECTED")
    BY DEF StartRegistration, Selected
  <2>2. disk["spatial_status"].by # 0
    <3>1. disk["spatial_status"] # Absent /\ "spatial_status" \in File
      BY <2>1, StageFiles, Stages DEF Holds, Absent
    <3>2. QED
      BY <3>1 DEF PipelineInv, TypeOK, DiskOK
  <2>3. \A f \in Evidence : Exists(f) => disk[f].by = disk["spatial_status"].by
    BY <2>1 DEF PipelineInv, SpatialInv, SpatialIsWhole, Evidence, By
  <2>4. disk["spatial_status"].by \in 1 .. LastRun'
    BY <1>7, <1>8, <2>2
  <2>5. \A f \in Evidence : Exists(f)' => disk'[f].by = disk["spatial_status"].by
    BY <1>4, <2>3 DEF Exists
  <2>6. QED
    BY <1>7, <2>4, <2>5 DEF OfOneRun
<1>10. disk'["provenance"].by # run'.id
  BY <1>4, <1>7, <1>8
<1>11. RegistrationInv'
  BY <1>3, <1>5, <1>6, <1>9, <1>10 DEF RegistrationInv, RegistrationIsWhole
<1>12. QED
  BY <1>1, <1>2, <1>11 DEF PipelineInv, Started

LEMMA StartTrustStep ==
  ASSUME PipelineInv, StartTrust
  PROVE  PipelineInv'
<1>1. PICK tiles \in InOrder(disk["match_summary"].val) : Begin("TRUST", "gate", tiles)
  BY DEF StartTrust
<1>2. disk["match_summary"].val \subseteq Tile
  BY StatusIsNoResult, FileValues DEF PipelineInv, TypeOK, DiskOK
<1>3. tiles \in Seq(Tile) /\ \A i, j \in DOMAIN tiles : tiles[i] = tiles[j] => i = j
  BY <1>1, <1>2, InOrderNamesOnce
<1>4. Started("TRUST", "gate", tiles)
  <2>1. "gate" \in Places["TRUST"] /\ "TRUST" \in Stage
    BY Stages DEF Places
  <2>2. QED
    BY <1>1, <1>3, <2>1, BeginTypes DEF PipelineInv
<1>5. MatchInv' /\ SpatialInv' /\ RegistrationInv' /\ MetricsInv'
  BY <1>4, Stages, StartedKeepsOthers
<1>6. ~ Holds("trust_status", "COMPLETE")'
  BY <1>4, StatusFiles DEF Started, Holds
<1>7. /\ disk'["tile_trust"] = disk["tile_trust"]
      /\ \A t \in Tile : disk'[t] = disk[t]
  <2>1. "tile_trust" \in File \ {"trust_status"} /\ Tile \subseteq File \ {"trust_status"}
    BY StageFiles, Stages, TilesAreOfMatch
  <2>2. QED
    BY <1>4, <2>1, StatusFiles DEF Started
<1>8. VerdictsStand'
  <2>1. TrustedTiles' = TrustedTiles /\ TrustedTiles \subseteq Tile
    BY <1>7 DEF TrustedTiles
  <2>2. QED
    BY <1>7, <2>1 DEF PipelineInv, TrustInv, VerdictsStand, Exists, Holds
<1>9. CompleteGate'
  BY <1>6 DEF CompleteGate
<1>10. /\ run'.id = LastRun' /\ run'.pc = "gate" /\ run'.k = 1 /\ run'.done = 0
       /\ run'.late = FALSE /\ run'.out = {} /\ run'.tiles = tiles
       /\ LastRun' = LastRun + 1 /\ LastRun \in Nat
  BY <1>4 DEF Started, NoRun
<1>11. disk'["tile_trust"].by # run'.id
  <2>1. disk["tile_trust"].by \in 0 .. LastRun
    BY RunIsLast, StatusIsNoResult DEF PipelineInv
  <2>2. QED
    BY <1>7, <1>10, <2>1
<1>12. TrustProgress(run)'
  <2>1. Judged(run') = 0 /\ Len(tiles) \in Nat
    BY <1>3, <1>10 DEF Judged
  <2>2. OneVerdictEach({}) /\ InTime({})
    BY DEF OneVerdictEach, InTime
  <2>3. QED
    BY <1>3, <1>10, <2>1, <2>2 DEF TrustProgress
<1>13. VerdictsOfRunStand'
  BY <1>10 DEF VerdictsOfRunStand, Trusted
<1>14. TrustInv'
  BY <1>8, <1>9, <1>11, <1>12, <1>13 DEF TrustInv
<1>15. QED
  BY <1>4, <1>5, <1>14 DEF PipelineInv, Started

-------------------------------------------------------------------------------
(***************************************************************************)
(* Steps of a run.                                                         *)
(***************************************************************************)

\* It writes files of its stage, or none.
OwnFiles ==
    /\ disk' = [f \in File |-> disk'[f]]
    /\ \A f \in File : \/ disk'[f] = disk[f]
                       \/ /\ f \in FilesOf[run.stage]
                          /\ disk'[f] = [by |-> run.id, val |-> disk'[f].val]
                          /\ disk'[f].val \in Values(f)

GoesOn ==
    /\ run' = [stage |-> run.stage, id |-> run.id, pc |-> run'.pc, tiles |-> run.tiles,
               k |-> run'.k, done |-> run'.done, late |-> run'.late, out |-> run'.out,
               scene |-> run'.scene, todo |-> run'.todo]
    /\ run'.pc \in Places[run.stage] /\ run'.k \in Nat \ {0} /\ run'.done \in Nat
    /\ run'.late \in BOOLEAN /\ run'.out \in Findings(run.stage)
    /\ run'.scene \subseteq Tile
    /\ run'.todo \in Seq({run'.todo[i] : i \in DOMAIN run'.todo})
    /\ run'.pc = "write" <=> run'.todo # <<>>

Stepped ==
    /\ OwnFiles /\ UNCHANGED <<runs, resetting, resets>>
    /\ run.stage \in Stage
    /\ run' = NoRun \/ GoesOn

LEMMA SteppedTypes ==
  ASSUME TypeOK, Stepped
  PROVE  /\ TypeOK' /\ OwnStep /\ LastRun' = LastRun
         /\ run # NoRun /\ run.id = LastRun /\ LastRun \in Nat \ {0}
<1>1. run # NoRun /\ run.id = LastRun /\ LastRun \in Nat \ {0}
  BY NoRunFields, RunInProgress, LastRunType DEF Stepped
<1>2. LastRun' = LastRun
  BY DEF LastRun, Stepped
<1>3. \A f : Values(f)' = Values(f) /\ Findings(f)' = Findings(f)
  BY <1>2 DEF Values, Findings
<1>4. DiskOK'
  <2> SUFFICES ASSUME NEW f \in File
               PROVE  /\ disk'[f] = [by |-> disk'[f].by, val |-> disk'[f].val]
                      /\ disk'[f].by \in 0 .. LastRun' /\ disk'[f].val \in Values(f)'
                      /\ disk'[f].by = 0 => disk'[f] = Absent
    <3>1. disk' = [f \in File |-> disk'[f]]
      BY DEF Stepped, OwnFiles
    <3>2. QED
      BY <3>1 DEF DiskOK
  <2>1. CASE disk'[f] = disk[f]
    <3>1. disk[f] = [by |-> disk[f].by, val |-> disk[f].val]
      BY DEF TypeOK, DiskOK
    <3>2. QED
      BY <1>2, <1>3, <2>1, <3>1 DEF TypeOK, DiskOK
  <2>2. CASE disk'[f] = [by |-> run.id, val |-> disk'[f].val] /\ disk'[f].val \in Values(f)
    <3>1. disk'[f].by = run.id
      BY <2>2
    <3>2. run.id \in 0 .. LastRun' /\ run.id # 0
      BY <1>1, <1>2
    <3>3. QED
      BY <1>3, <2>2, <3>1, <3>2
  <2>3. QED
    BY <2>1, <2>2 DEF Stepped, OwnFiles
<1>5. run' = NoRun \/ RunOK(run)'
  <2> SUFFICES ASSUME GoesOn PROVE RunOK(run)'
    BY DEF Stepped
  <2>1. run.stage \in Stage /\ run.tiles \in Seq(Tile) /\ run.id = LastRun' /\ LastRun' \in Nat \ {0}
    BY <1>1, <1>2, RunInProgress
  <2>2. run'.out \in Findings(run.stage)'
    BY <1>2 DEF Findings, GoesOn
  <2>3. run' = [stage |-> run.stage, id |-> LastRun', pc |-> run'.pc, tiles |-> run.tiles,
               k |-> run'.k, done |-> run'.done, late |-> run'.late, out |-> run'.out,
               scene |-> run'.scene, todo |-> run'.todo]
    BY <2>1 DEF GoesOn
  <2>4. QED
    BY <2>1, <2>2, <2>3 DEF GoesOn, RunOK
<1>6. TypeOK'
  BY <1>4, <1>5 DEF TypeOK, Stepped
<1>7. OwnStep
  <2>1. run' = NoRun \/ run'.stage = run.stage
    BY DEF Stepped, GoesOn
  <2>2. \A f \in File : \/ disk'[f] = disk[f]
                        \/ f \in FilesOf[run.stage] /\ disk'[f].by = run.id
    BY DEF Stepped, OwnFiles
  <2>3. QED
    BY <2>1, <2>2 DEF Stepped, OwnStep
<1>8. QED
  BY <1>1, <1>2, <1>6, <1>7

LEMMA SteppedKeeps ==
  ASSUME PipelineInv, Stepped
  PROVE  /\ TypeOK' /\ OthersKeep /\ LastRun' = LastRun
         /\ run # NoRun /\ run.id = LastRun /\ LastRun \in Nat \ {0}
         /\ UNCHANGED <<runs, resetting, resets>>
  BY SteppedTypes, OwnStepKeepsOthers DEF PipelineInv, Stepped

\* One file is written.
LEMMA OneWrite ==
  ASSUME TypeOK, run.stage \in Stage, NEW f \in FilesOf[run.stage], NEW v \in Values(f),
         disk' = [disk EXCEPT ![f] = Content(v)]
  PROVE  /\ OwnFiles /\ f \in File
         /\ disk'[f] = [by |-> run.id, val |-> v]
         /\ \A g \in File \ {f} : disk'[g] = disk[g]
<1>1. DOMAIN disk = File /\ f \in File
  BY StageFiles DEF TypeOK, DiskOK
<1>2. /\ disk'[f] = [by |-> run.id, val |-> v]
      /\ \A g \in File \ {f} : disk'[g] = disk[g]
      /\ disk' = [g \in File |-> disk'[g]]
  BY <1>1 DEF Content
<1>3. disk'[f].val = v
  BY <1>2
<1>4. QED
  BY <1>1, <1>2, <1>3 DEF OwnFiles

LEMMA NoWrite ==
  ASSUME TypeOK, UNCHANGED disk
  PROVE  OwnFiles
<1>1. disk = [f \in File |-> [by |-> disk[f].by, val |-> disk[f].val]]
  BY DEF TypeOK, DiskOK
<1>2. disk = [f \in File |-> disk[f]]
  BY <1>1
<1>3. QED
  BY <1>2 DEF OwnFiles

\* What a status file may hold.
LEMMA StateValues ==
  ASSUME NEW f \in File \ (FileOfRuns \cup {"tile_trust", "match_summary"}),
         NEW v \in SUBSET (Tile \cup State)
  PROVE  v \in Values(f)
  BY FileValues

LEMMA FinallyGoesOn ==
  ASSUME TypeOK, run # NoRun, NEW W, NEW plan \in Seq(W), plan # <<>>,
         run' = [run EXCEPT !.pc = "write", !.todo = plan]
  PROVE  /\ GoesOn /\ run'.stage = run.stage /\ run'.id = run.id /\ run'.pc = "write"
         /\ run'.tiles = run.tiles /\ run'.k = run.k /\ run'.done = run.done
         /\ run'.late = run.late /\ run'.out = run.out /\ run'.scene = run.scene
         /\ run'.todo = plan
<1>1. /\ run'.todo = plan /\ run'.pc = "write" /\ run'.stage = run.stage /\ run'.id = run.id
      /\ run'.tiles = run.tiles /\ run'.k = run.k /\ run'.done = run.done
      /\ run'.late = run.late /\ run'.out = run.out /\ run'.scene = run.scene
      /\ run' = [stage |-> run.stage, id |-> run.id, pc |-> run'.pc, tiles |-> run.tiles,
                 k |-> run'.k, done |-> run'.done, late |-> run'.late, out |-> run'.out,
                 scene |-> run'.scene, todo |-> run'.todo]
  BY RunInProgress
<1>2. "write" \in Places[run.stage]
  BY RunInProgress, Stages DEF Places
<1>3. run'.todo \in Seq({run'.todo[i] : i \in DOMAIN run'.todo})
  <2>1. plan \in Seq({plan[i] : i \in DOMAIN plan})
    OBVIOUS
  <2>2. QED
    BY <1>1, <2>1
<1>4. QED
  BY <1>1, <1>2, <1>3, RunInProgress DEF GoesOn

\* A run that comes to its last writes has its plan before it.
LEMMA PlanBegins ==
  ASSUME run'.stage \in Stage, run'.todo \in Plans(run')
  PROVE  FollowsPlan'
<1>1. OfStage(run'.todo, run'.stage)
  BY PlansAreOfStage
<1>2. Len(run'.todo) \in Nat
  BY <1>1 DEF OfStage
<1>3. Follows(run.todo)'
  BY <1>2 DEF Follows
<1>4. QED
  BY <1>3 DEF FollowsPlan

-------------------------------------------------------------------------------
(***************************************************************************)
(* MATCH and M8.                                                           *)
(***************************************************************************)
LEMMA MatchFiles ==
  /\ "match_status" \in FilesOf["MATCH"] /\ "decisions" \in FilesOf["MATCH"]
  /\ Tile \subseteq FilesOf["MATCH"] /\ "MATCH" \in Stage
  /\ \A f \in {"match_status", "decisions"} \cup Tile, v \in SUBSET State : v \in Values(f)
  /\ "match_status" \notin Tile /\ "decisions" \notin Tile /\ "match_status" # "decisions"
  BY StageFiles, Stages, StatusIsNoResult, StateValues, TilesAreOfMatch

\* Within a MATCH run: a status that is not COMPLETE, and the files of the run.
LEMMA MatchStep ==
  ASSUME PipelineInv, run.stage = "MATCH", Stepped,
         disk'["match_status"].val # {"COMPLETE"},
         run' = NoRun \/ FollowsPlan',
         run' # NoRun =>
           /\ run'.pc \in {"hash", "tiles", "write"} => By("decisions", run.id)'
           /\ \A t \in run'.out : By(t, run.id)'
  PROVE  PipelineInv'
<1>1. /\ TypeOK' /\ TrustInv' /\ SpatialInv' /\ RegistrationInv' /\ MetricsInv'
  BY SteppedKeeps DEF OthersKeep
<1>2. FollowsPlan'
  BY NoRunFields DEF FollowsPlan
<1>3. ~ Holds("match_status", "COMPLETE")'
  BY DEF Holds
<1>4. MatchInv'
  BY <1>3, NoRunFields, Stages DEF MatchInv, MatchIsWhole
<1>5. QED
  BY <1>1, <1>2, <1>4 DEF PipelineInv

LEMMA BuildTilesStep ==
  ASSUME PipelineInv, BuildTiles
  PROVE  PipelineInv'
<1>1. /\ TypeOK /\ run.stage = "MATCH" /\ run # NoRun /\ run.stage \in Stage
      /\ UNCHANGED <<runs, resetting, resets>>
  BY NoRunFields, Stages DEF PipelineInv, BuildTiles, At, EndWith, Continue, Stop
<1>2. PICK state \in {"RUNNING", "BLOCKED", "FAILED"} :
         disk' = [disk EXCEPT !["match_status"] = Content({state})]
  BY <1>1, StatusFiles DEF BuildTiles, Running, EndWith, StatusFile
<1>3. {state} \in Values("match_status")
  BY <1>2, MatchFiles DEF State
<1>4. OwnFiles /\ disk'["match_status"] = [by |-> run.id, val |-> {state}]
  BY <1>1, <1>2, <1>3, MatchFiles, OneWrite
<1>5. CASE run' = NoRun
  BY <1>1, <1>4, <1>5, MatchStep DEF Stepped
<1>6. CASE run' = [run EXCEPT !.pc = "decide"]
  <2>1. GoesOn /\ run'.pc = "decide" /\ run'.out = run.out /\ run'.id = run.id
    BY <1>1, <1>6, RunInProgress DEF GoesOn, Places, BuildTiles, At
  <2>2. Stepped
    BY <1>1, <1>4, <2>1 DEF Stepped
  <2>3. \A t \in Tile : disk'[t] = disk[t]
    BY <1>1, <1>2, <1>3, MatchFiles, OneWrite, StageFiles
  <2>4. \A t \in run.out : t \in Tile /\ By(t, run.id)
    BY <1>1, RunInProgress DEF Findings, PipelineInv, MatchInv
  <2>5. \A t \in run.out : By(t, run.id)'
    BY <1>1, <2>1, <2>3, <2>4 DEF By, Exists
  <2>6. FollowsPlan'
    BY <2>1 DEF FollowsPlan
  <2>7. QED
    BY <1>1, <1>4, <2>1, <2>2, <2>5, <2>6, MatchStep
<1>7. QED
  BY <1>5, <1>6 DEF BuildTiles, EndWith, Continue, Stop

LEMMA WriteDecisionsStep ==
  ASSUME PipelineInv, WriteDecisions
  PROVE  PipelineInv'
<1>1. /\ TypeOK /\ run.stage = "MATCH" /\ run # NoRun /\ run.stage \in Stage
      /\ UNCHANGED <<runs, resetting, resets>> /\ run.pc = "decide"
      /\ run' = [run EXCEPT !.pc = "hash"]
      /\ disk' = [disk EXCEPT !["decisions"] = Content({})]
  BY NoRunFields, Stages DEF PipelineInv, WriteDecisions, At, Continue
<1>2. /\ OwnFiles /\ disk'["decisions"] = [by |-> run.id, val |-> {}]
      /\ disk'["match_status"] = disk["match_status"]
      /\ \A t \in Tile : disk'[t] = disk[t]
  <2>1. {} \in Values("decisions") /\ "decisions" \in FilesOf[run.stage]
    BY <1>1, MatchFiles
  <2>2. \A g \in File \ {"decisions"} : disk'[g] = disk[g]
    BY <1>1, <2>1, OneWrite
  <2>3. OwnFiles /\ disk'["decisions"] = [by |-> run.id, val |-> {}]
    BY <1>1, <2>1, OneWrite
  <2>4. QED
    BY <2>2, <2>3, MatchFiles, StageFiles
<1>3. GoesOn /\ run'.pc = "hash" /\ run'.out = run.out /\ run'.id = run.id
  BY <1>1, RunInProgress DEF GoesOn, Places
<1>4. Stepped /\ FollowsPlan'
  BY <1>1, <1>2, <1>3 DEF Stepped, FollowsPlan
<1>5. ~ Holds("match_status", "COMPLETE") /\ \A t \in run.out : By(t, run.id)
  BY <1>1 DEF PipelineInv, MatchInv
<1>6. run.out \subseteq Tile
  BY <1>1, RunInProgress DEF Findings
<1>7. By("decisions", run.id)' /\ \A t \in run'.out : By(t, run.id)'
  BY <1>1, <1>2, <1>3, <1>5, <1>6 DEF By, Exists
<1>8. QED
  BY <1>1, <1>2, <1>4, <1>5, <1>7, MatchStep DEF Holds

\* The status of a MATCH run that goes on is RUNNING.
LEMMA StillRunning ==
  ASSUME TypeOK, run.stage = "MATCH", disk' = Running
  PROVE  /\ OwnFiles /\ disk'["match_status"].val # {"COMPLETE"}
         /\ disk'["decisions"] = disk["decisions"]
         /\ \A t \in Tile : disk'[t] = disk[t]
<1>1. {"RUNNING"} \in Values("match_status") /\ "match_status" \in FilesOf[run.stage]
  BY MatchFiles DEF State
<1>2. disk' = [disk EXCEPT !["match_status"] = Content({"RUNNING"})] /\ run.stage \in Stage
  BY Stages DEF Running
<1>3. \A g \in File \ {"match_status"} : disk'[g] = disk[g]
  BY <1>1, <1>2, OneWrite
<1>4. OwnFiles /\ disk'["match_status"] = [by |-> run.id, val |-> {"RUNNING"}]
  BY <1>1, <1>2, OneWrite
<1>5. QED
  BY <1>3, <1>4, MatchFiles, StageFiles

LEMMA HashDecisionsStep ==
  ASSUME PipelineInv, HashDecisions
  PROVE  PipelineInv'
<1>1. /\ TypeOK /\ run.stage = "MATCH" /\ run # NoRun /\ run.stage \in Stage
      /\ UNCHANGED <<runs, resetting, resets>> /\ run.pc = "hash"
  BY NoRunFields, Stages DEF PipelineInv, HashDecisions, At, Continue, Stop
<1>2. /\ ~ Holds("match_status", "COMPLETE") /\ By("decisions", run.id)
      /\ \A t \in run.out : By(t, run.id)
  BY <1>1 DEF PipelineInv, MatchInv
<1>3. CASE run' = NoRun /\ disk' = disk
  <2>1. Stepped
    BY <1>1, <1>3, NoWrite DEF Stepped
  <2>2. QED
    BY <1>1, <1>2, <1>3, <2>1, MatchStep DEF Holds
<1>4. CASE run' = [run EXCEPT !.pc = "tiles"] /\ disk' = Running
  <2>1. GoesOn /\ run'.pc = "tiles" /\ run'.out = run.out /\ run'.id = run.id
    BY <1>1, <1>4, RunInProgress DEF GoesOn, Places
  <2>2. Stepped /\ FollowsPlan'
    BY <1>1, <1>4, <2>1, StillRunning DEF Stepped, FollowsPlan
  <2>3. run.out \subseteq Tile
    BY <1>1, RunInProgress DEF Findings
  <2>4. By("decisions", run.id)' /\ \A t \in run'.out : By(t, run.id)'
    BY <1>1, <1>2, <1>4, <2>1, <2>3, StillRunning DEF By, Exists
  <2>5. QED
    BY <1>1, <1>4, <2>2, <2>4, StillRunning, MatchStep
<1>5. QED
  BY <1>3, <1>4 DEF HashDecisions, Continue, Stop

LEMMA MatchDoneStep ==
  ASSUME PipelineInv, MatchDone
  PROVE  PipelineInv'
<1> DEFINE plan == <<Write("match_summary", run.out),
                     WriteAfterHashing("match_status", {"COMPLETE"}, {"match_summary"})>>
<1>1. /\ TypeOK /\ run.stage = "MATCH" /\ run # NoRun /\ run.stage \in Stage
      /\ UNCHANGED <<runs, resetting, resets>> /\ run.pc = "tiles"
      /\ run' = [run EXCEPT !.pc = "write", !.todo = plan] /\ disk' = Running
  BY NoRunFields, Stages DEF PipelineInv, MatchDone, At, Continue, Finally
<1>2. /\ By("decisions", run.id) /\ \A t \in run.out : By(t, run.id)
  BY <1>1 DEF PipelineInv, MatchInv
<1>3. plan # <<>> /\ plan \in Seq({plan[1], plan[2]}) /\ plan \in MatchPlans(run)
  BY DEF MatchPlans
<1> HIDE DEF plan
<1>4. /\ GoesOn /\ run'.stage = "MATCH" /\ run'.pc = "write" /\ run'.out = run.out
      /\ run'.id = run.id /\ run'.todo = plan
  BY <1>1, <1>3, FinallyGoesOn
<1>5. Stepped
  BY <1>1, <1>4, StillRunning DEF Stepped
<1>6. run'.todo \in Plans(run')
  BY <1>3, <1>4 DEF Plans, MatchPlans
<1>7. FollowsPlan'
  BY <1>4, <1>6, Stages, PlanBegins
<1>8. run.out \subseteq Tile
  BY <1>1, RunInProgress DEF Findings
<1>9. By("decisions", run.id)' /\ \A t \in run'.out : By(t, run.id)'
  BY <1>1, <1>2, <1>4, <1>8, StillRunning DEF By, Exists
<1>10. QED
  BY <1>1, <1>5, <1>7, <1>9, StillRunning, MatchStep

LEMMA MatchTileStep ==
  ASSUME PipelineInv, MatchTile
  PROVE  PipelineInv'
<1>1. /\ TypeOK /\ run.stage = "MATCH" /\ run # NoRun /\ run.stage \in Stage
      /\ UNCHANGED <<runs, resetting, resets>> /\ run.pc = "tiles"
      /\ run.k <= Len(run.tiles) /\ run.k \in Nat \ {0}
  BY NoRunFields, Stages, RunInProgress
     DEF PipelineInv, MatchTile, At, Continue, Stop, EndWith
<1>2. /\ By("decisions", run.id) /\ \A t \in run.out : By(t, run.id)
  BY <1>1 DEF PipelineInv, MatchInv
<1>3. run.out \subseteq Tile /\ run.tiles[run.k] \in Tile
  BY <1>1, RunInProgress, ElementOfSeq DEF Findings
<1>4. CASE disk' = Running /\ run' = [run EXCEPT !.k = @ + 1]
  <2>1. GoesOn /\ run'.pc = "tiles" /\ run'.out = run.out /\ run'.id = run.id
    BY <1>1, <1>4, RunInProgress DEF GoesOn, Places
  <2>2. Stepped /\ FollowsPlan'
    BY <1>1, <1>4, <2>1, StillRunning DEF Stepped, FollowsPlan
  <2>3. By("decisions", run.id)' /\ \A t \in run'.out : By(t, run.id)'
    BY <1>1, <1>2, <1>3, <1>4, <2>1, StillRunning DEF By, Exists
  <2>4. QED
    BY <1>1, <1>4, <2>2, <2>3, StillRunning, MatchStep
<1>5. ASSUME NEW q \in Quality, NEW t, t = run.tiles[run.k],
             disk' = [Running EXCEPT ![t] = Content({q})],
             run' = [[run EXCEPT !.k = @ + 1] EXCEPT !.out = @ \cup {t}]
      PROVE  PipelineInv'
  <2>1. /\ GoesOn /\ run'.pc = "tiles" /\ run'.out = run.out \cup {t} /\ run'.id = run.id
    <3>1. run' = [run EXCEPT !.k = run.k + 1, !.out = run.out \cup {t}]
      BY <1>1, <1>5, RunInProgress
    <3>2. run.out \cup {t} \in Findings(run.stage) /\ run.k + 1 \in Nat \ {0}
      BY <1>1, <1>3, <1>5 DEF Findings
    <3>3. QED
      BY <1>1, <3>1, <3>2, RunInProgress DEF GoesOn, Places
  <2>2. t \in FilesOf["MATCH"] /\ t \in File /\ t # "match_status" /\ t # "decisions"
    BY <1>3, <1>5, MatchFiles, StageFiles
  <2>3. {q} \in Values(t) /\ {"RUNNING"} \in Values("match_status")
    BY <1>3, <1>5, MatchFiles, QualityAssumption DEF State
  <2>4. DOMAIN disk = File /\ "match_status" \in File
    BY <1>1, MatchFiles, StageFiles DEF TypeOK, DiskOK
  <2>5. /\ disk'[t] = [by |-> run.id, val |-> {q}]
        /\ disk'["match_status"] = [by |-> run.id, val |-> {"RUNNING"}]
        /\ \A g \in File \ {t, "match_status"} : disk'[g] = disk[g]
        /\ disk' = [g \in File |-> disk'[g]]
    BY <1>5, <2>2, <2>4 DEF Running, Content
  <2>6. OwnFiles
    <3>1. disk'[t].val = {q} /\ disk'["match_status"].val = {"RUNNING"}
      BY <2>5
    <3>2. QED
      BY <1>1, <2>2, <2>3, <2>5, <3>1, MatchFiles DEF OwnFiles
  <2>7. Stepped /\ FollowsPlan'
    BY <1>1, <2>1, <2>6 DEF Stepped, FollowsPlan
  <2>8. \A u \in Tile \ {t} : disk'[u] = disk[u]
    BY <2>5, MatchFiles, StageFiles
  <2>9. disk'["decisions"] = disk["decisions"]
    BY <2>2, <2>5, MatchFiles, StageFiles
  <2>10. By("decisions", run.id)' /\ By(t, run.id)'
    BY <1>1, <1>2, <2>1, <2>5, <2>9 DEF By, Exists
  <2>11. \A u \in run'.out : By(u, run.id)'
    BY <1>1, <1>2, <1>3, <2>1, <2>8, <2>10 DEF By, Exists
  <2>12. QED
    BY <1>1, <2>5, <2>7, <2>10, <2>11, MatchStep
<1>6. CASE EndWith("FAILED")
  <2>1. {"FAILED"} \in Values("match_status") /\ "match_status" \in FilesOf[run.stage]
    BY <1>1, MatchFiles DEF State
  <2>2. disk' = [disk EXCEPT !["match_status"] = Content({"FAILED"})] /\ run' = NoRun
    BY <1>1, <1>6, StatusFiles DEF EndWith, StatusFile, Stop, Continue
  <2>3. OwnFiles /\ disk'["match_status"] = [by |-> run.id, val |-> {"FAILED"}]
    BY <1>1, <2>1, <2>2, OneWrite
  <2>4. QED
    BY <1>1, <2>2, <2>3, MatchStep DEF Stepped
<1>7. QED
  BY <1>4, <1>5, <1>6 DEF MatchTile, Continue

LEMMA WriteM8Step ==
  ASSUME PipelineInv, WriteM8
  PROVE  PipelineInv'
<1> DEFINE plan == <<Write("m8", {"COMPLETE"})>>
<1>1. /\ TypeOK /\ run.stage = "M8" /\ run # NoRun /\ run.stage \in Stage
      /\ UNCHANGED <<runs, resetting, resets>>
      /\ run' = [run EXCEPT !.pc = "write", !.todo = plan] /\ disk' = disk
  BY NoRunFields, Stages DEF PipelineInv, WriteM8, At, Continue, Finally
<1>2. plan # <<>> /\ plan \in Seq({plan[1]}) /\ plan \in M8Plans
  BY DEF M8Plans
<1> HIDE DEF plan
<1>3. /\ GoesOn /\ run'.stage = "M8" /\ run'.todo = plan
  BY <1>1, <1>2, FinallyGoesOn
<1>4. Stepped
  BY <1>1, <1>3, NoWrite DEF Stepped
<1>5. FollowsPlan'
  BY <1>2, <1>3, Stages, PlanBegins DEF Plans
<1>6. QED
  BY <1>1, <1>4, <1>5, SteppedKeeps DEF OthersKeep, PipelineInv

-------------------------------------------------------------------------------
(***************************************************************************)
(* TRUST: one verdict after the other.                                     *)
(***************************************************************************)
TrustRecord(r) ==
    /\ r.tiles \in Seq(Tile) /\ r.k \in Nat \ {0} /\ r.done \in Nat
    /\ r.late \in BOOLEAN /\ r.out \in SUBSET (Tile \X Verdict)

\* What progress means before the time is over.
LEMMA ProgressInTime ==
  ASSUME NEW r, TrustProgress(r), ~ r.late
  PROVE  /\ \A i, j \in DOMAIN r.tiles : r.tiles[i] = r.tiles[j] => i = j
         /\ Judged(r) <= Len(r.tiles) /\ r.done <= Judged(r)
         /\ InTime(r.out) /\ OneVerdictEach(r.out)
         /\ \A i \in 1 .. Judged(r) : \E u \in Verdict : <<r.tiles[i], u>> \in r.out
         /\ \A t \in Tile, u \in Verdict : <<t, u>> \in r.out =>
              \E i \in DOMAIN r.tiles : r.tiles[i] = t /\ i <= Judged(r)
         /\ (\A t \in Tile : <<t, "MISSING">> \notin r.out) => r.done = Judged(r)
<1>1. \A t \in Tile, u \in Verdict : <<t, u>> \in r.out =>
         \E i \in DOMAIN r.tiles : r.tiles[i] = t /\ i <= Judged(r)
  BY Zenon DEF TrustProgress
<1>2. InTime(r.out)
  BY Zenon DEF TrustProgress
<1>3. QED
  BY <1>1, <1>2, Zenon DEF TrustProgress

LEMMA JudgedType ==
  ASSUME NEW r, TrustRecord(r)
  PROVE  Judged(r) \in Nat /\ Len(r.tiles) \in Nat /\ DOMAIN r.tiles = 1 .. Len(r.tiles)
  BY LenProperties DEF TrustRecord, Judged

LEMMA ProgressAtTile ==
  ASSUME NEW r, TrustRecord(r), TrustProgress(r), r.pc \in {"gate", "evaluate"}, ~ r.late
  PROVE  /\ \A i, j \in DOMAIN r.tiles : r.tiles[i] = r.tiles[j] => i = j
         /\ r.done <= r.k - 1 /\ InTime(r.out) /\ OneVerdictEach(r.out)
         /\ \A i \in 1 .. r.k - 1 : \E u \in Verdict : <<r.tiles[i], u>> \in r.out
         /\ \A t \in Tile, u \in Verdict : <<t, u>> \in r.out =>
              \E i \in DOMAIN r.tiles : r.tiles[i] = t /\ i <= r.k - 1
         /\ (\A t \in Tile : <<t, "MISSING">> \notin r.out) => r.done = r.k - 1
<1>1. /\ \A i, j \in DOMAIN r.tiles : r.tiles[i] = r.tiles[j] => i = j
      /\ r.done <= Judged(r) /\ InTime(r.out) /\ OneVerdictEach(r.out)
      /\ \A i \in 1 .. Judged(r) : \E u \in Verdict : <<r.tiles[i], u>> \in r.out
      /\ \A t \in Tile, u \in Verdict : <<t, u>> \in r.out =>
           \E i \in DOMAIN r.tiles : r.tiles[i] = t /\ i <= Judged(r)
      /\ (\A t \in Tile : <<t, "MISSING">> \notin r.out) => r.done = Judged(r)
  BY ProgressInTime, Zenon
<1>2. Judged(r) = r.k - 1
  BY DEF Judged
<1>3. \A i \in 1 .. r.k - 1 : \E u \in Verdict : <<r.tiles[i], u>> \in r.out
  BY <1>1, <1>2
<1>4. \A t \in Tile, u \in Verdict : <<t, u>> \in r.out =>
         \E i \in DOMAIN r.tiles : r.tiles[i] = t /\ i <= r.k - 1
  BY <1>1, <1>2
<1>5. /\ (\A t \in Tile : <<t, "MISSING">> \notin r.out) => r.done = r.k - 1
      /\ r.done <= r.k - 1
  BY <1>1, <1>2
<1>6. QED
  BY <1>1, <1>3, <1>4, <1>5, Zenon

\* The tile it is at gets its verdict, in time.
LEMMA JudgesTile ==
  ASSUME NEW r, TrustRecord(r), TrustProgress(r), r.pc \in {"gate", "evaluate"},
         r.k <= Len(r.tiles), ~ r.late, NEW v \in Verdict \ {"TIMEOUT"},
         NEW q, q.tiles = r.tiles, q.late = r.late, q.pc \in {"gate", "gather"},
         q.out = r.out \cup {<<r.tiles[r.k], v>>}, Judged(q) = r.k,
         q.done = IF v = "MISSING" THEN r.done ELSE r.done + 1
  PROVE  TrustProgress(q)
<1> DEFINE tile == r.tiles[r.k]
<1>1. /\ Judged(r) = r.k - 1 /\ r.k \in 1 .. Len(r.tiles) /\ Len(r.tiles) \in Nat
      /\ DOMAIN r.tiles = 1 .. Len(r.tiles) /\ r.k \in Nat /\ r.done \in Nat
  BY JudgedType DEF Judged, TrustRecord
<1>2. tile \in Tile /\ v # "TIMEOUT"
  BY <1>1, ElementOfSeq DEF TrustRecord
<1>3. /\ \A i, j \in DOMAIN r.tiles : r.tiles[i] = r.tiles[j] => i = j
      /\ r.done <= r.k - 1 /\ InTime(r.out) /\ OneVerdictEach(r.out)
      /\ \A i \in 1 .. r.k - 1 : \E u \in Verdict : <<r.tiles[i], u>> \in r.out
      /\ \A t \in Tile, u \in Verdict : <<t, u>> \in r.out =>
           \E i \in DOMAIN r.tiles : r.tiles[i] = t /\ i <= r.k - 1
      /\ (\A t \in Tile : <<t, "MISSING">> \notin r.out) => r.done = r.k - 1
  BY ProgressAtTile
<1> HIDE DEF tile
<1>4. q.out = r.out \cup {<<tile, v>>}
  BY DEF tile
<1>5. q.done <= Judged(q) /\ Judged(q) <= Len(q.tiles)
  BY <1>1, <1>3
<1>6. \A i \in 1 .. Judged(q) : \E u \in Verdict : <<q.tiles[i], u>> \in q.out
  <2> SUFFICES ASSUME NEW i \in 1 .. r.k PROVE \E u \in Verdict : <<r.tiles[i], u>> \in q.out
    OBVIOUS
  <2>1. CASE i = r.k
    BY <1>4, <2>1 DEF tile
  <2>2. CASE i # r.k
    <3>1. i \in 1 .. r.k - 1
      BY <1>1, <2>2
    <3>2. QED
      BY <1>3, <1>4, <3>1
  <2>3. QED
    BY <2>1, <2>2
<1>7. InTime(q.out)
  BY <1>2, <1>3, <1>4 DEF InTime
<1>8. \A t \in Tile, u \in Verdict : <<t, u>> \in q.out =>
         \E i \in DOMAIN q.tiles : q.tiles[i] = t /\ i <= Judged(q)
  <2> SUFFICES ASSUME NEW t \in Tile, NEW u \in Verdict, <<t, u>> \in q.out
               PROVE  \E i \in DOMAIN r.tiles : r.tiles[i] = t /\ i <= r.k
    OBVIOUS
  <2>1. CASE <<t, u>> \in r.out
    <3>1. PICK i \in DOMAIN r.tiles : r.tiles[i] = t /\ i <= r.k - 1
      BY <1>3, <2>1
    <3>2. i <= r.k
      BY <1>1, <3>1
    <3>3. QED
      BY <3>1, <3>2
  <2>2. CASE t = tile
    BY <1>1, <2>2 DEF tile
  <2>3. QED
    BY <1>4, <2>1, <2>2
<1>9. (\A t \in Tile : <<t, "MISSING">> \notin q.out) => q.done = Judged(q)
  <2> SUFFICES ASSUME \A t \in Tile : <<t, "MISSING">> \notin q.out PROVE q.done = r.k
    OBVIOUS
  <2>1. \A t \in Tile : <<t, "MISSING">> \notin r.out
    BY <1>4
  <2>2. v # "MISSING"
    BY <1>2, <1>4
  <2>3. QED
    BY <1>1, <1>3, <2>1, <2>2
<1>10. OneVerdictEach(q.out)
  <2> SUFFICES ASSUME \A t \in Tile : <<t, "MISSING">> \notin q.out,
                      NEW t \in Tile, NEW u \in Verdict, NEW w \in Verdict,
                      <<t, u>> \in q.out, <<t, w>> \in q.out
               PROVE  u = w
    BY DEF OneVerdictEach
  <2>1. CASE t = tile
    <3>1. ASSUME NEW x \in Verdict, <<t, x>> \in r.out PROVE FALSE
      <4>1. PICK i \in DOMAIN r.tiles : r.tiles[i] = t /\ i <= r.k - 1
        BY <1>3, <3>1
      <4>2. i = r.k
        BY <1>1, <1>3, <2>1, <4>1 DEF tile
      <4>3. QED
        BY <1>1, <4>1, <4>2
    <3>2. QED
      BY <1>4, <3>1
  <2>2. CASE t # tile
    BY <1>3, <1>4, <2>2 DEF OneVerdictEach
  <2>3. QED
    BY <2>1, <2>2
<1>11. QED
  BY <1>3, <1>5, <1>6, <1>7, <1>8, <1>9, <1>10 DEF TrustProgress

\* Out of time: the tiles it has not processed get theirs all the same.
LEMMA TimeoutJudgesTheRest ==
  ASSUME NEW r, TrustRecord(r), TrustProgress(r), r.pc = "gate",
         r.k <= Len(r.tiles), ~ r.late,
         NEW q, q.tiles = r.tiles, q.late = TRUE, q.pc = "gate", q.k = r.k, q.done = r.done,
         q.out = r.out \cup {<<r.tiles[i], "TIMEOUT">> : i \in r.done + 1 .. Len(r.tiles)}
  PROVE  TrustProgress(q)
<1>1. /\ Judged(r) = r.k - 1 /\ Judged(q) = r.k - 1 /\ Len(r.tiles) \in Nat
      /\ DOMAIN r.tiles = 1 .. Len(r.tiles) /\ r.k \in Nat /\ r.done \in Nat
  BY JudgedType DEF Judged, TrustRecord
<1>2. /\ \A i, j \in DOMAIN r.tiles : r.tiles[i] = r.tiles[j] => i = j
      /\ r.done <= r.k - 1 /\ OneVerdictEach(r.out)
      /\ \A i \in 1 .. r.k - 1 : \E u \in Verdict : <<r.tiles[i], u>> \in r.out
      /\ \A t \in Tile, u \in Verdict : <<t, u>> \in r.out =>
           \E i \in DOMAIN r.tiles : r.tiles[i] = t /\ i <= r.k - 1
      /\ (\A t \in Tile : <<t, "MISSING">> \notin r.out) => r.done = r.k - 1
  BY ProgressAtTile
<1>3. \A t \in Tile, u \in Verdict : <<t, u>> \in q.out =>
         \/ <<t, u>> \in r.out
         \/ u = "TIMEOUT" /\ \E i \in r.done + 1 .. Len(r.tiles) : t = r.tiles[i]
  OBVIOUS
<1>4. \A i \in r.done + 1 .. Len(r.tiles) : i \in DOMAIN r.tiles /\ <<r.tiles[i], "TIMEOUT">> \in q.out
  BY <1>1
<1>5. \A t \in Tile, u \in Verdict : <<t, u>> \in q.out =>
         \E i \in DOMAIN q.tiles : q.tiles[i] = t
  BY <1>2, <1>3, <1>4
<1>6. (\A t \in Tile : <<t, "MISSING">> \notin q.out) =>
         \A t \in Tile : <<t, "MISSING">> \notin r.out
  OBVIOUS
<1>7. OneVerdictEach(q.out)
  <2> SUFFICES ASSUME \A t \in Tile : <<t, "MISSING">> \notin q.out,
                      NEW t \in Tile, NEW u \in Verdict, NEW w \in Verdict,
                      <<t, u>> \in q.out, <<t, w>> \in q.out
               PROVE  u = w
    BY DEF OneVerdictEach
  <2>1. r.done = r.k - 1 /\ \A s \in Tile : <<s, "MISSING">> \notin r.out
    BY <1>2, <1>6
  <2>2. ASSUME NEW i \in r.done + 1 .. Len(r.tiles), t = r.tiles[i],
               NEW x \in Verdict, <<t, x>> \in r.out
        PROVE  FALSE
    <3>1. PICK j \in DOMAIN r.tiles : r.tiles[j] = t /\ j <= r.k - 1
      BY <1>2, <2>2
    <3>2. i \in DOMAIN r.tiles /\ i >= r.k
      BY <1>1, <1>4, <2>1
    <3>3. i = j
      BY <1>2, <2>2, <3>1, <3>2
    <3>4. QED
      BY <1>1, <3>1, <3>2, <3>3
  <2>3. CASE <<t, u>> \in r.out /\ <<t, w>> \in r.out
    BY <1>2, <2>1, <2>3 DEF OneVerdictEach
  <2>4. QED
    BY <1>3, <2>2, <2>3
<1>8. \A i \in 1 .. Judged(q) : \E u \in Verdict : <<q.tiles[i], u>> \in q.out
  BY <1>1, <1>2
<1>9. /\ Judged(q) <= Len(q.tiles) /\ q.done <= Judged(q)
      /\ (\A t \in Tile : <<t, "MISSING">> \notin q.out) => q.done = Judged(q)
  BY <1>1, <1>2, <1>6
<1>10. QED
  BY <1>2, <1>4, <1>5, <1>7, <1>8, <1>9 DEF TrustProgress

\* Within a TRUST run, before its writes.
LEMMA TrustStep ==
  ASSUME PipelineInv, run.stage = "TRUST", UNCHANGED disk, Stepped,
         run' # NoRun => FollowsPlan' /\ TrustProgress(run)' /\ VerdictsOfRunStand'
  PROVE  PipelineInv'
<1>1. /\ TypeOK' /\ MatchInv' /\ SpatialInv' /\ RegistrationInv' /\ MetricsInv'
  BY SteppedKeeps DEF OthersKeep
<1>2. FollowsPlan'
  BY NoRunFields DEF FollowsPlan
<1>3. VerdictsStand' /\ CompleteGate'
  BY DEF PipelineInv, TrustInv, VerdictsStand, CompleteGate, TrustedTiles, Exists, Holds
<1>4. run' # NoRun => run'.id = run.id
  BY DEF Stepped, GoesOn
<1>5. disk["tile_trust"].by # run.id
  BY DEF PipelineInv, TrustInv
<1>6. TrustInv'
  BY <1>3, <1>4, <1>5, NoRunFields, Stages DEF TrustInv
<1>7. QED
  BY <1>1, <1>2, <1>6 DEF PipelineInv

LEMMA TrustRunNow ==
  ASSUME PipelineInv, run.stage = "TRUST"
  PROVE  /\ TypeOK /\ run # NoRun /\ run.stage \in Stage
         /\ TrustRecord(run) /\ TrustProgress(run) /\ VerdictsOfRunStand
         /\ Findings("TRUST") = SUBSET (Tile \X Verdict)
  BY NoRunFields, Stages, RunInProgress DEF PipelineInv, TrustInv, TrustRecord, Findings

LEMMA TrustGoesOn ==
  ASSUME TypeOK, run # NoRun, run.stage = "TRUST", run.pc # "write",
         run' = [run EXCEPT !.pc = run'.pc, !.k = run'.k, !.done = run'.done,
                            !.late = run'.late, !.out = run'.out],
         run'.pc \in {"gate", "evaluate", "gather"}, run'.k \in Nat \ {0},
         run'.done \in Nat, run'.late \in BOOLEAN, run'.out \in SUBSET (Tile \X Verdict)
  PROVE  GoesOn /\ FollowsPlan' /\ run'.tiles = run.tiles
<1>1. /\ run'.tiles = run.tiles /\ run'.todo = run.todo /\ run'.scene = run.scene
      /\ run' = [stage |-> run.stage, id |-> run.id, pc |-> run'.pc, tiles |-> run.tiles,
                 k |-> run'.k, done |-> run'.done, late |-> run'.late, out |-> run'.out,
                 scene |-> run'.scene, todo |-> run'.todo]
  BY RunInProgress
<1>2. /\ run'.pc \in Places[run.stage] /\ run'.pc # "write"
      /\ run'.out \in Findings(run.stage)
  BY DEF Places, Findings
<1>3. run'.scene \subseteq Tile /\ run'.todo = <<>>
  BY <1>1, RunInProgress
<1>4. run'.todo \in Seq({run'.todo[i] : i \in DOMAIN run'.todo})
  BY <1>3
<1>5. GoesOn
  BY <1>1, <1>2, <1>3, <1>4 DEF GoesOn
<1>6. QED
  BY <1>1, <1>2, <1>5 DEF FollowsPlan

LEMMA TimeoutStep ==
  ASSUME PipelineInv, Timeout
  PROVE  PipelineInv'
<1> DEFINE rest == {<<run.tiles[i], "TIMEOUT">> : i \in run.done + 1 .. Len(run.tiles)}
<1>1. /\ run.stage = "TRUST" /\ run.pc = "gate" /\ run.k <= Len(run.tiles) /\ ~ run.late
      /\ disk' = disk /\ UNCHANGED <<runs, resetting, resets>>
      /\ run' = [run EXCEPT !.late = TRUE, !.out = run.out \cup rest]
  BY TrustRunNow, RunInProgress DEF Timeout, At, HasTile, Continue
<1>2. rest \in SUBSET (Tile \X Verdict)
  <2>1. \A i \in run.done + 1 .. Len(run.tiles) : run.tiles[i] \in Tile
    BY <1>1, TrustRunNow, ElementOfSeq, LenProperties DEF TrustRecord
  <2>2. QED
    BY <2>1 DEF Verdict
<1>3. /\ GoesOn /\ FollowsPlan'
      /\ run'.tiles = run.tiles /\ run'.late = TRUE /\ run'.pc = "gate" /\ run'.k = run.k
      /\ run'.done = run.done /\ run'.out = run.out \cup rest
  <2> HIDE DEF rest
  <2>1. /\ run'.late = TRUE /\ run'.pc = "gate" /\ run'.k = run.k
        /\ run'.done = run.done /\ run'.out = run.out \cup rest
        /\ run' = [run EXCEPT !.pc = run'.pc, !.k = run'.k, !.done = run'.done,
                              !.late = run'.late, !.out = run'.out]
    BY <1>1, TrustRunNow, RunInProgress
  <2>2. run.out \cup rest \in SUBSET (Tile \X Verdict)
    BY <1>1, <1>2, TrustRunNow DEF TrustRecord
  <2>3. QED
    BY <1>1, <2>1, <2>2, TrustRunNow, TrustGoesOn DEF TrustRecord
<1>4. TrustProgress(run)'
  BY <1>1, <1>3, TrustRunNow, TimeoutJudgesTheRest
<1> HIDE DEF rest
<1>5. VerdictsOfRunStand'
  <2>1. Trusted(run'.out) = Trusted(run.out)
    BY <1>3 DEF Trusted, rest
  <2>2. QED
    BY <1>1, <2>1, TrustRunNow DEF VerdictsOfRunStand, Exists, Holds
<1>6. Stepped
  BY <1>1, <1>3, TrustRunNow, NoWrite DEF Stepped
<1>7. QED
  BY <1>1, <1>3, <1>4, <1>5, <1>6, TrustStep

LEMMA LookForTileStep ==
  ASSUME PipelineInv, LookForTile
  PROVE  PipelineInv'
<1>1. /\ run.stage = "TRUST" /\ run.pc = "gate" /\ run.k <= Len(run.tiles) /\ ~ run.late
      /\ disk' = disk /\ UNCHANGED <<runs, resetting, resets>>
  BY DEF LookForTile, At, HasTile, Continue
<1>2. run.tiles[run.k] \in Tile
  BY <1>1, TrustRunNow, ElementOfSeq, LenProperties DEF TrustRecord
<1>3. CASE run' = [run EXCEPT !.pc = "evaluate"]
  <2>1. /\ GoesOn /\ FollowsPlan'
        /\ run'.tiles = run.tiles /\ run'.late = run.late /\ run'.pc = "evaluate"
        /\ run'.k = run.k /\ run'.done = run.done /\ run'.out = run.out
    <3>1. /\ run'.late = run.late /\ run'.pc = "evaluate" /\ run'.k = run.k
          /\ run'.done = run.done /\ run'.out = run.out
          /\ run' = [run EXCEPT !.pc = run'.pc, !.k = run'.k, !.done = run'.done,
                                !.late = run'.late, !.out = run'.out]
      BY <1>1, <1>3, TrustRunNow, RunInProgress
    <3>2. QED
      BY <1>1, <3>1, TrustRunNow, TrustGoesOn DEF TrustRecord
  <2>2. TrustProgress(run)'
    <3>1. Judged(run') = Judged(run)
      BY <1>1, <2>1 DEF Judged
    <3>2. QED
      BY <1>1, <2>1, <3>1, TrustRunNow DEF TrustProgress
  <2>3. VerdictsOfRunStand'
    BY <1>1, <2>1, TrustRunNow DEF VerdictsOfRunStand, Exists, Holds
  <2>4. Stepped
    BY <1>1, <2>1, TrustRunNow, NoWrite DEF Stepped
  <2>5. QED
    BY <1>1, <2>1, <2>2, <2>3, <2>4, TrustStep
<1>4. CASE run' = [run EXCEPT !.k = @ + 1, !.out = @ \cup {<<ThisTile, "MISSING">>}]
  <2> DEFINE out == run.out \cup {<<run.tiles[run.k], "MISSING">>}
  <2>1. /\ GoesOn /\ FollowsPlan'
        /\ run'.tiles = run.tiles /\ run'.late = run.late /\ run'.pc = "gate"
        /\ run'.k = run.k + 1 /\ run'.done = run.done /\ run'.out = out
    <3>1. out \in SUBSET (Tile \X Verdict) /\ run.k + 1 \in Nat \ {0}
      BY <1>1, <1>2, TrustRunNow DEF TrustRecord, Verdict
    <3>2. run' = [run EXCEPT !.k = run.k + 1, !.out = out]
      BY <1>4 DEF ThisTile
    <3> HIDE DEF out
    <3>3. /\ run'.late = run.late /\ run'.pc = "gate" /\ run'.k = run.k + 1
          /\ run'.done = run.done /\ run'.out = out
          /\ run' = [run EXCEPT !.pc = run'.pc, !.k = run'.k, !.done = run'.done,
                                !.late = run'.late, !.out = run'.out]
      BY <1>1, <3>2, TrustRunNow, RunInProgress
    <3>4. QED
      BY <1>1, <3>1, <3>3, TrustRunNow, TrustGoesOn DEF TrustRecord
  <2>2. TrustProgress(run)'
    <3>1. Judged(run') = run.k /\ "MISSING" \in Verdict \ {"TIMEOUT"}
      BY <1>1, <2>1, TrustRunNow DEF Judged, Verdict, TrustRecord
    <3>2. QED
      BY <1>1, <2>1, <3>1, TrustRunNow, JudgesTile
  <2>3. VerdictsOfRunStand'
    <3>1. Trusted(run'.out) = Trusted(run.out)
      BY <2>1 DEF Trusted
    <3>2. QED
      BY <1>1, <3>1, TrustRunNow DEF VerdictsOfRunStand, Exists, Holds
  <2>4. Stepped
    BY <1>1, <2>1, TrustRunNow, NoWrite DEF Stepped
  <2>5. QED
    BY <1>1, <2>1, <2>2, <2>3, <2>4, TrustStep
<1>5. QED
  BY <1>3, <1>4 DEF LookForTile, Continue

LEMMA EvaluateTileStep ==
  ASSUME PipelineInv, EvaluateTile
  PROVE  PipelineInv'
<1>1. /\ run.stage = "TRUST" /\ run.pc = "evaluate" /\ disk' = disk
      /\ UNCHANGED <<runs, resetting, resets>>
  BY DEF EvaluateTile, At, Continue
<1>2. run.k <= Len(run.tiles) /\ ~ run.late
  BY <1>1, TrustRunNow DEF TrustProgress
<1>3. run.tiles[run.k] \in Tile
  BY <1>1, <1>2, TrustRunNow, ElementOfSeq, LenProperties DEF TrustRecord
<1> DEFINE v == Evaluated(ThisTile)
<1>4. /\ v \in Verdict \ {"TIMEOUT"} /\ v # "MISSING"
      /\ v = "TRUSTED" => Holds(ThisTile, "good")
  BY DEF Evaluated, Verdict
<1> DEFINE out == run.out \cup {<<run.tiles[run.k], v>>}
           pc == IF v = "TRUSTED" THEN "gather" ELSE "gate"
           k == IF v = "TRUSTED" THEN run.k ELSE run.k + 1
<1>5. run' = IF v = "TRUSTED" THEN [[run EXCEPT !.done = @ + 1, !.out = out] EXCEPT !.pc = "gather"]
             ELSE [[run EXCEPT !.done = @ + 1, !.out = out] EXCEPT !.pc = "gate", !.k = @ + 1]
  BY DEF EvaluateTile, Continue, ThisTile
<1> HIDE DEF v
<1>6. /\ GoesOn /\ FollowsPlan'
      /\ run'.tiles = run.tiles /\ run'.late = run.late /\ run'.done = run.done + 1
      /\ run'.out = out /\ run'.pc = pc /\ run'.k = k
  <2>1. out \in SUBSET (Tile \X Verdict)
    BY <1>1, <1>3, <1>4, TrustRunNow DEF TrustRecord
  <2> HIDE DEF out
  <2>2. /\ run'.late = run.late /\ run'.pc = pc /\ run'.k = k
        /\ run'.done = run.done + 1 /\ run'.out = out
        /\ run' = [run EXCEPT !.pc = run'.pc, !.k = run'.k, !.done = run'.done,
                              !.late = run'.late, !.out = run'.out]
    BY <1>1, <1>5, TrustRunNow, RunInProgress
  <2>3. pc \in {"gate", "evaluate", "gather"} /\ k \in Nat \ {0} /\ run.done + 1 \in Nat
    BY <1>1, TrustRunNow DEF TrustRecord
  <2> HIDE DEF pc, k
  <2>4. QED
    BY <1>1, <2>1, <2>2, <2>3, TrustRunNow, TrustGoesOn DEF TrustRecord
<1>7. TrustProgress(run)'
  <2>1. Judged(run') = run.k
    BY <1>1, <1>6, TrustRunNow DEF Judged, TrustRecord
  <2>2. QED
    BY <1>1, <1>2, <1>4, <1>6, <2>1, TrustRunNow, JudgesTile
<1>8. VerdictsOfRunStand'
  <2> SUFFICES ASSUME NEW t \in Trusted(run'.out), Exists(t) PROVE Holds(t, "good")
    BY <1>1 DEF VerdictsOfRunStand, Exists, Holds
  <2>1. t \in Trusted(run.out) \/ (t = ThisTile /\ v = "TRUSTED")
    <3>1. t \in Tile /\ <<t, "TRUSTED">> \in run'.out
      BY DEF Trusted
    <3>2. <<t, "TRUSTED">> \in run.out \/ <<t, "TRUSTED">> = <<run.tiles[run.k], v>>
      BY <1>6, <3>1
    <3>3. <<t, "TRUSTED">> \in run.out => t \in Trusted(run.out)
      BY <3>1 DEF Trusted
    <3>4. <<t, "TRUSTED">> = <<run.tiles[run.k], v>> => t = ThisTile /\ v = "TRUSTED"
      BY DEF ThisTile
    <3>5. QED
      BY <3>2, <3>3, <3>4
  <2>2. QED
    BY <1>1, <1>4, <2>1, TrustRunNow DEF VerdictsOfRunStand
<1>9. Stepped
  BY <1>1, <1>6, TrustRunNow, NoWrite DEF Stepped
<1>10. QED
  BY <1>1, <1>6, <1>7, <1>8, <1>9, TrustStep

LEMMA GatherInliersStep ==
  ASSUME PipelineInv, GatherInliers
  PROVE  PipelineInv'
<1>1. /\ run.stage = "TRUST" /\ run.pc = "gather" /\ disk' = disk
      /\ UNCHANGED <<runs, resetting, resets>>
  BY DEF GatherInliers, At, Continue, Stop
<1>2. CASE run' = NoRun
  <2>1. Stepped
    BY <1>1, <1>2, TrustRunNow, NoWrite DEF Stepped
  <2>2. UNCHANGED disk
    BY <1>1
  <2>3. QED
    BY <1>1, <1>2, <2>1, <2>2, TrustStep, Zenon
<1>3. CASE run' = [run EXCEPT !.pc = "gate", !.k = @ + 1]
  <2>1. /\ GoesOn /\ FollowsPlan'
        /\ run'.tiles = run.tiles /\ run'.late = run.late /\ run'.pc = "gate"
        /\ run'.k = run.k + 1 /\ run'.done = run.done /\ run'.out = run.out
    <3>1. /\ run'.late = run.late /\ run'.pc = "gate" /\ run'.k = run.k + 1
          /\ run'.done = run.done /\ run'.out = run.out
          /\ run' = [run EXCEPT !.pc = run'.pc, !.k = run'.k, !.done = run'.done,
                                !.late = run'.late, !.out = run'.out]
      BY <1>1, <1>3, TrustRunNow, RunInProgress
    <3>2. run.k + 1 \in Nat \ {0}
      BY TrustRunNow, <1>1 DEF TrustRecord
    <3>3. QED
      BY <1>1, <3>1, <3>2, TrustRunNow, TrustGoesOn DEF TrustRecord
  <2>2. TrustProgress(run)'
    <3>1. Judged(run') = Judged(run)
      BY <1>1, <2>1, TrustRunNow DEF Judged, TrustRecord
    <3>2. QED
      BY <1>1, <2>1, <3>1, TrustRunNow DEF TrustProgress
  <2>3. VerdictsOfRunStand'
    BY <1>1, <2>1, TrustRunNow DEF VerdictsOfRunStand, Exists, Holds
  <2>4. Stepped
    BY <1>1, <2>1, TrustRunNow, NoWrite DEF Stepped
  <2>5. QED
    BY <1>1, <2>1, <2>2, <2>3, <2>4, TrustStep
<1>4. QED
  BY <1>2, <1>3 DEF GatherInliers, Continue, Stop

LEMMA GateDoneStep ==
  ASSUME PipelineInv, GateDone
  PROVE  PipelineInv'
<1> DEFINE state == IF Trusted(run.out) # {} /\ ~ run.late THEN "COMPLETE" ELSE "FAILED"
           plan == <<Write("trust_status", {state}), Write("tile_trust", run.out)>>
<1>1. /\ run.stage = "TRUST" /\ run.pc = "gate" /\ disk' = disk
      /\ run.k > Len(run.tiles) \/ run.late
      /\ UNCHANGED <<runs, resetting, resets>>
      /\ run' = [run EXCEPT !.pc = "write", !.todo = plan]
  BY TrustRunNow DEF GateDone, At, Continue, HasTile, Finally, TrustRecord
<1>2. state \in Outcomes(run.out)
  BY <1>1, TrustRunNow, Zenon DEF Outcomes, TrustProgress
<1> HIDE DEF state
<1>3. plan # <<>> /\ plan \in Seq({plan[1], plan[2]}) /\ plan \in TrustPlans(run)
  BY <1>2 DEF TrustPlans
<1> HIDE DEF plan
<1>4. /\ GoesOn /\ run'.stage = "TRUST" /\ run'.pc = "write" /\ run'.tiles = run.tiles
      /\ run'.k = run.k /\ run'.done = run.done /\ run'.late = run.late
      /\ run'.out = run.out /\ run'.todo = plan
  BY <1>1, <1>3, TrustRunNow, FinallyGoesOn
<1>5. Stepped
  BY <1>1, <1>4, TrustRunNow, NoWrite DEF Stepped
<1>6. FollowsPlan'
  <2>1. run'.todo \in Plans(run')
    BY <1>3, <1>4 DEF Plans, TrustPlans
  <2>2. QED
    BY <1>4, <2>1, Stages, PlanBegins
<1>7. TrustProgress(run)'
  <2>1. Judged(run') = Judged(run)
    BY <1>1, <1>4 DEF Judged
  <2>2. run.late \/ Judged(run) = Len(run.tiles)
    <3>1. Judged(run) <= Len(run.tiles) /\ Judged(run) = run.k - 1
      BY <1>1, TrustRunNow DEF TrustProgress, Judged
    <3>2. QED
      BY <1>1, <3>1, TrustRunNow, JudgedType DEF TrustRecord
  <2>3. QED
    BY <1>4, <2>1, <2>2, TrustRunNow, <1>1 DEF TrustProgress
<1>8. VerdictsOfRunStand'
  BY <1>1, <1>4, TrustRunNow DEF VerdictsOfRunStand, Exists, Holds
<1>9. QED
  BY <1>1, <1>5, <1>6, <1>7, <1>8, TrustStep

-------------------------------------------------------------------------------
(***************************************************************************)
(* SPATIAL.                                                                *)
(***************************************************************************)
LEMMA SpatialStep ==
  ASSUME PipelineInv, run.stage = "SPATIAL", Stepped, FollowsPlan',
         disk'["spatial_status"].val # {"COMPLETE"}
  PROVE  PipelineInv'
<1>1. /\ TypeOK' /\ MatchInv' /\ TrustInv' /\ RegistrationInv' /\ MetricsInv'
  BY SteppedKeeps DEF OthersKeep
<1>2. SpatialInv'
  BY DEF SpatialInv, SpatialIsWhole, Holds
<1>3. QED
  BY <1>1, <1>2 DEF PipelineInv

LEMMA SpatialRunNow ==
  ASSUME PipelineInv, run.stage = "SPATIAL"
  PROVE  /\ TypeOK /\ run # NoRun /\ run.stage \in Stage
         /\ disk["spatial_status"].val # {"COMPLETE"}
         /\ run.k \in Nat \ {0} /\ run.done \in Nat /\ run.late \in BOOLEAN
         /\ run.tiles \in Seq(Tile) /\ run.out \in SUBSET Tile /\ run.scene \in SUBSET Tile
  BY NoRunFields, Stages, RunInProgress DEF PipelineInv, SpatialInv, Holds, Findings

LEMMA SpatialGoesOn ==
  ASSUME TypeOK, run # NoRun, run.stage = "SPATIAL", run.pc # "write",
         run' = [run EXCEPT !.pc = run'.pc, !.k = run'.k, !.done = run'.done,
                            !.late = run'.late, !.out = run'.out, !.scene = run'.scene],
         run'.pc = "tiles", run'.k \in Nat \ {0}, run'.done \in Nat, run'.late \in BOOLEAN,
         run'.out \in SUBSET Tile, run'.scene \in SUBSET Tile
  PROVE  GoesOn /\ FollowsPlan'
<1>1. /\ run'.todo = run.todo
      /\ run' = [stage |-> run.stage, id |-> run.id, pc |-> run'.pc, tiles |-> run.tiles,
                 k |-> run'.k, done |-> run'.done, late |-> run'.late, out |-> run'.out,
                 scene |-> run'.scene, todo |-> run'.todo]
  BY RunInProgress
<1>2. /\ run'.pc \in Places[run.stage] /\ run'.pc # "write"
      /\ run'.out \in Findings(run.stage)
  BY DEF Places, Findings
<1>3. run'.todo = <<>>
  BY <1>1, RunInProgress
<1>4. run'.todo \in Seq({run'.todo[i] : i \in DOMAIN run'.todo})
  BY <1>3
<1>5. GoesOn
  BY <1>1, <1>2, <1>3, <1>4 DEF GoesOn
<1>6. QED
  BY <1>2, <1>5 DEF FollowsPlan

LEMMA LoadSceneStep ==
  ASSUME PipelineInv, LoadScene
  PROVE  PipelineInv'
<1>1. /\ run.stage = "SPATIAL" /\ run.pc = "map" /\ UNCHANGED <<runs, resetting, resets>>
  BY DEF LoadScene, At, Continue
<1>2. ASSUME NEW names \in NamesTiles, UNCHANGED disk,
             run' = [run EXCEPT !.pc = "tiles",
                                !.scene = {t \in Tile : names /\ Exists(t)}]
      PROVE  PipelineInv'
  <2> DEFINE scene == {t \in Tile : names /\ Exists(t)}
  <2>1. run' = [run EXCEPT !.pc = "tiles", !.scene = scene] /\ scene \in SUBSET Tile
    BY <1>2
  <2> HIDE DEF scene
  <2>2. /\ run'.pc = "tiles" /\ run'.k = run.k /\ run'.done = run.done
        /\ run'.late = run.late /\ run'.out = run.out /\ run'.scene = scene
        /\ run' = [run EXCEPT !.pc = run'.pc, !.k = run'.k, !.done = run'.done,
                              !.late = run'.late, !.out = run'.out, !.scene = run'.scene]
    BY <1>1, <2>1, SpatialRunNow, RunInProgress
  <2>3. GoesOn /\ FollowsPlan'
    BY <1>1, <2>1, <2>2, SpatialRunNow, SpatialGoesOn
  <2>4. Stepped
    BY <1>1, <1>2, <2>3, SpatialRunNow, NoWrite DEF Stepped
  <2>5. QED
    BY <1>1, <1>2, <2>3, <2>4, SpatialRunNow, SpatialStep
<1>3. CASE /\ disk' = [disk EXCEPT !["spatial_status"] = Content({"BLOCKED"})]
           /\ run' = Finally(<<Write("mapping", {"NOT_MAPPABLE"})>>)
  <2> DEFINE plan == <<Write("mapping", {"NOT_MAPPABLE"})>>
  <2>1. plan # <<>> /\ plan \in Seq({plan[1]}) /\ plan \in SpatialPlans(run)
    BY DEF SpatialPlans
  <2>2. run' = [run EXCEPT !.pc = "write", !.todo = plan]
    BY <1>3 DEF Finally
  <2> HIDE DEF plan
  <2>3. /\ GoesOn /\ run'.stage = "SPATIAL" /\ run'.out = run.out /\ run'.scene = run.scene
        /\ run'.todo = plan
    BY <1>1, <2>1, <2>2, SpatialRunNow, FinallyGoesOn
  <2>4. FollowsPlan'
    <3>1. run'.todo \in Plans(run')
      BY <2>1, <2>3 DEF Plans, SpatialPlans
    <3>2. QED
      BY <2>3, <3>1, Stages, PlanBegins
  <2>5. {"BLOCKED"} \in Values("spatial_status") /\ "spatial_status" \in FilesOf[run.stage]
    BY <1>1, StateValues, StatusIsNoResult, StageFiles DEF State
  <2>6. OwnFiles /\ disk'["spatial_status"] = [by |-> run.id, val |-> {"BLOCKED"}]
    BY <1>1, <1>3, <2>5, SpatialRunNow, OneWrite
  <2>7. Stepped
    BY <1>1, <2>3, <2>6, SpatialRunNow DEF Stepped
  <2>8. QED
    BY <1>1, <2>4, <2>6, <2>7, SpatialStep
<1>4. QED
  BY <1>2, <1>3 DEF LoadScene, Continue

LEMMA SpatialTimeoutStep ==
  ASSUME PipelineInv, SpatialTimeout
  PROVE  PipelineInv'
<1>1. /\ run.stage = "SPATIAL" /\ run.pc = "tiles" /\ UNCHANGED disk
      /\ UNCHANGED <<runs, resetting, resets>> /\ run' = [run EXCEPT !.late = TRUE]
  BY DEF SpatialTimeout, At, Continue
<1>2. /\ run'.pc = "tiles" /\ run'.k = run.k /\ run'.done = run.done
      /\ run'.late = TRUE /\ run'.out = run.out /\ run'.scene = run.scene
      /\ run' = [run EXCEPT !.pc = run'.pc, !.k = run'.k, !.done = run'.done,
                            !.late = run'.late, !.out = run'.out, !.scene = run'.scene]
  BY <1>1, SpatialRunNow, RunInProgress
<1>3. GoesOn /\ FollowsPlan'
  BY <1>1, <1>2, SpatialRunNow, SpatialGoesOn
<1>4. Stepped
  BY <1>1, <1>3, SpatialRunNow, NoWrite DEF Stepped
<1>5. QED
  BY <1>1, <1>3, <1>4, SpatialRunNow, SpatialStep

LEMMA UseTileStep ==
  ASSUME PipelineInv, UseTile
  PROVE  PipelineInv'
<1>1. /\ run.stage = "SPATIAL" /\ run.pc = "tiles" /\ UNCHANGED disk
      /\ UNCHANGED <<runs, resetting, resets>> /\ run.k <= Len(run.tiles)
  BY DEF UseTile, At, Continue, HasTrustedTile
<1>2. run.tiles[run.k] \in Tile /\ run.k + 1 \in Nat \ {0} /\ run.done + 1 \in Nat
  BY <1>1, SpatialRunNow, ElementOfSeq, LenProperties
<1> DEFINE t == run.tiles[run.k]
<1>3. \/ run' = [run EXCEPT !.k = @ + 1, !.done = @ + 1, !.out = @ \cup {t}]
      \/ run' = [run EXCEPT !.k = @ + 1]
  BY DEF UseTile, Continue
<1>4. t \in Tile
  BY <1>2
<1> HIDE DEF t
<1>5. /\ run'.pc = "tiles" /\ run'.k = run.k + 1 /\ run'.done \in {run.done, run.done + 1}
      /\ run'.late = run.late /\ run'.out \in {run.out, run.out \cup {t}}
      /\ run'.scene = run.scene
      /\ run' = [run EXCEPT !.pc = run'.pc, !.k = run'.k, !.done = run'.done,
                            !.late = run'.late, !.out = run'.out, !.scene = run'.scene]
  BY <1>1, <1>3, SpatialRunNow, RunInProgress
<1>6. run'.out \in SUBSET Tile
  BY <1>1, <1>4, <1>5, SpatialRunNow
<1>7. GoesOn /\ FollowsPlan'
  BY <1>1, <1>2, <1>5, <1>6, SpatialRunNow, SpatialGoesOn
<1>8. Stepped
  BY <1>1, <1>7, SpatialRunNow, NoWrite DEF Stepped
<1>9. QED
  BY <1>1, <1>7, <1>8, SpatialRunNow, SpatialStep

LEMMA NothingRecomputedStep ==
  ASSUME PipelineInv, NothingRecomputed
  PROVE  PipelineInv'
<1> DEFINE plan == <<Write("spatial_summary", {})>>
<1>1. /\ run.stage = "SPATIAL" /\ run.pc = "tiles" /\ UNCHANGED <<runs, resetting, resets>>
      /\ disk' = [disk EXCEPT !["spatial_status"] = Content({"FAILED"})]
      /\ run' = [run EXCEPT !.pc = "write", !.todo = plan]
  BY DEF NothingRecomputed, At, Continue, Finally
<1>2. plan # <<>> /\ plan \in Seq({plan[1]}) /\ plan \in SpatialPlans(run)
  BY DEF SpatialPlans
<1> HIDE DEF plan
<1>3. /\ GoesOn /\ run'.stage = "SPATIAL" /\ run'.out = run.out /\ run'.scene = run.scene
      /\ run'.todo = plan
  BY <1>1, <1>2, SpatialRunNow, FinallyGoesOn
<1>4. FollowsPlan'
  <2>1. run'.todo \in Plans(run')
    BY <1>2, <1>3 DEF Plans, SpatialPlans
  <2>2. QED
    BY <1>3, <2>1, Stages, PlanBegins
<1>5. {"FAILED"} \in Values("spatial_status") /\ "spatial_status" \in FilesOf[run.stage]
  BY <1>1, StateValues, StatusIsNoResult, StageFiles DEF State
<1>6. OwnFiles /\ disk'["spatial_status"] = [by |-> run.id, val |-> {"FAILED"}]
  BY <1>1, <1>5, SpatialRunNow, OneWrite
<1>7. Stepped
  BY <1>1, <1>3, <1>6, SpatialRunNow DEF Stepped
<1>8. QED
  BY <1>1, <1>4, <1>6, <1>7, SpatialStep

LEMMA InARow ==
  ASSUME NEW a, NEW b, NEW c, NEW d, NEW e
  PROVE  /\ (<<a, b>> \o <<c>> \o <<d>>) \o <<e>> = <<a, b, c, d, e>>
         /\ (<<a, b>> \o <<>> \o <<d>>) \o <<e>> = <<a, b, d, e>>
         /\ <<a, b>> \o <<c>> = <<a, b, c>>
<1> DEFINE S == {a, b, c, d, e}
<1>1. /\ <<a, b>> \in Seq(S) /\ <<a, b, c>> \in Seq(S) /\ <<a, b, c, d>> \in Seq(S)
      /\ <<a, b, c, d, e>> \in Seq(S) /\ <<a, b, d>> \in Seq(S) /\ <<a, b, d, e>> \in Seq(S)
      /\ <<c>> \in Seq(S) /\ <<d>> \in Seq(S) /\ <<e>> \in Seq(S)
  OBVIOUS
<1>2. <<a, b>> \o <<c>> = <<a, b, c>>
  <2>1. /\ Len(<<a, b>> \o <<c>>) = 3 /\ <<a, b>> \o <<c>> \in Seq(S)
        /\ \A i \in 1 .. 3 : (<<a, b>> \o <<c>>)[i] = <<a, b, c>>[i]
    BY <1>1, ConcatProperties
  <2>2. QED
    BY <1>1, <2>1, SeqEqual
<1>3. <<a, b, c>> \o <<d>> = <<a, b, c, d>>
  <2>1. /\ Len(<<a, b, c>> \o <<d>>) = 4 /\ <<a, b, c>> \o <<d>> \in Seq(S)
        /\ \A i \in 1 .. 4 : (<<a, b, c>> \o <<d>>)[i] = <<a, b, c, d>>[i]
    BY <1>1, ConcatProperties
  <2>2. QED
    BY <1>1, <2>1, SeqEqual
<1>4. <<a, b, c, d>> \o <<e>> = <<a, b, c, d, e>>
  <2>1. /\ Len(<<a, b, c, d>> \o <<e>>) = 5 /\ <<a, b, c, d>> \o <<e>> \in Seq(S)
        /\ \A i \in 1 .. 5 : (<<a, b, c, d>> \o <<e>>)[i] = <<a, b, c, d, e>>[i]
    BY <1>1, ConcatProperties
  <2>2. QED
    BY <1>1, <2>1, SeqEqual
<1>5. <<a, b>> \o <<>> = <<a, b>>
  OBVIOUS
<1>6. <<a, b>> \o <<d>> = <<a, b, d>>
  <2>1. /\ Len(<<a, b>> \o <<d>>) = 3 /\ <<a, b>> \o <<d>> \in Seq(S)
        /\ \A i \in 1 .. 3 : (<<a, b>> \o <<d>>)[i] = <<a, b, d>>[i]
    BY <1>1, ConcatProperties
  <2>2. QED
    BY <1>1, <2>1, SeqEqual
<1>7. <<a, b, d>> \o <<e>> = <<a, b, d, e>>
  <2>1. /\ Len(<<a, b, d>> \o <<e>>) = 4 /\ <<a, b, d>> \o <<e>> \in Seq(S)
        /\ \A i \in 1 .. 4 : (<<a, b, d>> \o <<e>>)[i] = <<a, b, d, e>>[i]
    BY <1>1, ConcatProperties
  <2>2. QED
    BY <1>1, <2>1, SeqEqual
<1>8. QED
  BY <1>2, <1>3, <1>4, <1>5, <1>6, <1>7

LEMMA SelectRegionStep ==
  ASSUME PipelineInv, SelectRegion
  PROVE  PipelineInv'
<1>1. /\ run.stage = "SPATIAL" /\ run.pc = "tiles" /\ UNCHANGED disk
      /\ UNCHANGED <<runs, resetting, resets>>
  BY DEF SelectRegion, At, Continue
<1>2. PICK outcome \in {"SELECTED", "INSUFFICIENT"}, state \in {"FAILED", "COMPLETE"} :
         /\ outcome = "SELECTED" => Selectable(outcome) # {}
         /\ run' = Finally(Artifacts(outcome) \o <<Write("spatial_status", {state})>>)
  BY DEF SelectRegion, Continue
<1> DEFINE plan == Artifacts(outcome) \o <<Write("spatial_status", {state})>>
<1>3. /\ plan \in SpatialPlans(run)
      /\ plan # <<>> /\ \E W : plan \in Seq(W)
  <2> DEFINE a == Write("selection", {outcome})
             b == Write("mapping", {"MAPPED"} \cup run.scene)
             c == Write("selected_npz", run.out)
             d == Write("spatial_summary", {})
             e == Write("spatial_status", {state})
  <2>1. CASE outcome = "SELECTED"
    <3>1. plan = (<<a, b>> \o <<c>> \o <<d>>) \o <<e>>
      BY <1>2, <2>1 DEF Artifacts
    <3> HIDE DEF a, b, c, d, e, plan
    <3>2. (<<a, b>> \o <<c>> \o <<d>>) \o <<e>> = <<a, b, c, d, e>>
      BY InARow
    <3>3. plan = <<a, b, c, d, e>>
      BY <3>1, <3>2
    <3>4. plan \in SpatialPlans(run)
      BY <2>1, <3>3 DEF SpatialPlans, a, b, c, d, e
    <3>5. plan # <<>> /\ plan \in Seq({a, b, c, d, e})
      BY <3>3
    <3>6. QED
      BY <3>4, <3>5
  <2>2. CASE outcome = "INSUFFICIENT"
    <3>1. plan = (<<a, b>> \o <<>> \o <<d>>) \o <<e>>
      BY <2>2 DEF Artifacts, Selectable
    <3> HIDE DEF a, b, c, d, e, plan
    <3>2. (<<a, b>> \o <<>> \o <<d>>) \o <<e>> = <<a, b, d, e>>
      BY InARow
    <3>3. plan = <<a, b, d, e>>
      BY <3>1, <3>2
    <3>4. plan \in SpatialPlans(run)
      BY <2>2, <3>3 DEF SpatialPlans, a, b, c, d, e
    <3>5. plan # <<>> /\ plan \in Seq({a, b, d, e})
      BY <3>3
    <3>6. QED
      BY <3>4, <3>5
  <2>3. QED
    BY <2>1, <2>2
<1>4. run' = [run EXCEPT !.pc = "write", !.todo = plan]
  BY <1>2 DEF Finally
<1> HIDE DEF plan
<1>5. PICK W : plan \in Seq(W)
  BY <1>3
<1>6. /\ GoesOn /\ run'.stage = "SPATIAL" /\ run'.out = run.out /\ run'.scene = run.scene
      /\ run'.todo = plan
  BY <1>1, <1>3, <1>4, <1>5, SpatialRunNow, FinallyGoesOn
<1>7. FollowsPlan'
  <2>1. run'.todo \in Plans(run')
    BY <1>3, <1>6 DEF Plans, SpatialPlans
  <2>2. QED
    BY <1>6, <2>1, Stages, PlanBegins
<1>8. Stepped
  BY <1>1, <1>6, SpatialRunNow, NoWrite DEF Stepped
<1>9. QED
  BY <1>1, <1>7, <1>8, SpatialRunNow, SpatialStep

-------------------------------------------------------------------------------
(***************************************************************************)
(* REGISTRATION and METRICS.                                               *)
(***************************************************************************)
LEMMA RegistrationRunNow ==
  ASSUME PipelineInv, run.stage = "REGISTRATION"
  PROVE  /\ TypeOK /\ run # NoRun /\ run.stage \in Stage
         /\ run.id = LastRun /\ LastRun \in Nat \ {0}
         /\ FittedToOneRun /\ NamesItsSelection /\ OfOneRun
         /\ disk["provenance"].by # run.id
         /\ Holds("registration_status", "COMPLETE") => run.pc = "write"
         /\ Findings("REGISTRATION") = SUBSET (1 .. LastRun)
  BY NoRunFields, Stages, RunInProgress, RunIsLast DEF PipelineInv, RegistrationInv, Findings

\* Before its writes, a REGISTRATION run touches nothing but its status.
LEMMA RegistrationStep ==
  ASSUME PipelineInv, run.stage = "REGISTRATION", Stepped,
         \A f \in File \ {"registration_status"} : disk'[f] = disk[f],
         disk'["registration_status"].val # {"COMPLETE"},
         run' # NoRun => FollowsPlan' /\ OfOneRun'
  PROVE  PipelineInv'
<1>1. /\ TypeOK' /\ MatchInv' /\ TrustInv' /\ SpatialInv' /\ MetricsInv' /\ LastRun' = LastRun
  BY SteppedKeeps DEF OthersKeep
<1>2. FollowsPlan'
  BY NoRunFields DEF FollowsPlan
<1>3. disk'["transform"] = disk["transform"] /\ disk'["provenance"] = disk["provenance"]
  BY StageFiles, Stages
<1>4. FittedToOneRun' /\ NamesItsSelection'
  BY <1>1, <1>3, RegistrationRunNow DEF FittedToOneRun, NamesItsSelection, Exists
<1>5. run' # NoRun => run'.id = run.id
  BY DEF Stepped, GoesOn
<1>6. ~ Holds("registration_status", "COMPLETE")'
  BY DEF Holds
<1>7. disk["provenance"].by # run.id
  BY RegistrationRunNow
<1>8. RegistrationInv'
  BY <1>3, <1>4, <1>5, <1>6, <1>7, NoRunFields, Stages DEF RegistrationInv, RegistrationIsWhole
<1>9. QED
  BY <1>1, <1>2, <1>8 DEF PipelineInv

LEMMA RegistrationBlocked ==
  ASSUME PipelineInv, run.stage = "REGISTRATION", EndWith("BLOCKED")
  PROVE  PipelineInv'
<1>1. /\ disk' = [disk EXCEPT !["registration_status"] = Content({"BLOCKED"})]
      /\ run' = NoRun /\ UNCHANGED <<runs, resetting, resets>>
  BY StatusFiles DEF EndWith, StatusFile, Stop, Continue
<1>2. {"BLOCKED"} \in Values("registration_status") /\ "registration_status" \in FilesOf[run.stage]
  BY StateValues, StatusIsNoResult, StageFiles DEF State
<1>3. /\ OwnFiles /\ disk'["registration_status"] = [by |-> run.id, val |-> {"BLOCKED"}]
  BY <1>1, <1>2, RegistrationRunNow, OneWrite
<1>4. \A f \in File \ {"registration_status"} : disk'[f] = disk[f]
  BY <1>1, <1>2, RegistrationRunNow, OneWrite
<1>5. Stepped
  BY <1>1, <1>3, RegistrationRunNow DEF Stepped
<1>6. disk'["registration_status"].val # {"COMPLETE"}
  BY <1>3
<1>7. QED
  BY <1>1, <1>4, <1>5, <1>6, RegistrationStep

LEMMA RegistrationGoesOn ==
  ASSUME TypeOK, run # NoRun, run.stage = "REGISTRATION", run.pc # "write",
         run' = [run EXCEPT !.pc = run'.pc, !.out = run'.out],
         run'.pc \in {"mapping", "fit"}, run'.out \in SUBSET (1 .. LastRun)
  PROVE  GoesOn /\ FollowsPlan'
<1>1. /\ run'.todo = run.todo /\ run'.k = run.k /\ run'.done = run.done
      /\ run'.late = run.late /\ run'.scene = run.scene
      /\ run' = [stage |-> run.stage, id |-> run.id, pc |-> run'.pc, tiles |-> run.tiles,
                 k |-> run'.k, done |-> run'.done, late |-> run'.late, out |-> run'.out,
                 scene |-> run'.scene, todo |-> run'.todo]
  BY RunInProgress
<1>2. /\ run'.pc \in Places[run.stage] /\ run'.pc # "write"
      /\ run'.out \in Findings(run.stage)
  BY DEF Places, Findings
<1>3. run'.todo = <<>>
  BY <1>1, RunInProgress
<1>4. run'.todo \in Seq({run'.todo[i] : i \in DOMAIN run'.todo})
  BY <1>3
<1>5. /\ run'.k \in Nat \ {0} /\ run'.done \in Nat /\ run'.late \in BOOLEAN
      /\ run'.scene \subseteq Tile
  BY <1>1, RunInProgress
<1>6. GoesOn
  BY <1>1, <1>2, <1>3, <1>4, <1>5 DEF GoesOn
<1>7. QED
  BY <1>2, <1>6 DEF FollowsPlan

LEMMA LoadSelectedStep ==
  ASSUME PipelineInv, LoadSelected
  PROVE  PipelineInv'
<1>1. run.stage = "REGISTRATION" /\ run.pc = "load"
  BY DEF LoadSelected, At
<1>2. CASE /\ Exists("selected_npz") /\ UNCHANGED disk
           /\ Continue([run EXCEPT !.pc = "mapping", !.out = {disk["selected_npz"].by}])
  <2>1. PICK n \in 1 .. LastRun : \A f \in Evidence : Exists(f) => disk[f].by = n
    BY <1>1, RegistrationRunNow DEF OfOneRun
  <2>2. disk["selected_npz"].by = n
    BY <1>2, <2>1 DEF Evidence
  <2>3. run' = [run EXCEPT !.pc = "mapping", !.out = {n}]
        /\ UNCHANGED <<runs, resetting, resets>>
    BY <1>2, <2>2 DEF Continue
  <2>4. /\ run'.pc = "mapping" /\ run'.out = {n}
        /\ run' = [run EXCEPT !.pc = run'.pc, !.out = run'.out]
    BY <1>1, <2>3, RegistrationRunNow, RunInProgress
  <2>5. GoesOn /\ FollowsPlan'
    BY <1>1, <2>1, <2>4, RegistrationRunNow, RegistrationGoesOn
  <2>6. Stepped
    BY <1>1, <1>2, <2>3, <2>5, RegistrationRunNow, NoWrite DEF Stepped
  <2>7. LastRun' = LastRun
    BY <2>6, SteppedKeeps
  <2>8. OfOneRun'
    BY <1>2, <2>1, <2>4, <2>7 DEF OfOneRun, Exists
  <2>9. disk'["registration_status"].val # {"COMPLETE"}
    BY <1>1, <1>2, RegistrationRunNow DEF Holds
  <2>10. QED
    BY <1>1, <1>2, <2>5, <2>6, <2>8, <2>9, RegistrationStep
<1>3. QED
  BY <1>1, <1>2, RegistrationBlocked DEF LoadSelected

LEMMA LoadMappingStep ==
  ASSUME PipelineInv, LoadMapping
  PROVE  PipelineInv'
<1>1. run.stage = "REGISTRATION" /\ run.pc = "mapping"
  BY DEF LoadMapping, At
<1>2. CASE /\ "MAPPED" \in disk["mapping"].val /\ UNCHANGED disk
           /\ Continue([run EXCEPT !.pc = "fit", !.out = @ \cup {disk["mapping"].by}])
  <2>1. PICK n \in 1 .. LastRun : /\ \A f \in Evidence : Exists(f) => disk[f].by = n
                                  /\ run.out = {n}
    BY <1>1, RegistrationRunNow DEF OfOneRun
  <2>2. Exists("mapping")
    <3>1. disk["mapping"] # Absent /\ "mapping" \in File
      BY <1>2, StatusIsNoResult DEF Absent
    <3>2. QED
      BY <1>1, <3>1, RegistrationRunNow DEF TypeOK, DiskOK, Exists
  <2>3. disk["mapping"].by = n
    BY <2>1, <2>2 DEF Evidence
  <2>4. run' = [run EXCEPT !.pc = "fit", !.out = @ \cup {n}]
        /\ UNCHANGED <<runs, resetting, resets>>
    BY <1>2, <2>3 DEF Continue
  <2>5. /\ run'.pc = "fit" /\ run'.out = {n}
        /\ run' = [run EXCEPT !.pc = run'.pc, !.out = run'.out]
    BY <1>1, <2>1, <2>4, RegistrationRunNow, RunInProgress
  <2>6. GoesOn /\ FollowsPlan'
    BY <1>1, <2>1, <2>5, RegistrationRunNow, RegistrationGoesOn
  <2>7. Stepped
    BY <1>1, <1>2, <2>4, <2>6, RegistrationRunNow, NoWrite DEF Stepped
  <2>8. LastRun' = LastRun
    BY <2>7, SteppedKeeps
  <2>9. OfOneRun'
    BY <1>2, <2>1, <2>5, <2>8 DEF OfOneRun, Exists
  <2>10. disk'["registration_status"].val # {"COMPLETE"}
    BY <1>1, <1>2, RegistrationRunNow DEF Holds
  <2>11. QED
    BY <1>1, <1>2, <2>6, <2>7, <2>9, <2>10, RegistrationStep
<1>3. QED
  BY <1>1, <1>2, RegistrationBlocked DEF LoadMapping

\* A fit, good or bad, comes to its writes with the evidence it read.
LEMMA FitStep ==
  ASSUME PipelineInv, At("REGISTRATION", "fit"), UNCHANGED disk,
         NEW W, NEW plan \in Seq(W), plan # <<>>, plan \in RegistrationPlans(run),
         Continue(Finally(plan))
  PROVE  PipelineInv'
<1>1. /\ run.stage = "REGISTRATION" /\ run.pc = "fit" /\ UNCHANGED <<runs, resetting, resets>>
      /\ run' = [run EXCEPT !.pc = "write", !.todo = plan]
  BY DEF At, Continue, Finally
<1>2. /\ GoesOn /\ run'.stage = "REGISTRATION" /\ run'.out = run.out /\ run'.todo = plan
      /\ run'.pc = "write"
  BY <1>1, RegistrationRunNow, FinallyGoesOn
<1>3. FollowsPlan'
  <2>1. run'.todo \in Plans(run')
    BY <1>2 DEF Plans, RegistrationPlans, FailedFits, Fit
  <2>2. QED
    BY <1>2, <2>1, Stages, PlanBegins
<1>4. Stepped
  BY <1>1, <1>2, RegistrationRunNow, NoWrite DEF Stepped
<1>5. LastRun' = LastRun
  BY <1>4, SteppedKeeps
<1>6. OfOneRun'
  <2>1. PICK n \in 1 .. LastRun : /\ \A f \in Evidence : Exists(f) => disk[f].by = n
                                  /\ run.out = {n}
    BY <1>1, RegistrationRunNow DEF OfOneRun
  <2>2. QED
    BY <1>2, <1>5, <2>1 DEF OfOneRun, Exists
<1>7. disk'["registration_status"].val # {"COMPLETE"}
  BY <1>1, RegistrationRunNow DEF Holds
<1>8. QED
  BY <1>1, <1>3, <1>4, <1>6, <1>7, RegistrationStep

LEMMA FitFailsStep ==
  ASSUME PipelineInv, FitFails
  PROVE  PipelineInv'
<1>1. PICK state \in {"INSUFFICIENT", "FAILED"}, fitted \in BOOLEAN :
         Continue(Finally(
              <<Write("registration_status", {state}),
                Write("registration_summary", {})>>
              \o (IF fitted THEN <<Write("transform", run.out)>> ELSE <<>>)))
  BY DEF FitFails
<1> DEFINE a == Write("registration_status", {state})
           b == Write("registration_summary", {})
           c == Write("transform", run.out)
<1>2. At("REGISTRATION", "fit") /\ UNCHANGED disk
  BY DEF FitFails
<1>3. CASE fitted
  <2> DEFINE plan == <<a, b>> \o <<c>>
  <2>1. Continue(Finally(plan))
    BY <1>1, <1>3
  <2> HIDE DEF a, b, c
  <2>2. plan = <<a, b, c>>
    BY InARow
  <2>3. plan # <<>> /\ plan \in Seq({a, b, c})
    BY <2>2
  <2>4. plan \in RegistrationPlans(run)
    BY <2>2 DEF RegistrationPlans, FailedFits, a, b, c
  <2> HIDE DEF plan
  <2>5. QED
    BY <1>2, <2>1, <2>3, <2>4, FitStep
<1>4. CASE ~ fitted
  <2> DEFINE plan == <<a, b>> \o <<>>
  <2>1. Continue(Finally(plan))
    BY <1>1, <1>4
  <2> HIDE DEF a, b, c
  <2>2. plan = <<a, b>>
    OBVIOUS
  <2>3. plan # <<>> /\ plan \in Seq({a, b})
    BY <2>2
  <2>4. plan \in RegistrationPlans(run)
    BY <2>2 DEF RegistrationPlans, FailedFits, a, b, c
  <2> HIDE DEF plan
  <2>5. QED
    BY <1>2, <2>1, <2>3, <2>4, FitStep
<1>5. QED
  BY <1>3, <1>4

LEMMA FitSucceedsStep ==
  ASSUME PipelineInv, FitSucceeds
  PROVE  PipelineInv'
<1>1. At("REGISTRATION", "fit") /\ UNCHANGED disk /\ Continue(Finally(Fit(run)))
  BY DEF FitSucceeds, Fit
<1> DEFINE plan == Fit(run)
<1>2. plan # <<>> /\ plan \in Seq({plan[1], plan[2], plan[3], plan[4]})
  BY DEF Fit
<1>3. plan \in RegistrationPlans(run)
  BY DEF RegistrationPlans
<1> HIDE DEF plan
<1>4. QED
  BY <1>1, <1>2, <1>3, FitStep DEF plan

LEMMA MetricsStep ==
  ASSUME PipelineInv, run.stage = "METRICS", Stepped,
         disk'["metrics_status"].val # {"COMPLETE"}, run' # NoRun => FollowsPlan'
  PROVE  PipelineInv'
<1>1. /\ TypeOK' /\ MatchInv' /\ TrustInv' /\ SpatialInv' /\ RegistrationInv'
  BY SteppedKeeps DEF OthersKeep
<1>2. MetricsInv'
  BY DEF MetricsInv, MetricsIsWhole, Holds
<1>3. FollowsPlan'
  BY NoRunFields DEF FollowsPlan
<1>4. QED
  BY <1>1, <1>2, <1>3 DEF PipelineInv

LEMMA MetricsRunNow ==
  ASSUME PipelineInv, run.stage = "METRICS"
  PROVE  /\ TypeOK /\ run # NoRun /\ run.stage \in Stage
         /\ run.id = LastRun /\ LastRun \in Nat \ {0}
         /\ disk["metrics_status"].val # {"COMPLETE"}
         /\ Findings("METRICS") = SUBSET (1 .. LastRun)
  BY NoRunFields, Stages, RunInProgress, RunIsLast DEF PipelineInv, MetricsInv, Findings, Holds

LEMMA RunsNowType ==
  ASSUME TypeOK, NEW files \in SUBSET File
  PROVE  RunsOf(files) \in SUBSET (1 .. LastRun)
<1> SUFFICES ASSUME NEW f \in files, Exists(f) PROVE disk[f].by \in 1 .. LastRun
  BY DEF RunsOf
<1>1. disk[f].by \in 0 .. LastRun /\ LastRun \in Nat /\ disk[f].by # 0
  BY RunIsLast DEF Exists
<1>2. QED
  BY <1>1

LEMMA CollectStep ==
  ASSUME PipelineInv, Collect
  PROVE  PipelineInv'
<1>1. run.stage = "METRICS" /\ run.pc = "collect"
  BY DEF Collect, At
<1>2. CASE Continue([run EXCEPT !.pc = "identify", !.out = RunsNow]) /\ UNCHANGED disk
  <2> DEFINE now == RunsNow
  <2>1. run' = [run EXCEPT !.pc = "identify", !.out = now] /\ UNCHANGED <<runs, resetting, resets>>
    BY <1>2 DEF Continue
  <2>2. now \in SUBSET (1 .. LastRun)
    BY <1>1, MetricsRunNow, RunsNowType, StatusIsNoResult DEF RunsNow, Measured, FileOfRuns
  <2> HIDE DEF now
  <2>3. /\ run'.pc = "identify" /\ run'.out = now /\ run'.todo = <<>> /\ run'.k = run.k
        /\ run'.done = run.done /\ run'.late = run.late /\ run'.scene = run.scene
        /\ run' = [stage |-> run.stage, id |-> run.id, pc |-> run'.pc, tiles |-> run.tiles,
                   k |-> run'.k, done |-> run'.done, late |-> run'.late, out |-> run'.out,
                   scene |-> run'.scene, todo |-> run'.todo]
    BY <1>1, <2>1, MetricsRunNow, RunInProgress
  <2>4. /\ run'.todo \in Seq({run'.todo[i] : i \in DOMAIN run'.todo})
        /\ run'.pc \in Places[run.stage] /\ run'.out \in Findings(run.stage)
    BY <1>1, <2>2, <2>3 DEF Places, Findings
  <2>5. GoesOn
    BY <1>1, <2>3, <2>4, MetricsRunNow, RunInProgress DEF GoesOn
  <2>6. Stepped /\ FollowsPlan'
    BY <1>1, <1>2, <2>1, <2>3, <2>5, MetricsRunNow, NoWrite DEF Stepped, FollowsPlan
  <2>7. QED
    BY <1>1, <1>2, <2>6, MetricsRunNow, MetricsStep
<1>3. CASE EndWith("FAILED")
  <2>1. /\ disk' = [disk EXCEPT !["metrics_status"] = Content({"FAILED"})]
        /\ run' = NoRun /\ UNCHANGED <<runs, resetting, resets>>
    BY <1>1, <1>3, StatusFiles DEF EndWith, StatusFile, Stop, Continue
  <2>2. {"FAILED"} \in Values("metrics_status") /\ "metrics_status" \in FilesOf[run.stage]
    BY <1>1, StateValues, StatusIsNoResult, StageFiles DEF State
  <2>3. OwnFiles /\ disk'["metrics_status"] = [by |-> run.id, val |-> {"FAILED"}]
    BY <1>1, <2>1, <2>2, MetricsRunNow, OneWrite
  <2>4. Stepped
    BY <1>1, <2>1, <2>3, MetricsRunNow DEF Stepped
  <2>5. disk'["metrics_status"].val # {"COMPLETE"}
    BY <2>3
  <2>6. QED
    BY <1>1, <2>1, <2>4, <2>5, MetricsStep
<1>4. QED
  BY <1>2, <1>3 DEF Collect

LEMMA IdentifyStep ==
  ASSUME PipelineInv, Identify
  PROVE  PipelineInv'
<1> DEFINE plan == Report
<1>1. /\ run.stage = "METRICS" /\ run.pc = "identify" /\ UNCHANGED disk
      /\ UNCHANGED <<runs, resetting, resets>>
      /\ run' = [run EXCEPT !.pc = "write", !.todo = plan]
  BY DEF Identify, At, Continue, Finally
<1>2. plan # <<>> /\ plan \in Seq({plan[1], plan[2], plan[3]})
  BY DEF Report
<1>3. plan \in MetricsPlans(run)
  <2>1. RunsNow \in SUBSET (1 .. run.id)
    BY <1>1, MetricsRunNow, RunsNowType, StatusIsNoResult DEF RunsNow, Measured, FileOfRuns
  <2>2. QED
    BY <2>1 DEF MetricsPlans, Report
<1> HIDE DEF plan
<1>4. /\ GoesOn /\ run'.stage = "METRICS" /\ run'.out = run.out /\ run'.todo = plan
      /\ run'.pc = "write" /\ run'.id = run.id
  BY <1>1, <1>2, MetricsRunNow, FinallyGoesOn
<1>5. FollowsPlan'
  <2>1. run'.todo \in Plans(run')
    BY <1>3, <1>4 DEF Plans, MetricsPlans
  <2>2. QED
    BY <1>4, <2>1, Stages, PlanBegins
<1>6. Stepped
  BY <1>1, <1>4, MetricsRunNow, NoWrite DEF Stepped
<1>7. QED
  BY <1>1, <1>5, <1>6, MetricsRunNow, MetricsStep

-------------------------------------------------------------------------------
(***************************************************************************)
(* The last writes.                                                        *)
(***************************************************************************)
LEMMA PlanValues ==
  ASSUME TypeOK, run # NoRun, NEW plan \in Plans(run), NEW i \in 1 .. Len(plan)
  PROVE  plan[i].val \in Values(plan[i].file)
<1>1. run.stage \in Stage /\ run.out \in Findings(run.stage) /\ run.scene \subseteq Tile
      /\ run.id = LastRun
  BY RunInProgress
<1>2. \A f \in {"match_status", "decisions", "m8", "trust_status", "spatial_status",
               "selection", "mapping", "spatial_summary", "selected_npz",
               "registration_status", "registration_summary", "metrics_status"} :
        \A v \in SUBSET (Tile \cup State) : v \in Values(f)
  BY StatusIsNoResult, StateValues
<1>3. /\ \A v \in SUBSET (Tile \X Verdict) : v \in Values("tile_trust")
      /\ \A v \in SUBSET Tile : v \in Values("match_summary")
      /\ \A f \in FileOfRuns : \A v \in SUBSET (1 .. LastRun) : v \in Values(f)
  BY FileValues
<1>4. CASE run.stage = "MATCH"
  <2>1. plan = <<Write("match_summary", run.out),
                 WriteAfterHashing("match_status", {"COMPLETE"}, {"match_summary"})>>
    BY <1>4 DEF Plans, MatchPlans
  <2>2. /\ Len(plan) = 2
        /\ plan[1].file = "match_summary" /\ plan[2].file = "match_status"
        /\ plan[1].val = run.out /\ plan[2].val = {"COMPLETE"}
    BY <2>1 DEF Write, WriteAfterHashing
  <2>3. run.out \in SUBSET Tile /\ {"COMPLETE"} \in SUBSET (Tile \cup State) /\ i \in {1, 2}
    BY <1>1, <1>4, <2>2 DEF Findings, State
  <2>4. QED
    BY <1>2, <1>3, <2>2, <2>3
<1>5. CASE run.stage = "M8"
  <2>1. plan = <<Write("m8", {"COMPLETE"})>>
    BY <1>5 DEF Plans, M8Plans
  <2>2. Len(plan) = 1 /\ plan[1].file = "m8" /\ plan[1].val = {"COMPLETE"}
    BY <2>1 DEF Write
  <2>3. {"COMPLETE"} \in SUBSET (Tile \cup State) /\ i = 1
    BY <2>2 DEF State
  <2>4. QED
    BY <1>2, <2>2, <2>3
<1>6. CASE run.stage = "TRUST"
  <2>1. PICK state \in {"COMPLETE", "FAILED"} :
           plan = <<Write("trust_status", {state}), Write("tile_trust", run.out)>>
    BY <1>6 DEF Plans, TrustPlans, Outcomes
  <2>2. /\ Len(plan) = 2
        /\ plan[1].file = "trust_status" /\ plan[2].file = "tile_trust"
        /\ plan[1].val = {state} /\ plan[2].val = run.out
    BY <2>1 DEF Write
  <2>3. /\ run.out \in SUBSET (Tile \X Verdict) /\ {state} \in SUBSET (Tile \cup State)
        /\ i \in {1, 2}
    BY <1>1, <1>6, <2>2 DEF Findings, State
  <2>4. QED
    BY <1>2, <1>3, <2>2, <2>3
<1>7. CASE run.stage = "SPATIAL"
  <2>1. plan \in SpatialPlans(run)
    BY <1>7 DEF Plans
  <2>2. /\ run.out \in SUBSET (Tile \cup State) /\ {"MAPPED"} \cup run.scene \in SUBSET (Tile \cup State)
        /\ {} \in SUBSET (Tile \cup State)
        /\ \A state \in {"FAILED", "COMPLETE", "SELECTED", "INSUFFICIENT", "NOT_MAPPABLE"} :
              {state} \in SUBSET (Tile \cup State)
    BY <1>1, <1>7 DEF Findings, State
  <2>3. CASE plan = <<Write("mapping", {"NOT_MAPPABLE"})>>
    <3>1. Len(plan) = 1 /\ plan[1].file = "mapping" /\ plan[1].val = {"NOT_MAPPABLE"} /\ i = 1
      BY <2>3 DEF Write
    <3>2. QED
      BY <1>2, <2>2, <3>1
  <2>4. CASE plan = <<Write("spatial_summary", {})>>
    <3>1. Len(plan) = 1 /\ plan[1].file = "spatial_summary" /\ plan[1].val = {} /\ i = 1
      BY <2>4 DEF Write
    <3>2. QED
      BY <1>2, <2>2, <3>1
  <2>5. ASSUME NEW state \in {"FAILED", "COMPLETE"},
               plan = <<Write("selection", {"SELECTED"}),
                        Write("mapping", {"MAPPED"} \cup run.scene),
                        Write("selected_npz", run.out), Write("spatial_summary", {}),
                        Write("spatial_status", {state})>>
        PROVE  plan[i].val \in Values(plan[i].file)
    <3>1. /\ Len(plan) = 5
          /\ plan[1].file = "selection" /\ plan[2].file = "mapping"
          /\ plan[3].file = "selected_npz" /\ plan[4].file = "spatial_summary"
          /\ plan[5].file = "spatial_status"
          /\ plan[1].val = {"SELECTED"} /\ plan[2].val = {"MAPPED"} \cup run.scene
          /\ plan[3].val = run.out /\ plan[4].val = {} /\ plan[5].val = {state}
      BY <2>5 DEF Write
    <3>2. i \in {1, 2, 3, 4, 5}
      BY <3>1
    <3>3. QED
      BY <1>2, <2>2, <3>1, <3>2
  <2>6. ASSUME NEW state \in {"FAILED", "COMPLETE"},
               plan = <<Write("selection", {"INSUFFICIENT"}),
                        Write("mapping", {"MAPPED"} \cup run.scene),
                        Write("spatial_summary", {}), Write("spatial_status", {state})>>
        PROVE  plan[i].val \in Values(plan[i].file)
    <3>1. /\ Len(plan) = 4
          /\ plan[1].file = "selection" /\ plan[2].file = "mapping"
          /\ plan[3].file = "spatial_summary" /\ plan[4].file = "spatial_status"
          /\ plan[1].val = {"INSUFFICIENT"} /\ plan[2].val = {"MAPPED"} \cup run.scene
          /\ plan[3].val = {} /\ plan[4].val = {state}
      BY <2>6 DEF Write
    <3>2. i \in {1, 2, 3, 4}
      BY <3>1
    <3>3. QED
      BY <1>2, <2>2, <3>1, <3>2
  <2>7. QED
    BY <2>1, <2>3, <2>4, <2>5, <2>6 DEF SpatialPlans
<1>8. CASE run.stage = "REGISTRATION"
  <2>1. /\ run.out \in SUBSET (1 .. LastRun) /\ {} \in SUBSET (Tile \cup State)
        /\ {} \in SUBSET (1 .. LastRun)
        /\ \A state \in {"INSUFFICIENT", "FAILED", "COMPLETE"} :
              {state} \in SUBSET (Tile \cup State)
        /\ "transform" \in FileOfRuns /\ "provenance" \in FileOfRuns
    BY <1>1, <1>8 DEF Findings, State, FileOfRuns
  <2>2. CASE plan = Fit(run)
    <3>1. /\ Len(plan) = 4
          /\ plan[1].file = "transform" /\ plan[2].file = "registration_summary"
          /\ plan[3].file = "registration_status" /\ plan[4].file = "provenance"
          /\ plan[1].val = run.out /\ plan[2].val = {} /\ plan[3].val = {"COMPLETE"}
          /\ plan[4].val = {}
      BY <2>2 DEF Fit, Write, WriteNaming
    <3>2. i \in {1, 2, 3, 4}
      BY <3>1
    <3>3. QED
      BY <1>2, <1>3, <2>1, <3>1, <3>2
  <2>3. ASSUME NEW state \in {"INSUFFICIENT", "FAILED"},
               plan = <<Write("registration_status", {state}),
                        Write("registration_summary", {})>>
        PROVE  plan[i].val \in Values(plan[i].file)
    <3>1. /\ Len(plan) = 2
          /\ plan[1].file = "registration_status" /\ plan[2].file = "registration_summary"
          /\ plan[1].val = {state} /\ plan[2].val = {}
      BY <2>3 DEF Write
    <3>2. i \in {1, 2}
      BY <3>1
    <3>3. QED
      BY <1>2, <2>1, <3>1, <3>2
  <2>4. ASSUME NEW state \in {"INSUFFICIENT", "FAILED"},
               plan = <<Write("registration_status", {state}),
                        Write("registration_summary", {}), Write("transform", run.out)>>
        PROVE  plan[i].val \in Values(plan[i].file)
    <3>1. /\ Len(plan) = 3
          /\ plan[1].file = "registration_status" /\ plan[2].file = "registration_summary"
          /\ plan[3].file = "transform"
          /\ plan[1].val = {state} /\ plan[2].val = {} /\ plan[3].val = run.out
      BY <2>4 DEF Write
    <3>2. i \in {1, 2, 3}
      BY <3>1
    <3>3. QED
      BY <1>2, <1>3, <2>1, <3>1, <3>2
  <2>5. QED
    BY <1>8, <2>2, <2>3, <2>4 DEF Plans, RegistrationPlans, FailedFits
<1>9. CASE run.stage = "METRICS"
  <2>1. PICK sources \in SUBSET (1 .. LastRun) :
           plan = <<Write("experiment", sources), Write("report", run.out),
                    Write("metrics_status", {"COMPLETE"})>>
    BY <1>1, <1>9 DEF Plans, MetricsPlans
  <2>2. /\ Len(plan) = 3
        /\ plan[1].file = "experiment" /\ plan[2].file = "report"
        /\ plan[3].file = "metrics_status"
        /\ plan[1].val = sources /\ plan[2].val = run.out /\ plan[3].val = {"COMPLETE"}
    BY <2>1 DEF Write
  <2>3. /\ run.out \in SUBSET (1 .. LastRun) /\ {"COMPLETE"} \in SUBSET (Tile \cup State)
        /\ "experiment" \in FileOfRuns /\ "report" \in FileOfRuns /\ i \in {1, 2, 3}
    BY <1>1, <1>9, <2>2 DEF Findings, State, FileOfRuns
  <2>4. QED
    BY <1>2, <1>3, <2>1, <2>2, <2>3
<1>10. QED
  BY <1>1, <1>4, <1>5, <1>6, <1>7, <1>8, <1>9, Stages

\* The n-th write of a plan.
Writing(plan, n) ==
    /\ TypeOK' /\ FollowsPlan' /\ OthersKeep /\ LastRun' = LastRun
    /\ run.stage \in Stage /\ run # NoRun /\ run.id = LastRun /\ run.pc = "write"
    /\ LastRun \in Nat \ {0} /\ resets' = resets
    /\ plan \in Plans(run) /\ n \in 1 .. Len(plan) /\ Len(plan) \in Nat
    /\ Len(run.todo) = Len(plan) - n + 1 /\ run.todo[1] = plan[n]
    /\ \A i \in 1 .. n - 1 : Kept(plan[i])
    /\ plan[n].file \in FilesOf[run.stage]
    /\ disk'[plan[n].file] = [by |-> run.id, val |-> plan[n].val \cup RunsOf(plan[n].names)]
    /\ \A f \in File \ {plan[n].file} : disk'[f] = disk[f]
    /\ n = Len(plan) => run' = NoRun
    /\ n < Len(plan) =>
         /\ run'.stage = run.stage /\ run'.id = run.id /\ run'.pc = "write"
         /\ run'.tiles = run.tiles /\ run'.k = run.k /\ run'.done = run.done
         /\ run'.late = run.late /\ run'.out = run.out /\ run'.scene = run.scene
         /\ Len(run'.todo) = Len(plan) - n
         /\ \A i \in 1 .. Len(plan) - n : run'.todo[i] = plan[n + i]

\* A file to be hashed is gone: the run ends there.
Aborted == run' = NoRun /\ UNCHANGED <<disk, runs, resetting, resets>>

LEMMA WriteNextWrites ==
  ASSUME PipelineInv, WriteNext, ~ Aborted
  PROVE  \E plan, n : Writing(plan, n)
<1>1. run # NoRun /\ run.pc = "write" /\ run.stage \in Stage /\ TypeOK /\ run.todo # <<>>
      /\ run.id = LastRun
  BY NoRunFields, RunInProgress DEF PipelineInv, WriteNext
<1>2. PICK plan \in Plans(run) : Follows(plan)
  BY <1>1 DEF PipelineInv, FollowsPlan
<1> DEFINE W == {run.todo[i] : i \in DOMAIN run.todo}
           m == Len(run.todo)
           rest == Tail(run.todo)
<1>3. PICK n : n = Len(plan) - m + 1
  OBVIOUS
<1> DEFINE v == plan[n].val \cup RunsOf(plan[n].names)
<1>4. /\ run.todo \in Seq(W) /\ m \in Nat /\ m # 0 /\ Head(run.todo) = run.todo[1]
      /\ rest \in Seq(W) /\ Len(rest) = m - 1 /\ (rest = <<>> <=> m = 1)
      /\ \A i \in 1 .. m - 1 : rest[i] = run.todo[i + 1]
  <2>1. run.todo \in Seq(W)
    BY <1>1, RunInProgress
  <2> HIDE DEF W
  <2>2. m \in Nat /\ m # 0
    BY <1>1, <2>1, EmptySeq, LenProperties
  <2>3. Head(run.todo) = run.todo[1] /\ rest \in Seq(W) /\ Len(rest) = m - 1
        /\ \A i \in 1 .. Len(rest) : rest[i] = run.todo[i + 1]
    BY <1>1, <2>1, HeadTailProperties
  <2>4. rest = <<>> <=> Len(rest) = 0
    <3> HIDE DEF rest, m
    <3>1. QED
      BY <2>3, EmptySeq
  <2>5. QED
    BY <2>1, <2>2, <2>3, <2>4
<1>5. OfStage(plan, run.stage)
  BY <1>1, <1>2, PlansAreOfStage
<1>6. /\ Len(plan) \in Nat /\ n \in 1 .. Len(plan) /\ run.todo[1] = plan[n]
      /\ \A i \in 1 .. n - 1 : Kept(plan[i])
      /\ \A i \in 1 .. m : run.todo[i] = plan[n - 1 + i]
  <2>1. /\ Len(plan) - m >= 0 /\ Len(plan) \in Nat
        /\ \A i \in 1 .. m : run.todo[i] = plan[(Len(plan) - m) + i]
        /\ \A i \in 1 .. Len(plan) - m : Kept(plan[i])
    BY <1>2, <1>5 DEF Follows, OfStage
  <2>2. n - 1 = Len(plan) - m /\ n \in 1 .. Len(plan)
    BY <1>3, <1>4, <2>1
  <2>3. run.todo[1] = plan[n]
    <3>1. 1 \in 1 .. m /\ (Len(plan) - m) + 1 = n
      BY <1>3, <1>4, <2>1
    <3>2. run.todo[1] = plan[(Len(plan) - m) + 1]
      BY <2>1, <3>1
    <3>3. QED
      BY <3>1, <3>2
  <2>4. QED
    BY <2>1, <2>2, <2>3
<1> HIDE DEF W, m
<1>7. /\ plan[n].file \in FilesOf[run.stage] /\ plan[n].file \in File
      /\ plan[n].names # {} => /\ plan[n].file = "provenance" /\ n = Len(plan)
                              /\ plan[n].names = {"selected_npz"}
      /\ \A i \in 1 .. n - 1 : plan[i].file # plan[n].file /\ plan[i].file \in File
  <2>1. \A i \in 1 .. n - 1 : i \in 1 .. Len(plan) /\ i # n
    BY <1>6
  <2>2. QED
    BY <1>1, <1>5, <1>6, <2>1, StageFiles DEF OfStage
<1>8. v \in Values(plan[n].file)
  <2>1. plan[n].val \in Values(plan[n].file)
    BY <1>1, <1>2, <1>6, PlanValues
  <2>2. CASE plan[n].names = {}
    <3>1. RunsOf({}) = {}
      BY DEF RunsOf
    <3>2. QED
      BY <2>1, <2>2, <3>1
  <2>3. CASE plan[n].names # {}
    <3>1. plan[n].file = "provenance" /\ "provenance" \in FileOfRuns
      BY <1>7, <2>3 DEF FileOfRuns
    <3>2. plan[n].val \in SUBSET (1 .. LastRun)
      BY <2>1, <3>1, FileValues
    <3>3. RunsOf(plan[n].names) \in SUBSET (1 .. LastRun)
      BY <1>1, <1>7, <2>3, RunsNowType, StatusIsNoResult
    <3>4. QED
      BY <3>1, <3>2, <3>3, FileValues
  <2>4. QED
    BY <2>2, <2>3
<1> HIDE DEF v
<1>9. /\ disk' = [disk EXCEPT ![plan[n].file] = Content(v)]
      /\ run' = IF rest = <<>> THEN NoRun ELSE [run EXCEPT !.todo = rest]
      /\ UNCHANGED <<runs, resetting, resets>>
  BY <1>4, <1>6 DEF WriteNext, Continue, Stop, v, Aborted
<1>10. /\ OwnFiles /\ disk'[plan[n].file] = [by |-> run.id, val |-> v]
      /\ \A f \in File \ {plan[n].file} : disk'[f] = disk[f]
  BY <1>1, <1>7, <1>8, <1>9, OneWrite
<1>11. /\ n = Len(plan) <=> rest = <<>>
       /\ n < Len(plan) <=> rest # <<>>
       /\ m = Len(plan) - n + 1
  BY <1>3, <1>4, <1>6
<1>12. ASSUME rest # <<>>
       PROVE  /\ GoesOn
              /\ run'.stage = run.stage /\ run'.id = run.id /\ run'.pc = "write"
              /\ run'.tiles = run.tiles /\ run'.k = run.k /\ run'.done = run.done
              /\ run'.late = run.late /\ run'.out = run.out /\ run'.scene = run.scene
              /\ run'.todo = rest
  <2>1. run' = [run EXCEPT !.pc = "write", !.todo = rest]
    BY <1>1, <1>9, <1>12, RunInProgress
  <2>2. QED
    BY <1>1, <1>4, <1>12, <2>1, FinallyGoesOn
<1>13. Stepped
  BY <1>1, <1>9, <1>10, <1>12 DEF Stepped
<1>14. TypeOK' /\ OthersKeep /\ LastRun' = LastRun /\ LastRun \in Nat \ {0} /\ resets' = resets
  BY <1>13, SteppedKeeps
<1>15. ASSUME rest # <<>>
       PROVE  /\ Len(run'.todo) = Len(plan) - n
              /\ \A i \in 1 .. Len(plan) - n : run'.todo[i] = plan[n + i]
  <2>1. run'.todo = rest /\ Len(rest) = Len(plan) - n
    BY <1>4, <1>6, <1>11, <1>12, <1>15
  <2>2. \A i \in 1 .. Len(plan) - n : rest[i] = plan[n + i]
    <3> SUFFICES ASSUME NEW i \in 1 .. Len(plan) - n PROVE rest[i] = plan[n + i]
      OBVIOUS
    <3>1. i \in 1 .. m - 1 /\ i + 1 \in 1 .. m /\ n - 1 + (i + 1) = n + i
      BY <1>4, <1>6, <1>11
    <3>2. QED
      BY <1>4, <1>6, <3>1
  <2>3. QED
    BY <2>1, <2>2
<1>16. FollowsPlan'
  <2>1. CASE rest = <<>>
    BY <1>9, <2>1, NoRunFields DEF FollowsPlan
  <2>2. CASE rest # <<>>
    <3>1. Plans(run') = Plans(run)
      BY <1>12, <2>2 DEF Plans, MatchPlans, TrustPlans, SpatialPlans, RegistrationPlans,
                         FailedFits, Fit, MetricsPlans
    <3>2. Len(plan) - Len(run'.todo) = n
      BY <1>6, <1>15, <2>2
    <3>3. \A i \in 1 .. n - 1 : Kept(plan[i])'
      <4> SUFFICES ASSUME NEW i \in 1 .. n - 1 PROVE Kept(plan[i])'
        OBVIOUS
      <4>1. disk'[plan[i].file] = disk[plan[i].file]
        BY <1>7, <1>10
      <4>2. QED
        BY <1>6, <1>12, <1>14, <2>2, <4>1 DEF Kept, By, Exists
    <3>4. Kept(plan[n])'
      <4>1. plan[n].names = {}
        BY <1>6, <1>7, <1>11, <2>2
      <4>2. v = plan[n].val
        BY <4>1 DEF v, RunsOf
      <4>3. disk'[plan[n].file].by = run.id /\ disk'[plan[n].file].val = plan[n].val
        BY <1>10, <4>2
      <4>4. QED
        BY <1>12, <2>2, <4>3 DEF Kept, By
    <3>5. \A i \in 1 .. n : Kept(plan[i])'
      <4> SUFFICES ASSUME NEW i \in 1 .. n PROVE Kept(plan[i])'
        OBVIOUS
      <4>1. CASE i = n
        BY <3>4, <4>1
      <4>2. CASE i # n
        <5>1. i \in 1 .. n - 1
          BY <1>6, <4>2
        <5>2. QED
          BY <3>3, <5>1
      <4>3. QED
        BY <4>1, <4>2
    <3>6. Follows(plan)'
      <4>1. /\ Len(plan) - Len(run'.todo) >= 0
            /\ \A i \in 1 .. Len(run'.todo) :
                  run'.todo[i] = plan[(Len(plan) - Len(run'.todo)) + i]
        <5>1. Len(run'.todo) = Len(plan) - n
          BY <1>15, <2>2
        <5>2. \A i \in 1 .. Len(run'.todo) : run'.todo[i] = plan[n + i]
          BY <1>15, <2>2, <5>1
        <5>3. n >= 0
          BY <1>6
        <5>4. Len(plan) - Len(run'.todo) >= 0
          BY <3>2, <5>3, Zenon
        <5>5. \A i \in 1 .. Len(run'.todo) :
                 run'.todo[i] = plan[(Len(plan) - Len(run'.todo)) + i]
          BY <3>2, <5>2, Zenon
        <5>6. QED
          BY <5>4, <5>5
      <4>2. \A i \in 1 .. Len(plan) - Len(run'.todo) : Kept(plan[i])'
        BY <3>2, <3>5
      <4>3. QED
        BY <4>1, <4>2 DEF Follows
    <3>7. QED
      BY <1>2, <3>1, <3>6 DEF FollowsPlan
  <2>3. QED
    BY <2>1, <2>2
<1>17. Writing(plan, n)
  BY <1>1, <1>2, <1>4, <1>6, <1>7, <1>9, <1>10, <1>11, <1>12, <1>14, <1>15, <1>16
     DEF Writing, v, m
<1>18. QED
  BY <1>17

LEMMA AbortedStep ==
  ASSUME PipelineInv, run # NoRun, Aborted
  PROVE  PipelineInv'
<1>1. TypeOK /\ run.stage \in Stage
  BY RunInProgress DEF PipelineInv
<1>2. Stepped
  BY <1>1, NoWrite DEF Stepped, Aborted
<1>3. ElsewhereKeeps
  BY <1>2, SteppedKeeps DEF ElsewhereKeeps, OnlyDeleted, Aborted
<1>4. QED
  BY <1>3, DeletionsKeepInv

\* What remains to be shown of the stage that writes.
LEMMA WritingKeeps ==
  ASSUME PipelineInv, NEW plan, NEW n, Writing(plan, n),
         run.stage = "MATCH" => MatchInv',
         run.stage = "TRUST" => TrustInv',
         run.stage = "SPATIAL" => SpatialInv',
         run.stage = "REGISTRATION" => RegistrationInv',
         run.stage = "METRICS" => MetricsInv'
  PROVE  PipelineInv'
  BY DEF Writing, OthersKeep, PipelineInv

LEMMA MatchWrites ==
  ASSUME PipelineInv, run.stage = "MATCH", NEW plan, NEW n, Writing(plan, n)
  PROVE  MatchInv'
<1>1. plan = <<Write("match_summary", run.out),
               WriteAfterHashing("match_status", {"COMPLETE"}, {"match_summary"})>>
  BY DEF Writing, Plans, MatchPlans
<1>2. /\ Len(plan) = 2 /\ plan[1].file = "match_summary" /\ plan[2].file = "match_status"
      /\ plan[1].val = run.out /\ plan[1].names = {}
  BY <1>1 DEF Write, WriteAfterHashing
<1>3. PICK id : id = run.id
  OBVIOUS
<1>4. /\ By("decisions", run.id) /\ \A t \in run.out : By(t, run.id)
      /\ ~ Holds("match_status", "COMPLETE") /\ run.out \subseteq Tile
  BY RunInProgress DEF Writing, PipelineInv, MatchInv, Findings
<1>5. /\ "match_summary" \in File /\ "match_status" \in File /\ "decisions" \in File
      /\ Tile \subseteq File
      /\ "match_summary" \notin Tile /\ "match_status" \notin Tile
  BY StageFiles, Stages, TilesAreOfMatch
<1>6. /\ disk'["decisions"] = disk["decisions"]
      /\ \A t \in Tile : disk'[t] = disk[t]
      /\ resets' = resets
  BY <1>2, <1>5 DEF Writing
<1>7. /\ By("decisions", id)'
      /\ \A t \in run.out : By(t, id)'
  BY <1>3, <1>4, <1>6 DEF By, Exists
<1>8. CASE n = 1
  <2>1. disk'["match_status"] = disk["match_status"] /\ run'.id = run.id /\ run'.out = run.out
    BY <1>2, <1>5, <1>8 DEF Writing
  <2>2. ~ Holds("match_status", "COMPLETE")'
    BY <1>4, <2>1 DEF Holds
  <2>3. run'.pc \in {"hash", "tiles", "write"} => By("decisions", run.id)'
    BY <1>3, <1>7, <2>1
  <2>4. \A t \in run'.out : By(t, run.id)'
    BY <1>3, <1>7, <2>1
  <2>5. QED
    BY <2>2, <2>3, <2>4 DEF MatchInv, MatchIsWhole
<1>9. CASE n = 2
  <2>1. /\ run' = NoRun /\ Kept(plan[1]) /\ disk'["match_status"].by = run.id
        /\ disk'["match_summary"] = disk["match_summary"]
    BY <1>2, <1>5, <1>9 DEF Writing
  <2>2. By("match_summary", id)'
    BY <1>3, <1>2, <1>6, <2>1 DEF Kept, By, Exists
  <2>3. disk["match_summary"].val \subseteq run.out
    <3>1. CASE Exists("match_summary")
      BY <1>2, <2>1, <3>1 DEF Kept
    <3>2. CASE ~ Exists("match_summary")
      BY <1>5, <3>2 DEF Exists, PipelineInv, TypeOK, DiskOK, Absent
    <3>3. QED
      BY <3>1, <3>2
  <2>4. \A f \in {"decisions", "match_summary"} \cup disk'["match_summary"].val : By(f, id)'
    BY <1>7, <2>1, <2>2, <2>3
  <2>5. QED
    BY <1>3, <2>1, <2>4, NoRunFields, Stages DEF MatchInv, MatchIsWhole
<1>10. QED
  BY <1>2, <1>8, <1>9 DEF Writing

LEMMA MetricsWrites ==
  ASSUME PipelineInv, run.stage = "METRICS", NEW plan, NEW n, Writing(plan, n)
  PROVE  MetricsInv'
<1>1. PICK sources : plan = <<Write("experiment", sources), Write("report", run.out),
                              Write("metrics_status", {"COMPLETE"})>>
  BY DEF Writing, Plans, MetricsPlans
<1>2. /\ Len(plan) = 3 /\ plan[1].file = "experiment" /\ plan[2].file = "report"
      /\ plan[3].file = "metrics_status"
  BY <1>1 DEF Write
<1>3. PICK id : id = run.id
  OBVIOUS
<1>4. /\ "experiment" \in File /\ "report" \in File /\ "metrics_status" \in File
  BY StageFiles, Stages
<1>5. ~ Holds("metrics_status", "COMPLETE")
  BY DEF PipelineInv, MetricsInv
<1>6. CASE n \in {1, 2}
  <2>1. disk'["metrics_status"] = disk["metrics_status"]
    BY <1>2, <1>4, <1>6 DEF Writing
  <2>2. QED
    BY <1>5, <2>1 DEF MetricsInv, MetricsIsWhole, Holds
<1>7. CASE n = 3
  <2>1. /\ run' = NoRun /\ Kept(plan[1]) /\ Kept(plan[2])
        /\ disk'["metrics_status"].by = run.id
        /\ disk'["experiment"] = disk["experiment"] /\ disk'["report"] = disk["report"]
        /\ resets' = resets
    BY <1>2, <1>4, <1>7 DEF Writing
  <2>2. \A f \in {"experiment", "report"} : By(f, id)'
    BY <1>3, <1>2, <2>1 DEF Kept, By, Exists
  <2>3. QED
    BY <1>3, <2>1, <2>2, NoRunFields, Stages DEF MetricsInv, MetricsIsWhole
<1>8. QED
  BY <1>2, <1>6, <1>7 DEF Writing

LEMMA TrustWrites ==
  ASSUME PipelineInv, run.stage = "TRUST", NEW plan, NEW n, Writing(plan, n)
  PROVE  TrustInv'
<1>1. PICK state \in Outcomes(run.out) :
         plan = <<Write("trust_status", {state}), Write("tile_trust", run.out)>>
  BY DEF Writing, Plans, TrustPlans
<1>2. /\ Len(plan) = 2 /\ plan[1].file = "trust_status" /\ plan[2].file = "tile_trust"
      /\ plan[1].val = {state} /\ plan[2].val = run.out
      /\ plan[1].names = {} /\ plan[2].names = {}
  BY <1>1 DEF Write
<1>3. /\ disk["tile_trust"].by # run.id /\ TrustProgress(run) /\ VerdictsOfRunStand
      /\ VerdictsStand /\ run.id # 0
  BY RunInProgress DEF Writing, PipelineInv, TrustInv
<1>4. /\ "trust_status" \in File /\ "tile_trust" \in File
      /\ \A t \in Tile : t \in File /\ t # "trust_status" /\ t # "tile_trust"
  BY StageFiles, Stages, TilesAreOfMatch
<1>5. \A t \in Tile : disk'[t] = disk[t]
  BY <1>2, <1>4 DEF Writing
<1>6. CASE n = 1
  <2>1. /\ disk'["trust_status"].by = run.id /\ disk'["tile_trust"] = disk["tile_trust"]
        /\ run'.id = run.id /\ run'.out = run.out
    BY <1>2, <1>4, <1>6 DEF Writing
  <2>2. VerdictsStand'
    BY <1>3, <1>5, <2>1 DEF VerdictsStand, TrustedTiles, Trusted, Exists, Holds
  <2>3. CompleteGate'
    BY <1>3, <2>1 DEF CompleteGate
  <2>4. TrustProgress(run)'
    <3>1. /\ run'.tiles = run.tiles /\ run'.k = run.k /\ run'.done = run.done
          /\ run'.late = run.late /\ run'.out = run.out /\ run'.pc = run.pc
      BY <1>2, <1>6 DEF Writing
    <3>2. Judged(run)' = Judged(run)
      BY <3>1 DEF Judged
    <3>3. QED
      BY <1>3, <3>1, <3>2 DEF TrustProgress
  <2>5. VerdictsOfRunStand'
    BY <1>3, <1>5, <2>1 DEF VerdictsOfRunStand, Trusted, Exists, Holds
  <2>6. disk'["tile_trust"].by # run'.id
    BY <1>3, <2>1
  <2>7. QED
    BY <2>2, <2>3, <2>4, <2>5, <2>6 DEF TrustInv
<1>7. CASE n = 2
  <2>1. RunsOf({}) = {}
    BY DEF RunsOf
  <2>2. disk'["tile_trust"] = [by |-> run.id, val |-> run.out]
    BY <1>2, <1>7, <2>1 DEF Writing
  <2>3. /\ disk'["trust_status"] = disk["trust_status"] /\ run' = NoRun /\ Kept(plan[1])
    BY <1>2, <1>4, <1>7 DEF Writing
  <2>4. /\ disk'["tile_trust"].by = run.id /\ disk'["tile_trust"].val = run.out
        /\ TrustedTiles' = Trusted(run.out)
    BY <2>2 DEF TrustedTiles, Trusted
  <2>5. VerdictsStand'
    <3>1. Trusted(run.out) \subseteq Tile
      BY DEF Trusted
    <3>2. QED
      BY <1>3, <1>5, <2>4, <3>1 DEF VerdictsStand, VerdictsOfRunStand, Exists, Holds
  <2>6. CompleteGate'
    <3> SUFFICES ASSUME Holds("trust_status", "COMPLETE")',
                        disk'["tile_trust"].by = disk'["trust_status"].by
                 PROVE  TrustedTiles' # {} /\ InTime(disk["tile_trust"].val)'
      BY DEF CompleteGate
    <3>1. state = "COMPLETE"
      BY <1>2, <1>3, <2>3, <2>4 DEF Kept, Exists, Holds
    <3>2. Trusted(run.out) # {} /\ InTime(run.out)
      BY <1>1, <3>1 DEF Outcomes
    <3>3. QED
      BY <2>4, <3>2 DEF InTime
  <2>7. QED
    BY <2>3, <2>5, <2>6, NoRunFields, Stages DEF TrustInv
<1>8. QED
  BY <1>2, <1>6, <1>7 DEF Writing

LEMMA SpatialWrites ==
  ASSUME PipelineInv, run.stage = "SPATIAL", NEW plan, NEW n, Writing(plan, n)
  PROVE  SpatialInv'
<1>1. ~ Holds("spatial_status", "COMPLETE") /\ plan \in SpatialPlans(run)
  BY DEF Writing, PipelineInv, SpatialInv, Plans
<1>2. /\ "spatial_status" \in File /\ "selection" \in File /\ "mapping" \in File
      /\ "selected_npz" \in File /\ "spatial_summary" \in File
  BY StageFiles, Stages
<1>3. ASSUME plan[n].file # "spatial_status"
      PROVE  SpatialInv'
  <2>1. disk'["spatial_status"] = disk["spatial_status"]
    BY <1>2, <1>3 DEF Writing
  <2>2. QED
    BY <1>1, <2>1 DEF SpatialInv, SpatialIsWhole, Holds
<1>4. PICK id : id = run.id
  OBVIOUS
<1>5. CASE plan = <<Write("mapping", {"NOT_MAPPABLE"})>> \/ plan = <<Write("spatial_summary", {})>>
  <2>1. Len(plan) = 1 /\ plan[1].file # "spatial_status"
    BY <1>5 DEF Write
  <2>2. n = 1
    BY <2>1 DEF Writing
  <2>3. QED
    BY <1>3, <2>1, <2>2
<1>6. ASSUME NEW state,
             plan = <<Write("selection", {"SELECTED"}),
                      Write("mapping", {"MAPPED"} \cup run.scene),
                      Write("selected_npz", run.out), Write("spatial_summary", {}),
                      Write("spatial_status", {state})>>
      PROVE  SpatialInv'
  <2>1. /\ Len(plan) = 5
        /\ plan[1].file = "selection" /\ plan[2].file = "mapping"
        /\ plan[3].file = "selected_npz" /\ plan[4].file = "spatial_summary"
        /\ plan[5].file = "spatial_status"
    BY <1>6 DEF Write
  <2>2. CASE n # 5
    <3>1. n \in {1, 2, 3, 4}
      BY <2>1, <2>2 DEF Writing
    <3>2. QED
      BY <1>3, <2>1, <3>1
  <2>3. CASE n = 5
    <3>1. /\ run' = NoRun /\ disk'["spatial_status"].by = id /\ resets' = resets
          /\ Kept(plan[1]) /\ Kept(plan[2]) /\ Kept(plan[3]) /\ Kept(plan[4])
          /\ \A f \in {"selection", "mapping", "selected_npz", "spatial_summary"} :
                disk'[f] = disk[f]
      BY <1>2, <1>4, <2>1, <2>3 DEF Writing
    <3>2. \A f \in {"selection", "mapping", "selected_npz", "spatial_summary"} : By(f, id)'
      BY <1>4, <2>1, <3>1 DEF Kept, By, Exists
    <3>3. QED
      BY <3>1, <3>2, NoRunFields, Stages DEF SpatialInv, SpatialIsWhole
  <2>4. QED
    BY <2>2, <2>3
<1>7. ASSUME NEW state,
             plan = <<Write("selection", {"INSUFFICIENT"}),
                      Write("mapping", {"MAPPED"} \cup run.scene),
                      Write("spatial_summary", {}), Write("spatial_status", {state})>>
      PROVE  SpatialInv'
  <2>1. /\ Len(plan) = 4
        /\ plan[1].file = "selection" /\ plan[2].file = "mapping"
        /\ plan[3].file = "spatial_summary" /\ plan[4].file = "spatial_status"
        /\ plan[1].val = {"INSUFFICIENT"}
    BY <1>7 DEF Write
  <2>2. CASE n # 4
    <3>1. n \in {1, 2, 3}
      BY <2>1, <2>2 DEF Writing
    <3>2. QED
      BY <1>3, <2>1, <3>1
  <2>3. CASE n = 4
    <3>1. /\ run' = NoRun /\ disk'["spatial_status"].by = id /\ resets' = resets
          /\ Kept(plan[1]) /\ Kept(plan[2]) /\ Kept(plan[3])
          /\ \A f \in {"selection", "mapping", "spatial_summary"} : disk'[f] = disk[f]
      BY <1>2, <1>4, <2>1, <2>3 DEF Writing
    <3>2. \A f \in {"selection", "mapping", "spatial_summary"} : By(f, id)'
      BY <1>4, <2>1, <3>1 DEF Kept, By, Exists
    <3>3. ~ Holds("selection", "SELECTED")'
      <4>1. CASE Exists("selection")
        BY <2>1, <3>1, <4>1 DEF Kept, Holds
      <4>2. CASE ~ Exists("selection")
        BY <1>2, <3>1, <4>2 DEF Exists, PipelineInv, TypeOK, DiskOK, Absent, Holds
      <4>3. QED
        BY <4>1, <4>2
    <3>4. QED
      BY <3>1, <3>2, <3>3, NoRunFields, Stages DEF SpatialInv, SpatialIsWhole
  <2>4. QED
    BY <2>2, <2>3
<1>8. QED
  BY <1>1, <1>5, <1>6, <1>7 DEF SpatialPlans

\* Until it names its sources, a run of REGISTRATION writes its results and its state.
LEMMA RegistrationWritesResults ==
  ASSUME PipelineInv, run.stage = "REGISTRATION", NEW plan, NEW n, Writing(plan, n),
         plan[n].file \in {"transform", "registration_summary", "registration_status"},
         plan[n].names = {}, plan[n].file = "transform" => plan[n].val = run.out,
         plan[n].file = "registration_status" /\ plan[n].val = {"COMPLETE"} =>
           plan = Fit(run) /\ n = 3
  PROVE  RegistrationInv'
<1>1. PICK m \in 1 .. LastRun : /\ \A f \in Evidence : Exists(f) => disk[f].by = m
                                /\ run.out = {m}
  BY DEF Writing, PipelineInv, RegistrationInv, OfOneRun
<1>2. /\ RegistrationIsWhole /\ FittedToOneRun /\ NamesItsSelection
      /\ disk["provenance"].by # run.id
      /\ Holds("registration_status", "COMPLETE") => run.todo[1].file = "provenance"
  BY DEF PipelineInv, RegistrationInv
<1>3. /\ ~ Holds("registration_status", "COMPLETE")
      /\ LastRun' = LastRun /\ resets' = resets
  BY <1>2 DEF Writing
<1>4. PICK id : id = run.id
  OBVIOUS
<1>5. /\ "transform" \in File /\ "registration_summary" \in File
      /\ "registration_status" \in File /\ "provenance" \in File
      /\ Evidence \subseteq File
      /\ "transform" \notin Evidence /\ "registration_summary" \notin Evidence
      /\ "registration_status" \notin Evidence
  BY StageFiles, Stages DEF Evidence
<1>6. /\ disk'[plan[n].file].by = id /\ disk'[plan[n].file].val = plan[n].val
      /\ \A f \in File \ {plan[n].file} : disk'[f] = disk[f]
  <2>1. RunsOf({}) = {}
    BY DEF RunsOf
  <2>2. QED
    BY <1>4, <2>1 DEF Writing
<1>7. disk'["provenance"] = disk["provenance"] /\ \A f \in Evidence : disk'[f] = disk[f]
  BY <1>5, <1>6
<1>8. FittedToOneRun'
  <2>1. CASE plan[n].file = "transform"
    BY <1>1, <1>3, <1>6, <2>1 DEF FittedToOneRun
  <2>2. CASE plan[n].file # "transform"
    BY <1>2, <1>3, <1>5, <1>6, <2>2 DEF FittedToOneRun, Exists
  <2>3. QED
    BY <2>1, <2>2
<1>9. NamesItsSelection'
  <2>1. CASE plan[n].file = "transform"
    BY <1>2, <1>4, <1>6, <1>7, <2>1 DEF NamesItsSelection
  <2>2. CASE plan[n].file # "transform"
    BY <1>2, <1>5, <1>6, <1>7, <2>2 DEF NamesItsSelection
  <2>3. QED
    BY <2>1, <2>2
<1>10. ASSUME run'.stage = "REGISTRATION"
       PROVE  OfOneRun' /\ (disk["provenance"].by # run.id)'
  <2>1. run'.id = run.id /\ run'.out = run.out
    BY <1>10, NoRunFields, Stages DEF Writing
  <2>2. OfOneRun'
    BY <1>1, <1>3, <1>7, <2>1 DEF OfOneRun, Exists
  <2>3. QED
    BY <1>2, <1>7, <2>1, <2>2
<1>11. CASE plan[n].file = "registration_status" /\ plan[n].val = {"COMPLETE"}
  <2>1. /\ n = 3 /\ Len(plan) = 4 /\ plan[1].file = "transform"
        /\ plan[2].file = "registration_summary" /\ plan[4].file = "provenance"
    BY <1>11 DEF Fit, Write, WriteNaming
  <2>2. /\ Kept(plan[1]) /\ Kept(plan[2])
        /\ run'.pc = "write" /\ Len(run'.todo) = 1 /\ run'.todo[1] = plan[4]
    BY <2>1 DEF Writing
  <2>3. \A f \in {"transform", "registration_summary"} : By(f, id) /\ disk'[f] = disk[f]
    BY <1>4, <1>5, <1>6, <1>11, <2>1, <2>2 DEF Kept
  <2>4. \A f \in {"transform", "registration_summary"} : By(f, id)'
    BY <1>3, <2>3 DEF By, Exists
  <2>5. RegistrationIsWhole'
    BY <1>6, <1>11, <2>4 DEF RegistrationIsWhole
  <2>6. QED
    BY <1>8, <1>9, <1>10, <2>1, <2>2, <2>5 DEF RegistrationInv
<1>12. CASE ~ (plan[n].file = "registration_status" /\ plan[n].val = {"COMPLETE"})
  <2>1. ~ Holds("registration_status", "COMPLETE")'
    BY <1>3, <1>5, <1>6, <1>12 DEF Holds
  <2>2. QED
    BY <1>8, <1>9, <1>10, <2>1 DEF RegistrationInv, RegistrationIsWhole
<1>13. QED
  BY <1>11, <1>12

\* The provenance is written last, of the selection that is there.
LEMMA RegistrationNamesSources ==
  ASSUME PipelineInv, run.stage = "REGISTRATION", NEW plan, Writing(plan, 4),
         plan = Fit(run)
  PROVE  RegistrationInv'
<1>1. /\ Len(plan) = 4 /\ plan[1].file = "transform" /\ plan[1].val = run.out
      /\ plan[4].file = "provenance" /\ plan[4].val = {} /\ plan[4].names = {"selected_npz"}
  BY DEF Fit, Write, WriteNaming
<1>2. PICK m \in 1 .. LastRun : /\ \A f \in Evidence : Exists(f) => disk[f].by = m
                                /\ run.out = {m}
  BY DEF Writing, PipelineInv, RegistrationInv, OfOneRun
<1>3. /\ RegistrationIsWhole /\ FittedToOneRun /\ run.id # 0
      /\ run' = NoRun /\ Kept(plan[1]) /\ LastRun' = LastRun /\ resets' = resets
  BY <1>1, RunInProgress DEF Writing, PipelineInv, RegistrationInv
<1>4. /\ "transform" \in File /\ "registration_summary" \in File
      /\ "registration_status" \in File
  BY StageFiles, Stages
<1>5. /\ disk'["provenance"].by = run.id
      /\ disk'["provenance"].val = RunsOf({"selected_npz"})
      /\ \A f \in {"transform", "registration_summary", "registration_status"} :
            disk'[f] = disk[f]
  BY <1>1, <1>4 DEF Writing
<1>6. RunsOf({"selected_npz"}) \subseteq {m}
  BY <1>2 DEF RunsOf, Evidence
<1>7. NamesItsSelection'
  <2> SUFFICES ASSUME disk["transform"].by = run.id
               PROVE  disk'["provenance"].val \subseteq disk'["transform"].val
    BY <1>5 DEF NamesItsSelection
  <2>1. disk["transform"].val = {m}
    BY <1>1, <1>2, <1>3 DEF Kept, Exists
  <2>2. QED
    BY <1>5, <1>6, <2>1
<1>8. RegistrationIsWhole' /\ FittedToOneRun'
  BY <1>3, <1>5 DEF RegistrationIsWhole, FittedToOneRun, By, Holds, Exists
<1>9. QED
  BY <1>3, <1>7, <1>8, NoRunFields, Stages DEF RegistrationInv

LEMMA RegistrationWrites ==
  ASSUME PipelineInv, run.stage = "REGISTRATION", NEW plan, NEW n, Writing(plan, n)
  PROVE  RegistrationInv'
<1>1. plan \in RegistrationPlans(run) /\ n \in 1 .. Len(plan)
  BY DEF Writing, Plans
<1>2. CASE plan = Fit(run)
  <2>1. /\ Len(plan) = 4 /\ plan[1].file = "transform"
        /\ plan[2].file = "registration_summary" /\ plan[3].file = "registration_status"
        /\ plan[1].val = run.out /\ plan[2].val = {}
        /\ plan[1].names = {} /\ plan[2].names = {} /\ plan[3].names = {}
    BY <1>2 DEF Fit, Write, WriteNaming
  <2>2. CASE n \in {1, 2, 3}
    BY <1>2, <2>1, <2>2, RegistrationWritesResults
  <2>3. CASE n = 4
    BY <1>2, <2>3, RegistrationNamesSources
  <2>4. QED
    BY <1>1, <2>1, <2>2, <2>3
<1>3. ASSUME NEW state \in {"INSUFFICIENT", "FAILED"},
             \/ plan = <<Write("registration_status", {state}),
                         Write("registration_summary", {})>>
             \/ plan = <<Write("registration_status", {state}),
                         Write("registration_summary", {}), Write("transform", run.out)>>
      PROVE  RegistrationInv'
  <2>1. /\ Len(plan) \in {2, 3} /\ plan[1].file = "registration_status"
        /\ plan[1].val = {state} /\ plan[2].file = "registration_summary"
        /\ plan[1].names = {} /\ plan[2].names = {}
        /\ Len(plan) = 3 => /\ plan[3].file = "transform" /\ plan[3].val = run.out
                            /\ plan[3].names = {}
    BY <1>3 DEF Write
  <2>2. state # "COMPLETE" /\ {state} # {"COMPLETE"}
    BY <1>3
  <2>3. n \in {1, 2} \/ (n = 3 /\ Len(plan) = 3)
    <3>1. CASE Len(plan) = 2
      BY <1>1, <3>1
    <3>2. CASE Len(plan) = 3
      BY <1>1, <3>2
    <3>3. QED
      BY <2>1, <3>1, <3>2
  <2>4. QED
    BY <2>1, <2>2, <2>3, RegistrationWritesResults
<1>4. QED
  BY <1>1, <1>2, <1>3 DEF RegistrationPlans, FailedFits

LEMMA WriteNextStep ==
  ASSUME PipelineInv, WriteNext
  PROVE  PipelineInv'
<1>1. run # NoRun
  BY NoRunFields DEF WriteNext
<1>2. ASSUME NEW plan, NEW n, Writing(plan, n) PROVE PipelineInv'
  BY <1>2, WritingKeeps, MatchWrites, TrustWrites, SpatialWrites, RegistrationWrites,
     MetricsWrites
<1>3. QED
  BY <1>1, <1>2, AbortedStep, WriteNextWrites

-------------------------------------------------------------------------------
(***************************************************************************)
(* The invariant holds.                                                    *)
(***************************************************************************)
LEMMA InitEstablishesInv ==
  ASSUME FilesInit
  PROVE  PipelineInv
<1>1. /\ disk = [f \in File |-> Absent] /\ run = NoRun
      /\ runs = [s \in Stage |-> 0] /\ resetting = {} /\ resets = 0
  BY DEF FilesInit
<1>2. LastRun = 0
  BY <1>1, Stages DEF LastRun
<1>3. \A f \in File : disk[f] = Absent /\ disk[f].by = 0 /\ disk[f].val = {}
  BY <1>1 DEF Absent
<1>4. DiskOK
  <2>1. \A f \in File : {} \in Values(f)
    BY DEF Values
  <2>2. disk = [f \in File |-> [by |-> disk[f].by, val |-> disk[f].val]]
    BY <1>1 DEF Absent
  <2>3. QED
    BY <1>2, <1>3, <2>1, <2>2 DEF DiskOK
<1>5. TypeOK
  BY <1>1, <1>4 DEF TypeOK
<1>6. \A f \in {"match_status", "trust_status", "tile_trust", "spatial_status", "transform",
                "registration_status", "provenance", "metrics_status"} : f \in File
  BY StageFiles, Stages
<1>7. MatchIsWhole /\ SpatialIsWhole /\ RegistrationIsWhole /\ MetricsIsWhole
  BY <1>3, <1>6 DEF MatchIsWhole, SpatialIsWhole, RegistrationIsWhole, MetricsIsWhole, Holds
<1>8. VerdictsStand /\ CompleteGate
  BY <1>3, <1>6 DEF VerdictsStand, CompleteGate, TrustedTiles, Trusted, Holds
<1>9. FittedToOneRun /\ NamesItsSelection
  BY <1>3, <1>6 DEF FittedToOneRun, NamesItsSelection, Exists
<1>10. QED
  BY <1>1, <1>5, <1>7, <1>8, <1>9, NoRunFields, Stages
     DEF PipelineInv, FollowsPlan, MatchInv, TrustInv, SpatialInv, RegistrationInv, MetricsInv

LEMMA StutterKeepsInv ==
  ASSUME PipelineInv, UNCHANGED fileVars
  PROVE  PipelineInv'
<1>1. /\ disk' = disk /\ run' = run /\ runs' = runs /\ resetting' = resetting
      /\ resets' = resets
  BY DEF fileVars
<1>2. LastRun' = LastRun
  BY <1>1 DEF LastRun
<1>3. TypeOK'
  BY <1>1, <1>2, DiskStays, RunStays DEF PipelineInv, TypeOK
<1>4. ElsewhereKeeps
  BY <1>1, <1>2, <1>3 DEF ElsewhereKeeps, OnlyDeleted
<1>5. QED
  BY <1>4, DeletionsKeepInv

LEMMA StepKeepsInv ==
  ASSUME PipelineInv, [Next]_fileVars
  PROVE  PipelineInv'
<1>1. CASE MatchNext
  BY <1>1, StartMatchStep, BuildTilesStep, WriteDecisionsStep, HashDecisionsStep,
     MatchTileStep, MatchDoneStep, StartM8Step, WriteM8Step DEF MatchNext
<1>2. CASE TrustNext
  BY <1>2, StartTrustStep, TimeoutStep, LookForTileStep, EvaluateTileStep,
     GatherInliersStep, GateDoneStep DEF TrustNext
<1>3. CASE SpatialNext
  BY <1>3, StartSpatialStep, LoadSceneStep, SpatialTimeoutStep, UseTileStep,
     NothingRecomputedStep, SelectRegionStep DEF SpatialNext
<1>4. CASE RegistrationNext
  BY <1>4, StartRegistrationStep, LoadSelectedStep, LoadMappingStep, FitFailsStep,
     FitSucceedsStep DEF RegistrationNext
<1>5. CASE MetricsNext
  BY <1>5, StartMetricsStep, CollectStep, IdentifyStep DEF MetricsNext
<1>6. CASE WriteNext
  BY <1>6, WriteNextStep
<1>7. CASE Elsewhere
  BY <1>7, ElsewhereStep
<1>8. CASE UNCHANGED fileVars
  BY <1>8, StutterKeepsInv
<1>9. QED
  BY <1>1, <1>2, <1>3, <1>4, <1>5, <1>6, <1>7, <1>8 DEF Next

\* What every run has written and found so far, and that its last writes follow one
\* of its stage's plans: the files, the runs and the resets stay in this.
THEOREM PipelineInvHolds == Spec => []PipelineInv
<1>1. FilesInit => PipelineInv
  BY InitEstablishesInv
<1>2. PipelineInv /\ [Next]_fileVars => PipelineInv'
  BY StepKeepsInv
<1>3. QED
  BY <1>1, <1>2, PTL DEF Spec

\* No file is by a run that has not been started, and the run in progress is the one
\* that started last (guard_run, Begin).
THEOREM FilesAndRunsAreTyped == Spec => []TypeOK
  BY PipelineInvHolds, PTL DEF PipelineInv

\* A stage whose status says COMPLETE has all its results, of the same run: the status
\* is each service's last write, or comes after the results it speaks of, however
\* runs crash, are repeated, or have their files reset under them.
THEOREM CompleteStagesAreWhole == Spec => []CompleteIsWhole
<1>1. PipelineInv => CompleteIsWhole
  BY DEF PipelineInv, MatchInv, SpatialInv, RegistrationInv, MetricsInv, CompleteIsWhole
<1>2. QED
  BY <1>1, PipelineInvHolds, PTL

\* REGISTRATION fits the points and the mapping of one SPATIAL run, the one it looked
\* at when it started, and its provenance names that run's selection.
THEOREM RegistrationUsesOneSelection == Spec => []EvidenceIsOneSelection
<1>1. ASSUME PipelineInv PROVE EvidenceIsOneSelection
  <2>1. FittedToOneRun /\ NamesItsSelection
    BY <1>1 DEF PipelineInv, RegistrationInv
  <2>2. At("REGISTRATION", "fit") =>
          \A f \in {"spatial_status", "selection", "selected_npz", "mapping"} :
             Exists(f) => disk[f].by \in run.out
    BY <1>1 DEF PipelineInv, RegistrationInv, OfOneRun, Evidence, At
  <2>3. QED
    BY <2>1, <2>2 DEF EvidenceIsOneSelection
<1>2. QED
  BY <1>1, PipelineInvHolds, PTL

\* A TRUSTED verdict is about candidates that are good for as long as MATCH has not
\* written them again: TRUST reads a tile's file at the moment it judges it.
THEOREM TrustedVerdictsStand == Spec => []VerdictsStand
<1>1. PipelineInv => VerdictsStand
  BY DEF PipelineInv, TrustInv
<1>2. QED
  BY <1>1, PipelineInvHolds, PTL

\* TRUST leaves no tile without a verdict and gives none two, whether it finds a tile's
\* artifact missing, runs out of time or is done, and a COMPLETE gate trusted a tile.
THEOREM TrustJudgesEveryTile == Spec => []VerdictPerTile
<1>1. ASSUME PipelineInv PROVE VerdictPerTile
  <2>1. CompleteGate
    BY <1>1 DEF PipelineInv, TrustInv
  <2>2. ASSUME At("TRUST", "write")
        PROVE  /\ \A i \in DOMAIN run.tiles : \E v \in Verdict : <<run.tiles[i], v>> \in run.out
               /\ OneVerdictEach(run.out)
    <3>1. /\ TrustProgress(run) /\ run.tiles \in Seq(Tile) /\ run.k \in Nat \ {0}
          /\ run.done \in Nat /\ run.pc = "write" /\ Judged(run) = run.k - 1
      BY <1>1, <2>2, NoRunFields, Stages, RunInProgress DEF PipelineInv, TrustInv, At, Judged
    <3>2. DOMAIN run.tiles = 1 .. Len(run.tiles) /\ Len(run.tiles) \in Nat
      BY <3>1, LenProperties
    <3>3. ASSUME NEW i \in 1 .. Len(run.tiles)
          PROVE  \E v \in Verdict : <<run.tiles[i], v>> \in run.out
      <4>1. CASE i \in 1 .. Judged(run)
        BY <3>1, <4>1 DEF TrustProgress
      <4>2. CASE i \notin 1 .. Judged(run)
        <5>1. Judged(run) # Len(run.tiles)
          BY <4>2
        <5>2. run.late /\ run.done <= Judged(run)
          BY <3>1, <5>1 DEF TrustProgress
        <5>3. i \in run.done + 1 .. Len(run.tiles)
          BY <3>1, <3>2, <4>2, <5>2
        <5>4. <<run.tiles[i], "TIMEOUT">> \in run.out /\ "TIMEOUT" \in Verdict
          BY <3>1, <5>2, <5>3 DEF TrustProgress, Verdict
        <5>5. QED
          BY <5>4
      <4>3. QED
        BY <4>1, <4>2
    <3>4. QED
      BY <3>1, <3>2, <3>3 DEF TrustProgress
  <2>3. QED
    BY <2>1, <2>2 DEF VerdictPerTile
<1>2. QED
  BY <1>1, PipelineInvHolds, PTL
===============================================================================
