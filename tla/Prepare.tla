------------------------------- MODULE Prepare -------------------------------
(***************************************************************************)
(* PREPARE (backend/app/processing/service.py): the runs that read a       *)
(* pair's raw products, write display products and masks, prepare the      *)
(* overlap, cut tiles and analyse their condition, all into one directory  *)
(* of the pair, with processing_status.json and processing_manifest.json   *)
(* beside them.  One server; its death and restart, a reset at any moment, *)
(* runs that block, fail, exceed their time, stop after preprocessing, or  *)
(* die of an exception that nothing catches while the server lives on.     *)
(*                                                                         *)
(* There is one configuration, so that the directories of all pairs have   *)
(* the same last component, one of the two keys that the run lock takes    *)
(* in the process (backend/app/hardening.py).                              *)
(*                                                                         *)
(* A file is the number of the run that wrote it.  Deleting a directory is *)
(* one step.                                                               *)
(***************************************************************************)
EXTENDS Integers

CONSTANTS
    Pair,       \* registered pairs
    MaxRuns,    \* bound: runs that are admitted
    MaxResets,  \* bound: resets
    MaxCrashes  \* bound: deaths of the server

ASSUME PrepareAssumption == {MaxRuns, MaxResets, MaxCrashes} \subseteq Nat

VARIABLES
    file,       \* pair, file |-> the run that wrote it, or None
    status,     \* pair |-> the state and the run that processing_status.json tells
    job,        \* pair |-> the run in progress: its number, where it is, its mode
    registry,   \* the pair whose run, or refused attempt, holds the common key
    lock,       \* pair |-> .run.lock: absent, of a living run, left behind, stale
    runs, resets, crashes,      \* counters
    resetAt,    \* pair |-> the number of runs before its last reset
    crashedAt,  \* the number of runs before the last crash
    raised      \* history: the runs that an exception ended which nothing caught

vars == <<file, status, job, registry, lock, runs, resets, crashes, resetAt,
          crashedAt, raised>>

None == 0
Run == 1 .. MaxRuns

\* arrays are the tiles' own files, tiles the index crops/tiles.json.
Product == {"a", "b"}
File == Product \cup {"overlap", "arrays", "tiles", "conditions", "manifest"}

Outcome == {"READY_FOR_MATCHING", "BLOCKED", "FAILED", "PREPROCESSING"}
State == {"NOT_STARTED", "READING"} \cup Outcome

At == {"idle", "reading", "preprocessing", "second product", "preprocessed",
       "overlap", "overlap written", "crops", "index", "crops written",
       "conditions", "conditions written", "readiness", "ready",
       "blocking", "blocked", "stopping", "stopped"}

Idle == [run |-> None, at |-> "idle", stop |-> FALSE]

Init ==
    /\ file = [p \in Pair |-> [f \in File |-> None]]
    /\ status = [p \in Pair |-> [state |-> "NOT_STARTED", run |-> None]]
    /\ job = [p \in Pair |-> Idle]
    /\ registry = {}
    /\ lock = [p \in Pair |-> "absent"]
    /\ runs = 0 /\ resets = 0 /\ crashes = 0
    /\ resetAt = [p \in Pair |-> 0] /\ crashedAt = 0 /\ raised = {}

counted == <<runs, resets, crashes, resetAt, crashedAt, raised>>

-------------------------------------------------------------------------------
\* What a run does to the files

r(p) == job[p].run

Goto(p, at) == job' = [job EXCEPT ![p].at = at]

write_file(p, f) == file' = [file EXCEPT ![p][f] = r(p)]

write_status(p, state) == status' = [status EXCEPT ![p] = [state |-> state, run |-> r(p)]]

\* A run that ends, by its answer or an exception, gives both locks back.
Release(p) ==
    /\ job' = [job EXCEPT ![p] = Idle]
    /\ registry' = {}
    /\ lock' = [lock EXCEPT ![p] = "absent"]

Running(p, at) == job[p].at = at /\ UNCHANGED counted

\* An exception that no handler of the run catches, on its way through RunLock:
\* no _fail, no blocker, the status stays what it was.
Raise(p, at) ==
    /\ job[p].at = at
    /\ Release(p)
    /\ raised' = raised \cup {r(p)}
    /\ UNCHANGED <<file, status, runs, resets, crashes, resetAt, crashedAt>>

Locks == UNCHANGED <<registry, lock>>

\* A step that writes the file f.
Writes(p, at, f, next) ==
    /\ Running(p, at)
    /\ write_file(p, f)
    /\ Goto(p, next)
    /\ Locks /\ UNCHANGED status

\* The end of a stage: finish_step hashes the files the stage has written, then
\* the status is written.  Outside any handler: the first raises when a reset has
\* deleted a file, the second when the disk fails.
FinishStage(p, at, fs, next) ==
    \/ /\ Running(p, at)
       /\ \A f \in fs : file[p][f] # None
       /\ write_status(p, "READING")
       /\ Goto(p, next)
       /\ Locks /\ UNCHANGED file
    \/ Raise(p, at)

-------------------------------------------------------------------------------
\* The lock

\* mark_run_interrupted: a status that _is_running takes for a running one.
interrupted(s) ==
    IF s.state \in {"READING", "PREPROCESSING"} THEN [s EXCEPT !.state = "FAILED"] ELSE s

\* RunLock._register: no run of the process has one of the two keys of p, its
\* path and the name it shares.
KeysFree(p) == registry = {}

\* prepare() up to _prepare_main.  stop: POST /pairs/{id}/preprocess.
Prepare(p) ==
    \E stop \in BOOLEAN :
        /\ runs < MaxRuns
        /\ job[p] = Idle /\ KeysFree(p)
        /\ lock[p] \in {"absent", "stale"}
        /\ registry' = {p}
        /\ lock' = [lock EXCEPT ![p] = "held"]
        /\ status' = IF lock[p] = "stale"
                     THEN [status EXCEPT ![p] = interrupted(status[p])] ELSE status
        /\ runs' = runs + 1
        /\ job' = [job EXCEPT ![p] = [run |-> runs + 1, at |-> "reading", stop |-> stop]]
        /\ UNCHANGED <<file, resets, crashes, resetAt, crashedAt, raised>>

\* A lock file younger than the budget: the attempt is refused, after it has
\* taken the keys of the process, which it keeps.
Refuse(p) ==
    /\ KeysFree(p) /\ lock[p] = "left"
    /\ registry' = {p}
    /\ UNCHANGED <<file, status, job, lock, counted>>

\* The lock file a dead run left grows older than run_stale_budget_seconds.
Age(p) ==
    /\ lock[p] = "left"
    /\ lock' = [lock EXCEPT ![p] = "stale"]
    /\ UNCHANGED <<file, status, job, registry, counted>>

-------------------------------------------------------------------------------
\* _prepare_main

\* Mutant: the status of the running run is written only after preprocessing.
ReadUnannounced(p) ==
    /\ Running(p, "reading")
    /\ Goto(p, "preprocessing")
    /\ Locks /\ UNCHANGED <<file, status>>

Read(p) == FinishStage(p, "reading", {}, "preprocessing")

Block(p, at) ==
    /\ Running(p, at)
    /\ Goto(p, "blocking")
    /\ Locks /\ UNCHANGED <<file, status>>

\* Only OSError and ValueError are handled, not the ProductReadError of a raw
\* file that cannot be opened any more.
Preprocess(p) ==
    \/ Raise(p, "preprocessing") \/ Raise(p, "second product")
    \/ Writes(p, "preprocessing", "a", "second product")
    \/ Writes(p, "second product", "b", "preprocessed")
    \/ FinishStage(p, "preprocessed", Product, IF job[p].stop THEN "stopping" ELSE "overlap")

\* resolve_geometry and compute_overlap stand outside any handler: a footprint
\* with a bad number in it raises ValueError.
PrepareOverlap(p) ==
    \/ Raise(p, "overlap")
    \/ Writes(p, "overlap", "overlap", "overlap written")
    \/ Writes(p, "overlap", "overlap", "blocking")
    \/ FinishStage(p, "overlap written", {"overlap"}, "crops")

GenerateCrops(p) ==
    \/ Writes(p, "crops", "arrays", "index")
    \/ Writes(p, "index", "tiles", "crops written")
    \/ Writes(p, "index", "tiles", "blocking")
    \/ FinishStage(p, "crops written", {"arrays", "tiles"}, "conditions")

\* np.load of a tile or a mask that is gone is an OSError the stage handles.
AnalyzeCondition(p) ==
    \/ /\ \A f \in Product \cup {"arrays"} : file[p][f] # None
       /\ Writes(p, "conditions", "conditions", "conditions written")
    \/ FinishStage(p, "conditions written", {"conditions"}, "readiness")

\* The last two writes of a run that ends in state, from the labels at and at2.
\* Mutant: the status first.
StatusThenManifest(p, at, at2, state) ==
    \/ /\ Running(p, at)
       /\ write_status(p, state)
       /\ Goto(p, at2)
       /\ Locks /\ UNCHANGED file
    \/ /\ Running(p, at2)
       /\ write_file(p, "manifest")
       /\ Release(p)
       /\ UNCHANGED status

ManifestThenStatus(p, at, at2, state) ==
    \/ Writes(p, at, "manifest", at2)
    \/ /\ Running(p, at2)
       /\ write_status(p, state)
       /\ Release(p)
       /\ UNCHANGED file

\* These writes, and those of the tiles' index and of the conditions, are made
\* outside any handler: a disk that fails ends the run.
DiskFails(p) ==
    \E at \in {"index", "conditions", "readiness", "ready", "blocking", "blocked",
              "stopping", "stopped"} : Raise(p, at)

\* blocker and _finish_stop.  Mutant: a blocked run that writes no status.
EndQuietly(p) ==
    \/ ManifestThenStatus(p, "readiness", "ready", "READY_FOR_MATCHING")
    \/ /\ Running(p, "blocking")
       /\ write_file(p, "manifest")
       /\ Release(p)
       /\ UNCHANGED status
    \/ ManifestThenStatus(p, "stopping", "stopped", "PREPROCESSING")

End(p) ==
    \/ ManifestThenStatus(p, "readiness", "ready", "READY_FOR_MATCHING")
    \/ ManifestThenStatus(p, "blocking", "blocked", "BLOCKED")
    \/ ManifestThenStatus(p, "stopping", "stopped", "PREPROCESSING")

\* _fail, from a stage that raises or, at a stage's boundary, _check_timeout.
Fail(p) ==
    /\ job[p].at \in {"reading", "preprocessing", "second product", "overlap", "crops",
                      "index", "conditions", "readiness", "stopping"}
    /\ write_status(p, "FAILED")
    /\ Release(p)
    /\ UNCHANGED <<file, counted>>

Step(p) ==
    \/ Read(p) \/ Block(p, "reading") \/ Preprocess(p) \/ PrepareOverlap(p)
    \/ GenerateCrops(p) \/ AnalyzeCondition(p) \/ End(p) \/ Fail(p) \/ DiskFails(p)

-------------------------------------------------------------------------------
\* POST /processing/{id}/reset: no lock is asked for.
Reset(p) ==
    /\ resets < MaxResets
    /\ file' = [file EXCEPT ![p] = [f \in File |-> None]]
    /\ status' = [status EXCEPT ![p] = [state |-> "NOT_STARTED", run |-> None]]
    /\ lock' = [lock EXCEPT ![p] = "absent"]
    /\ resets' = resets + 1
    /\ resetAt' = [resetAt EXCEPT ![p] = runs]
    /\ UNCHANGED <<job, registry, runs, crashes, crashedAt, raised>>

\* The server dies, and a new one starts.
Crash ==
    /\ crashes < MaxCrashes
    /\ job' = [p \in Pair |-> Idle]
    /\ registry' = {}
    /\ lock' = [p \in Pair |-> IF lock[p] = "held" THEN "left" ELSE lock[p]]
    /\ crashes' = crashes + 1
    /\ crashedAt' = runs
    /\ UNCHANGED <<file, status, runs, resets, resetAt, raised>>

-------------------------------------------------------------------------------
Next ==
    \/ \E p \in Pair : Prepare(p) \/ Refuse(p) \/ Age(p) \/ Step(p) \/ Reset(p)
    \/ Crash

\* A run that is admitted goes on; nobody has to start, refuse or reset one.
Spec == Init /\ [][Next]_vars /\ \A p \in Pair : WF_vars(Step(p))

-------------------------------------------------------------------------------
\* Types; and the key that every PREPARE takes lets one run at a time go on,
\* whatever its pair, under a lock file that only a reset takes away.
TypeOK ==
    /\ file \in [Pair -> [File -> Run \cup {None}]]
    /\ status \in [Pair -> [state : State, run : Run \cup {None}]]
    /\ job \in [Pair -> [run : Run \cup {None}, at : At, stop : BOOLEAN]]
    /\ registry \subseteq Pair
    /\ lock \in [Pair -> {"absent", "held", "left", "stale"}]
    /\ runs \in 0 .. MaxRuns /\ resets \in 0 .. MaxResets /\ crashes \in 0 .. MaxCrashes
    /\ resetAt \in [Pair -> 0 .. runs] /\ crashedAt \in 0 .. runs /\ raised \subseteq Run
    /\ \A p \in Pair : job[p] # Idle =>
          /\ registry = {p}
          /\ lock[p] = IF resetAt[p] >= r(p) THEN "absent" ELSE "held"

\* Unless a reset came since its run began, a status that announces prepared
\* products tells of files that this run has written, every one of them, and
\* not of what an earlier run, a crash or a run in progress left there.
Announced(state) ==
    CASE state = "READY_FOR_MATCHING" -> File \ {"manifest"}
      [] state = "PREPROCESSING"      -> Product
      [] OTHER                        -> {}

ReadyIsWhole ==
    \A p \in Pair : status[p].run > resetAt[p] =>
        \A f \in Announced(status[p].state) : file[p][f] = status[p].run

\* The manifest is never older than a status that says READY, BLOCKED or stopped.
EndedHasItsManifest ==
    \A p \in Pair :
        status[p].run > resetAt[p] /\ status[p].state \in Outcome \ {"FAILED"} =>
            file[p]["manifest"] >= status[p].run

\* Every run that is admitted ends, and unless a crash, a reset or an exception
\* that nothing catches hit it, it ends with a status that tells its outcome: a
\* status READING that nobody is at work on has one of these causes.
PrepareReports ==
    \A p \in Pair, n \in Run :
        job[p].run = n ~>
            /\ job[p].run # n
            /\ \/ status[p].run = n /\ status[p].state \in Outcome
               \/ resetAt[p] >= n \/ crashedAt >= n \/ n \in raised
===============================================================================
