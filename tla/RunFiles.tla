------------------------------- MODULE RunFiles -------------------------------
(***************************************************************************)
(* The files under data/derived that the stages of one image pair share,   *)
(* and what every stage does with them: a run admitted by guard_run writes *)
(* its status first, works, and ends with a sequence of atomic writes      *)
(* (backend/app/hardening.py: atomic_write_json, atomic_write_npz); reset  *)
(* endpoints delete a stage's directory at any moment and without the run  *)
(* lock; the server process dies at any moment.                            *)
(*                                                                         *)
(* At most one run of the pair is in progress: guard_run locks             *)
(* derived/<stage>/<pair_id>, and RunLock's registry also holds the last   *)
(* component, the pair's id (RunGuard, property OneRunPerName).            *)
(*                                                                         *)
(* A file is the run that wrote it and the part of its content that other  *)
(* stages read.  Run numbers exist only here; the program compares no two. *)
(***************************************************************************)
EXTENDS Naturals, Sequences, FiniteSets

CONSTANTS
    TileSeq,    \* the pair's match tiles, in the order the stages visit them
    Budgets,    \* bound: how many runs of each stage there are, one choice
                \* or another
    MaxResets   \* bound: the number of reset requests

Tile == {TileSeq[i] : i \in DOMAIN TileSeq}

\* The files that a stage reads or asks for, its own or another's.  A tile's
\* name stands for its candidates/<tile>.npz and .json, a summary also for the
\* results written with it that no stage reads; manifests are left out.
FilesOf ==
    [MATCH |-> Tile \cup {"match_status", "decisions", "match_summary"},
     M8 |-> {"m8"},
     TRUST |-> {"trust_status", "tile_trust"},
     SPATIAL |-> {"spatial_status", "selection", "mapping", "selected_npz",
                  "spatial_summary"},
     REGISTRATION |-> {"registration_status", "transform",
                       "registration_summary", "provenance"},
     METRICS |-> {"metrics_status", "experiment", "report"}]

StatusOf == [MATCH |-> "match_status", M8 |-> "m8", TRUST |-> "trust_status",
             SPATIAL |-> "spatial_status",
             REGISTRATION |-> "registration_status",
             METRICS |-> "metrics_status"]

Stage == DOMAIN FilesOf
File == UNION {FilesOf[s] : s \in Stage}

ASSUME BudgetsAssumption == Budgets \subseteq [Stage -> Nat]
ASSUME ResetsAssumption == MaxResets \in Nat
ASSUME TilesAssumption ==
    /\ TileSeq \in Seq(STRING)
    /\ \A i, j \in DOMAIN TileSeq : TileSeq[i] = TileSeq[j] => i = j
    /\ \A s \in Stage, i \in DOMAIN TileSeq :
          TileSeq[i] \in FilesOf[s] => s = "MATCH"
    /\ Tile \cap {"match_status", "decisions", "match_summary"} = {}

VARIABLES
    disk,       \* the files: by whom (0: absent) and with which content
    run,        \* the run in progress, or NoRun
    runs,       \* how many runs of each stage were started
    resetting,  \* stages whose reset is under way
    resets      \* how many resets were requested

fileVars == <<disk, run, runs, resetting, resets>>

Absent == [by |-> 0, val |-> {}]

\* tiles: the match tiles to visit; k: the one it is at; done: how many it
\* has processed; late: out of time; out: what it has collected; scene: the
\* tiles with a scene mapping; todo: the writes that remain.
NoRun == [stage |-> "none", id |-> 0, pc |-> "idle", tiles |-> <<>>, k |-> 1,
          done |-> 0, late |-> FALSE, out |-> {}, scene |-> {}, todo |-> <<>>]

FilesInit ==
    /\ disk = [f \in File |-> Absent]
    /\ run = NoRun
    /\ runs = [s \in Stage |-> 0]
    /\ resetting = {}
    /\ resets = 0

\* A list of these tiles, in the order of TileSeq: there is one.
InOrder(tiles) ==
    {list \in [1 .. Cardinality(tiles) -> tiles] :
        \A i, j \in DOMAIN list : i < j =>
            \E m, n \in DOMAIN TileSeq :
                m < n /\ list[i] = TileSeq[m] /\ list[j] = TileSeq[n]}

-------------------------------------------------------------------------------
\* Reading and writing

Exists(f) == disk[f].by # 0
Holds(f, v) == disk[f].val = {v}

Content(v) == [by |-> run.id, val |-> v]
StatusFile == StatusOf[run.stage]

At(s, where) == run.stage = s /\ run.pc = where
Continue(r) == run' = r /\ UNCHANGED <<runs, resetting, resets>>
Stop == Continue(NoRun)

\* The run ends with this state in its status file.
EndWith(state) ==
    /\ disk' = [disk EXCEPT ![StatusFile] = Content({state})]
    /\ Stop

\* The number of the run that started last.
LastRun == runs["MATCH"] + runs["M8"] + runs["TRUST"] + runs["SPATIAL"]
           + runs["REGISTRATION"] + runs["METRICS"]

WithinBudget(started) ==
    \E b \in Budgets : \A s \in Stage : started[s] <= b[s]

\* A request passed its prerequisites: the first write is RUNNING.
Begin(s, where, tiles) ==
    LET id == LastRun + 1
    IN  /\ run = NoRun
        /\ runs' = [runs EXCEPT ![s] = @ + 1]
        /\ WithinBudget(runs')
        /\ run' = [NoRun EXCEPT !.stage = s, !.id = id, !.pc = where,
                                !.tiles = tiles]
        /\ disk' = [disk EXCEPT ![StatusOf[s]] =
                      [by |-> id, val |-> {"RUNNING"}]]
        /\ UNCHANGED <<resetting, resets>>

\* The runs that wrote those of these files that are there.
RunsOf(files) == {disk[f].by : f \in {g \in files : Exists(g)}}

\* The writes that end a run; one may come after files have been hashed, and
\* one may name the runs whose files are there when it is written.
Write(f, v) == [file |-> f, val |-> v, hashed |-> {}, names |-> {}]
WriteAfterHashing(f, v, listed) == [Write(f, v) EXCEPT !.hashed = listed]
WriteNaming(f, sources) == [Write(f, {}) EXCEPT !.names = sources]
Finally(writes) == [run EXCEPT !.pc = "write", !.todo = writes]

\* The next of these writes.  Hashing a file that a reset has deleted raises:
\* the run is over and its status stays as it was.
WriteNext ==
    /\ run.todo # <<>>
    /\ LET w == Head(run.todo)
       IN  IF \A f \in w.hashed : Exists(f)
           THEN /\ disk' = [disk EXCEPT ![w.file] =
                                Content(w.val \cup RunsOf(w.names))]
                /\ Continue(IF Tail(run.todo) = <<>> THEN NoRun
                            ELSE [run EXCEPT !.todo = Tail(@)])
           ELSE /\ Stop
                /\ UNCHANGED disk

-------------------------------------------------------------------------------
\* Resets and crashes

\* MATCH's directory contains the m8 directory of its pair.
Removes(s) == FilesOf[s] \cup (IF s = "MATCH" THEN FilesOf["M8"] ELSE {})

\* <Stage>Service.reset: shutil.rmtree(ignore_errors=True), in any order.
Reset(s) ==
    /\ resets < MaxResets
    /\ \E f \in Removes(s) : Exists(f)
    /\ resetting' = resetting \cup {s}
    /\ resets' = resets + 1
    /\ UNCHANGED <<disk, run, runs>>

Delete(s, f) ==
    /\ s \in resetting
    /\ f \in Removes(s) /\ Exists(f)
    /\ disk' = [disk EXCEPT ![f] = Absent]
    /\ UNCHANGED <<run, runs, resetting, resets>>

\* Files written behind its back and files it could not unlink stay.
EndReset(s) ==
    /\ s \in resetting
    /\ resetting' = resetting \ {s}
    /\ UNCHANGED <<disk, run, runs, resets>>

\* The server process dies and is restarted: what was in memory is gone.
Crash ==
    /\ run # NoRun \/ resetting # {}
    /\ run' = NoRun
    /\ resetting' = {}
    /\ UNCHANGED <<disk, runs, resets>>

Elsewhere ==
    \/ Crash
    \/ \E s \in Stage : Reset(s) \/ EndReset(s) \/ \E f \in File : Delete(s, f)
===============================================================================
