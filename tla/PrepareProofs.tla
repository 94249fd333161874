----------------------------- MODULE PrepareProofs -----------------------------
(***************************************************************************)
(* Proofs about Prepare: whatever the pairs, the resets and the deaths of  *)
(* the server, a status that announces prepared products tells of files    *)
(* that the run it names has written (ReadyIsWhole), and a run that ended  *)
(* has its manifest (EndedHasItsManifest).                                 *)
(***************************************************************************)
EXTENDS Prepare, TLAPS

USE PrepareAssumption

-------------------------------------------------------------------------------
(***************************************************************************)
(* The inductive invariant.                                                *)
(***************************************************************************)
Active(p) == job[p].at # "idle"

\* The run in progress is the last that was admitted: the others have ended.
LastRun ==
    \A p \in Pair :
        /\ Active(p) => r(p) = runs /\ runs \in Run
        /\ ~Active(p) => job[p] = Idle

\* Nothing names a run that has not begun.
FromThePast ==
    \A p \in Pair :
        /\ status[p].run <= runs
        /\ \A f \in File : file[p][f] <= runs

\* The files that a run has written when it comes to at, and needs there.
Written(at) ==
    CASE at = "second product" -> {"a"}
      [] at \in {"preprocessed", "overlap", "stopping"} -> Product
      [] at = "stopped" -> Product \cup {"manifest"}
      [] at \in {"overlap written", "crops"} -> Product \cup {"overlap"}
      [] at = "index" -> Product \cup {"overlap", "arrays"}
      [] at \in {"crops written", "conditions"} -> File \ {"conditions", "manifest"}
      [] at \in {"conditions written", "readiness"} -> File \ {"manifest"}
      [] at = "ready" -> File
      [] at = "blocked" -> {"manifest"}
      [] OTHER -> {}

\* Where the status may still be that of an earlier run.
Unannounced == {"reading", "blocking", "blocked"}

\* Unless a reset came since it began, the run in progress finds its own files
\* as it left them, under its own status.
OwnFiles ==
    \A p \in Pair :
        Active(p) /\ runs > resetAt[p] =>
            /\ \A f \in Written(job[p].at) : file[p][f] = runs
            /\ job[p].at \notin Unannounced =>
                  status[p] = [state |-> "READING", run |-> runs]

PrepareInv ==
    TypeOK /\ LastRun /\ FromThePast /\ OwnFiles /\ ReadyIsWhole /\ EndedHasItsManifest

-------------------------------------------------------------------------------
\* Runs are positive numbers, so that None is none of them.
LEMMA RunIsNat == Run \subseteq Nat \ {None} /\ Run \cup {None} = 0 .. MaxRuns
  BY DEF Run, None

LEMMA IdleIsIdle == Idle.at = "idle" /\ Idle.run = None /\ Idle.stop = FALSE
  BY DEF Idle

\* One run at a time, since its key is the registry.
LEMMA OneRun ==
  ASSUME TypeOK, LastRun, NEW p \in Pair, Active(p)
  PROVE  /\ registry = {p}
         /\ r(p) = runs /\ runs \in Run
         /\ \A q \in Pair : Active(q) => q = p
<1>1. ASSUME NEW q \in Pair, Active(q) PROVE registry = {q}
  BY <1>1, IdleIsIdle DEF TypeOK, Active
<1>2. r(p) = runs /\ runs \in Run
  BY DEF LastRun
<1>3. QED
  BY <1>1, <1>2

\* The run in progress goes on, and keeps its locks.
LEMMA GotoType ==
  ASSUME TypeOK, LastRun, NEW p \in Pair, Active(p), NEW next \in At \ {"idle"},
         Goto(p, next), Locks, UNCHANGED counted,
         file' \in [Pair -> [File -> Run \cup {None}]],
         status' \in [Pair -> [state : State, run : Run \cup {None}]]
  PROVE  /\ TypeOK' /\ LastRun'
         /\ job'[p].at = next
         /\ \A q \in Pair : Active(q)' => q = p
<1>1. /\ job' \in [Pair -> [run : Run \cup {None}, at : At, stop : BOOLEAN]]
      /\ job'[p].at = next /\ job'[p].run = job[p].run
      /\ \A q \in Pair \ {p} : job'[q] = job[q]
  <2>1. job' = [job EXCEPT ![p] = [job[p] EXCEPT !.at = next]]
    BY DEF Goto
  <2>2. job[p] \in [run : Run \cup {None}, at : At, stop : BOOLEAN]
    BY DEF TypeOK
  <2>3. /\ [job[p] EXCEPT !.at = next] \in [run : Run \cup {None}, at : At, stop : BOOLEAN]
        /\ [job[p] EXCEPT !.at = next].at = next
        /\ [job[p] EXCEPT !.at = next].run = job[p].run
    BY <2>2
  <2>4. QED
    BY <2>1, <2>3 DEF TypeOK
<1>2. \A q \in Pair : Active(q)' => q = p
  BY <1>1, OneRun DEF Active
<1>3. \A q \in Pair : job[q] # Idle <=> Active(q)
  BY IdleIsIdle DEF LastRun, Active
<1>4. \A q \in Pair : (job[q] # Idle)' => q = p
  BY <1>1, <1>3, OneRun
<1>5. lock'[p] = IF resetAt'[p] >= job'[p].run THEN "absent" ELSE "held"
  BY <1>1, <1>3 DEF TypeOK, Locks, counted, r
<1>6. registry' = {p}
  BY OneRun DEF Locks
<1>7. TypeOK'
  BY <1>1, <1>4, <1>5, <1>6 DEF TypeOK, Locks, counted, r
<1>8. LastRun'
  BY <1>1, <1>2, <1>3, OneRun DEF LastRun, Active, r, counted
<1>9. QED
  BY <1>1, <1>2, <1>7, <1>8

\* The run in progress ends, and gives both locks back.
LEMMA ReleaseType ==
  ASSUME TypeOK, LastRun, NEW p \in Pair, Active(p), Release(p),
         UNCHANGED <<runs, resets, crashes, resetAt, crashedAt>>, raised' \subseteq Run,
         file' \in [Pair -> [File -> Run \cup {None}]],
         status' \in [Pair -> [state : State, run : Run \cup {None}]]
  PROVE  /\ TypeOK' /\ LastRun'
         /\ \A q \in Pair : ~Active(q)'
<1>1. \A q \in Pair : job'[q] = Idle
  BY OneRun DEF TypeOK, LastRun, Release
<1>2. \A q \in Pair : ~Active(q)'
  BY <1>1, IdleIsIdle DEF Active
<1>3. job' \in [Pair -> [run : Run \cup {None}, at : At, stop : BOOLEAN]]
  BY DEF TypeOK, Release, Idle, At
<1>4. TypeOK'
  BY <1>1, <1>3 DEF TypeOK, Release
<1>5. LastRun'
  BY <1>1, <1>2 DEF LastRun
<1>6. QED
  BY <1>2, <1>4, <1>5

LEMMA WriteFileType ==
  ASSUME TypeOK, LastRun, NEW p \in Pair, Active(p), NEW f \in File, write_file(p, f)
  PROVE  /\ file' \in [Pair -> [File -> Run \cup {None}]]
         /\ file'[p][f] = runs
         /\ \A g \in File \ {f} : file'[p][g] = file[p][g]
         /\ \A q \in Pair \ {p} : file'[q] = file[q]
  BY OneRun DEF TypeOK, write_file

LEMMA WriteStatusType ==
  ASSUME TypeOK, LastRun, NEW p \in Pair, Active(p), NEW s \in State, write_status(p, s)
  PROVE  /\ status' \in [Pair -> [state : State, run : Run \cup {None}]]
         /\ status'[p] = [state |-> s, run |-> runs]
         /\ \A q \in Pair \ {p} : status'[q] = status[q]
  BY OneRun DEF TypeOK, write_status

LEMMA AnnouncedFiles ==
  /\ \A state : Announced(state) \subseteq File \ {"manifest"}
  /\ \A state \in State \ {"READY_FOR_MATCHING", "PREPROCESSING"} : Announced(state) = {}
  BY DEF Announced, State, Outcome, File, Product

-------------------------------------------------------------------------------
(***************************************************************************)
(* The four kinds of step of a run.                                        *)
(***************************************************************************)

\* A file that the run writes disturbs no announcement: the status is its own
\* READING, or the file is the manifest.
LEMMA WriteStep ==
  ASSUME PrepareInv, NEW p \in Pair,
         NEW at \in At \ {"idle"}, NEW f \in File, NEW next \in At \ {"idle"},
         Writes(p, at, f, next),
         Written(next) \subseteq Written(at) \cup {f},
         at \in Unannounced => f = "manifest" /\ next \in Unannounced
  PROVE  PrepareInv'
<1>1. Active(p) /\ TypeOK /\ LastRun /\ job[p].at = at
  BY DEF PrepareInv, Writes, Running, Active
<1>2. /\ file' \in [Pair -> [File -> Run \cup {None}]]
      /\ file'[p][f] = runs
      /\ \A g \in File \ {f} : file'[p][g] = file[p][g]
      /\ \A q \in Pair \ {p} : file'[q] = file[q]
  BY <1>1, WriteFileType DEF Writes
<1>3. UNCHANGED <<status, runs, resetAt>>
  BY DEF Writes, Running, counted
<1>4. /\ TypeOK' /\ LastRun' /\ job'[p].at = next
      /\ \A q \in Pair : Active(q)' => q = p
  BY <1>1, <1>2, GotoType DEF Writes, Running, TypeOK
<1>5. FromThePast'
  <2>1. runs <= runs
    BY <1>1 DEF TypeOK
  <2>2. QED
    BY <1>2, <1>3, <2>1 DEF PrepareInv, FromThePast
<1>6. OwnFiles'
  <2> SUFFICES ASSUME runs > resetAt[p]
               PROVE  /\ \A g \in Written(next) : file'[p][g] = runs
                      /\ next \notin Unannounced =>
                            status[p] = [state |-> "READING", run |-> runs]
    BY <1>3, <1>4 DEF OwnFiles
  <2>1. \A g \in Written(at) : file[p][g] = runs
    BY <1>1 DEF PrepareInv, OwnFiles
  <2>2. Written(next) \subseteq File
    BY DEF Written, File, Product
  <2>3. \A g \in Written(next) : file'[p][g] = runs
    BY <1>2, <2>1, <2>2
  <2>4. QED
    BY <1>1, <2>3 DEF PrepareInv, OwnFiles
<1>7. ReadyIsWhole'
  <2> SUFFICES ASSUME NEW q \in Pair, status[q].run > resetAt[q],
                      NEW g \in Announced(status[q].state)
               PROVE  file'[q][g] = status[q].run
    BY <1>3 DEF ReadyIsWhole
  <2>1. g \in File \ {"manifest"} /\ file[q][g] = status[q].run
    BY AnnouncedFiles DEF PrepareInv, ReadyIsWhole
  <2>2. ASSUME q = p, g = f PROVE FALSE
    <3>1. runs > resetAt[p]
      BY <2>2 DEF PrepareInv, FromThePast, TypeOK, Run, None
    <3>2. status[p].state = "READING"
      BY <1>1, <2>1, <2>2, <3>1 DEF PrepareInv, OwnFiles
    <3>3. QED
      BY <2>2, <3>2, AnnouncedFiles DEF State, Outcome
  <2>3. QED
    BY <1>2, <2>1, <2>2
<1>8. EndedHasItsManifest'
  <2> SUFFICES ASSUME NEW q \in Pair, status[q].run > resetAt[q],
                      status[q].state \in Outcome \ {"FAILED"}
               PROVE  file'[q]["manifest"] >= status[q].run
    BY <1>3 DEF EndedHasItsManifest
  <2>1. file[q]["manifest"] >= status[q].run /\ "manifest" \in File
    BY DEF PrepareInv, EndedHasItsManifest, File
  <2>2. CASE q = p /\ f = "manifest"
    BY <1>2, <2>2 DEF PrepareInv, FromThePast, TypeOK, Run, None
  <2>3. QED
    BY <1>2, <2>1, <2>2
<1>9. QED
  BY <1>4, <1>5, <1>6, <1>7, <1>8 DEF PrepareInv

\* An exception that nothing catches changes the locks and nothing else.
LEMMA RaiseStep ==
  ASSUME PrepareInv, NEW p \in Pair, NEW at \in At \ {"idle"}, Raise(p, at)
  PROVE  PrepareInv'
<1>1. Active(p) /\ TypeOK /\ LastRun
  BY DEF PrepareInv, Raise, Active
<1>2. UNCHANGED <<file, status, runs, resets, crashes, resetAt, crashedAt>>
  BY DEF Raise
<1>3. raised' \subseteq Run
  BY <1>1, OneRun DEF Raise, TypeOK
<1>4. TypeOK' /\ LastRun' /\ \A q \in Pair : ~Active(q)'
  BY <1>1, <1>2, <1>3, ReleaseType DEF Raise, TypeOK
<1>5. QED
  BY <1>2, <1>4
  DEF PrepareInv, FromThePast, OwnFiles, ReadyIsWhole, EndedHasItsManifest

\* A stage that ends finds its files and goes on under its own READING; or it
\* raises.
LEMMA FinishStep ==
  ASSUME PrepareInv, NEW p \in Pair,
         NEW at \in At \ {"idle"}, NEW fs, NEW next \in At \ {"idle"},
         FinishStage(p, at, fs, next), Written(next) \subseteq Written(at)
  PROVE  PrepareInv'
<1>1. CASE /\ Running(p, at) /\ write_status(p, "READING") /\ Goto(p, next)
           /\ Locks /\ UNCHANGED file
  <2>1. Active(p) /\ TypeOK /\ LastRun /\ job[p].at = at
    BY <1>1 DEF PrepareInv, Running, Active
  <2>2. UNCHANGED <<file, runs, resetAt>> /\ UNCHANGED counted
    BY <1>1 DEF Running, counted
  <2>3. /\ status' \in [Pair -> [state : State, run : Run \cup {None}]]
        /\ status'[p] = [state |-> "READING", run |-> runs]
        /\ \A q \in Pair \ {p} : status'[q] = status[q]
    BY <1>1, <2>1, WriteStatusType DEF State
  <2>4. /\ TypeOK' /\ LastRun' /\ job'[p].at = next
        /\ \A q \in Pair : Active(q)' => q = p
    BY <1>1, <2>1, <2>2, <2>3, GotoType DEF TypeOK
  <2>5. FromThePast'
    <3>1. runs <= runs
      BY <2>1 DEF TypeOK
    <3>2. QED
      BY <2>2, <2>3, <3>1 DEF PrepareInv, FromThePast
  <2>6. OwnFiles'
    BY <2>1, <2>2, <2>3, <2>4 DEF PrepareInv, OwnFiles
  <2>7. ReadyIsWhole'
    BY <2>2, <2>3, AnnouncedFiles DEF PrepareInv, ReadyIsWhole, State, Outcome
  <2>8. EndedHasItsManifest'
    BY <2>2, <2>3 DEF PrepareInv, EndedHasItsManifest, Outcome
  <2>9. QED
    BY <2>4, <2>5, <2>6, <2>7, <2>8 DEF PrepareInv
<1>2. QED
  BY <1>1, RaiseStep DEF FinishStage

\* A run that ends tells an outcome that its files bear out.
LEMMA EndStep ==
  ASSUME PrepareInv, NEW p \in Pair, Active(p), NEW state \in Outcome,
         write_status(p, state), Release(p), UNCHANGED <<file, counted>>,
         Announced(state) \subseteq Written(job[p].at),
         state = "FAILED" \/ "manifest" \in Written(job[p].at)
  PROVE  PrepareInv'
<1>1. TypeOK /\ LastRun
  BY DEF PrepareInv
<1>2. /\ status' \in [Pair -> [state : State, run : Run \cup {None}]]
      /\ status'[p] = [state |-> state, run |-> runs]
      /\ \A q \in Pair \ {p} : status'[q] = status[q]
  BY <1>1, WriteStatusType DEF State
<1>3. UNCHANGED <<file, runs, resetAt>>
  BY DEF counted
<1>4. TypeOK' /\ LastRun' /\ \A q \in Pair : ~Active(q)'
  BY <1>1, <1>2, ReleaseType DEF TypeOK, counted
<1>5. runs <= runs /\ FromThePast'
  <2>1. runs <= runs
    BY <1>1 DEF TypeOK
  <2>2. QED
    BY <1>2, <1>3, <2>1 DEF PrepareInv, FromThePast
<1>6. OwnFiles'
  BY <1>4 DEF OwnFiles
<1>7. runs > resetAt[p] => \A f \in Written(job[p].at) : file[p][f] = runs
  BY DEF PrepareInv, OwnFiles
<1>8. ReadyIsWhole'
  BY <1>2, <1>3, <1>7 DEF PrepareInv, ReadyIsWhole
<1>9. EndedHasItsManifest'
  BY <1>2, <1>3, <1>5, <1>7 DEF PrepareInv, EndedHasItsManifest
<1>10. QED
  BY <1>4, <1>5, <1>6, <1>8, <1>9 DEF PrepareInv

\* The run goes on without writing anything.
LEMMA BlockStep ==
  ASSUME PrepareInv, NEW p \in Pair, Block(p, "reading")
  PROVE  PrepareInv'
<1>1. Active(p) /\ TypeOK /\ LastRun
  BY DEF PrepareInv, Block, Running, Active
<1>2. "blocking" \in At \ {"idle"} /\ Written("blocking") = {} /\ "blocking" \in Unannounced
  BY DEF At, Written, Unannounced
<1>3. UNCHANGED <<file, status, runs, resetAt>>
  BY DEF Block, Running, counted
<1>4. /\ TypeOK' /\ LastRun' /\ job'[p].at = "blocking"
      /\ \A q \in Pair : Active(q)' => q = p
  BY <1>1, <1>2, GotoType DEF Block, Running, TypeOK
<1>5. QED
  BY <1>2, <1>3, <1>4
  DEF PrepareInv, FromThePast, OwnFiles, ReadyIsWhole, EndedHasItsManifest

-------------------------------------------------------------------------------
(***************************************************************************)
(* Every action keeps the invariant.                                       *)
(***************************************************************************)
LEMMA PrepareStep ==
  ASSUME PrepareInv, NEW p \in Pair, Prepare(p)
  PROVE  PrepareInv'
<1>1. PICK stop \in BOOLEAN :
        /\ runs < MaxRuns /\ registry = {} /\ registry' = {p}
        /\ lock' = [lock EXCEPT ![p] = "held"]
        /\ status' = IF lock[p] = "stale"
                     THEN [status EXCEPT ![p] = interrupted(status[p])] ELSE status
        /\ runs' = runs + 1
        /\ job' = [job EXCEPT ![p] = [run |-> runs + 1, at |-> "reading", stop |-> stop]]
        /\ UNCHANGED <<file, resets, crashes, resetAt, crashedAt, raised>>
  BY DEF Prepare, KeysFree
<1>2. TypeOK /\ runs \in Nat /\ runs' \in Run /\ runs' > runs
  BY <1>1 DEF PrepareInv, TypeOK, Run
<1>3. \A q \in Pair : job[q] = Idle /\ ~Active(q)
  BY <1>1, <1>2, IdleIsIdle DEF TypeOK, Active
<1>4. /\ job' \in [Pair -> [run : Run \cup {None}, at : At, stop : BOOLEAN]]
      /\ job'[p].run = runs' /\ job'[p].at = "reading"
      /\ \A q \in Pair \ {p} : job'[q] = Idle /\ ~Active(q)'
  BY <1>1, <1>2, <1>3 DEF TypeOK, At, Active
<1>5. /\ interrupted(status[p]) \in [state : State, run : Run \cup {None}]
      /\ interrupted(status[p]).run = status[p].run
      /\ \/ interrupted(status[p]) = status[p]
         \/ interrupted(status[p]).state = "FAILED"
  <2>1. status[p] \in [state : State, run : Run \cup {None}]
    BY <1>2 DEF TypeOK
  <2>2. QED
    BY <2>1 DEF interrupted, State, Outcome
<1>6. /\ status' \in [Pair -> [state : State, run : Run \cup {None}]]
      /\ \A q \in Pair : /\ status'[q].run = status[q].run
                         /\ status'[q] = status[q] \/ status'[q].state = "FAILED"
  BY <1>1, <1>2, <1>5 DEF TypeOK
<1>7. ~(resetAt[p] >= runs') /\ resetAt' \in [Pair -> 0 .. runs'] /\ crashedAt' \in 0 .. runs'
  BY <1>1, <1>2 DEF TypeOK
<1>8. TypeOK'
  <2>1. runs' \in 0 .. MaxRuns /\ resets' \in 0 .. MaxResets /\ crashes' \in 0 .. MaxCrashes
    BY <1>1, <1>2 DEF TypeOK, Run
  <2>2. lock' \in [Pair -> {"absent", "held", "left", "stale"}] /\ lock'[p] = "held"
    BY <1>1, <1>2 DEF TypeOK
  <2>3. ASSUME NEW q \in Pair, job'[q] # Idle
        PROVE  /\ registry' = {q}
               /\ lock'[q] = IF resetAt'[q] >= job'[q].run THEN "absent" ELSE "held"
    <3>1. q = p
      BY <1>4, <2>3
    <3>2. QED
      BY <1>1, <1>4, <1>7, <2>2, <3>1
  <2>4. QED
    BY <1>1, <1>2, <1>4, <1>6, <1>7, <2>1, <2>2, <2>3 DEF TypeOK, r
<1>9. LastRun'
  BY <1>2, <1>4 DEF LastRun, Active, r
<1>10. FromThePast'
  <2>1. \A q \in Pair : status[q].run \in Int /\ \A f \in File : file[q][f] \in Int
    BY <1>2, RunIsNat DEF TypeOK, None
  <2>2. QED
    BY <1>1, <1>2, <1>6, <2>1 DEF PrepareInv, FromThePast
<1>11. OwnFiles'
  <2>1. Written("reading") = {} /\ "reading" \in Unannounced
    BY DEF Written, Unannounced
  <2>2. QED
    BY <1>4, <2>1 DEF OwnFiles
<1>12. ReadyIsWhole'
  BY <1>1, <1>6, AnnouncedFiles DEF PrepareInv, ReadyIsWhole, State, Outcome
<1>13. EndedHasItsManifest'
  BY <1>1, <1>6 DEF PrepareInv, EndedHasItsManifest
<1>14. QED
  BY <1>8, <1>9, <1>10, <1>11, <1>12, <1>13 DEF PrepareInv

\* A reset leaves nothing to announce, and the run in progress nothing to claim.
LEMMA ResetStep ==
  ASSUME PrepareInv, NEW p \in Pair, Reset(p)
  PROVE  PrepareInv'
<1>1. TypeOK /\ runs' = runs /\ job' = job /\ runs \in 0 .. MaxRuns
  BY DEF PrepareInv, Reset, TypeOK
<1>2. /\ file' \in [Pair -> [File -> Run \cup {None}]]
      /\ \A f \in File : file'[p][f] = 0
      /\ \A q \in Pair \ {p} : file'[q] = file[q]
  BY <1>1 DEF Reset, TypeOK, None
<1>3. /\ status' \in [Pair -> [state : State, run : Run \cup {None}]]
      /\ status'[p].run = 0
      /\ \A q \in Pair \ {p} : status'[q] = status[q]
  BY <1>1 DEF Reset, TypeOK, None, State
<1>4. /\ resetAt' \in [Pair -> 0 .. runs] /\ resetAt'[p] = runs
      /\ \A q \in Pair \ {p} : resetAt'[q] = resetAt[q]
  BY <1>1 DEF Reset, TypeOK
<1>5. /\ lock' \in [Pair -> {"absent", "held", "left", "stale"}] /\ lock'[p] = "absent"
      /\ \A q \in Pair \ {p} : lock'[q] = lock[q]
  BY <1>1 DEF Reset, TypeOK
<1>6. TypeOK'
  <2>1. resets' \in 0 .. MaxResets
    BY DEF PrepareInv, TypeOK, Reset
  <2>2. job[p] # Idle => runs >= job[p].run
    BY <1>1 DEF PrepareInv, LastRun, Active, r
  <2>3. QED
    BY <1>1, <1>2, <1>3, <1>4, <1>5, <2>1, <2>2 DEF TypeOK, Reset, r
<1>7. LastRun'
  BY <1>1 DEF PrepareInv, LastRun, Active, r
<1>8. FromThePast'
  BY <1>1, <1>2, <1>3 DEF PrepareInv, FromThePast
<1>9. OwnFiles'
  BY <1>1, <1>2, <1>3, <1>4 DEF PrepareInv, OwnFiles, Active
<1>10. ReadyIsWhole'
  <2> SUFFICES ASSUME NEW q \in Pair, status'[q].run > resetAt'[q],
                      NEW f \in Announced(status'[q].state)
               PROVE  file'[q][f] = status'[q].run
    BY DEF ReadyIsWhole
  <2>1. q # p
    BY <1>1, <1>3, <1>4
  <2>2. QED
    BY <1>2, <1>3, <1>4, <2>1 DEF PrepareInv, ReadyIsWhole
<1>11. EndedHasItsManifest'
  BY <1>1, <1>2, <1>3, <1>4 DEF PrepareInv, EndedHasItsManifest
<1>12. QED
  BY <1>6, <1>7, <1>8, <1>9, <1>10, <1>11 DEF PrepareInv

LEMMA CrashStep ==
  ASSUME PrepareInv, Crash
  PROVE  PrepareInv'
<1>1. \A q \in Pair : job'[q] = Idle /\ ~Active(q)'
  BY IdleIsIdle DEF Crash, Active
<1>2. UNCHANGED <<file, status, runs, resets, resetAt>>
  BY DEF Crash
<1>3. job' \in [Pair -> [run : Run \cup {None}, at : At, stop : BOOLEAN]]
  BY DEF Crash, Idle, At
<1>4. TypeOK'
  BY <1>1, <1>2, <1>3 DEF PrepareInv, TypeOK, Crash
<1>5. QED
  BY <1>1, <1>2, <1>4
  DEF PrepareInv, LastRun, FromThePast, OwnFiles, ReadyIsWhole, EndedHasItsManifest

\* What neither touches the files, the status nor a run.
LEMMA LockStep ==
  ASSUME PrepareInv, UNCHANGED vars \/ \E p \in Pair : Refuse(p) \/ Age(p)
  PROVE  PrepareInv'
<1>1. UNCHANGED <<file, status, job, counted>>
  BY DEF vars, Refuse, Age, counted
<1>2. TypeOK'
  <2>1. CASE UNCHANGED vars
    BY <2>1 DEF PrepareInv, TypeOK, vars, r
  <2>2. CASE \E p \in Pair : Refuse(p)
    BY <2>2 DEF PrepareInv, TypeOK, Refuse, KeysFree, counted, r
  <2>3. ASSUME NEW p \in Pair, Age(p) PROVE TypeOK'
    BY <2>3 DEF PrepareInv, TypeOK, Age, counted, r
  <2>4. QED
    BY <2>1, <2>2, <2>3
<1>3. QED
  BY <1>1, <1>2
  DEF PrepareInv, LastRun, Active, r, counted, FromThePast, OwnFiles,
      ReadyIsWhole, EndedHasItsManifest

\* The steps of a run, label by label.
LEMMA RunStep ==
  ASSUME PrepareInv, NEW p \in Pair, Step(p)
  PROVE  PrepareInv'
<1> USE DEF At, Written, Unannounced, File, Product
<1>1. CASE Read(p)
  BY <1>1, FinishStep DEF Read
<1>2. CASE Block(p, "reading")
  BY <1>2, BlockStep
<1>3. CASE Preprocess(p)
  <2>1. CASE Writes(p, "preprocessing", "a", "second product")
    BY <2>1, WriteStep
  <2>2. CASE Writes(p, "second product", "b", "preprocessed")
    BY <2>2, WriteStep
  <2>3. CASE FinishStage(p, "preprocessed", Product, IF job[p].stop THEN "stopping" ELSE "overlap")
    BY <2>3, FinishStep
  <2>4. CASE Raise(p, "preprocessing") \/ Raise(p, "second product")
    BY <2>4, RaiseStep
  <2>5. QED
    BY <1>3, <2>1, <2>2, <2>3, <2>4 DEF Preprocess
<1>4. CASE PrepareOverlap(p)
  <2>1. CASE Writes(p, "overlap", "overlap", "overlap written")
    BY <2>1, WriteStep
  <2>2. CASE Writes(p, "overlap", "overlap", "blocking")
    BY <2>2, WriteStep
  <2>3. CASE FinishStage(p, "overlap written", {"overlap"}, "crops")
    BY <2>3, FinishStep
  <2>4. CASE Raise(p, "overlap")
    BY <2>4, RaiseStep
  <2>5. QED
    BY <1>4, <2>1, <2>2, <2>3, <2>4 DEF PrepareOverlap
<1>5. CASE GenerateCrops(p)
  <2>1. CASE Writes(p, "crops", "arrays", "index")
    BY <2>1, WriteStep
  <2>2. CASE Writes(p, "index", "tiles", "crops written")
    BY <2>2, WriteStep
  <2>3. CASE Writes(p, "index", "tiles", "blocking")
    BY <2>3, WriteStep
  <2>4. CASE FinishStage(p, "crops written", {"arrays", "tiles"}, "conditions")
    BY <2>4, FinishStep
  <2>5. QED
    BY <1>5, <2>1, <2>2, <2>3, <2>4 DEF GenerateCrops
<1>6. CASE AnalyzeCondition(p)
  <2>1. CASE Writes(p, "conditions", "conditions", "conditions written")
    BY <2>1, WriteStep
  <2>2. CASE FinishStage(p, "conditions written", {"conditions"}, "readiness")
    BY <2>2, FinishStep
  <2>3. QED
    BY <1>6, <2>1, <2>2 DEF AnalyzeCondition
<1>7. CASE End(p)
  <2>1. CASE ManifestThenStatus(p, "readiness", "ready", "READY_FOR_MATCHING")
    <3>1. CASE Writes(p, "readiness", "manifest", "ready")
      BY <3>1, WriteStep
    <3>2. CASE /\ Running(p, "ready") /\ write_status(p, "READY_FOR_MATCHING")
               /\ Release(p) /\ UNCHANGED file
      BY <3>2, EndStep DEF Running, Active, Announced, Outcome
    <3>3. QED
      BY <2>1, <3>1, <3>2 DEF ManifestThenStatus
  <2>2. CASE ManifestThenStatus(p, "blocking", "blocked", "BLOCKED")
    <3>1. CASE Writes(p, "blocking", "manifest", "blocked")
      BY <3>1, WriteStep
    <3>2. CASE /\ Running(p, "blocked") /\ write_status(p, "BLOCKED")
               /\ Release(p) /\ UNCHANGED file
      BY <3>2, EndStep DEF Running, Active, Announced, Outcome
    <3>3. QED
      BY <2>2, <3>1, <3>2 DEF ManifestThenStatus
  <2>3. CASE ManifestThenStatus(p, "stopping", "stopped", "PREPROCESSING")
    <3>1. CASE Writes(p, "stopping", "manifest", "stopped")
      BY <3>1, WriteStep
    <3>2. CASE /\ Running(p, "stopped") /\ write_status(p, "PREPROCESSING")
               /\ Release(p) /\ UNCHANGED file
      BY <3>2, EndStep DEF Running, Active, Announced, Outcome
    <3>3. QED
      BY <2>3, <3>1, <3>2 DEF ManifestThenStatus
  <2>4. QED
    BY <1>7, <2>1, <2>2, <2>3 DEF End
<1>8. CASE Fail(p)
  BY <1>8, EndStep DEF Fail, Active, Announced, Outcome
<1>9. CASE DiskFails(p)
  BY <1>9, RaiseStep DEF DiskFails
<1>10. QED
  BY <1>1, <1>2, <1>3, <1>4, <1>5, <1>6, <1>7, <1>8, <1>9 DEF Step

LEMMA PrepareInit == Init => PrepareInv
<1> SUFFICES ASSUME Init PROVE PrepareInv
  OBVIOUS
<1>1. Idle \in [run : Run \cup {None}, at : At, stop : BOOLEAN]
  BY DEF Idle, At
<1>2. TypeOK
  BY <1>1 DEF Init, TypeOK, State, None
<1>3. QED
  BY <1>2, IdleIsIdle
  DEF Init, PrepareInv, LastRun, Active, FromThePast, OwnFiles, ReadyIsWhole,
      EndedHasItsManifest, None

LEMMA PrepareInvStep == PrepareInv /\ [Next]_vars => PrepareInv'
  BY PrepareStep, RunStep, ResetStep, CrashStep, LockStep DEF Next

\* The run in progress is the last that was admitted, and unless a reset came
\* since it began it finds at every label the files that it has written.
THEOREM PrepareInvHolds == Spec => []PrepareInv
<1>1. QED
  BY PrepareInit, PrepareInvStep, PTL DEF Spec

-------------------------------------------------------------------------------
\* One run at a time goes on, whatever its pair, under a lock file that only a
\* reset takes away; everything has its type.
THEOREM OneRunAtATime == Spec => []TypeOK
<1>1. PrepareInv => TypeOK
  BY DEF PrepareInv
<1>2. QED
  BY <1>1, PrepareInvHolds, PTL

\* Unless a reset came since its run began, a status that says
\* READY_FOR_MATCHING, or that preprocessing was asked for and is done, tells of
\* files that this very run has written.
THEOREM AnnouncedProductsAreWhole == Spec => []ReadyIsWhole
<1>1. PrepareInv => ReadyIsWhole
  BY DEF PrepareInv
<1>2. QED
  BY <1>1, PrepareInvHolds, PTL

\* A run that is READY_FOR_MATCHING, BLOCKED or stopped after preprocessing has a
\* manifest that is not older than its status.
THEOREM EndedRunHasItsManifest == Spec => []EndedHasItsManifest
<1>1. PrepareInv => EndedHasItsManifest
  BY DEF PrepareInv
<1>2. QED
  BY <1>1, PrepareInvHolds, PTL
===============================================================================
