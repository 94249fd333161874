------------------------------- MODULE RunGuard -------------------------------
(***************************************************************************)
(* The run guard of every pipeline stage (backend/app/hardening.py: class  *)
(* RunLock and guarded_run; backend/app/run_guard.py: guard_run).  A run   *)
(* is admitted by an in-process registry of two keys per run directory -   *)
(* its last path component and its resolved path - and then by a lock file *)
(* created with O_CREAT|O_EXCL.  A lock file older than the budget is      *)
(* taken over after the status files beside it are marked interrupted.     *)
(*                                                                         *)
(* Each system call of RunLock.acquire and RunLock.release is a step, so   *)
(* workers of one process, workers of other processes, the clock, process  *)
(* crashes and the unguarded reset endpoints interleave between them.      *)
(*                                                                         *)
(* A RunLock's uuid token is represented by the worker that runs it; once  *)
(* the RunLock object is gone (the request failed or the process died) the *)
(* token it left in a file or in the registry becomes Orphan: no living    *)
(* RunLock ever matches it.                                                *)
(***************************************************************************)
CONSTANTS
    Proc,               \* server processes sharing the data directory
    Worker,             \* request threads
    ProcOf,             \* the process of a worker
    RunRoot,            \* run directories, standing for their resolved path
    Name,               \* last path components (pair or configuration ids)
    NameOf,             \* the last component of a run directory
    StatusInRoot,       \* roots whose status file lies directly in them
    Resettable,         \* roots whose stage has a reset endpoint
    RunsOutlastBudget,  \* can a live run be older than the stale budget?
    IOErrors,           \* can creating or writing the lock file fail?
    None, Orphan

ASSUME ProcAssumption == ProcOf \in [Worker -> Proc]
ASSUME NameAssumption == NameOf \in [RunRoot -> Name]
ASSUME StatusAssumption == StatusInRoot \subseteq RunRoot
ASSUME ResetAssumption == Resettable \subseteq RunRoot
ASSUME BudgetAssumption == RunsOutlastBudget \in BOOLEAN
ASSUME IOAssumption == IOErrors \in BOOLEAN
ASSUME NullAssumption ==
    /\ None \notin Worker \cup RunRoot
    /\ Orphan \notin Worker
    /\ None # Orphan

VARIABLES
    pc,         \* where each worker is in guarded_run
    root,       \* the run directory of its RunLock
    registry,   \* _IN_PROCESS of each process: key -> token or None
    lockfile,   \* <run dir>/.run.lock: the token it was created for, or None
    aged,       \* is the lock file older than the budget?
    status      \* the status file of the run under a root

vars == <<pc, root, registry, lockfile, aged, status>>

Key == Name \cup RunRoot
KeysOf(r) == {NameOf[r], r}

\* A worker between two requests; "refused": its last one ended in an
\* exception of acquire().
AtRest == {"idle", "refused"}
Acquiring == {"create", "examine", "mark", "rewrite", "unlink", "recreate",
              "token"}
InBody == {"body", "running"}
Releasing == {"release", "remove", "unregister"}
Busy == Acquiring \cup InBody \cup Releasing

\* STOPPED is the terminal state READING or PREPROCESSING of a partial
\* PREPARE run (stop_after); _is_running does not tell it from a live one.
Status == {"none", "RUNNING", "STOPPED", "DONE", "FAILED", "INTERRUPTED"}
LooksRunning == {"RUNNING", "STOPPED"}

TypeOK ==
    /\ pc \in [Worker -> AtRest \cup Busy]
    /\ root \in [Worker -> RunRoot \cup {None}]
    /\ \A w \in Worker : root[w] = None <=> pc[w] \in AtRest
    /\ registry \in [Proc -> [Key -> Worker \cup {None, Orphan}]]
    /\ lockfile \in [RunRoot -> Worker \cup {None, Orphan}]
    /\ aged \in [RunRoot -> BOOLEAN]
    /\ status \in [RunRoot -> Status]

Init ==
    /\ pc = [w \in Worker |-> "idle"]
    /\ root = [w \in Worker |-> None]
    /\ registry = [p \in Proc |-> [k \in Key |-> None]]
    /\ lockfile = [r \in RunRoot |-> None]
    /\ aged = [r \in RunRoot |-> FALSE]
    /\ status = [r \in RunRoot |-> "none"]

-------------------------------------------------------------------------------
\* Helpers

Goto(w, there) == pc' = [pc EXCEPT ![w] = there]

\* Faulty variant: _register checks the resolved path only.
FreeByPath(p, r) == registry[p][r] = None

Free(p, r) == \A k \in KeysOf(r) : registry[p][k] = None

\* What stays of w's token when its RunLock is dropped without release():
\* the registry entry and a lock file it created are never cleaned by anyone.
Orphaned(token, w) == IF token = w THEN Orphan ELSE token

Abandon(w) ==
    /\ Goto(w, "refused")
    /\ root' = [root EXCEPT ![w] = None]
    /\ registry' = [registry EXCEPT ![ProcOf[w]] =
                      [k \in Key |-> Orphaned(registry[ProcOf[w]][k], w)]]
    /\ lockfile' = [r \in RunRoot |-> Orphaned(lockfile[r], w)]
    /\ UNCHANGED <<aged, status>>

\* RunLock._stale: a missing lock file counts as stale.
Stale(r) == lockfile[r] = None \/ aged[r]

\* os.open(O_CREAT | O_EXCL) found no file.
CreateLockFile(w) ==
    /\ lockfile[root[w]] = None
    /\ lockfile' = [lockfile EXCEPT ![root[w]] = w]
    /\ aged' = [aged EXCEPT ![root[w]] = FALSE]
    /\ Goto(w, "token")
    /\ UNCHANGED <<root, registry, status>>

-------------------------------------------------------------------------------
\* RunLock.acquire

\* Faulty variant: the entry is checked but never written.
RegisterUnrecorded(w, r) ==
    /\ pc[w] \in AtRest
    /\ Free(ProcOf[w], r)
    /\ root' = [root EXCEPT ![w] = r]
    /\ Goto(w, "create")
    /\ UNCHANGED <<registry, lockfile, aged, status>>

\* _register, under _REGISTRY_LOCK: both keys are free and become w's.
Register(w, r) ==
    /\ pc[w] \in AtRest
    /\ Free(ProcOf[w], r)
    /\ registry' = [registry EXCEPT ![ProcOf[w]] =
                      [k \in Key |-> IF k \in KeysOf(r) THEN w
                                     ELSE registry[ProcOf[w]][k]]]
    /\ root' = [root EXCEPT ![w] = r]
    /\ Goto(w, "create")
    /\ UNCHANGED <<lockfile, aged, status>>

\* _register finds one of the keys taken: JOB_ALREADY_RUNNING.
Reject(w, r) ==
    /\ pc[w] \in AtRest
    /\ ~Free(ProcOf[w], r)
    /\ Goto(w, "refused")
    /\ UNCHANGED <<root, registry, lockfile, aged, status>>

\* The first os.open of _acquire_file.
Create(w) ==
    /\ pc[w] = "create"
    /\ \/ CreateLockFile(w)
       \/ /\ lockfile[root[w]] # None
          /\ Goto(w, "examine")
          /\ UNCHANGED <<root, registry, lockfile, aged, status>>
       \/ IOErrors /\ Abandon(w)

\* Faulty variant: a live lock is waited for.
ExamineOrWait(w) ==
    /\ pc[w] = "examine"
    /\ Stale(root[w])
    /\ Goto(w, "mark")
    /\ UNCHANGED <<root, registry, lockfile, aged, status>>

\* FileExistsError: is the lock stale?  A live one is a conflict, and the
\* exception leaves acquire() after _register and before _held is set.
Examine(w) ==
    /\ pc[w] = "examine"
    /\ \/ /\ Stale(root[w])
          /\ Goto(w, "mark")
          /\ UNCHANGED <<root, registry, lockfile, aged, status>>
       \/ /\ ~Stale(root[w])
          /\ Abandon(w)

\* mark_run_interrupted reads the status files directly in the run directory.
Mark(w) ==
    /\ pc[w] = "mark"
    /\ Goto(w, IF root[w] \in StatusInRoot /\ status[root[w]] \in LooksRunning
               THEN "rewrite" ELSE "unlink")
    /\ UNCHANGED <<root, registry, lockfile, aged, status>>

\* ... and writes back the payload it read; an OSError is ignored.
Rewrite(w) ==
    /\ pc[w] = "rewrite"
    /\ \/ status' = [status EXCEPT ![root[w]] = "INTERRUPTED"]
       \/ UNCHANGED status
    /\ Goto(w, "unlink")
    /\ UNCHANGED <<root, registry, lockfile, aged>>

\* The stale file is unlinked by name, whichever file has that name by now.
Unlink(w) ==
    /\ pc[w] = "unlink"
    /\ lockfile' = [lockfile EXCEPT ![root[w]] = None]
    /\ aged' = [aged EXCEPT ![root[w]] = FALSE]
    /\ Goto(w, "recreate")
    /\ UNCHANGED <<root, registry, status>>

\* The second os.open.
Recreate(w) ==
    /\ pc[w] = "recreate"
    /\ \/ CreateLockFile(w)
       \/ /\ lockfile[root[w]] # None
          /\ Abandon(w)
       \/ IOErrors /\ Abandon(w)

\* The token is written to the open descriptor, then _held is set.
WriteToken(w) ==
    /\ pc[w] = "token"
    /\ \/ /\ Goto(w, "body")
          /\ UNCHANGED <<root, registry, lockfile, aged, status>>
       \/ IOErrors /\ Abandon(w)

-------------------------------------------------------------------------------
\* The guarded body, reduced to its writes of the status file

\* The stage is refused by its prerequisites before it writes a status.
Refuse(w) ==
    /\ pc[w] = "body"
    /\ Goto(w, "release")
    /\ UNCHANGED <<root, registry, lockfile, aged, status>>

StartRun(w) ==
    /\ pc[w] = "body"
    /\ status' = [status EXCEPT ![root[w]] = "RUNNING"]
    /\ Goto(w, "running")
    /\ UNCHANGED <<root, registry, lockfile, aged>>

\* The body completes, stops where it was asked to, fails with a status, or
\* raises without writing one.
FinishRun(w) ==
    /\ pc[w] = "running"
    /\ \/ \E s \in {"DONE", "STOPPED", "FAILED"} :
            status' = [status EXCEPT ![root[w]] = s]
       \/ UNCHANGED status
    /\ Goto(w, "release")
    /\ UNCHANGED <<root, registry, lockfile, aged>>

-------------------------------------------------------------------------------
\* RunLock.release

\* Faulty variant: the registry is cleared before the lock file is removed.
ReadAfterUnregister(w) ==
    /\ pc[w] = "release"
    /\ registry' = [registry EXCEPT ![ProcOf[w]] =
                      [k \in Key |-> IF registry[ProcOf[w]][k] = w THEN None
                                     ELSE registry[ProcOf[w]][k]]]
    /\ Goto(w, IF lockfile[root[w]] = w THEN "remove" ELSE "unregister")
    /\ UNCHANGED <<root, lockfile, aged, status>>

\* _release_file reads the lock file and looks for its own token.
ReadLockFile(w) ==
    /\ pc[w] = "release"
    /\ Goto(w, IF lockfile[root[w]] = w THEN "remove" ELSE "unregister")
    /\ UNCHANGED <<root, registry, lockfile, aged, status>>

\* ... and unlinks it by name; an OSError is swallowed and the file stays.
RemoveLockFile(w) ==
    /\ pc[w] = "remove"
    /\ \/ /\ lockfile' = [lockfile EXCEPT ![root[w]] = None]
          /\ aged' = [aged EXCEPT ![root[w]] = FALSE]
       \/ /\ lockfile' = [lockfile EXCEPT ![root[w]] = Orphaned(@, w)]
          /\ UNCHANGED aged
    /\ Goto(w, "unregister")
    /\ UNCHANGED <<root, registry, status>>

\* _unregister, under _REGISTRY_LOCK: only entries holding w's token go.
Unregister(w) ==
    /\ pc[w] = "unregister"
    /\ registry' = [registry EXCEPT ![ProcOf[w]] =
                      [k \in Key |->
                         IF k \in KeysOf(root[w]) /\ registry[ProcOf[w]][k] = w
                         THEN None ELSE registry[ProcOf[w]][k]]]
    /\ Goto(w, "idle")
    /\ root' = [root EXCEPT ![w] = None]
    /\ UNCHANGED <<lockfile, aged, status>>

-------------------------------------------------------------------------------
\* The environment

\* The lock file outlives the budget (run_stale_budget_seconds).
Age(r) ==
    /\ lockfile[r] # None
    /\ lockfile[r] = Orphan \/ RunsOutlastBudget
    /\ ~aged[r]
    /\ aged' = [aged EXCEPT ![r] = TRUE]
    /\ UNCHANGED <<pc, root, registry, lockfile, status>>

\* The server process dies and is restarted: its memory is empty, its files
\* are as they were.  Nothing looks at them at startup.
Crash(p) ==
    /\ pc' = [w \in Worker |-> IF ProcOf[w] = p THEN "idle" ELSE pc[w]]
    /\ root' = [w \in Worker |-> IF ProcOf[w] = p THEN None ELSE root[w]]
    /\ registry' = [registry EXCEPT ![p] = [k \in Key |-> None]]
    /\ lockfile' = [r \in RunRoot |->
                      IF \E w \in Worker : lockfile[r] = w /\ ProcOf[w] = p
                      THEN Orphan ELSE lockfile[r]]
    /\ UNCHANGED <<aged, status>>

\* DELETE endpoints: <Stage>Service.reset removes the pair's directory, lock
\* file included, without taking the run lock.
Reset(r) ==
    /\ r \in Resettable
    /\ lockfile' = [lockfile EXCEPT ![r] = None]
    /\ aged' = [aged EXCEPT ![r] = FALSE]
    /\ status' = [status EXCEPT ![r] = "none"]
    /\ UNCHANGED <<pc, root, registry>>

-------------------------------------------------------------------------------
Acquire(w) == Create(w) \/ Examine(w) \/ Mark(w) \/ Rewrite(w) \/ Unlink(w)
              \/ Recreate(w) \/ WriteToken(w)
Body(w) == Refuse(w) \/ StartRun(w) \/ FinishRun(w)
Release(w) == ReadLockFile(w) \/ RemoveLockFile(w) \/ Unregister(w)

Step(w) == Acquire(w) \/ Body(w) \/ Release(w)

Next ==
    \/ \E w \in Worker : Step(w)
    \/ \E w \in Worker, r \in RunRoot : Register(w, r) \/ Reject(w, r)
    \/ \E r \in RunRoot : Age(r) \/ Reset(r)
    \/ \E p \in Proc : Crash(p)

Spec == Init /\ [][Next]_vars

\* A thread that has work is scheduled; nobody is obliged to send a request,
\* to crash or to reset.
FairSpec == Spec /\ \A w \in Worker : WF_vars(Step(w))
-------------------------------------------------------------------------------
\* What guarded_run promises inside one process

\* At any moment the live requests of one process work under run directories
\* with different last components: a pair's stages (derived/<stage>/<pair_id>)
\* exclude each other, and so do PREPARE runs of any pair with one
\* configuration id.  It rests on _register testing and setting both keys
\* under _REGISTRY_LOCK and on _unregister deleting only its own entries.
OneRunPerName ==
    \A v, w \in Worker :
        /\ v # w /\ ProcOf[v] = ProcOf[w]
        /\ pc[v] \in Busy /\ pc[w] \in Busy
        => NameOf[root[v]] # NameOf[root[w]]

\* RunGuard implements SingleWriter: a worker writes its root while it is in
\* the guarded body.
Writing == {<<w, root[w]>> : w \in {v \in Worker : pc[v] \in InBody}}
Promise == INSTANCE SingleWriter WITH writing <- Writing

\* Every behaviour of the guard is one that SingleWriter allows.
ImplementsSingleWriter == Promise!Spec

\* With one process on the data directory, the file a run finds under its
\* lock's name until it has unlinked it is its own or, after a reset of the
\* pair, none: release() never deletes the lock of another run.
OneProcess == \A v, w \in Worker : ProcOf[v] = ProcOf[w]
LockFileIsOwn ==
    OneProcess =>
        \A w \in Worker :
            pc[w] \in InBody \cup {"token", "release", "remove"}
                => lockfile[root[w]] \in {w, None}

\* With one process, acquire() judges stale, marks and unlinks only a lock
\* that no living run owns, even when live runs outlast the budget.
TakesOverOnlyDeadLocks ==
    OneProcess =>
        \A w \in Worker :
            pc[w] \in {"examine", "mark", "rewrite", "unlink"}
                => lockfile[root[w]] \in {Orphan, None}

\* With one process, while a body runs its status changes only when it
\* finishes or when its pair is reset: no other run clobbers it and no
\* stale-lock takeover marks it interrupted.
NoClobber ==
    [][OneProcess =>
         \A w \in Worker :
            pc[w] = "running" /\ status'[root[w]] # status[root[w]]
                => \/ pc'[w] = "release" /\ status'[root[w]] # "INTERRUPTED"
                   \/ status'[root[w]] = "none"]_vars

\* A request that entered guarded_run leaves it: no interleaving of lock
\* files, takeovers and resets makes acquire() or release() wait.
EveryAttemptEnds ==
    \A w \in Worker : pc[w] \in Busy ~> pc[w] \in AtRest

-------------------------------------------------------------------------------
\* What the code says and does not do

\* RunLock: a lock file older than the budget is treated as stale "and the
\* new run may proceed": when no request works under the root's name, the
\* registry must not be what refuses the next run.
StaleLockGivesWay ==
    \A r \in RunRoot, p \in Proc :
        /\ lockfile[r] = Orphan /\ aged[r]
        /\ \A w \in Worker :
              pc[w] \in Busy => NameOf[root[w]] # NameOf[r]
        => Free(p, r)
===============================================================================
