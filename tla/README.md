# CHANDRASUTRA in TLA+

TLA+ modules of the CHANDRASUTRA backend (`src/backend/app`) and of the
browser's side of a sign-in (`src/frontend/src`), the TLC configurations that
check them on small instances, and proofs that the TLA+ proof system checks for
all values of the constants. Paths below are relative to `src/backend/app`
unless they start with another directory.

Run `tlc -config X.cfg MCModule` to check a configuration and
`tlapm ModuleProofs.tla` to check the proofs of a module.

## 1. The system

CHANDRASUTRA registers pairs of lunar images. A FastAPI backend keeps
everything in one data directory; a React frontend and a few scripts call it.
The backend is one uvicorn process whose synchronous endpoints run in a thread
pool; `scripts/measure_performance.py` drives the same services from a second
process. Accounts and sessions are in a SQLite database, everything else is in
files.

### Inventory

| Component | State | Operations | Hard behaviour | What makes it correct |
|---|---|---|---|---|
| run guard (`hardening.py`, `run_guard.py`) | `_IN_PROCESS` per process, `.run.lock` and status files per directory | acquire, release, takeover of a stale lock, `mark_run_interrupted` | threads, processes, crashes, I/O errors and unguarded resets between any two system calls | one run per name and process, own lock only, no run clobbered, every attempt ends |
| sessions (`auth/service.py`) | `refresh_sessions`, `users.password_hash`, failure buckets and lockouts in memory | login, refresh, logout, change_password, cleanup | read-then-update on separate connections, requests in flight over a password change or a lockout, restarts | a rotated session stays dead, bounded leaks |
| accounts (`auth/service.py`, `state.py`) | `users`, lazily built `AppState.auth` | bootstrap, register, patch_user | count and write on separate connections, stale rows written back | the last active administrator goes only where PATCHes overlap; requests write what they name |
| web client (`src/frontend/src/api.js`, `auth.jsx`) | access token, shared `refreshPromise`, the view's status, the refresh cookie | call, refresh and replay, sign in and out, bootstrap | calls that expire together, late and lost answers | a user stays signed in; every call ends |
| pair registry (`pairs.py`, `api/pairs.py`) | `pairs.json`, `pairs.csv` | register, auto-register, validate, recompute overlap, save | unlocked read-modify-write, one temporary name | one record per id, no lost pair |
| PREPARE (`processing/`) | `derived/processing/<pair>/<config>` | prepare with `stop_after`, reset | overwrites products one by one, shares a lock key among all pairs, exceptions outside any handler | a ready status means whole inputs; every run reports |
| MATCH and M8 (`matching/`) | `derived/matches/<pair>` | run, reset | crash or failure in the middle of a rerun over old files | COMPLETE means own results |
| TRUST (`trust/`) | `derived/trust/<pair>` | run, reset | timeout, vanished artifacts, status before verdicts | a verdict per tile, true of its candidates |
| SPATIAL (`spatial/`) | `derived/spatial/<pair>` | run, reset | stale verdicts, old selection files, lookup of the match run | COMPLETE means own results; the selected region and its cap |
| REGISTRATION (`registration/`) | `derived/registration/<pair>` | run, reset | reads several files of SPATIAL one after another, writes provenance after COMPLETE | evidence of one selection |
| METRICS (`metrics/`) | `derived/metrics/<pair>` | run, reset | reads the current files of all stages, twice | COMPLETE means own results |
| conditions, routing, baseline and deep matching (`conditions/`, `routing/`, `matching/baseline.py`, `matching/deep/`) | one JSON file per run | run, decide, execute with a fallback | dispatch of several runs, a crash between them and the record | an execution is recorded once and ends |
| trust gate, M8 spatial, M9 registration (`trust_gate/`, `spatial_m8/`, `registration_m9/`) | one JSON file per run | run over a named or a default input | many runs of one second, a pair's record replaced meanwhile | a result rests on one accepted chain, real data on real data |
| final evidence (`m12/`) | `data/final_evidence/<experiment>` | build, freeze, verify | rebuilt in place, without a lock, while stages write | a package that verifies is of one build |
| AI assistant (`ai/`) | session store in memory | resolve, record, prune, execute with one retry | threads, eviction | isolation of pairs, bounded store |
| benchmark metrics (`metrics_m10/`), HTTP layer (`main.py`, `middleware.py`, `ops.py`), configuration, loader, numeric kernels, scripts | none or their own artifact | - | - | - |

Components interact through files (a stage reads the directories of the stages
before it and checks a few status fields), through the run guard, which all run
endpoints pass (`guard_run(derived/<stage>/<pair_id>)`, PREPARE
`guarded_run(derived/processing/<pair>/<config>)`), and through the account
table, which every request reads. Reset endpoints pass no guard; neither do the
pair registry and the final evidence. The routed chain (conditions to M9) finds
its input by listing the runs of an earlier service, newest first.

## 2. Modules

| Module | Models | Extends or instantiates |
|---|---|---|
| `SingleWriter` | abstract: at most one writer per directory | |
| `RunGuard` | `RunLock`, `guarded_run`, `guard_run` | `SingleWriter` as `Promise` |
| `AuthSessions` | sign-in, refresh rotation, sign-out, password change | |
| `UserAdmin` | bootstrap, registration, patch_user | |
| `WebClient` | the browser's calls, refresh, sign-in and bootstrap | |
| `PairRegistry` | requests over `pairs.json` | |
| `Prepare` | PREPARE and its lock | |
| `RunFiles` | the files of one pair, runs, resets, crashes | |
| `MatchStage`, `TrustStage`, `SpatialStage`, `RegistrationStage`, `MetricsStage` | one stage each | `RunFiles` |
| `Pipeline` | the stages and M8 composed, and their properties | the stage modules |
| `SpatialReliability` | what one SPATIAL run computes | |
| `BalancedSelection` | M7's counts, M8's recovery and selection over one list | |
| `RoutingPolicy` | the router's view, predicates, rules and decision | |
| `RoutedRuns` | the run histories of one pair and the world around them | `RoutingPolicy` |
| `RoutedMatching` | conditions, routing and its execution, matching | `RoutedRuns` |
| `RoutedVerdicts` | trust gate, M8 spatial, M9 registration | `RoutedMatching` |
| `RoutedChain` | the routed chain composed, and its properties | `RoutedVerdicts` |
| `FinalEvidence` | build, freeze and verification of a package | |
| `RunGuardProofs`, `PairRegistryProofs`, `PrepareProofs`, `PipelineProofs`, `RoutedChainProofs`, `FinalEvidenceProofs` | proofs | the module, theorems of the library, `TLAPS` |
| `AuthProofs` | proofs about sessions, web client and accounts | `AuthSessions`, `WebClient`, `UserAdmin`, theorems of the library, `TLAPS` |
| `SelectionsProofs` | proofs about both selections | `SpatialReliability`, `BalancedSelection`, theorems of the library, `TLAPS` |
| `MC...` | instances for TLC | the modules named |

### RunGuard

A worker's `pc` follows `RunLock.acquire` (register, create, examine, mark,
rewrite, unlink, recreate, token), the guarded body and `release` (release,
remove, unregister), one system call or critical section per action. A uuid
token is the worker that runs the `RunLock`; when the object is gone without
having released (an exception inside `acquire`, a crash) its traces become
`Orphan`. `aged` says that a lock file is older than the budget, `Age` makes it
so. `Reset` is the reset endpoint of a stage, without the lock. After `Reset`
has removed the directory itself, the model's `Recreate` may still succeed: an
over-approximation. With `RunsOutlastBudget` a live run may be older than the
budget; with `IOErrors` file operations may fail.

`SingleWriter` has one variable, the set of workers writing and where.
`ImplementsSingleWriter` maps it to the workers in the guarded body and their
roots, inside one process.

### AuthSessions

Every row of `refresh_sessions` is an element of `session`, numbered by
creation. `parent` and `basis` record history that the table does not have:
which row a rotation presented and which password the request had been checked
against. Requests are split where the code opens another connection or leaves a
transaction. Expired and revoked rows, and failures that fall out of the window,
change by actions of their own (`Expire`, `WindowSlides`, `LockoutEnds`) because
the code compares times. Access tokens and the audit log
are left out: nothing in these operations reads them.

### UserAdmin

`account` is the `users` table reduced to role and is_active, `root` the
bootstrap administrator in the settings of this process: one of `Bootstrap`, or
`Null` when the user name or the password is blank, and then `_bootstrap_admin`
returns early and an empty table stays empty. `Build`, `CountUsers` and
`InsertRoot` are `AppState.auth` and `_bootstrap_admin`; `Register` and
`InsertUser` are `register`; `Patch`, `ReadTarget`, `CountAdmins` and
`WriteAccount` are `patch_user`, in any number of threads at once. `AdminThread`
bounds the threads that serve administrators. `changed` is history: for a
request that is about to write, the accounts it has read or counted and that
another `UPDATE` has written to since (`Overtakes`).

### WebClient

A script runs one callback at a time, so a step is one answer, click or timeout
with all that follows from it. `call` holds the calls of the pages and the one
of `signIn` and `signOut` (`Sent`, `Refused`, `Resumed`: `authFetch`), `refresh`
who has started `refreshSession`, `refreshPromise` the one that all wait for.
The backend is what `AuthSessions` does, as far as a browser can tell: `live`
sessions and a refresh that replaces the one it is given. A sign-in goes through
`authFetch` too: with an older token in hand its own 401 refreshes and sends it
again (`Refreshable`), and only then it fails (`LoginFailed`). A session that
neither the cookie nor a refresh holds is forgotten and its name used again.
`excuse` records why a sign-in may be lost: sign-out, the end of the session, a
refresh without an answer, or one of an earlier sign-in that was under way.

### PairRegistry

Files are inodes, because all writers open the same `pairs.json.tmp`: `Open`
truncates the inode that the name stands for, `Write` writes the one it has
open, `Replace` renames whatever has the name by then. A document is the records
or `Torn`, which `list` reads as empty, as the code does. A request is the read
that settles the id or the record, the work that may raise, and `save`, which
lists again. `overlapped` records that two requests were in progress at once.
`pairs.csv`, a copy that nothing reads, and the geometry are left out.

### Prepare

One action per write of `_prepare_main`, in its order, with the ends `blocker`,
`_fail`, `_finish_stop` and the exceptions that no handler catches. Those give
the locks back and leave the status as it was (`Raise`; `raised` is the history of
the runs that ended so): `finish_step` hashes a file that a reset has deleted or a
status cannot be written (`FinishStage`), a product cannot be read again
(`Preprocess`; `ProductReadError` is neither an `OSError` nor a `ValueError`),
the geometry is refused (`PrepareOverlap`: `resolve_geometry` and
`compute_overlap` are in no `try`), or one of the writes outside any handler
fails (`DiskFails`). A file is the number of the run that wrote it. `registry` and `lock` are the guard as
PREPARE meets it: one key for all pairs, since the directories all end in the
configuration id, and a lock file that a dead run leaves. What images and masks
contain decides by choice whether a run goes on.

### RunFiles, the stages and Pipeline

`disk` maps each file to the run that wrote it and to the part of its content
that another stage reads. Only files that some stage reads are there: manifests,
images and statistics are not. A stage starts with `Begin` (RUNNING first),
works with one action per file access or decision, and ends with a list
of writes that `WriteNext` performs one by one, so that crashes and deletions
fall between any two of them.

- At most one run of a pair is in progress. This is what `RunGuard` shows: all
  stages lock `derived/<stage>/<pair_id>`, whose last component is the pair, and
  `OneRunPerName` holds for names. It assumes one server process.
- `Reset`, `Delete` and `EndReset` are `shutil.rmtree(ignore_errors=True)`: the
  files go one by one in any order, some may stay, and runs go on meanwhile.
- `Crash` stops the run and the resets; files stay as they are.
- What candidates are worth (`Quality`) is chosen when MATCH writes them; later
  evaluations are deterministic, since the trust engine seeds its RANSAC.
- Whether SPATIAL selects a region, and whether a fit succeeds, are choices
  here; how SPATIAL selects is `SpatialReliability`. The `.npz` of selected
  correspondences is written if there are any (`Selectable`). A region that was
  selected has some: each of its cells holds at least
  `min_verified_inliers_per_cell` inliers, which `configs/app.yaml` sets to 4.
- `NamesTiles` says whether a tile's candidate file names the PREPARE tiles it
  was matched from. `FALSE` is what MATCH writes, and then no tile is mapped;
  `TRUE` is what the tests of the stage prepare. The run has both.
- REGISTRATION writes its provenance after COMPLETE, of the files that are there
  then (`WriteNaming`). METRICS asks for it, measures what is there (`Collect`)
  and hashes it a second time (`Identify`).
- Left out: I/O errors other than missing files, and changes of configuration
  ids between runs.

### SpatialReliability and BalancedSelection

One run's computation on data; each turn of a loop is a step. `SpatialReliability`
takes the trusted tiles' candidates (finite or not, inlier or not, the cells the
two sides map to) tile by tile (`UseTile`, `FailTile`, `RunLate`), with the index
by which the code looks up an inlier's cell; then to reliable cells (`Aggregate`);
through the flood fill of `_label_components` (`StartComponent`, `Visit` for each
cell that is popped, `FinishComponent`, `EndLabels`) and the loop of
`plan_selection` (`TakeComponent`); and to cap and reasons (`Decide`). The fill's
stack is a set: any cell may be popped, which includes the last. Between two
components of equal size and evidence the code compares their numbers as strings
("C10" before "C2"); the model takes either.

`BalancedSelection` takes a list of correspondences, in which a mapping may come
twice, through M7's counts (`Verify`; `Decisions` are the answers the counts
leave open: a point that is no number, a list beyond the cap, a degenerate model,
residuals and spread refuse for reasons that are not counts), M8's recovery, which finds the inliers
again by their places (`Recover`), and `select_balanced`: the cases without a
loop (`Select`), the guaranteed minimum of each cell (`TakeLeast`, `EndLeast`)
and the rounds (`TakeOneMore`, `NextRound`, `Finish`). The state keeps how many
of a cell's list are taken; which ones is `FirstOf`, the first of the cell by
residual and place.

### The routed chain

Each service keeps its runs as files that are never overwritten; a history is a
sequence in the order in which `list_runs` answers it. Two runs of one second
may come in either order, because the tie is broken by a random file name:
`With` inserts a run at any place its second allows. A guarded run is one
action, since no other guarded run of the pair starts meanwhile; the execution
of a routing decision is several (`ExecuteBegin`, `Dispatch`, `DispatchRaises`,
`RecordExecution`), between which the server may die and PREPARE, which has
another lock, may replace the products. What a matcher finds, whether an engine
accepts, finds frames that do not belong together or raises, and what an analysis
says are choices; which run a stage builds on, its
gates and its marks are as in the code. (M9's gate compares the pair's
`data_source_gate` only; `PATH_A_REAL_DATA` says that both products are real,
`pairs.py:268-279`, so that one mark of the record stands for gate and class.)
`RoutingPolicy` is the router itself: the view of a condition profile, the ten
predicates, the rules and the decision, with the capability probe of the deep
matcher as its other input. The rules are those of `configs/app.yaml` or, in
`Overrides`, some that a request brings (`rules_override`); a router that raises
leaves a FAILED run without a decision (`RoutingFailed`). `ReplaceRecord` is what `PairRegistry` shows
possible: a second registration replaces the record, and with it whether the
pair is real data.

### FinalEvidence

A build is `build_full_provenance` (`Trace`), the rmtree (`Clear`), the documents
and copies (`WriteDoc`, `Copy`, `Scan`), the list of hashes and the freeze
(`Hash`, `WriteManifest`, `HashManifest`, `WriteDigest`), one file per action;
verification follows `verify_frozen` check by check. `rmtree` ignores errors:
`LeaveBehind` is the file it could not unlink, and the build goes on. A listed
file that is gone is passed over by `Hash`, or raises if it goes between the look
and the read. A hash is the version of the content. `traced`, `disturbed` and
`seenWhole` are history: what the provenance names, which builds overlapped or
began in a directory with files left in it, whether the package was whole at some
moment of the verification.

## 3. Runs

Passing runs:

| Run | Instance | Shows |
|---|---|---|
| `run_guard` | one process, three threads, two PREPARE directories with the same last component, I/O errors, runs older than the budget, resets | `OneRunPerName`, `LockFileIsOwn`, `TakesOverOnlyDeadLocks`, `NoClobber`, `EveryAttemptEnds`, refinement of `SingleWriter` |
| `accounts`, sessions | two threads, one account, four sessions, one password change, two failures to a lockout | `TypeOK`, `RotationRevokesParent`, `SuccessorsBounded`, `StaleIssuesBounded`, `GuessesPerLockout` |
| `accounts`, accounts | two user names, two threads, both of which serve administrators | `LastAdminGoesByARace`, `WritesOnlyWhatItWasAsked`, `RegistrationKeepsAccounts` |
| `web_client` | two calls beside sign-in and sign-out, five sessions, one lost refresh | `OneSharedRefresh`, `StaysSignedIn`, `EveryCallEnds` |
| `pair_registry` | two threads, two pairs of products, two ids, three requests | `OneRecordPerId`, `GrantedPairsStay`, `OneRecordPerWrite` |
| `prepare` | two pairs, two runs, one reset, one crash, exceptions anywhere | `ReadyIsWhole`, `EndedHasItsManifest`, `PrepareReports` |
| `pipeline` | two tiles, four budgets of runs, one reset, crashes | `CompleteIsWhole`, `EvidenceIsOneSelection`, `VerdictsStand`, `VerdictPerTile` |
| `selections` | a grid of two rows and four columns, two tiles of up to three candidates of seven kinds; lists of up to six of seven mappings | `SelectedInRegion`, `CapKeepsTheFirst`, `LabelsAreComponents`, `SelectsBestRoundTheCells` |
| `routed_execution` | two profiles, both answers of the probe, the configured rules and one of a request, two routings, three matcher runs, a trust run, a PREPARE, a crash | `FinalRouteStands`, `ExecutionsShareNoRun`, `HistoryStands`, `ExecutionEnds` |
| `routed_results` | two seconds, two matcher runs, two trust runs, one spatial run, one registration, one replaced record | `RegisteredFromOneChain`, `RealFromReal`, `DefaultsAreNewest` |
| `final_evidence` | two builds, a document, an artifact of two versions, a crash, unlinks that fail, verifications | `FrozenIsOneBuild`, `VerifiedWasWhole` |

A behaviour of `accounts` looks at one of its two modules, while the other rests
(`part` in `MCAccounts`); so do those of `selections`.

Two runs find what comments say and the code does not do:

- `stale_lock` refutes `StaleLockGivesWay`. A retry that comes before a crashed
  run's lock file is stale is refused and leaks its registry entry, so that no
  later run of the process can take the stale lock over. For PREPARE, whose
  directories share their last component, that shuts out every pair (`Refuse` in
  `Prepare`).
- `last_admin` refutes `LastActiveAdmin`. Two PATCHes, each against the other
  one's administrator, both count two active administrators before either writes;
  both are let through and nobody can administer the service.
  `LastAdminGoesByARace` says what is left of the promise: a PATCH that no other
  `UPDATE` overtakes never takes the last administrator away.

### Bounds

- `run_guard`: three threads are enough, one in the body, one between judgement
  and unlink, one that arrives. Two directories with one name are the smallest
  case in which the two registry keys differ.
- `accounts`, sessions: two threads make every read-then-write race; four rows
  allow a rotation, its race and a successor of the successor. `TypeOK` and the
  four properties are proved for any number.
- `accounts`, accounts, and `last_admin`: two administrators and two threads that
  serve them are the smallest case in which both are demoted, in which an account
  is written back as it was, and in which a registration meets the bootstrap. The
  three properties are proved for any number, and also for settings that name no
  bootstrap administrator, which the instance does name.
- `web_client`: two calls share a refresh or come one after the other. Five
  sessions are as many as cookie, refreshes and a new one need at once; they are
  used again, so that expiries are not bounded. `MaxLosses` bounds lost answers.
- `pair_registry`: two threads with two requests each way make every overlap of
  two saves; `MaxId` 2 makes ids collide or not; a third request comes after.
- `prepare`: a run over the files of another, of the same pair or of the other;
  a crash, a reset or an exception anywhere in either.
- `pipeline`: two tiles separate "some" from "all" and a slice from its
  neighbour. `Budgets` allows a second SPATIAL run before or after REGISTRATION,
  MATCH and TRUST twice, a deep matching run before SPATIAL, or METRICS twice:
  each property is about a second run over the files of a first. A reset may
  leave any subset of the files, so that a second reset adds little. "bad"
  candidates, which TRUST rejects as it does "weak" ones, are left out.
- `selections`: the cells the candidates name are two diagonal neighbours and one
  apart, so that connectivity 8 makes one component of two cells and one of one;
  three candidates have an outlier between two inliers; six correspondences
  (three mappings of one cell, two of another, one of a third) have a repeated
  mapping, more inliers than `max_selected`, and a budget that ends in the middle
  of a round. The four properties are proved for any grid, lists and
  thresholds.
- `routed_execution`: `max_fallback_attempts` 1 as configured; a rule of a request
  that looks at no condition and has no fallback, unlike the configured ones that
  name a matcher; three matcher runs allow an execution that a crash leaves
  unrecorded and another one.
- `routed_results`: `MaxClock` 1 gives runs of one second, in either order, and
  of two; the record is replaced anywhere in the chain. `DeepProbe` and the
  profiles do not matter there.
- `final_evidence`: one document and one artifact stand for those of their kind;
  two builds overlap or follow each other, and any of the package's files may
  resist the removal; two versions make a copy differ from what the provenance
  names.

`CHECK_DEADLOCK FALSE` in the runs with bounded requests: when nobody makes one
any more the backend rests.

### Fairness

- `run_guard`: weak fairness of `Step(w)` of each worker, that is, a thread that
  has work is scheduled by the operating system.
- `prepare`: weak fairness of each pair's `Step`: an admitted run goes on.
- `routed_execution`: weak fairness of `Dispatch` and `RecordExecution`: the
  execution runs in its request's thread.
- `web_client`: weak fairness of every answer: calls have a timeout of 60 s;
  that refreshes are answered is assumed of the backend, since `refreshSession`
  has no timeout.

No fairness is assumed of arriving requests, the clock, resets, losses or
crashes.

## 4. Proofs

All are checked by `tlapm` for every value of the constants, without assumptions
beyond the named `ASSUME`s of the modules. These give the constants their types
(bounds are natural numbers, no tile is listed twice, the routing rules are valid)
and, where a proof needs it, say what the code has by construction: finitely many
threads (sessions, pair registry), nonempty lists of documents and artifacts whose
names differ from those of the package's own files (final evidence).

Every safety property that a run checks is proved. None is inductive as it
stands; each component has an invariant that is, which TLC checked on the
instance of the component's run before it was proved. Type invariants are part of
it; of them a run checks `TypeOK` of the sessions, which bounds the failures that fit
in a bucket, again:

- `RunGuardProofs`. `TypeOK`; `OneRunPerName` in any deployment, from the
  invariant that a busy worker owns both keys of its directory in its process's
  registry; `ImplementsSingleWriter` from it, step by step; `LockFileIsOwn`,
  `TakesOverOnlyDeadLocks` and `NoClobber` for one process (`OneProcess` is a
  premise in the property), from `LockInv`, which says whose token a lock file
  may hold in each place of `acquire` and `release`.
- `AuthProofs`, for the three modules of a sign-in. `SessionInv` conjoins the types
  with what is known of rows (a row with a parent has a dead one) and of requests
  in each place; from it `RotationRevokesParent`, and with cardinality lemmas the
  three bounds. The bounds count rows and requests together, since a request
  about to insert is a row to come: this is the strengthening that makes them
  inductive. `ClientInv` gives `OneSharedRefresh` and, as an action property,
  `StaysSignedIn`, for any pages and sessions: as long as there is no excuse, a
  browser that is signed in holds a cookie whose session is live, or the shared
  refresh has been answered with one that is (`SessionIsKept`); that nobody else
  may present the cookie meanwhile is what one shared refresh is for.
  `AdminTypeOK`, `RegistrationKeepsAccounts`, `LastAdminGoesByARace` and
  `WritesOnlyWhatItWasAsked` are proved for any accounts and any number of
  threads. Their invariant says of a request on its way to the `UPDATE` that the
  row it has read is the row in the table, unless another request has written to
  it meanwhile (`SeenRow`), and that what it is about to write `LeavesAnAdmin`,
  unless it was overtaken (`SeenCount`).
- `PairRegistryProofs`. `OneRecordPerId`, `GrantedPairsStay` and, as an action
  property, `OneRecordPerWrite`. `RegistryInv`: one record per id not only in
  `pairs.json` but in every inode and in every list that a thread is about to
  write, since a rename can publish any of them; the registry is never the inode
  that the next save truncates; and without an overlap the request in progress
  still knows the registry it has read. That `MAX + 1` is a new id, and that
  there is a free inode, are lemmas on finite sets of numbers.
- `PrepareProofs`. `ReadyIsWhole` and `EndedHasItsManifest`. `PrepareInv` says
  for each label of a run which files it has written (`Written`), that the run
  in progress is the last that was admitted, and that nothing names a later one;
  the one lock key of all pairs makes this possible.
- `PipelineProofs`. `CompleteIsWhole`, `EvidenceIsOneSelection`, `VerdictsStand`
  and `VerdictPerTile`, for any tiles and budgets. What is needed beyond them is
  what a run's remaining writes are: `FollowsPlan` says that `todo` is the end
  of one of the plans with which the stage's code ends, and that what came
  before it is on disk unless a reset took it. Each stage adds what its run knows:
  TRUST how many tiles it has judged (`TrustProgress`) and that its verdicts are
  true of the candidates there are (`VerdictsOfRunStand`), REGISTRATION that
  what there is of SPATIAL's files is of one run (`OfOneRun`). `MatchFrame`,
  `SpatialFrame` and the like show once which files a step of one stage leaves
  alone, so that each step is looked at for its own stage.
- `RoutedChainProofs`. `FinalRouteStands`, `ExecutionsShareNoRun`,
  `RegisteredFromOneChain`, `RealFromReal`, `DefaultsAreNewest`, and the action
  property `HistoryStands`, for any bounds and any answers of matchers and
  engines and any rules that a request brings. `ChainInv` says of every row of a history that the runs it names
  exist and had the outcome, the state and the synthetic mark that its gate saw,
  and of the execution in progress how far it has come. Since rows are never
  changed but for one execution record, it is enough to look at a new row; the
  lemmas on `InsertAt` show that a row may land anywhere among those of its
  second.
- `FinalEvidenceProofs`. `FrozenIsOneBuild` and `VerifiedWasWhole`, for any
  number of requests, documents, artifacts, crashes and stage runs, and whatever
  an rmtree leaves; the excuse of both properties, `disturbed`, is the overlap of
  builds and the files left.
  `EvidenceInv` follows an undisturbed build (`Progress`: the package holds what
  it has written and nothing else), a manifest (`ListsItsOwn`) and a frozen
  package: whoever removes it has yet to remove the digest (`Remains`), so that a
  verification that saw no whole package has a missing file still before it
  (`WillBeMissed`).
- `SelectionsProofs`. What the code does by sorting, slicing and a stack is stated
  without recursion, as sets, ranks and loops, so that it can be proved of any
  data. `SpatialInv` gives `SelectedInRegion`, `CapKeepsTheFirst` and
  `LabelsAreComponents`. Its part `FillOK` says of the fill in progress that a
  visited cell's neighbours are all marked, that what is marked is connected
  within one component, and that it meets no component found before;
  `LabelsAreComponents` defines components the other way round, as the least
  closed sets, and `ConnectedSame` shows that these partition the cells. Caps
  rest on `FirstN`: of a finite set under a strict order the elements with rank
  less than n are n, or all (`Ranks`: ranks are a bijection with
  `0 .. Cardinality - 1`). `M8Inv` gives `SelectsBestRoundTheCells`: what is
  taken and the budget that is left add up to the limit (`BudgetOK`), and in a
  round no cell has had more than one turn more than another that has any left
  (`RoundsOK`); when the loop ends with budget left, nobody has.

Only model-checked:

- the liveness properties (`EveryAttemptEnds`, `PrepareReports`, `ExecutionEnds`,
  `EveryCallEnds`), which are out of the proof system's reach;
- the refutations, each of which is about one behaviour.

Every invariant and every action property of a passing run is proved.

## 5. Divergences

What the code does and its documents do not say, seen while it was modelled.
The models have all of it. Two are runs that refute what is said (section 3);
the other properties are stated so that they hold.

- A retry that meets the young lock of a crashed run leaks its registry entry
  (`hardening.py:322`); `RunLock`'s docstring says that an old lock gives way
  (`hardening.py:226-229`). Run `stale_lock`.
- Two servers on one data directory hold one run root at the same time: a stale
  lock is unlinked by name (`hardening.py:276`), after another server has put
  its own there. `guarded_run` promises exclusion "cross-process via the on-disk
  lock file" (`hardening.py:463-465`).
- `mark_run_interrupted` looks for status files in the locked directory
  (`hardening.py:401`), while `guard_run` locks the directory above them: after
  a takeover the crashed run stays RUNNING.
- Rotation is not "replay-safe" (`auth/service.py:397`): two requests with one
  refresh token both get a successor (`auth/service.py:430`).
- Two administrators' requests that overlap can leave no active administrator
  (`auth/service.py:632`); the comment below it and `reports/M10_REPORT.md:108`
  say never. Run `last_admin`. In the same way a PATCH writes back a column that
  another has changed since it read the row (`auth/service.py:648`).
- SPATIAL uses verdicts made from candidates that MATCH has since written again
  (`spatial/service.py:364`), and the provenance notes "Only trusted tiles feed
  M5." (`registration/provenance.py:97`).
- With a deep matching run of the pair, SPATIAL takes its directory for the
  match run and is blocked (`spatial/service.py:77`).
- SPATIAL maps tiles by fields that MATCH never writes (`spatial/mapping.py:103`),
  so that no tile is mapped and the run is COMPLETE all the same.
  `reports/M5_REPORT.md:98-99` asks for a mapped pair of tiles.
- `reports/M5_REPORT.md:87-90` says that the selected region is verified again
  after the cap; `spatial/selection.py` does not.
- After a crash between COMPLETE and the provenance (`registration/service.py:404`)
  METRICS accepts the provenance of an earlier run. Provenance also hashes the
  TRUST and MATCH runs of the moment, not those SPATIAL has used.
- Two registrations that overlap get one id and the second replaces the first
  (`api/pairs.py:209-212`, "deterministic, stable, unique Pair ID"); two saves
  that overlap lose a record or fail on the temporary name (`pairs.py:242`).
- PREPARE runs of different pairs exclude each other, since their directories
  share the configuration id. `_fail` writes no manifest
  (`processing/service.py:609`), although `processing/manifest.py:3` says that
  every PREPARE run produces one.
- A PREPARE run may end and leave READING: a `ProductReadError` (`loader.py:74`)
  passes the handler at `processing/service.py:328`, and `resolve_geometry` and
  `compute_overlap` (`:373`, `:384`) are called in no `try`. The caller gets the
  exception, a reader of the status waits.
- Without the deep matcher a decision may name one matcher as primary and as
  fallback, and the execution runs it twice (`routing/service.py:447-456`);
  the artifact's `next_actions` announces a de-duplicated plan
  (`executable_match_ids`), which the execution does not follow. `fallback_used` is
  set by a reason to fall back, also if there was no fallback.
- M9 warps the image that PREPARE lists now (`registration_m9/service.py:585`)
  by a matrix fitted to the plane that was matched.
- Two builds of one experiment that overlap mix in one directory
  (`m12/package.py:107`). An artifact's copy that rmtree could not unlink
  (`m12/package.py:110`) is not copied again (`m12/package.py:85`) and stays, of an
  older version, in a package that verifies; a digest that stays is listed in the
  manifest and then rewritten, so that the package does not verify.
- A reload always ends at the sign-in screen: the bootstrap looks for
  `access_token` in the token itself (`src/frontend/src/auth.jsx:46`), against
  the comment above it. `refreshSession` has no timeout, which
  `src/frontend/src/api.js:23-25` promises of all calls.

## 6. Not modelled

- AI assistant. No answer carries a `session_id`, so no client can name a
  session and every request gets a fresh one. What is left is straight-line work
  of one request with one retry. The races of its unlocked store end in an error
  or in a few more entries, which nothing reads.
- Configuration (`config.py`) and product loading (`loader.py`): parsing and
  validation, sequential and without state. A model would be the text again.
- HTTP layer and operations: per request, without shared state.
- Numeric kernels (condition metrics, matchers, geometry, warps, validation):
  floating point computation. Their outcomes are choices in the stages.
- Benchmark metrics (`metrics_m10/`) and the report texts of `m12/`: aggregation
  and wording over finished runs.
- Panels and pages of the frontend: views of single answers. Scripts: drivers of
  the services.
- Within modelled components: the run event ring, request ids and `TimeBudget`
  of `hardening.py`, role checks of single endpoints, `pairs.csv`, manifests
  (but PREPARE's), previews, statistics, coverage analysis.

These parts are the larger share of the repository's lines, which is why the
definitions cover about a sixth of them.

## 7. Plan

The modules are complete as far as the above goes, and no safety property that a
run checks is left without a theorem. What would say more about the system next:

- two server processes in the pipeline (`Pipeline` takes the guard's exclusion
  within one process as given, section 2);
- the AI session store, should its answers ever carry a `session_id`.
