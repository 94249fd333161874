------------------------------ MODULE RoutedRuns ------------------------------
(***************************************************************************)
(* The run histories of one image pair that the services conditions,       *)
(* routing, matching (baseline and deep), trust_gate, spatial_m8 and       *)
(* registration_m9 keep: every run is one JSON file, never overwritten,    *)
(* and a later stage finds its input by listing an earlier stage's files.  *)
(*                                                                         *)
(* A history is a sequence in the order list_runs answers it: newest       *)
(* second first, and within one second by file name, so that a new run may *)
(* land anywhere among those of its second.  A run's id is its rank in     *)
(* time; the program draws it at random and compares no two.               *)
(***************************************************************************)
EXTENDS RoutingPolicy, FiniteSets, SequencesExt

CONSTANTS
    MaxClock,           \* bound: seconds
    MaxPrepares,        \* bound: PREPARE runs of the pair
    MaxConditions, MaxRoutings, MaxMatches,  \* bounds: runs of each service
    MaxTrusts, MaxSpatials, MaxRegistrations,
    MaxCrashes,         \* bound: deaths of the server process
    MaxReplacements,    \* bound: replacements of the pair's record
    max_fallback_attempts   \* routing configuration: dispatches after the first

ASSUME BoundsAssumption ==
    {MaxClock, MaxPrepares, MaxConditions, MaxRoutings, MaxMatches, MaxTrusts,
     MaxSpatials, MaxRegistrations, MaxCrashes, MaxReplacements,
     max_fallback_attempts} \subseteq Nat

VARIABLES
    clock,          \* the second
    real,           \* whether the registered pair is PATH_A_REAL_DATA
    replaced,       \* how often the pair's record was replaced
    m2,             \* M2: ready for matching, after how many PREPARE runs
    conditions, routings, matches, trusts, spatials, registrations,
    job,            \* the execution of a routing decision in progress, or NoJob
    crashes

history == <<conditions, routings, matches, trusts, spatials, registrations>>
world == <<clock, real, replaced, m2, crashes>>
vars == <<world, history, job>>

NoRun == 0
NoRuns == [by \in {} |-> NoRun]
NoJob == [routing |-> NoRun, current |-> NoMatcher, tried |-> <<>>,
          runs |-> NoRuns, reason |-> FALSE]
NotExecuted == [tried |-> <<>>, runs |-> NoRuns, fallback_used |-> FALSE]

Init ==
    /\ clock = 0 /\ crashes = 0 /\ replaced = 0
    /\ real \in BOOLEAN
    /\ m2 = [ready |-> FALSE, version |-> 0]
    /\ conditions = <<>> /\ routings = <<>> /\ matches = <<>>
    /\ trusts = <<>> /\ spatials = <<>> /\ registrations = <<>>
    /\ job = NoJob

-------------------------------------------------------------------------------
\* Histories

NewId(runs) == Len(runs) + 1

\* Mutant: the oldest first, a forgotten reverse=True.
MayPrecedeIfOlder(r, s) == r.at <= s.at

\* The baseline service's list comes before the deep service's.
MayPrecede(r, s) ==
    \/ r.at > s.at
    \/ r.at = s.at /\ ("by" \in DOMAIN r => ~ (r.by \in Deep /\ s.by \in Classical))

\* The histories that may result from writing the run row.
With(runs, row) ==
    {InsertAt(runs, i, row) : i \in {i \in 1 .. Len(runs) + 1 :
        /\ \A j \in 1 .. i - 1 : MayPrecede(runs[j], row)
        /\ \A j \in i .. Len(runs) : MayPrecede(row, runs[j])}}

Exists(runs, id) == \E i \in DOMAIN runs : runs[i].id = id
Get(runs, id) == runs[CHOOSE i \in DOMAIN runs : runs[i].id = id]

\* Of the runs at these places, the id of the one listed first, or NoRun.
latest(runs, places) ==
    IF places = {} THEN NoRun
    ELSE runs[CHOOSE i \in places : \A j \in places : i <= j].id

-------------------------------------------------------------------------------
\* The world around the guarded runs

Tick ==
    /\ clock < MaxClock
    /\ clock' = clock + 1
    /\ UNCHANGED <<real, replaced, m2, crashes, history, job>>

\* PREPARE is not among the runs that guard_run serializes: it replaces the
\* products of the pair, or leaves the pair without them, at any moment.
Prepare ==
    /\ m2.version < MaxPrepares
    /\ \E ready \in BOOLEAN :
          m2' = [ready |-> ready, version |-> m2.version + 1]
    /\ UNCHANGED <<clock, real, replaced, crashes, history, job>>

\* A concurrent registration may be given the same pair id and replace the
\* record (PairRegistry).
ReplaceRecord ==
    /\ replaced < MaxReplacements
    /\ real' = ~ real /\ replaced' = replaced + 1
    /\ UNCHANGED <<clock, m2, crashes, history, job>>

\* The server process dies: what was written stays.
Crash ==
    /\ job # NoJob /\ crashes < MaxCrashes
    /\ job' = NoJob /\ crashes' = crashes + 1
    /\ UNCHANGED <<clock, real, replaced, m2, history>>

Elsewhere == Tick \/ Prepare \/ ReplaceRecord \/ Crash
===============================================================================
