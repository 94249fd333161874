---------------------------- MODULE RoutedMatching ----------------------------
(***************************************************************************)
(* Condition analysis (M5), the router (M6) and the matching services that *)
(* it dispatches (M3 baseline, M4 deep) on the run histories of one pair.  *)
(*                                                                         *)
(* A run under guard_run is one action, for no other guarded run of the    *)
(* pair starts meanwhile; the execution of a routing decision has several, *)
(* because the process may die between them and PREPARE may intervene.     *)
(***************************************************************************)
EXTENDS RoutedRuns

CONSTANTS
    Profiles,   \* the condition profiles that an analysis may find
    DeepProbe,  \* the answers of the deep matcher's capability probe
    Overrides,  \* the rules that routing requests bring instead of the configured
    Requested   \* the matchers that a user asks for directly

ASSUME ProfilesAssumption == \A p \in Profiles : p.status = "SUCCESS"
ASSUME RequestedAssumption == Requested \subseteq Matcher
ASSUME OverridesAssumption ==
    \A rules \in Overrides :
        /\ Len(rules) \in Nat /\ DOMAIN rules = 1 .. Len(rules)
        /\ validate_rules(rules)
ASSUME ProbeAssumption == DeepProbe \subseteq BOOLEAN /\ DeepProbe # {}

\* guard_run's lock: one guarded run of the pair at a time.
Idle == job = NoJob

-------------------------------------------------------------------------------
\* M5: BLOCKED without products; FAILED if the analysis raises.

Blocked == [NoProfile EXCEPT !.status = "BLOCKED"]
Failed == [NoProfile EXCEPT !.status = "FAILED"]

RunConditions ==
    /\ Idle /\ Len(conditions) < MaxConditions
    /\ \E profile \in IF m2.ready THEN Profiles \cup {Failed} ELSE {Blocked} :
          conditions' \in With(conditions,
              [id |-> NewId(conditions), at |-> clock, profile |-> profile])
    /\ UNCHANGED <<world, routings, matches, trusts, spatials, registrations, job>>

-------------------------------------------------------------------------------
\* M6: the decision.  It reads M2's status and the newest condition run,
\* whatever the status of that run.

condition_payload ==
    IF conditions = <<>> THEN NoProfile ELSE Head(conditions).profile

Decide(rules, mode, deepReady) ==
    route(extract_condition_view(m2.ready, condition_payload),
          extract_capability_view(deepReady), rules, mode)

\* The router raised.
RoutingFailed ==
    Decision("FAILED", "none", NoMatcher, NoMatcher, FALSE, "ROUTING_FAILED")

RunRouting ==
    /\ Idle /\ Len(routings) < MaxRoutings
    /\ \E rules \in {ConfiguredRules} \cup Overrides, mode \in Modes,
          deepReady \in DeepProbe :
       \E decision \in {Decide(rules, mode, deepReady), RoutingFailed} :
          routings' \in With(routings,
              [id |-> NewId(routings), at |-> clock, state |-> decision.state,
               primary |-> decision.primary, fallback |-> decision.fallback,
               execution |-> NotExecuted])
    /\ UNCHANGED <<world, conditions, matches, trusts, spatials, registrations, job>>

-------------------------------------------------------------------------------
\* M3 and M4: one matching run.  FAILED stands for every answer of the matcher
\* but SUCCESS; a success may have found no candidate.

Outcomes ==
    IF m2.ready
    THEN {[status |-> "SUCCESS", found |-> TRUE],
          [status |-> "SUCCESS", found |-> FALSE],
          [status |-> "FAILED", found |-> FALSE]}
    ELSE {[status |-> "BLOCKED", found |-> FALSE]}

\* synthetic: the pair was not registered as real data when it was matched.
MatchRun(by, outcome) ==
    [id |-> NewId(matches), at |-> clock, by |-> by, status |-> outcome.status,
     found |-> outcome.found, synthetic |-> ~ real]

RunMatcher ==
    /\ Idle /\ Len(matches) < MaxMatches
    /\ \E by \in Requested, outcome \in Outcomes :
          matches' \in With(matches, MatchRun(by, outcome))
    /\ UNCHANGED <<world, conditions, routings, trusts, spatials, registrations, job>>

-------------------------------------------------------------------------------
\* M6: execution of a decision.  The routing run keeps the record of it, and a
\* second request answers that record.

\* Mutant: no look at the record of an earlier execution.
ExecuteBeginAgain(r) ==
    /\ Idle
    /\ r.state = "ROUTED"
    /\ Len(matches) + max_fallback_attempts + 1 <= MaxMatches
    /\ job' = [NoJob EXCEPT !.routing = r.id, !.current = r.primary]
    /\ UNCHANGED <<world, history>>

ExecuteBegin(r) ==
    /\ Idle
    /\ r.execution = NotExecuted
    /\ r.state = "ROUTED"
    /\ Len(matches) + max_fallback_attempts + 1 <= MaxMatches
    /\ job' = [NoJob EXCEPT !.routing = r.id, !.current = r.primary]
    /\ UNCHANGED <<world, history>>

\* The loop's condition.
Continues ==
    /\ job.routing # NoRun
    /\ job.current # NoMatcher
    /\ Len(job.tried) <= max_fallback_attempts

\* The matcher to try when the one just tried found nothing.
NextRoute ==
    IF job.tried = <<>> THEN Get(routings, job.routing).fallback ELSE NoMatcher

\* execution[current] = run_meta: a matcher's second run replaces its first.
RunsWith(id) ==
    [by \in DOMAIN job.runs \cup {job.current} |->
        IF by = job.current THEN id ELSE job.runs[by]]

\* Mutant: a matcher that already found candidates for the pair is not run
\* again; its newest run is taken.
DispatchOrReuse ==
    /\ Continues
    /\ \E outcome \in Outcomes :
          LET new == MatchRun(job.current, outcome)
              old == latest(matches, {i \in DOMAIN matches :
                         matches[i].by = job.current /\ matches[i].found})
          IN
          /\ matches' \in IF old = NoRun THEN With(matches, new) ELSE {matches}
          /\ job' = [job EXCEPT
                !.tried = Append(@, job.current),
                !.runs = RunsWith(IF old = NoRun THEN new.id ELSE old),
                !.reason = @ \/ ~ outcome.found,
                !.current = IF outcome.found THEN NoMatcher ELSE NextRoute]
    /\ UNCHANGED <<world, conditions, routings, trusts, spatials, registrations>>

Dispatch ==
    /\ Continues
    /\ \E outcome \in Outcomes :
          LET new == MatchRun(job.current, outcome) IN
          /\ matches' \in With(matches, new)
          /\ job' = [job EXCEPT
                !.tried = Append(@, job.current),
                !.runs = RunsWith(new.id),
                !.reason = @ \/ ~ outcome.found,
                !.current = IF outcome.found THEN NoMatcher ELSE NextRoute]
    /\ UNCHANGED <<world, conditions, routings, trusts, spatials, registrations>>

\* A dispatched matcher raises: the request fails and nothing is recorded.
DispatchRaises ==
    /\ Continues
    /\ job' = NoJob
    /\ UNCHANGED <<world, history>>

\* Mutant: only an execution that found candidates is recorded.
RecordExecutionIfFound ==
    /\ job.routing # NoRun /\ ~ Continues
    /\ Get(matches, job.runs[Last(job.tried)]).found
    /\ routings' = [i \in DOMAIN routings |->
           IF routings[i].id # job.routing THEN routings[i]
           ELSE [routings[i] EXCEPT !.execution =
                    [tried |-> job.tried, runs |-> job.runs,
                     fallback_used |-> job.reason]]]
    /\ job' = NoJob
    /\ UNCHANGED <<world, conditions, matches, trusts, spatials, registrations>>

RecordExecution ==
    /\ job.routing # NoRun /\ ~ Continues
    /\ routings' = [i \in DOMAIN routings |->
           IF routings[i].id # job.routing THEN routings[i]
           ELSE [routings[i] EXCEPT !.execution =
                    [tried |-> job.tried, runs |-> job.runs,
                     fallback_used |-> job.reason]]]
    /\ job' = NoJob
    /\ UNCHANGED <<world, conditions, matches, trusts, spatials, registrations>>

Execute ==
    \/ \E i \in DOMAIN routings : ExecuteBegin(routings[i])
    \/ Dispatch \/ DispatchRaises \/ RecordExecution

MatchingNext == RunConditions \/ RunRouting \/ RunMatcher \/ Execute
===============================================================================
