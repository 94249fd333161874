----------------------------- MODULE RoutedChain ------------------------------
(***************************************************************************)
(* The routed chain of one image pair: conditions, routing, matching,      *)
(* trust gate, spatial selection and registration, each reading what the   *)
(* earlier ones wrote, while seconds pass, PREPARE replaces the products,  *)
(* the pair's record is replaced and the server dies.                      *)
(***************************************************************************)
EXTENDS RoutedVerdicts

Next == MatchingNext \/ VerdictsNext \/ Elsewhere

\* An admitted execution goes on by itself; nobody has to ask for anything.
Fairness == WF_vars(Dispatch) /\ WF_vars(RecordExecution)

Spec == Init /\ [][Next]_vars /\ Fairness

-------------------------------------------------------------------------------
\* Types: the rows of each history, and the job.

Runs == UNION {[tried -> Nat] : tried \in SUBSET Matcher}
Execution == [tried : Seq(Matcher), runs : Runs, fallback_used : BOOLEAN]

ConditionRow == [id : Nat, at : Nat, profile : Profiles \cup {Blocked, Failed}]
RoutingRow ==
    [id : Nat, at : Nat, state : {"ROUTED", "BLOCKED", "ABSTAIN", "FAILED"},
     primary : Matcher \cup {NoMatcher}, fallback : Matcher \cup {NoMatcher},
     execution : Execution]
MatchRow ==
    [id : Nat, at : Nat, by : Matcher, status : {"SUCCESS", "FAILED", "BLOCKED"},
     found : BOOLEAN, synthetic : BOOLEAN]
TrustRow ==
    [id : Nat, at : Nat, state : {"ACCEPT", "REJECT", "BLOCKED"}, match : Nat,
     routing : Nat, synthetic : BOOLEAN, for_real : BOOLEAN]
SpatialRow ==
    [id : Nat, at : Nat, state : {"SELECTED", "ABSTAIN", "BLOCKED"}, trust : Nat,
     match : Nat, synthetic : BOOLEAN, for_real : BOOLEAN]
RegistrationRow ==
    [id : Nat, at : Nat, state : {"SUCCESS", "ABSTAIN", "BLOCKED"}, spatial : Nat,
     for_real : BOOLEAN]

\* Every run has an id of its own.
Listing(runs, Row) ==
    /\ runs \in Seq(Row)
    /\ \A i \in DOMAIN runs : runs[i].id \in 1 .. Len(runs) /\ runs[i].at <= clock
    /\ \A i, j \in DOMAIN runs : runs[i].id = runs[j].id => i = j

TypeOK ==
    /\ clock \in Nat /\ crashes \in Nat /\ real \in BOOLEAN /\ replaced \in Nat
    /\ m2 \in [ready : BOOLEAN, version : Nat]
    /\ Listing(conditions, ConditionRow) /\ Listing(routings, RoutingRow)
    /\ Listing(matches, MatchRow) /\ Listing(trusts, TrustRow)
    /\ Listing(spatials, SpatialRow) /\ Listing(registrations, RegistrationRow)
    /\ job \in [routing : Nat, current : Matcher \cup {NoMatcher},
                tried : Seq(Matcher), runs : Runs, reason : BOOLEAN]

-------------------------------------------------------------------------------
\* Safety

\* A registration that succeeded rests on one chain of runs: a usable spatial
\* run over a trust run that accepted, over the successful matcher run with
\* candidates that both name.
RegisteredFromOneChain ==
    \A i \in DOMAIN registrations : registrations[i].state = "SUCCESS" =>
        LET s == Get(spatials, registrations[i].spatial)
            t == Get(trusts, s.trust)
            m == Get(matches, t.match)
        IN  /\ registrations[i].spatial # NoRun /\ s.trust # NoRun
            /\ Usable(s) /\ t.state = "ACCEPT"
            /\ s.match = t.match
            /\ m.status = "SUCCESS" /\ m.found

\* No positive result that was made for a pair registered as real data rests
\* on a matcher run that was marked synthetic, even if the pair's record was
\* replaced somewhere along the chain.
RealFromReal ==
    /\ \A i \in DOMAIN trusts : LET t == trusts[i] IN
          t.state = "ACCEPT" /\ t.for_real => ~ Get(matches, t.match).synthetic
    /\ \A i \in DOMAIN spatials : LET s == spatials[i] IN
          Usable(s) /\ s.for_real => ~ Get(matches, s.match).synthetic
    /\ \A i \in DOMAIN registrations : LET g == registrations[i] IN
          g.state = "SUCCESS" /\ g.for_real =>
             ~ Get(matches, Get(spatials, g.spatial).match).synthetic

\* A verdict that names a routing run judges the matcher run that its execution
\* ended with: one that found candidates, or the last that it may try.
FinalRouteStands ==
    \A i \in DOMAIN trusts : trusts[i].routing # NoRun =>
        LET r == Get(routings, trusts[i].routing)
            e == r.execution
            m == Get(matches, trusts[i].match)
        IN  /\ e.tried # <<>> /\ m.by = Last(e.tried)
            /\ \/ m.found
               \/ Len(e.tried) = IF max_fallback_attempts = 0 THEN 1 ELSE 2
               \/ r.fallback = NoMatcher

RunsOf(r) == Range(r.execution.runs)

\* No matcher run is accounted to two executions, though a crash leaves the
\* runs of an execution unrecorded and it is then requested again.
ExecutionsShareNoRun ==
    \A i, j \in DOMAIN routings :
        RunsOf(routings[i]) \cap RunsOf(routings[j]) # {} => i = j

NewestOf(runs, places) ==
    LET id == latest(runs, places)
    IN  \A i \in places : id # NoRun /\ runs[i].at <= Get(runs, id).at

\* What a stage takes by default is of the newest second that there is: no
\* successful matcher run is newer than the one that TRUST takes when nothing
\* was routed, and no accepting trust run is newer than the one that M8 takes,
\* however many later ones rejected.
DefaultsAreNewest ==
    NewestOf(matches, Successful) /\ NewestOf(trusts, Accepting)

Stand(runs) == \A i \in DOMAIN runs : runs[i] \in Range(runs')

\* Every run that was written stays as it is, except that a routing run's
\* execution is recorded in it, once.
HistoryStands ==
    [][/\ Stand(conditions) /\ Stand(matches) /\ Stand(trusts) /\ Stand(spatials)
       /\ Stand(registrations)
       /\ \A i \in DOMAIN routings : LET r == routings[i] IN
             \E q \in Range(routings') :
                /\ [q EXCEPT !.execution = r.execution] = r
                /\ r.execution # NotExecuted => q = r]_vars

-------------------------------------------------------------------------------
\* Liveness: an execution that was admitted ends, recorded or with the server.
ExecutionEnds == job # NoJob ~> job = NoJob
===============================================================================
