---------------------------- MODULE RoutedVerdicts ----------------------------
(***************************************************************************)
(* The trust gate (M7), spatial selection (M8) and registration (M9) on    *)
(* the run histories of one pair: what each takes as its input, the gates  *)
(* in front of its engine, and the answers that the engine may give.       *)
(***************************************************************************)
EXTENDS RoutedMatching

-------------------------------------------------------------------------------
\* M7

\* Mutant: the matcher run of the first route.
first_matcher_run(r) ==
    IF r.execution.tried = <<>> THEN NoRun
    ELSE r.execution.runs[Head(r.execution.tried)]

\* The matcher run that an executed routing run ended with: that of its last
\* route.
executed_matcher_run(r) ==
    IF r.execution.tried = <<>> THEN NoRun
    ELSE r.execution.runs[Last(r.execution.tried)]

\* The newest routing run that ended with this matcher run.
find_routing_provenance(m) ==
    latest(routings, {i \in DOMAIN routings : executed_matcher_run(routings[i]) = m})

Executed == {i \in DOMAIN routings : executed_matcher_run(routings[i]) # NoRun}
Successful == {i \in DOMAIN matches : matches[i].status = "SUCCESS"}

\* The newest executed routing run; without one, the newest successful matcher
\* run.
DefaultInput ==
    LET r == latest(routings, Executed)
        m == latest(matches, Successful)
    IN  IF r # NoRun
        THEN [match |-> executed_matcher_run(Get(routings, r)), routing |-> r]
        ELSE [match |-> m, routing |-> NoRun]

\* A request names a matcher run, a routing run, or nothing.
resolve_matcher_run ==
    {DefaultInput}
    \cup {[match |-> matches[i].id,
           routing |-> find_routing_provenance(matches[i].id)] : i \in DOMAIN matches}
    \cup {[match |-> executed_matcher_run(routings[i]), routing |-> routings[i].id] :
             i \in DOMAIN routings}

\* The answers over matcher run m: the gates refuse; past them the engine
\* answers, unless m does not declare the frames of both its images.  REJECT also
\* stands for ABSTAIN, which a run over its time budget answers.
TrustAnswers(m) ==
    IF m.status # "SUCCESS" \/ (m.synthetic /\ real) \/ ~ m.found
    THEN {"BLOCKED"}
    ELSE {"ACCEPT", "REJECT", "BLOCKED"}

RunTrust ==
    /\ Idle /\ Len(trusts) < MaxTrusts
    /\ \E input \in resolve_matcher_run :
          /\ input.match # NoRun
          /\ LET m == Get(matches, input.match) IN
             \E answer \in TrustAnswers(m) :
                trusts' \in With(trusts,
                    [id |-> NewId(trusts), at |-> clock, state |-> answer,
                     match |-> m.id, routing |-> input.routing,
                     synthetic |-> m.synthetic, for_real |-> real])
    /\ UNCHANGED <<world, conditions, routings, matches, spatials, registrations, job>>

-------------------------------------------------------------------------------
\* M8: over the trust run that the request names, else over the newest that
\* accepted, else over the newest.

Accepting == {i \in DOMAIN trusts : trusts[i].state = "ACCEPT"}

resolve_trust_artifact ==
    LET accepted == latest(trusts, Accepting)
        newest == latest(trusts, DOMAIN trusts)
    IN  {IF accepted # NoRun THEN accepted ELSE newest}
        \cup {trusts[i].id : i \in DOMAIN trusts}

\* Mutant: whatever the verdict.
SpatialAnswersToAny(t) ==
    IF t.synthetic /\ real THEN {} ELSE {"SELECTED", "ABSTAIN", "BLOCKED"}

\* The answers of M8 past the gates: over an accepted trust run, BLOCKED if its
\* trusted set cannot be recovered.  SELECTED also stands for
\* SELECTED_WITH_WARNINGS, ABSTAIN for FAILED.
SpatialAnswers(t) ==
    IF t.state # "ACCEPT" \/ (t.synthetic /\ real)
    THEN {}
    ELSE {"SELECTED", "ABSTAIN", "BLOCKED"}

SpatialRun(state, trust, match, synthetic) ==
    [id |-> NewId(spatials), at |-> clock, state |-> state, trust |-> trust,
     match |-> match, synthetic |-> synthetic, for_real |-> real]

\* What M8 may write over the trust run id: BLOCKED at a gate, or since the
\* matcher's file cannot be read; FAILED before the run is named, written here as
\* ABSTAIN; or an answer that names the runs it rests on.
SpatialRows(id) ==
    {SpatialRun("BLOCKED", id, NoRun, ~ real),
     SpatialRun("ABSTAIN", NoRun, NoRun, ~ real)}
    \cup IF id = NoRun THEN {}
         ELSE LET t == Get(trusts, id)
              IN  {SpatialRun(answer, id, t.match, t.synthetic) :
                      answer \in SpatialAnswers(t)}

RunSpatial ==
    /\ Idle /\ Len(spatials) < MaxSpatials
    /\ \E id \in resolve_trust_artifact : \E row \in SpatialRows(id) :
          spatials' \in With(spatials, row)
    /\ UNCHANGED <<world, conditions, routings, matches, trusts, registrations, job>>

-------------------------------------------------------------------------------
\* M9: over the spatial run that the request names, or the newest usable one.
\* ABSTAIN also stands for FAILED.

Usable(s) == s.state = "SELECTED"

resolve_m8_artifact ==
    {latest(spatials, {i \in DOMAIN spatials : Usable(spatials[i])})}
    \cup {spatials[i].id : i \in DOMAIN spatials}

\* Mutant: no gate for real data.
RegistrationAnswersUngated(s) ==
    IF Usable(s) THEN {"SUCCESS", "ABSTAIN", "BLOCKED"} ELSE {}

\* The answers of M9 past the resolution of its input: BLOCKED at the gate or if
\* the spatial run declares no frames or carries no points.  The gate asks for
\* PATH_A_REAL_DATA, which data_gate gives to a pair of two REAL_PRADAN products
\* and to no other: real, as in the stages before.
RegistrationAnswers(s) ==
    CASE ~ Usable(s) -> {}
      [] Usable(s) /\ real /\ s.synthetic -> {"BLOCKED"}
      [] OTHER -> {"SUCCESS", "ABSTAIN", "BLOCKED"}

\* What image is warped is left out: it is the product that M2 lists now.
RegistrationRun(state, s) ==
    [id |-> NewId(registrations), at |-> clock, state |-> state, spatial |-> s,
     for_real |-> real]

\* What M9 may write over the spatial run id: it names no run if the model that
\* was asked for is unknown, if there is no usable run, or if it fails before.
RegistrationRows(id) ==
    {RegistrationRun(answer, NoRun) : answer \in {"BLOCKED", "ABSTAIN"}}
    \cup IF id = NoRun THEN {}
         ELSE {RegistrationRun(answer, id) :
                  answer \in RegistrationAnswers(Get(spatials, id))}

RunRegistration ==
    /\ Idle /\ Len(registrations) < MaxRegistrations
    /\ \E id \in resolve_m8_artifact : \E row \in RegistrationRows(id) :
          registrations' \in With(registrations, row)
    /\ UNCHANGED <<world, conditions, routings, matches, trusts, spatials, job>>

VerdictsNext == RunTrust \/ RunSpatial \/ RunRegistration
===============================================================================
