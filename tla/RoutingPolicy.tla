---------------------------- MODULE RoutingPolicy ----------------------------
(***************************************************************************)
(* The M6 router's pure part (backend/app/routing): the view it builds of  *)
(* a pair's condition profile, the rules of configs/app.yaml, and the      *)
(* decision for one mode.                                                  *)
(*                                                                         *)
(* A view is a function on the fields that have a value: a field outside   *)
(* its domain is None in the program.  Ratios and distances are counted in *)
(* hundredths.                                                             *)
(***************************************************************************)
EXTENDS Integers, Sequences

NoMatcher == "no matcher"
Classical == {"sift", "orb", "akaze"}
Deep == {"superpoint_superglue", "loftr"}
Matcher == Classical \cup Deep

Modes == {"ADAPTIVE", "FIXED_BASELINE"}

-------------------------------------------------------------------------------
\* Predicates

Has(view, field) == field \in DOMAIN view

\* A comparison with a missing number is false.
evaluate_predicate(view, p) ==
    CASE p.operator = "equals" -> Has(view, p.field) /\ view[p.field] = p.value
      [] p.operator = "not_equals" ->
             ~ (Has(view, p.field) /\ view[p.field] = p.value)
      [] p.operator = "exists" -> Has(view, p.field) = p.value
      [] p.operator = "in" -> Has(view, p.field) /\ view[p.field] \in p.value
      [] p.operator = "all" ->
             Has(view, p.field) /\ p.value \subseteq view[p.field]
      [] p.operator = "any" ->
             Has(view, p.field) /\ p.value \cap view[p.field] # {}
      [] p.operator = "greater_than" ->
             Has(view, p.field) /\ view[p.field] > p.value
      [] p.operator = "greater_equal" ->
             Has(view, p.field) /\ view[p.field] >= p.value
      [] p.operator = "less_than" ->
             Has(view, p.field) /\ view[p.field] < p.value
      [] p.operator = "less_equal" ->
             Has(view, p.field) /\ view[p.field] <= p.value

-------------------------------------------------------------------------------
\* Rules

Is(field, v) == [field |-> field, operator |-> "equals", value |-> v]

Rule(id, priority, modes, match, when, action, primary, fallback, error) ==
    [id |-> id, priority |-> priority, modes |-> modes, match |-> match,
     when |-> when, action |-> action, primary |-> primary,
     fallback |-> fallback, error |-> error]

\* The rules of AR-M6-001.
ConfiguredRules ==
    << Rule("R-PRE-A", 100, Modes, "all", {Is("processing_ready", FALSE)},
            "BLOCKED", NoMatcher, NoMatcher, "PROCESSING_NOT_RUN"),
       Rule("R-PRE-B", 90, {"ADAPTIVE"}, "all",
            {Is("condition_profile_available", FALSE)},
            "BLOCKED", NoMatcher, NoMatcher, "CONDITION_NOT_AVAILABLE"),
       Rule("R-FX-001", 70, {"FIXED_BASELINE"}, "all", {},
            "ROUTED", "sift", "orb", "none"),
       Rule("R-DEEP-001", 50, {"ADAPTIVE"}, "any",
            {Is("texture_complexity_high", TRUE),
             Is("appearance_difference_high", TRUE),
             Is("gsd_ratio_large", TRUE)},
            "ROUTED", "superpoint_superglue", "sift", "none"),
       Rule("R-CLASS-001", 40, {"ADAPTIVE"}, "all",
            {Is("texture_complexity_low", TRUE),
             Is("appearance_difference_low", TRUE),
             Is("gsd_ratio_large", FALSE)},
            "ROUTED", "sift", "orb", "none"),
       Rule("R-DFT-001", 10, {"ADAPTIVE"}, "all", {},
            "ROUTED", "sift", "orb", "none") >>

\* Rules that the configuration loader accepts, and a request that brings its
\* own.
validate_rules(rules) ==
    /\ rules # <<>>
    /\ \A i, j \in DOMAIN rules : rules[i].id = rules[j].id => i = j
    /\ \A i \in DOMAIN rules : LET r == rules[i] IN
          /\ r.modes # {} /\ r.modes \subseteq Modes
          /\ r.priority \in Int
          /\ r.action \in {"ROUTED", "BLOCKED", "ABSTAIN"}
          /\ IF r.action = "ROUTED"
             THEN /\ r.primary \in Matcher
                  /\ r.fallback \in Matcher \cup {NoMatcher}
             ELSE /\ r.primary = NoMatcher /\ r.fallback = NoMatcher
                  /\ r.error # "none"

ASSUME RulesAssumption == validate_rules(ConfiguredRules)

-------------------------------------------------------------------------------
\* The view

\* ready: M2 is READY_FOR_MATCHING and has products; profile: the condition
\* run the service found, or NoProfile; its two textures, and of distance and
\* gsd the set of the one value it has, or {}.
NoProfile == [status |-> "none", texture |-> [a |-> "UNKNOWN", b |-> "UNKNOWN"],
              distance |-> {}, gsd |-> {}]

extract_condition_view(ready, profile) ==
    [processing_ready |-> ready,
     condition_profile_available |-> profile.status = "SUCCESS",
     input_valid |-> ready /\ profile.status = "SUCCESS",
     texture_complexity_high |->
         profile.texture.a = "HIGH" \/ profile.texture.b = "HIGH",
     texture_complexity_low |->
         profile.texture.a = "LOW" /\ profile.texture.b = "LOW",
     appearance_difference_low |-> \E d \in profile.distance : d < 25,
     appearance_difference_high |-> \E d \in profile.distance : d >= 55,
     gsd_ratio_medium |-> \E g \in profile.gsd : g >= 135,
     gsd_ratio_large |-> \E g \in profile.gsd : g >= 200]

\* The matchers that answer their probe.  LoFTR's probe never does.
extract_capability_view(deepReady) ==
    Classical \cup (IF deepReady THEN {"superpoint_superglue"} ELSE {})

-------------------------------------------------------------------------------
\* The decision

rule_matches(rule, view) ==
    \/ rule.when = {}
    \/ rule.match = "any" /\ \E p \in rule.when : evaluate_predicate(view, p)
    \/ rule.match = "all" /\ \A p \in rule.when : evaluate_predicate(view, p)

\* The rules of the mode that match, and the first of them: the highest
\* priority, and of equals the one configured first.
Matching(rules, view, mode) ==
    {i \in DOMAIN rules : mode \in rules[i].modes /\ rule_matches(rules[i], view)}

FirstOf(rules, candidates) ==
    CHOOSE i \in candidates : \A j \in candidates :
        \/ rules[j].priority < rules[i].priority
        \/ rules[j].priority = rules[i].priority /\ i <= j

Decision(state, rule, primary, fallback, used, error) ==
    [state |-> state, rule |-> rule, primary |-> primary,
     fallback |-> fallback, fallback_used |-> used, error |-> error]

\* Capability resolution of a rule that routes.
resolve_capability(rule, available) ==
    CASE rule.primary \in available ->
             Decision("ROUTED", rule.id, rule.primary,
                      IF rule.fallback \in available THEN rule.fallback
                      ELSE NoMatcher, FALSE, "none")
      [] rule.primary \notin available /\ rule.fallback \in available ->
             Decision("ROUTED", rule.id, rule.fallback, rule.fallback, TRUE,
                      "none")
      [] OTHER ->
             Decision("ABSTAIN", rule.id, NoMatcher, NoMatcher, FALSE,
                      "NO_AVAILABLE_MATCHER")

route(view, available, rules, mode) ==
    LET candidates == Matching(rules, view, mode)
        rule == rules[FirstOf(rules, candidates)]
        enabled == {i \in DOMAIN rules : mode \in rules[i].modes}
    IN  CASE enabled = {} -> Decision("BLOCKED", "none", NoMatcher, NoMatcher,
                                      FALSE, "MATCHER_NOT_AVAILABLE")
          [] enabled # {} /\ candidates = {} ->
                 Decision("ABSTAIN", "none", NoMatcher, NoMatcher, FALSE,
                          "NO_AVAILABLE_MATCHER")
          [] candidates # {} /\ rule.action # "ROUTED" ->
                 Decision(rule.action, rule.id, NoMatcher, NoMatcher, FALSE,
                          rule.error)
          [] candidates # {} /\ rule.action = "ROUTED" ->
                 resolve_capability(rule, available)
===============================================================================
