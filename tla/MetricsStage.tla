----------------------------- MODULE MetricsStage -----------------------------
(***************************************************************************)
(* METRICS, the M7 stage (backend/app/metrics/service.py: MetricsService.  *)
(* run): it measures what the other stages left, gives the experiment an   *)
(* identity and writes a report.                                           *)
(*                                                                         *)
(* The content of the report is the runs it measured; the content of the   *)
(* experiment is the runs whose files its identity hashes, which are read  *)
(* a second time.  A file that is gone is measured as not available and    *)
(* hashed as None: neither stops the run.                                  *)
(***************************************************************************)
EXTENDS RunFiles

\* The files both read (funnel.py, spatial.py, registration.py,
\* experiment.py: build_experiment_seed).
Measured == {"match_summary", "selected_npz", "mapping", "transform"}
RunsNow == RunsOf(Measured)

\* prerequisites: a COMPLETE registration with its artifacts, whoever wrote
\* them.
StartMetrics ==
    /\ Holds("registration_status", "COMPLETE")
    /\ \A f \in {"transform", "registration_summary", "provenance"} : Exists(f)
    /\ Begin("METRICS", "collect", <<>>)

\* _collect, and every exception it may raise.
Collect ==
    /\ At("METRICS", "collect")
    /\ \/ /\ Continue([run EXCEPT !.pc = "identify", !.out = RunsNow])
          /\ UNCHANGED disk
       \/ EndWith("FAILED")

\* The experiment, the reports, then COMPLETE.
Report ==
    <<Write("experiment", RunsNow), Write("report", run.out),
      Write("metrics_status", {"COMPLETE"})>>

\* build_experiment_json, and the results composed in memory.
Identify ==
    /\ At("METRICS", "identify")
    /\ Continue(Finally(Report))
    /\ UNCHANGED disk

MetricsNext == StartMetrics \/ Collect \/ Identify
===============================================================================
