----------------------------- MODULE SingleWriter -----------------------------
(***************************************************************************)
(* What the run guard promises to the pipeline: inside one server process  *)
(* at most one worker at a time executes the body of a run on a run root.  *)
(* backend/app/hardening.py says it in the docstring of guarded_run.       *)
(* RunGuard.tla is shown to implement this specification.                  *)
(***************************************************************************)
CONSTANTS
    Worker,     \* the threads that execute requests
    RunRoot,    \* the run directories
    ProcOf      \* the server process a worker belongs to

VARIABLE writing    \* pairs <<w, r>>: worker w executes a run body on r

Init == writing = {}

\* A run body starts: nobody in this process is writing the same root.
Start(w, r) ==
    /\ \A pair \in writing : pair[1] # w
    /\ \A pair \in writing : ProcOf[pair[1]] = ProcOf[w] => pair[2] # r
    /\ writing' = writing \cup {<<w, r>>}

\* A run body ends, normally or with an exception.
Finish(w, r) ==
    /\ <<w, r>> \in writing
    /\ writing' = writing \ {<<w, r>>}

\* A server process dies and every run it was executing dies with it.
Die(p) == writing' = {pair \in writing : ProcOf[pair[1]] # p}

Next ==
    \/ \E w \in Worker, r \in RunRoot : Start(w, r) \/ Finish(w, r)
    \/ \E w \in Worker : Die(ProcOf[w])

Spec == Init /\ [][Next]_writing
===============================================================================
