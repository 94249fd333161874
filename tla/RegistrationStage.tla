--------------------------- MODULE RegistrationStage ---------------------------
(***************************************************************************)
(* REGISTRATION, the M6 stage (backend/app/registration/service.py:        *)
(* RegistrationService.run, loader.py: load_selected_correspondences): it  *)
(* fits a transform to the correspondences that SPATIAL selected.          *)
(*                                                                         *)
(* The content of the transform is what it was computed from: the SPATIAL  *)
(* runs that wrote the correspondences and the mapping it read.            *)
(***************************************************************************)
EXTENDS RunFiles

\* Faulty variant: the selection outcome is not looked at.
AnySelection ==
    /\ Holds("spatial_status", "COMPLETE")
    /\ Exists("selected_npz")

Selected ==
    /\ Holds("spatial_status", "COMPLETE")
    /\ Holds("selection", "SELECTED")
    /\ Exists("selected_npz")

StartRegistration == Selected /\ Begin("REGISTRATION", "load", <<>>)

\* The loader checks again what prerequisites checked, except that it takes
\* a selection.json that has disappeared for a good one.
LoadSelected ==
    /\ At("REGISTRATION", "load")
    /\ \/ /\ Holds("spatial_status", "COMPLETE")
          /\ ~Exists("selection") \/ Holds("selection", "SELECTED")
          /\ Exists("selected_npz")
          /\ Continue([run EXCEPT !.pc = "mapping",
                                  !.out = {disk["selected_npz"].by}])
          /\ UNCHANGED disk
       \/ EndWith("BLOCKED")

LoadMapping ==
    /\ At("REGISTRATION", "mapping")
    /\ \/ /\ "MAPPED" \in disk["mapping"].val
          /\ Continue([run EXCEPT !.pc = "fit",
                                  !.out = @ \cup {disk["mapping"].by}])
          /\ UNCHANGED disk
       \/ /\ "MAPPED" \notin disk["mapping"].val
          /\ EndWith("BLOCKED")

\* Too few points, no model, a failed validation or a failed warp: the status
\* first, then what there is to say; older files stay beside it.
FitFails ==
    /\ At("REGISTRATION", "fit")
    /\ \E state \in {"INSUFFICIENT", "FAILED"}, fitted \in BOOLEAN :
         /\ state = "FAILED" => fitted
         /\ Continue(Finally(
              <<Write("registration_status", {state}),
                Write("registration_summary", {})>>
              \o (IF fitted THEN <<Write("transform", run.out)>> ELSE <<>>)))
    /\ UNCHANGED disk

\* The results, then COMPLETE, and only then the provenance: of the files it
\* hashes, those of the selection it was computed from.
FitSucceeds ==
    /\ At("REGISTRATION", "fit")
    /\ Continue(Finally(
         <<Write("transform", run.out), Write("registration_summary", {}),
           Write("registration_status", {"COMPLETE"}),
           WriteNaming("provenance", {"selected_npz"})>>))
    /\ UNCHANGED disk

RegistrationNext ==
    \/ StartRegistration \/ LoadSelected \/ LoadMapping \/ FitFails
    \/ FitSucceeds
===============================================================================
