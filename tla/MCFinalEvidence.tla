---------------------------- MODULE MCFinalEvidence ----------------------------
(***************************************************************************)
(* A small instance of FinalEvidence: one document and one artifact stand  *)
(* for those of their kind, two build requests may overlap.                *)
(***************************************************************************)
EXTENDS FinalEvidence

OneDoc == <<"report">>
OneArtifact == <<"transform">>
===============================================================================
