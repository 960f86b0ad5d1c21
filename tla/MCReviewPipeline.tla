-------------------------- MODULE MCReviewPipeline --------------------------
(***************************************************************************)
(* Runs of the review pipeline in one process.                             *)
(***************************************************************************)
EXTENDS ReviewPipeline
=============================================================================
