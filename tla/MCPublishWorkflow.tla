------------------------- MODULE MCPublishWorkflow -------------------------
(* An instance of PublishWorkflow for TLC.                                  *)
EXTENDS PublishWorkflow
=============================================================================
