------------------------- MODULE MCWorkflowExecution -------------------------
(***************************************************************************)
(* A review whose agent may lose its last event, a command phase it may    *)
(* skip, and a last phase that reviews.                                    *)
(***************************************************************************)
EXTENDS WorkflowExecution

MCReviews  == {1, 3}
MCCommands == {2}
MCFlaky    == {1}
=============================================================================
