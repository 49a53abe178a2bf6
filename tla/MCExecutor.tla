----------------------------- MODULE MCExecutor -----------------------------
(***************************************************************************)
(* A request without a LoRA, and one to a reference video with a LoRA.      *)
(***************************************************************************)
EXTENDS Executor, TLC

CONSTANTS plain, styled

MCWorkflow == (plain :> "distilled") @@ (styled :> "reference")
=============================================================================
