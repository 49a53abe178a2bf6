-------------------------- MODULE GenerationBackend --------------------------
(***************************************************************************)
(* What the job manager relies on: the contract of inference/backend.py.   *)
(* One call at a time; stages are heard only while a call is under way; a  *)
(* call returns only after all its work has stopped; a revoked call does   *)
(* return; a closed backend does no more work.                             *)
(***************************************************************************)
EXTENDS Integers

CONSTANT NoCall

VARIABLES busy,     \* the call under way, or NoCall
          working,  \* its work has not stopped
          revoked,  \* the call was cancelled, or the backend is shutting down
          heard,    \* stages the job manager heard of in this call
          retired   \* closed

bvars == <<busy, working, revoked, heard, retired>>

BackendInit ==
  /\ busy = NoCall
  /\ working = FALSE
  /\ revoked = FALSE
  /\ heard = 0
  /\ retired = FALSE

Invoke ==
  /\ busy = NoCall
  /\ ~retired
  /\ busy' # NoCall
  /\ working' = TRUE
  /\ revoked' \in {revoked, TRUE}
  /\ UNCHANGED <<heard, retired>>

Hear ==
  /\ busy # NoCall
  /\ heard' = heard + 1
  /\ UNCHANGED <<busy, working, revoked, retired>>

WorkStops ==
  /\ working
  /\ working' = FALSE
  /\ UNCHANGED <<busy, revoked, heard, retired>>

Revoke ==
  /\ revoked' = TRUE
  /\ UNCHANGED <<busy, working, heard, retired>>

\* Cancellation is the call's own, shutdown stays.
Return ==
  /\ busy # NoCall
  /\ ~working
  /\ busy' = NoCall
  /\ heard' = 0
  /\ retired' \in {FALSE, revoked}
  /\ revoked' \in {FALSE, revoked}
  /\ retired' => revoked'
  /\ UNCHANGED working

BackendNext == Invoke \/ Hear \/ WorkStops \/ Revoke \/ Return

\* A revoked call stops working and returns.
BackendFairness == WF_bvars(revoked /\ WorkStops) /\ WF_bvars(revoked /\ Return)

BackendSafety == BackendInit /\ [][BackendNext]_bvars
BackendSpec == BackendSafety /\ BackendFairness
=============================================================================
