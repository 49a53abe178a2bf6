------------------------------ MODULE JobState ------------------------------
(***************************************************************************)
(* The status machine of a generation job: jobs/state.py.                  *)
(***************************************************************************)
EXTENDS Integers

\* The members of JobStatus.
JobStatus == {"queued", "loading", "encoding", "generating", "decoding",
              "encoding_output", "complete", "failed", "cancelled", "expired"}

\* The progress a stage stands for; failed, cancelled and expired have none.
STAGES == [queued |-> 0, loading |-> 5, encoding |-> 10, generating |-> 15,
           decoding |-> 90, encoding_output |-> 95, complete |-> 100]

TERMINAL == {"complete", "failed", "cancelled", "expired"}

\* The stages a backend may report: JobManager._report_stage rejects the rest.
ActiveStages == JobStatus \ (TERMINAL \cup {"queued"})

\* transition() returns without ValueError. Staying put is always allowed, work
\* only moves forward, and of the terminal statuses only "complete" can be left.
CanTransition(from, to) ==
  \/ to = from
  \/ /\ from = "complete"
     /\ to \in {"expired", "cancelled"}
  \/ /\ from \notin TERMINAL
     /\ to # "expired"
     /\ to \in DOMAIN STAGES => STAGES[to] > STAGES[from]
=============================================================================
