----------------------------- MODULE JobService -----------------------------
(***************************************************************************)
(* What the generation service promises about its jobs, without files,     *)
(* clocks or an event loop: a bounded FIFO served by one worker. A job ends *)
(* with a result only if nobody revoked it before, and an ended job never  *)
(* comes back.                                                             *)
(***************************************************************************)
EXTENDS Integers, SequencesExt

CONSTANTS Jobs, Nobody, Capacity

VARIABLES view,     \* what a client of the job can tell
          order,    \* the waiting jobs, oldest first
          working,  \* the job in the worker slot, or Nobody
          revoked   \* the working job's cancellation was requested

svars == <<view, order, working, revoked>>

Views == {"none", "waiting", "working", "result", "ended"}

ServiceInit ==
  /\ view = [j \in Jobs |-> "none"]
  /\ order = <<>>
  /\ working = Nobody
  /\ revoked = FALSE

Admit(j) ==
  /\ view[j] = "none"
  /\ Len(order) < Capacity
  /\ view' = [view EXCEPT ![j] = "waiting"]
  /\ order' = Append(order, j)
  /\ UNCHANGED <<working, revoked>>

\* The oldest waiting job starts, or is given up for lack of resources.
Begin ==
  /\ working = Nobody
  /\ order # <<>>
  /\ order' = Tail(order)
  /\ \/ /\ view' = [view EXCEPT ![Head(order)] = "working"]
        /\ working' = Head(order)
     \/ /\ view' = [view EXCEPT ![Head(order)] = "ended"]
        /\ UNCHANGED working
  /\ UNCHANGED revoked

Finish ==
  /\ working # Nobody
  /\ \/ view' = [view EXCEPT ![working] = "ended"]
     \/ ~revoked /\ view' = [view EXCEPT ![working] = "result"]
  /\ working' = Nobody
  /\ revoked' = FALSE
  /\ UNCHANGED order

RevokeWaiting(j) ==
  /\ \E i \in DOMAIN order : order[i] = j /\ order' = RemoveAt(order, i)
  /\ view' = [view EXCEPT ![j] = "ended"]
  /\ UNCHANGED <<working, revoked>>

RevokeWorking ==
  /\ working # Nobody
  /\ revoked' = TRUE
  /\ UNCHANGED <<view, order, working>>

\* Results are withdrawn: deleted, expired, or found missing.
Withdraw(S) ==
  /\ \A j \in S : view[j] = "result"
  /\ view' = [j \in Jobs |-> IF j \in S THEN "ended" ELSE view[j]]
  /\ UNCHANGED <<order, working, revoked>>

\* Orderly shutdown: nothing waits any more, and the working job is revoked.
Shutdown ==
  /\ view' = [j \in Jobs |-> IF view[j] = "waiting" THEN "ended" ELSE view[j]]
  /\ order' = <<>>
  /\ revoked' = (working # Nobody)
  /\ UNCHANGED working

\* The process is gone, and every job with it.
Vanish ==
  /\ view' = [j \in Jobs |-> IF view[j] = "none" THEN "none" ELSE "ended"]
  /\ order' = <<>>
  /\ working' = Nobody
  /\ revoked' = FALSE

ServiceNext ==
  \/ \E j \in Jobs : Admit(j) \/ RevokeWaiting(j)
  \/ Begin
  \/ Finish
  \/ RevokeWorking
  \/ \E S \in SUBSET Jobs : Withdraw(S)
  \/ Shutdown
  \/ Vanish

\* Waiting jobs are taken, and the working one comes to an end.
ServiceFairness == WF_svars(Begin) /\ WF_svars(Finish)

ServiceSafety == ServiceInit /\ [][ServiceNext]_svars
ServiceSpec == ServiceSafety /\ ServiceFairness
=============================================================================
