------------------------------ MODULE Lifespan ------------------------------
(***************************************************************************)
(* Several server processes over overlapping storage directories: the      *)
(* locks of Storage.open and close in media/storage.py, taken and released *)
(* by the lifespan of main.py around everything that touches a file. One   *)
(* element of Servers is one process; a restart is another one.            *)
(***************************************************************************)
EXTENDS Integers

CONSTANTS Servers,    \* processes
          Dirs,       \* directories, numbered as sorted() orders their paths
          Configured  \* the sets of storage roots a process may be configured with

ASSUME LifespanAssumption ==
  /\ Dirs \subseteq Nat
  /\ Configured \subseteq SUBSET Dirs

VARIABLES roots,   \* storage.roots, whatever their roles
          phase,   \* how far the lifespan has come
          held,    \* directories this process holds the lock file of
          worker   \* the worker task and its thread: busy, or left by a stop() that raised

vars == <<roots, phase, held, worker>>

\* The phases in which handlers, sweeps or the worker touch the directories.
Serving == {"starting", "up", "stopping", "cleaning"}
Locking == {"opening", "refusing", "breaking"}
Over == {"refused", "broken", "ended", "killed"}
Phases == {"off", "closing"} \cup Locking \cup Serving \cup Over

TypeOK ==
  /\ roots \in [Servers -> SUBSET Dirs]
  /\ phase \in [Servers -> Phases]
  /\ held \in [Servers -> SUBSET Dirs]
  /\ worker \in [Servers -> {"none", "busy", "left"}]

Init ==
  /\ roots \in [Servers -> Configured]
  /\ phase = [s \in Servers |-> "off"]
  /\ held = [s \in Servers |-> {}]
  /\ worker = [s \in Servers |-> "none"]

GoTo(s, next) == phase' = [phase EXCEPT ![s] = next]
Unlocked(s) == roots[s] \ held[s]

-----------------------------------------------------------------------------
Boot(s) ==
  /\ phase[s] = "off"
  /\ GoTo(s, "opening")
  /\ UNCHANGED <<roots, held, worker>>

\* Mutant: the roots are locked in the order of their roles.
NextRoot_AsConfigured(s) == Unlocked(s)

\* The root that open() locks next: the first that is left of the sorted ones.
NextRoot(s) == {d \in Unlocked(s) : \A e \in Unlocked(s) : d <= e}

\* flock(LOCK_EX | LOCK_NB).
Lock(s) ==
  /\ phase[s] = "opening"
  /\ \E d \in NextRoot(s) :
       /\ \A t \in Servers : d \notin held[t]
       /\ held' = [held EXCEPT ![s] = @ \cup {d}]
  /\ UNCHANGED <<roots, phase, worker>>

\* "Storage is in use": open() will close what it has locked so far.
LockRefused(s) ==
  /\ phase[s] = "opening"
  /\ \E d \in NextRoot(s), t \in Servers : d \in held[t]
  /\ GoTo(s, "refusing")
  /\ UNCHANGED <<roots, held, worker>>

\* A symlink, a directory that cannot be made, or another filesystem.
OpenRaises(s) ==
  /\ phase[s] = "opening"
  /\ GoTo(s, "breaking")
  /\ UNCHANGED <<roots, held, worker>>

Opened(s) ==
  /\ phase[s] = "opening"
  /\ Unlocked(s) = {}
  /\ GoTo(s, "starting")
  /\ UNCHANGED <<roots, held, worker>>

\* close() gives the locks back one by one, in the order they were taken.
Release(s) ==
  /\ phase[s] \in {"refusing", "breaking", "closing"}
  /\ \E d \in held[s] :
       /\ \A e \in held[s] : d <= e
       /\ held' = [held EXCEPT ![s] = @ \ {d}]
  /\ UNCHANGED <<roots, phase, worker>>

Closed(s) ==
  /\ held[s] = {}
  /\ \/ phase[s] = "refusing" /\ GoTo(s, "refused")
     \/ phase[s] = "breaking" /\ GoTo(s, "broken")
     \/ phase[s] = "closing" /\ GoTo(s, "ended")
  /\ UNCHANGED <<roots, held, worker>>

-----------------------------------------------------------------------------
\* The first sweep is over and job_manager.start() has created the worker.
Started(s) ==
  /\ phase[s] = "starting"
  /\ GoTo(s, "up")
  /\ worker' = [worker EXCEPT ![s] = "busy"]
  /\ UNCHANGED <<roots, held>>

\* The first sweep raises. job_manager.stop() then has no worker to wait for.
StartRaises(s) ==
  /\ phase[s] = "starting"
  /\ GoTo(s, "cleaning")
  /\ UNCHANGED <<roots, held, worker>>

StopBegins(s) ==
  /\ phase[s] = "up"
  /\ GoTo(s, "stopping")
  /\ UNCHANGED <<roots, held, worker>>

\* The worker has left its loop, or a left-behind one was cancelled with the loop.
WorkerReturns(s) ==
  /\ worker[s] # "none"
  /\ phase[s] # "up"
  /\ worker' = [worker EXCEPT ![s] = "none"]
  /\ UNCHANGED <<roots, phase, held>>

\* Mutant: the worker is not awaited.
StopReturns_Unawaited(s) ==
  /\ phase[s] = "stopping"
  /\ GoTo(s, "cleaning")
  /\ UNCHANGED <<roots, held, worker>>

\* job_manager.stop() returns once the worker has.
StopReturns(s) ==
  /\ phase[s] = "stopping"
  /\ worker[s] = "none"
  /\ GoTo(s, "cleaning")
  /\ UNCHANGED <<roots, held, worker>>

\* It raises: a delete() before the worker was awaited, or backend.close() after.
StopRaises(s) ==
  /\ phase[s] = "stopping"
  /\ GoTo(s, "cleaning")
  /\ worker' = [worker EXCEPT ![s] = IF @ = "busy" THEN "left" ELSE @]
  /\ UNCHANGED <<roots, held>>

\* Either way the cleanup task is awaited before storage.close().
CleanupStops(s) ==
  /\ phase[s] = "cleaning"
  /\ GoTo(s, "closing")
  /\ UNCHANGED <<roots, held, worker>>

\* The process is killed, or ends where nothing closes the storage: in between
\* open() and the try. The operating system takes the locks back.
Kill(s) ==
  /\ phase[s] \notin Over \cup {"off"} \/ worker[s] # "none"
  /\ GoTo(s, "killed")
  /\ held' = [held EXCEPT ![s] = {}]
  /\ worker' = [worker EXCEPT ![s] = "none"]
  /\ UNCHANGED roots

OpenStep(s) == Boot(s) \/ Lock(s) \/ LockRefused(s) \/ OpenRaises(s) \/ Opened(s)
CloseStep(s) == Release(s) \/ Closed(s)
ServeStep(s) ==
  \/ Started(s) \/ StartRaises(s)
  \/ StopBegins(s) \/ WorkerReturns(s) \/ StopReturns(s) \/ StopRaises(s)
  \/ CleanupStops(s)

Next == \E s \in Servers : OpenStep(s) \/ CloseStep(s) \/ ServeStep(s) \/ Kill(s)

Spec == Init /\ [][Next]_vars

-----------------------------------------------------------------------------
Shared(s, t) == s # t /\ roots[s] \cap roots[t] # {}

\* No two servers work in one directory. What may be there besides one of them is
\* the worker of another only if that one's stop() raised before it was awaited.
ExclusiveUse ==
  \A s, t \in Servers :
    Shared(s, t) /\ phase[s] \in Serving => phase[t] \notin Serving /\ worker[t] # "busy"

\* Servers started together do not all refuse each other: once none is at its locks,
\* a server was refused only for one that was not.
SomebodyStarts ==
  (\A s \in Servers : phase[s] \notin Locking) /\ (\E s \in Servers : phase[s] = "refused")
    => \E s \in Servers : phase[s] \notin {"off", "refused"}
=============================================================================
