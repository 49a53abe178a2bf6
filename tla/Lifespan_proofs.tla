-------------------------- MODULE Lifespan_proofs ---------------------------
(***************************************************************************)
(* Theorems about Lifespan: for any number of processes and any            *)
(* configuration of directories.                                           *)
(***************************************************************************)
EXTENDS Lifespan, TLAPS

\* Started, or out of the race for a reason of its own.
Sure(s) == phase[s] \in Serving \cup {"breaking", "closing", "broken", "ended", "killed"}

\* A lock file is held by one process, for a root of its own; nobody serves without
\* all of them, and nobody keeps one.
LocksExact ==
  /\ \A s, t \in Servers : s # t => held[s] \cap held[t] = {}
  /\ \A s \in Servers :
       /\ held[s] \subseteq roots[s]
       /\ phase[s] \in Serving => held[s] = roots[s]
       /\ phase[s] \in Over \cup {"off"} => held[s] = {}

\* The worker is awaited, unless stop() raised.
WorkerAwaited == \A s \in Servers : worker[s] = "busy" => phase[s] \in {"up", "stopping"}

\* What a process holds while it locks comes before what it does not hold yet.
InOrder ==
  \A s \in Servers : phase[s] = "opening" =>
    \A d \in held[s], e \in Unlocked(s) : d < e

\* t is sure, or holds a lock behind all of r's.
Ahead(t, r) ==
  \/ Sure(t)
  \/ phase[t] = "opening" /\ \E e \in held[t] : \A d \in held[r] : d < e

Hopeful(t) == Sure(t) \/ (phase[t] = "opening" /\ held[t] # {})

\* Whoever is being refused has somebody ahead; whoever was refused, somebody hopeful.
SomebodyAhead ==
  /\ \A r \in Servers : phase[r] = "refusing" => \E t \in Servers : Ahead(t, r)
  /\ (\E r \in Servers : phase[r] = "refused") => \E t \in Servers : Hopeful(t)

LifeInv == TypeOK /\ LocksExact /\ WorkerAwaited /\ InOrder /\ SomebodyAhead

ServerStep(s) == OpenStep(s) \/ CloseStep(s) \/ ServeStep(s) \/ Kill(s)

-----------------------------------------------------------------------------
\* Types.
LEMMA TypeStep ==
  ASSUME TypeOK, NEW s \in Servers, ServerStep(s) PROVE TypeOK'
<1> USE DEF TypeOK, Phases, Serving, Locking, Over, GoTo
<1>1. CASE OpenStep(s)
      BY <1>1 DEF OpenStep, Boot, Lock, LockRefused, OpenRaises, Opened, NextRoot, Unlocked
<1>2. CASE CloseStep(s)
      BY <1>2 DEF CloseStep, Release, Closed
<1>3. CASE ServeStep(s)
      BY <1>3 DEF ServeStep, Started, StartRaises, StopBegins, WorkerReturns, StopReturns,
         StopRaises, CleanupStops
<1>4. CASE Kill(s)
      BY <1>4 DEF Kill
<1> QED BY <1>1, <1>2, <1>3, <1>4 DEF ServerStep

\* Locks.
LEMMA LocksStep ==
  ASSUME TypeOK, LocksExact, NEW s \in Servers, ServerStep(s) PROVE LocksExact'
<1> USE DEF TypeOK, Phases, Serving, Locking, Over, GoTo, LocksExact
<1>1. CASE OpenStep(s)
      BY <1>1 DEF OpenStep, Boot, Lock, LockRefused, OpenRaises, Opened, NextRoot, Unlocked
<1>2. CASE CloseStep(s)
      BY <1>2 DEF CloseStep, Release, Closed
<1>3. CASE ServeStep(s)
      BY <1>3 DEF ServeStep, Started, StartRaises, StopBegins, WorkerReturns, StopReturns,
         StopRaises, CleanupStops
<1>4. CASE Kill(s)
      BY <1>4 DEF Kill
<1> QED BY <1>1, <1>2, <1>3, <1>4 DEF ServerStep

\* The worker.
LEMMA WorkerStep ==
  ASSUME TypeOK, WorkerAwaited, NEW s \in Servers, ServerStep(s) PROVE WorkerAwaited'
<1> USE DEF TypeOK, Phases, Serving, Locking, Over, GoTo, WorkerAwaited
<1>1. CASE OpenStep(s)
      BY <1>1 DEF OpenStep, Boot, Lock, LockRefused, OpenRaises, Opened
<1>2. CASE CloseStep(s)
      BY <1>2 DEF CloseStep, Release, Closed
<1>3. CASE ServeStep(s)
      BY <1>3 DEF ServeStep, Started, StartRaises, StopBegins, WorkerReturns, StopReturns,
         StopRaises, CleanupStops
<1>4. CASE Kill(s)
      BY <1>4 DEF Kill
<1> QED BY <1>1, <1>2, <1>3, <1>4 DEF ServerStep

\* The order of locking.
LEMMA OrderStep ==
  ASSUME TypeOK, LocksExact, InOrder, NEW s \in Servers, ServerStep(s) PROVE InOrder'
<1> USE DEF TypeOK, Phases, Serving, Locking, Over, GoTo, InOrder, Unlocked
<1>1. CASE Boot(s)
      BY <1>1 DEF Boot, LocksExact
<1>2. CASE Lock(s)
  <2>1. PICK d \in NextRoot(s) : held' = [held EXCEPT ![s] = @ \cup {d}]
        BY <1>2 DEF Lock
  <2>2. d \in Dirs /\ \A e \in roots[s] \ held[s] : d <= e /\ e \in Nat
        BY <2>1, LifespanAssumption DEF NextRoot
  <2>3. phase' = phase /\ roots' = roots
        BY <1>2 DEF Lock
  <2>4. \A e \in roots[s] \ (held[s] \cup {d}) : d < e
        BY <2>2, LifespanAssumption
  <2>5. held'[s] = held[s] \cup {d} /\ \A t \in Servers : t # s => held'[t] = held[t]
        BY <2>1
  <2> QED BY <2>3, <2>4, <2>5
<1>3. CASE LockRefused(s) \/ OpenRaises(s) \/ Opened(s)
      BY <1>3 DEF LockRefused, OpenRaises, Opened
<1>4. CASE CloseStep(s)
      BY <1>4 DEF CloseStep, Release, Closed
<1>5. CASE ServeStep(s)
      BY <1>5 DEF ServeStep, Started, StartRaises, StopBegins, WorkerReturns, StopReturns,
         StopRaises, CleanupStops
<1>6. CASE Kill(s)
      BY <1>6 DEF Kill
<1> QED BY <1>1, <1>2, <1>3, <1>4, <1>5, <1>6 DEF ServerStep, OpenStep

-----------------------------------------------------------------------------
\* Somebody stays ahead in a step after which the sure are still sure, whoever locks
\* holds no less or is sure, and nobody is newly refused.
LEMMA AheadKept ==
  ASSUME TypeOK, SomebodyAhead,
         \A t \in Servers : Sure(t) => Sure(t)',
         \A t \in Servers : phase[t] = "opening" =>
           Sure(t)' \/ (phase'[t] = "opening" /\ held[t] \subseteq held'[t]),
         \A r \in Servers : phase'[r] = "refusing" =>
           phase[r] = "refusing" /\ held'[r] \subseteq held[r],
         \A r \in Servers : phase'[r] = "refused" => phase[r] \in {"refused", "refusing"}
  PROVE  SomebodyAhead'
<1>1. ASSUME NEW t \in Servers, Hopeful(t) PROVE Hopeful(t)'
      BY <1>1 DEF Hopeful
<1>2. ASSUME NEW t \in Servers, NEW r \in Servers, Ahead(t, r), held'[r] \subseteq held[r]
      PROVE  Ahead(t, r)'
      BY <1>2 DEF Ahead
<1>3. ASSUME NEW t \in Servers, NEW r \in Servers, Ahead(t, r) PROVE Hopeful(t)
      BY <1>3 DEF Ahead, Hopeful
<1>4. \A r \in Servers : phase'[r] = "refusing" => \E t \in Servers : Ahead(t, r)'
      BY <1>2 DEF SomebodyAhead
<1>5. (\E r \in Servers : phase'[r] = "refused") => \E t \in Servers : Hopeful(t)'
      BY <1>1, <1>3 DEF SomebodyAhead
<1> QED BY <1>4, <1>5 DEF SomebodyAhead

\* Whoever holds the lock that another is refused is ahead, or somebody else is.
LEMMA RefusalStep ==
  ASSUME TypeOK, LocksExact, InOrder, SomebodyAhead, NEW s \in Servers, LockRefused(s)
  PROVE  SomebodyAhead'
<1>1. PICK d \in NextRoot(s), h \in Servers : d \in held[h]
      BY DEF LockRefused
<1>2. /\ phase[s] = "opening" /\ held' = held
      /\ phase'[s] = "refusing" /\ \A t \in Servers : t # s => phase'[t] = phase[t]
      BY DEF LockRefused, GoTo, TypeOK
<1>3. d \in Unlocked(s) /\ d \in Nat /\ \A t \in Servers : held[t] \subseteq Nat
      BY LifespanAssumption DEF NextRoot, Unlocked, TypeOK
<1>4. \A e \in held[s] : e < d
      BY <1>2, <1>3 DEF InOrder
\* Somebody other than s is sure, or holds d or a lock behind it.
<1>5. PICK t \in Servers : /\ t # s
                           /\ Sure(t) \/ (phase[t] = "opening" /\ \E e \in held[t] : d <= e)
  <2>1. h # s
        BY <1>1, <1>3 DEF Unlocked
  <2>2. CASE phase[h] = "opening"
        BY <1>1, <1>3, <2>1, <2>2
  <2>3. CASE phase[h] = "refusing"
    <3>1. PICK t \in Servers : Ahead(t, h)
          BY <2>3 DEF SomebodyAhead
    <3>2. CASE Sure(t)
          BY <1>2, <3>2 DEF Sure, Serving
    <3>3. CASE ~Sure(t)
      <4>1. phase[t] = "opening" /\ \E e \in held[t] : \A c \in held[h] : c < e
            BY <3>1, <3>3 DEF Ahead
      <4>2. PICK e \in held[t] : d < e
            BY <1>1, <4>1
      <4>3. t # s
            BY <1>3, <1>4, <4>2
      <4> QED BY <1>3, <4>1, <4>2, <4>3
    <3> QED BY <3>2, <3>3
  <2>4. phase[h] \notin {"off", "refused"}
        BY <1>1 DEF LocksExact, Over
  <2>5. phase[h] \notin {"opening", "refusing", "off", "refused"} => Sure(h)
        BY DEF Sure, TypeOK, Phases, Serving, Locking, Over
  <2> QED BY <2>1, <2>2, <2>3, <2>4, <2>5
<1>6. (Sure(t) => Sure(t)') /\ phase'[t] = phase[t] /\ held'[t] = held[t]
      BY <1>2, <1>5 DEF Sure
<1>7. \A r \in Servers : (\A c \in held[r] : c < d) => Ahead(t, r)'
      BY <1>2, <1>3, <1>5, <1>6 DEF Ahead
<1>8. ASSUME NEW r \in Servers, phase'[r] = "refusing" PROVE \E u \in Servers : Ahead(u, r)'
  <2>1. CASE r = s
        BY <1>4, <1>7, <2>1
  <2>2. CASE r # s
    <3>1. PICK u \in Servers : Ahead(u, r)
          BY <1>2, <1>8, <2>2 DEF SomebodyAhead
    <3>2. CASE u = s
      <4>1. ~Sure(s)
            BY <1>2 DEF Sure, Serving
      <4>2. PICK e \in held[s] : \A c \in held[r] : c < e
            BY <3>1, <3>2, <4>1 DEF Ahead
      <4>3. \A c \in held[r] : c < d
            BY <1>3, <1>4, <4>2
      <4> QED BY <1>7, <4>3
    <3>3. CASE u # s
          BY <1>2, <3>1, <3>3 DEF Ahead, Sure
    <3> QED BY <3>2, <3>3
  <2> QED BY <2>1, <2>2
<1>9. Hopeful(t)'
      BY <1>5, <1>6 DEF Hopeful
<1> QED BY <1>8, <1>9 DEF SomebodyAhead

\* Somebody stays ahead.
LEMMA AheadStep ==
  ASSUME TypeOK, LocksExact, InOrder, SomebodyAhead, NEW s \in Servers, ServerStep(s)
  PROVE  SomebodyAhead'
<1> USE DEF TypeOK, Sure, Serving, Locking, Over, GoTo
<1>1. CASE Boot(s) \/ Lock(s) \/ OpenRaises(s) \/ Opened(s)
      BY <1>1, AheadKept DEF Boot, Lock, OpenRaises, Opened
<1>2. CASE LockRefused(s)
      BY <1>2, RefusalStep
<1>3. CASE CloseStep(s)
      BY <1>3, AheadKept DEF CloseStep, Release, Closed
<1>4. CASE ServeStep(s)
      BY <1>4, AheadKept DEF ServeStep, Started, StartRaises, StopBegins, WorkerReturns,
         StopReturns, StopRaises, CleanupStops
<1>5. CASE Kill(s)
      BY <1>5, AheadKept DEF Kill
<1> QED BY <1>1, <1>2, <1>3, <1>4, <1>5 DEF ServerStep, OpenStep

\* The strengthening is an invariant.
LEMMA LifeInvHolds == Spec => []LifeInv
<1>1. Init => LifeInv
  <2> SUFFICES ASSUME Init PROVE LifeInv
      OBVIOUS
  <2>1. TypeOK
        BY LifespanAssumption DEF Init, TypeOK, Phases
  <2>2. LocksExact /\ WorkerAwaited /\ InOrder /\ SomebodyAhead
        BY <2>1 DEF Init, LocksExact, WorkerAwaited, InOrder, SomebodyAhead, TypeOK, Serving
  <2> QED BY <2>1, <2>2 DEF LifeInv
<1>2. LifeInv /\ [Next]_vars => LifeInv'
  <2> SUFFICES ASSUME LifeInv, [Next]_vars PROVE LifeInv'
      OBVIOUS
  <2>1. CASE Next
    <3>1. PICK s \in Servers : ServerStep(s)
          BY <2>1 DEF Next, ServerStep
    <3> QED BY <3>1, TypeStep, LocksStep, WorkerStep, OrderStep, AheadStep DEF LifeInv
  <2>2. CASE UNCHANGED vars
        BY <2>2 DEF vars, LifeInv, TypeOK, LocksExact, WorkerAwaited, InOrder, Unlocked,
           SomebodyAhead, Ahead, Hopeful, Sure
  <2> QED BY <2>1, <2>2
<1> QED BY <1>1, <1>2, PTL DEF Spec

-----------------------------------------------------------------------------
\* Type correctness of the lifespan.
THEOREM LifespanTyped == Spec => []TypeOK
<1>1. LifeInv => TypeOK
      BY DEF LifeInv
<1> QED BY <1>1, LifeInvHolds, PTL

\* No two servers work in one directory.
THEOREM DirectoriesExclusive == Spec => []ExclusiveUse
<1>1. LifeInv => ExclusiveUse
      BY DEF LifeInv, LocksExact, WorkerAwaited, ExclusiveUse, Shared, Serving
<1> QED BY <1>1, LifeInvHolds, PTL

\* Because every process locks in the same order, not all are refused.
THEOREM NotAllRefused == Spec => []SomebodyStarts
<1>1. LifeInv => SomebodyStarts
  <2> SUFFICES ASSUME LifeInv, \A s \in Servers : phase[s] \notin Locking,
                      \E s \in Servers : phase[s] = "refused"
               PROVE  \E s \in Servers : phase[s] \notin {"off", "refused"}
      BY DEF SomebodyStarts
  <2>1. PICK t \in Servers : Hopeful(t)
        BY DEF LifeInv, SomebodyAhead
  <2> QED BY <2>1 DEF Hopeful, Sure, Serving, Locking
<1> QED BY <1>1, LifeInvHolds, PTL
=============================================================================
