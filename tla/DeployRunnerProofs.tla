--------------------------- MODULE DeployRunnerProofs ---------------------------
(***************************************************************************)
(* Proofs about DeployRunner, for any number of jobs, any capacity and any *)
(* number of workers the semaphore has slots for: the shutdown closes the  *)
(* database after the last job, no job is ever in two places, none is      *)
(* lost, and a worker with a job finds a slot.                             *)
(***************************************************************************)
EXTENDS DeployRunner, FiniteSetTheorems, TLAPS

----------------------------------------------------------------------------
(* Places of a queue                                                        *)

\* What is left of a queue when its head was taken.
LEMMA Dequeue ==
    ASSUME NEW S, NEW q \in Seq(S), q # <<>>
    PROVE  /\ Head(q) \in S
           /\ Tail(q) \in Seq(S)
           /\ Len(Tail(q)) = Len(q) - 1
           /\ DOMAIN q = 1..Len(q) /\ Len(q) \in Nat /\ 1 \in DOMAIN q /\ q[1] = Head(q)
           /\ DOMAIN Tail(q) = 1..(Len(q) - 1)
           /\ \A i \in DOMAIN Tail(q) :
                i \in Nat /\ i + 1 # 1 /\ i + 1 \in DOMAIN q /\ Tail(q)[i] = q[i + 1]
  OBVIOUS

\* What a queue is when something was put at its end.
LEMMA Enqueue ==
    ASSUME NEW S, NEW q \in Seq(S), NEW x \in S
    PROVE  /\ Append(q, x) \in Seq(S)
           /\ Len(Append(q, x)) = Len(q) + 1
           /\ DOMAIN q = 1..Len(q) /\ Len(q) \in Nat
           /\ DOMAIN Append(q, x) = DOMAIN q \cup {Len(q) + 1}
           /\ \A i \in DOMAIN q : Append(q, x)[i] = q[i] /\ i # Len(q) + 1
           /\ Append(q, x)[Len(q) + 1] = x
  OBVIOUS

----------------------------------------------------------------------------
(* Where a job is                                                           *)

\* The types of what the places of the jobs depend on.
PlaceTypes ==
    /\ phase \in Phases
    /\ queue \in Seq(Jobs)
    /\ handler \in [Jobs -> HandlerStates]
    /\ worker \in [Workers -> WorkerStates]
    /\ held \in [Workers -> Jobs \cup {None}]
    /\ row \in [Jobs -> {"none", "active", "finished", "interrupted"}]

\* The handler is done with a job that has been queued, and its row is active
\* from the claim on.
PlaceRows ==
    /\ \A j \in Jobs : handler[j] = "accepted" => row[j] = "none"
    /\ \A j \in Jobs : handler[j] = "claimed" => row[j] = "active"
    /\ \A w \in Workers : held[w] # None =>
         handler[held[w]] = "done" /\ row[held[w]] = "active"
    /\ \A i \in DOMAIN queue : handler[queue[i]] = "done" /\ row[queue[i]] = "active"

\* A job is in the queue once, or with one worker, which then works.
PlaceUnique ==
    /\ \A w \in Workers : held[w] = None <=> worker[w] \in {"waiting", "exited"}
    /\ \A v, w \in Workers : v # w /\ held[v] # None => held[v] # held[w]
    /\ \A w \in Workers, i \in DOMAIN queue : held[w] # queue[i]
    /\ \A i, k \in DOMAIN queue : i # k => queue[i] # queue[k]

\* The handles are closed after the last worker has left.
PlaceClosed == phase = "closed" => \A w \in Workers : worker[w] = "exited"

PlaceInv == PlaceTypes /\ PlaceRows /\ PlaceUnique /\ PlaceClosed

\* Nothing is anywhere when a process begins.
LEMMA InitPlace == Init => PlaceInv
  BY NoneIsNoJob
  DEF Init, PlaceInv, PlaceTypes, PlaceRows, PlaceUnique, PlaceClosed, Phases,
      HandlerStates, WorkerStates

\* The claim makes the row active before anything is queued, and the job is
\* queued once, when its handler ends.
LEMMA HandlePlace ==
    ASSUME PlaceInv, NEW j \in Jobs, Handle(j)
    PROVE  PlaceInv'
  <1> USE NoneIsNoJob DEF PlaceInv
  <1>1. CASE Accept(j)
    BY <1>1 DEF Accept, PlaceTypes, PlaceRows, PlaceUnique, PlaceClosed, HandlerStates
  <1>2. CASE ClaimOperation(j)
    BY <1>2 DEF ClaimOperation, PlaceTypes, PlaceRows, PlaceUnique, PlaceClosed, HandlerStates
  <1>3. CASE Submit(j)
    <2>1. CASE queue' = Append(queue, j)
      <3> DEFINE n == Len(queue) + 1
      <3>1. /\ queue' \in Seq(Jobs)
            /\ DOMAIN queue' = DOMAIN queue \cup {n}
            /\ \A i \in DOMAIN queue : queue'[i] = queue[i] /\ i # n
            /\ queue'[n] = j
        BY <2>1, Enqueue DEF PlaceTypes
      <3> HIDE DEF n
      <3>2. handler[j] = "claimed" /\ row[j] = "active"
        BY <1>3 DEF Submit, PlaceRows
      <3>3. /\ \A w \in Workers : held[w] # j
            /\ \A i \in DOMAIN queue : queue[i] # j
        BY <3>2 DEF PlaceRows
      <3>4. handler' = [handler EXCEPT ![j] = "done"] /\ UNCHANGED <<phase, worker, held, row>>
        BY <1>3 DEF Submit
      <3>5. PlaceTypes'
        BY <3>1, <3>4 DEF PlaceTypes, HandlerStates
      <3>6. PlaceRows'
        BY <3>1, <3>2, <3>4 DEF PlaceRows, PlaceTypes
      <3>7. PlaceUnique'
        BY <3>1, <3>3, <3>4 DEF PlaceUnique
      <3> QED
        BY <3>4, <3>5, <3>6, <3>7 DEF PlaceClosed
    <2>2. CASE UNCHANGED queue
      BY <1>3, <2>2 DEF Submit, PlaceTypes, PlaceRows, PlaceUnique, PlaceClosed, HandlerStates
    <2> QED
      BY <1>3, <2>1, <2>2 DEF Submit
  <1> QED
    BY <1>1, <1>2, <1>3 DEF Handle

\* A job goes from the queue to one worker and from there nowhere.
LEMMA WorkPlace ==
    ASSUME PlaceInv, NEW w \in Workers, Work(w)
    PROVE  PlaceInv'
  <1> USE NoneIsNoJob DEF PlaceInv
  <1>1. CASE WorkerTakes(w)
    <2>1. /\ Head(queue) \in Jobs
          /\ queue' \in Seq(Jobs)
          /\ 1 \in DOMAIN queue /\ queue[1] = Head(queue)
          /\ \A i \in DOMAIN queue' :
               i \in Nat /\ i + 1 # 1 /\ i + 1 \in DOMAIN queue /\ queue'[i] = queue[i + 1]
      BY <1>1, Dequeue DEF WorkerTakes, PlaceTypes
    <2>2. /\ worker' = [worker EXCEPT ![w] = "took"]
          /\ held' = [held EXCEPT ![w] = Head(queue)]
          /\ worker[w] = "waiting"
          /\ UNCHANGED <<phase, handler, row>>
      BY <1>1 DEF WorkerTakes
    <2>3. PlaceTypes'
      BY <2>1, <2>2 DEF PlaceTypes, WorkerStates
    <2>4. PlaceRows'
      BY <2>1, <2>2 DEF PlaceRows, PlaceTypes
    <2>5. \A v \in Workers : v # w => held'[v] = held[v] /\ held[v] # Head(queue)
      BY <2>1, <2>2 DEF PlaceUnique, PlaceTypes
    <2>6. held'[w] = Head(queue)
      BY <2>2 DEF PlaceTypes
    <2>7. \A v \in Workers, i \in DOMAIN queue' : held'[v] # queue'[i]
      BY <2>1, <2>5, <2>6 DEF PlaceUnique
    <2>8. \A i, k \in DOMAIN queue' : i # k => queue'[i] # queue'[k]
      <3> SUFFICES ASSUME NEW i \in DOMAIN queue', NEW k \in DOMAIN queue', i # k
                   PROVE  queue'[i] # queue'[k]
        OBVIOUS
      <3>1. i + 1 # k + 1
        BY <2>1
      <3> QED
        BY <2>1, <3>1 DEF PlaceUnique
    <2>9. PlaceUnique'
      BY <2>1, <2>2, <2>5, <2>6, <2>7, <2>8 DEF PlaceUnique, PlaceTypes
    <2> QED
      BY <2>2, <2>3, <2>4, <2>9 DEF PlaceClosed, PlaceTypes
  <1>2. CASE WorkerStops(w)
    BY <1>2 DEF WorkerStops, PlaceTypes, PlaceRows, PlaceUnique, PlaceClosed, WorkerStates
  <1>3. CASE WorkerEnters(w)
    BY <1>3 DEF WorkerEnters, PlaceTypes, PlaceRows, PlaceUnique, PlaceClosed, WorkerStates
  <1>4. CASE WorkerStarts(w)
    BY <1>4 DEF WorkerStarts, PlaceTypes, PlaceRows, PlaceUnique, PlaceClosed, WorkerStates
  <1>5. CASE WorkerFinishes(w)
    <2>1. held[w] \in Jobs
      BY <1>5 DEF WorkerFinishes, PlaceTypes, PlaceUnique
    <2>2. PlaceTypes'
      BY <1>5, <2>1 DEF WorkerFinishes, PlaceTypes, WorkerStates
    <2>3. PlaceRows'
      BY <1>5, <2>1 DEF WorkerFinishes, PlaceTypes, PlaceRows, PlaceUnique
    <2>4. PlaceUnique'
      BY <1>5 DEF WorkerFinishes, PlaceTypes, PlaceUnique
    <2> QED
      BY <1>5, <2>2, <2>3, <2>4 DEF WorkerFinishes, PlaceClosed
  <1> QED
    BY <1>1, <1>2, <1>3, <1>4, <1>5 DEF Work

\* The process moves no job; a new one has none.
LEMMA ProcessPlace ==
    ASSUME PlaceInv, Drain \/ ShutDown \/ Ends \/ Restart
    PROVE  PlaceInv'
  <1> USE DEF PlaceInv
  <1>1. CASE Drain \/ ShutDown \/ Ends
    BY <1>1
    DEF Drain, ShutDown, Drained, Cancel, StopRunner, Close, Ends, process,
        PlaceTypes, PlaceRows, PlaceUnique, PlaceClosed, Phases
  <1>2. CASE Restart
    BY <1>2, NoneIsNoJob
    DEF Restart, PlaceTypes, PlaceRows, PlaceUnique, PlaceClosed, Phases,
        HandlerStates, WorkerStates
  <1> QED
    BY <1>1, <1>2

LEMMA PlaceInvariant == Spec => []PlaceInv
  <1>1. PlaceInv /\ [Next]_vars => PlaceInv'
    <2> SUFFICES ASSUME PlaceInv, [Next]_vars PROVE PlaceInv'
      OBVIOUS
    <2>1. CASE UNCHANGED vars
      BY <2>1
      DEF vars, process, PlaceInv, PlaceTypes, PlaceRows, PlaceUnique, PlaceClosed
    <2>2. CASE Next
      BY <2>2, HandlePlace, WorkPlace, ProcessPlace DEF Next
    <2> QED
      BY <2>1, <2>2
  <1> QED
    BY InitPlace, <1>1, PTL DEF Spec

\* Server.Shutdown closes the handles after the last worker has left, whatever
\* is queued, submitted or running when it begins.
THEOREM HandlesAreClosedLast == Spec => []HandlesOutliveJobs
  <1>1. PlaceInv => HandlesOutliveJobs
    BY DEF PlaceInv, PlaceUnique, PlaceClosed, HandlesOutliveJobs
  <1> QED
    BY PlaceInvariant, <1>1, PTL

\* A job is run by one worker, once: it is never queued twice, nor queued and
\* being worked on, nor worked on by two.
THEOREM NoJobRunsTwice == Spec => []JobsRunOnce
  <1>1. PlaceInv => JobsRunOnce
    BY DEF PlaceInv, PlaceRows, PlaceUnique, JobsRunOnce, Queued
  <1> QED
    BY PlaceInvariant, <1>1, PTL

----------------------------------------------------------------------------
(* No job gets lost                                                         *)

OnItsWay(j) == handler[j] = "claimed" \/ Queued(j) \/ \E w \in Workers : Holds(w, j)

\* Until the runner is stopped the job of every active row is somewhere.
WayInv ==
    /\ stopped \in BOOLEAN
    /\ stopped => phase \in {"stopping", "closed", "down"}
    /\ Alive /\ ~stopped => \A j \in Jobs : row[j] = "active" => OnItsWay(j)

LEMMA InitWay == Init => WayInv
  BY DEF Init, WayInv

\* A submit that is not stopped queues the job.
LEMMA HandleWay ==
    ASSUME PlaceTypes, WayInv, NEW j \in Jobs, Handle(j)
    PROVE  WayInv'
  <1> USE DEF WayInv, PlaceTypes
  <1>1. CASE Accept(j)
    BY <1>1 DEF Accept, Alive, OnItsWay, Queued, Holds
  <1>2. CASE ClaimOperation(j)
    BY <1>2 DEF ClaimOperation, Alive, OnItsWay, Queued, Holds, HandlerStates
  <1>3. CASE Submit(j) /\ stopped
    BY <1>3 DEF Submit
  <1>4. CASE Submit(j) /\ ~stopped
    <2>1. /\ queue' = Append(queue, j)
          /\ handler' = [handler EXCEPT ![j] = "done"]
          /\ UNCHANGED <<phase, stopped, worker, held, row>>
      BY <1>4 DEF Submit
    <2>2. /\ DOMAIN queue' = DOMAIN queue \cup {Len(queue) + 1}
          /\ \A i \in DOMAIN queue : queue'[i] = queue[i]
          /\ queue'[Len(queue) + 1] = j
      BY <2>1, Enqueue
    <2>3. \A k \in Jobs : OnItsWay(k) => OnItsWay(k)'
      BY <2>1, <2>2 DEF OnItsWay, Queued, Holds
    <2> QED
      BY <2>1, <2>3 DEF Alive
  <1> QED
    BY <1>1, <1>2, <1>3, <1>4 DEF Handle

\* A worker drops its job only when the runner is stopped, or the row is
\* finished.
LEMMA WorkWay ==
    ASSUME PlaceInv, WayInv, NEW w \in Workers, Work(w)
    PROVE  WayInv'
  <1> USE DEF WayInv, PlaceTypes, PlaceInv
  <1>1. CASE WorkerTakes(w)
    <2>1. /\ held' = [held EXCEPT ![w] = Head(queue)]
          /\ queue' = Tail(queue) /\ queue # <<>>
          /\ UNCHANGED <<phase, stopped, handler, row>>
          /\ held[w] = None
      BY <1>1 DEF WorkerTakes, PlaceUnique
    <2>2. \A k \in Jobs : Queued(k) => Queued(k)' \/ k = Head(queue)
      <3> SUFFICES ASSUME NEW k \in Jobs, NEW i \in DOMAIN queue, queue[i] = k, k # Head(queue)
                   PROVE  Queued(k)'
        BY DEF Queued
      <3>1. i - 1 \in DOMAIN Tail(queue) /\ Tail(queue)[i - 1] = queue[i]
        BY <2>1, Dequeue
      <3> QED
        BY <2>1, <3>1 DEF Queued
    <2>3. \A k \in Jobs : OnItsWay(k) => OnItsWay(k)'
      BY <2>1, <2>2, NoneIsNoJob DEF OnItsWay, Holds
    <2> QED
      BY <2>1, <2>3 DEF Alive
  <1>2. CASE WorkerStops(w)
    BY <1>2 DEF WorkerStops
  <1>3. CASE WorkerEnters(w)
    BY <1>3 DEF WorkerEnters, Alive, OnItsWay, Queued, Holds
  <1>4. CASE WorkerStarts(w)
    BY <1>4 DEF WorkerStarts, Alive, OnItsWay, Queued, Holds
  <1>5. CASE WorkerFinishes(w)
    <2>1. held[w] \in Jobs /\ row[held[w]] = "active"
      BY <1>5 DEF WorkerFinishes, PlaceUnique, PlaceRows
    <2>2. row' = [row EXCEPT ![held[w]] = "finished"]
      BY <1>5, <2>1 DEF WorkerFinishes
    <2>3. \A k \in Jobs : k # held[w] /\ OnItsWay(k) => OnItsWay(k)'
      BY <1>5 DEF WorkerFinishes, OnItsWay, Queued, Holds
    <2> QED
      BY <1>5, <2>1, <2>2, <2>3 DEF WorkerFinishes, Alive
  <1> QED
    BY <1>1, <1>2, <1>3, <1>4, <1>5 DEF Work

LEMMA ProcessWay ==
    ASSUME PlaceTypes, WayInv, Drain \/ ShutDown \/ Ends \/ Restart
    PROVE  WayInv'
  <1> USE DEF WayInv, PlaceTypes
  <1>1. CASE Drain \/ ShutDown \/ Ends
    <2>1. UNCHANGED <<queue, handler, worker, held, row>>
      BY <1>1 DEF Drain, ShutDown, Drained, Cancel, StopRunner, Close, Ends, process
    <2>2. \A j \in Jobs : OnItsWay(j) => OnItsWay(j)'
      BY <2>1 DEF OnItsWay, Queued, Holds
    <2>3. CASE Drain \/ Drained \/ Cancel
      BY <2>1, <2>2, <2>3 DEF Drain, Drained, Cancel, process, Alive
    <2>4. CASE StopRunner
      BY <2>4 DEF StopRunner
    <2>5. CASE Close
      BY <2>1, <2>2, <2>5 DEF Close, process, Alive
    <2>6. CASE Ends
      BY <2>6 DEF Ends, process, Alive
    <2> QED
      BY <1>1, <2>3, <2>4, <2>5, <2>6 DEF ShutDown
  <1>2. CASE Restart
    BY <1>2 DEF Restart
  <1> QED
    BY <1>1, <1>2

LEMMA WayInvariant == Spec => []WayInv
  <1>1. PlaceInv /\ WayInv /\ [Next]_vars => WayInv'
    <2> SUFFICES ASSUME PlaceInv, WayInv, [Next]_vars PROVE WayInv'
      OBVIOUS
    <2>1. CASE UNCHANGED vars
      BY <2>1 DEF vars, process, WayInv, Alive, OnItsWay, Queued, Holds
    <2>2. CASE Next
      BY <2>2, HandleWay, WorkWay, ProcessWay DEF Next, PlaceInv
    <2> QED
      BY <2>1, <2>2
  <1> QED
    BY InitWay, PlaceInvariant, <1>1, PTL DEF Spec

\* As long as the service runs, no claimed operation is without a job that will
\* finish it: a full queue makes its handler wait, it does not lose the job.
THEOREM NoClaimIsForgotten == Spec => []NoJobIsLost
  <1>1. WayInv => NoJobIsLost
    BY DEF WayInv, NoJobIsLost, Alive, OnItsWay
  <1> QED
    BY WayInvariant, <1>1, PTL

----------------------------------------------------------------------------
(* Slots                                                                    *)

Runners == {w \in Workers : worker[w] = "running"}

\* A slot is free or with a worker that runs a job.
SlotInv ==
    /\ worker \in [Workers -> WorkerStates]
    /\ free \in Int
    /\ free + Cardinality(Runners) = Slots

\* The runners are some of the workers; one more or one less is counted so.
LEMMA CountRunners ==
    /\ IsFiniteSet(Runners)
    /\ Cardinality(Runners) \in Nat
    /\ \A w \in Workers \ Runners :
         /\ Cardinality(Runners \cup {w}) = Cardinality(Runners) + 1
         /\ Cardinality(Runners) < Cardinality(Workers)
    /\ \A w \in Runners : Cardinality(Runners \ {w}) = Cardinality(Runners) - 1
    /\ Cardinality(Runners) <= Cardinality(Workers)
    /\ Cardinality(Workers) \in Nat
  <1>1. /\ Runners \subseteq Workers
        /\ IsFiniteSet(Workers)
    BY WorkersAreFew DEF Runners
  <1>2. IsFiniteSet(Runners) /\ Cardinality(Runners) <= Cardinality(Workers)
    BY <1>1, FS_Subset
  <1>3. Cardinality(Runners) \in Nat /\ Cardinality(Workers) \in Nat
    BY <1>1, <1>2, FS_CardinalityType
  <1>4. ASSUME NEW w \in Workers \ Runners
        PROVE  /\ Cardinality(Runners \cup {w}) = Cardinality(Runners) + 1
               /\ Cardinality(Runners) < Cardinality(Workers)
    <2>1. Cardinality(Runners \cup {w}) = Cardinality(Runners) + 1
      BY <1>2, FS_AddElement
    <2>2. Cardinality(Runners \cup {w}) <= Cardinality(Workers)
      <3>1. Runners \cup {w} \subseteq Workers
        BY <1>1
      <3> QED
        BY <1>1, <3>1, FS_Subset
    <2> QED
      BY <1>3, <2>1, <2>2
  <1>5. ASSUME NEW w \in Runners
        PROVE  Cardinality(Runners \ {w}) = Cardinality(Runners) - 1
    BY <1>2, FS_RemoveElement
  <1> QED
    BY <1>2, <1>3, <1>4, <1>5

\* A worker takes a slot when it begins to run and gives it back when it ends;
\* nobody else changes who runs, but the process that starts anew.
LEMMA WorkSlots ==
    ASSUME SlotInv, NEW w \in Workers, Work(w)
    PROVE  SlotInv'
  <1> USE SlotsIsPositive DEF SlotInv
  <1>1. CASE WorkerTakes(w) \/ WorkerStops(w) \/ WorkerEnters(w)
    <2>1. Runners' = Runners
      BY <1>1 DEF WorkerTakes, WorkerStops, WorkerEnters, Runners, WorkerStates
    <2> QED
      BY <1>1, <2>1 DEF WorkerTakes, WorkerStops, WorkerEnters, WorkerStates
  <1>2. CASE WorkerStarts(w)
    <2>1. w \in Workers \ Runners /\ Runners' = Runners \cup {w}
      BY <1>2 DEF WorkerStarts, Runners, WorkerStates
    <2>2. Cardinality(Runners') = Cardinality(Runners) + 1 /\ Cardinality(Runners) \in Nat
      BY <2>1, CountRunners
    <2> QED
      BY <1>2, <2>2 DEF WorkerStarts, WorkerStates
  <1>3. CASE WorkerFinishes(w)
    <2>1. w \in Runners /\ Runners' = Runners \ {w}
      BY <1>3 DEF WorkerFinishes, Runners, WorkerStates
    <2>2. Cardinality(Runners') = Cardinality(Runners) - 1 /\ Cardinality(Runners) \in Nat
      BY <2>1, CountRunners
    <2> QED
      BY <1>3, <2>2 DEF WorkerFinishes, WorkerStates
  <1> QED
    BY <1>1, <1>2, <1>3 DEF Work

LEMMA AllSlotsFree ==
    ASSUME \A w \in Workers : worker[w] = "waiting", free = Slots,
           worker \in [Workers -> WorkerStates]
    PROVE  SlotInv
  <1>1. Runners = {}
    BY DEF Runners
  <1>2. Cardinality(Runners) = 0
    BY <1>1, FS_EmptySet
  <1> QED
    BY <1>2, SlotsIsPositive DEF SlotInv

LEMMA SlotInvariant == Spec => []SlotInv
  <1>1. Init => SlotInv
    <2> SUFFICES ASSUME Init PROVE SlotInv
      OBVIOUS
    <2> QED
      BY AllSlotsFree DEF Init, WorkerStates
  <1>2. SlotInv /\ [Next]_vars => SlotInv'
    <2> SUFFICES ASSUME SlotInv, [Next]_vars PROVE SlotInv'
      OBVIOUS
    <2>1. CASE UNCHANGED <<worker, free>>
      BY <2>1 DEF SlotInv, Runners
    <2>2. CASE \E w \in Workers : Work(w)
      BY <2>2, WorkSlots
    <2>3. CASE Restart
      <3>1. /\ \A w \in Workers : worker'[w] = "waiting"
            /\ free' = Slots
            /\ worker' \in [Workers -> WorkerStates]
        BY <2>3 DEF Restart, WorkerStates
      <3>2. Runners' = {}
        BY <3>1 DEF Runners
      <3>3. Cardinality(Runners') = 0
        BY <3>2, FS_EmptySet
      <3> QED
        BY <3>1, <3>3, SlotsIsPositive DEF SlotInv
    <2> QED
      BY <2>1, <2>2, <2>3
      DEF Next, vars, process, Handle, Accept, ClaimOperation, Submit, Drain, ShutDown,
          Drained, Cancel, StopRunner, Close, Ends
  <1> QED
    BY <1>1, <1>2, PTL DEF Spec

\* With no more workers than slots the semaphore every job acquires never
\* holds one up.
THEOREM NoJobWaitsForASlot == Spec => []SlotsSuffice
  <1>1. SlotInv => SlotsSuffice
    <2> SUFFICES ASSUME SlotInv, NEW w \in Workers, worker[w] = "entering" PROVE free > 0
      BY DEF SlotsSuffice
    <2>1. w \in Workers \ Runners
      BY DEF Runners
    <2>2. Cardinality(Runners) < Cardinality(Workers) /\ Cardinality(Runners) \in Nat
          /\ Cardinality(Workers) \in Nat
      BY <2>1, CountRunners
    <2> QED
      BY <2>2, WorkersAreFew, SlotsIsPositive DEF SlotInv
  <1> QED
    BY SlotInvariant, <1>1, PTL

\* The types, among them the bounds of the queue and of the semaphore.
THEOREM RunnerTypeOK == Spec => []TypeOK
  <1> DEFINE Rest == cancelled \in BOOLEAN /\ Len(queue) <= Capacity
  <1>0. \A q : q = <<>> => Len(q) <= Capacity
    BY CapacityIsPositive
  <1>1. Init => Rest
    <2>1. Init => queue = <<>> /\ cancelled \in BOOLEAN
      BY DEF Init
    <2> QED
      BY <1>0, <2>1
  <1>2. PlaceInv /\ Rest /\ [Next]_vars => Rest'
    <2> SUFFICES ASSUME PlaceInv, Rest, [Next]_vars PROVE Rest'
      OBVIOUS
    <2> USE CapacityIsPositive
    <2>1. CASE UNCHANGED <<queue, cancelled>>
      BY <2>1
    <2>2. CASE \E j \in Jobs : Submit(j)
      <3> PICK j \in Jobs : Submit(j)
        BY <2>2
      <3>1. cancelled' = cancelled
            /\ (queue' = queue \/ (Len(queue) < Capacity /\ queue' = Append(queue, j)))
        BY DEF Submit
      <3>2. queue \in Seq(Jobs)
        BY DEF PlaceInv, PlaceTypes
      <3>3. Len(Append(queue, j)) = Len(queue) + 1 /\ Len(queue) \in Nat
        BY <3>2, Enqueue
      <3> QED
        BY <3>1, <3>3
    <2>3. CASE \E w \in Workers : WorkerTakes(w)
      <3>1. cancelled' = cancelled /\ queue # <<>> /\ queue' = Tail(queue) /\ queue \in Seq(Jobs)
        BY <2>3 DEF WorkerTakes, PlaceInv, PlaceTypes
      <3>2. Len(queue') = Len(queue) - 1 /\ Len(queue) \in Nat
        BY <3>1, Dequeue
      <3> QED
        BY <3>1, <3>2
    <2>4. CASE Cancel \/ StopRunner
      BY <2>4 DEF Cancel, StopRunner
    <2>5. CASE Restart
      <3>1. queue' = <<>> /\ cancelled' \in BOOLEAN
        BY <2>5 DEF Restart
      <3> QED
        BY <1>0, <3>1
    <2> QED
      BY <2>1, <2>2, <2>3, <2>4, <2>5
      DEF Next, vars, process, Handle, Accept, ClaimOperation, Work, WorkerStops,
          WorkerEnters, WorkerStarts, WorkerFinishes, Drain, ShutDown, Drained, Close, Ends
  <1>3. PlaceInv /\ WayInv /\ SlotInv /\ Rest => TypeOK
    <2> SUFFICES ASSUME PlaceInv, WayInv, SlotInv, Rest PROVE TypeOK
      OBVIOUS
    <2>1. free \in 0..Slots
      BY CountRunners, WorkersAreFew, SlotsIsPositive DEF SlotInv
    <2> QED
      BY <2>1 DEF PlaceInv, PlaceTypes, WayInv, TypeOK
  <1> HIDE DEF Rest
  <1> QED
    BY <1>1, <1>2, <1>3, PlaceInvariant, WayInvariant, SlotInvariant, PTL DEF Spec
================================================================================
