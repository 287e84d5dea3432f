------------------------------ MODULE DeployRunner ------------------------------
(***************************************************************************)
(* How the service runs its deployments: HTTP handlers claim an operation  *)
(* and submit a job to a bounded queue, workers take jobs off it, and the  *)
(* shutdown stops the workers before it closes the database. What a job    *)
(* does to its app is in other modules; here it runs and finishes its row. *)
(***************************************************************************)
EXTENDS Naturals, Sequences, FiniteSets

CONSTANTS
    Jobs,       \* one handler call, its operation and its job
    Workers,    \* the worker goroutines (2 in the service)
    Capacity,   \* of the job queue (32 in the service)
    Slots,      \* of the semaphore every job acquires (2 in the service)
    None        \* no job

ASSUME CapacityIsPositive == Capacity \in Nat \ {0}
ASSUME SlotsIsPositive == Slots \in Nat \ {0}
ASSUME NoneIsNoJob == None \notin Jobs
ASSUME WorkersAreFew == IsFiniteSet(Workers) /\ Cardinality(Workers) <= Slots

VARIABLES
    phase,      \* where the main goroutine of the process is
    cancelled,  \* the lifecycle context, parent of every job's context, is done
    stopped,    \* the runner's stop channel is closed
    queue,      \* the job channel
    handler,    \* handler[j]: how far the HTTP handler has come
    worker,     \* worker[w]: what the worker does
    held,       \* held[w]: the job it does it with
    free,       \* free slots of the semaphore
    row         \* row[j]: the operation row in the database

process == <<cancelled, stopped, queue, handler, worker, held, free>>
vars == <<phase, process, row>>

\* serving   accepting requests
\* draining  http.Server.Shutdown waits for the handlers, 20 seconds at most
\* drained   it has returned
\* stopping  stopRunner waits for the workers
\* closed    the database handle is closed
\* down      there is no process
Phases == {"serving", "draining", "drained", "stopping", "closed", "down"}
HandlerStates == {"idle", "accepted", "claimed", "done"}
WorkerStates == {"waiting", "took", "entering", "running", "exited"}

TypeOK ==
    /\ phase \in Phases
    /\ cancelled \in BOOLEAN
    /\ stopped \in BOOLEAN
    /\ queue \in Seq(Jobs)
    /\ Len(queue) <= Capacity
    /\ handler \in [Jobs -> HandlerStates]
    /\ worker \in [Workers -> WorkerStates]
    /\ held \in [Workers -> Jobs \cup {None}]
    /\ free \in 0..Slots
    /\ row \in [Jobs -> {"none", "active", "finished", "interrupted"}]

Init ==
    /\ phase = "serving"
    /\ cancelled = FALSE
    /\ stopped = FALSE
    /\ queue = <<>>
    /\ handler = [j \in Jobs |-> "idle"]
    /\ worker = [w \in Workers |-> "waiting"]
    /\ held = [w \in Workers |-> None]
    /\ free = Slots
    /\ row = [j \in Jobs |-> "none"]

Alive == phase # "down"
Queued(j) == \E i \in DOMAIN queue : queue[i] = j
Holds(w, j) == held[w] = j

----------------------------------------------------------------------------
(* Handlers                                                                 *)

Accept(j) ==
    /\ phase = "serving"
    /\ handler[j] = "idle" /\ row[j] = "none"
    /\ handler' = [handler EXCEPT ![j] = "accepted"]
    /\ UNCHANGED <<phase, cancelled, stopped, queue, worker, held, free, row>>

\* The claim, which is refused, or fails because the database is closed.
ClaimOperation(j) ==
    /\ Alive
    /\ handler[j] = "accepted"
    /\ \/ /\ phase # "closed"
          /\ handler' = [handler EXCEPT ![j] = "claimed"]
          /\ row' = [row EXCEPT ![j] = "active"]
       \/ handler' = [handler EXCEPT ![j] = "done"] /\ UNCHANGED row
    /\ UNCHANGED <<phase, cancelled, stopped, queue, worker, held, free>>

\* Faulty: a full queue turns the job away.
SubmitOrDrop(j) ==
    /\ Alive
    /\ handler[j] = "claimed"
    /\ \/ Len(queue) < Capacity /\ queue' = Append(queue, j)
       \/ (stopped \/ Len(queue) = Capacity) /\ UNCHANGED queue
    /\ handler' = [handler EXCEPT ![j] = "done"]
    /\ UNCHANGED <<phase, cancelled, stopped, worker, held, free, row>>

\* Faulty: the queue takes any number of jobs.
SubmitUnbounded(j) ==
    /\ Alive
    /\ handler[j] = "claimed"
    /\ queue' = Append(queue, j)
    /\ handler' = [handler EXCEPT ![j] = "done"]
    /\ UNCHANGED <<phase, cancelled, stopped, worker, held, free, row>>

\* submit blocks until there is room or the runner was stopped; with both, the
\* select picks either. The handler answers the request and is done.
Submit(j) ==
    /\ Alive
    /\ handler[j] = "claimed"
    /\ \/ Len(queue) < Capacity /\ queue' = Append(queue, j)
       \/ stopped /\ UNCHANGED queue
    /\ handler' = [handler EXCEPT ![j] = "done"]
    /\ UNCHANGED <<phase, cancelled, stopped, worker, held, free, row>>

----------------------------------------------------------------------------
(* Workers                                                                  *)

\* Faulty: the job is read off the queue, and stays there.
WorkerTakesCopy(w) ==
    /\ Alive
    /\ worker[w] = "waiting" /\ queue # <<>>
    /\ worker' = [worker EXCEPT ![w] = "took"]
    /\ held' = [held EXCEPT ![w] = Head(queue)]
    /\ UNCHANGED <<phase, cancelled, stopped, queue, handler, free, row>>

\* The select picks the job.
WorkerTakes(w) ==
    /\ Alive
    /\ worker[w] = "waiting" /\ queue # <<>>
    /\ worker' = [worker EXCEPT ![w] = "took"]
    /\ held' = [held EXCEPT ![w] = Head(queue)]
    /\ queue' = Tail(queue)
    /\ UNCHANGED <<phase, cancelled, stopped, handler, free, row>>

\* Faulty: an idle worker does not look at the stop channel.
WorkerStopsOnlyWithJob(w) ==
    /\ Alive /\ stopped
    /\ worker[w] = "took"
    /\ worker' = [worker EXCEPT ![w] = "exited"]
    /\ held' = [held EXCEPT ![w] = None]
    /\ UNCHANGED <<phase, cancelled, stopped, queue, handler, free, row>>

\* The select picks the stop channel, or the look at it after a job was taken
\* finds it closed; that job is abandoned.
WorkerStops(w) ==
    /\ Alive /\ stopped
    /\ worker[w] \in {"waiting", "took"}
    /\ worker' = [worker EXCEPT ![w] = "exited"]
    /\ held' = [held EXCEPT ![w] = None]
    /\ UNCHANGED <<phase, cancelled, stopped, queue, handler, free, row>>

WorkerEnters(w) ==
    /\ Alive /\ ~stopped
    /\ worker[w] = "took"
    /\ worker' = [worker EXCEPT ![w] = "entering"]
    /\ UNCHANGED <<phase, cancelled, stopped, queue, handler, held, free, row>>

\* The job acquires its slot; the runner may have been stopped meanwhile.
WorkerStarts(w) ==
    /\ Alive
    /\ worker[w] = "entering" /\ free > 0
    /\ worker' = [worker EXCEPT ![w] = "running"]
    /\ free' = free - 1
    /\ UNCHANGED <<phase, cancelled, stopped, queue, handler, held, row>>

\* The job is over, by success, failure or a panic it recovers from: it
\* finishes its row and gives its slot back.
WorkerFinishes(w) ==
    /\ Alive
    /\ worker[w] = "running"
    /\ worker' = [worker EXCEPT ![w] = "waiting"]
    /\ held' = [held EXCEPT ![w] = None]
    /\ free' = free + 1
    /\ row' = [row EXCEPT ![held[w]] = IF @ = "active" THEN "finished" ELSE @]
    /\ UNCHANGED <<phase, cancelled, stopped, queue, handler>>

----------------------------------------------------------------------------
(* The process                                                              *)

\* A signal, or the listener fails.
Drain ==
    /\ phase = "serving"
    /\ phase' = "draining"
    /\ UNCHANGED <<process, row>>

\* All handlers are done, or the twenty seconds are over.
Drained ==
    /\ phase = "draining"
    /\ phase' = "drained"
    /\ UNCHANGED <<process, row>>

\* Server.Shutdown cancels the lifecycle context ...
Cancel ==
    /\ phase = "drained" /\ ~cancelled
    /\ cancelled' = TRUE
    /\ UNCHANGED <<phase, stopped, queue, handler, worker, held, free, row>>

\* ... stops the runner ...
StopRunner ==
    /\ phase = "drained" /\ cancelled
    /\ phase' = "stopping"
    /\ stopped' = TRUE
    /\ UNCHANGED <<cancelled, queue, handler, worker, held, free, row>>

\* Faulty: nobody waits for the workers.
CloseAtOnce ==
    /\ phase = "stopping"
    /\ phase' = "closed"
    /\ UNCHANGED <<process, row>>

\* ... and, when every worker has left, closes the handles.
Close ==
    /\ phase = "stopping"
    /\ \A w \in Workers : worker[w] = "exited"
    /\ phase' = "closed"
    /\ UNCHANGED <<process, row>>

\* The process ends after that, or is killed at any time.
Ends ==
    /\ Alive
    /\ phase' = "down"
    /\ UNCHANGED <<process, row>>

\* Faulty: the recovery of a new process is left out.
RestartUnrecovered ==
    /\ phase = "down"
    /\ phase' = "serving"
    /\ cancelled' = FALSE
    /\ stopped' = FALSE
    /\ queue' = <<>>
    /\ handler' = [j \in Jobs |-> "idle"]
    /\ worker' = [w \in Workers |-> "waiting"]
    /\ held' = [w \in Workers |-> None]
    /\ free' = Slots
    /\ UNCHANGED row

\* A new process: NewServer interrupts what the last one left active.
Restart ==
    /\ phase = "down"
    /\ phase' = "serving"
    /\ cancelled' = FALSE
    /\ stopped' = FALSE
    /\ queue' = <<>>
    /\ handler' = [j \in Jobs |-> "idle"]
    /\ worker' = [w \in Workers |-> "waiting"]
    /\ held' = [w \in Workers |-> None]
    /\ free' = Slots
    /\ row' = [j \in Jobs |-> IF row[j] = "active" THEN "interrupted" ELSE row[j]]

----------------------------------------------------------------------------
Handle(j) == Accept(j) \/ ClaimOperation(j) \/ Submit(j)
Work(w) ==
    WorkerTakes(w) \/ WorkerStops(w) \/ WorkerEnters(w) \/ WorkerStarts(w)
    \/ WorkerFinishes(w)
ShutDown == Drained \/ Cancel \/ StopRunner \/ Close

Next ==
    \/ \E j \in Jobs : Handle(j)
    \/ \E w \in Workers : Work(w)
    \/ Drain \/ ShutDown \/ Ends \/ Restart

Spec == Init /\ [][Next]_vars

\* Goroutines that can run do (a submit that waits for room is served in the
\* order of arrival), a job ends (its context has a deadline), the supervisor
\* starts the service again. Nothing makes a client send a request, nor the
\* process end before its shutdown is over.
FairSpec ==
    /\ Spec
    /\ \A j \in Jobs : WF_vars(ClaimOperation(j)) /\ SF_vars(Submit(j))
    /\ \A w \in Workers : WF_vars(Work(w))
    /\ WF_vars(ShutDown)
    /\ WF_vars(phase = "closed" /\ Ends)
    /\ WF_vars(Restart)

----------------------------------------------------------------------------
(* Properties                                                               *)

\* The database is closed under nobody who works on a deployment ("stops
\* background deployment workers before closing the Podman and SQLite
\* handles").
HandlesOutliveJobs ==
    phase = "closed" => \A w \in Workers : held[w] = None /\ worker[w] = "exited"

\* No job is in two places, so no two workers ever run it and none runs it
\* again when it is done.
JobsRunOnce ==
    /\ \A v, w \in Workers : v # w /\ held[v] # None => held[v] # held[w]
    /\ \A w \in Workers : held[w] # None => ~Queued(held[w]) /\ row[held[w]] = "active"
    /\ \A i, k \in DOMAIN queue : i # k => queue[i] # queue[k]

\* While the service is not being stopped an active operation is on its way:
\* its handler is about to submit the job, or it is queued, or a worker has it.
NoJobIsLost ==
    phase = "serving" =>
        \A j \in Jobs : row[j] = "active" =>
            handler[j] = "claimed" \/ Queued(j) \/ \E w \in Workers : Holds(w, j)

\* A worker that has decided to run a job finds a slot: the semaphore never
\* holds a job up, and so never the stop of the runner either.
SlotsSuffice == \A w \in Workers : worker[w] = "entering" => free > 0

\* Every operation comes to an end even when the queue is full, the service
\* is shut down before the job was taken, or the process is killed.
OperationsEnd == \A j \in Jobs : row[j] = "active" ~> row[j] # "active"

\* Once begun, a shutdown comes to its end: no worker waits for ever, whatever
\* is left in the queue.
ShutdownEnds == phase = "draining" ~> phase = "down"
================================================================================
