---------------------------- MODULE OperationLedger ----------------------------
(***************************************************************************)
(* The table app_operations, the status column of apps, and everything     *)
(* that writes them: the workers of the service, operations run directly   *)
(* by the command line against the same database, the removal of an app,   *)
(* and the recovery a service start performs.                              *)
(*                                                                         *)
(* A database statement is one step. A worker's operation is a sequence of *)
(* them, and anything else may happen in between.                          *)
(***************************************************************************)
EXTENDS OperationStatus, Naturals, FiniteSets

CONSTANTS
    Apps,       \* the installed apps
    Ops,        \* operation ids (fresh UUIDs), each inserted at most once
    CliOps,     \* the operations run by a command-line process
    None,       \* no app, no operation
    LostWrites  \* TRUE: a write whose error is only logged may be lost

ASSUME CliOpsAreOps == CliOps \subseteq Ops
ASSUME NoneIsNothing == None \notin Apps \cup Ops
ASSUME LostWritesIsBoolean == LostWrites \in BOOLEAN

ServiceOps == Ops \ CliOps

VARIABLES
    status,     \* status[o]: column status; "none" before the insert,
                \* "gone" once the row was deleted with its app
    appOf,      \* appOf[o]: the app of operation o, None before the insert
    job,        \* job[o]: how far whoever runs o has come
    appRow,     \* appRow[a]: column apps.status, as far as it matters here
    removing,   \* apps a removal has found idle and is tearing down
    up          \* the service runs

vars == <<status, appOf, job, appRow, removing, up>>

\* claimed   the row is inserted, the job is queued or not yet submitted
\* working   the job body runs
\* settled   the job has written, or failed to write, the app row
\* returned  the deployer has returned; the service's wrapper is still to run
\* closed    nobody works on the operation any more
JobStates == {"none", "claimed", "working", "settled", "returned", "closed"}

\* Whoever is in one of these still intends to touch the app.
LiveStates == {"claimed", "working", "settled"}

\* busy: pending or updating; settled: what a finished job leaves (running,
\* stopped, error); error: what the recovery at a service start writes.
RowStates == {"settled", "busy", "error", "deleted"}

Active(o) == status[o] \in ActiveStatuses
Live(o) == job[o] \in LiveStates
ActiveOps(a) == {o \in Ops : Active(o) /\ appOf[o] = a}

TypeOK ==
    /\ status \in [Ops -> ActiveStatuses \cup TerminalStatuses \cup {"none", "gone"}]
    /\ appOf \in [Ops -> Apps \cup {None}]
    /\ job \in [Ops -> JobStates]
    /\ appRow \in [Apps -> RowStates]
    /\ removing \subseteq Apps
    /\ up \in BOOLEAN

Init ==
    /\ status = [o \in Ops |-> "none"]
    /\ appOf = [o \in Ops |-> None]
    /\ job = [o \in Ops |-> "none"]
    /\ appRow = [a \in Apps |-> "settled"]
    /\ removing = {}
    /\ up = TRUE

----------------------------------------------------------------------------
(* Statements                                                               *)

\* UPDATE apps SET status ... WHERE id: no row, no effect.
WriteRow(a, s) ==
    appRow' = [appRow EXCEPT ![a] = IF @ = "deleted" THEN @ ELSE s]

\* A write whose error is ignored or only logged.
TryWriteRow(a, s) ==
    \/ WriteRow(a, s)
    \/ LostWrites /\ UNCHANGED appRow

\* Faulty: the guard on the old status is missing.
FinishRowUnguarded(o, s) ==
    status' = [status EXCEPT ![o] = IF @ = "gone" THEN @ ELSE s]

\* Faulty: the default for an empty status is missing.
FinishRowBlank(o, s) ==
    status' = [status EXCEPT ![o] = IF @ \in ActiveStatuses THEN "" ELSE @]

\* UPDATE app_operations SET status ... WHERE id AND status IN (active):
\* finishing is idempotent and never touches a terminal row.
FinishRow(o, s) ==
    status' = [status EXCEPT ![o] = IF @ \in ActiveStatuses THEN s ELSE @]

\* Faulty: one status is missing from the list in the partial index.
MayInsertShortIndex(a) ==
    /\ \A o \in ActiveOps(a) : status[o] = "verifying"
    /\ appRow[a] # "deleted"

\* The partial unique index lets an insert through only when the app has no
\* active row; the foreign key, only when it has an app row.
MayInsert(a) == ActiveOps(a) = {} /\ appRow[a] # "deleted"

----------------------------------------------------------------------------
(* Workers                                                                  *)

\* ClaimOperation succeeds. A refused claim changes nothing and its caller
\* reports the conflict, so it is not an action.
Claim(a, o) ==
    /\ status[o] = "none"
    /\ o \in ServiceOps => up
    /\ MayInsert(a)
    /\ status' = [status EXCEPT ![o] = "preflighting"]
    /\ appOf' = [appOf EXCEPT ![o] = a]
    /\ job' = [job EXCEPT ![o] = "claimed"]
    /\ UNCHANGED <<appRow, removing, up>>

\* The handler (or, on the command line, the deployer) marks the app row
\* updating or pending, and the job starts.
Start(o) ==
    /\ job[o] = "claimed"
    /\ job' = [job EXCEPT ![o] = "working"]
    /\ TryWriteRow(appOf[o], "busy")
    /\ UNCHANGED <<status, appOf, removing, up>>

\* Faulty: SetOperationStatus writes whatever the row says.
AdvanceUnguarded(o) ==
    /\ job[o] = "working"
    /\ status[o] # "gone"
    /\ status' = [status EXCEPT ![o] = "building"]
    /\ UNCHANGED <<appOf, job, appRow, removing, up>>

\* SetOperationStatus succeeds: a terminal or deleted row refuses it, and the
\* worker then fails.
Advance(o) ==
    /\ job[o] = "working"
    /\ status[o] \in DOMAIN NextStatus
    /\ status' = [status EXCEPT ![o] = NextStatus[@]]
    /\ UNCHANGED <<appOf, job, appRow, removing, up>>

\* The outcome goes into the app row first.
Settle(o) ==
    /\ job[o] = "working"
    /\ job' = [job EXCEPT ![o] = "settled"]
    /\ TryWriteRow(appOf[o], "settled")
    /\ UNCHANGED <<status, appOf, removing, up>>

\* The deployer returns before it has taken charge of the operation: it could
\* not read the app (renamed meanwhile, or the context is already cancelled).
\* The app row stays as the handler left it.
ReturnEarly(o) ==
    /\ o \in ServiceOps
    /\ job[o] = "working"
    /\ status[o] \in {"preflighting", "gone"}
    /\ job' = [job EXCEPT ![o] = "returned"]
    /\ UNCHANGED <<status, appOf, appRow, removing, up>>

\* The deployer then writes the terminal status. Its error is only logged.
Finish(o) ==
    /\ job[o] = "settled"
    /\ job' = [job EXCEPT ![o] = IF o \in ServiceOps THEN "returned" ELSE "closed"]
    /\ \/ \E s \in WorkerOutcomes : FinishRow(o, s)
       \/ LostWrites /\ UNCHANGED status
    /\ UNCHANGED <<appOf, appRow, removing, up>>

\* Faulty: the wrapper leaves an operation alone that nobody finished.
WrapUpForgets(o) ==
    /\ job[o] = "returned"
    /\ job' = [job EXCEPT ![o] = "closed"]
    /\ UNCHANGED <<status, appOf, appRow, removing, up>>

\* The wrapper around the job finishes the operation once more.
WrapUp(o) ==
    /\ job[o] = "returned"
    /\ job' = [job EXCEPT ![o] = "closed"]
    /\ \/ \E s \in {"completed", "failed"} : FinishRow(o, s)
       \/ LostWrites /\ UNCHANGED status
    /\ UNCHANGED <<appOf, appRow, removing, up>>

----------------------------------------------------------------------------
(* Removal of an app                                                        *)

\* The removal reads that the app is idle ...
BeginRemove(a) ==
    /\ up
    /\ appRow[a] # "deleted"
    /\ ActiveOps(a) = {}
    /\ removing' = removing \cup {a}
    /\ UNCHANGED <<status, appOf, job, appRow, up>>

\* ... tears the runtime down, and deletes the row; its operations go with it.
DeleteRow(a) ==
    /\ a \in removing
    /\ removing' = removing \ {a}
    /\ appRow' = [appRow EXCEPT ![a] = "deleted"]
    /\ status' = [o \in Ops |-> IF appOf[o] = a THEN "gone" ELSE status[o]]
    /\ UNCHANGED <<appOf, job, up>>

\* A failing teardown leaves the row.
GiveUpRemove(a) ==
    /\ a \in removing
    /\ removing' = removing \ {a}
    /\ UNCHANGED <<status, appOf, job, appRow, up>>

----------------------------------------------------------------------------
(* Processes                                                                *)

\* Faulty: jobs already running outlive the service.
ServiceStopsDetached ==
    /\ up
    /\ up' = FALSE
    /\ job' = [o \in Ops |->
                 IF o \in ServiceOps /\ job[o] = "claimed" THEN "closed" ELSE job[o]]
    /\ removing' = {}
    /\ UNCHANGED <<status, appOf, appRow>>

\* The service stops, or is killed: its queued and running jobs are gone.
ServiceStops ==
    /\ up
    /\ up' = FALSE
    /\ job' = [o \in Ops |->
                 IF o \in ServiceOps /\ job[o] # "none" THEN "closed" ELSE job[o]]
    /\ removing' = {}
    /\ UNCHANGED <<status, appOf, appRow>>

\* A command-line process is killed.
CliDies(o) ==
    /\ o \in CliOps
    /\ Live(o)
    /\ job' = [job EXCEPT ![o] = "closed"]
    /\ UNCHANGED <<status, appOf, appRow, removing, up>>

\* Faulty: one status is missing from the list in the recovery's query.
InterruptedShortList == {o \in Ops : Active(o) /\ status[o] # "verifying"}

\* InterruptActiveOperations: one transaction over every active row.
Interrupted == {o \in Ops : Active(o)}

ServiceStarts ==
    /\ ~up
    /\ up' = TRUE
    /\ status' = [o \in Ops |->
                    IF o \in Interrupted THEN "interrupted" ELSE status[o]]
    /\ appRow' = [a \in Apps |->
                    IF ActiveOps(a) # {} THEN "error" ELSE appRow[a]]
    /\ UNCHANGED <<appOf, job, removing>>

----------------------------------------------------------------------------
Work(o) ==
    \/ Start(o) \/ Advance(o) \/ Settle(o) \/ ReturnEarly(o)
    \/ Finish(o) \/ WrapUp(o)

Next ==
    \/ \E a \in Apps, o \in Ops : Claim(a, o)
    \/ \E o \in Ops : Work(o) \/ CliDies(o)
    \/ \E a \in Apps : BeginRemove(a) \/ DeleteRow(a) \/ GiveUpRemove(a)
    \/ ServiceStops
    \/ ServiceStarts

Spec == Init /\ [][Next]_vars

\* A worker that has been started keeps running, and whoever supervises the
\* service (systemd, Restart=always) brings it back.
FairSpec ==
    /\ Spec
    /\ \A o \in Ops : WF_vars(Work(o))
    /\ WF_vars(ServiceStarts)

----------------------------------------------------------------------------
(* Properties                                                               *)

\* Two processes may claim at once and a restart may hand an app over, yet no
\* app ever has two active operations (idx_app_operations_one_active).
OneActivePerApp == \A a \in Apps : Cardinality(ActiveOps(a)) <= 1

\* A finished operation keeps its outcome: neither a worker that finishes
\* late, nor its wrapper, nor a second recovery rewrites or revives it. Only
\* the removal of the app takes the row away (FinishOperation: "A late worker
\* cleanup must not overwrite a rollback/completed state").
TerminalIsFinal ==
    [][\A o \in Ops : status[o] \in TerminalStatuses
                        => status'[o] \in {status[o], "gone"}]_vars

\* No two jobs of the service ever work on the same app, whatever crashes, is
\* removed or runs beside it: what the single active row is for.
OneWorkerPerApp ==
    \A o, p \in ServiceOps : o # p /\ Live(o) /\ Live(p) => appOf[o] # appOf[p]

\* While the service runs, an active row of its own is an operation somebody
\* still works on or is about to finish; no app stays locked on behalf of a job
\* that died with an earlier process.
ActiveRowsAreWorkedOn ==
    up => \A o \in ServiceOps : Active(o) => job[o] \in LiveStates \cup {"returned"}

\* What a comment says and the code does not keep: an operation that a service
\* start interrupts is nobody's work ("active rows at startup belong to an
\* interrupted run"). Violated: a command-line process may be working on it.
OnlyTheDeadAreInterrupted ==
    [][\A o \in Ops : status[o] \in ActiveStatuses /\ status'[o] = "interrupted"
                        => ~Live(o)]_vars

\* While an operation is active on an app no lifecycle action goes through
\* (api.md: it "is rejected with 409 while an operation is active").
NoRemovalUnderOperation ==
    [][\A a \in Apps : appRow[a] # "deleted" /\ appRow'[a] = "deleted"
                        => ActiveOps(a) = {}]_vars

\* Every operation the service claimed comes to an end, through crashes and
\* restarts. (One whose command-line process died waits for the next start.)
EveryClaimEnds == \A o \in ServiceOps : Active(o) ~> ~Active(o)

\* The lock the table implements: the holder is the owner of the active row.
Holder == [a \in Apps |-> IF ActiveOps(a) = {} THEN None
                          ELSE CHOOSE o \in ActiveOps(a) : TRUE]
Spent == {o \in Ops : status[o] \in TerminalStatuses \cup {"gone"}}

Lock == INSTANCE OperationLock WITH holder <- Holder, spent <- Spent

\* Seen as locks, claims are acquisitions and everything that ends an
\* operation is a release; nothing is acquired twice.
ImplementsLock == Lock!LockSpec
================================================================================
