------------------------- MODULE OperationLedgerProofs -------------------------
(***************************************************************************)
(* Proofs about OperationLedger for any apps, any operations and any       *)
(* number of processes.                                                    *)
(***************************************************************************)
EXTENDS OperationLedger, FiniteSetTheorems, TLAPS

\* An operation that was inserted has an app, one that was not has no job.
OwnersKnown ==
    \A o \in Ops : IF status[o] = "none"
                     THEN appOf[o] = None /\ job[o] = "none"
                     ELSE appOf[o] \in Apps /\ job[o] # "none"

\* The half of it that is about jobs.
JobHasRow(o) == (status[o] = "none") <=> (job[o] = "none")

\* The index, without counting.
ActiveUnique ==
    \A o, p \in Ops : Active(o) /\ Active(p) /\ appOf[o] = appOf[p] => o = p

\* What the table's own statements keep true, whoever issues them.
TableInv == TypeOK /\ OwnersKnown /\ ActiveUnique

----------------------------------------------------------------------------
\* The operations of the status vocabulary the steps rely on.
LEMMA StatusFacts ==
    /\ "preflighting" \in ActiveStatuses
    /\ ActiveStatuses \cap TerminalStatuses = {}
    /\ "none" \notin ActiveStatuses \cup TerminalStatuses
    /\ "gone" \notin ActiveStatuses \cup TerminalStatuses
    /\ "interrupted" \in TerminalStatuses
    /\ WorkerOutcomes \subseteq TerminalStatuses
    /\ {"completed", "failed"} \subseteq TerminalStatuses
    /\ DOMAIN NextStatus \subseteq ActiveStatuses
    /\ \A s \in DOMAIN NextStatus : NextStatus[s] \in ActiveStatuses
<1> DEFINE D == {"preflighting", "building", "backing_up", "cutting_over"}
<1>1. DOMAIN NextStatus = D
  BY DEF NextStatus
<1>2. \A s \in D : NextStatus[s] \in ActiveStatuses
  BY DEF NextStatus, ActiveStatuses
<1> QED
  BY <1>1, <1>2 DEF ActiveStatuses, TerminalStatuses, WorkerOutcomes

\* What a step can do to the row of one operation: insert it as active for an
\* app without active rows, move it among the active statuses, end it, or
\* delete it. Every other statement leaves it alone.
Inserted(o) ==
    /\ status[o] = "none"
    /\ status'[o] = "preflighting"
    /\ appOf'[o] \in Apps
    /\ ActiveOps(appOf'[o]) = {}
    /\ \A p \in Ops \ {o} : status'[p] = status[p] /\ appOf'[p] = appOf[p]

Kept(o) ==
    /\ appOf'[o] = appOf[o]
    /\ \/ status'[o] = status[o]
       \/ Active(o) /\ status'[o] \in ActiveStatuses \cup TerminalStatuses
       \/ status[o] # "none" /\ status'[o] = "gone"

\* An active row is ended, by whoever ends it, for all its app's active rows.
LEMMA RowStep ==
    ASSUME TypeOK, OwnersKnown, [Next]_vars
    PROVE  \/ \A o \in Ops : Kept(o)
           \/ \E o \in Ops : Inserted(o)
<1> USE StatusFacts
<1>1. ASSUME NEW a \in Apps, NEW o \in Ops, Claim(a, o)
      PROVE  Inserted(o)
  BY <1>1 DEF Claim, MayInsert, Inserted, TypeOK
<1>2. ASSUME NEW o \in Ops, Start(o) \/ Settle(o) \/ ReturnEarly(o) \/ CliDies(o)
      PROVE  \A p \in Ops : Kept(p)
  BY <1>2 DEF Start, Settle, ReturnEarly, CliDies, Kept
<1>3. ASSUME NEW o \in Ops, Advance(o)
      PROVE  \A p \in Ops : Kept(p)
  BY <1>3 DEF Advance, Kept, Active, TypeOK
<1>4. ASSUME NEW o \in Ops, Finish(o) \/ WrapUp(o)
      PROVE  \A p \in Ops : Kept(p)
  <2>1. appOf' = appOf
    BY <1>4 DEF Finish, WrapUp
  <2>2. \/ UNCHANGED status
        \/ \E s \in TerminalStatuses : FinishRow(o, s)
    BY <1>4 DEF Finish, WrapUp
  <2> QED
    BY <2>1, <2>2 DEF FinishRow, Kept, Active, TypeOK
<1>5. ASSUME NEW a \in Apps, BeginRemove(a) \/ GiveUpRemove(a)
      PROVE  \A p \in Ops : Kept(p)
  BY <1>5 DEF BeginRemove, GiveUpRemove, Kept
<1>6. ASSUME NEW a \in Apps, DeleteRow(a)
      PROVE  \A p \in Ops : Kept(p)
  BY <1>6, NoneIsNothing DEF DeleteRow, Kept, OwnersKnown
<1>7. ASSUME ServiceStops
      PROVE  \A p \in Ops : Kept(p)
  BY <1>7 DEF ServiceStops, Kept
<1>8. ASSUME ServiceStarts
      PROVE  \A p \in Ops : Kept(p)
  BY <1>8 DEF ServiceStarts, Interrupted, Kept, Active
<1>9. ASSUME UNCHANGED vars
      PROVE  \A p \in Ops : Kept(p)
  BY <1>9 DEF vars, Kept
<1> QED
  BY <1>1, <1>2, <1>3, <1>4, <1>5, <1>6, <1>7, <1>8, <1>9 DEF Next, Work

----------------------------------------------------------------------------
\* The empty table is in order.
LEMMA InitTable == Init => TableInv
BY StatusFacts DEF Init, TableInv, TypeOK, OwnersKnown, ActiveUnique, Active,
   JobStates, RowStates

\* Each statement stores values of the columns' types.
LEMMA TypeStep ==
    ASSUME TypeOK, OwnersKnown, [Next]_vars
    PROVE  TypeOK'
<1> USE StatusFacts
<1>1. ASSUME NEW a, NEW s \in RowStates, WriteRow(a, s)
      PROVE  appRow' \in [Apps -> RowStates]
  BY <1>1 DEF WriteRow, TypeOK
<1>2. ASSUME NEW o \in Ops, NEW s \in TerminalStatuses, FinishRow(o, s)
      PROVE  status' \in [Ops -> ActiveStatuses \cup TerminalStatuses \cup {"none", "gone"}]
  BY <1>2 DEF FinishRow, TypeOK
<1>3. ASSUME NEW a \in Apps, NEW o \in Ops, Claim(a, o)
      PROVE  TypeOK'
  BY <1>3 DEF Claim, TypeOK, JobStates
<1>4. ASSUME NEW o \in Ops, Start(o)
      PROVE  TypeOK'
  BY <1>1, <1>4 DEF Start, TryWriteRow, TypeOK, JobStates, RowStates
<1>5. ASSUME NEW o \in Ops, Advance(o)
      PROVE  TypeOK'
  BY <1>5 DEF Advance, TypeOK
<1>6. ASSUME NEW o \in Ops, Settle(o)
      PROVE  TypeOK'
  BY <1>1, <1>6 DEF Settle, TryWriteRow, TypeOK, JobStates, RowStates
<1>7. ASSUME NEW o \in Ops, ReturnEarly(o) \/ CliDies(o)
      PROVE  TypeOK'
  BY <1>7 DEF ReturnEarly, CliDies, TypeOK, JobStates
<1>8. ASSUME NEW o \in Ops, Finish(o) \/ WrapUp(o)
      PROVE  TypeOK'
  <2>1. \/ UNCHANGED status
        \/ \E s \in TerminalStatuses : FinishRow(o, s)
    BY <1>8 DEF Finish, WrapUp
  <2>2. status' \in [Ops -> ActiveStatuses \cup TerminalStatuses \cup {"none", "gone"}]
    BY <2>1, <1>2 DEF TypeOK
  <2>3. job' \in [Ops -> JobStates]
    BY <1>8 DEF Finish, WrapUp, TypeOK, JobStates
  <2> QED
    BY <1>8, <2>2, <2>3 DEF Finish, WrapUp, TypeOK
<1>9. ASSUME NEW a \in Apps, BeginRemove(a) \/ DeleteRow(a) \/ GiveUpRemove(a)
      PROVE  TypeOK'
  BY <1>9 DEF BeginRemove, DeleteRow, GiveUpRemove, TypeOK, RowStates
<1>10. ASSUME ServiceStops
       PROVE  TypeOK'
  BY <1>10 DEF ServiceStops, TypeOK, JobStates
<1>11. ASSUME ServiceStarts
       PROVE  TypeOK'
  BY <1>11 DEF ServiceStarts, TypeOK, RowStates
<1>12. ASSUME UNCHANGED vars
       PROVE  TypeOK'
  BY <1>12 DEF vars, TypeOK
<1> QED
  BY <1>3, <1>4, <1>5, <1>6, <1>7, <1>8, <1>9, <1>10, <1>11, <1>12 DEF Next, Work

\* A job exists from the insert on, and for no other operation.
LEMMA JobStep ==
    ASSUME TypeOK, OwnersKnown, [Next]_vars
    PROVE  \A o \in Ops : JobHasRow(o)'
<1> USE StatusFacts DEF OwnersKnown, TypeOK, JobHasRow
<1>1. ASSUME NEW a \in Apps, NEW o \in Ops, Claim(a, o)
      PROVE  \A p \in Ops : JobHasRow(p)'
  BY <1>1 DEF Claim
<1>2. ASSUME NEW o \in Ops, Start(o) \/ Settle(o) \/ ReturnEarly(o) \/ CliDies(o)
      PROVE  \A p \in Ops : JobHasRow(p)'
  BY <1>2 DEF Start, Settle, ReturnEarly, CliDies, Live, LiveStates
<1>3. ASSUME NEW o \in Ops, Advance(o)
      PROVE  \A p \in Ops : JobHasRow(p)'
  BY <1>3 DEF Advance
<1>4. ASSUME NEW o \in Ops, Finish(o) \/ WrapUp(o)
      PROVE  \A p \in Ops : JobHasRow(p)'
  <2>1. \/ UNCHANGED status
        \/ \E s \in TerminalStatuses : FinishRow(o, s)
    BY <1>4 DEF Finish, WrapUp
  <2> QED
    BY <1>4, <2>1 DEF Finish, WrapUp, FinishRow
<1>5. ASSUME NEW a \in Apps, BeginRemove(a) \/ GiveUpRemove(a)
      PROVE  \A p \in Ops : JobHasRow(p)'
  BY <1>5 DEF BeginRemove, GiveUpRemove
<1>6. ASSUME NEW a \in Apps, DeleteRow(a)
      PROVE  \A p \in Ops : JobHasRow(p)'
  BY <1>6, NoneIsNothing DEF DeleteRow
<1>7. ASSUME ServiceStops
      PROVE  \A p \in Ops : JobHasRow(p)'
  BY <1>7 DEF ServiceStops
<1>8. ASSUME ServiceStarts
      PROVE  \A p \in Ops : JobHasRow(p)'
  BY <1>8 DEF ServiceStarts, Interrupted, Active
<1>9. ASSUME UNCHANGED vars
      PROVE  \A p \in Ops : JobHasRow(p)'
  BY <1>9 DEF vars
<1> QED
  BY <1>1, <1>2, <1>3, <1>4, <1>5, <1>6, <1>7, <1>8, <1>9 DEF Next, Work

\* The claims on an app stay unique: no statement makes an old row active
\* again, and an insert finds none.
LEMMA TableStep == TableInv /\ [Next]_vars => TableInv'
<1> SUFFICES ASSUME TypeOK, OwnersKnown, ActiveUnique, [Next]_vars
             PROVE  TableInv'
  BY DEF TableInv
<1>1. TypeOK'
  BY TypeStep
<1>2. \A o \in Ops : JobHasRow(o)'
  BY JobStep
<1>3. CASE \A o \in Ops : Kept(o)
  <2>1. OwnersKnown'
    BY <1>2, <1>3, StatusFacts DEF OwnersKnown, JobHasRow, Kept, Active
  <2>2. ActiveUnique'
    BY <1>3, StatusFacts DEF ActiveUnique, Kept, Active
  <2> QED
    BY <1>1, <2>1, <2>2 DEF TableInv
<1>4. CASE \E o \in Ops : Inserted(o)
  <2> PICK o \in Ops : Inserted(o)
    BY <1>4
  <2>1. OwnersKnown'
    BY <1>2, StatusFacts DEF OwnersKnown, JobHasRow, Inserted
  <2>2. ActiveUnique'
    BY StatusFacts DEF ActiveUnique, Inserted, Active, ActiveOps
  <2> QED
    BY <1>1, <2>1, <2>2 DEF TableInv
<1> QED
  BY <1>3, <1>4, RowStep

\* The table's invariant, from which the theorems below follow.
LEMMA TableInvariant == Spec => []TableInv
BY InitTable, TableStep, PTL DEF Spec

\* Every column only ever holds values of its type.
THEOREM LedgerTypeOK == Spec => []TypeOK
BY TableInvariant, PTL DEF TableInv

\* An app never has two active operations, however many processes claim it
\* and whatever their crashes and restarts leave behind.
THEOREM OneActiveOperation == Spec => []OneActivePerApp
<1>1. TableInv => OneActivePerApp
  <2> SUFFICES ASSUME TableInv, NEW a \in Apps
               PROVE  Cardinality(ActiveOps(a)) <= 1
    BY DEF OneActivePerApp
  <2>1. CASE ActiveOps(a) = {}
    BY <2>1, FS_EmptySet
  <2>2. CASE ActiveOps(a) # {}
    <3> PICK o \in Ops : Active(o) /\ appOf[o] = a
      BY <2>2 DEF ActiveOps
    <3>1. ActiveOps(a) = {o}
      BY DEF ActiveOps, TableInv, ActiveUnique
    <3>2. Cardinality({o}) = 1
      BY FS_Singleton
    <3> QED
      BY <3>1, <3>2
  <2> QED
    BY <2>1, <2>2
<1> QED
  BY <1>1, TableInvariant, PTL

\* A terminal status is never overwritten, by a late worker or by a recovery.
THEOREM OutcomesAreFinal == Spec => TerminalIsFinal
<1>1. ASSUME TableInv, [Next]_vars
      PROVE  \A o \in Ops : status[o] \in TerminalStatuses
                              => status'[o] \in {status[o], "gone"}
  <2> USE DEF TableInv
  <2>1. CASE \A o \in Ops : Kept(o)
    BY <2>1, StatusFacts DEF Kept, Active
  <2>2. CASE \E o \in Ops : Inserted(o)
    BY <2>2, StatusFacts DEF Inserted
  <2> QED
    BY <1>1, <2>1, <2>2, RowStep
<1>2. TableInv /\ [Next]_vars
        => [\A o \in Ops : status[o] \in TerminalStatuses
                             => status'[o] \in {status[o], "gone"}]_vars
  BY <1>1
<1> QED
  BY <1>2, TableInvariant, PTL DEF Spec, TerminalIsFinal

----------------------------------------------------------------------------
(* Exclusion of the workers of the service                                  *)

\* A live job of the service still holds its row, unless the row went with its app.
LiveHoldsRow == \A o \in ServiceOps : Live(o) => Active(o) \/ status[o] = "gone"

\* No job outlives the service.
StoppedIsIdle == ~up => \A o \in ServiceOps : ~Live(o)

\* Rows are deleted with their app and never come back.
GoneWithApp ==
    \A o \in Ops : /\ status[o] = "gone" => appRow[appOf[o]] = "deleted"
                   /\ Active(o) => appRow[appOf[o]] # "deleted"

\* One active row per app excludes two workers only together with these: what
\* the recovery interrupts must not be anybody's work.
WorkInv == TableInv /\ LiveHoldsRow /\ StoppedIsIdle /\ GoneWithApp /\ OneWorkerPerApp

\* Nobody works yet.
LEMMA InitWork == Init => WorkInv
BY InitTable, StatusFacts DEF Init, WorkInv, LiveHoldsRow, StoppedIsIdle,
   GoneWithApp, OneWorkerPerApp, Live, LiveStates, Active, ServiceOps

\* One step, action by action.
LEMMA WorkStep ==
    ASSUME WorkInv, [Next]_vars
    PROVE  (LiveHoldsRow /\ StoppedIsIdle /\ GoneWithApp /\ OneWorkerPerApp)'
<1> DEFINE Goal == LiveHoldsRow /\ StoppedIsIdle /\ GoneWithApp /\ OneWorkerPerApp
<1> SUFFICES Goal'
  OBVIOUS
<1> USE StatusFacts DEF WorkInv, TableInv, TypeOK, LiveHoldsRow, StoppedIsIdle,
        GoneWithApp, OneWorkerPerApp, Active, Live, LiveStates, ServiceOps
<1>1. ASSUME NEW a \in Apps, NEW o \in Ops, Claim(a, o)
      PROVE  Goal'
  <2>1. /\ \A p \in Ops \ {o} : /\ status'[p] = status[p]
                                /\ appOf'[p] = appOf[p]
                                /\ job'[p] = job[p]
        /\ status'[o] = "preflighting" /\ appOf'[o] = a
        /\ (o \in ServiceOps => up) /\ up' = up /\ appRow' = appRow
        /\ appRow[a] # "deleted"
    BY <1>1 DEF Claim, MayInsert, ServiceOps
  <2>2. \A p \in ServiceOps : Live(p) => appOf[p] # a
    <3> SUFFICES ASSUME NEW p \in ServiceOps, Live(p), appOf[p] = a
                 PROVE  FALSE
      OBVIOUS
    <3>1. ~Active(p)
      BY <1>1 DEF Claim, MayInsert, ActiveOps
    <3>2. status[p] = "gone"
      BY <3>1
    <3> QED
      BY <2>1, <3>2
  <2>3. LiveHoldsRow' /\ StoppedIsIdle' /\ GoneWithApp'
    BY <2>1
  <2>4. OneWorkerPerApp'
    <3> SUFFICES ASSUME NEW p \in ServiceOps, NEW q \in ServiceOps, p # q, Live(p)', Live(q)'
                 PROVE  appOf'[p] # appOf'[q]
      OBVIOUS
    <3>1. CASE p # o /\ q # o
      BY <2>1, <3>1
    <3>2. CASE p = o \/ q = o
      BY <2>1, <2>2, <3>2
    <3> QED
      BY <3>1, <3>2
  <2> QED
    BY <2>3, <2>4
<1>2. ASSUME NEW a \in Apps, NEW s \in {"busy", "settled"}, TryWriteRow(a, s),
             UNCHANGED <<status, appOf, up>>,
             \A p \in Ops : Live(p)' => Live(p)
      PROVE  Goal'
  <2>1. \A b \in Apps : appRow'[b] = "deleted" <=> appRow[b] = "deleted"
    BY <1>2 DEF TryWriteRow, WriteRow
  <2>2. LiveHoldsRow' /\ StoppedIsIdle' /\ OneWorkerPerApp'
    BY <1>2
  <2>3. GoneWithApp'
    BY <1>2, <2>1 DEF OwnersKnown
  <2> QED
    BY <2>2, <2>3
<1>3. ASSUME NEW o \in Ops, Start(o)
      PROVE  Goal'
  <2>1. appOf[o] \in Apps
    BY <1>3 DEF Start, OwnersKnown
  <2>2. \A p \in Ops : Live(p)' => Live(p)
    BY <1>3 DEF Start
  <2> QED
    BY <1>2, <1>3, <2>1, <2>2 DEF Start
<1>4. ASSUME NEW o \in Ops, Settle(o)
      PROVE  Goal'
  <2>1. appOf[o] \in Apps
    BY <1>4 DEF Settle, OwnersKnown
  <2>2. \A p \in Ops : Live(p)' => Live(p)
    BY <1>4 DEF Settle
  <2> QED
    BY <1>2, <1>4, <2>1, <2>2 DEF Settle
<1>5. ASSUME NEW o \in Ops, Advance(o)
      PROVE  Goal'
  BY <1>5 DEF Advance
<1>6. ASSUME NEW o \in Ops, ReturnEarly(o) \/ CliDies(o)
      PROVE  Goal'
  BY <1>6 DEF ReturnEarly, CliDies
<1>7. ASSUME NEW o \in Ops, Finish(o) \/ WrapUp(o)
      PROVE  Goal'
  <2>1. \/ UNCHANGED status
        \/ \E s \in TerminalStatuses : FinishRow(o, s)
    BY <1>7 DEF Finish, WrapUp
  <2>2. /\ UNCHANGED <<appOf, appRow, up>>
        /\ ~Live(o)'
        /\ \A p \in Ops \ {o} : job'[p] = job[p] /\ status'[p] = status[p]
    BY <1>7, <2>1 DEF Finish, WrapUp, FinishRow
  <2>3. \/ status'[o] = status[o]
        \/ status[o] \in ActiveStatuses /\ status'[o] \in TerminalStatuses
    BY <2>1 DEF FinishRow
  <2> QED
    BY <2>2, <2>3
<1>8. ASSUME NEW a \in Apps, BeginRemove(a) \/ GiveUpRemove(a)
      PROVE  Goal'
  BY <1>8 DEF BeginRemove, GiveUpRemove
<1>9. ASSUME NEW a \in Apps, DeleteRow(a)
      PROVE  Goal'
  BY <1>9 DEF DeleteRow, OwnersKnown
<1>10. ASSUME ServiceStops
       PROVE  Goal'
  <2>1. \A p \in ServiceOps : ~Live(p)'
    BY <1>10 DEF ServiceStops, ServiceOps
  <2> QED
    BY <1>10, <2>1 DEF ServiceStops
<1>11. ASSUME ServiceStarts
       PROVE  Goal'
  <2>1. \A p \in ServiceOps : ~Live(p)'
    BY <1>11 DEF ServiceStarts
  <2>2. \A p \in Ops : status'[p] \notin ActiveStatuses /\ (status'[p] = "gone" => status[p] = "gone")
    BY <1>11 DEF ServiceStarts, Interrupted
  <2>3. \A a \in Apps : appRow[a] = "deleted" => ActiveOps(a) = {}
    BY DEF ActiveOps
  <2>4. GoneWithApp'
    BY <1>11, <2>2, <2>3 DEF ServiceStarts, OwnersKnown
  <2> QED
    BY <2>1, <2>4, <1>11 DEF ServiceStarts
<1>12. ASSUME UNCHANGED vars
       PROVE  Goal'
  BY <1>12 DEF vars
<1> QED
  BY <1>1, <1>3, <1>4, <1>5, <1>6, <1>7, <1>8, <1>9, <1>10, <1>11, <1>12 DEF Next, Work

\* No two jobs of the service ever work on the same app, through any number of
\* crashes, restarts and removals, and whatever command-line processes do.
THEOREM WorkersExclude == Spec => []OneWorkerPerApp
<1>1. WorkInv /\ [Next]_vars => WorkInv'
  BY WorkStep, TableStep DEF WorkInv
<1>2. WorkInv => OneWorkerPerApp
  BY DEF WorkInv
<1> QED
  BY InitWork, <1>1, <1>2, PTL DEF Spec

----------------------------------------------------------------------------
(* No active row without a worker                                           *)

\* One step, action by action: a row becomes active with a job, and loses its
\* job only where the row is finished or the service is down.
LEMMA WorkedOnStep ==
    ASSUME LostWrites = FALSE, TableInv, ActiveRowsAreWorkedOn, [Next]_vars
    PROVE  ActiveRowsAreWorkedOn'
<1> USE StatusFacts DEF ActiveRowsAreWorkedOn, TableInv, TypeOK, Active, LiveStates, ServiceOps
<1>1. ASSUME NEW a \in Apps, NEW o \in Ops, Claim(a, o)
      PROVE  ActiveRowsAreWorkedOn'
  BY <1>1 DEF Claim
<1>2. ASSUME NEW o \in Ops, Start(o) \/ Advance(o) \/ Settle(o) \/ ReturnEarly(o) \/ CliDies(o)
      PROVE  ActiveRowsAreWorkedOn'
  BY <1>2 DEF Start, Advance, Settle, ReturnEarly, CliDies
<1>3. ASSUME NEW o \in Ops, Finish(o)
      PROVE  ActiveRowsAreWorkedOn'
  BY <1>3 DEF Finish, FinishRow
<1>4. ASSUME NEW o \in Ops, WrapUp(o)
      PROVE  ActiveRowsAreWorkedOn'
  BY <1>4 DEF WrapUp, FinishRow
<1>5. ASSUME NEW a \in Apps, BeginRemove(a) \/ DeleteRow(a) \/ GiveUpRemove(a)
      PROVE  ActiveRowsAreWorkedOn'
  BY <1>5 DEF BeginRemove, DeleteRow, GiveUpRemove
<1>6. ASSUME ServiceStops
      PROVE  ActiveRowsAreWorkedOn'
  BY <1>6 DEF ServiceStops
<1>7. ASSUME ServiceStarts
      PROVE  ActiveRowsAreWorkedOn'
  BY <1>7 DEF ServiceStarts, Interrupted
<1>8. ASSUME UNCHANGED vars
      PROVE  ActiveRowsAreWorkedOn'
  BY <1>8 DEF vars
<1> QED
  BY <1>1, <1>2, <1>3, <1>4, <1>5, <1>6, <1>7, <1>8 DEF Next, Work

\* As long as the database takes its writes, an active operation of the service
\* always has somebody who works on it or is about to finish it, for any number of
\* apps and operations and through any crashes, restarts and removals.
THEOREM ActiveRowsHaveWorkers == LostWrites = FALSE /\ Spec => []ActiveRowsAreWorkedOn
<1>1. Init => ActiveRowsAreWorkedOn
  BY StatusFacts DEF Init, ActiveRowsAreWorkedOn, Active, ServiceOps
<1>2. LostWrites = FALSE /\ TableInv /\ ActiveRowsAreWorkedOn /\ [Next]_vars
        => ActiveRowsAreWorkedOn'
  BY WorkedOnStep, Zenon
<1> QED
  <2>1. ASSUME LostWrites = FALSE
        PROVE  Spec => []ActiveRowsAreWorkedOn
    <3>1. TableInv /\ ActiveRowsAreWorkedOn /\ [Next]_vars => ActiveRowsAreWorkedOn'
      BY <2>1, <1>2, Zenon
    <3> QED
      BY <1>1, <3>1, TableInvariant, PTL DEF Spec
  <2> QED
    BY <2>1, Zenon

----------------------------------------------------------------------------
(* The table implements a lock per app                                      *)

\* Who holds what, read off the rows.
HolderReads ==
    /\ \A o \in Ops : Active(o) => Holder[appOf[o]] = o
    /\ \A a \in Apps : Holder[a] # None
                        => \E o \in Ops : Holder[a] = o /\ Active(o) /\ appOf[o] = a

\* The owner of the active row, whoever CHOOSE names, is the only one.
LEMMA HolderFacts == TableInv => HolderReads
<1> SUFFICES ASSUME TableInv
             PROVE  HolderReads
  OBVIOUS
<1> USE NoneIsNothing DEF TableInv, OwnersKnown
<1>1. ASSUME NEW a \in Apps, ActiveOps(a) # {}
      PROVE  Holder[a] \in ActiveOps(a)
  <2>1. Holder[a] = CHOOSE o \in ActiveOps(a) : TRUE
    BY <1>1 DEF Holder
  <2> QED
    BY <1>1, <2>1
<1>2. ASSUME NEW o \in Ops, Active(o)
      PROVE  Holder[appOf[o]] = o
  <2>1. appOf[o] \in Apps
    BY <1>2, StatusFacts DEF Active
  <2>2. o \in ActiveOps(appOf[o])
    BY <1>2 DEF ActiveOps
  <2>3. Holder[appOf[o]] \in ActiveOps(appOf[o])
    BY <1>1, <2>1, <2>2
  <2> QED
    BY <1>2, <2>3 DEF ActiveOps, ActiveUnique
<1>3. ASSUME NEW a \in Apps, Holder[a] # None
      PROVE  Holder[a] \in ActiveOps(a)
  <2>1. ActiveOps(a) # {}
    BY <1>3 DEF Holder
  <2> QED
    BY <1>1, <2>1
<1> QED
  BY <1>2, <1>3 DEF HolderReads, ActiveOps

\* The table starts with every lock free.
LEMMA InitLock == Init => Lock!LockInit
BY StatusFacts DEF Init, Lock!LockInit, Holder, Spent, ActiveOps, Active

\* Every step is an acquisition, a release of the locks whose operations it
\* ends, or invisible.
LEMMA LockStep ==
    ASSUME TableInv, TableInv', HolderReads, HolderReads', [Next]_vars
    PROVE  [Lock!LockNext]_<<Holder, Spent>>
<1> USE NoneIsNothing, StatusFacts DEF TableInv, HolderReads
<1>0. DOMAIN Holder = Apps /\ DOMAIN Holder' = Apps
  BY DEF Holder
<1>1. CASE \A o \in Ops : Kept(o)
  <2> DEFINE S == {a \in Apps : Holder[a] # None /\ Holder'[a] = None}
  <2>1. \A a \in Apps : Holder'[a] # None => Holder'[a] = Holder[a]
    <3> SUFFICES ASSUME NEW a \in Apps, Holder'[a] # None
                 PROVE  Holder'[a] = Holder[a]
      OBVIOUS
    <3>1. PICK o \in Ops : Holder'[a] = o /\ Active(o)' /\ appOf'[o] = a
      OBVIOUS
    <3>2. Active(o) /\ appOf[o] = a
      BY <1>1, <3>1 DEF Kept, Active
    <3> QED
      BY <3>1, <3>2
  <2>2. Holder' = [a \in Apps |-> IF a \in S THEN None ELSE Holder[a]]
    <3> DEFINE F == [a \in Apps |-> IF a \in S THEN None ELSE Holder[a]]
    <3>1. \A a \in Apps : Holder'[a] = F[a]
      BY <2>1
    <3>2. DOMAIN F = Apps
      OBVIOUS
    <3>3. Holder' = [a \in Apps |-> Holder'[a]]
      BY DEF Holder
    <3> HIDE DEF S
    <3> QED
      BY <3>1, <3>3
  <2>3. Spent' = Spent \cup {Holder[a] : a \in S}
    <3>1. ASSUME NEW o \in Ops, o \in Spent
          PROVE  o \in Spent'
      BY <1>1, <3>1 DEF Spent, Kept, Active
    <3>2. ASSUME NEW o \in Ops, o \in Spent', o \notin Spent
          PROVE  o \in {Holder[a] : a \in S}
      <4>1. Active(o) /\ ~Active(o)' /\ appOf'[o] = appOf[o]
        BY <1>1, <3>2 DEF Spent, Kept, Active, TypeOK
      <4>2. appOf[o] \in Apps /\ Holder[appOf[o]] = o
        BY <4>1 DEF OwnersKnown, Active
      <4>3. Holder'[appOf[o]] = None
        BY <2>1, <4>1, <4>2
      <4>4. appOf[o] \in S
        BY <4>2, <4>3
      <4> QED
        BY <4>2, <4>4
    <3>3. ASSUME NEW a \in S
          PROVE  Holder[a] \in Spent'
      <4>1. PICK o \in Ops : Holder[a] = o /\ Active(o) /\ appOf[o] = a
        OBVIOUS
      <4>2. Holder'[a] = None
        OBVIOUS
      <4>3. ~Active(o)'
        BY <1>1, <4>1, <4>2 DEF Kept
      <4> QED
        BY <1>1, <4>1, <4>3 DEF Spent, Kept, Active
    <3>4. Spent \subseteq Ops /\ Spent' \subseteq Ops
      BY DEF Spent
    <3> HIDE DEF S
    <3> QED
      BY <3>1, <3>2, <3>3, <3>4
  <2>4. CASE S = {}
    <3>1. Holder' = [a \in Apps |-> Holder[a]]
      BY <2>2, <2>4
    <3>2. Holder = [a \in Apps |-> Holder[a]]
      BY DEF Holder
    <3>3. Spent' = Spent
      BY <2>3, <2>4
    <3> QED
      BY <3>1, <3>2, <3>3
  <2>5. CASE S # {}
    <3>1. S \in SUBSET Apps /\ S \subseteq Lock!Held
      BY DEF Lock!Held
    <3> HIDE DEF S
    <3> QED
      BY <2>2, <2>3, <2>5, <3>1 DEF Lock!LockNext, Lock!Release
  <2> QED
    BY <2>4, <2>5
<1>2. CASE \E o \in Ops : Inserted(o)
  <2>1. PICK o \in Ops : Inserted(o)
    BY <1>2
  <2> DEFINE a == appOf'[o]
  <2>2. a \in Apps /\ ActiveOps(a) = {} /\ Active(o)'
    BY <2>1 DEF Inserted, Active
  <2>3. Holder[a] = None /\ Holder'[a] = o
    BY <2>2 DEF Holder
  <2>4. \A b \in Apps \ {a} : Holder'[b] = Holder[b]
    <3> SUFFICES ASSUME NEW b \in Apps, b # a
                 PROVE  Holder'[b] = Holder[b]
      OBVIOUS
    <3>1. ASSUME NEW p \in Ops
          PROVE  Active(p)' /\ appOf'[p] = b <=> Active(p) /\ appOf[p] = b
      BY <2>1 DEF Inserted, Active
    <3>2. CASE Holder[b] # None
      BY <3>1, <3>2
    <3>3. CASE Holder'[b] # None
      BY <3>1, <3>3
    <3> QED
      BY <3>2, <3>3
  <2>5. Holder' = [Holder EXCEPT ![a] = o]
    <3>1. Holder = [b \in Apps |-> Holder[b]] /\ Holder' = [b \in Apps |-> Holder'[b]]
      BY DEF Holder
    <3> QED
      BY <2>2, <2>3, <2>4, <3>1
  <2>6. o \notin Spent /\ Spent' = Spent
    BY <2>1 DEF Inserted, Spent
  <2>7. \A b \in Apps : Holder[b] # o
    BY <2>1 DEF Inserted, Active
  <2> QED
    BY <2>2, <2>3, <2>5, <2>6, <2>7 DEF Lock!LockNext, Lock!Acquire
<1> QED
  BY <1>1, <1>2, RowStep

\* app_operations implements the lock: claims acquire, everything that ends
\* operations releases exactly the apps they held, and nothing is reused.
THEOREM LedgerImplementsLock == Spec => ImplementsLock
<1>1. TableInv' => HolderReads'
  BY HolderFacts, PTL
<1>2. TableInv /\ TableInv' /\ [Next]_vars => [Lock!LockNext]_<<Holder, Spent>>
  BY <1>1, HolderFacts, LockStep
<1>3. [Lock!LockNext]_<<Holder, Spent>> => [Lock!LockNext]_Lock!lockVars
  BY DEF Lock!lockVars
<1> QED
  BY <1>2, <1>3, InitLock, TableInvariant, PTL DEF Spec, ImplementsLock, Lock!LockSpec
================================================================================
