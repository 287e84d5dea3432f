--------------------------- MODULE UpdateTransaction ---------------------------
(***************************************************************************)
(* Deployer.update, the brief-downtime update of one app: build the        *)
(* candidate, stop the old containers, back the storage up, replace the    *)
(* containers, verify, publish the route, commit; and the two ways back,   *)
(* resuming the stopped containers or recreating the previous release.     *)
(* Started by a web handler (through the job wrapper) or by the command    *)
(* line, one update after another on the same app.                         *)
(*                                                                         *)
(* One action is one call that can fail together with what the code does   *)
(* next; a database announcement at the head of a phase is in the action   *)
(* of the phase's first call. Any podman, git or file operation may fail   *)
(* at any time. A database access fails when its context is done, and for  *)
(* other reasons (disk full, lock timeout) only with the fault constants.  *)
(***************************************************************************)
EXTENDS Runtime, OperationStatus

CONSTANTS
    Bad,            \* a stored compose file that cannot be parsed
    ReadFaults,     \* TRUE: a query may fail
    WriteFaults     \* TRUE: a statement may fail, or its effect get lost where
                    \* the code only logs or ignores the error

ASSUME BadIsNoSource == Bad \notin Sources \cup {Mixed, None}
ASSUME FaultsAreBoolean == ReadFaults \in BOOLEAN /\ WriteFaults \in BOOLEAN

VARIABLES
    row,        \* the apps row: status, current_release_id, compose_yaml
    op,         \* the status of the app's newest operation, "none" if it has none
    release,    \* the status of each app_releases row, or "absent"
    secrets,    \* whose secrets app_secrets holds
    storage,    \* whose mappings app_storage holds
    ctr,        \* the app's containers
    route,      \* the app's Traefik file: none, synced with the containers, or
                \* stale (the containers it names were stopped or removed since)
    backup,     \* the backup made for each release: none, cold, or hot if
                \* containers were running while it was taken
    pc,         \* what the update does next; "idle" between updates
    tx,         \* the local variables of the update
    ctxDone,    \* the update's context is cancelled or timed out
    before      \* history: the app as the update found it

db == <<row, op, release, secrets, storage>>
world == <<ctr, route, backup>>
vars == <<db, world, pc, tx, ctxDone, before>>

RowStatuses == {"running", "stopped", "error", "updating"}
Rows == [status : RowStatuses, current : Releases \cup {None}, compose : Sources \cup {Bad}]
Errors == {"secret", "runtime", "state", "restart", "other"}

\* The steps at which an update can be.
WayForward == {"load", "mark", "preflight", "secrets", "build", "inspect", "stop",
               "backup", "cutover", "remove", "activate", "verify", "publish",
               "commit_release", "commit_row", "commit_current",
               "commit_storage", "complete"}
WayBack == {"resume_secrets", "resume_start", "undo_secrets", "undo_remove",
            "undo_deploy", "undo_storage", "undo_row", "undo_route", "undo_stop"}
WayOut == {"fail_secrets", "fail_release", "fail_row", "fail_op", "wrap_failed",
           "wrap_completed"}
Steps == {"idle"} \cup WayForward \cup WayBack \cup WayOut

RouteStates == {"none", "synced", "stale"}

\* What an update keeps in its local variables: the release it makes, who
\* started it, the app row as it was read, what a rollback would restore
\* (release, storage mappings, secrets), whether it stopped the containers, what
\* it brought the app back to, and the kinds of error it met.
Txs == [cand : Releases \cup {None}, web : BOOLEAN, app : Rows,
        old : Sources \cup {None}, oldStorage : Versions,
        undo : Versions \cup {None}, weStopped : BOOLEAN,
        recovered : {"no", "running", "stopped"}, errs : SUBSET Errors]

TypeOK ==
    /\ row \in Rows
    /\ op \in ActiveStatuses \cup TerminalStatuses \cup {"none"}
    /\ release \in [Releases -> {"absent", "preparing", "running", "failed"}]
    /\ secrets \in Versions
    /\ storage \in Versions
    /\ ctr \in ContainerSets
    /\ route \in RouteStates
    /\ backup \in [Releases -> {"none", "cold", "hot"}]
    /\ pc \in Steps
    /\ tx \in Txs
    /\ ctxDone \in BOOLEAN
    /\ before \in [row : Rows, ctr : ContainerSets, secrets : Versions,
                   storage : Versions, route : RouteStates]

\* Apps as deploys, redeploys, stops and crashes leave them: running, half
\* running, stopped, never brought up; and with a compose column that a
\* redeploy emptied before its clone failed.
Init ==
    /\ \E r \in {[status |-> s, current |-> None, compose |-> c] :
                   s \in {"running", "stopped", "error"}, c \in {Base, Bad}},
          u \in 0..N, m \in {0, N} :
         /\ row = r
         /\ ctr = Containers(Base, Base, m, u)
         /\ r.compose = Bad => r.status # "running"
         /\ r.status = "running" => u > 0
         /\ r.status = "stopped" => u = 0
         /\ route = IF m = 0 \/ u = 0 THEN "none" ELSE "synced"
         /\ m = 0 => u = 0 /\ r.status = "error"
    /\ op = "none"
    /\ release = [r \in Releases |-> "absent"]
    /\ secrets = Base
    /\ storage = Base
    /\ backup = [r \in Releases |-> "none"]
    /\ pc = "idle"
    /\ tx = [cand |-> None, web |-> FALSE, app |-> row, old |-> None,
             oldStorage |-> Base, undo |-> None, weStopped |-> FALSE,
             recovered |-> "no", errs |-> {}]
    /\ ctxDone = FALSE
    /\ before = [row |-> row, ctr |-> ctr, secrets |-> secrets, storage |-> storage,
                 route |-> route]

cand == tx.cand
IsActive == op \in ActiveStatuses

----------------------------------------------------------------------------
(* Building blocks                                                          *)

\* The control moves on, or the update fails with one more kind of error.
Goto(step) == pc' = step /\ UNCHANGED tx
GotoWith(step, newTx) == pc' = step /\ tx' = newTx
WithError(e) == [tx EXCEPT !.errs = @ \cup {e}]
Fail == GotoWith("fail_secrets", WithError("other"))
RollBack == GotoWith("undo_secrets", WithError("other"))

\* When a statement under the update's context, or under the background
\* context, can succeed or fail.
CtxOK == ~ctxDone
CtxReadFails == ctxDone \/ ReadFaults
CtxFails == ctxDone \/ WriteFaults
BgFails == WriteFaults

\* What a podman call under the update's context leaves behind when it fails:
\* nothing happened if the context was done before the first container.
After(outcomes) == IF ctxDone THEN {ctr} ELSE outcomes

\* Containers named by the route were stopped or removed.
Severed == IF route = "synced" THEN "stale" ELSE route
RouteAfter(c) == IF c.up < ctr.up \/ c.made < ctr.made THEN Severed ELSE route

\* SetOperationStatus, under the update's context, on an active row.
Announced(s) == CtxOK /\ IsActive /\ op' = s
NotAnnounced == (CtxFails \/ ~IsActive) /\ UNCHANGED op

----------------------------------------------------------------------------
(* Start                                                                    *)

Found == [row |-> row, ctr |-> ctr, secrets |-> secrets, storage |-> storage, route |-> route]
Fresh(r, web) ==
    [cand |-> r, web |-> web, app |-> row, old |-> None, oldStorage |-> storage,
     undo |-> None, weStopped |-> FALSE, recovered |-> "no", errs |-> {}]

\* A web handler claims the operation, marks the app row (ignoring an error)
\* and queues the job.
SubmitWeb(r) ==
    /\ pc = "idle" /\ ~IsActive /\ release[r] = "absent"
    /\ op' = "preflighting"
    /\ \/ row' = [row EXCEPT !.status = "updating"]
       \/ BgFails /\ UNCHANGED row
    /\ pc' = "load" /\ tx' = Fresh(r, TRUE)
    /\ before' = Found
    /\ ctxDone' = FALSE
    /\ UNCHANGED <<release, secrets, storage, world>>

\* The command line reads the app, checks it, and claims the operation.
SubmitCli(r) ==
    /\ pc = "idle" /\ ~IsActive /\ release[r] = "absent"
    /\ op' = "preflighting"
    /\ pc' = "mark" /\ tx' = Fresh(r, FALSE)
    /\ before' = Found
    /\ ctxDone' = FALSE
    /\ UNCHANGED <<row, release, secrets, storage, world>>

\* The job reads the app. If it cannot, the deployer returns at once and only
\* the wrapper ever learns of it.
Load ==
    /\ pc = "load"
    /\ \/ CtxOK /\ GotoWith("mark", [tx EXCEPT !.app = row])
       \/ CtxReadFails /\ Goto("wrap_failed")
    /\ UNCHANGED <<db, world, ctxDone, before>>

Mark ==
    /\ pc = "mark"
    /\ \/ CtxOK /\ row' = [row EXCEPT !.status = "updating"] /\ Goto("preflight")
       \/ CtxFails /\ UNCHANGED row /\ Goto("fail_op")
    /\ UNCHANGED <<op, release, secrets, storage, world, ctxDone, before>>

----------------------------------------------------------------------------
(* The way forward                                                          *)

\* Faulty: the snapshot is taken after the secrets were written.
SetSecretsLateSnapshot ==
    /\ pc = "secrets"
    /\ \/ Goto("build") /\ UNCHANGED secrets
       \/ /\ ~tx.web /\ CtxOK
          /\ secrets' = cand
          /\ GotoWith("build", [tx EXCEPT !.undo = cand])
    /\ UNCHANGED <<row, op, release, storage, world, ctxDone, before>>

\* The release a rollback would rebuild: the current one, or the source of the
\* first deploy with the stored compose file, if that can be parsed. An error
\* reading the current release counts as having none.
OldFromRow == IF tx.app.compose = Bad THEN None ELSE Base
OldReleases ==
    (IF row.current # None THEN {row.current} ELSE {OldFromRow})
    \cup (IF ReadFaults THEN {OldFromRow} ELSE {})

\* Fetch and check the candidate, remember the storage mappings, plan the
\* storage and create the release row.
Preflight ==
    /\ pc = "preflight"
    /\ \/ /\ CtxOK
          /\ \E o \in OldReleases :
               GotoWith("secrets", [tx EXCEPT !.old = o, !.oldStorage = storage])
          /\ release' = [release EXCEPT ![cand] = "preparing"]
       \/ Fail /\ UNCHANGED release
    /\ UNCHANGED <<row, op, secrets, storage, world, ctxDone, before>>

\* Only the command line passes secrets along. They are snapshot first.
SetSecrets ==
    /\ pc = "secrets"
    /\ \/ Goto("build") /\ UNCHANGED secrets
       \/ /\ ~tx.web /\ CtxOK
          /\ secrets' = cand
          /\ GotoWith("build", [tx EXCEPT !.undo = secrets])
       \/ ~tx.web /\ CtxReadFails /\ Fail /\ UNCHANGED secrets
       \/ /\ ~tx.web /\ CtxFails
          /\ secrets' \in {secrets, Mixed}
          /\ GotoWith("fail_secrets", [WithError("other") EXCEPT !.undo = secrets])
    /\ UNCHANGED <<row, op, release, storage, world, ctxDone, before>>

\* Build the images and record them.
Build ==
    /\ pc = "build"
    /\ \/ Announced("building") /\ Goto("inspect")
       \/ Announced("building") /\ Fail
       \/ NotAnnounced /\ Fail
    /\ UNCHANGED <<row, release, secrets, storage, world, ctxDone, before>>

\* Is there anything to stop?
OldServices == IF tx.old = None THEN 0 ELSE N
MustStop == Status(ctr, OldServices) # "stopped"

\* Faulty: an app that need not be stopped is not backed up either.
InspectSkipsBackup ==
    /\ pc = "inspect"
    /\ \/ /\ Announced("backing_up")
          /\ GotoWith(IF MustStop THEN "stop" ELSE "cutover",
                      [tx EXCEPT !.weStopped = MustStop])
       \/ Announced("backing_up") /\ Fail
       \/ NotAnnounced /\ Fail
    /\ UNCHANGED <<row, release, secrets, storage, world, ctxDone, before>>

\* Faulty: a container that would not stop is not an error.
StopIgnoringErrors ==
    /\ pc = "stop"
    /\ ctr' \in SomeStopped(ctr)
    /\ Goto("backup")
    /\ route' = RouteAfter(ctr')
    /\ UNCHANGED <<db, backup, ctxDone, before>>

Inspect ==
    /\ pc = "inspect"
    /\ \/ /\ Announced("backing_up")
          /\ GotoWith(IF MustStop THEN "stop" ELSE "backup",
                      [tx EXCEPT !.weStopped = MustStop])
       \/ Announced("backing_up") /\ Fail
       \/ NotAnnounced /\ Fail
    /\ UNCHANGED <<row, release, secrets, storage, world, ctxDone, before>>

Stop ==
    /\ pc = "stop"
    /\ \/ CtxOK /\ CanHandle(ctr) /\ ctr' = AllStopped(ctr) /\ Goto("backup")
       \/ ctr' \in After(SomeStopped(ctr)) /\ Fail
    /\ route' = RouteAfter(ctr')
    /\ UNCHANGED <<db, backup, ctxDone, before>>

\* backupStorage exports the volumes, archives the bind directories and writes
\* the manifest; whether containers run is not its concern.
BackupTaken == [backup EXCEPT ![cand] = IF ctr.up = 0 THEN "cold" ELSE "hot"]

\* After the backup, the directories of binds that move are copied.
Backup ==
    /\ pc = "backup"
    /\ \/ /\ backup' = BackupTaken
          /\ \/ CtxOK /\ Goto("cutover")
             \/ GotoWith("resume_secrets", WithError("other"))
       \/ UNCHANGED backup /\ GotoWith("resume_secrets", WithError("other"))
    /\ UNCHANGED <<db, ctr, route, ctxDone, before>>

\* A failure to announce the cut-over has nothing to roll back, and nothing
\* brings the stopped containers up again either.
Cutover ==
    /\ pc = "cutover"
    /\ \/ Announced("cutting_over") /\ Goto("remove")
       \/ NotAnnounced /\ Fail
    /\ UNCHANGED <<row, release, secrets, storage, world, ctxDone, before>>

Remove ==
    /\ pc = "remove"
    /\ \/ CtxOK /\ ctr' = NoContainers /\ Goto("activate")
       \/ ctr' \in After(SomeRemoved(ctr)) /\ RollBack
    /\ route' = RouteAfter(ctr')
    /\ UNCHANGED <<db, backup, ctxDone, before>>

\* The candidate was prepared with the secrets read before the build.
Activate ==
    /\ pc = "activate"
    /\ \/ CtxOK /\ ctr' \in AllCreated(cand, secrets) /\ Goto("verify")
       \/ ctr' \in After(SomeCreated(cand, secrets)) /\ RollBack
    /\ UNCHANGED <<db, route, backup, ctxDone, before>>

\* Faulty: that the containers were created is taken for their running.
VerifyNothing ==
    /\ pc = "verify"
    /\ \/ Announced("verifying") /\ Goto("publish")
       \/ NotAnnounced /\ RollBack
    /\ UNCHANGED <<row, release, secrets, storage, world, ctxDone, before>>

Verify ==
    /\ pc = "verify"
    /\ \/ Announced("verifying") /\ Status(ctr, N) = "running" /\ Goto("publish")
       \/ Announced("verifying") /\ RollBack
       \/ NotAnnounced /\ RollBack
    /\ UNCHANGED <<row, release, secrets, storage, world, ctxDone, before>>

\* applyRoute: a route that cannot be written is removed, if that works.
Publish ==
    /\ pc = "publish"
    /\ \/ CtxOK /\ route' = "synced" /\ Goto("commit_release")
       \/ route' \in {"none", route} /\ RollBack
    /\ UNCHANGED <<db, ctr, backup, ctxDone, before>>

\* The four statements that make the candidate current.
CommitRelease ==
    /\ pc = "commit_release"
    /\ \/ CtxOK /\ release' = [release EXCEPT ![cand] = "running"] /\ Goto("commit_row")
       \/ CtxFails /\ UNCHANGED release /\ RollBack
    /\ UNCHANGED <<row, op, secrets, storage, world, ctxDone, before>>

CommitRow ==
    /\ pc = "commit_row"
    /\ \/ /\ CtxOK
          /\ row' = [status |-> "running", current |-> cand, compose |-> cand]
          /\ Goto("commit_current")
       \/ CtxFails /\ UNCHANGED row /\ RollBack
    /\ UNCHANGED <<op, release, secrets, storage, world, ctxDone, before>>

CommitCurrent ==
    /\ pc = "commit_current"
    /\ \/ CtxOK /\ row' = [row EXCEPT !.current = cand] /\ Goto("commit_storage")
       \/ CtxFails /\ UNCHANGED row /\ RollBack
    /\ UNCHANGED <<op, release, secrets, storage, world, ctxDone, before>>

CommitStorage ==
    /\ pc = "commit_storage"
    /\ \/ CtxOK /\ storage' = cand /\ Goto("complete")
       \/ CtxFails /\ storage' \in {storage, Mixed} /\ RollBack
    /\ UNCHANGED <<row, op, release, secrets, world, ctxDone, before>>

\* FinishOperation: background context, error only logged, terminal rows kept.
Finished(s) ==
    \/ op' = IF IsActive THEN s ELSE op
    \/ BgFails /\ UNCHANGED op

Complete ==
    /\ pc = "complete"
    /\ Finished("completed")
    /\ GotoWith(IF tx.web THEN "wrap_completed" ELSE "idle", [tx EXCEPT !.undo = None])
    /\ UNCHANGED <<row, release, secrets, storage, world, ctxDone, before>>

----------------------------------------------------------------------------
(* The way back                                                             *)

\* restoreSecretsForRollback: put the snapshot back, once.
SecretsBack(next, newTx) ==
    \/ tx.undo = None /\ GotoWith(next, newTx) /\ UNCHANGED secrets
    \/ /\ tx.undo # None /\ CtxOK
       /\ secrets' = tx.undo
       /\ GotoWith(next, [newTx EXCEPT !.undo = None])
    \/ /\ tx.undo # None /\ CtxFails
       /\ secrets' \in {secrets, Mixed}
       /\ GotoWith(next, [newTx EXCEPT !.errs = @ \cup {"secret"}, !.recovered = "no"])

\* resumePrevious: start again what this update stopped.
ResumeSecrets ==
    /\ pc = "resume_secrets"
    /\ SecretsBack("resume_start", tx)
    /\ UNCHANGED <<row, op, release, storage, world, ctxDone, before>>

\* Faulty: the polarity of weStopped is reversed.
RecoveryReversed(t) ==
    [t EXCEPT !.recovered =
        IF t.errs \cap {"secret", "runtime", "state", "restart"} # {} THEN "no"
        ELSE IF t.weStopped THEN "stopped" ELSE "running"]

\* What the app is restored to if nothing went wrong on the way back.
Recovery(t) ==
    [t EXCEPT !.recovered =
        IF t.errs \cap {"secret", "runtime", "state", "restart"} # {} THEN "no"
        ELSE IF t.weStopped THEN "running" ELSE "stopped"]

\* Faulty: the error of the restart is dropped.
ResumeStartUnchecked ==
    /\ pc = "resume_start"
    /\ \/ ~tx.weStopped /\ UNCHANGED ctr
       \/ tx.weStopped /\ ctr' \in SomeStarted(ctr)
    /\ GotoWith("fail_secrets", Recovery(tx))
    /\ UNCHANGED <<db, route, backup, ctxDone, before>>

ResumeStart ==
    /\ pc = "resume_start"
    /\ \/ ~tx.weStopped /\ UNCHANGED ctr /\ GotoWith("fail_secrets", Recovery(tx))
       \/ /\ tx.weStopped /\ CtxOK /\ CanHandle(ctr)
          /\ ctr' = AllStarted(ctr)
          /\ GotoWith("fail_secrets", Recovery(tx))
       \/ /\ tx.weStopped
          /\ ctr' \in After(SomeStarted(ctr))
          /\ GotoWith("fail_secrets", WithError("restart"))
    /\ UNCHANGED <<db, route, backup, ctxDone, before>>

\* rollbackCandidate: every restore is attempted, whatever became of the others.
UndoSecrets ==
    /\ pc = "undo_secrets"
    /\ SecretsBack("undo_remove", tx)
    /\ UNCHANGED <<row, op, release, storage, world, ctxDone, before>>

UndoRemove ==
    /\ pc = "undo_remove"
    /\ \/ tx.old # None /\ CtxOK /\ ctr' = NoContainers /\ Goto("undo_deploy")
       \/ /\ ctr' \in IF tx.old = None THEN {ctr} ELSE After(SomeRemoved(ctr))
          /\ GotoWith("undo_storage", WithError("runtime"))
    /\ route' = RouteAfter(ctr')
    /\ UNCHANGED <<db, backup, ctxDone, before>>

\* Build the previous release anew, with the secrets there are now, and look
\* whether it runs.
UndoDeploy ==
    /\ pc = "undo_deploy"
    /\ \/ /\ CtxOK
          /\ ctr' = Containers(tx.old, secrets, N, N)
          /\ Goto("undo_storage")
       \/ /\ ctr' \in After({ctr} \cup SomeCreated(tx.old, secrets))
          /\ GotoWith("undo_storage", WithError("runtime"))
    /\ UNCHANGED <<db, route, backup, ctxDone, before>>

UndoStorage ==
    /\ pc = "undo_storage"
    /\ \/ storage' = tx.oldStorage /\ Goto("undo_row")
       \/ /\ BgFails
          /\ storage' \in {storage, Mixed}
          /\ GotoWith("undo_row", WithError("state"))
    /\ UNCHANGED <<row, op, release, secrets, world, ctxDone, before>>

\* Faulty: the restored row keeps the release pointer it has.
UndoRowKeepsCurrent ==
    /\ pc = "undo_row"
    /\ \/ row' = [tx.app EXCEPT !.current = row.current] /\ Goto("undo_route")
       \/ BgFails /\ row' \in {row, tx.app} /\ GotoWith("fail_secrets", WithError("state"))
    /\ UNCHANGED <<op, release, secrets, storage, world, ctxDone, before>>

\* Without the row the route is not touched either.
UndoRow ==
    /\ pc = "undo_row"
    /\ \/ row' = tx.app /\ Goto("undo_route")
       \/ BgFails /\ row' \in {row, tx.app} /\ GotoWith("fail_secrets", WithError("state"))
    /\ UNCHANGED <<op, release, secrets, storage, world, ctxDone, before>>

\* SyncRoute on the row as the update read it: no route for an app that cannot
\* be parsed or has no container to route to, and none touched on an error.
UndoRoute ==
    /\ pc = "undo_route"
    /\ LET t == Recovery(tx)
           done == GotoWith(IF t.recovered = "stopped" THEN "undo_stop" ELSE "fail_secrets",
                            [t EXCEPT !.recovered = IF @ = "stopped" THEN "no" ELSE @])
       IN  \/ tx.app.compose # Bad /\ ctr.up = N /\ route' = "synced" /\ done
           \/ tx.app.compose # Bad /\ ctr.up < N /\ route' = "none" /\ done
           \/ tx.app.compose # Bad /\ ctr.up \in 1..(N - 1) /\ route' = "synced" /\ done
           \/ tx.app.compose = Bad /\ route' = "none" /\ GotoWith("fail_secrets", WithError("state"))
           \/ route' = route /\ GotoWith("fail_secrets", WithError("state"))
    /\ UNCHANGED <<db, ctr, backup, ctxDone, before>>

\* The rebuilt release runs, but the app was found stopped.
UndoStop ==
    /\ pc = "undo_stop"
    /\ \/ /\ CtxOK /\ CanHandle(ctr)
          /\ ctr' = AllStopped(ctr)
          /\ GotoWith("fail_secrets", Recovery(tx))
       \/ ctr' \in After(SomeStopped(ctr)) /\ GotoWith("fail_secrets", WithError("restart"))
    /\ route' = RouteAfter(ctr')
    /\ UNCHANGED <<db, backup, ctxDone, before>>

----------------------------------------------------------------------------
(* The way out of a failed update: failUpdate and updateFailure             *)

\* One more attempt at the secrets, for the failures that had none.
FailSecrets ==
    /\ pc = "fail_secrets"
    /\ SecretsBack("fail_release", tx)
    /\ UNCHANGED <<row, op, release, storage, world, ctxDone, before>>

FailRelease ==
    /\ pc = "fail_release"
    /\ \/ release' = [release EXCEPT ![cand] = IF @ = "absent" THEN @ ELSE "failed"]
       \/ BgFails /\ UNCHANGED release
    /\ Goto("fail_row")
    /\ UNCHANGED <<row, op, secrets, storage, world, ctxDone, before>>

\* Faulty: the app row gets the word for an operation.
FailRowMisspelt ==
    /\ pc = "fail_row"
    /\ row' = [row EXCEPT !.status = IF tx.recovered = "no" THEN "failed" ELSE tx.recovered]
    /\ Goto("fail_op")
    /\ UNCHANGED <<op, release, secrets, storage, world, ctxDone, before>>

FailRow ==
    /\ pc = "fail_row"
    /\ \/ row' = [row EXCEPT !.status = IF tx.recovered = "no" THEN "error" ELSE tx.recovered]
       \/ BgFails /\ UNCHANGED row
    /\ Goto("fail_op")
    /\ UNCHANGED <<op, release, secrets, storage, world, ctxDone, before>>

\* The outcome follows from what was restored, and otherwise from whether the
\* error text speaks of a failed rollback: it does for the secrets and for the
\* previous release, not for the rest.
Outcome ==
    IF tx.recovered # "no" THEN "rolled_back"
    ELSE IF tx.errs \cap {"secret", "runtime"} # {} THEN "rollback_failed"
    ELSE "failed"

FailOp ==
    /\ pc = "fail_op"
    /\ Finished(Outcome)
    /\ Goto(IF tx.web THEN "wrap_failed" ELSE "idle")
    /\ UNCHANGED <<row, release, secrets, storage, world, ctxDone, before>>

\* Faulty: the wrapper takes for granted that the deployer has finished.
WrapUpSilently ==
    /\ pc \in {"wrap_failed", "wrap_completed"}
    /\ Goto("idle")
    /\ UNCHANGED <<db, world, ctxDone, before>>

\* The wrapper of the web job finishes the operation once more.
WrapUp ==
    /\ \/ pc = "wrap_failed" /\ Finished("failed")
       \/ pc = "wrap_completed" /\ Finished("completed")
    /\ Goto("idle")
    /\ UNCHANGED <<row, release, secrets, storage, world, ctxDone, before>>

\* Thirty minutes are over, or the service shuts down; only web jobs run under
\* such a context.
CtxExpires ==
    /\ pc # "idle" /\ tx.web /\ ~ctxDone
    /\ ctxDone' = TRUE
    /\ UNCHANGED <<db, world, pc, tx, before>>

----------------------------------------------------------------------------
Forward ==
    \/ Load \/ Mark \/ Preflight \/ SetSecrets \/ Build \/ Inspect \/ Stop
    \/ Backup \/ Cutover \/ Remove \/ Activate \/ Verify \/ Publish
    \/ CommitRelease \/ CommitRow \/ CommitCurrent \/ CommitStorage \/ Complete
Back ==
    \/ ResumeSecrets \/ ResumeStart \/ UndoSecrets \/ UndoRemove \/ UndoDeploy
    \/ UndoStorage \/ UndoRow \/ UndoRoute \/ UndoStop
Out == FailSecrets \/ FailRelease \/ FailRow \/ FailOp \/ WrapUp

Step == Forward \/ Back \/ Out

Next ==
    \/ \E r \in Releases : SubmitWeb(r) \/ SubmitCli(r)
    \/ Step
    \/ CtxExpires

Spec == Init /\ [][Next]_vars

\* The job keeps running: every call it makes returns.
FairSpec == Spec /\ WF_vars(Step)

----------------------------------------------------------------------------
(* Properties                                                               *)

\* The newest update, once it is over and has recorded its outcome.
Over(s) == pc = "idle" /\ op = s

\* The app was what its row says when the update found it.
FoundSound ==
    /\ before.row.compose # Bad
    /\ before.ctr.made = 0 \/ before.ctr.rel = before.row.compose

\* A completed update serves the candidate, all of it: containers with the new
\* secrets, a route that leads to them, row, storage mappings and release all
\* say so, and there is a backup from before.
CompletedServes ==
    Over("completed") =>
        /\ ctr = Containers(cand, secrets, N, N)
        /\ route = "synced"
        /\ row.current = cand /\ row.compose = cand
        /\ storage = cand
        /\ release[cand] = "running"
        /\ backup[cand] = "cold"

\* A rolled back update leaves a sound app as it was found: the same release,
\* running if and only if it ran, with the secrets, the storage mappings and
\* the row it had (recovery: "the paths that actually restore the pre-update
\* runtime").
RolledBackRestores ==
    Over("rolled_back") /\ FoundSound =>
        /\ ctr.rel = (IF before.ctr.made = 0 /\ ctr.made = 0 THEN None ELSE before.row.compose)
        /\ ctr.up > 0 <=> before.ctr.up > 0
        /\ ctr.up \in {0, ctr.made}
        /\ secrets = before.secrets
        /\ storage = before.storage
        /\ row.current = before.row.current
        /\ row.compose = before.row.compose

\* An update that failed or was rolled back leaves no trace of the secrets it
\* was given; if it could not undo them it says rollback_failed.
SecretsUndone ==
    Over("failed") \/ Over("rolled_back") => secrets = before.secrets

\* A backup is never taken from under running containers ("A backup is only
\* meaningful after the old workload is actually stopped").
BackupsAreCold == \A r \in Releases : backup[r] # "hot"

\* The containers an update found are not removed before its backup exists
\* (api.md: persistent data is "backed up first").
NoRemovalBeforeBackup ==
    [][ctr'.made < ctr.made => backup[cand] = "cold"]_vars

\* The row never points at a release that is not, or no longer, good: the
\* release is marked running first and failed only after the row is restored.
CurrentIsGood == row.current # None => release[row.current] = "running"

\* Between updates the row tells the truth about the containers.
RowTellsTruth ==
    pc = "idle" /\ op # "none" =>
        /\ row.status = "running" => ctr.up > 0 /\ ctr.up = ctr.made
        /\ row.status = "stopped" => ctr.up = 0

\* Every update ends, with an outcome on record.
UpdatesEnd == pc # "idle" ~> pc = "idle" /\ ~IsActive

\* The remaining properties state what comments and docs of the repository say,
\* and the code does not keep.

\* An app that was stopped when the update found it is stopped after the update
\* was rolled back ("an app the operator had already stopped must stay stopped
\* across a failed update"). Violated: without a parsable stored compose file
\* the containers are compared with zero services, a stopped app reads as
\* running, and a failed backup starts it.
StoppedStaysStopped ==
    Over("rolled_back") /\ before.ctr.made > 0 /\ before.ctr.up = 0 => ctr.up = 0

\* An app that a rollback leaves stopped has no route (SyncRoute: "so Traefik
\* never keeps routing to a dead backend"). Violated: the rollback writes the
\* route while the rebuilt release runs and stops the containers afterwards.
NoRouteToStopped == Over("rolled_back") /\ ctr.up = 0 => route = "none"

\* The containers of a rolled back app belong to the release its row names
\* ("that state restores the previous release and is safe to route").
\* Violated: an update that fails after an earlier rollback failed finds the
\* leftovers of the earlier candidate and resumes those.
RolledBackServesCurrent ==
    Over("rolled_back") /\ ctr.made > 0 /\ row.compose # Bad => ctr.rel = row.compose

\* An app whose update is over is not left updating (api.md: "Poll ... until the
\* app leaves updating"). Violated: the deployer returns before it has taken
\* charge when it cannot read the app, and the wrapper only ends the operation.
NoAppStaysUpdating == pc = "idle" => row.status # "updating"

\* Between updates a route leads only to a release that passed verification
\* ("Publishing a route there would expose an unverified build"). Violated: the
\* rollback writes the route even when it could not remove the candidate.
RouteLeadsToVerified ==
    pc = "idle" /\ route = "synced" /\ ctr.rel \in Releases => release[ctr.rel] = "running"
================================================================================
