------------------------------ MODULE AppLifecycle ------------------------------
(***************************************************************************)
(* Everything that is done to one app between its creation and its         *)
(* removal: deploys and redeploys with their failures, the actions that    *)
(* only look whether the app is idle (start, stop, restart, remove), the   *)
(* build settings form, crashes, and the reconciliation of a service       *)
(* start, all over the same row, source directory, containers and Traefik  *)
(* file. The update transaction is one atomic step here: UpdateTransaction *)
(* has its detail.                                                         *)
(*                                                                         *)
(* An action is one call that can fail. Its second parameter is the fault  *)
(* that strikes it, "none" if none does; a call that fails by what it      *)
(* finds counts as a fault too. All versions of an app have the same       *)
(* services, hence the same container names.                               *)
(***************************************************************************)
EXTENDS Naturals, FiniteSets

CONSTANTS
    Tasks,      \* requests to the service and commands, each made at most once
    CliTasks,   \* those run by the command line, in processes of their own
    Versions,   \* what the app's repository or archive can hold
    None,       \* no version; no task
    MaxCrashes, \* bound on the crashes of the service
    MaxFaults   \* bound on the calls that fail

ASSUME CliTasksAreTasks == CliTasks \subseteq Tasks
ASSUME NoneIsNothing == None \notin Tasks \cup Versions
ASSUME StartupIsNoTask == "startup" \notin Tasks \cup {None}
ASSUME BoundsAreNat == MaxCrashes \in Nat /\ MaxFaults \in Nat

VARIABLES
    row,        \* the apps row
    op,         \* the app's newest row of app_operations
    checkout,   \* the version in sources/<id> or drops/<id>
    dirs,       \* the versions with a directory under releases/<id>
    live,       \* the containers that carry the app's label; checked: each
                \* service has one, and all have been seen running
    route,      \* the app's Traefik file: "none", "live" if it leads to the
                \* containers there are, "old" if those it names are gone
    pc, my,     \* pc[t], my[t]: what the task does next, and its variables
    up,         \* the service process exists
    crashes,    \* how often it has crashed
    struck,     \* how many calls have failed
    rc, rcRow,  \* the startup reconciliation, and the row it works on
    sole,       \* history: who has been alone since it began
    faults,     \* history: what has struck since the last beginning
    sound,      \* history: no mess was left when the last one began
    bare,       \* history: nor any container
    wanted      \* history: how a restart should leave the app, if that is
                \* beyond doubt

store == <<row, op>>
disk == <<checkout, dirs>>
world == <<live, route>>
local == <<pc, my>>
service == <<up, crashes, rc, rcRow>>
history == <<struck, sole, faults, sound, bare, wanted>>
vars == <<store, disk, world, local, service, history>>

Opt(S) == S \cup {None}
Rows == [there : BOOLEAN, type : {"git", "drop"}, compose : Opt(Versions),
         release : Opt(Versions),
         status : {"pending", "running", "stopped", "error", "updating"}]
NoRow == [there |-> FALSE, type |-> "git", compose |-> None, release |-> None,
          status |-> "pending"]

\* How many of an app's services run: with some, its status is "partial".
Running == {"all", "some", "none"}
NoContainers == [spec |-> None, src |-> None, on |-> "none", checked |-> FALSE]
NoOp == [holder |-> None, state |-> "none", upd |-> FALSE]
NoLocals == [kind |-> "none", row |-> NoRow, src |-> None, git |-> FALSE, fresh |-> FALSE,
             upd |-> FALSE]
Faults == {"none", "runtime", "remove", "source", "regenerate", "storage", "database",
           "route", "context"}

\* The service and the command line offer these.
WebKinds == {"create", "upload", "redeploy", "retry", "settings", "update",
             "start", "stop", "restart", "remove"}
CliKinds == {"deploy", "upload", "redeploy", "start", "stop", "restart", "remove"}
Creations == {"create", "upload"}
Pipelines == Creations \cup {"deploy", "redeploy", "retry", "settings"}
LookThenAct == {"start", "stop", "restart", "remove"}

Steps == {"idle", "insert", "overwrite", "claim", "secrets", "mark", "queued",
          "begin", "prev", "clear", "clone", "compose", "pending", "source",
          "teardown", "deploy", "verify", "persist", "unpoint", "running",
          "publish", "undo", "undo_only", "undo_route", "record", "failed", "completed",
          "update", "guard", "act", "status", "sync", "rm_runtime", "rm_route",
          "rm_row", "done", "dead"}

TypeOK ==
    /\ row \in Rows
    /\ op \in [holder : Opt(Tasks), upd : BOOLEAN,
               state : {"none", "active", "completed", "failed", "rolled_back", "interrupted"}]
    /\ checkout \in Opt(Versions) /\ dirs \subseteq Versions
    /\ live \in [spec : Opt(Versions), src : Opt(Versions), on : Running, checked : BOOLEAN]
    /\ route \in {"none", "live", "old"}
    /\ pc \in [Tasks -> Steps]
    /\ my \in [Tasks -> [kind : WebKinds \cup CliKinds \cup {"none"}, row : Rows,
                         src : Opt(Versions), git : BOOLEAN, fresh : BOOLEAN, upd : BOOLEAN]]
    /\ up \in BOOLEAN /\ crashes \in 0..MaxCrashes
    /\ rc \in {"off", "list", "look", "start", "sync"} /\ rcRow \in Rows
    /\ struck \in 0..MaxFaults /\ sole \in Opt(Tasks) \cup {"startup"} /\ faults \subseteq Faults \ {"none"}
    /\ sound \in BOOLEAN /\ bare \in BOOLEAN /\ wanted \in {"any", "up", "down", "dark"}

\* No app yet, but perhaps containers with its label, which a deploy that raced
\* with a removal has left; or an app that was deployed before, and if from git
\* maybe updated.
Init ==
    /\ \/ /\ row = NoRow /\ checkout = None /\ route = "none" /\ dirs = {}
          /\ \/ live = NoContainers
             \/ \E v \in Versions : live = [spec |-> v, src |-> v, on |-> "all", checked |-> TRUE]
       \/ \E v \in Versions, k \in {"git", "drop"}, updated \in BOOLEAN :
            /\ updated => k = "git"
            /\ row = [there |-> TRUE, type |-> k, compose |-> v,
                      release |-> IF updated THEN v ELSE None, status |-> "running"]
            /\ dirs = IF updated THEN {v} ELSE {}
            /\ checkout = v
            /\ live = [spec |-> v, src |-> v, on |-> "all", checked |-> TRUE]
            /\ route = "live"
    /\ op = NoOp
    /\ pc = [t \in Tasks |-> "idle"] /\ my = [t \in Tasks |-> NoLocals]
    /\ up = TRUE /\ crashes = 0 /\ rc = "off" /\ rcRow = NoRow
    /\ struck = 0 /\ sole = None /\ faults = {}
    /\ sound = TRUE /\ bare = TRUE /\ wanted = "any"

----------------------------------------------------------------------------
(* Shared operations                                                        *)

Go(t, step) == pc' = [pc EXCEPT ![t] = step]
Kind(t) == my[t].kind
Idle == op.state # "active"

\* The directory a redeploy builds from: that of the current release, or the
\* app's checkout.
CurrentSource ==
    IF row.there /\ row.release # None
    THEN IF row.release \in dirs THEN row.release ELSE None
    ELSE checkout

\* A copy of the row; its status is not looked at again.
Copy(r) == [r EXCEPT !.status = "pending"]

\* UPDATE apps SET status: no row, no effect, and an error.
SetStatus(s) == row' = IF row.there THEN [row EXCEPT !.status = s] ELSE row

\* A Traefik file that was not rewritten when its containers went away.
Outdated == IF route = "live" THEN "old" ELSE route

\* SyncRoute(a): no file without a usable compose file or running containers.
\* If only some run, the one to route to may be among them.
Synced(a) ==
    {r \in {"live", "none"} :
        /\ r = "live" => a.compose # None /\ live.on # "none"
        /\ r = "none" => a.compose = None \/ live.on # "all"}

\* As many as before, or fewer.
Fewer == {on \in Running : on = live.on \/ on = "none" \/ live.on = "all"}

\* Runtime.Start: all there are; a set that was never complete may stay partial.
Started == [live EXCEPT !.on = "all"]
StartAll == live' = Started \/ (~live.checked /\ live' = [live EXCEPT !.on = "some"])

\* Runtime.Remove, entirely or up to a container that could not be removed.
RemoveAll == live' = NoContainers /\ route' = Outdated
RemoveSome ==
    \/ UNCHANGED <<live, route>>
    \/ /\ \E on \in Fewer \ {"all"} : live' = [live EXCEPT !.on = on, !.checked = FALSE]
       /\ route' \in {route, Outdated}

----------------------------------------------------------------------------
(* Requests                                                                 *)

Ask(t, k, upd, step) ==
    /\ pc[t] = "idle"
    /\ my' = [u \in Tasks |->
                 IF u = t
                 THEN [NoLocals EXCEPT !.kind = k, !.row = Copy(row), !.upd = upd]
                 ELSE IF pc[u] = "done" THEN NoLocals ELSE my[u]]
    /\ Go(t, step)
    /\ UNCHANGED <<store, disk, world, service>>

Served(t) == up /\ t \notin CliTasks

\* The wizard and the API: the name is free, and all that was typed is valid.
AskCreate(t) == Served(t) /\ ~row.there /\ Ask(t, "create", FALSE, "insert")

\* An archive is unpacked under drops/<id> before there is a row.
AskUpload(t) == Served(t) /\ ~row.there /\ Ask(t, "upload", FALSE, "insert")

\* A drop is only redeployed if its source directory is there.
AskRedeploy(t) ==
    /\ Served(t) /\ row.there
    /\ row.type = "git" \/ CurrentSource # None
    /\ Ask(t, "redeploy", FALSE, "claim")

\* The retry of any operation of the app that did not succeed, the newest or an
\* older one, which is not kept here: an update is updated again, unless its
\* archive would have to be uploaded again; all else is redeployed.
AskRetry(t) ==
    /\ Served(t) /\ row.there
    /\ \E upd \in BOOLEAN : ~(upd /\ row.type = "drop") /\ Ask(t, "retry", upd, "claim")

\* The build settings form of a git app, after a deployment that did not succeed.
AskSettings(t) ==
    /\ Served(t) /\ row.there /\ row.type = "git"
    /\ op.state \in {"none", "failed", "rolled_back", "interrupted"}
    /\ Ask(t, "settings", op.upd, "overwrite")

AskUpdate(t) == Served(t) /\ row.there /\ Ask(t, "update", TRUE, "claim")

\* Start, stop and restart from the dashboard, and the removal.
AskAction(t) ==
    /\ Served(t) /\ row.there
    /\ \E k \in {"start", "stop", "restart"} : Ask(t, k, FALSE, "guard")

AskRemove(t) == Served(t) /\ row.there /\ Ask(t, "remove", FALSE, "guard")

\* The same actions of the API.
AskApiAction(t) ==
    /\ Served(t) /\ row.there
    /\ \E k \in LookThenAct : Ask(t, k, FALSE, "guard")

\* The commands, without the service.
AskCliDeploy(t) == t \in CliTasks /\ Ask(t, "deploy", FALSE, "prev")

\* The command unpacks the archive, inserts the row, and redeploys it.
AskCliUpload(t) == t \in CliTasks /\ ~row.there /\ Ask(t, "upload", FALSE, "insert")

AskCli(t) ==
    /\ t \in CliTasks /\ row.there
    /\ \/ Ask(t, "redeploy", FALSE, "claim")
       \/ \E k \in LookThenAct : Ask(t, k, FALSE, "guard")

Request(t) ==
    \/ AskCreate(t) \/ AskUpload(t) \/ AskRedeploy(t) \/ AskRetry(t)
    \/ AskSettings(t) \/ AskUpdate(t) \/ AskAction(t) \/ AskRemove(t)
    \/ AskApiAction(t) \/ AskCliDeploy(t) \/ AskCliUpload(t) \/ AskCli(t)

----------------------------------------------------------------------------
(* From the request to the job                                              *)

\* The row of a new app; the name may have been taken meanwhile.
Insert(t, f) ==
    /\ pc[t] = "insert"
    /\ \/ /\ f = "none" /\ ~row.there
          /\ \E v \in Versions :
               /\ row' = [NoRow EXCEPT !.there = TRUE,
                              !.type = IF Kind(t) = "create" THEN "git" ELSE "drop",
                              !.compose = IF Kind(t) = "create" THEN None ELSE v]
               /\ checkout' = IF Kind(t) = "create" THEN None ELSE v
               /\ my' = [my EXCEPT ![t].row = Copy(row')]
          /\ Go(t, "claim")
       \/ /\ f = "database" \/ (f = "source" /\ Kind(t) = "upload") \/ (f = "none" /\ row.there)
          /\ Go(t, "done") /\ UNCHANGED <<row, checkout, my>>
    /\ UNCHANGED <<op, dirs, world, service>>

\* The form writes the whole row as it was read, and pending, before it claims.
Overwrite(t, f) ==
    /\ pc[t] = "overwrite"
    /\ \/ /\ f = "none" /\ row.there
          /\ row' = [my[t].row EXCEPT !.status = "pending"]
          /\ my' = [my EXCEPT ![t].row = Copy(row')]
          /\ Go(t, "claim")
       \/ (f = "database" \/ ~row.there) /\ Go(t, "done") /\ UNCHANGED <<row, my>>
    /\ UNCHANGED <<op, disk, world, service>>

Claimed(t) ==
    IF t \in CliTasks THEN IF Kind(t) = "deploy" THEN "clear" ELSE "begin"
    ELSE CASE Kind(t) = "create" -> "secrets"
           [] Kind(t) \in {"upload", "settings"} -> "queued"
           [] OTHER -> "mark"

\* Refused when the app is busy or gone. The service then removes the app it was
\* creating; a command leaves it.
Claim(t, f) ==
    /\ pc[t] = "claim"
    /\ \/ /\ f = "none" /\ Idle /\ row.there
          /\ op' = [holder |-> t, state |-> "active", upd |-> Kind(t) = "update"]
          /\ Go(t, Claimed(t))
       \/ /\ f = "database" \/ (f = "none" /\ ~(Idle /\ row.there))
          /\ Go(t, IF Kind(t) \in Creations /\ t \notin CliTasks THEN "rm_runtime" ELSE "done")
          /\ UNCHANGED op
    /\ UNCHANGED <<row, disk, world, my, service>>

\* The secrets of a new app are stored after its claim, one by one.
StoreSecrets(t, f) ==
    /\ pc[t] = "secrets"
    /\ \/ f = "none" /\ row.there /\ Go(t, "queued")
       \/ (f = "database" \/ (f = "none" /\ ~row.there)) /\ Go(t, "rm_runtime")
    /\ UNCHANGED <<store, disk, world, my, service>>

\* The status shown until the job runs; an error is ignored.
Mark(t, f) ==
    /\ pc[t] = "mark"
    /\ \/ f = "none" /\ SetStatus(IF my[t].upd THEN "updating" ELSE "pending")
       \/ f = "database" /\ UNCHANGED row
    /\ Go(t, "queued")
    /\ UNCHANGED <<op, disk, world, my, service>>

\* A worker runs the job.
Dequeue(t) ==
    /\ pc[t] = "queued"
    /\ Go(t, IF my[t].upd THEN "update"
             ELSE IF Kind(t) = "create" THEN "prev" ELSE "begin")
    /\ UNCHANGED <<store, disk, world, my, service>>

----------------------------------------------------------------------------
(* redeploy                                                                 *)

\* Faulty: a missing source is left to the redeploy to find.
BeginWithoutSource(t) ==
    /\ pc[t] = "begin"
    /\ Go(t, IF my[t].row.type = "git" /\ my[t].row.compose = None
             THEN "prev" ELSE "pending")
    /\ UNCHANGED <<store, disk, world, my, service>>

\* A git app without a usable compose file or without its source starts over
\* from the repository.
Begin(t) ==
    /\ pc[t] = "begin"
    /\ Go(t, IF my[t].row.type = "git" /\ (my[t].row.compose = None \/ CurrentSource = None)
             THEN "prev" ELSE "pending")
    /\ UNCHANGED <<store, disk, world, my, service>>

MarkPending(t, f) ==
    /\ pc[t] = "pending"
    /\ \/ f = "none" /\ row.there /\ SetStatus("pending") /\ Go(t, "source")
       \/ (f = "database" \/ (f = "none" /\ ~row.there)) /\ UNCHANGED row /\ Go(t, "failed")
    /\ UNCHANGED <<op, disk, world, my, service>>

\* The source is looked up, the storage planned, the generated files written
\* again and the environment loaded. Failures of the last two do not reach the
\* app row.
ReadSource(t, f) ==
    /\ pc[t] = "source"
    /\ \/ /\ f = "none" /\ CurrentSource # None
          /\ my' = [my EXCEPT ![t].src = CurrentSource] /\ Go(t, "teardown")
       \/ /\ f \in {"source", "storage"} \/ (f = "none" /\ CurrentSource = None)
          /\ Go(t, "record") /\ UNCHANGED my
       \/ f = "regenerate" /\ Go(t, "failed") /\ UNCHANGED my
    /\ UNCHANGED <<store, disk, world, service>>

----------------------------------------------------------------------------
(* deployGit                                                                *)

\* The row is read by name and written up front: pending, with the settings of
\* the request and no compose file. A name that is taken is refused, unless by
\* a creation that has come no further. Without a row one is written, and there
\* is nothing deployed before that the deploy would take down; a job of the
\* service then fails, as its operation belongs to the row that is gone.
ReadPrevious(t, f) ==
    /\ pc[t] = "prev"
    /\ \/ /\ f = "none" /\ row.there
          /\ Kind(t) \notin {"create", "deploy"} \/ (row.status = "pending" /\ row.compose = None)
          /\ row' = [row EXCEPT !.type = "git", !.status = "pending", !.compose = None]
          /\ my' = [my EXCEPT ![t].row = Copy(row'), ![t].git = TRUE]
          /\ Go(t, IF Kind(t) = "deploy" THEN "claim" ELSE "clear")
       \/ /\ f = "none" /\ ~row.there
          /\ row' = [NoRow EXCEPT !.there = TRUE]
          /\ my' = [my EXCEPT ![t].row = Copy(row'), ![t].git = TRUE, ![t].fresh = TRUE]
          /\ Go(t, IF Kind(t) = "deploy" THEN "claim" ELSE "failed")
       \/ /\ \/ f = "database"
             \/ /\ f = "none" /\ row.there /\ Kind(t) \in {"create", "deploy"}
                /\ ~(row.status = "pending" /\ row.compose = None)
          /\ Go(t, IF Kind(t) = "deploy" THEN "done" ELSE "failed")
          /\ UNCHANGED <<row, my>>
    /\ UNCHANGED <<op, disk, world, service>>

\* The old checkout goes first, then the repository is cloned.
ClearSource(t, f) ==
    /\ pc[t] = "clear"
    /\ \/ f = "none" /\ checkout' = None /\ Go(t, "clone")
       \/ f = "source" /\ UNCHANGED checkout /\ Go(t, "record")
    /\ UNCHANGED <<store, dirs, world, my, service>>

Clone(t, f) ==
    /\ pc[t] = "clone"
    /\ \/ /\ f = "none"
          /\ \E v \in Versions : checkout' = v /\ my' = [my EXCEPT ![t].src = v]
          /\ Go(t, "compose")
       \/ f = "source" /\ Go(t, "record") /\ UNCHANGED <<checkout, my>>
    /\ UNCHANGED <<store, dirs, world, service>>

\* The compose file of the checkout is found or generated, the storage planned,
\* and the row written with it; its release is the one read at first.
Compose(t, f) ==
    /\ pc[t] = "compose"
    /\ \/ /\ f = "none" /\ row.there
          /\ row' = [my[t].row EXCEPT !.compose = my[t].src, !.status = "pending"]
          /\ my' = [my EXCEPT ![t].row = Copy(row')]
          /\ Go(t, "teardown")
       \/ /\ f \in {"source", "storage", "database"} \/ (f = "none" /\ ~row.there)
          /\ Go(t, "record") /\ UNCHANGED <<row, my>>
    /\ UNCHANGED <<op, disk, world, service>>

----------------------------------------------------------------------------
(* What both do                                                             *)

\* A deploy that found no row takes nothing down.
Teardown(t, f) ==
    /\ pc[t] = "teardown"
    /\ \/ f = "none" /\ my[t].fresh /\ UNCHANGED <<live, route>> /\ Go(t, "deploy")
       \/ f = "none" /\ ~my[t].fresh /\ RemoveAll /\ Go(t, "deploy")
       \/ f = "remove" /\ ~my[t].fresh /\ RemoveSome /\ Go(t, "record")
    /\ UNCHANGED <<store, disk, my, service>>

\* The images are built, the containers created and started one by one.
\* Containers that bear the names already are in the way; if they are not
\* complete, missing ones may join them first.
Deploy(t, f) ==
    LET made(on) == [spec |-> my[t].row.compose, src |-> my[t].src, on |-> on, checked |-> FALSE]
    IN  /\ pc[t] = "deploy"
        /\ \/ f = "none" /\ live = NoContainers /\ live' = made("all") /\ Go(t, "verify")
           \/ /\ \/ f = "runtime" /\ live = NoContainers /\ \E on \in Running : live' = made(on)
                 \/ /\ f = "runtime" \/ (f = "none" /\ live # NoContainers)
                    /\ \/ UNCHANGED live
                       \/ /\ live # NoContainers /\ ~live.checked
                          /\ \E on \in {"all", "some"} : live' = [live EXCEPT !.on = on]
              /\ Go(t, "undo")
        /\ UNCHANGED <<store, disk, route, my, service>>

\* The containers are looked at for a while and must all run.
Verify(t, f) ==
    /\ pc[t] = "verify"
    /\ \/ /\ f = "none" /\ live.on = "all"
          /\ live' = [live EXCEPT !.checked = TRUE] /\ Go(t, "persist")
       \/ (f = "runtime" \/ (f = "none" /\ live.on # "all")) /\ UNCHANGED live /\ Go(t, "undo")
    /\ UNCHANGED <<store, disk, route, my, service>>

\* The storage mappings are written.
Persist(t, f) ==
    /\ pc[t] = "persist"
    /\ \/ /\ f = "none"
          /\ Go(t, IF my[t].git /\ my[t].row.release # None THEN "unpoint" ELSE "running")
       \/ f = "storage" /\ Go(t, IF my[t].git THEN "undo" ELSE "undo_only")
    /\ UNCHANGED <<store, disk, world, my, service>>

\* A git redeploy builds the checkout, so the release pointer goes.
ClearCurrentRelease(t, f) ==
    /\ pc[t] = "unpoint"
    /\ \/ f = "none" /\ row.there /\ row' = [row EXCEPT !.release = None] /\ Go(t, "running")
       \/ (f = "database" \/ (f = "none" /\ ~row.there)) /\ UNCHANGED row /\ Go(t, "undo")
    /\ UNCHANGED <<op, disk, world, my, service>>

MarkRunning(t, f) ==
    /\ pc[t] = "running"
    /\ \/ f = "none" /\ row.there /\ SetStatus("running") /\ Go(t, "publish")
       \/ /\ f = "database" \/ (f = "none" /\ ~row.there)
          /\ UNCHANGED row /\ Go(t, IF my[t].git THEN "undo" ELSE "failed")
    /\ UNCHANGED <<op, disk, world, my, service>>

\* applyRoute: a route that cannot be written is removed.
Publish(t, f) ==
    /\ pc[t] = "publish"
    /\ \/ f = "none" /\ route' \in Synced(my[t].row) /\ Go(t, "completed")
       \/ f = "route" /\ route' = "none" /\ Go(t, "record")
    /\ UNCHANGED <<store, disk, live, my, service>>

\* Faulty: the containers are left where they are.
UndoNothing(t, f) ==
    /\ pc[t] = "undo" /\ f = "none"
    /\ Go(t, "undo_route")
    /\ UNCHANGED <<store, disk, world, my, service>>

\* What was deployed is removed, and the route brought in step; a redeploy that
\* cannot persist its storage skips the second.
Undo(t, f) ==
    /\ pc[t] \in {"undo", "undo_only"}
    /\ \/ f = "none" /\ RemoveAll
       \/ f = "remove" /\ RemoveSome
    /\ Go(t, IF pc[t] = "undo" THEN "undo_route" ELSE "record")
    /\ UNCHANGED <<store, disk, my, service>>

UndoRoute(t, f) ==
    /\ pc[t] = "undo_route"
    /\ \/ f = "none" /\ route' \in Synced(my[t].row)
       \/ f = "route" /\ UNCHANGED route
    /\ Go(t, "record")
    /\ UNCHANGED <<store, disk, live, my, service>>

\* The error on the app row, written with a context that may be over.
Record(t, f) ==
    /\ pc[t] = "record"
    /\ \/ f = "none" /\ SetStatus("error")
       \/ f = "context" /\ UNCHANGED row
    /\ Go(t, "failed")
    /\ UNCHANGED <<op, disk, world, my, service>>

\* Faulty: the operation ends with the status of the app.
FinishWithRowStatus(t) ==
    /\ pc[t] \in {"failed", "completed"}
    /\ op' = IF op.holder = t /\ op.state = "active" THEN [op EXCEPT !.state = row.status] ELSE op
    /\ Go(t, "done")
    /\ UNCHANGED <<row, disk, world, my, service>>

\* The operation is finished, unless it is not active any more.
Finish(t) ==
    /\ pc[t] \in {"failed", "completed"}
    /\ op' = IF op.holder = t /\ op.state = "active" THEN [op EXCEPT !.state = pc[t]] ELSE op
    /\ Go(t, "done")
    /\ UNCHANGED <<row, disk, world, my, service>>

\* An app is found stopped if it has no containers, or a usable compose file and
\* nothing runs: without a service to expect, the status is "running".
FoundStopped ==
    \/ live = NoContainers
    \/ live.on = "none" /\ (row.compose # None \/ row.release # None)

\* The update transaction in one step: a new release serves, or what served
\* before does again, or it failed before it touched anything.
Update(t, f) ==
    LET end(s) == op' = IF op.holder = t /\ op.state = "active" THEN [op EXCEPT !.state = s] ELSE op
    IN  /\ pc[t] = "update"
        /\ \/ /\ f = "none" /\ row.there
              /\ \E v \in Versions :
                   /\ row' = [row EXCEPT !.status = "running", !.compose = v, !.release = v]
                   /\ dirs' = dirs \cup {v}
                   /\ live' = [spec |-> v, src |-> v, on |-> "all", checked |-> TRUE]
              /\ route' = "live" /\ end("completed")
           \/ /\ f = "source"
              /\ \/ FoundStopped /\ SetStatus("stopped") /\ UNCHANGED live
                 \/ ~FoundStopped /\ SetStatus("running") /\ StartAll
              /\ end("rolled_back") /\ UNCHANGED <<dirs, route>>
           \/ /\ f = "source" \/ (f = "none" /\ ~row.there)
              /\ SetStatus("error")
              /\ end("failed") /\ UNCHANGED <<dirs, live, route>>
        /\ Go(t, "done")
        /\ UNCHANGED <<checkout, my, service>>

----------------------------------------------------------------------------
(* Actions that look whether the app is idle, and then act                  *)

\* The restart of the command line also wants a usable compose file.
Usable(t) == t \in CliTasks /\ Kind(t) = "restart" => my[t].row.compose # None

Guard(t, f) ==
    /\ pc[t] = "guard"
    /\ Go(t, IF f = "none" /\ Idle /\ Usable(t)
             THEN IF Kind(t) = "remove" THEN "rm_runtime" ELSE "act"
             ELSE "done")
    /\ f \in {"none", "database"}
    /\ UNCHANGED <<store, disk, world, my, service>>

\* An app without containers cannot be started, stopped or restarted. A failing
\* call leaves some containers done and others not. A restart from the command
\* line also writes the row.
Act(t, f) ==
    /\ pc[t] = "act"
    /\ \/ /\ f = "none" /\ live # NoContainers
          /\ IF Kind(t) = "stop" THEN live' = [live EXCEPT !.on = "none"] ELSE StartAll
          /\ Go(t, IF Kind(t) = "restart" /\ t \notin CliTasks THEN "sync" ELSE "status")
       \/ /\ f = "runtime"
          /\ \/ UNCHANGED live
             \/ live # NoContainers /\ \E on \in Running : live' = [live EXCEPT !.on = on]
          /\ Go(t, "done")
       \/ f = "none" /\ live = NoContainers /\ UNCHANGED live /\ Go(t, "done")
    /\ UNCHANGED <<store, disk, route, my, service>>

\* An error is ignored.
WriteStatus(t, f) ==
    /\ pc[t] = "status"
    /\ \/ f = "none" /\ SetStatus(IF Kind(t) = "stop" THEN "stopped" ELSE "running")
       \/ f = "database" /\ UNCHANGED row
    /\ Go(t, "sync")
    /\ UNCHANGED <<op, disk, world, my, service>>

Sync(t, f) ==
    /\ pc[t] = "sync"
    /\ \/ f = "none" /\ route' \in Synced(my[t].row)
       \/ f = "route" /\ UNCHANGED route
    /\ Go(t, "done")
    /\ UNCHANGED <<store, disk, live, my, service>>

\* deleteApp: containers, route, files, row. It gives up at the first error.
RemoveRuntime(t, f) ==
    /\ pc[t] = "rm_runtime"
    /\ \/ f = "none" /\ RemoveAll /\ Go(t, "rm_route")
       \/ f = "remove" /\ RemoveSome /\ Go(t, "done")
    /\ UNCHANGED <<store, disk, my, service>>

RemoveRoute(t, f) ==
    /\ pc[t] = "rm_route"
    /\ \/ f = "none" /\ route' = "none" /\ Go(t, "rm_row")
       \/ f = "route" /\ UNCHANGED route /\ Go(t, "done")
    /\ UNCHANGED <<store, disk, live, my, service>>

\* The row takes its operations with it.
DeleteRow(t, f) ==
    /\ pc[t] = "rm_row"
    /\ \/ f = "none" /\ checkout' = None /\ dirs' = {} /\ row' = NoRow /\ op' = NoOp
       \/ f = "database" /\ checkout' = None /\ dirs' = {} /\ UNCHANGED store
       \/ f = "source" /\ UNCHANGED <<disk, store>>
    /\ Go(t, "done")
    /\ UNCHANGED <<world, my, service>>

----------------------------------------------------------------------------
(* The process                                                              *)

\* Nothing of a running job survives, except what it has done. Containers may
\* go down, with the machine or by themselves.
Crash ==
    /\ up /\ crashes < MaxCrashes
    /\ up' = FALSE /\ crashes' = crashes + 1 /\ rc' = "off"
    /\ pc' = [t \in Tasks |-> IF t \notin CliTasks /\ pc[t] \notin {"idle", "done"}
                              THEN "dead" ELSE pc[t]]
    /\ my' = [t \in Tasks |-> IF t \notin CliTasks THEN NoLocals ELSE my[t]]
    /\ \E on \in Fewer : live' = [live EXCEPT !.on = on]
    /\ rcRow' = NoRow
    /\ UNCHANGED <<store, disk, route>>

\* Faulty: the apps keep their status.
BootWithoutError ==
    /\ ~up
    /\ up' = TRUE /\ rc' = "list"
    /\ op' = IF op.state = "active" THEN [op EXCEPT !.state = "interrupted"] ELSE op
    /\ my' = [t \in Tasks |-> IF pc[t] = "done" THEN NoLocals ELSE my[t]]
    /\ UNCHANGED <<row, disk, world, pc, crashes, rcRow>>

\* Active operations become interrupted and put the error on the row of their
\* app; the reconciliation runs beside the first requests.
Boot ==
    /\ ~up
    /\ up' = TRUE /\ rc' = "list"
    /\ \/ /\ op.state = "active"
          /\ op' = [op EXCEPT !.state = "interrupted"] /\ SetStatus("error")
       \/ op.state # "active" /\ UNCHANGED store
    /\ my' = [t \in Tasks |-> IF pc[t] = "done" THEN NoLocals ELSE my[t]]
    /\ UNCHANGED <<disk, world, pc, crashes, rcRow>>

ReconcileList(f) ==
    /\ rc = "list"
    /\ \/ f = "none" /\ row.there /\ rcRow' = row /\ rc' = "look"
       \/ (f = "database" \/ (f = "none" /\ ~row.there)) /\ rc' = "off" /\ UNCHANGED rcRow
    /\ UNCHANGED <<store, disk, world, local, up, crashes>>

\* The app stays dark without a usable compose file, after an error that was
\* not recovered from, and without containers.
Dark ==
    \/ rcRow.compose = None
    \/ rcRow.status = "error" /\ op.state \in {"failed", "interrupted"}
    \/ live = NoContainers

\* Faulty: an error on the row does not matter.
ReconcileLookAtContainers(f) ==
    /\ rc = "look" /\ f = "none"
    /\ \/ live = NoContainers /\ rc' = "off" /\ route' = "none"
       \/ /\ live # NoContainers /\ UNCHANGED route
          /\ rc' = IF live.on = "none" /\ rcRow.status = "running" THEN "start" ELSE "sync"
    /\ UNCHANGED <<store, disk, live, local, up, crashes, rcRow>>

\* Only an app of which nothing runs is started: its status is "stopped".
ReconcileLook(f) ==
    /\ rc = "look"
    /\ \/ f = "none" /\ Dark /\ rc' = "off" /\ route' = "none"
       \/ f = "route" /\ Dark /\ rc' = "off" /\ UNCHANGED route
       \/ /\ f = "none" /\ ~Dark /\ UNCHANGED route
          /\ rc' = IF live.on = "none" /\ rcRow.status = "running" THEN "start" ELSE "sync"
       \/ f = "runtime" /\ rc' = "off" /\ UNCHANGED route
    /\ UNCHANGED <<store, disk, live, local, up, crashes, rcRow>>

ReconcileStart(f) ==
    /\ rc = "start"
    /\ rc' = "sync"
    /\ \/ f = "none" /\ live # NoContainers /\ StartAll /\ SetStatus("running")
       \/ (f = "runtime" \/ (f = "none" /\ live = NoContainers)) /\ UNCHANGED <<live, row>>
       \/ /\ f = "runtime" /\ live # NoContainers
          /\ \E on \in Running : live' = [live EXCEPT !.on = on]
          /\ UNCHANGED row
    /\ UNCHANGED <<op, disk, route, local, up, crashes, rcRow>>

ReconcileSync(f) ==
    /\ rc = "sync"
    /\ rc' = "off"
    /\ \/ f = "none" /\ route' \in Synced(rcRow)
       \/ f = "route" /\ UNCHANGED route
    /\ UNCHANGED <<store, disk, live, local, up, crashes, rcRow>>

Reconcile(f) ==
    ReconcileList(f) \/ ReconcileLook(f) \/ ReconcileStart(f) \/ ReconcileSync(f)

----------------------------------------------------------------------------
(* All together                                                             *)

Job(t, f) ==
    \/ Insert(t, f) \/ Overwrite(t, f) \/ Claim(t, f) \/ StoreSecrets(t, f) \/ Mark(t, f)
    \/ f = "none" /\ (Dequeue(t) \/ Begin(t) \/ Finish(t))
    \/ MarkPending(t, f) \/ ReadSource(t, f) \/ ReadPrevious(t, f) \/ ClearSource(t, f)
    \/ Clone(t, f) \/ Compose(t, f) \/ Teardown(t, f) \/ Deploy(t, f) \/ Verify(t, f)
    \/ Persist(t, f) \/ ClearCurrentRelease(t, f) \/ MarkRunning(t, f) \/ Publish(t, f)
    \/ Undo(t, f) \/ UndoRoute(t, f) \/ Record(t, f) \/ Update(t, f)
    \/ Guard(t, f) \/ Act(t, f) \/ WriteStatus(t, f) \/ Sync(t, f)
    \/ RemoveRuntime(t, f) \/ RemoveRoute(t, f) \/ DeleteRow(t, f)

Quiet == rc = "off" /\ \A t \in Tasks : pc[t] \in {"idle", "done", "dead"}

\* History of a beginning, and of a step; forgotten when it cannot matter.
Begins(who) ==
    /\ sole' = IF Quiet THEN who ELSE None
    /\ faults' = {}
    /\ sound' = (Quiet => route # "old" /\ (live = NoContainers \/ live.checked))
    /\ bare' = (Quiet => live = NoContainers)
    /\ wanted' = IF who # "startup" THEN "any"
                 ELSE IF op.state = "active" THEN "dark" ELSE wanted
    /\ UNCHANGED struck

\* An app is not beyond doubt after a restart from the dashboard, which does not
\* write its row, nor after a start without a compose file, which gives it no route.
Succeeds(t) ==
    /\ pc'[t] = "done" /\ sole = t /\ faults' = {}
    /\ pc[t] \in {"completed", "sync"} \/ (pc[t] = "update" /\ op'.state = "completed")
    /\ Kind(t) = "restart" => t \in CliTasks
    /\ Kind(t) \in {"start", "restart"} => row.compose # None

Goes(who, f) ==
    /\ struck' = IF f = "none" THEN struck ELSE struck + 1
    /\ sole' = IF sole = who THEN who ELSE None
    /\ faults' = IF sole = who THEN faults \cup ({f} \ {"none"}) ELSE {}
    /\ sound' = IF sole = who THEN sound ELSE TRUE
    /\ bare' = IF sole = who THEN bare ELSE TRUE
    /\ wanted' = IF who = "startup" THEN wanted
                 ELSE IF ~Succeeds(who) THEN "any"
                 ELSE IF Kind(who) = "stop" THEN "down" ELSE "up"

\* What can strike a call: nothing more once the bound is reached.
Striking == IF struck < MaxFaults THEN Faults ELSE {"none"}

Next ==
    \/ \E t \in Tasks :
         \/ Request(t) /\ Begins(t)
         \/ \E f \in Striking : Job(t, f) /\ Goes(t, f)
    \/ /\ Crash /\ sole' = None /\ faults' = {} /\ sound' = TRUE /\ bare' = TRUE
       /\ UNCHANGED <<wanted, struck>>
    \/ Boot /\ Begins("startup")
    \/ \E f \in Striking : Reconcile(f) /\ Goes("startup", f)

Spec == Init /\ [][Next]_vars

----------------------------------------------------------------------------
(* Properties                                                               *)

Ended(t, s) == sole = t /\ pc[t] = "done" /\ op.holder = t /\ op.state = s /\ ~my[t].upd

\* Whatever earlier requests, failures and crashes have left behind - no
\* compose file, no checkout, half a removal, foreign containers - a deploy,
\* redeploy or retry that got its claim, and met no failure and no other actor
\* from its first read to its end, succeeds; and then the row, the containers,
\* the source that a redeploy would build from and the route agree, and after a
\* deploy from the repository also the compose file and the source. (A redeploy
\* takes both as they are: a settings form may have written an older file back.)
\* The exception is the first deploy of an app whose containers are there
\* already, which it does not take down and which bear the names it needs: it
\* fails, shows the error, and leaves neither containers nor a route.
LoneDeployServes ==
    \A t \in Tasks :
        /\ Kind(t) \in Pipelines /\ faults = {}
        /\ my[t].row.type = "git" \/ my[t].src # None
        /\ Ended(t, "completed") \/ Ended(t, "failed")
        =>
            \/ /\ op.state = "completed"
               /\ row.there /\ row.status = "running" /\ row.compose # None
               /\ live = [spec |-> row.compose, src |-> CurrentSource, on |-> "all", checked |-> TRUE]
               /\ my[t].git => CurrentSource = row.compose
               /\ route = "live"
            \/ /\ my[t].fresh /\ ~bare /\ op.state = "failed"
               /\ row.status = "error" /\ live = NoContainers /\ route = "none"

\* A deploy that fails on an app that was in order shows it on the app row,
\* and leaves neither containers nobody verified nor a route to containers that
\* are gone. Excepted are the failures that stop the cleanup itself, those of
\* the database, and the two of a redeploy that the code returns without it:
\* the generated files, and the storage mappings.
FailedDeployIsCleanedUp ==
    \A t \in Tasks :
        Kind(t) \in Pipelines /\ Ended(t, "failed") /\ sound =>
            /\ faults \cap {"regenerate", "database", "context"} = {} => row.status = "error"
            /\ faults \cap {"remove", "route", "database"} = {} =>
                 live = NoContainers \/ live.checked
            /\ faults \cap {"remove", "route", "database"} = {}
               /\ (my[t].git \/ "storage" \notin faults) => route # "old"

\* After a service start whose reconciliation met no failure and no other
\* actor, no route leads to containers that are gone or down; an app whose last
\* operation failed or was interrupted and left an error is dark, and so is one
\* whose operation a service start found unfinished until somebody acts; what
\* had been deployed or started runs again and is routed - unless only some of
\* its containers went down: those are not started - and what had been stopped
\* still is.
RestartRestores ==
    up /\ rc = "off" /\ sole = "startup" /\ faults = {} /\ row.there =>
        /\ route = "live" => live.on # "none"
        /\ route # "old"
        /\ row.status = "error" /\ op.state \in {"failed", "interrupted"} => route = "none"
        /\ wanted = "dark" => route = "none"
        /\ wanted = "up" => live.on # "none" /\ (live.on = "all" => route = "live")
        /\ wanted = "down" => live.on = "none" /\ route = "none"
================================================================================
