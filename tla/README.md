# Space Elevator: TLA+ models

Space Elevator deploys applications described by compose files onto one
machine with rootless Podman, routes them through Traefik, and keeps its state
in one SQLite file that a long-running service and the command line share.
This directory models the part of it in which order matters: who may work on an
app, how deployments are queued and run, what a deployment or an update that
fails half-way leaves behind, what becomes of an app's data, names, domains and
routes, and how the binary replaces itself. Source paths below are relative to
the repository root.

Contents: 1 inventory, 2 modules and how they correspond to the code, 3 runs,
4 fairness, 5 proofs, 6 assumptions of the models, 7 known disagreements,
8 what is not modelled, 9 plan.

Checking everything by hand:

    tlc -workers 2 -config Ledger.cfg MCOperationLedger
    tlc -workers 2 -config UpdateTwice.cfg MCUpdateTransaction
    tlc -workers 2 -config Runner.cfg MCDeployRunner
    tlc -workers 2 -config Lifecycle.cfg MCAppLifecycle
    tlapm OperationLedgerProofs.tla

and so on for the table of section 3 and the `*Proofs` modules of section 2.
`PROJECT.json` lists the components, the runs, the theorems, which lines of the
source each definition models, a faulty variant of a definition for each checked
property (the definitions whose comment starts with "Faulty:"), the hazards,
and the disagreements found.

## 1. Inventory

| Component | State | Operations | Correct when |
|---|---|---|---|
| operation ledger (`internal/store/app_updates.go`, migration `0009`) | rows of `app_operations`; a partial unique index over the active statuses | ClaimOperation, SetOperationStatus, FinishOperation, InterruptActiveOperations; deleted with the app | at most one active operation per app; outcomes are final; every claim ends; two workers never share an app |
| update transaction (`internal/deployer/update.go`, `backup.go`) | the app row, the release row, secrets, storage mappings, containers, route, backup directory | preflight, secrets, build, stop, backup, replace, verify, publish, commit; resume, rollback, failure | completed serves the candidate, rolled back serves what was there, the outcome on record is the one that happened, no data is touched before it is backed up |
| deployment runner (`internal/web/deployment_runner.go`, `server.go`) | a channel of 32 jobs, two workers, a semaphore of two, the lifecycle context | submit, run, stop, shutdown | no job lost or run twice, handles closed last, no deadlock on a full queue or at shutdown |
| deploy and redeploy pipelines (`internal/deployer/deployer.go`, `upload.go`, `handlers_deploy.go`, `commands/deploy.go`, `upload.go`) | app row, checkout, containers, route | create, upload, deploy, redeploy, retry, build settings | whatever was left behind, the next deploy that nothing disturbs serves; a failing one is shown and leaves neither unverified containers nor a route to nothing |
| app actions (`internal/web/handlers_apps.go`, `handlers_deployments.go`, `operation_guard.go`, `commands/apps_manage.go`) | none of their own | start, stop, restart, rename, edit the environment, remove | what they did survives a service start; they take nothing away from a deployment |
| startup reconciliation (`internal/web/reconcile.go`) | none of its own; works on rows it read | start what should run, resynchronise routes | what was deployed or started runs, what was stopped does not, an app whose operation failed or was interrupted stays dark, every other file agrees with its row |
| container runtime (`internal/composer/runtime.go`) | Podman's containers, networks, volumes | Activate, Start, Stop, RemoveContainers, Status | stops at the first error, leaving a part of its work |
| storage planning (`internal/deployer/update_storage.go`) | the recorded mappings; directories and volumes | discover, plan, copy, back up, record | an app never runs on anything but its newest data, and none is lost |
| deployment progress and build log (`internal/web/deploy_progress.go`, `buildlog.go`) | step and log rows; lines in memory | stage, log, finish; append, read since | the checklist tells how it ended; a reader misses no line there still is |
| domains and Traefik files (`handlers_domains.go`, `commands/domains.go`, `internal/traefik`) | rows of `app_domains`, one file per app | attach, detach, synchronise | a domain has one app; the file agrees with the rows; a change is done or undone as a whole |
| app table (`internal/store/apps.go`) | names, slugs, states | create, rename, update, delete | a name has one app; containers and files belong to the app of their slug |
| self-update (`internal/selfupdate`, `commands/update.go`) | the binary, the saved binary, a lock | stage, commit, restart, verify, restore | there is always a good binary to return to |
| login limiter and sessions (`ratelimit.go`, `auth*.go`) | counters under a mutex, session rows | fail, lock, expire | the lock-out holds for its time |
| garbage collection (`commands/gc.go`, `store/gc.go`) | none of its own | list, compare, remove | never removes what a running deploy is writing |
| audit, migrations, builders, Podman and Token-Manager clients, configuration, pages, other commands | append-only rows, files, nothing | | not modelled, see section 8 |

How they interact. An HTTP handler *claims* an operation in the ledger, writes
`updating` or `pending` into the app row and *submits* a job to the runner's
channel; the request is answered at once. A worker takes the job, acquires a
slot and calls the deployer, which reads the app, *announces* each phase in the
ledger, drives Podman, writes the Traefik file and finally *finishes* the
operation. The wrapper around the job finishes it a second time. The command
line calls the same deployer directly, in its own process, on the same database.
A service start *interrupts* every active operation, puts the error on the row
of its app, and then reconciles containers and routes with the rows. Removal, start, stop and rename only *look*
at the ledger before they act.

What makes this hard:

- several processes write one database, and the only lock between them is a
  unique index whose list of statuses is repeated in several queries;
- an operation may be finished by the deployer, by the wrapper, by the
  recovery, and by the cascade of a removal, in any order;
- the update touches six stores (three kinds of rows, containers, the route,
  the backup) without a transaction; each of some twenty calls may fail half-way,
  and the rollback itself runs partly under the very context that has ended;
- a job's context ends by its deadline or by a shutdown, at any point;
- the queue may be full, and workers choose between a job and the stop channel
  at random;
- what an update or a deploy finds may be what an earlier failed one left behind;
- requests keep copies of rows and write them back later, beside others and
  beside the reconciliation of a service start;
- what an app has mounted is not recorded at first but asked of its containers,
  which may be gone;
- pages poll logs and checklists that are being written, by number, and go on
  polling over a restart of the service, which numbers anew;
- the program replaces its own binary and restarts itself.

The hazards, each at its line and with the properties that watch it, are in
`PROJECT.json`.

## 2. Modules

    OperationStatus ── OperationLedger ── MCOperationLedger
                   │          ├────────── OperationLedgerProofs
                   │          └─ refines  OperationLock
    Runtime ───────┴── UpdateTransaction ── MCUpdateTransaction
                                └────────── UpdateTransactionProofs
                       DeployRunner ────── MCDeployRunner
                                └────────── DeployRunnerProofs
                       AppLifecycle ────── MCAppLifecycle
                                └────────── AppLifecycleProofs
                       AppRegistry ─────── MCAppRegistry
                                └────────── AppRegistryProofs
                       AppStorage ──────── MCAppStorage
                                └────────── AppStorageProofs
                       Progress ────────── MCProgress
                                └────────── ProgressProofs
                       SelfUpdate ──────── MCSelfUpdate
                                └────────── SelfUpdateProofs

**OperationStatus** holds the status vocabulary of an operation (the list in
the index of migration `0009`) and the order in which phases are announced.

**OperationLock** is the abstract specification: every app is a lock, an
operation acquires one lock, gives it up once and is spent. It says nothing of
rows, processes or crashes.

**OperationLedger** is the table itself. One action is one database statement
(or one transaction). Variables: `status[o]` and `appOf[o]` are the columns of
the row of operation `o`; `appRow[a]` is `apps.status`, reduced to *busy*,
*settled*, *error* and *deleted*; `job[o]` says how far whoever runs `o` has
come; `removing` are apps a removal has found idle; `up` is the service.
`Claim` is ClaimOperation with the unique index as its guard; `Start`,
`Advance`, `Settle`, `Finish` and `WrapUp` are what a job writes, in its order;
`ReturnEarly` is the deployer giving up before it has taken charge;
`BeginRemove`, `DeleteRow`, `GiveUpRemove` are the removal with its check in a
statement of its own; `ServiceStops`, `CliDies` and `ServiceStarts` are crashes
and the recovery. With `LostWrites`, a write whose error the code only logs may
have no effect. What a job does to containers does not appear here.

**Runtime** is the container runtime seen from one app: how many containers
exist and run, which release they were created from, and which secrets they
carry. Every call has the set of its possible results, partial ones included.
`Status` is translated with its quirk: it compares the number of running
containers with the number of services of whatever compose file it is given.

**UpdateTransaction** is `Deployer.update`, for one app, one update after
another. One action is one call that can fail, together with what the code does
next; `pc` names the call, `tx` holds the local variables (what was read, what a
rollback would restore, the error kinds met). The three groups follow the
code: `Forward` is the body from the claim to the commit, `Back` is
`resumePrevious` and `rollbackCandidate`, `Out` is `failUpdate`,
`updateFailure` and the wrapper of the job. Whether a step runs under the
update's context or under the background context is in its guards (`CtxOK`,
`CtxFails` against `BgFails`). `before` is a history variable.

**DeployRunner** is the concurrency of the service: handlers, the bounded
channel, the workers' `select`, the semaphore, the shutdown in its order, the
end of the process at any time, and the restart with its recovery. The channel is
the sequence `queue`; `handler`, `worker`, `held` are the positions of the
goroutines; `row` is the operation's row.

**AppLifecycle** is one app from its creation to its removal, under everything
that can be asked of it: create, upload, deploy, redeploy, retry, build
settings, update, start, stop, restart and remove, from the service and from the
command line, with a service that crashes, starts again, interrupts operations
and reconciles while the first requests are served. One action is one call;
its second parameter names the fault that strikes it. `pc[t]` and `my[t]` are
the position and the local variables of a request, among them the copy of the
row it keeps writing back. `Request` are the handlers and commands; `Begin`
to `Record` are `redeploy` and `deployGit` in their order, `Undo` and `UndoRoute`
their cleanup; `Guard` to `DeleteRow` the actions that only look at the
ledger; `Crash`, `Boot` and `Reconcile` the process. `Boot` interrupts the active
operation and puts the error on the app's row, which `Dark` later looks at with the
operation. `live` are the containers: which compose file and which source they were
made from, whether all of them run, some or none, and whether they passed
verification; a crash of the machine may take some of them down. They may be there
before the app is, left by a job that raced with a removal, and a first deploy does
not take them down (`Teardown`). An update is one step here (`Update`), as
UpdateTransaction has its detail.

**AppRegistry** is the apps beside each other: names, slugs, domains, and the
containers (`box`) and Traefik files (`file`) that go by a slug. A request reads
its app, other rows and the list of domains in statements of their own and
writes later; `SetAppDomains` writes back the list that was read, `Restore` the
one before. `Resolved` and `Render` are what the file for a slug contains.
A deployment replaces the containers of a slug in one step. `error` are the apps
whose row says so, `failed` those whose newest operation failed or was interrupted:
`Boot` adds the apps that are being deployed to both, and the reconciliation removes
the file of an app that is in both (`Pick`, `KeepDark`).

**AppStorage** is the data behind one mount of one app: where it is (a checkout,
the managed directory, the scoped or the bare volume), what each place holds
(the number of the newest write), where the running container mounts it, what is
recorded in `app_storage`, and what backups hold. `discoverStorage`,
`oldBindSource` and `planStorage` are the functions of the same names;
`Update` to `RestoreState` are the steps of an update that touch data, among them
`Prepare`, which makes the volume or the directory of the new release before the
old one is stopped and backed up. The
application writes at any time (`Write`). `legacy` is an app from before
storage was recorded.

**Progress** is what users see of the deployments of an app, one after the other
(`Claim`): the checklist in `deploy_steps` (`steps`, `step`), the log rows
(`logged`), the memory of the build log (`memory`), and two readers, the page of a
deployment (`page`), whose request makes two queries, and the page of the app
(`feed`), which polls by number. `Ends` are the ways the deployer returns: a backup
that fails ends *rolled back* without a rollback, and a rollback may itself fail.
After a `Restart` the memory numbers its lines from 1 again, and the page of the app
keeps the number it had.

**SelfUpdate** is `space-elevator update`: binaries at the target and beside it,
what the service runs, the lock, several commands at a time. Each call may fail,
the command may be killed and the machine restarted between any two.

The machines meet in the operation row, the app row, the containers and the
route. The ledger says what may happen to an operation whoever acts; the update
transaction, the lifecycle and the progress write it as such actors; the runner
creates and ends jobs. They are kept apart because each property needs only one
of them, and each stands for the others by a step: an update in AppLifecycle, a
deployment in AppRegistry, a job in DeployRunner.

## 3. Runs

Runs that must pass:

| Run | Instance | Properties |
|---|---|---|
| Ledger | 2 apps, 3 operations of which one is run by the command line, lost writes | `TypeOK`, `OneActivePerApp`, `OneWorkerPerApp`, `TerminalIsFinal`, `ImplementsLock` |
| LedgerService | the same without lost writes, with fairness | `ActiveRowsAreWorkedOn`, `EveryClaimEnds` |
| UpdateTwice | two updates of an app with two services, podman and contexts failing anywhere, with fairness | `CompletedServes`, `RolledBackRestores`, `CurrentIsGood`, `RowTellsTruth`, `NoRemovalBeforeBackup`, `UpdatesEnd` |
| UpdateFaults | one update of an app with two services, queries and statements failing as well | `TypeOK`, `SecretsUndone`, `BackupsAreCold` |
| Runner | three jobs, two workers, one place in the queue, two slots, with fairness | `TypeOK`, `HandlesOutliveJobs`, `JobsRunOnce`, `NoJobIsLost`, `OperationsEnd`, `ShutdownEnds` |
| Lifecycle | two requests of any kind, one of them perhaps a command; two versions of the source, two failing calls, one crash, containers that run in part | `TypeOK`, `LoneDeployServes`, `FailedDeployIsCleanedUp`, `RestartRestores` |
| Registry | two apps, two names, one domain; three requests, two at a time, one failing call, one service start | `TypeOK`, `SequencesKeepOrder`, `StartHeals`, `ChangeIsAllOrNothing` |
| Storage | a deploy, redeploys and updates over three release checkouts beside the first, two writes, three failing calls or kills | `TypeOK`, `RunsOnItsData`, `BackedUpBeforeCutOver` |
| Progress | two deployments, of any kinds, one printed line beside those of the stages, a memory of two lines, pages of two lines, two requests, restarts at any time | `TypeOK`, `ChecklistTellsOutcome`, `FeedIsComplete`, `PageMissesOnlyRaces` |
| SelfUpdate | two commands at a time, two requests; three releases, one of which does not start and one of an older line; one failing call, one kill | `TypeOK`, `AWayBack`, `UpdateIsAllOrNothing` |

Why the bounds are enough. *Ledger*: a claim is guarded by the rows of one app,
so a second app is needed only to see that claims are told apart; three
operations give a holder, its successor and a rival of the other process kind.
Nothing in the model counts beyond that, and the safety properties are proved
for any number. Restarts and removals are not bounded. *UpdateTwice*: what one
update leaves behind is in the variables, so a second update sees every leftover
of a first; two services per release are what it takes for a call to stop half-way
("one of two stopped"). *UpdateFaults*: the failing queries and statements, with
those, fill one update. *Runner*: with two workers busy and one
place taken the third handler has to wait, so a full queue, an abandoned job and
a shutdown with a job still queued all occur. The service's own numbers (32
places, two workers, two slots) differ in nothing the properties see; the proofs
hold for all of them.

*Lifecycle*: an app that is found is in one of the states a complete deploy
leaves, and the first request, its failure or a crash makes every other leftover;
the second is the one that has to cope, and may meet a failure of its own. Both may
also overlap. The run leaves out states of which no property will ever say anything
(the constraint `InScope`): nobody has been alone, nobody is left to begin, and the
service has crashed before and is up. *Registry*: two
apps are what it takes to contend for a name, a slug or a domain; with three
requests one app can be renamed, another created and one of them redeployed.
*Storage*: a legacy app whose first update copies its directory, a second one that
dies or cannot be taken back, and the one that finds what is left need three
releases and three troubles; two writes tell the newest from an older one. The run
explores only states of which its properties say something (the constraint
`InScope`): an app that is out of luck stays so, and releases that disagree go on
disagreeing, which the lemmas `LuckStep` and `FormStep` of AppStorageProofs prove,
so no such state lies behind a state that is left out. *Progress*: a
deployment has up to seven lines of its own, so limits of two are passed, in the
memory as on a page, and lines are written between two queries. The
second deployment empties the memory, or numbers it anew after a restart, while the
page of the app goes on from where it was. The two pages change nothing the other reads,
and the page of a deployment starts anew with each, so the run lets only one of them
read, and the page of a deployment only in the first (the constraint `OneReader`).
The lines from before the first deployment (`MaxBefore`) are none in this run, as the
first deployment leaves such lines to the second; the unlisted configurations have
one.
*SelfUpdate*: the two commands overlap, or the second finds what the first left.

`CHECK_DEADLOCK FALSE` is set except in Storage: requests, operations and updates
are used up after a few steps, and a runner without further requests rests.

Runs that must find a violation. Each states what a comment or a document of the
repository says of the program, and shows the code doing otherwise; the
quotations are in `PROJECT.json`.

| Run | What is violated | How |
|---|---|---|
| UpdateAfterFailure | a rolled back app runs the release its row names | an update after a failed rollback resumes the leftovers of the earlier candidate |
| StorageLoss | an update backs the app's data up first | with the containers gone, or not to be listed, it backs up the checkout's directory and copies that over the managed one |

The following configurations each find one more disagreement (section 7). They
are not among the listed runs, to keep the time of a full check in bounds:

    tlc -config LedgerRemoval.cfg MCOperationLedger          # NoRemovalUnderOperation
    tlc -config LedgerInterrupted.cfg MCOperationLedger      # OnlyTheDeadAreInterrupted
    tlc -config UpdateStoppedApp.cfg MCUpdateTransaction     # StoppedStaysStopped
    tlc -config UpdateStoppedRoute.cfg MCUpdateTransaction   # NoRouteToStopped
    tlc -config UpdateLeftUpdating.cfg MCUpdateTransaction   # NoAppStaysUpdating
    tlc -config UpdateUnverifiedRoute.cfg MCUpdateTransaction # RouteLeadsToVerified
    tlc -config RegistrySlug.cfg MCAppRegistry               # RenamedAppsKeepTheirContainers
    tlc -config StorageBareName.cfg MCAppStorage             # NewAppsScopeTheirVolumes
    tlc -config ProgressPage.cfg MCProgress                  # PageMissesNothing
    tlc -config ProgressFeed.cfg MCProgress                  # FeedMissesNothing

`OneWorkerPerApp`, `ActiveRowsAreWorkedOn` and `EveryClaimEnds` speak of the
service's own jobs only, because LedgerInterrupted makes them false of
command-line processes. `RolledBackRestores` is stated for apps that were sound
when the update found them (`FoundSound`), because of UpdateStoppedApp and
UpdateAfterFailure; an app that was stopped, half running or never brought up
counts as sound.

What the properties of the newer modules except, and why: `LoneDeployServes`
and `RestartRestores` are about an actor that was alone from its beginning and
met no failure - what it *found* is any leftover of overlapping, failing or killed
predecessors. A deploy from the repository must bring compose file and source
together; a redeploy takes both as they are, since a settings form may have written an
older file back (section 7). A first deploy over containers that were there fails: there
`LoneDeployServes` says that it shows the error and leaves neither containers nor a
route. `RestartRestores` asks an app to run again only if none of its containers does,
for the code starts nothing else (section 7); whatever runs, no route leads to
containers that are gone or down, and an app whose operation failed or was interrupted
is dark. `FailedDeployIsCleanedUp` excepts a failure of the cleanup itself,
of the database, and two early returns that do without it (section 7).
`SequencesKeepOrder` and `StartHeals` except two apps with one slug, and `StartHeals`
says of an app that is to stay dark that it has no file;
`RunsOnItsData` and `BackedUpBeforeCutOver` except the three circumstances of
`Lucky` (a listing that fails, a redeploy before the storage is recorded, an
update that finds no containers) and of `OnTrial`: writes of a legacy app between the
move of its directory and the moment from which it cannot be taken back to the old
one. `PageMissesOnlyRaces` excepts lines between the two queries and beyond the limit,
`FeedIsComplete` those a page skips after a restart, and
`AWayBack` a `--rollback` run beside another command.

## 4. Fairness

- *Jobs go on* (`WF(Work(o))`, `WF(Step)`, `WF(Work(w))`): every call a job
  makes returns. The code passes contexts with a 30-minute deadline into
  every Podman and git call, and database calls have a busy timeout.
- *The service comes back* (`WF(ServiceStarts)`, `WF(Restart)`):
  `deploy/space-elevator.service:10` has `Restart=always`.
- *A waiting submit gets its turn* (`SF(Submit(j))`): room in the channel comes
  and goes; Go's channels serve blocked senders in their order of arrival, so
  room that appears again and again reaches everyone.
- *The shutdown goes on* (`WF(ShutDown)`): draining is bounded by 20 seconds,
  and the remaining steps follow when their guards hold. The process ends by
  itself only when the handles are closed; being killed before is allowed and
  never assumed.

No fairness is assumed for requests, claims, removals, cancellations, or for
the branch of a nondeterministic choice that succeeds.

## 5. Proofs

The theorems hold for every value of the constants, under the assumptions of the
modules (named `ASSUME`s: the command line's operations are operations, `None`
and its like are none of the things they stand beside, bounds are natural numbers,
there is at least one service, a finite number of workers not larger than the number
of slots; capacity, slots and limits are positive). Bounds that are there for TLC
(`MaxFaults`, `MaxWrites`, ...) are constants too: the proofs hold for all of
them. Every inductive invariant below was checked by TLC on a small instance before
it was proved.

*OperationLedgerProofs.* `OneActiveOperation` and `OutcomesAreFinal` rest on
`TableInv`: the types, `OwnersKnown` (a row that exists has an app and a job),
and `ActiveUnique`, the index without counting. Lemma `RowStep` lists all
that a step can do to a row, and the rest cites it. `WorkersExclude` does not
follow from the index alone: a removal deletes rows of jobs that still run, and
a recovery ends them. It needs `WorkInv`, which adds that a live job of the
service holds its row unless the row went with its app (`LiveHoldsRow`), that no
job outlives the service (`StoppedIsIdle`), and that a deleted app has no
active row and never gets one (`GoneWithApp`). `ActiveRowsHaveWorkers` is the
converse, and assumes `LostWrites = FALSE`: a job whose last write is lost leaves an
active row that nobody works on until the next service start.
`LedgerImplementsLock` is the refinement: `HolderFacts` shows that the owner read
off the rows is unique, and `LockStep` maps every step to an acquisition, a release
of one or (at a service start) of many locks, or a stutter.

*UpdateTransactionProofs.* `UpdateTypeOK` first, with the lemmas about the
operators of Runtime. `NoHotBackup` and `BackupComesFirst` rest on `BackupInv`:
containers are down when the backup is due, and after it the backup stays.
`SecretsAreUndone` rests on `SecretsInv`: while an update is under way the
secrets are those it found, or there is a snapshot of those to put back, or the
error says that they could not be. `CompletedUpdatesServe` rests on `ServesInv`: each
step of the way forward finds what all earlier ones achieved (containers verified,
route published, release, row and mappings written), and nobody says *completed*
elsewhere. All these hold with failing queries and lost writes.

`CurrentStaysGood` rests on `CurrentInv` and assumes `WriteFaults = FALSE`: with
a restore of the row that fails, the row may keep pointing at a candidate that
is then marked failed. `RowSaysWhatRuns` assumes the same, for a status that cannot
be written tells nothing; it rests on `RuntimeInv` (the containers are down where
the previous release is resumed, all run where it was rebuilt, unless an error is on
record) and `RowInv`. `RollbackRestores` assumes `ReadFaults = FALSE`: a query for
the current release that fails counts as having none, and the rollback rebuilds the
source of the first deploy (section 7). It rests on three invariants about what an
update remembers: `PointerInv` and `StorageInv` follow the row and the mappings
from what was found to the candidate's and back, `RestoreInv` the containers.

*DeployRunnerProofs.* `HandlesAreClosedLast` and `NoJobRunsTwice` rest on
`PlaceInv` (a job is with its handler, once in the queue, or with one worker, and
its row is active meanwhile), `NoClaimIsForgotten` on `WayInv` (until the
runner is stopped the job of every active row is somewhere),
`NoJobWaitsForASlot` on `SlotInv` (free slots and running workers add up). Its
`SlotsSuffice` is proved only: no run repeats it.
`RunnerTypeOK` combines them.

*ProgressProofs.* `FeedShowsWhatIsKept` needs only the types with what they
say of numbers (`TypeInv`: the lines in memory are numbers that were given since the
service started, none above the newest; a page that has asked since then goes on from
such a number). `PagesMissOnlyRaces` rests on `PageInv`: what
the page has passed without showing is written down in the two histories of races and
of cut-offs. `ChecklistsTellOutcomes` rests on `RowInv` (what the row says at each
place of the worker) and `ChecklistInv` (every step before the current one is done or
skipped, every later one pending, but for the stages a rollback undoes; and how each
outcome, the resumed release of a failed backup and the failure inside a rollback
among them, closes the list), by the order of the keys.

*SelfUpdateProofs.* `ThereIsAWayBack` rests on `PlaceInv` (an update is under its
lock, so there is one) and `WayInv`, which says at each of the twenty-odd steps which
of the target and the saved binary is good. `UpdatesAreAllOrNothing` rests on
`SoleInv`: what an update that has been alone and unhurt has done to both files and
to the service by each step.

*AppRegistryProofs.* `StartsHeal` rests on `HealInv`: of an undisturbed service start
every app is in step, or without a file if it is to stay dark, or still on the list,
and the list is as the rows are.
`ChangesAreAllOrNothing` rests on `AloneInv`, the list of domains and the file at
each step of a change, its failure and its undoing. `SequencesStayInOrder` rests on
`OrderInv`: with one actor at a time every app is in order or in the hands of that
actor, the names and the domains of all apps stay apart, and nothing is left under a
name that is free.

*AppStorageProofs.* `AppsRunOnTheirData` and `BackupsComeBeforeCutOver` rest on
`FreshInv` and `LuckyInv`. The latter says, of an app in luck whose releases mount
their data alike, where the newest write is: in the volume or the directory
that is recorded; for a legacy app in its checkout until an update moves it, which
then is either under way (`Moves`, with the newest write in the copy from some step
on), or was taken back (`TakenBack`), or holds (`Stays`); and from its second step on
an update has the newest write in its backup. `FormStep` and `LuckStep` show that what
the properties presuppose was always so before.

*AppLifecycleProofs.* One lemma per action (`InsertFacts` to `DeleteRowFacts`) says
what the action does to each variable; everything else cites these. `LifecycleTypeOK`
comes first. `TaskInv` says what a request that is at some step was asked to do, and
that nobody holds the operation before its claim; `LiveInv` and `DropInv` that
containers are made of something and a drop has a compose file. `LoneInv` is what a
request knows that has been alone since it began, whatever mess it began in: its copy
of the row agrees with the row (`RowInv`), what it builds is where the next redeploy
will look (`SourceInv`), the containers are gone from the teardown on, then made, then
verified (`MadeInv`) - or, of a first deploy, as they were found, and then it can only
fail -, and a failure on the way shows and is cleaned up as far as the
failures after it allow (`FailureInv`). At its end this is `Outcome`, from which
`LoneDeploysServe` and `FailedDeploysAreCleanedUp` follow. `RestartsRestore` combines
`StartInv`, the reconciliation that is alone step by step, with `WantedInv`: from the
success of a request that was alone until the next request the row and the containers
are as that request wanted them, through crashes and service starts, even those that
meet failures; and after a service start that found an operation unfinished the row is
in error until somebody acts. For it `LoneInv` also follows the start, stop and restart (`LookInv`)
and the operation (`HoldsInv`).

Only model-checked: the liveness properties (`EveryClaimEnds`, `UpdatesEnd`,
`OperationsEnd`, `ShutdownEnds`), which are out of the prover's reach.

## 6. Assumptions of the models

- A web update passes no secrets to the deployer; the command line may. Only
  web jobs run under a context that ends by itself. The command line reads the
  app and claims the operation in one step of the model.
- The app in UpdateTransaction has an exposed service, so publishing its route
  leaves it *synced*, and every release has the same number `N` of services.
- A failing call has done any part of its work. Rollback and resume touch
  containers through the same calls and fail the same way.
- In UpdateTransaction the only cause for which a web job cannot read its app
  is its context. A rename between claim and job is another cause with the same
  effect.
- One app at a time in UpdateTransaction: nothing in the transaction reads or
  writes another app's rows, containers or files.
- UpdateTransaction has no crash. The ledger says what becomes of the rows, and
  AppStorage what becomes of the data.
- In the runner a job is one step between taking its slot and finishing its row;
  a failure, a success and a recovered panic all end so.
- In AppLifecycle all versions of an app have the same services, one of them
  exposed, and a parsable compose file, the row's secrets and environment are left out, and an update is atomic: a
  crash strikes before or after it. Images are built in the same step as
  containers are made. The history variables `sole`, `faults`, `sound`, `bare` and
  `wanted` are forgotten where they cannot matter, to keep the states few.
- In AppRegistry slugs are names, a path route is on for all apps or for none
  (`Paths`), and a deployment replaces the containers of its slug, removes them or
  fails before it touches them; a failure of the query for an app's operations is the
  fault *database* of `Pick`. Of the operations only the newest matters, as failed
  or not.
- In AppStorage the app has one logical mount; several are planned one by one
  in the code, in one transaction of the pipeline. A directory holds one value, the
  newest write to it: a copy or an archive is of that.
- In Progress log lines are numbers, and a page is one browser. The page of a
  deployment is left aside when the next one is claimed. The page of the app may ask
  at any time, though in the code it stops when it is told that the deployment is
  over.
- In SelfUpdate a binary is a release or garbage (a torn copy), and whether a
  release starts is decided by what it is (`Good`).

## 7. Known disagreements

With a run or a configuration (section 3):

- LedgerRemoval: a removal that has found the app idle deletes it under an
  operation claimed meanwhile (`operation_guard.go:18`; `docs/api.md:220-221`).
- LedgerInterrupted: a service start interrupts the update a command is working
  on (`server.go:62-65`), after which a second worker may be admitted beside it.
- UpdateStoppedApp: without a parsable compose file the status is taken against
  zero services, none running counts as all running, and a failed backup starts
  a stopped app (`update.go:340-348`).
- UpdateStoppedRoute: the rollback writes the route, then stops the containers
  it leads to (`update.go:418`, `445`).
- UpdateLeftUpdating: the deployer cannot read the app, the wrapper only ends the
  operation, and the app stays `updating` (`update.go:74`).
- UpdateUnverifiedRoute: the rollback publishes a route although it could not
  remove the candidate (`update.go:418`).
- RegistrySlug: after a rename the old name is free, and a new app of that name
  gets the slug of the renamed one, its containers and its file
  (`handlers_apps.go:223-225`).
- StorageBareName: an app whose first deploy failed after its compose file was
  stored is redeployed on the volume with the bare name
  (`update_storage.go:212-226`; `docs/api.md:228-229`).
- ProgressFeed: after a restart of the service the page of an app asks for what comes
  after its old number, while the lines are numbered from 1 again; those of the next
  deployment up to that number are never shown (`buildlog.go:24-25`, `app.js:487`).
- ProgressPage: a page goes on from the newest number of a second query and skips
  the lines written in between, or beyond the limit (`app_updates.go:766-809`).

Met while modelling, without a configuration:

- Update. Containers that `resumePrevious` starts again keep the route they had
  when they were stopped (`update.go:363`, `566`), which the model calls *stale*.
  An error of the query for the current release counts as having none
  (`update.go:229`), so a rollback rebuilds the source of the first deploy and
  still reports *rolled_back*; `RolledBackRestores` is therefore checked with
  `ReadFaults = FALSE`. `Server.Shutdown` cancels running jobs before it waits
  for them (`server.go:143`), while its comment says that they may finish.
- Lifecycle. A redeploy that fails while it regenerates files leaves the row
  `pending` (`deployer.go:673`); one that cannot record its storage removes the
  containers and leaves their route (`752`). A job whose app was removed may
  create its row again. Containers that were left by such a job are not taken down by
  the next first deploy, which fails on their names and then removes them
  (`deployer.go:383`). An app of which some containers went down is *partial*, and a
  service start does not start them (`reconcile.go:102`). A redeploy keeps writing the row it read at first. An
  upload by the command whose claim fails leaves its app. The settings form writes
  back the whole row as it was read, beside another deploy its compose file too, which
  later redeploys build with the newer source (`handlers_build_settings.go:115`). A
  start from the dashboard does not look at the compose file: an app without one runs
  and has no route.
- Registry. The command attaches a domain without looking whose it is. An error
  of the list of domains counts as an empty list (`handlers_domains.go:52`), so
  attaching one drops the others. The undo of a change runs under the context of
  the request, which may be over. The file of a slug no app has is never removed.
  A redeploy that fails before it touches the containers leaves them serving, and the
  next service start takes their route away, as row and operation say *error* and
  *failed* (`reconcile.go:83-90`).
- Storage. First deploys and redeploys never copy into managed storage, though
  `docs/api.md:230-231` says that the first deploy does. A legacy app with a bind
  mount cannot be rolled back: the runtime refuses a directory that is not the
  managed one. Writes a release on trial makes to a place that
  moved are lost when it is taken back.
- Progress. The operation is finished before the checklist is, so a page that
  polls until it is finished may stop with a stale checklist. A page that fails
  to read the checklist replaces it. A rollback marks the step that failed as
  done; a backup that fails is itself marked as rolled back, and the step *rollback*
  stays pending. A redeploy marks steps it skipped as done. A crash leaves a step running.
- Self-update. A kill during the copy to `.prev` leaves a torn file that a later
  `--rollback` installs; `--rollback` takes no lock; a kill after the commit
  leaves a binary that is installed and not running, and the next update says
  that it is up to date.

## 8. Not modelled

Audit rows are written and never read back to decide anything. Builders, compose
parsing, configuration, unit files, pages and JSON transform input to output and
keep no state. The Podman and Token-Manager clients are calls to external
services, and their failures are in Runtime. Migrations run one by one, each in a
transaction, within one process start; what the schema enforces is in the guards
of the ledger and the registry. The login limiter and the sessions are counters
and expiry times under one mutex, apart from everything else. The garbage
collection spares what is younger than an hour; what it decides turns on the clock
alone. Environment and secret edits are single statements behind the same
look-then-act check as a rename; that a running job may write back the
environment it read before is listed as a hazard. The remaining commands are front
ends, `route` among them, which repeats what a restart does to the route in
AppRegistry.

Of the modelled parts: networks, image builds and log streams of the runtime; the
dashboard's own route; the secrets a command-line deploy stores in the middle and
takes back when it fails; the analysis of a repository between the pages of the
wizard; attempt numbers and history listings.

## 9. Plan

Done: the modules of section 2 and the proofs of section 5; every safety property that
a passing run checks is a theorem.

Abstract specifications still worth stating: an atomic replacement that an update
implements when it completes or is rolled back, and the runner as a set of
claims that are each ended once.
