------------------------------ MODULE AppStorage ------------------------------
(***************************************************************************)
(* Where the data of an app is. A release's compose file may mount one     *)
(* thing called "data": a named volume, or a directory of the checkout     *)
(* that is written or only read. A deploy, a redeploy and an update        *)
(* resolve that name to a place on disk with what app_storage recorded and *)
(* what the containers show; an update also backs places up and copies a   *)
(* written directory out of the checkout that it replaces. Calls may fail, *)
(* and the process may die between any two.                                *)
(***************************************************************************)
EXTENDS Integers

CONSTANTS
    MaxReleases,  \* bound on the updates
    MaxWrites,    \* bound on what the app writes
    MaxTrouble    \* bound on the calls that fail and the processes that die

ASSUME StorageBounds == {MaxReleases, MaxWrites, MaxTrouble} \subseteq Nat

(* The places: the data directory of a checkout (0 is the app's source     *)
(* directory, the others are releases), the managed directory, the         *)
(* app-scoped volume se-vol-<id>-<hash>, and the volume called "data".      *)
Checkouts == 0..MaxReleases
Managed == -1
ManagedVolume == -2
BareVolume == -3
Nowhere == -4
Volumes == {ManagedVolume, BareVolume}
Places == Checkouts \cup {Managed} \cup Volumes

(* What is in a place: the newest write to it, else what a repository       *)
(* ships, else nothing, unless it does not exist.                           *)
Shipped == 0
Empty == -1
Absent == -2

Decls == {"none", "ro", "rw", "volume"}  \* how a release mounts it
Unparsed == "unparsed"                   \* no compose file, or none to be parsed
Kind(decl) == IF decl = "volume" THEN "volume" ELSE "bind"
KindOf(p) == IF p \in Volumes THEN "volume" ELSE "bind"

\* A release that only reads the directory ships it.
ReleaseForms == {r \in [decl : Decls, ships : BOOLEAN] :
                    /\ r.decl = "ro" => r.ships
                    /\ r.decl = "volume" => ~r.ships}

VARIABLES
    source,   \* source[d]: how the release of a checkout mounts it
    content,  \* content[p]
    row,      \* the stored compose file, and the checkout of the current release
    box,      \* the containers, and the place they mount
    mapping,  \* the app's row in app_storage
    backups,  \* the writes that are in some backup
    job,      \* the pipeline at work
    last,     \* how many writes the app made
    trouble,  \* failed calls and deaths
    legacy,   \* the app was deployed before app_storage was recorded
    lucky     \* history: see Lucky

vars == <<source, content, row, box, mapping, backups, job, last, trouble, legacy, lucky>>

NoPlan == [candidate |-> Nowhere, previous |-> Nowhere, all |-> Nowhere, from |-> Nowhere]
NoJob == [pc |-> "idle", kind |-> "none", dir |-> 0, plan |-> NoPlan,
          old |-> [row |-> [decl |-> Unparsed, current |-> 0], decl |-> Unparsed,
                   mapping |-> Nowhere, ran |-> FALSE]]
PCs == {"idle", "prepare", "stop", "backup", "copy", "resume", "remove", "deploy", "record",
        "persist", "rollback", "put_back", "restore", "salvage"}
Rows == [decl : Decls \cup {Unparsed}, current : Checkouts]
Somewhere == Places \cup {Nowhere}

TypeOK ==
    /\ source \in [Checkouts -> Decls \cup {Unparsed}]
    /\ content \in [Places -> {Absent, Empty, Shipped} \cup 1..MaxWrites]
    /\ row \in Rows
    /\ box \in [state : {"gone", "stopped", "running"}, mount : Somewhere]
    /\ mapping \in {Nowhere, Managed} \cup Volumes
    /\ backups \subseteq 1..MaxWrites
    /\ job.pc \in PCs /\ job.kind \in {"none", "deploy", "redeploy", "update"}
    /\ job.dir \in Checkouts
    /\ job.plan \in [candidate : Somewhere, previous : Somewhere, all : Somewhere, from : Somewhere]
    /\ job.plan.candidate \notin Checkouts
    /\ job.old \in [row : Rows, decl : Decls \cup {Unparsed}, mapping : Somewhere, ran : BOOLEAN]
    /\ last \in 0..MaxWrites /\ trouble \in 0..MaxTrouble
    /\ {legacy, lucky} \subseteq BOOLEAN

\* An app that was never deployed, or a running one that an older program
\* deployed: its directory is in the checkout, its volume bears the bare name.
Init ==
    /\ mapping = Nowhere /\ backups = {} /\ job = NoJob
    /\ last = 0 /\ trouble = 0 /\ lucky = TRUE /\ legacy \in BOOLEAN
    /\ \/ /\ ~legacy
          /\ source = [d \in Checkouts |-> Unparsed]
          /\ content = [p \in Places |-> Absent]
          /\ row = [decl |-> Unparsed, current |-> 0]
          /\ box = [state |-> "gone", mount |-> Nowhere]
       \/ /\ legacy
          /\ \E r \in ReleaseForms :
               /\ source = [d \in Checkouts |-> IF d = 0 THEN r.decl ELSE Unparsed]
               /\ content = [p \in Places |->
                    CASE p = 0 /\ r.ships -> Shipped
                      [] p = 0 /\ r.decl = "rw" /\ ~r.ships -> Empty
                      [] p = BareVolume /\ r.decl = "volume" -> Empty
                      [] OTHER -> Absent]
               /\ row = [decl |-> r.decl, current |-> 0]
               /\ box = [state |-> "running",
                         mount |-> CASE r.decl = "none" -> Nowhere
                                     [] r.decl = "volume" -> BareVolume
                                     [] OTHER -> 0]

----------------------------------------------------------------------------
(* The plan                                                                 *)

\* What the containers mount, if the old release says it and they agree on what
\* it is; a volume without a container has its bare name. Nothing is found if
\* the containers cannot be listed.
discoverStorage(oldDecl, blind) ==
    LET mounted == /\ box.state # "gone" /\ box.mount # Nowhere
                   /\ oldDecl \in Decls \ {"none"} /\ Kind(oldDecl) = KindOf(box.mount)
    IN  IF blind THEN Nowhere
        ELSE IF mounted THEN box.mount
        ELSE IF oldDecl = "volume" THEN BareVolume ELSE Nowhere

\* A recorded name is not taken for another kind of storage.
Refused(decl) == mapping # Nowhere /\ decl # "none" /\ KindOf(mapping) # Kind(decl)

oldBindSource(found, oldDir) == IF found # Nowhere THEN found ELSE oldDir

\* Faulty: a directory that was found in a checkout stays there.
PlanInPlace(found, oldDir, decl) ==
    LET place == IF decl = "none" THEN Nowhere
                 ELSE IF mapping # Nowhere THEN mapping
                 ELSE IF found # Nowhere THEN found
                 ELSE IF decl = "volume" THEN ManagedVolume ELSE Managed
    IN  [candidate |-> place, previous |-> place, from |-> Nowhere, all |-> place]

\* Faulty: what is backed up is where the data will be.
PlanBackupOfCandidate(found, oldDir, decl) ==
    LET moves == decl = "rw" /\ oldBindSource(found, oldDir) # Managed
        place == IF decl = "volume" /\ mapping = Nowhere THEN ManagedVolume
                 ELSE IF decl = "none" THEN Nowhere
                 ELSE IF mapping # Nowhere THEN mapping ELSE Managed
    IN  [candidate |-> place, previous |-> IF mapping # Nowhere THEN mapping ELSE found,
         from |-> IF moves THEN oldBindSource(found, oldDir) ELSE Nowhere, all |-> place]

\* A recorded place stays, and so does a discovered volume; everything else is
\* the app's managed place. The place before is backed up if a written
\* directory moves.
planStorage(found, oldDir, decl) ==
    LET candidate == CASE decl = "none" -> Nowhere
                       [] decl # "none" /\ mapping # Nowhere -> mapping
                       [] decl = "volume" /\ mapping = Nowhere ->
                            IF found \in Volumes THEN found ELSE ManagedVolume
                       [] OTHER -> Managed
        previous == IF mapping # Nowhere THEN mapping ELSE found
        moves == decl = "rw" /\ oldBindSource(found, oldDir) # candidate
    IN  [candidate |-> candidate, previous |-> previous,
         from |-> IF moves THEN oldBindSource(found, oldDir) ELSE Nowhere,
         all |-> CASE moves -> oldBindSource(found, oldDir)
                   [] ~moves /\ decl # "none" -> candidate
                   [] OTHER -> previous]

----------------------------------------------------------------------------
(* The runtime                                                              *)

\* Where a release that is started from a checkout has it, given the binding.
resolveBinds(decl, dir, binding) ==
    CASE decl = "none" -> Nowhere
      [] decl = "ro" -> dir
      [] decl = "rw" -> IF binding \notin Volumes \cup {Nowhere} THEN binding ELSE dir
      [] OTHER -> IF binding \in Volumes THEN binding ELSE ManagedVolume

\* Every bound directory is made, and only the managed ones may be; every volume
\* in use is created.
Bindable(binding) == binding \notin Checkouts
Ensured(binding, mount) ==
    [p \in Places |->
        IF p \in ({binding, mount} \cap (Volumes \cup {Managed})) /\ content[p] = Absent
        THEN Empty ELSE content[p]]

Activate(decl, dir, binding) ==
    LET mount == resolveBinds(decl, dir, binding)
    IN  /\ content' = Ensured(binding, mount)
        /\ box' = [state |-> "running", mount |-> mount]

RemoveContainers == box' = [state |-> "gone", mount |-> Nowhere]

----------------------------------------------------------------------------
(* The pipelines                                                            *)

At(pc) == job.pc = pc
Go(pc) == job' = [job EXCEPT !.pc = pc]
Done == job' = NoJob

\* History: the containers could be listed; no redeploy resolved the name before
\* it was recorded; and no update found the app without containers, unless it
\* is the next update of a legacy app whose update could not be taken back.
Lucky(kind, blind) ==
    /\ ~blind
    /\ kind = "redeploy" => mapping # Nowhere
    /\ kind = "update" /\ box.state = "gone" =>
         /\ legacy /\ mapping = Nowhere /\ row.current = 0

Begin(kind, dir, oldDecl, oldDir, decl, pc, blind) ==
    /\ lucky' = (lucky /\ Lucky(kind, blind))
    /\ job' = [pc |-> pc, kind |-> kind, dir |-> dir,
               plan |-> planStorage(discoverStorage(oldDecl, blind), oldDir, decl),
               old |-> [row |-> row, decl |-> oldDecl, mapping |-> mapping,
                        ran |-> box.state = "running"]]

Checkout(dir, r) ==
    /\ source' = [source EXCEPT ![dir] = r.decl]
    /\ content' = [content EXCEPT ![dir] = IF r.ships THEN Shipped ELSE Absent]

\* The first deploy of an app, and again until its compose file was parsed: the
\* source directory is cleared and cloned. (If it cannot be, nothing changes here.)
deployGit(blind) ==
    /\ At("idle") /\ row.decl = Unparsed
    /\ \E r \in ReleaseForms :
         /\ Checkout(0, r)
         /\ row' = [row EXCEPT !.decl = r.decl]
         /\ Begin("deploy", 0, Unparsed, 0, r.decl, "remove", blind)
    /\ UNCHANGED <<box, mapping, backups, last>>

\* The stored compose file over the checkout of the current release.
Redeploy(blind) ==
    /\ At("idle") /\ row.decl # Unparsed /\ ~Refused(row.decl)
    /\ Begin("redeploy", row.current, row.decl, row.current, row.decl, "remove", blind)
    /\ UNCHANGED <<source, content, row, box, mapping, backups, last>>

\* A new release in a checkout of its own. What the old one declares is in its
\* release, or else in the app's row.
Update(blind) ==
    /\ At("idle")
    /\ \E d \in Checkouts \ {0}, r \in ReleaseForms :
         /\ \A c \in Checkouts \ {0} : source[c] = Unparsed <=> c >= d
         /\ ~Refused(r.decl)
         /\ Checkout(d, r)
         /\ Begin("update", d, IF row.current = 0 THEN row.decl ELSE source[row.current],
                  row.current, r.decl, "prepare", blind)
    /\ UNCHANGED <<row, box, mapping, backups, last>>

\* The places the new release will have are made before the old one is stopped.
Prepare(fails) ==
    /\ At("prepare")
    /\ IF fails THEN Done ELSE Go("stop")
    /\ \/ content' = Ensured(job.plan.candidate, Nowhere)
       \/ fails /\ UNCHANGED content
    /\ UNCHANGED <<source, row, box, mapping, backups, last, lucky>>

StopOld(fails) ==
    /\ At("stop")
    /\ IF fails THEN Done /\ UNCHANGED box
       ELSE /\ Go("backup")
            /\ box' = IF box.state = "gone" THEN box ELSE [box EXCEPT !.state = "stopped"]
    /\ UNCHANGED <<source, content, row, mapping, backups, last, lucky>>

\* A directory that does not exist is skipped; a volume must exist to be exported,
\* as one that only the old release declared may not.
backupStorage(fails) ==
    LET p == job.plan.all
        missing == p \in Volumes /\ content[p] = Absent
    IN  /\ At("backup")
        /\ IF fails \/ missing THEN Go("resume") /\ UNCHANGED backups
           ELSE /\ Go("copy")
                /\ backups' = backups \cup (IF p \in Places THEN {content[p]} \cap 1..MaxWrites ELSE {})
        /\ UNCHANGED <<source, content, row, box, mapping, last, lucky>>

\* Faulty: a managed directory that has something is kept.
CopyOnce(fails) ==
    LET src == job.plan.from  dst == job.plan.candidate
    IN  /\ At("copy") /\ ~fails
        /\ Go("remove")
        /\ content' = IF src \notin Checkouts \/ content[dst] \notin {Absent, Empty}
                      THEN content
                      ELSE [content EXCEPT ![dst] = content[src]]
        /\ UNCHANGED <<source, row, box, mapping, backups, last, lucky>>

\* File by file over what the managed directory has; a missing one is no failure.
copyDirectory(fails) ==
    LET src == job.plan.from  dst == job.plan.candidate
    IN  /\ At("copy")
        /\ Go(IF fails THEN "resume" ELSE "remove")
        /\ content' = IF fails \/ src \in Volumes \cup {Nowhere} \/ content[src] = Absent THEN content
                      ELSE [content EXCEPT ![dst] = IF content[src] = Empty /\ @ # Absent
                                                    THEN @ ELSE content[src]]
        /\ UNCHANGED <<source, row, box, mapping, backups, last, lucky>>

\* The old containers are started again if this update stopped them.
ResumePrevious(fails) ==
    /\ At("resume") /\ Done
    /\ box' = IF fails \/ ~job.old.ran \/ box.state = "gone" THEN box
              ELSE [box EXCEPT !.state = "running"]
    /\ UNCHANGED <<source, content, row, mapping, backups, last, lucky>>

\* Where a pipeline goes whose step failed.
Failing == IF job.kind = "update" THEN Go("rollback") ELSE Done

RemoveOld(fails) ==
    /\ At("remove")
    /\ IF fails THEN Failing /\ UNCHANGED box ELSE Go("deploy") /\ RemoveContainers
    /\ UNCHANGED <<source, content, row, mapping, backups, last, lucky>>

DeployNew(fails) ==
    /\ At("deploy")
    /\ IF fails THEN /\ Failing
                     /\ \/ content' = content
                        \/ content' = Ensured(job.plan.candidate, Nowhere)
                     /\ UNCHANGED box
       ELSE /\ Go(IF job.kind = "update" THEN "record" ELSE "persist")
            /\ Activate(source[job.dir], job.dir, job.plan.candidate)
    /\ UNCHANGED <<source, row, mapping, backups, last, lucky>>

\* Verified and published, the new release becomes the current one.
RecordRelease(fails) ==
    /\ At("record")
    /\ IF fails THEN Failing /\ UNCHANGED row
       ELSE /\ Go("persist")
            /\ row' = [decl |-> source[job.dir], current |-> job.dir]
    /\ UNCHANGED <<source, content, box, mapping, backups, last, lucky>>

\* Last of all the name is recorded. Failing to, or failing to verify, a deploy
\* and a redeploy remove what they started.
persistRuntimeStorage(fails) ==
    /\ At("persist")
    /\ IF fails THEN /\ Failing /\ UNCHANGED mapping
                     /\ IF job.kind = "update" THEN UNCHANGED box ELSE RemoveContainers
       ELSE /\ Done /\ UNCHANGED box
            /\ mapping' = IF job.plan.candidate = Nowhere THEN mapping ELSE job.plan.candidate
    /\ UNCHANGED <<source, content, row, backups, last, lucky>>

----------------------------------------------------------------------------
(* Rollback of an update                                                    *)

RollbackRemove(fails) ==
    /\ At("rollback")
    /\ IF fails THEN Go("salvage") /\ UNCHANGED box ELSE Go("put_back") /\ RemoveContainers
    /\ UNCHANGED <<source, content, row, mapping, backups, last, lucky>>

\* The old release over its checkout, with its places. A directory of a checkout
\* may not be bound, and there may be no old release.
RollbackDeploy(fails) ==
    /\ At("put_back")
    /\ IF fails \/ ~Bindable(job.plan.previous) \/ job.old.decl = Unparsed
       THEN Go("salvage") /\ UNCHANGED <<content, box>>
       ELSE Go("restore") /\ Activate(job.old.decl, job.old.row.current, job.plan.previous)
    /\ UNCHANGED <<source, row, mapping, backups, last, lucky>>

\* The rows of app_storage are deleted and written again, then the app's row,
\* whether or not the old release is back. If it is, and the app was found
\* stopped, it is stopped again.
RestoreState(fails) ==
    /\ At("restore") \/ At("salvage")
    /\ Done
    /\ \/ ~fails /\ mapping' = job.old.mapping /\ row' = job.old.row
       \/ fails /\ mapping' \in {mapping, Nowhere} /\ row' = job.old.row
       \/ fails /\ mapping' = job.old.mapping /\ row' = row
    /\ box' = IF At("restore") /\ ~fails /\ ~job.old.ran
              THEN [box EXCEPT !.state = "stopped"] ELSE box
    /\ UNCHANGED <<source, content, backups, last, lucky>>

----------------------------------------------------------------------------
(* The app, its operator, and the process                                   *)

Pipeline(fails) ==
    \/ deployGit(fails) \/ Redeploy(fails) \/ Update(fails)
    \/ Prepare(fails) \/ StopOld(fails) \/ backupStorage(fails) \/ copyDirectory(fails) \/ ResumePrevious(fails)
    \/ RemoveOld(fails) \/ DeployNew(fails) \/ RecordRelease(fails) \/ persistRuntimeStorage(fails)
    \/ RollbackRemove(fails) \/ RollbackDeploy(fails) \/ RestoreState(fails)

Work(fails) ==
    /\ Pipeline(fails)
    /\ fails => trouble < MaxTrouble
    /\ trouble' = IF fails THEN trouble + 1 ELSE trouble
    /\ UNCHANGED legacy

\* A container runs what was mounted when it was made: a directory of a checkout
\* is written to only if it was mounted so.
Writable == box.mount # Nowhere
            /\ (box.mount \in Checkouts => source[box.mount] = "rw")

\* A legacy app whose directory moved and that may be taken back to its checkout:
\* its release is on trial, or it was to be taken back and is still there.
OnTrial ==
    /\ legacy /\ mapping = Nowhere /\ box.mount = Managed
    /\ row.current = 0 \/ (job.kind = "update" /\ job.old.row.current = 0)

Write ==
    /\ box.state = "running" /\ Writable /\ last < MaxWrites
    /\ last' = last + 1
    /\ content' = [content EXCEPT ![box.mount] = last + 1]
    /\ lucky' = (lucky /\ ~OnTrial)
    /\ UNCHANGED <<source, row, box, mapping, backups, job, trouble, legacy>>

StartOrStop ==
    /\ At("idle")
    /\ \/ box.state = "running" /\ box' = [box EXCEPT !.state = "stopped"]
       \/ box.state = "stopped" /\ box' = [box EXCEPT !.state = "running"]
    /\ UNCHANGED <<source, content, row, mapping, backups, job, last, trouble, legacy, lucky>>

Die ==
    /\ ~At("idle") /\ Done
    /\ trouble < MaxTrouble /\ trouble' = trouble + 1
    /\ UNCHANGED <<source, content, row, box, mapping, backups, last, legacy, lucky>>

Next == (\E fails \in BOOLEAN : Work(fails)) \/ Write \/ StartOrStop \/ Die

Spec == Init /\ [][Next]_vars

----------------------------------------------------------------------------
(* Properties                                                               *)

Newest == last > 0
Steady == \A c, d \in Checkouts : Unparsed \notin {source[c], source[d]} => source[c] = source[d]

\* Releases that all mount it the same way find the data: whenever the app runs,
\* what it last wrote, under whichever release, is what it has mounted - however
\* updates fail, are taken back or die, and whether the app is new or legacy.
RunsOnItsData ==
    lucky /\ Steady /\ Newest /\ box.state = "running" /\ box.mount # Nowhere =>
        content[box.mount] = last

\* Then also the newest write is in a backup before the update touches the
\* containers or copies over anything.
BackedUpBeforeCutOver ==
    lucky /\ Steady /\ Newest /\ job.kind = "update" /\ job.pc \in {"copy", "remove", "deploy"}
        /\ box.state # "running" => last \in backups

\* docs/api.md:193: "Persistent volumes and writable bind data are backed up
\* first": whatever an update does, the newest write is still on disk or in a
\* backup. (It may be in neither: see the README.)
UpdateLosesNothing == Newest => last \in backups \/ \E p \in Places : content[p] = last

\* docs/api.md:228-229: "the physical Podman volume is se-vol-<app-id>-<hash>,
\* never the bare logical name". (It can be: see the README.)
NewAppsScopeTheirVolumes == ~legacy => mapping # BareVolume
================================================================================
