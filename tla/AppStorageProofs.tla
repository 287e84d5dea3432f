---------------------------- MODULE AppStorageProofs ----------------------------
(***************************************************************************)
(* Proofs about AppStorage for any number of releases, writes, failed      *)
(* calls and deaths.                                                       *)
(***************************************************************************)
EXTENDS AppStorage, TLAPS

----------------------------------------------------------------------------
(* Types                                                                    *)

Recorded == {Nowhere, Managed} \cup Volumes
Plans == [candidate : Recorded, previous : Somewhere, all : Somewhere, from : Somewhere]
Olds == [row : Rows, decl : Decls \cup {Unparsed}, mapping : Recorded, ran : BOOLEAN]
Kinds == {"none", "deploy", "redeploy", "update"}
Jobs == [pc : PCs, kind : Kinds, dir : Checkouts, plan : Plans, old : Olds]
Contents == {Absent, Empty, Shipped} \cup 1..MaxWrites
Boxes == [state : {"gone", "stopped", "running"}, mount : Somewhere]

TypeInv ==
    /\ source \in [Checkouts -> Decls \cup {Unparsed}]
    /\ content \in [Places -> Contents]
    /\ row \in Rows /\ box \in Boxes /\ mapping \in Recorded
    /\ backups \subseteq 1..MaxWrites
    /\ job \in Jobs
    /\ last \in 0..MaxWrites /\ trouble \in 0..MaxTrouble
    /\ legacy \in BOOLEAN /\ lucky \in BOOLEAN

\* The places are apart from each other.
LEMMA Apart ==
    /\ 0 \in Checkouts /\ Managed \notin Checkouts /\ Nowhere \notin Checkouts
    /\ ManagedVolume \notin Checkouts /\ BareVolume \notin Checkouts
    /\ Nowhere \notin Places /\ Checkouts \subseteq Places /\ Recorded \subseteq Somewhere
    /\ Managed \in Places /\ ManagedVolume \in Places /\ BareVolume \in Places
    /\ Managed \notin Volumes /\ Nowhere \notin Volumes
    /\ ManagedVolume \in Volumes /\ BareVolume \in Volumes
    /\ Managed # Nowhere /\ Somewhere = Places \cup {Nowhere} /\ 0 # Nowhere /\ 0 # Managed
    /\ \A c \in Checkouts : c \notin Volumes /\ c # Managed /\ c # Nowhere
BY StorageBounds DEF Checkouts, Managed, ManagedVolume, BareVolume, Nowhere, Places, Volumes,
   Somewhere, Recorded

\* What is found is a place or none.
LEMMA FoundType ==
    ASSUME TypeInv, NEW decl, NEW blind
    PROVE  discoverStorage(decl, blind) \in Somewhere
BY Apart DEF discoverStorage, TypeInv, Boxes

\* What is planned.
LEMMA PlanFacts ==
    ASSUME TypeInv, NEW found \in Somewhere, NEW oldDir \in Checkouts, NEW decl \in Decls
    PROVE  LET p == planStorage(found, oldDir, decl)
               src == oldBindSource(found, oldDir)
               moves == decl = "rw" /\ src # p.candidate
           IN  /\ p \in Plans
               /\ p.candidate = (IF decl = "none" THEN Nowhere
                                 ELSE IF mapping # Nowhere THEN mapping
                                 ELSE IF decl # "volume" THEN Managed
                                 ELSE IF found \in Volumes THEN found ELSE ManagedVolume)
               /\ p.previous = (IF mapping # Nowhere THEN mapping ELSE found)
               /\ p.from = (IF moves THEN src ELSE Nowhere)
               /\ p.all = (IF moves THEN src ELSE IF decl # "none" THEN p.candidate ELSE p.previous)
<1> DEFINE cand == IF decl = "none" THEN Nowhere
                   ELSE IF mapping # Nowhere THEN mapping
                   ELSE IF decl # "volume" THEN Managed
                   ELSE IF found \in Volumes THEN found ELSE ManagedVolume
<1>1. cand \in Recorded
  BY Apart DEF Recorded, TypeInv
<1>2. planStorage(found, oldDir, decl).candidate = cand
  BY DEF planStorage
<1> QED
  BY <1>1, <1>2, Apart DEF planStorage, Plans, TypeInv, oldBindSource

----------------------------------------------------------------------------
(* What the steps are made of                                               *)

\* A pipeline goes on.
Goes(pc) ==
    /\ job' \in Jobs /\ job'.pc = pc
    /\ job'.kind = job.kind /\ job'.dir = job.dir /\ job'.plan = job.plan /\ job'.old = job.old

\* Go only moves a pipeline to its next step.
LEMMA GoFacts ==
    ASSUME TypeInv, NEW pc \in PCs, Go(pc)
    PROVE  Goes(pc)
BY DEF TypeInv, Go, Goes, Jobs

\* ... or ends.
Rests == job' \in Jobs /\ job'.pc = "idle" /\ job'.kind = "none"

\* Done leaves no pipeline.
LEMMA DoneFacts == Done => Rests
<1>1. NoJob.old \in Olds
  BY Apart DEF NoJob, Olds, Rows, Recorded
<1>2. NoJob.plan \in Plans
  BY Apart DEF NoJob, NoPlan, Plans, Recorded
<1>3. /\ NoJob.pc = "idle" /\ NoJob.kind = "none" /\ NoJob.dir = 0
      /\ NoJob = [pc |-> "idle", kind |-> "none", dir |-> 0, plan |-> NoJob.plan, old |-> NoJob.old]
  BY DEF NoJob
<1>4. NoJob \in Jobs
  BY <1>1, <1>2, <1>3, Apart DEF Jobs, PCs, Kinds
<1> QED
  BY <1>3, <1>4 DEF Done, Rests

\* ... or fails.
Fails == (job.kind = "update" /\ Goes("rollback")) \/ (job.kind # "update" /\ Rests)

\* An update that fails is rolled back, a deploy and a redeploy end.
LEMMA FailingFacts ==
    ASSUME TypeInv, Failing
    PROVE  Fails
<1>1. "rollback" \in PCs
  BY DEF PCs
<1> QED
  BY <1>1, GoFacts, DoneFacts DEF Failing, Fails

\* A pipeline begins.
Begins(kind, dir, oldDecl, oldDir, decl, pc, blind) ==
    /\ job' \in Jobs /\ job'.pc = pc /\ job'.kind = kind /\ job'.dir = dir
    /\ job'.plan = planStorage(discoverStorage(oldDecl, blind), oldDir, decl)
    /\ job'.old.row = row /\ job'.old.decl = oldDecl /\ job'.old.mapping = mapping
    /\ lucky' = (lucky /\ Lucky(kind, blind)) /\ lucky' \in BOOLEAN

\* What Begin decides, and what it remembers of the app.
LEMMA BeginFacts ==
    ASSUME TypeInv, NEW kind \in Kinds, NEW dir \in Checkouts, NEW oldDecl \in Decls \cup {Unparsed},
           NEW oldDir \in Checkouts, NEW decl \in Decls, NEW pc \in PCs, NEW blind,
           Begin(kind, dir, oldDecl, oldDir, decl, pc, blind)
    PROVE  Begins(kind, dir, oldDecl, oldDir, decl, pc, blind)
<1> DEFINE plan == planStorage(discoverStorage(oldDecl, blind), oldDir, decl)
           old == [row |-> row, decl |-> oldDecl, mapping |-> mapping, ran |-> box.state = "running"]
<1>1. plan \in Plans
  BY FoundType, PlanFacts
<1>2. old \in Olds
  <2>1. (box.state = "running") \in BOOLEAN
    BY Zenon
  <2> QED
    BY <2>1 DEF TypeInv, Olds
<1>3. /\ job' = [pc |-> pc, kind |-> kind, dir |-> dir, plan |-> plan, old |-> old]
      /\ lucky' = (lucky /\ Lucky(kind, blind))
  BY Zenon DEF Begin
<1>4. lucky' \in BOOLEAN
  BY <1>3, Zenon
<1>5. old.row = row /\ old.decl = oldDecl /\ old.mapping = mapping
  OBVIOUS
<1> HIDE DEF plan, old
<1>6. job' \in Jobs
  BY <1>1, <1>2, <1>3 DEF Jobs
<1> QED
  BY <1>3, <1>4, <1>5, <1>6 DEF Begins, plan

\* A checkout is made.
Makes(dir, r) ==
    /\ source' \in [Checkouts -> Decls \cup {Unparsed}] /\ source'[dir] = r.decl
    /\ \A c \in Checkouts \ {dir} : source'[c] = source[c]
    /\ content' \in [Places -> Contents] /\ \A p \in Places \ {dir} : content'[p] = content[p]

\* A checkout changes one directory and the data in it.
LEMMA CheckoutFacts ==
    ASSUME TypeInv, NEW dir \in Checkouts, NEW r \in ReleaseForms, Checkout(dir, r)
    PROVE  Makes(dir, r)
<1>1. dir \in Places /\ r.decl \in Decls
  BY Apart DEF ReleaseForms
<1>2. (IF r.ships THEN Shipped ELSE Absent) \in Contents
  BY DEF Contents
<1> QED
  BY <1>1, <1>2 DEF Checkout, Makes, TypeInv

\* Managed places that are not there are made, and nothing else happens to them.
Ensures ==
    /\ content' \in [Places -> Contents]
    /\ \A p \in Places : content'[p] = content[p] \/ (content[p] = Absent /\ p \notin Checkouts)

\* Ensured overwrites nothing and touches no checkout.
LEMMA EnsuredFacts ==
    ASSUME TypeInv, NEW binding, NEW mount, content' = Ensured(binding, mount)
    PROVE  Ensures
<1>1. Empty \in Contents
  BY DEF Contents
<1>2. \A p \in {binding, mount} \cap (Volumes \cup {Managed}) : p \notin Checkouts
  BY Apart
<1> QED
  BY <1>1, <1>2 DEF Ensured, Ensures, TypeInv

\* Where a release has its data.
LEMMA ResolveFacts ==
    ASSUME NEW decl \in Decls \cup {Unparsed}, NEW dir \in Checkouts, NEW binding \in Somewhere
    PROVE  LET m == resolveBinds(decl, dir, binding)
           IN  /\ m \in Somewhere
               /\ m = (IF decl = "none" THEN Nowhere
                       ELSE IF decl = "ro" THEN dir
                       ELSE IF decl = "rw" THEN
                            IF binding \in Volumes \cup {Nowhere} THEN dir ELSE binding
                       ELSE IF binding \in Volumes THEN binding ELSE ManagedVolume)
BY Apart DEF resolveBinds, Decls, Unparsed

\* A release is started.
Activates(decl, dir, binding) ==
    /\ Ensures /\ box' \in Boxes /\ box'.state = "running"
    /\ box'.mount = resolveBinds(decl, dir, binding)

\* Activate starts the containers where the release has its data.
LEMMA ActivateFacts ==
    ASSUME TypeInv, NEW decl \in Decls \cup {Unparsed}, NEW dir \in Checkouts,
           NEW binding \in Somewhere,
           Activate(decl, dir, binding)
    PROVE  Activates(decl, dir, binding)
<1>1. resolveBinds(decl, dir, binding) \in Somewhere
  BY ResolveFacts
<1>2. /\ content' = Ensured(binding, resolveBinds(decl, dir, binding))
      /\ box' = [state |-> "running", mount |-> resolveBinds(decl, dir, binding)]
  BY Zenon DEF Activate
<1> QED
  BY <1>1, <1>2, EnsuredFacts DEF Activates, Boxes

\* Containers go, stop and run.
LEMMA RemoveFacts ==
    ASSUME RemoveContainers
    PROVE  box' \in Boxes /\ box'.state = "gone" /\ box'.mount = Nowhere
BY Apart DEF RemoveContainers, Boxes

\* Containers that stop or run keep what they mount.
LEMMA StateFacts ==
    ASSUME TypeInv, NEW s \in {"stopped", "running"}, box' = [box EXCEPT !.state = s]
    PROVE  box' \in Boxes /\ box'.state = s /\ box'.mount = box.mount
BY DEF TypeInv, Boxes

----------------------------------------------------------------------------
(* The steps                                                                *)

\* What deployGit does: a first release in the source directory.
LEMMA DeployGitFacts ==
    ASSUME TypeInv, NEW blind, deployGit(blind)
    PROVE  /\ job.pc = "idle" /\ row.decl = Unparsed
           /\ UNCHANGED <<box, mapping, backups, last>>
           /\ \E r \in ReleaseForms :
                /\ Makes(0, r) /\ row' \in Rows /\ row'.decl = r.decl /\ row'.current = row.current
                /\ Begins("deploy", 0, Unparsed, 0, r.decl, "remove", blind)
<1>1. PICK r \in ReleaseForms :
           /\ Checkout(0, r) /\ row' = [row EXCEPT !.decl = r.decl]
           /\ Begin("deploy", 0, Unparsed, 0, r.decl, "remove", blind)
  BY DEF deployGit
<1>2. r.decl \in Decls /\ "deploy" \in Kinds /\ "remove" \in PCs
  BY DEF ReleaseForms, Kinds, PCs
<1>3. Makes(0, r) /\ Begins("deploy", 0, Unparsed, 0, r.decl, "remove", blind)
  BY <1>1, <1>2, Apart, CheckoutFacts, BeginFacts
<1>4. row' \in Rows /\ row'.decl = r.decl /\ row'.current = row.current
  BY <1>1, <1>2 DEF TypeInv, Rows
<1> QED
  BY <1>3, <1>4 DEF deployGit, At

\* What Redeploy does: the stored compose file in the current checkout.
LEMMA RedeployFacts ==
    ASSUME TypeInv, NEW blind, Redeploy(blind)
    PROVE  /\ job.pc = "idle" /\ row.decl # Unparsed
           /\ UNCHANGED <<source, content, row, box, mapping, backups, last>>
           /\ Begins("redeploy", row.current, row.decl, row.current, row.decl, "remove", blind)
<1>1. /\ row.decl # Unparsed /\ Begin("redeploy", row.current, row.decl, row.current, row.decl,
                                      "remove", blind)
  BY DEF Redeploy
<1>2. /\ row.decl \in Decls /\ row.current \in Checkouts /\ "redeploy" \in Kinds
      /\ "remove" \in PCs
  BY <1>1 DEF TypeInv, Rows, Kinds, PCs
<1> QED
  BY <1>1, <1>2, BeginFacts DEF Redeploy, At

\* What the old release declares.
OldDecl == IF row.current = 0 THEN row.decl ELSE source[row.current]

\* What Update does: a release in a directory that had none.
LEMMA UpdateFacts ==
    ASSUME TypeInv, NEW blind, Update(blind)
    PROVE  /\ job.pc = "idle" /\ UNCHANGED <<row, box, mapping, backups, last>>
           /\ \E d \in Checkouts \ {0}, r \in ReleaseForms :
                /\ source[d] = Unparsed /\ ~Refused(r.decl)
                /\ Makes(d, r)
                /\ Begins("update", d, OldDecl, row.current, r.decl, "prepare", blind)
<1>1. PICK d \in Checkouts \ {0}, r \in ReleaseForms :
           /\ \A c \in Checkouts \ {0} : source[c] = Unparsed <=> c >= d
           /\ ~Refused(r.decl)
           /\ Checkout(d, r)
           /\ Begin("update", d, OldDecl, row.current, r.decl, "prepare", blind)
  BY DEF Update, OldDecl
<1>2. /\ row.current \in Checkouts /\ OldDecl \in Decls \cup {Unparsed} /\ "update" \in Kinds
      /\ "prepare" \in PCs /\ r.decl \in Decls
  BY DEF TypeInv, Rows, Kinds, PCs, OldDecl, ReleaseForms
<1>3. source[d] = Unparsed
  <2>1. d \in Int
    BY StorageBounds DEF Checkouts
  <2> QED
    BY <1>1, <2>1
<1> QED
  BY <1>1, <1>2, <1>3, CheckoutFacts, BeginFacts DEF Update, At

\* What Prepare does: the update goes on or ends, and only managed places are made.
LEMMA PrepareFacts ==
    ASSUME TypeInv, NEW fails, Prepare(fails)
    PROVE  /\ job.pc = "prepare" /\ UNCHANGED <<source, row, box, mapping, backups, last, lucky>>
           /\ Rests \/ Goes("stop")
           /\ Ensures
<1>1. /\ job.pc = "prepare" /\ UNCHANGED <<source, row, box, mapping, backups, last, lucky>>
      /\ Done \/ Go("stop")
      /\ content' = content \/ content' = Ensured(job.plan.candidate, Nowhere)
  BY DEF Prepare, At
<1>2. "stop" \in PCs
  BY DEF PCs
<1>3. content' = content => Ensures
  BY DEF Ensures, TypeInv
<1> QED
  BY <1>1, <1>2, <1>3, DoneFacts, GoFacts, EnsuredFacts

\* What StopOld does: it fails and the update ends, or nothing runs.
LEMMA StopFacts ==
    ASSUME TypeInv, NEW fails, StopOld(fails)
    PROVE  /\ job.pc = "stop" /\ UNCHANGED <<source, content, row, mapping, backups, last, lucky>>
           /\ \/ Rests /\ box' = box
              \/ /\ Goes("backup") /\ box' \in Boxes /\ box'.mount = box.mount
                 /\ box'.state = (IF box.state = "gone" THEN "gone" ELSE "stopped")
<1>1. /\ job.pc = "stop" /\ UNCHANGED <<source, content, row, mapping, backups, last, lucky>>
      /\ \/ Done /\ box' = box
         \/ /\ Go("backup")
            /\ box' = IF box.state = "gone" THEN box ELSE [box EXCEPT !.state = "stopped"]
  BY DEF StopOld, At
<1>2. "backup" \in PCs
  BY DEF PCs
<1>3. box \in Boxes
  BY DEF TypeInv
<1> QED
  BY <1>1, <1>2, <1>3, DoneFacts, GoFacts, StateFacts

\* What backupStorage does: all that was planned is backed up, or the update gives up.
LEMMA BackupFacts ==
    ASSUME TypeInv, NEW fails, backupStorage(fails)
    PROVE  /\ job.pc = "backup" /\ UNCHANGED <<source, content, row, box, mapping, last, lucky>>
           /\ \/ Goes("resume") /\ backups' = backups
              \/ Goes("copy") /\ backups' = backups \cup
                     (IF job.plan.all \in Places THEN {content[job.plan.all]} \cap 1..MaxWrites ELSE {})
<1>1. "resume" \in PCs /\ "copy" \in PCs
  BY DEF PCs
<1> QED
  BY <1>1, GoFacts DEF backupStorage, At

\* What copyDirectory does: a directory that has something is copied whole.
LEMMA CopyFacts ==
    ASSUME TypeInv, NEW fails, copyDirectory(fails)
    PROVE  LET src == job.plan.from  dst == job.plan.candidate
           IN  /\ job.pc = "copy" /\ UNCHANGED <<source, row, box, mapping, backups, last, lucky>>
               /\ Goes("resume") \/ Goes("remove")
               /\ content' \in [Places -> Contents]
               /\ \A p \in Places \ {dst} : content'[p] = content[p]
               /\ Goes("resume") \/ src = Nowhere => content' = content
               /\ Goes("remove") /\ src \in Checkouts /\ dst \in Places
                    /\ content[src] \in 1..MaxWrites => content'[dst] = content[src]
<1>0. PICK src, dst : src = job.plan.from /\ dst = job.plan.candidate
  OBVIOUS
<1>1. /\ job.pc = "copy" /\ UNCHANGED <<source, row, box, mapping, backups, last, lucky>>
      /\ Go(IF fails THEN "resume" ELSE "remove")
      /\ content' = IF fails \/ src \in Volumes \cup {Nowhere} \/ content[src] = Absent THEN content
                    ELSE [content EXCEPT ![dst] = IF content[src] = Empty /\ content[dst] # Absent
                                                  THEN content[dst] ELSE content[src]]
  BY <1>0, Zenon DEF copyDirectory, At
<1>2. "resume" \in PCs /\ "remove" \in PCs /\ "resume" # "remove"
  BY DEF PCs
<1>3. Goes(IF fails THEN "resume" ELSE "remove")
  BY <1>1, <1>2, GoFacts
<1>4. src \in Somewhere /\ dst \in Recorded
  BY <1>0 DEF TypeInv, Jobs, Plans
<1>5. CASE fails \/ src \in Volumes \cup {Nowhere} \/ content[src] = Absent
  <2>1. content' = content
    BY <1>1, <1>5
  <2>2. src \in Checkouts /\ content[src] \in 1..MaxWrites => fails
    BY <1>5, Apart DEF Absent
  <2> QED
    BY <1>0, <1>1, <1>2, <1>3, <2>1, <2>2 DEF TypeInv, Goes
<1>6. CASE ~(fails \/ src \in Volumes \cup {Nowhere} \/ content[src] = Absent)
  <2>1. src \in Places /\ Goes("remove") /\ content[src] \in Contents
    BY <1>3, <1>4, <1>6, Apart DEF TypeInv
  <2>2. content' = [content EXCEPT ![dst] = IF content[src] = Empty /\ content[dst] # Absent
                                            THEN content[dst] ELSE content[src]]
    BY <1>1, <1>6
  <2>3. content' \in [Places -> Contents] /\ \A p \in Places \ {dst} : content'[p] = content[p]
    BY <2>1, <2>2 DEF TypeInv
  <2>4. dst \in Places /\ content[src] \in 1..MaxWrites => content'[dst] = content[src]
    BY <2>1, <2>2 DEF TypeInv, Empty
  <2> QED
    BY <1>0, <1>1, <1>2, <1>6, <2>1, <2>3, <2>4, Apart DEF Goes
<1> QED
  BY <1>5, <1>6

\* What ResumePrevious does: the update ends where it began.
LEMMA ResumeFacts ==
    ASSUME TypeInv, NEW fails, ResumePrevious(fails)
    PROVE  /\ job.pc = "resume" /\ UNCHANGED <<source, content, row, mapping, backups, last, lucky>>
           /\ Rests /\ box' \in Boxes /\ box'.mount = box.mount
           /\ box.state = "gone" <=> box'.state = "gone"
<1>1. /\ job.pc = "resume" /\ UNCHANGED <<source, content, row, mapping, backups, last, lucky>>
      /\ Done
      /\ box' = IF fails \/ ~job.old.ran \/ box.state = "gone" THEN box
                ELSE [box EXCEPT !.state = "running"]
  BY Zenon DEF ResumePrevious, At
<1>2. box \in Boxes
  BY DEF TypeInv
<1>3. box' = box \/ (box.state # "gone" /\ box' = [box EXCEPT !.state = "running"])
  BY <1>1
<1> QED
  BY <1>1, <1>2, <1>3, DoneFacts, StateFacts

\* What RemoveOld does: there are no containers, or it fails.
LEMMA RemoveOldFacts ==
    ASSUME TypeInv, NEW fails, RemoveOld(fails)
    PROVE  /\ job.pc = "remove" /\ UNCHANGED <<source, content, row, mapping, backups, last, lucky>>
           /\ \/ Fails /\ box' = box
              \/ Goes("deploy") /\ box' \in Boxes /\ box'.state = "gone" /\ box'.mount = Nowhere
<1>1. "deploy" \in PCs
  BY DEF PCs
<1> QED
  BY <1>1, GoFacts, FailingFacts, RemoveFacts DEF RemoveOld, At

\* What DeployNew does: the new release runs, or it fails.
LEMMA DeployNewFacts ==
    ASSUME TypeInv, NEW fails, DeployNew(fails)
    PROVE  /\ job.pc = "deploy" /\ UNCHANGED <<source, row, mapping, backups, last, lucky>>
           /\ \/ Fails /\ Ensures /\ box' = box
              \/ /\ IF job.kind = "update" THEN Goes("record") ELSE Goes("persist")
                 /\ Activates(source[job.dir], job.dir, job.plan.candidate)
<1>1. /\ job.pc = "deploy" /\ UNCHANGED <<source, row, mapping, backups, last, lucky>>
      /\ \/ /\ Failing /\ box' = box
            /\ content' = content \/ content' = Ensured(job.plan.candidate, Nowhere)
         \/ /\ Go(IF job.kind = "update" THEN "record" ELSE "persist")
            /\ Activate(source[job.dir], job.dir, job.plan.candidate)
  BY DEF DeployNew, At
<1>2. "record" \in PCs /\ "persist" \in PCs
  BY DEF PCs
<1>3. /\ source[job.dir] \in Decls \cup {Unparsed} /\ job.dir \in Checkouts
      /\ job.plan.candidate \in Somewhere
  BY Apart DEF TypeInv, Jobs, Plans
<1>4. content' = content => Ensures
  BY DEF Ensures, TypeInv
<1> QED
  BY <1>1, <1>2, <1>3, <1>4, GoFacts, FailingFacts, EnsuredFacts, ActivateFacts

\* What RecordRelease does: the row has the new release, or it fails.
LEMMA RecordFacts ==
    ASSUME TypeInv, NEW fails, RecordRelease(fails)
    PROVE  /\ job.pc = "record"
           /\ UNCHANGED <<source, content, box, mapping, backups, last, lucky>>
           /\ \/ Fails /\ row' = row
              \/ Goes("persist") /\ row' = [decl |-> source[job.dir], current |-> job.dir]
<1>1. "persist" \in PCs
  BY DEF PCs
<1> QED
  BY <1>1, GoFacts, FailingFacts DEF RecordRelease, At

\* What persistRuntimeStorage does: the place is recorded, or it fails.
LEMMA PersistFacts ==
    ASSUME TypeInv, NEW fails, persistRuntimeStorage(fails)
    PROVE  /\ job.pc = "persist" /\ UNCHANGED <<source, content, row, backups, last, lucky>>
           /\ \/ /\ Fails /\ mapping' = mapping
                 /\ \/ job.kind = "update" /\ box' = box
                    \/ /\ job.kind # "update"
                       /\ box' \in Boxes /\ box'.state = "gone" /\ box'.mount = Nowhere
              \/ /\ Rests /\ box' = box
                 /\ mapping' = (IF job.plan.candidate = Nowhere THEN mapping
                                ELSE job.plan.candidate)
BY DoneFacts, FailingFacts, RemoveFacts DEF persistRuntimeStorage, At

\* What RollbackRemove does: the way back is free, or only the rows are put back.
LEMMA RollbackRemoveFacts ==
    ASSUME TypeInv, NEW fails, RollbackRemove(fails)
    PROVE  /\ job.pc = "rollback"
           /\ UNCHANGED <<source, content, row, mapping, backups, last, lucky>>
           /\ \/ Goes("salvage") /\ box' = box
              \/ Goes("put_back") /\ box' \in Boxes /\ box'.state = "gone" /\ box'.mount = Nowhere
<1>1. "salvage" \in PCs /\ "put_back" \in PCs
  BY DEF PCs
<1> QED
  BY <1>1, GoFacts, RemoveFacts DEF RollbackRemove, At

\* What RollbackDeploy does: the old release runs, unless a checkout would be bound.
LEMMA RollbackDeployFacts ==
    ASSUME TypeInv, NEW fails, RollbackDeploy(fails)
    PROVE  /\ job.pc = "put_back" /\ UNCHANGED <<source, row, mapping, backups, last, lucky>>
           /\ \/ Goes("salvage") /\ content' = content /\ box' = box
              \/ /\ Goes("restore") /\ job.plan.previous \notin Checkouts
                 /\ Activates(job.old.decl, job.old.row.current, job.plan.previous)
<1>1. "salvage" \in PCs /\ "restore" \in PCs
  BY DEF PCs
<1>2. /\ job.old.decl \in Decls \cup {Unparsed} /\ job.old.row.current \in Checkouts
      /\ job.plan.previous \in Somewhere
  BY Apart DEF TypeInv, Jobs, Plans, Olds, Rows
<1>3. /\ job.pc = "put_back" /\ UNCHANGED <<source, row, mapping, backups, last, lucky>>
      /\ \/ Go("salvage") /\ content' = content /\ box' = box
         \/ /\ Go("restore") /\ job.plan.previous \notin Checkouts
            /\ Activate(job.old.decl, job.old.row.current, job.plan.previous)
  BY DEF RollbackDeploy, At, Bindable
<1> QED
  BY <1>1, <1>2, <1>3, GoFacts, ActivateFacts

\* What RestoreState does: the rows are put back, or some, or the place is forgotten.
LEMMA RestoreFacts ==
    ASSUME TypeInv, NEW fails, RestoreState(fails)
    PROVE  /\ job.pc \in {"restore", "salvage"}
           /\ UNCHANGED <<source, content, backups, last, lucky>>
           /\ Rests
           /\ row' \in {row, job.old.row} /\ mapping' \in {mapping, job.old.mapping, Nowhere}
           /\ box' \in Boxes /\ box'.mount = box.mount
           /\ box' = box \/ (job.pc = "restore" /\ box'.state = "stopped")
<1>1. /\ job.pc \in {"restore", "salvage"} /\ Done
      /\ UNCHANGED <<source, content, backups, last, lucky>>
      /\ row' \in {row, job.old.row} /\ mapping' \in {mapping, job.old.mapping, Nowhere}
      /\ box' = box \/ (job.pc = "restore" /\ box' = [box EXCEPT !.state = "stopped"])
  BY DEF RestoreState, At
<1>2. box \in Boxes
  BY DEF TypeInv
<1> QED
  BY <1>1, <1>2, DoneFacts, StateFacts

\* What Write does: the newest write is where the containers run.
LEMMA WriteFacts ==
    ASSUME TypeInv, Write
    PROVE  /\ box.state = "running" /\ Writable /\ last < MaxWrites
           /\ UNCHANGED <<source, row, box, mapping, backups, job, trouble, legacy>>
           /\ last' = last + 1 /\ lucky' = (lucky /\ ~OnTrial) /\ lucky' \in BOOLEAN
           /\ last' \in 1..MaxWrites /\ box.mount \in Places
           /\ content' \in [Places -> Contents] /\ content'[box.mount] = last'
           /\ \A p \in Places \ {box.mount} : content'[p] = content[p]
<1>1. /\ box.state = "running" /\ Writable /\ last < MaxWrites
      /\ UNCHANGED <<source, row, box, mapping, backups, job, trouble, legacy>>
      /\ last' = last + 1 /\ lucky' = (lucky /\ ~OnTrial)
      /\ content' = [content EXCEPT ![box.mount] = last + 1]
  BY Zenon DEF Write
<1>2. lucky' \in BOOLEAN
  BY <1>1, Zenon
<1>3. box.mount \in Places
  BY <1>1, Apart DEF Writable, TypeInv, Boxes
<1>4. last' \in 1..MaxWrites
  BY <1>1, StorageBounds DEF TypeInv
<1> QED
  BY <1>1, <1>2, <1>3, <1>4 DEF TypeInv, Contents

\* What StartOrStop does: containers that are there stay.
LEMMA StartOrStopFacts ==
    ASSUME TypeInv, StartOrStop
    PROVE  /\ job.pc = "idle"
           /\ UNCHANGED <<source, content, row, mapping, backups, job, last, trouble, legacy, lucky>>
           /\ box' \in Boxes /\ box'.mount = box.mount
           /\ box.state # "gone" /\ box'.state # "gone"
BY StateFacts DEF StartOrStop, At

\* A step of a pipeline is one of these, and a failed call counts.
LEMMA WorkFacts ==
    ASSUME NEW fails \in BOOLEAN, Work(fails), TypeInv
    PROVE  /\ trouble' \in 0..MaxTrouble /\ legacy' = legacy
           /\ \/ deployGit(fails) \/ Redeploy(fails) \/ Update(fails)
              \/ Prepare(fails) \/ StopOld(fails) \/ backupStorage(fails) \/ copyDirectory(fails)
              \/ ResumePrevious(fails) \/ RemoveOld(fails) \/ DeployNew(fails)
              \/ RecordRelease(fails) \/ persistRuntimeStorage(fails)
              \/ RollbackRemove(fails) \/ RollbackDeploy(fails) \/ RestoreState(fails)
<1>1. /\ Pipeline(fails) /\ legacy' = legacy
      /\ fails => trouble < MaxTrouble
      /\ trouble' = IF fails THEN trouble + 1 ELSE trouble
  BY Zenon DEF Work
<1>2. trouble' \in 0..MaxTrouble
  BY <1>1, StorageBounds DEF TypeInv
<1> QED
  BY <1>1, <1>2 DEF Pipeline

\* The variables have their types at first ...
LEMMA InitType == Init => TypeInv
<1> SUFFICES ASSUME Init PROVE TypeInv
  OBVIOUS
<1>1. job \in Jobs
  <2>2. NoJob.old \in Olds
    BY Apart DEF NoJob, Olds, Rows, Recorded
  <2>3. NoJob.plan \in Plans
    BY Apart DEF NoJob, NoPlan, Plans, Recorded
  <2>4. NoJob = [pc |-> "idle", kind |-> "none", dir |-> 0, plan |-> NoJob.plan, old |-> NoJob.old]
    BY DEF NoJob
  <2> QED
    BY <2>2, <2>3, <2>4, Apart DEF Jobs, PCs, Kinds, Init
<1>2. /\ mapping \in Recorded /\ backups \subseteq 1..MaxWrites
      /\ last \in 0..MaxWrites /\ trouble \in 0..MaxTrouble
      /\ legacy \in BOOLEAN /\ lucky \in BOOLEAN
  BY StorageBounds DEF Init, Recorded
<1>3. CASE ~legacy
  BY <1>1, <1>2, <1>3, Apart DEF Init, TypeInv, Rows, Boxes, Contents
<1>4. CASE legacy
  <2>1. PICK r \in ReleaseForms :
          /\ source = [d \in Checkouts |-> IF d = 0 THEN r.decl ELSE Unparsed]
          /\ content = [p \in Places |->
                    CASE p = 0 /\ r.ships -> Shipped
                      [] p = 0 /\ r.decl = "rw" /\ ~r.ships -> Empty
                      [] p = BareVolume /\ r.decl = "volume" -> Empty
                      [] OTHER -> Absent]
          /\ row = [decl |-> r.decl, current |-> 0]
          /\ box = [state |-> "running",
                    mount |-> CASE r.decl = "none" -> Nowhere
                                [] r.decl = "volume" -> BareVolume
                                [] OTHER -> 0]
    BY <1>4 DEF Init
  <2>2. r.decl \in Decls
    BY DEF ReleaseForms
  <2>3. source \in [Checkouts -> Decls \cup {Unparsed}] /\ row \in Rows
    BY <2>1, <2>2, Apart DEF Rows
  <2>4. box \in Boxes
    BY <2>1, <2>2, Apart DEF Boxes
  <2>5. content \in [Places -> Contents]
    <3>1. \A p \in Places : content[p] \in {Shipped, Empty, Absent}
      <4> TAKE p \in Places
      <4>1. content[p] = CASE p = 0 /\ r.ships -> Shipped
                      [] p = 0 /\ r.decl = "rw" /\ ~r.ships -> Empty
                      [] p = BareVolume /\ r.decl = "volume" -> Empty
                      [] OTHER -> Absent
        BY <2>1
      <4>2. 0 # BareVolume
        BY Apart
      <4> QED
        BY <4>1, <4>2
    <3> QED
      BY <2>1, <3>1 DEF Contents
  <2> QED
    BY <1>1, <1>2, <2>3, <2>4, <2>5 DEF TypeInv
<1> QED
  BY <1>2, <1>3, <1>4

\* ... and after every step.
LEMMA TypeStep ==
    ASSUME TypeInv, [Next]_vars
    PROVE  TypeInv'
<1>1. ASSUME NEW fails \in BOOLEAN, Work(fails)
      PROVE  TypeInv'
  <2>0. trouble' \in 0..MaxTrouble /\ legacy' = legacy
    BY <1>1, WorkFacts
  <2> USE DEF TypeInv
  <2>1. CASE deployGit(fails)
    BY <2>0, <2>1, DeployGitFacts DEF Makes, Begins
  <2>2. CASE Redeploy(fails)
    BY <2>0, <2>2, RedeployFacts DEF Begins
  <2>3. CASE Update(fails)
    BY <2>0, <2>3, UpdateFacts DEF Makes, Begins
  <2>15. CASE Prepare(fails)
    BY <2>0, <2>15, PrepareFacts DEF Goes, Rests, Ensures
  <2>4. CASE StopOld(fails)
    BY <2>0, <2>4, StopFacts DEF Goes, Rests
  <2>5. CASE backupStorage(fails)
    BY <2>0, <2>5, BackupFacts DEF Goes
  <2>6. CASE copyDirectory(fails)
    BY <2>0, <2>6, CopyFacts DEF Goes
  <2>7. CASE ResumePrevious(fails)
    BY <2>0, <2>7, ResumeFacts DEF Rests
  <2>8. CASE RemoveOld(fails)
    BY <2>0, <2>8, RemoveOldFacts DEF Goes, Rests, Fails
  <2>9. CASE DeployNew(fails)
    BY <2>0, <2>9, DeployNewFacts DEF Goes, Rests, Fails, Ensures, Activates
  <2>10. CASE RecordRelease(fails)
    <3>1. row' \in Rows
      <4>1. source[job.dir] \in Decls \cup {Unparsed} /\ job.dir \in Checkouts
        BY DEF Jobs
      <4> QED
        BY <2>10, <4>1, RecordFacts DEF Rows
    <3> QED
      BY <2>0, <2>10, <3>1, RecordFacts DEF Goes, Rests, Fails
  <2>11. CASE persistRuntimeStorage(fails)
    BY <2>0, <2>11, PersistFacts DEF Goes, Rests, Fails, Jobs, Plans
  <2>12. CASE RollbackRemove(fails)
    BY <2>0, <2>12, RollbackRemoveFacts DEF Goes
  <2>13. CASE RollbackDeploy(fails)
    BY <2>0, <2>13, RollbackDeployFacts DEF Goes, Ensures, Activates
  <2>14. CASE RestoreState(fails)
    BY <2>0, <2>14, RestoreFacts DEF Rests, Jobs, Olds, Recorded
  <2> QED
    BY <1>1, WorkFacts, <2>1, <2>2, <2>3, <2>4, <2>5, <2>6, <2>7, <2>8, <2>9, <2>10, <2>11, <2>12,
       <2>13, <2>14, <2>15
<1>2. CASE Write
  BY <1>2, WriteFacts DEF TypeInv
<1>3. CASE StartOrStop
  BY <1>3, StartOrStopFacts DEF TypeInv
<1>4. CASE Die
  <2>1. /\ Done /\ trouble < MaxTrouble /\ trouble' = trouble + 1
        /\ UNCHANGED <<source, content, row, box, mapping, backups, last, legacy, lucky>>
    BY <1>4 DEF Die
  <2>2. job' \in Jobs /\ trouble' \in 0..MaxTrouble
    BY <2>1, DoneFacts, StorageBounds DEF Rests, TypeInv
  <2> QED
    BY <2>1, <2>2 DEF TypeInv
<1>5. CASE UNCHANGED vars
  BY <1>5 DEF TypeInv, vars
<1> QED
  BY <1>1, <1>2, <1>3, <1>4, <1>5 DEF Next

\* AppStorage.TypeOK: in every state of every run the variables have their types,
\* and what a pipeline plans to bind is never a directory of a checkout.
THEOREM StorageTypeOK == Spec => []TypeOK
<1>1. TypeInv => TypeOK
  <2> SUFFICES ASSUME TypeInv PROVE TypeOK
    OBVIOUS
  <2>1. /\ job.pc \in PCs /\ job.kind \in Kinds /\ job.dir \in Checkouts
        /\ job.plan \in Plans /\ job.old \in Olds
    BY DEF TypeInv, Jobs
  <2>2. job.plan.candidate \notin Checkouts
    BY <2>1, Apart DEF Plans, Recorded
  <2>3. job.plan \in [candidate : Somewhere, previous : Somewhere, all : Somewhere, from : Somewhere]
    BY <2>1, Apart DEF Plans
  <2>4. job.old \in [row : Rows, decl : Decls \cup {Unparsed}, mapping : Somewhere, ran : BOOLEAN]
    BY <2>1, Apart DEF Olds
  <2> QED
    BY <2>1, <2>2, <2>3, <2>4 DEF TypeInv, TypeOK, Recorded, Contents, Boxes, Kinds
<1>2. Spec => []TypeInv
  BY InitType, TypeStep, PTL DEF Spec
<1> QED
  BY <1>1, <1>2, PTL

----------------------------------------------------------------------------
(* What holds of the jobs and the checkouts, lucky or not                   *)

\* The steps of each kind of pipeline.
Parts(kind) ==
    IF kind = "none" THEN {"idle"}
    ELSE IF kind = "update" THEN PCs \ {"idle"} ELSE {"remove", "deploy", "persist"}

\* A release that a pipeline is about has a compose file, and so has the app's row,
\* and the one that a rollback puts back, once a release is in the source directory.
FreshInv ==
    /\ job.pc \in Parts(job.kind)
    /\ job.kind # "none" => source[job.dir] # Unparsed
    /\ source[0] # Unparsed =>
         row.decl # Unparsed /\ (job.kind = "update" => job.old.row.decl # Unparsed)
    /\ IF row.decl = Unparsed THEN row.current = 0 ELSE source[row.current] # Unparsed
    /\ job.kind = "update" => IF job.old.row.decl = Unparsed THEN job.old.row.current = 0
                              ELSE source[job.old.row.current] # Unparsed

\* It holds at first ...
LEMMA InitFresh == Init => FreshInv
BY Apart DEF Init, FreshInv, Parts, NoJob, ReleaseForms, Unparsed, Decls

\* ... and the steps keep it.
LEMMA FreshStep ==
    ASSUME TypeInv, FreshInv, [Next]_vars
    PROVE  FreshInv'
<1> USE DEF FreshInv, Parts
<1>0. /\ job.kind \in Kinds /\ job.dir \in Checkouts /\ 0 \in Checkouts
      /\ row.current \in Checkouts /\ job.old.row.current \in Checkouts
      /\ \A r \in ReleaseForms : r.decl # Unparsed
  BY Apart DEF TypeInv, Jobs, Olds, Rows, ReleaseForms, Decls, Unparsed
<1>1. ASSUME NEW fails \in BOOLEAN, Work(fails)
      PROVE  FreshInv'
  <2>1. CASE deployGit(fails)
    BY <1>0, <2>1, DeployGitFacts DEF Makes, Begins
  <2>2. CASE Redeploy(fails)
    BY <1>0, <2>2, RedeployFacts DEF Begins
  <2>3. CASE Update(fails)
    BY <1>0, <2>3, UpdateFacts DEF Makes, Begins, PCs
  <2>15. CASE Prepare(fails)
    BY <1>0, <2>15, PrepareFacts DEF Goes, Rests, PCs
  <2>4. CASE StopOld(fails)
    BY <1>0, <2>4, StopFacts DEF Goes, Rests, PCs
  <2>5. CASE backupStorage(fails)
    BY <1>0, <2>5, BackupFacts DEF Goes, PCs
  <2>6. CASE copyDirectory(fails)
    BY <1>0, <2>6, CopyFacts DEF Goes, PCs
  <2>7. CASE ResumePrevious(fails)
    BY <1>0, <2>7, ResumeFacts DEF Rests
  <2>8. CASE RemoveOld(fails)
    BY <1>0, <2>8, RemoveOldFacts DEF Goes, Rests, Fails, PCs
  <2>9. CASE DeployNew(fails)
    BY <1>0, <2>9, DeployNewFacts DEF Goes, Rests, Fails, PCs
  <2>10. CASE RecordRelease(fails)
    BY <1>0, <2>10, RecordFacts DEF Goes, Rests, Fails, PCs
  <2>11. CASE persistRuntimeStorage(fails)
    BY <1>0, <2>11, PersistFacts DEF Rests, Fails, Goes, PCs
  <2>12. CASE RollbackRemove(fails)
    BY <1>0, <2>12, RollbackRemoveFacts DEF Goes, PCs
  <2>13. CASE RollbackDeploy(fails)
    BY <1>0, <2>13, RollbackDeployFacts DEF Goes, PCs
  <2>14. CASE RestoreState(fails)
    BY <1>0, <2>14, RestoreFacts DEF Rests
  <2> QED
    BY <1>1, WorkFacts, <2>1, <2>2, <2>3, <2>4, <2>5, <2>6, <2>7, <2>8, <2>9, <2>10, <2>11, <2>12,
       <2>13, <2>14, <2>15
<1>2. CASE Write
  BY <1>2, WriteFacts
<1>3. CASE StartOrStop
  BY <1>3, StartOrStopFacts
<1>4. CASE Die
  BY <1>4, DoneFacts DEF Die, Rests
<1>5. CASE UNCHANGED vars
  BY <1>5 DEF vars
<1> QED
  BY <1>1, <1>2, <1>3, <1>4, <1>5 DEF Next

\* Every release that there is mounts the data in the way D.
Form(D) == \A c \in Checkouts : source[c] \in {Unparsed, D}

\* A checkout is made where there was none: what agrees now agreed before.
LEMMA FormStep ==
    ASSUME TypeInv, FreshInv, [Next]_vars, NEW D \in Decls, Form(D)'
    PROVE  Form(D)
<1>1. source' = source => Form(D)
  BY DEF Form
<1>2. ASSUME NEW d \in Checkouts, source[d] = Unparsed, NEW r, Makes(d, r)
      PROVE  Form(D)
  BY <1>2 DEF Form, Makes
<1>3. ASSUME NEW fails \in BOOLEAN, Work(fails)
      PROVE  Form(D)
  <2>1. CASE deployGit(fails)
    <3>1. source[0] = Unparsed
      BY <2>1, DeployGitFacts DEF FreshInv
    <3> QED
      BY <1>2, <2>1, <3>1, DeployGitFacts, Apart
  <2>2. CASE Update(fails)
    BY <1>2, <2>2, UpdateFacts
  <2>3. ~deployGit(fails) /\ ~Update(fails) => source' = source
    BY <1>3, WorkFacts, RedeployFacts, PrepareFacts, StopFacts, BackupFacts, CopyFacts,
       ResumeFacts, RemoveOldFacts, DeployNewFacts, RecordFacts, PersistFacts, RollbackRemoveFacts,
       RollbackDeployFacts, RestoreFacts
  <2> QED
    BY <1>1, <2>1, <2>2, <2>3
<1>4. Write \/ StartOrStop \/ Die \/ UNCHANGED vars => source' = source
  BY WriteFacts, StartOrStopFacts DEF Die, vars
<1> QED
  BY <1>1, <1>3, <1>4 DEF Next

----------------------------------------------------------------------------
(* What holds of a lucky app whose releases all mount the data in the way D *)

\* The app's row, its containers, and the release of the pipeline at work.
RowInv(D) ==
    /\ row.decl \in {Unparsed, D}
    /\ row.decl = D => source[row.current] = D
    /\ row.decl = Unparsed =>
         /\ ~legacy /\ box.state = "gone" /\ mapping = Nowhere
         /\ row.current = 0 /\ job.kind = "none" /\ last = 0
    /\ box.state = "gone" => box.mount = Nowhere
    /\ box.mount = Nowhere => D = "none" \/ box.state = "gone"
    /\ job.kind # "none" => row.decl = D /\ source[job.dir] = D
    /\ job.kind = "deploy" => ~legacy
    /\ job.kind = "redeploy" => mapping # Nowhere /\ job.dir = row.current
    /\ job.kind = "update" =>
         /\ job.dir # 0 /\ job.old.decl = D /\ job.old.row.decl = D
         /\ source[job.old.row.current] = D /\ job.old.mapping = mapping
         /\ row = job.old.row \/ (row = [decl |-> D, current |-> job.dir]
              /\ job.pc \in {"persist", "rollback", "put_back", "restore", "salvage"})
         /\ job.pc \in {"backup", "copy", "remove", "deploy"} => box.state # "running"
         /\ job.pc = "persist" => row.current = job.dir
         /\ job.pc = "restore" => box.state # "gone"
    /\ job.pc \in {"deploy", "put_back"} => box.state = "gone"
    /\ job.pc \in {"record", "persist"} => box.state # "gone"

\* Releases that do not write have nothing to lose.
ReadOnlyInv(D) ==
    /\ D = "none" => box.mount = Nowhere
    /\ D = "ro" => box.mount \in Checkouts \cup {Nowhere}
    /\ D \in {"none", "ro"} => last = 0

\* A place has the newest write, if there is one.
Holds(p) == last > 0 => content[p] = last

\* A volume, and the written directory of a new app, have one place for good.
Home(D) == IF D = "rw" THEN Managed ELSE IF legacy THEN BareVolume ELSE ManagedVolume
HomeInv(D) ==
    D = "volume" \/ (D = "rw" /\ ~legacy) =>
        /\ mapping \in {Nowhere, Home(D)} /\ box.mount \in {Nowhere, Home(D)}
        /\ Holds(Home(D))
        /\ job.kind # "none" => job.plan.candidate = Home(D)
        /\ job.kind = "update" => /\ job.plan.previous = Home(D) /\ job.plan.all = Home(D)
                                  /\ job.plan.from = Nowhere

\* The written directory of a legacy app moves from the source directory to the
\* managed one. Until that is recorded the app may be taken back.
TakenBack ==
    legacy /\ mapping = Nowhere
    /\ (row.current = 0 \/ (job.kind = "update" /\ job.old.row.current = 0))

\* An update does not move what has moved ...
Stays ==
    /\ job.plan.from = Nowhere /\ job.plan.all = Managed /\ job.plan.previous = Managed
    /\ Holds(Managed) /\ box.mount # 0

\* ... or it moves it: it is in the source directory, and copied before the
\* containers are removed.
Moves ==
    /\ job.plan.from = 0 /\ job.plan.all = 0 /\ mapping = Nowhere
    /\ job.plan.previous = 0 \/ (job.plan.previous = Nowhere /\ job.old.row.current = 0)
    /\ job.pc \in {"prepare", "stop", "backup", "copy"} => Holds(0) /\ box.mount # Managed
    /\ job.pc \in {"remove", "deploy"} => Holds(Managed)

MoveInv(D) ==
    D = "rw" /\ legacy =>
        /\ mapping \in {Nowhere, Managed} /\ box.mount \in {Nowhere, 0, Managed}
        /\ box.mount # Nowhere => Holds(box.mount)
        /\ mapping = Managed => Holds(Managed) /\ box.mount # 0 /\ row.current # 0
        /\ TakenBack => Holds(0)
        /\ job.kind # "none" => job.plan.candidate = Managed
        /\ job.kind # "none" /\ job.pc \in {"record", "persist"} => box.mount = Managed
        /\ job.kind = "update" => /\ mapping = Managed => job.old.row.current # 0
                                  /\ Stays \/ Moves

\* An update that is past its backup has the newest write in it.
BackupInv ==
    job.kind = "update" /\ job.pc \in {"copy", "remove", "deploy"} /\ last > 0 => last \in backups

Good(D) == RowInv(D) /\ ReadOnlyInv(D) /\ HomeInv(D) /\ MoveInv(D) /\ BackupInv

\* Each step keeps it. The containers are stopped, or run again.
LEMMA BoxGood ==
    ASSUME TypeInv, FreshInv, NEW D \in Decls, Good(D), legacy' = legacy, NEW fails,
           StopOld(fails) \/ ResumePrevious(fails) \/ StartOrStop
    PROVE  Good(D)'
<1> USE DEF FreshInv, Parts
<1>1. /\ UNCHANGED <<source, content, row, mapping, backups, last>>
      /\ box'.mount = box.mount /\ (box.state = "gone" <=> box'.state = "gone")
      /\ \/ Rests
         \/ /\ Goes("backup") /\ job.pc = "stop" /\ job.kind = "update"
            /\ box'.state # "running"
         \/ job' = job /\ job.pc = "idle" /\ job.kind = "none"
  BY StopFacts, ResumeFacts, StartOrStopFacts DEF TypeInv, Jobs, Kinds
<1>2. RowInv(D)'
  BY <1>1 DEF Good, RowInv, Goes, Rests
<1>3. ReadOnlyInv(D)' /\ HomeInv(D)' /\ BackupInv'
  BY <1>1 DEF Good, ReadOnlyInv, HomeInv, BackupInv, Goes, Rests, Home, Holds
<1>4. MoveInv(D)'
  BY <1>1 DEF Good, MoveInv, Goes, Rests, Holds, TakenBack, Stays, Moves
<1> QED
  BY <1>2, <1>3, <1>4 DEF Good

\* The places of the new release are made, and what is written stays.
LEMMA PrepareGood ==
    ASSUME TypeInv, FreshInv, NEW D \in Decls, Good(D), legacy' = legacy, NEW fails,
           Prepare(fails)
    PROVE  Good(D)'
<1> USE DEF FreshInv, Parts
<1>1. /\ UNCHANGED <<source, row, box, mapping, backups, last>>
      /\ job.kind = "update" /\ job.pc = "prepare" /\ (Rests \/ Goes("stop"))
  BY PrepareFacts DEF TypeInv, Jobs, Kinds
<1>2. \A p \in Places : last > 0 /\ content[p] = last => content'[p] = last
  BY PrepareFacts, StorageBounds DEF Ensures, TypeInv, Absent
<1>3. \A p \in Places : Holds(p) => Holds(p)'
  BY <1>1, <1>2 DEF Holds
<1>4. Home(D) \in Places /\ Managed \in Places /\ 0 \in Places
  BY Apart DEF Home
<1>5. RowInv(D)'
  BY <1>1 DEF Good, RowInv, Goes, Rests
<1>6. ReadOnlyInv(D)' /\ BackupInv'
  BY <1>1 DEF Good, ReadOnlyInv, BackupInv, Goes, Rests
<1>7. HomeInv(D)'
  <2>1. Home(D)' = Home(D)
    BY DEF Home
  <2>2. Holds(Home(D)) => Holds(Home(D))'
    BY <1>3, <1>4, <2>1 DEF Holds
  <2> QED
    BY <1>1, <2>1, <2>2 DEF Good, HomeInv, Goes, Rests
<1>8. MoveInv(D)'
  <2>1. \A p \in {0, Managed} : Holds(p) => Holds(p)'
    BY <1>3, <1>4
  <2> QED
    BY <1>1, <2>1, Apart DEF Good, MoveInv, Goes, Rests, TakenBack, Stays, Moves
<1> QED
  BY <1>5, <1>6, <1>7, <1>8 DEF Good

\* The newest write is in the backup.
LEMMA BackupGood ==
    ASSUME TypeInv, FreshInv, NEW D \in Decls, Good(D), legacy' = legacy, NEW fails,
           backupStorage(fails)
    PROVE  Good(D)'
<1> USE DEF FreshInv, Parts
<1>1. /\ UNCHANGED <<source, content, row, mapping, box, last>>
      /\ job.kind = "update" /\ job.pc = "backup"
      /\ \/ Goes("resume")
         \/ Goes("copy") /\ backups' = backups \cup
                     (IF job.plan.all \in Places THEN {content[job.plan.all]} \cap 1..MaxWrites ELSE {})
  BY BackupFacts DEF TypeInv, Jobs, Kinds
<1>2. RowInv(D)'
  BY <1>1 DEF Good, RowInv, Goes
<1>3. ReadOnlyInv(D)' /\ HomeInv(D)'
  BY <1>1 DEF Good, ReadOnlyInv, HomeInv, Goes, Home, Holds
<1>4. MoveInv(D)'
  BY <1>1 DEF Good, MoveInv, Goes, Holds, TakenBack, Stays, Moves
<1>5. last > 0 => content[job.plan.all] = last /\ job.plan.all \in Places
  BY <1>1, Apart DEF Good, ReadOnlyInv, HomeInv, MoveInv, Home, Holds, Stays, Moves, Decls
<1>6. last > 0 => last \in 1..MaxWrites
  BY StorageBounds DEF TypeInv
<1>7. BackupInv'
  BY <1>1, <1>5, <1>6 DEF BackupInv, Goes
<1> QED
  BY <1>2, <1>3, <1>4, <1>7 DEF Good

\* The directory is copied out of the source directory.
LEMMA CopyGood ==
    ASSUME TypeInv, FreshInv, NEW D \in Decls, Good(D), legacy' = legacy, NEW fails,
           copyDirectory(fails)
    PROVE  Good(D)'
<1> USE DEF FreshInv, Parts
<1>0. PICK src, dst : src = job.plan.from /\ dst = job.plan.candidate
  OBVIOUS
<1>1. /\ UNCHANGED <<source, row, box, mapping, backups, last>>
      /\ job.kind = "update" /\ job.pc = "copy"
      /\ Goes("resume") \/ Goes("remove")
      /\ \A p \in Places \ {dst} : content'[p] = content[p]
      /\ Goes("resume") \/ src = Nowhere => content' = content
      /\ Goes("remove") /\ src \in Checkouts /\ dst \in Places
           /\ content[src] \in 1..MaxWrites => content'[dst] = content[src]
  BY <1>0, CopyFacts DEF TypeInv, Jobs, Kinds
<1>2. RowInv(D)'
  BY <1>1 DEF Good, RowInv, Goes
<1>3. ReadOnlyInv(D)' /\ BackupInv'
  BY <1>1 DEF Good, ReadOnlyInv, BackupInv, Goes
<1>4. HomeInv(D)'
  <2>1. D = "volume" \/ (D = "rw" /\ ~legacy) => content' = content
    BY <1>0, <1>1 DEF Good, HomeInv
  <2> QED
    BY <1>1, <2>1 DEF Good, HomeInv, Goes, Home, Holds
<1>5. MoveInv(D)'
  <2> SUFFICES ASSUME D = "rw", legacy PROVE MoveInv(D)'
    BY DEF MoveInv
  <2>1. dst = Managed /\ (Stays \/ Moves)
    BY <1>0, <1>1 DEF Good, MoveInv
  <2>2. CASE Stays
    <3>1. content' = content
      BY <1>0, <1>1, <2>2 DEF Stays
    <3> QED
      BY <1>1, <2>2, <3>1 DEF Good, MoveInv, Goes, Holds, TakenBack, Stays
  <2>3. CASE Moves
    <3>1. /\ src = 0 /\ mapping = Nowhere /\ Holds(0) /\ box.mount \in {Nowhere, 0}
      BY <1>0, <1>1, <2>3 DEF Moves, Good, MoveInv
    <3>2. content'[0] = content[0]
      BY <1>1, <2>1, Apart
    <3>3. last > 0 => content[0] \in 1..MaxWrites
      BY <3>1, StorageBounds DEF TypeInv, Holds
    <3>4. Goes("remove") => Holds(Managed)'
      BY <1>1, <2>1, <3>1, <3>3, Apart DEF Holds
    <3> QED
      BY <1>1, <2>3, <3>1, <3>2, <3>4, Apart DEF Good, MoveInv, Goes, Holds, TakenBack, Moves
  <2> QED
    BY <2>1, <2>2, <2>3
<1> QED
  BY <1>2, <1>3, <1>4, <1>5 DEF Good

\* The containers of the old release are removed.
LEMMA RemoveGood ==
    ASSUME TypeInv, FreshInv, NEW D \in Decls, Good(D), legacy' = legacy, NEW fails,
           RemoveOld(fails) \/ RollbackRemove(fails)
    PROVE  Good(D)'
<1> USE DEF FreshInv, Parts
<1>1. /\ UNCHANGED <<source, content, row, mapping, backups, last>>
      /\ job.pc = "remove" \/ (job.pc = "rollback" /\ job.kind = "update")
      /\ job.kind # "none"
      /\ \/ box' = box /\ (Fails \/ (Goes("salvage") /\ job.pc = "rollback"))
         \/ /\ box'.state = "gone" /\ box'.mount = Nowhere
            /\ (Goes("deploy") /\ job.pc = "remove") \/ (Goes("put_back") /\ job.pc = "rollback")
  BY RemoveOldFacts, RollbackRemoveFacts DEF TypeInv, Jobs, Kinds
<1>2. RowInv(D)'
  BY <1>1 DEF Good, RowInv, Goes, Rests, Fails
<1>3. ReadOnlyInv(D)' /\ HomeInv(D)' /\ BackupInv'
  BY <1>1 DEF Good, ReadOnlyInv, HomeInv, BackupInv, Goes, Rests, Fails, Home, Holds
<1>4. MoveInv(D)'
  BY <1>1, Apart DEF Good, MoveInv, Goes, Rests, Fails, Holds, TakenBack, Stays, Moves
<1> QED
  BY <1>2, <1>3, <1>4 DEF Good

\* The new release is started where it was planned.
LEMMA DeployGood ==
    ASSUME TypeInv, FreshInv, NEW D \in Decls, Good(D), legacy' = legacy, NEW fails,
           DeployNew(fails)
    PROVE  Good(D)'
<1> USE DEF FreshInv, Parts
<1>1. /\ UNCHANGED <<source, row, mapping, backups, last>>
      /\ job.pc = "deploy" /\ job.kind # "none" /\ box.state = "gone" /\ source[job.dir] = D
      /\ \/ Fails /\ Ensures /\ box' = box
         \/ /\ IF job.kind = "update" THEN Goes("record") ELSE Goes("persist")
            /\ Activates(D, job.dir, job.plan.candidate)
  BY DeployNewFacts DEF Good, RowInv
<1>2. /\ job.plan.candidate \in Somewhere /\ job.dir \in Checkouts
      /\ job.plan.candidate \notin Checkouts
  BY Apart DEF TypeInv, Jobs, Plans, Recorded
<1>3. Ensures /\ (\A p \in Places : last > 0 /\ content[p] = last => content'[p] = last)
  <2>1. Ensures
    BY <1>1 DEF Activates
  <2> QED
    BY <2>1, StorageBounds DEF Ensures, TypeInv, Absent
<1>4. Home(D) \in Places /\ Managed \in Places /\ 0 \in Places
  BY Apart DEF Home
<1>5. box'.state # "gone" => box'.mount = resolveBinds(D, job.dir, job.plan.candidate)
  BY <1>1 DEF Activates
<1>6. resolveBinds(D, job.dir, job.plan.candidate) =
        (IF D = "none" THEN Nowhere ELSE IF D = "ro" THEN job.dir
         ELSE IF D = "rw" THEN IF job.plan.candidate \in Volumes \cup {Nowhere} THEN job.dir
                               ELSE job.plan.candidate
         ELSE IF job.plan.candidate \in Volumes THEN job.plan.candidate ELSE ManagedVolume)
  BY <1>2, ResolveFacts
<1>7. \/ Fails /\ box' = box
      \/ /\ IF job.kind = "update" THEN Goes("record") ELSE Goes("persist")
         /\ box'.state = "running"
         /\ box'.mount = resolveBinds(D, job.dir, job.plan.candidate)
  BY <1>1 DEF Activates
<1>8. RowInv(D)'
  BY <1>1, <1>2, <1>6, <1>7, Apart DEF Good, RowInv, Goes, Rests, Fails
<1>9. ReadOnlyInv(D)' /\ BackupInv'
  BY <1>1, <1>2, <1>6, <1>7 DEF Good, ReadOnlyInv, BackupInv, Goes, Rests, Fails
<1>10. HomeInv(D)'
  <2> SUFFICES ASSUME D = "volume" \/ (D = "rw" /\ ~legacy) PROVE HomeInv(D)'
    BY DEF HomeInv
  <2>1. job.plan.candidate = Home(D) /\ (D = "volume" => Home(D) \in Volumes)
    BY <1>1, Apart DEF Good, HomeInv, Home
  <2>2. resolveBinds(D, job.dir, job.plan.candidate) = Home(D)
    BY <1>6, <2>1, Apart DEF Home
  <2> QED
    BY <1>1, <1>3, <1>4, <1>7, <2>2 DEF Good, HomeInv, Goes, Rests, Fails, Home, Holds
<1>11. MoveInv(D)'
  <2> SUFFICES ASSUME D = "rw", legacy PROVE MoveInv(D)'
    BY DEF MoveInv
  <2>1. job.plan.candidate = Managed
    BY <1>1 DEF Good, MoveInv
  <2>2. resolveBinds(D, job.dir, job.plan.candidate) = Managed
    BY <1>6, <2>1, Apart
  <2>3. (Holds(Managed) /\ job.kind = "update") \/ mapping = Managed
    BY <1>1 DEF Good, MoveInv, RowInv, Stays, Moves, TypeInv, Jobs, Kinds
  <2>4. Holds(Managed)'
    BY <1>1, <1>3, <1>4, <2>3 DEF Good, MoveInv, Holds
  <2>5. Holds(0) => Holds(0)'
    BY <1>1, <1>3, <1>4 DEF Holds
  <2>6. CASE Fails /\ box' = box
    BY <1>1, <2>1, <2>4, <2>5, <2>6, Apart
       DEF Good, RowInv, MoveInv, Goes, Rests, Fails, TakenBack, Stays, Moves
  <2>7. CASE ~(Fails /\ box' = box)
    BY <1>1, <1>7, <2>1, <2>2, <2>4, <2>5, <2>7, Apart
       DEF Good, RowInv, MoveInv, Goes, TakenBack, Stays, Moves
  <2> QED
    BY <2>6, <2>7
<1> QED
  BY <1>8, <1>9, <1>10, <1>11 DEF Good

\* The new release becomes the current one.
LEMMA RecordGood ==
    ASSUME TypeInv, FreshInv, NEW D \in Decls, Good(D), legacy' = legacy, NEW fails,
           RecordRelease(fails)
    PROVE  Good(D)'
<1> USE DEF FreshInv, Parts
<1>1. /\ UNCHANGED <<source, content, box, mapping, backups, last>>
      /\ job.pc = "record" /\ job.kind = "update" /\ source[job.dir] = D
      /\ \/ Goes("rollback") /\ row' = row
         \/ Goes("persist") /\ row' = [decl |-> D, current |-> job.dir]
  BY RecordFacts DEF Good, RowInv, TypeInv, Jobs, Kinds, Fails
<1>2. RowInv(D)'
  BY <1>1 DEF Good, RowInv, Goes
<1>3. ReadOnlyInv(D)' /\ HomeInv(D)' /\ BackupInv'
  BY <1>1 DEF Good, ReadOnlyInv, HomeInv, BackupInv, Goes, Home, Holds
<1>4. MoveInv(D)'
  BY <1>1, Apart DEF Good, MoveInv, RowInv, Goes, Holds, TakenBack, Stays, Moves
<1> QED
  BY <1>2, <1>3, <1>4 DEF Good

\* Last of all its place is recorded.
LEMMA PersistGood ==
    ASSUME TypeInv, FreshInv, NEW D \in Decls, Good(D), legacy' = legacy, NEW fails,
           persistRuntimeStorage(fails)
    PROVE  Good(D)'
<1> USE DEF FreshInv, Parts
<1>1. /\ UNCHANGED <<source, content, row, backups, last>>
      /\ job.pc = "persist" /\ job.kind # "none"
      /\ \/ /\ Fails /\ mapping' = mapping
            /\ \/ job.kind = "update" /\ box' = box
               \/ job.kind # "update" /\ box'.state = "gone" /\ box'.mount = Nowhere
         \/ /\ Rests /\ box' = box
            /\ mapping' = (IF job.plan.candidate = Nowhere THEN mapping
                           ELSE job.plan.candidate)
  BY PersistFacts
<1>2. RowInv(D)'
  BY <1>1 DEF Good, RowInv, Goes, Rests, Fails
<1>3. ReadOnlyInv(D)' /\ HomeInv(D)' /\ BackupInv'
  BY <1>1 DEF Good, ReadOnlyInv, HomeInv, BackupInv, Goes, Rests, Fails, Home, Holds
<1>4. MoveInv(D)'
  <2>1. CASE mapping' = mapping
    BY <1>1, <2>1, Apart
       DEF Good, MoveInv, RowInv, Goes, Rests, Fails, Holds, TakenBack, Stays, Moves
  <2>2. CASE mapping' # mapping
    <3>1. Rests /\ box' = box /\ mapping' = job.plan.candidate
      BY <1>1, <2>2
    <3>2. D = "rw" /\ legacy => /\ box.mount = Managed /\ mapping' = Managed /\ mapping = Nowhere
                                /\ job.kind = "update"
      BY <1>1, <2>2, <3>1 DEF Good, MoveInv, RowInv, TypeInv, Jobs, Kinds
    <3>3. D = "rw" /\ legacy => row.current # 0
      BY <1>1, <3>2 DEF Good, RowInv
    <3> QED
      BY <1>1, <2>2, <3>1, <3>2, <3>3, Apart DEF Good, MoveInv, RowInv, Rests, Holds, TakenBack
  <2> QED
    BY <2>1, <2>2
<1> QED
  BY <1>2, <1>3, <1>4 DEF Good

\* The old release is started where it was.
LEMMA RollbackDeployGood ==
    ASSUME TypeInv, FreshInv, NEW D \in Decls, Good(D), legacy' = legacy, NEW fails,
           RollbackDeploy(fails)
    PROVE  Good(D)'
<1> USE DEF FreshInv, Parts
<1>1. /\ UNCHANGED <<source, row, mapping, backups, last>>
      /\ job.pc = "put_back" /\ job.kind = "update" /\ box.state = "gone" /\ job.old.decl = D
      /\ \/ Goes("salvage") /\ content' = content /\ box' = box
         \/ /\ Goes("restore") /\ job.plan.previous \notin Checkouts
            /\ Activates(D, job.old.row.current, job.plan.previous)
  BY RollbackDeployFacts DEF Good, RowInv, TypeInv, Jobs, Kinds
<1>2. /\ job.plan.previous \in Somewhere /\ job.old.row.current \in Checkouts
  BY DEF TypeInv, Jobs, Plans, Olds, Rows
<1>3. \A p \in Places : last > 0 /\ content[p] = last => content'[p] = last
  BY <1>1, StorageBounds DEF Activates, Ensures, TypeInv, Absent
<1>4. Home(D) \in Places /\ Managed \in Places /\ 0 \in Places
  BY Apart DEF Home
<1>5. resolveBinds(D, job.old.row.current, job.plan.previous) =
        (IF D = "none" THEN Nowhere ELSE IF D = "ro" THEN job.old.row.current
         ELSE IF D = "rw" THEN IF job.plan.previous \in Volumes \cup {Nowhere}
                               THEN job.old.row.current ELSE job.plan.previous
         ELSE IF job.plan.previous \in Volumes THEN job.plan.previous ELSE ManagedVolume)
  BY <1>2, ResolveFacts
<1>6. \/ Goes("salvage") /\ box' = box
      \/ /\ Goes("restore") /\ job.plan.previous \notin Checkouts
         /\ box'.state = "running"
         /\ box'.mount = resolveBinds(D, job.old.row.current, job.plan.previous)
  BY <1>1 DEF Activates
<1>7. RowInv(D)'
  BY <1>1, <1>2, <1>5, <1>6, Apart DEF Good, RowInv, Goes
<1>8. ReadOnlyInv(D)' /\ BackupInv'
  BY <1>1, <1>2, <1>5, <1>6 DEF Good, ReadOnlyInv, BackupInv, Goes
<1>9. HomeInv(D)'
  <2> SUFFICES ASSUME D = "volume" \/ (D = "rw" /\ ~legacy) PROVE HomeInv(D)'
    BY DEF HomeInv
  <2>1. job.plan.previous = Home(D) /\ (D = "volume" => Home(D) \in Volumes)
    BY <1>1, Apart DEF Good, HomeInv, Home
  <2>2. resolveBinds(D, job.old.row.current, job.plan.previous) = Home(D)
    BY <1>5, <2>1, Apart DEF Home
  <2> QED
    BY <1>1, <1>3, <1>4, <1>6, <2>2 DEF Good, HomeInv, Goes, Home, Holds
<1>10. MoveInv(D)'
  <2> SUFFICES ASSUME D = "rw", legacy PROVE MoveInv(D)'
    BY DEF MoveInv
  <2>1. \A p \in {0, Managed} : Holds(p) => Holds(p)'
    BY <1>1, <1>3, <1>4 DEF Holds
  <2>2. CASE box' = box
    BY <1>1, <1>6, <2>1, <2>2, Apart
       DEF Good, RowInv, MoveInv, Goes, TakenBack, Stays, Moves
  <2>3. CASE box' # box
    <3>1. /\ Goes("restore") /\ job.plan.previous \notin Checkouts
          /\ box'.mount = resolveBinds(D, job.old.row.current, job.plan.previous)
      BY <1>6, <2>3
    <3>2. CASE Stays
      <4>1. job.plan.previous = Managed
        BY <3>2 DEF Stays
      <4>2. box'.mount = Managed
        BY <1>5, <3>1, <4>1, Apart
      <4> QED
        BY <1>1, <2>1, <3>1, <3>2, <4>2, Apart DEF Good, MoveInv, Goes, TakenBack, Stays
    <3>3. CASE Moves
      <4>1. job.plan.previous = Nowhere /\ job.old.row.current = 0 /\ mapping = Nowhere
        BY <3>1, <3>3, Apart DEF Moves
      <4>2. box'.mount = 0
        BY <1>5, <3>1, <4>1
      <4>3. Holds(0)
        BY <1>1, <4>1 DEF Good, MoveInv, TakenBack
      <4> QED
        BY <1>1, <2>1, <3>1, <3>3, <4>1, <4>2, <4>3, Apart DEF Good, MoveInv, Goes, TakenBack, Moves
    <3> QED
      BY <1>1, <3>2, <3>3 DEF Good, MoveInv
  <2> QED
    BY <2>2, <2>3
<1> QED
  BY <1>7, <1>8, <1>9, <1>10 DEF Good

\* The rows are what they were, or what they are, or the place is forgotten.
LEMMA RestoreGood ==
    ASSUME TypeInv, FreshInv, NEW D \in Decls, Good(D), legacy' = legacy, NEW fails,
           RestoreState(fails)
    PROVE  Good(D)'
<1> USE DEF FreshInv, Parts
<1>1. /\ UNCHANGED <<source, content, backups, last>>
      /\ job.pc \in {"restore", "salvage"} /\ job.kind = "update" /\ Rests
      /\ row' \in {row, job.old.row} /\ mapping' \in {mapping, Nowhere}
      /\ box'.mount = box.mount
      /\ box' = box \/ (box.state # "gone" /\ box'.state = "stopped")
  BY RestoreFacts DEF Good, RowInv, TypeInv, Jobs, Kinds
<1>2. RowInv(D)'
  BY <1>1 DEF Good, RowInv, Rests
<1>3. ReadOnlyInv(D)' /\ HomeInv(D)' /\ BackupInv'
  BY <1>1 DEF Good, ReadOnlyInv, HomeInv, BackupInv, Rests, Home, Holds
<1>4. MoveInv(D)'
  BY <1>1, Apart DEF Good, MoveInv, RowInv, Rests, Holds, TakenBack, Stays, Moves
<1> QED
  BY <1>2, <1>3, <1>4 DEF Good

\* What the app writes is where it runs; the writes on trial are unlucky.
LEMMA WriteGood ==
    ASSUME TypeInv, FreshInv, NEW D \in Decls, Form(D), Good(D), lucky', Write
    PROVE  Good(D)'
<1> USE DEF FreshInv, Parts
<1>0. ~OnTrial /\ last' \in 1..MaxWrites
  <2>1. lucky' = (lucky /\ ~OnTrial) /\ last' \in 1..MaxWrites
    BY WriteFacts
  <2> QED
    BY <2>1, Zenon
<1>1. /\ UNCHANGED <<source, row, box, mapping, backups, job, legacy>>
      /\ box.state = "running" /\ Writable /\ ~OnTrial
      /\ last' = last + 1 /\ last' > 0 /\ box.mount \in Places
      /\ content'[box.mount] = last'
      /\ \A p \in Places \ {box.mount} : content'[p] = content[p]
  BY <1>0, WriteFacts, StorageBounds
<1>2. D \in {"rw", "volume"} /\ box.mount # Nowhere
  BY <1>1, Apart DEF Good, ReadOnlyInv, Writable, Form, Decls, Unparsed
<1>3. job.kind = "update" => job.pc \notin {"backup", "copy", "remove", "deploy"}
  BY <1>1 DEF Good, RowInv
<1>4. RowInv(D)'
  BY <1>1 DEF Good, RowInv
<1>5. ReadOnlyInv(D)' /\ BackupInv'
  BY <1>1, <1>2, <1>3 DEF Good, ReadOnlyInv, BackupInv
<1>6. HomeInv(D)'
  BY <1>1, <1>2 DEF Good, HomeInv, Home, Holds
<1>7. MoveInv(D)'
  <2> SUFFICES ASSUME D = "rw", legacy PROVE MoveInv(D)'
    BY <1>1 DEF MoveInv
  <2>1. Holds(box.mount)'
    BY <1>1 DEF Holds
  <2>2. CASE box.mount = Managed
    <3>1. ~TakenBack
      BY <1>1, <2>2 DEF TakenBack, OnTrial
    <3> QED
      BY <1>1, <1>3, <2>1, <2>2, <3>1, Apart DEF Good, MoveInv, RowInv, TakenBack, Stays, Moves
  <2>3. CASE box.mount = 0
    BY <1>1, <1>3, <2>1, <2>3, Apart DEF Good, MoveInv, RowInv, TakenBack, Stays, Moves
  <2> QED
    BY <1>2, <2>2, <2>3 DEF Good, MoveInv
<1> QED
  BY <1>4, <1>5, <1>6, <1>7 DEF Good

\* A process that dies forgets its pipeline.
LEMMA DieGood ==
    ASSUME TypeInv, FreshInv, NEW D \in Decls, Good(D), Die
    PROVE  Good(D)'
<1> USE DEF FreshInv, Parts
<1>1. UNCHANGED <<source, content, row, box, mapping, backups, last, legacy>> /\ Rests
  BY DoneFacts DEF Die
<1>2. RowInv(D)'
  BY <1>1 DEF Good, RowInv, Rests
<1>3. ReadOnlyInv(D)' /\ HomeInv(D)' /\ BackupInv'
  BY <1>1 DEF Good, ReadOnlyInv, HomeInv, BackupInv, Rests, Home, Holds
<1>4. MoveInv(D)'
  BY <1>1 DEF Good, MoveInv, Rests, Holds, TakenBack
<1> QED
  BY <1>2, <1>3, <1>4 DEF Good

\* A first release has the managed places.
LEMMA DeployGitGood ==
    ASSUME TypeInv, FreshInv, NEW D \in Decls, Form(D)', Good(D), legacy' = legacy, NEW blind,
           deployGit(blind)
    PROVE  Good(D)'
<1>1. PICK r \in ReleaseForms :
        /\ Makes(0, r) /\ row'.decl = r.decl /\ row'.current = row.current
        /\ Begins("deploy", 0, Unparsed, 0, r.decl, "remove", blind)
  BY DeployGitFacts
<1>2. /\ row.decl = Unparsed /\ UNCHANGED <<box, mapping, backups, last>>
      /\ ~legacy /\ box.state = "gone" /\ box.mount = Nowhere /\ mapping = Nowhere
      /\ row.current = 0 /\ last = 0
  BY DeployGitFacts DEF Good, RowInv
<1>3. r.decl = D /\ D # Unparsed
  BY <1>1, Apart DEF Makes, Form, ReleaseForms, Decls, Unparsed
<1>4. discoverStorage(Unparsed, blind) = Nowhere
  BY <1>2 DEF discoverStorage, Unparsed
<1>5. /\ job'.kind = "deploy" /\ job'.pc = "remove" /\ job'.dir = 0
      /\ job'.plan = planStorage(Nowhere, 0, D)
  BY <1>1, <1>3, <1>4 DEF Begins
<1>6. job'.plan.candidate = (IF D = "none" THEN Nowhere
                             ELSE IF D = "volume" THEN ManagedVolume ELSE Managed)
  <2>1. Nowhere \in Somewhere /\ Nowhere \notin Volumes /\ 0 \in Checkouts
    BY Apart
  <2> QED
    BY <1>2, <1>5, <2>1, PlanFacts
<1>7. source'[0] = D /\ source'[row'.current] = D
  BY <1>1, <1>2, <1>3 DEF Makes
<1>8. RowInv(D)'
  BY <1>1, <1>2, <1>3, <1>5, <1>7 DEF RowInv
<1>9. ReadOnlyInv(D)' /\ HomeInv(D)' /\ MoveInv(D)' /\ BackupInv'
  BY <1>2, <1>5, <1>6 DEF ReadOnlyInv, HomeInv, MoveInv, BackupInv, Home, Holds
<1> QED
  BY <1>8, <1>9 DEF Good

\* A redeploy that is lucky uses the recorded place.
LEMMA RedeployGood ==
    ASSUME TypeInv, FreshInv, NEW D \in Decls, Good(D), legacy' = legacy, NEW blind,
           Redeploy(blind), lucky'
    PROVE  Good(D)'
<1>1. /\ job.pc = "idle" /\ row.decl # Unparsed
      /\ UNCHANGED <<source, content, row, box, mapping, backups, last>>
      /\ Begins("redeploy", row.current, row.decl, row.current, row.decl, "remove", blind)
  BY RedeployFacts
<1>2. mapping # Nowhere
  <2>1. lucky' = (lucky /\ Lucky("redeploy", blind))
    BY <1>1 DEF Begins
  <2>2. Lucky("redeploy", blind)
    BY <2>1, Zenon
  <2> QED
    BY <2>2 DEF Lucky
<1>3. row.decl = D /\ row.current \in Checkouts /\ source[row.current] = D
  BY <1>1 DEF Good, RowInv, TypeInv, Rows
<1>4. /\ job'.kind = "redeploy" /\ job'.pc = "remove" /\ job'.dir = row.current
      /\ job'.plan = planStorage(discoverStorage(D, blind), row.current, D)
  BY <1>1, <1>3 DEF Begins
<1>5. job'.plan.candidate = (IF D = "none" THEN Nowhere ELSE mapping)
  BY <1>2, <1>3, <1>4, FoundType, PlanFacts
<1>6. RowInv(D)'
  BY <1>1, <1>2, <1>3, <1>4 DEF Good, RowInv
<1>7. ReadOnlyInv(D)' /\ HomeInv(D)' /\ BackupInv'
  BY <1>1, <1>2, <1>4, <1>5 DEF Good, ReadOnlyInv, HomeInv, BackupInv, Home, Holds
<1>8. MoveInv(D)'
  BY <1>1, <1>2, <1>4, <1>5 DEF Good, MoveInv, Holds, TakenBack
<1> QED
  BY <1>6, <1>7, <1>8 DEF Good

\* An update that is lucky finds the data: in the place that is recorded, in what
\* the containers mount, or, of a legacy app, where it was before.
LEMMA UpdateGood ==
    ASSUME TypeInv, FreshInv, NEW D \in Decls, Form(D), Form(D)', Good(D), legacy' = legacy,
           NEW blind, Update(blind), lucky'
    PROVE  Good(D)'
<1>1. PICK d \in Checkouts \ {0}, r \in ReleaseForms :
           /\ source[d] = Unparsed /\ Makes(d, r)
           /\ Begins("update", d, OldDecl, row.current, r.decl, "prepare", blind)
  BY UpdateFacts
<1>2. job.pc = "idle" /\ UNCHANGED <<row, box, mapping, backups, last>>
  BY UpdateFacts
<1>3. ~blind /\ (box.state = "gone" => legacy /\ mapping = Nowhere /\ row.current = 0)
  <2>1. lucky' = (lucky /\ Lucky("update", blind))
    BY <1>1 DEF Begins
  <2>2. Lucky("update", blind)
    BY <2>1, Zenon
  <2> QED
    BY <2>2 DEF Lucky
<1>4. r.decl = D /\ D # Unparsed
  BY <1>1, Apart DEF Makes, Form, ReleaseForms, Decls, Unparsed
<1>5. /\ row.decl = D /\ row.current \in Checkouts /\ source[row.current] = D /\ OldDecl = D
      /\ row.current # d
  BY <1>1, <1>3, <1>4 DEF Good, RowInv, TypeInv, Rows, OldDecl
<1>6. /\ job'.kind = "update" /\ job'.pc = "prepare" /\ job'.dir = d
      /\ job'.old.row = row /\ job'.old.decl = D /\ job'.old.mapping = mapping
      /\ job'.plan = planStorage(discoverStorage(D, blind), row.current, D)
  BY <1>1, <1>3, <1>4, <1>5 DEF Begins
<1>7. PICK found \in Somewhere :
        /\ found = discoverStorage(D, blind)
        /\ job'.plan = planStorage(found, row.current, D)
  BY <1>6, FoundType
<1>8. /\ D = "volume" => found = IF box.mount \in Volumes THEN box.mount ELSE BareVolume
      /\ D = "rw" /\ box.mount \notin Volumes => found = box.mount
  BY <1>3, <1>7, Apart DEF discoverStorage, Good, RowInv, Kind, KindOf, TypeInv, Boxes, Decls
<1>9. LET src == oldBindSource(found, row.current)
          moves == D = "rw" /\ src # job'.plan.candidate
      IN  /\ job'.plan.candidate = (IF D = "none" THEN Nowhere
                                    ELSE IF mapping # Nowhere THEN mapping
                                    ELSE IF D # "volume" THEN Managed
                                    ELSE IF found \in Volumes THEN found ELSE ManagedVolume)
          /\ job'.plan.previous = (IF mapping # Nowhere THEN mapping ELSE found)
          /\ job'.plan.from = (IF moves THEN src ELSE Nowhere)
          /\ job'.plan.all = (IF moves THEN src
                              ELSE IF D # "none" THEN job'.plan.candidate ELSE job'.plan.previous)
  <2>1. PICK p, src : /\ p = planStorage(found, row.current, D)
                      /\ src = oldBindSource(found, row.current)
    OBVIOUS
  <2>2. LET moves == D = "rw" /\ src # p.candidate
        IN  /\ p.candidate = (IF D = "none" THEN Nowhere
                              ELSE IF mapping # Nowhere THEN mapping
                              ELSE IF D # "volume" THEN Managed
                              ELSE IF found \in Volumes THEN found ELSE ManagedVolume)
            /\ p.previous = (IF mapping # Nowhere THEN mapping ELSE found)
            /\ p.from = (IF moves THEN src ELSE Nowhere)
            /\ p.all = (IF moves THEN src ELSE IF D # "none" THEN p.candidate ELSE p.previous)
    BY <1>5, <2>1, PlanFacts
  <2> QED
    BY <1>7, <2>1, <2>2
<1>10. \A p \in Places \ {d} : content'[p] = content[p]
  BY <1>1 DEF Makes
<1>11. RowInv(D)'
  BY <1>1, <1>2, <1>4, <1>5, <1>6 DEF Good, RowInv, Makes
<1>12. ReadOnlyInv(D)' /\ BackupInv'
  BY <1>2, <1>6 DEF Good, ReadOnlyInv, BackupInv
<1>13. Home(D) \in Places \ {d} /\ Managed \in Places \ {d} /\ 0 \in Places \ {d}
  BY <1>1, Apart DEF Home
<1>14. HomeInv(D)'
  <2> SUFFICES ASSUME D = "volume" \/ (D = "rw" /\ ~legacy) PROVE HomeInv(D)'
    BY DEF HomeInv
  <2>1. /\ mapping \in {Nowhere, Home(D)} /\ box.mount \in {Nowhere, Home(D)} /\ Holds(Home(D))
        /\ box.mount = Nowhere => box.state = "gone"
    BY DEF Good, HomeInv, RowInv
  <2>2. found = Home(D)
    BY <1>3, <1>8, <2>1, Apart DEF Home
  <2>3. /\ job'.plan.previous = Home(D) /\ job'.plan.candidate = Home(D)
        /\ job'.plan.all = Home(D) /\ job'.plan.from = Nowhere
    BY <1>9, <2>1, <2>2, Apart DEF Home, oldBindSource
  <2> QED
    BY <1>2, <1>10, <1>13, <2>1, <2>3 DEF HomeInv, Home, Holds
<1>15. MoveInv(D)'
  <2> SUFFICES ASSUME D = "rw", legacy PROVE MoveInv(D)'
    BY DEF MoveInv
  <2>1. /\ mapping \in {Nowhere, Managed} /\ box.mount \in {Nowhere, 0, Managed}
        /\ box.mount # Nowhere => Holds(box.mount)
        /\ mapping = Managed => Holds(Managed) /\ box.mount # 0 /\ row.current # 0
        /\ TakenBack => Holds(0)
        /\ box.mount = Nowhere => box.state = "gone"
    BY DEF Good, MoveInv, RowInv
  <2>2. \A p \in {0, Managed} : Holds(p)' = Holds(p)
    BY <1>2, <1>10, <1>13 DEF Holds
  <2>3. found = box.mount /\ job'.plan.candidate = Managed
    BY <1>8, <1>9, <2>1, Apart
  <2>4. TakenBack' => TakenBack
    BY <1>2, <1>6 DEF TakenBack
  <2>5. CASE found = Managed
    <3>1. job'.plan.from = Nowhere /\ job'.plan.all = Managed /\ job'.plan.previous = Managed
      BY <1>9, <2>1, <2>3, <2>5, Apart DEF oldBindSource
    <3> QED
      BY <1>2, <1>6, <2>1, <2>2, <2>3, <2>4, <2>5, <3>1, Apart DEF MoveInv, Stays
  <2>6. CASE found # Managed
    <3>1. mapping = Nowhere /\ oldBindSource(found, row.current) = 0 /\ Holds(0)
          /\ (found = 0 \/ (found = Nowhere /\ row.current = 0))
      BY <1>3, <2>1, <2>3, <2>6, Apart DEF oldBindSource, TakenBack
    <3>2. job'.plan.from = 0 /\ job'.plan.all = 0 /\ job'.plan.previous = found
      BY <1>9, <2>3, <3>1, Apart
    <3> QED
      BY <1>2, <1>6, <2>1, <2>2, <2>3, <2>4, <2>6, <3>1, <3>2, Apart DEF MoveInv, Moves
  <2> QED
    BY <2>5, <2>6
<1> QED
  BY <1>11, <1>12, <1>14, <1>15 DEF Good

----------------------------------------------------------------------------
(* The invariant, and what follows from it                                  *)

LuckyInv == lucky => \A D \in Decls : Form(D) => Good(D)

\* At first nothing was written and nothing runs, or a release of a legacy app runs
\* on its data.
LEMMA InitLucky == Init => LuckyInv
<1> SUFFICES ASSUME Init, NEW D \in Decls, Form(D) PROVE Good(D)
  BY DEF LuckyInv
<1>0. 0 \in Checkouts /\ D # Unparsed
  BY Apart DEF Decls, Unparsed
<1>1. /\ mapping = Nowhere /\ last = 0 /\ job.pc = "idle" /\ job.kind = "none"
  BY DEF Init, NoJob
<1>2. CASE ~legacy
  <2>1. row.decl = Unparsed /\ row.current = 0 /\ box.state = "gone" /\ box.mount = Nowhere
    BY <1>2 DEF Init
  <2> QED
    BY <1>0, <1>1, <1>2, <2>1 DEF Good, RowInv, ReadOnlyInv, HomeInv, MoveInv, BackupInv, Holds
<1>3. CASE legacy
  <2>1. PICK r \in ReleaseForms :
          /\ source = [d \in Checkouts |-> IF d = 0 THEN r.decl ELSE Unparsed]
          /\ row = [decl |-> r.decl, current |-> 0]
          /\ box = [state |-> "running",
                    mount |-> CASE r.decl = "none" -> Nowhere
                                [] r.decl = "volume" -> BareVolume
                                [] OTHER -> 0]
    BY <1>3 DEF Init
  <2>2. r.decl = D /\ source[0] = D
    BY <1>0, <2>1, Apart DEF Form, ReleaseForms, Decls, Unparsed
  <2>3. /\ row.decl = D /\ row.current = 0 /\ box.state = "running"
        /\ box.mount = (IF D = "none" THEN Nowhere ELSE IF D = "volume" THEN BareVolume ELSE 0)
    BY <2>1, <2>2
  <2> QED
    BY <1>0, <1>1, <1>3, <2>2, <2>3, Apart
       DEF Good, RowInv, ReadOnlyInv, HomeInv, MoveInv, BackupInv, Holds, Home
<1> QED
  BY <1>2, <1>3 DEF Init

\* Luck that is lost does not come back.
LEMMA LuckStep ==
    ASSUME TypeInv, [Next]_vars, lucky'
    PROVE  lucky
<1>1. ASSUME NEW fails \in BOOLEAN, Work(fails)
      PROVE  lucky
  <2>1. ASSUME NEW kind, NEW dir, NEW oldDecl, NEW oldDir, NEW decl, NEW pc,
               Begins(kind, dir, oldDecl, oldDir, decl, pc, fails)
        PROVE  lucky
    <3>1. lucky' = (lucky /\ Lucky(kind, fails))
      BY <2>1 DEF Begins
    <3> QED
      BY <3>1, Zenon
  <2>2. CASE deployGit(fails)
    BY <2>1, <2>2, DeployGitFacts
  <2>3. CASE Redeploy(fails)
    BY <2>1, <2>3, RedeployFacts
  <2>4. CASE Update(fails)
    BY <2>1, <2>4, UpdateFacts
  <2>5. ~deployGit(fails) /\ ~Redeploy(fails) /\ ~Update(fails) => lucky' = lucky
    BY <1>1, WorkFacts, PrepareFacts, StopFacts, BackupFacts, CopyFacts, ResumeFacts,
       RemoveOldFacts, DeployNewFacts, RecordFacts, PersistFacts, RollbackRemoveFacts,
       RollbackDeployFacts, RestoreFacts
  <2> QED
    BY <2>2, <2>3, <2>4, <2>5
<1>2. CASE Write
  <2>1. lucky' = (lucky /\ ~OnTrial)
    BY <1>2, WriteFacts
  <2> QED
    BY <2>1, Zenon
<1>3. StartOrStop \/ Die \/ UNCHANGED vars => lucky' = lucky
  BY StartOrStopFacts DEF Die, vars
<1> QED
  BY <1>1, <1>2, <1>3 DEF Next

\* The invariant is kept by every step.
LEMMA LuckyStep ==
    ASSUME TypeInv, FreshInv, LuckyInv, [Next]_vars
    PROVE  LuckyInv'
<1> SUFFICES ASSUME lucky', NEW D \in Decls, Form(D)' PROVE Good(D)'
  BY DEF LuckyInv
<1>1. Form(D) /\ Good(D)
  BY LuckStep, FormStep DEF LuckyInv
<1>2. ASSUME NEW fails \in BOOLEAN, Work(fails)
      PROVE  Good(D)'
  <2>0. legacy' = legacy
    BY <1>2, WorkFacts
  <2>1. CASE deployGit(fails)
    BY <1>1, <2>0, <2>1, DeployGitGood
  <2>2. CASE Redeploy(fails)
    BY <1>1, <2>0, <2>2, RedeployGood
  <2>3. CASE Update(fails)
    BY <1>1, <2>0, <2>3, UpdateGood
  <2>13. CASE Prepare(fails)
    BY <1>1, <2>0, <2>13, PrepareGood
  <2>4. CASE StopOld(fails) \/ ResumePrevious(fails)
    BY <1>1, <2>0, <2>4, BoxGood
  <2>5. CASE backupStorage(fails)
    BY <1>1, <2>0, <2>5, BackupGood
  <2>6. CASE copyDirectory(fails)
    BY <1>1, <2>0, <2>6, CopyGood
  <2>7. CASE RemoveOld(fails) \/ RollbackRemove(fails)
    BY <1>1, <2>0, <2>7, RemoveGood
  <2>8. CASE DeployNew(fails)
    BY <1>1, <2>0, <2>8, DeployGood
  <2>9. CASE RecordRelease(fails)
    BY <1>1, <2>0, <2>9, RecordGood
  <2>10. CASE persistRuntimeStorage(fails)
    BY <1>1, <2>0, <2>10, PersistGood
  <2>11. CASE RollbackDeploy(fails)
    BY <1>1, <2>0, <2>11, RollbackDeployGood
  <2>12. CASE RestoreState(fails)
    BY <1>1, <2>0, <2>12, RestoreGood
  <2> QED
    BY <1>2, WorkFacts, <2>1, <2>2, <2>3, <2>4, <2>5, <2>6, <2>7, <2>8, <2>9, <2>10, <2>11, <2>12,
       <2>13
<1>3. CASE Write
  BY <1>1, <1>3, WriteGood
<1>4. CASE StartOrStop
  <2>1. legacy' = legacy
    BY <1>4, StartOrStopFacts
  <2> QED
    BY <1>1, <1>4, <2>1, BoxGood
<1>5. CASE Die
  BY <1>1, <1>5, DieGood
<1>6. CASE UNCHANGED vars
  BY <1>1, <1>6 DEF vars, Good, RowInv, ReadOnlyInv, HomeInv, MoveInv, BackupInv, Holds, Home,
     TakenBack, Stays, Moves
<1> QED
  BY <1>2, <1>3, <1>4, <1>5, <1>6 DEF Next

\* The inductive invariant: types, jobs and checkouts, and what luck is good for.
LEMMA Invariant == Spec => [](TypeInv /\ FreshInv /\ LuckyInv)
<1>1. Init => TypeInv /\ FreshInv /\ LuckyInv
  BY InitType, InitFresh, InitLucky
<1>2. TypeInv /\ FreshInv /\ LuckyInv /\ [Next]_vars => (TypeInv /\ FreshInv /\ LuckyInv)'
  BY TypeStep, FreshStep, LuckyStep
<1> QED
  BY <1>1, <1>2, PTL DEF Spec

\* Releases that agree have a common way, and those that wrote have one that writes.
LEMMA SteadyForm ==
    ASSUME TypeInv, Steady
    PROVE  \E D \in Decls : Form(D)
<1>1. CASE \A c \in Checkouts : source[c] = Unparsed
  <2>1. Form("none") /\ "none" \in Decls
    BY <1>1 DEF Form, Decls
  <2> QED
    BY <2>1
<1>2. CASE \E c \in Checkouts : source[c] # Unparsed
  <2>1. PICK c \in Checkouts : source[c] # Unparsed
    BY <1>2
  <2>2. source[c] \in Decls
    BY <2>1 DEF TypeInv
  <2>3. Form(source[c])
    BY <2>1 DEF Steady, Form
  <2> QED
    BY <2>2, <2>3
<1> QED
  BY <1>1, <1>2

\* AppStorage.RunsOnItsData: whatever fails and whenever the process dies, a running
\* app has what it last wrote.
THEOREM AppsRunOnTheirData == Spec => []RunsOnItsData
<1>1. TypeInv /\ LuckyInv => RunsOnItsData
  <2> SUFFICES ASSUME TypeInv, LuckyInv, lucky, Steady, Newest, box.state = "running",
                      box.mount # Nowhere
               PROVE  content[box.mount] = last
    BY DEF RunsOnItsData
  <2>1. PICK D \in Decls : Form(D)
    BY SteadyForm
  <2>2. Good(D) /\ last > 0
    BY <2>1 DEF LuckyInv, Newest
  <2>3. D \in {"rw", "volume"}
    BY <2>2 DEF Good, ReadOnlyInv, Decls
  <2>4. Holds(box.mount)
    BY <2>2, <2>3 DEF Good, HomeInv, MoveInv
  <2> QED
    BY <2>2, <2>4 DEF Holds
<1> QED
  BY <1>1, Invariant, PTL

\* AppStorage.BackedUpBeforeCutOver: an update that is past its backup has the newest
\* write in it.
THEOREM BackupsComeBeforeCutOver == Spec => []BackedUpBeforeCutOver
<1>1. TypeInv /\ LuckyInv => BackedUpBeforeCutOver
  <2> SUFFICES ASSUME TypeInv, LuckyInv, lucky, Steady, Newest, job.kind = "update",
                      job.pc \in {"copy", "remove", "deploy"}
               PROVE  last \in backups
    BY DEF BackedUpBeforeCutOver
  <2>1. PICK D \in Decls : Form(D)
    BY SteadyForm
  <2> QED
    BY <2>1 DEF LuckyInv, Newest, Good, BackupInv
<1> QED
  BY <1>1, Invariant, PTL
=================================================================================
