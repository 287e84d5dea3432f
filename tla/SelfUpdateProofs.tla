--------------------------- MODULE SelfUpdateProofs ---------------------------
(***************************************************************************)
(* Proofs about SelfUpdate for any releases, good and bad, any number of   *)
(* processes and of commands, failures, deaths and reboots.                *)
(***************************************************************************)
EXTENDS SelfUpdate, TLAPS

----------------------------------------------------------------------------
(* The invariants                                                           *)

\* The steps an update takes under its lock, and those of --rollback.
Inside == {"look", "stage", "smoke", "save", "save_rest", "install", "rehash", "restart",
           "verify", "mend", "mend_rename", "undo", "undo_rename", "undo_restart", "undo_verify"}
Back == {"back", "back_rename", "back_restart", "back_verify"}

Process == [step : Steps, kind : {"none", "update", "rollback"}, force : BOOLEAN, self : Files,
            release : Binaries, copy : Files, before : Files \X Files \X Files]

\* The types, with those of the processes as records.
TypeInv ==
    /\ TypeOK
    /\ my \in [Updaters -> Process]

\* What a process does is what it was asked for, and an update is under its lock.
PlaceInv ==
    \A u \in Updaters :
       /\ my[u].step = "idle" => my[u].kind = "none"
       /\ my[u].step \in Inside \cup {"busy", "lock"} => my[u].kind = "update"
       /\ my[u].step \in Back => my[u].kind = "rollback"
       /\ my[u].step \in Inside => lock = u

Alone(u) == \A v \in Updaters \ {u} : my[v].step = "idle"

\* The two files at each step of a process.
Kept(u) ==
    LET s == my[u].step
    IN  /\ my[u].kind = "rollback" => Alone(u)
        /\ s \in {"stage", "smoke", "save", "save_rest", "install"} => target \in Good
        /\ s \in {"smoke", "save", "save_rest", "install"} => my[u].copy = my[u].release
        /\ s = "save_rest" => my[u].self = target
        /\ s \in {"rehash", "restart", "verify"} => target = my[u].release
        /\ s \in {"install", "rehash", "restart", "verify", "undo", "undo_rename",
                  "undo_restart", "undo_verify", "back"} => prev \in Good
        /\ s \in {"undo_rename", "back_rename"} => my[u].copy \in Good
        /\ s \notin {"mend", "mend_rename"}

WayInv ==
    careful => /\ target \in Binaries
               /\ target \in Good \/ prev \in Good
               /\ \A u \in Updaters : Kept(u)

\* The files and the service of an update that has been alone and unhurt.
Traced(u) ==
    LET s == my[u].step  old == my[u].before[1]  r == my[u].release
    IN  /\ old \in Binaries
        /\ s \in {"busy", "lock", "look", "stage", "smoke", "save", "save_rest", "install"} =>
              target = old /\ serving = my[u].before[3] /\ my[u].self = old
        /\ s \in Inside \ {"look"} => my[u].force \/ (old # Dev /\ Newer(r, old))
        /\ s \in {"smoke", "save", "save_rest", "install"} => my[u].copy = r
        /\ s \in {"rehash", "restart", "verify"} => target = r
        /\ s \in {"rehash", "restart"} => serving = my[u].before[3]
        /\ s = "verify" => serving = r
        /\ s \in {"install", "rehash", "restart", "verify", "undo", "undo_rename"} => prev = old
        /\ s = "undo_rename" => my[u].copy = old
        /\ s \in {"undo_restart", "undo_verify"} => target = old
        /\ s = "undo_verify" => serving = old
        /\ s \notin {"mend", "mend_rename"}

SoleInv ==
    \A u \in Updaters :
       sole = u => Alone(u) /\ (my[u].kind = "update" /\ ~hurt => Traced(u))

----------------------------------------------------------------------------
(* What a step does to the processes                                        *)

\* Nobody else moves.
Only(u) == \A v \in Updaters \ {u} : my'[v] = my[v]

\* A process goes to a step and stays what it was asked for.
MovesTo(u, t) ==
    /\ my'[u].step = t /\ my'[u].kind = my[u].kind /\ my'[u].force = my[u].force
    /\ my'[u].before = my[u].before

\* ... with all it knows.
Moves(u, t) ==
    /\ MovesTo(u, t)
    /\ my'[u].self = my[u].self /\ my'[u].release = my[u].release /\ my'[u].copy = my[u].copy

\* A process ends.
Ends(u) == my'[u] = Idle /\ lock' = IF lock = u THEN NoOne ELSE lock

\* The kinds of files.
LEMMA FileFacts ==
    /\ Good \subseteq Binaries /\ Binaries \subseteq Files /\ Releases \subseteq Binaries
    /\ Dev \in Binaries /\ Torn \in Files /\ None \in Files
    /\ Torn \notin Binaries /\ None \notin Binaries
    /\ 0 \notin Releases
BY ReleasesAreNumbered, GoodBinaries DEF Files, Binaries, Releases, Dev, Torn, None

\* A process that has ended is one of the type.
LEMMA IdleType == Idle \in Process
BY FileFacts DEF Idle, Process, Steps

\* Going to a step.
LEMMA GoFacts ==
    ASSUME TypeInv, NEW u \in Updaters, NEW t \in Steps, Go(u, t)
    PROVE  my' \in [Updaters -> Process] /\ Only(u) /\ Moves(u, t)
BY DEF TypeInv, Go, Only, Moves, MovesTo, Process

\* Ending.
LEMMA EndFacts ==
    ASSUME TypeInv, NEW u \in Updaters, End(u)
    PROVE  my' \in [Updaters -> Process] /\ Only(u) /\ Ends(u)
BY IdleType DEF TypeInv, End, Only, Ends

\* The checks before the update touches anything.
LEMMA CheckBusyFacts ==
    ASSUME TypeInv, NEW u \in Updaters, NEW f, CheckBusy(u, f)
    PROVE  /\ my' \in [Updaters -> Process] /\ Only(u)
           /\ At(u, "busy") /\ UNCHANGED <<disk, serving, deploying>>
           /\ Ends(u) \/ (Moves(u, "lock") /\ lock' = lock)
BY GoFacts, EndFacts DEF CheckBusy, Steps

\* The lock is taken if it is free.
LEMMA AcquireFacts ==
    ASSUME TypeInv, NEW u \in Updaters, NEW f, AcquireUpdateLock(u, f)
    PROVE  /\ my' \in [Updaters -> Process] /\ Only(u)
           /\ At(u, "lock") /\ UNCHANGED <<disk, serving, deploying>>
           /\ Ends(u) \/ (Moves(u, "look") /\ lock = NoOne /\ lock' = u)
BY GoFacts, EndFacts DEF AcquireUpdateLock, Steps

\* The release that is looked up exists and is wanted.
LEMMA LookFacts ==
    ASSUME TypeInv, NEW u \in Updaters, NEW f, Look(u, f)
    PROVE  /\ my' \in [Updaters -> Process] /\ Only(u)
           /\ At(u, "look") /\ UNCHANGED <<disk, serving, deploying>>
           /\ \/ Ends(u)
              \/ /\ MovesTo(u, "stage") /\ my'[u].self = my[u].self /\ my'[u].release \in Releases
                 /\ my[u].force \/ (my[u].self # Dev /\ Newer(my'[u].release, my[u].self))
                 /\ lock' = lock
<1>1. CASE f = "none" /\ latest # 0 /\ Wanted(u)
  <2>1. /\ my' = [my EXCEPT ![u].step = "stage", ![u].release = latest] /\ lock' = lock
        /\ At(u, "look") /\ UNCHANGED <<disk, serving, deploying>>
    BY <1>1 DEF Look
  <2>2. latest \in Releases /\ latest \in Binaries /\ my \in [Updaters -> Process]
        /\ "stage" \in Steps
    BY <1>1, FileFacts DEF TypeInv, TypeOK, Steps
  <2>3. /\ my' \in [Updaters -> Process] /\ Only(u) /\ MovesTo(u, "stage")
        /\ my'[u].self = my[u].self /\ my'[u].release = latest
    BY <2>1, <2>2 DEF Only, MovesTo, Process
  <2>4. my[u].force \/ (my[u].self # Dev /\ Newer(latest, my[u].self))
    BY <1>1 DEF Wanted
  <2> QED
    BY <2>1, <2>2, <2>3, <2>4
<1>2. CASE ~(f = "none" /\ latest # 0 /\ Wanted(u))
  <2>1. End(u) /\ At(u, "look") /\ UNCHANGED <<disk, serving, deploying>>
    BY <1>2 DEF Look
  <2> QED
    BY <2>1, EndFacts
<1> QED
  BY <1>1, <1>2

\* The copy is of the release.
LEMMA StageFacts ==
    ASSUME TypeInv, NEW u \in Updaters, NEW f, Stage(u, f)
    PROVE  /\ my' \in [Updaters -> Process] /\ Only(u)
           /\ At(u, "stage") /\ UNCHANGED <<disk, serving, deploying>>
           /\ \/ Ends(u)
              \/ /\ MovesTo(u, "smoke") /\ my'[u].self = my[u].self
                 /\ my'[u].release = my[u].release /\ my'[u].copy = my[u].release
                 /\ lock' = lock
<1>1. CASE f = "none"
  <2>1. /\ my' = [my EXCEPT ![u].step = "smoke", ![u].copy = my[u].release] /\ lock' = lock
        /\ At(u, "stage") /\ UNCHANGED <<disk, serving, deploying>>
    BY <1>1 DEF Stage
  <2>2. /\ my[u].release \in Files /\ my \in [Updaters -> Process] /\ "smoke" \in Steps
    BY FileFacts DEF TypeInv, Process, Steps
  <2>3. /\ my' \in [Updaters -> Process] /\ Only(u) /\ MovesTo(u, "smoke")
        /\ my'[u].self = my[u].self /\ my'[u].copy = my[u].release
        /\ my'[u].release = my[u].release
    BY <2>1, <2>2 DEF Only, MovesTo, Process
  <2> QED
    BY <2>1, <2>3
<1>2. CASE f # "none"
  <2>1. End(u) /\ At(u, "stage") /\ UNCHANGED <<disk, serving, deploying>>
    BY <1>2 DEF Stage
  <2> QED
    BY <2>1, EndFacts
<1> QED
  BY <1>1, <1>2

\* The copy has been run.
LEMMA SmokeFacts ==
    ASSUME TypeInv, NEW u \in Updaters, NEW f, SmokeTest(u, f)
    PROVE  /\ my' \in [Updaters -> Process] /\ Only(u)
           /\ At(u, "smoke") /\ UNCHANGED <<disk, serving, deploying>>
           /\ Ends(u) \/ (Moves(u, "save") /\ lock' = lock)
BY GoFacts, EndFacts DEF SmokeTest, Steps

\* Saving the old binary, in two writes.
LEMMA SaveFacts ==
    ASSUME TypeInv, NEW u \in Updaters, NEW f, Save(u, f)
    PROVE  /\ my' \in [Updaters -> Process] /\ Only(u)
           /\ At(u, "save") /\ UNCHANGED <<target, serving, deploying>>
           /\ \/ Ends(u) /\ prev' = prev
              \/ /\ MovesTo(u, "save_rest") /\ my'[u].self = target
                 /\ my'[u].release = my[u].release /\ my'[u].copy = my[u].copy
                 /\ lock' = lock /\ prev' = Torn
<1>1. CASE f = "none"
  <2>1. /\ my' = [my EXCEPT ![u].step = "save_rest", ![u].self = target] /\ lock' = lock
        /\ At(u, "save") /\ UNCHANGED <<target, serving, deploying>> /\ prev' = Torn
    BY <1>1 DEF Save
  <2>2. target \in Files /\ my \in [Updaters -> Process] /\ "save_rest" \in Steps
    BY DEF TypeInv, TypeOK, Steps
  <2>3. /\ my' \in [Updaters -> Process] /\ Only(u) /\ MovesTo(u, "save_rest")
        /\ my'[u].self = target /\ my'[u].copy = my[u].copy
        /\ my'[u].release = my[u].release
    BY <2>1, <2>2 DEF Only, MovesTo, Process
  <2> QED
    BY <2>1, <2>3
<1>2. CASE f # "none"
  <2>1. End(u) /\ At(u, "save") /\ UNCHANGED <<disk, serving, deploying>>
    BY <1>2 DEF Save, disk
  <2> QED
    BY <2>1, EndFacts DEF disk
<1> QED
  BY <1>1, <1>2

\* ... the second of which completes the file.
LEMMA SaveRestFacts ==
    ASSUME TypeInv, NEW u \in Updaters, NEW f, SaveRest(u, f)
    PROVE  /\ my' \in [Updaters -> Process] /\ Only(u)
           /\ At(u, "save_rest") /\ UNCHANGED <<target, serving, deploying>>
           /\ \/ Ends(u) /\ prev' = prev
              \/ Moves(u, "install") /\ lock' = lock /\ prev' = my[u].self
BY GoFacts, EndFacts DEF SaveRest, Steps

\* The new binary takes the place of the old one, and is read back.
LEMMA InstallFacts ==
    ASSUME TypeInv, NEW u \in Updaters, NEW f, Install(u, f)
    PROVE  /\ my' \in [Updaters -> Process] /\ Only(u)
           /\ At(u, "install") /\ UNCHANGED <<prev, serving, deploying>>
           /\ \/ Ends(u) /\ target' = target
              \/ Moves(u, "rehash") /\ lock' = lock /\ target' = my[u].copy
BY GoFacts, EndFacts DEF Install, Steps

\* What was read back is the release or something else.
LEMMA RehashFacts ==
    ASSUME TypeInv, NEW u \in Updaters, NEW f, Rehash(u, f)
    PROVE  /\ my' \in [Updaters -> Process] /\ Only(u)
           /\ At(u, "rehash") /\ UNCHANGED <<disk, serving, deploying>>
           /\ \/ Ends(u) /\ f # "none"
              \/ Moves(u, "restart") /\ lock' = lock /\ target = my[u].release
              \/ Moves(u, "mend") /\ lock' = lock /\ target # my[u].release
BY GoFacts, EndFacts DEF Rehash, Steps

\* The saved binary is copied ...
LEMMA RestoreCopyFacts ==
    ASSUME TypeInv, NEW u \in Updaters, NEW f, RestoreCopy(u, f)
    PROVE  /\ my' \in [Updaters -> Process] /\ Only(u) /\ UNCHANGED <<disk, serving, deploying>>
           /\ \E way \in {"mend", "undo", "back"} :
                /\ At(u, way)
                /\ \/ Ends(u) /\ (f # "none" \/ prev = None)
                   \/ /\ MovesTo(u, Renaming(way)) /\ my'[u].self = my[u].self
                      /\ my'[u].release = my[u].release /\ my'[u].copy = prev
                      /\ lock' = lock
<1> PICK way \in {"mend", "undo", "back"} :
      /\ At(u, way) /\ f \in {"none", "disk"}
      /\ IF f = "none" /\ prev # None
         THEN /\ my' = [my EXCEPT ![u].step = Renaming(way), ![u].copy = prev]
              /\ UNCHANGED lock
         ELSE End(u)
      /\ UNCHANGED <<disk, serving, deploying>>
  BY Zenon DEF RestoreCopy
<1>0. Renaming(way) \in Steps
  BY DEF Renaming, Steps
<1>1. CASE f = "none" /\ prev # None
  <2> PICK t \in Steps : t = Renaming(way)
    BY <1>0
  <2>1. my' = [my EXCEPT ![u].step = t, ![u].copy = prev] /\ lock' = lock
    BY <1>1, Zenon
  <2>2. prev \in Files /\ my \in [Updaters -> Process]
    BY DEF TypeInv, TypeOK
  <2>3. /\ my' \in [Updaters -> Process] /\ Only(u) /\ MovesTo(u, t)
        /\ my'[u].self = my[u].self /\ my'[u].copy = prev
        /\ my'[u].release = my[u].release
    BY <2>1, <2>2 DEF Only, MovesTo, Process
  <2> QED
    BY <2>1, <2>3, Zenon
<1>2. CASE ~(f = "none" /\ prev # None)
  <2>1. End(u)
    BY <1>2, Zenon
  <2>2. my' \in [Updaters -> Process] /\ Only(u) /\ Ends(u)
    BY <2>1, EndFacts
  <2> QED
    BY <1>2, <2>2, Zenon
<1> QED
  BY <1>1, <1>2

\* ... and renamed over the target.
LEMMA RestoreRenameFacts ==
    ASSUME TypeInv, NEW u \in Updaters, NEW f, RestoreRename(u, f)
    PROVE  /\ my' \in [Updaters -> Process] /\ Only(u) /\ UNCHANGED <<prev, serving, deploying>>
           /\ \E way \in {"mend", "undo", "back"} :
                /\ At(u, Renaming(way))
                /\ \/ Ends(u) /\ f # "none" /\ target' = target
                   \/ Ends(u) /\ way = "mend" /\ target' = my[u].copy
                   \/ /\ way # "mend" /\ Moves(u, Restarting(way)) /\ lock' = lock
                      /\ target' = my[u].copy
<1> PICK way \in {"mend", "undo", "back"} :
      /\ At(u, Renaming(way)) /\ f \in {"none", "disk"}
      /\ target' = IF f = "none" THEN my[u].copy ELSE target
      /\ IF f = "none" /\ way # "mend" THEN Go(u, Restarting(way)) /\ UNCHANGED lock
         ELSE End(u)
      /\ UNCHANGED <<prev, serving, deploying>>
  BY Zenon DEF RestoreRename
<1>1. CASE f = "none" /\ way # "mend"
  <2>1. Restarting(way) \in Steps
    BY <1>1 DEF Restarting, Steps
  <2>2. Go(u, Restarting(way)) /\ lock' = lock /\ target' = my[u].copy
    BY <1>1, Zenon
  <2>3. my' \in [Updaters -> Process] /\ Only(u) /\ Moves(u, Restarting(way))
    BY <2>1, <2>2, GoFacts
  <2> QED
    BY <1>1, <2>2, <2>3, Zenon
<1>2. CASE ~(f = "none" /\ way # "mend")
  <2>1. End(u)
    BY <1>2, Zenon
  <2>2. my' \in [Updaters -> Process] /\ Only(u) /\ Ends(u)
    BY <2>1, EndFacts
  <2> QED
    BY <1>2, <2>2, Zenon
<1> QED
  BY <1>1, <1>2

\* The service starts from the target.
LEMMA RestartFacts ==
    ASSUME TypeInv, NEW u \in Updaters, NEW f, Restart(u, f)
    PROVE  /\ my' \in [Updaters -> Process] /\ Only(u) /\ UNCHANGED disk
           /\ \E way \in {"update", "undo", "back"} :
                /\ At(u, Restarting(way))
                /\ \/ /\ serving' = target /\ deploying' = FALSE
                      /\ Moves(u, Verifying(way)) /\ lock' = lock
                   \/ /\ f # "none" /\ UNCHANGED <<serving, deploying>>
                      /\ \/ way = "update" /\ Moves(u, "undo") /\ lock' = lock
                         \/ way # "update" /\ Ends(u)
<1> PICK way \in {"update", "undo", "back"} :
      /\ At(u, Restarting(way)) /\ f \in {"none", "restart"}
      /\ IF f = "none"
         THEN /\ serving' = target /\ deploying' = FALSE
              /\ Go(u, Verifying(way)) /\ UNCHANGED lock
         ELSE /\ UNCHANGED <<serving, deploying>>
              /\ IF way = "update" THEN Go(u, "undo") /\ UNCHANGED lock ELSE End(u)
      /\ UNCHANGED disk
  BY Zenon DEF Restart
<1>1. CASE f = "none"
  <2>1. Verifying(way) \in Steps
    BY DEF Verifying, Steps
  <2>2. Go(u, Verifying(way)) /\ lock' = lock /\ serving' = target /\ deploying' = FALSE
    BY <1>1, Zenon
  <2>3. my' \in [Updaters -> Process] /\ Only(u) /\ Moves(u, Verifying(way))
    BY <2>1, <2>2, GoFacts
  <2> QED
    BY <2>2, <2>3, Zenon
<1>2. CASE f # "none" /\ way = "update"
  <2>1. Go(u, "undo") /\ lock' = lock /\ UNCHANGED <<serving, deploying>>
    BY <1>2, Zenon
  <2>2. my' \in [Updaters -> Process] /\ Only(u) /\ Moves(u, "undo")
    BY <2>1, GoFacts DEF Steps
  <2> QED
    BY <1>2, <2>1, <2>2, Zenon
<1>3. CASE f # "none" /\ way # "update"
  <2>1. End(u) /\ UNCHANGED <<serving, deploying>>
    BY <1>3, Zenon
  <2>2. my' \in [Updaters -> Process] /\ Only(u) /\ Ends(u)
    BY <2>1, EndFacts
  <2> QED
    BY <1>3, <2>1, <2>2, Zenon
<1> QED
  BY <1>1, <1>2, <1>3

\* The update is over if the service comes up.
LEMMA VerifyFacts ==
    ASSUME TypeInv, NEW u \in Updaters, NEW f, Verify(u, f)
    PROVE  /\ my' \in [Updaters -> Process] /\ Only(u)
           /\ At(u, "verify") /\ UNCHANGED <<disk, serving, deploying>>
           /\ \/ Ends(u) /\ serving \in Good
              \/ Moves(u, "undo") /\ lock' = lock
BY GoFacts, EndFacts DEF Verify, Steps

\* What comes after the old binary was put back is only reported.
LEMMA VerifyRestoredFacts ==
    ASSUME TypeInv, NEW u \in Updaters, NEW f, VerifyRestored(u, f)
    PROVE  /\ my' \in [Updaters -> Process] /\ Only(u)
           /\ At(u, "undo_verify") \/ At(u, "back_verify")
           /\ UNCHANGED <<disk, serving, deploying>> /\ Ends(u)
BY EndFacts DEF VerifyRestored


\* The same by the step it is at.
LEMMA RestartCases ==
    ASSUME TypeInv, NEW u \in Updaters, NEW f, Restart(u, f)
    PROVE  /\ my' \in [Updaters -> Process] /\ Only(u) /\ UNCHANGED disk
           /\ serving' \in {serving, target} /\ deploying' \in {FALSE, deploying}
           /\ \/ At(u, "restart") /\ serving' = target /\ Moves(u, "verify") /\ lock' = lock
              \/ At(u, "restart") /\ serving' = serving /\ Moves(u, "undo") /\ lock' = lock
              \/ At(u, "undo_restart") /\ serving' = target /\ Moves(u, "undo_verify") /\ lock' = lock
              \/ At(u, "undo_restart") /\ f # "none" /\ serving' = serving /\ Ends(u)
              \/ At(u, "back_restart") /\ serving' = target /\ Moves(u, "back_verify") /\ lock' = lock
              \/ At(u, "back_restart") /\ serving' = serving /\ Ends(u)
<1>1. PICK way \in {"update", "undo", "back"} :
        /\ At(u, Restarting(way))
        /\ \/ /\ serving' = target /\ deploying' = FALSE
              /\ Moves(u, Verifying(way)) /\ lock' = lock
           \/ /\ f # "none" /\ UNCHANGED <<serving, deploying>>
              /\ \/ way = "update" /\ Moves(u, "undo") /\ lock' = lock
                 \/ way # "update" /\ Ends(u)
  BY RestartFacts, Zenon
<1>2. /\ Restarting("update") = "restart" /\ Verifying("update") = "verify"
      /\ Restarting("undo") = "undo_restart" /\ Verifying("undo") = "undo_verify"
      /\ Restarting("back") = "back_restart" /\ Verifying("back") = "back_verify"
  BY DEF Restarting, Verifying
<1>3. my' \in [Updaters -> Process] /\ Only(u) /\ UNCHANGED disk
  BY RestartFacts, Zenon
<1>4. serving' \in {serving, target} /\ deploying' \in {FALSE, deploying}
  BY <1>1
<1>5. CASE way = "update"
  BY <1>1, <1>2, <1>3, <1>4, <1>5, Zenon
<1>6. CASE way = "undo"
  BY <1>1, <1>2, <1>3, <1>4, <1>6, Zenon
<1>7. CASE way = "back"
  BY <1>1, <1>2, <1>3, <1>4, <1>7, Zenon
<1> QED
  BY <1>5, <1>6, <1>7, Zenon

\* A command starts.
LEMMA AskFacts ==
    ASSUME TypeInv, NEW u \in Updaters, Ask(u)
    PROVE  /\ my' \in [Updaters -> Process] /\ Only(u) /\ At(u, "idle") /\ target \in Binaries
           /\ my'[u].self = target /\ my'[u].before = <<target, prev, serving>>
           /\ \/ my'[u].kind = "update" /\ my'[u].step \in {"lock", "busy"}
              \/ my'[u].kind = "rollback" /\ my'[u].step = "back"
           /\ UNCHANGED <<disk, serving, lock, deploying>>
<1>1. /\ At(u, "idle") /\ target \in Binaries /\ UNCHANGED <<disk, serving, lock, deploying>>
      /\ \/ \E force \in BOOLEAN :
              my' = [my EXCEPT ![u] = Command("update", force, IF force THEN "lock" ELSE "busy")]
         \/ my' = [my EXCEPT ![u] = Command("rollback", FALSE, "back")]
  BY Zenon DEF Ask
<1>2. <<target, prev, serving>> \in Files \X Files \X Files /\ target \in Files
      /\ my \in [Updaters -> Process]
  BY DEF TypeInv, TypeOK
<1>3. PICK kind \in {"update", "rollback"}, force \in BOOLEAN, t \in {"lock", "busy", "back"} :
        /\ my' = [my EXCEPT ![u] = Command(kind, force, t)]
        /\ kind = "update" => t \in {"lock", "busy"}
        /\ kind = "rollback" => t = "back"
  <2>1. ASSUME NEW force \in BOOLEAN,
               my' = [my EXCEPT ![u] = Command("update", force, IF force THEN "lock" ELSE "busy")]
        PROVE  \E t \in {"lock", "busy"} : my' = [my EXCEPT ![u] = Command("update", force, t)]
    BY <2>1, Zenon
  <2>2. "lock" \in {"lock", "busy", "back"} /\ "busy" \in {"lock", "busy", "back"}
        /\ "back" \in {"lock", "busy", "back"} /\ FALSE \in BOOLEAN /\ "update" # "rollback"
        /\ "update" \in {"update", "rollback"} /\ "rollback" \in {"update", "rollback"}
    OBVIOUS
  <2> QED
    BY <1>1, <2>1, <2>2, Zenon
<1>4. Command(kind, force, t) \in Process
  BY <1>2, FileFacts DEF Command, Process, Steps
<1>5. my' \in [Updaters -> Process] /\ Only(u) /\ my'[u] = Command(kind, force, t)
  BY <1>2, <1>3, <1>4 DEF Only
<1> QED
  BY <1>1, <1>3, <1>5 DEF Command

----------------------------------------------------------------------------
(* Types                                                                    *)

\* Nothing a process does leaves the types, or the step it is at undone.
LEMMA WorkType ==
    ASSUME TypeInv, PlaceInv, NEW u \in Updaters, NEW f, Work(u, f)
    PROVE  /\ my' \in [Updaters -> Process] /\ Only(u) /\ ~At(u, "idle")
           /\ target' \in Files /\ prev' \in Files /\ serving' \in Files
           /\ lock' \in Updaters \cup {NoOne} /\ deploying' \in BOOLEAN
           /\ my'[u].step \in {"stage", "smoke", "save", "save_rest", "install"}
                 => my'[u].release \in Releases
           /\ \/ Ends(u)
              \/ /\ my'[u].kind = my[u].kind
                 /\ \/ my[u].kind = "update" /\ my'[u].step \in Inside
                       /\ lock \in {u, NoOne} /\ lock' = u
                    \/ my[u].step = "busy" /\ my'[u].step = "lock" /\ lock' = lock
                    \/ my[u].kind = "rollback" /\ my'[u].step \in Back /\ lock' = lock
<1>0. /\ target \in Files /\ prev \in Files /\ serving \in Files
      /\ lock \in Updaters \cup {NoOne} /\ deploying \in BOOLEAN
      /\ my[u] \in Process
      /\ my[u].step \in {"stage", "smoke", "save", "save_rest", "install"}
            => my[u].release \in Releases
  BY DEF TypeInv, TypeOK
<1>i. Idle.step = "idle"
  BY DEF Idle
<1>p. /\ my[u].step \in Inside \cup {"busy", "lock"} => my[u].kind = "update"
      /\ my[u].step \in Back => my[u].kind = "rollback"
      /\ my[u].step \in Inside => lock = u
  BY DEF PlaceInv
<1> USE DEF At, Ends, Moves, MovesTo, Inside, Back
<1>1. CASE CheckBusy(u, f)
  BY <1>0, <1>i, <1>p, <1>1, CheckBusyFacts DEF disk
<1>2. CASE AcquireUpdateLock(u, f)
  BY <1>0, <1>i, <1>p, <1>2, AcquireFacts DEF disk
<1>3. CASE Look(u, f)
  BY <1>0, <1>i, <1>p, <1>3, LookFacts DEF disk
<1>4. CASE Stage(u, f)
  BY <1>0, <1>i, <1>p, <1>4, StageFacts DEF disk
<1>5. CASE SmokeTest(u, f)
  BY <1>0, <1>i, <1>p, <1>5, SmokeFacts DEF disk
<1>6. CASE Save(u, f)
  BY <1>0, <1>i, <1>p, <1>6, SaveFacts, FileFacts
<1>7. CASE SaveRest(u, f)
  BY <1>0, <1>i, <1>p, <1>7, SaveRestFacts DEF Process
<1>8. CASE Install(u, f)
  BY <1>0, <1>i, <1>p, <1>8, InstallFacts DEF Process
<1>9. CASE Rehash(u, f)
  BY <1>0, <1>i, <1>p, <1>9, RehashFacts DEF disk
<1>10. CASE RestoreCopy(u, f)
  BY <1>0, <1>i, <1>p, <1>10, RestoreCopyFacts DEF disk, Renaming
<1>11. CASE RestoreRename(u, f)
  BY <1>0, <1>i, <1>p, <1>11, RestoreRenameFacts DEF Renaming, Restarting, Process
<1>12. CASE Restart(u, f)
  BY <1>0, <1>i, <1>p, <1>12, RestartCases DEF disk
<1>13. CASE Verify(u, f)
  BY <1>0, <1>i, <1>p, <1>13, VerifyFacts DEF disk
<1>14. CASE VerifyRestored(u, f)
  BY <1>0, <1>i, <1>p, <1>14, VerifyRestoredFacts DEF disk
<1> QED
  BY <1>1, <1>2, <1>3, <1>4, <1>5, <1>6, <1>7, <1>8, <1>9, <1>10, <1>11, <1>12, <1>13, <1>14
     DEF Work

\* The types are kept.
LEMMA TypeStep ==
    ASSUME TypeInv, PlaceInv, [Next]_vars
    PROVE  TypeInv'
<1>0. /\ target \in Files /\ prev \in Files /\ serving \in Files
      /\ latest \in Releases \cup {0} /\ lock \in Updaters \cup {NoOne}
      /\ deploying \in BOOLEAN /\ hurt \in BOOLEAN /\ careful \in BOOLEAN
      /\ my \in [Updaters -> Process]
      /\ \A v \in Updaters : my[v].step \in {"stage", "smoke", "save", "save_rest", "install"}
                            => my[v].release \in Releases
      /\ asked \in 0..MaxAsked /\ struck \in 0..MaxFaults /\ killed \in 0..MaxKills
      /\ sole \in Updaters \cup {NoOne}
      /\ Idle \in Process /\ Idle.step = "idle"
  BY IdleType DEF TypeInv, TypeOK, Idle
<1> DEFINE Processes ==
       /\ my' \in [Updaters -> Process]
       /\ \A v \in Updaters : my'[v].step \in {"stage", "smoke", "save", "save_rest", "install"}
                             => my'[v].release \in Releases
<1> DEFINE World ==
       /\ target' \in Files /\ prev' \in Files /\ serving' \in Files
       /\ latest' \in Releases \cup {0} /\ lock' \in Updaters \cup {NoOne}
       /\ deploying' \in BOOLEAN /\ hurt' \in BOOLEAN /\ careful' \in BOOLEAN
       /\ asked' \in 0..MaxAsked /\ struck' \in 0..MaxFaults /\ killed' \in 0..MaxKills
       /\ sole' \in Updaters \cup {NoOne}
<1>s. ASSUME Processes, World PROVE TypeInv'
  BY <1>s DEF TypeInv, TypeOK, Process
<1>1. ASSUME NEW u \in Updaters, AskStep(u) PROVE TypeInv'
  <2>1. Ask(u)
    BY <1>1 DEF AskStep
  <2>2. Processes
    BY <1>0, <2>1, AskFacts DEF Only
  <2>3. UNCHANGED <<disk, serving, lock, deploying>>
    BY <2>1, AskFacts
  <2>4. /\ asked < MaxAsked /\ asked' = asked + 1 /\ UNCHANGED <<latest, struck, killed>>
        /\ sole' \in {NoOne, u} /\ hurt' = FALSE /\ careful' = (careful /\ Careful(u))
    BY <1>1 DEF AskStep
  <2>5. careful' \in BOOLEAN
    BY <2>4, Zenon
  <2>6. asked' \in 0..MaxAsked
    BY <1>0, <2>4, UpdateBounds
  <2> QED
    BY <1>0, <1>s, <2>2, <2>3, <2>4, <2>5, <2>6 DEF disk
<1>2. ASSUME NEW u \in Updaters, NEW f \in Striking, WorkStep(u, f) PROVE TypeInv'
  <2>1. Work(u, f)
    BY <1>2 DEF WorkStep
  <2>2. Processes
    BY <1>0, <2>1, WorkType DEF Only
  <2>3. /\ struck' = (IF f = "none" THEN struck ELSE struck + 1)
        /\ hurt' = (hurt \/ (f # "none" /\ PuttingBack(u)))
        /\ careful' = (careful /\ (my'[u].step = "stage" => target \in Good))
        /\ UNCHANGED <<latest, asked, killed, sole>>
    BY <1>2 DEF WorkStep
  <2>4. f = "none" \/ struck < MaxFaults
    BY DEF Striking
  <2>5. struck' \in 0..MaxFaults
    BY <1>0, <2>3, <2>4, UpdateBounds
  <2>6. careful' \in BOOLEAN /\ hurt' \in BOOLEAN
    BY <2>3, Zenon
  <2>7. /\ target' \in Files /\ prev' \in Files /\ serving' \in Files
        /\ lock' \in Updaters \cup {NoOne} /\ deploying' \in BOOLEAN
    BY <2>1, WorkType
  <2> QED
    BY <1>0, <1>s, <2>2, <2>3, <2>5, <2>6, <2>7
<1>3. ASSUME NEW u \in Updaters, Kill(u) PROVE TypeInv'
  <2>1. Processes
    BY <1>0, <1>3, EndFacts DEF Kill, Only, Ends
  <2>2. /\ killed < MaxKills /\ killed' = killed + 1 /\ lock' \in {lock, NoOne} /\ sole' \in {sole, NoOne}
        /\ UNCHANGED <<disk, serving, latest, deploying, asked, struck, hurt, careful>>
    BY <1>3 DEF Kill, End
  <2>3. killed' \in 0..MaxKills
    BY <1>0, <2>2, UpdateBounds
  <2> QED
    BY <1>0, <1>s, <2>1, <2>2, <2>3 DEF disk
<1>4. CASE Reboot
  <2>1. Processes
    BY <1>0, <1>4 DEF Reboot
  <2>2. killed' \in 0..MaxKills
    BY <1>0, <1>4, UpdateBounds DEF Reboot
  <2> QED
    BY <1>0, <1>4, <1>s, <2>1, <2>2 DEF Reboot, disk
<1>5. CASE Publish
  BY <1>0, <1>5, <1>s DEF Publish, disk, bounds
<1>6. CASE Deploy
  <2>1. deploying' \in BOOLEAN
    BY <1>6, Zenon DEF Deploy
  <2>2. UNCHANGED <<disk, serving, latest, lock, my, bounds, sole, hurt, careful>>
    BY <1>6, Zenon DEF Deploy
  <2> QED
    BY <1>0, <1>s, <2>1, <2>2 DEF disk, bounds
<1>7. CASE UNCHANGED vars
  BY <1>0, <1>7, <1>s DEF vars, disk, bounds
<1> QED
  BY <1>1, <1>2, <1>3, <1>4, <1>5, <1>6, <1>7 DEF Next

\* The lock keeps updates apart: two are never past it together.
LEMMA PlaceStep ==
    ASSUME TypeInv, PlaceInv, [Next]_vars
    PROVE  PlaceInv'
<1> USE DEF Inside, Back
<1>i. Idle.step = "idle" /\ Idle.kind = "none"
  BY DEF Idle
<1>1. ASSUME NEW u \in Updaters, AskStep(u) PROVE PlaceInv'
  <2>1. Ask(u)
    BY <1>1 DEF AskStep
  <2> QED
    BY <2>1, AskFacts DEF PlaceInv, Only
<1>2. ASSUME NEW u \in Updaters, NEW f, WorkStep(u, f) PROVE PlaceInv'
  <2>1. Work(u, f)
    BY <1>2 DEF WorkStep
  <2>2. /\ Only(u)
        /\ \/ Ends(u)
           \/ /\ my'[u].kind = my[u].kind
              /\ \/ my[u].kind = "update" /\ my'[u].step \in Inside
                    /\ lock \in {u, NoOne} /\ lock' = u
                 \/ my[u].step = "busy" /\ my'[u].step = "lock" /\ lock' = lock
                 \/ my[u].kind = "rollback" /\ my'[u].step \in Back /\ lock' = lock
    BY <2>1, WorkType
  <2>3. CASE Ends(u)
    BY <1>i, <2>2, <2>3 DEF PlaceInv, Only, Ends
  <2>4. CASE my'[u].kind = my[u].kind /\ my[u].kind = "update" /\ my'[u].step \in Inside
             /\ lock \in {u, NoOne} /\ lock' = u
    BY <2>2, <2>4, NoOneIsNone DEF PlaceInv, Only
  <2>5. CASE my'[u].kind = my[u].kind /\ my[u].step = "busy" /\ my'[u].step = "lock" /\ lock' = lock
    BY <2>2, <2>5 DEF PlaceInv, Only
  <2>6. CASE my'[u].kind = my[u].kind /\ my[u].kind = "rollback" /\ my'[u].step \in Back /\ lock' = lock
    BY <2>2, <2>6 DEF PlaceInv, Only
  <2> QED
    BY <2>2, <2>3, <2>4, <2>5, <2>6
<1>3. ASSUME NEW u \in Updaters, Kill(u) PROVE PlaceInv'
  <2>1. Only(u) /\ Ends(u)
    BY <1>3, EndFacts DEF Kill
  <2> QED
    BY <1>i, <2>1 DEF PlaceInv, Only, Ends
<1>4. CASE Reboot
  BY <1>i, <1>4 DEF PlaceInv, Reboot
<1>5. CASE Publish \/ Deploy \/ UNCHANGED vars
  BY <1>5 DEF PlaceInv, Publish, Deploy, vars
<1> QED
  BY <1>1, <1>2, <1>3, <1>4, <1>5 DEF Next

\* Every start.
LEMMA InitInv == Init => TypeInv /\ PlaceInv
<1> SUFFICES ASSUME Init PROVE TypeInv /\ PlaceInv
  OBVIOUS
<1>1. /\ my = [u \in Updaters |-> Idle] /\ Idle \in Process /\ Idle.step = "idle"
      /\ Idle.kind = "none"
  BY IdleType DEF Init, Idle
<1>2. /\ target \in Files /\ prev \in Files /\ serving \in Files /\ latest \in Releases \cup {0}
      /\ lock = NoOne /\ deploying = FALSE /\ asked = 0 /\ struck = 0 /\ killed = 0
      /\ sole = NoOne /\ hurt = FALSE /\ careful = TRUE
  BY FileFacts DEF Init
<1>3. 0 \in 0..MaxAsked /\ 0 \in 0..MaxFaults /\ 0 \in 0..MaxKills
  BY UpdateBounds
<1> QED
  BY <1>1, <1>2, <1>3 DEF TypeInv, TypeOK, PlaceInv, Process, Inside, Back

\* The types hold, whatever the releases and however many commands.
THEOREM SelfUpdateTypeOK == Spec => []TypeOK
<1>1. TypeInv /\ PlaceInv /\ [Next]_vars => TypeInv' /\ PlaceInv'
  BY TypeStep, PlaceStep
<1>2. TypeInv => TypeOK
  BY DEF TypeInv
<1> QED
  BY InitInv, <1>1, <1>2, PTL DEF Spec

----------------------------------------------------------------------------
(* A way back                                                               *)

\* Before it has the lock a process touches no file.
LEMMA EarlyWork ==
    ASSUME TypeInv, NEW u \in Updaters, NEW f, Work(u, f), my[u].step \in {"busy", "lock"}
    PROVE  UNCHANGED disk
<1>1. CASE CheckBusy(u, f)
  BY <1>1, CheckBusyFacts DEF At, disk
<1>2. CASE AcquireUpdateLock(u, f)
  BY <1>2, AcquireFacts DEF At, disk
<1>3. CASE Look(u, f)
  BY <1>3, LookFacts DEF At, disk
<1>4. CASE Stage(u, f)
  BY <1>4, StageFacts DEF At, disk
<1>5. CASE SmokeTest(u, f)
  BY <1>5, SmokeFacts DEF At, disk
<1>6. CASE Save(u, f)
  BY <1>6, SaveFacts DEF At, disk
<1>7. CASE SaveRest(u, f)
  BY <1>7, SaveRestFacts DEF At, disk
<1>8. CASE Install(u, f)
  BY <1>8, InstallFacts DEF At, disk
<1>9. CASE Rehash(u, f)
  BY <1>9, RehashFacts DEF At, disk
<1>10. CASE RestoreCopy(u, f)
  BY <1>10, RestoreCopyFacts DEF At, disk, Renaming
<1>11. CASE RestoreRename(u, f)
  BY <1>11, RestoreRenameFacts DEF At, disk, Renaming, Restarting
<1>12. CASE Restart(u, f)
  BY <1>12, RestartCases DEF At, disk
<1>13. CASE Verify(u, f)
  BY <1>13, VerifyFacts DEF At, disk
<1>14. CASE VerifyRestored(u, f)
  BY <1>14, VerifyRestoredFacts DEF At, disk
<1> QED
  BY <1>1, <1>2, <1>3, <1>4, <1>5, <1>6, <1>7, <1>8, <1>9, <1>10, <1>11, <1>12, <1>13, <1>14
     DEF Work

\* A step of one process leaves what holds of another.
LEMMA OthersKept ==
    ASSUME TypeInv, PlaceInv, WayInv, careful, NEW u \in Updaters, NEW f, Work(u, f),
           NEW v \in Updaters \ {u}
    PROVE  Kept(v)'
<1>1. my'[v] = my[v] /\ ~At(u, "idle") /\ my[v].step \in Steps /\ my[u].step \in Steps
  BY WorkType DEF Only, TypeInv, Process
<1>2. Kept(v) /\ Kept(u)
  BY DEF WayInv
<1>3. my[v].kind # "rollback"
  BY <1>1, <1>2 DEF Kept, Alone, At
<1>4. my[v].step \notin Back
  BY <1>3 DEF PlaceInv
<1>5. CASE my[v].step \in Inside
  <2>1. my[u].step \notin Inside
    BY <1>5 DEF PlaceInv
  <2>2. my[u].step \notin Back
    <3>1. my[v].step # "idle"
      BY <1>5 DEF Inside
    <3>2. ~Alone(u)
      BY <3>1 DEF Alone
    <3> QED
      BY <1>2, <3>2 DEF PlaceInv, Kept
  <2>3. my[u].step \in {"busy", "lock"}
    BY <1>1, <2>1, <2>2 DEF Steps, Inside, Back, At
  <2>4. UNCHANGED disk
    BY <2>3, EarlyWork
  <2> QED
    BY <1>1, <1>2, <1>3, <2>4 DEF Kept, disk
<1>6. CASE my[v].step \in {"idle", "busy", "lock"}
  BY <1>1, <1>3, <1>6 DEF Kept
<1> QED
  BY <1>1, <1>4, <1>5, <1>6 DEF Steps, Inside, Back

\* A step of a process takes it from where a way back exists to where one does.
LEMMA SelfKept ==
    ASSUME TypeInv, PlaceInv, WayInv, careful, NEW u \in Updaters, NEW f, Work(u, f),
           my'[u].step = "stage" => target \in Good
    PROVE  /\ target' \in Binaries /\ (target' \in Good \/ prev' \in Good)
           /\ Kept(u)'
<1>0. /\ target \in Binaries /\ (target \in Good \/ prev \in Good) /\ Kept(u)
      /\ my[u] \in Process
      /\ my[u].step \in {"stage", "smoke", "save", "save_rest", "install"} => my[u].release \in Binaries
  BY DEF WayInv, TypeInv, Process
<1>p. /\ my[u].step \in Inside \cup {"busy", "lock"} => my[u].kind = "update"
      /\ my[u].step \in Back => my[u].kind = "rollback"
  BY DEF PlaceInv
<1>a. Alone(u) => Alone(u)'
  <2>1. Only(u)
    BY WorkType
  <2> QED
    BY <2>1 DEF Only, Alone
<1>i. Idle.step = "idle" /\ Idle.kind = "none"
  BY DEF Idle
<1>1. CASE CheckBusy(u, f)
  BY <1>0, <1>a, <1>i, <1>p, FileFacts, <1>1, CheckBusyFacts DEF At, Ends, Moves, MovesTo, Kept, Inside, Back, disk
<1>2. CASE AcquireUpdateLock(u, f)
  BY <1>0, <1>a, <1>i, <1>p, FileFacts, <1>2, AcquireFacts DEF At, Ends, Moves, MovesTo, Kept, Inside, Back, disk
<1>3. CASE Look(u, f)
  BY <1>0, <1>a, <1>i, <1>p, FileFacts, <1>3, LookFacts DEF At, Ends, Moves, MovesTo, Kept, Inside, Back, disk
<1>4. CASE Stage(u, f)
  BY <1>0, <1>a, <1>i, <1>p, FileFacts, <1>4, StageFacts DEF At, Ends, Moves, MovesTo, Kept, Inside, Back, disk
<1>5. CASE SmokeTest(u, f)
  BY <1>0, <1>a, <1>i, <1>p, FileFacts, <1>5, SmokeFacts DEF At, Ends, Moves, MovesTo, Kept, Inside, Back, disk
<1>6. CASE Save(u, f)
  BY <1>0, <1>a, <1>i, <1>p, FileFacts, <1>6, SaveFacts DEF At, Ends, Moves, MovesTo, Kept, Inside, Back, disk
<1>7. CASE SaveRest(u, f)
  BY <1>0, <1>a, <1>i, <1>p, FileFacts, <1>7, SaveRestFacts DEF At, Ends, Moves, MovesTo, Kept, Inside, Back, disk
<1>8. CASE Install(u, f)
  BY <1>0, <1>a, <1>i, <1>p, FileFacts, <1>8, InstallFacts DEF At, Ends, Moves, MovesTo, Kept, Inside, Back, disk
<1>9. CASE Rehash(u, f)
  BY <1>0, <1>a, <1>i, <1>p, FileFacts, <1>9, RehashFacts DEF At, Ends, Moves, MovesTo, Kept, Inside, Back, disk
<1>10. CASE RestoreCopy(u, f)
  BY <1>0, <1>a, <1>i, <1>p, FileFacts, <1>10, RestoreCopyFacts DEF At, Ends, Moves, MovesTo, Kept, Inside, Back, disk, Renaming
<1>11. CASE RestoreRename(u, f)
  BY <1>0, <1>a, <1>i, <1>p, FileFacts, <1>11, RestoreRenameFacts DEF At, Ends, Moves, MovesTo, Kept, Inside, Back, disk, Renaming, Restarting
<1>12. CASE Restart(u, f)
  BY <1>0, <1>a, <1>i, <1>p, FileFacts, <1>12, RestartCases DEF At, Ends, Moves, MovesTo, Kept, Inside, Back, disk
<1>13. CASE Verify(u, f)
  BY <1>0, <1>a, <1>i, <1>p, FileFacts, <1>13, VerifyFacts DEF At, Ends, Moves, MovesTo, Kept, Inside, Back, disk
<1>14. CASE VerifyRestored(u, f)
  BY <1>0, <1>a, <1>i, <1>p, FileFacts, <1>14, VerifyRestoredFacts DEF At, Ends, Moves, MovesTo, Kept, Inside, Back, disk
<1> QED
  BY <1>1, <1>2, <1>3, <1>4, <1>5, <1>6, <1>7, <1>8, <1>9, <1>10, <1>11, <1>12, <1>13, <1>14
     DEF Work


\* Every step keeps a way back, as long as everyone was careful.
LEMMA WayStep ==
    ASSUME TypeInv, PlaceInv, WayInv, [Next]_vars
    PROVE  WayInv'
<1>i. Idle.step = "idle" /\ Idle.kind = "none"
  BY DEF Idle
<1> SUFFICES ASSUME careful'
             PROVE  /\ target' \in Binaries /\ (target' \in Good \/ prev' \in Good)
                    /\ \A v \in Updaters : Kept(v)'
  BY DEF WayInv
<1>1. ASSUME NEW u \in Updaters, AskStep(u)
      PROVE  /\ target' \in Binaries /\ (target' \in Good \/ prev' \in Good)
             /\ \A v \in Updaters : Kept(v)'
  <2>1. Ask(u) /\ careful /\ Careful(u)
    BY <1>1 DEF AskStep
  <2>2. /\ Only(u) /\ UNCHANGED disk
        /\ \/ my'[u].kind = "update" /\ my'[u].step \in {"lock", "busy"}
           \/ my'[u].kind = "rollback" /\ my'[u].step = "back"
    BY <2>1, AskFacts
  <2>3. target \in Binaries /\ (target \in Good \/ prev \in Good) /\ \A v \in Updaters : Kept(v)
    BY <2>1 DEF WayInv
  <2>4. /\ my'[u].kind = "rollback" => prev \in Good /\ Alone(u)
        /\ \A v \in Updaters : my[v].kind # "rollback"
    BY <2>1 DEF Careful, Others, Alone, At
  <2>5. Alone(u) => Alone(u)'
    BY <2>2 DEF Alone, Only
  <2>6. Kept(u)'
    BY <2>2, <2>4, <2>5 DEF Kept, disk
  <2>7. \A v \in Updaters \ {u} : Kept(v)'
    BY <2>2, <2>3, <2>4 DEF Kept, disk, Only
  <2> QED
    BY <2>2, <2>3, <2>6, <2>7 DEF disk
<1>2. ASSUME NEW u \in Updaters, NEW f, WorkStep(u, f)
      PROVE  /\ target' \in Binaries /\ (target' \in Good \/ prev' \in Good)
             /\ \A v \in Updaters : Kept(v)'
  <2>1. Work(u, f) /\ careful /\ (my'[u].step = "stage" => target \in Good)
    BY <1>2 DEF WorkStep
  <2>2. /\ target' \in Binaries /\ (target' \in Good \/ prev' \in Good)
        /\ Kept(u)'
    BY <2>1, SelfKept
  <2>3. \A v \in Updaters \ {u} : Kept(v)'
    BY <2>1, OthersKept
  <2> QED
    BY <2>2, <2>3
<1>3. ASSUME NEW u \in Updaters, Kill(u)
      PROVE  /\ target' \in Binaries /\ (target' \in Good \/ prev' \in Good)
             /\ \A v \in Updaters : Kept(v)'
  <2>1. Only(u) /\ my'[u] = Idle /\ UNCHANGED disk /\ careful
    BY <1>3, EndFacts DEF Kill, Ends
  <2>2. \A v \in Updaters : Alone(v) => Alone(v)'
    BY <1>i, <2>1 DEF Alone, Only
  <2>3. target \in Binaries /\ (target \in Good \/ prev \in Good) /\ \A v \in Updaters : Kept(v)
    BY <2>1 DEF WayInv
  <2>4. Kept(u)'
    BY <1>i, <2>1 DEF Kept
  <2>5. \A v \in Updaters \ {u} : Kept(v)'
    BY <2>1, <2>2, <2>3 DEF Kept, disk, Only
  <2> QED
    BY <2>1, <2>3, <2>4, <2>5 DEF disk
<1>4. CASE Reboot
  <2>1. /\ \A v \in Updaters : my'[v] = Idle
        /\ UNCHANGED disk /\ careful
    BY <1>4 DEF Reboot
  <2> QED
    BY <1>i, <2>1 DEF Kept, WayInv, disk
<1>5. CASE UNCHANGED <<disk, my, careful>>
  BY <1>5 DEF WayInv, Kept, Alone, disk
<1>6. CASE Publish \/ Deploy \/ UNCHANGED vars
  BY <1>5, <1>6 DEF Publish, Deploy, vars, disk
<1> QED
  BY <1>1, <1>2, <1>3, <1>4, <1>6 DEF Next

\* However many updates race, fail, are killed or cut off by a reboot: the unit's
\* binary is a whole file at every moment, and it or the saved one comes up.
THEOREM ThereIsAWayBack == Spec => []AWayBack
<1>1. Init => WayInv
  <2> SUFFICES ASSUME Init PROVE WayInv
    OBVIOUS
  <2>1. my = [u \in Updaters |-> Idle] /\ target \in Good /\ Idle.step = "idle" /\ Idle.kind = "none"
    BY DEF Init, Idle
  <2> QED
    BY <2>1, FileFacts DEF WayInv, Kept
<1>2. TypeInv /\ PlaceInv /\ WayInv /\ [Next]_vars => TypeInv' /\ PlaceInv' /\ WayInv'
  BY TypeStep, PlaceStep, WayStep
<1>3. WayInv => AWayBack
  BY DEF WayInv, AWayBack
<1> QED
  BY InitInv, <1>1, <1>2, <1>3, PTL DEF Spec

----------------------------------------------------------------------------
(* All or nothing                                                           *)

\* An update alone and unhurt goes from where its files are traced to where they
\* are.
LEMMA TracedWork ==
    ASSUME TypeInv, PlaceInv, NEW u \in Updaters, NEW f, Work(u, f), Traced(u),
           my[u].kind = "update", ~(f # "none" /\ PuttingBack(u)), my'[u].step # "idle"
    PROVE  Traced(u)'
<1>0. my[u] \in Process
  BY DEF TypeInv
<1>i. Idle.step = "idle"
  BY DEF Idle
<1>p. my[u].step \in Back => my[u].kind = "rollback"
  BY DEF PlaceInv
<1>f. None \notin Binaries
  BY FileFacts
<1>1. CASE CheckBusy(u, f)
  BY <1>0, <1>i, <1>p, <1>1, CheckBusyFacts DEF At, Ends, Moves, MovesTo, Traced, Inside, Back, disk
<1>2. CASE AcquireUpdateLock(u, f)
  BY <1>0, <1>i, <1>p, <1>2, AcquireFacts DEF At, Ends, Moves, MovesTo, Traced, Inside, Back, disk
<1>3. CASE Look(u, f)
  BY <1>0, <1>i, <1>p, <1>3, LookFacts DEF At, Ends, Moves, MovesTo, Traced, Inside, Back, disk
<1>4. CASE Stage(u, f)
  BY <1>0, <1>i, <1>p, <1>4, StageFacts DEF At, Ends, Moves, MovesTo, Traced, Inside, Back, disk
<1>5. CASE SmokeTest(u, f)
  BY <1>0, <1>i, <1>p, <1>5, SmokeFacts DEF At, Ends, Moves, MovesTo, Traced, Inside, Back, disk
<1>6. CASE Save(u, f)
  BY <1>0, <1>i, <1>p, <1>6, SaveFacts DEF At, Ends, Moves, MovesTo, Traced, Inside, Back, disk
<1>7. CASE SaveRest(u, f)
  BY <1>0, <1>i, <1>p, <1>7, SaveRestFacts DEF At, Ends, Moves, MovesTo, Traced, Inside, Back, disk
<1>8. CASE Install(u, f)
  BY <1>0, <1>i, <1>p, <1>8, InstallFacts DEF At, Ends, Moves, MovesTo, Traced, Inside, Back, disk
<1>9. CASE Rehash(u, f)
  BY <1>0, <1>i, <1>p, <1>9, RehashFacts DEF At, Ends, Moves, MovesTo, Traced, Inside, Back, disk
<1>10. CASE RestoreCopy(u, f)
  BY <1>0, <1>i, <1>p, <1>10, RestoreCopyFacts DEF At, Ends, Moves, MovesTo, Traced, Inside, Back, disk, Renaming
<1>11. CASE RestoreRename(u, f)
  BY <1>0, <1>i, <1>p, <1>11, RestoreRenameFacts DEF At, Ends, Moves, MovesTo, Traced, Inside, Back, disk, Renaming, Restarting
<1>12. CASE Restart(u, f)
  BY <1>0, <1>i, <1>p, <1>12, RestartCases DEF At, Ends, Moves, MovesTo, Traced, Inside, Back, disk
<1>13. CASE Verify(u, f)
  BY <1>0, <1>i, <1>p, <1>13, VerifyFacts DEF At, Ends, Moves, MovesTo, Traced, Inside, Back, disk
<1>14. CASE VerifyRestored(u, f)
  BY <1>0, <1>i, <1>p, <1>14, VerifyRestoredFacts DEF At, Ends, Moves, MovesTo, Traced, Inside, Back, disk
<1> QED
  BY <1>1, <1>2, <1>3, <1>4, <1>5, <1>6, <1>7, <1>8, <1>9, <1>10, <1>11, <1>12, <1>13, <1>14
     DEF Work

\* It ends with the release in place and running, or with what there was.
LEMMA TracedEnd ==
    ASSUME TypeInv, PlaceInv, NEW u \in Updaters, NEW f, Work(u, f), Traced(u),
           my[u].kind = "update", ~(f # "none" /\ PuttingBack(u)), my'[u].step = "idle"
    PROVE  LET old == my[u].before[1]  r == my[u].release
           IN  \/ /\ target' = r /\ serving' = r /\ r \in Good /\ prev' = old
                  /\ my[u].force \/ (old # Dev /\ Newer(r, old))
               \/ target' = old /\ serving' \in {old, my[u].before[3]}
<1>0. my[u] \in Process
  BY DEF TypeInv
<1>p. my[u].step \in Back => my[u].kind = "rollback"
  BY DEF PlaceInv
<1>f. None \notin Binaries
  BY FileFacts
<1>1. CASE CheckBusy(u, f)
  BY <1>0, <1>f, <1>p, <1>1, CheckBusyFacts DEF At, Moves, MovesTo, Traced, PuttingBack, Inside, Back, disk
<1>2. CASE AcquireUpdateLock(u, f)
  BY <1>0, <1>f, <1>p, <1>2, AcquireFacts DEF At, Moves, MovesTo, Traced, PuttingBack, Inside, Back, disk
<1>3. CASE Look(u, f)
  BY <1>0, <1>f, <1>p, <1>3, LookFacts DEF At, Moves, MovesTo, Traced, PuttingBack, Inside, Back, disk
<1>4. CASE Stage(u, f)
  BY <1>0, <1>f, <1>p, <1>4, StageFacts DEF At, Moves, MovesTo, Traced, PuttingBack, Inside, Back, disk
<1>5. CASE SmokeTest(u, f)
  BY <1>0, <1>f, <1>p, <1>5, SmokeFacts DEF At, Moves, MovesTo, Traced, PuttingBack, Inside, Back, disk
<1>6. CASE Save(u, f)
  BY <1>0, <1>f, <1>p, <1>6, SaveFacts DEF At, Moves, MovesTo, Traced, PuttingBack, Inside, Back, disk
<1>7. CASE SaveRest(u, f)
  BY <1>0, <1>f, <1>p, <1>7, SaveRestFacts DEF At, Moves, MovesTo, Traced, PuttingBack, Inside, Back, disk
<1>8. CASE Install(u, f)
  BY <1>0, <1>f, <1>p, <1>8, InstallFacts DEF At, Moves, MovesTo, Traced, PuttingBack, Inside, Back, disk
<1>9. CASE Rehash(u, f)
  BY <1>0, <1>f, <1>p, <1>9, RehashFacts DEF At, Moves, MovesTo, Traced, PuttingBack, Inside, Back, disk
<1>10. CASE RestoreCopy(u, f)
  BY <1>0, <1>f, <1>p, <1>10, RestoreCopyFacts DEF At, Moves, MovesTo, Traced, PuttingBack, Inside, Back, disk, Renaming
<1>11. CASE RestoreRename(u, f)
  BY <1>0, <1>f, <1>p, <1>11, RestoreRenameFacts DEF At, Moves, MovesTo, Traced, PuttingBack, Inside, Back, disk, Renaming, Restarting
<1>12. CASE Restart(u, f)
  BY <1>0, <1>f, <1>p, <1>12, RestartCases DEF At, Moves, MovesTo, Traced, PuttingBack, Inside, Back, disk
<1>13. CASE Verify(u, f)
  BY <1>0, <1>f, <1>p, <1>13, VerifyFacts DEF At, Moves, MovesTo, Traced, PuttingBack, Inside, Back, disk
<1>14. CASE VerifyRestored(u, f)
  BY <1>0, <1>f, <1>p, <1>14, VerifyRestoredFacts DEF At, Moves, MovesTo, Traced, PuttingBack, Inside, Back, disk
<1> QED
  BY <1>1, <1>2, <1>3, <1>4, <1>5, <1>6, <1>7, <1>8, <1>9, <1>10, <1>11, <1>12, <1>13, <1>14
     DEF Work

\* Who has been alone is traced.
LEMMA SoleStep ==
    ASSUME TypeInv, PlaceInv, SoleInv, [Next]_vars
    PROVE  SoleInv'
<1>i. Idle.step = "idle" /\ Idle.kind = "none"
  BY DEF Idle
<1>1. ASSUME NEW u \in Updaters, AskStep(u) PROVE SoleInv'
  <2>1. Ask(u) /\ sole' = (IF Others(u) THEN NoOne ELSE u)
    BY <1>1 DEF AskStep
  <2>2. CASE Others(u)
    BY <2>1, <2>2, NoOneIsNone DEF SoleInv
  <2>3. CASE ~Others(u)
    <3>1. /\ Only(u) /\ target \in Binaries /\ UNCHANGED <<disk, serving>>
          /\ my'[u].self = target /\ my'[u].before = <<target, prev, serving>>
          /\ \/ my'[u].kind = "update" /\ my'[u].step \in {"lock", "busy"}
             \/ my'[u].kind = "rollback" /\ my'[u].step = "back"
      BY <2>1, AskFacts
    <3>2. Alone(u)'
      BY <2>3, <3>1 DEF Others, Alone, Only, At
    <3>3. my'[u].kind = "update" => Traced(u)'
      BY <3>1 DEF Traced, disk, Inside
    <3>4. sole' = u
      BY <2>1, <2>3
    <3> QED
      BY <3>2, <3>3, <3>4 DEF SoleInv
  <2> QED
    BY <2>2, <2>3
<1>2. ASSUME NEW u \in Updaters, NEW f, WorkStep(u, f) PROVE SoleInv'
  <2>1. Work(u, f) /\ sole' = sole /\ hurt' = (hurt \/ (f # "none" /\ PuttingBack(u)))
    BY <1>2 DEF WorkStep
  <2>2. /\ Only(u) /\ ~At(u, "idle")
        /\ Ends(u) \/ my'[u].kind = my[u].kind
    BY <2>1, WorkType
  <2> SUFFICES ASSUME sole = u
               PROVE  Alone(u)' /\ (my'[u].kind = "update" /\ ~hurt' => Traced(u)')
    <3>1. \A v \in Updaters : sole = v => v = u
      BY <2>2 DEF SoleInv, Alone, At
    <3> QED
      BY <2>1, <3>1 DEF SoleInv
  <2>3. Alone(u)'
    BY <2>2 DEF SoleInv, Alone, Only
  <2>4. ASSUME my'[u].kind = "update", ~hurt' PROVE Traced(u)'
    <3>1. my[u].kind = "update" /\ ~hurt /\ ~(f # "none" /\ PuttingBack(u))
      BY <1>i, <2>1, <2>2, <2>4 DEF Ends
    <3>2. Traced(u)
      BY <3>1 DEF SoleInv
    <3>3. my'[u].step # "idle"
      <4>1. PlaceInv'
        BY PlaceStep
      <4> QED
        BY <2>4, <4>1 DEF PlaceInv
    <3> QED
      BY <2>1, <3>1, <3>2, <3>3, TracedWork
  <2> QED
    BY <2>3, <2>4
<1>3. ASSUME NEW u \in Updaters, Kill(u) PROVE SoleInv'
  <2>1. /\ Only(u) /\ my'[u] = Idle /\ UNCHANGED <<disk, serving, hurt>> /\ ~At(u, "idle")
        /\ sole' = IF sole = u THEN NoOne ELSE sole
    BY <1>3, EndFacts DEF Kill, Ends
  <2>2. \A v \in Updaters : sole = v => v = u
    BY <2>1 DEF SoleInv, Alone, At
  <2>3. \A v \in Updaters : sole' # v
    BY <2>1, <2>2, NoOneIsNone
  <2> QED
    BY <2>3 DEF SoleInv
<1>4. CASE Reboot
  BY <1>4, NoOneIsNone DEF SoleInv, Reboot
<1>5. CASE UNCHANGED <<disk, serving, my, sole, hurt>>
  BY <1>5 DEF SoleInv, Traced, Alone, disk
<1>6. CASE Publish \/ Deploy \/ UNCHANGED vars
  BY <1>5, <1>6 DEF Publish, Deploy, vars, disk
<1> QED
  BY <1>1, <1>2, <1>3, <1>4, <1>6 DEF Next

\* What a step that ends an update does.
LEMMA EndingStep ==
    ASSUME TypeInv, PlaceInv, SoleInv, [Next]_vars, NEW u \in Updaters,
           sole = u, my[u].kind = "update", my'[u].step = "idle", killed' = killed, ~hurt'
    PROVE  LET old == my[u].before[1]  r == my[u].release
           IN  \/ /\ target' = r /\ serving' = r /\ r \in Good /\ prev' = old
                  /\ my[u].force \/ (old # Dev /\ Newer(r, old))
               \/ target' = old /\ serving' \in {old, my[u].before[3]}
<1>0. my[u].step # "idle"
  BY DEF PlaceInv
<1>1. my'[u] # my[u]
  BY <1>0
<1>2. killed \in Nat
  BY UpdateBounds DEF TypeInv, TypeOK
<1>3. ASSUME NEW v \in Updaters, AskStep(v) PROVE FALSE
  <2>1. Only(v) /\ At(v, "idle")
    BY <1>3, AskFacts DEF AskStep
  <2> QED
    BY <1>0, <1>1, <2>1 DEF Only, At
<1>4. ASSUME NEW v \in Updaters, Kill(v) PROVE FALSE
  BY <1>2, <1>4 DEF Kill
<1>5. ~Reboot
  BY <1>2 DEF Reboot
<1>6. ~Publish /\ ~Deploy /\ ~UNCHANGED vars
  BY <1>1 DEF Publish, Deploy, vars
<1>7. PICK v \in Updaters, f \in Striking : WorkStep(v, f)
  BY <1>3, <1>4, <1>5, <1>6 DEF Next
<1>8. v = u
  <2>1. Only(v)
    BY <1>7, WorkType DEF WorkStep
  <2> QED
    BY <1>1, <2>1 DEF Only
<1>9. Work(u, f) /\ ~hurt /\ ~(f # "none" /\ PuttingBack(u))
  BY <1>7, <1>8 DEF WorkStep
<1>10. Traced(u)
  BY <1>9 DEF SoleInv
<1> QED
  BY <1>9, <1>10, TracedEnd

\* An update that nobody disturbed leaves its release installed, saved before, running
\* and up - or everything as it was -, for any order of versions.
THEOREM UpdatesAreAllOrNothing == Spec => UpdateIsAllOrNothing
<1>1. Init => SoleInv
  BY NoOneIsNone DEF Init, SoleInv
<1>2. TypeInv /\ PlaceInv /\ SoleInv /\ [Next]_vars => TypeInv' /\ PlaceInv' /\ SoleInv'
  BY TypeStep, PlaceStep, SoleStep
<1> DEFINE AllOrNothing ==
      \A u \in Updaters :
         sole = u /\ my[u].kind = "update" /\ my'[u].step = "idle" /\ killed' = killed /\ ~hurt' =>
           LET old == my[u].before[1]  r == my[u].release
           IN  \/ /\ target' = r /\ serving' = r /\ r \in Good /\ prev' = old
                  /\ my[u].force \/ (old # Dev /\ Newer(r, old))
               \/ target' = old /\ serving' \in {old, my[u].before[3]}
<1>3. TypeInv /\ PlaceInv /\ SoleInv /\ [Next]_vars => [AllOrNothing]_vars
  BY EndingStep
<1>4. Init /\ [][Next]_vars => [][AllOrNothing]_vars
  <2> HIDE DEF AllOrNothing
  <2> QED
    BY InitInv, <1>1, <1>2, <1>3, PTL
<1> QED
  BY <1>4 DEF Spec, UpdateIsAllOrNothing
================================================================================
