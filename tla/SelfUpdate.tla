------------------------------ MODULE SelfUpdate ------------------------------
(***************************************************************************)
(* space-elevator replaces its own binary: `space-elevator update`         *)
(* downloads the latest release, checks it, keeps the installed binary as  *)
(* <binary>.prev, renames the new one over it, restarts the service and    *)
(* puts the old one back if the new one does not come up; `update          *)
(* --rollback` puts the saved one back on request. Commands may run at the *)
(* same time and die between any two calls; the machine may reboot.        *)
(***************************************************************************)
EXTENDS Integers

CONSTANTS
    N,          \* how many releases there will be
    Version,    \* Version[r]: major, minor and patch of its tag
    Good,       \* the binaries that come up and answer when they are run
    Updaters,   \* command-line processes
    NoOne,      \* no process
    MaxAsked,   \* bound on the commands
    MaxFaults,  \* bound on the calls that fail
    MaxKills    \* bound on the processes that die, and on the reboots

Releases == 1..N  \* in the order they are published
Dev == 0    \* a build of no release
Torn == -1  \* a file that was written in part
None == -2  \* no file

ASSUME ReleasesAreNumbered == N \in Nat
ASSUME VersionsAreTriples == Version \in [Releases -> Nat \X Nat \X Nat]
ASSUME GoodBinaries == Good \subseteq Releases \cup {Dev}
ASSUME NoOneIsNone == NoOne \notin Updaters
ASSUME UpdateBounds == MaxAsked \in Nat /\ MaxFaults \in Nat /\ MaxKills \in Nat

VARIABLES
    target,     \* the binary of the service's unit
    prev,       \* <binary>.prev
    serving,    \* what the service was last started from
    latest,     \* the latest published release; 0 if there is none
    lock,       \* who holds the flock on update.lock
    deploying,  \* an operation is active in the service
    my,         \* my[u]: what the process does next, and its variables
    asked, struck, killed,  \* how many commands, failed calls, deaths
    sole,       \* history: who has been alone since it began
    hurt,       \* history: it met a failure while it put the old binary back
    careful     \* history: see Careful

disk == <<target, prev>>
bounds == <<asked, struck, killed>>
vars == <<target, prev, serving, latest, lock, deploying, my, bounds, sole, hurt, careful>>

Binaries == Releases \cup {Dev}
Idle == [step |-> "idle", kind |-> "none", force |-> FALSE, self |-> Dev, release |-> Dev,
         copy |-> None, before |-> <<Dev, None, Dev>>]
Steps == {"idle", "busy", "lock", "look", "stage", "smoke", "save", "save_rest", "install",
          "rehash", "restart", "verify", "mend", "mend_rename", "undo", "undo_rename",
          "undo_restart", "undo_verify", "back", "back_rename", "back_restart", "back_verify"}
Faults == {"none", "database", "network", "checksum", "smoke", "disk", "restart", "timeout"}
Files == Binaries \cup {Torn, None}

TypeOK ==
    /\ target \in Files /\ prev \in Files /\ serving \in Files
    /\ latest \in Releases \cup {0} /\ lock \in Updaters \cup {NoOne}
    /\ {deploying, hurt, careful} \subseteq BOOLEAN
    /\ \A u \in Updaters :
         /\ my[u].step \in Steps /\ my[u].kind \in {"none", "update", "rollback"}
         /\ my[u].force \in BOOLEAN /\ my[u].self \in Files /\ my[u].release \in Binaries
         /\ my[u].copy \in Files
         /\ my[u].step \in {"stage", "smoke", "save", "save_rest", "install"} => my[u].release \in Releases
    /\ asked \in 0..MaxAsked /\ struck \in 0..MaxFaults /\ killed \in 0..MaxKills
    /\ sole \in Updaters \cup {NoOne}

\* A service that runs the installed binary; what was saved is from an update.
Init ==
    /\ target \in Good /\ serving = target
    /\ prev \in {None} \cup (Good \ {target})
    /\ latest \in Releases \cup {0}
    /\ lock = NoOne /\ deploying = FALSE
    /\ my = [u \in Updaters |-> Idle]
    /\ asked = 0 /\ struck = 0 /\ killed = 0
    /\ sole = NoOne /\ hurt = FALSE /\ careful = TRUE

----------------------------------------------------------------------------
(* The command                                                              *)

At(u, step) == my[u].step = step
Go(u, step) == my' = [my EXCEPT ![u].step = step]

\* The flock goes with the process, however it ends.
End(u) == /\ my' = [my EXCEPT ![u] = Idle]
          /\ lock' = IF lock = u THEN NoOne ELSE lock

\* Newer by major, then minor, then patch; only releases can be compared.
Newer(r, self) ==
    LET v == Version[r]  w == Version[self]
    IN  \E i \in 1..3 : v[i] > w[i] /\ \A j \in 1..(i-1) : v[j] = w[j]

\* The command is the installed binary, which must be one that can be run.
Command(kind, force, step) ==
    [step |-> step, kind |-> kind, force |-> force, self |-> target, release |-> Dev,
     copy |-> None, before |-> <<target, prev, serving>>]

Ask(u) ==
    /\ At(u, "idle") /\ target \in Binaries
    /\ \/ \E force \in BOOLEAN :
            my' = [my EXCEPT ![u] = Command("update", force, IF force THEN "lock" ELSE "busy")]
       \/ my' = [my EXCEPT ![u] = Command("rollback", FALSE, "back")]
    /\ UNCHANGED <<disk, serving, lock, deploying>>

\* An active operation refuses the update; this is before the lock.
CheckBusy(u, f) ==
    /\ At(u, "busy") /\ f \in {"none", "database"}
    /\ IF f = "database" \/ deploying THEN End(u) ELSE Go(u, "lock") /\ UNCHANGED lock
    /\ UNCHANGED <<disk, serving, deploying>>

AcquireUpdateLock(u, f) ==
    /\ At(u, "lock") /\ f = "none"
    /\ IF lock = NoOne THEN lock' = u /\ Go(u, "look") ELSE End(u)
    /\ UNCHANGED <<disk, serving, deploying>>

\* Faulty: no release is taken for one.
LookUnpublished(u, f) ==
    /\ At(u, "look") /\ f = "none" /\ my[u].force /\ target # latest
    /\ my' = [my EXCEPT ![u].step = "stage", ![u].release = latest]
    /\ UNCHANGED <<disk, serving, lock, deploying>>

\* Not the installed binary, and newer than this process unless it is forced.
Wanted(u) ==
    /\ target # latest
    /\ my[u].force \/ (my[u].self # Dev /\ Newer(latest, my[u].self))

\* The latest release with its asset and checksum; then the preflight.
Look(u, f) ==
    /\ At(u, "look") /\ f \in {"none", "network", "disk"}
    /\ IF f = "none" /\ latest # 0 /\ Wanted(u)
       THEN /\ my' = [my EXCEPT ![u].step = "stage", ![u].release = latest]
            /\ UNCHANGED lock
       ELSE End(u)
    /\ UNCHANGED <<disk, serving, deploying>>

\* The asset goes to a file of its own beside the target and is hashed on the way.
Stage(u, f) ==
    /\ At(u, "stage") /\ f \in {"none", "network", "disk", "checksum"}
    /\ IF f = "none"
       THEN my' = [my EXCEPT ![u].step = "smoke", ![u].copy = my[u].release] /\ UNCHANGED lock
       ELSE End(u)
    /\ UNCHANGED <<disk, serving, deploying>>

SmokeTest(u, f) ==
    /\ At(u, "smoke") /\ f \in {"none", "smoke"}
    /\ IF f = "none" THEN Go(u, "save") /\ UNCHANGED lock ELSE End(u)
    /\ UNCHANGED <<disk, serving, deploying>>

----------------------------------------------------------------------------
(* Commit and Restore                                                       *)

\* Faulty: the new binary is in place before the old one is saved.
InstallFirst(u, f) ==
    /\ At(u, "save") /\ f = "none"
    /\ target' = my[u].copy /\ prev' = Torn
    /\ my' = [my EXCEPT ![u].step = "save_rest", ![u].self = target]
    /\ UNCHANGED <<serving, lock, deploying>>

\* The saved binary is truncated and written where it is, from the target as it
\* was opened.
Save(u, f) ==
    /\ At(u, "save") /\ f \in {"none", "disk"}
    /\ IF f = "none" THEN /\ prev' = Torn
                          /\ my' = [my EXCEPT ![u].step = "save_rest", ![u].self = target]
                          /\ UNCHANGED lock
       ELSE End(u) /\ UNCHANGED prev
    /\ UNCHANGED <<target, serving, deploying>>

SaveRest(u, f) ==
    /\ At(u, "save_rest") /\ f \in {"none", "disk"}
    /\ IF f = "none" THEN prev' = my[u].self /\ Go(u, "install") /\ UNCHANGED lock
       ELSE UNCHANGED prev /\ End(u)
    /\ UNCHANGED <<target, serving, deploying>>

Install(u, f) ==
    /\ At(u, "install") /\ f \in {"none", "disk"}
    /\ IF f = "none" THEN target' = my[u].copy /\ Go(u, "rehash") /\ UNCHANGED lock
       ELSE UNCHANGED target /\ End(u)
    /\ UNCHANGED <<prev, serving, deploying>>

\* Something else than what was verified is taken back, without a restart; a
\* target that cannot be read ends the command as it is.
Rehash(u, f) ==
    /\ At(u, "rehash") /\ f \in {"none", "disk"}
    /\ IF f = "disk" THEN End(u)
       ELSE Go(u, IF target = my[u].release THEN "restart" ELSE "mend") /\ UNCHANGED lock
    /\ UNCHANGED <<disk, serving, deploying>>

\* Restore is called in three places, and its two calls have a step in each.
Renaming(way) == CASE way = "mend" -> "mend_rename"
                   [] way = "undo" -> "undo_rename"
                   [] way = "back" -> "back_rename"
Restarting(way) == CASE way = "update" -> "restart"
                     [] way = "undo"   -> "undo_restart"
                     [] way = "back"   -> "back_restart"
Verifying(way) == CASE way = "update" -> "verify"
                    [] way = "undo"   -> "undo_verify"
                    [] way = "back"   -> "back_verify"

\* Restore copies the saved binary to a file of its own and renames that over
\* the target: after a wrong hash, after a failed restart, and for --rollback.
RestoreCopy(u, f) ==
    \E way \in {"mend", "undo", "back"} :
        /\ At(u, way) /\ f \in {"none", "disk"}
        /\ IF f = "none" /\ prev # None
           THEN /\ my' = [my EXCEPT ![u].step = Renaming(way), ![u].copy = prev]
                /\ UNCHANGED lock
           ELSE End(u)
        /\ UNCHANGED <<disk, serving, deploying>>

\* Faulty: only the file is put back.
RestoreRenameOnly(u, f) ==
    /\ At(u, "undo_rename") /\ f = "none" /\ target' = my[u].copy /\ End(u)
    /\ UNCHANGED <<prev, serving, deploying>>

RestoreRename(u, f) ==
    \E way \in {"mend", "undo", "back"} :
        /\ At(u, Renaming(way)) /\ f \in {"none", "disk"}
        /\ target' = IF f = "none" THEN my[u].copy ELSE target
        /\ IF f = "none" /\ way # "mend" THEN Go(u, Restarting(way)) /\ UNCHANGED lock
           ELSE End(u)
        /\ UNCHANGED <<prev, serving, deploying>>

----------------------------------------------------------------------------
(* Restart and health check                                                 *)

\* The service is restarted from the target, and its next start interrupts what
\* it was working on.
Restart(u, f) ==
    \E way \in {"update", "undo", "back"} :
        /\ At(u, Restarting(way)) /\ f \in {"none", "restart"}
        /\ IF f = "none"
           THEN /\ serving' = target /\ deploying' = FALSE
                /\ Go(u, Verifying(way)) /\ UNCHANGED lock
           ELSE /\ UNCHANGED <<serving, deploying>>
                /\ IF way = "update" THEN Go(u, "undo") /\ UNCHANGED lock ELSE End(u)
        /\ UNCHANGED disk

\* Active, and answering within thirty seconds.
Verify(u, f) ==
    /\ At(u, "verify") /\ f \in {"none", "timeout"}
    /\ IF f = "none" /\ serving \in Good THEN End(u) ELSE Go(u, "undo") /\ UNCHANGED lock
    /\ UNCHANGED <<disk, serving, deploying>>

\* The outcome after the old binary was put back is only reported.
VerifyRestored(u, f) ==
    /\ At(u, "undo_verify") \/ At(u, "back_verify")
    /\ f \in {"none", "timeout"} /\ End(u)
    /\ UNCHANGED <<disk, serving, deploying>>

Work(u, f) ==
    \/ CheckBusy(u, f) \/ AcquireUpdateLock(u, f) \/ Look(u, f) \/ Stage(u, f) \/ SmokeTest(u, f)
    \/ Save(u, f) \/ SaveRest(u, f) \/ Install(u, f) \/ Rehash(u, f)
    \/ RestoreCopy(u, f) \/ RestoreRename(u, f)
    \/ Restart(u, f) \/ Verify(u, f) \/ VerifyRestored(u, f)

----------------------------------------------------------------------------
(* The world around                                                         *)

Others(u) == \E v \in Updaters \ {u} : ~At(v, "idle")

\* History: nobody updates a binary that does not come up, nobody rolls back to
\* a file that is none, and --rollback, which takes no lock, has nobody beside it.
Careful(u) ==
    /\ my'[u].kind = "rollback" => prev \in Good /\ ~Others(u)
    /\ \A v \in Updaters : my[v].kind # "rollback"

AskStep(u) ==
    /\ asked < MaxAsked /\ asked' = asked + 1
    /\ Ask(u)
    /\ sole' = (IF Others(u) THEN NoOne ELSE u) /\ hurt' = FALSE
    /\ careful' = (careful /\ Careful(u))
    /\ UNCHANGED <<latest, struck, killed>>

PuttingBack(u) == my[u].step \in {"rehash", "mend", "mend_rename", "undo", "undo_rename",
                                 "undo_restart", "undo_verify"}

WorkStep(u, f) ==
    /\ Work(u, f)
    /\ struck' = IF f = "none" THEN struck ELSE struck + 1
    /\ hurt' = (hurt \/ (f # "none" /\ PuttingBack(u)))
    /\ careful' = (careful /\ (my'[u].step = "stage" => target \in Good))
    /\ UNCHANGED <<latest, asked, killed, sole>>

Kill(u) ==
    /\ killed < MaxKills /\ killed' = killed + 1
    /\ ~At(u, "idle") /\ End(u)
    /\ sole' = IF sole = u THEN NoOne ELSE sole
    /\ UNCHANGED <<disk, serving, latest, deploying, asked, struck, hurt, careful>>

Reboot ==
    /\ killed < MaxKills /\ killed' = killed + 1
    /\ my' = [u \in Updaters |-> Idle] /\ lock' = NoOne
    /\ serving' = target /\ deploying' = FALSE
    /\ sole' = NoOne
    /\ UNCHANGED <<disk, latest, asked, struck, hurt, careful>>

Publish ==
    /\ latest + 1 \in Releases /\ latest' = latest + 1
    /\ UNCHANGED <<disk, serving, lock, deploying, my, bounds, sole, hurt, careful>>

Deploy ==
    /\ \/ ~deploying /\ serving \in Good /\ deploying' = TRUE
       \/ deploying /\ deploying' = FALSE
    /\ UNCHANGED <<disk, serving, latest, lock, my, bounds, sole, hurt, careful>>

\* What can strike a call: nothing more once the bound is reached.
Striking == IF struck < MaxFaults THEN Faults ELSE {"none"}

Next ==
    \/ \E u \in Updaters : AskStep(u)
    \/ \E u \in Updaters, f \in Striking : WorkStep(u, f)
    \/ \E u \in Updaters : Kill(u)
    \/ Reboot \/ Publish \/ Deploy

Spec == Init /\ [][Next]_vars

----------------------------------------------------------------------------
(* Properties                                                               *)

\* Whatever fails, and whenever a process or the machine dies: at every moment
\* the unit's binary is a whole file, and either it or the one saved beside it
\* comes up - unless an update found a binary that does not come up, as one that
\* died leaves it, or someone used --rollback beside another command or with a
\* saved file that is none. Two updates at the same time are kept apart by the lock.
AWayBack ==
    careful => /\ target \in Binaries
               /\ target \in Good \/ prev \in Good

\* An update that nobody disturbed ends in one of two ways. Either the release
\* is installed and runs, it comes up, it was asked for by force or is newer than
\* what was there, and that was saved; or the binary is the one from before,
\* and so is what runs. Excepted is a failure while the old one is put back.
UpdateIsAllOrNothing ==
    [][\A u \in Updaters :
         sole = u /\ my[u].kind = "update" /\ my'[u].step = "idle" /\ killed' = killed /\ ~hurt' =>
           LET old == my[u].before[1]  r == my[u].release
           IN  \/ /\ target' = r /\ serving' = r /\ r \in Good /\ prev' = old
                  /\ my[u].force \/ (old # Dev /\ Newer(r, old))
               \/ target' = old /\ serving' \in {old, my[u].before[3]}]_vars
================================================================================
