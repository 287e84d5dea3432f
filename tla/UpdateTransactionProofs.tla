------------------------ MODULE UpdateTransactionProofs ------------------------
(***************************************************************************)
(* Proofs about UpdateTransaction for any number of releases and services  *)
(* and any faults.                                                         *)
(***************************************************************************)
EXTENDS UpdateTransaction, TLAPS

----------------------------------------------------------------------------
(* What the runtime's calls leave behind                                    *)

\* A set of containers with at least one of them has a source and secrets.
LEMMA ContainersType ==
    ASSUME NEW r \in Sources, NEW e \in Versions, NEW m \in 0..N, NEW u \in 0..N, u <= m
    PROVE  Containers(r, e, m, u) \in ContainerSets
BY NIsPositive, NamesDiffer DEF Containers, NoContainers, ContainerSets, Sources, Versions

\* So has the empty one, neither.
LEMMA NoContainersType == NoContainers \in ContainerSets
BY NIsPositive DEF NoContainers, ContainerSets

\* Activating or redeploying makes a proper set of containers, whole or cut short.
LEMMA AllCreatedType ==
    ASSUME NEW r \in Sources, NEW e \in Versions
    PROVE  /\ AllCreated(r, e) \subseteq ContainerSets
           /\ SomeCreated(r, e) \subseteq ContainerSets
           /\ Containers(r, e, N, N) \in ContainerSets
<1>1. \A m, u \in 0..N : u <= m => Containers(r, e, m, u) \in ContainerSets
  BY ContainersType
<1>2. \A m, u \in 0..N :
         Containers(r, e, m, u).up <= Containers(r, e, m, u).made
           => Containers(r, e, m, u) \in ContainerSets
  BY <1>1, NoContainersType, NIsPositive DEF Containers
<1>3. \A u \in 0..N : u <= N
  BY NIsPositive
<1> QED
  BY <1>1, <1>2, <1>3, NIsPositive DEF AllCreated, SomeCreated

\* Starting and stopping change how many containers run, and nothing else.
LEMMA StartStopType ==
    ASSUME NEW c \in ContainerSets
    PROVE  /\ AllStarted(c) \in ContainerSets /\ AllStarted(c).made = c.made
           /\ AllStopped(c) \in ContainerSets /\ AllStopped(c).made = c.made
           /\ AllStopped(c).up = 0
           /\ \A d \in SomeStarted(c) : d \in ContainerSets /\ d.made = c.made
           /\ \A d \in SomeStopped(c) : d \in ContainerSets /\ d.made = c.made
BY NIsPositive DEF ContainerSets, AllStarted, AllStopped, SomeStarted, SomeStopped

\* A removal cut short leaves a proper set of containers.
LEMMA SomeRemovedType ==
    ASSUME NEW c \in ContainerSets
    PROVE  SomeRemoved(c) \subseteq ContainerSets
<1>1. ASSUME NEW m \in 1..c.made, NEW u \in 0..c.up, Containers(c.rel, c.env, m, u).up <= Containers(c.rel, c.env, m, u).made
      PROVE  Containers(c.rel, c.env, m, u) \in ContainerSets
  <2>1. /\ c.made \in 0..N /\ c.up \in 0..N
        /\ c.made # 0
        /\ c.rel \in Sources /\ c.env \in Versions
    BY NIsPositive DEF ContainerSets
  <2>2. m \in 0..N /\ u \in 0..N /\ u <= m
    BY <1>1, <2>1, NIsPositive DEF Containers
  <2> QED
    BY <2>1, <2>2, ContainersType
<1> QED
  BY <1>1 DEF SomeRemoved

----------------------------------------------------------------------------
(* Types                                                                    *)

\* The statuses this transaction writes, by kind.
LEMMA StatusTypes ==
    /\ {"preflighting", "building", "backing_up", "cutting_over", "verifying"}
         \subseteq ActiveStatuses
    /\ {"completed", "failed", "rolled_back", "rollback_failed"} \subseteq TerminalStatuses
BY DEF ActiveStatuses, TerminalStatuses

\* What the way back records is a proper outcome.
LEMMA RecoveryType ==
    ASSUME NEW t \in Txs
    PROVE  /\ Recovery(t) \in Txs /\ Recovery(t).cand = t.cand /\ Recovery(t).app = t.app
           /\ Recovery(t).recovered \in {"no", "running", "stopped"}
<1> DEFINE w == IF t.errs \cap {"secret", "runtime", "state", "restart"} # {} THEN "no"
                ELSE IF t.weStopped THEN "running" ELSE "stopped"
<1>1. w \in {"no", "running", "stopped"}
  OBVIOUS
<1>2. Recovery(t) = [t EXCEPT !.recovered = w]
  BY DEF Recovery
<1> QED
  BY <1>1, <1>2 DEF Txs

\* Every app an update may find is typed.
LEMMA InitType == Init => TypeOK
<1> SUFFICES ASSUME Init PROVE TypeOK
  OBVIOUS
<1>1. Base \in Sources /\ Base \in Versions
  BY DEF Sources, Versions
<1>2. row \in Rows /\ ctr \in ContainerSets /\ route \in RouteStates
  <2>1. PICK r \in {[status |-> s, current |-> None, compose |-> c] :
                      s \in {"running", "stopped", "error"}, c \in {Base, Bad}},
             u \in 0..N, m \in {0, N} :
          /\ row = r
          /\ ctr = Containers(Base, Base, m, u)
          /\ route = IF m = 0 \/ u = 0 THEN "none" ELSE "synced"
          /\ m = 0 => u = 0
    BY DEF Init
  <2>2. row \in Rows
    BY <1>1, <2>1 DEF Rows, RowStatuses
  <2>3. ctr \in ContainerSets
    BY <1>1, <2>1, ContainersType, NIsPositive
  <2>4. route \in RouteStates
    BY <2>1 DEF RouteStates
  <2> QED
    BY <2>2, <2>3, <2>4
<1>3. row \in Rows
  BY <1>2
<1>4. tx \in Txs
  <2>1. tx = [cand |-> None, web |-> FALSE, app |-> row, old |-> None,
              oldStorage |-> Base, undo |-> None, weStopped |-> FALSE,
              recovered |-> "no", errs |-> {}]
    BY DEF Init
  <2> QED
    BY <1>1, <1>3, <2>1 DEF Txs
<1>5. before = [row |-> row, ctr |-> ctr, secrets |-> secrets, storage |-> storage,
                route |-> route]
  BY DEF Init
<1>6. /\ op = "none" /\ pc = "idle" /\ ctxDone = FALSE
      /\ release = [r \in Releases |-> "absent"]
      /\ backup = [r \in Releases |-> "none"]
      /\ secrets = Base /\ storage = Base
  BY DEF Init
<1>7. release \in [Releases -> {"absent", "preparing", "running", "failed"}]
  BY <1>6
<1>8. backup \in [Releases -> {"none", "cold", "hot"}]
  BY <1>6
<1>9. before \in [row : Rows, ctr : ContainerSets, secrets : Versions,
                  storage : Versions, route : RouteStates]
  BY <1>1, <1>2, <1>5, <1>6
<1>10. secrets \in Versions /\ storage \in Versions
  BY <1>1, <1>6
<1>11. /\ pc \in Steps /\ ctxDone \in BOOLEAN
       /\ op \in ActiveStatuses \cup TerminalStatuses \cup {"none"}
  BY <1>6 DEF Steps
<1> QED
  BY <1>2, <1>4, <1>7, <1>8, <1>9, <1>10, <1>11 DEF TypeOK

\* While an update runs it has a release of its own, and a previous release
\* is only rebuilt where there is one.
TypeInv ==
    /\ TypeOK
    /\ pc # "idle" => cand \in Releases
    /\ pc = "undo_deploy" => tx.old # None

\* A running update does not change the release it makes, and reads the app
\* row once.
TxKept ==
    /\ pc # "idle" => tx'.cand = cand
    /\ pc \notin {"idle", "load"} => tx'.app = tx.app

\* Every action, one after the other.
LEMMA TypeStep ==
    ASSUME TypeInv, [Next]_vars
    PROVE  TypeInv' /\ TxKept
<1> USE StatusTypes DEF TypeInv, TypeOK, Errors, cand, TxKept
<1>0. cand \in Releases => cand \in Sources /\ cand \in Versions
  BY DEF Sources, Versions
<1>d. tx.old # None => tx.old \in Sources
  BY DEF Txs
<1>a. \A S : S \subseteq ContainerSets => After(S) \subseteq ContainerSets
  BY DEF After
<1>r. \A c : RouteAfter(c) \in RouteStates
  BY DEF RouteAfter, Severed, RouteStates
<1>f. ASSUME NEW s \in TerminalStatuses, Finished(s)
      PROVE  op' \in ActiveStatuses \cup TerminalStatuses \cup {"none"}
  BY <1>f DEF Finished
<1>s. ASSUME NEW next, NEW t \in Txs, SecretsBack(next, t)
      PROVE  secrets' \in Versions /\ tx' \in Txs /\ tx'.cand = t.cand /\ tx'.app = t.app /\ pc' = next
  <2>1. tx.undo \in Versions \cup {None} /\ Mixed \in Versions
    BY DEF Txs, Versions
  <2>2. secrets' \in Versions /\ pc' = next
    BY <1>s, <2>1 DEF SecretsBack, GotoWith
  <2>3. \/ tx' = t
        \/ tx' = [t EXCEPT !.undo = None]
        \/ tx' = [t EXCEPT !.errs = @ \cup {"secret"}, !.recovered = "no"]
    BY <1>s DEF SecretsBack, GotoWith
  <2>4. CASE tx' = t
    BY <2>2, <2>4
  <2>5. CASE tx' = [t EXCEPT !.undo = None]
    BY <2>2, <2>5 DEF Txs
  <2>6. CASE tx' = [t EXCEPT !.errs = @ \cup {"secret"}, !.recovered = "no"]
    BY <2>2, <2>6 DEF Txs
  <2> QED
    BY <2>3, <2>4, <2>5, <2>6
<1>1. ASSUME NEW r \in Releases, SubmitWeb(r)
      PROVE  TypeInv' /\ TxKept
  BY <1>1 DEF SubmitWeb, Fresh, Found, Txs, Rows, RowStatuses, Steps, WayForward, world
<1>2. ASSUME NEW r \in Releases, SubmitCli(r)
      PROVE  TypeInv' /\ TxKept
  BY <1>2 DEF SubmitCli, Fresh, Found, Txs, Steps, WayForward, world
<1>3. ASSUME Load
      PROVE  TypeInv' /\ TxKept
  BY <1>3, <1>0 DEF Load, Goto, GotoWith, Txs, Steps, WayForward, WayOut, db, world
<1>4. ASSUME Mark
      PROVE  TypeInv' /\ TxKept
  BY <1>4, <1>0 DEF Mark, Goto, Txs, Rows, RowStatuses, Steps, WayForward, WayOut, world
<1>5. ASSUME Preflight
      PROVE  TypeInv' /\ TxKept
  <2>1. tx' \in Txs /\ tx'.cand = cand /\ tx'.app = tx.app /\ pc' \in {"secrets", "fail_secrets"}
    <3>1. CASE Fail
      BY <3>1 DEF Fail, GotoWith, WithError, Txs
    <3>2. CASE \E o \in OldReleases :
                 GotoWith("secrets", [tx EXCEPT !.old = o, !.oldStorage = storage])
      <4>1. OldReleases \subseteq Sources \cup {None}
        BY DEF OldReleases, OldFromRow, Rows, Sources
      <4> QED
        BY <3>2, <4>1 DEF GotoWith, Txs
    <3> QED
      BY <1>5, <3>1, <3>2 DEF Preflight
  <2> QED
    BY <1>5, <2>1 DEF Preflight, Steps, WayForward, WayOut, world
<1>6. ASSUME SetSecrets
      PROVE  TypeInv' /\ TxKept
  <2>1. secrets' \in Versions
    BY <1>6, <1>0 DEF SetSecrets, Versions
  <2>2. tx' \in Txs /\ tx'.cand = cand /\ tx'.app = tx.app /\ pc' \in {"build", "fail_secrets"}
    <3>1. \/ tx' = tx \/ tx' = [tx EXCEPT !.undo = secrets]
          \/ tx' = WithError("other") \/ tx' = [WithError("other") EXCEPT !.undo = secrets]
      BY <1>6 DEF SetSecrets, Goto, GotoWith, Fail
    <3>2. tx' \in Txs /\ tx'.cand = cand /\ tx'.app = tx.app
      <4>1. WithError("other") \in Txs /\ WithError("other").cand = cand /\ WithError("other").app = tx.app
        BY DEF WithError, Txs
      <4>2. CASE tx' = tx \/ tx' = WithError("other")
        BY <4>1, <4>2
      <4>3. CASE tx' = [tx EXCEPT !.undo = secrets]
        BY <4>3 DEF Txs
      <4>4. CASE tx' = [WithError("other") EXCEPT !.undo = secrets]
        BY <4>1, <4>4 DEF Txs
      <4> QED
        BY <3>1, <4>2, <4>3, <4>4
    <3> QED
      BY <1>6, <3>2 DEF SetSecrets, Goto, GotoWith, Fail
  <2> QED
    BY <1>6, <2>1, <2>2 DEF SetSecrets, Steps, WayForward, WayOut, world
<1>7. ASSUME Build
      PROVE  TypeInv' /\ TxKept
  BY <1>7, <1>0 DEF Build, Goto, GotoWith, Fail, WithError, Txs, Announced,
     NotAnnounced, Steps, WayForward, WayOut, world
<1>8. ASSUME Inspect
      PROVE  TypeInv' /\ TxKept
  <2>1. tx' \in Txs /\ tx'.cand = cand /\ tx'.app = tx.app
    <3>1. \/ tx' = WithError("other")
          \/ \E b \in BOOLEAN : tx' = [tx EXCEPT !.weStopped = b]
      BY <1>8 DEF Inspect, GotoWith, Fail, MustStop
    <3>2. ASSUME NEW b \in BOOLEAN, tx' = [tx EXCEPT !.weStopped = b]
          PROVE  tx' \in Txs /\ tx'.cand = cand /\ tx'.app = tx.app
      BY <3>2 DEF Txs
    <3>3. CASE tx' = WithError("other")
      BY <3>3 DEF WithError, Txs
    <3> QED
      BY <3>1, <3>2, <3>3
  <2> QED
    BY <1>8, <2>1 DEF Inspect, GotoWith, Fail, Announced, NotAnnounced, Steps,
       WayForward, WayOut, world
<1>9. ASSUME Stop
      PROVE  TypeInv' /\ TxKept
  <2>1. ctr' \in ContainerSets
    BY <1>9, <1>a, StartStopType DEF Stop
  <2>2. route' \in RouteStates
    BY <1>9, <1>r DEF Stop, db
  <2> QED
    BY <1>9, <2>1, <2>2 DEF Stop, Goto, GotoWith, Fail, WithError, Txs, Steps,
       WayForward, WayOut, db
<1>10. ASSUME Backup
      PROVE  TypeInv' /\ TxKept
  BY <1>10, <1>0 DEF Backup, BackupTaken, Goto, GotoWith, WithError, Txs, Steps, WayForward, WayBack, db
<1>11. ASSUME Cutover
      PROVE  TypeInv' /\ TxKept
  BY <1>11, <1>0 DEF Cutover, Goto, GotoWith, Fail, WithError, Txs, Announced,
     NotAnnounced, Steps, WayForward, WayOut, world
<1>12. ASSUME Remove
      PROVE  TypeInv' /\ TxKept
  <2>1. ctr' \in ContainerSets
    BY <1>12, <1>a, NoContainersType, SomeRemovedType DEF Remove
  <2>2. route' \in RouteStates
    BY <1>12, <1>r DEF Remove, db
  <2> QED
    BY <1>12, <2>1, <2>2 DEF Remove, Goto, GotoWith, RollBack, WithError, Txs, Steps,
       WayForward, WayBack, db
<1>13. ASSUME Activate
      PROVE  TypeInv' /\ TxKept
  <2>1. ctr' \in ContainerSets
    BY <1>13, <1>a, AllCreatedType, <1>0 DEF Activate
  <2>2. route' \in RouteStates
    BY <1>13, <1>r DEF Activate, db
  <2> QED
    BY <1>13, <2>1, <2>2 DEF Activate, Goto, GotoWith, RollBack, WithError, Txs,
       Steps, WayForward, WayBack, db
<1>14. ASSUME Verify
      PROVE  TypeInv' /\ TxKept
  BY <1>14, <1>0 DEF Verify, Goto, GotoWith, RollBack, WithError, Txs, Announced,
     NotAnnounced, Steps, WayForward, WayBack, world
<1>15. ASSUME Publish
      PROVE  TypeInv' /\ TxKept
  BY <1>15, <1>0 DEF Publish, Goto, GotoWith, RollBack, WithError, Txs, RouteStates,
     Steps, WayForward, WayBack, db
<1>16. ASSUME CommitRelease
      PROVE  TypeInv' /\ TxKept
  BY <1>16, <1>0 DEF CommitRelease, Goto, GotoWith, RollBack, WithError, Txs, Steps,
     WayForward, WayBack, world
<1>17. ASSUME CommitRow
      PROVE  TypeInv' /\ TxKept
  BY <1>17, <1>0 DEF CommitRow, Goto, GotoWith, RollBack, WithError, Txs, Rows,
     RowStatuses, Steps, WayForward, WayBack, world
<1>18. ASSUME CommitCurrent
      PROVE  TypeInv' /\ TxKept
  BY <1>18, <1>0 DEF CommitCurrent, Goto, GotoWith, RollBack, WithError, Txs, Rows,
     Steps, WayForward, WayBack, world
<1>19. ASSUME CommitStorage
      PROVE  TypeInv' /\ TxKept
  BY <1>19, <1>0 DEF CommitStorage, Goto, GotoWith, RollBack, WithError, Txs, Versions,
     Steps, WayForward, WayBack, world
<1>20. ASSUME Complete
      PROVE  TypeInv' /\ TxKept
  BY <1>20, <1>0, <1>f DEF Complete, GotoWith, Txs, Steps, WayForward, WayOut, world
<1>21. ASSUME ResumeSecrets
      PROVE  TypeInv' /\ TxKept
  <2>1. secrets' \in Versions /\ tx' \in Txs /\ tx'.cand = cand /\ tx'.app = tx.app /\ pc' = "resume_start"
    BY <1>21, <1>s DEF ResumeSecrets
  <2> QED
    BY <1>21, <2>1 DEF ResumeSecrets, Steps, WayBack, world
<1>22. ASSUME ResumeStart
      PROVE  TypeInv' /\ TxKept
  <2>1. ctr' \in ContainerSets
    BY <1>22, <1>a, StartStopType DEF ResumeStart
  <2>2. route' \in RouteStates
    BY <1>22, <1>r DEF ResumeStart, db
  <2> QED
    BY <1>22, <2>1, <2>2 DEF ResumeStart, GotoWith, WithError, Recovery, Txs, Steps,
       WayBack, WayOut, db
<1>23. ASSUME UndoSecrets
      PROVE  TypeInv' /\ TxKept
  <2>1. secrets' \in Versions /\ tx' \in Txs /\ tx'.cand = cand /\ tx'.app = tx.app /\ pc' = "undo_remove"
    BY <1>23, <1>s DEF UndoSecrets
  <2> QED
    BY <1>23, <2>1 DEF UndoSecrets, Steps, WayBack, world
<1>24. ASSUME UndoRemove
      PROVE  TypeInv' /\ TxKept
  <2>1. ctr' \in ContainerSets
    BY <1>24, <1>a, NoContainersType, SomeRemovedType DEF UndoRemove
  <2>2. route' \in RouteStates
    BY <1>24, <1>r DEF UndoRemove, db
  <2> QED
    BY <1>24, <2>1, <2>2 DEF UndoRemove, Goto, GotoWith, WithError, Txs, Steps, WayBack, db
<1>25. ASSUME UndoDeploy
      PROVE  TypeInv' /\ TxKept
  <2>1. ctr' \in ContainerSets
    BY <1>25, <1>a, AllCreatedType, <1>d DEF UndoDeploy
  <2>2. route' \in RouteStates
    BY <1>25, <1>r DEF UndoDeploy, db
  <2> QED
    BY <1>25, <2>1, <2>2 DEF UndoDeploy, Goto, GotoWith, WithError, Txs, Steps, WayBack, db
<1>26. ASSUME UndoStorage
      PROVE  TypeInv' /\ TxKept
  BY <1>26, <1>0 DEF UndoStorage, Goto, GotoWith, WithError, Txs, Versions, Steps,
     WayBack, world
<1>27. ASSUME UndoRow
      PROVE  TypeInv' /\ TxKept
  BY <1>27, <1>0 DEF UndoRow, Goto, GotoWith, WithError, Txs, Steps, WayBack, WayOut, world
<1>28. ASSUME UndoRoute
      PROVE  TypeInv' /\ TxKept
  <2>1. \/ tx' = WithError("state") \/ tx' = Recovery(tx)
        \/ tx' = [Recovery(tx) EXCEPT !.recovered = "no"]
        \/ tx' = [Recovery(tx) EXCEPT !.recovered = Recovery(tx).recovered]
    BY <1>28 DEF UndoRoute, GotoWith
  <2>2. tx' \in Txs /\ tx'.cand = cand /\ tx'.app = tx.app
    <3>1. Recovery(tx) \in Txs /\ Recovery(tx).cand = cand /\ Recovery(tx).app = tx.app
      BY RecoveryType
    <3>2. CASE tx' = WithError("state")
      BY <3>2 DEF WithError, Txs
    <3>3. CASE tx' = Recovery(tx)
      BY <3>1, <3>3
    <3>4. CASE tx' = [Recovery(tx) EXCEPT !.recovered = "no"]
      BY <3>1, <3>4 DEF Txs
    <3>5. CASE tx' = [Recovery(tx) EXCEPT !.recovered = Recovery(tx).recovered]
      BY <3>1, <3>5 DEF Txs
    <3> QED
      BY <2>1, <3>2, <3>3, <3>4, <3>5
  <2> QED
    BY <1>28, <2>2 DEF UndoRoute, GotoWith, RouteStates, Steps, WayBack, WayOut, db
<1>29. ASSUME UndoStop
      PROVE  TypeInv' /\ TxKept
  <2>1. ctr' \in ContainerSets
    BY <1>29, <1>a, StartStopType DEF UndoStop
  <2>2. route' \in RouteStates
    BY <1>29, <1>r DEF UndoStop, db
  <2> QED
    BY <1>29, <2>1, <2>2 DEF UndoStop, GotoWith, WithError, Recovery, Txs, Steps,
       WayBack, WayOut, db
<1>30. ASSUME FailSecrets
      PROVE  TypeInv' /\ TxKept
  <2>1. secrets' \in Versions /\ tx' \in Txs /\ tx'.cand = cand /\ tx'.app = tx.app /\ pc' = "fail_release"
    BY <1>30, <1>s DEF FailSecrets
  <2> QED
    BY <1>30, <2>1 DEF FailSecrets, Steps, WayOut, world
<1>31. ASSUME FailRelease
      PROVE  TypeInv' /\ TxKept
  BY <1>31, <1>0 DEF FailRelease, Goto, Txs, Steps, WayOut, world
<1>32. ASSUME FailRow
      PROVE  TypeInv' /\ TxKept
  BY <1>32, <1>0 DEF FailRow, Goto, Txs, Rows, RowStatuses, Steps, WayOut, world
<1>33. ASSUME FailOp
      PROVE  TypeInv' /\ TxKept
  BY <1>33, <1>0, <1>f DEF FailOp, Goto, Txs, Outcome, Steps, WayOut, world
<1>34. ASSUME WrapUp
      PROVE  TypeInv' /\ TxKept
  BY <1>34, <1>0, <1>f DEF WrapUp, Goto, Txs, Steps, WayOut, world
<1>35. ASSUME CtxExpires
      PROVE  TypeInv' /\ TxKept
  BY <1>35, <1>0 DEF CtxExpires, Txs, Steps, db, world
<1>36. ASSUME UNCHANGED vars
      PROVE  TypeInv' /\ TxKept
  BY <1>36 DEF vars, db, world
<1> QED
  BY <1>1, <1>2, <1>3, <1>4, <1>5, <1>6, <1>7, <1>8, <1>9, <1>10, <1>11, <1>12, <1>13,
     <1>14, <1>15, <1>16, <1>17, <1>18, <1>19, <1>20, <1>21, <1>22, <1>23, <1>24, <1>25,
     <1>26, <1>27, <1>28, <1>29, <1>30, <1>31, <1>32, <1>33, <1>34, <1>35, <1>36 DEF
     Next, Step, Forward, Back, Out

\* The types hold throughout.
THEOREM UpdateTypeOK == Spec => []TypeOK
<1>1. Init => TypeInv
  BY InitType DEF Init, TypeInv
<1>2. TypeInv /\ [Next]_vars => TypeInv'
  BY TypeStep
<1>3. TypeInv => TypeOK
  BY DEF TypeInv
<1> QED
  BY <1>1, <1>2, <1>3, PTL DEF Spec

----------------------------------------------------------------------------
(* The backup                                                               *)

\* The steps at which the backup of the candidate has been made.
AfterBackup ==
    {"cutover", "remove", "activate", "verify", "publish", "commit_release",
     "commit_row", "commit_current", "commit_storage", "complete",
     "undo_secrets", "undo_remove", "undo_deploy", "undo_storage", "undo_row",
     "undo_route", "undo_stop"}

\* The containers are down when the backup is due, and once it is made it is
\* there for everything that follows.
BackupInv ==
    /\ BackupsAreCold
    /\ pc = "backup" => ctr.up = 0
    /\ pc \in AfterBackup => backup[cand] = "cold"

\* Only one action makes a backup, only two lead to it, and the steps after it
\* are entered from it alone.
LEMMA BackupStep ==
    ASSUME TypeInv, BackupInv, [Next]_vars
    PROVE  BackupInv'
<1> USE DEF BackupInv, BackupsAreCold, AfterBackup
<1>t. TypeInv' /\ TxKept
  BY TypeStep
<1>1. CASE Backup
  BY <1>1, <1>t DEF Backup, BackupTaken, Goto, GotoWith, TxKept, cand, TypeInv, TypeOK
<1>2. CASE Inspect
  <2>1. ~MustStop => ctr.up = 0
    BY DEF MustStop, Status, TypeInv, TypeOK, ContainerSets
  <2> QED
    BY <1>2, <2>1 DEF Inspect, GotoWith, Fail, db, world
<1>3. CASE Stop
  BY <1>3, StartStopType DEF Stop, Goto, GotoWith, Fail, TypeInv, TypeOK
<1>4. CASE \E r \in Releases : SubmitWeb(r) \/ SubmitCli(r)
  BY <1>4 DEF SubmitWeb, SubmitCli, world
<1>5. CASE Load \/ Mark \/ Preflight \/ SetSecrets \/ Build
  BY <1>5 DEF Load, Mark, Preflight, SetSecrets, Build, Goto, GotoWith, Fail, world
<1>6. CASE Cutover \/ Remove \/ Activate \/ Verify \/ Publish
  BY <1>6, <1>t DEF Cutover, Remove, Activate, Verify, Publish, Goto, GotoWith, Fail,
     RollBack, TxKept, cand, world
<1>7. CASE CommitRelease \/ CommitRow \/ CommitCurrent \/ CommitStorage \/ Complete
  BY <1>7, <1>t DEF CommitRelease, CommitRow, CommitCurrent, CommitStorage, Complete,
     Goto, GotoWith, RollBack, TxKept, cand, world
<1>8. CASE ResumeSecrets \/ ResumeStart \/ Out
  BY <1>8 DEF ResumeSecrets, ResumeStart, Out, FailSecrets, FailRelease, FailRow, FailOp,
     WrapUp, SecretsBack, Goto, GotoWith, world
<1>9. CASE UndoSecrets \/ UndoRemove \/ UndoDeploy \/ UndoStorage \/ UndoRow \/ UndoRoute \/ UndoStop
  BY <1>9, <1>t DEF UndoSecrets, UndoRemove, UndoDeploy, UndoStorage, UndoRow, UndoRoute,
     UndoStop, SecretsBack, Goto, GotoWith, TxKept, cand, world
<1>10. CASE CtxExpires \/ UNCHANGED vars
  BY <1>10 DEF CtxExpires, cand, vars, world
<1> QED
  BY <1>1, <1>2, <1>3, <1>4, <1>5, <1>6, <1>7, <1>8, <1>9, <1>10 DEF Next, Step,
     Forward, Back

\* Containers disappear only at steps that follow the backup.
LEMMA RemovalStep ==
    ASSUME TypeInv, BackupInv, [Next]_vars
    PROVE  ctr'.made < ctr.made => backup[cand] = "cold"
<1> SUFFICES ASSUME ctr'.made < ctr.made, pc \notin AfterBackup
             PROVE  FALSE
  BY DEF BackupInv
<1>1. ctr \in ContainerSets /\ ctr.made \in Nat
  BY NIsPositive DEF TypeInv, TypeOK, ContainerSets
<1>2. ctr'.made # ctr.made
  BY <1>1
<1>3. CASE Stop
  <2>1. ctr' \in {AllStopped(ctr), ctr} \cup SomeStopped(ctr)
    BY <1>3 DEF Stop, After
  <2> QED
    BY <1>1, <1>2, <2>1, StartStopType
<1>4. CASE ResumeStart
  <2>1. ctr' \in {AllStarted(ctr), ctr} \cup SomeStarted(ctr)
    BY <1>4 DEF ResumeStart, After
  <2> QED
    BY <1>1, <1>2, <2>1, StartStopType
<1>5. ~Stop /\ ~ResumeStart => UNCHANGED ctr
  <2>1. CASE \E r \in Releases : SubmitWeb(r) \/ SubmitCli(r)
    BY <2>1 DEF SubmitWeb, SubmitCli, world
  <2>2. CASE Load \/ Mark \/ Preflight \/ SetSecrets \/ Build \/ Inspect \/ Backup
    BY <2>2 DEF Load, Mark, Preflight, SetSecrets, Build, Inspect, Backup, world
  <2>3. CASE Cutover \/ Remove \/ Activate \/ Verify \/ Publish \/ CommitRelease \/ CommitRow
             \/ CommitCurrent \/ CommitStorage \/ Complete
    BY <2>3 DEF Cutover, Remove, Activate, Verify, Publish, CommitRelease, CommitRow,
       CommitCurrent, CommitStorage, Complete, AfterBackup
  <2>4. CASE ResumeSecrets \/ Out \/ CtxExpires \/ UNCHANGED vars
    BY <2>4 DEF ResumeSecrets, Out, FailSecrets, FailRelease, FailRow, FailOp, WrapUp,
       CtxExpires, vars, world
  <2>5. CASE UndoSecrets \/ UndoRemove \/ UndoDeploy \/ UndoStorage \/ UndoRow \/ UndoRoute \/ UndoStop
    BY <2>5 DEF UndoSecrets, UndoRemove, UndoDeploy, UndoStorage, UndoRow, UndoRoute,
       UndoStop, AfterBackup
  <2> QED
    BY <2>1, <2>2, <2>3, <2>4, <2>5 DEF Next, Step, Forward, Back
<1> QED
  BY <1>2, <1>3, <1>4, <1>5

\* Together they are inductive.
LEMMA BackupInvariant == Spec => [](TypeInv /\ BackupInv)
<1>1. Init => TypeInv /\ BackupInv
  BY InitType DEF Init, TypeInv, BackupInv, BackupsAreCold, AfterBackup
<1>2. TypeInv /\ BackupInv /\ [Next]_vars => (TypeInv /\ BackupInv)'
  BY TypeStep, BackupStep
<1> QED
  BY <1>1, <1>2, PTL DEF Spec

\* No backup is taken from under running containers, whatever the stop of the
\* old containers did and however it failed.
THEOREM NoHotBackup == Spec => []BackupsAreCold
<1>1. BackupInv => BackupsAreCold
  BY DEF BackupInv
<1> QED
  BY <1>1, BackupInvariant, PTL

\* The update removes containers only when the backup of the storage they used
\* is there, on the way forward and on every way back.
THEOREM BackupComesFirst == Spec => NoRemovalBeforeBackup
<1>1. TypeInv /\ BackupInv /\ [Next]_vars
        => [ctr'.made < ctr.made => backup[cand] = "cold"]_vars
  BY RemovalStep
<1> QED
  BY <1>1, BackupInvariant, PTL DEF Spec, NoRemovalBeforeBackup

----------------------------------------------------------------------------
(* The secrets                                                              *)

Wrapping == {"wrap_failed", "wrap_completed"}

\* The secrets differ from what the update found only while there is a snapshot
\* to put back or an error on record that it could not be; the last attempt is
\* behind the update when it writes its outcome.
SecretsInv ==
    /\ pc \in {"load", "mark", "preflight", "secrets"} =>
         secrets = before.secrets /\ tx.undo = None
    /\ pc # "idle" =>
         /\ tx.web => secrets = before.secrets /\ tx.undo = None
         /\ tx.undo \in {None, before.secrets}
         /\ \/ secrets = before.secrets
            \/ tx.undo = before.secrets /\ pc \notin {"fail_release", "fail_row", "fail_op"}
            \/ "secret" \in tx.errs
            \/ pc \in Wrapping
         /\ "secret" \in tx.errs => tx.recovered = "no"
    /\ pc \in Wrapping \cup {"load"} => tx.web
    /\ pc \notin Wrapping \cup {"idle"} => IsActive
    /\ SecretsUndone

\* What it takes to keep it true away from the secrets themselves: the update
\* goes on with the snapshot, the errors and the outcome it had, or more errors.
GoesOn ==
    /\ UNCHANGED <<secrets, before>>
    /\ tx'.web = tx.web /\ tx'.undo = tx.undo
    /\ tx.errs \subseteq tx'.errs
    /\ "secret" \in tx'.errs => "secret" \in tx.errs /\ (tx.recovered = "no" => tx'.recovered = "no")
    /\ pc' \notin Wrapping \cup {"idle", "load"} /\ (IsActive => IsActive')

\* Such a step keeps the invariant, wherever it leads.
LEMMA GoesOnKeeps ==
    ASSUME SecretsInv, GoesOn, pc # "idle", pc \notin Wrapping,
           pc' \notin {"load", "mark", "preflight", "secrets"} \/ pc \in {"load", "mark", "preflight"},
           pc' \in {"fail_release", "fail_row", "fail_op"} =>
             pc \in {"fail_release", "fail_row", "mark"}
    PROVE  SecretsInv'
BY DEF SecretsInv, GoesOn, SecretsUndone, Over

\* The local variables, where they are not about the secrets.
LEMMA ErrorGoesOn ==
    ASSUME TypeOK, NEW e \in Errors \ {"secret"}
    PROVE  LET t == WithError(e)
           IN  /\ t.web = tx.web /\ t.undo = tx.undo /\ t.recovered = tx.recovered
               /\ tx.errs \subseteq t.errs
               /\ "secret" \in t.errs => "secret" \in tx.errs
BY DEF TypeOK, WithError, Txs

\* What the way back records leaves the secrets alone, and an error with them stands.
LEMMA RecoveryGoesOn ==
    ASSUME TypeOK
    PROVE  /\ Recovery(tx).web = tx.web /\ Recovery(tx).undo = tx.undo
           /\ Recovery(tx).errs = tx.errs
           /\ "secret" \in tx.errs => Recovery(tx).recovered = "no"
BY DEF TypeOK, Recovery, Txs

\* The actions that leave the secrets to the others.
LEMMA OthersGoOn ==
    ASSUME TypeOK, SecretsInv, (Forward \/ Back \/ Out),
           ~Load, ~SetSecrets, ~Complete, ~ResumeSecrets, ~UndoSecrets, ~FailSecrets,
           ~FailOp, ~WrapUp
    PROVE  /\ GoesOn
           /\ pc # "idle" /\ pc \notin Wrapping
           /\ pc' \notin {"load", "mark", "preflight", "secrets"} \/ pc \in {"load", "mark", "preflight"}
           /\ pc' \in {"fail_release", "fail_row", "fail_op"} =>
                pc \in {"fail_release", "fail_row", "mark"}
<1> USE DEF GoesOn, Wrapping
<1>e. "other" \in Errors \ {"secret"} /\ "runtime" \in Errors \ {"secret"}
      /\ "state" \in Errors \ {"secret"} /\ "restart" \in Errors \ {"secret"}
  BY DEF Errors
<1>1. CASE Mark \/ Preflight
  <2>1. tx'.web = tx.web /\ tx'.undo = tx.undo /\ tx'.recovered = tx.recovered
        /\ tx.errs \subseteq tx'.errs /\ ("secret" \in tx'.errs => "secret" \in tx.errs)
    <3>1. CASE tx' = tx \/ tx' = WithError("other")
      BY <3>1, <1>e, ErrorGoesOn
    <3>2. CASE \E o \in OldReleases :
                 GotoWith("secrets", [tx EXCEPT !.old = o, !.oldStorage = storage])
      BY <3>2 DEF GotoWith, TypeOK, Txs
    <3> QED
      BY <1>1, <3>1, <3>2 DEF Mark, Preflight, Goto, GotoWith, Fail
  <2> QED
    BY <1>1, <2>1 DEF Mark, Preflight, Goto, GotoWith, Fail, IsActive
<1>2. CASE Build \/ Inspect \/ Cutover \/ Verify
  <2>1. tx'.web = tx.web /\ tx'.undo = tx.undo /\ tx'.recovered = tx.recovered
        /\ tx.errs \subseteq tx'.errs /\ ("secret" \in tx'.errs => "secret" \in tx.errs)
    <3>1. tx' = tx \/ tx' = WithError("other") \/ tx' = [tx EXCEPT !.weStopped = MustStop]
      BY <1>2 DEF Build, Inspect, Cutover, Verify, Goto, GotoWith, Fail, RollBack
    <3>2. CASE tx' = [tx EXCEPT !.weStopped = MustStop]
      BY <3>2 DEF TypeOK, Txs
    <3> QED
      BY <3>1, <3>2, <1>e, ErrorGoesOn
  <2>2. IsActive => IsActive'
    BY <1>2, StatusTypes DEF Build, Inspect, Cutover, Verify, Announced, NotAnnounced,
       IsActive
  <2> QED
    BY <1>2, <2>1, <2>2 DEF Build, Inspect, Cutover, Verify, Goto, GotoWith, Fail, RollBack
<1>3. CASE Stop \/ Backup \/ Remove \/ Activate \/ Publish
  <2>1. tx' = tx \/ tx' = WithError("other")
    BY <1>3 DEF Stop, Backup, Remove, Activate, Publish, Goto, GotoWith, Fail, RollBack
  <2> QED
    BY <1>3, <2>1, <1>e, ErrorGoesOn DEF Stop, Backup, Remove, Activate, Publish,
       Goto, GotoWith,
       Fail, RollBack, IsActive, db
<1>4. CASE CommitRelease \/ CommitRow \/ CommitCurrent \/ CommitStorage
  <2>1. tx' = tx \/ tx' = WithError("other")
    BY <1>4 DEF CommitRelease, CommitRow, CommitCurrent, CommitStorage, Goto,
       GotoWith, RollBack
  <2> QED
    BY <1>4, <2>1, <1>e, ErrorGoesOn DEF CommitRelease, CommitRow, CommitCurrent,
       CommitStorage,
       Goto, GotoWith, RollBack, IsActive
<1>5. CASE ResumeStart \/ UndoStop
  <2>1. tx' = Recovery(tx) \/ tx' = WithError("restart")
    BY <1>5 DEF ResumeStart, UndoStop, GotoWith
  <2> QED
    BY <1>5, <2>1, <1>e, ErrorGoesOn, RecoveryGoesOn DEF ResumeStart, UndoStop,
       GotoWith, IsActive, db
<1>6. CASE UndoRemove \/ UndoDeploy \/ UndoStorage \/ UndoRow
  <2>1. tx' = tx \/ tx' = WithError("runtime") \/ tx' = WithError("state")
    BY <1>6 DEF UndoRemove, UndoDeploy, UndoStorage, UndoRow, Goto, GotoWith
  <2> QED
    BY <1>6, <2>1, <1>e, ErrorGoesOn DEF UndoRemove, UndoDeploy, UndoStorage, UndoRow, Goto,
       GotoWith, IsActive, db
<1>7. CASE UndoRoute
  <2>1. \/ tx' = WithError("state")
        \/ tx' = [Recovery(tx) EXCEPT !.recovered =
                     IF Recovery(tx).recovered = "stopped" THEN "no" ELSE Recovery(tx).recovered]
    BY <1>7 DEF UndoRoute, GotoWith
  <2>2. CASE tx' = [Recovery(tx) EXCEPT !.recovered =
                     IF Recovery(tx).recovered = "stopped" THEN "no" ELSE Recovery(tx).recovered]
    <3>1. tx'.web = tx.web /\ tx'.undo = tx.undo /\ tx'.errs = tx.errs
          /\ ("secret" \in tx.errs => tx'.recovered = "no")
      BY <2>2, RecoveryGoesOn, RecoveryType DEF TypeOK, Txs
    <3> QED
      BY <1>7, <3>1 DEF UndoRoute, GotoWith, IsActive, db
  <2>3. CASE tx' = WithError("state")
    BY <1>7, <2>3, <1>e, ErrorGoesOn DEF UndoRoute, GotoWith, IsActive, db
  <2> QED
    BY <2>1, <2>2, <2>3
<1>8. CASE FailRelease \/ FailRow
  BY <1>8 DEF FailRelease, FailRow, Goto, IsActive
<1> QED
  BY <1>1, <1>2, <1>3, <1>4, <1>5, <1>6, <1>7, <1>8 DEF Forward, Back, Out

\* restoreSecretsForRollback, at whichever step.
LEMMA SecretsBackStep ==
    ASSUME TypeOK, SecretsInv, NEW next, SecretsBack(next, tx), UNCHANGED <<op, before>>,
           pc \in {"resume_secrets", "undo_secrets", "fail_secrets"},
           next \in {"resume_start", "undo_remove", "fail_release"}
    PROVE  SecretsInv'
<1>1. pc' = next
  BY DEF SecretsBack, GotoWith
<1>2. IsActive /\ IsActive'
  BY DEF SecretsInv, Wrapping, IsActive
<1>3. None \notin Versions /\ before.secrets \in Versions
  BY NamesDiffer DEF Versions, Sources, TypeOK
<1> USE DEF Wrapping, SecretsUndone, Over
<1>4. CASE tx.undo = None
  BY <1>1, <1>2, <1>3, <1>4 DEF SecretsBack, GotoWith, SecretsInv
<1>5. CASE /\ tx.undo # None
           /\ secrets' = tx.undo
           /\ tx' = [tx EXCEPT !.undo = None]
  <2>1. /\ tx'.web = tx.web /\ tx'.undo = None /\ tx'.errs = tx.errs
        /\ tx'.recovered = tx.recovered
    BY <1>5 DEF TypeOK, Txs
  <2> QED
    BY <1>1, <1>2, <1>5, <2>1 DEF SecretsInv
<1>6. CASE /\ tx.undo # None
           /\ tx' = [tx EXCEPT !.errs = @ \cup {"secret"}, !.recovered = "no"]
  <2>1. /\ tx'.web = tx.web /\ tx'.undo = tx.undo /\ "secret" \in tx'.errs
        /\ tx'.recovered = "no"
    BY <1>6 DEF TypeOK, Txs
  <2> QED
    BY <1>1, <1>2, <1>6, <2>1 DEF SecretsInv
<1> QED
  BY <1>4, <1>5, <1>6 DEF SecretsBack, GotoWith

\* Every action keeps the invariant.
LEMMA SecretsStep ==
    ASSUME TypeOK, SecretsInv, [Next]_vars
    PROVE  SecretsInv'
<1> USE DEF Wrapping
<1>1. CASE /\ Forward \/ Back \/ Out
           /\ ~Load /\ ~SetSecrets /\ ~Complete /\ ~ResumeSecrets /\ ~UndoSecrets
           /\ ~FailSecrets /\ ~FailOp /\ ~WrapUp
  BY <1>1, OthersGoOn, GoesOnKeeps
<1>2. CASE ResumeSecrets \/ UndoSecrets \/ FailSecrets
  BY <1>2, SecretsBackStep DEF ResumeSecrets, UndoSecrets, FailSecrets
<1>3. CASE \E r \in Releases : SubmitWeb(r) \/ SubmitCli(r)
  BY <1>3, StatusTypes DEF SubmitWeb, SubmitCli, Fresh, Found, SecretsInv,
     SecretsUndone, Over, IsActive
<1>4. CASE Load
  <2>1. tx'.web = tx.web /\ tx'.undo = tx.undo /\ tx'.errs = tx.errs /\ tx'.recovered = tx.recovered
    BY <1>4 DEF Load, Goto, GotoWith, TypeOK, Txs
  <2> QED
    BY <1>4, <2>1 DEF Load, Goto, GotoWith, SecretsInv, SecretsUndone, Over, IsActive, db
<1>5. CASE SetSecrets
  <2>1. \/ tx' = tx /\ UNCHANGED secrets
        \/ tx' = [tx EXCEPT !.undo = secrets] /\ ~tx.web
        \/ tx' = WithError("other") /\ UNCHANGED secrets
        \/ tx' = [WithError("other") EXCEPT !.undo = secrets] /\ ~tx.web
    BY <1>5 DEF SetSecrets, Goto, GotoWith, Fail
  <2>2. CASE tx' = tx /\ UNCHANGED secrets
    BY <1>5, <2>2 DEF SetSecrets, Goto, GotoWith, Fail, SecretsInv, SecretsUndone,
       Over, IsActive
  <2>3. CASE tx' = [tx EXCEPT !.undo = secrets] /\ ~tx.web
    <3>1. tx'.web = tx.web /\ tx'.undo = secrets /\ tx'.errs = tx.errs
          /\ tx'.recovered = tx.recovered
      BY <2>3 DEF TypeOK, Txs
    <3> QED
      BY <1>5, <2>3, <3>1 DEF SetSecrets, Goto, GotoWith, Fail, SecretsInv,
         SecretsUndone, Over,
         IsActive
  <2>4. CASE tx' = WithError("other") /\ UNCHANGED secrets
    BY <1>5, <2>4, ErrorGoesOn DEF SetSecrets, Goto, GotoWith, Fail, SecretsInv,
       SecretsUndone,
       Over, IsActive, Errors
  <2>5. CASE tx' = [WithError("other") EXCEPT !.undo = secrets] /\ ~tx.web
    <3>1. tx'.web = tx.web /\ tx'.undo = secrets /\ tx'.recovered = tx.recovered
          /\ ("secret" \in tx'.errs => "secret" \in tx.errs)
      BY <2>5 DEF WithError, TypeOK, Txs
    <3> QED
      BY <1>5, <2>5, <3>1 DEF SetSecrets, Goto, GotoWith, Fail, SecretsInv,
         SecretsUndone, Over,
         IsActive
  <2> QED
    BY <2>1, <2>2, <2>3, <2>4, <2>5
<1>6. CASE Complete
  <2>1. tx'.web = tx.web /\ tx'.undo = None /\ tx'.errs = tx.errs /\ tx'.recovered = tx.recovered
    BY <1>6 DEF Complete, GotoWith, TypeOK, Txs
  <2> QED
    BY <1>6, <2>1 DEF Complete, GotoWith, Finished, SecretsInv, SecretsUndone, Over,
       IsActive, ActiveStatuses
<1>7. CASE FailOp
  BY <1>7 DEF FailOp, Goto, Finished, Outcome, SecretsInv, SecretsUndone, Over,
     IsActive, ActiveStatuses
<1>8. CASE WrapUp
  BY <1>8 DEF WrapUp, Goto, Finished, SecretsInv, SecretsUndone, Over
<1>9. CASE CtxExpires \/ UNCHANGED vars
  BY <1>9 DEF CtxExpires, vars, db, world, SecretsInv, SecretsUndone, Over, IsActive
<1> QED
  BY <1>1, <1>2, <1>3, <1>4, <1>5, <1>6, <1>7, <1>8, <1>9 DEF Next, Step

\* An update that says it failed or was rolled back left none of the secrets it
\* was given, even when putting them back failed on the way and was tried again.
THEOREM SecretsAreUndone == Spec => []SecretsUndone
<1>1. Init => TypeInv /\ SecretsInv
  BY InitType DEF Init, TypeInv, SecretsInv, SecretsUndone, Over, Wrapping
<1>2. TypeInv /\ SecretsInv /\ [Next]_vars => (TypeInv /\ SecretsInv)'
  BY TypeStep, SecretsStep DEF TypeInv
<1>3. SecretsInv => SecretsUndone
  BY DEF SecretsInv
<1> QED
  BY <1>1, <1>2, <1>3, PTL DEF Spec

----------------------------------------------------------------------------
(* The release pointer                                                      *)

\* The steps at which the row may point at the candidate: from the statement
\* that sets it to the one that puts the old row back.
Pointed ==
    {"commit_current", "commit_storage", "complete", "undo_secrets", "undo_remove",
     "undo_deploy", "undo_storage", "undo_row", "wrap_completed"}

\* The row as the update read it points at a release that stays good: never at
\* the candidate, which is marked failed only when the row no longer does.
CurrentInv ==
    /\ CurrentIsGood
    /\ pc # "idle" =>
         /\ tx.app.current # None => release[tx.app.current] = "running" /\ tx.app.current # cand
         /\ pc \in {"load", "mark", "preflight"} => release[cand] = "absent"
         /\ pc \in {"commit_row", "commit_current", "commit_storage", "complete"} =>
              release[cand] = "running"
         /\ row.current = cand => pc \in Pointed

\* Every action keeps the pointer on a good release.
LEMMA CurrentStep ==
    ASSUME WriteFaults = FALSE, TypeInv, CurrentInv, [Next]_vars
    PROVE  CurrentInv'
<1> USE DEF CurrentInv, CurrentIsGood, Pointed
<1>t. TypeInv' /\ TxKept
  BY TypeStep
<1>0. /\ row.current \in Releases \cup {None} /\ row'.current \in Releases \cup {None}
      /\ tx.app.current \in Releases \cup {None} /\ None \notin Releases
      /\ release \in [Releases -> {"absent", "preparing", "running", "failed"}]
      /\ pc # "idle" => cand \in Releases
  BY <1>t, NamesDiffer DEF TypeInv, TypeOK, Rows, Txs
<1>k. /\ pc # "idle" => cand' = cand
      /\ pc \notin {"idle", "load"} => tx'.app = tx.app
  BY <1>t DEF TxKept, cand
<1>1. CASE \E r \in Releases : SubmitWeb(r) \/ SubmitCli(r)
  <2>1. PICK r \in Releases : SubmitWeb(r) \/ SubmitCli(r)
    BY <1>1
  <2>2. /\ tx'.app.current = row.current /\ cand' = r /\ row'.current = row.current
        /\ release[r] = "absent" /\ release' = release /\ pc' \in {"load", "mark"}
    BY <2>1 DEF SubmitWeb, SubmitCli, Fresh, cand, TypeInv, TypeOK, Rows
  <2> QED
    BY <1>0, <2>2
<1>2. CASE Load
  BY <1>0, <1>k, <1>2 DEF Load, Goto, GotoWith, TypeInv, TypeOK, Txs, db
<1>3. CASE Mark
  BY <1>0, <1>k, <1>3 DEF Mark, Goto, TypeInv, TypeOK, Rows
<1>4. CASE Preflight
  <2>1. /\ row' = row /\ pc = "preflight" /\ pc' \in {"secrets", "fail_secrets"}
        /\ release' = release \/ release' = [release EXCEPT ![cand] = "preparing"]
    BY <1>4 DEF Preflight, GotoWith, Fail
  <2> QED
    BY <1>0, <1>k, <2>1
<1>5. CASE SetSecrets \/ Build \/ Inspect \/ Stop \/ Backup \/ Cutover
  BY <1>k, <1>5 DEF SetSecrets, Build, Inspect, Stop, Backup, Cutover, Goto, GotoWith,
     Fail, db
<1>6. CASE Remove \/ Activate \/ Verify \/ Publish
  BY <1>k, <1>6 DEF Remove, Activate, Verify, Publish, Goto, GotoWith, RollBack, db
<1>7. CASE CommitRelease
  BY <1>0, <1>k, <1>7 DEF CommitRelease, Goto, GotoWith, RollBack
<1>8. CASE CommitRow \/ CommitCurrent
  BY <1>0, <1>k, <1>8 DEF CommitRow, CommitCurrent, Goto, GotoWith, RollBack, TypeInv,
     TypeOK, Rows
<1>9. CASE CommitStorage \/ Complete
  BY <1>k, <1>9 DEF CommitStorage, Complete, Goto, GotoWith, RollBack
<1>10. CASE ResumeSecrets \/ UndoSecrets \/ FailSecrets
  BY <1>k, <1>10 DEF ResumeSecrets, UndoSecrets, FailSecrets, SecretsBack, GotoWith
<1>11. CASE ResumeStart \/ UndoRemove \/ UndoDeploy \/ UndoStorage
  BY <1>k, <1>11 DEF ResumeStart, UndoRemove, UndoDeploy, UndoStorage, BgFails, Goto,
     GotoWith, db
<1>12. CASE UndoRoute \/ UndoStop
  BY <1>k, <1>12 DEF UndoRoute, UndoStop, GotoWith, db
<1>13. CASE UndoRow
  BY <1>0, <1>k, <1>13 DEF UndoRow, BgFails, Goto
<1>14. CASE FailRelease
  BY <1>0, <1>k, <1>14 DEF FailRelease, Goto
<1>15. CASE FailRow
  BY <1>0, <1>k, <1>15 DEF FailRow, Goto, TypeInv, TypeOK, Rows
<1>16. CASE FailOp \/ WrapUp
  BY <1>k, <1>16 DEF FailOp, WrapUp, Goto
<1>17. CASE CtxExpires \/ UNCHANGED vars
  BY <1>k, <1>17 DEF CtxExpires, vars, db, cand
<1> QED
  BY <1>1, <1>2, <1>3, <1>4, <1>5, <1>6, <1>7, <1>8, <1>9, <1>10, <1>11, <1>13, <1>14,
     <1>15,
     <1>16, <1>17, <1>12 DEF Next, Step, Forward, Back, Out

\* As long as the database takes its statements, the apps row never points at a
\* release that is not marked running, at no point of any update or rollback.
THEOREM CurrentStaysGood == WriteFaults = FALSE /\ Spec => []CurrentIsGood
<1>1. Init => TypeInv /\ CurrentInv
  BY InitType DEF Init, TypeInv, CurrentInv, CurrentIsGood
<1>2. WriteFaults = FALSE /\ TypeInv /\ CurrentInv /\ [Next]_vars => (TypeInv /\ CurrentInv)'
  BY TypeStep, CurrentStep
<1>3. CurrentInv => CurrentIsGood
  BY DEF CurrentInv
<1> QED
  <2>1. ASSUME WriteFaults = FALSE
        PROVE  Spec => []CurrentIsGood
    <3>1. TypeInv /\ CurrentInv /\ [Next]_vars => (TypeInv /\ CurrentInv)'
      BY <2>1, <1>2
    <3> QED
      BY <1>1, <3>1, <1>3, PTL DEF Spec
  <2> QED
    BY <2>1
----------------------------------------------------------------------------
(* What a completed update serves                                           *)

\* The steps behind which an achievement of the way forward lies.
StorageCommitted == {"complete", "wrap_completed"}
RowCommitted == {"commit_current", "commit_storage"} \cup StorageCommitted
ReleaseCommitted == {"commit_row"} \cup RowCommitted
Published == {"commit_release"} \cup ReleaseCommitted
Verified == {"publish"} \cup Published

\* What was achieved is still there at every later step of the way forward, and
\* nobody says completed who has not come to its end.
ServesInv ==
    /\ pc = "verify" => ctr \in AllCreated(cand, secrets)
    /\ pc \in Verified => ctr = Containers(cand, secrets, N, N)
    /\ pc \in Published => route = "synced"
    /\ pc \in ReleaseCommitted => release[cand] = "running"
    /\ pc \in RowCommitted =>
         row.status = "running" /\ row.current = cand /\ row.compose = cand
    /\ pc \in StorageCommitted => storage = cand
    /\ pc = "wrap_completed" => backup[cand] = "cold"
    /\ op = "completed" => pc \in {"idle", "wrap_completed"}
    /\ CompletedServes

\* The containers that verification accepts are all there and run.
LEMMA RunningIsAll ==
    ASSUME NEW r \in Sources, NEW e \in Versions, NEW c \in AllCreated(r, e),
           Status(c, N) = "running"
    PROVE  c = Containers(r, e, N, N)
<1> PICK u \in 0..N : c = Containers(r, e, N, u)
  BY DEF AllCreated
<1>1. c = [rel |-> r, env |-> e, made |-> N, up |-> u]
  BY NIsPositive DEF Containers
<1>2. u = N
  BY <1>1, NIsPositive DEF Status
<1> QED
  BY <1>2

\* Planning the update ends in one of two steps and announces nothing.
LEMMA PreflightMoves ==
    ASSUME Preflight
    PROVE  /\ pc = "preflight" /\ pc' \in {"secrets", "fail_secrets"}
           /\ UNCHANGED <<row, op, secrets, storage, ctr, route, backup, ctxDone, before>>
<1>1. UNCHANGED <<ctr, route, backup>>
  BY Zenon DEF Preflight, world
<1> QED
  BY <1>1, Zenon DEF Preflight, GotoWith, Fail

\* It remembers the previous release and the storage mappings, or fails.
LEMMA PreflightRemembers ==
    ASSUME Preflight
    PROVE  \/ pc' = "fail_secrets" /\ tx' = WithError("other")
           \/ /\ pc' = "secrets"
              /\ \E o \in OldReleases : tx' = [tx EXCEPT !.old = o, !.oldStorage = storage]
BY Zenon DEF Preflight, GotoWith, Fail

\* Every action.
LEMMA ServesStep ==
    ASSUME TypeInv, BackupInv, SecretsInv, ServesInv, [Next]_vars
    PROVE  ServesInv'
<1> USE StatusTypes
    DEF ServesInv, StorageCommitted, RowCommitted, ReleaseCommitted, Published, Verified,
        CompletedServes, Over
<1>t. TypeInv' /\ TxKept
  BY TypeStep
<1>k. pc # "idle" => cand' = cand /\ cand \in Sources /\ cand \in Releases
  BY <1>t DEF TxKept, cand, TypeInv, Sources
<1>a. /\ "completed" \notin ActiveStatuses
      /\ pc \notin {"idle", "wrap_failed", "wrap_completed"} => IsActive
  BY DEF ActiveStatuses, SecretsInv, Wrapping
<1>1. CASE \E r \in Releases : SubmitWeb(r) \/ SubmitCli(r)
  BY <1>1, <1>a DEF SubmitWeb, SubmitCli
<1>2. CASE Load \/ Mark \/ Preflight \/ SetSecrets
  <2>1. CASE Load
    BY <2>1, <1>a DEF Load, Goto, GotoWith, IsActive, db
  <2>2. CASE Mark
    BY <2>2, <1>a DEF Mark, Goto, GotoWith, IsActive, db
  <2>3. CASE Preflight
    BY <2>3, PreflightMoves, <1>a
  <2>4. CASE SetSecrets
    BY <2>4, <1>a DEF SetSecrets, Goto, GotoWith, Fail, IsActive, db
  <2> QED
    BY <1>2, <2>1, <2>2, <2>3, <2>4
<1>3. CASE Build \/ Inspect \/ Stop \/ Backup \/ Cutover \/ Remove
  BY <1>3, <1>a DEF Build, Inspect, Stop, Backup, Cutover, Remove, Announced, NotAnnounced,
     Goto, GotoWith, Fail, RollBack, IsActive, db
<1>4. CASE Activate
  BY <1>4, <1>a, <1>k DEF Activate, Goto, GotoWith, RollBack, IsActive, db
<1>5. CASE Verify
  <2>1. pc' = "publish" => ctr = Containers(cand, secrets, N, N)
    BY <1>5, <1>k, RunningIsAll DEF Verify, Goto, GotoWith, RollBack, TypeInv, TypeOK
  <2> QED
    BY <1>5, <1>a, <1>k, <2>1 DEF Verify, Announced, NotAnnounced, Goto, GotoWith, RollBack,
       IsActive, world
<1>6. CASE Publish
  BY <1>6, <1>a, <1>k DEF Publish, Goto, GotoWith, RollBack, IsActive, db
<1>7. CASE CommitRelease
  BY <1>7, <1>a, <1>k DEF CommitRelease, Goto, GotoWith, RollBack, IsActive, world, TypeInv,
     TypeOK
<1>8. CASE CommitRow \/ CommitCurrent
  BY <1>8, <1>a, <1>k DEF CommitRow, CommitCurrent, Goto, GotoWith, RollBack, IsActive, world,
     TypeInv, TypeOK, Rows
<1>9. CASE CommitStorage
  BY <1>9, <1>a, <1>k DEF CommitStorage, Goto, GotoWith, RollBack, IsActive, world
<1>10. CASE Complete
  BY <1>10, <1>a, <1>k DEF Complete, GotoWith, Finished, IsActive, BackupInv, AfterBackup, world
<1>11. CASE Back
  BY <1>11, <1>a DEF Back, ResumeSecrets, ResumeStart, UndoSecrets, UndoRemove, UndoDeploy,
     UndoStorage, UndoRow, UndoRoute, UndoStop, SecretsBack, Goto, GotoWith, IsActive, db
<1>12. CASE FailSecrets \/ FailRelease \/ FailRow
  BY <1>12, <1>a DEF FailSecrets, FailRelease, FailRow, SecretsBack, Goto, GotoWith, IsActive
<1>13. CASE FailOp
  BY <1>13, <1>a DEF FailOp, Finished, Outcome, Goto, IsActive
<1>14. CASE WrapUp
  BY <1>14, <1>a, <1>k DEF WrapUp, Finished, Goto, IsActive, world
<1>15. CASE CtxExpires \/ UNCHANGED vars
  BY <1>15 DEF CtxExpires, vars, db, world, cand
<1> QED
  BY <1>1, <1>2, <1>3, <1>4, <1>5, <1>6, <1>7, <1>8, <1>9, <1>10, <1>11, <1>12, <1>13,
     <1>14, <1>15 DEF Next, Step, Forward, Out

\* What there is to know of the rows and containers of an update, of whatever it
\* has said.
LEMMA OutcomeInvariant == Spec => [](TypeInv /\ BackupInv /\ SecretsInv /\ ServesInv)
<1>1. Init => TypeInv /\ BackupInv /\ SecretsInv /\ ServesInv
  BY InitType DEF Init, TypeInv, BackupInv, BackupsAreCold, AfterBackup, SecretsInv, SecretsUndone,
     Over, Wrapping, ServesInv, StorageCommitted, RowCommitted, ReleaseCommitted, Published,
     Verified, CompletedServes
<1>2. TypeInv /\ BackupInv /\ SecretsInv /\ ServesInv /\ [Next]_vars
        => (TypeInv /\ BackupInv /\ SecretsInv /\ ServesInv)'
  BY TypeStep, BackupStep, SecretsStep, ServesStep DEF TypeInv
<1> QED
  BY <1>1, <1>2, PTL DEF Spec

\* An update that says it completed serves its candidate: all of its containers
\* with the secrets there are, the route to them, the row, the storage mappings and
\* the release - whatever faults it met, and whoever recorded the outcome.
THEOREM CompletedUpdatesServe == Spec => []CompletedServes
<1>1. ServesInv => CompletedServes
  BY DEF ServesInv
<1> QED
  BY <1>1, OutcomeInvariant, PTL

----------------------------------------------------------------------------
(* The local variables on the way back                                      *)

\* The errors that spoil a recovery.
Spoiling == {"secret", "runtime", "state", "restart"}

\* An error is added and nothing else changes.
LEMMA ErrorFields ==
    ASSUME TypeOK, NEW e
    PROVE  /\ WithError(e).web = tx.web /\ WithError(e).app = tx.app /\ WithError(e).old = tx.old
           /\ WithError(e).oldStorage = tx.oldStorage /\ WithError(e).weStopped = tx.weStopped
           /\ WithError(e).recovered = tx.recovered /\ WithError(e).errs = tx.errs \cup {e}
BY DEF TypeOK, WithError, Txs

\* A recovery is recorded if nothing spoils it, and nothing else changes.
LEMMA RecoveryFields ==
    ASSUME TypeOK
    PROVE  /\ Recovery(tx).web = tx.web /\ Recovery(tx).app = tx.app /\ Recovery(tx).old = tx.old
           /\ Recovery(tx).oldStorage = tx.oldStorage /\ Recovery(tx).weStopped = tx.weStopped
           /\ Recovery(tx).errs = tx.errs
           /\ Recovery(tx).recovered = IF tx.errs \cap Spoiling # {} THEN "no"
                                       ELSE IF tx.weStopped THEN "running" ELSE "stopped"
BY DEF TypeOK, Recovery, Txs, Spoiling

\* The secrets go back, or an error is added and there is no recovery any more.
LEMMA SecretsBackFields ==
    ASSUME TypeOK, NEW next, SecretsBack(next, tx)
    PROVE  /\ pc' = next
           /\ tx'.web = tx.web /\ tx'.app = tx.app /\ tx'.old = tx.old
           /\ tx'.oldStorage = tx.oldStorage /\ tx'.weStopped = tx.weStopped
           /\ \/ tx'.errs = tx.errs /\ tx'.recovered = tx.recovered
              \/ tx'.errs = tx.errs \cup {"secret"} /\ tx'.recovered = "no"
<1>1. \/ tx' = tx
      \/ tx' = [tx EXCEPT !.undo = None]
      \/ tx' = [tx EXCEPT !.errs = @ \cup {"secret"}, !.recovered = "no"]
  BY DEF SecretsBack, GotoWith
<1>2. pc' = next
  BY DEF SecretsBack, GotoWith
<1>3. CASE tx' = tx
  BY <1>2, <1>3
<1>4. CASE tx' = [tx EXCEPT !.undo = None]
  BY <1>2, <1>4 DEF TypeOK, Txs
<1>5. CASE tx' = [tx EXCEPT !.errs = @ \cup {"secret"}, !.recovered = "no"]
  BY <1>2, <1>5 DEF TypeOK, Txs
<1> QED
  BY <1>1, <1>3, <1>4, <1>5

\* What an update remembers it remembers to its end: who started it, the row it
\* read, what a rollback restores, whether it stopped the containers, and what
\* went wrong.
Remembers ==
    /\ tx'.web = tx.web
    /\ pc # "load" => tx'.app = tx.app
    /\ pc # "preflight" => tx'.old = tx.old /\ tx'.oldStorage = tx.oldStorage
    /\ pc # "inspect" => tx'.weStopped = tx.weStopped
    /\ tx.errs \subseteq tx'.errs
    /\ \/ tx'.recovered \in {tx.recovered, "no"}
       \/ pc \in {"resume_start", "undo_route", "undo_stop"} /\ tx'.errs = tx.errs
    /\ tx'.recovered # "no" /\ tx'.recovered = tx.recovered =>
         tx'.errs \cap Spoiling = tx.errs \cap Spoiling

\* Every action of a running update.
LEMMA StepRemembers ==
    ASSUME TypeOK, Step \/ CtxExpires \/ UNCHANGED vars,
           tx.recovered # "no" => pc \in {"fail_secrets", "fail_release", "fail_row", "fail_op",
                                          "wrap_failed", "idle"}
    PROVE  Remembers
<1> USE DEF Remembers
<1>s. /\ tx' = tx => Remembers
      /\ \A e \in Errors : tx' = WithError(e) /\ tx.recovered = "no" => Remembers
  BY ErrorFields
<1>e. {"other", "runtime", "state", "restart"} \subseteq Errors
  BY DEF Errors
<1>1. CASE Load
  BY <1>1, <1>s DEF Load, Goto, GotoWith, TypeOK, Txs
<1>2. CASE Preflight
  <2>1. pc = "preflight"
    BY <1>2, PreflightMoves, Zenon
  <2>2. ASSUME NEW o, tx' = [tx EXCEPT !.old = o, !.oldStorage = storage]
        PROVE  Remembers
    BY <2>1, <2>2 DEF TypeOK, Txs
  <2>3. \/ tx' = WithError("other")
        \/ \E o \in OldReleases : tx' = [tx EXCEPT !.old = o, !.oldStorage = storage]
    BY <1>2, PreflightRemembers, Zenon
  <2>4. CASE tx' = WithError("other")
    BY <2>1, <2>4, <1>s, <1>e
  <2> QED
    BY <2>2, <2>3, <2>4, Zenon
<1>3. CASE SetSecrets
  <2>1. tx.recovered = "no"
    BY <1>3 DEF SetSecrets
  <2>2. \/ tx' = tx \/ tx' = [tx EXCEPT !.undo = secrets]
        \/ tx' = WithError("other") \/ tx' = [WithError("other") EXCEPT !.undo = secrets]
    BY <1>3 DEF SetSecrets, Goto, GotoWith, Fail
  <2>3. CASE tx' = [tx EXCEPT !.undo = secrets]
    BY <2>3 DEF TypeOK, Txs
  <2>4. CASE tx' = [WithError("other") EXCEPT !.undo = secrets]
    BY <2>1, <2>4 DEF WithError, TypeOK, Txs
  <2> QED
    BY <2>1, <2>2, <2>3, <2>4, <1>s, <1>e
<1>4. CASE Inspect
  <2>1. CASE tx' = [tx EXCEPT !.weStopped = MustStop]
    BY <1>4, <2>1 DEF Inspect, TypeOK, Txs
  <2>2. CASE tx' = WithError("other")
    BY <1>4, <2>2, <1>s, <1>e DEF Inspect
  <2> QED
    BY <1>4, <2>1, <2>2 DEF Inspect, GotoWith, Fail
<1>5. CASE Mark \/ Build \/ Stop \/ Backup \/ Cutover
  <2>1. tx.recovered = "no" /\ (tx' = tx \/ tx' = WithError("other"))
    BY <1>5 DEF Mark, Build, Stop, Backup, Cutover, Goto, GotoWith, Fail
  <2> QED
    BY <2>1, <1>s, <1>e
<1>6. CASE Remove \/ Activate \/ Verify \/ Publish \/ CommitRelease \/ CommitRow \/ CommitCurrent
           \/ CommitStorage
  <2>1. tx.recovered = "no" /\ (tx' = tx \/ tx' = WithError("other"))
    BY <1>6 DEF Remove, Activate, Verify, Publish, CommitRelease, CommitRow, CommitCurrent,
       CommitStorage, Goto, GotoWith, RollBack
  <2> QED
    BY <2>1, <1>s, <1>e
<1>7. CASE Complete
  BY <1>7 DEF Complete, GotoWith, TypeOK, Txs
<1>8. CASE ResumeSecrets \/ UndoSecrets \/ FailSecrets
  BY <1>8, SecretsBackFields DEF ResumeSecrets, UndoSecrets, FailSecrets, Spoiling
<1>9. CASE ResumeStart \/ UndoStop
  <2>1. tx.recovered = "no" /\ (tx' = Recovery(tx) \/ tx' = WithError("restart"))
        /\ pc \in {"resume_start", "undo_stop"}
    BY <1>9 DEF ResumeStart, UndoStop, GotoWith
  <2> QED
    BY <2>1, <1>s, <1>e, RecoveryFields
<1>10. CASE UndoRemove \/ UndoDeploy \/ UndoStorage \/ UndoRow
  <2>1. tx.recovered = "no" /\ (tx' = tx \/ tx' = WithError("runtime") \/ tx' = WithError("state"))
    BY <1>10 DEF UndoRemove, UndoDeploy, UndoStorage, UndoRow, Goto, GotoWith
  <2> QED
    BY <2>1, <1>s, <1>e
<1>11. CASE UndoRoute
  <2> DEFINE t == Recovery(tx)
             w == IF t.recovered = "stopped" THEN "no" ELSE t.recovered
  <2>1. tx.recovered = "no" /\ pc = "undo_route"
        /\ (tx' = WithError("state") \/ tx' = [t EXCEPT !.recovered = w])
    BY <1>11 DEF UndoRoute, GotoWith
  <2>2. CASE tx' = WithError("state")
    BY <2>1, <2>2, <1>s, <1>e
  <2>3. CASE tx' = [t EXCEPT !.recovered = w]
    <3>1. t \in Txs
      BY RecoveryType DEF TypeOK
    <3>2. /\ tx'.web = t.web /\ tx'.app = t.app /\ tx'.old = t.old /\ tx'.errs = t.errs
          /\ tx'.oldStorage = t.oldStorage /\ tx'.weStopped = t.weStopped
      BY <2>3, <3>1 DEF Txs
    <3> QED
      BY <2>1, <3>2, RecoveryFields
  <2> QED
    BY <2>1, <2>2, <2>3
<1>12. CASE FailRelease \/ FailRow \/ FailOp \/ WrapUp \/ CtxExpires \/ UNCHANGED vars
  BY <1>12, <1>s DEF FailRelease, FailRow, FailOp, WrapUp, CtxExpires, vars, Goto
<1> QED
  BY <1>1, <1>2, <1>3, <1>4, <1>5, <1>6, <1>7, <1>8, <1>9, <1>10, <1>11, <1>12 DEF Step, Forward,
     Back, Out

----------------------------------------------------------------------------
(* What the containers are when the update says what it brought them back to *)

\* The way out, from where the outcome has been recorded.
Leaving == {"fail_secrets", "fail_release", "fail_row", "fail_op"}

\* The containers are down where the previous release is resumed; where it was
\* rebuilt they all run, unless an error says otherwise; and a recovery is what
\* it says.
RuntimeInv ==
    /\ pc \in {"resume_secrets", "resume_start"} => ctr.up = 0
    /\ pc \in {"undo_storage", "undo_row", "undo_route", "undo_stop"} =>
         "runtime" \in tx.errs \/ (ctr.made = N /\ ctr.up = N)
    /\ pc = "undo_stop" => ~tx.weStopped /\ tx.errs \cap Spoiling = {}
    /\ tx.recovered # "no" => pc \in Leaving \cup {"wrap_failed", "idle"}
    /\ pc \in Leaving =>
         /\ tx.recovered = "running" => ctr.up = ctr.made /\ ctr.up > 0
         /\ tx.recovered = "stopped" => ctr.up = 0

\* Every action.
LEMMA RuntimeStep ==
    ASSUME TypeInv, BackupInv, RuntimeInv, [Next]_vars
    PROVE  RuntimeInv'
<1> USE DEF RuntimeInv, Leaving
<1>c. /\ ctr \in ContainerSets /\ ctr.made \in Nat /\ ctr.up \in Nat /\ TypeOK
      /\ ctr.up <= ctr.made
  BY NIsPositive DEF TypeInv, TypeOK, ContainerSets
<1>r. Step \/ CtxExpires \/ UNCHANGED vars => Remembers
  BY <1>c, StepRemembers
<1>1. CASE \E r \in Releases : SubmitWeb(r) \/ SubmitCli(r)
  <2> PICK r \in Releases : SubmitWeb(r) \/ SubmitCli(r)
    BY <1>1
  <2>1. pc' \in {"load", "mark"} /\ tx'.recovered = "no"
    BY <1>c DEF SubmitWeb, SubmitCli, Fresh
  <2> QED
    BY <2>1
<1>2. CASE Forward
  <2>1. Remembers
    BY <1>2, <1>r DEF Step
  <2>2. /\ pc' \in {"resume_secrets", "resume_start"} => ctr.up = 0 /\ ctr' = ctr
        /\ pc' \notin {"undo_storage", "undo_row", "undo_route", "undo_stop", "fail_release",
                       "fail_row"}
        /\ pc \notin Leaving \cup {"wrap_failed", "idle", "resume_start", "undo_route",
                                   "undo_stop"}
    <3>1. CASE Load \/ Mark \/ Preflight
      BY <3>1, PreflightMoves DEF Load, Mark, Goto, GotoWith
    <3>2. CASE SetSecrets \/ Build \/ Inspect \/ Stop \/ Backup \/ Cutover
      BY <3>2 DEF SetSecrets, Build, Inspect, Stop, Backup, Cutover, Goto, GotoWith, Fail,
         BackupInv
    <3>3. CASE Remove \/ Activate \/ Verify \/ Publish
      BY <3>3 DEF Remove, Activate, Verify, Publish, Goto, GotoWith, RollBack
    <3>4. CASE CommitRelease \/ CommitRow \/ CommitCurrent \/ CommitStorage \/ Complete
      BY <3>4 DEF CommitRelease, CommitRow, CommitCurrent, CommitStorage, Complete, Goto,
         GotoWith, RollBack
    <3> QED
      BY <1>2, <3>1, <3>2, <3>3, <3>4 DEF Forward
  <2>3. tx.recovered = "no" /\ tx'.recovered = "no"
    BY <2>1, <2>2 DEF Remembers
  <2> QED
    BY <2>2, <2>3
<1>3. CASE ResumeSecrets \/ UndoSecrets \/ FailSecrets
  BY <1>3, <1>c, SecretsBackFields DEF ResumeSecrets, UndoSecrets, FailSecrets, world
<1>4. CASE ResumeStart
  <2>1. /\ pc = "resume_start" /\ pc' = "fail_secrets" /\ tx.recovered = "no"
        /\ \/ tx' = WithError("restart")
           \/ tx' = Recovery(tx) /\ ~tx.weStopped /\ ctr' = ctr
           \/ tx' = Recovery(tx) /\ ctr' = AllStarted(ctr) /\ ctr.made > 0 /\ tx.weStopped
    BY <1>4 DEF ResumeStart, GotoWith, CanHandle
  <2>2. AllStarted(ctr).up = ctr.made /\ AllStarted(ctr).made = ctr.made
    BY <1>c DEF AllStarted, ContainerSets
  <2> QED
    BY <1>c, <2>1, <2>2, ErrorFields, RecoveryFields
<1>5. CASE UndoRemove \/ UndoDeploy
  <2>1. Containers(tx.old, secrets, N, N).made = N /\ Containers(tx.old, secrets, N, N).up = N
    BY NIsPositive DEF Containers
  <2>2. tx.recovered = "no" /\ (tx' = tx \/ tx' = WithError("runtime"))
    BY <1>5 DEF UndoRemove, UndoDeploy, Goto, GotoWith
  <2> QED
    BY <1>5, <1>c, <2>1, <2>2, ErrorFields DEF UndoRemove, UndoDeploy, Goto, GotoWith
<1>6. CASE UndoStorage \/ UndoRow
  BY <1>6, <1>c, ErrorFields DEF UndoStorage, UndoRow, Goto, GotoWith, world
<1>7. CASE UndoRoute
  <2> DEFINE t == Recovery(tx)
             w == IF t.recovered = "stopped" THEN "no" ELSE t.recovered
  <2>1. /\ pc = "undo_route" /\ tx.recovered = "no" /\ ctr' = ctr
        /\ \/ pc' = "fail_secrets" /\ tx' = WithError("state")
           \/ /\ pc' = (IF t.recovered = "stopped" THEN "undo_stop" ELSE "fail_secrets")
              /\ tx' = [t EXCEPT !.recovered = w]
    BY <1>7 DEF UndoRoute, GotoWith
  <2>2. CASE pc' = "fail_secrets" /\ tx' = WithError("state")
    BY <1>c, <2>1, <2>2, ErrorFields
  <2>3. CASE /\ pc' = (IF t.recovered = "stopped" THEN "undo_stop" ELSE "fail_secrets")
             /\ tx' = [t EXCEPT !.recovered = w]
    <3>1. t \in Txs
      BY <1>c, RecoveryType DEF TypeOK
    <3>2. tx'.recovered = w /\ tx'.errs = t.errs /\ tx'.weStopped = t.weStopped
      BY <2>3, <3>1 DEF Txs
    <3>3. /\ t.errs = tx.errs /\ t.weStopped = tx.weStopped
          /\ t.recovered = IF tx.errs \cap Spoiling # {} THEN "no"
                           ELSE IF tx.weStopped THEN "running" ELSE "stopped"
      BY <1>c, RecoveryFields
    <3>4. t.recovered # "no" => "runtime" \notin tx.errs
      BY <3>3 DEF Spoiling
    <3>5. (ctr.made = N /\ ctr.up = N) \/ t.recovered = "no"
      BY <2>1, <3>4
    <3>6. CASE pc' = "undo_stop"
      BY <2>1, <2>3, <3>2, <3>3, <3>5, <3>6
    <3>7. CASE pc' = "fail_secrets"
      BY <2>1, <2>3, <3>2, <3>3, <3>5, <3>7, NIsPositive
    <3> QED
      BY <2>3, <3>6, <3>7
  <2> QED
    BY <2>1, <2>2, <2>3
<1>8. CASE UndoStop
  <2>1. /\ pc = "undo_stop" /\ pc' = "fail_secrets" /\ tx.recovered = "no"
        /\ \/ tx' = WithError("restart")
           \/ tx' = Recovery(tx) /\ ctr' = AllStopped(ctr)
    BY <1>8 DEF UndoStop, GotoWith
  <2>2. AllStopped(ctr).up = 0
    BY <1>c, StartStopType
  <2> QED
    BY <1>c, <2>1, <2>2, ErrorFields, RecoveryFields
<1>9. CASE FailRelease \/ FailRow \/ FailOp \/ WrapUp
  BY <1>9 DEF FailRelease, FailRow, FailOp, WrapUp, Goto, world
<1>10. CASE CtxExpires \/ UNCHANGED vars
  BY <1>10 DEF CtxExpires, vars, world
<1> QED
  BY <1>1, <1>2, <1>3, <1>4, <1>5, <1>6, <1>7, <1>8, <1>9, <1>10 DEF Next, Step, Back, Out

\* What there is to know of the containers on the way back.
LEMMA RuntimeInvariant == Spec => [](TypeInv /\ BackupInv /\ RuntimeInv)
<1>1. Init => TypeInv /\ BackupInv /\ RuntimeInv
  BY InitType DEF Init, TypeInv, BackupInv, BackupsAreCold, AfterBackup, RuntimeInv, Leaving
<1>2. TypeInv /\ BackupInv /\ RuntimeInv /\ [Next]_vars
        => (TypeInv /\ BackupInv /\ RuntimeInv)'
  BY TypeStep, BackupStep, RuntimeStep
<1> QED
  BY <1>1, <1>2, PTL DEF Spec

----------------------------------------------------------------------------
(* The status in the app row                                                *)

\* What the row says of the containers is so.
RowIsTrue ==
    /\ row.status = "running" => ctr.up > 0 /\ ctr.up = ctr.made
    /\ row.status = "stopped" => ctr.up = 0

\* A web update has marked the row before anything can fail, only web updates
\* lose their context, and the row is true once the outcome is written.
RowInv ==
    /\ pc = "load" => row.status = "updating"
    /\ pc = "mark" /\ tx.web => row.status = "updating"
    /\ ctxDone /\ pc # "idle" => tx.web
    /\ pc \in {"fail_op", "wrap_failed"} => RowIsTrue
    /\ RowTellsTruth

\* Every action.
LEMMA RowStep ==
    ASSUME WriteFaults = FALSE, TypeInv, ServesInv, RuntimeInv, RowInv, [Next]_vars
    PROVE  RowInv'
<1> USE DEF RowInv, RowIsTrue, RowTellsTruth
<1>c. row \in Rows /\ tx \in Txs /\ TypeOK
  BY DEF TypeInv, TypeOK
<1>w. (Step \/ CtxExpires \/ UNCHANGED vars) => tx'.web = tx.web
  BY <1>c, StepRemembers DEF Remembers, RuntimeInv, Leaving
<1>1. CASE \E r \in Releases : SubmitWeb(r) \/ SubmitCli(r)
  <2> PICK r \in Releases : SubmitWeb(r) \/ SubmitCli(r)
    BY <1>1
  <2>1. CASE SubmitWeb(r)
    BY <1>c, <2>1 DEF SubmitWeb, Fresh, BgFails, Rows
  <2>2. CASE SubmitCli(r)
    BY <2>2 DEF SubmitCli, Fresh
  <2> QED
    BY <2>1, <2>2
<1>2. CASE Load \/ Mark
  BY <1>2, <1>c, <1>w DEF Load, Mark, Goto, GotoWith, CtxFails, db, world, Step, Forward
<1>3. CASE Forward /\ ~Load /\ ~Mark /\ ~Complete
  <2>1. pc' \notin {"load", "mark", "idle", "fail_op", "wrap_failed"} /\ pc # "idle" /\ ctxDone' = ctxDone
    <3>1. CASE Preflight
      BY <3>1, PreflightMoves
    <3>2. CASE SetSecrets \/ Build \/ Inspect \/ Stop \/ Backup \/ Cutover
      BY <3>2 DEF SetSecrets, Build, Inspect, Stop, Backup, Cutover, Goto, GotoWith, Fail
    <3>3. CASE Remove \/ Activate \/ Verify \/ Publish
      BY <3>3 DEF Remove, Activate, Verify, Publish, Goto, GotoWith, RollBack
    <3>4. CASE CommitRelease \/ CommitRow \/ CommitCurrent \/ CommitStorage
      BY <3>4 DEF CommitRelease, CommitRow, CommitCurrent, CommitStorage, Goto, GotoWith,
         RollBack
    <3> QED
      BY <1>3, <3>1, <3>2, <3>3, <3>4 DEF Forward
  <2> QED
    BY <1>3, <1>w, <2>1 DEF Step
<1>4. CASE Complete
  <2>1. ctr = Containers(cand, secrets, N, N) /\ row.status = "running"
    BY <1>4 DEF Complete, ServesInv, Verified, Published, ReleaseCommitted, RowCommitted,
       StorageCommitted
  <2>2. ctr.up > 0 /\ ctr.up = ctr.made
    BY <2>1, NIsPositive DEF Containers
  <2> QED
    BY <1>4, <1>w, <2>1, <2>2 DEF Complete, GotoWith, world, Step, Forward
<1>5. CASE Back
  <2>1. pc' \notin {"load", "mark", "idle", "fail_op", "wrap_failed"} /\ pc # "idle" /\ ctxDone' = ctxDone
    BY <1>5 DEF Back, ResumeSecrets, ResumeStart, UndoSecrets, UndoRemove, UndoDeploy,
       UndoStorage, UndoRow, UndoRoute, UndoStop, SecretsBack, Goto, GotoWith
  <2> QED
    BY <1>5, <1>w, <2>1 DEF Step
<1>6. CASE FailSecrets \/ FailRelease
  BY <1>6, <1>w DEF FailSecrets, FailRelease, SecretsBack, Goto, GotoWith, Step, Out
<1>7. CASE FailRow
  <2>1. /\ row' = [row EXCEPT !.status = IF tx.recovered = "no" THEN "error" ELSE tx.recovered]
        /\ pc = "fail_row" /\ pc' = "fail_op" /\ ctr' = ctr /\ ctxDone' = ctxDone
    BY <1>7 DEF FailRow, BgFails, Goto, world
  <2>2. row'.status = IF tx.recovered = "no" THEN "error" ELSE tx.recovered
    BY <1>c, <2>1 DEF Rows
  <2> QED
    BY <1>7, <1>w, <1>c, <2>1, <2>2 DEF RuntimeInv, Leaving, Step, Out, Txs
<1>8. CASE FailOp
  BY <1>8, <1>w DEF FailOp, Goto, world, Step, Out
<1>9. CASE WrapUp
  <2>1. CASE pc = "wrap_completed"
    <3>1. ctr = Containers(cand, secrets, N, N) /\ row.status = "running"
      BY <2>1 DEF ServesInv, Verified, Published, ReleaseCommitted, RowCommitted,
         StorageCommitted
    <3>2. ctr.up > 0 /\ ctr.up = ctr.made
      BY <3>1, NIsPositive DEF Containers
    <3> QED
      BY <1>9, <3>1, <3>2 DEF WrapUp, Goto, world
  <2> QED
    BY <1>9, <2>1 DEF WrapUp, Goto, world
<1>10. CASE CtxExpires \/ UNCHANGED vars
  BY <1>10 DEF CtxExpires, vars, db, world
<1> QED
  BY <1>1, <1>2, <1>3, <1>4, <1>5, <1>6, <1>7, <1>8, <1>9, <1>10 DEF Next, Step, Out

\* As long as the database takes its statements, an update that is over has left a
\* row that tells the truth of the containers: running when all there are run,
\* stopped when none does - however it failed and whatever it brought back.
THEOREM RowSaysWhatRuns == WriteFaults = FALSE /\ Spec => []RowTellsTruth
<1>1. Init => RowInv
  BY DEF Init, RowInv, RowTellsTruth
<1>2. WriteFaults = FALSE /\ TypeInv /\ ServesInv /\ RuntimeInv /\ RowInv /\ [Next]_vars => RowInv'
  BY RowStep, Zenon
<1>3. RowInv => RowTellsTruth
  BY DEF RowInv
<1> QED
  <2>1. ASSUME WriteFaults = FALSE
        PROVE  Spec => []RowTellsTruth
    <3>1. TypeInv /\ ServesInv /\ RuntimeInv /\ RowInv /\ [Next]_vars => RowInv'
      BY <2>1, <1>2
    <3> QED
      BY <1>1, <3>1, <1>3, OutcomeInvariant, RuntimeInvariant, PTL DEF Spec
  <2> QED
    BY <2>1, Zenon

----------------------------------------------------------------------------
(* What a rollback restores in the database                                 *)

\* What the update found is not forgotten while it runs.
LEMMA BeforeKept ==
    ASSUME Step \/ CtxExpires \/ UNCHANGED vars
    PROVE  before' = before
<1>1. CASE Preflight
  BY <1>1, PreflightMoves
<1>2. CASE Forward /\ ~Preflight
  BY <1>2 DEF Forward, Load, Mark, SetSecrets, Build, Inspect, Stop, Backup, Cutover, Remove,
     Activate, Verify, Publish, CommitRelease, CommitRow, CommitCurrent, CommitStorage, Complete
<1>3. CASE Back \/ Out
  BY <1>3 DEF Back, ResumeSecrets, ResumeStart, UndoSecrets, UndoRemove, UndoDeploy,
     UndoStorage, UndoRow, UndoRoute, UndoStop, Out, FailSecrets, FailRelease, FailRow, FailOp,
     WrapUp
<1>4. CASE CtxExpires \/ UNCHANGED vars
  BY <1>4 DEF CtxExpires, vars
<1> QED
  BY <1>1, <1>2, <1>3, <1>4 DEF Step

\* The steps at which the row has not been committed yet, and those that follow
\* its restoration.
Unpointed ==
    {"load", "mark", "preflight", "secrets", "build", "inspect", "stop", "backup",
     "cutover", "remove", "activate", "verify", "publish", "commit_release",
     "commit_row", "resume_secrets", "resume_start"}
RowRestored == {"undo_route", "undo_stop", "wrap_failed"} \cup Leaving

\* A row's release and compose file belong together, and a row is the one the
\* update found, up to its status.
Pointer(r) ==
    IF r.current = None THEN r.compose \in {Base, Bad} ELSE r.compose = r.current
PointsBack(r) == r.current = before.row.current /\ r.compose = before.row.compose

PointerInv ==
    /\ Pointer(row)
    /\ pc # "idle" => Pointer(before.row) /\ PointsBack(tx.app)
    /\ pc \in Unpointed => PointsBack(row)
    /\ pc \in RowRestored => PointsBack(row) \/ "state" \in tx.errs

\* Every action.
LEMMA PointerStep ==
    ASSUME TypeInv, RuntimeInv, ServesInv, PointerInv, [Next]_vars
    PROVE  PointerInv'
<1> USE DEF PointerInv, Pointer, PointsBack, Unpointed, RowRestored, Leaving
<1>c. row \in Rows /\ tx \in Txs /\ TypeOK
  BY DEF TypeInv, TypeOK
<1>r. (Step \/ CtxExpires \/ UNCHANGED vars) => Remembers /\ before' = before
  BY <1>c, StepRemembers, BeforeKept DEF RuntimeInv
<1>1. CASE \E r \in Releases : SubmitWeb(r) \/ SubmitCli(r)
  <2> PICK r \in Releases : SubmitWeb(r) \/ SubmitCli(r)
    BY <1>1
  <2>1. /\ pc' \in {"load", "mark"} /\ tx'.app = row /\ before'.row = row
        /\ row'.current = row.current /\ row'.compose = row.compose
    BY <1>c DEF SubmitWeb, SubmitCli, Fresh, Found, Rows
  <2> QED
    BY <2>1
<1>2. CASE Load
  <2>1. row' = row /\ pc = "load" /\ (tx' = tx \/ tx' = [tx EXCEPT !.app = row])
        /\ pc' \in {"mark", "wrap_failed"}
    BY <1>2 DEF Load, Goto, GotoWith, db
  <2>2. tx'.app \in {tx.app, row}
    BY <1>c, <2>1 DEF Txs
  <2> QED
    BY <1>2, <1>r, <2>1, <2>2 DEF Step, Forward
<1>3. CASE Mark
  <2>1. row'.current = row.current /\ row'.compose = row.compose
    BY <1>c, <1>3 DEF Mark, Rows
  <2> QED
    BY <1>3, <1>r, <2>1 DEF Mark, Goto, Step, Forward, Remembers
<1>4. CASE Preflight
  BY <1>4, <1>r, PreflightMoves DEF Step, Forward, Remembers
<1>5. CASE SetSecrets \/ Build \/ Inspect \/ Stop \/ Backup \/ Cutover
  <2>1. row' = row /\ pc \in Unpointed \ {"load"} /\ pc' \in Unpointed \cup {"fail_secrets"}
    BY <1>5 DEF SetSecrets, Build, Inspect, Stop, Backup, Cutover, Goto, GotoWith, Fail, db
  <2> QED
    BY <1>5, <1>r, <2>1 DEF Step, Forward, Remembers
<1>6. CASE Remove \/ Activate \/ Verify \/ Publish \/ CommitRelease
  <2>1. row' = row /\ pc \in Unpointed \ {"load"} /\ pc' \in Unpointed \cup {"undo_secrets"}
    BY <1>6 DEF Remove, Activate, Verify, Publish, CommitRelease, Goto, GotoWith, RollBack, db
  <2> QED
    BY <1>6, <1>r, <2>1 DEF Step, Forward, Remembers
<1>7. CASE CommitRow \/ CommitCurrent
  <2>1. pc \notin {"idle", "load"} /\ pc' \in {"commit_current", "commit_storage", "undo_secrets"}
    BY <1>7 DEF CommitRow, CommitCurrent, Goto, GotoWith, RollBack
  <2>2. cand # None
    BY <1>c, <2>1, NamesDiffer DEF TypeInv
  <2>3. Pointer(row')
    BY <1>c, <1>7, <2>2 DEF CommitRow, CommitCurrent, Rows, ServesInv, RowCommitted
  <2> QED
    BY <1>7, <1>r, <2>1, <2>3 DEF Step, Forward, Remembers
<1>8. CASE CommitStorage \/ Complete
  <2>1. /\ row' = row /\ pc \notin {"idle", "load"}
        /\ pc' \in {"complete", "undo_secrets", "wrap_completed", "idle"}
    BY <1>8 DEF CommitStorage, Complete, Goto, GotoWith, RollBack
  <2> QED
    BY <1>8, <1>r, <2>1 DEF Step, Forward, Remembers
<1>9. CASE Back /\ ~UndoRow
  <2>1. /\ row' = row /\ pc \notin {"idle", "load"}
        /\ \/ pc = "resume_secrets" /\ pc' = "resume_start"
           \/ pc = "resume_start" /\ pc' = "fail_secrets"
           \/ pc' \in {"undo_remove", "undo_deploy", "undo_storage", "undo_row"}
           \/ pc \in RowRestored /\ pc' \in RowRestored
    BY <1>9 DEF Back, ResumeSecrets, ResumeStart, UndoSecrets, UndoRemove, UndoDeploy,
       UndoStorage, UndoRoute, UndoStop, SecretsBack, Goto, GotoWith, db
  <2> QED
    BY <1>9, <1>r, <2>1 DEF Step, Remembers
<1>10. CASE UndoRow
  <2>1. /\ pc = "undo_row"
        /\ \/ row' = tx.app /\ pc' = "undo_route"
           \/ row' \in {row, tx.app} /\ pc' = "fail_secrets" /\ tx' = WithError("state")
    BY <1>10 DEF UndoRow, Goto, GotoWith
  <2> QED
    BY <1>10, <1>c, <1>r, <2>1, ErrorFields DEF Step, Back, Remembers
<1>11. CASE Out
  <2>1. /\ row'.current = row.current /\ row'.compose = row.compose /\ pc \notin {"idle", "load"}
        /\ \/ pc' = "idle"
           \/ pc \in RowRestored /\ pc' \in RowRestored
    BY <1>11, <1>c DEF Out, FailSecrets, FailRelease, FailRow, FailOp, WrapUp, SecretsBack,
       Goto, GotoWith, Rows
  <2> QED
    BY <1>11, <1>r, <2>1 DEF Step, Remembers
<1>12. CASE CtxExpires \/ UNCHANGED vars
  BY <1>12, <1>r DEF CtxExpires, vars, db
<1> QED
  BY <1>1, <1>2, <1>3, <1>4, <1>5, <1>6, <1>7, <1>8, <1>9, <1>10, <1>11, <1>12 DEF Next, Step,
     Forward

\* The steps at which the storage mappings have not been committed, and those
\* at which the update remembers the ones it found.
Unmapped == Unpointed \cup {"commit_current", "commit_storage"}
Unplanned == {"load", "mark", "preflight"}
StorageRestored == {"undo_row"} \cup RowRestored

StorageInv ==
    /\ pc \in Unmapped => storage = before.storage
    /\ pc \in StorageRestored => storage = before.storage \/ "state" \in tx.errs
    /\ pc \in Unmapped \cup {"undo_secrets", "undo_remove", "undo_deploy", "undo_storage"} =>
         pc \in Unplanned \/ tx.oldStorage = before.storage

\* Every action.
LEMMA StorageStep ==
    ASSUME TypeInv, RuntimeInv, StorageInv, [Next]_vars
    PROVE  StorageInv'
<1> USE DEF StorageInv, Unmapped, Unplanned, StorageRestored, Unpointed, RowRestored, Leaving
<1>c. tx \in Txs /\ TypeOK
  BY DEF TypeInv, TypeOK
<1>r. (Step \/ CtxExpires \/ UNCHANGED vars) => Remembers /\ before' = before
  BY <1>c, StepRemembers, BeforeKept DEF RuntimeInv
<1>1. CASE \E r \in Releases : SubmitWeb(r) \/ SubmitCli(r)
  <2> PICK r \in Releases : SubmitWeb(r) \/ SubmitCli(r)
    BY <1>1
  <2>1. pc' \in {"load", "mark"} /\ before'.storage = storage /\ storage' = storage
    <3>1. CASE SubmitWeb(r)
      BY <1>c, <3>1, Zenon DEF SubmitWeb, Found
    <3>2. CASE SubmitCli(r)
      BY <3>2, Zenon DEF SubmitCli, Found
    <3> QED
      BY <3>1, <3>2
  <2> QED
    BY <2>1
<1>2. CASE Load \/ Mark
  <2>1. storage' = storage /\ pc' \in {"mark", "preflight", "wrap_failed", "fail_op"} /\ pc \in {"load", "mark"}
    BY <1>2 DEF Load, Mark, Goto, GotoWith, db
  <2> QED
    BY <1>2, <1>r, <2>1 DEF Step, Forward, Remembers
<1>3. CASE Preflight
  <2>1. ASSUME NEW o, tx' = [tx EXCEPT !.old = o, !.oldStorage = storage]
        PROVE  tx'.oldStorage = storage
    BY <1>c, <2>1 DEF Txs
  <2>2. pc' = "secrets" => tx'.oldStorage = storage
    <3>1. "secrets" # "fail_secrets"
      OBVIOUS
    <3> QED
      BY <1>3, <2>1, <3>1, PreflightRemembers, Zenon
  <2>3. storage' = storage /\ pc = "preflight" /\ pc' \in {"secrets", "fail_secrets"}
    BY <1>3, PreflightMoves
  <2> QED
    BY <1>3, <1>r, <2>2, <2>3 DEF Step, Forward, Remembers
<1>4. CASE SetSecrets \/ Build \/ Inspect \/ Stop \/ Backup \/ Cutover
  <2>1. /\ storage' = storage /\ pc \in Unpointed \ Unplanned
        /\ pc' \in (Unpointed \ Unplanned) \cup {"fail_secrets"}
    BY <1>4 DEF SetSecrets, Build, Inspect, Stop, Backup, Cutover, Goto, GotoWith, Fail, db
  <2> QED
    BY <1>4, <1>r, <2>1 DEF Step, Forward, Remembers
<1>5. CASE Remove \/ Activate \/ Verify \/ Publish \/ CommitRelease \/ CommitRow \/ CommitCurrent
  <2>1. /\ storage' = storage /\ pc \in Unmapped \ Unplanned
        /\ pc' \in (Unmapped \ Unplanned) \cup {"undo_secrets"}
    BY <1>5 DEF Remove, Activate, Verify, Publish, CommitRelease, CommitRow, CommitCurrent, Goto,
       GotoWith, RollBack, db
  <2> QED
    BY <1>5, <1>r, <2>1 DEF Step, Forward, Remembers
<1>6. CASE CommitStorage \/ Complete
  <2>1. /\ pc = "commit_storage" /\ pc' \in {"complete", "undo_secrets"}
        \/ pc' \in {"wrap_completed", "idle"}
    BY <1>6 DEF CommitStorage, Complete, Goto, GotoWith, RollBack
  <2> QED
    BY <1>6, <1>r, <2>1 DEF Step, Forward, Remembers
<1>7. CASE Back /\ ~UndoStorage
  <2>1. /\ storage' = storage
        /\ \/ pc = "resume_secrets" /\ pc' = "resume_start"
           \/ pc = "resume_start" /\ pc' = "fail_secrets"
           \/ /\ pc \in {"undo_secrets", "undo_remove", "undo_deploy"}
              /\ pc' \in {"undo_remove", "undo_deploy", "undo_storage"}
           \/ pc \in StorageRestored /\ pc' \in StorageRestored
    BY <1>7 DEF Back, ResumeSecrets, ResumeStart, UndoSecrets, UndoRemove, UndoDeploy,
       UndoRow, UndoRoute, UndoStop, SecretsBack, Goto, GotoWith, db
  <2> QED
    BY <1>7, <1>r, <2>1 DEF Step, Remembers
<1>8. CASE UndoStorage
  <2>1. /\ pc = "undo_storage" /\ pc' = "undo_row"
        /\ storage' = tx.oldStorage \/ tx' = WithError("state")
    BY <1>8 DEF UndoStorage, Goto, GotoWith
  <2> QED
    BY <1>8, <1>c, <1>r, <2>1, ErrorFields DEF Step, Back, Remembers
<1>9. CASE Out
  <2>1. /\ storage' = storage
        /\ \/ pc' = "idle"
           \/ pc \in RowRestored /\ pc' \in RowRestored
    BY <1>9 DEF Out, FailSecrets, FailRelease, FailRow, FailOp, WrapUp, SecretsBack, Goto, GotoWith
  <2> QED
    BY <1>9, <1>r, <2>1 DEF Step, Remembers
<1>10. CASE CtxExpires \/ UNCHANGED vars
  BY <1>10, <1>r DEF CtxExpires, vars, db
<1> QED
  BY <1>1, <1>2, <1>3, <1>4, <1>5, <1>6, <1>7, <1>8, <1>9, <1>10 DEF Next, Step, Forward

----------------------------------------------------------------------------
(* What a rollback restores of the containers                               *)

\* The steps before the containers are touched, those at which they are at most
\* stopped or started again, those behind the rebuilding of the previous
\* release, and all at which it is known whether the update stops anything.
Untouched == {"load", "mark", "preflight", "secrets", "build", "inspect"}
Stopping == {"stop", "backup", "cutover", "remove", "resume_secrets", "resume_start"}
Rebuilt == {"undo_storage", "undo_row", "undo_route", "undo_stop"}
Going == Stopping \cup Rebuilt \cup
         {"activate", "verify", "publish", "commit_release", "commit_row", "commit_current",
          "commit_storage", "undo_secrets", "undo_remove", "undo_deploy"}
OldKnown == {"secrets", "build", "inspect"} \cup Going

\* The containers are what the update found, up to a partly running app that
\* now runs in full.
CtrRestored ==
    /\ ctr.rel = (IF before.ctr.made = 0 /\ ctr.made = 0 THEN None ELSE before.row.compose)
    /\ ctr.up > 0 <=> before.ctr.up > 0
    /\ ctr.up \in {0, ctr.made}

\* The containers keep their release until they are removed; what is rebuilt is
\* the release the row named; it was running if and only if the update stopped
\* it. That is what a recovery without an error relies on.
RestoreInv ==
    /\ pc \in Untouched => ctr = before.ctr
    /\ pc \in Stopping => ctr.rel = before.ctr.rel /\ ctr.made = before.ctr.made
    /\ tx.recovered # "no" => tx.errs \cap Spoiling = {}
    /\ FoundSound =>
         /\ pc \in OldKnown => tx.old = before.row.compose
         /\ pc \in Going => (tx.weStopped <=> before.ctr.up > 0)
         /\ pc \in Rebuilt => "runtime" \in tx.errs \/ ctr.rel = tx.old
         /\ pc \in Leaving \cup {"wrap_failed"} /\ tx.recovered # "no" => CtrRestored
    /\ op = "rolled_back" => pc \in {"idle", "wrap_failed"} /\ tx.recovered # "no"
    /\ Over("rolled_back") =>
         /\ storage = before.storage /\ PointsBack(row)
         /\ FoundSound => CtrRestored

\* The previous release is the one the row names, if the row was read.
LEMMA OldIsCurrent ==
    ASSUME ReadFaults = FALSE, TypeOK, pc = "preflight", PointerInv, FoundSound,
           NEW o \in OldReleases
    PROVE  o = before.row.compose /\ o \in Sources
<1>1. o = IF row.current # None THEN row.current ELSE OldFromRow
  BY DEF OldReleases
<1>2. row.compose = before.row.compose /\ row.current = before.row.current /\ tx.app.compose = before.row.compose
  BY DEF PointerInv, PointsBack, Unpointed
<1>3. row.compose \in Sources /\ before.row.compose # Bad
  BY <1>2 DEF TypeOK, Rows, FoundSound
<1> QED
  BY <1>1, <1>2, <1>3 DEF PointerInv, Pointer, OldFromRow

\* Of a sound app, the update stops what runs.
LEMMA StopsWhatRuns ==
    ASSUME TypeOK, tx.old # None
    PROVE  MustStop <=> ctr.up > 0
BY NIsPositive DEF MustStop, OldServices, Status, TypeOK, ContainerSets

\* Every action.
LEMMA RestoreStep ==
    ASSUME ReadFaults = FALSE, TypeInv, SecretsInv, RuntimeInv, PointerInv, StorageInv, RestoreInv,
           [Next]_vars
    PROVE  RestoreInv'
<1> USE DEF RestoreInv, Untouched, Stopping, Rebuilt, Going, OldKnown, Leaving, Over
<1>c. /\ TypeOK /\ ctr \in ContainerSets /\ ctr.made \in Nat /\ ctr.up \in Nat
      /\ before.ctr \in ContainerSets /\ tx \in Txs
      /\ pc = "undo_deploy" => tx.old # None
  BY NIsPositive DEF TypeInv, TypeOK, ContainerSets
<1>r. (Step \/ CtxExpires \/ UNCHANGED vars) => Remembers /\ before' = before /\ (FoundSound' <=> FoundSound)
  BY <1>c, StepRemembers, BeforeKept DEF RuntimeInv, FoundSound
<1>a. /\ "rolled_back" \notin ActiveStatuses
      /\ pc \notin {"idle", "wrap_failed", "wrap_completed"} => IsActive
  BY DEF ActiveStatuses, SecretsInv, Wrapping
<1>1. CASE \E r \in Releases : SubmitWeb(r) \/ SubmitCli(r)
  <2> PICK r \in Releases : SubmitWeb(r) \/ SubmitCli(r)
    BY <1>1
  <2>1. /\ pc' \in {"load", "mark"} /\ before'.ctr = ctr /\ ctr' = ctr /\ op' = "preflighting"
        /\ tx'.recovered = "no"
    <3>1. CASE SubmitWeb(r)
      BY <1>c, <3>1, Zenon DEF SubmitWeb, Found, Fresh, world
    <3>2. CASE SubmitCli(r)
      BY <3>2, Zenon DEF SubmitCli, Found, Fresh, world
    <3> QED
      BY <3>1, <3>2
  <2> QED
    BY <2>1
<1>2. CASE Load \/ Mark \/ SetSecrets \/ Build
  <2>1. /\ ctr' = ctr /\ pc \in {"load", "mark", "secrets", "build"}
        /\ op' = op \/ op' = "building"
        /\ \/ pc' \in {"mark", "preflight", "fail_op", "fail_secrets", "wrap_failed"}
           \/ pc = "secrets" /\ pc' = "build"
           \/ pc = "build" /\ pc' = "inspect"
    BY <1>2 DEF Load, Mark, SetSecrets, Build, Announced, NotAnnounced, Goto, GotoWith, Fail, db, world
  <2>2. tx'.recovered = "no"
    BY <1>2, <1>r, <2>1 DEF Step, Forward, Remembers, RuntimeInv
  <2> QED
    BY <1>2, <1>r, <1>a, <2>1, <2>2 DEF Step, Forward, Remembers, IsActive
<1>3. CASE Preflight
  <2>1. /\ ctr' = ctr /\ op' = op /\ pc = "preflight" /\ pc' \in {"secrets", "fail_secrets"}
    BY <1>3, PreflightMoves
  <2>2. tx'.recovered = "no"
    BY <1>3, <1>r, <2>1 DEF Step, Forward, Remembers, RuntimeInv
  <2>3. ASSUME NEW o \in OldReleases, tx' = [tx EXCEPT !.old = o, !.oldStorage = storage], FoundSound
        PROVE  tx'.old = before.row.compose
    <3>1. o = before.row.compose
      BY <1>c, <2>1, <2>3, OldIsCurrent
    <3>2. tx'.old = o
      BY <1>c, <2>3 DEF Txs
    <3> QED
      BY <3>1, <3>2
  <2>4. FoundSound /\ pc' = "secrets" => tx'.old = before.row.compose
    <3>1. "secrets" # "fail_secrets"
      OBVIOUS
    <3> QED
      BY <1>3, <2>3, <3>1, PreflightRemembers, Zenon
  <2> QED
    BY <1>3, <1>r, <1>a, <2>1, <2>2, <2>4 DEF Step, Forward, IsActive
<1>4. CASE Inspect
  <2>1. /\ ctr' = ctr /\ op' \in {op, "backing_up"} /\ pc = "inspect"
        /\ \/ pc' = "fail_secrets"
           \/ pc' \in {"stop", "backup"} /\ tx' = [tx EXCEPT !.weStopped = MustStop]
    BY <1>4 DEF Inspect, Announced, NotAnnounced, GotoWith, Fail, world
  <2>2. tx'.recovered = "no"
    BY <1>4, <1>r, <2>1 DEF Step, Forward, Remembers, RuntimeInv
  <2>3. pc' \in {"stop", "backup"} => tx'.weStopped = MustStop /\ tx'.old = tx.old
    BY <1>c, <2>1 DEF Txs
  <2>4. FoundSound => tx.old # None
    <3>1. FoundSound => before.row.compose \in Sources
      BY <1>c DEF FoundSound, TypeOK, Rows
    <3> QED
      BY <2>1, <3>1, NamesDiffer DEF Sources
  <2>5. FoundSound => (MustStop <=> ctr.up > 0)
    BY <1>c, <2>4, StopsWhatRuns
  <2> QED
    BY <1>4, <1>r, <1>a, <2>1, <2>2, <2>3, <2>5 DEF Step, Forward, IsActive
<1>5. CASE Stop \/ Backup \/ Cutover
  <2>1. /\ ctr'.rel = ctr.rel /\ ctr'.made = ctr.made
    <3>1. ctr' \in {ctr, AllStopped(ctr)} \cup SomeStopped(ctr)
      BY <1>5 DEF Stop, Backup, Cutover, After, world
    <3> QED
      BY <1>c, <3>1 DEF AllStopped, SomeStopped, ContainerSets
  <2>2. /\ pc \in {"stop", "backup", "cutover"} /\ op' \in {op, "cutting_over"}
        /\ pc' \in {"backup", "cutover", "remove", "resume_secrets", "fail_secrets"}
    BY <1>5 DEF Stop, Backup, Cutover, Announced, NotAnnounced, Goto, GotoWith, Fail, db
  <2>3. tx'.recovered = "no"
    BY <1>5, <1>r, <2>2 DEF Step, Forward, Remembers, RuntimeInv
  <2> QED
    BY <1>5, <1>r, <1>a, <2>1, <2>2, <2>3 DEF Step, Forward, Remembers, IsActive
<1>6. CASE Remove \/ Activate \/ Verify \/ Publish \/ CommitRelease \/ CommitRow \/ CommitCurrent
           \/ CommitStorage \/ Complete
  <2>1. /\ pc \in Going \cup {"complete"} /\ pc \notin Rebuilt \cup {"resume_start", "undo_remove"}
        /\ op' \in {op, "verifying", "completed"}
        /\ \/ pc' \in {"complete", "wrap_completed", "idle"}
           \/ pc # "complete" /\ pc' \in Going \ (Stopping \cup Rebuilt)
    <3>1. CASE Remove \/ Activate \/ Verify \/ Publish
      BY <3>1 DEF Remove, Activate, Verify, Publish, Announced, NotAnnounced, Goto, GotoWith,
         RollBack, db
    <3>2. CASE CommitRelease \/ CommitRow \/ CommitCurrent \/ CommitStorage \/ Complete
      BY <3>2 DEF CommitRelease, CommitRow, CommitCurrent, CommitStorage, Complete, Finished, Goto,
         GotoWith, RollBack
    <3> QED
      BY <1>6, <3>1, <3>2
  <2>2. tx'.recovered = "no"
    BY <1>6, <1>r, <2>1 DEF Step, Forward, Remembers, RuntimeInv
  <2> QED
    BY <1>6, <1>r, <1>a, <2>1, <2>2 DEF Step, Forward, Remembers, IsActive
<1>7. CASE ResumeSecrets \/ UndoSecrets
  <2>1. /\ ctr' = ctr /\ op' = op /\ pc # "preflight"
        /\ \/ pc = "resume_secrets" /\ pc' = "resume_start"
           \/ pc = "undo_secrets" /\ pc' = "undo_remove"
    BY <1>7, <1>c, SecretsBackFields DEF ResumeSecrets, UndoSecrets, world
  <2>2. tx'.recovered = "no"
    BY <1>7, <1>r, <2>1 DEF Step, Back, Remembers, RuntimeInv
  <2> QED
    BY <1>7, <1>r, <1>a, <2>1, <2>2 DEF Step, Back, Remembers, IsActive
<1>8. CASE ResumeStart
  <2>1. /\ pc = "resume_start" /\ pc' = "fail_secrets" /\ op' = op /\ tx.recovered = "no"
        /\ \/ tx' = WithError("restart")
           \/ tx' = Recovery(tx) /\ ~tx.weStopped /\ ctr' = ctr
           \/ tx' = Recovery(tx) /\ ctr' = AllStarted(ctr) /\ ctr.made > 0 /\ tx.weStopped
    BY <1>8 DEF ResumeStart, GotoWith, CanHandle, db, RuntimeInv
  <2>2. /\ AllStarted(ctr).up = ctr.made /\ AllStarted(ctr).made = ctr.made
        /\ AllStarted(ctr).rel = ctr.rel
    BY <1>c DEF AllStarted, ContainerSets
  <2>3. CASE tx' = WithError("restart")
    BY <1>8, <1>c, <1>r, <1>a, <2>1, <2>3, ErrorFields DEF Step, Back, IsActive
  <2>4. CASE /\ tx' = Recovery(tx)
             /\ \/ ~tx.weStopped /\ ctr' = ctr
                \/ ctr' = AllStarted(ctr) /\ ctr.made > 0 /\ tx.weStopped
    <3>1. tx'.recovered # "no" => tx'.errs \cap Spoiling = {}
      BY <1>c, <2>4, RecoveryFields
    <3>2. FoundSound => ctr.made = 0 \/ ctr.rel = before.row.compose
      BY <2>1 DEF FoundSound
    <3>3. ctr.made = 0 => ctr.rel = None
      BY <1>c DEF ContainerSets
    <3>4. /\ ctr'.rel = ctr.rel /\ ctr'.made = ctr.made
          /\ ctr'.up = IF tx.weStopped THEN ctr.made ELSE 0
          /\ tx.weStopped => ctr.made > 0
      BY <2>1, <2>2, <2>4 DEF RuntimeInv
    <3>5. before' = before /\ before.ctr.made = ctr.made
      BY <1>8, <1>r, <2>1 DEF Step, Back
    <3>6. FoundSound => (tx.weStopped <=> before.ctr.up > 0)
      BY <2>1
    <3>7. FoundSound => CtrRestored'
      BY <1>c, <3>2, <3>3, <3>4, <3>5, <3>6 DEF CtrRestored
    <3> QED
      BY <1>8, <1>r, <1>a, <2>1, <3>1, <3>7 DEF Step, Back, IsActive
  <2> QED
    BY <2>1, <2>3, <2>4
<1>9. CASE UndoRemove
  <2>1. /\ pc = "undo_remove" /\ op' = op
        /\ \/ pc' = "undo_deploy" /\ tx' = tx
           \/ pc' = "undo_storage" /\ tx' = WithError("runtime")
    BY <1>9 DEF UndoRemove, Goto, GotoWith, db
  <2>2. tx'.recovered = "no"
    BY <1>9, <1>r, <2>1 DEF Step, Back, Remembers, RuntimeInv
  <2> QED
    BY <1>9, <1>c, <1>r, <1>a, <2>1, <2>2, ErrorFields DEF Step, Back, Remembers, IsActive
<1>10. CASE UndoDeploy
  <2>1. /\ pc = "undo_deploy" /\ op' = op /\ pc' = "undo_storage"
        /\ ctr' = Containers(tx.old, secrets, N, N) \/ tx' = WithError("runtime")
    BY <1>10 DEF UndoDeploy, Goto, GotoWith, db
  <2>2. Containers(tx.old, secrets, N, N).rel = tx.old
    BY NIsPositive DEF Containers
  <2>3. tx'.recovered = "no"
    BY <1>10, <1>r, <2>1 DEF Step, Back, Remembers, RuntimeInv
  <2> QED
    BY <1>10, <1>c, <1>r, <1>a, <2>1, <2>2, <2>3, ErrorFields DEF Step, Back, Remembers, IsActive
<1>11. CASE UndoStorage \/ UndoRow
  <2>1. /\ pc \in {"undo_storage", "undo_row"} /\ op' = op /\ ctr' = ctr
        /\ pc' \in {"undo_row", "undo_route", "fail_secrets"}
    BY <1>11 DEF UndoStorage, UndoRow, Goto, GotoWith, world
  <2>2. tx'.recovered = "no"
    BY <1>11, <1>r, <2>1 DEF Step, Back, Remembers, RuntimeInv
  <2> QED
    BY <1>11, <1>r, <1>a, <2>1, <2>2 DEF Step, Back, Remembers, IsActive
<1>12. CASE UndoRoute
  <2> DEFINE t == Recovery(tx)
             w == IF t.recovered = "stopped" THEN "no" ELSE t.recovered
  <2>1. /\ pc = "undo_route" /\ ctr' = ctr /\ op' = op /\ tx.recovered = "no"
        /\ \/ pc' = "fail_secrets" /\ tx' = WithError("state")
           \/ /\ pc' = (IF t.recovered = "stopped" THEN "undo_stop" ELSE "fail_secrets")
              /\ tx' = [t EXCEPT !.recovered = w]
    BY <1>12 DEF UndoRoute, GotoWith, db, RuntimeInv
  <2>2. CASE pc' = "fail_secrets" /\ tx' = WithError("state")
    BY <1>12, <1>c, <1>r, <1>a, <2>1, <2>2, ErrorFields DEF Step, Back, IsActive
  <2>3. CASE /\ pc' = (IF t.recovered = "stopped" THEN "undo_stop" ELSE "fail_secrets")
             /\ tx' = [t EXCEPT !.recovered = w]
    <3>1. t \in Txs
      BY <1>c, RecoveryType
    <3>2. tx'.recovered = w /\ tx'.errs = t.errs
      BY <2>3, <3>1 DEF Txs
    <3>3. /\ t.errs = tx.errs /\ t.weStopped = tx.weStopped
          /\ t.recovered = IF tx.errs \cap Spoiling # {} THEN "no"
                           ELSE IF tx.weStopped THEN "running" ELSE "stopped"
      BY <1>c, RecoveryFields
    <3>4. t.recovered # "no" => "runtime" \notin tx.errs
      BY <3>3 DEF Spoiling
    <3>5. tx'.recovered # "no" => tx'.errs \cap Spoiling = {} /\ tx.weStopped
      BY <3>2, <3>3
    <3>6. FoundSound /\ tx'.recovered # "no" => CtrRestored'
      <4> SUFFICES ASSUME FoundSound, tx'.recovered # "no" PROVE CtrRestored'
        OBVIOUS
      <4>1. "runtime" \notin tx.errs
        BY <3>2, <3>4
      <4>2. ctr.made = N /\ ctr.up = N /\ ctr.rel = before.row.compose /\ before.ctr.up > 0
        BY <2>1, <3>5, <4>1 DEF RuntimeInv
      <4> QED
        BY <1>12, <1>r, <2>1, <4>2, NIsPositive DEF CtrRestored, Step, Back
    <3> QED
      BY <1>12, <1>r, <1>a, <2>1, <2>3, <3>2, <3>5, <3>6 DEF Step, Back, Remembers, IsActive
  <2> QED
    BY <2>1, <2>2, <2>3
<1>13. CASE UndoStop
  <2>1. /\ pc = "undo_stop" /\ pc' = "fail_secrets" /\ op' = op /\ tx.recovered = "no"
        /\ \/ tx' = WithError("restart")
           \/ tx' = Recovery(tx) /\ ctr' = AllStopped(ctr)
    BY <1>13 DEF UndoStop, GotoWith, db, RuntimeInv
  <2>2. AllStopped(ctr).up = 0 /\ AllStopped(ctr).made = ctr.made /\ AllStopped(ctr).rel = ctr.rel
    BY <1>c DEF AllStopped, ContainerSets
  <2>3. CASE tx' = WithError("restart")
    BY <1>13, <1>c, <1>r, <1>a, <2>1, <2>3, ErrorFields DEF Step, Back, IsActive
  <2>4. CASE tx' = Recovery(tx) /\ ctr' = AllStopped(ctr)
    <3>1. tx'.recovered # "no" => tx'.errs \cap Spoiling = {}
      BY <1>c, <2>4, RecoveryFields
    <3>2. "runtime" \notin tx.errs /\ ~tx.weStopped
      BY <2>1 DEF RuntimeInv, Spoiling
    <3>3. FoundSound => ctr.made = N /\ ctr.rel = before.row.compose /\ ~(before.ctr.up > 0)
      BY <2>1, <3>2 DEF RuntimeInv
    <3>4. FoundSound => CtrRestored'
      BY <1>13, <1>r, <2>2, <2>4, <3>3, NIsPositive DEF CtrRestored, Step, Back
    <3> QED
      BY <1>13, <1>r, <1>a, <2>1, <3>1, <3>4 DEF Step, Back, IsActive
  <2> QED
    BY <2>1, <2>3, <2>4
<1>14. CASE FailSecrets \/ FailRelease \/ FailRow
  <2>1. /\ pc \in {"fail_secrets", "fail_release", "fail_row"} /\ ctr' = ctr /\ op' = op
        /\ pc' \in {"fail_release", "fail_row", "fail_op"}
    BY <1>14, <1>c, SecretsBackFields DEF FailSecrets, FailRelease, FailRow, Goto, world
  <2>2. tx'.recovered # "no" =>
          tx'.recovered = tx.recovered /\ tx'.errs \cap Spoiling = tx.errs \cap Spoiling
    BY <1>14, <1>r, <2>1 DEF Step, Out, Remembers
  <2> QED
    BY <1>14, <1>r, <1>a, <2>1, <2>2 DEF Step, Out, CtrRestored, IsActive
<1>15. CASE FailOp
  <2>1. /\ pc = "fail_op" /\ pc' \in {"wrap_failed", "idle"} /\ tx' = tx
        /\ UNCHANGED <<row, storage, ctr>>
        /\ op' = op \/ op' = Outcome
    BY <1>15 DEF FailOp, Finished, Goto, world
  <2>2. op' = "rolled_back" => tx.recovered # "no"
    BY <1>a, <2>1 DEF Outcome, IsActive
  <2>3. tx.recovered # "no" => storage = before.storage /\ PointsBack(row)
    BY <2>1 DEF StorageInv, StorageRestored, PointerInv, RowRestored, Spoiling
  <2> QED
    BY <1>15, <1>r, <2>1, <2>2, <2>3 DEF Step, Out, CtrRestored, PointsBack
<1>16. CASE WrapUp
  <2>1. /\ pc \in {"wrap_failed", "wrap_completed"} /\ pc' = "idle" /\ tx' = tx
        /\ UNCHANGED <<row, storage, ctr>>
        /\ op' \in {op, "failed", "completed"}
    BY <1>16 DEF WrapUp, Finished, Goto, world
  <2>2. pc = "wrap_failed" /\ tx.recovered # "no" => storage = before.storage /\ PointsBack(row)
    BY DEF StorageInv, StorageRestored, PointerInv, RowRestored, Spoiling
  <2> QED
    BY <1>16, <1>r, <2>1, <2>2 DEF Step, Out, CtrRestored, PointsBack
<1>17. CASE CtxExpires \/ UNCHANGED vars
  BY <1>17, <1>r DEF CtxExpires, vars, db, world, CtrRestored, PointsBack
<1> QED
  BY <1>1, <1>2, <1>3, <1>4, <1>5, <1>6, <1>7, <1>8, <1>9, <1>10, <1>11, <1>12, <1>13, <1>14,
     <1>15, <1>16, <1>17 DEF Next, Step, Forward, Back, Out

\* An update that says it rolled back has restored a sound app in full: the release,
\* what ran, the secrets, the storage mappings and the row - after any failure of
\* the runtime and of the database's statements, and after any earlier updates. Only
\* its queries must work: one that cannot read the current release takes the app for
\* one that has none.
THEOREM RollbackRestores == ReadFaults = FALSE /\ Spec => []RolledBackRestores
<1>1. Init => PointerInv /\ StorageInv /\ RestoreInv
  <2> SUFFICES ASSUME Init PROVE PointerInv /\ StorageInv /\ RestoreInv
    OBVIOUS
  <2>1. pc = "idle" /\ op = "none" /\ tx.recovered = "no"
    BY DEF Init
  <2>2. row.current = None /\ row.compose \in {Base, Bad}
    BY DEF Init
  <2> QED
    BY <2>1, <2>2 DEF PointerInv, Pointer, StorageInv, RestoreInv, Unpointed, RowRestored,
       Leaving, Unmapped, StorageRestored, Untouched, Stopping, Rebuilt, Going, OldKnown, Over
<1>2. ReadFaults = FALSE /\ TypeInv /\ SecretsInv /\ ServesInv /\ RuntimeInv /\ PointerInv
        /\ StorageInv /\ RestoreInv /\ [Next]_vars => (PointerInv /\ StorageInv /\ RestoreInv)'
  BY PointerStep, StorageStep, RestoreStep, Zenon
<1>3. SecretsInv /\ RestoreInv => RolledBackRestores
  BY DEF SecretsInv, SecretsUndone, RestoreInv, RolledBackRestores, CtrRestored, PointsBack, Over
<1> QED
  <2>1. ASSUME ReadFaults = FALSE
        PROVE  Spec => []RolledBackRestores
    <3>1. TypeInv /\ SecretsInv /\ ServesInv /\ RuntimeInv /\ PointerInv /\ StorageInv /\ RestoreInv
            /\ [Next]_vars => (PointerInv /\ StorageInv /\ RestoreInv)'
      BY <2>1, <1>2, Zenon
    <3> QED
      BY <1>1, <3>1, <1>3, OutcomeInvariant, RuntimeInvariant, PTL DEF Spec
  <2> QED
    BY <2>1, Zenon
====
