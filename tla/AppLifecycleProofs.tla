--------------------------- MODULE AppLifecycleProofs ---------------------------
(***************************************************************************)
(* Proofs about AppLifecycle for any number of requests, commands,         *)
(* versions, failing calls and crashes.                                    *)
(***************************************************************************)
EXTENDS AppLifecycle, TLAPS

----------------------------------------------------------------------------
(* Types                                                                    *)

Locals == [kind : WebKinds \cup CliKinds \cup {"none"}, row : Rows, src : Opt(Versions),
           git : BOOLEAN, fresh : BOOLEAN, upd : BOOLEAN]
Containers == [spec : Opt(Versions), src : Opt(Versions), on : Running, checked : BOOLEAN]
Operations == [holder : Opt(Tasks), upd : BOOLEAN,
               state : {"none", "active", "completed", "failed", "rolled_back", "interrupted"}]

HistoryOK ==
    /\ struck \in 0..MaxFaults /\ sole \in Opt(Tasks) \cup {"startup"}
    /\ faults \subseteq Faults \ {"none"}
    /\ sound \in BOOLEAN /\ bare \in BOOLEAN /\ wanted \in {"any", "up", "down", "dark"}

TypeInv ==
    /\ row \in Rows /\ op \in Operations
    /\ checkout \in Opt(Versions) /\ dirs \subseteq Versions
    /\ live \in Containers /\ route \in {"none", "live", "old"}
    /\ pc \in [Tasks -> Steps] /\ my \in [Tasks -> Locals]
    /\ up \in BOOLEAN /\ crashes \in 0..MaxCrashes
    /\ rc \in {"off", "list", "look", "start", "sync"} /\ rcRow \in Rows
    /\ HistoryOK

----------------------------------------------------------------------------
(* What the steps are made of                                               *)

\* A task goes on, and nobody else.
Moves(t, step) ==
    /\ pc' \in [Tasks -> Steps] /\ pc'[t] = step /\ \A u \in Tasks \ {t} : pc'[u] = pc[u]

\* Go only moves a task.
LEMMA GoFacts ==
    ASSUME TypeInv, NEW t \in Tasks, NEW step \in Steps, Go(t, step)
    PROVE  Moves(t, step)
BY DEF TypeInv, Go, Moves

\* A task changes variables of its own, but not what was asked of it.
Sets(t) ==
    /\ my' \in [Tasks -> Locals] /\ \A u \in Tasks \ {t} : my'[u] = my[u]
    /\ my'[t].kind = my[t].kind /\ my'[t].upd = my[t].upd

\* A row and its copy differ in the status.
SameRow(r, s) == /\ r.there = s.there /\ r.type = s.type /\ r.compose = s.compose
                 /\ r.release = s.release

\* What a task remembers of a row.
LEMMA CopyFacts ==
    ASSUME NEW r \in Rows
    PROVE  Copy(r) \in Rows /\ SameRow(Copy(r), r)
BY DEF Copy, Rows, SameRow

\* A task remembers the row.
LEMMA KeepRowFacts ==
    ASSUME TypeInv, NEW t \in Tasks, row' \in Rows, my' = [my EXCEPT ![t].row = Copy(row')]
    PROVE  /\ Sets(t) /\ SameRow(my'[t].row, row')
           /\ my'[t].src = my[t].src /\ my'[t].git = my[t].git /\ my'[t].fresh = my[t].fresh
<1>1. Copy(row') \in Rows /\ SameRow(Copy(row'), row')
  BY CopyFacts
<1>2. PICK c : c = Copy(row')
  OBVIOUS
<1>3. my' = [my EXCEPT ![t].row = c] /\ c \in Rows
  BY <1>1, <1>2
<1>4. /\ Sets(t) /\ my'[t].row = c /\ my'[t].src = my[t].src /\ my'[t].git = my[t].git
      /\ my'[t].fresh = my[t].fresh
  BY <1>3 DEF TypeInv, Sets, Locals
<1> QED
  BY <1>1, <1>2, <1>4

\* A task reads its source.
LEMMA KeepSourceFacts ==
    ASSUME TypeInv, NEW t \in Tasks, NEW v \in Opt(Versions), my' = [my EXCEPT ![t].src = v]
    PROVE  /\ Sets(t) /\ my'[t].src = v
           /\ my'[t].row = my[t].row /\ my'[t].git = my[t].git /\ my'[t].fresh = my[t].fresh
BY DEF TypeInv, Sets, Locals

\* A status is written to a row that is there.
Status(s) == /\ row' \in Rows /\ SameRow(row', row) /\ (row.there => row'.status = s)
             /\ (~row.there => row' = row)

\* SetStatus writes no more than that.
LEMMA StatusFacts ==
    ASSUME TypeInv, NEW s \in {"pending", "running", "stopped", "error", "updating"}, SetStatus(s)
    PROVE  Status(s)
BY DEF TypeInv, SetStatus, Rows, SameRow, Status

\* What a sync makes of the route.
LEMMA SyncedFacts ==
    ASSUME TypeInv, NEW r, NEW x \in Synced(r)
    PROVE  /\ x \in {"live", "none"}
           /\ x = "live" => r.compose # None /\ live.on # "none"
           /\ r.compose # None /\ live.on = "all" => x = "live"
BY DEF Synced

\* Containers are what they are of, and how they run.
LEMMA ContainersFacts ==
    ASSUME NEW c \in Containers
    PROVE  /\ c = [spec |-> c.spec, src |-> c.src, on |-> c.on, checked |-> c.checked]
           /\ c = NoContainers <=> c.spec = None /\ c.src = None /\ c.on = "none" /\ c.checked = FALSE
<1>1. c = [spec |-> c.spec, src |-> c.src, on |-> c.on, checked |-> c.checked]
  BY DEF Containers
<1> QED
  BY <1>1 DEF NoContainers

\* Containers that run otherwise are the same containers.
LEMMA OnFacts ==
    ASSUME TypeInv, NEW on \in Running, live' = [live EXCEPT !.on = on]
    PROVE  /\ live' \in Containers /\ live'.spec = live.spec /\ live'.src = live.src
           /\ live'.checked = live.checked /\ live'.on = on
           /\ live = NoContainers /\ on = "none" => live' = NoContainers
           /\ live' = NoContainers => live.src = None
<1>1. /\ live \in Containers /\ live' \in Containers /\ live'.spec = live.spec
      /\ live'.src = live.src /\ live'.checked = live.checked /\ live'.on = on
  BY DEF TypeInv, Containers
<1>2. live = NoContainers /\ on = "none" => live' = NoContainers
  BY <1>1, ContainersFacts
<1>3. live' = NoContainers => live.src = None
  BY <1>1, ContainersFacts
<1> QED
  BY <1>1, <1>2, <1>3

\* All or some of the containers are started.
LEMMA StartAllFacts ==
    ASSUME TypeInv, StartAll
    PROVE  /\ live' \in Containers /\ live'.spec = live.spec /\ live'.src = live.src
           /\ live'.checked = live.checked /\ live'.on # "none" /\ live' # NoContainers
           /\ live.checked => live'.on = "all"
<1>1. "all" \in Running /\ "some" \in Running /\ NoContainers.on = "none"
  BY DEF Running, NoContainers
<1>2. CASE live' = Started
  BY <1>1, <1>2, OnFacts DEF Started
<1>3. CASE ~live.checked /\ live' = [live EXCEPT !.on = "some"]
  BY <1>1, <1>3, OnFacts
<1> QED
  BY <1>2, <1>3 DEF StartAll

\* Containers are removed, all or some of them.
Removed(whole) ==
    /\ live' \in Containers /\ route' \in {"none", "live", "old"}
    /\ whole => live' = NoContainers /\ route' # "live"
    /\ (live'.spec = live.spec /\ live'.src = live.src) \/ live' = NoContainers
    /\ live' = live \/ ~live'.checked
    /\ live' = live \/ live'.on # "all"
    /\ live = NoContainers => live' = NoContainers

\* Both kinds of removal are such.
LEMMA RemoveFacts ==
    ASSUME TypeInv
    PROVE  /\ RemoveAll => Removed(TRUE) /\ route' = Outdated
           /\ RemoveSome => Removed(FALSE)
<1>1. NoContainers \in Containers /\ NoContainers.on = "none" /\ NoContainers.checked = FALSE
  BY DEF NoContainers, Containers, Opt, Running
<1>2. Outdated \in {"none", "live", "old"} /\ Outdated # "live"
  BY DEF Outdated, TypeInv
<1>3. ASSUME NEW on \in Fewer \ {"all"}, live' = [live EXCEPT !.on = on, !.checked = FALSE]
      PROVE  /\ live' \in Containers /\ live'.spec = live.spec /\ live'.src = live.src
             /\ ~live'.checked /\ live'.on # "all"
             /\ (live = NoContainers => live' = NoContainers)
  <2>0. on \in Running /\ on # "all" /\ (live.on = "none" => on = "none") /\ live \in Containers
    BY <1>3 DEF Fewer, TypeInv
  <2> DEFINE l == [live EXCEPT !.on = on]
  <2>1. /\ l \in Containers /\ l.spec = live.spec /\ l.src = live.src /\ l.on = on
    BY <2>0 DEF Containers
  <2>2. live' = [l EXCEPT !.checked = FALSE]
    BY <1>3, Zenon
  <2> HIDE DEF l
  <2>3. /\ live' \in Containers /\ live'.spec = l.spec /\ live'.src = l.src /\ live'.on = l.on
        /\ live'.checked = FALSE
    BY <2>1, <2>2 DEF Containers
  <2>4. live = NoContainers => live' = NoContainers
    BY <1>1, <2>0, <2>1, <2>3, ContainersFacts
  <2> QED
    BY <2>0, <2>1, <2>3, <2>4
<1>4. RemoveAll => Removed(TRUE) /\ route' = Outdated
  BY <1>1, <1>2 DEF RemoveAll, Removed
<1>5. ASSUME RemoveSome PROVE Removed(FALSE)
  <2>1. CASE UNCHANGED <<live, route>>
    BY <2>1 DEF Removed, TypeInv
  <2>2. CASE /\ \E on \in Fewer \ {"all"} : live' = [live EXCEPT !.on = on, !.checked = FALSE]
             /\ route' \in {route, Outdated}
    <3>1. /\ live' \in Containers /\ live'.spec = live.spec /\ live'.src = live.src
          /\ ~live'.checked /\ live'.on # "all"
          /\ (live = NoContainers => live' = NoContainers)
      BY <1>3, <2>2, Zenon
    <3>2. route' \in {"none", "live", "old"}
      BY <1>2, <2>2 DEF TypeInv
    <3> QED
      BY <3>1, <3>2 DEF Removed
  <2> QED
    BY <1>5, <2>1, <2>2, Zenon DEF RemoveSome
<1> QED
  BY <1>4, <1>5, Zenon

----------------------------------------------------------------------------
(* From the request to the job                                              *)

\* A claim and the outcome of an operation.
Takes(t) == op' \in Operations /\ op'.holder = t /\ op'.state = "active"
Ends(t, s) ==
    /\ op' \in Operations /\ op'.holder = op.holder
    /\ IF op.holder = t /\ op.state = "active" THEN op'.state = s ELSE op' = op

\* Insert: a row that is remembered, or nothing.
LEMMA InsertFacts ==
    ASSUME TypeInv, NEW t \in Tasks, NEW f, Insert(t, f)
    PROVE  /\ pc[t] = "insert"
           /\ UNCHANGED <<op, dirs, live, route, up, crashes, rc, rcRow>>
           /\ \/ /\ f = "none" /\ Moves(t, "claim") /\ Sets(t) /\ SameRow(my'[t].row, row')
                 /\ my'[t].src = my[t].src /\ my'[t].git = my[t].git /\ my'[t].fresh = my[t].fresh
                 /\ row' \in Rows /\ row'.there /\ row'.release = None /\ row'.status = "pending"
                 /\ checkout' \in Opt(Versions)
                 /\ IF Kind(t) = "create" THEN row'.type = "git" /\ row'.compose = None
                    ELSE row'.compose # None
              \/ Moves(t, "done") /\ UNCHANGED <<row, checkout, my>>
<1>0. pc[t] = "insert" /\ UNCHANGED <<op, dirs, world, service>>
  BY Zenon DEF Insert
<1>1. UNCHANGED <<op, dirs, live, route, up, crashes, rc, rcRow>>
  BY <1>0 DEF world, service
<1>2. "claim" \in Steps /\ "done" \in Steps
  BY DEF Steps
<1>3. CASE Go(t, "done") /\ UNCHANGED <<row, checkout, my>>
  BY <1>0, <1>1, <1>2, <1>3, GoFacts
<1>4. CASE ~(Go(t, "done") /\ UNCHANGED <<row, checkout, my>>)
  <2>0. f = "none" /\ Go(t, "claim")
    BY <1>4, Zenon DEF Insert
  <2>1. PICK v \in Versions :
          /\ row' = [NoRow EXCEPT !.there = TRUE,
                       !.type = IF Kind(t) = "create" THEN "git" ELSE "drop",
                       !.compose = IF Kind(t) = "create" THEN None ELSE v]
          /\ checkout' = IF Kind(t) = "create" THEN None ELSE v
          /\ my' = [my EXCEPT ![t].row = Copy(row')]
    BY <1>4, Zenon DEF Insert
  <2> DEFINE type == IF Kind(t) = "create" THEN "git" ELSE "drop"
             compose == IF Kind(t) = "create" THEN None ELSE v
  <2>2. type \in {"git", "drop"} /\ compose \in Opt(Versions)
    BY DEF Opt
  <2>3. row' = [NoRow EXCEPT !.there = TRUE, !.type = type, !.compose = compose]
    BY <2>1, Zenon
  <2> HIDE DEF type, compose
  <2>a. /\ row' \in Rows /\ row'.there /\ row'.release = None /\ row'.status = "pending"
        /\ row'.type = type /\ row'.compose = compose
    BY <2>2, <2>3 DEF NoRow, Rows, Opt
  <2>4. v # None /\ checkout' \in Opt(Versions)
    BY <2>1, NoneIsNothing DEF Opt
  <2>5. /\ Sets(t) /\ SameRow(my'[t].row, row')
        /\ my'[t].src = my[t].src /\ my'[t].git = my[t].git /\ my'[t].fresh = my[t].fresh
    BY <2>1, <2>a, KeepRowFacts
  <2>6. f = "none" /\ Moves(t, "claim")
    BY <1>2, <2>0, GoFacts
  <2> QED
    BY <1>0, <1>1, <2>a, <2>4, <2>5, <2>6 DEF type, compose
<1> QED
  BY <1>3, <1>4

\* Overwrite: the row as it was remembered, or nothing.
LEMMA OverwriteFacts ==
    ASSUME TypeInv, NEW t \in Tasks, NEW f, Overwrite(t, f)
    PROVE  /\ pc[t] = "overwrite"
           /\ UNCHANGED <<op, checkout, dirs, live, route, up, crashes, rc, rcRow>>
           /\ \/ /\ f = "none" /\ row.there /\ Moves(t, "claim") /\ Sets(t)
                 /\ SameRow(my'[t].row, row') /\ SameRow(row', my[t].row) /\ row' \in Rows
                 /\ my'[t].src = my[t].src /\ my'[t].git = my[t].git /\ my'[t].fresh = my[t].fresh
              \/ Moves(t, "done") /\ UNCHANGED <<row, my>>
<1>0. pc[t] = "overwrite" /\ UNCHANGED <<op, disk, world, service>>
  BY Zenon DEF Overwrite
<1>a. UNCHANGED <<op, checkout, dirs, live, route, up, crashes, rc, rcRow>>
  BY <1>0 DEF disk, world, service
<1>1. \/ /\ f = "none" /\ row.there /\ Go(t, "claim")
         /\ row' = [my[t].row EXCEPT !.status = "pending"]
         /\ my' = [my EXCEPT ![t].row = Copy(row')]
      \/ Go(t, "done") /\ UNCHANGED <<row, my>>
  BY Zenon DEF Overwrite
<1>2. "claim" \in Steps /\ "done" \in Steps
  BY DEF Steps
<1>3. my[t].row \in Rows
  BY DEF TypeInv, Locals
<1>4. ASSUME row' = [my[t].row EXCEPT !.status = "pending"]
      PROVE  row' \in Rows /\ SameRow(row', my[t].row)
  BY <1>3, <1>4 DEF Rows, SameRow
<1> QED
  BY <1>0, <1>a, <1>1, <1>2, <1>4, KeepRowFacts, GoFacts

\* Claim: the operation is the task's, or it gives up.
LEMMA ClaimFacts ==
    ASSUME TypeInv, NEW t \in Tasks, NEW f, Claim(t, f)
    PROVE  /\ pc[t] = "claim"
           /\ UNCHANGED <<row, checkout, dirs, live, route, my, up, crashes, rc, rcRow>>
           /\ \/ f = "none" /\ row.there /\ Takes(t) /\ Moves(t, Claimed(t))
              \/ /\ op' = op
                 /\ Moves(t, "done") \/ (Kind(t) \in Creations /\ Moves(t, "rm_runtime"))
<1>1. Claimed(t) \in Steps /\ "done" \in Steps /\ "rm_runtime" \in Steps
  BY DEF Claimed, Steps
<1>0. pc[t] = "claim" /\ UNCHANGED <<row, disk, world, my, service>>
  BY Zenon DEF Claim
<1>a. UNCHANGED <<row, checkout, dirs, live, route, my, up, crashes, rc, rcRow>>
  BY <1>0 DEF disk, world, service
<1>2. \/ /\ f = "none" /\ row.there /\ Go(t, Claimed(t))
         /\ op' = [holder |-> t, state |-> "active", upd |-> Kind(t) = "update"]
      \/ /\ Go(t, IF Kind(t) \in Creations /\ t \notin CliTasks THEN "rm_runtime" ELSE "done")
         /\ op' = op
  BY Zenon DEF Claim
<1>3. ASSUME op' = [holder |-> t, state |-> "active", upd |-> Kind(t) = "update"]
      PROVE  Takes(t)
  <2>1. (Kind(t) = "update") \in BOOLEAN
    BY Zenon
  <2> QED
    BY <1>3, <2>1 DEF Takes, Operations, Opt
<1> QED
  BY <1>0, <1>a, <1>1, <1>2, <1>3, GoFacts

\* StoreSecrets: the job is queued, or the app goes again.
LEMMA SecretsFacts ==
    ASSUME TypeInv, NEW t \in Tasks, NEW f, StoreSecrets(t, f)
    PROVE  /\ pc[t] = "secrets"
           /\ UNCHANGED <<row, op, checkout, dirs, live, route, my, up, crashes, rc, rcRow>>
           /\ Moves(t, "queued") \/ Moves(t, "rm_runtime")
<1>1. "queued" \in Steps /\ "rm_runtime" \in Steps
  BY DEF Steps
<1> QED
  BY <1>1, GoFacts DEF StoreSecrets, store, disk, world, service

\* Mark: the status of the row, perhaps.
LEMMA MarkFacts ==
    ASSUME TypeInv, NEW t \in Tasks, NEW f, Mark(t, f)
    PROVE  /\ pc[t] = "mark" /\ Moves(t, "queued")
           /\ UNCHANGED <<op, checkout, dirs, live, route, my, up, crashes, rc, rcRow>>
           /\ row' \in Rows /\ SameRow(row', row)
<1>1. "queued" \in Steps
  BY DEF Steps
<1>0. pc[t] = "mark" /\ Go(t, "queued") /\ UNCHANGED <<op, disk, world, my, service>>
  BY Zenon DEF Mark
<1>a. UNCHANGED <<op, checkout, dirs, live, route, my, up, crashes, rc, rcRow>>
  BY <1>0 DEF disk, world, service
<1>2. row' = row \/ SetStatus(IF my[t].upd THEN "updating" ELSE "pending")
  BY Zenon DEF Mark
<1>3. row \in Rows /\ SameRow(row, row)
  BY DEF TypeInv, SameRow
<1> QED
  BY <1>0, <1>a, <1>1, <1>2, <1>3, GoFacts, StatusFacts DEF Status

\* Dequeue and Begin only choose the way.
LEMMA DequeueFacts ==
    ASSUME TypeInv, NEW t \in Tasks, Dequeue(t)
    PROVE  /\ pc[t] = "queued"
           /\ UNCHANGED <<row, op, checkout, dirs, live, route, my, up, crashes, rc, rcRow>>
           /\ Moves(t, IF my[t].upd THEN "update" ELSE IF Kind(t) = "create" THEN "prev" ELSE "begin")
<1>1. "update" \in Steps /\ "prev" \in Steps /\ "begin" \in Steps
  BY DEF Steps
<1> QED
  BY <1>1, GoFacts DEF Dequeue, store, disk, world, service

\* A git app without its source or a compose file goes back to the repository.
LEMMA BeginFacts ==
    ASSUME TypeInv, NEW t \in Tasks, Begin(t)
    PROVE  /\ pc[t] = "begin"
           /\ UNCHANGED <<row, op, checkout, dirs, live, route, my, up, crashes, rc, rcRow>>
           /\ Moves(t, IF my[t].row.type = "git" /\ (my[t].row.compose = None \/ CurrentSource = None)
                       THEN "prev" ELSE "pending")
<1>1. "prev" \in Steps /\ "pending" \in Steps
  BY DEF Steps
<1> QED
  BY <1>1, GoFacts DEF Begin, store, disk, world, service

----------------------------------------------------------------------------
(* The pipelines                                                            *)

\* MarkPending: the row is pending, or the job has failed.
LEMMA PendingFacts ==
    ASSUME TypeInv, NEW t \in Tasks, NEW f, MarkPending(t, f)
    PROVE  /\ pc[t] = "pending"
           /\ UNCHANGED <<op, checkout, dirs, live, route, my, up, crashes, rc, rcRow>>
           /\ \/ f = "none" /\ Status("pending") /\ Moves(t, "source")
              \/ row' = row /\ (f = "database" \/ ~row.there) /\ Moves(t, "failed")
<1>1. "source" \in Steps /\ "failed" \in Steps
  BY DEF Steps
<1> QED
  BY <1>1, GoFacts, StatusFacts DEF MarkPending, disk, world, service

\* The source is a version or none.
LEMMA SourceType == TypeInv => CurrentSource \in Opt(Versions)
BY DEF TypeInv, CurrentSource, Rows, Opt

\* ReadSource: the source is the one there is, or the job fails.
LEMMA SourceFacts ==
    ASSUME TypeInv, NEW t \in Tasks, NEW f, ReadSource(t, f)
    PROVE  /\ pc[t] = "source"
           /\ UNCHANGED <<row, op, checkout, dirs, live, route, up, crashes, rc, rcRow>>
           /\ \/ /\ f = "none" /\ CurrentSource # None /\ Moves(t, "teardown")
                 /\ Sets(t) /\ my'[t].src = CurrentSource
                 /\ my'[t].row = my[t].row /\ my'[t].git = my[t].git /\ my'[t].fresh = my[t].fresh
              \/ /\ f \in {"source", "storage"} \/ (f = "none" /\ CurrentSource = None)
                 /\ my' = my /\ Moves(t, "record")
              \/ f = "regenerate" /\ my' = my /\ Moves(t, "failed")
<1>1. "teardown" \in Steps /\ "record" \in Steps /\ "failed" \in Steps
  BY DEF Steps
<1>2. /\ pc[t] = "source" /\ UNCHANGED <<store, disk, world, service>>
      /\ \/ /\ f = "none" /\ CurrentSource # None
            /\ my' = [my EXCEPT ![t].src = CurrentSource] /\ Go(t, "teardown")
         \/ /\ f \in {"source", "storage"} \/ (f = "none" /\ CurrentSource = None)
            /\ Go(t, "record") /\ my' = my
         \/ f = "regenerate" /\ Go(t, "failed") /\ my' = my
  BY DEF ReadSource
<1> QED
  BY <1>1, <1>2, GoFacts, SourceType, KeepSourceFacts DEF store, disk, world, service

\* A task that starts over remembers the row and that it does.
LEMMA KeepGitFacts ==
    ASSUME TypeInv, NEW t \in Tasks, row' \in Rows,
           my' = [my EXCEPT ![t].row = Copy(row'), ![t].git = TRUE]
    PROVE  /\ Sets(t) /\ SameRow(my'[t].row, row')
           /\ my'[t].src = my[t].src /\ my'[t].git = TRUE /\ my'[t].fresh = my[t].fresh
<1>1. Copy(row') \in Rows /\ SameRow(Copy(row'), row')
  BY CopyFacts
<1>2. PICK c : c = Copy(row')
  OBVIOUS
<1>3. my' = [my EXCEPT ![t].row = c, ![t].git = TRUE] /\ c \in Rows
  BY <1>1, <1>2
<1> DEFINE m == [my EXCEPT ![t].row = c]
<1>4. m \in [Tasks -> Locals] /\ \A u \in Tasks \ {t} : m[u] = my[u]
  BY <1>3 DEF TypeInv, Locals
<1>5. /\ m[t].row = c /\ m[t].src = my[t].src /\ m[t].kind = my[t].kind /\ m[t].upd = my[t].upd
      /\ m[t].fresh = my[t].fresh
  BY <1>3 DEF TypeInv, Locals
<1>6. my' = [m EXCEPT ![t].git = TRUE]
  BY <1>3, Zenon
<1> HIDE DEF m
<1>7. PICK r : r = [m[t] EXCEPT !.git = TRUE]
  OBVIOUS
<1>8. /\ r \in Locals /\ r.git = TRUE /\ r.row = m[t].row /\ r.src = m[t].src
      /\ r.kind = m[t].kind /\ r.upd = m[t].upd /\ r.fresh = m[t].fresh
  BY <1>4, <1>7 DEF Locals
<1>9. my' = [m EXCEPT ![t] = r]
  BY <1>6, <1>7
<1>10. my' \in [Tasks -> Locals] /\ my'[t] = r /\ \A u \in Tasks \ {t} : my'[u] = m[u]
  BY <1>4, <1>8, <1>9
<1> QED
  BY <1>1, <1>2, <1>4, <1>5, <1>8, <1>10 DEF Sets

\* A task that is the first to write the row remembers this too.
LEMMA KeepFreshFacts ==
    ASSUME TypeInv, NEW t \in Tasks, row' \in Rows,
           my' = [my EXCEPT ![t].row = Copy(row'), ![t].git = TRUE, ![t].fresh = TRUE]
    PROVE  /\ Sets(t) /\ SameRow(my'[t].row, row')
           /\ my'[t].src = my[t].src /\ my'[t].git = TRUE /\ my'[t].fresh = TRUE
<1>1. Copy(row') \in Rows /\ SameRow(Copy(row'), row')
  BY CopyFacts
<1>2. PICK c : c = Copy(row')
  OBVIOUS
<1>3. my' = [my EXCEPT ![t].row = c, ![t].git = TRUE, ![t].fresh = TRUE] /\ c \in Rows
  BY <1>1, <1>2
<1> DEFINE m == [my EXCEPT ![t].row = c]
           n == [m EXCEPT ![t].git = TRUE]
<1>4. /\ m \in [Tasks -> Locals] /\ m[t].row = c /\ m[t].src = my[t].src
      /\ m[t].kind = my[t].kind /\ m[t].upd = my[t].upd
      /\ \A u \in Tasks \ {t} : m[u] = my[u]
  BY <1>3 DEF TypeInv, Locals
<1>5. my' = [n EXCEPT ![t].fresh = TRUE]
  BY <1>3, Zenon
<1> HIDE DEF m
<1>6. PICK r : r = [m[t] EXCEPT !.git = TRUE]
  OBVIOUS
<1>7. /\ r \in Locals /\ r.git = TRUE /\ r.row = m[t].row /\ r.src = m[t].src
      /\ r.kind = m[t].kind /\ r.upd = m[t].upd
  BY <1>4, <1>6 DEF Locals
<1>8. n = [m EXCEPT ![t] = r]
  BY <1>6
<1>9. n \in [Tasks -> Locals] /\ n[t] = r /\ \A u \in Tasks \ {t} : n[u] = m[u]
  BY <1>4, <1>7, <1>8
<1> HIDE DEF n
<1>10. PICK q : q = [n[t] EXCEPT !.fresh = TRUE]
  OBVIOUS
<1>11. /\ q \in Locals /\ q.fresh = TRUE /\ q.git = n[t].git /\ q.row = n[t].row
       /\ q.src = n[t].src /\ q.kind = n[t].kind /\ q.upd = n[t].upd
  BY <1>9, <1>10 DEF Locals
<1>12. my' = [n EXCEPT ![t] = q]
  BY <1>5, <1>10
<1>13. my' \in [Tasks -> Locals] /\ my'[t] = q /\ \A u \in Tasks \ {t} : my'[u] = n[u]
  BY <1>9, <1>11, <1>12
<1> QED
  BY <1>1, <1>2, <1>4, <1>7, <1>9, <1>11, <1>13 DEF Sets

\* ReadPrevious: the row without its compose file, or another one, or nothing.
StartsOver(t) ==
    /\ row.there /\ row' \in Rows /\ row'.there /\ row'.type = "git" /\ row'.status = "pending"
    /\ row'.compose = None /\ row'.release = row.release /\ my'[t].fresh = my[t].fresh
    /\ Moves(t, IF Kind(t) = "deploy" THEN "claim" ELSE "clear")
WritesAnother(t) ==
    /\ ~row.there /\ row' \in Rows /\ row'.there /\ row'.type = "git"
    /\ row'.compose = None /\ row'.release = None /\ my'[t].fresh = TRUE
    /\ Moves(t, IF Kind(t) = "deploy" THEN "claim" ELSE "failed")

\* ReadPrevious: the row is written anew, or the deploy gives up for a reason.
LEMMA PreviousFacts ==
    ASSUME TypeInv, NEW t \in Tasks, NEW f, ReadPrevious(t, f)
    PROVE  /\ pc[t] = "prev"
           /\ UNCHANGED <<op, checkout, dirs, live, route, up, crashes, rc, rcRow>>
           /\ \/ /\ f = "none" /\ (StartsOver(t) \/ WritesAnother(t))
                 /\ Sets(t) /\ SameRow(my'[t].row, row')
                 /\ my'[t].src = my[t].src /\ my'[t].git = TRUE
              \/ /\ UNCHANGED <<row, my>> /\ Moves(t, IF Kind(t) = "deploy" THEN "done" ELSE "failed")
                 /\ \/ f = "database"
                    \/ /\ Kind(t) \in {"create", "deploy"}
                       /\ row.there /\ ~(row.status = "pending" /\ row.compose = None)
<1>0. pc[t] = "prev" /\ UNCHANGED <<op, disk, world, service>>
  BY Zenon DEF ReadPrevious
<1>1. UNCHANGED <<op, checkout, dirs, live, route, up, crashes, rc, rcRow>>
  BY <1>0 DEF disk, world, service
<1>2. {"claim", "clear", "done", "failed"} \subseteq Steps
  BY DEF Steps
<1>3. row \in Rows /\ NoRow \in Rows /\ NoRow.release = None
  BY DEF TypeInv, NoRow, Rows, Opt
<1>4. CASE /\ f = "none" /\ row.there
           /\ row' = [row EXCEPT !.type = "git", !.status = "pending", !.compose = None]
           /\ my' = [my EXCEPT ![t].row = Copy(row'), ![t].git = TRUE]
           /\ Go(t, IF Kind(t) = "deploy" THEN "claim" ELSE "clear")
  <2>1. /\ row' \in Rows /\ row'.there /\ row'.type = "git" /\ row'.status = "pending"
        /\ row'.compose = None /\ row'.release = row.release
    BY <1>3, <1>4 DEF Rows, Opt
  <2>2. Moves(t, IF Kind(t) = "deploy" THEN "claim" ELSE "clear")
    BY <1>2, <1>4, GoFacts
  <2> QED
    BY <1>0, <1>1, <1>4, <2>1, <2>2, KeepGitFacts DEF StartsOver
<1>5. CASE /\ f = "none" /\ ~row.there
           /\ row' = [NoRow EXCEPT !.there = TRUE]
           /\ my' = [my EXCEPT ![t].row = Copy(row'), ![t].git = TRUE, ![t].fresh = TRUE]
           /\ Go(t, IF Kind(t) = "deploy" THEN "claim" ELSE "failed")
  <2>1. /\ row' \in Rows /\ row'.there /\ row'.type = "git"
        /\ row'.compose = None /\ row'.release = None
    BY <1>5 DEF NoRow, Rows, Opt
  <2>2. Moves(t, IF Kind(t) = "deploy" THEN "claim" ELSE "failed")
    BY <1>2, <1>5, GoFacts
  <2>3. /\ Sets(t) /\ SameRow(my'[t].row, row')
        /\ my'[t].src = my[t].src /\ my'[t].git = TRUE /\ my'[t].fresh = TRUE
    BY <1>5, <2>1, KeepFreshFacts, Zenon
  <2>4. WritesAnother(t)
    BY <1>5, <2>1, <2>2, <2>3, Zenon DEF WritesAnother
  <2>5. pc[t] = "prev" /\ f = "none"
    BY <1>0, <1>5
  <2> QED
    BY <1>1, <2>3, <2>4, <2>5, Zenon
<1>6. CASE /\ Go(t, IF Kind(t) = "deploy" THEN "done" ELSE "failed") /\ UNCHANGED <<row, my>>
           /\ \/ f = "database"
              \/ /\ f = "none" /\ row.there /\ Kind(t) \in {"create", "deploy"}
                 /\ ~(row.status = "pending" /\ row.compose = None)
  BY <1>0, <1>1, <1>2, <1>6, GoFacts
<1> QED
  BY <1>4, <1>5, <1>6, Zenon DEF ReadPrevious

\* ClearSource: there is no checkout, or the job fails.
LEMMA ClearFacts ==
    ASSUME TypeInv, NEW t \in Tasks, NEW f, ClearSource(t, f)
    PROVE  /\ pc[t] = "clear"
           /\ UNCHANGED <<row, op, dirs, live, route, my, up, crashes, rc, rcRow>>
           /\ \/ f = "none" /\ checkout' = None /\ Moves(t, "clone")
              \/ f = "source" /\ checkout' = checkout /\ Moves(t, "record")
<1>0. pc[t] = "clear" /\ UNCHANGED <<store, dirs, world, my, service>>
  BY Zenon DEF ClearSource
<1>1. UNCHANGED <<row, op, dirs, live, route, my, up, crashes, rc, rcRow>>
  BY <1>0 DEF store, world, service
<1>2. {"clone", "record"} \subseteq Steps
  BY DEF Steps
<1> QED
  BY <1>0, <1>1, <1>2, GoFacts DEF ClearSource

\* Clone: the checkout is a version, which the task remembers, or the job fails.
LEMMA CloneFacts ==
    ASSUME TypeInv, NEW t \in Tasks, NEW f, Clone(t, f)
    PROVE  /\ pc[t] = "clone"
           /\ UNCHANGED <<row, op, dirs, live, route, up, crashes, rc, rcRow>>
           /\ \/ /\ f = "none" /\ checkout' \in Versions /\ Moves(t, "compose")
                 /\ Sets(t) /\ my'[t].src = checkout'
                 /\ my'[t].row = my[t].row /\ my'[t].git = my[t].git /\ my'[t].fresh = my[t].fresh
              \/ f = "source" /\ UNCHANGED <<checkout, my>> /\ Moves(t, "record")
<1>0. pc[t] = "clone" /\ UNCHANGED <<store, dirs, world, service>>
  BY Zenon DEF Clone
<1>1. UNCHANGED <<row, op, dirs, live, route, up, crashes, rc, rcRow>>
  BY <1>0 DEF store, world, service
<1>2. {"compose", "record"} \subseteq Steps
  BY DEF Steps
<1>3. \/ f = "none" /\ Go(t, "compose") /\ \E v \in Versions : checkout' = v /\ my' = [my EXCEPT ![t].src = v]
      \/ f = "source" /\ UNCHANGED <<checkout, my>> /\ Go(t, "record")
  BY Zenon DEF Clone
<1>4. ASSUME NEW v \in Versions, checkout' = v, my' = [my EXCEPT ![t].src = v]
      PROVE  /\ checkout' \in Versions /\ Sets(t) /\ my'[t].src = checkout'
             /\ my'[t].row = my[t].row /\ my'[t].git = my[t].git /\ my'[t].fresh = my[t].fresh
  <2>1. v \in Opt(Versions)
    BY DEF Opt
  <2> QED
    BY <1>4, <2>1, KeepSourceFacts
<1> QED
  BY <1>0, <1>1, <1>2, <1>3, <1>4, GoFacts

\* Compose: the row with the compose file of the source, or the job fails.
LEMMA ComposeFacts ==
    ASSUME TypeInv, NEW t \in Tasks, NEW f, Compose(t, f)
    PROVE  /\ pc[t] = "compose"
           /\ UNCHANGED <<op, checkout, dirs, live, route, up, crashes, rc, rcRow>>
           /\ \/ /\ f = "none" /\ row.there /\ row' \in Rows /\ row'.there = my[t].row.there
                 /\ row'.type = my[t].row.type /\ row'.compose = my[t].src
                 /\ row'.release = my[t].row.release /\ row'.status = "pending"
                 /\ Sets(t) /\ SameRow(my'[t].row, row') /\ Moves(t, "teardown")
                 /\ my'[t].src = my[t].src /\ my'[t].git = my[t].git /\ my'[t].fresh = my[t].fresh
              \/ /\ f \in {"source", "storage", "database"} \/ ~row.there
                 /\ UNCHANGED <<row, my>> /\ Moves(t, "record")
<1>0. pc[t] = "compose" /\ UNCHANGED <<op, disk, world, service>>
  BY Zenon DEF Compose
<1>1. UNCHANGED <<op, checkout, dirs, live, route, up, crashes, rc, rcRow>>
  BY <1>0 DEF disk, world, service
<1>2. {"teardown", "record"} \subseteq Steps
  BY DEF Steps
<1>3. my[t].row \in Rows /\ my[t].src \in Opt(Versions)
  BY DEF TypeInv, Locals
<1>4. CASE /\ f = "none" /\ row.there
           /\ row' = [my[t].row EXCEPT !.compose = my[t].src, !.status = "pending"]
           /\ my' = [my EXCEPT ![t].row = Copy(row')] /\ Go(t, "teardown")
  <2>1. /\ row' \in Rows /\ row'.there = my[t].row.there
        /\ row'.type = my[t].row.type /\ row'.compose = my[t].src
        /\ row'.release = my[t].row.release /\ row'.status = "pending"
    BY <1>3, <1>4 DEF Rows
  <2> QED
    BY <1>0, <1>1, <1>2, <1>4, <2>1, GoFacts, KeepRowFacts
<1>5. CASE /\ f \in {"source", "storage", "database"} \/ (f = "none" /\ ~row.there)
           /\ UNCHANGED <<row, my>> /\ Go(t, "record")
  BY <1>0, <1>1, <1>2, <1>5, GoFacts
<1> QED
  BY <1>4, <1>5, Zenon DEF Compose

\* Teardown: the containers are gone, unless the task is the first, or the job
\* fails with some of them.
LEMMA TeardownFacts ==
    ASSUME TypeInv, NEW t \in Tasks, NEW f, Teardown(t, f)
    PROVE  /\ pc[t] = "teardown"
           /\ UNCHANGED <<row, op, checkout, dirs, my, up, crashes, rc, rcRow>>
           /\ \/ f = "none" /\ my[t].fresh /\ UNCHANGED <<live, route>> /\ Moves(t, "deploy")
              \/ f = "none" /\ ~my[t].fresh /\ Removed(TRUE) /\ Moves(t, "deploy")
              \/ f = "remove" /\ ~my[t].fresh /\ Removed(FALSE) /\ Moves(t, "record")
<1>0. pc[t] = "teardown" /\ UNCHANGED <<store, disk, my, service>>
  BY Zenon DEF Teardown
<1>1. UNCHANGED <<row, op, checkout, dirs, my, up, crashes, rc, rcRow>>
  BY <1>0 DEF store, disk, service
<1>2. {"deploy", "record"} \subseteq Steps
  BY DEF Steps
<1> QED
  BY <1>0, <1>1, <1>2, GoFacts, RemoveFacts DEF Teardown

\* Containers as a task makes them.
Made(t, checked) == [spec |-> my[t].row.compose, src |-> my[t].src, on |-> "all", checked |-> checked]

\* Deploy: containers are made of what the task has, or it fails.
LEMMA DeployFacts ==
    ASSUME TypeInv, NEW t \in Tasks, NEW f, Deploy(t, f)
    PROVE  /\ pc[t] = "deploy"
           /\ UNCHANGED <<row, op, checkout, dirs, route, my, up, crashes, rc, rcRow>>
           /\ live' \in Containers
           /\ \/ f = "none" /\ live' = Made(t, FALSE) /\ Moves(t, "verify")
              \/ /\ f = "runtime" \/ live # NoContainers
                 /\ live' = live \/ live'.src = my[t].src \/ (live # NoContainers /\ live'.src = live.src)
                 /\ Moves(t, "undo")
<1>0. pc[t] = "deploy" /\ UNCHANGED <<store, disk, route, my, service>>
  BY Zenon DEF Deploy
<1>1. UNCHANGED <<row, op, checkout, dirs, route, my, up, crashes, rc, rcRow>>
  BY <1>0 DEF store, disk, service
<1>2. {"verify", "undo"} \subseteq Steps /\ {"all", "some"} \subseteq Running
  BY DEF Steps, Running
<1> DEFINE made(on) == [spec |-> my[t].row.compose, src |-> my[t].src, on |-> on, checked |-> FALSE]
<1>3. \/ f = "none" /\ live' = made("all") /\ Go(t, "verify")
      \/ f = "runtime" /\ Go(t, "undo") /\ \E on \in Running : live' = made(on)
      \/ (f = "runtime" \/ live # NoContainers) /\ Go(t, "undo") /\ live' = live
      \/ /\ live # NoContainers /\ Go(t, "undo")
         /\ \E on \in {"all", "some"} : live' = [live EXCEPT !.on = on]
  BY Zenon DEF Deploy
<1>4. \A on \in Running : made(on) \in Containers /\ made(on).src = my[t].src
  BY DEF TypeInv, Locals, Rows, Containers
<1>5. made("all") = Made(t, FALSE)
  BY DEF Made
<1>6. live \in Containers
  BY DEF TypeInv
<1> HIDE DEF made
<1>7. CASE /\ live # NoContainers /\ Go(t, "undo")
           /\ \E on \in {"all", "some"} : live' = [live EXCEPT !.on = on]
  <2>1. PICK on \in Running : live' = [live EXCEPT !.on = on]
    BY <1>2, <1>7
  <2> QED
    BY <1>0, <1>1, <1>2, <1>7, <2>1, GoFacts, OnFacts
<1> QED
  BY <1>0, <1>1, <1>2, <1>3, <1>4, <1>5, <1>6, <1>7, GoFacts

\* Verify: all containers run and count as checked, or the job fails.
LEMMA VerifyFacts ==
    ASSUME TypeInv, NEW t \in Tasks, NEW f, Verify(t, f)
    PROVE  /\ pc[t] = "verify"
           /\ UNCHANGED <<row, op, checkout, dirs, route, my, up, crashes, rc, rcRow>>
           /\ live' \in Containers
           /\ \/ /\ f = "none" /\ live.on = "all" /\ Moves(t, "persist")
                 /\ live' = [spec |-> live.spec, src |-> live.src, on |-> "all", checked |-> TRUE]
              \/ (f = "runtime" \/ live.on # "all") /\ live' = live /\ Moves(t, "undo")
<1>0. pc[t] = "verify" /\ UNCHANGED <<store, disk, route, my, service>>
  BY Zenon DEF Verify
<1>1. UNCHANGED <<row, op, checkout, dirs, route, my, up, crashes, rc, rcRow>>
  BY <1>0 DEF store, disk, service
<1>2. {"persist", "undo"} \subseteq Steps
  BY DEF Steps
<1>3. \/ f = "none" /\ live.on = "all" /\ live' = [live EXCEPT !.checked = TRUE] /\ Go(t, "persist")
      \/ (f = "runtime" \/ live.on # "all") /\ live' = live /\ Go(t, "undo")
  BY Zenon DEF Verify
<1>4. ASSUME live.on = "all", live' = [live EXCEPT !.checked = TRUE]
      PROVE  /\ live' = [spec |-> live.spec, src |-> live.src, on |-> "all", checked |-> TRUE]
             /\ live' \in Containers
  BY <1>4 DEF TypeInv, Containers
<1>5. live \in Containers
  BY DEF TypeInv
<1> QED
  BY <1>0, <1>1, <1>2, <1>3, <1>4, <1>5, GoFacts

\* Persist only chooses the way.
LEMMA PersistFacts ==
    ASSUME TypeInv, NEW t \in Tasks, NEW f, Persist(t, f)
    PROVE  /\ pc[t] = "persist"
           /\ UNCHANGED <<row, op, checkout, dirs, live, route, my, up, crashes, rc, rcRow>>
           /\ \/ f = "none" /\ Moves(t, IF my[t].git /\ my[t].row.release # None THEN "unpoint" ELSE "running")
              \/ f = "storage" /\ Moves(t, IF my[t].git THEN "undo" ELSE "undo_only")
<1>0. pc[t] = "persist" /\ UNCHANGED <<store, disk, world, my, service>>
  BY Zenon DEF Persist
<1>1. UNCHANGED <<row, op, checkout, dirs, live, route, my, up, crashes, rc, rcRow>>
  BY <1>0 DEF store, disk, world, service
<1>2. {"unpoint", "running", "undo", "undo_only"} \subseteq Steps
  BY DEF Steps
<1> QED
  BY <1>0, <1>1, <1>2, GoFacts DEF Persist

\* ClearCurrentRelease: the row points at no release, or the job fails.
LEMMA UnpointFacts ==
    ASSUME TypeInv, NEW t \in Tasks, NEW f, ClearCurrentRelease(t, f)
    PROVE  /\ pc[t] = "unpoint"
           /\ UNCHANGED <<op, checkout, dirs, live, route, my, up, crashes, rc, rcRow>>
           /\ \/ /\ f = "none" /\ row' \in Rows /\ row'.there = row.there /\ row'.type = row.type
                 /\ row'.compose = row.compose /\ row'.status = row.status
                 /\ row'.release = None /\ Moves(t, "running")
              \/ (f = "database" \/ ~row.there) /\ row' = row /\ Moves(t, "undo")
<1>0. pc[t] = "unpoint" /\ UNCHANGED <<op, disk, world, my, service>>
  BY Zenon DEF ClearCurrentRelease
<1>1. UNCHANGED <<op, checkout, dirs, live, route, my, up, crashes, rc, rcRow>>
  BY <1>0 DEF disk, world, service
<1>2. {"running", "undo"} \subseteq Steps
  BY DEF Steps
<1>3. ASSUME row' = [row EXCEPT !.release = None]
      PROVE  /\ row' \in Rows /\ row'.there = row.there /\ row'.type = row.type
             /\ row'.compose = row.compose /\ row'.status = row.status /\ row'.release = None
  BY <1>3 DEF TypeInv, Rows, Opt
<1> QED
  BY <1>0, <1>1, <1>2, <1>3, GoFacts DEF ClearCurrentRelease

\* MarkRunning: the row says so, or the job fails.
LEMMA RunningFacts ==
    ASSUME TypeInv, NEW t \in Tasks, NEW f, MarkRunning(t, f)
    PROVE  /\ pc[t] = "running"
           /\ UNCHANGED <<op, checkout, dirs, live, route, my, up, crashes, rc, rcRow>>
           /\ \/ f = "none" /\ row.there /\ Status("running") /\ Moves(t, "publish")
              \/ /\ f = "database" \/ ~row.there
                 /\ row' = row /\ Moves(t, IF my[t].git THEN "undo" ELSE "failed")
<1>0. pc[t] = "running" /\ UNCHANGED <<op, disk, world, my, service>>
  BY Zenon DEF MarkRunning
<1>1. UNCHANGED <<op, checkout, dirs, live, route, my, up, crashes, rc, rcRow>>
  BY <1>0 DEF disk, world, service
<1>2. {"publish", "undo", "failed"} \subseteq Steps
  BY DEF Steps
<1> QED
  BY <1>0, <1>1, <1>2, GoFacts, StatusFacts DEF MarkRunning

\* Publish: the route is in step with the containers, or gone and the job failed.
LEMMA PublishFacts ==
    ASSUME TypeInv, NEW t \in Tasks, NEW f, Publish(t, f)
    PROVE  /\ pc[t] = "publish"
           /\ UNCHANGED <<row, op, checkout, dirs, live, my, up, crashes, rc, rcRow>>
           /\ \/ f = "none" /\ route' \in Synced(my[t].row) /\ Moves(t, "completed")
              \/ f = "route" /\ route' = "none" /\ Moves(t, "record")
<1>0. pc[t] = "publish" /\ UNCHANGED <<store, disk, live, my, service>>
  BY Zenon DEF Publish
<1>1. UNCHANGED <<row, op, checkout, dirs, live, my, up, crashes, rc, rcRow>>
  BY <1>0 DEF store, disk, service
<1>2. {"completed", "record"} \subseteq Steps
  BY DEF Steps
<1> QED
  BY <1>0, <1>1, <1>2, GoFacts DEF Publish

\* Undo: the containers are gone, or some of them.
LEMMA UndoFacts ==
    ASSUME TypeInv, NEW t \in Tasks, NEW f, Undo(t, f)
    PROVE  /\ pc[t] \in {"undo", "undo_only"}
           /\ UNCHANGED <<row, op, checkout, dirs, my, up, crashes, rc, rcRow>>
           /\ (f = "none" /\ Removed(TRUE)) \/ (f = "remove" /\ Removed(FALSE))
           /\ Moves(t, IF pc[t] = "undo" THEN "undo_route" ELSE "record")
<1>0. /\ pc[t] \in {"undo", "undo_only"} /\ UNCHANGED <<store, disk, my, service>>
      /\ Go(t, IF pc[t] = "undo" THEN "undo_route" ELSE "record")
  BY Zenon DEF Undo
<1>1. UNCHANGED <<row, op, checkout, dirs, my, up, crashes, rc, rcRow>>
  BY <1>0 DEF store, disk, service
<1>2. {"undo_route", "record"} \subseteq Steps
  BY DEF Steps
<1> QED
  BY <1>0, <1>1, <1>2, GoFacts, RemoveFacts DEF Undo

\* UndoRoute: the route is brought in step, or left.
LEMMA UndoRouteFacts ==
    ASSUME TypeInv, NEW t \in Tasks, NEW f, UndoRoute(t, f)
    PROVE  /\ pc[t] = "undo_route" /\ Moves(t, "record")
           /\ UNCHANGED <<row, op, checkout, dirs, live, my, up, crashes, rc, rcRow>>
           /\ (f = "none" /\ route' \in Synced(my[t].row)) \/ (f = "route" /\ route' = route)
<1>0. pc[t] = "undo_route" /\ UNCHANGED <<store, disk, live, my, service>> /\ Go(t, "record")
  BY Zenon DEF UndoRoute
<1>1. UNCHANGED <<row, op, checkout, dirs, live, my, up, crashes, rc, rcRow>>
  BY <1>0 DEF store, disk, service
<1>2. "record" \in Steps
  BY DEF Steps
<1> QED
  BY <1>0, <1>1, <1>2, GoFacts DEF UndoRoute

\* Record: the row says that something failed, unless the context is over.
LEMMA RecordFacts ==
    ASSUME TypeInv, NEW t \in Tasks, NEW f, Record(t, f)
    PROVE  /\ pc[t] = "record" /\ Moves(t, "failed")
           /\ UNCHANGED <<op, checkout, dirs, live, route, my, up, crashes, rc, rcRow>>
           /\ (f = "none" /\ Status("error")) \/ (f = "context" /\ row' = row)
<1>0. pc[t] = "record" /\ UNCHANGED <<op, disk, world, my, service>> /\ Go(t, "failed")
  BY Zenon DEF Record
<1>1. UNCHANGED <<op, checkout, dirs, live, route, my, up, crashes, rc, rcRow>>
  BY <1>0 DEF disk, world, service
<1>2. "failed" \in Steps
  BY DEF Steps
<1> QED
  BY <1>0, <1>1, <1>2, GoFacts, StatusFacts DEF Record

\* The outcome of an operation is one.
LEMMA EndsFacts ==
    ASSUME TypeInv, NEW t \in Tasks, NEW s \in {"completed", "failed", "rolled_back"},
           op' = IF op.holder = t /\ op.state = "active" THEN [op EXCEPT !.state = s] ELSE op
    PROVE  Ends(t, s)
BY DEF TypeInv, Operations, Ends

\* Finish: the operation ends as the job did.
LEMMA FinishFacts ==
    ASSUME TypeInv, NEW t \in Tasks, Finish(t)
    PROVE  /\ pc[t] \in {"failed", "completed"} /\ Ends(t, pc[t]) /\ Moves(t, "done")
           /\ UNCHANGED <<row, checkout, dirs, live, route, my, up, crashes, rc, rcRow>>
<1>0. pc[t] \in {"failed", "completed"} /\ UNCHANGED <<row, disk, world, my, service>> /\ Go(t, "done")
  BY Zenon DEF Finish
<1>1. UNCHANGED <<row, checkout, dirs, live, route, my, up, crashes, rc, rcRow>>
  BY <1>0 DEF disk, world, service
<1>2. "done" \in Steps
  BY DEF Steps
<1>3. Ends(t, pc[t])
  BY <1>0, EndsFacts DEF Finish
<1> QED
  BY <1>0, <1>1, <1>2, <1>3, GoFacts

\* Update: a new release serves, or nothing but the status of the row changes.
Finishes(t, s) ==
    op' = IF op.holder = t /\ op.state = "active" THEN [op EXCEPT !.state = s] ELSE op

\* The transaction as UpdateTransaction ends it, and nothing but the status otherwise.
LEMMA UpdateFacts ==
    ASSUME TypeInv, NEW t \in Tasks, NEW f, Update(t, f)
    PROVE  /\ pc[t] = "update" /\ Moves(t, "done")
           /\ UNCHANGED <<checkout, my, up, crashes, rc, rcRow>>
           /\ \/ /\ f = "none" /\ Ends(t, "completed")
                 /\ row.there /\ row' \in Rows /\ row'.there /\ row'.type = row.type
                 /\ row'.status = "running" /\ row'.compose # None
                 /\ dirs' \subseteq Versions /\ live' \in Containers /\ route' = "live"
                 /\ live'.src # None /\ live'.on = "all" /\ live'.checked
              \/ /\ f = "source" /\ Ends(t, "rolled_back") /\ row' \in Rows /\ SameRow(row', row)
                 /\ UNCHANGED <<dirs, route>>
                 /\ live' \in Containers /\ live'.src = live.src
                 /\ live = NoContainers => live' = NoContainers
              \/ /\ Ends(t, "failed") /\ row' \in Rows /\ SameRow(row', row)
                 /\ UNCHANGED <<dirs, live, route>>
<1>0. pc[t] = "update" /\ UNCHANGED <<checkout, my, service>> /\ Go(t, "done")
  BY Zenon DEF Update
<1>1. UNCHANGED <<checkout, my, up, crashes, rc, rcRow>>
  BY <1>0 DEF service
<1>2. Moves(t, "done")
  <2>1. "done" \in Steps
    BY DEF Steps
  <2> QED
    BY <1>0, <2>1, GoFacts
<1>3. CASE /\ f = "none" /\ row.there /\ Finishes(t, "completed") /\ route' = "live"
           /\ \E v \in Versions :
                /\ row' = [row EXCEPT !.status = "running", !.compose = v, !.release = v]
                /\ dirs' = dirs \cup {v}
                /\ live' = [spec |-> v, src |-> v, on |-> "all", checked |-> TRUE]
  <2>1. PICK v \in Versions :
          /\ row' = [row EXCEPT !.status = "running", !.compose = v, !.release = v]
          /\ dirs' = dirs \cup {v}
          /\ live' = [spec |-> v, src |-> v, on |-> "all", checked |-> TRUE]
    BY <1>3, Zenon
  <2>2. /\ row' \in Rows /\ row'.there = row.there /\ row'.type = row.type
        /\ row'.status = "running" /\ row'.compose # None
        /\ dirs' \subseteq Versions /\ live' \in Containers
        /\ live'.src # None /\ live'.on = "all" /\ live'.checked
    BY <2>1, NoneIsNothing DEF TypeInv, Rows, Containers, Opt, Running
  <2>3. Ends(t, "completed")
    BY <1>3, EndsFacts DEF Finishes
  <2> QED
    BY <1>0, <1>1, <1>2, <1>3, <2>2, <2>3
<1>4. CASE /\ f = "source" /\ Finishes(t, "rolled_back") /\ UNCHANGED <<dirs, route>>
           /\ \/ FoundStopped /\ SetStatus("stopped") /\ UNCHANGED live
              \/ ~FoundStopped /\ SetStatus("running") /\ StartAll
  <2>1. Ends(t, "rolled_back")
    BY <1>4, EndsFacts DEF Finishes
  <2>2. row' \in Rows /\ SameRow(row', row)
    BY <1>4, StatusFacts DEF Status
  <2>3. /\ live' \in Containers /\ live'.src = live.src
        /\ live = NoContainers => live' = NoContainers
    BY <1>4, StartAllFacts DEF FoundStopped, TypeInv
  <2> QED
    BY <1>0, <1>1, <1>2, <1>4, <2>1, <2>2, <2>3
<1>5. CASE SetStatus("error") /\ Finishes(t, "failed") /\ UNCHANGED <<dirs, live, route>>
  <2>1. Ends(t, "failed")
    BY <1>5, EndsFacts DEF Finishes
  <2> QED
    BY <1>0, <1>1, <1>2, <1>5, <2>1, StatusFacts DEF Status
<1> QED
  BY <1>3, <1>4, <1>5, Zenon DEF Update, Finishes

----------------------------------------------------------------------------
(* Actions that look first                                                  *)

\* Guard: the way is free, or the request is over.
LEMMA GuardFacts ==
    ASSUME TypeInv, NEW t \in Tasks, NEW f, Guard(t, f)
    PROVE  /\ pc[t] = "guard"
           /\ UNCHANGED <<row, op, checkout, dirs, live, route, my, up, crashes, rc, rcRow>>
           /\ \/ /\ Moves(t, IF Kind(t) = "remove" THEN "rm_runtime" ELSE "act")
                 /\ op.state # "active"
              \/ Moves(t, "done")
<1>0. pc[t] = "guard" /\ UNCHANGED <<store, disk, world, my, service>>
  BY Zenon DEF Guard
<1>1. UNCHANGED <<row, op, checkout, dirs, live, route, my, up, crashes, rc, rcRow>>
  BY <1>0 DEF store, disk, world, service
<1>2. {"rm_runtime", "act", "done"} \subseteq Steps
  BY DEF Steps
<1>3. \/ Go(t, IF Kind(t) = "remove" THEN "rm_runtime" ELSE "act") /\ op.state # "active"
      \/ Go(t, "done")
  BY DEF Guard, Idle
<1> QED
  BY <1>0, <1>1, <1>2, <1>3, GoFacts

\* Act: the containers there are run or stop, as they were asked or halfway.
LEMMA ActFacts ==
    ASSUME TypeInv, NEW t \in Tasks, NEW f, Act(t, f)
    PROVE  /\ pc[t] = "act"
           /\ UNCHANGED <<row, op, checkout, dirs, route, my, up, crashes, rc, rcRow>>
           /\ live' \in Containers /\ live'.src = live.src /\ (live = NoContainers => live' = NoContainers)
           /\ \/ /\ f = "none" /\ live # NoContainers
                 /\ IF Kind(t) = "stop" THEN live'.on = "none"
                    ELSE live'.on # "none" /\ live' # NoContainers
                 /\ Moves(t, IF Kind(t) = "restart" /\ t \notin CliTasks THEN "sync" ELSE "status")
              \/ Moves(t, "done")
<1>0. pc[t] = "act" /\ UNCHANGED <<store, disk, route, my, service>>
  BY Zenon DEF Act
<1>1. UNCHANGED <<row, op, checkout, dirs, route, my, up, crashes, rc, rcRow>>
  BY <1>0 DEF store, disk, service
<1>2. {"sync", "status", "done"} \subseteq Steps /\ "none" \in Running
  BY DEF Steps, Running
<1>3. CASE /\ f = "none" /\ live # NoContainers
           /\ IF Kind(t) = "stop" THEN live' = [live EXCEPT !.on = "none"] ELSE StartAll
           /\ Go(t, IF Kind(t) = "restart" /\ t \notin CliTasks THEN "sync" ELSE "status")
  <2>1. /\ live' \in Containers /\ live'.src = live.src
        /\ IF Kind(t) = "stop" THEN live'.on = "none" ELSE live'.on # "none" /\ live' # NoContainers
    BY <1>2, <1>3, OnFacts, StartAllFacts
  <2>2. Moves(t, IF Kind(t) = "restart" /\ t \notin CliTasks THEN "sync" ELSE "status")
    BY <1>2, <1>3, GoFacts
  <2> QED
    BY <1>0, <1>1, <1>3, <2>1, <2>2
<1>4. CASE /\ Go(t, "done") /\ live # NoContainers
           /\ \E on \in Running : live' = [live EXCEPT !.on = on]
  BY <1>0, <1>1, <1>2, <1>4, OnFacts, GoFacts
<1>5. CASE Go(t, "done") /\ live' = live
  BY <1>0, <1>1, <1>2, <1>5, GoFacts DEF TypeInv
<1> QED
  BY <1>3, <1>4, <1>5, Zenon DEF Act

\* WriteStatus: the row says what was done, or what it said.
LEMMA WriteStatusFacts ==
    ASSUME TypeInv, NEW t \in Tasks, NEW f, WriteStatus(t, f)
    PROVE  /\ pc[t] = "status" /\ Moves(t, "sync")
           /\ UNCHANGED <<op, checkout, dirs, live, route, my, up, crashes, rc, rcRow>>
           /\ \/ f = "none" /\ Status(IF Kind(t) = "stop" THEN "stopped" ELSE "running")
              \/ f = "database" /\ row' = row
<1>0. pc[t] = "status" /\ UNCHANGED <<op, disk, world, my, service>> /\ Go(t, "sync")
  BY Zenon DEF WriteStatus
<1>1. UNCHANGED <<op, checkout, dirs, live, route, my, up, crashes, rc, rcRow>>
  BY <1>0 DEF disk, world, service
<1>2. "sync" \in Steps
  BY DEF Steps
<1> QED
  BY <1>0, <1>1, <1>2, GoFacts, StatusFacts DEF WriteStatus

\* Sync: the route is brought in step, or left.
LEMMA SyncFacts ==
    ASSUME TypeInv, NEW t \in Tasks, NEW f, Sync(t, f)
    PROVE  /\ pc[t] = "sync" /\ Moves(t, "done")
           /\ UNCHANGED <<row, op, checkout, dirs, live, my, up, crashes, rc, rcRow>>
           /\ (f = "none" /\ route' \in Synced(my[t].row)) \/ (f = "route" /\ route' = route)
<1>0. pc[t] = "sync" /\ UNCHANGED <<store, disk, live, my, service>> /\ Go(t, "done")
  BY Zenon DEF Sync
<1>1. UNCHANGED <<row, op, checkout, dirs, live, my, up, crashes, rc, rcRow>>
  BY <1>0 DEF store, disk, service
<1>2. "done" \in Steps
  BY DEF Steps
<1> QED
  BY <1>0, <1>1, <1>2, GoFacts DEF Sync

\* RemoveRuntime: the containers are gone, or some of them and the removal is over.
LEMMA RemoveRuntimeFacts ==
    ASSUME TypeInv, NEW t \in Tasks, NEW f, RemoveRuntime(t, f)
    PROVE  /\ pc[t] = "rm_runtime"
           /\ UNCHANGED <<row, op, checkout, dirs, my, up, crashes, rc, rcRow>>
           /\ \/ Removed(TRUE) /\ Moves(t, "rm_route")
              \/ Removed(FALSE) /\ Moves(t, "done")
<1>0. pc[t] = "rm_runtime" /\ UNCHANGED <<store, disk, my, service>>
  BY Zenon DEF RemoveRuntime
<1>1. UNCHANGED <<row, op, checkout, dirs, my, up, crashes, rc, rcRow>>
  BY <1>0 DEF store, disk, service
<1>2. {"rm_route", "done"} \subseteq Steps
  BY DEF Steps
<1> QED
  BY <1>0, <1>1, <1>2, GoFacts, RemoveFacts DEF RemoveRuntime

\* RemoveRoute: there is no route, or the removal is over.
LEMMA RemoveRouteFacts ==
    ASSUME TypeInv, NEW t \in Tasks, NEW f, RemoveRoute(t, f)
    PROVE  /\ pc[t] = "rm_route"
           /\ UNCHANGED <<row, op, checkout, dirs, live, my, up, crashes, rc, rcRow>>
           /\ (route' = "none" /\ Moves(t, "rm_row")) \/ (route' = route /\ Moves(t, "done"))
<1>0. pc[t] = "rm_route" /\ UNCHANGED <<store, disk, live, my, service>>
  BY Zenon DEF RemoveRoute
<1>1. UNCHANGED <<row, op, checkout, dirs, live, my, up, crashes, rc, rcRow>>
  BY <1>0 DEF store, disk, service
<1>2. {"rm_row", "done"} \subseteq Steps
  BY DEF Steps
<1> QED
  BY <1>0, <1>1, <1>2, GoFacts DEF RemoveRoute

\* DeleteRow: neither files nor row, or a part of it.
LEMMA DeleteRowFacts ==
    ASSUME TypeInv, NEW t \in Tasks, NEW f, DeleteRow(t, f)
    PROVE  /\ pc[t] = "rm_row" /\ Moves(t, "done")
           /\ UNCHANGED <<live, route, my, up, crashes, rc, rcRow>>
           /\ checkout' \in Opt(Versions) /\ dirs' \subseteq Versions
           /\ (row' = NoRow /\ op' = NoOp) \/ (row' = row /\ op' = op)
<1>0. pc[t] = "rm_row" /\ UNCHANGED <<world, my, service>> /\ Go(t, "done")
  BY Zenon DEF DeleteRow
<1>1. UNCHANGED <<live, route, my, up, crashes, rc, rcRow>>
  BY <1>0 DEF world, service
<1>2. "done" \in Steps
  BY DEF Steps
<1>3. \/ checkout' = None /\ dirs' = {} /\ row' = NoRow /\ op' = NoOp
      \/ checkout' = None /\ dirs' = {} /\ UNCHANGED store
      \/ UNCHANGED <<disk, store>>
  BY Zenon DEF DeleteRow
<1>4. /\ checkout' \in Opt(Versions) /\ dirs' \subseteq Versions
      /\ (row' = NoRow /\ op' = NoOp) \/ (row' = row /\ op' = op)
  BY <1>3 DEF disk, store, TypeInv, Opt
<1> QED
  BY <1>0, <1>1, <1>2, <1>4, GoFacts

----------------------------------------------------------------------------
(* Requests, the process, and the history                                   *)

\* Nothing has been asked of an idle task.
LEMMA NoLocalsType ==
    /\ NoLocals \in Locals /\ NoLocals.kind = "none" /\ NoLocals.upd = FALSE
    /\ NoLocals.src = None /\ NoLocals.git = FALSE /\ NoLocals.fresh = FALSE
BY DEF NoLocals, Locals, NoRow, Rows, Opt

\* A request reads the row; what is over is forgotten.
Forgets(u) == my'[u] = my[u] \/ (pc[u] = "done" /\ my'[u] = NoLocals)
Asks(t, k, upd, step) ==
    /\ pc[t] = "idle" /\ Moves(t, step) /\ my' \in [Tasks -> Locals]
    /\ my'[t].kind = k /\ SameRow(my'[t].row, row) /\ my'[t].src = None /\ my'[t].git = FALSE
    /\ my'[t].fresh = FALSE /\ my'[t].upd = upd
    /\ \A u \in Tasks \ {t} : Forgets(u)
    /\ UNCHANGED <<row, op, checkout, dirs, live, route, up, crashes, rc, rcRow>>

\* Ask does this.
LEMMA AskFacts ==
    ASSUME TypeInv, NEW t \in Tasks, NEW k \in WebKinds \cup CliKinds, NEW upd \in BOOLEAN,
           NEW step \in Steps, Ask(t, k, upd, step)
    PROVE  Asks(t, k, upd, step)
<1> DEFINE m == [NoLocals EXCEPT !.kind = k, !.row = Copy(row), !.upd = upd]
<1>1. /\ pc[t] = "idle" /\ Go(t, step) /\ UNCHANGED <<store, disk, world, service>>
      /\ my' = [u \in Tasks |-> IF u = t THEN m ELSE IF pc[u] = "done" THEN NoLocals ELSE my[u]]
  BY Zenon DEF Ask
<1>2. UNCHANGED <<row, op, checkout, dirs, live, route, up, crashes, rc, rcRow>>
  BY <1>1 DEF store, disk, world, service
<1>4. Copy(row) \in Rows /\ SameRow(Copy(row), row)
  BY CopyFacts DEF TypeInv
<1>5. /\ m \in Locals /\ m.kind = k /\ m.row = Copy(row) /\ m.upd = upd
      /\ m.src = None /\ m.git = FALSE /\ m.fresh = FALSE
  BY <1>4, NoLocalsType DEF Locals, NoLocals
<1> HIDE DEF m
<1>6. /\ my' \in [Tasks -> Locals] /\ my'[t] = m
      /\ \A u \in Tasks \ {t} : Forgets(u)
  BY <1>1, <1>5, NoLocalsType DEF TypeInv, Forgets
<1> QED
  BY <1>1, <1>2, <1>4, <1>5, <1>6, GoFacts DEF Asks

\* What is asked of the service or a command, and where it begins.
Admitted(t, k, upd, step) ==
    /\ upd \in BOOLEAN /\ k \in WebKinds \cup CliKinds /\ step \in Steps
    /\ k \notin {"retry", "settings"} => upd = (k = "update")
    /\ IF t \in CliTasks THEN k \in CliKinds ELSE up /\ k \in WebKinds
    /\ \/ k \in Creations /\ step = "insert" /\ ~row.there
       \/ k \in {"redeploy", "retry", "update"} /\ step = "claim" /\ row.there
       \/ k = "settings" /\ step = "overwrite" /\ row.there /\ row.type = "git"
       \/ k \in LookThenAct /\ step = "guard" /\ row.there
       \/ k = "deploy" /\ step = "prev" /\ t \in CliTasks

\* Every request is admitted.
LEMMA RequestFacts ==
    ASSUME TypeInv, NEW t \in Tasks, Request(t)
    PROVE  \E k, upd, step : Admitted(t, k, upd, step) /\ Asks(t, k, upd, step)
<1>1. \E k, upd, step : Admitted(t, k, upd, step) /\ Ask(t, k, upd, step)
  <2>0. "insert" \in Steps /\ "claim" \in Steps /\ "overwrite" \in Steps /\ "guard" \in Steps
        /\ "prev" \in Steps
    BY DEF Steps
  <2>1. CASE AskCreate(t)
    <3>1. Admitted(t, "create", FALSE, "insert") /\ Ask(t, "create", FALSE, "insert")
      BY <2>0, <2>1 DEF AskCreate, Served, Admitted, WebKinds, Creations
    <3> QED
      BY <3>1, Zenon
  <2>2. CASE AskUpload(t)
    <3>1. Admitted(t, "upload", FALSE, "insert") /\ Ask(t, "upload", FALSE, "insert")
      BY <2>0, <2>2 DEF AskUpload, Served, Admitted, WebKinds, Creations
    <3> QED
      BY <3>1, Zenon
  <2>3. CASE AskRedeploy(t)
    <3>1. Admitted(t, "redeploy", FALSE, "claim") /\ Ask(t, "redeploy", FALSE, "claim")
      BY <2>0, <2>3 DEF AskRedeploy, Served, Admitted, WebKinds
    <3> QED
      BY <3>1, Zenon
  <2>4. CASE AskRetry(t)
    <3>1. PICK upd \in BOOLEAN : Ask(t, "retry", upd, "claim")
      BY <2>4, Zenon DEF AskRetry
    <3>2. Admitted(t, "retry", upd, "claim")
      BY <2>0, <2>4 DEF AskRetry, Served, Admitted, WebKinds
    <3> QED
      BY <3>1, <3>2, Zenon
  <2>5. CASE AskSettings(t)
    <3>1. Admitted(t, "settings", op.upd, "overwrite") /\ Ask(t, "settings", op.upd, "overwrite")
      BY <2>0, <2>5 DEF AskSettings, Served, Admitted, WebKinds, TypeInv, Operations
    <3> QED
      BY <3>1, Zenon
  <2>6. CASE AskUpdate(t)
    <3>1. Admitted(t, "update", TRUE, "claim") /\ Ask(t, "update", TRUE, "claim")
      BY <2>0, <2>6 DEF AskUpdate, Served, Admitted, WebKinds
    <3> QED
      BY <3>1, Zenon
  <2>7. CASE AskAction(t)
    <3>1. PICK k \in {"start", "stop", "restart"} : Ask(t, k, FALSE, "guard")
      BY <2>7, Zenon DEF AskAction
    <3>2. Admitted(t, k, FALSE, "guard")
      BY <2>0, <2>7, <3>1 DEF AskAction, Served, Admitted, WebKinds, LookThenAct
    <3> QED
      BY <3>1, <3>2, Zenon
  <2>8. CASE AskRemove(t)
    <3>1. Admitted(t, "remove", FALSE, "guard") /\ Ask(t, "remove", FALSE, "guard")
      BY <2>0, <2>8 DEF AskRemove, Served, Admitted, WebKinds, LookThenAct
    <3> QED
      BY <3>1, Zenon
  <2>9. CASE AskApiAction(t)
    <3>1. PICK k \in LookThenAct : Ask(t, k, FALSE, "guard")
      BY <2>9, Zenon DEF AskApiAction
    <3>2. Admitted(t, k, FALSE, "guard")
      BY <2>0, <2>9, <3>1 DEF AskApiAction, Served, Admitted, WebKinds, LookThenAct
    <3> QED
      BY <3>1, <3>2, Zenon
  <2>10. CASE AskCliDeploy(t)
    <3>1. Admitted(t, "deploy", FALSE, "prev") /\ Ask(t, "deploy", FALSE, "prev")
      BY <2>0, <2>10 DEF AskCliDeploy, Admitted, CliKinds
    <3> QED
      BY <3>1, Zenon
  <2>11. CASE AskCliUpload(t)
    <3>1. Admitted(t, "upload", FALSE, "insert") /\ Ask(t, "upload", FALSE, "insert")
      BY <2>0, <2>11 DEF AskCliUpload, Admitted, CliKinds, Creations
    <3> QED
      BY <3>1, Zenon
  <2>12. CASE AskCli(t) /\ Ask(t, "redeploy", FALSE, "claim")
    <3>1. Admitted(t, "redeploy", FALSE, "claim")
      BY <2>0, <2>12 DEF AskCli, Admitted, CliKinds
    <3> QED
      BY <2>12, <3>1, Zenon
  <2>13. CASE AskCli(t) /\ ~Ask(t, "redeploy", FALSE, "claim")
    <3>1. PICK k \in LookThenAct : Ask(t, k, FALSE, "guard")
      BY <2>13, Zenon DEF AskCli
    <3>2. Admitted(t, k, FALSE, "guard")
      BY <2>0, <2>13, <3>1 DEF AskCli, Admitted, CliKinds, LookThenAct
    <3> QED
      BY <3>1, <3>2, Zenon
  <2> QED
    BY <2>1, <2>2, <2>3, <2>4, <2>5, <2>6, <2>7, <2>8, <2>9, <2>10, <2>11, <2>12, <2>13, Zenon
       DEF Request
<1>2. PICK k, upd, step : Admitted(t, k, upd, step) /\ Ask(t, k, upd, step)
  BY <1>1, Zenon
<1>3. k \in WebKinds \cup CliKinds /\ upd \in BOOLEAN /\ step \in Steps
  BY <1>2 DEF Admitted
<1>4. Asks(t, k, upd, step)
  BY <1>2, <1>3, AskFacts
<1> QED
  BY <1>2, <1>4, Zenon

\* Crash: the tasks of the service are dead, and containers perhaps down.
LEMMA CrashFacts ==
    ASSUME TypeInv, Crash
    PROVE  /\ up' = FALSE /\ crashes' \in 0..MaxCrashes /\ rc' = "off" /\ rcRow' \in Rows
           /\ pc' \in [Tasks -> Steps] /\ my' \in [Tasks -> Locals]
           /\ \A u \in Tasks : IF u \in CliTasks THEN pc'[u] = pc[u] /\ my'[u] = my[u]
                               ELSE /\ pc'[u] = IF pc[u] \in {"idle", "done"} THEN pc[u] ELSE "dead"
                                    /\ my'[u] = NoLocals
           /\ live' \in Containers /\ live'.src = live.src /\ (live.on = "none" => live'.on = "none")
           /\ (live = NoContainers => live' = NoContainers) /\ (live' = NoContainers => live.src = None)
           /\ UNCHANGED <<row, op, checkout, dirs, route>>
<1>0. /\ UNCHANGED <<store, disk, route>> /\ up' = FALSE /\ crashes' = crashes + 1 /\ rc' = "off"
      /\ crashes < MaxCrashes /\ rcRow' = NoRow
      /\ pc' = [t \in Tasks |-> IF t \notin CliTasks /\ pc[t] \notin {"idle", "done"}
                                THEN "dead" ELSE pc[t]]
      /\ my' = [t \in Tasks |-> IF t \notin CliTasks THEN NoLocals ELSE my[t]]
      /\ \E on \in Fewer : live' = [live EXCEPT !.on = on]
  BY Zenon DEF Crash
<1>1. UNCHANGED <<row, op, checkout, dirs, route>>
  BY <1>0 DEF store, disk
<1>2. crashes' \in 0..MaxCrashes
  BY <1>0, BoundsAreNat DEF TypeInv
<1>3. rcRow' \in Rows
  BY <1>0 DEF NoRow, Rows, Opt
<1>4. "dead" \in Steps
  BY DEF Steps
<1>5. /\ pc' \in [Tasks -> Steps] /\ my' \in [Tasks -> Locals]
      /\ \A u \in Tasks : IF u \in CliTasks THEN pc'[u] = pc[u] /\ my'[u] = my[u]
                          ELSE /\ pc'[u] = IF pc[u] \in {"idle", "done"} THEN pc[u] ELSE "dead"
                               /\ my'[u] = NoLocals
  BY <1>0, <1>4, NoLocalsType DEF TypeInv
<1>6. PICK on \in Fewer : live' = [live EXCEPT !.on = on]
  BY <1>0, Zenon
<1>7. on \in Running /\ (live.on = "none" => on = "none")
  BY DEF Fewer
<1>8. live = NoContainers => live.on = "none"
  BY DEF NoContainers
<1> QED
  BY <1>0, <1>1, <1>2, <1>3, <1>5, <1>6, <1>7, <1>8, OnFacts

\* Boot: what was active is interrupted, with an error on the row, and the
\* reconciliation begins.
LEMMA BootFacts ==
    ASSUME TypeInv, Boot
    PROVE  /\ ~up /\ up' = TRUE /\ rc' = "list" /\ op' \in Operations
           /\ IF op.state = "active"
              THEN op'.state = "interrupted" /\ op'.holder = op.holder /\ Status("error")
              ELSE op' = op /\ row' = row
           /\ row' \in Rows /\ SameRow(row', row)
           /\ my' \in [Tasks -> Locals] /\ \A u \in Tasks : Forgets(u)
           /\ UNCHANGED <<checkout, dirs, live, route, pc, crashes, rcRow>>
<1>0. /\ ~up /\ up' = TRUE /\ rc' = "list" /\ UNCHANGED <<disk, world, pc, crashes, rcRow>>
      /\ \/ op.state = "active" /\ op' = [op EXCEPT !.state = "interrupted"] /\ SetStatus("error")
         \/ op.state # "active" /\ UNCHANGED store
      /\ my' = [t \in Tasks |-> IF pc[t] = "done" THEN NoLocals ELSE my[t]]
  BY Zenon DEF Boot
<1>1. UNCHANGED <<checkout, dirs, live, route, pc, crashes, rcRow>>
  BY <1>0 DEF disk, world
<1>2. my' \in [Tasks -> Locals] /\ \A u \in Tasks : Forgets(u)
  BY <1>0, NoLocalsType DEF TypeInv, Forgets
<1>3. CASE op.state = "active"
  <2>1. op' \in Operations /\ op'.state = "interrupted" /\ op'.holder = op.holder
    BY <1>0, <1>3 DEF TypeInv, Operations
  <2>2. Status("error")
    BY <1>0, <1>3, StatusFacts
  <2> QED
    BY <1>0, <1>1, <1>2, <1>3, <2>1, <2>2 DEF Status
<1>4. CASE op.state # "active"
  BY <1>0, <1>1, <1>2, <1>4 DEF store, TypeInv, SameRow
<1> QED
  BY <1>3, <1>4

----------------------------------------------------------------------------
(* The reconciliation                                                       *)

\* ReconcileList: the row is read, or nothing is to be done.
LEMMA ListFacts ==
    ASSUME TypeInv, NEW f, ReconcileList(f)
    PROVE  /\ rc = "list"
           /\ UNCHANGED <<row, op, checkout, dirs, live, route, pc, my, up, crashes>>
           /\ \/ f = "none" /\ row.there /\ rcRow' = row /\ rc' = "look"
              \/ (f = "database" \/ ~row.there) /\ rcRow' = rcRow /\ rc' = "off"
<1>0. rc = "list" /\ UNCHANGED <<store, disk, world, local, up, crashes>>
  BY Zenon DEF ReconcileList
<1>1. UNCHANGED <<row, op, checkout, dirs, live, route, pc, my, up, crashes>>
  BY <1>0 DEF store, disk, world, local
<1> QED
  BY <1>0, <1>1 DEF ReconcileList

\* ReconcileLook: the app stays dark, or it goes on.
LEMMA LookFacts ==
    ASSUME TypeInv, NEW f, ReconcileLook(f)
    PROVE  /\ rc = "look"
           /\ UNCHANGED <<row, op, checkout, dirs, live, pc, my, up, crashes, rcRow>>
           /\ \/ f = "none" /\ Dark /\ rc' = "off" /\ route' = "none"
              \/ f \in {"route", "runtime"} /\ rc' = "off" /\ route' = route
              \/ /\ f = "none" /\ ~Dark /\ route' = route
                 /\ rc' = IF live.on = "none" /\ rcRow.status = "running" THEN "start" ELSE "sync"
<1>0. rc = "look" /\ UNCHANGED <<store, disk, live, local, up, crashes, rcRow>>
  BY Zenon DEF ReconcileLook
<1>1. UNCHANGED <<row, op, checkout, dirs, live, pc, my, up, crashes, rcRow>>
  BY <1>0 DEF store, disk, local
<1>2. \/ f = "none" /\ Dark /\ rc' = "off" /\ route' = "none"
      \/ f \in {"route", "runtime"} /\ rc' = "off" /\ route' = route
      \/ /\ f = "none" /\ ~Dark /\ route' = route
         /\ rc' = IF live.on = "none" /\ rcRow.status = "running" THEN "start" ELSE "sync"
  BY DEF ReconcileLook
<1> QED
  BY <1>0, <1>1, <1>2

\* ReconcileStart: the containers there are run, or not all of them.
LEMMA StartFacts ==
    ASSUME TypeInv, NEW f, ReconcileStart(f)
    PROVE  /\ rc = "start" /\ rc' = "sync"
           /\ UNCHANGED <<op, checkout, dirs, route, pc, my, up, crashes, rcRow>>
           /\ live' \in Containers /\ live'.src = live.src /\ (live = NoContainers => live' = NoContainers)
           /\ \/ /\ f = "none" /\ live # NoContainers /\ Status("running")
                 /\ live'.on # "none" /\ live' # NoContainers
              \/ (f = "runtime" \/ live = NoContainers) /\ row' = row
<1>0. rc = "start" /\ rc' = "sync" /\ UNCHANGED <<op, disk, route, local, up, crashes, rcRow>>
  BY Zenon DEF ReconcileStart
<1>1. UNCHANGED <<op, checkout, dirs, route, pc, my, up, crashes, rcRow>>
  BY <1>0 DEF disk, local
<1>2. CASE f = "none" /\ live # NoContainers /\ StartAll /\ SetStatus("running")
  BY <1>0, <1>1, <1>2, StartAllFacts, StatusFacts
<1>3. CASE (f = "runtime" \/ live = NoContainers) /\ UNCHANGED <<live, row>>
  BY <1>0, <1>1, <1>3 DEF TypeInv
<1>4. CASE /\ f = "runtime" /\ live # NoContainers /\ row' = row
           /\ \E on \in Running : live' = [live EXCEPT !.on = on]
  BY <1>0, <1>1, <1>4, OnFacts
<1> QED
  BY <1>2, <1>3, <1>4, Zenon DEF ReconcileStart

\* ReconcileSync: the route is brought in step with what was read, or left.
LEMMA ReconcileSyncFacts ==
    ASSUME TypeInv, NEW f, ReconcileSync(f)
    PROVE  /\ rc = "sync" /\ rc' = "off"
           /\ UNCHANGED <<row, op, checkout, dirs, live, pc, my, up, crashes, rcRow>>
           /\ (f = "none" /\ route' \in Synced(rcRow)) \/ (f = "route" /\ route' = route)
<1>0. rc = "sync" /\ rc' = "off" /\ UNCHANGED <<store, disk, live, local, up, crashes, rcRow>>
  BY Zenon DEF ReconcileSync
<1>1. UNCHANGED <<row, op, checkout, dirs, live, pc, my, up, crashes, rcRow>>
  BY <1>0 DEF store, disk, local
<1> QED
  BY <1>0, <1>1 DEF ReconcileSync

----------------------------------------------------------------------------
(* The history                                                              *)

\* Whoever begins is alone only if all is quiet; faults are counted anew.
LEMMA BeginsFacts ==
    ASSUME TypeInv, NEW who \in Tasks \cup {"startup"}, Begins(who)
    PROVE  /\ HistoryOK'
           /\ sole' = (IF Quiet THEN who ELSE None) /\ faults' = {}
           /\ (Quiet /\ sound') => route # "old" /\ (live = NoContainers \/ live.checked)
           /\ (Quiet /\ bare') => live = NoContainers
           /\ wanted' = (IF who # "startup" THEN "any"
                         ELSE IF op.state = "active" THEN "dark" ELSE wanted)
<1>1. /\ sole' = (IF Quiet THEN who ELSE None) /\ faults' = {}
      /\ sound' = (Quiet => route # "old" /\ (live = NoContainers \/ live.checked))
      /\ bare' = (Quiet => live = NoContainers)
      /\ wanted' = (IF who # "startup" THEN "any"
                    ELSE IF op.state = "active" THEN "dark" ELSE wanted)
      /\ struck' = struck
  BY Zenon DEF Begins
<1>2. sound' \in BOOLEAN /\ bare' \in BOOLEAN
  BY <1>1, Zenon
<1>3. /\ (Quiet /\ sound') => route # "old" /\ (live = NoContainers \/ live.checked)
      /\ (Quiet /\ bare') => live = NoContainers
  BY <1>1, Zenon
<1>4. HistoryOK
  BY DEF TypeInv
<1> HIDE DEF Quiet
<1>5. sole' \in Opt(Tasks) \cup {"startup"}
  BY <1>1 DEF Opt
<1>6. wanted' \in {"any", "up", "down", "dark"}
  BY <1>1, <1>4 DEF HistoryOK
<1> QED
  BY <1>1, <1>2, <1>3, <1>4, <1>5, <1>6 DEF HistoryOK

\* A success that leaves the app beyond doubt.
Earns(t) == Succeeds(t) /\ wanted' = (IF Kind(t) = "stop" THEN "down" ELSE "up")

\* A step of whoever is alone is written down; others' make an end of it.
LEMMA GoesFacts ==
    ASSUME TypeInv, NEW who \in Tasks \cup {"startup"}, NEW f \in Striking, Goes(who, f)
    PROVE  /\ HistoryOK' /\ f \in Faults
           /\ sole' = (IF sole = who THEN who ELSE None)
           /\ faults' = (IF sole = who THEN faults \cup ({f} \ {"none"}) ELSE {})
           /\ sole = who => sound' = sound /\ bare' = bare
           /\ who = "startup" => wanted' = wanted
           /\ who \in Tasks => (wanted' = "any" \/ Earns(who))
<1>1. /\ struck' = (IF f = "none" THEN struck ELSE struck + 1)
      /\ sole' = (IF sole = who THEN who ELSE None)
      /\ faults' = (IF sole = who THEN faults \cup ({f} \ {"none"}) ELSE {})
      /\ sound' = (IF sole = who THEN sound ELSE TRUE)
      /\ bare' = (IF sole = who THEN bare ELSE TRUE)
      /\ wanted' = IF who = "startup" THEN wanted
                   ELSE IF ~Succeeds(who) THEN "any"
                   ELSE IF Kind(who) = "stop" THEN "down" ELSE "up"
  BY Zenon DEF Goes
<1>2. f \in Faults /\ (f # "none" => struck < MaxFaults)
  BY DEF Striking, Faults
<1>3. /\ who = "startup" => wanted' = wanted
      /\ who # "startup" => \/ wanted' = "any"
                           \/ Earns(who)
  BY <1>1, Zenon DEF Earns
<1>a. who \in Tasks => who # "startup"
  BY StartupIsNoTask
<1>4. HistoryOK
  BY DEF TypeInv
<1>5. wanted' \in {"any", "up", "down", "dark"}
  BY <1>3, <1>4 DEF HistoryOK, Earns
<1>6. struck' \in 0..MaxFaults
  BY <1>1, <1>2, <1>4, BoundsAreNat DEF HistoryOK
<1>7. sole' \in Opt(Tasks) \cup {"startup"} /\ sound' \in BOOLEAN /\ bare' \in BOOLEAN
  BY <1>1, <1>4 DEF HistoryOK, Opt
<1>8. faults' \subseteq Faults \ {"none"}
  BY <1>1, <1>2, <1>4 DEF HistoryOK
<1> QED
  BY <1>1, <1>2, <1>3, <1>a, <1>5, <1>6, <1>7, <1>8 DEF HistoryOK

----------------------------------------------------------------------------
(* Types                                                                    *)

\* A job leaves everyone else's variables alone, and the service's. It takes or
\* ends no operation but its own, unless it deletes it.
Others(t) ==
    /\ my' \in [Tasks -> Locals] /\ pc' \in [Tasks -> Steps]
    /\ my'[t].kind = my[t].kind /\ my'[t].upd = my[t].upd
    /\ \A u \in Tasks \ {t} : pc'[u] = pc[u] /\ my'[u] = my[u]
    /\ UNCHANGED <<up, crashes, rc, rcRow>>
    /\ op' \in Operations /\ op'.holder \in {op.holder, t, None}
Resting == {"idle", "done", "dead"}

\* Every job keeps the types.
LEMMA JobFacts ==
    ASSUME TypeInv, NEW t \in Tasks, NEW f, Job(t, f), HistoryOK'
    PROVE  TypeInv' /\ Others(t) /\ pc[t] \notin Resting
<1>0. op \in Operations /\ my \in [Tasks -> Locals] /\ pc \in [Tasks -> Steps]
  BY DEF TypeInv
<1>a. NoRow \in Rows /\ NoOp \in Operations /\ NoOp.holder = None
  BY DEF NoRow, Rows, NoOp, Operations, Opt
<1>1. CASE Insert(t, f)
  BY <1>0, <1>1, InsertFacts DEF TypeInv, Others, Moves, Sets, Resting, Opt
<1>2. CASE Overwrite(t, f)
  BY <1>0, <1>2, OverwriteFacts DEF TypeInv, Others, Moves, Sets, Resting, Opt
<1>3. CASE Claim(t, f)
  BY <1>0, <1>3, ClaimFacts DEF TypeInv, Others, Moves, Sets, Resting, Opt, Takes
<1>4. CASE StoreSecrets(t, f)
  BY <1>0, <1>4, SecretsFacts DEF TypeInv, Others, Moves, Sets, Resting, Opt
<1>5. CASE Mark(t, f)
  BY <1>0, <1>5, MarkFacts DEF TypeInv, Others, Moves, Sets, Resting, Opt
<1>6. CASE Dequeue(t)
  BY <1>0, <1>6, DequeueFacts DEF TypeInv, Others, Moves, Sets, Resting, Opt
<1>7. CASE Begin(t)
  BY <1>0, <1>7, BeginFacts DEF TypeInv, Others, Moves, Sets, Resting, Opt
<1>8. CASE Finish(t)
  BY <1>0, <1>8, FinishFacts DEF TypeInv, Others, Moves, Sets, Resting, Opt, Ends
<1>9. CASE MarkPending(t, f)
  BY <1>0, <1>9, PendingFacts DEF TypeInv, Others, Moves, Sets, Resting, Opt, Status
<1>10. CASE ReadSource(t, f)
  BY <1>0, <1>10, SourceFacts DEF TypeInv, Others, Moves, Sets, Resting, Opt
<1>11. CASE ReadPrevious(t, f)
  <2>1. /\ UNCHANGED <<op, checkout, dirs, live, route, up, crashes, rc, rcRow>>
        /\ row' \in Rows /\ Sets(t) /\ pc[t] = "prev"
        /\ \E step \in Steps : Moves(t, step)
    <3>1. CASE UNCHANGED <<row, my>>
      BY <1>0, <1>11, <3>1, PreviousFacts DEF TypeInv, Moves, Sets, Steps, StartsOver, WritesAnother
    <3>2. CASE StartsOver(t) \/ WritesAnother(t)
      BY <1>0, <1>11, <3>2, PreviousFacts DEF TypeInv, Moves, Sets, Steps, StartsOver, WritesAnother
    <3> QED
      BY <1>11, <3>1, <3>2, PreviousFacts
  <2> QED
    BY <1>0, <2>1 DEF TypeInv, Others, Moves, Sets, Resting, Opt
<1>12. CASE ClearSource(t, f)
  BY <1>0, <1>12, ClearFacts DEF TypeInv, Others, Moves, Sets, Resting, Opt
<1>13. CASE Clone(t, f)
  BY <1>0, <1>13, CloneFacts DEF TypeInv, Others, Moves, Sets, Resting, Opt
<1>14. CASE Compose(t, f)
  BY <1>0, <1>14, ComposeFacts DEF TypeInv, Others, Moves, Sets, Resting, Opt
<1>15. CASE Teardown(t, f)
  BY <1>0, <1>15, TeardownFacts DEF TypeInv, Others, Moves, Sets, Resting, Opt, Removed
<1>16. CASE Deploy(t, f)
  BY <1>0, <1>16, DeployFacts DEF TypeInv, Others, Moves, Sets, Resting, Opt
<1>17. CASE Verify(t, f)
  BY <1>0, <1>17, VerifyFacts DEF TypeInv, Others, Moves, Sets, Resting, Opt
<1>18. CASE Persist(t, f)
  BY <1>0, <1>18, PersistFacts DEF TypeInv, Others, Moves, Sets, Resting, Opt
<1>19. CASE ClearCurrentRelease(t, f)
  BY <1>0, <1>19, UnpointFacts DEF TypeInv, Others, Moves, Sets, Resting, Opt
<1>20. CASE MarkRunning(t, f)
  BY <1>0, <1>20, RunningFacts DEF TypeInv, Others, Moves, Sets, Resting, Opt, Status
<1>21. CASE Publish(t, f)
  BY <1>0, <1>21, PublishFacts DEF TypeInv, Others, Moves, Sets, Resting, Opt, Synced
<1>22. CASE Undo(t, f)
  BY <1>0, <1>22, UndoFacts DEF TypeInv, Others, Moves, Sets, Resting, Opt, Removed
<1>23. CASE UndoRoute(t, f)
  BY <1>0, <1>23, UndoRouteFacts DEF TypeInv, Others, Moves, Sets, Resting, Opt, Synced
<1>24. CASE Record(t, f)
  BY <1>0, <1>24, RecordFacts DEF TypeInv, Others, Moves, Sets, Resting, Opt, Status
<1>25. CASE Update(t, f)
  BY <1>0, <1>25, UpdateFacts DEF TypeInv, Others, Moves, Sets, Resting, Opt, Ends
<1>26. CASE Guard(t, f)
  BY <1>0, <1>26, GuardFacts DEF TypeInv, Others, Moves, Sets, Resting, Opt
<1>27. CASE Act(t, f)
  BY <1>0, <1>27, ActFacts DEF TypeInv, Others, Moves, Sets, Resting, Opt
<1>28. CASE WriteStatus(t, f)
  BY <1>0, <1>28, WriteStatusFacts DEF TypeInv, Others, Moves, Sets, Resting, Opt, Status
<1>29. CASE Sync(t, f)
  BY <1>0, <1>29, SyncFacts DEF TypeInv, Others, Moves, Sets, Resting, Opt, Synced
<1>30. CASE RemoveRuntime(t, f)
  BY <1>0, <1>30, RemoveRuntimeFacts DEF TypeInv, Others, Moves, Sets, Resting, Opt, Removed
<1>31. CASE RemoveRoute(t, f)
  BY <1>0, <1>31, RemoveRouteFacts DEF TypeInv, Others, Moves, Sets, Resting, Opt
<1>32. CASE DeleteRow(t, f)
  BY <1>0, <1>a, <1>32, DeleteRowFacts DEF TypeInv, Others, Moves, Sets, Resting
<1> QED
  BY <1>1, <1>2, <1>3, <1>4, <1>5, <1>6, <1>7, <1>8, <1>9, <1>10, <1>11, <1>12, <1>13, <1>14,
     <1>15, <1>16, <1>17, <1>18, <1>19, <1>20, <1>21, <1>22, <1>23, <1>24, <1>25, <1>26, <1>27,
     <1>28, <1>29, <1>30, <1>31, <1>32,
     Zenon DEF Job

\* So does the reconciliation, which leaves the tasks and the operation alone.
LEMMA ReconcileFacts ==
    ASSUME TypeInv, NEW f, Reconcile(f), HistoryOK'
    PROVE  TypeInv' /\ UNCHANGED <<op, pc, my, checkout, dirs, up>> /\ rc # "off"
<1>0. row \in Rows /\ live \in Containers
  BY DEF TypeInv
<1>1. CASE ReconcileList(f)
  BY <1>0, <1>1, ListFacts DEF TypeInv
<1>2. CASE ReconcileLook(f)
  BY <1>0, <1>2, LookFacts DEF TypeInv
<1>3. CASE ReconcileStart(f)
  BY <1>0, <1>3, StartFacts DEF TypeInv, Status
<1>4. CASE ReconcileSync(f)
  BY <1>0, <1>4, ReconcileSyncFacts DEF TypeInv, Synced
<1> QED
  BY <1>1, <1>2, <1>3, <1>4, Zenon DEF Reconcile

\* The initial states have the types.
LEMMA InitType == Init => TypeInv
<1> SUFFICES ASSUME Init PROVE TypeInv
  OBVIOUS
<1>1. /\ NoRow \in Rows /\ NoOp \in Operations /\ NoContainers \in Containers
      /\ "idle" \in Steps
  BY DEF NoRow, Rows, NoOp, Operations, NoContainers, Containers, Opt, Steps, Running
<1>2. /\ op = NoOp /\ pc = [t \in Tasks |-> "idle"] /\ my = [t \in Tasks |-> NoLocals]
      /\ up = TRUE /\ crashes = 0 /\ rc = "off" /\ rcRow = NoRow
      /\ struck = 0 /\ sole = None /\ faults = {} /\ sound = TRUE /\ bare = TRUE
      /\ wanted = "any"
  BY Zenon DEF Init
<1>3. HistoryOK
  BY <1>2, BoundsAreNat DEF HistoryOK, Opt
<1>4. /\ row \in Rows /\ checkout \in Opt(Versions) /\ dirs \subseteq Versions
      /\ live \in Containers /\ route \in {"none", "live", "old"}
  <2>1. CASE /\ row = NoRow /\ checkout = None /\ route = "none" /\ dirs = {}
             /\ \/ live = NoContainers
                \/ \E v \in Versions : live = [spec |-> v, src |-> v, on |-> "all", checked |-> TRUE]
    <3>0. \A v \in Versions : [spec |-> v, src |-> v, on |-> "all", checked |-> TRUE] \in Containers
      BY DEF Opt, Containers, Running
    <3>1. live \in Containers
      BY <1>1, <2>1, <3>0, Zenon
    <3> QED
      BY <1>1, <2>1, <3>1 DEF Opt
  <2>2. ASSUME NEW v \in Versions, NEW k \in {"git", "drop"}, NEW updated \in BOOLEAN,
               row = [there |-> TRUE, type |-> k, compose |-> v,
                      release |-> IF updated THEN v ELSE None, status |-> "running"],
               dirs = IF updated THEN {v} ELSE {}, checkout = v,
               live = [spec |-> v, src |-> v, on |-> "all", checked |-> TRUE], route = "live"
        PROVE  /\ row \in Rows /\ checkout \in Opt(Versions) /\ dirs \subseteq Versions
               /\ live \in Containers /\ route \in {"none", "live", "old"}
    BY <2>2 DEF Rows, Containers, Opt, Running
  <2> QED
    BY <2>1, <2>2, Zenon DEF Init
<1> QED
  BY <1>1, <1>2, <1>3, <1>4, NoLocalsType, BoundsAreNat DEF TypeInv

\* Types are kept.
LEMMA TypeStep ==
    ASSUME TypeInv, [Next]_vars
    PROVE  TypeInv'
<1>1. ASSUME NEW t \in Tasks, Request(t), Begins(t)
      PROVE  TypeInv'
  <2>1. HistoryOK'
    BY <1>1, BeginsFacts
  <2>2. PICK k, upd, step : Asks(t, k, upd, step)
    BY <1>1, RequestFacts
  <2> QED
    BY <2>1, <2>2 DEF Asks, Moves, TypeInv
<1>2. ASSUME NEW t \in Tasks, NEW f \in Striking, Job(t, f), Goes(t, f)
      PROVE  TypeInv'
  BY <1>2, GoesFacts, JobFacts
<1>3. CASE Crash /\ sole' = None /\ faults' = {} /\ sound' = TRUE /\ bare' = TRUE
           /\ UNCHANGED <<wanted, struck>>
  <2>1. HistoryOK'
    BY <1>3 DEF TypeInv, HistoryOK, Opt
  <2> QED
    BY <1>3, <2>1, CrashFacts DEF TypeInv
<1>4. CASE Boot /\ Begins("startup")
  <2>1. HistoryOK'
    BY <1>4, BeginsFacts
  <2> QED
    BY <1>4, <2>1, BootFacts DEF TypeInv
<1>5. ASSUME NEW f \in Striking, Reconcile(f), Goes("startup", f)
      PROVE  TypeInv'
  BY <1>5, GoesFacts, ReconcileFacts
<1>6. CASE UNCHANGED vars
  <2>1. UNCHANGED <<row, op, checkout, dirs, live, route, pc, my, up, crashes, rc, rcRow>>
    BY <1>6 DEF vars, store, disk, world, local, service
  <2>2. UNCHANGED <<struck, sole, faults, sound, bare, wanted>>
    BY <1>6 DEF vars, history
  <2>3. HistoryOK'
    BY <2>2 DEF TypeInv, HistoryOK
  <2> QED
    BY <2>1, <2>3 DEF TypeInv
<1> QED
  BY <1>1, <1>2, <1>3, <1>4, <1>5, <1>6, Zenon DEF Next

\* Type correctness (TypeOK) for any requests, commands, failing calls and crashes.
THEOREM LifecycleTypeOK == Spec => []TypeOK
<1>1. TypeInv => TypeOK
  BY DEF TypeInv, HistoryOK, TypeOK, Operations, Containers, Locals
<1>2. TypeInv /\ [Next]_vars => TypeInv'
  BY TypeStep
<1> QED
  BY <1>1, <1>2, InitType, PTL DEF Spec

----------------------------------------------------------------------------
(* The invariants                                                           *)

\* The steps from the claim to the job, those of the pipelines, and those of a removal.
Claiming == {"claim", "mark", "queued"}
Working == {"begin", "prev", "clear", "clone", "compose", "pending", "source",
            "teardown", "deploy", "verify", "persist", "unpoint", "running",
            "publish", "undo", "undo_only", "undo_route", "record", "failed", "completed"}
Removing == {"rm_runtime", "rm_route", "rm_row"}

\* The steps from which on a pipeline has its source.
Sourced == {"compose", "teardown", "deploy", "verify", "persist", "unpoint", "running",
            "publish", "completed"}
Unclaimed(t) == pc[t] \in {"idle", "insert", "overwrite", "claim"} \/ (pc[t] = "prev" /\ Kind(t) = "deploy")

\* What a task does is what was asked of it, and nobody holds the operation who
\* has not claimed it.
TaskInv(t) ==
    /\ Kind(t) = "deploy" => t \in CliTasks
    /\ pc[t] \notin Resting => IF t \in CliTasks THEN Kind(t) \in CliKinds ELSE up
    /\ Kind(t) \in Creations \cup {"deploy", "redeploy"} => ~my[t].upd
    /\ Kind(t) = "update" => my[t].upd
    /\ pc[t] = "insert" => Kind(t) \in Creations
    /\ pc[t] = "overwrite" => Kind(t) = "settings" /\ my[t].row.type = "git"
    /\ pc[t] \in Claiming => Kind(t) \in Pipelines \cup {"update"}
    /\ pc[t] \in {"mark", "begin"} => Kind(t) # "create"
    /\ pc[t] \in {"mark", "queued", "begin"} => Kind(t) # "deploy"
    /\ pc[t] = "secrets" => Kind(t) = "create"
    /\ pc[t] \in Working => Kind(t) \in Pipelines /\ ~my[t].upd
    /\ pc[t] = "update" => Kind(t) \in Pipelines \cup {"update"} /\ my[t].upd
    /\ pc[t] = "guard" => Kind(t) \in LookThenAct
    /\ pc[t] \in {"act", "status", "sync"} => Kind(t) \in LookThenAct \ {"remove"}
    /\ pc[t] \in Removing => Kind(t) \in Creations \cup {"remove"}
    /\ pc[t] \in Sourced => my[t].src # None
    /\ my[t].fresh => my[t].git /\ (Kind(t) = "deploy" \/ pc[t] \in {"failed", "done"})
    /\ Unclaimed(t) => op.holder # t

\* Containers were made of something, and a drop has a compose file.
LiveInv == live.src = None => live = NoContainers
DropInv == row.there /\ row.type = "drop" => row.compose # None

\* Nobody else's step matters to what a task is about ...
LEMMA OtherTasks ==
    ASSUME TypeInv, NEW t \in Tasks, Others(t), NEW u \in Tasks \ {t}, TaskInv(u)
    PROVE  TaskInv(u)'
BY NoneIsNothing DEF Others, TaskInv, Unclaimed, Kind

\* What follows a claim.
ClaimedFor(t) ==
    /\ Claimed(t) \in {"clear", "begin", "secrets", "queued", "mark"}
    /\ Claimed(t) = "secrets" => Kind(t) = "create"
    /\ Claimed(t) \in {"mark", "queued"} => Kind(t) \notin {"create", "deploy"}
    /\ Claimed(t) = "begin" => Kind(t) \in {"upload", "redeploy"}
    /\ Claimed(t) = "clear" => Kind(t) = "deploy"

\* The service and the command line agree with this.
LEMMA ClaimedFacts ==
    ASSUME NEW t \in Tasks, TaskInv(t), pc[t] = "claim"
    PROVE  ClaimedFor(t)
<1>1. /\ Kind(t) = "deploy" => t \in CliTasks
      /\ t \in CliTasks => Kind(t) \in {"deploy", "upload", "redeploy"}
  BY DEF TaskInv, Resting, Claiming, Pipelines, Creations, CliKinds
<1>2. CASE t \in CliTasks /\ Kind(t) = "deploy"
  <2>1. Claimed(t) = "clear"
    BY <1>2, Zenon DEF Claimed
  <2> QED
    BY <1>2, <2>1 DEF ClaimedFor
<1>3. CASE t \in CliTasks /\ Kind(t) # "deploy"
  <2>1. Claimed(t) = "begin"
    BY <1>3 DEF Claimed
  <2> QED
    BY <1>1, <1>3, <2>1 DEF ClaimedFor
<1>4. CASE t \notin CliTasks /\ Kind(t) = "create"
  <2>1. Claimed(t) = "secrets"
    BY <1>4 DEF Claimed
  <2> QED
    BY <1>4, <2>1 DEF ClaimedFor
<1>5. CASE t \notin CliTasks /\ Kind(t) \in {"upload", "settings"}
  <2>1. Claimed(t) = "queued"
    BY <1>5 DEF Claimed
  <2> QED
    BY <1>5, <2>1 DEF ClaimedFor
<1>6. CASE t \notin CliTasks /\ Kind(t) \notin {"create", "upload", "settings"}
  <2>1. Claimed(t) = "mark"
    BY <1>6 DEF Claimed
  <2> QED
    BY <1>1, <1>6, <2>1 DEF ClaimedFor
<1> QED
  BY <1>2, <1>3, <1>4, <1>5, <1>6

\* ... and its own keeps it so.
LEMMA OwnTask ==
    ASSUME TypeInv, NEW t \in Tasks, NEW f, Job(t, f), Others(t), TaskInv(t)
    PROVE  TaskInv(t)'
<1> USE NoneIsNothing DEF TaskInv, Kind, Unclaimed, Others, Moves, Sets, Resting, Claiming, Working,
        Removing, Sourced, Pipelines, Creations, LookThenAct, CliKinds, SameRow
<1>1. CASE Insert(t, f)
  BY <1>1, InsertFacts
<1>2. CASE Overwrite(t, f)
  BY <1>2, OverwriteFacts
<1>3. CASE Claim(t, f)
  <2>1. pc[t] = "claim" /\ my' = my
    BY <1>3, ClaimFacts
  <2>2. ClaimedFor(t)
    BY <2>1, ClaimedFacts
  <2>3. CASE Takes(t) /\ Moves(t, Claimed(t))
    BY <2>1, <2>2, <2>3 DEF ClaimedFor, Takes
  <2>4. CASE Moves(t, "done")
    BY <2>1, <2>4
  <2>5. CASE Kind(t) \in Creations /\ Moves(t, "rm_runtime")
    BY <2>1, <2>5
  <2> QED
    BY <1>3, <2>3, <2>4, <2>5, ClaimFacts
<1>4. CASE StoreSecrets(t, f)
  BY <1>4, SecretsFacts
<1>5. CASE Mark(t, f)
  BY <1>5, MarkFacts
<1>6. CASE Dequeue(t)
  BY <1>6, DequeueFacts
<1>7. CASE Begin(t)
  BY <1>7, BeginFacts
<1>8. CASE Finish(t)
  BY <1>8, FinishFacts DEF Ends
<1>9. CASE MarkPending(t, f)
  BY <1>9, PendingFacts
<1>10. CASE ReadSource(t, f)
  BY <1>10, SourceFacts
<1>11. CASE ReadPrevious(t, f)
  <2>1. pc[t] = "prev" /\ op' = op
    BY <1>11, PreviousFacts
  <2>2. CASE StartsOver(t) /\ Sets(t) /\ my'[t].git = TRUE
    BY <2>1, <2>2 DEF StartsOver
  <2>3. CASE WritesAnother(t) /\ Sets(t) /\ my'[t].git = TRUE
    BY <2>1, <2>3 DEF WritesAnother
  <2>4. CASE my' = my /\ Moves(t, IF Kind(t) = "deploy" THEN "done" ELSE "failed")
    BY <2>1, <2>4
  <2> QED
    BY <1>11, <2>2, <2>3, <2>4, PreviousFacts
<1>12. CASE ClearSource(t, f)
  BY <1>12, ClearFacts
<1>13. CASE Clone(t, f)
  BY <1>13, CloneFacts
<1>14. CASE Compose(t, f)
  BY <1>14, ComposeFacts
<1>15. CASE Teardown(t, f)
  BY <1>15, TeardownFacts
<1>16. CASE Deploy(t, f)
  BY <1>16, DeployFacts
<1>17. CASE Verify(t, f)
  BY <1>17, VerifyFacts
<1>18. CASE Persist(t, f)
  BY <1>18, PersistFacts
<1>19. CASE ClearCurrentRelease(t, f)
  BY <1>19, UnpointFacts
<1>20. CASE MarkRunning(t, f)
  BY <1>20, RunningFacts
<1>21. CASE Publish(t, f)
  BY <1>21, PublishFacts
<1>22. CASE Undo(t, f)
  BY <1>22, UndoFacts
<1>23. CASE UndoRoute(t, f)
  BY <1>23, UndoRouteFacts
<1>24. CASE Record(t, f)
  BY <1>24, RecordFacts
<1>25. CASE Update(t, f)
  BY <1>25, UpdateFacts DEF Ends
<1>26. CASE Guard(t, f)
  BY <1>26, GuardFacts
<1>27. CASE Act(t, f)
  BY <1>27, ActFacts
<1>28. CASE WriteStatus(t, f)
  BY <1>28, WriteStatusFacts
<1>29. CASE Sync(t, f)
  BY <1>29, SyncFacts
<1>30. CASE RemoveRuntime(t, f)
  BY <1>30, RemoveRuntimeFacts
<1>31. CASE RemoveRoute(t, f)
  BY <1>31, RemoveRouteFacts
<1>32. CASE DeleteRow(t, f)
  BY <1>32, DeleteRowFacts DEF NoOp
<1> QED
  BY <1>1, <1>2, <1>3, <1>4, <1>5, <1>6, <1>7, <1>8, <1>9, <1>10, <1>11, <1>12, <1>13, <1>14,
     <1>15, <1>16, <1>17, <1>18, <1>19, <1>20, <1>21, <1>22, <1>23, <1>24, <1>25, <1>26, <1>27,
     <1>28, <1>29, <1>30, <1>31, <1>32,
     Zenon DEF Job

\* What a request asks of a task is what it may ask.
LEMMA AskedTask ==
    ASSUME TypeInv, NEW t \in Tasks, NEW k, NEW upd, NEW step, Admitted(t, k, upd, step),
           Asks(t, k, upd, step), TaskInv(t)
    PROVE  TaskInv(t)'
<1>1. /\ pc[t] = "idle" /\ pc'[t] = step /\ my'[t].kind = k /\ my'[t].src = None
      /\ my'[t].row.type = row.type /\ op' = op /\ up' = up
      /\ my'[t].upd = upd /\ my'[t].fresh = FALSE
  BY DEF Asks, Moves, SameRow
<1>2. op'.holder # t
  BY <1>1 DEF TaskInv, Unclaimed
<1>3. CASE k \in Creations /\ step = "insert" /\ ~row.there
  BY <1>1, <1>2, <1>3 DEF Admitted, TaskInv, Unclaimed, Kind, Resting, Claiming, Working,
     Removing, Sourced,
     Creations, Pipelines, CliKinds
<1>4. CASE k \in {"redeploy", "retry", "update"} /\ step = "claim" /\ row.there
  BY <1>1, <1>2, <1>4 DEF Admitted, TaskInv, Unclaimed, Kind, Resting, Claiming, Working,
     Removing, Sourced,
     Creations, Pipelines, CliKinds
<1>5. CASE k = "settings" /\ step = "overwrite" /\ row.there /\ row.type = "git"
  BY <1>1, <1>2, <1>5 DEF Admitted, TaskInv, Unclaimed, Kind, Resting, Claiming, Working,
     Removing, Sourced,
     Creations, Pipelines, CliKinds
<1>6. CASE k \in LookThenAct /\ step = "guard" /\ row.there
  BY <1>1, <1>2, <1>6 DEF Admitted, TaskInv, Unclaimed, Kind, Resting, Claiming, Working,
     Removing, Sourced,
     Creations, Pipelines, CliKinds, LookThenAct
<1>7. CASE k = "deploy" /\ step = "prev" /\ t \in CliTasks
  BY <1>1, <1>2, <1>7 DEF Admitted, TaskInv, Unclaimed, Kind, Resting, Claiming, Working,
     Removing, Sourced,
     Creations, Pipelines, CliKinds
<1> QED
  BY <1>3, <1>4, <1>5, <1>6, <1>7 DEF Admitted

\* A task that has ended can be forgotten.
LEMMA ForgottenTask ==
    ASSUME TypeInv, NEW u \in Tasks, TaskInv(u), Forgets(u), pc'[u] = pc[u],
           up' = up \/ pc[u] \in Resting \/ up', op'.holder = op.holder
    PROVE  TaskInv(u)'
BY NoLocalsType DEF Forgets, TaskInv, Unclaimed, Kind, Resting, Claiming, Working, Removing, Sourced,
   Creations, Pipelines, CliKinds

\* TaskInv is an invariant.
LEMMA TaskStep ==
    ASSUME TypeInv, [Next]_vars, \A t \in Tasks : TaskInv(t)
    PROVE  \A t \in Tasks : TaskInv(t)'
<1> SUFFICES ASSUME NEW u \in Tasks PROVE TaskInv(u)'
  OBVIOUS
<1>0. TaskInv(u)
  OBVIOUS
<1>1. ASSUME NEW t \in Tasks, Request(t), Begins(t)
      PROVE  TaskInv(u)'
  <2>1. PICK k, upd, step : Admitted(t, k, upd, step) /\ Asks(t, k, upd, step)
    BY <1>1, RequestFacts
  <2>2. CASE u = t
    BY <1>0, <2>1, <2>2, AskedTask
  <2>3. CASE u # t
    <3>1. Forgets(u) /\ pc'[u] = pc[u] /\ up' = up /\ op' = op
      BY <2>1, <2>3 DEF Asks, Moves
    <3> QED
      BY <1>0, <3>1, ForgottenTask
  <2> QED
    BY <2>2, <2>3
<1>2. ASSUME NEW t \in Tasks, NEW f \in Striking, Job(t, f), Goes(t, f)
      PROVE  TaskInv(u)'
  <2>1. Others(t)
    BY <1>2, GoesFacts, JobFacts
  <2> QED
    BY <1>0, <1>2, <2>1, OwnTask, OtherTasks
<1>3. CASE Crash
  BY <1>0, <1>3, CrashFacts, NoLocalsType DEF TaskInv, Unclaimed, Kind, Resting, Claiming, Working, Removing,
     Sourced, Creations, Pipelines, CliKinds
<1>4. CASE Boot
  <2>1. Forgets(u) /\ pc'[u] = pc[u] /\ up' /\ op'.holder = op.holder
    BY <1>4, BootFacts
  <2> QED
    BY <1>0, <2>1, ForgottenTask
<1>5. ASSUME NEW f \in Striking, Reconcile(f), Goes("startup", f)
      PROVE  TaskInv(u)'
  <2>1. UNCHANGED <<op, pc, my, up>>
    BY <1>5, GoesFacts, ReconcileFacts
  <2> QED
    BY <1>0, <2>1 DEF TaskInv, Unclaimed, Kind
<1>6. CASE UNCHANGED vars
  <2>1. UNCHANGED <<op, pc, my, up>>
    BY <1>6 DEF vars, store, local, service
  <2> QED
    BY <1>0, <2>1 DEF TaskInv, Unclaimed, Kind
<1> QED
  BY <1>1, <1>2, <1>3, <1>4, <1>5, <1>6, Zenon DEF Next

\* Containers stay made of something, and drops keep a compose file, whatever a job does.
LEMMA JobsKeepData ==
    ASSUME TypeInv, NEW t \in Tasks, NEW f, Job(t, f), TaskInv(t), LiveInv, DropInv
    PROVE  LiveInv' /\ DropInv'
<1>0. NoContainers.on = "none" /\ NoContainers.src = None
  BY DEF NoContainers
<1>1. CASE Insert(t, f)
  BY <1>1, InsertFacts DEF LiveInv, DropInv
<1>2. CASE Overwrite(t, f)
  <2>1. pc[t] = "overwrite" => my[t].row.type = "git"
    BY DEF TaskInv
  <2> QED
    BY <1>2, <2>1, OverwriteFacts DEF LiveInv, DropInv, SameRow
<1>3. CASE Claim(t, f)
  BY <1>3, ClaimFacts DEF LiveInv, DropInv
<1>4. CASE StoreSecrets(t, f)
  BY <1>4, SecretsFacts DEF LiveInv, DropInv
<1>5. CASE Mark(t, f)
  BY <1>5, MarkFacts DEF LiveInv, DropInv, SameRow
<1>6. CASE Dequeue(t)
  BY <1>6, DequeueFacts DEF LiveInv, DropInv
<1>7. CASE Begin(t)
  BY <1>7, BeginFacts DEF LiveInv, DropInv
<1>8. CASE Finish(t)
  BY <1>8, FinishFacts DEF LiveInv, DropInv
<1>9. CASE MarkPending(t, f)
  BY <1>9, PendingFacts DEF LiveInv, DropInv, SameRow, Status
<1>10. CASE ReadSource(t, f)
  BY <1>10, SourceFacts DEF LiveInv, DropInv
<1>11. CASE ReadPrevious(t, f)
  BY <1>11, PreviousFacts DEF LiveInv, DropInv, StartsOver, WritesAnother
<1>12. CASE ClearSource(t, f)
  BY <1>12, ClearFacts DEF LiveInv, DropInv
<1>13. CASE Clone(t, f)
  BY <1>13, CloneFacts DEF LiveInv, DropInv
<1>14. CASE Compose(t, f)
  <2>1. pc[t] = "compose" => my[t].src # None
    BY DEF TaskInv, Sourced
  <2> QED
    BY <1>14, <2>1, ComposeFacts DEF LiveInv, DropInv
<1>15. CASE Teardown(t, f)
  BY <1>15, TeardownFacts DEF LiveInv, DropInv, Removed
<1>16. CASE Deploy(t, f)
  <2>1. pc[t] = "deploy" => my[t].src # None
    BY DEF TaskInv, Sourced
  <2>2. Made(t, FALSE).src = my[t].src
    BY DEF Made
  <2> QED
    BY <1>16, <2>1, <2>2, DeployFacts DEF LiveInv, DropInv
<1>17. CASE Verify(t, f)
  BY <1>0, <1>17, VerifyFacts DEF LiveInv, DropInv
<1>18. CASE Persist(t, f)
  BY <1>18, PersistFacts DEF LiveInv, DropInv
<1>19. CASE ClearCurrentRelease(t, f)
  BY <1>19, UnpointFacts DEF LiveInv, DropInv
<1>20. CASE MarkRunning(t, f)
  BY <1>20, RunningFacts DEF LiveInv, DropInv, SameRow, Status
<1>21. CASE Publish(t, f)
  BY <1>21, PublishFacts DEF LiveInv, DropInv
<1>22. CASE Undo(t, f)
  BY <1>22, UndoFacts DEF LiveInv, DropInv, Removed
<1>23. CASE UndoRoute(t, f)
  BY <1>23, UndoRouteFacts DEF LiveInv, DropInv
<1>24. CASE Record(t, f)
  BY <1>24, RecordFacts DEF LiveInv, DropInv, SameRow, Status
<1>25. CASE Update(t, f)
  BY <1>25, UpdateFacts DEF LiveInv, DropInv, SameRow
<1>26. CASE Guard(t, f)
  BY <1>26, GuardFacts DEF LiveInv, DropInv
<1>27. CASE Act(t, f)
  BY <1>27, ActFacts DEF LiveInv, DropInv
<1>28. CASE WriteStatus(t, f)
  BY <1>28, WriteStatusFacts DEF LiveInv, DropInv, SameRow, Status
<1>29. CASE Sync(t, f)
  BY <1>29, SyncFacts DEF LiveInv, DropInv
<1>30. CASE RemoveRuntime(t, f)
  BY <1>30, RemoveRuntimeFacts DEF LiveInv, DropInv, Removed
<1>31. CASE RemoveRoute(t, f)
  BY <1>31, RemoveRouteFacts DEF LiveInv, DropInv
<1>32. CASE DeleteRow(t, f)
  BY <1>32, DeleteRowFacts DEF LiveInv, DropInv, NoRow
<1> QED
  BY <1>1, <1>2, <1>3, <1>4, <1>5, <1>6, <1>7, <1>8, <1>9, <1>10, <1>11, <1>12, <1>13, <1>14,
     <1>15, <1>16, <1>17, <1>18, <1>19, <1>20, <1>21, <1>22, <1>23, <1>24, <1>25, <1>26, <1>27,
     <1>28, <1>29, <1>30, <1>31, <1>32,
     Zenon DEF Job

\* Nor does anything else take these from them.
LEMMA DataStep ==
    ASSUME TypeInv, [Next]_vars, \A t \in Tasks : TaskInv(t), LiveInv, DropInv
    PROVE  LiveInv' /\ DropInv'
<1>1. ASSUME NEW t \in Tasks, Request(t), Begins(t)
      PROVE  LiveInv' /\ DropInv'
  BY <1>1, RequestFacts DEF Asks, LiveInv, DropInv
<1>2. ASSUME NEW t \in Tasks, NEW f \in Striking, Job(t, f), Goes(t, f)
      PROVE  LiveInv' /\ DropInv'
  BY <1>2, JobsKeepData
<1>3. CASE Crash
  BY <1>3, CrashFacts DEF LiveInv, DropInv
<1>4. CASE Boot
  BY <1>4, BootFacts DEF LiveInv, DropInv, SameRow
<1>5. ASSUME NEW f \in Striking, Reconcile(f)
      PROVE  LiveInv' /\ DropInv'
  <2>1. CASE ReconcileList(f)
    BY <2>1, ListFacts DEF LiveInv, DropInv
  <2>2. CASE ReconcileLook(f)
    BY <2>2, LookFacts DEF LiveInv, DropInv
  <2>3. CASE ReconcileStart(f)
    BY <2>3, StartFacts DEF LiveInv, DropInv, Status, SameRow
  <2>4. CASE ReconcileSync(f)
    BY <2>4, ReconcileSyncFacts DEF LiveInv, DropInv
  <2> QED
    BY <1>5, <2>1, <2>2, <2>3, <2>4, Zenon DEF Reconcile
<1>6. CASE UNCHANGED vars
  BY <1>6 DEF vars, store, world, LiveInv, DropInv
<1> QED
  BY <1>1, <1>2, <1>3, <1>4, <1>5, <1>6, Zenon DEF Next

----------------------------------------------------------------------------
(* A deploy that is alone                                                   *)

\* Up to its own containers; before it reads what to build; with containers that
\* were looked at.
Before == {"insert", "overwrite", "claim", "secrets", "mark", "queued", "begin", "prev", "clear",
           "clone", "compose", "pending", "source", "teardown"}
Unread == {"insert", "overwrite", "secrets", "mark", "queued", "begin", "pending", "source"}
Deployed == {"persist", "unpoint", "running", "publish", "completed"}
Undoing == {"undo", "undo_only", "undo_route", "record", "failed"}

\* What it remembers of the row is so, while it goes by it ...
There(t) == pc[t] \in Working \cup {"secrets", "mark", "queued"} /\ ~Unclaimed(t) => row.there
InStep(t) == my[t].row.compose = row.compose /\ my[t].row.type = row.type /\ my[t].row.there = row.there
RowInv(t) ==
    /\ There(t)
    /\ pc[t] \in (Before \ {"insert"}) \cup Deployed \cup {"deploy", "verify"} => InStep(t)
    /\ pc[t] \in (Before \ {"insert"}) \cup {"deploy", "verify", "persist", "unpoint"} =>
         my[t].row.release = row.release
    /\ Kind(t) = "create" /\ pc[t] \in {"claim", "secrets", "queued", "prev"} =>
         row.there /\ row.status = "pending" /\ row.compose = None

\* ... and what it builds is where the next redeploy will look for it.
SourceInv(t) ==
    /\ pc[t] \in Unread \/ (pc[t] = "claim" /\ Kind(t) # "deploy") => ~my[t].git /\ my[t].src = None
    /\ pc[t] \in {"clear", "clone", "compose", "unpoint"} \/ (pc[t] = "claim" /\ Kind(t) = "deploy") =>
         my[t].git
    /\ pc[t] \in {"pending", "source"} => row.compose # None /\ (row.type = "git" => CurrentSource # None)
    /\ pc[t] = "compose" => checkout = my[t].src
    /\ pc[t] \in {"teardown", "deploy", "verify"} \cup Deployed =>
         /\ row.compose # None
         /\ IF my[t].git THEN my[t].src = row.compose /\ checkout = my[t].src
                         ELSE my[t].src = CurrentSource
    /\ my[t].git /\ pc[t] \in {"running", "publish", "completed"} => row.release = None

\* The containers are those it made, and then the row and the route say so.
\* Those of before are gone, unless it found none to take down.
MadeInv(t) ==
    /\ bare /\ pc[t] \in Before => live = NoContainers
    /\ pc[t] = "deploy" /\ (my[t].fresh => bare) => live = NoContainers
    /\ pc[t] = "verify" => live = Made(t, FALSE)
    /\ pc[t] \in Deployed => live = Made(t, TRUE)
    /\ pc[t] \in {"publish", "completed"} => row.status = "running"
    /\ pc[t] = "completed" => route = "live"

Serves(t) ==
    /\ row.there /\ row.status = "running" /\ row.compose # None
    /\ live = [spec |-> row.compose, src |-> CurrentSource, on |-> "all", checked |-> TRUE]
    /\ my[t].git => CurrentSource = row.compose
    /\ route = "live"

\* What a failure shows and leaves, by what has struck; without a fault there is
\* one only for want of a source, or because of containers in the way.
Excused(t) == (my[t].row.type = "drop" /\ my[t].src = None) \/ (my[t].fresh /\ ~bare)
Away == live = NoContainers /\ route = "none"
Shown == ("regenerate" \notin faults /\ "database" \notin faults /\ "context" \notin faults)
             => row.status = "error"
Cleaning == "remove" \notin faults /\ "route" \notin faults /\ "database" \notin faults
Verified == live = NoContainers \/ live.checked
NotOld(t) == (my[t].git \/ "storage" \notin faults) => route # "old"

FailureInv(t) ==
    /\ pc[t] \in Undoing /\ faults = {} => Excused(t)
    /\ pc[t] = "undo_route" /\ faults = {} => live = NoContainers
    /\ pc[t] \in {"record", "failed"} /\ faults = {} /\ my[t].fresh => Away
    /\ pc[t] = "failed" => Shown
    /\ pc[t] = "undo_only" => ~my[t].git /\ "storage" \in faults
    /\ sound /\ Cleaning =>
         /\ pc[t] \in Before \cup {"record", "failed"} => Verified
         /\ pc[t] \in Before => route # "old"
         /\ pc[t] = "undo_route" => live = NoContainers
         /\ pc[t] \in {"record", "failed"} => NotOld(t)

Outcome(t) ==
    pc[t] = "done" /\ op.holder = t /\ ~my[t].upd =>
        /\ op.state = "completed" => Serves(t)
        /\ op.state = "failed" =>
             /\ faults = {} => Excused(t) /\ (my[t].fresh => row.status = "error" /\ Away)
             /\ sound => Shown /\ (Cleaning => Verified /\ NotOld(t))

PipelineInv(t) == RowInv(t) /\ SourceInv(t) /\ MadeInv(t) /\ FailureInv(t) /\ Outcome(t)

\* What strikes is remembered.
Strikes(f) ==
    /\ faults' = {} <=> faults = {} /\ f = "none"
    /\ \A x : x \in faults' <=> x \in faults \/ (x = f /\ f # "none")
    /\ sound' = sound /\ bare' = bare

\* The same row, checkout and releases are the same source.
LEMMA SameSource ==
    /\ row.release = None => CurrentSource = checkout
    /\ row'.there = row.there /\ row'.release = row.release /\ UNCHANGED <<checkout, dirs>> =>
         CurrentSource' = CurrentSource
    /\ row'.release = None => CurrentSource' = checkout'
BY DEF CurrentSource

\* Every step of a deploy that is alone keeps what it remembers of the row in step ...
LEMMA OwnRow ==
    ASSUME TypeInv, NEW t \in Tasks, NEW f, Job(t, f), TaskInv(t), Others(t), Kind(t) \in Pipelines, RowInv(t)
    PROVE  RowInv(t)'
<1> USE DEF Kind, Unclaimed, RowInv, There, InStep, Moves, SameRow
<1>0. my'[t].kind = my[t].kind
  BY DEF Others
<1>a. /\ pc[t] = "overwrite" => Kind(t) = "settings"
      /\ pc[t] \in {"mark", "begin"} => Kind(t) # "create"
  BY DEF TaskInv
<1>1. CASE Insert(t, f)
  BY <1>0, <1>a, <1>1, InsertFacts DEF Before, Deployed, Working
<1>2. CASE Overwrite(t, f)
  BY <1>0, <1>a, <1>2, OverwriteFacts DEF Before, Deployed, Working
<1>3. CASE Claim(t, f)
  BY <1>0, <1>a, <1>3, ClaimFacts DEF Before, Deployed, Working
<1>4. CASE StoreSecrets(t, f)
  BY <1>0, <1>a, <1>4, SecretsFacts DEF Before, Deployed, Working
<1>5. CASE Mark(t, f)
  BY <1>0, <1>a, <1>5, MarkFacts DEF Before, Deployed, Working
<1>6. CASE Dequeue(t)
  BY <1>0, <1>a, <1>6, DequeueFacts DEF Before, Deployed, Working
<1>7. CASE Begin(t)
  BY <1>0, <1>a, <1>7, BeginFacts DEF Before, Deployed, Working
<1>8. CASE Finish(t)
  BY <1>0, <1>a, <1>8, FinishFacts DEF Before, Deployed, Working
<1>9. CASE MarkPending(t, f)
  BY <1>0, <1>a, <1>9, PendingFacts DEF Before, Deployed, Working, Status
<1>10. CASE ReadSource(t, f)
  BY <1>0, <1>a, <1>10, SourceFacts DEF Before, Deployed, Working
<1>11. CASE ReadPrevious(t, f)
  BY <1>0, <1>a, <1>11, PreviousFacts DEF Before, Deployed, Working, StartsOver, WritesAnother
<1>12. CASE ClearSource(t, f)
  BY <1>0, <1>a, <1>12, ClearFacts DEF Before, Deployed, Working
<1>13. CASE Clone(t, f)
  BY <1>0, <1>a, <1>13, CloneFacts DEF Before, Deployed, Working
<1>14. CASE Compose(t, f)
  BY <1>0, <1>a, <1>14, ComposeFacts DEF Before, Deployed, Working
<1>15. CASE Teardown(t, f)
  BY <1>0, <1>a, <1>15, TeardownFacts DEF Before, Deployed, Working
<1>16. CASE Deploy(t, f)
  BY <1>0, <1>a, <1>16, DeployFacts DEF Before, Deployed, Working
<1>17. CASE Verify(t, f)
  BY <1>0, <1>a, <1>17, VerifyFacts DEF Before, Deployed, Working
<1>18. CASE Persist(t, f)
  BY <1>0, <1>a, <1>18, PersistFacts DEF Before, Deployed, Working
<1>19. CASE ClearCurrentRelease(t, f)
  BY <1>0, <1>a, <1>19, UnpointFacts DEF Before, Deployed, Working
<1>20. CASE MarkRunning(t, f)
  BY <1>0, <1>a, <1>20, RunningFacts DEF Before, Deployed, Working, Status
<1>21. CASE Publish(t, f)
  BY <1>0, <1>a, <1>21, PublishFacts DEF Before, Deployed, Working
<1>22. CASE Undo(t, f)
  BY <1>0, <1>a, <1>22, UndoFacts DEF Before, Deployed, Working
<1>23. CASE UndoRoute(t, f)
  BY <1>0, <1>a, <1>23, UndoRouteFacts DEF Before, Deployed, Working
<1>24. CASE Record(t, f)
  BY <1>0, <1>a, <1>24, RecordFacts DEF Before, Deployed, Working, Status
<1>25. CASE Update(t, f)
  BY <1>0, <1>a, <1>25, UpdateFacts DEF Before, Deployed, Working
<1>26. CASE Guard(t, f)
  BY <1>0, <1>a, <1>26, GuardFacts DEF Before, Deployed, Working
<1>27. CASE Act(t, f)
  BY <1>0, <1>a, <1>27, ActFacts DEF Before, Deployed, Working
<1>28. CASE WriteStatus(t, f)
  BY <1>0, <1>a, <1>28, WriteStatusFacts DEF Before, Deployed, Working
<1>29. CASE Sync(t, f)
  BY <1>0, <1>a, <1>29, SyncFacts DEF Before, Deployed, Working
<1>30. CASE RemoveRuntime(t, f)
  BY <1>0, <1>a, <1>30, RemoveRuntimeFacts DEF Before, Deployed, Working
<1>31. CASE RemoveRoute(t, f)
  BY <1>0, <1>a, <1>31, RemoveRouteFacts DEF Before, Deployed, Working
<1>32. CASE DeleteRow(t, f)
  BY <1>0, <1>a, <1>32, DeleteRowFacts DEF Before, Deployed, Working
<1> QED
  BY <1>1, <1>2, <1>3, <1>4, <1>5, <1>6, <1>7, <1>8, <1>9, <1>10, <1>11, <1>12, <1>13, <1>14,
     <1>15, <1>16, <1>17, <1>18, <1>19, <1>20, <1>21, <1>22, <1>23, <1>24, <1>25, <1>26, <1>27,
     <1>28, <1>29, <1>30, <1>31, <1>32,
     Zenon DEF Job

\* ... and where the source is ...
LEMMA OwnSource ==
    ASSUME TypeInv, NEW t \in Tasks, NEW f, Job(t, f), TaskInv(t), Others(t), Kind(t) \in Pipelines,
           RowInv(t), DropInv, SourceInv(t)
    PROVE  SourceInv(t)'
<1> USE DEF Kind, SourceInv, Moves, SameRow
<1>0. /\ my'[t].kind = my[t].kind /\ row.type \in {"git", "drop"} /\ my[t].row.type \in {"git", "drop"}
  BY DEF Others, TypeInv, Rows, Locals
<1>a. /\ Kind(t) = "deploy" => t \in CliTasks
      /\ pc[t] = "overwrite" => Kind(t) = "settings"
      /\ pc[t] = "insert" => Kind(t) \in {"create", "upload"}
      /\ pc[t] \in {"mark", "queued", "begin", "secrets"} => Kind(t) # "deploy"
      /\ pc[t] \in Sourced => my[t].src # None
  BY DEF TaskInv, Creations
<1>b. /\ pc[t] \in (Before \ {"insert"}) \cup Deployed \cup {"deploy", "verify"} =>
           my[t].row.compose = row.compose /\ my[t].row.type = row.type
      /\ pc[t] \in Deployed \cup {"deploy", "verify"} => row.there
      /\ pc[t] \in (Before \ {"insert"}) \cup {"deploy", "verify", "persist", "unpoint"} =>
           my[t].row.release = row.release
      /\ pc[t] \in {"begin", "pending"} => row.there
  BY DEF RowInv, InStep, There, Working, Unclaimed, Deployed
<1>1. CASE Insert(t, f)
  BY <1>0, <1>a, <1>b, <1>1, InsertFacts, SameSource DEF Before, Deployed, Unread, Sourced
<1>2. CASE Overwrite(t, f)
  BY <1>0, <1>a, <1>b, <1>2, OverwriteFacts, SameSource DEF Before, Deployed, Unread, Sourced
<1>3. CASE Claim(t, f)
  <2>1. pc[t] = "claim" /\ UNCHANGED <<row, checkout, dirs, my>>
    BY <1>3, ClaimFacts
  <2>2. ClaimedFor(t)
    BY <2>1, ClaimedFacts
  <2>3. CASE Moves(t, Claimed(t))
    BY <1>0, <1>a, <2>1, <2>2, <2>3 DEF ClaimedFor, Before, Deployed, Unread
  <2>4. CASE Moves(t, "done") \/ Moves(t, "rm_runtime")
    BY <2>4 DEF Before, Deployed, Unread
  <2> QED
    BY <1>3, <2>3, <2>4, ClaimFacts
<1>4. CASE StoreSecrets(t, f)
  BY <1>0, <1>a, <1>b, <1>4, SecretsFacts, SameSource DEF Before, Deployed, Unread, Sourced
<1>5. CASE Mark(t, f)
  BY <1>0, <1>a, <1>b, <1>5, MarkFacts, SameSource DEF Before, Deployed, Unread, Sourced
<1>6. CASE Dequeue(t)
  BY <1>0, <1>a, <1>b, <1>6, DequeueFacts, SameSource DEF Before, Deployed, Unread, Sourced
<1>7. CASE Begin(t)
  BY <1>0, <1>a, <1>b, <1>7, BeginFacts, SameSource DEF Before, Deployed, Unread, Sourced, DropInv
<1>8. CASE Finish(t)
  BY <1>0, <1>a, <1>b, <1>8, FinishFacts, SameSource DEF Before, Deployed, Unread, Sourced
<1>9. CASE MarkPending(t, f)
  BY <1>0, <1>a, <1>b, <1>9, PendingFacts, SameSource DEF Before, Deployed, Unread, Sourced, Status
<1>10. CASE ReadSource(t, f)
  BY <1>0, <1>a, <1>b, <1>10, SourceFacts, SameSource DEF Before, Deployed, Unread, Sourced
<1>11. CASE ReadPrevious(t, f)
  <2>1. pc[t] = "prev" /\ UNCHANGED <<checkout, dirs>>
    BY <1>11, PreviousFacts
  <2>2. CASE StartsOver(t) /\ my'[t].git = TRUE
    BY <1>0, <2>1, <2>2 DEF StartsOver, Before, Deployed, Unread
  <2>3. CASE WritesAnother(t) /\ my'[t].git = TRUE
    BY <1>0, <2>1, <2>3 DEF WritesAnother, Before, Deployed, Unread
  <2>4. CASE Moves(t, IF Kind(t) = "deploy" THEN "done" ELSE "failed")
    BY <2>1, <2>4 DEF Before, Deployed, Unread
  <2> QED
    BY <1>11, <2>2, <2>3, <2>4, PreviousFacts
<1>12. CASE ClearSource(t, f)
  BY <1>0, <1>a, <1>b, <1>12, ClearFacts, SameSource DEF Before, Deployed, Unread, Sourced
<1>13. CASE Clone(t, f)
  BY <1>0, <1>a, <1>b, <1>13, CloneFacts, SameSource DEF Before, Deployed, Unread, Sourced
<1>14. CASE Compose(t, f)
  BY <1>0, <1>a, <1>b, <1>14, ComposeFacts, SameSource DEF Before, Deployed, Unread, Sourced
<1>15. CASE Teardown(t, f)
  BY <1>0, <1>a, <1>b, <1>15, TeardownFacts, SameSource DEF Before, Deployed, Unread, Sourced
<1>16. CASE Deploy(t, f)
  BY <1>0, <1>a, <1>b, <1>16, DeployFacts, SameSource DEF Before, Deployed, Unread, Sourced
<1>17. CASE Verify(t, f)
  BY <1>0, <1>a, <1>b, <1>17, VerifyFacts, SameSource DEF Before, Deployed, Unread, Sourced
<1>18. CASE Persist(t, f)
  BY <1>0, <1>a, <1>b, <1>18, PersistFacts, SameSource DEF Before, Deployed, Unread, Sourced
<1>19. CASE ClearCurrentRelease(t, f)
  BY <1>0, <1>a, <1>b, <1>19, UnpointFacts, SameSource DEF Before, Deployed, Unread, Sourced
<1>20. CASE MarkRunning(t, f)
  BY <1>0, <1>a, <1>b, <1>20, RunningFacts, SameSource DEF Before, Deployed, Unread, Sourced, Status
<1>21. CASE Publish(t, f)
  BY <1>0, <1>a, <1>b, <1>21, PublishFacts, SameSource DEF Before, Deployed, Unread, Sourced
<1>22. CASE Undo(t, f)
  BY <1>0, <1>a, <1>b, <1>22, UndoFacts, SameSource DEF Before, Deployed, Unread, Sourced
<1>23. CASE UndoRoute(t, f)
  BY <1>0, <1>a, <1>b, <1>23, UndoRouteFacts, SameSource DEF Before, Deployed, Unread, Sourced
<1>24. CASE Record(t, f)
  BY <1>0, <1>a, <1>b, <1>24, RecordFacts, SameSource DEF Before, Deployed, Unread, Sourced, Status
<1>25. CASE Update(t, f)
  BY <1>0, <1>a, <1>b, <1>25, UpdateFacts, SameSource DEF Before, Deployed, Unread, Sourced
<1>26. CASE Guard(t, f)
  BY <1>0, <1>a, <1>b, <1>26, GuardFacts, SameSource DEF Before, Deployed, Unread, Sourced
<1>27. CASE Act(t, f)
  BY <1>0, <1>a, <1>b, <1>27, ActFacts, SameSource DEF Before, Deployed, Unread, Sourced
<1>28. CASE WriteStatus(t, f)
  BY <1>0, <1>a, <1>b, <1>28, WriteStatusFacts, SameSource DEF Before, Deployed, Unread, Sourced
<1>29. CASE Sync(t, f)
  BY <1>0, <1>a, <1>b, <1>29, SyncFacts, SameSource DEF Before, Deployed, Unread, Sourced
<1>30. CASE RemoveRuntime(t, f)
  BY <1>0, <1>a, <1>b, <1>30, RemoveRuntimeFacts, SameSource DEF Before, Deployed, Unread, Sourced
<1>31. CASE RemoveRoute(t, f)
  BY <1>0, <1>a, <1>b, <1>31, RemoveRouteFacts, SameSource DEF Before, Deployed, Unread, Sourced
<1>32. CASE DeleteRow(t, f)
  BY <1>0, <1>a, <1>b, <1>32, DeleteRowFacts, SameSource DEF Before, Deployed, Unread, Sourced
<1> QED
  BY <1>1, <1>2, <1>3, <1>4, <1>5, <1>6, <1>7, <1>8, <1>9, <1>10, <1>11, <1>12, <1>13, <1>14,
     <1>15, <1>16, <1>17, <1>18, <1>19, <1>20, <1>21, <1>22, <1>23, <1>24, <1>25, <1>26, <1>27,
     <1>28, <1>29, <1>30, <1>31, <1>32,
     Zenon DEF Job

\* Containers that were made are on, and looked at when they were.
LEMMA MadeFacts ==
    ASSUME NEW t
    PROVE  /\ Made(t, FALSE).on = "all" /\ Made(t, TRUE).on = "all" /\ Made(t, TRUE).checked
           /\ Made(t, TRUE) = [spec |-> Made(t, FALSE).spec, src |-> Made(t, FALSE).src,
                               on |-> "all", checked |-> TRUE]
           /\ my' = my => Made(t, TRUE)' = Made(t, TRUE) /\ Made(t, FALSE)' = Made(t, FALSE)
BY DEF Made

\* ... and the containers it has made.
LEMMA OwnMade ==
    ASSUME TypeInv, NEW t \in Tasks, NEW f, Job(t, f), TaskInv(t), Others(t), Kind(t) \in Pipelines,
           bare' = bare, RowInv(t), SourceInv(t), MadeInv(t)
    PROVE  MadeInv(t)'
<1> USE DEF Kind, MadeInv, Moves
<1>0. /\ pc[t] \in Deployed => row.compose # None /\ my[t].row.compose = row.compose /\ row.there
  BY DEF RowInv, InStep, There, Working, Unclaimed, Deployed, SourceInv
<1>1. CASE Insert(t, f)
  BY <1>0, <1>1, InsertFacts, MadeFacts DEF Deployed, Before
<1>2. CASE Overwrite(t, f)
  BY <1>0, <1>2, OverwriteFacts, MadeFacts DEF Deployed, Before
<1>3. CASE Claim(t, f)
  <2>1. CASE Moves(t, Claimed(t))
    BY <1>3, <2>1, ClaimedFacts, ClaimFacts DEF ClaimedFor, Deployed, Before
  <2>2. CASE Moves(t, "done") \/ Moves(t, "rm_runtime")
    BY <2>2 DEF Deployed, Before
  <2> QED
    BY <1>3, <2>1, <2>2, ClaimFacts
<1>4. CASE StoreSecrets(t, f)
  BY <1>0, <1>4, SecretsFacts, MadeFacts DEF Deployed, Before
<1>5. CASE Mark(t, f)
  BY <1>0, <1>5, MarkFacts, MadeFacts DEF Deployed, Before
<1>6. CASE Dequeue(t)
  BY <1>0, <1>6, DequeueFacts, MadeFacts DEF Deployed, Before
<1>7. CASE Begin(t)
  BY <1>0, <1>7, BeginFacts, MadeFacts DEF Deployed, Before
<1>8. CASE Finish(t)
  BY <1>0, <1>8, FinishFacts, MadeFacts DEF Deployed, Before
<1>9. CASE MarkPending(t, f)
  BY <1>0, <1>9, PendingFacts, MadeFacts DEF Deployed, Before, Status
<1>10. CASE ReadSource(t, f)
  BY <1>0, <1>10, SourceFacts, MadeFacts DEF Deployed, Before
<1>11. CASE ReadPrevious(t, f)
  BY <1>0, <1>11, PreviousFacts, MadeFacts DEF Deployed, Before, StartsOver, WritesAnother
<1>12. CASE ClearSource(t, f)
  BY <1>0, <1>12, ClearFacts, MadeFacts DEF Deployed, Before
<1>13. CASE Clone(t, f)
  BY <1>0, <1>13, CloneFacts, MadeFacts DEF Deployed, Before
<1>14. CASE Compose(t, f)
  BY <1>0, <1>14, ComposeFacts, MadeFacts DEF Deployed, Before
<1>15. CASE Teardown(t, f)
  BY <1>0, <1>15, TeardownFacts, MadeFacts DEF Deployed, Before, Removed
<1>16. CASE Deploy(t, f)
  BY <1>0, <1>16, DeployFacts, MadeFacts DEF Deployed, Before
<1>17. CASE Verify(t, f)
  <2>1. pc[t] = "verify" /\ my' = my /\ route' = route /\ row' = row /\ live = Made(t, FALSE)
    BY <1>17, VerifyFacts
  <2>2. CASE /\ Moves(t, "persist")
             /\ live' = [spec |-> live.spec, src |-> live.src, on |-> "all", checked |-> TRUE]
    <3>1. live' = Made(t, TRUE) /\ Made(t, TRUE)' = Made(t, TRUE)
      BY <2>1, <2>2, MadeFacts
    <3> QED
      BY <2>2, <3>1 DEF Deployed, Before
  <2>3. CASE Moves(t, "undo")
    BY <2>3 DEF Deployed, Before
  <2> QED
    BY <1>17, <2>2, <2>3, VerifyFacts
<1>18. CASE Persist(t, f)
  BY <1>0, <1>18, PersistFacts, MadeFacts DEF Deployed, Before
<1>19. CASE ClearCurrentRelease(t, f)
  <2>1. pc[t] = "unpoint" /\ my' = my /\ live' = live
    BY <1>19, UnpointFacts
  <2>2. live = Made(t, TRUE) /\ Made(t, TRUE)' = Made(t, TRUE)
    BY <2>1, MadeFacts DEF Deployed, Before
  <2>3. pc'[t] \in {"running", "undo"}
    BY <1>19, UnpointFacts
  <2> QED
    BY <2>1, <2>2, <2>3 DEF Deployed, Before
<1>20. CASE MarkRunning(t, f)
  BY <1>0, <1>20, RunningFacts, MadeFacts DEF Deployed, Before, Status
<1>21. CASE Publish(t, f)
  <2>1. pc[t] = "publish" /\ my' = my /\ live' = live /\ row' = row
    BY <1>21, PublishFacts
  <2>2. live = Made(t, TRUE) /\ Made(t, TRUE)' = Made(t, TRUE) /\ live.on = "all"
    BY <2>1, MadeFacts DEF Deployed
  <2>3. CASE route' \in Synced(my[t].row) /\ Moves(t, "completed")
    <3>1. route' = "live"
      BY <1>0, <2>1, <2>2, <2>3, SyncedFacts DEF Deployed
    <3> QED
      BY <2>1, <2>2, <2>3, <3>1 DEF Deployed, Before
  <2>4. CASE Moves(t, "record")
    BY <2>4 DEF Deployed, Before
  <2> QED
    BY <1>21, <2>3, <2>4, PublishFacts
<1>22. CASE Undo(t, f)
  BY <1>0, <1>22, UndoFacts, MadeFacts DEF Deployed, Before
<1>23. CASE UndoRoute(t, f)
  BY <1>0, <1>23, UndoRouteFacts, MadeFacts DEF Deployed, Before
<1>24. CASE Record(t, f)
  BY <1>0, <1>24, RecordFacts, MadeFacts DEF Deployed, Before, Status
<1>25. CASE Update(t, f)
  BY <1>0, <1>25, UpdateFacts, MadeFacts DEF Deployed, Before
<1>26. CASE Guard(t, f)
  BY <1>0, <1>26, GuardFacts, MadeFacts DEF Deployed, Before
<1>27. CASE Act(t, f)
  BY <1>0, <1>27, ActFacts, MadeFacts DEF Deployed, Before
<1>28. CASE WriteStatus(t, f)
  BY <1>0, <1>28, WriteStatusFacts, MadeFacts DEF Deployed, Before
<1>29. CASE Sync(t, f)
  BY <1>0, <1>29, SyncFacts, MadeFacts DEF Deployed, Before
<1>30. CASE RemoveRuntime(t, f)
  BY <1>0, <1>30, RemoveRuntimeFacts, MadeFacts DEF Deployed, Before
<1>31. CASE RemoveRoute(t, f)
  BY <1>0, <1>31, RemoveRouteFacts, MadeFacts DEF Deployed, Before
<1>32. CASE DeleteRow(t, f)
  BY <1>0, <1>32, DeleteRowFacts, MadeFacts DEF Deployed, Before
<1> QED
  BY <1>1, <1>2, <1>3, <1>4, <1>5, <1>6, <1>7, <1>8, <1>9, <1>10, <1>11, <1>12, <1>13, <1>14,
     <1>15, <1>16, <1>17, <1>18, <1>19, <1>20, <1>21, <1>22, <1>23, <1>24, <1>25, <1>26, <1>27,
     <1>28, <1>29, <1>30, <1>31, <1>32,
     Zenon DEF Job

\* ... and shows and cleans up what fails.
LEMMA OwnFailure ==
    ASSUME TypeInv, NEW t \in Tasks, NEW f, Job(t, f), TaskInv(t), Others(t), Kind(t) \in Pipelines, Strikes(f),
           RowInv(t), SourceInv(t), MadeInv(t), FailureInv(t)
    PROVE  FailureInv(t)'
<1> USE DEF Kind, FailureInv, Moves, Strikes, Excused, Shown, Cleaning, Verified, NotOld, Away
<1>0. /\ my'[t].kind = my[t].kind /\ row.type \in {"git", "drop"} /\ my[t].row.type \in {"git", "drop"}
  BY DEF Others, TypeInv, Rows, Locals
<1>a. /\ pc[t] \in Working /\ (pc[t] = "prev" => Kind(t) # "deploy") => row.there
      /\ pc[t] \in {"source", "pending"} => my[t].row.type = row.type
      /\ pc[t] \in {"source", "pending"} => my[t].src = None /\ (row.type = "git" => CurrentSource # None)
      /\ Kind(t) = "create" /\ pc[t] = "prev" => row.status = "pending" /\ row.compose = None
      /\ my[t].fresh => my[t].git /\ pc[t] \notin {"source", "pending"}
      /\ my[t].fresh /\ pc[t] = "prev" => Kind(t) = "deploy"
  BY DEF RowInv, InStep, There, Working, Unclaimed, Before, SourceInv, Unread, TaskInv
<1>b. /\ pc[t] = "deploy" => live = NoContainers \/ (my[t].fresh /\ ~bare)
      /\ pc[t] = "verify" => live.on = "all"
      /\ pc[t] = "persist" => live.checked
  BY MadeFacts DEF MadeInv, Deployed
<1>c. NoContainers.on = "none" /\ NoContainers.checked = FALSE
  BY DEF NoContainers
<1>1. CASE Insert(t, f)
  BY <1>0, <1>a, <1>b, <1>1, InsertFacts DEF Before, Undoing, Working
<1>2. CASE Overwrite(t, f)
  BY <1>0, <1>a, <1>b, <1>2, OverwriteFacts DEF Before, Undoing, Working
<1>3. CASE Claim(t, f)
  <2>1. /\ pc[t] = "claim" /\ UNCHANGED <<row, live, route>>
        /\ pc'[t] \in Before \/ pc'[t] = "done" \/ pc'[t] = "rm_runtime"
    BY <1>3, ClaimedFacts, ClaimFacts DEF ClaimedFor, Before
  <2> QED
    BY <1>0, <2>1 DEF Before, Undoing
<1>4. CASE StoreSecrets(t, f)
  BY <1>0, <1>a, <1>b, <1>4, SecretsFacts DEF Before, Undoing, Working
<1>5. CASE Mark(t, f)
  BY <1>0, <1>a, <1>b, <1>5, MarkFacts DEF Before, Undoing, Working
<1>6. CASE Dequeue(t)
  BY <1>0, <1>a, <1>b, <1>6, DequeueFacts DEF Before, Undoing, Working
<1>7. CASE Begin(t)
  BY <1>0, <1>a, <1>b, <1>7, BeginFacts DEF Before, Undoing, Working
<1>8. CASE Finish(t)
  BY <1>0, <1>a, <1>b, <1>8, FinishFacts DEF Before, Undoing, Working
<1>9. CASE MarkPending(t, f)
  BY <1>0, <1>a, <1>b, <1>9, PendingFacts DEF Before, Undoing, Working, Status, SameRow
<1>10. CASE ReadSource(t, f)
  BY <1>0, <1>a, <1>b, <1>10, SourceFacts DEF Before, Undoing, Working
<1>11. CASE ReadPrevious(t, f)
  <2>1. /\ pc[t] = "prev" /\ UNCHANGED <<live, route>>
        /\ StartsOver(t) \/ WritesAnother(t) => pc'[t] \in Before
    BY <1>11, <1>a, PreviousFacts DEF StartsOver, WritesAnother, Before, Working
  <2>2. CASE StartsOver(t) \/ WritesAnother(t)
    BY <2>1, <2>2 DEF Before, Undoing
  <2>3. CASE f = "database" /\ pc'[t] \in {"done", "failed"}
    BY <2>1, <2>3 DEF Before, Undoing
  <2>4. CASE Kind(t) = "deploy" /\ pc'[t] = "done"
    BY <2>1, <2>4 DEF Before, Undoing
  <2> QED
    BY <1>11, <1>a, <2>1, <2>2, <2>3, <2>4, PreviousFacts DEF Working
<1>12. CASE ClearSource(t, f)
  BY <1>0, <1>a, <1>b, <1>12, ClearFacts DEF Before, Undoing, Working
<1>13. CASE Clone(t, f)
  BY <1>0, <1>a, <1>b, <1>13, CloneFacts DEF Before, Undoing, Working
<1>14. CASE Compose(t, f)
  BY <1>0, <1>a, <1>b, <1>14, ComposeFacts DEF Before, Undoing, Working
<1>15. CASE Teardown(t, f)
  BY <1>0, <1>a, <1>b, <1>15, TeardownFacts DEF Before, Undoing, Working, Removed
<1>16. CASE Deploy(t, f)
  BY <1>0, <1>a, <1>b, <1>16, DeployFacts DEF Before, Undoing, Working
<1>17. CASE Verify(t, f)
  BY <1>0, <1>a, <1>b, <1>17, VerifyFacts DEF Before, Undoing, Working
<1>18. CASE Persist(t, f)
  BY <1>0, <1>a, <1>b, <1>18, PersistFacts DEF Before, Undoing, Working
<1>19. CASE ClearCurrentRelease(t, f)
  BY <1>0, <1>a, <1>b, <1>19, UnpointFacts DEF Before, Undoing, Working
<1>20. CASE MarkRunning(t, f)
  BY <1>0, <1>a, <1>b, <1>20, RunningFacts DEF Before, Undoing, Working, Status, SameRow
<1>21. CASE Publish(t, f)
  BY <1>0, <1>a, <1>b, <1>21, PublishFacts DEF Before, Undoing, Working
<1>22. CASE Undo(t, f)
  BY <1>0, <1>a, <1>b, <1>22, UndoFacts DEF Before, Undoing, Working, Removed
<1>23. CASE UndoRoute(t, f)
  <2>1. /\ pc[t] = "undo_route" /\ Moves(t, "record") /\ live' = live /\ my' = my /\ row' = row
        /\ (f = "none" /\ route' \in Synced(my[t].row)) \/ f = "route"
    BY <1>23, UndoRouteFacts
  <2>2. f = "none" => route' \in {"live", "none"} /\ (live = NoContainers => route' = "none")
    BY <1>c, <2>1, SyncedFacts
  <2> QED
    BY <2>1, <2>2 DEF Before, Undoing
<1>24. CASE Record(t, f)
  BY <1>0, <1>a, <1>b, <1>24, RecordFacts DEF Before, Undoing, Working, Status, SameRow
<1>25. CASE Update(t, f)
  BY <1>0, <1>a, <1>b, <1>25, UpdateFacts DEF Before, Undoing, Working
<1>26. CASE Guard(t, f)
  BY <1>0, <1>a, <1>b, <1>26, GuardFacts DEF Before, Undoing, Working
<1>27. CASE Act(t, f)
  BY <1>0, <1>a, <1>b, <1>27, ActFacts DEF Before, Undoing, Working
<1>28. CASE WriteStatus(t, f)
  BY <1>0, <1>a, <1>b, <1>28, WriteStatusFacts DEF Before, Undoing, Working
<1>29. CASE Sync(t, f)
  BY <1>0, <1>a, <1>b, <1>29, SyncFacts DEF Before, Undoing, Working
<1>30. CASE RemoveRuntime(t, f)
  BY <1>0, <1>a, <1>b, <1>30, RemoveRuntimeFacts DEF Before, Undoing, Working
<1>31. CASE RemoveRoute(t, f)
  BY <1>0, <1>a, <1>b, <1>31, RemoveRouteFacts DEF Before, Undoing, Working
<1>32. CASE DeleteRow(t, f)
  BY <1>0, <1>a, <1>b, <1>32, DeleteRowFacts DEF Before, Undoing, Working
<1> QED
  BY <1>1, <1>2, <1>3, <1>4, <1>5, <1>6, <1>7, <1>8, <1>9, <1>10, <1>11, <1>12, <1>13, <1>14,
     <1>15, <1>16, <1>17, <1>18, <1>19, <1>20, <1>21, <1>22, <1>23, <1>24, <1>25, <1>26, <1>27,
     <1>28, <1>29, <1>30, <1>31, <1>32,
     Zenon DEF Job

\* A pipeline that has come to its end serves.
LEMMA CompletedServes ==
    ASSUME TypeInv, NEW t \in Tasks, pc[t] = "completed", RowInv(t), SourceInv(t), MadeInv(t), TaskInv(t)
    PROVE  Serves(t)
<1>1. /\ row.there /\ my[t].row.compose = row.compose
  BY DEF RowInv, There, Working, Unclaimed, InStep, Deployed
<1>2. /\ row.compose # None
      /\ my[t].git => my[t].src = row.compose /\ checkout = my[t].src /\ row.release = None
      /\ ~my[t].git => my[t].src = CurrentSource
  BY DEF SourceInv, Deployed
<1>3. row.status = "running" /\ route = "live" /\ live = Made(t, TRUE)
  BY DEF MadeInv, Deployed
<1>4. my[t].src = CurrentSource
  BY <1>2, SameSource
<1> QED
  BY <1>1, <1>2, <1>3, <1>4 DEF Serves, Made

\* What it ends with is what the operation says.
LEMMA OwnOutcome ==
    ASSUME TypeInv, NEW t \in Tasks, NEW f, Job(t, f), TaskInv(t), Others(t), Kind(t) \in Pipelines, Strikes(f),
           op.holder = t => op.state = "active",
           RowInv(t), SourceInv(t), MadeInv(t), FailureInv(t)
    PROVE  Outcome(t)'
<1> SUFFICES ASSUME pc'[t] = "done", op'.holder = t, ~my'[t].upd
             PROVE  Outcome(t)'
  BY DEF Outcome
<1>0. /\ pc[t] \in {"insert", "overwrite", "claim"} => op.holder # t
      /\ pc[t] = "prev" /\ Kind(t) = "deploy" => op.holder # t
      /\ pc[t] = "update" => my[t].upd
      /\ pc[t] \notin {"guard", "act", "status", "sync"}
      /\ my'[t].upd = my[t].upd
  BY DEF TaskInv, Unclaimed, Others, LookThenAct, Pipelines, Creations
<1>1. CASE op' = op
  BY <1>1 DEF Outcome
<1>2. CASE f = "none" /\ Finish(t)
  <2>1. /\ pc[t] \in {"failed", "completed"} /\ op'.state = pc[t]
        /\ UNCHANGED <<row, checkout, dirs, live, route, my>>
    BY <1>2, FinishFacts DEF Ends
  <2>2. sound' = sound /\ bare' = bare /\ (faults' = {} <=> faults = {})
        /\ \A x : x \in faults' <=> x \in faults
    BY <1>2 DEF Strikes
  <2>3. CASE pc[t] = "completed"
    <3>1. Serves(t)
      BY <2>3, CompletedServes
    <3>2. Serves(t)'
      BY <2>1, <3>1 DEF Serves, CurrentSource
    <3> QED
      BY <2>1, <2>3, <3>2 DEF Outcome
  <2>4. CASE pc[t] = "failed"
    <3>1. /\ faults = {} => Excused(t) /\ (my[t].fresh => row.status = "error" /\ Away)
          /\ Shown
          /\ sound /\ Cleaning => Verified /\ NotOld(t)
      BY <2>4 DEF FailureInv, Undoing, Shown
    <3>2. /\ Excused(t)' <=> Excused(t)
          /\ Away' <=> Away
          /\ Shown' <=> Shown
          /\ Cleaning' <=> Cleaning
          /\ Verified' <=> Verified
          /\ NotOld(t)' <=> NotOld(t)
      BY <2>1, <2>2 DEF Excused, Shown, Cleaning, Verified, NotOld, Away
    <3> QED
      BY <2>1, <2>2, <2>4, <3>1, <3>2 DEF Outcome
  <2> QED
    BY <2>1, <2>3, <2>4
<1>3. CASE Insert(t, f)
  BY <1>0, <1>1, <1>3, InsertFacts
<1>4. CASE Overwrite(t, f)
  BY <1>0, <1>1, <1>4, OverwriteFacts
<1>5. CASE Claim(t, f)
  BY <1>0, <1>1, <1>5, ClaimedFacts, ClaimFacts DEF ClaimedFor, Moves, Takes
<1>6. CASE StoreSecrets(t, f)
  BY <1>0, <1>1, <1>6, SecretsFacts
<1>7. CASE Mark(t, f)
  BY <1>0, <1>1, <1>7, MarkFacts
<1>8. CASE Dequeue(t)
  BY <1>0, <1>1, <1>8, DequeueFacts
<1>9. CASE Begin(t)
  BY <1>0, <1>1, <1>9, BeginFacts
<1>10. CASE MarkPending(t, f)
  BY <1>0, <1>1, <1>10, PendingFacts
<1>11. CASE ReadSource(t, f)
  BY <1>0, <1>1, <1>11, SourceFacts
<1>12. CASE ReadPrevious(t, f)
  BY <1>0, <1>1, <1>12, PreviousFacts
<1>13. CASE ClearSource(t, f)
  BY <1>0, <1>1, <1>13, ClearFacts
<1>14. CASE Clone(t, f)
  BY <1>0, <1>1, <1>14, CloneFacts
<1>15. CASE Compose(t, f)
  BY <1>0, <1>1, <1>15, ComposeFacts
<1>16. CASE Teardown(t, f)
  BY <1>0, <1>1, <1>16, TeardownFacts
<1>17. CASE Deploy(t, f)
  BY <1>0, <1>1, <1>17, DeployFacts
<1>18. CASE Verify(t, f)
  BY <1>0, <1>1, <1>18, VerifyFacts
<1>19. CASE Persist(t, f)
  BY <1>0, <1>1, <1>19, PersistFacts
<1>20. CASE ClearCurrentRelease(t, f)
  BY <1>0, <1>1, <1>20, UnpointFacts
<1>21. CASE MarkRunning(t, f)
  BY <1>0, <1>1, <1>21, RunningFacts
<1>22. CASE Publish(t, f)
  BY <1>0, <1>1, <1>22, PublishFacts
<1>23. CASE Undo(t, f)
  BY <1>0, <1>1, <1>23, UndoFacts
<1>24. CASE UndoRoute(t, f)
  BY <1>0, <1>1, <1>24, UndoRouteFacts
<1>25. CASE Record(t, f)
  BY <1>0, <1>1, <1>25, RecordFacts
<1>26. CASE Update(t, f)
  BY <1>0, <1>1, <1>26, UpdateFacts
<1>27. CASE Guard(t, f)
  BY <1>0, <1>1, <1>27, GuardFacts
<1>28. CASE Act(t, f)
  BY <1>0, <1>1, <1>28, ActFacts
<1>29. CASE WriteStatus(t, f)
  BY <1>0, <1>1, <1>29, WriteStatusFacts
<1>30. CASE Sync(t, f)
  BY <1>0, <1>1, <1>30, SyncFacts
<1>31. CASE RemoveRuntime(t, f)
  BY <1>0, <1>1, <1>31, RemoveRuntimeFacts
<1>32. CASE RemoveRoute(t, f)
  BY <1>0, <1>1, <1>32, RemoveRouteFacts
<1>33. CASE DeleteRow(t, f)
  BY <1>0, <1>1, <1>33, NoneIsNothing, DeleteRowFacts DEF NoOp
<1> QED
  BY <1>2, <1>3, <1>4, <1>5, <1>6, <1>7, <1>8, <1>9, <1>10, <1>11, <1>12, <1>13, <1>14, <1>15, <1>16, <1>17, <1>18, <1>19,
     <1>20, <1>21, <1>22, <1>23, <1>24, <1>25, <1>26, <1>27, <1>28, <1>29, <1>30, <1>31, <1>32, <1>33,
     Zenon DEF Job

----------------------------------------------------------------------------
(* Any request that is alone                                                *)

\* It holds the operation from its claim on, until it ends it.
HoldsInv(t) ==
    /\ pc[t] \in {"secrets", "mark", "queued", "update"} => op.holder = t
    /\ pc[t] # "done" /\ op.holder = t => op.state = "active"

\* A start, stop or restart remembers the row, has done its work to the
\* containers and, unless an error was ignored, written the row.
LookInv(t) ==
    /\ pc[t] \in {"guard", "act", "status", "sync"} => InStep(t)
    /\ pc[t] \in {"status", "sync"} => live # NoContainers /\ (live.on = "none" <=> Kind(t) = "stop")
    /\ pc[t] = "sync" /\ faults = {} /\ (Kind(t) = "restart" => t \in CliTasks) /\ row.there =>
         row.status = IF Kind(t) = "stop" THEN "stopped" ELSE "running"

LoneInv(t) ==
    sole = t =>
      /\ rc = "off" /\ \A u \in Tasks \ {t} : pc[u] \in Resting
      /\ pc[t] \notin Resting => wanted = "any"
      /\ HoldsInv(t) /\ LookInv(t)
      /\ Kind(t) \in Pipelines => PipelineInv(t)

\* Its own steps keep the operation its own ...
LEMMA OwnHolds ==
    ASSUME TypeInv, NEW t \in Tasks, NEW f, Job(t, f), TaskInv(t), HoldsInv(t)
    PROVE  HoldsInv(t)'
<1> USE DEF HoldsInv, Moves
<1>0. pc[t] \in {"insert", "overwrite", "claim"} => op.holder # t
  BY DEF TaskInv, Unclaimed
<1>1. CASE Insert(t, f)
  BY <1>0, <1>1, InsertFacts
<1>2. CASE Overwrite(t, f)
  BY <1>0, <1>2, OverwriteFacts
<1>3. CASE Claim(t, f)
  BY <1>0, <1>3, ClaimFacts DEF Takes
<1>4. CASE StoreSecrets(t, f)
  BY <1>0, <1>4, SecretsFacts
<1>5. CASE Mark(t, f)
  BY <1>0, <1>5, MarkFacts
<1>6. CASE Dequeue(t)
  BY <1>0, <1>6, DequeueFacts
<1>7. CASE Begin(t)
  BY <1>0, <1>7, BeginFacts
<1>8. CASE Finish(t)
  BY <1>0, <1>8, FinishFacts DEF Ends
<1>9. CASE MarkPending(t, f)
  BY <1>0, <1>9, PendingFacts
<1>10. CASE ReadSource(t, f)
  BY <1>0, <1>10, SourceFacts
<1>11. CASE ReadPrevious(t, f)
  BY <1>0, <1>11, PreviousFacts DEF StartsOver, WritesAnother
<1>12. CASE ClearSource(t, f)
  BY <1>0, <1>12, ClearFacts
<1>13. CASE Clone(t, f)
  BY <1>0, <1>13, CloneFacts
<1>14. CASE Compose(t, f)
  BY <1>0, <1>14, ComposeFacts
<1>15. CASE Teardown(t, f)
  BY <1>0, <1>15, TeardownFacts
<1>16. CASE Deploy(t, f)
  BY <1>0, <1>16, DeployFacts
<1>17. CASE Verify(t, f)
  BY <1>0, <1>17, VerifyFacts
<1>18. CASE Persist(t, f)
  BY <1>0, <1>18, PersistFacts
<1>19. CASE ClearCurrentRelease(t, f)
  BY <1>0, <1>19, UnpointFacts
<1>20. CASE MarkRunning(t, f)
  BY <1>0, <1>20, RunningFacts
<1>21. CASE Publish(t, f)
  BY <1>0, <1>21, PublishFacts
<1>22. CASE Undo(t, f)
  BY <1>0, <1>22, UndoFacts
<1>23. CASE UndoRoute(t, f)
  BY <1>0, <1>23, UndoRouteFacts
<1>24. CASE Record(t, f)
  BY <1>0, <1>24, RecordFacts
<1>25. CASE Update(t, f)
  BY <1>0, <1>25, UpdateFacts DEF Ends
<1>26. CASE Guard(t, f)
  BY <1>0, <1>26, GuardFacts
<1>27. CASE Act(t, f)
  BY <1>0, <1>27, ActFacts
<1>28. CASE WriteStatus(t, f)
  BY <1>0, <1>28, WriteStatusFacts
<1>29. CASE Sync(t, f)
  BY <1>0, <1>29, SyncFacts
<1>30. CASE RemoveRuntime(t, f)
  BY <1>0, <1>30, RemoveRuntimeFacts
<1>31. CASE RemoveRoute(t, f)
  BY <1>0, <1>31, RemoveRouteFacts
<1>32. CASE DeleteRow(t, f)
  BY <1>0, <1>32, DeleteRowFacts, NoneIsNothing DEF NoOp
<1> QED
  BY <1>1, <1>2, <1>3, <1>4, <1>5, <1>6, <1>7, <1>8, <1>9, <1>10, <1>11, <1>12, <1>13, <1>14,
     <1>15, <1>16, <1>17, <1>18, <1>19, <1>20, <1>21, <1>22, <1>23, <1>24, <1>25, <1>26, <1>27,
     <1>28, <1>29, <1>30, <1>31, <1>32,
     Zenon DEF Job

\* ... and an action what it has done.
LEMMA OwnLook ==
    ASSUME TypeInv, NEW t \in Tasks, NEW f, Job(t, f), TaskInv(t), Others(t), Strikes(f), LiveInv, LookInv(t)
    PROVE  LookInv(t)'
<1> USE DEF Kind, LookInv, InStep, Moves, Strikes
<1>0. /\ my'[t].kind = my[t].kind
      /\ pc[t] \in {"act", "status", "sync"} => Kind(t) \in {"start", "stop", "restart"}
  BY DEF Others, TaskInv, LookThenAct
<1>a. /\ NoContainers.src = None
      /\ live # NoContainers => live.src # None
  BY DEF NoContainers, LiveInv
<1>1. CASE Insert(t, f)
  BY <1>0, <1>1, InsertFacts
<1>2. CASE Overwrite(t, f)
  BY <1>0, <1>2, OverwriteFacts
<1>3. CASE Claim(t, f)
  BY <1>0, <1>3, ClaimFacts, ClaimedFacts DEF ClaimedFor
<1>4. CASE StoreSecrets(t, f)
  BY <1>0, <1>4, SecretsFacts
<1>5. CASE Mark(t, f)
  BY <1>0, <1>5, MarkFacts
<1>6. CASE Dequeue(t)
  BY <1>0, <1>6, DequeueFacts
<1>7. CASE Begin(t)
  BY <1>0, <1>7, BeginFacts
<1>8. CASE Finish(t)
  BY <1>0, <1>8, FinishFacts
<1>9. CASE MarkPending(t, f)
  BY <1>0, <1>9, PendingFacts
<1>10. CASE ReadSource(t, f)
  BY <1>0, <1>10, SourceFacts
<1>11. CASE ReadPrevious(t, f)
  BY <1>0, <1>11, PreviousFacts DEF StartsOver, WritesAnother
<1>12. CASE ClearSource(t, f)
  BY <1>0, <1>12, ClearFacts
<1>13. CASE Clone(t, f)
  BY <1>0, <1>13, CloneFacts
<1>14. CASE Compose(t, f)
  BY <1>0, <1>14, ComposeFacts
<1>15. CASE Teardown(t, f)
  BY <1>0, <1>15, TeardownFacts
<1>16. CASE Deploy(t, f)
  BY <1>0, <1>16, DeployFacts
<1>17. CASE Verify(t, f)
  BY <1>0, <1>17, VerifyFacts
<1>18. CASE Persist(t, f)
  BY <1>0, <1>18, PersistFacts
<1>19. CASE ClearCurrentRelease(t, f)
  BY <1>0, <1>19, UnpointFacts
<1>20. CASE MarkRunning(t, f)
  BY <1>0, <1>20, RunningFacts
<1>21. CASE Publish(t, f)
  BY <1>0, <1>21, PublishFacts
<1>22. CASE Undo(t, f)
  BY <1>0, <1>22, UndoFacts
<1>23. CASE UndoRoute(t, f)
  BY <1>0, <1>23, UndoRouteFacts
<1>24. CASE Record(t, f)
  BY <1>0, <1>24, RecordFacts
<1>25. CASE Update(t, f)
  BY <1>0, <1>25, UpdateFacts
<1>26. CASE Guard(t, f)
  BY <1>0, <1>26, GuardFacts
<1>27. CASE Act(t, f)
  BY <1>0, <1>27, ActFacts, <1>a
<1>28. CASE WriteStatus(t, f)
  BY <1>0, <1>28, WriteStatusFacts DEF Status, SameRow
<1>29. CASE Sync(t, f)
  BY <1>0, <1>29, SyncFacts
<1>30. CASE RemoveRuntime(t, f)
  BY <1>0, <1>30, RemoveRuntimeFacts
<1>31. CASE RemoveRoute(t, f)
  BY <1>0, <1>31, RemoveRouteFacts
<1>32. CASE DeleteRow(t, f)
  BY <1>0, <1>32, DeleteRowFacts
<1> QED
  BY <1>1, <1>2, <1>3, <1>4, <1>5, <1>6, <1>7, <1>8, <1>9, <1>10, <1>11, <1>12, <1>13, <1>14,
     <1>15, <1>16, <1>17, <1>18, <1>19, <1>20, <1>21, <1>22, <1>23, <1>24, <1>25, <1>26, <1>27,
     <1>28, <1>29, <1>30, <1>31, <1>32,
     Zenon DEF Job

\* What strikes the one who is alone is remembered.
LEMMA StrikesFacts ==
    ASSUME TypeInv, NEW who \in Tasks \cup {"startup"}, NEW f \in Striking, Goes(who, f), sole = who
    PROVE  Strikes(f) /\ sole' = who
BY GoesFacts DEF Strikes

\* LoneInv is kept by the one who is alone, ...
LEMMA OwnLone ==
    ASSUME TypeInv, NEW t \in Tasks, NEW f \in Striking, Job(t, f), Goes(t, f), sole = t,
           TaskInv(t), LiveInv, DropInv, LoneInv(t)
    PROVE  LoneInv(t)'
<1>1. Strikes(f) /\ sole' = t
  BY StrikesFacts
<1>2. Others(t) /\ pc[t] \notin Resting
  BY GoesFacts, JobFacts
<1>3. HoldsInv(t)' /\ LookInv(t)'
  BY <1>1, <1>2, OwnHolds, OwnLook DEF LoneInv
<1>4. rc' = "off" /\ \A u \in Tasks \ {t} : pc'[u] \in Resting
  BY <1>2 DEF LoneInv, Others
<1>5. pc'[t] \notin Resting => wanted' = "any"
  <2>1. wanted = "any"
    BY <1>2 DEF LoneInv
  <2>2. Succeeds(t) => pc'[t] \in Resting
    BY DEF Succeeds, Resting
  <2> QED
    BY <2>1, <2>2, GoesFacts DEF Earns
<1>6. ASSUME Kind(t)' \in Pipelines
      PROVE  PipelineInv(t)'
  <2>1. Kind(t) \in Pipelines
    BY <1>2, <1>6 DEF Kind, Others
  <2>2. RowInv(t) /\ SourceInv(t) /\ MadeInv(t) /\ FailureInv(t)
    BY <2>1 DEF LoneInv, PipelineInv
  <2>3. op.holder = t => op.state = "active"
    BY <1>2 DEF LoneInv, HoldsInv, Resting
  <2>4. RowInv(t)' /\ SourceInv(t)' /\ MadeInv(t)'
    BY <1>1, <1>2, <2>1, <2>2, OwnRow, OwnSource, OwnMade DEF Strikes
  <2>5. FailureInv(t)' /\ Outcome(t)'
    BY <1>1, <1>2, <2>1, <2>2, <2>3, OwnFailure, OwnOutcome
  <2> QED
    BY <2>4, <2>5 DEF PipelineInv
<1> QED
  BY <1>1, <1>3, <1>4, <1>5, <1>6 DEF LoneInv

\* ... and true of one who begins alone: what it remembers is what there is.
LEMMA AskedLone ==
    ASSUME TypeInv, NEW t \in Tasks, Request(t), Begins(t), TaskInv(t)
    PROVE  LoneInv(t)'
<1> SUFFICES ASSUME sole' = t PROVE LoneInv(t)'
  BY DEF LoneInv
<1>1. PICK k, upd, step : Admitted(t, k, upd, step) /\ Asks(t, k, upd, step)
  BY RequestFacts
<1>2. /\ pc[t] = "idle" /\ pc'[t] = step /\ my'[t].kind = k /\ my'[t].src = None /\ my'[t].git = FALSE
      /\ SameRow(my'[t].row, row) /\ \A u \in Tasks \ {t} : pc'[u] = pc[u]
      /\ UNCHANGED <<row, op, checkout, dirs, live, route, rc>>
  BY <1>1 DEF Asks, Moves
<1>3. /\ Quiet /\ faults' = {} /\ wanted' = "any"
      /\ sound' => route # "old" /\ (live = NoContainers \/ live.checked)
      /\ bare' => live = NoContainers
  <2>1. None # t /\ t # "startup"
    BY NoneIsNothing, StartupIsNoTask
  <2> QED
    BY <2>1, BeginsFacts
<1>4. op.holder # t
  BY <1>2 DEF TaskInv, Unclaimed
<1>5. /\ step \in {"insert", "claim", "overwrite", "guard", "prev"}
      /\ k \in Pipelines => step # "guard"
      /\ step = "claim" => k # "deploy" /\ k # "create"
      /\ step = "prev" => k = "deploy"
      /\ step = "claim" \/ step = "overwrite" => row.there
  BY <1>1 DEF Admitted, Pipelines, LookThenAct, Creations
<1>6. HoldsInv(t)' /\ LookInv(t)'
  BY <1>2, <1>4, <1>5 DEF HoldsInv, LookInv, InStep, SameRow
<1>7. ASSUME k \in Pipelines PROVE PipelineInv(t)'
  <2>1. RowInv(t)'
    BY <1>2, <1>5 DEF RowInv, There, Kind, InStep, SameRow, Before, Deployed, Working, Unclaimed
  <2>2. SourceInv(t)'
    BY <1>2, <1>5, <1>7 DEF SourceInv, Kind, Unread, Deployed
  <2>3. MadeInv(t)'
    BY <1>2, <1>3, <1>5 DEF MadeInv, Deployed
  <2>4. FailureInv(t)'
    BY <1>2, <1>3, <1>5, <1>7 DEF FailureInv, Undoing, Before, Verified
  <2>5. Outcome(t)'
    BY <1>2, <1>5 DEF Outcome
  <2> QED
    BY <2>1, <2>2, <2>3, <2>4, <2>5 DEF PipelineInv
<1> QED
  BY <1>2, <1>3, <1>6, <1>7 DEF LoneInv, Quiet, Resting, Kind

\* LoneInv is an invariant: nobody else takes a step without an end to the solitude.
LEMMA LoneStep ==
    ASSUME TypeInv, [Next]_vars, \A t \in Tasks : TaskInv(t) /\ LoneInv(t), LiveInv, DropInv
    PROVE  \A t \in Tasks : LoneInv(t)'
<1> SUFFICES ASSUME NEW u \in Tasks PROVE LoneInv(u)'
  OBVIOUS
<1>0. u # None /\ u # "startup"
  BY NoneIsNothing, StartupIsNoTask
<1>1. ASSUME NEW t \in Tasks, Request(t), Begins(t)
      PROVE  LoneInv(u)'
  <2>1. CASE u = t
    BY <1>1, <2>1, AskedLone
  <2>2. CASE u # t
    <3>1. sole' # u
      BY <1>0, <1>1, <2>2, BeginsFacts
    <3> QED
      BY <3>1 DEF LoneInv
  <2> QED
    BY <2>1, <2>2
<1>2. ASSUME NEW t \in Tasks, NEW f \in Striking, Job(t, f), Goes(t, f)
      PROVE  LoneInv(u)'
  <2>1. CASE u = t /\ sole = t
    BY <1>2, <2>1, OwnLone
  <2>2. CASE ~(u = t /\ sole = t)
    <3>1. sole' # u
      BY <1>0, <1>2, <2>2, GoesFacts
    <3> QED
      BY <3>1 DEF LoneInv
  <2> QED
    BY <2>1, <2>2
<1>3. CASE Crash /\ sole' = None
  BY <1>0, <1>3 DEF LoneInv
<1>4. CASE Boot /\ Begins("startup")
  <2>1. sole' # u
    BY <1>0, <1>4, BeginsFacts
  <2> QED
    BY <2>1 DEF LoneInv
<1>5. ASSUME NEW f \in Striking, Reconcile(f), Goes("startup", f)
      PROVE  LoneInv(u)'
  <2>1. sole' # u
    BY <1>0, <1>5, GoesFacts
  <2> QED
    BY <2>1 DEF LoneInv
<1>6. CASE UNCHANGED vars
  <2>1. UNCHANGED <<row, op, checkout, dirs, live, route, pc, my, rc>>
    BY <1>6 DEF vars, store, disk, world, local, service
  <2>2. UNCHANGED <<sole, faults, sound, bare, wanted>>
    BY <1>6 DEF vars, history
  <2>3. LoneInv(u)
    OBVIOUS
  <2>4. /\ RowInv(u)' <=> RowInv(u)
        /\ SourceInv(u)' <=> SourceInv(u)
        /\ MadeInv(u)' <=> MadeInv(u)
    BY <2>1, <2>2 DEF RowInv, There, InStep, SourceInv, MadeInv, Made, Kind, Unclaimed, CurrentSource
  <2>5. /\ FailureInv(u)' <=> FailureInv(u)
        /\ Outcome(u)' <=> Outcome(u)
        /\ HoldsInv(u)' <=> HoldsInv(u)
        /\ LookInv(u)' <=> LookInv(u)
    BY <2>1, <2>2 DEF FailureInv, Outcome, HoldsInv, LookInv, InStep, Kind, Excused, Shown, Cleaning, Verified,
       NotOld, Away, Serves, CurrentSource
  <2> QED
    BY <2>1, <2>2, <2>3, <2>4, <2>5 DEF LoneInv, PipelineInv, Kind
<1> QED
  BY <1>1, <1>2, <1>3, <1>4, <1>5, <1>6, Zenon DEF Next

----------------------------------------------------------------------------
(* A service start, and what is wanted of it                                *)

\* A reconciliation that is alone knows the row, only starts what the row says
\* runs, and at its end has made of the app what the row says.
Restored ==
    /\ route = "live" => live.on # "none"
    /\ route # "old"
    /\ row.status = "error" /\ op.state \in {"failed", "interrupted"} => route = "none"
    /\ row.status = "running" /\ row.compose # None /\ live # NoContainers =>
         live.on # "none" /\ (live.on = "all" => route = "live")
    /\ live.on = "none" => route = "none"
KnowsRow ==
    /\ rc \in {"look", "start", "sync"} => rcRow = row /\ row.there
    /\ rc = "start" => rcRow.status = "running"
StartInv ==
    sole = "startup" =>
      /\ up /\ \A u \in Tasks : pc[u] \in Resting
      /\ KnowsRow
      /\ faults = {} =>
           /\ rc \in {"start", "sync"} => ~Dark
           /\ rc = "sync" /\ row.status = "running" => live.on # "none"
           /\ rc = "off" /\ row.there => Restored

\* While it is beyond doubt how the app should be nobody works on it, and the
\* row and the containers have it; or a command does, and the row has the error.
WantedInv ==
    wanted # "any" =>
      /\ wanted # "dark" => \A u \in Tasks : pc[u] \in Resting
      /\ KnowsRow
      /\ wanted = "dark" => op.state = "interrupted" /\ (row.there => row.status = "error")
      /\ wanted = "up" /\ row.there => row.status = "running" /\ row.compose # None /\ live # NoContainers
      /\ wanted = "down" /\ row.there => row.status = "stopped"
      /\ wanted = "down" => live.on = "none"

\* A status that a row has already changes nothing.
LEMMA SameStatus ==
    ASSUME TypeInv, row.there, row.status = "running", Status("running")
    PROVE  row' = row
<1>1. \A r \in Rows : r = [there |-> r.there, type |-> r.type, compose |-> r.compose,
                           release |-> r.release, status |-> r.status]
  BY DEF Rows
<1>2. row \in Rows /\ row' \in Rows /\ row'.status = row.status
  BY DEF TypeInv, Status
<1> QED
  BY <1>1, <1>2 DEF Status, SameRow

\* The reconciliation keeps the row while it knows it.
LEMMA ReconcileKeeps ==
    ASSUME TypeInv, NEW f, Reconcile(f), KnowsRow
    PROVE  KnowsRow' /\ row' = row
<1>1. CASE ReconcileList(f)
  BY <1>1, ListFacts DEF KnowsRow
<1>2. CASE ReconcileLook(f)
  BY <1>2, LookFacts DEF KnowsRow
<1>3. CASE ReconcileStart(f)
  BY <1>3, StartFacts, SameStatus DEF KnowsRow
<1>4. CASE ReconcileSync(f)
  BY <1>4, ReconcileSyncFacts DEF KnowsRow
<1> QED
  BY <1>1, <1>2, <1>3, <1>4, Zenon DEF Reconcile

\* StartInv is kept by the reconciliation, ...
LEMMA ReconcileStarts ==
    ASSUME TypeInv, NEW f \in Striking, Reconcile(f), Goes("startup", f), sole = "startup", StartInv, HistoryOK'
    PROVE  StartInv'
<1>1. Strikes(f)
  BY StrikesFacts
<1>2. /\ KnowsRow' /\ row' = row /\ UNCHANGED <<op, pc, up>>
      /\ up /\ \A u \in Tasks : pc[u] \in Resting
  BY ReconcileKeeps, ReconcileFacts DEF StartInv
<1>3. SUFFICES ASSUME faults' = {}
               PROVE  /\ rc' \in {"start", "sync"} => ~Dark'
                      /\ rc' = "sync" /\ row'.status = "running" => live'.on # "none"
                      /\ rc' = "off" /\ row'.there => Restored'
  BY <1>2 DEF StartInv
<1>4. faults = {} /\ f = "none"
  BY <1>1, <1>3 DEF Strikes
<1>5. /\ rc \in {"look", "start", "sync"} => rcRow = row
      /\ rc \in {"start", "sync"} => ~Dark
      /\ rc = "sync" /\ row.status = "running" => live.on # "none"
      /\ rc = "start" => row.status = "running"
  BY <1>4 DEF StartInv, KnowsRow
<1>6. CASE ReconcileList(f)
  BY <1>4, <1>6, ListFacts DEF Restored
<1>7. CASE ReconcileLook(f)
  <2>1. rc = "look" /\ rcRow = row /\ UNCHANGED <<row, op, live, rcRow>>
    BY <1>5, <1>7, LookFacts
  <2>2. Dark' <=> Dark
    BY <2>1 DEF Dark
  <2>3. CASE Dark /\ rc' = "off" /\ route' = "none"
    BY <2>1, <2>3 DEF Dark, Restored
  <2>4. CASE ~Dark /\ route' = route /\ rc' = IF live.on = "none" /\ rcRow.status = "running" THEN "start" ELSE "sync"
    BY <2>1, <2>2, <2>4 DEF Restored
  <2> QED
    BY <1>4, <1>7, <2>3, <2>4, LookFacts
<1>8. CASE ReconcileStart(f)
  <2>1. /\ rc = "start" /\ rc' = "sync" /\ ~Dark /\ UNCHANGED <<op, rcRow, row>>
        /\ live' # NoContainers /\ live'.on # "none"
    <3>1. live # NoContainers
      BY <1>5, <1>8, StartFacts DEF Dark
    <3> QED
      BY <1>2, <1>4, <1>5, <1>8, <3>1, StartFacts
  <2>2. ~Dark'
    BY <2>1 DEF Dark
  <2> QED
    BY <2>1, <2>2
<1>9. CASE ReconcileSync(f)
  <2>1. /\ rc = "sync" /\ rc' = "off" /\ rcRow = row /\ ~Dark /\ UNCHANGED <<row, op, live>>
        /\ route' \in Synced(row)
    BY <1>4, <1>5, <1>9, ReconcileSyncFacts
  <2>2. /\ row.compose # None /\ ~(row.status = "error" /\ op.state \in {"failed", "interrupted"})
        /\ live # NoContainers
    BY <2>1 DEF Dark
  <2>3. /\ route' \in {"live", "none"} /\ (route' = "live" => live.on # "none")
        /\ live.on = "all" => route' = "live"
    BY <2>1, <2>2, SyncedFacts
  <2> QED
    BY <1>5, <2>1, <2>2, <2>3 DEF Restored
<1> QED
  BY <1>6, <1>7, <1>8, <1>9, Zenon DEF Reconcile

\* ... and nobody else is alone with a service start.
LEMMA StartStep ==
    ASSUME TypeInv, [Next]_vars, StartInv
    PROVE  StartInv'
<1>0. "startup" # None
  BY StartupIsNoTask
<1>1. ASSUME NEW t \in Tasks, Request(t), Begins(t)
      PROVE  StartInv'
  <2>1. t # "startup"
    BY StartupIsNoTask
  <2>2. sole' # "startup"
    BY <1>0, <1>1, <2>1, BeginsFacts
  <2> QED
    BY <2>2 DEF StartInv
<1>2. ASSUME NEW t \in Tasks, NEW f \in Striking, Job(t, f), Goes(t, f)
      PROVE  StartInv'
  <2>1. t # "startup"
    BY StartupIsNoTask
  <2>2. sole' # "startup"
    BY <1>0, <1>2, <2>1, GoesFacts
  <2> QED
    BY <2>2 DEF StartInv
<1>3. CASE Crash /\ sole' = None
  BY <1>0, <1>3 DEF StartInv
<1>4. CASE Boot /\ Begins("startup")
  <2>1. sole' = "startup" => Quiet
    BY <1>0, <1>4, BeginsFacts
  <2>2. rc' = "list" /\ up' = TRUE /\ pc' = pc
    BY <1>4, BootFacts
  <2> QED
    BY <2>1, <2>2 DEF StartInv, KnowsRow, Quiet, Resting
<1>5. ASSUME NEW f \in Striking, Reconcile(f), Goes("startup", f)
      PROVE  StartInv'
  <2>1. CASE sole = "startup"
    BY <1>5, <2>1, ReconcileStarts, GoesFacts
  <2>2. CASE sole # "startup"
    <3>1. sole' # "startup"
      BY <1>0, <1>5, <2>2, GoesFacts
    <3> QED
      BY <3>1 DEF StartInv
  <2> QED
    BY <2>1, <2>2
<1>6. CASE UNCHANGED vars
  <2>1. UNCHANGED <<row, op, live, route, pc, up, rc, rcRow, sole, faults, wanted>>
    BY <1>6 DEF vars, store, world, local, service, history
  <2> QED
    BY <2>1 DEF StartInv, KnowsRow, Dark, Restored
<1> QED
  BY <1>1, <1>2, <1>3, <1>4, <1>5, <1>6, Zenon DEF Next

\* The steps that may end in success.
LEMMA LastSteps ==
    ASSUME TypeInv, NEW t \in Tasks, NEW f, Job(t, f)
    PROVE  /\ pc[t] = "completed" => Finish(t)
           /\ pc[t] = "sync" => Sync(t, f)
           /\ pc[t] = "update" => Update(t, f)
<1>1. CASE Insert(t, f)
  BY <1>1, InsertFacts
<1>2. CASE Overwrite(t, f)
  BY <1>2, OverwriteFacts
<1>3. CASE Claim(t, f)
  BY <1>3, ClaimFacts
<1>4. CASE StoreSecrets(t, f)
  BY <1>4, SecretsFacts
<1>5. CASE Mark(t, f)
  BY <1>5, MarkFacts
<1>6. CASE Dequeue(t)
  BY <1>6, DequeueFacts
<1>7. CASE Begin(t)
  BY <1>7, BeginFacts
<1>8. CASE Finish(t)
  BY <1>8, FinishFacts
<1>9. CASE MarkPending(t, f)
  BY <1>9, PendingFacts
<1>10. CASE ReadSource(t, f)
  BY <1>10, SourceFacts
<1>11. CASE ReadPrevious(t, f)
  BY <1>11, PreviousFacts
<1>12. CASE ClearSource(t, f)
  BY <1>12, ClearFacts
<1>13. CASE Clone(t, f)
  BY <1>13, CloneFacts
<1>14. CASE Compose(t, f)
  BY <1>14, ComposeFacts
<1>15. CASE Teardown(t, f)
  BY <1>15, TeardownFacts
<1>16. CASE Deploy(t, f)
  BY <1>16, DeployFacts
<1>17. CASE Verify(t, f)
  BY <1>17, VerifyFacts
<1>18. CASE Persist(t, f)
  BY <1>18, PersistFacts
<1>19. CASE ClearCurrentRelease(t, f)
  BY <1>19, UnpointFacts
<1>20. CASE MarkRunning(t, f)
  BY <1>20, RunningFacts
<1>21. CASE Publish(t, f)
  BY <1>21, PublishFacts
<1>22. CASE Undo(t, f)
  BY <1>22, UndoFacts
<1>23. CASE UndoRoute(t, f)
  BY <1>23, UndoRouteFacts
<1>24. CASE Record(t, f)
  BY <1>24, RecordFacts
<1>25. CASE Update(t, f)
  BY <1>25, UpdateFacts
<1>26. CASE Guard(t, f)
  BY <1>26, GuardFacts
<1>27. CASE Act(t, f)
  BY <1>27, ActFacts
<1>28. CASE WriteStatus(t, f)
  BY <1>28, WriteStatusFacts
<1>29. CASE Sync(t, f)
  BY <1>29, SyncFacts
<1>30. CASE RemoveRuntime(t, f)
  BY <1>30, RemoveRuntimeFacts
<1>31. CASE RemoveRoute(t, f)
  BY <1>31, RemoveRouteFacts
<1>32. CASE DeleteRow(t, f)
  BY <1>32, DeleteRowFacts
<1> QED
  BY <1>1, <1>2, <1>3, <1>4, <1>5, <1>6, <1>7, <1>8, <1>9, <1>10, <1>11, <1>12, <1>13, <1>14,
     <1>15, <1>16, <1>17, <1>18, <1>19, <1>20, <1>21, <1>22, <1>23, <1>24, <1>25, <1>26, <1>27,
     <1>28, <1>29, <1>30, <1>31, <1>32,
     Zenon DEF Job

\* Success of one who is alone puts beyond doubt how the app should be.
LEMMA Succeeding ==
    ASSUME TypeInv, NEW t \in Tasks, NEW f \in Striking, Job(t, f), Goes(t, f), Succeeds(t),
           TaskInv(t), LoneInv(t), LiveInv, wanted' = IF Kind(t) = "stop" THEN "down" ELSE "up"
    PROVE  WantedInv'
<1>1. /\ sole = t /\ pc'[t] = "done" /\ faults' = {}
      /\ pc[t] \in {"completed", "sync"} \/ (pc[t] = "update" /\ op'.state = "completed")
      /\ Kind(t) = "restart" => t \in CliTasks
      /\ Kind(t) \in {"start", "restart"} => row.compose # None
  BY DEF Succeeds
<1>2. faults = {} /\ f = "none"
  BY <1>1, StrikesFacts DEF Strikes
<1>3. Others(t)
  BY GoesFacts, JobFacts
<1>4. /\ rc' = "off" /\ \A u \in Tasks : pc'[u] \in Resting
  BY <1>1, <1>3 DEF LoneInv, Others, Resting
<1>5. KnowsRow'
  BY <1>4 DEF KnowsRow
<1>6. SUFFICES /\ wanted' = "up" /\ row'.there => /\ row'.status = "running" /\ row'.compose # None
                                                  /\ live' # NoContainers
               /\ wanted' = "down" /\ row'.there => row'.status = "stopped"
               /\ wanted' = "down" => live'.on = "none"
  BY <1>4, <1>5 DEF WantedInv
<1>7. CASE pc[t] = "completed"
  <2>1. Kind(t) \in Pipelines /\ wanted' = "up"
    BY <1>7 DEF TaskInv, Working, Pipelines, Creations
  <2>2. /\ row.there /\ row.status = "running" /\ row.compose # None /\ live = Made(t, TRUE)
    BY <1>1, <1>7, <2>1 DEF LoneInv, PipelineInv, RowInv, There, Working, Unclaimed, SourceInv, MadeInv, Deployed
  <2>3. live # NoContainers
    BY <2>2 DEF Made, NoContainers
  <2>4. UNCHANGED <<row, live>>
    BY <1>7, LastSteps, FinishFacts
  <2> QED
    BY <2>1, <2>2, <2>3, <2>4
<1>8. CASE pc[t] = "sync"
  <2>1. Kind(t) \in {"start", "stop", "restart"}
    BY <1>8 DEF TaskInv, LookThenAct
  <2>2. /\ live # NoContainers /\ (live.on = "none" <=> Kind(t) = "stop")
        /\ row.there => row.status = IF Kind(t) = "stop" THEN "stopped" ELSE "running"
    BY <1>1, <1>2, <1>8 DEF LoneInv, LookInv
  <2>3. UNCHANGED <<row, live>>
    BY <1>8, LastSteps, SyncFacts
  <2> QED
    BY <1>1, <2>1, <2>2, <2>3
<1>9. CASE pc[t] = "update" /\ op'.state = "completed"
  <2>1. op.holder = t /\ op.state = "active" /\ Kind(t) # "stop"
    BY <1>1, <1>9 DEF LoneInv, HoldsInv, TaskInv, Pipelines, Creations
  <2>2. /\ row'.status = "running" /\ row'.compose # None /\ live'.on # "none"
    BY <1>2, <1>9, <2>1, LastSteps, UpdateFacts DEF Ends
  <2>3. live' # NoContainers
    BY <2>2 DEF NoContainers
  <2> QED
    BY <2>1, <2>2, <2>3
<1> QED
  BY <1>1, <1>7, <1>8, <1>9

\* WantedInv is an invariant: what is beyond doubt is what the row says, and
\* nothing that goes on without a request changes it.
LEMMA WantedStep ==
    ASSUME TypeInv, [Next]_vars, \A t \in Tasks : TaskInv(t) /\ LoneInv(t), LiveInv, WantedInv
    PROVE  WantedInv'
<1>1. ASSUME NEW t \in Tasks, Request(t), Begins(t)
      PROVE  WantedInv'
  <2>1. t # "startup"
    BY StartupIsNoTask
  <2>2. wanted' = "any"
    BY <1>1, <2>1, BeginsFacts
  <2> QED
    BY <2>2 DEF WantedInv
<1>2. ASSUME NEW t \in Tasks, NEW f \in Striking, Job(t, f), Goes(t, f)
      PROVE  WantedInv'
  <2>1. CASE Earns(t)
    BY <1>2, <2>1, Succeeding DEF Earns
  <2>2. CASE wanted' = "any"
    BY <2>2 DEF WantedInv
  <2> QED
    BY <1>2, <2>1, <2>2, GoesFacts
<1>3. CASE Crash /\ wanted' = wanted
  <2>1. /\ rc' = "off" /\ row' = row /\ op' = op /\ (live.on = "none" => live'.on = "none")
        /\ live # NoContainers => live' # NoContainers
    BY <1>3, CrashFacts DEF LiveInv
  <2>2. \A u \in Tasks : pc[u] \in Resting => pc'[u] \in Resting
    BY <1>3, CrashFacts DEF Resting
  <2> QED
    BY <1>3, <2>1, <2>2 DEF WantedInv, KnowsRow
<1>4. CASE Boot /\ Begins("startup")
  <2>1. /\ rc' = "list" /\ UNCHANGED <<live, pc>> /\ (op.state # "active" => row' = row /\ op' = op)
        /\ op.state = "active" => op'.state = "interrupted" /\ (row'.there => row'.status = "error")
    BY <1>4, BootFacts DEF Status, SameRow
  <2>2. wanted' = IF op.state = "active" THEN "dark" ELSE wanted
    BY <1>4, BeginsFacts
  <2>3. KnowsRow'
    BY <2>1 DEF KnowsRow
  <2>4. CASE op.state = "active"
    BY <2>1, <2>2, <2>3, <2>4 DEF WantedInv
  <2>5. CASE op.state # "active"
    BY <2>1, <2>2, <2>3, <2>5 DEF WantedInv
  <2> QED
    BY <2>4, <2>5
<1>5. ASSUME NEW f \in Striking, Reconcile(f), Goes("startup", f)
      PROVE  WantedInv'
  <2>1. wanted' = wanted /\ pc' = pc /\ op' = op
    <3>1. "startup" \notin Tasks
      BY StartupIsNoTask
    <3> QED
      BY <1>5, <3>1, GoesFacts, ReconcileFacts
  <2>2. SUFFICES ASSUME wanted # "any" PROVE WantedInv'
    BY <2>1 DEF WantedInv
  <2>3. KnowsRow' /\ row' = row
    BY <1>5, <2>2, ReconcileKeeps DEF WantedInv
  <2>4. CASE UNCHANGED live
    BY <2>1, <2>3, <2>4 DEF WantedInv
  <2>5. CASE rc = "start" /\ live'.src = live.src
    <3>1. row.there /\ row.status = "running"
      BY <2>2, <2>5 DEF WantedInv, KnowsRow
    <3>2. wanted = "up" /\ live # NoContainers
      BY <2>2, <3>1 DEF WantedInv, TypeInv, HistoryOK
    <3>3. live' # NoContainers
      BY <2>5, <3>2 DEF LiveInv, NoContainers
    <3> QED
      BY <2>1, <2>2, <2>3, <3>2, <3>3 DEF WantedInv
  <2> QED
    BY <1>5, <2>4, <2>5, ListFacts, LookFacts, StartFacts, ReconcileSyncFacts, Zenon DEF Reconcile
<1>6. CASE UNCHANGED vars
  <2>1. UNCHANGED <<row, op, live, pc, rc, rcRow, wanted>>
    BY <1>6 DEF vars, store, world, local, service, history
  <2> QED
    BY <2>1 DEF WantedInv, KnowsRow
<1> QED
  BY <1>1, <1>2, <1>3, <1>4, <1>5, <1>6, Zenon DEF Next

----------------------------------------------------------------------------
(* The theorems                                                             *)

LifecycleInv ==
    /\ TypeInv /\ \A t \in Tasks : TaskInv(t) /\ LoneInv(t)
    /\ LiveInv /\ DropInv /\ StartInv /\ WantedInv

\* The inductive invariant is an invariant.
LEMMA LifecycleInvariant == Spec => []LifecycleInv
<1>1. Init => LifecycleInv
  <2> SUFFICES ASSUME Init PROVE LifecycleInv
    OBVIOUS
  <2>1. /\ op = NoOp /\ pc = [t \in Tasks |-> "idle"] /\ my = [t \in Tasks |-> NoLocals]
        /\ up = TRUE /\ sole = None /\ wanted = "any"
    BY Zenon DEF Init
  <2>2. \A t \in Tasks : TaskInv(t)
    BY <2>1, NoLocalsType, NoneIsNothing DEF TaskInv, Kind, Unclaimed, NoOp, Resting, Claiming, Working, Removing,
       Sourced, Creations
  <2>3. \A t \in Tasks : LoneInv(t)
    BY <2>1, NoneIsNothing DEF LoneInv
  <2>4. StartInv /\ WantedInv
    BY <2>1, StartupIsNoTask DEF StartInv, WantedInv
  <2>5. LiveInv /\ DropInv
    <3>1. CASE /\ row = NoRow
               /\ \/ live = NoContainers
                  \/ \E v \in Versions : live = [spec |-> v, src |-> v, on |-> "all", checked |-> TRUE]
      BY <3>1, NoneIsNothing DEF LiveInv, DropInv, NoRow
    <3>2. ASSUME NEW v \in Versions, NEW k \in {"git", "drop"}, NEW updated \in BOOLEAN,
                 row = [there |-> TRUE, type |-> k, compose |-> v,
                        release |-> IF updated THEN v ELSE None, status |-> "running"],
                 live = [spec |-> v, src |-> v, on |-> "all", checked |-> TRUE]
          PROVE  LiveInv /\ DropInv
      BY <3>2, NoneIsNothing DEF LiveInv, DropInv
    <3> QED
      BY <3>1, <3>2, Zenon DEF Init
  <2> QED
    BY <2>2, <2>3, <2>4, <2>5, InitType DEF LifecycleInv
<1>2. LifecycleInv /\ [Next]_vars => LifecycleInv'
  BY TypeStep, TaskStep, DataStep, LoneStep, StartStep, WantedStep DEF LifecycleInv
<1> QED
  BY <1>1, <1>2, PTL DEF Spec

\* LoneDeployServes for any requests, failures and crashes before it: a deploy,
\* redeploy or retry that is alone and meets no failure serves.
THEOREM LoneDeploysServe == Spec => []LoneDeployServes
<1>1. LifecycleInv => LoneDeployServes
  <2> SUFFICES ASSUME LifecycleInv, NEW t \in Tasks, Kind(t) \in Pipelines, faults = {},
                      my[t].row.type = "git" \/ my[t].src # None,
                      Ended(t, "completed") \/ Ended(t, "failed")
               PROVE  \/ op.state = "completed" /\ Serves(t)
                      \/ /\ my[t].fresh /\ ~bare /\ op.state = "failed"
                         /\ row.status = "error" /\ Away
    BY DEF LoneDeployServes, Serves, Away
  <2>1. pc[t] = "done" /\ op.holder = t /\ ~my[t].upd /\ sole = t
    BY DEF Ended
  <2>2. Outcome(t)
    BY <2>1 DEF LifecycleInv, LoneInv, PipelineInv
  <2>3. op.state = "completed" \/ op.state = "failed"
    BY DEF Ended
  <2> QED
    BY <2>1, <2>2, <2>3 DEF Outcome, Excused
<1> QED
  BY <1>1, LifecycleInvariant, PTL

\* FailedDeployIsCleanedUp: one that fails alone shows it, and leaves no containers
\* nobody looked at and no route to containers that are gone.
THEOREM FailedDeploysAreCleanedUp == Spec => []FailedDeployIsCleanedUp
<1>1. LifecycleInv => FailedDeployIsCleanedUp
  <2> SUFFICES ASSUME LifecycleInv, NEW t \in Tasks, Kind(t) \in Pipelines, Ended(t, "failed"), sound
               PROVE  /\ faults \cap {"regenerate", "database", "context"} = {} => row.status = "error"
                      /\ faults \cap {"remove", "route", "database"} = {} =>
                           live = NoContainers \/ live.checked
                      /\ faults \cap {"remove", "route", "database"} = {}
                         /\ (my[t].git \/ "storage" \notin faults) => route # "old"
    BY DEF FailedDeployIsCleanedUp
  <2>1. pc[t] = "done" /\ op.holder = t /\ ~my[t].upd /\ sole = t /\ op.state = "failed"
    BY DEF Ended
  <2>2. Shown /\ (Cleaning => Verified /\ NotOld(t))
    BY <2>1 DEF LifecycleInv, LoneInv, PipelineInv, Outcome
  <2> QED
    BY <2>2 DEF Shown, Cleaning, Verified, NotOld
<1> QED
  BY <1>1, LifecycleInvariant, PTL

\* RestartRestores: a service start that is alone and meets no failure makes of
\* the app what the row says, and what was wanted last.
THEOREM RestartsRestore == Spec => []RestartRestores
<1>1. LifecycleInv => RestartRestores
  BY DEF LifecycleInv, StartInv, WantedInv, Restored, RestartRestores
<1> QED
  BY <1>1, LifecycleInvariant, PTL
=================================================================================
