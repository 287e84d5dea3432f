--------------------------- MODULE AppRegistryProofs ---------------------------
(***************************************************************************)
(* Proofs about AppRegistry for any apps, names and domains, and any       *)
(* number of handlers, requests, failures and service starts.              *)
(***************************************************************************)
EXTENDS AppRegistry, TLAPS

----------------------------------------------------------------------------
(* The invariants                                                           *)

Row == [there : BOOLEAN, name : Names \cup {NoName}, slug : Names \cup {NoName},
        built : BOOLEAN, domains : SUBSET Domains]
Listed == [app : Apps, slug : Names, built : BOOLEAN, error : BOOLEAN]
Process == [step : Steps, kind : Kinds, app : Apps \cup {NoApp}, slug : Names \cup {NoName},
            name : Names \cup {NoName}, built : BOOLEAN, domain : SUBSET Domains,
            current : SUBSET Domains, read : SUBSET Domains,
            before : SUBSET Domains, file : Files, left : SUBSET Listed]

\* A row is there exactly if it has a name and a slug.
Named(row) == (row.there <=> row.name # NoName) /\ (row.there <=> row.slug # NoName)

TablesOK(rows, boxes, files) ==
    /\ rows \in [Apps -> Row] /\ \A a \in Apps : Named(rows[a])
    /\ boxes \in [Names -> Apps \cup {NoApp}]
    /\ files \in [Names -> Files]

TypeInv == TablesOK(apps, box, file) /\ my \in [All -> Process]

CountInv ==
    /\ asked \in 0..MaxRequests /\ struck \in 0..MaxFaults /\ boots \in 0..MaxBoots
    /\ sole \in All \cup {NoApp} /\ hit \subseteq Faults \ {"none"}
    /\ orderly \in BOOLEAN /\ shared \in BOOLEAN /\ forced \in BOOLEAN
MarkInv == error \subseteq Apps /\ failed \subseteq Apps

Publishing == {"attach", "detach", "cli_attach", "cli_detach"}
Syncing == {"sync_read", "sync_write"}

\* What takes each step.
Fits(kind, step) ==
    \/ step = "idle" /\ kind = "none"
    \/ step = "check_name" /\ kind \in {"create", "rename"}
    \/ step = "insert" /\ kind = "create"
    \/ step = "update_name" /\ kind = "rename"
    \/ step = "replace" /\ kind \in {"create", "redeploy"}
    \/ step = "owner" /\ kind = "attach"
    \/ step \in {"current", "set", "restore"} /\ kind \in Publishing
    \/ step \in Syncing /\ kind \in Publishing \cup {"create", "redeploy", "restart", "startup"}
    \/ step \in {"rm_runtime", "rm_route", "rm_row"} /\ kind = "remove"
    \/ step \in {"pick", "dark"} /\ kind = "startup"

\* A worker's step fits what it was asked for, and has what it needs.
Placed(w) ==
    LET m == my[w]
    IN  /\ m.step = "idle" => m = Idle
        /\ m.step \notin {"idle", "pick"} => m.app \in Apps /\ m.slug \in Names
        /\ m.step \in {"check_name", "insert", "update_name"} => m.name \in Names
        /\ Fits(m.kind, m.step)
        /\ m.kind = "create" /\ m.step \in {"check_name", "insert"} => m.slug = m.name
        /\ m.step \in {"owner", "current", "set"} => \E d \in Domains : m.domain = {d}
        /\ m.kind \in {"none", "startup"} \/ w # Startup
        /\ m.kind = "startup" => w = Startup
        /\ m.kind # "startup" => m.left = {}
PlaceInv == \A w \in All : Placed(w)

\* The file of an app is as its row and the containers of its slug have it, or
\* there is none because the app is dark or was never built.
InStep(a) == file[apps[a].slug] = IF Dark(a) \/ ~apps[a].built THEN NoFile
                                 ELSE Rendered(apps[a].slug, apps[a].domains)

\* A row of the list of a service start is as it was.
Fresh(r) == apps[r.app].there /\ r.slug = apps[r.app].slug /\ r.built = apps[r.app].built

\* A service start that is alone: every app is in step or still to come, and what
\* is published next is what may be.
Healing ==
    LET m == my[Startup]
    IN  /\ \A r \in m.left : Fresh(r) /\ (r.error <=> r.app \in error)
        /\ m.step \in Syncing \cup {"dark"} => Fresh(m)
        /\ m.step \in Syncing => m.built /\ ~Dark(m.app)
        /\ m.step = "dark" => ~m.built \/ Dark(m.app)
        /\ m.step = "sync_write" => m.read = apps[m.app].domains
        /\ \A a \in Apps : apps[a].there =>
             \/ InStep(a)
             \/ \E r \in m.left : r.app = a
             \/ m.step \in Syncing \cup {"dark"} /\ m.app = a
HealInv == sole = Startup /\ hit = {} /\ ~SameSlug => Healing

\* A change of domains by a worker that is alone, step by step.
List(w) == IF Attaches(w) THEN my[w].before \cup my[w].domain ELSE my[w].before \ my[w].domain
Changing(w) ==
    LET m == my[w]  row == apps[m.app]
    IN  /\ row.there /\ m.slug = row.slug
        /\ m.step \in {"owner", "current", "set"} => row.domains = m.before
        /\ m.step \in {"owner", "current", "set", "sync_read", "sync_write"} => file[m.slug] = m.file
        /\ m.step \in {"set", "sync_read", "sync_write", "restore"} => m.current = m.before
        /\ m.step \in Syncing => row.domains = List(w)
        /\ m.step = "sync_write" => m.read = row.domains
        /\ m.step = "restore" => file[m.slug] \in {m.file, IF m.built THEN m.file ELSE NoFile}
AloneInv ==
    \A w \in Workers : sole = w /\ Publishes(w) /\ hit \subseteq {"route", "runtime"} => Changing(w)

\* None of the domains is another app's.
Apart(a, list) == \A b \in Apps \ {a} : apps[b].there => list \cap apps[b].domains = {}

\* What the one worker of an orderly sequence knows of its app.
Knows(w) ==
    LET m == my[w]  row == apps[m.app]  s == m.slug
    IN  /\ m.kind = "create" /\ m.step \in {"check_name", "insert"} => ~row.there
        /\ m.step \notin {"idle", "pick"} /\ ~(m.kind = "create" /\ m.step \in {"check_name", "insert"})
              => row.there /\ s = row.slug
        /\ m.kind = "cli_attach" => forced
        /\ m.kind = "attach" /\ m.step \in {"current", "set"} => Apart(m.app, m.domain)
        /\ m.step = "set" => m.current = row.domains
        /\ m.kind \in Publishing /\ m.step \in Syncing \cup {"restore"} =>
              forced \/ Apart(m.app, m.current)
        /\ m.step \in Syncing \cup {"owner", "current", "set", "restore"} => m.built = row.built
        /\ m.step \in Syncing =>
              box[s] = (IF row.built THEN m.app ELSE NoApp) /\ (row.built \/ file[s] = NoFile)
        /\ m.step \in Syncing /\ Deploys(w) => m.built
        /\ m.step = "dark" => ~row.built
        /\ m.step = "sync_write" => m.read = row.domains
        /\ m.step = "restore" => ~row.built /\ box[s] = NoApp /\ file[s] = NoFile
        /\ m.step \in {"rm_route", "rm_row"} => box[s] = NoApp
        /\ m.step = "rm_row" => file[s] = NoFile
        /\ \A r \in m.left : Fresh(r)

\* The worker has the app's containers or its file in hand.
Handles(w, a) ==
    my[w].app = a /\ my[w].step \in Syncing \cup {"restore", "rm_route", "rm_row"}

\* The apps that nobody handles are in order, and apart from each other.
OthersInOrder == \A a \in Apps : apps[a].there => InOrder(a) \/ \E w \in All : Handles(w, a)
NothingLeft ==
    \A s \in Names : (\A a \in Apps : apps[a].there => apps[a].slug # s) =>
        box[s] = NoApp /\ file[s] = NoFile
NamesApart ==
    \A a, b \in Apps : a # b /\ apps[a].there /\ apps[b].there => apps[a].name # apps[b].name
DomainsApart == forced \/ \A a \in Apps : apps[a].there => Apart(a, apps[a].domains)

OneAtATime == \A v, w \in All : v # w => At(v, "idle") \/ At(w, "idle")

OrderInv ==
    /\ SameSlug => shared
    /\ orderly => OneAtATime
    /\ orderly /\ ~shared =>
         /\ failed = {}
         /\ \A w \in All : Knows(w)
         /\ OthersInOrder /\ NothingLeft /\ NamesApart /\ DomainsApart

----------------------------------------------------------------------------
(* What a step does to the workers and the tables                           *)

\* Nobody else moves.
Only(w) == my' \in [All -> Process] /\ \A v \in All \ {w} : my'[v] = my[v]

\* What a worker never forgets.
Keeps(w) ==
    /\ my'[w].kind = my[w].kind /\ my'[w].name = my[w].name
    /\ my'[w].domain = my[w].domain /\ my'[w].before = my[w].before /\ my'[w].file = my[w].file

\* A worker goes to a step with all it knows.
Moves(w, t) ==
    /\ Keeps(w) /\ my'[w].step = t
    /\ my'[w].app = my[w].app /\ my'[w].slug = my[w].slug /\ my'[w].built = my[w].built
    /\ my'[w].current = my[w].current /\ my'[w].read = my[w].read /\ my'[w].left = my[w].left

\* ... or ends.
Rests(w) == my'[w] = Idle

\* The rest of the table is as it was.
Writes(a) ==
    /\ apps' \in [Apps -> Row]
    /\ \A b \in Apps \ {a} : apps'[b] = apps[b]
BoxIs(s, a) ==
    /\ box' \in [Names -> Apps \cup {NoApp}] /\ box'[s] = a
    /\ \A t \in Names \ {s} : box'[t] = box[t]
FileIs(s, f) ==
    /\ file' \in [Names -> Files] /\ file'[s] = f
    /\ \A t \in Names \ {s} : file'[t] = file[t]

\* Idle workers, missing rows and missing files are of their types.
LEMMA IdleType == Idle \in Process /\ NoRow \in Row /\ NoFile \in Files /\ Named(NoRow)
BY DEF Idle, Process, NoRow, Row, NoFile, Files, Steps, Kinds, Named

\* Going to a step.
LEMMA GoFacts ==
    ASSUME TypeInv, NEW w \in All, NEW t \in Steps, Go(w, t)
    PROVE  Only(w) /\ Moves(w, t)
BY DEF TypeInv, Go, Only, Moves, Keeps, Process

\* Ending.
LEMMA EndFacts ==
    ASSUME TypeInv, NEW w \in All, End(w)
    PROVE  Only(w) /\ Rests(w)
BY IdleType DEF TypeInv, End, Only, Rests

\* Another row in the place of one.
LEMMA WriteFacts ==
    ASSUME TypeInv, NEW a \in Apps, NEW row \in Row, apps' = [apps EXCEPT ![a] = row]
    PROVE  Writes(a) /\ apps'[a] = row
BY DEF TypeInv, TablesOK, Writes

\* Other containers under a slug.
LEMMA BoxFacts ==
    ASSUME TypeInv, NEW s \in Names, NEW a \in Apps \cup {NoApp}, box' = [box EXCEPT ![s] = a]
    PROVE  BoxIs(s, a)
BY DEF TypeInv, TablesOK, BoxIs

\* Another file.
LEMMA FileFacts ==
    ASSUME TypeInv, NEW s \in Names, NEW f \in Files, file' = [file EXCEPT ![s] = f]
    PROVE  FileIs(s, f)
BY DEF TypeInv, TablesOK, FileIs

\* What is rendered is a file.
LEMMA RenderedType ==
    ASSUME TypeInv, NEW s \in Names, NEW list \in SUBSET Domains
    PROVE  Rendered(s, list) \in Files
BY IdleType DEF TypeInv, TablesOK, Rendered, Resolved, Render, Files

\* What a worker at a step has at hand.
LEMMA AtHand ==
    ASSUME TypeInv, NEW w \in All, Placed(w), ~At(w, "idle"), ~At(w, "pick")
    PROVE  /\ App(w) \in Apps /\ my[w].app = App(w) /\ my[w].slug \in Names
           /\ apps[App(w)] \in Row /\ Named(apps[App(w)])
           /\ my[w] \in Process
BY DEF TypeInv, TablesOK, Placed, At, App

\* A name that is in use is refused.
LEMMA CheckNameFacts ==
    ASSUME TypeInv, NEW w \in All, NEW f, CheckName(w, f)
    PROVE  /\ Only(w) /\ At(w, "check_name") /\ f = "none" /\ UNCHANGED tables
           /\ \/ Rests(w)
              \/ my[w].kind = "create" /\ Moves(w, "insert")
              \/ my[w].kind # "create" /\ Moves(w, "update_name")
<1>1. /\ At(w, "check_name") /\ f = "none" /\ UNCHANGED tables
      /\ \/ End(w)
         \/ my[w].kind = "create" /\ Go(w, "insert")
         \/ my[w].kind # "create" /\ Go(w, "update_name")
  BY Zenon DEF CheckName
<1>2. "insert" \in Steps /\ "update_name" \in Steps
  BY DEF Steps
<1> QED
  BY <1>1, <1>2, GoFacts, EndFacts

\* A new row has its name as its slug, and both are free.
LEMMA InsertFacts ==
    ASSUME TypeInv, NEW w \in All, Placed(w), NEW f, Insert(w, f)
    PROVE  /\ Only(w) /\ At(w, "insert") /\ UNCHANGED <<box, file>>
           /\ \/ apps' = apps /\ Rests(w)
              \/ /\ f = "none" /\ ~Taken(my[w].name) /\ Moves(w, "replace")
                 /\ Writes(App(w))
                 /\ apps'[App(w)] = [there |-> TRUE, name |-> my[w].name, slug |-> my[w].slug,
                                     built |-> FALSE, domains |-> {}]
<1> DEFINE row == [there |-> TRUE, name |-> my[w].name, slug |-> my[w].slug,
                   built |-> FALSE, domains |-> {}]
<1>1. /\ At(w, "insert") /\ UNCHANGED <<box, file>>
      /\ \/ apps' = apps /\ End(w)
         \/ /\ f = "none" /\ ~Taken(my[w].name) /\ Go(w, "replace")
            /\ apps' = [apps EXCEPT ![App(w)] = row]
  BY Zenon DEF Insert
<1>2. "replace" \in Steps
  BY DEF Steps
<1>3. row \in Row /\ App(w) \in Apps
  BY <1>1, AtHand DEF At, Process, Row
<1> HIDE DEF row
<1>4. CASE apps' = apps /\ End(w)
  BY <1>1, <1>4, EndFacts
<1>5. CASE /\ f = "none" /\ ~Taken(my[w].name) /\ Go(w, "replace")
           /\ apps' = [apps EXCEPT ![App(w)] = row]
  <2>1. Only(w) /\ Moves(w, "replace")
    BY <1>2, <1>5, GoFacts
  <2>2. Writes(App(w)) /\ apps'[App(w)] = row
    BY <1>3, <1>5, WriteFacts
  <2> QED
    BY <1>1, <1>5, <2>1, <2>2 DEF row
<1> QED
  BY <1>1, <1>4, <1>5

\* A field of a row in the place of another.
LEMMA NameFacts ==
    ASSUME TypeInv, NEW a \in Apps, NEW n \in Names, apps' = [apps EXCEPT ![a].name = n]
    PROVE  /\ Writes(a)
           /\ apps'[a].name = n /\ apps'[a].there = apps[a].there /\ apps'[a].slug = apps[a].slug
           /\ apps'[a].built = apps[a].built /\ apps'[a].domains = apps[a].domains
BY DEF TypeInv, TablesOK, Writes, Row

\* ... its domains ...
LEMMA DomainsFacts ==
    ASSUME TypeInv, NEW a \in Apps, NEW list \in SUBSET Domains,
           apps' = [apps EXCEPT ![a].domains = list]
    PROVE  /\ Writes(a)
           /\ apps'[a].name = apps[a].name /\ apps'[a].there = apps[a].there
           /\ apps'[a].slug = apps[a].slug
           /\ apps'[a].built = apps[a].built /\ apps'[a].domains = list
BY DEF TypeInv, TablesOK, Writes, Row

\* ... and that it is built.
LEMMA BuiltFacts ==
    ASSUME TypeInv, NEW a \in Apps, apps' = [apps EXCEPT ![a].built = TRUE]
    PROVE  /\ Writes(a)
           /\ apps'[a].name = apps[a].name /\ apps'[a].there = apps[a].there
           /\ apps'[a].slug = apps[a].slug
           /\ apps'[a].built = TRUE /\ apps'[a].domains = apps[a].domains
BY DEF TypeInv, TablesOK, Writes, Row

\* A name is changed to one that was free, and with it nothing else.
LEMMA UpdateNameFacts ==
    ASSUME TypeInv, NEW w \in All, Placed(w), NEW f, UpdateAppName(w, f)
    PROVE  /\ Only(w) /\ At(w, "update_name") /\ UNCHANGED <<box, file>> /\ Rests(w)
           /\ \/ apps' = apps
              \/ /\ Writes(App(w)) /\ ~Taken(my[w].name)
                 /\ apps'[App(w)].name = my[w].name
                 /\ apps'[App(w)].there = apps[App(w)].there
                 /\ apps'[App(w)].slug = apps[App(w)].slug
                 /\ apps'[App(w)].built = apps[App(w)].built
                 /\ apps'[App(w)].domains = apps[App(w)].domains
                 /\ apps[App(w)].there /\ my[w].name \in Names
<1>1. /\ At(w, "update_name") /\ UNCHANGED <<box, file>> /\ End(w)
      /\ \/ apps' = apps
         \/ /\ apps[App(w)].there /\ ~Taken(my[w].name)
            /\ apps' = [apps EXCEPT ![App(w)].name = my[w].name]
  BY Zenon DEF UpdateAppName
<1>2. my[w].name \in Names /\ App(w) \in Apps
  BY <1>1, AtHand DEF At, Placed
<1>3. Only(w) /\ Rests(w)
  BY <1>1, EndFacts
<1> QED
  BY <1>1, <1>2, <1>3, NameFacts

\* The domain is nobody else's, or that was not known.
LEMMA OwnerFacts ==
    ASSUME TypeInv, NEW w \in All, NEW f, Owner(w, f)
    PROVE  /\ Only(w) /\ At(w, "owner") /\ UNCHANGED tables
           /\ \/ Rests(w)
              \/ /\ Moves(w, "current")
                 /\ f = "none" => \A a \in Apps \ {App(w)} : ~(my[w].domain \subseteq apps[a].domains)
<1>1. /\ At(w, "owner") /\ UNCHANGED tables
      /\ \/ End(w)
         \/ /\ Go(w, "current")
            /\ f = "none" => \A a \in Apps \ {App(w)} : ~(my[w].domain \subseteq apps[a].domains)
  BY Zenon DEF Owner
<1>2. "current" \in Steps
  BY DEF Steps
<1> QED
  BY <1>1, <1>2, GoFacts, EndFacts

\* The list that is read is the row's, or empty.
LEMMA CurrentFacts ==
    ASSUME TypeInv, NEW w \in All, Placed(w), NEW f, Current(w, f)
    PROVE  /\ Only(w) /\ At(w, "current") /\ UNCHANGED tables
           /\ \/ Rests(w)
              \/ /\ Keeps(w) /\ my'[w].step = "set"
                 /\ my'[w].app = my[w].app /\ my'[w].slug = my[w].slug
                 /\ my'[w].built = my[w].built /\ my'[w].left = my[w].left
                 /\ f = "none" => my'[w].current = apps[App(w)].domains
<1> DEFINE list == IF f = "none" THEN apps[App(w)].domains ELSE {}
<1>1. /\ At(w, "current") /\ UNCHANGED tables
      /\ End(w) \/ my' = [my EXCEPT ![w].step = "set", ![w].current = list]
  BY Zenon DEF Current
<1>2. list \in SUBSET Domains /\ (f = "none" => list = apps[App(w)].domains)
  BY <1>1, AtHand DEF At, Row
<1> HIDE DEF list
<1>3. ASSUME my' = [my EXCEPT ![w].step = "set", ![w].current = list]
      PROVE  /\ Only(w) /\ Keeps(w) /\ my'[w].step = "set" /\ my'[w].current = list
             /\ my'[w].app = my[w].app /\ my'[w].slug = my[w].slug
             /\ my'[w].built = my[w].built /\ my'[w].left = my[w].left
  <2>1. PICK m : m = [my EXCEPT ![w].step = "set"]
    OBVIOUS
  <2>2. my' = [m EXCEPT ![w].current = list]
    BY <1>3, <2>1, Zenon
  <2>3. /\ m \in [All -> Process] /\ (\A v \in All \ {w} : m[v] = my[v])
        /\ m[w].step = "set"
        /\ m[w].kind = my[w].kind /\ m[w].name = my[w].name /\ m[w].domain = my[w].domain
        /\ m[w].before = my[w].before /\ m[w].file = my[w].file /\ m[w].app = my[w].app
        /\ m[w].slug = my[w].slug /\ m[w].left = my[w].left /\ m[w].built = my[w].built
        /\ m[w].current = my[w].current /\ m[w].read = my[w].read
    BY <1>2, <2>1 DEF TypeInv, Process, Steps
  <2>4. /\ my' \in [All -> Process] /\ (\A v \in All \ {w} : my'[v] = m[v])
        /\ my'[w].current = list
        /\ my'[w].kind = m[w].kind /\ my'[w].name = m[w].name /\ my'[w].domain = m[w].domain
        /\ my'[w].before = m[w].before /\ my'[w].file = m[w].file /\ my'[w].app = m[w].app
        /\ my'[w].slug = m[w].slug /\ my'[w].left = m[w].left /\ my'[w].step = m[w].step
        /\ my'[w].built = m[w].built /\ my'[w].read = m[w].read
    BY <1>2, <2>2, <2>3 DEF Process, Steps
  <2> QED
    BY <2>3, <2>4 DEF Only, Keeps
<1> QED
  BY <1>1, <1>2, <1>3, EndFacts

\* The domains of the app are the list's; nothing else changes.
Lists(w, list) ==
    /\ Writes(App(w)) /\ apps'[App(w)].domains = list
    /\ apps'[App(w)].name = apps[App(w)].name
    /\ apps'[App(w)].there = apps[App(w)].there
    /\ apps'[App(w)].slug = apps[App(w)].slug
    /\ apps'[App(w)].built = apps[App(w)].built

\* The list as a change of domains has it.
Wanted(w) == IF Attaches(w) THEN my[w].current \cup my[w].domain ELSE my[w].current \ my[w].domain

\* It is written in place of the row's, if there is a row.
LEMMA SetFacts ==
    ASSUME TypeInv, NEW w \in All, Placed(w), NEW f, SetAppDomains(w, f)
    PROVE  /\ Only(w) /\ At(w, "set") /\ UNCHANGED <<box, file>>
           /\ \/ /\ f = "none" /\ apps[App(w)].there /\ Moves(w, "sync_read")
                 /\ Lists(w, Wanted(w))
              \/ f = "none" /\ ~apps[App(w)].there /\ apps' = apps
                 /\ (Rests(w) \/ Moves(w, "sync_read"))
              \/ f = "database" /\ apps' = apps /\ Rests(w)
<1>1. /\ At(w, "set") /\ UNCHANGED <<box, file>>
      /\ \/ f = "none" /\ apps[App(w)].there /\ Go(w, "sync_read")
            /\ apps' = [apps EXCEPT ![App(w)].domains = Wanted(w)]
         \/ f = "none" /\ ~apps[App(w)].there /\ apps' = apps
            /\ (End(w) \/ Go(w, "sync_read"))
         \/ f = "database" /\ apps' = apps /\ End(w)
  BY Zenon DEF SetAppDomains, Wanted
<1>2. Wanted(w) \in SUBSET Domains /\ App(w) \in Apps
  BY <1>1, AtHand DEF At, Process, Wanted
<1>3. "sync_read" \in Steps
  BY DEF Steps
<1>4. (Go(w, "sync_read") => Only(w) /\ Moves(w, "sync_read")) /\ (End(w) => Only(w) /\ Rests(w))
  BY <1>3, GoFacts, EndFacts
<1> QED
  BY <1>1, <1>2, <1>4, DomainsFacts DEF Lists

\* It is taken back, if that can be written.
LEMMA RestoreFacts ==
    ASSUME TypeInv, NEW w \in All, Placed(w), NEW f, Restore(w, f)
    PROVE  /\ Only(w) /\ At(w, "restore") /\ UNCHANGED <<box, file>> /\ Rests(w)
           /\ \/ f = "none" /\ apps[App(w)].there /\ Lists(w, my[w].current)
              \/ apps' = apps /\ (f = "database" \/ ~apps[App(w)].there)
<1>1. /\ At(w, "restore") /\ UNCHANGED <<box, file>> /\ End(w)
      /\ \/ /\ f = "none" /\ apps[App(w)].there
            /\ apps' = [apps EXCEPT ![App(w)].domains = my[w].current]
         \/ apps' = apps /\ (f = "database" \/ ~apps[App(w)].there)
  BY Zenon DEF Restore
<1>2. my[w].current \in SUBSET Domains /\ App(w) \in Apps
  BY <1>1, AtHand DEF At, Process
<1>3. Only(w) /\ Rests(w)
  BY <1>1, EndFacts
<1> QED
  BY <1>1, <1>2, <1>3, DomainsFacts DEF Lists

\* The app has containers of its own.
Replaced(w) ==
    /\ Writes(App(w)) /\ BoxIs(my[w].slug, App(w))
    /\ Keeps(w) /\ my'[w].step = "sync_read" /\ my'[w].built = TRUE
    /\ my'[w].app = my[w].app /\ my'[w].slug = my[w].slug
    /\ my'[w].current = my[w].current /\ my'[w].read = my[w].read
    /\ my'[w].left = my[w].left
    /\ apps'[App(w)].name = apps[App(w)].name
    /\ apps'[App(w)].there = apps[App(w)].there
    /\ apps'[App(w)].slug = apps[App(w)].slug
    /\ apps'[App(w)].built = TRUE
    /\ apps'[App(w)].domains = apps[App(w)].domains

\* The containers of the slug are the app's afterwards, or gone.
LEMMA ReplaceFacts ==
    ASSUME TypeInv, NEW w \in All, Placed(w), NEW f, Replace(w, f)
    PROVE  /\ Only(w) /\ At(w, "replace") /\ UNCHANGED file
           /\ \/ f = "none" /\ apps[App(w)].there /\ Replaced(w)
              \/ f = "none" /\ ~apps[App(w)].there /\ UNCHANGED <<box, apps>> /\ Rests(w)
              \/ /\ f = "runtime" /\ BoxIs(my[w].slug, NoApp)
                 /\ apps' = apps /\ Moves(w, "sync_read")
              \/ /\ f = "database" /\ (box' = box \/ BoxIs(my[w].slug, NoApp))
                 /\ apps' = apps /\ Rests(w)
<1>1. /\ At(w, "replace") /\ UNCHANGED file
      /\ \/ /\ f = "none" /\ apps[App(w)].there
            /\ box' = [box EXCEPT ![my[w].slug] = App(w)]
            /\ apps' = [apps EXCEPT ![App(w)].built = TRUE]
            /\ my' = [my EXCEPT ![w].built = TRUE, ![w].step = "sync_read"]
         \/ f = "none" /\ ~apps[App(w)].there /\ UNCHANGED <<box, apps>> /\ End(w)
         \/ /\ f = "runtime" /\ box' = [box EXCEPT ![my[w].slug] = NoApp]
            /\ apps' = apps /\ Go(w, "sync_read")
         \/ /\ f = "database" /\ box' \in {box, [box EXCEPT ![my[w].slug] = NoApp]}
            /\ apps' = apps /\ End(w)
  BY Zenon DEF Replace
<1>2. /\ App(w) \in Apps /\ App(w) \in Apps \cup {NoApp} /\ NoApp \in Apps \cup {NoApp}
      /\ my[w].slug \in Names /\ "sync_read" \in Steps
  BY <1>1, AtHand DEF At, Steps
<1>3. ASSUME my' = [my EXCEPT ![w].built = TRUE, ![w].step = "sync_read"]
      PROVE  /\ Only(w) /\ Keeps(w) /\ my'[w].step = "sync_read" /\ my'[w].built = TRUE
             /\ my'[w].app = my[w].app /\ my'[w].slug = my[w].slug
             /\ my'[w].current = my[w].current /\ my'[w].read = my[w].read
             /\ my'[w].left = my[w].left
  <2>1. PICK m : m = [my EXCEPT ![w].built = TRUE]
    OBVIOUS
  <2>2. my' = [m EXCEPT ![w].step = "sync_read"]
    BY <1>3, <2>1, Zenon
  <2>3. /\ m \in [All -> Process] /\ (\A v \in All \ {w} : m[v] = my[v])
        /\ m[w].built = TRUE
        /\ m[w].kind = my[w].kind /\ m[w].name = my[w].name /\ m[w].domain = my[w].domain
        /\ m[w].before = my[w].before /\ m[w].file = my[w].file /\ m[w].app = my[w].app
        /\ m[w].slug = my[w].slug /\ m[w].left = my[w].left /\ m[w].step = my[w].step
        /\ m[w].current = my[w].current /\ m[w].read = my[w].read
    BY <1>2, <2>1 DEF TypeInv, Process
  <2>4. /\ my' \in [All -> Process] /\ (\A v \in All \ {w} : my'[v] = m[v])
        /\ my'[w].step = "sync_read"
        /\ my'[w].kind = m[w].kind /\ my'[w].name = m[w].name /\ my'[w].domain = m[w].domain
        /\ my'[w].before = m[w].before /\ my'[w].file = m[w].file /\ my'[w].app = m[w].app
        /\ my'[w].slug = m[w].slug /\ my'[w].left = m[w].left /\ my'[w].built = m[w].built
        /\ my'[w].current = m[w].current /\ my'[w].read = m[w].read
    BY <1>2, <2>2, <2>3 DEF Process
  <2> QED
    BY <2>3, <2>4 DEF Only, Keeps
<1>4. (Go(w, "sync_read") => Only(w) /\ Moves(w, "sync_read")) /\ (End(w) => Only(w) /\ Rests(w))
  BY <1>2, GoFacts, EndFacts
<1>5. box' = [box EXCEPT ![my[w].slug] = App(w)] => BoxIs(my[w].slug, App(w))
  BY <1>2, BoxFacts
<1>6. box' = [box EXCEPT ![my[w].slug] = NoApp] => BoxIs(my[w].slug, NoApp)
  BY <1>2, BoxFacts
<1> QED
  BY <1>1, <1>2, <1>3, <1>4, <1>5, <1>6, BuiltFacts DEF Replaced

\* A worker whose file is in step ends, and the service start goes on; one whose
\* file is not takes its change of domains back first.
Succeeded(w) == IF w = Startup THEN Moves(w, "pick") ELSE Rests(w)
Failed(w) == IF Publishes(w) THEN Moves(w, "restore") ELSE Succeeded(w)

\* What comes after a file was or was not brought in step.
LEMMA AfterFacts ==
    ASSUME TypeInv, NEW w \in All
    PROVE  /\ AfterSuccess(w) => Only(w) /\ Succeeded(w)
           /\ AfterFailure(w) => Only(w) /\ Failed(w)
<1>1. "pick" \in Steps /\ "restore" \in Steps
  BY DEF Steps
<1>2. /\ Go(w, "pick") => Only(w) /\ Moves(w, "pick")
      /\ Go(w, "restore") => Only(w) /\ Moves(w, "restore")
      /\ End(w) => Only(w) /\ Rests(w)
  BY <1>1, GoFacts, EndFacts
<1> QED
  BY <1>2 DEF AfterSuccess, AfterFailure, Succeeded, Failed

\* The domains are read.
LEMMA SyncReadFacts ==
    ASSUME TypeInv, NEW w \in All, Placed(w), NEW f, SyncRead(w, f)
    PROVE  /\ Only(w) /\ At(w, "sync_read") /\ UNCHANGED tables
           /\ \/ /\ f = "none" /\ Keeps(w) /\ my'[w].step = "sync_write"
                 /\ my'[w].read = apps[App(w)].domains
                 /\ my'[w].app = my[w].app /\ my'[w].slug = my[w].slug
                 /\ my'[w].built = my[w].built /\ my'[w].current = my[w].current
                 /\ my'[w].left = my[w].left
              \/ f = "database" /\ Failed(w)
              \/ f = "context" /\ Publishes(w) /\ Rests(w)
<1>1. /\ At(w, "sync_read") /\ UNCHANGED tables
      /\ \/ /\ f = "none"
            /\ my' = [my EXCEPT ![w].step = "sync_write", ![w].read = apps[App(w)].domains]
         \/ f = "database" /\ AfterFailure(w)
         \/ f = "context" /\ Publishes(w) /\ End(w)
  BY Zenon DEF SyncRead
<1>2. PICK list \in SUBSET Domains : list = apps[App(w)].domains
  BY <1>1, AtHand DEF At, Row
<1>3. ASSUME my' = [my EXCEPT ![w].step = "sync_write", ![w].read = apps[App(w)].domains]
      PROVE  /\ Only(w) /\ Keeps(w) /\ my'[w].step = "sync_write" /\ my'[w].read = list
             /\ my'[w].app = my[w].app /\ my'[w].slug = my[w].slug
             /\ my'[w].built = my[w].built /\ my'[w].current = my[w].current
             /\ my'[w].left = my[w].left
  <2>1. PICK m : m = [my EXCEPT ![w].step = "sync_write"]
    OBVIOUS
  <2>2. my' = [m EXCEPT ![w].read = list]
    BY <1>2, <1>3, <2>1, Zenon
  <2>3. /\ m \in [All -> Process] /\ (\A v \in All \ {w} : m[v] = my[v])
        /\ m[w].step = "sync_write"
        /\ m[w].kind = my[w].kind /\ m[w].name = my[w].name /\ m[w].domain = my[w].domain
        /\ m[w].before = my[w].before /\ m[w].file = my[w].file /\ m[w].app = my[w].app
        /\ m[w].slug = my[w].slug /\ m[w].left = my[w].left /\ m[w].built = my[w].built
        /\ m[w].current = my[w].current
    BY <1>2, <2>1 DEF TypeInv, Process, Steps
  <2>4. /\ my' \in [All -> Process] /\ (\A v \in All \ {w} : my'[v] = m[v])
        /\ my'[w].read = list /\ my'[w].step = m[w].step
        /\ my'[w].kind = m[w].kind /\ my'[w].name = m[w].name /\ my'[w].domain = m[w].domain
        /\ my'[w].before = m[w].before /\ my'[w].file = m[w].file /\ my'[w].app = m[w].app
        /\ my'[w].slug = m[w].slug /\ my'[w].left = m[w].left /\ my'[w].built = m[w].built
        /\ my'[w].current = m[w].current
    BY <1>2, <2>2, <2>3 DEF Process
  <2> QED
    BY <2>3, <2>4 DEF Only, Keeps
<1> QED
  BY <1>1, <1>2, <1>3, EndFacts, AfterFacts

\* A file without containers to lead to that is not simply absent.
Unusable(w) ==
    ~my[w].built /\ ~(my[w].kind \in {"attach", "detach"} /\ my[w].read = {} /\ ~Paths)

\* The file is written, left, or removed.
LEMMA SyncWriteFacts ==
    ASSUME TypeInv, NEW w \in All, Placed(w), NEW f, SyncWrite(w, f)
    PROVE  /\ Only(w) /\ At(w, "sync_write") /\ UNCHANGED <<apps, box>>
           /\ \/ /\ f = "none" /\ ~Unusable(w) /\ Succeeded(w)
                 /\ FileIs(my[w].slug, Rendered(my[w].slug, my[w].read))
              \/ /\ f = "none" /\ Unusable(w) /\ Failed(w)
                 /\ \/ file' = file /\ my[w].kind \in {"cli_attach", "cli_detach"}
                    \/ FileIs(my[w].slug, NoFile)
              \/ /\ f \in {"route", "runtime"} /\ Failed(w)
                 /\ \/ file' = file
                    \/ FileIs(my[w].slug, NoFile) /\ my[w].kind \in {"create", "redeploy"}
              \/ f = "context" /\ Publishes(w) /\ file' = file /\ Rests(w)
<1>1. /\ At(w, "sync_write") /\ UNCHANGED <<apps, box>>
      /\ \/ /\ f = "none" /\ ~Unusable(w) /\ AfterSuccess(w)
            /\ file' = [file EXCEPT ![my[w].slug] = Rendered(my[w].slug, my[w].read)]
         \/ /\ f = "none" /\ Unusable(w) /\ AfterFailure(w)
            /\ \/ file' = file /\ my[w].kind \in {"cli_attach", "cli_detach"}
               \/ file' = [file EXCEPT ![my[w].slug] = NoFile]
         \/ /\ f \in {"route", "runtime"} /\ AfterFailure(w)
            /\ \/ file' = file
               \/ /\ file' = [file EXCEPT ![my[w].slug] = NoFile]
                  /\ my[w].kind \in {"create", "redeploy"}
         \/ f = "context" /\ Publishes(w) /\ file' = file /\ End(w)
  BY Zenon DEF SyncWrite, Unusable, Deploys
<1>2. my[w].slug \in Names /\ my[w].read \in SUBSET Domains
  BY <1>1, AtHand DEF At, Process
<1>3. Rendered(my[w].slug, my[w].read) \in Files /\ NoFile \in Files
  BY <1>2, RenderedType, IdleType
<1>4. /\ file' = [file EXCEPT ![my[w].slug] = Rendered(my[w].slug, my[w].read)]
            => FileIs(my[w].slug, Rendered(my[w].slug, my[w].read))
      /\ file' = [file EXCEPT ![my[w].slug] = NoFile] => FileIs(my[w].slug, NoFile)
  BY <1>2, <1>3, FileFacts
<1> QED
  BY <1>1, <1>4, AfterFacts, EndFacts, Zenon

\* The containers of a slug go ...
LEMMA RemoveRuntimeFacts ==
    ASSUME TypeInv, NEW w \in All, Placed(w), NEW f, RemoveRuntime(w, f)
    PROVE  /\ Only(w) /\ At(w, "rm_runtime") /\ UNCHANGED <<apps, file>>
           /\ \/ BoxIs(my[w].slug, NoApp) /\ Moves(w, "rm_route")
              \/ box' = box /\ Rests(w) /\ f # "none"
<1>1. /\ At(w, "rm_runtime") /\ UNCHANGED <<apps, file>>
      /\ \/ box' = [box EXCEPT ![my[w].slug] = NoApp] /\ Go(w, "rm_route")
         \/ box' = box /\ End(w) /\ f # "none"
  BY DEF RemoveRuntime
<1>2. my[w].slug \in Names /\ NoApp \in Apps \cup {NoApp} /\ "rm_route" \in Steps
  BY <1>1, AtHand DEF At, Steps
<1> QED
  BY <1>1, <1>2, BoxFacts, GoFacts, EndFacts

\* ... its file goes ...
LEMMA RemoveRouteFacts ==
    ASSUME TypeInv, NEW w \in All, Placed(w), NEW f, RemoveRoute(w, f)
    PROVE  /\ Only(w) /\ At(w, "rm_route") /\ UNCHANGED <<apps, box>>
           /\ \/ FileIs(my[w].slug, NoFile) /\ Moves(w, "rm_row")
              \/ file' = file /\ Rests(w) /\ f # "none"
<1>1. /\ At(w, "rm_route") /\ UNCHANGED <<apps, box>>
      /\ \/ file' = [file EXCEPT ![my[w].slug] = NoFile] /\ Go(w, "rm_row")
         \/ file' = file /\ End(w) /\ f # "none"
  BY DEF RemoveRoute
<1>2. my[w].slug \in Names /\ NoFile \in Files /\ "rm_row" \in Steps
  BY <1>1, AtHand, IdleType DEF At, Steps
<1> QED
  BY <1>1, <1>2, FileFacts, GoFacts, EndFacts

\* ... and the row.
LEMMA DeleteFacts ==
    ASSUME TypeInv, NEW w \in All, Placed(w), NEW f, DeleteApp(w, f)
    PROVE  /\ Only(w) /\ At(w, "rm_row") /\ UNCHANGED <<box, file>> /\ Rests(w)
           /\ \/ Writes(App(w)) /\ apps'[App(w)] = NoRow
              \/ apps' = apps /\ f # "none"
<1>1. /\ At(w, "rm_row") /\ UNCHANGED <<box, file>> /\ End(w)
      /\ \/ apps' = [apps EXCEPT ![App(w)] = NoRow]
         \/ apps' = apps /\ f # "none"
  BY DEF DeleteApp
<1>2. App(w) \in Apps /\ NoRow \in Row
  BY <1>1, AtHand, IdleType DEF At
<1> QED
  BY <1>1, <1>2, WriteFacts, EndFacts

\* A service start comes to a row of its list, or to the end of it.
LEMMA PickFacts ==
    ASSUME TypeInv, NEW w \in All, NEW f, Pick(w, f)
    PROVE  /\ Only(w) /\ At(w, "pick") /\ UNCHANGED tables
           /\ \/ my[w].left = {} /\ Rests(w)
              \/ \E r \in my[w].left, t \in {"dark", "sync_read"} :
                    /\ r \in Listed /\ my'[w] = Visit(r, my[w].left \ {r}, t)
                    /\ t = "sync_read" => r.built /\ ~(r.error /\ r.app \in failed /\ f = "none")
                    /\ t = "dark" => ~r.built \/ (r.error /\ r.app \in failed)
<1>1. At(w, "pick") /\ UNCHANGED tables /\ my[w] \in Process
  BY DEF Pick, TypeInv
<1>2. CASE my[w].left = {} /\ End(w)
  BY <1>1, <1>2, EndFacts
<1>3. ASSUME NEW r \in my[w].left, NEW t \in {"dark", "sync_read"},
             my' = [my EXCEPT ![w] = Visit(r, my[w].left \ {r}, t)]
      PROVE  Only(w) /\ r \in Listed /\ my'[w] = Visit(r, my[w].left \ {r}, t)
  <2>1. r \in Listed /\ my[w].left \ {r} \in SUBSET Listed
    BY <1>1 DEF Process
  <2>2. Visit(r, my[w].left \ {r}, t) \in Process
    BY <2>1, IdleType DEF Visit, Process, Listed, Steps, Kinds
  <2> QED
    BY <1>3, <2>1, <2>2 DEF TypeInv, Only
<1>4. CASE ~(my[w].left = {} /\ End(w))
  <2>1. PICK r \in my[w].left :
           LET dark == ~r.built \/ (r.error /\ r.app \in failed /\ f = "none")
           IN  my' = [my EXCEPT ![w] = Visit(r, my[w].left \ {r},
                                            IF dark THEN "dark" ELSE "sync_read")]
    BY <1>4, Zenon DEF Pick
  <2>2. CASE ~r.built \/ (r.error /\ r.app \in failed /\ f = "none")
    BY <1>1, <1>3, <2>1, <2>2
  <2>3. CASE ~(~r.built \/ (r.error /\ r.app \in failed /\ f = "none"))
    BY <1>1, <1>3, <2>1, <2>3
  <2> QED
    BY <2>2, <2>3
<1> QED
  BY <1>1, <1>2, <1>4

\* An app that stays dark has no file afterwards, or that failed.
LEMMA DarkFacts ==
    ASSUME TypeInv, NEW w \in All, Placed(w), NEW f, KeepDark(w, f)
    PROVE  /\ Only(w) /\ At(w, "dark") /\ UNCHANGED <<apps, box>> /\ Moves(w, "pick")
           /\ FileIs(my[w].slug, NoFile) \/ (file' = file /\ f # "none")
<1>1. /\ At(w, "dark") /\ UNCHANGED <<apps, box>> /\ Go(w, "pick")
      /\ \/ file' = [file EXCEPT ![my[w].slug] = NoFile]
         \/ file' = file /\ f # "none"
  BY DEF KeepDark
<1>2. my[w].slug \in Names /\ NoFile \in Files /\ "pick" \in Steps
  BY <1>1, AtHand, IdleType DEF At, Steps
<1> QED
  BY <1>1, <1>2, FileFacts, GoFacts

\* What a request is when it begins: a creation under its name ...
Creates(m) ==
    /\ m \in Process /\ m.kind = "create" /\ m.step = "check_name"
    /\ m.app \in Apps /\ ~apps[m.app].there
    /\ m.name \in Names /\ m.slug = m.name /\ m.left = {}

\* ... or something with an app there is.
Concerns(m) ==
    /\ m \in Process /\ m.app \in Apps /\ apps[m.app].there
    /\ m.slug \in Names /\ m.slug = apps[m.app].slug /\ m.built = apps[m.app].built
    /\ m.before = apps[m.app].domains /\ m.file = file[m.slug] /\ m.left = {}
    /\ \/ m.kind = "rename" /\ m.step = "check_name" /\ m.name \in Names
       \/ m.kind = "attach" /\ m.step = "owner" /\ \E d \in Domains : m.domain = {d}
       \/ m.kind \in {"detach", "cli_attach", "cli_detach"} /\ m.step = "current"
          /\ \E d \in Domains : m.domain = {d}
       \/ m.kind = "redeploy" /\ m.step = "replace"
       \/ m.kind = "restart" /\ m.step = "sync_read" /\ m.built
       \/ m.kind = "remove" /\ m.step = "rm_runtime"

\* The copy a request keeps of a row.
LEMMA CopyFacts ==
    ASSUME TypeInv, NEW a \in Apps, apps[a].there, NEW k \in Kinds, NEW t \in Steps
    PROVE  LET m == Copy(a, k, t)
           IN  /\ m \in Process /\ m.kind = k /\ m.step = t /\ m.app = a
               /\ m.slug \in Names /\ m.slug = apps[a].slug /\ m.built = apps[a].built
               /\ m.before = apps[a].domains /\ m.file = file[m.slug] /\ m.left = {}
<1>1. apps[a] \in Row /\ apps[a].slug \in Names /\ Named(apps[a])
  BY DEF TypeInv, TablesOK, Named, Row
<1>2. file[apps[a].slug] \in Files
  BY <1>1 DEF TypeInv, TablesOK
<1> QED
  BY <1>1, <1>2 DEF Copy, Process, Row

\* A copy with another name, or with a domain, is still one.
LEMMA CopyNameFacts ==
    ASSUME NEW m \in Process, NEW n \in Names
    PROVE  LET e == [m EXCEPT !.name = n]
           IN  /\ e \in Process /\ e.name = n /\ e.kind = m.kind /\ e.step = m.step
               /\ e.app = m.app /\ e.slug = m.slug /\ e.built = m.built
               /\ e.before = m.before /\ e.file = m.file /\ e.left = m.left
BY DEF Process
LEMMA CopyDomainFacts ==
    ASSUME NEW m \in Process, NEW d \in Domains
    PROVE  LET e == [m EXCEPT !.domain = {d}]
           IN  /\ e \in Process /\ e.domain = {d} /\ e.kind = m.kind /\ e.step = m.step
               /\ e.app = m.app /\ e.slug = m.slug /\ e.built = m.built
               /\ e.before = m.before /\ e.file = m.file /\ e.left = m.left
BY DEF Process

\* Whatever is asked for.
LEMMA AskFacts ==
    ASSUME TypeInv, NEW w \in All, NEW m \in Process, Ask(w, m)
    PROVE  Only(w) /\ At(w, "idle") /\ UNCHANGED tables /\ my'[w] = m
BY DEF TypeInv, Ask, Only

\* A request leaves the tables alone and begins with what they say.
LEMMA RequestFacts ==
    ASSUME TypeInv, NEW w \in All, Request(w)
    PROVE  /\ Only(w) /\ At(w, "idle") /\ UNCHANGED tables
           /\ Creates(my'[w]) \/ Concerns(my'[w])
<1>k. /\ {"create", "redeploy", "attach", "detach", "cli_attach", "cli_detach", "rename",
          "remove", "restart"} \subseteq Kinds
      /\ {"check_name", "owner", "current", "replace", "sync_read", "rm_runtime"} \subseteq Steps
  BY DEF Kinds, Steps
<1>1. CASE AskCreate(w)
  <2>1. PICK a \in Apps, n \in Names :
           /\ ~apps[a].there
           /\ Ask(w, [Idle EXCEPT !.step = "check_name", !.kind = "create", !.app = a, !.name = n,
                                 !.slug = n])
    BY <1>1, Zenon DEF AskCreate
  <2>2. PICK m : m = [Idle EXCEPT !.step = "check_name", !.kind = "create", !.app = a, !.name = n,
                                 !.slug = n]
    OBVIOUS
  <2>3. Creates(m)
    BY <2>1, <2>2, IdleType DEF Creates, Idle, Process, Steps, Kinds
  <2>4. Ask(w, m)
    BY <2>1, <2>2, Zenon
  <2> QED
    BY <2>3, <2>4, AskFacts DEF Creates
<1>2. CASE AskRename(w)
  <2>1. PICK a \in Apps, n \in Names :
           apps[a].there /\ Ask(w, [Copy(a, "rename", "check_name") EXCEPT !.name = n])
    BY <1>2, Zenon DEF AskRename
  <2>2. PICK m : m = Copy(a, "rename", "check_name")
    OBVIOUS
  <2>3. /\ m \in Process /\ m.kind = "rename" /\ m.step = "check_name" /\ m.app = a
        /\ m.slug \in Names /\ m.slug = apps[a].slug /\ m.built = apps[a].built
        /\ m.before = apps[a].domains /\ m.file = file[m.slug] /\ m.left = {}
    BY <1>k, <2>1, <2>2, CopyFacts
  <2>4. PICK e : e = [m EXCEPT !.name = n]
    OBVIOUS
  <2>5. /\ e \in Process /\ e.name = n /\ e.kind = m.kind /\ e.step = m.step
        /\ e.app = m.app /\ e.slug = m.slug /\ e.built = m.built
        /\ e.before = m.before /\ e.file = m.file /\ e.left = m.left
    BY <2>3, <2>4, CopyNameFacts
  <2>6. Ask(w, e)
    BY <2>1, <2>2, <2>4, Zenon
  <2>7. Concerns(e)
    BY <2>1, <2>3, <2>5 DEF Concerns
  <2> QED
    BY <2>5, <2>6, <2>7, AskFacts
<1>3. ASSUME NEW a \in Apps, NEW d \in Domains, apps[a].there,
             NEW k \in {"attach", "detach", "cli_attach", "cli_detach"},
             NEW t \in {"owner", "current"}, t = "owner" <=> k = "attach",
             Ask(w, [Copy(a, k, t) EXCEPT !.domain = {d}])
      PROVE  Only(w) /\ At(w, "idle") /\ UNCHANGED tables /\ Concerns(my'[w])
  <2>2. PICK m : m = Copy(a, k, t)
    OBVIOUS
  <2>3. /\ m \in Process /\ m.kind = k /\ m.step = t /\ m.app = a
        /\ m.slug \in Names /\ m.slug = apps[a].slug /\ m.built = apps[a].built
        /\ m.before = apps[a].domains /\ m.file = file[m.slug] /\ m.left = {}
    <3>1. k \in Kinds /\ t \in Steps
      BY <1>k
    <3> QED
      BY <1>3, <2>2, <3>1, CopyFacts
  <2>4. PICK e : e = [m EXCEPT !.domain = {d}]
    OBVIOUS
  <2>5. /\ e \in Process /\ e.domain = {d} /\ e.kind = m.kind /\ e.step = m.step
        /\ e.app = m.app /\ e.slug = m.slug /\ e.built = m.built
        /\ e.before = m.before /\ e.file = m.file /\ e.left = m.left
    BY <2>3, <2>4, CopyDomainFacts
  <2>6. Ask(w, e)
    BY <1>3, <2>2, <2>4, Zenon
  <2>7. Concerns(e)
    BY <1>3, <2>3, <2>5 DEF Concerns
  <2> QED
    BY <2>5, <2>6, <2>7, AskFacts
<1>4. CASE AskDomain(w)
  <2>1. PICK a \in Apps, d \in Domains :
           /\ apps[a].there
           /\ \/ Ask(w, [Copy(a, "attach", "owner") EXCEPT !.domain = {d}])
              \/ Ask(w, [Copy(a, "detach", "current") EXCEPT !.domain = {d}])
    BY <1>4, Zenon DEF AskDomain
  <2>2. CASE Ask(w, [Copy(a, "attach", "owner") EXCEPT !.domain = {d}])
    BY <1>3, <2>1, <2>2
  <2>3. CASE Ask(w, [Copy(a, "detach", "current") EXCEPT !.domain = {d}])
    BY <1>3, <2>1, <2>3
  <2> QED
    BY <2>1, <2>2, <2>3
<1>5. CASE AskCliDomain(w)
  <2>1. PICK a \in Apps, d \in Domains, k \in {"cli_attach", "cli_detach"} :
           apps[a].there /\ Ask(w, [Copy(a, k, "current") EXCEPT !.domain = {d}])
    BY <1>5, Zenon DEF AskCliDomain
  <2>2. k \in {"attach", "detach", "cli_attach", "cli_detach"} /\ k # "attach"
        /\ "current" \in {"owner", "current"} /\ "current" # "owner"
    OBVIOUS
  <2> QED
    BY <1>3, <2>1, <2>2
<1>6. ASSUME NEW a \in Apps, apps[a].there, NEW k \in Kinds, NEW t \in Steps,
             \/ k = "redeploy" /\ t = "replace"
             \/ k = "restart" /\ t = "sync_read" /\ apps[a].built
             \/ k = "remove" /\ t = "rm_runtime",
             Ask(w, Copy(a, k, t))
      PROVE  Only(w) /\ At(w, "idle") /\ UNCHANGED tables /\ Concerns(my'[w])
  <2>1. PICK m : m = Copy(a, k, t)
    OBVIOUS
  <2>2. /\ m \in Process /\ m.kind = k /\ m.step = t /\ m.app = a
        /\ m.slug \in Names /\ m.slug = apps[a].slug /\ m.built = apps[a].built
        /\ m.before = apps[a].domains /\ m.file = file[m.slug] /\ m.left = {}
    BY <1>6, <2>1, CopyFacts
  <2>3. Ask(w, m)
    BY <1>6, <2>1, Zenon
  <2>4. Concerns(m)
    BY <1>6, <2>2 DEF Concerns
  <2> QED
    BY <2>2, <2>3, <2>4, AskFacts
<1>7. CASE AskRedeploy(w)
  <2>1. PICK a \in Apps : apps[a].there /\ Ask(w, Copy(a, "redeploy", "replace"))
    BY <1>7, Zenon DEF AskRedeploy
  <2> QED
    BY <1>k, <1>6, <2>1
<1>8. CASE AskRestart(w)
  BY <1>k, <1>6, <1>8 DEF AskRestart
<1>9. CASE AskRemove(w)
  BY <1>k, <1>6, <1>9 DEF AskRemove
<1> QED
  BY <1>1, <1>2, <1>4, <1>5, <1>7, <1>8, <1>9 DEF Request

\* The list of rows says what the rows say.
LEMMA RowsFacts ==
    ASSUME NEW r \in Rows(error')
    PROVE  Fresh(r) /\ (r.error <=> r.app \in error')
<1>1. PICK a \in {a \in Apps : apps[a].there} :
        r = [app |-> a, slug |-> apps[a].slug, built |-> apps[a].built, error |-> a \in error']
  BY Zenon DEF Rows
<1>2. apps[a].there
  OBVIOUS
<1>3. r.app = a /\ r.slug = apps[a].slug /\ r.built = apps[a].built
  BY <1>1
<1>4. r.error = (a \in error')
  BY <1>1, Zenon
<1>5. Fresh(r)
  BY <1>2, <1>3 DEF Fresh
<1>6. r.error <=> r.app \in error'
  BY <1>3, <1>4, Zenon
<1> QED
  BY <1>5, <1>6

\* A service start: everybody else is gone, and every row is to be visited.
LEMMA BootFacts ==
    ASSUME TypeInv, Boot
    PROVE  /\ my' \in [All -> Process] /\ UNCHANGED tables
           /\ \A w \in Workers : my'[w] = Idle
           /\ my'[Startup].step = "pick" /\ my'[Startup].kind = "startup"
           /\ my'[Startup].left = Rows(error')
<1>1. PICK rows : rows = Rows(error') /\ rows \in SUBSET Listed
  <2>1. ASSUME NEW a \in Apps, apps[a].there
        PROVE  [app |-> a, slug |-> apps[a].slug, built |-> apps[a].built,
                error |-> a \in error'] \in Listed
    <3>0. (a \in error') \in BOOLEAN
      OBVIOUS
    <3>1. PICK e \in BOOLEAN : e = (a \in error')
      BY <3>0, Zenon
    <3>2. apps[a].slug \in Names /\ apps[a].built \in BOOLEAN
      BY <2>1 DEF TypeInv, TablesOK, Named, Row
    <3>3. [app |-> a, slug |-> apps[a].slug, built |-> apps[a].built, error |-> e] \in Listed
      BY <3>2 DEF Listed
    <3> QED
      BY <3>1, <3>3, Zenon
  <2>2. \A r \in Rows(error') : r \in Listed
    BY <2>1, Zenon DEF Rows
  <2> QED
    BY <2>2
<1> DEFINE start == [Idle EXCEPT !.kind = "startup", !.step = "pick", !.left = rows]
<1>2. start \in Process /\ start.step = "pick" /\ start.kind = "startup" /\ start.left = rows
  BY <1>1, IdleType DEF Idle, Process, Steps, Kinds
<1>3. my' = [w \in All |-> IF w = Startup THEN start ELSE Idle] /\ UNCHANGED tables
  BY <1>1, Zenon DEF Boot
<1> HIDE DEF start
<1> QED
  BY <1>1, <1>2, <1>3, IdleType, StartupIsNoRequest DEF All

----------------------------------------------------------------------------
(* Types                                                                    *)

\* Tables of which one row, one slug's containers or one file has changed.
LEMMA TablesStay ==
    ASSUME TypeInv,
           apps' = apps \/ \E a \in Apps : Writes(a) /\ Named(apps'[a]),
           box' = box \/ \E s \in Names : \E a \in Apps \cup {NoApp} : BoxIs(s, a),
           file' = file \/ \E s \in Names : \E g \in Files : FileIs(s, g)
    PROVE  TablesOK(apps, box, file)'
<1>1. apps' \in [Apps -> Row] /\ \A a \in Apps : Named(apps'[a])
  BY DEF TypeInv, TablesOK, Writes
<1>2. box' \in [Names -> Apps \cup {NoApp}] /\ file' \in [Names -> Files]
  BY DEF TypeInv, TablesOK, BoxIs, FileIs
<1> QED
  BY <1>1, <1>2 DEF TablesOK

\* An idle worker is in its place.
LEMMA IdlePlaced ==
    ASSUME NEW w \in All, my'[w] = Idle
    PROVE  Placed(w)'
<1>1. Idle.step = "idle" /\ Idle.kind = "none" /\ Idle.left = {}
  BY DEF Idle
<1>2. Fits("none", "idle")
  BY DEF Fits
<1> QED
  BY <1>1, <1>2 DEF Placed

\* What kind of worker takes a step, and what it has at hand.
LEMMA PlacedFacts ==
    ASSUME TypeInv, NEW w \in All, Placed(w), ~At(w, "idle"), ~At(w, "pick")
    PROVE  /\ App(w) \in Apps /\ my[w].app = App(w) /\ my[w].slug \in Names
           /\ Named(apps[App(w)]) /\ apps[App(w)] \in Row /\ my[w] \in Process
           /\ my[w].step \in {"check_name", "insert", "update_name"} => my[w].name \in Names
           /\ my[w].kind = "create" /\ my[w].step \in {"check_name", "insert"}
                 => my[w].slug = my[w].name
           /\ my[w].step \in {"owner", "current", "set"} => \E d \in Domains : my[w].domain = {d}
           /\ my[w].kind \in {"none", "startup"} \/ w # Startup
           /\ my[w].kind = "startup" => w = Startup
           /\ my[w].kind # "startup" => my[w].left = {}
           /\ my[w].kind # "none"
           /\ At(w, "check_name") => my[w].kind \in {"create", "rename"}
           /\ At(w, "insert") => my[w].kind = "create"
           /\ At(w, "update_name") => my[w].kind = "rename"
           /\ At(w, "replace") => my[w].kind \in {"create", "redeploy"}
           /\ At(w, "owner") => my[w].kind = "attach"
           /\ my[w].step \in {"current", "set", "restore"} => my[w].kind \in Publishing
           /\ my[w].step \in Syncing
                 => my[w].kind \in Publishing \cup {"create", "redeploy", "restart", "startup"}
           /\ my[w].step \in {"rm_runtime", "rm_route", "rm_row"} => my[w].kind = "remove"
<1>1. Fits(my[w].kind, my[w].step) /\ my[w] \in Process
  BY DEF Placed, TypeInv
<1>2. /\ my[w].kind # "none"
      /\ At(w, "check_name") => my[w].kind \in {"create", "rename"}
      /\ At(w, "insert") => my[w].kind = "create"
      /\ At(w, "update_name") => my[w].kind = "rename"
      /\ At(w, "replace") => my[w].kind \in {"create", "redeploy"}
      /\ At(w, "owner") => my[w].kind = "attach"
      /\ my[w].step \in {"current", "set", "restore"} => my[w].kind \in Publishing
      /\ my[w].step \in Syncing
            => my[w].kind \in Publishing \cup {"create", "redeploy", "restart", "startup"}
      /\ my[w].step \in {"rm_runtime", "rm_route", "rm_row"} => my[w].kind = "remove"
  BY <1>1 DEF Fits, At, Process, Steps, Publishing, Syncing
<1> QED
  BY <1>2, AtHand DEF Placed

\* Whoever goes to a step the place of which fits is in it.
LEMMA MovedPlaced ==
    ASSUME TypeInv, NEW w \in All, Placed(w), ~At(w, "idle"), ~At(w, "pick"),
           NEW t \in Steps, t # "idle", Fits(my[w].kind, t),
           t \in {"check_name", "insert", "update_name"} =>
               my[w].step \in {"check_name", "insert", "update_name"},
           t \in {"check_name", "insert"} => my[w].step \in {"check_name", "insert"},
           t \in {"owner", "current", "set"} => my[w].step \in {"owner", "current", "set"},
           my'[w].step = t, my'[w].app = my[w].app, my'[w].slug = my[w].slug, Keeps(w),
           my'[w].left = my[w].left
    PROVE  Placed(w)'
BY PlacedFacts DEF Placed, Keeps, At

\* Nothing a worker does leaves the types or its place.
LEMMA WorkType ==
    ASSUME TypeInv, NEW w \in All, Placed(w), NEW f, Work(w, f)
    PROVE  /\ Only(w) /\ ~At(w, "idle") /\ TablesOK(apps, box, file)' /\ Placed(w)'
<1>k. /\ \A t \in {"replace", "sync_read", "sync_write"} : Fits("create", t)
      /\ \A t \in {"sync_read", "sync_write"} : Fits("redeploy", t)
      /\ \A t \in {"sync_write", "pick", "dark"} : Fits("startup", t)
      /\ \A k \in Publishing, t \in {"current", "set", "restore", "sync_read", "sync_write"} :
            Fits(k, t)
      /\ Fits("create", "insert") /\ Fits("rename", "update_name")
      /\ \A t \in {"rm_route", "rm_row"} : Fits("remove", t)
      /\ Fits("restart", "sync_write")
  BY DEF Fits, Syncing, Publishing
<1>s. /\ Named(NoRow) /\ NoFile \in Files
      /\ {"insert", "update_name", "replace", "current", "set", "sync_read", "sync_write",
          "restore", "rm_route", "rm_row", "pick", "dark"} \subseteq Steps
  BY IdleType DEF Steps
<1>c. CASE ~At(w, "idle") /\ ~At(w, "pick")
  <2>p. /\ App(w) \in Apps /\ my[w].app = App(w) /\ my[w].slug \in Names
        /\ Named(apps[App(w)]) /\ apps[App(w)] \in Row /\ my[w] \in Process
    BY <1>c, PlacedFacts
  <2> USE DEF At, Moves, Rests
  <2>1. CASE CheckName(w, f)
    <3>1. Only(w) /\ UNCHANGED tables
      BY <2>1, CheckNameFacts
    <3>2. Placed(w)'
      BY <1>c, <1>k, <1>s, <2>1, CheckNameFacts, PlacedFacts, MovedPlaced, IdlePlaced
    <3> QED
      BY <1>c, <3>1, <3>2, TablesStay DEF tables
  <2>2. CASE Insert(w, f)
    <3>0. \/ my'[w] = Idle
          \/ /\ Keeps(w) /\ my'[w].step = "replace"
             /\ my'[w].app = my[w].app /\ my'[w].slug = my[w].slug
             /\ my'[w].left = my[w].left
      BY <2>2, InsertFacts
    <3>1. Placed(w)'
      <4>1. /\ Fits(my[w].kind, "replace") /\ "replace" \in Steps
        BY <1>c, <1>k, <1>s, <2>2, InsertFacts, PlacedFacts
      <4> QED
        BY <1>c, <3>0, <4>1, MovedPlaced, IdlePlaced
    <3>2. Only(w) /\ (apps' = apps \/ (Writes(App(w)) /\ Named(apps'[App(w)]))) /\ UNCHANGED <<box, file>>
      <4>1. my[w].name \in Names /\ my[w].slug \in Names
        BY <1>c, <2>2, InsertFacts, PlacedFacts
      <4>2. Named([there |-> TRUE, name |-> my[w].name, slug |-> my[w].slug,
                   built |-> FALSE, domains |-> {}])
        BY <4>1, NothingIsNothing DEF Named
      <4> QED
        BY <2>2, <4>2, InsertFacts
    <3> QED
      BY <1>c, <2>p, <3>1, <3>2, TablesStay
  <2>3. CASE UpdateAppName(w, f)
    <3>1. Placed(w)' /\ Only(w) /\ UNCHANGED <<box, file>>
      BY <2>3, UpdateNameFacts, IdlePlaced
    <3>2. apps' = apps \/ (Writes(App(w)) /\ Named(apps'[App(w)]))
      BY <2>p, <2>3, UpdateNameFacts, NothingIsNothing DEF Named
    <3> QED
      BY <1>c, <2>p, <3>1, <3>2, TablesStay
  <2>4. CASE Owner(w, f)
    <3>1. Only(w) /\ UNCHANGED tables
      BY <2>4, OwnerFacts
    <3>2. Placed(w)'
      BY <1>c, <1>k, <1>s, <2>4, OwnerFacts, PlacedFacts, MovedPlaced, IdlePlaced DEF Publishing
    <3> QED
      BY <1>c, <3>1, <3>2, TablesStay DEF tables
  <2>5. CASE Current(w, f)
    <3>1. Only(w) /\ UNCHANGED tables
      BY <2>5, CurrentFacts
    <3>2. Placed(w)'
      BY <1>c, <1>k, <1>s, <2>5, CurrentFacts, PlacedFacts, MovedPlaced, IdlePlaced
    <3> QED
      BY <1>c, <3>1, <3>2, TablesStay DEF tables
  <2>6. CASE SetAppDomains(w, f)
    <3>1. Placed(w)'
      BY <1>c, <1>k, <1>s, <2>6, SetFacts, PlacedFacts, MovedPlaced, IdlePlaced
    <3>2. Only(w) /\ (apps' = apps \/ (Writes(App(w)) /\ Named(apps'[App(w)]))) /\ UNCHANGED <<box, file>>
      BY <2>p, <2>6, SetFacts DEF Named, Lists
    <3> QED
      BY <1>c, <2>p, <3>1, <3>2, TablesStay
  <2>7. CASE Restore(w, f)
    <3>1. Placed(w)' /\ Only(w) /\ UNCHANGED <<box, file>>
      BY <2>7, RestoreFacts, IdlePlaced
    <3>2. apps' = apps \/ (Writes(App(w)) /\ Named(apps'[App(w)]))
      BY <2>p, <2>7, RestoreFacts DEF Named, Lists
    <3> QED
      BY <1>c, <2>p, <3>1, <3>2, TablesStay
  <2>8. CASE Replace(w, f)
    <3>0. \/ my'[w] = Idle
          \/ /\ Keeps(w) /\ my'[w].step = "sync_read"
             /\ my'[w].app = my[w].app /\ my'[w].slug = my[w].slug
             /\ my'[w].left = my[w].left
      BY <2>8, ReplaceFacts DEF Replaced
    <3>1. Placed(w)'
      <4>1. /\ Fits(my[w].kind, "sync_read") /\ "sync_read" \in Steps
        <5>1. At(w, "replace")
          BY <2>8 DEF Replace
        <5>2. my[w].kind \in {"create", "redeploy"}
          BY <1>c, <5>1, PlacedFacts
        <5> QED
          BY <1>k, <1>s, <5>2
      <4> QED
        BY <1>c, <3>0, <4>1, MovedPlaced, IdlePlaced
    <3>2. /\ Only(w) /\ UNCHANGED file
          /\ apps' = apps \/ (Writes(App(w)) /\ Named(apps'[App(w)]))
          /\ box' = box \/ BoxIs(my[w].slug, App(w)) \/ BoxIs(my[w].slug, NoApp)
      BY <2>p, <2>8, ReplaceFacts DEF Named, Replaced
    <3> QED
      BY <1>c, <2>p, <3>1, <3>2, TablesStay
  <2>9. CASE SyncRead(w, f)
    <3>1. Only(w) /\ UNCHANGED tables
      BY <2>9, SyncReadFacts
    <3>2. Placed(w)'
      BY <1>c, <1>k, <1>s, <2>9, SyncReadFacts, PlacedFacts, MovedPlaced, IdlePlaced
         DEF Failed, Succeeded, Publishes, Publishing, Syncing
    <3> QED
      BY <1>c, <3>1, <3>2, TablesStay DEF tables
  <2>10. CASE SyncWrite(w, f)
    <3>1. Placed(w)'
      BY <1>c, <1>k, <1>s, <2>10, SyncWriteFacts, PlacedFacts, MovedPlaced, IdlePlaced
         DEF Failed, Succeeded, Publishes, Publishing, Syncing
    <3>2. /\ Only(w) /\ UNCHANGED <<apps, box>>
          /\ file' = file \/ FileIs(my[w].slug, NoFile)
                \/ FileIs(my[w].slug, Rendered(my[w].slug, my[w].read))
      BY <2>10, SyncWriteFacts
    <3>3. Rendered(my[w].slug, my[w].read) \in Files
      BY <2>p, RenderedType DEF Process
    <3> QED
      BY <1>c, <1>s, <2>p, <3>1, <3>2, <3>3, TablesStay
  <2>11. CASE RemoveRuntime(w, f)
    <3>1. Placed(w)'
      BY <1>c, <1>k, <1>s, <2>11, RemoveRuntimeFacts, PlacedFacts, MovedPlaced, IdlePlaced
    <3>2. Only(w) /\ UNCHANGED <<apps, file>> /\ (box' = box \/ BoxIs(my[w].slug, NoApp))
      BY <2>11, RemoveRuntimeFacts
    <3> QED
      BY <1>c, <2>p, <3>1, <3>2, TablesStay
  <2>12. CASE RemoveRoute(w, f)
    <3>1. Placed(w)'
      BY <1>c, <1>k, <1>s, <2>12, RemoveRouteFacts, PlacedFacts, MovedPlaced, IdlePlaced
    <3>2. Only(w) /\ UNCHANGED <<apps, box>> /\ (file' = file \/ FileIs(my[w].slug, NoFile))
      BY <2>12, RemoveRouteFacts
    <3> QED
      BY <1>c, <1>s, <2>p, <3>1, <3>2, TablesStay
  <2>13. CASE DeleteApp(w, f)
    <3>1. Placed(w)' /\ Only(w) /\ UNCHANGED <<box, file>>
      BY <2>13, DeleteFacts, IdlePlaced
    <3>2. apps' = apps \/ (Writes(App(w)) /\ Named(apps'[App(w)]))
      BY <1>s, <2>13, DeleteFacts
    <3> QED
      BY <1>c, <2>p, <3>1, <3>2, TablesStay
  <2>14. ~Pick(w, f)
    BY <1>c DEF Pick
  <2>15. CASE KeepDark(w, f)
    <3>1. my[w].kind = "startup"
      BY <1>c, <2>15, DarkFacts DEF Placed, Fits, Syncing
    <3>2. Placed(w)'
      BY <1>c, <1>k, <1>s, <2>15, <3>1, DarkFacts, MovedPlaced
    <3>3. Only(w) /\ UNCHANGED <<apps, box>> /\ (file' = file \/ FileIs(my[w].slug, NoFile))
      BY <2>15, DarkFacts
    <3> QED
      BY <1>c, <1>s, <2>p, <3>2, <3>3, TablesStay
  <2> QED
    BY <2>1, <2>2, <2>3, <2>4, <2>5, <2>6, <2>7, <2>8, <2>9, <2>10, <2>11, <2>12, <2>13,
       <2>14, <2>15 DEF Work
<1>d. CASE At(w, "pick")
  <2>1. Pick(w, f)
    BY <1>d DEF Work, At, CheckName, Insert, UpdateAppName, Owner, Current, SetAppDomains,
       Restore, Replace, SyncRead, SyncWrite, RemoveRuntime, RemoveRoute, DeleteApp, KeepDark
  <2>2. Only(w) /\ UNCHANGED tables
    BY <2>1, PickFacts
  <2>3. w = Startup
    BY <1>d DEF Placed, At, Fits, Syncing
  <2>4. ASSUME NEW r \in Listed, NEW rest, NEW t \in {"dark", "sync_read"},
               my'[w] = Visit(r, rest, t)
        PROVE  Placed(w)'
    BY <2>3, <2>4 DEF Placed, Visit, Fits, Syncing, Listed
  <2>5. Placed(w)'
    <3>1. \/ Rests(w)
          \/ \E r \in my[w].left, t \in {"dark", "sync_read"} :
                r \in Listed /\ my'[w] = Visit(r, my[w].left \ {r}, t)
      BY <2>1, PickFacts
    <3> QED
      BY <2>4, <3>1, IdlePlaced DEF Rests
  <2> QED
    BY <1>d, <2>2, <2>5, TablesStay DEF At, tables
<1>e. ~At(w, "idle")
  BY DEF Work, At, CheckName, Insert, UpdateAppName, Owner, Current, SetAppDomains,
     Restore, Replace, SyncRead, SyncWrite, RemoveRuntime, RemoveRoute, DeleteApp, Pick, KeepDark
<1> QED
  BY <1>c, <1>d, <1>e

\* Whoever is where he was is in his place.
LEMMA StaysPlaced ==
    ASSUME NEW w \in All, Placed(w), my'[w] = my[w]
    PROVE  Placed(w)'
BY DEF Placed

\* The same for a request, which begins in its place ...
LEMMA RequestType ==
    ASSUME TypeInv, NEW w \in Workers, Request(w)
    PROVE  Only(w) /\ At(w, "idle") /\ TablesOK(apps, box, file)' /\ Placed(w)'
<1>0. w \in All /\ w # Startup
  BY StartupIsNoRequest DEF All
<1>1. Only(w) /\ At(w, "idle") /\ UNCHANGED tables
  BY <1>0, RequestFacts
<1>2. TablesOK(apps, box, file)'
  BY <1>1 DEF tables, TypeInv, TablesOK
<1>3. PICK m : m = my'[w]
  OBVIOUS
<1>4. ASSUME Creates(m) PROVE Placed(w)'
  BY <1>0, <1>3, <1>4 DEF Creates, Placed, Fits
<1>5. ASSUME Concerns(m) PROVE Placed(w)'
  BY <1>0, <1>3, <1>5 DEF Concerns, Placed, Fits, Publishing, Syncing
<1> QED
  BY <1>0, <1>1, <1>2, <1>3, <1>4, <1>5, RequestFacts

\* ... and for a service start.
LEMMA BootType ==
    ASSUME TypeInv, Boot
    PROVE  my' \in [All -> Process] /\ TablesOK(apps, box, file)' /\ PlaceInv'
<1>1. my' \in [All -> Process] /\ UNCHANGED tables
  BY BootFacts
<1>2. TablesOK(apps, box, file)'
  BY <1>1 DEF tables, TypeInv, TablesOK
<1>3. \A w \in Workers : Placed(w)'
  BY BootFacts, IdlePlaced DEF All
<1>4. Placed(Startup)'
  <2>1. my'[Startup].step = "pick" /\ my'[Startup].kind = "startup" /\ Startup \in All
    BY BootFacts DEF All
  <2> QED
    BY <2>1 DEF Placed, Fits
<1> QED
  BY <1>1, <1>2, <1>3, <1>4 DEF PlaceInv, All

\* The first state is of the types.
LEMMA InitType == Init => TypeInv /\ CountInv /\ MarkInv /\ PlaceInv
<1> SUFFICES ASSUME Init
             PROVE  TypeInv /\ CountInv /\ MarkInv /\ PlaceInv
  OBVIOUS
<1>1. PICK a \in Apps \cup {NoApp}, s \in Names :
        /\ apps = [b \in Apps |-> IF b = a
                                THEN [there |-> TRUE, name |-> s, slug |-> s, built |-> TRUE,
                                      domains |-> {}]
                                ELSE NoRow]
        /\ box = [n \in Names |-> IF n = s THEN a ELSE NoApp]
        /\ file = [n \in Names |-> IF Paths /\ box[n] # NoApp
                                  THEN [to |-> box[n], domains |-> {}, there |-> TRUE]
                                  ELSE NoFile]
  BY Zenon DEF Init
<1>2. apps \in [Apps -> Row] /\ \A b \in Apps : Named(apps[b])
  BY <1>1, IdleType, NothingIsNothing DEF Row, Named
<1>3. box \in [Names -> Apps \cup {NoApp}]
  BY <1>1
<1>4. file \in [Names -> Files]
  BY <1>1, <1>3, IdleType DEF Files
<1>5. my = [w \in All |-> Idle]
  BY Zenon DEF Init
<1>6. my \in [All -> Process] /\ \A w \in All : my[w] = Idle
  BY <1>5, IdleType
<1>7. PlaceInv
  <2>1. Idle.step = "idle" /\ Idle.kind = "none" /\ Idle.left = {}
    BY DEF Idle
  <2> QED
    BY <1>6, <2>1 DEF PlaceInv, Placed, Fits
<1>8. CountInv
  <2>1. /\ asked = 0 /\ struck = 0 /\ boots = 0 /\ sole = NoApp /\ hit = {}
        /\ orderly = TRUE /\ shared = FALSE /\ forced = FALSE
    BY Zenon DEF Init
  <2>2. orderly \in BOOLEAN /\ shared \in BOOLEAN /\ forced \in BOOLEAN
    BY <2>1, Zenon
  <2>3. /\ asked \in 0..MaxRequests /\ struck \in 0..MaxFaults /\ boots \in 0..MaxBoots
        /\ sole \in All \cup {NoApp} /\ hit \subseteq Faults \ {"none"}
    BY <2>1, RequestBounds
  <2> QED
    BY <2>2, <2>3 DEF CountInv
<1>9. MarkInv
  BY DEF Init, MarkInv
<1> QED
  BY <1>2, <1>3, <1>4, <1>6, <1>7, <1>8, <1>9 DEF TypeInv, TablesOK

\* Only apps are marked: by a request, ...
LEMMA RequestMarks ==
    ASSUME MarkInv, NEW w \in Workers, Request(w)
    PROVE  MarkInv'
<1>1. CASE AskRedeploy(w)
  BY <1>1 DEF MarkInv, AskRedeploy
<1>2. CASE UNCHANGED marks
  BY <1>2 DEF MarkInv, marks
<1> QED
  BY <1>1, <1>2 DEF Request

\* ... by the work on it, ...
LEMMA WorkMarks ==
    ASSUME TypeInv, MarkInv, NEW w \in All, Placed(w), NEW f, Work(w, f)
    PROVE  MarkInv'
<1>1. CASE UNCHANGED marks
  BY <1>1 DEF MarkInv, marks
<1>2. ASSUME ~At(w, "idle"), ~At(w, "pick")
      PROVE  Rowed(w) \subseteq Apps
  BY <1>2, AtHand DEF Rowed
<1>3. CASE Replace(w, f)
  <2>1. Rowed(w) \subseteq Apps
    BY <1>2, <1>3 DEF Replace, At
  <2> QED
    BY <1>3, <2>1 DEF Replace, MarkFailed, MarkInv, marks
<1>4. ASSUME At(w, "sync_read") \/ At(w, "sync_write"), AfterSuccess(w) \/ AfterFailure(w)
      PROVE  MarkInv'
  <2>1. Rowed(w) \subseteq Apps
    BY <1>2, <1>4 DEF At
  <2>2. UNCHANGED marks \/ MarkFailed(w)
    BY <1>4 DEF AfterSuccess, AfterFailure
  <2> QED
    BY <2>1, <2>2 DEF MarkFailed, MarkInv, marks
<1>5. CASE SyncRead(w, f)
  <2>1. At(w, "sync_read") /\ (UNCHANGED marks \/ AfterFailure(w))
    BY <1>5, Zenon DEF SyncRead
  <2> QED
    BY <1>1, <1>4, <2>1
<1>6. CASE SyncWrite(w, f)
  <2>1. /\ At(w, "sync_write")
        /\ AfterSuccess(w) \/ AfterFailure(w) \/ UNCHANGED <<file, marks>>
    BY <1>6, Zenon DEF SyncWrite
  <2> QED
    BY <1>1, <1>4, <2>1
<1>7. CASE DeleteApp(w, f)
  <2>1. \/ error' = error \ {App(w)} /\ failed' = failed \ {App(w)}
        \/ error' = error /\ failed' = failed
    BY <1>7 DEF DeleteApp, marks
  <2> QED
    BY <2>1 DEF MarkInv
<1> QED
  BY <1>1, <1>3, <1>5, <1>6, <1>7 DEF Work

\* ... and by a service start.
LEMMA BootMarks ==
    ASSUME TypeInv, PlaceInv, MarkInv, Boot
    PROVE  MarkInv'
<1>1. ASSUME NEW w \in Workers, my[w].step \in {"replace", "sync_read", "sync_write"}
      PROVE  Rowed(w) \subseteq Apps
  <2>1. w \in All /\ Placed(w) /\ ~At(w, "idle") /\ ~At(w, "pick")
    BY <1>1 DEF PlaceInv, All, At
  <2> QED
    BY <2>1, AtHand DEF Rowed
<1>2. Active \subseteq Apps
  BY <1>1 DEF Active
<1>3. error' = error \cup Active /\ failed' = failed \cup Active
  BY DEF Boot
<1> QED
  BY <1>2, <1>3 DEF MarkInv

\* Every step stays within the types.
LEMMA NextType ==
    ASSUME TypeInv, CountInv, MarkInv, PlaceInv, [Next]_vars
    PROVE  TypeInv' /\ CountInv' /\ MarkInv' /\ PlaceInv'
<1>1. ASSUME NEW w \in Workers, RequestStep(w)
      PROVE  TypeInv' /\ CountInv' /\ MarkInv' /\ PlaceInv'
  <2>1. Only(w) /\ TablesOK(apps, box, file)' /\ Placed(w)' /\ w \in All
    BY <1>1, RequestType DEF RequestStep, All
  <2>2. MarkInv' /\ \A v \in All : Placed(v)'
    BY <1>1, <2>1, StaysPlaced, RequestMarks DEF PlaceInv, Only, RequestStep
  <2>3. /\ asked < MaxRequests /\ asked' = asked + 1 /\ struck' = struck /\ boots' = boots
        /\ shared' = shared /\ sole' \in {w, NoApp} /\ hit' = {}
        /\ orderly' = (orderly /\ Quiet)
        /\ forced' = (forced \/ my'[w].kind = "cli_attach")
    BY <1>1, Zenon DEF RequestStep
  <2>4. asked' \in 0..MaxRequests
    BY <2>3, RequestBounds DEF CountInv
  <2>5. orderly' \in BOOLEAN /\ forced' \in BOOLEAN
    BY <2>3
  <2> QED
    BY <2>1, <2>2, <2>3, <2>4, <2>5 DEF TypeInv, CountInv, PlaceInv, Only
<1>2. ASSUME NEW w \in All, NEW f \in Striking, WorkStep(w, f)
      PROVE  TypeInv' /\ CountInv' /\ MarkInv' /\ PlaceInv'
  <2>1. Only(w) /\ TablesOK(apps, box, file)' /\ Placed(w)'
    BY <1>2, WorkType DEF WorkStep, PlaceInv
  <2>2. MarkInv' /\ \A v \in All : Placed(v)'
    BY <1>2, <2>1, StaysPlaced, WorkMarks DEF PlaceInv, Only, WorkStep
  <2>3. /\ struck' = (IF f = "none" THEN struck ELSE struck + 1)
        /\ orderly' = (orderly /\ f = "none")
        /\ sole' = (IF sole = w THEN w ELSE NoApp)
        /\ hit' = (IF sole = w THEN hit \cup ({f} \ {"none"}) ELSE {})
        /\ shared' = (shared \/ SameSlug')
        /\ asked' = asked /\ boots' = boots /\ forced' = forced
    BY <1>2, Zenon DEF WorkStep
  <2>4. f \in Faults /\ (f # "none" => struck < MaxFaults)
    BY DEF Striking, Faults
  <2>5. struck' \in 0..MaxFaults
    BY <2>3, <2>4, RequestBounds DEF CountInv
  <2>6. sole' \in All \cup {NoApp} /\ hit' \subseteq Faults \ {"none"}
    BY <2>3, <2>4 DEF CountInv
  <2>7. orderly' \in BOOLEAN /\ shared' \in BOOLEAN
    BY <2>3, Zenon
  <2> QED
    BY <2>1, <2>2, <2>3, <2>5, <2>6, <2>7 DEF TypeInv, CountInv, PlaceInv, Only
<1>3. CASE BootStep
  <2>1. my' \in [All -> Process] /\ TablesOK(apps, box, file)' /\ PlaceInv' /\ MarkInv'
    BY <1>3, BootType, BootMarks DEF BootStep
  <2>2. /\ boots < MaxBoots /\ boots' = boots + 1 /\ sole' = Startup /\ hit' = {}
        /\ orderly' = (orderly /\ Quiet)
        /\ asked' = asked /\ struck' = struck /\ shared' = shared /\ forced' = forced
    BY <1>3, Zenon DEF BootStep, Boot
  <2>3. boots' \in 0..MaxBoots
    BY <2>2, RequestBounds DEF CountInv
  <2> QED
    BY <2>1, <2>2, <2>3 DEF TypeInv, CountInv, All
<1>4. CASE UNCHANGED vars
  BY <1>4 DEF vars, TypeInv, TablesOK, CountInv, MarkInv, PlaceInv, Placed
<1> QED
  BY <1>1, <1>2, <1>3, <1>4 DEF Next

Placing == TypeInv /\ CountInv /\ MarkInv /\ PlaceInv

\* The rows, the containers, the files and what every worker knows of them are
\* of their types, and every row that is there has a name and a slug.
THEOREM RegistryTypeOK == Spec => []TypeOK
<1>1. Init => Placing
  BY InitType DEF Placing
<1>2. Placing /\ [Next]_vars => Placing'
  BY NextType DEF Placing
<1>3. Placing => TypeOK
  BY DEF Placing, TypeInv, TablesOK, CountInv, MarkInv, TypeOK, Row, Named, Process, Listed
<1> QED
  BY <1>1, <1>2, <1>3, PTL DEF Spec

\* ... and the invariant with it.
LEMMA SpecPlacing == Spec => []Placing
<1>1. Init => Placing
  BY InitType DEF Placing
<1>2. Placing /\ [Next]_vars => Placing'
  BY NextType DEF Placing
<1> QED
  BY <1>1, <1>2, PTL DEF Spec

----------------------------------------------------------------------------
(* A service start                                                          *)

\* The start of a service only goes from row to row and writes files.
LEMMA StartupWork ==
    ASSUME Placing, NEW f, Work(Startup, f)
    PROVE  /\ Pick(Startup, f) \/ SyncRead(Startup, f) \/ SyncWrite(Startup, f) \/ KeepDark(Startup, f)
           /\ ~Publishes(Startup) /\ my[Startup].kind = "startup" /\ UNCHANGED <<apps, box>>
           /\ UNCHANGED marks
<1>1. Startup \in All /\ Placed(Startup) /\ TypeInv
  BY DEF Placing, PlaceInv, All
<1>2. CASE At(Startup, "pick")
  <2>1. Pick(Startup, f) /\ UNCHANGED marks
    BY <1>2 DEF Work, At, CheckName, Insert, UpdateAppName, Owner, Current, SetAppDomains,
       Restore, Replace, SyncRead, SyncWrite, RemoveRuntime, RemoveRoute, DeleteApp, KeepDark
  <2>2. my[Startup].kind = "startup"
    BY <1>1, <1>2 DEF Placed, Fits, At, Syncing
  <2> QED
    BY <1>1, <2>1, <2>2, PickFacts DEF Publishes, tables
<1>3. CASE ~At(Startup, "pick")
  <2>1. ~At(Startup, "idle")
    BY <1>1, WorkType
  <2>2. my[Startup].kind = "startup" /\ my[Startup].step \in Syncing \cup {"dark"}
    <3>1. /\ my[Startup].kind \in {"none", "startup"} /\ my[Startup].kind # "none"
      BY <1>1, <1>3, <2>1, PlacedFacts
    <3> QED
      BY <1>1, <1>3, <2>1, <3>1 DEF Placed, Fits, Publishing, Syncing, At
  <2>3. \/ SyncRead(Startup, f) \/ SyncWrite(Startup, f)
        \/ KeepDark(Startup, f) /\ UNCHANGED marks
    BY <2>2 DEF Syncing, Work, At, CheckName, Insert, UpdateAppName, Owner, Current, SetAppDomains,
       Restore, Replace, Pick, RemoveRuntime, RemoveRoute, DeleteApp
  <2>4. ~Deploys(Startup) /\ ~Publishes(Startup)
    BY <2>2 DEF Deploys, Publishes
  <2>5. AfterSuccess(Startup) \/ AfterFailure(Startup) => UNCHANGED marks
    BY <2>4 DEF AfterSuccess, AfterFailure
  <2>6. UNCHANGED marks
    BY <2>3, <2>4, <2>5, Zenon DEF SyncRead, SyncWrite
  <2> QED
    BY <1>1, <2>2, <2>3, <2>4, <2>6, SyncReadFacts, SyncWriteFacts, DarkFacts DEF tables
<1> QED
  BY <1>2, <1>3

\* What is in step stays so where the tables and the marks do.
LEMMA InStepKept ==
    ASSUME UNCHANGED <<apps, box, marks>>, NEW a \in Apps, file'[apps[a].slug] = file[apps[a].slug]
    PROVE  InStep(a)' <=> InStep(a)
BY DEF InStep, Rendered, Resolved, Dark, marks

\* It comes to the next row, ...
LEMMA HealPick ==
    ASSUME Placing, Healing, ~SameSlug, Pick(Startup, "none"), UNCHANGED marks
    PROVE  Healing'
<1>1. /\ Startup \in All /\ TypeInv /\ UNCHANGED tables /\ At(Startup, "pick")
      /\ \/ my[Startup].left = {} /\ Rests(Startup)
         \/ \E r \in my[Startup].left, t \in {"dark", "sync_read"} :
               /\ r \in Listed /\ my'[Startup] = Visit(r, my[Startup].left \ {r}, t)
               /\ t = "sync_read" => r.built /\ ~(r.error /\ r.app \in failed)
               /\ t = "dark" => ~r.built \/ (r.error /\ r.app \in failed)
  <2>1. PICK f : f = "none" /\ Pick(Startup, f)
    OBVIOUS
  <2> QED
    BY <2>1, PickFacts DEF Placing, All
<1>2. apps' = apps /\ box' = box /\ file' = file /\ error' = error /\ failed' = failed
  BY <1>1 DEF tables, marks
<1>3. \A a \in Apps : InStep(a)' <=> InStep(a)
  BY <1>2, InStepKept
<1>4. \A a \in Apps : apps[a].there => InStep(a) \/ \E q \in my[Startup].left : q.app = a
  BY <1>1 DEF Healing, At, Syncing
<1>5. CASE my[Startup].left = {} /\ Rests(Startup)
  <2>1. Idle.step = "idle" /\ Idle.left = {}
    BY DEF Idle
  <2> QED
    BY <1>2, <1>3, <1>4, <1>5, <2>1 DEF Rests, Healing, Syncing
<1>6. ASSUME NEW r \in my[Startup].left, NEW t \in {"dark", "sync_read"},
             r \in Listed, my'[Startup] = Visit(r, my[Startup].left \ {r}, t),
             t = "sync_read" => r.built /\ ~(r.error /\ r.app \in failed),
             t = "dark" => ~r.built \/ (r.error /\ r.app \in failed)
      PROVE  Healing'
  <2>1. /\ my'[Startup].step = t /\ my'[Startup].app = r.app
        /\ my'[Startup].slug = r.slug /\ my'[Startup].built = r.built
        /\ my'[Startup].left = my[Startup].left \ {r}
    BY <1>6 DEF Visit
  <2>2. \A a \in Apps : apps'[a].there =>
           InStep(a)' \/ (\E q \in my'[Startup].left : q.app = a) \/ my'[Startup].app = a
    BY <1>2, <1>3, <1>4, <2>1
  <2>3. \A q \in my[Startup].left : Fresh(q) /\ (q.error <=> q.app \in error)
    BY DEF Healing
  <2>4. Dark(r.app)' <=> (r.error /\ r.app \in failed)
    BY <1>2, <2>3 DEF Dark
  <2>5. /\ \A q \in my'[Startup].left : Fresh(q)' /\ (q.error <=> q.app \in error')
        /\ Fresh(my[Startup])'
    BY <1>2, <2>1, <2>3 DEF Fresh
  <2>6. /\ t = "sync_read" => my'[Startup].built /\ ~Dark(my[Startup].app)'
        /\ t = "dark" => ~my'[Startup].built \/ Dark(my[Startup].app)'
    BY <1>6, <2>1, <2>4 DEF Dark
  <2> QED
    BY <2>1, <2>2, <2>5, <2>6 DEF Healing, Syncing
<1> QED
  BY <1>1, <1>5, <1>6

\* ... reads its domains ...
LEMMA HealRead ==
    ASSUME Placing, Healing, ~SameSlug, SyncRead(Startup, "none"), UNCHANGED marks
    PROVE  Healing'
<1>1. Startup \in All /\ TypeInv /\ Placed(Startup)
  BY DEF Placing, PlaceInv, All
<1>2. /\ UNCHANGED tables /\ At(Startup, "sync_read")
      /\ my'[Startup].step = "sync_write" /\ my'[Startup].read = apps[App(Startup)].domains
      /\ my'[Startup].app = my[Startup].app /\ my'[Startup].slug = my[Startup].slug
      /\ my'[Startup].built = my[Startup].built /\ my'[Startup].left = my[Startup].left
  BY <1>1, SyncReadFacts
<1>3. \A a \in Apps : InStep(a)' <=> InStep(a)
  BY <1>2, InStepKept DEF tables
<1> QED
  BY <1>2, <1>3 DEF Healing, Fresh, Syncing, Dark, tables, marks, At, App

\* Where only the file of the app at hand is written, the others stay in step.
LEMMA HealOthers ==
    ASSUME Placing, Healing, ~SameSlug, UNCHANGED <<apps, box, marks>>,
           NEW m, m = my[Startup], m.step \in {"sync_write", "dark"}, NEW g \in Files,
           FileIs(m.slug, g), Moves(Startup, "pick"), InStep(m.app)'
    PROVE  Healing'
<1>0. m = my[Startup]
  OBVIOUS
<1>1. Startup \in All /\ TypeInv /\ Placed(Startup)
  BY DEF Placing, PlaceInv, All
<1>3. /\ m.app \in Apps /\ m.slug \in Names
      /\ apps[m.app].there /\ m.slug = apps[m.app].slug
  <2>1. m.app \in Apps /\ m.slug \in Names
    BY <1>0, <1>1, PlacedFacts DEF At
  <2> QED
    BY <1>0, <2>1 DEF Healing, Fresh, Syncing
<1>4. ASSUME NEW a \in Apps, apps[a].there, a # m.app
      PROVE  apps[a].slug \in Names \ {m.slug}
  BY <1>1, <1>3, <1>4 DEF SameSlug, TypeInv, TablesOK, Named, Row
<1>5. ASSUME NEW a \in Apps, apps[a].there, a # m.app, InStep(a)
      PROVE  InStep(a)'
  <2>1. file'[apps[a].slug] = file[apps[a].slug]
    BY <1>0, <1>4, <1>5 DEF FileIs
  <2> QED
    BY <1>5, <2>1, InStepKept
<1>7. ASSUME NEW a \in Apps, apps[a].there
      PROVE  InStep(a)' \/ \E r \in m.left : r.app = a
  <2>1. InStep(a) \/ (\E r \in m.left : r.app = a) \/ m.app = a
    BY <1>0, <1>7 DEF Healing
  <2>2. CASE m.app = a
    BY <2>2 DEF InStep
  <2>3. CASE m.app # a /\ InStep(a)
    BY <1>5, <1>7, <2>3
  <2> QED
    BY <2>1, <2>2, <2>3
<1>8. /\ my'[Startup].step = "pick" /\ my'[Startup].left = m.left /\ apps' = apps
      /\ error' = error
      /\ \A q \in m.left : Fresh(q) /\ (q.error <=> q.app \in error)
  BY <1>0 DEF Moves, Healing, marks
<1> QED
  BY <1>7, <1>8 DEF Healing, Fresh, Syncing

\* ... and writes its file, which is no other app's, ...
LEMMA HealWrite ==
    ASSUME Placing, Healing, ~SameSlug, SyncWrite(Startup, "none"), ~Publishes(Startup),
           UNCHANGED marks
    PROVE  Healing'
<1>0. PICK m : m = my[Startup]
  OBVIOUS
<1>1. Startup \in All /\ TypeInv /\ Placed(Startup)
  BY DEF Placing, PlaceInv, All
<1>2. m.step = "sync_write"
  BY <1>0 DEF SyncWrite, At
<1>3. /\ m.app \in Apps /\ m.slug \in Names /\ m.read \in SUBSET Domains
      /\ m.slug = apps[m.app].slug /\ m.built = apps[m.app].built
      /\ m.read = apps[m.app].domains /\ m.built /\ ~Dark(m.app)
  <2>1. m.app \in Apps /\ m.slug \in Names /\ m \in Process
    BY <1>0, <1>1, <1>2, PlacedFacts DEF At
  <2> QED
    BY <1>0, <1>2, <2>1 DEF Healing, Fresh, Syncing, Process
<1>4. /\ UNCHANGED <<apps, box>> /\ Moves(Startup, "pick")
      /\ FileIs(m.slug, Rendered(m.slug, m.read))
  BY <1>0, <1>1, <1>3, SyncWriteFacts DEF Failed, Succeeded, Unusable
<1>5. InStep(m.app)'
  <2>1. Rendered(m.slug, m.read)' = Rendered(m.slug, m.read)
    BY <1>4 DEF Rendered, Resolved
  <2>2. ~Dark(m.app)'
    BY <1>3 DEF Dark, marks
  <2> QED
    BY <1>3, <1>4, <2>1, <2>2 DEF InStep, FileIs
<1>6. Rendered(m.slug, m.read) \in Files
  BY <1>1, <1>3, RenderedType
<1>7. UNCHANGED <<apps, box, marks>> /\ m.step \in {"sync_write", "dark"}
  BY <1>2, <1>4
<1> QED
  BY <1>0, <1>4, <1>5, <1>6, <1>7, HealOthers, Zenon

\* ... or removes it.
LEMMA HealDark ==
    ASSUME Placing, Healing, ~SameSlug, KeepDark(Startup, "none"), UNCHANGED marks
    PROVE  Healing'
<1>0. PICK m : m = my[Startup]
  OBVIOUS
<1>1. Startup \in All /\ TypeInv /\ Placed(Startup)
  BY DEF Placing, PlaceInv, All
<1>2. m.step = "dark"
  BY <1>0 DEF KeepDark, At
<1>3. /\ m.app \in Apps /\ m.slug \in Names
      /\ m.slug = apps[m.app].slug /\ m.built = apps[m.app].built
      /\ ~m.built \/ Dark(m.app)
  <2>1. m.app \in Apps /\ m.slug \in Names
    BY <1>0, <1>1, <1>2, PlacedFacts DEF At
  <2> QED
    BY <1>0, <1>2, <2>1 DEF Healing, Fresh, Syncing
<1>4. /\ UNCHANGED <<apps, box>> /\ Moves(Startup, "pick") /\ FileIs(m.slug, NoFile)
  <2>1. PICK f : f = "none" /\ KeepDark(Startup, f)
    OBVIOUS
  <2> QED
    BY <1>0, <1>1, <2>1, DarkFacts
<1>5. InStep(m.app)'
  <2>1. Dark(m.app)' <=> Dark(m.app)
    BY DEF Dark, marks
  <2> QED
    BY <1>3, <1>4, <2>1 DEF InStep, FileIs
<1>6. NoFile \in Files
  BY IdleType
<1>7. UNCHANGED <<apps, box, marks>> /\ m.step \in {"sync_write", "dark"}
  BY <1>2, <1>4
<1> QED
  BY <1>0, <1>4, <1>5, <1>6, <1>7, HealOthers, Zenon

\* What the start of a service has done and what it has left to do is all there
\* is to do.
LEMMA HealStep ==
    ASSUME Placing, HealInv, [Next]_vars
    PROVE  HealInv'
<1> SUFFICES ASSUME (sole = Startup /\ hit = {} /\ ~SameSlug)'
             PROVE  Healing'
  BY DEF HealInv
<1>1. ASSUME NEW w \in Workers, RequestStep(w)
      PROVE  FALSE
  <2>1. sole' \in {w, NoApp}
    BY <1>1, Zenon DEF RequestStep
  <2> QED
    BY <2>1, StartupIsNoRequest, NothingIsNothing
<1>2. ASSUME NEW w \in All, NEW f, WorkStep(w, f)
      PROVE  Healing'
  <2>1. /\ Work(w, f) /\ sole' = (IF sole = w THEN w ELSE NoApp)
        /\ hit' = (IF sole = w THEN hit \cup ({f} \ {"none"}) ELSE {})
    BY <1>2, Zenon DEF WorkStep
  <2>2. w = Startup /\ sole = Startup /\ hit = {} /\ f = "none"
    BY <2>1, NothingIsNothing
  <2>3. /\ \/ Pick(w, "none") \/ SyncRead(w, "none") \/ SyncWrite(w, "none")
           \/ KeepDark(w, "none")
        /\ ~Publishes(w) /\ UNCHANGED <<apps, box>> /\ UNCHANGED marks
    BY <2>1, <2>2, StartupWork
  <2>4. ~SameSlug
    BY <2>3 DEF SameSlug
  <2> QED
    BY <2>2, <2>3, <2>4, HealPick, HealRead, HealWrite, HealDark DEF HealInv
<1>3. CASE BootStep
  <2>1. /\ UNCHANGED tables /\ my'[Startup].step = "pick"
        /\ my'[Startup].left = Rows(error')
    BY <1>3, BootFacts DEF Placing, BootStep
  <2>2. \A r \in Rows(error') : Fresh(r) /\ (r.error <=> r.app \in error')
    BY RowsFacts
  <2>3. ASSUME NEW a \in Apps, apps[a].there
        PROVE  \E r \in Rows(error') : r.app = a
    <3> DEFINE r == [app |-> a, slug |-> apps[a].slug, built |-> apps[a].built,
                     error |-> a \in error']
    <3>1. r \in Rows(error')
      BY <2>3 DEF Rows
    <3>2. r.app = a
      OBVIOUS
    <3> QED
      BY <3>1, <3>2, Zenon
  <2> QED
    BY <2>1, <2>2, <2>3 DEF Healing, Fresh, Syncing, tables
<1>4. CASE UNCHANGED vars
  BY <1>4 DEF vars, HealInv, SameSlug, Healing, Fresh, InStep, Rendered, Resolved, Dark
<1> QED
  BY <1>1, <1>2, <1>3, <1>4 DEF Next

\* Whatever overlapped, failed and was killed before - requests of handlers and of
\* commands, a start that was interrupted - a service start that is alone and meets
\* no failure leaves no file of an app whose deployment failed or was interrupted,
\* or that was never built, and brings the file of every other app in step with its
\* row and the containers of its slug, unless two apps share a slug.
THEOREM StartsHeal == Spec => []StartHeals
<1>1. Init => HealInv
  BY NothingIsNothing DEF Init, HealInv
<1>2. Placing /\ HealInv /\ [Next]_vars => HealInv'
  BY HealStep
<1>3. Placing /\ HealInv => StartHeals
  <2>1. Idle.left = {}
    BY DEF Idle
  <2> QED
    BY <2>1 DEF Placing, PlaceInv, Placed, All, HealInv, Healing, StartHeals, Quiet, At, InStep,
       Syncing
<1> QED
  BY <1>1, <1>2, <1>3, SpecPlacing, PTL DEF Spec

----------------------------------------------------------------------------
(* A change of domains                                                      *)

\* A change of domains takes six of the steps.
LEMMA PublishingWork ==
    ASSUME Placing, NEW w \in Workers, NEW f, Publishes(w), Work(w, f)
    PROVE  \/ Owner(w, f) \/ Current(w, f) \/ SetAppDomains(w, f)
           \/ SyncRead(w, f) \/ SyncWrite(w, f) \/ Restore(w, f)
<1>1. w \in All /\ Placed(w) /\ TypeInv
  BY DEF Placing, PlaceInv, All
<1>2. my[w].step \in {"owner", "current", "set", "sync_read", "sync_write", "restore"}
  BY <1>1 DEF Placed, Fits, Publishes, Syncing
<1> QED
  BY <1>2 DEF Work, At, CheckName, Insert, UpdateAppName, Replace, RemoveRuntime, RemoveRoute,
     DeleteApp, Pick, KeepDark

\* How the tables are when a change is over.
Settled(w) ==
    \/ /\ apps'[App(w)].domains = my[w].before
       /\ file'[my[w].slug] \in {my[w].file, IF my[w].built THEN my[w].file ELSE NoFile}
    \/ /\ apps'[App(w)].domains = List(w)
       /\ file'[my[w].slug] = Rendered(my[w].slug, apps'[App(w)].domains)

\* A step leaves a change as it should be at the next one, or it is over.
Advances(w) ==
    \/ Rests(w) /\ Settled(w)
    \/ my'[w].step # "idle" /\ Changing(w)'

\* The owner of the domain is looked up ...
LEMMA OwnerAdvances ==
    ASSUME Placing, NEW w \in Workers, NEW f, Changing(w), Owner(w, f)
    PROVE  Advances(w)
<1>1. w \in All /\ TypeInv
  BY DEF Placing, All
<1>2. UNCHANGED tables /\ At(w, "owner") /\ (Rests(w) \/ Moves(w, "current"))
  BY <1>1, OwnerFacts
<1> QED
  BY <1>2 DEF Changing, Advances, Settled, Moves, Keeps, tables, At, App, Syncing

\* ... the list is read ...
LEMMA CurrentAdvances ==
    ASSUME Placing, NEW w \in Workers, Changing(w), Current(w, "none")
    PROVE  Advances(w)
<1>1. w \in All /\ TypeInv /\ Placed(w)
  BY DEF Placing, PlaceInv, All
<1>2. /\ UNCHANGED tables /\ At(w, "current")
      /\ \/ Rests(w)
         \/ /\ Keeps(w) /\ my'[w].step = "set" /\ my'[w].app = my[w].app
            /\ my'[w].slug = my[w].slug /\ my'[w].built = my[w].built
            /\ my'[w].current = apps[App(w)].domains
  BY <1>1, CurrentFacts
<1> QED
  BY <1>2 DEF Changing, Advances, Settled, Keeps, tables, At, App, Syncing

\* ... and written ...
LEMMA SetAdvances ==
    ASSUME Placing, NEW w \in Workers, Changing(w), SetAppDomains(w, "none")
    PROVE  Advances(w)
<1>1. w \in All /\ TypeInv /\ Placed(w)
  BY DEF Placing, PlaceInv, All
<1>2. At(w, "set") /\ UNCHANGED <<box, file>> /\ apps[App(w)].there
  BY <1>1, SetFacts DEF Changing, App
<1>3. Moves(w, "sync_read") /\ Lists(w, Wanted(w))
  <2>1. PICK f : f = "none" /\ SetAppDomains(w, f)
    OBVIOUS
  <2>2. (Moves(w, "sync_read") /\ Lists(w, Wanted(w))) \/ ~apps[App(w)].there \/ f = "database"
    BY <1>1, <2>1, SetFacts
  <2> QED
    BY <1>2, <2>1, <2>2
<1>4. Wanted(w) = List(w) /\ List(w)' = List(w)
  BY <1>2, <1>3 DEF Changing, Wanted, List, At, Moves, Keeps, Attaches
<1>5. Changing(w)'
  BY <1>2, <1>3, <1>4 DEF Changing, Moves, Keeps, At, App, Syncing, Lists
<1> QED
  BY <1>3, <1>5 DEF Advances, Moves

\* ... and read again for the file ...
LEMMA ReadAdvances ==
    ASSUME Placing, NEW w \in Workers, Changing(w), SyncRead(w, "none")
    PROVE  Advances(w)
<1>1. w \in All /\ TypeInv /\ Placed(w)
  BY DEF Placing, PlaceInv, All
<1>2. /\ UNCHANGED tables /\ At(w, "sync_read")
      /\ Keeps(w) /\ my'[w].step = "sync_write" /\ my'[w].read = apps[App(w)].domains
      /\ my'[w].app = my[w].app /\ my'[w].slug = my[w].slug
      /\ my'[w].built = my[w].built /\ my'[w].current = my[w].current
  BY <1>1, SyncReadFacts
<1>3. List(w)' = List(w)
  BY <1>2 DEF List, Keeps, Attaches
<1> QED
  BY <1>2, <1>3 DEF Changing, Advances, Keeps, tables, At, App, Syncing

\* ... which is written, or the change is to be taken back ...
LEMMA WriteAdvances ==
    ASSUME Placing, NEW w \in Workers, NEW f \in {"none", "route", "runtime"}, Changing(w),
           Publishes(w), SyncWrite(w, f)
    PROVE  Advances(w)
<1>1. w \in All /\ TypeInv /\ Placed(w) /\ w # Startup
  BY StartupIsNoRequest DEF Placing, PlaceInv, All
<1>2. PICK s \in Names : s = my[w].slug
  BY <1>1, PlacedFacts DEF SyncWrite, At
<1>3. /\ UNCHANGED <<apps, box>> /\ At(w, "sync_write")
      /\ \/ Rests(w) /\ FileIs(s, Rendered(s, my[w].read))
         \/ Moves(w, "restore") /\ ~my[w].built /\ FileIs(s, NoFile)
         \/ Moves(w, "restore") /\ file' = file
  BY <1>1, <1>2, SyncWriteFacts DEF Failed, Succeeded, Unusable, Publishes
<1>4. /\ my[w].read = apps[App(w)].domains /\ apps[App(w)].domains = List(w)
      /\ file[s] = my[w].file /\ my[w].current = my[w].before
      /\ apps[App(w)].there /\ s = apps[App(w)].slug
  BY <1>2, <1>3 DEF Changing, At, App, Syncing
<1>5. CASE Rests(w) /\ FileIs(s, Rendered(s, my[w].read))
  BY <1>2, <1>3, <1>4, <1>5 DEF Advances, Settled, FileIs
<1>6. CASE Moves(w, "restore") /\ (file' = file \/ (~my[w].built /\ FileIs(s, NoFile)))
  <2>1. file'[s] \in {my[w].file, IF my[w].built THEN my[w].file ELSE NoFile}
    BY <1>4, <1>6 DEF FileIs
  <2>2. Changing(w)'
    BY <1>2, <1>3, <1>4, <1>6, <2>1 DEF Changing, Moves, Keeps, App, Syncing
  <2> QED
    BY <1>6, <2>2 DEF Advances, Moves
<1> QED
  BY <1>3, <1>5, <1>6

\* ... which ends it.
LEMMA RestoreAdvances ==
    ASSUME Placing, NEW w \in Workers, Changing(w), NEW f \in {"none", "route", "runtime"},
           Restore(w, f)
    PROVE  Advances(w)
<1>1. w \in All /\ TypeInv /\ Placed(w)
  BY DEF Placing, PlaceInv, All
<1>2. /\ At(w, "restore") /\ UNCHANGED <<box, file>> /\ Rests(w)
      /\ apps'[App(w)].domains = my[w].current
  BY <1>1, RestoreFacts DEF Changing, App, Lists
<1> QED
  BY <1>2 DEF Changing, Advances, Settled, At, App

\* All six.
LEMMA ChangeAdvances ==
    ASSUME Placing, NEW w \in Workers, NEW f \in {"none", "route", "runtime"}, Changing(w),
           Publishes(w), Work(w, f)
    PROVE  Advances(w)
<1>1. CASE Owner(w, f)
  BY <1>1, OwnerAdvances
<1>2. CASE Current(w, f)
  BY <1>2, CurrentAdvances DEF Current
<1>3. CASE SetAppDomains(w, f)
  BY <1>3, SetAdvances DEF SetAppDomains
<1>4. CASE SyncRead(w, f)
  BY <1>4, ReadAdvances DEF SyncRead
<1>5. CASE SyncWrite(w, f)
  BY <1>5, WriteAdvances
<1>6. CASE Restore(w, f)
  BY <1>6, RestoreAdvances
<1> QED
  BY <1>1, <1>2, <1>3, <1>4, <1>5, <1>6, PublishingWork

\* A worker that is alone is the one that takes the step, unless it has begun.
LEMMA AloneSteps ==
    ASSUME Placing, Next, NEW w \in Workers, sole' = w, hit' \subseteq {"route", "runtime"}
    PROVE  \/ RequestStep(w)
           \/ /\ sole = w /\ hit \subseteq {"route", "runtime"}
              /\ \E f \in {"none", "route", "runtime"} : WorkStep(w, f)
<1>1. ASSUME NEW v \in Workers, RequestStep(v)
      PROVE  RequestStep(w)
  <2>1. sole' \in {v, NoApp}
    BY <1>1, Zenon DEF RequestStep
  <2> QED
    BY <1>1, <2>1, NothingIsNothing
<1>2. ASSUME NEW v \in All, NEW f, WorkStep(v, f)
      PROVE  /\ sole = w /\ hit \subseteq {"route", "runtime"}
             /\ \E g \in {"none", "route", "runtime"} : WorkStep(w, g)
  <2>1. /\ sole' = (IF sole = v THEN v ELSE NoApp)
        /\ hit' = (IF sole = v THEN hit \cup ({f} \ {"none"}) ELSE {})
    BY <1>2, Zenon DEF WorkStep
  <2>2. v = w /\ sole = w
    BY <2>1, NothingIsNothing
  <2>3. hit \subseteq {"route", "runtime"} /\ f \in {"none", "route", "runtime"}
    BY <2>1, <2>2
  <2> QED
    BY <1>2, <2>2, <2>3
<1>3. ~BootStep
  BY StartupIsNoRequest DEF BootStep
<1> QED
  BY <1>1, <1>2, <1>3 DEF Next

\* A change that begins knows the row and the file of the moment.
LEMMA BegunChanging ==
    ASSUME Placing, NEW w \in Workers, RequestStep(w), Publishes(w)'
    PROVE  Changing(w)'
<1>1. w \in All /\ TypeInv
  BY DEF Placing, All
<1>2. PICK m : m = my'[w]
  OBVIOUS
<1>3. UNCHANGED tables /\ Concerns(m)
  <2>1. Request(w)
    BY DEF RequestStep
  <2>2. UNCHANGED tables /\ (Creates(m) \/ Concerns(m))
    BY <1>1, <1>2, <2>1, RequestFacts
  <2> QED
    BY <1>2, <2>2 DEF Creates, Publishes
<1>4. m.step \in {"owner", "current"}
  BY <1>2, <1>3 DEF Concerns, Publishes
<1> QED
  BY <1>2, <1>3, <1>4 DEF Concerns, Changing, tables, Syncing

\* A worker other than the start of a service stays what it is until it ends.
LEMMA KindStays ==
    ASSUME TypeInv, NEW w \in All, Placed(w), w # Startup, NEW f, Work(w, f), ~Rests(w)
    PROVE  my'[w].kind = my[w].kind
<1> USE DEF Moves, Keeps
<1>1. CASE CheckName(w, f)
  BY <1>1, CheckNameFacts
<1>2. CASE Insert(w, f)
  BY <1>2, InsertFacts
<1>3. CASE UpdateAppName(w, f)
  BY <1>3, UpdateNameFacts
<1>4. CASE Owner(w, f)
  BY <1>4, OwnerFacts
<1>5. CASE Current(w, f)
  BY <1>5, CurrentFacts
<1>6. CASE SetAppDomains(w, f)
  BY <1>6, SetFacts
<1>7. CASE Restore(w, f)
  BY <1>7, RestoreFacts
<1>8. CASE Replace(w, f)
  BY <1>8, ReplaceFacts DEF Replaced
<1>9. CASE SyncRead(w, f)
  BY <1>9, SyncReadFacts DEF Failed, Succeeded
<1>10. CASE SyncWrite(w, f)
  BY <1>10, SyncWriteFacts DEF Failed, Succeeded
<1>11. CASE RemoveRuntime(w, f)
  BY <1>11, RemoveRuntimeFacts
<1>12. CASE RemoveRoute(w, f)
  BY <1>12, RemoveRouteFacts
<1>13. CASE DeleteApp(w, f)
  BY <1>13, DeleteFacts
<1>14. ~Pick(w, f)
  BY DEF Pick, At, Placed, Fits, Syncing
<1>15. CASE KeepDark(w, f)
  BY <1>15, DarkFacts
<1> QED
  BY <1>1, <1>2, <1>3, <1>4, <1>5, <1>6, <1>7, <1>8, <1>9, <1>10, <1>11, <1>12, <1>13, <1>14, <1>15
     DEF Work

\* A change of domains stays as it should be.
LEMMA AloneStep ==
    ASSUME Placing, AloneInv, [Next]_vars
    PROVE  AloneInv'
<1>1. CASE Next
  <2> SUFFICES ASSUME NEW w \in Workers,
                      sole' = w, Publishes(w)', hit' \subseteq {"route", "runtime"}
               PROVE  Changing(w)'
    BY DEF AloneInv
  <2>1. CASE RequestStep(w)
    BY <2>1, BegunChanging
  <2>2. ASSUME sole = w, hit \subseteq {"route", "runtime"},
               NEW f \in {"none", "route", "runtime"}, WorkStep(w, f)
        PROVE  Changing(w)'
    <3>1. Work(w, f) /\ w \in All /\ TypeInv /\ Placed(w) /\ w # Startup
      BY <2>2, StartupIsNoRequest DEF WorkStep, Placing, PlaceInv, All
    <3>2. ~Rests(w)
      <4>1. Idle.kind = "none"
        BY DEF Idle
      <4> QED
        BY <4>1 DEF Rests, Publishes
    <3>3. Publishes(w)
      <4>1. my'[w].kind = my[w].kind
        BY <3>1, <3>2, KindStays
      <4> QED
        BY <4>1 DEF Publishes
    <3>4. Advances(w)
      BY <2>2, <3>1, <3>3, ChangeAdvances DEF AloneInv
    <3> QED
      BY <3>2, <3>4 DEF Advances
  <2> QED
    BY <1>1, <2>1, <2>2, AloneSteps
<1>2. CASE UNCHANGED vars
  BY <1>2 DEF vars, AloneInv, Publishes, Changing, List, Attaches
<1> QED
  BY <1>1, <1>2

\* What a step of Next is when a change of domains ends that was alone.
Settling ==
    \A w \in Workers :
         Ends(w) /\ Publishes(w) /\ sole = w /\ sole' = w /\ hit' \subseteq {"route", "runtime"} =>
             LET s == my[w].slug
                 now == apps'[App(w)].domains
             IN  \/ now = my[w].before /\ file'[s] \in {my[w].file, IF my[w].built THEN my[w].file ELSE NoFile}
                 \/ /\ now = IF Attaches(w) THEN my[w].before \cup my[w].domain
                              ELSE my[w].before \ my[w].domain
                    /\ file'[s] = Rendered(s, now)

\* It ends settled.
LEMMA AloneSettles ==
    ASSUME Placing, AloneInv, Next
    PROVE  Settling
<1> SUFFICES ASSUME NEW w \in Workers, Ends(w), Publishes(w), sole = w, sole' = w,
                    hit' \subseteq {"route", "runtime"}
             PROVE  Settled(w)
  BY DEF Settling, Settled, List
<1>1. ~RequestStep(w)
  BY RequestFacts DEF Ends, RequestStep, Placing, All
<1>2. PICK f \in {"none", "route", "runtime"} : WorkStep(w, f) /\ hit \subseteq {"route", "runtime"}
  BY <1>1, AloneSteps
<1>3. Advances(w)
  BY <1>2, ChangeAdvances DEF WorkStep, AloneInv
<1> QED
  BY <1>3 DEF Advances, Ends

\* A change of domains by a handler or a command that was alone - whatever routes
\* and containers fail it meets - is there in the table and in the app's Traefik
\* file when it ends, or in neither, but for a file that had no usable compose
\* file behind it and is gone.
THEOREM ChangesAreAllOrNothing == Spec => ChangeIsAllOrNothing
<1>1. Init => AloneInv
  BY NothingIsNothing DEF Init, AloneInv
<1>2. Placing /\ AloneInv /\ [Next]_vars => AloneInv'
  BY AloneStep
<1>3. Placing /\ AloneInv /\ [Next]_vars => [Settling]_vars
  BY AloneSettles
<1>4. Spec => [][Settling]_vars
  BY <1>1, <1>2, <1>3, SpecPlacing, PTL DEF Spec
<1> QED
  BY <1>4 DEF ChangeIsAllOrNothing, Settling

----------------------------------------------------------------------------
(* Orderly sequences                                                        *)

\* The apps and what the one worker knows of its own.
Tidy(w) ==
    /\ Knows(w)
    /\ \A a \in Apps : apps[a].there => InOrder(a) \/ Handles(w, a)
    /\ NothingLeft /\ NamesApart /\ DomainsApart

\* An idle worker knows nothing.
LEMMA IdleKnows ==
    ASSUME NEW w \in All, my[w] = Idle
    PROVE  Knows(w) /\ \A a \in Apps : ~Handles(w, a)
<1>1. Idle.step = "idle" /\ Idle.kind = "none" /\ Idle.left = {}
  BY DEF Idle
<1> QED
  BY <1>1 DEF Knows, Handles, Syncing, Publishing
LEMMA IdleKnowsThen ==
    ASSUME NEW w \in All, my'[w] = Idle
    PROVE  Knows(w)' /\ \A a \in Apps : ~Handles(w, a)'
<1>1. Idle.step = "idle" /\ Idle.kind = "none" /\ Idle.left = {}
  BY DEF Idle
<1> QED
  BY <1>1 DEF Knows, Handles, Syncing, Publishing

\* Where the tables stay, so does the order of the apps.
LEMMA SameTables ==
    ASSUME UNCHANGED tables, forced => forced'
    PROVE  /\ \A a \in Apps : InOrder(a)' <=> InOrder(a)
           /\ NothingLeft => NothingLeft'
           /\ NamesApart => NamesApart'
           /\ DomainsApart => DomainsApart'
           /\ \A a \in Apps : \A list : Apart(a, list) => Apart(a, list)'
           /\ \A r : Fresh(r) => Fresh(r)'
<1>1. apps' = apps /\ box' = box /\ file' = file
  BY DEF tables
<1>2. \A a \in Apps : InOrder(a)' <=> InOrder(a)
  BY <1>1 DEF InOrder, Rendered, Resolved
<1>3. NothingLeft => NothingLeft'
  BY <1>1 DEF NothingLeft
<1>4. NamesApart => NamesApart'
  BY <1>1 DEF NamesApart
<1>5. DomainsApart => DomainsApart'
  BY <1>1 DEF DomainsApart, Apart
<1>6. \A a \in Apps : \A list : Apart(a, list) => Apart(a, list)'
  BY <1>1 DEF Apart
<1>7. \A r : Fresh(r) => Fresh(r)'
  BY <1>1 DEF Fresh
<1> QED
  BY <1>2, <1>3, <1>4, <1>5, <1>6, <1>7

\* An app that no one writes to, under whose slug nothing is written, stays in order.
LEMMA OthersKept ==
    ASSUME TypeInv, NEW a \in Apps, NEW s \in Names,
           apps' = apps \/ Writes(a), box' = box \/ \E x \in Apps \cup {NoApp} : BoxIs(s, x),
           file' = file \/ \E g \in Files : FileIs(s, g),
           NEW b \in Apps \ {a}, apps[b].there, apps[b].slug # s
    PROVE  apps'[b] = apps[b] /\ (InOrder(b) => InOrder(b)')
<1>1. apps'[b] = apps[b] /\ apps[b].slug \in Names
  BY DEF Writes, TypeInv, TablesOK, Named, Row
<1>2. box'[apps[b].slug] = box[apps[b].slug] /\ file'[apps[b].slug] = file[apps[b].slug]
  BY <1>1 DEF BoxIs, FileIs
<1> QED
  BY <1>1, <1>2 DEF InOrder, Rendered, Resolved

\* What is written under the slug of an app there is leaves nothing behind.
LEMMA LeftKept ==
    ASSUME NothingLeft, NEW a \in Apps, NEW s \in Names, apps[a].there, apps[a].slug = s,
           apps' = apps \/ (Writes(a) /\ apps'[a].there /\ apps'[a].slug = s),
           box' = box \/ \E x \in Apps \cup {NoApp} : BoxIs(s, x),
           file' = file \/ \E g \in Files : FileIs(s, g)
    PROVE  NothingLeft'
<1> SUFFICES ASSUME NEW t \in Names, \A b \in Apps : apps'[b].there => apps'[b].slug # t
             PROVE  box'[t] = NoApp /\ file'[t] = NoFile
  BY DEF NothingLeft
<1>1. t # s
  OBVIOUS
<1>2. \A b \in Apps : apps[b].there => apps[b].slug # t
  BY <1>1 DEF Writes
<1>3. box[t] = NoApp /\ file[t] = NoFile
  BY <1>2 DEF NothingLeft
<1> QED
  BY <1>1, <1>3 DEF BoxIs, FileIs

\* Rows that keep their names keep them apart ...
LEMMA NamesKept ==
    ASSUME NamesApart, NEW a \in Apps, Writes(a), apps'[a].there = apps[a].there,
           apps'[a].name = apps[a].name
    PROVE  NamesApart'
BY DEF NamesApart, Writes

\* ... and those that keep their domains keep those apart, ...
LEMMA DomainsKept ==
    ASSUME DomainsApart, NEW a \in Apps, Writes(a), apps'[a].there = apps[a].there,
           apps'[a].domains = apps[a].domains, forced' = forced
    PROVE  DomainsApart'
BY DEF DomainsApart, Apart, Writes

\* ... as does one that gets domains nobody has.
LEMMA DomainsGiven ==
    ASSUME TypeInv, DomainsApart, NEW a \in Apps, Writes(a), apps'[a].there = apps[a].there,
           forced' = forced, forced \/ Apart(a, apps'[a].domains)
    PROVE  DomainsApart'
<1> SUFFICES ASSUME ~forced, NEW b \in Apps, NEW c \in Apps \ {b}, apps'[b].there, apps'[c].there
             PROVE  apps'[b].domains \cap apps'[c].domains = {}
  BY DEF DomainsApart, Apart
<1>1. \A e \in Apps \ {a} : apps'[e] = apps[e]
  BY DEF Writes
<1>2. \A e \in Apps \ {a} : apps[e].there => apps'[a].domains \cap apps[e].domains = {}
  BY DEF Apart
<1>3. CASE b = a
  BY <1>1, <1>2, <1>3
<1>4. CASE c = a
  BY <1>1, <1>2, <1>4
<1>5. CASE b # a /\ c # a
  BY <1>1, <1>5 DEF DomainsApart, Apart
<1> QED
  BY <1>3, <1>4, <1>5

\* Rows that stay as they were listed.
LEMMA FreshKept ==
    ASSUME NEW a \in Apps, Writes(a), apps'[a].there = apps[a].there,
           apps'[a].slug = apps[a].slug, apps'[a].built = apps[a].built,
           NEW r \in Listed, Fresh(r)
    PROVE  Fresh(r)'
BY DEF Fresh, Writes, Listed

\* The app of the one worker and its slug, which is no other app's.
LEMMA TidyHand ==
    ASSUME TypeInv, NEW w \in All, Placed(w), Knows(w), ~SameSlug, ~At(w, "idle"), ~At(w, "pick"),
           ~(my[w].kind = "create" /\ my[w].step \in {"check_name", "insert"})
    PROVE  /\ App(w) \in Apps /\ my[w].slug \in Names /\ my[w].app = App(w)
           /\ my[w].left \subseteq Listed
           /\ apps[App(w)].there /\ my[w].slug = apps[App(w)].slug
           /\ apps[App(w)] \in Row
           /\ \A b \in Apps \ {App(w)} : apps[b].there => apps[b].slug # my[w].slug
<1>1. /\ App(w) \in Apps /\ my[w].slug \in Names /\ my[w].app = App(w) /\ my[w] \in Process
      /\ apps[App(w)] \in Row
  BY PlacedFacts
<1>2. apps[App(w)].there /\ my[w].slug = apps[App(w)].slug
  BY <1>1 DEF Knows, At
<1> QED
  BY <1>1, <1>2 DEF SameSlug, Process

\* A name is looked up.
LEMMA TidyCheckName ==
    ASSUME TypeInv, NEW w \in All, Placed(w), Tidy(w), forced' = forced, CheckName(w, "none")
    PROVE  Tidy(w)'
<1>1. /\ UNCHANGED tables /\ At(w, "check_name")
      /\ \/ Rests(w)
         \/ Moves(w, "insert") /\ my[w].kind = "create"
         \/ Moves(w, "update_name") /\ my[w].kind # "create"
  BY CheckNameFacts
<1>2. Knows(w)'
  <2>1. CASE Rests(w)
    BY <2>1, IdleKnowsThen DEF Rests
  <2>2. CASE ~Rests(w)
    BY <1>1, <2>2, SameTables DEF Knows, Tidy, Moves, Keeps, At, tables, Syncing, Publishing, Apart, Fresh
  <2> QED
    BY <2>1, <2>2
<1>3. \A a \in Apps : apps[a].there => InOrder(a)
  BY <1>1 DEF Tidy, Handles, At, Syncing
<1>4. apps' = apps
  BY <1>1 DEF tables
<1> QED
  BY <1>1, <1>2, <1>3, <1>4, SameTables DEF Tidy

\* An app is inserted: its slug was nobody's, and nothing was left under it.
LEMMA TidyInsert ==
    ASSUME TypeInv, NEW w \in All, Placed(w), Tidy(w), forced' = forced, ~SameSlug',
           Insert(w, "none")
    PROVE  Tidy(w)'
<1>1. PICK a \in Apps : a = App(w) /\ a = my[w].app
  BY InsertFacts, PlacedFacts DEF At
<1>2. PICK s \in Names : s = my[w].slug /\ s = my[w].name
  BY InsertFacts, PlacedFacts DEF At
<1>3. At(w, "insert") /\ UNCHANGED <<box, file>> /\ my[w].kind = "create"
  BY InsertFacts, PlacedFacts DEF At
<1>4. \A b \in Apps : apps[b].there => InOrder(b)
  BY <1>3 DEF Tidy, Handles, At, Syncing
<1>5. CASE apps' = apps /\ Rests(w)
  BY <1>3, <1>4, <1>5, SameTables, IdleKnowsThen DEF Tidy, Rests, tables
<1>6. CASE ~(apps' = apps /\ Rests(w))
  <2>1. /\ ~Taken(s) /\ Moves(w, "replace") /\ Writes(a)
        /\ apps'[a] = [there |-> TRUE, name |-> s, slug |-> s, built |-> FALSE, domains |-> {}]
    BY <1>1, <1>2, <1>6, InsertFacts
  <2>2. /\ apps'[a].there /\ apps'[a].name = s /\ apps'[a].slug = s /\ ~apps'[a].built
        /\ apps'[a].domains = {}
    BY <2>1
  <2>3. ~apps[a].there
    BY <1>1, <1>3 DEF Tidy, Knows, At
  <2>4. \A b \in Apps \ {a} : apps'[b] = apps[b]
    BY <2>1 DEF Writes
  <2>5. \A b \in Apps : apps[b].there => apps[b].slug # s
    BY <2>2, <2>3, <2>4 DEF SameSlug
  <2>6. box[s] = NoApp /\ file[s] = NoFile
    BY <2>5 DEF Tidy, NothingLeft
  <2>7. InOrder(a)'
    BY <1>3, <2>2, <2>6 DEF InOrder, Rendered, Resolved, Render
  <2>8. \A b \in Apps \ {a} : apps[b].there => InOrder(b)'
    BY <1>3, <1>4, <2>4 DEF InOrder, Rendered, Resolved
  <2>9. NothingLeft'
    BY <1>3, <2>3, <2>4 DEF Tidy, NothingLeft
  <2>10. NamesApart'
    BY <2>1, <2>2, <2>4 DEF Tidy, NamesApart, Taken
  <2>11. DomainsApart'
    BY <2>2, <2>4 DEF Tidy, DomainsApart, Apart
  <2>12. Knows(w)'
    <3>1. \A r \in my[w].left : r \in Listed /\ Fresh(r) /\ r.app # a
      BY <1>3, <2>3, PlacedFacts DEF Tidy, Knows, Fresh, Process, At, Listed
    <3>2. \A r \in my[w].left : Fresh(r)'
      BY <2>4, <3>1 DEF Fresh, Listed
    <3> QED
      BY <1>1, <1>2, <1>3, <2>1, <2>2, <3>2 DEF Knows, Moves, Keeps, Syncing
  <2> QED
    BY <2>4, <2>7, <2>8, <2>9, <2>10, <2>11, <2>12 DEF Tidy
<1> QED
  BY <1>5, <1>6

\* An app gets another name: that was free, and nothing hangs on it.
LEMMA TidyUpdateName ==
    ASSUME TypeInv, NEW w \in All, Placed(w), Tidy(w), forced' = forced, UpdateAppName(w, "none")
    PROVE  Tidy(w)'
<1>1. PICK a \in Apps : a = App(w) /\ a = my[w].app
  BY UpdateNameFacts, PlacedFacts DEF At
<1>2. At(w, "update_name") /\ UNCHANGED <<box, file>> /\ Rests(w)
  BY UpdateNameFacts
<1>3. \A b \in Apps : apps[b].there => InOrder(b)
  BY <1>2 DEF Tidy, Handles, At, Syncing
<1>4. Knows(w)'
  BY <1>2, IdleKnowsThen DEF Rests
<1>5. CASE apps' = apps
  BY <1>2, <1>3, <1>4, <1>5, SameTables DEF Tidy, tables
<1>6. CASE apps' # apps
  <2>1. /\ Writes(a) /\ ~Taken(my[w].name) /\ apps[a].there
        /\ apps'[a].name = my[w].name /\ apps'[a].there = apps[a].there
        /\ apps'[a].slug = apps[a].slug /\ apps'[a].built = apps[a].built
        /\ apps'[a].domains = apps[a].domains
    BY <1>1, <1>6, UpdateNameFacts
  <2>2. \A b \in Apps \ {a} : apps'[b] = apps[b]
    BY <2>1 DEF Writes
  <2>3. \A b \in Apps : apps[b].there => InOrder(b)'
    BY <1>2, <1>3, <2>1, <2>2 DEF InOrder, Rendered, Resolved
  <2>4. NamesApart'
    BY <2>1, <2>2 DEF Tidy, NamesApart, Taken
  <2>5. NothingLeft'
    BY <1>2, <2>1, <2>2 DEF Tidy, NothingLeft
  <2>6. DomainsApart'
    BY <2>1, DomainsKept DEF Tidy
  <2> QED
    BY <1>4, <2>1, <2>2, <2>3, <2>4, <2>5, <2>6 DEF Tidy
<1> QED
  BY <1>5, <1>6

\* What a worker needs to know whose app's file is to be brought in step.
LEMMA KnowsSyncing ==
    ASSUME NEW w \in All, my'[w].step \in {"sync_read", "sync_write"},
           NEW a \in Apps, NEW s \in Names, my'[w].app = a, my'[w].slug = s,
           apps'[a].there, apps'[a].slug = s, my'[w].built = apps'[a].built,
           my'[w].kind = "cli_attach" => forced',
           my'[w].kind \in Publishing =>
               forced' \/ \A b \in Apps \ {a} :
                              apps'[b].there => my'[w].current \cap apps'[b].domains = {},
           box'[s] = (IF apps'[a].built THEN a ELSE NoApp),
           apps'[a].built \/ file'[s] = NoFile,
           my'[w].kind \in {"create", "redeploy"} => my'[w].built,
           my'[w].step = "sync_write" => my'[w].read = apps'[a].domains,
           \A r \in my'[w].left : Fresh(r)'
    PROVE  Knows(w)'
<1>1. my'[w].kind \in Publishing => forced' \/ Apart(my[w].app, my[w].current)'
  BY DEF Apart
<1> QED
  BY <1>1 DEF Knows, Syncing, Deploys

\* The domain is somebody else's or nobody's.
LEMMA TidyOwner ==
    ASSUME TypeInv, NEW w \in All, Placed(w), Tidy(w), ~SameSlug, forced' = forced,
           Owner(w, "none")
    PROVE  Tidy(w)'
<1>1. /\ UNCHANGED tables /\ At(w, "owner")
      /\ \/ Rests(w)
         \/ /\ Moves(w, "current")
            /\ \A a \in Apps \ {App(w)} : ~(my[w].domain \subseteq apps[a].domains)
  BY OwnerFacts
<1>2. \A a \in Apps : apps[a].there => InOrder(a)
  BY <1>1 DEF Tidy, Handles, At, Syncing
<1>3. Knows(w)'
  <2>1. CASE Rests(w)
    BY <2>1, IdleKnowsThen DEF Rests
  <2>2. CASE ~Rests(w)
    <3>1. PICK d \in Domains : my[w].domain = {d}
      BY <1>1, PlacedFacts DEF At
    <3>2. \A a \in Apps \ {App(w)} : my[w].domain \cap apps[a].domains = {}
      BY <1>1, <2>2, <3>1
    <3>3. my[w].kind = "attach"
      BY <1>1, PlacedFacts DEF At
    <3> QED
      BY <1>1, <2>2, <3>2, <3>3
         DEF Knows, Tidy, Moves, Keeps, At, App, tables, Syncing, Publishing, Apart, Fresh
  <2> QED
    BY <2>1, <2>2
<1>4. apps' = apps
  BY <1>1 DEF tables
<1> QED
  BY <1>1, <1>2, <1>3, <1>4, SameTables DEF Tidy

\* The list is read.
LEMMA TidyCurrent ==
    ASSUME TypeInv, NEW w \in All, Placed(w), Tidy(w), ~SameSlug, forced' = forced,
           Current(w, "none")
    PROVE  Tidy(w)'
<1>1. /\ UNCHANGED tables /\ At(w, "current")
      /\ \/ Rests(w)
         \/ /\ Keeps(w) /\ my'[w].step = "set"
            /\ my'[w].app = my[w].app /\ my'[w].slug = my[w].slug
            /\ my'[w].built = my[w].built /\ my'[w].left = my[w].left
            /\ my'[w].current = apps[App(w)].domains
  BY CurrentFacts
<1>2. \A a \in Apps : apps[a].there => InOrder(a)
  BY <1>1 DEF Tidy, Handles, At, Syncing
<1>3. Knows(w)'
  <2>1. CASE Rests(w)
    BY <2>1, IdleKnowsThen DEF Rests
  <2>2. CASE ~Rests(w)
    BY <1>1, <2>2 DEF Knows, Tidy, Keeps, At, App, tables, Syncing, Publishing, Apart, Fresh
  <2> QED
    BY <2>1, <2>2
<1>4. apps' = apps
  BY <1>1 DEF tables
<1> QED
  BY <1>1, <1>2, <1>3, <1>4, SameTables DEF Tidy

\* It is written: the domains stay apart unless a command put one there.
LEMMA TidySet ==
    ASSUME TypeInv, NEW w \in All, Placed(w), Tidy(w), ~SameSlug, forced' = forced,
           SetAppDomains(w, "none")
    PROVE  Tidy(w)'
<1>1. At(w, "set") /\ UNCHANGED <<box, file>>
  BY SetFacts
<1>2. PICK a \in Apps : a = App(w) /\ a = my[w].app
  BY <1>1, TidyHand DEF At, Tidy
<1>3. PICK s \in Names : s = my[w].slug
  BY <1>1, TidyHand DEF At, Tidy
<1>4. /\ apps[a].there /\ s = apps[a].slug /\ my[w].left \subseteq Listed
      /\ \A b \in Apps \ {a} : apps[b].there => apps[b].slug # s
  BY <1>1, <1>2, <1>3, TidyHand DEF At, Tidy
<1>5. /\ Writes(a) /\ Moves(w, "sync_read")
      /\ apps'[a].name = apps[a].name /\ apps'[a].there = apps[a].there
      /\ apps'[a].slug = apps[a].slug /\ apps'[a].built = apps[a].built
      /\ apps'[a].domains = Wanted(w)
  <2>1. PICK f : f = "none" /\ SetAppDomains(w, f)
    OBVIOUS
  <2>2. f # "database"
    BY <2>1
  <2>3. (Moves(w, "sync_read") /\ Lists(w, Wanted(w))) \/ ~apps[App(w)].there \/ f = "database"
    BY <2>1, SetFacts
  <2> QED
    BY <1>2, <1>4, <2>2, <2>3 DEF Lists
<1>6. \A b \in Apps : apps[b].there => InOrder(b)
  BY <1>1 DEF Tidy, Handles, At, Syncing
<1>7. \A b \in Apps \ {a} : apps[b].there => apps'[b] = apps[b] /\ InOrder(b)'
  BY <1>1, <1>3, <1>4, <1>5, <1>6, OthersKept
<1>8. my[w].kind \in Publishing /\ my[w].kind # "none"
  BY <1>1, PlacedFacts DEF At
<1>9. forced \/ (Apart(a, my[w].current) /\ Apart(a, Wanted(w)))
  <2>1. my[w].current = apps[a].domains /\ (forced \/ Apart(a, my[w].current))
    BY <1>1, <1>2, <1>4 DEF Tidy, Knows, DomainsApart, At
  <2>2. Attaches(w) => forced \/ Apart(a, my[w].domain)
    BY <1>1, <1>2 DEF Tidy, Knows, Attaches, At
  <2> QED
    BY <2>1, <2>2 DEF Wanted, Apart
<1>10. DomainsApart'
  BY <1>5, <1>9, DomainsGiven DEF Tidy
<1>11. NothingLeft' /\ NamesApart'
  BY <1>1, <1>4, <1>5, LeftKept, NamesKept DEF Tidy
<1>12. Knows(w)'
  <2>1. \A r \in my[w].left : Fresh(r)'
    BY <1>4, <1>5, FreshKept DEF Tidy, Knows
  <2>2. box[s] = (IF apps[a].built THEN a ELSE NoApp) /\ (apps[a].built \/ file[s] = NoFile)
    BY <1>4, <1>6 DEF InOrder, Rendered, Resolved, Render
  <2>3. my[w].built = apps[a].built /\ (my[w].kind = "cli_attach" => forced)
    BY <1>1, <1>2 DEF Tidy, Knows, At
  <2>4. forced \/ \A b \in Apps \ {a} : apps'[b].there => my[w].current \cap apps'[b].domains = {}
    BY <1>5, <1>9 DEF Apart, Writes
  <2> QED
    <3>1. /\ my'[w].step = "sync_read" /\ my'[w].app = a /\ my'[w].slug = s
          /\ apps'[a].there /\ apps'[a].slug = s /\ my'[w].built = apps'[a].built
          /\ my'[w].kind = "cli_attach" => forced'
          /\ my'[w].kind \notin {"create", "redeploy"}
      BY <1>2, <1>3, <1>4, <1>5, <1>8, <2>3 DEF Moves, Keeps, Publishing
    <3>2. /\ my'[w].kind \in Publishing =>
               forced' \/ \A b \in Apps \ {a} :
                              apps'[b].there => my'[w].current \cap apps'[b].domains = {}
          /\ box'[s] = (IF apps'[a].built THEN a ELSE NoApp)
          /\ apps'[a].built \/ file'[s] = NoFile
          /\ \A r \in my'[w].left : Fresh(r)'
      BY <1>1, <1>5, <2>1, <2>2, <2>4 DEF Moves
    <3> QED
      BY <3>1, <3>2, KnowsSyncing
<1>13. Handles(w, a)'
  BY <1>2, <1>5 DEF Handles, Moves, Syncing
<1>14. \A b \in Apps : apps'[b].there => InOrder(b)' \/ Handles(w, b)'
  BY <1>5, <1>7, <1>13 DEF Writes
<1> QED
  BY <1>10, <1>11, <1>12, <1>14 DEF Tidy

\* A change that is taken back leaves an app without containers and without a file.
LEMMA TidyRestore ==
    ASSUME TypeInv, NEW w \in All, Placed(w), Tidy(w), ~SameSlug, forced' = forced,
           Restore(w, "none")
    PROVE  Tidy(w)'
<1>1. At(w, "restore") /\ UNCHANGED <<box, file>> /\ Rests(w)
  BY RestoreFacts
<1>2. PICK a \in Apps : a = App(w) /\ a = my[w].app
  BY <1>1, TidyHand DEF At, Tidy
<1>3. PICK s \in Names : s = my[w].slug
  BY <1>1, TidyHand DEF At, Tidy
<1>4. /\ apps[a].there /\ s = apps[a].slug
      /\ \A b \in Apps \ {a} : apps[b].there => apps[b].slug # s
  BY <1>1, <1>2, <1>3, TidyHand DEF At, Tidy
<1>5. /\ Writes(a) /\ apps'[a].name = apps[a].name /\ apps'[a].there = apps[a].there
      /\ apps'[a].slug = apps[a].slug /\ apps'[a].built = apps[a].built
      /\ apps'[a].domains = my[w].current
  <2>1. PICK f : f = "none" /\ Restore(w, f)
    OBVIOUS
  <2>2. f # "database"
    BY <2>1
  <2>3. Lists(w, my[w].current) \/ ~apps[App(w)].there \/ f = "database"
    BY <2>1, RestoreFacts
  <2> QED
    BY <1>2, <1>4, <2>2, <2>3 DEF Lists
<1>6. \A b \in Apps \ {a} : apps[b].there => InOrder(b)
  BY <1>2 DEF Tidy, Handles
<1>7. \A b \in Apps \ {a} : apps[b].there => apps'[b] = apps[b] /\ InOrder(b)'
  BY <1>1, <1>3, <1>4, <1>5, <1>6, OthersKept
<1>8. ~apps[a].built /\ box[s] = NoApp /\ file[s] = NoFile /\ (forced \/ Apart(a, my[w].current))
  BY <1>1, <1>2, <1>3, PlacedFacts DEF Tidy, Knows, At
<1>9. InOrder(a)'
  BY <1>1, <1>4, <1>5, <1>8 DEF InOrder, Rendered, Resolved, Render
<1>10. DomainsApart'
  BY <1>5, <1>8, DomainsGiven DEF Tidy
<1>11. NothingLeft' /\ NamesApart'
  BY <1>1, <1>4, <1>5, LeftKept, NamesKept DEF Tidy
<1>12. Knows(w)'
  BY <1>1, IdleKnowsThen DEF Rests
<1>13. \A b \in Apps : apps'[b].there => InOrder(b)'
  BY <1>5, <1>7, <1>9 DEF Writes
<1> QED
  BY <1>10, <1>11, <1>12, <1>13 DEF Tidy

\* The containers of the slug are replaced: they were no other app's.
LEMMA TidyReplace ==
    ASSUME TypeInv, NEW w \in All, Placed(w), Tidy(w), ~SameSlug, forced' = forced,
           Replace(w, "none")
    PROVE  Tidy(w)'
<1>1. At(w, "replace") /\ UNCHANGED file
  BY ReplaceFacts
<1>2. PICK a \in Apps : a = App(w) /\ a = my[w].app
  BY <1>1, TidyHand DEF At, Tidy
<1>3. PICK s \in Names : s = my[w].slug
  BY <1>1, TidyHand DEF At, Tidy
<1>4. /\ apps[a].there /\ s = apps[a].slug /\ my[w].left \subseteq Listed
      /\ \A b \in Apps \ {a} : apps[b].there => apps[b].slug # s
  BY <1>1, <1>2, <1>3, TidyHand DEF At, Tidy
<1>5. /\ Writes(a) /\ BoxIs(s, a) /\ Keeps(w) /\ my'[w].step = "sync_read" /\ my'[w].built = TRUE
      /\ my'[w].app = a /\ my'[w].slug = s /\ my'[w].left = my[w].left
      /\ apps'[a].name = apps[a].name /\ apps'[a].there = apps[a].there
      /\ apps'[a].slug = apps[a].slug /\ apps'[a].built = TRUE
      /\ apps'[a].domains = apps[a].domains
  <2>1. PICK f : f = "none" /\ Replace(w, f)
    OBVIOUS
  <2>2. f \notin {"runtime", "database"}
    BY <2>1
  <2>3. Replaced(w) \/ ~apps[App(w)].there \/ f \in {"runtime", "database"}
    BY <2>1, ReplaceFacts
  <2> QED
    BY <1>2, <1>3, <1>4, <2>2, <2>3 DEF Replaced
<1>6. \A b \in Apps : apps[b].there => InOrder(b)
  BY <1>1 DEF Tidy, Handles, At, Syncing
<1>7. \A b \in Apps \ {a} : apps[b].there => apps'[b] = apps[b] /\ InOrder(b)'
  BY <1>1, <1>3, <1>4, <1>5, <1>6, OthersKept
<1>8. my[w].kind \in {"create", "redeploy"}
  BY <1>1, PlacedFacts DEF At
<1>9. DomainsApart'
  BY <1>5, DomainsKept DEF Tidy
<1>10. NothingLeft' /\ NamesApart'
  BY <1>1, <1>4, <1>5, LeftKept, NamesKept DEF Tidy
<1>11. Knows(w)'
  <2>1. \A r \in my[w].left : Fresh(r)'
    BY <1>1, <1>8, PlacedFacts DEF At
  <2>2. /\ my'[w].kind \notin Publishing /\ my'[w].kind # "cli_attach"
        /\ apps'[a].there /\ apps'[a].slug = s /\ my'[w].built = apps'[a].built
        /\ box'[s] = (IF apps'[a].built THEN a ELSE NoApp)
        /\ \A r \in my'[w].left : Fresh(r)'
    BY <1>4, <1>5, <1>8, <2>1 DEF Keeps, Publishing, BoxIs
  <2> QED
    BY <1>5, <2>2, KnowsSyncing
<1>12. Handles(w, a)'
  BY <1>5 DEF Handles, Syncing
<1>13. \A b \in Apps : apps'[b].there => InOrder(b)' \/ Handles(w, b)'
  BY <1>5, <1>7, <1>12 DEF Writes
<1> QED
  BY <1>9, <1>10, <1>11, <1>13 DEF Tidy

\* The domains are read for the file.
LEMMA TidySyncRead ==
    ASSUME TypeInv, NEW w \in All, Placed(w), Tidy(w), ~SameSlug, forced' = forced,
           SyncRead(w, "none")
    PROVE  Tidy(w)'
<1>1. /\ UNCHANGED tables /\ At(w, "sync_read")
      /\ Keeps(w) /\ my'[w].step = "sync_write" /\ my'[w].read = apps[App(w)].domains
      /\ my'[w].app = my[w].app /\ my'[w].slug = my[w].slug
      /\ my'[w].built = my[w].built /\ my'[w].current = my[w].current
      /\ my'[w].left = my[w].left
  BY SyncReadFacts
<1>2. apps' = apps /\ box' = box /\ file' = file
  BY <1>1 DEF tables
<1>3. Knows(w)'
  BY <1>1, <1>2 DEF Knows, Tidy, Keeps, At, App, Syncing, Publishing, Apart, Fresh, Deploys
<1>4. \A a \in Apps : Handles(w, a) => Handles(w, a)'
  BY <1>1 DEF Handles, Syncing
<1> QED
  BY <1>1, <1>2, <1>3, <1>4, SameTables DEF Tidy

\* The file is written, or there is nothing to write it for.
LEMMA TidySyncWrite ==
    ASSUME TypeInv, NEW w \in All, Placed(w), Tidy(w), ~SameSlug, forced' = forced,
           SyncWrite(w, "none")
    PROVE  Tidy(w)'
<1>1. At(w, "sync_write") /\ UNCHANGED <<apps, box>>
  BY SyncWriteFacts
<1>2. PICK a \in Apps : a = App(w) /\ a = my[w].app
  BY <1>1, TidyHand DEF At, Tidy
<1>3. PICK s \in Names : s = my[w].slug
  BY <1>1, TidyHand DEF At, Tidy
<1>4. /\ apps[a].there /\ s = apps[a].slug /\ my[w].left \subseteq Listed /\ apps[a] \in Row
      /\ \A b \in Apps \ {a} : apps[b].there => apps[b].slug # s
  BY <1>1, <1>2, <1>3, TidyHand DEF At, Tidy
<1>5. /\ my[w].built = apps[a].built /\ box[s] = (IF apps[a].built THEN a ELSE NoApp)
      /\ apps[a].built \/ file[s] = NoFile
      /\ my[w].read = apps[a].domains
  BY <1>1, <1>2, <1>3 DEF Tidy, Knows, At, Syncing
<1>6. PICK list \in SUBSET Domains : list = apps[a].domains
  BY <1>4 DEF Row
<1>7. file' = file \/ \E g \in Files : FileIs(s, g)
  BY <1>3, <1>5, <1>6, SyncWriteFacts, RenderedType, IdleType
<1>8. \A b \in Apps \ {a} : apps[b].there => InOrder(b)'
  <2>1. \A b \in Apps \ {a} : apps[b].there => InOrder(b)
    BY <1>2 DEF Tidy, Handles
  <2> QED
    BY <1>1, <1>3, <1>4, <1>7, <2>1, OthersKept
<1>9. file'[s] = Rendered(s, list) /\ (apps[a].built \/ file'[s] = NoFile)
  <2>1. ~apps[a].built => Rendered(s, list) = NoFile
    BY <1>5 DEF Rendered, Resolved, Render
  <2>2. PICK f : f = "none" /\ SyncWrite(w, f)
    OBVIOUS
  <2>3. \/ ~Unusable(w) /\ FileIs(s, Rendered(s, list))
        \/ Unusable(w) /\ (file' = file \/ FileIs(s, NoFile))
    BY <1>3, <1>5, <1>6, SyncWriteFacts
  <2>4. Unusable(w) => ~apps[a].built
    BY <1>5 DEF Unusable
  <2> QED
    BY <1>5, <2>1, <2>3, <2>4 DEF FileIs
<1>10. InOrder(a)'
  BY <1>1, <1>4, <1>5, <1>6, <1>9 DEF InOrder, Rendered, Resolved
<1>11. \A b \in Apps : apps'[b].there => InOrder(b)'
  BY <1>1, <1>8, <1>10
<1>12. NothingLeft'
  BY <1>1, <1>3, <1>4, <1>7, LeftKept DEF Tidy
<1>13. NamesApart' /\ DomainsApart'
  BY <1>1 DEF Tidy, NamesApart, DomainsApart, Apart
<1>14. \/ Rests(w)
       \/ Moves(w, "pick")
       \/ Moves(w, "restore") /\ my[w].kind \in Publishing /\ ~apps[a].built
  <2>1. PICK f : f = "none" /\ SyncWrite(w, f)
    OBVIOUS
  <2>2. Succeeded(w) \/ (Unusable(w) /\ Failed(w))
    BY <2>1, SyncWriteFacts
  <2> QED
    BY <1>5, <2>2 DEF Succeeded, Failed, Publishes, Publishing, Unusable
<1>15. \A r \in my[w].left : Fresh(r)'
  BY <1>1 DEF Tidy, Knows, Fresh
<1>16. Knows(w)'
  <2>1. CASE Rests(w)
    BY <2>1, IdleKnowsThen DEF Rests
  <2>2. CASE Moves(w, "pick")
    <3>1. my[w].kind = "cli_attach" => forced
      BY DEF Tidy, Knows
    <3> QED
      BY <1>15, <2>2, <3>1 DEF Knows, Moves, Keeps, Syncing
  <2>3. CASE Moves(w, "restore") /\ my[w].kind \in Publishing /\ ~apps[a].built
    <3>1. forced \/ \A b \in Apps \ {a} : apps[b].there => my[w].current \cap apps[b].domains = {}
      BY <1>1, <1>2, <2>3 DEF Tidy, Knows, Apart, At, Syncing
    <3>2. my[w].kind = "cli_attach" => forced
      BY DEF Tidy, Knows
    <3>3. forced' \/ Apart(my[w].app, my[w].current)'
      BY <1>1, <1>2, <2>3, <3>1 DEF Apart, Moves
    <3> QED
      BY <1>1, <1>2, <1>3, <1>4, <1>5, <1>9, <1>15, <2>3, <3>2, <3>3
         DEF Knows, Moves, Keeps, Syncing
  <2> QED
    BY <1>14, <2>1, <2>2, <2>3
<1> QED
  BY <1>11, <1>12, <1>13, <1>16 DEF Tidy

\* The containers of an app that is removed go ...
LEMMA TidyRemoveRuntime ==
    ASSUME TypeInv, NEW w \in All, Placed(w), Tidy(w), ~SameSlug, forced' = forced,
           RemoveRuntime(w, "none")
    PROVE  Tidy(w)'
<1>1. At(w, "rm_runtime") /\ UNCHANGED <<apps, file>>
  BY RemoveRuntimeFacts
<1>2. PICK a \in Apps : a = App(w) /\ a = my[w].app
  BY <1>1, TidyHand DEF At, Tidy
<1>3. PICK s \in Names : s = my[w].slug
  BY <1>1, TidyHand DEF At, Tidy
<1>4. /\ apps[a].there /\ s = apps[a].slug
      /\ \A b \in Apps \ {a} : apps[b].there => apps[b].slug # s
  BY <1>1, <1>2, <1>3, TidyHand DEF At, Tidy
<1>5. BoxIs(s, NoApp) /\ Moves(w, "rm_route")
  <2>1. PICK f : f = "none" /\ RemoveRuntime(w, f)
    OBVIOUS
  <2>2. (BoxIs(my[w].slug, NoApp) /\ Moves(w, "rm_route")) \/ f # "none"
    BY <2>1, RemoveRuntimeFacts
  <2> QED
    BY <1>3, <2>1, <2>2
<1>6. \A b \in Apps : apps[b].there => InOrder(b)
  BY <1>1 DEF Tidy, Handles, At, Syncing
<1>7. \A b \in Apps \ {a} : apps[b].there => InOrder(b)'
  BY <1>1, <1>4, <1>5, <1>6, OthersKept
<1>8. NothingLeft'
  BY <1>1, <1>4, <1>5, LeftKept DEF Tidy
<1>9. NamesApart' /\ DomainsApart'
  BY <1>1 DEF Tidy, NamesApart, DomainsApart, Apart
<1>10. my[w].kind = "remove" /\ my[w].left = {}
  BY <1>1, PlacedFacts DEF At
<1>11. Knows(w)'
  BY <1>1, <1>2, <1>3, <1>4, <1>5, <1>10 DEF Knows, Moves, Keeps, BoxIs, Syncing, Publishing
<1>12. Handles(w, a)'
  BY <1>2, <1>5 DEF Handles, Moves
<1>13. \A b \in Apps : apps'[b].there => InOrder(b)' \/ Handles(w, b)'
  BY <1>1, <1>7, <1>12
<1> QED
  BY <1>8, <1>9, <1>11, <1>13 DEF Tidy

\* ... its file goes ...
LEMMA TidyRemoveRoute ==
    ASSUME TypeInv, NEW w \in All, Placed(w), Tidy(w), ~SameSlug, forced' = forced,
           RemoveRoute(w, "none")
    PROVE  Tidy(w)'
<1>1. At(w, "rm_route") /\ UNCHANGED <<apps, box>>
  BY RemoveRouteFacts
<1>2. PICK a \in Apps : a = App(w) /\ a = my[w].app
  BY <1>1, TidyHand DEF At, Tidy
<1>3. PICK s \in Names : s = my[w].slug
  BY <1>1, TidyHand DEF At, Tidy
<1>4. /\ apps[a].there /\ s = apps[a].slug
      /\ \A b \in Apps \ {a} : apps[b].there => apps[b].slug # s
  BY <1>1, <1>2, <1>3, TidyHand DEF At, Tidy
<1>5. FileIs(s, NoFile) /\ Moves(w, "rm_row")
  <2>1. PICK f : f = "none" /\ RemoveRoute(w, f)
    OBVIOUS
  <2>2. (FileIs(my[w].slug, NoFile) /\ Moves(w, "rm_row")) \/ f # "none"
    BY <2>1, RemoveRouteFacts
  <2> QED
    BY <1>3, <2>1, <2>2
<1>6. \A b \in Apps \ {a} : apps[b].there => InOrder(b)
  BY <1>2 DEF Tidy, Handles
<1>7. \A b \in Apps \ {a} : apps[b].there => InOrder(b)'
  BY <1>1, <1>4, <1>5, <1>6, OthersKept, IdleType
<1>8. NothingLeft'
  BY <1>1, <1>4, <1>5, LeftKept, IdleType DEF Tidy
<1>9. NamesApart' /\ DomainsApart'
  BY <1>1 DEF Tidy, NamesApart, DomainsApart, Apart
<1>10. my[w].kind = "remove" /\ my[w].left = {} /\ box[s] = NoApp
  BY <1>1, <1>3, PlacedFacts DEF At, Tidy, Knows
<1>11. Knows(w)'
  BY <1>1, <1>2, <1>3, <1>4, <1>5, <1>10 DEF Knows, Moves, Keeps, FileIs, Syncing, Publishing
<1>12. Handles(w, a)'
  BY <1>2, <1>5 DEF Handles, Moves
<1>13. \A b \in Apps : apps'[b].there => InOrder(b)' \/ Handles(w, b)'
  BY <1>1, <1>7, <1>12
<1> QED
  BY <1>8, <1>9, <1>11, <1>13 DEF Tidy

\* ... and at last its row: nothing is left under its slug.
LEMMA TidyDelete ==
    ASSUME TypeInv, NEW w \in All, Placed(w), Tidy(w), ~SameSlug, forced' = forced,
           DeleteApp(w, "none")
    PROVE  Tidy(w)'
<1>1. At(w, "rm_row") /\ UNCHANGED <<box, file>> /\ Rests(w)
  BY DeleteFacts
<1>2. PICK a \in Apps : a = App(w) /\ a = my[w].app
  BY <1>1, TidyHand DEF At, Tidy
<1>3. PICK s \in Names : s = my[w].slug
  BY <1>1, TidyHand DEF At, Tidy
<1>4. apps[a].there /\ s = apps[a].slug
  BY <1>1, <1>2, <1>3, TidyHand DEF At, Tidy
<1>5. Writes(a) /\ ~apps'[a].there
  <2>1. PICK f : f = "none" /\ DeleteApp(w, f)
    OBVIOUS
  <2>2. (Writes(App(w)) /\ apps'[App(w)] = NoRow) \/ f # "none"
    BY <2>1, DeleteFacts
  <2>3. ~NoRow.there
    BY DEF NoRow
  <2> QED
    BY <1>2, <2>1, <2>2, <2>3
<1>6. \A b \in Apps \ {a} : apps'[b] = apps[b] /\ (apps[b].there => InOrder(b))
  BY <1>2, <1>5 DEF Tidy, Handles, Writes
<1>7. \A b \in Apps : apps'[b].there => InOrder(b)'
  BY <1>1, <1>5, <1>6 DEF InOrder, Rendered, Resolved
<1>8. box[s] = NoApp /\ file[s] = NoFile
  BY <1>1, <1>3 DEF Tidy, Knows, At
<1>9. NothingLeft'
  <2> SUFFICES ASSUME NEW t \in Names, \A b \in Apps : apps'[b].there => apps'[b].slug # t
               PROVE  box'[t] = NoApp /\ file'[t] = NoFile
    BY DEF NothingLeft
  <2>1. CASE t = s
    BY <1>1, <1>8, <2>1
  <2>2. CASE t # s
    <3>1. \A b \in Apps : apps[b].there => apps[b].slug # t
      BY <1>4, <1>6, <2>2
    <3> QED
      BY <1>1, <3>1 DEF Tidy, NothingLeft
  <2> QED
    BY <2>1, <2>2
<1>10. NamesApart' /\ DomainsApart'
  BY <1>5, <1>6 DEF Tidy, NamesApart, DomainsApart, Apart
<1>11. Knows(w)'
  BY <1>1, IdleKnowsThen DEF Rests
<1> QED
  BY <1>7, <1>9, <1>10, <1>11 DEF Tidy

\* A service start comes to the next row.
LEMMA TidyPick ==
    ASSUME TypeInv, NEW w \in All, Placed(w), Tidy(w), ~SameSlug, forced' = forced,
           failed = {}, Pick(w, "none")
    PROVE  Tidy(w)'
<1>1. /\ UNCHANGED tables /\ At(w, "pick")
      /\ \/ Rests(w)
         \/ \E r \in my[w].left, t \in {"dark", "sync_read"} :
               /\ r \in Listed /\ my'[w] = Visit(r, my[w].left \ {r}, t)
               /\ t = "dark" => ~r.built
  <2>1. PICK f : f = "none" /\ Pick(w, f)
    OBVIOUS
  <2> QED
    BY <2>1, PickFacts
<1>2. \A a \in Apps : apps[a].there => InOrder(a)
  BY <1>1 DEF Tidy, Handles, At, Syncing
<1>3. Knows(w)'
  <2>1. CASE Rests(w)
    BY <2>1, IdleKnowsThen DEF Rests
  <2>2. ASSUME NEW r \in my[w].left, NEW t \in {"dark", "sync_read"}, r \in Listed,
               my'[w] = Visit(r, my[w].left \ {r}, t), t = "dark" => ~r.built
        PROVE  Knows(w)'
    <3>1. /\ my'[w].step = t /\ my'[w].kind = "startup" /\ my'[w].app = r.app
          /\ my'[w].slug = r.slug /\ my'[w].built = r.built
          /\ my'[w].left = my[w].left \ {r}
      BY <2>2 DEF Visit
    <3>2. PICK a \in Apps, s \in Names : a = r.app /\ s = r.slug
      BY <2>2 DEF Listed
    <3>3. apps[a].there /\ apps[a].slug = s /\ r.built = apps[a].built
      BY <3>2 DEF Tidy, Knows, Fresh
    <3>4. InOrder(a)
      BY <1>2, <3>3
    <3>5. box[s] = (IF apps[a].built THEN a ELSE NoApp) /\ (apps[a].built \/ file[s] = NoFile)
      BY <3>3, <3>4 DEF InOrder, Rendered, Resolved, Render
    <3>6. \A q \in my'[w].left : Fresh(q)'
      BY <1>1, <3>1 DEF Tidy, Knows, Fresh, tables
    <3>7. /\ my'[w].kind \notin Publishing /\ my'[w].kind # "cli_attach"
          /\ my'[w].kind \notin {"create", "redeploy"}
      BY <3>1 DEF Publishing
    <3>8. apps' = apps /\ box' = box /\ file' = file
      BY <1>1 DEF tables
    <3>9. CASE t = "sync_read"
      BY <3>1, <3>2, <3>3, <3>5, <3>6, <3>7, <3>8, <3>9, KnowsSyncing
    <3>10. CASE t = "dark"
      BY <2>2, <3>1, <3>2, <3>3, <3>6, <3>7, <3>8, <3>10 DEF Knows, Syncing
    <3> QED
      BY <3>9, <3>10
  <2> QED
    BY <1>1, <2>1, <2>2
<1>4. apps' = apps
  BY <1>1 DEF tables
<1> QED
  BY <1>1, <1>2, <1>3, <1>4, SameTables DEF Tidy

\* An app that was never built has no file to be removed.
LEMMA TidyDark ==
    ASSUME TypeInv, NEW w \in All, Placed(w), Tidy(w), ~SameSlug, forced' = forced,
           KeepDark(w, "none")
    PROVE  Tidy(w)'
<1>1. At(w, "dark") /\ UNCHANGED <<apps, box>> /\ Moves(w, "pick")
  BY DarkFacts
<1>2. PICK a \in Apps : a = App(w) /\ a = my[w].app
  BY <1>1, TidyHand DEF At, Tidy
<1>3. PICK s \in Names : s = my[w].slug /\ s = apps[a].slug /\ apps[a].there
  BY <1>1, <1>2, TidyHand DEF At, Tidy
<1>4. \A b \in Apps : apps[b].there => InOrder(b)
  BY <1>1 DEF Tidy, Handles, At, Syncing
<1>5. ~apps[a].built
  BY <1>1, <1>2 DEF Tidy, Knows, At
<1>6. file[s] = NoFile
  BY <1>3, <1>4, <1>5 DEF InOrder, Rendered, Resolved, Render
<1>7. file' = file
  <2>1. FileIs(s, NoFile) \/ file' = file
    BY <1>3, DarkFacts
  <2>2. file \in [Names -> Files]
    BY DEF TypeInv, TablesOK
  <2> QED
    BY <1>6, <2>1, <2>2 DEF FileIs
<1>8. UNCHANGED tables
  BY <1>1, <1>7 DEF tables
<1>9. Knows(w)'
  <2>1. my[w].kind = "cli_attach" => forced
    BY DEF Tidy, Knows
  <2>2. \A r \in my[w].left : Fresh(r)'
    BY <1>1 DEF Tidy, Knows, Fresh
  <2> QED
    BY <1>1, <2>1, <2>2 DEF Knows, Moves, Keeps, Syncing
<1> QED
  BY <1>1, <1>4, <1>8, <1>9, SameTables DEF Tidy

\* A step that does not fail marks no app.
LEMMA CalmWork ==
    ASSUME NEW w \in All, Knows(w), Work(w, "none"), failed = {}
    PROVE  failed' = {}
<1>1. CASE UNCHANGED marks
  BY <1>1 DEF marks
<1>2. CASE Replace(w, "none")
  BY <1>2 DEF Replace, marks
<1>3. CASE SyncRead(w, "none")
  BY <1>3 DEF SyncRead, marks
<1>4. CASE SyncWrite(w, "none")
  <2>1. At(w, "sync_write") /\ (Deploys(w) => my[w].built)
    BY <1>4 DEF SyncWrite, Knows, Syncing, At
  <2>2. AfterSuccess(w) \/ (~my[w].built /\ AfterFailure(w)) \/ UNCHANGED marks
    BY <1>4 DEF SyncWrite
  <2> QED
    BY <2>1, <2>2 DEF AfterSuccess, AfterFailure, marks
<1>5. CASE DeleteApp(w, "none")
  BY <1>5 DEF DeleteApp, marks
<1> QED
  BY <1>1, <1>2, <1>3, <1>4, <1>5 DEF Work

\* Whatever it does.
LEMMA TidyWork ==
    ASSUME TypeInv, NEW w \in All, Placed(w), Tidy(w), ~SameSlug, ~SameSlug', forced' = forced,
           failed = {}, Work(w, "none")
    PROVE  Tidy(w)'
<1>1. PICK f : f = "none" /\ Work(w, f)
  OBVIOUS
<1> QED
  BY <1>1, TidyCheckName, TidyInsert, TidyUpdateName, TidyOwner, TidyCurrent, TidySet, TidyRestore,
     TidyReplace, TidySyncRead, TidySyncWrite, TidyRemoveRuntime, TidyRemoveRoute, TidyDelete,
     TidyPick, TidyDark DEF Work

\* A request that begins knows what the tables say.
LEMMA TidyRequest ==
    ASSUME TypeInv, NEW w \in All, Tidy(w), Quiet, Request(w),
           forced' = (forced \/ my'[w].kind = "cli_attach")
    PROVE  Tidy(w)'
<1>1. PICK m : m = my'[w]
  OBVIOUS
<1>2. UNCHANGED tables /\ (Creates(m) \/ Concerns(m))
  BY <1>1, RequestFacts
<1>3. apps' = apps /\ box' = box /\ file' = file
  BY <1>2 DEF tables
<1>4. \A a \in Apps : apps[a].there => InOrder(a)
  BY DEF Tidy, Handles, Quiet, At, Syncing
<1>5. Knows(w)'
  <2>1. CASE Creates(m)
    BY <1>1, <1>3, <2>1 DEF Creates, Knows, Syncing, Publishing
  <2>2. CASE Concerns(m) /\ m.step # "sync_read"
    BY <1>1, <1>3, <2>2 DEF Concerns, Knows, Syncing, Publishing
  <2>3. CASE Concerns(m) /\ m.step = "sync_read"
    <3>1. /\ m.app \in Apps /\ m.slug \in Names /\ apps[m.app].there /\ m.slug = apps[m.app].slug
          /\ m.built = apps[m.app].built /\ m.kind = "restart" /\ m.built /\ m.left = {}
      BY <2>3 DEF Concerns
    <3>2. box[m.slug] = m.app
      BY <1>4, <3>1 DEF InOrder
    <3>3. m.kind \notin Publishing /\ m.kind # "cli_attach"
      BY <3>1 DEF Publishing
    <3> QED
      BY <1>1, <1>3, <2>3, <3>1, <3>2, <3>3, KnowsSyncing
  <2> QED
    BY <1>2, <2>1, <2>2, <2>3
<1> QED
  BY <1>2, <1>3, <1>4, <1>5, SameTables DEF Tidy

\* A service start that interrupts nobody knows every row.
LEMMA TidyBoot ==
    ASSUME TypeInv, Tidy(Startup), Quiet, Boot, forced' = forced
    PROVE  Tidy(Startup)' /\ OneAtATime' /\ \A w \in Workers : my'[w] = Idle
<1>0. Startup \in All
  BY DEF All
<1>1. /\ UNCHANGED tables /\ \A w \in Workers : my'[w] = Idle
      /\ my'[Startup].step = "pick" /\ my'[Startup].kind = "startup" /\ my'[Startup].left = Rows(error')
  BY BootFacts
<1>2. apps' = apps
  BY <1>1 DEF tables
<1>3. \A a \in Apps : apps[a].there => InOrder(a)
  BY <1>0 DEF Tidy, Handles, Quiet, At, Syncing
<1>4. Knows(Startup)'
  <2>1. \A r \in Rows(error') : Fresh(r)
    BY DEF Rows, Fresh
  <2> QED
    BY <1>1, <2>1, SameTables DEF Knows, Syncing, Publishing
<1>5. OneAtATime'
  <2>1. Idle.step = "idle"
    BY DEF Idle
  <2> QED
    BY <1>1, <2>1 DEF OneAtATime, At, All
<1> QED
  BY <1>1, <1>2, <1>3, <1>4, <1>5, SameTables DEF Tidy

\* With everybody else idle, what is tidy for one is in order for all ...
LEMMA TidyAll ==
    ASSUME NEW w \in All, \A v \in All \ {w} : my'[v] = Idle, Tidy(w)'
    PROVE  /\ \A v \in All : Knows(v)'
           /\ OthersInOrder' /\ NothingLeft' /\ NamesApart' /\ DomainsApart'
<1>1. \A v \in All : Knows(v)'
  BY IdleKnowsThen DEF Tidy
<1>2. OthersInOrder'
  BY DEF OthersInOrder, Tidy
<1> QED
  BY <1>1, <1>2 DEF Tidy

\* ... and the other way around.
LEMMA AllTidy ==
    ASSUME NEW w \in All, \A v \in All \ {w} : my[v] = Idle, \A v \in All : Knows(v),
           OthersInOrder, NothingLeft, NamesApart, DomainsApart
    PROVE  Tidy(w)
<1>1. \A v \in All \ {w}, a \in Apps : ~Handles(v, a)
  BY IdleKnows
<1> QED
  BY <1>1 DEF Tidy, OthersInOrder

\* The order stays through every step.
LEMMA OrderStep ==
    ASSUME Placing, OrderInv, [Next]_vars
    PROVE  OrderInv'
<1>p. TypeInv /\ \A w \in All : Placed(w) /\ (At(w, "idle") => my[w] = Idle)
  BY DEF Placing, PlaceInv, Placed, At
<1>i. Idle.step = "idle"
  BY DEF Idle
<1>1. ASSUME NEW w \in Workers, RequestStep(w)
      PROVE  OrderInv'
  <2>1. w \in All /\ Only(w) /\ UNCHANGED tables /\ Request(w)
    BY <1>p, <1>1, RequestFacts DEF RequestStep, All
  <2>2. /\ orderly' = (orderly /\ Quiet) /\ shared' = shared
        /\ forced' = (forced \/ my'[w].kind = "cli_attach")
    BY <1>1, Zenon DEF RequestStep
  <2>3. SameSlug' => shared'
    BY <2>1, <2>2 DEF OrderInv, SameSlug, tables
  <2>4. ASSUME orderly'
        PROVE  /\ \A v \in All \ {w} : my[v] = Idle /\ my'[v] = Idle
               /\ OneAtATime'
    <3>1. \A v \in All \ {w} : my[v] = Idle /\ my'[v] = Idle
      BY <1>p, <2>1, <2>2, <2>4 DEF Quiet, Only
    <3>2. OneAtATime'
      BY <1>i, <3>1 DEF OneAtATime, At
    <3> QED
      BY <3>1, <3>2
  <2>5. ASSUME orderly', ~shared'
        PROVE  Tidy(w)' /\ failed' = {}
    <3>1. Tidy(w) /\ failed = {} /\ Quiet
      BY <2>1, <2>2, <2>4, <2>5, AllTidy DEF OrderInv
    <3>2. failed' = {}
      BY <2>1, <3>1, Zenon DEF Request, AskRedeploy, marks
    <3>3. Tidy(w)'
      BY <1>p, <2>1, <2>2, <3>1, TidyRequest
    <3> QED
      BY <3>2, <3>3
  <2>6. ASSUME orderly', ~shared'
        PROVE  /\ \A v \in All : Knows(v)'
               /\ OthersInOrder' /\ NothingLeft' /\ NamesApart' /\ DomainsApart'
    BY <2>1, <2>4, <2>5, <2>6, TidyAll
  <2> QED
    BY <2>3, <2>4, <2>5, <2>6 DEF OrderInv
<1>2. ASSUME NEW w \in All, NEW f, WorkStep(w, f)
      PROVE  OrderInv'
  <2>1. /\ Work(w, f) /\ orderly' = (orderly /\ f = "none") /\ shared' = (shared \/ SameSlug')
        /\ forced' = forced
    BY <1>2, Zenon DEF WorkStep
  <2>2. Only(w) /\ ~At(w, "idle")
    <3>1. Only(w)
      BY <1>p, <2>1, WorkType
    <3>2. ~At(w, "idle")
      BY <2>1 DEF Work, At, CheckName, Insert, UpdateAppName, Owner, Current, SetAppDomains,
         Restore, Replace, SyncRead, SyncWrite, RemoveRuntime, RemoveRoute, DeleteApp, Pick, KeepDark
    <3> QED
      BY <3>1, <3>2
  <2>3. SameSlug' => shared'
    BY <2>1
  <2>4. ASSUME orderly'
        PROVE  /\ \A v \in All \ {w} : my[v] = Idle /\ my'[v] = Idle
               /\ OneAtATime'
    <3>1. \A v \in All \ {w} : my[v] = Idle /\ my'[v] = Idle
      BY <1>p, <2>1, <2>2, <2>4 DEF OrderInv, OneAtATime, Only
    <3>2. OneAtATime'
      BY <1>i, <3>1 DEF OneAtATime, At
    <3> QED
      BY <3>1, <3>2
  <2>5. ASSUME orderly', ~shared'
        PROVE  Tidy(w)' /\ failed' = {}
    <3>1. f = "none" /\ orderly /\ ~shared /\ ~SameSlug /\ ~SameSlug'
      BY <2>1, <2>5 DEF OrderInv
    <3>2. Tidy(w) /\ failed = {} /\ Knows(w)
      BY <2>4, <2>5, <3>1, AllTidy DEF OrderInv
    <3>3. Work(w, "none")
      BY <2>1, <3>1
    <3>4. failed' = {}
      BY <3>2, <3>3, CalmWork
    <3>5. Tidy(w)'
      BY <1>p, <2>1, <3>1, <3>2, <3>3, TidyWork
    <3> QED
      BY <3>4, <3>5
  <2>6. ASSUME orderly', ~shared'
        PROVE  /\ \A v \in All : Knows(v)'
               /\ OthersInOrder' /\ NothingLeft' /\ NamesApart' /\ DomainsApart'
    BY <2>4, <2>5, <2>6, TidyAll
  <2> QED
    BY <2>3, <2>4, <2>5, <2>6 DEF OrderInv
<1>3. CASE BootStep
  <2>1. /\ orderly' = (orderly /\ Quiet) /\ shared' = shared /\ forced' = forced /\ Boot
    BY <1>3, Zenon DEF BootStep
  <2>2. UNCHANGED tables /\ Startup \in All
    BY <1>p, <2>1, BootFacts DEF All
  <2>3. SameSlug' => shared'
    BY <2>1, <2>2 DEF OrderInv, SameSlug, tables
  <2>4. \A v \in All \ {Startup} : my'[v] = Idle
    BY <1>p, <2>1, BootFacts DEF All
  <2>5. orderly' => OneAtATime'
    BY <1>i, <2>4 DEF OneAtATime, At
  <2>6. ASSUME orderly', ~shared'
        PROVE  Tidy(Startup)' /\ failed' = {}
    <3>1. Quiet /\ failed = {} /\ Tidy(Startup)
      BY <1>p, <2>1, <2>2, <2>6, AllTidy DEF OrderInv, Quiet
    <3>2. Active = {}
      BY <3>1 DEF Active, Quiet, At, All
    <3>3. failed' = {}
      BY <2>1, <3>1, <3>2 DEF Boot
    <3>4. Tidy(Startup)'
      BY <1>p, <2>1, <3>1, TidyBoot
    <3> QED
      BY <3>3, <3>4
  <2>7. ASSUME orderly', ~shared'
        PROVE  /\ \A v \in All : Knows(v)'
               /\ OthersInOrder' /\ NothingLeft' /\ NamesApart' /\ DomainsApart'
    BY <2>2, <2>4, <2>6, <2>7, TidyAll
  <2> QED
    BY <2>3, <2>5, <2>6, <2>7 DEF OrderInv
<1>4. CASE UNCHANGED vars
  <2>1. /\ UNCHANGED tables /\ my' = my /\ orderly' = orderly /\ shared' = shared
        /\ forced' = forced /\ failed' = failed
    BY <1>4 DEF vars, tables
  <2> QED
    BY <2>1 DEF tables, OrderInv, SameSlug, OneAtATime, At, Knows, Deploys, Apart, Fresh, OthersInOrder,
       InOrder, Rendered, Resolved, Handles, NothingLeft, NamesApart, DomainsApart
<1> QED
  BY <1>1, <1>2, <1>3, <1>4 DEF Next

\* At first there is at most one app, and it is in order.
LEMMA OrderInit == Init => OrderInv
<1> SUFFICES ASSUME Init
             PROVE  OrderInv
  OBVIOUS
<1>1. PICK a \in Apps \cup {NoApp}, s \in Names :
        /\ apps = [b \in Apps |-> IF b = a
                                THEN [there |-> TRUE, name |-> s, slug |-> s, built |-> TRUE,
                                      domains |-> {}]
                                ELSE NoRow]
        /\ box = [n \in Names |-> IF n = s THEN a ELSE NoApp]
        /\ file = [n \in Names |-> IF Paths /\ box[n] # NoApp
                                  THEN [to |-> box[n], domains |-> {}, there |-> TRUE]
                                  ELSE NoFile]
  BY Zenon DEF Init
<1>2. my = [w \in All |-> Idle]
  BY Zenon DEF Init
<1>3. NoRow.there = FALSE
  BY DEF NoRow
<1>4. \A b \in Apps : apps[b].there =>
         /\ b = a /\ apps[b].slug = s /\ apps[b].built = TRUE /\ apps[b].domains = {}
  BY <1>1, <1>3
<1>5. ~SameSlug /\ NamesApart /\ DomainsApart
  BY <1>4 DEF SameSlug, NamesApart, DomainsApart, Apart
<1>6. \A w \in All : my[w] = Idle
  BY <1>2
<1>7. OneAtATime /\ \A w \in All : Knows(w)
  <2>1. Idle.step = "idle"
    BY DEF Idle
  <2> QED
    BY <1>6, <2>1, IdleKnows DEF OneAtATime, At
<1>8. OthersInOrder
  <2> SUFFICES ASSUME NEW b \in Apps, apps[b].there
               PROVE  InOrder(b)
    BY DEF OthersInOrder
  <2>1. b = a /\ apps[b].slug = s /\ apps[b].built = TRUE /\ apps[b].domains = {}
    BY <1>4
  <2>2. box[s] = b /\ b # NoApp
    BY <1>1, <2>1, NothingIsNothing
  <2>3. file[s] = (IF Paths THEN [to |-> b, domains |-> {}, there |-> TRUE] ELSE NoFile)
    BY <1>1, <2>2
  <2> QED
    BY <2>1, <2>2, <2>3 DEF InOrder, Rendered, Resolved, Render
<1>9. NothingLeft
  <2> SUFFICES ASSUME NEW t \in Names, \A b \in Apps : apps[b].there => apps[b].slug # t
               PROVE  box[t] = NoApp /\ file[t] = NoFile
    BY DEF NothingLeft
  <2>1. box[t] = NoApp
    <3>1. CASE t # s \/ a = NoApp
      BY <1>1, <3>1
    <3>2. CASE t = s /\ a \in Apps
      BY <1>1, <3>2
    <3> QED
      BY <3>1, <3>2
  <2> QED
    BY <1>1, <2>1
<1>10. failed = {}
  BY Zenon DEF Init
<1> QED
  BY <1>5, <1>7, <1>8, <1>9, <1>10 DEF OrderInv

\* Any sequence of complete requests and service starts, in which no two apps come
\* to share a slug and no call fails, leaves every app with containers of its own
\* and a Traefik file of exactly its domains, nothing under the slugs of no app,
\* no name twice, and no domain at two apps unless a command put it there.
THEOREM SequencesStayInOrder == Spec => []SequencesKeepOrder
<1>1. Init => OrderInv
  BY OrderInit
<1>2. Placing /\ OrderInv /\ [Next]_vars => OrderInv'
  BY OrderStep
<1>3. OrderInv => SequencesKeepOrder
  <2> SUFFICES ASSUME OrderInv, orderly, Quiet, ~shared
               PROVE  /\ \A a \in Apps : apps[a].there => InOrder(a)
                      /\ NothingLeft /\ NamesApart /\ DomainsApart
    BY DEF SequencesKeepOrder, NothingLeft, NamesApart, DomainsApart, Apart
  <2> QED
    BY DEF OrderInv, OthersInOrder, Handles, Quiet, At, Syncing
<1> QED
  BY <1>1, <1>2, <1>3, SpecPlacing, PTL DEF Spec
=================================================================================
