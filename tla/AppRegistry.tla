------------------------------ MODULE AppRegistry ------------------------------
(***************************************************************************)
(* The apps beside each other: their names, the runtime slugs their        *)
(* containers and Traefik files are called by, and their domains. Requests *)
(* read a row, look at other rows, and write later, in several handlers    *)
(* and processes at a time; a service start goes through all rows.         *)
(* AppLifecycle has the deployment of one app in detail: here it replaces  *)
(* the containers of a slug in one step.                                   *)
(***************************************************************************)
EXTENDS Naturals

CONSTANTS
    Apps,        \* ids
    Names,       \* valid app names; the slugs are names, too
    Domains,     \* valid host names other than the dashboard's
    Workers,     \* handlers and commands at work at the same time
    Startup,     \* the reconciliation of a service start, another worker
    Paths,       \* apps are also reachable under a path of the public host
    NoApp,       \* no app
    NoName,      \* no name
    MaxRequests, \* bound on the requests
    MaxFaults,   \* bound on the calls that fail
    MaxBoots     \* bound on the service starts

ASSUME StartupIsNoRequest == Startup \notin Workers
ASSUME NothingIsNothing == NoApp \notin Apps \cup Workers \cup {Startup} /\ NoName \notin Names
ASSUME PathsIsBoolean == Paths \in BOOLEAN
ASSUME RequestBounds == MaxRequests \in Nat /\ MaxFaults \in Nat /\ MaxBoots \in Nat

VARIABLES
    apps,       \* the rows: apps[a], with the app's rows of app_domains
    error,      \* the apps whose row has the status error
    failed,     \* the apps whose newest operation failed or was interrupted
    box,        \* box[s]: the app whose containers carry the label s
    file,       \* file[s]: the Traefik file <s>.yml
    my,         \* my[w]: what the worker does next, and its variables
    asked, struck, boots,   \* how many requests, failed calls, service starts
    sole,       \* history: who has been alone since it began
    hit,        \* history: the failures it met
    orderly,    \* history: no two requests overlapped, and no call failed
    shared,     \* history: two apps had the same slug
    forced      \* history: a domain was attached by a command

tables == <<apps, box, file>>
marks == <<error, failed>>
vars == <<apps, error, failed, box, file, my, asked, struck, boots, sole, hit, orderly, shared, forced>>

All == Workers \cup {Startup}
NoFile == [to |-> NoApp, domains |-> {}, there |-> FALSE]
NoRow == [there |-> FALSE, name |-> NoName, slug |-> NoName, built |-> FALSE, domains |-> {}]
Idle == [step |-> "idle", kind |-> "none", app |-> NoApp, slug |-> NoName,
         name |-> NoName, built |-> FALSE, domain |-> {}, current |-> {}, read |-> {},
         before |-> {}, file |-> NoFile, left |-> {}]

Files == [to : Apps \cup {NoApp}, domains : SUBSET Domains, there : BOOLEAN]
Kinds == {"none", "create", "redeploy", "attach", "detach", "cli_attach", "cli_detach",
          "rename", "remove", "restart", "startup"}
Steps == {"idle", "check_name", "insert", "update_name", "replace", "owner", "current", "set",
          "sync_read", "sync_write", "restore", "rm_runtime", "rm_route", "rm_row", "pick", "dark"}
Faults == {"none", "database", "runtime", "route", "context"}

TypeOK ==
    /\ apps \in [Apps -> [there : BOOLEAN, name : Names \cup {NoName}, slug : Names \cup {NoName},
                          built : BOOLEAN, domains : SUBSET Domains]]
    /\ \A a \in Apps : /\ apps[a].there <=> apps[a].name # NoName
                      /\ apps[a].there <=> apps[a].slug # NoName
    /\ error \subseteq Apps /\ failed \subseteq Apps
    /\ box \in [Names -> Apps \cup {NoApp}]
    /\ file \in [Names -> Files]
    /\ my \in [All -> [step : Steps, kind : Kinds, app : Apps \cup {NoApp}, slug : Names \cup {NoName},
                       name : Names \cup {NoName}, built : BOOLEAN, domain : SUBSET Domains,
                       current : SUBSET Domains, read : SUBSET Domains,
                       before : SUBSET Domains, file : Files,
                       left : SUBSET [app : Apps, slug : Names, built : BOOLEAN,
                                      error : BOOLEAN]]]
    /\ asked \in 0..MaxRequests /\ struck \in 0..MaxFaults /\ boots \in 0..MaxBoots
    /\ sole \in All \cup {NoApp} /\ hit \subseteq Faults \ {"none"}
    /\ {orderly, shared, forced} \subseteq BOOLEAN

\* No app, or one that was deployed before, under its own name and without
\* domains.
Init ==
    /\ \E a \in Apps \cup {NoApp}, s \in Names :
         /\ apps = [b \in Apps |-> IF b = a
                                 THEN [there |-> TRUE, name |-> s, slug |-> s, built |-> TRUE,
                                       domains |-> {}]
                                 ELSE NoRow]
         /\ box = [n \in Names |-> IF n = s THEN a ELSE NoApp]
         /\ file = [n \in Names |-> IF Paths /\ box[n] # NoApp
                                  THEN [to |-> box[n], domains |-> {}, there |-> TRUE]
                                  ELSE NoFile]
    /\ error = {} /\ failed = {}
    /\ my = [w \in All |-> Idle]
    /\ asked = 0 /\ struck = 0 /\ boots = 0
    /\ sole = NoApp /\ hit = {} /\ orderly = TRUE /\ shared = FALSE /\ forced = FALSE

----------------------------------------------------------------------------
(* Requests                                                                 *)

At(w, step) == my[w].step = step
Go(w, step) == my' = [my EXCEPT ![w].step = step]
End(w) == my' = [my EXCEPT ![w] = Idle]
App(w) == my[w].app
Taken(n) == \E a \in Apps : apps[a].there /\ apps[a].name = n

\* A request finds its app by name and keeps a copy of the row; the domains and
\* the file of the moment are history.
Copy(a, k, step) ==
    [step |-> step, kind |-> k, app |-> a, slug |-> apps[a].slug, name |-> apps[a].name,
     built |-> apps[a].built, domain |-> {}, current |-> {}, read |-> {},
     before |-> apps[a].domains, file |-> file[apps[a].slug], left |-> {}]

Ask(w, request) ==
    /\ At(w, "idle") /\ my' = [my EXCEPT ![w] = request]
    /\ UNCHANGED tables

AskCreate(w) ==
    \E a \in Apps, n \in Names :
        /\ ~apps[a].there /\ ~\E v \in All : App(v) = a
        /\ Ask(w, [Idle EXCEPT !.step = "check_name", !.kind = "create", !.app = a, !.name = n,
                              !.slug = n])

AskRename(w) ==
    \E a \in Apps, n \in Names :
        /\ apps[a].there /\ n # apps[a].name
        /\ Ask(w, [Copy(a, "rename", "check_name") EXCEPT !.name = n])

AskDomain(w) ==
    \E a \in Apps, d \in Domains :
        /\ apps[a].there
        /\ \/ Ask(w, [Copy(a, "attach", "owner") EXCEPT !.domain = {d}])
           \/ Ask(w, [Copy(a, "detach", "current") EXCEPT !.domain = {d}])

\* The commands do not look whose the domain is.
AskCliDomain(w) ==
    \E a \in Apps, d \in Domains, k \in {"cli_attach", "cli_detach"} :
        apps[a].there /\ Ask(w, [Copy(a, k, "current") EXCEPT !.domain = {d}])

\* Its operation is the newest now.
AskRedeploy(w) ==
    \E a \in Apps :
        /\ apps[a].there /\ Ask(w, Copy(a, "redeploy", "replace"))
        /\ failed' = failed \ {a} /\ UNCHANGED error
AskRestart(w) ==
    \E a \in Apps : apps[a].there /\ apps[a].built /\ Ask(w, Copy(a, "restart", "sync_read"))
AskRemove(w) ==
    \E a \in Apps : apps[a].there /\ Ask(w, Copy(a, "remove", "rm_runtime"))

Request(w) ==
    \/ /\ \/ AskCreate(w) \/ AskRename(w) \/ AskDomain(w) \/ AskCliDomain(w)
          \/ AskRestart(w) \/ AskRemove(w)
       /\ UNCHANGED marks
    \/ AskRedeploy(w)

----------------------------------------------------------------------------
(* Names                                                                    *)

\* A name that is in use is refused.
CheckName(w, f) ==
    /\ At(w, "check_name") /\ f = "none"
    /\ IF Taken(my[w].name) THEN End(w)
       ELSE Go(w, IF my[w].kind = "create" THEN "insert" ELSE "update_name")
    /\ UNCHANGED tables

\* Faulty: a row without a slug.
InsertWithoutSlug(w, f) ==
    /\ At(w, "insert") /\ f = "none" /\ ~Taken(my[w].name)
    /\ apps' = [apps EXCEPT ![App(w)] = [NoRow EXCEPT !.there = TRUE, !.name = my[w].name]]
    /\ Go(w, "replace")
    /\ UNCHANGED <<box, file>>

\* The column is unique: the later of two requests fails. The slug is the name
\* the app has now.
Insert(w, f) ==
    /\ At(w, "insert")
    /\ \/ /\ f = "none" /\ ~Taken(my[w].name)
          /\ apps' = [apps EXCEPT ![App(w)] = [there |-> TRUE, name |-> my[w].name,
                          slug |-> my[w].slug, built |-> FALSE, domains |-> {}]]
          /\ Go(w, "replace")
       \/ (f = "database" \/ (f = "none" /\ Taken(my[w].name))) /\ UNCHANGED apps /\ End(w)
    /\ UNCHANGED <<box, file>>

\* Faulty: the slug follows the name.
RenameSlug(w, f) ==
    /\ At(w, "update_name") /\ f = "none" /\ apps[App(w)].there /\ ~Taken(my[w].name)
    /\ apps' = [apps EXCEPT ![App(w)].name = my[w].name, ![App(w)].slug = my[w].name]
    /\ End(w)
    /\ UNCHANGED <<box, file>>

\* The slug stays as it is.
UpdateAppName(w, f) ==
    /\ At(w, "update_name")
    /\ LET refused == ~apps[App(w)].there \/ Taken(my[w].name)
       IN  \/ /\ f = "none" /\ ~refused
              /\ apps' = [apps EXCEPT ![App(w)].name = my[w].name]
           \/ (f = "database" \/ (f = "none" /\ refused)) /\ UNCHANGED apps
    /\ End(w)
    /\ UNCHANGED <<box, file>>

----------------------------------------------------------------------------
(* Domains                                                                  *)

\* The domain is refused if it is another app's; an error of the query is none.
Owner(w, f) ==
    /\ At(w, "owner") /\ f \in {"none", "database"}
    /\ IF f = "none" /\ \E a \in Apps \ {App(w)} : my[w].domain \subseteq apps[a].domains
       THEN End(w) ELSE Go(w, "current")
    /\ UNCHANGED tables

Attaches(w) == my[w].kind \in {"attach", "cli_attach"}

\* The list is read. An error counts as an empty list when a domain is
\* attached, and ends the request when one is detached.
Current(w, f) ==
    LET list == IF f = "none" THEN apps[App(w)].domains ELSE {}
    IN  /\ At(w, "current") /\ f \in {"none", "database"}
        /\ IF IF Attaches(w) THEN my[w].domain \subseteq list ELSE ~(my[w].domain \subseteq list)
           THEN End(w) ELSE my' = [my EXCEPT ![w].step = "set", ![w].current = list]
        /\ UNCHANGED tables

\* The list that was read is written back in one transaction, with or without
\* the domain. It fails if the app is gone; an empty list needs no app.
SetAppDomains(w, f) ==
    LET list == IF Attaches(w) THEN my[w].current \cup my[w].domain
                ELSE my[w].current \ my[w].domain
    IN  /\ At(w, "set")
        /\ \/ f = "none" /\ apps[App(w)].there
              /\ apps' = [apps EXCEPT ![App(w)].domains = list] /\ Go(w, "sync_read")
           \/ f = "none" /\ ~apps[App(w)].there /\ UNCHANGED apps
              /\ IF list = {} THEN Go(w, "sync_read") ELSE End(w)
           \/ f = "database" /\ UNCHANGED apps /\ End(w)
        /\ UNCHANGED <<box, file>>

\* Faulty: the new list stays.
RestoreNothing(w, f) ==
    At(w, "restore") /\ f = "none" /\ End(w) /\ UNCHANGED tables

\* The list as it was, unless it cannot be written either.
Restore(w, f) ==
    /\ At(w, "restore")
    /\ \/ /\ f = "none" /\ apps[App(w)].there
          /\ apps' = [apps EXCEPT ![App(w)].domains = my[w].current]
       \/ (f = "database" \/ (f = "none" /\ ~apps[App(w)].there)) /\ UNCHANGED apps
    /\ End(w)
    /\ UNCHANGED <<box, file>>

----------------------------------------------------------------------------
(* Containers and routes                                                    *)

\* A deployment that fails says so in its operation and in the row, if they are
\* still there.
Deploys(w) == my[w].kind \in {"create", "redeploy"}
Rowed(w) == {a \in {App(w)} : apps[a].there}
MarkFailed(w) == error' = error \cup Rowed(w) /\ failed' = failed \cup Rowed(w)

\* The containers of the slug go, whose ever they are, and the app's come. Or the
\* deployment fails: its containers go and the file is brought in step, or it ends
\* there, the containers untouched or gone, and not always with the row in error.
Replace(w, f) ==
    /\ At(w, "replace")
    /\ \/ /\ f = "none" /\ apps[App(w)].there
          /\ box' = [box EXCEPT ![my[w].slug] = App(w)]
          /\ apps' = [apps EXCEPT ![App(w)].built = TRUE]
          /\ my' = [my EXCEPT ![w].built = TRUE, ![w].step = "sync_read"]
          /\ error' = error \ {App(w)} /\ UNCHANGED failed
       \/ f = "none" /\ ~apps[App(w)].there /\ UNCHANGED <<box, apps, marks>> /\ End(w)
       \/ /\ f = "runtime"
          /\ box' = [box EXCEPT ![my[w].slug] = NoApp]
          /\ UNCHANGED apps /\ Go(w, "sync_read") /\ MarkFailed(w)
       \/ /\ f = "database"
          /\ box' \in {box, [box EXCEPT ![my[w].slug] = NoApp]}
          /\ error' \in {error \ Rowed(w), error \cup Rowed(w)} /\ failed' = failed \cup Rowed(w)
          /\ UNCHANGED apps /\ End(w)
    /\ UNCHANGED file

Publishes(w) == my[w].kind \in {"attach", "detach", "cli_attach", "cli_detach"}

\* What follows a file that could not be brought in step: a change of domains is
\* taken back, a deployment has failed, and the reconciliation goes on.
AfterFailure(w) ==
    /\ IF Publishes(w) THEN Go(w, "restore")
       ELSE IF w = Startup THEN Go(w, "pick") ELSE End(w)
    /\ IF Deploys(w) THEN MarkFailed(w) ELSE UNCHANGED marks
AfterSuccess(w) ==
    /\ IF w = Startup THEN Go(w, "pick") ELSE End(w)
    /\ UNCHANGED marks

\* ResolveForApp: the routes lead to whatever containers carry the slug.
Resolved(s) == box[s]

\* Render: no file if there is no container to lead to, and neither a domain nor
\* a path to reach it by.
Render(to, list) ==
    IF to = NoApp \/ (list = {} /\ ~Paths) THEN NoFile
    ELSE [to |-> to, domains |-> list, there |-> TRUE]

\* The file as it should be for a list of domains.
Rendered(s, list) == Render(Resolved(s), list)

\* When the client has gone the context is over, and nothing is taken back.
SyncRead(w, f) ==
    /\ At(w, "sync_read")
    /\ \/ /\ f = "none"
          /\ my' = [my EXCEPT ![w].step = "sync_write", ![w].read = apps[App(w)].domains]
          /\ UNCHANGED marks
       \/ f = "database" /\ AfterFailure(w)
       \/ f = "context" /\ Publishes(w) /\ End(w) /\ UNCHANGED marks
    /\ UNCHANGED tables

\* SyncRoute and regenerateTraefik. Without a usable compose file there is no
\* route, and that is an error, except for the dashboard with nothing to
\* publish. A deployment removes the file it cannot write.
SyncWrite(w, f) ==
    LET s == my[w].slug
        unusable == ~my[w].built /\ ~(my[w].kind \in {"attach", "detach"} /\ my[w].read = {} /\ ~Paths)
    IN  /\ At(w, "sync_write")
        /\ \/ /\ f = "none" /\ ~unusable
              /\ file' = [file EXCEPT ![s] = Rendered(s, my[w].read)]
              /\ AfterSuccess(w)
           \/ /\ f = "none" /\ unusable
              /\ file' = IF my[w].kind \in {"cli_attach", "cli_detach"} THEN file
                         ELSE [file EXCEPT ![s] = NoFile]
              /\ AfterFailure(w)
           \/ /\ f \in {"route", "runtime"}
              /\ file' = IF Deploys(w) THEN [file EXCEPT ![s] = NoFile] ELSE file
              /\ AfterFailure(w)
           \/ f = "context" /\ Publishes(w) /\ UNCHANGED <<file, marks>> /\ End(w)
        /\ UNCHANGED <<apps, box>>

----------------------------------------------------------------------------
(* Removal                                                                  *)

\* The containers of the slug, its file, and the row with its domains; it gives
\* up at the first error.
RemoveRuntime(w, f) ==
    /\ At(w, "rm_runtime")
    /\ \/ f = "none" /\ box' = [box EXCEPT ![my[w].slug] = NoApp] /\ Go(w, "rm_route")
       \/ f = "runtime" /\ UNCHANGED box /\ End(w)
    /\ UNCHANGED <<apps, file>>

RemoveRoute(w, f) ==
    /\ At(w, "rm_route")
    /\ \/ f = "none" /\ file' = [file EXCEPT ![my[w].slug] = NoFile] /\ Go(w, "rm_row")
       \/ f = "route" /\ UNCHANGED file /\ End(w)
    /\ UNCHANGED <<apps, box>>

DeleteApp(w, f) ==
    /\ At(w, "rm_row")
    /\ \/ /\ f = "none" /\ apps' = [apps EXCEPT ![App(w)] = NoRow]
          /\ error' = error \ {App(w)} /\ failed' = failed \ {App(w)}
       \/ f = "database" /\ UNCHANGED <<apps, marks>>
    /\ End(w)
    /\ UNCHANGED <<box, file>>

----------------------------------------------------------------------------
(* A service start                                                          *)

\* The rows as the reconciliation lists them, when some are in error.
Rows(e) == {[app |-> a, slug |-> apps[a].slug, built |-> apps[a].built, error |-> a \in e] :
               a \in {a \in Apps : apps[a].there}}

\* The apps that are being deployed: their operations are active.
Active == UNION {Rowed(w) : w \in {w \in Workers : Deploys(w) /\
                    my[w].step \in {"replace", "sync_read", "sync_write"}}}

\* The handlers die; the commands would not, but here they are no different.
\* What they deployed is interrupted, and its row is in error.
Boot ==
    /\ boots < MaxBoots
    /\ error' = error \cup Active /\ failed' = failed \cup Active
    /\ my' = [w \in All |-> IF w = Startup
                            THEN [Idle EXCEPT !.kind = "startup", !.step = "pick",
                                              !.left = Rows(error')]
                            ELSE Idle]
    /\ UNCHANGED tables

\* What it knows of the app it comes to.
Visit(r, rest, step) ==
    [step |-> step, kind |-> "startup", app |-> r.app, slug |-> r.slug, name |-> NoName,
     built |-> r.built, domain |-> {}, current |-> {}, read |-> {},
     before |-> {}, file |-> NoFile, left |-> rest]

\* Faulty: every app is published, whatever became of its last deployment.
PickEveryApp(w, f) ==
    /\ At(w, "pick") /\ f = "none"
    /\ \/ my[w].left = {} /\ End(w)
       \/ \E r \in my[w].left : my' = [my EXCEPT ![w] = Visit(r, my[w].left \ {r}, "sync_read")]
    /\ UNCHANGED tables

\* One row after the other. An app without a usable compose file stays dark, and so
\* does one whose row was in error and whose newest operation failed; an error of
\* that query counts as none.
Pick(w, f) ==
    /\ At(w, "pick") /\ f \in {"none", "database"}
    /\ \/ my[w].left = {} /\ f = "none" /\ End(w)
       \/ \E r \in my[w].left :
            LET dark == ~r.built \/ (r.error /\ r.app \in failed /\ f = "none")
            IN  my' = [my EXCEPT ![w] = Visit(r, my[w].left \ {r},
                                             IF dark THEN "dark" ELSE "sync_read")]
    /\ UNCHANGED tables

\* No file may lead to it; an error is only logged.
KeepDark(w, f) ==
    /\ At(w, "dark")
    /\ \/ f = "none" /\ file' = [file EXCEPT ![my[w].slug] = NoFile]
       \/ f = "route" /\ UNCHANGED file
    /\ Go(w, "pick")
    /\ UNCHANGED <<apps, box>>

----------------------------------------------------------------------------
(* All together                                                             *)

Work(w, f) ==
    \/ /\ \/ CheckName(w, f) \/ Insert(w, f) \/ UpdateAppName(w, f)
          \/ Owner(w, f) \/ Current(w, f) \/ SetAppDomains(w, f) \/ Restore(w, f)
          \/ RemoveRuntime(w, f) \/ RemoveRoute(w, f)
          \/ Pick(w, f) \/ KeepDark(w, f)
       /\ UNCHANGED marks
    \/ Replace(w, f) \/ SyncRead(w, f) \/ SyncWrite(w, f) \/ DeleteApp(w, f)

Quiet == \A w \in All : At(w, "idle")
SameSlug == \E a, b \in Apps : a # b /\ apps[a].there /\ apps[b].there /\ apps[a].slug = apps[b].slug

RequestStep(w) ==
    /\ asked < MaxRequests /\ asked' = asked + 1
    /\ Request(w)
    /\ sole' = (IF Quiet THEN w ELSE NoApp) /\ hit' = {}
    /\ orderly' = (orderly /\ Quiet)
    /\ forced' = (forced \/ my'[w].kind = "cli_attach")
    /\ UNCHANGED <<struck, boots, shared>>

WorkStep(w, f) ==
    /\ Work(w, f)
    /\ struck' = IF f = "none" THEN struck ELSE struck + 1
    /\ orderly' = (orderly /\ f = "none")
    /\ sole' = IF sole = w THEN w ELSE NoApp
    /\ hit' = IF sole = w THEN hit \cup ({f} \ {"none"}) ELSE {}
    /\ shared' = (shared \/ SameSlug')
    /\ UNCHANGED <<asked, boots, forced>>

BootStep ==
    /\ Boot
    /\ boots' = boots + 1 /\ sole' = Startup /\ hit' = {} /\ orderly' = (orderly /\ Quiet)
    /\ UNCHANGED <<asked, struck, shared, forced>>

\* What can strike a call: nothing more once the bound is reached.
Striking == IF struck < MaxFaults THEN Faults ELSE {"none"}

Next ==
    \/ \E w \in Workers : RequestStep(w)
    \/ \E w \in All, f \in Striking : WorkStep(w, f)
    \/ BootStep

Spec == Init /\ [][Next]_vars

----------------------------------------------------------------------------
(* Properties                                                               *)

\* What app a should have: its own containers, once built, and the file for them.
InOrder(a) ==
    /\ box[apps[a].slug] = IF apps[a].built THEN a ELSE NoApp
    /\ file[apps[a].slug] = Rendered(apps[a].slug, apps[a].domains)

\* Any sequence of complete requests - creations, renames, changes of domains by
\* the dashboard and by commands, redeployments, removals, service starts - in
\* which no two apps come to share a slug leaves every app with containers of
\* its own and a Traefik file of exactly its domains, nothing under the slugs of
\* no app, no name twice, and no domain at two apps unless a command put it there.
SequencesKeepOrder ==
    orderly /\ Quiet /\ ~shared =>
        /\ \A a \in Apps : apps[a].there => InOrder(a)
        /\ \A s \in Names : (\A a \in Apps : apps[a].there => apps[a].slug # s) =>
              box[s] = NoApp /\ file[s] = NoFile
        /\ \A a, b \in Apps : a # b /\ apps[a].there /\ apps[b].there =>
              /\ apps[a].name # apps[b].name
              /\ forced \/ apps[a].domains \cap apps[b].domains = {}

Ends(w) == ~At(w, "idle") /\ my'[w].step = "idle"

\* A change of domains by a worker that was alone is there in the table and in
\* the app's Traefik file when it ends, or in neither: the domains are what they
\* were, and so is the file, or it is gone if there was no usable compose file.
\* Excepted are a client that goes away and a database that fails.
ChangeIsAllOrNothing ==
    [][\A w \in Workers :
         Ends(w) /\ Publishes(w) /\ sole = w /\ sole' = w /\ hit' \subseteq {"route", "runtime"} =>
             LET s == my[w].slug
                 now == apps'[App(w)].domains
             IN  \/ now = my[w].before /\ file'[s] \in {my[w].file, IF my[w].built THEN my[w].file ELSE NoFile}
                 \/ /\ now = IF Attaches(w) THEN my[w].before \cup my[w].domain
                              ELSE my[w].before \ my[w].domain
                    /\ file'[s] = Rendered(s, now)]_vars

\* The app's row is in error, and so was its newest operation.
Dark(a) == a \in error \cap failed

\* Whatever overlapped, failed and was killed before, a service start that is alone
\* and meets no failure leaves no file of an app whose deployment failed or was
\* interrupted, or that was never built, and brings the file of every other app in
\* step with its row and the containers of its slug.
StartHeals ==
    sole = Startup /\ Quiet /\ hit = {} /\ ~SameSlug =>
        \A a \in Apps : apps[a].there =>
            file[apps[a].slug] = IF Dark(a) \/ ~apps[a].built THEN NoFile
                                 ELSE Rendered(apps[a].slug, apps[a].domains)

\* "The runtime slug is untouched, so containers, routes, images, and domains
\* keep working without a redeploy" (handlers_apps.go:223-225): after any sequence
\* of complete requests, an app that was built has containers of its own.
RenamedAppsKeepTheirContainers ==
    orderly /\ Quiet => \A a \in Apps : apps[a].there /\ apps[a].built => box[apps[a].slug] = a
================================================================================
