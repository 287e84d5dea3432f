-------------------------------- MODULE Runtime --------------------------------
(***************************************************************************)
(* composer.Runtime seen from one app: the containers that carry its       *)
(* label, and what each call can make of them. A call works on one         *)
(* container after the other and stops at the first error, so a failing    *)
(* call has done any part of its work.                                     *)
(***************************************************************************)
EXTENDS Naturals

CONSTANTS
    Releases,   \* release ids of the updates of the app
    Base,       \* what the app was first deployed from, before any update
    Mixed,      \* a set of values written only in part
    None,       \* no release
    N           \* the number of services in the app's compose file

ASSUME NIsPositive == N \in Nat \ {0}
ASSUME NamesDiffer ==
    /\ Base \notin Releases /\ Mixed \notin Releases /\ None \notin Releases
    /\ Base # Mixed /\ Base # None /\ Mixed # None

\* Anything an app can be built from.
Sources == Releases \cup {Base}

\* Whose secrets or storage mappings are in the database.
Versions == Sources \cup {Mixed}

\* The containers of the app: the release they were created from, the secrets
\* baked into their environment, how many exist and how many of them run.
ContainerSets ==
    {c \in [rel : Sources \cup {None}, env : Versions \cup {None},
            made : 0..N, up : 0..N] :
       /\ c.up <= c.made
       /\ c.made = 0 <=> c.rel = None
       /\ c.made = 0 <=> c.env = None}

NoContainers == [rel |-> None, env |-> None, made |-> 0, up |-> 0]

Containers(r, e, m, u) ==
    IF m = 0 THEN NoContainers ELSE [rel |-> r, env |-> e, made |-> m, up |-> u]

\* Runtime.Status compares the running containers with the number of services
\* the compose file it is given declares. Nothing asks whose containers they
\* are, and no containers at all count as stopped.
Status(c, want) ==
    IF c.made = 0 THEN "stopped"
    ELSE IF c.up = want THEN "running"
    ELSE IF c.up = 0 THEN "stopped"
    ELSE "partial"

\* Runtime.Start and Runtime.Stop fail on an app without containers.
CanHandle(c) == c.made > 0
AllStarted(c) == [c EXCEPT !.up = c.made]
AllStopped(c) == [c EXCEPT !.up = 0]
SomeStarted(c) == {[c EXCEPT !.up = u] : u \in c.up..c.made}
SomeStopped(c) == {[c EXCEPT !.up = u] : u \in 0..c.up}

\* Runtime.RemoveContainers stops each container and then removes it; when it
\* fails at one, that one still exists.
SomeRemoved(c) ==
    {c} \cup {d \in {Containers(c.rel, c.env, m, u) : m \in 1..c.made, u \in 0..c.up} :
               d.up <= d.made}

\* Runtime.Activate creates and starts one container per service. A container
\* that exits at once was started all the same.
AllCreated(r, e) == {Containers(r, e, N, u) : u \in 0..N}
SomeCreated(r, e) ==
    {d \in {Containers(r, e, m, u) : m \in 0..N, u \in 0..N} : d.up <= d.made}
================================================================================
