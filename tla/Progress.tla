------------------------------- MODULE Progress -------------------------------
(***************************************************************************)
(* What is shown of the deployments of one app: the checklist and the      *)
(* output kept in the database, read by the page of a deployment, and the  *)
(* output kept in memory, read by the page of the app. The worker of the   *)
(* deployment writes all three; the pages poll them.                       *)
(***************************************************************************)
EXTENDS Integers, Sequences, FiniteSets

CONSTANTS
    PageLimit,   \* lines a request gets from the database: 500
    BufferMax,   \* lines the memory keeps: 500
    MaxJobs,     \* bound on the deployments
    MaxLines,    \* bound on the lines of output
    MaxBefore,   \* bound on the lines in memory from an earlier deployment
    MaxReads     \* bound on the requests of the pages

ASSUME LimitsAreUseful == PageLimit \in Nat \ {0} /\ BufferMax \in Nat \ {0}
ASSUME ProgressBounds == MaxJobs \in Nat /\ MaxLines \in Nat /\ MaxBefore \in Nat /\ MaxReads \in Nat

Plan == <<"validate", "source", "compose", "build", "backup", "stop", "rollback",
          "activate", "verify", "route", "commit">>
Keys == {Plan[i] : i \in DOMAIN Plan}
Pos(key) == CHOOSE i \in DOMAIN Plan : Plan[i] = key
Old == {"backup", "stop", "rollback"}   \* steps that concern an earlier release

\* The stages the deployer announces, under the keys of the checklist.
Key(stage) ==
    CASE stage = "preflight" -> "validate"
      [] stage = "clone"     -> "source"
      [] stage = "deploy"    -> "activate"
      [] OTHER               -> stage
Stages(kind) ==
    CASE kind = "git"      -> <<"clone", "compose", "deploy", "verify", "route">>
      [] kind = "redeploy" -> <<"deploy", "verify", "route">>
      [] kind = "update"   -> <<"preflight", "build", "backup", "deploy", "route">>
      [] kind = "none"     -> <<>>

VARIABLES
    job,       \* the deployment: kind, whether the app had a release, where it is
    status,    \* the row of the operation
    steps,     \* its checklist; NoSteps before there is one
    step,      \* the step the worker takes to be current
    logged,    \* the lines of the operation in the database are 1..logged
    memory,    \* the lines in memory and the last number given
    page,      \* the page of the deployment
    feed,      \* the page of the app; history: whether the number it goes on from is of a
               \* service before the last restart, and the lines it skipped because of that
    jobs, printed, reads,  \* how many deployments, lines of output and requests of pages
    replanned, \* history: a page replaced the checklist of a worker
    between,   \* history: the lines the database got between the two queries of a page
    beyond     \* history: the lines a page left out because of the limit

vars == <<job, status, steps, step, logged, memory, page, feed, jobs, printed, reads,
          replanned, between, beyond>>
history == <<replanned, between, beyond>>

NoSteps == [k \in Keys |-> "none"]
Fresh == [k \in Keys |-> "pending"]
NoJob == [kind |-> "none", had |-> FALSE, at |-> "none", next |-> 1, outcome |-> "none"]
NoPage == [at |-> "closed", seq |-> 0, shown |-> {}, fresh |-> {}, status |-> "none"]
NoFeed == [open |-> FALSE, seq |-> 0, shown |-> {}, stale |-> FALSE, skipped |-> {}]
Following(n) == [open |-> TRUE, seq |-> n, shown |-> 1..n, stale |-> FALSE, skipped |-> {}]

Active == "active"
Outcomes == {"completed", "failed", "rolled_back", "rollback_failed"}
Terminal == Outcomes \cup {"interrupted"}
StepStates == {"none", "pending", "running", "succeeded", "skipped", "failed", "rolled_back"}

TypeOK ==
    /\ job \in [kind : {"none", "git", "redeploy", "update"}, had : BOOLEAN, next : 1..6,
                at : {"none", "claimed", "running", "rolling_back", "returned", "told", "over", "died"},
                outcome : Outcomes \cup {"none"}]
    /\ status \in Terminal \cup {Active, "none"}
    /\ steps \in [Keys -> StepStates] /\ step \in Keys /\ logged \in Nat
    /\ Len(memory.lines) <= memory.seq
    /\ page.at \in {"closed", "plan", "lines", "latest", "waiting", "stopped"}
    /\ page.shown \subseteq 1..logged /\ page.seq \in 0..logged
    /\ feed.shown \subseteq 1..memory.seq /\ feed.skipped \subseteq 1..memory.seq

Init ==
    /\ job = NoJob /\ status = "none" /\ steps = NoSteps /\ step = "validate" /\ logged = 0
    /\ \E before \in 0..MaxBefore :
         /\ memory = [lines |-> [i \in 1..before |-> i], seq |-> before]
         /\ feed \in {NoFeed} \cup {Following(n) : n \in 0..before}
    /\ page = NoPage /\ jobs = 0 /\ printed = 0 /\ reads = 0
    /\ replanned = FALSE /\ between = {} /\ beyond = {}

----------------------------------------------------------------------------
(* Output                                                                   *)

Numbers(s) == {s[i] : i \in DOMAIN s}

\* Faulty: a line without a number of its own.
AppendUnnumbered(m) == [m EXCEPT !.lines = Append(@, m.seq)]

\* A line of output in memory; only here is the buffer cut.
AppendLine(m) ==
    LET all == Append(m.lines, m.seq + 1)
    IN  [lines |-> IF Len(all) > BufferMax THEN SubSeq(all, Len(all) - BufferMax + 1, Len(all))
                   ELSE all,
         seq |-> m.seq + 1]

\* The transition to a stage is a line, too.
StageLine(m) == [lines |-> Append(m.lines, m.seq + 1), seq |-> m.seq + 1]

Reset(m) == [m EXCEPT !.lines = <<>>]

Remember(m) == memory' = m

\* One more line in the database; a page between its two queries has missed it.
Logs(n) ==
    /\ logged' = logged + n
    /\ between' = IF page.at = "latest" THEN between \cup (logged + 1)..(logged + n) ELSE between

----------------------------------------------------------------------------
(* The worker                                                               *)

\* The next operation is claimed: it has no checklist yet. The page of the one
\* before is left aside.
Claim ==
    /\ job.at \in {"none", "over", "died"}
    /\ jobs < MaxJobs /\ jobs' = jobs + 1
    /\ \E kind \in {"git", "redeploy", "update"}, had \in BOOLEAN :
         job' = [NoJob EXCEPT !.kind = kind, !.had = had, !.at = "claimed"]
    /\ status' = Active
    /\ steps' = NoSteps /\ step' = "validate" /\ logged' = 0 /\ page' = NoPage
    /\ replanned' = FALSE /\ between' = {} /\ beyond' = {}
    /\ UNCHANGED <<memory, feed, printed, reads>>

\* deploySinkFor: the memory is emptied, its numbers go on; the checklist is made.
Begin ==
    /\ job.at = "claimed"
    /\ job' = [job EXCEPT !.at = "running"]
    /\ steps' = Fresh /\ step' = "validate"
    /\ Remember(Reset(memory))
    /\ UNCHANGED <<status, logged, page, feed, jobs, printed, reads, replanned, between, beyond>>

Working == job.at \in {"running", "rolling_back"}

\* Faulty: only the step that was current is closed.
AdvancedOne(key) ==
    [steps EXCEPT ![step] = "succeeded", ![key] = "running"]

\* The checklist when a stage begins: what comes before it is done or skipped.
Advanced(key) ==
    [k \in Keys |->
        IF k = key THEN "running"
        ELSE IF Pos(k) < Pos(key)
             THEN IF (k \in Old /\ ~job.had) \/ (k = "rollback" /\ step # "rollback")
                  THEN "skipped" ELSE "succeeded"
        ELSE IF k = step THEN "succeeded" ELSE steps[k]]

Announce(stage) ==
    LET key == Key(stage)
    IN  /\ Remember(StageLine(memory))
        /\ IF key = step THEN UNCHANGED <<steps, step, logged, between>>
           ELSE steps' = Advanced(key) /\ step' = key /\ Logs(1)

Stage ==
    /\ job.at = "running" /\ job.next <= Len(Stages(job.kind))
    /\ Announce(Stages(job.kind)[job.next])
    /\ job' = [job EXCEPT !.next = @ + 1]
    /\ UNCHANGED <<status, page, feed, jobs, printed, reads, replanned, beyond>>

\* An update that fails once the old containers were removed.
Rollback ==
    /\ job.at = "running" /\ job.kind = "update" /\ job.next > 4
    /\ Announce("rollback")
    /\ job' = [job EXCEPT !.at = "rolling_back"]
    /\ UNCHANGED <<status, page, feed, jobs, printed, reads, replanned, beyond>>

Output ==
    /\ Working /\ printed < MaxLines /\ printed' = printed + 1
    /\ Remember(AppendLine(memory)) /\ Logs(1)
    /\ UNCHANGED <<job, status, steps, step, page, feed, jobs, reads, replanned, beyond>>

\* How the deployer may end. The previous release is restored by a rollback, or
\* resumed when its backup fails; the secrets of an update may fail to be restored
\* wherever it fails.
Ends(outcome) ==
    \/ outcome = "completed" /\ job.at = "running" /\ job.next > Len(Stages(job.kind))
    \/ outcome = "failed"
    \/ /\ outcome = "rolled_back" /\ job.kind = "update"
       /\ job.at = "rolling_back" \/ job.next = 4
    \/ outcome = "rollback_failed" /\ job.kind = "update" /\ job.next > 1

\* The deployer finishes the operation before it returns, except when it never
\* took charge of it.
Return ==
    /\ Working
    /\ \E outcome \in Outcomes :
         /\ Ends(outcome)
         /\ job' = [job EXCEPT !.at = "returned", !.outcome = outcome]
         /\ \/ status' = outcome
            \/ outcome = "failed" /\ job.next = 1 /\ UNCHANGED status
    /\ UNCHANGED <<steps, step, logged, memory, page, feed, jobs, printed, reads, history>>

\* progress.success and progress.failure, with the last line.
Closed ==
    LET last == CASE job.outcome = "completed" -> "succeeded"
                  [] status = "rolled_back"    -> "rolled_back"
                  [] OTHER                     -> "failed"
    IN  IF job.outcome = "completed"
        THEN [steps EXCEPT ![step] = last, !["commit"] = last]
        ELSE [steps EXCEPT ![step] = last]

Tell ==
    /\ job.at = "returned"
    /\ job' = [job EXCEPT !.at = "told"]
    /\ steps' = Closed
    /\ step' = IF job.outcome = "completed" THEN "commit" ELSE step
    /\ Remember(AppendLine(memory)) /\ Logs(1)
    /\ UNCHANGED <<status, page, feed, jobs, printed, reads, replanned, beyond>>

\* The wrapper finishes what the deployer did not.
WrapUp ==
    /\ job.at = "told"
    /\ job' = [job EXCEPT !.at = "over"]
    /\ status' = IF status = Active THEN "failed" ELSE status
    /\ UNCHANGED <<steps, step, logged, memory, page, feed, jobs, printed, reads, history>>

\* The service dies and starts again: the memory is gone, its numbers begin anew,
\* and the row is interrupted. The page of the app keeps its number.
Restart ==
    /\ job' = IF job.at \in {"none", "over", "died"} THEN job ELSE [job EXCEPT !.at = "died"]
    /\ status' = IF status = Active THEN "interrupted" ELSE status
    /\ memory' = [lines |-> <<>>, seq |-> 0]
    /\ feed' = [feed EXCEPT !.shown = {}, !.stale = feed.open, !.skipped = {}]
    /\ UNCHANGED <<steps, step, logged, page, jobs, printed, reads, replanned, between, beyond>>

Worker == Begin \/ Stage \/ Rollback \/ Output \/ Return \/ Tell \/ WrapUp

----------------------------------------------------------------------------
(* The page of the deployment                                               *)

\* A request reads the row, then the checklist. Only the page itself, not its
\* polls, makes a checklist where it found none - or where the query failed.
Ask ==
    /\ status # "none" /\ reads < MaxReads /\ reads' = reads + 1
    /\ \/ /\ page.at = "closed"
          /\ \E found \in BOOLEAN :
               /\ found => steps # NoSteps
               /\ page' = [page EXCEPT !.at = IF found THEN "lines" ELSE "plan", !.status = status]
       \/ page.at = "waiting" /\ page' = [page EXCEPT !.at = "lines", !.status = status]
    /\ UNCHANGED <<job, status, steps, step, logged, memory, feed, jobs, printed, history>>

MakePlan ==
    /\ page.at = "plan"
    /\ page' = [page EXCEPT !.at = "lines"]
    /\ steps' = Fresh
    /\ replanned' = (replanned \/ job.at # "claimed")
    /\ UNCHANGED <<job, status, step, logged, memory, feed, jobs, printed, reads, between, beyond>>

\* Faulty: the lines from the second new one on.
ListLinesOffByOne ==
    /\ page.at = "lines"
    /\ page' = [page EXCEPT !.at = "latest", !.fresh = (page.seq + 2)..logged]
    /\ UNCHANGED <<job, status, steps, step, logged, memory, feed, jobs, printed, reads, history>>

\* ListDeployLogs: the first lines after the last number ...
ListLines ==
    LET rest == (page.seq + 1)..logged
        lines == {n \in rest : n <= page.seq + PageLimit}
    IN  /\ page.at = "lines"
        /\ page' = [page EXCEPT !.at = "latest", !.fresh = lines]
        /\ beyond' = beyond \cup (rest \ lines)
        /\ UNCHANGED <<job, status, steps, step, logged, memory, feed, jobs, printed,
                       reads, replanned, between>>

\* ... and, in another query, the last number there is. The page goes on from
\* there, unless the row it read first was final.
Latest ==
    /\ page.at = "latest"
    /\ page' = [page EXCEPT !.at = IF page.status \in Terminal THEN "stopped" ELSE "waiting",
                            !.seq = logged, !.shown = @ \cup page.fresh, !.fresh = {}]
    /\ UNCHANGED <<job, status, steps, step, logged, memory, feed, jobs, printed, reads, history>>

Close ==
    /\ page.at \in {"waiting", "stopped"} /\ page' = NoPage
    /\ between' = {} /\ beyond' = {}
    /\ UNCHANGED <<job, status, steps, step, logged, memory, feed, jobs, printed, reads, replanned>>

----------------------------------------------------------------------------
(* The page of the app                                                      *)

\* Faulty: the lines from a number on.
SinceOffByOne(after) == {n \in Numbers(memory.lines) : n > after + 1}

\* Since: the lines after a number and the last number, under one lock.
Since(after) == {n \in Numbers(memory.lines) : n > after}

\* The page goes on from that number, or from its own if it is 0.
Look ==
    /\ reads < MaxReads /\ reads' = reads + 1
    /\ feed' = [open |-> TRUE, seq |-> IF memory.seq = 0 THEN feed.seq ELSE memory.seq,
                shown |-> feed.shown \cup Since(feed.seq),
                stale |-> feed.stale /\ memory.seq = 0,
                skipped |-> IF feed.stale THEN {n \in 1..memory.seq : n <= feed.seq}
                            ELSE feed.skipped]
    /\ UNCHANGED <<job, status, steps, step, logged, memory, page, jobs, printed, history>>

----------------------------------------------------------------------------

Next ==
    \/ Claim \/ Worker \/ Restart
    \/ Ask \/ MakePlan \/ ListLines \/ Latest \/ Close
    \/ Look

Spec == Init /\ [][Next]_vars

----------------------------------------------------------------------------
(* Properties                                                               *)

Done(k) == steps[k] \in {"succeeded", "skipped", "rolled_back"}

\* deploymentProgress
Percent == (Cardinality({k \in Keys : Done(k)}) * 100) \div Len(Plan)

\* When a deployment is over - the service did not die in it, and no page replaced
\* the checklist - the checklist tells how it ended. It is full if and only if it
\* completed, with the steps that need an earlier release skipped when there was
\* none. Otherwise exactly one step carries the failure, as rolled back or failed
\* like the row: what comes before it is done, and nothing after it has begun, but
\* for the stages a rollback undoes. The previous release is said to be back by the
\* backup or by the rollback only.
ChecklistTellsOutcome ==
    job.at = "over" /\ ~replanned =>
        /\ Percent = 100 <=> status = "completed"
        /\ status = "completed" /\ ~job.had => \A k \in Old : steps[k] = "skipped"
        /\ status # "completed" =>
              \E blamed \in Keys :
                 /\ steps[blamed] = IF status = "rolled_back" THEN "rolled_back" ELSE "failed"
                 /\ status = "rolled_back" => blamed \in {"backup", "rollback"}
                 /\ \A k \in Keys : Pos(k) < Pos(blamed) => steps[k] \in {"succeeded", "skipped"}
                 /\ \A k \in Keys : Pos(k) > Pos(blamed) =>
                       steps[k] = "pending" \/ (blamed = "rollback" /\ steps[k] = "succeeded")

\* Lines in memory up to the number the page of the app goes on from.
Owed == Numbers(memory.lines) \cap 1..feed.seq

\* The page of the app has shown every line up to the number it goes on from,
\* except those that left the memory before it asked - cut off or of an earlier
\* deployment - and those it skipped after a restart, when its number was of the
\* service before.
FeedIsComplete == feed.open /\ ~feed.stale => Owed \subseteq feed.shown \cup feed.skipped

\* "Lines carry a monotonically increasing sequence number so clients can poll
\* incrementally" (buildlog.go:24-25): polling so misses no line in memory.
FeedMissesNothing == feed.open /\ ~feed.stale => Owed \subseteq feed.shown

\* A page of a deployment misses only lines that were written between its two
\* queries, and lines that a request left out because there were too many.
PageMissesOnlyRaces ==
    page.at # "closed" => (1..page.seq) \ page.shown \subseteq between \cup beyond

\* "Use `?after=<seq>` to receive only new output lines" (docs/api.md:67), as the
\* page of a deployment does with the number each answer ends with: the lines
\* up to that number have all been received.
PageMissesNothing == 1..page.seq \subseteq page.shown
================================================================================
