----------------------------- MODULE ProgressProofs -----------------------------
(***************************************************************************)
(* Proofs about Progress for any limits of the page and the memory, any    *)
(* amount of output and any number of requests.                            *)
(***************************************************************************)
EXTENDS Progress, FiniteSetTheorems, SequenceTheorems, TLAPS

----------------------------------------------------------------------------
(* The memory                                                               *)

\* The lines in memory are numbers that have been given.
Memories ==
    {m \in [lines : Seq(Nat), seq : Nat] :
       Len(m.lines) <= m.seq /\ Numbers(m.lines) \subseteq 1..m.seq}

\* The end of a sequence of numbers has as many of them as were asked for.
LEMMA EndOfSequence ==
    ASSUME NEW s \in Seq(Nat), NEW n \in Nat, n < Len(s)
    PROVE  LET end == SubSeq(s, Len(s) - n + 1, Len(s))
           IN  end \in Seq(Nat) /\ Len(end) = n /\ Numbers(end) \subseteq Numbers(s)
<1> DEFINE l == Len(s)
           m == l - n + 1
           end == SubSeq(s, m, l)
<1>1. l \in Nat /\ m \in Int /\ m >= 1 /\ DOMAIN s = 1..l
  OBVIOUS
<1>2. \A i \in m..l : s[i] \in Nat
  BY <1>1
<1>3. /\ end \in Seq(Nat) /\ Len(end) = (IF m <= l THEN l - m + 1 ELSE 0)
      /\ \A i \in 1..(l - m + 1) : end[i] = s[m + i - 1]
  <2> HIDE DEF l, m
  <2> QED
    BY <1>1, <1>2, SubSeqProperties
<1> HIDE DEF end
<1>4. Len(end) = n /\ l - m + 1 = n
  BY <1>1, <1>3
<1>5. DOMAIN end = 1..n
  BY <1>3, <1>4
<1>6. \A i \in 1..n : end[i] = s[m + i - 1] /\ m + i - 1 \in 1..l
  BY <1>1, <1>3, <1>4
<1>7. Numbers(end) \subseteq Numbers(s)
  <2> HIDE DEF l, m
  <2> QED
    BY <1>1, <1>5, <1>6 DEF Numbers
<1> QED
  BY <1>3, <1>4, <1>7 DEF end

\* A line more, however the buffer is cut: one new number, and none from nowhere.
LEMMA AppendLineType ==
    ASSUME NEW m \in Memories
    PROVE  /\ AppendLine(m) \in Memories /\ AppendLine(m).seq = m.seq + 1
           /\ Numbers(AppendLine(m).lines) \subseteq Numbers(m.lines) \cup {m.seq + 1}
<1> DEFINE all == Append(m.lines, m.seq + 1)
           cut == SubSeq(all, Len(all) - BufferMax + 1, Len(all))
           kept == IF Len(all) > BufferMax THEN cut ELSE all
<1>1. m.lines \in Seq(Nat) /\ m.seq \in Nat /\ Len(m.lines) \in Nat /\ BufferMax \in Nat \ {0}
      /\ Len(m.lines) <= m.seq
  BY LimitsAreUseful DEF Memories
<1>2. /\ all \in Seq(Nat) /\ Len(all) = Len(m.lines) + 1
      /\ \A i \in 1..Len(all) : all[i] = IF i <= Len(m.lines) THEN m.lines[i] ELSE m.seq + 1
  BY <1>1
<1>3. Numbers(all) \subseteq Numbers(m.lines) \cup {m.seq + 1}
  BY <1>1, <1>2 DEF Numbers
<1>4. AppendLine(m) = [lines |-> kept, seq |-> m.seq + 1]
  BY DEF AppendLine
<1> HIDE DEF all
<1>5. kept \in Seq(Nat) /\ Len(kept) <= Len(all) /\ Numbers(kept) \subseteq Numbers(all)
  <2>1. CASE Len(all) > BufferMax
    <3>1. cut \in Seq(Nat) /\ Len(cut) = BufferMax /\ Numbers(cut) \subseteq Numbers(all)
      BY <1>1, <1>2, <2>1, EndOfSequence
    <3>2. kept = cut
      BY <2>1, Zenon
    <3>3. Len(all) \in Nat
      BY <1>1, <1>2
    <3> HIDE DEF kept, cut
    <3>4. Len(cut) <= Len(all)
      BY <1>1, <2>1, <3>1, <3>3
    <3> QED
      BY <3>1, <3>2, <3>4, Zenon
  <2>2. CASE ~(Len(all) > BufferMax)
    BY <1>1, <1>2, <2>2
  <2> QED
    BY <2>1, <2>2
<1>6. Numbers(m.lines) \subseteq 1..m.seq
  BY DEF Memories
<1> HIDE DEF kept
<1> QED
  BY <1>1, <1>2, <1>3, <1>4, <1>5, <1>6 DEF Memories

\* The line of a stage is never cut.
LEMMA StageLineType ==
    ASSUME NEW m \in Memories
    PROVE  /\ StageLine(m) \in Memories /\ StageLine(m).seq = m.seq + 1
           /\ Numbers(StageLine(m).lines) \subseteq Numbers(m.lines) \cup {m.seq + 1}
<1> DEFINE all == Append(m.lines, m.seq + 1)
<1>1. m.lines \in Seq(Nat) /\ m.seq \in Nat /\ Len(m.lines) \in Nat /\ Len(m.lines) <= m.seq
      /\ Numbers(m.lines) \subseteq 1..m.seq
  BY DEF Memories
<1>2. /\ all \in Seq(Nat) /\ Len(all) = Len(m.lines) + 1
      /\ \A i \in 1..Len(all) : all[i] = IF i <= Len(m.lines) THEN m.lines[i] ELSE m.seq + 1
  BY <1>1
<1>3. Numbers(all) \subseteq Numbers(m.lines) \cup {m.seq + 1}
  BY <1>1, <1>2 DEF Numbers
<1>4. StageLine(m) = [lines |-> all, seq |-> m.seq + 1]
  BY DEF StageLine
<1> HIDE DEF all
<1> QED
  BY <1>1, <1>2, <1>3, <1>4 DEF Memories

\* An emptied memory goes on counting.
LEMMA ResetType ==
    ASSUME NEW m \in Memories
    PROVE  /\ Reset(m) \in Memories /\ Reset(m).seq = m.seq /\ Numbers(Reset(m).lines) = {}
<1>1. Reset(m) = [lines |-> <<>>, seq |-> m.seq] /\ m.seq \in Nat
  BY DEF Reset, Memories
<1>2. Numbers(<<>>) = {}
  BY DEF Numbers
<1> QED
  BY <1>1, <1>2 DEF Memories

\* A started service remembers nothing.
LEMMA EmptyMemory == [lines |-> <<>>, seq |-> 0] \in Memories
BY DEF Memories, Numbers

\* What an earlier deployment left.
LEMMA EarlierMemory ==
    ASSUME NEW n \in Nat
    PROVE  [lines |-> [i \in 1..n |-> i], seq |-> n] \in Memories
BY DEF Memories, Numbers

----------------------------------------------------------------------------
(* The checklist's plan                                                     *)

\* The steps of a deployment, and where they stand in the plan.
LEMMA PlanFacts ==
    /\ DOMAIN Plan = 1..11 /\ Len(Plan) = 11
    /\ Keys = {"validate", "source", "compose", "build", "backup", "stop", "rollback",
               "activate", "verify", "route", "commit"}
    /\ Pos("validate") = 1 /\ Pos("source") = 2 /\ Pos("compose") = 3 /\ Pos("build") = 4
    /\ Pos("backup") = 5 /\ Pos("stop") = 6 /\ Pos("rollback") = 7 /\ Pos("activate") = 8
    /\ Pos("verify") = 9 /\ Pos("route") = 10 /\ Pos("commit") = 11
<1>1. /\ DOMAIN Plan = 1..11 /\ Len(Plan) = 11
      /\ Plan[1] = "validate" /\ Plan[2] = "source" /\ Plan[3] = "compose" /\ Plan[4] = "build"
      /\ Plan[5] = "backup" /\ Plan[6] = "stop" /\ Plan[7] = "rollback"
      /\ Plan[8] = "activate" /\ Plan[9] = "verify" /\ Plan[10] = "route" /\ Plan[11] = "commit"
  BY DEF Plan
<1>2. \A i \in DOMAIN Plan : i \in 1..11
  BY <1>1
<1>3. \A i \in 1..11 : i = 1 \/ i = 2 \/ i = 3 \/ i = 4 \/ i = 5 \/ i = 6 \/ i = 7 \/ i = 8
                       \/ i = 9 \/ i = 10 \/ i = 11
  OBVIOUS
<1>4. \A i \in 1..11, j \in 1..11 : Plan[i] = Plan[j] => i = j
  BY <1>1, <1>3
<1>5. \A j \in 1..11 : Pos(Plan[j]) = j
  <2> SUFFICES ASSUME NEW j \in 1..11 PROVE Pos(Plan[j]) = j
    OBVIOUS
  <2>1. \E i \in DOMAIN Plan : Plan[i] = Plan[j]
    BY <1>1
  <2>2. Pos(Plan[j]) \in DOMAIN Plan /\ Plan[Pos(Plan[j])] = Plan[j]
    BY <2>1, Zenon DEF Pos
  <2> QED
    BY <1>1, <1>4, <2>2
<1>6. \A k : k \in Keys <=> \E i \in 1..11 : k = Plan[i]
  BY <1>1 DEF Keys
<1>7. Keys = {"validate", "source", "compose", "build", "backup", "stop", "rollback",
              "activate", "verify", "route", "commit"}
  BY <1>1, <1>3, <1>6
<1>8. /\ Pos("validate") = 1 /\ Pos("source") = 2 /\ Pos("compose") = 3 /\ Pos("build") = 4
      /\ Pos("backup") = 5 /\ Pos("stop") = 6 /\ Pos("rollback") = 7 /\ Pos("activate") = 8
      /\ Pos("verify") = 9 /\ Pos("route") = 10 /\ Pos("commit") = 11
  <2>1. /\ Pos(Plan[1]) = 1 /\ Pos(Plan[2]) = 2 /\ Pos(Plan[3]) = 3 /\ Pos(Plan[4]) = 4
        /\ Pos(Plan[5]) = 5 /\ Pos(Plan[6]) = 6 /\ Pos(Plan[7]) = 7 /\ Pos(Plan[8]) = 8
        /\ Pos(Plan[9]) = 9 /\ Pos(Plan[10]) = 10 /\ Pos(Plan[11]) = 11
    BY <1>5
  <2> QED
    BY <1>1, <2>1
<1> QED
  BY <1>1, <1>7, <1>8

\* The stages of a deployment follow the plan; an update's first is the step the
\* checklist begins with, and all end with the route.
LEMMA StageOrder ==
    ASSUME NEW kind \in {"git", "redeploy", "update"}, NEW n \in 1..Len(Stages(kind))
    PROVE  LET key == Key(Stages(kind)[n])
               prev == IF n = 1 THEN "validate" ELSE Key(Stages(kind)[n - 1])
           IN  /\ n \in 1..5
               /\ key \in Keys \ {"rollback", "commit"} /\ prev \in Keys \ {"rollback", "commit"}
               /\ key = prev \/ Pos(prev) < Pos(key)
               /\ n = Len(Stages(kind)) => key = "route"
<1>1. CASE kind = "git"
  <2>1. Stages(kind) = <<"clone", "compose", "deploy", "verify", "route">>
    BY <1>1 DEF Stages
  <2>2. n = 1 \/ n = 2 \/ n = 3 \/ n = 4 \/ n = 5
    BY <2>1
  <2> QED
    BY <2>1, <2>2, PlanFacts DEF Key
<1>2. CASE kind = "redeploy"
  <2>1. Stages(kind) = <<"deploy", "verify", "route">>
    BY <1>2 DEF Stages
  <2>2. n = 1 \/ n = 2 \/ n = 3
    BY <2>1
  <2> QED
    BY <2>1, <2>2, PlanFacts DEF Key
<1>3. CASE kind = "update"
  <2>1. Stages(kind) = <<"preflight", "build", "backup", "deploy", "route">>
    BY <1>3 DEF Stages
  <2>2. n = 1 \/ n = 2 \/ n = 3 \/ n = 4 \/ n = 5
    BY <2>1
  <2> QED
    BY <2>1, <2>2, PlanFacts DEF Key
<1> QED
  BY <1>1, <1>2, <1>3

\* How many stages a deployment has.
LEMMA StagesLength ==
    ASSUME NEW kind \in {"git", "redeploy", "update"}
    PROVE  Len(Stages(kind)) \in 1..5
<1>1. kind = "git" => Stages(kind) = <<"clone", "compose", "deploy", "verify", "route">>
  BY DEF Stages
<1>2. kind = "redeploy" => Stages(kind) = <<"deploy", "verify", "route">>
  BY DEF Stages
<1>3. kind = "update" => Stages(kind) = <<"preflight", "build", "backup", "deploy", "route">>
  BY DEF Stages
<1> QED
  BY <1>1, <1>2, <1>3

----------------------------------------------------------------------------
(* Types                                                                    *)

JobPlaces == {"none", "claimed", "running", "rolling_back", "returned", "told", "over", "died"}

Feeds == [open : BOOLEAN, seq : Nat, shown : SUBSET Nat, stale : BOOLEAN, skipped : SUBSET Nat]

\* The types of everything the invariants below read; a page shows and is about
\* to show lines that exist, and a closed one is as new.
TypeInv ==
    /\ TypeOK
    /\ memory \in Memories
    /\ feed \in Feeds
    /\ ~feed.stale => feed.seq <= memory.seq
    /\ ~feed.open => feed.seq = 0 /\ feed.shown = {} /\ ~feed.stale
    /\ page \in [at : {"closed", "plan", "lines", "latest", "waiting", "stopped"}, seq : Nat,
                 shown : SUBSET Nat, fresh : SUBSET Nat, status : Terminal \cup {Active, "none"}]
    /\ page.fresh \subseteq 1..logged
    /\ job.at # "none" => job.kind # "none"

\* The checklist takes the statuses of the table.
LEMMA AdvancedType ==
    ASSUME TypeOK, NEW key \in Keys
    PROVE  Advanced(key) \in [Keys -> StepStates]
BY DEF TypeOK, Advanced, StepStates

\* So does the one that is closed.
LEMMA ClosedType ==
    ASSUME TypeOK
    PROVE  Closed \in [Keys -> StepStates]
BY DEF TypeOK, Closed, StepStates

\* A stage's announcement.
LEMMA AnnounceType ==
    ASSUME TypeInv, NEW stage, Key(stage) \in Keys, Announce(stage)
    PROVE  /\ memory' \in Memories /\ memory'.seq = memory.seq + 1
           /\ Numbers(memory'.lines) \subseteq Numbers(memory.lines) \cup {memory.seq + 1}
           /\ steps' \in [Keys -> StepStates] /\ step' \in Keys
           /\ logged' \in {logged, logged + 1}
<1>1. memory' = StageLine(memory) /\ memory \in Memories
  BY DEF Announce, Remember, TypeInv
<1>2. \/ steps' = steps /\ step' = step /\ logged' = logged
      \/ steps' = Advanced(Key(stage)) /\ step' = Key(stage) /\ logged' = logged + 1
  BY DEF Announce, Logs
<1>3. /\ memory' \in Memories /\ memory'.seq = memory.seq + 1
      /\ Numbers(memory'.lines) \subseteq Numbers(memory.lines) \cup {memory.seq + 1}
  BY <1>1, StageLineType
<1>4. TypeOK /\ steps \in [Keys -> StepStates] /\ step \in Keys
  BY DEF TypeInv, TypeOK
<1> QED
  BY <1>2, <1>3, <1>4, AdvancedType

\* A claim is of one of the three kinds.
LEMMA ClaimFacts ==
    ASSUME Claim
    PROVE  /\ job.at \in {"none", "over", "died"} /\ status' = Active
           /\ steps' = NoSteps /\ step' = "validate" /\ logged' = 0 /\ page' = NoPage
           /\ replanned' = FALSE /\ between' = {} /\ beyond' = {}
           /\ UNCHANGED <<memory, feed, printed, reads>>
           /\ \E kind \in {"git", "redeploy", "update"}, had \in BOOLEAN :
                job' = [NoJob EXCEPT !.kind = kind, !.had = had, !.at = "claimed"]
BY Zenon DEF Claim

\* A deployer returns with an outcome.
LEMMA ReturnFacts ==
    ASSUME Return
    PROVE  /\ UNCHANGED <<steps, step, logged, memory, page, feed, jobs, printed, reads, history>>
           /\ Working
           /\ \E outcome \in Outcomes :
                /\ Ends(outcome)
                /\ job' = [job EXCEPT !.at = "returned", !.outcome = outcome]
                /\ \/ status' = outcome
                   \/ outcome = "failed" /\ job.next = 1 /\ UNCHANGED status
BY Zenon DEF Return

\* A request reads the row and goes on to the lines or to the checklist.
LEMMA AskFacts ==
    ASSUME Ask
    PROVE  /\ UNCHANGED <<job, status, steps, step, logged, memory, feed, jobs, printed, history>>
           /\ page.at \in {"closed", "waiting"}
           /\ \E at \in {"plan", "lines"} : page' = [page EXCEPT !.at = at, !.status = status]
<1>1. UNCHANGED <<job, status, steps, step, logged, memory, feed, jobs, printed, history>>
  BY Zenon DEF Ask
<1>2. \/ page.at = "closed" /\ \E found \in BOOLEAN :
            page' = [page EXCEPT !.at = IF found THEN "lines" ELSE "plan", !.status = status]
      \/ page.at = "waiting" /\ page' = [page EXCEPT !.at = "lines", !.status = status]
  BY Zenon DEF Ask
<1>3. ASSUME NEW found \in BOOLEAN,
             page' = [page EXCEPT !.at = IF found THEN "lines" ELSE "plan", !.status = status]
      PROVE  \E at \in {"plan", "lines"} : page' = [page EXCEPT !.at = at, !.status = status]
  BY <1>3, Zenon
<1> QED
  BY <1>1, <1>2, <1>3, Zenon

\* Lines are only added, to the memory and to the database, or the memory is
\* emptied, and forgotten together with the page that reads it.
LEMMA LinesStep ==
    ASSUME TypeInv, [Next]_vars
    PROVE  /\ memory' \in Memories /\ logged' \in Nat /\ (Claim \/ logged <= logged')
           /\ \/ UNCHANGED memory
              \/ /\ memory'.seq = memory.seq + 1 /\ feed' = feed
                 /\ Numbers(memory'.lines) \subseteq Numbers(memory.lines) \cup {memory.seq + 1}
              \/ memory'.seq = memory.seq /\ Numbers(memory'.lines) = {} /\ feed' = feed
              \/ Restart
           /\ Claim \/ logged' = logged \/ page' = page
           /\ steps' \in [Keys -> StepStates] /\ step' \in Keys
<1>0. memory \in Memories /\ logged \in Nat /\ steps \in [Keys -> StepStates] /\ step \in Keys
      /\ Fresh \in [Keys -> StepStates] /\ "validate" \in Keys /\ "commit" \in Keys
      /\ "rollback" \in Keys
  BY PlanFacts DEF TypeInv, TypeOK, Fresh, StepStates
<1>1. CASE Claim
  <2>1. steps' = NoSteps /\ step' = "validate" /\ logged' = 0 /\ memory' = memory
    BY <1>1, ClaimFacts, Zenon
  <2> QED
    BY <1>0, <1>1, <2>1 DEF NoSteps, StepStates
<1>9. CASE Return \/ Ask
  <2>1. UNCHANGED <<steps, step, logged, memory>>
    BY <1>9, ReturnFacts, AskFacts, Zenon
  <2> QED
    BY <1>0, <2>1
<1>10. CASE WrapUp \/ ListLines \/ Latest \/ Close \/ Look \/ UNCHANGED vars
  BY <1>0, <1>10 DEF WrapUp, ListLines, Latest, Close, Look, vars
<1>2. CASE Begin
  BY <1>0, <1>2, ResetType DEF Begin, Remember
<1>3. CASE Stage
  <2>1. Key(Stages(job.kind)[job.next]) \in Keys
    <3>1. job.kind \in {"git", "redeploy", "update"} /\ job.next \in 1..6
          /\ job.next <= Len(Stages(job.kind))
      BY <1>3 DEF Stage, TypeInv, TypeOK
    <3>2. Len(Stages(job.kind)) \in 1..5
      BY <3>1, StagesLength
    <3>3. job.next \in 1..Len(Stages(job.kind))
      BY <3>1, <3>2
    <3> QED
      BY <3>1, <3>3, StageOrder
  <2>2. Announce(Stages(job.kind)[job.next]) /\ UNCHANGED <<page, feed>>
    BY <1>3 DEF Stage
  <2> QED
    BY <1>0, <2>1, <2>2, AnnounceType
<1>4. CASE Rollback
  <2>1. Key("rollback") \in Keys
    BY <1>0 DEF Key
  <2>2. Announce("rollback") /\ UNCHANGED <<page, feed>>
    BY <1>4 DEF Rollback
  <2> QED
    BY <1>0, <2>1, <2>2, AnnounceType
<1>5. CASE Output
  BY <1>0, <1>5, AppendLineType DEF Output, Remember, Logs
<1>6. CASE Tell
  <2>1. /\ steps' = Closed /\ Remember(AppendLine(memory)) /\ Logs(1) /\ UNCHANGED <<page, feed>>
        /\ step' = (IF job.outcome = "completed" THEN "commit" ELSE step)
    BY <1>6 DEF Tell
  <2>2. Closed \in [Keys -> StepStates]
    BY ClosedType DEF TypeInv
  <2> QED
    BY <1>0, <2>1, <2>2, AppendLineType DEF Remember, Logs
<1>7. CASE Restart
  BY <1>0, <1>7, EmptyMemory DEF Restart
<1>8. CASE MakePlan
  BY <1>0, <1>8 DEF MakePlan
<1> QED
  BY <1>1, <1>2, <1>3, <1>4, <1>5, <1>6, <1>7, <1>8, <1>9, <1>10
     DEF Next, Worker

\* The job's own record.
LEMMA JobStep ==
    ASSUME TypeInv, [Next]_vars
    PROVE  /\ job' \in [kind : {"none", "git", "redeploy", "update"}, had : BOOLEAN,
                        next : 1..6, at : JobPlaces, outcome : Outcomes \cup {"none"}]
           /\ job'.at # "none" => job'.kind # "none"
           /\ status' \in Terminal \cup {Active, "none"}
<1> DEFINE Jobs == [kind : {"none", "git", "redeploy", "update"}, had : BOOLEAN,
                    next : 1..6, at : JobPlaces, outcome : Outcomes \cup {"none"}]
<1> USE DEF JobPlaces
<1>0. /\ job \in Jobs /\ (job.at # "none" => job.kind # "none")
      /\ status \in Terminal \cup {Active, "none"}
      /\ Outcomes \subseteq Terminal /\ {"failed", "interrupted"} \subseteq Terminal
  BY DEF TypeInv, TypeOK, Terminal, Outcomes
<1>1. CASE Claim
  <2>1. PICK kind \in {"git", "redeploy", "update"}, had \in BOOLEAN :
          job' = [NoJob EXCEPT !.kind = kind, !.had = had, !.at = "claimed"] /\ status' = Active
    BY <1>1, ClaimFacts, Zenon
  <2>2. job' = [kind |-> kind, had |-> had, at |-> "claimed", next |-> 1, outcome |-> "none"]
    BY <2>1 DEF NoJob
  <2> QED
    BY <2>1, <2>2
<1>2. CASE Return
  <2>1. PICK outcome \in Outcomes :
          /\ job' = [job EXCEPT !.at = "returned", !.outcome = outcome]
          /\ status' = outcome \/ UNCHANGED status
    BY <1>2, ReturnFacts, Zenon
  <2> DEFINE mid == [job EXCEPT !.at = "returned"]
  <2>2. mid \in Jobs /\ (mid.kind = job.kind) /\ mid.at = "returned"
    BY <1>0
  <2>3. job' = [mid EXCEPT !.outcome = outcome]
    BY <2>1
  <2> HIDE DEF mid
  <2>4. job' \in Jobs /\ job'.kind = mid.kind
    BY <2>2, <2>3
  <2>5. job.at # "none"
    BY <1>2, ReturnFacts, Zenon DEF Working
  <2> QED
    BY <1>0, <2>1, <2>2, <2>4, <2>5
<1>3. CASE Stage
  <2>1. job.kind \in {"git", "redeploy", "update"} /\ job.next \in 1..6
        /\ job.next <= Len(Stages(job.kind)) /\ job.at = "running"
        /\ job' = [job EXCEPT !.next = @ + 1] /\ status' = status
    BY <1>0, <1>3 DEF Stage
  <2>2. Len(Stages(job.kind)) \in 1..5
    BY <2>1, StagesLength
  <2>3. job.next + 1 \in 1..6
    <3> DEFINE n == job.next
               l == Len(Stages(job.kind))
    <3>1. n \in 1..6 /\ l \in 1..5 /\ n <= l
      BY <2>1, <2>2
    <3> HIDE DEF n, l
    <3>2. n + 1 \in 1..6
      BY <3>1
    <3> QED
      BY <3>2 DEF n
  <2> QED
    BY <1>0, <2>1, <2>3
<1>4. CASE Begin \/ Rollback \/ Tell
  BY <1>0, <1>4 DEF Begin, Rollback, Tell
<1>5. CASE WrapUp \/ Restart
  BY <1>0, <1>5 DEF WrapUp, Restart
<1>6. CASE Ask
  <2>1. UNCHANGED <<job, status>>
    BY <1>6, AskFacts, Zenon
  <2> QED
    BY <1>0, <2>1
<1>7. CASE Output \/ MakePlan \/ ListLines \/ Latest \/ Close \/ Look \/ UNCHANGED vars
  BY <1>0, <1>7 DEF Output, MakePlan, ListLines, Latest, Close, Look, vars
<1> QED
  BY <1>1, <1>2, <1>3, <1>4, <1>5, <1>6, <1>7 DEF Next, Worker

\* Only its own requests, and a restart, change the page of the app.
LEMMA FeedStays ==
    ASSUME [Next]_vars, ~Restart, ~Look
    PROVE  feed' = feed
<1>1. CASE Claim \/ Return \/ Ask
  BY <1>1, ClaimFacts, ReturnFacts, AskFacts, Zenon
<1>2. CASE Begin \/ Stage \/ Rollback \/ Output \/ Tell \/ WrapUp
  BY <1>2 DEF Begin, Stage, Rollback, Output, Tell, WrapUp
<1>3. CASE MakePlan \/ ListLines \/ Latest \/ Close \/ UNCHANGED vars
  BY <1>3 DEF MakePlan, ListLines, Latest, Close, vars
<1> QED
  BY <1>1, <1>2, <1>3 DEF Next, Worker

\* What changes the page of the deployment, and what it leaves alone.
LEMMA PageStays ==
    ASSUME TypeInv, [Next]_vars
    PROVE  \/ Ask \/ MakePlan \/ Close \/ ListLines \/ Latest \/ Claim
           \/ /\ page' = page /\ beyond' = beyond
              /\ between' = IF page.at = "latest" THEN between \cup (logged + 1)..logged'
                            ELSE between
<1>0. logged \in Nat /\ (logged + 1)..logged = {}
  BY DEF TypeInv, TypeOK
<1>1. CASE Return
  <2>1. UNCHANGED <<logged, page, between, beyond>>
    BY <1>1, ReturnFacts, Zenon DEF history
  <2> QED
    BY <1>0, <2>1
<1>2. CASE Begin \/ WrapUp \/ Restart \/ Look \/ UNCHANGED vars
  BY <1>0, <1>2 DEF Begin, WrapUp, Restart, Look, history, vars
<1>3. CASE Output \/ Tell
  BY <1>0, <1>3 DEF Output, Tell, Logs
<1>4. CASE Stage \/ Rollback
  <2>1. PICK stage : Announce(stage) /\ UNCHANGED <<page, beyond>>
    BY <1>4 DEF Stage, Rollback
  <2>2. \/ UNCHANGED <<logged, between>>
        \/ Logs(1)
    BY <2>1 DEF Announce
  <2> QED
    BY <1>0, <2>1, <2>2 DEF Logs
<1> QED
  BY <1>1, <1>2, <1>3, <1>4 DEF Next, Worker

\* What is known of the page of the app.
FeedOK ==
    /\ feed \in Feeds /\ feed.shown \subseteq 1..memory.seq /\ feed.skipped \subseteq 1..memory.seq
    /\ ~feed.stale => feed.seq <= memory.seq
    /\ ~feed.open => feed.seq = 0 /\ feed.shown = {} /\ ~feed.stale

\* An answer to the page of the app.
LEMMA LookFacts ==
    ASSUME TypeInv, Look
    PROVE  /\ memory' = memory /\ feed' \in Feeds /\ feed'.open = TRUE
           /\ feed'.seq = IF memory.seq = 0 THEN feed.seq ELSE memory.seq
           /\ feed'.shown = feed.shown \cup {n \in Numbers(memory.lines) : n > feed.seq}
           /\ feed'.stale <=> feed.stale /\ memory.seq = 0
           /\ feed'.skipped = IF feed.stale THEN {n \in 1..memory.seq : n <= feed.seq}
                              ELSE feed.skipped
<1> DEFINE old == feed.stale /\ memory.seq = 0
           next == IF memory.seq = 0 THEN feed.seq ELSE memory.seq
           lines == feed.shown \cup Since(feed.seq)
           past == IF feed.stale THEN {n \in 1..memory.seq : n <= feed.seq} ELSE feed.skipped
<1>1. /\ memory' = memory
      /\ feed' = [open |-> TRUE, seq |-> next, shown |-> lines, stale |-> old, skipped |-> past]
  BY Zenon DEF Look
<1>2. old \in BOOLEAN
  BY Zenon
<1>3. /\ next \in Nat /\ past \in SUBSET Nat /\ lines \in SUBSET Nat
      /\ lines = feed.shown \cup {n \in Numbers(memory.lines) : n > feed.seq}
  BY DEF TypeInv, Feeds, Memories, Since
<1>4. PICK o : o = old
  OBVIOUS
<1>5. feed' = [open |-> TRUE, seq |-> next, shown |-> lines, stale |-> o, skipped |-> past]
  BY <1>1, <1>4, Zenon
<1>6. o \in BOOLEAN /\ (o <=> feed.stale /\ memory.seq = 0)
  BY <1>2, <1>4, Zenon
<1> HIDE DEF next, lines, old, past
<1>7. /\ feed' \in Feeds /\ feed'.open = TRUE /\ feed'.seq = next /\ feed'.shown = lines
      /\ feed'.stale = o /\ feed'.skipped = past
  BY <1>3, <1>5, <1>6 DEF Feeds
<1> QED
  BY <1>1, <1>3, <1>6, <1>7 DEF next, past

\* A restart leaves the page of the app its number.
LEMMA RestartFacts ==
    ASSUME TypeInv, Restart
    PROVE  /\ memory'.seq = 0 /\ Numbers(memory'.lines) = {} /\ feed' \in Feeds
           /\ feed'.open = feed.open /\ feed'.seq = feed.seq /\ feed'.shown = {}
           /\ (feed'.stale <=> feed.open) /\ feed'.skipped = {}
<1>1. feed' = [feed EXCEPT !.shown = {}, !.stale = feed.open, !.skipped = {}]
  BY DEF Restart
<1>2. feed \in Feeds
  BY DEF TypeInv
<1>3. memory'.seq = 0 /\ Numbers(memory'.lines) = {}
  BY DEF Restart, Numbers
<1> QED
  BY <1>1, <1>2, <1>3 DEF Feeds

\* Its number is one that was given, except after a restart.
LEMMA FeedOKStep ==
    ASSUME TypeInv, [Next]_vars
    PROVE  FeedOK'
<1>0. /\ memory.seq \in Nat /\ memory'.seq \in Nat /\ FeedOK
      /\ Numbers(memory.lines) \subseteq 1..memory.seq
  BY LinesStep DEF TypeInv, TypeOK, Memories, FeedOK
<1>1. CASE Restart
  BY <1>0, <1>1, RestartFacts DEF FeedOK
<1>2. CASE Look
  <2>1. /\ memory' = memory /\ feed' \in Feeds /\ feed'.open = TRUE
        /\ feed'.seq = IF memory.seq = 0 THEN feed.seq ELSE memory.seq
        /\ feed'.shown = feed.shown \cup {n \in Numbers(memory.lines) : n > feed.seq}
        /\ feed'.stale <=> feed.stale /\ memory.seq = 0
        /\ feed'.skipped = IF feed.stale THEN {n \in 1..memory.seq : n <= feed.seq}
                           ELSE feed.skipped
    BY <1>2, LookFacts
  <2>2. feed'.shown \subseteq 1..memory'.seq /\ feed'.skipped \subseteq 1..memory'.seq
    BY <1>0, <2>1 DEF FeedOK
  <2>3. ~feed'.stale => feed'.seq <= memory'.seq
    BY <1>0, <2>1 DEF FeedOK
  <2> QED
    BY <2>1, <2>2, <2>3 DEF FeedOK
<1>3. CASE ~Restart /\ ~Look
  <2>1. feed' = feed
    BY <1>3, FeedStays
  <2>2. memory.seq <= memory'.seq
    BY <1>0, <1>3, LinesStep
  <2> QED
    BY <1>0, <2>1, <2>2 DEF FeedOK, Feeds
<1> QED
  BY <1>1, <1>2, <1>3

\* What the pages keep.
LEMMA PagesStep ==
    ASSUME TypeInv, [Next]_vars
    PROVE  /\ FeedOK'
           /\ page' \in [at : {"closed", "plan", "lines", "latest", "waiting", "stopped"},
                         seq : Nat, shown : SUBSET Nat, fresh : SUBSET Nat,
                         status : Terminal \cup {Active, "none"}]
           /\ page'.fresh \subseteq 1..logged' /\ page'.shown \subseteq 1..logged'
           /\ page'.seq \in 0..logged'
<1> DEFINE Pages == [at : {"closed", "plan", "lines", "latest", "waiting", "stopped"},
                     seq : Nat, shown : SUBSET Nat, fresh : SUBSET Nat,
                     status : Terminal \cup {Active, "none"}]
<1>0. /\ logged \in Nat /\ logged' \in Nat /\ (Claim \/ logged <= logged')
      /\ (Claim \/ logged' = logged \/ page' = page)
  BY LinesStep DEF TypeInv, TypeOK
<1>f. /\ page \in Pages /\ page.fresh \subseteq 1..logged /\ page.shown \subseteq 1..logged
      /\ page.seq \in 0..logged /\ status \in Terminal \cup {Active, "none"}
  BY DEF TypeInv, TypeOK
<1>1. FeedOK'
  BY FeedOKStep
<1>2. /\ page' \in Pages /\ page'.fresh \subseteq 1..logged' /\ page'.shown \subseteq 1..logged'
      /\ page'.seq \in 0..logged'
  <2>1. CASE page' = page /\ ~Claim
    BY <1>0, <1>f, <2>1
  <2>7. CASE Claim
    <3>1. page' = NoPage /\ logged' = 0
      BY <2>7, ClaimFacts, Zenon
    <3> QED
      BY <3>1 DEF NoPage
  <2>2. CASE Ask
    <3>0. logged' = logged
      BY <2>2, AskFacts, Zenon
    <3>1. PICK at \in {"plan", "lines"} : page' = [page EXCEPT !.at = at, !.status = status]
      BY <2>2, AskFacts, Zenon
    <3>2. /\ page' \in Pages /\ page'.fresh = page.fresh /\ page'.shown = page.shown
          /\ page'.seq = page.seq
      BY <1>f, <3>1
    <3> QED
      BY <1>f, <3>0, <3>2
  <2>3. CASE MakePlan \/ Close
    BY <1>0, <1>f, <2>3 DEF MakePlan, Close, NoPage
  <2>4. CASE ListLines
    <3>1. PICK lines \in SUBSET ((page.seq + 1)..logged) :
            page' = [page EXCEPT !.at = "latest", !.fresh = lines] /\ logged' = logged
      <4> DEFINE first == {n \in (page.seq + 1)..logged : n <= page.seq + PageLimit}
      <4>1. page' = [page EXCEPT !.at = "latest", !.fresh = first] /\ logged' = logged
        BY <2>4, Zenon DEF ListLines
      <4>2. first \in SUBSET ((page.seq + 1)..logged)
        OBVIOUS
      <4> HIDE DEF first
      <4> QED
        BY <4>1, <4>2, Zenon
    <3>2. lines \in SUBSET Nat /\ lines \subseteq 1..logged
      BY <1>0, <1>f
    <3>3. /\ page' \in Pages /\ page'.fresh = lines /\ page'.shown = page.shown
          /\ page'.seq = page.seq
      BY <1>f, <3>1, <3>2
    <3> QED
      BY <1>0, <1>f, <3>1, <3>2, <3>3
  <2>5. CASE Latest
    <3>1. PICK at \in {"stopped", "waiting"} :
            /\ page' = [page EXCEPT !.at = at, !.seq = logged, !.shown = @ \cup page.fresh,
                                    !.fresh = {}]
            /\ logged' = logged
      BY <2>5, Zenon DEF Latest
    <3>2. page.shown \cup page.fresh \in SUBSET Nat
      BY <1>f
    <3>3. /\ page' \in Pages /\ page'.fresh = {} /\ page'.shown = page.shown \cup page.fresh
          /\ page'.seq = logged
      BY <1>0, <1>f, <3>1, <3>2
    <3> QED
      BY <1>0, <1>f, <3>1, <3>3
  <2>6. Ask \/ MakePlan \/ Close \/ ListLines \/ Latest \/ Claim \/ page' = page
    BY PageStays
  <2> QED
    BY <2>1, <2>2, <2>3, <2>4, <2>5, <2>6, <2>7
<1> QED
  BY <1>1, <1>2

\* All together.
LEMMA TypeStep ==
    ASSUME TypeInv, [Next]_vars
    PROVE  TypeInv'
<1>1. memory' \in Memories => Len(memory'.lines) <= memory'.seq
  BY DEF Memories
<1> QED
  BY <1>1, LinesStep, JobStep, PagesStep DEF TypeInv, TypeOK, FeedOK, JobPlaces

\* Every start.
LEMMA InitType == Init => TypeInv
<1> SUFFICES ASSUME Init PROVE TypeInv
  OBVIOUS
<1>1. PICK n \in 0..MaxBefore :
        /\ memory = [lines |-> [i \in 1..n |-> i], seq |-> n]
        /\ feed \in {NoFeed} \cup {Following(m) : m \in 0..n}
  BY Zenon DEF Init
<1>2. n \in Nat /\ memory.seq = n
  BY <1>1, ProgressBounds
<1>3. memory \in Memories /\ Len(memory.lines) <= memory.seq
  BY <1>1, <1>2, EarlierMemory DEF Memories
<1>4. FeedOK
  <2>1. CASE feed = NoFeed
    BY <1>2, <2>1 DEF NoFeed, FeedOK, Feeds
  <2>2. CASE \E m \in 0..n : feed = Following(m)
    <3>1. PICK m \in 0..n : feed = Following(m)
      BY <2>2
    <3>2. feed = [open |-> TRUE, seq |-> m, shown |-> 1..m, stale |-> FALSE, skipped |-> {}]
      BY <3>1 DEF Following
    <3> QED
      BY <1>2, <3>2 DEF FeedOK, Feeds
  <2> QED
    BY <1>1, <2>1, <2>2
<1>5. /\ job = NoJob /\ status = "none" /\ steps = NoSteps /\ step = "validate" /\ logged = 0
      /\ page = NoPage
  BY DEF Init
<1>6. steps \in [Keys -> StepStates] /\ step \in Keys
  BY <1>5, PlanFacts DEF NoSteps, StepStates
<1>7. /\ page \in [at : {"closed", "plan", "lines", "latest", "waiting", "stopped"}, seq : Nat,
                   shown : SUBSET Nat, fresh : SUBSET Nat, status : Terminal \cup {Active, "none"}]
      /\ page.fresh \subseteq 1..logged /\ page.shown \subseteq 1..logged /\ page.seq \in 0..logged
  BY <1>5 DEF NoPage
<1> QED
  BY <1>3, <1>4, <1>5, <1>6, <1>7 DEF TypeInv, TypeOK, FeedOK, NoJob

\* The types hold, however much is printed and asked.
THEOREM ProgressTypeOK == Spec => []TypeOK
<1>1. TypeInv /\ [Next]_vars => TypeInv'
  BY TypeStep
<1>2. TypeInv => TypeOK
  BY DEF TypeInv
<1> QED
  BY InitType, <1>1, <1>2, PTL DEF Spec

----------------------------------------------------------------------------
(* The pages                                                                *)

\* Showing the lines up to a number lasts: later lines have later numbers.
LEMMA FeedStep ==
    ASSUME TypeInv, FeedIsComplete, [Next]_vars
    PROVE  FeedIsComplete'
<1>0. /\ memory.seq \in Nat /\ feed \in Feeds /\ (~feed.stale => feed.seq <= memory.seq)
      /\ Numbers(memory.lines) \subseteq 1..memory.seq
      /\ ~feed.open => feed.seq = 0 /\ ~feed.stale
  BY DEF TypeInv, Memories
<1>1. CASE Restart
  BY <1>0, <1>1, RestartFacts DEF FeedIsComplete
<1>2. CASE Look
  <2> SUFFICES ASSUME ~feed'.stale, NEW n \in Numbers(memory.lines), n \in 1..feed'.seq
               PROVE  n \in feed'.shown \cup feed'.skipped
    BY <1>2, LookFacts DEF FeedIsComplete, Owed
  <2>1. n \in 1..memory.seq /\ feed.seq \in Nat /\ memory.seq # 0
    BY <1>0 DEF Feeds
  <2>2. CASE feed.stale
    BY <1>2, <2>1, <2>2, LookFacts
  <2>3. CASE ~feed.stale /\ feed.open
    <3>1. n <= feed.seq => n \in feed.shown \cup feed.skipped
      BY <2>1, <2>3 DEF FeedIsComplete, Owed
    <3> QED
      BY <1>2, <2>1, <2>3, <3>1, LookFacts
  <2>4. CASE ~feed.open
    BY <1>0, <1>2, <2>1, <2>4, LookFacts
  <2> QED
    BY <2>2, <2>3, <2>4
<1>3. CASE ~Restart /\ ~Look
  <2>1. feed' = feed
    BY <1>3, FeedStays
  <2>2. Numbers(memory'.lines) \subseteq Numbers(memory.lines) \cup {memory.seq + 1}
    BY <1>3, LinesStep
  <2> QED
    BY <1>0, <2>1, <2>2 DEF FeedIsComplete, Owed, Feeds
<1> QED
  BY <1>1, <1>2, <1>3

\* The page of the app has shown every line up to the number it goes on from,
\* except those that had left the memory and those it skipped after a restart,
\* whatever the size of the buffer and however many deployments and restarts.
THEOREM FeedShowsWhatIsKept == Spec => []FeedIsComplete
<1>1. Init => FeedIsComplete
  <2> SUFFICES ASSUME Init PROVE FeedIsComplete
    OBVIOUS
  <2>1. PICK n \in 0..MaxBefore :
          feed \in {NoFeed} \cup {Following(m) : m \in 0..n}
    BY Zenon DEF Init
  <2>2. CASE feed = NoFeed
    BY <2>2 DEF NoFeed, FeedIsComplete
  <2>3. CASE \E m \in 0..n : feed = Following(m)
    <3>1. PICK m \in 0..n : feed = Following(m)
      BY <2>3
    <3>2. feed = [open |-> TRUE, seq |-> m, shown |-> 1..m, stale |-> FALSE, skipped |-> {}]
      BY <3>1 DEF Following
    <3> QED
      BY <3>2 DEF FeedIsComplete, Owed
  <2> QED
    BY <2>1, <2>2, <2>3
<1>2. TypeInv /\ FeedIsComplete /\ [Next]_vars => TypeInv' /\ FeedIsComplete'
  BY TypeStep, FeedStep
<1> QED
  BY InitType, <1>1, <1>2, PTL DEF Spec

\* What a page has not shown of what it has passed, and what it is about to pass
\* without showing it, is written down in the two histories.
PageInv ==
    /\ PageMissesOnlyRaces
    /\ page.at = "latest" => (page.seq + 1)..logged \subseteq page.fresh \cup between \cup beyond
    /\ page.at = "closed" => page.seq = 0

LEMMA PageInvStep ==
    ASSUME TypeInv, PageInv, [Next]_vars
    PROVE  PageInv'
<1>0. /\ logged \in Nat /\ logged' \in Nat /\ page.seq \in 0..logged
      /\ page \in [at : {"closed", "plan", "lines", "latest", "waiting", "stopped"}, seq : Nat,
                   shown : SUBSET Nat, fresh : SUBSET Nat, status : Terminal \cup {Active, "none"}]
  BY LinesStep DEF TypeInv, TypeOK
<1>1. CASE Ask
  <2>1. PICK at \in {"plan", "lines"} : page' = [page EXCEPT !.at = at, !.status = status]
    BY <1>1, AskFacts, Zenon
  <2>2. page'.at \in {"plan", "lines"} /\ page'.seq = page.seq /\ page'.shown = page.shown
    BY <1>0, <2>1
  <2>3. UNCHANGED <<logged, between, beyond>>
    BY <1>1, AskFacts, Zenon DEF history
  <2> QED
    BY <1>0, <2>2, <2>3 DEF PageInv, PageMissesOnlyRaces
<1>2. CASE MakePlan
  <2>1. /\ page.at = "plan" /\ page'.at = "lines" /\ page'.seq = page.seq
        /\ page'.shown = page.shown
    BY <1>0, <1>2 DEF MakePlan
  <2>2. UNCHANGED <<logged, between, beyond>>
    BY <1>2 DEF MakePlan
  <2> QED
    BY <2>1, <2>2 DEF PageInv, PageMissesOnlyRaces
<1>3. CASE Close
  BY <1>3 DEF Close, NoPage, PageInv, PageMissesOnlyRaces
<1>4. CASE ListLines
  <2> DEFINE rest == (page.seq + 1)..logged
             first == {n \in rest : n <= page.seq + PageLimit}
  <2>1. /\ page' = [page EXCEPT !.at = "latest", !.fresh = first]
        /\ beyond' = beyond \cup (rest \ first) /\ page.at = "lines"
        /\ UNCHANGED <<logged, between>>
    BY <1>4, Zenon DEF ListLines, history
  <2> HIDE DEF first
  <2>2. /\ page'.at = "latest" /\ page'.seq = page.seq /\ page'.shown = page.shown
        /\ page'.fresh = first
    BY <1>0, <2>1
  <2> QED
    BY <2>1, <2>2 DEF PageInv, PageMissesOnlyRaces
<1>5. CASE Latest
  <2>1. PICK at \in {"stopped", "waiting"} :
          /\ page' = [page EXCEPT !.at = at, !.seq = logged, !.shown = @ \cup page.fresh,
                                  !.fresh = {}]
          /\ page.at = "latest" /\ UNCHANGED <<logged, between, beyond>>
    BY <1>5, Zenon DEF Latest, history
  <2>2. /\ page'.at \in {"stopped", "waiting"} /\ page'.seq = logged
        /\ page'.shown = page.shown \cup page.fresh
    BY <1>0, <2>1
  <2>3. \A n \in 1..logged : n \in 1..page.seq \/ n \in (page.seq + 1)..logged
    BY <1>0
  <2>4. (1..page.seq) \ page.shown \subseteq between \cup beyond
        /\ (page.seq + 1)..logged \subseteq page.fresh \cup between \cup beyond
    BY <2>1 DEF PageInv, PageMissesOnlyRaces
  <2> QED
    BY <2>1, <2>2, <2>3, <2>4 DEF PageInv, PageMissesOnlyRaces
<1>6. CASE /\ page' = page /\ beyond' = beyond
           /\ between' = IF page.at = "latest" THEN between \cup (logged + 1)..logged'
                         ELSE between
  BY <1>0, <1>6 DEF PageInv, PageMissesOnlyRaces
<1>7. CASE Claim
  <2>1. page' = NoPage
    BY <1>7, ClaimFacts, Zenon
  <2> QED
    BY <2>1 DEF NoPage, PageInv, PageMissesOnlyRaces
<1> QED
  BY <1>1, <1>2, <1>3, <1>4, <1>5, <1>6, <1>7, PageStays

\* A page of a deployment misses only lines written between its two queries, and
\* lines left out by the limit, whatever the limit and however it is polled.
THEOREM PagesMissOnlyRaces == Spec => []PageMissesOnlyRaces
<1>1. Init => PageInv
  BY DEF Init, NoPage, PageInv, PageMissesOnlyRaces
<1>2. TypeInv /\ PageInv /\ [Next]_vars => TypeInv' /\ PageInv'
  BY TypeStep, PageInvStep
<1>3. PageInv => PageMissesOnlyRaces
  BY DEF PageInv
<1> QED
  BY InitType, <1>1, <1>2, <1>3, PTL DEF Spec

----------------------------------------------------------------------------
(* The checklist                                                            *)

\* Every step before one is done, those of an earlier release skipped if there was none.
Passed(key) ==
    \A k \in Keys : Pos(k) < Pos(key) =>
        /\ steps[k] = "succeeded" \/ (steps[k] = "skipped" /\ k \in Old)
        /\ k \in Old /\ ~job.had => steps[k] = "skipped"

\* No step after one has begun.
Ahead(key) == \A k \in Keys : Pos(k) > Pos(key) => steps[k] = "pending"

\* The step a worker is at by the stages it has announced.
Current == IF job.next = 1 THEN "validate" ELSE Key(Stages(job.kind)[job.next - 1])

\* No step after one has begun, but for those a rollback undoes.
Undone(key) ==
    \A k \in Keys : Pos(k) > Pos(key) =>
        steps[k] = "pending" \/ (key = "rollback" /\ k # "commit" /\ steps[k] = "succeeded")

OnTheWay == step = Current /\ step # "commit" /\ Passed(step) /\ Ahead(step)
RolledBackTo == step = "rollback" /\ Passed("rollback") /\ Undone("rollback")

\* The checklist once it is closed.
ClosedInv ==
    /\ job.outcome = "completed" =>
          \A k \in Keys : Done(k) /\ (k \in Old /\ ~job.had => steps[k] = "skipped")
    /\ job.outcome # "completed" =>
          /\ steps[step] = IF job.outcome = "rolled_back" THEN "rolled_back" ELSE "failed"
          /\ job.outcome = "rolled_back" => step \in {"backup", "rollback"}
          /\ step # "commit" /\ Passed(step) /\ Undone(step)

\* What the row says at each place of the worker ...
RowInv ==
    /\ job.at = "claimed" => job.next = 1 /\ step = "validate"
    /\ job.at \in {"claimed", "running", "rolling_back"} => status = Active
    /\ job.at \in {"returned", "told", "over"} =>
          /\ job.outcome \in Outcomes
          /\ status = job.outcome \/ (status = Active /\ job.outcome = "failed" /\ job.at # "over")
    /\ job.at \in {"claimed", "running", "rolling_back", "returned"} =>
          job.next <= Len(Stages(job.kind)) + 1
    /\ job.at = "returned" /\ job.outcome = "completed" => job.next > Len(Stages(job.kind))

\* ... and what the checklist does, as long as no page has replaced it.
ChecklistInv ==
    ~replanned =>
        /\ job.at = "running" => OnTheWay
        /\ job.at = "rolling_back" => RolledBackTo
        /\ job.at = "returned" =>
              /\ OnTheWay \/ RolledBackTo
              /\ job.outcome = "completed" => OnTheWay
              /\ job.outcome = "rolled_back" => step \in {"backup", "rollback"}
        /\ job.at \in {"told", "over"} => ClosedInv

\* There are eleven steps.
LEMMA StepCount == IsFiniteSet(Keys) /\ Cardinality(Keys) = 11
<1> DEFINE f == [i \in 1..11 |-> Plan[i]]
<1>1. /\ Plan[1] = "validate" /\ Plan[2] = "source" /\ Plan[3] = "compose" /\ Plan[4] = "build"
      /\ Plan[5] = "backup" /\ Plan[6] = "stop" /\ Plan[7] = "rollback"
      /\ Plan[8] = "activate" /\ Plan[9] = "verify" /\ Plan[10] = "route" /\ Plan[11] = "commit"
  BY DEF Plan
<1>2. \A i \in 1..11 : i = 1 \/ i = 2 \/ i = 3 \/ i = 4 \/ i = 5 \/ i = 6 \/ i = 7 \/ i = 8
                       \/ i = 9 \/ i = 10 \/ i = 11
  OBVIOUS
<1>3. \A i \in 1..11, j \in 1..11 : Plan[i] = Plan[j] => i = j
  BY <1>1, <1>2
<1>4. DOMAIN Plan = 1..11
  BY PlanFacts
<1>5. \A k : k \in Keys <=> \E i \in 1..11 : k = Plan[i]
  BY <1>4 DEF Keys
<1>6. f \in Bijection(1..11, Keys)
  BY <1>3, <1>5 DEF Bijection, Injection, Surjection, IsInjective
<1>7. ExistsBijection(1..11, Keys)
  BY <1>6 DEF ExistsBijection
<1>8. IsFiniteSet(1..11) /\ Cardinality(1..11) = 11
  <2>1. \A n \in Int : IsFiniteSet(1..n) /\ Cardinality(1..n) = IF 1 > n THEN 0 ELSE n - 1 + 1
    BY FS_Interval
  <2>2. \A n \in Int : n >= 1 => IsFiniteSet(1..n) /\ Cardinality(1..n) = n
    BY <2>1
  <2>3. 11 \in Int /\ 11 >= 1
    OBVIOUS
  <2> QED
    BY <2>2, <2>3, Zenon
<1> QED
  BY <1>7, <1>8, FS_Bijection, Zenon

\* The page shows a full bar only for a checklist that is done.
LEMMA FullBar == Percent = 100 <=> \A k \in Keys : Done(k)
<1> DEFINE D == {k \in Keys : Done(k)}
           c == Cardinality(D)
<1>1. IsFiniteSet(D) /\ c <= 11 /\ (c = 11 => D = Keys)
  BY StepCount, FS_Subset
<1>2. c \in Nat
  BY <1>1, FS_CardinalityType
<1>3. D = Keys => c = 11
  BY StepCount
<1>4. Percent = (c * 100) \div 11
  BY PlanFacts DEF Percent
<1>5. D = Keys <=> \A k \in Keys : Done(k)
  OBVIOUS
<1> HIDE DEF D, c
<1>6. c \in 0..11
  BY <1>1, <1>2
<1>7. (c * 100) \div 11 = 100 <=> c = 11
  BY <1>6
<1> QED
  BY <1>1, <1>3, <1>4, <1>5, <1>7

\* The row at each place of the worker.
LEMMA RowStep ==
    ASSUME TypeInv, RowInv, [Next]_vars
    PROVE  RowInv'
<1>0. /\ job \in [kind : {"none", "git", "redeploy", "update"}, had : BOOLEAN, next : 1..6,
                  at : JobPlaces, outcome : Outcomes \cup {"none"}]
      /\ job.at # "none" => job.kind \in {"git", "redeploy", "update"}
  BY DEF TypeInv, TypeOK, JobPlaces
<1>1. CASE Claim
  <2>1. PICK kind \in {"git", "redeploy", "update"}, had \in BOOLEAN :
          job' = [NoJob EXCEPT !.kind = kind, !.had = had, !.at = "claimed"]
    BY <1>1, ClaimFacts, Zenon
  <2>2. job' = [kind |-> kind, had |-> had, at |-> "claimed", next |-> 1, outcome |-> "none"]
    BY <2>1 DEF NoJob
  <2>3. Len(Stages(kind)) \in 1..5
    BY StagesLength
  <2>4. job'.at = "claimed" /\ job'.next = 1 /\ job'.kind = kind
    BY <2>2
  <2>6. status' = Active /\ step' = "validate"
    BY <1>1, ClaimFacts, Zenon
  <2>5. 1 <= Len(Stages(job'.kind)) + 1
    <3> DEFINE l == Len(Stages(kind))
    <3>1. l \in 1..5
      BY <2>3
    <3> HIDE DEF l
    <3>2. 1 <= l + 1
      BY <3>1
    <3> QED
      BY <2>4, <3>2 DEF l
  <2> QED
    BY <2>4, <2>5, <2>6 DEF RowInv
<1>2. CASE Begin
  BY <1>0, <1>2 DEF Begin, RowInv
<1>3. CASE Stage
  <2>1. /\ job.at = "running" /\ job' = [job EXCEPT !.next = @ + 1] /\ status' = status
        /\ job.next <= Len(Stages(job.kind))
    BY <1>3 DEF Stage
  <2>2. Len(Stages(job.kind)) \in 1..5
    BY <1>0, <2>1, StagesLength
  <2>3. job'.at = "running" /\ job'.kind = job.kind /\ job'.next = job.next + 1
    BY <1>0, <2>1
  <2> QED
    BY <1>0, <2>1, <2>2, <2>3 DEF RowInv
<1>4. CASE Rollback
  BY <1>0, <1>4 DEF Rollback, RowInv
<1>5. CASE Return
  <2>1. PICK outcome \in Outcomes :
          /\ Ends(outcome)
          /\ job' = [job EXCEPT !.at = "returned", !.outcome = outcome]
          /\ \/ status' = outcome
             \/ outcome = "failed" /\ job.next = 1 /\ UNCHANGED status
    BY <1>5, ReturnFacts, Zenon
  <2>2. /\ job'.at = "returned" /\ job'.outcome = outcome /\ job'.next = job.next
        /\ job'.kind = job.kind
    BY <1>0, <2>1
  <2>3. job.at \in {"running", "rolling_back"}
    BY <1>5, ReturnFacts, Zenon DEF Working
  <2>6. outcome = "completed" => job.next > Len(Stages(job.kind))
    BY <2>1, Zenon DEF Ends
  <2>4. status = Active
    BY <2>3 DEF RowInv
  <2>5. job.next <= Len(Stages(job.kind)) + 1
    BY <2>3, Zenon DEF RowInv
  <2>7. status' = outcome \/ (status' = Active /\ outcome = "failed")
    BY <2>1, <2>4
  <2>8. /\ job'.next <= Len(Stages(job'.kind)) + 1
        /\ job'.outcome = "completed" => job'.next > Len(Stages(job'.kind))
    BY <2>2, <2>5, <2>6, Zenon
  <2> QED
    BY <2>2, <2>7, <2>8 DEF RowInv
<1>6. CASE Tell
  BY <1>0, <1>6 DEF Tell, RowInv
<1>7. CASE WrapUp
  BY <1>0, <1>7 DEF WrapUp, RowInv, Active, Outcomes
<1>8. CASE Restart
  <2>1. /\ job' = IF job.at \in {"none", "over", "died"} THEN job ELSE [job EXCEPT !.at = "died"]
        /\ status' = IF status = Active THEN "interrupted" ELSE status
    BY <1>8 DEF Restart
  <2>2. CASE job.at \in {"none", "over", "died"}
    <3>1. job' = job
      BY <2>1, <2>2
    <3>2. job.at = "over" => status # Active
      BY DEF RowInv, Active, Outcomes
    <3>3. job.at = "over" => job.outcome \in Outcomes /\ status' = job.outcome
      BY <2>1, <3>2 DEF RowInv
    <3> QED
      BY <2>2, <3>1, <3>3 DEF RowInv
  <2>3. CASE job.at \notin {"none", "over", "died"}
    <3>1. job'.at = "died"
      BY <1>0, <2>1, <2>3
    <3> QED
      BY <3>1 DEF RowInv
  <2> QED
    BY <2>2, <2>3
<1>9. CASE Ask
  <2>1. UNCHANGED <<job, status, step>>
    BY <1>9, AskFacts, Zenon
  <2> QED
    BY <2>1 DEF RowInv
<1>10. CASE Output \/ MakePlan \/ ListLines \/ Latest \/ Close \/ Look \/ UNCHANGED vars
  BY <1>10 DEF Output, MakePlan, ListLines, Latest, Close, Look, vars, RowInv
<1> QED
  BY <1>1, <1>2, <1>3, <1>4, <1>5, <1>6, <1>7, <1>8, <1>9, <1>10 DEF Next, Worker

\* What comes before the step that begins is passed, wherever the worker was.
LEMMA AdvancedPassed ==
    ASSUME NEW key \in Keys, steps' = Advanced(key), job'.had = job.had
    PROVE  Passed(key)'
<1>1. \A k \in Keys : Pos(k) < Pos(key) => k # key
  BY PlanFacts
<1>2. \A k \in Keys : Pos(k) < Pos(key) =>
         /\ steps'[k] = "succeeded" \/ (steps'[k] = "skipped" /\ k \in Old)
         /\ k \in Old /\ ~job.had => steps'[k] = "skipped"
  BY <1>1 DEF Advanced, Old
<1> QED
  BY <1>2 DEF Passed

\* What comes after it is ahead as before, if the worker was not yet there.
LEMMA AdvancedAhead ==
    ASSUME NEW key \in Keys, step \in Keys, Pos(step) < Pos(key), Ahead(step),
           steps' = Advanced(key)
    PROVE  Ahead(key)'
<1>1. \A k \in Keys : Pos(k) \in 1..11
  BY PlanFacts
<1>4. \A k \in Keys : Pos(k) > Pos(key) => steps'[k] = "pending"
  <2> SUFFICES ASSUME NEW k \in Keys, Pos(k) > Pos(key) PROVE steps'[k] = "pending"
    OBVIOUS
  <2>1. k # key /\ ~(Pos(k) < Pos(key)) /\ k # step /\ Pos(k) > Pos(step)
    BY <1>1
  <2>2. steps'[k] = steps[k]
    BY <2>1 DEF Advanced
  <2> QED
    BY <2>1, <2>2 DEF Ahead
<1> QED
  BY <1>4 DEF Ahead

\* The checklist follows the worker.
LEMMA ChecklistStep ==
    ASSUME TypeInv, RowInv, ChecklistInv, [Next]_vars
    PROVE  ChecklistInv'
<1>0. /\ job \in [kind : {"none", "git", "redeploy", "update"}, had : BOOLEAN, next : 1..6,
                  at : JobPlaces, outcome : Outcomes \cup {"none"}]
      /\ job.at # "none" => job.kind \in {"git", "redeploy", "update"}
      /\ steps \in [Keys -> StepStates] /\ step \in Keys
      /\ "rollback" \in Keys /\ "commit" \in Keys /\ "validate" \in Keys
      /\ Pos("validate") = 1 /\ Pos("rollback") = 7 /\ Pos("route") = 10 /\ Pos("commit") = 11
      /\ \A k \in Keys : Pos(k) \in 1..11
  BY PlanFacts DEF TypeInv, TypeOK, JobPlaces
<1>1. CASE Claim
  <2>1. PICK kind \in {"git", "redeploy", "update"}, had \in BOOLEAN :
          job' = [NoJob EXCEPT !.kind = kind, !.had = had, !.at = "claimed"]
    BY <1>1, ClaimFacts, Zenon
  <2>2. job' = [kind |-> kind, had |-> had, at |-> "claimed", next |-> 1, outcome |-> "none"]
    BY <2>1 DEF NoJob
  <2> QED
    BY <2>2 DEF ChecklistInv
<1>2. CASE Begin
  <2>1. /\ job'.at = "running" /\ job'.next = 1 /\ job'.had = job.had /\ steps' = Fresh
        /\ step' = "validate"
    BY <1>0, <1>2 DEF Begin, RowInv
  <2>2. OnTheWay'
    BY <1>0, <2>1 DEF OnTheWay, Current, Passed, Ahead, Fresh
  <2> QED
    BY <2>1, <2>2 DEF ChecklistInv
<1>3. CASE Stage
  <2>1. /\ job.at = "running" /\ job' = [job EXCEPT !.next = @ + 1]
        /\ Announce(Stages(job.kind)[job.next]) /\ job.next <= Len(Stages(job.kind))
        /\ replanned' = replanned
    BY <1>3 DEF Stage
  <2>2. job.kind \in {"git", "redeploy", "update"} /\ job.next \in 1..Len(Stages(job.kind))
        /\ job.next \in 1..6
    BY <1>0, <2>1, StagesLength
  <2> PICK key : key = Key(Stages(job.kind)[job.next])
    OBVIOUS
  <2>3. /\ key \in Keys \ {"rollback", "commit"} /\ Current \in Keys \ {"rollback", "commit"}
        /\ key = Current \/ Pos(Current) < Pos(key)
    BY <2>2, StageOrder DEF Current
  <2>4. job'.at = "running" /\ job'.next = job.next + 1 /\ job'.kind = job.kind /\ job'.had = job.had
    BY <1>0, <2>1
  <2>5. Current' = key
    <3>1. job'.next # 1 /\ job'.next - 1 = job.next
      BY <2>2, <2>4
    <3>2. Current' = IF job'.next = 1 THEN "validate" ELSE Key(Stages(job'.kind)[job'.next - 1])
      BY Zenon DEF Current
    <3> QED
      BY <2>4, <3>1, <3>2, Zenon
  <2> SUFFICES ASSUME ~replanned PROVE OnTheWay'
    BY <2>1, <2>4 DEF ChecklistInv
  <2>6. OnTheWay
    BY <2>1 DEF ChecklistInv
  <2>7. CASE key = step /\ UNCHANGED <<steps, step>>
    BY <2>4, <2>5, <2>6, <2>7 DEF OnTheWay, Passed, Ahead, Done
  <2>8. CASE key # step /\ steps' = Advanced(key) /\ step' = key
    <3>1. step = Current /\ Ahead(step) /\ Pos(step) < Pos(key)
      BY <2>3, <2>6, <2>8 DEF OnTheWay
    <3>2. Passed(key)' /\ Ahead(key)'
      BY <2>3, <2>4, <2>8, <3>1, AdvancedAhead, AdvancedPassed
    <3> QED
      BY <2>3, <2>5, <2>8, <3>2 DEF OnTheWay, Passed, Ahead
  <2> QED
    BY <2>1, <2>7, <2>8 DEF Announce
<1>4. CASE Rollback
  <2>1. /\ job.at = "running" /\ job.kind = "update" /\ job.next > 4
        /\ job' = [job EXCEPT !.at = "rolling_back"] /\ Announce("rollback")
        /\ replanned' = replanned
    BY <1>4 DEF Rollback
  <2> DEFINE n == job.next - 1
  <2>2. n \in 1..Len(Stages("update")) /\ job.next # 1
    <3>1. Stages("update") = <<"preflight", "build", "backup", "deploy", "route">>
      BY DEF Stages
    <3>2. Len(Stages("update")) = 5
      BY <3>1
    <3>3. job.next = 5 \/ job.next = 6
      BY <1>0, <2>1
    <3>4. job.next - 1 \in 1..5 /\ job.next # 1
      BY <3>3
    <3> QED
      BY <3>2, <3>4, Zenon
  <2>3. Current \in Keys \ {"rollback", "commit"}
    BY <2>1, <2>2, StageOrder DEF Current
  <2>4. job'.at = "rolling_back" /\ job'.had = job.had
    BY <1>0, <2>1
  <2> SUFFICES ASSUME ~replanned PROVE RolledBackTo'
    BY <2>1, <2>4 DEF ChecklistInv
  <2>5. OnTheWay
    BY <2>1 DEF ChecklistInv
  <2>6. step' = "rollback" /\ steps' = Advanced("rollback")
    BY <2>1, <2>3, <2>5 DEF Announce, Key, OnTheWay
  <2>7. step = Current /\ Ahead(step) /\ step \in Keys \ {"rollback", "commit"}
    BY <2>3, <2>5 DEF OnTheWay
  <2>8. Passed("rollback")'
    BY <1>0, <2>4, <2>6, AdvancedPassed
  <2>9. Undone("rollback")'
    <3> SUFFICES ASSUME NEW k \in Keys, Pos(k) > 7
                 PROVE  steps'[k] = "pending" \/ (k # "commit" /\ steps'[k] = "succeeded")
      BY <1>0 DEF Undone
    <3>1. k # "rollback" /\ ~(Pos(k) < Pos("rollback")) /\ k \notin Old
      BY <1>0, PlanFacts DEF Old
    <3>2. steps'[k] = IF k = step THEN "succeeded" ELSE steps[k]
      BY <1>0, <2>6, <3>1 DEF Advanced
    <3>3. \A j \in Keys : Pos(j) = Pos(step) => j = step
      BY <2>7, PlanFacts
    <3>4. CASE k = step
      BY <2>7, <3>2, <3>4
    <3>5. CASE k # step /\ Pos(k) > Pos(step)
      BY <2>7, <3>2, <3>5 DEF Ahead
    <3>6. CASE k # step /\ Pos(k) < Pos(step)
      <4>1. steps[k] = "succeeded"
        BY <2>5, <3>1, <3>6 DEF OnTheWay, Passed
      <4>2. k # "commit"
        BY <1>0, <3>6
      <4> QED
        BY <3>2, <3>6, <4>1, <4>2
    <3> QED
      BY <1>0, <3>3, <3>4, <3>5, <3>6
  <2> QED
    BY <2>6, <2>8, <2>9 DEF RolledBackTo, Passed, Undone
<1>5. CASE Return
  <2>1. PICK outcome \in Outcomes :
          /\ Ends(outcome)
          /\ job' = [job EXCEPT !.at = "returned", !.outcome = outcome]
    BY <1>5, ReturnFacts, Zenon
  <2>2. job.at \in {"running", "rolling_back"} /\ UNCHANGED <<steps, step, replanned>>
    BY <1>5, ReturnFacts, Zenon DEF Working, history
  <2>3. /\ job'.at = "returned" /\ job'.outcome = outcome /\ job'.next = job.next
        /\ job'.kind = job.kind /\ job'.had = job.had
    BY <1>0, <2>1
  <2>5. (OnTheWay => OnTheWay') /\ (RolledBackTo => RolledBackTo')
    BY <2>2, <2>3 DEF OnTheWay, RolledBackTo, Current, Passed, Ahead, Undone
  <2> SUFFICES ASSUME ~replanned
               PROVE  /\ OnTheWay' \/ RolledBackTo'
                      /\ outcome = "completed" => OnTheWay'
                      /\ outcome = "rolled_back" => step \in {"backup", "rollback"}
    BY <2>2, <2>3 DEF ChecklistInv
  <2>6. /\ job.at = "running" => OnTheWay
        /\ job.at = "rolling_back" => RolledBackTo
    BY DEF ChecklistInv
  <2>7. outcome = "completed" => job.at = "running"
    BY <2>1 DEF Ends
  <2>8. ASSUME outcome = "rolled_back", job.at = "running"
        PROVE  step = "backup"
    <3>1. job.kind = "update" /\ job.next = 4
      BY <2>1, <2>8 DEF Ends
    <3>2. Stages("update") = <<"preflight", "build", "backup", "deploy", "route">>
      BY DEF Stages
    <3>3. Key("backup") = "backup"
      BY DEF Key
    <3>4. Current = Key(Stages("update")[3])
      BY <3>1 DEF Current
    <3> QED
      BY <2>6, <2>8, <3>2, <3>3, <3>4 DEF OnTheWay
  <2>9. job.at = "rolling_back" => step = "rollback"
    BY <2>6 DEF RolledBackTo
  <2> QED
    BY <2>2, <2>5, <2>6, <2>7, <2>8, <2>9
<1>6. CASE Tell
  <2>1. /\ job.at = "returned" /\ job' = [job EXCEPT !.at = "told"] /\ steps' = Closed
        /\ step' = (IF job.outcome = "completed" THEN "commit" ELSE step) /\ replanned' = replanned
    BY <1>6 DEF Tell
  <2>2. job'.at = "told" /\ job'.outcome = job.outcome /\ job'.had = job.had
    BY <1>0, <2>1
  <2> SUFFICES ASSUME ~replanned PROVE ClosedInv'
    BY <2>1, <2>2 DEF ChecklistInv
  <2>3. job.outcome \in Outcomes /\ (status = job.outcome \/ (status = Active /\ job.outcome = "failed"))
    BY <2>1 DEF RowInv
  <2>4. CASE job.outcome = "completed"
    <3> DEFINE n == job.next - 1
               l == Len(Stages(job.kind))
    <3>1. OnTheWay
      BY <2>1, <2>4 DEF ChecklistInv
    <3>2. job.next > l /\ job.next <= l + 1
      BY <2>1, <2>4 DEF RowInv
    <3>3. l \in 1..5 /\ job.next \in 1..6 /\ job.kind \in {"git", "redeploy", "update"}
      BY <1>0, <2>1, StagesLength
    <3>4. n = l /\ n \in 1..l /\ job.next # 1
      <4> HIDE DEF l
      <4> QED
        BY <3>2, <3>3
    <3>5. step = "route"
      BY <3>1, <3>3, <3>4, StageOrder DEF OnTheWay, Current
    <3>6. steps' = [steps EXCEPT !["route"] = "succeeded", !["commit"] = "succeeded"]
      <4> DEFINE last == CASE job.outcome = "completed" -> "succeeded"
                           [] status = "rolled_back"    -> "rolled_back"
                           [] OTHER                     -> "failed"
      <4>1. status # "rolled_back"
        BY <2>3, <2>4
      <4>2. last = "succeeded"
        BY <2>4, <4>1
      <4>3. Closed = [steps EXCEPT ![step] = last, !["commit"] = last]
        BY <2>4, Zenon DEF Closed
      <4> HIDE DEF last
      <4> QED
        BY <2>1, <3>5, <4>2, <4>3, Zenon
    <3>7. \A k \in Keys : Pos(k) < 10 \/ k = "route" \/ k = "commit"
      BY PlanFacts
    <3>8. \A k \in Keys : k \in {"route", "commit"} => steps'[k] = "succeeded"
      BY <1>0, <3>6
    <3>9. \A k \in Keys : k \notin {"route", "commit"} => steps'[k] = steps[k] /\ Pos(k) < 10
      BY <1>0, <3>6, <3>7
    <3>10. \A k \in Keys : k \notin {"route", "commit"} =>
              steps[k] \in {"succeeded", "skipped", "rolled_back"}
              /\ (k \in Old /\ ~job.had => steps[k] = "skipped")
      BY <1>0, <3>1, <3>5, <3>9 DEF OnTheWay, Passed, Done
    <3>11. "route" \notin Old /\ "commit" \notin Old
      BY DEF Old
    <3> QED
      BY <2>2, <2>4, <3>8, <3>9, <3>10, <3>11 DEF ClosedInv, Done
  <2>5. CASE job.outcome # "completed"
    <3> DEFINE last == IF job.outcome = "rolled_back" THEN "rolled_back" ELSE "failed"
    <3>1. /\ OnTheWay \/ RolledBackTo
          /\ job.outcome = "rolled_back" => step \in {"backup", "rollback"}
      BY <2>1 DEF ChecklistInv
    <3>2. step # "commit" /\ Passed(step) /\ Undone(step)
      BY <3>1 DEF OnTheWay, RolledBackTo, Undone, Ahead
    <3>3. steps' = [steps EXCEPT ![step] = last] /\ step' = step
      <4>1. status = "rolled_back" <=> job.outcome = "rolled_back"
        BY <2>3 DEF Active
      <4> QED
        BY <2>1, <2>5, <4>1, Zenon DEF Closed
    <3>4. steps'[step] = last /\ \A k \in Keys : k # step => steps'[k] = steps[k]
      BY <1>0, <3>3
    <3>5. \A k \in Keys : Pos(k) < Pos(step) \/ Pos(k) > Pos(step) => k # step
      BY <1>0
    <3> HIDE DEF last
    <3>6. Passed(step)' /\ Undone(step)'
      BY <2>2, <3>2, <3>3, <3>4, <3>5 DEF Passed, Undone
    <3> QED
      BY <2>2, <2>5, <3>1, <3>2, <3>3, <3>4, <3>6 DEF ClosedInv, last
  <2> QED
    BY <2>4, <2>5
<1>7. CASE WrapUp
  <2>1. /\ job.at = "told" /\ job' = [job EXCEPT !.at = "over"]
        /\ UNCHANGED <<steps, step, replanned>>
    BY <1>7 DEF WrapUp, history
  <2>2. job'.at = "over" /\ job'.outcome = job.outcome /\ job'.had = job.had
    BY <1>0, <2>1
  <2>3. ClosedInv => ClosedInv'
    BY <2>1, <2>2 DEF ClosedInv, Passed, Undone, Done
  <2> QED
    BY <2>1, <2>2, <2>3 DEF ChecklistInv
<1>9. CASE MakePlan
  <2>1. job' = job /\ replanned' = (replanned \/ job.at # "claimed")
    BY <1>9 DEF MakePlan
  <2> QED
    BY <2>1 DEF ChecklistInv
<1>10. CASE UNCHANGED <<job, steps, step, replanned>>
  <2>1. /\ OnTheWay => OnTheWay'
        /\ RolledBackTo => RolledBackTo'
        /\ ClosedInv => ClosedInv'
    BY <1>10 DEF OnTheWay, RolledBackTo, ClosedInv, Current, Passed, Ahead, Undone, Done
  <2> QED
    BY <1>10, <2>1 DEF ChecklistInv
<1>8. CASE Restart
  <2>1. /\ job' = IF job.at \in {"none", "over", "died"} THEN job ELSE [job EXCEPT !.at = "died"]
        /\ UNCHANGED <<steps, step, replanned>>
    BY <1>8 DEF Restart
  <2>2. CASE job' = job
    BY <1>10, <2>1, <2>2
  <2>3. CASE job' # job
    <3>1. job'.at = "died"
      BY <1>0, <2>1, <2>3
    <3> QED
      BY <3>1 DEF ChecklistInv
  <2> QED
    BY <2>2, <2>3
<1>11. CASE Ask
  <2>1. UNCHANGED <<job, steps, step, replanned>>
    BY <1>11, AskFacts, Zenon DEF history
  <2> QED
    BY <1>10, <2>1
<1>12. CASE Output \/ ListLines \/ Latest \/ Close \/ Look \/ UNCHANGED vars
  BY <1>10, <1>12 DEF Output, ListLines, Latest, Close, Look, vars, history
<1> QED
  BY <1>1, <1>2, <1>3, <1>4, <1>5, <1>6, <1>7, <1>8, <1>9, <1>11, <1>12 DEF Next, Worker

\* What the checklist of a deployment that is over says, read off the invariant.
LEMMA ChecklistSays ==
    ASSUME TypeInv, RowInv, ChecklistInv
    PROVE  ChecklistTellsOutcome
<1> SUFFICES ASSUME job.at = "over", ~replanned
             PROVE  /\ Percent = 100 <=> status = "completed"
                    /\ status = "completed" /\ ~job.had => \A k \in Old : steps[k] = "skipped"
                    /\ status # "completed" =>
                          \E blamed \in Keys :
                             /\ steps[blamed] = IF status = "rolled_back" THEN "rolled_back" ELSE "failed"
                             /\ status = "rolled_back" => blamed \in {"backup", "rollback"}
                             /\ \A k \in Keys : Pos(k) < Pos(blamed) => steps[k] \in {"succeeded", "skipped"}
                             /\ \A k \in Keys : Pos(k) > Pos(blamed) =>
                                   steps[k] = "pending" \/ (blamed = "rollback" /\ steps[k] = "succeeded")
  BY DEF ChecklistTellsOutcome
<1>1. status = job.outcome /\ job.outcome \in Outcomes
  BY DEF RowInv
<1>2. ClosedInv
  BY DEF ChecklistInv
<1>3. step \in Keys /\ "commit" \in Keys /\ Old \subseteq Keys
  BY PlanFacts DEF TypeInv, TypeOK, Old
<1>4. CASE status = "completed"
  <2>1. \A k \in Keys : Done(k)
    BY <1>1, <1>2, <1>4 DEF ClosedInv
  <2> QED
    BY <1>1, <1>2, <1>3, <1>4, <2>1, FullBar DEF ClosedInv
<1>5. CASE status # "completed"
  <2>1. /\ steps[step] = IF status = "rolled_back" THEN "rolled_back" ELSE "failed"
        /\ status = "rolled_back" => step \in {"backup", "rollback"}
        /\ step # "commit" /\ Passed(step) /\ Undone(step)
    BY <1>1, <1>2, <1>5 DEF ClosedInv
  <2>2. ~Done("commit")
    <3>1. Pos("commit") > Pos(step)
      BY <1>3, <2>1, PlanFacts
    <3> QED
      BY <1>3, <2>1, <3>1 DEF Done, Undone
  <2>3. Percent # 100
    BY <1>3, <2>2, FullBar
  <2> QED
    BY <1>3, <1>5, <2>1, <2>3 DEF Passed, Undone
<1> QED
  BY <1>4, <1>5

\* When a deployment is over, the checklist tells how it ended: the bar is full if
\* and only if it completed, otherwise one step carries the failure, what comes
\* before it is done and what comes after it is not, whatever a rollback undid.
THEOREM ChecklistsTellOutcomes == Spec => []ChecklistTellsOutcome
<1>1. Init => RowInv /\ ChecklistInv
  BY DEF Init, NoJob, RowInv, ChecklistInv
<1>2. TypeInv /\ RowInv /\ ChecklistInv /\ [Next]_vars => TypeInv' /\ RowInv' /\ ChecklistInv'
  BY TypeStep, RowStep, ChecklistStep
<1>3. TypeInv /\ RowInv /\ ChecklistInv => ChecklistTellsOutcome
  BY ChecklistSays
<1> QED
  BY InitType, <1>1, <1>2, <1>3, PTL DEF Spec
================================================================================
