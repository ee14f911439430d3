----------------------------- MODULE JobsProofs -----------------------------
(***************************************************************************)
(* What the job service keeps for every set of jobs and targets, every     *)
(* bound on errors and crashes, and every interleaving.                    *)
(***************************************************************************)
EXTENDS Jobs, FiniteSetTheorems, TLAPS

-----------------------------------------------------------------------------
(* Facts about rows.                                                       *)

\* The percentage of finished targets is a percentage.
LEMMA PercentBounded ==
  ASSUME NEW c \in Nat, NEW n \in Nat, n > 0, c <= n
  PROVE  (c * 100) \div n \in 0 .. 100
<1>1. (c * 100) \div n \in Int
  OBVIOUS
<1>2. n * ((c * 100) \div n) <= c * 100
  OBVIOUS
<1>3. c * 100 < n * ((c * 100) \div n) + n
  OBVIOUS
<1> DEFINE q == (c * 100) \div n
<1>4. q <= 100
  <2>1. SUFFICES ASSUME q >= 101 PROVE FALSE
    BY <1>1
  <2>2. n * q >= n * 101
    BY <2>1, <1>1
  <2> QED
    BY <2>2, <1>2
<1>5. q >= 0
  <2>1. SUFFICES ASSUME q <= -1 PROVE FALSE
    BY <1>1
  <2>2. n * q <= n * (-1)
    BY <2>1, <1>1
  <2> QED
    BY <2>2, <1>3
<1> QED
  BY <1>1, <1>4, <1>5

\* What the targets of a row are.
LEMMA TargetTypes ==
  ASSUME NEW tg
  PROVE  tg \in UNION {[ts -> Statuses] : ts \in SUBSET Targets}
           <=> /\ DOMAIN tg \subseteq Targets
               /\ tg \in [DOMAIN tg -> Statuses]
<1>1. ASSUME tg \in UNION {[ts -> Statuses] : ts \in SUBSET Targets}
      PROVE  DOMAIN tg \subseteq Targets /\ tg \in [DOMAIN tg -> Statuses]
  <2>1. PICK ts \in SUBSET Targets : tg \in [ts -> Statuses]
    BY <1>1
  <2> QED
    BY <2>1
<1> QED
  BY <1>1

\* Finished is a percentage when the job has a target.
LEMMA FinishedType ==
  ASSUME NEW tg, DOMAIN tg \subseteq Targets, DOMAIN tg # {}
  PROVE  Finished(tg) \in 0 .. 100
<1> DEFINE done == {t \in DOMAIN tg : tg[t] \in Results}
<1>1. IsFiniteSet(DOMAIN tg)
  BY FS_Subset, JobsAssumption DEF JobsAssumption
<1>2. Cardinality(DOMAIN tg) \in Nat /\ Cardinality(DOMAIN tg) > 0
  <2>1. Cardinality(DOMAIN tg) \in Nat
    BY <1>1, FS_CardinalityType
  <2>2. Cardinality(DOMAIN tg) # 0
    BY <1>1, FS_EmptySet
  <2> QED
    BY <2>1, <2>2
<1>3. Cardinality(done) \in Nat /\ Cardinality(done) <= Cardinality(DOMAIN tg)
  <2>1. done \subseteq DOMAIN tg
    OBVIOUS
  <2> QED
    BY <1>1, <2>1, FS_Subset, FS_CardinalityType
<1>4. (Cardinality(done) * 100) \div Cardinality(DOMAIN tg) \in 0 .. 100
  BY <1>2, <1>3, PercentBounded
<1> QED
  BY <1>4 DEF Finished

\* RecordTarget yields a row, changes one target and moves progress forward.
LEMMA RecordedRow ==
  ASSUME NEW row \in Rows, NEW t \in DOMAIN row.target, NEW result \in Results
  PROVE  /\ WithResult(row, t, result) \in Rows
         /\ WithResult(row, t, result).status = row.status
         /\ WithResult(row, t, result).outcome = row.outcome
         /\ WithResult(row, t, result).target = [row.target EXCEPT ![t] = result]
         /\ row.progress <= WithResult(row, t, result).progress
<1> DEFINE tg == [row.target EXCEPT ![t] = result]
<1>1. DOMAIN row.target \subseteq Targets /\ row.target \in [DOMAIN row.target -> Statuses]
  BY TargetTypes DEF Rows
<1>2. /\ DOMAIN tg = DOMAIN row.target /\ tg \in [DOMAIN tg -> Statuses]
      /\ tg \in UNION {[ts -> Statuses] : ts \in SUBSET Targets}
  <2>1. DOMAIN tg = DOMAIN row.target /\ tg \in [DOMAIN tg -> Statuses]
    BY <1>1 DEF Results, Statuses, Terminal, Live
  <2> QED
    BY <1>1, <2>1, TargetTypes
<1>3. Finished(tg) \in 0 .. 100
  BY <1>1, <1>2, FinishedType
<1>4. /\ Larger(row.progress, Finished(tg)) \in 0 .. 100
      /\ row.progress <= Larger(row.progress, Finished(tg))
  BY <1>3 DEF Larger, Rows
<1> HIDE DEF tg
<1>5. [row EXCEPT !.target = tg, !.progress = Larger(@, Finished(tg))]
        = [row EXCEPT !.target = tg, !.progress = Larger(row.progress, Finished(tg))]
  BY DEF Rows
<1>6. WithResult(row, t, result)
        = [row EXCEPT !.target = tg, !.progress = Larger(row.progress, Finished(tg))]
  BY <1>5 DEF WithResult, tg
<1> QED
  BY <1>2, <1>4, <1>6 DEF Rows, tg

\* The verdict on a job is an end of it.
LEMMA VerdictType ==
  ASSUME NEW tg, NEW err, NEW canceled
  PROVE  /\ Verdict(tg, err, canceled).status \in Terminal
         /\ Verdict(tg, err, canceled).outcome \in Outcomes \ {"pending"}
BY DEF Verdict, CompletionOutcome, Terminal, Outcomes

LEMMA ClosedRow ==
  ASSUME NEW row \in Rows, NEW verdict,
         verdict.status \in Terminal, verdict.outcome \in Outcomes
  PROVE  /\ Closed(row, verdict) \in Rows
         /\ Closed(row, verdict).status = verdict.status
         /\ Closed(row, verdict).outcome = verdict.outcome
         /\ Closed(row, verdict).target = row.target
         /\ Closed(row, verdict).progress = 100
<1>1. PICK st, oc : st = verdict.status /\ oc = verdict.outcome
  OBVIOUS
<1>2. Closed(row, verdict) = [row EXCEPT !.status = st, !.outcome = oc, !.progress = 100]
  BY <1>1 DEF Closed
<1>3. st \in Statuses \cup Absent /\ oc \in Outcomes /\ 100 \in 0 .. 100
  BY <1>1 DEF Statuses
<1> QED
  BY <1>1, <1>2, <1>3 DEF Rows

LEMMA NoRowType ==
  ASSUME NEW st \in Statuses \cup Absent
  PROVE  NoRow(st) \in Rows /\ NoRow(st).status = st
<1>1. [t \in {} |-> "queued"] \in UNION {[ts -> Statuses] : ts \in SUBSET Targets}
  <2> DEFINE f == [t \in {} |-> "queued"]
  <2>1. DOMAIN f = {} /\ f \in [{} -> Statuses]
    OBVIOUS
  <2> QED
    BY <2>1, TargetTypes
<1> QED
  BY <1>1 DEF NoRow, Rows, Outcomes

LEMMA QueuedRow ==
  ASSUME NEW ts \in SUBSET Targets
  PROVE  Queued(ts) \in Rows /\ Queued(ts).status = "queued"
<1> DEFINE f == [t \in ts |-> "queued"]
<1>1. f \in UNION {[us -> Statuses] : us \in SUBSET Targets}
  <2>1. DOMAIN f = ts /\ f \in [ts -> Statuses]
    BY DEF Statuses, Live
  <2> QED
    BY <2>1, TargetTypes
<1>2. NoRow("queued") \in Rows /\ NoRow("queued").status = "queued"
  BY NoRowType DEF Statuses, Live
<1> QED
  BY <1>1, <1>2 DEF Queued, Rows

\* Recovery ends a row and every target that was not ended.
LEMMA BrokenRow ==
  ASSUME NEW row \in Rows
  PROVE  /\ Broken(row) \in Rows
         /\ Broken(row).status = "failed"
         /\ Broken(row).progress = 100
<1> DEFINE tg == [t \in DOMAIN row.target |->
                    IF row.target[t] \in Live THEN "failed" ELSE row.target[t]]
           verdict == [status |-> "failed",
                       outcome |-> CompletionOutcome(tg, {"failed", "canceled"})]
<1>1. DOMAIN row.target \subseteq Targets /\ row.target \in [DOMAIN row.target -> Statuses]
  BY TargetTypes DEF Rows
<1>2. tg \in UNION {[ts -> Statuses] : ts \in SUBSET Targets}
  <2>1. DOMAIN tg = DOMAIN row.target /\ tg \in [DOMAIN tg -> Statuses]
    BY <1>1 DEF Statuses, Terminal
  <2> QED
    BY <1>1, <2>1, TargetTypes
<1>3. /\ Closed(row, verdict) \in Rows /\ Closed(row, verdict).status = "failed"
      /\ Closed(row, verdict).progress = 100
  <2>1. verdict.status \in Terminal /\ verdict.outcome \in Outcomes
    BY DEF Terminal, Outcomes, CompletionOutcome
  <2> QED
    BY <2>1, ClosedRow
<1>4. Broken(row) = [Closed(row, verdict) EXCEPT !.target = tg]
  BY DEF Broken
<1> HIDE DEF tg, verdict
<1> QED
  BY <1>2, <1>3, <1>4 DEF Rows

\* MarkRunning moves a queued row and its queued targets.
LEMMA MarkedRow ==
  ASSUME NEW row \in Rows
  PROVE  /\ Marked(row) \in Rows
         /\ Marked(row).status = "running"
         /\ Marked(row).progress = row.progress
         /\ Marked(row).target = [t \in DOMAIN row.target |->
               IF row.target[t] = "queued" THEN "running" ELSE row.target[t]]
<1> DEFINE tg == [t \in DOMAIN row.target |->
                    IF row.target[t] = "queued" THEN "running" ELSE row.target[t]]
<1>1. DOMAIN row.target \subseteq Targets /\ row.target \in [DOMAIN row.target -> Statuses]
  BY TargetTypes DEF Rows
<1>2. tg \in UNION {[ts -> Statuses] : ts \in SUBSET Targets}
  <2>1. DOMAIN tg = DOMAIN row.target /\ tg \in [DOMAIN tg -> Statuses]
    BY <1>1 DEF Statuses, Live
  <2> QED
    BY <1>1, <2>1, TargetTypes
<1>3. Marked(row) = [row EXCEPT !.status = "running", !.target = tg]
  BY DEF Marked, Rows
<1> HIDE DEF tg
<1> QED
  BY <1>2, <1>3 DEF Rows, Statuses, Live, tg

-----------------------------------------------------------------------------
(* The inductive invariant.  Everything the properties say of rows rests   *)
(* on which program point of Service.run goes with which status (Stages),  *)
(* and everything they say of pauses on cancels being exactly the jobs     *)
(* with a goroutine (Registered).                                          *)

Registered == cancels = {j \in Jobs : ~Idle(j)}

DownQuiet == runPhase # "up" => submitting = NoJob /\ ~paused /\ \A j \in Jobs : Idle(j)

SubmitFresh == submitting # NoJob => Status(submitting) = "queued" /\ Idle(submitting)

Stage(j) == /\ runner[j].pc = "start" => Status(j) = "queued"
            /\ runner[j].pc \in {"work", "sweep"} => Status(j) = "running"
            /\ runner[j].pc = "notify" => /\ runner[j].result \in Terminal
                                         /\ Status(j) \in {"gone", runner[j].result}
            /\ runner[j].pc = "leave" /\ faults = 0 => Status(j) \notin Live
            /\ runner[j].pc # "off" => Status(j) # "unused"

Stages == \A j \in Jobs : Stage(j)

JobsInv == /\ JobsTypeOK
           /\ Registered
           /\ PauseQuiet
           /\ DownQuiet
           /\ SubmitFresh
           /\ Stages
           /\ NotifiedPersisted
           /\ NoOrphan

LEMMA InitInv == JobsInit => JobsInv
<1> SUFFICES ASSUME JobsInit PROVE JobsInv
  OBVIOUS
<1>1. NoRow("unused") \in Rows /\ NoRow("unused").status = "unused"
  BY NoRowType DEF Absent
<1>2. JobsTypeOK
  <2>1. Off \in Runners
    BY DEF Runners, Off, Points
  <2>2. faults \in 0 .. MaxFaults /\ crashes \in 0 .. MaxCrashes
    BY JobsAssumption DEF JobsInit, JobsAssumption
  <2> QED
    BY <1>1, <2>1, <2>2 DEF JobsInit, JobsTypeOK
<1>3. \A j \in Jobs : Status(j) = "unused" /\ Idle(j)
  BY <1>1 DEF JobsInit, Status, Idle, Off
<1> QED
  BY <1>2, <1>3 DEF JobsInit, JobsInv, Registered, PauseQuiet, DownQuiet, SubmitFresh, Stages,
     Stage, NotifiedPersisted, NoOrphan, Interrupted, Idle, Live, Off, Quiet

\* What is left of a step that leaves the process, the locks and the
\* goroutines alone and gives one row a value: the type of that value, and
\* that it ends the row only if no goroutine is at work on it.
LEMMA RowStep ==
  ASSUME JobsInv, NEW j \in Jobs, NEW row \in Rows,
         rows' = [rows EXCEPT ![j] = row],
         UNCHANGED <<runPhase, submitting, paused, cancels, runner, noted, faults, crashes>>,
         ctxDone' \subseteq Jobs, cancelling' \subseteq Jobs,
         \/ row.status = Status(j)
         \/ row.status = "gone" /\ Status(j) \in Terminal
         \/ row.status = "failed" /\ Idle(j) /\ Status(j) \in Live /\ runPhase # "up"
  PROVE  JobsInv'
<1> USE DEF JobsInv
<1>1. JobsTypeOK'
  BY DEF JobsTypeOK
<1>2. /\ \A i \in Jobs : i # j => Status(i)' = Status(i)
      /\ Status(j)' = row.status
      /\ \A i \in Jobs : Idle(i)' = Idle(i)
  BY DEF JobsTypeOK, Status, Idle
<1>3. Registered' /\ PauseQuiet' /\ DownQuiet'
  BY <1>2 DEF Registered, PauseQuiet, DownQuiet
<1>4. SubmitFresh'
  BY <1>2 DEF SubmitFresh, Terminal, Live, DownQuiet, JobsTypeOK
<1>5. Stages'
  <2> SUFFICES ASSUME NEW i \in Jobs PROVE Stage(i)'
    BY DEF Stages
  <2>1. Stage(i) /\ (Idle(i) <=> runner[i].pc = "off")
    BY DEF Stages, Idle
  <2>2. CASE i = j
    BY <1>2, <2>1, <2>2 DEF Stage, Terminal, Live
  <2>3. CASE i # j
    BY <1>2, <2>1, <2>3 DEF Stage
  <2> QED
    BY <2>2, <2>3
<1>6. NotifiedPersisted'
  BY <1>2 DEF NotifiedPersisted, JobsTypeOK, Terminal, Live, Quiet
<1>7. NoOrphan'
  BY <1>2 DEF NoOrphan, Interrupted, Live, Terminal
<1> QED
  BY <1>1, <1>3, <1>4, <1>5, <1>6, <1>7

\* The same for a step of the goroutine of j that gives its row a value.
LEMMA GoroutineStep ==
  ASSUME JobsInv, NEW j \in Jobs, NEW row \in Rows, NEW run \in Runners,
         ~Idle(j), run.pc # "off",
         rows' = [rows EXCEPT ![j] = row],
         runner' = [runner EXCEPT ![j] = run],
         UNCHANGED <<runPhase, submitting, paused, cancels, ctxDone, cancelling, crashes>>,
         noted' \in {noted, [noted EXCEPT ![j] = run.result]},
         faults' \in {faults, faults + 1}, faults' <= MaxFaults,
         noted' # noted => run.result \in Terminal /\ row.status \in {"gone", run.result},
         row.status # Status(j) => Status(j) \in Live,
         row.status # "unused",
         run.pc = "start" => row.status = "queued",
         run.pc \in {"work", "sweep"} => row.status = "running",
         run.pc = "notify" => run.result \in Terminal /\ row.status \in {"gone", run.result},
         run.pc = "leave" /\ faults' = 0 => row.status \notin Live
  PROVE  JobsInv'
<1> USE DEF JobsInv
<1>1. JobsTypeOK'
  <2>1. noted' \in [Jobs -> Terminal \cup {Quiet}]
    BY DEF JobsTypeOK
  <2>2. faults' \in 0 .. MaxFaults
    BY JobsAssumption DEF JobsTypeOK, JobsAssumption
  <2> QED
    BY <2>1, <2>2 DEF JobsTypeOK
<1>2. /\ \A i \in Jobs : i # j => Status(i)' = Status(i)
      /\ Status(j)' = row.status
      /\ \A i \in Jobs : Idle(i)' = Idle(i)
      /\ \A i \in Jobs : i # j => runner'[i] = runner[i]
      /\ runner'[j] = run
      /\ faults' = 0 => faults = 0
  BY DEF JobsTypeOK, Status, Idle
<1>3. Registered' /\ PauseQuiet' /\ DownQuiet'
  BY <1>2 DEF Registered, PauseQuiet, DownQuiet
<1>4. SubmitFresh'
  BY <1>2 DEF SubmitFresh, JobsTypeOK
<1>5. Stages'
  <2> SUFFICES ASSUME NEW i \in Jobs PROVE Stage(i)'
    BY DEF Stages
  <2>1. CASE i = j
    BY <1>2, <2>1 DEF Stage
  <2>2. CASE i # j
    BY <1>2, <2>2 DEF Stages, Stage
  <2> QED
    BY <2>1, <2>2
<1>6. NotifiedPersisted'
  <2> SUFFICES ASSUME NEW i \in Jobs, noted'[i] # Quiet
               PROVE  Status(i)' \in {"gone", noted'[i]}
    BY DEF NotifiedPersisted
  <2>1. CASE i = j
    <3>1. CASE noted' = noted
      BY <1>2, <2>1, <3>1 DEF NotifiedPersisted, JobsTypeOK, Terminal, Live, Quiet
    <3>2. CASE noted' # noted
      BY <1>2, <2>1, <3>2 DEF JobsTypeOK
    <3> QED
      BY <3>1, <3>2
  <2>2. CASE i # j
    BY <1>2, <2>2 DEF NotifiedPersisted, JobsTypeOK
  <2> QED
    BY <2>1, <2>2
<1>7. NoOrphan'
  BY <1>2 DEF NoOrphan, Interrupted
<1> QED
  BY <1>1, <1>3, <1>4, <1>5, <1>6, <1>7

-----------------------------------------------------------------------------
(* Every step keeps the invariant.                                         *)

LEMMA NextInv ==
  ASSUME JobsInv, [JobsNext]_jobsVars
  PROVE  JobsInv'
<1>a. /\ rows \in [Jobs -> Rows] /\ runner \in [Jobs -> Runners]
      /\ cancels \subseteq Jobs /\ ctxDone \subseteq Jobs /\ cancelling \subseteq Jobs
  BY DEF JobsInv, JobsTypeOK
<1>b. \A j \in Jobs : /\ rows[j] \in Rows /\ runner[j] \in Runners
                      /\ Stage(j)
  BY <1>a DEF JobsInv, Stages
<1>c. /\ faults <= MaxFaults /\ faults \in Nat /\ MaxFaults \in Nat
      /\ crashes < MaxCrashes => crashes + 1 \in 0 .. MaxCrashes
  BY JobsAssumption DEF JobsInv, JobsTypeOK, JobsAssumption
<1>1. ASSUME NEW j \in Jobs, NEW ts \in SUBSET Targets, Create(j, ts) PROVE JobsInv'
  <2>1. Queued(ts) \in Rows /\ Queued(ts).status = "queued"
    BY QueuedRow
  <2>2. JobsTypeOK'
    BY <1>1, <2>1 DEF Create, JobsInv, JobsTypeOK
  <2>3. /\ Status(j) = "unused" /\ Status(j)' = "queued" /\ ~paused /\ runPhase = "up"
        /\ \A i \in Jobs : i # j => Status(i)' = Status(i)
        /\ \A i \in Jobs : Idle(i)' = Idle(i) /\ (Idle(i) <=> runner[i].pc = "off")
    BY <1>1, <1>a, <2>1 DEF Create, Status, Idle
  <2>4. Idle(j) /\ noted[j] = Quiet
    BY <1>b, <2>3 DEF Stage, JobsInv, NotifiedPersisted, JobsTypeOK, Terminal, Quiet
  <2>5. Registered' /\ PauseQuiet' /\ DownQuiet' /\ SubmitFresh'
    BY <1>1, <2>3, <2>4 DEF Create, JobsInv, Registered, PauseQuiet, DownQuiet, SubmitFresh
  <2>6. Stages'
    BY <1>1, <1>b, <2>3, <2>4 DEF Create, Stages, Stage
  <2>7. NotifiedPersisted'
    BY <1>1, <2>3, <2>4 DEF Create, JobsInv, NotifiedPersisted
  <2>8. NoOrphan'
    BY <1>1, <2>3, JobsAssumption DEF Create, JobsInv, NoOrphan, Interrupted, JobsAssumption
  <2> QED
    BY <2>2, <2>5, <2>6, <2>7, <2>8 DEF JobsInv
<1>2. ASSUME NEW j \in Jobs, RegisterJob(j) PROVE JobsInv'
  <2> DEFINE run == [Off EXCEPT !.pc = "start"]
  <2>1. run \in Runners /\ run.pc = "start" /\ j # NoJob
    BY JobsAssumption DEF Off, Runners, Points, JobsAssumption
  <2> HIDE DEF run
  <2>2. runner' = [runner EXCEPT ![j] = run]
    BY <1>2 DEF RegisterJob, run
  <2>3. JobsTypeOK'
    BY <1>2, <2>1, <2>2 DEF RegisterJob, JobsInv, JobsTypeOK
  <2>4. /\ Status(j) = "queued" /\ runPhase = "up" /\ ~paused
        /\ \A i \in Jobs : Status(i)' = Status(i)
        /\ \A i \in Jobs : i # j => runner'[i] = runner[i] /\ Idle(i)' = Idle(i)
        /\ runner'[j] = run /\ ~Idle(j)'
    BY <1>2, <1>a, <2>1, <2>2 DEF RegisterJob, Status, Idle, JobsInv, SubmitFresh, PauseQuiet, DownQuiet
  <2>5. Registered'
    BY <1>2, <2>4 DEF RegisterJob, JobsInv, Registered
  <2>6. PauseQuiet' /\ DownQuiet' /\ SubmitFresh'
    BY <1>2, <2>4 DEF RegisterJob, JobsInv, PauseQuiet, DownQuiet, SubmitFresh
  <2>7. Stages'
    BY <1>2, <1>b, <2>1, <2>4 DEF RegisterJob, Stages, Stage
  <2>8. NotifiedPersisted' /\ NoOrphan'
    BY <1>2, <2>4 DEF RegisterJob, JobsInv, NotifiedPersisted, NoOrphan, Interrupted
  <2> QED
    BY <2>3, <2>5, <2>6, <2>7, <2>8 DEF JobsInv
<1>3. CASE PauseIfIdle
  BY <1>3 DEF PauseIfIdle, JobsInv, JobsTypeOK, Registered, PauseQuiet, DownQuiet, SubmitFresh,
     Stages, Stage, Status, Idle, NotifiedPersisted, NoOrphan, Interrupted
<1>4. CASE Resume
  BY <1>4 DEF Resume, JobsInv, JobsTypeOK, Registered, PauseQuiet, DownQuiet, SubmitFresh,
     Stages, Stage, Status, Idle, NotifiedPersisted, NoOrphan, Interrupted
<1>5. ASSUME NEW j \in Jobs, RequestCancel(j) PROVE JobsInv'
  <2> DEFINE row == [rows[j] EXCEPT !.cancelRequested = TRUE]
  <2>1. row \in Rows /\ row.status = Status(j)
    BY <1>b DEF Rows, Status
  <2>2. rows' = [rows EXCEPT ![j] = row]
    BY <1>5, <1>a DEF RequestCancel
  <2> HIDE DEF row
  <2> QED
    BY <1>5, <1>a, <2>1, <2>2, RowStep DEF RequestCancel
<1>6. ASSUME NEW j \in Jobs, CallCancel(j) PROVE JobsInv'
  <2>1. rows' = [rows EXCEPT ![j] = rows[j]]
    BY <1>6, <1>a DEF CallCancel
  <2> QED
    BY <1>6, <1>a, <1>b, <2>1, RowStep DEF CallCancel, Status
<1>7. ASSUME NEW j \in Jobs, MarkRunning(j) PROVE JobsInv'
  <2> DEFINE run == [runner[j] EXCEPT !.pc = "work"]
  <2>1. Marked(rows[j]) \in Rows /\ Marked(rows[j]).status = "running"
    BY <1>b, MarkedRow
  <2>2. run \in Runners /\ run.pc = "work" /\ ~Idle(j)
    BY <1>b, <1>7 DEF Runners, Points, MarkRunning, Idle
  <2>3. /\ rows' = [rows EXCEPT ![j] = Marked(rows[j])]
        /\ runner' = [runner EXCEPT ![j] = run]
    BY <1>7, <1>a DEF MarkRunning, At
  <2> HIDE DEF run
  <2> QED
    BY <1>7, <2>1, <2>2, <2>3, <1>c, GoroutineStep DEF MarkRunning, Live
<1>8. ASSUME NEW j \in Jobs, MarkFails(j) \/ GetFails(j) \/ CompleteFails(j) PROVE JobsInv'
  <2> DEFINE run == [runner[j] EXCEPT !.pc = "leave"]
  <2>1. run \in Runners /\ run.pc = "leave" /\ ~Idle(j)
    BY <1>b, <1>8 DEF Runners, Points, MarkFails, GetFails, CompleteFails, Idle
  <2>2. /\ rows' = [rows EXCEPT ![j] = rows[j]]
        /\ runner' = [runner EXCEPT ![j] = run]
    BY <1>8, <1>a DEF MarkFails, GetFails, CompleteFails, At
  <2>3. /\ faults' = faults + 1 /\ faults' <= MaxFaults /\ faults' # 0
        /\ UNCHANGED <<runPhase, submitting, paused, cancels, ctxDone, cancelling, noted, crashes>>
    BY <1>8, JobsAssumption DEF MarkFails, GetFails, CompleteFails, Fault, JobsInv, JobsTypeOK,
       JobsAssumption
  <2>4. Status(j) # "unused"
    BY <1>b, <2>1 DEF Stage, Idle
  <2> HIDE DEF run
  <2> QED
    BY <1>b, <2>1, <2>2, <2>3, <2>4, GoroutineStep DEF Status
<1>9. ASSUME NEW j \in Jobs, NEW t \in Targets, NEW result \in Results, Report(j, t, result)
      PROVE  JobsInv'
  <2>1. /\ t \in DOMAIN rows[j].target
        /\ rows' = [rows EXCEPT ![j] = WithResult(rows[j], t, result)]
    BY <1>9, <1>a DEF Report, RecordTarget
  <2>2. /\ WithResult(rows[j], t, result) \in Rows
        /\ WithResult(rows[j], t, result).status = Status(j)
    BY <1>b, <2>1, RecordedRow DEF Status
  <2> QED
    BY <1>9, <1>a, <2>1, <2>2, RowStep DEF Report
<1>10. ASSUME NEW j \in Jobs, NEW p \in ProgressValues, UpdateProgress(j, p) PROVE JobsInv'
  <2> DEFINE row == [rows[j] EXCEPT !.progress = p]
  <2>0. p \in 0 .. 100
    BY JobsAssumption DEF JobsAssumption
  <2>1. row \in Rows /\ row.status = Status(j)
    BY <1>b, <2>0 DEF Rows, Status
  <2>2. rows' = [rows EXCEPT ![j] = row]
    BY <1>10, <1>a DEF UpdateProgress
  <2> HIDE DEF row
  <2> QED
    BY <1>10, <1>a, <2>1, <2>2, RowStep DEF UpdateProgress
<1>11. ASSUME NEW j \in Jobs, NEW err \in BOOLEAN, RunnerReturns(j, err) PROVE JobsInv'
  <2> DEFINE left == {t \in DOMAIN rows[j].target : rows[j].target[t] = "running"}
             run == [runner[j] EXCEPT !.pc = "sweep", !.err = err, !.left = left]
  <2>0. left \in SUBSET Targets
    BY <1>b, TargetTypes DEF Rows
  <2> HIDE DEF left
  <2>1. run \in Runners /\ run.pc = "sweep" /\ ~Idle(j)
    BY <1>b, <1>11, <2>0 DEF Runners, Points, RunnerReturns, Idle
  <2>2. /\ rows' = [rows EXCEPT ![j] = rows[j]]
        /\ runner' = [runner EXCEPT ![j] = run]
    BY <1>11, <1>a DEF RunnerReturns, left
  <2>3. Status(j) = "running"
    BY <1>b, <1>11 DEF Stage, RunnerReturns
  <2> HIDE DEF run
  <2> QED
    BY <1>11, <1>b, <2>1, <2>2, <2>3, <1>c, GoroutineStep DEF RunnerReturns, Status
<1>12. ASSUME NEW j \in Jobs, NEW t \in Targets, Sweep(j, t) \/ SweepFails(j, t) PROVE JobsInv'
  <2> DEFINE run == [runner[j] EXCEPT !.left = @ \ {t}]
  <2>1. run \in Runners /\ run.pc = "sweep" /\ ~Idle(j)
    BY <1>b, <1>12 DEF Runners, Sweep, SweepFails, Idle
  <2>2. runner' = [runner EXCEPT ![j] = run]
    BY <1>12, <1>a DEF Sweep, SweepFails
  <2>3. Status(j) = "running"
    BY <1>b, <1>12 DEF Stage, Sweep, SweepFails
  <2>4. CASE Sweep(j, t)
    <3>1. /\ t \in DOMAIN rows[j].target /\ Swept(j) \in Results
          /\ rows' = [rows EXCEPT ![j] = WithResult(rows[j], t, Swept(j))]
      BY <2>4, <1>a DEF Sweep, RecordTarget, Swept, Results
    <3>2. /\ WithResult(rows[j], t, Swept(j)) \in Rows
          /\ WithResult(rows[j], t, Swept(j)).status = "running"
      BY <1>b, <2>3, <3>1, RecordedRow DEF Status
    <3> HIDE DEF run
    <3> QED
      BY <2>1, <2>2, <2>3, <2>4, <3>1, <3>2, <1>c, GoroutineStep DEF Sweep
  <2>5. CASE SweepFails(j, t)
    <3>1. rows' = [rows EXCEPT ![j] = rows[j]]
      BY <2>5, <1>a DEF SweepFails
    <3>2. faults' = faults + 1 /\ faults' <= MaxFaults
      BY <2>5, JobsAssumption DEF SweepFails, Fault, JobsInv, JobsTypeOK, JobsAssumption
    <3> HIDE DEF run
    <3> QED
      BY <1>b, <2>1, <2>2, <2>3, <2>5, <3>1, <3>2, GoroutineStep DEF SweepFails, Status
  <2> QED
    BY <1>12, <2>4, <2>5
<1>13. ASSUME NEW j \in Jobs, Complete(j) PROVE JobsInv'
  <2> DEFINE verdict == Verdict(rows[j].target, runner[j].err, j \in ctxDone)
             run == [runner[j] EXCEPT !.pc = "notify", !.result = verdict.status]
  <2>1. verdict.status \in Terminal /\ verdict.outcome \in Outcomes
    BY VerdictType
  <2>2. rows' = [rows EXCEPT ![j] = Closed(rows[j], verdict)]
    BY <1>13, <1>a DEF Complete
  <2>3. runner' = [runner EXCEPT ![j] = run]
    BY <1>13, <1>a DEF Complete
  <2> HIDE DEF verdict
  <2>4. Closed(rows[j], verdict) \in Rows /\ Closed(rows[j], verdict).status = verdict.status
    BY <1>b, <2>1, ClosedRow
  <2>5. run \in Runners /\ run.pc = "notify" /\ run.result = verdict.status /\ ~Idle(j)
    BY <1>b, <1>13, <2>1 DEF Runners, Points, Complete, Idle
  <2> HIDE DEF run
  <2>6. verdict.status # "unused" /\ Status(j) \in Live
    BY <1>13, <2>1 DEF Terminal, Complete, Live
  <2>7. UNCHANGED <<runPhase, submitting, paused, cancels, ctxDone, cancelling, noted,
                    faults, crashes>>
    BY <1>13 DEF Complete
  <2> QED
    BY <2>1, <2>2, <2>3, <2>4, <2>5, <2>6, <2>7, <1>c, GoroutineStep DEF Terminal, Live
<1>14. ASSUME NEW j \in Jobs, Notify(j) PROVE JobsInv'
  <2> DEFINE run == [runner[j] EXCEPT !.pc = "leave"]
  <2>1. run \in Runners /\ run.pc = "leave" /\ run.result = runner[j].result /\ ~Idle(j)
    BY <1>b, <1>14 DEF Runners, Points, Notify, Idle
  <2>2. /\ rows' = [rows EXCEPT ![j] = rows[j]]
        /\ runner' = [runner EXCEPT ![j] = run]
    BY <1>14, <1>a DEF Notify, At
  <2>3. /\ run.result \in Terminal /\ Status(j) \in {"gone", run.result}
        /\ Status(j) \notin Live /\ Status(j) # "unused"
    BY <1>b, <1>14, <2>1 DEF Stage, Notify, Terminal, Live
  <2> HIDE DEF run
  <2> QED
    BY <1>14, <1>b, <2>1, <2>2, <2>3, <1>c, GoroutineStep DEF Notify, Status
<1>15. ASSUME NEW j \in Jobs, Leave(j) PROVE JobsInv'
  <2>1. Off \in Runners /\ Off.pc = "off"
    BY DEF Off, Runners, Points
  <2>2. JobsTypeOK'
    BY <1>15, <2>1 DEF Leave, JobsInv, JobsTypeOK
  <2>3. /\ \A i \in Jobs : Status(i)' = Status(i)
        /\ \A i \in Jobs : i # j => runner'[i] = runner[i] /\ Idle(i)' = Idle(i)
        /\ runner'[j].pc = "off" /\ Idle(j)' /\ ~Idle(j)
        /\ faults = 0 => Status(j) \notin Live
    BY <1>15, <1>a, <1>b, <2>1 DEF Leave, Status, Idle, Stage
  <2>4. Registered' /\ PauseQuiet' /\ DownQuiet' /\ SubmitFresh'
    BY <1>15, <2>3 DEF Leave, JobsInv, Registered, PauseQuiet, DownQuiet, SubmitFresh, JobsTypeOK
  <2>5. Stages'
    BY <1>15, <1>b, <2>3 DEF Leave, Stages, Stage
  <2>6. NotifiedPersisted' /\ NoOrphan'
    BY <1>15, <2>3 DEF Leave, JobsInv, NotifiedPersisted, NoOrphan, Interrupted
  <2> QED
    BY <2>2, <2>4, <2>5, <2>6 DEF JobsInv
<1>16. ASSUME NEW j \in Jobs, Prune(j) PROVE JobsInv'
  <2>1. NoRow("gone") \in Rows /\ NoRow("gone").status = "gone"
    BY NoRowType DEF Absent
  <2> QED
    BY <1>16, <1>a, <2>1, RowStep DEF Prune
<1>17. CASE ProcessDies
  <2>1. Off \in Runners /\ Off.pc = "off"
    BY DEF Off, Runners, Points
  <2>2. JobsTypeOK'
    BY <1>17, <1>c, <2>1 DEF ProcessDies, JobsInv, JobsTypeOK
  <2>3. \A i \in Jobs : Status(i)' = Status(i) /\ runner'[i].pc = "off" /\ Idle(i)'
    BY <1>17, <2>1 DEF ProcessDies, Status, Idle
  <2> QED
    BY <1>17, <2>2, <2>3 DEF ProcessDies, JobsInv, Registered, PauseQuiet, DownQuiet, SubmitFresh,
       Stages, Stage, NotifiedPersisted, NoOrphan
<1>18. CASE Start
  BY <1>18 DEF Start, JobsInv, JobsTypeOK, Registered, PauseQuiet, DownQuiet, SubmitFresh,
     Stages, Stage, Status, Idle, NotifiedPersisted, NoOrphan, Interrupted
<1>19. CASE Reload
  <2>1. /\ \A i \in Jobs : Idle(i) /\ Idle(i)' = Idle(i) /\ Status(i)' = Status(i)
        /\ submitting = NoJob
    BY <1>19 DEF Reload, JobsInv, PauseQuiet, Idle, Status
  <2>2. JobsTypeOK'
    BY <1>19, <1>c DEF Reload, JobsInv, JobsTypeOK
  <2> QED
    BY <1>19, <2>1, <2>2 DEF Reload, JobsInv, Registered, PauseQuiet, DownQuiet, SubmitFresh,
       Stages, Stage, NotifiedPersisted, NoOrphan
<1>20. ASSUME NEW j \in Jobs, RecoverJob(j) PROVE JobsInv'
  <2>1. Broken(rows[j]) \in Rows /\ Broken(rows[j]).status = "failed"
    BY <1>b, BrokenRow
  <2>2. Status(j) \in Live /\ Idle(j) /\ runPhase # "up"
    BY <1>20 DEF RecoverJob, Interrupted, JobsInv, DownQuiet
  <2>3. rows' = [rows EXCEPT ![j] = Broken(rows[j])]
    BY <1>20, <1>a DEF RecoverJob
  <2> QED
    BY <1>20, <1>a, <2>1, <2>2, <2>3, RowStep DEF RecoverJob
<1>21. CASE RecoverFails
  <2>1. JobsTypeOK'
    BY <1>21, JobsAssumption DEF RecoverFails, Fault, JobsInv, JobsTypeOK, JobsAssumption
  <2>2. faults' # 0
    BY <1>21 DEF RecoverFails, Fault, JobsInv, JobsTypeOK
  <2> QED
    BY <1>21, <2>1, <2>2 DEF RecoverFails, JobsInv, Registered, PauseQuiet, DownQuiet, SubmitFresh,
       Stages, Stage, Status, Idle, NotifiedPersisted, NoOrphan
<1>22. CASE Recovered
  BY <1>22 DEF Recovered, JobsInv, JobsTypeOK, Registered, PauseQuiet, DownQuiet, SubmitFresh,
     Stages, Stage, Status, Idle, NotifiedPersisted, NoOrphan, Interrupted
<1>23. CASE UNCHANGED jobsVars
  BY <1>23 DEF jobsVars, JobsInv, JobsTypeOK, Registered, PauseQuiet, DownQuiet, SubmitFresh,
     Stages, Stage, Status, Idle, NotifiedPersisted, NoOrphan, Interrupted
<1> QED
  BY <1>1, <1>2, <1>3, <1>4, <1>5, <1>6, <1>7, <1>8, <1>9, <1>10, <1>11, <1>12, <1>13, <1>14,
     <1>15, <1>16, <1>17, <1>18, <1>19, <1>20, <1>21, <1>22, <1>23 DEF JobsNext, RunStep

-----------------------------------------------------------------------------
(* The theorems.                                                           *)

\* The invariant holds in every reachable state.
THEOREM JobsInvariant == JobsSpec => []JobsInv
<1>1. JobsInit => JobsInv
  BY InitInv
<1>2. JobsInv /\ [JobsNext]_jobsVars => JobsInv'
  BY NextInv
<1> QED
  BY <1>1, <1>2, PTL DEF JobsSpec

\* Rows, goroutines and counters stay what they are; in particular the
\* progress RecordTarget computes from the finished targets of a job is never
\* above 100.
THEOREM JobsTypesHold == JobsSpec => []JobsTypeOK
<1>1. JobsInv => JobsTypeOK
  BY DEF JobsInv
<1> QED
  BY <1>1, JobsInvariant, PTL

\* PauseIfIdle excludes every runner and every submission, for any number of
\* jobs.
THEOREM PauseIsQuiet == JobsSpec => []PauseQuiet
<1>1. JobsInv => PauseQuiet
  BY DEF JobsInv
<1> QED
  BY <1>1, JobsInvariant, PTL

\* A completion listener is never ahead of the database.
THEOREM ListenersSeeCommitted == JobsSpec => []NotifiedPersisted
<1>1. JobsInv => NotifiedPersisted
  BY DEF JobsInv
<1> QED
  BY <1>1, JobsInvariant, PTL

\* As long as no transaction has failed, every unfinished job of a working
\* service has a goroutine or is being submitted.
THEOREM JobsAreAttended == JobsSpec => []NoOrphan
<1>1. JobsInv => NoOrphan
  BY DEF JobsInv
<1> QED
  BY <1>1, JobsInvariant, PTL

\* RecoverInterrupted fails no job that is being run, neither after a crash
\* nor when the runtime is replaced inside the process.
THEOREM RecoveryFindsTheDead == JobsSpec => OnlyDeadRecovered
<1>1. JobsInv => (runPhase = "recovering" => \A j \in Jobs : Idle(j))
  BY DEF JobsInv, DownQuiet
<1>2. JobsInv /\ [JobsNext]_jobsVars =>
        [\A j \in Jobs : runPhase = "recovering" /\ rows'[j] # rows[j] => Idle(j)]_jobsVars
  BY <1>1
<1> QED
  BY <1>2, JobsInvariant, PTL DEF JobsSpec, OnlyDeadRecovered

\* The row a step may give to a job that has ended.
LEMMA EndedRowStays ==
  ASSUME JobsInv, JobsNext, NEW j \in Jobs, Status(j) \in Terminal
  PROVE  rows'[j] \in {rows[j], NoRow("gone")}
<1>1. rows \in [Jobs -> Rows] /\ Stage(j)
  BY DEF JobsInv, JobsTypeOK, Stages
<1>2. runner[j].pc \notin {"start", "work", "sweep"} /\ Status(j) \notin Live
      /\ Status(j) \notin {"unused", "queued", "running"}
  BY <1>1 DEF Stage, Terminal, Live
<1>3. ASSUME NEW i \in Jobs,
             \/ \E ts \in SUBSET Targets : Create(i, ts)
             \/ RegisterJob(i) \/ RequestCancel(i) \/ CallCancel(i)
             \/ \E t \in Targets, result \in Results : Report(i, t, result)
             \/ \E p \in ProgressValues : UpdateProgress(i, p)
             \/ RunStep(i) \/ Prune(i) \/ RecoverJob(i)
      PROVE  rows'[j] \in {rows[j], NoRow("gone")}
  <2>1. CASE i = j
    BY <1>1, <1>2, <1>3, <2>1 DEF Create, RegisterJob, RequestCancel, CallCancel, Report,
       UpdateProgress, RunStep, Prune, RecoverJob, MarkRunning, MarkFails, RunnerReturns,
       GetFails, Sweep, SweepFails, Complete, CompleteFails, Notify, Leave, Interrupted, At
  <2>2. CASE i # j
    BY <1>1, <1>3, <2>2 DEF Create, RegisterJob, RequestCancel, CallCancel, Report, RecordTarget,
       UpdateProgress, RunStep, Prune, RecoverJob, MarkRunning, MarkFails, RunnerReturns,
       GetFails, Sweep, SweepFails, Complete, CompleteFails, Notify, Leave, At
  <2> QED
    BY <2>1, <2>2
<1>4. CASE PauseIfIdle \/ Resume \/ ProcessDies \/ Start \/ Reload \/ RecoverFails \/ Recovered
  BY <1>4 DEF PauseIfIdle, Resume, ProcessDies, Start, Reload, RecoverFails, Recovered
<1> QED
  BY <1>3, <1>4 DEF JobsNext

\* Nothing rewrites the result of a job that has ended: not a late report, not
\* a second completion, not the recovery of a later start.
THEOREM EndedJobsStay == JobsSpec => TerminalFinal
<1>1. ASSUME JobsInv, [JobsNext]_jobsVars
      PROVE  [\A j \in Jobs : Status(j) \in Terminal => rows'[j] \in {rows[j], NoRow("gone")}]_jobsVars
  BY <1>1, EndedRowStays DEF jobsVars
<1> QED
  BY <1>1, JobsInvariant, PTL DEF JobsSpec, TerminalFinal

-----------------------------------------------------------------------------
(* Results.  The sweep is what makes a result out of every target; its     *)
(* writes must not be lost.                                                *)

\* At work no target is queued any more; in the sweep every target without a
\* result is still to be swept.
Counted(j) ==
  /\ runner[j].pc \in {"work", "sweep"} =>
       \A t \in DOMAIN rows[j].target : rows[j].target[t] \in Results \cup {"running"}
  /\ runner[j].pc = "sweep" =>
       \A t \in DOMAIN rows[j].target : rows[j].target[t] = "running" => t \in runner[j].left

VerdictInv == (\A j \in Jobs : Counted(j)) /\ SuccessIsReal

\* Complete judges by the targets.
LEMMA ClosedIsEarned ==
  ASSUME NEW row \in Rows, NEW err \in BOOLEAN, NEW canceled \in BOOLEAN,
         \A t \in DOMAIN row.target : row.target[t] \in Results
  PROVE  Earned(Closed(row, Verdict(row.target, err, canceled)))
<1> DEFINE verdict == Verdict(row.target, err, canceled)
<1>1. /\ Closed(row, verdict).status = verdict.status
      /\ Closed(row, verdict).outcome = verdict.outcome
      /\ Closed(row, verdict).target = row.target
  BY VerdictType, ClosedRow
<1>2. verdict.status = "succeeded" =>
        verdict.outcome = "full" /\ \A t \in DOMAIN row.target : row.target[t] = "succeeded"
  BY DEF Verdict, Has, Results
<1>3. verdict.outcome = "partial" =>
        Has(row.target, {"succeeded"}) /\ Has(row.target, {"failed", "canceled"})
  BY DEF Verdict, CompletionOutcome, Has
<1>4. verdict.outcome = "none" => ~Has(row.target, {"succeeded"})
  BY DEF Verdict, CompletionOutcome
<1> HIDE DEF verdict
<1>5. Earned(Closed(row, verdict))
  BY <1>1, <1>2, <1>3, <1>4 DEF Earned
<1> QED
  BY <1>5 DEF verdict

\* So does recovery.
LEMMA BrokenIsEarned ==
  ASSUME NEW row \in Rows
  PROVE  Earned(Broken(row))
<1> DEFINE tg == [t \in DOMAIN row.target |->
                    IF row.target[t] \in Live THEN "failed" ELSE row.target[t]]
           oc == CompletionOutcome(tg, {"failed", "canceled"})
           verdict == [status |-> "failed", outcome |-> oc]
<1>1. row.target \in [DOMAIN row.target -> Statuses]
  BY TargetTypes DEF Rows
<1>2. \A t \in DOMAIN tg : tg[t] \in Results
  BY <1>1 DEF Statuses, Terminal, Results
<1>3. /\ oc = "partial" => Has(tg, {"succeeded"}) /\ Has(tg, {"failed", "canceled"})
      /\ oc = "none" => ~Has(tg, {"succeeded"})
      /\ oc \in Outcomes
  BY DEF CompletionOutcome, Outcomes
<1> HIDE DEF tg, oc
<1>4. Broken(row) = [Closed(row, verdict) EXCEPT !.target = tg]
  BY DEF Broken, oc, tg
<1>5. /\ Closed(row, verdict) \in Rows /\ Closed(row, verdict).status = "failed"
      /\ Closed(row, verdict).outcome = oc
  BY <1>3, ClosedRow DEF Terminal
<1> HIDE DEF verdict
<1>6. Broken(row).status = "failed" /\ Broken(row).outcome = oc /\ Broken(row).target = tg
  BY <1>4, <1>5 DEF Rows
<1> QED
  BY <1>2, <1>3, <1>6 DEF Earned

LEMMA NextVerdict ==
  ASSUME JobsInv, JobsInv', VerdictInv, [JobsNext]_jobsVars, "sweep" \notin FaultPoints
  PROVE  VerdictInv'
<1>a. /\ rows \in [Jobs -> Rows] /\ runner \in [Jobs -> Runners]
      /\ \A j \in Jobs : rows[j] \in Rows /\ runner[j] \in Runners /\ Counted(j) /\ Stage(j)
  BY DEF JobsInv, JobsTypeOK, VerdictInv, Stages
<1> SUFFICES ASSUME NEW j \in Jobs
             PROVE  Counted(j)' /\ (Status(j)' \in Terminal => Earned(rows'[j]))
  BY DEF VerdictInv, SuccessIsReal
<1>1. ASSUME rows'[j] = rows[j], runner'[j] \in {runner[j], Off}
      PROVE  Counted(j)' /\ (Status(j)' \in Terminal => Earned(rows'[j]))
  BY <1>1, <1>a DEF Counted, VerdictInv, SuccessIsReal, Status, Off
<1>2. ASSUME runner'[j].pc \notin {"work", "sweep"}, Status(j)' \notin Terminal
      PROVE  Counted(j)' /\ (Status(j)' \in Terminal => Earned(rows'[j]))
  BY <1>2 DEF Counted
<1>3. ASSUME NEW i \in Jobs, i # j,
             \/ \E ts \in SUBSET Targets : Create(i, ts)
             \/ RegisterJob(i) \/ RequestCancel(i) \/ CallCancel(i)
             \/ \E t \in Targets, result \in Results : Report(i, t, result)
             \/ \E p \in ProgressValues : UpdateProgress(i, p)
             \/ RunStep(i) \/ Prune(i) \/ RecoverJob(i)
      PROVE  rows'[j] = rows[j] /\ runner'[j] = runner[j]
  BY <1>a, <1>3 DEF Create, RegisterJob, RequestCancel, CallCancel, Report, RecordTarget,
     UpdateProgress, RunStep, Prune, RecoverJob, MarkRunning, MarkFails, RunnerReturns,
     GetFails, Sweep, SweepFails, Complete, CompleteFails, Notify, Leave, At
<1>4. CASE \/ PauseIfIdle \/ Resume \/ ProcessDies \/ Start \/ Reload \/ RecoverFails \/ Recovered
           \/ CallCancel(j) \/ Leave(j) \/ UNCHANGED jobsVars
  <2>1. rows'[j] = rows[j] /\ runner'[j] \in {runner[j], Off}
    BY <1>4, <1>a DEF PauseIfIdle, Resume, ProcessDies, Start, Reload, RecoverFails, Recovered,
       CallCancel, Leave, jobsVars
  <2> QED
    BY <1>1, <2>1
<1>5. ASSUME NEW ts \in SUBSET Targets, Create(j, ts)
      PROVE  Counted(j)' /\ (Status(j)' \in Terminal => Earned(rows'[j]))
  <2>1. Status(j)' = "queued" /\ runner'[j].pc = "off"
    BY <1>5, <1>a, QueuedRow DEF Create, Status, Stage
  <2> QED
    BY <1>2, <2>1 DEF Terminal
<1>6. CASE RegisterJob(j)
  <2>1. Status(j)' = "queued" /\ runner'[j].pc = "start"
    BY <1>6, <1>a, JobsAssumption DEF RegisterJob, Status, Off, JobsInv, SubmitFresh, JobsAssumption
  <2> QED
    BY <1>2, <2>1 DEF Terminal
<1>7. CASE RequestCancel(j)
  <2>1. /\ rows'[j].target = rows[j].target /\ rows'[j].status = rows[j].status
        /\ runner' = runner /\ Status(j)' \notin Terminal
    BY <1>7, <1>a DEF RequestCancel, Status, Rows, Live, Terminal
  <2> QED
    BY <1>a, <2>1 DEF Counted
<1>8. CASE MarkRunning(j)
  <2>1. /\ rows'[j] = Marked(rows[j]) /\ runner'[j].pc = "work"
    BY <1>8, <1>a DEF MarkRunning, At, Runners
  <2>2. Status(j)' \notin Terminal
    BY <1>a, <2>1, MarkedRow DEF Status, Terminal
  <2>3. \A t \in DOMAIN rows'[j].target : rows'[j].target[t] \in Results \cup {"running"}
    <3>1. rows[j].target \in [DOMAIN rows[j].target -> Statuses]
      BY <1>a, TargetTypes DEF Rows
    <3>2. rows'[j].target = [t \in DOMAIN rows[j].target |->
            IF rows[j].target[t] = "queued" THEN "running" ELSE rows[j].target[t]]
      BY <1>a, <2>1, MarkedRow
    <3> QED
      BY <3>1, <3>2 DEF Statuses, Terminal, Live, Results
  <2> QED
    BY <2>1, <2>2, <2>3 DEF Counted
<1>9. CASE MarkFails(j) \/ GetFails(j) \/ CompleteFails(j)
  <2>1. runner'[j].pc = "leave" /\ rows' = rows
    BY <1>9, <1>a DEF MarkFails, GetFails, CompleteFails, At, Runners
  <2> QED
    BY <2>1 DEF Counted, VerdictInv, SuccessIsReal, Status
<1>10. ASSUME NEW t \in Targets, NEW result \in Results, Report(j, t, result)
       PROVE  Counted(j)' /\ (Status(j)' \in Terminal => Earned(rows'[j]))
  <2>1. /\ runner[j].pc = "work" /\ runner' = runner /\ t \in DOMAIN rows[j].target
        /\ rows'[j] = WithResult(rows[j], t, result)
    BY <1>10, <1>a DEF Report, RecordTarget
  <2>2. /\ rows'[j].target = [rows[j].target EXCEPT ![t] = result]
        /\ rows'[j].status = "running"
    BY <1>a, <2>1, RecordedRow DEF Stage, Status
  <2> QED
    BY <1>a, <2>1, <2>2 DEF Counted, Terminal, Status
<1>11. ASSUME NEW p \in ProgressValues, UpdateProgress(j, p)
       PROVE  Counted(j)' /\ (Status(j)' \in Terminal => Earned(rows'[j]))
  <2>1. /\ rows'[j].target = rows[j].target /\ rows'[j].status = "running" /\ runner' = runner
    BY <1>11, <1>a DEF UpdateProgress, Status, Rows
  <2> QED
    BY <1>a, <2>1 DEF Counted, Terminal, Status
<1>12. ASSUME NEW err \in BOOLEAN, RunnerReturns(j, err)
       PROVE  Counted(j)' /\ (Status(j)' \in Terminal => Earned(rows'[j]))
  <2>1. /\ rows' = rows /\ runner[j].pc = "work" /\ runner'[j].pc = "sweep"
        /\ runner'[j].left = {t \in DOMAIN rows[j].target : rows[j].target[t] = "running"}
    BY <1>12, <1>a DEF RunnerReturns, Runners
  <2> QED
    BY <1>a, <2>1 DEF Counted, VerdictInv, SuccessIsReal, Status
<1>13. ASSUME NEW t \in Targets, Sweep(j, t)
       PROVE  Counted(j)' /\ (Status(j)' \in Terminal => Earned(rows'[j]))
  <2>1. /\ runner[j].pc = "sweep" /\ runner'[j].pc = "sweep"
        /\ runner'[j].left = runner[j].left \ {t} /\ t \in DOMAIN rows[j].target
        /\ rows'[j] = WithResult(rows[j], t, Swept(j)) /\ Swept(j) \in {"failed", "canceled"}
    BY <1>13, <1>a DEF Sweep, RecordTarget, Runners, Swept
  <2>2. /\ rows'[j].target = [rows[j].target EXCEPT ![t] = Swept(j)]
        /\ rows'[j].status = "running"
    <3>1. Swept(j) \in Results /\ rows[j] \in Rows /\ rows[j].status = "running"
      BY <1>a, <2>1 DEF Results, Stage, Status
    <3> QED
      BY <2>1, <3>1, RecordedRow
  <2> QED
    BY <1>a, <2>1, <2>2 DEF Counted, Terminal, Status, Results
<1>14. ASSUME NEW t \in Targets, SweepFails(j, t) PROVE FALSE
  BY <1>14 DEF SweepFails, Fault
<1>15. CASE Complete(j)
  <2> DEFINE verdict == Verdict(rows[j].target, runner[j].err, j \in ctxDone)
  <2>1. rows'[j] = Closed(rows[j], verdict) /\ runner'[j].pc = "notify"
    BY <1>15, <1>a DEF Complete, Runners
  <2>2. \A t \in DOMAIN rows[j].target : rows[j].target[t] \in Results
    BY <1>15, <1>a DEF Complete, Counted
  <2>3. runner[j].err \in BOOLEAN
    BY <1>a DEF Runners
  <2>4. Earned(rows'[j])
    <3>1. (j \in ctxDone) \in BOOLEAN /\ rows[j] \in Rows
      BY <1>a
    <3>2. Earned(Closed(rows[j], verdict))
      BY <2>2, <2>3, <3>1, ClosedIsEarned
    <3> QED
      BY <2>1, <3>2
  <2> QED
    BY <2>1, <2>4 DEF Counted
<1>16. CASE Notify(j)
  <2>1. runner'[j].pc = "leave" /\ rows' = rows
    BY <1>16, <1>a DEF Notify, At, Runners
  <2> QED
    BY <2>1 DEF Counted, VerdictInv, SuccessIsReal, Status
<1>17. CASE Prune(j)
  <2>1. rows'[j].status = "gone" /\ Status(j) \in Terminal /\ runner' = runner
    BY <1>17, <1>a, NoRowType DEF Prune, Absent
  <2>2. runner'[j].pc \notin {"work", "sweep"}
    BY <1>a, <2>1 DEF Stage, Terminal
  <2> QED
    BY <1>2, <2>1, <2>2 DEF Status, Terminal
<1>18. CASE RecoverJob(j)
  <2>1. rows'[j] = Broken(rows[j]) /\ runner'[j].pc = "off"
    BY <1>18, <1>a DEF RecoverJob, JobsInv, DownQuiet, Idle
  <2> QED
    BY <1>a, <2>1, BrokenIsEarned DEF Counted
<1>19. ASSUME NEW i \in Jobs,
             \/ \E ts \in SUBSET Targets : Create(i, ts)
             \/ RegisterJob(i) \/ RequestCancel(i) \/ CallCancel(i)
             \/ \E t \in Targets, result \in Results : Report(i, t, result)
             \/ \E p \in ProgressValues : UpdateProgress(i, p)
             \/ RunStep(i) \/ Prune(i) \/ RecoverJob(i)
       PROVE  Counted(j)' /\ (Status(j)' \in Terminal => Earned(rows'[j]))
  <2>1. CASE i # j
    BY <1>1, <1>3, <1>19, <2>1
  <2>2. CASE i = j
    BY <1>4, <1>5, <1>6, <1>7, <1>8, <1>9, <1>10, <1>11, <1>12, <1>13, <1>14, <1>15, <1>16,
       <1>17, <1>18, <1>19, <2>2 DEF RunStep
  <2> QED
    BY <2>1, <2>2
<1> QED
  BY <1>4, <1>19 DEF JobsNext

\* If no write of the sweep is lost, a job ends as succeeded only when every
\* target of it succeeded, and its outcome counts the targets, whatever the
\* runner reports, whenever it is canceled and wherever the process crashes.
THEOREM SuccessIsEarned == "sweep" \notin FaultPoints /\ JobsSpec => []SuccessIsReal
<1> SUFFICES ASSUME "sweep" \notin FaultPoints PROVE JobsSpec => []SuccessIsReal
  OBVIOUS
<1>1. JobsInit => VerdictInv
  <2> SUFFICES ASSUME JobsInit PROVE VerdictInv
    OBVIOUS
  <2>1. \A j \in Jobs : Status(j) = "unused" /\ runner[j].pc = "off"
    BY NoRowType DEF JobsInit, Status, Absent, Off
  <2> QED
    BY <2>1 DEF VerdictInv, Counted, SuccessIsReal, Terminal
<1>2. JobsInv /\ JobsInv' /\ VerdictInv /\ [JobsNext]_jobsVars => VerdictInv'
  BY NextVerdict
<1>3. VerdictInv => SuccessIsReal
  BY DEF VerdictInv
<1> QED
  BY <1>1, <1>2, <1>3, JobsInvariant, PTL DEF JobsSpec

-----------------------------------------------------------------------------
(* Progress.                                                               *)

LEMMA ProgressStep ==
  ASSUME JobsInv, JobsNext, NEW j \in Jobs, Present(j), rows'[j].status \notin Absent
  PROVE  rows[j].progress <= rows'[j].progress
<1>a. /\ rows \in [Jobs -> Rows] /\ rows[j] \in Rows
      /\ rows[j].progress \in 0 .. 100 /\ rows[j].progress <= rows[j].progress
  <2>1. rows \in [Jobs -> Rows] /\ rows[j] \in Rows
    BY DEF JobsInv, JobsTypeOK
  <2> QED
    BY <2>1 DEF Rows
<1>1. ASSUME NEW i \in Jobs,
             \/ \E ts \in SUBSET Targets : Create(i, ts)
             \/ RegisterJob(i) \/ RequestCancel(i) \/ CallCancel(i)
             \/ \E t \in Targets, result \in Results : Report(i, t, result)
             \/ \E p \in ProgressValues : UpdateProgress(i, p)
             \/ RunStep(i) \/ Prune(i) \/ RecoverJob(i),
             i # j
      PROVE  rows'[j] = rows[j]
  BY <1>a, <1>1 DEF Create, RegisterJob, RequestCancel, CallCancel, Report, RecordTarget,
     UpdateProgress, RunStep, Prune, RecoverJob, MarkRunning, MarkFails, RunnerReturns,
     GetFails, Sweep, SweepFails, Complete, CompleteFails, Notify, Leave, At
<1>2. CASE \/ PauseIfIdle \/ Resume \/ ProcessDies \/ Start \/ Reload \/ RecoverFails \/ Recovered
           \/ CallCancel(j) \/ RegisterJob(j) \/ MarkFails(j) \/ GetFails(j) \/ CompleteFails(j)
           \/ Notify(j) \/ Leave(j)
           \/ \E err \in BOOLEAN : RunnerReturns(j, err)
           \/ \E t \in Targets : SweepFails(j, t)
  <2>1. rows' = rows
    BY <1>2 DEF PauseIfIdle, Resume, ProcessDies, Start, Reload, RecoverFails, Recovered, CallCancel,
       RegisterJob, MarkFails, GetFails, CompleteFails, Notify, Leave, RunnerReturns, SweepFails
  <2> QED
    BY <1>a, <2>1
<1>3. ASSUME NEW ts \in SUBSET Targets, Create(j, ts) PROVE FALSE
  BY <1>3 DEF Create, Present, Absent
<1>4. CASE Prune(j)
  <2>1. rows'[j].status = "gone"
    BY <1>4, <1>a, NoRowType DEF Prune, Absent
  <2> QED
    BY <2>1 DEF Absent
<1>5. CASE RequestCancel(j)
  <2>1. rows'[j].progress = rows[j].progress
    BY <1>5, <1>a DEF RequestCancel, Rows
  <2> QED
    BY <1>a, <2>1
<1>6. CASE MarkRunning(j)
  <2>1. rows'[j] = Marked(rows[j])
    BY <1>6, <1>a DEF MarkRunning
  <2> QED
    BY <1>a, <2>1, MarkedRow
<1>7. ASSUME NEW t \in Targets, NEW result \in Results, RecordTarget(j, t, result)
      PROVE  rows[j].progress <= rows'[j].progress
  <2>1. rows'[j] = WithResult(rows[j], t, result) /\ t \in DOMAIN rows[j].target
    BY <1>7, <1>a DEF RecordTarget
  <2> QED
    BY <1>a, <2>1, RecordedRow
<1>8. ASSUME NEW t \in Targets, Sweep(j, t)
      PROVE  rows[j].progress <= rows'[j].progress
  BY <1>7, <1>8 DEF Sweep, Swept, Results
<1>9. ASSUME NEW p \in ProgressValues, UpdateProgress(j, p)
      PROVE  rows[j].progress <= rows'[j].progress
  <2>1. p \in Int /\ p > rows[j].progress /\ rows'[j].progress = p
    BY <1>9, <1>a, JobsAssumption DEF UpdateProgress, Rows, JobsAssumption
  <2> QED
    BY <1>a, <2>1
<1>10. CASE Complete(j)
  <2> DEFINE verdict == Verdict(rows[j].target, runner[j].err, j \in ctxDone)
  <2>1. rows'[j] = Closed(rows[j], verdict)
    BY <1>10, <1>a DEF Complete
  <2>2. verdict.status \in Terminal /\ verdict.outcome \in Outcomes
    BY VerdictType
  <2> HIDE DEF verdict
  <2>3. rows'[j].progress = 100
    BY <1>a, <2>1, <2>2, ClosedRow
  <2> QED
    BY <1>a, <2>3
<1>11. CASE RecoverJob(j)
  <2>1. rows'[j] = Broken(rows[j])
    BY <1>11, <1>a DEF RecoverJob
  <2>2. rows'[j].progress = 100
    BY <1>a, <2>1, BrokenRow
  <2> QED
    BY <1>a, <2>2
<1>12. CASE \E t \in Targets, result \in Results : Report(j, t, result)
  BY <1>7, <1>12 DEF Report
<1> QED
  BY <1>a, <1>1, <1>2, <1>3, <1>4, <1>5, <1>6, <1>8, <1>9, <1>10, <1>11, <1>12 DEF JobsNext, RunStep

\* No mix of progress updates, target results, completion and recovery moves
\* the progress of a job back.
THEOREM ProgressNeverRegresses == JobsSpec => ProgressForward
<1>1. ASSUME JobsInv, [JobsNext]_jobsVars
      PROVE  [\A j \in Jobs : Present(j) /\ rows'[j].status \notin Absent
                                => rows[j].progress <= rows'[j].progress]_jobsVars
  BY <1>1, ProgressStep
<1> QED
  BY <1>1, JobsInvariant, PTL DEF JobsSpec, ProgressForward
=============================================================================
