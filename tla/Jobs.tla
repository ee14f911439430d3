-------------------------------- MODULE Jobs --------------------------------
(***************************************************************************)
(* The background-job service of the controller (internal/jobs).  A job is *)
(* a row of the database with one row per target; its runner is a          *)
(* goroutine of the process.  Every method of the store is one immediate   *)
(* SQLite transaction (models/models.go opens the database with            *)
(* _txlock=immediate), hence one step here; everything the service does    *)
(* between two transactions may interleave with the other goroutines, and  *)
(* the process may die between any two of them.                            *)
(*                                                                         *)
(* Kinds, rooms, messages, error texts, byte counters and the event table  *)
(* are left out.                                                           *)
(***************************************************************************)
EXTENDS Integers, FiniteSets

CONSTANTS Jobs,            \* the identifiers uuid.NewString may return
          Targets,         \* the targets a job may have
          ProgressValues,  \* the percentages runners pass to UpdateProgress
          FaultPoints,     \* the transactions whose database error is modelled
          MaxFaults,       \* bound: database errors in one behaviour
          MaxCrashes,      \* bound: process crashes and reloads
          NoJob            \* not a job: nobody is inside SubmitFactory

ASSUME JobsAssumption == /\ NoJob \notin Jobs
                         /\ IsFiniteSet(Targets)
                         /\ ProgressValues \subseteq 0 .. 99
                         /\ FaultPoints \subseteq {"mark", "get", "sweep", "complete", "recover"}
                         /\ MaxFaults \in Nat /\ MaxCrashes \in Nat

VARIABLES rows,        \* the job table with its targets
          runPhase,       \* the process: down, recovering (NewService) or up
          submitting,  \* the job SubmitFactory has created and not yet registered
          paused,      \* Service.paused
          cancels,     \* the keys of Service.cancels
          ctxDone,     \* the jobs whose context is canceled
          cancelling,  \* the jobs a Cancel call has marked and not yet looked up
          runner,      \* the goroutine of Service.run of each job
          noted,       \* the status each job's completion listeners were given
          faults,      \* database errors so far
          crashes      \* crashes and reloads so far

jobsVars == <<rows, runPhase, submitting, paused, cancels, ctxDone, cancelling,
              runner, noted, faults, crashes>>

Terminal == {"succeeded", "failed", "canceled"}
Live     == {"queued", "running"}
Statuses == Terminal \cup Live
Outcomes == {"pending", "full", "partial", "none"}
Results  == {"succeeded", "failed", "canceled"}
Quiet    == "none"                    \* no listener was called

\* A row, also before Create ("unused") and after Prune ("gone").
Absent == {"unused", "gone"}
Rows   == [status   : Statuses \cup Absent,
           outcome  : Outcomes,
           cancelRequested : BOOLEAN,
           progress : 0 .. 100,
           target   : UNION {[ts -> Statuses] : ts \in SUBSET Targets}]

NoRow(status) == [status |-> status, outcome |-> "pending", cancelRequested |-> FALSE,
                  progress |-> 0, target |-> [t \in {} |-> "queued"]]

Status(j)  == rows[j].status
Present(j) == Status(j) \notin Absent

\* The goroutine of Service.run: its program point, the targets its sweep has
\* left, whether the runner returned an error, and the job it is to announce.
Points  == {"off", "start", "work", "sweep", "notify", "leave"}
Runners == [pc : Points, left : SUBSET Targets, err : BOOLEAN,
            result : Terminal \cup {Quiet}]
Off     == [pc |-> "off", left |-> {}, err |-> FALSE, result |-> Quiet]
Idle(j) == runner[j].pc = "off"

At(j, point) == runner' = [runner EXCEPT ![j].pc = point]

JobsInit == /\ rows = [j \in Jobs |-> NoRow("unused")]
            /\ runPhase = "up" /\ submitting = NoJob /\ paused = FALSE
            /\ cancels = {} /\ ctxDone = {} /\ cancelling = {}
            /\ runner = [j \in Jobs |-> Off]
            /\ noted = [j \in Jobs |-> Quiet]
            /\ faults = 0 /\ crashes = 0

\* A transaction at this point may fail and leave the database as it was.
Fault(point) == /\ point \in FaultPoints /\ faults < MaxFaults
                /\ faults' = faults + 1

-----------------------------------------------------------------------------
(* SubmitFactory holds submitMu from its test of paused to its return; the *)
(* row is visible to everyone from Create on, the cancel function only     *)
(* from Register on.                                                       *)

Queued(ts) == [NoRow("queued") EXCEPT !.target = [t \in ts |-> "queued"]]

Create(j, ts) == /\ runPhase = "up" /\ submitting = NoJob /\ ~paused
                 /\ Status(j) = "unused"
                 /\ rows' = [rows EXCEPT ![j] = Queued(ts)]
                 /\ submitting' = j
                 /\ UNCHANGED <<runPhase, paused, cancels, ctxDone, cancelling, runner,
                                noted, faults, crashes>>

RegisterJob(j) == /\ submitting = j
                  /\ submitting' = NoJob
                  /\ cancels' = cancels \cup {j}
                  /\ runner' = [runner EXCEPT ![j] = [Off EXCEPT !.pc = "start"]]
                  /\ UNCHANGED <<rows, runPhase, paused, ctxDone, cancelling, noted,
                                 faults, crashes>>

\* Mutant of PauseIfIdle: the table of cancel functions is not looked at.
PauseBusy == /\ runPhase = "up" /\ submitting = NoJob
             /\ ~paused
             /\ paused' = TRUE
             /\ UNCHANGED <<rows, runPhase, submitting, cancels, ctxDone, cancelling,
                            runner, noted, faults, crashes>>

PauseIfIdle == /\ runPhase = "up" /\ submitting = NoJob
               /\ ~paused /\ cancels = {}
               /\ paused' = TRUE
               /\ UNCHANGED <<rows, runPhase, submitting, cancels, ctxDone, cancelling,
                              runner, noted, faults, crashes>>

Resume == /\ paused /\ submitting = NoJob
          /\ paused' = FALSE
          /\ UNCHANGED <<rows, runPhase, submitting, cancels, ctxDone, cancelling,
                         runner, noted, faults, crashes>>

\* Cancel is RequestCancel, then the look-up of the cancel function and its call.
RequestCancel(j) == /\ runPhase = "up" /\ j \notin cancelling
                    /\ Status(j) \in Live
                    /\ rows' = [rows EXCEPT ![j].cancelRequested = TRUE]
                    /\ cancelling' = cancelling \cup {j}
                    /\ UNCHANGED <<runPhase, submitting, paused, cancels, ctxDone, runner,
                                   noted, faults, crashes>>

CallCancel(j) == /\ j \in cancelling
                 /\ cancelling' = cancelling \ {j}
                 /\ ctxDone' = ctxDone \cup ({j} \cap cancels)
                 /\ UNCHANGED <<rows, runPhase, submitting, paused, cancels, runner,
                                noted, faults, crashes>>

-----------------------------------------------------------------------------
(* Service.run.                                                            *)

Marked(row) == [row EXCEPT !.status = "running",
                           !.target = [t \in DOMAIN @ |->
                              IF @[t] = "queued" THEN "running" ELSE @[t]]]

MarkRunning(j) == /\ runner[j].pc = "start"
                  /\ Status(j) = "queued"
                  /\ rows' = [rows EXCEPT ![j] = Marked(@)]
                  /\ At(j, "work")
                  /\ UNCHANGED <<runPhase, submitting, paused, cancels, ctxDone, cancelling,
                                 noted, faults, crashes>>

\* The transaction failed: run returns, the row stays queued.  (Its other
\* errors, like those of Get and Complete, need a row that somebody else has
\* moved; nobody does, since only dead jobs are recovered.)
MarkFails(j) == /\ runner[j].pc = "start"
                /\ Fault("mark")
                /\ At(j, "leave")
                /\ UNCHANGED <<rows, runPhase, submitting, paused, cancels, ctxDone,
                               cancelling, noted, crashes>>

\* CASE WHEN progress < ? THEN ? ELSE progress END
Larger(a, b) == IF a < b THEN b ELSE a

\* RecordTarget: only a running target, and the progress of the finished ones.
\* A report whose transaction fails is one the runner never made.
Finished(tg) == (Cardinality({t \in DOMAIN tg : tg[t] \in Results}) * 100)
                  \div Cardinality(DOMAIN tg)

WithResult(row, t, result) ==
  LET tg == [row.target EXCEPT ![t] = result]
  IN  [row EXCEPT !.target = tg, !.progress = Larger(@, Finished(tg))]

RecordTarget(j, t, result) ==
  /\ Present(j) /\ t \in DOMAIN rows[j].target /\ rows[j].target[t] = "running"
  /\ rows' = [rows EXCEPT ![j] = WithResult(@, t, result)]

Report(j, t, result) == /\ runner[j].pc = "work"
                        /\ RecordTarget(j, t, result)
                        /\ UNCHANGED <<runPhase, submitting, paused, cancels, ctxDone,
                                       cancelling, runner, noted, faults, crashes>>

\* A percentage below the stored one is dropped, or kept at the stored one.
UpdateProgress(j, p) == /\ runner[j].pc = "work"
                        /\ Status(j) = "running" /\ p > rows[j].progress
                        /\ rows' = [rows EXCEPT ![j].progress = p]
                        /\ UNCHANGED <<runPhase, submitting, paused, cancels, ctxDone,
                                       cancelling, runner, noted, faults, crashes>>

\* The runner returns, and Get reads the targets it has left running.
RunnerReturns(j, err) ==
  /\ runner[j].pc = "work"
  /\ runner' = [runner EXCEPT ![j].pc = "sweep", ![j].err = err,
                              ![j].left = {t \in DOMAIN rows[j].target :
                                             rows[j].target[t] = "running"}]
  /\ UNCHANGED <<rows, runPhase, submitting, paused, cancels, ctxDone, cancelling,
                 noted, faults, crashes>>

GetFails(j) == /\ runner[j].pc = "work"
               /\ Fault("get")
               /\ At(j, "leave")
               /\ UNCHANGED <<rows, runPhase, submitting, paused, cancels, ctxDone,
                              cancelling, noted, crashes>>

\* A target without a result fails, or is canceled if the context is.
Swept(j) == IF j \in ctxDone THEN "canceled" ELSE "failed"

Sweep(j, t) == /\ runner[j].pc = "sweep" /\ t \in runner[j].left
               /\ RecordTarget(j, t, Swept(j))
               /\ runner' = [runner EXCEPT ![j].left = @ \ {t}]
               /\ UNCHANGED <<runPhase, submitting, paused, cancels, ctxDone, cancelling,
                              noted, faults, crashes>>

\* The error of this RecordTarget is ignored: the loop goes on.
SweepFails(j, t) == /\ runner[j].pc = "sweep" /\ t \in runner[j].left
                    /\ Fault("sweep")
                    /\ runner' = [runner EXCEPT ![j].left = @ \ {t}]
                    /\ UNCHANGED <<rows, runPhase, submitting, paused, cancels, ctxDone,
                                   cancelling, noted, crashes>>

-----------------------------------------------------------------------------
(* Complete.                                                               *)

Has(tg, results) == \E t \in DOMAIN tg : tg[t] \in results

CompletionOutcome(tg, unsuccessful) ==
  IF Has(tg, {"succeeded"}) THEN IF Has(tg, unsuccessful) THEN "partial" ELSE "full"
                            ELSE "none"

\* Mutant of Verdict: the targets are not counted.
VerdictOfError(tg, err, canceled) ==
  CASE canceled -> [status |-> "canceled",
                    outcome |-> CompletionOutcome(tg, {"failed", "canceled"})]
    [] ~canceled /\ err -> [status |-> "failed", outcome |-> CompletionOutcome(tg, {"failed"})]
    [] OTHER -> [status |-> "succeeded", outcome |-> "full"]

Verdict(tg, err, canceled) ==
  CASE canceled \/ Has(tg, {"canceled"}) ->
         [status |-> "canceled", outcome |-> CompletionOutcome(tg, {"failed", "canceled"})]
    [] ~(canceled \/ Has(tg, {"canceled"})) /\ (err \/ Has(tg, {"failed"})) ->
         [status |-> "failed", outcome |-> CompletionOutcome(tg, {"failed"})]
    [] OTHER -> [status |-> "succeeded", outcome |-> "full"]

Closed(row, verdict) == [row EXCEPT !.status = verdict.status,
                                    !.outcome = verdict.outcome,
                                    !.progress = 100]

Complete(j) ==
  /\ runner[j].pc = "sweep" /\ runner[j].left = {}
  /\ Status(j) = "running"
  /\ LET verdict == Verdict(rows[j].target, runner[j].err, j \in ctxDone)
     IN  /\ rows' = [rows EXCEPT ![j] = Closed(@, verdict)]
         /\ runner' = [runner EXCEPT ![j].pc = "notify", ![j].result = verdict.status]
  /\ UNCHANGED <<runPhase, submitting, paused, cancels, ctxDone, cancelling, noted,
                 faults, crashes>>

CompleteFails(j) == /\ runner[j].pc = "sweep" /\ runner[j].left = {}
                    /\ Fault("complete")
                    /\ At(j, "leave")
                    /\ UNCHANGED <<rows, runPhase, submitting, paused, cancels, ctxDone,
                                   cancelling, noted, crashes>>

\* notifyCompletion and notifyLifecycle; a listener that panics is recovered.
Notify(j) == /\ runner[j].pc = "notify"
             /\ noted' = [noted EXCEPT ![j] = runner[j].result]
             /\ At(j, "leave")
             /\ UNCHANGED <<rows, runPhase, submitting, paused, cancels, ctxDone,
                            cancelling, faults, crashes>>

\* The deferred function of run.
Leave(j) == /\ runner[j].pc = "leave"
            /\ runner' = [runner EXCEPT ![j] = Off]
            /\ cancels' = cancels \ {j}
            /\ ctxDone' = ctxDone \cup ({j} \cap cancels)
            /\ UNCHANGED <<rows, runPhase, submitting, paused, cancelling, noted, faults, crashes>>

\* A pass of RunRetention deletes, by age or by number, any terminal jobs in one
\* transaction; taking them one at a time only adds interleavings.
Prune(j) == /\ runPhase = "up" /\ Status(j) \in Terminal
            /\ rows' = [rows EXCEPT ![j] = NoRow("gone")]
            /\ UNCHANGED <<runPhase, submitting, paused, cancels, ctxDone, cancelling,
                           runner, noted, faults, crashes>>

-----------------------------------------------------------------------------
(* A crash stops every goroutine.  RuntimeHost.apply replaces the runtime  *)
(* of a paused service inside one process: it stops no job runner, it      *)
(* relies on PauseIfIdle that there is none.  Both run NewService.         *)

ProcessDies == /\ runPhase # "down" /\ crashes < MaxCrashes
               /\ crashes' = crashes + 1
               /\ runPhase' = "down" /\ submitting' = NoJob /\ paused' = FALSE
               /\ cancels' = {} /\ ctxDone' = {} /\ cancelling' = {}
               /\ runner' = [j \in Jobs |-> Off]
               /\ UNCHANGED <<rows, noted, faults>>

Start == /\ runPhase = "down"
         /\ runPhase' = "recovering"
         /\ UNCHANGED <<rows, submitting, paused, cancels, ctxDone, cancelling,
                        runner, noted, faults, crashes>>

Reload == /\ runPhase = "up" /\ paused /\ cancelling = {} /\ crashes < MaxCrashes
          /\ crashes' = crashes + 1
          /\ runPhase' = "recovering" /\ paused' = FALSE
          /\ cancels' = {}
          /\ UNCHANGED <<rows, submitting, ctxDone, cancelling, runner, noted, faults>>

\* RecoverInterrupted: one transaction per interrupted job, no listener called.
Interrupted == {j \in Jobs : Status(j) \in Live}

Broken(row) ==
  LET tg == [t \in DOMAIN row.target |->
               IF row.target[t] \in Live THEN "failed" ELSE row.target[t]]
  IN  [Closed(row, [status |-> "failed",
                    outcome |-> CompletionOutcome(tg, {"failed", "canceled"})])
         EXCEPT !.target = tg]

\* Mutant of RecoverJob: ended jobs are recovered too.
RecoverJobTwice(j) == /\ runPhase = "recovering" /\ Present(j)
                      /\ rows' = [rows EXCEPT ![j] = Broken(@)]
                      /\ UNCHANGED <<runPhase, submitting, paused, cancels, ctxDone,
                                     cancelling, runner, noted, faults, crashes>>

RecoverJob(j) == /\ runPhase = "recovering" /\ j \in Interrupted
                 /\ rows' = [rows EXCEPT ![j] = Broken(@)]
                 /\ UNCHANGED <<runPhase, submitting, paused, cancels, ctxDone, cancelling,
                                runner, noted, faults, crashes>>

\* NewService returns an error and the process exits.
RecoverFails == /\ runPhase = "recovering" /\ Interrupted # {}
                /\ Fault("recover")
                /\ runPhase' = "down"
                /\ UNCHANGED <<rows, submitting, paused, cancels, ctxDone, cancelling,
                               runner, noted, crashes>>

\* Mutant of Recovered: only jobs that had started are recovered.
RecoveredRunningOnly == /\ runPhase = "recovering"
                        /\ \A j \in Jobs : Status(j) # "running"
                        /\ runPhase' = "up"
                        /\ UNCHANGED <<rows, submitting, paused, cancels, ctxDone,
                                       cancelling, runner, noted, faults, crashes>>

Recovered == /\ runPhase = "recovering" /\ Interrupted = {}
             /\ runPhase' = "up"
             /\ UNCHANGED <<rows, submitting, paused, cancels, ctxDone, cancelling,
                            runner, noted, faults, crashes>>

-----------------------------------------------------------------------------
RunStep(j) == \/ MarkRunning(j) \/ MarkFails(j)
              \/ \E err \in BOOLEAN : RunnerReturns(j, err)
              \/ GetFails(j)
              \/ \E t \in Targets : Sweep(j, t) \/ SweepFails(j, t)
              \/ Complete(j) \/ CompleteFails(j)
              \/ Notify(j) \/ Leave(j)

JobsNext == \/ \E j \in Jobs : \/ \E ts \in SUBSET Targets : Create(j, ts)
                               \/ RegisterJob(j)
                               \/ RequestCancel(j) \/ CallCancel(j)
                               \/ \E t \in Targets, result \in Results : Report(j, t, result)
                               \/ \E p \in ProgressValues : UpdateProgress(j, p)
                               \/ RunStep(j)
                               \/ Prune(j)
                               \/ RecoverJob(j)
            \/ PauseIfIdle \/ Resume
            \/ ProcessDies \/ Start \/ Reload \/ RecoverFails \/ Recovered

JobsSpec == JobsInit /\ [][JobsNext]_jobsVars

\* The scheduler runs every goroutine, a runner returns (every runner works
\* under timeouts of its own), and a dead process is started again.
JobsFairness == /\ \A j \in Jobs : /\ WF_jobsVars(RegisterJob(j))
                                   /\ WF_jobsVars(RunStep(j))
                                   /\ WF_jobsVars(RecoverJob(j))
                /\ WF_jobsVars(Start) /\ WF_jobsVars(Recovered)

FairJobsSpec == JobsSpec /\ JobsFairness

-----------------------------------------------------------------------------
(* Properties.                                                             *)

JobsTypeOK == /\ rows \in [Jobs -> Rows]
              /\ runPhase \in {"down", "recovering", "up"}
              /\ submitting \in Jobs \cup {NoJob}
              /\ paused \in BOOLEAN
              /\ cancels \subseteq Jobs /\ ctxDone \subseteq Jobs /\ cancelling \subseteq Jobs
              /\ runner \in [Jobs -> Runners]
              /\ noted \in [Jobs -> Terminal \cup {Quiet}]
              /\ faults \in 0 .. MaxFaults /\ crashes \in 0 .. MaxCrashes

\* While PauseIfIdle holds the service, no runner is at any point of
\* Service.run, its listeners and its deferred clean-up included, and no
\* submission is half done: this is what RuntimeHost.apply relies on when it
\* replaces the runtime.
PauseQuiet == paused => submitting = NoJob /\ \A j \in Jobs : Idle(j)

\* RecoverInterrupted only ever fails a job nobody is running: after a crash,
\* and after a reload that kept the process.
OnlyDeadRecovered ==
  [][\A j \in Jobs : runPhase = "recovering" /\ rows'[j] # rows[j] => Idle(j)]_jobsVars

\* A job that has ended never changes again, targets and outcome included,
\* until Prune removes it.
TerminalFinal ==
  [][\A j \in Jobs : Status(j) \in Terminal => rows'[j] \in {rows[j], NoRow("gone")}]_jobsVars

\* A listener is called after the result it is given has been committed.
NotifiedPersisted ==
  \A j \in Jobs : noted[j] # Quiet => Status(j) \in {"gone", noted[j]}

\* Without a database error, every queued or running job of a working service
\* has a goroutine that will end it: nothing but an error leaves a job that
\* only the next start can end.
NoOrphan ==
  runPhase = "up" /\ faults = 0 =>
     \A j \in Interrupted : submitting = j \/ ~Idle(j)

\* Every target has a result, a succeeded row has only succeeded targets, and
\* the outcome counts the targets.
Earned(row) ==
  /\ \A t \in DOMAIN row.target : row.target[t] \in Results
  /\ row.status = "succeeded" =>
       row.outcome = "full" /\ \A t \in DOMAIN row.target : row.target[t] = "succeeded"
  /\ row.outcome = "partial" =>
       Has(row.target, {"succeeded"}) /\ Has(row.target, {"failed", "canceled"})
  /\ row.outcome = "none" => ~Has(row.target, {"succeeded"})

\* A job is succeeded only if every target of it is, and the outcome of an
\* ended job is what its targets say, whether its runner reported them, the
\* sweep of run filled them in, or recovery did.
SuccessIsReal == \A j \in Jobs : Status(j) \in Terminal => Earned(rows[j])

\* The progress of a job never goes back, whatever mix of UpdateProgress,
\* RecordTarget, Complete and recovery writes it.
ProgressForward ==
  [][\A j \in Jobs : Present(j) /\ rows'[j].status \notin Absent
                       => rows[j].progress <= rows'[j].progress]_jobsVars

\* A Cancel call that has returned has canceled the context its runner works
\* under.
CancelHonoured ==
  \A j \in Jobs : Present(j) /\ rows[j].cancelRequested /\ j \notin cancelling
                    /\ runner[j].pc = "work" => j \in ctxDone

\* Every job ends, across crashes and reloads: by its runner, or by the recovery
\* of the next start.  Only a database error can leave it without a goroutine, to
\* a start that need not come.
Left(j) == faults > 0 /\ runPhase = "up" /\ submitting # j /\ Idle(j)

JobEnds == \A j \in Jobs : Status(j) \in Live ~> Status(j) \notin Live \/ Left(j)
=============================================================================
