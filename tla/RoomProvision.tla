---------------------------- MODULE RoomProvision ----------------------------
(***************************************************************************)
(* The provisioning of a room (internal/roomprovision): the worlds of a    *)
(* room that was made on the controller's machine are put on the machines  *)
(* their placement wants.  The coordinator stops the worlds, imports each  *)
(* moved one on its target, replaces the room's own cluster.ini, records a *)
(* decision, switches the placement, and starts what was running: on the   *)
(* targets after the decision, at home if it is undone before.  Its row    *)
(* lets a later process, or a user's request, finish or undo it.           *)
(*                                                                         *)
(* A run of the coordinator is the first one or a recovery; runs exclude   *)
(* one another by the room's lock, and a recovery reads the row before it  *)
(* waits for the lock.  The machines are those of PlacementMigration; here *)
(* each of their handlers is one step, and a call fails before or after    *)
(* its effect, or has its effect late.  Nobody else starts or stops worlds *)
(* of the room before the operation has ended.                             *)
(***************************************************************************)
EXTENDS Integers, FiniteSets

CONSTANTS
    LastShard,      \* the worlds are 1 .. LastShard, in the order of their steps
    MovedShards,    \* the worlds whose wanted machine is another one
    ClusterChanges, \* the room's own cluster.ini changes with the placement
    MaxSlips,       \* bound: calls, saves and file writes that fail
    MaxFalls,       \* bound: deaths of the controller
    MaxAsks,        \* bound: recoveries
    MaxPlanEdits    \* bound: edits of the plan of the room

Shards == 1 .. LastShard

ASSUME ProvisionAssumption ==
    /\ {LastShard, MaxSlips, MaxFalls, MaxAsks, MaxPlanEdits} \subseteq Nat
    /\ MovedShards \subseteq Shards /\ MovedShards # {}
    /\ ClusterChanges \in BOOLEAN

VARIABLES
    operation,   \* the operation's row: phase and status
    steps,       \* steps[w]: the row of a world's step: phase and whether it is up again
    wasUp,       \* wasUp[w]: the step's WasRunning
    worker,      \* the run that holds the room's lock
    request,     \* a recovery that has read the row and waits for the lock
    copy,        \* copy[w]: a moved world on its target
    token,       \* the fencing token given last
    met,         \* met[w]: the greatest token the target of w has admitted
    tardy,       \* calls that were given up and may still be executed
    clusterIni,  \* the room's own cluster.ini: "old" or "new"
    stageDir,    \* its stage directory
    switched,    \* the applied placement is the wanted one
    plan,        \* what edits did to the plan since the operation began
    atHome,      \* atHome[w]: w runs where it was
    away,        \* away[w]: w runs on its target
    unmarked,    \* history: cluster.ini was replaced and the marker was not written
    misdecided,  \* history: the save of the decision took effect and failed
    overtaken,   \* history: a recovery worked on a row that had changed since
    intruded,    \* history: worlds whose import was begun by a late call
    count        \* how often each bounded thing happened

rowVars == <<operation, steps, wasUp>>
nodeFiles == <<copy, met, tardy, intruded>>
ownFiles == <<clusterIni, stageDir, unmarked>>
placing == <<switched, plan>>
processes == <<atHome, away>>
provVars == <<rowVars, worker, request, token, nodeFiles, ownFiles, placing, processes,
              misdecided, overtaken, count>>

StepPhases == {"existing", "not_started", "planned", "uploading", "published",
               "completed", "rolled_back"}
OperationPhases == {"planned", "stopping", "stopped", "uploading", "commit_decided",
                    "topology_committed", "runtime_restore_target",
                    "runtime_restore_source", "completed", "rolled_back"}
StepRows == [phase : StepPhases, back : BOOLEAN]
Headers == [phase : OperationPhases,
            status : {"running", "recovery_required", "succeeded", "rolled_back"}]
NoOperation == [phase |-> "none", status |-> "none"]

\* The places of a run: a save of the row, a save of a step, a call, a local act.
SavePlaces == {"stopping", "stopped", "uploading", "decide", "applied", "restore", "end",
               "close", "require"}
StepPlaces == {"planned", "unsent", "writing", "published", "completed", "undone", "started"}
CallPlaces == {"halt", "begin", "write", "commit", "complete", "undo", "start"}
LocalPlaces == {"idle", "stage", "recheck", "publish", "mark", "apply", "unstage", "revert",
                "resolve"}

\* The run that is not there, and the one that starts at a place with a row.
Nobody == [at |-> "idle", first |-> FALSE, shard |-> 0, head |-> NoOperation,
           steps |-> [w \in Shards |-> [phase |-> "not_started", back |-> FALSE]],
           staged |-> FALSE, forward |-> FALSE, bad |-> FALSE]
NoAsk == [head |-> NoOperation, steps |-> Nobody.steps]

ProvTypeOK ==
    /\ operation \in Headers \cup {NoOperation}
    /\ steps \in [Shards -> StepRows]
    /\ wasUp \in [Shards -> BOOLEAN]
    /\ worker \in [at : SavePlaces \cup StepPlaces \cup CallPlaces \cup LocalPlaces,
                   first : BOOLEAN, shard : 0 .. LastShard, head : Headers \cup {NoOperation},
                   steps : [Shards -> StepRows], staged : BOOLEAN, forward : BOOLEAN,
                   bad : BOOLEAN]
    /\ request \in [head : Headers \cup {NoOperation}, steps : [Shards -> StepRows]]
    /\ copy \in [MovedShards -> {"none", "begun", "full", "published", "live"}]
    /\ token \in 0 .. MaxAsks + 1
    /\ met \in [MovedShards -> 0 .. MaxAsks + 1]
    /\ tardy \subseteq [call : CallPlaces, shard : MovedShards, token : 1 .. MaxAsks + 1]
    /\ clusterIni \in {"old", "new"}
    /\ stageDir \in {"none", "original", "staged", "marked"}
    /\ {switched, unmarked, misdecided, overtaken} \subseteq BOOLEAN
    /\ plan \in {"as_read", "resaved", "changed"}
    /\ atHome \in [Shards -> BOOLEAN] /\ away \in [MovedShards -> BOOLEAN]
    /\ intruded \subseteq MovedShards
    /\ count \in [slips : 0 .. MaxSlips, falls : 0 .. MaxFalls, asks : 0 .. MaxAsks,
                  edits : 0 .. MaxPlanEdits]

ProvInit ==
    /\ operation = NoOperation
    /\ steps = Nobody.steps /\ wasUp = [w \in Shards |-> FALSE]
    /\ worker = Nobody /\ request = NoAsk
    /\ copy = [w \in MovedShards |-> "none"]
    /\ token = 0 /\ met = [w \in MovedShards |-> 0] /\ tardy = {}
    /\ clusterIni = "old" /\ stageDir = "none"
    /\ switched = FALSE /\ plan = "as_read"
    /\ atHome \in [Shards -> BOOLEAN] /\ away = [w \in MovedShards |-> FALSE]
    /\ unmarked = FALSE /\ misdecided = FALSE /\ overtaken = FALSE /\ intruded = {}
    /\ count = [slips |-> 0, falls |-> 0, asks |-> 0, edits |-> 0]

-----------------------------------------------------------------------------
(* How a run goes on *)

Slip == count.slips < MaxSlips /\ count' = [count EXCEPT !.slips = @ + 1]
Smooth == UNCHANGED count

\* The next world after w in a set; 0 if there is none.
NextIn(w, S) == LET T == {v \in S : v > w} IN
               IF T = {} THEN 0 ELSE CHOOSE v \in T : \A u \in T : v <= u
PrevIn(w, S) == LET T == {v \in S : v < w} IN
               IF T = {} THEN 0 ELSE CHOOSE v \in T : \A u \in T : v >= u

\* A run at a place, at the first or next world of S that the place is for, or, if
\* there is none, at the place after it.
Walk(m, place, S, then) ==
    LET w == NextIn(m.shard, S) IN
    IF w # 0 THEN [m EXCEPT !.at = place, !.shard = w]
    ELSE [m EXCEPT !.at = then, !.shard = 0]
From(m) == [m EXCEPT !.shard = 0]

\* rollbackTargets goes through the steps from the last to the first.
Undoable(m) == {w \in MovedShards : m.steps[w].phase \notin {"rolled_back", "existing"}}
UndoNext(m) ==
    LET w == PrevIn(m.shard, Undoable(m)) IN
    IF w # 0 THEN [m EXCEPT !.at = "undo", !.shard = w]
    ELSE [m EXCEPT !.at = IF m.first /\ ~m.staged THEN "restore" ELSE "revert", !.shard = 0]

\* failBeforeDecision, and the same steps of RecoverOperation.
Undoing(m) == UndoNext([m EXCEPT !.shard = LastShard + 1, !.forward = FALSE])

\* The worlds restoreRuntimeState starts, and the places around it.
Restorable(m) == {w \in Shards : wasUp[w] /\ ~m.steps[w].back}
Restarted(m) == IF m.forward THEN "end" ELSE IF m.bad THEN "require" ELSE "close"
RestoreNext(m) == Walk(m, "start", Restorable(m), Restarted(m))

Uncompleted(m) == {w \in MovedShards : m.steps[w].phase # "completed"}
AfterCompletion(m) == IF m.first /\ ~m.staged THEN "restore" ELSE "unstage"
CompleteNext(m) == Walk(m, "complete", Uncompleted(m), AfterCompletion(m))

\* The moved worlds are transferred one by one.
TransferNext(m) == Walk(m, "uploading", MovedShards, "recheck")

\* requireRecovery keeps the phase.
Requiring(m) == [m EXCEPT !.at = "require", !.shard = 0]

\* The run ends and gives the room's lock back.
Leave == worker' = Nobody

-----------------------------------------------------------------------------
(* Runs begin and end *)

\* Provision: the plan is made and the row created.
Provision ==
    /\ operation = NoOperation /\ worker = Nobody
    /\ operation' = [phase |-> "planned", status |-> "running"]
    /\ steps' = [w \in Shards |->
                    [phase |-> IF w \in MovedShards THEN "not_started" ELSE "existing",
                     back |-> FALSE]]
    /\ wasUp' = atHome
    /\ token' = 1
    /\ worker' = [Nobody EXCEPT !.at = "stopping", !.first = TRUE, !.head = operation',
                                !.steps = steps']
    /\ UNCHANGED <<request, nodeFiles, ownFiles, placing, processes, misdecided, overtaken,
                   count>>

Ended(head) == head.status \in {"succeeded", "rolled_back"}

\* RecoverOperation, of a start-up or a request: it reads the row ...
ReadOperation ==
    /\ operation # NoOperation /\ ~Ended(operation)
    /\ request = NoAsk /\ count.asks < MaxAsks
    /\ request' = [head |-> operation, steps |-> steps]
    /\ count' = [count EXCEPT !.asks = @ + 1]
    /\ UNCHANGED <<rowVars, worker, token, nodeFiles, ownFiles, placing, processes, misdecided,
                   overtaken>>

\* Mutant of Decided: the phase that is written before the placement is switched is
\* not taken for a decision.
DecidedWhenSwitched(phase) == phase \in {"topology_committed", "runtime_restore_target"}

Decided(phase) == phase \in {"commit_decided", "topology_committed", "runtime_restore_target"}

\* ... and goes on with what it read when it has the room's lock and lease.
RecoverOperation ==
    /\ request # NoAsk /\ worker = Nobody
    /\ token' = token + 1
    /\ LET m == [Nobody EXCEPT !.head = request.head, !.steps = request.steps] IN
       worker' = IF Decided(m.head.phase)
                 THEN [m EXCEPT !.at = "resolve", !.forward = TRUE]
                 ELSE Undoing(m)
    /\ request' = NoAsk
    /\ overtaken' = (overtaken \/ request # [head |-> operation, steps |-> steps])
    /\ UNCHANGED <<rowVars, nodeFiles, ownFiles, placing, processes, misdecided, count>>

ControllerFalls ==
    /\ count.falls < MaxFalls /\ (worker # Nobody \/ request # NoAsk)
    /\ Leave /\ request' = NoAsk
    /\ count' = [count EXCEPT !.falls = @ + 1]
    /\ UNCHANGED <<rowVars, token, nodeFiles, ownFiles, placing, processes, misdecided,
                   overtaken>>

-----------------------------------------------------------------------------
(* The operation's row *)

\* What savePhase is to write at a place.
Header(m) ==
    CASE m.at = "stopping" -> [phase |-> "stopping", status |-> "running"]
      [] m.at = "stopped" -> [phase |-> "stopped", status |-> "running"]
      [] m.at = "uploading" -> [phase |-> "uploading", status |-> "running"]
      [] m.at = "decide" -> [phase |-> "commit_decided", status |-> "running"]
      [] m.at = "applied" -> [phase |-> "topology_committed", status |-> "running"]
      [] m.at = "restore" -> [phase |-> IF m.forward THEN "runtime_restore_target"
                                        ELSE "runtime_restore_source", status |-> "running"]
      [] m.at = "end" -> [phase |-> "completed", status |-> "succeeded"]
      [] m.at = "close" -> [phase |-> "rolled_back", status |-> "rolled_back"]
      [] m.at = "require" -> [phase |-> m.head.phase, status |-> "recovery_required"]

\* The worlds stopSources has to stop.
Halting(m) == Walk(m, "halt", {w \in Shards : atHome[w]}, "stopped")

\* savePhase reads the row and its steps back.
SavePhase ==
    /\ worker.at \in SavePlaces
    /\ operation' = Header(worker)
    /\ LET m == [worker EXCEPT !.head = operation', !.steps = steps] IN
       worker' = CASE m.at = "stopping" -> Halting(From(m))
                   [] m.at = "stopped" -> [m EXCEPT !.at = "stage"]
                   [] m.at = "uploading" -> [m EXCEPT !.at = "planned"]
                   [] m.at = "decide" -> [m EXCEPT !.at = "apply", !.forward = TRUE]
                   [] m.at = "applied" -> CompleteNext(From(m))
                   [] m.at = "restore" -> RestoreNext(From(m))
                   [] OTHER -> Nobody
    /\ Smooth
    /\ UNCHANGED <<steps, wasUp, request, token, nodeFiles, ownFiles, placing, processes,
                   misdecided, overtaken>>

\* It fails: before the row was written, or when it is read back.  In memory the phase
\* is the new one.
SavePhaseFails ==
    /\ worker.at \in SavePlaces /\ Slip
    /\ operation' \in {operation, Header(worker)}
    /\ misdecided' = (misdecided \/ (worker.at = "decide" /\ operation' # operation))
    /\ LET m == [worker EXCEPT !.head = Header(worker)] IN
       worker' = CASE m.at \in {"stopping", "stopped", "decide"} -> Undoing(m)
                   [] m.at = "applied" -> IF m.first THEN Requiring(m) ELSE CompleteNext(From(m))
                   [] m.at = "restore" -> Requiring(m)
                   [] OTHER -> Nobody
    /\ UNCHANGED <<steps, wasUp, request, token, nodeFiles, ownFiles, placing, processes,
                   overtaken>>

-----------------------------------------------------------------------------
(* The steps' rows *)

\* The step as memory has it after a save at a place.
StepRow(m) ==
    LET s == m.steps[m.shard] IN
    CASE m.at = "planned" -> [s EXCEPT !.phase = "planned"]
      [] m.at = "unsent" -> [s EXCEPT !.phase = "not_started"]
      [] m.at = "writing" -> [s EXCEPT !.phase = "uploading"]
      [] m.at = "published" -> [s EXCEPT !.phase = "published"]
      [] OTHER -> s

\* saveStepPhase and SaveStep.
SaveStep ==
    /\ worker.at \in StepPlaces
    /\ steps' = [steps EXCEPT ![worker.shard] = StepRow(worker)]
    /\ LET m == [worker EXCEPT !.steps[worker.shard] = StepRow(worker)] IN
       worker' = CASE m.at = "planned" -> [m EXCEPT !.at = "begin"]
                   [] m.at = "unsent" -> Undoing(m)
                   [] m.at = "writing" -> [m EXCEPT !.at = "write"]
                   [] m.at = "published" -> TransferNext(m)
                   [] m.at = "completed" -> CompleteNext(m)
                   [] m.at = "undone" -> UndoNext(m)
                   [] m.at = "started" -> RestoreNext(m)
    /\ Smooth
    /\ UNCHANGED <<operation, wasUp, request, token, nodeFiles, ownFiles, placing, processes,
                   misdecided, overtaken>>

\* It fails, written or not.  saveStepPhase leaves the copy in memory as it was; the
\* others have changed it before.  The error of the save after a rollback is ignored.
SaveStepFails ==
    /\ worker.at \in StepPlaces /\ Slip
    /\ steps' \in {steps, [steps EXCEPT ![worker.shard] = StepRow(worker)]}
    /\ worker' = CASE worker.at \in {"planned", "unsent", "writing", "published"} -> Undoing(worker)
                   [] worker.at = "completed" -> Requiring(worker)
                   [] worker.at = "undone" -> UndoNext(worker)
                   [] worker.at = "started" -> Requiring(worker)
    /\ UNCHANGED <<operation, wasUp, request, token, nodeFiles, ownFiles, placing, processes,
                   misdecided, overtaken>>

-----------------------------------------------------------------------------
(* The machines *)

\* A moved world is started on its target after the decision, and at home before; one
\* that stays has one place only.
OnTarget(m) == m.forward /\ m.shard \in MovedShards

\* A call can be executed, and what it makes of the import of its world.
CanDo(call, w) ==
    CASE call = "write" -> copy[w] = "begun"
      [] call = "commit" -> copy[w] = "full"
      [] call = "complete" -> copy[w] = "published"
      [] call = "start" -> copy[w] \in {"published", "live"}
      [] OTHER -> TRUE

Made(call, w) ==
    CASE call = "begin" /\ copy[w] \in {"none", "full"} -> "begun"
      [] call = "write" -> "full"
      [] call = "commit" -> "published"
      [] call = "complete" -> "live"
      [] call = "undo" /\ copy[w] # "live" -> "none"
      [] OTHER -> copy[w]

\* The target executes a call under a token it admits.
Execute(call, w, tok) ==
    /\ CanDo(call, w) /\ tok >= met[w]
    /\ met' = [met EXCEPT ![w] = tok]
    /\ copy' = [copy EXCEPT ![w] = Made(call, w)]
    /\ away' = IF call = "start" THEN [away EXCEPT ![w] = TRUE]
               ELSE IF Made(call, w) = "none" THEN [away EXCEPT ![w] = FALSE] ELSE away

\* What the run does when its call has succeeded.
Answered(m) ==
    CASE m.at = "halt" -> Halting(m)
      [] m.at = "begin" -> [m EXCEPT !.at = "writing"]
      [] m.at = "write" -> [m EXCEPT !.at = "commit"]
      [] m.at = "commit" -> [m EXCEPT !.at = "published"]
      [] m.at = "complete" -> [m EXCEPT !.at = "completed", !.steps[m.shard].phase = "completed"]
      [] m.at = "undo" -> [m EXCEPT !.at = "undone", !.steps[m.shard].phase = "rolled_back"]
      [] m.at = "start" -> [m EXCEPT !.at = "started", !.steps[m.shard].back = TRUE]

\* And when it has failed.  The text of the failure that is saved is left out.
Errored(m) ==
    CASE m.at \in {"halt", "planned", "begin", "write", "commit"} -> Undoing(m)
      [] m.at = "complete" -> Requiring(m)
      [] m.at = "undo" -> [m EXCEPT !.at = "undone", !.bad = TRUE]
      [] m.at = "start" -> Requiring(m)

\* Stops and starts at home, by the controller's own driver.
HomeCall == worker.at = "halt" \/ (worker.at = "start" /\ ~OnTarget(worker))
AtHome == [atHome EXCEPT ![worker.shard] = (worker.at = "start")]

CallHome ==
    /\ HomeCall
    /\ \/ atHome' = AtHome /\ worker' = Answered(worker) /\ Smooth
       \/ atHome' \in {atHome, AtHome} /\ worker' = Errored(worker) /\ Slip
    /\ UNCHANGED <<rowVars, request, token, nodeFiles, ownFiles, placing, away, misdecided,
                   overtaken>>

\* Mutant of Unbegun: a step whose import may have been begun is taken for one that
\* was never begun.
UnbegunOrPlanned(m) == m.steps[m.shard].phase \in {"not_started", "planned"}

\* rollbackTargets does not call the target of a step that was never begun.
Unbegun(m) == m.steps[m.shard].phase = "not_started"

SkipUndo ==
    /\ worker.at = "undo" /\ Unbegun(worker)
    /\ LET m == Answered(worker)
           saved == [steps EXCEPT ![m.shard] = m.steps[m.shard]]
       IN  \/ steps' = saved /\ worker' = UndoNext(m) /\ Smooth
           \/ steps' \in {steps, saved} /\ worker' = UndoNext([m EXCEPT !.bad = TRUE]) /\ Slip
    /\ UNCHANGED <<operation, wasUp, request, token, nodeFiles, ownFiles, placing, processes,
                   misdecided, overtaken>>

RemoteCall ==
    /\ worker.at \in CallPlaces /\ ~HomeCall
    /\ worker.at = "undo" => ~Unbegun(worker)

CallTarget ==
    /\ RemoteCall
    /\ Execute(worker.at, worker.shard, token)
    /\ worker' = Answered(worker)
    /\ Smooth
    /\ UNCHANGED <<rowVars, request, token, tardy, intruded, ownFiles, placing, atHome, misdecided,
                   overtaken>>

\* The target cannot do it.
CallRefused ==
    /\ RemoteCall
    /\ ~CanDo(worker.at, worker.shard)
    /\ worker' = Errored(worker)
    /\ Smooth
    /\ UNCHANGED <<rowVars, request, token, nodeFiles, ownFiles, placing, processes, misdecided,
                   overtaken>>

\* An error: the call had its effect, it has none, or it is still to have it.
TargetCallFails ==
    /\ RemoteCall /\ Slip
    /\ \/ /\ Execute(worker.at, worker.shard, token)
          /\ UNCHANGED tardy
       \/ /\ tardy' = tardy \cup {[call |-> worker.at, shard |-> worker.shard, token |-> token]}
          /\ UNCHANGED <<copy, met, away>>
    /\ worker' = Errored(worker)
    /\ UNCHANGED <<rowVars, request, token, intruded, ownFiles, placing, atHome, misdecided,
                   overtaken>>

\* BeginMigrationImport knows that its request was not sent.
BeginUnsent ==
    /\ worker.at = "begin" /\ Slip
    /\ worker' = [worker EXCEPT !.at = "unsent"]
    /\ UNCHANGED <<rowVars, request, token, nodeFiles, ownFiles, placing, processes, misdecided,
                   overtaken>>

\* renewLease fails before a call; rollbackTargets then gives up the steps that are left.
LeaseLost ==
    /\ worker.at \in {"halt", "planned", "write", "complete", "undo", "start"}
    /\ worker.at = "undo" => ~Unbegun(worker)
    /\ Slip
    /\ worker' = IF worker.at = "undo" THEN UndoNext([worker EXCEPT !.bad = TRUE, !.shard = 1])
                 ELSE Errored(worker)
    /\ UNCHANGED <<rowVars, request, token, nodeFiles, ownFiles, placing, processes, misdecided,
                   overtaken>>

\* A call that was given up is executed, or never will be.
TardyCall(c) ==
    /\ c \in tardy
    /\ tardy' = tardy \ {c}
    /\ \/ /\ Execute(c.call, c.shard, c.token)
          /\ intruded' = IF c.call = "begin" THEN intruded \cup {c.shard} ELSE intruded
       \/ UNCHANGED <<copy, met, away, intruded>>
    /\ UNCHANGED <<rowVars, worker, request, token, ownFiles, placing, atHome, misdecided,
                   overtaken, count>>

-----------------------------------------------------------------------------
(* The room's own files and the placement *)

\* VerifyDesiredShardLinks and StageProvisionCluster.
StageCluster ==
    /\ worker.at = "stage"
    /\ \/ /\ stageDir' = IF ClusterChanges THEN "staged" ELSE stageDir
          /\ worker' = TransferNext([worker EXCEPT !.staged = ClusterChanges, !.shard = 0])
          /\ Smooth
       \/ /\ stageDir' \in IF ClusterChanges THEN {stageDir, "original"} ELSE {stageDir}
          /\ worker' = Undoing(worker) /\ Slip
    /\ UNCHANGED <<rowVars, request, token, nodeFiles, clusterIni, unmarked, placing, processes,
                   misdecided, overtaken>>

\* revalidate.
Revalidate ==
    /\ worker.at = "recheck"
    /\ \/ /\ plan = "as_read"
          /\ worker' = [worker EXCEPT !.at = IF worker.staged THEN "publish" ELSE "decide"]
          /\ Smooth
       \/ /\ plan # "as_read"
          /\ worker' = Undoing(worker) /\ Smooth
       \/ worker' = Undoing(worker) /\ Slip
    /\ UNCHANGED <<rowVars, request, token, nodeFiles, ownFiles, placing, processes, misdecided,
                   overtaken>>

\* PublishProvisionCluster: cluster.ini is replaced, then a marker says so.
PublishCluster ==
    /\ worker.at \in {"publish", "mark"}
    /\ \/ /\ worker.at = "publish"
          /\ clusterIni' = "new"
          /\ worker' = [worker EXCEPT !.at = "mark"]
          /\ Smooth /\ UNCHANGED stageDir
       \/ /\ worker.at = "mark"
          /\ stageDir' = "marked"
          /\ worker' = [worker EXCEPT !.at = "decide"]
          /\ Smooth /\ UNCHANGED clusterIni
       \/ /\ worker' = Undoing(worker) /\ Slip
          /\ UNCHANGED <<clusterIni, stageDir>>
    /\ unmarked' = (clusterIni' = "new" /\ stageDir' = "staged")
    /\ UNCHANGED <<rowVars, request, token, nodeFiles, placing, processes, misdecided, overtaken>>

\* RollbackProvisionCluster.
RevertCluster ==
    /\ worker.at = "revert"
    /\ LET m == [worker EXCEPT !.at = "restore"] IN
       \/ /\ clusterIni' = IF stageDir = "marked" THEN "old" ELSE clusterIni
          /\ stageDir' = "none"
          /\ worker' = m /\ Smooth
       \/ /\ clusterIni' \in IF stageDir = "marked" THEN {clusterIni, "old"} ELSE {clusterIni}
          /\ worker' = [m EXCEPT !.bad = TRUE] /\ Slip
          /\ UNCHANGED stageDir
    /\ UNCHANGED <<rowVars, request, token, nodeFiles, unmarked, placing, processes, misdecided,
                   overtaken>>

\* CompleteProvisionCluster; a recovery does not look at its error.
CompleteCluster ==
    /\ worker.at = "unstage"
    /\ \/ stageDir' = "none" /\ worker' = [worker EXCEPT !.at = "restore"] /\ Smooth
       \/ /\ worker' = IF worker.first THEN Requiring(worker) ELSE [worker EXCEPT !.at = "restore"]
          /\ Slip /\ UNCHANGED stageDir
    /\ UNCHANGED <<rowVars, request, token, nodeFiles, clusterIni, unmarked, placing, processes,
                   misdecided, overtaken>>

\* RecoverOperation compares the plan with the steps.
Resolve ==
    /\ worker.at = "resolve"
    /\ \/ /\ worker' = IF plan = "changed" \/ (~switched /\ plan # "as_read") THEN Requiring(worker)
                      ELSE [worker EXCEPT !.at = IF switched THEN "applied" ELSE "apply"]
          /\ Smooth
       \/ worker' = Requiring(worker) /\ Slip
    /\ UNCHANGED <<rowVars, request, token, nodeFiles, ownFiles, placing, processes, misdecided,
                   overtaken>>

\* ApplyProvision.
ApplyProvision ==
    /\ worker.at = "apply"
    /\ \/ /\ plan = "as_read"
          /\ switched' = TRUE
          /\ \/ worker' = [worker EXCEPT !.at = "applied"] /\ Smooth
             \/ worker' = Requiring(worker) /\ Slip
       \/ /\ plan # "as_read"
          /\ worker' = Requiring(worker) /\ Smooth /\ UNCHANGED switched
       \/ /\ worker' = Requiring(worker) /\ Slip /\ UNCHANGED switched
    /\ UNCHANGED <<rowVars, request, token, nodeFiles, ownFiles, plan, processes, misdecided,
                   overtaken>>

\* Somebody saves the plan of the room, with the same machines or with others.
ResavePlan ==
    /\ operation # NoOperation /\ count.edits < MaxPlanEdits
    /\ plan' \in {"resaved", "changed"}
    /\ count' = [count EXCEPT !.edits = @ + 1]
    /\ UNCHANGED <<rowVars, worker, request, token, nodeFiles, ownFiles, switched, processes,
                   misdecided, overtaken>>

RunStep ==
    \/ SavePhase \/ SavePhaseFails \/ SaveStep \/ SaveStepFails
    \/ CallHome \/ SkipUndo \/ CallTarget \/ CallRefused \/ TargetCallFails \/ BeginUnsent
    \/ LeaseLost
    \/ StageCluster \/ Revalidate \/ PublishCluster \/ RevertCluster \/ CompleteCluster
    \/ Resolve \/ ApplyProvision

ProvNext ==
    \/ Provision \/ ReadOperation \/ RecoverOperation \/ ControllerFalls \/ RunStep \/ ResavePlan
    \/ \E c \in tardy : TardyCall(c)

ProvSpec == ProvInit /\ [][ProvNext]_provVars

-----------------------------------------------------------------------------
(* Properties *)

\* Whatever crashes, errors and late calls: the placement names a machine that has the
\* world, and no world runs in two places, since the placement is switched after every
\* import and before every start, and never back.  Excluded are a save of the decision
\* that took effect and reported an error (the run undoes what the row calls decided) and
\* a recovery that waited for the lock with an outdated row.
ProvisionServed ==
    (~misdecided /\ ~overtaken) =>
        \A w \in MovedShards : /\ switched => copy[w] \in {"published", "live"}
                               /\ away[w] => switched /\ ~atHome[w]

\* The verdict of an operation is true, after any number of recoveries: "succeeded"
\* means that every world is placed, its import final, and runs if it ran before;
\* "rolled_back" that nothing is left on the targets (except an import that a late call
\* began again), the placement and cluster.ini are the old ones, and what ran runs at
\* home.  With the exclusions above, and cluster.ini aside if its marker was not written.
ProvisionSettled ==
    (~misdecided /\ ~overtaken /\ worker = Nobody) =>
        /\ operation.status = "succeeded" =>
              /\ switched
              /\ \A w \in MovedShards : copy[w] = "live" /\ (wasUp[w] => away[w])
              /\ \A w \in Shards \ MovedShards : wasUp[w] => atHome[w]
              /\ ClusterChanges => clusterIni = "new"
        /\ operation.status = "rolled_back" =>
              /\ ~switched
              /\ \A w \in MovedShards : \/ copy[w] = "none"
                                        \/ copy[w] = "begun" /\ w \in intruded
              /\ \A w \in Shards : wasUp[w] => atHome[w]
              /\ unmarked \/ clusterIni = "old"
=============================================================================
