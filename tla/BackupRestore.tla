---------------------------- MODULE BackupRestore ----------------------------
(***************************************************************************)
(* The cold backup of a room and its restore: internal/distributedbackup,  *)
(* and on the machines the receipts of internal/shardtransfer.             *)
(*                                                                         *)
(* A backup stops the worlds, copies them and starts them again.  A        *)
(* restore stops the worlds, sends every machine its part, publishes them  *)
(* one by one and cleans up; an error on the way rolls back what was sent. *)
(* The row of an operation says how far it is; after the controller died,  *)
(* and when a user asks for it, Recover goes on from the row.  Operations  *)
(* exclude each other by the room lock; each has a lease of its own, whose *)
(* token the machines compare.                                             *)
(*                                                                         *)
(* There is one operation of each kind, and one set that can be restored   *)
(* or deleted; every world has a machine, and shared files, of its own.    *)
(* The phases before "published" that Recover treats alike (planned,       *)
(* stopping, staging, protecting, preparing, prepared, publishing,         *)
(* rolling_back) are one value, "open".  Of the protection backup only     *)
(* its outcome is modelled.                                                *)
(***************************************************************************)
EXTENDS Integers, Sequences, FiniteSets

CONSTANTS
    LastPart,      \* worlds of the room; world 1 is the master
    LastTurn,      \* bound: leases taken
    MaxFaults,     \* bound: calls, saves and file operations that fail, and deaths of
                   \* the controller, together
    MaxPleas,      \* bound: recoveries that users ask for
    MaxDeferred    \* bound: calls given up that may still be executed

ASSUME BackupAssumption ==
    /\ LastPart \in Nat \ {0}
    /\ {LastTurn, MaxFaults, MaxPleas, MaxDeferred} \subseteq Nat

Parts == 1 .. LastPart
Kinds == {"create", "restore"}

VARIABLES
    node,      \* node[w]: what the machine of world w has of it
    deferred,  \* calls that were given up and are neither executed nor lost
    table,     \* table[k]: the row of the operation
    made,      \* the operations in the order of their rows
    run,       \* the operation, recovery or deletion that holds the room
    turn,      \* leases taken: the token of the last one
    pleas,     \* recoveries that have read their row and wait for the room
    boot,      \* how far the start-up recovery is
    source,    \* the set that is restored: its row and its files
    backup,    \* the set that is created: its status and its parts
    outdated,  \* history: a recovery went on from a row that was out of date
    begged,    \* recoveries users have asked for
    spent      \* faults so far

backupVars == <<node, deferred, table, made, run, turn, pleas, boot, source,
                 backup, outdated, begged, spent>>

SaveKinds == {"none", "old", "new", "torn"}
Nodes == [up : {"no", "before"} \cup Kinds,      \* who started the world
          due : {"no"} \cup Kinds,               \* history: who stopped it and owes its start
          desc : {"none", "receiving", "prepared", "published", "completed"},
          rcpt : {"none", "publishing", "published", "completing", "completed"},
          save : SaveKinds, kept : SaveKinds, marked : BOOLEAN,
          conf : {"none", "old", "new"}, spare : BOOLEAN]

NoOp == [phase |-> "none", status |-> "none", was |-> {}]
PhaseNames == {"notifying", "open", "published", "resuming", "completed",
               "rollback_completed", "failed", "recovered"}
StatusNames == {"running", "recovery", "failed", "succeeded", "rolled_back"}
OpRows == [phase : PhaseNames, status : StatusNames, was : SUBSET Parts]

NodeSteps == {"transfer", "publish", "complete", "rollback", "stop", "restart"}
RunSteps == NodeSteps \cup {"idle", "notify", "quiet", "stage", "fail", "mark", "delete", "purge"}
FreeRoom == [at |-> "idle", op |-> "none", way |-> "run", n |-> 0, phase |-> "none",
           status |-> "none", was |-> {}, bad |-> FALSE]

BackupTypeOK ==
    /\ node \in [Parts -> Nodes]
    /\ deferred \subseteq [w : Parts, step : NodeSteps, op : Kinds, token : 1 .. LastTurn]
    /\ table \in [Kinds -> OpRows \cup {NoOp}]
    /\ made \in {<<>>} \cup {<<k>> : k \in Kinds} \cup {<<k, l>> : k, l \in Kinds}
    /\ run \in [at : RunSteps, op : Kinds \cup {"none"}, way : {"run", "recover"}, n : 0 .. LastPart + 1,
                phase : PhaseNames \cup {"none"}, status : StatusNames \cup {"none"},
                was : SUBSET Parts, bad : BOOLEAN]
    /\ turn \in 0 .. LastTurn
    /\ pleas \subseteq [op : Kinds, row : OpRows, boot : BOOLEAN]
    /\ boot \in {"off", "deletions", "operations"}
    /\ source \in [row : BOOLEAN, files : {"here", "aside", "gone"}]
    /\ backup \in [status : {"none", "creating", "verified", "failed"},
                   parts : [Parts -> SaveKinds \cup {"unsure"}]]
    /\ outdated \in BOOLEAN
    /\ begged \in 0 .. MaxPleas /\ spent \in 0 .. MaxFaults

BackupInit ==
    /\ \E up \in [Parts -> {"no", "before"}] :
         node = [w \in Parts |-> [up |-> up[w], due |-> "no", desc |-> "none", rcpt |-> "none",
                                  save |-> "old", kept |-> "none", marked |-> FALSE,
                                  conf |-> "old", spare |-> FALSE]]
    /\ deferred = {}
    /\ table = [k \in Kinds |-> NoOp] /\ made = <<>>
    /\ run = FreeRoom /\ turn = 0 /\ pleas = {} /\ boot = "off"
    /\ source = [row |-> TRUE, files |-> "here"]
    /\ backup = [status |-> "none", parts |-> [w \in Parts |-> "none"]]
    /\ outdated = FALSE /\ begged = 0 /\ spent = 0

Sound == UNCHANGED <<spent, begged>>
Fault == spent < MaxFaults /\ spent' = spent + 1 /\ UNCHANGED begged

Running(w) == node[w].up # "no"
Unfinished(k) == table[k].status \in {"running", "recovery"}

-----------------------------------------------------------------------------
(* What a call does on a machine: where an error or a death may leave it,  *)
(* and the end it answers from, if it is not refused.                      *)

Denied == [mid |-> {}, end |-> {}]
Does(mid, end) == [mid |-> mid, end |-> {end}]

\* BeginRestore, WriteRestore and PrepareRestore, which follow one another: the
\* archive arrives and is unpacked beside the world.
Receives(s) ==
    IF s.desc = "none" THEN Does({[s EXCEPT !.desc = "receiving"]}, [s EXCEPT !.desc = "prepared"])
    ELSE IF s.desc = "receiving" THEN Denied ELSE Does({}, s)

\* PublishRestore: the shared files are copied and the receipt is written, the
\* world is renamed away, its new directory with the marker is renamed in, the
\* shared files are replaced.  A restore is published once: a publication that
\* was begun is rolled back, never repeated.
Publishes(s) ==
    IF s.desc \in {"published", "completed"} THEN Does({}, s)
    ELSE IF s.desc # "prepared" \/ s.save = "none" THEN Denied
    ELSE LET noted == [s EXCEPT !.rcpt = "publishing", !.spare = s.conf # "none"]
             away == [noted EXCEPT !.kept = s.save, !.save = "none"]
             renamed == [away EXCEPT !.save = "new", !.marked = TRUE]
             all == [renamed EXCEPT !.conf = "new"]
             signed == [all EXCEPT !.rcpt = "published"]
         IN  Does({noted, away, renamed, all, signed}, [signed EXCEPT !.desc = "published"])

\* RollbackRestore: the directory with the marker is removed, the one that was
\* kept renamed back, shared files without a copy are removed, and what the
\* restore left is swept, each piece whether or not another could be.
RollsBack(s) ==
    IF s.rcpt = "none" THEN Does({}, [s EXCEPT !.desc = "none"])
    ELSE IF s.rcpt \in {"completing", "completed"} THEN Denied
    ELSE IF s.kept # "none" /\ s.save # "none" /\ ~s.marked THEN Denied
    ELSE LET torn == {[s EXCEPT !.save = "torn", !.marked = m] : m \in IF s.marked THEN BOOLEAN ELSE {}}
             off == IF s.marked THEN [s EXCEPT !.save = "none", !.marked = FALSE] ELSE s
             back == IF s.kept # "none" THEN [off EXCEPT !.save = s.kept, !.kept = "none"] ELSE off
             shared == [back EXCEPT !.conf = IF s.spare THEN "old" ELSE "none"]
             Swept(D) == [shared EXCEPT !.spare = @ /\ "spare" \notin D,
                                        !.rcpt = IF "rcpt" \in D THEN "none" ELSE @,
                                        !.desc = IF "desc" \in D THEN "none" ELSE @]
             pieces == {"spare", "rcpt", "desc"}
         IN  Does(torn \cup {off, back} \cup {Swept(D) : D \in SUBSET pieces}, Swept(pieces))

\* CompleteRestore: from "completing" on there is no way back.
Completes(s) ==
    IF s.rcpt = "completed" THEN Does({}, s)
    ELSE IF s.rcpt \in {"none", "publishing"} \/ (s.rcpt = "published" /\ ~s.marked) THEN Denied
    ELSE LET sure == [s EXCEPT !.rcpt = "completing"]
             plain == [sure EXCEPT !.marked = FALSE]
             swept == [plain EXCEPT !.kept = "none", !.spare = FALSE]
             said == [swept EXCEPT !.desc = "completed"]
         IN  Does({sure, plain, swept, said}, [said EXCEPT !.rcpt = "completed"])

\* Worlds are stopped and started for operation k; a world without a directory
\* cannot start.
Switches(step, k, s) ==
    IF step = "stop" THEN Does({}, [s EXCEPT !.up = "no", !.due = IF s.up = "no" THEN @ ELSE k])
    ELSE IF s.save = "none" THEN Denied
    ELSE Does({}, [s EXCEPT !.up = IF @ = "no" THEN k ELSE @, !.due = "no"])

Effect(step, k, s) ==
    CASE step = "transfer" -> Receives(s)
      [] step = "publish" -> Publishes(s)
      [] step = "rollback" -> RollsBack(s)
      [] step = "complete" -> Completes(s)
      [] step \in {"stop", "restart"} -> Switches(step, k, s)

\* The machine of w becomes s; it has met the token of the lease, and refuses
\* every call with an earlier one from now on.
Becomes(w, s) ==
    /\ node' = [node EXCEPT ![w] = s]
    /\ deferred' = {c \in deferred : c.w = w => c.token = turn}

\* A call of the run's step to w is answered ...
Done(w) == Sound /\ \E s \in Effect(run.at, run.op, node[w]).end : Becomes(w, s)

\* ... or is refused, fails on the way, or is given up and may be executed later.
NotDone(w) ==
    LET effect == Effect(run.at, run.op, node[w]) IN
    \/ effect.end = {} /\ Becomes(w, node[w]) /\ Sound
    \/ Fault /\ UNCHANGED <<node, deferred>>
    \/ Fault /\ \E s \in effect.mid \cup effect.end : Becomes(w, s)
    \/ /\ Fault /\ Cardinality(deferred) < MaxDeferred
       /\ deferred' = deferred \cup {[w |-> w, step |-> run.at, op |-> run.op, token |-> turn]}
       /\ UNCHANGED node

\* A call that was given up is executed after all, in part, or is lost.  Nobody
\* owes the start of a world that such a call stops.
LateCall(c) ==
    /\ deferred' = deferred \ {c}
    /\ LET effect == Effect(c.step, c.op, node[c.w]) IN
       \E s \in effect.mid \cup effect.end \cup {node[c.w]} :
         node' = [node EXCEPT ![c.w] = [s EXCEPT !.due = IF c.step = "stop" THEN node[c.w].due ELSE @]]
    /\ Sound /\ UNCHANGED <<table, made, run, turn, pleas, boot, source, backup, outdated>>

-----------------------------------------------------------------------------
(* The coordinator.                                                        *)

NoNode == UNCHANGED <<node, deferred>>
Around == UNCHANGED <<made, turn, pleas, boot, source, outdated>>
NoSave == UNCHANGED table

AtStep(at, n) == [run EXCEPT !.at = at, !.n = n]
Headed(at, n, phase, status) == [AtStep(at, n) EXCEPT !.phase = phase, !.status = status]

\* saveOperationPhase, as far as the row goes: the copy in memory has the new
\* phase whether or not the save succeeds.
Saves(phase, status, ok) ==
    IF ok THEN Sound /\ table' = [table EXCEPT ![run.op].phase = phase, ![run.op].status = status]
    ELSE Fault /\ NoSave

\* The room lock, a new lease, the plan and a new row.
Takes(k, phase) ==
    /\ run.at = "idle" /\ table[k] = NoOp /\ turn < LastTurn
    /\ turn' = turn + 1 /\ made' = Append(made, k)
    /\ table' = [table EXCEPT ![k] = [phase |-> phase, status |-> "running",
                                      was |-> {w \in Parts : Running(w)}]]
    /\ NoNode /\ UNCHANGED <<pleas, boot, source, outdated>>

Opens(k, at, n, phase) ==
    run' = [FreeRoom EXCEPT !.at = at, !.op = k, !.n = n, !.phase = phase, !.status = "running",
                          !.was = {w \in Parts : Running(w)}]

\* Restore, up to the first stop: verifySet needs the files of the set.
RestoreSet ==
    /\ source = [row |-> TRUE, files |-> "here"]
    /\ Takes("restore", "open") /\ UNCHANGED backup
    /\ \/ Sound /\ Opens("restore", "stop", LastPart, "open")
       \/ Fault /\ Opens("restore", "restart", 1, "open")

\* CreateWithMode for a cold backup: the players are warned when worlds run.
Create ==
    /\ backup' = [backup EXCEPT !.status = "creating"]
    /\ LET warns == \E w \in Parts : Running(w) IN
       \/ Sound /\ ~warns /\ Takes("create", "open") /\ Opens("create", "stop", LastPart, "open")
       \/ Sound /\ warns /\ Takes("create", "notifying") /\ Opens("create", "notify", 0, "notifying")
       \/ Fault /\ Takes("create", "open") /\ UNCHANGED run

Notify ==
    /\ run.at = "notify" /\ NoNode /\ Around /\ UNCHANGED backup
    /\ \/ Saves("open", "running", TRUE) /\ run' = Headed("stop", LastPart, "open", "running")
       \/ Fault /\ NoSave /\ run' = Headed("restart", 1, "open", "running")
       \/ Fault /\ NoSave /\ run' = AtStep("fail", 0)

\* What follows an error: failCreate, failRestore with n parts sent, or markRecoveryRequired.
FailsAfter(n) ==
    run' = IF run.op = "create" /\ run.way = "run" THEN AtStep("fail", 1)
           ELSE IF run.way = "run" THEN AtStep("rollback", n) ELSE AtStep("mark", 0)

\* stopAll: the other worlds first, the master last ...
StopWorld ==
    /\ run.at = "stop" /\ NoSave /\ Around /\ UNCHANGED backup
    /\ LET w == run.n IN
       \/ w = 0 /\ run' = AtStep("quiet", 0) /\ Sound /\ NoNode
       \/ w # 0 /\ ~Running(w) /\ run' = AtStep("stop", w - 1) /\ Sound /\ NoNode
       \/ w # 0 /\ Running(w) /\ Done(w) /\ run' = AtStep("stop", w - 1)
       \/ w # 0 /\ Running(w) /\ NotDone(w) /\ FailsAfter(0)

\* ... and a last look at all of them.  A restore goes on with the protection
\* backup, whose failure it takes for its own; up to the save after it the
\* worlds are started again whatever happens.
AllQuiet ==
    /\ run.at = "quiet" /\ NoSave /\ NoNode /\ Around /\ UNCHANGED backup
    /\ \/ (\E w \in Parts : Running(w)) /\ Sound /\ FailsAfter(0)
       \/ Fault /\ FailsAfter(0)
       \/ /\ \A w \in Parts : ~Running(w)
          /\ \/ Sound /\ run' = IF run.way = "recover" THEN AtStep("rollback", LastPart)
                                ELSE IF run.op = "create" THEN AtStep("stage", 1) ELSE AtStep("transfer", 1)
             \/ Fault /\ run.op = "restore" /\ run.way = "run" /\ run' = AtStep("restart", 1)

-----------------------------------------------------------------------------
(* A backup.                                                               *)

\* stagePart: what the part holds is not sure while a restore is unfinished.
StagePart ==
    /\ run.at = "stage" /\ run.n <= LastPart /\ NoSave /\ Around
    /\ \/ /\ Sound /\ node[run.n].save # "none" /\ Becomes(run.n, node[run.n])
          /\ backup' = [backup EXCEPT !.parts[run.n] =
                          IF Unfinished("restore") THEN "unsure" ELSE node[run.n].save]
          /\ run' = AtStep("stage", run.n + 1)
       \/ /\ \/ node[run.n].save = "none" /\ Sound
             \/ Fault
          /\ NoNode /\ UNCHANGED backup /\ FailsAfter(0)

\* The set and the row when a backup has failed.
Dropped == [backup EXCEPT !.status = "failed"]
Ended == [table EXCEPT !["create"].phase = "failed", !["create"].status = "failed"]

\* finalizeSet, and the phase that makes Recover keep the set.  An error replaces
\* the set in memory by an empty one: failCreate saves the operation, and the
\* set stays as finalizeSet left it.
Finalize ==
    /\ run.at = "stage" /\ run.n > LastPart /\ NoNode /\ Around
    /\ LET verified == [backup EXCEPT !.status = "verified"] IN
       \/ /\ Fault /\ backup' \in {backup, verified} /\ table' \in {table, Ended}
          /\ run' = AtStep("restart", 1)
       \/ \E ok \in BOOLEAN :
            /\ Saves("resuming", "running", ok) /\ backup' = verified
            /\ run' = Headed("restart", 1, "resuming", "running")

\* failCreate saves the set and a copy of the operation, whatever the other save
\* does: the operation in memory keeps its phase.  Recover of a backup that was
\* still being announced goes on only after the first.
FailCreate ==
    /\ run.at = "fail" /\ NoNode /\ Around
    /\ \/ Sound /\ backup' = Dropped /\ table' = Ended
       \/ /\ Fault /\ backup' \in {Dropped} \cup (IF run.way = "run" THEN {backup} ELSE {})
          /\ table' \in {table, Ended}
    /\ run' = IF run.n = 0 THEN FreeRoom ELSE AtStep("restart", 1)

-----------------------------------------------------------------------------
(* A restore.                                                              *)

\* transferRestore, part by part.
Transfer ==
    /\ run.at = "transfer" /\ run.n <= LastPart /\ NoSave /\ Around /\ UNCHANGED backup
    /\ \/ Done(run.n) /\ run' = AtStep("transfer", run.n + 1)
       \/ NotDone(run.n) /\ FailsAfter(run.n)

\* The saves of "prepared" and "publishing".
SavePrepared ==
    /\ run.at = "transfer" /\ run.n > LastPart /\ NoNode /\ NoSave /\ Around /\ UNCHANGED backup
    /\ \/ Sound /\ run' = AtStep("publish", 1)
       \/ Fault /\ FailsAfter(LastPart)

PublishPart ==
    /\ run.at = "publish" /\ run.n <= LastPart /\ NoSave /\ Around /\ UNCHANGED backup
    /\ \/ Done(run.n) /\ run' = AtStep("publish", run.n + 1)
       \/ NotDone(run.n) /\ FailsAfter(LastPart)

\* A save of "published" that fails is tried once more, and the worlds stay down.
SavePublished ==
    /\ run.at = "publish" /\ run.n > LastPart /\ NoNode /\ Around /\ UNCHANGED backup
    /\ \/ Saves("published", "running", TRUE)
          /\ run' = Headed("complete", 1, "published", "running")
       \/ /\ Fault /\ run' = FreeRoom
          /\ table' \in {table, [table EXCEPT !["restore"].phase = "published",
                                              !["restore"].status = "recovery"]}

CompletePart ==
    /\ run.at = "complete" /\ run.n <= LastPart /\ NoSave /\ Around /\ UNCHANGED backup
    /\ \/ Done(run.n) /\ run' = AtStep("complete", run.n + 1)
       \/ NotDone(run.n) /\ run' = [AtStep("complete", run.n + 1) EXCEPT !.bad = TRUE]

\* Mutant: a part that could not be completed is a warning and nothing more.
CompletedAnyhow ==
    /\ run.at = "complete" /\ run.n > LastPart /\ NoNode /\ Around /\ UNCHANGED backup
    /\ Saves("resuming", "running", TRUE)
    /\ run' = [Headed("restart", 1, "resuming", "running") EXCEPT !.bad = FALSE]

\* Warnings of the clean-up keep the operation open; in a recovery they are
\* counted with the errors of the starts.
Completed ==
    /\ run.at = "complete" /\ run.n > LastPart /\ NoNode /\ Around /\ UNCHANGED backup
    /\ LET status == IF run.bad THEN "recovery" ELSE "running" IN
       IF run.way = "recover" THEN NoSave /\ Sound /\ run' = AtStep("restart", 1)
       ELSE \E ok \in BOOLEAN :
              /\ Saves("resuming", status, ok)
              /\ run' = [Headed("restart", 1, "resuming", status) EXCEPT !.bad = FALSE]

\* rollbackRestore, the last part first.
RollbackPart ==
    /\ run.at = "rollback" /\ run.n > 0 /\ NoSave /\ Around /\ UNCHANGED backup
    /\ \/ Done(run.n) /\ run' = AtStep("rollback", run.n - 1)
       \/ NotDone(run.n) /\ run' = [AtStep("rollback", run.n - 1) EXCEPT !.bad = TRUE]

\* Mutant: the worlds are started after a rollback that failed.
RolledBackAnyhow ==
    /\ run.at = "rollback" /\ run.n = 0 /\ NoNode /\ Around /\ UNCHANGED backup
    /\ Saves("rollback_completed", "running", TRUE)
    /\ run' = [Headed("restart", 1, "rollback_completed", "running") EXCEPT !.bad = FALSE]

\* Only a complete rollback leads to a restart; that of failRestore does so
\* even when it cannot be saved.
RolledBack ==
    /\ run.at = "rollback" /\ run.n = 0 /\ NoNode /\ Around /\ UNCHANGED backup
    /\ IF run.bad
       THEN IF run.way = "recover" THEN NoSave /\ Sound /\ run' = AtStep("mark", 0)
            ELSE \E ok \in BOOLEAN : Saves("open", "recovery", ok) /\ run' = FreeRoom
       ELSE \E ok \in BOOLEAN :
              /\ Saves("rollback_completed", "running", ok)
              /\ run' = IF run.way = "recover" /\ ~ok THEN FreeRoom
                        ELSE Headed("restart", 1, "rollback_completed", "running")

-----------------------------------------------------------------------------
(* The worlds start again.                                                 *)

\* restartWorlds, the master first.
RestartWorld ==
    /\ run.at = "restart" /\ run.n <= LastPart /\ NoSave /\ Around /\ UNCHANGED backup
    /\ \/ run.n \notin run.was /\ run' = AtStep("restart", run.n + 1) /\ Sound /\ NoNode
       \/ run.n \in run.was /\ Done(run.n) /\ run' = AtStep("restart", run.n + 1)
       \/ /\ run.n \in run.was /\ NotDone(run.n)
          /\ run' = [AtStep("restart", run.n + 1) EXCEPT !.bad = TRUE]

\* A recovery keeps the set of a backup that had got so far.
KeepsSet(phase) == backup.status = "verified" /\ phase \in {"completed", "resuming"}

\* resumeOperationWorlds, and the last step of a recovery, which may fail to save
\* that the set is dropped.
Resumed ==
    /\ run.at = "restart" /\ run.n > LastPart /\ NoNode /\ Around
    /\ LET drops == run.op = "create" /\ run.way = "recover" /\ ~KeepsSet(run.phase)
           open == run.way = "run" /\ (run.status # "running" \/ run.phase = "open") IN
       \/ drops /\ Fault /\ NoSave /\ UNCHANGED backup /\ run' = AtStep("mark", 0)
       \/ /\ backup' = IF drops THEN Dropped ELSE backup
          /\ \/ run.bad /\ run' = AtStep("mark", 0) /\ NoSave /\ Sound
             \/ ~run.bad /\ open /\ run' = FreeRoom /\ NoSave /\ Sound
             \/ /\ ~run.bad /\ ~open /\ run' = FreeRoom
                /\ \E ok \in BOOLEAN :
                     IF drops THEN Saves("recovered", "failed", ok)
                     ELSE IF run.phase = "rollback_completed" THEN Saves("recovered", "rolled_back", ok)
                     ELSE Saves("completed", "succeeded", ok)

\* markRecoveryRequired.
Mark ==
    /\ run.at = "mark" /\ NoNode /\ Around /\ UNCHANGED backup
    /\ \E ok \in BOOLEAN : Saves(run.phase, "recovery", ok)
    /\ run' = FreeRoom

-----------------------------------------------------------------------------
(* Recovery.                                                               *)

\* RecoverOperation reads the row, then waits for the room.
Plea(k) ==
    /\ Unfinished(k) /\ begged < MaxPleas /\ begged' = begged + 1
    /\ pleas' = pleas \cup {[op |-> k, row |-> table[k], boot |-> FALSE]}
    /\ NoNode /\ UNCHANGED <<spent, table, made, run, turn, boot, source, backup, outdated>>

Older(k, l) == made[1] = k /\ k # l

\* A restore from whose phase there is no way back.
NoWayBack(row) == row.phase \in {"published", "completed", "resuming"}

\* recoverOperation goes on from the row that was read.
RecoverFrom(p) ==
    /\ run.at = "idle" /\ turn < LastTurn
    /\ p.boot => \A q \in pleas : q.boot => ~Older(q.op, p.op)
    /\ pleas' = pleas \ {p} /\ turn' = turn + 1
    /\ outdated' = (outdated \/ table[p.op] # p.row)
    /\ NoNode /\ UNCHANGED <<table, made, boot, source, backup>>
    /\ LET Go(at, n, bad) ==
             run' = [at |-> at, op |-> p.op, way |-> "recover", n |-> n, phase |-> p.row.phase,
                     status |-> p.row.status, was |-> p.row.was, bad |-> bad]
       IN  \/ Fault /\ Go("mark", 0, FALSE)
           \/ /\ Sound /\ p.op = "create"
              /\ IF p.row.phase = "notifying" THEN Go("fail", 0, FALSE) ELSE Go("restart", 1, FALSE)
           \/ /\ Fault /\ p.op = "create" /\ p.row.phase # "notifying"
              /\ ~KeepsSet(p.row.phase)                       \* a part is not released
              /\ Go("restart", 1, TRUE)
           \/ /\ Sound /\ p.op = "restore"
              /\ IF p.row.phase = "rollback_completed" THEN Go("restart", 1, FALSE)
                 ELSE IF ~source.row THEN Go("mark", 0, FALSE)
                 ELSE IF NoWayBack(p.row) THEN Go("complete", 1, FALSE)
                 ELSE Go("stop", LastPart, FALSE)

\* Recover at start-up: the deletions, which may end it ...
RecoverDeletions ==
    /\ boot = "deletions"
    /\ \/ /\ source.files # "aside" /\ Sound
          /\ boot' = "operations" /\ UNCHANGED source
       \/ /\ source.files = "aside"
          /\ source.row => run.at = "idle"
          /\ \/ Sound /\ boot' = "operations"
                /\ source' = [source EXCEPT !.files = IF source.row THEN "here" ELSE "gone"]
             \/ Fault /\ boot' = "off" /\ UNCHANGED source
    /\ NoNode /\ UNCHANGED <<table, made, run, turn, pleas, backup, outdated>>

\* ... and every operation that is open, oldest first.
RecoverOperations ==
    /\ boot = "operations" /\ boot' = "off"
    /\ pleas' = pleas \cup {[op |-> k, row |-> table[k], boot |-> TRUE] : k \in {l \in Kinds : Unfinished(l)}}
    /\ NoNode /\ Sound /\ UNCHANGED <<table, made, run, turn, source, backup, outdated>>

Halt ==
    /\ Fault /\ run' = FreeRoom /\ pleas' = {} /\ boot' = "deletions"
    /\ NoNode /\ UNCHANGED <<table, made, turn, source, backup, outdated>>

-----------------------------------------------------------------------------
(* Delete and PruneSnapshots.                                              *)

\* Mutant: the open operations of the room are not asked for.
DeletableAlways == TRUE

\* deleteSet: no operation of the room is open.
Deletable == \A k \in Kinds : ~Unfinished(k)

Delete ==
    /\ run.at = "idle" /\ turn < LastTurn /\ turn' = turn + 1
    /\ source = [row |-> TRUE, files |-> "here"] /\ Deletable
    /\ source' = [source EXCEPT !.files = "aside"]
    /\ run' = [FreeRoom EXCEPT !.at = "delete"]
    /\ Sound /\ NoNode /\ UNCHANGED <<table, made, pleas, boot, backup, outdated>>

DeleteRow ==
    /\ run.at = "delete" /\ NoNode
    /\ \/ Sound /\ source' = [source EXCEPT !.row = FALSE] /\ run' = AtStep("purge", 0)
       \/ Fault /\ source' \in {source, [source EXCEPT !.files = "here"]} /\ run' = FreeRoom
    /\ UNCHANGED <<table, made, turn, pleas, boot, backup, outdated>>

Purge ==
    /\ run.at = "purge" /\ NoNode /\ run' = FreeRoom
    /\ \/ Sound /\ source' = [source EXCEPT !.files = "gone"]
       \/ Fault /\ UNCHANGED source
    /\ UNCHANGED <<table, made, turn, pleas, boot, backup, outdated>>

BackupNext ==
    \/ RestoreSet \/ Create \/ Notify \/ StopWorld \/ AllQuiet
    \/ StagePart \/ Finalize \/ FailCreate
    \/ Transfer \/ SavePrepared \/ PublishPart \/ SavePublished \/ CompletePart \/ Completed
    \/ RollbackPart \/ RolledBack \/ RestartWorld \/ Resumed \/ Mark
    \/ \E k \in Kinds : Plea(k)
    \/ \E p \in pleas : RecoverFrom(p)
    \/ RecoverDeletions \/ RecoverOperations \/ Halt
    \/ Delete \/ DeleteRow \/ Purge
    \/ \E c \in deferred : LateCall(c)

BackupSpec == BackupInit /\ [][BackupNext]_backupVars

-----------------------------------------------------------------------------
(* What a backup and a restore promise.                                    *)

\* Every world has the save of one generation, and the shared files with it.  They
\* may be gone: a rollback that is repeated after it lost the copies removes them.
AllOf(content) ==
    \A w \in Parts : node[w].save = content /\ node[w].conf \in {content, "none"}

\* A restore, its failure path and its recovery start a world only when every
\* world of the room has the save from before or every world has the restored
\* one: never over a half-published restore or a half-removed directory.
SafeStart ==
    (\E w \in Parts : node[w].up = "restore") /\ ~outdated => AllOf("old") \/ AllOf("new")

\* What a completed restore may have left torn: a rollback from an outdated row removes
\* a part of a published world, and its marker still lets it be completed.
Tainted == IF outdated THEN {"torn"} ELSE {}

\* The status an operation ends with is true.  "succeeded": the restored saves
\* are everywhere and nothing is left to undo them; "rolled_back": the old ones
\* are; a verified set holds saves of one generation; and the worlds that were
\* stopped for it run again, unless a recovery went on from an outdated row.
BackupSettled ==
    /\ table["restore"].status = "succeeded" =>
         \A w \in Parts :
            /\ node[w].rcpt = "completed" /\ node[w].conf = "new"
            /\ node[w].save \in {"new"} \cup Tainted
    /\ table["restore"].status = "rolled_back" =>
         AllOf("old") /\ \A w \in Parts : node[w].rcpt = "none"
    /\ backup.status = "verified" /\ (\A w \in Parts : backup.parts[w] # "unsure") =>
         \E content \in {"old", "new"} :
             \A w \in Parts : backup.parts[w] \in {content} \cup Tainted
    /\ \A k \in Kinds : table[k].status \in {"succeeded", "rolled_back"} /\ ~outdated =>
         \A w \in table[k].was : node[w].due # k

\* The set an unfinished restore needs is there, row and files, whatever was
\* deleted, interrupted and recovered before (a recovery from an outdated row may
\* open a restore again that had ended); and no set is lost as long as it has a row.
SourceKept ==
    /\ Unfinished("restore") /\ ~outdated => source = [row |-> TRUE, files |-> "here"]
    /\ source.row => source.files # "gone"

=============================================================================
