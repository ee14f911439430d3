-------------------------- MODULE PlacementMigration --------------------------
(***************************************************************************)
(* The migration of a world to another machine: Coordinator.Migrate of     *)
(* internal/placementmigration, the placement it switches                  *)
(* (internal/topology) and, on the machines, the receipts of               *)
(* internal/shardtransfer.                                                 *)
(*                                                                         *)
(* The coordinator stops the world, copies it, switches the placement,     *)
(* starts the copy, and only then archives the original; an error before   *)
(* the commit makes it undo what its flags say it has done.  Nothing of it *)
(* is persistent.  Requests go through the command channel and the agent's *)
(* fence: one that got no answer in time may still be executed, at any     *)
(* later time, or never.                                                   *)
(***************************************************************************)
EXTENDS Integers, Sequences, FiniteSets

CONSTANTS LastMigration,    \* bound: migrations, by the fencing token of their lease
          LastRevision,     \* bound: revisions of the placement
          MaxLate,          \* bound: requests given up and neither executed nor lost
          MaxBreaks         \* bound: errors that nothing in the model makes necessary

ASSUME MigrationAssumption == {LastMigration, LastRevision, MaxLate, MaxBreaks} \subseteq Nat

Migrations == 1 .. LastMigration
Homes == {"a", "b"}
Other(h) == IF h = "a" THEN "b" ELSE "a"

VARIABLES
    disk,      \* disk[h]: the world's directory on h: its marker, Unmarked or NoWorld
    runs,      \* runs[h]: a process of the world runs on h
    placed,    \* the applied placement
    revision,  \* its revision
    export,    \* export[i]: the archive of the source
    import,    \* import[i]: the staging file on the target
    receipt,   \* receipt[i]: the target's receipt
    archive,   \* archive[i]: the recovery copy on the source
    halfway,   \* halfway[h]: the migration whose CommitImport has renamed and not recorded
    admitted,  \* admitted[h]: the greatest token h has admitted
    calls,     \* calls[h]: requests sent to h and not begun
    mig,       \* mig[i]: the local variables of Migrate
    astray,    \* history: a write of the placement failed after it or could not be undone
    torn,      \* history: an agent died inside CommitImport
    breaks     \* errors so far

diskVars == <<disk, export, import, receipt, archive, halfway, torn>>
placeVars == <<placed, revision, astray>>
migVars == <<diskVars, placeVars, runs, admitted, calls, mig, breaks>>

NoWorld == -1
Unmarked == 0

SourceSteps == {"stop", "export", "restart", "unexport", "again", "finalize", "retire", "release"}
TargetSteps == {"begin", "fetch", "rebegin", "write", "commit", "launch", "halt", "rollback", "complete"}
CallSteps == SourceSteps \cup TargetSteps
UndoOrder == <<"halt", "unapply", "rollback", "restart", "unexport", "again">>
UndoSteps == {UndoOrder[k] : k \in DOMAIN UndoOrder}
OwnSteps == {"new", "planned", "status", "apply", "decide", "unapply", "ok", "failed"}

Fresh == [pc |-> "new", from |-> "a", rev |-> 0, was |-> FALSE, begun |-> FALSE,
          switched |-> FALSE, started |-> FALSE, committed |-> FALSE, archived |-> FALSE,
          restored |-> FALSE, bad |-> FALSE, ans |-> "none"]

MigTypeOK ==
    /\ disk \in [Homes -> {NoWorld, Unmarked} \cup Migrations]
    /\ runs \in [Homes -> BOOLEAN]
    /\ placed \in Homes /\ revision \in 0 .. LastRevision
    /\ export \in [Migrations -> BOOLEAN] /\ archive \in [Migrations -> BOOLEAN]
    /\ import \in [Migrations -> {"none", "begun", "full"}]
    /\ receipt \in [Migrations -> BOOLEAN]
    /\ halfway \in [Homes -> {0} \cup Migrations]
    /\ admitted \in [Homes -> {0} \cup Migrations]
    /\ calls \in [Homes -> SUBSET [id : Migrations, step : CallSteps]]
    /\ mig \in [Migrations ->
          [pc : CallSteps \cup OwnSteps, from : Homes, rev : 0 .. LastRevision,
           was : BOOLEAN, begun : BOOLEAN, switched : BOOLEAN, started : BOOLEAN,
           committed : BOOLEAN, archived : BOOLEAN, restored : BOOLEAN, bad : BOOLEAN,
           ans : {"none", "wait", "ok", "failed", "refused"}]]
    /\ astray \in BOOLEAN /\ torn \in BOOLEAN /\ breaks \in 0 .. MaxBreaks

MigInit ==
    /\ disk = [h \in Homes |-> IF h = "a" THEN Unmarked ELSE NoWorld]
    /\ runs \in {[h \in Homes |-> on /\ h = "a"] : on \in BOOLEAN}
    /\ placed = "a" /\ revision = 0
    /\ export = [i \in Migrations |-> FALSE]
    /\ import = [i \in Migrations |-> "none"]
    /\ receipt = [i \in Migrations |-> FALSE]
    /\ archive = [i \in Migrations |-> FALSE]
    /\ halfway = [h \in Homes |-> 0]
    /\ admitted = [h \in Homes |-> 0]
    /\ calls = [h \in Homes |-> {}]
    /\ mig = [i \in Migrations |-> Fresh]
    /\ astray = FALSE /\ torn = FALSE /\ breaks = 0

\* Something fails, unless it has to by what holds already.
Break(unless) == IF unless THEN UNCHANGED breaks ELSE breaks < MaxBreaks /\ breaks' = breaks + 1

-----------------------------------------------------------------------------
(* The coordinator *)

\* Migration i goes to step pc, with the record r otherwise; at its end the local
\* variables are gone.
AtStep(i, r, pc) ==
    mig' = [mig EXCEPT ![i] =
        IF pc \in {"ok", "failed"} THEN [Fresh EXCEPT !.pc = pc, !.from = r.from, !.bad = r.bad]
        ELSE [r EXCEPT !.pc = pc, !.ans = "none"]]

\* The cleanup's conditions.
Wanted(r, step) ==
    CASE step = "halt" -> r.started
      [] step = "unapply" -> r.switched
      [] step = "rollback" -> r.begun
      [] step = "restart" -> r.was
      [] step = "unexport" -> TRUE
      [] step = "again" -> r.was /\ ~r.restored

\* The first step of the cleanup from number k on.  Before there is an export only
\* the outer deferred function runs, which starts the source ("again").
UndoFrom(i, r, k) ==
    LET todo == {n \in k .. Len(UndoOrder) : Wanted(r, UndoOrder[n])}
    IN  AtStep(i, r, IF todo = {} THEN "failed" ELSE UndoOrder[CHOOSE n \in todo : \A m \in todo : n <= m])

Undo(i, r) == UndoFrom(i, r, IF r.pc \in {"stop", "export"} THEN 6 ELSE 1)

After(step) == 1 + CHOOSE k \in DOMAIN UndoOrder : UndoOrder[k] = step

\* The lease of the room is i's.
Held(i) == \A j \in Migrations : j > i => mig[j].pc \in {"new", "planned"}

\* PrepareMigration, before the lease is acquired.
PlanMigration(i) ==
    /\ mig[i].pc = "new" /\ \A j \in Migrations : j < i => mig[j].pc # "new"
    /\ disk[placed] # NoWorld /\ disk[Other(placed)] = NoWorld
    /\ mig' = [mig EXCEPT ![i].pc = "planned", ![i].from = placed, ![i].rev = revision]
    /\ UNCHANGED <<diskVars, placeVars, runs, admitted, calls, breaks>>

\* The lease was released, or has run out under an earlier migration that is stuck in a
\* call.
TakeLease(i) ==
    /\ mig[i].pc = "planned"
    /\ \A j \in Migrations : j < i => mig[j].pc \in {"ok", "failed"} \/ mig[j].ans = "wait"
    /\ AtStep(i, mig[i], "status")
    /\ UNCHANGED <<diskVars, placeVars, runs, admitted, calls, breaks>>

ReadStatus(i) ==
    /\ mig[i].pc = "status"
    /\ \/ /\ runs[mig[i].from]
          /\ AtStep(i, [mig[i] EXCEPT !.was = TRUE], "stop")
          /\ UNCHANGED breaks
       \/ /\ ~runs[mig[i].from]
          /\ AtStep(i, mig[i], "export")
          /\ UNCHANGED breaks
       \/ AtStep(i, mig[i], "failed") /\ Break(FALSE)
    /\ UNCHANGED <<diskVars, placeVars, runs, admitted, calls>>

Renewed == {"write", "commit", "launch", "again"}

Target(i) == Other(mig[i].from)
Where(i) == IF mig[i].pc \in SourceSteps THEN mig[i].from ELSE Target(i)

Call(i) ==
    /\ mig[i].pc \in CallSteps /\ mig[i].ans = "none"
    /\ mig[i].pc \in Renewed => Held(i)
    /\ calls' = [calls EXCEPT ![Where(i)] = @ \cup {[id |-> i, step |-> mig[i].pc]}]
    /\ mig' = [mig EXCEPT ![i].ans = "wait"]
    /\ UNCHANGED <<diskVars, placeVars, runs, admitted, breaks>>

RenewFails(i) ==
    /\ mig[i].pc \in Renewed /\ mig[i].ans = "none"
    /\ IF mig[i].pc = "again" THEN AtStep(i, [mig[i] EXCEPT !.bad = TRUE], "failed") ELSE Undo(i, mig[i])
    /\ Break(~Held(i))
    /\ UNCHANGED <<diskVars, placeVars, runs, admitted, calls>>

\* Requests that nobody waits for any more.
Late == UNION {{r \in calls[h] : mig[r.id].pc # r.step} : h \in Homes}

\* The call has failed, or its answer is not waited for any longer.
GivesUp(i) ==
    \/ mig[i].ans \in {"failed", "refused"} /\ UNCHANGED breaks
    \/ mig[i].ans = "wait" /\ Cardinality(Late) < MaxLate /\ Break(FALSE)

\* A step of the way forward has succeeded.
Forward(i) ==
    /\ mig[i].ans = "ok"
    /\ LET r == mig[i]
           go(step) == AtStep(i, r, step)
       IN  \/ r.pc = "stop" /\ go("export")
           \/ r.pc = "export" /\ go("begin")
           \/ /\ r.pc = "begin"
              /\ \E step \in {"fetch", "write"} : AtStep(i, [r EXCEPT !.begun = TRUE], step)
           \/ r.pc = "rebegin" /\ go("write")
           \/ r.pc \in {"fetch", "write"} /\ go("commit")
           \/ r.pc = "commit" /\ go("apply")
           \/ r.pc = "launch" /\ AtStep(i, [r EXCEPT !.started = TRUE], "decide")
           \/ r.pc = "finalize" /\ AtStep(i, [r EXCEPT !.archived = TRUE], "complete")
           \/ r.pc = "complete" /\ go(IF r.archived THEN "retire" ELSE "release")
           \/ r.pc = "retire" /\ go("release")
           \/ r.pc = "release" /\ go("ok")
    /\ UNCHANGED <<diskVars, placeVars, runs, admitted, calls, breaks>>

\* The target answers that it started the world and that none runs.
NotRunning(i) ==
    /\ mig[i].pc = "launch" /\ mig[i].ans = "ok"
    /\ Undo(i, [mig[i] EXCEPT !.started = TRUE])
    /\ Break(FALSE)
    /\ UNCHANGED <<diskVars, placeVars, runs, admitted, calls>>

\* The peer transfer was not sent, or is known to have failed: the relay begins.
FetchFailed(i) ==
    /\ mig[i].pc = "fetch" /\ mig[i].ans \in {"none", "failed"}
    /\ AtStep(i, mig[i], "rebegin")
    /\ Break(mig[i].ans = "failed")
    /\ UNCHANGED <<diskVars, placeVars, runs, admitted, calls>>

\* Mutant of CallFails: an error after the commit is undone like one before it.
CallFailsUndoes(i) ==
    /\ mig[i].pc \notin UndoSteps /\ GivesUp(i)
    /\ Undo(i, mig[i])
    /\ UNCHANGED <<diskVars, placeVars, runs, admitted, calls>>

\* A call failed, or had no answer in time.  After the commit that is a warning; an
\* export that could not be released is released again by the cleanup.
CallFails(i) ==
    /\ GivesUp(i)
    /\ LET r == mig[i]
           warn(step) == AtStep(i, [r EXCEPT !.bad = TRUE], step)
       IN  \/ /\ r.pc \in CallSteps \ (UndoSteps \cup {"finalize", "complete", "retire", "release"})
              /\ r.pc = "fetch" => r.ans # "failed"
              /\ Undo(i, r)
           \/ r.pc = "finalize" /\ warn("complete")
           \/ r.pc = "complete" /\ warn(IF r.archived THEN "retire" ELSE "release")
           \/ r.pc = "retire" /\ warn("release")
           \/ r.pc = "release" /\ warn("unexport")
    /\ UNCHANGED <<diskVars, placeVars, runs, admitted, calls>>

\* A step of the cleanup is over; its error does not stop the next ones.  Migrate
\* fails, if it has not committed before.
UndoStep(i) ==
    /\ mig[i].pc \in UndoSteps \ {"unapply"}
    /\ (mig[i].ans = "ok" /\ UNCHANGED breaks) \/ GivesUp(i)
    /\ LET r == [mig[i] EXCEPT !.bad = @ \/ mig[i].ans # "ok",
                               !.restored = @ \/ (mig[i].pc = "restart" /\ mig[i].ans = "ok")]
       IN  IF r.committed THEN AtStep(i, r, "ok")
           ELSE UndoFrom(i, r, After(r.pc))
    /\ UNCHANGED <<diskVars, placeVars, runs, admitted, calls>>

\* ApplyMigration, after the mods were published: checked against the revision of the
\* plan.  It can fail after the placement was saved.
Apply(i) ==
    /\ mig[i].pc = "apply"
    /\ \/ /\ revision = mig[i].rev /\ placed = mig[i].from /\ revision < LastRevision
          /\ placed' = Target(i) /\ revision' = revision + 1
          /\ \/ /\ AtStep(i, [mig[i] EXCEPT !.switched = TRUE, !.rev = revision + 1],
                     IF mig[i].was THEN "launch" ELSE "decide")
                /\ UNCHANGED <<astray, breaks>>
             \/ Undo(i, mig[i]) /\ astray' = TRUE /\ Break(FALSE)
       \/ /\ Undo(i, mig[i])
          /\ Break(revision # mig[i].rev \/ placed # mig[i].from)
          /\ UNCHANGED placeVars
    /\ UNCHANGED <<diskVars, runs, admitted, calls>>

\* The mod transaction's commit, which is the migration's.
Decide(i) ==
    /\ mig[i].pc = "decide"
    /\ \/ AtStep(i, [mig[i] EXCEPT !.committed = TRUE], "finalize") /\ UNCHANGED breaks
       \/ Undo(i, mig[i]) /\ Break(FALSE)
    /\ UNCHANGED <<diskVars, placeVars, runs, admitted, calls>>

\* RollbackMigration.
Unapply(i) ==
    /\ mig[i].pc = "unapply"
    /\ \/ /\ revision = mig[i].rev /\ placed = Target(i) /\ revision < LastRevision
          /\ placed' = mig[i].from /\ revision' = revision + 1
          /\ UndoFrom(i, mig[i], After("unapply"))
          /\ UNCHANGED <<astray, breaks>>
       \/ /\ Break(revision # mig[i].rev \/ placed # Target(i))
          /\ astray' = TRUE
          /\ UndoFrom(i, [mig[i] EXCEPT !.bad = TRUE], After("unapply"))
          /\ UNCHANGED <<placed, revision>>
    /\ UNCHANGED <<diskVars, runs, admitted, calls>>

\* Somebody saves the plan of the room.
EditPlan ==
    /\ revision < LastRevision
    /\ revision' = revision + 1
    /\ UNCHANGED <<diskVars, placed, astray, runs, admitted, calls, mig, breaks>>

-----------------------------------------------------------------------------
(* A machine *)

Answer(r, result) ==
    mig' = IF mig[r.id].pc = r.step /\ mig[r.id].ans = "wait"
           THEN [mig EXCEPT ![r.id].ans = result] ELSE mig

Reject(h, r) ==
    /\ r \in calls[h] /\ r.id < admitted[h]
    /\ calls' = [calls EXCEPT ![h] = @ \ {r}]
    /\ Answer(r, "refused")
    /\ UNCHANGED <<diskVars, placeVars, runs, admitted, breaks>>

\* A late request is lost: it broke off with its connection.
Lose(h, r) ==
    /\ r \in calls[h] /\ r \in Late
    /\ calls' = [calls EXCEPT ![h] = @ \ {r}]
    /\ UNCHANGED <<diskVars, placeVars, runs, admitted, mig, breaks>>

\* The request is admitted, under the room's lock, and is one of the given steps.
Take(h, r, steps) ==
    /\ r \in calls[h] /\ r.step \in steps
    /\ r.id >= admitted[h] /\ halfway[h] = 0
    /\ calls' = [calls EXCEPT ![h] = @ \ {r}]
    /\ admitted' = [admitted EXCEPT ![h] = r.id]
    /\ UNCHANGED placeVars

\* What the request needs to succeed.
Able(h, r) ==
    CASE r.step \in {"launch", "restart", "again"} -> runs[h] \/ disk[h] # NoWorld
      [] r.step = "export" -> disk[h] # NoWorld
      [] r.step = "write" -> import[r.id] = "begun" /\ export[r.id]
      [] r.step = "fetch" -> import[r.id] # "none" /\ export[r.id]
      [] r.step = "commit" -> import[r.id] = "full" /\ disk[h] = NoWorld
      [] r.step = "rollback" -> receipt[r.id] => disk[h] = r.id
      [] r.step = "complete" -> receipt[r.id] /\ disk[h] = r.id
      [] r.step = "finalize" -> disk[h] # NoWorld
      [] r.step = "retire" -> archive[r.id]
      [] OTHER -> TRUE

\* Any request may fail before it has changed anything.
ExecError(h, r) ==
    /\ Take(h, r, CallSteps)
    /\ Answer(r, "failed")
    /\ Break(~Able(h, r))
    /\ UNCHANGED <<diskVars, runs>>

\* The request is one of the given steps and can be executed.
Exec(h, r, steps) == Take(h, r, steps) /\ Able(h, r) /\ UNCHANGED breaks

\* mutateShard.  A stop or a start that has its effect can still report an error: the
\* wait for the state may run out of time.
ExecStop(h, r) ==
    /\ Take(h, r, {"stop", "halt"})
    /\ runs' = [runs EXCEPT ![h] = FALSE]
    /\ (Answer(r, "ok") /\ UNCHANGED breaks) \/ (Answer(r, "failed") /\ Break(FALSE))
    /\ UNCHANGED diskVars

ExecStart(h, r) ==
    /\ Take(h, r, {"launch", "restart", "again"}) /\ Able(h, r)
    /\ runs' = [runs EXCEPT ![h] = TRUE]
    /\ (Answer(r, "ok") /\ UNCHANGED breaks) \/ (Answer(r, "failed") /\ Break(FALSE))
    /\ UNCHANGED diskVars

PrepareExport(h, r) ==
    /\ Exec(h, r, {"export"})
    /\ export' = [export EXCEPT ![r.id] = TRUE]
    /\ Answer(r, "ok")
    /\ UNCHANGED <<disk, import, receipt, archive, halfway, torn, runs>>

ReleaseExport(h, r) ==
    /\ Exec(h, r, {"release", "unexport"})
    /\ export' = [export EXCEPT ![r.id] = FALSE]
    /\ Answer(r, "ok")
    /\ UNCHANGED <<disk, import, receipt, archive, halfway, torn, runs>>

BeginImport(h, r) ==
    /\ Exec(h, r, {"begin", "rebegin"})
    /\ import' = [import EXCEPT ![r.id] = "begun"]
    /\ Answer(r, "ok")
    /\ UNCHANGED <<disk, export, receipt, archive, halfway, torn, runs>>

\* WriteImport, chunk by chunk, goes on where the file ends; a fetch resumes.  Both
\* read the source's export.
ReceiveImport(h, r) ==
    /\ Exec(h, r, {"write", "fetch"})
    /\ import' = [import EXCEPT ![r.id] = "full"]
    /\ Answer(r, "ok")
    /\ UNCHANGED <<disk, export, receipt, archive, halfway, torn, runs>>

\* CommitImport: the marked copy is renamed into place, if nothing is there ...
CommitRename(h, r) ==
    /\ Exec(h, r, {"commit"})
    /\ disk' = [disk EXCEPT ![h] = r.id]
    /\ halfway' = [halfway EXCEPT ![h] = r.id]
    /\ UNCHANGED <<export, import, receipt, archive, torn, runs, mig>>

\* ... and the receipt is written, or the copy removed.
CommitReceipt(h) ==
    /\ halfway[h] # 0
    /\ halfway' = [halfway EXCEPT ![h] = 0]
    /\ LET r == [id |-> halfway[h], step |-> "commit"]
       IN  \/ /\ receipt' = [receipt EXCEPT ![r.id] = TRUE]
              /\ Answer(r, "ok")
              /\ UNCHANGED <<disk, breaks>>
           \/ /\ disk' = [disk EXCEPT ![h] = NoWorld]
              /\ Answer(r, "failed") /\ Break(FALSE)
              /\ UNCHANGED receipt
    /\ UNCHANGED <<export, import, archive, torn, placeVars, runs, admitted, calls>>

\* The agent dies between the two: nothing finishes the import.
DiesHalfway(h) ==
    /\ halfway[h] # 0
    /\ halfway' = [halfway EXCEPT ![h] = 0]
    /\ torn' = TRUE
    /\ Break(FALSE)
    /\ UNCHANGED <<disk, export, import, receipt, archive, placeVars, runs, admitted, calls, mig>>

\* Mutant of RollbackTarget: only the staging file is removed.
RollbackTargetStaging(h, r) ==
    /\ Exec(h, r, {"rollback"})
    /\ import' = [import EXCEPT ![r.id] = "none"]
    /\ Answer(r, "ok")
    /\ UNCHANGED <<disk, receipt, export, archive, halfway, torn, runs>>

\* RollbackTarget: without a receipt only the staging file is removed.
RollbackTarget(h, r) ==
    /\ Exec(h, r, {"rollback"})
    /\ disk' = IF receipt[r.id] THEN [disk EXCEPT ![h] = NoWorld] ELSE disk
    /\ receipt' = [receipt EXCEPT ![r.id] = FALSE]
    /\ import' = [import EXCEPT ![r.id] = "none"]
    /\ Answer(r, "ok")
    /\ UNCHANGED <<export, archive, halfway, torn, runs>>

CompleteTarget(h, r) ==
    /\ Exec(h, r, {"complete"})
    /\ disk' = [disk EXCEPT ![h] = Unmarked]
    /\ receipt' = [receipt EXCEPT ![r.id] = FALSE]
    /\ import' = [import EXCEPT ![r.id] = "none"]
    /\ Answer(r, "ok")
    /\ UNCHANGED <<export, archive, halfway, torn, runs>>

FinalizeSource(h, r) ==
    /\ Exec(h, r, {"finalize"})
    /\ disk' = [disk EXCEPT ![h] = NoWorld]
    /\ archive' = [archive EXCEPT ![r.id] = TRUE]
    /\ Answer(r, "ok")
    /\ UNCHANGED <<export, import, receipt, halfway, torn, runs>>

\* CompleteSource removes the receipt of the recovery copy, which is kept.
CompleteSource(h, r) ==
    /\ Exec(h, r, {"retire"})
    /\ Answer(r, "ok")
    /\ UNCHANGED <<diskVars, runs>>

-----------------------------------------------------------------------------
CoordinatorStep(i) ==
    \/ PlanMigration(i) \/ TakeLease(i) \/ ReadStatus(i) \/ Call(i) \/ RenewFails(i)
    \/ Forward(i) \/ NotRunning(i) \/ FetchFailed(i) \/ CallFails(i) \/ UndoStep(i)
    \/ Apply(i) \/ Decide(i) \/ Unapply(i)

HomeStep(h) ==
    \/ \E r \in calls[h] :
          \/ Reject(h, r) \/ Lose(h, r) \/ ExecError(h, r) \/ ExecStop(h, r) \/ ExecStart(h, r)
          \/ PrepareExport(h, r) \/ ReleaseExport(h, r)
          \/ BeginImport(h, r) \/ ReceiveImport(h, r) \/ CommitRename(h, r)
          \/ RollbackTarget(h, r) \/ CompleteTarget(h, r)
          \/ FinalizeSource(h, r) \/ CompleteSource(h, r)
    \/ CommitReceipt(h) \/ DiesHalfway(h)

MigNext == (\E i \in Migrations : CoordinatorStep(i)) \/ (\E h \in Homes : HomeStep(h)) \/ EditPlan

MigSpec == MigInit /\ [][MigNext]_migVars

-----------------------------------------------------------------------------
(* Properties *)

\* The machine that the placement names holds the world, through the switch, its
\* undoing and the archiving of the original, unless a write of the placement failed.
PlacementServed == ~astray => disk[placed] # NoWorld

\* Whatever fails, is late, or is overtaken by another migration, forth or back: some
\* machine holds the world, as the directory it is started from.
WorldKept == \E h \in Homes : disk[h] # NoWorld

\* The world can always be started, and from the machine its placement names.
WorldServed == PlacementServed /\ WorldKept

\* A failed migration whose cleanup reports no error has left no copy on the target,
\* also when the answer of the import's commit was lost; one that succeeded without a
\* warning has moved the world and kept the original in the archive.
CleanedUp ==
    \A i \in Migrations :
        /\ mig[i].pc = "failed" /\ ~mig[i].bad /\ ~torn =>
              ~receipt[i] /\ \A h \in Homes : disk[h] # i
        /\ mig[i].pc = "ok" /\ ~mig[i].bad /\ Held(i) =>
              /\ placed = Target(i) /\ disk[Target(i)] = Unmarked
              /\ disk[mig[i].from] = NoWorld /\ archive[i]

\* The relay never writes while the peer transfer of the same migration may still.
OneWriter ==
    \A i \in Migrations :
        mig[i].pc \in {"rebegin", "write"} => [id |-> i, step |-> "fetch"] \notin calls[Target(i)]

\* One writer fills the import of a migration, and the clean-up leaves what it reports.
Settled == CleanedUp /\ OneWriter

\* When a migration failed and its cleanup reports no error, the world does not run on
\* the target.
TargetStopped ==
    \A i \in Migrations : mig[i].pc = "failed" /\ ~mig[i].bad => ~runs[Target(i)]
=============================================================================
