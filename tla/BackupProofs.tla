---------------------------- MODULE BackupProofs ----------------------------
(***************************************************************************)
(* Proofs about the backup of a room and its restore, for every number of  *)
(* worlds, leases, faults and late calls.                                  *)
(*                                                                         *)
(* The set an open restore needs is not deleted (BackupInv).  A deletion   *)
(* reads the rows under the room's lock, so the invariant says which run   *)
(* can be at which step (RunInv), that the restore holding the room is     *)
(* open in its row unless a recovery went on from an outdated one          *)
(* (OpenInv), that only open operations are recovered (PleaInv), that an   *)
(* operation has one row (MadeInv), and how far a deletion got             *)
(* (DeleteInv).                                                            *)
(*                                                                         *)
(* Worlds start over saves of one generation, and the status an operation  *)
(* ends with is true (SaveInv).  What the receipt of a machine says of its *)
(* world (Shape) holds for every machine; what the operation says holds    *)
(* for all of them together: nothing is sent before the restore sends it   *)
(* (SendInv), a world that is rolled back stays so (BackInv), from its     *)
(* last publication on a restore only goes forward (AheadInv), and what it *)
(* completed stays so (CompleteInv).  A backup is of settled saves         *)
(* (CopyInv), and a world that was stopped is remembered until it is       *)
(* started (DueInv).                                                       *)
(***************************************************************************)
EXTENDS BackupRestore, TLAPS, SequenceTheorems, FiniteSetTheorems, WellFoundedInduction

Runs == [at : RunSteps, op : Kinds \cup {"none"}, way : {"run", "recover"}, n : 0 .. LastPart + 1,
         phase : PhaseNames \cup {"none"}, status : StatusNames \cup {"none"},
         was : SUBSET Parts, bad : BOOLEAN]

\* Which operation is at which step, and at which world.
RunInv ==
    /\ run.at \notin {"idle", "delete", "purge"} =>
         /\ run.op \in Kinds /\ run.phase \in PhaseNames /\ run.status \in StatusNames
         /\ turn \in 1 .. LastTurn
    /\ run.at \in {"transfer", "publish"} => run.op = "restore"
    /\ run.at \in {"stop", "rollback"} => run.n <= LastPart
    /\ run.at \in {"stage", "transfer", "publish", "complete", "restart"} => run.n >= 1

\* An operation has one row.
MadeInv ==
    /\ made \in {<<>>} \cup {<<k>> : k \in Kinds} \cup {<<"create", "restore">>, <<"restore", "create">>}
    /\ \A k \in Kinds : table[k] = NoOp => \A i \in DOMAIN made : made[i] # k

\* A recovery is asked for an operation that is open.
PleaInv == \A p \in pleas : p.row.status \in {"running", "recovery"}

\* The restore that holds the room is open in its row.
OpenInv == run.op = "restore" /\ ~outdated => Unfinished("restore")

\* What a deletion has done before it removes the row, and after.
DeleteInv ==
    /\ run.at = "delete" => source = [row |-> TRUE, files |-> "aside"]
    /\ run.at = "purge" => ~source.row

BackupInv == BackupTypeOK /\ RunInv /\ MadeInv /\ PleaInv /\ OpenInv /\ DeleteInv /\ SourceKept

-----------------------------------------------------------------------------
(* What the calls leave on a machine *)

LEMMA ReceiveTypes ==
    ASSUME NEW s \in Nodes
    PROVE  Receives(s).mid \cup Receives(s).end \subseteq Nodes
  BY DEF Receives, Does, Denied, Nodes

LEMMA PublishTypes ==
    ASSUME NEW s \in Nodes
    PROVE  Publishes(s).mid \cup Publishes(s).end \subseteq Nodes
<1> DEFINE noted == [s EXCEPT !.rcpt = "publishing", !.spare = s.conf # "none"]
           away == [noted EXCEPT !.kept = s.save, !.save = "none"]
           renamed == [away EXCEPT !.save = "new", !.marked = TRUE]
           all == [renamed EXCEPT !.conf = "new"]
           signed == [all EXCEPT !.rcpt = "published"]
           final == [signed EXCEPT !.desc = "published"]
           P == Publishes(s)
<1>1. P \in {Does({}, s), Denied, Does({noted, away, renamed, all, signed}, final)}
  BY DEF Publishes
<1>2. noted \in Nodes
  BY DEF Nodes
<1> HIDE DEF noted
<1>3. away \in Nodes
  <2>1. s.save \in SaveKinds /\ "none" \in SaveKinds
    BY DEF Nodes, SaveKinds
  <2> QED
    BY <1>2, <2>1 DEF Nodes
<1> HIDE DEF away
<1>4. renamed \in Nodes
  BY <1>3 DEF Nodes, SaveKinds
<1> HIDE DEF renamed
<1>5. all \in Nodes
  BY <1>4 DEF Nodes
<1> HIDE DEF all
<1>6. signed \in Nodes
  BY <1>5 DEF Nodes
<1> HIDE DEF signed
<1>7. final \in Nodes
  BY <1>6 DEF Nodes
<1> HIDE DEF final, P
<1>8. P.mid \cup P.end \subseteq Nodes
  BY <1>1, <1>2, <1>3, <1>4, <1>5, <1>6, <1>7 DEF Does, Denied
<1> QED
  BY <1>8 DEF P

LEMMA RollbackTypes ==
    ASSUME NEW s \in Nodes
    PROVE  RollsBack(s).mid \cup RollsBack(s).end \subseteq Nodes
<1> DEFINE torn == {[s EXCEPT !.save = "torn", !.marked = m] : m \in IF s.marked THEN BOOLEAN ELSE {}}
           off == IF s.marked THEN [s EXCEPT !.save = "none", !.marked = FALSE] ELSE s
           back == IF s.kept # "none" THEN [off EXCEPT !.save = s.kept, !.kept = "none"] ELSE off
           shared == [back EXCEPT !.conf = IF s.spare THEN "old" ELSE "none"]
           Swept(D) == [shared EXCEPT !.spare = @ /\ "spare" \notin D,
                                      !.rcpt = IF "rcpt" \in D THEN "none" ELSE @,
                                      !.desc = IF "desc" \in D THEN "none" ELSE @]
           pieces == {"spare", "rcpt", "desc"}
           P == RollsBack(s)
<1>1. P \in {Does({}, [s EXCEPT !.desc = "none"]), Denied,
             Does(torn \cup {off, back} \cup {Swept(D) : D \in SUBSET pieces}, Swept(pieces))}
  BY DEF RollsBack
<1>2. torn \subseteq Nodes /\ [s EXCEPT !.desc = "none"] \in Nodes
  <2>1. \A m \in BOOLEAN : [s EXCEPT !.save = "torn", !.marked = m] \in Nodes
    BY DEF Nodes, SaveKinds
  <2>2. [s EXCEPT !.desc = "none"] \in Nodes
    BY DEF Nodes
  <2>3. \A m : m \in (IF s.marked THEN BOOLEAN ELSE {}) => m \in BOOLEAN
    OBVIOUS
  <2> QED
    BY <2>1, <2>2, <2>3
<1> HIDE DEF torn
<1>3. off \in Nodes
  <2>1. [s EXCEPT !.save = "none", !.marked = FALSE] \in Nodes
    BY DEF Nodes, SaveKinds
  <2> QED
    BY <2>1
<1> HIDE DEF off
<1>4. back \in Nodes
  <2>1. PICK k \in SaveKinds : k = s.kept
    BY DEF Nodes
  <2>2. "none" \in SaveKinds
    BY DEF SaveKinds
  <2>3. [off EXCEPT !.save = k, !.kept = "none"] \in Nodes
    BY <1>3, <2>2 DEF Nodes
  <2> QED
    BY <1>3, <2>1, <2>3
<1> HIDE DEF back
<1>5. shared \in Nodes
  BY <1>4 DEF Nodes
<1> HIDE DEF shared
<1>6. \A D \in SUBSET pieces : Swept(D) \in Nodes
  <2> SUFFICES ASSUME NEW D \in SUBSET pieces PROVE Swept(D) \in Nodes
    OBVIOUS
  <2> DEFINE sp == shared.spare /\ "spare" \notin D
             rc == IF "rcpt" \in D THEN "none" ELSE shared.rcpt
             de == IF "desc" \in D THEN "none" ELSE shared.desc
  <2>1. Swept(D) = [shared EXCEPT !.spare = sp, !.rcpt = rc, !.desc = de]
    BY <1>5 DEF Nodes
  <2>2. sp \in BOOLEAN
    OBVIOUS
  <2>3. /\ rc \in {"none", "publishing", "published", "completing", "completed"}
        /\ de \in {"none", "receiving", "prepared", "published", "completed"}
    BY <1>5 DEF Nodes
  <2> HIDE DEF sp, rc, de, Swept
  <2> QED
    BY <1>5, <2>1, <2>2, <2>3 DEF Nodes
<1> HIDE DEF Swept, P
<1>7. P.mid \cup P.end \subseteq Nodes
  BY <1>1, <1>2, <1>3, <1>4, <1>6 DEF Does, Denied
<1> QED
  BY <1>7 DEF P

LEMMA CompleteTypes ==
    ASSUME NEW s \in Nodes
    PROVE  Completes(s).mid \cup Completes(s).end \subseteq Nodes
<1> DEFINE sure == [s EXCEPT !.rcpt = "completing"]
           plain == [sure EXCEPT !.marked = FALSE]
           swept == [plain EXCEPT !.kept = "none", !.spare = FALSE]
           said == [swept EXCEPT !.desc = "completed"]
           final == [said EXCEPT !.rcpt = "completed"]
           P == Completes(s)
<1>1. P \in {Does({}, s), Denied, Does({sure, plain, swept, said}, final)}
  BY DEF Completes
<1>2. sure \in Nodes
  BY DEF Nodes
<1> HIDE DEF sure
<1>3. plain \in Nodes
  BY <1>2 DEF Nodes
<1> HIDE DEF plain
<1>4. swept \in Nodes
  BY <1>3 DEF Nodes, SaveKinds
<1> HIDE DEF swept
<1>5. said \in Nodes
  BY <1>4 DEF Nodes
<1> HIDE DEF said
<1>6. final \in Nodes
  BY <1>5 DEF Nodes
<1> HIDE DEF final, P
<1>7. P.mid \cup P.end \subseteq Nodes
  BY <1>1, <1>2, <1>3, <1>4, <1>5, <1>6 DEF Does, Denied
<1> QED
  BY <1>7 DEF P

LEMMA SwitchTypes ==
    ASSUME NEW s \in Nodes, NEW step \in NodeSteps, NEW k \in Kinds
    PROVE  Switches(step, k, s).mid \cup Switches(step, k, s).end \subseteq Nodes
  BY DEF Switches, Does, Denied, Nodes, SaveKinds

LEMMA EffectTypes ==
    ASSUME NEW s \in Nodes, NEW step \in NodeSteps, NEW k \in Kinds
    PROVE  Effect(step, k, s).mid \cup Effect(step, k, s).end \subseteq Nodes
  BY ReceiveTypes, PublishTypes, RollbackTypes, CompleteTypes, SwitchTypes DEF Effect, NodeSteps

-----------------------------------------------------------------------------
(* Calls, saves and steps *)

LEMMA PartFacts ==
    /\ LastPart \in Nat /\ LastPart >= 1 /\ LastTurn \in Nat
    /\ Parts \subseteq 0 .. LastPart + 1 /\ 0 \in 0 .. LastPart + 1 /\ 1 \in 0 .. LastPart + 1
    /\ LastPart \in 0 .. LastPart + 1
    /\ \A n \in 0 .. LastPart + 1 : n <= LastPart => n + 1 \in 0 .. LastPart + 1 /\ n + 1 >= 1
    /\ \A n \in 0 .. LastPart + 1 : n # 0 => n - 1 \in 0 .. LastPart + 1 /\ n - 1 <= LastPart
    /\ \A n \in 0 .. LastPart + 1 : n # 0 /\ n <= LastPart => n \in Parts
  BY BackupAssumption DEF Parts

LEMMA Charges ==
    ASSUME BackupTypeOK, Sound \/ Fault
    PROVE  begged' \in 0 .. MaxPleas /\ spent' \in 0 .. MaxFaults
  BY BackupAssumption DEF BackupTypeOK, Sound, Fault

LEMMA BecomesTypes ==
    ASSUME BackupTypeOK, NEW w \in Parts, NEW s \in Nodes, Becomes(w, s)
    PROVE  /\ node' \in [Parts -> Nodes]
           /\ deferred' \subseteq [w : Parts, step : NodeSteps, op : Kinds, token : 1 .. LastTurn]
  BY DEF BackupTypeOK, Becomes

\* A call leaves a machine and the calls under way well formed.
LEMMA CallTypes ==
    ASSUME BackupTypeOK, NEW w \in Parts, run.at \in NodeSteps, run.op \in Kinds, turn \in 1 .. LastTurn,
           Done(w) \/ NotDone(w)
    PROVE  /\ node' \in [Parts -> Nodes]
           /\ deferred' \subseteq [w : Parts, step : NodeSteps, op : Kinds, token : 1 .. LastTurn]
           /\ begged' \in 0 .. MaxPleas /\ spent' \in 0 .. MaxFaults
<1>1. node[w] \in Nodes
  BY DEF BackupTypeOK
<1> DEFINE E == Effect(run.at, run.op, node[w])
<1>2. E.mid \cup E.end \subseteq Nodes
  BY <1>1, EffectTypes
<1> HIDE DEF E
<1>3. begged' \in 0 .. MaxPleas /\ spent' \in 0 .. MaxFaults
  <2>1. Sound \/ Fault
    BY DEF Done, NotDone
  <2> QED
    BY <2>1, Charges
<1>4. CASE \E s \in Nodes : Becomes(w, s)
  BY <1>3, <1>4, BecomesTypes
<1>5. CASE UNCHANGED <<node, deferred>>
  BY <1>3, <1>5 DEF BackupTypeOK
<1>6. CASE /\ deferred' = deferred \cup {[w |-> w, step |-> run.at, op |-> run.op, token |-> turn]}
           /\ UNCHANGED node
  BY <1>3, <1>6 DEF BackupTypeOK
<1>7. CASE Done(w)
  <2>1. \E s \in E.end : Becomes(w, s)
    BY <1>7 DEF Done, E
  <2> QED
    BY <1>2, <1>4, <2>1
<1>8. CASE NotDone(w)
  <2>1. \/ Becomes(w, node[w])
        \/ UNCHANGED <<node, deferred>>
        \/ \E s \in E.mid \cup E.end : Becomes(w, s)
        \/ /\ deferred' = deferred \cup {[w |-> w, step |-> run.at, op |-> run.op, token |-> turn]}
           /\ UNCHANGED node
    BY <1>8 DEF NotDone, E
  <2> QED
    BY <1>1, <1>2, <1>4, <1>5, <1>6, <2>1
<1> QED
  BY <1>7, <1>8

\* A save changes the row of the run's operation, or nothing.
LEMMA SaveFacts ==
    ASSUME BackupTypeOK, run.op \in Kinds, NEW phase \in PhaseNames, NEW status \in StatusNames,
           NEW ok \in BOOLEAN, Saves(phase, status, ok)
    PROVE  /\ table' \in [Kinds -> OpRows \cup {NoOp}]
           /\ begged' \in 0 .. MaxPleas /\ spent' \in 0 .. MaxFaults
           /\ \A k \in Kinds : k # run.op => table'[k] = table[k]
           /\ table'[run.op] = table[run.op] \/ (table'[run.op] \in OpRows /\ table'[run.op].status = status)
<1>1. PICK k \in Kinds : k = run.op
  OBVIOUS
<1>2. CASE UNCHANGED table /\ Fault
  BY <1>2, Charges DEF BackupTypeOK
<1>3. CASE Sound /\ table' = [table EXCEPT ![run.op].phase = phase, ![run.op].status = status]
  <2> DEFINE row == [table[k] EXCEPT !.phase = phase, !.status = status]
  <2>1. table' = [table EXCEPT ![k] = row]
    BY <1>1, <1>3 DEF BackupTypeOK
  <2>2. row \in OpRows /\ row.status = status
    <3>1. CASE table[k] \in OpRows
      BY <3>1 DEF OpRows
    <3>2. CASE table[k] = NoOp
      <4>1. NoOp \in [phase : PhaseNames \cup {"none"}, status : StatusNames \cup {"none"}, was : SUBSET Parts]
        BY DEF NoOp
      <4> QED
        BY <3>2, <4>1 DEF OpRows
    <3> QED
      BY <3>1, <3>2 DEF BackupTypeOK
  <2> HIDE DEF row
  <2> QED
    BY <1>1, <1>3, <2>1, <2>2, Charges DEF BackupTypeOK
<1> QED
  BY <1>2, <1>3 DEF Saves, NoSave

LEMMA RowIsNew == NoOp \notin OpRows
<1>1. \A r \in OpRows : r.phase \in PhaseNames
  BY DEF OpRows
<1>2. NoOp.phase \notin PhaseNames
  BY DEF NoOp, PhaseNames
<1> QED
  BY <1>1, <1>2

LEMMA RunTyped == BackupTypeOK <=> BackupTypeOK /\ run \in Runs
  BY DEF BackupTypeOK, Runs

\* The run at another step.
LEMMA StepFields ==
    ASSUME BackupTypeOK, NEW at \in RunSteps, NEW n \in 0 .. LastPart + 1,
           run' = [run EXCEPT !.at = at, !.n = n]
    PROVE  /\ run' \in Runs /\ run'.at = at /\ run'.n = n /\ run'.op = run.op /\ run'.way = run.way
           /\ run'.phase = run.phase /\ run'.status = run.status
<1>1. run \in Runs
  BY RunTyped
<1>2. run' \in Runs /\ run'.at = at /\ run'.n = n
  BY <1>1 DEF Runs
<1>3. run'.op = run.op /\ run'.way = run.way /\ run'.phase = run.phase /\ run'.status = run.status
  BY <1>1 DEF Runs
<1> QED
  BY <1>2, <1>3

\* The same, after an error.
LEMMA BadStepFields ==
    ASSUME BackupTypeOK, NEW at \in RunSteps, NEW n \in 0 .. LastPart + 1,
           run' = [[run EXCEPT !.at = at, !.n = n] EXCEPT !.bad = TRUE]
    PROVE  /\ run' \in Runs /\ run'.at = at /\ run'.n = n /\ run'.op = run.op
           /\ run'.phase = run.phase /\ run'.status = run.status
<1>1. run \in Runs
  BY RunTyped
<1>2. run' \in Runs /\ run'.at = at /\ run'.n = n
  BY <1>1 DEF Runs
<1>3. run'.op = run.op /\ run'.phase = run.phase /\ run'.status = run.status
  BY <1>1 DEF Runs
<1> QED
  BY <1>2, <1>3

LEMMA StepNames ==
    /\ {"notify", "quiet", "stage", "fail", "mark", "delete", "purge", "idle"} \subseteq RunSteps
    /\ NodeSteps \subseteq RunSteps
    /\ {"transfer", "publish", "complete", "rollback", "stop", "restart"} \subseteq NodeSteps
    /\ \A at \in NodeSteps : at \notin {"idle", "delete", "purge"}
  BY DEF RunSteps, NodeSteps

LEMMA FreeFields ==
    FreeRoom \in Runs /\ FreeRoom.at = "idle" /\ FreeRoom.op = "none"
<1>1. "idle" \in RunSteps /\ {} \in SUBSET Parts /\ 0 \in 0 .. LastPart + 1
  BY PartFacts DEF RunSteps
<1> QED
  BY <1>1 DEF FreeRoom, Runs

-----------------------------------------------------------------------------
(* Steps of the operation that holds the room *)

\* A step of an operation keeps the invariant when it keeps the types and the
\* restore's row open as long as the restore holds the room.
LEMMA OperationStep ==
    ASSUME BackupInv, Around, run.at \notin {"idle", "delete", "purge"},
           node' \in [Parts -> Nodes],
           deferred' \subseteq [w : Parts, step : NodeSteps, op : Kinds, token : 1 .. LastTurn],
           table' \in [Kinds -> OpRows \cup {NoOp}],
           run' \in Runs, RunInv', run'.at \notin {"delete", "purge"},
           backup' \in [status : {"none", "creating", "verified", "failed"},
                        parts : [Parts -> SaveKinds \cup {"unsure"}]],
           begged' \in 0 .. MaxPleas, spent' \in 0 .. MaxFaults,
           \A k \in Kinds : table'[k] = NoOp => table[k] = NoOp,
           Unfinished("restore")' => Unfinished("restore") \/ run.op = "restore",
           run'.op = "restore" => run.op = "restore" /\ (Unfinished("restore") => Unfinished("restore")')
    PROVE  BackupInv'
<1>1. BackupTypeOK'
  BY DEF BackupInv, BackupTypeOK, Around, Runs
<1>2. MadeInv'
  BY DEF BackupInv, MadeInv, Around
<1>3. PleaInv'
  BY DEF BackupInv, PleaInv, Around
<1>4. OpenInv'
  BY DEF BackupInv, OpenInv, Around
<1>5. DeleteInv'
  BY DEF DeleteInv
<1>6. SourceKept'
  <2>1. Unfinished("restore")' /\ ~outdated => Unfinished("restore")
    BY DEF BackupInv, OpenInv
  <2> QED
    BY <2>1 DEF BackupInv, SourceKept, Around
<1> QED
  BY <1>1, <1>2, <1>3, <1>4, <1>5, <1>6 DEF BackupInv

\* A step that does not save.
LEMMA QuietStep ==
    ASSUME BackupInv, Around, NoSave, run.at \notin {"idle", "delete", "purge"},
           node' \in [Parts -> Nodes],
           deferred' \subseteq [w : Parts, step : NodeSteps, op : Kinds, token : 1 .. LastTurn],
           run' \in Runs, RunInv', run'.at \notin {"delete", "purge"},
           backup' \in [status : {"none", "creating", "verified", "failed"},
                        parts : [Parts -> SaveKinds \cup {"unsure"}]],
           begged' \in 0 .. MaxPleas, spent' \in 0 .. MaxFaults,
           run'.op = "restore" => run.op = "restore"
    PROVE  BackupInv'
<1>1. table' = table /\ table \in [Kinds -> OpRows \cup {NoOp}]
  BY DEF NoSave, BackupInv, BackupTypeOK
<1>2. Unfinished("restore")' = Unfinished("restore")
  BY <1>1 DEF Unfinished
<1> QED
  BY <1>1, <1>2, OperationStep

\* Where an error leads.
LEMMA FailSteps ==
    ASSUME BackupInv, run.at \notin {"idle", "delete", "purge"}, Around,
           NEW n \in 0 .. LastPart + 1, n <= LastPart, FailsAfter(n)
    PROVE  run' \in Runs /\ RunInv' /\ run'.op = run.op /\ run'.at \notin {"delete", "purge"}
<1>1. "fail" \in RunSteps /\ "rollback" \in RunSteps /\ "mark" \in RunSteps
  BY DEF RunSteps, NodeSteps
<1>0. 0 \in 0 .. LastPart + 1 /\ 1 \in 0 .. LastPart + 1 /\ 0 <= LastPart /\ 1 <= LastPart
  BY PartFacts
<1>2. PICK at \in RunSteps, m \in 0 .. LastPart + 1 :
         run' = [run EXCEPT !.at = at, !.n = m] /\ m <= LastPart /\ at \in {"fail", "rollback", "mark"}
  <2>1. run' \in {AtStep("fail", 1), AtStep("rollback", n), AtStep("mark", 0)}
    BY DEF FailsAfter
  <2>2. CASE run' = AtStep("fail", 1)
    BY <1>0, <1>1, <2>2 DEF AtStep
  <2>3. CASE run' = AtStep("rollback", n)
    BY <1>0, <1>1, <2>3 DEF AtStep
  <2>4. CASE run' = AtStep("mark", 0)
    BY <1>0, <1>1, <2>4 DEF AtStep
  <2> QED
    BY <2>1, <2>2, <2>3, <2>4
<1>3. BackupTypeOK
  BY DEF BackupInv
<1>4. /\ run' \in Runs /\ run'.at = at /\ run'.n = m /\ run'.op = run.op
      /\ run'.phase = run.phase /\ run'.status = run.status
  BY <1>2, <1>3, StepFields
<1>5. RunInv'
  BY <1>2, <1>4 DEF BackupInv, RunInv, Around
<1> QED
  BY <1>2, <1>4, <1>5

\* The room is given up.
LEMMA Leaves ==
    ASSUME run' = FreeRoom
    PROVE  run' \in Runs /\ RunInv' /\ run'.op # "restore" /\ run'.at = "idle"
  BY FreeFields DEF RunInv

\* One call, or none.
LEMMA CallStep ==
    ASSUME BackupInv, Around, NoSave, UNCHANGED backup, run.at \in NodeSteps,
           (run.n \in Parts /\ (Done(run.n) \/ NotDone(run.n))) \/ (Sound /\ NoNode),
           run' \in Runs, RunInv', run'.op = run.op, run'.at \notin {"delete", "purge"}
    PROVE  BackupInv'
<1>1. BackupTypeOK /\ run.op \in Kinds /\ turn \in 1 .. LastTurn
  BY StepNames DEF BackupInv, RunInv
<1>2. /\ node' \in [Parts -> Nodes]
      /\ deferred' \subseteq [w : Parts, step : NodeSteps, op : Kinds, token : 1 .. LastTurn]
      /\ begged' \in 0 .. MaxPleas /\ spent' \in 0 .. MaxFaults
  <2>1. CASE Sound /\ NoNode
    BY <1>1, <2>1, Charges DEF NoNode, BackupTypeOK
  <2>2. CASE run.n \in Parts /\ (Done(run.n) \/ NotDone(run.n))
    BY <1>1, <2>2, CallTypes
  <2> QED
    BY <2>1, <2>2
<1>3. run.at \notin {"idle", "delete", "purge"}
  BY StepNames
<1>4. backup' \in [status : {"none", "creating", "verified", "failed"},
                   parts : [Parts -> SaveKinds \cup {"unsure"}]]
  BY <1>1 DEF BackupTypeOK
<1> QED
  BY <1>2, <1>3, <1>4, QuietStep

\* The operation goes on at another step.
LEMMA GoesTo ==
    ASSUME BackupInv, Around, run.at \notin {"idle", "delete", "purge"},
           NEW at \in RunSteps, NEW n \in 0 .. LastPart + 1, at \notin {"delete", "purge"},
           at \in {"transfer", "publish"} => run.op = "restore",
           at \in {"stop", "rollback"} => n <= LastPart,
           at \in {"stage", "transfer", "publish", "complete", "restart"} => n >= 1,
           \/ run' = [run EXCEPT !.at = at, !.n = n]
           \/ run' = [[run EXCEPT !.at = at, !.n = n] EXCEPT !.bad = TRUE]
    PROVE  run' \in Runs /\ RunInv' /\ run'.op = run.op /\ run'.at \notin {"delete", "purge"}
<1>1. BackupTypeOK
  BY DEF BackupInv
<1>2. /\ run' \in Runs /\ run'.at = at /\ run'.n = n /\ run'.op = run.op
      /\ run'.phase = run.phase /\ run'.status = run.status
  BY <1>1, StepFields, BadStepFields
<1> QED
  BY <1>2 DEF BackupInv, RunInv, Around

\* The operation goes on with another phase.
LEMMA HeadsTo ==
    ASSUME BackupInv, Around, run.at \notin {"idle", "delete", "purge"},
           NEW at \in RunSteps, NEW n \in 0 .. LastPart + 1, at \in {"stop", "restart", "complete"},
           at = "stop" => n <= LastPart, at # "stop" => n >= 1,
           NEW phase \in PhaseNames, NEW status \in StatusNames,
           \/ run' = [[run EXCEPT !.at = at, !.n = n] EXCEPT !.phase = phase, !.status = status]
           \/ run' = [[[run EXCEPT !.at = at, !.n = n] EXCEPT !.phase = phase, !.status = status]
                        EXCEPT !.bad = FALSE]
    PROVE  run' \in Runs /\ RunInv' /\ run'.op = run.op /\ run'.at \notin {"delete", "purge"}
<1>1. run \in Runs
  BY RunTyped DEF BackupInv
<1>2. run' \in Runs
  BY <1>1 DEF Runs
<1>3. run'.at = at /\ run'.n = n /\ run'.op = run.op
  BY <1>1 DEF Runs
<1>4. run'.phase = phase /\ run'.status = status
  BY <1>1 DEF Runs
<1> QED
  BY <1>2, <1>3, <1>4 DEF BackupInv, RunInv, Around

\* The number of the world the run is at.
LEMMA WorldAt ==
    ASSUME BackupInv
    PROVE  /\ BackupTypeOK /\ run \in Runs /\ run.n \in 0 .. LastPart + 1
           /\ 0 \in 0 .. LastPart + 1 /\ 1 \in 0 .. LastPart + 1 /\ LastPart \in 0 .. LastPart + 1
           /\ 0 <= LastPart /\ 1 <= LastPart /\ 1 >= 1 /\ LastPart <= LastPart
           /\ run.n # 0 /\ run.n <= LastPart => run.n \in Parts
           /\ run.n <= LastPart => run.n + 1 \in 0 .. LastPart + 1 /\ run.n + 1 >= 1
           /\ run.n # 0 => run.n - 1 \in 0 .. LastPart + 1 /\ run.n - 1 <= LastPart
           /\ run.n >= 1 => run.n # 0
           /\ run.n > 0 => run.n # 0
<1>1. BackupTypeOK /\ run \in Runs
  BY RunTyped DEF BackupInv
<1>2. run.n \in 0 .. LastPart + 1
  BY <1>1 DEF Runs
<1> QED
  BY <1>1, <1>2, PartFacts

LEMMA StopWorldKeeps ==
    ASSUME BackupInv, StopWorld
    PROVE  BackupInv'
<1>1. run.at = "stop" /\ run.at \in NodeSteps /\ run.n <= LastPart /\ Around /\ NoSave /\ UNCHANGED backup
  BY StepNames DEF BackupInv, StopWorld, RunInv
<1>2. "quiet" \in RunSteps /\ "stop" \in RunSteps
  BY StepNames
<1>3. CASE run' = AtStep("quiet", 0) /\ Sound /\ NoNode
  <2>1. run' = [run EXCEPT !.at = "quiet", !.n = 0]
    BY <1>3 DEF AtStep
  <2>2. run' \in Runs /\ RunInv' /\ run'.op = run.op /\ run'.at \notin {"delete", "purge"}
    BY <1>1, <1>2, <2>1, WorldAt, GoesTo
  <2> QED
    BY <1>1, <1>3, <2>2, CallStep
<1>4. CASE run.n # 0 /\ run' = AtStep("stop", run.n - 1) /\ (Done(run.n) \/ (Sound /\ NoNode))
  <2>1. PICK m \in 0 .. LastPart + 1 : m = run.n - 1 /\ m <= LastPart
    BY <1>4, WorldAt
  <2>2. run' = [run EXCEPT !.at = "stop", !.n = m]
    BY <1>4, <2>1 DEF AtStep
  <2>3. run' \in Runs /\ RunInv' /\ run'.op = run.op /\ run'.at \notin {"delete", "purge"}
    BY <1>1, <1>2, <2>1, <2>2, GoesTo
  <2> QED
    BY <1>1, <1>4, <2>3, WorldAt, CallStep
<1>5. CASE run.n # 0 /\ NotDone(run.n) /\ FailsAfter(0)
  <2>1. run' \in Runs /\ RunInv' /\ run'.op = run.op /\ run'.at \notin {"delete", "purge"}
    BY <1>1, <1>5, WorldAt, FailSteps
  <2> QED
    BY <1>1, <1>5, <2>1, WorldAt, CallStep
<1> QED
  BY <1>3, <1>4, <1>5 DEF StopWorld

\* The loops over the parts of a restore, forward.
LEMMA PartKeeps ==
    ASSUME BackupInv, NEW at \in {"transfer", "publish", "complete", "restart"}, run.at = at, run.n <= LastPart,
           Around, NoSave, UNCHANGED backup,
           \/ (Done(run.n) \/ NotDone(run.n) \/ (Sound /\ NoNode))
              /\ (run' = AtStep(at, run.n + 1) \/ run' = [AtStep(at, run.n + 1) EXCEPT !.bad = TRUE])
           \/ NotDone(run.n) /\ (FailsAfter(run.n) \/ FailsAfter(LastPart))
    PROVE  BackupInv'
<1>1. run.at \in NodeSteps /\ run.n >= 1 /\ run.n \in Parts /\ (at \in {"transfer", "publish"} => run.op = "restore")
  BY WorldAt, StepNames DEF BackupInv, RunInv
<1>2. CASE /\ Done(run.n) \/ NotDone(run.n) \/ (Sound /\ NoNode)
           /\ run' = AtStep(at, run.n + 1) \/ run' = [AtStep(at, run.n + 1) EXCEPT !.bad = TRUE]
  <2>1. PICK m \in 0 .. LastPart + 1 : m = run.n + 1 /\ m >= 1
    BY WorldAt
  <2>2. run' = [run EXCEPT !.at = at, !.n = m] \/ run' = [[run EXCEPT !.at = at, !.n = m] EXCEPT !.bad = TRUE]
    BY <1>2, <2>1 DEF AtStep
  <2>3. run' \in Runs /\ RunInv' /\ run'.op = run.op /\ run'.at \notin {"delete", "purge"}
    BY <1>1, <2>1, <2>2, StepNames, GoesTo
  <2> QED
    BY <1>1, <1>2, <2>3, CallStep
<1>3. CASE NotDone(run.n) /\ (FailsAfter(run.n) \/ FailsAfter(LastPart))
  <2>1. run' \in Runs /\ RunInv' /\ run'.op = run.op /\ run'.at \notin {"delete", "purge"}
    BY <1>1, <1>3, WorldAt, StepNames, FailSteps
  <2> QED
    BY <1>1, <1>3, <2>1, CallStep
<1> QED
  BY <1>2, <1>3

LEMMA PartsKeep ==
    ASSUME BackupInv, Transfer \/ PublishPart \/ CompletePart \/ RestartWorld
    PROVE  BackupInv'
<1>1. CASE Transfer
  BY <1>1, PartKeeps DEF Transfer
<1>2. CASE PublishPart
  BY <1>2, PartKeeps DEF PublishPart
<1>3. CASE CompletePart
  BY <1>3, PartKeeps DEF CompletePart
<1>4. CASE RestartWorld
  BY <1>4, PartKeeps DEF RestartWorld
<1> QED
  BY <1>1, <1>2, <1>3, <1>4

LEMMA RollbackPartKeeps ==
    ASSUME BackupInv, RollbackPart
    PROVE  BackupInv'
<1>1. run.at = "rollback" /\ run.at \in NodeSteps /\ run.n <= LastPart /\ run.n # 0
      /\ Around /\ NoSave /\ UNCHANGED backup /\ (Done(run.n) \/ NotDone(run.n))
  BY WorldAt, StepNames DEF BackupInv, RollbackPart, RunInv
<1>2. PICK m \in 0 .. LastPart + 1 : m = run.n - 1 /\ m <= LastPart
  BY <1>1, WorldAt
<1>3. \/ run' = [run EXCEPT !.at = "rollback", !.n = m]
      \/ run' = [[run EXCEPT !.at = "rollback", !.n = m] EXCEPT !.bad = TRUE]
  BY <1>2 DEF RollbackPart, AtStep
<1>4. run' \in Runs /\ RunInv' /\ run'.op = run.op /\ run'.at \notin {"delete", "purge"}
  BY <1>1, <1>2, <1>3, StepNames, GoesTo
<1> QED
  BY <1>1, <1>4, WorldAt, CallStep

LEMMA AllQuietKeeps ==
    ASSUME BackupInv, AllQuiet
    PROVE  BackupInv'
<1>1. run.at = "quiet" /\ run.at \in RunSteps /\ Around /\ NoSave /\ NoNode /\ UNCHANGED backup /\ (Sound \/ Fault)
  BY StepNames DEF AllQuiet
<1>2. run.op \in Kinds /\ BackupTypeOK
  BY <1>1 DEF BackupInv, RunInv
<1>3. run' \in Runs /\ RunInv' /\ run'.op = run.op /\ run'.at \notin {"delete", "purge"}
  <2>1. CASE FailsAfter(0)
    BY <1>1, <2>1, WorldAt, FailSteps
  <2>2. CASE run' = AtStep("rollback", LastPart)
    <3>1. run' = [run EXCEPT !.at = "rollback", !.n = LastPart]
      BY <2>2 DEF AtStep
    <3> QED
      BY <1>1, <3>1, WorldAt, StepNames, GoesTo
  <2>3. CASE run' = AtStep("stage", 1)
    <3>1. run' = [run EXCEPT !.at = "stage", !.n = 1]
      BY <2>3 DEF AtStep
    <3> QED
      BY <1>1, <3>1, WorldAt, StepNames, GoesTo
  <2>4. CASE run' = AtStep("transfer", 1) /\ run.op = "restore"
    <3>1. run' = [run EXCEPT !.at = "transfer", !.n = 1]
      BY <2>4 DEF AtStep
    <3> QED
      BY <1>1, <2>4, <3>1, WorldAt, StepNames, GoesTo
  <2>5. CASE run' = AtStep("restart", 1)
    <3>1. run' = [run EXCEPT !.at = "restart", !.n = 1]
      BY <2>5 DEF AtStep
    <3> QED
      BY <1>1, <3>1, WorldAt, StepNames, GoesTo
  <2> QED
    BY <1>2, <2>1, <2>2, <2>3, <2>4, <2>5 DEF AllQuiet, Kinds
<1>4. begged' \in 0 .. MaxPleas /\ spent' \in 0 .. MaxFaults
  BY <1>1, <1>2, Charges
<1> QED
  BY <1>1, <1>2, <1>3, <1>4, QuietStep DEF NoNode, BackupTypeOK

LEMMA StagePartKeeps ==
    ASSUME BackupInv, StagePart
    PROVE  BackupInv'
<1>1. run.at = "stage" /\ Around /\ NoSave /\ run.n <= LastPart /\ run.n \in Parts /\ BackupTypeOK
      /\ node[run.n] \in Nodes
  BY WorldAt DEF StagePart, BackupInv, RunInv, BackupTypeOK
<1>2. CASE /\ Sound /\ Becomes(run.n, node[run.n])
           /\ backup' = [backup EXCEPT !.parts[run.n] =
                           IF Unfinished("restore") THEN "unsure" ELSE node[run.n].save]
           /\ run' = AtStep("stage", run.n + 1)
  <2>1. PICK m \in 0 .. LastPart + 1 : m = run.n + 1 /\ m >= 1
    BY <1>1, WorldAt
  <2>2. run' = [run EXCEPT !.at = "stage", !.n = m]
    BY <1>2, <2>1 DEF AtStep
  <2>3. run' \in Runs /\ RunInv' /\ run'.op = run.op /\ run'.at \notin {"delete", "purge"}
    BY <1>1, <2>1, <2>2, StepNames, GoesTo
  <2>4. PICK x \in SaveKinds \cup {"unsure"} : x = IF Unfinished("restore") THEN "unsure" ELSE node[run.n].save
    BY <1>1 DEF Nodes
  <2>5. backup' \in [status : {"none", "creating", "verified", "failed"},
                     parts : [Parts -> SaveKinds \cup {"unsure"}]]
    <3>1. backup' = [backup EXCEPT !.parts[run.n] = x]
      BY <1>2, <2>4
    <3> QED
      BY <1>1, <3>1 DEF BackupTypeOK
  <2>6. /\ node' \in [Parts -> Nodes]
        /\ deferred' \subseteq [w : Parts, step : NodeSteps, op : Kinds, token : 1 .. LastTurn]
    BY <1>1, <1>2, BecomesTypes
  <2>7. begged' \in 0 .. MaxPleas /\ spent' \in 0 .. MaxFaults
    BY <1>1, <1>2, Charges
  <2> QED
    BY <1>1, <2>3, <2>5, <2>6, <2>7, QuietStep
<1>3. CASE (Sound \/ Fault) /\ NoNode /\ UNCHANGED backup /\ FailsAfter(0)
  <2>1. run' \in Runs /\ RunInv' /\ run'.op = run.op /\ run'.at \notin {"delete", "purge"}
    BY <1>1, <1>3, WorldAt, FailSteps
  <2>2. begged' \in 0 .. MaxPleas /\ spent' \in 0 .. MaxFaults
    BY <1>1, <1>3, Charges
  <2> QED
    BY <1>1, <1>3, <2>1, <2>2, QuietStep DEF NoNode, BackupTypeOK
<1> QED
  BY <1>2, <1>3 DEF StagePart

LEMMA SavePreparedKeeps ==
    ASSUME BackupInv, SavePrepared
    PROVE  BackupInv'
<1>1. run.at = "transfer" /\ Around /\ NoSave /\ NoNode /\ UNCHANGED backup /\ (Sound \/ Fault) /\ BackupTypeOK
      /\ run.op = "restore"
  BY DEF SavePrepared, BackupInv, RunInv
<1>2. run' \in Runs /\ RunInv' /\ run'.op = run.op /\ run'.at \notin {"delete", "purge"}
  <2>1. CASE run' = AtStep("publish", 1)
    <3>1. run' = [run EXCEPT !.at = "publish", !.n = 1]
      BY <2>1 DEF AtStep
    <3> QED
      BY <1>1, <3>1, WorldAt, StepNames, GoesTo
  <2>2. CASE FailsAfter(LastPart)
    BY <1>1, <2>2, WorldAt, FailSteps
  <2> QED
    BY <2>1, <2>2 DEF SavePrepared
<1>3. begged' \in 0 .. MaxPleas /\ spent' \in 0 .. MaxFaults
  BY <1>1, Charges
<1> QED
  BY <1>1, <1>2, <1>3, QuietStep DEF NoNode, BackupTypeOK

-----------------------------------------------------------------------------
(* Steps that save the row or the set *)

LEMMA SaveStep ==
    ASSUME BackupInv, Around, NoNode, run.at \notin {"idle", "delete", "purge"},
           NEW phase \in PhaseNames, NEW status \in StatusNames, NEW ok \in BOOLEAN, Saves(phase, status, ok),
           run' \in Runs, RunInv', run'.at \notin {"delete", "purge"},
           backup' \in [status : {"none", "creating", "verified", "failed"},
                        parts : [Parts -> SaveKinds \cup {"unsure"}]],
           run'.op = "restore" => run.op = "restore" /\ status \in {"running", "recovery"}
    PROVE  BackupInv'
<1>1. BackupTypeOK /\ run.op \in Kinds
  BY DEF BackupInv, RunInv
<1>2. /\ table' \in [Kinds -> OpRows \cup {NoOp}]
      /\ begged' \in 0 .. MaxPleas /\ spent' \in 0 .. MaxFaults
      /\ \A k \in Kinds : k # run.op => table'[k] = table[k]
      /\ table'[run.op] = table[run.op] \/ (table'[run.op] \in OpRows /\ table'[run.op].status = status)
  BY <1>1, SaveFacts
<1>3. \A k \in Kinds : table'[k] = NoOp => table[k] = NoOp
  BY <1>1, <1>2, RowIsNew
<1>4. Unfinished("restore")' => Unfinished("restore") \/ run.op = "restore"
  BY <1>2 DEF Unfinished, Kinds
<1>5. run'.op = "restore" => run.op = "restore" /\ (Unfinished("restore") => Unfinished("restore")')
  BY <1>2 DEF Unfinished
<1> QED
  BY <1>1, <1>2, <1>3, <1>4, <1>5, OperationStep DEF NoNode, BackupTypeOK

\* The sets a failure or a completion leaves.
LEMMA SetTypes ==
    ASSUME BackupTypeOK
    PROVE  \A st \in {"creating", "verified", "failed"} :
             /\ [backup EXCEPT !.status = st] \in [status : {"none", "creating", "verified", "failed"},
                                                   parts : [Parts -> SaveKinds \cup {"unsure"}]]
             /\ backup \in [status : {"none", "creating", "verified", "failed"},
                            parts : [Parts -> SaveKinds \cup {"unsure"}]]
  BY DEF BackupTypeOK

\* failCreate's save of the operation.
LEMMA EndedRow ==
    ASSUME BackupTypeOK, table' \in {table, Ended}
    PROVE  /\ table' \in [Kinds -> OpRows \cup {NoOp}]
           /\ table'["restore"] = table["restore"]
           /\ \A k \in Kinds : table'[k] = NoOp => table[k] = NoOp
<1>1. CASE table' = table
  BY <1>1 DEF BackupTypeOK
<1>2. CASE table' = Ended
  <2> DEFINE row == [table["create"] EXCEPT !.phase = "failed", !.status = "failed"]
  <2>1. "create" \in Kinds /\ "restore" \in Kinds /\ Kinds = {"create", "restore"}
    BY DEF Kinds
  <2>2. table' = [table EXCEPT !["create"] = row]
    BY <1>2, <2>1 DEF Ended, BackupTypeOK
  <2>3. row \in OpRows
    <3>1. table["create"] \in [phase : PhaseNames \cup {"none"}, status : StatusNames \cup {"none"}, was : SUBSET Parts]
      <4>1. NoOp \in [phase : PhaseNames \cup {"none"}, status : StatusNames \cup {"none"}, was : SUBSET Parts]
        BY DEF NoOp
      <4> QED
        BY <2>1, <4>1 DEF BackupTypeOK, OpRows
    <3>2. "failed" \in PhaseNames /\ "failed" \in StatusNames
      BY DEF PhaseNames, StatusNames
    <3> QED
      BY <3>1, <3>2 DEF OpRows
  <2> HIDE DEF row
  <2> QED
    BY <2>1, <2>2, <2>3, RowIsNew DEF BackupTypeOK
<1> QED
  BY <1>1, <1>2

LEMMA NotifyKeeps ==
    ASSUME BackupInv, Notify
    PROVE  BackupInv'
<1>1. run.at = "notify" /\ NoNode /\ Around /\ UNCHANGED backup /\ BackupTypeOK
  BY DEF Notify, BackupInv
<1>2. "open" \in PhaseNames /\ "running" \in StatusNames
  BY DEF PhaseNames, StatusNames
<1>3. CASE Saves("open", "running", TRUE) /\ run' = Headed("stop", LastPart, "open", "running")
  <2>1. run' = [[run EXCEPT !.at = "stop", !.n = LastPart] EXCEPT !.phase = "open", !.status = "running"]
    BY <1>3 DEF Headed, AtStep
  <2>2. run' \in Runs /\ RunInv' /\ run'.op = run.op /\ run'.at \notin {"delete", "purge"}
    BY <1>1, <1>2, <2>1, WorldAt, StepNames, HeadsTo
  <2> QED
    BY <1>1, <1>2, <1>3, <2>2, SetTypes, SaveStep
<1>4. CASE Fault /\ NoSave /\ run' = Headed("restart", 1, "open", "running")
  <2>1. run' = [[run EXCEPT !.at = "restart", !.n = 1] EXCEPT !.phase = "open", !.status = "running"]
    BY <1>4 DEF Headed, AtStep
  <2>2. run' \in Runs /\ RunInv' /\ run'.op = run.op /\ run'.at \notin {"delete", "purge"}
    BY <1>1, <1>2, <2>1, WorldAt, StepNames, HeadsTo
  <2>3. begged' \in 0 .. MaxPleas /\ spent' \in 0 .. MaxFaults
    BY <1>1, <1>4, Charges
  <2> QED
    BY <1>1, <1>4, <2>2, <2>3, QuietStep DEF NoNode, BackupTypeOK
<1>5. CASE Fault /\ NoSave /\ run' = AtStep("fail", 0)
  <2>1. run' = [run EXCEPT !.at = "fail", !.n = 0]
    BY <1>5 DEF AtStep
  <2>2. run' \in Runs /\ RunInv' /\ run'.op = run.op /\ run'.at \notin {"delete", "purge"}
    BY <1>1, <2>1, WorldAt, StepNames, GoesTo
  <2>3. begged' \in 0 .. MaxPleas /\ spent' \in 0 .. MaxFaults
    BY <1>1, <1>5, Charges
  <2> QED
    BY <1>1, <1>5, <2>2, <2>3, QuietStep DEF NoNode, BackupTypeOK
<1> QED
  BY <1>3, <1>4, <1>5 DEF Notify

LEMMA FinalizeKeeps ==
    ASSUME BackupInv, Finalize
    PROVE  BackupInv'
<1>1. run.at = "stage" /\ NoNode /\ Around /\ BackupTypeOK
  BY DEF Finalize, BackupInv
<1>2. backup' \in [status : {"none", "creating", "verified", "failed"}, parts : [Parts -> SaveKinds \cup {"unsure"}]]
  BY <1>1, SetTypes DEF Finalize
<1>3. CASE Fault /\ table' \in {table, Ended} /\ run' = AtStep("restart", 1)
  <2>1. run' = [run EXCEPT !.at = "restart", !.n = 1]
    BY <1>3 DEF AtStep
  <2>2. run' \in Runs /\ RunInv' /\ run'.op = run.op /\ run'.at \notin {"delete", "purge"}
    BY <1>1, <2>1, WorldAt, StepNames, GoesTo
  <2>3. begged' \in 0 .. MaxPleas /\ spent' \in 0 .. MaxFaults
    BY <1>1, <1>3, Charges
  <2>4. /\ table' \in [Kinds -> OpRows \cup {NoOp}]
        /\ Unfinished("restore")' = Unfinished("restore")
        /\ \A k \in Kinds : table'[k] = NoOp => table[k] = NoOp
    BY <1>1, <1>3, EndedRow DEF Unfinished
  <2> QED
    BY <1>1, <1>2, <2>2, <2>3, <2>4, OperationStep DEF NoNode, BackupTypeOK
<1>4. ASSUME NEW ok \in BOOLEAN, Saves("resuming", "running", ok), run' = Headed("restart", 1, "resuming", "running")
      PROVE  BackupInv'
  <2>1. "resuming" \in PhaseNames /\ "running" \in StatusNames
    BY DEF PhaseNames, StatusNames
  <2>2. run' = [[run EXCEPT !.at = "restart", !.n = 1] EXCEPT !.phase = "resuming", !.status = "running"]
    BY <1>4 DEF Headed, AtStep
  <2>3. run' \in Runs /\ RunInv' /\ run'.op = run.op /\ run'.at \notin {"delete", "purge"}
    BY <1>1, <2>1, <2>2, WorldAt, StepNames, HeadsTo
  <2> QED
    BY <1>1, <1>2, <1>4, <2>1, <2>3, SaveStep
<1> QED
  BY <1>3, <1>4 DEF Finalize

LEMMA FailCreateKeeps ==
    ASSUME BackupInv, FailCreate
    PROVE  BackupInv'
<1>1. run.at = "fail" /\ NoNode /\ Around /\ BackupTypeOK /\ (Sound \/ Fault) /\ table' \in {table, Ended}
  BY DEF FailCreate, BackupInv
<1>2. backup' \in [status : {"none", "creating", "verified", "failed"}, parts : [Parts -> SaveKinds \cup {"unsure"}]]
  BY <1>1, SetTypes DEF FailCreate, Dropped
<1>3. begged' \in 0 .. MaxPleas /\ spent' \in 0 .. MaxFaults
  BY <1>1, Charges
<1>4. /\ table' \in [Kinds -> OpRows \cup {NoOp}]
      /\ Unfinished("restore")' = Unfinished("restore")
      /\ \A k \in Kinds : table'[k] = NoOp => table[k] = NoOp
  BY <1>1, EndedRow DEF Unfinished
<1>5. run' \in Runs /\ RunInv' /\ (run'.op = "restore" => run.op = "restore") /\ run'.at \notin {"delete", "purge"}
  <2>1. CASE run' = FreeRoom
    BY <2>1, Leaves
  <2>2. CASE run' = AtStep("restart", 1)
    <3>1. run' = [run EXCEPT !.at = "restart", !.n = 1]
      BY <2>2 DEF AtStep
    <3> QED
      BY <1>1, <3>1, WorldAt, StepNames, GoesTo
  <2> QED
    BY <2>1, <2>2 DEF FailCreate
<1> QED
  BY <1>1, <1>2, <1>3, <1>4, <1>5, OperationStep DEF NoNode, BackupTypeOK

LEMMA SavePublishedKeeps ==
    ASSUME BackupInv, SavePublished
    PROVE  BackupInv'
<1>1. run.at = "publish" /\ NoNode /\ Around /\ BackupTypeOK /\ UNCHANGED backup /\ run.op = "restore"
  BY DEF SavePublished, BackupInv, RunInv
<1>2. "published" \in PhaseNames /\ "running" \in StatusNames /\ "recovery" \in StatusNames
  BY DEF PhaseNames, StatusNames
<1>3. CASE Saves("published", "running", TRUE) /\ run' = Headed("complete", 1, "published", "running")
  <2>1. run' = [[run EXCEPT !.at = "complete", !.n = 1] EXCEPT !.phase = "published", !.status = "running"]
    BY <1>3 DEF Headed, AtStep
  <2>2. run' \in Runs /\ RunInv' /\ run'.op = run.op /\ run'.at \notin {"delete", "purge"}
    BY <1>1, <1>2, <2>1, WorldAt, StepNames, HeadsTo
  <2> QED
    BY <1>1, <1>2, <1>3, <2>2, SetTypes, SaveStep
<1>4. CASE Fault /\ run' = FreeRoom /\ UNCHANGED table
  BY <1>1, <1>4, Leaves, Charges, QuietStep DEF NoNode, NoSave, BackupTypeOK
<1>5. CASE /\ Fault /\ run' = FreeRoom
           /\ table' = [table EXCEPT !["restore"].phase = "published", !["restore"].status = "recovery"]
  <2> DEFINE row == [table["restore"] EXCEPT !.phase = "published", !.status = "recovery"]
  <2>1. "restore" \in Kinds
    BY DEF Kinds
  <2>2. table' = [table EXCEPT !["restore"] = row]
    BY <1>1, <1>5, <2>1 DEF BackupTypeOK
  <2>3. row \in OpRows /\ row.status = "recovery"
    <3>1. NoOp \in [phase : PhaseNames \cup {"none"}, status : StatusNames \cup {"none"}, was : SUBSET Parts]
      BY DEF NoOp
    <3>2. table["restore"] \in [phase : PhaseNames \cup {"none"}, status : StatusNames \cup {"none"}, was : SUBSET Parts]
      BY <1>1, <2>1, <3>1 DEF BackupTypeOK, OpRows
    <3> QED
      BY <1>2, <3>2 DEF OpRows
  <2> HIDE DEF row
  <2>4. /\ table' \in [Kinds -> OpRows \cup {NoOp}]
        /\ \A k \in Kinds : table'[k] = NoOp => table[k] = NoOp
    BY <1>1, <2>1, <2>2, <2>3, RowIsNew DEF BackupTypeOK
  <2>5. run' \in Runs /\ RunInv' /\ run'.op # "restore" /\ run'.at \notin {"delete", "purge"}
    BY <1>5, Leaves
  <2>6. begged' \in 0 .. MaxPleas /\ spent' \in 0 .. MaxFaults
    BY <1>1, <1>5, Charges
  <2> QED
    BY <1>1, <2>4, <2>5, <2>6, OperationStep DEF NoNode, BackupTypeOK
<1> QED
  BY <1>3, <1>4, <1>5 DEF SavePublished

LEMMA CompletedKeeps ==
    ASSUME BackupInv, Completed
    PROVE  BackupInv'
<1>1. run.at = "complete" /\ NoNode /\ Around /\ BackupTypeOK /\ UNCHANGED backup
  BY DEF Completed, BackupInv
<1>2. CASE NoSave /\ Sound /\ run' = AtStep("restart", 1)
  <2>1. run' = [run EXCEPT !.at = "restart", !.n = 1]
    BY <1>2 DEF AtStep
  <2>2. run' \in Runs /\ RunInv' /\ run'.op = run.op /\ run'.at \notin {"delete", "purge"}
    BY <1>1, <2>1, WorldAt, StepNames, GoesTo
  <2>3. begged' \in 0 .. MaxPleas /\ spent' \in 0 .. MaxFaults
    BY <1>1, <1>2, Charges
  <2> QED
    BY <1>1, <1>2, <2>2, <2>3, QuietStep DEF NoNode, BackupTypeOK
<1>3. ASSUME NEW ok \in BOOLEAN, Saves("resuming", "running", ok),
             run' = [Headed("restart", 1, "resuming", "running") EXCEPT !.bad = FALSE]
      PROVE  BackupInv'
  <2>1. "resuming" \in PhaseNames /\ "running" \in StatusNames
    BY DEF PhaseNames, StatusNames
  <2>2. run' = [[[run EXCEPT !.at = "restart", !.n = 1] EXCEPT !.phase = "resuming", !.status = "running"]
                 EXCEPT !.bad = FALSE]
    BY <1>3 DEF Headed, AtStep
  <2>3. run' \in Runs /\ RunInv' /\ run'.op = run.op /\ run'.at \notin {"delete", "purge"}
    BY <1>1, <2>1, <2>2, WorldAt, StepNames, HeadsTo
  <2>4. ok \in BOOLEAN /\ Saves("resuming", "running", ok)
    BY <1>3
  <2> QED
    BY <1>1, <2>1, <2>3, <2>4, SetTypes, SaveStep
<1>4. ASSUME NEW ok \in BOOLEAN, Saves("resuming", "recovery", ok),
             run' = [Headed("restart", 1, "resuming", "recovery") EXCEPT !.bad = FALSE]
      PROVE  BackupInv'
  <2>1. "resuming" \in PhaseNames /\ "recovery" \in StatusNames
    BY DEF PhaseNames, StatusNames
  <2>2. run' = [[[run EXCEPT !.at = "restart", !.n = 1] EXCEPT !.phase = "resuming", !.status = "recovery"]
                 EXCEPT !.bad = FALSE]
    BY <1>4 DEF Headed, AtStep
  <2>3. run' \in Runs /\ RunInv' /\ run'.op = run.op /\ run'.at \notin {"delete", "purge"}
    BY <1>1, <2>1, <2>2, WorldAt, StepNames, HeadsTo
  <2>4. ok \in BOOLEAN /\ Saves("resuming", "recovery", ok)
    BY <1>4
  <2> QED
    BY <1>1, <2>1, <2>3, <2>4, SetTypes, SaveStep
<1> QED
  BY <1>2, <1>3, <1>4 DEF Completed

LEMMA RolledBackKeeps ==
    ASSUME BackupInv, RolledBack
    PROVE  BackupInv'
<1>1. run.at = "rollback" /\ NoNode /\ Around /\ BackupTypeOK /\ UNCHANGED backup
  BY DEF RolledBack, BackupInv
<1>2. /\ "open" \in PhaseNames /\ "rollback_completed" \in PhaseNames
      /\ "running" \in StatusNames /\ "recovery" \in StatusNames
  BY DEF PhaseNames, StatusNames
<1>3. CASE NoSave /\ Sound /\ run' = AtStep("mark", 0)
  <2>1. run' = [run EXCEPT !.at = "mark", !.n = 0]
    BY <1>3 DEF AtStep
  <2>2. run' \in Runs /\ RunInv' /\ run'.op = run.op /\ run'.at \notin {"delete", "purge"}
    BY <1>1, <2>1, WorldAt, StepNames, GoesTo
  <2>3. begged' \in 0 .. MaxPleas /\ spent' \in 0 .. MaxFaults
    BY <1>1, <1>3, Charges
  <2> QED
    BY <1>1, <1>3, <2>2, <2>3, QuietStep DEF NoNode, BackupTypeOK
<1>4. ASSUME NEW ok \in BOOLEAN, Saves("open", "recovery", ok), run' = FreeRoom
      PROVE  BackupInv'
  BY <1>1, <1>2, <1>4, Leaves, SetTypes, SaveStep
<1>5. ASSUME NEW ok \in BOOLEAN, Saves("rollback_completed", "running", ok), run' = FreeRoom
      PROVE  BackupInv'
  BY <1>1, <1>2, <1>5, Leaves, SetTypes, SaveStep
<1>6. ASSUME NEW ok \in BOOLEAN, Saves("rollback_completed", "running", ok),
             run' = Headed("restart", 1, "rollback_completed", "running")
      PROVE  BackupInv'
  <2>1. run' = [[run EXCEPT !.at = "restart", !.n = 1] EXCEPT !.phase = "rollback_completed", !.status = "running"]
    BY <1>6 DEF Headed, AtStep
  <2>2. run' \in Runs /\ RunInv' /\ run'.op = run.op /\ run'.at \notin {"delete", "purge"}
    BY <1>1, <1>2, <2>1, WorldAt, StepNames, HeadsTo
  <2> QED
    BY <1>1, <1>2, <1>6, <2>2, SetTypes, SaveStep
<1> QED
  BY <1>3, <1>4, <1>5, <1>6 DEF RolledBack

LEMMA ResumedKeeps ==
    ASSUME BackupInv, Resumed
    PROVE  BackupInv'
<1>1. run.at = "restart" /\ NoNode /\ Around /\ BackupTypeOK
  BY DEF Resumed, BackupInv
<1>2. backup' \in [status : {"none", "creating", "verified", "failed"}, parts : [Parts -> SaveKinds \cup {"unsure"}]]
  <2>1. backup' \in {backup, Dropped}
    BY DEF Resumed
  <2> QED
    BY <1>1, <2>1, SetTypes DEF Dropped
<1>3. CASE NoSave /\ (Sound \/ Fault) /\ run' = AtStep("mark", 0)
  <2>1. run' = [run EXCEPT !.at = "mark", !.n = 0]
    BY <1>3 DEF AtStep
  <2>2. run' \in Runs /\ RunInv' /\ run'.op = run.op /\ run'.at \notin {"delete", "purge"}
    BY <1>1, <2>1, WorldAt, StepNames, GoesTo
  <2>3. begged' \in 0 .. MaxPleas /\ spent' \in 0 .. MaxFaults
    BY <1>1, <1>3, Charges
  <2> QED
    BY <1>1, <1>2, <1>3, <2>2, <2>3, QuietStep DEF NoNode, BackupTypeOK
<1>4. CASE NoSave /\ Sound /\ run' = FreeRoom
  <2>1. begged' \in 0 .. MaxPleas /\ spent' \in 0 .. MaxFaults
    BY <1>1, <1>4, Charges
  <2> QED
    BY <1>1, <1>2, <1>4, <2>1, Leaves, QuietStep DEF NoNode, BackupTypeOK
<1>5. ASSUME NEW ok \in BOOLEAN, run' = FreeRoom,
             \/ Saves("recovered", "failed", ok)
             \/ Saves("recovered", "rolled_back", ok)
             \/ Saves("completed", "succeeded", ok)
      PROVE  BackupInv'
  <2>1. /\ "recovered" \in PhaseNames /\ "completed" \in PhaseNames
        /\ "failed" \in StatusNames /\ "rolled_back" \in StatusNames /\ "succeeded" \in StatusNames
    BY DEF PhaseNames, StatusNames
  <2>2. run' \in Runs /\ RunInv' /\ run'.op # "restore" /\ run'.at \notin {"delete", "purge"}
    BY <1>5, Leaves
  <2>3. CASE Saves("recovered", "failed", ok)
    BY <1>1, <1>2, <2>1, <2>2, <2>3, SaveStep
  <2>4. CASE Saves("recovered", "rolled_back", ok)
    BY <1>1, <1>2, <2>1, <2>2, <2>4, SaveStep
  <2>5. CASE Saves("completed", "succeeded", ok)
    BY <1>1, <1>2, <2>1, <2>2, <2>5, SaveStep
  <2> QED
    BY <1>5, <2>3, <2>4, <2>5
<1> QED
  BY <1>3, <1>4, <1>5 DEF Resumed

LEMMA MarkKeeps ==
    ASSUME BackupInv, Mark
    PROVE  BackupInv'
<1>1. run.at = "mark" /\ NoNode /\ Around /\ BackupTypeOK /\ UNCHANGED backup /\ run' = FreeRoom
  BY DEF Mark, BackupInv
<1>2. PICK phase \in PhaseNames : phase = run.phase
  BY <1>1 DEF BackupInv, RunInv
<1>3. PICK ok \in BOOLEAN : Saves(phase, "recovery", ok)
  BY <1>2 DEF Mark
<1>4. "recovery" \in StatusNames
  BY DEF StatusNames
<1>5. run' \in Runs /\ RunInv' /\ run'.op # "restore" /\ run'.at \notin {"delete", "purge"}
  BY <1>1, Leaves
<1> QED
  BY <1>1, <1>3, <1>4, <1>5, SetTypes, SaveStep

-----------------------------------------------------------------------------
(* An operation, a recovery or a deletion begins *)

\* The room is free, or stays as it is, and nothing is saved or deleted.
LEMMA RoomStep ==
    ASSUME BackupInv, UNCHANGED <<table, made, source>>, turn \in 0 .. LastTurn, turn' \in 0 .. LastTurn,
           node' \in [Parts -> Nodes],
           deferred' \subseteq [w : Parts, step : NodeSteps, op : Kinds, token : 1 .. LastTurn],
           run' \in Runs, RunInv', DeleteInv', OpenInv', outdated' \in BOOLEAN, outdated => outdated',
           pleas' \subseteq [op : Kinds, row : OpRows, boot : BOOLEAN], PleaInv',
           boot' \in {"off", "deletions", "operations"},
           backup' \in [status : {"none", "creating", "verified", "failed"},
                        parts : [Parts -> SaveKinds \cup {"unsure"}]],
           begged' \in 0 .. MaxPleas, spent' \in 0 .. MaxFaults
    PROVE  BackupInv'
<1>1. BackupTypeOK'
  BY DEF BackupInv, BackupTypeOK, Runs
<1>2. MadeInv'
  BY DEF BackupInv, MadeInv
<1>3. SourceKept'
  BY DEF BackupInv, SourceKept, Unfinished
<1> QED
  BY <1>1, <1>2, <1>3 DEF BackupInv

LEMMA PleaRow ==
    ASSUME BackupTypeOK, NEW k \in Kinds, Unfinished(k), NEW b \in BOOLEAN
    PROVE  [op |-> k, row |-> table[k], boot |-> b] \in [op : Kinds, row : OpRows, boot : BOOLEAN]
<1>1. table[k] \in OpRows
  <2>1. NoOp.status \notin {"running", "recovery"}
    BY DEF NoOp
  <2> QED
    BY <2>1 DEF BackupTypeOK, Unfinished
<1> QED
  BY <1>1

LEMMA PleaKeeps ==
    ASSUME BackupInv, NEW k \in Kinds, Plea(k)
    PROVE  BackupInv'
<1>1. /\ BackupTypeOK /\ run \in Runs
      /\ UNCHANGED <<node, deferred, spent, table, made, run, turn, boot, source, backup, outdated>>
  BY RunTyped DEF Plea, NoNode, BackupInv
<1>2. begged' \in 0 .. MaxPleas
  BY BackupAssumption DEF Plea, BackupInv, BackupTypeOK
<1>3. pleas' \subseteq [op : Kinds, row : OpRows, boot : BOOLEAN]
  <2>1. [op |-> k, row |-> table[k], boot |-> FALSE] \in [op : Kinds, row : OpRows, boot : BOOLEAN]
    BY <1>1, PleaRow DEF Plea
  <2>2. \A p \in pleas' : p \in pleas \/ p = [op |-> k, row |-> table[k], boot |-> FALSE]
    BY DEF Plea
  <2>3. pleas \subseteq [op : Kinds, row : OpRows, boot : BOOLEAN]
    BY <1>1 DEF BackupTypeOK
  <2> QED
    BY <2>1, <2>2, <2>3
<1>4. PleaInv'
  BY DEF Plea, PleaInv, BackupInv, Unfinished
<1>5. RunInv' /\ DeleteInv' /\ OpenInv'
  BY <1>1 DEF BackupInv, RunInv, DeleteInv, OpenInv, Unfinished
<1> QED
  BY <1>1, <1>2, <1>3, <1>4, <1>5, RoomStep DEF BackupTypeOK

LEMMA RecoverOperationsKeeps ==
    ASSUME BackupInv, RecoverOperations
    PROVE  BackupInv'
<1>1. /\ BackupTypeOK /\ run \in Runs /\ boot' = "off"
      /\ UNCHANGED <<node, deferred, spent, begged, table, made, run, turn, source, backup, outdated>>
  BY RunTyped DEF RecoverOperations, NoNode, Sound, BackupInv
<1>2. pleas' \subseteq [op : Kinds, row : OpRows, boot : BOOLEAN]
  <2>1. \A k \in {l \in Kinds : Unfinished(l)} :
           [op |-> k, row |-> table[k], boot |-> TRUE] \in [op : Kinds, row : OpRows, boot : BOOLEAN]
    BY <1>1, PleaRow
  <2>2. \A p \in pleas' : p \in pleas \/ \E k \in {l \in Kinds : Unfinished(l)} :
                                             p = [op |-> k, row |-> table[k], boot |-> TRUE]
    BY DEF RecoverOperations
  <2>3. pleas \subseteq [op : Kinds, row : OpRows, boot : BOOLEAN]
    BY <1>1 DEF BackupTypeOK
  <2> QED
    BY <2>1, <2>2, <2>3
<1>3. PleaInv'
  BY DEF RecoverOperations, PleaInv, BackupInv, Unfinished
<1>4. RunInv' /\ DeleteInv' /\ OpenInv'
  BY <1>1 DEF BackupInv, RunInv, DeleteInv, OpenInv, Unfinished
<1> QED
  BY <1>1, <1>2, <1>3, <1>4, RoomStep DEF BackupTypeOK

LEMMA HaltKeeps ==
    ASSUME BackupInv, Halt
    PROVE  BackupInv'
<1>1. /\ BackupTypeOK /\ run' = FreeRoom /\ pleas' = {} /\ boot' = "deletions"
      /\ UNCHANGED <<node, deferred, table, made, turn, source, backup, outdated>>
  BY DEF Halt, NoNode, BackupInv
<1>2. begged' \in 0 .. MaxPleas /\ spent' \in 0 .. MaxFaults
  BY <1>1, Charges DEF Halt
<1>3. run' \in Runs /\ RunInv' /\ run'.op # "restore" /\ run'.at = "idle"
  BY <1>1, Leaves
<1>4. PleaInv' /\ DeleteInv' /\ OpenInv'
  BY <1>1, <1>3 DEF PleaInv, DeleteInv, OpenInv
<1> QED
  BY <1>1, <1>2, <1>3, <1>4, RoomStep DEF BackupTypeOK

LEMMA LateCallKeeps ==
    ASSUME BackupInv, NEW c \in deferred, LateCall(c)
    PROVE  BackupInv'
<1>1. /\ BackupTypeOK /\ run \in Runs /\ deferred' = deferred \ {c}
      /\ UNCHANGED <<spent, begged, table, made, run, turn, pleas, boot, source, backup, outdated>>
  BY RunTyped DEF LateCall, Sound, BackupInv
<1>2. c.w \in Parts /\ c.step \in NodeSteps /\ c.op \in Kinds /\ node[c.w] \in Nodes
  BY <1>1 DEF BackupTypeOK
<1>3. node' \in [Parts -> Nodes]
  <2> DEFINE E == Effect(c.step, c.op, node[c.w])
  <2>1. E.mid \cup E.end \cup {node[c.w]} \subseteq Nodes
    BY <1>2, EffectTypes
  <2>2. PICK s \in E.mid \cup E.end \cup {node[c.w]} :
          node' = [node EXCEPT ![c.w] = [s EXCEPT !.due = IF c.step = "stop" THEN node[c.w].due ELSE @]]
    BY DEF LateCall
  <2> HIDE DEF E
  <2>3. PICK d \in {"no"} \cup Kinds : d = IF c.step = "stop" THEN node[c.w].due ELSE s.due
    BY <1>2, <2>1 DEF Nodes
  <2>4. [s EXCEPT !.due = d] \in Nodes
    BY <2>1 DEF Nodes
  <2>5. node' = [node EXCEPT ![c.w] = [s EXCEPT !.due = d]]
    BY <2>1, <2>2, <2>3 DEF Nodes
  <2> QED
    BY <1>1, <1>2, <2>4, <2>5 DEF BackupTypeOK
<1>4. RunInv' /\ DeleteInv' /\ OpenInv' /\ PleaInv'
  BY <1>1 DEF BackupInv, RunInv, DeleteInv, OpenInv, PleaInv, Unfinished
<1> QED
  BY <1>1, <1>3, <1>4, RoomStep DEF BackupTypeOK

LEMMA RecoverFromKeeps ==
    ASSUME BackupInv, NEW p \in pleas, RecoverFrom(p)
    PROVE  BackupInv'
<1>1. /\ BackupTypeOK /\ pleas' = pleas \ {p} /\ turn < LastTurn /\ turn' = turn + 1
      /\ outdated' = (outdated \/ table[p.op] # p.row)
      /\ UNCHANGED <<node, deferred, table, made, boot, source, backup>>
  BY DEF RecoverFrom, NoNode, BackupInv
<1>2. p.op \in Kinds /\ p.row \in OpRows /\ p.row.status \in {"running", "recovery"}
  BY <1>1 DEF BackupTypeOK, BackupInv, PleaInv
<1>3. begged' \in 0 .. MaxPleas /\ spent' \in 0 .. MaxFaults
  BY <1>1, Charges DEF RecoverFrom
<1>4. turn \in 0 .. LastTurn /\ turn' \in 1 .. LastTurn /\ turn' \in 0 .. LastTurn
  BY <1>1, BackupAssumption DEF BackupTypeOK
<1>5. PICK at \in {"mark", "fail", "restart", "complete", "stop"}, n \in 0 .. LastPart + 1, bad \in BOOLEAN :
         /\ at \in {"restart", "complete"} => n >= 1
         /\ at = "stop" => n <= LastPart
         /\ run' = [at |-> at, op |-> p.op, way |-> "recover", n |-> n, phase |-> p.row.phase,
                    status |-> p.row.status, was |-> p.row.was, bad |-> bad]
  <2>1. /\ 0 \in 0 .. LastPart + 1 /\ 1 \in 0 .. LastPart + 1 /\ LastPart \in 0 .. LastPart + 1
        /\ 1 >= 1 /\ LastPart <= LastPart
    BY PartFacts
  <2> DEFINE Go(at, n, bad) == run' = [at |-> at, op |-> p.op, way |-> "recover", n |-> n, phase |-> p.row.phase,
                                       status |-> p.row.status, was |-> p.row.was, bad |-> bad]
  <2>2. \/ Go("mark", 0, FALSE) \/ Go("fail", 0, FALSE) \/ Go("restart", 1, FALSE) \/ Go("restart", 1, TRUE)
        \/ Go("complete", 1, FALSE) \/ Go("stop", LastPart, FALSE)
    BY DEF RecoverFrom
  <2> QED
    BY <2>1, <2>2
<1>6. p.row.phase \in PhaseNames /\ p.row.status \in StatusNames /\ p.row.was \in SUBSET Parts
  BY <1>2 DEF OpRows
<1>7. run' \in Runs /\ run'.at = at /\ run'.op = p.op /\ run'.n = n /\ run'.phase \in PhaseNames
      /\ run'.status \in StatusNames
  <2>1. at \in RunSteps
    BY StepNames
  <2> QED
    BY <1>2, <1>5, <1>6, <2>1 DEF Runs
<1>8. RunInv' /\ DeleteInv'
  BY <1>2, <1>4, <1>5, <1>7 DEF RunInv, DeleteInv
<1>9. OpenInv'
  BY <1>1, <1>2, <1>7 DEF OpenInv, Unfinished
<1>10. PleaInv' /\ pleas' \subseteq [op : Kinds, row : OpRows, boot : BOOLEAN]
  BY <1>1 DEF BackupInv, PleaInv, BackupTypeOK
<1>11. outdated' \in BOOLEAN /\ (outdated => outdated')
  BY <1>1 DEF BackupTypeOK
<1> QED
  BY <1>1, <1>3, <1>4, <1>7, <1>8, <1>9, <1>10, <1>11, RoomStep DEF BackupTypeOK

\* A new row.
LEMMA TakeStep ==
    ASSUME BackupInv, NEW k \in Kinds, NEW phase \in PhaseNames, Takes(k, phase), Sound \/ Fault,
           k = "restore" => source = [row |-> TRUE, files |-> "here"],
           run' \in Runs, turn' \in 1 .. LastTurn => RunInv', run'.at \notin {"delete", "purge"},
           run'.op = k \/ (k = "create" /\ run' = run),
           backup' \in [status : {"none", "creating", "verified", "failed"},
                        parts : [Parts -> SaveKinds \cup {"unsure"}]]
    PROVE  BackupInv'
<1>1. /\ BackupTypeOK /\ table[k] = NoOp /\ turn < LastTurn /\ turn' = turn + 1 /\ made' = Append(made, k)
      /\ UNCHANGED <<node, deferred, pleas, boot, source, outdated>>
  BY DEF Takes, NoNode, BackupInv
<1>2. begged' \in 0 .. MaxPleas /\ spent' \in 0 .. MaxFaults
  BY <1>1, Charges
<1>3. turn' \in 1 .. LastTurn /\ turn' \in 0 .. LastTurn
  BY <1>1, BackupAssumption DEF BackupTypeOK
<1>4. PICK W \in SUBSET Parts : W = {w \in Parts : Running(w)}
  OBVIOUS
<1> DEFINE r == [phase |-> phase, status |-> "running", was |-> W]
<1>5. r \in OpRows /\ r.status = "running"
  <2>1. "running" \in StatusNames
    BY DEF StatusNames
  <2> QED
    BY <2>1 DEF OpRows
<1>6. table' = [table EXCEPT ![k] = r]
  BY <1>4 DEF Takes
<1> HIDE DEF r
<1>7. /\ table' \in [Kinds -> OpRows \cup {NoOp}] /\ table'[k] # NoOp /\ table'[k].status = "running"
      /\ \A l \in Kinds : l # k => table'[l] = table[l]
  BY <1>1, <1>5, <1>6, RowIsNew DEF BackupTypeOK
<1>8. MadeInv'
  <2>1. /\ made \in {<<>>} \cup {<<l>> : l \in Kinds} \cup {<<"create", "restore">>, <<"restore", "create">>}
        /\ \A i \in DOMAIN made : made[i] # k
    BY <1>1 DEF BackupInv, MadeInv
  <2>2. CASE made = <<>>
    <3>1. made' = <<k>>
      BY <1>1, <2>2
    <3> QED
      BY <1>7, <3>1 DEF MadeInv
  <2>3. ASSUME NEW l \in Kinds, made = <<l>> PROVE MadeInv'
    <3>1. made' = <<l, k>> /\ l # k
      <4>1. Append(<<l>>, k) = <<l, k>>
        <5>1. <<l>> \in Seq(Kinds) /\ Len(<<l>>) = 1 /\ <<l>>[1] = l
          OBVIOUS
        <5>2. Append(<<l>>, k) \in Seq(Kinds) /\ Len(Append(<<l>>, k)) = 2
          BY <5>1
        <5>3. Append(<<l>>, k)[1] = l /\ Append(<<l>>, k)[2] = k
          BY <5>1
        <5>4. <<l, k>> \in Seq(Kinds) /\ Len(<<l, k>>) = 2 /\ <<l, k>>[1] = l /\ <<l, k>>[2] = k
          OBVIOUS
        <5>5. \A i \in 1 .. 2 : Append(<<l>>, k)[i] = <<l, k>>[i]
          BY <5>3, <5>4
        <5> QED
          BY <5>2, <5>4, <5>5, SeqEqual
      <4>2. 1 \in DOMAIN made /\ made[1] = l
        BY <2>3
      <4> QED
        BY <1>1, <2>1, <2>3, <4>1, <4>2
    <3>2. made' \in {<<"create", "restore">>, <<"restore", "create">>}
      BY <3>1 DEF Kinds
    <3>3. \A m \in Kinds : table'[m] # NoOp
      <4>1. table[l] # NoOp
        BY <2>3 DEF BackupInv, MadeInv
      <4> QED
        BY <1>7, <3>1, <4>1 DEF Kinds
    <3> QED
      BY <3>2, <3>3 DEF MadeInv
  <2>4. CASE made \in {<<"create", "restore">>, <<"restore", "create">>}
    BY <2>1, <2>4 DEF Kinds
  <2> QED
    BY <2>1, <2>2, <2>3, <2>4
<1>9. BackupTypeOK'
  <2>1. made' \in {<<>>} \cup {<<l>> : l \in Kinds} \cup {<<l, m>> : l, m \in Kinds}
    BY <1>8 DEF MadeInv, Kinds
  <2> QED
    BY <1>1, <1>2, <1>3, <1>7, <2>1 DEF BackupTypeOK, Runs
<1>10. OpenInv'
  <2>1. CASE run'.op = k
    BY <1>7, <2>1 DEF OpenInv, Unfinished
  <2>2. CASE k = "create" /\ run' = run
    BY <1>1, <1>7, <2>2 DEF BackupInv, OpenInv, Unfinished, Kinds
  <2> QED
    BY <2>1, <2>2
<1>11. PleaInv' /\ DeleteInv'
  BY <1>1 DEF BackupInv, PleaInv, DeleteInv
<1>12. SourceKept'
  <2>1. CASE k = "restore"
    BY <1>1, <2>1 DEF BackupInv, SourceKept
  <2>2. CASE k # "restore"
    <3>1. table'["restore"] = table["restore"]
      BY <1>7, <2>2 DEF Kinds
    <3> QED
      BY <1>1, <3>1 DEF BackupInv, SourceKept, Unfinished
  <2> QED
    BY <2>1, <2>2
<1> QED
  BY <1>3, <1>8, <1>9, <1>10, <1>11, <1>12 DEF BackupInv

LEMMA OpenedRun ==
    ASSUME NEW k \in Kinds, NEW at \in {"stop", "restart", "notify"}, NEW n \in 0 .. LastPart + 1,
           NEW phase \in PhaseNames, Opens(k, at, n, phase),
           at = "stop" => n <= LastPart, at = "restart" => n >= 1
    PROVE  /\ run' \in Runs /\ run'.op = k /\ run'.at \notin {"delete", "purge"}
           /\ turn' \in 1 .. LastTurn => RunInv'
<1>1. PICK W \in SUBSET Parts : W = {w \in Parts : Running(w)}
  OBVIOUS
<1>2. run' = [FreeRoom EXCEPT !.at = at, !.op = k, !.n = n, !.phase = phase, !.status = "running", !.was = W]
  BY <1>1 DEF Opens
<1>3. at \in RunSteps /\ "running" \in StatusNames /\ FreeRoom \in Runs
  BY StepNames, FreeFields DEF StatusNames
<1>4. /\ run' \in Runs /\ run'.op = k /\ run'.at = at /\ run'.n = n /\ run'.phase = phase
      /\ run'.status = "running"
  BY <1>2, <1>3 DEF Runs
<1> QED
  BY <1>3, <1>4 DEF RunInv

LEMMA RestoreSetKeeps ==
    ASSUME BackupInv, RestoreSet
    PROVE  BackupInv'
<1>1. /\ source = [row |-> TRUE, files |-> "here"] /\ Takes("restore", "open") /\ UNCHANGED backup
      /\ Sound \/ Fault
  BY DEF RestoreSet
<1>2. "restore" \in Kinds /\ "open" \in PhaseNames /\ BackupTypeOK
  BY DEF Kinds, PhaseNames, BackupInv
<1>3. /\ run' \in Runs /\ run'.op = "restore" /\ run'.at \notin {"delete", "purge"}
      /\ turn' \in 1 .. LastTurn => RunInv'
  <2>1. CASE Opens("restore", "stop", LastPart, "open")
    BY <1>2, <2>1, WorldAt, OpenedRun
  <2>2. CASE Opens("restore", "restart", 1, "open")
    BY <1>2, <2>2, WorldAt, OpenedRun
  <2> QED
    BY <2>1, <2>2 DEF RestoreSet
<1>4. backup' \in [status : {"none", "creating", "verified", "failed"}, parts : [Parts -> SaveKinds \cup {"unsure"}]]
  BY <1>1, <1>2 DEF BackupTypeOK
<1> QED
  BY <1>1, <1>2, <1>3, <1>4, TakeStep

LEMMA CreateKeeps ==
    ASSUME BackupInv, Create
    PROVE  BackupInv'
<1>1. "create" \in Kinds /\ "open" \in PhaseNames /\ "notifying" \in PhaseNames /\ BackupTypeOK /\ run \in Runs
  BY RunTyped DEF Kinds, PhaseNames, BackupInv
<1>2. backup' \in [status : {"none", "creating", "verified", "failed"}, parts : [Parts -> SaveKinds \cup {"unsure"}]]
  BY <1>1, SetTypes DEF Create
<1>3. CASE Sound /\ Takes("create", "open") /\ Opens("create", "stop", LastPart, "open")
  <2>1. /\ run' \in Runs /\ run'.op = "create" /\ run'.at \notin {"delete", "purge"}
        /\ turn' \in 1 .. LastTurn => RunInv'
    BY <1>1, <1>3, WorldAt, OpenedRun
  <2> QED
    BY <1>1, <1>2, <1>3, <2>1, TakeStep
<1>4. CASE Sound /\ Takes("create", "notifying") /\ Opens("create", "notify", 0, "notifying")
  <2>1. /\ run' \in Runs /\ run'.op = "create" /\ run'.at \notin {"delete", "purge"}
        /\ turn' \in 1 .. LastTurn => RunInv'
    BY <1>1, <1>4, WorldAt, OpenedRun
  <2> QED
    BY <1>1, <1>2, <1>4, <2>1, TakeStep
<1>5. CASE Fault /\ Takes("create", "open") /\ UNCHANGED run
  <2>1. run.at = "idle"
    BY <1>5 DEF Takes
  <2>2. RunInv'
    BY <1>5, <2>1 DEF RunInv
  <2> QED
    BY <1>1, <1>2, <1>5, <2>1, <2>2, TakeStep
<1> QED
  BY <1>3, <1>4, <1>5 DEF Create

-----------------------------------------------------------------------------
(* Deletions *)

LEMMA SourceStep ==
    ASSUME BackupInv, UNCHANGED <<table, made, pleas, backup, outdated>>, NoNode, Sound \/ Fault,
           source' \in [row : BOOLEAN, files : {"here", "aside", "gone"}],
           boot' \in {"off", "deletions", "operations"}, turn' \in 0 .. LastTurn,
           run' \in Runs, RunInv', run'.op = "restore" => run.op = "restore",
           DeleteInv', SourceKept'
    PROVE  BackupInv'
<1>1. BackupTypeOK
  BY DEF BackupInv
<1>2. begged' \in 0 .. MaxPleas /\ spent' \in 0 .. MaxFaults
  BY <1>1, Charges
<1>3. BackupTypeOK'
  BY <1>1, <1>2 DEF BackupTypeOK, Runs, NoNode
<1>4. MadeInv' /\ PleaInv' /\ OpenInv'
  BY DEF BackupInv, MadeInv, PleaInv, OpenInv, Unfinished
<1> QED
  BY <1>3, <1>4 DEF BackupInv

LEMMA SourceFacts ==
    ASSUME BackupInv
    PROVE  /\ source \in [row : BOOLEAN, files : {"here", "aside", "gone"}] /\ run \in Runs
           /\ turn \in 0 .. LastTurn /\ boot \in {"off", "deletions", "operations"}
           /\ \A f \in {"here", "aside", "gone"} :
                /\ [source EXCEPT !.files = f] \in [row : BOOLEAN, files : {"here", "aside", "gone"}]
                /\ [source EXCEPT !.files = f].files = f /\ [source EXCEPT !.files = f].row = source.row
<1>1. /\ source \in [row : BOOLEAN, files : {"here", "aside", "gone"}]
      /\ turn \in 0 .. LastTurn /\ boot \in {"off", "deletions", "operations"}
  BY DEF BackupInv, BackupTypeOK
<1>2. run \in Runs
  BY RunTyped DEF BackupInv
<1> QED
  BY <1>1, <1>2

\* A restore that is open needs the set: nothing of it is set aside.
LEMMA RecoverDeletionsKeeps ==
    ASSUME BackupInv, RecoverDeletions
    PROVE  BackupInv'
<1>1. UNCHANGED <<table, made, run, turn, pleas, backup, outdated>> /\ NoNode /\ (Sound \/ Fault)
      /\ boot' \in {"off", "deletions", "operations"}
  BY DEF RecoverDeletions
<1>2. RunInv'
  BY <1>1 DEF BackupInv, RunInv
<1>3. CASE UNCHANGED source
  <2>1. DeleteInv' /\ SourceKept'
    BY <1>1, <1>3 DEF BackupInv, DeleteInv, SourceKept, Unfinished
  <2> QED
    BY <1>1, <1>2, <1>3, <2>1, SourceFacts, SourceStep
<1>4. CASE source.row /\ source.files = "aside" /\ run.at = "idle" /\ source' = [source EXCEPT !.files = "here"]
  <2>1. source' \in [row : BOOLEAN, files : {"here", "aside", "gone"}] /\ source'.files = "here"
    BY <1>4, SourceFacts
  <2>2. DeleteInv'
    BY <1>1, <1>4 DEF DeleteInv
  <2>3. SourceKept'
    <3>1. ~(Unfinished("restore") /\ ~outdated)
      BY <1>4 DEF BackupInv, SourceKept
    <3> QED
      BY <1>1, <2>1, <3>1 DEF SourceKept, Unfinished
  <2> QED
    BY <1>1, <1>2, <2>1, <2>2, <2>3, SourceFacts, SourceStep
<1>5. CASE ~source.row /\ source.files = "aside" /\ source' = [source EXCEPT !.files = "gone"]
  <2>1. source' \in [row : BOOLEAN, files : {"here", "aside", "gone"}] /\ source'.row = source.row
    BY <1>5, SourceFacts
  <2>2. DeleteInv'
    <3>1. run.at # "delete"
      BY <1>5 DEF BackupInv, DeleteInv
    <3> QED
      BY <1>1, <1>5, <2>1, <3>1 DEF DeleteInv
  <2>3. SourceKept'
    <3>1. ~(Unfinished("restore") /\ ~outdated)
      BY <1>5 DEF BackupInv, SourceKept
    <3> QED
      BY <1>1, <1>5, <2>1, <3>1 DEF SourceKept, Unfinished
  <2> QED
    BY <1>1, <1>2, <2>1, <2>2, <2>3, SourceFacts, SourceStep
<1> QED
  BY <1>3, <1>4, <1>5 DEF RecoverDeletions

LEMMA DeleteKeeps ==
    ASSUME BackupInv, Delete
    PROVE  BackupInv'
<1>1. /\ UNCHANGED <<table, made, pleas, boot, backup, outdated>> /\ NoNode /\ Sound
      /\ turn < LastTurn /\ turn' = turn + 1 /\ ~Unfinished("restore")
      /\ source = [row |-> TRUE, files |-> "here"] /\ source' = [source EXCEPT !.files = "aside"]
      /\ run' = [FreeRoom EXCEPT !.at = "delete"]
  BY DEF Delete, Deletable, Kinds
<1>2. turn' \in 0 .. LastTurn
  BY <1>1, SourceFacts, BackupAssumption
<1>3. source' = [row |-> TRUE, files |-> "aside"]
  BY <1>1
<1>4. run' \in Runs /\ run'.at = "delete" /\ run'.op = "none"
  BY <1>1, FreeFields, StepNames DEF Runs
<1>5. RunInv' /\ DeleteInv'
  BY <1>3, <1>4 DEF RunInv, DeleteInv
<1>6. SourceKept'
  BY <1>1, <1>3 DEF SourceKept, Unfinished
<1> QED
  BY <1>1, <1>2, <1>3, <1>4, <1>5, <1>6, SourceFacts, SourceStep

LEMMA DeleteRowKeeps ==
    ASSUME BackupInv, DeleteRow
    PROVE  BackupInv'
<1>1. UNCHANGED <<table, made, turn, pleas, boot, backup, outdated>> /\ NoNode /\ (Sound \/ Fault)
      /\ run.at = "delete"
  BY DEF DeleteRow
<1>2. source = [row |-> TRUE, files |-> "aside"] /\ ~(Unfinished("restore") /\ ~outdated)
  BY <1>1 DEF BackupInv, DeleteInv, SourceKept
<1>3. CASE source' = [source EXCEPT !.row = FALSE] /\ run' = AtStep("purge", 0)
  <2>1. run' = [run EXCEPT !.at = "purge", !.n = 0]
    BY <1>3 DEF AtStep
  <2>2. run' \in Runs /\ run'.at = "purge" /\ run'.op = run.op
    BY <2>1, WorldAt, StepNames, StepFields
  <2>3. source' = [row |-> FALSE, files |-> "aside"]
    BY <1>2, <1>3
  <2>4. RunInv' /\ DeleteInv'
    BY <2>2, <2>3 DEF RunInv, DeleteInv
  <2>5. SourceKept'
    BY <1>1, <1>2, <2>3 DEF SourceKept, Unfinished
  <2> QED
    BY <1>1, <2>2, <2>3, <2>4, <2>5, SourceFacts, SourceStep
<1>4. CASE run' = FreeRoom /\ source' \in {source, [source EXCEPT !.files = "here"]}
  <2>1. source' \in {[row |-> TRUE, files |-> "aside"], [row |-> TRUE, files |-> "here"]}
    BY <1>2, <1>4
  <2>2. run' \in Runs /\ RunInv' /\ run'.op # "restore" /\ run'.at = "idle"
    BY <1>4, Leaves
  <2>t. source' \in [row : BOOLEAN, files : {"here", "aside", "gone"}]
    <3>1. \A f \in {"here", "aside"} : [row |-> TRUE, files |-> f] \in [row : BOOLEAN, files : {"here", "aside", "gone"}]
      OBVIOUS
    <3> QED
      BY <2>1, <3>1
  <2>3. DeleteInv'
    BY <2>2 DEF DeleteInv
  <2>4. SourceKept'
    BY <1>1, <1>2, <2>1 DEF SourceKept, Unfinished
  <2> QED
    BY <1>1, <2>t, <2>2, <2>3, <2>4, SourceFacts, SourceStep
<1> QED
  BY <1>3, <1>4 DEF DeleteRow

LEMMA PurgeKeeps ==
    ASSUME BackupInv, Purge
    PROVE  BackupInv'
<1>1. UNCHANGED <<table, made, turn, pleas, boot, backup, outdated>> /\ NoNode /\ (Sound \/ Fault)
      /\ run.at = "purge" /\ run' = FreeRoom /\ source' \in {source, [source EXCEPT !.files = "gone"]}
  BY DEF Purge
<1>2. ~source.row
  BY <1>1 DEF BackupInv, DeleteInv
<1>3. source' \in [row : BOOLEAN, files : {"here", "aside", "gone"}] /\ ~source'.row
  BY <1>1, <1>2, SourceFacts
<1>4. run' \in Runs /\ RunInv' /\ run'.op # "restore" /\ run'.at = "idle"
  BY <1>1, Leaves
<1>5. DeleteInv'
  BY <1>4 DEF DeleteInv
<1>6. SourceKept'
  <2>1. ~(Unfinished("restore") /\ ~outdated)
    BY <1>2 DEF BackupInv, SourceKept
  <2> QED
    BY <1>1, <1>3, <2>1 DEF SourceKept, Unfinished
<1> QED
  BY <1>1, <1>3, <1>4, <1>5, <1>6, SourceFacts, SourceStep

-----------------------------------------------------------------------------
(* The theorems about backups *)

LEMMA BackupStart == BackupInit => BackupInv
<1> SUFFICES ASSUME BackupInit PROVE BackupInv
  OBVIOUS
<1>1. 0 \in 0 .. LastTurn /\ 0 \in 0 .. MaxPleas /\ 0 \in 0 .. MaxFaults
  BY BackupAssumption
<1>2. run \in Runs /\ run.at = "idle" /\ run.op = "none"
  BY FreeFields DEF BackupInit
<1>3. node \in [Parts -> Nodes]
  <2>1. PICK up \in [Parts -> {"no", "before"}] :
         node = [w \in Parts |-> [up |-> up[w], due |-> "no", desc |-> "none", rcpt |-> "none",
                                  save |-> "old", kept |-> "none", marked |-> FALSE,
                                  conf |-> "old", spare |-> FALSE]]
    BY DEF BackupInit
  <2>2. \A u \in {"no", "before"} : [up |-> u, due |-> "no", desc |-> "none", rcpt |-> "none",
                                     save |-> "old", kept |-> "none", marked |-> FALSE,
                                     conf |-> "old", spare |-> FALSE] \in Nodes
    BY DEF Nodes, SaveKinds
  <2> QED
    BY <2>1, <2>2
<1>4. backup \in [status : {"none", "creating", "verified", "failed"}, parts : [Parts -> SaveKinds \cup {"unsure"}]]
  BY DEF SaveKinds, BackupInit
<1>5. BackupTypeOK
  <2>1. table \in [Kinds -> OpRows \cup {NoOp}]
    BY DEF BackupInit
  <2>2. source \in [row : BOOLEAN, files : {"here", "aside", "gone"}]
    BY DEF BackupInit
  <2>3. /\ deferred = {} /\ made = <<>> /\ turn = 0 /\ pleas = {} /\ boot = "off" /\ outdated = FALSE
        /\ begged = 0 /\ spent = 0
    BY DEF BackupInit
  <2>4. made \in {<<>>} \cup {<<k>> : k \in Kinds} \cup {<<k, l>> : k, l \in Kinds}
    <3>1. \A A, B : made \in {made} \cup A \cup B
      OBVIOUS
    <3>2. made = <<>>
      BY <2>3
    <3> QED
      BY <3>1, <3>2
  <2>5. /\ deferred \subseteq [w : Parts, step : NodeSteps, op : Kinds, token : 1 .. LastTurn]
        /\ pleas \subseteq [op : Kinds, row : OpRows, boot : BOOLEAN]
    BY <2>3, Zenon
  <2>6. /\ turn \in 0 .. LastTurn /\ begged \in 0 .. MaxPleas /\ spent \in 0 .. MaxFaults
        /\ boot \in {"off", "deletions", "operations"} /\ outdated \in BOOLEAN
    BY <1>1, <2>3
  <2> QED
    BY <1>2, <1>3, <1>4, <2>1, <2>2, <2>4, <2>5, <2>6 DEF BackupTypeOK, Runs
<1>6. ~Unfinished("restore")
  <2>1. table["restore"] = NoOp
    BY DEF Kinds, BackupInit
  <2> QED
    BY <2>1 DEF Unfinished, NoOp
<1>7. MadeInv
  BY DEF MadeInv, BackupInit
<1> QED
  BY <1>2, <1>5, <1>6, <1>7 DEF BackupInit, BackupInv, RunInv, PleaInv, OpenInv, DeleteInv, SourceKept

LEMMA BackupStep == BackupInv /\ [BackupNext]_backupVars => BackupInv'
<1> SUFFICES ASSUME BackupInv, [BackupNext]_backupVars PROVE BackupInv'
  OBVIOUS
<1>1. CASE UNCHANGED backupVars
  <2>1. UNCHANGED <<node, deferred, table, made, run, turn, pleas, boot, source, backup, outdated, begged, spent>>
    BY <1>1 DEF backupVars
  <2>2. RunInv' /\ DeleteInv' /\ OpenInv' /\ PleaInv'
    BY <2>1 DEF BackupInv, RunInv, DeleteInv, OpenInv, PleaInv, Unfinished
  <2> QED
    BY <2>1, <2>2, SourceFacts, RoomStep DEF BackupInv, BackupTypeOK
<1>2. CASE RestoreSet \/ Create \/ Notify \/ StopWorld \/ AllQuiet
  BY <1>2, RestoreSetKeeps, CreateKeeps, NotifyKeeps, StopWorldKeeps, AllQuietKeeps
<1>3. CASE StagePart \/ Finalize \/ FailCreate
  BY <1>3, StagePartKeeps, FinalizeKeeps, FailCreateKeeps
<1>4. CASE Transfer \/ SavePrepared \/ PublishPart \/ SavePublished \/ CompletePart \/ Completed
  BY <1>4, PartsKeep, SavePreparedKeeps, SavePublishedKeeps, CompletedKeeps
<1>5. CASE RollbackPart \/ RolledBack \/ RestartWorld \/ Resumed \/ Mark
  BY <1>5, RollbackPartKeeps, RolledBackKeeps, PartsKeep, ResumedKeeps, MarkKeeps
<1>6. CASE \E k \in Kinds : Plea(k)
  BY <1>6, PleaKeeps
<1>7. CASE \E p \in pleas : RecoverFrom(p)
  BY <1>7, RecoverFromKeeps
<1>8. CASE RecoverDeletions \/ RecoverOperations \/ Halt
  BY <1>8, RecoverDeletionsKeeps, RecoverOperationsKeeps, HaltKeeps
<1>9. CASE Delete \/ DeleteRow \/ Purge
  BY <1>9, DeleteKeeps, DeleteRowKeeps, PurgeKeeps
<1>10. CASE \E c \in deferred : LateCall(c)
  BY <1>10, LateCallKeeps
<1> QED
  BY <1>1, <1>2, <1>3, <1>4, <1>5, <1>6, <1>7, <1>8, <1>9, <1>10 DEF BackupNext

LEMMA BackupInvHolds == BackupSpec => []BackupInv
  BY BackupStart, BackupStep, PTL DEF BackupSpec

\* The machines, the rows, the run and the recoveries keep their types.
THEOREM BackupTypesHold == BackupSpec => []BackupTypeOK
<1>1. BackupInv => BackupTypeOK
  BY DEF BackupInv
<1> QED
  BY <1>1, BackupInvHolds, PTL

\* The set an open restore needs is not deleted, by Delete or by the recovery
\* of a deletion that died, and a set that has a row is never lost.
THEOREM SourceIsKept == BackupSpec => []SourceKept
<1>1. BackupInv => SourceKept
  BY DEF BackupInv
<1> QED
  BY <1>1, BackupInvHolds, PTL

-----------------------------------------------------------------------------
(* What the saves are *)

Row == table["restore"]

\* The steps of a restore that put a world forward, and the rows that have no way back.
Ways == {"stop", "quiet", "transfer", "publish"}
Forward == {"published", "resuming", "completed"}
Returned == {"rollback_completed", "recovered"}

Sending == run.op = "restore" /\ run.way = "run" /\ run.at \in Ways
Pushes(c) == c.step \in {"transfer", "publish"}

\* What a receipt says of the world beside it.
Shape(s) ==
    /\ s.rcpt = "none" => s.save = "old" /\ s.kept = "none" /\ ~s.marked /\ s.conf # "new"
    /\ s.rcpt \in {"publishing", "published"} =>
         \/ s.kept = "old" /\ s.save \in IF s.marked THEN {"new", "torn"} ELSE {"none", "torn"}
         \/ s.kept = "none" /\ s.save = "old" /\ ~s.marked
    /\ s.rcpt = "published" /\ s.marked => s.conf = "new"
    /\ s.rcpt \in {"completing", "completed"} => s.save \in {"new", "torn"} /\ s.conf = "new"

\* A world that is published, or more.
Renewed(s) ==
    /\ s.save = "new" /\ s.conf = "new"
    /\ s.rcpt \in {"completing", "completed"} \/ (s.rcpt = "published" /\ s.marked)

\* Which operation is at which step, and which phase it has reached there.
StepInv ==
    /\ run.at \in {"idle", "delete", "purge"} => run.op = "none"
    /\ run.at \in {"complete", "rollback"} => run.op = "restore"
    /\ run.at \in {"stage", "fail", "notify"} => run.op = "create"
    /\ run.at \in {"transfer", "publish", "stage", "notify"} => run.way = "run"
    /\ run.at \in Ways /\ run.way = "recover" => run.op = "restore"
    /\ run.at = "complete" => run.phase \in Forward
    /\ run.at \in Ways \cup {"rollback"} => run.phase \notin Forward \cup Returned
    /\ run.op = "restore" /\ run.way = "run" /\ run.at \in Ways => run.phase = "open"
    /\ run.at = "complete" /\ run.way = "run" => run.status = "running"
    /\ run.op = "restore" /\ run.at = "restart" =>
         \/ run.phase \in Forward \cup {"rollback_completed"}
         \/ run.way = "run" /\ run.phase = "open"

\* A call that is still to be executed, and a publication among them.
DelayInv ==
    /\ \A c \in deferred : c.op = "create" => c.step \in {"stop", "restart"}
    /\ \A c, d \in deferred : Pushes(c) /\ Pushes(d) => c = d
    /\ \A c \in deferred : c.step = "publish" => node[c.w].rcpt = "none"

\* Before the restore and on its way forward.
SendInv ==
    /\ Row = NoOp \/ Sending => \A c \in deferred : c.op = "restore" => c.step = "stop"
    /\ Row = NoOp \/ (Sending /\ run.at \in {"stop", "quiet"}) =>
         \A w \in Parts : node[w].rcpt = "none" /\ node[w].desc = "none"
    /\ run.at = "transfer" =>
         \A w \in Parts : node[w].rcpt = "none" /\ node[w].desc = IF w < run.n THEN "prepared" ELSE "none"
    /\ run.at = "publish" =>
         \A w \in Parts : IF w < run.n THEN Renewed(node[w]) /\ node[w].rcpt = "published"
                          ELSE node[w].rcpt = "none" /\ node[w].desc = "prepared"

\* A world that has its old save and keeps it.
Back(w) ==
    /\ node[w].rcpt = "none"
    /\ \A c \in deferred : c.w = w /\ c.step = "publish" => node[w].desc = "none"
AllBack == Row # NoOp /\ ~Sending /\ \A w \in Parts : Back(w)

BackInv ==
    /\ run.at = "rollback" /\ ~run.bad => \A w \in Parts : w > run.n => Back(w)
    /\ run.op = "restore" /\ run.phase \in Returned => AllBack
    /\ run.op = "restore" /\ run.at = "restart" /\ run.phase = "open" => AllBack
    /\ Row.phase \in Returned => AllBack
    /\ \A p \in pleas : p.op = "restore" /\ p.row.phase \in Returned => AllBack

Ahead == Row.phase \in Forward
Started ==
    \/ \E w \in Parts : node[w].up = "restore"
    \/ \E c \in deferred : c.step = "restart" /\ c.op = "restore"

\* From its last publication on a restore only goes forward.
AheadInv ==
    ~outdated =>
        /\ Ahead => /\ \A w \in Parts : Renewed(node[w])
                    /\ \A c \in deferred : c.op = "restore" => c.step \in {"stop", "complete", "restart"}
                    /\ run.op = "restore" => run.at \in {"complete", "restart", "mark"}
        /\ run.op = "restore" => (Ahead <=> run.phase \in Forward)
        /\ Started => AllBack \/ Ahead

\* What a restore completed stays so.
CompleteInv ==
    /\ run.at = "complete" /\ ~run.bad => \A w \in Parts : w < run.n => node[w].rcpt = "completed"
    /\ run.op = "restore" /\ run.at = "restart" /\ run.phase \in Forward /\ ~run.bad
         /\ (run.way = "run" => run.status = "running") => \A w \in Parts : node[w].rcpt = "completed"
    /\ Row.status = "succeeded" => Row.phase = "completed" /\ \A w \in Parts : node[w].rcpt = "completed"
    /\ Row.status = "rolled_back" => Row.phase \in Returned
    /\ Row.status # "failed"
    /\ Row.phase = "recovered" => Row.status = "rolled_back"
    /\ run.op = "restore" => run.phase # "recovered"
    /\ \A p \in pleas : p.op = "restore" => p.row.phase # "recovered"

\* What a backup has copied.
Sure == \A w \in Parts : backup.parts[w] # "unsure"
CopyInv ==
    /\ run.op = "create" /\ run.at \in {"notify", "stop", "quiet", "stage"} => backup.status = "creating"
    /\ run.at = "stage" =>
         \A w \in Parts : w < run.n =>
            \/ backup.parts[w] = "unsure"
            \/ ~Unfinished("restore") /\ backup.parts[w] = node[w].save
    /\ backup.status = "verified" /\ Sure =>
         \E content \in {"old", "new"} : \A w \in Parts : backup.parts[w] \in {content} \cup Tainted

\* Whose worlds still have to be started.
DueInv ==
    /\ run.op \in Kinds => table[run.op] # NoOp /\ run.was = table[run.op].was
    /\ \A p \in pleas : table[p.op] # NoOp /\ p.row.was = table[p.op].was
    /\ run.at = "restart" /\ ~run.bad => \A w \in run.was : w < run.n => node[w].due # run.op
    /\ ~outdated => \A k \in Kinds : table[k].status \in {"succeeded", "rolled_back"} =>
          run.op # k /\ \A w \in table[k].was : node[w].due # k

SaveInv ==
    /\ \A w \in Parts : Shape(node[w])
    /\ StepInv /\ DelayInv /\ SendInv /\ BackInv /\ AheadInv /\ CompleteInv /\ CopyInv /\ DueInv

-----------------------------------------------------------------------------
(* What a call leaves true of a machine *)

\* s is the machine before a call of step for operation k, t what the call left.
Kept(step, k, s, t) ==
    /\ Shape(t)
    /\ s.rcpt = "completed" => t.rcpt = "completed" /\ t.save = s.save
    /\ Renewed(s) /\ step \in {"stop", "restart", "complete"} => Renewed(t)
    /\ s.rcpt = "none" /\ step # "publish" => t.rcpt = "none"
    /\ s.rcpt = "none" /\ s.desc = "none" /\ step # "transfer" => t.rcpt = "none" /\ t.desc = "none"
    /\ step \in {"stop", "restart"} => t.rcpt = s.rcpt /\ t.desc = s.desc
    /\ t.up = "restore" => s.up = "restore" \/ (step = "restart" /\ k = "restore")

\* The same when the call was answered.
Replied(step, s, t) ==
    /\ step = "transfer" /\ s.desc = "none" => t.desc = "prepared" /\ t.rcpt = s.rcpt
    /\ step = "publish" /\ s.desc = "prepared" => Renewed(t) /\ t.rcpt = "published"
    /\ step = "rollback" => t.rcpt = "none" /\ t.desc = "none"
    /\ step = "complete" => t.rcpt = "completed"

SameWorld(s, t) ==
    t.save = s.save /\ t.kept = s.kept /\ t.marked = s.marked /\ t.conf = s.conf

LEMMA ReceiveLeaves ==
    ASSUME NEW s \in Nodes, Shape(s), NEW k \in Kinds
    PROVE  /\ \A t \in Receives(s).mid \cup Receives(s).end : Kept("transfer", k, s, t) /\ t.due = s.due
           /\ \A t \in Receives(s).end : Replied("transfer", s, t)
<1> DEFINE half == [s EXCEPT !.desc = "receiving"]
           full == [s EXCEPT !.desc = "prepared"]
           Like(t) == t.rcpt = s.rcpt /\ SameWorld(s, t) /\ t.up = s.up /\ t.due = s.due
<1>0. PICK P : P = Receives(s)
  OBVIOUS
<1>1. Like(half) /\ Like(full) /\ Like(s) /\ full.desc = "prepared"
  BY DEF Nodes, SameWorld
<1>2. P \in {Does({half}, full), Denied, Does({}, s)} /\ (s.desc = "none" => P = Does({half}, full))
  BY <1>0 DEF Receives
<1> HIDE DEF half, full
<1>3. \A t : Like(t) => Kept("transfer", k, s, t) /\ t.due = s.due
  BY DEF SameWorld, Kept, Shape
<1>4. \A t \in P.mid \cup P.end : t \in {half, full, s}
  BY <1>2 DEF Does, Denied
<1>5. \A t \in P.mid \cup P.end : Kept("transfer", k, s, t) /\ t.due = s.due
  BY <1>1, <1>3, <1>4
<1>6. \A t \in P.end : Replied("transfer", s, t)
  BY <1>1, <1>2 DEF Replied, Does, Denied
<1> QED
  BY <1>0, <1>5, <1>6

LEMMA PublishLeaves ==
    ASSUME NEW s \in Nodes, Shape(s), s.rcpt = "none", NEW k \in Kinds
    PROVE  /\ \A t \in Publishes(s).mid \cup Publishes(s).end : Kept("publish", k, s, t) /\ t.due = s.due
           /\ \A t \in Publishes(s).end : Replied("publish", s, t)
<1> DEFINE noted == [s EXCEPT !.rcpt = "publishing", !.spare = s.conf # "none"]
           away == [noted EXCEPT !.kept = s.save, !.save = "none"]
           renamed == [away EXCEPT !.save = "new", !.marked = TRUE]
           all == [renamed EXCEPT !.conf = "new"]
           signed == [all EXCEPT !.rcpt = "published"]
           final == [signed EXCEPT !.desc = "published"]
           Rest(t) == t.up = s.up /\ t.due = s.due
<1>0. PICK P : P = Publishes(s)
  OBVIOUS
<1>1. P \in {Does({}, s), Denied, Does({noted, away, renamed, all, signed}, final)}
  BY <1>0 DEF Publishes
<1>2. s.desc = "none" => P = Denied
  BY <1>0 DEF Publishes
<1>3. s.desc = "prepared" => P \in {Denied, Does({noted, away, renamed, all, signed}, final)}
  BY <1>0 DEF Publishes
<1>4. s.save = "old" /\ s.kept = "none" /\ ~s.marked
  BY DEF Shape
<1>5. noted.rcpt = "publishing" /\ noted.save = "old" /\ noted.kept = "none" /\ ~noted.marked /\ Rest(noted)
      /\ noted \in Nodes
  BY <1>4 DEF Nodes
<1>6. away.rcpt = "publishing" /\ away.save = "none" /\ away.kept = "old" /\ ~away.marked /\ Rest(away)
      /\ away \in Nodes
  <2> HIDE DEF noted
  <2> QED
    BY <1>4, <1>5 DEF Nodes, SaveKinds
<1>7. renamed.rcpt = "publishing" /\ renamed.save = "new" /\ renamed.kept = "old" /\ renamed.marked /\ Rest(renamed)
      /\ renamed \in Nodes
  <2> HIDE DEF away
  <2> QED
    BY <1>6 DEF Nodes, SaveKinds
<1>8. all.rcpt = "publishing" /\ all.save = "new" /\ all.kept = "old" /\ all.marked /\ all.conf = "new" /\ Rest(all)
      /\ all \in Nodes
  <2> HIDE DEF renamed
  <2> QED
    BY <1>7 DEF Nodes, SaveKinds
<1>9. signed.rcpt = "published" /\ signed.save = "new" /\ signed.kept = "old" /\ signed.marked /\ signed.conf = "new"
      /\ Rest(signed) /\ signed \in Nodes
  <2> HIDE DEF all
  <2> QED
    BY <1>8 DEF Nodes, SaveKinds
<1>10. final.rcpt = "published" /\ final.save = "new" /\ final.kept = "old" /\ final.marked /\ final.conf = "new"
      /\ Rest(final) /\ final \in Nodes
  <2> HIDE DEF signed
  <2> QED
    BY <1>9 DEF Nodes, SaveKinds
<1> HIDE DEF noted, away, renamed, all, signed, final
<1>11. \A t \in {noted, away, renamed, all, signed, final} : Shape(t) /\ Rest(t)
  BY <1>5, <1>6, <1>7, <1>8, <1>9, <1>10 DEF Shape
<1>12. \A t : Shape(t) /\ Rest(t) /\ s.desc # "none" => Kept("publish", k, s, t)
  BY DEF Kept
<1>13. Kept("publish", k, s, s)
  BY DEF Kept
<1>14. \A t \in P.mid \cup P.end : Kept("publish", k, s, t) /\ t.due = s.due
  BY <1>1, <1>2, <1>11, <1>12, <1>13 DEF Does, Denied
<1>15. \A t \in P.end : Replied("publish", s, t)
  <2>1. Renewed(final)
    BY <1>10 DEF Renewed
  <2> QED
    BY <1>1, <1>3, <1>10, <2>1 DEF Does, Denied, Replied
<1> QED
  BY <1>0, <1>14, <1>15

LEMMA RollbackLeaves ==
    ASSUME NEW s \in Nodes, Shape(s), NEW k \in Kinds
    PROVE  /\ \A t \in RollsBack(s).mid \cup RollsBack(s).end : Kept("rollback", k, s, t) /\ t.due = s.due
           /\ \A t \in RollsBack(s).end : Replied("rollback", s, t)
<1> DEFINE gone == [s EXCEPT !.desc = "none"]
           torn == {[s EXCEPT !.save = "torn", !.marked = m] : m \in IF s.marked THEN BOOLEAN ELSE {}}
           off == IF s.marked THEN [s EXCEPT !.save = "none", !.marked = FALSE] ELSE s
           back == IF s.kept # "none" THEN [off EXCEPT !.save = s.kept, !.kept = "none"] ELSE off
           shared == [back EXCEPT !.conf = IF s.spare THEN "old" ELSE "none"]
           Swept(D) == [shared EXCEPT !.spare = @ /\ "spare" \notin D,
                                      !.rcpt = IF "rcpt" \in D THEN "none" ELSE @,
                                      !.desc = IF "desc" \in D THEN "none" ELSE @]
           pieces == {"spare", "rcpt", "desc"}
           Rest(t) == t.up = s.up /\ t.due = s.due
           Halfway(t) == Rest(t) /\ t.rcpt = s.rcpt /\ t.desc = s.desc /\ t.conf = s.conf
<1>0. PICK P : P = RollsBack(s)
  OBVIOUS
<1>1. CASE s.rcpt = "none"
  <2>1. P = Does({}, gone)
    BY <1>0, <1>1 DEF RollsBack
  <2>2. Rest(gone) /\ gone.rcpt = "none" /\ gone.desc = "none" /\ SameWorld(s, gone)
    BY <1>1 DEF Nodes, SameWorld
  <2> HIDE DEF gone
  <2>3. Kept("rollback", k, s, gone) /\ Replied("rollback", s, gone)
    BY <1>1, <2>2 DEF Kept, Replied, Shape, SameWorld, Renewed
  <2> QED
    BY <1>0, <2>1, <2>2, <2>3 DEF Does
<1>2. CASE P = Denied
  BY <1>0, <1>2 DEF Denied
<1>3. CASE /\ s.rcpt \in {"publishing", "published"}
           /\ P = Does(torn \cup {off, back} \cup {Swept(D) : D \in SUBSET pieces}, Swept(pieces))
           /\ ~(s.kept # "none" /\ s.save # "none" /\ ~s.marked)
  <2>1. \/ s.kept = "old" /\ s.marked /\ s.save \in {"new", "torn"}
        \/ s.kept = "old" /\ ~s.marked /\ s.save = "none"
        \/ s.kept = "none" /\ s.save = "old" /\ ~s.marked
    BY <1>3 DEF Shape
  <2>2. \A t : Rest(t) /\ Shape(t) => Kept("rollback", k, s, t)
    BY <1>3 DEF Kept
  <2>3. \A t \in torn : Rest(t) /\ Shape(t)
    <3>1. \A m \in BOOLEAN : LET t == [s EXCEPT !.save = "torn", !.marked = m] IN
             Halfway(t) /\ t.save = "torn" /\ t.marked = m /\ t.kept = s.kept
      BY DEF Nodes, SaveKinds
    <3>2. \A t \in torn : \E m \in BOOLEAN : s.marked /\ t = [s EXCEPT !.save = "torn", !.marked = m]
      OBVIOUS
    <3>3. \A t \in torn : \E m \in BOOLEAN :
             s.marked /\ Halfway(t) /\ t.save = "torn" /\ t.marked = m /\ t.kept = s.kept
      BY <3>1, <3>2
    <3> HIDE DEF torn
    <3> QED
      BY <1>3, <2>1, <3>3 DEF Shape
  <2>4. off \in Nodes /\ Halfway(off) /\ off.kept = s.kept /\ ~off.marked
        /\ off.save = IF s.marked THEN "none" ELSE s.save
    <3>1. [s EXCEPT !.save = "none", !.marked = FALSE] \in Nodes
      BY DEF Nodes, SaveKinds
    <3>2. LET t == [s EXCEPT !.save = "none", !.marked = FALSE] IN
             Halfway(t) /\ t.kept = s.kept /\ ~t.marked /\ t.save = "none"
      BY DEF Nodes, SaveKinds
    <3>3. CASE s.marked
      BY <3>1, <3>2, <3>3
    <3>4. CASE ~s.marked
      BY <3>4
    <3> QED
      BY <3>3, <3>4
  <2>5. back \in Nodes /\ Halfway(back) /\ back.kept = "none" /\ back.save = "old" /\ ~back.marked
    <3> HIDE DEF off
    <3>1. CASE s.kept = "old"
      <4>1. back = [off EXCEPT !.save = "old", !.kept = "none"]
        BY <3>1
      <4>2. "old" \in SaveKinds /\ "none" \in SaveKinds
        BY DEF SaveKinds
      <4> HIDE DEF back
      <4>3. back \in Nodes
        BY <2>4, <4>1, <4>2 DEF Nodes
      <4>4. back.kept = "none" /\ back.save = "old" /\ ~back.marked
        BY <2>4, <4>1 DEF Nodes
      <4>5. Halfway(back)
        BY <2>4, <4>1 DEF Nodes
      <4> QED
        BY <4>3, <4>4, <4>5
    <3>2. CASE s.kept = "none"
      BY <2>1, <2>4, <3>2
    <3> QED
      BY <2>1, <3>1, <3>2
  <2>6. \A D \in SUBSET pieces : LET t == Swept(D) IN
           /\ Rest(t) /\ t.kept = "none" /\ t.save = "old" /\ ~t.marked /\ t.conf # "new"
           /\ t.rcpt = IF "rcpt" \in D THEN "none" ELSE s.rcpt
           /\ "desc" \in D => t.desc = "none"
    <3> HIDE DEF off, back
    <3>1. shared \in Nodes /\ Rest(shared) /\ shared.kept = "none" /\ shared.save = "old" /\ ~shared.marked
          /\ shared.conf # "new" /\ shared.rcpt = s.rcpt
      BY <2>5 DEF Nodes
    <3> HIDE DEF shared
    <3> QED
      BY <3>1 DEF Nodes
  <2>7. \A D \in SUBSET pieces : Rest(Swept(D)) /\ Shape(Swept(D))
    <3> HIDE DEF Swept
    <3> QED
      BY <1>3, <2>6 DEF Shape
  <2>8. Rest(off) /\ Shape(off) /\ Rest(back) /\ Shape(back)
    <3> HIDE DEF off, back
    <3> QED
      BY <1>3, <2>1, <2>4, <2>5 DEF Shape
  <2>9. Replied("rollback", s, Swept(pieces))
    <3> HIDE DEF Swept
    <3> QED
      BY <2>6 DEF Replied
  <2> HIDE DEF torn, off, back, Swept
  <2>10. \A t \in P.mid \cup P.end : Rest(t) /\ Shape(t)
    BY <1>3, <2>3, <2>7, <2>8 DEF Does
  <2>11. \A t \in P.end : t = Swept(pieces)
    BY <1>3 DEF Does
  <2> QED
    BY <1>0, <2>2, <2>9, <2>10, <2>11
<1>4. P \in {Does({}, gone), Denied, Does(torn \cup {off, back} \cup {Swept(D) : D \in SUBSET pieces}, Swept(pieces))}
  BY <1>0 DEF RollsBack
<1>5. s.rcpt \in {"none", "publishing", "published", "completing", "completed"}
  BY DEF Nodes
<1> HIDE DEF gone, torn, off, back, Swept
<1>6. CASE s.rcpt \in {"completing", "completed"}
  BY <1>0, <1>2, <1>6 DEF RollsBack
<1>7. CASE s.rcpt \in {"publishing", "published"} /\ P # Denied
  <2>1. ~(s.kept # "none" /\ s.save # "none" /\ ~s.marked)
    BY <1>0, <1>7 DEF RollsBack
  <2>2. P = Does(torn \cup {off, back} \cup {Swept(D) : D \in SUBSET pieces}, Swept(pieces))
    BY <1>0, <1>7, <2>1 DEF RollsBack, torn, off, back, Swept
  <2> QED
    BY <1>3, <1>7, <2>1, <2>2
<1> QED
  BY <1>1, <1>2, <1>5, <1>6, <1>7

LEMMA CompleteLeaves ==
    ASSUME NEW s \in Nodes, Shape(s), NEW k \in Kinds
    PROVE  /\ \A t \in Completes(s).mid \cup Completes(s).end : Kept("complete", k, s, t) /\ t.due = s.due
           /\ \A t \in Completes(s).end : Replied("complete", s, t)
<1> DEFINE sure == [s EXCEPT !.rcpt = "completing"]
           plain == [sure EXCEPT !.marked = FALSE]
           swept == [plain EXCEPT !.kept = "none", !.spare = FALSE]
           said == [swept EXCEPT !.desc = "completed"]
           final == [said EXCEPT !.rcpt = "completed"]
           Rest(t) == t.up = s.up /\ t.due = s.due /\ t.save = s.save /\ t.conf = s.conf
<1>0. PICK P : P = Completes(s)
  OBVIOUS
<1>1. P \in {Does({}, s), Denied, Does({sure, plain, swept, said}, final)}
  BY <1>0 DEF Completes
<1>2. CASE s.rcpt = "completed"
  <2>1. P = Does({}, s)
    BY <1>0, <1>2 DEF Completes
  <2> QED
    BY <1>0, <1>2, <2>1 DEF Does, Kept, Replied
<1>3. CASE P = Denied
  BY <1>0, <1>3 DEF Denied
<1>4. CASE s.rcpt # "completed" /\ P # Denied
  <2>1. s.rcpt = "completing" \/ (s.rcpt = "published" /\ s.marked)
    <3>1. s.rcpt \in {"none", "publishing", "published", "completing", "completed"}
      BY DEF Nodes
    <3> QED
      BY <1>0, <1>4, <3>1 DEF Completes
  <2>2. P = Does({sure, plain, swept, said}, final)
    BY <1>0, <1>4, <2>1 DEF Completes
  <2>3. sure.rcpt = "completing" /\ Rest(sure) /\ sure \in Nodes
    BY DEF Nodes
  <2> HIDE DEF sure
  <2>4. plain.rcpt = "completing" /\ Rest(plain) /\ plain \in Nodes
    BY <2>3 DEF Nodes
  <2> HIDE DEF plain
  <2>5. swept.rcpt = "completing" /\ Rest(swept) /\ swept \in Nodes
    BY <2>4 DEF Nodes, SaveKinds
  <2> HIDE DEF swept
  <2>6. said.rcpt = "completing" /\ Rest(said) /\ said \in Nodes
    BY <2>5 DEF Nodes
  <2> HIDE DEF said
  <2>7. final.rcpt = "completed" /\ Rest(final)
    BY <2>6 DEF Nodes
  <2> HIDE DEF final
  <2>8. s.save \in {"new", "torn"} /\ s.conf = "new"
    BY <2>1 DEF Shape
  <2>9. \A t : Rest(t) /\ t.rcpt \in {"completing", "completed"} => Kept("complete", k, s, t)
    BY <1>4, <2>1, <2>8 DEF Kept, Shape, Renewed
  <2>10. \A t \in P.mid \cup P.end : Rest(t) /\ t.rcpt \in {"completing", "completed"}
    BY <2>2, <2>3, <2>4, <2>5, <2>6, <2>7 DEF Does
  <2>11. \A t \in P.end : Replied("complete", s, t)
    BY <2>2, <2>7 DEF Does, Replied
  <2> QED
    BY <1>0, <2>9, <2>10, <2>11
<1> QED
  BY <1>2, <1>3, <1>4

LEMMA SwitchLeaves ==
    ASSUME NEW s \in Nodes, Shape(s), NEW k \in Kinds, NEW step \in {"stop", "restart"}
    PROVE  /\ \A t \in Switches(step, k, s).mid \cup Switches(step, k, s).end :
                 Kept(step, k, s, t) /\ (t.due \in {s.due, "no"} \/ (step = "stop" /\ t.due = k))
           /\ \A t \in Switches(step, k, s).end :
                 Replied(step, s, t) /\ (step = "restart" => t.due = "no")
<1> DEFINE due == IF s.up = "no" THEN s.due ELSE k
           up == IF s.up = "no" THEN k ELSE s.up
           stopped == [s EXCEPT !.up = "no", !.due = due]
           started == [s EXCEPT !.up = up, !.due = "no"]
           Like(t) == t.rcpt = s.rcpt /\ t.desc = s.desc /\ SameWorld(s, t)
<1>0. PICK P : P = Switches(step, k, s)
  OBVIOUS
<1>1. step = "stop" => P = Does({}, stopped)
  BY <1>0 DEF Switches
<1>2. Like(stopped) /\ stopped.up = "no" /\ stopped.due = due
  BY DEF Nodes, SameWorld
<1>3. Like(started) /\ started.up = up /\ started.due = "no"
  BY DEF Nodes, SameWorld
<1>4. step = "restart" => P \in {Denied, Does({}, started)}
  BY <1>0 DEF Switches
<1> HIDE DEF stopped, started
<1>5. \A t : Like(t) /\ t.up \in {"no", s.up} => Kept(step, k, s, t)
  BY DEF Kept, SameWorld, Shape, Renewed, Kinds
<1>6. \A t : Like(t) /\ t.up = up /\ step = "restart" => Kept(step, k, s, t)
  BY DEF Kept, SameWorld, Shape, Renewed
<1>7. CASE step = "stop"
  BY <1>0, <1>1, <1>2, <1>5, <1>7 DEF Does, Replied
<1>8. CASE step = "restart"
  BY <1>0, <1>3, <1>4, <1>6, <1>8 DEF Does, Denied, Replied
<1> QED
  BY <1>7, <1>8

\* What an answer, an error or a death on the machine may leave.
LEMMA EffectLeaves ==
    ASSUME NEW s \in Nodes, Shape(s), NEW step \in NodeSteps, NEW k \in Kinds,
           step = "publish" => s.rcpt = "none"
    PROVE  /\ \A t \in Effect(step, k, s).mid \cup Effect(step, k, s).end :
                 Kept(step, k, s, t) /\ (t.due \in {s.due, "no"} \/ (step = "stop" /\ t.due = k))
           /\ \A t \in Effect(step, k, s).end :
                 Replied(step, s, t) /\ (step = "restart" => t.due = "no")
<1>1. CASE step = "transfer"
  BY <1>1, ReceiveLeaves DEF Effect
<1>2. CASE step = "publish"
  BY <1>2, PublishLeaves DEF Effect
<1>3. CASE step = "rollback"
  BY <1>3, RollbackLeaves DEF Effect
<1>4. CASE step = "complete"
  BY <1>4, CompleteLeaves DEF Effect
<1>5. CASE step \in {"stop", "restart"}
  <2>1. Effect(step, k, s) = Switches(step, k, s)
    BY <1>5 DEF Effect
  <2> QED
    BY <1>5, <2>1, SwitchLeaves
<1> QED
  BY <1>1, <1>2, <1>3, <1>4, <1>5 DEF NodeSteps

LEMMA StillKept ==
    ASSUME NEW s \in Nodes, Shape(s), NEW step, NEW k
    PROVE  Kept(step, k, s, s)
  BY DEF Kept

-----------------------------------------------------------------------------
(* The machines after a call of the run, and after a late one *)

\* A call of step for k is executed on w, as far as it gets.
Called(w, step, k) ==
    /\ \A v \in Parts : v # w => node'[v] = node[v]
    /\ Kept(step, k, node[w], node'[w])

\* What no step takes back ...
Steady ==
    /\ \A w \in Parts : Shape(node'[w])
    /\ \A w \in Parts : node[w].rcpt = "completed" => node'[w].rcpt = "completed" /\ node'[w].save = node[w].save
    /\ DelayInv'

\* ... and what only the restore's own way forward does.
BacksStay == \A w \in Parts : Back(w) => Back(w)'

LEMMA CallSummary ==
    ASSUME BackupInv, SaveInv, NEW w \in Parts, w = run.n, run.at \in NodeSteps, Done(w) \/ NotDone(w)
    PROVE  /\ Called(w, run.at, run.op)
           /\ node'[w].due \in {node[w].due, "no"} \/ (run.at = "stop" /\ node'[w].due = run.op)
           /\ \A c \in deferred' :
                 c \in deferred \/ (c.w = w /\ c.step = run.at /\ c.op = run.op /\ node' = node)
           /\ Done(w) => /\ Replied(run.at, node[w], node'[w])
                         /\ run.at = "restart" => node'[w].due = "no"
                         /\ deferred' \subseteq deferred
<1>1. node \in [Parts -> Nodes] /\ node[w] \in Nodes /\ run.op \in Kinds /\ Shape(node[w])
  BY StepNames DEF BackupInv, BackupTypeOK, RunInv, SaveInv
<1>2. run.at = "publish" => node[w].rcpt = "none"
  <2>1. run.n \in Int
    BY WorldAt
  <2>2. ~(w < run.n)
    BY <2>1
  <2> QED
    BY <2>2 DEF SaveInv, SendInv
<1> DEFINE E == Effect(run.at, run.op, node[w])
<1>3. /\ \A t \in E.mid \cup E.end :
            Kept(run.at, run.op, node[w], t)
            /\ (t.due \in {node[w].due, "no"} \/ (run.at = "stop" /\ t.due = run.op))
      /\ \A t \in E.end : Replied(run.at, node[w], t) /\ (run.at = "restart" => t.due = "no")
  BY <1>1, <1>2, EffectLeaves
<1> HIDE DEF E
<1>4. \A t : Becomes(w, t) => /\ node'[w] = t /\ (\A v \in Parts : v # w => node'[v] = node[v])
                             /\ deferred' \subseteq deferred
  BY <1>1 DEF Becomes
<1>5. CASE Done(w)
  <2>1. PICK t \in E.end : Becomes(w, t)
    BY <1>5 DEF Done, E
  <2> QED
    BY <1>3, <1>4, <2>1 DEF Called
<1>6. CASE NotDone(w) /\ ~Done(w)
  <2>1. \/ Becomes(w, node[w])
        \/ UNCHANGED <<node, deferred>>
        \/ \E t \in E.mid \cup E.end : Becomes(w, t)
        \/ /\ deferred' = deferred \cup {[w |-> w, step |-> run.at, op |-> run.op, token |-> turn]}
           /\ UNCHANGED node
    BY <1>6 DEF NotDone, E
  <2>2. Kept(run.at, run.op, node[w], node[w])
    BY <1>1, StillKept
  <2>3. CASE \E t \in E.mid \cup E.end : Becomes(w, t)
    BY <1>3, <1>4, <1>6, <2>3 DEF Called
  <2>4. CASE Becomes(w, node[w])
    BY <1>4, <1>6, <2>2, <2>4 DEF Called
  <2>5. CASE UNCHANGED <<node, deferred>>
    BY <1>6, <2>2, <2>5 DEF Called
  <2>6. CASE /\ deferred' = deferred \cup {[w |-> w, step |-> run.at, op |-> run.op, token |-> turn]}
             /\ UNCHANGED node
    BY <1>6, <2>2, <2>6 DEF Called
  <2> QED
    BY <2>1, <2>3, <2>4, <2>5, <2>6
<1> QED
  BY <1>5, <1>6

LEMMA LateSummary ==
    ASSUME BackupInv, SaveInv, NEW c \in deferred, LateCall(c)
    PROVE  /\ c.w \in Parts /\ c.step \in NodeSteps /\ c.op \in Kinds
           /\ Called(c.w, c.step, c.op)
           /\ node'[c.w].due \in {node[c.w].due, "no"}
           /\ deferred' = deferred \ {c}
<1>1. c.w \in Parts /\ c.step \in NodeSteps /\ c.op \in Kinds
  BY DEF BackupInv, BackupTypeOK
<1>2. PICK w \in Parts, step \in NodeSteps, k \in Kinds : w = c.w /\ step = c.step /\ k = c.op
  BY <1>1
<1>3. node \in [Parts -> Nodes] /\ node[w] \in Nodes /\ Shape(node[w])
  BY DEF BackupInv, BackupTypeOK, SaveInv
<1>4. step = "publish" => node[w].rcpt = "none"
  BY <1>2 DEF SaveInv, DelayInv
<1> DEFINE E == Effect(step, k, node[w])
<1>5. /\ \A t \in E.mid \cup E.end :
            Kept(step, k, node[w], t)
            /\ (t.due \in {node[w].due, "no"} \/ (step = "stop" /\ t.due = k))
      /\ E.mid \cup E.end \subseteq Nodes
  BY <1>3, <1>4, EffectLeaves, EffectTypes
<1>6. PICK s \in E.mid \cup E.end \cup {node[w]} :
         node' = [node EXCEPT ![w] = [s EXCEPT !.due = IF step = "stop" THEN node[w].due ELSE @]]
  BY <1>2 DEF LateCall, E
<1> HIDE DEF E
<1>7. Kept(step, k, node[w], s) /\ s \in Nodes /\ (step # "stop" => s.due \in {node[w].due, "no"})
  BY <1>3, <1>5, <1>6, StillKept
<1>8. PICK d : d = (IF step = "stop" THEN node[w].due ELSE s.due) /\ d \in {node[w].due, "no"}
  BY <1>7
<1>9. PICK t : t = [s EXCEPT !.due = IF step = "stop" THEN node[w].due ELSE @]
  OBVIOUS
<1>10. t.due = d /\ t.rcpt = s.rcpt /\ t.desc = s.desc /\ SameWorld(s, t) /\ t.up = s.up
  BY <1>7, <1>8, <1>9 DEF Nodes, SameWorld
<1>11. Kept(step, k, node[w], t)
  BY <1>7, <1>10 DEF Kept, SameWorld, Shape, Renewed
<1>12. node' = [node EXCEPT ![w] = t]
  BY <1>6, <1>9
<1>13. node'[w] = t /\ \A v \in Parts : v # w => node'[v] = node[v]
  BY <1>3, <1>12
<1>14. deferred' = deferred \ {c}
  BY DEF LateCall
<1> QED
  BY <1>1, <1>2, <1>8, <1>10, <1>11, <1>13, <1>14 DEF Called

LEMMA StillSteady ==
    ASSUME SaveInv, NoNode
    PROVE  Steady /\ BacksStay
  BY DEF SaveInv, NoNode, Steady, BacksStay, Back, DelayInv, Pushes

\* A call of the run leaves what is steady.
LEMMA CallSteady ==
    ASSUME BackupInv, SaveInv, NEW w \in Parts, w = run.n, run.at \in NodeSteps, Done(w) \/ NotDone(w)
    PROVE  Steady /\ (run.at \notin {"transfer", "publish"} => BacksStay)
<1>1. /\ Called(w, run.at, run.op)
      /\ \A c \in deferred' :
            c \in deferred \/ (c.w = w /\ c.step = run.at /\ c.op = run.op /\ node' = node)
  BY CallSummary
<1>2. \A c \in deferred : c.op \in Kinds /\ c.w \in Parts
  BY DEF BackupInv, BackupTypeOK
<1>3. run.at = "publish" => node[w].rcpt = "none"
  <2>1. run.n \in Int
    BY WorldAt
  <2>2. ~(w < run.n)
    BY <2>1
  <2> QED
    BY <2>2 DEF SaveInv, SendInv
<1>4. run.at \in {"transfer", "publish"} => run.op = "restore" /\ \A c \in deferred : c.step \in {"stop", "restart"}
  <2>1. run.at \in {"transfer", "publish"} => run.op = "restore" /\ run.way = "run"
    BY DEF BackupInv, RunInv, SaveInv, StepInv
  <2>2. run.at \in {"transfer", "publish"} => Sending
    BY <2>1 DEF Sending, Ways
  <2> QED
    BY <1>2, <2>1, <2>2 DEF SaveInv, SendInv, DelayInv, Kinds
<1>5. \A v \in Parts : Shape(node'[v])
  BY <1>1 DEF Called, Kept, SaveInv
<1>6. \A v \in Parts : node[v].rcpt = "completed" => node'[v].rcpt = "completed" /\ node'[v].save = node[v].save
  BY <1>1 DEF Called, Kept
<1>7. run.op = "create" => run.at \in {"stop", "restart"}
  BY DEF NodeSteps, BackupInv, RunInv, SaveInv, StepInv, Ways
<1>8. DelayInv'
  <2>1. \A c \in deferred' : c.op = "create" => c.step \in {"stop", "restart"}
    BY <1>1, <1>7 DEF SaveInv, DelayInv
  <2>2. \A c, d \in deferred' : Pushes(c) /\ Pushes(d) => c = d
    <3>1. CASE run.at \in {"transfer", "publish"}
      <4> SUFFICES ASSUME NEW c \in deferred', NEW d \in deferred', Pushes(c), Pushes(d) PROVE c = d
        OBVIOUS
      <4>1. c \notin deferred /\ d \notin deferred
        BY <1>4, <3>1 DEF Pushes
      <4>2. deferred' \subseteq deferred \cup {[w |-> w, step |-> run.at, op |-> run.op, token |-> turn]}
        BY DEF Done, NotDone, Becomes
      <4> QED
        BY <4>1, <4>2
    <3>2. CASE run.at \notin {"transfer", "publish"}
      BY <1>1, <3>2 DEF SaveInv, DelayInv, Pushes
    <3> QED
      BY <3>1, <3>2
  <2>3. \A c \in deferred' : c.step = "publish" => node'[c.w].rcpt = "none"
    <3> SUFFICES ASSUME NEW c \in deferred', c.step = "publish" PROVE node'[c.w].rcpt = "none"
      OBVIOUS
    <3>1. CASE c \in deferred
      <4>1. run.at \notin {"transfer", "publish"} /\ node[c.w].rcpt = "none" /\ c.w \in Parts
        BY <1>2, <1>4, <3>1 DEF SaveInv, DelayInv
      <4> QED
        BY <1>1, <4>1 DEF Called, Kept
    <3>2. CASE c \notin deferred
      BY <1>1, <1>3, <3>2
    <3> QED
      BY <3>1, <3>2
  <2> QED
    BY <2>1, <2>2, <2>3 DEF DelayInv
<1>9. ASSUME run.at \notin {"transfer", "publish"} PROVE BacksStay
  <2> SUFFICES ASSUME NEW v \in Parts, Back(v) PROVE Back(v)'
    BY DEF BacksStay
  <2>1. node'[v].rcpt = "none"
    BY <1>1, <1>9 DEF Called, Kept, Back
  <2>2. ASSUME NEW c \in deferred', c.w = v, c.step = "publish" PROVE node'[v].desc = "none"
    <3>1. c \in deferred
      BY <1>1, <1>9, <2>2
    <3>2. node[v].desc = "none" /\ node[v].rcpt = "none"
      BY <2>2, <3>1 DEF Back
    <3> QED
      BY <1>1, <1>9, <3>2 DEF Called, Kept
  <2> QED
    BY <2>1, <2>2 DEF Back
<1> QED
  BY <1>5, <1>6, <1>8, <1>9 DEF Steady

LEMMA LateSteady ==
    ASSUME BackupInv, SaveInv, NEW c \in deferred, LateCall(c)
    PROVE  Steady /\ BacksStay
<1>1. /\ c.w \in Parts /\ c.step \in NodeSteps /\ c.op \in Kinds
      /\ Called(c.w, c.step, c.op) /\ deferred' = deferred \ {c}
  BY LateSummary
<1>2. \A d \in deferred : d.w \in Parts
  BY DEF BackupInv, BackupTypeOK
<1>3. \A d \in deferred' : d \in deferred /\ d # c
  BY <1>1
<1>4. Pushes(c) => \A d \in deferred' : ~Pushes(d)
  BY <1>3 DEF SaveInv, DelayInv
<1>5. \A v \in Parts : Shape(node'[v])
  BY <1>1 DEF Called, Kept, SaveInv
<1>6. \A v \in Parts : node[v].rcpt = "completed" => node'[v].rcpt = "completed" /\ node'[v].save = node[v].save
  BY <1>1 DEF Called, Kept
<1>7. DelayInv'
  <2>1. \A d \in deferred' : d.op = "create" => d.step \in {"stop", "restart"}
    BY <1>3 DEF SaveInv, DelayInv
  <2>2. \A d, e \in deferred' : Pushes(d) /\ Pushes(e) => d = e
    BY <1>3 DEF SaveInv, DelayInv
  <2>3. \A d \in deferred' : d.step = "publish" => node'[d.w].rcpt = "none"
    BY <1>1, <1>2, <1>3, <1>4 DEF SaveInv, DelayInv, Pushes, Called, Kept
  <2> QED
    BY <2>1, <2>2, <2>3 DEF DelayInv, Pushes
<1>8. BacksStay
  <2> SUFFICES ASSUME NEW v \in Parts, Back(v) PROVE Back(v)'
    BY DEF BacksStay
  <2>1. node'[v].rcpt = "none"
    BY <1>1 DEF Called, Kept, Back
  <2>2. ASSUME NEW d \in deferred', d.w = v, d.step = "publish" PROVE node'[v].desc = "none"
    <3>1. node[v].desc = "none" /\ node[v].rcpt = "none" /\ c.step # "transfer"
      BY <1>3, <1>4, <2>2 DEF Back, Pushes
    <3> QED
      BY <1>1, <3>1 DEF Called, Kept
  <2> QED
    BY <2>1, <2>2 DEF Back
<1> QED
  BY <1>5, <1>6, <1>7, <1>8 DEF Steady

-----------------------------------------------------------------------------
(* The fields of the run and of the rows *)

\* The operation goes on, or another one of the same kind of step.
Goes(at, n, phase, status, bad) ==
    /\ run'.at = at /\ run'.n = n /\ run'.phase = phase /\ run'.status = status /\ run'.bad = bad
    /\ run'.op = run.op /\ run'.way = run.way /\ run'.was = run.was

LEMMA StepGoes ==
    ASSUME BackupInv, NEW at, NEW n
    PROVE  /\ run' = AtStep(at, n) => Goes(at, n, run.phase, run.status, run.bad)
           /\ run' = [AtStep(at, n) EXCEPT !.bad = TRUE] => Goes(at, n, run.phase, run.status, TRUE)
<1>1. run \in Runs
  BY WorldAt
<1>2. run' = AtStep(at, n) => Goes(at, n, run.phase, run.status, run.bad)
  BY <1>1 DEF Runs, AtStep, Goes
<1>3. run' = [AtStep(at, n) EXCEPT !.bad = TRUE] => Goes(at, n, run.phase, run.status, TRUE)
  BY <1>1 DEF Runs, AtStep, Goes
<1> QED
  BY <1>2, <1>3

LEMMA HeadGoes ==
    ASSUME BackupInv, NEW at, NEW n, NEW phase, NEW status
    PROVE  /\ run' = Headed(at, n, phase, status) => Goes(at, n, phase, status, run.bad)
           /\ run' = [Headed(at, n, phase, status) EXCEPT !.bad = FALSE] => Goes(at, n, phase, status, FALSE)
<1>1. run \in Runs
  BY WorldAt
<1>2. run' = Headed(at, n, phase, status) => Goes(at, n, phase, status, run.bad)
  BY <1>1 DEF Runs, Headed, AtStep, Goes
<1>3. run' = [Headed(at, n, phase, status) EXCEPT !.bad = FALSE] => Goes(at, n, phase, status, FALSE)
  BY <1>1 DEF Runs, Headed, AtStep, Goes
<1> QED
  BY <1>2, <1>3

LEMMA FreeGoes ==
    ASSUME run' = FreeRoom
    PROVE  run'.at = "idle" /\ run'.op = "none" /\ run'.way = "run" /\ ~run'.bad /\ run'.phase = "none"
  BY DEF FreeRoom

\* A row keeps the worlds that ran, whatever is saved.
LEMMA SaveRows ==
    ASSUME BackupInv, SaveInv, run.op \in Kinds, NEW phase \in PhaseNames, NEW status \in StatusNames,
           NEW ok \in BOOLEAN, Saves(phase, status, ok)
    PROVE  /\ \A k \in Kinds : k # run.op => table'[k] = table[k]
           /\ table'[run.op] # NoOp /\ table'[run.op].was = table[run.op].was
           /\ IF ok THEN table'[run.op].phase = phase /\ table'[run.op].status = status
              ELSE table' = table
<1>1. table \in [Kinds -> OpRows \cup {NoOp}] /\ table[run.op] # NoOp
  BY DEF BackupInv, BackupTypeOK, SaveInv, DueInv
<1>2. PICK k \in Kinds : k = run.op
  OBVIOUS
<1>3. table[k] \in OpRows
  BY <1>1, <1>2
<1> DEFINE row == [table[k] EXCEPT !.phase = phase, !.status = status]
<1>4. ok => table' = [table EXCEPT ![k] = row]
  BY <1>1, <1>2 DEF Saves
<1>5. row \in OpRows /\ row.phase = phase /\ row.status = status /\ row.was = table[k].was
  BY <1>3 DEF OpRows
<1>6. ~ok => table' = table
  BY DEF Saves, NoSave
<1> HIDE DEF row
<1>7. CASE ok
  BY <1>1, <1>2, <1>4, <1>5, <1>7, RowIsNew
<1>8. CASE ~ok
  BY <1>1, <1>2, <1>6, <1>8
<1> QED
  BY <1>7, <1>8

-----------------------------------------------------------------------------
(* The parts of the invariant that a step does not concern *)

\* No call of this step was one to send, publish, complete or roll back.
Mild ==
    /\ \A v \in Parts : node'[v].rcpt = node[v].rcpt /\ node'[v].desc = node[v].desc
    /\ \A v \in Parts : Renewed(node[v]) => Renewed(node'[v])
    /\ \A c \in deferred' :
          \/ c \in deferred \/ (c.op = "create" /\ run.op = "create") \/ c.step = "stop"
          \/ c.step = "restart" /\ c.op = "restore" /\ run.op = "restore" /\ run.at = "restart"
    /\ Started' => Started \/ (run.op = "restore" /\ run.at = "restart")

LEMMA StillMild ==
    ASSUME NoNode
    PROVE  Mild
  BY DEF NoNode, Mild, Started

LEMMA CallMild ==
    ASSUME BackupInv, SaveInv, NEW w \in Parts, w = run.n, run.at \in {"stop", "restart"}, Done(w) \/ NotDone(w)
    PROVE  Mild
<1>1. /\ Called(w, run.at, run.op)
      /\ \A c \in deferred' :
            c \in deferred \/ (c.w = w /\ c.step = run.at /\ c.op = run.op /\ node' = node)
  BY CallSummary, StepNames
<1>2. run.op \in Kinds
  BY StepNames DEF BackupInv, RunInv
<1>3. \A v \in Parts : node'[v].rcpt = node[v].rcpt /\ node'[v].desc = node[v].desc
  BY <1>1 DEF Called, Kept
<1>4. \A v \in Parts : Renewed(node[v]) => Renewed(node'[v])
  BY <1>1 DEF Called, Kept
<1>5. \A v \in Parts : node'[v].up = "restore" =>
        node[v].up = "restore" \/ (run.op = "restore" /\ run.at = "restart")
  BY <1>1 DEF Called, Kept
<1>6. \A c \in deferred' :
          \/ c \in deferred \/ (c.op = "create" /\ run.op = "create") \/ c.step = "stop"
          \/ c.step = "restart" /\ c.op = "restore" /\ run.op = "restore" /\ run.at = "restart"
  BY <1>1, <1>2 DEF Kinds
<1>7. Started' => Started \/ (run.op = "restore" /\ run.at = "restart")
  BY <1>5, <1>6 DEF Started
<1> QED
  BY <1>3, <1>4, <1>6, <1>7 DEF Mild

LEMMA AllBackStays ==
    ASSUME AllBack, BacksStay, Row' # NoOp, ~Sending'
    PROVE  AllBack'
  BY DEF AllBack, BacksStay

\* A step of another operation, or of none.
LEMMA Aside ==
    ASSUME BackupInv, SaveInv, Steady, BacksStay, Mild, Row' = Row,
           run'.op # "restore", run'.at \notin {"transfer", "publish", "rollback", "complete"},
           run.op # "restore" \/ NoNode,
           pleas' \subseteq pleas, outdated \in BOOLEAN, outdated => outdated'
    PROVE  SendInv' /\ BackInv' /\ AheadInv' /\ CompleteInv'
<1>1. ~Sending'
  BY DEF Sending
<1>2. AllBack => AllBack'
  BY <1>1, AllBackStays DEF AllBack
<1>3. \A c \in deferred' : c \in deferred \/ c.op = "create" \/ c.step = "stop"
  BY DEF Mild, NoNode
<1>4. SendInv'
  <2>1. Row = NoOp => \A w \in Parts : node'[w].rcpt = "none" /\ node'[w].desc = "none"
    BY DEF SaveInv, SendInv, Mild
  <2>2. Row = NoOp => \A c \in deferred' : c.op = "restore" => c.step = "stop"
    BY <1>3 DEF SaveInv, SendInv
  <2> QED
    BY <1>1, <2>1, <2>2 DEF SendInv
<1>5. BackInv'
  BY <1>2 DEF SaveInv, BackInv
<1>6. Started' => Started
  BY DEF Mild, NoNode, Started
<1>7. AheadInv'
  <2> SUFFICES ASSUME ~outdated' PROVE AheadInv'
    BY DEF AheadInv
  <2>1. ~outdated
    OBVIOUS
  <2>2. Ahead' = Ahead
    BY DEF Ahead
  <2>3. Ahead => \A w \in Parts : Renewed(node'[w])
    BY <2>1 DEF SaveInv, AheadInv, Mild
  <2>4. Ahead => \A c \in deferred' : c.op = "restore" => c.step \in {"stop", "complete", "restart"}
    BY <1>3, <2>1 DEF SaveInv, AheadInv
  <2>5. Started' => AllBack' \/ Ahead'
    BY <1>2, <1>6, <2>1, <2>2 DEF SaveInv, AheadInv
  <2> QED
    BY <2>2, <2>3, <2>4, <2>5 DEF AheadInv
<1>8. CompleteInv'
  BY DEF SaveInv, CompleteInv, Steady
<1> QED
  BY <1>4, <1>5, <1>7, <1>8

LEMMA CopyStays ==
    ASSUME SaveInv, run'.at # "stage", backup'.parts = backup.parts,
           backup'.status = "verified" => backup.status = "verified", outdated => outdated',
           run'.op = "create" /\ run'.at \in {"notify", "stop", "quiet"} => backup'.status = "creating"
    PROVE  CopyInv'
<1>1. Tainted \subseteq Tainted'
  BY DEF Tainted
<1>2. Sure' => Sure
  BY DEF Sure
<1>3. ASSUME backup'.status = "verified", Sure'
      PROVE  \E content \in {"old", "new"} : \A w \in Parts : backup'.parts[w] \in {content} \cup Tainted'
  <2>1. PICK content \in {"old", "new"} : \A w \in Parts : backup.parts[w] \in {content} \cup Tainted
    BY <1>2, <1>3 DEF SaveInv, CopyInv
  <2> QED
    BY <1>1, <2>1
<1> QED
  BY <1>3 DEF CopyInv

\* An operation goes on or ends, without the verdict that it is settled.
LEMMA DueStays ==
    ASSUME BackupInv, SaveInv, Around, run.op \in Kinds,
           \A v \in Parts : node'[v].due \in {node[v].due, "no"} \/ (run.at = "stop" /\ node'[v].due = run.op),
           \A k \in Kinds : k # run.op => table'[k] = table[k],
           table'[run.op] # NoOp, table'[run.op].was = table[run.op].was,
           table'[run.op].status = table[run.op].status
             \/ table'[run.op].status \notin {"succeeded", "rolled_back"},
           (run'.op = "none" /\ run'.at = "idle") \/ (run'.op = run.op /\ run'.was = run.was),
           run'.at = "restart" => run'.n = 1
    PROVE  DueInv'
<1>1. pleas' = pleas /\ outdated' = outdated
  BY DEF Around
<1>2. "none" \notin Kinds /\ run.was \subseteq Parts /\ \A k \in Kinds : table[k] # NoOp => table[k].was \subseteq Parts
  <2>1. run.was \subseteq Parts
    BY WorldAt DEF Runs
  <2>2. \A k \in Kinds : table[k] # NoOp => table[k].was \subseteq Parts
    BY DEF BackupInv, BackupTypeOK, OpRows
  <2> QED
    BY <2>1, <2>2 DEF Kinds
<1>3. run'.op \in Kinds => table'[run'.op] # NoOp /\ run'.was = table'[run'.op].was
  BY <1>2 DEF SaveInv, DueInv
<1>4. \A p \in pleas' : table'[p.op] # NoOp /\ p.row.was = table'[p.op].was
  <2>1. \A p \in pleas : p.op \in Kinds
    BY DEF BackupInv, BackupTypeOK
  <2> QED
    BY <1>1, <2>1 DEF SaveInv, DueInv
<1>5. run'.at = "restart" /\ ~run'.bad => \A w \in run'.was : w < run'.n => node'[w].due # run'.op
  <2>1. CASE run'.was = run.was
    BY <1>2, <2>1 DEF Parts
  <2>2. CASE run'.at = "idle"
    BY <2>2
  <2> QED
    BY <2>1, <2>2
<1>6. ASSUME ~outdated', NEW k \in Kinds, table'[k].status \in {"succeeded", "rolled_back"}
      PROVE  run'.op # k /\ \A w \in table'[k].was : node'[w].due # k
  <2>1. k # run.op
    <3>1. table[run.op].status \notin {"succeeded", "rolled_back"}
      BY <1>1, <1>6 DEF SaveInv, DueInv
    <3> QED
      BY <1>6, <3>1
  <2>2. table'[k] = table[k] /\ \A w \in table[k].was : node[w].due # k
    BY <1>1, <1>6, <2>1 DEF SaveInv, DueInv
  <2>3. table[k] # NoOp /\ table[k].was \subseteq Parts
    BY <1>2, <1>6, <2>2 DEF NoOp
  <2>4. k # "no"
    BY DEF Kinds
  <2> QED
    BY <1>2, <2>1, <2>2, <2>3, <2>4
<1> QED
  BY <1>3, <1>4, <1>5, <1>6 DEF DueInv

-----------------------------------------------------------------------------
(* The steps of a backup *)

LEMMA Assemble ==
    ASSUME Steady, StepInv', SendInv', BackInv', AheadInv', CompleteInv', CopyInv', DueInv'
    PROVE  SaveInv'
  BY DEF SaveInv, Steady

\* Calls that are forgotten, and nothing else.
LEMMA LessSteady ==
    ASSUME SaveInv, node' = node, deferred' \subseteq deferred
    PROVE  Steady /\ BacksStay /\ Mild
<1>1. DelayInv'
  BY DEF SaveInv, DelayInv, Pushes
<1>2. Steady
  BY <1>1 DEF SaveInv, Steady
<1>3. BacksStay
  BY DEF BacksStay, Back
<1>4. Mild
  BY DEF Mild, Started
<1> QED
  BY <1>2, <1>3, <1>4

LEMMA CreateGoes ==
    ASSUME BackupInv, SaveInv, run.op = "create", Around, Steady, BacksStay, Mild,
           NEW at \in {"stop", "quiet", "stage", "fail", "restart", "mark"}, NEW n, NEW phase, NEW status, NEW bad,
           Goes(at, n, phase, status, bad),
           at \in {"stop", "quiet", "stage"} => run.way = "run",
           at \in {"stop", "quiet"} => phase \notin Forward \cup Returned,
           at = "restart" => n = 1,
           \A v \in Parts : node'[v].due \in {node[v].due, "no"} \/ (run.at = "stop" /\ node'[v].due = run.op),
           table'["restore"] = table["restore"],
           table'["create"] # NoOp, table'["create"].was = table["create"].was,
           table'["create"].status = table["create"].status
             \/ table'["create"].status \notin {"succeeded", "rolled_back"},
           CopyInv'
    PROVE  SaveInv'
<1>1. StepInv'
  BY DEF StepInv, Goes, Ways
<1>2. SendInv' /\ BackInv' /\ AheadInv' /\ CompleteInv'
  <2>1. Row' = Row /\ run'.op # "restore" /\ run'.at \notin {"transfer", "publish", "rollback", "complete"}
    BY DEF Row, Goes
  <2>2. pleas' \subseteq pleas /\ outdated \in BOOLEAN /\ (outdated => outdated')
    BY DEF Around, BackupInv, BackupTypeOK
  <2> QED
    BY <2>1, <2>2, Aside
<1>3. DueInv'
  <2>1. \A k \in Kinds : k # run.op => table'[k] = table[k]
    BY DEF Kinds
  <2>2. run.op \in Kinds /\ run'.op = run.op /\ run'.was = run.was /\ (run'.at = "restart" => run'.n = 1)
    BY DEF Kinds, Goes
  <2> QED
    BY <2>1, <2>2, DueStays
<1> QED
  BY <1>1, <1>2, <1>3, Assemble

\* The room is given up, and no row but that of a backup has changed.
LEMMA RoomFreed ==
    ASSUME BackupInv, SaveInv, NoNode, Around, run.op \in Kinds, run' = FreeRoom,
           table'["restore"] = table["restore"],
           table'["create"] = table["create"]
             \/ /\ run.op = "create" /\ table'["create"] # NoOp /\ table'["create"].was = table["create"].was
                /\ table'["create"].status \notin {"succeeded", "rolled_back"},
           backup'.parts = backup.parts, backup'.status = "verified" => backup.status = "verified"
    PROVE  SaveInv'
<1>0. run'.at = "idle" /\ run'.op = "none" /\ run'.way = "run" /\ ~run'.bad /\ run'.phase = "none"
  BY FreeGoes
<1>1. Steady /\ BacksStay /\ Mild
  BY StillSteady, StillMild
<1>2. outdated \in BOOLEAN /\ outdated' = outdated /\ pleas' = pleas
  BY DEF Around, BackupInv, BackupTypeOK
<1>3. StepInv'
  BY <1>0 DEF StepInv, Ways
<1>4. SendInv' /\ BackInv' /\ AheadInv' /\ CompleteInv'
  <2>1. Row' = Row
    BY DEF Row
  <2> QED
    BY <1>0, <1>1, <1>2, <2>1, Aside
<1>5. CopyInv'
  BY <1>0, <1>2, CopyStays
<1>6. DueInv'
  <2>1. \A k \in Kinds : k # run.op => table'[k] = table[k]
    BY DEF Kinds
  <2>2. /\ table'[run.op] # NoOp /\ table'[run.op].was = table[run.op].was
        /\ table'[run.op].status = table[run.op].status
             \/ table'[run.op].status \notin {"succeeded", "rolled_back"}
    BY DEF Kinds, SaveInv, DueInv
  <2>3. \A v \in Parts : node'[v].due = node[v].due
    BY DEF NoNode
  <2> QED
    BY <1>0, <2>1, <2>2, <2>3, DueStays
<1> QED
  BY <1>1, <1>3, <1>4, <1>5, <1>6, Assemble

LEMMA NotifySaves ==
    ASSUME BackupInv, SaveInv, Notify
    PROVE  SaveInv'
<1>1. run.at = "notify" /\ run.op = "create" /\ run.way = "run" /\ NoNode /\ Around /\ backup' = backup
  BY DEF SaveInv, StepInv, Notify
<1>2. Steady /\ BacksStay /\ Mild
  BY <1>1, StillSteady, StillMild
<1>3. \A v \in Parts : node'[v].due = node[v].due
  BY <1>1 DEF NoNode
<1>4. backup.status = "creating"
  BY <1>1 DEF SaveInv, CopyInv
<1>5. PICK at, n, phase, status, bad :
         /\ at \in {"stop", "restart", "fail"}
         /\ Goes(at, n, phase, status, bad) /\ (at = "restart" => n = 1)
         /\ at = "stop" => phase = "open"
  <2>1. run' = Headed("stop", LastPart, "open", "running") => Goes("stop", LastPart, "open", "running", run.bad)
    BY HeadGoes
  <2>2. run' = Headed("restart", 1, "open", "running") => Goes("restart", 1, "open", "running", run.bad)
    BY HeadGoes
  <2>3. run' = AtStep("fail", 0) => Goes("fail", 0, run.phase, run.status, run.bad)
    BY StepGoes
  <2>4. "stop" \in {"stop", "restart", "fail"} /\ "restart" \in {"stop", "restart", "fail"}
        /\ "fail" \in {"stop", "restart", "fail"}
    OBVIOUS
  <2>5. \/ run' = Headed("stop", LastPart, "open", "running")
        \/ run' = Headed("restart", 1, "open", "running")
        \/ run' = AtStep("fail", 0)
    BY DEF Notify
  <2>6. CASE run' = Headed("stop", LastPart, "open", "running")
    BY <2>1, <2>4, <2>6
  <2>7. CASE run' = Headed("restart", 1, "open", "running")
    BY <2>2, <2>4, <2>7
  <2>8. CASE run' = AtStep("fail", 0)
    BY <2>3, <2>4, <2>8
  <2> QED
    BY <2>5, <2>6, <2>7, <2>8
<1>6. /\ table'["restore"] = table["restore"]
      /\ table'["create"] # NoOp /\ table'["create"].was = table["create"].was
      /\ table'["create"].status = table["create"].status
           \/ table'["create"].status \notin {"succeeded", "rolled_back"}
  <2>1. CASE Saves("open", "running", TRUE)
    <3>1. "open" \in PhaseNames /\ "running" \in StatusNames
      BY DEF PhaseNames, StatusNames
    <3> QED
      BY <1>1, <2>1, <3>1, SaveRows DEF Kinds
  <2>2. CASE NoSave
    BY <1>1, <2>2 DEF NoSave, SaveInv, DueInv, Kinds
  <2> QED
    BY <2>1, <2>2 DEF Notify
<1>7. CopyInv'
  <2>1. run'.at # "stage"
    BY <1>5 DEF Goes
  <2> QED
    BY <1>1, <1>4, <2>1, CopyStays DEF Around
<1>8. at \in {"stop", "quiet"} => phase \notin Forward \cup Returned
  BY <1>5 DEF Forward, Returned
<1> QED
  BY <1>1, <1>2, <1>3, <1>5, <1>6, <1>7, <1>8, CreateGoes

\* The calls of the run at one of its worlds, and a step that calls none.
LEMMA CallsOrNone ==
    ASSUME BackupInv, SaveInv, run.at \in {"stop", "restart"},
           (run.n \in Parts /\ (Done(run.n) \/ NotDone(run.n))) \/ NoNode
    PROVE  /\ Steady /\ BacksStay /\ Mild
           /\ \A v \in Parts : node'[v].due \in {node[v].due, "no"} \/ (run.at = "stop" /\ node'[v].due = run.op)
<1>1. CASE NoNode
  BY <1>1, StillSteady, StillMild DEF NoNode
<1>2. CASE run.n \in Parts /\ (Done(run.n) \/ NotDone(run.n))
  <2>1. PICK w \in Parts : w = run.n
    BY <1>2
  <2>2. run.at \in NodeSteps /\ run.at \notin {"transfer", "publish"}
    BY StepNames
  <2>3. Steady /\ BacksStay
    BY <1>2, <2>1, <2>2, CallSteady
  <2>4. Mild
    BY <1>2, <2>1, CallMild
  <2>5. Called(w, run.at, run.op) /\
        (node'[w].due \in {node[w].due, "no"} \/ (run.at = "stop" /\ node'[w].due = run.op))
    BY <1>2, <2>1, <2>2, CallSummary
  <2> QED
    BY <2>3, <2>4, <2>5 DEF Called
<1> QED
  BY <1>1, <1>2

\* Where StopWorld leads.
LEMMA StopWorldGoes ==
    ASSUME BackupInv, StopWorld
    PROVE  /\ run.at = "stop" /\ NoSave /\ Around /\ backup' = backup
           /\ (run.n \in Parts /\ (Done(run.n) \/ NotDone(run.n))) \/ NoNode
           /\ \E at \in {"stop", "quiet", "fail", "rollback", "mark"}, n \in Int :
                 /\ Goes(at, n, run.phase, run.status, run.bad)
                 /\ at = "fail" => run.op = "create" /\ run.way = "run"
                 /\ at = "rollback" => ~(run.op = "create") /\ run.way = "run"
                 /\ at \in {"rollback", "mark"} => n = 0
                 /\ at = "mark" => ~(run.way = "run")
<1>1. run.at = "stop" /\ NoSave /\ Around /\ backup' = backup
  BY DEF StopWorld
<1>2. run.n \in Int /\ run.n - 1 \in Int /\ 0 \in Int /\ 1 \in Int
  BY WorldAt
<1>3. run.n # 0 => run.n \in Parts
  BY <1>1, WorldAt DEF BackupInv, RunInv
<1>4. (run.n \in Parts /\ (Done(run.n) \/ NotDone(run.n))) \/ NoNode
  BY <1>3 DEF StopWorld
<1> DEFINE Leads(at, n) == Goes(at, n, run.phase, run.status, run.bad)
<1>5. \/ Leads("stop", run.n - 1) \/ Leads("quiet", 0)
      \/ run.op = "create" /\ run.way = "run" /\ Leads("fail", 1)
      \/ ~(run.op = "create") /\ run.way = "run" /\ Leads("rollback", 0)
      \/ ~(run.way = "run") /\ Leads("mark", 0)
  <2>1. \/ run' = AtStep("stop", run.n - 1) \/ run' = AtStep("quiet", 0) \/ FailsAfter(0)
    BY DEF StopWorld
  <2>2. CASE run' = AtStep("stop", run.n - 1)
    BY <2>2, StepGoes
  <2>3. CASE run' = AtStep("quiet", 0)
    BY <2>3, StepGoes
  <2>4. CASE FailsAfter(0)
    BY <2>4, StepGoes DEF FailsAfter
  <2> QED
    BY <2>1, <2>2, <2>3, <2>4
<1> HIDE DEF Leads
<1>6. \E at \in {"stop", "quiet", "fail", "rollback", "mark"}, n \in Int :
        /\ Leads(at, n)
        /\ at = "fail" => run.op = "create" /\ run.way = "run"
        /\ at = "rollback" => ~(run.op = "create") /\ run.way = "run"
        /\ at \in {"rollback", "mark"} => n = 0
        /\ at = "mark" => ~(run.way = "run")
  <2>1. CASE Leads("stop", run.n - 1)
    BY <1>2, <2>1
  <2>2. CASE Leads("quiet", 0)
    BY <1>2, <2>2
  <2>3. CASE run.op = "create" /\ run.way = "run" /\ Leads("fail", 1)
    BY <1>2, <2>3
  <2>4. CASE ~(run.op = "create") /\ run.way = "run" /\ Leads("rollback", 0)
    BY <1>2, <2>4
  <2>5. CASE ~(run.way = "run") /\ Leads("mark", 0)
    BY <1>2, <2>5
  <2> QED
    BY <1>5, <2>1, <2>2, <2>3, <2>4, <2>5
<1> QED
  BY <1>1, <1>4, <1>6 DEF Leads

LEMMA SameRows ==
    ASSUME BackupInv, SaveInv, run.op \in Kinds, NoSave
    PROVE  /\ Row' = Row /\ table'["restore"] = table["restore"] /\ \A k \in Kinds : table'[k] = table[k]
           /\ table'[run.op] # NoOp /\ table'[run.op].was = table[run.op].was
           /\ table'[run.op].status = table[run.op].status
  BY DEF NoSave, SaveInv, DueInv, Row

LEMMA StopWorldSaves1 ==
    ASSUME BackupInv, SaveInv, StopWorld, run.op = "create"
    PROVE  SaveInv'
<1>1. run.at = "stop" /\ NoSave /\ Around /\ backup' = backup
  BY StopWorldGoes
<1>2. run.way = "run" /\ run.phase \notin Forward \cup Returned /\ backup.status = "creating"
  <2>1. run.way \in {"run", "recover"}
    BY WorldAt DEF Runs
  <2> QED
    BY <1>1, <2>1 DEF SaveInv, StepInv, CopyInv, Ways
<1>3. PICK at \in {"stop", "quiet", "fail", "rollback", "mark"}, n \in Int :
         /\ Goes(at, n, run.phase, run.status, run.bad)
         /\ at \notin {"rollback", "mark"}
  BY <1>2, StopWorldGoes
<1>4. /\ Steady /\ BacksStay /\ Mild
      /\ \A v \in Parts : node'[v].due \in {node[v].due, "no"} \/ (run.at = "stop" /\ node'[v].due = run.op)
  BY <1>1, StopWorldGoes, CallsOrNone
<1>5. /\ table'["restore"] = table["restore"]
      /\ table'["create"] # NoOp /\ table'["create"].was = table["create"].was
      /\ table'["create"].status = table["create"].status
  BY <1>1, SameRows DEF Kinds
<1>6. CopyInv'
  <2>1. run'.at # "stage"
    BY <1>3 DEF Goes
  <2> QED
    BY <1>1, <1>2, <2>1, CopyStays DEF Around
<1>7. at \in {"stop", "quiet", "stage", "fail", "restart", "mark"}
  BY <1>3
<1> QED
  BY <1>1, <1>2, <1>3, <1>4, <1>5, <1>6, <1>7, CreateGoes

\* Where AllQuiet leads.
LEMMA AllQuietGoes ==
    ASSUME BackupInv, AllQuiet
    PROVE  /\ run.at = "quiet" /\ NoSave /\ NoNode /\ Around /\ backup' = backup
           /\ \E at \in {"stage", "transfer", "restart", "fail", "rollback", "mark"}, n \in Int :
                 /\ Goes(at, n, run.phase, run.status, run.bad)
                 /\ at \in {"fail", "stage"} => run.op = "create" /\ run.way # "recover"
                 /\ at = "transfer" => ~(run.op = "create") /\ ~(run.way = "recover") /\ n = 1
                 /\ at = "restart" => run.op = "restore" /\ run.way = "run" /\ n = 1
                 /\ at = "rollback" => (run.way = "recover" \/ ~(run.op = "create"))
                                       /\ n = IF run.way = "recover" THEN LastPart ELSE 0
                 /\ at = "stage" => n = 1
                 /\ at = "mark" => ~(run.way = "run")
<1>1. run.at = "quiet" /\ NoSave /\ NoNode /\ Around /\ backup' = backup
  BY DEF AllQuiet
<1>2. 0 \in Int /\ 1 \in Int /\ LastPart \in Int
  BY WorldAt
<1> DEFINE Leads(at, n) == Goes(at, n, run.phase, run.status, run.bad)
<1>3. \/ run.op = "create" /\ run.way = "run" /\ Leads("fail", 1)
      \/ ~(run.op = "create") /\ run.way = "run" /\ Leads("rollback", 0)
      \/ ~(run.way = "run") /\ Leads("mark", 0)
      \/ run.way = "recover" /\ Leads("rollback", LastPart)
      \/ run.op = "create" /\ run.way # "recover" /\ Leads("stage", 1)
      \/ ~(run.op = "create") /\ run.way # "recover" /\ Leads("transfer", 1)
      \/ run.op = "restore" /\ run.way = "run" /\ Leads("restart", 1)
  <2>1. \/ FailsAfter(0)
        \/ run' = IF run.way = "recover" THEN AtStep("rollback", LastPart)
                  ELSE IF run.op = "create" THEN AtStep("stage", 1) ELSE AtStep("transfer", 1)
        \/ run.op = "restore" /\ run.way = "run" /\ run' = AtStep("restart", 1)
    BY DEF AllQuiet
  <2>2. CASE FailsAfter(0)
    BY <2>2, StepGoes DEF FailsAfter
  <2>3. CASE run' = IF run.way = "recover" THEN AtStep("rollback", LastPart)
                    ELSE IF run.op = "create" THEN AtStep("stage", 1) ELSE AtStep("transfer", 1)
    BY <2>3, StepGoes
  <2>4. CASE run.op = "restore" /\ run.way = "run" /\ run' = AtStep("restart", 1)
    BY <2>4, StepGoes
  <2> QED
    BY <2>1, <2>2, <2>3, <2>4
<1> HIDE DEF Leads
<1>4. \E at \in {"stage", "transfer", "restart", "fail", "rollback", "mark"}, n \in Int :
         /\ Leads(at, n)
         /\ at \in {"fail", "stage"} => run.op = "create" /\ run.way # "recover"
         /\ at = "transfer" => ~(run.op = "create") /\ ~(run.way = "recover") /\ n = 1
         /\ at = "restart" => run.op = "restore" /\ run.way = "run" /\ n = 1
         /\ at = "rollback" => (run.way = "recover" \/ ~(run.op = "create"))
                               /\ n = IF run.way = "recover" THEN LastPart ELSE 0
         /\ at = "stage" => n = 1
         /\ at = "mark" => ~(run.way = "run")
  <2>1. CASE run.op = "create" /\ run.way = "run" /\ Leads("fail", 1)
    BY <1>2, <2>1
  <2>2. CASE ~(run.op = "create") /\ run.way = "run" /\ Leads("rollback", 0)
    BY <1>2, <2>2
  <2>3. CASE ~(run.way = "run") /\ Leads("mark", 0)
    BY <1>2, <2>3
  <2>4. CASE run.way = "recover" /\ Leads("rollback", LastPart)
    BY <1>2, <2>4
  <2>5. CASE run.op = "create" /\ run.way # "recover" /\ Leads("stage", 1)
    BY <1>2, <2>5
  <2>6. CASE ~(run.op = "create") /\ run.way # "recover" /\ Leads("transfer", 1)
    BY <1>2, <2>6
  <2>7. CASE run.op = "restore" /\ run.way = "run" /\ Leads("restart", 1)
    BY <1>2, <2>7
  <2> QED
    BY <1>3, <2>1, <2>2, <2>3, <2>4, <2>5, <2>6, <2>7
<1> QED
  BY <1>1, <1>4 DEF Leads

LEMMA AllQuietSaves1 ==
    ASSUME BackupInv, SaveInv, AllQuiet, run.op = "create"
    PROVE  SaveInv'
<1>1. run.at = "quiet" /\ NoSave /\ NoNode /\ Around /\ backup' = backup
  BY AllQuietGoes
<1>2. run.way = "run" /\ backup.status = "creating"
  <2>1. run.way \in {"run", "recover"}
    BY WorldAt DEF Runs
  <2> QED
    BY <1>1, <2>1 DEF SaveInv, StepInv, CopyInv, Ways
<1>3. PICK at \in {"stage", "transfer", "restart", "fail", "rollback", "mark"}, n \in Int :
         /\ Goes(at, n, run.phase, run.status, run.bad)
         /\ at \in {"stage", "fail"} /\ (at = "stage" => n = 1)
  BY <1>2, AllQuietGoes
<1>4. Steady /\ BacksStay /\ Mild /\ \A v \in Parts : node'[v].due = node[v].due
  BY <1>1, StillSteady, StillMild DEF NoNode
<1>5. /\ table'["restore"] = table["restore"]
      /\ table'["create"] # NoOp /\ table'["create"].was = table["create"].was
      /\ table'["create"].status = table["create"].status
  BY <1>1, SameRows DEF Kinds
<1>6. CopyInv'
  <2>1. run'.at = "stage" => run'.n = 1
    BY <1>3 DEF Goes
  <2>2. \A w \in Parts : ~(w < 1)
    BY DEF Parts
  <2>3. backup'.status = "creating"
    BY <1>1, <1>2
  <2> QED
    BY <2>1, <2>2, <2>3 DEF CopyInv
<1> QED
  BY <1>1, <1>2, <1>3, <1>4, <1>5, <1>6, CreateGoes

LEMMA StagePartSaves ==
    ASSUME BackupInv, SaveInv, StagePart
    PROVE  SaveInv'
<1>1. run.at = "stage" /\ run.op = "create" /\ run.way = "run" /\ NoSave /\ Around /\ run.n \in Int
  BY WorldAt DEF SaveInv, StepInv, StagePart
<1>2. backup.status = "creating"
  BY <1>1 DEF SaveInv, CopyInv
<1>3. /\ table'["restore"] = table["restore"]
      /\ table'["create"] # NoOp /\ table'["create"].was = table["create"].was
      /\ table'["create"].status = table["create"].status
  BY <1>1, SameRows DEF Kinds
<1>4. node \in [Parts -> Nodes] /\ backup.parts \in [Parts -> SaveKinds \cup {"unsure"}]
      /\ backup \in [status : {"none", "creating", "verified", "failed"}, parts : [Parts -> SaveKinds \cup {"unsure"}]]
  BY DEF BackupInv, BackupTypeOK
<1>5. CASE /\ Becomes(run.n, node[run.n])
           /\ backup' = [backup EXCEPT !.parts[run.n] = IF Unfinished("restore") THEN "unsure" ELSE node[run.n].save]
           /\ run' = AtStep("stage", run.n + 1)
  <2>1. PICK w \in Parts : w = run.n
    <3>1. run.n <= LastPart /\ run.n >= 1
      BY <1>1 DEF StagePart, BackupInv, RunInv
    <3> QED
      BY <3>1, <1>1 DEF Parts
  <2>2. node' = node /\ deferred' \subseteq deferred
    BY <1>4, <1>5, <2>1 DEF Becomes
  <2>3. Steady /\ BacksStay /\ Mild
    BY <2>2, LessSteady
  <2>4. Goes("stage", run.n + 1, run.phase, run.status, run.bad)
    BY <1>5, StepGoes
  <2>5. CopyInv'
    <3> DEFINE copy == IF Unfinished("restore") THEN "unsure" ELSE node[w].save
    <3>1. PICK q : q = copy
      OBVIOUS
    <3>2. backup' = [backup EXCEPT !.parts = [backup.parts EXCEPT ![w] = q]]
      BY <1>5, <2>1, <3>1
    <3>3. backup'.status = "creating" /\ backup'.parts = [backup.parts EXCEPT ![w] = q]
      BY <1>2, <1>4, <3>2
    <3>4. backup'.parts[w] = q /\ \A v \in Parts : v # w => backup'.parts[v] = backup.parts[v]
      BY <1>4, <3>3
    <3>5. Unfinished("restore")' = Unfinished("restore")
      BY <1>3 DEF Unfinished
    <3>6. ASSUME NEW v \in Parts, v < run.n + 1
          PROVE  backup'.parts[v] = "unsure" \/ (~Unfinished("restore")' /\ backup'.parts[v] = node'[v].save)
      <4>1. CASE v = w
        BY <2>2, <3>1, <3>4, <3>5, <4>1
      <4>2. CASE v # w
        <5>1. v < run.n
          BY <1>1, <2>1, <3>6, <4>2 DEF Parts
        <5>2. backup.parts[v] = "unsure" \/ (~Unfinished("restore") /\ backup.parts[v] = node[v].save)
          BY <1>1, <5>1 DEF SaveInv, CopyInv
        <5> QED
          BY <2>2, <3>4, <3>5, <4>2, <5>2
      <4> QED
        BY <4>1, <4>2
    <3>7. run'.n = run.n + 1
      BY <2>4 DEF Goes
    <3> QED
      BY <3>3, <3>6, <3>7 DEF CopyInv
  <2>6. \A v \in Parts : node'[v].due = node[v].due
    BY <2>2
  <2> QED
    BY <1>1, <1>3, <2>3, <2>4, <2>5, <2>6, CreateGoes
<1>6. CASE NoNode /\ UNCHANGED backup /\ FailsAfter(0)
  <2>1. Goes("fail", 1, run.phase, run.status, run.bad)
    BY <1>1, <1>6, StepGoes DEF FailsAfter
  <2>2. Steady /\ BacksStay /\ Mild /\ \A v \in Parts : node'[v].due = node[v].due
    BY <1>6, StillSteady, StillMild DEF NoNode
  <2>3. CopyInv'
    <3>1. run'.at = "fail"
      BY <2>1 DEF Goes
    <3> QED
      BY <1>1, <1>6, <3>1, CopyStays DEF Around
  <2> QED
    BY <1>1, <1>3, <2>1, <2>2, <2>3, CreateGoes
<1> QED
  BY <1>5, <1>6 DEF StagePart

\* Without a restore that is open the worlds are of one generation.
LEMMA SettledSaves ==
    ASSUME BackupInv, SaveInv, ~Unfinished("restore")
    PROVE  \/ \A w \in Parts : Back(w) /\ node[w].save = "old"
           \/ \A w \in Parts : node[w].rcpt = "completed" /\ node[w].save \in {"new"} \cup Tainted
<1>1. \A w \in Parts : node[w].rcpt = "none" => node[w].save = "old"
  BY DEF SaveInv, Shape
<1>2. Row \in OpRows \cup {NoOp}
  BY DEF BackupInv, BackupTypeOK, Row, Kinds
<1>3. CASE Row = NoOp
  <2>1. \A w \in Parts : node[w].rcpt = "none" /\ node[w].desc = "none"
    BY <1>3 DEF SaveInv, SendInv
  <2> QED
    BY <1>1, <2>1 DEF Back
<1>4. CASE Row.status = "rolled_back"
  <2>1. AllBack
    BY <1>4 DEF SaveInv, CompleteInv, BackInv
  <2> QED
    BY <1>1, <2>1 DEF AllBack, Back
<1>5. CASE Row.status = "succeeded"
  <2>1. Row.phase = "completed" /\ \A w \in Parts : node[w].rcpt = "completed"
    BY <1>5 DEF SaveInv, CompleteInv
  <2>2. CASE outdated
    <3>1. \A w \in Parts : node[w].save \in {"new", "torn"}
      BY <2>1 DEF SaveInv, Shape
    <3> QED
      BY <2>1, <2>2, <3>1 DEF Tainted
  <2>3. CASE ~outdated
    <3>1. \A w \in Parts : Renewed(node[w])
      BY <2>1, <2>3 DEF SaveInv, AheadInv, Ahead, Forward
    <3> QED
      BY <2>1, <3>1 DEF Renewed
  <2> QED
    BY <2>2, <2>3
<1>6. Row # NoOp => Row.status \in {"succeeded", "rolled_back"}
  <2>1. Row # NoOp => Row.status \in StatusNames
    BY <1>2 DEF OpRows
  <2>2. Row.status # "failed" /\ Row.status \notin {"running", "recovery"}
    BY DEF SaveInv, CompleteInv, Unfinished, Row
  <2> QED
    BY <2>1, <2>2 DEF StatusNames
<1> QED
  BY <1>3, <1>4, <1>5, <1>6

LEMMA AllCopied ==
    ASSUME BackupInv, SaveInv, run.at = "stage", run.n > LastPart, Sure
    PROVE  \E content \in {"old", "new"} : \A w \in Parts : backup.parts[w] \in {content} \cup Tainted
<1>1. \A w \in Parts : w < run.n
  <2>1. run.n \in Int /\ LastPart \in Int
    BY WorldAt
  <2> QED
    BY <2>1 DEF Parts
<1>2. \A w \in Parts : ~Unfinished("restore") /\ backup.parts[w] = node[w].save
  BY <1>1 DEF SaveInv, CopyInv, Sure
<1>3. 1 \in Parts
  BY BackupAssumption DEF Parts
<1>4. \/ \A w \in Parts : node[w].save = "old"
      \/ \A w \in Parts : node[w].save \in {"new"} \cup Tainted
  BY <1>2, <1>3, SettledSaves
<1> QED
  BY <1>2, <1>4

LEMMA EndedFacts ==
    ASSUME BackupInv, SaveInv, run.op = "create", table' \in {table, Ended}
    PROVE  /\ table'["restore"] = table["restore"]
           /\ table'["create"] # NoOp /\ table'["create"].was = table["create"].was
           /\ table'["create"].status = table["create"].status
                \/ table'["create"].status \notin {"succeeded", "rolled_back"}
<1>1. "create" \in Kinds /\ "restore" \in Kinds
  BY DEF Kinds
<1>2. table \in [Kinds -> OpRows \cup {NoOp}] /\ table["create"] # NoOp
  BY <1>1 DEF BackupInv, BackupTypeOK, SaveInv, DueInv
<1>3. table["create"] \in OpRows
  BY <1>1, <1>2
<1> DEFINE row == [table["create"] EXCEPT !.phase = "failed", !.status = "failed"]
<1>4. Ended = [table EXCEPT !["create"] = row]
  BY <1>2 DEF Ended
<1>5. row \in OpRows /\ row.was = table["create"].was /\ row.status = "failed"
  BY <1>3 DEF OpRows, PhaseNames, StatusNames
<1> HIDE DEF row
<1> QED
  BY <1>1, <1>2, <1>4, <1>5, RowIsNew

LEMMA FinalizeSaves ==
    ASSUME BackupInv, SaveInv, Finalize
    PROVE  SaveInv'
<1>1. run.at = "stage" /\ run.op = "create" /\ NoNode /\ Around /\ run.n > LastPart
  BY DEF SaveInv, StepInv, Finalize
<1>2. Steady /\ BacksStay /\ Mild /\ \A v \in Parts : node'[v].due = node[v].due
  BY <1>1, StillSteady, StillMild DEF NoNode
<1>3. table \in [Kinds -> OpRows \cup {NoOp}] /\ table["create"] # NoOp /\ run.op \in Kinds
  BY <1>1 DEF BackupInv, BackupTypeOK, SaveInv, DueInv, Kinds
<1>4. /\ table'["restore"] = table["restore"]
      /\ table'["create"] # NoOp /\ table'["create"].was = table["create"].was
      /\ table'["create"].status = table["create"].status
           \/ table'["create"].status \notin {"succeeded", "rolled_back"}
  <2>1. CASE table' \in {table, Ended}
    BY <1>1, <2>1, EndedFacts
  <2>2. CASE \E ok \in BOOLEAN : Saves("resuming", "running", ok)
    <3>1. "resuming" \in PhaseNames /\ "running" \in StatusNames
      BY DEF PhaseNames, StatusNames
    <3>2. PICK ok \in BOOLEAN : Saves("resuming", "running", ok)
      BY <2>2
    <3>3. /\ \A k \in Kinds : k # run.op => table'[k] = table[k]
          /\ table'[run.op] # NoOp /\ table'[run.op].was = table[run.op].was
          /\ IF ok THEN table'[run.op].phase = "resuming" /\ table'[run.op].status = "running"
             ELSE table' = table
      BY <1>3, <3>1, <3>2, SaveRows
    <3> QED
      BY <1>1, <3>3 DEF Kinds
  <2> QED
    BY <2>1, <2>2 DEF Finalize
<1>5. PICK phase, status : Goes("restart", 1, phase, status, run.bad)
  <2>1. run' = AtStep("restart", 1) => Goes("restart", 1, run.phase, run.status, run.bad)
    BY StepGoes
  <2>2. run' = Headed("restart", 1, "resuming", "running") => Goes("restart", 1, "resuming", "running", run.bad)
    BY HeadGoes
  <2>3. run' = AtStep("restart", 1) \/ run' = Headed("restart", 1, "resuming", "running")
    BY DEF Finalize
  <2> QED
    BY <2>1, <2>2, <2>3
<1>6. CopyInv'
  <2>1. backup'.parts = backup.parts
    <3>1. backup' = backup \/ backup' = [backup EXCEPT !.status = "verified"]
      BY DEF Finalize
    <3> QED
      BY <3>1 DEF BackupInv, BackupTypeOK
  <2>2. Sure' => Sure /\ Tainted' = Tainted
    BY <1>1, <2>1 DEF Sure, Tainted, Around
  <2>3. Sure' => \E content \in {"old", "new"} : \A w \in Parts : backup'.parts[w] \in {content} \cup Tainted'
    BY <1>1, <2>1, <2>2, AllCopied
  <2>4. run'.at = "restart"
    BY <1>5 DEF Goes
  <2> QED
    BY <2>3, <2>4 DEF CopyInv
<1> QED
  BY <1>1, <1>2, <1>4, <1>5, <1>6, CreateGoes

LEMMA DropFacts ==
    ASSUME BackupInv
    PROVE  Dropped.parts = backup.parts /\ Dropped.status = "failed"
  BY DEF Dropped, BackupInv, BackupTypeOK

LEMMA FailCreateSaves ==
    ASSUME BackupInv, SaveInv, FailCreate
    PROVE  SaveInv'
<1>1. run.at = "fail" /\ run.op = "create" /\ NoNode /\ Around /\ run.op \in Kinds
  BY DEF SaveInv, StepInv, FailCreate, Kinds
<1>2. Steady /\ BacksStay /\ Mild /\ \A v \in Parts : node'[v].due = node[v].due
  BY <1>1, StillSteady, StillMild DEF NoNode
<1>3. /\ table'["restore"] = table["restore"]
      /\ table'["create"] # NoOp /\ table'["create"].was = table["create"].was
      /\ table'["create"].status = table["create"].status
           \/ table'["create"].status \notin {"succeeded", "rolled_back"}
  <2>1. table' \in {table, Ended}
    BY DEF FailCreate
  <2> QED
    BY <1>1, <2>1, EndedFacts
<1>4. backup'.parts = backup.parts /\ (backup'.status = "verified" => backup.status = "verified")
  <2>1. backup' = Dropped \/ backup' = backup
    BY DEF FailCreate
  <2> QED
    BY <2>1, DropFacts
<1>5. CASE run' = AtStep("restart", 1)
  <2>1. Goes("restart", 1, run.phase, run.status, run.bad)
    BY <1>5, StepGoes
  <2>2. CopyInv'
    <3>1. run'.at = "restart"
      BY <2>1 DEF Goes
    <3> QED
      BY <1>1, <1>4, <3>1, CopyStays DEF Around
  <2> QED
    BY <1>1, <1>2, <1>3, <2>1, <2>2, CreateGoes
<1>6. CASE run' = FreeRoom
  <2>0. run'.at = "idle" /\ run'.op = "none" /\ run'.way = "run" /\ ~run'.bad /\ run'.phase = "none"
    BY <1>6, FreeGoes
  <2>1. SendInv' /\ BackInv' /\ AheadInv' /\ CompleteInv'
    <3>1. Row' = Row /\ pleas' \subseteq pleas /\ outdated \in BOOLEAN /\ (outdated => outdated')
      BY <1>1, <1>3 DEF Row, Around, BackupInv, BackupTypeOK
    <3> QED
      BY <1>1, <1>2, <2>0, <3>1, Aside
  <2>2. StepInv'
    BY <2>0 DEF StepInv, Ways
  <2>3. CopyInv'
    BY <1>1, <1>4, <2>0, CopyStays DEF Around
  <2>4. DueInv'
    <3>1. \A k \in Kinds : k # run.op => table'[k] = table[k]
      BY <1>1, <1>3 DEF Kinds
    <3> QED
      BY <1>1, <1>2, <1>3, <2>0, <3>1, DueStays
  <2> QED
    BY <1>2, <2>1, <2>2, <2>3, <2>4, Assemble
<1> QED
  BY <1>5, <1>6 DEF FailCreate

\* A world more is started, or was not to be.
LEMMA RestartGoes ==
    ASSUME BackupInv, SaveInv, RestartWorld
    PROVE  /\ run.at = "restart" /\ run.op \in Kinds /\ NoSave /\ Around /\ backup' = backup
           /\ (run.n \in Parts /\ (Done(run.n) \/ NotDone(run.n))) \/ NoNode
           /\ \E bad \in BOOLEAN : (run.bad => bad) /\ Goes("restart", run.n + 1, run.phase, run.status, bad)
           /\ DueInv'
<1>1. run.at = "restart" /\ run.op \in Kinds /\ NoSave /\ Around /\ backup' = backup /\ run.n \in Int
  BY WorldAt DEF RestartWorld, BackupInv, RunInv
<1>2. PICK w \in Parts : w = run.n
  <2>1. run.n <= LastPart /\ run.n # 0
    BY <1>1, WorldAt DEF RestartWorld, BackupInv, RunInv
  <2> QED
    BY <2>1, WorldAt
<1>3. (Done(w) \/ NotDone(w)) \/ NoNode
  BY <1>2 DEF RestartWorld
<1>4. PICK bad \in BOOLEAN :
        /\ run.bad => bad
        /\ Goes("restart", run.n + 1, run.phase, run.status, bad)
        /\ bad \/ (w \in run.was => Done(w))
  <2>1. run.bad \in BOOLEAN
    BY WorldAt DEF Runs
  <2>2. CASE run' = AtStep("restart", run.n + 1) /\ (w \in run.was => Done(w))
    <3>1. Goes("restart", run.n + 1, run.phase, run.status, run.bad)
      BY <2>2, StepGoes
    <3> QED
      BY <2>1, <2>2, <3>1
  <2>3. CASE run' = [AtStep("restart", run.n + 1) EXCEPT !.bad = TRUE]
    <3>1. Goes("restart", run.n + 1, run.phase, run.status, TRUE)
      BY <2>3, StepGoes
    <3> QED
      BY <3>1
  <2> QED
    BY <1>2, <2>2, <2>3 DEF RestartWorld
<1>5. \A v \in Parts : node'[v].due \in {node[v].due, "no"}
  BY <1>1, <1>2, <1>3, CallsOrNone
<1>6. Done(w) => node'[w].due = "no"
  BY <1>1, <1>2, CallSummary, StepNames
<1>7. /\ run'.op = run.op /\ run'.was = run.was /\ run'.n = run.n + 1 /\ run'.bad = bad /\ run'.at = "restart"
      /\ pleas' = pleas /\ outdated' = outdated /\ table' = table
  BY <1>1, <1>4 DEF Goes, Around, NoSave
<1>8. "no" \notin Kinds /\ run.was \subseteq Parts /\ \A k \in Kinds : table[k] # NoOp => table[k].was \subseteq Parts
  <2>1. run.was \subseteq Parts
    BY WorldAt DEF Runs
  <2>2. \A k \in Kinds : table[k] # NoOp => table[k].was \subseteq Parts
    BY DEF BackupInv, BackupTypeOK, OpRows
  <2> QED
    BY <2>1, <2>2 DEF Kinds
<1>9. ASSUME ~bad, NEW v \in run.was, v < run.n + 1 PROVE node'[v].due # run.op
  <2>1. CASE v = w
    BY <1>1, <1>4, <1>6, <1>8, <1>9, <2>1
  <2>2. CASE v # w
    <3>1. v \in Parts /\ v < run.n
      BY <1>1, <1>2, <1>8, <1>9, <2>2 DEF Parts
    <3>2. node[v].due # run.op
      BY <1>1, <1>4, <1>9, <3>1 DEF SaveInv, DueInv
    <3> QED
      BY <1>1, <1>5, <1>8, <3>1, <3>2
  <2> QED
    BY <2>1, <2>2
<1>10. ASSUME ~outdated', NEW k \in Kinds, table'[k].status \in {"succeeded", "rolled_back"}
       PROVE  run'.op # k /\ \A v \in table'[k].was : node'[v].due # k
  <2>1. run.op # k /\ \A v \in table[k].was : node[v].due # k
    BY <1>7, <1>10 DEF SaveInv, DueInv
  <2>2. table[k] # NoOp
    BY <1>7, <1>10 DEF NoOp
  <2> QED
    BY <1>5, <1>7, <1>8, <2>1, <2>2
<1>11. DueInv'
  <2>1. run'.op \in Kinds => table'[run'.op] # NoOp /\ run'.was = table'[run'.op].was
    BY <1>7 DEF SaveInv, DueInv
  <2>2. \A p \in pleas' : table'[p.op] # NoOp /\ p.row.was = table'[p.op].was
    BY <1>7 DEF SaveInv, DueInv
  <2>3. run'.at = "restart" /\ ~run'.bad => \A v \in run'.was : v < run'.n => node'[v].due # run'.op
    BY <1>7, <1>9
  <2> QED
    BY <1>10, <2>1, <2>2, <2>3 DEF DueInv
<1> QED
  BY <1>1, <1>2, <1>3, <1>4, <1>11

LEMMA RestartSaves1 ==
    ASSUME BackupInv, SaveInv, RestartWorld, run.op = "create"
    PROVE  SaveInv'
<1>1. /\ run.at = "restart" /\ NoSave /\ Around /\ backup' = backup /\ DueInv'
      /\ (run.n \in Parts /\ (Done(run.n) \/ NotDone(run.n))) \/ NoNode
  BY RestartGoes
<1>2. Steady /\ BacksStay /\ Mild
  BY <1>1, CallsOrNone
<1>3. run'.at = "restart" /\ run'.op = "create"
  BY RestartGoes DEF Goes
<1>4. StepInv'
  BY <1>3 DEF StepInv, Ways
<1>5. SendInv' /\ BackInv' /\ AheadInv' /\ CompleteInv'
  <2>1. Row' = Row /\ pleas' \subseteq pleas /\ outdated \in BOOLEAN /\ (outdated => outdated')
    BY <1>1 DEF NoSave, Row, Around, BackupInv, BackupTypeOK
  <2> QED
    BY <1>2, <1>3, <2>1, Aside
<1>6. CopyInv'
  BY <1>1, <1>3, CopyStays DEF Around
<1> QED
  BY <1>1, <1>2, <1>4, <1>5, <1>6, Assemble

\* An operation ends when all its worlds were started.
LEMMA DueEnds ==
    ASSUME BackupInv, SaveInv, Around, NoNode, run.at = "restart", run.n > LastPart, ~run.bad,
           run.op \in Kinds, run' = FreeRoom,
           \A k \in Kinds : k # run.op => table'[k] = table[k],
           table'[run.op] # NoOp, table'[run.op].was = table[run.op].was
    PROVE  DueInv'
<1>1. run'.at = "idle" /\ run'.op = "none" /\ "none" \notin Kinds
  BY FreeGoes DEF Kinds
<1>2. pleas' = pleas /\ outdated' = outdated /\ node' = node
  BY DEF Around, NoNode
<1>3. \A p \in pleas' : table'[p.op] # NoOp /\ p.row.was = table'[p.op].was
  <2>1. \A p \in pleas : p.op \in Kinds
    BY DEF BackupInv, BackupTypeOK
  <2> QED
    BY <1>2, <2>1 DEF SaveInv, DueInv
<1>4. \A w \in run.was : node[w].due # run.op
  <2>1. run.n \in Int /\ LastPart \in Int /\ run.was \subseteq Parts
    BY WorldAt DEF Runs
  <2>2. \A w \in run.was : w < run.n
    BY <2>1 DEF Parts
  <2> QED
    BY <2>2 DEF SaveInv, DueInv
<1>5. table[run.op].was = run.was
  BY DEF SaveInv, DueInv
<1>6. ASSUME ~outdated', NEW k \in Kinds, table'[k].status \in {"succeeded", "rolled_back"}
      PROVE  run'.op # k /\ \A w \in table'[k].was : node'[w].due # k
  <2>1. CASE k = run.op
    BY <1>1, <1>2, <1>4, <1>5, <2>1
  <2>2. CASE k # run.op
    <3>1. \A w \in table[k].was : node[w].due # k
      BY <1>2, <1>6, <2>2 DEF SaveInv, DueInv
    <3> QED
      BY <1>1, <1>2, <2>2, <3>1
  <2> QED
    BY <2>1, <2>2
<1> QED
  BY <1>1, <1>3, <1>6 DEF DueInv

\* What the last step of the restarts does with the room, the row and the set.
LEMMA ResumedGoes ==
    ASSUME BackupInv, Resumed
    PROVE  /\ run.at = "restart" /\ run.op \in Kinds /\ run.n > LastPart /\ NoNode /\ Around
           /\ backup'.parts = backup.parts /\ (backup'.status = "verified" => backup.status = "verified")
           /\ run.op # "create" => backup' = backup
           /\ \/ NoSave /\ Goes("mark", 0, run.phase, run.status, run.bad)
              \/ NoSave /\ run' = FreeRoom
              \/ /\ ~run.bad /\ run' = FreeRoom
                 /\ ~(run.way = "run" /\ (run.status # "running" \/ run.phase = "open"))
                 /\ \E ok \in BOOLEAN :
                      \/ run.op = "create" /\ Saves("recovered", "failed", ok)
                      \/ run.phase = "rollback_completed" /\ Saves("recovered", "rolled_back", ok)
                      \/ run.phase # "rollback_completed" /\ Saves("completed", "succeeded", ok)
<1>1. run.at = "restart" /\ run.op \in Kinds /\ run.n > LastPart /\ NoNode /\ Around
  BY DEF Resumed, BackupInv, RunInv
<1>2. backup' = backup \/ (run.op = "create" /\ backup' = Dropped)
  BY DEF Resumed
<1>3. backup'.parts = backup.parts /\ (backup'.status = "verified" => backup.status = "verified")
  BY <1>2, DropFacts
<1>4. run' = AtStep("mark", 0) => Goes("mark", 0, run.phase, run.status, run.bad)
  BY StepGoes
<1>5. \/ NoSave /\ run' = AtStep("mark", 0)
      \/ NoSave /\ run' = FreeRoom
      \/ /\ ~run.bad /\ run' = FreeRoom
         /\ ~(run.way = "run" /\ (run.status # "running" \/ run.phase = "open"))
         /\ \E ok \in BOOLEAN :
              \/ run.op = "create" /\ Saves("recovered", "failed", ok)
              \/ run.phase = "rollback_completed" /\ Saves("recovered", "rolled_back", ok)
              \/ run.phase # "rollback_completed" /\ Saves("completed", "succeeded", ok)
  BY DEF Resumed
<1> QED
  BY <1>1, <1>2, <1>3, <1>4, <1>5

LEMMA EndNames ==
    /\ {"recovered", "completed", "rollback_completed", "open", "published", "resuming"} \subseteq PhaseNames
    /\ {"failed", "rolled_back", "succeeded", "recovery", "running"} \subseteq StatusNames
  BY DEF PhaseNames, StatusNames

LEMMA ResumedSaves1 ==
    ASSUME BackupInv, SaveInv, Resumed, run.op = "create"
    PROVE  SaveInv'
<1>1. /\ run.at = "restart" /\ run.op \in Kinds /\ run.n > LastPart /\ NoNode /\ Around
      /\ backup'.parts = backup.parts /\ (backup'.status = "verified" => backup.status = "verified")
  BY ResumedGoes
<1>2. Steady /\ BacksStay /\ Mild /\ \A v \in Parts : node'[v].due = node[v].due
  BY <1>1, StillSteady, StillMild DEF NoNode
<1>3. CASE NoSave
  <2>1. /\ table'["restore"] = table["restore"]
        /\ table'["create"] = table["create"] /\ table'["create"] # NoOp
    BY <1>1, <1>3, SameRows DEF Kinds
  <2>2. CASE Goes("mark", 0, run.phase, run.status, run.bad)
    <3>1. run'.at = "mark"
      BY <2>2 DEF Goes
    <3>2. CopyInv'
      BY <1>1, <3>1, CopyStays DEF Around
    <3> QED
      BY <1>1, <1>2, <2>1, <2>2, <3>2, CreateGoes
  <2>3. CASE run' = FreeRoom
    BY <1>1, <2>1, <2>3, RoomFreed
  <2> QED
    BY <2>2, <2>3, ResumedGoes
<1>4. CASE /\ ~run.bad /\ run' = FreeRoom
           /\ \E ok \in BOOLEAN, phase \in PhaseNames, status \in StatusNames : Saves(phase, status, ok)
  <2>0. run'.at = "idle" /\ run'.op = "none" /\ run'.way = "run" /\ ~run'.bad /\ run'.phase = "none"
    BY <1>4, FreeGoes
  <2>1. /\ \A k \in Kinds : k # run.op => table'[k] = table[k]
        /\ table'[run.op] # NoOp /\ table'[run.op].was = table[run.op].was
    BY <1>1, <1>4, SaveRows
  <2>2. DueInv'
    BY <1>1, <1>4, <2>1, DueEnds
  <2>3. SendInv' /\ BackInv' /\ AheadInv' /\ CompleteInv'
    <3>1. Row' = Row /\ pleas' \subseteq pleas /\ outdated \in BOOLEAN /\ (outdated => outdated')
      BY <1>1, <2>1 DEF Kinds, Row, Around, BackupInv, BackupTypeOK
    <3> QED
      BY <1>1, <1>2, <2>0, <3>1, Aside
  <2>4. StepInv'
    BY <2>0 DEF StepInv, Ways
  <2>5. CopyInv'
    BY <1>1, <2>0, CopyStays DEF Around
  <2> QED
    BY <1>2, <2>2, <2>3, <2>4, <2>5, Assemble
<1> QED
  BY <1>3, <1>4, ResumedGoes, EndNames

LEMMA MarkSaves1 ==
    ASSUME BackupInv, SaveInv, Mark, run.op = "create"
    PROVE  SaveInv'
<1>1. run.at = "mark" /\ NoNode /\ Around /\ backup' = backup /\ run' = FreeRoom
  BY DEF Mark
<1>2. run.op \in Kinds /\ run.phase \in PhaseNames
  BY <1>1 DEF BackupInv, RunInv
<1>3. PICK ok \in BOOLEAN : Saves(run.phase, "recovery", ok)
  BY DEF Mark
<1>4. /\ \A k \in Kinds : k # run.op => table'[k] = table[k]
      /\ table'[run.op] # NoOp /\ table'[run.op].was = table[run.op].was
      /\ IF ok THEN table'[run.op].status = "recovery" ELSE table' = table
  BY <1>2, <1>3, SaveRows, EndNames
<1> QED
  BY <1>1, <1>2, <1>4, RoomFreed DEF Kinds

-----------------------------------------------------------------------------
(* The steps of a restore *)

\* A world of a restore is started when all are of one generation.
LEMMA RestartsWhole ==
    ASSUME SaveInv, run.op = "restore", run.at = "restart", ~outdated
    PROVE  AllBack \/ Ahead
<1>1. \/ run.phase \in Forward \cup {"rollback_completed"}
      \/ run.way = "run" /\ run.phase = "open"
  BY DEF SaveInv, StepInv
<1>2. run.phase \in Forward => Ahead
  BY DEF SaveInv, AheadInv
<1>3. run.phase = "rollback_completed" \/ run.phase = "open" => AllBack
  BY DEF SaveInv, BackInv, Returned
<1> QED
  BY <1>1, <1>2, <1>3

\* A step of the restore that saves nothing.
LEMMA RestoreGoes ==
    ASSUME BackupInv, SaveInv, run.op = "restore", Around, NoSave, run'.op = "restore", run'.phase = run.phase,
           AllBack => AllBack',
           ~outdated /\ Ahead => /\ \A w \in Parts : Renewed(node'[w])
                                 /\ \A c \in deferred' : c.op = "restore" => c.step \in {"stop", "complete", "restart"}
                                 /\ run'.at \in {"complete", "restart", "mark"},
           Started' => Started \/ run.at = "restart",
           run'.at = "rollback" /\ ~run'.bad => \A w \in Parts : w > run'.n => Back(w)',
           run'.at = "restart" /\ run.phase = "open" => AllBack'
    PROVE  BackInv' /\ AheadInv'
<1>1. Row' = Row /\ pleas' = pleas /\ outdated' = outdated /\ (Ahead' <=> Ahead)
  BY DEF NoSave, Row, Around, Ahead
<1>2. BackInv'
  <2>1. run'.op = "restore" /\ run'.phase \in Returned => AllBack'
    BY DEF SaveInv, BackInv
  <2>2. Row'.phase \in Returned => AllBack'
    BY <1>1 DEF SaveInv, BackInv
  <2>3. \A p \in pleas' : p.op = "restore" /\ p.row.phase \in Returned => AllBack'
    BY <1>1 DEF SaveInv, BackInv
  <2> QED
    BY <2>1, <2>2, <2>3 DEF BackInv
<1>3. AheadInv'
  <2> SUFFICES ASSUME ~outdated' PROVE AheadInv'
    BY DEF AheadInv
  <2>1. ~outdated
    BY <1>1
  <2>2. Ahead' <=> run'.phase \in Forward
    BY <1>1, <2>1 DEF SaveInv, AheadInv
  <2>3. Started' => AllBack' \/ Ahead'
    <3>1. Started => AllBack \/ Ahead
      BY <2>1 DEF SaveInv, AheadInv
    <3> QED
      BY <1>1, <2>1, <3>1, RestartsWhole
  <2>4. Ahead' => /\ \A w \in Parts : Renewed(node'[w])
                  /\ \A c \in deferred' : c.op = "restore" => c.step \in {"stop", "complete", "restart"}
                  /\ run'.op = "restore" => run'.at \in {"complete", "restart", "mark"}
    BY <1>1, <2>1
  <2> QED
    BY <2>2, <2>3, <2>4 DEF AheadInv
<1> QED
  BY <1>2, <1>3

\* The restore has its row.
LEMMA RestoreRow ==
    ASSUME BackupInv, SaveInv, run.op = "restore"
    PROVE  run.op \in Kinds /\ "restore" \in Kinds /\ table["restore"] # NoOp /\ Row # NoOp /\ Row \in OpRows
<1>1. run.op \in Kinds /\ "restore" \in Kinds
  BY DEF Kinds
<1>2. table["restore"] # NoOp /\ table["restore"] \in OpRows \cup {NoOp}
  BY <1>1 DEF SaveInv, DueInv, BackupInv, BackupTypeOK
<1> QED
  BY <1>1, <1>2 DEF Row

\* The verdicts do not change with a step that saves nothing.
LEMMA CompleteGoes ==
    ASSUME SaveInv, Steady, NoSave, Around, run'.phase = run.phase, run'.op = run.op,
           run'.at = "complete" /\ ~run'.bad => \A w \in Parts : w < run'.n => node'[w].rcpt = "completed",
           run'.at = "restart" /\ run'.phase \in Forward /\ ~run'.bad /\ (run'.way = "run" => run'.status = "running")
             => \A w \in Parts : node'[w].rcpt = "completed"
    PROVE  CompleteInv'
<1>1. Row' = Row /\ pleas' = pleas
  BY DEF NoSave, Row, Around
<1> QED
  BY <1>1 DEF SaveInv, CompleteInv, Steady

\* Who owes what, after a step of an operation that saves nothing.
LEMMA DueGoes ==
    ASSUME BackupInv, SaveInv, Around, NoSave, run.op \in Kinds, run'.op = run.op, run'.was = run.was,
           \A v \in Parts : node'[v].due \in {node[v].due, "no"} \/ (run.at = "stop" /\ node'[v].due = run.op),
           run'.at = "restart" => run'.n = 1
    PROVE  DueInv'
<1>1. \A k \in Kinds : k # run.op => table'[k] = table[k]
  BY SameRows
<1>2. table'[run.op] # NoOp /\ table'[run.op].was = table[run.op].was
  BY SameRows
<1>3. table'[run.op].status = table[run.op].status
  BY SameRows
<1> QED
  BY <1>1, <1>2, <1>3, DueStays

\* The worlds of a restore that has sent nothing are as they were.
LEMMA NothingSent ==
    ASSUME BackupInv, SaveInv, run.op = "restore", run.way = "run", run.at \in {"stop", "quiet"}, Mild
    PROVE  /\ Sending /\ ~AllBack
           /\ \A w \in Parts : node'[w].rcpt = "none" /\ node'[w].desc = "none"
           /\ \A w \in Parts : Back(w)'
<1>1. Sending
  BY DEF Sending, Ways
<1>2. \A w \in Parts : node[w].rcpt = "none" /\ node[w].desc = "none"
  BY <1>1 DEF SaveInv, SendInv
<1>3. \A w \in Parts : node'[w].rcpt = "none" /\ node'[w].desc = "none"
  BY <1>2 DEF Mild
<1> QED
  BY <1>1, <1>3 DEF AllBack, Back

LEMMA StopWorldSaves2 ==
    ASSUME BackupInv, SaveInv, StopWorld, run.op = "restore"
    PROVE  SaveInv'
<1>1. run.at = "stop" /\ NoSave /\ Around /\ backup' = backup
  BY StopWorldGoes
<1>2. /\ Steady /\ BacksStay /\ Mild
      /\ \A v \in Parts : node'[v].due \in {node[v].due, "no"} \/ (run.at = "stop" /\ node'[v].due = run.op)
  BY <1>1, StopWorldGoes, CallsOrNone
<1>3. PICK at \in {"stop", "quiet", "rollback", "mark"}, n \in Int :
         /\ Goes(at, n, run.phase, run.status, run.bad)
         /\ at = "rollback" => run.way = "run" /\ n = 0
  BY StopWorldGoes
<1>4. /\ run'.at = at /\ run'.n = n /\ run'.op = "restore" /\ run'.phase = run.phase /\ run'.way = run.way
      /\ run'.was = run.was
  BY <1>3 DEF Goes
<1>5. run.phase \notin Forward \cup Returned /\ (run.way = "run" => run.phase = "open")
  BY <1>1 DEF SaveInv, StepInv, Ways
<1>6. StepInv'
  BY <1>4, <1>5 DEF StepInv, Ways
<1>7. Sending' => run.way = "run" /\ Sending
  BY <1>1, <1>4 DEF Sending, Ways
<1>8. SendInv'
  <2>1. Row' = Row /\ Row # NoOp
    BY <1>1, RestoreRow DEF NoSave, Row
  <2>2. run'.at \notin {"transfer", "publish"}
    BY <1>4
  <2>3. Sending' => \A w \in Parts : node'[w].rcpt = "none" /\ node'[w].desc = "none"
    BY <1>1, <1>2, <1>7, NothingSent
  <2>4. Sending' => \A c \in deferred' : c.op = "restore" => c.step = "stop"
    BY <1>1, <1>2, <1>7 DEF SaveInv, SendInv, Mild
  <2> QED
    BY <2>1, <2>2, <2>3, <2>4 DEF SendInv
<1>9. BackInv' /\ AheadInv'
  <2>1. AllBack => AllBack'
    <3>1. Row' # NoOp
      BY <1>1, RestoreRow DEF NoSave, Row
    <3> QED
      BY <1>2, <1>7, <3>1, AllBackStays DEF AllBack
  <2>2. ~outdated => ~Ahead
    BY <1>1 DEF SaveInv, AheadInv
  <2>3. Started' => Started \/ run.at = "restart"
    BY <1>2 DEF Mild
  <2>4. run'.at = "rollback" => \A w \in Parts : Back(w)'
    BY <1>1, <1>2, <1>3, <1>4, NothingSent
  <2>5. run'.at # "restart"
    BY <1>4
  <2> QED
    BY <1>1, <1>4, <2>1, <2>2, <2>3, <2>4, <2>5, RestoreGoes
<1>10. CompleteInv'
  BY <1>1, <1>2, <1>4, CompleteGoes
<1>11. CopyInv'
  BY <1>1, <1>4, CopyStays DEF Around
<1>12. DueInv'
  BY <1>1, <1>2, <1>4, RestoreRow, DueGoes
<1> QED
  BY <1>2, <1>6, <1>8, <1>9, <1>10, <1>11, <1>12, Assemble

LEMMA AllQuietSaves2 ==
    ASSUME BackupInv, SaveInv, AllQuiet, run.op = "restore"
    PROVE  SaveInv'
<1>1. run.at = "quiet" /\ NoSave /\ NoNode /\ Around /\ backup' = backup
  BY AllQuietGoes
<1>2. Steady /\ BacksStay /\ Mild /\ \A v \in Parts : node'[v].due = node[v].due
  BY <1>1, StillSteady, StillMild DEF NoNode
<1>3. PICK at \in {"transfer", "restart", "rollback", "mark"}, n \in Int :
         /\ Goes(at, n, run.phase, run.status, run.bad)
         /\ at = "transfer" => run.way = "run" /\ n = 1
         /\ at = "restart" => run.way = "run" /\ n = 1
         /\ at = "rollback" => n = IF run.way = "recover" THEN LastPart ELSE 0
  <2>1. run.way \in {"run", "recover"}
    BY WorldAt DEF Runs
  <2> QED
    BY <2>1, AllQuietGoes
<1>4. /\ run'.at = at /\ run'.n = n /\ run'.op = "restore" /\ run'.phase = run.phase /\ run'.way = run.way
      /\ run'.was = run.was
  BY <1>3 DEF Goes
<1>5. run.phase \notin Forward \cup Returned /\ (run.way = "run" => run.phase = "open")
  BY <1>1 DEF SaveInv, StepInv, Ways
<1>6. StepInv'
  BY <1>3, <1>4, <1>5 DEF StepInv, Ways
<1>7. Row' = Row /\ Row # NoOp
  BY <1>1, RestoreRow DEF NoSave, Row
<1>8. Sending' => Sending /\ at = "transfer" /\ n = 1
  BY <1>1, <1>3, <1>4 DEF Sending, Ways
<1>9. run.way = "run" => /\ \A w \in Parts : node'[w].rcpt = "none" /\ node'[w].desc = "none"
                        /\ \A w \in Parts : Back(w)'
  BY <1>1, <1>2, NothingSent
<1>10. SendInv'
  <2>1. at = "transfer" => \A w \in Parts : ~(w < run'.n)
    BY <1>3, <1>4 DEF Parts
  <2>2. run'.at = "transfer" =>
          \A w \in Parts : node'[w].rcpt = "none" /\ node'[w].desc = IF w < run'.n THEN "prepared" ELSE "none"
    BY <1>3, <1>4, <1>9, <2>1
  <2>3. Sending' => \A c \in deferred' : c.op = "restore" => c.step = "stop"
    BY <1>1, <1>8 DEF SaveInv, SendInv, NoNode
  <2> QED
    BY <1>4, <1>7, <1>8, <2>2, <2>3 DEF SendInv
<1>11. BackInv' /\ AheadInv'
  <2>1. AllBack => AllBack'
    BY <1>2, <1>7, <1>8, AllBackStays DEF AllBack
  <2>2. ~outdated => ~Ahead
    BY <1>1 DEF SaveInv, AheadInv
  <2>3. Started' => Started \/ run.at = "restart"
    BY <1>1 DEF NoNode, Started
  <2>4. run'.at = "rollback" => \A w \in Parts : w > run'.n => Back(w)'
    <3>1. CASE run.way = "recover" /\ run'.at = "rollback"
      <4>1. run'.n = LastPart /\ LastPart \in Int
        BY <1>3, <1>4, <3>1, WorldAt
      <4> QED
        BY <4>1 DEF Parts
    <3>2. CASE run.way = "run"
      BY <1>9, <3>2
    <3>3. run.way \in {"run", "recover"}
      BY WorldAt DEF Runs
    <3> QED
      BY <3>1, <3>2, <3>3
  <2>5. run'.at = "restart" => AllBack'
    <3>1. run'.at = "restart" => run.way = "run" /\ ~Sending'
      BY <1>3, <1>4, <1>8
    <3> QED
      BY <1>7, <1>9, <3>1 DEF AllBack
  <2> QED
    BY <1>1, <1>4, <2>1, <2>2, <2>3, <2>4, <2>5, RestoreGoes
<1>12. CompleteInv'
  <2>1. run'.phase \notin Forward /\ run'.at # "complete"
    BY <1>4, <1>5
  <2> QED
    BY <1>1, <1>2, <1>4, <2>1, CompleteGoes
<1>13. CopyInv'
  BY <1>1, <1>4, CopyStays DEF Around
<1>14. DueInv'
  BY <1>1, <1>2, <1>3, <1>4, RestoreRow, DueGoes
<1> QED
  BY <1>2, <1>6, <1>10, <1>11, <1>12, <1>13, <1>14, Assemble

LEMMA RestartSaves2 ==
    ASSUME BackupInv, SaveInv, RestartWorld, run.op = "restore"
    PROVE  SaveInv'
<1>1. run.at = "restart" /\ NoSave /\ Around /\ backup' = backup /\ DueInv'
  BY RestartGoes
<1>2. Steady /\ BacksStay /\ Mild
  BY <1>1, RestartGoes, CallsOrNone
<1>3. PICK bad \in BOOLEAN : (run.bad => bad) /\ Goes("restart", run.n + 1, run.phase, run.status, bad)
  BY RestartGoes
<1>4. /\ run'.at = "restart" /\ run'.op = "restore" /\ run'.phase = run.phase /\ run'.way = run.way
      /\ run'.status = run.status /\ (run.bad => run'.bad)
  BY <1>3 DEF Goes
<1>5. StepInv'
  BY <1>1, <1>4 DEF SaveInv, StepInv, Ways
<1>6. Row' = Row /\ Row # NoOp /\ ~Sending'
  BY <1>1, <1>4, RestoreRow DEF NoSave, Row, Sending, Ways
<1>7. SendInv'
  BY <1>4, <1>6 DEF SendInv
<1>8. BackInv' /\ AheadInv'
  <2>1. AllBack => AllBack'
    BY <1>2, <1>6, AllBackStays
  <2>2. ~outdated /\ Ahead => /\ \A w \in Parts : Renewed(node'[w])
                              /\ \A c \in deferred' : c.op = "restore" => c.step \in {"stop", "complete", "restart"}
    BY <1>2 DEF SaveInv, AheadInv, Mild
  <2>3. run.phase = "open" => AllBack'
    BY <1>1, <2>1 DEF SaveInv, BackInv
  <2> QED
    BY <1>1, <1>4, <2>1, <2>2, <2>3, RestoreGoes
<1>9. CompleteInv'
  <2>1. run'.phase \in Forward /\ ~run'.bad /\ (run'.way = "run" => run'.status = "running")
          => \A w \in Parts : node'[w].rcpt = "completed"
    BY <1>1, <1>2, <1>4 DEF SaveInv, CompleteInv, Steady
  <2> QED
    BY <1>1, <1>2, <1>4, <2>1, CompleteGoes
<1>10. CopyInv'
  BY <1>1, <1>4, CopyStays DEF Around
<1> QED
  BY <1>1, <1>2, <1>5, <1>7, <1>8, <1>9, <1>10, Assemble

\* A restore gives up its way forward and rolls back the first n parts.
LEMMA TurnsBack ==
    ASSUME BackupInv, SaveInv, Sending, Steady, NoSave, Around, backup' = backup, NEW n \in Int,
           Goes("rollback", n, run.phase, run.status, run.bad),
           Started' => Started,
           \A v \in Parts : node'[v].due \in {node[v].due, "no"},
           \A v \in Parts : v > n => Back(v)'
    PROVE  SaveInv'
<1>1. run.op = "restore" /\ run.way = "run" /\ run.at \in Ways /\ run.phase = "open"
  BY DEF Sending, SaveInv, StepInv
<1>2. /\ run'.at = "rollback" /\ run'.n = n /\ run'.op = "restore" /\ run'.phase = run.phase
      /\ run'.way = "run" /\ run'.was = run.was
  BY <1>1 DEF Goes
<1>3. StepInv'
  BY <1>1, <1>2 DEF StepInv, Ways, Forward, Returned
<1>4. SendInv'
  <2>1. Row' = Row /\ Row # NoOp
    BY <1>1, RestoreRow DEF NoSave, Row
  <2> QED
    BY <1>2, <2>1 DEF SendInv, Sending, Ways
<1>5. BackInv' /\ AheadInv'
  <2>1. ~outdated => ~Ahead
    BY <1>1 DEF SaveInv, AheadInv, Ways
  <2>2. ~AllBack
    BY DEF AllBack
  <2> QED
    BY <1>1, <1>2, <2>1, <2>2, RestoreGoes
<1>6. CompleteInv'
  BY <1>1, <1>2, CompleteGoes
<1>7. CopyInv'
  BY <1>2, CopyStays DEF Around
<1>8. DueInv'
  BY <1>1, <1>2, RestoreRow, DueGoes
<1> QED
  BY <1>3, <1>4, <1>5, <1>6, <1>7, <1>8, Assemble

\* The same after the last part was sent.
LEMMA TurnsAllBack ==
    ASSUME BackupInv, SaveInv, Sending, Steady, NoSave, Around, backup' = backup, FailsAfter(LastPart),
           Started' => Started,
           \A v \in Parts : node'[v].due \in {node[v].due, "no"}
    PROVE  SaveInv'
<1>1. run.op = "restore" /\ run.way = "run"
  BY DEF Sending
<1>2. Goes("rollback", LastPart, run.phase, run.status, run.bad)
  BY <1>1, StepGoes DEF FailsAfter
<1>3. LastPart \in Int /\ \A v \in Parts : ~(v > LastPart)
  <2>1. LastPart \in Int
    BY WorldAt
  <2> QED
    BY <2>1 DEF Parts
<1> QED
  BY <1>2, <1>3, TurnsBack

\* A part is sent to its machine: the restore goes on, or rolls back what it sent.
LEMMA TransferSaves ==
    ASSUME BackupInv, SaveInv, Transfer
    PROVE  SaveInv'
<1>1. run.at = "transfer" /\ NoSave /\ Around /\ backup' = backup /\ run.way = "run" /\ run.op = "restore"
  BY DEF Transfer, SaveInv, StepInv, BackupInv, RunInv
<1>2. PICK w \in Parts : w = run.n
  <2>1. run.n <= LastPart /\ run.n # 0
    BY <1>1, WorldAt DEF Transfer, BackupInv, RunInv
  <2> QED
    BY <2>1, WorldAt
<1>3. run.n \in Int /\ run.phase = "open"
  BY <1>1, WorldAt DEF SaveInv, StepInv, Ways
<1>4. Sending /\ ~AllBack /\ Row # NoOp
  BY <1>1, RestoreRow DEF Sending, Ways, AllBack
<1>5. Steady
  BY <1>1, <1>2, StepNames, CallSteady DEF Transfer
<1>6. /\ Called(w, "transfer", "restore")
      /\ node'[w].due \in {node[w].due, "no"}
      /\ \A c \in deferred' : c \in deferred \/ (c.w = w /\ c.step = "transfer" /\ c.op = "restore" /\ node' = node)
      /\ Done(w) => Replied("transfer", node[w], node'[w]) /\ deferred' \subseteq deferred
  BY <1>1, <1>2, StepNames, CallSummary DEF Transfer
<1>7. \A v \in Parts : node[v].rcpt = "none" /\ node[v].desc = IF v < run.n THEN "prepared" ELSE "none"
  BY <1>1 DEF SaveInv, SendInv
<1>8. node[w].rcpt = "none" /\ node[w].desc = "none"
  BY <1>2, <1>3, <1>7
<1>9. node'[w].rcpt = "none" /\ \A v \in Parts : v # w => node'[v] = node[v]
  BY <1>6, <1>8 DEF Called, Kept
<1>10. CASE Done(w) /\ run' = AtStep("transfer", run.n + 1)
  <2>1. Goes("transfer", run.n + 1, run.phase, run.status, run.bad)
    BY <1>10, StepGoes
  <2>2. /\ run'.at = "transfer" /\ run'.n = run.n + 1 /\ run'.op = "restore" /\ run'.phase = run.phase
        /\ run'.way = "run" /\ run'.was = run.was
    BY <1>1, <2>1 DEF Goes
  <2>3. node'[w].desc = "prepared"
    BY <1>6, <1>8, <1>10 DEF Replied
  <2>4. \A v \in Parts : node'[v].rcpt = "none" /\ node'[v].desc = IF v < run'.n THEN "prepared" ELSE "none"
    <3> SUFFICES ASSUME NEW v \in Parts
                 PROVE  node'[v].rcpt = "none" /\ node'[v].desc = IF v < run'.n THEN "prepared" ELSE "none"
      OBVIOUS
    <3>1. CASE v = w
      BY <1>2, <1>3, <1>9, <2>2, <2>3, <3>1
    <3>2. CASE v # w
      <4>1. v < run'.n <=> v < run.n
        BY <1>2, <1>3, <2>2, <3>2 DEF Parts
      <4> QED
        BY <1>7, <1>9, <3>2, <4>1
    <3> QED
      BY <3>1, <3>2
  <2>5. StepInv'
    BY <1>3, <2>2 DEF StepInv, Ways, Forward, Returned
  <2>6. SendInv'
    <3>1. Row' = Row
      BY <1>1 DEF NoSave, Row
    <3>2. \A c \in deferred' : c.op = "restore" => c.step = "stop"
      BY <1>4, <1>6, <1>10 DEF SaveInv, SendInv
    <3> QED
      BY <1>4, <2>2, <2>4, <3>1, <3>2 DEF SendInv
  <2>7. BackInv' /\ AheadInv'
    <3>1. ~outdated => ~Ahead
      BY <1>1 DEF SaveInv, AheadInv
    <3>2. Started' => Started
      BY <1>6, <1>9, <1>10 DEF Called, Kept, Started
    <3> QED
      BY <1>1, <1>4, <2>2, <3>1, <3>2, RestoreGoes
  <2>8. CompleteInv'
    BY <1>1, <1>5, <2>2, CompleteGoes
  <2>9. CopyInv'
    BY <1>1, <2>2, CopyStays DEF Around
  <2>10. DueInv'
    <3>1. \A v \in Parts : node'[v].due \in {node[v].due, "no"}
      BY <1>6, <1>9
    <3> QED
      BY <1>1, <2>2, <3>1, RestoreRow, DueGoes
  <2> QED
    BY <1>5, <2>5, <2>6, <2>7, <2>8, <2>9, <2>10, Assemble
<1>11. CASE NotDone(w) /\ FailsAfter(run.n)
  <2>1. Goes("rollback", run.n, run.phase, run.status, run.bad)
    BY <1>1, <1>11, StepGoes DEF FailsAfter
  <2>2. Started' => Started
    BY <1>6, <1>9 DEF Called, Kept, Started
  <2>3. ASSUME NEW v \in Parts, v > run.n PROVE Back(v)'
    <3>1. v # w /\ ~(v < run.n)
      BY <1>2, <1>3, <2>3 DEF Parts
    <3>2. node'[v].rcpt = "none" /\ node'[v].desc = "none"
      BY <1>7, <1>9, <3>1
    <3> QED
      BY <3>2 DEF Back
  <2>4. \A v \in Parts : node'[v].due \in {node[v].due, "no"}
    BY <1>6, <1>9
  <2> QED
    BY <1>1, <1>3, <1>4, <1>5, <2>1, <2>2, <2>3, <2>4, TurnsBack
<1> QED
  BY <1>2, <1>10, <1>11 DEF Transfer

\* A restore goes on its way forward.
LEMMA GoesForward ==
    ASSUME BackupInv, SaveInv, Sending, Steady, NoSave, Around, backup' = backup, NEW n,
           Goes("publish", n, run.phase, run.status, run.bad),
           deferred' \subseteq deferred, Started' => Started,
           \A v \in Parts : node'[v].due \in {node[v].due, "no"},
           \A v \in Parts : IF v < n THEN Renewed(node'[v]) /\ node'[v].rcpt = "published"
                            ELSE node'[v].rcpt = "none" /\ node'[v].desc = "prepared"
    PROVE  SaveInv'
<1>1. run.op = "restore" /\ run.way = "run" /\ run.at \in Ways /\ run.phase = "open"
  BY DEF Sending, SaveInv, StepInv
<1>2. /\ run'.at = "publish" /\ run'.n = n /\ run'.op = "restore" /\ run'.phase = run.phase
      /\ run'.way = "run" /\ run'.was = run.was
  BY <1>1 DEF Goes
<1>3. StepInv'
  BY <1>1, <1>2 DEF StepInv, Ways, Forward, Returned
<1>4. SendInv'
  <2>1. Row' = Row /\ Row # NoOp
    BY <1>1, RestoreRow DEF NoSave, Row
  <2>2. \A c \in deferred' : c.op = "restore" => c.step = "stop"
    BY DEF SaveInv, SendInv
  <2> QED
    BY <1>2, <2>1, <2>2 DEF SendInv
<1>5. BackInv' /\ AheadInv'
  <2>1. ~outdated => ~Ahead
    BY <1>1 DEF SaveInv, AheadInv, Ways
  <2>2. ~AllBack
    BY DEF AllBack
  <2> QED
    BY <1>1, <1>2, <2>1, <2>2, RestoreGoes
<1>6. CompleteInv'
  BY <1>1, <1>2, CompleteGoes
<1>7. CopyInv'
  BY <1>2, CopyStays DEF Around
<1>8. DueInv'
  BY <1>1, <1>2, RestoreRow, DueGoes
<1> QED
  BY <1>3, <1>4, <1>5, <1>6, <1>7, <1>8, Assemble

LEMMA SavePreparedSaves ==
    ASSUME BackupInv, SaveInv, SavePrepared
    PROVE  SaveInv'
<1>1. /\ run.at = "transfer" /\ run.n > LastPart /\ NoNode /\ NoSave /\ Around /\ backup' = backup
      /\ run.way = "run" /\ run.op = "restore"
  BY DEF SavePrepared, SaveInv, StepInv, BackupInv, RunInv
<1>2. Sending
  BY <1>1 DEF Sending, Ways
<1>3. Steady /\ (Started' => Started) /\ deferred' = deferred /\ node' = node
  BY <1>1, StillSteady DEF NoNode, Started
<1>4. CASE FailsAfter(LastPart)
  BY <1>1, <1>2, <1>3, <1>4, TurnsAllBack
<1>5. CASE run' = AtStep("publish", 1)
  <2>1. Goes("publish", 1, run.phase, run.status, run.bad)
    BY <1>5, StepGoes
  <2>2. \A v \in Parts : v < run.n /\ ~(v < 1)
    <3>1. run.n \in Int /\ LastPart \in Int
      BY WorldAt
    <3> QED
      BY <1>1, <3>1 DEF Parts
  <2>3. \A v \in Parts : node'[v].rcpt = "none" /\ node'[v].desc = "prepared"
    BY <1>1, <1>3, <2>2 DEF SaveInv, SendInv
  <2> QED
    BY <1>1, <1>2, <1>3, <2>1, <2>2, <2>3, GoesForward
<1> QED
  BY <1>4, <1>5 DEF SavePrepared

LEMMA PublishPartSaves ==
    ASSUME BackupInv, SaveInv, PublishPart
    PROVE  SaveInv'
<1>1. run.at = "publish" /\ NoSave /\ Around /\ backup' = backup /\ run.way = "run" /\ run.op = "restore"
  BY DEF PublishPart, SaveInv, StepInv, BackupInv, RunInv
<1>2. PICK w \in Parts : w = run.n
  <2>1. run.n <= LastPart /\ run.n # 0
    BY <1>1, WorldAt DEF PublishPart, BackupInv, RunInv
  <2> QED
    BY <2>1, WorldAt
<1>3. run.n \in Int
  BY WorldAt
<1>4. Sending
  BY <1>1 DEF Sending, Ways
<1>5. Steady
  BY <1>1, <1>2, StepNames, CallSteady DEF PublishPart
<1>6. /\ Called(w, "publish", "restore")
      /\ node'[w].due \in {node[w].due, "no"}
      /\ \A c \in deferred' : c \in deferred \/ (c.w = w /\ c.step = "publish" /\ c.op = "restore" /\ node' = node)
      /\ Done(w) => Replied("publish", node[w], node'[w]) /\ deferred' \subseteq deferred
  BY <1>1, <1>2, StepNames, CallSummary DEF PublishPart
<1>7. \A v \in Parts : v # w => node'[v] = node[v]
  BY <1>6 DEF Called
<1>8. Started' => Started
  BY <1>6 DEF Called, Kept, Started
<1>9. \A v \in Parts : node'[v].due \in {node[v].due, "no"}
  BY <1>6, <1>7
<1>10. CASE NotDone(w) /\ FailsAfter(LastPart)
  BY <1>1, <1>4, <1>5, <1>8, <1>9, <1>10, TurnsAllBack
<1>11. CASE Done(w) /\ run' = AtStep("publish", run.n + 1)
  <2>1. Goes("publish", run.n + 1, run.phase, run.status, run.bad)
    BY <1>11, StepGoes
  <2>2. \A v \in Parts : IF v < run.n THEN Renewed(node[v]) /\ node[v].rcpt = "published"
                         ELSE node[v].rcpt = "none" /\ node[v].desc = "prepared"
    BY <1>1 DEF SaveInv, SendInv
  <2>3. Renewed(node'[w]) /\ node'[w].rcpt = "published"
    <3>1. node[w].desc = "prepared"
      BY <1>2, <1>3, <2>2
    <3> QED
      BY <1>6, <1>11, <3>1 DEF Replied
  <2>4. ASSUME NEW v \in Parts
        PROVE  IF v < run.n + 1 THEN Renewed(node'[v]) /\ node'[v].rcpt = "published"
               ELSE node'[v].rcpt = "none" /\ node'[v].desc = "prepared"
    <3>1. CASE v = w
      BY <1>2, <1>3, <2>3, <3>1
    <3>2. CASE v # w
      <4>1. v < run.n + 1 <=> v < run.n
        BY <1>2, <1>3, <3>2 DEF Parts
      <4> QED
        BY <1>7, <2>2, <3>2, <4>1
    <3> QED
      BY <3>1, <3>2
  <2> QED
    BY <1>1, <1>4, <1>5, <1>6, <1>8, <1>9, <1>11, <2>1, <2>4, GoesForward
<1> QED
  BY <1>2, <1>10, <1>11 DEF PublishPart

\* A call of the clean-up or of the rollback: the next part, whatever came of it.
LEMMA PartGoes ==
    ASSUME BackupInv, SaveInv, CompletePart \/ RollbackPart
    PROVE  /\ run.at \in {"complete", "rollback"} /\ run.op = "restore" /\ NoSave /\ Around /\ backup' = backup
           /\ run.n \in Parts /\ run.n \in Int /\ Steady /\ BacksStay
           /\ Called(run.n, run.at, run.op)
           /\ \A c \in deferred' : c \in deferred \/ (c.step = run.at /\ c.op = run.op)
           /\ \A v \in Parts : node'[v].due \in {node[v].due, "no"}
           /\ Started' => Started
           /\ \E bad \in BOOLEAN :
                /\ Goes(run.at, IF run.at = "complete" THEN run.n + 1 ELSE run.n - 1, run.phase, run.status, bad)
                /\ ~bad => ~run.bad /\ Replied(run.at, node[run.n], node'[run.n]) /\ deferred' \subseteq deferred
<1>1. run.at \in {"complete", "rollback"} /\ NoSave /\ Around /\ backup' = backup
  BY DEF CompletePart, RollbackPart
<1>2. run.op = "restore"
  BY <1>1 DEF SaveInv, StepInv
<1>3. run.n \in Parts
  <2>1. CASE CompletePart
    <3>1. run.at = "complete" /\ run.n <= LastPart
      BY <2>1 DEF CompletePart
    <3>2. run.n # 0
      BY <3>1, WorldAt DEF BackupInv, RunInv
    <3> QED
      BY <3>1, <3>2, WorldAt
  <2>2. CASE RollbackPart
    <3>1. run.at = "rollback" /\ run.n > 0
      BY <2>2 DEF RollbackPart
    <3>2. run.n <= LastPart
      BY <3>1 DEF BackupInv, RunInv
    <3> QED
      BY <3>1, <3>2, WorldAt
  <2> QED
    BY <2>1, <2>2
<1>4. PICK w \in Parts : w = run.n
  BY <1>3
<1>5. Done(w) \/ NotDone(w)
  BY <1>4 DEF CompletePart, RollbackPart
<1>6. run.at \in NodeSteps /\ run.n \in Int /\ run.bad \in BOOLEAN
  BY <1>1, StepNames, WorldAt DEF Runs
<1>7. Steady /\ BacksStay
  BY <1>1, <1>4, <1>5, <1>6, CallSteady
<1>8. /\ Called(w, run.at, run.op)
      /\ node'[w].due \in {node[w].due, "no"}
      /\ \A c \in deferred' : c \in deferred \/ (c.w = w /\ c.step = run.at /\ c.op = run.op /\ node' = node)
      /\ Done(w) => Replied(run.at, node[w], node'[w]) /\ deferred' \subseteq deferred
  BY <1>1, <1>4, <1>5, <1>6, CallSummary
<1>9. Started' => Started
  BY <1>1, <1>8 DEF Called, Kept, Started
<1>10. \A v \in Parts : node'[v].due \in {node[v].due, "no"}
  BY <1>8 DEF Called
<1>11. PICK m : m = IF run.at = "complete" THEN run.n + 1 ELSE run.n - 1
  OBVIOUS
<1>12. \E bad \in BOOLEAN : Goes(run.at, m, run.phase, run.status, bad) /\ (~bad => ~run.bad /\ Done(w))
  <2>1. CASE Done(w) /\ run' = AtStep(run.at, m)
    <3>1. Goes(run.at, m, run.phase, run.status, run.bad)
      BY <2>1, StepGoes
    <3> QED
      BY <1>6, <2>1, <3>1
  <2>2. CASE run' = [AtStep(run.at, m) EXCEPT !.bad = TRUE]
    <3>1. Goes(run.at, m, run.phase, run.status, TRUE)
      BY <2>2, StepGoes
    <3> QED
      BY <3>1
  <2> QED
    BY <1>4, <1>11, <2>1, <2>2 DEF CompletePart, RollbackPart
<1>13. \E bad \in BOOLEAN :
         /\ Goes(run.at, m, run.phase, run.status, bad)
         /\ ~bad => ~run.bad /\ Replied(run.at, node[w], node'[w]) /\ deferred' \subseteq deferred
  BY <1>8, <1>12
<1> QED
  BY <1>1, <1>2, <1>3, <1>4, <1>6, <1>7, <1>8, <1>9, <1>10, <1>11, <1>13

LEMMA CompletePartSaves ==
    ASSUME BackupInv, SaveInv, CompletePart
    PROVE  SaveInv'
<1>1. run.at = "complete" /\ run.op = "restore" /\ NoSave /\ Around /\ backup' = backup
  BY PartGoes DEF CompletePart
<1>2. /\ run.n \in Parts /\ run.n \in Int /\ Steady /\ BacksStay /\ Called(run.n, "complete", "restore")
      /\ \A c \in deferred' : c \in deferred \/ (c.step = "complete" /\ c.op = "restore")
      /\ \A v \in Parts : node'[v].due \in {node[v].due, "no"}
      /\ Started' => Started
  BY <1>1, PartGoes
<1>3. PICK bad \in BOOLEAN :
         /\ Goes("complete", run.n + 1, run.phase, run.status, bad)
         /\ ~bad => ~run.bad /\ Replied("complete", node[run.n], node'[run.n])
  BY <1>1, PartGoes
<1>4. /\ run'.at = "complete" /\ run'.n = run.n + 1 /\ run'.op = "restore" /\ run'.phase = run.phase
      /\ run'.way = run.way /\ run'.status = run.status /\ run'.was = run.was /\ run'.bad = bad
  BY <1>1, <1>3 DEF Goes
<1>5. StepInv'
  BY <1>1, <1>4 DEF SaveInv, StepInv, Ways
<1>6. Row' = Row /\ Row # NoOp /\ ~Sending'
  BY <1>1, <1>4, RestoreRow DEF NoSave, Row, Sending, Ways
<1>7. SendInv'
  BY <1>4, <1>6 DEF SendInv
<1>8. BackInv' /\ AheadInv'
  <2>1. AllBack => AllBack'
    BY <1>2, <1>6, AllBackStays
  <2>2. ~outdated /\ Ahead => /\ \A w \in Parts : Renewed(node'[w])
                              /\ \A c \in deferred' : c.op = "restore" => c.step \in {"stop", "complete", "restart"}
    <3> SUFFICES ASSUME ~outdated, Ahead
                 PROVE  /\ \A w \in Parts : Renewed(node'[w])
                        /\ \A c \in deferred' : c.op = "restore" => c.step \in {"stop", "complete", "restart"}
      OBVIOUS
    <3>1. /\ \A w \in Parts : Renewed(node[w])
          /\ \A c \in deferred : c.op = "restore" => c.step \in {"stop", "complete", "restart"}
      BY DEF SaveInv, AheadInv
    <3>2. \A w \in Parts : Renewed(node'[w])
      BY <1>2, <3>1 DEF Called, Kept
    <3> QED
      BY <1>2, <3>1, <3>2
  <2> QED
    BY <1>1, <1>2, <1>4, <2>1, <2>2, RestoreGoes
<1>9. CompleteInv'
  <2>1. ASSUME ~bad, NEW v \in Parts, v < run.n + 1 PROVE node'[v].rcpt = "completed"
    <3>1. CASE v = run.n
      BY <1>3, <2>1, <3>1 DEF Replied
    <3>2. CASE v # run.n
      <4>1. v < run.n
        BY <1>2, <2>1, <3>2 DEF Parts
      <4>2. node[v].rcpt = "completed"
        BY <1>1, <1>3, <2>1, <4>1 DEF SaveInv, CompleteInv
      <4> QED
        BY <1>2, <4>2 DEF Steady
    <3> QED
      BY <3>1, <3>2
  <2> QED
    BY <1>1, <1>2, <1>4, <2>1, CompleteGoes
<1>10. CopyInv'
  BY <1>1, <1>4, CopyStays DEF Around
<1>11. DueInv'
  BY <1>1, <1>2, <1>4, RestoreRow, DueGoes
<1> QED
  BY <1>2, <1>5, <1>7, <1>8, <1>9, <1>10, <1>11, Assemble

LEMMA RollbackPartSaves ==
    ASSUME BackupInv, SaveInv, RollbackPart
    PROVE  SaveInv'
<1>1. run.at = "rollback" /\ run.op = "restore" /\ NoSave /\ Around /\ backup' = backup
  BY PartGoes DEF RollbackPart
<1>2. /\ run.n \in Parts /\ run.n \in Int /\ Steady /\ BacksStay /\ Called(run.n, "rollback", "restore")
      /\ \A v \in Parts : node'[v].due \in {node[v].due, "no"}
      /\ Started' => Started
  BY <1>1, PartGoes
<1>3. PICK bad \in BOOLEAN :
         /\ Goes("rollback", run.n - 1, run.phase, run.status, bad)
         /\ ~bad => ~run.bad /\ Replied("rollback", node[run.n], node'[run.n]) /\ deferred' \subseteq deferred
  BY <1>1, PartGoes
<1>4. /\ run'.at = "rollback" /\ run'.n = run.n - 1 /\ run'.op = "restore" /\ run'.phase = run.phase
      /\ run'.way = run.way /\ run'.status = run.status /\ run'.was = run.was /\ run'.bad = bad
  BY <1>1, <1>3 DEF Goes
<1>5. StepInv'
  BY <1>1, <1>4 DEF SaveInv, StepInv, Ways
<1>6. Row' = Row /\ Row # NoOp /\ ~Sending'
  BY <1>1, <1>4, RestoreRow DEF NoSave, Row, Sending, Ways
<1>7. SendInv'
  BY <1>4, <1>6 DEF SendInv
<1>8. BackInv' /\ AheadInv'
  <2>1. AllBack => AllBack'
    BY <1>2, <1>6, AllBackStays
  <2>2. ~outdated => ~Ahead
    BY <1>1 DEF SaveInv, AheadInv
  <2>3. ASSUME ~bad, NEW v \in Parts, v > run.n - 1 PROVE Back(v)'
    <3>1. CASE v = run.n
      BY <1>3, <2>3, <3>1 DEF Replied, Back
    <3>2. CASE v # run.n
      <4>1. v > run.n
        BY <1>2, <2>3, <3>2 DEF Parts
      <4>2. Back(v)
        BY <1>1, <1>3, <2>3, <4>1 DEF SaveInv, BackInv
      <4> QED
        BY <1>2, <4>2 DEF BacksStay
    <3> QED
      BY <3>1, <3>2
  <2> QED
    BY <1>1, <1>2, <1>4, <2>1, <2>2, <2>3, RestoreGoes
<1>9. CompleteInv'
  BY <1>1, <1>2, <1>4, CompleteGoes
<1>10. CopyInv'
  BY <1>1, <1>4, CopyStays DEF Around
<1>11. DueInv'
  BY <1>1, <1>2, <1>4, RestoreRow, DueGoes
<1> QED
  BY <1>2, <1>5, <1>7, <1>8, <1>9, <1>10, <1>11, Assemble

-----------------------------------------------------------------------------
(* The saves of a restore *)

\* A step of the restore that saves its row, or should have.
LEMMA RowGoes ==
    ASSUME BackupInv, SaveInv, run.op = "restore", NoNode, Around, backup' = backup, Row' # NoOp,
           run'.at \in {"idle", "complete", "restart", "mark"},
           run'.op # "create",
           AllBack => AllBack',
           Row'.phase \in Returned => AllBack',
           run'.op = "restore" /\ run'.phase \in Returned => AllBack',
           run'.op = "restore" /\ run'.at = "restart" /\ run'.phase = "open" => AllBack',
           ~outdated => /\ Ahead' => /\ \A w \in Parts : Renewed(node[w])
                                     /\ \A c \in deferred : c.op = "restore" => c.step \in {"stop", "complete", "restart"}
                        /\ run'.op = "restore" => (Ahead' <=> run'.phase \in Forward)
                        /\ run'.op = "restore" /\ Ahead' => run'.at \in {"complete", "restart", "mark"}
                        /\ Started => AllBack' \/ Ahead',
           StepInv', CompleteInv', DueInv'
    PROVE  SaveInv'
<1>1. pleas' = pleas /\ outdated' = outdated /\ node' = node /\ deferred' = deferred
  BY DEF Around, NoNode
<1>2. Steady
  BY StillSteady
<1>3. SendInv'
  BY DEF SendInv, Sending, Ways
<1>4. BackInv'
  <2>1. \A p \in pleas' : p.op = "restore" /\ p.row.phase \in Returned => AllBack'
    BY <1>1 DEF SaveInv, BackInv
  <2> QED
    BY <2>1 DEF BackInv
<1>5. AheadInv'
  <2>1. Started' <=> Started
    BY <1>1 DEF Started
  <2> QED
    BY <1>1, <2>1 DEF AheadInv
<1>6. CopyInv'
  BY <1>1, CopyStays
<1> QED
  BY <1>2, <1>3, <1>4, <1>5, <1>6, Assemble

\* All worlds have their old saves, and nothing is sent any more.
LEMMA AllBackNow ==
    ASSUME BackupInv, SaveInv, run.op = "restore", NoNode, Row' # NoOp, run'.at \notin Ways, \A w \in Parts : Back(w)
    PROVE  AllBack'
<1>1. \A w \in Parts : Back(w)'
  BY DEF NoNode, Back
<1> QED
  BY <1>1 DEF AllBack, Sending

\* The row of the restore after a save that did or did not succeed.
LEMMA RowSaved ==
    ASSUME BackupInv, SaveInv, run.op = "restore", NEW phase \in PhaseNames, NEW status \in StatusNames,
           NEW ok \in BOOLEAN, Saves(phase, status, ok)
    PROVE  /\ run.op \in Kinds /\ \A k \in Kinds : k # run.op => table'[k] = table[k]
           /\ table'[run.op] # NoOp /\ table'[run.op].was = table[run.op].was
           /\ Row' # NoOp /\ Row # NoOp
           /\ IF ok THEN Row'.phase = phase /\ Row'.status = status ELSE Row' = Row
           /\ IF ok THEN table'[run.op].status = status ELSE table' = table
<1>1. run.op \in Kinds
  BY DEF Kinds
<1>2. /\ \A k \in Kinds : k # run.op => table'[k] = table[k]
      /\ table'[run.op] # NoOp /\ table'[run.op].was = table[run.op].was
      /\ IF ok THEN table'[run.op].phase = phase /\ table'[run.op].status = status
         ELSE table' = table
  BY <1>1, SaveRows
<1> QED
  BY <1>1, <1>2, RestoreRow DEF Row

LEMMA MarkSaves2 ==
    ASSUME BackupInv, SaveInv, Mark, run.op = "restore"
    PROVE  SaveInv'
<1>1. run.at = "mark" /\ NoNode /\ Around /\ backup' = backup /\ run' = FreeRoom
  BY DEF Mark
<1>2. run.phase \in PhaseNames
  BY <1>1 DEF BackupInv, RunInv
<1>3. PICK ok \in BOOLEAN : Saves(run.phase, "recovery", ok)
  BY DEF Mark
<1>4. /\ run.op \in Kinds /\ \A k \in Kinds : k # run.op => table'[k] = table[k]
      /\ table'[run.op] # NoOp /\ table'[run.op].was = table[run.op].was
      /\ Row' # NoOp /\ Row # NoOp
      /\ IF ok THEN Row'.phase = run.phase /\ Row'.status = "recovery" ELSE Row' = Row
      /\ IF ok THEN table'[run.op].status = "recovery" ELSE table' = table
  BY <1>2, <1>3, RowSaved, EndNames
<1>5. run'.at = "idle" /\ run'.op = "none" /\ run'.way = "run" /\ ~run'.bad /\ run'.phase = "none"
  BY <1>1, FreeGoes
<1>6. AllBack => AllBack'
  BY <1>1, <1>4, <1>5, AllBackNow DEF AllBack, Ways
<1>7. Row'.phase \in Returned => AllBack'
  BY <1>4, <1>6 DEF SaveInv, BackInv
<1>8. ~outdated => /\ Ahead' => /\ \A w \in Parts : Renewed(node[w])
                                /\ \A c \in deferred : c.op = "restore" => c.step \in {"stop", "complete", "restart"}
                   /\ Started => AllBack' \/ Ahead'
  <2>1. ~outdated => (Ahead' <=> Ahead)
    BY <1>4 DEF SaveInv, AheadInv, Ahead
  <2> QED
    BY <1>6, <2>1 DEF SaveInv, AheadInv
<1>9. StepInv'
  BY <1>5 DEF StepInv, Ways
<1>10. CompleteInv'
  <2>1. pleas' = pleas /\ node' = node
    BY <1>1 DEF Around, NoNode
  <2>2. run.phase # "recovered"
    BY DEF SaveInv, CompleteInv
  <2> QED
    BY <1>4, <1>5, <2>1, <2>2 DEF SaveInv, CompleteInv
<1>11. DueInv'
  <2>1. \A v \in Parts : node'[v].due = node[v].due
    BY <1>1 DEF NoNode
  <2> QED
    BY <1>1, <1>4, <1>5, <2>1, DueStays
<1> QED
  BY <1>1, <1>4, <1>5, <1>6, <1>7, <1>8, <1>9, <1>10, <1>11, RowGoes

LEMMA ResumedSaves2 ==
    ASSUME BackupInv, SaveInv, Resumed, run.op = "restore"
    PROVE  SaveInv'
<1>1. /\ run.at = "restart" /\ run.op \in Kinds /\ run.n > LastPart /\ NoNode /\ Around
      /\ backup' = backup
  BY ResumedGoes
<1>2. pleas' = pleas /\ node' = node /\ outdated' = outdated /\ \A v \in Parts : node'[v].due = node[v].due
  BY <1>1 DEF NoNode, Around
<1>3. CASE NoSave
  <2>1. Row' = Row /\ Row # NoOp /\ table'["restore"] = table["restore"] /\ table'["create"] = table["create"]
    BY <1>3, RestoreRow DEF NoSave, Row
  <2>2. CASE run' = FreeRoom
    BY <1>1, <2>1, <2>2, RoomFreed
  <2>3. CASE Goes("mark", 0, run.phase, run.status, run.bad)
    <3>1. run'.at = "mark" /\ run'.op = "restore" /\ run'.phase = run.phase /\ run'.was = run.was
      BY <2>3 DEF Goes
    <3>2. AllBack => AllBack'
      BY <1>1, <2>1, <3>1, AllBackNow DEF AllBack, Ways
    <3>3. (Row'.phase \in Returned => AllBack') /\ (run'.phase \in Returned => AllBack')
      BY <2>1, <3>1, <3>2 DEF SaveInv, BackInv
    <3>4. ~outdated => /\ Ahead' => /\ \A w \in Parts : Renewed(node[w])
                                    /\ \A c \in deferred : c.op = "restore" => c.step \in {"stop", "complete", "restart"}
                       /\ Ahead' <=> run'.phase \in Forward
                       /\ Started => AllBack' \/ Ahead'
      BY <2>1, <3>1, <3>2 DEF SaveInv, AheadInv, Ahead
    <3>5. StepInv'
      BY <3>1 DEF StepInv, Ways
    <3>6. CompleteInv'
      BY <1>2, <2>1, <3>1 DEF SaveInv, CompleteInv
    <3>7. DueInv'
      BY <1>1, <1>2, <1>3, <3>1, DueGoes
    <3> QED
      BY <1>1, <2>1, <3>1, <3>2, <3>3, <3>4, <3>5, <3>6, <3>7, RowGoes
  <2> QED
    BY <1>3, <2>2, <2>3, ResumedGoes
<1>4. ASSUME ~run.bad, run' = FreeRoom,
             ~(run.way = "run" /\ (run.status # "running" \/ run.phase = "open")),
             NEW ok \in BOOLEAN, NEW phase \in PhaseNames, NEW status \in StatusNames, Saves(phase, status, ok),
             \/ run.phase = "rollback_completed" /\ phase = "recovered" /\ status = "rolled_back"
             \/ run.phase # "rollback_completed" /\ phase = "completed" /\ status = "succeeded"
      PROVE  SaveInv'
  <2>1. run'.at = "idle" /\ run'.op = "none" /\ run'.way = "run" /\ ~run'.bad /\ run'.phase = "none"
    BY <1>4, FreeGoes
  <2>2. /\ \A k \in Kinds : k # run.op => table'[k] = table[k]
        /\ table'[run.op] # NoOp /\ table'[run.op].was = table[run.op].was
        /\ Row' # NoOp /\ Row # NoOp
        /\ IF ok THEN Row'.phase = phase /\ Row'.status = status ELSE Row' = Row
    BY <1>4, RowSaved
  <2>3. AllBack => AllBack'
    BY <1>1, <2>1, <2>2, AllBackNow DEF AllBack, Ways
  <2>4. run.phase = "rollback_completed" => AllBack'
    BY <2>3 DEF SaveInv, BackInv, Returned
  <2>5. run.phase # "rollback_completed" => run.phase \in Forward /\ \A w \in Parts : node[w].rcpt = "completed"
    <3>1. run.phase # "rollback_completed" => run.phase \in Forward
      BY <1>1, <1>4 DEF SaveInv, StepInv
    <3> QED
      BY <1>1, <1>4, <3>1 DEF SaveInv, CompleteInv
  <2>6. Row'.phase \in Returned => AllBack'
    <3>1. Row.phase \in Returned => AllBack'
      BY <2>3 DEF SaveInv, BackInv
    <3> QED
      BY <1>4, <2>2, <2>4, <3>1 DEF Returned
  <2>7. ~outdated => /\ Ahead' => /\ \A w \in Parts : Renewed(node[w])
                                  /\ \A c \in deferred : c.op = "restore" => c.step \in {"stop", "complete", "restart"}
                     /\ Started => AllBack' \/ Ahead'
    <3> SUFFICES ASSUME ~outdated
                 PROVE  /\ Ahead' => /\ \A w \in Parts : Renewed(node[w])
                                     /\ \A c \in deferred : c.op = "restore" => c.step \in {"stop", "complete", "restart"}
                        /\ Started => AllBack' \/ Ahead'
      OBVIOUS
    <3>1. Ahead <=> run.phase \in Forward
      BY DEF SaveInv, AheadInv
    <3>2. Ahead' <=> Ahead
      BY <1>4, <2>2, <2>5, <3>1 DEF Ahead, Forward
    <3> QED
      BY <2>3, <3>2 DEF SaveInv, AheadInv
  <2>8. StepInv'
    BY <2>1 DEF StepInv, Ways
  <2>9. CompleteInv'
    BY <1>2, <1>4, <2>1, <2>2, <2>5 DEF SaveInv, CompleteInv, Returned
  <2>10. DueInv'
    BY <1>1, <1>4, <2>2, DueEnds
  <2> QED
    BY <1>1, <2>1, <2>2, <2>3, <2>6, <2>7, <2>8, <2>9, <2>10, RowGoes
<1>5. CASE /\ ~run.bad /\ run' = FreeRoom
           /\ ~(run.way = "run" /\ (run.status # "running" \/ run.phase = "open"))
           /\ \E ok \in BOOLEAN :
                \/ run.phase = "rollback_completed" /\ Saves("recovered", "rolled_back", ok)
                \/ run.phase # "rollback_completed" /\ Saves("completed", "succeeded", ok)
  BY <1>4, <1>5, EndNames
<1> QED
  BY <1>3, <1>5, ResumedGoes

LEMMA SavePublishedSaves ==
    ASSUME BackupInv, SaveInv, SavePublished
    PROVE  SaveInv'
<1>1. /\ run.at = "publish" /\ run.n > LastPart /\ NoNode /\ Around /\ backup' = backup
      /\ run.way = "run" /\ run.op = "restore"
  BY DEF SavePublished, SaveInv, StepInv, BackupInv, RunInv
<1>2. Sending /\ ~AllBack /\ run.phase = "open"
  BY <1>1 DEF Sending, Ways, AllBack, SaveInv, StepInv
<1>3. pleas' = pleas /\ node' = node /\ outdated' = outdated /\ \A v \in Parts : node'[v].due = node[v].due
  BY <1>1 DEF NoNode, Around
<1>4. \A w \in Parts : Renewed(node[w])
  <2>1. run.n \in Int /\ LastPart \in Int
    BY WorldAt
  <2>2. \A w \in Parts : w < run.n
    BY <1>1, <2>1 DEF Parts
  <2> QED
    BY <1>1, <2>2 DEF SaveInv, SendInv
<1>5. \A c \in deferred : c.op = "restore" => c.step = "stop"
  BY <1>2 DEF SaveInv, SendInv
<1>6. table \in [Kinds -> OpRows \cup {NoOp}] /\ run.op \in Kinds /\ table["restore"] \in OpRows /\ Row # NoOp
  BY <1>1, RestoreRow DEF BackupInv, BackupTypeOK, Row
<1>7. ~outdated => ~Ahead /\ ~Started
  BY <1>1, <1>2 DEF SaveInv, AheadInv
<1>8. \A p \in pleas : ~(p.op = "restore" /\ p.row.phase \in Returned)
  BY <1>2 DEF SaveInv, BackInv
<1>9. CASE run' = FreeRoom /\ table' = table
  BY <1>1, <1>6, <1>9, RoomFreed
<1>10. ASSUME NEW status \in {"running", "recovery"},
              table' = [table EXCEPT !["restore"].phase = "published", !["restore"].status = status],
              \/ run' = Headed("complete", 1, "published", "running")
              \/ run' = FreeRoom
       PROVE  SaveInv'
  <2> DEFINE row == [table["restore"] EXCEPT !.phase = "published", !.status = status]
  <2>1. table' = [table EXCEPT !["restore"] = row]
    BY <1>6, <1>10 DEF Kinds
  <2>2. row \in OpRows /\ row.phase = "published" /\ row.status = status /\ row.was = table["restore"].was
    BY <1>6, <1>10, EndNames DEF OpRows
  <2> HIDE DEF row
  <2>3. table'["restore"] = row /\ row # NoOp /\ Row' = row /\ \A k \in Kinds : k # "restore" => table'[k] = table[k]
    BY <1>6, <2>1, <2>2, RowIsNew DEF Row, Kinds
  <2>4. \/ /\ run'.at = "complete" /\ run'.n = 1 /\ run'.op = "restore" /\ run'.phase = "published"
           /\ run'.status = "running" /\ run'.was = run.was
        \/ run'.at = "idle" /\ run'.op = "none" /\ run'.way = "run" /\ ~run'.bad /\ run'.phase = "none"
    <3>1. CASE run' = FreeRoom
      BY <3>1, FreeGoes
    <3>2. CASE run' = Headed("complete", 1, "published", "running")
      <4>1. Goes("complete", 1, "published", "running", run.bad)
        BY <3>2, HeadGoes
      <4> QED
        BY <1>1, <4>1 DEF Goes
    <3> QED
      BY <1>10, <3>1, <3>2
  <2>5. ~outdated => /\ Ahead' => /\ \A w \in Parts : Renewed(node[w])
                                  /\ \A c \in deferred : c.op = "restore" => c.step \in {"stop", "complete", "restart"}
                     /\ run'.op = "restore" => (Ahead' <=> run'.phase \in Forward)
                     /\ run'.op = "restore" /\ Ahead' => run'.at \in {"complete", "restart", "mark"}
                     /\ Started => AllBack' \/ Ahead'
    BY <1>4, <1>5, <1>7, <2>2, <2>3, <2>4 DEF Ahead, Forward
  <2>6. StepInv'
    BY <2>4 DEF StepInv, Ways, Forward
  <2>7. CompleteInv'
    <3>1. \A w \in Parts : ~(w < 1)
      BY DEF Parts
    <3> QED
      BY <1>3, <1>10, <2>2, <2>3, <2>4, <3>1 DEF SaveInv, CompleteInv
  <2>8. DueInv'
    BY <1>1, <1>3, <1>6, <1>10, <2>2, <2>3, <2>4, DueStays
  <2> QED
    BY <1>1, <1>2, <2>2, <2>3, <2>4, <2>5, <2>6, <2>7, <2>8, RowGoes DEF Returned
<1>11. \/ run' = FreeRoom /\ table' = table
       \/ \E status \in {"running", "recovery"} :
             /\ table' = [table EXCEPT !["restore"].phase = "published", !["restore"].status = status]
             /\ run' = Headed("complete", 1, "published", "running") \/ run' = FreeRoom
  BY <1>1 DEF SavePublished, Saves
<1> QED
  BY <1>9, <1>10, <1>11

LEMMA CompletedSaves ==
    ASSUME BackupInv, SaveInv, Completed
    PROVE  SaveInv'
<1>1. run.at = "complete" /\ run.n > LastPart /\ NoNode /\ Around /\ backup' = backup /\ run.op = "restore"
  BY DEF Completed, SaveInv, StepInv
<1>2. pleas' = pleas /\ node' = node /\ outdated' = outdated /\ \A v \in Parts : node'[v].due = node[v].due
  BY <1>1 DEF NoNode, Around
<1>3. run.phase \in Forward /\ (run.way = "run" => run.status = "running")
  BY <1>1 DEF SaveInv, StepInv
<1>4. ~run.bad => \A w \in Parts : node[w].rcpt = "completed"
  <2>1. run.n \in Int /\ LastPart \in Int
    BY WorldAt
  <2>2. \A w \in Parts : w < run.n
    BY <1>1, <2>1 DEF Parts
  <2> QED
    BY <1>1, <2>2 DEF SaveInv, CompleteInv
<1>5. PICK status \in {"running", "recovery"} : status = IF run.bad THEN "recovery" ELSE "running"
  OBVIOUS
<1>6. \/ NoSave /\ Goes("restart", 1, run.phase, run.status, run.bad)
      \/ /\ run.way = "run" /\ \E ok \in BOOLEAN : Saves("resuming", status, ok)
         /\ Goes("restart", 1, "resuming", status, FALSE)
  <2>1. CASE NoSave /\ run' = AtStep("restart", 1)
    BY <2>1, StepGoes
  <2>2. CASE /\ run.way = "run"
             /\ \E ok \in BOOLEAN : Saves("resuming", status, ok)
             /\ run' = [Headed("restart", 1, "resuming", status) EXCEPT !.bad = FALSE]
    BY <2>2, HeadGoes
  <2>3. run.way \in {"run", "recover"}
    BY WorldAt DEF Runs
  <2> QED
    BY <1>5, <2>1, <2>2, <2>3 DEF Completed
<1>7. /\ run'.at = "restart" /\ run'.n = 1 /\ run'.op = "restore" /\ run'.way = run.way /\ run'.was = run.was
      /\ run'.phase \in Forward
      /\ ~run'.bad /\ (run'.way = "run" => run'.status = "running") => ~run.bad
  BY <1>1, <1>3, <1>5, <1>6 DEF Goes, Forward
<1>8. /\ \A k \in Kinds : k # run.op => table'[k] = table[k]
      /\ run.op \in Kinds /\ table'[run.op] # NoOp /\ table'[run.op].was = table[run.op].was
      /\ Row' # NoOp /\ Row # NoOp
      /\ Row' = Row \/ (Row'.phase = "resuming" /\ Row'.status = status)
      /\ table'[run.op].status = table[run.op].status \/ table'[run.op].status = status
  <2>1. CASE NoSave
    BY <1>1, <2>1, RestoreRow, SameRows
  <2>2. CASE \E ok \in BOOLEAN : Saves("resuming", status, ok)
    BY <1>1, <2>2, RowSaved, EndNames
  <2> QED
    BY <1>6, <2>1, <2>2
<1>9. AllBack => AllBack'
  BY <1>1, <1>7, <1>8, AllBackNow DEF AllBack, Ways
<1>10. Row'.phase \in Returned => AllBack'
  BY <1>8, <1>9 DEF SaveInv, BackInv, Returned
<1>11. run'.phase \notin Returned /\ run'.phase # "open" /\ run'.phase # "recovered"
  BY <1>7 DEF Forward, Returned
<1>12. ~outdated => /\ Ahead' => /\ \A w \in Parts : Renewed(node[w])
                                 /\ \A c \in deferred : c.op = "restore" => c.step \in {"stop", "complete", "restart"}
                    /\ Ahead' <=> run'.phase \in Forward
                    /\ Started => AllBack' \/ Ahead'
  <2> SUFFICES ASSUME ~outdated
               PROVE  /\ Ahead' => /\ \A w \in Parts : Renewed(node[w])
                                   /\ \A c \in deferred : c.op = "restore" => c.step \in {"stop", "complete", "restart"}
                      /\ Ahead' <=> run'.phase \in Forward
                      /\ Started => AllBack' \/ Ahead'
    OBVIOUS
  <2>1. Ahead
    BY <1>1, <1>3 DEF SaveInv, AheadInv
  <2>2. Ahead'
    BY <1>8, <2>1 DEF Ahead, Forward
  <2> QED
    BY <1>7, <2>1, <2>2 DEF SaveInv, AheadInv
<1>13. StepInv'
  BY <1>7 DEF StepInv, Ways
<1>14. CompleteInv'
  BY <1>2, <1>4, <1>5, <1>7, <1>8, <1>11 DEF SaveInv, CompleteInv
<1>15. DueInv'
  BY <1>1, <1>2, <1>5, <1>7, <1>8, DueStays
<1> QED
  BY <1>1, <1>7, <1>8, <1>9, <1>10, <1>11, <1>12, <1>13, <1>14, <1>15, RowGoes

LEMMA RolledBackSaves ==
    ASSUME BackupInv, SaveInv, RolledBack
    PROVE  SaveInv'
<1>1. run.at = "rollback" /\ run.n = 0 /\ NoNode /\ Around /\ backup' = backup /\ run.op = "restore"
  BY DEF RolledBack, SaveInv, StepInv
<1>2. pleas' = pleas /\ node' = node /\ outdated' = outdated /\ \A v \in Parts : node'[v].due = node[v].due
  BY <1>1 DEF NoNode, Around
<1>3. run.phase \notin Forward \cup Returned
  BY <1>1 DEF SaveInv, StepInv
<1>4. ~run.bad => \A w \in Parts : Back(w)
  <2>1. \A w \in Parts : w > 0
    BY DEF Parts
  <2> QED
    BY <1>1, <2>1 DEF SaveInv, BackInv
<1>5. \/ run.bad /\ NoSave /\ Goes("mark", 0, run.phase, run.status, run.bad)
      \/ run.bad /\ run' = FreeRoom /\ \E ok \in BOOLEAN : Saves("open", "recovery", ok)
      \/ /\ ~run.bad /\ \E ok \in BOOLEAN : Saves("rollback_completed", "running", ok)
         /\ run' = FreeRoom \/ Goes("restart", 1, "rollback_completed", "running", run.bad)
  <2>1. run' = AtStep("mark", 0) => Goes("mark", 0, run.phase, run.status, run.bad)
    BY StepGoes
  <2>2. run' = Headed("restart", 1, "rollback_completed", "running")
          => Goes("restart", 1, "rollback_completed", "running", run.bad)
    BY HeadGoes
  <2> QED
    BY <2>1, <2>2 DEF RolledBack
<1>6. \/ /\ run'.at = "idle" /\ run'.op = "none" /\ run'.way = "run" /\ ~run'.bad /\ run'.phase = "none"
      \/ /\ run'.at = "mark" /\ run'.op = "restore" /\ run'.phase = run.phase /\ run'.was = run.was
      \/ /\ run'.at = "restart" /\ run'.n = 1 /\ run'.op = "restore" /\ run'.phase = "rollback_completed"
         /\ run'.was = run.was /\ ~run.bad
  BY <1>1, <1>5, FreeGoes DEF Goes
<1>7. /\ \A k \in Kinds : k # run.op => table'[k] = table[k]
      /\ run.op \in Kinds /\ table'[run.op] # NoOp /\ table'[run.op].was = table[run.op].was
      /\ Row' # NoOp /\ Row # NoOp
      /\ \/ Row' = Row
         \/ Row'.phase = "open" /\ Row'.status = "recovery"
         \/ Row'.phase = "rollback_completed" /\ Row'.status = "running" /\ ~run.bad
      /\ table'[run.op].status = table[run.op].status \/ table'[run.op].status \in {"recovery", "running"}
  <2>1. CASE NoSave
    BY <1>1, <2>1, RestoreRow, SameRows
  <2>2. CASE \E ok \in BOOLEAN : Saves("open", "recovery", ok)
    BY <1>1, <2>2, RowSaved, EndNames
  <2>3. CASE ~run.bad /\ \E ok \in BOOLEAN : Saves("rollback_completed", "running", ok)
    BY <1>1, <2>3, RowSaved, EndNames
  <2> QED
    BY <1>5, <2>1, <2>2, <2>3
<1>8. run'.at \notin Ways
  BY <1>6 DEF Ways
<1>9. AllBack => AllBack'
  BY <1>1, <1>7, <1>8, AllBackNow DEF AllBack
<1>10. ~run.bad => AllBack'
  BY <1>1, <1>4, <1>7, <1>8, AllBackNow
<1>11. Row'.phase \in Returned => AllBack'
  <2>1. Row.phase \in Returned => AllBack'
    BY <1>9 DEF SaveInv, BackInv
  <2> QED
    BY <1>7, <1>10, <2>1 DEF Returned
<1>12. run'.op = "restore" =>
         /\ run'.phase \in Returned => AllBack'
         /\ run'.at = "restart" => run'.phase # "open"
         /\ run'.phase \notin Forward /\ run'.phase # "recovered"
  BY <1>3, <1>6, <1>10 DEF Forward, Returned
<1>13. ~outdated => ~Ahead' /\ (Started => AllBack')
  <2> SUFFICES ASSUME ~outdated PROVE ~Ahead' /\ (Started => AllBack')
    OBVIOUS
  <2>1. ~Ahead
    BY <1>1 DEF SaveInv, AheadInv
  <2>2. ~Ahead'
    BY <1>7, <2>1 DEF Ahead, Forward
  <2> QED
    BY <1>9, <2>1, <2>2 DEF SaveInv, AheadInv
<1>14. StepInv'
  BY <1>6 DEF StepInv, Ways
<1>15. CompleteInv'
  BY <1>2, <1>6, <1>7, <1>12 DEF SaveInv, CompleteInv, Returned
<1>16. DueInv'
  BY <1>1, <1>2, <1>6, <1>7, DueStays
<1> QED
  BY <1>1, <1>6, <1>7, <1>9, <1>11, <1>12, <1>13, <1>14, <1>15, <1>16, RowGoes

-----------------------------------------------------------------------------
(* Pleas, deletions and deaths *)

\* The run goes on as it was, whatever is asked for meanwhile.
LEMMA StillRun ==
    ASSUME BackupInv, SaveInv, NoNode, table' = table, run' = run, outdated' = outdated, backup' = backup,
           \A p \in pleas' : p \in pleas \/ (p.op \in Kinds /\ Unfinished(p.op) /\ p.row = table[p.op])
    PROVE  SaveInv'
<1>1. Steady /\ node' = node /\ deferred' = deferred /\ Row' = Row
  BY StillSteady DEF NoNode, Row
<1>2. (AllBack' <=> AllBack) /\ (Sending' <=> Sending) /\ (Started' <=> Started) /\ (Ahead' <=> Ahead)
  <2>1. \A w \in Parts : Back(w)' <=> Back(w)
    BY <1>1 DEF Back
  <2> QED
    BY <1>1, <2>1 DEF AllBack, Sending, Started, Ahead
<1>3. \A p \in pleas' : p \notin pleas => /\ p.op \in Kinds /\ p.row = table[p.op] /\ table[p.op] # NoOp
                                          /\ p.op = "restore" => p.row = Row /\ Row.status \in {"running", "recovery"}
  BY DEF Unfinished, NoOp, Row
<1>4. StepInv' /\ SendInv'
  <2>1. StepInv'
    BY DEF SaveInv, StepInv
  <2>2. SendInv'
    BY <1>1, <1>2 DEF SaveInv, SendInv
  <2> QED
    BY <2>1, <2>2
<1>5. BackInv'
  <2>1. \A p \in pleas' : p.op = "restore" /\ p.row.phase \in Returned => AllBack'
    BY <1>2, <1>3 DEF SaveInv, BackInv
  <2>2. run'.at = "rollback" /\ ~run'.bad => \A w \in Parts : w > run'.n => Back(w)'
    BY <1>1 DEF SaveInv, BackInv, Back
  <2> QED
    BY <1>1, <1>2, <2>1, <2>2 DEF SaveInv, BackInv
<1>6. AheadInv'
  BY <1>1, <1>2 DEF SaveInv, AheadInv
<1>7. CompleteInv'
  BY <1>1, <1>3 DEF SaveInv, CompleteInv
<1>8. CopyInv'
  BY <1>1 DEF SaveInv, CopyInv, Sure, Tainted, Unfinished
<1>9. DueInv'
  BY <1>1, <1>3 DEF SaveInv, DueInv
<1> QED
  BY <1>1, <1>4, <1>5, <1>6, <1>7, <1>8, <1>9, Assemble

\* The room is free, or a deletion holds it.
LEMMA IdleRun ==
    ASSUME BackupInv, SaveInv, NoNode, table' = table, outdated' = outdated, backup' = backup, pleas' \subseteq pleas,
           run'.op = "none", run'.at \in {"idle", "delete", "purge"}
    PROVE  SaveInv'
<1>1. Steady /\ BacksStay /\ Mild /\ node' = node /\ Row' = Row
  BY StillSteady, StillMild DEF NoNode, Row
<1>2. outdated \in BOOLEAN
  BY DEF BackupInv, BackupTypeOK
<1>3. SendInv' /\ BackInv' /\ AheadInv' /\ CompleteInv'
  BY <1>1, <1>2, Aside
<1>4. StepInv'
  BY DEF StepInv, Ways
<1>5. CopyInv'
  BY CopyStays
<1>6. DueInv'
  <2>1. "none" \notin Kinds
    BY DEF Kinds
  <2> QED
    BY <1>1, <2>1 DEF SaveInv, DueInv
<1> QED
  BY <1>1, <1>3, <1>4, <1>5, <1>6, Assemble

LEMMA PleasSave ==
    ASSUME BackupInv, SaveInv, (\E k \in Kinds : Plea(k)) \/ RecoverDeletions \/ RecoverOperations \/ UNCHANGED backupVars
    PROVE  SaveInv'
<1>1. NoNode /\ table' = table /\ run' = run /\ outdated' = outdated /\ backup' = backup
  BY DEF Plea, RecoverDeletions, RecoverOperations, backupVars, NoNode
<1>2. \A p \in pleas' : p \in pleas \/ (p.op \in Kinds /\ Unfinished(p.op) /\ p.row = table[p.op])
  BY DEF Plea, RecoverDeletions, RecoverOperations, backupVars
<1> QED
  BY <1>1, <1>2, StillRun

LEMMA DeletionsSave ==
    ASSUME BackupInv, SaveInv, Halt \/ Delete \/ DeleteRow \/ Purge
    PROVE  SaveInv'
<1>1. NoNode /\ table' = table /\ outdated' = outdated /\ backup' = backup /\ pleas' \subseteq pleas
  BY DEF Halt, Delete, DeleteRow, Purge
<1>2. run'.op = "none" /\ run'.at \in {"idle", "delete", "purge"}
  <2>1. CASE run' = FreeRoom
    BY <2>1, FreeGoes
  <2>2. CASE run' = [FreeRoom EXCEPT !.at = "delete"]
    BY <2>2 DEF FreeRoom
  <2>3. CASE run.at = "delete" /\ run' = AtStep("purge", 0)
    BY <2>3, StepGoes DEF Goes, SaveInv, StepInv
  <2> QED
    BY <2>1, <2>2, <2>3 DEF Halt, Delete, DeleteRow, Purge
<1> QED
  BY <1>1, <1>2, IdleRun

\* A call that was given up reaches its machine.
LEMMA LateSaves ==
    ASSUME BackupInv, SaveInv, NEW c \in deferred, LateCall(c)
    PROVE  SaveInv'
<1>1. /\ c.w \in Parts /\ c.step \in NodeSteps /\ c.op \in Kinds
      /\ Called(c.w, c.step, c.op)
      /\ node'[c.w].due \in {node[c.w].due, "no"}
      /\ deferred' = deferred \ {c}
  BY LateSummary
<1>2. Steady /\ BacksStay
  BY LateSteady
<1>3. /\ Row' = Row /\ table' = table /\ run' = run /\ pleas' = pleas /\ outdated' = outdated /\ backup' = backup
      /\ (Sending' <=> Sending) /\ (Ahead' <=> Ahead)
  BY DEF LateCall, Row, Sending, Ahead
<1>4. \A v \in Parts : v # c.w => node'[v] = node[v]
  BY <1>1 DEF Called
<1>5. StepInv'
  BY <1>3 DEF SaveInv, StepInv
<1>6. SendInv'
  <2>1. ASSUME Row = NoOp \/ Sending
        PROVE  \A v \in Parts : /\ node'[v].rcpt = node[v].rcpt /\ node'[v].desc = node[v].desc
                                /\ Renewed(node[v]) => Renewed(node'[v])
    <3>1. c.step \in {"stop", "restart"}
      BY <1>1, <2>1 DEF SaveInv, SendInv, DelayInv, Kinds
    <3> QED
      BY <1>1, <1>4, <3>1 DEF Called, Kept
  <2>2. run.at \in {"transfer", "publish"} => Sending
    BY DEF SaveInv, StepInv, BackupInv, RunInv, Sending, Ways
  <2> QED
    BY <1>1, <1>3, <2>1, <2>2 DEF SaveInv, SendInv
<1>7. AllBack => AllBack'
  BY <1>2, <1>3 DEF AllBack, BacksStay
<1>8. BackInv'
  BY <1>2, <1>3, <1>7 DEF SaveInv, BackInv, BacksStay
<1>9. AheadInv'
  <2> SUFFICES ASSUME ~outdated PROVE AheadInv'
    BY <1>3 DEF AheadInv
  <2>1. Ahead => \A v \in Parts : Renewed(node'[v])
    <3>1. Ahead => c.step \in {"stop", "complete", "restart"}
      BY <1>1 DEF SaveInv, AheadInv, DelayInv, Kinds
    <3>2. Ahead => \A v \in Parts : Renewed(node[v])
      BY DEF SaveInv, AheadInv
    <3> QED
      BY <1>1, <1>4, <3>1, <3>2 DEF Called, Kept
  <2>2. Started' => Started
    BY <1>1, <1>4 DEF Called, Kept, Started
  <2> QED
    BY <1>1, <1>3, <1>7, <2>1, <2>2 DEF SaveInv, AheadInv
<1>10. CompleteInv'
  BY <1>2, <1>3 DEF SaveInv, CompleteInv, Steady
<1>11. CopyInv'
  <2>1. ~Unfinished("restore") => \A v \in Parts : node'[v].save = node[v].save
    <3> SUFFICES ASSUME ~Unfinished("restore"), NEW v \in Parts PROVE node'[v].save = node[v].save
      OBVIOUS
    <3>1. CASE node[v].rcpt = "completed"
      BY <1>2, <3>1 DEF Steady
    <3>2. CASE Back(v) /\ node[v].save = "old"
      <4>1. node'[v].rcpt = "none"
        BY <1>2, <3>2 DEF BacksStay, Back
      <4> QED
        BY <1>2, <3>2, <4>1 DEF Steady, Shape
    <3> QED
      BY <3>1, <3>2, SettledSaves
  <2>2. Unfinished("restore")' <=> Unfinished("restore")
    BY <1>3 DEF Unfinished
  <2> QED
    BY <1>3, <2>1, <2>2 DEF SaveInv, CopyInv, Sure, Tainted
<1>12. DueInv'
  <2>1. \A v \in Parts : node'[v].due \in {node[v].due, "no"}
    BY <1>1, <1>4
  <2>2. "no" \notin Kinds /\ run.was \subseteq Parts /\ \A k \in Kinds : table[k] # NoOp => table[k].was \subseteq Parts
    <3>1. run.was \subseteq Parts
      BY WorldAt DEF Runs
    <3>2. \A k \in Kinds : table[k] # NoOp => table[k].was \subseteq Parts
      BY DEF BackupInv, BackupTypeOK, OpRows
    <3> QED
      BY <3>1, <3>2 DEF Kinds
  <2>3. run.at = "restart" => run.op \in Kinds
    BY DEF BackupInv, RunInv
  <2>4. \A k \in Kinds : table[k].status \in {"succeeded", "rolled_back"} => table[k] # NoOp
    BY DEF NoOp
  <2> QED
    BY <1>3, <2>1, <2>2, <2>3, <2>4 DEF SaveInv, DueInv
<1> QED
  BY <1>2, <1>5, <1>6, <1>8, <1>9, <1>10, <1>11, <1>12, Assemble

-----------------------------------------------------------------------------
(* New operations and recoveries *)

LEMMA TakenRow ==
    ASSUME BackupInv, SaveInv, NEW k \in Kinds, NEW phase \in PhaseNames, Takes(k, phase)
    PROVE  /\ table[k] = NoOp /\ table'[k] # NoOp /\ table'[k].phase = phase /\ table'[k].status = "running"
           /\ table'[k].was = {w \in Parts : Running(w)}
           /\ \A l \in Kinds : l # k => table'[l] = table[l]
           /\ NoNode /\ pleas' = pleas /\ outdated' = outdated /\ run.at = "idle" /\ run.op = "none"
           /\ \A p \in pleas : p.op # k /\ p.op \in Kinds
<1>1. /\ table[k] = NoOp /\ NoNode /\ pleas' = pleas /\ outdated' = outdated /\ run.at = "idle" /\ run.op = "none"
  BY DEF Takes, SaveInv, StepInv
<1>2. PICK W \in SUBSET Parts : W = {w \in Parts : Running(w)}
  OBVIOUS
<1> DEFINE r == [phase |-> phase, status |-> "running", was |-> W]
<1>3. r \in OpRows /\ r.phase = phase /\ r.status = "running" /\ r.was = W
  BY EndNames DEF OpRows
<1>4. table' = [table EXCEPT ![k] = r]
  BY <1>2 DEF Takes
<1> HIDE DEF r
<1>5. table'[k] = r /\ \A l \in Kinds : l # k => table'[l] = table[l]
  BY <1>4 DEF BackupInv, BackupTypeOK
<1>6. \A p \in pleas : p.op # k /\ p.op \in Kinds
  BY <1>1 DEF SaveInv, DueInv, BackupInv, BackupTypeOK
<1> QED
  BY <1>1, <1>2, <1>3, <1>5, <1>6, RowIsNew

LEMMA OpenedFields ==
    ASSUME NEW k, NEW at, NEW n, NEW phase, Opens(k, at, n, phase)
    PROVE  /\ run'.at = at /\ run'.op = k /\ run'.way = "run" /\ run'.n = n /\ run'.phase = phase
           /\ run'.status = "running" /\ ~run'.bad /\ run'.was = {w \in Parts : Running(w)}
<1>1. PICK W \in SUBSET Parts : W = {w \in Parts : Running(w)}
  OBVIOUS
<1>2. run' = [FreeRoom EXCEPT !.at = at, !.op = k, !.n = n, !.phase = phase, !.status = "running", !.was = W]
  BY <1>1 DEF Opens
<1> QED
  BY <1>1, <1>2 DEF FreeRoom

\* A new row, and the run of its operation, or none.
LEMMA DueOpens ==
    ASSUME BackupInv, SaveInv, NEW k \in Kinds, NEW phase \in PhaseNames, Takes(k, phase),
           run' = run \/ \E at, n, ph : Opens(k, at, n, ph) /\ (at = "restart" => n = 1)
    PROVE  DueInv'
<1>1. /\ table'[k] # NoOp /\ table'[k].status = "running"
      /\ table'[k].was = {w \in Parts : Running(w)}
      /\ \A l \in Kinds : l # k => table'[l] = table[l]
      /\ NoNode /\ pleas' = pleas /\ outdated' = outdated /\ run.at = "idle" /\ run.op = "none"
      /\ \A p \in pleas : p.op # k /\ p.op \in Kinds
  BY TakenRow
<1>2. \/ run'.op = "none" /\ run'.at = "idle"
      \/ /\ run'.op = k /\ run'.was = table'[k].was /\ run'.was \subseteq Parts
         /\ run'.at = "restart" => run'.n = 1
  BY <1>1, OpenedFields
<1>3. "none" \notin Kinds /\ \A w \in Parts : ~(w < 1)
  BY DEF Kinds, Parts
<1>4. \A p \in pleas' : table'[p.op] # NoOp /\ p.row.was = table'[p.op].was
  BY <1>1 DEF SaveInv, DueInv
<1>5. run'.op \in Kinds => table'[run'.op] # NoOp /\ run'.was = table'[run'.op].was
  BY <1>1, <1>2, <1>3
<1>6. run'.at = "restart" /\ ~run'.bad => \A w \in run'.was : w < run'.n => node'[w].due # run'.op
  BY <1>2, <1>3
<1>7. ASSUME ~outdated', NEW l \in Kinds, table'[l].status \in {"succeeded", "rolled_back"}
      PROVE  run'.op # l /\ \A w \in table'[l].was : node'[w].due # l
  <2>1. l # k
    BY <1>1, <1>7
  <2>2. \A w \in table[l].was : node[w].due # l
    BY <1>1, <1>7, <2>1 DEF SaveInv, DueInv
  <2> QED
    BY <1>1, <1>2, <1>3, <2>1, <2>2 DEF NoNode
<1> QED
  BY <1>4, <1>5, <1>6, <1>7 DEF DueInv

LEMMA RestoreSetSaves ==
    ASSUME BackupInv, SaveInv, RestoreSet
    PROVE  SaveInv'
<1>0. "restore" \in Kinds /\ "open" \in PhaseNames /\ Takes("restore", "open") /\ backup' = backup
  BY EndNames DEF Kinds, RestoreSet
<1>1. /\ Row = NoOp /\ Row' # NoOp /\ Row'.phase = "open" /\ Row'.status = "running"
      /\ NoNode /\ pleas' = pleas /\ outdated' = outdated
      /\ \A p \in pleas : p.op # "restore"
  BY <1>0, TakenRow DEF Row
<1>2. Steady /\ node' = node /\ deferred' = deferred
  BY <1>1, StillSteady DEF NoNode
<1>3. PICK at, n : Opens("restore", at, n, "open") /\ (at = "stop" \/ (at = "restart" /\ n = 1))
  BY DEF RestoreSet
<1>4. /\ run'.at = at /\ run'.op = "restore" /\ run'.way = "run" /\ run'.n = n /\ run'.phase = "open"
      /\ run'.status = "running"
  BY <1>3, OpenedFields
<1>5. StepInv'
  BY <1>3, <1>4 DEF StepInv, Ways, Forward, Returned
<1>6. SendInv'
  BY <1>1, <1>2, <1>3, <1>4 DEF SaveInv, SendInv
<1>7. run'.at = "restart" => AllBack'
  <2>1. \A w \in Parts : Back(w)'
    BY <1>1, <1>2 DEF SaveInv, SendInv, Back
  <2> QED
    BY <1>1, <2>1 DEF AllBack, Sending, Ways
<1>8. BackInv'
  BY <1>1, <1>3, <1>4, <1>7 DEF BackInv, Returned
<1>9. AheadInv'
  <2>1. ~outdated => ~Started
    BY <1>1 DEF SaveInv, AheadInv, AllBack, Ahead, NoOp, Forward
  <2>2. Started' <=> Started
    BY <1>2 DEF Started
  <2> QED
    BY <1>1, <1>4, <2>1, <2>2 DEF AheadInv, Ahead, Forward
<1>10. CompleteInv'
  BY <1>1, <1>3, <1>4 DEF CompleteInv, Forward
<1>11. CopyInv'
  BY <1>0, <1>1, <1>3, <1>4, CopyStays
<1>12. DueInv'
  BY <1>0, <1>3, DueOpens
<1> QED
  BY <1>2, <1>5, <1>6, <1>8, <1>9, <1>10, <1>11, <1>12, Assemble

LEMMA CreateSaves ==
    ASSUME BackupInv, SaveInv, Create
    PROVE  SaveInv'
<1>0. "create" \in Kinds /\ {"open", "notifying"} \subseteq PhaseNames
  BY DEF Kinds, PhaseNames
<1>1. PICK phase \in PhaseNames : /\ Takes("create", phase)
                                  /\ run' = run \/ \E at \in {"stop", "notify"} : \E n :
                                       Opens("create", at, n, phase) /\ phase \in {"open", "notifying"}
  BY <1>0 DEF Create
<1>2. backup'.status = "creating" /\ backup'.parts = backup.parts
  BY DEF Create, BackupInv, BackupTypeOK
<1>3. /\ NoNode /\ pleas' = pleas /\ outdated' = outdated /\ run.at = "idle" /\ run.op = "none"
      /\ table'["restore"] = table["restore"]
  BY <1>0, <1>1, TakenRow DEF Kinds
<1>4. Steady /\ BacksStay /\ Mild
  BY <1>3, StillSteady, StillMild
<1>5. \/ run' = run
      \/ /\ run'.at \in {"stop", "notify"} /\ run'.op = "create" /\ run'.way = "run"
         /\ run'.phase \in {"open", "notifying"}
  BY <1>1, OpenedFields
<1>6. StepInv'
  BY <1>3, <1>5 DEF SaveInv, StepInv, Ways, Forward, Returned
<1>7. SendInv' /\ BackInv' /\ AheadInv' /\ CompleteInv'
  <2>1. Row' = Row /\ outdated \in BOOLEAN
    BY <1>3 DEF Row, BackupInv, BackupTypeOK
  <2> QED
    BY <1>3, <1>4, <1>5, <2>1, Aside
<1>8. CopyInv'
  BY <1>2, <1>3, <1>5, CopyStays
<1>9. DueInv'
  BY <1>0, <1>1, DueOpens
<1> QED
  BY <1>4, <1>6, <1>7, <1>8, <1>9, Assemble

\* Where a recovery goes on.
LEMMA RecoverGoes ==
    ASSUME BackupInv, SaveInv, NEW p \in pleas, RecoverFrom(p)
    PROVE  /\ p.op \in Kinds /\ p.row \in OpRows /\ p.row.status \in {"running", "recovery"} /\ table[p.op] # NoOp
           /\ p.row.was = table[p.op].was /\ p.row.was \subseteq Parts
           /\ NoNode /\ table' = table /\ backup' = backup /\ pleas' \subseteq pleas /\ run.at = "idle" /\ run.op = "none"
           /\ outdated \in BOOLEAN /\ (outdated => outdated') /\ (~outdated' => table[p.op] = p.row)
           /\ run'.op = p.op /\ run'.way = "recover" /\ run'.phase = p.row.phase /\ run'.was = p.row.was
           /\ \/ run'.at = "mark"
              \/ run'.at = "fail" /\ p.op = "create"
              \/ run'.at = "restart" /\ run'.n = 1 /\ p.op = "create"
              \/ run'.at = "restart" /\ run'.n = 1 /\ p.op = "restore" /\ p.row.phase = "rollback_completed"
              \/ run'.at = "complete" /\ run'.n = 1 /\ p.op = "restore" /\ p.row.phase \in Forward
              \/ run'.at = "stop" /\ p.op = "restore" /\ p.row.phase \notin Forward \cup {"rollback_completed"}
<1>1. p.op \in Kinds /\ p.row \in OpRows /\ p.row.status \in {"running", "recovery"}
  BY DEF BackupInv, BackupTypeOK, PleaInv
<1>2. table[p.op] # NoOp /\ p.row.was = table[p.op].was /\ p.row.was \subseteq Parts
  BY <1>1 DEF SaveInv, DueInv, OpRows
<1>3. /\ NoNode /\ table' = table /\ backup' = backup /\ pleas' \subseteq pleas /\ run.at = "idle" /\ run.op = "none"
  BY DEF RecoverFrom, SaveInv, StepInv
<1>4. outdated \in BOOLEAN /\ (outdated => outdated') /\ (~outdated' => table[p.op] = p.row)
  <2>1. outdated \in BOOLEAN
    BY DEF BackupInv, BackupTypeOK
  <2>2. outdated' = (outdated \/ table[p.op] # p.row)
    BY DEF RecoverFrom
  <2>3. outdated = TRUE \/ outdated = FALSE
    BY <2>1
  <2> QED
    BY <2>2, <2>3, Zenon
<1> DEFINE Went(at, n, bad) ==
             run' = [at |-> at, op |-> p.op, way |-> "recover", n |-> n, phase |-> p.row.phase,
                     status |-> p.row.status, was |-> p.row.was, bad |-> bad]
<1>5. \A at, n, bad : Went(at, n, bad) =>
         /\ run'.at = at /\ run'.n = n /\ run'.op = p.op /\ run'.way = "recover"
         /\ run'.phase = p.row.phase /\ run'.was = p.row.was
  OBVIOUS
<1>6. \/ Went("mark", 0, FALSE)
      \/ p.op = "create" /\ (Went("fail", 0, FALSE) \/ Went("restart", 1, FALSE) \/ Went("restart", 1, TRUE))
      \/ p.op = "restore" /\ p.row.phase = "rollback_completed" /\ Went("restart", 1, FALSE)
      \/ p.op = "restore" /\ NoWayBack(p.row) /\ Went("complete", 1, FALSE)
      \/ /\ p.op = "restore" /\ p.row.phase # "rollback_completed" /\ ~NoWayBack(p.row)
         /\ Went("stop", LastPart, FALSE)
  BY DEF RecoverFrom
<1> HIDE DEF Went
<1>7. /\ run'.op = p.op /\ run'.way = "recover" /\ run'.phase = p.row.phase /\ run'.was = p.row.was
      /\ \/ run'.at = "mark"
         \/ run'.at = "fail" /\ p.op = "create"
         \/ run'.at = "restart" /\ run'.n = 1 /\ p.op = "create"
         \/ run'.at = "restart" /\ run'.n = 1 /\ p.op = "restore" /\ p.row.phase = "rollback_completed"
         \/ run'.at = "complete" /\ run'.n = 1 /\ p.op = "restore" /\ NoWayBack(p.row)
         \/ run'.at = "stop" /\ p.op = "restore" /\ p.row.phase # "rollback_completed" /\ ~NoWayBack(p.row)
  BY <1>5, <1>6
<1>8. NoWayBack(p.row) <=> p.row.phase \in Forward
  BY DEF NoWayBack, Forward
<1> QED
  BY <1>1, <1>2, <1>3, <1>4, <1>7, <1>8

LEMMA RecoverFromSaves ==
    ASSUME BackupInv, SaveInv, NEW p \in pleas, RecoverFrom(p)
    PROVE  SaveInv'
<1>1. /\ p.op \in Kinds /\ p.row.status \in {"running", "recovery"} /\ table[p.op] # NoOp
      /\ p.row.was = table[p.op].was /\ p.row.was \subseteq Parts
      /\ NoNode /\ table' = table /\ backup' = backup /\ pleas' \subseteq pleas /\ run.at = "idle" /\ run.op = "none"
      /\ outdated \in BOOLEAN /\ (outdated => outdated') /\ (~outdated' => table[p.op] = p.row)
      /\ run'.op = p.op /\ run'.way = "recover" /\ run'.phase = p.row.phase /\ run'.was = p.row.was
  BY RecoverGoes
<1>2. \/ run'.at = "mark"
      \/ run'.at = "fail" /\ p.op = "create"
      \/ run'.at = "restart" /\ run'.n = 1 /\ p.op = "create"
      \/ run'.at = "restart" /\ run'.n = 1 /\ p.op = "restore" /\ p.row.phase = "rollback_completed"
      \/ run'.at = "complete" /\ run'.n = 1 /\ p.op = "restore" /\ p.row.phase \in Forward
      \/ run'.at = "stop" /\ p.op = "restore" /\ p.row.phase \notin Forward \cup {"rollback_completed"}
  BY RecoverGoes
<1>3. Steady /\ BacksStay /\ Mild /\ Row' = Row /\ node' = node /\ deferred' = deferred
  BY <1>1, StillSteady, StillMild DEF Row, NoNode
<1>4. p.op = "restore" => /\ Row # NoOp /\ p.row.phase # "recovered"
                          /\ p.row.phase \in Returned => AllBack
  BY <1>1 DEF SaveInv, BackInv, CompleteInv, Row
<1>5. StepInv'
  BY <1>1, <1>2, <1>4 DEF StepInv, Ways, Forward, Returned
<1>6. ~Sending' /\ (AllBack => AllBack')
  <2>1. ~Sending'
    BY <1>1 DEF Sending
  <2>2. AllBack => AllBack'
    BY <1>3, <2>1, AllBackStays DEF AllBack
  <2> QED
    BY <2>1, <2>2
<1>7. SendInv' /\ BackInv' /\ AheadInv' /\ CompleteInv'
  <2>1. CASE p.op # "restore"
    BY <1>1, <1>2, <1>3, <2>1, Aside
  <2>2. CASE p.op = "restore"
    <3>1. SendInv'
      BY <1>2, <1>3, <1>4, <1>6, <2>2 DEF SendInv
    <3>2. BackInv'
      BY <1>1, <1>2, <1>3, <1>4, <1>6, <2>2 DEF SaveInv, BackInv
    <3>3. AheadInv'
      <4> SUFFICES ASSUME ~outdated' PROVE AheadInv'
        BY DEF AheadInv
      <4>1. ~outdated /\ Row = p.row /\ (Ahead' <=> Ahead) /\ (Started' <=> Started)
        BY <1>1, <1>3, <2>2 DEF Row, Ahead, Started
      <4>2. Ahead <=> run'.phase \in Forward
        BY <1>1, <4>1 DEF Ahead
      <4>3. Ahead => run'.at \in {"complete", "restart", "mark"}
        BY <1>1, <1>2, <2>2, <4>2
      <4>4. Ahead => /\ \A w \in Parts : Renewed(node'[w])
                     /\ \A c \in deferred' : c.op = "restore" => c.step \in {"stop", "complete", "restart"}
        BY <1>3, <4>1 DEF SaveInv, AheadInv
      <4>5. Started' => AllBack' \/ Ahead'
        BY <1>6, <4>1 DEF SaveInv, AheadInv
      <4> QED
        BY <4>1, <4>2, <4>3, <4>4, <4>5 DEF AheadInv
    <3>4. CompleteInv'
      <4>1. run'.at = "complete" => \A w \in Parts : ~(w < run'.n)
        BY <1>2 DEF Parts
      <4>2. run'.at = "restart" => run'.phase \notin Forward
        BY <1>1, <1>2, <2>2 DEF Forward
      <4> QED
        BY <1>1, <1>3, <1>4, <2>2, <4>1, <4>2 DEF SaveInv, CompleteInv
    <3> QED
      BY <3>1, <3>2, <3>3, <3>4
  <2> QED
    BY <2>1, <2>2
<1>8. CopyInv'
  BY <1>1, <1>2, CopyStays
<1>9. DueInv'
  <2>1. \A w \in Parts : ~(w < 1)
    BY DEF Parts
  <2>2. run'.at = "restart" => run'.n = 1
    BY <1>2
  <2>3. \A q \in pleas' : table'[q.op] # NoOp /\ q.row.was = table'[q.op].was
    BY <1>1 DEF SaveInv, DueInv
  <2>4. ~outdated' => \A k \in Kinds : table'[k].status \in {"succeeded", "rolled_back"} =>
          run'.op # k /\ \A w \in table'[k].was : node'[w].due # k
    BY <1>1, <1>3 DEF SaveInv, DueInv
  <2> QED
    BY <1>1, <2>1, <2>2, <2>3, <2>4 DEF DueInv
<1> QED
  BY <1>3, <1>5, <1>7, <1>8, <1>9, Assemble

-----------------------------------------------------------------------------
(* The invariant, and what it says of the promises *)

LEMMA SavesStart == BackupInit => SaveInv
<1> SUFFICES ASSUME BackupInit PROVE SaveInv
  OBVIOUS
<1>1. PICK up \in [Parts -> {"no", "before"}] :
        node = [w \in Parts |-> [up |-> up[w], due |-> "no", desc |-> "none", rcpt |-> "none",
                                 save |-> "old", kept |-> "none", marked |-> FALSE,
                                 conf |-> "old", spare |-> FALSE]]
  BY DEF BackupInit
<1>2. \A w \in Parts : /\ node[w].up # "restore" /\ node[w].desc = "none" /\ node[w].rcpt = "none"
                       /\ node[w].save = "old" /\ node[w].kept = "none" /\ ~node[w].marked /\ node[w].conf = "old"
  BY <1>1
<1>3. deferred = {} /\ (\A k \in Kinds : table[k] = NoOp) /\ pleas = {} /\ backup.status = "none"
  BY DEF BackupInit
<1>4. run.at = "idle" /\ run.op = "none" /\ run.way = "run" /\ run.n = 0 /\ run.phase = "none" /\ run.status = "none"
  BY DEF BackupInit, FreeRoom
<1>5. Row = NoOp /\ Row.phase = "none" /\ Row.status = "none" /\ \A k \in Kinds : table[k].status = "none"
  BY <1>3 DEF Row, NoOp, Kinds
<1>6. \A w \in Parts : Shape(node[w])
  BY <1>2 DEF Shape
<1>7. StepInv /\ DelayInv
  BY <1>3, <1>4 DEF StepInv, DelayInv, Ways
<1>8. SendInv /\ BackInv
  BY <1>2, <1>3, <1>4, <1>5 DEF SendInv, BackInv, Sending, Ways, Returned
<1>9. AheadInv
  BY <1>2, <1>3, <1>4, <1>5 DEF AheadInv, Ahead, Started, Forward
<1>10. CompleteInv
  BY <1>3, <1>4, <1>5 DEF CompleteInv
<1>11. CopyInv
  BY <1>3, <1>4 DEF CopyInv
<1>12. DueInv
  BY <1>3, <1>4, <1>5 DEF DueInv, Kinds
<1> QED
  BY <1>6, <1>7, <1>8, <1>9, <1>10, <1>11, <1>12 DEF SaveInv

LEMMA SavesStep == BackupInv /\ SaveInv /\ [BackupNext]_backupVars => SaveInv'
<1> SUFFICES ASSUME BackupInv, SaveInv, [BackupNext]_backupVars PROVE SaveInv'
  OBVIOUS
<1>1. StopWorld \/ AllQuiet \/ RestartWorld \/ Resumed \/ Mark => run.op = "create" \/ run.op = "restore"
  BY DEF StopWorld, AllQuiet, RestartWorld, Resumed, Mark, BackupInv, RunInv, Kinds
<1>2. CASE StopWorld
  BY <1>1, <1>2, StopWorldSaves1, StopWorldSaves2
<1>3. CASE AllQuiet
  BY <1>1, <1>3, AllQuietSaves1, AllQuietSaves2
<1>4. CASE RestartWorld
  BY <1>1, <1>4, RestartSaves1, RestartSaves2
<1>5. CASE Resumed
  BY <1>1, <1>5, ResumedSaves1, ResumedSaves2
<1>6. CASE Mark
  BY <1>1, <1>6, MarkSaves1, MarkSaves2
<1>7. CASE RestoreSet \/ Create
  BY <1>7, RestoreSetSaves, CreateSaves
<1>8. CASE Notify \/ StagePart \/ Finalize \/ FailCreate
  BY <1>8, NotifySaves, StagePartSaves, FinalizeSaves, FailCreateSaves
<1>9. CASE Transfer \/ SavePrepared \/ PublishPart \/ SavePublished
  BY <1>9, TransferSaves, SavePreparedSaves, PublishPartSaves, SavePublishedSaves
<1>10. CASE CompletePart \/ Completed \/ RollbackPart \/ RolledBack
  BY <1>10, CompletePartSaves, CompletedSaves, RollbackPartSaves, RolledBackSaves
<1>11. CASE (\E k \in Kinds : Plea(k)) \/ RecoverDeletions \/ RecoverOperations \/ UNCHANGED backupVars
  BY <1>11, PleasSave
<1>12. CASE \E p \in pleas : RecoverFrom(p)
  BY <1>12, RecoverFromSaves
<1>13. CASE Halt \/ Delete \/ DeleteRow \/ Purge
  BY <1>13, DeletionsSave
<1>14. CASE \E c \in deferred : LateCall(c)
  BY <1>14, LateSaves
<1> QED
  BY <1>2, <1>3, <1>4, <1>5, <1>6, <1>7, <1>8, <1>9, <1>10, <1>11, <1>12, <1>13, <1>14 DEF BackupNext

LEMMA SaveInvHolds == BackupSpec => []SaveInv
<1>1. BackupInit => SaveInv
  BY SavesStart
<1>2. SaveInv /\ BackupInv /\ [BackupNext]_backupVars => SaveInv'
  BY SavesStep
<1> QED
  BY <1>1, <1>2, BackupInvHolds, PTL DEF BackupSpec

\* A world without a receipt has its old save, and nothing of the restored files.
LEMMA BackIsOld ==
    ASSUME BackupInv, SaveInv, NEW w \in Parts, node[w].rcpt = "none"
    PROVE  node[w].save = "old" /\ node[w].conf \in {"old", "none"}
<1>1. node[w] \in Nodes
  BY DEF BackupInv, BackupTypeOK
<1> QED
  BY <1>1 DEF SaveInv, Shape, Nodes

LEMMA SavesAreSafe == BackupInv /\ SaveInv => SafeStart
<1> SUFFICES ASSUME BackupInv, SaveInv, \E w \in Parts : node[w].up = "restore", ~outdated
             PROVE  AllOf("old") \/ AllOf("new")
  BY DEF SafeStart
<1>1. AllBack \/ Ahead
  BY DEF SaveInv, AheadInv, Started
<1>2. AllBack => AllOf("old")
  BY BackIsOld DEF AllBack, Back, AllOf
<1>3. Ahead => AllOf("new")
  BY DEF SaveInv, AheadInv, Renewed, AllOf
<1> QED
  BY <1>1, <1>2, <1>3

LEMMA SavesAreSettled == BackupInv /\ SaveInv => BackupSettled
<1> SUFFICES ASSUME BackupInv, SaveInv PROVE BackupSettled
  OBVIOUS
<1>1. ASSUME table["restore"].status = "succeeded", NEW w \in Parts
      PROVE  /\ node[w].rcpt = "completed" /\ node[w].conf = "new"
             /\ node[w].save \in {"new"} \cup Tainted
  <2>1. Ahead /\ node[w].rcpt = "completed"
    BY <1>1 DEF SaveInv, CompleteInv, Row, Ahead, Forward
  <2>2. node[w].save \in {"new", "torn"} /\ node[w].conf = "new"
    BY <2>1 DEF SaveInv, Shape
  <2>3. ~outdated => node[w].save = "new"
    BY <2>1 DEF SaveInv, AheadInv, Renewed
  <2> QED
    BY <2>1, <2>2, <2>3 DEF Tainted
<1>2. table["restore"].status = "rolled_back" => AllOf("old") /\ \A w \in Parts : node[w].rcpt = "none"
  <2>1. table["restore"].status = "rolled_back" => \A w \in Parts : node[w].rcpt = "none"
    BY DEF SaveInv, CompleteInv, BackInv, AllBack, Back, Row
  <2> QED
    BY <2>1, BackIsOld DEF AllOf
<1>3. backup.status = "verified" /\ (\A w \in Parts : backup.parts[w] # "unsure") =>
        \E content \in {"old", "new"} : \A w \in Parts : backup.parts[w] \in {content} \cup Tainted
  BY DEF SaveInv, CopyInv, Sure
<1>4. \A k \in Kinds : table[k].status \in {"succeeded", "rolled_back"} /\ ~outdated =>
         \A w \in table[k].was : node[w].due # k
  BY DEF SaveInv, DueInv
<1> QED
  BY <1>1, <1>2, <1>3, <1>4 DEF BackupSettled

\* A restore, its failure path and its recovery start a world only over saves of
\* one generation, whatever calls were late, partial or lost, and whenever the
\* controller died: all from before, or all restored.
THEOREM StartIsSafe == BackupSpec => []SafeStart
<1>1. BackupInv /\ SaveInv => SafeStart
  BY SavesAreSafe
<1> QED
  BY <1>1, BackupInvHolds, SaveInvHolds, PTL

\* The status a backup or a restore ends with says what the machines hold: a
\* restore that succeeded is completed everywhere, one that is rolled back left
\* the old saves, a verified set is of one generation, and no world that was
\* stopped for it is still down.
THEOREM BackupIsSettled == BackupSpec => []BackupSettled
<1>1. BackupInv /\ SaveInv => BackupSettled
  BY SavesAreSettled
<1> QED
  BY <1>1, BackupInvHolds, SaveInvHolds, PTL

=============================================================================
