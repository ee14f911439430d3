---------------------------- MODULE ModPublication ----------------------------
(***************************************************************************)
(* The two-phase publication of mods to several installations              *)
(* (internal/modpublication). The coordinator prepares every target,       *)
(* publishes on every target, records a commit decision and then completes *)
(* every target; before the decision a failure rolls the targets back, and *)
(* a publication that was cut short is recovered, forward or backward, by  *)
(* a restart or by a retry.                                                *)
(*                                                                         *)
(* A run of the coordinator over one publication is an attempt: the first  *)
(* one publishes, the later ones recover. An attempt takes the leases of   *)
(* all targets at once and its number is its fencing token. A target is an *)
(* installation with its journal (module ModDistribution), reduced to the  *)
(* phase of its open release: each of its handlers is one step here.       *)
(* Calls may fail before or after they took effect, or take effect late;   *)
(* leases lapse, the store fails, the controller and the agents restart.   *)
(***************************************************************************)
EXTENDS Integers, FiniteSets

CONSTANTS
    LastModPublication, \* publications are 1 .. LastModPublication
    LastInstallation, \* targets are 1 .. LastInstallation, in the order of the plan
    LastAttempt,      \* bound: attempts are 1 .. LastAttempt
    MaxMishaps,       \* bound: failed calls and saves, lapses, crashes
    MaxDelayed,       \* bound: calls that take effect after the coordinator gave up on them
    MaxReboots        \* bound: restarts of agents

Publications == 1 .. LastModPublication
Installations == 1 .. LastInstallation
Attempts == 1 .. LastAttempt

ASSUME ModAssumption ==
    /\ LastModPublication \in Nat \ {0}
    /\ LastInstallation \in Nat \ {0}
    /\ LastAttempt \in Nat \ {0}
    /\ MaxMishaps \in Nat
    /\ MaxDelayed \in Nat
    /\ MaxReboots \in Nat

VARIABLES
    record,     \* record[p]: the publication's row in the store
    attempt,    \* attempt[a]: what attempt a holds in memory
    tries,      \* how many attempts were started
    fences,     \* how many times the leases were taken: the last fencing token
    holder,     \* the attempt that holds the leases, 0 for none
    release,    \* release[i]: the open journal of installation i
    installed,  \* installed[i]: the publication installation i committed last
    seen,       \* seen[i]: the highest fencing token installation i has met
    delayed,    \* calls that have not taken effect yet
    reached,    \* history: the installations that ever published p
    finished,   \* history: the installations that ever committed p
    mishaps,
    reboots,
    strays

modVars == <<record, attempt, tries, fences, holder, release, installed, seen, delayed,
             reached, finished, mishaps, reboots, strays>>

\* "recovered" is rolled_back with the code RECOVERED_WITHOUT_COMMIT.
TerminalStatus == {"succeeded", "failed", "rolled_back", "recovered"}
RecordStatus == TerminalStatus \cup
    {"absent", "previewed", "preparing", "prepared", "publishing", "committed", "completing", "recovery_required"}

Closed == [pub |-> 0, phase |-> "none"]
Opened(p, phase) == [pub |-> p, phase |-> phase]

TargetCalls == {"prepare", "publish", "complete", "rollback"}

Places == TargetCalls \cup {"none", "acquire", "prepared", "publishing", "published", "decide", "completing", "end", "done"}

\* token: its fencing token; at: the installation it is at; flagged: the
\* installations it has to roll back; status, decided: the row as a recovery
\* read it, and the attempt's copy of the commit decision; errs: an
\* installation failed; recovery: it was started by RecoverOne.
NoAttempt == [pub |-> 0, pc |-> "none", token |-> 0, at |-> 1, flagged |-> {}, status |-> "absent",
              decided |-> FALSE, errs |-> FALSE, recovery |-> FALSE]

ModInit ==
    /\ record = [p \in Publications |-> [status |-> "absent", decided |-> FALSE]]
    /\ attempt = [a \in Attempts |-> NoAttempt]
    /\ tries = 0
    /\ fences = 0
    /\ holder = 0
    /\ release = [i \in Installations |-> Closed]
    /\ installed = [i \in Installations |-> 0]
    /\ seen = [i \in Installations |-> 0]
    /\ delayed = {}
    /\ reached = [p \in Publications |-> {}]
    /\ finished = [p \in Publications |-> {}]
    /\ mishaps = 0
    /\ reboots = 0
    /\ strays = 0

-----------------------------------------------------------------------------
(* The installation: what a call does *)

MayDo(call, p, i) ==
    CASE call = "prepare" -> release[i].pub \in {0, p}
      [] call = "publish" -> release[i].pub = p
      [] call = "complete" -> release[i] = Opened(p, "published") \/ (release[i].pub # p /\ installed[i] = p)
      [] call = "rollback" -> TRUE

AfterCall(call, p, i) ==
    CASE call = "prepare" -> IF release[i] = Closed THEN Opened(p, "prepared") ELSE release[i]
      [] call = "publish" -> Opened(p, "published")
      [] OTHER -> IF release[i].pub = p THEN Closed ELSE release[i]

\* Mutant of Admitted: tokens are not compared.
AdmittedAny(token, i) == TRUE

\* The agent's operation journal refuses a token lower than one it has met.
Admitted(token, i) == token >= seen[i]

Perform(call, p, token, i) ==
    /\ Admitted(token, i)
    /\ MayDo(call, p, i)
    /\ seen' = [seen EXCEPT ![i] = token]
    /\ release' = [release EXCEPT ![i] = AfterCall(call, p, i)]
    /\ installed' = IF call = "complete" THEN [installed EXCEPT ![i] = p] ELSE installed
    /\ finished' = IF call = "complete" THEN [finished EXCEPT ![p] = @ \cup {i}] ELSE finished
    /\ reached' = IF call = "publish" THEN [reached EXCEPT ![p] = @ \cup {i}] ELSE reached

\* A restarted agent recovers its journals before it serves mods again, and
\* rolls back what is not committed there (ModDistribution!Recover).
Reboot(i) ==
    /\ reboots < MaxReboots
    /\ reboots' = reboots + 1
    /\ release[i] # Closed
    /\ release' = [release EXCEPT ![i] = Closed]
    /\ UNCHANGED <<record, attempt, tries, fences, holder, installed, seen, delayed, reached, finished, mishaps, strays>>

-----------------------------------------------------------------------------
(* The attempt: starting and ending *)

pub(a) == attempt[a].pub
pc(a) == attempt[a].pc

Goto(a, place) == attempt' = [attempt EXCEPT ![a].pc = place, ![a].at = 1]

installationVars == <<release, installed, seen, delayed, reached, finished>>

\* beginTransaction: the leases, the row, the second preview and the status
\* "preparing".
Start(p) ==
    /\ record[p].status = "absent"
    /\ tries < LastAttempt
    /\ holder = 0
    /\ tries' = tries + 1
    /\ fences' = fences + 1
    /\ holder' = tries + 1
    /\ record' = [record EXCEPT ![p].status = "preparing"]
    /\ attempt' = [attempt EXCEPT ![tries + 1] =
            [NoAttempt EXCEPT !.pub = p, !.pc = "prepare", !.token = fences + 1]]
    /\ UNCHANGED <<installationVars, mishaps, reboots, strays>>

\* A row whose preview no longer holds, or whose backup fails, ends as failed;
\* if that cannot be saved either it stays as it was created.
StartFails(p) ==
    /\ record[p].status = "absent"
    /\ holder = 0
    /\ mishaps < MaxMishaps
    /\ mishaps' = mishaps + 1
    /\ \E status \in {"failed", "previewed"} : record' = [record EXCEPT ![p].status = status]
    /\ UNCHANGED <<attempt, tries, fences, holder, installationVars, reboots, strays>>

\* Mutant of RecoverRead: what was published everywhere counts as decided.
RecoverReadEager(p) ==
    /\ record[p].status \notin TerminalStatus \cup {"absent"}
    /\ tries < LastAttempt
    /\ tries' = tries + 1
    /\ attempt' = [attempt EXCEPT ![tries + 1] =
            [NoAttempt EXCEPT !.pub = p, !.pc = "acquire", !.status = record[p].status,
                              !.decided = record[p].decided \/ record[p].status = "publishing",
                              !.flagged = Installations, !.recovery = TRUE]]
    /\ UNCHANGED <<record, fences, holder, installationVars, mishaps, reboots, strays>>

\* RecoverOne reads the row before it takes the leases.
RecoverRead(p) ==
    /\ record[p].status \notin TerminalStatus \cup {"absent"}
    /\ tries < LastAttempt
    /\ tries' = tries + 1
    /\ attempt' = [attempt EXCEPT ![tries + 1] =
            [NoAttempt EXCEPT !.pub = p, !.pc = "acquire",
                              !.status = record[p].status, !.decided = record[p].decided,
                              !.flagged = Installations, !.recovery = TRUE]]
    /\ UNCHANGED <<record, fences, holder, installationVars, mishaps, reboots, strays>>

\* The row as it was read is written back with the new leases; leases that
\* someone holds end the attempt.
RecoverAcquire(a) ==
    /\ pc(a) = "acquire"
    /\ \/ /\ holder = 0
          /\ holder' = a
          /\ fences' = fences + 1
          /\ record' = [record EXCEPT ![pub(a)] =
                [status |-> attempt[a].status, decided |-> attempt[a].decided]]
          /\ attempt' = [attempt EXCEPT
                ![a].token = fences + 1,
                ![a].pc = IF attempt[a].decided THEN "completing" ELSE "rollback",
                ![a].at = IF attempt[a].decided THEN 1 ELSE LastInstallation]
       \/ /\ holder # 0
          /\ Goto(a, "done")
          /\ UNCHANGED <<record, fences, holder>>
    /\ UNCHANGED <<tries, installationVars, mishaps, reboots, strays>>

Released(a) == IF holder = a THEN 0 ELSE holder

-----------------------------------------------------------------------------
(* The attempt: calls *)

\* rollbackAfterFailure goes through the installations in reverse and skips
\* the ones whose cache was never ensured.
Flagged(a) == IF pc(a) = "prepare" THEN {attempt[a].at} ELSE {}

Failing(a) ==
    attempt' = [attempt EXCEPT ![a].pc = "rollback", ![a].at = LastInstallation]

\* A call that went well, at an installation.
Advance(a, place) ==
    attempt' = [attempt EXCEPT
        ![a].flagged = @ \cup Flagged(a),
        ![a].pc = IF attempt[a].at = LastInstallation THEN place ELSE @,
        ![a].at = IF attempt[a].at = LastInstallation THEN 1 ELSE @ + 1]

\* A call that did not: before the decision the attempt turns to rolling
\* back, after it and during a rollback it goes on and remembers the error.
NextUndo(a) ==
    [attempt[a] EXCEPT !.pc = IF @ = "rollback" /\ attempt[a].at = 1 THEN "end" ELSE @,
                       !.at = IF @ = 1 THEN 1 ELSE @ - 1]

AfterPlace == [prepare |-> "prepared", publish |-> "published", complete |-> "end"]

Answered(a) ==
    IF pc(a) = "rollback"
      THEN attempt' = [attempt EXCEPT ![a] = NextUndo(a)]
      ELSE Advance(a, AfterPlace[pc(a)])

Errored(a) ==
    IF pc(a) = "rollback"
      THEN attempt' = [attempt EXCEPT ![a] = [NextUndo(a) EXCEPT !.errs = TRUE]]
      ELSE IF pc(a) = "complete"
        THEN attempt' = [attempt EXCEPT
                ![a].errs = TRUE,
                ![a].pc = IF attempt[a].at = LastInstallation THEN "end" ELSE @,
                ![a].at = IF attempt[a].at = LastInstallation THEN 1 ELSE @ + 1]
        ELSE attempt' = [attempt EXCEPT
                ![a].flagged = @ \cup Flagged(a), ![a].pc = "rollback", ![a].at = LastInstallation]

Calling(a) == pc(a) \in TargetCalls /\ (pc(a) = "rollback" => attempt[a].at \in attempt[a].flagged)

\* renewFences before the call, the call, its answer.
CallTarget(a) ==
    /\ Calling(a)
    /\ holder = a
    /\ Perform(pc(a), pub(a), attempt[a].token, attempt[a].at)
    /\ Answered(a)
    /\ UNCHANGED <<record, tries, fences, holder, delayed, mishaps, reboots, strays>>

\* The leases are gone, or the installation refuses.
Refused(a) ==
    /\ Calling(a)
    /\ \/ holder # a
       \/ ~ Admitted(attempt[a].token, attempt[a].at)
       \/ ~ MayDo(pc(a), pub(a), attempt[a].at)
    /\ Errored(a)
    /\ UNCHANGED <<record, tries, fences, holder, installationVars, mishaps, reboots, strays>>

\* The call fails: without effect, after it took effect, or before it does.
Fails(a) ==
    /\ Calling(a)
    /\ holder = a
    /\ mishaps < MaxMishaps
    /\ mishaps' = mishaps + 1
    /\ Errored(a)
    /\ \/ UNCHANGED <<installationVars, strays>>
       \/ /\ Perform(pc(a), pub(a), attempt[a].token, attempt[a].at)
          /\ UNCHANGED <<delayed, strays>>
       \/ /\ strays < MaxDelayed
          /\ strays' = strays + 1
          /\ delayed' = delayed \cup {[call |-> pc(a), pub |-> pub(a), token |-> attempt[a].token, at |-> attempt[a].at]}
          /\ UNCHANGED <<release, installed, seen, reached, finished>>
    /\ UNCHANGED <<record, tries, fences, holder, reboots>>

\* The leases are gone before EnsureCache, or it fails: this installation is
\* not rolled back.
CacheFails(a) ==
    /\ pc(a) = "prepare"
    /\ \/ holder # a /\ UNCHANGED mishaps
       \/ mishaps < MaxMishaps /\ mishaps' = mishaps + 1
    /\ Failing(a)
    /\ UNCHANGED <<record, tries, fences, holder, installationVars, reboots, strays>>

SkipUndo(a) ==
    /\ pc(a) = "rollback" /\ attempt[a].at \notin attempt[a].flagged
    /\ attempt' = [attempt EXCEPT ![a] = NextUndo(a)]
    /\ UNCHANGED <<record, tries, fences, holder, installationVars, mishaps, reboots, strays>>

\* A delayed call takes effect, or is refused by then.
Arrive(c) ==
    /\ c \in delayed
    /\ delayed' = delayed \ {c}
    /\ IF Admitted(c.token, c.at) /\ MayDo(c.call, c.pub, c.at)
         THEN Perform(c.call, c.pub, c.token, c.at)
         ELSE UNCHANGED <<release, installed, seen, reached, finished>>
    /\ UNCHANGED <<record, attempt, tries, fences, holder, mishaps, reboots, strays>>

-----------------------------------------------------------------------------
(* The attempt: the store *)

WriteRow(a, status) == record' = [record EXCEPT ![pub(a)] = [status |-> status, decided |-> attempt[a].decided]]

\* Store.Save of "prepared" and "publishing", and the one after the last
\* publish, which leaves the status.
SavedStatus == [prepared |-> "prepared", publishing |-> "publishing", published |-> "publishing"]
AfterSave == [prepared |-> "publishing", publishing |-> "publish", published |-> "decide"]

Save(a) ==
    /\ pc(a) \in DOMAIN SavedStatus
    /\ WriteRow(a, SavedStatus[pc(a)])
    /\ Goto(a, AfterSave[pc(a)])
    /\ UNCHANGED <<tries, fences, holder, installationVars, mishaps, reboots, strays>>

\* A failed Save returns an empty publication, and the rollback that follows
\* goes through its targets: none. The row stays as it is.
SaveFails(a) ==
    /\ pc(a) \in DOMAIN SavedStatus
    /\ mishaps < MaxMishaps
    /\ mishaps' = mishaps + 1
    /\ Goto(a, "done")
    /\ holder' = Released(a)
    /\ UNCHANGED <<record, tries, fences, installationVars, reboots, strays>>

\* Commit: renew, then DecideCommit, which only looks at the row's own
\* decision.
Decide(a) ==
    /\ pc(a) = "decide"
    /\ holder = a
    /\ record' = [record EXCEPT ![pub(a)] = [status |-> "committed", decided |-> TRUE]]
    /\ attempt' = [attempt EXCEPT ![a].pc = "completing", ![a].decided = TRUE]
    /\ UNCHANGED <<tries, fences, holder, installationVars, mishaps, reboots, strays>>

\* The renewal fails, or the update does: roll back. When the update was made
\* and neither read of the row succeeds, the attempt does not know it.
DecideFails(a) ==
    /\ pc(a) = "decide"
    /\ \/ /\ holder # a
          /\ UNCHANGED <<record, mishaps>>
       \/ /\ mishaps < MaxMishaps
          /\ mishaps' = mishaps + 1
          /\ \/ UNCHANGED record
             \/ record' = [record EXCEPT ![pub(a)] = [status |-> "committed", decided |-> TRUE]]
    /\ Failing(a)
    /\ UNCHANGED <<tries, fences, holder, installationVars, reboots, strays>>

\* completeCommitted: the status "completing" first; if that fails the
\* publication waits for its recovery.
SaveCompleting(a) ==
    /\ pc(a) = "completing"
    /\ \/ /\ WriteRow(a, "completing")
          /\ Goto(a, "complete")
          /\ UNCHANGED <<holder, mishaps>>
       \/ /\ mishaps < MaxMishaps
          /\ mishaps' = mishaps + 1
          /\ \/ WriteRow(a, "recovery_required")
             \/ UNCHANGED record
          /\ Goto(a, "done")
          /\ holder' = Released(a)
    /\ UNCHANGED <<tries, fences, installationVars, reboots, strays>>

EndStatus(a) ==
    IF attempt[a].errs THEN "recovery_required"
    ELSE IF attempt[a].decided THEN "succeeded"
    ELSE IF attempt[a].recovery THEN "recovered"
    ELSE IF attempt[a].flagged = {} THEN "failed" ELSE "rolled_back"

\* The last Save, and the release of the leases.
End(a) ==
    /\ pc(a) = "end"
    /\ \/ /\ WriteRow(a, EndStatus(a))
          /\ UNCHANGED mishaps
       \/ /\ mishaps < MaxMishaps
          /\ mishaps' = mishaps + 1
          /\ UNCHANGED record
    /\ Goto(a, "done")
    /\ holder' = Released(a)
    /\ UNCHANGED <<tries, fences, installationVars, reboots, strays>>

-----------------------------------------------------------------------------
(* Leases and restarts *)

Lapse ==
    /\ holder # 0
    /\ holder' = 0
    /\ pc(holder) # "done" => mishaps < MaxMishaps
    /\ mishaps' = IF pc(holder) # "done" THEN mishaps + 1 ELSE mishaps
    /\ UNCHANGED <<record, attempt, tries, fences, installationVars, reboots, strays>>

\* The controller dies; its leases stay in the store until they lapse.
Die ==
    /\ mishaps < MaxMishaps
    /\ \E a \in Attempts : pc(a) \notin {"none", "done"}
    /\ mishaps' = mishaps + 1
    /\ attempt' = [a \in Attempts |-> IF pc(a) = "none" THEN attempt[a] ELSE [attempt[a] EXCEPT !.pc = "done"]]
    /\ UNCHANGED <<record, tries, fences, holder, installationVars, reboots, strays>>

ModNext ==
    \/ \E p \in Publications : Start(p) \/ StartFails(p) \/ RecoverRead(p)
    \/ \E a \in Attempts :
        \/ RecoverAcquire(a)
        \/ CallTarget(a) \/ Refused(a) \/ Fails(a) \/ CacheFails(a) \/ SkipUndo(a)
        \/ Save(a) \/ SaveFails(a) \/ Decide(a) \/ DecideFails(a)
        \/ SaveCompleting(a) \/ End(a)
    \/ \E c \in delayed : Arrive(c)
    \/ \E i \in Installations : Reboot(i)
    \/ Lapse \/ Die

ModSpec == ModInit /\ [][ModNext]_modVars

-----------------------------------------------------------------------------
(* Properties *)

ModTypeOK ==
    /\ record \in [Publications -> [status : RecordStatus, decided : BOOLEAN]]
    /\ attempt \in [Attempts -> [pub : 0 .. LastModPublication, pc : Places,
                                 token : 0 .. LastAttempt, at : Installations, status : RecordStatus,
                                 flagged : SUBSET Installations, decided : BOOLEAN,
                                 errs : BOOLEAN, recovery : BOOLEAN]]
    /\ tries \in 0 .. LastAttempt
    /\ fences \in 0 .. LastAttempt
    /\ holder \in 0 .. LastAttempt
    /\ release \in [Installations -> [pub : 0 .. LastModPublication, phase : {"none", "prepared", "published"}]]
    /\ installed \in [Installations -> 0 .. LastModPublication]
    /\ seen \in [Installations -> 0 .. LastAttempt]
    /\ delayed \subseteq [call : TargetCalls, pub : Publications, token : Attempts, at : Installations]
    /\ reached \in [Publications -> SUBSET Installations]
    /\ finished \in [Publications -> SUBSET Installations]

\* A publication that is recorded as succeeded was committed by every
\* installation of its plan.
SucceededWhole ==
    \A p \in Publications : record[p].status = "succeeded" => finished[p] = Installations

\* No installation commits a publication before every one has published it.
PublishedBeforeCommit ==
    \A p \in Publications : finished[p] # {} => reached[p] = Installations

\* The decision in the row binds every installation, whichever attempt acts on it.
DecisionObeyed == SucceededWhole /\ PublishedBeforeCommit

\* After a recovery without a decision no installation has the publication
\* open: not even when a call of the attempt before it arrives late.
RecoveredClean ==
    \A p \in Publications, i \in Installations :
        record[p].status = "recovered" => release[i].pub # p

\* A decided publication only goes forward: every installation has committed
\* it or holds it published, ready to be completed.
DecidedForward ==
    \A p \in Publications : record[p].decided =>
        \A i \in Installations : i \in finished[p] \/ release[i] = Opened(p, "published")
=============================================================================
