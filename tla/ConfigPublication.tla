-------------------------- MODULE ConfigPublication --------------------------
(***************************************************************************)
(* The publication of configuration files to the machines of a room:       *)
(* RemotePublisher of internal/configuration/publisher.go and, on every    *)
(* target, the Manager of internal/configpublication.                      *)
(*                                                                         *)
(* A publisher stages the files on one target after the other, publishes   *)
(* them on one after the other, reads them back, and completes; any error  *)
(* before that makes it roll back the targets it has begun with, in        *)
(* reverse order.  A target replaces file by file, after it has saved the  *)
(* old ones and a receipt.  A small save to a single target is one request *)
(* that does all of it (Apply), and that the publisher does not roll back. *)
(*                                                                         *)
(* Requests go through the command channel and the fence of the agent's    *)
(* journal (CommandChannel, AgentJournal): here a request may be executed  *)
(* long after its sender has given up, or, if it is lost, never.           *)
(***************************************************************************)
EXTENDS Integers, FiniteSets

CONSTANTS LastPublication,  \* bound: publications, by the fencing token of their lease
          LastMachine,      \* targets, in the order of publication
          LastFile,         \* files, in the order of their names
          Missing,          \* files that do not exist at first
          ScopeOf,          \* ScopeOf[p]: the targets of p
          MaxUpsets         \* bound: errors that nothing in the model makes necessary

Publications == 1 .. LastPublication
Machines == 1 .. LastMachine
Files == 1 .. LastFile

ASSUME PublicationAssumption ==
    /\ {LastPublication, LastMachine, LastFile, MaxUpsets} \subseteq Nat
    /\ Missing \subseteq Files
    /\ ScopeOf \in [Publications -> (SUBSET Machines) \ {{}}]

VARIABLES
    live,     \* live[t][f]: content of a file: the publication that wrote it
    dir,      \* dir[p][t]: the operation directory of p on t
    work,     \* work[t]: the request t executes, under the cluster's lock
    fence,    \* fence[t]: the greatest token t has admitted
    inbox,    \* inbox[t]: requests sent to t and not begun
    stage,    \* stage[p]: where the publisher is
    target,   \* target[p]: the target it is at
    begun,    \* begun[p]: the targets BeginConfiguration succeeded on
    answer,   \* answer[p]: of the request in hand
    dirty,    \* history: p may have left something behind: an undo failed
    upsets    \* errors so far

pubVars == <<live, dir, work, fence, inbox, stage, target, begun, answer, dirty, upsets>>
machineVars == <<live, dir, work, fence, inbox>>
publisherVars == <<stage, target, begun, answer, dirty>>

Gone == -1
Original(f) == IF f \in Missing THEN Gone ELSE 0
Contents == {Gone, 0} \cup Publications

Steps == {"begin", "write", "prepare", "publish", "verify", "complete", "rollback", "apply"}
Request == [pub : Publications, step : Steps]
NoWork == [pub |-> 0, step |-> "idle", mode |-> "idle", left |-> {}, failed |-> FALSE]
NoDir == [phase |-> "none", data |-> FALSE, receipt |-> FALSE, saved |-> [f \in Files |-> Gone]]

PubTypeOK ==
    /\ live \in [Machines -> [Files -> Contents]]
    /\ dir \in [Publications -> [Machines ->
                  [phase : {"none", "receiving", "prepared", "published"}, data : BOOLEAN,
                   receipt : BOOLEAN, saved : [Files -> Contents]]]]
    /\ work \in [Machines -> {NoWork} \cup
                  [pub : Publications, step : Steps, mode : {"start", "replace", "undo", "remove"},
                   left : SUBSET Files, failed : BOOLEAN]]
    /\ fence \in [Machines -> {0} \cup Publications]
    /\ inbox \in [Machines -> SUBSET Request]
    /\ stage \in [Publications -> Steps \cup {"new", "ok", "failed", "dead"}]
    /\ target \in [Publications -> Machines \cup {0}]
    /\ begun \in [Publications -> SUBSET Machines]
    /\ answer \in [Publications -> {"none", "wait", "ok", "failed"}]
    /\ dirty \in [Publications -> BOOLEAN]
    /\ upsets \in 0 .. MaxUpsets

PubInit ==
    /\ live = [t \in Machines |-> [f \in Files |-> Original(f)]]
    /\ dir = [p \in Publications |-> [t \in Machines |-> NoDir]]
    /\ work = [t \in Machines |-> NoWork]
    /\ fence = [t \in Machines |-> 0]
    /\ inbox = [t \in Machines |-> {}]
    /\ stage = [p \in Publications |-> "new"]
    /\ target = [p \in Publications |-> 0]
    /\ begun = [p \in Publications |-> {}]
    /\ answer = [p \in Publications |-> "none"]
    /\ dirty = [p \in Publications |-> FALSE]
    /\ upsets = 0

Least(S) == CHOOSE x \in S : \A y \in S : x <= y
Greatest(S) == CHOOSE x \in S : \A y \in S : y <= x

\* An error that happens of itself, unless it had to.
Upset(unless) == IF unless THEN UNCHANGED upsets
                 ELSE upsets < MaxUpsets /\ upsets' = upsets + 1


-----------------------------------------------------------------------------
(* The publisher *)

\* The lease of the room is p's: no later publication has acquired it.
Leased(p) == \A q \in Publications : q > p => stage[q] = "new"

\* The first target of the next loop.  The rollback goes backwards.
GoTo(p, step) ==
    /\ stage' = [stage EXCEPT ![p] = step]
    /\ target' = [target EXCEPT ![p] =
          IF step \in {"ok", "failed"} THEN 0
          ELSE IF step = "rollback" THEN Greatest(begun[p]) ELSE Least(ScopeOf[p])]
    /\ answer' = [answer EXCEPT ![p] = "none"]

\* The next target of the same loop, or the first of the next.
Advance(p, later, step, next) ==
    IF later = {} THEN GoTo(p, next)
    ELSE /\ stage' = [stage EXCEPT ![p] = step]
         /\ target' = [target EXCEPT ![p] = IF step = "rollback" THEN Greatest(later) ELSE Least(later)]
         /\ answer' = [answer EXCEPT ![p] = "none"]

Later(p) == {t \in ScopeOf[p] : t > target[p]}

\* Publish begins: it acquires the lease, which was released or has run out.  A
\* publication to a single target may be small enough for Apply.
Acquire(p) ==
    /\ stage[p] = "new" /\ \A q \in Publications : q < p => stage[q] # "new"
    /\ Leased(p)
    /\ \E step \in IF Cardinality(ScopeOf[p]) = 1 THEN {"begin", "apply"} ELSE {"begin"} :
          GoTo(p, step)
    /\ UNCHANGED <<machineVars, begun, dirty, upsets>>

\* Renew, then send the request of the step; the rollback is sent even if the
\* lease could not be renewed.
Send(p) ==
    /\ stage[p] \in Steps \ {"verify"} /\ answer[p] = "none"
    /\ Leased(p) \/ stage[p] = "rollback"
    /\ inbox' = [inbox EXCEPT ![target[p]] = @ \cup {[pub |-> p, step |-> stage[p]]}]
    /\ answer' = [answer EXCEPT ![p] = "wait"]
    /\ UNCHANGED <<live, dir, work, fence, stage, target, begun, dirty, upsets>>

\* What an error leads to: nothing after an Apply, a warning in the last loop,
\* else the rollback of the targets begun with.
Fail(p) ==
    \/ /\ stage[p] \in {"begin", "write", "prepare", "publish", "verify"}
       /\ IF begun[p] = {} THEN GoTo(p, "failed") ELSE GoTo(p, "rollback")
       /\ UNCHANGED dirty
    \/ /\ stage[p] = "apply"
       /\ GoTo(p, "failed")
       /\ dirty' = [dirty EXCEPT ![p] = @ \/ answer[p] # "failed"]
    \/ /\ stage[p] = "complete"
       /\ Advance(p, Later(p), "complete", "ok")
       /\ UNCHANGED dirty
    \/ /\ stage[p] = "rollback"
       /\ Advance(p, {t \in begun[p] : t < target[p]}, "rollback", "failed")
       /\ dirty' = [dirty EXCEPT ![p] = TRUE]

\* The lease cannot be renewed; in the last loop that ends the publication.
RenewError(p) ==
    /\ stage[p] \in Steps \ {"rollback", "verify"} /\ answer[p] = "none"
    /\ IF stage[p] = "complete" THEN GoTo(p, "ok") /\ UNCHANGED dirty ELSE Fail(p)
    /\ UNCHANGED <<machineVars, begun>>
    /\ Upset(FALSE)

\* The request failed, or no answer came in time.
StepError(p) ==
    /\ answer[p] \in {"wait", "failed"}
    /\ Fail(p)
    /\ UNCHANGED <<machineVars, begun>>
    /\ Upset(answer[p] = "failed")

StepDone(p) ==
    /\ answer[p] = "ok"
    /\ begun' = IF stage[p] = "begin" THEN [begun EXCEPT ![p] = @ \cup {target[p]}] ELSE begun
    /\ LET same(step) == /\ stage' = [stage EXCEPT ![p] = step]
                         /\ answer' = [answer EXCEPT ![p] = "none"]
                         /\ UNCHANGED target
       IN  \/ stage[p] = "begin" /\ same("write")
           \/ stage[p] = "write" /\ same("prepare")
           \/ stage[p] = "prepare" /\ Advance(p, Later(p), "begin", "publish")
           \/ stage[p] = "publish" /\ Advance(p, Later(p), "publish", "verify")
           \/ stage[p] = "complete" /\ Advance(p, Later(p), "complete", "ok")
           \/ stage[p] = "apply" /\ GoTo(p, "ok")
           \/ /\ stage[p] = "rollback"
              /\ Advance(p, {t \in begun[p] : t < target[p]}, "rollback", "failed")
    /\ UNCHANGED <<machineVars, dirty, upsets>>

\* verifyPublishedConfiguration: a read, which needs no lease and has no effect.
Verify(p) ==
    /\ stage[p] = "verify"
    /\ \/ /\ \A f \in Files : live[target[p]][f] = p
          /\ Advance(p, Later(p), "verify", "complete")
          /\ UNCHANGED <<dirty, upsets>>
       \/ Fail(p) /\ Upset(\E f \in Files : live[target[p]][f] # p)
    /\ UNCHANGED <<machineVars, begun>>

\* The controller dies: nothing takes the publication up again.
PublisherDies(p) ==
    /\ stage[p] \in Steps
    /\ stage' = [stage EXCEPT ![p] = "dead"]
    /\ target' = [target EXCEPT ![p] = 0]
    /\ begun' = [begun EXCEPT ![p] = {}]
    /\ answer' = [answer EXCEPT ![p] = "none"]
    /\ dirty' = [dirty EXCEPT ![p] = TRUE]
    /\ UNCHANGED machineVars
    /\ Upset(FALSE)

-----------------------------------------------------------------------------
(* A target *)

\* The answer reaches a publisher that still waits for it.
Reply(t, r, result) ==
    answer' = IF stage[r.pub] = r.step /\ target[r.pub] = t /\ answer[r.pub] = "wait"
              THEN [answer EXCEPT ![r.pub] = result] ELSE answer

\* Mutant of Fenced: the token is not compared.
FencedNever(t, r) == FALSE

\* The agent's fence.
Fenced(t, r) == r.pub < fence[t]

Refuse(t, r) ==
    /\ work[t] = NoWork /\ r \in inbox[t] /\ Fenced(t, r)
    /\ inbox' = [inbox EXCEPT ![t] = @ \ {r}]
    /\ Reply(t, r, "failed")
    /\ UNCHANGED <<live, dir, work, fence, stage, target, begun, dirty, upsets>>

\* Mutant of Admit: the fence is set behind the request's token.
AdmitBeyond(t, r) ==
    /\ work[t] = NoWork /\ r \in inbox[t] /\ ~Fenced(t, r)
    /\ inbox' = [inbox EXCEPT ![t] = @ \ {r}]
    /\ fence' = [fence EXCEPT ![t] = r.pub + 1]
    /\ work' = [work EXCEPT ![t] = [pub |-> r.pub, step |-> r.step, mode |-> "start",
                                    left |-> {}, failed |-> FALSE]]
    /\ UNCHANGED <<live, dir, publisherVars, upsets>>

Admit(t, r) ==
    /\ work[t] = NoWork /\ r \in inbox[t] /\ ~Fenced(t, r)
    /\ inbox' = [inbox EXCEPT ![t] = @ \ {r}]
    /\ fence' = [fence EXCEPT ![t] = r.pub]
    /\ work' = [work EXCEPT ![t] = [pub |-> r.pub, step |-> r.step, mode |-> "start",
                                    left |-> {}, failed |-> FALSE]]
    /\ UNCHANGED <<live, dir, publisherVars, upsets>>

Finish(t, result) ==
    /\ work' = [work EXCEPT ![t] = NoWork]
    /\ Reply(t, work[t], result)

Dir(t) == dir[work[t].pub][t]
SetDir(t, d) == dir' = [dir EXCEPT ![work[t].pub][t] = d]
Starts(t, steps) == work[t].mode = "start" /\ work[t].step \in steps

\* What the step in hand needs to succeed.
Ready(t) ==
    CASE work[t].step = "begin" -> Dir(t).phase \in {"none", "receiving"}
      [] work[t].step = "write" -> Dir(t).phase = "receiving" /\ ~Dir(t).data
      [] work[t].step = "prepare" -> \/ Dir(t).phase = "receiving" /\ Dir(t).data
                                     \/ Dir(t).phase \in {"prepared", "published"}
      [] work[t].step = "publish" -> \/ Dir(t).phase = "prepared" /\ ~Dir(t).receipt
                                     \/ Dir(t).phase = "published"
      [] work[t].step = "complete" -> Dir(t).phase = "published"
      [] work[t].step = "apply" -> Dir(t).phase = "none"
      [] OTHER -> TRUE

\* Any step may fail before it has changed anything.
StartError(t) ==
    /\ work[t].mode = "start"
    /\ Upset(~Ready(t))
    /\ Finish(t, "failed")
    /\ UNCHANGED <<live, dir, fence, inbox, stage, target, begun, dirty>>

Begin(t) ==
    /\ Starts(t, {"begin"})
    /\ \/ Dir(t).phase = "none" /\ SetDir(t, [NoDir EXCEPT !.phase = "receiving"])
       \/ Dir(t).phase = "receiving" /\ UNCHANGED dir
    /\ Finish(t, "ok")
    /\ UNCHANGED <<live, fence, inbox, stage, target, begun, dirty, upsets>>

Write(t) ==
    /\ Starts(t, {"write"})
    /\ Dir(t).phase = "receiving" /\ ~Dir(t).data
    /\ SetDir(t, [Dir(t) EXCEPT !.data = TRUE])
    /\ Finish(t, "ok")
    /\ UNCHANGED <<live, fence, inbox, stage, target, begun, dirty, upsets>>

Prepare(t) ==
    /\ Starts(t, {"prepare"})
    /\ \/ /\ Dir(t).phase = "receiving" /\ Dir(t).data
          /\ SetDir(t, [Dir(t) EXCEPT !.phase = "prepared"])
       \/ Dir(t).phase \in {"prepared", "published"} /\ UNCHANGED dir
    /\ Finish(t, "ok")
    /\ UNCHANGED <<live, fence, inbox, stage, target, begun, dirty, upsets>>

\* publish: the old files are copied, then the receipt is written.
SaveOld(t) ==
    /\ \/ Starts(t, {"publish"}) /\ Dir(t).phase = "prepared" /\ ~Dir(t).receipt
       \/ Starts(t, {"apply"}) /\ Dir(t).phase = "none"
    /\ SetDir(t, [phase |-> "prepared", data |-> TRUE, receipt |-> TRUE, saved |-> live[t]])
    /\ work' = [work EXCEPT ![t].mode = "replace", ![t].left = Files]
    /\ UNCHANGED <<live, fence, inbox, publisherVars, upsets>>

\* publish of what is published already.
PublishAgain(t) ==
    /\ Starts(t, {"publish"}) /\ Dir(t).phase = "published"
    /\ Finish(t, "ok")
    /\ UNCHANGED <<live, dir, fence, inbox, stage, target, begun, dirty, upsets>>

ReplaceFile(t) ==
    /\ work[t].mode = "replace" /\ work[t].left # {}
    /\ LET f == Least(work[t].left)
       IN  /\ live' = [live EXCEPT ![t][f] = work[t].pub]
           /\ work' = [work EXCEPT ![t].left = @ \ {f}]
    /\ UNCHANGED <<dir, fence, inbox, publisherVars, upsets>>

\* Mutant of ReplaceError: the request ends without a restore, and an Apply
\* removes its directory.
ReplaceErrorLeaves(t) ==
    /\ work[t].mode = "replace"
    /\ work' = [work EXCEPT ![t].mode = "remove", ![t].left = {}]
    /\ UNCHANGED <<live, dir, fence, inbox, publisherVars>>
    /\ Upset(FALSE)

\* A file, the receipt or the descriptor cannot be written: restore all files.
ReplaceError(t) ==
    /\ work[t].mode = "replace"
    /\ work' = [work EXCEPT ![t].mode = "undo", ![t].left = Files]
    /\ UNCHANGED <<live, dir, fence, inbox, publisherVars>>
    /\ Upset(FALSE)

Published(t) ==
    /\ work[t].mode = "replace" /\ work[t].left = {}
    /\ \/ /\ work[t].step = "publish"
          /\ SetDir(t, [Dir(t) EXCEPT !.phase = "published"])
       \/ /\ work[t].step = "apply"      \* CompletePublication, whose failure is a warning
          /\ \/ SetDir(t, NoDir)
             \/ SetDir(t, [Dir(t) EXCEPT !.phase = "published"])
    /\ Upset(work[t].step = "publish" \/ dir'[work[t].pub][t] = NoDir)
    /\ Finish(t, "ok")
    /\ UNCHANGED <<live, fence, inbox, stage, target, begun, dirty>>

\* Rollback without a receipt removes the directory at once.
BeginRollback(t) ==
    /\ Starts(t, {"rollback"})
    /\ work' = [work EXCEPT ![t].mode = IF Dir(t).receipt THEN "undo" ELSE "remove",
                            ![t].left = IF Dir(t).receipt THEN Files ELSE {}]
    /\ UNCHANGED <<live, dir, fence, inbox, publisherVars, upsets>>

\* restore goes backwards and does not stop at a file that cannot be written.
RestoreFile(t) ==
    /\ work[t].mode = "undo" /\ work[t].left # {}
    /\ LET f == Greatest(work[t].left)
       IN  \/ /\ live' = [live EXCEPT ![t][f] = Dir(t).saved[f]]
              /\ work' = [work EXCEPT ![t].left = @ \ {f}]
              /\ UNCHANGED upsets
           \/ /\ work' = [work EXCEPT ![t].left = @ \ {f}, ![t].failed = TRUE]
              /\ Upset(FALSE)
              /\ UNCHANGED live
    /\ UNCHANGED <<dir, fence, inbox, publisherVars>>

\* The end of a restore: publish reports its error, Apply and Rollback go on to
\* remove the directory unless a file could not be restored.  (Apply restores
\* twice, once in publish and once in Rollback: the second time decides.)
Restored(t) ==
    /\ work[t].mode = "undo" /\ work[t].left = {}
    /\ \/ /\ work[t].step = "publish" \/ work[t].failed
          /\ Finish(t, "failed")
          /\ dirty' = IF work[t].step = "apply" THEN [dirty EXCEPT ![work[t].pub] = TRUE] ELSE dirty
       \/ /\ work[t].step \in {"rollback", "apply"} /\ ~work[t].failed
          /\ work' = [work EXCEPT ![t].mode = "remove"]
          /\ UNCHANGED <<answer, dirty>>
    /\ UNCHANGED <<live, dir, fence, inbox, stage, target, begun, upsets>>

\* RemoveAll of the operation directory.
Remove(t) ==
    /\ work[t].mode = "remove"
    /\ SetDir(t, NoDir)
    /\ Finish(t, IF work[t].step = "rollback" THEN "ok" ELSE "failed")
    /\ UNCHANGED <<live, fence, inbox, stage, target, begun, dirty, upsets>>

RemoveError(t) ==
    /\ work[t].mode = "remove"
    /\ Finish(t, "failed")
    /\ UNCHANGED <<live, dir, fence, inbox, stage, target, begun, dirty>>
    /\ Upset(FALSE)

CompletePublication(t) ==
    /\ Starts(t, {"complete"}) /\ Dir(t).phase = "published"
    /\ SetDir(t, NoDir)
    /\ Finish(t, "ok")
    /\ UNCHANGED <<live, fence, inbox, stage, target, begun, dirty, upsets>>

\* The agent dies.  The request it executes is not taken up again.
MachineDies(t) ==
    /\ work[t] # NoWork
    /\ work' = [work EXCEPT ![t] = NoWork]
    /\ UNCHANGED <<live, dir, fence, inbox, publisherVars>>
    /\ Upset(FALSE)

-----------------------------------------------------------------------------
PublisherStep(p) == Send(p) \/ StepError(p) \/ StepDone(p) \/ RenewError(p) \/ Verify(p)

MachineStep(t) ==
    \/ \E r \in Request : Refuse(t, r) \/ Admit(t, r)
    \/ StartError(t) \/ Begin(t) \/ Write(t) \/ Prepare(t) \/ SaveOld(t) \/ PublishAgain(t)
    \/ ReplaceFile(t) \/ ReplaceError(t) \/ Published(t)
    \/ BeginRollback(t) \/ RestoreFile(t) \/ Restored(t) \/ Remove(t) \/ RemoveError(t)
    \/ CompletePublication(t)

PubNext ==
    \/ \E p \in Publications : Acquire(p) \/ PublisherStep(p) \/ PublisherDies(p)
    \/ \E t \in Machines : MachineStep(t) \/ MachineDies(t)

PubSpec == PubInit /\ [][PubNext]_pubVars

-----------------------------------------------------------------------------
(* Properties *)

\* The publication whose files t should have when every publication ended well
\* or was undone.
Current(t) == LET done == {p \in Publications : t \in ScopeOf[p] /\ stage[p] = "ok"}
              IN  IF done = {} THEN 0 ELSE Greatest(done)

\* All or nothing: when every publication so far has succeeded, or has failed with
\* its undoing confirmed, all targets have all files of the last success, whatever
\* requests were late, lost or executed after their sender had given up.
AllOrNothing ==
    (\A p \in Publications : stage[p] \in {"new", "ok", "failed"} /\ ~dirty[p]) =>
        \A t \in Machines, f \in Files :
            live[t][f] = IF Current(t) = 0 THEN Original(f) ELSE Current(t)

\* A publication, its rollback above all, never changes a file that a later
\* publication wrote: a publisher that lost its lease cannot undo its successor.
NoClobber ==
    [][\A t \in Machines, f \in Files :
          live'[t][f] # live[t][f] => live[t][f] <= work[t].pub]_pubVars
=============================================================================
