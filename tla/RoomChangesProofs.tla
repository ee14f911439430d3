------------------------- MODULE RoomChangesProofs -------------------------
(***************************************************************************)
(* Proofs about the operations that change a room's files, for every       *)
(* number of publications, machines and files.                             *)
(*                                                                         *)
(* Configuration publication: a publication never changes a file that a    *)
(* later one wrote.  The argument is the fence of the targets: what a      *)
(* target executes carries the token of its fence, a file is never newer   *)
(* than the fence, and what a directory saved is never newer than the      *)
(* publication it belongs to (FenceInv).  And a publication is all or      *)
(* nothing: the invariant (WholeInv) says what a target has at any moment. *)
(* A publication stands on a target, is undone, or is halfway there        *)
(* (Stands, Undone, Halved); unless an earlier one is halfway, the files   *)
(* of the target are those of the last that it admitted, or those of the   *)
(* publications before (BaseOf), which are what that one has saved.  This  *)
(* holds as long as every undoing was confirmed (Clean).                   *)
(*                                                                         *)
(* Placement migration: the world is never lost, and a migration leaves    *)
(* what it reports.  Every directory of the world carries the number of    *)
(* the migration whose copy it is; the invariant (MigInv) says for each    *)
(* migration what its marks, receipts, tokens and late requests mean.  An  *)
(* undecided copy is never alone: the other machine holds the world, and   *)
(* as what an earlier, committed migration left there.                     *)
(***************************************************************************)
EXTENDS ConfigPublication, PlacementMigration, TLAPS, WellFoundedInduction, FiniteSetTheorems

\* The fence of a target: the request in hand has its token, and no file is newer;
\* what an operation directory has saved is older than its publication.
FenceInv ==
    /\ \A t \in Machines : work[t] # NoWork => work[t].pub = fence[t]
    /\ \A t \in Machines, f \in Files : live[t][f] <= fence[t]
    /\ \A p \in Publications, t \in Machines, f \in Files : dir[p][t].saved[f] <= p

\* A publisher that is at work is at a target.
AtTarget == \A p \in Publications : stage[p] \in Steps => target[p] \in Machines

PubInv == PubTypeOK /\ AtTarget /\ FenceInv

-----------------------------------------------------------------------------
(* The ends of a loop *)

LEMMA LeastOf ==
    ASSUME NEW S \in SUBSET Nat, S # {}
    PROVE  Least(S) \in S /\ \A y \in S : Least(S) <= y
<1> DEFINE R == OpToRel(<, Nat)
<1>1. IsWellFoundedOn(R, Nat)
  BY NatLessThanWellFounded
<1>2. \A x, y \in Nat : x < y => <<x, y>> \in R
  BY DEF OpToRel
<1> HIDE DEF R
<1>3. PICK x \in S : \A y \in S : ~(<<y, x>> \in R)
  BY <1>1, WFMin
<1>4. \A y \in S : ~(y < x)
  BY <1>2, <1>3
<1>5. x \in Nat /\ \A y \in S : y \in Nat
  OBVIOUS
<1>6. \A y \in S : x <= y
  BY <1>4, <1>5
<1> QED
  BY <1>6 DEF Least

LEMMA GreatestOf ==
    ASSUME NEW n \in Nat, NEW S \in SUBSET (1 .. n), S # {}
    PROVE  Greatest(S) \in S /\ \A y \in S : y <= Greatest(S)
<1>0. \A y \in S : y \in Nat
  OBVIOUS
<1> DEFINE U == {n - x : x \in S}
<1>1. U \in SUBSET Nat /\ U # {}
  <2>1. \A x \in S : x \in 1 .. n /\ n - x \in Nat
    OBVIOUS
  <2> QED
    BY <2>1
<1> DEFINE R == OpToRel(<, Nat)
<1>2. IsWellFoundedOn(R, Nat)
  BY NatLessThanWellFounded
<1>3. \A x, y \in Nat : x < y => <<x, y>> \in R
  BY DEF OpToRel
<1> HIDE DEF R
<1>4. PICK u \in U : \A v \in U : ~(<<v, u>> \in R)
  BY <1>1, <1>2, WFMin
<1>5. PICK x \in S : u = n - x
  OBVIOUS
<1>6. \A y \in S : ~(n - y < n - x)
  BY <1>1, <1>3, <1>4, <1>5
<1>7. n \in Nat /\ x \in Nat
  BY <1>0
<1> HIDE DEF U
<1>8. \A y \in S : y <= x
  BY <1>0, <1>6, <1>7
<1> QED
  BY <1>8 DEF Greatest

\* The sets the loops run over.
LEMMA LoopEnds ==
    /\ \A S \in SUBSET Machines : S # {} => Least(S) \in S /\ Greatest(S) \in S
    /\ \A S \in SUBSET Machines : S # {} => \A y \in S : Least(S) <= y /\ y <= Greatest(S)
    /\ \A S \in SUBSET Files : S # {} => Least(S) \in S /\ Greatest(S) \in S
<1>1. LastMachine \in Nat /\ LastFile \in Nat /\ Machines \in SUBSET Nat /\ Files \in SUBSET Nat
  BY PublicationAssumption DEF Machines, Files
<1>2. \A S \in SUBSET Machines : S # {} => Greatest(S) \in S /\ \A y \in S : y <= Greatest(S)
  BY <1>1, GreatestOf DEF Machines
<1>3. \A S \in SUBSET Files : S # {} => Greatest(S) \in S
  BY <1>1, GreatestOf DEF Files
<1>4. \A S : S \in SUBSET Nat /\ S # {} => Least(S) \in S /\ \A y \in S : Least(S) <= y
  BY LeastOf
<1> QED
  BY <1>1, <1>2, <1>3, <1>4

-----------------------------------------------------------------------------
(* The publisher *)

StageNames == Steps \cup {"new", "ok", "failed", "dead"}

\* The part of the type invariant that GoTo and Advance change.
LoopTypeOK ==
    /\ stage \in [Publications -> StageNames]
    /\ target \in [Publications -> Machines \cup {0}]
    /\ answer \in [Publications -> {"none", "wait", "ok", "failed"}]
    /\ AtTarget

LEMMA LoopMoves ==
    ASSUME LoopTypeOK, NEW p \in Publications, NEW step \in StageNames, NEW u \in Machines \cup {0},
           step \in Steps => u \in Machines,
           stage' = [stage EXCEPT ![p] = step], target' = [target EXCEPT ![p] = u],
           answer' = [answer EXCEPT ![p] = "none"]
    PROVE  LoopTypeOK'
  BY DEF LoopTypeOK, StageNames, AtTarget

LEMMA GoToTypes ==
    ASSUME PubTypeOK, LoopTypeOK, NEW p \in Publications, NEW step \in StageNames,
           step = "rollback" => begun[p] # {}, GoTo(p, step)
    PROVE  LoopTypeOK'
<1>1. begun[p] \in SUBSET Machines
  BY DEF PubTypeOK
<1>3. ScopeOf[p] \in SUBSET Machines /\ ScopeOf[p] # {}
  BY PublicationAssumption
<1>2. Least(ScopeOf[p]) \in Machines /\ (step = "rollback" => Greatest(begun[p]) \in Machines)
  BY <1>1, <1>3, LoopEnds
<1>4. PICK u \in Machines \cup {0} : target' = [target EXCEPT ![p] = u] /\ (step \in Steps => u \in Machines)
  BY <1>2 DEF GoTo, Steps
<1> QED
  BY <1>4, LoopMoves DEF GoTo

LEMMA AdvanceTypes ==
    ASSUME PubTypeOK, LoopTypeOK, NEW p \in Publications, NEW later \in SUBSET Machines,
           NEW step \in StageNames, NEW next \in StageNames \ {"rollback"},
           Advance(p, later, step, next)
    PROVE  LoopTypeOK'
<1>1. CASE later = {}
  <2>1. GoTo(p, next)
    BY <1>1 DEF Advance
  <2> QED
    BY <2>1, GoToTypes
<1>2. CASE later # {}
  <2>1. Least(later) \in Machines /\ Greatest(later) \in Machines
    BY <1>2, LoopEnds
  <2>2. PICK u \in Machines : target' = [target EXCEPT ![p] = u]
    BY <1>2, <2>1 DEF Advance
  <2> QED
    BY <1>2, <2>2, LoopMoves DEF Advance
<1> QED
  BY <1>1, <1>2

LEMMA LaterTargets ==
    ASSUME PubTypeOK, NEW p \in Publications
    PROVE  Later(p) \in SUBSET Machines /\ {t \in begun[p] : t < target[p]} \in SUBSET Machines
  BY PublicationAssumption DEF PubTypeOK, Later

LEMMA FailTypes ==
    ASSUME PubTypeOK, LoopTypeOK, NEW p \in Publications, Fail(p)
    PROVE  LoopTypeOK' /\ dirty' \in [Publications -> BOOLEAN]
<1> USE DEF StageNames, Steps
<1>1. dirty' \in [Publications -> BOOLEAN]
  <2>1. dirty \in [Publications -> BOOLEAN] /\ dirty[p] \in BOOLEAN
    BY DEF PubTypeOK
  <2>2. \/ UNCHANGED dirty \/ dirty' = [dirty EXCEPT ![p] = TRUE]
        \/ dirty' = [dirty EXCEPT ![p] = @ \/ answer[p] # "failed"]
    BY DEF Fail
  <2> QED
    BY <2>1, <2>2
<1>2. LoopTypeOK'
  <2>1. CASE \E step \in {"failed", "rollback"} : GoTo(p, step) /\ (step = "rollback" => begun[p] # {})
    BY <2>1, GoToTypes
  <2>2. CASE Advance(p, Later(p), "complete", "ok")
    BY <2>2, AdvanceTypes, LaterTargets
  <2>3. CASE Advance(p, {t \in begun[p] : t < target[p]}, "rollback", "failed")
    BY <2>3, AdvanceTypes, LaterTargets
  <2> QED
    BY <2>1, <2>2, <2>3 DEF Fail
<1> QED
  BY <1>1, <1>2

LEMMA UpsetTypes ==
    ASSUME PubTypeOK, NEW unless, Upset(unless)
    PROVE  upsets' \in 0 .. MaxUpsets
  BY PublicationAssumption DEF PubTypeOK, Upset

\* Nothing the targets have changes.
LEMMA PublisherFrame ==
    ASSUME PubInv, UNCHANGED machineVars, LoopTypeOK',
           begun' \in [Publications -> SUBSET Machines],
           dirty' \in [Publications -> BOOLEAN], upsets' \in 0 .. MaxUpsets
    PROVE  PubInv'
  BY DEF PubInv, FenceInv, PubTypeOK, LoopTypeOK, StageNames, machineVars, AtTarget

LEMMA PublisherTypes ==
    ASSUME PubInv
    PROVE  /\ PubTypeOK /\ LoopTypeOK /\ begun \in [Publications -> SUBSET Machines]
           /\ dirty \in [Publications -> BOOLEAN] /\ upsets \in 0 .. MaxUpsets
  BY DEF PubInv, PubTypeOK, LoopTypeOK, StageNames

LEMMA AcquireKeeps ==
    ASSUME PubInv, NEW p \in Publications, Acquire(p)
    PROVE  PubInv'
<1>1. PICK step \in {"begin", "apply"} : GoTo(p, step)
  BY DEF Acquire
<1>2. LoopTypeOK'
  BY <1>1, GoToTypes, PublisherTypes DEF StageNames, Steps
<1> QED
  BY <1>2, PublisherFrame, PublisherTypes DEF Acquire, PubInv

LEMMA SendKeeps ==
    ASSUME PubInv, NEW p \in Publications, Send(p)
    PROVE  PubInv'
<1>1. [pub |-> p, step |-> stage[p]] \in Request
  BY DEF Send, Request, Steps
<1>2. inbox' \in [Machines -> SUBSET Request] /\ answer' \in [Publications -> {"none", "wait", "ok", "failed"}]
  BY <1>1 DEF Send, PubInv, PubTypeOK
<1>3. PubTypeOK'
  BY <1>2 DEF Send, PubInv, PubTypeOK
<1> QED
  BY <1>3 DEF Send, PubInv, FenceInv, AtTarget

LEMMA ErrorKeeps ==
    ASSUME PubInv, NEW p \in Publications, RenewError(p) \/ StepError(p)
    PROVE  PubInv'
<1>1. CASE Fail(p) /\ UNCHANGED <<machineVars, begun>> /\ \E u \in BOOLEAN : Upset(u)
  BY <1>1, FailTypes, UpsetTypes, PublisherFrame, PublisherTypes DEF PubInv
<1>2. CASE GoTo(p, "ok") /\ UNCHANGED <<machineVars, begun, dirty>> /\ Upset(FALSE)
  <2>1. LoopTypeOK'
    BY <1>2, GoToTypes, PublisherTypes DEF StageNames
  <2> QED
    BY <1>2, <2>1, UpsetTypes, PublisherFrame, PublisherTypes DEF PubInv
<1> QED
  BY <1>1, <1>2 DEF RenewError, StepError

LEMMA DoneKeeps ==
    ASSUME PubInv, NEW p \in Publications, StepDone(p)
    PROVE  PubInv'
<1> USE DEF StageNames, Steps
<1>1. begun' \in [Publications -> SUBSET Machines]
  <2>1. stage[p] = "begin" => begun[p] \cup {target[p]} \in SUBSET Machines
    BY DEF PubInv, PubTypeOK, AtTarget
  <2> QED
    BY <2>1 DEF StepDone, PubInv, PubTypeOK
<1>2. LoopTypeOK'
  <2>1. CASE /\ stage[p] \in Steps
             /\ \E step \in Steps : stage' = [stage EXCEPT ![p] = step]
             /\ answer' = [answer EXCEPT ![p] = "none"]
             /\ UNCHANGED target
    BY <2>1, PublisherTypes DEF LoopTypeOK, AtTarget
  <2>2. CASE \E step, next \in StageNames \ {"rollback"} : Advance(p, Later(p), step, next)
    BY <2>2, AdvanceTypes, LaterTargets, PublisherTypes
  <2>3. CASE GoTo(p, "ok")
    BY <2>3, GoToTypes, PublisherTypes
  <2>4. CASE Advance(p, {t \in begun[p] : t < target[p]}, "rollback", "failed")
    BY <2>4, AdvanceTypes, LaterTargets, PublisherTypes
  <2> QED
    BY <2>1, <2>2, <2>3, <2>4 DEF StepDone
<1> QED
  BY <1>1, <1>2, PublisherFrame, PublisherTypes DEF StepDone, PubInv

LEMMA VerifyKeeps ==
    ASSUME PubInv, NEW p \in Publications, Verify(p)
    PROVE  PubInv'
<1> USE DEF StageNames, Steps
<1>1. CASE Advance(p, Later(p), "verify", "complete") /\ UNCHANGED <<machineVars, begun, dirty, upsets>>
  <2>1. LoopTypeOK'
    BY <1>1, AdvanceTypes, LaterTargets, PublisherTypes
  <2> QED
    BY <1>1, <2>1, PublisherFrame, PublisherTypes DEF PubInv
<1>2. CASE Fail(p) /\ UNCHANGED <<machineVars, begun>> /\ \E u \in BOOLEAN : Upset(u)
  BY <1>2, FailTypes, UpsetTypes, PublisherFrame, PublisherTypes DEF PubInv
<1> QED
  BY <1>1, <1>2 DEF Verify

LEMMA PublisherDeathKeeps ==
    ASSUME PubInv, NEW p \in Publications, PublisherDies(p)
    PROVE  PubInv'
<1>1. /\ LoopTypeOK' /\ begun' \in [Publications -> SUBSET Machines]
      /\ dirty' \in [Publications -> BOOLEAN]
  BY DEF PublisherDies, PubInv, PubTypeOK, LoopTypeOK, StageNames, AtTarget, Steps
<1> QED
  BY <1>1, UpsetTypes, PublisherFrame DEF PublisherDies, PubInv

-----------------------------------------------------------------------------
(* A target *)

Modes == {"start", "replace", "undo", "remove"}
Tasks == [pub : Publications, step : Steps, mode : Modes, left : SUBSET Files, failed : BOOLEAN]
Dirs == [phase : {"none", "receiving", "prepared", "published"}, data : BOOLEAN,
         receipt : BOOLEAN, saved : [Files -> Contents]]

\* What a target executes.
LEMMA Executes ==
    ASSUME PubInv, NEW t \in Machines, work[t].mode \in Modes \/ work[t] # NoWork
    PROVE  /\ work[t] \in Tasks /\ work[t] # NoWork
           /\ work[t].pub \in Publications /\ work[t].pub = fence[t] /\ work[t].pub \in Nat
           /\ work[t].left \in SUBSET Files
           /\ Dir(t) \in Dirs /\ Dir(t) = dir[work[t].pub][t]
           /\ \A f \in Files : Dir(t).saved[f] \in Contents /\ Dir(t).saved[f] <= fence[t]
<1>1. work[t] \in {NoWork} \cup Tasks
  BY DEF PubInv, PubTypeOK, Tasks, Modes
<1>2. work[t] # NoWork
  BY DEF NoWork, Modes
<1>3. work[t] \in Tasks /\ work[t].pub \in Publications /\ work[t].left \in SUBSET Files
  BY <1>1, <1>2 DEF Tasks
<1>4. work[t].pub = fence[t] /\ work[t].pub \in Nat
  BY <1>2, <1>3 DEF PubInv, FenceInv, Publications
<1>5. Dir(t) \in Dirs /\ Dir(t) = dir[work[t].pub][t]
  BY <1>3 DEF Dir, PubInv, PubTypeOK, Dirs
<1>6. \A f \in Files : Dir(t).saved[f] \in Contents /\ Dir(t).saved[f] <= fence[t]
  BY <1>3, <1>4, <1>5 DEF PubInv, FenceInv, Dirs
<1> QED
  BY <1>2, <1>3, <1>4, <1>5, <1>6

LEMMA ReplyTypes ==
    ASSUME PubTypeOK, NEW t, NEW r, r.pub \in Publications, NEW result \in {"ok", "failed"}, Reply(t, r, result)
    PROVE  answer' \in [Publications -> {"none", "wait", "ok", "failed"}]
  BY DEF PubTypeOK, Reply

\* A step of a target that changes neither files nor directories: the request in
\* hand goes on or ends.
LEMMA JobGoesOn ==
    ASSUME PubInv, NEW t \in Machines, work[t] # NoWork,
           NEW j \in {NoWork} \cup Tasks, j = NoWork \/ j.pub = work[t].pub,
           work' = [work EXCEPT ![t] = j],
           UNCHANGED <<live, dir, fence, inbox, stage, target, begun>>,
           answer' \in [Publications -> {"none", "wait", "ok", "failed"}],
           dirty' \in [Publications -> BOOLEAN], upsets' \in 0 .. MaxUpsets
    PROVE  PubInv'
<1>1. work' \in [Machines -> {NoWork} \cup Tasks]
  BY DEF PubInv, PubTypeOK, Tasks, Modes
<1>2. PubTypeOK'
  BY <1>1 DEF PubInv, PubTypeOK, Tasks, Modes
<1>3. \A u \in Machines : work'[u] = IF u = t THEN j ELSE work[u]
  BY DEF PubInv, PubTypeOK
<1>4. FenceInv'
  BY <1>3 DEF PubInv, FenceInv
<1>5. AtTarget'
  BY DEF PubInv, AtTarget
<1> QED
  BY <1>2, <1>4, <1>5 DEF PubInv

\* A step that writes the operation directory and ends, or goes on.
LEMMA DirWritten ==
    ASSUME PubInv, NEW t \in Machines, work[t] # NoWork,
           NEW j \in {NoWork} \cup Tasks, j = NoWork \/ j.pub = work[t].pub,
           work' = [work EXCEPT ![t] = j],
           NEW d \in Dirs, \A f \in Files : d.saved[f] <= work[t].pub, SetDir(t, d),
           UNCHANGED <<live, fence, inbox, stage, target, begun>>,
           answer' \in [Publications -> {"none", "wait", "ok", "failed"}],
           dirty' \in [Publications -> BOOLEAN], upsets' \in 0 .. MaxUpsets
    PROVE  PubInv'
<1>0. work[t].pub \in Publications
  BY Executes
<1>1. work' \in [Machines -> {NoWork} \cup Tasks]
  BY DEF PubInv, PubTypeOK, Tasks, Modes
<1>2. PICK p \in Publications : p = work[t].pub
  BY <1>0
<1>3. dir' = [dir EXCEPT ![p][t] = d] /\ dir \in [Publications -> [Machines -> Dirs]]
  BY <1>2 DEF SetDir, PubInv, PubTypeOK, Dirs
<1>4. dir' \in [Publications -> [Machines -> Dirs]]
  BY <1>3
<1>5. \A q \in Publications, u \in Machines : dir'[q][u] = IF q = p /\ u = t THEN d ELSE dir[q][u]
  BY <1>3
<1>6. PubTypeOK'
  BY <1>1, <1>4 DEF PubInv, PubTypeOK, Tasks, Modes, Dirs
<1>7. \A u \in Machines : work'[u] = IF u = t THEN j ELSE work[u]
  BY DEF PubInv, PubTypeOK
<1>8. FenceInv'
  <2>1. \A q \in Publications, u \in Machines, f \in Files : dir'[q][u].saved[f] <= q
    BY <1>2, <1>5 DEF PubInv, FenceInv
  <2> QED
    BY <1>7, <2>1 DEF PubInv, FenceInv
<1>9. AtTarget'
  BY DEF PubInv, AtTarget
<1> QED
  BY <1>6, <1>8, <1>9 DEF PubInv

\* A step that writes one file: what it writes is not newer than the request.
LEMMA FileWritten ==
    ASSUME PubInv, NEW t \in Machines, work[t] # NoWork,
           NEW j \in Tasks, j.pub = work[t].pub, work' = [work EXCEPT ![t] = j],
           NEW g \in Files, NEW c \in Contents, c <= fence[t], live' = [live EXCEPT ![t][g] = c],
           UNCHANGED <<dir, fence, inbox, publisherVars, upsets>>
    PROVE  PubInv'
<1>1. work' \in [Machines -> {NoWork} \cup Tasks]
  BY DEF PubInv, PubTypeOK, Tasks, Modes
<1>2. live' \in [Machines -> [Files -> Contents]]
  BY DEF PubInv, PubTypeOK
<1>3. PubTypeOK'
  BY <1>1, <1>2 DEF PubInv, PubTypeOK, Tasks, Modes, publisherVars
<1>4. \A u \in Machines : work'[u] = IF u = t THEN j ELSE work[u]
  BY DEF PubInv, PubTypeOK
<1>5. \A u \in Machines, f \in Files : live'[u][f] = IF u = t /\ f = g THEN c ELSE live[u][f]
  BY DEF PubInv, PubTypeOK
<1>6. FenceInv'
  BY <1>4, <1>5 DEF PubInv, FenceInv
<1>7. AtTarget'
  BY DEF PubInv, AtTarget, publisherVars
<1> QED
  BY <1>3, <1>6, <1>7 DEF PubInv

\* The request in hand ends with an answer.
LEMMA FinishTypes ==
    ASSUME PubInv, NEW t \in Machines, work[t] # NoWork, NEW result \in {"ok", "failed"}, Finish(t, result)
    PROVE  /\ work' = [work EXCEPT ![t] = NoWork]
           /\ answer' \in [Publications -> {"none", "wait", "ok", "failed"}]
<1>1. work[t].pub \in Publications
  BY Executes
<1> QED
  BY <1>1, ReplyTypes DEF Finish, PubInv

LEMMA RefuseKeeps ==
    ASSUME PubInv, NEW t \in Machines, NEW r \in Request, Refuse(t, r)
    PROVE  PubInv'
<1>1. answer' \in [Publications -> {"none", "wait", "ok", "failed"}]
  BY ReplyTypes DEF Refuse, PubInv, Request
<1>2. inbox' \in [Machines -> SUBSET Request]
  BY DEF Refuse, PubInv, PubTypeOK
<1>3. PubTypeOK'
  BY <1>1, <1>2 DEF Refuse, PubInv, PubTypeOK
<1> QED
  BY <1>3 DEF Refuse, PubInv, FenceInv, AtTarget

LEMMA AdmitKeeps ==
    ASSUME PubInv, NEW t \in Machines, NEW r \in Request, Admit(t, r)
    PROVE  PubInv'
<1> DEFINE j == [pub |-> r.pub, step |-> r.step, mode |-> "start", left |-> {}, failed |-> FALSE]
<1>1. r.pub \in Publications /\ r.pub \in Nat /\ r.step \in Steps /\ Publications \subseteq Nat
  BY DEF Request, Publications
<1>2. j \in Tasks /\ j.pub = r.pub
  BY <1>1 DEF Tasks, Modes
<1>3. /\ work' = [work EXCEPT ![t] = j] /\ fence' = [fence EXCEPT ![t] = r.pub]
      /\ inbox' = [inbox EXCEPT ![t] = @ \ {r}]
      /\ UNCHANGED <<live, dir, stage, target, begun, answer, dirty, upsets>>
  BY DEF Admit, publisherVars
<1>4. fence[t] <= r.pub /\ \A u \in Machines : fence[u] \in Nat
  <2>1. \A u \in Machines : fence[u] \in {0} \cup Publications
    BY DEF PubInv, PubTypeOK
  <2>2. ~(r.pub < fence[t])
    BY DEF Admit, Fenced
  <2>3. \A u \in Machines : fence[u] \in Nat
    <3>1. {0} \cup Publications \subseteq Nat
      BY DEF Publications
    <3> HIDE DEF Publications
    <3> QED
      BY <2>1, <3>1
  <2>4. fence[t] \in Nat
    BY <2>3
  <2> QED
    BY <1>1, <2>2, <2>3, <2>4
<1> HIDE DEF j
<1>5. /\ work' \in [Machines -> {NoWork} \cup Tasks]
      /\ fence' \in [Machines -> {0} \cup Publications]
      /\ inbox' \in [Machines -> SUBSET Request]
  BY <1>1, <1>2, <1>3 DEF PubInv, PubTypeOK, Tasks, Modes
<1>6. PubTypeOK'
  BY <1>3, <1>5 DEF PubInv, PubTypeOK, Tasks, Modes
<1>7. \A u \in Machines : /\ work'[u] = IF u = t THEN j ELSE work[u]
                          /\ fence'[u] = IF u = t THEN r.pub ELSE fence[u]
  BY <1>3 DEF PubInv, PubTypeOK
<1>8. FenceInv'
  <2>1. ASSUME NEW u \in Machines, NEW f \in Files PROVE live'[u][f] <= fence'[u]
    <3>1. live[u][f] <= fence[u] /\ live[u][f] \in Contents
      BY DEF PubInv, FenceInv, PubTypeOK
    <3>2. live[u][f] \in Int
      <4>1. Contents \subseteq Int
        BY <1>1 DEF Contents, Gone
      <4> QED
        BY <3>1, <4>1
    <3> QED
      BY <1>1, <1>3, <1>4, <1>7, <3>1, <3>2
  <2> QED
    BY <1>2, <1>3, <1>7, <2>1 DEF PubInv, FenceInv
<1>9. AtTarget'
  BY <1>3 DEF PubInv, AtTarget
<1> QED
  BY <1>6, <1>8, <1>9 DEF PubInv

\* Steps that end the request and change neither files nor directories.
LEMMA EndsKeep ==
    ASSUME PubInv, NEW t \in Machines,
           StartError(t) \/ PublishAgain(t) \/ RemoveError(t) \/ MachineDies(t)
    PROVE  PubInv'
<1>1. work[t] # NoWork
  <2>1. work[t].mode \in Modes \/ work[t] # NoWork
    BY DEF StartError, PublishAgain, Starts, RemoveError, MachineDies, Modes
  <2> QED
    BY <2>1, Executes
<1>2. upsets' \in 0 .. MaxUpsets /\ UNCHANGED <<live, dir, fence, inbox, stage, target, begun, dirty>>
  <2>1. UNCHANGED upsets \/ \E u \in BOOLEAN : Upset(u)
    BY DEF StartError, PublishAgain, RemoveError, MachineDies
  <2>2. UNCHANGED <<live, dir, fence, inbox, stage, target, begun, dirty>>
    BY DEF StartError, PublishAgain, RemoveError, MachineDies, publisherVars
  <2> QED
    BY <2>1, <2>2, UpsetTypes, PublisherTypes
<1>3. work' = [work EXCEPT ![t] = NoWork] /\ answer' \in [Publications -> {"none", "wait", "ok", "failed"}]
  <2>1. CASE UNCHANGED answer /\ work' = [work EXCEPT ![t] = NoWork]
    BY <2>1 DEF PubInv, PubTypeOK
  <2>2. CASE \E result \in {"ok", "failed"} : Finish(t, result)
    BY <1>1, <2>2, FinishTypes
  <2> QED
    BY <2>1, <2>2 DEF StartError, PublishAgain, RemoveError, MachineDies, publisherVars
<1> QED
  BY <1>1, <1>2, <1>3, JobGoesOn, PublisherTypes

LEMMA NoDirTypes == NoDir \in Dirs /\ \A p \in Publications : \A f \in Files : NoDir.saved[f] <= p
  BY PublicationAssumption DEF NoDir, Dirs, Contents, Gone, Publications

\* Steps that end the request with a new directory or with none.
LEMMA DirStepsKeep ==
    ASSUME PubInv, NEW t \in Machines,
           Begin(t) \/ Write(t) \/ Prepare(t) \/ Published(t) \/ Remove(t) \/ CompletePublication(t)
    PROVE  PubInv'
<1>1. work[t].mode \in Modes
  BY DEF Begin, Write, Prepare, Published, Remove, CompletePublication, Starts, Modes
<1>2. /\ work[t] # NoWork /\ work[t].pub \in Publications /\ work[t].pub \in Nat /\ Dir(t) \in Dirs
      /\ \A f \in Files : Dir(t).saved[f] <= work[t].pub
  BY <1>1, Executes
<1>3. /\ work' = [work EXCEPT ![t] = NoWork]
      /\ answer' \in [Publications -> {"none", "wait", "ok", "failed"}]
  <2>1. \E result \in {"ok", "failed"} : Finish(t, result)
    BY DEF Begin, Write, Prepare, Published, Remove, CompletePublication
  <2> QED
    BY <1>2, <2>1, FinishTypes
<1>4. UNCHANGED <<live, fence, inbox, stage, target, begun, dirty>> /\ upsets' \in 0 .. MaxUpsets
  <2>1. UNCHANGED upsets \/ \E u \in BOOLEAN : Upset(u)
    BY DEF Begin, Write, Prepare, Published, Remove, CompletePublication
  <2>2. UNCHANGED <<live, fence, inbox, stage, target, begun, dirty>>
    BY DEF Begin, Write, Prepare, Published, Remove, CompletePublication
  <2> QED
    BY <2>1, <2>2, UpsetTypes, PublisherTypes
<1>5. CASE UNCHANGED dir
  BY <1>2, <1>3, <1>4, <1>5, JobGoesOn, PublisherTypes
<1>6. ASSUME NEW d \in Dirs, \A f \in Files : d.saved[f] <= work[t].pub, SetDir(t, d)
      PROVE  PubInv'
  BY <1>2, <1>3, <1>4, <1>6, DirWritten, PublisherTypes
<1>7. CASE SetDir(t, NoDir)
  BY <1>2, <1>6, <1>7, NoDirTypes
<1>8. CASE SetDir(t, [NoDir EXCEPT !.phase = "receiving"])
  <2> DEFINE d == [NoDir EXCEPT !.phase = "receiving"]
  <2>1. d \in Dirs /\ d.saved = NoDir.saved
    BY NoDirTypes DEF Dirs, NoDir
  <2> QED
    BY <1>2, <1>6, <1>8, <2>1, NoDirTypes
<1>9. CASE SetDir(t, [Dir(t) EXCEPT !.data = TRUE])
  <2> DEFINE d == [Dir(t) EXCEPT !.data = TRUE]
  <2>1. d \in Dirs /\ d.saved = Dir(t).saved
    BY <1>2 DEF Dirs
  <2> QED
    BY <1>2, <1>6, <1>9, <2>1
<1>10. ASSUME NEW ph \in {"prepared", "published"}, SetDir(t, [Dir(t) EXCEPT !.phase = ph])
       PROVE  PubInv'
  <2> DEFINE d == [Dir(t) EXCEPT !.phase = ph]
  <2>1. d \in Dirs /\ d.saved = Dir(t).saved
    BY <1>2 DEF Dirs
  <2> QED
    BY <1>2, <1>6, <1>10, <2>1
<1> QED
  BY <1>5, <1>7, <1>8, <1>9, <1>10 DEF Begin, Write, Prepare, Published, Remove, CompletePublication

\* What publish saves is what the files are, and they are not newer than it.
LEMMA SaveKeeps ==
    ASSUME PubInv, NEW t \in Machines, SaveOld(t)
    PROVE  PubInv'
<1> DEFINE j == [work[t] EXCEPT !.mode = "replace", !.left = Files]
           d == [phase |-> "prepared", data |-> TRUE, receipt |-> TRUE, saved |-> live[t]]
<1>1. work[t] # NoWork /\ work[t] \in Tasks /\ work[t].pub = fence[t]
  BY Executes DEF SaveOld, Starts, Modes
<1>2. j \in Tasks /\ j.pub = work[t].pub
  BY <1>1 DEF Tasks, Modes
<1>3. work' = [work EXCEPT ![t] = j]
  BY DEF SaveOld, PubInv, PubTypeOK
<1>4. d \in Dirs /\ \A f \in Files : d.saved[f] <= work[t].pub
  BY <1>1 DEF PubInv, PubTypeOK, FenceInv, Dirs
<1>5. SetDir(t, d) /\ UNCHANGED <<live, fence, inbox, stage, target, begun, answer, dirty, upsets>>
  BY DEF SaveOld, publisherVars
<1> HIDE DEF j, d
<1> QED
  BY <1>1, <1>2, <1>3, <1>4, <1>5, DirWritten, PublisherTypes DEF LoopTypeOK

\* The request goes on to its next part.
LEMMA TurnsKeep ==
    ASSUME PubInv, NEW t \in Machines, ReplaceError(t) \/ BeginRollback(t)
    PROVE  PubInv'
<1>1. work[t] # NoWork /\ work[t] \in Tasks
  BY Executes DEF ReplaceError, BeginRollback, Starts, Modes
<1>2. PICK j \in Tasks : work' = [work EXCEPT ![t] = j] /\ j.pub = work[t].pub
  <2>1. ASSUME NEW m \in Modes, NEW l \in SUBSET Files, work' = [work EXCEPT ![t].mode = m, ![t].left = l]
        PROVE  \E j \in Tasks : work' = [work EXCEPT ![t] = j] /\ j.pub = work[t].pub
    <3> DEFINE j == [work[t] EXCEPT !.mode = m, !.left = l]
    <3>1. j \in Tasks /\ j.pub = work[t].pub
      BY <1>1 DEF Tasks
    <3>2. work' = [work EXCEPT ![t] = j]
      BY <2>1 DEF PubInv, PubTypeOK
    <3> HIDE DEF j
    <3> QED
      BY <3>1, <3>2
  <2>2. CASE ReplaceError(t)
    <3>1. work' = [work EXCEPT ![t].mode = "undo", ![t].left = Files]
      BY <2>2 DEF ReplaceError
    <3> QED
      BY <2>1, <3>1 DEF Modes
  <2>3. CASE BeginRollback(t)
    <3>1. CASE Dir(t).receipt
      <4>1. work' = [work EXCEPT ![t].mode = "undo", ![t].left = Files]
        BY <2>3, <3>1 DEF BeginRollback
      <4> QED
        BY <2>1, <4>1 DEF Modes
    <3>2. CASE ~Dir(t).receipt
      <4>1. PICK l \in SUBSET Files : l = {}
        OBVIOUS
      <4>2. work' = [work EXCEPT ![t].mode = "remove", ![t].left = l]
        BY <2>3, <3>2, <4>1 DEF BeginRollback
      <4> QED
        BY <2>1, <4>2 DEF Modes
    <3> QED
      BY <3>1, <3>2
  <2> QED
    BY <2>2, <2>3
<1>3. upsets' \in 0 .. MaxUpsets /\ UNCHANGED <<live, dir, fence, inbox, stage, target, begun, answer, dirty>>
  BY UpsetTypes, PublisherTypes DEF ReplaceError, BeginRollback, publisherVars
<1> QED
  BY <1>1, <1>2, <1>3, JobGoesOn, PublisherTypes DEF LoopTypeOK

LEMMA ReplaceKeeps ==
    ASSUME PubInv, NEW t \in Machines, ReplaceFile(t)
    PROVE  PubInv'
<1>1. work[t] # NoWork /\ work[t] \in Tasks /\ work[t].pub \in Publications /\ work[t].pub = fence[t]
  BY Executes DEF ReplaceFile, Modes
<1>2. PICK g \in Files : g = Least(work[t].left)
  BY <1>1, Executes, LoopEnds DEF ReplaceFile
<1>3. PICK c \in Contents : c = work[t].pub /\ c <= fence[t]
  BY <1>1 DEF Contents, Publications
<1> DEFINE j == [work[t] EXCEPT !.left = @ \ {g}]
<1>4. j \in Tasks /\ j.pub = work[t].pub
  BY <1>1 DEF Tasks
<1>5. work' = [work EXCEPT ![t] = j] /\ live' = [live EXCEPT ![t][g] = c]
  BY <1>2, <1>3 DEF ReplaceFile, PubInv, PubTypeOK
<1>6. UNCHANGED <<dir, fence, inbox, publisherVars, upsets>>
  BY DEF ReplaceFile
<1> HIDE DEF j
<1> QED
  BY <1>1, <1>3, <1>4, <1>5, <1>6, FileWritten

LEMMA RestoreKeeps ==
    ASSUME PubInv, NEW t \in Machines, RestoreFile(t)
    PROVE  PubInv'
<1>1. work[t] # NoWork /\ work[t] \in Tasks /\ work[t].left \in SUBSET Files /\ work[t].left # {}
  BY Executes DEF RestoreFile, Modes
<1>2. PICK g \in Files : g = Greatest(work[t].left)
  BY <1>1, LoopEnds
<1>3. PICK c \in Contents : c = Dir(t).saved[g] /\ c <= fence[t]
  BY <1>1, Executes
<1>4. CASE live' = [live EXCEPT ![t][g] = c] /\ UNCHANGED upsets /\ work' = [work EXCEPT ![t].left = @ \ {g}]
  <2> DEFINE j == [work[t] EXCEPT !.left = @ \ {g}]
  <2>1. j \in Tasks /\ j.pub = work[t].pub
    BY <1>1 DEF Tasks
  <2>2. work' = [work EXCEPT ![t] = j]
    BY <1>4 DEF PubInv, PubTypeOK
  <2>3. UNCHANGED <<dir, fence, inbox, publisherVars, upsets>>
    BY <1>4 DEF RestoreFile
  <2> HIDE DEF j
  <2> QED
    BY <1>1, <1>3, <1>4, <2>1, <2>2, <2>3, FileWritten
<1>5. CASE UNCHANGED live /\ Upset(FALSE) /\ work' = [work EXCEPT ![t].left = @ \ {g}, ![t].failed = TRUE]
  <2> DEFINE j == [work[t] EXCEPT !.left = @ \ {g}, !.failed = TRUE]
  <2>1. j \in Tasks /\ j.pub = work[t].pub
    BY <1>1 DEF Tasks
  <2>2. work' = [work EXCEPT ![t] = j]
    BY <1>5 DEF PubInv, PubTypeOK
  <2>3. UNCHANGED <<live, dir, fence, inbox, stage, target, begun, answer, dirty>> /\ upsets' \in 0 .. MaxUpsets
    BY <1>5, UpsetTypes, PublisherTypes DEF RestoreFile, publisherVars
  <2> HIDE DEF j
  <2> QED
    BY <1>1, <2>1, <2>2, <2>3, JobGoesOn, PublisherTypes DEF LoopTypeOK
<1> QED
  BY <1>2, <1>3, <1>4, <1>5 DEF RestoreFile

LEMMA RestoredKeeps ==
    ASSUME PubInv, NEW t \in Machines, Restored(t)
    PROVE  PubInv'
<1>1. work[t] # NoWork /\ work[t] \in Tasks /\ work[t].pub \in Publications
  BY Executes DEF Restored, Modes
<1>2. UNCHANGED <<live, dir, fence, inbox, stage, target, begun, upsets>> /\ upsets' \in 0 .. MaxUpsets
  BY PublisherTypes DEF Restored
<1>3. CASE Finish(t, "failed") /\ (UNCHANGED dirty \/ dirty' = [dirty EXCEPT ![work[t].pub] = TRUE])
  <2>1. dirty' \in [Publications -> BOOLEAN]
    BY <1>3, PublisherTypes
  <2>2. work' = [work EXCEPT ![t] = NoWork] /\ answer' \in [Publications -> {"none", "wait", "ok", "failed"}]
    BY <1>1, <1>3, FinishTypes
  <2> QED
    BY <1>1, <1>2, <2>1, <2>2, JobGoesOn
<1>4. CASE work' = [work EXCEPT ![t].mode = "remove"] /\ UNCHANGED <<answer, dirty>>
  <2> DEFINE j == [work[t] EXCEPT !.mode = "remove"]
  <2>1. j \in Tasks /\ j.pub = work[t].pub
    BY <1>1 DEF Tasks, Modes
  <2>2. work' = [work EXCEPT ![t] = j]
    BY <1>4 DEF PubInv, PubTypeOK
  <2> HIDE DEF j
  <2> QED
    BY <1>1, <1>2, <1>4, <2>1, <2>2, JobGoesOn, PublisherTypes DEF LoopTypeOK
<1> QED
  BY <1>3, <1>4 DEF Restored

-----------------------------------------------------------------------------
(* The theorems about publications *)

LEMMA PubStart == PubInit => PubInv
<1> SUFFICES ASSUME PubInit PROVE PubInv
  OBVIOUS
<1> USE DEF PubInit
<1>1. PubTypeOK
  <2>1. live \in [Machines -> [Files -> Contents]]
    BY DEF Contents, Original
  <2>2. dir \in [Publications -> [Machines ->
                  [phase : {"none", "receiving", "prepared", "published"}, data : BOOLEAN,
                   receipt : BOOLEAN, saved : [Files -> Contents]]]]
    BY NoDirTypes DEF Dirs
  <2> QED
    BY <2>1, <2>2, PublicationAssumption DEF PubTypeOK
<1>2. FenceInv
  BY NoDirTypes DEF FenceInv, Original, Gone
<1>3. AtTarget
  BY DEF AtTarget, Steps
<1> QED
  BY <1>1, <1>2, <1>3 DEF PubInv

LEMMA PubStep == PubInv /\ [PubNext]_pubVars => PubInv'
<1> SUFFICES ASSUME PubInv, [PubNext]_pubVars PROVE PubInv'
  OBVIOUS
<1>1. CASE UNCHANGED pubVars
  BY <1>1 DEF pubVars, PubInv, PubTypeOK, FenceInv, AtTarget
<1>2. ASSUME NEW p \in Publications, Acquire(p) \/ PublisherStep(p) \/ PublisherDies(p)
      PROVE  PubInv'
  BY <1>2, AcquireKeeps, SendKeeps, ErrorKeeps, DoneKeeps, VerifyKeeps, PublisherDeathKeeps DEF PublisherStep
<1>3. ASSUME NEW t \in Machines, MachineStep(t) \/ MachineDies(t)
      PROVE  PubInv'
  BY <1>3, RefuseKeeps, AdmitKeeps, EndsKeep, DirStepsKeep, SaveKeeps, TurnsKeep, ReplaceKeeps,
     RestoreKeeps, RestoredKeeps DEF MachineStep
<1> QED
  BY <1>1, <1>2, <1>3 DEF PubNext

LEMMA PubInvHolds == PubSpec => []PubInv
  BY PubStart, PubStep, PTL DEF PubSpec

\* The state of publishers and targets has its type whatever requests fail, come
\* late or are executed after their sender gave up: no loop of the publisher
\* leaves the targets of its publication.
THEOREM PublicationTypesHold == PubSpec => []PubTypeOK
<1>1. PubInv => PubTypeOK
  BY DEF PubInv
<1> QED
  BY <1>1, PubInvHolds, PTL

\* Only the request in hand changes a file of its target.
LEMMA OnlyTheRequestWrites ==
    ASSUME PubInv, [PubNext]_pubVars, NEW t \in Machines, NEW f \in Files, live'[t][f] # live[t][f]
    PROVE  work[t] # NoWork
<1>1. ASSUME NEW u \in Machines, ReplaceFile(u) \/ RestoreFile(u) PROVE work[t] # NoWork
  <2>1. work[u].mode \in Modes
    BY <1>1 DEF ReplaceFile, RestoreFile, Modes
  <2>2. u # t => live'[t] = live[t]
    BY <1>1 DEF ReplaceFile, RestoreFile, PubInv, PubTypeOK
  <2> QED
    BY <2>1, <2>2, Executes
<1>2. CASE ~(\E u \in Machines : ReplaceFile(u) \/ RestoreFile(u))
  <2>1. UNCHANGED live
    BY <1>2 DEF PubNext, PublisherStep, MachineStep, pubVars, machineVars, publisherVars, Acquire, Send,
       StepError, StepDone, RenewError, Verify, PublisherDies, Refuse, Admit, StartError, Begin, Write,
       Prepare, SaveOld, PublishAgain, ReplaceError, Published, BeginRollback, Restored, Remove,
       RemoveError, CompletePublication, MachineDies
  <2> QED
    BY <2>1
<1> QED
  BY <1>1, <1>2

\* A publication, its rollback above all, never changes a file that a later
\* publication wrote: the fence of a target lets nobody in behind the greatest
\* token it admitted, and no file is newer than the fence.  For every number of
\* publications, machines and files.
THEOREM NothingIsClobbered == PubSpec => NoClobber
<1>1. ASSUME PubInv, [PubNext]_pubVars
      PROVE  [\A t \in Machines, f \in Files : live'[t][f] # live[t][f] => live[t][f] <= work[t].pub]_pubVars
  <2> SUFFICES ASSUME NEW t \in Machines, NEW f \in Files, live'[t][f] # live[t][f]
               PROVE  live[t][f] <= work[t].pub
    OBVIOUS
  <2>1. work[t] # NoWork
    BY <1>1, OnlyTheRequestWrites
  <2> QED
    BY <1>1, <2>1 DEF PubInv, FenceInv
<1> QED
  BY <1>1, PubInvHolds, PTL DEF PubSpec, NoClobber

-----------------------------------------------------------------------------
(* Publications: all or nothing *)

\* Every undoing so far was confirmed.
Clean == \A p \in Publications : ~dirty[p]

\* Publication p stands on target t: its files are there to stay.
Stands(p, t) ==
    /\ t \in ScopeOf[p]
    /\ \/ dir[p][t].phase = "published" /\ stage[p] # "rollback"
       \/ /\ dir[p][t].phase = "none"
          /\ \/ stage[p] \in {"complete", "ok"}
             \/ stage[p] = "apply" /\ answer[p] = "ok"

\* p is over, and nothing of it is left.
Undone(p) == stage[p] = "failed" \/ (stage[p] = "apply" /\ answer[p] = "failed")

\* p may have replaced some files of t and neither stands nor is undone.
Halved(p, t) == dir[p][t].receipt /\ ~Stands(p, t) /\ ~Undone(p)

\* What the files of t are without the publications from n on.
Below(t, n) == {p \in Publications : p < n /\ Stands(p, t)}
BaseOf(t, n, f) == IF Below(t, n) = {} THEN Original(f) ELSE Greatest(Below(t, n))

\* A request of p that the publisher waits for, and one that is still to be executed.
Waits(p, t, s) == stage[p] = s /\ target[p] = t /\ answer[p] = "wait"
Queued(p, t, s) == [pub |-> p, step |-> s] \in inbox[t]
InHand(p, t, s) == work[t] # NoWork /\ work[t].pub = p /\ work[t].step = s
Pending(p, t, s) == Queued(p, t, s) \/ InHand(p, t, s)

\* The loops of a publisher.
Loops(p) ==
    /\ stage[p] # "dead"
    /\ begun[p] \subseteq ScopeOf[p]
    /\ stage[p] = "new" => begun[p] = {} /\ answer[p] = "none"
    /\ stage[p] \in Steps => target[p] \in ScopeOf[p]
    /\ stage[p] = "begin" => \A t \in ScopeOf[p] : t \in begun[p] <=> t < target[p]
    /\ stage[p] \in {"write", "prepare"} => \A t \in ScopeOf[p] : t \in begun[p] <=> t <= target[p]
    /\ stage[p] \in {"publish", "verify"} => begun[p] = ScopeOf[p]
    /\ stage[p] = "verify" => answer[p] = "none"
    /\ stage[p] = "rollback" => target[p] \in begun[p]
    /\ stage[p] = "apply" => begun[p] = {} /\ ScopeOf[p] = {target[p]}

\* What the loops have behind them.
Yields(p) ==
    /\ stage[p] = "new" => \A t \in Machines : dir[p][t] = NoDir
    /\ stage[p] = "publish" => \A t \in ScopeOf[p] :
          t < target[p] \/ (t = target[p] /\ answer[p] = "ok") => dir[p][t].phase = "published"
    /\ stage[p] = "verify" => \A t \in ScopeOf[p] : dir[p][t].phase = "published"
    /\ stage[p] \in {"complete", "ok"} \/ (stage[p] = "apply" /\ answer[p] = "ok") =>
          \A t \in ScopeOf[p] : p <= fence[t] /\ dir[p][t].phase \in {"published", "none"}
    /\ stage[p] = "rollback" => \A t \in begun[p] :
          t > target[p] \/ (t = target[p] /\ answer[p] = "ok") => dir[p][t].phase = "none"
    /\ stage[p] = "failed" => \A t \in begun[p] : dir[p][t].phase = "none"
    /\ Undone(p) => \A t \in Machines : dir[p][t].phase # "published"
    /\ stage[p] = "apply" /\ answer[p] = "none" => dir[p][target[p]] = NoDir

\* The requests that are still to be executed: the one that is waited for, one that was
\* given up before the rollback, or the Complete of a target that was given up.
Belated(p, t, s) ==
    \/ s \in {"begin", "write", "prepare", "publish"} /\ stage[p] \in {"rollback", "failed"}
    \/ s = "complete" /\ (stage[p] = "ok" \/ (stage[p] = "complete" /\ t < target[p]))
Calls(p, t) ==
    /\ \A s \in Steps : Pending(p, t, s) => Waits(p, t, s) \/ Belated(p, t, s)
    /\ Pending(p, t, "begin") => t \notin begun[p]
    /\ Pending(p, t, "publish") => t \in begun[p]
    /\ Queued(p, t, "apply") \/ (InHand(p, t, "apply") /\ work[t].mode = "start") =>
          dir[p][t].phase = "none"
    /\ \A s \in Steps : ~(Queued(p, t, s) /\ InHand(p, t, s))

\* The operation directories.
DirOf(p, t) ==
    /\ p > fence[t] => dir[p][t] = NoDir
    /\ dir[p][t].phase \in {"none", "receiving"} => ~dir[p][t].receipt
    /\ dir[p][t].phase = "published" => dir[p][t].receipt
    /\ dir[p][t].receipt =>
          t \in ScopeOf[p] /\ (t \in begun[p] \/ stage[p] \in {"apply", "failed", "ok"})

\* The request that t executes.
WorkOf(p, t) ==
    work[t] # NoWork /\ work[t].pub = p =>
        /\ work[t].mode = "replace" => /\ work[t].step \in {"publish", "apply"}
                                       /\ dir[p][t].receipt /\ dir[p][t].phase = "prepared"
        /\ work[t].mode = "undo" => /\ work[t].step \in {"publish", "apply", "rollback"}
                                    /\ dir[p][t].receipt
                                    /\ work[t].step # "rollback" => dir[p][t].phase = "prepared"
        /\ work[t].mode = "remove" =>
              /\ work[t].step \in {"apply", "rollback"}
              /\ work[t].step = "apply" => dir[p][t].receipt /\ dir[p][t].phase = "prepared"

\* The files of t when m is the last publication that it admitted.
NoneHalved(t, m) == \A p \in Publications : p < m => ~Halved(p, t)
Content(t, m) == \A f \in Files :
    /\ dir[m][t].receipt => dir[m][t].saved[f] = BaseOf(t, m, f)
    /\ Stands(m, t) => live[t][f] = m
    /\ ~Stands(m, t) /\ ~Halved(m, t) => live[t][f] = BaseOf(t, m, f)
    /\ work[t].mode = "replace" /\ f \notin work[t].left => live[t][f] = m
    /\ work[t].mode = "undo" /\ ~work[t].failed /\ f \notin work[t].left =>
          live[t][f] = BaseOf(t, m, f)
    /\ work[t].mode = "remove" => live[t][f] = BaseOf(t, m, f)
Level(t) ==
    /\ fence[t] = 0 => \A f \in Files : live[t][f] = Original(f)
    /\ \A m \in Publications : fence[t] = m /\ NoneHalved(t, m) => Content(t, m)

Course(p) == Loops(p) /\ Yields(p)
Orderly ==
    /\ \A p \in Publications : Course(p)
    /\ \A p \in Publications, t \in Machines : Calls(p, t) /\ DirOf(p, t) /\ WorkOf(p, t)
    /\ \A t \in Machines : Level(t)

WholeInv == PubInv /\ (Clean => Orderly)

\* Nothing that p has on t was settled by the step, and what was is as it was.
Steady(p, t) == ~Halved(p, t)' => ~Halved(p, t) /\ (Stands(p, t)' <=> Stands(p, t))

-----------------------------------------------------------------------------
(* What a step leaves alone *)

LEMMA PubNumbers ==
    /\ Publications \subseteq Nat \ {0} /\ Machines \subseteq Nat
    /\ \A p \in Publications : ScopeOf[p] \subseteq Machines /\ ScopeOf[p] # {}
  BY PublicationAssumption DEF Publications, Machines

\* What is below m changes only when something comes up or goes down there.
LEMMA SameBase ==
    ASSUME NEW t, NEW m, \A p \in Publications : p < m => (Stands(p, t)' <=> Stands(p, t))
    PROVE  Below(t, m)' = Below(t, m) /\ \A f \in Files : BaseOf(t, m, f)' = BaseOf(t, m, f)
<1>1. Below(t, m)' = Below(t, m)
  BY DEF Below
<1> QED
  BY <1>1 DEF BaseOf

\* A target that takes no part in a step, while publishers settle nothing on it.
LEMMA LevelSame ==
    ASSUME NEW t \in Machines, Level(t), fence'[t] = fence[t], live'[t] = live[t],
           work'[t] = work[t], \A p \in Publications : dir'[p][t] = dir[p][t],
           \A p \in Publications : Steady(p, t)
    PROVE  Level(t)'
<1>1. ASSUME NEW m \in Publications, fence[t] = m, NoneHalved(t, m)'
      PROVE  Content(t, m)'
  <2>1. \A p \in Publications : p < m => ~Halved(p, t) /\ (Stands(p, t)' <=> Stands(p, t))
    BY <1>1 DEF NoneHalved, Steady
  <2>2. NoneHalved(t, m)
    BY <2>1 DEF NoneHalved
  <2>3. Content(t, m)
    BY <1>1, <2>2 DEF Level
  <2>4. \A f \in Files : BaseOf(t, m, f)' = BaseOf(t, m, f)
    BY <2>1, SameBase
  <2>5. ~Halved(m, t)' => ~Halved(m, t) /\ (Stands(m, t)' <=> Stands(m, t))
    BY DEF Steady
  <2>6. Stands(m, t)' => ~Halved(m, t)'
    BY DEF Halved
  <2> QED
    BY <2>3, <2>4, <2>5, <2>6 DEF Content
<1> QED
  BY <1>1 DEF Level

\* What is said of a publisher that takes no part in a step.
LEMMA CourseSame ==
    ASSUME PubTypeOK, PubTypeOK', NEW p \in Publications, Course(p),
           stage'[p] = stage[p], target'[p] = target[p], begun'[p] = begun[p],
           answer'[p] = answer[p], dir'[p] = dir[p],
           \A t \in Machines : fence[t] <= fence'[t]
    PROVE  Course(p)'
<1>1. Loops(p)'
  BY DEF Course, Loops
<1>2. \A t \in Machines : fence[t] \in Nat /\ fence'[t] \in Nat
  <2>1. {0} \cup Publications \subseteq Nat
    BY PubNumbers
  <2> QED
    BY <2>1 DEF PubTypeOK
<1>3. ASSUME NEW t \in ScopeOf[p], p <= fence[t] PROVE p <= fence'[t]
  <2>1. t \in Machines /\ p \in Nat
    BY PubNumbers
  <2>2. fence[t] \in Nat /\ fence'[t] \in Nat /\ fence[t] <= fence'[t]
    BY <1>2, <2>1
  <2> QED
    BY <1>3, <2>1, <2>2
<1>4. Yields(p)'
  BY <1>3 DEF Course, Yields, Undone
<1> QED
  BY <1>1, <1>4 DEF Course

\* A step of p's publisher: what remains to be shown is about p.
LEMMA PublisherMoves ==
    ASSUME PubTypeOK, PubTypeOK', Orderly, NEW p \in Publications,
           UNCHANGED <<live, dir, work, fence>>,
           \A t \in Machines, q \in Publications, s \in Steps :
              q # p => (Queued(q, t, s)' <=> Queued(q, t, s)),
           \A q \in Publications : q # p => /\ stage'[q] = stage[q] /\ target'[q] = target[q]
                                            /\ begun'[q] = begun[q] /\ answer'[q] = answer[q],
           begun[p] \subseteq begun'[p],
           stage[p] \in {"apply", "failed", "ok"} => stage'[p] \in {"apply", "failed", "ok"},
           Course(p)', \A t \in Machines : Calls(p, t)' /\ Steady(p, t)
    PROVE  Orderly'
<1>1. \A q \in Publications : Course(q)'
  <2>1. \A t \in Machines : fence[t] <= fence'[t]
    <3>1. {0} \cup Publications \subseteq Nat /\ fence' = fence
      BY PubNumbers
    <3>2. \A t \in Machines : fence[t] \in Nat
      BY <3>1 DEF PubTypeOK
    <3> QED
      BY <3>1, <3>2
  <2> QED
    BY <2>1, CourseSame DEF Orderly
<1>2. ASSUME NEW q \in Publications, NEW t \in Machines PROVE Calls(q, t)'
  <2>1. CASE q = p
    BY <2>1
  <2>2. CASE q # p
    <3>1. Calls(q, t)
      BY DEF Orderly
    <3>2. \A s \in Steps : (Pending(q, t, s)' <=> Pending(q, t, s)) /\ (Queued(q, t, s)' <=> Queued(q, t, s))
      BY <2>2 DEF Pending, InHand
    <3> QED
      BY <2>2, <3>1, <3>2 DEF Calls, Belated, Waits, InHand, Steps
  <2> QED
    BY <2>1, <2>2
<1>3. ASSUME NEW q \in Publications, NEW t \in Machines PROVE DirOf(q, t)'
  <2>1. DirOf(q, t)
    BY DEF Orderly
  <2> QED
    BY <2>1 DEF DirOf
<1>4. ASSUME NEW q \in Publications, NEW t \in Machines PROVE WorkOf(q, t)'
  <2>1. WorkOf(q, t)
    BY DEF Orderly
  <2> QED
    BY <2>1 DEF WorkOf
<1>5. ASSUME NEW t \in Machines PROVE Level(t)'
  <2>1. \A q \in Publications : Steady(q, t)
    <3>1. ASSUME NEW q \in Publications, q # p PROVE Steady(q, t)
      BY <3>1 DEF Steady, Halved, Stands, Undone
    <3> QED
      BY <3>1
  <2> QED
    BY <2>1, LevelSame DEF Orderly
<1> QED
  BY <1>1, <1>2, <1>3, <1>4, <1>5 DEF Orderly

-----------------------------------------------------------------------------
(* The steps of a publisher *)

\* A publisher that goes on gives up only requests that may come late.
LEMMA CallsMove ==
    ASSUME PubTypeOK, PubTypeOK', NEW p \in Publications, Course(p), Course(p)',
           UNCHANGED machineVars, answer'[p] = "none",
           \/ answer[p] # "wait" \/ stage[p] = "complete"
           \/ stage[p] \in {"begin", "write", "prepare", "publish"} /\ stage'[p] \in {"rollback", "failed"},
           stage[p] \in {"rollback", "failed"} => stage'[p] \in {"rollback", "failed"},
           stage[p] = "complete" => \/ stage'[p] = "ok"
                                    \/ stage'[p] = "complete" /\ target'[p] > target[p],
           stage[p] # "ok",
           \/ begun'[p] = begun[p]
           \/ /\ stage[p] = "begin" /\ answer[p] = "ok" /\ begun'[p] = begun[p] \cup {target[p]}
              /\ target[p] \in Machines,
           NEW t \in Machines, Calls(p, t)
    PROVE  Calls(p, t)'
<1>1. /\ \A s \in Steps : (Pending(p, t, s)' <=> Pending(p, t, s)) /\ (InHand(p, t, s)' <=> InHand(p, t, s))
      /\ \A s \in Steps : Queued(p, t, s)' <=> Queued(p, t, s)
      /\ work' = work /\ dir' = dir
  BY DEF machineVars, Pending, InHand, Queued
<1>2. ASSUME NEW s \in Steps, Pending(p, t, s) PROVE Belated(p, t, s)'
  <2>1. CASE Waits(p, t, s)
    <3>1. CASE stage[p] = "complete"
      <4>1. s = "complete" /\ target[p] = t
        BY <2>1, <3>1 DEF Waits
      <4> QED
        BY <3>1, <4>1 DEF Belated
    <3>2. CASE stage[p] # "complete"
      BY <2>1, <3>2 DEF Belated, Waits
    <3> QED
      BY <3>1, <3>2
  <2>2. CASE Belated(p, t, s)
    <3>1. CASE stage[p] = "complete" /\ t < target[p] /\ s = "complete"
      <4>1. stage'[p] = "ok" \/ (stage'[p] = "complete" /\ target'[p] > target[p])
        BY <3>1
      <4>2. t \in Nat /\ target[p] \in Nat /\ (stage'[p] = "complete" => target'[p] \in Nat)
        <5>1. target[p] \in ScopeOf[p] /\ (stage'[p] = "complete" => target'[p] \in ScopeOf[p])
          BY <3>1 DEF Course, Loops, Steps
        <5> QED
          BY <5>1, PubNumbers
      <4> QED
        BY <3>1, <4>1, <4>2 DEF Belated
    <3> QED
      BY <2>2, <3>1 DEF Belated
  <2> QED
    BY <1>2, <2>1, <2>2 DEF Calls
<1>3. ASSUME Pending(p, t, "begin") PROVE t \notin begun'[p]
  <2>1. t \notin begun[p] /\ (Waits(p, t, "begin") \/ Belated(p, t, "begin"))
    BY <1>3 DEF Calls, Steps
  <2> QED
    BY <2>1 DEF Waits, Belated
<1>4. Pending(p, t, "publish") => t \in begun'[p]
  BY DEF Calls
<1> QED
  BY <1>1, <1>2, <1>3, <1>4 DEF Calls, Steps, InHand

\* A publisher goes to the first target of a loop, or to the next one.
LEMMA Goes ==
    ASSUME PubTypeOK, PubTypeOK', NEW p \in Publications, NEW step, GoTo(p, step)
    PROVE  /\ stage'[p] = step /\ answer'[p] = "none"
           /\ \A q \in Publications : q # p => /\ stage'[q] = stage[q] /\ target'[q] = target[q]
                                               /\ answer'[q] = answer[q]
           /\ step \in {"ok", "failed"} => target'[p] = 0
           /\ step = "rollback" => target'[p] = Greatest(begun[p])
           /\ step \notin {"ok", "failed", "rollback"} => target'[p] = Least(ScopeOf[p])
  BY DEF GoTo, PubTypeOK

LEMMA Comes ==
    ASSUME PubTypeOK, PubTypeOK', NEW p \in Publications, NEW later, NEW step, NEW next,
           later # {}, Advance(p, later, step, next)
    PROVE  /\ stage'[p] = step /\ answer'[p] = "none"
           /\ \A q \in Publications : q # p => /\ stage'[q] = stage[q] /\ target'[q] = target[q]
                                               /\ answer'[q] = answer[q]
           /\ target'[p] = IF step = "rollback" THEN Greatest(later) ELSE Least(later)
  BY DEF Advance, PubTypeOK

\* The targets that the loops go to.
LEMMA TargetEnds ==
    ASSUME NEW p \in Publications, NEW S \in SUBSET ScopeOf[p], S # {}
    PROVE  /\ Least(S) \in S /\ Greatest(S) \in S
           /\ \A t \in S : Least(S) <= t /\ t <= Greatest(S)
<1>1. S \in SUBSET Machines
  BY PubNumbers
<1> QED
  BY <1>1, LoopEnds

LEMMA AcquireOrderly ==
    ASSUME PubTypeOK, PubTypeOK', Orderly, NEW p \in Publications, Acquire(p)
    PROVE  Orderly'
<1>1. PICK step \in {"begin", "apply"} : GoTo(p, step) /\ (step = "apply" => Cardinality(ScopeOf[p]) = 1)
  BY DEF Acquire
<1>2. stage[p] = "new" /\ UNCHANGED <<live, dir, work, fence, inbox, begun>>
  BY DEF Acquire, machineVars
<1>3. Course(p) /\ begun[p] = {} /\ begun[p] \subseteq ScopeOf[p] /\ answer[p] = "none"
      /\ \A t \in Machines : dir[p][t] = NoDir
  BY <1>2 DEF Orderly, Course, Loops, Yields
<1>4. Least(ScopeOf[p]) \in ScopeOf[p] /\ \A t \in ScopeOf[p] : Least(ScopeOf[p]) <= t
  <2>1. ScopeOf[p] \in SUBSET Machines /\ ScopeOf[p] # {}
    BY PubNumbers
  <2> QED
    BY <2>1, LoopEnds
<1>5. stage'[p] = step /\ answer'[p] = "none" /\ target'[p] = Least(ScopeOf[p]) /\ begun'[p] = {}
  BY <1>1, <1>2, <1>3, Goes
<1>6. step = "apply" => ScopeOf[p] = {target'[p]}
  <2> SUFFICES ASSUME step = "apply" PROVE ScopeOf[p] = {target'[p]}
    OBVIOUS
  <2>1. IsFiniteSet(ScopeOf[p]) /\ Cardinality(ScopeOf[p]) = 1
    <3>1. LastMachine \in Nat
      BY PublicationAssumption
    <3>2. IsFiniteSet(Machines)
      BY <3>1, FS_Interval DEF Machines
    <3> QED
      BY <1>1, <3>2, FS_Subset, PubNumbers
  <2>2. PICK x : ScopeOf[p] = {x}
    BY <2>1, FS_Singleton
  <2> QED
    BY <1>4, <1>5, <2>2
<1>7. Loops(p)'
  <2>1. step = "begin" => \A t \in ScopeOf[p] : ~(t < target'[p])
    <3>1. \A t \in ScopeOf[p] : t \in Nat /\ target'[p] \in Nat /\ target'[p] <= t
      BY <1>4, <1>5, PubNumbers
    <3> QED
      BY <3>1
  <2> QED
    BY <1>4, <1>5, <1>6, <2>1 DEF Loops, Steps
<1>8. Yields(p)'
  <2>1. target'[p] \in Machines
    BY <1>4, <1>5, PubNumbers
  <2> QED
    BY <1>2, <1>3, <1>5, <2>1 DEF Yields, Undone
<1>9. ASSUME NEW t \in Machines PROVE Calls(p, t)' /\ Steady(p, t)
  <2>1. Calls(p, t)
    BY DEF Orderly
  <2>2. Calls(p, t)'
    <3>1. begun'[p] = begun[p]
      BY <1>3, <1>5
    <3> QED
      BY <1>2, <1>3, <1>5, <1>7, <1>8, <2>1, <3>1, CallsMove DEF Course, machineVars
  <2>3. Steady(p, t)
    BY <1>2, <1>3, <1>5 DEF Steady, Halved, Stands, Undone, NoDir
  <2> QED
    BY <2>2, <2>3
<1>10. \A q \in Publications : q # p => /\ stage'[q] = stage[q] /\ target'[q] = target[q]
                                        /\ begun'[q] = begun[q] /\ answer'[q] = answer[q]
  BY <1>1, <1>2, Goes
<1>11. \A t \in Machines, q \in Publications, s \in Steps :
              q # p => (Queued(q, t, s)' <=> Queued(q, t, s))
  BY <1>2 DEF Queued
<1>12. begun[p] \subseteq begun'[p]
  BY <1>3
<1>13. UNCHANGED <<live, dir, work, fence>> /\ stage[p] = "new"
  BY <1>2
<1>14. Course(p)'
  BY <1>7, <1>8 DEF Course
<1> QED
  BY <1>9, <1>10, <1>11, <1>12, <1>13, <1>14, PublisherMoves

\* How a publisher goes on while everything that was undone was confirmed.
Turn(p) ==
    \/ /\ stage[p] \in {"begin", "write", "prepare"} /\ answer[p] = "ok"
       /\ stage'[p] \in {"begin", "write", "prepare", "publish"}
    \/ stage[p] = "publish" /\ answer[p] = "ok" /\ stage'[p] \in {"publish", "verify"}
    \/ stage[p] = "verify" /\ stage'[p] \in {"verify", "complete"}
    \/ stage[p] = "complete" /\ stage'[p] = "complete" /\ target'[p] > target[p]
    \/ stage[p] = "complete" /\ stage'[p] = "ok"
    \/ stage[p] = "apply" /\ answer[p] = "ok" /\ stage'[p] = "ok"
    \/ stage[p] = "apply" /\ answer[p] = "failed" /\ stage'[p] = "failed"
    \/ stage[p] \in {"begin", "write", "prepare", "publish", "verify"} /\ stage'[p] = "rollback"
    \/ /\ stage[p] \in {"begin", "write", "prepare", "publish", "verify"} /\ begun[p] = {}
       /\ stage'[p] = "failed"
    \/ stage[p] = "rollback" /\ answer[p] = "ok" /\ stage'[p] \in {"rollback", "failed"}

LEMMA TurnIsSteady ==
    ASSUME NEW p \in Publications, Turn(p), Course(p), Course(p)', UNCHANGED machineVars,
           answer'[p] = "none", begun[p] \subseteq begun'[p],
           NEW t \in Machines, DirOf(p, t)
    PROVE  Steady(p, t)
<1> USE DEF machineVars, Steady, Halved, Stands, Undone
<1>1. dir' = dir
  OBVIOUS
<1>2. CASE /\ stage[p] \in {"begin", "write", "prepare"} /\ answer[p] = "ok"
           /\ stage'[p] \in {"begin", "write", "prepare", "publish"}
  BY <1>1, <1>2
<1>3. CASE stage[p] = "publish" /\ answer[p] = "ok" /\ stage'[p] \in {"publish", "verify"}
  BY <1>1, <1>3
<1>4. CASE stage[p] = "verify" /\ stage'[p] \in {"verify", "complete"}
  BY <1>1, <1>4 DEF Course, Yields
<1>5. CASE stage[p] = "complete" /\ stage'[p] \in {"complete", "ok"}
  BY <1>1, <1>5
<1>6. CASE stage[p] = "apply" /\ answer[p] = "ok" /\ stage'[p] = "ok"
  BY <1>1, <1>6
<1>7. CASE stage[p] = "apply" /\ answer[p] = "failed" /\ stage'[p] = "failed"
  BY <1>1, <1>7
<1>8. CASE stage[p] \in {"begin", "write", "prepare", "publish", "verify"} /\ stage'[p] = "rollback"
  BY <1>1, <1>8 DEF DirOf
<1>9. CASE /\ stage[p] \in {"begin", "write", "prepare", "publish", "verify"} /\ begun[p] = {}
           /\ stage'[p] = "failed"
  BY <1>1, <1>9 DEF DirOf
<1>10. CASE stage[p] = "rollback" /\ answer[p] = "ok" /\ stage'[p] \in {"rollback", "failed"}
  BY <1>1, <1>10 DEF DirOf, Course, Yields
<1> QED
  BY <1>2, <1>3, <1>4, <1>5, <1>6, <1>7, <1>8, <1>9, <1>10 DEF Turn

LEMMA TurnOrderly ==
    ASSUME PubTypeOK, PubTypeOK', Orderly, NEW p \in Publications, Turn(p), UNCHANGED machineVars,
           \A q \in Publications : q # p => /\ stage'[q] = stage[q] /\ target'[q] = target[q]
                                            /\ begun'[q] = begun[q] /\ answer'[q] = answer[q],
           answer'[p] = "none",
           \/ begun'[p] = begun[p]
           \/ stage[p] = "begin" /\ answer[p] = "ok" /\ begun'[p] = begun[p] \cup {target[p]},
           Loops(p)', Yields(p)'
    PROVE  Orderly'
<1>1. Course(p) /\ Course(p)'
  BY DEF Orderly, Course
<1>2. stage[p] = "begin" => target[p] \in Machines
  BY <1>1, PubNumbers DEF Course, Loops, Steps
<1>3. ASSUME NEW t \in Machines PROVE Calls(p, t)' /\ Steady(p, t)
  <2>1. Calls(p, t) /\ DirOf(p, t)
    BY DEF Orderly
  <2>2. Steady(p, t)
    BY <1>1, <2>1, TurnIsSteady
  <2>3. \/ answer[p] # "wait" \/ stage[p] = "complete"
        \/ stage[p] \in {"begin", "write", "prepare", "publish"} /\ stage'[p] \in {"rollback", "failed"}
    BY <1>1 DEF Turn, Course, Loops
  <2>4. /\ stage[p] \in {"rollback", "failed"} => stage'[p] \in {"rollback", "failed"}
        /\ stage[p] # "ok"
    BY DEF Turn
  <2>5. stage[p] = "complete" => (stage'[p] = "ok" \/ (stage'[p] = "complete" /\ target'[p] > target[p]))
    BY DEF Turn
  <2>6. \/ begun'[p] = begun[p]
        \/ /\ stage[p] = "begin" /\ answer[p] = "ok" /\ begun'[p] = begun[p] \cup {target[p]}
           /\ target[p] \in Machines
    BY <1>2
  <2>7. Calls(p, t)'
    BY <1>1, <2>1, <2>3, <2>4, <2>5, <2>6, CallsMove
  <2> QED
    BY <2>2, <2>7
<1>4. \A t \in Machines, q \in Publications, s \in Steps :
              q # p => (Queued(q, t, s)' <=> Queued(q, t, s))
  BY DEF Queued, machineVars
<1>5. UNCHANGED <<live, dir, work, fence>>
  BY DEF machineVars
<1>6. stage[p] \in {"apply", "failed", "ok"} => stage'[p] \in {"apply", "failed", "ok"}
  BY DEF Turn
<1>7. begun[p] \subseteq begun'[p]
  OBVIOUS
<1> QED
  BY <1>1, <1>3, <1>4, <1>5, <1>6, <1>7, PublisherMoves

LEMMA SendOrderly ==
    ASSUME PubTypeOK, PubTypeOK', Orderly, NEW p \in Publications, Send(p)
    PROVE  Orderly'
<1>1. /\ UNCHANGED <<live, dir, work, fence, stage, target, begun>>
      /\ stage[p] \in Steps \ {"verify"} /\ answer[p] = "none" /\ answer'[p] = "wait"
      /\ \A q \in Publications : q # p => answer'[q] = answer[q]
  BY DEF Send, PubTypeOK
<1>2. Course(p)
  BY DEF Orderly
<1>3. target[p] \in ScopeOf[p] /\ target[p] \in Machines
  BY <1>1, <1>2, PubNumbers DEF Course, Loops
<1>4. \A t \in Machines : inbox'[t] = IF t = target[p] THEN inbox[t] \cup {[pub |-> p, step |-> stage[p]]}
                                      ELSE inbox[t]
  BY <1>3 DEF Send, PubTypeOK
<1>5. \A t \in Machines, q \in Publications, s \in Steps :
         Queued(q, t, s)' <=> Queued(q, t, s) \/ (q = p /\ t = target[p] /\ s = stage[p])
  <2> SUFFICES ASSUME NEW t \in Machines, NEW q \in Publications, NEW s \in Steps
      PROVE  Queued(q, t, s)' <=> Queued(q, t, s) \/ (q = p /\ t = target[p] /\ s = stage[p])
    OBVIOUS
  <2>1. [pub |-> q, step |-> s] = [pub |-> p, step |-> stage[p]] <=> q = p /\ s = stage[p]
    OBVIOUS
  <2> QED
    BY <1>4, <2>1 DEF Queued
<1>6. Course(p)'
  <2>1. Loops(p)'
    <3>1. Loops(p) /\ stage' = stage /\ target' = target /\ begun' = begun
      BY <1>1, <1>2 DEF Course
    <3> QED
      BY <1>1, <3>1 DEF Loops, Steps
  <2>2. Yields(p)'
    <3>1. Yields(p) /\ stage' = stage /\ target' = target /\ begun' = begun /\ dir' = dir /\ fence' = fence
      BY <1>1, <1>2 DEF Course
    <3>2. Undone(p)' <=> stage[p] = "failed"
      BY <1>1, <3>1 DEF Undone
    <3> QED
      BY <1>1, <3>1, <3>2 DEF Yields, Undone
  <2> QED
    BY <2>1, <2>2 DEF Course
<1>7. ASSUME NEW t \in Machines PROVE Calls(p, t)'
  <2>1. Calls(p, t)
    BY DEF Orderly
  <2>2. \A s \in Steps : InHand(p, t, s)' <=> InHand(p, t, s)
    BY <1>1 DEF InHand
  <2>3. ASSUME NEW s \in Steps, Pending(p, t, s) PROVE Belated(p, t, s) /\ Belated(p, t, s)'
    BY <1>1, <2>1, <2>3 DEF Calls, Waits, Belated
  <2>4. t = target[p] => ~Pending(p, t, stage[p])
    <3> SUFFICES ASSUME t = target[p], Pending(p, t, stage[p]) PROVE FALSE
      OBVIOUS
    <3>1. Belated(p, t, stage[p])
      BY <1>1, <2>3
    <3> QED
      BY <1>1, <1>3, <3>1, PubNumbers DEF Belated
  <2>5. ASSUME NEW s \in Steps, Pending(p, t, s)' PROVE Waits(p, t, s)' \/ Belated(p, t, s)'
    <3>1. Pending(p, t, s) \/ (t = target[p] /\ s = stage[p])
      BY <1>5, <2>2, <2>5 DEF Pending
    <3> QED
      BY <1>1, <2>3, <3>1 DEF Waits
  <2>6. ASSUME NEW s \in Steps PROVE ~(Queued(p, t, s)' /\ InHand(p, t, s)')
    BY <1>5, <2>1, <2>2, <2>4, <2>6 DEF Calls, Pending
  <2>7. Pending(p, t, "begin")' => t \notin begun'[p]
    <3>1. stage[p] = "begin" /\ t = target[p] => t \notin begun[p]
      BY <1>2, <1>3, PubNumbers DEF Course, Loops
    <3> QED
      BY <1>1, <1>5, <2>1, <2>2, <3>1 DEF Calls, Pending, Steps
  <2>8. Pending(p, t, "publish")' => t \in begun'[p]
    <3>1. stage[p] = "publish" /\ t = target[p] => t \in begun[p]
      BY <1>2, <1>3 DEF Course, Loops
    <3> QED
      BY <1>1, <1>5, <2>1, <2>2, <3>1 DEF Calls, Pending, Steps
  <2>9. Queued(p, t, "apply")' \/ (InHand(p, t, "apply")' /\ work'[t].mode = "start") =>
          dir'[p][t].phase = "none"
    <3>1. stage[p] = "apply" /\ t = target[p] => dir[p][t].phase = "none"
      BY <1>1, <1>2 DEF Course, Yields, NoDir
    <3>2. Queued(p, t, "apply")' => Queued(p, t, "apply") \/ (stage[p] = "apply" /\ t = target[p])
      BY <1>5 DEF Steps
    <3>3. InHand(p, t, "apply")' => InHand(p, t, "apply")
      BY <2>2 DEF Steps
    <3> QED
      BY <1>1, <2>1, <3>1, <3>2, <3>3 DEF Calls
  <2> QED
    BY <2>5, <2>6, <2>7, <2>8, <2>9 DEF Calls
<1>8. ASSUME NEW t \in Machines PROVE Steady(p, t)
  BY <1>1 DEF Steady, Halved, Stands, Undone
<1> QED
  BY <1>1, <1>5, <1>6, <1>7, <1>8, PublisherMoves

\* Where a loop forward goes on.
LEMMA LoopForward ==
    ASSUME PubTypeOK, PubTypeOK', NEW p \in Publications, target[p] \in ScopeOf[p],
           NEW step \in Steps \ {"rollback"}, NEW next \in (Steps \ {"rollback"}) \cup {"ok"},
           Advance(p, Later(p), step, next)
    PROVE  /\ answer'[p] = "none"
           /\ \A q \in Publications : q # p => /\ stage'[q] = stage[q] /\ target'[q] = target[q]
                                               /\ answer'[q] = answer[q]
           /\ \/ /\ stage'[p] = step /\ target'[p] \in ScopeOf[p] /\ target'[p] > target[p]
                 /\ \A t \in ScopeOf[p] : t < target'[p] <=> t <= target[p]
              \/ /\ stage'[p] = next
                 /\ \A t \in ScopeOf[p] : t <= target[p]
                 /\ next # "ok" => target'[p] \in ScopeOf[p] /\ \A t \in ScopeOf[p] : target'[p] <= t
<1>1. \A t \in ScopeOf[p] : t \in Nat
  BY PubNumbers
<1>2. Later(p) \in SUBSET ScopeOf[p] /\ ScopeOf[p] \in SUBSET ScopeOf[p] /\ ScopeOf[p] # {}
  BY PubNumbers DEF Later
<1>3. CASE Later(p) = {}
  <2>1. GoTo(p, next)
    BY <1>3 DEF Advance
  <2>2. \A t \in ScopeOf[p] : t <= target[p]
    BY <1>1, <1>3 DEF Later
  <2>3. next # "ok" => target'[p] = Least(ScopeOf[p])
    BY <2>1, Goes DEF Steps
  <2>4. Least(ScopeOf[p]) \in ScopeOf[p] /\ \A t \in ScopeOf[p] : Least(ScopeOf[p]) <= t
    BY <1>2, TargetEnds
  <2> QED
    BY <2>1, <2>2, <2>3, <2>4, Goes
<1>4. CASE Later(p) # {}
  <2>1. stage'[p] = step /\ answer'[p] = "none" /\ target'[p] = Least(Later(p))
        /\ \A q \in Publications : q # p => /\ stage'[q] = stage[q] /\ target'[q] = target[q]
                                            /\ answer'[q] = answer[q]
    BY <1>4, Comes
  <2>2. target'[p] \in Later(p) /\ \A t \in Later(p) : target'[p] <= t
    BY <1>2, <1>4, <2>1, TargetEnds
  <2>3. target'[p] \in ScopeOf[p] /\ target'[p] > target[p]
    BY <2>2 DEF Later
  <2>4. \A t \in ScopeOf[p] : t > target[p] => target'[p] <= t
    BY <2>2 DEF Later
  <2>5. \A t \in ScopeOf[p] : t < target'[p] <=> t <= target[p]
    BY <1>1, <2>3, <2>4
  <2> QED
    BY <2>1, <2>3, <2>5
<1> QED
  BY <1>3, <1>4

\* Where the rollback goes on.
LEMMA LoopBack ==
    ASSUME PubTypeOK, PubTypeOK', NEW p \in Publications, begun[p] \subseteq ScopeOf[p],
           target[p] \in ScopeOf[p],
           Advance(p, {t \in begun[p] : t < target[p]}, "rollback", "failed")
    PROVE  /\ answer'[p] = "none"
           /\ \A q \in Publications : q # p => /\ stage'[q] = stage[q] /\ target'[q] = target[q]
                                               /\ answer'[q] = answer[q]
           /\ \/ /\ stage'[p] = "rollback" /\ target'[p] \in begun[p]
                 /\ \A t \in begun[p] : t > target'[p] => t >= target[p]
              \/ /\ stage'[p] = "failed"
                 /\ \A t \in begun[p] : t >= target[p]
<1>1. \A t \in ScopeOf[p] : t \in Nat
  BY PubNumbers
<1>2. PICK S \in SUBSET ScopeOf[p] : S = {t \in begun[p] : t < target[p]}
  OBVIOUS
<1>3. \A t : t \in S <=> t \in begun[p] /\ t < target[p]
  BY <1>2
<1>4. Advance(p, S, "rollback", "failed")
  BY <1>2
<1>5. CASE S = {}
  <2>1. GoTo(p, "failed")
    BY <1>4, <1>5 DEF Advance
  <2>2. \A t \in begun[p] : t >= target[p]
    BY <1>1, <1>3, <1>5
  <2> QED
    BY <2>1, <2>2, Goes
<1>6. CASE S # {}
  <2>1. stage'[p] = "rollback" /\ answer'[p] = "none" /\ target'[p] = Greatest(S)
        /\ \A q \in Publications : q # p => /\ stage'[q] = stage[q] /\ target'[q] = target[q]
                                            /\ answer'[q] = answer[q]
    BY <1>4, <1>6, Comes
  <2>2. target'[p] \in S /\ \A t \in S : t <= target'[p]
    BY <1>6, <2>1, TargetEnds
  <2>3. \A t \in begun[p] : t > target'[p] => t >= target[p]
    <3> SUFFICES ASSUME NEW t \in begun[p], t > target'[p], ~(t >= target[p]) PROVE FALSE
      OBVIOUS
    <3>1. t \in Nat /\ target[p] \in Nat /\ target'[p] \in Nat
      BY <1>1, <1>3, <2>2
    <3>2. t \in S
      BY <1>3, <3>1
    <3> QED
      BY <2>2, <3>1, <3>2
  <2> QED
    BY <1>3, <2>1, <2>2, <2>3
<1> QED
  BY <1>5, <1>6

\* The last loop goes on, or ends because the lease is gone.
LEMMA CompleteOrderly ==
    ASSUME PubTypeOK, PubTypeOK', Orderly, NEW p \in Publications, stage[p] = "complete",
           UNCHANGED <<machineVars, begun>>,
           Advance(p, Later(p), "complete", "ok") \/ GoTo(p, "ok")
    PROVE  Orderly'
<1>1. UNCHANGED machineVars /\ begun' = begun /\ dir' = dir /\ fence' = fence
  BY DEF machineVars
<1>2. Course(p) /\ Loops(p) /\ Yields(p)
  BY DEF Orderly, Course
<1>3. target[p] \in ScopeOf[p] /\ begun[p] \subseteq ScopeOf[p]
  BY <1>2 DEF Loops, Steps
<1>4. /\ answer'[p] = "none"
      /\ \A q \in Publications : q # p => /\ stage'[q] = stage[q] /\ target'[q] = target[q]
                                          /\ answer'[q] = answer[q]
      /\ \/ stage'[p] = "complete" /\ target'[p] \in ScopeOf[p] /\ target'[p] > target[p]
         \/ stage'[p] = "ok"
  <2>1. CASE Advance(p, Later(p), "complete", "ok")
    <3>1. "complete" \in Steps \ {"rollback"} /\ "ok" \in (Steps \ {"rollback"}) \cup {"ok"}
      BY DEF Steps
    <3> QED
      BY <1>3, <2>1, <3>1, LoopForward
  <2>2. CASE GoTo(p, "ok")
    BY <2>2, Goes
  <2> QED
    BY <2>1, <2>2
<1>5. Loops(p)'
  BY <1>1, <1>3, <1>4 DEF Loops, Steps
<1>6. Yields(p)'
  <2>1. \A t \in ScopeOf[p] : p <= fence[t] /\ dir[p][t].phase \in {"published", "none"}
    BY <1>2 DEF Yields
  <2> QED
    BY <1>1, <1>4, <2>1 DEF Yields, Undone
<1>7. Turn(p)
  BY <1>4 DEF Turn
<1>8. \A q \in Publications : begun'[q] = begun[q]
  BY <1>1
<1> QED
  BY <1>1, <1>4, <1>5, <1>6, <1>7, <1>8, TurnOrderly

LEMMA DoneOrderly ==
    ASSUME PubTypeOK, PubTypeOK', Orderly, NEW p \in Publications, StepDone(p)
    PROVE  Orderly'
<1>1. answer[p] = "ok" /\ UNCHANGED machineVars /\ UNCHANGED <<live, dir, work, fence, inbox>>
  BY DEF StepDone, machineVars
<1>2. Course(p) /\ Loops(p) /\ Yields(p) /\ stage[p] # "verify"
  BY <1>1 DEF Orderly, Course, Loops
<1>3. stage[p] \in Steps
  BY DEF StepDone, Steps
<1>4. target[p] \in ScopeOf[p] /\ begun[p] \subseteq ScopeOf[p] /\ \A t \in ScopeOf[p] : t \in Nat /\ t \in Machines
  BY <1>2, <1>3, PubNumbers DEF Loops
<1>5. /\ \A q \in Publications : q # p => begun'[q] = begun[q]
      /\ stage[p] = "begin" => begun'[p] = begun[p] \cup {target[p]}
      /\ stage[p] # "begin" => begun'[p] = begun[p]
  BY DEF StepDone, PubTypeOK
<1>6. ASSUME Turn(p), Loops(p)', Yields(p)', answer'[p] = "none",
             \A q \in Publications : q # p => /\ stage'[q] = stage[q] /\ target'[q] = target[q]
                                              /\ answer'[q] = answer[q]
      PROVE  Orderly'
  <2>1. \/ begun'[p] = begun[p]
        \/ stage[p] = "begin" /\ answer[p] = "ok" /\ begun'[p] = begun[p] \cup {target[p]}
    BY <1>1, <1>5
  <2>2. \A q \in Publications : q # p => /\ stage'[q] = stage[q] /\ target'[q] = target[q]
                                         /\ begun'[q] = begun[q] /\ answer'[q] = answer[q]
    BY <1>5, <1>6
  <2> QED
    BY <1>1, <1>6, <2>1, <2>2, TurnOrderly
<1>7. CASE stage[p] \in {"begin", "write"}
  <2>1. PICK s \in {"write", "prepare"} : /\ stage' = [stage EXCEPT ![p] = s]
                                          /\ answer' = [answer EXCEPT ![p] = "none"]
                                          /\ UNCHANGED target
                                          /\ (s = "write" <=> stage[p] = "begin")
    BY <1>7 DEF StepDone
  <2>2. stage'[p] = s /\ answer'[p] = "none" /\ target' = target
        /\ \A q \in Publications : q # p => stage'[q] = stage[q] /\ answer'[q] = answer[q]
    BY <2>1 DEF PubTypeOK
  <2>3. \A t \in ScopeOf[p] : t \in begun'[p] <=> t <= target[p]
    <3>1. CASE stage[p] = "begin"
      <4>1. \A t \in ScopeOf[p] : t \in begun'[p] <=> t < target[p] \/ t = target[p]
        BY <1>2, <1>5, <3>1 DEF Loops
      <4> QED
        BY <1>4, <4>1
    <3>2. CASE stage[p] = "write"
      BY <1>2, <1>5, <3>2 DEF Loops
    <3> QED
      BY <1>7, <3>1, <3>2
  <2>4. begun'[p] \subseteq ScopeOf[p]
    BY <1>4, <1>5
  <2>5. Loops(p)'
    BY <1>4, <2>2, <2>3, <2>4 DEF Loops, Steps
  <2>6. Yields(p)'
    BY <2>2 DEF Yields, Undone
  <2>7. Turn(p)
    BY <1>1, <1>7, <2>2 DEF Turn
  <2> QED
    BY <1>6, <2>2, <2>5, <2>6, <2>7
<1>8. CASE stage[p] = "prepare"
  <2>1. Advance(p, Later(p), "begin", "publish") /\ begun'[p] = begun[p]
    BY <1>5, <1>8 DEF StepDone
  <2>2. \A t \in ScopeOf[p] : t \in begun[p] <=> t <= target[p]
    BY <1>2, <1>8 DEF Loops
  <2>3. /\ answer'[p] = "none"
        /\ \A q \in Publications : q # p => /\ stage'[q] = stage[q] /\ target'[q] = target[q]
                                            /\ answer'[q] = answer[q]
    BY <1>4, <2>1, LoopForward DEF Steps
  <2>4. \/ /\ stage'[p] = "begin" /\ target'[p] \in ScopeOf[p]
           /\ \A t \in ScopeOf[p] : t < target'[p] <=> t <= target[p]
        \/ /\ stage'[p] = "publish" /\ target'[p] \in ScopeOf[p]
           /\ \A t \in ScopeOf[p] : t <= target[p] /\ target'[p] <= t
    <3>1. "begin" \in Steps \ {"rollback"} /\ "publish" \in (Steps \ {"rollback"}) \cup {"ok"}
      BY DEF Steps
    <3> QED
      BY <1>4, <2>1, <3>1, LoopForward
  <2>5. Loops(p)'
    <3>1. CASE stage'[p] = "begin"
      BY <1>4, <2>1, <2>2, <2>4, <3>1 DEF Loops
    <3>2. CASE stage'[p] = "publish"
      <4>1. begun'[p] = ScopeOf[p]
        BY <1>4, <2>1, <2>2, <2>4, <3>2
      <4> QED
        BY <2>4, <3>2, <4>1 DEF Loops
    <3> QED
      BY <2>4, <3>1, <3>2
  <2>6. Yields(p)'
    <3>1. stage'[p] = "publish" => \A t \in ScopeOf[p] : ~(t < target'[p])
      BY <1>4, <2>4
    <3> QED
      BY <2>3, <2>4, <3>1 DEF Yields, Undone
  <2>7. Turn(p)
    BY <1>1, <1>8, <2>4 DEF Turn
  <2> QED
    BY <1>6, <2>3, <2>5, <2>6, <2>7
<1>9. CASE stage[p] = "publish"
  <2>1. Advance(p, Later(p), "publish", "verify") /\ begun'[p] = begun[p]
    BY <1>5, <1>9 DEF StepDone
  <2>2. begun[p] = ScopeOf[p] /\ \A t \in ScopeOf[p] : t <= target[p] => dir[p][t].phase = "published"
    <3>1. \A t \in ScopeOf[p] : t < target[p] \/ t = target[p] => dir[p][t].phase = "published"
      BY <1>1, <1>2, <1>9 DEF Yields
    <3>2. begun[p] = ScopeOf[p]
      BY <1>2, <1>9 DEF Loops
    <3> QED
      BY <1>4, <3>1, <3>2
  <2>3. /\ answer'[p] = "none"
        /\ \A q \in Publications : q # p => /\ stage'[q] = stage[q] /\ target'[q] = target[q]
                                            /\ answer'[q] = answer[q]
    BY <1>4, <2>1, LoopForward DEF Steps
  <2>4. \/ /\ stage'[p] = "publish" /\ target'[p] \in ScopeOf[p]
           /\ \A t \in ScopeOf[p] : t < target'[p] <=> t <= target[p]
        \/ /\ stage'[p] = "verify" /\ target'[p] \in ScopeOf[p]
           /\ \A t \in ScopeOf[p] : t <= target[p]
    <3>1. "publish" \in Steps \ {"rollback"} /\ "verify" \in (Steps \ {"rollback"}) \cup {"ok"}
      BY DEF Steps
    <3> QED
      BY <1>4, <2>1, <3>1, LoopForward
  <2>5. Loops(p)'
    BY <2>1, <2>2, <2>3, <2>4 DEF Loops
  <2>6. Yields(p)'
    <3>1. dir' = dir
      BY <1>1
    <3> QED
      BY <2>2, <2>3, <2>4, <3>1 DEF Yields, Undone
  <2>7. Turn(p)
    BY <1>1, <1>9, <2>4 DEF Turn
  <2> QED
    BY <1>6, <2>3, <2>5, <2>6, <2>7
<1>10. CASE stage[p] = "complete"
  <2>1. Advance(p, Later(p), "complete", "ok") /\ begun'[p] = begun[p]
    BY <1>5, <1>10 DEF StepDone
  <2>2. begun' = begun
    BY <1>10 DEF StepDone
  <2> QED
    BY <1>1, <1>10, <2>1, <2>2, CompleteOrderly
<1>11. CASE stage[p] = "apply"
  <2>1. GoTo(p, "ok") /\ begun'[p] = begun[p]
    BY <1>5, <1>11 DEF StepDone
  <2>2. /\ stage'[p] = "ok" /\ answer'[p] = "none"
        /\ \A q \in Publications : q # p => /\ stage'[q] = stage[q] /\ target'[q] = target[q]
                                            /\ answer'[q] = answer[q]
    BY <2>1, Goes
  <2>3. Loops(p)'
    BY <1>4, <2>1, <2>2 DEF Loops, Steps
  <2>4. Yields(p)'
    <3>1. \A t \in ScopeOf[p] : p <= fence[t] /\ dir[p][t].phase \in {"published", "none"}
      BY <1>1, <1>2, <1>11 DEF Yields
    <3>2. dir' = dir /\ fence' = fence
      BY <1>1
    <3> QED
      BY <2>2, <3>1, <3>2 DEF Yields, Undone
  <2>5. Turn(p)
    BY <1>1, <1>11, <2>2 DEF Turn
  <2> QED
    BY <1>6, <2>2, <2>3, <2>4, <2>5
<1>12. CASE stage[p] = "rollback"
  <2>1. Advance(p, {t \in begun[p] : t < target[p]}, "rollback", "failed") /\ begun'[p] = begun[p]
    BY <1>5, <1>12 DEF StepDone
  <2>2. /\ answer'[p] = "none"
        /\ \A q \in Publications : q # p => /\ stage'[q] = stage[q] /\ target'[q] = target[q]
                                            /\ answer'[q] = answer[q]
        /\ \/ /\ stage'[p] = "rollback" /\ target'[p] \in begun[p]
              /\ \A t \in begun[p] : t > target'[p] => t >= target[p]
           \/ stage'[p] = "failed" /\ \A t \in begun[p] : t >= target[p]
    BY <1>4, <2>1, LoopBack
  <2>3. \A t \in begun[p] : t >= target[p] => dir[p][t].phase = "none"
    <3>1. \A t \in begun[p] : t > target[p] \/ t = target[p] => dir[p][t].phase = "none"
      BY <1>1, <1>2, <1>12 DEF Yields
    <3> QED
      BY <1>4, <3>1
  <2>4. Loops(p)'
    BY <1>4, <2>1, <2>2 DEF Loops, Steps
  <2>5. Yields(p)'
    <3>1. dir' = dir
      BY <1>1
    <3>2. CASE stage'[p] = "rollback"
      BY <2>1, <2>2, <2>3, <3>1, <3>2 DEF Yields, Undone
    <3>3. CASE stage'[p] = "failed"
      <4>1. \A t \in begun[p] : dir[p][t].phase = "none"
        BY <2>2, <2>3, <3>3
      <4>2. \A t \in Machines : dir[p][t].phase # "published"
        <5>1. \A t \in Machines : DirOf(p, t)
          BY DEF Orderly
        <5> QED
          BY <1>12, <4>1, <5>1 DEF DirOf
      <4> QED
        BY <2>1, <3>1, <3>3, <4>1, <4>2 DEF Yields, Undone
    <3> QED
      BY <2>2, <3>2, <3>3
  <2>6. Turn(p)
    BY <1>1, <1>12, <2>2 DEF Turn
  <2> QED
    BY <1>6, <2>2, <2>4, <2>5, <2>6
<1> QED
  BY <1>2, <1>3, <1>7, <1>8, <1>9, <1>10, <1>11, <1>12 DEF Steps

\* An error whose undoing is not in doubt.
LEMMA FailOrderly ==
    ASSUME PubTypeOK, PubTypeOK', Orderly, NEW p \in Publications, Fail(p), ~dirty'[p],
           UNCHANGED <<machineVars, begun>>
    PROVE  Orderly'
<1>1. UNCHANGED machineVars /\ begun' = begun /\ dir' = dir /\ fence' = fence
  BY DEF machineVars
<1>2. Course(p) /\ Loops(p) /\ Yields(p)
  BY DEF Orderly, Course
<1>3. \A q \in Publications : begun'[q] = begun[q]
  BY <1>1
<1>4. CASE stage[p] \in {"begin", "write", "prepare", "publish", "verify"} /\ begun[p] = {} /\ GoTo(p, "failed")
  <2>1. /\ stage'[p] = "failed" /\ answer'[p] = "none"
        /\ \A q \in Publications : q # p => /\ stage'[q] = stage[q] /\ target'[q] = target[q]
                                            /\ answer'[q] = answer[q]
    BY <1>4, Goes
  <2>2. Loops(p)'
    BY <1>1, <1>4, <2>1 DEF Loops, Steps
  <2>3. \A t \in Machines : dir[p][t].phase # "published"
    <3>1. \A t \in Machines : DirOf(p, t)
      BY DEF Orderly
    <3> QED
      BY <1>4, <3>1 DEF DirOf
  <2>4. Yields(p)'
    BY <1>1, <1>4, <2>1, <2>3 DEF Yields
  <2>5. Turn(p)
    BY <1>4, <2>1 DEF Turn
  <2> QED
    BY <1>1, <1>3, <2>1, <2>2, <2>4, <2>5, TurnOrderly
<1>5. CASE stage[p] \in {"begin", "write", "prepare", "publish", "verify"} /\ begun[p] # {} /\ GoTo(p, "rollback")
  <2>1. /\ stage'[p] = "rollback" /\ answer'[p] = "none" /\ target'[p] = Greatest(begun[p])
        /\ \A q \in Publications : q # p => /\ stage'[q] = stage[q] /\ target'[q] = target[q]
                                            /\ answer'[q] = answer[q]
    BY <1>5, Goes
  <2>2. begun[p] \in SUBSET ScopeOf[p] /\ begun[p] # {} /\ \A t \in ScopeOf[p] : t \in Nat
    BY <1>2, <1>5, PubNumbers DEF Loops
  <2>3. target'[p] \in begun[p] /\ \A t \in begun[p] : t <= target'[p]
    BY <2>1, <2>2, TargetEnds
  <2>4. Loops(p)'
    BY <1>1, <2>1, <2>2, <2>3 DEF Loops, Steps
  <2>5. Yields(p)'
    <3>1. \A t \in begun[p] : ~(t > target'[p])
      BY <2>2, <2>3
    <3> QED
      BY <1>1, <2>1, <3>1 DEF Yields, Undone
  <2>6. Turn(p)
    BY <1>5, <2>1 DEF Turn
  <2> QED
    BY <1>1, <1>3, <2>1, <2>4, <2>5, <2>6, TurnOrderly
<1>6. CASE stage[p] = "apply" /\ GoTo(p, "failed") /\ dirty' = [dirty EXCEPT ![p] = @ \/ answer[p] # "failed"]
  <2>0. answer[p] = "failed"
    <3>1. dirty'[p] = (dirty[p] \/ answer[p] # "failed")
      BY <1>6 DEF PubTypeOK
    <3> QED
      BY <3>1
  <2>1. /\ stage'[p] = "failed" /\ answer'[p] = "none"
        /\ \A q \in Publications : q # p => /\ stage'[q] = stage[q] /\ target'[q] = target[q]
                                            /\ answer'[q] = answer[q]
    BY <1>6, Goes
  <2>2. Loops(p)'
    BY <1>1, <1>2, <2>1 DEF Loops, Steps
  <2>3. begun[p] = {} /\ \A t \in Machines : dir[p][t].phase # "published"
    BY <1>2, <1>6, <2>0 DEF Loops, Yields, Undone
  <2>4. Yields(p)'
    BY <1>1, <2>1, <2>3 DEF Yields
  <2>5. Turn(p)
    BY <1>6, <2>0, <2>1 DEF Turn
  <2> QED
    BY <1>1, <1>3, <2>1, <2>2, <2>4, <2>5, TurnOrderly
<1>7. CASE stage[p] = "complete" /\ Advance(p, Later(p), "complete", "ok")
  BY <1>7, CompleteOrderly
<1>8. CASE dirty' = [dirty EXCEPT ![p] = TRUE]
  BY <1>8 DEF PubTypeOK
<1> QED
  BY <1>4, <1>5, <1>6, <1>7, <1>8 DEF Fail

LEMMA VerifyOrderly ==
    ASSUME PubTypeOK, PubTypeOK', Orderly, NEW p \in Publications, Verify(p), ~dirty'[p]
    PROVE  Orderly'
<1>1. UNCHANGED <<machineVars, begun>> /\ stage[p] = "verify"
  BY DEF Verify
<1>2. UNCHANGED machineVars /\ begun' = begun /\ dir' = dir /\ fence' = fence
  BY <1>1 DEF machineVars
<1>3. Course(p) /\ Loops(p) /\ Yields(p)
  BY DEF Orderly, Course
<1>4. target[p] \in ScopeOf[p] /\ begun[p] = ScopeOf[p] /\ answer[p] = "none"
  BY <1>1, <1>3 DEF Loops, Steps
<1>5. CASE Advance(p, Later(p), "verify", "complete")
  <2>1. "verify" \in Steps \ {"rollback"} /\ "complete" \in (Steps \ {"rollback"}) \cup {"ok"}
    BY DEF Steps
  <2>2. /\ answer'[p] = "none"
        /\ \A q \in Publications : q # p => /\ stage'[q] = stage[q] /\ target'[q] = target[q]
                                            /\ answer'[q] = answer[q]
        /\ stage'[p] \in {"verify", "complete"} /\ target'[p] \in ScopeOf[p]
    BY <1>4, <1>5, <2>1, LoopForward
  <2>3. Loops(p)'
    BY <1>2, <1>4, <2>2 DEF Loops, Steps
  <2>4. \A t \in ScopeOf[p] : dir[p][t].phase = "published"
    BY <1>1, <1>3 DEF Yields
  <2>5. ASSUME NEW t \in ScopeOf[p] PROVE p <= fence[t]
    <3>1. t \in Machines /\ p \in Nat
      BY PubNumbers
    <3>2. fence[t] \in Nat
      <4>1. fence[t] \in {0} \cup Publications
        BY <3>1 DEF PubTypeOK
      <4>2. {0} \cup Publications \subseteq Nat
        BY PubNumbers
      <4> QED
        BY <4>1, <4>2
    <3>3. DirOf(p, t)
      BY <3>1 DEF Orderly
    <3>4. dir[p][t] # NoDir
      BY <2>4 DEF NoDir
    <3> QED
      BY <3>1, <3>2, <3>3, <3>4 DEF DirOf
  <2>6. Yields(p)'
    BY <1>2, <2>2, <2>4, <2>5 DEF Yields, Undone
  <2>7. Turn(p)
    BY <1>1, <2>2 DEF Turn
  <2>8. \A q \in Publications : begun'[q] = begun[q]
    BY <1>2
  <2> QED
    BY <1>2, <2>2, <2>3, <2>6, <2>7, <2>8, TurnOrderly
<1>6. CASE Fail(p)
  BY <1>1, <1>6, FailOrderly
<1> QED
  BY <1>5, <1>6 DEF Verify

LEMMA PublisherOrderly ==
    ASSUME PubTypeOK, PubTypeOK', Orderly, Clean', NEW p \in Publications,
           Acquire(p) \/ PublisherStep(p) \/ PublisherDies(p)
    PROVE  Orderly'
<1>1. ~dirty'[p]
  BY DEF Clean
<1>2. CASE RenewError(p)
  <2>1. UNCHANGED <<machineVars, begun>>
    BY <1>2 DEF RenewError
  <2>2. CASE stage[p] = "complete" /\ GoTo(p, "ok")
    BY <2>1, <2>2, CompleteOrderly
  <2>3. CASE Fail(p)
    BY <1>1, <2>1, <2>3, FailOrderly
  <2> QED
    BY <1>2, <2>2, <2>3 DEF RenewError
<1>3. CASE StepError(p)
  BY <1>1, <1>3, FailOrderly DEF StepError
<1>4. CASE PublisherDies(p)
  BY <1>1, <1>4 DEF PublisherDies, PubTypeOK
<1> QED
  BY <1>1, <1>2, <1>3, <1>4, AcquireOrderly, SendOrderly, DoneOrderly, VerifyOrderly DEF PublisherStep

-----------------------------------------------------------------------------
(* The steps of a target *)

LEMMA FenceIsNat ==
    ASSUME PubTypeOK, NEW t \in Machines
    PROVE  fence[t] \in Nat
<1>1. {0} \cup Publications \subseteq Nat
  BY PubNumbers
<1> QED
  BY <1>1 DEF PubTypeOK

\* A publication to one target has nothing on another.
LEMMA ApplyAlone ==
    ASSUME Orderly, NEW p \in Publications, stage[p] = "apply"
    PROVE  /\ target[p] \in Machines /\ ScopeOf[p] = {target[p]}
           /\ \A u \in Machines : u # target[p] => /\ ~dir[p][u].receipt /\ u \notin ScopeOf[p]
                                                   /\ dir[p][u].phase # "published"
<1>1. Loops(p)
  BY DEF Orderly, Course
<1>2. ScopeOf[p] = {target[p]} /\ target[p] \in Machines
  BY <1>1, PubNumbers DEF Loops
<1>3. \A u \in Machines : DirOf(p, u)
  BY DEF Orderly
<1> QED
  BY <1>2, <1>3 DEF DirOf

\* A step of target t that concerns p: what remains to be shown is about p and t.
LEMMA TargetMoves ==
    ASSUME PubTypeOK, PubTypeOK', Orderly, NEW t \in Machines, NEW p \in Publications,
           UNCHANGED <<stage, target, begun>>,
           \A u \in Machines : u # t => /\ live'[u] = live[u] /\ work'[u] = work[u]
                                        /\ fence'[u] = fence[u] /\ inbox'[u] = inbox[u],
           fence[t] <= fence'[t],
           \A q \in Publications : q # p => dir'[q] = dir[q] /\ answer'[q] = answer[q],
           \A u \in Machines : u # t => dir'[p][u] = dir[p][u],
           \/ answer'[p] = answer[p]
           \/ stage[p] \in Steps /\ target[p] = t /\ answer[p] = "wait",
           work[t] = NoWork \/ work[t].pub = p, work'[t] = NoWork \/ work'[t].pub = p,
           \A q \in Publications, s \in Steps : q # p => (Queued(q, t, s)' <=> Queued(q, t, s)),
           Course(p)', Calls(p, t)', DirOf(p, t)', WorkOf(p, t)', Level(t)'
    PROVE  Orderly'
<1>1. \A u \in Machines : fence[u] \in Nat /\ fence'[u] \in Nat /\ fence[u] <= fence'[u]
  <2>1. {0} \cup Publications \subseteq Nat
    BY PubNumbers
  <2>2. \A u \in Machines : fence[u] \in Nat /\ fence'[u] \in Nat
    BY <2>1 DEF PubTypeOK
  <2> QED
    BY <2>2
<1>2. ASSUME NEW q \in Publications PROVE Course(q)'
  <2>1. CASE q = p
    BY <2>1
  <2>2. CASE q # p
    <3>1. Course(q) /\ stage'[q] = stage[q] /\ target'[q] = target[q] /\ begun'[q] = begun[q]
          /\ answer'[q] = answer[q] /\ dir'[q] = dir[q]
      BY <2>2 DEF Orderly
    <3> QED
      BY <1>1, <3>1, CourseSame
  <2> QED
    BY <2>1, <2>2
<1>3. ASSUME NEW q \in Publications, NEW u \in Machines, q # p \/ u # t
      PROVE  Calls(q, u)' /\ DirOf(q, u)' /\ WorkOf(q, u)' /\ Steady(q, u)
  <2>0. Calls(q, u) /\ DirOf(q, u) /\ WorkOf(q, u) /\ dir'[q][u] = dir[q][u]
    BY <1>3 DEF Orderly
  <2>1. Calls(q, u)'
    <3>1. \A s \in Steps : /\ Queued(q, u, s)' <=> Queued(q, u, s)
                           /\ InHand(q, u, s)' <=> InHand(q, u, s)
      <4>1. CASE u = t
        BY <1>3, <4>1 DEF InHand
      <4>2. CASE u # t
        BY <4>2 DEF Queued, InHand
      <4> QED
        BY <4>1, <4>2
    <3>2. \A s \in Steps : Waits(q, u, s)' <=> Waits(q, u, s)
      BY <1>3 DEF Waits
    <3>3. InHand(q, u, "apply") => work'[u] = work[u]
      BY <1>3 DEF InHand
    <3>4. \A s \in Steps : Belated(q, u, s)' <=> Belated(q, u, s)
      BY DEF Belated
    <3>5. \A s \in Steps : Pending(q, u, s)' <=> Pending(q, u, s)
      BY <3>1 DEF Pending
    <3>6. begun' = begun
      OBVIOUS
    <3> HIDE DEF Queued
    <3>7. {"apply", "begin", "publish"} \subseteq Steps
      BY DEF Steps
    <3>8. \A s \in Steps : Pending(q, u, s)' => Waits(q, u, s)' \/ Belated(q, u, s)'
      BY <2>0, <3>2, <3>4, <3>5 DEF Calls
    <3>9. Pending(q, u, "begin")' => u \notin begun'[q]
      BY <2>0, <3>5, <3>6, <3>7 DEF Calls
    <3>10. Pending(q, u, "publish")' => u \in begun'[q]
      BY <2>0, <3>5, <3>6, <3>7 DEF Calls
    <3>11. Queued(q, u, "apply")' \/ (InHand(q, u, "apply")' /\ work'[u].mode = "start") =>
              dir'[q][u].phase = "none"
      BY <2>0, <3>1, <3>3, <3>7 DEF Calls
    <3>12. \A s \in Steps : ~(Queued(q, u, s)' /\ InHand(q, u, s)')
      BY <2>0, <3>1 DEF Calls
    <3> QED
      BY <3>8, <3>9, <3>10, <3>11, <3>12 DEF Calls
  <2>2. DirOf(q, u)'
    <3>1. q \in Nat /\ fence[u] \in Nat /\ fence'[u] \in Nat /\ fence[u] <= fence'[u]
      BY <1>1, PubNumbers
    <3>2. q > fence'[u] => q > fence[u]
      BY <3>1
    <3> QED
      BY <2>0, <3>2 DEF DirOf
  <2>3. WorkOf(q, u)'
    BY <1>3, <2>0 DEF WorkOf
  <2>4. Steady(q, u)
    <3>1. CASE answer'[q] = answer[q]
      BY <2>0, <3>1 DEF Steady, Halved, Stands, Undone
    <3>2. CASE answer'[q] # answer[q]
      <4>1. q = p /\ stage[p] \in Steps /\ target[p] = t /\ u # t
        BY <1>3, <3>2
      <4>2. CASE stage[p] = "apply"
        <5>1. ~dir[p][u].receipt /\ u \notin ScopeOf[p]
          BY <4>1, <4>2, ApplyAlone
        <5> QED
          BY <2>0, <4>1, <5>1 DEF Steady, Halved, Stands
      <4>3. CASE stage[p] # "apply"
        BY <2>0, <4>1, <4>3 DEF Steady, Halved, Stands, Undone
      <4> QED
        BY <4>2, <4>3
    <3> QED
      BY <3>1, <3>2
  <2> QED
    BY <2>1, <2>2, <2>3, <2>4
<1>4. ASSUME NEW u \in Machines PROVE Level(u)'
  <2>1. CASE u = t
    BY <2>1
  <2>2. CASE u # t
    <3>1. \A q \in Publications : Steady(q, u) /\ dir'[q][u] = dir[q][u]
      BY <1>3, <2>2
    <3> QED
      BY <2>2, <3>1, LevelSame DEF Orderly
  <2> QED
    BY <2>1, <2>2
<1> QED
  BY <1>2, <1>3, <1>4 DEF Orderly

\* What is in hand is waited for, or is one of the requests that may come late.
LEMMA InWork ==
    ASSUME PubInv, Orderly, NEW t \in Machines, work[t] # NoWork,
           NEW p \in Publications, p = work[t].pub
    PROVE  /\ fence[t] = p /\ work[t] \in Tasks /\ work[t].step \in Steps /\ Dir(t) = dir[p][t]
           /\ InHand(p, t, work[t].step)
           /\ Waits(p, t, work[t].step) \/ Belated(p, t, work[t].step)
           /\ ~Queued(p, t, "apply")
           /\ stage[p] \notin {"new", "verify", "dead"}
<1>1. fence[t] = p /\ work[t] \in Tasks /\ work[t].step \in Steps /\ Dir(t) = dir[p][t]
  BY Executes DEF Tasks
<1>2. InHand(p, t, work[t].step) /\ Calls(p, t) /\ Course(p)
  BY DEF InHand, Orderly
<1>3. Waits(p, t, work[t].step) \/ Belated(p, t, work[t].step)
  BY <1>1, <1>2 DEF Calls, Pending
<1>4. ~Queued(p, t, "apply")
  <2> SUFFICES ASSUME Queued(p, t, "apply") PROVE FALSE
    OBVIOUS
  <2>1. stage[p] = "apply" /\ work[t].step # "apply"
    BY <1>2, <1>1 DEF Calls, Pending, Waits, Belated, Steps
  <2> QED
    BY <1>3, <2>1 DEF Waits, Belated
<1>5. stage[p] \notin {"new", "verify", "dead"}
  BY <1>1, <1>2, <1>3 DEF Waits, Belated, Course, Loops, Steps
<1> QED
  BY <1>1, <1>2, <1>3, <1>4, <1>5

\* The request in hand goes on, or ends, with an answer or without one.
LEMMA WorkMoves ==
    ASSUME PubInv, PubTypeOK', Orderly, NEW t \in Machines, work[t] # NoWork,
           NEW p \in Publications, p = work[t].pub,
           UNCHANGED <<fence, inbox, stage, target, begun>>,
           \A u \in Machines : u # t => live'[u] = live[u] /\ work'[u] = work[u],
           \A q \in Publications : q # p => dir'[q] = dir[q] /\ answer'[q] = answer[q],
           \A u \in Machines : u # t => dir'[p][u] = dir[p][u],
           \/ /\ work'[t] = NoWork
              /\ answer'[p] = answer[p] \/ Waits(p, t, work[t].step)
           \/ /\ work'[t].pub = p /\ work'[t].step = work[t].step /\ work'[t].mode # "start"
              /\ answer'[p] = answer[p],
           Yields(p)', DirOf(p, t)', WorkOf(p, t)',
           Content(t, p) /\ (\A f \in Files : BaseOf(t, p, f)' = BaseOf(t, p, f)) => Content(t, p)'
    PROVE  Orderly'
<1>1. /\ fence[t] = p /\ work[t] \in Tasks /\ work[t].step \in Steps
      /\ InHand(p, t, work[t].step)
      /\ Waits(p, t, work[t].step) \/ Belated(p, t, work[t].step)
      /\ ~Queued(p, t, "apply") /\ stage[p] \notin {"new", "verify", "dead"}
  BY InWork
<1>2. PubTypeOK /\ Course(p) /\ Calls(p, t) /\ fence' = fence /\ stage' = stage /\ target' = target
      /\ begun' = begun /\ inbox' = inbox
  BY DEF PubInv, Orderly
<1>3. Course(p)'
  <2>1. Loops(p)'
    BY <1>1, <1>2 DEF Course, Loops
  <2> QED
    BY <2>1 DEF Course
<1>4. Calls(p, t)'
  <2>1. \A s \in Steps : Queued(p, t, s)' <=> Queued(p, t, s)
    BY <1>2 DEF Queued
  <2>2. \A s \in Steps : Belated(p, t, s)' <=> Belated(p, t, s)
    BY <1>2 DEF Belated
  <2>3. ASSUME NEW s \in Steps, Queued(p, t, s), Waits(p, t, s) PROVE Waits(p, t, s)'
    <3>1. s # work[t].step
      BY <1>1, <1>2, <2>3 DEF Calls
    <3>2. answer'[p] = answer[p]
      BY <2>3, <3>1 DEF Waits
    <3> QED
      BY <1>2, <2>3, <3>2 DEF Waits
  <2>4. CASE work'[t] = NoWork
    <3>1. \A s \in Steps : ~InHand(p, t, s)'
      BY <2>4 DEF InHand
    <3>2. \A s \in Steps : Pending(p, t, s)' => Queued(p, t, s) /\ Pending(p, t, s)
      BY <2>1, <3>1 DEF Pending
    <3>3. \A s \in Steps : Pending(p, t, s)' => Waits(p, t, s)' \/ Belated(p, t, s)'
      BY <1>2, <2>2, <2>3, <3>2 DEF Calls
    <3> QED
      BY <1>1, <1>2, <2>1, <3>1, <3>2, <3>3 DEF Calls, Steps
  <2>5. CASE /\ work'[t].pub = p /\ work'[t].step = work[t].step /\ work'[t].mode # "start"
             /\ answer'[p] = answer[p]
    <3>1. \A s \in Steps : InHand(p, t, s)' => InHand(p, t, s)
      BY <2>5 DEF InHand
    <3>2. \A s \in Steps : Pending(p, t, s)' => Pending(p, t, s)
      BY <2>1, <3>1 DEF Pending
    <3>3. \A s \in Steps : Waits(p, t, s)' <=> Waits(p, t, s)
      BY <1>2, <2>5 DEF Waits
    <3>4. \A s \in Steps : Pending(p, t, s)' => Waits(p, t, s)' \/ Belated(p, t, s)'
      BY <1>2, <2>2, <3>2, <3>3 DEF Calls
    <3> QED
      BY <1>1, <1>2, <2>1, <2>5, <3>1, <3>2, <3>4 DEF Calls, Steps
  <2> QED
    BY <2>4, <2>5
<1>5. Level(t)'
  <2>1. p # 0 /\ fence'[t] = p
    BY <1>1, <1>2, PubNumbers
  <2>2. ASSUME NEW q \in Publications, q # p
        PROVE  (Stands(q, t)' <=> Stands(q, t)) /\ (Halved(q, t)' <=> Halved(q, t))
    BY <1>2, <2>2 DEF Halved, Stands, Undone
  <2>3. \A q \in Publications : q < p => q # p
    BY PubNumbers
  <2>4. ASSUME NoneHalved(t, p)' PROVE Content(t, p)'
    <3>1. NoneHalved(t, p)
      BY <2>2, <2>3, <2>4 DEF NoneHalved
    <3>2. Content(t, p)
      BY <1>1, <3>1 DEF Orderly, Level
    <3>3. \A f \in Files : BaseOf(t, p, f)' = BaseOf(t, p, f)
      <4>1. \A q \in Publications : q < p => (Stands(q, t)' <=> Stands(q, t))
        BY <2>2, <2>3
      <4> QED
        BY <4>1, SameBase
    <3> QED
      BY <3>2, <3>3
  <2> QED
    BY <2>1, <2>4 DEF Level
<1>6. work'[t] = NoWork \/ work'[t].pub = p
  OBVIOUS
<1>7. answer'[p] = answer[p] \/ (stage[p] \in Steps /\ target[p] = t /\ answer[p] = "wait")
  BY <1>1 DEF Waits
<1>8. \A q \in Publications, s \in Steps : q # p => (Queued(q, t, s)' <=> Queued(q, t, s))
  BY <1>2 DEF Queued
<1>9. \A u \in Machines : u # t => /\ live'[u] = live[u] /\ work'[u] = work[u]
                                   /\ fence'[u] = fence[u] /\ inbox'[u] = inbox[u]
  BY <1>2
<1>10. fence[t] <= fence'[t]
  BY <1>2, FenceIsNat
<1> QED
  BY <1>2, <1>3, <1>4, <1>5, <1>6, <1>7, <1>8, <1>9, <1>10, TargetMoves

LEMMA FinishEffect ==
    ASSUME PubInv, NEW t \in Machines, work[t] # NoWork, NEW p \in Publications, p = work[t].pub,
           NEW result, Finish(t, result)
    PROVE  /\ work'[t] = NoWork /\ \A u \in Machines : u # t => work'[u] = work[u]
           /\ \A q \in Publications : q # p => answer'[q] = answer[q]
           /\ answer'[p] = IF Waits(p, t, work[t].step) THEN result ELSE answer[p]
  BY DEF Finish, Reply, Waits, PubInv, PubTypeOK

LEMMA DirEffect ==
    ASSUME PubInv, NEW t \in Machines, NEW p \in Publications, p = work[t].pub,
           NEW d, SetDir(t, d)
    PROVE  /\ dir'[p][t] = d /\ \A u \in Machines : u # t => dir'[p][u] = dir[p][u]
           /\ \A q \in Publications : q # p => dir'[q] = dir[q]
<1>1. dir' = [dir EXCEPT ![p][t] = d] /\ dir \in [Publications -> [Machines -> Dirs]]
  BY DEF SetDir, PubInv, PubTypeOK, Dirs
<1> QED
  BY <1>1

\* What the loops have behind them stays when directories do.
LEMMA YieldsKept ==
    ASSUME Orderly, NEW p \in Publications, UNCHANGED <<fence, stage, target, begun>>,
           dir'[p] = dir[p],
           \/ answer'[p] = answer[p]
           \/ answer[p] = "wait" /\ answer'[p] = "failed" /\ stage[p] # "apply"
    PROVE  Yields(p)'
<1>1. Yields(p) /\ fence' = fence /\ stage' = stage /\ target' = target /\ begun' = begun
  BY DEF Orderly, Course
<1> QED
  BY <1>1 DEF Yields, Undone

\* In the middle of a step a publication neither stands nor is undone.
LEMMA MidStep ==
    ASSUME PubInv, Orderly, NEW t \in Machines, work[t].mode \in {"replace", "undo", "remove"},
           NEW p \in Publications, p = work[t].pub
    PROVE  /\ work[t] # NoWork /\ fence[t] = p
           /\ ~Stands(p, t) /\ ~Undone(p) /\ stage[p] # "failed"
           /\ work[t].step \in {"publish", "apply", "rollback"}
           /\ work[t].step \in {"apply", "rollback"} => Waits(p, t, work[t].step)
           /\ work[t].step # "rollback" => dir[p][t].receipt /\ dir[p][t].phase = "prepared"
           /\ work[t].mode # "remove" => dir[p][t].receipt
           /\ work[t].step = "publish" => stage[p] \in {"publish", "rollback"} /\ work[t].mode # "remove"
           /\ work[t].mode = "replace" => work[t].step # "rollback"
<1>1. work[t] # NoWork
  BY DEF NoWork
<1>2. /\ fence[t] = p /\ work[t].step \in Steps /\ InHand(p, t, work[t].step)
      /\ Waits(p, t, work[t].step) \/ Belated(p, t, work[t].step)
  BY <1>1, InWork
<1>3. WorkOf(p, t) /\ Calls(p, t) /\ Yields(p)
  BY DEF Orderly, Course
<1>4. /\ work[t].step \in {"publish", "apply", "rollback"}
      /\ work[t].step # "rollback" => dir[p][t].receipt /\ dir[p][t].phase = "prepared"
      /\ work[t].mode # "remove" => dir[p][t].receipt
      /\ work[t].mode = "replace" => work[t].step # "rollback"
      /\ work[t].step = "publish" => work[t].mode # "remove"
  BY <1>1, <1>3 DEF WorkOf
<1>5. work[t].step \in {"apply", "rollback"} => Waits(p, t, work[t].step)
  BY <1>2 DEF Belated
<1>6. work[t].step = "publish" => stage[p] \in {"publish", "rollback"}
  <2> SUFFICES ASSUME work[t].step = "publish" PROVE stage[p] \in {"publish", "rollback"}
    OBVIOUS
  <2>1. t \in begun[p]
    BY <1>2, <1>3 DEF Calls, Pending
  <2>2. stage[p] # "failed"
    BY <1>3, <1>4, <2>1 DEF Yields
  <2> QED
    BY <1>2, <2>2 DEF Waits, Belated
<1>7. ~Stands(p, t) /\ ~Undone(p) /\ stage[p] # "failed"
  <2>1. CASE work[t].step = "publish"
    BY <1>4, <1>6, <2>1 DEF Stands, Undone
  <2>2. CASE work[t].step = "apply"
    BY <1>4, <1>5, <2>2 DEF Stands, Undone, Waits
  <2>3. CASE work[t].step = "rollback"
    BY <1>5, <2>3 DEF Stands, Undone, Waits
  <2> QED
    BY <1>4, <2>1, <2>2, <2>3
<1> QED
  BY <1>1, <1>2, <1>4, <1>5, <1>6, <1>7

\* Steps that end the request and leave files and directories.
LEMMA EndsOrderly ==
    ASSUME PubInv, PubTypeOK', Orderly, NEW t \in Machines,
           StartError(t) \/ PublishAgain(t) \/ RemoveError(t) \/ MachineDies(t)
    PROVE  Orderly'
<1>1. work[t] # NoWork
  <2>1. work[t].mode \in Modes \/ work[t] # NoWork
    BY DEF StartError, PublishAgain, Starts, RemoveError, MachineDies, Modes
  <2> QED
    BY <2>1, Executes
<1>2. PICK p \in Publications : p = work[t].pub
  BY <1>1, Executes
<1>3. /\ fence[t] = p /\ work[t].step \in Steps /\ InHand(p, t, work[t].step)
      /\ Waits(p, t, work[t].step) \/ Belated(p, t, work[t].step)
      /\ stage[p] \notin {"new", "verify", "dead"}
  BY <1>1, <1>2, InWork
<1>4. UNCHANGED <<live, dir, fence, inbox, stage, target, begun>>
  BY DEF StartError, PublishAgain, RemoveError, MachineDies, publisherVars
<1>5. dir' = dir /\ live' = live /\ stage' = stage
  BY <1>4
<1>6. PICK result \in {"ok", "failed"} :
        /\ work'[t] = NoWork /\ \A u \in Machines : u # t => work'[u] = work[u]
        /\ \A q \in Publications : q # p => answer'[q] = answer[q]
        /\ \/ answer'[p] = answer[p]
           \/ /\ Waits(p, t, work[t].step) /\ answer'[p] = result
              /\ result = "ok" => PublishAgain(t)
              /\ result = "failed" => StartError(t) \/ RemoveError(t)
  <2>1. CASE MachineDies(t)
    BY <2>1 DEF MachineDies, PubInv, PubTypeOK, publisherVars
  <2>2. CASE PublishAgain(t)
    <3>1. Finish(t, "ok")
      BY <2>2 DEF PublishAgain
    <3> QED
      BY <1>1, <1>2, <2>2, <3>1, FinishEffect
  <2>3. CASE StartError(t) \/ RemoveError(t)
    <3>1. Finish(t, "failed")
      BY <2>3 DEF StartError, RemoveError
    <3> QED
      BY <1>1, <1>2, <2>3, <3>1, FinishEffect
  <2> QED
    BY <2>1, <2>2, <2>3
<1>7. DirOf(p, t) /\ Calls(p, t) /\ WorkOf(p, t) /\ Yields(p)
  BY DEF Orderly, Course
<1>8. DirOf(p, t)' /\ WorkOf(p, t)'
  BY <1>4, <1>5, <1>6, <1>7 DEF DirOf, WorkOf
\* An Apply that fails to start has left nothing, one that fails to remove its directory
\* has restored the files.
<1>9. ASSUME stage[p] = "apply", answer'[p] # answer[p]
      PROVE  /\ answer[p] = "wait" /\ answer'[p] = "failed" /\ target[p] = t
             /\ dir[p][t].phase # "published" /\ ~Stands(p, t) /\ ~Stands(p, t)'
             /\ Content(t, p) => \A f \in Files : live[t][f] = BaseOf(t, p, f)
  <2>1. work[t].step = "apply" /\ answer[p] = "wait" /\ target[p] = t
    BY <1>6, <1>9 DEF Waits
  <2>2. answer'[p] = "failed" /\ (StartError(t) \/ RemoveError(t))
    BY <1>6, <1>9, <2>1 DEF PublishAgain, Starts
  <2>3. CASE StartError(t)
    <3>1. dir[p][t].phase = "none" /\ ~dir[p][t].receipt
      BY <1>3, <1>7, <2>1, <2>3 DEF Calls, DirOf, StartError
    <3>2. ~Stands(p, t) /\ ~Stands(p, t)' /\ ~Halved(p, t)
      BY <1>5, <1>9, <2>1, <2>2, <3>1 DEF Stands, Halved
    <3> QED
      BY <2>1, <2>2, <3>1, <3>2 DEF Content
  <2>4. CASE RemoveError(t)
    <3>1. work[t].mode = "remove"
      BY <2>4 DEF RemoveError
    <3>2. dir[p][t].phase = "prepared" /\ ~Stands(p, t)
      BY <1>2, <2>1, <3>1, MidStep
    <3>3. ~Stands(p, t)'
      BY <1>5, <3>2 DEF Stands
    <3> QED
      BY <2>1, <2>2, <3>1, <3>2, <3>3 DEF Content
  <2> QED
    BY <2>2, <2>3, <2>4
<1>10. Yields(p)'
  <2>1. CASE answer'[p] = answer[p] \/ (answer'[p] = "failed" /\ stage[p] # "apply")
    <3>1. answer'[p] = answer[p] \/ (answer[p] = "wait" /\ answer'[p] = "failed" /\ stage[p] # "apply")
      BY <1>6, <2>1 DEF Waits
    <3> QED
      BY <1>4, <1>5, <3>1, YieldsKept
  <2>2. CASE answer'[p] # answer[p] /\ stage[p] = "apply"
    <3>1. \A u \in Machines : dir[p][u].phase # "published"
      BY <1>9, <2>2, ApplyAlone
    <3> QED
      BY <1>4, <1>5, <1>9, <2>2, <3>1 DEF Yields, Undone
  <2>3. CASE answer'[p] # answer[p] /\ answer'[p] = "ok" /\ stage[p] # "apply"
    <3>1. stage[p] = "publish" /\ target[p] = t /\ answer[p] = "wait" /\ dir[p][t].phase = "published"
      BY <1>2, <1>6, <2>3 DEF Waits, PublishAgain, Starts, Dir
    <3>2. \A u \in ScopeOf[p] : u < t => dir[p][u].phase = "published"
      BY <1>7, <3>1 DEF Yields
    <3> QED
      BY <1>4, <1>5, <3>1, <3>2 DEF Yields, Undone
  <2> QED
    BY <1>6, <2>1, <2>2, <2>3
<1>11. Content(t, p) /\ (\A f \in Files : BaseOf(t, p, f)' = BaseOf(t, p, f)) => Content(t, p)'
  <2> SUFFICES ASSUME Content(t, p), \A f \in Files : BaseOf(t, p, f)' = BaseOf(t, p, f)
               PROVE  Content(t, p)'
    OBVIOUS
  <2>1. work'[t].mode = "idle"
    BY <1>6 DEF NoWork
  <2>2. CASE answer'[p] # answer[p] /\ stage[p] = "apply"
    BY <1>5, <1>9, <2>1, <2>2 DEF Content
  <2>3. CASE answer'[p] = answer[p] \/ stage[p] # "apply"
    <3>1. (Stands(p, t)' <=> Stands(p, t)) /\ (Halved(p, t)' <=> Halved(p, t))
      BY <1>5, <2>3 DEF Halved, Stands, Undone
    <3> QED
      BY <1>5, <2>1, <3>1 DEF Content
  <2> QED
    BY <2>2, <2>3
<1>12. answer'[p] = answer[p] \/ Waits(p, t, work[t].step)
  BY <1>6
<1> QED
  BY <1>1, <1>2, <1>4, <1>5, <1>6, <1>8, <1>10, <1>11, <1>12, WorkMoves

\* The steps before anything is replaced write directories without a receipt.
LEMMA PreparesOrderly ==
    ASSUME PubInv, PubTypeOK', Orderly, NEW t \in Machines, Begin(t) \/ Write(t) \/ Prepare(t)
    PROVE  Orderly'
<1>1. work[t] # NoWork
  BY DEF Begin, Write, Prepare, Starts, NoWork
<1>2. PICK p \in Publications : p = work[t].pub
  BY <1>1, Executes
<1>3. /\ fence[t] = p /\ InHand(p, t, work[t].step) /\ Dir(t) = dir[p][t]
      /\ Waits(p, t, work[t].step) \/ Belated(p, t, work[t].step)
  BY <1>1, <1>2, InWork
<1>4. UNCHANGED <<live, fence, inbox, stage, target, begun>> /\ Finish(t, "ok")
  BY DEF Begin, Write, Prepare
<1>5. /\ work'[t] = NoWork /\ \A u \in Machines : u # t => work'[u] = work[u]
      /\ \A q \in Publications : q # p => answer'[q] = answer[q]
      /\ answer'[p] = IF Waits(p, t, work[t].step) THEN "ok" ELSE answer[p]
  BY <1>1, <1>2, <1>4, FinishEffect
<1>6. DirOf(p, t) /\ Calls(p, t) /\ Yields(p) /\ fence' = fence /\ stage' = stage /\ target' = target
      /\ begun' = begun /\ live' = live
  BY <1>4 DEF Orderly, Course
<1>7. work[t].step \in {"begin", "write", "prepare"}
  BY DEF Begin, Write, Prepare, Starts
<1>8. stage[p] \in {"begin", "write", "prepare", "rollback", "failed"}
  BY <1>3, <1>7 DEF Waits, Belated
<1>9. stage[p] \in {"rollback", "failed"} => answer'[p] = answer[p]
  BY <1>5, <1>7 DEF Waits
<1>10. answer'[p] = answer[p] \/ Waits(p, t, work[t].step)
  BY <1>5
<1>11. \/ dir' = dir
       \/ /\ ~dir[p][t].receipt /\ ~dir'[p][t].receipt
          /\ dir'[p][t].phase \in {"receiving", "prepared"}
          /\ dir[p][t].phase = "none" => t \notin begun[p]
          /\ dir[p][t].phase # "published"
          /\ \A u \in Machines : u # t => dir'[p][u] = dir[p][u]
          /\ \A q \in Publications : q # p => dir'[q] = dir[q]
  <2>1. dir[p][t] \in Dirs
    BY DEF PubInv, PubTypeOK, Dirs
  <2>2. ASSUME NEW d, SetDir(t, d), ~dir[p][t].receipt, ~d.receipt, d.phase \in {"receiving", "prepared"},
               dir[p][t].phase = "none" => t \notin begun[p], dir[p][t].phase # "published"
        PROVE  /\ ~dir[p][t].receipt /\ ~dir'[p][t].receipt
               /\ dir'[p][t].phase \in {"receiving", "prepared"}
               /\ dir[p][t].phase = "none" => t \notin begun[p]
               /\ dir[p][t].phase # "published"
               /\ \A u \in Machines : u # t => dir'[p][u] = dir[p][u]
               /\ \A q \in Publications : q # p => dir'[q] = dir[q]
    BY <1>2, <2>2, DirEffect
  <2>3. CASE Begin(t) /\ dir' # dir
    <3> DEFINE d == [NoDir EXCEPT !.phase = "receiving"]
    <3>1. SetDir(t, d) /\ dir[p][t].phase = "none" /\ work[t].step = "begin"
      BY <1>3, <2>3 DEF Begin, Starts
    <3>2. ~d.receipt /\ d.phase = "receiving"
      BY DEF NoDir
    <3>3. t \notin begun[p]
      BY <1>3, <1>6, <3>1 DEF Calls, Pending
    <3> QED
      BY <1>6, <2>2, <3>1, <3>2, <3>3 DEF DirOf
  <2>4. CASE Write(t)
    <3> DEFINE d == [dir[p][t] EXCEPT !.data = TRUE]
    <3>1. SetDir(t, d) /\ dir[p][t].phase = "receiving"
      BY <1>3, <2>4 DEF Write
    <3>2. d.receipt = dir[p][t].receipt /\ d.phase = "receiving"
      BY <2>1, <3>1 DEF Dirs
    <3> QED
      BY <1>6, <2>2, <3>1, <3>2 DEF DirOf
  <2>5. CASE Prepare(t) /\ dir' # dir
    <3> DEFINE d == [dir[p][t] EXCEPT !.phase = "prepared"]
    <3>1. SetDir(t, d) /\ dir[p][t].phase = "receiving"
      BY <1>3, <2>5 DEF Prepare
    <3>2. d.receipt = dir[p][t].receipt /\ d.phase = "prepared"
      BY <2>1 DEF Dirs
    <3> QED
      BY <1>6, <2>2, <3>1, <3>2 DEF DirOf
  <2> QED
    BY <2>3, <2>4, <2>5
<1>12. Yields(p)'
  <2>1. CASE dir' = dir
    <3>1. dir'[p] = dir[p]
      BY <2>1
    <3>2. CASE answer'[p] = answer[p]
      BY <1>4, <3>1, <3>2, YieldsKept
    <3>3. CASE answer'[p] # answer[p]
      <4>1. stage[p] \in {"begin", "write", "prepare"}
        BY <1>8, <1>9, <3>3
      <4> QED
        BY <1>6, <4>1 DEF Yields, Undone
    <3> QED
      BY <3>2, <3>3
  <2>2. CASE dir' # dir
    <3>1. /\ dir'[p][t].phase \in {"receiving", "prepared"}
          /\ dir[p][t].phase = "none" => t \notin begun[p]
          /\ \A u \in Machines : u # t => dir'[p][u] = dir[p][u]
      BY <1>11, <2>2
    <3>2. CASE stage[p] \in {"begin", "write", "prepare"}
      BY <1>6, <3>2 DEF Yields, Undone
    <3>3. CASE stage[p] \in {"rollback", "failed"}
      <4>0. begun[p] \subseteq Machines
        BY DEF PubInv, PubTypeOK
      <4>1. \A u \in begun[p] : dir[p][u].phase = "none" => dir'[p][u].phase = "none"
        BY <3>1, <4>0
      <4>2. stage[p] = "failed" => \A u \in Machines : dir'[p][u].phase # "published"
        BY <1>6, <3>1 DEF Yields, Undone
      <4> QED
        BY <1>6, <1>9, <3>3, <4>1, <4>2 DEF Yields, Undone
    <3> QED
      BY <1>8, <3>2, <3>3
  <2> QED
    BY <2>1, <2>2
<1>13. DirOf(p, t)' /\ WorkOf(p, t)'
  <2>1. ~(p > fence[t])
    BY <1>3, PubNumbers
  <2> QED
    BY <1>5, <1>6, <1>11, <2>1 DEF DirOf, WorkOf
<1>14. Content(t, p) /\ (\A f \in Files : BaseOf(t, p, f)' = BaseOf(t, p, f)) => Content(t, p)'
  <2> SUFFICES ASSUME Content(t, p), \A f \in Files : BaseOf(t, p, f)' = BaseOf(t, p, f)
               PROVE  Content(t, p)'
    OBVIOUS
  <2>1. work'[t].mode = "idle"
    BY <1>5 DEF NoWork
  <2>2. CASE dir' = dir
    <3>1. (Stands(p, t)' <=> Stands(p, t)) /\ (Halved(p, t)' <=> Halved(p, t))
      BY <1>6, <1>8, <2>2 DEF Halved, Stands, Undone
    <3> QED
      BY <1>6, <2>1, <2>2, <3>1 DEF Content
  <2>3. CASE dir' # dir
    <3>1. ~Stands(p, t) /\ ~Halved(p, t)
      BY <1>8, <1>11, <2>3 DEF Stands, Halved
    <3>2. ~Stands(p, t)' /\ ~dir'[p][t].receipt
      BY <1>11, <2>3 DEF Stands
    <3> QED
      BY <1>6, <2>1, <3>1, <3>2 DEF Content
  <2> QED
    BY <2>2, <2>3
<1>15. /\ \A q \in Publications : q # p => dir'[q] = dir[q]
       /\ \A u \in Machines : u # t => dir'[p][u] = dir[p][u]
       /\ \A u \in Machines : u # t => live'[u] = live[u]
  BY <1>6, <1>11
<1> QED
  BY <1>1, <1>2, <1>4, <1>5, <1>10, <1>12, <1>13, <1>14, <1>15, WorkMoves

\* The steps that go on and leave the publisher alone.
LEMMA GoesOn ==
    ASSUME PubInv, PubTypeOK', Orderly, NEW t \in Machines, work[t] # NoWork,
           NEW p \in Publications, p = work[t].pub,
           UNCHANGED <<dir, fence, inbox, stage, target, begun, answer>>,
           \A u \in Machines : u # t => live'[u] = live[u],
           NEW j \in Tasks, work' = [work EXCEPT ![t] = j],
           j.pub = work[t].pub, j.step = work[t].step,
           j.mode \in {"replace", "undo", "remove"}, WorkOf(p, t)',
           Content(t, p) /\ (\A f \in Files : BaseOf(t, p, f)' = BaseOf(t, p, f)) => Content(t, p)'
    PROVE  Orderly'
<1>1. work'[t] = j /\ \A u \in Machines : u # t => work'[u] = work[u]
  BY DEF PubInv, PubTypeOK
<1>2. dir' = dir /\ answer' = answer /\ fence' = fence /\ stage' = stage /\ begun' = begun
  OBVIOUS
<1>3. Yields(p)'
  BY <1>2, YieldsKept
<1>4. DirOf(p, t)'
  <2>1. DirOf(p, t)
    BY DEF Orderly
  <2> QED
    BY <1>2, <2>1 DEF DirOf
<1>5. work'[t].pub = p /\ work'[t].step = work[t].step /\ work'[t].mode # "start"
  BY <1>1
<1> QED
  BY <1>1, <1>2, <1>3, <1>4, <1>5, WorkMoves

\* The old files are saved: they are what the publications before left.
LEMMA SaveOrderly ==
    ASSUME PubInv, PubTypeOK', Orderly, NEW t \in Machines, SaveOld(t)
    PROVE  Orderly'
<1> DEFINE d == [phase |-> "prepared", data |-> TRUE, receipt |-> TRUE, saved |-> live[t]]
           j == [work[t] EXCEPT !.mode = "replace", !.left = Files]
<1>1. work[t] # NoWork /\ work[t].mode = "start"
  BY DEF SaveOld, Starts, NoWork
<1>2. PICK p \in Publications : p = work[t].pub
  BY <1>1, Executes
<1>3. /\ fence[t] = p /\ InHand(p, t, work[t].step) /\ Dir(t) = dir[p][t] /\ work[t] \in Tasks
      /\ Waits(p, t, work[t].step) \/ Belated(p, t, work[t].step)
  BY <1>1, <1>2, InWork
<1>4. UNCHANGED <<live, fence, inbox, stage, target, begun, answer>> /\ SetDir(t, d)
  BY DEF SaveOld, publisherVars
<1>5. work'[t] = j /\ \A u \in Machines : u # t => work'[u] = work[u]
  BY DEF SaveOld, PubInv, PubTypeOK
<1>6. /\ dir'[p][t] = d /\ \A u \in Machines : u # t => dir'[p][u] = dir[p][u]
      /\ \A q \in Publications : q # p => dir'[q] = dir[q]
  BY <1>2, <1>4, DirEffect
<1>7. j.pub = p /\ j.step = work[t].step /\ j.mode = "replace" /\ j.left = Files
  BY <1>2, <1>3 DEF Tasks
<1>8. d.phase = "prepared" /\ d.receipt /\ d.saved = live[t]
  OBVIOUS
<1> HIDE DEF d, j
<1>9. DirOf(p, t) /\ Calls(p, t) /\ Yields(p) /\ Loops(p) /\ live' = live /\ stage' = stage
      /\ begun' = begun /\ answer' = answer /\ fence' = fence /\ target' = target
  BY <1>4 DEF Orderly, Course
<1>10. ~dir[p][t].receipt /\ ~Stands(p, t)
       /\ \/ /\ work[t].step = "publish" /\ dir[p][t].phase = "prepared" /\ t \in begun[p]
             /\ stage[p] \in {"publish", "rollback"}
          \/ /\ work[t].step = "apply" /\ dir[p][t].phase = "none" /\ stage[p] = "apply"
             /\ answer[p] = "wait" /\ target[p] = t
  <2>1. CASE work[t].step = "publish" /\ dir[p][t].phase = "prepared" /\ ~dir[p][t].receipt
    <3>1. t \in begun[p]
      BY <1>3, <1>9, <2>1 DEF Calls, Pending
    <3>2. stage[p] # "failed"
      BY <1>9, <2>1, <3>1 DEF Yields
    <3>3. stage[p] \in {"publish", "rollback"}
      BY <1>3, <2>1, <3>2 DEF Waits, Belated
    <3> QED
      BY <2>1, <3>1, <3>3 DEF Stands
  <2>2. CASE work[t].step = "apply" /\ dir[p][t].phase = "none"
    <3>1. stage[p] = "apply" /\ answer[p] = "wait" /\ target[p] = t
      BY <1>3, <2>2 DEF Waits, Belated
    <3> QED
      BY <1>9, <2>2, <3>1 DEF DirOf, Stands
  <2> QED
    BY <1>2, <1>3, <2>1, <2>2 DEF SaveOld, Starts
<1>11. Yields(p)'
  <2>1. begun[p] \subseteq Machines /\ ScopeOf[p] \subseteq Machines
    BY PubNumbers DEF PubInv, PubTypeOK
  <2>2. CASE stage[p] = "publish" /\ dir[p][t].phase = "prepared"
    <3>1. \A u \in ScopeOf[p] : dir'[p][u].phase = dir[p][u].phase
      BY <1>6, <1>8, <2>1, <2>2
    <3> QED
      BY <1>9, <2>2, <3>1 DEF Yields, Undone
  <2>3. CASE stage[p] = "rollback" /\ dir[p][t].phase = "prepared"
    <3>1. \A u \in begun[p] : dir'[p][u].phase = dir[p][u].phase
      BY <1>6, <1>8, <2>1, <2>3
    <3> QED
      BY <1>9, <2>3, <3>1 DEF Yields, Undone
  <2>4. CASE stage[p] = "apply" /\ answer[p] = "wait"
    BY <1>9, <2>4 DEF Yields, Undone
  <2> QED
    BY <1>10, <2>2, <2>3, <2>4
<1>12. DirOf(p, t)'
  <2>1. ~(p > fence[t])
    BY <1>3, PubNumbers
  <2>2. t \in ScopeOf[p] /\ (t \in begun[p] \/ stage[p] = "apply")
    BY <1>9, <1>10, ApplyAlone DEF Loops
  <2> QED
    BY <1>6, <1>8, <1>9, <2>1, <2>2 DEF DirOf
<1>13. WorkOf(p, t)'
  BY <1>5, <1>6, <1>7, <1>8, <1>10 DEF WorkOf
<1>14. Content(t, p) /\ (\A f \in Files : BaseOf(t, p, f)' = BaseOf(t, p, f)) => Content(t, p)'
  <2> SUFFICES ASSUME Content(t, p), \A f \in Files : BaseOf(t, p, f)' = BaseOf(t, p, f)
               PROVE  Content(t, p)'
    OBVIOUS
  <2>1. \A f \in Files : live[t][f] = BaseOf(t, p, f)
    BY <1>10 DEF Content, Halved
  <2>2. ~Stands(p, t)'
    BY <1>6, <1>8, <1>9, <1>10 DEF Stands
  <2> QED
    BY <1>5, <1>6, <1>7, <1>8, <1>9, <2>1, <2>2 DEF Content
<1>15. work'[t].pub = p /\ work'[t].step = work[t].step /\ work'[t].mode # "start"
  BY <1>5, <1>7
<1> QED
  BY <1>1, <1>2, <1>5, <1>6, <1>9, <1>11, <1>12, <1>13, <1>14, <1>15, <1>4, WorkMoves

\* One file after the other is replaced, or everything is to be undone.
LEMMA ReplaceOrderly ==
    ASSUME PubInv, PubTypeOK', Orderly, NEW t \in Machines, ReplaceFile(t) \/ ReplaceError(t)
    PROVE  Orderly'
<1>1. work[t].mode = "replace"
  BY DEF ReplaceFile, ReplaceError
<1>2. work[t] \in Tasks /\ work[t] # NoWork /\ work[t].left \in SUBSET Files
  BY <1>1, Executes DEF Modes
<1>3. PICK p \in Publications : p = work[t].pub
  BY <1>2, Executes
<1>4. ~Stands(p, t) /\ ~Undone(p) /\ dir[p][t].receipt /\ WorkOf(p, t)
  BY <1>1, <1>3, MidStep DEF Orderly
<1>5. UNCHANGED <<dir, fence, inbox, stage, target, begun, answer>>
  BY DEF ReplaceFile, ReplaceError, publisherVars
<1>6. dir' = dir /\ answer' = answer /\ stage' = stage
  BY <1>5
<1>7. ~Stands(p, t)' /\ Halved(p, t)'
  BY <1>4, <1>6 DEF Stands, Halved, Undone
<1>8. CASE ReplaceFile(t)
  <2>1. Least(work[t].left) \in work[t].left
    BY <1>2, <1>8, LoopEnds DEF ReplaceFile
  <2>2. PICK g \in work[t].left : /\ live' = [live EXCEPT ![t][g] = p]
                                  /\ work' = [work EXCEPT ![t].left = @ \ {g}]
    BY <1>3, <1>8, <2>1 DEF ReplaceFile
  <2> DEFINE j == [work[t] EXCEPT !.left = @ \ {g}]
  <2>3. /\ j \in Tasks /\ j.pub = work[t].pub /\ j.step = work[t].step /\ j.mode = "replace"
        /\ j.left = work[t].left \ {g} /\ work' = [work EXCEPT ![t] = j]
    BY <1>1, <1>2, <2>2 DEF Tasks
  <2> HIDE DEF j
  <2>4. work'[t] = j
    BY <2>3 DEF PubInv, PubTypeOK
  <2>5. /\ \A u \in Machines : u # t => live'[u] = live[u]
        /\ \A f \in Files : live'[t][f] = IF f = g THEN p ELSE live[t][f]
    BY <1>2, <2>2 DEF PubInv, PubTypeOK
  <2>6. WorkOf(p, t)'
    BY <1>1, <1>2, <1>4, <1>6, <1>3, <2>3, <2>4 DEF WorkOf
  <2>7. Content(t, p) /\ (\A f \in Files : BaseOf(t, p, f)' = BaseOf(t, p, f)) => Content(t, p)'
    BY <1>1, <1>6, <1>7, <2>3, <2>4, <2>5 DEF Content
  <2> QED
    BY <1>2, <1>3, <1>5, <2>3, <2>5, <2>6, <2>7, GoesOn
<1>9. CASE ReplaceError(t)
  <2> DEFINE j == [work[t] EXCEPT !.mode = "undo", !.left = Files]
  <2>1. /\ j \in Tasks /\ j.pub = work[t].pub /\ j.step = work[t].step /\ j.mode = "undo"
        /\ j.left = Files /\ work' = [work EXCEPT ![t] = j]
    BY <1>2, <1>9 DEF Tasks, Modes, ReplaceError
  <2> HIDE DEF j
  <2>2. work'[t] = j /\ live' = live
    BY <1>9, <2>1 DEF ReplaceError, PubInv, PubTypeOK
  <2>3. WorkOf(p, t)'
    BY <1>1, <1>2, <1>4, <1>6, <1>3, <2>1, <2>2 DEF WorkOf
  <2>4. Content(t, p) /\ (\A f \in Files : BaseOf(t, p, f)' = BaseOf(t, p, f)) => Content(t, p)'
    BY <1>6, <1>7, <2>1, <2>2 DEF Content
  <2> QED
    BY <1>2, <1>3, <1>5, <2>1, <2>2, <2>3, <2>4, GoesOn
<1> QED
  BY <1>8, <1>9

\* A rollback of a publication without a receipt finds the files as they were.
LEMMA RollbackOrderly ==
    ASSUME PubInv, PubTypeOK', Orderly, NEW t \in Machines, BeginRollback(t)
    PROVE  Orderly'
<1>1. work[t].mode = "start" /\ work[t].step = "rollback"
  BY DEF BeginRollback, Starts
<1>2. work[t] \in Tasks /\ work[t] # NoWork
  BY <1>1, Executes DEF Modes
<1>3. PICK p \in Publications : p = work[t].pub
  BY <1>2, Executes
<1>4. /\ Dir(t) = dir[p][t] /\ DirOf(p, t)
      /\ Waits(p, t, work[t].step) \/ Belated(p, t, work[t].step)
  BY <1>2, <1>3, InWork DEF Orderly
<1>5. stage[p] = "rollback"
  BY <1>1, <1>4 DEF Waits, Belated
<1>6. UNCHANGED <<dir, fence, inbox, stage, target, begun, answer>>
  BY DEF BeginRollback, publisherVars
<1>7. live' = live /\ dir' = dir /\ answer' = answer /\ stage' = stage
  BY <1>6 DEF BeginRollback
<1>8. ~Stands(p, t) /\ ~Stands(p, t)'
  BY <1>5, <1>7 DEF Stands
<1>9. Halved(p, t)' <=> Halved(p, t)
  BY <1>7, <1>8 DEF Halved, Undone
<1>10. CASE dir[p][t].receipt
  <2> DEFINE j == [work[t] EXCEPT !.mode = "undo", !.left = Files]
  <2>1. work' = [work EXCEPT ![t].mode = "undo", ![t].left = Files]
    BY <1>4, <1>10 DEF BeginRollback
  <2>2. /\ j \in Tasks /\ j.pub = work[t].pub /\ j.step = "rollback" /\ j.mode = "undo"
        /\ j.left = Files /\ work' = [work EXCEPT ![t] = j]
    BY <1>1, <1>2, <2>1 DEF Tasks, Modes
  <2> HIDE DEF j
  <2>3. work'[t] = j
    BY <2>2 DEF PubInv, PubTypeOK
  <2>4. WorkOf(p, t)'
    BY <1>7, <1>10, <2>2, <2>3 DEF WorkOf
  <2>5. Content(t, p) /\ (\A f \in Files : BaseOf(t, p, f)' = BaseOf(t, p, f)) => Content(t, p)'
    BY <1>7, <1>8, <1>9, <2>2, <2>3 DEF Content
  <2> QED
    BY <1>1, <1>2, <1>3, <1>6, <1>7, <2>2, <2>4, <2>5, GoesOn
<1>11. CASE ~dir[p][t].receipt
  <2> DEFINE j == [work[t] EXCEPT !.mode = "remove", !.left = {}]
  <2>1. work' = [work EXCEPT ![t].mode = "remove", ![t].left = {}]
    BY <1>4, <1>11 DEF BeginRollback
  <2>2. /\ j \in Tasks /\ j.pub = work[t].pub /\ j.step = "rollback" /\ j.mode = "remove"
        /\ work' = [work EXCEPT ![t] = j]
    BY <1>1, <1>2, <2>1 DEF Tasks, Modes
  <2> HIDE DEF j
  <2>3. work'[t] = j
    BY <2>2 DEF PubInv, PubTypeOK
  <2>4. WorkOf(p, t)'
    BY <2>2, <2>3 DEF WorkOf
  <2>5. Content(t, p) /\ (\A f \in Files : BaseOf(t, p, f)' = BaseOf(t, p, f)) => Content(t, p)'
    <3>1. ~Halved(p, t)
      BY <1>11 DEF Halved
    <3> QED
      BY <1>7, <1>8, <1>9, <1>11, <2>2, <2>3, <3>1 DEF Content
  <2> QED
    BY <1>1, <1>2, <1>3, <1>6, <1>7, <2>2, <2>4, <2>5, GoesOn
<1> QED
  BY <1>10, <1>11

\* One file after the other is restored, or cannot be.
LEMMA RestoreOrderly ==
    ASSUME PubInv, PubTypeOK', Orderly, NEW t \in Machines, RestoreFile(t)
    PROVE  Orderly'
<1>1. work[t].mode = "undo" /\ work[t].left # {}
  BY DEF RestoreFile
<1>2. work[t] \in Tasks /\ work[t] # NoWork /\ work[t].left \in SUBSET Files
  BY <1>1, Executes DEF Modes
<1>3. PICK p \in Publications : p = work[t].pub
  BY <1>2, Executes
<1>4. ~Stands(p, t) /\ ~Undone(p) /\ dir[p][t].receipt /\ WorkOf(p, t) /\ Dir(t) = dir[p][t]
  BY <1>1, <1>2, <1>3, MidStep, InWork DEF Orderly
<1>5. UNCHANGED <<dir, fence, inbox, stage, target, begun, answer>>
  BY DEF RestoreFile, publisherVars
<1>6. dir' = dir /\ answer' = answer /\ stage' = stage
  BY <1>5
<1>7. ~Stands(p, t)' /\ Halved(p, t)'
  BY <1>4, <1>6 DEF Stands, Halved, Undone
<1>8. Greatest(work[t].left) \in work[t].left
  BY <1>1, <1>2, LoopEnds
<1>9. PICK g \in work[t].left :
         \/ /\ live' = [live EXCEPT ![t][g] = dir[p][t].saved[g]]
            /\ work' = [work EXCEPT ![t].left = @ \ {g}]
         \/ /\ live' = live
            /\ work' = [work EXCEPT ![t].left = @ \ {g}, ![t].failed = TRUE]
  BY <1>4, <1>8 DEF RestoreFile
<1>10. PICK j \in Tasks :
          /\ j.pub = work[t].pub /\ j.step = work[t].step /\ j.mode = "undo"
          /\ j.left = work[t].left \ {g} /\ work' = [work EXCEPT ![t] = j]
          /\ ~j.failed => ~work[t].failed /\ live' = [live EXCEPT ![t][g] = dir[p][t].saved[g]]
          /\ live' = live \/ live' = [live EXCEPT ![t][g] = dir[p][t].saved[g]]
  <2>1. CASE /\ live' = [live EXCEPT ![t][g] = dir[p][t].saved[g]]
             /\ work' = [work EXCEPT ![t].left = @ \ {g}]
    <3> DEFINE i == [work[t] EXCEPT !.left = @ \ {g}]
    <3>1. /\ i \in Tasks /\ i.pub = work[t].pub /\ i.step = work[t].step /\ i.mode = "undo"
          /\ i.left = work[t].left \ {g} /\ work' = [work EXCEPT ![t] = i]
          /\ i.failed = work[t].failed
      BY <1>1, <1>2, <2>1 DEF Tasks
    <3> HIDE DEF i
    <3> QED
      BY <2>1, <3>1
  <2>2. CASE /\ live' = live
             /\ work' = [work EXCEPT ![t].left = @ \ {g}, ![t].failed = TRUE]
    <3> DEFINE i == [work[t] EXCEPT !.left = @ \ {g}, !.failed = TRUE]
    <3>1. /\ i \in Tasks /\ i.pub = work[t].pub /\ i.step = work[t].step /\ i.mode = "undo"
          /\ i.left = work[t].left \ {g} /\ work' = [work EXCEPT ![t] = i]
          /\ i.failed
      BY <1>1, <1>2, <2>2 DEF Tasks
    <3> HIDE DEF i
    <3> QED
      BY <2>2, <3>1
  <2> QED
    BY <1>9, <2>1, <2>2
<1>11. work'[t] = j
  BY <1>10 DEF PubInv, PubTypeOK
<1>12. /\ \A u \in Machines : u # t => live'[u] = live[u]
       /\ ~j.failed => \A f \in Files : live'[t][f] = IF f = g THEN dir[p][t].saved[g] ELSE live[t][f]
  BY <1>2, <1>10 DEF PubInv, PubTypeOK
<1>13. WorkOf(p, t)'
  BY <1>1, <1>2, <1>4, <1>6, <1>3, <1>10, <1>11 DEF WorkOf
<1>14. Content(t, p) /\ (\A f \in Files : BaseOf(t, p, f)' = BaseOf(t, p, f)) => Content(t, p)'
  BY <1>1, <1>4, <1>6, <1>7, <1>10, <1>11, <1>12 DEF Content
<1> QED
  BY <1>2, <1>3, <1>5, <1>10, <1>12, <1>13, <1>14, GoesOn

\* The end of a restore.
LEMMA RestoredOrderly ==
    ASSUME PubInv, PubTypeOK', Orderly, Clean', NEW t \in Machines, Restored(t)
    PROVE  Orderly'
<1>1. work[t].mode = "undo" /\ work[t].left = {}
  BY DEF Restored
<1>2. work[t] \in Tasks /\ work[t] # NoWork
  BY <1>1, Executes DEF Modes
<1>3. PICK p \in Publications : p = work[t].pub
  BY <1>2, Executes
<1>4. /\ ~Stands(p, t) /\ ~Undone(p) /\ dir[p][t].receipt /\ WorkOf(p, t)
      /\ work[t].step \in {"publish", "apply", "rollback"}
      /\ work[t].step # "rollback" => dir[p][t].phase = "prepared"
      /\ work[t].step = "publish" => stage[p] \in {"publish", "rollback"}
  BY <1>1, <1>2, <1>3, MidStep DEF Orderly
<1>5. UNCHANGED <<live, dir, fence, inbox, stage, target, begun>>
  BY DEF Restored
<1>6. live' = live /\ dir' = dir /\ stage' = stage /\ fence' = fence /\ begun' = begun
  BY <1>5
<1>7. CASE /\ work[t].step \in {"rollback", "apply"} /\ ~work[t].failed
           /\ work' = [work EXCEPT ![t].mode = "remove"]
           /\ UNCHANGED <<answer, dirty>>
  <2> DEFINE j == [work[t] EXCEPT !.mode = "remove"]
  <2>1. /\ j \in Tasks /\ j.pub = work[t].pub /\ j.step = work[t].step /\ j.mode = "remove"
        /\ work' = [work EXCEPT ![t] = j]
    BY <1>2, <1>7 DEF Tasks, Modes
  <2> HIDE DEF j
  <2>2. work'[t] = j
    BY <2>1 DEF PubInv, PubTypeOK
  <2>3. ~Stands(p, t)' /\ Halved(p, t)'
    BY <1>4, <1>6, <1>7 DEF Stands, Halved, Undone
  <2>4. WorkOf(p, t)'
    BY <1>4, <1>6, <1>7, <2>1, <2>2 DEF WorkOf
  <2>5. Content(t, p) /\ (\A f \in Files : BaseOf(t, p, f)' = BaseOf(t, p, f)) => Content(t, p)'
    BY <1>1, <1>6, <1>7, <2>1, <2>2, <2>3 DEF Content
  <2>6. UNCHANGED <<dir, fence, inbox, stage, target, begun, answer>>
    BY <1>5, <1>7
  <2> QED
    BY <1>2, <1>3, <1>6, <2>1, <2>4, <2>5, <2>6, GoesOn
<1>8. CASE /\ work[t].step = "publish" \/ work[t].failed
           /\ Finish(t, "failed")
           /\ dirty' = IF work[t].step = "apply" THEN [dirty EXCEPT ![work[t].pub] = TRUE] ELSE dirty
  <2>1. work[t].step # "apply"
    BY <1>3, <1>8 DEF Clean, PubInv, PubTypeOK
  <2>2. /\ work'[t] = NoWork /\ \A u \in Machines : u # t => work'[u] = work[u]
        /\ \A q \in Publications : q # p => answer'[q] = answer[q]
        /\ answer'[p] = IF Waits(p, t, work[t].step) THEN "failed" ELSE answer[p]
    BY <1>2, <1>3, <1>8, FinishEffect
  <2>3. stage[p] # "apply"
    BY <1>2, <1>3, <1>4, <2>1, InWork DEF Waits, Belated
  <2>4. Yields(p)'
    <3>1. answer'[p] = answer[p] \/ (answer[p] = "wait" /\ answer'[p] = "failed" /\ stage[p] # "apply")
      BY <2>2, <2>3 DEF Waits
    <3>2. dir'[p] = dir[p]
      BY <1>6
    <3> QED
      BY <1>5, <3>1, <3>2, YieldsKept
  <2>5. DirOf(p, t)'
    <3>1. DirOf(p, t)
      BY DEF Orderly
    <3> QED
      BY <1>6, <3>1 DEF DirOf
  <2>6. WorkOf(p, t)'
    BY <2>2 DEF WorkOf
  <2>7. ~Stands(p, t)' /\ Halved(p, t)'
    BY <1>4, <1>6, <2>3 DEF Stands, Halved, Undone
  <2>8. Content(t, p) /\ (\A f \in Files : BaseOf(t, p, f)' = BaseOf(t, p, f)) => Content(t, p)'
    BY <1>6, <2>2, <2>7 DEF Content, NoWork
  <2>9. answer'[p] = answer[p] \/ Waits(p, t, work[t].step)
    BY <2>2
  <2>10. /\ \A q \in Publications : q # p => dir'[q] = dir[q]
         /\ \A u \in Machines : u # t => dir'[p][u] = dir[p][u] /\ live'[u] = live[u]
    BY <1>6
  <2> QED
    BY <1>2, <1>3, <1>5, <2>2, <2>4, <2>5, <2>6, <2>8, <2>9, <2>10, WorkMoves
<1> QED
  BY <1>7, <1>8 DEF Restored

\* All files are replaced: the publication stands on the target, unless it is rolled back.
LEMMA PublishedOrderly ==
    ASSUME PubInv, PubTypeOK', Orderly, NEW t \in Machines, Published(t)
    PROVE  Orderly'
<1>1. work[t].mode = "replace" /\ work[t].left = {}
  BY DEF Published
<1>2. work[t] \in Tasks /\ work[t] # NoWork
  BY <1>1, Executes DEF Modes
<1>3. PICK p \in Publications : p = work[t].pub
  BY <1>2, Executes
<1>4. /\ ~Stands(p, t) /\ ~Undone(p) /\ dir[p][t].receipt /\ dir[p][t].phase = "prepared"
      /\ fence[t] = p /\ work[t].step \in {"publish", "apply"}
      /\ work[t].step = "publish" => stage[p] \in {"publish", "rollback"}
      /\ work[t].step = "apply" => Waits(p, t, "apply")
  BY <1>1, <1>2, <1>3, MidStep
<1>5. DirOf(p, t) /\ Yields(p) /\ Dir(t) = dir[p][t] /\ dir[p][t] \in Dirs
  BY <1>2, <1>3, InWork DEF Orderly, Course, PubInv, PubTypeOK, Dirs
<1>6. UNCHANGED <<live, fence, inbox, stage, target, begun>> /\ Finish(t, "ok")
  BY DEF Published
<1>7. live' = live /\ stage' = stage /\ fence' = fence /\ begun' = begun /\ target' = target
  BY <1>6
<1>8. /\ work'[t] = NoWork /\ \A u \in Machines : u # t => work'[u] = work[u]
      /\ \A q \in Publications : q # p => answer'[q] = answer[q]
      /\ answer'[p] = IF Waits(p, t, work[t].step) THEN "ok" ELSE answer[p]
  BY <1>2, <1>3, <1>6, FinishEffect
<1>9. /\ \A u \in Machines : u # t => dir'[p][u] = dir[p][u]
      /\ \A q \in Publications : q # p => dir'[q] = dir[q]
      /\ \/ /\ dir'[p][t].phase = "published" /\ dir'[p][t].receipt
            /\ dir'[p][t].saved = dir[p][t].saved
         \/ work[t].step = "apply" /\ dir'[p][t] = NoDir
  <2> DEFINE d == [dir[p][t] EXCEPT !.phase = "published"]
  <2>1. d.phase = "published" /\ d.receipt /\ d.saved = dir[p][t].saved
    BY <1>4, <1>5 DEF Dirs
  <2>2. SetDir(t, d) \/ (work[t].step = "apply" /\ SetDir(t, NoDir))
    BY <1>5 DEF Published
  <2> HIDE DEF d
  <2> QED
    BY <1>3, <2>1, <2>2, DirEffect
<1>10. t \in ScopeOf[p] /\ ~(p > fence[t]) /\ p <= fence[t]
  BY <1>4, <1>5, PubNumbers DEF DirOf
<1>11. Yields(p)'
  <2>1. begun[p] \subseteq Machines /\ ScopeOf[p] \subseteq Machines
    BY PubNumbers DEF PubInv, PubTypeOK
  <2>2. CASE work[t].step = "publish" /\ stage[p] = "publish"
    <3>1. answer'[p] = "ok" /\ answer[p] # "ok" => target[p] = t
      BY <1>8, <2>2 DEF Waits
    <3>2. \A u \in ScopeOf[p] : dir[p][u].phase = "published" \/ u = t => dir'[p][u].phase = "published"
      BY <1>9, <2>1, <2>2
    <3> QED
      BY <1>5, <1>7, <2>2, <3>1, <3>2 DEF Yields, Undone
  <2>3. CASE work[t].step = "publish" /\ stage[p] = "rollback"
    <3>1. answer'[p] = answer[p]
      BY <1>8, <2>3 DEF Waits
    <3>2. \A u \in begun[p] : dir[p][u].phase = "none" => dir'[p][u].phase = "none"
      BY <1>4, <1>9, <2>1
    <3> QED
      BY <1>5, <1>7, <2>3, <3>1, <3>2 DEF Yields, Undone
  <2>4. CASE work[t].step = "apply"
    <3>1. stage[p] = "apply" /\ target[p] = t /\ answer'[p] = "ok"
      BY <1>4, <1>8, <2>4 DEF Waits
    <3>2. ScopeOf[p] = {t}
      BY <3>1, ApplyAlone
    <3>3. dir'[p][t].phase \in {"published", "none"}
      BY <1>9 DEF NoDir
    <3> QED
      BY <1>7, <1>10, <3>1, <3>2, <3>3 DEF Yields, Undone
  <2> QED
    BY <1>4, <2>2, <2>3, <2>4
<1>12. DirOf(p, t)'
  BY <1>4, <1>5, <1>7, <1>9, <1>10 DEF DirOf, NoDir
<1>13. WorkOf(p, t)'
  BY <1>8 DEF WorkOf
<1>14. Content(t, p) /\ (\A f \in Files : BaseOf(t, p, f)' = BaseOf(t, p, f)) => Content(t, p)'
  <2> SUFFICES ASSUME Content(t, p), \A f \in Files : BaseOf(t, p, f)' = BaseOf(t, p, f)
               PROVE  Content(t, p)'
    OBVIOUS
  <2>1. \A f \in Files : live'[t][f] = p
    BY <1>1, <1>7 DEF Content
  <2>2. \A f \in Files : dir'[p][t].receipt => dir'[p][t].saved[f] = BaseOf(t, p, f)'
    BY <1>4, <1>9 DEF Content, NoDir
  <2>3. work'[t].mode = "idle"
    BY <1>8 DEF NoWork
  <2>4. Stands(p, t)' \/ Halved(p, t)'
    <3>1. CASE stage[p] = "rollback"
      BY <1>4, <1>7, <1>9, <3>1 DEF Halved, Undone, Waits
    <3>2. CASE stage[p] = "publish"
      BY <1>4, <1>7, <1>9, <1>10, <3>2 DEF Stands, Waits
    <3>3. CASE work[t].step = "apply"
      <4>1. stage[p] = "apply" /\ answer'[p] = "ok"
        BY <1>4, <1>8, <3>3 DEF Waits
      <4> QED
        BY <1>7, <1>9, <1>10, <4>1 DEF Stands, NoDir
    <3> QED
      BY <1>4, <3>1, <3>2, <3>3
  <2> QED
    BY <2>1, <2>2, <2>3, <2>4 DEF Content
<1>15. /\ answer'[p] = answer[p] \/ Waits(p, t, work[t].step)
       /\ \A u \in Machines : u # t => live'[u] = live[u]
  BY <1>7, <1>8
<1> QED
  BY <1>2, <1>3, <1>6, <1>8, <1>9, <1>11, <1>12, <1>13, <1>14, <1>15, WorkMoves

\* The operation directory is removed after everything was restored.
LEMMA RemoveOrderly ==
    ASSUME PubInv, PubTypeOK', Orderly, NEW t \in Machines, Remove(t)
    PROVE  Orderly'
<1>1. work[t].mode = "remove"
  BY DEF Remove
<1>2. work[t] \in Tasks /\ work[t] # NoWork
  BY <1>1, Executes DEF Modes
<1>3. PICK p \in Publications : p = work[t].pub
  BY <1>2, Executes
<1>4. fence[t] = p /\ work[t].step \in {"apply", "rollback"} /\ Waits(p, t, work[t].step)
  BY <1>1, <1>2, <1>3, MidStep
<1>5. stage[p] = work[t].step /\ target[p] = t /\ answer[p] = "wait"
  BY <1>4 DEF Waits
<1>6. UNCHANGED <<live, fence, inbox, stage, target, begun>> /\ SetDir(t, NoDir)
  BY DEF Remove
<1>7. live' = live /\ stage' = stage /\ fence' = fence /\ begun' = begun /\ target' = target
  BY <1>6
<1>8. /\ work'[t] = NoWork /\ \A u \in Machines : u # t => work'[u] = work[u]
      /\ \A q \in Publications : q # p => answer'[q] = answer[q]
      /\ answer'[p] = IF work[t].step = "rollback" THEN "ok" ELSE "failed"
  <2>1. PICK result : Finish(t, result) /\ result = IF work[t].step = "rollback" THEN "ok" ELSE "failed"
    BY DEF Remove
  <2> QED
    BY <1>2, <1>3, <1>4, <2>1, FinishEffect
<1>9. /\ dir'[p][t] = NoDir /\ \A u \in Machines : u # t => dir'[p][u] = dir[p][u]
      /\ \A q \in Publications : q # p => dir'[q] = dir[q]
  BY <1>3, <1>6, DirEffect
<1>10. ~dir'[p][t].receipt /\ dir'[p][t].phase = "none" /\ ~Stands(p, t)'
  BY <1>4, <1>5, <1>7, <1>8, <1>9 DEF NoDir, Stands
<1>11. Yields(p)'
  <2>1. begun[p] \subseteq Machines /\ Yields(p)
    BY DEF PubInv, PubTypeOK, Orderly, Course
  <2>2. CASE work[t].step = "rollback"
    <3>1. \A u \in begun[p] : dir[p][u].phase = "none" \/ u = t => dir'[p][u].phase = "none"
      BY <1>9, <1>10, <2>1
    <3> QED
      BY <1>5, <1>7, <2>1, <2>2, <3>1 DEF Yields, Undone
  <2>3. CASE work[t].step = "apply"
    <3>1. \A u \in Machines : dir'[p][u].phase # "published"
      BY <1>5, <1>9, <1>10, <2>3, ApplyAlone
    <3> QED
      BY <1>5, <1>7, <1>8, <2>3, <3>1 DEF Yields, Undone
  <2> QED
    BY <1>4, <2>2, <2>3
<1>12. DirOf(p, t)' /\ WorkOf(p, t)'
  BY <1>8, <1>9, <1>10 DEF DirOf, WorkOf
<1>13. Content(t, p) /\ (\A f \in Files : BaseOf(t, p, f)' = BaseOf(t, p, f)) => Content(t, p)'
  <2>1. work'[t].mode = "idle"
    BY <1>8 DEF NoWork
  <2> QED
    BY <1>1, <1>7, <1>10, <2>1 DEF Content
<1>14. /\ answer'[p] = answer[p] \/ Waits(p, t, work[t].step)
       /\ \A u \in Machines : u # t => live'[u] = live[u]
  BY <1>4, <1>7
<1> QED
  BY <1>2, <1>3, <1>6, <1>8, <1>9, <1>11, <1>12, <1>13, <1>14, WorkMoves

\* The directory of a publication that stands is removed.
LEMMA CompletionOrderly ==
    ASSUME PubInv, PubTypeOK', Orderly, NEW t \in Machines, CompletePublication(t)
    PROVE  Orderly'
<1>1. work[t].mode = "start" /\ work[t].step = "complete"
  BY DEF CompletePublication, Starts
<1>2. work[t] \in Tasks /\ work[t] # NoWork
  BY <1>1, Executes DEF Modes
<1>3. PICK p \in Publications : p = work[t].pub
  BY <1>2, Executes
<1>4. /\ fence[t] = p /\ DirOf(p, t) /\ Yields(p) /\ dir[p][t].phase = "published"
      /\ Waits(p, t, "complete") \/ Belated(p, t, "complete")
  BY <1>1, <1>2, <1>3, InWork DEF Orderly, Course, CompletePublication
<1>5. stage[p] \in {"complete", "ok"}
  BY <1>4 DEF Waits, Belated
<1>6. UNCHANGED <<live, fence, inbox, stage, target, begun>> /\ SetDir(t, NoDir) /\ Finish(t, "ok")
  BY DEF CompletePublication
<1>7. live' = live /\ stage' = stage /\ fence' = fence /\ begun' = begun /\ target' = target
  BY <1>6
<1>8. /\ work'[t] = NoWork /\ \A u \in Machines : u # t => work'[u] = work[u]
      /\ \A q \in Publications : q # p => answer'[q] = answer[q]
      /\ answer'[p] = IF Waits(p, t, work[t].step) THEN "ok" ELSE answer[p]
  BY <1>2, <1>3, <1>6, FinishEffect
<1>9. /\ dir'[p][t] = NoDir /\ \A u \in Machines : u # t => dir'[p][u] = dir[p][u]
      /\ \A q \in Publications : q # p => dir'[q] = dir[q]
  BY <1>3, <1>6, DirEffect
<1>10. t \in ScopeOf[p] /\ Stands(p, t) /\ Stands(p, t)'
       /\ ~dir'[p][t].receipt /\ dir'[p][t].phase = "none"
  BY <1>4, <1>5, <1>7, <1>9 DEF DirOf, Stands, NoDir
<1>11. Yields(p)'
  <2>1. ScopeOf[p] \subseteq Machines
    BY PubNumbers
  <2>2. \A u \in ScopeOf[p] : p <= fence[u] /\ dir'[p][u].phase \in {"published", "none"}
    BY <1>4, <1>5, <1>9, <1>10, <2>1 DEF Yields
  <2> QED
    BY <1>5, <1>7, <2>2 DEF Yields, Undone
<1>12. DirOf(p, t)' /\ WorkOf(p, t)'
  BY <1>8, <1>9, <1>10 DEF DirOf, WorkOf
<1>13. Content(t, p) /\ (\A f \in Files : BaseOf(t, p, f)' = BaseOf(t, p, f)) => Content(t, p)'
  <2>1. work'[t].mode = "idle"
    BY <1>8 DEF NoWork
  <2> QED
    BY <1>7, <1>10, <2>1 DEF Content
<1>14. /\ answer'[p] = answer[p] \/ Waits(p, t, work[t].step)
       /\ \A u \in Machines : u # t => live'[u] = live[u]
  BY <1>7, <1>8
<1> QED
  BY <1>2, <1>3, <1>6, <1>8, <1>9, <1>11, <1>12, <1>13, <1>14, WorkMoves

\* Requests of overtaken publications are refused.
LEMMA RefuseOrderly ==
    ASSUME PubInv, PubTypeOK', Orderly, NEW t \in Machines, NEW r \in Request, Refuse(t, r)
    PROVE  Orderly'
<1>1. PICK p \in Publications, step \in Steps : r.pub = p /\ r.step = step /\ r = [pub |-> p, step |-> step]
  BY DEF Request
<1>2. UNCHANGED <<live, dir, work, fence, stage, target, begun>> /\ work[t] = NoWork
  BY DEF Refuse
<1>3. live' = live /\ dir' = dir /\ work' = work /\ fence' = fence /\ stage' = stage
      /\ target' = target /\ begun' = begun
  BY <1>2
<1>4. /\ \A u \in Machines : u # t => inbox'[u] = inbox[u]
      /\ inbox'[t] = inbox[t] \ {r} /\ Queued(p, t, step)
  BY <1>1 DEF Refuse, PubInv, PubTypeOK, Queued
<1>5. \A q \in Publications, s \in Steps :
         Queued(q, t, s)' <=> Queued(q, t, s) /\ ~(q = p /\ s = step)
  <2>1. \A q \in Publications, s \in Steps : [pub |-> q, step |-> s] = r <=> q = p /\ s = step
    BY <1>1
  <2> QED
    BY <1>4, <2>1 DEF Queued
<1>6. /\ \A q \in Publications : q # p => answer'[q] = answer[q]
      /\ answer'[p] = IF Waits(p, t, step) THEN "failed" ELSE answer[p]
  BY <1>1 DEF Refuse, Reply, Waits, PubInv, PubTypeOK
<1>7. PubTypeOK /\ Course(p) /\ Calls(p, t) /\ DirOf(p, t) /\ WorkOf(p, t) /\ Level(t)
  BY DEF PubInv, Orderly
<1>8. ASSUME stage[p] = "apply", answer'[p] # answer[p]
      PROVE  /\ ~Stands(p, t) /\ ~Halved(p, t) /\ ~Stands(p, t)' /\ ~Halved(p, t)'
             /\ \A u \in Machines : dir[p][u].phase # "published"
  <2>1. step = "apply" /\ target[p] = t /\ answer[p] = "wait" /\ answer'[p] = "failed"
    BY <1>6, <1>8 DEF Waits
  <2>2. dir[p][t].phase = "none" /\ ~dir[p][t].receipt
    BY <1>4, <1>7, <2>1 DEF Calls, DirOf
  <2>3. \A u \in Machines : dir[p][u].phase # "published"
    BY <1>8, <2>1, <2>2, ApplyAlone
  <2> QED
    BY <1>3, <1>8, <2>1, <2>2, <2>3 DEF Stands, Halved
<1>9. Yields(p)'
  <2>1. CASE answer'[p] = answer[p] \/ stage[p] # "apply"
    <3>1. answer'[p] = answer[p] \/ (answer[p] = "wait" /\ answer'[p] = "failed" /\ stage[p] # "apply")
      BY <1>6, <2>1 DEF Waits
    <3> QED
      BY <1>3, <3>1, YieldsKept
  <2>2. CASE answer'[p] # answer[p] /\ stage[p] = "apply"
    <3>1. answer'[p] = "failed"
      BY <1>6, <2>2
    <3> QED
      BY <1>3, <1>8, <2>2, <3>1 DEF Yields, Undone
  <2> QED
    BY <2>1, <2>2
<1>10. Course(p)'
  <2>1. Loops(p)'
    <3>1. stage[p] \in {"new", "verify"} => answer'[p] = answer[p]
      BY <1>6, <1>7 DEF Course, Loops, Waits, Steps
    <3> QED
      BY <1>3, <1>7, <3>1 DEF Course, Loops
  <2> QED
    BY <1>9, <2>1 DEF Course
<1>11. Calls(p, t)'
  <2>1. \A s \in Steps : ~InHand(p, t, s)'
    BY <1>2, <1>3 DEF InHand
  <2>2. ASSUME NEW s \in Steps, Pending(p, t, s)'
        PROVE  Pending(p, t, s) /\ (Waits(p, t, s)' \/ Belated(p, t, s)')
    <3>1. Queued(p, t, s) /\ s # step
      BY <1>5, <2>1, <2>2 DEF Pending
    <3>2. Waits(p, t, s) \/ Belated(p, t, s)
      BY <1>7, <3>1 DEF Calls, Pending
    <3>3. Waits(p, t, s) => answer'[p] = answer[p]
      BY <1>6, <3>1 DEF Waits
    <3> QED
      BY <1>3, <3>1, <3>2, <3>3 DEF Waits, Belated, Pending
  <2>3. {"apply", "begin", "publish"} \subseteq Steps
    BY DEF Steps
  <2>4. Queued(p, t, "apply")' => Queued(p, t, "apply")
    BY <1>5, <2>3
  <2> QED
    BY <1>3, <1>7, <2>1, <2>2, <2>3, <2>4 DEF Calls
<1>12. DirOf(p, t)' /\ WorkOf(p, t)'
  BY <1>3, <1>7 DEF DirOf, WorkOf
<1>13. Level(t)'
  <2>1. ASSUME NEW q \in Publications PROVE Steady(q, t)
    <3>1. CASE answer'[q] = answer[q] \/ stage[q] # "apply"
      BY <1>3, <3>1 DEF Steady, Halved, Stands, Undone
    <3>2. CASE answer'[q] # answer[q] /\ stage[q] = "apply"
      BY <1>6, <1>8, <3>2 DEF Steady
    <3> QED
      BY <3>1, <3>2
  <2> QED
    BY <1>3, <1>7, <2>1, LevelSame
<1>14. answer'[p] = answer[p] \/ (stage[p] \in Steps /\ target[p] = t /\ answer[p] = "wait")
  BY <1>6 DEF Waits
<1>15. \A u \in Machines : u # t => /\ live'[u] = live[u] /\ work'[u] = work[u]
                                    /\ fence'[u] = fence[u] /\ inbox'[u] = inbox[u]
  BY <1>3, <1>4
<1>16. fence[t] <= fence'[t]
  BY <1>3, <1>7, FenceIsNat
<1>17. \A q \in Publications, s \in Steps : q # p => (Queued(q, t, s)' <=> Queued(q, t, s))
  BY <1>5
<1>18. /\ \A q \in Publications : q # p => dir'[q] = dir[q] /\ answer'[q] = answer[q]
       /\ \A u \in Machines : u # t => dir'[p][u] = dir[p][u]
       /\ work[t] = NoWork /\ work'[t] = NoWork
  BY <1>2, <1>3, <1>6
<1> HIDE DEF Queued
<1> QED
  BY <1>2, <1>7, <1>10, <1>11, <1>12, <1>13, <1>14, <1>15, <1>16, <1>17, <1>18, TargetMoves

LEMMA GreatestIs ==
    ASSUME NEW S \in SUBSET Publications, NEW x \in S, \A y \in S : y <= x
    PROVE  Greatest(S) = x
<1>1. LastPublication \in Nat /\ Publications \subseteq Nat
  BY PublicationAssumption DEF Publications
<1>2. Greatest(S) \in S /\ \A y \in S : y <= Greatest(S)
  BY <1>1, GreatestOf DEF Publications
<1>3. \A a, b \in Nat : a <= b /\ b <= a => a = b
  OBVIOUS
<1>4. x \in Nat /\ Greatest(S) \in Nat /\ x <= Greatest(S) /\ Greatest(S) <= x
  BY <1>1, <1>2
<1> QED
  BY <1>3, <1>4

\* What stands on a target was admitted by it.
LEMMA StandsAdmitted ==
    ASSUME PubTypeOK, Orderly, NEW t \in Machines, NEW p \in Publications, Stands(p, t)
    PROVE  p <= fence[t]
<1>1. DirOf(p, t) /\ Yields(p)
  BY DEF Orderly, Course
<1>2. p \in Nat /\ fence[t] \in Nat
  BY PubNumbers, FenceIsNat
<1>3. CASE dir[p][t].phase = "published"
  <2>1. dir[p][t] # NoDir
    BY <1>3 DEF NoDir
  <2> QED
    BY <1>1, <1>2, <2>1 DEF DirOf
<1>4. CASE stage[p] \in {"complete", "ok"} \/ (stage[p] = "apply" /\ answer[p] = "ok")
  BY <1>1, <1>4 DEF Stands, Yields
<1> QED
  BY <1>3, <1>4 DEF Stands

\* What a target has without p, once everything before p stands or is undone.
LEMMA FilesBefore ==
    ASSUME PubInv, Orderly, NEW t \in Machines, work[t] = NoWork, NEW p \in Publications,
           fence[t] < p, NoneHalved(t, p), NEW f \in Files
    PROVE  live[t][f] = BaseOf(t, p, f)
<1>1. PubTypeOK /\ Level(t)
  BY DEF PubInv, Orderly
<1>2. fence[t] \in Nat /\ p \in Nat /\ Publications \subseteq Nat \ {0}
  BY <1>1, FenceIsNat, PubNumbers
<1>3. \A q \in Publications : Stands(q, t) => q <= fence[t]
  BY <1>1, StandsAdmitted
<1>4. CASE fence[t] = 0
  <2>1. \A q \in Publications : ~(q <= 0)
    BY <1>2
  <2>2. Below(t, p) = {}
    BY <1>3, <1>4, <2>1 DEF Below
  <2>3. BaseOf(t, p, f) = Original(f)
    BY <2>2 DEF BaseOf
  <2> QED
    BY <1>1, <1>4, <2>3 DEF Level
<1>5. CASE fence[t] # 0
  <2>1. PICK m \in Publications : m = fence[t]
    BY <1>1, <1>5 DEF PubTypeOK
  <2>2. m < p /\ m \in Nat
    BY <1>2, <2>1
  <2>3. \A q \in Publications : q < m => q < p
    BY <1>2, <2>2
  <2>4. NoneHalved(t, m) /\ ~Halved(m, t)
    BY <2>2, <2>3 DEF NoneHalved
  <2>5. Content(t, m)
    BY <1>1, <2>1, <2>4 DEF Level
  <2>6. CASE Stands(m, t)
    <3>1. Below(t, p) \in SUBSET Publications /\ m \in Below(t, p) /\ \A q \in Below(t, p) : q <= m
      BY <1>3, <2>1, <2>2, <2>6 DEF Below
    <3>2. Greatest(Below(t, p)) = m
      BY <3>1, GreatestIs
    <3>3. BaseOf(t, p, f) = m
      BY <3>1, <3>2 DEF BaseOf
    <3> QED
      BY <2>5, <2>6, <3>3 DEF Content
  <2>7. CASE ~Stands(m, t)
    <3>1. ASSUME NEW q \in Publications, Stands(q, t) PROVE q < m <=> q < p
      <4>1. q \in Nat /\ q <= m /\ q # m
        BY <1>2, <1>3, <2>1, <2>7, <3>1
      <4> QED
        BY <1>2, <2>2, <4>1
    <3>2. Below(t, p) = Below(t, m)
      BY <3>1 DEF Below
    <3>3. BaseOf(t, p, f) = BaseOf(t, m, f)
      BY <3>2 DEF BaseOf
    <3> QED
      BY <2>4, <2>5, <2>7, <3>3 DEF Content
  <2> QED
    BY <2>6, <2>7
<1> QED
  BY <1>4, <1>5

\* A request is admitted, the first of its publication or another one.
LEMMA AdmitOrderly ==
    ASSUME PubInv, PubTypeOK', Orderly, NEW t \in Machines, NEW r \in Request, Admit(t, r)
    PROVE  Orderly'
<1>1. PICK p \in Publications, step \in Steps : r.pub = p /\ r.step = step /\ r = [pub |-> p, step |-> step]
  BY DEF Request
<1>2. UNCHANGED <<live, dir, stage, target, begun, answer>> /\ work[t] = NoWork
  BY DEF Admit, publisherVars
<1>3. live' = live /\ dir' = dir /\ answer' = answer /\ stage' = stage
      /\ target' = target /\ begun' = begun
  BY <1>2
<1>4. /\ \A u \in Machines : u # t => inbox'[u] = inbox[u] /\ fence'[u] = fence[u] /\ work'[u] = work[u]
      /\ inbox'[t] = inbox[t] \ {r} /\ Queued(p, t, step) /\ fence'[t] = p
      /\ work'[t].pub = p /\ work'[t].step = step /\ work'[t].mode = "start"
  BY <1>1 DEF Admit, PubInv, PubTypeOK, Queued
<1>5. \A q \in Publications, s \in Steps :
         Queued(q, t, s)' <=> Queued(q, t, s) /\ ~(q = p /\ s = step)
  <2>1. \A q \in Publications, s \in Steps : [pub |-> q, step |-> s] = r <=> q = p /\ s = step
    BY <1>1
  <2> QED
    BY <1>4, <2>1 DEF Queued
<1>6. PubTypeOK /\ Course(p) /\ Calls(p, t) /\ DirOf(p, t) /\ Level(t)
  BY DEF PubInv, Orderly
<1>7. fence[t] \in Nat /\ p \in Nat /\ fence[t] <= p /\ p # 0
  <2>1. fence[t] \in Nat /\ p \in Nat /\ p # 0
    BY <1>6, FenceIsNat, PubNumbers
  <2>2. ~(p < fence[t])
    BY <1>1 DEF Admit, Fenced
  <2> QED
    BY <2>1, <2>2
<1>8. \A u \in Machines : fence[u] <= fence'[u]
  <2>1. \A u \in Machines : fence[u] \in Nat
    BY <1>6, FenceIsNat
  <2> QED
    BY <1>4, <1>7, <2>1
<1>9. Course(p)'
  BY <1>3, <1>6, <1>8, CourseSame
<1>10. Calls(p, t)'
  <2>1. \A s \in Steps : InHand(p, t, s)' => s = step
    BY <1>4 DEF InHand
  <2>2. \A s \in Steps : Pending(p, t, s)' => Queued(p, t, s)
    BY <1>4, <1>5, <2>1 DEF Pending
  <2>3. \A s \in Steps : Pending(p, t, s)' => Pending(p, t, s)
    BY <2>2 DEF Pending
  <2>4. \A s \in Steps : /\ Waits(p, t, s)' <=> Waits(p, t, s)
                         /\ Belated(p, t, s)' <=> Belated(p, t, s)
    BY <1>3 DEF Waits, Belated
  <2>5. {"apply", "begin", "publish"} \subseteq Steps
    BY DEF Steps
  <2>6. Queued(p, t, "apply")' \/ InHand(p, t, "apply")' => Queued(p, t, "apply")
    BY <2>2, <2>5 DEF Pending
  <2>7. \A s \in Steps : ~(Queued(p, t, s)' /\ InHand(p, t, s)')
    BY <1>5, <2>1
  <2> QED
    BY <1>3, <1>6, <2>3, <2>4, <2>5, <2>6, <2>7 DEF Calls
<1>11. DirOf(p, t)'
  <2>1. ~(p > fence'[t])
    BY <1>4, <1>7
  <2> QED
    BY <1>3, <1>6, <2>1 DEF DirOf
<1>12. WorkOf(p, t)'
  BY <1>4 DEF WorkOf
<1>13. Level(t)'
  <2>1. \A q \in Publications : (Stands(q, t)' <=> Stands(q, t)) /\ (Halved(q, t)' <=> Halved(q, t))
    BY <1>3 DEF Stands, Halved, Undone
  <2>2. ASSUME NoneHalved(t, p)' PROVE Content(t, p)'
    <3>1. NoneHalved(t, p)
      BY <2>1, <2>2 DEF NoneHalved
    <3>2. \A f \in Files : BaseOf(t, p, f)' = BaseOf(t, p, f)
      BY <2>1, SameBase
    <3>3. CASE fence[t] = p
      <4>1. Content(t, p)
        BY <1>6, <3>1, <3>3 DEF Level
      <4> QED
        BY <1>3, <1>4, <2>1, <3>2, <4>1 DEF Content
    <3>4. CASE fence[t] # p
      <4>1. fence[t] < p /\ p > fence[t] /\ ~(p <= fence[t])
        BY <1>7, <3>4
      <4>2. ~dir[p][t].receipt /\ ~Stands(p, t)
        <5>1. dir[p][t] = NoDir
          BY <1>6, <4>1 DEF DirOf
        <5>2. ~Stands(p, t)
          BY <1>6, <4>1, StandsAdmitted
        <5> QED
          BY <5>1, <5>2 DEF NoDir
      <4>3. \A f \in Files : live[t][f] = BaseOf(t, p, f)
        BY <1>2, <3>1, <4>1, FilesBefore
      <4> QED
        BY <1>3, <1>4, <2>1, <3>2, <4>2, <4>3 DEF Content
    <3> QED
      BY <3>3, <3>4
  <2> QED
    BY <1>4, <1>7, <2>2 DEF Level
<1>14. \A u \in Machines : u # t => /\ live'[u] = live[u] /\ work'[u] = work[u]
                                    /\ fence'[u] = fence[u] /\ inbox'[u] = inbox[u]
  BY <1>3, <1>4
<1>15. \A q \in Publications, s \in Steps : q # p => (Queued(q, t, s)' <=> Queued(q, t, s))
  BY <1>5
<1>16. /\ \A q \in Publications : q # p => dir'[q] = dir[q] /\ answer'[q] = answer[q]
       /\ \A u \in Machines : u # t => dir'[p][u] = dir[p][u]
       /\ answer'[p] = answer[p] /\ fence[t] <= fence'[t]
       /\ work[t] = NoWork /\ work'[t].pub = p
  BY <1>2, <1>3, <1>4, <1>8
<1> HIDE DEF Queued
<1> QED
  BY <1>2, <1>6, <1>9, <1>10, <1>11, <1>12, <1>13, <1>14, <1>15, <1>16, TargetMoves

LEMMA MachineOrderly ==
    ASSUME PubInv, PubTypeOK', Orderly, Clean', NEW t \in Machines, MachineStep(t) \/ MachineDies(t)
    PROVE  Orderly'
  BY RefuseOrderly, AdmitOrderly, EndsOrderly, PreparesOrderly, SaveOrderly, ReplaceOrderly,
     RollbackOrderly, RestoreOrderly, RestoredOrderly, PublishedOrderly, RemoveOrderly,
     CompletionOrderly DEF MachineStep

-----------------------------------------------------------------------------
(* All or nothing *)

LEMMA OrderlyStart == PubInit => Orderly
<1> SUFFICES ASSUME PubInit PROVE Orderly
  OBVIOUS
<1>1. NoDir.phase = "none" /\ ~NoDir.receipt /\ NoWork.mode = "idle"
  BY DEF NoDir, NoWork
<1>2. \A p \in Publications, t \in Machines : dir[p][t] = NoDir /\ work[t] = NoWork /\ fence[t] = 0
  BY DEF PubInit
<1>3. \A p \in Publications : stage[p] = "new" /\ begun[p] = {} /\ answer[p] = "none"
  BY DEF PubInit
<1>4. ASSUME NEW p \in Publications PROVE Course(p)
  BY <1>2, <1>3 DEF Course, Loops, Yields, Undone, Steps
<1>5. ASSUME NEW p \in Publications, NEW t \in Machines PROVE Calls(p, t) /\ DirOf(p, t) /\ WorkOf(p, t)
  <2>1. \A s \in Steps : ~Queued(p, t, s) /\ ~InHand(p, t, s)
    BY <1>2 DEF PubInit, Queued, InHand
  <2> QED
    BY <1>1, <1>2, <2>1 DEF Calls, DirOf, WorkOf, Pending, Steps
<1>6. ASSUME NEW t \in Machines PROVE Level(t)
  <2>1. \A m \in Publications : m # 0
    BY PubNumbers
  <2> QED
    BY <1>2, <2>1 DEF Level, PubInit
<1> QED
  BY <1>4, <1>5, <1>6 DEF Orderly

\* An undoing that was not confirmed is never forgotten.
LEMMA DirtyStays ==
    ASSUME PubInv, PubNext, Clean'
    PROVE  Clean
<1>1. \/ dirty' = dirty
      \/ \E p \in Publications : \/ dirty' = [dirty EXCEPT ![p] = TRUE]
                                 \/ dirty' = [dirty EXCEPT ![p] = @ \/ answer[p] # "failed"]
  <2>1. ASSUME NEW p \in Publications, Fail(p)
        PROVE  \/ dirty' = dirty \/ dirty' = [dirty EXCEPT ![p] = TRUE]
               \/ dirty' = [dirty EXCEPT ![p] = @ \/ answer[p] # "failed"]
    BY <2>1 DEF Fail
  <2>2. ASSUME NEW p \in Publications, Acquire(p) \/ PublisherStep(p) \/ PublisherDies(p)
        PROVE  \/ dirty' = dirty \/ dirty' = [dirty EXCEPT ![p] = TRUE]
               \/ dirty' = [dirty EXCEPT ![p] = @ \/ answer[p] # "failed"]
    BY <2>1, <2>2 DEF PublisherStep, Acquire, Send, StepError, StepDone, RenewError, Verify, PublisherDies
  <2>3. ASSUME NEW t \in Machines, Restored(t)
        PROVE  dirty' = dirty \/ \E p \in Publications : dirty' = [dirty EXCEPT ![p] = TRUE]
    <3>1. work[t].pub \in Publications
      BY <2>3, Executes DEF Restored, Modes
    <3> QED
      BY <2>3, <3>1 DEF Restored
  <2>4. ASSUME NEW t \in Machines, MachineStep(t) \/ MachineDies(t), ~Restored(t)
        PROVE  dirty' = dirty
    BY <2>4 DEF MachineStep, MachineDies, Refuse, Admit, StartError, Begin, Write, Prepare, SaveOld,
       PublishAgain, ReplaceFile, ReplaceError, Published, BeginRollback, RestoreFile, Remove,
       RemoveError, CompletePublication, publisherVars
  <2> QED
    BY <2>2, <2>3, <2>4 DEF PubNext
<1>2. dirty \in [Publications -> BOOLEAN]
  BY DEF PubInv, PubTypeOK
<1> QED
  BY <1>1, <1>2 DEF Clean

LEMMA WholeStart == PubInit => WholeInv
  BY PubStart, OrderlyStart DEF WholeInv

LEMMA WholeStep == WholeInv /\ [PubNext]_pubVars => WholeInv'
<1> SUFFICES ASSUME WholeInv, [PubNext]_pubVars PROVE WholeInv'
  OBVIOUS
<1>1. PubInv /\ PubInv' /\ PubTypeOK /\ PubTypeOK'
  BY PubStep DEF WholeInv, PubInv
<1>2. CASE UNCHANGED pubVars
  <2>1. /\ live' = live /\ dir' = dir /\ work' = work /\ fence' = fence /\ inbox' = inbox
        /\ stage' = stage /\ target' = target /\ begun' = begun /\ answer' = answer /\ dirty' = dirty
    BY <1>2 DEF pubVars
  <2>2. Clean' => Clean
    BY <2>1 DEF Clean
  <2>3. ASSUME Orderly PROVE Orderly'
    <3>1. ASSUME NEW p \in Publications PROVE Course(p)'
      BY <2>1, <2>3 DEF Orderly, Course, Loops, Yields, Undone
    <3>2. ASSUME NEW p \in Publications, NEW t \in Machines PROVE Calls(p, t)'
      <4>1. Calls(p, t)
        BY <2>3 DEF Orderly
      <4>2. \A s \in Steps : /\ Queued(p, t, s)' <=> Queued(p, t, s)
                             /\ InHand(p, t, s)' <=> InHand(p, t, s)
                             /\ Waits(p, t, s)' <=> Waits(p, t, s)
                             /\ Belated(p, t, s)' <=> Belated(p, t, s)
                             /\ Pending(p, t, s)' <=> Pending(p, t, s)
        BY <2>1 DEF Queued, InHand, Waits, Belated, Pending
      <4>3. {"apply", "begin", "publish"} \subseteq Steps
        BY DEF Steps
      <4> QED
        BY <2>1, <4>1, <4>2, <4>3 DEF Calls
    <3>3. ASSUME NEW p \in Publications, NEW t \in Machines PROVE DirOf(p, t)' /\ WorkOf(p, t)'
      BY <2>1, <2>3 DEF Orderly, DirOf, WorkOf
    <3>4. ASSUME NEW t \in Machines PROVE Level(t)'
      <4>1. \A p \in Publications : Steady(p, t)
        BY <2>1 DEF Steady, Halved, Stands, Undone
      <4> QED
        BY <2>1, <2>3, <4>1, LevelSame DEF Orderly
    <3> QED
      BY <3>1, <3>2, <3>3, <3>4 DEF Orderly
  <2> QED
    BY <1>1, <2>2, <2>3 DEF WholeInv
<1>3. ASSUME PubNext, Clean' PROVE Orderly'
  <2>1. Orderly
    BY <1>1, <1>3, DirtyStays DEF WholeInv
  <2>2. ASSUME NEW p \in Publications, Acquire(p) \/ PublisherStep(p) \/ PublisherDies(p)
        PROVE  Orderly'
    BY <1>1, <1>3, <2>1, <2>2, PublisherOrderly
  <2>3. ASSUME NEW t \in Machines, MachineStep(t) \/ MachineDies(t)
        PROVE  Orderly'
    BY <1>1, <1>3, <2>1, <2>3, MachineOrderly
  <2> QED
    BY <1>3, <2>2, <2>3 DEF PubNext
<1> QED
  BY <1>1, <1>2, <1>3 DEF WholeInv

\* What the files of t are when every publication has succeeded or is undone.
LEMMA WholeAtRest ==
    ASSUME PubInv, Orderly, \A p \in Publications : stage[p] \in {"new", "ok", "failed"},
           NEW t \in Machines, NEW f \in Files
    PROVE  live[t][f] = IF Current(t) = 0 THEN Original(f) ELSE Current(t)
<1> DEFINE Successes == {p \in Publications : t \in ScopeOf[p] /\ stage[p] = "ok"}
<1>1. PubTypeOK /\ Level(t) /\ fence[t] \in Nat
  BY FenceIsNat DEF PubInv, Orderly
<1>2. ASSUME NEW p \in Publications
      PROVE  ~Halved(p, t) /\ (Stands(p, t) <=> t \in ScopeOf[p] /\ stage[p] = "ok")
  <2>1. Yields(p) /\ DirOf(p, t)
    BY DEF Orderly, Course
  <2>2. CASE stage[p] = "new"
    <3>1. ~dir[p][t].receipt /\ dir[p][t].phase = "none"
      BY <2>1, <2>2 DEF Yields, NoDir
    <3> QED
      BY <2>2, <3>1 DEF Halved, Stands
  <2>3. CASE stage[p] = "ok"
    BY <2>1, <2>3 DEF Yields, DirOf, Halved, Stands
  <2>4. CASE stage[p] = "failed"
    BY <2>1, <2>4 DEF Yields, Undone, Halved, Stands
  <2> QED
    BY <2>2, <2>3, <2>4
<1>3. \A p \in Publications : p \in Successes <=> Stands(p, t)
  BY <1>2
<1>4. Successes \in SUBSET Publications /\ Current(t) = IF Successes = {} THEN 0 ELSE Greatest(Successes)
  BY DEF Current
<1> HIDE DEF Successes
<1>5. \A p \in Successes : p <= fence[t] /\ p \in Nat /\ p # 0
  BY <1>1, <1>3, <1>4, StandsAdmitted, PubNumbers
<1>6. CASE fence[t] = 0
  <2>1. Successes = {}
    BY <1>5, <1>6
  <2> QED
    BY <1>1, <1>4, <1>6, <2>1 DEF Level
<1>7. CASE fence[t] # 0
  <2>1. PICK m \in Publications : m = fence[t]
    BY <1>1, <1>7 DEF PubTypeOK
  <2>2. NoneHalved(t, m) /\ ~Halved(m, t)
    BY <1>2 DEF NoneHalved
  <2>3. Content(t, m)
    BY <1>1, <2>1, <2>2 DEF Level
  <2>4. CASE Stands(m, t)
    <3>1. Greatest(Successes) = m /\ Successes # {}
      BY <1>3, <1>4, <1>5, <2>1, <2>4, GreatestIs
    <3> QED
      BY <1>4, <1>7, <2>1, <2>3, <2>4, <3>1 DEF Content
  <2>5. CASE ~Stands(m, t)
    <3>1. \A p \in Successes : p < m
      BY <1>1, <1>3, <1>5, <2>1, <2>5
    <3>2. Below(t, m) = Successes
      BY <1>3, <1>4, <3>1 DEF Below
    <3>3. live[t][f] = BaseOf(t, m, f)
      BY <2>2, <2>3, <2>5 DEF Content
    <3>4. Successes # {} => Greatest(Successes) # 0
      <4>1. LastPublication \in Nat
        BY PublicationAssumption
      <4>2. Successes # {} => Greatest(Successes) \in Successes
        BY <1>4, <4>1, GreatestOf DEF Publications
      <4> QED
        BY <1>5, <4>2
    <3> QED
      BY <1>4, <3>2, <3>3, <3>4 DEF BaseOf
  <2> QED
    BY <2>4, <2>5
<1> QED
  BY <1>6, <1>7

\* All or nothing: when every publication has succeeded, or has failed with its undoing
\* confirmed, every target has all files of the last success, for every number of
\* publications, targets and files, and whatever requests were late, lost or executed
\* after RemotePublisher had given up.
THEOREM PublicationIsWhole == PubSpec => []AllOrNothing
<1>1. WholeInv => AllOrNothing
  BY WholeAtRest DEF WholeInv, Clean, AllOrNothing
<1>2. PubSpec => []WholeInv
  BY WholeStart, WholeStep, PTL DEF PubSpec
<1> QED
  BY <1>1, <1>2, PTL

-----------------------------------------------------------------------------
(* Placement migration *)

MigRows == [pc : CallSteps \cup OwnSteps, from : Homes, rev : 0 .. LastRevision,
            was : BOOLEAN, begun : BOOLEAN, switched : BOOLEAN, started : BOOLEAN,
            committed : BOOLEAN, archived : BOOLEAN, restored : BOOLEAN, bad : BOOLEAN,
            ans : {"none", "wait", "ok", "failed", "refused"}]

\* The steps before the import is committed, those between the switch of the placement
\* and its undoing, those after the commit, and the cleanup from the rollback on.
Early == {"new", "planned", "status", "stop", "export", "begin", "fetch", "rebegin", "write"}
Switched == {"launch", "decide", "halt", "unapply"}
Forth == {"finalize", "complete", "retire", "release"}
Back == {"rollback", "restart", "unexport", "again", "failed"}

\* Of a migration's local variables: it has committed; it has not sent the commit of its
\* import; its import is in place and it has not committed; its cleanup is past the
\* rollback, without an error; it has read the source on behalf of its token.
HasCommitted(r) == r.committed \/ r.pc = "ok"
Preparing(r) == r.pc \in Early \/ (r.pc = "commit" /\ r.ans = "none")
Arrived(r) == r.pc \in {"apply"} \cup Switched \/ (r.pc = "commit" /\ r.ans = "ok")
RolledBack(r) ==
    \/ r.pc = "rollback" /\ r.ans = "ok"
    \/ r.pc \in Back \ {"rollback"} /\ ~r.bad /\ ~r.committed
Exported(r) ==
    \/ Arrived(r) \/ HasCommitted(r) \/ r.pc \in {"begin", "fetch", "rebegin", "write", "commit"}
    \/ r.pc = "export" /\ r.ans = "ok"

\* The committed migrations.
Done == {i \in Migrations : HasCommitted(mig[i])}

\* What the local variables say of the way a migration is on.
CourseOf(r) ==
    /\ r.pc \in Switched => r.switched
    /\ r.started => r.switched
    /\ r.switched => r.begun
    /\ r.pc \in {"fetch", "rebegin", "write", "commit", "apply", "rollback"} => r.begun
    /\ r.pc \in Early \cup {"commit", "apply"} => ~r.switched /\ ~r.bad
    /\ r.pc \in {"new", "planned", "status", "stop", "export", "begin", "ok", "failed"} => ~r.begun
    /\ r.pc \in {"new", "planned", "status", "apply", "decide", "unapply", "ok", "failed"} => r.ans = "none"
    /\ r.committed => r.pc \in Forth \cup {"unexport"}
    /\ r.pc \in Forth => r.committed
    /\ r.committed /\ r.pc = "unexport" => r.bad
    /\ r.archived => r.committed
    /\ r.committed /\ ~r.bad /\ r.pc # "finalize" => r.archived

Asked(h, i, step) == [id |-> i, step |-> step] \in calls[h]

\* What a request of migration i that is not executed yet says of it.
CallsOf(i, r) ==
    \A h \in Homes :
        /\ \A step \in CallSteps : Asked(h, i, step) =>
              /\ r.pc \notin {"new", "planned", "status"}
              /\ h = IF step \in SourceSteps THEN r.from ELSE Other(r.from)
        /\ \A step \in {"fetch", "write", "commit", "rollback"} : Asked(h, i, step) =>
              (r.pc = step /\ r.ans = "wait") \/ (r.pc \in Back /\ ~r.committed)
        /\ Asked(h, i, "rollback") => r.pc # "rollback" \/ r.ans = "wait"
        /\ Asked(h, i, "finalize") \/ Asked(h, i, "complete") => HasCommitted(r)
        /\ Asked(h, i, "commit") => ~Asked(h, i, "fetch") /\ ~Asked(h, i, "write")

\* What a migration has done on a machine, the machine has admitted.
TokenOf(i, r) ==
    /\ Exported(r) => admitted[r.from] >= i
    /\ Arrived(r) \/ HasCommitted(r) => admitted[Other(r.from)] >= i

\* A copy marked i is where i put it, and before i commits the other machine has the
\* world too, and not as the copy of another migration before its commit.
MarkOf(i, r) ==
    \A h \in Homes : disk[h] = i =>
        /\ h = Other(r.from) /\ ~Preparing(r)
        /\ ~HasCommitted(r) =>
              /\ disk[Other(h)] # NoWorld
              /\ disk[Other(h)] \in Migrations => disk[Other(h)] \in Done
              /\ ~astray /\ r.pc \notin Switched => placed = r.from
              /\ halfway[h] = i \/ receipt[i] \/ torn

\* A commit that has renamed and not recorded.
HalfwayOf(i, r) ==
    \A h \in Homes : halfway[h] = i =>
        /\ disk[h] = i /\ admitted[h] >= i /\ ~Asked(h, i, "commit")
        /\ \/ r.pc = "commit" /\ r.ans = "wait"
           \/ r.pc \in Back /\ ~r.committed /\ ~RolledBack(r)

ArrivedOf(i, r) ==
    /\ Arrived(r) => disk[Other(r.from)] = i
    /\ r.pc \in Switched => placed = Other(r.from)

\* A migration that has committed, as long as its requests are admitted on the source.
CommittedOf(i, r) ==
    HasCommitted(r) /\ admitted[r.from] <= i =>
        /\ disk[Other(r.from)] \in {i, Unmarked} /\ placed = Other(r.from)
        /\ disk[r.from] \in Migrations => disk[r.from] \in Done
        /\ Held(i) /\ ~r.bad =>
              /\ r.pc # "finalize" \/ r.ans = "ok" => archive[i] /\ disk[r.from] = NoWorld
              /\ r.pc \notin {"finalize", "complete"} \/ (r.pc = "complete" /\ r.ans = "ok") =>
                    disk[Other(r.from)] = Unmarked

\* A migration that has not put its import in place, or has removed it.
AwayOf(i, r) ==
    /\ Preparing(r) => ~receipt[i]
    /\ RolledBack(r) =>
          /\ ~receipt[i] /\ (torn \/ disk[Other(r.from)] # i)
          /\ \A h \in Homes : Asked(h, i, "commit") => import[i] # "full"

MigOf(i, r) ==
    /\ CourseOf(r) /\ CallsOf(i, r) /\ TokenOf(i, r) /\ MarkOf(i, r) /\ HalfwayOf(i, r)
    /\ ArrivedOf(i, r) /\ CommittedOf(i, r) /\ AwayOf(i, r)

\* A machine only admits migrations that hold, or held, the lease.
Admissions == \A h \in Homes : admitted[h] # 0 => mig[admitted[h]].pc \notin {"new", "planned"}

MigInv ==
    /\ MigTypeOK /\ Admissions /\ PlacementServed /\ WorldKept
    /\ \A i \in Migrations : MigOf(i, mig[i])

-----------------------------------------------------------------------------
(* Steps that leave the world where it is *)

LEMMA MigBasics ==
    /\ Migrations \subseteq Nat /\ 0 \notin Migrations
    /\ NoWorld \notin Migrations /\ Unmarked \notin Migrations /\ NoWorld # Unmarked
    /\ \A h \in Homes : Other(h) \in Homes /\ Other(h) # h /\ Other(Other(h)) = h
    /\ \A g, h \in Homes : g = h \/ g = Other(h)
  BY MigrationAssumption DEF Migrations, NoWorld, Unmarked, Homes, Other

LEMMA MigTyped ==
    ASSUME MigTypeOK
    PROVE  /\ mig \in [Migrations -> MigRows]
           /\ \A i \in Migrations : mig[i] \in MigRows
           /\ \A r \in MigRows : r.from \in Homes /\ Other(r.from) \in Homes
  BY MigBasics DEF MigTypeOK, MigRows

LEMMA AdmittedNumbers ==
    /\ MigTypeOK => \A h \in Homes : admitted[h] \in Int
    /\ MigTypeOK' => \A h \in Homes : admitted'[h] \in Int
    /\ \A k \in Migrations : k \in Int
<1>1. Migrations \subseteq Int /\ 0 \in Int
  BY MigBasics
<1>2. MigTypeOK => admitted \in [Homes -> {0} \cup Migrations]
  BY DEF MigTypeOK
<1>3. MigTypeOK' => admitted' \in [Homes -> {0} \cup Migrations]
  BY DEF MigTypeOK
<1> QED
  BY <1>1, <1>2, <1>3

\* Later migrations do not return to their plan.
LEMMA HeldStays ==
    ASSUME NEW i \in Migrations, Held(i)',
           \A k \in Migrations : mig'[k].pc \in {"new", "planned"} => mig[k].pc \in {"new", "planned"}
    PROVE  Held(i)
  BY DEF Held

LEMMA CallsStay ==
    ASSUME NEW k, NEW s, CallsOf(k, s),
           \A h \in Homes, step \in CallSteps : Asked(h, k, step)' => Asked(h, k, step)
    PROVE  CallsOf(k, s)'
<1>1. {"fetch", "write", "commit", "rollback", "finalize", "complete"} \subseteq CallSteps
  BY DEF CallSteps, SourceSteps, TargetSteps
<1>2. \A h \in Homes : /\ ~Asked(h, k, "commit") => ~Asked(h, k, "commit")'
                       /\ ~Asked(h, k, "fetch") => ~Asked(h, k, "fetch")'
                       /\ ~Asked(h, k, "write") => ~Asked(h, k, "write")'
  BY <1>1
<1> QED
  BY <1>1, <1>2 DEF CallsOf

LEMMA TokenStays ==
    ASSUME MigTypeOK, MigTypeOK', NEW k \in Migrations, NEW s \in MigRows, TokenOf(k, s),
           \A h \in Homes : admitted[h] <= admitted'[h]
    PROVE  TokenOf(k, s)'
<1>1. \A h \in Homes : admitted[h] \in Int /\ admitted'[h] \in Int /\ admitted[h] <= admitted'[h] /\ k \in Int
  BY AdmittedNumbers
<1>2. s.from \in Homes /\ Other(s.from) \in Homes
  BY MigTyped
<1> QED
  BY <1>1, <1>2 DEF TokenOf

\* Nothing is moved: only requests, answers, tokens and what is being transferred change.
Calm == UNCHANGED <<disk, receipt, archive, halfway, torn, placed, astray>>

LEMMA OtherCalm ==
    ASSUME MigInv, MigTypeOK', Calm, NEW k \in Migrations, NEW s, s = mig[k], Done \subseteq Done',
           \A h \in Homes : admitted[h] <= admitted'[h],
           \A h \in Homes, step \in CallSteps : Asked(h, k, step)' => Asked(h, k, step),
           import'[k] = import[k],
           \A j \in Migrations : mig'[j].pc \in {"new", "planned"} => mig[j].pc \in {"new", "planned"}
    PROVE  MigOf(k, s)'
<1>1. MigOf(k, s) /\ s \in MigRows /\ s.from \in Homes /\ Other(s.from) \in Homes /\ MigTypeOK
  BY MigTyped DEF MigInv
<1>2. CallsOf(k, s)' /\ TokenOf(k, s)'
  BY <1>1, CallsStay, TokenStays DEF MigOf
<1>3. MarkOf(k, s)'
  BY <1>1 DEF MigOf, MarkOf, Calm
<1>4. HalfwayOf(k, s)'
  <2>1. \A h \in Homes : ~Asked(h, k, "commit") => ~Asked(h, k, "commit")'
    BY DEF CallSteps, TargetSteps
  <2>2. \A h \in Homes : admitted[h] \in Int /\ admitted'[h] \in Int /\ k \in Int
    BY <1>1, AdmittedNumbers
  <2> QED
    BY <1>1, <2>1, <2>2 DEF MigOf, HalfwayOf, Calm
<1>5. ArrivedOf(k, s)'
  BY <1>1 DEF MigOf, ArrivedOf, Calm
<1>6. CommittedOf(k, s)'
  <2>1. admitted[s.from] \in Int /\ admitted'[s.from] \in Int /\ k \in Int /\ admitted[s.from] <= admitted'[s.from]
    BY <1>1, AdmittedNumbers
  <2>2. Held(k)' => Held(k)
    BY HeldStays
  <2> QED
    BY <1>1, <2>1, <2>2 DEF MigOf, CommittedOf, Calm
<1>7. AwayOf(k, s)'
  <2>1. \A h \in Homes : ~Asked(h, k, "commit") => ~Asked(h, k, "commit")'
    BY DEF CallSteps, TargetSteps
  <2> QED
    BY <1>1, <2>1 DEF MigOf, AwayOf, Calm
<1> QED
  BY <1>1, <1>2, <1>3, <1>4, <1>5, <1>6, <1>7 DEF MigOf

\* A step of migration i, which becomes r, or of a machine on its behalf.
LEMMA CalmStep ==
    ASSUME MigInv, MigTypeOK', Calm, NEW i \in Migrations, NEW r, mig' = [mig EXCEPT ![i] = r],
           MigOf(i, r)',
           HasCommitted(mig[i]) => HasCommitted(r),
           r.pc \in {"new", "planned"} => mig[i].pc \in {"new", "planned"},
           \A h \in Homes : admitted[h] <= admitted'[h],
           \A h \in Homes : admitted'[h] = admitted[h] \/ (admitted'[h] = i /\ r.pc \notin {"new", "planned"}),
           \A h \in Homes, k \in Migrations \ {i}, step \in CallSteps : Asked(h, k, step)' => Asked(h, k, step),
           \A k \in Migrations \ {i} : import'[k] = import[k]
    PROVE  MigInv'
<1>1. \A k \in Migrations : mig'[k] = IF k = i THEN r ELSE mig[k]
  BY DEF MigInv, MigTypeOK
<1>2. Done \subseteq Done'
  BY <1>1 DEF Done
<1>3. \A k \in Migrations : mig'[k].pc \in {"new", "planned"} => mig[k].pc \in {"new", "planned"}
  BY <1>1
<1>4. ASSUME NEW k \in Migrations PROVE MigOf(k, mig[k])'
  <2>1. CASE k = i
    <3>1. mig'[k] = r
      BY <1>1, <2>1
    <3> QED
      BY <2>1, <3>1 DEF MigOf, CallsOf, TokenOf, MarkOf, HalfwayOf, ArrivedOf, CommittedOf, AwayOf
  <2>2. CASE k # i
    <3>1. PICK s : s = mig[k]
      OBVIOUS
    <3>2. MigOf(k, s)'
      BY <1>2, <1>3, <2>2, <3>1, OtherCalm
    <3>3. mig'[k] = s
      BY <1>1, <2>2, <3>1
    <3> QED
      BY <3>2, <3>3 DEF MigOf, CallsOf, TokenOf, MarkOf, HalfwayOf, ArrivedOf, CommittedOf, AwayOf
  <2> QED
    BY <2>1, <2>2
<1>5. Admissions'
  <2> SUFFICES ASSUME NEW h \in Homes, admitted'[h] # 0
               PROVE  mig'[admitted'[h]].pc \notin {"new", "planned"}
    BY DEF Admissions
  <2>1. admitted'[h] \in Migrations
    BY DEF MigTypeOK
  <2>2. CASE admitted'[h] = i /\ r.pc \notin {"new", "planned"}
    BY <1>1, <2>2
  <2>3. CASE admitted'[h] = admitted[h]
    BY <1>1, <2>1, <2>3 DEF MigInv, Admissions
  <2> QED
    BY <2>2, <2>3
<1>6. PlacementServed' /\ WorldKept'
  BY DEF MigInv, PlacementServed, WorldKept, Calm
<1> QED
  BY <1>4, <1>5, <1>6 DEF MigInv

-----------------------------------------------------------------------------
(* Steps of the coordinator *)

\* A step of the coordinator from s to r that neither sends a request nor switches the
\* placement nor commits.
Follows(s, r) ==
    /\ r.from = s.from /\ r.ans = "none" /\ CourseOf(r)
    /\ HasCommitted(s) <=> HasCommitted(r)
    /\ r.pc \in {"new", "planned", "status"} => s.pc \in {"new", "planned", "status"}
    /\ r.pc \in {"new", "planned"} => s.pc \in {"new", "planned"}
    /\ s.pc \in Back /\ ~s.committed => r.pc \in Back \ {"rollback"} /\ ~r.committed
    /\ s.pc \in {"fetch", "write", "commit", "rollback"} /\ s.ans = "wait" => r.pc \in Back /\ ~r.committed
    /\ Exported(r) => Exported(s)
    /\ Arrived(r) => Arrived(s)
    /\ Preparing(r) => Preparing(s)
    /\ s.pc \in Switched <=> r.pc \in Switched
    /\ RolledBack(r) => RolledBack(s) \/ Preparing(s)
    /\ HasCommitted(s) /\ ~r.bad =>
          /\ ~s.bad
          /\ r.pc # "finalize" => s.pc # "finalize" \/ s.ans = "ok"
          /\ r.pc \notin {"finalize", "complete"} =>
                s.pc \notin {"finalize", "complete"} \/ (s.pc = "complete" /\ s.ans = "ok")

LEMMA FollowStep ==
    ASSUME MigInv, MigTypeOK', Calm, NEW i \in Migrations, NEW s, s = mig[i], NEW r \in MigRows, Follows(s, r),
           mig' = [mig EXCEPT ![i] = r], UNCHANGED <<import, admitted, calls>>
    PROVE  MigInv'
<1>1. MigOf(i, s) /\ s \in MigRows /\ s.from \in Homes /\ Other(s.from) \in Homes /\ r.from = s.from
  BY MigTyped DEF MigInv, Follows
<1>2. \A k \in Migrations : mig'[k] = IF k = i THEN r ELSE mig[k]
  BY DEF MigInv, MigTypeOK
<1>3. Done \subseteq Done'
  BY <1>2 DEF Done, Follows
<1>4. \A k \in Migrations : mig'[k].pc \in {"new", "planned"} => mig[k].pc \in {"new", "planned"}
  BY <1>2 DEF Follows
<1>5. \A h \in Homes, k \in Migrations, step \in CallSteps : Asked(h, k, step)' <=> Asked(h, k, step)
  BY DEF Asked
<1>6. {"fetch", "write", "commit", "rollback", "finalize", "complete"} \subseteq CallSteps
  BY DEF CallSteps, SourceSteps, TargetSteps
<1>7. CallsOf(i, r)'
  <2> SUFFICES ASSUME NEW h \in Homes
               PROVE  /\ \A step \in CallSteps : Asked(h, i, step) =>
                            /\ r.pc \notin {"new", "planned", "status"}
                            /\ h = IF step \in SourceSteps THEN r.from ELSE Other(r.from)
                      /\ \A step \in {"fetch", "write", "commit", "rollback"} : Asked(h, i, step) =>
                            (r.pc = step /\ r.ans = "wait") \/ (r.pc \in Back /\ ~r.committed)
                      /\ Asked(h, i, "rollback") => r.pc # "rollback" \/ r.ans = "wait"
                      /\ Asked(h, i, "finalize") \/ Asked(h, i, "complete") => HasCommitted(r)
                      /\ Asked(h, i, "commit") => ~Asked(h, i, "fetch") /\ ~Asked(h, i, "write")
    BY DEF CallsOf, Asked
  <2>1. CallsOf(i, s)
    BY <1>1 DEF MigOf
  <2>2. \A step \in CallSteps : Asked(h, i, step) =>
            /\ r.pc \notin {"new", "planned", "status"}
            /\ h = IF step \in SourceSteps THEN r.from ELSE Other(r.from)
    BY <1>1, <2>1 DEF CallsOf, Follows
  <2>3. \A step \in {"fetch", "write", "commit", "rollback"} : Asked(h, i, step) => r.pc \in Back /\ ~r.committed
    BY <2>1 DEF CallsOf, Follows
  <2>4. Asked(h, i, "rollback") => r.pc # "rollback"
    <3>1. Asked(h, i, "rollback") => (s.pc = "rollback" /\ s.ans = "wait") \/ (s.pc \in Back /\ ~s.committed)
      BY <2>1 DEF CallsOf
    <3>2. s.pc = "rollback" => s.pc \in Back /\ ~s.committed
      BY <1>1 DEF MigOf, CourseOf, Back, Forth
    <3> QED
      BY <3>1, <3>2 DEF Follows
  <2>5. /\ Asked(h, i, "finalize") \/ Asked(h, i, "complete") => HasCommitted(r)
        /\ Asked(h, i, "commit") => ~Asked(h, i, "fetch") /\ ~Asked(h, i, "write")
    BY <2>1 DEF CallsOf, Follows
  <2> QED
    BY <2>2, <2>3, <2>4, <2>5
<1>8. TokenOf(i, r)'
  BY <1>1 DEF MigOf, TokenOf, Follows
<1>9. MarkOf(i, r)'
  BY <1>1, <1>3 DEF MigOf, MarkOf, Follows, Calm
<1>10. HalfwayOf(i, r)'
  <2> SUFFICES ASSUME NEW h \in Homes, halfway[h] = i
               PROVE  /\ disk[h] = i /\ admitted[h] >= i /\ ~Asked(h, i, "commit")
                      /\ r.pc \in Back /\ ~r.committed /\ ~RolledBack(r)
    BY <1>5, <1>6 DEF HalfwayOf, Calm
  <2>1. /\ disk[h] = i /\ admitted[h] >= i /\ ~Asked(h, i, "commit")
        /\ \/ s.pc = "commit" /\ s.ans = "wait"
           \/ s.pc \in Back /\ ~s.committed /\ ~RolledBack(s)
    BY <1>1 DEF MigOf, HalfwayOf
  <2>2. r.pc \in Back /\ ~r.committed
    BY <2>1 DEF Follows
  <2>3. ~RolledBack(r)
    BY <2>1 DEF Follows, Preparing, RolledBack, Early, Back
  <2> QED
    BY <2>1, <2>2, <2>3
<1>11. ArrivedOf(i, r)'
  BY <1>1 DEF MigOf, ArrivedOf, Follows, Calm
<1>12. CommittedOf(i, r)'
  <2>1. Held(i)' => Held(i)
    BY <1>4, HeldStays
  <2> SUFFICES ASSUME HasCommitted(r), admitted[r.from] <= i
               PROVE  /\ disk[Other(r.from)] \in {i, Unmarked} /\ placed = Other(r.from)
                      /\ disk[r.from] \in Migrations => disk[r.from] \in Done'
                      /\ Held(i) /\ ~r.bad =>
                            /\ r.pc # "finalize" \/ r.ans = "ok" => archive[i] /\ disk[r.from] = NoWorld
                            /\ r.pc \notin {"finalize", "complete"} \/ (r.pc = "complete" /\ r.ans = "ok") =>
                                  disk[Other(r.from)] = Unmarked
    BY <2>1 DEF CommittedOf, Calm
  <2>2. HasCommitted(s) /\ admitted[s.from] <= i
    BY <1>1 DEF Follows
  <2>3. /\ disk[Other(s.from)] \in {i, Unmarked} /\ placed = Other(s.from)
        /\ disk[s.from] \in Migrations => disk[s.from] \in Done
        /\ Held(i) /\ ~s.bad =>
              /\ s.pc # "finalize" \/ s.ans = "ok" => archive[i] /\ disk[s.from] = NoWorld
              /\ s.pc \notin {"finalize", "complete"} \/ (s.pc = "complete" /\ s.ans = "ok") =>
                    disk[Other(s.from)] = Unmarked
    BY <1>1, <2>2 DEF MigOf, CommittedOf
  <2>4. disk[r.from] \in Migrations => disk[r.from] \in Done'
    BY <1>1, <1>3, <2>3
  <2> QED
    BY <1>1, <2>2, <2>3, <2>4 DEF Follows
<1>13. AwayOf(i, r)'
  <2>1. /\ MarkOf(i, s) /\ CallsOf(i, s) /\ AwayOf(i, s)
    BY <1>1 DEF MigOf
  <2>2. Preparing(r) => ~receipt[i]
    BY <2>1 DEF AwayOf, Follows
  <2>3. ASSUME RolledBack(r)
        PROVE  /\ ~receipt[i] /\ (torn \/ disk[Other(r.from)] # i)
               /\ \A h \in Homes : Asked(h, i, "commit") => import[i] # "full"
    <3>1. CASE RolledBack(s)
      BY <1>1, <2>1, <3>1 DEF AwayOf
    <3>2. CASE Preparing(s)
      <4>1. ~receipt[i] /\ disk[Other(r.from)] # i
        BY <1>1, <2>1, <3>2 DEF AwayOf, MarkOf
      <4>2. \A h \in Homes : ~Asked(h, i, "commit")
        BY <2>1, <3>2 DEF CallsOf, Preparing, Early, Back
      <4> QED
        BY <4>1, <4>2
    <3> QED
      BY <2>3, <3>1, <3>2 DEF Follows
  <2> QED
    BY <1>6, <2>2, <2>3, <1>5 DEF AwayOf, Calm
<1>14. MigOf(i, r)'
  <2>1. CourseOf(r)
    BY DEF Follows
  <2> QED
    BY <2>1, <1>7, <1>8, <1>9, <1>10, <1>11, <1>12, <1>13 DEF MigOf
<1>15. \A h \in Homes : admitted[h] <= admitted[h]
  <2>1. \A h \in Homes : admitted[h] \in Int
    BY AdmittedNumbers DEF MigInv
  <2> QED
    BY <2>1
<1>16. \A h \in Homes, k \in Migrations \ {i}, step \in CallSteps : Asked(h, k, step)' => Asked(h, k, step)
  BY <1>5
<1>17. \A h \in Homes : admitted'[h] = admitted[h] /\ admitted[h] <= admitted'[h]
  BY <1>15
<1>18. /\ HasCommitted(mig[i]) => HasCommitted(r)
       /\ r.pc \in {"new", "planned"} => mig[i].pc \in {"new", "planned"}
  BY DEF Follows
<1> QED
  BY <1>14, <1>16, <1>17, <1>18, CalmStep

\* The clean-up of r from number k on: it goes to t.
LEMMA UndoFields ==
    ASSUME NEW i, NEW r \in MigRows, NEW k \in 1 .. 7, UndoFrom(i, r, k)
    PROVE  \E t \in MigRows :
              /\ mig' = [mig EXCEPT ![i] = t]
              /\ t.from = r.from /\ t.bad = r.bad /\ t.ans = "none"
              /\ \/ /\ t.pc = "failed" /\ ~t.begun /\ ~t.switched /\ ~t.started /\ ~t.committed /\ ~t.archived
                 \/ /\ t.pc \in UndoSteps
                    /\ t.begun = r.begun /\ t.switched = r.switched /\ t.started = r.started
                    /\ t.committed = r.committed /\ t.archived = r.archived
              /\ t.pc = "failed" => k > 5
              /\ k > 5 => t.pc \in {"again", "failed"}
              /\ k = 5 => t.pc = "unexport"
              /\ k = 4 => t.pc \in {"restart", "unexport"}
              /\ k = 3 => t.pc \in {"rollback", "restart", "unexport"}
              /\ k < 3 => t.pc \in {"halt", "unapply", "rollback", "restart", "unexport"}
              /\ t.pc = "halt" => r.started
              /\ t.pc = "unapply" => r.switched
              /\ t.pc = "rollback" => r.begun
              /\ k <= 3 /\ r.begun => t.pc \notin {"restart", "unexport"}
              /\ k <= 2 /\ r.switched => t.pc \in {"halt", "unapply"}
              /\ k = 2 => t.pc # "halt"
<1> DEFINE todo == {n \in k .. Len(UndoOrder) : Wanted(r, UndoOrder[n])}
           step == IF todo = {} THEN "failed" ELSE UndoOrder[CHOOSE n \in todo : \A m \in todo : n <= m]
<1>1. /\ Len(UndoOrder) = 6 /\ UndoOrder[1] = "halt" /\ UndoOrder[2] = "unapply" /\ UndoOrder[3] = "rollback"
      /\ UndoOrder[4] = "restart" /\ UndoOrder[5] = "unexport" /\ UndoOrder[6] = "again"
      /\ DOMAIN UndoOrder = 1 .. 6
  BY DEF UndoOrder
<1>2. /\ Wanted(r, "halt") = r.started /\ Wanted(r, "unapply") = r.switched /\ Wanted(r, "rollback") = r.begun
      /\ Wanted(r, "restart") = r.was /\ Wanted(r, "unexport") = TRUE
  BY DEF Wanted
<1>3. \/ todo = {} /\ step = "failed"
      \/ \E n \in todo : step = UndoOrder[n] /\ \A m \in todo : n <= m
  <2>1. ASSUME todo # {} PROVE \E n \in todo : \A m \in todo : n <= m
    <3>1. \A n \in todo : n \in {1, 2, 3, 4, 5, 6}
      BY <1>1
    <3> HIDE DEF todo
    <3>2. CASE 1 \in todo
      BY <3>1, <3>2
    <3>3. CASE 1 \notin todo /\ 2 \in todo
      BY <3>1, <3>3
    <3>4. CASE 1 \notin todo /\ 2 \notin todo /\ 3 \in todo
      BY <3>1, <3>4
    <3>5. CASE 1 \notin todo /\ 2 \notin todo /\ 3 \notin todo /\ 4 \in todo
      BY <3>1, <3>5
    <3>6. CASE 1 \notin todo /\ 2 \notin todo /\ 3 \notin todo /\ 4 \notin todo
      BY <2>1, <3>1, <3>6
    <3> QED
      BY <3>2, <3>3, <3>4, <3>5, <3>6
  <2> HIDE DEF todo
  <2> QED
    BY <2>1
<1>4. AtStep(i, r, step)
  BY DEF UndoFrom
<1>5. /\ step = "failed" \/ step \in {"halt", "unapply", "rollback", "restart", "unexport", "again"}
      /\ step = "failed" => k > 5
      /\ k > 5 => step \in {"again", "failed"}
      /\ k = 5 => step = "unexport"
      /\ k = 4 => step \in {"restart", "unexport"}
      /\ k = 3 => step \in {"rollback", "restart", "unexport"}
      /\ k < 3 => step \in {"halt", "unapply", "rollback", "restart", "unexport"}
      /\ step = "halt" => r.started
      /\ step = "unapply" => r.switched
      /\ step = "rollback" => r.begun
      /\ k <= 3 /\ r.begun => step \notin {"restart", "unexport"}
      /\ k <= 2 /\ r.switched => step \in {"halt", "unapply"}
      /\ k = 2 => step # "halt"
  <2>1. /\ 5 \in todo <=> k <= 5
        /\ 3 \in todo <=> k <= 3 /\ r.begun
        /\ 2 \in todo <=> k <= 2 /\ r.switched
        /\ 1 \in todo <=> k <= 1 /\ r.started
        /\ \A n \in todo : n \in {1, 2, 3, 4, 5, 6} /\ k <= n
    BY <1>1, <1>2
  <2> HIDE DEF todo, step
  <2>2. CASE todo = {} /\ step = "failed"
    BY <2>1, <2>2
  <2>3. ASSUME NEW n \in todo, step = UndoOrder[n], \A m \in todo : n <= m
        PROVE  <1>5
    BY <1>1, <2>1, <2>3
  <2> QED
    BY <1>3, <2>2, <2>3
<1> HIDE DEF step
<1>6. CASE step = "failed"
  <2> DEFINE t == [Fresh EXCEPT !.pc = step, !.from = r.from, !.bad = r.bad]
  <2>1. mig' = [mig EXCEPT ![i] = t]
    BY <1>4, <1>6 DEF AtStep
  <2>2. t \in MigRows
    <3>1. LastRevision \in Nat
      BY MigrationAssumption
    <3>2. 0 \in 0 .. LastRevision
      BY <3>1
    <3>3. r.from \in Homes /\ r.bad \in BOOLEAN /\ step \in OwnSteps
      BY <1>6 DEF MigRows, OwnSteps
    <3>4. "a" \in Homes
      BY DEF Homes
    <3> QED
      BY <3>2, <3>3, <3>4 DEF Fresh, MigRows
  <2>3. /\ t.from = r.from /\ t.bad = r.bad /\ t.ans = "none" /\ t.pc = "failed"
        /\ ~t.begun /\ ~t.switched /\ ~t.started /\ ~t.committed /\ ~t.archived
    BY <1>6 DEF Fresh
  <2> HIDE DEF t
  <2> QED
    BY <1>5, <1>6, <2>1, <2>2, <2>3
<1>7. CASE step \in {"halt", "unapply", "rollback", "restart", "unexport", "again"}
  <2> DEFINE t == [r EXCEPT !.pc = step, !.ans = "none"]
  <2>1. mig' = [mig EXCEPT ![i] = t]
    BY <1>4, <1>7 DEF AtStep
  <2>2. t \in MigRows
    BY <1>7 DEF MigRows, CallSteps, SourceSteps, TargetSteps, OwnSteps
  <2>3. /\ t.from = r.from /\ t.bad = r.bad /\ t.ans = "none" /\ t.pc = step
        /\ t.begun = r.begun /\ t.switched = r.switched /\ t.started = r.started
        /\ t.committed = r.committed /\ t.archived = r.archived
    BY DEF MigRows
  <2>4. step \in UndoSteps
    BY <1>1, <1>7 DEF UndoSteps
  <2> HIDE DEF t
  <2> QED
    BY <1>5, <1>7, <2>1, <2>2, <2>3, <2>4
<1> QED
  BY <1>5, <1>6, <1>7

LEMMA BreakTyped ==
    ASSUME MigTypeOK, NEW u, Break(u) \/ UNCHANGED breaks
    PROVE  breaks' \in 0 .. MaxBreaks
<1>1. MaxBreaks \in Nat /\ breaks \in 0 .. MaxBreaks
  BY MigrationAssumption DEF MigTypeOK
<1> QED
  BY <1>1 DEF Break

\* A step of the coordinator that only changes its migration.
LEMMA CoordinatorKeeps ==
    ASSUME MigInv, NEW i \in Migrations, NEW s, s = mig[i], NEW t \in MigRows, Follows(s, t),
           mig' = [mig EXCEPT ![i] = t],
           UNCHANGED <<diskVars, placeVars, runs, admitted, calls>>, breaks' \in 0 .. MaxBreaks
    PROVE  MigInv'
<1>1. MigTypeOK /\ mig \in [Migrations -> MigRows]
  BY MigTyped DEF MigInv
<1>2. mig' \in [Migrations -> MigRows]
  BY <1>1
<1>3. MigTypeOK'
  BY <1>1, <1>2 DEF MigTypeOK, MigRows, diskVars, placeVars
<1>4. Calm /\ UNCHANGED <<import, admitted, calls>>
  BY DEF Calm, diskVars, placeVars
<1> QED
  BY <1>3, <1>4, FollowStep

\* An error on the way forward is undone.
LEMMA UndoFollows ==
    ASSUME NEW i, NEW s \in MigRows, CourseOf(s),
           s.pc \in {"stop", "export", "begin", "fetch", "rebegin", "write", "commit", "apply", "launch", "decide"},
           NEW r \in MigRows, r.pc = s.pc, r.from = s.from, r.begun = s.begun, r.switched = s.switched,
           r.committed = s.committed, r.archived = s.archived, r.bad = s.bad, r.started => s.switched,
           Undo(i, r)
    PROVE  \E t \in MigRows : mig' = [mig EXCEPT ![i] = t] /\ Follows(s, t) /\ t.ans = "none" /\ (s.pc = "apply" => t.pc = "rollback")
<1>1. ~s.committed /\ ~s.archived /\ ~HasCommitted(s)
  BY DEF CourseOf, Forth, HasCommitted
<1>2. /\ s.pc \in {"launch", "decide"} => s.switched
      /\ s.pc \notin {"launch", "decide"} => ~s.switched
      /\ s.pc \in {"fetch", "rebegin", "write", "commit", "apply", "launch", "decide"} => s.begun
      /\ s.switched => s.begun
  BY DEF CourseOf, Switched, Early
<1>3. PICK k \in 1 .. 7 : UndoFrom(i, r, k) /\ k = IF s.pc \in {"stop", "export"} THEN 6 ELSE 1
  BY DEF Undo
<1>4. PICK t \in MigRows :
        /\ mig' = [mig EXCEPT ![i] = t]
        /\ t.from = r.from /\ t.bad = r.bad /\ t.ans = "none"
        /\ \/ /\ t.pc = "failed" /\ ~t.begun /\ ~t.switched /\ ~t.started /\ ~t.committed /\ ~t.archived
           \/ /\ t.pc \in UndoSteps
              /\ t.begun = r.begun /\ t.switched = r.switched /\ t.started = r.started
              /\ t.committed = r.committed /\ t.archived = r.archived
        /\ t.pc = "failed" => k > 5
        /\ k > 5 => t.pc \in {"again", "failed"}
        /\ k < 3 => t.pc \in {"halt", "unapply", "rollback", "restart", "unexport"}
        /\ t.pc = "halt" => r.started
        /\ t.pc = "unapply" => r.switched
        /\ t.pc = "rollback" => r.begun
        /\ k <= 3 /\ r.begun => t.pc \notin {"restart", "unexport"}
        /\ k <= 2 /\ r.switched => t.pc \in {"halt", "unapply"}
  BY <1>3, UndoFields
<1>5. CASE s.pc \in {"stop", "export"}
  <2>1. k = 6 /\ t.pc \in {"again", "failed"} /\ ~t.committed /\ ~t.archived
    BY <1>1, <1>3, <1>4, <1>5
  <2>2. CourseOf(t)
    <3>1. ~t.switched /\ ~t.started /\ t.ans = "none" /\ (t.pc = "failed" => ~t.begun)
      BY <1>2, <1>4, <1>5, <2>1 DEF UndoSteps, UndoOrder
    <3> QED
      BY <2>1, <3>1 DEF CourseOf, Switched, Early, Forth
  <2>3. /\ ~HasCommitted(t) /\ ~Exported(t) /\ ~Arrived(t) /\ ~Preparing(t) /\ t.pc \notin Switched /\ Preparing(s)
        /\ s.pc \notin Back \cup Switched /\ t.pc \in Back
    BY <1>4, <1>5, <2>1 DEF HasCommitted, Exported, Arrived, Preparing, Early, Switched, Back
  <2> QED
    BY <1>1, <1>4, <1>5, <2>1, <2>2, <2>3 DEF Follows
<1>6. CASE s.pc \in {"begin", "fetch", "rebegin", "write", "commit", "apply"}
  <2>1. k = 1 /\ t.pc \in {"rollback", "restart", "unexport"} /\ ~t.committed /\ ~t.archived /\ ~t.switched /\ ~t.started
        /\ (t.pc # "rollback" => s.pc = "begin") /\ (t.pc = "rollback" => t.begun)
    BY <1>1, <1>2, <1>3, <1>4, <1>6
  <2>2. t.ans = "none" /\ (t.pc = "rollback" => t.begun)
    BY <1>4, <2>1
  <2>4. CourseOf(t)
    BY <2>1, <2>2 DEF CourseOf, Switched, Early, Forth
  <2>3. /\ ~HasCommitted(t) /\ ~Exported(t) /\ ~Arrived(t) /\ ~Preparing(t) /\ t.pc \notin Switched
        /\ s.pc \notin Back \cup Switched /\ t.pc \in Back
        /\ RolledBack(t) => Preparing(s)
    BY <1>4, <1>6, <2>1 DEF HasCommitted, Exported, Arrived, Preparing, Early, Switched, Back, RolledBack
  <2> QED
    BY <1>1, <1>4, <1>6, <2>1, <2>2, <2>3, <2>4 DEF Follows
<1>7. CASE s.pc \in {"launch", "decide"}
  <2>1. k = 1 /\ t.pc \in {"halt", "unapply"} /\ ~t.committed /\ ~t.archived /\ t.switched /\ t.begun /\ t.ans = "none"
    BY <1>1, <1>2, <1>3, <1>4, <1>7
  <2>2. CourseOf(t)
    BY <2>1 DEF CourseOf, Switched, Early, Forth
  <2>3. /\ ~HasCommitted(t) /\ Exported(s) /\ Arrived(s) /\ ~Preparing(t) /\ t.pc \in Switched
        /\ s.pc \notin Back /\ s.pc \in Switched /\ ~RolledBack(t)
    BY <1>4, <1>7, <2>1 DEF HasCommitted, Exported, Arrived, Preparing, Early, Switched, Back, RolledBack
  <2> QED
    BY <1>1, <1>4, <1>7, <2>1, <2>2, <2>3 DEF Follows
<1> QED
  BY <1>5, <1>6, <1>7

\* The coordinator goes on to the next step, or ends.
LeadsTo(r, t, pc) ==
    /\ t.pc = pc /\ t.ans = "none" /\ t.from = r.from /\ t.begun = r.begun /\ t.switched = r.switched
    /\ t.started = r.started /\ t.committed = r.committed /\ t.archived = r.archived /\ t.bad = r.bad

Ends(r, t, pc) ==
    /\ t.pc = pc /\ t.ans = "none" /\ t.from = r.from /\ t.bad = r.bad
    /\ ~t.begun /\ ~t.switched /\ ~t.started /\ ~t.committed /\ ~t.archived

LEMMA StepTo ==
    ASSUME NEW i, NEW r \in MigRows, NEW pc \in (CallSteps \cup OwnSteps) \ {"ok", "failed"}, AtStep(i, r, pc)
    PROVE  \E t \in MigRows : mig' = [mig EXCEPT ![i] = t] /\ LeadsTo(r, t, pc)
<1> DEFINE t == [r EXCEPT !.pc = pc, !.ans = "none"]
<1>1. mig' = [mig EXCEPT ![i] = t]
  BY DEF AtStep
<1>2. t \in MigRows
  BY DEF MigRows
<1>3. LeadsTo(r, t, pc)
  BY DEF MigRows, LeadsTo
<1> HIDE DEF t
<1> QED
  BY <1>1, <1>2, <1>3

LEMMA StepEnds ==
    ASSUME NEW i, NEW r \in MigRows, NEW pc \in {"ok", "failed"}, AtStep(i, r, pc)
    PROVE  \E t \in MigRows : mig' = [mig EXCEPT ![i] = t] /\ Ends(r, t, pc)
<1> DEFINE t == [Fresh EXCEPT !.pc = pc, !.from = r.from, !.bad = r.bad]
<1>1. mig' = [mig EXCEPT ![i] = t]
  BY DEF AtStep
<1>2. t \in MigRows
  <2>1. LastRevision \in Nat
    BY MigrationAssumption
  <2>2. 0 \in 0 .. LastRevision
    BY <2>1
  <2>3. r.from \in Homes /\ r.bad \in BOOLEAN /\ "a" \in Homes
    BY DEF MigRows, Homes
  <2> QED
    BY <2>2, <2>3 DEF Fresh, MigRows, OwnSteps
<1>3. Ends(r, t, pc)
  BY DEF Fresh, Ends
<1> HIDE DEF t
<1> QED
  BY <1>1, <1>2, <1>3

LEMMA AtWork ==
    ASSUME MigInv, NEW i \in Migrations
    PROVE  mig[i] \in MigRows /\ MigOf(i, mig[i]) /\ CourseOf(mig[i])
  BY MigTyped DEF MigInv, MigOf

LEMMA TakeLeaseKeeps ==
    ASSUME MigInv, NEW i \in Migrations, TakeLease(i)
    PROVE  MigInv'
<1>1. /\ mig[i].pc = "planned" /\ AtStep(i, mig[i], "status")
      /\ UNCHANGED <<diskVars, placeVars, runs, admitted, calls, breaks>>
  BY DEF TakeLease
<1>2. PICK s \in MigRows : s = mig[i] /\ CourseOf(s)
  BY AtWork
<1>3. PICK t \in MigRows : mig' = [mig EXCEPT ![i] = t] /\ LeadsTo(s, t, "status")
  <2>1. "status" \in (CallSteps \cup OwnSteps) \ {"ok", "failed"} /\ AtStep(i, s, "status")
    BY <1>1, <1>2 DEF OwnSteps
  <2> QED
    BY <2>1, StepTo
<1>4. Follows(s, t)
  BY <1>1, <1>2, <1>3 DEF LeadsTo, Ends, Follows, CourseOf, HasCommitted, Exported, Arrived, Preparing, RolledBack, Early, Switched, Back, Forth
<1>5. breaks' \in 0 .. MaxBreaks
  BY <1>1, BreakTyped DEF MigInv
<1> QED
  BY <1>1, <1>2, <1>3, <1>4, <1>5, CoordinatorKeeps

LEMMA ReadStatusKeeps ==
    ASSUME MigInv, NEW i \in Migrations, ReadStatus(i)
    PROVE  MigInv'
<1>1. /\ mig[i].pc = "status" /\ UNCHANGED <<diskVars, placeVars, runs, admitted, calls>>
      /\ \/ AtStep(i, [mig[i] EXCEPT !.was = TRUE], "stop")
         \/ AtStep(i, mig[i], "export")
         \/ AtStep(i, mig[i], "failed")
      /\ Break(FALSE) \/ UNCHANGED breaks
  BY DEF ReadStatus
<1>2. PICK s \in MigRows : s = mig[i] /\ CourseOf(s)
  BY AtWork
<1>3. PICK t \in MigRows : mig' = [mig EXCEPT ![i] = t] /\ Follows(s, t)
  <2>1. CASE AtStep(i, [mig[i] EXCEPT !.was = TRUE], "stop")
    <3>1. PICK r \in MigRows : r = [s EXCEPT !.was = TRUE]
      BY DEF MigRows
    <3>2. /\ r.from = s.from /\ r.begun = s.begun /\ r.switched = s.switched
          /\ r.started = s.started /\ r.committed = s.committed /\ r.archived = s.archived /\ r.bad = s.bad
      BY <3>1 DEF MigRows
    <3>3. "stop" \in (CallSteps \cup OwnSteps) \ {"ok", "failed"} /\ AtStep(i, r, "stop")
      BY <1>2, <2>1, <3>1 DEF CallSteps, SourceSteps
    <3>4. PICK t \in MigRows : mig' = [mig EXCEPT ![i] = t] /\ LeadsTo(r, t, "stop")
      BY <3>3, StepTo
    <3>5. Follows(s, t)
      BY <1>1, <1>2, <3>2, <3>4 DEF LeadsTo, Ends, Follows, CourseOf, HasCommitted, Exported, Arrived, Preparing, RolledBack, Early, Switched, Back, Forth
    <3> QED
      BY <3>4, <3>5
  <2>2. CASE AtStep(i, mig[i], "export")
    <3>1. "export" \in (CallSteps \cup OwnSteps) \ {"ok", "failed"} /\ AtStep(i, s, "export")
      BY <1>2, <2>2 DEF CallSteps, SourceSteps
    <3>2. PICK t \in MigRows : mig' = [mig EXCEPT ![i] = t] /\ LeadsTo(s, t, "export")
      BY <3>1, StepTo
    <3>3. Follows(s, t)
      BY <1>1, <1>2, <3>2 DEF LeadsTo, Ends, Follows, CourseOf, HasCommitted, Exported, Arrived, Preparing, RolledBack, Early, Switched, Back, Forth
    <3> QED
      BY <3>2, <3>3
  <2>3. CASE AtStep(i, mig[i], "failed")
    <3>1. AtStep(i, s, "failed")
      BY <1>2, <2>3
    <3>2. PICK t \in MigRows : mig' = [mig EXCEPT ![i] = t] /\ Ends(s, t, "failed")
      BY <3>1, StepEnds
    <3>3. Follows(s, t)
      BY <1>1, <1>2, <3>2 DEF LeadsTo, Ends, Follows, CourseOf, HasCommitted, Exported, Arrived, Preparing, RolledBack, Early, Switched, Back, Forth
    <3> QED
      BY <3>2, <3>3
  <2> QED
    BY <1>1, <2>1, <2>2, <2>3
<1>4. breaks' \in 0 .. MaxBreaks
  BY <1>1, BreakTyped DEF MigInv
<1> QED
  BY <1>1, <1>2, <1>3, <1>4, CoordinatorKeeps

\* The flags a step may set on its way: r is s with one more flag.
LEMMA Flagged ==
    ASSUME NEW s \in MigRows
    PROVE  /\ \E r \in MigRows : /\ r = [s EXCEPT !.begun = TRUE]
                                 /\ r.pc = s.pc /\ r.from = s.from /\ r.begun /\ r.switched = s.switched /\ r.started = s.started
                                 /\ r.committed = s.committed /\ r.archived = s.archived /\ r.bad = s.bad
           /\ \E r \in MigRows : /\ r = [s EXCEPT !.started = TRUE]
                                 /\ r.pc = s.pc /\ r.from = s.from /\ r.begun = s.begun /\ r.switched = s.switched /\ r.started
                                 /\ r.committed = s.committed /\ r.archived = s.archived /\ r.bad = s.bad
           /\ \E r \in MigRows : /\ r = [s EXCEPT !.archived = TRUE]
                                 /\ r.pc = s.pc /\ r.from = s.from /\ r.begun = s.begun /\ r.switched = s.switched /\ r.started = s.started
                                 /\ r.committed = s.committed /\ r.archived /\ r.bad = s.bad
           /\ \E r \in MigRows : /\ r = [s EXCEPT !.bad = TRUE]
                                 /\ r.pc = s.pc /\ r.from = s.from /\ r.begun = s.begun /\ r.switched = s.switched /\ r.started = s.started
                                 /\ r.committed = s.committed /\ r.archived = s.archived /\ r.bad
<1>1. /\ [s EXCEPT !.begun = TRUE] \in MigRows /\ [s EXCEPT !.started = TRUE] \in MigRows
      /\ [s EXCEPT !.archived = TRUE] \in MigRows /\ [s EXCEPT !.bad = TRUE] \in MigRows
  BY DEF MigRows
<1>2. \A r \in MigRows : r = [s EXCEPT !.begun = TRUE] =>
         /\ r.pc = s.pc /\ r.from = s.from /\ r.begun /\ r.switched = s.switched /\ r.started = s.started
         /\ r.committed = s.committed /\ r.archived = s.archived /\ r.bad = s.bad
  BY DEF MigRows
<1>3. \A r \in MigRows : r = [s EXCEPT !.started = TRUE] =>
         /\ r.pc = s.pc /\ r.from = s.from /\ r.begun = s.begun /\ r.switched = s.switched /\ r.started
         /\ r.committed = s.committed /\ r.archived = s.archived /\ r.bad = s.bad
  BY DEF MigRows
<1>4. \A r \in MigRows : r = [s EXCEPT !.archived = TRUE] =>
         /\ r.pc = s.pc /\ r.from = s.from /\ r.begun = s.begun /\ r.switched = s.switched /\ r.started = s.started
         /\ r.committed = s.committed /\ r.archived /\ r.bad = s.bad
  BY DEF MigRows
<1>5. \A r \in MigRows : r = [s EXCEPT !.bad = TRUE] =>
         /\ r.pc = s.pc /\ r.from = s.from /\ r.begun = s.begun /\ r.switched = s.switched /\ r.started = s.started
         /\ r.committed = s.committed /\ r.archived = s.archived /\ r.bad
  BY DEF MigRows
<1> QED
  BY <1>1, <1>2, <1>3, <1>4, <1>5

\* A step of the way forward, to the next step or to the end.
LEMMA ForwardFollows ==
    ASSUME NEW s \in MigRows, CourseOf(s), s.ans = "ok", NEW t \in MigRows,
           \/ LeadsTo(s, t, "export") /\ s.pc = "stop"
           \/ LeadsTo(s, t, "begin") /\ s.pc = "export"
           \/ LeadsTo(s, t, "write") /\ s.pc = "rebegin"
           \/ LeadsTo(s, t, "commit") /\ s.pc \in {"fetch", "write"}
           \/ LeadsTo(s, t, "apply") /\ s.pc = "commit"
           \/ LeadsTo(s, t, "retire") /\ s.pc = "complete"
           \/ LeadsTo(s, t, "release") /\ s.pc \in {"complete", "retire"}
           \/ Ends(s, t, "ok") /\ s.pc = "release"
    PROVE  Follows(s, t)
<1>1. CASE LeadsTo(s, t, "export") /\ s.pc = "stop"
  BY <1>1 DEF LeadsTo, Follows, CourseOf, HasCommitted, Exported, Arrived, Preparing, RolledBack, Early, Switched, Back, Forth
<1>2. CASE LeadsTo(s, t, "begin") /\ s.pc = "export"
  BY <1>2 DEF LeadsTo, Follows, CourseOf, HasCommitted, Exported, Arrived, Preparing, RolledBack, Early, Switched, Back, Forth
<1>3. CASE LeadsTo(s, t, "write") /\ s.pc = "rebegin"
  BY <1>3 DEF LeadsTo, Follows, CourseOf, HasCommitted, Exported, Arrived, Preparing, RolledBack, Early, Switched, Back, Forth
<1>4. CASE LeadsTo(s, t, "commit") /\ s.pc \in {"fetch", "write"}
  BY <1>4 DEF LeadsTo, Follows, CourseOf, HasCommitted, Exported, Arrived, Preparing, RolledBack, Early, Switched, Back, Forth
<1>5. CASE LeadsTo(s, t, "apply") /\ s.pc = "commit"
  BY <1>5 DEF LeadsTo, Follows, CourseOf, HasCommitted, Exported, Arrived, Preparing, RolledBack, Early, Switched, Back, Forth
<1>6. CASE LeadsTo(s, t, "retire") /\ s.pc = "complete"
  BY <1>6 DEF LeadsTo, Follows, CourseOf, HasCommitted, Exported, Arrived, Preparing, RolledBack, Early, Switched, Back, Forth
<1>7. CASE LeadsTo(s, t, "release") /\ s.pc \in {"complete", "retire"}
  BY <1>7 DEF LeadsTo, Follows, CourseOf, HasCommitted, Exported, Arrived, Preparing, RolledBack, Early, Switched, Back, Forth
<1>8. CASE Ends(s, t, "ok") /\ s.pc = "release"
  BY <1>8 DEF Ends, Follows, CourseOf, HasCommitted, Exported, Arrived, Preparing, RolledBack, Early, Switched, Back, Forth
<1> QED
  BY <1>1, <1>2, <1>3, <1>4, <1>5, <1>6, <1>7, <1>8

LEMMA ForwardKeeps ==
    ASSUME MigInv, NEW i \in Migrations, Forward(i)
    PROVE  MigInv'
<1>1. PICK s \in MigRows : s = mig[i] /\ CourseOf(s)
  BY AtWork
<1>2. /\ s.ans = "ok" /\ UNCHANGED <<diskVars, placeVars, runs, admitted, calls, breaks>>
      /\ \/ s.pc = "stop" /\ AtStep(i, s, "export")
         \/ s.pc = "export" /\ AtStep(i, s, "begin")
         \/ s.pc = "begin" /\ \E step \in {"fetch", "write"} : AtStep(i, [s EXCEPT !.begun = TRUE], step)
         \/ s.pc = "rebegin" /\ AtStep(i, s, "write")
         \/ s.pc \in {"fetch", "write"} /\ AtStep(i, s, "commit")
         \/ s.pc = "commit" /\ AtStep(i, s, "apply")
         \/ s.pc = "launch" /\ AtStep(i, [s EXCEPT !.started = TRUE], "decide")
         \/ s.pc = "finalize" /\ AtStep(i, [s EXCEPT !.archived = TRUE], "complete")
         \/ s.pc = "complete" /\ (AtStep(i, s, "retire") \/ AtStep(i, s, "release"))
         \/ s.pc = "retire" /\ AtStep(i, s, "release")
         \/ s.pc = "release" /\ AtStep(i, s, "ok")
  BY <1>1 DEF Forward
<1>3. {"export", "begin", "fetch", "write", "commit", "apply", "decide", "complete", "retire", "release"}
         \subseteq (CallSteps \cup OwnSteps) \ {"ok", "failed"}
  BY DEF CallSteps, SourceSteps, TargetSteps, OwnSteps
<1>4. PICK t \in MigRows : mig' = [mig EXCEPT ![i] = t] /\ Follows(s, t)
  <2>1. ASSUME NEW step \in {"export", "begin", "write", "commit", "apply", "retire", "release"}, AtStep(i, s, step)
        PROVE  \E t \in MigRows : mig' = [mig EXCEPT ![i] = t] /\ LeadsTo(s, t, step)
    BY <1>3, <2>1, StepTo
  <2>2. CASE s.pc = "begin" /\ \E step \in {"fetch", "write"} : AtStep(i, [s EXCEPT !.begun = TRUE], step)
    <3>1. PICK r \in MigRows :
             /\ r = [s EXCEPT !.begun = TRUE]
             /\ r.pc = s.pc /\ r.from = s.from /\ r.begun /\ r.switched = s.switched /\ r.started = s.started
             /\ r.committed = s.committed /\ r.archived = s.archived /\ r.bad = s.bad
      BY Flagged
    <3>2. PICK step \in {"fetch", "write"} : AtStep(i, r, step)
      BY <2>2, <3>1
    <3>3. PICK t \in MigRows : mig' = [mig EXCEPT ![i] = t] /\ LeadsTo(r, t, step)
      BY <1>3, <3>2, StepTo
    <3>4. Follows(s, t)
      BY <1>1, <2>2, <3>1, <3>3 DEF LeadsTo, Follows, CourseOf, HasCommitted, Exported, Arrived, Preparing, RolledBack, Early, Switched, Back, Forth
    <3> QED
      BY <3>3, <3>4
  <2>3. CASE s.pc = "launch" /\ AtStep(i, [s EXCEPT !.started = TRUE], "decide")
    <3>1. PICK r \in MigRows :
             /\ r = [s EXCEPT !.started = TRUE]
             /\ r.pc = s.pc /\ r.from = s.from /\ r.begun = s.begun /\ r.switched = s.switched /\ r.started
             /\ r.committed = s.committed /\ r.archived = s.archived /\ r.bad = s.bad
      BY Flagged
    <3>2. AtStep(i, r, "decide")
      BY <2>3, <3>1
    <3>3. PICK t \in MigRows : mig' = [mig EXCEPT ![i] = t] /\ LeadsTo(r, t, "decide")
      BY <1>3, <3>2, StepTo
    <3>4. Follows(s, t)
      BY <1>1, <2>3, <3>1, <3>3 DEF LeadsTo, Follows, CourseOf, HasCommitted, Exported, Arrived, Preparing, RolledBack, Early, Switched, Back, Forth
    <3> QED
      BY <3>3, <3>4
  <2>4. CASE s.pc = "finalize" /\ AtStep(i, [s EXCEPT !.archived = TRUE], "complete")
    <3>1. PICK r \in MigRows :
             /\ r = [s EXCEPT !.archived = TRUE]
             /\ r.pc = s.pc /\ r.from = s.from /\ r.begun = s.begun /\ r.switched = s.switched /\ r.started = s.started
             /\ r.committed = s.committed /\ r.archived /\ r.bad = s.bad
      BY Flagged
    <3>2. AtStep(i, r, "complete")
      BY <2>4, <3>1
    <3>3. PICK t \in MigRows : mig' = [mig EXCEPT ![i] = t] /\ LeadsTo(r, t, "complete")
      BY <1>3, <3>2, StepTo
    <3>4. Follows(s, t)
      BY <1>1, <1>2, <2>4, <3>1, <3>3 DEF LeadsTo, Follows, CourseOf, HasCommitted, Exported, Arrived, Preparing, RolledBack, Early, Switched, Back, Forth
    <3> QED
      BY <3>3, <3>4
  <2>5. ASSUME s.pc = "release", AtStep(i, s, "ok")
        PROVE  \E t \in MigRows : mig' = [mig EXCEPT ![i] = t] /\ Ends(s, t, "ok")
    BY <2>5, StepEnds
  <2>6. CASE \/ s.pc = "stop" /\ AtStep(i, s, "export")
             \/ s.pc = "export" /\ AtStep(i, s, "begin")
             \/ s.pc = "rebegin" /\ AtStep(i, s, "write")
             \/ s.pc \in {"fetch", "write"} /\ AtStep(i, s, "commit")
             \/ s.pc = "commit" /\ AtStep(i, s, "apply")
             \/ s.pc = "complete" /\ (AtStep(i, s, "retire") \/ AtStep(i, s, "release"))
             \/ s.pc = "retire" /\ AtStep(i, s, "release")
    <3>1. \E t \in MigRows : /\ mig' = [mig EXCEPT ![i] = t]
                             /\ \/ LeadsTo(s, t, "export") /\ s.pc = "stop"
                                \/ LeadsTo(s, t, "begin") /\ s.pc = "export"
                                \/ LeadsTo(s, t, "write") /\ s.pc = "rebegin"
                                \/ LeadsTo(s, t, "commit") /\ s.pc \in {"fetch", "write"}
                                \/ LeadsTo(s, t, "apply") /\ s.pc = "commit"
                                \/ LeadsTo(s, t, "retire") /\ s.pc = "complete"
                                \/ LeadsTo(s, t, "release") /\ s.pc \in {"complete", "retire"}
      BY <2>1, <2>6
    <3> QED
      BY <1>1, <1>2, <3>1, ForwardFollows
  <2>7. CASE s.pc = "release" /\ AtStep(i, s, "ok")
    BY <1>1, <1>2, <2>5, <2>7, ForwardFollows
  <2> QED
    BY <1>2, <2>2, <2>3, <2>4, <2>6, <2>7
<1>5. breaks' \in 0 .. MaxBreaks
  BY <1>2, BreakTyped DEF MigInv
<1> QED
  BY <1>1, <1>2, <1>4, <1>5, CoordinatorKeeps

LEMMA NotRunningKeeps ==
    ASSUME MigInv, NEW i \in Migrations, NotRunning(i)
    PROVE  MigInv'
<1>1. PICK s \in MigRows : s = mig[i] /\ CourseOf(s)
  BY AtWork
<1>2. /\ s.pc = "launch" /\ Undo(i, [s EXCEPT !.started = TRUE]) /\ Break(FALSE)
      /\ UNCHANGED <<diskVars, placeVars, runs, admitted, calls>>
  BY <1>1 DEF NotRunning
<1>3. PICK r \in MigRows :
         /\ r = [s EXCEPT !.started = TRUE]
         /\ r.pc = s.pc /\ r.from = s.from /\ r.begun = s.begun /\ r.switched = s.switched /\ r.started
         /\ r.committed = s.committed /\ r.archived = s.archived /\ r.bad = s.bad
  BY Flagged
<1>4. s.switched /\ Undo(i, r)
  BY <1>1, <1>2, <1>3 DEF CourseOf, Switched
<1>5. PICK t \in MigRows : mig' = [mig EXCEPT ![i] = t] /\ Follows(s, t)
  <2>1. r.started => s.switched
    BY <1>4
  <2>2. s.pc \in {"stop", "export", "begin", "fetch", "rebegin", "write", "commit", "apply", "launch", "decide"}
    BY <1>2
  <2>3. CourseOf(s) /\ r \in MigRows /\ Undo(i, r)
    BY <1>1, <1>4
  <2>4. /\ r.pc = s.pc /\ r.from = s.from /\ r.begun = s.begun /\ r.switched = s.switched
        /\ r.committed = s.committed /\ r.archived = s.archived /\ r.bad = s.bad
    BY <1>3
  <2> QED
    BY ONLY <2>1, <2>2, <2>3, <2>4, UndoFollows, s \in MigRows
<1>6. breaks' \in 0 .. MaxBreaks
  BY <1>2, BreakTyped DEF MigInv
<1> QED
  BY <1>1, <1>2, <1>5, <1>6, CoordinatorKeeps

LEMMA FetchFailedKeeps ==
    ASSUME MigInv, NEW i \in Migrations, FetchFailed(i)
    PROVE  MigInv'
<1>1. PICK s \in MigRows : s = mig[i] /\ CourseOf(s)
  BY AtWork
<1>2. /\ s.pc = "fetch" /\ s.ans \in {"none", "failed"} /\ AtStep(i, s, "rebegin") /\ Break(s.ans = "failed")
      /\ UNCHANGED <<diskVars, placeVars, runs, admitted, calls>>
  BY <1>1 DEF FetchFailed
<1>3. PICK t \in MigRows : mig' = [mig EXCEPT ![i] = t] /\ LeadsTo(s, t, "rebegin")
  <2>1. "rebegin" \in (CallSteps \cup OwnSteps) \ {"ok", "failed"}
    BY DEF CallSteps, TargetSteps
  <2> QED
    BY <1>2, <2>1, StepTo
<1>4. Follows(s, t)
  BY <1>1, <1>2, <1>3 DEF LeadsTo, Follows, CourseOf, HasCommitted, Exported, Arrived, Preparing, RolledBack, Early, Switched, Back, Forth
<1>5. breaks' \in 0 .. MaxBreaks
  BY <1>2, BreakTyped DEF MigInv
<1> QED
  BY <1>1, <1>2, <1>3, <1>4, <1>5, CoordinatorKeeps

\* An error of the cleanup's last step, and the warnings after the commit.
LEMMA WarnFollows ==
    ASSUME NEW i, NEW s \in MigRows, CourseOf(s),
           \/ s.pc = "again" /\ AtStep(i, [s EXCEPT !.bad = TRUE], "failed")
           \/ s.pc = "finalize" /\ AtStep(i, [s EXCEPT !.bad = TRUE], "complete")
           \/ /\ s.pc = "complete"
              /\ AtStep(i, [s EXCEPT !.bad = TRUE], "retire") \/ AtStep(i, [s EXCEPT !.bad = TRUE], "release")
           \/ s.pc = "retire" /\ AtStep(i, [s EXCEPT !.bad = TRUE], "release")
           \/ s.pc = "release" /\ AtStep(i, [s EXCEPT !.bad = TRUE], "unexport")
    PROVE  \E t \in MigRows : mig' = [mig EXCEPT ![i] = t] /\ Follows(s, t)
<1>1. PICK r \in MigRows :
         /\ r = [s EXCEPT !.bad = TRUE]
         /\ r.pc = s.pc /\ r.from = s.from /\ r.begun = s.begun /\ r.switched = s.switched /\ r.started = s.started
         /\ r.committed = s.committed /\ r.archived = s.archived /\ r.bad
  BY Flagged
<1>2. {"complete", "retire", "release", "unexport"} \subseteq (CallSteps \cup OwnSteps) \ {"ok", "failed"}
  BY DEF CallSteps, SourceSteps, TargetSteps
<1>3. CASE s.pc = "again" /\ AtStep(i, r, "failed")
  <2>1. PICK t \in MigRows : mig' = [mig EXCEPT ![i] = t] /\ Ends(r, t, "failed")
    BY <1>3, StepEnds
  <2>2. Follows(s, t)
    BY <1>1, <1>3, <2>1 DEF Ends, Follows, CourseOf, HasCommitted, Exported, Arrived, Preparing, RolledBack, Early, Switched, Back, Forth
  <2> QED
    BY <2>1, <2>2
<1>4. ASSUME NEW pc \in {"complete", "retire", "release", "unexport"}, AtStep(i, r, pc),
             s.pc \in {"finalize", "complete", "retire", "release"},
             s.pc = "finalize" <=> pc = "complete"
      PROVE  \E t \in MigRows : mig' = [mig EXCEPT ![i] = t] /\ Follows(s, t)
  <2>1. PICK t \in MigRows : mig' = [mig EXCEPT ![i] = t] /\ LeadsTo(r, t, pc)
    BY <1>2, <1>4, StepTo
  <2>2. Follows(s, t)
    BY <1>1, <1>4, <2>1 DEF LeadsTo, Follows, CourseOf, HasCommitted, Exported, Arrived, Preparing, RolledBack, Early, Switched, Back, Forth
  <2> QED
    BY <2>1, <2>2
<1> QED
  BY <1>1, <1>3, <1>4

LEMMA RenewFailsKeeps ==
    ASSUME MigInv, NEW i \in Migrations, RenewFails(i)
    PROVE  MigInv'
<1>1. PICK s \in MigRows : s = mig[i] /\ CourseOf(s)
  BY AtWork
<1>2. /\ s.pc \in {"write", "commit", "launch", "again"} /\ Break(~Held(i))
      /\ IF s.pc = "again" THEN AtStep(i, [s EXCEPT !.bad = TRUE], "failed") ELSE Undo(i, s)
      /\ UNCHANGED <<diskVars, placeVars, runs, admitted, calls>>
  BY <1>1 DEF RenewFails, Renewed
<1>3. PICK t \in MigRows : mig' = [mig EXCEPT ![i] = t] /\ Follows(s, t)
  <2>1. CASE s.pc = "again"
    BY <1>1, <1>2, <2>1, WarnFollows
  <2>2. CASE s.pc \in {"write", "commit", "launch"}
    <3>1. s.started => s.switched
      BY <1>1 DEF CourseOf
    <3> QED
      BY <1>1, <1>2, <2>2, <3>1, UndoFollows
  <2> QED
    BY <1>2, <2>1, <2>2
<1>4. breaks' \in 0 .. MaxBreaks
  BY <1>2, BreakTyped DEF MigInv
<1> QED
  BY <1>1, <1>2, <1>3, <1>4, CoordinatorKeeps

LEMMA CallFailsKeeps ==
    ASSUME MigInv, NEW i \in Migrations, CallFails(i)
    PROVE  MigInv'
<1>1. PICK s \in MigRows : s = mig[i] /\ CourseOf(s)
  BY AtWork
<1>2. UNCHANGED <<diskVars, placeVars, runs, admitted, calls>> /\ (Break(FALSE) \/ UNCHANGED breaks)
  BY DEF CallFails, GivesUp
<1>3. \/ s.pc \in CallSteps \ (UndoSteps \cup {"finalize", "complete", "retire", "release"}) /\ Undo(i, s)
      \/ s.pc = "finalize" /\ AtStep(i, [s EXCEPT !.bad = TRUE], "complete")
      \/ /\ s.pc = "complete"
         /\ AtStep(i, [s EXCEPT !.bad = TRUE], "retire") \/ AtStep(i, [s EXCEPT !.bad = TRUE], "release")
      \/ s.pc = "retire" /\ AtStep(i, [s EXCEPT !.bad = TRUE], "release")
      \/ s.pc = "release" /\ AtStep(i, [s EXCEPT !.bad = TRUE], "unexport")
  BY <1>1 DEF CallFails
<1>4. PICK t \in MigRows : mig' = [mig EXCEPT ![i] = t] /\ Follows(s, t)
  <2>1. CASE s.pc \in CallSteps \ (UndoSteps \cup {"finalize", "complete", "retire", "release"}) /\ Undo(i, s)
    <3>1. {"halt", "rollback", "restart", "unexport", "again"} \subseteq UndoSteps
      <4>1. /\ UndoOrder[1] = "halt" /\ UndoOrder[3] = "rollback" /\ UndoOrder[4] = "restart"
            /\ UndoOrder[5] = "unexport" /\ UndoOrder[6] = "again" /\ DOMAIN UndoOrder = 1 .. 6
        BY DEF UndoOrder
      <4> QED
        BY <4>1 DEF UndoSteps
    <3>2. s.pc \in {"stop", "export", "begin", "fetch", "rebegin", "write", "commit", "apply", "launch", "decide"}
      BY <2>1, <3>1 DEF CallSteps, SourceSteps, TargetSteps
    <3>3. s.started => s.switched
      BY <1>1 DEF CourseOf
    <3> QED
      BY <1>1, <2>1, <3>2, <3>3, UndoFollows
  <2>2. CASE \/ s.pc = "finalize" /\ AtStep(i, [s EXCEPT !.bad = TRUE], "complete")
             \/ /\ s.pc = "complete"
                /\ AtStep(i, [s EXCEPT !.bad = TRUE], "retire") \/ AtStep(i, [s EXCEPT !.bad = TRUE], "release")
             \/ s.pc = "retire" /\ AtStep(i, [s EXCEPT !.bad = TRUE], "release")
             \/ s.pc = "release" /\ AtStep(i, [s EXCEPT !.bad = TRUE], "unexport")
    BY <1>1, <2>2, WarnFollows
  <2> QED
    BY <1>3, <2>1, <2>2
<1>5. breaks' \in 0 .. MaxBreaks
  BY <1>2, BreakTyped DEF MigInv
<1> QED
  BY <1>1, <1>2, <1>4, <1>5, CoordinatorKeeps

\* The next step of the cleanup, and its end.
LEMMA UndoStepFollows ==
    ASSUME NEW i, NEW s \in MigRows, CourseOf(s), s.pc \in {"halt", "rollback", "restart", "unexport", "again"},
           ~s.committed, NEW r \in MigRows, r.pc = s.pc, r.from = s.from, r.begun = s.begun, r.switched = s.switched,
           r.started = s.started, r.committed = s.committed, r.archived = s.archived, r.bad \/ (s.ans = "ok" /\ ~s.bad),
           UndoFrom(i, r, After(s.pc))
    PROVE  \E t \in MigRows : mig' = [mig EXCEPT ![i] = t] /\ Follows(s, t)
<1>1. /\ After("halt") = 2 /\ After("rollback") = 4 /\ After("restart") = 5 /\ After("unexport") = 6 /\ After("again") = 7
  <2>1. /\ UndoOrder[1] = "halt" /\ UndoOrder[2] = "unapply" /\ UndoOrder[3] = "rollback"
        /\ UndoOrder[4] = "restart" /\ UndoOrder[5] = "unexport" /\ UndoOrder[6] = "again"
        /\ DOMAIN UndoOrder = 1 .. 6
    BY DEF UndoOrder
  <2>2. /\ \A k \in DOMAIN UndoOrder : UndoOrder[k] = "halt" <=> k = 1
        /\ \A k \in DOMAIN UndoOrder : UndoOrder[k] = "rollback" <=> k = 3
        /\ \A k \in DOMAIN UndoOrder : UndoOrder[k] = "restart" <=> k = 4
        /\ \A k \in DOMAIN UndoOrder : UndoOrder[k] = "unexport" <=> k = 5
        /\ \A k \in DOMAIN UndoOrder : UndoOrder[k] = "again" <=> k = 6
    BY <2>1
  <2>3. 1 \in DOMAIN UndoOrder /\ 3 \in DOMAIN UndoOrder /\ 4 \in DOMAIN UndoOrder /\ 5 \in DOMAIN UndoOrder /\ 6 \in DOMAIN UndoOrder
    BY <2>1
  <2> QED
    BY <2>2, <2>3 DEF After
<1>2. PICK k \in 1 .. 7 : k = After(s.pc) /\ UndoFrom(i, r, k)
  BY <1>1
<1>3. PICK t \in MigRows :
        /\ mig' = [mig EXCEPT ![i] = t]
        /\ t.from = r.from /\ t.bad = r.bad /\ t.ans = "none"
        /\ \/ /\ t.pc = "failed" /\ ~t.begun /\ ~t.switched /\ ~t.started /\ ~t.committed /\ ~t.archived
           \/ /\ t.pc \in UndoSteps
              /\ t.begun = r.begun /\ t.switched = r.switched /\ t.started = r.started
              /\ t.committed = r.committed /\ t.archived = r.archived
        /\ t.pc = "failed" => k > 5
        /\ k > 5 => t.pc \in {"again", "failed"}
        /\ k = 5 => t.pc = "unexport"
        /\ k = 4 => t.pc \in {"restart", "unexport"}
        /\ k < 3 => t.pc \in {"halt", "unapply", "rollback", "restart", "unexport"}
        /\ k <= 2 /\ r.switched => t.pc \in {"halt", "unapply"}
        /\ k = 2 => t.pc # "halt"
  BY <1>2, UndoFields
<1>4. ~s.archived /\ (s.started => s.switched) /\ (s.switched => s.begun) /\ (s.pc = "halt" => s.switched)
  BY DEF CourseOf, Switched
<1>5. /\ ~t.committed /\ ~t.archived /\ (t.started => t.switched) /\ (t.switched => t.begun)
      /\ (t.pc = "failed" => ~t.begun /\ ~t.switched)
  <2>1. CASE /\ t.pc = "failed" /\ ~t.begun /\ ~t.switched /\ ~t.started /\ ~t.committed /\ ~t.archived
    BY <2>1
  <2>2. CASE /\ t.pc \in UndoSteps
             /\ t.begun = r.begun /\ t.switched = r.switched /\ t.started = r.started
             /\ t.committed = r.committed /\ t.archived = r.archived
    <3>1. /\ UndoOrder[1] = "halt" /\ UndoOrder[2] = "unapply" /\ UndoOrder[3] = "rollback" /\ UndoOrder[4] = "restart"
          /\ UndoOrder[5] = "unexport" /\ UndoOrder[6] = "again" /\ DOMAIN UndoOrder = 1 .. 6
      BY DEF UndoOrder
    <3>2. \A n \in 1 .. 6 : n \in {1, 2, 3, 4, 5, 6}
      OBVIOUS
    <3>3. "failed" \notin UndoSteps
      BY <3>1, <3>2 DEF UndoSteps
    <3>4. /\ t.begun = s.begun /\ t.switched = s.switched /\ t.started = s.started
          /\ t.committed = s.committed /\ t.archived = s.archived
      BY <2>2
    <3> QED
      BY <1>4, <2>2, <3>3, <3>4
  <2> QED
    BY <1>3, <2>1, <2>2
<1>6. CASE s.pc = "halt"
  <2>1. t.pc = "unapply" /\ t.switched /\ t.begun
    BY <1>1, <1>2, <1>3, <1>4, <1>6
  <2>2. CourseOf(t)
    BY <1>3, <1>5, <2>1 DEF CourseOf, Switched, Early, Forth
  <2> QED
    BY <1>3, <1>5, <1>6, <2>1, <2>2 DEF Follows, HasCommitted, Exported, Arrived, Preparing, RolledBack, Early, Switched, Back
<1>7. CASE s.pc # "halt"
  <2>1. t.pc \in {"restart", "unexport", "again", "failed"}
    BY <1>1, <1>2, <1>3, <1>7
  <2>2. CourseOf(t)
    BY <1>3, <1>5, <2>1 DEF CourseOf, Switched, Early, Forth
  <2>3. t.from = s.from /\ t.ans = "none" /\ (~t.bad => s.ans = "ok" /\ ~s.bad)
    BY <1>3
  <2> QED
    BY <1>3, <1>5, <1>7, <2>1, <2>2, <2>3 DEF Follows, HasCommitted, Exported, Arrived, Preparing, RolledBack, Early, Switched, Back
<1> QED
  BY <1>6, <1>7

LEMMA UndoStepKeeps ==
    ASSUME MigInv, NEW i \in Migrations, UndoStep(i)
    PROVE  MigInv'
<1>1. PICK s \in MigRows : s = mig[i] /\ CourseOf(s)
  BY AtWork
<1>2. UNCHANGED <<diskVars, placeVars, runs, admitted, calls>> /\ (Break(FALSE) \/ UNCHANGED breaks)
  BY DEF UndoStep, GivesUp
<1> DEFINE r == [s EXCEPT !.bad = @ \/ s.ans # "ok", !.restored = @ \/ (s.pc = "restart" /\ s.ans = "ok")]
<1>3. IF r.committed THEN AtStep(i, r, "ok") ELSE UndoFrom(i, r, After(r.pc))
  BY <1>1 DEF UndoStep
<1>4. s.pc \in {"halt", "rollback", "restart", "unexport", "again"}
  <2>1. /\ UndoOrder[1] = "halt" /\ UndoOrder[2] = "unapply" /\ UndoOrder[3] = "rollback" /\ UndoOrder[4] = "restart"
        /\ UndoOrder[5] = "unexport" /\ UndoOrder[6] = "again" /\ DOMAIN UndoOrder = 1 .. 6
    BY DEF UndoOrder
  <2>2. \A k \in 1 .. 6 : k \in {1, 2, 3, 4, 5, 6}
    OBVIOUS
  <2>3. UndoSteps \ {"unapply"} \subseteq {"halt", "rollback", "restart", "unexport", "again"}
    BY <2>1, <2>2 DEF UndoSteps
  <2> QED
    BY <1>1, <2>3 DEF UndoStep
<1>5. /\ r \in MigRows /\ r.pc = s.pc /\ r.from = s.from /\ r.begun = s.begun /\ r.switched = s.switched
      /\ r.started = s.started /\ r.committed = s.committed /\ r.archived = s.archived
      /\ r.bad \/ (s.ans = "ok" /\ ~s.bad)
      /\ s.bad => r.bad
  BY DEF MigRows
<1> HIDE DEF r
<1>6. PICK t \in MigRows : mig' = [mig EXCEPT ![i] = t] /\ Follows(s, t)
  <2>1. CASE s.committed
    <3>1. s.pc = "unexport" /\ s.bad /\ AtStep(i, r, "ok")
      BY <1>1, <1>3, <1>4, <1>5, <2>1 DEF CourseOf, Forth
    <3>2. PICK t \in MigRows : mig' = [mig EXCEPT ![i] = t] /\ Ends(r, t, "ok")
      BY <1>5, <3>1, StepEnds
    <3>3. Follows(s, t)
      BY <1>1, <1>5, <2>1, <3>1, <3>2 DEF Ends, Follows, CourseOf, HasCommitted, Exported, Arrived, Preparing, RolledBack, Early, Switched, Back, Forth
    <3> QED
      BY <3>2, <3>3
  <2>2. CASE ~s.committed
    <3>1. UndoFrom(i, r, After(s.pc))
      BY <1>3, <1>5, <2>2
    <3> QED
      BY <1>1, <1>4, <1>5, <2>2, <3>1, UndoStepFollows
  <2> QED
    BY <2>1, <2>2
<1>7. breaks' \in 0 .. MaxBreaks
  BY <1>2, BreakTyped DEF MigInv
<1> QED
  BY <1>1, <1>2, <1>6, <1>7, CoordinatorKeeps

LEMMA AdmittedSame ==
    ASSUME MigTypeOK, UNCHANGED admitted
    PROVE  \A h \in Homes : admitted'[h] = admitted[h] /\ admitted[h] <= admitted'[h]
<1>1. \A h \in Homes : admitted[h] \in Int
  BY AdmittedNumbers
<1> QED
  BY <1>1

LEMMA PlanMigrationKeeps ==
    ASSUME MigInv, NEW i \in Migrations, PlanMigration(i)
    PROVE  MigInv'
<1>1. PICK s \in MigRows : s = mig[i] /\ CourseOf(s) /\ MigOf(i, s)
  BY AtWork
<1>2. MigTypeOK /\ mig \in [Migrations -> MigRows]
  BY MigTyped DEF MigInv
<1>3. PICK r \in MigRows : r = [s EXCEPT !.pc = "planned", !.from = placed, !.rev = revision]
  BY <1>2 DEF MigTypeOK, MigRows, OwnSteps
<1>4. /\ r.pc = "planned" /\ r.begun = s.begun /\ r.switched = s.switched /\ r.started = s.started
      /\ r.committed = s.committed /\ r.archived = s.archived /\ r.bad = s.bad /\ r.ans = s.ans
  BY <1>3 DEF MigRows
<1>5. /\ s.pc = "new" /\ mig' = [mig EXCEPT ![i] = r]
      /\ UNCHANGED <<diskVars, placeVars, runs, admitted, calls, breaks>>
  BY <1>1, <1>2, <1>3 DEF PlanMigration
<1>6. MigTypeOK'
  <2>1. mig' \in [Migrations -> MigRows]
    BY <1>2, <1>5
  <2> QED
    BY <1>2, <1>5, <2>1 DEF MigTypeOK, MigRows, diskVars, placeVars
<1>7. Calm /\ UNCHANGED <<import, calls>>
  BY <1>5 DEF Calm, diskVars, placeVars
<1>8. CourseOf(r)
  BY <1>1, <1>4, <1>5 DEF CourseOf, Early, Switched, Forth
<1>9. /\ ~HasCommitted(s) /\ ~HasCommitted(r) /\ ~Exported(r) /\ ~Arrived(r) /\ ~RolledBack(r) /\ Preparing(s) /\ s.pc \notin Back
      /\ r.pc \notin Switched
  BY <1>1, <1>4, <1>5 DEF CourseOf, HasCommitted, Exported, Arrived, RolledBack, Preparing, Early, Switched, Back, Forth
<1>10. \A h \in Homes, step \in CallSteps : ~Asked(h, i, step)
  BY <1>1, <1>5 DEF MigOf, CallsOf
<1>11. \A h \in Homes, step \in CallSteps : ~Asked(h, i, step)'
  BY <1>5, <1>10 DEF Asked
<1>12. {"fetch", "write", "commit", "rollback", "finalize", "complete"} \subseteq CallSteps
  BY DEF CallSteps, SourceSteps, TargetSteps
<1>13. CallsOf(i, r)'
  BY <1>11, <1>12 DEF CallsOf
<1>14. \A h \in Homes : disk[h] # i /\ halfway[h] # i
  BY <1>1, <1>5, <1>9 DEF MigOf, MarkOf, HalfwayOf
<1>15. ~receipt[i]
  BY <1>1, <1>9 DEF MigOf, AwayOf
<1>16. MigOf(i, r)'
  BY <1>7, <1>8, <1>9, <1>13, <1>14, <1>15 DEF MigOf, TokenOf, MarkOf, HalfwayOf, ArrivedOf, CommittedOf, AwayOf, Calm
<1>17. /\ \A h \in Homes : admitted'[h] = admitted[h] /\ admitted[h] <= admitted'[h]
       /\ \A h \in Homes, k \in Migrations \ {i}, step \in CallSteps : Asked(h, k, step)' => Asked(h, k, step)
       /\ \A k \in Migrations \ {i} : import'[k] = import[k]
  BY <1>2, <1>5, <1>7, AdmittedSame DEF Asked
<1> QED
  BY <1>1, <1>5, <1>6, <1>7, <1>9, <1>16, <1>17, CalmStep

LEMMA CallKeeps ==
    ASSUME MigInv, NEW i \in Migrations, Call(i)
    PROVE  MigInv'
<1>1. PICK s \in MigRows : s = mig[i] /\ CourseOf(s) /\ MigOf(i, s)
  BY AtWork
<1>2. MigTypeOK /\ mig \in [Migrations -> MigRows]
  BY MigTyped DEF MigInv
<1>3. PICK r \in MigRows : r = [s EXCEPT !.ans = "wait"]
  BY DEF MigRows
<1>4. /\ r.pc = s.pc /\ r.begun = s.begun /\ r.switched = s.switched /\ r.started = s.started /\ r.from = s.from
      /\ r.committed = s.committed /\ r.archived = s.archived /\ r.bad = s.bad /\ r.ans = "wait"
  BY <1>3 DEF MigRows
<1>5. PICK w \in Homes : w = IF s.pc \in SourceSteps THEN s.from ELSE Other(s.from)
  BY MigTyped, <1>2
<1>6. /\ s.pc \in CallSteps /\ s.ans = "none" /\ mig' = [mig EXCEPT ![i] = r]
      /\ calls' = [calls EXCEPT ![w] = @ \cup {[id |-> i, step |-> s.pc]}]
      /\ UNCHANGED <<diskVars, placeVars, runs, admitted, breaks>>
  BY <1>1, <1>2, <1>3, <1>5 DEF Call, Where, Target
<1>7. MigTypeOK'
  <2>1. mig' \in [Migrations -> MigRows]
    BY <1>2, <1>6
  <2>2. calls \in [Homes -> SUBSET [id : Migrations, step : CallSteps]]
    BY <1>2 DEF MigTypeOK
  <2>3. [id |-> i, step |-> s.pc] \in [id : Migrations, step : CallSteps]
    BY <1>6
  <2>4. calls' \in [Homes -> SUBSET [id : Migrations, step : CallSteps]]
    BY <1>6, <2>2, <2>3
  <2> QED
    BY <1>2, <1>6, <2>1, <2>4 DEF MigTypeOK, MigRows, diskVars, placeVars
<1>8. Calm /\ UNCHANGED import
  BY <1>6 DEF Calm, diskVars, placeVars
<1>9. CourseOf(r)
  <2>1. s.pc \notin {"new", "planned", "status", "apply", "decide", "unapply", "ok", "failed"}
    BY <1>6 DEF CallSteps, SourceSteps, TargetSteps
  <2> QED
    BY <1>1, <1>4, <2>1 DEF CourseOf
<1>10. /\ HasCommitted(s) <=> HasCommitted(r)
       /\ Exported(r) => Exported(s)
       /\ Arrived(r) => Arrived(s)
       /\ RolledBack(r) => RolledBack(s)
       /\ Preparing(r) => Preparing(s)
       /\ s.pc \in Back => s.pc # "commit"
  BY <1>4, <1>6 DEF HasCommitted, Exported, Arrived, RolledBack, Preparing, Back
<1>11. \A h \in Homes, step \in CallSteps, k \in Migrations :
          Asked(h, k, step)' <=> Asked(h, k, step) \/ (h = w /\ k = i /\ step = s.pc)
  <2>1. calls \in [Homes -> SUBSET [id : Migrations, step : CallSteps]]
    BY <1>2 DEF MigTypeOK
  <2>2. \A h \in Homes : calls'[h] = IF h = w THEN calls[h] \cup {[id |-> i, step |-> s.pc]} ELSE calls[h]
    BY <1>6, <2>1
  <2>3. \A k, step : [id |-> k, step |-> step] = [id |-> i, step |-> s.pc] <=> k = i /\ step = s.pc
    OBVIOUS
  <2>4. ASSUME NEW h \in Homes, NEW step \in CallSteps, NEW k \in Migrations
        PROVE  [id |-> k, step |-> step] \in calls'[h] <=>
                  [id |-> k, step |-> step] \in calls[h] \/ (h = w /\ k = i /\ step = s.pc)
    <3>1. PICK q : q = [id |-> k, step |-> step]
      OBVIOUS
    <3>2. PICK p : p = [id |-> i, step |-> s.pc]
      OBVIOUS
    <3>3. q = p <=> k = i /\ step = s.pc
      BY <2>3, <3>1, <3>2
    <3>4. calls'[h] = IF h = w THEN calls[h] \cup {p} ELSE calls[h]
      BY <2>2, <3>2
    <3>5. q \in calls'[h] <=> q \in calls[h] \/ (h = w /\ q = p)
      BY <3>4
    <3> QED
      BY <3>1, <3>3, <3>5
  <2> QED
    BY <2>4 DEF Asked
<1>12. {"fetch", "write", "commit", "rollback", "finalize", "complete"} \subseteq CallSteps
  BY DEF CallSteps, SourceSteps, TargetSteps
<1>13. CallsOf(i, r)'
  <2> SUFFICES ASSUME NEW h \in Homes
               PROVE  /\ \A step \in CallSteps : Asked(h, i, step)' =>
                            /\ r.pc \notin {"new", "planned", "status"}
                            /\ h = IF step \in SourceSteps THEN r.from ELSE Other(r.from)
                      /\ \A step \in {"fetch", "write", "commit", "rollback"} : Asked(h, i, step)' =>
                            (r.pc = step /\ r.ans = "wait") \/ (r.pc \in Back /\ ~r.committed)
                      /\ Asked(h, i, "rollback")' => r.pc # "rollback" \/ r.ans = "wait"
                      /\ Asked(h, i, "finalize")' \/ Asked(h, i, "complete")' => HasCommitted(r)
                      /\ Asked(h, i, "commit")' => ~Asked(h, i, "fetch")' /\ ~Asked(h, i, "write")'
    BY DEF CallsOf
  <2>0. CallsOf(i, s)
    BY <1>1 DEF MigOf
  <2>1. s.pc \notin {"new", "planned", "status"}
    BY <1>6 DEF CallSteps, SourceSteps, TargetSteps
  <2>2. \A step \in CallSteps : Asked(h, i, step)' =>
            /\ r.pc \notin {"new", "planned", "status"}
            /\ h = IF step \in SourceSteps THEN r.from ELSE Other(r.from)
    BY <2>0, <2>1, <1>4, <1>5, <1>11 DEF CallsOf
  <2>3. \A step \in {"fetch", "write", "commit", "rollback"} : Asked(h, i, step) => r.pc \in Back /\ ~r.committed
    BY <2>0, <1>4, <1>6 DEF CallsOf
  <2>4. \A step \in {"fetch", "write", "commit", "rollback"} : Asked(h, i, step)' =>
            (r.pc = step /\ r.ans = "wait") \/ (r.pc \in Back /\ ~r.committed)
    BY <2>3, <1>4, <1>11, <1>12
  <2>5. s.pc \in {"finalize", "complete"} => HasCommitted(s)
    BY <1>1 DEF CourseOf, Forth, HasCommitted
  <2>6. Asked(h, i, "finalize")' \/ Asked(h, i, "complete")' => HasCommitted(r)
    BY <2>0, <2>5, <1>10, <1>11, <1>12 DEF CallsOf
  <2>7. Asked(h, i, "commit")' => ~Asked(h, i, "fetch")' /\ ~Asked(h, i, "write")'
    <3>1. Asked(h, i, "commit") => ~Asked(h, i, "fetch") /\ ~Asked(h, i, "write")
      BY <2>0 DEF CallsOf
    <3>2. s.pc \in {"commit", "fetch", "write"} => ~Asked(h, i, "commit") /\ ~Asked(h, i, "fetch") /\ ~Asked(h, i, "write")
      BY <2>3, <1>4 DEF Back
    <3>3. /\ Asked(h, i, "commit")' => Asked(h, i, "commit") \/ s.pc = "commit"
          /\ Asked(h, i, "fetch")' => Asked(h, i, "fetch") \/ s.pc = "fetch"
          /\ Asked(h, i, "write")' => Asked(h, i, "write") \/ s.pc = "write"
      BY <1>11, <1>12
    <3> QED
      BY <3>1, <3>2, <3>3
  <2> QED
    BY <1>4, <2>2, <2>4, <2>6, <2>7
<1>14. TokenOf(i, r)' /\ MarkOf(i, r)' /\ ArrivedOf(i, r)'
  <2>1. UNCHANGED admitted /\ TokenOf(i, s) /\ MarkOf(i, s) /\ ArrivedOf(i, s)
    BY <1>1, <1>6 DEF MigOf
  <2>2. Done \subseteq Done'
    BY <1>1, <1>2, <1>6, <1>10 DEF Done
  <2> QED
    BY <1>4, <1>8, <1>10, <2>1, <2>2 DEF TokenOf, MarkOf, ArrivedOf, Calm
<1>15. HalfwayOf(i, r)'
  <2> SUFFICES ASSUME NEW h \in Homes, halfway[h] = i
               PROVE  /\ disk[h] = i /\ admitted[h] >= i /\ ~Asked(h, i, "commit")'
                      /\ r.pc \in Back /\ ~r.committed /\ ~RolledBack(r)
    BY <1>6, <1>8 DEF HalfwayOf, Calm
  <2>1. /\ disk[h] = i /\ admitted[h] >= i /\ ~Asked(h, i, "commit")
        /\ s.pc \in Back /\ ~s.committed /\ ~RolledBack(s)
    BY <1>1, <1>6 DEF MigOf, HalfwayOf
  <2> QED
    BY <2>1, <1>4, <1>10, <1>11, <1>12
<1>16. CommittedOf(i, r)'
  <2>1. UNCHANGED admitted /\ CommittedOf(i, s) /\ (Held(i)' => Held(i))
    <3>1. \A k \in Migrations : mig'[k].pc \in {"new", "planned"} => mig[k].pc \in {"new", "planned"}
      BY <1>1, <1>2, <1>4, <1>6
    <3> QED
      BY <1>1, <1>6, <3>1, HeldStays DEF MigOf
  <2>2. Done \subseteq Done'
    BY <1>1, <1>2, <1>6, <1>10 DEF Done
  <2> QED
    BY <1>4, <1>8, <1>10, <2>1, <2>2 DEF CommittedOf, Calm
<1>17. AwayOf(i, r)'
  <2>1. AwayOf(i, s)
    BY <1>1 DEF MigOf
  <2>2. RolledBack(s) => \A h \in Homes : ~Asked(h, i, "commit") => ~Asked(h, i, "commit")'
    BY <1>10, <1>11, <1>12 DEF RolledBack, Back
  <2> QED
    BY <1>4, <1>8, <1>10, <2>1, <2>2 DEF AwayOf, Calm
<1>18. MigOf(i, r)'
  BY <1>9, <1>13, <1>14, <1>15, <1>16, <1>17 DEF MigOf
<1>19. /\ \A h \in Homes : admitted'[h] = admitted[h] /\ admitted[h] <= admitted'[h]
       /\ \A h \in Homes, k \in Migrations \ {i}, step \in CallSteps : Asked(h, k, step)' => Asked(h, k, step)
       /\ \A k \in Migrations \ {i} : import'[k] = import[k]
  BY <1>2, <1>6, <1>8, <1>11, AdmittedSame
<1>20. /\ HasCommitted(mig[i]) => HasCommitted(r)
       /\ r.pc \in {"new", "planned"} => mig[i].pc \in {"new", "planned"}
  BY <1>1, <1>4, <1>10
<1> QED
  BY <1>6, <1>7, <1>8, <1>18, <1>19, <1>20, CalmStep

\* The invariant from the facts about each migration.
LEMMA MigWhole ==
    ASSUME MigTypeOK', Admissions', PlacementServed', WorldKept', MigTypeOK,
           NEW i \in Migrations, NEW t, mig' = [mig EXCEPT ![i] = t], MigOf(i, t)',
           \A k \in Migrations \ {i} : \A s : s = mig[k] => MigOf(k, s)'
    PROVE  MigInv'
<1>1. \A k \in Migrations : mig'[k] = IF k = i THEN t ELSE mig[k]
  BY DEF MigTypeOK
<1>2. ASSUME NEW k \in Migrations PROVE MigOf(k, mig[k])'
  <2>1. PICK s : s = (IF k = i THEN t ELSE mig[k]) /\ MigOf(k, s)'
    BY DEF MigOf
  <2>2. mig'[k] = s
    BY <1>1, <2>1
  <2> QED
    BY <2>1, <2>2 DEF MigOf, CallsOf, TokenOf, MarkOf, HalfwayOf, ArrivedOf, CommittedOf, AwayOf
<1> QED
  BY <1>2 DEF MigInv

LEMMA AdmissionsKept ==
    ASSUME MigInv, MigTypeOK', NEW i \in Migrations, NEW t, mig' = [mig EXCEPT ![i] = t],
           t.pc \in {"new", "planned"} => mig[i].pc \in {"new", "planned"},
           \A h \in Homes : admitted'[h] = admitted[h] \/ (admitted'[h] = i /\ t.pc \notin {"new", "planned"})
    PROVE  Admissions'
<1>1. \A k \in Migrations : mig'[k] = IF k = i THEN t ELSE mig[k]
  BY DEF MigInv, MigTypeOK
<1> SUFFICES ASSUME NEW h \in Homes, admitted'[h] # 0
             PROVE  mig'[admitted'[h]].pc \notin {"new", "planned"}
  BY DEF Admissions
<1>2. admitted'[h] \in Migrations
  BY DEF MigTypeOK
<1>3. CASE admitted'[h] = i /\ t.pc \notin {"new", "planned"}
  BY <1>1, <1>3
<1>4. CASE admitted'[h] = admitted[h]
  BY <1>1, <1>2, <1>4 DEF MigInv, Admissions
<1> QED
  BY <1>3, <1>4

\* A migration that the step is not about.
LEMMA OtherRow ==
    ASSUME MigInv, MigTypeOK', NEW k \in Migrations, NEW s, s = mig[k],
           \A h \in Homes : admitted[h] <= admitted'[h],
           \A h \in Homes, step \in CallSteps : Asked(h, k, step)' => Asked(h, k, step),
           MarkOf(k, s)', HalfwayOf(k, s)', ArrivedOf(k, s)', CommittedOf(k, s)', AwayOf(k, s)'
    PROVE  MigOf(k, s)'
<1>1. MigOf(k, s) /\ s \in MigRows /\ MigTypeOK
  BY MigTyped DEF MigInv
<1>2. CallsOf(k, s)' /\ TokenOf(k, s)'
  BY <1>1, CallsStay, TokenStays DEF MigOf
<1> QED
  BY <1>1, <1>2 DEF MigOf

LEMMA DecideKeeps ==
    ASSUME MigInv, NEW i \in Migrations, Decide(i)
    PROVE  MigInv'
<1>1. PICK s \in MigRows : s = mig[i] /\ CourseOf(s) /\ MigOf(i, s)
  BY AtWork
<1>2. MigTypeOK /\ mig \in [Migrations -> MigRows] /\ s.from \in Homes /\ Other(s.from) \in Homes /\ Other(Other(s.from)) = s.from
  BY MigTyped, MigBasics DEF MigInv
<1>3. /\ s.pc = "decide" /\ UNCHANGED <<diskVars, placeVars, runs, admitted, calls>>
      /\ \/ AtStep(i, [s EXCEPT !.committed = TRUE], "finalize") /\ UNCHANGED breaks
         \/ Undo(i, s) /\ Break(FALSE)
  BY <1>1 DEF Decide
<1>4. breaks' \in 0 .. MaxBreaks
  BY <1>2, <1>3, BreakTyped
<1>5. CASE Undo(i, s) /\ Break(FALSE)
  <2>1. s.started => s.switched
    BY <1>1 DEF CourseOf
  <2>2. PICK t \in MigRows : mig' = [mig EXCEPT ![i] = t] /\ Follows(s, t)
    BY <1>1, <1>3, <1>5, <2>1, UndoFollows
  <2> QED
    BY <1>1, <1>3, <1>4, <2>2, CoordinatorKeeps
<1>6. CASE AtStep(i, [s EXCEPT !.committed = TRUE], "finalize")
  <2>1. PICK r \in MigRows : r = [s EXCEPT !.committed = TRUE]
    BY DEF MigRows
  <2>2. /\ r.begun = s.begun /\ r.switched = s.switched /\ r.started = s.started /\ r.from = s.from
        /\ r.committed /\ r.archived = s.archived /\ r.bad = s.bad
    BY <2>1 DEF MigRows
  <2>3. "finalize" \in (CallSteps \cup OwnSteps) \ {"ok", "failed"} /\ AtStep(i, r, "finalize")
    BY <1>6, <2>1 DEF CallSteps, SourceSteps
  <2>4. PICK t \in MigRows : mig' = [mig EXCEPT ![i] = t] /\ LeadsTo(r, t, "finalize")
    BY <2>3, StepTo
  <2>5. /\ t.pc = "finalize" /\ t.ans = "none" /\ t.from = s.from /\ t.begun = s.begun /\ t.switched = s.switched
        /\ t.started = s.started /\ t.committed /\ t.archived = s.archived /\ t.bad = s.bad
    BY <2>2, <2>4 DEF LeadsTo
  <2>6. CourseOf(t)
    BY <1>1, <1>3, <2>5 DEF CourseOf, Switched, Early, Forth
  <2>7. MigTypeOK'
    <3>1. mig' \in [Migrations -> MigRows]
      BY <1>2, <2>4
    <3> QED
      BY <1>2, <1>3, <1>4, <3>1 DEF MigTypeOK, MigRows, diskVars, placeVars
  <2>8. Calm /\ UNCHANGED <<import, admitted, calls>>
    BY <1>3 DEF Calm, diskVars, placeVars
  <2>9. /\ ~HasCommitted(s) /\ HasCommitted(t) /\ Exported(s) /\ Arrived(s) /\ ~Arrived(t) /\ ~RolledBack(t) /\ ~Preparing(t)
        /\ s.pc \in Switched /\ t.pc \notin Switched /\ s.pc \notin Back
    BY <1>1, <1>3, <2>5 DEF CourseOf, HasCommitted, Exported, Arrived, RolledBack, Preparing, Early, Switched, Back, Forth
  <2>10. {"fetch", "write", "commit", "rollback", "finalize", "complete"} \subseteq CallSteps
    BY DEF CallSteps, SourceSteps, TargetSteps
  <2>11. \A h \in Homes, step \in CallSteps : Asked(h, i, step)' <=> Asked(h, i, step)
    BY <1>3 DEF Asked
  <2>12. CallsOf(i, t)'
    <3>1. CallsOf(i, s)
      BY <1>1 DEF MigOf
    <3>2. \A h \in Homes : \A step \in {"fetch", "write", "commit", "rollback"} : ~Asked(h, i, step)
      BY <3>1, <1>3, <2>9 DEF CallsOf
    <3>3. \A h \in Homes : \A step \in CallSteps : Asked(h, i, step) => h = IF step \in SourceSteps THEN t.from ELSE Other(t.from)
      BY <3>1, <2>5 DEF CallsOf
    <3> QED
      BY <3>2, <3>3, <2>5, <2>9, <2>10, <2>11 DEF CallsOf
  <2>13. TokenOf(i, t)'
    BY <1>1, <2>5, <2>8, <2>9 DEF MigOf, TokenOf
  <2>14. MarkOf(i, t)'
    BY <1>1, <2>5, <2>8, <2>9 DEF MigOf, MarkOf, Calm
  <2>15. HalfwayOf(i, t)'
    BY <1>1, <1>3, <2>8, <2>9 DEF MigOf, HalfwayOf, Calm
  <2>16. ArrivedOf(i, t)' /\ AwayOf(i, t)'
    BY <2>9 DEF ArrivedOf, AwayOf
  <2>17. Done \subseteq Done'
    BY <1>1, <1>2, <2>4, <2>9 DEF Done
  <2>18. CommittedOf(i, t)'
    <3>1. disk[Other(s.from)] = i /\ placed = Other(s.from)
      BY <1>1, <2>9 DEF MigOf, ArrivedOf
    <3>2. disk[s.from] \in Migrations => disk[s.from] \in Done
      BY <1>1, <1>2, <2>9, <3>1 DEF MigOf, MarkOf
    <3> QED
      BY <2>5, <2>8, <2>17, <3>1, <3>2 DEF CommittedOf, Calm
  <2>19. MigOf(i, t)'
    BY <2>6, <2>12, <2>13, <2>14, <2>15, <2>16, <2>18 DEF MigOf
  <2>20. /\ \A h \in Homes : admitted'[h] = admitted[h] /\ admitted[h] <= admitted'[h]
         /\ \A h \in Homes, k \in Migrations \ {i}, step \in CallSteps : Asked(h, k, step)' => Asked(h, k, step)
         /\ \A k \in Migrations \ {i} : import'[k] = import[k]
    BY <1>2, <2>8, AdmittedSame DEF Asked
  <2>21. /\ HasCommitted(mig[i]) => HasCommitted(t)
         /\ t.pc \in {"new", "planned"} => mig[i].pc \in {"new", "planned"}
    BY <1>1, <2>5, <2>9
  <2> QED
    BY <2>4, <2>7, <2>8, <2>19, <2>20, <2>21, CalmStep
<1> QED
  BY <1>3, <1>5, <1>6

\* A write of the placement by a migration whose copy is in place: both machines hold the
\* world, and no other migration has an undecided copy.
LEMMA SwitchKeeps ==
    ASSUME MigInv, NEW i \in Migrations, NEW s, s = mig[i], s.pc \in {"apply", "unapply"}, NEW t \in MigRows, CourseOf(t),
           t.from = s.from, t.ans = "none", ~HasCommitted(t), t.pc \in {"launch", "decide", "rollback"},
           mig' = [mig EXCEPT ![i] = t],
           UNCHANGED <<diskVars, runs, admitted, calls>>, breaks' \in 0 .. MaxBreaks,
           revision' \in 0 .. LastRevision, astray' \in BOOLEAN,
           placed' \in {s.from, Other(s.from)},
           t.pc \in {"launch", "decide"} => placed' = Other(s.from),
           ~astray' => ~astray /\ (t.pc = "rollback" => placed' = s.from)
    PROVE  MigInv'
<1>1. MigOf(i, s) /\ CourseOf(s) /\ s \in MigRows
  BY AtWork
<1>2. MigTypeOK /\ mig \in [Migrations -> MigRows] /\ s.from \in Homes /\ Other(s.from) \in Homes /\ Other(Other(s.from)) = s.from
  BY MigTyped, MigBasics, <1>1 DEF MigInv
<1>3. MigTypeOK'
  <2>1. mig' \in [Migrations -> MigRows]
    BY <1>2
  <2> QED
    BY <1>2, <2>1 DEF MigTypeOK, MigRows, diskVars
<1>4. /\ ~HasCommitted(s) /\ Exported(s) /\ Arrived(s) /\ ~RolledBack(t) /\ ~Preparing(t) /\ s.pc \notin Back
      /\ Arrived(t) => t.pc \in {"launch", "decide"}
      /\ t.pc \in Switched => t.pc \in {"launch", "decide"}
      /\ s.pc \notin {"fetch", "write", "commit", "rollback"}
  BY <1>1 DEF CourseOf, HasCommitted, Exported, Arrived, RolledBack, Preparing, Early, Switched, Back, Forth
<1>5. UNCHANGED <<disk, receipt, archive, halfway, torn, import, admitted, calls>>
  BY DEF diskVars
<1>6. disk[Other(s.from)] = i /\ disk[s.from] # NoWorld /\ (disk[s.from] \in Migrations => disk[s.from] \in Done)
  <2>1. disk[Other(s.from)] = i
    BY <1>1, <1>4 DEF MigOf, ArrivedOf
  <2> QED
    BY <1>1, <1>2, <1>4, <2>1 DEF MigOf, MarkOf
<1>7. \A k \in Migrations : mig'[k] = IF k = i THEN t ELSE mig[k]
  BY <1>2
<1>8. i \notin Done /\ Done \subseteq Done' /\ i \in Migrations /\ i # NoWorld /\ i # Unmarked
  BY <1>4, <1>7, MigBasics DEF Done
<1>9. \A h \in Homes, k \in Migrations, step \in CallSteps : Asked(h, k, step)' <=> Asked(h, k, step)
  BY <1>5 DEF Asked
<1>10. {"fetch", "write", "commit", "rollback", "finalize", "complete"} \subseteq CallSteps
  BY DEF CallSteps, SourceSteps, TargetSteps
<1>11. MigOf(i, t)'
  <2>1. CallsOf(i, t)'
    <3>1. CallsOf(i, s)
      BY <1>1 DEF MigOf
    <3>2. \A h \in Homes : \A step \in {"fetch", "write", "commit", "rollback"} : ~Asked(h, i, step)
      BY <3>1, <1>4 DEF CallsOf
    <3>3. \A h \in Homes : ~Asked(h, i, "finalize") /\ ~Asked(h, i, "complete")
      BY <3>1, <1>4 DEF CallsOf
    <3>4. \A h \in Homes : \A step \in CallSteps : Asked(h, i, step) => h = IF step \in SourceSteps THEN t.from ELSE Other(t.from)
      BY <3>1 DEF CallsOf
    <3> QED
      BY <3>2, <3>3, <3>4, <1>9, <1>10 DEF CallsOf
  <2>2. TokenOf(i, t)'
    BY <1>1, <1>4, <1>5 DEF MigOf, TokenOf
  <2>3. MarkOf(i, t)'
    <3>1. MarkOf(i, s)
      BY <1>1 DEF MigOf
    <3>2. ~astray' /\ t.pc \notin Switched => placed' = t.from
      BY DEF Switched
    <3> QED
      BY <1>4, <1>5, <1>8, <3>1, <3>2 DEF MarkOf
  <2>4. HalfwayOf(i, t)'
    BY <1>1, <1>4, <1>5 DEF MigOf, HalfwayOf
  <2>5. ArrivedOf(i, t)' /\ CommittedOf(i, t)' /\ AwayOf(i, t)'
    BY <1>4, <1>5, <1>6 DEF ArrivedOf, CommittedOf, AwayOf
  <2> QED
    BY <2>1, <2>2, <2>3, <2>4, <2>5 DEF MigOf
<1>12. \A h \in Homes : admitted'[h] = admitted[h] /\ admitted[h] <= admitted'[h]
  BY <1>2, <1>5, AdmittedSame
<1>13. ASSUME NEW k \in Migrations \ {i}, NEW u, u = mig[k]
       PROVE  MigOf(k, u)'
  <2>1. MigOf(k, u) /\ CourseOf(u) /\ u \in MigRows
    BY <1>13, AtWork
  <2>2. u.from \in Homes /\ Other(u.from) \in Homes /\ (u.from = s.from \/ u.from = Other(s.from)) /\ k \in Migrations /\ k # i
        /\ Other(u.from) # u.from
    BY <1>2, <2>1, MigTyped, MigBasics
  <2>3. HasCommitted(u) <=> k \in Done
    BY <1>13 DEF Done
  <2>4. ~Arrived(u)
    <3>1. SUFFICES ASSUME Arrived(u) PROVE FALSE
      OBVIOUS
    <3>2. disk[Other(u.from)] = k /\ ~HasCommitted(u)
      BY <2>1, <3>1 DEF MigOf, ArrivedOf, Arrived, HasCommitted, CourseOf, Switched, Forth
    <3>3. Other(u.from) = s.from
      BY <1>2, <1>6, <2>2, <3>2
    <3> QED
      BY <1>6, <2>2, <2>3, <3>2, <3>3
  <2>5. MarkOf(k, u)'
    <3> SUFFICES ASSUME NEW h \in Homes, disk[h] = k
                 PROVE  h = Other(u.from) /\ ~Preparing(u) /\ HasCommitted(u)
      BY <1>5 DEF MarkOf
    <3>1. h = Other(u.from) /\ ~Preparing(u)
      BY <2>1 DEF MigOf, MarkOf
    <3>2. h = s.from
      BY <1>2, <1>6, <2>2, MigBasics
    <3> QED
      BY <1>6, <2>2, <2>3, <3>1, <3>2
  <2>6. HalfwayOf(k, u)'
    BY <1>5, <1>9, <1>10, <2>1, <2>2 DEF MigOf, HalfwayOf
  <2>7. ArrivedOf(k, u)'
    BY <2>4 DEF ArrivedOf, Arrived
  <2>8. CommittedOf(k, u)'
    <3>1. SUFFICES ASSUME HasCommitted(u), admitted[u.from] <= k PROVE FALSE
      BY <1>5 DEF CommittedOf
    <3>2. disk[Other(u.from)] \in {k, Unmarked} /\ (disk[u.from] \in Migrations => disk[u.from] \in Done)
      BY <2>1, <3>1 DEF MigOf, CommittedOf
    <3>3. Other(u.from) # Other(s.from)
      BY <1>6, <1>8, <2>2, <3>2
    <3>4. u.from = Other(s.from)
      BY <1>2, <2>2, <3>3
    <3> QED
      BY <1>6, <1>8, <3>2, <3>4
  <2>9. AwayOf(k, u)'
    BY <1>5, <1>9, <1>10, <2>1, <2>2 DEF MigOf, AwayOf
  <2>10. \A h \in Homes, step \in CallSteps : Asked(h, k, step)' => Asked(h, k, step)
    BY <1>9, <2>2
  <2> QED
    BY <1>3, <1>12, <1>13, <2>2, <2>5, <2>6, <2>7, <2>8, <2>9, <2>10, OtherRow
<1>14. Admissions'
  <2>1. t.pc \in {"new", "planned"} => mig[i].pc \in {"new", "planned"}
    OBVIOUS
  <2> QED
    BY <1>3, <1>12, <2>1, AdmissionsKept
<1>15. PlacementServed' /\ WorldKept'
  BY <1>2, <1>5, <1>6, <1>8 DEF PlacementServed, WorldKept
<1> QED
  BY <1>2, <1>3, <1>11, <1>13, <1>14, <1>15, MigWhole

LEMMA ApplyKeeps ==
    ASSUME MigInv, NEW i \in Migrations, Apply(i)
    PROVE  MigInv'
<1>1. PICK s \in MigRows : s = mig[i] /\ CourseOf(s) /\ MigOf(i, s)
  BY AtWork
<1>2. MigTypeOK /\ s.from \in Homes /\ LastRevision \in Nat /\ astray \in BOOLEAN /\ revision \in 0 .. LastRevision
  BY MigTyped, MigrationAssumption DEF MigInv, MigTypeOK
<1>3. /\ s.pc = "apply" /\ UNCHANGED <<diskVars, runs, admitted, calls>>
      /\ \/ /\ placed = s.from /\ revision < LastRevision /\ placed' = Other(s.from) /\ revision' = revision + 1
            /\ \/ /\ AtStep(i, [s EXCEPT !.switched = TRUE, !.rev = revision + 1], IF s.was THEN "launch" ELSE "decide")
                  /\ UNCHANGED <<astray, breaks>>
               \/ Undo(i, s) /\ astray' = TRUE /\ Break(FALSE)
         \/ Undo(i, s) /\ UNCHANGED placeVars /\ Break(revision # s.rev \/ placed # s.from)
  BY <1>1 DEF Apply, Target
<1>4. breaks' \in 0 .. MaxBreaks
  BY <1>2, <1>3, BreakTyped
<1>5. ASSUME Undo(i, s)
      PROVE  \E t \in MigRows : mig' = [mig EXCEPT ![i] = t] /\ Follows(s, t) /\ t.pc = "rollback" /\ t.ans = "none"
  <2>1. s.started => s.switched
    BY <1>1 DEF CourseOf
  <2>2. PICK t \in MigRows : mig' = [mig EXCEPT ![i] = t] /\ Follows(s, t) /\ t.ans = "none" /\ (s.pc = "apply" => t.pc = "rollback")
    BY <1>1, <1>3, <1>5, <2>1, UndoFollows
  <2> QED
    BY <1>3, <2>2
<1>6. CASE Undo(i, s) /\ UNCHANGED placeVars
  <2>1. PICK t \in MigRows : mig' = [mig EXCEPT ![i] = t] /\ Follows(s, t)
    BY <1>5, <1>6
  <2> QED
    BY <1>1, <1>3, <1>4, <1>6, <2>1, CoordinatorKeeps
<1>7. CASE /\ placed = s.from /\ revision < LastRevision /\ placed' = Other(s.from) /\ revision' = revision + 1
           /\ Undo(i, s) /\ astray' = TRUE
  <2>1. PICK t \in MigRows : mig' = [mig EXCEPT ![i] = t] /\ Follows(s, t) /\ t.pc = "rollback" /\ t.ans = "none"
    BY <1>5, <1>7
  <2>2. CourseOf(t) /\ t.from = s.from /\ ~HasCommitted(t)
    BY <1>1, <1>3, <2>1 DEF Follows, HasCommitted, CourseOf, Forth
  <2>3. /\ revision' \in 0 .. LastRevision /\ astray' \in BOOLEAN /\ placed' \in {s.from, Other(s.from)}
        /\ t.pc \in {"launch", "decide"} => placed' = Other(s.from)
        /\ ~astray' => ~astray /\ (t.pc = "rollback" => placed' = s.from)
        /\ s.pc \in {"apply", "unapply"} /\ t.pc \in {"launch", "decide", "rollback"}
    BY <1>2, <1>3, <1>7, <2>1
  <2> QED
    BY <1>1, <1>3, <1>4, <2>1, <2>2, <2>3, SwitchKeeps
<1>8. CASE /\ placed = s.from /\ revision < LastRevision /\ placed' = Other(s.from) /\ revision' = revision + 1
           /\ AtStep(i, [s EXCEPT !.switched = TRUE, !.rev = revision + 1], IF s.was THEN "launch" ELSE "decide")
           /\ UNCHANGED <<astray, breaks>>
  <2>1. revision + 1 \in 0 .. LastRevision
    BY <1>2, <1>8
  <2>2. PICK r \in MigRows : r = [s EXCEPT !.switched = TRUE, !.rev = revision + 1]
    BY <2>1 DEF MigRows
  <2>3. /\ r.begun = s.begun /\ r.switched /\ r.started = s.started /\ r.from = s.from
        /\ r.committed = s.committed /\ r.archived = s.archived /\ r.bad = s.bad
    BY <2>2 DEF MigRows
  <2>4. PICK pc \in {"launch", "decide"} : AtStep(i, r, pc)
    BY <1>8, <2>2
  <2>5. pc \in (CallSteps \cup OwnSteps) \ {"ok", "failed"}
    BY DEF CallSteps, TargetSteps, OwnSteps
  <2>6. PICK t \in MigRows : mig' = [mig EXCEPT ![i] = t] /\ LeadsTo(r, t, pc)
    BY <2>4, <2>5, StepTo
  <2>7. /\ t.pc = pc /\ t.ans = "none" /\ t.from = s.from /\ t.begun = s.begun /\ t.switched
        /\ t.started = s.started /\ t.committed = s.committed /\ t.archived = s.archived /\ t.bad = s.bad
    BY <2>3, <2>6 DEF LeadsTo
  <2>8. CourseOf(t) /\ ~HasCommitted(t)
    BY <1>1, <1>3, <2>7 DEF CourseOf, HasCommitted, Switched, Early, Forth
  <2>9. /\ revision' \in 0 .. LastRevision /\ astray' \in BOOLEAN /\ placed' \in {s.from, Other(s.from)}
        /\ t.pc \in {"launch", "decide"} => placed' = Other(s.from)
        /\ ~astray' => ~astray /\ (t.pc = "rollback" => placed' = s.from)
        /\ s.pc \in {"apply", "unapply"} /\ t.pc \in {"launch", "decide", "rollback"}
    BY <1>2, <1>3, <1>8, <2>1, <2>7
  <2> QED
    BY <1>1, <1>3, <1>4, <2>6, <2>7, <2>8, <2>9, SwitchKeeps
<1> QED
  BY <1>3, <1>6, <1>7, <1>8

LEMMA UnapplyKeeps ==
    ASSUME MigInv, NEW i \in Migrations, Unapply(i)
    PROVE  MigInv'
<1>1. PICK s \in MigRows : s = mig[i] /\ CourseOf(s) /\ MigOf(i, s)
  BY AtWork
<1>2. MigTypeOK /\ s.from \in Homes /\ LastRevision \in Nat /\ astray \in BOOLEAN /\ revision \in 0 .. LastRevision
  BY MigTyped, MigrationAssumption DEF MigInv, MigTypeOK
<1>3. /\ s.pc = "unapply" /\ UNCHANGED <<diskVars, runs, admitted, calls>>
      /\ \/ /\ placed = Other(s.from) /\ revision < LastRevision /\ placed' = s.from /\ revision' = revision + 1
            /\ UndoFrom(i, s, After("unapply")) /\ UNCHANGED <<astray, breaks>>
         \/ /\ Break(revision # s.rev \/ placed # Other(s.from)) /\ astray' = TRUE
            /\ UndoFrom(i, [s EXCEPT !.bad = TRUE], After("unapply")) /\ UNCHANGED <<placed, revision>>
  BY <1>1 DEF Unapply, Target
<1>4. breaks' \in 0 .. MaxBreaks
  BY <1>2, <1>3, BreakTyped
<1>5. s.switched /\ s.begun /\ ~s.committed /\ ~s.archived /\ placed = Other(s.from)
  BY <1>1, <1>3 DEF CourseOf, Switched, Forth, MigOf, ArrivedOf
<1>6. After("unapply") = 3
  <2>1. /\ UndoOrder[1] = "halt" /\ UndoOrder[2] = "unapply" /\ UndoOrder[3] = "rollback"
        /\ UndoOrder[4] = "restart" /\ UndoOrder[5] = "unexport" /\ UndoOrder[6] = "again"
        /\ DOMAIN UndoOrder = 1 .. 6
    BY DEF UndoOrder
  <2>2. /\ \A k \in DOMAIN UndoOrder : UndoOrder[k] = "unapply" <=> k = 2
        /\ 2 \in DOMAIN UndoOrder
    BY <2>1
  <2> QED
    BY <2>2 DEF After
<1>7. ASSUME NEW r \in MigRows, r.from = s.from, r.begun = s.begun, r.switched = s.switched, r.started = s.started,
             r.committed = s.committed, r.archived = s.archived, UndoFrom(i, r, 3)
      PROVE  \E t \in MigRows : /\ mig' = [mig EXCEPT ![i] = t]
                                /\ t.pc = "rollback" /\ t.from = s.from /\ t.ans = "none" /\ CourseOf(t) /\ ~HasCommitted(t)
  <2>1. PICK t \in MigRows :
          /\ mig' = [mig EXCEPT ![i] = t]
          /\ t.from = r.from /\ t.ans = "none"
          /\ \/ /\ t.pc = "failed" /\ ~t.begun /\ ~t.switched /\ ~t.started /\ ~t.committed /\ ~t.archived
             \/ /\ t.pc \in UndoSteps
                /\ t.begun = r.begun /\ t.switched = r.switched /\ t.started = r.started
                /\ t.committed = r.committed /\ t.archived = r.archived
          /\ 3 = 3 => t.pc \in {"rollback", "restart", "unexport"}
          /\ 3 <= 3 /\ r.begun => t.pc \notin {"restart", "unexport"}
    <3>1. 3 \in 1 .. 7
      OBVIOUS
    <3>2. PICK k \in 1 .. 7 : k = 3
      BY <3>1
    <3>3. UndoFrom(i, r, k)
      BY <1>7, <3>2
    <3> QED
      BY <3>2, <3>3, UndoFields
  <2>2. t.pc = "rollback"
    BY <1>5, <1>7, <2>1
  <2>3. /\ t.begun = s.begun /\ t.switched = s.switched /\ t.started = s.started
        /\ t.committed = s.committed /\ t.archived = s.archived
    BY <1>7, <2>1, <2>2
  <2>4. CourseOf(t) /\ ~HasCommitted(t)
    BY <1>1, <1>5, <2>1, <2>2, <2>3 DEF CourseOf, HasCommitted, Switched, Early, Forth
  <2> QED
    BY <1>7, <2>1, <2>2, <2>4
<1>8. PICK r \in MigRows : /\ r.from = s.from /\ r.begun = s.begun /\ r.switched = s.switched /\ r.started = s.started
                           /\ r.committed = s.committed /\ r.archived = s.archived
                           /\ UndoFrom(i, r, 3)
  <2>1. PICK r \in MigRows :
         /\ r = [s EXCEPT !.bad = TRUE]
         /\ r.pc = s.pc /\ r.from = s.from /\ r.begun = s.begun /\ r.switched = s.switched /\ r.started = s.started
         /\ r.committed = s.committed /\ r.archived = s.archived /\ r.bad
    BY Flagged
  <2>2. UndoFrom(i, s, 3) \/ UndoFrom(i, r, 3)
    BY <1>3, <1>6, <2>1
  <2> QED
    BY <2>1, <2>2
<1>9. PICK t \in MigRows : /\ mig' = [mig EXCEPT ![i] = t]
                           /\ t.pc = "rollback" /\ t.from = s.from /\ t.ans = "none" /\ CourseOf(t) /\ ~HasCommitted(t)
  BY <1>7, <1>8
<1>10. /\ revision' \in 0 .. LastRevision /\ astray' \in BOOLEAN /\ placed' \in {s.from, Other(s.from)}
       /\ t.pc \in {"launch", "decide"} => placed' = Other(s.from)
       /\ ~astray' => ~astray /\ (t.pc = "rollback" => placed' = s.from)
       /\ s.pc \in {"apply", "unapply"} /\ t.pc \in {"launch", "decide", "rollback"}
  <2>1. \/ revision < LastRevision /\ revision' = revision + 1 /\ placed' = s.from /\ astray' = astray
        \/ revision' = revision /\ placed' = placed /\ astray' = TRUE
    BY <1>3
  <2>2. revision' \in 0 .. LastRevision
    BY ONLY <1>2, <2>1
  <2> QED
    BY <1>2, <1>3, <1>5, <1>9, <2>1, <2>2
<1> QED
  BY <1>1, <1>3, <1>4, <1>9, <1>10, SwitchKeeps

LEMMA EditPlanKeeps ==
    ASSUME MigInv, EditPlan
    PROVE  MigInv'
<1>1. UNCHANGED <<disk, export, import, receipt, archive, halfway, torn, placed, astray, runs, admitted, calls, mig, breaks>>
  BY DEF EditPlan, diskVars
<1>2. MigTypeOK'
  <2>1. MigTypeOK /\ LastRevision \in Nat /\ revision < LastRevision /\ revision' = revision + 1
    BY MigrationAssumption DEF MigInv, EditPlan
  <2>2. revision' \in 0 .. LastRevision
    BY <2>1 DEF MigTypeOK
  <2> QED
    BY <1>1, <2>1, <2>2 DEF MigTypeOK
<1>3. ASSUME NEW k \in Migrations PROVE MigOf(k, mig[k])'
  <2>1. MigOf(k, mig[k])
    BY DEF MigInv
  <2> QED
    BY <1>1, <2>1 DEF MigOf, CallsOf, TokenOf, MarkOf, HalfwayOf, ArrivedOf, CommittedOf, AwayOf, Asked, Done, Held
<1> QED
  BY <1>1, <1>2, <1>3 DEF MigInv, Admissions, PlacementServed, WorldKept

-----------------------------------------------------------------------------
(* Steps of a machine *)

Results == {"ok", "failed", "refused"}

\* Of s, only the answer to the given step may change, and only if it is waited for.
AnswersTo(s, t, step, result) ==
    /\ t.pc = s.pc /\ t.from = s.from /\ t.begun = s.begun /\ t.switched = s.switched
    /\ t.started = s.started /\ t.committed = s.committed /\ t.archived = s.archived /\ t.bad = s.bad
    /\ \/ s.pc = step /\ s.ans = "wait" /\ t.ans = result
       \/ ~(s.pc = step /\ s.ans = "wait") /\ t.ans = s.ans

LEMMA AnswerTo ==
    ASSUME MigTypeOK, NEW i \in Migrations, NEW step \in CallSteps, NEW result \in Results,
           Answer([id |-> i, step |-> step], result)
    PROVE  \E t \in MigRows : mig' = [mig EXCEPT ![i] = t] /\ AnswersTo(mig[i], t, step, result)
<1>1. PICK s \in MigRows : s = mig[i]
  BY MigTyped
<1>2. mig' = IF s.pc = step /\ s.ans = "wait" THEN [mig EXCEPT ![i].ans = result] ELSE mig
  BY <1>1 DEF Answer
<1>3. mig \in [Migrations -> MigRows]
  BY MigTyped
<1>4. CASE s.pc = step /\ s.ans = "wait"
  <2>1. PICK t \in MigRows : t = [s EXCEPT !.ans = result]
    BY DEF MigRows, Results
  <2>2. mig' = [mig EXCEPT ![i] = t]
    BY <1>1, <1>2, <1>3, <1>4, <2>1
  <2>3. AnswersTo(s, t, step, result)
    BY <1>4, <2>1 DEF MigRows, AnswersTo
  <2> QED
    BY <1>1, <2>2, <2>3
<1>5. CASE ~(s.pc = step /\ s.ans = "wait")
  <2>1. mig' = [mig EXCEPT ![i] = s]
    BY <1>1, <1>2, <1>3, <1>5
  <2>2. AnswersTo(s, s, step, result)
    BY <1>5 DEF AnswersTo
  <2> QED
    BY <1>1, <2>1, <2>2
<1> QED
  BY <1>4, <1>5

\* What an answer leaves of the migration that gets it.
LEMMA AnsweredFacts ==
    ASSUME NEW s \in MigRows, CourseOf(s), NEW t \in MigRows, NEW step \in CallSteps, NEW result \in Results,
           AnswersTo(s, t, step, result)
    PROVE  /\ CourseOf(t)
           /\ HasCommitted(t) <=> HasCommitted(s)
           /\ Preparing(t) => Preparing(s)
           /\ Exported(t) => Exported(s) \/ (step = "export" /\ result = "ok")
           /\ Arrived(t) => Arrived(s) \/ (step = "commit" /\ result = "ok" /\ s.pc = "commit" /\ s.ans = "wait")
           /\ RolledBack(t) => RolledBack(s) \/ (step = "rollback" /\ result = "ok")
           /\ t.pc \in Switched <=> s.pc \in Switched
           /\ t.pc \in Back <=> s.pc \in Back
           /\ t.pc = "finalize" /\ t.ans = "ok" => s.ans = "ok" \/ (step = "finalize" /\ result = "ok")
           /\ t.pc = "complete" /\ t.ans = "ok" => s.ans = "ok" \/ (step = "complete" /\ result = "ok")
<1>1. step \notin {"new", "planned", "status", "apply", "decide", "unapply", "ok", "failed"}
  BY DEF CallSteps, SourceSteps, TargetSteps
<1>2. CourseOf(t)
  BY <1>1 DEF AnswersTo, CourseOf
<1>3. /\ HasCommitted(t) <=> HasCommitted(s)
      /\ t.pc \in Switched <=> s.pc \in Switched
      /\ t.pc \in Back <=> s.pc \in Back
  BY DEF AnswersTo, HasCommitted
<1>4. Preparing(t) => Preparing(s)
  BY DEF AnswersTo, Preparing, Results
<1>5. Arrived(t) => Arrived(s) \/ (step = "commit" /\ result = "ok" /\ s.pc = "commit" /\ s.ans = "wait")
  BY DEF AnswersTo, Arrived
<1>6. Exported(t) => Exported(s) \/ (step = "export" /\ result = "ok")
  BY <1>3, <1>5 DEF AnswersTo, Exported
<1>7. RolledBack(t) => RolledBack(s) \/ (step = "rollback" /\ result = "ok")
  BY DEF AnswersTo, RolledBack
<1>8. /\ t.pc = "finalize" /\ t.ans = "ok" => s.ans = "ok" \/ (step = "finalize" /\ result = "ok")
      /\ t.pc = "complete" /\ t.ans = "ok" => s.ans = "ok" \/ (step = "complete" /\ result = "ok")
  BY DEF AnswersTo
<1> QED
  BY <1>2, <1>3, <1>4, <1>5, <1>6, <1>7, <1>8

LEMMA AnsweredRow ==
    ASSUME MigTypeOK, MigTypeOK', NEW i \in Migrations, NEW s \in MigRows, MigOf(i, s), NEW t \in MigRows,
           NEW step \in CallSteps, NEW result \in Results, AnswersTo(s, t, step, result),
           NEW h \in Homes, h = IF step \in SourceSteps THEN s.from ELSE Other(s.from),
           \A g \in Homes, x \in CallSteps : Asked(g, i, x)' => Asked(g, i, x),
           ~Asked(h, i, step)',
           \A g \in Homes : admitted[g] <= admitted'[g],
           result = "ok" => admitted'[h] >= i
    PROVE  CourseOf(t) /\ CallsOf(i, t)' /\ TokenOf(i, t)'
<1>1. CourseOf(s) /\ CallsOf(i, s) /\ TokenOf(i, s)
  BY DEF MigOf
<1>2. /\ CourseOf(t)
      /\ HasCommitted(t) <=> HasCommitted(s)
      /\ Exported(t) => Exported(s) \/ (step = "export" /\ result = "ok")
      /\ Arrived(t) => Arrived(s) \/ (step = "commit" /\ result = "ok" /\ s.pc = "commit" /\ s.ans = "wait")
  BY <1>1, AnsweredFacts
<1>3. /\ t.pc = s.pc /\ t.from = s.from /\ t.committed = s.committed
      /\ s.ans = "wait" => t.ans = "wait" \/ s.pc = step
  BY DEF AnswersTo
<1>4. {"fetch", "write", "commit", "rollback", "finalize", "complete"} \subseteq CallSteps
  BY DEF CallSteps, SourceSteps, TargetSteps
<1>5. ASSUME NEW g \in Homes, Asked(g, i, step)' PROVE FALSE
  <2>1. Asked(g, i, step)
    BY <1>5
  <2>2. g = h
    BY <1>1, <2>1 DEF CallsOf
  <2> QED
    BY <1>5, <2>2
<1>6. CallsOf(i, t)'
  <2> SUFFICES ASSUME NEW g \in Homes
               PROVE  /\ \A x \in CallSteps : Asked(g, i, x)' =>
                            /\ t.pc \notin {"new", "planned", "status"}
                            /\ g = IF x \in SourceSteps THEN t.from ELSE Other(t.from)
                      /\ \A x \in {"fetch", "write", "commit", "rollback"} : Asked(g, i, x)' =>
                            (t.pc = x /\ t.ans = "wait") \/ (t.pc \in Back /\ ~t.committed)
                      /\ Asked(g, i, "rollback")' => t.pc # "rollback" \/ t.ans = "wait"
                      /\ Asked(g, i, "finalize")' \/ Asked(g, i, "complete")' => HasCommitted(t)
                      /\ Asked(g, i, "commit")' => ~Asked(g, i, "fetch")' /\ ~Asked(g, i, "write")'
    BY DEF CallsOf
  <2>1. \A x \in CallSteps : Asked(g, i, x)' => Asked(g, i, x) /\ x # step
    BY <1>5
  <2>2. \A x \in CallSteps : Asked(g, i, x)' =>
            /\ t.pc \notin {"new", "planned", "status"}
            /\ g = IF x \in SourceSteps THEN t.from ELSE Other(t.from)
    BY <1>1, <1>3, <2>1 DEF CallsOf
  <2>3. \A x \in {"fetch", "write", "commit", "rollback"} : Asked(g, i, x)' =>
            (t.pc = x /\ t.ans = "wait") \/ (t.pc \in Back /\ ~t.committed)
    BY <1>1, <1>3, <1>4, <2>1 DEF CallsOf
  <2>4. Asked(g, i, "rollback")' => t.pc # "rollback" \/ t.ans = "wait"
    BY <1>1, <1>3, <1>4, <2>1 DEF CallsOf
  <2>5. Asked(g, i, "finalize")' \/ Asked(g, i, "complete")' => HasCommitted(t)
    BY <1>1, <1>2, <1>4, <2>1 DEF CallsOf
  <2>6. Asked(g, i, "commit")' => ~Asked(g, i, "fetch")' /\ ~Asked(g, i, "write")'
    BY <1>1, <1>4, <2>1 DEF CallsOf
  <2> QED
    BY <2>2, <2>3, <2>4, <2>5, <2>6
<1>7. TokenOf(i, t)'
  <2>1. TokenOf(i, s)'
    BY <1>1, TokenStays
  <2>2. step = "export" => h = s.from
    BY DEF SourceSteps
  <2>3. step = "commit" => h = Other(s.from)
    BY DEF SourceSteps
  <2>4. s.pc = "commit" => Exported(s)
    BY DEF Exported
  <2>5. Exported(t) => admitted'[t.from] >= i
    BY <1>2, <1>3, <2>1, <2>2 DEF TokenOf
  <2>6. Arrived(t) \/ HasCommitted(t) => admitted'[Other(t.from)] >= i
    BY <1>2, <1>3, <2>1, <2>3 DEF TokenOf
  <2> QED
    BY <2>5, <2>6 DEF TokenOf
<1> QED
  BY <1>2, <1>6, <1>7

\* The request is executed or refused, and its token admitted or not.
LEMMA RequestGone ==
    ASSUME MigTypeOK, NEW h \in Homes, NEW i \in Migrations, NEW step \in CallSteps,
           calls' = [calls EXCEPT ![h] = @ \ {[id |-> i, step |-> step]}]
    PROVE  /\ calls' \in [Homes -> SUBSET [id : Migrations, step : CallSteps]]
           /\ \A g \in Homes, k \in Migrations, x \in CallSteps :
                 Asked(g, k, x)' <=> Asked(g, k, x) /\ ~(g = h /\ k = i /\ x = step)
<1>1. calls \in [Homes -> SUBSET [id : Migrations, step : CallSteps]]
  BY DEF MigTypeOK
<1>2. \A g \in Homes : calls'[g] = IF g = h THEN calls[g] \ {[id |-> i, step |-> step]} ELSE calls[g]
  BY <1>1
<1>3. ASSUME NEW g \in Homes, NEW k \in Migrations, NEW x \in CallSteps
      PROVE  [id |-> k, step |-> x] \in calls'[g] <=>
                [id |-> k, step |-> x] \in calls[g] /\ ~(g = h /\ k = i /\ x = step)
  <2>1. PICK q : q = [id |-> k, step |-> x]
    OBVIOUS
  <2>2. PICK p : p = [id |-> i, step |-> step]
    OBVIOUS
  <2>3. q = p <=> k = i /\ x = step
    BY <2>1, <2>2
  <2>4. calls'[g] = IF g = h THEN calls[g] \ {p} ELSE calls[g]
    BY <1>2, <2>2
  <2>5. q \in calls'[g] <=> q \in calls[g] /\ ~(g = h /\ q = p)
    BY <2>4
  <2> QED
    BY <2>1, <2>3, <2>5
<1>4. calls' \in [Homes -> SUBSET [id : Migrations, step : CallSteps]]
  BY <1>1
<1> QED
  BY <1>3, <1>4 DEF Asked

LEMMA AdmittedGrows ==
    ASSUME MigTypeOK, NEW h \in Homes, NEW i \in Migrations,
           UNCHANGED admitted \/ (i >= admitted[h] /\ admitted' = [admitted EXCEPT ![h] = i])
    PROVE  /\ admitted' \in [Homes -> {0} \cup Migrations]
           /\ \A g \in Homes : admitted[g] <= admitted'[g] /\ (admitted'[g] = admitted[g] \/ admitted'[g] = i)
           /\ \A g \in Homes, k \in Migrations : admitted'[g] <= k => admitted[g] <= k
           /\ \A g \in Homes, k \in Migrations : admitted[g] >= k => admitted'[g] >= k
<1>1. admitted \in [Homes -> {0} \cup Migrations]
  BY DEF MigTypeOK
<1>2. admitted' \in [Homes -> {0} \cup Migrations]
  BY <1>1
<1>3. \A g \in Homes : admitted[g] \in Int /\ admitted'[g] \in Int
  <2>1. {0} \cup Migrations \subseteq Int
    BY MigBasics
  <2> QED
    BY <1>1, <1>2, <2>1
<1>4. \A k \in Migrations : k \in Int
  BY AdmittedNumbers
<1>5. \A g \in Homes : admitted[g] <= admitted'[g] /\ (admitted'[g] = admitted[g] \/ admitted'[g] = i)
  <2>1. CASE UNCHANGED admitted
    BY <1>3, <2>1
  <2>2. CASE i >= admitted[h] /\ admitted' = [admitted EXCEPT ![h] = i]
    <3>1. \A g \in Homes : admitted'[g] = IF g = h THEN i ELSE admitted[g]
      BY <1>1, <2>2
    <3> QED
      BY <1>3, <1>4, <2>2, <3>1
  <2> QED
    BY <2>1, <2>2
<1> QED
  BY <1>2, <1>3, <1>4, <1>5

\* A request that moves nothing, with its answer.
LEMMA AnsweredKeeps ==
    ASSUME MigInv, NEW h \in Homes, NEW i \in Migrations, NEW step \in CallSteps, NEW result \in Results,
           Asked(h, i, step), Answer([id |-> i, step |-> step], result),
           calls' = [calls EXCEPT ![h] = @ \ {[id |-> i, step |-> step]}],
           Calm, export' \in [Migrations -> BOOLEAN],
           runs' \in [Homes -> BOOLEAN], breaks' \in 0 .. MaxBreaks, UNCHANGED revision,
           import' \in [Migrations -> {"none", "begun", "full"}],
           \A k \in Migrations \ {i} : import'[k] = import[k],
           import'[i] = "full" => import[i] = "full" \/ step \in {"write", "fetch"},
           step \in {"commit", "rollback", "finalize", "complete"} => result # "ok",
           \/ UNCHANGED admitted /\ result # "ok"
           \/ i >= admitted[h] /\ admitted' = [admitted EXCEPT ![h] = i]
    PROVE  MigInv'
<1>1. PICK s \in MigRows : s = mig[i] /\ CourseOf(s) /\ MigOf(i, s)
  BY AtWork
<1>2. MigTypeOK /\ mig \in [Migrations -> MigRows] /\ calls \in [Homes -> SUBSET [id : Migrations, step : CallSteps]]
      /\ admitted \in [Homes -> {0} \cup Migrations]
  BY MigTyped DEF MigInv, MigTypeOK
<1>3. PICK t \in MigRows : mig' = [mig EXCEPT ![i] = t] /\ AnswersTo(s, t, step, result)
  BY <1>1, <1>2, AnswerTo
<1>4. MigTypeOK'
  <2>1. mig' \in [Migrations -> MigRows]
    BY <1>2, <1>3
  <2>2. calls' \in [Homes -> SUBSET [id : Migrations, step : CallSteps]]
    BY <1>2, RequestGone
  <2>3. admitted' \in [Homes -> {0} \cup Migrations]
    BY <1>2, AdmittedGrows
  <2> QED
    BY <1>2, <2>1, <2>2, <2>3 DEF MigTypeOK, MigRows, Calm
<1>5. \A g \in Homes, k \in Migrations, x \in CallSteps :
         Asked(g, k, x)' <=> Asked(g, k, x) /\ ~(g = h /\ k = i /\ x = step)
  BY <1>2, RequestGone
<1>6. /\ s.pc \notin {"new", "planned", "status"}
      /\ h = IF step \in SourceSteps THEN s.from ELSE Other(s.from)
  BY <1>1 DEF MigOf, CallsOf
<1>7. \A g \in Homes : admitted[g] <= admitted'[g] /\ (admitted'[g] = admitted[g] \/ admitted'[g] = i)
  BY <1>2, AdmittedGrows
<1>8. result = "ok" => admitted'[h] >= i
  <2>1. i \in Int
    BY AdmittedNumbers
  <2>2. result = "ok" => admitted'[h] = i
    BY <1>2
  <2> QED
    BY <2>1, <2>2
<1>9. \A g \in Homes, x \in CallSteps : Asked(g, i, x)' => Asked(g, i, x)
  BY <1>5
<1>10. ~Asked(h, i, step)'
  BY <1>5
<1>11. CourseOf(t) /\ CallsOf(i, t)' /\ TokenOf(i, t)'
  BY <1>1, <1>2, <1>3, <1>4, <1>6, <1>7, <1>8, <1>9, <1>10, AnsweredRow
<1>12. /\ HasCommitted(t) <=> HasCommitted(s)
       /\ Preparing(t) => Preparing(s)
       /\ Arrived(t) => Arrived(s)
       /\ RolledBack(t) => RolledBack(s)
       /\ t.pc \in Switched <=> s.pc \in Switched
       /\ t.pc \in Back <=> s.pc \in Back
       /\ t.pc = "finalize" /\ t.ans = "ok" => s.ans = "ok"
       /\ t.pc = "complete" /\ t.ans = "ok" => s.ans = "ok"
  BY <1>1, <1>3, AnsweredFacts
<1>13. /\ t.pc = s.pc /\ t.from = s.from /\ t.committed = s.committed /\ t.bad = s.bad
       /\ s.pc # step => t.ans = s.ans
  BY <1>3 DEF AnswersTo
<1>14. UNCHANGED <<disk, receipt, archive, halfway, torn, placed, astray>>
  BY DEF Calm
<1>15. Done \subseteq Done'
  BY <1>1, <1>2, <1>3, <1>12 DEF Done
<1>16. {"fetch", "write", "commit", "rollback", "finalize", "complete"} \subseteq CallSteps
  BY DEF CallSteps, SourceSteps, TargetSteps
<1>17. MarkOf(i, t)' /\ ArrivedOf(i, t)'
  <2>1. MarkOf(i, s) /\ ArrivedOf(i, s)
    BY <1>1 DEF MigOf
  <2>2. ArrivedOf(i, t)'
    BY <1>12, <1>13, <1>14, <2>1 DEF ArrivedOf
  <2>3. MarkOf(i, t)'
    BY <1>12, <1>13, <1>14, <1>15, <2>1 DEF MarkOf
  <2> QED
    BY <2>2, <2>3
<1>18. HalfwayOf(i, t)'
  <2> SUFFICES ASSUME NEW g \in Homes, halfway[g] = i
               PROVE  /\ disk[g] = i /\ admitted'[g] >= i /\ ~Asked(g, i, "commit")'
                      /\ \/ t.pc = "commit" /\ t.ans = "wait"
                         \/ t.pc \in Back /\ ~t.committed /\ ~RolledBack(t)
    BY <1>14 DEF HalfwayOf
  <2>1. /\ disk[g] = i /\ admitted[g] >= i /\ ~Asked(g, i, "commit")
        /\ \/ s.pc = "commit" /\ s.ans = "wait"
           \/ s.pc \in Back /\ ~s.committed /\ ~RolledBack(s)
    BY <1>1 DEF MigOf, HalfwayOf
  <2>2. admitted'[g] >= i
    <3>1. admitted[g] \in Int /\ admitted'[g] \in Int /\ i \in Int
      BY <1>2, <1>4, AdmittedNumbers
    <3> QED
      BY <1>7, <2>1, <3>1
  <2>3. ~Asked(g, i, "commit")'
    BY <1>5, <1>16, <2>1
  <2>4. CASE s.pc = "commit" /\ s.ans = "wait"
    <3>1. g = Other(s.from)
      BY <1>1, <2>1 DEF MigOf, MarkOf
    <3>2. step # "commit"
      BY <1>6, <2>1, <3>1 DEF SourceSteps
    <3> QED
      BY <1>13, <2>1, <2>2, <2>3, <2>4, <3>2
  <2>5. CASE s.pc \in Back /\ ~s.committed /\ ~RolledBack(s)
    BY <1>12, <1>13, <2>1, <2>2, <2>3, <2>5
  <2> QED
    BY <2>1, <2>4, <2>5
<1>19. CommittedOf(i, t)'
  <2>1. Held(i)' => Held(i)
    <3>1. \A k \in Migrations : mig'[k].pc \in {"new", "planned"} => mig[k].pc \in {"new", "planned"}
      BY <1>1, <1>2, <1>3, <1>13
    <3> QED
      BY <3>1, HeldStays
  <2>2. admitted'[s.from] <= i => admitted[s.from] <= i
    <3>1. s.from \in Homes
      BY <1>2, MigTyped
    <3>2. admitted[s.from] \in Int /\ admitted'[s.from] \in Int /\ i \in Int
      BY <1>2, <1>4, <3>1, AdmittedNumbers
    <3> QED
      BY <1>7, <3>1, <3>2
  <2>3. CommittedOf(i, s)
    BY <1>1 DEF MigOf
  <2> QED
    BY <1>12, <1>13, <1>14, <1>15, <2>1, <2>2, <2>3 DEF CommittedOf
<1>20. AwayOf(i, t)'
  <2>1. AwayOf(i, s) /\ CallsOf(i, s)
    BY <1>1 DEF MigOf
  <2>2. \A g \in Homes : Asked(g, i, "commit")' => Asked(g, i, "commit")
    BY <1>9, <1>16
  <2>3. ASSUME NEW g \in Homes, Asked(g, i, "commit"), import'[i] = "full"
        PROVE  import[i] = "full"
    <3>1. step \notin {"write", "fetch"}
      <4>1. SUFFICES ASSUME step \in {"write", "fetch"} PROVE FALSE
        OBVIOUS
      <4>2. g = Other(s.from) /\ h = Other(s.from)
        BY <1>6, <1>16, <2>1, <2>3, <4>1 DEF CallsOf, SourceSteps
      <4> QED
        BY <2>1, <2>3, <4>1, <4>2 DEF CallsOf
    <3> QED
      BY <2>3, <3>1
  <2> QED
    BY <1>12, <1>13, <1>14, <2>1, <2>2, <2>3 DEF AwayOf
<1>21. MigOf(i, t)'
  BY <1>11, <1>17, <1>18, <1>19, <1>20 DEF MigOf
<1>22. \A g \in Homes, k \in Migrations \ {i}, x \in CallSteps : Asked(g, k, x)' => Asked(g, k, x)
  BY <1>5
<1>23. /\ HasCommitted(mig[i]) => HasCommitted(t)
       /\ t.pc \in {"new", "planned"} => mig[i].pc \in {"new", "planned"}
       /\ \A g \in Homes : admitted'[g] = admitted[g] \/ (admitted'[g] = i /\ t.pc \notin {"new", "planned"})
  BY <1>1, <1>6, <1>7, <1>12, <1>13
<1> QED
  BY <1>3, <1>4, <1>7, <1>21, <1>22, <1>23, CalmStep

\* A request is a step of a migration.
LEMMA Requested ==
    ASSUME MigTypeOK, NEW h \in Homes, NEW r \in calls[h]
    PROVE  \E i \in Migrations, step \in CallSteps :
              r = [id |-> i, step |-> step] /\ r.id = i /\ r.step = step /\ Asked(h, i, step)
<1>1. r \in [id : Migrations, step : CallSteps]
  BY DEF MigTypeOK
<1>2. r = [id |-> r.id, step |-> r.step] /\ r.id \in Migrations /\ r.step \in CallSteps
  BY <1>1
<1> QED
  BY <1>2 DEF Asked

LEMMA Taken ==
    ASSUME MigInv, NEW h \in Homes, NEW i \in Migrations, NEW step \in CallSteps, NEW steps,
           Take(h, [id |-> i, step |-> step], steps)
    PROVE  /\ step \in steps /\ i >= admitted[h] /\ halfway[h] = 0
           /\ calls' = [calls EXCEPT ![h] = @ \ {[id |-> i, step |-> step]}]
           /\ admitted' = [admitted EXCEPT ![h] = i]
           /\ placed' = placed /\ revision' = revision /\ astray' = astray
  BY DEF Take, placeVars

\* Rejected, lost, failed.
LEMMA RefusalsKeep ==
    ASSUME MigInv, NEW h \in Homes, NEW r \in calls[h], Reject(h, r) \/ Lose(h, r) \/ ExecError(h, r)
    PROVE  MigInv'
<1>1. MigTypeOK
  BY DEF MigInv
<1>2. PICK i \in Migrations, step \in CallSteps :
         r = [id |-> i, step |-> step] /\ r.id = i /\ r.step = step /\ Asked(h, i, step)
  BY <1>1, Requested
<1>3. /\ \/ Answer([id |-> i, step |-> step], "refused") /\ UNCHANGED admitted
         \/ /\ Answer([id |-> i, step |-> step], "failed")
            /\ i >= admitted[h] /\ admitted' = [admitted EXCEPT ![h] = i]
      /\ calls' = [calls EXCEPT ![h] = @ \ {[id |-> i, step |-> step]}]
      /\ UNCHANGED <<diskVars, placeVars, runs>>
      /\ Break(~Able(h, r)) \/ UNCHANGED breaks
  <2>1. CASE Reject(h, r)
    BY <1>2, <2>1 DEF Reject
  <2>2. CASE Lose(h, r)
    <3>1. mig[i].pc # step
      <4>1. PICK g \in Homes : r \in calls[g] /\ mig[r.id].pc # r.step
        BY <2>2 DEF Lose, Late
      <4> QED
        BY <1>2, <4>1
    <3>2. Answer([id |-> i, step |-> step], "refused")
      BY <2>2, <3>1 DEF Lose, Answer
    <3> QED
      BY <1>2, <2>2, <3>2 DEF Lose
  <2>3. CASE ExecError(h, r)
    <3>1. Take(h, [id |-> i, step |-> step], CallSteps)
      BY <1>2, <2>3 DEF ExecError
    <3> QED
      BY <1>2, <2>3, <3>1, Taken DEF ExecError, placeVars
  <2> QED
    BY <2>1, <2>2, <2>3
<1>4. breaks' \in 0 .. MaxBreaks
  BY <1>1, <1>3, BreakTyped
<1>5. Calm /\ UNCHANGED <<export, import, revision, runs>>
  BY <1>3 DEF Calm, diskVars, placeVars
<1>6. /\ export' \in [Migrations -> BOOLEAN] /\ runs' \in [Homes -> BOOLEAN]
      /\ import' \in [Migrations -> {"none", "begun", "full"}]
      /\ \A k \in Migrations \ {i} : import'[k] = import[k]
      /\ import'[i] = "full" => import[i] = "full" \/ step \in {"write", "fetch"}
  BY <1>1, <1>5 DEF MigTypeOK
<1>7. PICK result \in Results : /\ Answer([id |-> i, step |-> step], result) /\ result # "ok"
                                /\ \/ UNCHANGED admitted
                                   \/ i >= admitted[h] /\ admitted' = [admitted EXCEPT ![h] = i]
  BY <1>3 DEF Results
<1>8. step \in {"commit", "rollback", "finalize", "complete"} => result # "ok"
  BY <1>7
<1> QED
  BY <1>2, <1>3, <1>4, <1>5, <1>6, <1>7, <1>8, AnsweredKeeps

\* Stop and start, the archive of the source and the staging file.
LEMMA QuietStepsKeep ==
    ASSUME MigInv, NEW h \in Homes, NEW r \in calls[h],
           \/ ExecStop(h, r) \/ ExecStart(h, r) \/ PrepareExport(h, r) \/ ReleaseExport(h, r)
           \/ BeginImport(h, r) \/ ReceiveImport(h, r) \/ CompleteSource(h, r)
    PROVE  MigInv'
<1>1. MigTypeOK
  BY DEF MigInv
<1>2. PICK i \in Migrations, step \in CallSteps :
         r = [id |-> i, step |-> step] /\ r.id = i /\ r.step = step /\ Asked(h, i, step)
  BY <1>1, Requested
<1>3. PICK steps : /\ Take(h, r, steps)
                   /\ steps \cap {"commit", "rollback", "finalize", "complete"} = {}
                   /\ Answer(r, "ok") \/ Answer(r, "failed")
                   /\ Break(FALSE) \/ UNCHANGED breaks
                   /\ UNCHANGED <<disk, receipt, archive, halfway, torn>>
                   /\ runs' = runs \/ \E on \in BOOLEAN : runs' = [runs EXCEPT ![h] = on]
                   /\ export' = export \/ \E on \in BOOLEAN : export' = [export EXCEPT ![i] = on]
                   /\ \/ UNCHANGED import
                      \/ import' = [import EXCEPT ![i] = "begun"]
                      \/ import' = [import EXCEPT ![i] = "full"] /\ steps = {"write", "fetch"}
  <2>1. CASE ExecStop(h, r)
    <3>1. Take(h, r, {"stop", "halt"})
      BY <2>1 DEF ExecStop
    <3> QED
      BY <2>1, <3>1 DEF ExecStop, diskVars
  <2>2. CASE ExecStart(h, r)
    <3>1. Take(h, r, {"launch", "restart", "again"})
      BY <2>2 DEF ExecStart
    <3> QED
      BY <2>2, <3>1 DEF ExecStart, diskVars
  <2>3. CASE PrepareExport(h, r)
    <3>1. Take(h, r, {"export"})
      BY <2>3 DEF PrepareExport, Exec
    <3> QED
      BY <1>2, <2>3, <3>1 DEF PrepareExport, Exec
  <2>4. CASE ReleaseExport(h, r)
    <3>1. Take(h, r, {"release", "unexport"})
      BY <2>4 DEF ReleaseExport, Exec
    <3> QED
      BY <1>2, <2>4, <3>1 DEF ReleaseExport, Exec
  <2>5. CASE BeginImport(h, r)
    <3>1. Take(h, r, {"begin", "rebegin"})
      BY <2>5 DEF BeginImport, Exec
    <3> QED
      BY <1>2, <2>5, <3>1 DEF BeginImport, Exec
  <2>6. CASE ReceiveImport(h, r)
    <3>1. Take(h, r, {"write", "fetch"})
      BY <2>6 DEF ReceiveImport, Exec
    <3> QED
      BY <1>2, <2>6, <3>1 DEF ReceiveImport, Exec
  <2>7. CASE CompleteSource(h, r)
    <3>1. Take(h, r, {"retire"})
      BY <2>7 DEF CompleteSource, Exec
    <3> QED
      BY <2>7, <3>1 DEF CompleteSource, Exec, diskVars
  <2> QED
    BY <2>1, <2>2, <2>3, <2>4, <2>5, <2>6, <2>7
<1>4. Take(h, [id |-> i, step |-> step], steps)
  BY <1>2, <1>3
<1>5. /\ step \in steps /\ i >= admitted[h]
      /\ calls' = [calls EXCEPT ![h] = @ \ {[id |-> i, step |-> step]}]
      /\ admitted' = [admitted EXCEPT ![h] = i]
      /\ placed' = placed /\ revision' = revision /\ astray' = astray
  BY <1>4, Taken
<1>6. breaks' \in 0 .. MaxBreaks
  BY <1>1, <1>3, BreakTyped
<1>7. Calm /\ UNCHANGED revision
  BY <1>3, <1>5 DEF Calm
<1>8. runs' \in [Homes -> BOOLEAN] /\ export' \in [Migrations -> BOOLEAN]
  <2>1. runs \in [Homes -> BOOLEAN] /\ export \in [Migrations -> BOOLEAN]
    BY <1>1 DEF MigTypeOK
  <2>2. \A on \in BOOLEAN : [runs EXCEPT ![h] = on] \in [Homes -> BOOLEAN]
    BY <2>1
  <2>3. \A on \in BOOLEAN : [export EXCEPT ![i] = on] \in [Migrations -> BOOLEAN]
    BY <2>1
  <2>4. runs' = runs \/ \E on \in BOOLEAN : runs' = [runs EXCEPT ![h] = on]
    BY <1>3
  <2>5. export' = export \/ \E on \in BOOLEAN : export' = [export EXCEPT ![i] = on]
    BY <1>3
  <2>6. runs' \in [Homes -> BOOLEAN]
    BY ONLY <2>1, <2>2, <2>4
  <2>7. export' \in [Migrations -> BOOLEAN]
    BY ONLY <2>1, <2>3, <2>5
  <2> QED
    BY <2>6, <2>7
<1>9. /\ import' \in [Migrations -> {"none", "begun", "full"}]
      /\ \A k \in Migrations \ {i} : import'[k] = import[k]
      /\ import'[i] = "full" => import[i] = "full" \/ step \in {"write", "fetch"}
  BY <1>1, <1>3, <1>5 DEF MigTypeOK
<1>10. PICK result \in Results : Answer([id |-> i, step |-> step], result)
  BY <1>2, <1>3 DEF Results
<1>11. /\ step \in {"commit", "rollback", "finalize", "complete"} => result # "ok"
       /\ \/ UNCHANGED admitted /\ result # "ok"
          \/ i >= admitted[h] /\ admitted' = [admitted EXCEPT ![h] = i]
  BY <1>3, <1>5
<1> QED
  BY <1>2, <1>5, <1>6, <1>7, <1>8, <1>9, <1>10, <1>11, AnsweredKeeps

\* The import is renamed into place where nothing is: the other machine has the world.
LEMMA CommitRenameKeeps ==
    ASSUME MigInv, NEW h \in Homes, NEW r \in calls[h], CommitRename(h, r)
    PROVE  MigInv'
<1>1. MigTypeOK /\ disk \in [Homes -> {NoWorld, Unmarked} \cup Migrations] /\ halfway \in [Homes -> {0} \cup Migrations]
  BY DEF MigInv, MigTypeOK
<1>2. PICK i \in Migrations, step \in CallSteps :
         r = [id |-> i, step |-> step] /\ r.id = i /\ r.step = step /\ Asked(h, i, step)
  BY <1>1, Requested
<1>3. Take(h, [id |-> i, step |-> step], {"commit"})
  BY <1>2 DEF CommitRename, Exec
<1>4. /\ step = "commit" /\ i >= admitted[h] /\ halfway[h] = 0
      /\ calls' = [calls EXCEPT ![h] = @ \ {[id |-> i, step |-> step]}]
      /\ admitted' = [admitted EXCEPT ![h] = i]
      /\ placed' = placed /\ revision' = revision /\ astray' = astray
  BY <1>3, Taken
<1>5. /\ import[i] = "full" /\ disk[h] = NoWorld
      /\ disk' = [disk EXCEPT ![h] = i] /\ halfway' = [halfway EXCEPT ![h] = i]
      /\ UNCHANGED <<export, import, receipt, archive, torn, runs, mig, breaks>>
  BY <1>2, <1>4 DEF CommitRename, Exec, Able
<1>6. PICK g \in Homes : g = Other(h) /\ g # h /\ Other(g) = h /\ \A x \in Homes : x = h \/ x = g
  BY MigBasics
<1>7. PICK s \in MigRows : s = mig[i] /\ CourseOf(s) /\ MigOf(i, s)
  BY AtWork
<1>8. /\ h = Other(s.from) /\ s.from = g
      /\ (s.pc = "commit" /\ s.ans = "wait") \/ (s.pc \in Back /\ ~s.committed)
  <2>1. s.from \in Homes
    BY <1>1, MigTyped
  <2>2. CallsOf(i, s) /\ Asked(h, i, "commit") /\ "commit" \in CallSteps /\ "commit" \notin SourceSteps
    BY <1>2, <1>4, <1>7 DEF MigOf, SourceSteps
  <2>3. h = Other(s.from) /\ ((s.pc = "commit" /\ s.ans = "wait") \/ (s.pc \in Back /\ ~s.committed))
    BY <2>2 DEF CallsOf
  <2> QED
    BY <1>6, <2>1, <2>3, MigBasics
<1>9. /\ ~HasCommitted(s) /\ ~Preparing(s) /\ ~Arrived(s) /\ s.pc \notin Switched
  BY <1>7, <1>8 DEF CourseOf, HasCommitted, Preparing, Arrived, Early, Switched, Back, Forth
<1>10. ~RolledBack(s)
  BY <1>2, <1>4, <1>5, <1>7 DEF MigOf, AwayOf
<1>11. disk[g] # NoWorld
  BY <1>5, <1>6 DEF MigInv, WorldKept
<1>12. ASSUME NEW k \in Migrations, disk[g] = k
       PROVE  k # i /\ HasCommitted(mig[k]) /\ g = Other(mig[k].from) /\ ~Preparing(mig[k]) /\ k \in Done
  <2>1. MarkOf(k, mig[k])
    BY DEF MigInv, MigOf
  <2>2. HasCommitted(mig[k]) /\ g = Other(mig[k].from) /\ ~Preparing(mig[k])
    BY <1>5, <1>6, <1>12, <2>1 DEF MarkOf
  <2> QED
    BY <1>7, <1>9, <2>2 DEF Done
<1>13. ~astray => placed = g
  BY <1>1, <1>5, <1>6 DEF MigInv, MigTypeOK, PlacementServed
<1>14. /\ \A x \in Homes : disk'[x] = IF x = h THEN i ELSE disk[x]
       /\ \A x \in Homes : halfway'[x] = IF x = h THEN i ELSE halfway[x]
  BY <1>1, <1>5
<1>15. /\ admitted' \in [Homes -> {0} \cup Migrations]
       /\ \A x \in Homes : admitted[x] <= admitted'[x] /\ (admitted'[x] = admitted[x] \/ admitted'[x] = i)
       /\ \A x \in Homes, k \in Migrations : admitted'[x] <= k => admitted[x] <= k
       /\ \A x \in Homes, k \in Migrations : admitted[x] >= k => admitted'[x] >= k
       /\ admitted'[h] = i
  <2>1. UNCHANGED admitted \/ (i >= admitted[h] /\ admitted' = [admitted EXCEPT ![h] = i])
    BY <1>4
  <2>2. admitted'[h] = i
    BY <1>1, <1>4 DEF MigTypeOK
  <2> QED
    BY <1>1, <2>1, <2>2, AdmittedGrows
<1>16. /\ calls' \in [Homes -> SUBSET [id : Migrations, step : CallSteps]]
       /\ \A x \in Homes, k \in Migrations, y \in CallSteps :
             Asked(x, k, y)' <=> Asked(x, k, y) /\ ~(x = h /\ k = i /\ y = step)
  BY <1>1, <1>4, RequestGone
<1>17. MigTypeOK'
  <2>1. disk' \in [Homes -> {NoWorld, Unmarked} \cup Migrations] /\ halfway' \in [Homes -> {0} \cup Migrations]
    BY <1>1, <1>5
  <2> QED
    BY <1>1, <1>4, <1>5, <1>15, <1>16, <2>1 DEF MigTypeOK
<1>18. mig' = mig /\ Done' = Done /\ (\A k \in Migrations : Held(k)' <=> Held(k)) /\ i # NoWorld /\ i # Unmarked /\ NoWorld # Unmarked /\ i # 0
  BY <1>5, MigBasics DEF Done, Held
<1>19. i \in Int /\ \A k \in Migrations : k \in Int /\ admitted[h] \in Int
  BY <1>1, AdmittedNumbers
<1>20. ASSUME NEW k \in Migrations, NEW u, u = mig[k]
       PROVE  MigOf(k, u)'
  <2>1. MigOf(k, u) /\ CourseOf(u) /\ u \in MigRows /\ u.from \in Homes /\ Other(u.from) \in Homes
    BY <1>1, <1>20, AtWork, MigTyped
  <2>2. (k = i => u = s) /\ (HasCommitted(u) <=> k \in Done)
    BY <1>7, <1>20 DEF Done
  <2>3. MarkOf(k, u)'
    <3> SUFFICES ASSUME NEW x \in Homes, disk'[x] = k
                 PROVE  /\ x = Other(u.from) /\ ~Preparing(u)
                        /\ ~HasCommitted(u) =>
                              /\ disk'[Other(x)] # NoWorld
                              /\ disk'[Other(x)] \in Migrations => disk'[Other(x)] \in Done
                              /\ ~astray /\ u.pc \notin Switched => placed = u.from
                              /\ halfway'[x] = k \/ receipt[k] \/ torn
      BY <1>4, <1>5, <1>18 DEF MarkOf
    <3>1. CASE x = h
      <4>1. k = i /\ u = s
        BY <1>14, <2>2, <3>1
      <4>2. disk'[Other(x)] = disk[g]
        BY <1>6, <1>14, <3>1
      <4> QED
        BY <1>8, <1>9, <1>11, <1>12, <1>13, <1>14, <3>1, <4>1, <4>2
    <3>2. CASE x = g
      <4>1. disk[g] = k
        BY <1>6, <1>14, <3>2
      <4> QED
        BY <1>12, <1>20, <3>2, <4>1
    <3> QED
      BY <1>6, <3>1, <3>2
  <2>4. HalfwayOf(k, u)'
    <3> SUFFICES ASSUME NEW x \in Homes, halfway'[x] = k
                 PROVE  /\ disk'[x] = k /\ admitted'[x] >= k /\ ~Asked(x, k, "commit")'
                        /\ \/ u.pc = "commit" /\ u.ans = "wait"
                           \/ u.pc \in Back /\ ~u.committed /\ ~RolledBack(u)
      BY DEF HalfwayOf
    <3>1. CASE x = h
      <4>1. k = i /\ u = s /\ disk'[x] = k
        BY <1>14, <2>2, <3>1
      <4>2. admitted'[x] >= k
        BY <1>15, <1>19, <3>1, <4>1
      <4>3. ~Asked(x, k, "commit")'
        BY <1>2, <1>4, <1>16, <3>1, <4>1
      <4> QED
        BY <1>8, <1>10, <4>1, <4>2, <4>3
    <3>2. CASE x = g
      <4>1. halfway[g] = k
        BY <1>6, <1>14, <3>2
      <4>2. /\ disk[g] = k /\ admitted[g] >= k /\ ~Asked(g, k, "commit")
            /\ \/ u.pc = "commit" /\ u.ans = "wait"
               \/ u.pc \in Back /\ ~u.committed /\ ~RolledBack(u)
        BY <2>1, <4>1 DEF MigOf, HalfwayOf
      <4>3. disk'[g] = k /\ admitted'[g] >= k /\ ~Asked(g, k, "commit")'
        BY <1>2, <1>4, <1>6, <1>14, <1>15, <1>16, <4>2
      <4> QED
        BY <3>2, <4>2, <4>3
    <3> QED
      BY <1>6, <3>1, <3>2
  <2>5. ArrivedOf(k, u)'
    <3>1. ArrivedOf(k, u)
      BY <2>1 DEF MigOf
    <3>2. Arrived(u) => disk'[Other(u.from)] = k
      <4>1. Arrived(u) => disk[Other(u.from)] = k
        BY <3>1 DEF ArrivedOf
      <4>2. Arrived(u) => Other(u.from) # h
        BY <1>5, <4>1, MigBasics
      <4> QED
        BY <1>14, <2>1, <4>1, <4>2
    <3> QED
      BY <1>4, <3>1, <3>2 DEF ArrivedOf
  <2>6. CommittedOf(k, u)'
    <3>1. SUFFICES ASSUME HasCommitted(u), admitted'[u.from] <= k PROVE FALSE
      BY DEF CommittedOf
    <3>2. admitted[u.from] <= k
      BY <1>15, <2>1, <3>1
    <3>3. disk[Other(u.from)] \in {k, Unmarked}
      BY <2>1, <3>1, <3>2 DEF MigOf, CommittedOf
    <3>4. CASE u.from = g
      BY <1>5, <1>6, <1>18, <3>3, <3>4, MigBasics
    <3>5. CASE u.from = h
      <4>1. admitted[h] >= k
        BY <2>1, <3>1, <3>5 DEF MigOf, TokenOf, Exported
      <4>2. i = k
        BY <1>4, <1>15, <1>19, <3>1, <3>5, <4>1
      <4> QED
        BY <1>9, <2>2, <3>1, <4>2
    <3> QED
      BY <1>6, <2>1, <3>4, <3>5
  <2>7. AwayOf(k, u)'
    <3>1. AwayOf(k, u)
      BY <2>1 DEF MigOf
    <3>2. \A x \in Homes : Asked(x, k, "commit")' => Asked(x, k, "commit")
      BY <1>2, <1>4, <1>16
    <3>3. RolledBack(u) /\ disk[Other(u.from)] # k => disk'[Other(u.from)] # k
      BY <1>10, <1>14, <2>1, <2>2
    <3> QED
      BY <1>5, <3>1, <3>2, <3>3 DEF AwayOf
  <2>8. /\ \A x \in Homes : admitted[x] <= admitted'[x]
        /\ \A x \in Homes, y \in CallSteps : Asked(x, k, y)' => Asked(x, k, y)
    BY <1>15, <1>16
  <2> QED
    BY <1>17, <1>20, <2>3, <2>4, <2>5, <2>6, <2>7, <2>8, OtherRow
<1>21. Admissions'
  <2>1. mig' = [mig EXCEPT ![i] = s]
    BY <1>1, <1>5, <1>7, MigTyped
  <2>2. s.pc \notin {"new", "planned"}
    BY <1>8 DEF Back
  <2> QED
    BY <1>15, <1>17, <2>1, <2>2, AdmissionsKept
<1>22. PlacementServed' /\ WorldKept'
  BY <1>1, <1>4, <1>6, <1>11, <1>13, <1>14, <1>18 DEF PlacementServed, WorldKept
<1>23. \A k \in Migrations : MigOf(k, mig[k])'
  <2> SUFFICES ASSUME NEW k \in Migrations PROVE MigOf(k, mig[k])'
    OBVIOUS
  <2>1. PICK u : u = mig[k]
    OBVIOUS
  <2>2. MigOf(k, u)' /\ mig'[k] = u
    BY <1>18, <1>20, <2>1
  <2> QED
    BY <2>2 DEF MigOf, CallsOf, TokenOf, MarkOf, HalfwayOf, ArrivedOf, CommittedOf, AwayOf
<1> QED
  BY <1>17, <1>21, <1>22, <1>23 DEF MigInv

LEMMA DiesHalfwayKeeps ==
    ASSUME MigInv, NEW h \in Homes, DiesHalfway(h)
    PROVE  MigInv'
<1>1. /\ halfway' = [halfway EXCEPT ![h] = 0] /\ torn' = TRUE /\ Break(FALSE)
      /\ UNCHANGED <<disk, export, import, receipt, archive, placed, revision, astray, runs, admitted, calls, mig>>
  BY DEF DiesHalfway, placeVars
<1>2. MigTypeOK /\ halfway \in [Homes -> {0} \cup Migrations]
  BY DEF MigInv, MigTypeOK
<1>3. MigTypeOK'
  <2>1. breaks' \in 0 .. MaxBreaks
    BY <1>1, <1>2, BreakTyped
  <2>2. halfway' \in [Homes -> {0} \cup Migrations]
    BY <1>1, <1>2
  <2> QED
    BY <1>1, <1>2, <2>1, <2>2 DEF MigTypeOK
<1>4. \A x \in Homes, k \in Migrations : halfway'[x] = k => halfway[x] = k
  BY <1>1, <1>2, MigBasics
<1>5. ASSUME NEW k \in Migrations PROVE MigOf(k, mig[k])'
  <2>1. MigOf(k, mig[k])
    BY DEF MigInv
  <2>2. CallsOf(k, mig[k])' /\ TokenOf(k, mig[k])'
    BY <1>1, <2>1 DEF MigOf, CallsOf, TokenOf, Asked
  <2>3. MarkOf(k, mig[k])'
    BY <1>1, <2>1 DEF MigOf, MarkOf, Done
  <2>4. HalfwayOf(k, mig[k])'
    BY <1>1, <1>4, <2>1 DEF MigOf, HalfwayOf, Asked
  <2>5. ArrivedOf(k, mig[k])' /\ CommittedOf(k, mig[k])'
    BY <1>1, <2>1 DEF MigOf, ArrivedOf, CommittedOf, Done, Held
  <2>6. AwayOf(k, mig[k])'
    BY <1>1, <2>1 DEF MigOf, AwayOf, Asked
  <2>7. CourseOf(mig[k])'
    BY <1>1, <2>1 DEF MigOf, CourseOf
  <2> QED
    BY <2>2, <2>3, <2>4, <2>5, <2>6, <2>7 DEF MigOf
<1> QED
  BY <1>1, <1>3, <1>5 DEF MigInv, Admissions, PlacementServed, WorldKept

\* The copy of migration i is removed, or loses its mark when i has committed.
LEMMA LostCopyRow ==
    ASSUME MigInv, MigTypeOK', NEW i \in Migrations, NEW h \in Homes, NEW v \in {NoWorld, Unmarked}, disk[h] = i,
           disk' = [disk EXCEPT ![h] = v], v = NoWorld => ~HasCommitted(mig[i]),
           Done \subseteq Done', UNCHANGED <<archive, torn, placed, astray>>,
           \A x \in Homes : halfway'[x] = halfway[x] \/ (x = h /\ halfway'[x] = 0),
           \A x \in Homes : admitted[x] <= admitted'[x],
           \A x \in Homes, j \in Migrations : admitted'[x] <= j => admitted[x] <= j,
           \A x \in Homes, j \in Migrations : admitted[x] >= j => admitted'[x] >= j,
           \A j \in Migrations : mig'[j].pc \in {"new", "planned"} => mig[j].pc \in {"new", "planned"},
           NEW k \in Migrations \ {i}, NEW u, u = mig[k], receipt'[k] = receipt[k], import'[k] = import[k],
           \A x \in Homes, y \in CallSteps : Asked(x, k, y)' => Asked(x, k, y)
    PROVE  MigOf(k, u)'
<1>1. /\ MigTypeOK /\ disk \in [Homes -> {NoWorld, Unmarked} \cup Migrations]
      /\ MigOf(k, u) /\ u \in MigRows /\ u.from \in Homes /\ Other(u.from) \in Homes /\ k \in Migrations /\ k # i
  BY AtWork, MigTyped DEF MigInv, MigTypeOK
<1>2. PICK g \in Homes : g = Other(h) /\ g # h /\ Other(g) = h /\ \A x \in Homes : x = h \/ x = g
  BY MigBasics
<1>3. \A x \in Homes : disk'[x] = IF x = h THEN v ELSE disk[x]
  BY <1>1
<1>4. v \notin Migrations /\ i # NoWorld /\ i # Unmarked /\ NoWorld # Unmarked /\ k # 0
  BY MigBasics
<1>5. HasCommitted(u) <=> k \in Done
  BY DEF Done
<1>6. "commit" \in CallSteps
  BY DEF CallSteps, TargetSteps
<1>7. MarkOf(k, u)'
  <2> SUFFICES ASSUME NEW x \in Homes, disk'[x] = k
               PROVE  /\ x = Other(u.from) /\ ~Preparing(u)
                      /\ ~HasCommitted(u) =>
                            /\ disk'[Other(x)] # NoWorld
                            /\ disk'[Other(x)] \in Migrations => disk'[Other(x)] \in Done'
                            /\ ~astray /\ u.pc \notin Switched => placed = u.from
                            /\ halfway'[x] = k \/ receipt'[k] \/ torn
    BY DEF MarkOf
  <2>1. x = g /\ disk[g] = k
    BY <1>1, <1>2, <1>3, <1>4
  <2>2. /\ g = Other(u.from) /\ ~Preparing(u)
        /\ ~HasCommitted(u) =>
              /\ ~astray /\ u.pc \notin Switched => placed = u.from
              /\ halfway[g] = k \/ receipt[k] \/ torn
    BY <1>1, <2>1 DEF MigOf, MarkOf
  <2>3. halfway[g] = k => halfway'[g] = k
    BY <1>2
  <2>4. v = NoWorld => HasCommitted(u)
    <3>1. v = NoWorld => MarkOf(i, mig[i]) /\ ~HasCommitted(mig[i])
      BY DEF MigInv, MigOf
    <3> QED
      BY <1>1, <1>2, <1>5, <2>1, <3>1 DEF MarkOf
  <2>5. disk'[Other(x)] = v
    BY <1>2, <1>3, <2>1
  <2> QED
    BY <1>4, <2>1, <2>2, <2>3, <2>4, <2>5
<1>8. HalfwayOf(k, u)'
  <2> SUFFICES ASSUME NEW x \in Homes, halfway'[x] = k
               PROVE  /\ disk'[x] = k /\ admitted'[x] >= k /\ ~Asked(x, k, "commit")'
                      /\ \/ u.pc = "commit" /\ u.ans = "wait"
                         \/ u.pc \in Back /\ ~u.committed /\ ~RolledBack(u)
    BY DEF HalfwayOf
  <2>1. halfway[x] = k
    BY <1>4
  <2>2. /\ disk[x] = k /\ admitted[x] >= k /\ ~Asked(x, k, "commit")
        /\ \/ u.pc = "commit" /\ u.ans = "wait"
           \/ u.pc \in Back /\ ~u.committed /\ ~RolledBack(u)
    BY <1>1, <2>1 DEF MigOf, HalfwayOf
  <2>3. x # h /\ disk'[x] = k
    BY <1>1, <1>3, <2>2
  <2>4. admitted'[x] >= k /\ ~Asked(x, k, "commit")'
    BY <1>1, <1>6, <2>2
  <2> QED
    BY <2>2, <2>3, <2>4
<1>9. ArrivedOf(k, u)'
  <2>1. ArrivedOf(k, u)
    BY <1>1 DEF MigOf
  <2>2. Arrived(u) => disk'[Other(u.from)] = k
    BY <1>1, <1>3, <2>1 DEF ArrivedOf
  <2> QED
    BY <2>1, <2>2 DEF ArrivedOf
<1>10. CommittedOf(k, u)'
  <2> SUFFICES ASSUME HasCommitted(u), admitted'[u.from] <= k
               PROVE  /\ disk'[Other(u.from)] \in {k, Unmarked} /\ placed = Other(u.from)
                      /\ disk'[u.from] \in Migrations => disk'[u.from] \in Done'
                      /\ Held(k)' /\ ~u.bad =>
                            /\ u.pc # "finalize" \/ u.ans = "ok" => archive[k] /\ disk'[u.from] = NoWorld
                            /\ u.pc \notin {"finalize", "complete"} \/ (u.pc = "complete" /\ u.ans = "ok") =>
                                  disk'[Other(u.from)] = Unmarked
    BY DEF CommittedOf
  <2>1. admitted[u.from] <= k
    BY <1>1
  <2>2. Held(k)' => Held(k)
    BY <1>1, HeldStays
  <2>3. /\ disk[Other(u.from)] \in {k, Unmarked} /\ placed = Other(u.from)
        /\ Held(k) /\ ~u.bad =>
              /\ u.pc # "finalize" \/ u.ans = "ok" => archive[k] /\ disk[u.from] = NoWorld
              /\ u.pc \notin {"finalize", "complete"} \/ (u.pc = "complete" /\ u.ans = "ok") =>
                    disk[Other(u.from)] = Unmarked
    BY <1>1, <2>1 DEF MigOf, CommittedOf
  <2>4. Other(u.from) = g /\ u.from = h
    <3>1. Other(u.from) # h
      BY <1>1, <1>4, <2>3
    <3> QED
      BY <1>1, <1>2, <3>1, MigBasics
  <2>5. disk'[Other(u.from)] = disk[Other(u.from)] /\ disk'[u.from] = v /\ disk[u.from] = i
    BY <1>2, <1>3, <2>4
  <2> QED
    BY <1>4, <2>2, <2>3, <2>5
<1>11. AwayOf(k, u)'
  <2>1. AwayOf(k, u)
    BY <1>1 DEF MigOf
  <2>2. disk[Other(u.from)] # k => disk'[Other(u.from)] # k
    BY <1>1, <1>3, <1>4
  <2> QED
    BY <1>6, <2>1, <2>2 DEF AwayOf
<1> QED
  BY <1>1, <1>7, <1>8, <1>9, <1>10, <1>11, OtherRow

\* Without the undecided copy the world is where the placement says.
LEMMA LostCopyServed ==
    ASSUME MigInv, NEW i \in Migrations, NEW h \in Homes, disk[h] = i, disk' = [disk EXCEPT ![h] = NoWorld],
           ~HasCommitted(mig[i]), mig[i].pc \notin Switched, UNCHANGED <<placed, astray>>
    PROVE  PlacementServed' /\ WorldKept'
<1>1. PICK s \in MigRows : s = mig[i] /\ MarkOf(i, s)
  BY AtWork DEF MigOf
<1>2. PICK g \in Homes : g = Other(h) /\ g # h
  BY MigBasics
<1>3. disk[g] # NoWorld /\ (~astray => placed = s.from) /\ h = Other(s.from)
  BY <1>1, <1>2 DEF MarkOf
<1>4. s.from = g
  <2>1. s.from \in Homes
    BY MigTyped DEF MigInv
  <2> QED
    BY <1>2, <1>3, <2>1, MigBasics
<1>5. disk'[g] = disk[g]
  BY <1>2 DEF MigInv, MigTypeOK
<1> QED
  BY <1>3, <1>4, <1>5 DEF PlacementServed, WorldKept

LEMMA CommitReceiptKeeps ==
    ASSUME MigInv, NEW h \in Homes, CommitReceipt(h)
    PROVE  MigInv'
<1>1. /\ MigTypeOK /\ disk \in [Homes -> {NoWorld, Unmarked} \cup Migrations] /\ halfway \in [Homes -> {0} \cup Migrations]
      /\ receipt \in [Migrations -> BOOLEAN] /\ mig \in [Migrations -> MigRows]
  BY MigTyped DEF MigInv, MigTypeOK
<1>2. PICK i \in Migrations : halfway[h] = i
  BY <1>1 DEF CommitReceipt
<1>3. /\ halfway' = [halfway EXCEPT ![h] = 0]
      /\ UNCHANGED <<export, import, archive, torn, placed, revision, astray, runs, admitted, calls>>
      /\ \/ /\ receipt' = [receipt EXCEPT ![i] = TRUE] /\ Answer([id |-> i, step |-> "commit"], "ok")
            /\ UNCHANGED <<disk, breaks>>
         \/ /\ disk' = [disk EXCEPT ![h] = NoWorld] /\ Answer([id |-> i, step |-> "commit"], "failed")
            /\ Break(FALSE) /\ UNCHANGED receipt
  BY <1>2 DEF CommitReceipt, placeVars
<1>4. PICK s \in MigRows : s = mig[i] /\ CourseOf(s) /\ MigOf(i, s)
  BY AtWork
<1>5. PICK step \in CallSteps : step = "commit"
  BY DEF CallSteps, TargetSteps
<1>6. PICK result \in {"ok", "failed"} :
         /\ Answer([id |-> i, step |-> step], result)
         /\ result = "ok" => receipt' = [receipt EXCEPT ![i] = TRUE] /\ disk' = disk
         /\ result = "failed" => disk' = [disk EXCEPT ![h] = NoWorld] /\ receipt' = receipt
  BY <1>3, <1>5
<1>7. PICK t \in MigRows : mig' = [mig EXCEPT ![i] = t] /\ AnswersTo(s, t, step, result)
  BY <1>1, <1>4, <1>6, AnswerTo DEF Results
<1>8. /\ disk[h] = i /\ admitted[h] >= i /\ ~Asked(h, i, "commit")
      /\ \/ s.pc = "commit" /\ s.ans = "wait"
         \/ s.pc \in Back /\ ~s.committed /\ ~RolledBack(s)
  BY <1>2, <1>4 DEF MigOf, HalfwayOf
<1>9. PICK g \in Homes : g = Other(h) /\ g # h /\ Other(g) = h /\ \A x \in Homes : x = h \/ x = g
  BY MigBasics
<1>10. h = Other(s.from) /\ s.from = g
  <2>1. h = Other(s.from) /\ s.from \in Homes
    BY <1>1, <1>4, <1>8, MigTyped DEF MigOf, MarkOf
  <2> QED
    BY <1>9, <2>1, MigBasics
<1>11. ~HasCommitted(s) /\ ~RolledBack(s) /\ s.pc \notin Switched /\ ~Preparing(s)
  BY <1>4, <1>8 DEF CourseOf, HasCommitted, RolledBack, Preparing, Early, Switched, Back, Forth
<1>12. /\ t.pc = s.pc /\ t.from = s.from /\ t.committed = s.committed /\ t.bad = s.bad
       /\ s.pc = "commit" => t.ans = result
       /\ s.pc # "commit" => t.ans = s.ans
  BY <1>5, <1>7, <1>8 DEF AnswersTo, Back
<1>13. ~HasCommitted(t) /\ ~RolledBack(t) /\ t.pc \notin Switched /\ ~Preparing(t) /\ t.pc \notin {"new", "planned"}
       /\ (Arrived(t) => result = "ok")
  BY <1>8, <1>11, <1>12 DEF HasCommitted, RolledBack, Preparing, Early, Switched, Back, Arrived
<1>14. MigTypeOK'
  <2>1. mig' \in [Migrations -> MigRows] /\ halfway' \in [Homes -> {0} \cup Migrations]
    BY <1>1, <1>3, <1>7
  <2>2. disk' \in [Homes -> {NoWorld, Unmarked} \cup Migrations] /\ receipt' \in [Migrations -> BOOLEAN]
    BY <1>1, <1>3
  <2>3. breaks' \in 0 .. MaxBreaks
    BY <1>1, <1>3, BreakTyped
  <2> QED
    BY <1>1, <1>3, <2>1, <2>2, <2>3 DEF MigTypeOK, MigRows
<1>15. \A k \in Migrations : mig'[k] = IF k = i THEN t ELSE mig[k]
  BY <1>1, <1>7
<1>16. /\ Done \subseteq Done' /\ i \notin Done
       /\ \A j \in Migrations : mig'[j].pc \in {"new", "planned"} => mig[j].pc \in {"new", "planned"}
  BY <1>4, <1>11, <1>13, <1>15 DEF Done
<1>17. /\ \A x \in Homes : admitted[x] <= admitted'[x]
       /\ \A x \in Homes, j \in Migrations : admitted'[x] <= j => admitted[x] <= j
       /\ \A x \in Homes, j \in Migrations : admitted[x] >= j => admitted'[x] >= j
       /\ \A x \in Homes : admitted'[x] = admitted[x]
  BY <1>1, <1>3, AdmittedSame
<1>18. /\ \A x \in Homes : halfway'[x] = IF x = h THEN 0 ELSE halfway[x]
       /\ \A x \in Homes, k \in Migrations : \A y : Asked(x, k, y)' <=> Asked(x, k, y)
  BY <1>1, <1>3 DEF Asked
<1>19. \A x \in Homes : disk[x] = i => x = h
  BY <1>4, <1>10 DEF MigOf, MarkOf
<1>20. MigOf(i, t)'
  <2>1. CourseOf(t) /\ CallsOf(i, t)' /\ TokenOf(i, t)'
    <3>1. result = "ok" => admitted'[h] >= i
      BY <1>3, <1>8
    <3>2. h = IF step \in SourceSteps THEN s.from ELSE Other(s.from)
      BY <1>5, <1>10 DEF SourceSteps
    <3>3. ~Asked(h, i, step)'
      BY <1>5, <1>8, <1>18
    <3>4. \A x \in Homes, y \in CallSteps : Asked(x, i, y)' => Asked(x, i, y)
      BY <1>18
    <3>5. result \in Results
      BY DEF Results
    <3> QED
      BY <1>1, <1>4, <1>7, <1>14, <1>17, <3>1, <3>2, <3>3, <3>4, <3>5, AnsweredRow
  <2>2. MarkOf(i, t)'
    <3> SUFFICES ASSUME NEW x \in Homes, disk'[x] = i
                 PROVE  /\ x = Other(t.from)
                        /\ disk'[Other(x)] # NoWorld
                        /\ disk'[Other(x)] \in Migrations => disk'[Other(x)] \in Done'
                        /\ ~astray => placed = t.from
                        /\ receipt'[i]
      BY <1>3, <1>13 DEF MarkOf
    <3>1. result = "ok" /\ disk' = disk /\ receipt'[i]
      <4>1. result = "failed" => disk'[h] = NoWorld /\ (x # h => disk'[x] = disk[x])
        BY <1>1, <1>6
      <4>2. result # "failed"
        BY <1>19, <4>1, MigBasics
      <4> QED
        BY <1>1, <1>6, <4>2
    <3>2. x = h /\ disk[x] = i
      BY <1>19, <3>1
    <3> QED
      BY <1>4, <1>10, <1>11, <1>12, <1>16, <3>1, <3>2 DEF MigOf, MarkOf
  <2>3. HalfwayOf(i, t)'
    <3>1. \A x \in Homes : halfway'[x] # i
      <4>1. \A x \in Homes : halfway[x] = i => disk[x] = i
        BY <1>4 DEF MigOf, HalfwayOf
      <4> QED
        BY <1>18, <1>19, <4>1, MigBasics
    <3> QED
      BY <3>1 DEF HalfwayOf
  <2>4. ArrivedOf(i, t)'
    <3>1. Arrived(t) => disk'[Other(t.from)] = i
      BY <1>6, <1>8, <1>10, <1>12, <1>13
    <3> QED
      BY <1>13, <3>1 DEF ArrivedOf
  <2>5. CommittedOf(i, t)' /\ AwayOf(i, t)'
    BY <1>13 DEF CommittedOf, AwayOf
  <2> QED
    BY <2>1, <2>2, <2>3, <2>4, <2>5 DEF MigOf
<1>21. ASSUME NEW k \in Migrations \ {i}, NEW u, u = mig[k]
       PROVE  MigOf(k, u)'
  <2>1. receipt'[k] = receipt[k] /\ import'[k] = import[k]
    BY <1>1, <1>3
  <2>2. \A x \in Homes, y \in CallSteps : Asked(x, k, y)' => Asked(x, k, y)
    BY <1>18
  <2>3. CASE result = "failed"
    <3>1. PICK v \in {NoWorld, Unmarked} : v = NoWorld
      OBVIOUS
    <3>2. disk' = [disk EXCEPT ![h] = v] /\ (v = NoWorld => ~HasCommitted(mig[i]))
      BY <1>4, <1>6, <1>11, <2>3, <3>1
    <3>3. UNCHANGED <<archive, torn, placed, astray>> /\ \A x \in Homes : halfway'[x] = halfway[x] \/ (x = h /\ halfway'[x] = 0)
      BY <1>3, <1>18
    <3> QED
      BY <1>8, <1>14, <1>16, <1>17, <1>21, <2>1, <2>2, <3>2, <3>3, LostCopyRow
  <2>4. CASE result = "ok"
    <3>1. disk' = disk /\ MigOf(k, u) /\ UNCHANGED <<archive, torn, placed, astray>>
      BY <1>3, <1>6, <1>21, <2>4 DEF MigInv
    <3>2. \A x \in Homes : halfway'[x] = k <=> halfway[x] = k
      BY <1>2, <1>18, <1>21, MigBasics
    <3>3. MarkOf(k, u)'
      BY <1>16, <2>1, <3>1, <3>2 DEF MigOf, MarkOf
    <3>4. HalfwayOf(k, u)'
      BY <1>17, <1>18, <1>21, <3>1, <3>2 DEF MigOf, HalfwayOf
    <3>5. ArrivedOf(k, u)'
      BY <3>1 DEF MigOf, ArrivedOf
    <3>6. CommittedOf(k, u)'
      <4>1. Held(k)' => Held(k)
        BY <1>16, <1>21, HeldStays
      <4> QED
        BY <1>3, <1>16, <3>1, <4>1 DEF MigOf, CommittedOf
    <3>7. AwayOf(k, u)'
      BY <1>18, <1>21, <2>1, <3>1 DEF MigOf, AwayOf
    <3> QED
      BY <1>14, <1>17, <1>21, <2>2, <3>3, <3>4, <3>5, <3>6, <3>7, OtherRow
  <2> QED
    BY <2>3, <2>4
<1>22. Admissions'
  BY <1>7, <1>13, <1>14, <1>17, AdmissionsKept
<1>23. PlacementServed' /\ WorldKept'
  <2>1. CASE result = "ok"
    BY <1>3, <1>6, <2>1 DEF MigInv, PlacementServed, WorldKept
  <2>2. CASE result = "failed"
    BY <1>3, <1>4, <1>6, <1>8, <1>11, <2>2, LostCopyServed
  <2> QED
    BY <2>1, <2>2
<1> QED
  BY <1>1, <1>7, <1>14, <1>20, <1>21, <1>22, <1>23, MigWhole

\* Machine h executes the given step of migration i, which becomes t.
Serves(h, i, t, step) ==
    /\ Asked(h, i, step) /\ i >= admitted[h] /\ halfway[h] = 0
    /\ mig' = [mig EXCEPT ![i] = t] /\ AnswersTo(mig[i], t, step, "ok")
    /\ calls' = [calls EXCEPT ![h] = @ \ {[id |-> i, step |-> step]}]
    /\ admitted' = [admitted EXCEPT ![h] = i]
    /\ placed' = placed /\ revision' = revision /\ astray' = astray /\ breaks' = breaks

LEMMA Served ==
    ASSUME MigInv, NEW h \in Homes, NEW r \in calls[h], NEW step \in CallSteps, Exec(h, r, {step}), Answer(r, "ok")
    PROVE  \E i \in Migrations, t \in MigRows : r.id = i /\ r.step = step /\ Serves(h, i, t, step)
<1>1. MigTypeOK
  BY DEF MigInv
<1>2. PICK i \in Migrations, y \in CallSteps : r = [id |-> i, step |-> y] /\ r.id = i /\ r.step = y /\ Asked(h, i, y)
  BY <1>1, Requested
<1>3. Take(h, [id |-> i, step |-> y], {step}) /\ UNCHANGED breaks
  BY <1>2 DEF Exec
<1>4. /\ y = step /\ i >= admitted[h] /\ halfway[h] = 0
      /\ calls' = [calls EXCEPT ![h] = @ \ {[id |-> i, step |-> y]}]
      /\ admitted' = [admitted EXCEPT ![h] = i]
      /\ placed' = placed /\ revision' = revision /\ astray' = astray
  BY <1>3, Taken
<1>5. PICK t \in MigRows : mig' = [mig EXCEPT ![i] = t] /\ AnswersTo(mig[i], t, step, "ok")
  BY <1>1, <1>2, <1>4, AnswerTo DEF Results
<1> QED
  BY <1>2, <1>3, <1>4, <1>5 DEF Serves

\* What it leaves of the tokens, the requests and the local variables.
LEMMA ServesFacts ==
    ASSUME MigInv, NEW h \in Homes, NEW i \in Migrations, NEW t \in MigRows, NEW step \in CallSteps, Serves(h, i, t, step)
    PROVE  /\ mig' \in [Migrations -> MigRows]
           /\ \A k \in Migrations : mig'[k] = IF k = i THEN t ELSE mig[k]
           /\ calls' \in [Homes -> SUBSET [id : Migrations, step : CallSteps]]
           /\ \A x \in Homes, k \in Migrations, y \in CallSteps :
                 Asked(x, k, y)' <=> Asked(x, k, y) /\ ~(x = h /\ k = i /\ y = step)
           /\ admitted' \in [Homes -> {0} \cup Migrations]
           /\ \A x \in Homes : admitted[x] <= admitted'[x]
           /\ \A x \in Homes, j \in Migrations : admitted'[x] <= j => admitted[x] <= j
           /\ \A x \in Homes, j \in Migrations : admitted[x] >= j => admitted'[x] >= j
           /\ \A x \in Homes : admitted'[x] = admitted[x] \/ admitted'[x] = i
           /\ admitted'[h] = i /\ admitted'[h] >= i
           /\ h = IF step \in SourceSteps THEN mig[i].from ELSE Other(mig[i].from)
           /\ Done \subseteq Done' /\ Admissions'
           /\ \A j \in Migrations : mig'[j].pc \in {"new", "planned"} => mig[j].pc \in {"new", "planned"}
<1>1. MigTypeOK /\ mig \in [Migrations -> MigRows] /\ admitted \in [Homes -> {0} \cup Migrations]
  BY MigTyped DEF MigInv, MigTypeOK
<1>2. /\ Asked(h, i, step) /\ i >= admitted[h] /\ mig' = [mig EXCEPT ![i] = t] /\ AnswersTo(mig[i], t, step, "ok")
      /\ calls' = [calls EXCEPT ![h] = @ \ {[id |-> i, step |-> step]}]
      /\ admitted' = [admitted EXCEPT ![h] = i]
  BY DEF Serves
<1>3. mig[i] \in MigRows /\ MigOf(i, mig[i]) /\ CourseOf(mig[i])
  BY AtWork
<1>4. /\ mig' \in [Migrations -> MigRows]
      /\ \A k \in Migrations : mig'[k] = IF k = i THEN t ELSE mig[k]
  BY <1>1, <1>2
<1>5. /\ calls' \in [Homes -> SUBSET [id : Migrations, step : CallSteps]]
      /\ \A x \in Homes, k \in Migrations, y \in CallSteps :
            Asked(x, k, y)' <=> Asked(x, k, y) /\ ~(x = h /\ k = i /\ y = step)
  BY <1>1, <1>2, RequestGone
<1>6. /\ admitted' \in [Homes -> {0} \cup Migrations]
      /\ \A x \in Homes : admitted[x] <= admitted'[x] /\ (admitted'[x] = admitted[x] \/ admitted'[x] = i)
      /\ \A x \in Homes, j \in Migrations : admitted'[x] <= j => admitted[x] <= j
      /\ \A x \in Homes, j \in Migrations : admitted[x] >= j => admitted'[x] >= j
  <2>1. UNCHANGED admitted \/ (i >= admitted[h] /\ admitted' = [admitted EXCEPT ![h] = i])
    BY <1>2
  <2> QED
    BY <1>1, <2>1, AdmittedGrows
<1>7. admitted'[h] = i /\ admitted'[h] >= i
  <2>1. i \in Int
    BY AdmittedNumbers
  <2>2. admitted'[h] = i
    BY <1>1, <1>2
  <2> QED
    BY <2>1, <2>2
<1>8. /\ mig[i].pc \notin {"new", "planned", "status"}
      /\ h = IF step \in SourceSteps THEN mig[i].from ELSE Other(mig[i].from)
  BY <1>2, <1>3 DEF MigOf, CallsOf
<1>9. t.pc = mig[i].pc /\ (HasCommitted(t) <=> HasCommitted(mig[i]))
  BY <1>2 DEF AnswersTo, HasCommitted
<1>10. /\ Done \subseteq Done'
       /\ \A j \in Migrations : mig'[j].pc \in {"new", "planned"} => mig[j].pc \in {"new", "planned"}
  BY <1>4, <1>9 DEF Done
<1>11. Admissions'
  <2> SUFFICES ASSUME NEW x \in Homes, admitted'[x] # 0
               PROVE  mig'[admitted'[x]].pc \notin {"new", "planned"}
    BY DEF Admissions
  <2>1. admitted'[x] \in Migrations
    BY <1>6
  <2>2. CASE admitted'[x] = i
    BY <1>4, <1>8, <1>9, <2>2
  <2>3. CASE admitted'[x] = admitted[x]
    BY <1>8, <1>10, <2>1, <2>3 DEF MigInv, Admissions
  <2> QED
    BY <1>6, <2>2, <2>3
<1> QED
  BY <1>4, <1>5, <1>6, <1>7, <1>8, <1>10, <1>11

LEMMA RollbackTargetKeeps ==
    ASSUME MigInv, NEW h \in Homes, NEW r \in calls[h], RollbackTarget(h, r)
    PROVE  MigInv'
<1>1. /\ MigTypeOK /\ disk \in [Homes -> {NoWorld, Unmarked} \cup Migrations] /\ receipt \in [Migrations -> BOOLEAN]
      /\ import \in [Migrations -> {"none", "begun", "full"}]
  BY DEF MigInv, MigTypeOK
<1>2. PICK step \in CallSteps : step = "rollback"
  BY DEF CallSteps, TargetSteps
<1>3. PICK i \in Migrations, t \in MigRows : r.id = i /\ r.step = step /\ Serves(h, i, t, step)
  BY <1>2, Served DEF RollbackTarget
<1>4. /\ receipt[i] => disk[h] = i
      /\ disk' = IF receipt[i] THEN [disk EXCEPT ![h] = NoWorld] ELSE disk
      /\ receipt' = [receipt EXCEPT ![i] = FALSE] /\ import' = [import EXCEPT ![i] = "none"]
      /\ UNCHANGED <<export, archive, halfway, torn, runs>>
  BY <1>2, <1>3 DEF RollbackTarget, Exec, Able
<1>5. /\ mig' \in [Migrations -> MigRows]
      /\ \A k \in Migrations : mig'[k] = IF k = i THEN t ELSE mig[k]
      /\ calls' \in [Homes -> SUBSET [id : Migrations, step : CallSteps]]
      /\ \A x \in Homes, k \in Migrations, y \in CallSteps :
            Asked(x, k, y)' <=> Asked(x, k, y) /\ ~(x = h /\ k = i /\ y = step)
      /\ admitted' \in [Homes -> {0} \cup Migrations]
      /\ \A x \in Homes : admitted[x] <= admitted'[x]
      /\ \A x \in Homes, j \in Migrations : admitted'[x] <= j => admitted[x] <= j
      /\ \A x \in Homes, j \in Migrations : admitted[x] >= j => admitted'[x] >= j
      /\ admitted'[h] >= i
      /\ h = IF step \in SourceSteps THEN mig[i].from ELSE Other(mig[i].from)
      /\ Done \subseteq Done' /\ Admissions'
      /\ \A j \in Migrations : mig'[j].pc \in {"new", "planned"} => mig[j].pc \in {"new", "planned"}
  BY <1>3, ServesFacts
<1>6. /\ Asked(h, i, step) /\ halfway[h] = 0 /\ mig' = [mig EXCEPT ![i] = t] /\ AnswersTo(mig[i], t, step, "ok")
      /\ placed' = placed /\ revision' = revision /\ astray' = astray /\ breaks' = breaks
  BY <1>3 DEF Serves
<1>7. PICK s \in MigRows : s = mig[i] /\ CourseOf(s) /\ MigOf(i, s)
  BY AtWork
<1>8. MigTypeOK'
  <2>1. disk' \in [Homes -> {NoWorld, Unmarked} \cup Migrations] /\ receipt' \in [Migrations -> BOOLEAN]
        /\ import' \in [Migrations -> {"none", "begun", "full"}]
    BY <1>1, <1>4
  <2> QED
    BY <1>1, <1>4, <1>5, <1>6, <2>1 DEF MigTypeOK, MigRows
<1>9. PICK g \in Homes : g = Other(h) /\ g # h /\ Other(g) = h /\ \A x \in Homes : x = h \/ x = g
  BY MigBasics
<1>10. h = Other(s.from) /\ s.pc \in Back /\ ~s.committed
  <2>1. CallsOf(i, s) /\ step \notin SourceSteps
    BY <1>2, <1>7 DEF MigOf, SourceSteps
  <2>2. (s.pc = "rollback" /\ s.ans = "wait") \/ (s.pc \in Back /\ ~s.committed)
    BY <1>2, <1>6, <2>1 DEF CallsOf
  <2> QED
    BY <1>5, <1>7, <2>1, <2>2 DEF CourseOf, Forth, Back
<1>11. ~HasCommitted(s) /\ ~Preparing(s) /\ ~Arrived(s) /\ s.pc \notin Switched
  BY <1>10 DEF HasCommitted, Preparing, Arrived, Early, Switched, Back
<1>12. /\ HasCommitted(t) <=> HasCommitted(s)
       /\ Preparing(t) => Preparing(s)
       /\ Arrived(t) => Arrived(s)
       /\ t.pc \in Switched <=> s.pc \in Switched
       /\ t.from = s.from
  BY <1>2, <1>6, <1>7, AnsweredFacts DEF AnswersTo, Results
<1>13. /\ \A x \in Homes : disk'[x] = IF x = h /\ receipt[i] THEN NoWorld ELSE disk[x]
       /\ ~receipt'[i] /\ import'[i] # "full"
  BY <1>1, <1>4
<1>14. \A x \in Homes : disk[x] = i => x = h
  BY <1>7, <1>10 DEF MigOf, MarkOf
<1>15. disk[h] = i =>
          /\ disk[g] # NoWorld /\ (disk[g] \in Migrations => disk[g] \in Done)
          /\ ~astray => placed = s.from
          /\ receipt[i] \/ torn
  BY <1>6, <1>7, <1>9, <1>11, MigBasics DEF MigOf, MarkOf
<1>16. MigOf(i, t)'
  <2>1. CourseOf(t) /\ CallsOf(i, t)' /\ TokenOf(i, t)'
    <3>1. /\ h = IF step \in SourceSteps THEN s.from ELSE Other(s.from)
          /\ ~Asked(h, i, step)'
          /\ \A x \in Homes, y \in CallSteps : Asked(x, i, y)' => Asked(x, i, y)
          /\ AnswersTo(s, t, step, "ok")
      BY <1>5, <1>6, <1>7
    <3>2. "ok" \in Results
      BY DEF Results
    <3> QED
      BY <1>1, <1>5, <1>7, <1>8, <3>1, <3>2, AnsweredRow
  <2>2. MarkOf(i, t)'
    <3> SUFFICES ASSUME NEW x \in Homes, disk'[x] = i
                 PROVE  /\ x = Other(t.from)
                        /\ disk'[Other(x)] # NoWorld
                        /\ disk'[Other(x)] \in Migrations => disk'[Other(x)] \in Done'
                        /\ ~astray => placed = t.from
                        /\ torn
      BY <1>4, <1>6, <1>11, <1>12 DEF MarkOf
    <3>1. disk[x] = i /\ x = h /\ ~receipt[i]
      BY <1>13, <1>14, MigBasics
    <3>2. disk'[Other(x)] = disk[g]
      BY <1>9, <1>13, <3>1
    <3> QED
      BY <1>5, <1>10, <1>12, <1>15, <3>1, <3>2
  <2>3. HalfwayOf(i, t)'
    <3>1. \A x \in Homes : halfway[x] = i => disk[x] = i
      BY <1>7 DEF MigOf, HalfwayOf
    <3>2. \A x \in Homes : halfway[x] # i
      BY <1>6, <1>14, <3>1, MigBasics
    <3> QED
      BY <1>4, <3>2 DEF HalfwayOf
  <2>4. ArrivedOf(i, t)' /\ CommittedOf(i, t)'
    BY <1>11, <1>12 DEF ArrivedOf, CommittedOf
  <2>5. AwayOf(i, t)'
    <3>1. torn \/ disk'[Other(t.from)] # i
      BY <1>10, <1>12, <1>13, <1>15, MigBasics
    <3> QED
      BY <1>4, <1>13, <3>1 DEF AwayOf
  <2> QED
    BY <2>1, <2>2, <2>3, <2>4, <2>5 DEF MigOf
<1>17. ASSUME NEW k \in Migrations \ {i}, NEW u, u = mig[k]
       PROVE  MigOf(k, u)'
  <2>1. receipt'[k] = receipt[k] /\ import'[k] = import[k]
    BY <1>1, <1>4
  <2>2. \A x \in Homes, y \in CallSteps : Asked(x, k, y)' => Asked(x, k, y)
    BY <1>5
  <2>3. UNCHANGED <<archive, torn, placed, astray>> /\ \A x \in Homes : halfway'[x] = halfway[x]
    BY <1>4, <1>6
  <2>4. CASE receipt[i]
    <3>1. PICK v \in {NoWorld, Unmarked} : v = NoWorld
      OBVIOUS
    <3>2. /\ disk[h] = i /\ disk' = [disk EXCEPT ![h] = v] /\ (v = NoWorld => ~HasCommitted(mig[i]))
          /\ \A x \in Homes : halfway'[x] = halfway[x] \/ (x = h /\ halfway'[x] = 0)
      BY <1>4, <1>7, <1>11, <2>3, <2>4, <3>1
    <3>3. /\ \A x \in Homes : admitted[x] <= admitted'[x]
          /\ \A x \in Homes, j \in Migrations : admitted'[x] <= j => admitted[x] <= j
          /\ \A x \in Homes, j \in Migrations : admitted[x] >= j => admitted'[x] >= j
          /\ \A j \in Migrations : mig'[j].pc \in {"new", "planned"} => mig[j].pc \in {"new", "planned"}
          /\ Done \subseteq Done'
      BY <1>5
    <3>4. UNCHANGED <<archive, torn, placed, astray>>
      BY <2>3
    <3> QED
      BY <1>8, <1>17, <2>1, <2>2, <3>2, <3>3, <3>4, LostCopyRow
  <2>5. CASE ~receipt[i]
    <3>1. disk' = disk /\ MigOf(k, u) /\ halfway' = halfway
      BY <1>4, <1>17, <2>5 DEF MigInv
    <3>2. "commit" \in CallSteps
      BY DEF CallSteps, TargetSteps
    <3>3. MarkOf(k, u)' /\ ArrivedOf(k, u)' /\ AwayOf(k, u)'
      BY <1>5, <2>1, <2>2, <2>3, <3>1, <3>2 DEF MigOf, MarkOf, ArrivedOf, AwayOf
    <3>4. HalfwayOf(k, u)'
      BY <1>5, <1>17, <2>2, <3>1, <3>2 DEF MigOf, HalfwayOf
    <3>5. CommittedOf(k, u)'
      <4>1. Held(k)' => Held(k)
        BY <1>5, <1>17, HeldStays
      <4>2. u.from \in Homes
        BY <1>1, <1>17, MigTyped
      <4>3. admitted'[u.from] <= k => admitted[u.from] <= k
        BY <1>5, <1>17, <4>2
      <4> QED
        BY <1>5, <2>3, <3>1, <4>1, <4>3 DEF MigOf, CommittedOf
    <3> QED
      BY <1>5, <1>8, <1>17, <2>2, <3>3, <3>4, <3>5, OtherRow
  <2> QED
    BY <2>4, <2>5
<1>18. PlacementServed' /\ WorldKept'
  <2>1. CASE receipt[i]
    BY <1>4, <1>6, <1>7, <1>11, <2>1, LostCopyServed
  <2>2. CASE ~receipt[i]
    BY <1>4, <1>6, <2>2 DEF MigInv, PlacementServed, WorldKept
  <2> QED
    BY <2>1, <2>2
<1> QED
  BY <1>1, <1>5, <1>6, <1>8, <1>16, <1>17, <1>18, MigWhole

LEMMA CompleteTargetKeeps ==
    ASSUME MigInv, NEW h \in Homes, NEW r \in calls[h], CompleteTarget(h, r)
    PROVE  MigInv'
<1>1. /\ MigTypeOK /\ disk \in [Homes -> {NoWorld, Unmarked} \cup Migrations] /\ receipt \in [Migrations -> BOOLEAN]
      /\ import \in [Migrations -> {"none", "begun", "full"}]
  BY DEF MigInv, MigTypeOK
<1>2. PICK step \in CallSteps : step = "complete"
  BY DEF CallSteps, TargetSteps
<1>3. PICK i \in Migrations, t \in MigRows : r.id = i /\ r.step = step /\ Serves(h, i, t, step)
  BY <1>2, Served DEF CompleteTarget
<1>4. /\ receipt[i] /\ disk[h] = i /\ disk' = [disk EXCEPT ![h] = Unmarked]
      /\ receipt' = [receipt EXCEPT ![i] = FALSE] /\ import' = [import EXCEPT ![i] = "none"]
      /\ UNCHANGED <<export, archive, halfway, torn, runs>>
  BY <1>2, <1>3 DEF CompleteTarget, Exec, Able
<1>5. /\ mig' \in [Migrations -> MigRows]
      /\ \A k \in Migrations : mig'[k] = IF k = i THEN t ELSE mig[k]
      /\ calls' \in [Homes -> SUBSET [id : Migrations, step : CallSteps]]
      /\ \A x \in Homes, k \in Migrations, y \in CallSteps :
            Asked(x, k, y)' <=> Asked(x, k, y) /\ ~(x = h /\ k = i /\ y = step)
      /\ admitted' \in [Homes -> {0} \cup Migrations]
      /\ \A x \in Homes : admitted[x] <= admitted'[x]
      /\ \A x \in Homes, j \in Migrations : admitted'[x] <= j => admitted[x] <= j
      /\ \A x \in Homes, j \in Migrations : admitted[x] >= j => admitted'[x] >= j
      /\ admitted'[h] >= i
      /\ h = IF step \in SourceSteps THEN mig[i].from ELSE Other(mig[i].from)
      /\ Done \subseteq Done' /\ Admissions'
      /\ \A j \in Migrations : mig'[j].pc \in {"new", "planned"} => mig[j].pc \in {"new", "planned"}
  BY <1>3, ServesFacts
<1>6. /\ Asked(h, i, step) /\ halfway[h] = 0 /\ mig' = [mig EXCEPT ![i] = t] /\ AnswersTo(mig[i], t, step, "ok")
      /\ placed' = placed /\ revision' = revision /\ astray' = astray /\ breaks' = breaks
  BY <1>3 DEF Serves
<1>7. PICK s \in MigRows : s = mig[i] /\ CourseOf(s) /\ MigOf(i, s)
  BY AtWork
<1>8. MigTypeOK'
  <2>1. disk' \in [Homes -> {NoWorld, Unmarked} \cup Migrations] /\ receipt' \in [Migrations -> BOOLEAN]
        /\ import' \in [Migrations -> {"none", "begun", "full"}]
    BY <1>1, <1>4
  <2> QED
    BY <1>1, <1>4, <1>5, <1>6, <2>1 DEF MigTypeOK, MigRows
<1>9. HasCommitted(s) /\ h = Other(s.from)
  BY <1>2, <1>5, <1>6, <1>7 DEF MigOf, CallsOf, SourceSteps
<1>10. ~Preparing(s) /\ ~Arrived(s) /\ s.pc \notin Switched /\ ~RolledBack(s)
  BY <1>7, <1>9 DEF CourseOf, HasCommitted, Preparing, Arrived, RolledBack, Early, Switched, Back, Forth
<1>11. /\ HasCommitted(t) <=> HasCommitted(s)
       /\ Preparing(t) => Preparing(s)
       /\ Arrived(t) => Arrived(s)
       /\ RolledBack(t) => RolledBack(s)
       /\ t.pc \in Switched <=> s.pc \in Switched
       /\ t.pc = "finalize" /\ t.ans = "ok" => s.ans = "ok"
       /\ t.from = s.from /\ t.pc = s.pc /\ t.bad = s.bad
  BY <1>2, <1>6, <1>7, AnsweredFacts DEF AnswersTo, Results
<1>12. \A x \in Homes : disk'[x] = IF x = h THEN Unmarked ELSE disk[x]
  BY <1>1, <1>4
<1>13. \A x \in Homes : disk[x] = i => x = h
  BY <1>7, <1>9 DEF MigOf, MarkOf
<1>14. MigOf(i, t)'
  <2>1. CourseOf(t) /\ CallsOf(i, t)' /\ TokenOf(i, t)'
    <3>1. /\ h = IF step \in SourceSteps THEN s.from ELSE Other(s.from)
          /\ ~Asked(h, i, step)'
          /\ \A x \in Homes, y \in CallSteps : Asked(x, i, y)' => Asked(x, i, y)
          /\ AnswersTo(s, t, step, "ok")
      BY <1>5, <1>6, <1>7
    <3>2. "ok" \in Results
      BY DEF Results
    <3> QED
      BY <1>1, <1>5, <1>7, <1>8, <3>1, <3>2, AnsweredRow
  <2>2. MarkOf(i, t)'
    BY <1>12, <1>13, MigBasics DEF MarkOf
  <2>3. HalfwayOf(i, t)'
    <3>1. \A x \in Homes : halfway[x] # i
      BY <1>7, <1>9 DEF MigOf, HalfwayOf, HasCommitted, CourseOf, Back, Forth
    <3> QED
      BY <1>4, <3>1 DEF HalfwayOf
  <2>4. ArrivedOf(i, t)' /\ AwayOf(i, t)'
    BY <1>10, <1>11 DEF ArrivedOf, AwayOf
  <2>5. CommittedOf(i, t)'
    <3> SUFFICES ASSUME admitted'[s.from] <= i
                 PROVE  /\ disk'[h] \in {i, Unmarked} /\ placed = h
                        /\ disk'[s.from] \in Migrations => disk'[s.from] \in Done'
                        /\ Held(i)' /\ ~s.bad =>
                              /\ s.pc # "finalize" \/ t.ans = "ok" => archive[i] /\ disk'[s.from] = NoWorld
                              /\ disk'[h] = Unmarked
      BY <1>4, <1>6, <1>9, <1>11 DEF CommittedOf
    <3>1. s.from \in Homes /\ s.from # h
      BY <1>1, <1>9, MigTyped, MigBasics
    <3>2. admitted[s.from] <= i /\ disk'[s.from] = disk[s.from] /\ disk'[h] = Unmarked
      BY <1>5, <1>12, <3>1
    <3>3. Held(i)' => Held(i)
      BY <1>5, HeldStays
    <3>4. /\ placed = h
          /\ disk[s.from] \in Migrations => disk[s.from] \in Done
          /\ Held(i) /\ ~s.bad => (s.pc # "finalize" \/ s.ans = "ok" => archive[i] /\ disk[s.from] = NoWorld)
      BY <1>7, <1>9, <3>2 DEF MigOf, CommittedOf
    <3>5. s.pc # "finalize" \/ t.ans = "ok" => s.pc # "finalize" \/ s.ans = "ok"
      BY <1>11
    <3> QED
      BY <1>5, <3>2, <3>3, <3>4, <3>5
  <2> QED
    BY <2>1, <2>2, <2>3, <2>4, <2>5 DEF MigOf
<1>15. ASSUME NEW k \in Migrations \ {i}, NEW u, u = mig[k]
       PROVE  MigOf(k, u)'
  <2>1. receipt'[k] = receipt[k] /\ import'[k] = import[k]
    BY <1>1, <1>4
  <2>2. \A x \in Homes, y \in CallSteps : Asked(x, k, y)' => Asked(x, k, y)
    BY <1>5
  <2>3. UNCHANGED <<archive, torn, placed, astray>> /\ \A x \in Homes : halfway'[x] = halfway[x]
    BY <1>4, <1>6
  <2>4. PICK v \in {NoWorld, Unmarked} : v = Unmarked
    OBVIOUS
  <2>5. /\ disk[h] = i /\ disk' = [disk EXCEPT ![h] = v] /\ (v = NoWorld => ~HasCommitted(mig[i]))
        /\ \A x \in Homes : halfway'[x] = halfway[x] \/ (x = h /\ halfway'[x] = 0)
    BY <1>4, <2>3, <2>4, MigBasics
  <2>6. /\ \A x \in Homes : admitted[x] <= admitted'[x]
        /\ \A x \in Homes, j \in Migrations : admitted'[x] <= j => admitted[x] <= j
        /\ \A x \in Homes, j \in Migrations : admitted[x] >= j => admitted'[x] >= j
        /\ \A j \in Migrations : mig'[j].pc \in {"new", "planned"} => mig[j].pc \in {"new", "planned"}
        /\ Done \subseteq Done'
    BY <1>5
  <2>7. UNCHANGED <<archive, torn, placed, astray>>
    BY <2>3
  <2> QED
    BY <1>8, <1>15, <2>1, <2>2, <2>5, <2>6, <2>7, LostCopyRow
<1>16. PlacementServed' /\ WorldKept'
  <2>1. \A x \in Homes : disk[x] # NoWorld => disk'[x] # NoWorld
    BY <1>12, MigBasics
  <2>2. placed \in Homes
    BY <1>1 DEF MigTypeOK
  <2> QED
    BY <1>6, <2>1, <2>2 DEF MigInv, PlacementServed, WorldKept
<1> QED
  BY <1>1, <1>5, <1>6, <1>8, <1>14, <1>15, <1>16, MigWhole

\* The original is archived: the copy is the placement's.
LEMMA FinalizeSourceKeeps ==
    ASSUME MigInv, NEW h \in Homes, NEW r \in calls[h], FinalizeSource(h, r)
    PROVE  MigInv'
<1>1. /\ MigTypeOK /\ disk \in [Homes -> {NoWorld, Unmarked} \cup Migrations] /\ archive \in [Migrations -> BOOLEAN]
  BY DEF MigInv, MigTypeOK
<1>2. PICK step \in CallSteps : step = "finalize"
  BY DEF CallSteps, SourceSteps
<1>3. PICK i \in Migrations, t \in MigRows : r.id = i /\ r.step = step /\ Serves(h, i, t, step)
  BY <1>2, Served DEF FinalizeSource
<1>4. /\ disk' = [disk EXCEPT ![h] = NoWorld] /\ archive' = [archive EXCEPT ![i] = TRUE]
      /\ UNCHANGED <<export, import, receipt, halfway, torn, runs>>
  BY <1>2, <1>3 DEF FinalizeSource
<1>5. /\ mig' \in [Migrations -> MigRows]
      /\ \A k \in Migrations : mig'[k] = IF k = i THEN t ELSE mig[k]
      /\ calls' \in [Homes -> SUBSET [id : Migrations, step : CallSteps]]
      /\ \A x \in Homes, k \in Migrations, y \in CallSteps :
            Asked(x, k, y)' <=> Asked(x, k, y) /\ ~(x = h /\ k = i /\ y = step)
      /\ admitted' \in [Homes -> {0} \cup Migrations]
      /\ \A x \in Homes : admitted[x] <= admitted'[x]
      /\ \A x \in Homes, j \in Migrations : admitted'[x] <= j => admitted[x] <= j
      /\ \A x \in Homes, j \in Migrations : admitted[x] >= j => admitted'[x] >= j
      /\ admitted'[h] >= i
      /\ h = IF step \in SourceSteps THEN mig[i].from ELSE Other(mig[i].from)
      /\ Done \subseteq Done' /\ Admissions'
      /\ \A j \in Migrations : mig'[j].pc \in {"new", "planned"} => mig[j].pc \in {"new", "planned"}
  BY <1>3, ServesFacts
<1>6. /\ Asked(h, i, step) /\ i >= admitted[h] /\ halfway[h] = 0 /\ mig' = [mig EXCEPT ![i] = t]
      /\ AnswersTo(mig[i], t, step, "ok")
      /\ placed' = placed /\ revision' = revision /\ astray' = astray /\ breaks' = breaks
  BY <1>3 DEF Serves
<1>7. PICK s \in MigRows : s = mig[i] /\ CourseOf(s) /\ MigOf(i, s)
  BY AtWork
<1>8. MigTypeOK'
  <2>1. disk' \in [Homes -> {NoWorld, Unmarked} \cup Migrations] /\ archive' \in [Migrations -> BOOLEAN]
    BY <1>1, <1>4
  <2> QED
    BY <1>1, <1>4, <1>5, <1>6, <2>1 DEF MigTypeOK, MigRows
<1>9. PICK g \in Homes : g = Other(h) /\ g # h /\ Other(g) = h /\ \A x \in Homes : x = h \/ x = g
  BY MigBasics
<1>10. HasCommitted(s) /\ h = s.from /\ Other(s.from) = g
  BY <1>2, <1>5, <1>6, <1>7, <1>9 DEF MigOf, CallsOf, SourceSteps
<1>11. ~Preparing(s) /\ ~Arrived(s) /\ s.pc \notin Switched /\ ~RolledBack(s)
  BY <1>7, <1>10 DEF CourseOf, HasCommitted, Preparing, Arrived, RolledBack, Early, Switched, Back, Forth
<1>12. /\ HasCommitted(t) <=> HasCommitted(s)
       /\ Preparing(t) => Preparing(s)
       /\ Arrived(t) => Arrived(s)
       /\ RolledBack(t) => RolledBack(s)
       /\ t.pc \in Switched <=> s.pc \in Switched
       /\ t.pc = "complete" /\ t.ans = "ok" => s.ans = "ok"
       /\ t.from = s.from /\ t.pc = s.pc /\ t.bad = s.bad
  BY <1>2, <1>6, <1>7, AnsweredFacts DEF AnswersTo, Results
<1>13. /\ \A x \in Homes : disk'[x] = IF x = h THEN NoWorld ELSE disk[x]
       /\ \A k \in Migrations : archive'[k] <=> archive[k] \/ k = i
  BY <1>1, <1>4
<1>14. /\ disk[g] \in {i, Unmarked} /\ placed = g
       /\ disk[h] \in Migrations => disk[h] \in Done
       /\ Held(i) /\ ~s.bad =>
             (s.pc \notin {"finalize", "complete"} \/ (s.pc = "complete" /\ s.ans = "ok") => disk[g] = Unmarked)
  <2>1. admitted[h] <= i
    <3>1. admitted[h] \in Int /\ i \in Int
      BY <1>1, AdmittedNumbers
    <3> QED
      BY <1>6, <3>1
  <2> QED
    BY <1>7, <1>10, <2>1 DEF MigOf, CommittedOf
<1>15. i # NoWorld /\ i # Unmarked /\ NoWorld # Unmarked /\ Unmarked \notin Migrations /\ NoWorld \notin Migrations /\ i # 0
       /\ i \in Done
  BY <1>7, <1>10, MigBasics DEF Done
<1>16. MigOf(i, t)'
  <2>1. CourseOf(t) /\ CallsOf(i, t)' /\ TokenOf(i, t)'
    <3>1. /\ h = IF step \in SourceSteps THEN s.from ELSE Other(s.from)
          /\ ~Asked(h, i, step)'
          /\ \A x \in Homes, y \in CallSteps : Asked(x, i, y)' => Asked(x, i, y)
          /\ AnswersTo(s, t, step, "ok")
      BY <1>5, <1>6, <1>7
    <3>2. "ok" \in Results
      BY DEF Results
    <3> QED
      BY <1>1, <1>5, <1>7, <1>8, <3>1, <3>2, AnsweredRow
  <2>2. MarkOf(i, t)'
    <3>1. ASSUME NEW x \in Homes, disk'[x] = i PROVE x = Other(t.from) /\ ~Preparing(t) /\ HasCommitted(t)
      BY <1>9, <1>10, <1>11, <1>12, <1>13, <1>15, <3>1
    <3> QED
      BY <3>1 DEF MarkOf
  <2>3. HalfwayOf(i, t)'
    <3>1. \A x \in Homes : halfway[x] # i
      BY <1>7, <1>10 DEF MigOf, HalfwayOf, HasCommitted, CourseOf, Back, Forth
    <3> QED
      BY <1>4, <3>1 DEF HalfwayOf
  <2>4. ArrivedOf(i, t)' /\ AwayOf(i, t)'
    BY <1>11, <1>12 DEF ArrivedOf, AwayOf
  <2>5. CommittedOf(i, t)'
    <3>1. disk'[g] = disk[g] /\ disk'[h] = NoWorld /\ archive'[i]
      BY <1>9, <1>13
    <3>2. Held(i)' => Held(i)
      BY <1>5, HeldStays
    <3>3. Held(i)' /\ ~t.bad =>
             (t.pc \notin {"finalize", "complete"} \/ (t.pc = "complete" /\ t.ans = "ok") => disk[g] = Unmarked)
      BY <1>12, <1>14, <3>2
    <3> QED
      BY <1>6, <1>10, <1>12, <1>14, <1>15, <3>1, <3>3 DEF CommittedOf
  <2> QED
    BY <2>1, <2>2, <2>3, <2>4, <2>5 DEF MigOf
<1>17. ASSUME NEW k \in Migrations \ {i}, NEW u, u = mig[k]
       PROVE  MigOf(k, u)'
  <2>1. /\ MigOf(k, u) /\ CourseOf(u) /\ u \in MigRows /\ u.from \in Homes /\ Other(u.from) \in Homes
        /\ Other(u.from) # u.from /\ k \in Migrations /\ k # i
    BY <1>1, <1>17, AtWork, MigTyped, MigBasics
  <2>2. HasCommitted(u) <=> k \in Done
    BY <1>17 DEF Done
  <2>3. \A x \in Homes, y \in CallSteps : Asked(x, k, y)' => Asked(x, k, y)
    BY <1>5
  <2>4. disk[g] # k
    BY <1>14, <1>15, <2>1
  <2>5. MarkOf(k, u)'
    <3>1. \A x \in Homes : disk'[x] # k
      BY <1>9, <1>13, <1>15, <2>1, <2>4
    <3> QED
      BY <3>1 DEF MarkOf
  <2>6. HalfwayOf(k, u)'
    <3>1. ASSUME NEW x \in Homes PROVE halfway[x] # k
      <4>1. halfway[x] = k => disk[x] = k
        BY <2>1 DEF MigOf, HalfwayOf
      <4> QED
        BY <1>6, <1>9, <2>1, <2>4, <4>1, MigBasics
    <3> QED
      BY <1>4, <3>1 DEF HalfwayOf
  <2>7. ArrivedOf(k, u)'
    <3>1. SUFFICES ASSUME Arrived(u) PROVE FALSE
      BY DEF ArrivedOf, Arrived
    <3>2. disk[Other(u.from)] = k /\ ~HasCommitted(u)
      BY <2>1, <3>1 DEF MigOf, ArrivedOf, Arrived, HasCommitted, CourseOf, Switched, Forth
    <3>3. disk[h] = k
      BY <1>9, <2>1, <2>4, <3>2
    <3> QED
      BY <1>14, <2>1, <2>2, <3>2, <3>3
  <2>8. CommittedOf(k, u)'
    <3> SUFFICES ASSUME HasCommitted(u), admitted'[u.from] <= k
                 PROVE  /\ disk'[Other(u.from)] \in {k, Unmarked} /\ placed = Other(u.from)
                        /\ disk'[u.from] \in Migrations => disk'[u.from] \in Done'
                        /\ Held(k)' /\ ~u.bad =>
                              /\ u.pc # "finalize" \/ u.ans = "ok" => archive'[k] /\ disk'[u.from] = NoWorld
                              /\ u.pc \notin {"finalize", "complete"} \/ (u.pc = "complete" /\ u.ans = "ok") =>
                                    disk'[Other(u.from)] = Unmarked
      BY <1>6 DEF CommittedOf
    <3>1. admitted[u.from] <= k
      BY <1>5, <2>1
    <3>2. /\ disk[Other(u.from)] \in {k, Unmarked} /\ placed = Other(u.from)
          /\ Held(k) /\ ~u.bad =>
                /\ u.pc # "finalize" \/ u.ans = "ok" => archive[k] /\ disk[u.from] = NoWorld
                /\ u.pc \notin {"finalize", "complete"} \/ (u.pc = "complete" /\ u.ans = "ok") =>
                      disk[Other(u.from)] = Unmarked
      BY <2>1, <3>1 DEF MigOf, CommittedOf
    <3>3. Other(u.from) = g /\ u.from = h
      BY <1>9, <1>14, <2>1, <3>2
    <3>4. disk'[Other(u.from)] = disk[Other(u.from)] /\ disk'[u.from] = NoWorld /\ (archive[k] => archive'[k])
      BY <1>9, <1>13, <2>1, <3>3
    <3>5. Held(k)' => Held(k)
      BY <1>5, <2>1, HeldStays
    <3> QED
      BY <1>15, <3>2, <3>4, <3>5
  <2>9. AwayOf(k, u)'
    <3>1. AwayOf(k, u) /\ disk'[Other(u.from)] # k
      BY <1>9, <1>13, <1>15, <2>1, <2>4 DEF MigOf
    <3>2. "commit" \in CallSteps
      BY DEF CallSteps, TargetSteps
    <3> QED
      BY <1>4, <2>3, <3>1, <3>2 DEF AwayOf
  <2>10. \A x \in Homes : admitted[x] <= admitted'[x]
    BY <1>5
  <2> QED
    BY <1>8, <1>17, <2>1, <2>3, <2>5, <2>6, <2>7, <2>8, <2>9, <2>10, OtherRow
<1>18. PlacementServed' /\ WorldKept'
  <2>1. disk'[g] = disk[g] /\ disk[g] # NoWorld
    BY <1>9, <1>13, <1>14, <1>15
  <2> QED
    BY <1>6, <1>14, <2>1 DEF PlacementServed, WorldKept
<1> QED
  BY <1>1, <1>5, <1>6, <1>8, <1>16, <1>17, <1>18, MigWhole

LEMMA MigStart == MigInit => MigInv
<1> SUFFICES ASSUME MigInit PROVE MigInv
  OBVIOUS
<1>1. /\ disk = [h \in Homes |-> IF h = "a" THEN Unmarked ELSE NoWorld]
      /\ runs \in {[h \in Homes |-> on /\ h = "a"] : on \in BOOLEAN}
      /\ placed = "a" /\ revision = 0 /\ "a" \in Homes
      /\ export = [i \in Migrations |-> FALSE] /\ import = [i \in Migrations |-> "none"]
      /\ receipt = [i \in Migrations |-> FALSE] /\ archive = [i \in Migrations |-> FALSE]
      /\ halfway = [h \in Homes |-> 0] /\ admitted = [h \in Homes |-> 0]
      /\ calls = [h \in Homes |-> {}]
      /\ mig = [i \in Migrations |-> Fresh]
      /\ astray = FALSE /\ torn = FALSE /\ breaks = 0
  BY DEF MigInit, Homes
<1>2. Fresh \in MigRows
  <2>1. LastRevision \in Nat
    BY MigrationAssumption
  <2>2. 0 \in 0 .. LastRevision
    BY <2>1
  <2> QED
    BY <1>1, <2>2 DEF Fresh, MigRows, OwnSteps
<1>3. MigTypeOK
  <2>1. 0 \in 0 .. LastRevision /\ 0 \in 0 .. MaxBreaks
    <3>1. LastRevision \in Nat /\ MaxBreaks \in Nat
      BY MigrationAssumption
    <3> QED
      BY <3>1
  <2>2. mig \in [Migrations -> MigRows]
    BY <1>1, <1>2
  <2>3. runs \in [Homes -> BOOLEAN]
    BY <1>1
  <2> QED
    BY <1>1, <2>1, <2>2, <2>3 DEF MigTypeOK, MigRows
<1>4. /\ Fresh.pc = "new" /\ Fresh.ans = "none" /\ ~Fresh.begun /\ ~Fresh.switched /\ ~Fresh.started /\ ~Fresh.committed
      /\ ~Fresh.archived /\ ~Fresh.bad
  BY DEF Fresh
<1>5. CourseOf(Fresh)
  BY <1>4 DEF CourseOf, Switched, Early, Forth
<1>6. ~HasCommitted(Fresh) /\ ~Arrived(Fresh) /\ ~RolledBack(Fresh) /\ ~Exported(Fresh) /\ Fresh.pc \notin Switched
  BY <1>4 DEF HasCommitted, Arrived, RolledBack, Exported, Switched, Back
<1>7. ASSUME NEW i \in Migrations PROVE MigOf(i, mig[i])
  <2>1. mig[i] = Fresh /\ ~receipt[i]
    BY <1>1
  <2>2. \A h \in Homes : disk[h] # i /\ halfway[h] # i
    BY <1>1, MigBasics
  <2>3. \A h \in Homes : \A step : ~Asked(h, i, step)
    BY <1>1 DEF Asked
  <2> QED
    BY <1>5, <1>6, <2>1, <2>2, <2>3
       DEF MigOf, CallsOf, TokenOf, MarkOf, HalfwayOf, ArrivedOf, CommittedOf, AwayOf
<1>8. Admissions /\ PlacementServed /\ WorldKept
  BY <1>1, MigBasics DEF Admissions, PlacementServed, WorldKept
<1> QED
  BY <1>3, <1>7, <1>8 DEF MigInv

LEMMA MigStutters == ASSUME MigInv, UNCHANGED migVars PROVE MigInv'
<1>1. UNCHANGED <<disk, export, import, receipt, archive, halfway, torn, placed, revision, astray, runs, admitted, calls, mig, breaks>>
  BY DEF migVars, diskVars, placeVars
<1>2. ASSUME NEW k \in Migrations PROVE MigOf(k, mig[k])'
  <2>1. MigOf(k, mig[k])
    BY DEF MigInv
  <2> QED
    BY <1>1, <2>1 DEF MigOf, CallsOf, TokenOf, MarkOf, HalfwayOf, ArrivedOf, CommittedOf, AwayOf, Asked, Done, Held
<1> QED
  BY <1>1, <1>2 DEF MigInv, MigTypeOK, Admissions, PlacementServed, WorldKept

LEMMA MigStep ==
    ASSUME MigInv, [MigNext]_migVars
    PROVE  MigInv'
<1>1. ASSUME NEW i \in Migrations, CoordinatorStep(i) PROVE MigInv'
  BY <1>1, PlanMigrationKeeps, TakeLeaseKeeps, ReadStatusKeeps, CallKeeps, RenewFailsKeeps, ForwardKeeps,
     NotRunningKeeps, FetchFailedKeeps, CallFailsKeeps, UndoStepKeeps, ApplyKeeps, DecideKeeps, UnapplyKeeps
     DEF CoordinatorStep
<1>2. ASSUME NEW h \in Homes, HomeStep(h) PROVE MigInv'
  <2>1. ASSUME NEW r \in calls[h],
               \/ Reject(h, r) \/ Lose(h, r) \/ ExecError(h, r) \/ ExecStop(h, r) \/ ExecStart(h, r)
               \/ PrepareExport(h, r) \/ ReleaseExport(h, r)
               \/ BeginImport(h, r) \/ ReceiveImport(h, r) \/ CommitRename(h, r)
               \/ RollbackTarget(h, r) \/ CompleteTarget(h, r)
               \/ FinalizeSource(h, r) \/ CompleteSource(h, r)
        PROVE  MigInv'
    BY <2>1, RefusalsKeep, QuietStepsKeep, CommitRenameKeeps, RollbackTargetKeeps, CompleteTargetKeeps, FinalizeSourceKeeps
  <2> QED
    BY <1>2, <2>1, CommitReceiptKeeps, DiesHalfwayKeeps DEF HomeStep
<1> QED
  BY <1>1, <1>2, EditPlanKeeps, MigStutters DEF MigNext

\* What the requests, marks, receipts and tokens of every migration say of each other holds
\* at every step of Migrate and of the two machines.
THEOREM MigInvariant == MigSpec => []MigInv
<1>1. MigInv /\ [MigNext]_migVars => MigInv'
  BY MigStep
<1> QED
  BY <1>1, MigStart, PTL DEF MigSpec

\* Every variable of the migration stays in its type: the local variables of Migrate, the
\* requests in flight, the markers and receipts of the machines.
THEOREM MigTypesHold == MigSpec => []MigTypeOK
<1>1. MigInv => MigTypeOK
  BY DEF MigInv
<1> QED
  BY <1>1, MigInvariant, PTL

\* Whatever fails, is late, or is overtaken by another migration of the same world, some
\* machine holds the world as a directory it can be started from; and it is the one the
\* placement names, as long as no write of the placement failed after Migrate switched it.
THEOREM WorldIsServed == MigSpec => []WorldServed
<1>1. MigInv => WorldServed
  BY DEF MigInv, WorldServed
<1> QED
  BY <1>1, MigInvariant, PTL

\* A failed migration whose cleanup reports no error has left no copy and no receipt on the
\* target; one that ended without a warning has moved the world and archived the original;
\* and the relay of an import never writes beside the peer transfer (WriteImport, fetch).
THEOREM MigrationIsSettled == MigSpec => []Settled
<1>1. ASSUME MigInv PROVE CleanedUp
  <2> SUFFICES ASSUME NEW i \in Migrations
               PROVE  /\ mig[i].pc = "failed" /\ ~mig[i].bad /\ ~torn =>
                            ~receipt[i] /\ \A h \in Homes : disk[h] # i
                      /\ mig[i].pc = "ok" /\ ~mig[i].bad /\ Held(i) =>
                            /\ placed = Target(i) /\ disk[Target(i)] = Unmarked
                            /\ disk[mig[i].from] = NoWorld /\ archive[i]
    BY DEF CleanedUp
  <2>1. PICK s \in MigRows : s = mig[i] /\ CourseOf(s) /\ MigOf(i, s)
    BY <1>1, AtWork
  <2>2. ASSUME s.pc = "failed", ~s.bad, ~torn
        PROVE  ~receipt[i] /\ \A h \in Homes : disk[h] # i
    <3>1. RolledBack(s)
      BY <2>1, <2>2 DEF RolledBack, Back, CourseOf, Forth
    <3>2. ~receipt[i] /\ disk[Other(s.from)] # i
      BY <2>1, <2>2, <3>1 DEF MigOf, AwayOf
    <3> QED
      BY <2>1, <3>2 DEF MigOf, MarkOf
  <2>3. ASSUME s.pc = "ok", ~s.bad, Held(i)
        PROVE  /\ placed = Other(s.from) /\ disk[Other(s.from)] = Unmarked
               /\ disk[s.from] = NoWorld /\ archive[i]
    <3>1. HasCommitted(s)
      BY <2>3 DEF HasCommitted
    <3>2. admitted[s.from] <= i
      <4>1. s.from \in Homes /\ MigTypeOK
        BY <1>1, <2>1, MigTyped DEF MigInv
      <4>2. admitted[s.from] \in Int /\ i \in Int /\ admitted[s.from] \in {0} \cup Migrations
        BY <4>1, AdmittedNumbers DEF MigTypeOK
      <4>3. admitted[s.from] \in Migrations => ~(admitted[s.from] > i)
        BY <1>1, <2>3, <4>1, MigBasics DEF MigInv, Admissions, Held
      <4>4. i >= 0
        BY MigBasics
      <4> QED
        BY <4>2, <4>3, <4>4
    <3> QED
      BY <2>1, <2>3, <3>1, <3>2 DEF MigOf, CommittedOf
  <2> QED
    BY <2>1, <2>2, <2>3 DEF Target
<1>2. ASSUME MigInv PROVE OneWriter
  <2> SUFFICES ASSUME NEW i \in Migrations, mig[i].pc \in {"rebegin", "write"}
               PROVE  ~Asked(Target(i), i, "fetch")
    BY DEF OneWriter, Asked
  <2>1. PICK s \in MigRows : s = mig[i] /\ CallsOf(i, s)
    BY <1>2, AtWork DEF MigOf
  <2>2. Target(i) \in Homes
    BY <1>2, MigTyped, MigBasics DEF Target, MigInv
  <2> QED
    BY <2>1, <2>2 DEF CallsOf, Back
<1> QED
  BY <1>1, <1>2, MigInvariant, PTL DEF Settled

=============================================================================
