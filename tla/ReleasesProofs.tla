--------------------------- MODULE ReleasesProofs ---------------------------
(***************************************************************************)
(* Proofs about the releases of mods, for every number of releases,        *)
(* targets, crashes, edits and errors.                                     *)
(*                                                                         *)
(* Mod distribution: a release is there as a whole or not at all, wherever *)
(* the process died and whatever was edited meanwhile; and an edit is only *)
(* replaced by a release that saw it.  The invariant says, for the one     *)
(* release whose journal is open, what stage, backup and target of each    *)
(* mutation can be (Mutation), that nothing else was touched (OpenRelease),*)
(* and how far the handler is (Handler).                                   *)
(*                                                                         *)
(* Mod publication, for every number of publications, installations and    *)
(* attempts: the decision in the row binds every installation, and a       *)
(* recovery without one leaves none of them open.  The invariant says what *)
(* an attempt has behind it on its way forward (Backed) and on its way     *)
(* back (Cleaned), that the attempt that publishes has a lower token than  *)
(* its recoveries (Overtaken), whose token a delayed call carries          *)
(* (DelayedInv), that tokens do not outgrow attempts (TokensInv), and what *)
(* a decided and a recovered row say of the installations (RowsInv).       *)
(***************************************************************************)
EXTENDS ModDistribution, ModPublication, TLAPS, SequenceTheorems, FiniteSetTheorems,
        WellFoundedInduction

\* Nothing of release r is left for target t.
Clear(r, t) == staged[r][t] = Absent /\ saved[r][t] = Absent

\* The target holds what was committed before, or what r wants, unless edited.
Old(t) == disk[t] \in {Committed[t], Edited}
New(r, t) == disk[t] \in {Wants[r][t], Edited}

OneJournal == \A r, s \in Releases : Open(r) /\ Open(s) => r = s

\* Only targets the open journal names have a stage or a backup.
Litter ==
    \A r \in Releases, t \in Targets : ~Open(r) \/ t \notin journal[r].muts => Clear(r, t)

\* installations.json names a release only after its caller decided to commit,
\* and before the journal says committed.
Sides ==
    /\ last # 0 => last \in asked
    /\ \A r \in Releases : Open(r) /\ last = r => journal[r].phase \in {"completing", "committed"}
    /\ \A r \in Releases : Open(r) /\ journal[r].phase = "committed" => last = r

\* A mutation on its way there or back: the backup is the original, and the target
\* without one holds what it held, or, where nothing was, what was placed.
Mutation(r, t) ==
    /\ journal[r].orig[t] \in {Committed[t], Edited}
    /\ saved[r][t] \in {Absent, journal[r].orig[t]}
    /\ staged[r][t] \in {Absent, Wants[r][t]}
    /\ saved[r][t] = Absent =>
         Old(t) \/ (journal[r].orig[t] = Absent /\ staged[r][t] = Absent /\ disk[t] = Wants[r][t])
    /\ saved[r][t] # Absent => disk[t] \in {Absent, Wants[r][t], Edited}

OpenRelease ==
    \A r \in Releases : Open(r) =>
      /\ \A t \in Targets \ journal[r].muts : Old(t) /\ New(r, t)
      /\ last # r => \A t \in journal[r].muts : Mutation(r, t)
      /\ last = r => \A t \in Targets : New(r, t)

\* What holds in the steps of the handler.
StageStep ==
    work.step = "stage" =>
      /\ work.rel \notin asked
      /\ \A t \in journal[work.rel].muts : saved[work.rel][t] = Absent /\ Old(t)

PublishSteps ==
    /\ work.step \in {"publish", "place", "record"} => journal[work.rel].phase = "publishing"
    /\ work.step \in {"place", "record", "restore"} => work.rest # {}
    /\ work.step = "place" =>
         disk[Least(work.rest)] = Absent /\ saved[work.rel][Least(work.rest)] # Absent

CompleteSteps ==
    /\ work.step \in {"verify", "state", "commit"} =>
         /\ journal[work.rel].phase = "completing"
         /\ work.rest = journal[work.rel].muts /\ work.rel \in asked
    /\ work.step = "state" => \A t \in work.rest : New(work.rel, t)
    /\ work.step = "commit" => last = work.rel

CleanStep ==
    work.step = "clean" =>
      /\ last = work.rel \/ \A t \in journal[work.rel].muts : Old(t)
      /\ \A t \in journal[work.rel].muts \ work.rest : Clear(work.rel, t)

UndoSteps ==
    /\ work.step \in {"undo", "restore"} =>
         /\ journal[work.rel].phase = "rolling_back"
         /\ work.failed \/ \A t \in journal[work.rel].muts \ work.rest : Clear(work.rel, t) /\ Old(t)
    /\ work.step = "restore" =>
         /\ disk[Greatest(work.rest)] = Absent
         /\ Displaced(work.rel, Greatest(work.rest)) \/ Created(work.rel, Greatest(work.rest))

Handler ==
    work.step # "idle" =>
      /\ work.rel \in Releases /\ Open(work.rel) /\ work.rest \subseteq journal[work.rel].muts
      /\ StageStep /\ PublishSteps /\ CompleteSteps /\ CleanStep /\ UndoSteps

\* What the files, the journals and installations.json say.
FilesInv == OneJournal /\ Litter /\ Sides /\ OpenRelease /\ ReleaseAtomic

DistInv == DistTypeOK /\ FilesInv /\ Handler

-----------------------------------------------------------------------------
(* Contents and targets *)

LEMMA ContentFacts ==
    /\ Absent \in Contents /\ Edited \in Contents /\ Absent # Edited
    /\ \A r \in Releases, t \in Targets :
         Wants[r][t] \in Contents /\ Wants[r][t] # Absent /\ Wants[r][t] # Edited
    /\ \A t \in Targets : FirstDisk[t] \in Contents
    /\ 0 \notin Releases /\ 0 .. LastRelease = Releases \cup {0}
<1>1. LastRelease \in Nat /\ LastRelease > 0
  BY DistributionAssumption
<1>2. \A r \in Releases, t \in Targets : Wants[r][t] \in 1 .. LastRelease
  BY DistributionAssumption DEF Releases
<1>3. \A t \in Targets : FirstDisk[t] \in {Absent, Base}
  BY DistributionAssumption
<1>4. Absent \in Contents /\ Edited \in Contents /\ Base \in Contents /\ Absent # Edited
  BY <1>1 DEF Absent, Base, Edited, Contents
<1>5. \A n \in 1 .. LastRelease : n \in Contents /\ n # Absent /\ n # Edited
  BY <1>1 DEF Absent, Edited, Contents
<1>6. 0 \notin Releases /\ 0 .. LastRelease = Releases \cup {0}
  BY <1>1 DEF Releases
<1> QED
  BY <1>2, <1>3, <1>4, <1>5, <1>6

LEMMA NextTargets ==
    ASSUME NEW S \in SUBSET Targets, S # {}
    PROVE  Least(S) \in S /\ Greatest(S) \in S
<1> DEFINE R == OpToRel(<, Nat)
<1>1. IsWellFoundedOn(R, Nat)
  BY NatLessThanWellFounded
<1>2. \A x, y \in Nat : x < y => <<x, y>> \in R
  BY DEF OpToRel
<1> HIDE DEF R
<1>3. LastTarget \in Nat /\ \A x \in S : x \in Nat /\ LastTarget - x \in Nat
  BY DistributionAssumption DEF Targets
<1>4. Least(S) \in S
  <2>1. PICK x \in S : \A y \in S : ~(<<y, x>> \in R)
    BY <1>1, <1>3, WFMin
  <2>2. \A y \in S : ~(y < x)
    BY <1>2, <1>3, <2>1
  <2>3. \A y \in S : x <= y
    BY <1>3, <2>2
  <2> QED
    BY <2>3 DEF Least
<1>5. Greatest(S) \in S
  <2> DEFINE U == {LastTarget - x : x \in S}
  <2>1. U \in SUBSET Nat /\ U # {}
    BY <1>3
  <2>2. PICK u \in U : \A v \in U : ~(<<v, u>> \in R)
    BY <1>1, <2>1, WFMin
  <2>3. PICK x \in S : u = LastTarget - x
    OBVIOUS
  <2>4. \A y \in S : ~(LastTarget - y < LastTarget - x)
    BY <1>2, <1>3, <2>1, <2>2, <2>3
  <2>5. \A y \in S : y <= x
    BY <1>3, <2>4
  <2> QED
    BY <2>5 DEF Greatest
<1> QED
  BY <1>4, <1>5

\* The handler at work: its release and the journal of it.
LEMMA AtWork ==
    ASSUME DistInv, work.step # "idle"
    PROVE  /\ work.rel \in Releases /\ Open(work.rel) /\ journal[work.rel] \in Journals
           /\ work.rest \subseteq journal[work.rel].muts /\ work.rest \in SUBSET Targets
           /\ journal[work.rel].muts \in SUBSET Targets
           /\ journal[work.rel].orig \in [Targets -> Contents]
           /\ work.rest # {} => Least(work.rest) \in work.rest /\ Greatest(work.rest) \in work.rest
<1>1. work.rel \in Releases /\ Open(work.rel) /\ work.rest \subseteq journal[work.rel].muts
  BY DEF DistInv, Handler
<1>2. journal[work.rel] \in Journals
  BY <1>1 DEF DistInv, DistTypeOK, Open
<1>3. journal[work.rel].muts \in SUBSET Targets /\ journal[work.rel].orig \in [Targets -> Contents]
  BY <1>2 DEF Journals
<1>4. work.rest \in SUBSET Targets
  BY <1>1, <1>3
<1> QED
  BY <1>1, <1>2, <1>3, <1>4, NextTargets

LEMMA WorkTypes ==
    ASSUME DistTypeOK
    PROVE  /\ work \in [step : Steps, rel : 0 .. LastRelease, rest : SUBSET Targets, failed : BOOLEAN]
           /\ disk \in [Targets -> Contents]
           /\ staged \in [Releases -> [Targets -> Contents]]
           /\ saved \in [Releases -> [Targets -> Contents]]
           /\ journal \in [Releases -> Journals \cup {NoJournal}]
  BY DEF DistTypeOK

LEMMA IdleTypes == Idle \in [step : Steps, rel : 0 .. LastRelease, rest : SUBSET Targets, failed : BOOLEAN]
  BY DistributionAssumption DEF Idle, Steps

-----------------------------------------------------------------------------
(* Steps that write the journal only *)

\* A journal that keeps its mutations keeps the files in order.
LEMMA JournalMoves ==
    ASSUME DistInv, UNCHANGED <<disk, staged, saved, last>>, asked \subseteq asked',
           \A s \in Releases : journal'[s] # NoJournal <=> journal[s] # NoJournal,
           \A s \in Releases : Open(s) =>
               /\ journal'[s].muts = journal[s].muts /\ journal'[s].orig = journal[s].orig
               /\ last = s => journal'[s].phase \in {"completing", "committed"}
               /\ journal'[s].phase = "committed" => last = s
    PROVE  FilesInv'
<1>1. \A s \in Releases : Open(s)' <=> Open(s)
  BY DEF Open
<1>2. Committed' = Committed
  BY DEF Committed
<1>3. \A t \in Targets : Old(t)' <=> Old(t)
  BY <1>2 DEF Old
<1>4. \A s \in Releases, t \in Targets : (New(s, t)' <=> New(s, t)) /\ (Clear(s, t)' <=> Clear(s, t))
  BY DEF New, Clear
<1>5. OneJournal' /\ Litter'
  BY <1>1, <1>4 DEF DistInv, FilesInv, OneJournal, Litter
<1>6. Sides'
  BY <1>1 DEF DistInv, FilesInv, Sides
<1>7. ReleaseAtomic'
  BY <1>1, <1>2 DEF DistInv, FilesInv, ReleaseAtomic, WholeRelease, NoLitter, Quiet
<1>8. OpenRelease'
  <2> SUFFICES ASSUME NEW s \in Releases, Open(s)
               PROVE  /\ \A t \in Targets \ journal[s].muts : Old(t)' /\ New(s, t)'
                      /\ last # s => \A t \in journal[s].muts : Mutation(s, t)'
                      /\ last = s => \A t \in Targets : New(s, t)'
    BY <1>1 DEF OpenRelease
  <2>1. journal[s].muts \subseteq Targets
    BY DEF DistInv, DistTypeOK, Open, Journals
  <2>2. last # s => \A t \in journal[s].muts : Mutation(s, t)'
    BY <1>2, <1>3, <2>1 DEF DistInv, FilesInv, OpenRelease, Mutation
  <2> QED
    BY <1>3, <1>4, <2>2 DEF DistInv, FilesInv, OpenRelease
<1> QED
  BY <1>5, <1>6, <1>7, <1>8 DEF FilesInv

LEMMA PhaseSet ==
    ASSUME DistTypeOK, NEW r \in Releases, Open(r), NEW ph \in Phases, SetPhase(r, ph)
    PROVE  /\ journal' \in [Releases -> Journals \cup {NoJournal}]
           /\ \A s \in Releases : journal'[s] # NoJournal <=> journal[s] # NoJournal
           /\ \A s \in Releases : s # r => journal'[s] = journal[s]
           /\ journal'[r] \in Journals /\ journal'[r].phase = ph
           /\ journal'[r].muts = journal[r].muts /\ journal'[r].orig = journal[r].orig
<1>1. journal \in [Releases -> Journals \cup {NoJournal}] /\ journal[r] \in Journals
  BY DEF DistTypeOK, Open
<1> DEFINE j == [journal[r] EXCEPT !.phase = ph]
<1>2. journal' = [journal EXCEPT ![r] = j]
  BY <1>1 DEF SetPhase
<1>3. j \in Journals /\ j.phase = ph /\ j.muts = journal[r].muts /\ j.orig = journal[r].orig
  BY <1>1 DEF Journals
<1>4. \A k \in Journals : k # NoJournal
  <2>1. \A k \in Journals : k.phase \in Phases
    BY DEF Journals
  <2>2. NoJournal.phase \notin Phases
    BY DEF NoJournal, Phases
  <2> QED
    BY <2>1, <2>2
<1> HIDE DEF j
<1> QED
  BY <1>1, <1>2, <1>3, <1>4 DEF Open

\* The handler returns: its release is as the journal says.
LEMMA Returns ==
    ASSUME DistInv, work' = Idle, UNCHANGED <<disk, staged, saved, journal, last, asked>>,
           unrecovered' \in BOOLEAN, crashes' \in 0 .. MaxCrashes, UNCHANGED edits, errors' \in 0 .. MaxErrors
    PROVE  DistInv'
<1>1. DistTypeOK'
  BY IdleTypes DEF DistInv, DistTypeOK
<1>2. FilesInv'
  <2>1. \A s \in Releases : Open(s) => (last = s => journal[s].phase \in {"completing", "committed"})
                                     /\ (journal[s].phase = "committed" => last = s)
    BY DEF DistInv, FilesInv, Sides
  <2> QED
    BY <2>1, JournalMoves
<1>3. Handler'
  BY DEF Handler, Idle
<1> QED
  BY <1>1, <1>2, <1>3 DEF DistInv

LEMMA ReturnsKeep ==
    ASSUME DistInv, HandlerFails \/ Crash \/ \E t \in Targets : Conflict(t)
    PROVE  DistInv'
<1>1. work' = Idle /\ UNCHANGED <<disk, staged, saved, journal, last, asked, edits>>
  BY DEF HandlerFails, Crash, Conflict
<1>2. unrecovered' \in BOOLEAN
  BY DEF HandlerFails, Crash, Conflict, DistInv, DistTypeOK
<1>3. crashes' \in 0 .. MaxCrashes /\ errors' \in 0 .. MaxErrors
  BY DistributionAssumption DEF HandlerFails, Crash, Conflict, DistInv, DistTypeOK
<1> QED
  BY <1>1, <1>2, <1>3, Returns

\* The handler goes on from one step to the next, or a caller begins, and the
\* phase is set.
LEMMA Begins ==
    ASSUME DistInv, NEW r \in Releases, Open(r), NEW ph \in Phases, SetPhase(r, ph),
           last = r => ph \in {"completing", "committed"}, ph = "committed" => last = r,
           UNCHANGED <<disk, staged, saved, last, crashes, edits>>,
           asked' \subseteq Releases, asked \subseteq asked',
           unrecovered' \in BOOLEAN, errors' \in 0 .. MaxErrors,
           work' \in [step : Steps, rel : 0 .. LastRelease, rest : SUBSET Targets, failed : BOOLEAN]
    PROVE  DistTypeOK' /\ FilesInv'
<1>1. /\ journal' \in [Releases -> Journals \cup {NoJournal}]
      /\ \A s \in Releases : journal'[s] # NoJournal <=> journal[s] # NoJournal
      /\ \A s \in Releases : s # r => journal'[s] = journal[s]
      /\ journal'[r].phase = ph
      /\ journal'[r].muts = journal[r].muts /\ journal'[r].orig = journal[r].orig
  BY PhaseSet DEF DistInv
<1>2. DistTypeOK'
  BY <1>1 DEF DistInv, DistTypeOK
<1>3. \A s \in Releases : Open(s) =>
               /\ journal'[s].muts = journal[s].muts /\ journal'[s].orig = journal[s].orig
               /\ last = s => journal'[s].phase \in {"completing", "committed"}
               /\ journal'[s].phase = "committed" => last = s
  <2> SUFFICES ASSUME NEW s \in Releases, Open(s)
               PROVE  /\ journal'[s].muts = journal[s].muts /\ journal'[s].orig = journal[s].orig
                      /\ last = s => journal'[s].phase \in {"completing", "committed"}
                      /\ journal'[s].phase = "committed" => last = s
    OBVIOUS
  <2>1. CASE s = r
    BY <1>1, <2>1
  <2>2. CASE s # r
    BY <1>1, <2>2 DEF DistInv, FilesInv, Sides
  <2> QED
    BY <2>1, <2>2
<1>4. FilesInv'
  BY <1>1, <1>3, JournalMoves
<1> QED
  BY <1>2, <1>4

LEMMA PreparedKeeps ==
    ASSUME DistInv, Prepared
    PROVE  DistInv'
<1> USE DEF Prepared
<1>1. PICK r \in Releases : r = work.rel /\ Open(r) /\ r \notin asked
  BY AtWork DEF DistInv, Handler, StageStep
<1>2. last # r
  BY <1>1, ContentFacts DEF DistInv, FilesInv, Sides
<1>3. SetPhase(r, "prepared") /\ work' = Idle
  BY <1>1
<1>4. DistTypeOK' /\ FilesInv'
  BY <1>1, <1>2, <1>3, Begins, IdleTypes DEF Phases, DistInv, DistTypeOK
<1> QED
  BY <1>4 DEF DistInv, Handler, Idle

\* A rollback begins: the journal says so, and the release is not the last one.
LEMMA UndoBegins ==
    ASSUME DistInv, NEW r \in Releases, Open(r), last # r, SetPhase(r, "rolling_back"),
           work' = At("undo", r, journal[r].muts),
           UNCHANGED <<disk, staged, saved, last, asked, crashes, edits>>,
           unrecovered' \in BOOLEAN, errors' \in 0 .. MaxErrors
    PROVE  DistInv'
<1>1. journal[r] \in Journals /\ journal[r].muts \in SUBSET Targets
  BY DEF DistInv, DistTypeOK, Open, Journals
<1>2. /\ work' \in [step : Steps, rel : 0 .. LastRelease, rest : SUBSET Targets, failed : BOOLEAN]
      /\ work'.step = "undo" /\ work'.rel = r /\ work'.rest = journal[r].muts
  <2>1. "undo" \in Steps
    BY DEF Steps
  <2> QED
    BY <1>1, <2>1, ContentFacts DEF At
<1>3. DistTypeOK' /\ FilesInv'
  BY <1>2, Begins DEF Phases, DistInv, DistTypeOK
<1>4. journal'[r] \in Journals /\ journal'[r].phase = "rolling_back" /\ journal'[r].muts = journal[r].muts
      /\ journal'[r] # NoJournal
  BY PhaseSet DEF Phases, DistInv, Open
<1>5. Handler'
  BY <1>2, <1>4 DEF Handler, StageStep, PublishSteps, CompleteSteps, CleanStep, UndoSteps, Open
<1> QED
  BY <1>3, <1>5 DEF DistInv

LEMMA UndoBeginsKeep ==
    ASSUME DistInv, PrepareFails \/ \E r \in Releases : Rollback(r)
    PROVE  DistInv'
<1>1. \A r \in Releases : r \notin asked => last # r
  BY ContentFacts DEF DistInv, FilesInv, Sides
<1>2. CASE PrepareFails
  <2>1. PICK r \in Releases : r = work.rel /\ Open(r) /\ r \notin asked
    BY <1>2, AtWork DEF PrepareFails, DistInv, Handler, StageStep
  <2>2. errors' \in 0 .. MaxErrors
    BY <1>2, DistributionAssumption DEF PrepareFails, DistInv, DistTypeOK
  <2>3. /\ SetPhase(r, "rolling_back") /\ work' = At("undo", r, journal[r].muts) /\ unrecovered' \in BOOLEAN
        /\ UNCHANGED <<disk, staged, saved, last, asked, crashes, edits>>
    BY <1>2, <2>1 DEF PrepareFails, DistInv, DistTypeOK
  <2> QED
    BY <1>1, <2>1, <2>2, <2>3, UndoBegins
<1>3. ASSUME NEW r \in Releases, Rollback(r) PROVE DistInv'
  <2>1. /\ Open(r) /\ r \notin asked /\ SetPhase(r, "rolling_back") /\ work' = At("undo", r, journal[r].muts)
        /\ unrecovered' \in BOOLEAN /\ errors' \in 0 .. MaxErrors
        /\ UNCHANGED <<disk, staged, saved, last, asked, crashes, edits>>
    BY <1>3 DEF Rollback, Readable, DistInv, DistTypeOK
  <2> QED
    BY <1>1, <2>1, UndoBegins
<1> QED
  BY <1>2, <1>3

LEMMA PublishKeeps ==
    ASSUME DistInv, NEW r \in Releases, Publish(r)
    PROVE  DistInv'
<1>1. Open(r) /\ journal[r] \in Journals /\ journal[r].muts \in SUBSET Targets /\ last # r
  BY DEF Publish, Readable, DistInv, DistTypeOK, FilesInv, Sides, Open, Journals
<1>2. PICK S \in SUBSET Targets : S = journal[r].muts \ journal[r].done
  BY <1>1
<1>3. /\ work' \in [step : Steps, rel : 0 .. LastRelease, rest : SUBSET Targets, failed : BOOLEAN]
      /\ work'.step = "publish" /\ work'.rel = r /\ work'.rest = S
  <2>1. "publish" \in Steps
    BY DEF Steps
  <2> QED
    BY <1>2, <2>1, ContentFacts DEF Publish, At
<1>4. SetPhase(r, "publishing")
  BY DEF Publish
<1>5. DistTypeOK' /\ FilesInv'
  BY <1>1, <1>3, <1>4, Begins DEF Publish, Phases, DistInv, DistTypeOK
<1>6. journal'[r].phase = "publishing" /\ journal'[r].muts = journal[r].muts /\ journal'[r] # NoJournal
  BY <1>1, <1>4, PhaseSet DEF Phases, DistInv, Open
<1>7. Handler'
  BY <1>2, <1>3, <1>6 DEF Handler, StageStep, PublishSteps, CompleteSteps, CleanStep, UndoSteps, Open
<1> QED
  BY <1>5, <1>7 DEF DistInv

LEMMA PublishedKeeps ==
    ASSUME DistInv, Published
    PROVE  DistInv'
<1> USE DEF Published
<1>1. PICK r \in Releases : r = work.rel /\ Open(r) /\ journal[r].phase = "publishing"
  BY AtWork DEF DistInv, Handler, PublishSteps
<1>2. last # r
  BY <1>1 DEF DistInv, FilesInv, Sides
<1>3. SetPhase(r, "published") /\ work' = Idle
  BY <1>1
<1>4. DistTypeOK' /\ FilesInv'
  BY <1>1, <1>2, <1>3, Begins, IdleTypes DEF Phases, DistInv, DistTypeOK
<1> QED
  BY <1>4 DEF DistInv, Handler, Idle

\* The handler only takes a decision.
LEMMA Decides ==
    ASSUME DistInv, UNCHANGED <<disk, staged, saved, journal, last, asked, crashes, edits, errors>>,
           unrecovered' \in BOOLEAN,
           work' \in [step : Steps, rel : 0 .. LastRelease, rest : SUBSET Targets, failed : BOOLEAN]
    PROVE  DistTypeOK' /\ FilesInv'
<1>1. DistTypeOK'
  BY DEF DistInv, DistTypeOK
<1>2. \A s \in Releases : Open(s) => (last = s => journal[s].phase \in {"completing", "committed"})
                                   /\ (journal[s].phase = "committed" => last = s)
  BY DEF DistInv, FilesInv, Sides
<1> QED
  BY <1>1, <1>2, JournalMoves

LEMMA PlacedKeeps ==
    ASSUME DistInv, NEW t \in Targets, Placed(t)
    PROVE  DistInv'
<1>1. work.step = "publish" /\ work.rest # {} /\ work' = [work EXCEPT !.step = "record"]
  BY DEF Placed, Publishing
<1>2. /\ work' \in [step : Steps, rel : 0 .. LastRelease, rest : SUBSET Targets, failed : BOOLEAN]
      /\ work'.step = "record" /\ work'.rel = work.rel /\ work'.rest = work.rest
  BY <1>1 DEF DistInv, DistTypeOK, Steps
<1>3. DistTypeOK' /\ FilesInv'
  BY <1>2, Decides DEF Placed, DistInv, DistTypeOK
<1>4. Handler'
  BY <1>1, <1>2 DEF Placed, DistInv, Handler, StageStep, PublishSteps, CompleteSteps, CleanStep, UndoSteps, Open
<1> QED
  BY <1>3, <1>4 DEF DistInv

LEMMA RecordKeeps ==
    ASSUME DistInv, Record
    PROVE  DistInv'
<1>1. /\ work.step = "record" /\ work.rest # {}
      /\ journal[work.rel].phase = "publishing"
  BY DEF Record, DistInv, Handler, PublishSteps
<1>2. PICK r \in Releases : r = work.rel /\ Open(r) /\ journal[r] \in Journals
  BY <1>1, AtWork
<1>3. PICK t \in Targets : t = Least(work.rest) /\ t \in work.rest
  BY <1>1, AtWork
<1> DEFINE j == [journal[r] EXCEPT !.done = @ \cup {t}]
<1>4. /\ j \in Journals /\ j.phase = journal[r].phase /\ j.muts = journal[r].muts /\ j.orig = journal[r].orig
  BY <1>2 DEF Journals
<1>5. journal' = [journal EXCEPT ![r] = j] /\ work' = [work EXCEPT !.step = "publish", !.rest = @ \ {t}]
  BY <1>2, <1>3 DEF Record, DistInv, DistTypeOK
<1> HIDE DEF j
<1>6. j # NoJournal
  <2>1. j.phase \in Phases /\ NoJournal.phase \notin Phases
    BY <1>4 DEF Journals, Phases, NoJournal
  <2> QED
    BY <2>1
<1>7. /\ journal' \in [Releases -> Journals \cup {NoJournal}]
      /\ \A s \in Releases : journal'[s] = IF s = r THEN j ELSE journal[s]
  BY <1>4, <1>5 DEF DistInv, DistTypeOK
<1>8. /\ work' \in [step : Steps, rel : 0 .. LastRelease, rest : SUBSET Targets, failed : BOOLEAN]
      /\ work'.step = "publish" /\ work'.rel = r /\ work'.rest = work.rest \ {t}
  BY <1>2, <1>5 DEF DistInv, DistTypeOK, Steps
<1>9. DistTypeOK'
  BY <1>7, <1>8 DEF Record, DistInv, DistTypeOK
<1>10. FilesInv'
  <2>1. \A s \in Releases : journal'[s] # NoJournal <=> journal[s] # NoJournal
    BY <1>2, <1>6, <1>7 DEF Open
  <2>2. \A s \in Releases : Open(s) =>
               /\ journal'[s].muts = journal[s].muts /\ journal'[s].orig = journal[s].orig
               /\ last = s => journal'[s].phase \in {"completing", "committed"}
               /\ journal'[s].phase = "committed" => last = s
    BY <1>4, <1>7 DEF DistInv, FilesInv, Sides
  <2> QED
    BY <2>1, <2>2, JournalMoves DEF Record
<1>11. Handler'
  <2>1. work.rest \subseteq journal[r].muts
    BY <1>1, <1>2, AtWork
  <2> QED
    BY <1>1, <1>2, <1>4, <1>6, <1>7, <1>8, <2>1
       DEF Handler, StageStep, PublishSteps, CompleteSteps, CleanStep, UndoSteps, Open
<1> QED
  BY <1>9, <1>10, <1>11 DEF DistInv

LEMMA VerifyKeeps ==
    ASSUME DistInv, Verify
    PROVE  DistInv'
<1>1. CASE work' = Idle
  BY <1>1, Returns DEF Verify, DistInv, DistTypeOK
<1>2. CASE work' = [work EXCEPT !.step = "state"] /\ \A t \in work.rest : disk[t] = Wants[work.rel][t]
  <2>1. /\ work' \in [step : Steps, rel : 0 .. LastRelease, rest : SUBSET Targets, failed : BOOLEAN]
        /\ work'.step = "state" /\ work'.rel = work.rel /\ work'.rest = work.rest
    BY <1>2 DEF DistInv, DistTypeOK, Steps
  <2>2. DistTypeOK' /\ FilesInv'
    BY <2>1, Decides DEF Verify, DistInv, DistTypeOK
  <2>3. \A t \in work'.rest : New(work.rel, t)'
    BY <1>2, <2>1 DEF New, Verify
  <2>4. Handler'
    BY <1>2, <2>1, <2>3 DEF Verify, DistInv, Handler, StageStep, PublishSteps, CompleteSteps, CleanStep,
       UndoSteps, Open, New
  <2> QED
    BY <2>2, <2>4 DEF DistInv
<1> QED
  BY <1>1, <1>2 DEF Verify

\* What remains of a release is cleaned: when it is the last one, or undone.
LEMMA CleanBegins ==
    ASSUME DistInv, NEW r \in Releases, Open(r), last = r \/ \A t \in journal[r].muts : Old(t),
           work' = At("clean", r, journal[r].muts),
           UNCHANGED <<disk, staged, saved, journal, last, crashes, edits, errors>>,
           asked' \subseteq Releases, asked \subseteq asked', unrecovered' \in BOOLEAN
    PROVE  DistInv'
<1>1. journal[r].muts \in SUBSET Targets
  BY DEF DistInv, DistTypeOK, Open, Journals
<1>2. /\ work' \in [step : Steps, rel : 0 .. LastRelease, rest : SUBSET Targets, failed : BOOLEAN]
      /\ work'.step = "clean" /\ work'.rel = r /\ work'.rest = journal[r].muts
  <2>1. "clean" \in Steps
    BY DEF Steps
  <2> QED
    BY <1>1, <2>1, ContentFacts DEF At
<1>3. DistTypeOK'
  BY <1>2 DEF DistInv, DistTypeOK
<1>4. FilesInv'
  <2>1. \A s \in Releases : Open(s) => (last = s => journal[s].phase \in {"completing", "committed"})
                                     /\ (journal[s].phase = "committed" => last = s)
    BY DEF DistInv, FilesInv, Sides
  <2> QED
    BY <2>1, JournalMoves
<1>5. \A t \in Targets : Old(t)' <=> Old(t)
  BY DEF Old, Committed
<1>6. Handler'
  BY <1>1, <1>2, <1>5 DEF Handler, StageStep, PublishSteps, CompleteSteps, CleanStep, UndoSteps, Open
<1> QED
  BY <1>3, <1>4, <1>6 DEF DistInv

LEMMA CompleteKeeps ==
    ASSUME DistInv, NEW r \in Releases, Complete(r)
    PROVE  DistInv'
<1>1. Open(r) /\ journal[r].muts \in SUBSET Targets
  BY DEF Complete, Readable, DistInv, DistTypeOK, Open, Journals
<1>2. asked' = asked \cup {r} /\ asked' \subseteq Releases
  BY DEF Complete, DistInv, DistTypeOK
<1>3. CASE journal[r].phase = "committed"
  <2>1. last = r
    BY <1>1, <1>3 DEF DistInv, FilesInv, Sides
  <2> QED
    BY <1>1, <1>2, <1>3, <2>1, CleanBegins DEF Complete, DistInv, DistTypeOK
<1>4. CASE journal[r].phase # "committed"
  <2>1. /\ work' \in [step : Steps, rel : 0 .. LastRelease, rest : SUBSET Targets, failed : BOOLEAN]
        /\ work'.step = "verify" /\ work'.rel = r /\ work'.rest = journal[r].muts
    <3>1. "verify" \in Steps
      BY DEF Steps
    <3>2. work' = At("verify", r, journal[r].muts)
      BY <1>4 DEF Complete
    <3> QED
      BY <1>1, <3>1, <3>2, ContentFacts DEF At
  <2>2. SetPhase(r, "completing")
    BY <1>4 DEF Complete
  <2>3. DistTypeOK' /\ FilesInv'
    BY <1>1, <1>2, <2>1, <2>2, Begins DEF Complete, Phases, DistInv, DistTypeOK
  <2>4. journal'[r].phase = "completing" /\ journal'[r].muts = journal[r].muts /\ journal'[r] # NoJournal
    BY <1>1, <2>2, PhaseSet DEF Phases, DistInv, Open
  <2>5. Handler'
    BY <1>2, <2>1, <2>4 DEF Handler, StageStep, PublishSteps, CompleteSteps, CleanStep, UndoSteps, Open
  <2> QED
    BY <2>3, <2>5 DEF DistInv
<1> QED
  BY <1>3, <1>4

LEMMA CommitKeeps ==
    ASSUME DistInv, Commit
    PROVE  DistInv'
<1>1. PICK r \in Releases : /\ r = work.rel /\ Open(r) /\ last = r /\ work.rest = journal[r].muts
  BY AtWork DEF Commit, DistInv, Handler, CompleteSteps
<1>2. SetPhase(r, "committed") /\ work' = [work EXCEPT !.step = "clean"]
  BY <1>1 DEF Commit
<1>3. /\ work' \in [step : Steps, rel : 0 .. LastRelease, rest : SUBSET Targets, failed : BOOLEAN]
      /\ work'.step = "clean" /\ work'.rel = r /\ work'.rest = journal[r].muts
  BY <1>1, <1>2 DEF DistInv, DistTypeOK, Steps
<1>4. DistTypeOK' /\ FilesInv'
  BY <1>1, <1>2, <1>3, Begins DEF Commit, Phases, DistInv, DistTypeOK
<1>5. journal'[r].muts = journal[r].muts /\ journal'[r] # NoJournal
  BY <1>1, <1>2, PhaseSet DEF Phases, DistInv, Open
<1>6. Handler'
  BY <1>1, <1>3, <1>5
     DEF Commit, Handler, StageStep, PublishSteps, CompleteSteps, CleanStep, UndoSteps, Open
<1> QED
  BY <1>4, <1>6 DEF DistInv

LEMMA KeepKeeps ==
    ASSUME DistInv, NEW t \in Targets, Keep(t)
    PROVE  DistInv'
<1>1. work.step = "undo" /\ work' = [work EXCEPT !.rest = @ \ {t}, !.failed = TRUE]
  BY DEF Keep, Undoing
<1>2. /\ work' \in [step : Steps, rel : 0 .. LastRelease, rest : SUBSET Targets, failed : BOOLEAN]
      /\ work'.step = "undo" /\ work'.rel = work.rel /\ work'.rest = work.rest \ {t} /\ work'.failed
  BY <1>1 DEF DistInv, DistTypeOK, Steps
<1>3. DistTypeOK' /\ FilesInv'
  BY <1>2, Decides DEF Keep, DistInv, DistTypeOK
<1>4. Handler'
  BY <1>1, <1>2 DEF Keep, DistInv, Handler, StageStep, PublishSteps, CompleteSteps, CleanStep, UndoSteps, Open
<1> QED
  BY <1>3, <1>4 DEF DistInv

LEMMA UndoneKeeps ==
    ASSUME DistInv, Undone
    PROVE  DistInv'
<1>1. CASE work' = Idle
  BY <1>1, Returns DEF Undone, DistInv, DistTypeOK
<1>2. CASE ~work.failed /\ work' = At("clean", work.rel, journal[work.rel].muts)
  <2>1. PICK r \in Releases : r = work.rel /\ Open(r)
    BY AtWork DEF Undone
  <2>2. \A t \in journal[r].muts : Old(t)
    BY <1>2, <2>1 DEF Undone, DistInv, Handler, UndoSteps
  <2> QED
    BY <1>2, <2>1, <2>2, CleanBegins DEF Undone, DistInv, DistTypeOK
<1> QED
  BY <1>1, <1>2 DEF Undone

LEMMA RecoverKeeps ==
    ASSUME DistInv, Recover
    PROVE  DistInv'
<1>1. CASE UNCHANGED <<journal, work>>
  BY <1>1, Returns DEF Recover, DistInv, DistTypeOK
<1>2. ASSUME NEW r \in Releases, Readable(r), Finished(r), work' = At("clean", r, journal[r].muts),
             UNCHANGED journal
      PROVE  DistInv'
  <2>1. Open(r) /\ last = r
    BY <1>2 DEF Readable, Finished, DistInv, FilesInv, Sides
  <2> QED
    BY <1>2, <2>1, CleanBegins DEF Recover, DistInv, DistTypeOK
<1>3. ASSUME NEW r \in Releases, Readable(r), ~Finished(r), work' = At("undo", r, journal[r].muts),
             SetPhase(r, "rolling_back")
      PROVE  DistInv'
  <2>1. Open(r) /\ last # r
    BY <1>3 DEF Readable, Finished, DistInv, FilesInv, Sides
  <2> QED
    BY <1>3, <2>1, UndoBegins DEF Recover, DistInv, DistTypeOK
<1> QED
  BY <1>1, <1>2, <1>3 DEF Recover

-----------------------------------------------------------------------------
(* Steps that touch a target, its stage or its backup *)

\* One mutation of the open release moves.
LEMMA TargetMoves ==
    ASSUME DistInv, NEW r \in Releases, Open(r), NEW t \in Targets, t \in journal[r].muts,
           UNCHANGED <<journal, last, asked>>,
           \A u \in Targets : u # t => disk'[u] = disk[u],
           \A q \in Releases, u \in Targets : q # r \/ u # t =>
               staged'[q][u] = staged[q][u] /\ saved'[q][u] = saved[q][u],
           last # r => Mutation(r, t)', last = r => disk'[t] = disk[t]
    PROVE  FilesInv'
<1>1. \A q \in Releases : (Open(q)' <=> Open(q)) /\ (Open(q) => q = r)
  BY DEF Open, DistInv, FilesInv, OneJournal
<1>2. Committed' = Committed
  BY DEF Committed
<1>3. \A u \in Targets : u # t => (Old(u)' <=> Old(u)) /\ (New(r, u)' <=> New(r, u))
  BY <1>2 DEF Old, New
<1>4. OneJournal' /\ Sides'
  BY <1>1 DEF DistInv, FilesInv, OneJournal, Sides
<1>5. Litter'
  <2> SUFFICES ASSUME NEW q \in Releases, NEW u \in Targets, ~Open(q) \/ u \notin journal[q].muts
               PROVE  Clear(q, u)'
    BY <1>1 DEF Litter
  <2>1. q # r \/ u # t
    OBVIOUS
  <2> QED
    BY <2>1 DEF DistInv, FilesInv, Litter, Clear
<1>6. ReleaseAtomic'
  BY <1>1 DEF ReleaseAtomic, WholeRelease, NoLitter, Quiet
<1>7. OpenRelease'
  <2> SUFFICES /\ \A u \in Targets \ journal[r].muts : Old(u)' /\ New(r, u)'
               /\ last # r => \A u \in journal[r].muts : Mutation(r, u)'
               /\ last = r => \A u \in Targets : New(r, u)'
    BY <1>1 DEF OpenRelease
  <2>0. journal[r].muts \subseteq Targets
    BY DEF DistInv, DistTypeOK, Open, Journals
  <2>1. \A u \in Targets \ journal[r].muts : Old(u)' /\ New(r, u)'
    BY <1>3 DEF DistInv, FilesInv, OpenRelease
  <2>2. ASSUME last # r, NEW u \in journal[r].muts, u # t PROVE Mutation(r, u)'
    <3>1. Mutation(r, u)
      BY <2>2 DEF DistInv, FilesInv, OpenRelease
    <3> QED
      BY <1>2, <1>3, <2>0, <2>2, <3>1 DEF Mutation
  <2>3. last = r => \A u \in Targets : New(r, u)'
    BY <1>3 DEF DistInv, FilesInv, OpenRelease, New
  <2> QED
    BY <2>1, <2>2, <2>3
<1> QED
  BY <1>4, <1>5, <1>6, <1>7 DEF FilesInv

LEMMA StageKeeps ==
    ASSUME DistInv, Stage
    PROVE  DistInv'
<1>1. PICK r \in Releases : /\ r = work.rel /\ Open(r) /\ journal[r].muts \in SUBSET Targets
                            /\ work.rest \subseteq journal[r].muts /\ r \notin asked
                            /\ \A u \in journal[r].muts : saved[r][u] = Absent /\ Old(u)
  BY AtWork DEF Stage, DistInv, Handler, StageStep
<1>2. PICK t \in Targets : t = Least(work.rest) /\ t \in work.rest
  BY AtWork DEF Stage
<1>3. last # r
  BY <1>1, ContentFacts DEF DistInv, FilesInv, Sides
<1>4. /\ staged' = [staged EXCEPT ![r][t] = Wants[r][t]] /\ work' = [work EXCEPT !.rest = @ \ {t}]
      /\ UNCHANGED <<disk, saved, journal, last, unrecovered, asked, crashes, edits, errors>>
  BY <1>1, <1>2 DEF Stage
<1>5. /\ staged' \in [Releases -> [Targets -> Contents]]
      /\ \A q \in Releases, u \in Targets : staged'[q][u] = IF q = r /\ u = t THEN Wants[r][t] ELSE staged[q][u]
  BY <1>4, ContentFacts DEF DistInv, DistTypeOK
<1>6. /\ work' \in [step : Steps, rel : 0 .. LastRelease, rest : SUBSET Targets, failed : BOOLEAN]
      /\ work'.step = "stage" /\ work'.rel = r /\ work'.rest = work.rest \ {t}
  BY <1>1, <1>4 DEF Stage, DistInv, DistTypeOK
<1>7. DistTypeOK'
  BY <1>4, <1>5, <1>6 DEF DistInv, DistTypeOK
<1>8. \A u \in Targets : Old(u)' <=> Old(u)
  BY <1>4 DEF Old, Committed
<1>9. Mutation(r, t)'
  <2>1. Mutation(r, t)
    BY <1>1, <1>2, <1>3 DEF DistInv, FilesInv, OpenRelease
  <2>2. Committed' = Committed
    BY <1>4 DEF Committed
  <2> QED
    BY <1>1, <1>2, <1>4, <1>5, <1>8, <2>1, <2>2 DEF Mutation
<1>10. FilesInv'
  BY <1>1, <1>2, <1>3, <1>4, <1>5, <1>9, TargetMoves
<1>11. Handler'
  BY <1>1, <1>4, <1>6, <1>8 DEF Handler, StageStep, PublishSteps, CompleteSteps, CleanStep, UndoSteps, Open
<1> QED
  BY <1>7, <1>10, <1>11 DEF DistInv

\* A target that is published or undone: its release is open and not the last.
LEMMA MovingTarget ==
    ASSUME DistInv, work.step \in {"publish", "place", "undo", "restore"}, work.rest # {},
           NEW t, t \in {Least(work.rest), Greatest(work.rest)}
    PROVE  /\ work.rel \in Releases /\ Open(work.rel) /\ last # work.rel /\ t \in Targets /\ t \in work.rest
           /\ journal[work.rel].muts \in SUBSET Targets /\ work.rest \subseteq journal[work.rel].muts
           /\ Mutation(work.rel, t)
<1>1. /\ work.rel \in Releases /\ Open(work.rel) /\ t \in Targets /\ t \in work.rest
      /\ journal[work.rel].muts \in SUBSET Targets /\ work.rest \subseteq journal[work.rel].muts
  BY AtWork
<1>2. journal[work.rel].phase \in {"publishing", "rolling_back"}
  BY DEF DistInv, Handler, PublishSteps, UndoSteps
<1>3. last # work.rel
  BY <1>1, <1>2 DEF DistInv, FilesInv, Sides
<1>4. Mutation(work.rel, t)
  BY <1>1, <1>3 DEF DistInv, FilesInv, OpenRelease
<1> QED
  BY <1>1, <1>3, <1>4

LEMMA DisplaceKeeps ==
    ASSUME DistInv, NEW t \in Targets, Displace(t)
    PROVE  DistInv'
<1>0. work.step = "publish" /\ work.rest # {} /\ t = Least(work.rest)
  BY DEF Displace, Publishing
<1>1. PICK r \in Releases : /\ r = work.rel /\ Open(r) /\ last # r /\ t \in work.rest /\ t \in journal[r].muts
                            /\ work.rest \subseteq journal[r].muts /\ Mutation(r, t)
                            /\ journal[r].phase = "publishing"
  BY <1>0, MovingTarget DEF DistInv, Handler, PublishSteps
<1>2. disk[t] # Absent /\ disk[t] = journal[r].orig[t] /\ disk[t] \in Contents
  BY <1>1 DEF Displace, MayDisplace, DistInv, DistTypeOK
<1>3. /\ saved' = [saved EXCEPT ![r][t] = disk[t]] /\ disk' = [disk EXCEPT ![t] = Absent]
      /\ work' = [work EXCEPT !.step = "place"]
      /\ UNCHANGED <<staged, journal, last, unrecovered, asked, crashes, edits, errors>>
  BY <1>1 DEF Displace
<1>4. /\ saved' \in [Releases -> [Targets -> Contents]] /\ disk' \in [Targets -> Contents]
      /\ \A q \in Releases, u \in Targets : saved'[q][u] = IF q = r /\ u = t THEN disk[t] ELSE saved[q][u]
      /\ \A u \in Targets : disk'[u] = IF u = t THEN Absent ELSE disk[u]
  BY <1>2, <1>3, ContentFacts DEF DistInv, DistTypeOK
<1>5. /\ work' \in [step : Steps, rel : 0 .. LastRelease, rest : SUBSET Targets, failed : BOOLEAN]
      /\ work'.step = "place" /\ work'.rel = r /\ work'.rest = work.rest
  BY <1>1, <1>3 DEF DistInv, DistTypeOK, Steps
<1>6. DistTypeOK'
  BY <1>3, <1>4, <1>5 DEF DistInv, DistTypeOK
<1>7. Mutation(r, t)'
  <2>1. Committed' = Committed
    BY <1>3 DEF Committed
  <2> QED
    BY <1>1, <1>2, <1>3, <1>4, <2>1 DEF Mutation
<1>8. FilesInv'
  BY <1>1, <1>3, <1>4, <1>7, TargetMoves
<1>9. Handler'
  BY <1>0, <1>1, <1>2, <1>3, <1>4, <1>5
     DEF Handler, StageStep, PublishSteps, CompleteSteps, CleanStep, UndoSteps, Open
<1> QED
  BY <1>6, <1>8, <1>9 DEF DistInv

LEMMA PlaceKeeps ==
    ASSUME DistInv, NEW t \in Targets, Place(t)
    PROVE  DistInv'
<1>0. work.step \in {"publish", "place"} /\ work.rest # {} /\ t = Least(work.rest)
  BY DEF Place, Publishing, DistInv, Handler, PublishSteps
<1>1. PICK r \in Releases : /\ r = work.rel /\ Open(r) /\ last # r /\ t \in work.rest /\ t \in journal[r].muts
                            /\ work.rest \subseteq journal[r].muts /\ Mutation(r, t)
                            /\ journal[r].phase = "publishing"
  BY <1>0, MovingTarget DEF DistInv, Handler, PublishSteps
<1>2. saved[r][t] # Absent \/ (journal[r].orig[t] = Absent /\ staged[r][t] # Absent)
  BY <1>0, <1>1 DEF Place, MayPlace, HadOriginal, DistInv, Handler, PublishSteps
<1>3. /\ disk' = [disk EXCEPT ![t] = staged[r][t]] /\ staged' = [staged EXCEPT ![r][t] = Absent]
      /\ work' = [work EXCEPT !.step = "record"]
      /\ UNCHANGED <<saved, journal, last, unrecovered, asked, crashes, edits, errors>>
  BY <1>1 DEF Place
<1>4. /\ staged' \in [Releases -> [Targets -> Contents]] /\ disk' \in [Targets -> Contents]
      /\ \A q \in Releases, u \in Targets : staged'[q][u] = IF q = r /\ u = t THEN Absent ELSE staged[q][u]
      /\ \A u \in Targets : disk'[u] = IF u = t THEN staged[r][t] ELSE disk[u]
  BY <1>3, ContentFacts DEF DistInv, DistTypeOK
<1>5. /\ work' \in [step : Steps, rel : 0 .. LastRelease, rest : SUBSET Targets, failed : BOOLEAN]
      /\ work'.step = "record" /\ work'.rel = r /\ work'.rest = work.rest
  BY <1>1, <1>3 DEF DistInv, DistTypeOK, Steps
<1>6. DistTypeOK'
  BY <1>3, <1>4, <1>5 DEF DistInv, DistTypeOK
<1>7. Mutation(r, t)'
  <2>1. Committed' = Committed
    BY <1>3 DEF Committed
  <2> QED
    BY <1>1, <1>2, <1>3, <1>4, <2>1 DEF Mutation
<1>8. FilesInv'
  BY <1>1, <1>3, <1>4, <1>7, TargetMoves
<1>9. Handler'
  BY <1>0, <1>1, <1>3, <1>5
     DEF Handler, StageStep, PublishSteps, CompleteSteps, CleanStep, UndoSteps, Open
<1> QED
  BY <1>6, <1>8, <1>9 DEF DistInv

LEMMA UndoKeeps ==
    ASSUME DistInv, NEW t \in Targets, Undo(t)
    PROVE  DistInv'
<1>0. work.step = "undo" /\ work.rest # {} /\ t = Greatest(work.rest)
  BY DEF Undo, Undoing
<1>1. PICK r \in Releases : /\ r = work.rel /\ Open(r) /\ last # r /\ t \in work.rest /\ t \in journal[r].muts
                            /\ work.rest \subseteq journal[r].muts /\ journal[r].muts \in SUBSET Targets
                            /\ Mutation(r, t)
                            /\ journal[r].phase = "rolling_back"
                            /\ work.failed \/ \A u \in journal[r].muts \ work.rest : Clear(r, u) /\ Old(u)
  BY <1>0, MovingTarget DEF DistInv, Handler, UndoSteps
<1>2. Displaced(r, t) \/ Created(r, t)
  BY <1>1 DEF Undo
<1>3. /\ disk' = [disk EXCEPT ![t] = Absent] /\ work' = [work EXCEPT !.step = "restore"]
      /\ UNCHANGED <<staged, saved, journal, last, unrecovered, asked, crashes, edits, errors>>
  BY DEF Undo
<1>4. disk' \in [Targets -> Contents] /\ \A u \in Targets : disk'[u] = IF u = t THEN Absent ELSE disk[u]
  BY <1>3, ContentFacts DEF DistInv, DistTypeOK
<1>5. /\ work' \in [step : Steps, rel : 0 .. LastRelease, rest : SUBSET Targets, failed : BOOLEAN]
      /\ work'.step = "restore" /\ work'.rel = r /\ work'.rest = work.rest /\ work'.failed = work.failed
  BY <1>1, <1>3 DEF DistInv, DistTypeOK, Steps
<1>6. DistTypeOK'
  BY <1>3, <1>4, <1>5 DEF DistInv, DistTypeOK
<1>c. Committed' = Committed
  BY <1>3 DEF Committed
<1>7. Mutation(r, t)'
  <2>1. CASE saved[r][t] # Absent
    BY <1>1, <1>3, <1>4, <1>c, <2>1 DEF Mutation
  <2>2. CASE saved[r][t] = Absent
    <3>1. journal[r].orig[t] = Absent /\ Committed[t] = Absent
      BY <1>1, <1>2, <2>2, ContentFacts DEF Displaced, Created, HadOriginal, Mutation
    <3>2. Old(t)'
      BY <1>4, <1>c, <3>1 DEF Old
    <3> QED
      BY <1>1, <1>3, <1>c, <2>2, <3>2 DEF Mutation
  <2> QED
    BY <2>1, <2>2
<1>8. FilesInv'
  BY <1>1, <1>3, <1>4, <1>7, TargetMoves
<1>9. Displaced(r, t)' \/ Created(r, t)'
  BY <1>2, <1>3 DEF Displaced, Created, HadOriginal
<1>10. \A u \in journal[r].muts \ work.rest : Clear(r, u) /\ Old(u) => Clear(r, u)' /\ Old(u)'
  BY <1>1, <1>3, <1>4, <1>c DEF Clear, Old
<1>11. Handler'
  BY <1>0, <1>1, <1>3, <1>4, <1>5, <1>9, <1>10
     DEF Handler, StageStep, PublishSteps, CompleteSteps, CleanStep, UndoSteps, Open
<1> QED
  BY <1>6, <1>8, <1>11 DEF DistInv

\* The target is back as it was: its mutation leaves no trace.
LEMMA RestoreKeeps ==
    ASSUME DistInv, Restore
    PROVE  DistInv'
<1>0. work.step = "restore" /\ work.rest # {}
  BY DEF Restore, DistInv, Handler, PublishSteps
<1>1. PICK r \in Releases, t \in Targets :
         /\ r = work.rel /\ t = Greatest(work.rest)
         /\ Open(r) /\ last # r /\ t \in work.rest /\ t \in journal[r].muts
         /\ work.rest \subseteq journal[r].muts /\ journal[r].muts \in SUBSET Targets
         /\ Mutation(r, t)
         /\ journal[r].phase = "rolling_back" /\ disk[t] = Absent
         /\ Displaced(r, t) \/ Created(r, t)
         /\ work.failed \/ \A u \in journal[r].muts \ work.rest : Clear(r, u) /\ Old(u)
  BY <1>0, MovingTarget DEF DistInv, Handler, UndoSteps
<1>2. /\ disk' = [disk EXCEPT ![t] = Restored(r, t)]
      /\ saved' = [saved EXCEPT ![r][t] = Absent] /\ staged' = [staged EXCEPT ![r][t] = Absent]
      /\ work' = [work EXCEPT !.step = "undo", !.rest = @ \ {t}]
      /\ UNCHANGED <<journal, last, unrecovered, asked, crashes, edits, errors>>
  BY <1>1 DEF Restore
<1>3. Restored(r, t) \in Contents /\ Restored(r, t) \in {Committed[t], Edited}
  <2>1. CASE Displaced(r, t)
    BY <1>1, <2>1 DEF Restored, Displaced, Mutation, DistInv, DistTypeOK
  <2>2. CASE ~Displaced(r, t)
    <3>1. journal[r].orig[t] = Absent /\ Committed[t] = Absent
      BY <1>1, <2>2, ContentFacts DEF Created, HadOriginal, Mutation
    <3> QED
      BY <1>1, <2>2, <3>1, ContentFacts DEF Restored
  <2> QED
    BY <2>1, <2>2
<1> HIDE DEF Restored
<1>4. /\ disk' \in [Targets -> Contents]
      /\ staged' \in [Releases -> [Targets -> Contents]] /\ saved' \in [Releases -> [Targets -> Contents]]
  BY <1>2, <1>3, ContentFacts DEF DistInv, DistTypeOK
<1>5. /\ \A q \in Releases, u \in Targets : /\ saved'[q][u] = IF q = r /\ u = t THEN Absent ELSE saved[q][u]
                                            /\ staged'[q][u] = IF q = r /\ u = t THEN Absent ELSE staged[q][u]
      /\ \A u \in Targets : disk'[u] = IF u = t THEN Restored(r, t) ELSE disk[u]
  BY <1>2 DEF DistInv, DistTypeOK
<1>6. /\ work' \in [step : Steps, rel : 0 .. LastRelease, rest : SUBSET Targets, failed : BOOLEAN]
      /\ work'.step = "undo" /\ work'.rel = r /\ work'.rest = work.rest \ {t} /\ work'.failed = work.failed
  BY <1>1, <1>2 DEF DistInv, DistTypeOK, Steps
<1>7. DistTypeOK'
  BY <1>2, <1>4, <1>6 DEF DistInv, DistTypeOK
<1>8. Committed' = Committed
  BY <1>2 DEF Committed
<1>9. Clear(r, t)' /\ Old(t)'
  BY <1>3, <1>5, <1>8 DEF Clear, Old
<1>10. Mutation(r, t)'
  BY <1>1, <1>2, <1>8, <1>9 DEF Mutation, Clear
<1>11. FilesInv'
  BY <1>1, <1>2, <1>5, <1>10, TargetMoves
<1>12. \A u \in journal[r].muts \ work.rest : Clear(r, u) /\ Old(u) => Clear(r, u)' /\ Old(u)'
  BY <1>1, <1>5, <1>8 DEF Clear, Old
<1>13. Handler'
  BY <1>1, <1>2, <1>6, <1>9, <1>12
     DEF Handler, StageStep, PublishSteps, CompleteSteps, CleanStep, UndoSteps, Open
<1> QED
  BY <1>7, <1>11, <1>13 DEF DistInv

LEMMA UntouchedKeeps ==
    ASSUME DistInv, NEW t \in Targets, Untouched(t)
    PROVE  DistInv'
<1>0. work.step = "undo" /\ work.rest # {} /\ t = Greatest(work.rest)
  BY DEF Untouched, Undoing
<1>1. PICK r \in Releases : /\ r = work.rel /\ Open(r) /\ last # r /\ t \in work.rest /\ t \in journal[r].muts
                            /\ work.rest \subseteq journal[r].muts /\ journal[r].muts \in SUBSET Targets
                            /\ Mutation(r, t)
                            /\ journal[r].phase = "rolling_back"
                            /\ work.failed \/ \A u \in journal[r].muts \ work.rest : Clear(r, u) /\ Old(u)
  BY <1>0, MovingTarget DEF DistInv, Handler, UndoSteps
<1>2. saved[r][t] = Absent /\ Old(t)
  BY <1>1 DEF Untouched, Displaced, Created, HadOriginal, Mutation
<1>3. /\ staged' = [staged EXCEPT ![r][t] = Absent] /\ work' = [work EXCEPT !.rest = @ \ {t}]
      /\ UNCHANGED <<disk, saved, journal, last, unrecovered, asked, crashes, edits, errors>>
  BY <1>1 DEF Untouched
<1>4. /\ staged' \in [Releases -> [Targets -> Contents]]
      /\ \A q \in Releases, u \in Targets : staged'[q][u] = IF q = r /\ u = t THEN Absent ELSE staged[q][u]
  BY <1>3, ContentFacts DEF DistInv, DistTypeOK
<1>5. /\ work' \in [step : Steps, rel : 0 .. LastRelease, rest : SUBSET Targets, failed : BOOLEAN]
      /\ work'.step = "undo" /\ work'.rel = r /\ work'.rest = work.rest \ {t} /\ work'.failed = work.failed
  BY <1>0, <1>1, <1>3 DEF DistInv, DistTypeOK
<1>6. DistTypeOK'
  BY <1>3, <1>4, <1>5 DEF DistInv, DistTypeOK
<1>7. Committed' = Committed
  BY <1>3 DEF Committed
<1>8. Clear(r, t)' /\ Old(t)'
  BY <1>2, <1>3, <1>4, <1>7 DEF Clear, Old
<1>9. Mutation(r, t)'
  BY <1>1, <1>3, <1>7, <1>8 DEF Mutation, Clear
<1>10. FilesInv'
  BY <1>1, <1>3, <1>4, <1>9, TargetMoves
<1>11. \A u \in journal[r].muts \ work.rest : Clear(r, u) /\ Old(u) => Clear(r, u)' /\ Old(u)'
  BY <1>1, <1>3, <1>4, <1>7 DEF Clear, Old
<1>12. Handler'
  BY <1>1, <1>3, <1>5, <1>8, <1>11
     DEF Handler, StageStep, PublishSteps, CompleteSteps, CleanStep, UndoSteps, Open
<1> QED
  BY <1>6, <1>10, <1>12 DEF DistInv

LEMMA CleanKeeps ==
    ASSUME DistInv, Clean
    PROVE  DistInv'
<1>0. work.step = "clean" /\ work.rest # {}
  BY DEF Clean
<1>1. PICK r \in Releases, t \in Targets :
         /\ r = work.rel /\ t = Least(work.rest)
         /\ Open(r) /\ t \in work.rest /\ t \in journal[r].muts
         /\ work.rest \subseteq journal[r].muts /\ journal[r].muts \in SUBSET Targets
         /\ last = r \/ \A u \in journal[r].muts : Old(u)
         /\ \A u \in journal[r].muts \ work.rest : Clear(r, u)
  BY <1>0, AtWork DEF DistInv, Handler, CleanStep
<1>2. /\ staged' = [staged EXCEPT ![r][t] = Absent] /\ saved' = [saved EXCEPT ![r][t] = Absent]
      /\ work' = [work EXCEPT !.rest = @ \ {t}]
      /\ UNCHANGED <<disk, journal, last, unrecovered, asked, crashes, edits, errors>>
  BY <1>1 DEF Clean
<1>3. staged' \in [Releases -> [Targets -> Contents]] /\ saved' \in [Releases -> [Targets -> Contents]]
  BY <1>2, ContentFacts DEF DistInv, DistTypeOK
<1>4. \A q \in Releases, u \in Targets : /\ saved'[q][u] = IF q = r /\ u = t THEN Absent ELSE saved[q][u]
                                         /\ staged'[q][u] = IF q = r /\ u = t THEN Absent ELSE staged[q][u]
  BY <1>2 DEF DistInv, DistTypeOK
<1>5. /\ work' \in [step : Steps, rel : 0 .. LastRelease, rest : SUBSET Targets, failed : BOOLEAN]
      /\ work'.step = "clean" /\ work'.rel = r /\ work'.rest = work.rest \ {t}
  BY <1>0, <1>1, <1>2 DEF DistInv, DistTypeOK
<1>6. DistTypeOK'
  BY <1>2, <1>3, <1>5 DEF DistInv, DistTypeOK
<1>7. Committed' = Committed
  BY <1>2 DEF Committed
<1>8. \A u \in Targets : Old(u)' <=> Old(u)
  BY <1>2, <1>7 DEF Old
<1>9. Clear(r, t)'
  BY <1>4 DEF Clear
<1>10. last # r => Mutation(r, t)'
  <2> SUFFICES ASSUME last # r PROVE Mutation(r, t)'
    OBVIOUS
  <2>1. Mutation(r, t)
    BY <1>1 DEF DistInv, FilesInv, OpenRelease
  <2>2. Old(t)'
    BY <1>1, <1>8
  <2> QED
    BY <1>2, <1>7, <1>9, <2>1, <2>2 DEF Mutation, Clear
<1>11. FilesInv'
  BY <1>1, <1>2, <1>4, <1>10, TargetMoves
<1>12. \A u \in journal[r].muts \ work.rest : Clear(r, u)'
  BY <1>1, <1>4 DEF Clear
<1>13. Handler'
  BY <1>1, <1>2, <1>5, <1>8, <1>9, <1>12
     DEF Handler, StageStep, PublishSteps, CompleteSteps, CleanStep, UndoSteps, Open
<1> QED
  BY <1>6, <1>11, <1>13 DEF DistInv

-----------------------------------------------------------------------------
(* Where a release begins, is decided and ends *)

LEMMA PrepareKeeps ==
    ASSUME DistInv, NEW r \in Releases, Prepare(r)
    PROVE  DistInv'
<1>1. Quiet /\ r \notin asked
  BY DEF Prepare, Quiet
<1>2. \A u \in Targets : Old(u) /\ \A q \in Releases : Clear(q, u)
  BY <1>1 DEF DistInv, FilesInv, ReleaseAtomic, WholeRelease, NoLitter, Old, Clear
<1>3. last # r
  BY <1>1, ContentFacts DEF DistInv, FilesInv, Sides
<1>4. PICK S \in SUBSET Targets : S = Mutations(r)
  BY DEF Mutations
<1> DEFINE j == [phase |-> "preparing", muts |-> S, orig |-> disk, done |-> {}]
<1>5. /\ journal' = [journal EXCEPT ![r] = j] /\ work' = At("stage", r, S)
      /\ UNCHANGED <<disk, staged, saved, last, unrecovered, asked, crashes, edits, errors>>
  BY <1>4 DEF Prepare
<1>6. /\ j \in Journals /\ j.phase = "preparing" /\ j.muts = S /\ j.orig = disk
      /\ j # NoJournal
  <2>1. j \in Journals
    BY DEF Journals, Phases, DistInv, DistTypeOK
  <2>2. j.phase = "preparing" /\ NoJournal.phase = "none"
    BY DEF NoJournal
  <2> QED
    BY <2>1, <2>2
<1> HIDE DEF j
<1>7. /\ journal' \in [Releases -> Journals \cup {NoJournal}]
      /\ \A s \in Releases : journal'[s] = IF s = r THEN j ELSE journal[s]
  BY <1>5, <1>6 DEF DistInv, DistTypeOK
<1>8. \A s \in Releases : Open(s)' <=> s = r
  BY <1>1, <1>6, <1>7 DEF Open, Quiet
<1>9. /\ work' \in [step : Steps, rel : 0 .. LastRelease, rest : SUBSET Targets, failed : BOOLEAN]
      /\ work'.step = "stage" /\ work'.rel = r /\ work'.rest = S
  <2>1. "stage" \in Steps
    BY DEF Steps
  <2> QED
    BY <1>5, <2>1, ContentFacts DEF At
<1>10. DistTypeOK'
  BY <1>5, <1>7, <1>9 DEF DistInv, DistTypeOK
<1>11. Committed' = Committed
  BY <1>5 DEF Committed
<1>12. \A u \in Targets : Old(u)' /\ \A q \in Releases : Clear(q, u)'
  BY <1>2, <1>5, <1>11 DEF Old, Clear
<1>13. \A u \in Targets \ S : New(r, u)'
  <2> SUFFICES ASSUME NEW u \in Targets, u \notin S PROVE New(r, u)
    BY <1>5 DEF New
  <2>1. CASE disk[u] = Wants[r][u]
    BY <2>1 DEF New
  <2>2. CASE Recorded(r, u)
    BY <1>2, <2>2 DEF Recorded, New, Old, Committed
  <2> QED
    BY <1>4, <2>1, <2>2 DEF Mutations
<1>14. OneJournal' /\ Litter' /\ ReleaseAtomic'
  <2>1. OneJournal'
    BY <1>8 DEF OneJournal
  <2>2. Litter'
    BY <1>12 DEF Litter
  <2>3. ~Quiet'
    BY <1>8 DEF Quiet
  <2> QED
    BY <2>1, <2>2, <2>3 DEF ReleaseAtomic, WholeRelease, NoLitter
<1>15. Sides'
  BY <1>3, <1>5, <1>6, <1>7, <1>8 DEF DistInv, FilesInv, Sides
<1>16. \A u \in S : Mutation(r, u)'
  BY <1>2, <1>5, <1>6, <1>7, <1>11, <1>12 DEF Mutation, Clear, Old
<1>17. OpenRelease'
  BY <1>3, <1>5, <1>6, <1>7, <1>8, <1>12, <1>13, <1>16 DEF OpenRelease
<1>18. Handler'
  BY <1>1, <1>5, <1>6, <1>7, <1>8, <1>9, <1>12
     DEF Handler, StageStep, PublishSteps, CompleteSteps, CleanStep, UndoSteps, Clear
<1> QED
  BY <1>10, <1>14, <1>15, <1>17, <1>18 DEF DistInv, FilesInv

\* From here on the release is the one the installation should hold: all of
\* its targets do.
LEMMA WriteStateKeeps ==
    ASSUME DistInv, WriteState
    PROVE  DistInv'
<1>1. PICK r \in Releases : /\ r = work.rel /\ Open(r) /\ r \in asked
                            /\ journal[r].phase = "completing" /\ work.rest = journal[r].muts
                            /\ journal[r].muts \in SUBSET Targets
                            /\ \A t \in journal[r].muts : New(r, t)
  BY AtWork DEF WriteState, DistInv, Handler, CompleteSteps
<1>2. /\ last' = r /\ work' = [work EXCEPT !.step = "commit"]
      /\ UNCHANGED <<disk, staged, saved, journal, unrecovered, asked, crashes, edits, errors>>
  BY <1>1 DEF WriteState
<1>3. /\ work' \in [step : Steps, rel : 0 .. LastRelease, rest : SUBSET Targets, failed : BOOLEAN]
      /\ work'.step = "commit" /\ work'.rel = r /\ work'.rest = work.rest
  BY <1>1, <1>2 DEF DistInv, DistTypeOK, Steps
<1>4. DistTypeOK'
  BY <1>1, <1>2, <1>3, ContentFacts DEF DistInv, DistTypeOK
<1>5. \A q \in Releases : (Open(q)' <=> Open(q)) /\ (Open(q) => q = r)
  BY <1>1, <1>2 DEF Open, DistInv, FilesInv, OneJournal
<1>6. \A t \in Targets : New(r, t)
  BY <1>1 DEF DistInv, FilesInv, OpenRelease
<1>7. \A t \in Targets : New(r, t)' /\ Old(t)'
  BY <1>2, <1>6, ContentFacts DEF New, Old, Committed
<1>8. OneJournal' /\ Litter'
  BY <1>2, <1>5 DEF DistInv, FilesInv, OneJournal, Litter, Clear
<1>9. Sides'
  BY <1>1, <1>2, <1>5, ContentFacts DEF Sides
<1>10. ReleaseAtomic'
  BY <1>1, <1>5 DEF ReleaseAtomic, WholeRelease, NoLitter, Quiet
<1>11. OpenRelease'
  BY <1>1, <1>2, <1>5, <1>7 DEF OpenRelease
<1>12. Handler'
  BY <1>1, <1>2, <1>3, <1>5
     DEF Handler, StageStep, PublishSteps, CompleteSteps, CleanStep, UndoSteps
<1> QED
  BY <1>4, <1>8, <1>9, <1>10, <1>11, <1>12 DEF DistInv, FilesInv

LEMMA RemoveJournalKeeps ==
    ASSUME DistInv, RemoveJournal
    PROVE  DistInv'
<1>1. PICK r \in Releases : /\ r = work.rel /\ Open(r) /\ work.rest = {}
                            /\ journal[r].muts \in SUBSET Targets
                            /\ last = r \/ \A t \in journal[r].muts : Old(t)
                            /\ \A t \in journal[r].muts : Clear(r, t)
  BY AtWork DEF RemoveJournal, DistInv, Handler, CleanStep
<1>2. /\ journal' = [journal EXCEPT ![r] = NoJournal] /\ work' = Idle
      /\ UNCHANGED <<disk, staged, saved, last, unrecovered, asked, crashes, edits, errors>>
  BY <1>1 DEF RemoveJournal
<1>3. DistTypeOK'
  BY <1>2, IdleTypes DEF DistInv, DistTypeOK
<1>4. \A q \in Releases : ~Open(q)'
  BY <1>1, <1>2 DEF Open, DistInv, DistTypeOK, FilesInv, OneJournal
<1>5. \A t \in Targets : Old(t)
  <2>1. CASE last = r
    <3>1. \A t \in Targets : New(r, t)
      BY <1>1, <2>1 DEF DistInv, FilesInv, OpenRelease
    <3> QED
      BY <2>1, <3>1, ContentFacts DEF New, Old, Committed
  <2>2. CASE last # r
    BY <1>1, <2>2 DEF DistInv, FilesInv, OpenRelease
  <2> QED
    BY <2>1, <2>2
<1>6. \A q \in Releases, t \in Targets : Clear(q, t)
  BY <1>1 DEF DistInv, FilesInv, OneJournal, Litter
<1>7. ReleaseAtomic'
  BY <1>2, <1>5, <1>6 DEF ReleaseAtomic, WholeRelease, NoLitter, Old, Clear, Committed
<1>8. OneJournal' /\ OpenRelease'
  BY <1>4 DEF OneJournal, OpenRelease
<1>9. Litter' /\ Sides'
  BY <1>2, <1>4, <1>6 DEF DistInv, FilesInv, Litter, Sides, Clear
<1>10. Handler'
  BY <1>2 DEF Handler, Idle
<1> QED
  BY <1>3, <1>7, <1>8, <1>9, <1>10 DEF DistInv, FilesInv

LEMMA EditKeeps ==
    ASSUME DistInv, NEW t \in Targets, Edit(t)
    PROVE  DistInv'
<1>1. /\ disk' = [disk EXCEPT ![t] = Edited] /\ work.step \notin {"place", "restore"}
      /\ UNCHANGED <<staged, saved, journal, last, work, unrecovered, asked, crashes, errors>>
  BY DEF Edit
<1>2. disk' \in [Targets -> Contents] /\ \A u \in Targets : disk'[u] = IF u = t THEN Edited ELSE disk[u]
  BY <1>1, ContentFacts DEF DistInv, DistTypeOK
<1>3. edits' \in 0 .. MaxEdits
  BY DistributionAssumption DEF Edit, DistInv, DistTypeOK
<1>4. DistTypeOK'
  BY <1>1, <1>2, <1>3 DEF DistInv, DistTypeOK
<1>5. Committed' = Committed /\ \A q \in Releases : Open(q)' <=> Open(q)
  BY <1>1 DEF Committed, Open
<1>6. \A u \in Targets : (Old(u) => Old(u)') /\ \A q \in Releases : New(q, u) => New(q, u)'
  BY <1>2, <1>5 DEF Old, New
<1>7. \A q \in Releases, u \in Targets : Clear(q, u)' <=> Clear(q, u)
  BY <1>1 DEF Clear
<1>8. OneJournal' /\ Litter' /\ Sides'
  BY <1>1, <1>5, <1>7 DEF DistInv, FilesInv, OneJournal, Litter, Sides
<1>9. ReleaseAtomic'
  BY <1>1, <1>2, <1>5 DEF DistInv, FilesInv, ReleaseAtomic, WholeRelease, NoLitter, Quiet
<1>10. \A q \in Releases, u \in Targets : Mutation(q, u) => Mutation(q, u)'
  <2> SUFFICES ASSUME NEW q \in Releases, NEW u \in Targets, Mutation(q, u) PROVE Mutation(q, u)'
    OBVIOUS
  <2>1. CASE u = t
    BY <1>1, <1>2, <1>5, <2>1 DEF Mutation, Old
  <2>2. CASE u # t
    BY <1>1, <1>2, <1>5, <2>2 DEF Mutation, Old
  <2> QED
    BY <2>1, <2>2
<1>11. OpenRelease'
  <2> SUFFICES ASSUME NEW q \in Releases, Open(q)
               PROVE  /\ \A u \in Targets \ journal[q].muts : Old(u)' /\ New(q, u)'
                      /\ last # q => \A u \in journal[q].muts : Mutation(q, u)'
                      /\ last = q => \A u \in Targets : New(q, u)'
    BY <1>1, <1>5 DEF OpenRelease
  <2>1. journal[q].muts \subseteq Targets
    BY DEF DistInv, DistTypeOK, Open, Journals
  <2> QED
    BY <1>6, <1>10, <2>1 DEF DistInv, FilesInv, OpenRelease
<1>12. Handler'
  <2> SUFFICES ASSUME work.step # "idle" PROVE Handler'
    BY <1>1 DEF Handler
  <2>1. work.rel \in Releases /\ journal[work.rel].muts \in SUBSET Targets /\ work.rest \in SUBSET Targets
    BY AtWork
  <2>2. StageStep' /\ CleanStep'
    BY <1>1, <1>6, <1>7, <2>1 DEF DistInv, Handler, StageStep, CleanStep
  <2>3. PublishSteps'
    BY <1>1 DEF DistInv, Handler, PublishSteps
  <2>4. CompleteSteps'
    BY <1>1, <1>6, <2>1 DEF DistInv, Handler, CompleteSteps
  <2>5. UndoSteps'
    BY <1>1, <1>6, <1>7, <2>1 DEF DistInv, Handler, UndoSteps
  <2> QED
    BY <1>1, <1>5, <2>1, <2>2, <2>3, <2>4, <2>5 DEF DistInv, Handler
<1> QED
  BY <1>4, <1>8, <1>9, <1>11, <1>12 DEF DistInv, FilesInv

-----------------------------------------------------------------------------
(* The theorems about mod releases *)

LEMMA DistStart == DistInit => DistInv
<1> SUFFICES ASSUME DistInit PROVE DistInv
  OBVIOUS
<1> USE DEF DistInit
<1>1. 0 \in 0 .. LastRelease /\ 0 \in 0 .. MaxCrashes /\ 0 \in 0 .. MaxEdits /\ 0 \in 0 .. MaxErrors
  BY DistributionAssumption
<1>2. disk \in [Targets -> Contents]
  <2>1. FirstDisk \in [Targets -> {Absent, Base}] /\ \A t \in Targets : FirstDisk[t] \in Contents
    BY DistributionAssumption, ContentFacts
  <2> QED
    BY <2>1
<1>3. DistTypeOK
  BY <1>1, <1>2, IdleTypes, ContentFacts DEF DistTypeOK
<1>4. \A q \in Releases : ~Open(q)
  BY DEF Open
<1>5. \A q \in Releases, t \in Targets : Clear(q, t)
  BY DEF Clear
<1>6. \A t \in Targets : Old(t)
  BY DEF Old, Committed
<1>7. FilesInv
  BY <1>4, <1>5, <1>6 DEF FilesInv, OneJournal, Litter, Sides, OpenRelease, ReleaseAtomic, WholeRelease,
     NoLitter, Old, Clear
<1> QED
  BY <1>3, <1>7 DEF DistInv, Handler, Idle

LEMMA DistStep == DistInv /\ [DistNext]_distVars => DistInv'
<1> SUFFICES ASSUME DistInv, [DistNext]_distVars PROVE DistInv'
  OBVIOUS
<1>1. CASE UNCHANGED distVars
  <2>1. UNCHANGED <<disk, staged, saved, journal, last, work, unrecovered, asked, crashes, edits, errors>>
    BY <1>1 DEF distVars
  <2>2. DistTypeOK' /\ FilesInv'
    BY <2>1, Decides DEF DistInv, DistTypeOK
  <2>3. Handler'
    BY <2>1 DEF DistInv, Handler, StageStep, PublishSteps, CompleteSteps, CleanStep, UndoSteps, Open, Old, New,
       Clear, Committed, Displaced, Created, HadOriginal
  <2> QED
    BY <2>2, <2>3 DEF DistInv
<1>2. CASE \E r \in Releases : Prepare(r) \/ Publish(r) \/ Complete(r) \/ Rollback(r)
  BY <1>2, PrepareKeeps, PublishKeeps, CompleteKeeps, UndoBeginsKeep
<1>3. CASE Stage \/ Prepared \/ PrepareFails
  BY <1>3, StageKeeps, PreparedKeeps, UndoBeginsKeep
<1>4. CASE \E t \in Targets : Displace(t) \/ Place(t) \/ Placed(t) \/ Conflict(t)
  BY <1>4, DisplaceKeeps, PlaceKeeps, PlacedKeeps, ReturnsKeep
<1>5. CASE Record \/ Published
  BY <1>5, RecordKeeps, PublishedKeeps
<1>6. CASE Verify \/ WriteState \/ Commit \/ Clean \/ RemoveJournal
  BY <1>6, VerifyKeeps, WriteStateKeeps, CommitKeeps, CleanKeeps, RemoveJournalKeeps
<1>7. CASE \E t \in Targets : Undo(t) \/ Untouched(t) \/ Keep(t) \/ Edit(t)
  BY <1>7, UndoKeeps, UntouchedKeeps, KeepKeeps, EditKeeps
<1>8. CASE Restore \/ Undone
  BY <1>8, RestoreKeeps, UndoneKeeps
<1>9. CASE HandlerFails \/ Crash \/ Recover
  BY <1>9, ReturnsKeep, RecoverKeeps
<1> QED
  BY <1>1, <1>2, <1>3, <1>4, <1>5, <1>6, <1>7, <1>8, <1>9 DEF DistNext

LEMMA DistInvHolds == DistSpec => []DistInv
  BY DistStart, DistStep, PTL DEF DistSpec

\* The installation's files, journals and handler keep their types, and every
\* counter its bound.
THEOREM DistributionTypesHold == DistSpec => []DistTypeOK
<1>1. DistInv => DistTypeOK
  BY DEF DistInv
<1> QED
  BY <1>1, DistInvHolds, PTL

\* Without a journal the installation holds the release that
\* installations.json names, whole and without a trace of any other, however
\* often the process died, a write failed or a target was edited.
THEOREM ReleasesAreAtomic == DistSpec => []ReleaseAtomic
<1>1. DistInv => ReleaseAtomic
  BY DEF DistInv, FilesInv
<1> QED
  BY <1>1, DistInvHolds, PTL

\* An edit is replaced only by the publication of a release whose journal saw
\* it: publishing, rolling back and recovering check the target before they
\* rename.
THEOREM EditsAreKept == DistSpec => EditKept
<1> DEFINE Keeps == \A t \in Targets :
                      (disk[t] = Edited /\ disk'[t] # Edited)
                         => work.step = "publish" /\ journal[work.rel].orig[t] = Edited
<1>1. DistInv /\ [DistNext]_distVars => [Keeps]_distVars
  <2> SUFFICES ASSUME DistInv, DistNext, NEW t \in Targets, disk[t] = Edited, disk'[t] # Edited
               PROVE  work.step = "publish" /\ journal[work.rel].orig[t] = Edited
    BY DEF distVars
  <2>1. disk' # disk /\ disk \in [Targets -> Contents]
    BY DEF DistInv, DistTypeOK
  <2>2. ASSUME NEW u \in Targets, Displace(u)
        PROVE  work.step = "publish" /\ journal[work.rel].orig[t] = Edited
    <3>1. u = t
      BY <2>1, <2>2 DEF Displace
    <3> QED
      BY <2>2, <3>1 DEF Displace, Publishing, MayDisplace
  <2>3. ASSUME NEW u \in Targets, Place(u) PROVE FALSE
    <3>1. u = t
      BY <2>1, <2>3 DEF Place
    <3>2. disk[t] = Absent
      BY <2>3, <3>1 DEF Place, MayPlace, DistInv, Handler, PublishSteps
    <3> QED
      BY <3>2, ContentFacts
  <2>4. ASSUME NEW u \in Targets, Undo(u) PROVE FALSE
    <3>1. u = t
      BY <2>1, <2>4 DEF Undo
    <3>2. work.rel \in Releases
      BY <2>4, AtWork DEF Undo, Undoing
    <3> QED
      BY <2>4, <3>1, <3>2, ContentFacts DEF Undo, Unchanged
  <2>5. CASE Restore
    <3>1. t = Greatest(work.rest)
      BY <2>1, <2>5 DEF Restore
    <3>2. disk[t] = Absent
      BY <2>5, <3>1 DEF Restore, DistInv, Handler, UndoSteps
    <3> QED
      BY <3>2, ContentFacts
  <2>6. ASSUME NEW u \in Targets, Edit(u) PROVE FALSE
    BY <2>1, <2>6 DEF Edit
  <2>7. CASE UNCHANGED disk
    BY <2>1, <2>7
  <2>8. CASE \E r \in Releases : Prepare(r) \/ Publish(r) \/ Complete(r) \/ Rollback(r)
    BY <2>7, <2>8 DEF Prepare, Publish, Complete, Rollback
  <2>9. CASE Stage \/ Prepared \/ PrepareFails \/ Record \/ Published
    BY <2>7, <2>9 DEF Stage, Prepared, PrepareFails, Record, Published
  <2>10. CASE Verify \/ WriteState \/ Commit \/ Clean \/ RemoveJournal
    BY <2>7, <2>10 DEF Verify, WriteState, Commit, Clean, RemoveJournal
  <2>11. CASE Undone \/ HandlerFails \/ Crash \/ Recover
    BY <2>7, <2>11 DEF Undone, HandlerFails, Crash, Recover
  <2>12. CASE \E u \in Targets : Placed(u) \/ Conflict(u) \/ Untouched(u) \/ Keep(u)
    BY <2>7, <2>12 DEF Placed, Conflict, Untouched, Keep
  <2> QED
    BY <2>2, <2>3, <2>4, <2>5, <2>6, <2>8, <2>9, <2>10, <2>11, <2>12 DEF DistNext
<1>2. DistSpec => [][Keeps]_distVars
  BY <1>1, DistInvHolds, PTL DEF DistSpec
<1> QED
  BY <1>2 DEF EditKept

-----------------------------------------------------------------------------
(* Mod publication *)

AttemptRows == [pub : 0 .. LastModPublication, pc : Places,
                token : 0 .. LastAttempt, at : Installations, status : RecordStatus,
                flagged : SUBSET Installations, decided : BOOLEAN,
                errs : BOOLEAN, recovery : BOOLEAN]

JournalRows == [pub : 0 .. LastModPublication, phase : {"none", "prepared", "published"}]

\* The places of an attempt before the decision.
Undecided == {"prepare", "prepared", "publishing", "publish", "published", "decide"}

\* What an attempt knows of itself: who is on which way, and with what in hand.
Coherent(r) ==
    /\ r.pub = 0 => r.pc = "none" /\ ~r.decided
    /\ r.pc \in Undecided => ~r.decided /\ ~r.recovery
    /\ r.pc = "rollback" => ~r.decided
    /\ r.pc \in {"completing", "complete"} => r.decided
    /\ r.status \notin TerminalStatus
    /\ r.recovery => r.flagged = Installations
    /\ r.pc = "acquire" => r.recovery /\ r.token = 0 /\ r.status # "absent"
    /\ r.pc \notin {"none", "acquire", "done"} => r.token # 0

\* What an attempt has behind it on the way forward is done.
Backed(r) ==
    /\ r.decided \/ r.pc \in {"published", "decide"} => reached[r.pub] = Installations
    /\ r.pc = "publish" => \A i \in Installations : i < r.at => i \in reached[r.pub]
    /\ r.pc = "complete" /\ ~r.errs => \A i \in Installations : i < r.at => i \in finished[r.pub]
    /\ r.pc = "end" /\ r.decided /\ ~r.errs => finished[r.pub] = Installations

\* What a recovery without a decision has behind it is closed, and closed to the
\* calls of the attempt before it.
Cleaned(r) ==
    r.recovery /\ ~r.decided /\ ~r.errs =>
        \A i \in Installations :
            r.pc = "end" \/ (r.pc = "rollback" /\ r.at < i) =>
                r.token <= seen[i] /\ release[i].pub # r.pub

AttemptsInv == \A a \in Attempts : Coherent(attempt[a]) /\ Backed(attempt[a]) /\ Cleaned(attempt[a])

\* A token is taken by one attempt, and there are no more tokens than attempts.
TokensInv ==
    /\ \A a \in Attempts : a > tries => attempt[a] = NoAttempt
    /\ \A a \in Attempts : attempt[a].token <= fences
    /\ fences <= Cardinality({a \in Attempts : attempt[a].token # 0})

\* The attempt that publishes has a lower token than every recovery of it.
Overtaken ==
    \A a, b \in Attempts :
        /\ ~attempt[a].recovery /\ attempt[b].recovery
        /\ attempt[a].pub # 0 /\ attempt[a].pub = attempt[b].pub
        /\ attempt[b].token # 0
        => attempt[a].token < attempt[b].token

\* A call that is still to take effect has the token of the attempt that made it.
DelayedInv ==
    \A c \in delayed :
        /\ c.call = "complete" => reached[c.pub] = Installations
        /\ c.call \in {"prepare", "publish"} =>
              \E a \in Attempts : ~attempt[a].recovery /\ attempt[a].pub = c.pub /\ attempt[a].token = c.token

\* A row before its first attempt, a row that is decided, and one that is recovered,
\* whose installations refuse the attempt before the recovery.
RowsInv ==
    \A p \in Publications :
        /\ record[p].status = "absent" => \A a \in Attempts : attempt[a].pub # p
        /\ record[p].decided => reached[p] = Installations
        /\ record[p].status = "recovered" =>
              \A i \in Installations :
                  /\ release[i].pub # p
                  /\ \A a \in Attempts : ~attempt[a].recovery /\ attempt[a].pub = p => attempt[a].token < seen[i]

ModInv ==
    /\ ModTypeOK /\ AttemptsInv /\ TokensInv /\ Overtaken /\ DelayedInv /\ RowsInv
    /\ SucceededWhole /\ PublishedBeforeCommit

-----------------------------------------------------------------------------
(* What a call does to the installations, as far as the attempts are concerned *)

\* Histories grow, tokens met grow, and a publication is only opened by a call with
\* the token of the attempt that publishes it.
Moves ==
    /\ release' \in [Installations -> JournalRows]
    /\ installed' \in [Installations -> 0 .. LastModPublication]
    /\ seen' \in [Installations -> 0 .. LastAttempt]
    /\ reached' \in [Publications -> SUBSET Installations]
    /\ finished' \in [Publications -> SUBSET Installations]
    /\ \A p \in Publications : reached[p] \subseteq reached'[p] /\ finished[p] \subseteq finished'[p]
    /\ \A i \in Installations : seen[i] <= seen'[i]
    /\ \A i \in Installations, p \in Publications :
          release'[i].pub = p =>
              \/ release[i].pub = p
              \/ \E a \in Attempts : ~attempt[a].recovery /\ attempt[a].pub = p /\ seen[i] <= attempt[a].token
    /\ \A p \in Publications : finished'[p] # {} => reached'[p] = Installations

LEMMA ModNumbers ==
    /\ Publications \subseteq Nat \ {0} /\ 0 \notin Publications
    /\ Attempts \subseteq Nat \ {0}
    /\ 1 \in Installations /\ LastInstallation \in Installations
    /\ Installations \subseteq Nat \ {0}
    /\ \A i \in Installations : i # LastInstallation => i + 1 \in Installations
    /\ \A i \in Installations : i # 1 => i - 1 \in Installations
  BY ModAssumption DEF Publications, Attempts, Installations

LEMMA StillMoves ==
    ASSUME ModInv, UNCHANGED <<release, installed, seen, reached, finished>>
    PROVE  Moves
<1>1. \A i \in Installations : seen[i] <= seen[i]
  BY ModAssumption DEF ModInv, ModTypeOK
<1> QED
  BY <1>1 DEF ModInv, ModTypeOK, Moves, JournalRows, PublishedBeforeCommit

LEMMA PerformMoves ==
    ASSUME ModInv, NEW call \in TargetCalls, NEW p \in Publications, NEW t \in 1 .. LastAttempt,
           NEW i \in Installations, Perform(call, p, t, i),
           call = "complete" => reached[p] = Installations,
           call \in {"prepare", "publish"} =>
               \E a \in Attempts : ~attempt[a].recovery /\ attempt[a].pub = p /\ attempt[a].token = t
    PROVE  /\ Moves
           /\ call = "publish" => i \in reached'[p]
           /\ call = "complete" => i \in finished'[p]
           /\ call = "rollback" => release'[i].pub # p
           /\ seen'[i] = t
<1>1. /\ release \in [Installations -> JournalRows] /\ installed \in [Installations -> 0 .. LastModPublication]
      /\ seen \in [Installations -> 0 .. LastAttempt]
      /\ reached \in [Publications -> SUBSET Installations] /\ finished \in [Publications -> SUBSET Installations]
      /\ \A q \in Publications : finished[q] # {} => reached[q] = Installations
  BY DEF ModInv, ModTypeOK, JournalRows, PublishedBeforeCommit
<1>2. p # 0 /\ p \in 0 .. LastModPublication /\ t \in 0 .. LastAttempt /\ t \in Int
  BY ModAssumption DEF Publications
<1>3. PICK j \in JournalRows :
        /\ release' = [release EXCEPT ![i] = j]
        /\ j.pub = p => release[i].pub = p \/ call \in {"prepare", "publish"}
        /\ j.pub \in {release[i].pub, p, 0}
        /\ call = "rollback" => j.pub # p
  <2>1. AfterCall(call, p, i) \in JournalRows
    <3>1. /\ release[i] \in JournalRows /\ Closed \in JournalRows
          /\ Opened(p, "prepared") \in JournalRows /\ Opened(p, "published") \in JournalRows
      BY <1>1, <1>2, ModAssumption DEF JournalRows, Opened, Closed
    <3> QED
      BY <3>1 DEF AfterCall
  <2>2. /\ AfterCall(call, p, i).pub \in {release[i].pub, p, 0}
        /\ AfterCall(call, p, i).pub = p => release[i].pub = p \/ call \in {"prepare", "publish"}
        /\ call = "rollback" => AfterCall(call, p, i).pub # p
    BY <1>1, <1>2 DEF AfterCall, Opened, Closed, TargetCalls
  <2> QED
    BY <2>1, <2>2 DEF Perform
<1>4. /\ release' \in [Installations -> JournalRows]
      /\ \A k \in Installations : release'[k] = IF k = i THEN j ELSE release[k]
  BY <1>1, <1>3
<1>5. /\ seen[i] <= t /\ seen' = [seen EXCEPT ![i] = t]
      /\ installed' = IF call = "complete" THEN [installed EXCEPT ![i] = p] ELSE installed
      /\ finished' = IF call = "complete" THEN [finished EXCEPT ![p] = @ \cup {i}] ELSE finished
      /\ reached' = IF call = "publish" THEN [reached EXCEPT ![p] = @ \cup {i}] ELSE reached
  BY <1>1, <1>2 DEF Perform, Admitted
<1>6. /\ seen' \in [Installations -> 0 .. LastAttempt] /\ seen'[i] = t
      /\ \A k \in Installations : seen[k] <= seen'[k]
  BY <1>1, <1>2, <1>5, ModAssumption
<1>7. installed' \in [Installations -> 0 .. LastModPublication]
  BY <1>1, <1>2, <1>5
<1>8. /\ finished' \in [Publications -> SUBSET Installations]
      /\ \A q \in Publications : finished[q] \subseteq finished'[q]
      /\ \A q \in Publications : finished'[q] # {} => finished[q] # {} \/ (q = p /\ call = "complete")
      /\ call = "complete" => i \in finished'[p]
  <2>1. CASE call = "complete"
    BY <1>1, <1>5, <2>1
  <2>2. CASE call # "complete"
    BY <1>1, <1>5, <2>2
  <2> QED
    BY <2>1, <2>2
<1>9. /\ reached' \in [Publications -> SUBSET Installations]
      /\ \A q \in Publications : reached[q] \subseteq reached'[q]
      /\ call = "publish" => i \in reached'[p]
  <2>1. CASE call = "publish"
    BY <1>1, <1>5, <2>1
  <2>2. CASE call # "publish"
    BY <1>1, <1>5, <2>2
  <2> QED
    BY <2>1, <2>2
<1>10. \A q \in Publications : finished'[q] # {} => reached'[q] = Installations
  <2> TAKE q \in Publications
  <2>1. finished'[q] # {} => reached[q] = Installations
    BY <1>1, <1>8
  <2> QED
    BY <1>1, <1>9, <2>1
<1>11. \A k \in Installations, q \in Publications :
          release'[k].pub = q =>
              \/ release[k].pub = q
              \/ \E a \in Attempts : ~attempt[a].recovery /\ attempt[a].pub = q /\ seen[k] <= attempt[a].token
  <2> SUFFICES ASSUME NEW k \in Installations, NEW q \in Publications, release'[k].pub = q, release[k].pub # q
               PROVE  \E a \in Attempts : ~attempt[a].recovery /\ attempt[a].pub = q /\ seen[k] <= attempt[a].token
    OBVIOUS
  <2>1. k = i /\ q = p /\ call \in {"prepare", "publish"}
    BY <1>3, <1>4, ModNumbers
  <2>2. PICK a \in Attempts : ~attempt[a].recovery /\ attempt[a].pub = p /\ attempt[a].token = t
    BY <2>1
  <2> QED
    BY <1>5, <2>1, <2>2
<1> QED
  BY <1>3, <1>4, <1>6, <1>7, <1>8, <1>9, <1>10, <1>11 DEF Moves

LEMMA RebootMoves ==
    ASSUME ModInv, NEW i \in Installations, Reboot(i)
    PROVE  Moves
<1>1. /\ release' = [release EXCEPT ![i] = Closed] /\ UNCHANGED <<installed, seen, reached, finished>>
  BY DEF Reboot
<1>2. release \in [Installations -> JournalRows] /\ Closed \in JournalRows /\ Closed.pub = 0
  BY ModAssumption DEF ModInv, ModTypeOK, JournalRows, Closed
<1>3. /\ release' \in [Installations -> JournalRows]
      /\ \A k \in Installations : release'[k] = IF k = i THEN Closed ELSE release[k]
  BY <1>1, <1>2
<1>4. \A k \in Installations, p \in Publications : release'[k].pub = p => release[k].pub = p
  BY <1>2, <1>3, ModNumbers
<1>5. \A k \in Installations : seen[k] <= seen[k]
  BY ModAssumption DEF ModInv, ModTypeOK
<1> QED
  BY <1>1, <1>3, <1>4, <1>5 DEF ModInv, ModTypeOK, Moves, PublishedBeforeCommit

-----------------------------------------------------------------------------
(* A step of one attempt *)

LEMMA WholeStays ==
    ASSUME Moves, NEW p \in Publications
    PROVE  /\ reached[p] = Installations => reached'[p] = Installations
           /\ finished[p] = Installations => finished'[p] = Installations
<1>1. /\ reached[p] \subseteq reached'[p] /\ finished[p] \subseteq finished'[p]
      /\ reached'[p] \subseteq Installations /\ finished'[p] \subseteq Installations
  BY DEF Moves
<1> QED
  BY <1>1

LEMMA BackedStays ==
    ASSUME ModInv, Moves, NEW r \in AttemptRows, r.pub \in Publications, Backed(r)
    PROVE  Backed(r)'
<1>1. /\ reached[r.pub] \subseteq reached'[r.pub] /\ finished[r.pub] \subseteq finished'[r.pub]
      /\ reached'[r.pub] \subseteq Installations /\ finished'[r.pub] \subseteq Installations
  BY DEF Moves
<1>2. /\ reached[r.pub] = Installations => reached'[r.pub] = Installations
      /\ finished[r.pub] = Installations => finished'[r.pub] = Installations
  BY WholeStays
<1> QED
  BY <1>1, <1>2 DEF Backed

LEMMA CleanedStays ==
    ASSUME ModInv, Moves, NEW b \in Attempts, NEW r, r = attempt[b]
    PROVE  Cleaned(r)'
<1> SUFFICES ASSUME r.recovery, ~r.decided, ~r.errs, NEW i \in Installations,
                    r.pc = "end" \/ (r.pc = "rollback" /\ r.at < i)
             PROVE  r.token <= seen'[i] /\ release'[i].pub # r.pub
  BY DEF Cleaned
<1>1. r.token <= seen[i] /\ release[i].pub # r.pub /\ r.token # 0 /\ r.pub # 0
  BY DEF ModInv, AttemptsInv, Cleaned, Coherent
<1>2. r.token \in 0 .. LastAttempt /\ seen[i] \in 0 .. LastAttempt /\ seen'[i] \in 0 .. LastAttempt
      /\ seen[i] <= seen'[i] /\ r.pub \in Publications
  BY <1>1 DEF ModInv, ModTypeOK, Moves, Publications
<1>3. r.token <= seen'[i]
  BY <1>1, <1>2, ModAssumption
<1>4. ASSUME release'[i].pub = r.pub PROVE FALSE
  <2>1. PICK a \in Attempts : ~attempt[a].recovery /\ attempt[a].pub = r.pub /\ seen[i] <= attempt[a].token
    BY <1>1, <1>2, <1>4 DEF Moves
  <2>2. attempt[a].token < r.token
    BY <1>1, <2>1 DEF ModInv, Overtaken
  <2>3. attempt[a].token \in 0 .. LastAttempt
    BY DEF ModInv, ModTypeOK
  <2> QED
    BY <1>1, <1>2, <2>1, <2>2, <2>3, ModAssumption
<1> QED
  BY <1>3, <1>4

LEMMA ShutStays ==
    ASSUME ModInv, Moves, NEW p \in Publications, record[p].status = "recovered", NEW i \in Installations
    PROVE  /\ release'[i].pub # p
           /\ \A a \in Attempts : ~attempt[a].recovery /\ attempt[a].pub = p => attempt[a].token < seen'[i]
<1>1. /\ release[i].pub # p
      /\ \A a \in Attempts : ~attempt[a].recovery /\ attempt[a].pub = p => attempt[a].token < seen[i]
  BY DEF ModInv, RowsInv
<1>2. /\ seen[i] \in 0 .. LastAttempt /\ seen'[i] \in 0 .. LastAttempt /\ seen[i] <= seen'[i]
      /\ \A a \in Attempts : attempt[a].token \in 0 .. LastAttempt
  BY DEF ModInv, ModTypeOK, Moves
<1>3. \A a \in Attempts : ~attempt[a].recovery /\ attempt[a].pub = p => attempt[a].token < seen'[i]
  BY <1>1, <1>2, ModAssumption
<1>4. ~\E a \in Attempts : ~attempt[a].recovery /\ attempt[a].pub = p /\ seen[i] <= attempt[a].token
  BY <1>1, <1>2, ModAssumption
<1> QED
  BY <1>1, <1>3, <1>4 DEF Moves

\* What every step after the start of an attempt has to show.
LEMMA AttemptsStep ==
    ASSUME ModInv, Moves, attempt' \in [Attempts -> AttemptRows],
           \A b \in Attempts : /\ attempt'[b].pub = attempt[b].pub /\ attempt'[b].token = attempt[b].token
                               /\ attempt'[b].recovery = attempt[b].recovery
                               /\ b > tries => attempt'[b] = attempt[b],
           AttemptsInv',
           record' \in [Publications -> [status : RecordStatus, decided : BOOLEAN]],
           \A p \in Publications :
              \/ record'[p] = record[p]
              \/ /\ record'[p].status # "absent"
                 /\ record'[p].decided => reached'[p] = Installations
                 /\ record'[p].status = "succeeded" => finished'[p] = Installations
                 /\ record'[p].status = "recovered" =>
                      \E b \in Attempts :
                         /\ attempt[b].recovery /\ attempt[b].token # 0 /\ attempt[b].pub = p
                         /\ \A i \in Installations : attempt[b].token <= seen'[i] /\ release'[i].pub # p,
           tries' = tries, fences' = fences, holder' \in 0 .. LastAttempt,
           \A c \in delayed' :
              \/ c \in delayed
              \/ /\ c \in [call : TargetCalls, pub : Publications, token : Attempts, at : Installations]
                 /\ c.call = "complete" => reached'[c.pub] = Installations
                 /\ c.call \in {"prepare", "publish"} =>
                      \E b \in Attempts : ~attempt[b].recovery /\ attempt[b].pub = c.pub /\ attempt[b].token = c.token
    PROVE  ModInv'
<1>5. ModTypeOK'
  <2>1. delayed' \subseteq [call : TargetCalls, pub : Publications, token : Attempts, at : Installations]
    BY DEF ModInv, ModTypeOK
  <2> QED
    BY <2>1 DEF ModInv, ModTypeOK, Moves, JournalRows, AttemptRows
<1>7. TokensInv'
  <2>1. {b \in Attempts : attempt'[b].token # 0} = {b \in Attempts : attempt[b].token # 0}
    OBVIOUS
  <2>2. fences' <= Cardinality({b \in Attempts : attempt'[b].token # 0})
    BY <2>1 DEF ModInv, TokensInv
  <2>3. /\ \A b \in Attempts : b > tries' => attempt'[b] = NoAttempt
        /\ \A b \in Attempts : attempt'[b].token <= fences'
    BY DEF ModInv, TokensInv
  <2> QED
    BY <2>2, <2>3 DEF TokensInv
<1>8. Overtaken'
  BY DEF ModInv, Overtaken
<1>9. DelayedInv'
  <2> SUFFICES ASSUME NEW c \in delayed'
               PROVE  /\ c.call = "complete" => reached'[c.pub] = Installations
                      /\ c.call \in {"prepare", "publish"} =>
                           \E b \in Attempts : ~attempt'[b].recovery /\ attempt'[b].pub = c.pub /\ attempt'[b].token = c.token
    BY DEF DelayedInv
  <2>1. CASE c \in delayed
    <3>1. c.pub \in Publications
      BY <2>1 DEF ModInv, ModTypeOK
    <3>2. reached[c.pub] = Installations => reached'[c.pub] = Installations
      BY <3>1, WholeStays
    <3> QED
      BY <2>1, <3>2 DEF ModInv, DelayedInv
  <2>2. CASE c \notin delayed
    BY <2>2
  <2> QED
    BY <2>1, <2>2
<1>10. RowsInv'
  <2> SUFFICES ASSUME NEW p \in Publications
               PROVE  /\ record'[p].status = "absent" => \A b \in Attempts : attempt'[b].pub # p
                      /\ record'[p].decided => reached'[p] = Installations
                      /\ record'[p].status = "recovered" =>
                            \A i \in Installations :
                                /\ release'[i].pub # p
                                /\ \A b \in Attempts : ~attempt'[b].recovery /\ attempt'[b].pub = p => attempt'[b].token < seen'[i]
    BY DEF RowsInv
  <2>1. record'[p].status = "absent" => \A b \in Attempts : attempt'[b].pub # p
    BY DEF ModInv, RowsInv
  <2>2. record'[p].decided => reached'[p] = Installations
    BY WholeStays DEF ModInv, RowsInv
  <2>3. ASSUME record'[p].status = "recovered", NEW i \in Installations
        PROVE  /\ release'[i].pub # p
               /\ \A b \in Attempts : ~attempt'[b].recovery /\ attempt'[b].pub = p => attempt'[b].token < seen'[i]
    <3>1. CASE record[p].status = "recovered"
      BY <3>1, ShutStays
    <3>2. CASE record[p].status # "recovered"
      <4>1. PICK a \in Attempts : /\ attempt[a].recovery /\ attempt[a].token # 0 /\ attempt[a].pub = p
                                  /\ attempt[a].token <= seen'[i] /\ release'[i].pub # p
        BY <2>3, <3>2
      <4>2. \A b \in Attempts : ~attempt[b].recovery /\ attempt[b].pub = p => attempt[b].token < attempt[a].token
        BY <4>1, ModNumbers DEF ModInv, Overtaken
      <4>3. \A b \in Attempts : attempt[b].token \in 0 .. LastAttempt
        BY DEF ModInv, ModTypeOK
      <4>4. seen'[i] \in 0 .. LastAttempt
        BY DEF Moves
      <4>5. \A b \in Attempts : ~attempt[b].recovery /\ attempt[b].pub = p => attempt[b].token < seen'[i]
        BY <4>1, <4>2, <4>3, <4>4, ModAssumption
      <4> QED
        BY <4>1, <4>5
    <3> QED
      BY <3>1, <3>2
  <2> QED
    BY <2>1, <2>2, <2>3
<1>11. SucceededWhole' /\ PublishedBeforeCommit'
  <2>1. \A p \in Publications : finished[p] = Installations => finished'[p] = Installations
    BY WholeStays
  <2> QED
    BY <2>1 DEF Moves, ModInv, SucceededWhole, PublishedBeforeCommit
<1> QED
  BY <1>5, <1>7, <1>8, <1>9, <1>10, <1>11 DEF ModInv

\* What an attempt has behind it stays behind it.
LEMMA AttemptStays ==
    ASSUME ModInv, Moves, NEW b \in Attempts, NEW s, s = attempt[b]
    PROVE  Coherent(s) /\ Backed(s)' /\ Cleaned(s)'
<1>1. s \in AttemptRows /\ Coherent(s) /\ Backed(s)
  BY DEF ModInv, ModTypeOK, AttemptsInv, AttemptRows
<1>2. Cleaned(s)'
  BY CleanedStays
<1>3. CASE s.pub = 0
  BY <1>1, <1>2, <1>3 DEF Coherent, Backed
<1>4. CASE s.pub # 0
  <2>1. s.pub \in Publications
    BY <1>1, <1>4, ModAssumption DEF AttemptRows, Publications
  <2> QED
    BY <1>1, <1>2, <2>1, BackedStays
<1> QED
  BY <1>3, <1>4

\* A step of attempt a, which becomes r.
LEMMA AttemptStep ==
    ASSUME ModInv, Moves, NEW a \in Attempts, NEW r \in AttemptRows,
           attempt' = [attempt EXCEPT ![a] = r],
           r.pub = attempt[a].pub, r.token = attempt[a].token, r.recovery = attempt[a].recovery,
           attempt[a].pc # "none", Coherent(r), Backed(r)', Cleaned(r)',
           record' \in [Publications -> [status : RecordStatus, decided : BOOLEAN]],
           \A p \in Publications :
              \/ record'[p] = record[p]
              \/ /\ p = r.pub
                 /\ record'[p].status # "absent"
                 /\ record'[p].decided => reached'[p] = Installations
                 /\ record'[p].status = "succeeded" => finished'[p] = Installations
                 /\ record'[p].status = "recovered" =>
                         /\ r.recovery /\ r.token # 0
                         /\ \A i \in Installations : r.token <= seen'[i] /\ release'[i].pub # p,
           tries' = tries, fences' = fences, holder' \in 0 .. LastAttempt,
           \A c \in delayed' :
              \/ c \in delayed
              \/ /\ c \in [call : TargetCalls, pub : Publications, token : Attempts, at : Installations]
                 /\ c.call = "complete" => reached'[c.pub] = Installations
                 /\ c.call \in {"prepare", "publish"} => ~r.recovery /\ r.pub = c.pub /\ r.token = c.token
    PROVE  ModInv'
<1>1. /\ attempt \in [Attempts -> AttemptRows] /\ attempt' \in [Attempts -> AttemptRows]
      /\ \A b \in Attempts : attempt'[b] = IF b = a THEN r ELSE attempt[b]
      /\ attempt'[a] = r
  BY DEF ModInv, ModTypeOK, AttemptRows
<1>2. a <= tries
  BY ModAssumption DEF ModInv, TokensInv, NoAttempt, Attempts, ModTypeOK
<1>3. \A b \in Attempts : /\ attempt'[b].pub = attempt[b].pub /\ attempt'[b].token = attempt[b].token
                          /\ attempt'[b].recovery = attempt[b].recovery
                          /\ b > tries => attempt'[b] = attempt[b]
  <2>1. tries \in Int /\ a \in Int
    BY ModAssumption DEF ModInv, ModTypeOK, Attempts
  <2> QED
    BY <1>1, <1>2, <2>1
<1>4. AttemptsInv'
  <2> SUFFICES ASSUME NEW b \in Attempts
               PROVE  Coherent(attempt'[b]) /\ Backed(attempt[b])' /\ Cleaned(attempt[b])'
    BY DEF AttemptsInv
  <2>1. PICK s \in AttemptRows : s = attempt'[b]
    BY <1>1
  <2>2. Coherent(s) /\ Backed(s)' /\ Cleaned(s)'
    BY <1>1, <2>1, AttemptStays
  <2> QED
    BY <2>1, <2>2 DEF Backed, Cleaned
<1>5. \A p \in Publications :
         \/ record'[p] = record[p]
         \/ /\ record'[p].status # "absent"
            /\ record'[p].decided => reached'[p] = Installations
            /\ record'[p].status = "succeeded" => finished'[p] = Installations
            /\ record'[p].status = "recovered" =>
                 \E b \in Attempts :
                    /\ attempt[b].recovery /\ attempt[b].token # 0 /\ attempt[b].pub = p
                    /\ \A i \in Installations : attempt[b].token <= seen'[i] /\ release'[i].pub # p
  OBVIOUS
<1>6. \A c \in delayed' :
         \/ c \in delayed
         \/ /\ c \in [call : TargetCalls, pub : Publications, token : Attempts, at : Installations]
            /\ c.call = "complete" => reached'[c.pub] = Installations
            /\ c.call \in {"prepare", "publish"} =>
                 \E b \in Attempts : ~attempt[b].recovery /\ attempt[b].pub = c.pub /\ attempt[b].token = c.token
  OBVIOUS
<1> QED
  BY <1>1, <1>3, <1>4, <1>5, <1>6, AttemptsStep

-----------------------------------------------------------------------------
(* The calls of an attempt *)

LEMMA AttemptAtWork ==
    ASSUME ModInv, NEW a \in Attempts, attempt[a].pc # "none"
    PROVE  /\ attempt[a] \in AttemptRows /\ attempt[a].pub \in Publications
           /\ Coherent(attempt[a]) /\ Backed(attempt[a]) /\ Cleaned(attempt[a])
           /\ record[attempt[a].pub].status # "absent"
<1>1. attempt[a] \in AttemptRows /\ Coherent(attempt[a]) /\ Backed(attempt[a]) /\ Cleaned(attempt[a])
  BY DEF ModInv, ModTypeOK, AttemptRows, AttemptsInv
<1>2. attempt[a].pub \in Publications
  BY <1>1, ModAssumption DEF Coherent, AttemptRows, Publications
<1> QED
  BY <1>1, <1>2 DEF ModInv, RowsInv

\* A step that leaves the rows.
LEMMA AttemptOnly ==
    ASSUME ModInv, Moves, NEW a \in Attempts, NEW r \in AttemptRows,
           attempt' = [attempt EXCEPT ![a] = r],
           r.pub = attempt[a].pub, r.token = attempt[a].token, r.recovery = attempt[a].recovery,
           attempt[a].pc # "none", Coherent(r), Backed(r)', Cleaned(r)',
           UNCHANGED <<record, tries, fences>>, holder' \in 0 .. LastAttempt,
           \A c \in delayed' :
              \/ c \in delayed
              \/ /\ c \in [call : TargetCalls, pub : Publications, token : Attempts, at : Installations]
                 /\ c.call = "complete" => reached'[c.pub] = Installations
                 /\ c.call \in {"prepare", "publish"} => ~r.recovery /\ r.pub = c.pub /\ r.token = c.token
    PROVE  ModInv'
<1>1. record' \in [Publications -> [status : RecordStatus, decided : BOOLEAN]]
  BY DEF ModInv, ModTypeOK
<1> QED
  BY <1>1, AttemptStep

\* The attempt after a call that went well, and after one that did not.
LEMMA AnsweredFields ==
    ASSUME ModInv, NEW a \in Attempts, attempt[a].pc \in TargetCalls, Answered(a)
    PROVE  \E r \in AttemptRows :
              /\ attempt' = [attempt EXCEPT ![a] = r]
              /\ r.pub = attempt[a].pub /\ r.token = attempt[a].token /\ r.recovery = attempt[a].recovery
              /\ r.status = attempt[a].status /\ r.decided = attempt[a].decided /\ r.errs = attempt[a].errs
              /\ attempt[a].flagged \subseteq r.flagged
              /\ attempt[a].pc = "rollback" =>
                    IF attempt[a].at = 1 THEN r.pc = "end" ELSE r.pc = "rollback" /\ r.at = attempt[a].at - 1
              /\ attempt[a].pc # "rollback" =>
                    IF attempt[a].at = LastInstallation
                    THEN r.pc = AfterPlace[attempt[a].pc] /\ r.at = 1
                    ELSE r.pc = attempt[a].pc /\ r.at = attempt[a].at + 1
<1>1. attempt[a] \in AttemptRows /\ attempt \in [Attempts -> AttemptRows]
  BY DEF ModInv, ModTypeOK, AttemptRows
<1>2. attempt[a].at \in Installations
  BY <1>1 DEF AttemptRows
<1>3. CASE attempt[a].pc = "rollback"
  <2> DEFINE r == NextUndo(a)
  <2>1. attempt' = [attempt EXCEPT ![a] = r]
    BY <1>3 DEF Answered, pc
  <2>2. r \in AttemptRows
    BY <1>1, <1>2, <1>3, ModNumbers DEF NextUndo, AttemptRows, Places, TargetCalls
  <2>3. /\ r.pub = attempt[a].pub /\ r.token = attempt[a].token /\ r.recovery = attempt[a].recovery
        /\ r.status = attempt[a].status /\ r.decided = attempt[a].decided /\ r.errs = attempt[a].errs
        /\ r.flagged = attempt[a].flagged
        /\ IF attempt[a].at = 1 THEN r.pc = "end" ELSE r.pc = "rollback" /\ r.at = attempt[a].at - 1
    BY <1>1, <1>3 DEF NextUndo, AttemptRows
  <2> QED
    BY <1>3, <2>1, <2>2, <2>3
<1>4. CASE attempt[a].pc # "rollback"
  <2> DEFINE place == AfterPlace[attempt[a].pc]
             more == Flagged(a)
             r == [attempt[a] EXCEPT !.flagged = @ \cup more,
                                     !.pc = IF attempt[a].at = LastInstallation THEN place ELSE @,
                                     !.at = IF attempt[a].at = LastInstallation THEN 1 ELSE @ + 1]
  <2>1. place \in Places /\ more \subseteq Installations
    BY <1>2, <1>4 DEF AfterPlace, Flagged, TargetCalls, Places, pc
  <2>2. Advance(a, place)
    BY <1>4 DEF Answered, pc
  <2> HIDE DEF place, more
  <2>3. attempt' = [attempt EXCEPT ![a] = r]
    BY <1>1, <2>2 DEF Advance, AttemptRows, more
  <2>4. r \in AttemptRows
    BY <1>1, <1>2, <2>1, ModNumbers DEF AttemptRows
  <2>5. /\ r.pub = attempt[a].pub /\ r.token = attempt[a].token /\ r.recovery = attempt[a].recovery
        /\ r.status = attempt[a].status /\ r.decided = attempt[a].decided /\ r.errs = attempt[a].errs
        /\ attempt[a].flagged \subseteq r.flagged
        /\ IF attempt[a].at = LastInstallation THEN r.pc = place /\ r.at = 1
           ELSE r.pc = attempt[a].pc /\ r.at = attempt[a].at + 1
    BY <1>1 DEF AttemptRows
  <2> QED
    BY <1>4, <2>3, <2>4, <2>5 DEF place
<1> QED
  BY <1>3, <1>4

LEMMA ErroredFields ==
    ASSUME ModInv, NEW a \in Attempts, attempt[a].pc \in TargetCalls, Errored(a)
    PROVE  \E r \in AttemptRows :
              /\ attempt' = [attempt EXCEPT ![a] = r]
              /\ r.pub = attempt[a].pub /\ r.token = attempt[a].token /\ r.recovery = attempt[a].recovery
              /\ r.status = attempt[a].status /\ r.decided = attempt[a].decided
              /\ attempt[a].flagged \subseteq r.flagged
              /\ attempt[a].pc = "rollback" => r.errs /\ r.pc \in {"rollback", "end"}
              /\ attempt[a].pc = "complete" => r.errs /\ r.pc \in {"complete", "end"}
              /\ attempt[a].pc \in {"prepare", "publish"} => r.pc = "rollback"
<1>1. attempt[a] \in AttemptRows /\ attempt \in [Attempts -> AttemptRows]
  BY DEF ModInv, ModTypeOK, AttemptRows
<1>2. attempt[a].at \in Installations
  BY <1>1 DEF AttemptRows
<1>3. CASE attempt[a].pc = "rollback"
  <2> DEFINE s == NextUndo(a)
             r == [s EXCEPT !.errs = TRUE]
  <2>1. attempt' = [attempt EXCEPT ![a] = r]
    BY <1>3 DEF Errored, pc
  <2>2. s \in AttemptRows
    BY <1>1, <1>2, <1>3, ModNumbers DEF NextUndo, AttemptRows, Places, TargetCalls
  <2>3. /\ s.pub = attempt[a].pub /\ s.token = attempt[a].token /\ s.recovery = attempt[a].recovery
        /\ s.status = attempt[a].status /\ s.decided = attempt[a].decided
        /\ s.flagged = attempt[a].flagged /\ s.pc \in {"rollback", "end"}
    BY <1>1, <1>3 DEF NextUndo, AttemptRows
  <2> HIDE DEF s
  <2>4. r \in AttemptRows
    BY <2>2 DEF AttemptRows
  <2>5. /\ r.pub = s.pub /\ r.token = s.token /\ r.recovery = s.recovery
        /\ r.status = s.status /\ r.decided = s.decided /\ r.flagged = s.flagged /\ r.pc = s.pc /\ r.errs
    BY <2>2 DEF AttemptRows
  <2> QED
    BY <1>3, <2>1, <2>3, <2>4, <2>5
<1>4. CASE attempt[a].pc = "complete"
  <2> DEFINE r == [attempt[a] EXCEPT !.errs = TRUE,
                                     !.pc = IF attempt[a].at = LastInstallation THEN "end" ELSE @,
                                     !.at = IF attempt[a].at = LastInstallation THEN 1 ELSE @ + 1]
  <2>1. attempt' = [attempt EXCEPT ![a] = r]
    BY <1>1, <1>4 DEF Errored, AttemptRows, pc
  <2>2. r \in AttemptRows
    BY <1>1, <1>2, ModNumbers DEF AttemptRows, Places
  <2>3. /\ r.pub = attempt[a].pub /\ r.token = attempt[a].token /\ r.recovery = attempt[a].recovery
        /\ r.status = attempt[a].status /\ r.decided = attempt[a].decided
        /\ attempt[a].flagged = r.flagged /\ r.errs /\ r.pc \in {"complete", "end"}
    BY <1>1, <1>4 DEF AttemptRows
  <2> QED
    BY <1>4, <2>1, <2>2, <2>3
<1>5. CASE attempt[a].pc \in {"prepare", "publish"}
  <2> DEFINE more == Flagged(a)
             r == [attempt[a] EXCEPT !.flagged = @ \cup more, !.pc = "rollback", !.at = LastInstallation]
  <2>1. more \subseteq Installations
    BY <1>2 DEF Flagged
  <2> HIDE DEF more
  <2>2. attempt' = [attempt EXCEPT ![a] = r]
    BY <1>1, <1>5 DEF Errored, AttemptRows, pc, more
  <2>3. r \in AttemptRows
    BY <1>1, <2>1, ModNumbers DEF AttemptRows, Places, TargetCalls
  <2>4. /\ r.pub = attempt[a].pub /\ r.token = attempt[a].token /\ r.recovery = attempt[a].recovery
        /\ r.status = attempt[a].status /\ r.decided = attempt[a].decided
        /\ attempt[a].flagged \subseteq r.flagged /\ r.pc = "rollback"
    BY <1>1 DEF AttemptRows
  <2> QED
    BY <1>5, <2>2, <2>3, <2>4
<1> QED
  BY <1>3, <1>4, <1>5 DEF TargetCalls

LEMMA CallMoves ==
    ASSUME ModInv, NEW a \in Attempts, attempt[a].pc \in TargetCalls,
           Perform(pc(a), pub(a), attempt[a].token, attempt[a].at)
    PROVE  /\ Moves
           /\ attempt[a].pc = "publish" => attempt[a].at \in reached'[attempt[a].pub]
           /\ attempt[a].pc = "complete" => attempt[a].at \in finished'[attempt[a].pub]
           /\ attempt[a].pc = "rollback" => release'[attempt[a].at].pub # attempt[a].pub
           /\ seen'[attempt[a].at] = attempt[a].token
<1>1. /\ attempt[a] \in AttemptRows /\ attempt[a].pub \in Publications
      /\ Coherent(attempt[a]) /\ Backed(attempt[a])
  BY AttemptAtWork DEF TargetCalls
<1>2. PICK call \in TargetCalls, p \in Publications, t \in 1 .. LastAttempt, i \in Installations :
        call = attempt[a].pc /\ p = attempt[a].pub /\ t = attempt[a].token /\ i = attempt[a].at
  <2>1. attempt[a].token \in 1 .. LastAttempt
    BY <1>1, ModAssumption DEF AttemptRows, Coherent, TargetCalls
  <2>2. attempt[a].at \in Installations
    BY <1>1 DEF AttemptRows
  <2> QED
    BY <1>1, <2>1, <2>2
<1>3. Perform(call, p, t, i)
  BY <1>2 DEF Perform, pc, pub, Admitted, MayDo, AfterCall
<1>4. call = "complete" => reached[p] = Installations
  BY <1>1, <1>2 DEF Coherent, Backed
<1>5. call \in {"prepare", "publish"} => ~attempt[a].recovery
  BY <1>1, <1>2 DEF Coherent, Undecided
<1>6. call \in {"prepare", "publish"} =>
         \E b \in Attempts : ~attempt[b].recovery /\ attempt[b].pub = p /\ attempt[b].token = t
  BY <1>2, <1>5
<1>7. /\ Moves
      /\ call = "publish" => i \in reached'[p]
      /\ call = "complete" => i \in finished'[p]
      /\ call = "rollback" => release'[i].pub # p
      /\ seen'[i] = t
  BY <1>3, <1>4, <1>6, PerformMoves
<1> QED
  BY <1>2, <1>7

LEMMA ErroredKeeps ==
    ASSUME ModInv, Moves, NEW a \in Attempts, attempt[a].pc \in TargetCalls, Errored(a),
           UNCHANGED <<record, tries, fences, holder>>,
           \A c \in delayed' :
              c \in delayed \/ c = [call |-> attempt[a].pc, pub |-> attempt[a].pub,
                                    token |-> attempt[a].token, at |-> attempt[a].at]
    PROVE  ModInv'
<1>1. /\ attempt[a] \in AttemptRows /\ attempt[a].pub \in Publications
      /\ Coherent(attempt[a]) /\ Backed(attempt[a])
  BY AttemptAtWork DEF TargetCalls
<1>2. PICK r \in AttemptRows :
         /\ attempt' = [attempt EXCEPT ![a] = r]
         /\ r.pub = attempt[a].pub /\ r.token = attempt[a].token /\ r.recovery = attempt[a].recovery
         /\ r.status = attempt[a].status /\ r.decided = attempt[a].decided
         /\ attempt[a].flagged \subseteq r.flagged
         /\ attempt[a].pc = "rollback" => r.errs /\ r.pc \in {"rollback", "end"}
         /\ attempt[a].pc = "complete" => r.errs /\ r.pc \in {"complete", "end"}
         /\ attempt[a].pc \in {"prepare", "publish"} => r.pc = "rollback"
  BY ErroredFields
<1>3. r.flagged \subseteq Installations
  BY DEF AttemptRows
<1>4. /\ attempt[a].token # 0 /\ r.token # 0 /\ r.pub # 0
      /\ attempt[a].recovery => r.flagged = Installations
      /\ attempt[a].pc \in {"prepare", "publish"} => ~attempt[a].decided /\ ~attempt[a].recovery
      /\ attempt[a].pc = "complete" => attempt[a].decided
      /\ attempt[a].pc = "rollback" => ~attempt[a].decided
      /\ attempt[a].status \notin TerminalStatus
  BY <1>1, <1>2, <1>3, ModNumbers DEF Coherent, TargetCalls, Undecided
<1>5. Coherent(r)
  BY <1>2, <1>4 DEF Coherent, TargetCalls, Undecided
<1>6. attempt[a].decided => reached'[attempt[a].pub] = Installations
  BY <1>1, WholeStays DEF Backed
<1>7. Backed(r)'
  BY <1>2, <1>4, <1>6 DEF Backed, TargetCalls
<1>8. Cleaned(r)'
  BY <1>2, <1>4 DEF Cleaned, TargetCalls
<1>9. \A c \in delayed' :
         \/ c \in delayed
         \/ /\ c \in [call : TargetCalls, pub : Publications, token : Attempts, at : Installations]
            /\ c.call = "complete" => reached'[c.pub] = Installations
            /\ c.call \in {"prepare", "publish"} => ~r.recovery /\ r.pub = c.pub /\ r.token = c.token
  <2> DEFINE c == [call |-> attempt[a].pc, pub |-> attempt[a].pub,
                   token |-> attempt[a].token, at |-> attempt[a].at]
  <2>1. attempt[a].token \in Attempts /\ attempt[a].at \in Installations
    BY <1>1, <1>4, ModAssumption DEF AttemptRows, Attempts
  <2>2. c \in [call : TargetCalls, pub : Publications, token : Attempts, at : Installations]
    BY <1>1, <2>1
  <2>3. /\ c.call = "complete" => reached'[c.pub] = Installations
        /\ c.call \in {"prepare", "publish"} => ~r.recovery /\ r.pub = c.pub /\ r.token = c.token
    BY <1>2, <1>4, <1>6
  <2> QED
    BY <2>2, <2>3
<1>10. attempt[a].pc # "none" /\ holder' \in 0 .. LastAttempt
  BY DEF TargetCalls, ModInv, ModTypeOK
<1> QED
  BY <1>2, <1>5, <1>7, <1>8, <1>9, <1>10, AttemptOnly

LEMMA RefusedKeeps ==
    ASSUME ModInv, NEW a \in Attempts, Refused(a)
    PROVE  ModInv'
<1>1. /\ attempt[a].pc \in TargetCalls /\ Errored(a) /\ UNCHANGED <<record, tries, fences, holder>>
      /\ UNCHANGED <<release, installed, seen, delayed, reached, finished>>
  BY DEF Refused, Calling, installationVars, pc
<1>2. Moves
  BY <1>1, StillMoves
<1> QED
  BY <1>1, <1>2, ErroredKeeps

LEMMA FailsKeeps ==
    ASSUME ModInv, NEW a \in Attempts, Fails(a)
    PROVE  ModInv'
<1>1. /\ attempt[a].pc \in TargetCalls /\ Errored(a) /\ UNCHANGED <<record, tries, fences, holder>>
  BY DEF Fails, Calling, pc
<1>2. CASE UNCHANGED <<installationVars, strays>>
  <2>1. UNCHANGED <<release, installed, seen, delayed, reached, finished>>
    BY <1>2 DEF installationVars
  <2> QED
    BY <1>1, <2>1, StillMoves, ErroredKeeps
<1>3. CASE Perform(pc(a), pub(a), attempt[a].token, attempt[a].at) /\ UNCHANGED <<delayed, strays>>
  BY <1>1, <1>3, CallMoves, ErroredKeeps
<1>4. CASE /\ delayed' = delayed \cup {[call |-> pc(a), pub |-> pub(a), token |-> attempt[a].token, at |-> attempt[a].at]}
           /\ UNCHANGED <<release, installed, seen, reached, finished>>
  <2>1. Moves
    BY <1>4, StillMoves
  <2>2. \A c \in delayed' :
           c \in delayed \/ c = [call |-> attempt[a].pc, pub |-> attempt[a].pub,
                                 token |-> attempt[a].token, at |-> attempt[a].at]
    BY <1>4 DEF pc, pub
  <2> QED
    BY <1>1, <2>1, <2>2, ErroredKeeps
<1> QED
  BY <1>2, <1>3, <1>4 DEF Fails

LEMMA CallTargetKeeps ==
    ASSUME ModInv, NEW a \in Attempts, CallTarget(a)
    PROVE  ModInv'
<1>1. /\ attempt[a].pc \in TargetCalls /\ Answered(a) /\ UNCHANGED <<record, tries, fences, holder, delayed>>
      /\ Perform(pc(a), pub(a), attempt[a].token, attempt[a].at)
  BY DEF CallTarget, Calling, pc
<1>2. /\ attempt[a] \in AttemptRows /\ attempt[a].pub \in Publications
      /\ Coherent(attempt[a]) /\ Backed(attempt[a]) /\ Cleaned(attempt[a])
  BY <1>1, AttemptAtWork DEF TargetCalls
<1>3. /\ Moves
      /\ attempt[a].pc = "publish" => attempt[a].at \in reached'[attempt[a].pub]
      /\ attempt[a].pc = "complete" => attempt[a].at \in finished'[attempt[a].pub]
      /\ attempt[a].pc = "rollback" => release'[attempt[a].at].pub # attempt[a].pub
      /\ seen'[attempt[a].at] = attempt[a].token
  BY <1>1, CallMoves
<1>4. PICK r \in AttemptRows :
         /\ attempt' = [attempt EXCEPT ![a] = r]
         /\ r.pub = attempt[a].pub /\ r.token = attempt[a].token /\ r.recovery = attempt[a].recovery
         /\ r.status = attempt[a].status /\ r.decided = attempt[a].decided /\ r.errs = attempt[a].errs
         /\ attempt[a].flagged \subseteq r.flagged
         /\ attempt[a].pc = "rollback" =>
               IF attempt[a].at = 1 THEN r.pc = "end" ELSE r.pc = "rollback" /\ r.at = attempt[a].at - 1
         /\ attempt[a].pc # "rollback" =>
               IF attempt[a].at = LastInstallation
               THEN r.pc = AfterPlace[attempt[a].pc] /\ r.at = 1
               ELSE r.pc = attempt[a].pc /\ r.at = attempt[a].at + 1
  BY <1>1, AnsweredFields
<1>5. /\ attempt[a].pc = "prepare" => r.pc \in {"prepare", "prepared"}
      /\ attempt[a].pc = "publish" => r.pc \in {"publish", "published"}
      /\ attempt[a].pc = "complete" => r.pc \in {"complete", "end"}
      /\ attempt[a].pc = "rollback" => r.pc \in {"rollback", "end"}
      /\ attempt[a].pc \in {"publish", "complete"} =>
            (IF attempt[a].at = LastInstallation THEN r.pc \in {"published", "end"}
             ELSE r.pc = attempt[a].pc /\ r.at = attempt[a].at + 1)
  BY <1>4 DEF AfterPlace
<1>6. Coherent(r)
  <2>1. r.flagged \subseteq Installations
    BY DEF AttemptRows
  <2>2. attempt[a].recovery => r.flagged = Installations
    BY <1>2, <1>4, <2>1 DEF Coherent
  <2> QED
    BY <1>1, <1>2, <1>4, <1>5, <2>2, ModNumbers DEF Coherent, TargetCalls, Undecided
<1>7. /\ reached[r.pub] \subseteq reached'[r.pub] /\ finished[r.pub] \subseteq finished'[r.pub]
      /\ reached'[r.pub] \subseteq Installations /\ finished'[r.pub] \subseteq Installations
  BY <1>2, <1>3, <1>4 DEF Moves
<1>8. attempt[a].at \in Installations /\ \A i \in Installations : i \in Int /\ i <= LastInstallation
  BY <1>2, ModAssumption DEF AttemptRows, Installations
<1>9. Backed(r)'
  <2>1. r.decided => reached'[r.pub] = Installations
    BY <1>2, <1>4, <1>7 DEF Backed
  <2>2. ASSUME attempt[a].pc = "publish", NEW i \in Installations, i <= attempt[a].at
        PROVE  i \in reached'[r.pub]
    BY <1>2, <1>3, <1>4, <1>7, <1>8, <2>2 DEF Backed
  <2>3. ASSUME attempt[a].pc = "complete", ~attempt[a].errs, NEW i \in Installations, i <= attempt[a].at
        PROVE  i \in finished'[r.pub]
    BY <1>2, <1>3, <1>4, <1>7, <1>8, <2>3 DEF Backed
  <2>4. CASE attempt[a].pc = "publish"
    <3>1. r.pc = "published" => attempt[a].at = LastInstallation
      BY <1>5, <2>4
    <3>2. r.pc = "published" => reached'[r.pub] = Installations
      BY <1>7, <1>8, <2>2, <2>4, <3>1
    <3>3. r.pc = "publish" => r.at = attempt[a].at + 1
      BY <1>5, <2>4
    <3>4. r.pc = "publish" => \A i \in Installations : i < r.at => i \in reached'[r.pub]
      BY <1>8, <2>2, <2>4, <3>3
    <3> QED
      BY <1>5, <2>1, <2>4, <3>2, <3>4 DEF Backed
  <2>5. CASE attempt[a].pc = "complete"
    <3>1. r.pc = "end" => attempt[a].at = LastInstallation
      BY <1>5, <2>5
    <3>2. r.pc = "end" /\ ~r.errs => finished'[r.pub] = Installations
      BY <1>4, <1>7, <1>8, <2>3, <2>5, <3>1
    <3>3. r.pc = "complete" => r.at = attempt[a].at + 1
      BY <1>5, <2>5
    <3>4. r.pc = "complete" /\ ~r.errs => \A i \in Installations : i < r.at => i \in finished'[r.pub]
      BY <1>4, <1>8, <2>3, <2>5, <3>3
    <3> QED
      BY <1>5, <2>1, <2>5, <3>2, <3>4 DEF Backed
  <2>6. CASE attempt[a].pc \in {"prepare", "rollback"}
    <3>1. ~r.decided
      BY <1>2, <1>4, <2>6 DEF Coherent, Undecided
    <3> QED
      BY <1>5, <2>6, <3>1 DEF Backed
  <2> QED
    BY <1>1, <2>4, <2>5, <2>6 DEF TargetCalls
<1>10. Cleaned(r)'
  <2> SUFFICES ASSUME r.recovery, ~r.decided, ~r.errs, NEW i \in Installations,
                      r.pc = "end" \/ (r.pc = "rollback" /\ r.at < i)
               PROVE  r.token <= seen'[i] /\ release'[i].pub # r.pub
    BY DEF Cleaned
  <2>1. attempt[a].pc = "rollback"
    BY <1>1, <1>2, <1>4, <1>5 DEF Coherent, Undecided, TargetCalls
  <2>2. r.token \in Int
    BY ModAssumption DEF AttemptRows
  <2>3. CASE i = attempt[a].at
    BY <1>3, <1>4, <2>1, <2>2, <2>3
  <2>4. CASE i # attempt[a].at
    <3>1. attempt[a].at < i
      <4>1. i \in Int /\ 1 <= i /\ attempt[a].at \in Int
        BY <1>8, ModAssumption DEF Installations
      <4>2. attempt[a].at = 1 \/ (attempt[a].at # 1 /\ r.pc = "rollback" /\ r.at = attempt[a].at - 1)
        BY <1>4, <2>1
      <4> QED
        BY <2>4, <4>1, <4>2
    <3>2. PICK s : s = attempt[a]
      OBVIOUS
    <3>3. Cleaned(s)'
      BY <1>3, <3>2, CleanedStays
    <3> QED
      BY <1>4, <2>1, <3>1, <3>2, <3>3 DEF Cleaned
  <2> QED
    BY <2>3, <2>4
<1>11. attempt[a].pc # "none" /\ holder' \in 0 .. LastAttempt
  BY <1>1 DEF TargetCalls, ModInv, ModTypeOK
<1> QED
  BY <1>1, <1>3, <1>4, <1>6, <1>9, <1>10, <1>11, AttemptOnly

LEMMA GotoFields ==
    ASSUME ModInv, NEW a \in Attempts, NEW place \in Places, Goto(a, place)
    PROVE  \E r \in AttemptRows :
              /\ attempt' = [attempt EXCEPT ![a] = r] /\ r.pc = place /\ r.at = 1
              /\ r.pub = attempt[a].pub /\ r.token = attempt[a].token /\ r.recovery = attempt[a].recovery
              /\ r.status = attempt[a].status /\ r.decided = attempt[a].decided
              /\ r.flagged = attempt[a].flagged /\ r.errs = attempt[a].errs
<1>1. attempt \in [Attempts -> AttemptRows] /\ 1 \in Installations
  BY ModNumbers DEF ModInv, ModTypeOK, AttemptRows, Places, TargetCalls
<1> DEFINE r == [attempt[a] EXCEPT !.pc = place, !.at = 1]
<1>2. r \in AttemptRows /\ attempt' = [attempt EXCEPT ![a] = r]
  BY <1>1 DEF Goto, AttemptRows
<1>3. /\ r.pc = place /\ r.at = 1
      /\ r.pub = attempt[a].pub /\ r.token = attempt[a].token /\ r.recovery = attempt[a].recovery
      /\ r.status = attempt[a].status /\ r.decided = attempt[a].decided
      /\ r.flagged = attempt[a].flagged /\ r.errs = attempt[a].errs
  BY <1>1 DEF AttemptRows
<1> QED
  BY <1>2, <1>3

LEMMA FailingFields ==
    ASSUME ModInv, NEW a \in Attempts, Failing(a)
    PROVE  \E r \in AttemptRows :
              /\ attempt' = [attempt EXCEPT ![a] = r] /\ r.pc = "rollback" /\ r.at = LastInstallation
              /\ r.pub = attempt[a].pub /\ r.token = attempt[a].token /\ r.recovery = attempt[a].recovery
              /\ r.status = attempt[a].status /\ r.decided = attempt[a].decided
              /\ r.flagged = attempt[a].flagged /\ r.errs = attempt[a].errs
<1>1. attempt \in [Attempts -> AttemptRows] /\ LastInstallation \in Installations /\ "rollback" \in Places
  BY ModNumbers DEF ModInv, ModTypeOK, AttemptRows, Places, TargetCalls
<1> DEFINE r == [attempt[a] EXCEPT !.pc = "rollback", !.at = LastInstallation]
<1>2. r \in AttemptRows /\ attempt' = [attempt EXCEPT ![a] = r]
  BY <1>1 DEF Failing, AttemptRows
<1>3. /\ r.pc = "rollback" /\ r.at = LastInstallation
      /\ r.pub = attempt[a].pub /\ r.token = attempt[a].token /\ r.recovery = attempt[a].recovery
      /\ r.status = attempt[a].status /\ r.decided = attempt[a].decided
      /\ r.flagged = attempt[a].flagged /\ r.errs = attempt[a].errs
  BY <1>1 DEF AttemptRows
<1> QED
  BY <1>2, <1>3

LEMMA FailingKeeps ==
    ASSUME ModInv, NEW a \in Attempts, attempt[a].pc \in {"prepare", "decide"}, Failing(a),
           UNCHANGED <<tries, fences, holder, release, installed, seen, delayed, reached, finished>>,
           record' \in {record, [record EXCEPT ![attempt[a].pub] = [status |-> "committed", decided |-> TRUE]]},
           record' # record => attempt[a].pc = "decide"
    PROVE  ModInv'
<1>1. /\ attempt[a] \in AttemptRows /\ attempt[a].pub \in Publications
      /\ Coherent(attempt[a]) /\ Backed(attempt[a])
  BY AttemptAtWork
<1>2. PICK r \in AttemptRows :
         /\ attempt' = [attempt EXCEPT ![a] = r] /\ r.pc = "rollback" /\ r.at = LastInstallation
         /\ r.pub = attempt[a].pub /\ r.token = attempt[a].token /\ r.recovery = attempt[a].recovery
         /\ r.status = attempt[a].status /\ r.decided = attempt[a].decided
         /\ r.flagged = attempt[a].flagged /\ r.errs = attempt[a].errs
  BY FailingFields
<1>3. Coherent(r) /\ ~r.decided /\ ~r.recovery
  BY <1>1, <1>2 DEF Coherent, Undecided
<1>4. Backed(r)' /\ Cleaned(r)'
  BY <1>2, <1>3 DEF Backed, Cleaned
<1>5. Moves
  BY StillMoves
<1>6. /\ record' \in [Publications -> [status : RecordStatus, decided : BOOLEAN]]
      /\ \A p \in Publications :
            \/ record'[p] = record[p]
            \/ /\ p = r.pub /\ record'[p].status = "committed" /\ reached'[p] = Installations
  <2>1. record \in [Publications -> [status : RecordStatus, decided : BOOLEAN]]
    BY DEF ModInv, ModTypeOK
  <2>2. [status |-> "committed", decided |-> TRUE] \in [status : RecordStatus, decided : BOOLEAN]
    BY DEF RecordStatus
  <2>3. attempt[a].pc = "decide" => reached[attempt[a].pub] = Installations
    BY <1>1 DEF Backed
  <2>4. CASE record' = record
    BY <2>1, <2>4
  <2>5. CASE record' # record
    <3>1. record' = [record EXCEPT ![attempt[a].pub] = [status |-> "committed", decided |-> TRUE]]
      BY <2>5
    <3>2. \A p \in Publications : record'[p] = IF p = attempt[a].pub THEN [status |-> "committed", decided |-> TRUE] ELSE record[p]
      BY <2>1, <3>1
    <3>3. record' \in [Publications -> [status : RecordStatus, decided : BOOLEAN]]
      BY <2>1, <2>2, <3>1
    <3> QED
      BY <1>2, <2>3, <2>5, <3>2, <3>3
  <2> QED
    BY <2>4, <2>5
<1>7. holder' \in 0 .. LastAttempt
  BY DEF ModInv, ModTypeOK
<1>8. \A p \in Publications :
        \/ record'[p] = record[p]
        \/ /\ p = r.pub
           /\ record'[p].status # "absent"
           /\ record'[p].decided => reached'[p] = Installations
           /\ record'[p].status = "succeeded" => finished'[p] = Installations
           /\ record'[p].status = "recovered" =>
                   /\ r.recovery /\ r.token # 0
                   /\ \A i \in Installations : r.token <= seen'[i] /\ release'[i].pub # p
  BY <1>6
<1> QED
  BY <1>2, <1>3, <1>4, <1>5, <1>6, <1>7, <1>8, AttemptStep

LEMMA CacheFailsKeeps ==
    ASSUME ModInv, NEW a \in Attempts, CacheFails(a)
    PROVE  ModInv'
<1>1. /\ attempt[a].pc = "prepare" /\ Failing(a) /\ record' = record
      /\ UNCHANGED <<tries, fences, holder, release, installed, seen, delayed, reached, finished>>
  BY DEF CacheFails, installationVars, pc
<1> QED
  BY <1>1, FailingKeeps

LEMMA DecideFailsKeeps ==
    ASSUME ModInv, NEW a \in Attempts, DecideFails(a)
    PROVE  ModInv'
<1>1. /\ attempt[a].pc = "decide" /\ Failing(a)
      /\ record' \in {record, [record EXCEPT ![attempt[a].pub] = [status |-> "committed", decided |-> TRUE]]}
      /\ UNCHANGED <<tries, fences, holder, release, installed, seen, delayed, reached, finished>>
  BY DEF DecideFails, installationVars, pc, pub
<1> QED
  BY <1>1, FailingKeeps

LEMMA SkipUndoKeeps ==
    ASSUME ModInv, NEW a \in Attempts, SkipUndo(a)
    PROVE  ModInv'
<1>1. /\ attempt[a].pc = "rollback" /\ attempt[a].at \notin attempt[a].flagged
      /\ attempt' = [attempt EXCEPT ![a] = NextUndo(a)]
      /\ UNCHANGED <<record, tries, fences, holder, release, installed, seen, delayed, reached, finished>>
  BY DEF SkipUndo, installationVars, pc
<1>2. /\ attempt[a] \in AttemptRows /\ attempt[a].pub \in Publications
      /\ Coherent(attempt[a]) /\ Backed(attempt[a])
  BY <1>1, AttemptAtWork
<1>3. attempt[a].at \in Installations
  BY <1>2 DEF AttemptRows
<1>4. PICK r \in AttemptRows :
         /\ attempt' = [attempt EXCEPT ![a] = r]
         /\ r.pub = attempt[a].pub /\ r.token = attempt[a].token /\ r.recovery = attempt[a].recovery
         /\ r.status = attempt[a].status /\ r.decided = attempt[a].decided /\ r.flagged = attempt[a].flagged
         /\ r.pc \in {"rollback", "end"}
  <2> DEFINE r == NextUndo(a)
  <2>1. /\ r \in AttemptRows
        /\ r.pub = attempt[a].pub /\ r.token = attempt[a].token /\ r.recovery = attempt[a].recovery
        /\ r.status = attempt[a].status /\ r.decided = attempt[a].decided /\ r.flagged = attempt[a].flagged
        /\ r.pc \in {"rollback", "end"}
    BY <1>1, <1>2, <1>3, ModNumbers DEF NextUndo, AttemptRows, Places, TargetCalls
  <2>2. attempt' = [attempt EXCEPT ![a] = r]
    BY <1>1
  <2> QED
    BY <2>1, <2>2
<1>6. Coherent(r) /\ ~r.decided /\ ~r.recovery
  BY <1>1, <1>2, <1>3, <1>4 DEF Coherent, Undecided
<1>7. Backed(r)' /\ Cleaned(r)'
  BY <1>4, <1>6 DEF Backed, Cleaned
<1>8. Moves /\ holder' \in 0 .. LastAttempt
  BY <1>1, StillMoves DEF ModInv, ModTypeOK
<1> QED
  BY <1>1, <1>4, <1>6, <1>7, <1>8, AttemptOnly

-----------------------------------------------------------------------------
(* The saves of an attempt *)

\* A save of attempt a, which goes on as r: what the row may say.
LEMMA RowStep ==
    ASSUME ModInv, NEW a \in Attempts, attempt[a].pc # "none", NEW r \in AttemptRows,
           attempt' = [attempt EXCEPT ![a] = r],
           r.pub = attempt[a].pub, r.token = attempt[a].token, r.recovery = attempt[a].recovery,
           Coherent(r), Backed(r), Cleaned(r),
           NEW row \in [status : RecordStatus, decided : BOOLEAN],
           record' \in {record, [record EXCEPT ![attempt[a].pub] = row]},
           row.status # "absent",
           row.decided => reached[attempt[a].pub] = Installations,
           row.status = "succeeded" => finished[attempt[a].pub] = Installations,
           row.status = "recovered" =>
              /\ attempt[a].recovery /\ attempt[a].token # 0
              /\ \A i \in Installations : attempt[a].token <= seen[i] /\ release[i].pub # attempt[a].pub,
           UNCHANGED <<tries, fences, release, installed, seen, delayed, reached, finished>>,
           holder' \in 0 .. LastAttempt
    PROVE  ModInv'
<1>1. attempt[a].pub \in Publications
  BY AttemptAtWork
<1>2. Moves
  BY StillMoves
<1>3. Backed(r)' /\ Cleaned(r)'
  BY DEF Backed, Cleaned
<1>4. record \in [Publications -> [status : RecordStatus, decided : BOOLEAN]]
  BY DEF ModInv, ModTypeOK
<1>5. /\ record' \in [Publications -> [status : RecordStatus, decided : BOOLEAN]]
      /\ \A p \in Publications : record'[p] = record[p] \/ (p = r.pub /\ record'[p] = row)
  <2>1. CASE record' = record
    BY <1>4, <2>1
  <2>2. CASE record' = [record EXCEPT ![attempt[a].pub] = row]
    BY <1>1, <1>4, <2>2
  <2> QED
    BY <2>1, <2>2
<1>6. \A p \in Publications :
        \/ record'[p] = record[p]
        \/ /\ p = r.pub
           /\ record'[p].status # "absent"
           /\ record'[p].decided => reached'[p] = Installations
           /\ record'[p].status = "succeeded" => finished'[p] = Installations
           /\ record'[p].status = "recovered" =>
                   /\ r.recovery /\ r.token # 0
                   /\ \A i \in Installations : r.token <= seen'[i] /\ release'[i].pub # p
  BY <1>5
<1> QED
  BY <1>2, <1>3, <1>5, <1>6, AttemptStep

LEMMA SaveKeeps ==
    ASSUME ModInv, NEW a \in Attempts, Save(a)
    PROVE  ModInv'
<1>1. attempt[a].pc \in {"prepared", "publishing", "published"}
  BY DEF Save, SavedStatus, pc
<1>2. /\ attempt[a] \in AttemptRows /\ attempt[a].pub \in Publications
      /\ Coherent(attempt[a]) /\ Backed(attempt[a])
  BY <1>1, AttemptAtWork
<1>3. ~attempt[a].decided /\ ~attempt[a].recovery /\ attempt[a].token # 0
  BY <1>1, <1>2 DEF Coherent, Undecided
<1>4. PICK place \in {"publishing", "publish", "decide"} :
        Goto(a, place) /\ (place = "decide" => attempt[a].pc = "published")
  <2>1. AfterSave[attempt[a].pc] \in {"publishing", "publish", "decide"}
    BY <1>1 DEF AfterSave
  <2>2. AfterSave[attempt[a].pc] = "decide" => attempt[a].pc = "published"
    BY <1>1 DEF AfterSave
  <2>3. Goto(a, AfterSave[attempt[a].pc])
    BY DEF Save, pc
  <2> QED
    BY <2>1, <2>2, <2>3
<1>5. PICK r \in AttemptRows :
         /\ attempt' = [attempt EXCEPT ![a] = r] /\ r.pc = place /\ r.at = 1
         /\ r.pub = attempt[a].pub /\ r.token = attempt[a].token /\ r.recovery = attempt[a].recovery
         /\ r.status = attempt[a].status /\ r.decided = attempt[a].decided
         /\ r.flagged = attempt[a].flagged /\ r.errs = attempt[a].errs
  <2>1. place \in Places
    BY DEF Places, TargetCalls
  <2> QED
    BY <1>4, <2>1, GotoFields
<1>6. Coherent(r)
  BY <1>2, <1>3, <1>5, ModNumbers DEF Coherent, Undecided
<1>7. Backed(r)
  <2>1. \A i \in Installations : ~(i < 1)
    BY ModAssumption DEF Installations
  <2> QED
    BY <1>2, <1>3, <1>4, <1>5, <2>1 DEF Backed
<1>8. Cleaned(r)
  BY <1>3, <1>5 DEF Cleaned
<1>9. PICK status \in {"prepared", "publishing"} :
        record' = [record EXCEPT ![attempt[a].pub] = [status |-> status, decided |-> attempt[a].decided]]
  <2>1. SavedStatus[attempt[a].pc] \in {"prepared", "publishing"}
    BY <1>1 DEF SavedStatus
  <2>2. record' = [record EXCEPT ![attempt[a].pub] = [status |-> SavedStatus[attempt[a].pc], decided |-> attempt[a].decided]]
    BY DEF Save, WriteRow, pc, pub
  <2> QED
    BY <2>1, <2>2
<1> DEFINE row == [status |-> status, decided |-> attempt[a].decided]
<1>10. /\ row \in [status : RecordStatus, decided : BOOLEAN] /\ ~row.decided
       /\ row.status \in {"prepared", "publishing"}
  BY <1>2, <1>3 DEF RecordStatus, AttemptRows
<1>11. record' \in {record, [record EXCEPT ![attempt[a].pub] = row]}
  BY <1>9
<1> HIDE DEF row
<1>12. /\ UNCHANGED <<tries, fences, release, installed, seen, delayed, reached, finished>>
       /\ holder' \in 0 .. LastAttempt
  BY DEF Save, installationVars, ModInv, ModTypeOK
<1> QED
  BY <1>1, <1>5, <1>6, <1>7, <1>8, <1>10, <1>11, <1>12, RowStep

\* An attempt that is over, whatever it leaves.
LEMMA DoneKeeps ==
    ASSUME ModInv, NEW a \in Attempts, attempt[a].pc # "none", Goto(a, "done"),
           NEW row \in [status : RecordStatus, decided : BOOLEAN],
           record' \in {record, [record EXCEPT ![attempt[a].pub] = row]},
           row.status # "absent",
           row.decided => reached[attempt[a].pub] = Installations,
           row.status = "succeeded" => finished[attempt[a].pub] = Installations,
           row.status = "recovered" =>
              /\ attempt[a].recovery /\ attempt[a].token # 0
              /\ \A i \in Installations : attempt[a].token <= seen[i] /\ release[i].pub # attempt[a].pub,
           UNCHANGED <<tries, fences, release, installed, seen, delayed, reached, finished>>,
           holder' \in {holder, Released(a)}
    PROVE  ModInv'
<1>1. PICK r \in AttemptRows :
         /\ attempt' = [attempt EXCEPT ![a] = r] /\ r.pc = "done" /\ r.at = 1
         /\ r.pub = attempt[a].pub /\ r.token = attempt[a].token /\ r.recovery = attempt[a].recovery
         /\ r.status = attempt[a].status /\ r.decided = attempt[a].decided
         /\ r.flagged = attempt[a].flagged /\ r.errs = attempt[a].errs
  <2>1. "done" \in Places
    BY DEF Places
  <2> QED
    BY <2>1, GotoFields
<1>2. /\ attempt[a] \in AttemptRows /\ attempt[a].pub \in Publications
      /\ Coherent(attempt[a]) /\ Backed(attempt[a])
  BY AttemptAtWork
<1>3. Coherent(r) /\ Backed(r) /\ Cleaned(r)
  BY <1>1, <1>2, ModNumbers DEF Coherent, Backed, Cleaned, Undecided
<1>4. holder' \in 0 .. LastAttempt
  BY ModAssumption DEF Released, ModInv, ModTypeOK
<1> QED
  BY <1>1, <1>3, <1>4, RowStep

LEMMA KeptRow ==
    ASSUME ModInv, NEW a \in Attempts, attempt[a].pc # "none", Goto(a, "done"), UNCHANGED record,
           UNCHANGED <<tries, fences, release, installed, seen, delayed, reached, finished>>,
           holder' \in {holder, Released(a)}
    PROVE  ModInv'
<1> DEFINE row == [status |-> "failed", decided |-> FALSE]
<1>1. /\ row \in [status : RecordStatus, decided : BOOLEAN] /\ row.status = "failed" /\ ~row.decided
      /\ record' \in {record, [record EXCEPT ![attempt[a].pub] = row]}
  BY DEF RecordStatus, TerminalStatus
<1> HIDE DEF row
<1> QED
  BY <1>1, DoneKeeps

LEMMA SaveFailsKeeps ==
    ASSUME ModInv, NEW a \in Attempts, SaveFails(a)
    PROVE  ModInv'
<1>1. /\ attempt[a].pc # "none" /\ Goto(a, "done") /\ UNCHANGED record /\ holder' \in {holder, Released(a)}
      /\ UNCHANGED <<tries, fences, release, installed, seen, delayed, reached, finished>>
  BY DEF SaveFails, SavedStatus, installationVars, pc
<1> QED
  BY <1>1, KeptRow

LEMMA EndKeeps ==
    ASSUME ModInv, NEW a \in Attempts, End(a)
    PROVE  ModInv'
<1>1. /\ attempt[a].pc = "end" /\ Goto(a, "done") /\ holder' \in {holder, Released(a)}
      /\ UNCHANGED <<tries, fences, release, installed, seen, delayed, reached, finished>>
  BY DEF End, installationVars, pc
<1>2. /\ attempt[a] \in AttemptRows /\ attempt[a].pub \in Publications
      /\ Coherent(attempt[a]) /\ Backed(attempt[a]) /\ Cleaned(attempt[a])
  BY <1>1, AttemptAtWork
<1> DEFINE row == [status |-> EndStatus(a), decided |-> attempt[a].decided]
<1>3. /\ EndStatus(a) \in {"recovery_required", "succeeded", "recovered", "failed", "rolled_back"}
      /\ EndStatus(a) = "succeeded" => ~attempt[a].errs /\ attempt[a].decided
      /\ EndStatus(a) = "recovered" => ~attempt[a].errs /\ ~attempt[a].decided /\ attempt[a].recovery
  BY DEF EndStatus
<1>4. row \in [status : RecordStatus, decided : BOOLEAN]
  BY <1>2, <1>3 DEF AttemptRows, RecordStatus, TerminalStatus
<1>5. /\ row.status # "absent"
      /\ row.decided => reached[attempt[a].pub] = Installations
      /\ row.status = "succeeded" => finished[attempt[a].pub] = Installations
  BY <1>1, <1>2, <1>3 DEF Backed
<1>6. row.status = "recovered" =>
         /\ attempt[a].recovery /\ attempt[a].token # 0
         /\ \A i \in Installations : attempt[a].token <= seen[i] /\ release[i].pub # attempt[a].pub
  BY <1>1, <1>2, <1>3 DEF Cleaned, Coherent
<1>7. record' \in {record, [record EXCEPT ![attempt[a].pub] = row]}
  BY DEF End, WriteRow, pub
<1> HIDE DEF row
<1> QED
  BY <1>1, <1>4, <1>5, <1>6, <1>7, DoneKeeps

LEMMA DecideKeeps ==
    ASSUME ModInv, NEW a \in Attempts, Decide(a)
    PROVE  ModInv'
<1>1. /\ attempt[a].pc = "decide"
      /\ record' = [record EXCEPT ![attempt[a].pub] = [status |-> "committed", decided |-> TRUE]]
      /\ attempt' = [attempt EXCEPT ![a].pc = "completing", ![a].decided = TRUE]
      /\ UNCHANGED <<tries, fences, holder, release, installed, seen, delayed, reached, finished>>
  BY DEF Decide, installationVars, pc, pub
<1>2. /\ attempt[a] \in AttemptRows /\ attempt[a].pub \in Publications
      /\ Coherent(attempt[a]) /\ Backed(attempt[a])
  BY <1>1, AttemptAtWork
<1>3. PICK r \in AttemptRows :
         /\ attempt' = [attempt EXCEPT ![a] = r] /\ r.pc = "completing" /\ r.decided
         /\ r.pub = attempt[a].pub /\ r.token = attempt[a].token /\ r.recovery = attempt[a].recovery
         /\ r.status = attempt[a].status /\ r.flagged = attempt[a].flagged /\ r.errs = attempt[a].errs
  <2> DEFINE r == [attempt[a] EXCEPT !.pc = "completing", !.decided = TRUE]
  <2>1. attempt \in [Attempts -> AttemptRows]
    BY DEF ModInv, ModTypeOK, AttemptRows
  <2>2. r \in AttemptRows /\ attempt' = [attempt EXCEPT ![a] = r]
    BY <1>1, <2>1 DEF AttemptRows, Places
  <2>3. /\ r.pc = "completing" /\ r.decided
        /\ r.pub = attempt[a].pub /\ r.token = attempt[a].token /\ r.recovery = attempt[a].recovery
        /\ r.status = attempt[a].status /\ r.flagged = attempt[a].flagged /\ r.errs = attempt[a].errs
    BY <1>2 DEF AttemptRows
  <2> QED
    BY <2>2, <2>3
<1>4. Coherent(r) /\ Backed(r) /\ Cleaned(r)
  BY <1>1, <1>2, <1>3, ModNumbers DEF Coherent, Backed, Cleaned, Undecided
<1> DEFINE row == [status |-> "committed", decided |-> TRUE]
<1>5. /\ row \in [status : RecordStatus, decided : BOOLEAN] /\ row.status = "committed"
      /\ record' \in {record, [record EXCEPT ![attempt[a].pub] = row]}
  BY <1>1 DEF RecordStatus
<1> HIDE DEF row
<1>6. reached[attempt[a].pub] = Installations /\ holder' \in 0 .. LastAttempt
  BY <1>1, <1>2 DEF Backed, ModInv, ModTypeOK
<1> QED
  BY <1>1, <1>3, <1>4, <1>5, <1>6, RowStep

LEMMA SaveCompletingKeeps ==
    ASSUME ModInv, NEW a \in Attempts, SaveCompleting(a)
    PROVE  ModInv'
<1>1. /\ attempt[a].pc = "completing"
      /\ UNCHANGED <<tries, fences, release, installed, seen, delayed, reached, finished>>
  BY DEF SaveCompleting, installationVars, pc
<1>2. /\ attempt[a] \in AttemptRows /\ attempt[a].pub \in Publications
      /\ Coherent(attempt[a]) /\ Backed(attempt[a])
  BY <1>1, AttemptAtWork
<1>3. attempt[a].decided /\ reached[attempt[a].pub] = Installations
  BY <1>1, <1>2 DEF Coherent, Backed
<1>4. \A status \in {"completing", "recovery_required"} :
         [status |-> status, decided |-> attempt[a].decided] \in [status : RecordStatus, decided : BOOLEAN]
  BY <1>2 DEF AttemptRows, RecordStatus
<1>5. CASE WriteRow(a, "completing") /\ Goto(a, "complete") /\ UNCHANGED holder
  <2>1. PICK r \in AttemptRows :
           /\ attempt' = [attempt EXCEPT ![a] = r] /\ r.pc = "complete" /\ r.at = 1
           /\ r.pub = attempt[a].pub /\ r.token = attempt[a].token /\ r.recovery = attempt[a].recovery
           /\ r.status = attempt[a].status /\ r.decided = attempt[a].decided
           /\ r.flagged = attempt[a].flagged /\ r.errs = attempt[a].errs
    <3>1. "complete" \in Places
      BY DEF Places, TargetCalls
    <3> QED
      BY <1>5, <3>1, GotoFields
  <2>2. \A i \in Installations : ~(i < 1)
    BY ModAssumption DEF Installations
  <2>3. Coherent(r) /\ Backed(r) /\ Cleaned(r)
    BY <1>1, <1>2, <1>3, <2>1, <2>2, ModNumbers DEF Coherent, Backed, Cleaned, Undecided
  <2> DEFINE row == [status |-> "completing", decided |-> attempt[a].decided]
  <2>4. /\ row \in [status : RecordStatus, decided : BOOLEAN] /\ row.status = "completing"
        /\ record' \in {record, [record EXCEPT ![attempt[a].pub] = row]}
    BY <1>4, <1>5 DEF WriteRow, pub
  <2> HIDE DEF row
  <2>5. holder' \in 0 .. LastAttempt
    BY <1>5 DEF ModInv, ModTypeOK
  <2> QED
    BY <1>1, <1>3, <2>1, <2>3, <2>4, <2>5, RowStep
<1>6. CASE (WriteRow(a, "recovery_required") \/ UNCHANGED record) /\ Goto(a, "done") /\ holder' = Released(a)
  <2> DEFINE row == [status |-> "recovery_required", decided |-> attempt[a].decided]
  <2>1. /\ row \in [status : RecordStatus, decided : BOOLEAN] /\ row.status = "recovery_required"
        /\ record' \in {record, [record EXCEPT ![attempt[a].pub] = row]}
    BY <1>4, <1>6 DEF WriteRow, pub
  <2> HIDE DEF row
  <2> QED
    BY <1>1, <1>3, <1>6, <2>1, DoneKeeps
<1> QED
  BY <1>5, <1>6 DEF SaveCompleting

-----------------------------------------------------------------------------
(* Attempts that begin, and tokens *)

LEMMA TokenTaken ==
    ASSUME ModInv, NEW a \in Attempts, attempt[a].token = 0, NEW f,
           \A b \in Attempts : b # a => f[b].token = attempt[b].token, f[a].token # 0
    PROVE  /\ fences + 1 <= Cardinality({b \in Attempts : f[b].token # 0})
           /\ fences + 1 <= LastAttempt
<1> DEFINE S == {b \in Attempts : attempt[b].token # 0}
           T == {b \in Attempts : f[b].token # 0}
<1>1. IsFiniteSet(Attempts) /\ Cardinality(Attempts) = LastAttempt
  <2>1. LastAttempt \in Nat /\ Attempts = 1 .. LastAttempt
    BY ModAssumption DEF Attempts
  <2>2. \A m, n \in Int : IsFiniteSet(m .. n) /\ Cardinality(m .. n) = IF m > n THEN 0 ELSE n - m + 1
    BY FS_Interval
  <2> QED
    BY <2>1, <2>2, ModAssumption
<1>2. T = S \cup {a} /\ a \notin S
  OBVIOUS
<1>3. S \subseteq Attempts /\ T \subseteq Attempts
  OBVIOUS
<1> HIDE DEF S, T
<1>4. IsFiniteSet(S) /\ IsFiniteSet(T) /\ Cardinality(T) <= Cardinality(Attempts)
  BY <1>1, <1>3, FS_Subset
<1>5. Cardinality(T) = Cardinality(S) + 1
  BY <1>2, <1>4, FS_AddElement
<1>6. fences <= Cardinality(S) /\ fences \in Nat
  BY ModAssumption DEF ModInv, TokensInv, ModTypeOK, S
<1>7. Cardinality(S) \in Nat
  BY <1>4, FS_CardinalityType
<1> QED
  BY <1>1, <1>4, <1>5, <1>6, <1>7, ModAssumption DEF T

\* Attempt a, which had no token, becomes r: it begins, or it takes the leases.
LEMMA BeginStep ==
    ASSUME ModInv, NEW a \in Attempts, NEW r \in AttemptRows,
           attempt' = [attempt EXCEPT ![a] = r], attempt[a].token = 0,
           r.pub \in Publications, Coherent(r), Backed(r), Cleaned(r),
           r.token \in {0, fences + 1}, fences' = IF r.token = 0 THEN fences ELSE fences + 1,
           r.recovery \/ \A b \in Attempts : attempt[b].pub # r.pub,
           NEW row \in [status : RecordStatus, decided : BOOLEAN],
           record' = [record EXCEPT ![r.pub] = row],
           row.status # "absent", row.decided => reached[r.pub] = Installations,
           row.status = "succeeded" => finished[r.pub] = Installations,
           row.status # "recovered",
           tries' \in {tries, tries + 1}, tries' \in 0 .. LastAttempt, a <= tries',
           holder' \in 0 .. LastAttempt,
           UNCHANGED <<release, installed, seen, delayed, reached, finished>>
    PROVE  ModInv'
<1>1. /\ attempt \in [Attempts -> AttemptRows] /\ attempt' \in [Attempts -> AttemptRows]
      /\ \A b \in Attempts : attempt'[b] = IF b = a THEN r ELSE attempt[b]
  BY DEF ModInv, ModTypeOK, AttemptRows
<1>2. /\ record \in [Publications -> [status : RecordStatus, decided : BOOLEAN]]
      /\ record' \in [Publications -> [status : RecordStatus, decided : BOOLEAN]]
      /\ \A p \in Publications : record'[p] = IF p = r.pub THEN row ELSE record[p]
  BY DEF ModInv, ModTypeOK
<1>3. /\ fences \in 0 .. LastAttempt /\ tries \in 0 .. LastAttempt /\ r.token \in 0 .. LastAttempt
      /\ \A b \in Attempts : attempt[b].token \in 0 .. LastAttempt
      /\ \A b \in Attempts : attempt[b].token <= fences
  BY <1>1 DEF ModInv, ModTypeOK, TokensInv, AttemptRows
<1>4. fences' <= Cardinality({b \in Attempts : attempt'[b].token # 0}) /\ fences' \in 0 .. LastAttempt
  <2>1. CASE r.token = 0
    <3>1. {b \in Attempts : attempt'[b].token # 0} = {b \in Attempts : attempt[b].token # 0}
      BY <1>1, <2>1
    <3> QED
      BY <1>3, <2>1, <3>1 DEF ModInv, TokensInv
  <2>2. CASE r.token # 0
    <3>1. PICK f : f = attempt'
      OBVIOUS
    <3>2. /\ fences + 1 <= Cardinality({b \in Attempts : f[b].token # 0}) /\ fences + 1 <= LastAttempt
      BY <1>1, <2>2, <3>1, TokenTaken
    <3> QED
      BY <1>3, <2>2, <3>1, <3>2, ModAssumption
  <2> QED
    BY <2>1, <2>2
<1>5. ModTypeOK'
  BY <1>1, <1>2, <1>4 DEF ModInv, ModTypeOK, AttemptRows
<1>6. AttemptsInv'
  <2> SUFFICES ASSUME NEW b \in Attempts
               PROVE  Coherent(attempt'[b]) /\ Backed(attempt[b])' /\ Cleaned(attempt[b])'
    BY DEF AttemptsInv
  <2>1. PICK s \in AttemptRows : s = attempt'[b]
    BY <1>1
  <2>2. Coherent(s) /\ Backed(s) /\ Cleaned(s)
    BY <1>1, <2>1 DEF ModInv, AttemptsInv
  <2> QED
    BY <2>1, <2>2 DEF Backed, Cleaned
<1>7. TokensInv'
  <2>1. \A b \in Attempts : b > tries' => b > tries /\ b # a
    BY <1>3, ModAssumption DEF Attempts
  <2>2. \A b \in Attempts : b > tries' => attempt'[b] = NoAttempt
    BY <1>1, <2>1 DEF ModInv, TokensInv
  <2>3. \A b \in Attempts : attempt'[b].token <= fences'
    BY <1>1, <1>3, ModAssumption
  <2> QED
    BY <1>4, <2>2, <2>3 DEF TokensInv
<1>8. Overtaken'
  <2> SUFFICES ASSUME NEW b \in Attempts, NEW c \in Attempts,
                      ~attempt'[b].recovery, attempt'[c].recovery, attempt'[b].pub # 0,
                      attempt'[b].pub = attempt'[c].pub, attempt'[c].token # 0
               PROVE  attempt'[b].token < attempt'[c].token
    BY DEF Overtaken
  <2>1. CASE b = a
    BY <1>1, <2>1
  <2>2. CASE b # a /\ c = a
    BY <1>1, <1>3, <2>2, ModAssumption
  <2>3. CASE b # a /\ c # a
    BY <1>1, <2>3 DEF ModInv, Overtaken
  <2> QED
    BY <2>1, <2>2, <2>3
<1>9. DelayedInv'
  <2> SUFFICES ASSUME NEW c \in delayed, c.call \in {"prepare", "publish"}
               PROVE  \E b \in Attempts : ~attempt'[b].recovery /\ attempt'[b].pub = c.pub /\ attempt'[b].token = c.token
    BY DEF ModInv, DelayedInv
  <2>1. PICK b \in Attempts : ~attempt[b].recovery /\ attempt[b].pub = c.pub /\ attempt[b].token = c.token
    BY DEF ModInv, DelayedInv
  <2>2. c.token \in Attempts /\ c.token # 0
    BY ModNumbers DEF ModInv, ModTypeOK
  <2> QED
    BY <1>1, <2>1, <2>2
<1>10. RowsInv'
  <2> SUFFICES ASSUME NEW p \in Publications
               PROVE  /\ record'[p].status = "absent" => \A b \in Attempts : attempt'[b].pub # p
                      /\ record'[p].decided => reached'[p] = Installations
                      /\ record'[p].status = "recovered" =>
                            \A i \in Installations :
                                /\ release'[i].pub # p
                                /\ \A b \in Attempts : ~attempt'[b].recovery /\ attempt'[b].pub = p => attempt'[b].token < seen'[i]
    BY DEF RowsInv
  <2>1. CASE p = r.pub
    BY <1>2, <2>1
  <2>2. CASE p # r.pub
    BY <1>1, <1>2, <2>2 DEF ModInv, RowsInv
  <2> QED
    BY <2>1, <2>2
<1>11. SucceededWhole' /\ PublishedBeforeCommit'
  BY <1>2 DEF ModInv, SucceededWhole, PublishedBeforeCommit
<1> QED
  BY <1>5, <1>6, <1>7, <1>8, <1>9, <1>10, <1>11 DEF ModInv

LEMMA StartKeeps ==
    ASSUME ModInv, NEW p \in Publications, Start(p)
    PROVE  ModInv'
<1>1. /\ record[p].status = "absent" /\ tries < LastAttempt /\ tries' = tries + 1 /\ fences' = fences + 1
      /\ holder' = tries + 1 /\ record' = [record EXCEPT ![p].status = "preparing"]
      /\ attempt' = [attempt EXCEPT ![tries + 1] =
            [NoAttempt EXCEPT !.pub = p, !.pc = "prepare", !.token = fences + 1]]
      /\ UNCHANGED <<release, installed, seen, delayed, reached, finished>>
  BY DEF Start, installationVars
<1>2. tries \in 0 .. LastAttempt /\ fences \in 0 .. LastAttempt
  BY DEF ModInv, ModTypeOK
<1>3. PICK a \in Attempts : a = tries + 1
  BY <1>1, <1>2, ModAssumption DEF Attempts
<1>4. attempt[a] = NoAttempt /\ attempt[a].token = 0
  BY <1>2, <1>3, ModAssumption DEF ModInv, TokensInv, NoAttempt
<1>5. fences + 1 <= LastAttempt
  <2> DEFINE f == [b \in Attempts |-> IF b = a THEN [token |-> 1] ELSE attempt[b]]
  <2>1. f[a].token # 0 /\ \A b \in Attempts : b # a => f[b].token = attempt[b].token
    OBVIOUS
  <2> HIDE DEF f
  <2> QED
    BY <1>4, <2>1, TokenTaken
<1>6. PICK r \in AttemptRows :
         /\ attempt' = [attempt EXCEPT ![a] = r] /\ r.pub = p /\ r.pc = "prepare" /\ r.token = fences + 1
         /\ r.status = "absent" /\ ~r.decided /\ ~r.errs /\ ~r.recovery
  <2> DEFINE r == [NoAttempt EXCEPT !.pub = p, !.pc = "prepare", !.token = fences + 1]
  <2>1. p \in 0 .. LastModPublication /\ fences + 1 \in 0 .. LastAttempt /\ 1 \in Installations
    BY <1>2, <1>5, ModNumbers, ModAssumption DEF Publications
  <2>2. r \in AttemptRows
    BY <2>1 DEF NoAttempt, AttemptRows, Places, TargetCalls, RecordStatus
  <2>3. /\ r.pub = p /\ r.pc = "prepare" /\ r.token = fences + 1
        /\ r.status = "absent" /\ ~r.decided /\ ~r.errs /\ ~r.recovery
    BY DEF NoAttempt
  <2> QED
    BY <1>1, <1>3, <2>2, <2>3
<1>7. Coherent(r) /\ Backed(r) /\ Cleaned(r) /\ r.token # 0
  BY <1>2, <1>6, ModNumbers, ModAssumption DEF Coherent, Backed, Cleaned, TerminalStatus, Undecided
<1>8. PICK row \in [status : RecordStatus, decided : BOOLEAN] :
         record' = [record EXCEPT ![p] = row] /\ row.status = "preparing" /\ row.decided = record[p].decided
  <2> DEFINE row == [record[p] EXCEPT !.status = "preparing"]
  <2>1. record \in [Publications -> [status : RecordStatus, decided : BOOLEAN]]
    BY DEF ModInv, ModTypeOK
  <2>2. row \in [status : RecordStatus, decided : BOOLEAN] /\ row.status = "preparing" /\ row.decided = record[p].decided
    BY <2>1 DEF RecordStatus
  <2>3. record' = [record EXCEPT ![p] = row]
    BY <1>1, <2>1
  <2> QED
    BY <2>2, <2>3
<1>9. row.decided => reached[p] = Installations
  BY <1>8 DEF ModInv, RowsInv
<1>10. \A b \in Attempts : attempt[b].pub # p
  BY <1>1 DEF ModInv, RowsInv
<1>11. tries' \in 0 .. LastAttempt /\ a <= tries' /\ holder' \in 0 .. LastAttempt
  BY <1>1, <1>2, <1>3, ModAssumption
<1> QED
  BY <1>1, <1>4, <1>6, <1>7, <1>8, <1>9, <1>10, <1>11, BeginStep

LEMMA RecoverReadKeeps ==
    ASSUME ModInv, NEW p \in Publications, RecoverRead(p)
    PROVE  ModInv'
<1>1. /\ record[p].status \notin TerminalStatus \cup {"absent"} /\ tries < LastAttempt /\ tries' = tries + 1
      /\ attempt' = [attempt EXCEPT ![tries + 1] =
            [NoAttempt EXCEPT !.pub = p, !.pc = "acquire",
                              !.status = record[p].status, !.decided = record[p].decided,
                              !.flagged = Installations, !.recovery = TRUE]]
      /\ UNCHANGED <<record, fences, holder, release, installed, seen, delayed, reached, finished>>
  BY DEF RecoverRead, installationVars
<1>2. /\ tries \in 0 .. LastAttempt /\ fences \in 0 .. LastAttempt /\ holder \in 0 .. LastAttempt
      /\ record \in [Publications -> [status : RecordStatus, decided : BOOLEAN]]
  BY DEF ModInv, ModTypeOK
<1>3. PICK a \in Attempts : a = tries + 1
  BY <1>1, <1>2, ModAssumption DEF Attempts
<1>4. attempt[a] = NoAttempt /\ attempt[a].token = 0
  BY <1>2, <1>3, ModAssumption DEF ModInv, TokensInv, NoAttempt
<1>5. PICK row \in [status : RecordStatus, decided : BOOLEAN] : row = record[p]
  BY <1>2
<1>6. PICK r \in AttemptRows :
         /\ attempt' = [attempt EXCEPT ![a] = r] /\ r.pub = p /\ r.pc = "acquire" /\ r.token = 0
         /\ r.status = row.status /\ r.decided = row.decided /\ ~r.errs /\ r.recovery
         /\ r.flagged = Installations
  <2> DEFINE r == [NoAttempt EXCEPT !.pub = p, !.pc = "acquire",
                              !.status = row.status, !.decided = row.decided,
                              !.flagged = Installations, !.recovery = TRUE]
  <2>1. p \in 0 .. LastModPublication /\ 0 \in 0 .. LastAttempt /\ 1 \in Installations
    BY ModNumbers, ModAssumption DEF Publications
  <2>2. r \in AttemptRows
    BY <2>1 DEF NoAttempt, AttemptRows, Places
  <2>3. /\ r.pub = p /\ r.pc = "acquire" /\ r.token = 0
        /\ r.status = row.status /\ r.decided = row.decided /\ ~r.errs /\ r.recovery
        /\ r.flagged = Installations
    BY DEF NoAttempt
  <2>4. attempt' = [attempt EXCEPT ![a] = r]
    BY <1>1, <1>3, <1>5
  <2> QED
    BY <2>2, <2>3, <2>4
<1>7. row.decided => reached[p] = Installations
  BY <1>5 DEF ModInv, RowsInv
<1>8. Coherent(r) /\ Backed(r) /\ Cleaned(r)
  BY <1>1, <1>5, <1>6, <1>7, ModNumbers DEF Coherent, Backed, Cleaned, Undecided
<1>9. record' = [record EXCEPT ![p] = row]
  BY <1>1, <1>2, <1>5
<1>10. row.status # "absent" /\ row.status # "recovered" /\ row.status # "succeeded"
  BY <1>1, <1>5 DEF TerminalStatus
<1>11. tries' \in 0 .. LastAttempt /\ a <= tries' /\ holder' \in 0 .. LastAttempt
  BY <1>1, <1>2, <1>3, ModAssumption
<1> QED
  BY <1>1, <1>4, <1>6, <1>7, <1>8, <1>9, <1>10, <1>11, BeginStep

LEMMA RecoverAcquireKeeps ==
    ASSUME ModInv, NEW a \in Attempts, RecoverAcquire(a)
    PROVE  ModInv'
<1>1. /\ attempt[a].pc = "acquire"
      /\ UNCHANGED <<tries, release, installed, seen, delayed, reached, finished>>
  BY DEF RecoverAcquire, installationVars, pc
<1>2. /\ attempt[a] \in AttemptRows /\ attempt[a].pub \in Publications
      /\ Coherent(attempt[a]) /\ Backed(attempt[a])
  BY <1>1, AttemptAtWork
<1>3. /\ attempt[a].token = 0 /\ attempt[a].recovery /\ attempt[a].flagged = Installations
      /\ attempt[a].status \notin TerminalStatus \cup {"absent"}
      /\ attempt[a].decided => reached[attempt[a].pub] = Installations
  BY <1>1, <1>2 DEF Coherent, Backed
<1>4. CASE /\ fences' = fences + 1 /\ holder' = a
           /\ record' = [record EXCEPT ![attempt[a].pub] =
                 [status |-> attempt[a].status, decided |-> attempt[a].decided]]
           /\ attempt' = [attempt EXCEPT
                 ![a].token = fences + 1,
                 ![a].pc = IF attempt[a].decided THEN "completing" ELSE "rollback",
                 ![a].at = IF attempt[a].decided THEN 1 ELSE LastInstallation]
  <2>1. /\ tries \in 0 .. LastAttempt /\ fences \in 0 .. LastAttempt
        /\ attempt \in [Attempts -> AttemptRows]
    BY DEF ModInv, ModTypeOK, AttemptRows
  <2>2. fences + 1 <= LastAttempt
    <3> DEFINE f == [b \in Attempts |-> IF b = a THEN [token |-> 1] ELSE attempt[b]]
    <3>1. f[a].token # 0 /\ \A b \in Attempts : b # a => f[b].token = attempt[b].token
      OBVIOUS
    <3> HIDE DEF f
    <3> QED
      BY <1>3, <3>1, TokenTaken
  <2>3. PICK r \in AttemptRows :
           /\ attempt' = [attempt EXCEPT ![a] = r] /\ r.pub = attempt[a].pub /\ r.token = fences + 1
           /\ r.pc = (IF attempt[a].decided THEN "completing" ELSE "rollback")
           /\ r.at = (IF attempt[a].decided THEN 1 ELSE LastInstallation)
           /\ r.status = attempt[a].status /\ r.decided = attempt[a].decided /\ r.errs = attempt[a].errs
           /\ r.recovery = attempt[a].recovery /\ r.flagged = attempt[a].flagged
    <3> DEFINE r == [attempt[a] EXCEPT !.token = fences + 1,
                        !.pc = IF attempt[a].decided THEN "completing" ELSE "rollback",
                        !.at = IF attempt[a].decided THEN 1 ELSE LastInstallation]
    <3>1. fences + 1 \in 0 .. LastAttempt
      BY <2>1, <2>2, ModAssumption
    <3>2. r \in AttemptRows
      BY <1>2, <3>1, ModNumbers DEF AttemptRows, Places, TargetCalls
    <3>3. attempt' = [attempt EXCEPT ![a] = r]
      BY <1>4, <2>1 DEF AttemptRows
    <3>4. /\ r.pub = attempt[a].pub /\ r.token = fences + 1
          /\ r.pc = (IF attempt[a].decided THEN "completing" ELSE "rollback")
          /\ r.at = (IF attempt[a].decided THEN 1 ELSE LastInstallation)
          /\ r.status = attempt[a].status /\ r.decided = attempt[a].decided /\ r.errs = attempt[a].errs
          /\ r.recovery = attempt[a].recovery /\ r.flagged = attempt[a].flagged
      BY <1>2 DEF AttemptRows
    <3> QED
      BY <3>2, <3>3, <3>4
  <2>4. r.token # 0
    BY <2>1, <2>3, ModAssumption
  <2>5. \A i \in Installations : ~(LastInstallation < i)
    BY ModAssumption DEF Installations
  <2>6. Coherent(r)
    BY <1>2, <1>3, <2>3, <2>4, ModNumbers DEF Coherent, Undecided
  <2>7. Backed(r)
    BY <1>3, <2>3 DEF Backed
  <2>8. Cleaned(r)
    BY <2>3, <2>5 DEF Cleaned
  <2>9. PICK row \in [status : RecordStatus, decided : BOOLEAN] :
           /\ record' = [record EXCEPT ![r.pub] = row]
           /\ row.status = attempt[a].status /\ row.decided = attempt[a].decided
    <3> DEFINE row == [status |-> attempt[a].status, decided |-> attempt[a].decided]
    <3>1. row \in [status : RecordStatus, decided : BOOLEAN]
      BY <1>2 DEF AttemptRows
    <3>2. record' = [record EXCEPT ![r.pub] = row]
      BY <1>4, <2>3
    <3> QED
      BY <3>1, <3>2
  <2>10. row.status # "absent" /\ row.status # "recovered" /\ row.status # "succeeded"
    BY <1>3, <2>9 DEF TerminalStatus
  <2>11. tries' \in 0 .. LastAttempt /\ a <= tries' /\ holder' \in 0 .. LastAttempt
    <3>1. a <= tries
      BY <1>1, <2>1, ModAssumption DEF ModInv, TokensInv, NoAttempt, Attempts
    <3> QED
      BY <1>1, <1>4, <2>1, <3>1, ModAssumption DEF Attempts
  <2>12. /\ r.token \in {0, fences + 1} /\ fences' = IF r.token = 0 THEN fences ELSE fences + 1
         /\ row.decided => reached[r.pub] = Installations
         /\ r.pub \in Publications /\ r.recovery
    BY <1>2, <1>3, <1>4, <2>3, <2>4, <2>9
  <2> QED
    BY <1>1, <1>3, <2>3, <2>6, <2>7, <2>8, <2>9, <2>10, <2>11, <2>12, BeginStep
<1>5. CASE Goto(a, "done") /\ UNCHANGED <<record, fences, holder>>
  BY <1>1, <1>5, KeptRow
<1> QED
  BY <1>4, <1>5 DEF RecoverAcquire, pub

-----------------------------------------------------------------------------
(* Steps of no attempt *)

\* The installations move and the attempts stay.
LEMMA AttemptsStay ==
    ASSUME ModInv, Moves, UNCHANGED attempt
    PROVE  AttemptsInv'
<1> SUFFICES ASSUME NEW b \in Attempts
             PROVE  Coherent(attempt'[b]) /\ Backed(attempt[b])' /\ Cleaned(attempt[b])'
  BY DEF AttemptsInv
<1>1. PICK s : s = attempt[b]
  OBVIOUS
<1>2. Coherent(s) /\ Backed(s)' /\ Cleaned(s)'
  BY <1>1, AttemptStays
<1> QED
  BY <1>1, <1>2 DEF Backed, Cleaned

LEMMA OthersStep ==
    ASSUME ModInv, Moves, UNCHANGED <<record, attempt, tries, fences>>, holder' \in 0 .. LastAttempt,
           delayed' \subseteq delayed
    PROVE  ModInv'
<1>1. /\ attempt' \in [Attempts -> AttemptRows]
      /\ record' \in [Publications -> [status : RecordStatus, decided : BOOLEAN]]
  BY DEF ModInv, ModTypeOK, AttemptRows
<1>2. AttemptsInv'
  BY AttemptsStay
<1> QED
  BY <1>1, <1>2, AttemptsStep

LEMMA ArriveKeeps ==
    ASSUME ModInv, NEW c \in delayed, Arrive(c)
    PROVE  ModInv'
<1>1. /\ delayed' = delayed \ {c} /\ UNCHANGED <<record, attempt, tries, fences, holder>>
      /\ Perform(c.call, c.pub, c.token, c.at) \/ UNCHANGED <<release, installed, seen, reached, finished>>
  BY DEF Arrive
<1>2. c.call \in TargetCalls /\ c.pub \in Publications /\ c.token \in 1 .. LastAttempt /\ c.at \in Installations
  BY DEF ModInv, ModTypeOK, Attempts
<1>3. Moves
  <2>1. CASE Perform(c.call, c.pub, c.token, c.at)
    <3>1. /\ c.call = "complete" => reached[c.pub] = Installations
          /\ c.call \in {"prepare", "publish"} =>
                \E a \in Attempts : ~attempt[a].recovery /\ attempt[a].pub = c.pub /\ attempt[a].token = c.token
      BY DEF ModInv, DelayedInv
    <3> QED
      BY <1>2, <2>1, <3>1, PerformMoves
  <2>2. CASE UNCHANGED <<release, installed, seen, reached, finished>>
    BY <2>2, StillMoves
  <2> QED
    BY <1>1, <2>1, <2>2
<1>4. holder' \in 0 .. LastAttempt
  BY <1>1 DEF ModInv, ModTypeOK
<1> QED
  BY <1>1, <1>3, <1>4, OthersStep

LEMMA RebootKeeps ==
    ASSUME ModInv, NEW i \in Installations, Reboot(i)
    PROVE  ModInv'
<1>1. UNCHANGED <<record, attempt, tries, fences, delayed>> /\ holder' \in 0 .. LastAttempt
  BY DEF Reboot, ModInv, ModTypeOK
<1> QED
  BY <1>1, RebootMoves, OthersStep

LEMMA LapseKeeps ==
    ASSUME ModInv, Lapse
    PROVE  ModInv'
<1>1. /\ UNCHANGED <<record, attempt, tries, fences, delayed>> /\ holder' \in 0 .. LastAttempt
      /\ UNCHANGED <<release, installed, seen, reached, finished>>
  BY ModAssumption DEF Lapse, installationVars
<1> QED
  BY <1>1, StillMoves, OthersStep

LEMMA StartFailsKeeps ==
    ASSUME ModInv, NEW p \in Publications, StartFails(p)
    PROVE  ModInv'
<1>1. /\ UNCHANGED <<attempt, tries, fences, delayed>> /\ holder' \in 0 .. LastAttempt
      /\ UNCHANGED <<release, installed, seen, reached, finished>>
  BY DEF StartFails, installationVars, ModInv, ModTypeOK
<1>2. PICK status \in {"failed", "previewed"} : record' = [record EXCEPT ![p].status = status]
  BY DEF StartFails
<1>3. record \in [Publications -> [status : RecordStatus, decided : BOOLEAN]] /\ attempt' \in [Attempts -> AttemptRows]
  BY <1>1 DEF ModInv, ModTypeOK, AttemptRows
<1>4. /\ record' \in [Publications -> [status : RecordStatus, decided : BOOLEAN]]
      /\ \A q \in Publications : q # p => record'[q] = record[q]
      /\ record'[p].status = status /\ record'[p].decided = record[p].decided
  BY <1>2, <1>3 DEF RecordStatus, TerminalStatus
<1>5. record'[p].decided => reached'[p] = Installations
  BY <1>1, <1>4 DEF ModInv, RowsInv
<1>6. Moves
  BY <1>1, StillMoves
<1>7. AttemptsInv'
  BY <1>1, <1>6, AttemptsStay
<1>8. \A q \in Publications :
         \/ record'[q] = record[q]
         \/ /\ record'[q].status # "absent"
            /\ record'[q].decided => reached'[q] = Installations
            /\ record'[q].status \notin {"succeeded", "recovered"}
  BY <1>4, <1>5
<1> QED
  BY <1>1, <1>3, <1>4, <1>6, <1>7, <1>8, AttemptsStep

LEMMA DieKeeps ==
    ASSUME ModInv, Die
    PROVE  ModInv'
<1>1. /\ attempt' = [a \in Attempts |-> IF attempt[a].pc = "none" THEN attempt[a] ELSE [attempt[a] EXCEPT !.pc = "done"]]
      /\ UNCHANGED <<record, tries, fences, delayed, release, installed, seen, reached, finished>>
      /\ holder' \in 0 .. LastAttempt
  BY DEF Die, installationVars, ModInv, ModTypeOK, pc
<1>2. Moves
  BY <1>1, StillMoves
<1>3. /\ attempt \in [Attempts -> AttemptRows]
      /\ record' \in [Publications -> [status : RecordStatus, decided : BOOLEAN]]
  BY <1>1 DEF ModInv, ModTypeOK, AttemptRows
<1>4. ASSUME NEW b \in Attempts
      PROVE  /\ attempt'[b] \in AttemptRows
             /\ attempt'[b].pub = attempt[b].pub /\ attempt'[b].token = attempt[b].token
             /\ attempt'[b].recovery = attempt[b].recovery
             /\ b > tries => attempt'[b] = attempt[b]
             /\ Coherent(attempt'[b]) /\ Backed(attempt[b])' /\ Cleaned(attempt[b])'
  <2>1. CASE attempt[b].pc = "none"
    <3>1. attempt'[b] = attempt[b]
      BY <1>1, <2>1
    <3>2. Coherent(attempt[b]) /\ Backed(attempt[b]) /\ Cleaned(attempt[b])
      BY DEF ModInv, AttemptsInv
    <3>3. Backed(attempt[b])' /\ Cleaned(attempt[b])'
      BY <1>1, <3>1, <3>2 DEF Backed, Cleaned
    <3> QED
      BY <1>3, <3>1, <3>2, <3>3
  <2>2. CASE attempt[b].pc # "none"
    <3>1. /\ attempt[b] \in AttemptRows /\ attempt[b].pub \in Publications
          /\ Coherent(attempt[b]) /\ Backed(attempt[b])
      BY <2>2, AttemptAtWork
    <3>2. PICK s \in AttemptRows :
             /\ s = attempt'[b] /\ s.pc = "done"
             /\ s.pub = attempt[b].pub /\ s.token = attempt[b].token /\ s.recovery = attempt[b].recovery
             /\ s.status = attempt[b].status /\ s.flagged = attempt[b].flagged /\ s.decided = attempt[b].decided
      <4> DEFINE s == [attempt[b] EXCEPT !.pc = "done"]
      <4>1. s = attempt'[b]
        BY <1>1, <2>2
      <4>2. s \in AttemptRows
        BY <3>1 DEF AttemptRows, Places
      <4>3. /\ s.pc = "done"
            /\ s.pub = attempt[b].pub /\ s.token = attempt[b].token /\ s.recovery = attempt[b].recovery
            /\ s.status = attempt[b].status /\ s.flagged = attempt[b].flagged /\ s.decided = attempt[b].decided
        BY <3>1 DEF AttemptRows
      <4> QED
        BY <4>1, <4>2, <4>3
    <3>3. Coherent(s) /\ Backed(s) /\ Cleaned(s)
      BY <3>1, <3>2, ModNumbers DEF Coherent, Backed, Cleaned, Undecided
    <3>4. Backed(attempt[b])' /\ Cleaned(attempt[b])'
      BY <1>1, <3>2, <3>3 DEF Backed, Cleaned
    <3>5. ~(b > tries)
      BY <2>2 DEF ModInv, TokensInv, NoAttempt
    <3> QED
      BY <3>2, <3>3, <3>4, <3>5
  <2> QED
    BY <2>1, <2>2
<1>5. attempt' \in [Attempts -> AttemptRows]
  BY <1>1, <1>4
<1>6. AttemptsInv'
  BY <1>4 DEF AttemptsInv
<1> QED
  BY <1>1, <1>2, <1>3, <1>4, <1>5, <1>6, AttemptsStep

LEMMA ModStays ==
    ASSUME ModInv, UNCHANGED modVars
    PROVE  ModInv'
<1>1. /\ UNCHANGED <<record, attempt, tries, fences, delayed, release, installed, seen, reached, finished>>
      /\ holder' \in 0 .. LastAttempt
  BY DEF modVars, ModInv, ModTypeOK
<1> QED
  BY <1>1, StillMoves, OthersStep

LEMMA ModInitially ==
    ASSUME ModInit
    PROVE  ModInv
<1>1. NoAttempt \in AttemptRows /\ Closed \in JournalRows
  BY ModNumbers, ModAssumption DEF NoAttempt, AttemptRows, Places, RecordStatus, Closed, JournalRows
<1>2. /\ NoAttempt.pub = 0 /\ NoAttempt.pc = "none" /\ NoAttempt.token = 0 /\ NoAttempt.status = "absent"
      /\ ~NoAttempt.decided /\ ~NoAttempt.errs /\ ~NoAttempt.recovery
  BY DEF NoAttempt
<1>3. ModTypeOK
  BY <1>1, ModAssumption DEF ModInit, ModTypeOK, AttemptRows, JournalRows, RecordStatus
<1>4. \A a \in Attempts : attempt[a] = NoAttempt
  BY DEF ModInit
<1>5. AttemptsInv
  BY <1>2, <1>4 DEF AttemptsInv, Coherent, Backed, Cleaned, Undecided, TerminalStatus
<1>6. TokensInv
  <2>1. {a \in Attempts : attempt[a].token # 0} = {}
    BY <1>2, <1>4
  <2>2. Cardinality({a \in Attempts : attempt[a].token # 0}) = 0
    BY <2>1, FS_EmptySet
  <2> QED
    BY <1>2, <1>4, <2>2 DEF TokensInv, ModInit
<1>7. Overtaken
  BY <1>2, <1>4 DEF Overtaken
<1>8. DelayedInv
  BY DEF DelayedInv, ModInit
<1>9. \A p \in Publications : record[p].status = "absent" /\ ~record[p].decided
  BY DEF ModInit
<1>10. RowsInv
  BY <1>2, <1>4, <1>9, ModNumbers DEF RowsInv
<1>11. SucceededWhole /\ PublishedBeforeCommit
  BY <1>9 DEF ModInit, SucceededWhole, PublishedBeforeCommit
<1> QED
  BY <1>3, <1>5, <1>6, <1>7, <1>8, <1>10, <1>11 DEF ModInv

LEMMA ModStep ==
    ASSUME ModInv, [ModNext]_modVars
    PROVE  ModInv'
<1>1. CASE UNCHANGED modVars
  BY <1>1, ModStays
<1>2. CASE \E p \in Publications : Start(p) \/ StartFails(p) \/ RecoverRead(p)
  BY <1>2, StartKeeps, StartFailsKeeps, RecoverReadKeeps
<1>3. ASSUME NEW a \in Attempts,
             \/ RecoverAcquire(a)
             \/ CallTarget(a) \/ Refused(a) \/ Fails(a) \/ CacheFails(a) \/ SkipUndo(a)
             \/ Save(a) \/ SaveFails(a) \/ Decide(a) \/ DecideFails(a)
             \/ SaveCompleting(a) \/ End(a)
      PROVE  ModInv'
  BY <1>3, RecoverAcquireKeeps, CallTargetKeeps, RefusedKeeps, FailsKeeps, CacheFailsKeeps, SkipUndoKeeps,
     SaveKeeps, SaveFailsKeeps, DecideKeeps, DecideFailsKeeps, SaveCompletingKeeps, EndKeeps
<1>4. CASE \E c \in delayed : Arrive(c)
  BY <1>4, ArriveKeeps
<1>5. CASE \E i \in Installations : Reboot(i)
  BY <1>5, RebootKeeps
<1>6. CASE Lapse \/ Die
  BY <1>6, LapseKeeps, DieKeeps
<1> QED
  BY <1>1, <1>2, <1>3, <1>4, <1>5, <1>6 DEF ModNext

\* The invariant of the publication of mods: what attempts, rows, delayed calls and
\* installations know of each other, whatever fails, is late, lapses or dies.
THEOREM ModInvariant == ModSpec => []ModInv
<1>1. ModInit => ModInv
  BY ModInitially
<1>2. ModInv /\ [ModNext]_modVars => ModInv'
  BY ModStep
<1> QED
  BY <1>1, <1>2, PTL DEF ModSpec

\* Rows, attempts, journals and calls keep their types: in particular the fencing
\* token, taken with the leases, never outgrows the number of attempts.
THEOREM ModTypesHold == ModSpec => []ModTypeOK
<1>1. ModInv => ModTypeOK
  BY DEF ModInv
<1> QED
  BY <1>1, ModInvariant, PTL

\* The commit decision binds every installation (Commit and completeCommitted in
\* internal/modpublication): a publication recorded as succeeded was committed by
\* all of them, and none commits before all have published.
THEOREM DecisionIsObeyed == ModSpec => []DecisionObeyed
<1>1. ModInv => DecisionObeyed
  BY DEF ModInv, DecisionObeyed
<1> QED
  BY <1>1, ModInvariant, PTL

\* A recovery without a decision leaves no installation with the publication open,
\* and a late call of the attempt before it does not open it again: its token is
\* lower than the one the installations have met.
THEOREM RecoveryIsClean == ModSpec => []RecoveredClean
<1>1. ModInv => RecoveredClean
  BY DEF ModInv, RowsInv, RecoveredClean
<1> QED
  BY <1>1, ModInvariant, PTL

=============================================================================
