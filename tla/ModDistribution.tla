--------------------------- MODULE ModDistribution ---------------------------
(***************************************************************************)
(* One installation's mod releases (internal/moddistribution): a release   *)
(* replaces several targets of the installation (mod directories, the      *)
(* Workshop manifest, the setup file, each world's modoverrides.lua) and a *)
(* journal on disk makes the replacement all-or-nothing across crashes.    *)
(* Every handler runs under the manager's mutex, so at most one is at work;*)
(* a crash may fall between any two of its writes, and the targets may be  *)
(* edited by the user or by Steam at any time.                             *)
(*                                                                         *)
(* A content is the number of the release that brought it, Absent, Base    *)
(* for what was there before the first release, or Edited.                 *)
(***************************************************************************)
EXTENDS Integers, FiniteSets

CONSTANTS
    LastRelease,  \* releases are 1 .. LastRelease, in no particular order
    LastTarget,   \* targets are 1 .. LastTarget, in the order of the plan
    ModTargets,   \* the targets that are mod directories
    Wants,        \* Wants[r][t]: the content release r wants at target t
    FirstDisk,    \* what the targets hold before any release
    MaxCrashes,   \* bound: the process dies at most this often
    MaxEdits,     \* bound: the targets are edited at most this often
    MaxErrors     \* bound: this many writes fail

Releases == 1 .. LastRelease
Targets == 1 .. LastTarget
Absent == 0
Base == LastRelease + 1
Edited == LastRelease + 2
Contents == Absent .. Edited

ASSUME DistributionAssumption ==
    /\ LastRelease \in Nat \ {0}
    /\ LastTarget \in Nat \ {0}
    /\ ModTargets \subseteq Targets
    /\ Wants \in [Releases -> [Targets -> Releases]]
    /\ FirstDisk \in [Targets -> {Absent, Base}]
    /\ MaxCrashes \in Nat
    /\ MaxEdits \in Nat
    /\ MaxErrors \in Nat

VARIABLES
    disk,       \* disk[t]: the content at target t
    staged,     \* staged[r][t]: the stage file of release r, or Absent
    saved,      \* saved[r][t]: the backup of release r, or Absent
    journal,    \* journal[r]: the journal of release r, or NoJournal
    last,       \* installations.json: the release committed last, 0 for none
    work,       \* the handler that holds the mutex
    unrecovered,\* the process came up and has not run Recover yet
    asked,      \* the releases whose Complete was called
    crashes,
    edits,
    errors

distVars == <<disk, staged, saved, journal, last, work, unrecovered, asked, crashes, edits, errors>>

Phases == {"preparing", "prepared", "publishing", "published", "completing", "committed", "rolling_back"}

\* A journal names the mutations of its release (the targets it changes), what
\* each of them held, and the ones already published (NextMutation).
Journals == [phase : Phases, muts : SUBSET Targets, orig : [Targets -> Contents], done : SUBSET Targets]

NoJournal == [phase |-> "none"]

Steps == {"idle", "stage", "publish", "place", "record",
          "verify", "state", "commit", "clean", "undo", "restore"}

\* failed: a rollback that met a target it must keep.
Idle == [step |-> "idle", rel |-> 0, rest |-> {}, failed |-> FALSE]

At(step, r, rest) == [step |-> step, rel |-> r, rest |-> rest, failed |-> FALSE]

Least(S) == CHOOSE t \in S : \A u \in S : t <= u
Greatest(S) == CHOOSE t \in S : \A u \in S : u <= t

DistInit ==
    /\ disk = FirstDisk
    /\ staged = [r \in Releases |-> [t \in Targets |-> Absent]]
    /\ saved = [r \in Releases |-> [t \in Targets |-> Absent]]
    /\ journal = [r \in Releases |-> NoJournal]
    /\ last = 0
    /\ work = Idle
    /\ unrecovered = TRUE
    /\ asked = {}
    /\ crashes = 0
    /\ edits = 0
    /\ errors = 0

-----------------------------------------------------------------------------
(* What the journal says *)

Open(r) == journal[r] # NoJournal

\* readJournal refuses a journal without mutations.
Readable(r) == Open(r) /\ journal[r].muts # {}

\* buildMutations: a target that already holds the wanted content needs no
\* mutation; a mod directory that exists is believed to hold what
\* installations.json recorded for it.
Recorded(r, t) == t \in ModTargets /\ disk[t] # Absent /\ last # 0 /\ Wants[last][t] = Wants[r][t]

Mutations(r) == {t \in Targets : ~ Recorded(r, t) /\ disk[t] # Wants[r][t]}

SetPhase(r, phase) == journal' = [journal EXCEPT ![r].phase = phase]

-----------------------------------------------------------------------------
(* Prepare *)

\* Prepare refuses while the journal of another release exists, and answers
\* without a change when its own does. The id of a release is never used for
\* another one.
Prepare(r) ==
    /\ work = Idle
    /\ r \notin asked
    /\ \A s \in Releases : ~ Open(s)
    /\ journal' = [journal EXCEPT ![r] =
            [phase |-> "preparing", muts |-> Mutations(r), orig |-> disk, done |-> {}]]
    /\ work' = At("stage", r, Mutations(r))
    /\ UNCHANGED <<disk, staged, saved, last, unrecovered, asked, crashes, edits, errors>>

Stage ==
    /\ work.step = "stage" /\ work.rest # {}
    /\ LET t == Least(work.rest) IN
        /\ staged' = [staged EXCEPT ![work.rel][t] = Wants[work.rel][t]]
        /\ work' = [work EXCEPT !.rest = @ \ {t}]
    /\ UNCHANGED <<disk, saved, journal, last, unrecovered, asked, crashes, edits, errors>>

Prepared ==
    /\ work.step = "stage" /\ work.rest = {}
    /\ SetPhase(work.rel, "prepared")
    /\ work' = Idle
    /\ UNCHANGED <<disk, staged, saved, last, unrecovered, asked, crashes, edits, errors>>

\* A failed stage or journal write rolls the release back at once.
PrepareFails ==
    /\ work.step = "stage"
    /\ errors < MaxErrors
    /\ errors' = errors + 1
    /\ SetPhase(work.rel, "rolling_back")
    /\ work' = At("undo", work.rel, journal[work.rel].muts)
    /\ UNCHANGED <<disk, staged, saved, last, unrecovered, asked, crashes, edits>>

-----------------------------------------------------------------------------
(* Publish *)

\* A publish that was cut short is taken up where its journal says.
Publish(r) ==
    /\ work = Idle
    /\ Readable(r) /\ journal[r].phase \in {"prepared", "publishing"}
    /\ SetPhase(r, "publishing")
    /\ work' = At("publish", r, journal[r].muts \ journal[r].done)
    /\ UNCHANGED <<disk, staged, saved, last, unrecovered, asked, crashes, edits, errors>>

Publishing(t) == work.step = "publish" /\ work.rest # {} /\ t = Least(work.rest)

HadOriginal(r, t) == journal[r].orig[t] # Absent

\* publishMutation, first rename: the target goes to the backup, if it still
\* is what the journal saw.
MayDisplace(r, t) == disk[t] # Absent /\ disk[t] = journal[r].orig[t]

Displace(t) ==
    /\ Publishing(t)
    /\ staged[work.rel][t] # Absent
    /\ HadOriginal(work.rel, t) /\ saved[work.rel][t] = Absent
    /\ MayDisplace(work.rel, t)
    /\ saved' = [saved EXCEPT ![work.rel][t] = disk[t]]
    /\ disk' = [disk EXCEPT ![t] = Absent]
    /\ work' = [work EXCEPT !.step = "place"]
    /\ UNCHANGED <<staged, journal, last, unrecovered, asked, crashes, edits, errors>>

\* Second rename: the stage becomes the target. Without a first rename in the
\* same call (nothing was there, or a crash fell between the two) it is done
\* only if nothing is there.
MayPlace(r, t) ==
    /\ staged[r][t] # Absent
    /\ HadOriginal(r, t) => saved[r][t] # Absent
    /\ disk[t] = Absent

Place(t) ==
    /\ \/ work.step = "place" /\ t = Least(work.rest)
       \/ Publishing(t) /\ MayPlace(work.rel, t)
    /\ disk' = [disk EXCEPT ![t] = staged[work.rel][t]]
    /\ staged' = [staged EXCEPT ![work.rel][t] = Absent]
    /\ work' = [work EXCEPT !.step = "record"]
    /\ UNCHANGED <<saved, journal, last, unrecovered, asked, crashes, edits, errors>>

\* No stage: both renames happened before the crash.
Placed(t) ==
    /\ Publishing(t)
    /\ staged[work.rel][t] = Absent
    /\ disk[t] # Absent
    /\ saved[work.rel][t] # Absent \/ ~ HadOriginal(work.rel, t)
    /\ work' = [work EXCEPT !.step = "record"]
    /\ UNCHANGED <<disk, staged, saved, journal, last, unrecovered, asked, crashes, edits, errors>>

\* Anything else is a conflict: Publish returns with the journal "publishing".
Conflict(t) ==
    /\ Publishing(t)
    /\ IF staged[work.rel][t] = Absent
         THEN disk[t] = Absent \/ (saved[work.rel][t] = Absent /\ HadOriginal(work.rel, t))
         ELSE IF HadOriginal(work.rel, t) /\ saved[work.rel][t] = Absent
                THEN ~ MayDisplace(work.rel, t)
                ELSE disk[t] # Absent
    /\ work' = Idle
    /\ UNCHANGED <<disk, staged, saved, journal, last, unrecovered, asked, crashes, edits, errors>>

Record ==
    /\ work.step = "record"
    /\ LET t == Least(work.rest) IN
        /\ journal' = [journal EXCEPT ![work.rel].done = @ \cup {t}]
        /\ work' = [work EXCEPT !.step = "publish", !.rest = @ \ {t}]
    /\ UNCHANGED <<disk, staged, saved, last, unrecovered, asked, crashes, edits, errors>>

Published ==
    /\ work.step = "publish" /\ work.rest = {}
    /\ SetPhase(work.rel, "published")
    /\ work' = Idle
    /\ UNCHANGED <<disk, staged, saved, last, unrecovered, asked, crashes, edits, errors>>

-----------------------------------------------------------------------------
(* Complete *)

\* The caller has decided to commit: it never asks for a rollback afterwards.
Complete(r) ==
    /\ work = Idle
    /\ Readable(r) /\ journal[r].phase \in {"published", "completing", "committed"}
    /\ asked' = asked \cup {r}
    /\ IF journal[r].phase = "committed"
         THEN /\ work' = At("clean", r, journal[r].muts)
              /\ UNCHANGED journal
         ELSE /\ work' = At("verify", r, journal[r].muts)
              /\ SetPhase(r, "completing")
    /\ UNCHANGED <<disk, staged, saved, last, unrecovered, crashes, edits, errors>>

\* verifyPublished: every mutated target holds what was published, or the
\* release stays "completing".
Verify ==
    /\ work.step = "verify"
    /\ work' = IF \A t \in work.rest : disk[t] = Wants[work.rel][t]
                 THEN [work EXCEPT !.step = "state"]
                 ELSE Idle
    /\ UNCHANGED <<disk, staged, saved, journal, last, unrecovered, asked, crashes, edits, errors>>

WriteState ==
    /\ work.step = "state"
    /\ last' = work.rel
    /\ work' = [work EXCEPT !.step = "commit"]
    /\ UNCHANGED <<disk, staged, saved, journal, unrecovered, asked, crashes, edits, errors>>

Commit ==
    /\ work.step = "commit"
    /\ SetPhase(work.rel, "committed")
    /\ work' = [work EXCEPT !.step = "clean"]
    /\ UNCHANGED <<disk, staged, saved, last, unrecovered, asked, crashes, edits, errors>>

\* cleanupJournalArtifacts removes a mutation's stage and backup; the journal
\* goes last.
Clean ==
    /\ work.step = "clean" /\ work.rest # {}
    /\ LET t == Least(work.rest) IN
        /\ staged' = [staged EXCEPT ![work.rel][t] = Absent]
        /\ saved' = [saved EXCEPT ![work.rel][t] = Absent]
        /\ work' = [work EXCEPT !.rest = @ \ {t}]
    /\ UNCHANGED <<disk, journal, last, unrecovered, asked, crashes, edits, errors>>

RemoveJournal ==
    /\ work.step = "clean" /\ work.rest = {}
    /\ journal' = [journal EXCEPT ![work.rel] = NoJournal]
    /\ work' = Idle
    /\ UNCHANGED <<disk, staged, saved, last, unrecovered, asked, crashes, edits, errors>>

-----------------------------------------------------------------------------
(* Rollback *)

Rollback(r) ==
    /\ work = Idle
    /\ Readable(r)
    /\ r \notin asked
    /\ SetPhase(r, "rolling_back")
    /\ work' = At("undo", r, journal[r].muts)
    /\ UNCHANGED <<disk, staged, saved, last, unrecovered, asked, crashes, edits, errors>>

Undoing(t) == work.step = "undo" /\ work.rest # {} /\ t = Greatest(work.rest)

\* Mutant of Unchanged: the rollback does not look at the target.
UnchangedUnread(r, t) == TRUE

\* ensurePublishedTargetUnchanged.
Unchanged(r, t) == disk[t] \in {Absent, Wants[r][t]}

\* A published target is removed first, and the backup put back by a second
\* rename; one that had no original is removed if its stage is gone.
Displaced(r, t) == saved[r][t] # Absent
Created(r, t) == ~ Displaced(r, t) /\ ~ HadOriginal(r, t) /\ staged[r][t] = Absent

Undo(t) ==
    /\ Undoing(t)
    /\ Displaced(work.rel, t) \/ Created(work.rel, t)
    /\ Unchanged(work.rel, t)
    /\ disk' = [disk EXCEPT ![t] = Absent]
    /\ work' = [work EXCEPT !.step = "restore"]
    /\ UNCHANGED <<staged, saved, journal, last, unrecovered, asked, crashes, edits, errors>>

Restored(r, t) == IF Displaced(r, t) THEN saved[r][t] ELSE disk[t]

Restore ==
    /\ work.step = "restore"
    /\ LET t == Greatest(work.rest) IN
        /\ disk' = [disk EXCEPT ![t] = Restored(work.rel, t)]
        /\ saved' = [saved EXCEPT ![work.rel][t] = Absent]
        /\ staged' = [staged EXCEPT ![work.rel][t] = Absent]
        /\ work' = [work EXCEPT !.step = "undo", !.rest = @ \ {t}]
    /\ UNCHANGED <<journal, last, unrecovered, asked, crashes, edits, errors>>

\* A target that was never touched only loses its stage.
Untouched(t) ==
    /\ Undoing(t)
    /\ ~ Displaced(work.rel, t) /\ ~ Created(work.rel, t)
    /\ staged' = [staged EXCEPT ![work.rel][t] = Absent]
    /\ work' = [work EXCEPT !.rest = @ \ {t}]
    /\ UNCHANGED <<disk, saved, journal, last, unrecovered, asked, crashes, edits, errors>>

\* A target that was edited after the release is kept, with its backup; the
\* rollback goes on and reports the conflict.
Keep(t) ==
    /\ Undoing(t)
    /\ Displaced(work.rel, t) \/ Created(work.rel, t)
    /\ ~ Unchanged(work.rel, t)
    /\ work' = [work EXCEPT !.rest = @ \ {t}, !.failed = TRUE]
    /\ UNCHANGED <<disk, staged, saved, journal, last, unrecovered, asked, crashes, edits, errors>>

\* The journal is removed only after a rollback that restored every target.
Undone ==
    /\ work.step = "undo" /\ work.rest = {}
    /\ work' = IF work.failed THEN Idle ELSE At("clean", work.rel, journal[work.rel].muts)
    /\ UNCHANGED <<disk, staged, saved, journal, last, unrecovered, asked, crashes, edits, errors>>

-----------------------------------------------------------------------------
(* Failures, crashes and recovery *)

\* A write fails: the handler returns and leaves its journal as it is.
HandlerFails ==
    /\ work.step \notin {"idle", "stage"}
    /\ errors < MaxErrors
    /\ errors' = errors + 1
    /\ work' = Idle
    /\ UNCHANGED <<disk, staged, saved, journal, last, unrecovered, asked, crashes, edits>>

Crash ==
    /\ crashes < MaxCrashes
    /\ crashes' = crashes + 1
    /\ work' = Idle
    /\ unrecovered' = TRUE
    /\ UNCHANGED <<disk, staged, saved, journal, last, asked, edits, errors>>

\* Mutant of Finished: installations.json is not consulted.
FinishedByPhase(r) == journal[r].phase = "committed"

\* Recover takes the side of the release when installations.json already
\* names it, and rolls it back otherwise.
Finished(r) ==
    \/ journal[r].phase = "committed"
    \/ /\ journal[r].phase = "completing"
       /\ last = r

\* Prepare refuses while a journal is open (ensureNoActiveJournal): there is at
\* most one to recover.
Recover ==
    /\ work = Idle
    /\ unrecovered
    /\ unrecovered' = FALSE
    /\ \/ /\ \A r \in Releases : ~ Readable(r)
          /\ UNCHANGED <<journal, work>>
       \/ \E r \in Releases :
            /\ Readable(r)
            /\ IF Finished(r)
                 THEN /\ work' = At("clean", r, journal[r].muts)
                      /\ UNCHANGED journal
                 ELSE /\ work' = At("undo", r, journal[r].muts)
                      /\ SetPhase(r, "rolling_back")
    /\ UNCHANGED <<disk, staged, saved, last, asked, crashes, edits, errors>>

\* The user, or Steam, writes to a target: at any time, except between a check
\* and the rename that follows it at once, a window the code leaves open.
Edit(t) ==
    /\ edits < MaxEdits
    /\ work.step \notin {"place", "restore"}
    /\ edits' = edits + 1
    /\ disk' = [disk EXCEPT ![t] = Edited]
    /\ UNCHANGED <<staged, saved, journal, last, work, unrecovered, asked, crashes, errors>>

DistNext ==
    \/ \E r \in Releases : Prepare(r) \/ Publish(r) \/ Complete(r) \/ Rollback(r)
    \/ Stage \/ Prepared \/ PrepareFails
    \/ \E t \in Targets : Displace(t) \/ Place(t) \/ Placed(t) \/ Conflict(t)
    \/ Record \/ Published
    \/ Verify \/ WriteState \/ Commit \/ Clean \/ RemoveJournal
    \/ \E t \in Targets : Undo(t) \/ Untouched(t) \/ Keep(t) \/ Edit(t)
    \/ Restore \/ Undone
    \/ HandlerFails \/ Crash \/ Recover

DistSpec == DistInit /\ [][DistNext]_distVars

-----------------------------------------------------------------------------
(* Properties *)

DistTypeOK ==
    /\ disk \in [Targets -> Contents]
    /\ staged \in [Releases -> [Targets -> Contents]]
    /\ saved \in [Releases -> [Targets -> Contents]]
    /\ journal \in [Releases -> Journals \cup {NoJournal}]
    /\ last \in 0 .. LastRelease
    /\ work \in [step : Steps, rel : 0 .. LastRelease, rest : SUBSET Targets, failed : BOOLEAN]
    /\ unrecovered \in BOOLEAN
    /\ asked \subseteq Releases
    /\ crashes \in 0 .. MaxCrashes
    /\ edits \in 0 .. MaxEdits
    /\ errors \in 0 .. MaxErrors

\* What the installation should hold when nothing is under way.
Committed == IF last = 0 THEN FirstDisk ELSE Wants[last]

Quiet == \A r \in Releases : ~ Open(r)

\* Whatever crashed and wherever: without a journal the installation holds the
\* release that installations.json names, whole, or nothing of any release.
\* A target that was edited may hold the edit instead.
WholeRelease ==
    Quiet => \A t \in Targets : disk[t] \in {Committed[t], Edited}

\* Without a journal nobody would ever remove a stage or a backup again: none
\* is left.
NoLitter ==
    Quiet => \A r \in Releases, t \in Targets : staged[r][t] = Absent /\ saved[r][t] = Absent

\* A release is there as a whole, or not at all and without a trace.
ReleaseAtomic == WholeRelease /\ NoLitter

\* An edit is replaced only by a release whose journal saw it: never by one
\* that was prepared before the edit, and never by a rollback or a recovery.
EditKept ==
    [][\A t \in Targets :
        (disk[t] = Edited /\ disk'[t] # Edited)
            => work.step = "publish" /\ journal[work.rel].orig[t] = Edited]_distVars

\* Every journal on disk can be read back, so that the release it belongs to
\* can be published or rolled back.
JournalReadable == \A r \in Releases : Open(r) => Readable(r)
=============================================================================
