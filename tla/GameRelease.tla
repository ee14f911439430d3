---------------------------- MODULE GameRelease ----------------------------
(***************************************************************************)
(* The game release coordinator of internal/gameupdate: it stops the       *)
(* worlds that run from a set of DST installations, backs their rooms up,  *)
(* lets SteamCMD replace the files of each installation and starts the     *)
(* worlds again.  The installation gate keeps every other start away while *)
(* a release runs, the stage of the release's row keeps them away after    *)
(* the controller died, and the lock file of the installation keeps a      *)
(* world and SteamCMD apart on the node.                                   *)
(*                                                                         *)
(* A release plans every installation.  The coordinator works on a copy of *)
(* the row (mem) and saves it; the node keeps the files, the SteamCMD      *)
(* process and the receipt of the last write.  The stages that only say    *)
(* how far a running release is are one value, "active".                   *)
(***************************************************************************)
EXTENDS Integers, FiniteSets

CONSTANTS
  LastGameRelease,   \* releases that may be published
  LastTry,   \* attempts (first run and retries) of one release
  LastBuild,     \* builds Steam may publish; build 0 is installed at first
  LastHost,      \* installations
  LastWorld,     \* worlds, world 1 the master
  HostOf,        \* the installation a world runs from
  RoomOf,        \* the room a world belongs to
  LocalHosts,    \* installations of the controller's own machine
  MaxTroubles,   \* calls, saves, leases and SteamCMD runs that fail
  MaxDowns,      \* controller or agent processes that die
  MaxStarts,     \* worlds a user starts or stops, or that die
  Policies       \* <<wait for a decision when the backup fails,
                 \*   start the worlds that ran before>>

GameReleases == 1..LastGameRelease
Hosts == 1..LastHost
Worlds == 1..LastWorld
Builds == 0..LastBuild

ASSUME ReleaseAssumption ==
  /\ {LastGameRelease, LastTry, LastBuild, LastHost, LastWorld} \subseteq Nat \ {0}
  /\ {MaxTroubles, MaxDowns, MaxStarts} \subseteq Nat
  /\ HostOf \in [Worlds -> Hosts] /\ RoomOf \in [Worlds -> Nat]
  /\ \A h \in Hosts : \E w \in Worlds : HostOf[w] = h
  /\ LocalHosts \subseteq Hosts
  /\ Policies \subseteq BOOLEAN \X BOOLEAN

Torn == -1             \* files SteamCMD has begun to write and not finished
Down == -2             \* a world that does not run
NoWrite == <<0, 0, 0>> \* no update operation
Orphan == <<0, 1, 0>>  \* a SteamCMD process whose parent died

VARIABLES
  newest,    \* the build Steam serves
  files,     \* the build on disk of an installation
  writer,    \* the update operation SteamCMD runs for, per installation
  receipt,   \* the node's record of the installation's last update
  overdue,   \* an update the node has yet to begin and whose caller gave up
  running,   \* the files a world was started from
  entering,  \* worlds a user is starting, past the gate
  rows,      \* the release table
  mem,       \* the coordinator's copy of its release
  co,        \* where the coordinator is
  downBy,    \* history: the release that stopped a world and owes its start
  touched,   \* history: releases for which SteamCMD ran
  used       \* how often each bounded thing happened

nodeVars == <<files, writer, receipt, overdue>>
relVars == <<newest, files, writer, receipt, overdue, running, entering, rows,
             mem, co, downBy, touched, used>>

\* An update: its release, its attempt and the build it expects.
Ops == GameReleases \X (1..LastTry) \X Builds
Stages == {"active", "recovery", "failed", "succeeded", "abandoned"}
WriteStates == {"not_started", "dispatched", "verified", "failed",
                "version_changed", "unknown"}

Rows ==
  [stage : Stages, policy : Policies, wrote : BOOLEAN, attempt : 1..LastTry, build : Builds,
   need : BOOLEAN, was : SUBSET Worlds, guarded : BOOLEAN, skip : BOOLEAN,
   ask : BOOLEAN, done : [Hosts -> {"open", "verified", "succeeded"}],
   write : [Hosts -> WriteStates], op : [Hosts -> Ops \cup {NoWrite}],
   before : [Hosts -> Builds \cup {Torn}],
   world : [Worlds -> {"open", "confirming", "failed", "succeeded"}],
   asked : SUBSET Worlds, begun : SUBSET Worlds]

NoRow == [stage |-> "none"]
CoSteps == {"idle", "announce", "begin", "stop", "stopping", "recheck", "protect",
          "staged", "write", "call", "await", "noted", "written", "restart", "starting",
          "confirm", "abort", "recover", "close"}
AtRest == [at |-> "idle", r |-> 0, n |-> 0, failed |-> FALSE, lost |-> FALSE,
         wrote |-> FALSE, ready |-> {}, repair |-> FALSE, cancel |-> FALSE,
         stage |-> "active"]

RelTypeOK ==
  /\ newest \in Builds \ {0}
  /\ files \in [Hosts -> Builds \cup {Torn}]
  /\ writer \in [Hosts -> Ops \cup {NoWrite, Orphan}]
  /\ receipt \in [Hosts -> (Ops \cup {NoWrite}) \X {"none", "running", "confirmed", "failed"}]
  /\ overdue \in [Hosts -> Ops \cup {NoWrite}]
  /\ running \in [Worlds -> Builds \cup {Torn, Down}]
  /\ entering \subseteq Worlds
  /\ \A r \in GameReleases : rows[r] = NoRow \/ rows[r] \in Rows
  /\ mem = NoRow \/ mem \in Rows
  /\ co \in [at : CoSteps, r : 0..LastGameRelease, n : 0..(LastHost + LastWorld + 1),
             failed : BOOLEAN, lost : BOOLEAN, wrote : BOOLEAN, ready : SUBSET Hosts,
             repair : BOOLEAN, cancel : BOOLEAN, stage : Stages]
  /\ downBy \in [Worlds -> 0..LastGameRelease]
  /\ touched \subseteq GameReleases
  /\ used \in [trouble : 0..MaxTroubles, downs : 0..MaxDowns, starts : 0..MaxStarts]

RelInit ==
  /\ newest = 1
  /\ files = [h \in Hosts |-> 0]
  /\ writer = [h \in Hosts |-> NoWrite]
  /\ receipt = [h \in Hosts |-> <<NoWrite, "none">>]
  /\ overdue = [h \in Hosts |-> NoWrite]
  /\ running \in [Worlds -> {0, Down}]
  /\ entering = {}
  /\ rows = [r \in GameReleases |-> NoRow]
  /\ mem = NoRow /\ co = AtRest
  /\ downBy = [w \in Worlds |-> 0] /\ touched = {}
  /\ used = [trouble |-> 0, downs |-> 0, starts |-> 0]

-----------------------------------------------------------------------------
(* The gate, the store and what fails.                                     *)

\* Mutant: only a release that runs holds its installations.
PendingRunning(r) == rows[r] # NoRow /\ rows[r].stage = "active"

\* CheckMaintenance: the stages whose row holds its installations.
Pending(r) == rows[r] # NoRow /\ rows[r].stage \in {"active", "recovery"}

\* Gate.Acquire for release r: nobody else holds the installations, in memory
\* or by a row.
MayOwn(r) ==
  /\ co.at = "idle"
  /\ entering = {}
  /\ \A q \in GameReleases \ {r} : ~Pending(q)

\* Gate.AcquireShared for a caller that is no release.
MayShare == co.at = "idle" /\ \A q \in GameReleases : ~Pending(q)

Trouble ==
  /\ used.trouble < MaxTroubles
  /\ used' = [used EXCEPT !.trouble = @ + 1]

Fine == UNCHANGED used

Go(at, n) == co' = [co EXCEPT !.at = at, !.n = n]
Abort == Go("abort", 0)
Close(stage) == co' = [co EXCEPT !.at = "close", !.stage = stage]
Store(m) == mem' = m /\ rows' = [rows EXCEPT ![co.r] = m]
Hold(m) == mem' = m /\ UNCHANGED rows
Same == UNCHANGED <<mem, rows>>

\* A coordinator step changes neither Steam nor the users' starts ...
Outside == UNCHANGED <<newest, entering>>
\* ... and, unless it calls a node, nothing on the nodes.
NoCall == UNCHANGED <<nodeVars, running, downBy, touched>>

WorldsOf(h) == {w \in Worlds : HostOf[w] = h}
Up(w) == running[w] # Down
Verified(m) == \A h \in Hosts : m.done[h] # "open"

\* An update carries the lease of the room of its installation's first world:
\* a later call for that room makes the node refuse an update still overdue.
FirstRoom(h) == RoomOf[CHOOSE w \in WorldsOf(h) : \A v \in WorldsOf(h) : w <= v]
Heard(w) ==
  overdue' = [overdue EXCEPT ![HostOf[w]] =
                IF RoomOf[w] = FirstRoom(HostOf[w]) THEN NoWrite ELSE @]

\* The lock file of the installation: worlds share it, SteamCMD takes it alone,
\* and a SteamCMD that lost its parent holds it no more.
LockFree(w) == writer[HostOf[w]] \in {NoWrite, Orphan}
Launch(w) ==
  /\ LockFree(w)
  /\ running' = [running EXCEPT ![w] = IF @ = Down THEN files[HostOf[w]] ELSE @]
  /\ downBy' = [downBy EXCEPT ![w] = 0]

-----------------------------------------------------------------------------
(* Publish and Retry.                                                      *)

Fresh(policy) ==
  [stage |-> "active", policy |-> policy, wrote |-> FALSE, attempt |-> 1, build |-> newest,
   need |-> \E h \in Hosts : files[h] # newest, was |-> {w \in Worlds : Up(w)},
   guarded |-> FALSE, skip |-> FALSE, ask |-> FALSE,
   done |-> [h \in Hosts |-> "open"], write |-> [h \in Hosts |-> "not_started"],
   op |-> [h \in Hosts |-> NoWrite], before |-> files,
   world |-> [w \in Worlds |-> "open"], asked |-> {}, begun |-> {}]

\* PublishRelease: the locks, a fresh preview and the new row.
PublishRelease(r) ==
  /\ rows[r] = NoRow /\ \A q \in GameReleases : q < r => rows[q] # NoRow
  /\ MayOwn(r)
  /\ \E policy \in Policies :
       mem' = Fresh(policy) /\ rows' = [rows EXCEPT ![r] = Fresh(policy)]
  /\ co' = [AtRest EXCEPT !.at = "announce", !.r = r]
  /\ Fine /\ Outside /\ NoCall

MayRetry(r) ==
  /\ rows[r] # NoRow /\ rows[r].stage \in {"failed", "recovery"}
  /\ MayOwn(r)

BackupDecision(m) == m.ask /\ ~m.wrote

\* The plan confirmed anew: the newest build, and every installation that
\* holds another one has to be written again.
Rebased(m) ==
  LET stale == {h \in Hosts : files[h] # newest} IN
  [m EXCEPT !.build = newest, !.need = @ \/ stale # {},
     !.done = [h \in Hosts |-> IF h \in stale THEN "open" ELSE m.done[h]],
     !.write = [h \in Hosts |->
                  IF h \in stale /\ m.write[h] \in {"verified", "version_changed"}
                  THEN "failed" ELSE m.write[h]]]

\* The fresh preview agrees with the plan, and verified files are unchanged.
Preflight(m) ==
  /\ newest = m.build
  /\ \A h \in Hosts : m.done[h] # "open" => files[h] = m.build

\* retry with the request m says: the row as it is, with the backup skipped,
\* or with a new plan, which alone may repair a write of unknown outcome.
RetryWith(r, m, repair) ==
  /\ MayRetry(r) /\ rows[r].attempt < LastTry
  /\ \/ /\ Preflight(m) /\ Fine
        /\ LET next == [m EXCEPT !.attempt = @ + 1, !.ask = FALSE] IN
           mem' = next /\ rows' = [rows EXCEPT ![r] = next]
        /\ co' = [AtRest EXCEPT !.at = IF Verified(m) THEN "begin" ELSE "announce",
                              !.r = r, !.repair = repair]
     \/ /\ \/ ~Preflight(m) /\ Fine
           \/ Trouble
        /\ rows' = [rows EXCEPT ![r] = [m EXCEPT !.stage = "recovery", !.ask = FALSE]]
        /\ UNCHANGED <<mem, co>>
  /\ Outside /\ NoCall

Retry(r) == RetryWith(r, rows[r], FALSE)

RetrySkippingBackup(r) ==
  /\ rows[r] # NoRow /\ BackupDecision(rows[r])
  /\ RetryWith(r, [rows[r] EXCEPT !.skip = TRUE], FALSE)

RetryRebased(r) ==
  /\ rows[r] # NoRow
  /\ \E repair \in BOOLEAN : RetryWith(r, Rebased(rows[r]), repair)

\* retry with CancelUpdate.
Cancel(r) ==
  /\ MayRetry(r) /\ BackupDecision(rows[r])
  /\ mem' = rows[r] /\ UNCHANGED rows
  /\ co' = [AtRest EXCEPT !.at = "abort", !.r = r, !.cancel = TRUE]
  /\ Fine /\ Outside /\ NoCall

\* finishWithoutRestart: every write is verified and nothing has changed since.
Finish(r) ==
  /\ MayRetry(r) /\ Verified(rows[r])
  /\ \A h \in Hosts : files[h] = rows[r].build
  /\ rows' = [rows EXCEPT ![r].stage = "abandoned", ![r].ask = FALSE]
  /\ UNCHANGED <<mem, co>> /\ Fine /\ Outside /\ NoCall

-----------------------------------------------------------------------------
(* execute, up to the first write.                                         *)

\* waitBeforeRelease: the announcement may fail.
Announce ==
  /\ co.at = "announce" /\ Same /\ Outside /\ NoCall
  /\ \/ Fine /\ Go("begin", 0)
     \/ Trouble /\ Abort

\* backupFailed: wait for a decision, or give up.
BackupFails ==
  IF mem.policy[1]
  THEN Hold([mem EXCEPT !.ask = TRUE]) /\ Close("recovery")
  ELSE Same /\ Abort

Begin ==
  /\ co.at = "begin" /\ Outside /\ NoCall
  /\ \/ /\ ~mem.need /\ Fine
        /\ Hold([mem EXCEPT !.done = [h \in Hosts |-> "succeeded"]])
        /\ Close("succeeded")
     \/ /\ mem.need /\ Trouble            \* the backup is gone, or no room for one
        /\ IF mem.wrote THEN Same /\ Close("recovery") ELSE BackupFails
     \/ /\ mem.need /\ Verified(mem) /\ Fine
        /\ Same /\ Go("written", 0)
     \/ /\ mem.need /\ ~Verified(mem) /\ Fine
        /\ Store([mem EXCEPT !.stage = "active"]) /\ Go("stop", LastWorld)

\* The next world stopPlannedShards has to stop, the master last.
Stops(w) == w \in mem.was /\ mem.done[HostOf[w]] # "succeeded"

AskStop ==
  /\ co.at = "stop" /\ Outside /\ NoCall
  /\ LET w == co.n
         m == [mem EXCEPT !.asked = @ \cup {w}] IN
     \/ w = 0 /\ Fine /\ Same /\ Go("recheck", 0)
     \/ w # 0 /\ ~Stops(w) /\ Fine /\ Same /\ Go("stop", w - 1)
     \/ w # 0 /\ Stops(w) /\ Fine /\ Store(m) /\ Go(IF Up(w) THEN "stopping" ELSE "stop",
                                                   IF Up(w) THEN w ELSE w - 1)
     \/ w # 0 /\ Stops(w) /\ Trouble /\ Hold(m) /\ Abort

\* The call and the wait for the world to be down.
Stop ==
  /\ co.at = "stopping" /\ Same /\ Outside /\ UNCHANGED <<files, writer, receipt, touched>>
  /\ LET w == co.n
         down == /\ running' = [running EXCEPT ![w] = Down]
                 /\ downBy' = [downBy EXCEPT ![w] = IF Up(w) THEN co.r ELSE @] IN
     \/ Fine /\ down /\ Heard(w) /\ Go("stop", w - 1)
     \/ Trouble /\ down /\ Heard(w) /\ Abort
     \/ Trouble /\ UNCHANGED <<running, downBy, overdue>> /\ Abort

\* revalidate, before and after the backup.
Recheck ==
  /\ co.at \in {"recheck", "staged"} /\ Same /\ Outside /\ NoCall
  /\ LET good == /\ newest = mem.build
                 /\ \A w \in Worlds : mem.done[HostOf[w]] # "succeeded" => ~Up(w) IN
     \/ good /\ Fine /\ Go(IF co.at = "recheck" THEN "protect" ELSE "write", 1)
     \/ ~good /\ Fine /\ Abort
     \/ Trouble /\ Abort

\* createProtectionBackups.
Protect ==
  /\ co.at = "protect" /\ Outside /\ NoCall
  /\ \/ mem.skip /\ Fine /\ Same /\ Go("staged", 0)
     \/ ~mem.skip /\ Fine /\ Store([mem EXCEPT !.guarded = TRUE]) /\ Go("staged", 0)
     \/ ~mem.skip /\ Trouble /\ BackupFails

-----------------------------------------------------------------------------
(* updateInstallations: one installation after the other.                  *)

NextHost(bad) == co' = [co EXCEPT !.at = "write", !.n = @ + 1, !.failed = @ \/ bad]
GiveUp == co' = [co EXCEPT !.at = "written", !.failed = TRUE]

\* The loop ends, or is left: the lease is lost or a save fails.
LeaveWrites ==
  /\ co.at = "write" /\ Same /\ Outside /\ NoCall
  /\ \/ co.n > LastHost /\ Fine /\ Go("written", 0)
     \/ Trouble /\ GiveUp

Turn(h) == co.at = "write" /\ co.n = h
Unclear(h) == mem.done[h] = "open" /\ mem.write[h] \in {"dispatched", "unknown"}
Matched(h) == receipt[h][1] = mem.op[h] /\ receipt[h][2] \in {"confirmed", "failed"}

\* An installation verified by an earlier attempt is looked at again.
LookAgain(h) ==
  /\ Turn(h) /\ mem.done[h] # "open" /\ Outside /\ NoCall
  /\ \/ files[h] = mem.build /\ Fine /\ Same /\ NextHost(FALSE)
     \/ ((files[h] # mem.build /\ Fine) \/ Trouble)
        /\ Hold([mem EXCEPT !.done[h] = "open"]) /\ NextHost(TRUE)

\* The receipt or the files show that nothing is left to write.
NothingToWrite(h) ==
  /\ files[h] = mem.build
  /\ \/ Unclear(h) /\ Matched(h) /\ receipt[h][2] = "confirmed"
     \/ mem.done[h] = "open" /\ mem.write[h] = "not_started"

\* Mutant: the word of the receipt is stored in the row.
ConfirmedByWord(h) == [mem EXCEPT !.done[h] = "verified", !.write[h] = "confirmed"]

Confirmed(h) == [mem EXCEPT !.done[h] = "verified", !.write[h] = "verified"]

Settle(h) ==
  /\ Turn(h) /\ NothingToWrite(h) /\ Outside /\ NoCall
  /\ \/ Fine /\ Store(Confirmed(h)) /\ NextHost(FALSE)
     \/ Trouble /\ Hold(Confirmed(h)) /\ IF Unclear(h) THEN GiveUp ELSE NextHost(TRUE)

\* A write whose outcome is not known is not sent again, unless the node says
\* that it failed or the user asked for a repair.
MayResend(h) ==
  \/ co.repair
  \/ Matched(h) /\ receipt[h][2] = "failed"

Inspect(h) ==
  /\ Turn(h) /\ Unclear(h) /\ Outside /\ NoCall
  /\ \/ ~NothingToWrite(h) /\ ~MayResend(h) /\ Fine
        /\ Hold([mem EXCEPT !.write[h] = "unknown"]) /\ NextHost(TRUE)
     \/ ~NothingToWrite(h) /\ MayResend(h) /\ Fine
        /\ Hold([mem EXCEPT !.write[h] = "failed"]) /\ UNCHANGED co
     \/ \E seen \in {"unknown", "failed"} :      \* files or receipt not readable
          /\ seen = "failed" => MayResend(h)
          /\ seen = "unknown" => ~co.repair
          /\ Trouble /\ Hold([mem EXCEPT !.write[h] = seen]) /\ NextHost(TRUE)

\* The row says "dispatched" before the call is made.
Dispatch(h) ==
  /\ Turn(h) /\ mem.done[h] = "open" /\ ~Unclear(h) /\ ~NothingToWrite(h)
  /\ Outside /\ NoCall
  /\ \/ newest = mem.build /\ Fine
        /\ Store([mem EXCEPT !.wrote = TRUE, !.write[h] = "dispatched",
                            !.op[h] = <<co.r, mem.attempt, mem.build>>])
        /\ co' = [co EXCEPT !.at = "call", !.wrote = mem.wrote]
     \/ newest # mem.build /\ Fine /\ Same /\ NextHost(TRUE)
     \/ Trouble /\ Same /\ NextHost(TRUE)

\* What the answer of the call says of installation h goes into the copy.
Note(h, state, bad) ==
  /\ Hold([mem EXCEPT !.write[h] = state])
  /\ co' = [co EXCEPT !.at = "noted", !.failed = @ \/ bad]

\* The node was not asked: the row may forget that a write began.
Unsent(h) ==
  /\ Hold([mem EXCEPT !.wrote = co.wrote, !.write[h] = "not_started"])
  /\ co' = [co EXCEPT !.at = "noted", !.failed = TRUE]

CallFails(h) ==
  /\ co.at = "call" /\ co.n = h /\ Trouble /\ Unsent(h) /\ Outside /\ NoCall

\* updateGameVersion and UpdateReleaseInstallation: the lock file, no world and
\* no other SteamCMD, then SteamCMD writes.
MayWrite(h) == writer[h] = NoWrite /\ \A w \in WorldsOf(h) : ~Up(w)

Writes(h, op) ==
  /\ MayWrite(h)
  /\ writer' = [writer EXCEPT ![h] = op]
  /\ files' = [files EXCEPT ![h] = Torn]
  /\ receipt' = [receipt EXCEPT ![h] = <<op, "running">>]
  /\ overdue' = [overdue EXCEPT ![h] = NoWrite]
  /\ touched' = touched \cup {op[1]}

\* The node refuses: the error of the lock leaves the outcome at "confirmed".
Refuses(h, op) ==
  /\ receipt' = [receipt EXCEPT ![h] =
       <<op, IF h \notin LocalHosts /\ \E w \in WorldsOf(h) : Up(w)
             THEN "confirmed" ELSE "failed">>]
  /\ overdue' = [overdue EXCEPT ![h] = NoWrite]
  /\ UNCHANGED <<files, writer, touched>>

Call(h) ==
  /\ co.at = "call" /\ co.n = h /\ Writes(h, mem.op[h])
  /\ Same /\ Go("await", h) /\ Fine /\ Outside /\ UNCHANGED <<running, downBy>>

\* An update that finds SteamCMD at work under the same agent waits for it.
CallRefused(h) ==
  /\ co.at = "call" /\ co.n = h /\ ~MayWrite(h)
  /\ h \in LocalHosts \/ writer[h] \in {NoWrite, Orphan}
  /\ Refuses(h, mem.op[h])
  /\ IF h \in LocalHosts THEN Unsent(h) ELSE Note(h, "unknown", TRUE)
  /\ Fine /\ Outside /\ UNCHANGED <<running, downBy>>

\* The caller gives up on a remote node that may still begin.
CallUnanswered(h) ==
  /\ co.at = "call" /\ co.n = h /\ h \notin LocalHosts /\ Trouble
  /\ overdue' \in {overdue, [overdue EXCEPT ![h] = mem.op[h]]}
  /\ Note(h, "unknown", TRUE)
  /\ Outside /\ UNCHANGED <<files, writer, receipt, running, downBy, touched>>

Answer(h) ==
  /\ co.at = "await" /\ co.n = h /\ Outside /\ NoCall
  /\ \/ receipt[h] = <<mem.op[h], "confirmed">> /\ Fine
        /\ Hold(Confirmed(h)) /\ Go("noted", h)
     \/ receipt[h] = <<mem.op[h], "failed">> /\ Fine
        /\ Note(h, IF files[h] \in {mem.build, mem.before[h], Torn}
                   THEN "failed" ELSE "version_changed", TRUE)
     \/ /\ writer[h] # mem.op[h] /\ receipt[h][2] = "running" /\ Fine
        /\ Note(h, "unknown", TRUE)
     \/ h \notin LocalHosts /\ Trouble /\ Note(h, "unknown", TRUE)

SaveNote ==
  /\ co.at = "noted" /\ Outside /\ NoCall
  /\ \/ Fine /\ Store(mem) /\ NextHost(FALSE)
     \/ Trouble /\ Same /\ GiveUp

-----------------------------------------------------------------------------
(* execute, after the writes: the worlds start again.                      *)

Connected(h, g) == \E v \in WorldsOf(h), w \in WorldsOf(g) : RoomOf[v] = RoomOf[w]

\* verifiedReleaseScopes: what is verified, without what shares a room with
\* an installation that is not.
ReadyHosts ==
  UNION {S \in SUBSET {h \in Hosts : mem.done[h] # "open"} :
           \A h \in S, g \in Hosts : Connected(h, g) => g \in S}

Verdict(lost) == IF co.failed \/ lost THEN "recovery" ELSE "succeeded"

\* markStoppedScopeComplete.
Marked(hosts) ==
  [mem EXCEPT !.done = [h \in Hosts |-> IF h \in hosts THEN "succeeded" ELSE @[h]],
              !.world = [w \in Worlds |-> IF HostOf[w] \in hosts THEN "succeeded" ELSE @[w]]]

Written ==
  /\ co.at = "written" /\ Outside /\ NoCall
  /\ IF co.failed /\ ~mem.wrote THEN Same /\ Fine /\ Abort
     ELSE IF ReadyHosts = {} THEN Same /\ Fine /\ Close(Verdict(FALSE))
     ELSE IF mem.policy[2]
     THEN \/ Fine /\ Store(mem)
             /\ co' = [co EXCEPT !.at = "restart", !.n = 1, !.ready = ReadyHosts]
          \/ Trouble /\ Same /\ Close("recovery")
     ELSE \/ Fine /\ Store(Marked(ReadyHosts)) /\ Close(Verdict(FALSE))
          \/ Trouble /\ Hold(Marked(ReadyHosts)) /\ Close("recovery")

NextWorld(at, bad) == co' = [co EXCEPT !.at = at, !.n = @ + 1, !.lost = @ \/ bad]
World(w, state) == [mem EXCEPT !.world[w] = state]
Owed(w) == HostOf[w] \in co.ready /\ w \in mem.was

\* restartAndConfirm, first loop: world w is looked at ...
Restart(w) ==
  /\ co.at = "restart" /\ co.n = w /\ Outside /\ NoCall
  /\ \/ /\ ~Owed(w) /\ Fine
        /\ IF HostOf[w] \in co.ready THEN Hold(World(w, "succeeded")) ELSE Same
        /\ NextWorld("restart", FALSE)
     \/ Owed(w) /\ Trouble /\ Hold(World(w, "failed")) /\ NextWorld("restart", TRUE)
     \/ /\ Owed(w) /\ Up(w) /\ Fine
        /\ IF mem.world[w] = "succeeded" THEN Same
           ELSE IF w \in mem.begun THEN Store(World(w, "confirming"))
           ELSE Hold(World(w, "failed"))
        /\ NextWorld("restart", mem.world[w] # "succeeded" /\ w \notin mem.begun)
     \/ LET m == [World(w, "open") EXCEPT !.begun = @ \cup {w}] IN
        /\ Owed(w) /\ ~Up(w)
        /\ \/ Fine /\ Store(m) /\ Go("starting", w)
           \/ Trouble /\ Hold(m) /\ Close("recovery")

\* ... and started.
StartWorld(w) ==
  /\ co.at = "starting" /\ co.n = w /\ Outside /\ UNCHANGED <<files, writer, receipt, touched>>
  /\ LET held == UNCHANGED <<running, downBy, overdue>> IN
     \/ Launch(w) /\ Heard(w) /\ Fine
        /\ Store(World(w, "confirming")) /\ NextWorld("restart", FALSE)
     \/ Launch(w) /\ Heard(w) /\ Trouble
        /\ Hold(World(w, "failed")) /\ NextWorld("restart", TRUE)
     \/ Launch(w) /\ Heard(w) /\ Trouble      \* the save after it fails
        /\ Hold(World(w, "confirming")) /\ NextWorld("restart", TRUE)
     \/ held /\ (Trouble \/ (~LockFree(w) /\ Fine))
        /\ Hold(World(w, "failed")) /\ NextWorld("restart", TRUE)

\* Second loop: every world started is seen running.
Confirm(w) ==
  /\ co.at = "confirm" /\ co.n = w /\ Outside /\ NoCall
  /\ IF ~Owed(w) \/ mem.world[w] \in {"failed", "succeeded"}
     THEN Same /\ Fine /\ NextWorld("confirm", FALSE)
     ELSE \/ Up(w) /\ Fine /\ Store(World(w, "succeeded")) /\ NextWorld("confirm", FALSE)
          \/ Up(w) /\ Trouble /\ Hold(World(w, "succeeded")) /\ NextWorld("confirm", TRUE)
          \/ ~Up(w) /\ Fine /\ Store(World(w, "failed")) /\ NextWorld("confirm", TRUE)
          \/ Trouble /\ Store(World(w, "failed")) /\ NextWorld("confirm", TRUE)

LeaveLoop ==
  /\ co.n > LastWorld /\ Outside /\ NoCall
  /\ \/ co.at = "restart" /\ Store(mem) /\ Fine /\ Go("confirm", 1)
     \/ /\ co.at = "confirm" /\ co.lost
        /\ Store(mem) /\ Fine /\ Close("recovery")
     \/ /\ co.at = "confirm" /\ ~co.lost
        /\ LET m == [mem EXCEPT !.done = [h \in Hosts |->
                       IF h \in co.ready THEN "succeeded" ELSE @[h]]] IN
           \/ Fine /\ Store(m) /\ Close(Verdict(FALSE))
           \/ Trouble /\ Hold(m) /\ Close("recovery")

-----------------------------------------------------------------------------
(* The way out.                                                            *)

\* Mutant: a release is undone whatever it may have written.
CompensableAlways == TRUE

\* abortBeforeWrite: only a release that never wrote starts its worlds again.
Compensable == ~mem.wrote /\ \A h \in Hosts : mem.write[h] = "not_started"

AbortBeforeWrite ==
  /\ co.at = "abort" /\ Same /\ Outside /\ NoCall
  /\ \/ ~Compensable /\ Fine /\ Close("recovery")
     \/ Compensable /\ Trouble /\ Close("recovery")      \* a lease is lost
     \/ Compensable /\ Fine /\ co' = [co EXCEPT !.at = "recover", !.n = 1, !.lost = FALSE]

\* recoverStoppedShards.
RecoverWorld(w) ==
  /\ co.at = "recover" /\ co.n = w /\ Outside /\ UNCHANGED <<files, writer, receipt, touched>>
  /\ LET held == UNCHANGED <<running, downBy, overdue>>
         begun == [mem EXCEPT !.begun = @ \cup {w}] IN
     IF w \notin mem.was \cap mem.asked \/ Up(w)
     THEN held /\ Same /\ Fine /\ NextWorld("recover", FALSE)
     ELSE \/ Launch(w) /\ Heard(w) /\ Fine /\ Hold(begun) /\ NextWorld("recover", FALSE)
          \/ Launch(w) /\ Heard(w) /\ Trouble /\ Hold(begun) /\ NextWorld("recover", TRUE)
          \/ held /\ (Trouble \/ (~LockFree(w) /\ Fine))
             /\ Same /\ NextWorld("recover", TRUE)

Recovered ==
  /\ co.at = "recover" /\ co.n > LastWorld /\ Outside /\ NoCall
  /\ \/ Store(mem) /\ Fine /\ Close(IF co.lost THEN "recovery" ELSE "failed")
     \/ Same /\ Trouble /\ Close("recovery")

\* failRelease, the last save of execute, and the locks given back.  A lease
\* that was lost meanwhile overrides the outcome.
Ends(m) == rows' = [rows EXCEPT ![co.r] = m] /\ mem' = NoRow /\ co' = AtRest

\* A cancelled release is saved as failed first, then as abandoned.
CancelSaved == IF co.cancel /\ co.stage = "failed" THEN {[mem EXCEPT !.stage = "failed"]} ELSE {}

CloseRelease ==
  /\ co.at = "close" /\ Outside /\ NoCall
  /\ \/ LET stage == IF co.cancel /\ co.stage = "failed" THEN "abandoned" ELSE co.stage IN
        Fine /\ Ends([mem EXCEPT !.stage = stage])
     \/ Trouble /\ Ends([mem EXCEPT !.stage = "recovery", !.ask = FALSE])
     \/ /\ Trouble                                    \* a save fails
        /\ IF mem.ask /\ ~co.cancel
           THEN Hold([mem EXCEPT !.ask = FALSE]) /\ Abort
           ELSE \E m \in {rows[co.r]} \cup CancelSaved : Ends(m)

-----------------------------------------------------------------------------
(* The nodes, Steam, the users and what dies.                              *)

\* The build installed is the one the update was told to expect.
AsExpected(op) == op[3] = newest

\* RunValidated: SteamCMD installs what Steam serves; the node compares it with
\* what was expected, if there still is somebody to compare.
SteamEnds(h) ==
  /\ writer[h] # NoWrite
  /\ files' = [files EXCEPT ![h] = newest]
  /\ writer' = [writer EXCEPT ![h] = NoWrite]
  /\ receipt' = IF writer[h] = Orphan THEN receipt
                ELSE [receipt EXCEPT ![h] =
                        <<writer[h], IF AsExpected(writer[h]) THEN "confirmed" ELSE "failed">>]
  /\ Fine /\ Outside /\ UNCHANGED <<overdue, running, rows, mem, co, downBy, touched>>

SteamFails(h) ==
  /\ writer[h] # NoWrite /\ Trouble
  /\ writer' = [writer EXCEPT ![h] = NoWrite]
  /\ receipt' = IF writer[h] = Orphan THEN receipt
                ELSE [receipt EXCEPT ![h] = <<writer[h], "failed">>]
  /\ Outside /\ UNCHANGED <<files, overdue, running, rows, mem, co, downBy, touched>>

\* An update whose caller gave up begins after all, or is refused.
LateBegin(h) ==
  /\ overdue[h] # NoWrite /\ writer[h] \in {NoWrite, Orphan}
  /\ \/ Writes(h, overdue[h])
     \/ ~MayWrite(h) /\ Refuses(h, overdue[h])
  /\ Fine /\ Outside /\ UNCHANGED <<running, rows, mem, co, downBy>>

SteamPublishes ==
  /\ newest < LastBuild
  /\ newest' = newest + 1
  /\ UNCHANGED <<nodeVars, running, entering, rows, mem, co, downBy, touched, used>>

\* A user starts a world: past the gate, then the call.
Enter(w) ==
  /\ MayShare /\ ~Up(w) /\ w \notin entering /\ used.starts < MaxStarts
  /\ entering' = entering \cup {w}
  /\ used' = [used EXCEPT !.starts = @ + 1]
  /\ UNCHANGED <<newest, nodeVars, running, rows, mem, co, downBy, touched>>

UserStart(w) ==
  /\ w \in entering
  /\ entering' = entering \ {w}
  /\ IF LockFree(w) THEN Launch(w) /\ Heard(w) ELSE UNCHANGED <<running, downBy, overdue>>
  /\ Fine /\ UNCHANGED <<newest, files, writer, receipt, rows, mem, co, touched>>

\* A user stops a world (the room lock keeps it out of a release), or it dies.
\* No release owes the start of such a world.
WorldEnds(w) ==
  /\ Up(w) /\ used.starts < MaxStarts
  /\ used' = [used EXCEPT !.starts = @ + 1]
  /\ running' = [running EXCEPT ![w] = Down]
  /\ UNCHANGED <<newest, nodeVars, entering, rows, mem, co, downBy, touched>>

\* SteamCMD outlives the process that runs it, or dies with it.
Bereave(hosts) ==
  \E left \in SUBSET {h \in hosts : writer[h] # NoWrite} :
    writer' = [h \in Hosts |-> IF h \in left THEN Orphan
                               ELSE IF h \in hosts THEN NoWrite ELSE writer[h]]

\* The controller dies; Migrate marks what it left unfinished.
ControllerDies ==
  /\ used.downs < MaxDowns
  /\ used' = [used EXCEPT !.downs = @ + 1]
  /\ rows' = [r \in GameReleases |->
                IF rows[r] # NoRow /\ rows[r].stage = "active"
                THEN [rows[r] EXCEPT !.stage = "recovery"] ELSE rows[r]]
  /\ mem' = NoRow /\ co' = AtRest /\ entering' = {}
  /\ Bereave(LocalHosts)
  /\ UNCHANGED <<newest, files, receipt, overdue, running, downBy, touched>>

AgentDies(h) ==
  /\ h \notin LocalHosts /\ used.downs < MaxDowns
  /\ used' = [used EXCEPT !.downs = @ + 1]
  /\ Bereave({h})
  /\ overdue' = [overdue EXCEPT ![h] = NoWrite]
  /\ UNCHANGED <<newest, files, receipt, running, entering, rows, mem, co, downBy, touched>>

RelNext ==
  \/ \E r \in GameReleases : \/ PublishRelease(r) \/ Retry(r) \/ RetrySkippingBackup(r)
                         \/ RetryRebased(r) \/ Cancel(r) \/ Finish(r)
  \/ Announce \/ Begin \/ AskStop \/ Stop \/ Recheck \/ Protect
  \/ LeaveWrites \/ SaveNote \/ Written \/ LeaveLoop
  \/ AbortBeforeWrite \/ Recovered \/ CloseRelease
  \/ \E h \in Hosts : \/ LookAgain(h) \/ Settle(h) \/ Inspect(h) \/ Dispatch(h)
                      \/ CallFails(h) \/ Call(h) \/ CallRefused(h) \/ CallUnanswered(h)
                      \/ Answer(h) \/ SteamEnds(h) \/ SteamFails(h) \/ LateBegin(h)
                      \/ AgentDies(h)
  \/ \E w \in Worlds : \/ Restart(w) \/ StartWorld(w) \/ Confirm(w) \/ RecoverWorld(w)
                       \/ Enter(w) \/ UserStart(w) \/ WorldEnds(w)
  \/ SteamPublishes \/ ControllerDies

RelSpec == RelInit /\ [][RelNext]_relVars

-----------------------------------------------------------------------------
(* What the release promises.                                              *)

\* No world is started from files SteamCMD has not finished, and SteamCMD never
\* writes under a running world: the gate, the pending row and the lock file
\* together, across a dead controller, a dead agent and a late update.
WholeFiles == \A w \in Worlds : Up(w) =>
  running[w] # Torn /\ files[HostOf[w]] = running[w]

\* The running worlds of one room were started from the same build, though the
\* installations are written one by one and each write may fail by itself.
RoomsAgree ==
  \A v, w \in Worlds : RoomOf[v] = RoomOf[w] /\ Up(v) /\ Up(w) => running[v] = running[w]

\* What runs was started from whole files, and a room runs one build.
RunsWhole == WholeFiles /\ RoomsAgree

\* While no row holds the installations nothing writes to them, the files are
\* whole, and the build of every release recorded as succeeded, or a later one,
\* is there: no verdict is given on a write whose outcome is not known.
OpenedWhole ==
  (\A q \in GameReleases : ~Pending(q)) =>
    \A h \in Hosts :
      /\ writer[h] = NoWrite /\ files[h] # Torn
      /\ \A r \in GameReleases : rows[r].stage = "succeeded" => files[h] >= rows[r].build

\* "failed" is the stage that opens the installations again without a
\* recovery: no SteamCMD ever ran for such a release, not even late.
FailedUnwritten ==
  \A r \in GameReleases : rows[r] # NoRow /\ rows[r].stage = "failed" => r \notin touched

\* A world a release stopped runs again, or the release is still open, or the
\* user ended it with every installation verified: no world is forgotten.
StoppedRemembered ==
  \A w \in Worlds : downBy[w] # 0 /\ rows[downBy[w]].policy[2] =>
    \/ Pending(downBy[w])
    \/ rows[downBy[w]].stage = "abandoned" /\ Verified(rows[downBy[w]])

\* The stage that is recorded at the end of a release is true of the installations
\* and of the worlds: an end says that the files are whole, a failure that nothing
\* was written, and either that the worlds are back.
VerdictsHold == OpenedWhole /\ FailedUnwritten /\ StoppedRemembered

=============================================================================
