# Verification of dst-admin-go

dst-admin-go manages Don't Starve Together servers. A *controller* process serves the
HTTP API, keeps its state in SQLite and runs long operations as background jobs. It
works on game rooms of its own machine, and, through a WebSocket *gateway*, on rooms of
remote *agents*. A room is a cluster of shards (game processes); an operation on a room
(start, stop, edit, back up, migrate, update) must have the room for itself, and must be
done once even if connections break, callers give up and processes restart.

This directory has TLA+ modules for the parts of that machinery that carry the
guarantees, configurations that model-check them with TLC, and proofs checked by TLAPS.
Each module names the code it models; `PROJECT.json` maps every definition to its lines.

## 1. Inventory

### How an operation travels

1. An HTTP handler validates a request and submits a *job* (`internal/jobs`). The job's
   runner is a goroutine; listeners are told of its result; a restart fails what was
   interrupted.
2. The runner takes the *room locks* of this process (`internal/roomops`) in sorted
   order, and, for remote rooms, the room's *operation lease* in the database
   (`internal/operationlease`), which has a *fencing token*.
3. The request goes out as a command of the *command channel*: the gateway
   (`server/server.go`) records and sends it, the agent (`agent/agent.go`) queues,
   acknowledges, executes and answers it; the caller waits for the record to change.
4. The agent's *operation journal* (`agent/shard_operations.go`,
   `agent/runtime_operations.go`) decides from token, lease and operation key whether the
   request is new, a repeat, or from a lease that is over, and writes that down before
   anything is done to the game.

### Components

| component | state | operations | what is hard | what makes it correct |
|---|---|---|---|---|
| room locks, `internal/roomops` | table room -> entry (a one-slot channel and a reference count) | Acquire, TryAcquire, AcquireMany, re-entry through the context, release | entries are dropped and made again while others wait; cancellation at every wait | one owner per room; the table is exact; no token lost or doubled; no cycle of waiting |
| operation leases, `internal/operationlease` | one row per room: id, key, token, expiry | Acquire with retries, Renew, Release | decisions on an old clock reading; racing callers; callers that die; shared keys | nobody is robbed of a live lease; tokens rise and identify a lease |
| agent journal, `agent/shard_operations.go`, `agent/runtime_operations.go` | per room: token, lease, records of operations, in memory and in a file | begin, finish, trimming, load | repeats, reordering, failed saves, death between two steps | admission in token order; at most once; a result means an execution |
| command channel, `server/server.go`, `agent/agent.go` | command records and their notification channels; queues, workers, pending count; the connection | send, acknowledge, progress, answer, wait, clean up, pause | broken connections, late and overtaking messages, a full queue, lost wake-ups | a sleeping waiter is woken; a refused command does not run; a pause is exclusive; a command settles |
| background jobs, `internal/jobs` | job and target rows; table of cancel functions; pause flag | submit, cancel, run, report, complete, notify, recover, prune | crash anywhere, database errors, cancel and pause racing a submission, a reload that keeps the process | an ended job stays as it is and its verdict is true; nobody recovers a live job; every job ends |
| job events, `internal/jobs`, `internal/httpapi/jobs_handler.go` | event table, broker, SSE cursors | publish, subscribe, replay, reset | retention overtakes a slow reader; one-slot signals | a reader misses no event without being told |
| runtime reload, `routers/runtime_host.go`, `runtime_reload.go` | current runtime, reload barrier | Reload, restore | a failed start-up half way; requests in flight | old or new runtime, never both |
| installation gate, `internal/installationmaintenance/gate.go` | readers and a writer per installation | enter, maintain | waits in both directions | no game runs on an installation that is being replaced |
| configuration publication, `internal/configuration`, `internal/configpublication` | on every target: staged files, saved files, a receipt; the publisher keeps its progress in memory only | begin, write, prepare, publish, complete, roll back, apply | death between two renames; requests executed after their sender gave up; a publisher without its lease | all targets have all files or none; a rollback never undoes a successor |
| migration and transfer, `internal/placementmigration`, `internal/shardtransfer` | the placement and its revision; export, import, receipt and archive on the machines; the coordinator's flags, in memory | migrate, with two deferred clean-ups | two machines, each step can fail, take effect unseen, or be late | the placed machine has the world; it is never lost; what is undone leaves nothing |
| room provisioning, `internal/roomprovision`, `internal/rooms/provision_cluster.go` | the operation's row and its steps; imports on the targets; the room's cluster.ini with its stage and marker; the placement | provision, recover | restart between any two saves, late calls, a recovery with an outdated row | no world runs in two places; the row's verdict is true |
| distributed backup, `internal/distributedbackup`, `internal/shardtransfer/backup.go` | sets and their parts; the operations' rows; on the machines a descriptor, a receipt, the kept world and the marker | back up, restore, roll back, recover, delete | parts on several machines, death between two saves, a rollback that is cut short | worlds start on saves of one generation; the row's verdict is true; a set that is needed is there |
| game updates, `internal/gameupdate` | the release's row, the coordinator's copy of it, receipts and SteamCMD on the nodes | publish, retry in four ways, cancel, finish | SteamCMD outlives its parent; answers get lost; one installation of several fails; a new build on the way | worlds run from whole files of one build; what was stopped is started or remembered |
| mod publication, `internal/modpublication` | the publication's row; leases; the attempt's copy | prepare, publish, decide, complete, roll back, recover | partial failure, ambiguous saves, late calls, two attempts | the decision binds every installation |
| mod distribution on a node, `internal/moddistribution` | targets, stages, backups, a journal, installations.json | prepare, publish, complete, roll back, recover | death between two renames, users' edits | a release is there whole or without a trace; edits are kept |
| runtime drivers, `internal/runtimedriver` | none of their own | local or remote execution of an operation | what a caller does when the answer does not come | an unknown outcome is not taken for a failure |
| console dispatch, `internal/consoledispatch` | queues per world | send, drop, prioritise | starvation, shutdown | order and bound |
| automation, `internal/automation` | schedules, runs | tick, execute | missed and double ticks | a due run is done once |
| key rotation, in `server/server.go` and `agent/agent.go` | old and new keys, sessions | start, acknowledge, commit | one side commits, the other does not | the two can always talk |
| game notifications, runtime observation, agent registry, shard control, self-update, HTTP API, AI tools, parsers | see `PROJECT.json` | | mostly sequential, or the operating system's | |

### Interactions

* jobs -> room locks: by nested calls; the context that carries a held room makes a second
  Acquire a no-op.
* room locks -> leases: a room lock excludes goroutines of one controller process, a lease
  excludes operations of the control plane on a remote room across processes and restarts.
* leases -> journal: by the token and lease id in every request; the agent never asks the
  controller, it compares.
* gateway <-> agent: an ordered connection, replaced by another when it breaks.
* reload -> jobs: `PauseIfIdle` is what lets a reload replace the job service in place.
* configuration publication, migration, provisioning, mod publication, game releases and
  backups -> leases, channel and journal: their requests can be lost, executed late, refused by the
  fence, or executed without an answer. Their modules have exactly these outcomes, under
  tokens that rise, instead of the channel itself.
* mod publication -> mod distribution: every target of the first is an instance of the
  second, reduced to the phase of its open release; a restart of its agent runs Recover.
* game releases -> installation gate: the gate in memory, the pending rows after a crash,
  and the lock file on the node keep worlds and SteamCMD apart.

### Hazards

The list in `PROJECT.json` gives for every hazard its line and the properties that would
catch it. Those that shaped the models most: the reference count that decides whether a
lock entry is dropped (coordinator.go of the locks); the clock that is read before the
transaction (service.go of the leases); the save that fails after its rename
(private_file.go); the row that is visible before its cancel function is registered
(service.go of the jobs); the recovery that runs in a process which has not died
(runtime_host.go); the request that is executed after its sender has undone it (all of the
operations over several machines); the row that a recovery read before it waited for the
room (roomprovision, modpublication, distributedbackup); and the save that took effect and reported an error
(roomprovision, modpublication, gameupdate).

## 2. The modules

Common conventions. A step is what the code does without another goroutine, process or
machine being able to come between: a critical section, one SQL statement or one
immediate transaction, one channel operation, one file replacement. Data that no
property tells apart (names, messages, options, byte counts) is left out or is a model
value. `Max...` constants are bounds of the instances and appear only in guards. An
operator whose comment says "Mutant" is a plausible bug of the operator after it; no
specification uses it, it is there to show that a property would notice.

### RoomOps, RoomMutex (src/internal/roomops/coordinator.go)

`locks` is the table, `token[e]` and `refs[e]` an entry's channel and count, `entry[c][r]`
the pointer an operation captured, `stage[c][r]` its place in `acquire` or `release` for
one room. The actions follow the code: `Register` is the critical section that finds or
makes an entry, `TakeToken` the receive, `WaitCancelled`, `TryBusy` and `TakenCancelled`
the three ways out without the room, `Granted` the return; `ReturnToken` and
`ReleaseReference` are the two halves of a release, `RepeatRelease` a second call of the
closure that sync.Once absorbs. `BeginWait` is AcquireMany with any set of rooms (Acquire
is a set of one), `BeginTry` is TryAcquire, `Nest` an Acquire under a context that already
has rooms. Room keys are integers in the order `sort.Strings` gives; an operation that
nests takes only keys above the ones it has, which is how the callers in the repository
nest (a workshop key under a room key).

`RoomMutex` is what the lock promises: an owner per room that changes by taking a free
room and by giving one up. `RoomOps` implements it with the owner being whoever has the
room's token.

### OperationLease (src/internal/operationlease/service.go)

One room: its `row`, a `clock`, and callers with a lease value and the local variables of
the call they are in. `Acquire` is `Stamp` (the clock reading), one of the four outcomes of
the SELECT, then `Create` or `Update`, with retries; `Renew` and `Release` are a reading
followed by a statement. Statements of a call are separate steps: the database is opened
with `_txlock=immediate`, so fewer interleavings are possible today, but the service
repeats its conditions in the WHERE clause and retries, and the model shows that this is
enough by itself. `Abandon` is a caller that dies or an error after a commit; `RenewFails`
an error before or after the statement took effect. `KeyOf` may give several callers one
key, as console, CPU and migration operations of one world do.

### AgentJournal (src/agent/shard_operations.go, runtime_operations.go; src/shared/private_file.go)

One room of an agent: `mem` and `disk` are the room in memory and in the file, workers
take requests from a set in which every request may come again at any time, in any order.
`BeginRemembered`, `BeginFenced`, `BeginSaved` and `BeginUnsaved` are the outcomes of
begin/beginRuntime; `Finish` is finish/finishRuntime with trimming and a save that may
fail; `Launch` is the early unlock of a start; `Crash` loads the file. Shard operations and
Runtime operations have a map each and share the room's token. What the operation does to
the game is the time between an admission and `Finish`. `log`, `ended` and `forgotten` are
history variables. Any completed record can be the oldest when the map is trimmed, because
the time stamp was read anywhere between the request and the end of the operation.

### CommandChannel (src/server/server.go, src/agent/agent.go)

The gateway's records, the wire, the agent's queues and workers, and callers of
WaitCommandResult. The connection is ordered, can break at any time and be replaced;
a message that a reader has in hand when it breaks may still be handled. `via` is the
connection a command is sent on and, once dispatched, answered on. `RecordCommand` ...
`SendPanics` are sendCommandPayload; `TakeAck`, `TakeProgress` and `TakeResponse` the
gateway's handlers; `Dispatch`, `Acknowledge`, `Take`, `Execute`, `Report`, `Respond` the
agent's side; `Pause` and `Resume` are PauseCommandsIfIdle; `BeginWait`, `Check`, `Wake`,
`GiveUp` a waiter, with `holds` the channel it captured under the mutex. `Cleanup` is a
round of cleanupCommandResults. The clock and the death of the agent are modelled as
external: they are no function of the source.

### Jobs (src/internal/jobs/service.go, store.go, types.go; src/routers/runtime_host.go)

`rows` are the job and target rows, `runner` the goroutine of `Service.run` with its
program point, `cancels` the keys of the table of cancel functions, `submitting` the job
that has a row and no goroutine yet. A store method is one immediate transaction and one
step. `FaultPoints` says which transactions may report an error. `Crash` then `Start` is a
new process, `Reload` is RuntimeHost.apply, which makes a new service in the same process
with a paused one; both run RecoverInterrupted, `RecoverJob` by `RecoverJob`. `Prune` takes
one ended job although a pass of retention deletes many in one transaction: this only adds
interleavings. Events and the broker are in JobEvents.

### JobEvents (src/internal/jobs/service.go, store.go; src/internal/httpapi/jobs_handler.go)

`table` has the ids of the stored events, `last` the id given last, `unpublished` the events
that are committed and whose goroutine has not yet called Publish. A reader's handler is a
`stage`: `Subscribe`, `Window` (the comparison of the cursor with the smallest and largest
stored id), then `Read`, `Write` and `Written` in turns with `Wake` or `Heartbeat`. `signal`
is the slot of its channel. `Prune` deletes events up to an id (by age and by number) and
those of deleted jobs. `Disconnect` is a broken connection, a failed read, or the reload's
barrier, which cancels streams; the client keeps its `after`. `missed` and `late` are
history variables. Publish without an event (`Notify`) is left out: it only adds a wake-up.

### ConfigPublication (src/internal/configuration/publisher.go, src/internal/configpublication)

`live[t][f]` is the publication that wrote a file, `dir[p][t]` the operation directory of a
publication on a target (staged data, saved files, receipt), `work[t]` the handler that has
the cluster's lock, file by file; `stage`, `target`, `begun` and `answer` are the publisher's
local variables, `inbox` the requests nobody has begun. A publisher goes through the targets
step by step, renews its lease between them, and on an error rolls back in reverse order;
`apply` is the single request for a small save to one target. `MaxUpsets` bounds the errors
that nothing in the model makes necessary. `dirty` marks a publication that may leave
something behind by the code's own admission: an undo that failed, a publisher that died (it
is not persisted), a direct Apply that was cut short (it has no rollback).

### PlacementMigration (src/internal/placementmigration, src/internal/shardtransfer, src/internal/topology)

One world and two machines. `mig[i]` are the local variables of Migrate with its flags, `calls`
the requests on their way, `disk[h]` the world's directory with its marker, and `export`,
`import`, `receipt`, `archive` the files of the transfer manager. The clean-up is the code's
two deferred functions in order (`UndoOrder`). CommitImport has two halves, the rename and the
receipt, and an agent may die between them (`torn`, excluded from `Settled`, since the copy
really stays). `astray` marks a placement that was written by a call which reported an error:
the coordinator's flag then says that it was not, and `PlacementServed` does not speak of it.
`EditPlan` is a user's edit of the plan; it makes the revision of a migration outdated.

### RoomProvision (src/internal/roomprovision, src/internal/rooms/provision_cluster.go)

`operation`, `steps` and `wasUp` are the rows; `worker` is the run that holds the room's lock,
with its own copies of them, at one of the places "save of the row", "save of a step", "call"
or "local act"; `request` is a recovery that has read the row and waits for the lock. A save
fails before or after it took effect; a call fails before or after, or stays in `tardy` to be
executed later. Each handler of a target is one step (PlacementMigration takes them apart).
Four history variables mark what the code does not handle, and the properties exclude exactly
that; each exclusion is needed, TLC finds a violation without it:

* `misdecided`: the save of commit_decided took effect and reported an error: the run undoes
  what the row calls decided, and dies or fails before it has written so;
* `overtaken`: a recovery waited for the lock with a row that changed meanwhile: it undoes a
  provisioning that succeeded and starts the sources beside the targets;
* `unmarked`: cluster.ini was replaced and the marker "published" was not written: the
  rollback keeps the new file and deletes the saved one;
* `intruded`: a begin that was given up creates an import again after the rollback.

Two more behaviours of the code are reachable here and violate no property: CompleteTarget
is not idempotent, so that a completion whose answer or whose saved step is lost leaves the
operation in recovery_required for good; and an error in the save of "uploading" returns
without undoing anything, until the next start.

### ModDistribution (src/internal/moddistribution; src/agent/mod_operations.go)

One installation. `disk[t]`, `staged[r][t]` and `saved[r][t]` are a target, its stage file and
its backup, `journal[r]` the release's journal, `last` what installations.json names, `work`
the handler under the manager's mutex. The actions are single renames and writes; `Crash` may
fall between any two, and a process that came up runs `Recover` before anything else. `Edit`
is a user, or Steam. Rollback of a release whose Complete was called is not asked for: this is
what the coordinator does (transaction.go:162, recovery.go:66), and an assumption here.

### ModPublication (src/internal/modpublication)

`record[p]` is the row, `attempt[a]` what a run of the coordinator has in memory (the first
publishes, later ones recover), `holder` the attempt with the leases, `release[i]` the open
journal of an installation (ModDistribution reduced to its phase), `seen[i]` its fence. A call
fails before or after its effect, or is in `delayed`; a save fails before or after; `Lapse`
takes the leases away, `Die` the controller, `Reboot` runs an agent's recovery. `reached` and
`finished` are history variables.

### GameRelease (src/internal/gameupdate, src/internal/installationmaintenance, src/agent/game_version_operations.go)

`rows[r]` is the release's row and `mem` the coordinator's copy, `co` the place where it is;
per installation `files`, `writer` (the SteamCMD process), `receipt` and `overdue` (an update
nobody waits for any more); per world the build it was started from. The stages that only say
how far a running release is are one value. `Enter` is a user's start that passed the gate,
`UserStart` its effect; `SteamPublishes` a new build between the preview and the update;
`ControllerDies` and `AgentDies` leave an orphaned SteamCMD that may finish or not.

### BackupRestore (src/internal/distributedbackup, src/internal/shardtransfer/backup.go)

The cold backup of a room, and its restore. `table[k]` is the operation's row, `run` the
operation, recovery or deletion that holds the room with its copy of the row, `node[w]` what
the machine of a world has of it: descriptor, receipt, the world (`save`), the one that was
moved away (`kept`), the marker, the shared files (`conf`) and their copies (`spare`). `source`
is the set that is restored and may be deleted, `backup` the one that is made. A handler of a
machine is an operator from what it finds to where it may be cut short and where it ends
(`Publishes`, `RollsBack`, `Completes`); a call is answered, refused, cut short, executed
without an answer, or executed later, unless the machine has met a newer token by then. `Plea`
is a recovery a user asks for: it reads the row and waits for the room. `RecoverDeletions` and
`RecoverOperations` are the start-up recovery, beside which users already act.

What the code does not handle is kept out of the properties by name; TLC finds a violation
without each of these:

* `outdated`: a recovery went on from a row that had changed while it waited: it stops the
  worlds of a restore that has ended, undoes parts of it, and opens its row again, also after
  its set was deleted;
* "unsure": a backup made while a restore is unfinished holds parts of two generations and is
  called verified, and it starts the worlds over them; nothing refuses it;
* shared files may be gone (`AllOf`): a rollback removes its copies of them before the receipt,
  and when it is repeated it takes files without a copy for new ones;
* a backup that failed ends before its worlds are started: after a death in between nothing
  starts them. And when finalizeSet fails, failCreate gets an empty set: the real one stays
  "creating", which Delete refuses, with no operation left to recover it.

## 3. What TLC checks

Twelve runs; six pass and six show a disagreement between the code and its documents. Every
property of a passing run has a mutant in `PROJECT.json` that violates it.

A passing run's module puts two to four components side by side: a variable `focus` is chosen
at first and says which component moves; the others stay as they began. The components of a
run share no variables, so a behaviour of the run is a behaviour of one component, and a
property of one component is checked on all of its behaviours. What they have in common with
each other and with the lower layers (leases, fences, late calls) is inside each of them.

| run | components and instance | states | properties |
|---|---|---|---|
| progress | RoomOps: 2 operations, 2 rooms, 2 entries; Jobs: 1 job, 2 targets, 2 errors outside the sweep, 2 crashes or reloads | 38 thousand | `TableExact`, `ImplementsMutex`, `WaitEnds`; `SuccessIsReal`, `OnlyDeadRecovered`, `JobEnds` |
| fencing | OperationLease: 3 callers, 2 with one key, TTL 2; CommandChannel: 1 command, 2 waiters, 2 progress reports, 2 connections | 1.6 million | `LeaseCurrent`, `TokenIdentifiesLease`, `NeverStolen`; `NoLostWakeup`, `RecordForward` |
| durable | AgentJournal: 2 workers, 7 requests of 3 keys and 2 leases, 1 remembered per map; Jobs: 2 jobs, 1 target, 1 error anywhere, 1 crash or reload | 1.1 million | `FencedOrder`, `AtMostOnce`, `RecordsReal`, `RejectedNeverRan`; `NoOrphan`, `TerminalFinal` |
| stream | JobEvents: 1 reader, 3 events of 2 jobs, pages of 2; CommandChannel: 2 commands, 1 slot, 1 worker, 2 connections | 0.18 million | `NothingMissed`, `EventsArrive`; `PauseExclusive`, `RetrySafe`, `Settles`; `StreamTypeOK` |
| room_changes | ConfigPublication: 2 publications, 2 targets, 2 files, 3 errors; PlacementMigration: 2 migrations, 1 late call, 1 error, 1 edit; RoomProvision: 3 worlds, 2 moved, 1 error, 1 death, 2 recoveries, 1 edit | 1.1 million | `AllOrNothing`, `NoClobber`; `WorldServed`, `Settled`; `ProvisionServed`, `ProvisionSettled`; `ChangesTypeOK` |
| releases | GameRelease: 2 installations and worlds of 1 room, 2 tries, 2 builds, 1 trouble, 1 death, 1 user; ModDistribution: 3 releases, 2 targets, 2 crashes, 1 edit, 1 error; ModPublication: 2 publications, 2 installations, 2 attempts, 2 mishaps, 1 late call, 1 reboot; BackupRestore: 2 worlds, 3 leases, 2 faults, 1 recovery on request, 1 late call | 1.7 million | `RunsWhole`, `VerdictsHold`; `ReleaseAtomic`, `EditKept`; `DecisionObeyed`, `RecoveredClean`; `SafeStart`, `BackupSettled`, `SourceKept`; `ReleasesTypeOK` |
| command_cleanup | 1 command, 1 waiter | violation | `RecentKept`, finding 1 |
| jobs_sweep | 1 job, an error in the sweep | violation | `SuccessIsReal`, finding 2 |
| jobs_cancel | 1 job, nothing fails | violation | `CancelHonoured`, finding 3 |
| migration_target | 1 migration, 1 error | violation | `TargetStopped`, finding 4 |
| mod_decision | 1 publication, 1 restart of an agent, nothing fails | violation | `DecidedForward`, finding 5 |
| mod_unchanged | 2 releases with the same contents, nothing fails | violation | `JournalReadable`, finding 6 |

### Why the bounds are enough

* room locks: two operations and two rooms are the smallest instance with a cycle of waits,
  an entry that is dropped and made again while somebody waits, and a waiter cancelled
  while the token arrives. The safety properties are proved for any number.
* leases: TTL 2 lets a renewal extend a lease, and the clock passes an expiry while a
  call sits between its reading and its statement. Three callers make a loser of every
  race and a third that comes after it. Proved for any number.
* journal: the requests have a repeat under a newer lease, a repeat with another
  body, an outdated token and one token under two leases (as after a restored database);
  one remembered operation per map makes trimming happen.
* command channel: two waiters share or replace a notification channel; two progress
  numbers can overtake; the clock runs far enough to clean up a finished record as well as
  an open one; a second connection and a crash are allowed at any point. A slot and a worker
  for two commands make a refusal of the second while the first is queued, taken or running,
  before and after a reconnection.
* jobs: a second job is needed for pauses and submissions only (durable); a second
  target for partial outcomes, a second crash for a recovery that is interrupted
  (progress).
* job events: readers share nothing but the table, so one is enough; three events and
  pages of two make a full page, a gap after a kept cursor, and an event that is committed
  while another waits to be published.
* configuration: the second publication has one of the two targets, so that the first can be
  undone under it; one file exists before and one does not; three errors are one to fail a
  step, one to fail its undoing, and one for the successor. Without a bound on the errors the
  component has 1.9 million states and the properties hold as well.
* migration: forth and back is what lets a late call of the first meet the second. Larger
  instances, with 2 errors (2.0 million states) or 3 revisions (4.5 million), hold as well.
* provisioning: three worlds make an order in which one that stays is before two that move;
  two recoveries let one be cut short, and let one be overtaken. With 2 errors (6.2 million
  states) the properties hold as well.
* game releases: two installations under one room are what can disagree; two tries let a retry
  meet what the first left. Larger: 2 troubles (2.5 million), 2 rooms with 3 tries and 2
  troubles (8.4 million), 2 releases with 2 troubles (3.1 million).
* mods: three releases over two targets let a release change one target, the other, or both;
  two crashes let a recovery be cut short. Two attempts are a publication and its recovery.
  Larger: 3 attempts (4.5 million), 3 installations with 3 attempts (1.8 million).
* backups: two worlds are what can be of two generations, or half published; three leases let
  a backup, a deletion or a second recovery follow an operation and its recovery; two faults
  let a step fail and its rollback be cut short, or the controller die over it.

Deadlock is checked in progress, durable and stream: what has nothing left to do there stutters
by an explicit step, and nothing else may stop. In fencing, room_changes and releases the bounds
on time, leases, operations and errors make a behaviour come to rest.

### Fairness

* RoomOps: a goroutine that can run does; whoever holds rooms releases them; a receiver on
  a Go channel is served in turn (strong fairness of the receive). No fairness for
  starting, nesting and cancelling.
* CommandChannel: messages are read, workers run, handlers end, waiters run. No fairness
  for connecting, pausing or resuming. `Settles` does not speak of a command whose
  connection is lost: nothing then settles its record, and the waiter's own deadline is
  what ends the wait.
* Jobs: goroutines run, runners return (each has timeouts of its own), a dead process is
  started again. `JobEnds` excludes a job that a database error left without a goroutine,
  until the next start.
* JobEvents: committed events are published and handlers run. Nothing is asked of the
  15-second heartbeat, which would hide a lost signal, nor of clients.
* The operations over several machines are specified without fairness: what is checked of
  them is safety. Several of them may stop for good by design (recovery_required waits for a
  user), so that "it ends" is not among their promises.

`NothingMissed` is about cursors that name an event. With cursor 0 the handler cannot see a
gap: a client that connected to an empty table, broke off, and resumes while the table is
empty again is not told that events came and went. Nor is a client told of events in the
middle of the table that were deleted with their jobs. No document promises either.

### Findings

1. `command_cleanup`: cleanupCommandResults compares EndTime, which is 0 for a command in
   flight, so the daily pass deletes open commands, however recent; its comment says the
   records of the last seven days are kept. Waiters then get "not found", and the error
   paths of sendCommandPayload look up a missing record.
2. `jobs_sweep`: run ignores the error of the write that fails an unreported target, and
   Complete counts only failed and canceled ones: the job is succeeded in full with a
   target still running. A companion document relies on that verdict.
3. `jobs_cancel`: a cancel that comes between the job's row and the registration of its
   cancel function is accepted and has no effect, although the documentation says that
   canceling a job cancels what follows.
4. `migration_target`: a start of the target that takes effect and reports an error is not
   stopped by the clean-up, whose flag is set after a start without an error only; the
   documentation says that a failed start of the target stops the target.
5. `mod_decision`: an agent that restarts between the commit decision and Complete rolls the
   published release back, since its own journal does not know of the decision; the
   documentation says that recovery only goes forward after the decision.
6. `mod_unchanged`: a release that changes nothing on a node has a journal without mutations,
   which every later call refuses to read: it can be neither published nor rolled back, and
   blocks the node's later releases.

## 4. What is proved

The theorems hold for every value of the constants that satisfies the assumptions in the
modules: finite sets of callers, rooms and commands (the code only ever has finitely many),
positive tokens, page sizes and TTL, and reserved values (no entry, no record, no job) that
are outside the data. Every bound of an instance is an arbitrary natural number here. The
proofs about one component are in one module; the journal of the agent, the channel that
brings it its commands and the stream of job events share CommandProofs, the publication of a
configuration and the migration share RoomChangesProofs, and the operations that publish mods
share ReleasesProofs.

**RoomOpsProofs.** Mutual exclusion is not inductive: two operations could hold two entries
of one room. `LockInv` adds that everybody who counts on an entry counts on the table's
(`EntryCurrent`), which needs the reference count to be exact (`NoEntryLeak`), that the
token is in the channel or with one operation (`TokenConserved`), and that two rooms do not
share an entry (`EntriesDistinct`). From it: `TypeCorrect`, `RoomsAreExclusive`,
`TableIsExact` (the run's `TableExact`), and `LockImplementsMutex`, the refinement, in which
every step maps to taking a free room, giving one up, or a stutter.

**OperationLeaseProofs.** `LeaseInv` ties token, lease id and the number of stored leases
together and keeps clock readings in the past; it gives `LeaseTypesHold`,
`TokensIdentifyLeases` and `LeaseIsNeverStolen` however keys are shared. `OwnInv` adds that
the copy of an operation with its own key does not outlive the row, that a replaced copy is
over, and that no expiry is further away than one TTL (so a renewal with an old reading
does not shorten a lease below the copy); it gives `LeaseStaysCurrent`.

**CommandProofs: the journal.** Admission is decided from memory, and a restart replaces memory by
the file, so `JournalInv` says of both copies what they know of every admitted request: its
token is not above the copy's, the copy's lease is the one admitted under its token, its
key is recorded or was trimmed. A save that fails before or after the rename keeps that.
From it: `JournalTypesHold`, `AdmissionIsFenced`, `AdmissionIsAtMostOnce`,
`RejectionIsFinal`. `RecordsAreReal` rests on `RealInv`: a result in memory, and one in the
file, is that of an execution that ended, so a restart or a failed save invents none.

**CommandProofs: the channel.** None of the four properties is inductive, because each is about a
record while the command and the messages about it are elsewhere. `ChannelInv` follows a
command: it is on the wire once, or in one queue, or in hand (`WireInv`, `QueueInv`); a
message says only what that place allows, so a refusal is on its way only for a command
that can no longer reach the agent (`AnswerInv`); the record tells how the command got there
(`RecordInv`) and a waiter's channel is that of its record (`WaiterInv`). The counter of
pending commands is the cardinality of the commands the agent holds, hence the finite set.
From it: `ChannelTypesHold`, `WakeupsAreKept` (`NoLostWakeup`), `PauseIsExclusive`,
`RetriesAreSafe`, and the action property `RecordsMoveForward` (`RecordForward`).

**JobsProofs.** `JobsInv` says which program point of run goes with which status (`Stages`),
that the table of cancel functions is exactly the jobs with a goroutine (`Registered`), that
a service that is not up runs nothing (`DownQuiet`) and that a job being submitted is queued
and idle (`SubmitFresh`). From it: `JobsTypesHold`, `PauseIsQuiet`, `ListenersSeeCommitted`,
`JobsAreAttended`, `RecoveryFindsTheDead`, `EndedJobsStay` and `ProgressNeverRegresses`.
`VerdictInv` adds that in the sweep every target without a result is still to be swept; with
the assumption that the sweep's writes do not fail (finding 2) it gives `SuccessIsEarned`.

**CommandProofs: the stream of job events.** `NothingMissed` looks at a reader that sleeps or holds a cursor;
`EventsInv` says what is true on the way there. Age and number delete from the front, so an
event missing behind a stored one was deleted with its job (`PrunedByAge`); behind the cursor
and behind every event of a page nothing is missing without an excuse (`CursorGaps`,
`PageGaps`); a page has no holes (`PageDense`) and, unless it was cut off or a signal came
since, nothing stored lies after it (`PageComplete`). From it: `EventsTypesHold`,
`NothingIsMissed`.

**RoomChangesProofs.** For ConfigPublication. `PubInv` adds to the types that a publisher at
work is at a target (`AtTarget`) and the argument of the fence (`FenceInv`): the request a
target has in hand carries the token of its fence, no file is newer than the fence, and what
an operation directory saved is older than its publication, so that a rollback cannot bring
back anything that a later publication wrote. From it: `PublicationTypesHold` and
`NothingIsClobbered` (the action property `NoClobber`).
`AllOrNothing` speaks of files and of publishers that have ended, and nothing that a target does
can see both. `WholeInv` therefore says of a publication and a target whether it stands there, is
undone or is halfway (`Stands`, `Undone`, `Halved`), from the stage of the publisher and the
operation directory, and of a target what it has at any moment (`Level`): as long as no earlier
publication is halfway there, its files are those of the last publication it admitted if that
one stands, what the publications before left (`BaseOf`) if it does not, and what that one has
saved is just that; in the middle of a step, file by file. The step that needs it is the one
that admits the first request of a new publication: what was "the last" becomes "before". The
rest says what makes that true: the loops of a publisher and what they have behind them (`Loops`,
`Yields`), and that a request still on its way is the one its publisher waits for, one that was
given up before a rollback of the same targets, or a Complete (`Calls`), so nothing late can
publish behind a rollback that was confirmed. All of it is claimed only while every undoing was
confirmed (`Clean`), which is the condition of the property itself; once an undoing failed it is
never claimed again. From it: `PublicationIsWhole` (`AllOrNothing`).
For PlacementMigration, `MigInv` says of each migration how far its local
variables must have come at its step (`CourseOf`), which requests of it may still be on their
way and to whom (`CallsOf`), that what the placement and the machines have recorded fits that
(`TokenOf`, `HalfwayOf`, `ArrivedOf`, `CommittedOf`, `AwayOf`), and, what carries the proof, that
an undecided copy of a world is never alone (`MarkOf`): the other machine holds the world, and
not as an undecided copy of another migration. So whatever the clean-up of a failed migration
deletes, late or not, is not the last copy. From it: `MigTypesHold`, `WorldIsServed`
(`WorldServed`) and `MigrationIsSettled` (`Settled`).

**RoomProvisionProofs.** The two properties speak of the placement, the copies and the
processes; a run acts on the rows, and a recovery only on the rows. `ProvInv` therefore has two
parts besides the types. `Ground` says what the rows say of the world, whoever runs: before the
decision no copy is live and no target runs a world, a step's row that says "not started" or
"rolled back" is true of the copy, and a call that is still on its way is one transfer or an
undo, so none can publish a copy that the rollback has deleted (`UndecidedTrue`); after it every
copy is published, no moved world runs at home, and late calls lead forward (`OnwardTrue`); a row
that has ended tells the truth (`EndTrue`). `Going` says what a run supposes at its place: that
its direction is that of the row (`Headed`), which a recovery checks against a row it read
earlier; that on the way out nothing has failed, so that the copy of each world follows from the
place (`OutTrue`); and what each of the loops back and forward has behind it (`UndoTrue`,
`RestoreTrue`, `OnTrue`). A death drops `Going` and keeps `Ground`, from which the first step of a
recovery restores `Going`. The parts but the types hold until the model's history says
`misdecided` or `overtaken`, the exclusions of the properties themselves. From it:
`ProvTypesHold`, `ProvisionIsServed` (`ProvisionServed`) and `ProvisionIsSettled`
(`ProvisionSettled`).

**ReleasesProofs.** For ModDistribution, `DistInv` says that at most one release has a
journal (`OneJournal`), that only its targets have a stage or a backup (`Litter`), how
installations.json and the phase of the journal go together (`Sides`), for each target what
stage, backup and content can be at once (`OpenRelease`, with `Mutation` for a target on its
way there or back), and how much of its loop the handler has behind it (`Handler`, one part
per loop). A crash only drops the handler, so the first four must hold without it. From it:
`DistributionTypesHold`, `ReleasesAreAtomic` (`ReleaseAtomic`) and `EditsAreKept` (the action
property `EditKept`). For ModPublication, `ModInv` says what an attempt
has behind it at its step: what is published, what is committed, and, in a recovery without a
decision, what is closed, with a token that shuts out the attempt before (`AttemptsInv`); that
there are no more tokens than attempts (`TokensInv`) and the attempt that publishes has a lower
one than every recovery of it (`Overtaken`); that a late call carries the token of the attempt
that made it (`DelayedInv`); and what a row that is new, decided or recovered says about the
attempts and the installations (`RowsInv`). From it: `ModTypesHold`,
`DecisionIsObeyed` (`DecisionObeyed`) and `RecoveryIsClean` (`RecoveredClean`).

**BackupProofs.** `BackupInv` says which run can be at which step
(`RunInv`), that the restore that holds the room is open in its row unless a recovery went on
from an outdated one (`OpenInv`), that a recovery is asked for an open operation only
(`PleaInv`), that an operation has one row (`MadeInv`) and how far a deletion got
(`DeleteInv`). From it: `BackupTypesHold` and `SourceIsKept` (`SourceKept`): Delete takes the
room and finds no open restore, and no step that opens one can come before it ends.
`SaveInv` follows the saves. What a receipt says of the world beside it holds on every machine by
itself, wherever a call broke off (`Shape`); the rest says what the coordinator may conclude from
its step: nothing is published before the restore publishes it (`SendInv`); a world that was rolled
back, or never published, has its old save and no call is on its way that could change it
(`BackInv`); once the row says published every world is, and every late call leads forward
(`AheadInv`); what a restore completed stays completed (`CompleteInv`); a part that was copied while
no restore was open is what the world still holds (`CopyInv`); and a world stopped for an operation
is among those its row remembers until it is started (`DueInv`). At most one publication or transfer
can still be late (`DelayInv`), and it is aimed at a world that is not published yet, because the
first call that gets no answer ends the way forward. From it: `StartIsSafe` (`SafeStart`) and
`BackupIsSettled` (`BackupSettled`).
The proof of the latter found a case that the run was too small for. Two recoveries from outdated
rows, which take at least two faults and two requests of users, can leave a succeeded
restore over a torn save: one rolls a published world back in part, the marker survives, and the
other completes it. `BackupSettled` therefore demands the restored saves themselves only when no
recovery went on from an outdated row (`Tainted`), and the receipt always.

Some theorems state what no run lists any more, because a proof for every instance says more
than TLC would: `TypeCorrect`, `RoomsAreExclusive`, `LeaseTypesHold`, `JournalTypesHold`,
`JobsTypesHold`, `PauseIsQuiet`, `ListenersSeeCommitted`, `ProgressNeverRegresses`. The type
theorems of the later modules (`ChannelTypesHold`, `EventsTypesHold`, `PublicationTypesHold`,
`MigTypesHold`, `ProvTypesHold`, `DistributionTypesHold`, `BackupTypesHold`,
`ModTypesHold`) are about a conjunct of what a run lists: the runs
`stream`, `room_changes` and `releases` check the types of their components as one invariant.

**Only model-checked.** The liveness properties (`WaitEnds`, `Settles`, `JobEnds`,
`EventsArrive`), which are outside what the prover supports. Of the operations over several
machines: `RunsWhole` and `VerdictsHold` of GameRelease. The composed type invariants `StreamTypeOK`,
`ChangesTypeOK` and `ReleasesTypeOK` are proved component by component, as far as the theorems
above go.

## 5. What is not modelled

`PROJECT.json` lists every component with its reason. Within the modelled ones: what a
shard operation does to the game (tmux sessions, sockets, files); read-only requests and
observeRuntime, which bypass or only read the journal; initializeOwnership and
pendingConsoleHazards; registration, reports, telemetry and key rotation on the command
channel; kinds, rooms, messages, byte counters of jobs, the contents of events; the HTTP barrier
and the restore of a reload; the context in which a lease is lent to a callee.

In the operations over several machines: the contents of files and archives, chunks of one
transfer, how links and manifests are rendered; in GameRelease also aliased installations, the
runtime-mode fallback, the RequireEmpty and Validate policies, the repair capability, a start or
stop that takes effect after its caller gave up, and a failed announcement without a delay;
in ModDistribution the cache and LinkLocalMods; in
BackupRestore hot backups, imports and exports, the protection backup's own row, announcements,
lapsing leases, users' starts and stops, and two worlds on one machine, whose shared files the
first of them publishes; in RoomProvision what users do to the room's
worlds while a recovery is pending (a start by hand and a recovery that goes forward would make
two processes of one world).

Most of the repository is not a protocol: HTTP handlers and routing, request validation, static
data, readers of game saves and logs, renderers, wrappers around tmux and SteamCMD, vendored
code. These have no state of their own that two actors could bring out of step, and TLC would
only restate them.

## 6. Plan

Modelled so far, in this order: the core every operation goes through (locks, leases, journal,
channel, jobs, events), then the operations over several machines (configuration, migration,
provisioning, mods, game releases, backups). Next:

1. **Proofs of releases.** `RunsWhole` (gate, row and lock file), in ReleasesProofs.
2. **Hot backups**: the barrier that lets all worlds save in one round, its attempts and its
   release, as a second way of BackupRestore to make a set; imports of saves.
3. Console dispatch, automation, key rotation, the installation gate as a component of its own.
