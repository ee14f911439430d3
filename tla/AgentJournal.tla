----------------------------- MODULE AgentJournal -----------------------------
(***************************************************************************)
(* The agent's journal of leased operations (agent/shard_operations.go and *)
(* the beginRuntime half of agent/runtime_operations.go) for one room of   *)
(* one installation, with the workers that execute the requests.           *)
(*                                                                         *)
(* Requests come over an unreliable connection: any request may arrive any *)
(* number of times, in any order, at any worker.  The journal is a file    *)
(* replaced by rename; a save can fail before or after the rename, and the *)
(* process can die between any two steps.  Shard and Runtime operations    *)
(* have a map each but share the room's fencing token.                     *)
(***************************************************************************)
EXTENDS Naturals, Sequences, FiniteSets

CONSTANTS Workers,        \* goroutines that execute commands
          Ops,            \* operation keys
          ShardOps,       \* those recorded as shard operations
          LaunchOps,      \* starts and restarts: they unlock after the launch
          Locks,          \* local lock keys
          LockOf,         \* LockOf[op]: the local lock of op
          Requests,       \* requests that can arrive: [op, body, token, lease]
          MaxRemembered,  \* completed operations kept per room and map
          MaxLog,         \* bound: no request is received after this many admissions
          NoEntry,        \* no record under this operation key
          NoFence,        \* the LeaseID of a room never written
          NoOne,          \* a free local lock
          NoRequest       \* a worker without a request

Bodies == {r.body : r \in Requests}
Leases == {r.lease : r \in Requests}

ASSUME OpAssumption ==
    /\ ShardOps \subseteq Ops /\ LaunchOps \subseteq ShardOps
    /\ LockOf \in [Ops -> Locks]
ASSUME RequestAssumption ==
    \A r \in Requests : /\ r.op \in Ops
                        /\ r.token \in Nat \ {0}
ASSUME ReservedAssumption == NoRequest \notin Requests /\ NoOne \notin Workers
ASSUME BoundAssumption == MaxRemembered \in Nat /\ MaxLog \in Nat

\* What a repeated key is compared with.  A Runtime operation's fingerprint
\* hashes the whole request but the lease expiry; a shard operation compares
\* installation, action, cluster, shard, mode and options.
Fingerprint(r) ==
    IF r.op \in ShardOps THEN <<r.body>> ELSE <<r.body, r.token, r.lease>>

Fingerprints == {Fingerprint(r) : r \in Requests}

Entry == [fp : Fingerprints, done : BOOLEAN]

Room == [token : Nat, lease : Leases \cup {NoFence}, ops : [Ops -> Entry \cup {NoEntry}]]

ASSUME EntryAssumption == NoEntry \notin Entry

VARIABLES
    mem,        \* state.Rooms[roomKey]
    disk,       \* the room as the journal file has it
    owner,      \* owner[k]: the worker that holds local lock k
    phase,      \* phase[w]: where worker w is
    req,        \* req[w]: the request w works on, or answered last
    reply,      \* reply[w]: w's answer to req[w]
    log,        \* history: the requests begin admitted, in order
    ended,      \* history: <<op, fingerprint>> whose execution came to its end
    forgotten   \* history: operations trimmed from a journal map

journalVars == <<mem, disk, owner, phase, req, reply, log, ended, forgotten>>

Phases == {"idle", "waiting", "locked", "accepted", "launched"}
Replies == {"none", "error", "conflict", "unknown", "fenced", "collision", "result"}

JournalTypeOK ==
    /\ mem \in Room /\ disk \in Room
    /\ owner \in [Locks -> Workers \cup {NoOne}]
    /\ phase \in [Workers -> Phases]
    /\ req \in [Workers -> Requests \cup {NoRequest}]
    /\ reply \in [Workers -> Replies]
    /\ log \in Seq(Requests)
    /\ ended \subseteq Ops \X Fingerprints
    /\ forgotten \subseteq Ops

EmptyRoom == [token |-> 0, lease |-> NoFence, ops |-> [op \in Ops |-> NoEntry]]

JournalInit ==
    /\ mem = EmptyRoom /\ disk = EmptyRoom
    /\ owner = [k \in Locks |-> NoOne]
    /\ phase = [w \in Workers |-> "idle"]
    /\ req = [w \in Workers |-> NoRequest]
    /\ reply = [w \in Workers |-> "none"]
    /\ log = <<>> /\ ended = {} /\ forgotten = {}

-----------------------------------------------------------------------------
\* The local lock of an operation, free again.
Unlocked(w) == [k \in Locks |-> IF owner[k] = w THEN NoOne ELSE owner[k]]

\* The handler returns: its deferred release runs and the answer goes out.
Answer(w, kind) ==
    /\ phase' = [phase EXCEPT ![w] = "idle"]
    /\ reply' = [reply EXCEPT ![w] = kind]
    /\ owner' = Unlocked(w)
    /\ UNCHANGED req

\* A request arrives and passes validation.
Receive(w, r) ==
    /\ phase[w] = "idle"
    /\ Len(log) < MaxLog
    /\ phase' = [phase EXCEPT ![w] = "waiting"]
    /\ req' = [req EXCEPT ![w] = r]
    /\ reply' = [reply EXCEPT ![w] = "none"]
    /\ UNCHANGED <<mem, disk, owner, log, ended, forgotten>>

\* The operation's context ends before it has the lock, or TryAcquire finds
\* the lock taken.
GiveUp(w) ==
    /\ phase[w] = "waiting"
    /\ Answer(w, "error")
    /\ UNCHANGED <<mem, disk, log, ended, forgotten>>

Lock(w) ==
    /\ phase[w] = "waiting"
    /\ owner[LockOf[req[w].op]] = NoOne
    /\ owner' = [owner EXCEPT ![LockOf[req[w].op]] = w]
    /\ phase' = [phase EXCEPT ![w] = "locked"]
    /\ UNCHANGED <<mem, disk, req, reply, log, ended, forgotten>>

-----------------------------------------------------------------------------
\* Mutant of BeginRemembered: an unfinished operation is answered as if done.
BeginRememberedEarly(w) ==
    LET r == req[w]
        e == mem.ops[r.op]
    IN  /\ phase[w] = "locked"
        /\ e # NoEntry
        /\ \/ e.fp # Fingerprint(r) /\ Answer(w, "conflict")
           \/ e.fp = Fingerprint(r) /\ Answer(w, "result")
        /\ UNCHANGED <<mem, disk, log, ended, forgotten>>

\* begin, beginRuntime: a key that is recorded is answered from its record,
\* whatever the token of the request.
BeginRemembered(w) ==
    LET r == req[w]
        e == mem.ops[r.op]
    IN  /\ phase[w] = "locked"
        /\ e # NoEntry
        /\ \/ e.fp # Fingerprint(r) /\ Answer(w, "conflict")
           \/ e.fp = Fingerprint(r) /\ ~e.done /\ Answer(w, "unknown")
           \/ e.fp = Fingerprint(r) /\ e.done /\ Answer(w, "result")
        /\ UNCHANGED <<mem, disk, log, ended, forgotten>>

\* Mutant of Collides: only the token is compared.
CollidesNever(r) == FALSE

\* A token below the room's, and the room's token under another lease.
Stale(r) == r.token < mem.token
Collides(r) == r.token = mem.token /\ mem.token > 0 /\ mem.lease # r.lease

\* Mutant of BeginFenced: the fence is looked at before the records.
BeginFencedFirst(w) ==
    LET r == req[w]
    IN  /\ phase[w] = "locked"
        /\ \/ Stale(r) /\ Answer(w, "fenced")
           \/ Collides(r) /\ Answer(w, "collision")
        /\ UNCHANGED <<mem, disk, log, ended, forgotten>>

BeginFenced(w) ==
    LET r == req[w]
    IN  /\ phase[w] = "locked"
        /\ mem.ops[r.op] = NoEntry
        /\ \/ Stale(r) /\ Answer(w, "fenced")
           \/ Collides(r) /\ Answer(w, "collision")
        /\ UNCHANGED <<mem, disk, log, ended, forgotten>>

\* The room with r recorded as accepted.
Recorded(r) ==
    [token |-> r.token, lease |-> r.lease,
     ops |-> [mem.ops EXCEPT ![r.op] = [fp |-> Fingerprint(r), done |-> FALSE]]]

Admissible(w) ==
    /\ phase[w] = "locked"
    /\ mem.ops[req[w].op] = NoEntry
    /\ ~Stale(req[w]) /\ ~Collides(req[w])

\* The record is saved before anything runs.
BeginSaved(w) ==
    /\ Admissible(w)
    /\ mem' = Recorded(req[w]) /\ disk' = mem'
    /\ log' = Append(log, req[w])
    /\ phase' = [phase EXCEPT ![w] = "accepted"]
    /\ UNCHANGED <<owner, req, reply, ended, forgotten>>

\* The save fails, before or after the rename; memory is rolled back.
BeginUnsaved(w) ==
    /\ Admissible(w)
    /\ disk' \in {disk, Recorded(req[w])}
    /\ Answer(w, "error")
    /\ UNCHANGED <<mem, log, ended, forgotten>>

-----------------------------------------------------------------------------
\* A start or restart gives up its lock once the process is created.
Launch(w) ==
    /\ phase[w] = "accepted"
    /\ req[w].op \in LaunchOps
    /\ phase' = [phase EXCEPT ![w] = "launched"]
    /\ owner' = Unlocked(w)
    /\ UNCHANGED <<mem, disk, req, reply, log, ended, forgotten>>

\* The records of op's map, and the completed ones among them.
Map(op) == {o \in Ops : o \in ShardOps <=> op \in ShardOps}
Kept(ops, op) == {o \in Map(op) : ops[o] # NoEntry}
Completed(ops, op) == {o \in Kept(ops, op) : ops[o].done}

\* trimRememberedOperations: completed records go, oldest first, until the map
\* is small enough or none is left.  Their time was read anywhere between the
\* request and the end of the operation, so any of them can be the oldest.
Trimmed(ops, op) ==
    {drop \in SUBSET Completed(ops, op) :
        \/ drop = {} /\ Cardinality(Kept(ops, op)) <= MaxRemembered
        \/ /\ Cardinality(Kept(ops, op)) > MaxRemembered
           /\ \/ Cardinality(Kept(ops, op)) - Cardinality(drop) = MaxRemembered
              \/ /\ drop = Completed(ops, op)
                 /\ Cardinality(Kept(ops, op)) - Cardinality(drop) > MaxRemembered}

Done(op) == [mem.ops EXCEPT ![op] = [@ EXCEPT !.done = TRUE]]

\* Mutant of Finish: a failed save removes the record, as begin's does.
FinishRollsBack(w) ==
    LET op == req[w].op
    IN  /\ phase[w] \in {"accepted", "launched"}
        /\ mem.ops[op] # NoEntry
        /\ mem' = [mem EXCEPT !.ops[op] = NoEntry]
        /\ disk' \in {disk, mem'}
        /\ Answer(w, "error")
        /\ ended' = ended \cup {<<op, mem.ops[op].fp>>}
        /\ UNCHANGED <<log, forgotten>>

\* finish, finishRuntime: the result is recorded and the map trimmed in memory,
\* then saved; a failed save is reported and not rolled back.  The branch for
\* a missing record is not taken: see RunningRecorded.
Finish(w) ==
    LET op == req[w].op
    IN  /\ phase[w] \in {"accepted", "launched"}
        /\ mem.ops[op] # NoEntry
        /\ \E drop \in Trimmed(Done(op), op) :
             /\ mem' = [mem EXCEPT !.ops =
                          [o \in Ops |-> IF o \in drop THEN NoEntry ELSE Done(op)[o]]]
             /\ forgotten' = forgotten \cup drop
        /\ \/ disk' = mem' /\ Answer(w, "result")
           \/ disk' \in {disk, mem'} /\ Answer(w, "error")
        /\ ended' = ended \cup {<<op, mem.ops[op].fp>>}
        /\ UNCHANGED log

\* The agent dies and loads the journal file again.
Crash ==
    /\ mem' = disk
    /\ owner' = [k \in Locks |-> NoOne]
    /\ phase' = [w \in Workers |-> "idle"]
    /\ req' = [w \in Workers |-> NoRequest]
    /\ reply' = [w \in Workers |-> "none"]
    /\ UNCHANGED <<disk, log, ended, forgotten>>

WorkerStep(w) ==
    \/ \E r \in Requests : Receive(w, r)
    \/ GiveUp(w) \/ Lock(w)
    \/ BeginRemembered(w) \/ BeginFenced(w) \/ BeginSaved(w) \/ BeginUnsaved(w)
    \/ Launch(w) \/ Finish(w)

JournalNext == Crash \/ \E w \in Workers : WorkerStep(w)

JournalSpec == JournalInit /\ [][JournalNext]_journalVars

-----------------------------------------------------------------------------
(* Properties *)

\* Operations are admitted in fencing order, across restarts and failed saves:
\* never one with a token below an admitted one, never two leases on a token.
FencedOrder ==
    \A i, j \in DOMAIN log : i < j =>
        /\ log[i].token <= log[j].token
        /\ log[i].token = log[j].token => log[i].lease = log[j].lease

\* A request that arrives again runs again only if the journal forgot it.
AtMostOnce ==
    \A i, j \in DOMAIN log : i < j /\ log[i].op = log[j].op => log[i].op \in forgotten

\* Whoever executes finds its record: finish never reports it missing, and no
\* second worker executes the same key.
RunningRecorded ==
    \A w \in Workers : phase[w] \in {"accepted", "launched"} =>
        /\ mem.ops[req[w].op] = [fp |-> Fingerprint(req[w]), done |-> FALSE]
        /\ disk.ops[req[w].op] # NoEntry
        /\ \A v \in Workers : phase[v] \in {"accepted", "launched"} /\ req[v].op = req[w].op
              => v = w

\* A result stands for an execution of just that request that came to its end.
ResultReal ==
    \A w \in Workers :
        reply[w] = "result" => <<req[w].op, Fingerprint(req[w])>> \in ended

\* A record of the journal stands for an execution: before its end for one that
\* is under way, afterwards for the one whose result is told.
RecordsReal == RunningRecorded /\ ResultReal

\* A request told that it is fenced off or collides was not executed before,
\* unless the journal forgot it: a repeat of an executed operation gets the
\* recorded answer even after a newer lease took the room.
RejectedNeverRan ==
    [][\A w \in Workers :
         phase[w] = "locked" /\ reply'[w] \in {"fenced", "collision"} =>
           \A i \in DOMAIN log : log[i].op = req[w].op => req[w].op \in forgotten]_journalVars
=============================================================================
