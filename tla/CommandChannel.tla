---------------------------- MODULE CommandChannel ----------------------------
(***************************************************************************)
(* The command channel between the gateway (server/server.go) and one      *)
(* agent (agent/agent.go): a command is recorded, sent, queued or refused, *)
(* acknowledged, executed and answered; callers wait for the record.       *)
(*                                                                         *)
(* The connection keeps order but can break at any time: what is on the    *)
(* wire is lost, but for a message a reader already has in hand.  The      *)
(* gateway sends on the connection it looked up, and all answers to a      *)
(* command go out on the connection the agent had when it dispatched it.   *)
(* Time is counted in cleanup periods.                                     *)
(***************************************************************************)
EXTENDS Integers, Sequences, FiniteSets

CONSTANTS Commands,      \* command ids
          Queues,        \* the agent's command queues
          QueueOf,       \* QueueOf[c]: the queue c goes to
          QueueSize,     \* capacity of a queue
          WorkerCount,   \* workers per queue
          Waiters,       \* callers of WaitCommandResult
          Awaits,        \* Awaits[w]: the command w waits for
          Retention,     \* age at which a record is cleaned up
          MaxProgress,   \* bound: progress messages per command
          MaxConns,      \* bound: connections of a behaviour
          MaxTime,       \* bound: the last instant of a behaviour
          NoRecord       \* no record under this command id

ASSUME QueueAssumption == QueueOf \in [Commands -> Queues] /\ Awaits \in [Waiters -> Commands]
ASSUME SizeAssumption ==
    /\ QueueSize \in Nat /\ WorkerCount \in Nat \ {0}
    /\ {Retention, MaxProgress, MaxConns, MaxTime} \subseteq Nat
ASSUME FiniteAssumption == IsFiniteSet(Commands)

VARIABLES
    now,      \* time.Now().Unix()
    rec,      \* rec[c]: s.commandResults[c]
    sender,   \* sender[c]: where sendCommandPayload of c is
    conn,     \* the current connection, 0 if there is none
    conns,    \* connections so far
    down,     \* commands on the wire to the agent
    up,       \* messages on the wire to the gateway
    queue,    \* queue[q]: the agent's channel q
    via,      \* via[c]: the connection c is sent on, then answered on; 0 for none
    spot,       \* spot[c]: where c is in the agent
    sent,     \* sent[c]: progress sequence numbers c's execution sent
    pending,  \* commandsPending
    paused,   \* commandsPaused
    waiter,   \* waiter[w]: where w's WaitCommandResult is
    holds,    \* holds[w]: the changed channel w captured, 0 if none
    chans,    \* notification channels made so far
    closed    \* channels that were closed

gatewayVars == <<now, rec, sender, via>>
wireVars == <<conn, conns, down, up>>
agentVars == <<queue, spot, sent, pending, paused>>
waiterVars == <<waiter, holds, chans, closed>>
channelVars == <<gatewayVars, wireVars, agentVars, waiterVars>>

Statuses == {"pending", "received", "completed", "failed"}
AgentStages == {"away", "queued", "taken", "running", "left"}
Terminal == {"completed", "failed"}

\* CommandResult: status and the reason of its ErrorMsg, StartTime (0 in a record
\* made for an answer without one), EndTime (0 until it is set), last progress
\* and the changed channel (0 for nil).
Record == [status : Statuses, why : {"none", "unsent", "refused", "executed"},
           start : Nat, end : Nat, seq : 0..MaxProgress, chan : Nat]

ASSUME RecordAssumption == NoRecord \notin Record

Message == [kind : {"received", "rejected", "progress", "success", "failure", "busy"},
            cmd : Commands, seq : 0..MaxProgress]

ChannelTypeOK ==
    /\ now \in Nat
    /\ rec \in [Commands -> Record \cup {NoRecord}]
    /\ sender \in [Commands -> {"new", "recorded", "sent", "failed", "panicked"}]
    /\ conn \in 0..MaxConns /\ conns \in 0..MaxConns
    /\ down \in Seq(Commands) /\ up \in Seq(Message)
    /\ queue \in [Queues -> Seq(Commands)]
    /\ via \in [Commands -> 0..MaxConns]
    /\ spot \in [Commands -> AgentStages \X BOOLEAN]
    /\ sent \in [Commands -> SUBSET (1..MaxProgress)]
    /\ pending \in Nat /\ paused \in BOOLEAN
    /\ waiter \in [Waiters -> {"idle", "check", "blocked", "result", "missing", "gaveup"}]
    /\ holds \in [Waiters -> Nat] /\ chans \in Nat /\ closed \subseteq Nat

\* The clock starts beyond Retention, as Unix time does.
ChannelInit ==
    /\ now = Retention + 1
    /\ rec = [c \in Commands |-> NoRecord]
    /\ sender = [c \in Commands |-> "new"]
    /\ conn = 0 /\ conns = 0 /\ down = <<>> /\ up = <<>>
    /\ queue = [q \in Queues |-> <<>>]
    /\ via = [c \in Commands |-> 0]
    /\ spot = [c \in Commands |-> <<"away", FALSE>>]
    /\ sent = [c \in Commands |-> {}]
    /\ pending = 0 /\ paused = FALSE
    /\ waiter = [w \in Waiters |-> "idle"]
    /\ holds = [w \in Waiters |-> 0] /\ chans = 0 /\ closed = {}

Stage(c) == spot[c][1]
Acknowledged(c) == spot[c][2]
Open(c) == rec[c] # NoRecord /\ rec[c].status \notin Terminal

-----------------------------------------------------------------------------
(* The connection *)

Connect ==
    /\ conn = 0 /\ conns < MaxConns
    /\ conns' = conns + 1 /\ conn' = conns + 1
    /\ UNCHANGED <<gatewayVars, agentVars, waiterVars, down, up>>

\* What is left of the messages on a wire that breaks: the first one may have
\* been read and not yet handled.
Remains(wire) == {<<>>} \cup {<<wire[1]>> : i \in DOMAIN wire}

\* The connection breaks or expires.
Disconnect ==
    /\ conn # 0
    /\ conn' = 0 /\ down' \in Remains(down) /\ up' \in Remains(up)
    /\ UNCHANGED <<gatewayVars, agentVars, waiterVars, conns>>

\* The agent sends on the connection it took for c, which may be gone.
Transmit(c, messages) ==
    /\ up' = IF via[c] = conn /\ conn # 0 THEN up \o messages ELSE up
    /\ UNCHANGED <<conn, conns, down>>

Msg(kind, c, n) == [kind |-> kind, cmd |-> c, seq |-> n]

-----------------------------------------------------------------------------
(* The gateway *)

\* sendCommandPayload: the agent's latest connection is looked up, it may be
\* broken already, and the command is recorded.
RecordCommand(c) ==
    /\ sender[c] = "new" /\ conns > 0
    /\ rec' = [rec EXCEPT ![c] = [status |-> "pending", why |-> "none", start |-> now,
                                  end |-> 0, seq |-> 0, chan |-> 0]]
    /\ sender' = [sender EXCEPT ![c] = "recorded"]
    /\ via' = [via EXCEPT ![c] = conns]
    /\ UNCHANGED <<now, wireVars, agentVars, waiterVars>>

SendCommand(c) ==
    /\ sender[c] = "recorded" /\ via[c] = conn
    /\ down' = Append(down, c)
    /\ sender' = [sender EXCEPT ![c] = "sent"]
    /\ UNCHANGED <<now, rec, via, conn, conns, up, agentVars, waiterVars>>

\* The connection is closed or the write fails.
SendFails(c) ==
    /\ sender[c] = "recorded" /\ rec[c] # NoRecord
    /\ rec' = [rec EXCEPT ![c].status = "failed", ![c].why = "unsent", ![c].end = now]
    /\ sender' = [sender EXCEPT ![c] = "failed"]
    /\ UNCHANGED <<now, via, wireVars, agentVars, waiterVars>>

\* The same when a clean-up took the record: the unchecked lookup panics.
SendPanics(c) ==
    /\ sender[c] = "recorded" /\ rec[c] = NoRecord
    /\ sender' = [sender EXCEPT ![c] = "panicked"]
    /\ UNCHANGED <<now, rec, via, wireVars, agentVars, waiterVars>>

\* Mutant of Notify: nobody is told.
NotifyNobody(c) == UNCHANGED closed

\* notifyCommandResultLocked, and the record it leaves.
Notify(c) == closed' = IF rec[c].chan = 0 THEN closed ELSE closed \cup {rec[c].chan}

\* handleCommandAck
TakeAck(m) ==
    LET c == m.cmd
    IN  \/ /\ m.kind = "rejected" /\ Open(c)
           /\ rec' = [rec EXCEPT ![c].status = "failed", ![c].why = "refused",
                                 ![c].end = now, ![c].chan = 0]
           /\ Notify(c)
        \/ /\ m.kind = "received" /\ Open(c)
           /\ rec' = [rec EXCEPT ![c].status = "received"]
           /\ UNCHANGED closed
        \/ /\ m.kind \in {"rejected", "received"} /\ ~Open(c)
           /\ UNCHANGED <<rec, closed>>

\* Mutant of TakeProgress: late progress is stored.
TakeProgressLate(m) ==
    /\ m.kind = "progress" /\ rec[m.cmd] # NoRecord
    /\ rec' = [rec EXCEPT ![m.cmd].seq = m.seq, ![m.cmd].chan = 0]
    /\ Notify(m.cmd)

\* handleCommandProgress: late and overtaken progress is dropped.
TakeProgress(m) ==
    LET c == m.cmd
    IN  /\ m.kind = "progress"
        /\ \/ /\ Open(c) /\ rec[c].seq < m.seq
              /\ rec' = [rec EXCEPT ![c].seq = m.seq, ![c].chan = 0]
              /\ Notify(c)
           \/ /\ ~(Open(c) /\ rec[c].seq < m.seq)
              /\ UNCHANGED <<rec, closed>>

\* handleCommandResponse: the answer is stored even over a terminal status, and
\* in a record of its own if there is none.
TakeResponse(m) ==
    LET c == m.cmd
        status == IF m.kind = "success" THEN "completed" ELSE "failed"
        why == IF m.kind = "busy" THEN "refused" ELSE "executed"
    IN  /\ m.kind \in {"success", "failure", "busy"}
        /\ \/ /\ rec[c] # NoRecord
              /\ rec' = [rec EXCEPT ![c].status = status, ![c].why = why,
                                    ![c].end = now, ![c].chan = 0]
              /\ Notify(c)
           \/ /\ rec[c] = NoRecord
              /\ rec' = [rec EXCEPT ![c] = [status |-> status, why |-> why, start |-> 0,
                                            end |-> now, seq |-> 0, chan |-> 0]]
              /\ UNCHANGED closed

\* handleAgentMessages reads one message after the other.
Deliver ==
    /\ up # <<>>
    /\ TakeAck(Head(up)) \/ TakeProgress(Head(up)) \/ TakeResponse(Head(up))
    /\ up' = Tail(up)
    /\ UNCHANGED <<now, sender, via, conn, conns, down, agentVars, waiter, holds, chans>>

\* cleanupCommandResults: one round over the map.
Expired(c) == rec[c] # NoRecord /\ rec[c].end < now - Retention

Cleanup ==
    /\ \E c \in Commands : Expired(c)
    /\ closed' = closed \cup {rec[c].chan : c \in {d \in Commands : Expired(d) /\ rec[d].chan # 0}}
    /\ rec' = [c \in Commands |-> IF Expired(c) THEN NoRecord ELSE rec[c]]
    /\ UNCHANGED <<now, sender, via, wireVars, agentVars, waiter, holds, chans>>

ClockTick ==
    /\ now < MaxTime
    /\ now' = now + 1
    /\ UNCHANGED <<rec, sender, via, wireVars, agentVars, waiterVars>>

-----------------------------------------------------------------------------
(* The agent *)

Full(q) == Len(queue[q]) >= QueueSize

\* Mutants of Refuse: the command is dropped without a word, or refused and
\* queued all the same.
RefuseSilently(c) ==
    /\ paused \/ Full(QueueOf[c])
    /\ up' = up
    /\ UNCHANGED <<queue, spot, sent, pending, paused>>

RefuseYetQueue(c) ==
    /\ ~paused /\ Full(QueueOf[c])
    /\ up' = IF conn # 0 THEN up \o <<Msg("rejected", c, 0), Msg("busy", c, 0)>> ELSE up
    /\ queue' = [queue EXCEPT ![QueueOf[c]] = Append(@, c)]
    /\ spot' = [spot EXCEPT ![c] = <<"queued", TRUE>>]
    /\ pending' = pending + 1
    /\ UNCHANGED <<sent, paused>>

\* The queue is full or commands are paused: a rejection and a failed answer.
Refuse(c) ==
    /\ paused \/ Full(QueueOf[c])
    /\ up' = IF conn # 0 THEN up \o <<Msg("rejected", c, 0), Msg("busy", c, 0)>> ELSE up
    /\ UNCHANGED <<queue, spot, sent, pending, paused>>

\* enqueueCommand succeeds.
Enqueue(c) ==
    /\ ~paused /\ ~Full(QueueOf[c])
    /\ queue' = [queue EXCEPT ![QueueOf[c]] = Append(@, c)]
    /\ spot' = [spot EXCEPT ![c] = <<"queued", FALSE>>]
    /\ pending' = pending + 1
    /\ UNCHANGED <<up, sent, paused>>

\* dispatchCommand, in the read loop of this connection: it handles one command
\* after the other, and answers each on the agent's connection of the moment.
Dispatch ==
    /\ down # <<>>
    /\ \A c \in Commands : Stage(c) \in {"queued", "taken"} /\ via[c] = conn => Acknowledged(c)
    /\ Refuse(Head(down)) \/ Enqueue(Head(down))
    /\ down' = Tail(down)
    /\ via' = [via EXCEPT ![Head(down)] = conn]
    /\ UNCHANGED <<now, rec, sender, conn, conns, waiterVars>>

\* The rest of dispatchCommand: the acknowledgement, then close(acknowledged).
Acknowledge(c) ==
    /\ Stage(c) \in {"queued", "taken"} /\ ~Acknowledged(c)
    /\ spot' = [spot EXCEPT ![c][2] = TRUE]
    /\ Transmit(c, <<Msg("received", c, 0)>>)
    /\ UNCHANGED <<gatewayVars, queue, sent, pending, paused, waiterVars>>

\* A worker takes the head of its queue.
Busy(q) == {c \in Commands : QueueOf[c] = q /\ Stage(c) \in {"taken", "running"}}

Take(q) ==
    /\ queue[q] # <<>>
    /\ Cardinality(Busy(q)) < WorkerCount
    /\ queue' = [queue EXCEPT ![q] = Tail(@)]
    /\ spot' = [spot EXCEPT ![Head(queue[q])][1] = "taken"]
    /\ UNCHANGED <<gatewayVars, wireVars, sent, pending, paused, waiterVars>>

\* Mutant of Execute: the command stops counting when it is taken up.
ExecuteUncounted(c) ==
    /\ Stage(c) = "taken" /\ Acknowledged(c)
    /\ spot' = [spot EXCEPT ![c][1] = "running"]
    /\ pending' = pending - 1
    /\ UNCHANGED <<gatewayVars, wireVars, queue, sent, paused, waiterVars>>

\* It waits for the acknowledgement and runs the handler.
Execute(c) ==
    /\ Stage(c) = "taken" /\ Acknowledged(c)
    /\ spot' = [spot EXCEPT ![c][1] = "running"]
    /\ UNCHANGED <<gatewayVars, wireVars, queue, sent, pending, paused, waiterVars>>

\* A progress report.  Sequence numbers are drawn before the message is sent,
\* so messages of one command can overtake each other.
Report(c) ==
    /\ Stage(c) = "running"
    /\ \E n \in (1..MaxProgress) \ sent[c] :
          /\ sent' = [sent EXCEPT ![c] = @ \cup {n}]
          /\ Transmit(c, <<Msg("progress", c, n)>>)
    /\ UNCHANGED <<gatewayVars, queue, spot, pending, paused, waiterVars>>

\* The handler answers and the worker is free again.
Respond(c) ==
    /\ Stage(c) = "running"
    /\ \E kind \in {"success", "failure"} :
          Transmit(c, <<Msg(kind, c, 0)>>)
    /\ spot' = [spot EXCEPT ![c][1] = "left"]
    /\ pending' = pending - 1
    /\ UNCHANGED <<gatewayVars, queue, sent, paused, waiterVars>>

\* PauseCommandsIfIdle and the function it returns.
Pause ==
    /\ ~paused /\ pending = 0
    /\ paused' = TRUE
    /\ UNCHANGED <<gatewayVars, wireVars, queue, spot, sent, pending, waiterVars>>

Resume ==
    /\ paused
    /\ paused' = FALSE
    /\ UNCHANGED <<gatewayVars, wireVars, queue, spot, sent, pending, waiterVars>>

\* The agent process dies: queues, executions and the connection are gone.
AgentDies ==
    /\ conn' = 0 /\ down' = <<>> /\ up' \in Remains(up)
    /\ queue' = [q \in Queues |-> <<>>]
    /\ spot' = [c \in Commands |-> IF Stage(c) = "away" THEN spot[c] ELSE <<"left", TRUE>>]
    /\ pending' = 0 /\ paused' = FALSE
    /\ UNCHANGED <<gatewayVars, conns, sent, waiterVars>>

-----------------------------------------------------------------------------
(* WaitCommandResult *)

\* sendCommandPayload returned the id.
StartWaiting(w) ==
    /\ waiter[w] = "idle" /\ sender[Awaits[w]] = "sent"
    /\ waiter' = [waiter EXCEPT ![w] = "check"]
    /\ UNCHANGED <<gatewayVars, wireVars, agentVars, holds, chans, closed>>

\* One look at the record, under the mutex.
Check(w) ==
    LET c == Awaits[w]
    IN  /\ waiter[w] = "check"
        /\ \/ /\ rec[c] = NoRecord
              /\ waiter' = [waiter EXCEPT ![w] = "missing"]
              /\ UNCHANGED <<rec, holds, chans>>
           \/ /\ rec[c] # NoRecord /\ ~Open(c)
              /\ waiter' = [waiter EXCEPT ![w] = "result"]
              /\ UNCHANGED <<rec, holds, chans>>
           \/ /\ Open(c)
              /\ chans' = IF rec[c].chan = 0 THEN chans + 1 ELSE chans
              /\ rec' = [rec EXCEPT ![c].chan = IF @ = 0 THEN chans + 1 ELSE @]
              /\ holds' = [holds EXCEPT ![w] = rec'[c].chan]
              /\ waiter' = [waiter EXCEPT ![w] = "blocked"]
        /\ UNCHANGED <<now, sender, via, wireVars, agentVars, closed>>

Wake(w) ==
    /\ waiter[w] = "blocked" /\ holds[w] \in closed
    /\ waiter' = [waiter EXCEPT ![w] = "check"]
    /\ UNCHANGED <<gatewayVars, wireVars, agentVars, holds, chans, closed>>

\* ctx is done, or the gateway stops.
StopWaiting(w) ==
    /\ waiter[w] \in {"check", "blocked"}
    /\ waiter' = [waiter EXCEPT ![w] = "gaveup"]
    /\ UNCHANGED <<gatewayVars, wireVars, agentVars, holds, chans, closed>>

-----------------------------------------------------------------------------
GatewayStep ==
    \/ Deliver \/ Cleanup
    \/ \E c \in Commands : RecordCommand(c) \/ SendCommand(c) \/ SendFails(c) \/ SendPanics(c)

AgentStep ==
    \/ Dispatch
    \/ \E q \in Queues : Take(q)
    \/ \E c \in Commands : Acknowledge(c) \/ Execute(c) \/ Report(c) \/ Respond(c)

WaiterStep(w) == StartWaiting(w) \/ Check(w) \/ Wake(w) \/ StopWaiting(w)

ChannelNext ==
    \/ Connect \/ Disconnect \/ AgentDies \/ ClockTick \/ Pause \/ Resume
    \/ GatewayStep \/ AgentStep
    \/ \E w \in Waiters : WaiterStep(w)

ChannelSpec == ChannelInit /\ [][ChannelNext]_channelVars

\* Messages are read, workers run and handlers end.
ChannelFairness ==
    /\ WF_channelVars(Deliver) /\ WF_channelVars(Dispatch)
    /\ \A q \in Queues : WF_channelVars(Take(q))
    /\ \A c \in Commands :
          /\ WF_channelVars(Acknowledge(c))
          /\ WF_channelVars(Execute(c)) /\ WF_channelVars(Respond(c))
    /\ \A w \in Waiters : WF_channelVars(Check(w)) /\ WF_channelVars(Wake(w))

FairChannelSpec == ChannelSpec /\ ChannelFairness

-----------------------------------------------------------------------------
(* Properties *)

\* No wake-up is lost: a waiter that sleeps on an open channel sleeps on the
\* channel of a record that is still there and still open.
NoLostWakeup ==
    \A w \in Waiters : waiter[w] = "blocked" /\ holds[w] \notin closed
        => Open(Awaits[w]) /\ rec[Awaits[w]].chan = holds[w]

\* While commands are paused for a local settings change none is queued or
\* running, and the counter that decides it is exact.
PauseExclusive ==
    LET inside == {c \in Commands : Stage(c) \in {"queued", "taken", "running"}}
    IN  pending = Cardinality(inside) /\ (paused => inside = {})

\* A failure that invites a retry (the command was not sent, or the agent was
\* busy) is reported only for a command that is not and will not be executed.
RetrySafe ==
    \A c \in Commands :
        rec[c] # NoRecord /\ rec[c].why \in {"unsent", "refused"} => Stage(c) = "away"

\* A record only moves forward: reported progress never falls back, and an
\* outcome, once there, is not turned into another one by what comes late.
RecordForward ==
    [][\A c \in Commands : rec[c] # NoRecord /\ rec'[c] # NoRecord =>
         /\ rec'[c].seq >= rec[c].seq
         /\ ~Open(c) => rec'[c].status = rec[c].status]_channelVars

\* A command that was sent comes to an end in the gateway, or its connection was
\* lost, or its record was cleaned up.
Settles ==
    \A c \in Commands :
        sender[c] = "sent" ~> ~Open(c) \/ conn = 0 \/ via[c] # conn

\* "Keep the records of the last 7 days": a clean-up deletes no record whose
\* command was started within the retention time.
RecentKept ==
    [][\A c \in Commands : rec[c] # NoRecord /\ rec[c].start >= now - Retention
         => rec'[c] # NoRecord]_channelVars
=============================================================================
