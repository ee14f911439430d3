---------------------------- MODULE CommandProofs ----------------------------
(***************************************************************************)
(* Proofs about what the gateway exchanges with agents and browsers:       *)
(* AgentJournal, for every set of workers, operations and requests,        *)
(* CommandChannel, for every set of commands, queues and waiters, and      *)
(* JobEvents, for every set of readers and jobs, each for every bound.     *)
(*                                                                         *)
(* The journal: fencing order and at-most-once admission, and that records *)
(* and results stand for executions, across failed saves and restarts.     *)
(* None of them is inductive: admission is decided from memory, and a      *)
(* restart replaces memory by the file.  Knows says what memory and file   *)
(* each know about every admitted request, DoneReal what their results     *)
(* stand for.                                                              *)
(*                                                                         *)
(* The channel: what waiters sleep on, what the counter of the pause       *)
(* counts, which failures invite a retry, and that a record only moves     *)
(* forward.  None is inductive: they rest on where a command and its       *)
(* messages can be at the same time.  A command is in one place of the     *)
(* agent or on the wire (WireInv, QueueInv), its messages fit that place   *)
(* (AnswerInv), and its record tells how it got there (RecordInv).         *)
(*                                                                         *)
(* The stream of job events: a reader misses no event without being told,  *)
(* whether it sleeps or comes back.  The property is about a reader that   *)
(* waits or has a cursor.  The strengthening says what is true on the way  *)
(* there: what a read leaves for later (PageComplete, PageDense), and why  *)
(* an event that is not in the table is not there (PrunedByAge,            *)
(* CursorGaps, PageGaps).                                                  *)
(***************************************************************************)
EXTENDS AgentJournal, CommandChannel, JobEvents, TLAPS, FiniteSetTheorems, WellFoundedInduction

\* A worker in a handler has its request and has not answered it.
ActiveRequests ==
    \A w \in Workers : phase[w] # "idle" => req[w] \in Requests /\ reply[w] = "none"

\* A copy of the room that knows every admission: none has a token above the
\* copy's, the copy's lease is the one admitted under its token, and every
\* admitted key is recorded or was trimmed.
Knows(copy, admitted, trimmed) ==
    \A i \in DOMAIN admitted :
        /\ admitted[i].token <= copy.token
        /\ admitted[i].token = copy.token => admitted[i].lease = copy.lease
        /\ copy.ops[admitted[i].op] # NoEntry \/ admitted[i].op \in trimmed

JournalInv ==
    /\ JournalTypeOK
    /\ ActiveRequests
    /\ Knows(mem, log, forgotten)
    /\ Knows(disk, log, forgotten)
    /\ FencedOrder
    /\ AtMostOnce

-----------------------------------------------------------------------------
LEMMA AnswerTypes ==
    ASSUME JournalTypeOK, NEW w \in Workers, NEW kind \in Replies, Answer(w, kind)
    PROVE  /\ owner' \in [Locks -> Workers \cup {NoOne}]
           /\ phase' \in [Workers -> Phases]
           /\ req' \in [Workers -> Requests \cup {NoRequest}]
           /\ reply' \in [Workers -> Replies]
           /\ ActiveRequests => ActiveRequests'
  BY DEF JournalTypeOK, Answer, Unlocked, Phases, ActiveRequests

LEMMA RecordedTypes ==
    ASSUME JournalTypeOK, NEW r \in Requests
    PROVE  /\ Recorded(r) \in Room
           /\ Recorded(r).token = r.token
           /\ Recorded(r).lease = r.lease
           /\ Recorded(r).ops[r.op] # NoEntry
           /\ \A o \in Ops : mem.ops[o] # NoEntry => Recorded(r).ops[o] # NoEntry
<1>1. r.op \in Ops /\ r.token \in Nat /\ r.lease \in Leases /\ Fingerprint(r) \in Fingerprints
  BY RequestAssumption DEF Leases, Fingerprints
<1>2. mem.ops \in [Ops -> Entry \cup {NoEntry}]
  BY DEF JournalTypeOK, Room
<1>3. [fp |-> Fingerprint(r), done |-> FALSE] \in Entry
  BY <1>1 DEF Entry
<1> DEFINE ops == [mem.ops EXCEPT ![r.op] = [fp |-> Fingerprint(r), done |-> FALSE]]
<1>4. ops \in [Ops -> Entry \cup {NoEntry}]
  BY <1>2, <1>3
<1>5. Recorded(r) = [token |-> r.token, lease |-> r.lease, ops |-> ops]
  BY DEF Recorded
<1>6. Recorded(r) \in Room
  BY <1>1, <1>4, <1>5 DEF Room
<1>7. ops[r.op] # NoEntry /\ \A o \in Ops : mem.ops[o] # NoEntry => ops[o] # NoEntry
  BY <1>1, <1>2, <1>3, EntryAssumption
<1> HIDE DEF ops
<1> QED
  BY <1>5, <1>6, <1>7

\* What finish leaves of the room in memory.
Ended(op, drop) ==
    [mem EXCEPT !.ops = [o \in Ops |-> IF o \in drop THEN NoEntry ELSE Done(op)[o]]]

LEMMA EndedTypes ==
    ASSUME JournalTypeOK, NEW op \in Ops, mem.ops[op] # NoEntry, NEW drop \in SUBSET Ops
    PROVE  /\ Ended(op, drop) \in Room
           /\ Ended(op, drop).token = mem.token
           /\ Ended(op, drop).lease = mem.lease
           /\ \A o \in Ops : mem.ops[o] # NoEntry => Ended(op, drop).ops[o] # NoEntry \/ o \in drop
<1>1. mem.ops \in [Ops -> Entry \cup {NoEntry}] /\ mem \in Room
  BY DEF JournalTypeOK, Room
<1>2. [mem.ops[op] EXCEPT !.done = TRUE] \in Entry
  BY <1>1 DEF Entry
<1>3. Done(op) \in [Ops -> Entry \cup {NoEntry}]
  BY <1>1, <1>2 DEF Done
<1>4. \A o \in Ops : mem.ops[o] # NoEntry => Done(op)[o] # NoEntry
  BY <1>1, <1>2, EntryAssumption DEF Done
<1> DEFINE ops == [o \in Ops |-> IF o \in drop THEN NoEntry ELSE Done(op)[o]]
<1>5. ops \in [Ops -> Entry \cup {NoEntry}]
  BY <1>3
<1>6. \A o \in Ops : mem.ops[o] # NoEntry => ops[o] # NoEntry \/ o \in drop
  BY <1>4
<1>7. Ended(op, drop) = [mem EXCEPT !.ops = ops]
  BY DEF Ended
<1> HIDE DEF ops
<1> QED
  BY <1>1, <1>5, <1>6, <1>7 DEF Room

-----------------------------------------------------------------------------
\* A copy goes on knowing when operations are trimmed from it.
LEMMA KnowsTrimmed ==
    ASSUME NEW copy, NEW next, NEW admitted \in Seq(Requests), NEW trimmed, NEW wider,
           Knows(copy, admitted, trimmed), trimmed \subseteq wider,
           next.token = copy.token, next.lease = copy.lease,
           \A o \in Ops : copy.ops[o] # NoEntry => next.ops[o] # NoEntry \/ o \in wider
    PROVE  Knows(next, admitted, wider)
<1>1. \A i \in DOMAIN admitted : admitted[i].op \in Ops
  BY RequestAssumption
<1> QED
  BY <1>1 DEF Knows

\* A copy that records one more admissible request knows it too.
LEMMA KnowsRecorded ==
    ASSUME JournalTypeOK, NEW r \in Requests, ~Stale(r), ~Collides(r),
           Knows(mem, log, forgotten)
    PROVE  /\ Knows(Recorded(r), log, forgotten)
           /\ Knows(Recorded(r), Append(log, r), forgotten)
<1>1. log \in Seq(Requests) /\ mem.token \in Nat /\ r.token \in Nat \ {0} /\ r.op \in Ops
  BY RequestAssumption DEF JournalTypeOK, Room
<1>2. \A i \in DOMAIN log : log[i] \in Requests /\ log[i].token \in Nat \ {0} /\ log[i].op \in Ops
  BY <1>1, RequestAssumption
<1>3. r.token >= mem.token /\ (r.token = mem.token => r.lease = mem.lease)
  BY <1>1 DEF Stale, Collides
<1>4. Knows(Recorded(r), log, forgotten)
  BY <1>1, <1>2, <1>3, RecordedTypes DEF Knows
<1>5. Knows(Recorded(r), Append(log, r), forgotten)
  <2>1. \A i \in DOMAIN Append(log, r) :
           (i \in DOMAIN log /\ Append(log, r)[i] = log[i]) \/ Append(log, r)[i] = r
    BY <1>1
  <2> QED
    BY <1>1, <1>4, <2>1, RecordedTypes DEF Knows
<1> QED
  BY <1>4, <1>5

\* The history a step that admits nothing keeps.
LEMMA HistoryKept ==
    ASSUME FencedOrder, AtMostOnce, log' = log, forgotten \subseteq forgotten'
    PROVE  FencedOrder' /\ AtMostOnce'
  BY DEF FencedOrder, AtMostOnce

\* The history with one more admission, decided from a memory that knows it.
LEMMA HistoryAdmits ==
    ASSUME JournalTypeOK, FencedOrder, AtMostOnce, Knows(mem, log, forgotten),
           NEW r \in Requests, ~Stale(r), ~Collides(r), mem.ops[r.op] = NoEntry,
           log' = Append(log, r), forgotten' = forgotten
    PROVE  FencedOrder' /\ AtMostOnce'
<1>1. log \in Seq(Requests) /\ mem.token \in Nat /\ r.token \in Nat \ {0}
  BY RequestAssumption DEF JournalTypeOK, Room
<1>2. \A i \in DOMAIN log : log[i].token \in Nat \ {0}
  BY <1>1, RequestAssumption
<1>3. r.token >= mem.token /\ (r.token = mem.token => r.lease = mem.lease)
  BY <1>1 DEF Stale, Collides
<1>4. \A i, j \in DOMAIN log' : i < j =>
        /\ i \in DOMAIN log /\ log'[i] = log[i]
        /\ (j \in DOMAIN log /\ log'[j] = log[j]) \/ log'[j] = r
  BY <1>1
<1>5. \A i \in DOMAIN log :
        /\ log[i].token <= r.token
        /\ log[i].token = r.token => log[i].lease = r.lease
        /\ log[i].op = r.op => r.op \in forgotten
  BY <1>1, <1>2, <1>3 DEF Knows
<1> QED
  BY <1>4, <1>5 DEF FencedOrder, AtMostOnce

-----------------------------------------------------------------------------
LEMMA JournalStep ==
    ASSUME JournalInv, [JournalNext]_journalVars
    PROVE  JournalInv'
<1> USE DEF JournalInv
<1>k. \A kind \in {"error", "conflict", "unknown", "fenced", "collision", "result"} : kind \in Replies
  BY DEF Replies
<1>0. CASE UNCHANGED journalVars
  BY <1>0 DEF journalVars, JournalTypeOK, ActiveRequests, FencedOrder, AtMostOnce
<1>1. CASE Crash
  <2>1. JournalTypeOK' /\ ActiveRequests'
    BY <1>1 DEF Crash, JournalTypeOK, Phases, Replies, ActiveRequests
  <2> QED
    BY <1>1, <2>1, HistoryKept DEF Crash
<1>2. ASSUME NEW w \in Workers, WorkerStep(w)
      PROVE  JournalInv'
  <2>1. CASE \E r \in Requests : Receive(w, r)
    <3>1. JournalTypeOK' /\ ActiveRequests'
      BY <2>1 DEF Receive, JournalTypeOK, Phases, Replies, ActiveRequests
    <3> QED
      BY <2>1, <3>1, HistoryKept DEF Receive
  <2>2. CASE Lock(w)
    <3>0. LockOf[req[w].op] \in Locks
      BY <2>2, OpAssumption, RequestAssumption DEF Lock, ActiveRequests
    <3>1. JournalTypeOK' /\ ActiveRequests'
      BY <2>2, <3>0 DEF Lock, JournalTypeOK, Phases, ActiveRequests
    <3> QED
      BY <2>2, <3>1, HistoryKept DEF Lock
  <2>3. CASE GiveUp(w) \/ BeginRemembered(w) \/ BeginFenced(w)
    <3>1. PICK kind \in Replies : Answer(w, kind)
      BY <1>k, <2>3 DEF GiveUp, BeginRemembered, BeginFenced
    <3>2. UNCHANGED <<mem, disk, log, ended, forgotten>>
      BY <2>3 DEF GiveUp, BeginRemembered, BeginFenced
    <3>3. JournalTypeOK' /\ ActiveRequests'
      BY <3>1, <3>2, AnswerTypes DEF JournalTypeOK
    <3> QED
      BY <3>2, <3>3, HistoryKept
  <2>4. CASE BeginSaved(w)
    <3>1. /\ req[w] \in Requests /\ ~Stale(req[w]) /\ ~Collides(req[w])
          /\ mem.ops[req[w].op] = NoEntry
      BY <2>4 DEF BeginSaved, Admissible, ActiveRequests
    <3>2. mem' = Recorded(req[w]) /\ disk' = Recorded(req[w]) /\ log' = Append(log, req[w])
          /\ forgotten' = forgotten
      BY <2>4 DEF BeginSaved
    <3>3. mem' \in Room /\ disk' \in Room
      BY <3>1, <3>2, RecordedTypes
    <3>a. ActiveRequests'
      BY <2>4 DEF BeginSaved, Admissible, JournalTypeOK, ActiveRequests
    <3>b. JournalTypeOK'
      BY <2>4, <3>1, <3>2, <3>3 DEF BeginSaved, JournalTypeOK, Phases
    <3>4. JournalTypeOK' /\ ActiveRequests'
      BY <3>a, <3>b
    <3>5. Knows(mem', log', forgotten') /\ Knows(disk', log', forgotten')
      BY <3>1, <3>2, KnowsRecorded
    <3>6. FencedOrder' /\ AtMostOnce'
      BY <3>1, <3>2, HistoryAdmits
    <3> QED
      BY <3>4, <3>5, <3>6
  <2>5. CASE BeginUnsaved(w)
    <3>1. req[w] \in Requests /\ ~Stale(req[w]) /\ ~Collides(req[w])
      BY <2>5 DEF BeginUnsaved, Admissible, ActiveRequests
    <3>2. disk' \in Room /\ Knows(disk', log, forgotten)
      BY <2>5, <3>1, RecordedTypes, KnowsRecorded DEF BeginUnsaved, JournalTypeOK
    <3>3. JournalTypeOK' /\ ActiveRequests'
      BY <1>k, <2>5, <3>2, AnswerTypes DEF BeginUnsaved, JournalTypeOK
    <3> QED
      BY <2>5, <3>2, <3>3, HistoryKept DEF BeginUnsaved
  <2>6. CASE Launch(w)
    <3>1. JournalTypeOK' /\ ActiveRequests'
      BY <2>6 DEF Launch, Unlocked, JournalTypeOK, Phases, ActiveRequests
    <3> QED
      BY <2>6, <3>1, HistoryKept DEF Launch
  <2>7. CASE Finish(w)
    <3> DEFINE op == req[w].op
    <3>1. op \in Ops /\ mem.ops[op] # NoEntry
      BY <2>7, RequestAssumption DEF Finish, ActiveRequests
    <3>2. PICK drop \in Trimmed(Done(op), op) :
            mem' = Ended(op, drop) /\ forgotten' = forgotten \cup drop
      BY <2>7 DEF Finish, Ended
    <3>3. drop \in SUBSET Ops
      BY DEF Trimmed, Completed, Kept, Map
    <3>4. disk' \in {disk, mem'} /\ log' = log
      BY <2>7 DEF Finish
    <3>5. PICK kind \in Replies : Answer(w, kind)
      BY <1>k, <2>7 DEF Finish
    <3>6. mem' \in Room /\ disk' \in Room
      BY <3>1, <3>2, <3>3, <3>4, EndedTypes DEF JournalTypeOK
    <3>7. ended' \subseteq Ops \X Fingerprints
      <4>1. mem.ops[op].fp \in Fingerprints
        BY <3>1 DEF JournalTypeOK, Room, Entry
      <4> QED
        BY <2>7, <3>1, <4>1 DEF Finish, JournalTypeOK
    <3>8. JournalTypeOK' /\ ActiveRequests'
      BY <3>2, <3>3, <3>4, <3>5, <3>6, <3>7, AnswerTypes DEF JournalTypeOK
    <3>9. Knows(mem', log', forgotten')
      <4>1. \A o \in Ops : mem.ops[o] # NoEntry => mem'.ops[o] # NoEntry \/ o \in forgotten'
        BY <3>1, <3>2, <3>3, EndedTypes
      <4>2. mem'.token = mem.token /\ mem'.lease = mem.lease
        BY <3>1, <3>2, <3>3, EndedTypes
      <4>3. log \in Seq(Requests)
        BY DEF JournalTypeOK
      <4> QED
        BY <3>2, <3>4, <4>1, <4>2, <4>3, KnowsTrimmed
    <3>10. Knows(disk', log', forgotten')
      <4>1. Knows(disk, log, forgotten')
        BY <3>2, KnowsTrimmed DEF JournalTypeOK
      <4> QED
        BY <3>4, <3>9, <4>1
    <3> QED
      BY <3>2, <3>4, <3>8, <3>9, <3>10, HistoryKept
  <2> QED
    BY <1>2, <2>1, <2>2, <2>3, <2>4, <2>5, <2>6, <2>7 DEF WorkerStep
<1> QED
  BY <1>0, <1>1, <1>2 DEF JournalNext

LEMMA JournalInvHolds == JournalSpec => []JournalInv
<1>1. JournalInit => JournalInv
  <2> SUFFICES ASSUME JournalInit PROVE JournalInv
    OBVIOUS
  <2>1. EmptyRoom \in Room
    BY DEF EmptyRoom, Room
  <2>2. JournalTypeOK /\ ActiveRequests
    BY <2>1 DEF JournalInit, JournalTypeOK, Phases, Replies, ActiveRequests
  <2>3. log = <<>>
    BY DEF JournalInit
  <2> QED
    BY <2>2, <2>3 DEF JournalInv, Knows, FencedOrder, AtMostOnce
<1>2. JournalInv /\ [JournalNext]_journalVars => JournalInv'
  BY JournalStep
<1> QED
  BY <1>1, <1>2, PTL DEF JournalSpec

-----------------------------------------------------------------------------
(* Records and results stand for executions *)

\* A copy of the room whose results come from executions that ended.
DoneReal(copy, finished) ==
    \A o \in Ops : copy.ops[o] # NoEntry /\ copy.ops[o].done => <<o, copy.ops[o].fp>> \in finished

RealInv ==
    /\ RunningRecorded
    /\ ResultReal
    /\ DoneReal(mem, ended)
    /\ DoneReal(disk, ended)

\* What recording a request, and ending an operation, make of every record.
LEMMA RecordedOps ==
    ASSUME JournalTypeOK, NEW r \in Requests, NEW o \in Ops
    PROVE  Recorded(r).ops[o] = IF o = r.op THEN [fp |-> Fingerprint(r), done |-> FALSE]
                                ELSE mem.ops[o]
<1>1. mem.ops \in [Ops -> Entry \cup {NoEntry}] /\ r.op \in Ops
  BY RequestAssumption DEF JournalTypeOK, Room
<1> DEFINE e == [fp |-> Fingerprint(r), done |-> FALSE]
           ops == [mem.ops EXCEPT ![r.op] = e]
<1>2. Recorded(r).ops = ops
  BY DEF Recorded
<1> HIDE DEF e
<1>3. ops[o] = IF o = r.op THEN e ELSE mem.ops[o]
  BY <1>1
<1> QED
  BY <1>2, <1>3 DEF e

LEMMA EndedOps ==
    ASSUME JournalTypeOK, NEW op \in Ops, mem.ops[op] # NoEntry, NEW drop \in SUBSET Ops, NEW o \in Ops
    PROVE  Ended(op, drop).ops[o] = IF o \in drop THEN NoEntry
                                    ELSE IF o = op THEN [fp |-> mem.ops[op].fp, done |-> TRUE]
                                    ELSE mem.ops[o]
<1>1. mem.ops \in [Ops -> Entry \cup {NoEntry}] /\ mem \in Room
  BY DEF JournalTypeOK, Room
<1>2. [mem.ops[op] EXCEPT !.done = TRUE] = [fp |-> mem.ops[op].fp, done |-> TRUE]
  <2>1. \A e \in Entry : e = [fp |-> e.fp, done |-> e.done]
    BY DEF Entry
  <2>2. \A e \in Entry : /\ [e EXCEPT !.done = TRUE] \in Entry
                         /\ [e EXCEPT !.done = TRUE].fp = e.fp
                         /\ [e EXCEPT !.done = TRUE].done = TRUE
    BY DEF Entry
  <2> QED
    BY <1>1, <2>1, <2>2
<1>3. Done(op)[o] = IF o = op THEN [mem.ops[op] EXCEPT !.done = TRUE] ELSE mem.ops[o]
  BY <1>1 DEF Done
<1> DEFINE ops == [p \in Ops |-> IF p \in drop THEN NoEntry ELSE Done(op)[p]]
<1>4. Ended(op, drop).ops = ops
  BY <1>1 DEF Ended, Room
<1>5. ops[o] = IF o \in drop THEN NoEntry ELSE Done(op)[o]
  OBVIOUS
<1> HIDE DEF ops
<1> QED
  BY <1>2, <1>3, <1>4, <1>5

\* Recording a request adds no result.
LEMMA RecordedDone ==
    ASSUME JournalTypeOK, NEW r \in Requests, DoneReal(mem, ended)
    PROVE  DoneReal(Recorded(r), ended)
<1> SUFFICES ASSUME NEW o \in Ops, Recorded(r).ops[o] # NoEntry, Recorded(r).ops[o].done
             PROVE  <<o, Recorded(r).ops[o].fp>> \in ended
  BY DEF DoneReal
<1>1. CASE o = r.op
  <2>1. Recorded(r).ops[o] = [fp |-> Fingerprint(r), done |-> FALSE]
    BY <1>1, RecordedOps
  <2>2. Recorded(r).ops[o].done = FALSE
    BY <2>1
  <2> QED
    BY <2>2
<1>2. CASE o # r.op
  BY <1>2, RecordedOps DEF DoneReal
<1> QED
  BY <1>1, <1>2

\* What finish drops of the records was completed.
LEMMA DropsCompleted ==
    ASSUME NEW ops, NEW op, NEW drop \in Trimmed(ops, op), NEW o \in drop
    PROVE  o \in Ops /\ ops[o] # NoEntry /\ ops[o].done
  BY DEF Trimmed, Completed, Kept, Map

\* A worker that answers, and does not end an execution, disturbs nothing.
LEMMA RealAnswers ==
    ASSUME JournalInv, RealInv, NEW w \in Workers, NEW kind \in Replies, Answer(w, kind),
           kind = "result" => <<req[w].op, Fingerprint(req[w])>> \in ended,
           mem' = mem, ended' = ended,
           disk' = disk \/ \A o \in Ops : mem.ops[o] # NoEntry => disk'.ops[o] # NoEntry
    PROVE  RunningRecorded' /\ ResultReal'
<1>1. phase \in [Workers -> Phases] /\ reply \in [Workers -> Replies]
  BY DEF JournalInv, JournalTypeOK
<1>2. \A v \in Workers : phase'[v] \in {"accepted", "launched"} =>
         v # w /\ phase[v] \in {"accepted", "launched"} /\ req[v].op \in Ops
  BY <1>1, RequestAssumption DEF Answer, JournalInv, ActiveRequests
<1>3. RunningRecorded'
  <2> SUFFICES ASSUME NEW v \in Workers, phase'[v] \in {"accepted", "launched"}
               PROVE  /\ mem.ops[req[v].op] = [fp |-> Fingerprint(req[v]), done |-> FALSE]
                      /\ disk'.ops[req[v].op] # NoEntry
                      /\ \A u \in Workers : phase'[u] \in {"accepted", "launched"} /\ req[u].op = req[v].op
                            => u = v
    BY DEF RunningRecorded, Answer
  <2>1. mem.ops[req[v].op] = [fp |-> Fingerprint(req[v]), done |-> FALSE]
        /\ disk.ops[req[v].op] # NoEntry
    BY <1>2 DEF RealInv, RunningRecorded
  <2>2. mem.ops[req[v].op] # NoEntry
    <3>1. [fp |-> Fingerprint(req[v]), done |-> FALSE] \in Entry
      BY <1>2 DEF JournalInv, ActiveRequests, Entry, Fingerprints
    <3> QED
      BY <2>1, <3>1, EntryAssumption
  <2> QED
    BY <1>2, <2>1, <2>2 DEF RealInv, RunningRecorded
<1>4. ResultReal'
  BY <1>1 DEF RealInv, ResultReal, Answer
<1> QED
  BY <1>3, <1>4

LEMMA RealStep ==
    ASSUME JournalInv, RealInv, [JournalNext]_journalVars
    PROVE  RealInv'
<1>t. /\ phase \in [Workers -> Phases] /\ reply \in [Workers -> Replies]
      /\ mem \in Room /\ disk \in Room /\ JournalTypeOK
  BY DEF JournalInv, JournalTypeOK
<1>k. \A kind \in {"error", "conflict", "unknown", "fenced", "collision", "result"} : kind \in Replies
  BY DEF Replies
<1>r. \A v \in Workers : phase[v] # "idle" =>
         req[v] \in Requests /\ req[v].op \in Ops /\ Fingerprint(req[v]) \in Fingerprints
  BY RequestAssumption DEF JournalInv, ActiveRequests, Fingerprints
<1>e. \A v \in Workers : phase[v] # "idle" =>
         [fp |-> Fingerprint(req[v]), done |-> FALSE] # NoEntry
  <2>1. \A f \in Fingerprints : [fp |-> f, done |-> FALSE] \in Entry
    BY DEF Entry
  <2> QED
    BY <1>r, <2>1, EntryAssumption
<1>0. CASE UNCHANGED journalVars
  BY <1>0 DEF journalVars, RealInv, RunningRecorded, ResultReal
<1>1. CASE Crash
  BY <1>1 DEF Crash, RealInv, RunningRecorded, ResultReal
<1>2. ASSUME NEW w \in Workers, WorkerStep(w)
      PROVE  RealInv'
  <2>1. CASE \E r \in Requests : Receive(w, r)
    <3>1. RunningRecorded'
      BY <1>t, <2>1 DEF Receive, RealInv, RunningRecorded
    <3>2. ResultReal'
      BY <1>t, <2>1 DEF Receive, RealInv, ResultReal
    <3> QED
      BY <2>1, <3>1, <3>2 DEF Receive, RealInv
  <2>2. CASE Lock(w)
    <3>1. RunningRecorded'
      BY <1>t, <2>2 DEF Lock, RealInv, RunningRecorded
    <3>2. ResultReal'
      BY <2>2 DEF Lock, RealInv, ResultReal
    <3> QED
      BY <2>2, <3>1, <3>2 DEF Lock, RealInv
  <2>3. CASE GiveUp(w) \/ BeginRemembered(w) \/ BeginFenced(w)
    <3>1. UNCHANGED <<mem, disk, log, ended, forgotten>>
      BY <2>3 DEF GiveUp, BeginRemembered, BeginFenced
    <3>2. PICK kind \in Replies :
            Answer(w, kind) /\ (kind = "result" => <<req[w].op, Fingerprint(req[w])>> \in ended)
      <4>1. CASE GiveUp(w) \/ BeginFenced(w)
        BY <1>k, <4>1 DEF GiveUp, BeginFenced
      <4>2. CASE BeginRemembered(w)
        <5>1. req[w].op \in Ops
          BY <1>r, <4>2 DEF BeginRemembered
        <5> QED
          BY <1>k, <4>2, <5>1 DEF BeginRemembered, RealInv, DoneReal
      <4> QED
        BY <2>3, <4>1, <4>2
    <3>3. RunningRecorded' /\ ResultReal'
      BY <3>1, <3>2, RealAnswers
    <3> QED
      BY <3>1, <3>3 DEF RealInv
  <2>4. CASE BeginSaved(w)
    <3> DEFINE r == req[w]
    <3>1. r \in Requests /\ r.op \in Ops /\ mem.ops[r.op] = NoEntry
      BY <1>r, <2>4 DEF BeginSaved, Admissible
    <3>2. mem' = Recorded(r) /\ disk' = Recorded(r) /\ ended' = ended /\ req' = req /\ reply' = reply
      BY <2>4 DEF BeginSaved
    <3>3. \A v \in Workers : phase'[v] \in {"accepted", "launched"} =>
             v = w \/ (phase[v] \in {"accepted", "launched"} /\ req[v].op # r.op)
      <4>1. \A v \in Workers : phase[v] \in {"accepted", "launched"} => req[v].op # r.op
        BY <1>e, <3>1 DEF RealInv, RunningRecorded
      <4> QED
        BY <1>t, <2>4, <4>1 DEF BeginSaved
    <3>4. RunningRecorded'
      <4> SUFFICES ASSUME NEW v \in Workers, phase'[v] \in {"accepted", "launched"}
                   PROVE  /\ Recorded(r).ops[req[v].op] = [fp |-> Fingerprint(req[v]), done |-> FALSE]
                          /\ Recorded(r).ops[req[v].op] # NoEntry
                          /\ \A u \in Workers :
                                phase'[u] \in {"accepted", "launched"} /\ req[u].op = req[v].op => u = v
        BY <3>2 DEF RunningRecorded
      <4>1. req[v].op \in Ops /\ [fp |-> Fingerprint(req[v]), done |-> FALSE] # NoEntry
        BY <1>r, <1>e, <2>4, <3>3 DEF BeginSaved, Admissible
      <4>2. Recorded(r).ops[req[v].op] = [fp |-> Fingerprint(req[v]), done |-> FALSE]
        BY <1>t, <3>1, <3>3, <4>1, RecordedOps DEF RealInv, RunningRecorded
      <4>3. \A u \in Workers :
               phase'[u] \in {"accepted", "launched"} /\ req[u].op = req[v].op => u = v
        BY <3>3 DEF RealInv, RunningRecorded
      <4> QED
        BY <4>1, <4>2, <4>3
    <3>5. DoneReal(Recorded(r), ended)
      BY <1>t, <3>1, RecordedDone DEF RealInv
    <3>6. ResultReal'
      BY <3>2 DEF RealInv, ResultReal
    <3> QED
      BY <3>2, <3>4, <3>5, <3>6 DEF RealInv
  <2>5. CASE BeginUnsaved(w)
    <3> DEFINE r == req[w]
    <3>1. r \in Requests /\ r.op \in Ops
      BY <1>r, <2>5 DEF BeginUnsaved, Admissible
    <3>2. disk' \in {disk, Recorded(r)} /\ mem' = mem /\ ended' = ended /\ Answer(w, "error")
      BY <2>5 DEF BeginUnsaved
    <3>3. DoneReal(Recorded(r), ended)
      BY <1>t, <3>1, RecordedDone DEF RealInv
    <3>4. \A o \in Ops : mem.ops[o] # NoEntry => Recorded(r).ops[o] # NoEntry
      BY <1>t, <3>1, RecordedTypes
    <3>5. RunningRecorded' /\ ResultReal'
      BY <1>k, <3>2, <3>4, RealAnswers
    <3> QED
      BY <3>2, <3>3, <3>5 DEF RealInv
  <2>6. CASE Launch(w)
    <3>1. RunningRecorded'
      BY <1>t, <2>6 DEF Launch, RealInv, RunningRecorded
    <3>2. ResultReal'
      BY <2>6 DEF Launch, RealInv, ResultReal
    <3> QED
      BY <2>6, <3>1, <3>2 DEF Launch, RealInv
  <2>7. CASE Finish(w)
    <3> DEFINE op == req[w].op
    <3>1. op \in Ops /\ mem.ops[op] # NoEntry /\ phase[w] \in {"accepted", "launched"}
      BY <1>r, <2>7 DEF Finish
    <3>2. mem.ops[op].fp = Fingerprint(req[w])
      <4>1. mem.ops[op] = [fp |-> Fingerprint(req[w]), done |-> FALSE]
        BY <3>1 DEF RealInv, RunningRecorded
      <4> QED
        BY <4>1
    <3>3. PICK drop \in Trimmed(Done(op), op) : mem' = Ended(op, drop)
      BY <2>7 DEF Finish, Ended
    <3>4. drop \in SUBSET Ops
      BY DEF Trimmed, Completed, Kept, Map
    <3>5. /\ disk' \in {disk, mem'}
          /\ ended' = ended \cup {<<op, mem.ops[op].fp>>}
          /\ \E kind \in Replies : Answer(w, kind)
      BY <1>k, <2>7 DEF Finish
    <3>6. \A o \in Ops : mem'.ops[o] = IF o \in drop THEN NoEntry
                                       ELSE IF o = op THEN [fp |-> mem.ops[op].fp, done |-> TRUE]
                                       ELSE mem.ops[o]
      BY <1>t, <3>1, <3>3, <3>4, EndedOps
    <3>7. DoneReal(mem', ended') /\ DoneReal(disk', ended')
      <4>1. DoneReal(mem', ended')
        BY <3>5, <3>6 DEF RealInv, DoneReal
      <4>2. DoneReal(disk, ended')
        BY <3>5 DEF RealInv, DoneReal
      <4> QED
        BY <3>5, <4>1, <4>2
    <3>8. ResultReal'
      BY <1>t, <3>2, <3>5 DEF RealInv, ResultReal, Answer
    <3>9. RunningRecorded'
      <4>1. \A v \in Workers : phase'[v] \in {"accepted", "launched"} =>
               v # w /\ phase[v] \in {"accepted", "launched"}
        BY <1>t, <3>5 DEF Answer
      <4>2. req' = req
        BY <3>5 DEF Answer
      <4> SUFFICES ASSUME NEW v \in Workers, v # w, phase[v] \in {"accepted", "launched"}
                   PROVE  /\ mem'.ops[req[v].op] = [fp |-> Fingerprint(req[v]), done |-> FALSE]
                          /\ disk'.ops[req[v].op] # NoEntry
                          /\ \A u \in Workers :
                                phase[u] \in {"accepted", "launched"} /\ req[u].op = req[v].op => u = v
        BY <4>1, <4>2 DEF RunningRecorded
      <4>3. /\ mem.ops[req[v].op] = [fp |-> Fingerprint(req[v]), done |-> FALSE]
            /\ disk.ops[req[v].op] # NoEntry
            /\ \A u \in Workers :
                  phase[u] \in {"accepted", "launched"} /\ req[u].op = req[v].op => u = v
        BY DEF RealInv, RunningRecorded
      <4>4. req[v].op \in Ops /\ req[v].op # op
        BY <1>r, <3>1, <4>3
      <4>5. Done(op)[req[v].op] = mem.ops[req[v].op]
        BY <1>t, <3>1, <4>4 DEF Done, Room
      <4>6. req[v].op \notin drop
        <5>1. ~[fp |-> Fingerprint(req[v]), done |-> FALSE].done
          OBVIOUS
        <5> QED
          BY <4>3, <4>5, <5>1, DropsCompleted
      <4>7. mem'.ops[req[v].op] = mem.ops[req[v].op]
        BY <3>6, <4>4, <4>6
      <4> QED
        BY <1>e, <3>5, <4>3, <4>7
    <3> QED
      BY <3>7, <3>8, <3>9 DEF RealInv
  <2> QED
    BY <1>2, <2>1, <2>2, <2>3, <2>4, <2>5, <2>6, <2>7 DEF WorkerStep
<1> QED
  BY <1>0, <1>1, <1>2 DEF JournalNext

LEMMA RealInvHolds == JournalSpec => []RealInv
<1>1. JournalInit => RealInv
  BY DEF JournalInit, EmptyRoom, RealInv, RunningRecorded, ResultReal, DoneReal
<1>2. JournalInv /\ RealInv /\ [JournalNext]_journalVars => RealInv'
  BY RealStep
<1> QED
  BY <1>1, <1>2, JournalInvHolds, PTL DEF JournalSpec

-----------------------------------------------------------------------------
\* Every state of the journal is well typed.
THEOREM JournalTypesHold == JournalSpec => []JournalTypeOK
  BY JournalInvHolds, PTL DEF JournalInv

\* begin and beginRuntime admit operations in fencing order whatever requests
\* arrive, however often the agent restarts and whichever saves fail.
THEOREM AdmissionIsFenced == JournalSpec => []FencedOrder
  BY JournalInvHolds, PTL DEF JournalInv

\* A repeated request is executed again only after finish trimmed its record.
THEOREM AdmissionIsAtMostOnce == JournalSpec => []AtMostOnce
  BY JournalInvHolds, PTL DEF JournalInv

\* While begin's record of a request runs it is in memory and in the file and no
\* other worker runs the same key, and a result is given only for an execution of
\* that very request that ended, whatever was lost, repeated or restarted.
THEOREM RecordsAreReal == JournalSpec => []RecordsReal
  BY RealInvHolds, PTL DEF RealInv, RecordsReal

\* The fence answers a repeat only of an operation that never ran or was trimmed:
\* begin looks at its records first.
THEOREM RejectionIsFinal == JournalSpec => RejectedNeverRan
<1>1. ASSUME JournalInv, [JournalNext]_journalVars, NEW w \in Workers,
             phase[w] = "locked", reply'[w] \in {"fenced", "collision"},
             NEW i \in DOMAIN log, log[i].op = req[w].op
      PROVE  req[w].op \in forgotten
  <2>1. reply[w] = "none" /\ reply \in [Workers -> Replies]
    BY <1>1 DEF JournalInv, ActiveRequests, JournalTypeOK
  <2>2. BeginFenced(w)
    <3>1. ~UNCHANGED journalVars /\ ~Crash
      BY <1>1, <2>1 DEF journalVars, Crash
    <3>2. PICK v \in Workers : WorkerStep(v)
      BY <1>1, <3>1 DEF JournalNext
    <3>3. v = w
      BY <1>1, <2>1, <3>2 DEF WorkerStep, Receive, GiveUp, Lock, BeginRemembered, BeginFenced,
         BeginSaved, BeginUnsaved, Launch, Finish, Answer
    <3> QED
      BY <1>1, <2>1, <3>2, <3>3 DEF WorkerStep, Receive, GiveUp, Lock, BeginRemembered,
         BeginSaved, BeginUnsaved, Launch, Finish, Answer
  <2>3. mem.ops[req[w].op] = NoEntry
    BY <2>2 DEF BeginFenced
  <2> QED
    BY <1>1, <2>3 DEF JournalInv, Knows
<1>2. JournalInv /\ [JournalNext]_journalVars =>
        [\A w \in Workers :
           phase[w] = "locked" /\ reply'[w] \in {"fenced", "collision"} =>
             \A i \in DOMAIN log : log[i].op = req[w].op => req[w].op \in forgotten]_journalVars
  BY <1>1
<1> QED
  BY <1>2, JournalInvHolds, PTL DEF JournalSpec, RejectedNeverRan

-----------------------------------------------------------------------------
(* The command channel *)

\* c can no longer reach the agent, and never did.
Refused(c) ==
    /\ sender[c] = "sent" /\ Stage(c) = "away"
    /\ \A i \in DOMAIN down : down[i] # c

\* The answer of a handler, as against a refusal.
Final(m) == m.kind \in {"success", "failure"}

\* A command is on the wire to the agent once, after it was sent and before the
\* agent has it.
WireInv ==
    /\ \A i \in DOMAIN down : sender[down[i]] = "sent" /\ Stage(down[i]) = "away"
    /\ \A i, j \in DOMAIN down : down[i] = down[j] => i = j
    /\ \A c \in Commands : Stage(c) # "away" => sender[c] = "sent"

\* A queue holds each of its commands once, and no other.
QueueInv ==
    \A q \in Queues :
        /\ \A i \in DOMAIN queue[q] : QueueOf[queue[q][i]] = q /\ Stage(queue[q][i]) = "queued"
        /\ \A i, j \in DOMAIN queue[q] : queue[q][i] = queue[q][j] => i = j

\* What a message on the way to the gateway says of its command.
Truthful(m) ==
    /\ m.kind \in {"rejected", "busy"} => Refused(m.cmd)
    /\ m.kind \notin {"rejected", "busy"} => Stage(m.cmd) # "away"
    /\ Final(m) => Stage(m.cmd) = "left"

AnswerInv ==
    /\ \A i \in DOMAIN up : Truthful(up[i])
    /\ \A i, j \in DOMAIN up : Final(up[i]) /\ Final(up[j]) /\ up[i].cmd = up[j].cmd => i = j

\* What the record of a command says of it.
Accurate(c) ==
    /\ sender[c] # "new"
    /\ rec[c].why = "none" <=> rec[c].status \notin Terminal
    /\ rec[c].why = "unsent" => sender[c] = "failed" /\ rec[c].status = "failed"
    /\ rec[c].why = "refused" => Refused(c) /\ rec[c].status = "failed"
    /\ rec[c].why = "executed" =>
          /\ Stage(c) = "left"
          /\ \A i \in DOMAIN up : Final(up[i]) => up[i].cmd # c

RecordInv == \A c \in Commands : rec[c] # NoRecord => Accurate(c)

\* A caller waits for a command that was sent, and sleeps on a real channel.
WaiterInv ==
    \A w \in Waiters :
        /\ waiter[w] # "idle" => sender[Awaits[w]] = "sent"
        /\ waiter[w] = "blocked" => holds[w] # 0

ChannelInv ==
    /\ ChannelTypeOK
    /\ PauseExclusive
    /\ WireInv
    /\ QueueInv
    /\ AnswerInv
    /\ RecordInv
    /\ WaiterInv
    /\ NoLostWakeup

-----------------------------------------------------------------------------
(* Sequences and pairs *)

LEMMA TailRest ==
    ASSUME NEW S, NEW s \in Seq(S), s # <<>>
    PROVE  /\ Tail(s) \in Seq(S) /\ Head(s) \in S /\ 1 \in DOMAIN s /\ Head(s) = s[1]
           /\ \A i \in DOMAIN Tail(s) : i + 1 \in DOMAIN s /\ i + 1 # 1 /\ Tail(s)[i] = s[i + 1]
  OBVIOUS

LEMMA AppendRest ==
    ASSUME NEW S, NEW s \in Seq(S), NEW x \in S
    PROVE  /\ Append(s, x) \in Seq(S)
           /\ \A i \in DOMAIN Append(s, x) :
                 \/ i \in DOMAIN s /\ Append(s, x)[i] = s[i]
                 \/ i = Len(s) + 1 /\ i \notin DOMAIN s /\ Append(s, x)[i] = x
  OBVIOUS

LEMMA RemainsRest ==
    ASSUME NEW S, NEW s \in Seq(S), NEW t \in Remains(s)
    PROVE  t \in Seq(S) /\ \A i \in DOMAIN t : i \in DOMAIN s /\ t[i] = s[i]
<1>1. CASE t = <<>>
  BY <1>1
<1>2. CASE \E j \in DOMAIN s : t = <<s[1]>>
  <2>1. Len(s) \in Nat /\ DOMAIN s = 1 .. Len(s) /\ DOMAIN s # {}
    BY <1>2
  <2>2. 1 \in DOMAIN s
    BY <2>1
  <2>3. s[1] \in S
    BY <2>2
  <2> QED
    BY <1>2, <2>2, <2>3
<1> QED
  BY <1>1, <1>2 DEF Remains

LEMMA ConcatRest ==
    ASSUME NEW S, NEW s \in Seq(S), NEW t \in Seq(S)
    PROVE  /\ s \o t \in Seq(S)
           /\ \A i \in DOMAIN (s \o t) :
                 \/ i \in DOMAIN s /\ (s \o t)[i] = s[i]
                 \/ i \notin DOMAIN s /\ i - Len(s) \in DOMAIN t /\ (s \o t)[i] = t[i - Len(s)]
  OBVIOUS

LEMMA SpotFirst ==
    ASSUME spot \in [Commands -> AgentStages \X BOOLEAN], NEW c \in Commands, NEW s \in AgentStages
    PROVE  /\ [spot EXCEPT ![c][1] = s] \in [Commands -> AgentStages \X BOOLEAN]
           /\ \A d \in Commands : /\ [spot EXCEPT ![c][1] = s][d][1] = IF d = c THEN s ELSE spot[d][1]
                                  /\ [spot EXCEPT ![c][1] = s][d][2] = spot[d][2]
  OBVIOUS

LEMMA SpotSecond ==
    ASSUME spot \in [Commands -> AgentStages \X BOOLEAN], NEW c \in Commands, NEW b \in BOOLEAN
    PROVE  /\ [spot EXCEPT ![c][2] = b] \in [Commands -> AgentStages \X BOOLEAN]
           /\ \A d \in Commands : [spot EXCEPT ![c][2] = b][d][1] = spot[d][1]
  OBVIOUS

LEMMA SpotBoth ==
    ASSUME spot \in [Commands -> AgentStages \X BOOLEAN], NEW c \in Commands,
           NEW s \in AgentStages, NEW b \in BOOLEAN
    PROVE  /\ [spot EXCEPT ![c] = <<s, b>>] \in [Commands -> AgentStages \X BOOLEAN]
           /\ \A d \in Commands : [spot EXCEPT ![c] = <<s, b>>][d][1] = IF d = c THEN s ELSE spot[d][1]
  OBVIOUS

-----------------------------------------------------------------------------
(* Updates of a record *)

Records == [Commands -> Record \cup {NoRecord}]

\* next differs from rec in the record of c only.
Updates(next, c) ==
    /\ next \in Records
    /\ next[c] \in Record /\ next[c] # NoRecord
    /\ \A d \in Commands : d # c => next[d] = rec[d]

LEMMA NewUpdates ==
    ASSUME rec \in Records, NEW c \in Commands, NEW r \in Record, NEW next,
           next = [rec EXCEPT ![c] = r]
    PROVE  Updates(next, c) /\ next[c] = r
  BY RecordAssumption DEF Records, Updates

-----------------------------------------------------------------------------
(* What a step keeps that leaves a part of the channel alone *)

Inside == {c \in Commands : Stage(c) \in {"queued", "taken", "running"}}

\* t is a part of s: what is left when the wire breaks or its first message is read.
PartOf(t, s) == \E k \in Nat : \A i \in DOMAIN t : i + k \in DOMAIN s /\ t[i] = s[i + k]

\* Commands stay where they are, or move on inside the agent and out of it.
StagesKept == \A c \in Commands : spot'[c][1] = spot[c][1]
Forward(c) ==
    \/ spot'[c][1] = spot[c][1]
    \/ spot[c][1] \notin {"away", "left"} /\ spot'[c][1] # "away"
StagesForward == \A c \in Commands : Forward(c)

\* A handler's answer that is on the wire was there already, or is new for its command.
FinalsNew ==
    \A i \in DOMAIN up' : Final(up'[i]) =>
        (\E j \in DOMAIN up : up[j] = up'[i]) \/ spot[up'[i].cmd][1] # "left"

LEMMA InsideFinite == IsFiniteSet(Inside) /\ Cardinality(Inside) \in Nat
<1>1. IsFiniteSet(Inside)
  BY FiniteAssumption, FS_Subset DEF Inside
<1> QED
  BY <1>1, FS_CardinalityType

LEMMA PauseSame ==
    ASSUME PauseExclusive, Inside' = Inside, pending' = pending, paused' => paused
    PROVE  PauseExclusive'
  BY DEF PauseExclusive, Inside

LEMMA PauseKept ==
    ASSUME PauseExclusive, StagesKept, pending' = pending, paused' => paused
    PROVE  PauseExclusive'
<1>1. Inside' = Inside
  BY DEF Inside, StagesKept, Stage
<1> QED
  BY <1>1, PauseSame

LEMMA WireKept ==
    ASSUME ChannelTypeOK, ChannelTypeOK', WireInv, StagesForward, PartOf(down', down),
           \A c \in Commands : sender[c] = "sent" => sender'[c] = "sent"
    PROVE  WireInv'
<1>1. PICK k \in Nat : \A i \in DOMAIN down' : i + k \in DOMAIN down /\ down'[i] = down[i + k]
  BY DEF PartOf
<1>2. \A i \in DOMAIN down : down[i] \in Commands
  BY DEF ChannelTypeOK
<1>3. \A i \in DOMAIN down' : sender'[down'[i]] = "sent" /\ spot'[down'[i]][1] = "away"
  BY <1>1, <1>2 DEF WireInv, StagesForward, Forward, Stage
<1>4. \A i, j \in DOMAIN down' : down'[i] = down'[j] => i + k = j + k
  BY <1>1 DEF WireInv
<1>5. \A i, j \in DOMAIN down' : down'[i] = down'[j] => i = j
  BY <1>4 DEF ChannelTypeOK
<1> QED
  BY <1>3, <1>5 DEF WireInv, StagesForward, Forward, Stage

LEMMA QueueKept ==
    ASSUME ChannelTypeOK, QueueInv, StagesKept, queue' = queue
    PROVE  QueueInv'
<1>1. \A q \in Queues : \A i \in DOMAIN queue[q] : queue[q][i] \in Commands
  BY DEF ChannelTypeOK
<1> QED
  BY <1>1 DEF QueueInv, StagesKept, Stage

LEMMA RefusedKept ==
    ASSUME NEW c \in Commands, Forward(c), Refused(c), PartOf(down', down),
           sender[c] = "sent" => sender'[c] = "sent"
    PROVE  Refused(c)'
  BY DEF Refused, Forward, Stage, PartOf

\* A message that was true stays true while its command stays where it is.
LEMMA TruthKept ==
    ASSUME NEW m \in Message, Forward(m.cmd), Truthful(m), PartOf(down', down),
           sender[m.cmd] = "sent" => sender'[m.cmd] = "sent"
    PROVE  /\ m.kind \in {"rejected", "busy"} => Refused(m.cmd)'
           /\ m.kind \notin {"rejected", "busy"} => spot'[m.cmd][1] # "away"
           /\ Final(m) => spot'[m.cmd][1] = "left"
<1>1. m.cmd \in Commands
  BY DEF Message
<1> QED
  BY <1>1, RefusedKept DEF Truthful, Forward, Stage

LEMMA AnswersKept ==
    ASSUME ChannelTypeOK, ChannelTypeOK', AnswerInv, StagesForward,
           PartOf(up', up), PartOf(down', down),
           \A c \in Commands : sender[c] = "sent" => sender'[c] = "sent"
    PROVE  AnswerInv'
<1>1. PICK k \in Nat : \A i \in DOMAIN up' : i + k \in DOMAIN up /\ up'[i] = up[i + k]
  BY DEF PartOf
<1>2. \A i \in DOMAIN up : up[i] \in Message
  BY DEF ChannelTypeOK
<1>3. \A i \in DOMAIN up' : Truthful(up[i])'
  <2> SUFFICES ASSUME NEW i \in DOMAIN up' PROVE Truthful(up[i])'
    OBVIOUS
  <2>1. up'[i] \in Message /\ Truthful(up'[i])
    BY <1>1, <1>2 DEF AnswerInv
  <2>2. up'[i].cmd \in Commands
    BY <2>1 DEF Message
  <2> QED
    BY <2>1, <2>2, TruthKept DEF StagesForward, Truthful, Stage, Final
<1>4. \A i, j \in DOMAIN up' :
         Final(up'[i]) /\ Final(up'[j]) /\ up'[i].cmd = up'[j].cmd => i + k = j + k
  BY <1>1 DEF AnswerInv
<1>5. \A i, j \in DOMAIN up' :
         Final(up'[i]) /\ Final(up'[j]) /\ up'[i].cmd = up'[j].cmd => i = j
  BY <1>4 DEF ChannelTypeOK
<1> QED
  BY <1>3, <1>5 DEF AnswerInv, Final

LEMMA PartFinals ==
    ASSUME PartOf(up', up)
    PROVE  FinalsNew
  BY DEF PartOf, FinalsNew

LEMMA AccurateKept ==
    ASSUME NEW c \in Commands, Accurate(c), Forward(c), FinalsNew,
           PartOf(down', down), sender'[c] = sender[c],
           rec'[c].why = rec[c].why, rec'[c].status = rec[c].status
    PROVE  Accurate(c)'
<1>1. Refused(c) => Refused(c)'
  BY RefusedKept
<1>2. ASSUME rec[c].why = "executed"
      PROVE  spot'[c][1] = "left" /\ \A i \in DOMAIN up' : Final(up'[i]) => up'[i].cmd # c
  <2>1. spot[c][1] = "left" /\ \A i \in DOMAIN up : Final(up[i]) => up[i].cmd # c
    BY <1>2 DEF Accurate, Stage
  <2> QED
    BY <2>1 DEF Forward, FinalsNew
<1> QED
  BY <1>1, <1>2 DEF Accurate, Stage, Final

LEMMA RecordsKept ==
    ASSUME RecordInv, StagesForward, FinalsNew, PartOf(down', down), sender' = sender, rec' = rec
    PROVE  RecordInv'
  BY AccurateKept DEF RecordInv, StagesForward

LEMMA WaitersKept ==
    ASSUME WaiterInv, NoLostWakeup, waiter' = waiter, holds' = holds, closed' = closed, rec' = rec,
           \A c \in Commands : sender[c] = "sent" => sender'[c] = "sent"
    PROVE  WaiterInv' /\ NoLostWakeup'
<1>1. \A w \in Waiters : Awaits[w] \in Commands
  BY QueueAssumption
<1> QED
  BY <1>1 DEF WaiterInv, NoLostWakeup, Open

LEMMA Parts ==
    ASSUME NEW S, NEW s \in Seq(S)
    PROVE  /\ PartOf(s, s) /\ PartOf(<<>>, s)
           /\ s # <<>> => PartOf(Tail(s), s)
           /\ \A t \in Remains(s) : PartOf(t, s)
<1>1. PartOf(s, s)
  <2>1. \A i \in DOMAIN s : i + 0 \in DOMAIN s /\ s[i] = s[i + 0]
    OBVIOUS
  <2> QED
    BY <2>1 DEF PartOf
<1>2. PartOf(<<>>, s)
  BY DEF PartOf
<1>3. ASSUME s # <<>> PROVE PartOf(Tail(s), s)
  <2>1. \A i \in DOMAIN Tail(s) : i + 1 \in DOMAIN s /\ Tail(s)[i] = s[i + 1]
    BY <1>3, TailRest
  <2> QED
    BY <2>1 DEF PartOf
<1>4. ASSUME NEW t \in Remains(s) PROVE PartOf(t, s)
  <2>1. \A i \in DOMAIN t : i \in DOMAIN s /\ t[i] = s[i]
    BY RemainsRest
  <2>2. \A i \in DOMAIN t : i + 0 \in DOMAIN s /\ t[i] = s[i + 0]
    BY <2>1
  <2> QED
    BY <2>2 DEF PartOf
<1> QED
  BY <1>1, <1>2, <1>3, <1>4

-----------------------------------------------------------------------------
(* One lemma per group of actions *)

\* A step that leaves commands, records and waiters where they are.
LEMMA QuietStep ==
    ASSUME ChannelInv, ChannelTypeOK', StagesKept, PartOf(up', up), PartOf(down', down),
           sender' = sender, rec' = rec, queue' = queue, pending' = pending, paused' => paused,
           waiter' = waiter, holds' = holds, closed' = closed
    PROVE  ChannelInv'
<1>1. StagesForward /\ FinalsNew
  BY PartFinals DEF StagesKept, StagesForward, Forward
<1>2. PauseExclusive' /\ QueueInv'
  BY PauseKept, QueueKept DEF ChannelInv
<1>3. WireInv'
  BY <1>1, WireKept DEF ChannelInv
<1>4. AnswerInv'
  BY <1>1, AnswersKept DEF ChannelInv
<1>5. RecordInv'
  BY <1>1, RecordsKept DEF ChannelInv
<1>6. WaiterInv' /\ NoLostWakeup'
  BY WaitersKept DEF ChannelInv
<1> QED
  BY <1>2, <1>3, <1>4, <1>5, <1>6 DEF ChannelInv

LEMMA WiresPart ==
    ASSUME ChannelTypeOK
    PROVE  /\ PartOf(up, up) /\ PartOf(down, down)
           /\ \A t \in Remains(up) : PartOf(t, up) /\ t \in Seq(Message)
           /\ \A t \in Remains(down) : PartOf(t, down) /\ t \in Seq(Commands)
<1>1. up \in Seq(Message) /\ down \in Seq(Commands)
  BY DEF ChannelTypeOK
<1> QED
  BY <1>1, Parts, RemainsRest

LEMMA ConnectionStep ==
    ASSUME ChannelInv,
           UNCHANGED channelVars \/ Connect \/ Disconnect \/ ClockTick \/ Resume
    PROVE  ChannelInv'
<1>1. ChannelTypeOK
  BY DEF ChannelInv
<1>2. /\ UNCHANGED <<sender, rec, queue, pending, spot, waiter, holds, closed, sent, via, chans>>
      /\ paused' => paused
  BY DEF channelVars, gatewayVars, wireVars, agentVars, waiterVars,
         Connect, Disconnect, ClockTick, Resume
<1>3. StagesKept
  BY <1>2 DEF StagesKept
<1>4. up' \in Remains(up) \cup {up} /\ down' \in Remains(down) \cup {down}
  BY DEF channelVars, wireVars, Connect, Disconnect, ClockTick, Resume
<1>5. PartOf(up', up) /\ PartOf(down', down) /\ up' \in Seq(Message) /\ down' \in Seq(Commands)
  BY <1>1, <1>4, WiresPart DEF ChannelTypeOK
<1>6. now' \in Nat /\ conn' \in 0..MaxConns /\ conns' \in 0..MaxConns /\ paused' \in BOOLEAN
  <2>1. now \in Nat /\ conn \in 0..MaxConns /\ conns \in 0..MaxConns /\ MaxConns \in Nat
        /\ paused \in BOOLEAN
    BY <1>1, SizeAssumption DEF ChannelTypeOK
  <2>2. now' \in {now, now + 1} /\ paused' \in {paused, FALSE}
    BY DEF channelVars, gatewayVars, agentVars, Connect, Disconnect, ClockTick, Resume
  <2>3. \/ conn' \in {conn, 0} /\ conns' = conns
        \/ conns < MaxConns /\ conn' = conns + 1 /\ conns' = conns + 1
    BY DEF channelVars, wireVars, Connect, Disconnect, ClockTick, Resume
  <2>4. now' \in Nat /\ conn' \in 0..MaxConns /\ conns' \in 0..MaxConns
    BY <2>1, <2>2, <2>3
  <2>5. paused' \in BOOLEAN
    BY <2>1, <2>2
  <2> QED
    BY <2>4, <2>5
<1>7. ChannelTypeOK'
  BY <1>1, <1>2, <1>5, <1>6 DEF ChannelTypeOK
<1> QED
  BY <1>2, <1>3, <1>5, <1>7, QuietStep

LEMMA PauseStep ==
    ASSUME ChannelInv, Pause
    PROVE  ChannelInv'
<1>1. /\ UNCHANGED <<now, rec, sender, via, conn, conns, down, up, queue, spot, sent, pending,
                     waiter, holds, chans, closed>>
      /\ paused' = TRUE /\ pending = 0
  BY DEF Pause, gatewayVars, wireVars, waiterVars
<1>2. ChannelTypeOK'
  BY <1>1 DEF ChannelInv, ChannelTypeOK
<1>3. Inside = {}
  BY <1>1, InsideFinite, FS_EmptySet DEF ChannelInv, PauseExclusive, Inside
<1>4. PauseExclusive'
  BY <1>1, <1>3 DEF ChannelInv, PauseExclusive, Inside, Stage
<1>5. WireInv' /\ QueueInv' /\ WaiterInv' /\ NoLostWakeup'
  BY <1>1 DEF ChannelInv, WireInv, QueueInv, WaiterInv, NoLostWakeup, Stage, Open
<1>6. AnswerInv' /\ RecordInv'
  BY <1>1 DEF ChannelInv, AnswerInv, Truthful, Refused, Final, RecordInv, Accurate, Stage
<1> QED
  BY <1>2, <1>4, <1>5, <1>6 DEF ChannelInv

LEMMA AgentDiesStep ==
    ASSUME ChannelInv, AgentDies
    PROVE  ChannelInv'
<1>1. ChannelTypeOK
  BY DEF ChannelInv
<1>2. /\ UNCHANGED <<now, rec, sender, via, conns, sent, waiter, holds, chans, closed>>
      /\ conn' = 0 /\ down' = <<>> /\ up' \in Remains(up) /\ pending' = 0 /\ paused' = FALSE
      /\ queue' = [q \in Queues |-> <<>>]
      /\ spot' = [c \in Commands |-> IF Stage(c) = "away" THEN spot[c] ELSE <<"left", TRUE>>]
  BY DEF AgentDies, gatewayVars, waiterVars
<1>3. up' \in Seq(Message) /\ PartOf(up', up)
  BY <1>1, <1>2, WiresPart
<1>4. PartOf(down', down)
  BY <1>1, <1>2, Parts DEF ChannelTypeOK
<1>5. /\ spot' \in [Commands -> AgentStages \X BOOLEAN]
      /\ \A c \in Commands : spot'[c][1] = IF spot[c][1] = "away" THEN "away" ELSE "left"
  BY <1>1, <1>2 DEF ChannelTypeOK, AgentStages, Stage
<1>6. ChannelTypeOK'
  <2>1. queue' \in [Queues -> Seq(Commands)] /\ down' \in Seq(Commands)
    BY <1>2
  <2>2. conn' \in 0..MaxConns /\ pending' \in Nat
    BY <1>2, SizeAssumption
  <2>3. paused' \in BOOLEAN
    BY <1>2
  <2> QED
    BY <1>1, <1>2, <1>3, <1>5, <2>1, <2>2, <2>3 DEF ChannelTypeOK
<1>7. StagesForward
  BY <1>1, <1>5 DEF StagesForward, Forward
<1>8. PauseExclusive'
  <2>1. Inside' = {}
    BY <1>5 DEF Inside, Stage
  <2> QED
    BY <1>2, <2>1, FS_EmptySet DEF PauseExclusive, Inside
<1>9. WireInv' /\ AnswerInv' /\ RecordInv'
  BY <1>1, <1>2, <1>3, <1>4, <1>6, <1>7, PartFinals, WireKept, AnswersKept, RecordsKept
     DEF ChannelInv
<1>10. QueueInv'
  BY <1>2 DEF QueueInv
<1>11. WaiterInv' /\ NoLostWakeup'
  BY <1>2, WaitersKept DEF ChannelInv
<1> QED
  BY <1>6, <1>8, <1>9, <1>10, <1>11 DEF ChannelInv

\* A worker takes a command or starts its handler.
LEMMA WorkStep ==
    ASSUME ChannelInv, NEW c \in Commands, NEW to \in {"taken", "running"},
           Stage(c) \in {"queued", "taken"}, spot' = [spot EXCEPT ![c][1] = to],
           queue' \in [Queues -> Seq(Commands)], QueueInv',
           UNCHANGED <<gatewayVars, wireVars, sent, pending, paused, waiterVars>>
    PROVE  ChannelInv'
<1>1. ChannelTypeOK /\ to \in AgentStages
  BY DEF ChannelInv, AgentStages
<1>2. UNCHANGED <<now, rec, sender, via, conn, conns, down, up, sent, pending, paused,
                  waiter, holds, chans, closed>>
  BY DEF gatewayVars, wireVars, waiterVars
<1>3. /\ spot' \in [Commands -> AgentStages \X BOOLEAN]
      /\ \A d \in Commands : spot'[d][1] = IF d = c THEN to ELSE spot[d][1]
  BY <1>1, SpotFirst DEF ChannelTypeOK
<1>4. ChannelTypeOK'
  BY <1>1, <1>2, <1>3 DEF ChannelTypeOK
<1>5. StagesForward
  BY <1>3 DEF StagesForward, Forward, Stage
<1>6. Inside' = Inside
  BY <1>3 DEF Inside, Stage
<1>7. PauseExclusive'
  BY <1>2, <1>6, PauseSame DEF ChannelInv
<1>8. PartOf(up', up) /\ PartOf(down', down) /\ FinalsNew
  BY <1>1, <1>2, WiresPart, PartFinals
<1>9. WireInv' /\ AnswerInv' /\ RecordInv' /\ WaiterInv' /\ NoLostWakeup'
  BY <1>1, <1>2, <1>4, <1>5, <1>8, WireKept, AnswersKept, RecordsKept, WaitersKept DEF ChannelInv
<1> QED
  BY <1>4, <1>7, <1>9 DEF ChannelInv

LEMMA ExecuteStep ==
    ASSUME ChannelInv, NEW c \in Commands, Execute(c)
    PROVE  ChannelInv'
<1>1. /\ Stage(c) = "taken" /\ spot' = [spot EXCEPT ![c][1] = "running"] /\ queue' = queue
      /\ UNCHANGED <<gatewayVars, wireVars, sent, pending, paused, waiterVars>>
  BY DEF Execute
<1>2. \A d \in Commands : spot'[d][1] = IF d = c THEN "running" ELSE spot[d][1]
  BY <1>1, SpotFirst DEF ChannelInv, ChannelTypeOK, AgentStages
<1>3. \A q \in Queues : \A i \in DOMAIN queue[q] : queue[q][i] \in Commands
  BY DEF ChannelInv, ChannelTypeOK
<1>4. QueueInv'
  BY <1>1, <1>2, <1>3 DEF ChannelInv, QueueInv, Stage
<1>5. queue' \in [Queues -> Seq(Commands)]
  BY <1>1 DEF ChannelInv, ChannelTypeOK
<1> QED
  BY <1>1, <1>4, <1>5, WorkStep

LEMMA TakeStep ==
    ASSUME ChannelInv, NEW q \in Queues, Take(q)
    PROVE  ChannelInv'
<1> DEFINE c == Head(queue[q])
<1>1. /\ queue[q] # <<>> /\ queue' = [queue EXCEPT ![q] = Tail(queue[q])]
      /\ spot' = [spot EXCEPT ![c][1] = "taken"]
      /\ UNCHANGED <<gatewayVars, wireVars, sent, pending, paused, waiterVars>>
  BY DEF Take
<1>2. queue \in [Queues -> Seq(Commands)] /\ queue[q] \in Seq(Commands)
  BY DEF ChannelInv, ChannelTypeOK
<1>3. /\ Tail(queue[q]) \in Seq(Commands) /\ c \in Commands /\ 1 \in DOMAIN queue[q] /\ c = queue[q][1]
      /\ \A i \in DOMAIN Tail(queue[q]) :
            i + 1 \in DOMAIN queue[q] /\ i + 1 # 1 /\ Tail(queue[q])[i] = queue[q][i + 1]
  BY <1>1, <1>2, TailRest
<1> HIDE DEF c
<1>4. Stage(c) = "queued" /\ QueueOf[c] = q
  BY <1>3 DEF ChannelInv, QueueInv
<1>5. queue' \in [Queues -> Seq(Commands)]
  BY <1>1, <1>2, <1>3
<1>6. \A d \in Commands : spot'[d][1] = IF d = c THEN "taken" ELSE spot[d][1]
  BY <1>1, <1>3, SpotFirst DEF ChannelInv, ChannelTypeOK, AgentStages
<1>7. QueueInv'
  <2> SUFFICES ASSUME NEW p \in Queues
               PROVE  /\ \A i \in DOMAIN queue'[p] : QueueOf[queue'[p][i]] = p
                                                      /\ spot'[queue'[p][i]][1] = "queued"
                      /\ \A i, j \in DOMAIN queue'[p] : queue'[p][i] = queue'[p][j] => i = j
    BY DEF QueueInv, Stage
  <2>1. CASE p # q
    <3>1. queue'[p] = queue[p] /\ \A i \in DOMAIN queue[p] : queue[p][i] \in Commands
      BY <1>1, <1>2, <2>1
    <3>2. \A i \in DOMAIN queue[p] : QueueOf[queue[p][i]] = p /\ spot[queue[p][i]][1] = "queued"
      BY DEF ChannelInv, QueueInv, Stage
    <3> QED
      BY <1>4, <1>6, <2>1, <3>1, <3>2 DEF ChannelInv, QueueInv
  <2>2. CASE p = q
    <3>1. queue'[q] = Tail(queue[q])
      BY <1>1, <1>2
    <3>2. \A i, j \in DOMAIN queue[q] : queue[q][i] = queue[q][j] => i = j
      BY DEF ChannelInv, QueueInv
    <3>3. \A i \in DOMAIN queue[q] : queue[q][i] \in Commands /\ QueueOf[queue[q][i]] = q
                                     /\ spot[queue[q][i]][1] = "queued"
      BY <1>2 DEF ChannelInv, QueueInv, Stage
    <3>4. \A i \in DOMAIN Tail(queue[q]) : Tail(queue[q])[i] # c
      BY <1>3, <3>2
    <3>5. \A i, j \in DOMAIN Tail(queue[q]) : Tail(queue[q])[i] = Tail(queue[q])[j] => i = j
      <4>1. \A i, j \in DOMAIN Tail(queue[q]) : Tail(queue[q])[i] = Tail(queue[q])[j] => i + 1 = j + 1
        BY <1>3, <3>2
      <4>2. DOMAIN Tail(queue[q]) \subseteq Nat
        BY <1>3
      <4> QED
        BY <4>1, <4>2
    <3> QED
      BY <1>3, <1>6, <2>2, <3>1, <3>3, <3>4, <3>5
  <2> QED
    BY <2>1, <2>2
<1> QED
  BY <1>1, <1>3, <1>4, <1>5, <1>7, WorkStep

\* The agent sends messages that are true, and of which none is a handler's
\* answer for a command that had one.
LEMMA AnswersGrow ==
    ASSUME ChannelTypeOK, ChannelTypeOK', AnswerInv, StagesForward, PartOf(down', down),
           sender' = sender,
           NEW t \in Seq(Message), up' = up \/ up' = up \o t,
           \A i \in DOMAIN t :
              /\ t[i].kind \in {"rejected", "busy"} => Refused(t[i].cmd)'
              /\ t[i].kind \notin {"rejected", "busy"} => spot'[t[i].cmd][1] # "away"
              /\ Final(t[i]) => /\ spot'[t[i].cmd][1] = "left" /\ spot[t[i].cmd][1] # "left"
                                /\ Len(t) = 1
    PROVE  AnswerInv' /\ FinalsNew
<1>1. up \in Seq(Message)
  BY DEF ChannelTypeOK
<1>2. \A i \in DOMAIN up' :
         \/ i \in DOMAIN up /\ up'[i] = up[i]
         \/ i \notin DOMAIN up /\ i - Len(up) \in DOMAIN t /\ up'[i] = t[i - Len(up)]
  <2>1. CASE up' = up
    BY <2>1
  <2>2. CASE up' = up \o t
    <3>1. \A i \in DOMAIN (up \o t) :
             \/ i \in DOMAIN up /\ (up \o t)[i] = up[i]
             \/ i \notin DOMAIN up /\ i - Len(up) \in DOMAIN t /\ (up \o t)[i] = t[i - Len(up)]
      BY <1>1, ConcatRest
    <3> QED
      BY <2>2, <3>1
  <2> QED
    BY <2>1, <2>2
<1>3. \A i \in DOMAIN up : up[i] \in Message /\ Truthful(up[i])
  BY <1>1 DEF AnswerInv
<1>4. \A i \in DOMAIN up' : Truthful(up[i])'
  <2> SUFFICES ASSUME NEW i \in DOMAIN up' PROVE Truthful(up[i])'
    OBVIOUS
  <2>m. \A j \in DOMAIN up : up[j].cmd \in Commands
    BY <1>3 DEF Message
  <2>1. CASE i \in DOMAIN up /\ up'[i] = up[i]
    BY <1>3, <2>1, <2>m, TruthKept DEF StagesForward, Truthful, Stage, Final
  <2>2. CASE i - Len(up) \in DOMAIN t /\ up'[i] = t[i - Len(up)]
    BY <2>2 DEF Truthful, Stage, Final
  <2> QED
    BY <1>2, <2>1, <2>2
<1>5. \A i \in DOMAIN up : Final(up[i]) => spot[up[i].cmd][1] = "left"
  BY <1>3 DEF Truthful, Stage
<1>6. \A i, j \in DOMAIN up' :
         Final(up'[i]) /\ Final(up'[j]) /\ up'[i].cmd = up'[j].cmd => i = j
  <2> SUFFICES ASSUME NEW i \in DOMAIN up', NEW j \in DOMAIN up',
                      Final(up'[i]), Final(up'[j]), up'[i].cmd = up'[j].cmd
               PROVE  i = j
    OBVIOUS
  <2>1. CASE i \in DOMAIN up /\ up'[i] = up[i] /\ j \in DOMAIN up /\ up'[j] = up[j]
    BY <2>1 DEF AnswerInv
  <2>2. CASE i \notin DOMAIN up /\ j \notin DOMAIN up
    <3>0. /\ i - Len(up) \in DOMAIN t /\ up'[i] = t[i - Len(up)]
          /\ j - Len(up) \in DOMAIN t
      BY <1>2, <2>2
    <3>1. DOMAIN t = 1 .. Len(t) /\ Len(t) = 1
      BY <3>0
    <3>2. i \in Nat /\ j \in Nat /\ Len(up) \in Nat
      BY <1>1 DEF ChannelTypeOK
    <3> QED
      BY <3>0, <3>1, <3>2
  <2>3. ASSUME NEW k \in DOMAIN up', k \notin DOMAIN up, Final(up'[k])
        PROVE  spot[up'[k].cmd][1] # "left"
    BY <1>2, <2>3
  <2>4. ASSUME NEW k \in DOMAIN up', k \in DOMAIN up, Final(up'[k])
        PROVE  up'[k] = up[k] /\ spot[up'[k].cmd][1] = "left"
    BY <1>2, <1>5, <2>4
  <2> QED
    BY <2>1, <2>2, <2>3, <2>4
<1>7. FinalsNew
  BY <1>2 DEF FinalsNew
<1> QED
  BY <1>4, <1>6, <1>7 DEF AnswerInv, Final

LEMMA Transmits ==
    ASSUME ChannelTypeOK, NEW c \in Commands, NEW m \in Message, Transmit(c, <<m>>)
    PROVE  /\ <<m>> \in Seq(Message) /\ (up' = up \/ up' = up \o <<m>>) /\ up' \in Seq(Message)
           /\ \A i \in DOMAIN <<m>> : <<m>>[i] = m
           /\ Len(<<m>>) = 1
           /\ UNCHANGED <<conn, conns, down>> /\ PartOf(down', down)
<1>1. <<m>> \in Seq(Message) /\ up \in Seq(Message)
  BY DEF ChannelTypeOK
<1>2. up' = up \/ up' = up \o <<m>>
  BY DEF Transmit
<1>3. up \o <<m>> \in Seq(Message)
  BY <1>1, ConcatRest
<1>4. UNCHANGED <<conn, conns, down>> /\ PartOf(down', down)
  BY WiresPart DEF Transmit
<1> QED
  BY <1>1, <1>2, <1>3, <1>4

\* An acknowledgement or a progress report of a command in the agent goes out.
LEMMA TalkStep ==
    ASSUME ChannelInv, NEW c \in Commands, Stage(c) # "away", NEW m \in Message,
           m.cmd = c, m.kind \in {"received", "progress"}, Transmit(c, <<m>>), StagesKept,
           spot' \in [Commands -> AgentStages \X BOOLEAN],
           sent' \in [Commands -> SUBSET (1..MaxProgress)],
           UNCHANGED <<gatewayVars, queue, pending, paused, waiterVars>>
    PROVE  ChannelInv'
<1>1. ChannelTypeOK
  BY DEF ChannelInv
<1>2. UNCHANGED <<now, rec, sender, via, queue, pending, paused, waiter, holds, chans, closed>>
  BY DEF gatewayVars, waiterVars
<1>3. /\ <<m>> \in Seq(Message) /\ (up' = up \/ up' = up \o <<m>>) /\ up' \in Seq(Message)
      /\ \A i \in DOMAIN <<m>> : <<m>>[i] = m
      /\ UNCHANGED <<conn, conns, down>> /\ PartOf(down', down)
  BY <1>1, Transmits
<1>4. ChannelTypeOK'
  BY <1>1, <1>2, <1>3 DEF ChannelTypeOK
<1>5. StagesForward /\ spot'[c][1] # "away"
  BY DEF StagesKept, StagesForward, Forward, Stage
<1>6. ~Final(m) /\ m.kind \notin {"rejected", "busy"}
  BY DEF Final
<1>7. AnswerInv' /\ FinalsNew
  <2>1. \A i \in DOMAIN <<m>> :
           /\ <<m>>[i].kind \in {"rejected", "busy"} => Refused(<<m>>[i].cmd)'
           /\ <<m>>[i].kind \notin {"rejected", "busy"} => spot'[<<m>>[i].cmd][1] # "away"
           /\ Final(<<m>>[i]) => /\ spot'[<<m>>[i].cmd][1] = "left"
                                 /\ spot[<<m>>[i].cmd][1] # "left" /\ Len(<<m>>) = 1
    BY <1>3, <1>5, <1>6
  <2> QED
    BY <1>1, <1>2, <1>3, <1>4, <1>5, <2>1, AnswersGrow DEF ChannelInv
<1>8. WireInv' /\ RecordInv' /\ WaiterInv' /\ NoLostWakeup'
  BY <1>1, <1>2, <1>3, <1>4, <1>5, <1>7, WireKept, RecordsKept, WaitersKept DEF ChannelInv
<1>9. PauseExclusive' /\ QueueInv'
  BY <1>2, PauseKept, QueueKept DEF ChannelInv
<1> QED
  BY <1>4, <1>7, <1>8, <1>9 DEF ChannelInv

LEMMA AcknowledgeStep ==
    ASSUME ChannelInv, NEW c \in Commands, Acknowledge(c)
    PROVE  ChannelInv'
<1>1. Stage(c) # "away"
  BY DEF Acknowledge
<1>2. Msg("received", c, 0) \in Message /\ Msg("received", c, 0).cmd = c
      /\ Msg("received", c, 0).kind \in {"received", "progress"}
  BY SizeAssumption DEF Msg, Message
<1>3. spot' \in [Commands -> AgentStages \X BOOLEAN] /\ StagesKept
  <2>1. spot' = [spot EXCEPT ![c][2] = TRUE] /\ TRUE \in BOOLEAN
    BY DEF Acknowledge
  <2>2. spot \in [Commands -> AgentStages \X BOOLEAN]
    BY DEF ChannelInv, ChannelTypeOK
  <2> QED
    BY <2>1, <2>2, SpotSecond DEF StagesKept
<1>4. /\ Transmit(c, <<Msg("received", c, 0)>>)
      /\ UNCHANGED <<gatewayVars, queue, sent, pending, paused, waiterVars>>
  BY DEF Acknowledge
<1>5. sent' \in [Commands -> SUBSET (1..MaxProgress)]
  BY <1>4 DEF ChannelInv, ChannelTypeOK
<1> QED
  BY <1>1, <1>2, <1>3, <1>4, <1>5, TalkStep

LEMMA ReportStep ==
    ASSUME ChannelInv, NEW c \in Commands, Report(c)
    PROVE  ChannelInv'
<1>1. Stage(c) # "away" /\ spot' = spot
      /\ UNCHANGED <<gatewayVars, queue, pending, paused, waiterVars>>
  BY DEF Report
<1>2. PICK n \in (1..MaxProgress) \ sent[c] :
         sent' = [sent EXCEPT ![c] = @ \cup {n}] /\ Transmit(c, <<Msg("progress", c, n)>>)
  BY DEF Report
<1>3. Msg("progress", c, n) \in Message /\ Msg("progress", c, n).cmd = c
      /\ Msg("progress", c, n).kind \in {"received", "progress"}
  BY SizeAssumption DEF Msg, Message
<1>4. sent' \in [Commands -> SUBSET (1..MaxProgress)]
  BY <1>2 DEF ChannelInv, ChannelTypeOK
<1>5. spot' \in [Commands -> AgentStages \X BOOLEAN] /\ StagesKept
  BY <1>1 DEF ChannelInv, ChannelTypeOK, StagesKept
<1> QED
  BY <1>1, <1>2, <1>3, <1>4, <1>5, TalkStep

LEMMA RespondStep ==
    ASSUME ChannelInv, NEW c \in Commands, Respond(c)
    PROVE  ChannelInv'
<1>1. ChannelTypeOK
  BY DEF ChannelInv
<1>2. /\ Stage(c) = "running" /\ pending' = pending - 1
      /\ UNCHANGED <<now, rec, sender, via, queue, sent, paused, waiter, holds, chans, closed>>
  BY DEF Respond, gatewayVars, waiterVars
<1>3. PICK kind \in {"success", "failure"} : Transmit(c, <<Msg(kind, c, 0)>>)
  BY DEF Respond
<1> DEFINE m == Msg(kind, c, 0)
<1>4. m \in Message /\ m.cmd = c /\ m.kind = kind
  BY SizeAssumption DEF Msg, Message
<1> HIDE DEF m
<1>5. /\ <<m>> \in Seq(Message) /\ (up' = up \/ up' = up \o <<m>>) /\ up' \in Seq(Message)
      /\ \A i \in DOMAIN <<m>> : <<m>>[i] = m
      /\ Len(<<m>>) = 1
      /\ UNCHANGED <<conn, conns, down>> /\ PartOf(down', down)
  BY <1>1, <1>3, <1>4, Transmits DEF m
<1>6. /\ spot' \in [Commands -> AgentStages \X BOOLEAN]
      /\ \A d \in Commands : spot'[d][1] = IF d = c THEN "left" ELSE spot[d][1]
  BY <1>1, SpotFirst DEF Respond, ChannelTypeOK, AgentStages
<1>7. c \in Inside /\ Inside' = Inside \ {c}
  BY <1>2, <1>6 DEF Inside, Stage
<1>8. pending' \in Nat /\ pending' = Cardinality(Inside')
  <2>1. Cardinality(Inside \ {c}) = Cardinality(Inside) - 1
    BY <1>7, InsideFinite, FS_RemoveElement
  <2>2. Cardinality(Inside \ {c}) \in Nat
    BY <1>7, InsideFinite, FS_RemoveElement, FS_CardinalityType
  <2>3. pending = Cardinality(Inside)
    BY DEF ChannelInv, PauseExclusive, Inside
  <2> QED
    BY <1>2, <1>7, <2>1, <2>2, <2>3
<1>9. ChannelTypeOK'
  BY <1>1, <1>2, <1>5, <1>6, <1>8 DEF ChannelTypeOK
<1>10. PauseExclusive'
  <2>1. paused' => Inside' = {}
    BY <1>2, <1>7 DEF ChannelInv, PauseExclusive, Inside
  <2> QED
    BY <1>8, <2>1 DEF PauseExclusive, Inside
<1>11. StagesForward
  BY <1>2, <1>6 DEF StagesForward, Forward, Stage
<1>12. AnswerInv' /\ FinalsNew
  <2>1. m.kind \notin {"rejected", "busy"} /\ spot'[m.cmd][1] = "left" /\ spot[m.cmd][1] # "left"
    BY <1>2, <1>4, <1>6 DEF Stage
  <2>2. \A i \in DOMAIN <<m>> :
           /\ <<m>>[i].kind \in {"rejected", "busy"} => Refused(<<m>>[i].cmd)'
           /\ <<m>>[i].kind \notin {"rejected", "busy"} => spot'[<<m>>[i].cmd][1] # "away"
           /\ Final(<<m>>[i]) => /\ spot'[<<m>>[i].cmd][1] = "left"
                                 /\ spot[<<m>>[i].cmd][1] # "left" /\ Len(<<m>>) = 1
    BY <1>5, <2>1
  <2> QED
    BY <1>1, <1>2, <1>5, <1>9, <1>11, <2>2, AnswersGrow DEF ChannelInv
<1>13. WireInv' /\ RecordInv' /\ WaiterInv' /\ NoLostWakeup'
  BY <1>1, <1>2, <1>5, <1>9, <1>11, <1>12, WireKept, RecordsKept, WaitersKept DEF ChannelInv
<1>14. QueueInv'
  <2>1. \A q \in Queues : \A i \in DOMAIN queue[q] : queue[q][i] \in Commands
    BY <1>1 DEF ChannelTypeOK
  <2> QED
    BY <1>2, <1>6, <2>1 DEF ChannelInv, QueueInv, Stage
<1> QED
  BY <1>9, <1>10, <1>12, <1>13, <1>14 DEF ChannelInv

LEMMA DispatchStep ==
    ASSUME ChannelInv, Dispatch
    PROVE  ChannelInv'
<1>1. ChannelTypeOK /\ down \in Seq(Commands) /\ up \in Seq(Message) /\ down # <<>>
  BY DEF ChannelInv, ChannelTypeOK, Dispatch
<1>c. PICK c \in Commands : c = Head(down)
  BY <1>1, TailRest
<1>2. /\ down' = Tail(down) /\ via' = [via EXCEPT ![c] = conn]
      /\ UNCHANGED <<now, rec, sender, conn, conns, waiter, holds, chans, closed>>
  BY <1>c DEF Dispatch, waiterVars
<1>3. /\ Tail(down) \in Seq(Commands) /\ 1 \in DOMAIN down /\ c = down[1]
      /\ \A i \in DOMAIN Tail(down) : i + 1 \in DOMAIN down /\ i + 1 # 1 /\ Tail(down)[i] = down[i + 1]
  BY <1>1, <1>c, TailRest
<1>4. PartOf(down', down)
  BY <1>1, <1>2, Parts
<1>5. Refuse(c) \/ Enqueue(c)
  BY <1>c DEF Dispatch
<1>6. /\ sender[c] = "sent" /\ Stage(c) = "away"
      /\ \A i \in DOMAIN down' : down'[i] # c
  BY <1>2, <1>3 DEF ChannelInv, WireInv
<1>7. via' \in [Commands -> 0..MaxConns]
  BY <1>1, <1>2, <1>3 DEF ChannelTypeOK
<1>8. WaiterInv' /\ NoLostWakeup'
  BY <1>2, WaitersKept DEF ChannelInv
<1>9. CASE Refuse(c)
  <2> DEFINE t == <<Msg("rejected", c, 0), Msg("busy", c, 0)>>
  <2>1. /\ up' = up \/ up' = up \o t
        /\ UNCHANGED <<queue, spot, sent, pending, paused>>
    BY <1>9 DEF Refuse
  <2>2. Msg("rejected", c, 0) \in Message /\ Msg("busy", c, 0) \in Message
    BY <1>3, SizeAssumption DEF Msg, Message
  <2>3. t \in Seq(Message) /\ \A i \in DOMAIN t : t[i] \in {Msg("rejected", c, 0), Msg("busy", c, 0)}
    BY <2>2
  <2>4. \A m \in {Msg("rejected", c, 0), Msg("busy", c, 0)} :
           m.cmd = c /\ m.kind \in {"rejected", "busy"} /\ ~Final(m)
    BY DEF Msg, Final
  <2> HIDE DEF t
  <2>5. up' \in Seq(Message)
    <3>1. up \o t \in Seq(Message)
      BY <1>1, <2>3, ConcatRest
    <3> QED
      BY <1>1, <2>1, <3>1
  <2>6. ChannelTypeOK'
    BY <1>1, <1>2, <1>3, <1>7, <2>1, <2>5 DEF ChannelTypeOK
  <2>7. StagesKept /\ StagesForward
    BY <2>1 DEF StagesKept, StagesForward, Forward
  <2>8. Refused(c)'
    BY <1>2, <1>6, <2>1 DEF Refused, Stage
  <2>9. AnswerInv' /\ FinalsNew
    <3>1. \A i \in DOMAIN t :
             /\ t[i].kind \in {"rejected", "busy"} => Refused(t[i].cmd)'
             /\ t[i].kind \notin {"rejected", "busy"} => spot'[t[i].cmd][1] # "away"
             /\ Final(t[i]) => /\ spot'[t[i].cmd][1] = "left" /\ spot[t[i].cmd][1] # "left"
                               /\ Len(t) = 1
      <4> SUFFICES ASSUME NEW i \in DOMAIN t
                   PROVE  Refused(t[i].cmd)' /\ t[i].kind \in {"rejected", "busy"} /\ ~Final(t[i])
        OBVIOUS
      <4>1. t[i].cmd = c /\ t[i].kind \in {"rejected", "busy"} /\ ~Final(t[i])
        BY <2>3, <2>4
      <4> QED
        BY <2>8, <4>1
    <3> QED
      BY <1>1, <1>2, <1>4, <2>1, <2>3, <2>6, <2>7, <3>1, AnswersGrow DEF ChannelInv
  <2>10. WireInv' /\ RecordInv'
    BY <1>1, <1>2, <1>4, <2>6, <2>7, <2>9, WireKept, RecordsKept DEF ChannelInv
  <2>11. PauseExclusive' /\ QueueInv'
    BY <2>1, <2>7, PauseKept, QueueKept DEF ChannelInv
  <2> QED
    BY <1>8, <2>6, <2>9, <2>10, <2>11 DEF ChannelInv
<1>10. CASE Enqueue(c)
  <2> DEFINE q == QueueOf[c]
  <2>1. /\ queue' = [queue EXCEPT ![q] = Append(queue[q], c)]
        /\ spot' = [spot EXCEPT ![c] = <<"queued", FALSE>>]
        /\ pending' = pending + 1 /\ ~paused
        /\ UNCHANGED <<up, sent, paused>>
    BY <1>10 DEF Enqueue
  <2>2. /\ spot' \in [Commands -> AgentStages \X BOOLEAN]
        /\ \A d \in Commands : spot'[d][1] = IF d = c THEN "queued" ELSE spot[d][1]
    <3>1. FALSE \in BOOLEAN /\ "queued" \in AgentStages /\ spot \in [Commands -> AgentStages \X BOOLEAN]
      BY <1>1 DEF AgentStages, ChannelTypeOK
    <3> QED
      BY <1>3, <2>1, <3>1, SpotBoth
  <2>3. /\ q \in Queues /\ queue \in [Queues -> Seq(Commands)] /\ queue[q] \in Seq(Commands)
        /\ \A p \in Queues : \A i \in DOMAIN queue[p] : queue[p][i] \in Commands
    BY <1>1, <1>3, QueueAssumption DEF ChannelTypeOK
  <2>4. queue' \in [Queues -> Seq(Commands)]
    BY <1>3, <2>1, <2>3, AppendRest
  <2>5. ChannelTypeOK'
    BY <1>1, <1>2, <1>3, <1>7, <2>1, <2>2, <2>4 DEF ChannelTypeOK
  <2>6. \A d \in Commands : d # c => Forward(d)
    BY <2>2 DEF Forward
  <2>7. PauseExclusive'
    <3>1. c \notin Inside /\ Inside' = Inside \cup {c}
      BY <1>3, <1>6, <2>2 DEF Inside, Stage
    <3>2. Cardinality(Inside') = Cardinality(Inside) + 1
      BY <3>1, InsideFinite, FS_AddElement
    <3>3. pending = Cardinality(Inside)
      BY DEF ChannelInv, PauseExclusive, Inside
    <3>4. pending' = Cardinality(Inside') /\ ~paused'
      BY <2>1, <3>2, <3>3
    <3> QED
      BY <3>4 DEF PauseExclusive, Inside
  <2>8. WireInv'
    <3>1. \A i \in DOMAIN down : down[i] \in Commands /\ sender[down[i]] = "sent" /\ spot[down[i]][1] = "away"
      BY <1>1 DEF ChannelInv, WireInv, Stage
    <3>2. \A i \in DOMAIN down' : sender'[down'[i]] = "sent" /\ spot'[down'[i]][1] = "away"
      BY <1>2, <1>3, <1>6, <2>2, <3>1
    <3>3. \A i, j \in DOMAIN down' : down'[i] = down'[j] => i = j
      <4>1. \A i, j \in DOMAIN Tail(down) : Tail(down)[i] = Tail(down)[j] => i + 1 = j + 1
        BY <1>3 DEF ChannelInv, WireInv
      <4>2. DOMAIN Tail(down) \subseteq Nat
        BY <1>3
      <4> QED
        BY <1>2, <4>1, <4>2
    <3>4. \A d \in Commands : spot'[d][1] # "away" => sender'[d] = "sent"
      BY <1>2, <1>6, <2>2 DEF ChannelInv, WireInv, Stage
    <3> QED
      BY <3>2, <3>3, <3>4 DEF WireInv, Stage
  <2>9. QueueInv'
    <3> SUFFICES ASSUME NEW p \in Queues
                 PROVE  /\ \A i \in DOMAIN queue'[p] : QueueOf[queue'[p][i]] = p
                                                        /\ spot'[queue'[p][i]][1] = "queued"
                        /\ \A i, j \in DOMAIN queue'[p] : queue'[p][i] = queue'[p][j] => i = j
      BY DEF QueueInv, Stage
    <3>1. \A i \in DOMAIN queue[p] : /\ queue[p][i] \in Commands /\ queue[p][i] # c
                                     /\ QueueOf[queue[p][i]] = p /\ spot'[queue[p][i]][1] = "queued"
      <4>1. \A i \in DOMAIN queue[p] : QueueOf[queue[p][i]] = p /\ spot[queue[p][i]][1] = "queued"
        BY DEF ChannelInv, QueueInv, Stage
      <4>2. spot[c][1] = "away"
        BY <1>6 DEF Stage
      <4>3. \A i \in DOMAIN queue[p] : queue[p][i] \in Commands /\ queue[p][i] # c
        BY <2>3, <4>1, <4>2
      <4> QED
        BY <2>2, <4>1, <4>3
    <3>2. \A i, j \in DOMAIN queue[p] : queue[p][i] = queue[p][j] => i = j
      BY DEF ChannelInv, QueueInv
    <3>3. CASE p # q
      BY <2>1, <2>3, <3>1, <3>2, <3>3
    <3>4. CASE p = q
      <4>1. queue'[p] = Append(queue[p], c)
        BY <2>1, <2>3, <3>4
      <4>2. \A i \in DOMAIN Append(queue[p], c) :
               \/ i \in DOMAIN queue[p] /\ Append(queue[p], c)[i] = queue[p][i]
               \/ i = Len(queue[p]) + 1 /\ i \notin DOMAIN queue[p] /\ Append(queue[p], c)[i] = c
        BY <1>3, <2>3, <3>4, AppendRest
      <4>3. spot'[c][1] = "queued" /\ QueueOf[c] = p
        BY <1>3, <2>2, <3>4
      <4> QED
        BY <3>1, <3>2, <4>1, <4>2, <4>3
    <3> QED
      BY <3>3, <3>4
  <2>10. PartOf(up', up) /\ FinalsNew
    BY <1>1, <2>1, WiresPart, PartFinals
  <2>11. ~Refused(c)
    BY <1>3 DEF Refused
  <2>12. AnswerInv'
    <3>1. \A i \in DOMAIN up : up[i] \in Message
      BY <1>1
    <3>2. \A i \in DOMAIN up : up[i].cmd \in Commands
      BY <3>1 DEF Message
    <3>3. ASSUME NEW i \in DOMAIN up PROVE Truthful(up[i])'
      <4>1. Truthful(up[i])
        BY DEF ChannelInv, AnswerInv
      <4>2. up[i].cmd # c
        BY <1>6, <2>11, <4>1 DEF Truthful
      <4>3. Forward(up[i].cmd)
        BY <2>6, <3>2, <4>2
      <4> QED
        BY <1>2, <1>4, <2>1, <3>1, <4>1, <4>3, TruthKept DEF Truthful, Stage, Final
    <3>4. \A i, j \in DOMAIN up' : Final(up'[i]) /\ Final(up'[j]) /\ up'[i].cmd = up'[j].cmd => i = j
      BY <2>1 DEF ChannelInv, AnswerInv
    <3> QED
      BY <2>1, <3>3, <3>4 DEF AnswerInv, Final
  <2>13. RecordInv'
    <3> SUFFICES ASSUME NEW d \in Commands, rec[d] # NoRecord PROVE Accurate(d)'
      BY <1>2 DEF RecordInv
    <3>1. Accurate(d)
      BY DEF ChannelInv, RecordInv
    <3>2. CASE d # c
      BY <1>2, <1>4, <2>6, <2>10, <3>1, <3>2, AccurateKept
    <3>3. CASE d = c
      <4>1. rec[d].why = "none" /\ rec[d].status \notin Terminal
        <5>1. rec[d].why \notin {"unsent", "refused", "executed"}
          BY <1>6, <2>11, <3>1, <3>3 DEF Accurate
        <5>2. rec[d].why \in {"none", "unsent", "refused", "executed"}
          BY <1>1 DEF ChannelTypeOK, Record
        <5> QED
          BY <3>1, <5>1, <5>2 DEF Accurate
      <4> QED
        BY <1>2, <1>6, <3>3, <4>1 DEF Accurate
    <3> QED
      BY <3>2, <3>3
  <2> QED
    BY <1>8, <2>5, <2>7, <2>8, <2>9, <2>12, <2>13 DEF ChannelInv
<1> QED
  BY <1>5, <1>9, <1>10

\* A step of the gateway that touches the record of one command and leaves the
\* agent alone.
LEMMA RecordStep ==
    ASSUME ChannelInv, ChannelTypeOK', NEW c \in Commands, UNCHANGED agentVars,
           PartOf(up', up), PartOf(down', down),
           \A d \in Commands : d # c => sender'[d] = sender[d] /\ rec'[d] = rec[d],
           sender[c] = "sent" => sender'[c] = "sent",
           rec'[c] # NoRecord => Accurate(c)',
           waiter' = waiter, holds' = holds, closed \subseteq closed',
           \A w \in Waiters : waiter[w] = "blocked" /\ holds[w] \notin closed' /\ Awaits[w] = c =>
              Open(c)' /\ rec'[c].chan = holds[w]
    PROVE  ChannelInv'
<1>1. ChannelTypeOK /\ UNCHANGED <<queue, spot, sent, pending, paused>>
  BY DEF ChannelInv, agentVars
<1>2. StagesKept /\ StagesForward /\ FinalsNew
  BY <1>1, PartFinals DEF StagesKept, StagesForward, Forward
<1>3. \A d \in Commands : sender[d] = "sent" => sender'[d] = "sent"
  OBVIOUS
<1>4. WireInv' /\ AnswerInv'
  BY <1>1, <1>2, <1>3, WireKept, AnswersKept DEF ChannelInv
<1>5. PauseExclusive' /\ QueueInv'
  BY <1>1, <1>2, PauseKept, QueueKept DEF ChannelInv
<1>6. RecordInv'
  <2> SUFFICES ASSUME NEW d \in Commands, d # c, rec[d] # NoRecord PROVE Accurate(d)'
    BY DEF RecordInv
  <2>1. Accurate(d)
    BY DEF ChannelInv, RecordInv
  <2> QED
    BY <1>2, <2>1, AccurateKept DEF StagesForward
<1>7. \A w \in Waiters : Awaits[w] \in Commands
  BY QueueAssumption
<1>8. WaiterInv'
  BY <1>3, <1>7 DEF ChannelInv, WaiterInv
<1>9. NoLostWakeup'
  BY <1>7 DEF ChannelInv, NoLostWakeup, Open
<1> QED
  BY <1>4, <1>5, <1>6, <1>8, <1>9 DEF ChannelInv

\* Nobody waits for a command that was not sent.
LEMMA UnsentUnawaited ==
    ASSUME WaiterInv, NEW c \in Commands, sender[c] # "sent"
    PROVE  \A w \in Waiters : waiter[w] = "blocked" => Awaits[w] # c
  BY DEF WaiterInv

LEMMA RecordCommandStep ==
    ASSUME ChannelInv, NEW c \in Commands, RecordCommand(c)
    PROVE  ChannelInv'
<1> DEFINE r == [status |-> "pending", why |-> "none", start |-> now, end |-> 0, seq |-> 0, chan |-> 0]
<1>1. ChannelTypeOK
  BY DEF ChannelInv
<1>2. /\ sender[c] = "new" /\ rec' = [rec EXCEPT ![c] = r]
      /\ sender' = [sender EXCEPT ![c] = "recorded"] /\ via' = [via EXCEPT ![c] = conns]
      /\ UNCHANGED <<now, conn, conns, down, up, queue, spot, sent, pending, paused,
                     waiter, holds, chans, closed>>
      /\ UNCHANGED agentVars
  BY DEF RecordCommand, wireVars, agentVars, waiterVars
<1>3. r \in Record /\ r.status = "pending" /\ r.why = "none"
  BY <1>1, SizeAssumption DEF ChannelTypeOK, Record, Statuses
<1> HIDE DEF r
<1>4. Updates(rec', c) /\ rec'[c] = r
  BY <1>1, <1>2, <1>3, NewUpdates DEF ChannelTypeOK, Records
<1>5. /\ sender' \in [Commands -> {"new", "recorded", "sent", "failed", "panicked"}]
      /\ sender'[c] = "recorded" /\ \A d \in Commands : d # c => sender'[d] = sender[d]
  BY <1>1, <1>2 DEF ChannelTypeOK
<1>6. via' \in [Commands -> 0..MaxConns]
  BY <1>1, <1>2 DEF ChannelTypeOK
<1>7. ChannelTypeOK'
  BY <1>1, <1>2, <1>4, <1>5, <1>6 DEF ChannelTypeOK, Updates, Records
<1>8. Accurate(c)'
  BY <1>3, <1>4, <1>5 DEF Accurate, Terminal
<1>9. PartOf(up', up) /\ PartOf(down', down)
  BY <1>1, <1>2, WiresPart
<1>10. \A w \in Waiters : waiter[w] = "blocked" => Awaits[w] # c
  BY <1>2, UnsentUnawaited DEF ChannelInv
<1> QED
  BY <1>2, <1>4, <1>5, <1>7, <1>8, <1>9, <1>10, RecordStep DEF Updates

LEMMA SendFailsStep ==
    ASSUME ChannelInv, NEW c \in Commands, SendFails(c) \/ SendPanics(c)
    PROVE  ChannelInv'
<1>1. ChannelTypeOK
  BY DEF ChannelInv
<1>2. /\ sender[c] = "recorded"
      /\ UNCHANGED <<now, via, conn, conns, down, up, queue, spot, sent, pending, paused,
                     waiter, holds, chans, closed>>
      /\ UNCHANGED agentVars
  BY DEF SendFails, SendPanics, wireVars, agentVars, waiterVars
<1>3. PartOf(up', up) /\ PartOf(down', down)
  BY <1>1, <1>2, WiresPart
<1>4. \A w \in Waiters : waiter[w] = "blocked" => Awaits[w] # c
  BY <1>2, UnsentUnawaited DEF ChannelInv
<1>5. CASE SendFails(c)
  <2>0. rec[c] # NoRecord
    BY <1>5 DEF SendFails
  <2>1. /\ rec' = [rec EXCEPT ![c].status = "failed", ![c].why = "unsent", ![c].end = now]
        /\ sender' = [sender EXCEPT ![c] = "failed"]
    BY <1>5 DEF SendFails
  <2>2. Updates(rec', c) /\ rec'[c].status = "failed" /\ rec'[c].why = "unsent"
    <3> DEFINE r == [rec[c] EXCEPT !.status = "failed", !.why = "unsent", !.end = now]
    <3>1. rec \in Records /\ rec[c] \in Record /\ now \in Nat
      BY <1>1, <2>0 DEF ChannelTypeOK, Records
    <3>2. rec' = [rec EXCEPT ![c] = r]
      BY <2>1, <3>1 DEF Records
    <3>3. r \in Record /\ r.status = "failed" /\ r.why = "unsent"
      BY <3>1 DEF Record, Statuses
    <3> HIDE DEF r
    <3> QED
      BY <3>1, <3>2, <3>3, NewUpdates
  <2>3. /\ sender' \in [Commands -> {"new", "recorded", "sent", "failed", "panicked"}]
        /\ sender'[c] = "failed" /\ \A d \in Commands : d # c => sender'[d] = sender[d]
    BY <1>1, <2>1 DEF ChannelTypeOK
  <2>4. ChannelTypeOK'
    BY <1>1, <1>2, <2>2, <2>3 DEF ChannelTypeOK, Updates, Records
  <2>5. Accurate(c)'
    BY <2>2, <2>3 DEF Accurate, Terminal
  <2> QED
    BY <1>2, <1>3, <1>4, <2>2, <2>3, <2>4, <2>5, RecordStep DEF Updates
<1>6. CASE SendPanics(c)
  <2>1. rec[c] = NoRecord /\ rec' = rec /\ sender' = [sender EXCEPT ![c] = "panicked"]
    BY <1>6 DEF SendPanics
  <2>2. /\ sender' \in [Commands -> {"new", "recorded", "sent", "failed", "panicked"}]
        /\ \A d \in Commands : d # c => sender'[d] = sender[d]
    BY <1>1, <2>1 DEF ChannelTypeOK
  <2>3. ChannelTypeOK'
    BY <1>1, <1>2, <2>1, <2>2 DEF ChannelTypeOK
  <2> QED
    BY <1>2, <1>3, <1>4, <2>1, <2>2, <2>3, RecordStep
<1> QED
  BY <1>5, <1>6

LEMMA SendCommandStep ==
    ASSUME ChannelInv, NEW c \in Commands, SendCommand(c)
    PROVE  ChannelInv'
<1>1. ChannelTypeOK /\ down \in Seq(Commands)
  BY DEF ChannelInv, ChannelTypeOK
<1>2. /\ sender[c] = "recorded" /\ down' = Append(down, c)
      /\ sender' = [sender EXCEPT ![c] = "sent"]
      /\ UNCHANGED <<now, rec, via, conn, conns, up, queue, spot, sent, pending, paused,
                     waiter, holds, chans, closed>>
  BY DEF SendCommand, agentVars, waiterVars
<1>3. /\ sender' \in [Commands -> {"new", "recorded", "sent", "failed", "panicked"}]
      /\ \A d \in Commands : sender'[d] = IF d = c THEN "sent" ELSE sender[d]
  BY <1>1, <1>2 DEF ChannelTypeOK
<1>4. /\ down' \in Seq(Commands)
      /\ \A i \in DOMAIN down' : \/ i \in DOMAIN down /\ down'[i] = down[i]
                                 \/ i = Len(down) + 1 /\ i \notin DOMAIN down /\ down'[i] = c
  BY <1>1, <1>2, AppendRest
<1>5. ChannelTypeOK'
  BY <1>1, <1>2, <1>3, <1>4 DEF ChannelTypeOK
<1>6. StagesKept
  BY <1>2 DEF StagesKept
<1>7. spot[c][1] = "away" /\ \A i \in DOMAIN down : down[i] \in Commands /\ down[i] # c
  BY <1>1, <1>2 DEF ChannelInv, WireInv, Stage
<1>8. WireInv'
  <2>1. \A i \in DOMAIN down : sender[down[i]] = "sent" /\ spot[down[i]][1] = "away"
    BY DEF ChannelInv, WireInv, Stage
  <2>2. \A i \in DOMAIN down' : sender'[down'[i]] = "sent" /\ spot'[down'[i]][1] = "away"
    BY <1>2, <1>3, <1>4, <1>7, <2>1
  <2>3. \A i, j \in DOMAIN down' : down'[i] = down'[j] => i = j
    BY <1>4, <1>7 DEF ChannelInv, WireInv
  <2>4. \A d \in Commands : spot'[d][1] # "away" => sender'[d] = "sent"
    BY <1>2, <1>3 DEF ChannelInv, WireInv, Stage
  <2> QED
    BY <2>2, <2>3, <2>4 DEF WireInv, Stage
<1>9. \A d \in Commands : Refused(d) => Refused(d)'
  BY <1>2, <1>3, <1>4 DEF Refused, Stage
<1>10. AnswerInv'
  <2>1. \A i \in DOMAIN up : up[i] \in Message
    BY <1>1 DEF ChannelTypeOK
  <2>2. \A i \in DOMAIN up : up[i].cmd \in Commands
    BY <2>1 DEF Message
  <2>3. \A i \in DOMAIN up : Truthful(up[i])'
    BY <1>2, <1>9, <2>2 DEF ChannelInv, AnswerInv, Truthful, Stage, Final
  <2> QED
    BY <1>2, <2>3 DEF ChannelInv, AnswerInv, Final
<1>11. RecordInv'
  <2> SUFFICES ASSUME NEW d \in Commands, rec[d] # NoRecord PROVE Accurate(d)'
    BY <1>2 DEF RecordInv
  <2>1. Accurate(d)
    BY DEF ChannelInv, RecordInv
  <2> QED
    BY <1>2, <1>3, <1>9, <2>1 DEF Accurate, Stage, Final
<1>12. WaiterInv' /\ NoLostWakeup' /\ PauseExclusive' /\ QueueInv'
  BY <1>1, <1>2, <1>3, <1>6, WaitersKept, PauseKept, QueueKept DEF ChannelInv
<1> QED
  BY <1>5, <1>8, <1>10, <1>11, <1>12 DEF ChannelInv

LEMMA CleanupStep ==
    ASSUME ChannelInv, Cleanup
    PROVE  ChannelInv'
<1>1. ChannelTypeOK
  BY DEF ChannelInv
<1>2. /\ closed' = closed \cup {rec[c].chan : c \in {d \in Commands : Expired(d) /\ rec[d].chan # 0}}
      /\ rec' = [c \in Commands |-> IF Expired(c) THEN NoRecord ELSE rec[c]]
      /\ UNCHANGED <<now, sender, via, conn, conns, down, up, queue, spot, sent, pending, paused,
                     waiter, holds, chans>>
  BY DEF Cleanup, wireVars, agentVars
<1>3. \A c \in Commands : rec'[c] = IF Expired(c) THEN NoRecord ELSE rec[c]
  BY <1>2
<1>4. \A c \in Commands : Expired(c) /\ rec[c].chan # 0 => rec[c].chan \in closed'
  BY <1>2
<1>5. ChannelTypeOK'
  <2>1. rec' \in [Commands -> Record \cup {NoRecord}]
    BY <1>1, <1>2 DEF ChannelTypeOK
  <2>2. \A c \in Commands : Expired(c) => rec[c] \in Record
    BY <1>1 DEF ChannelTypeOK, Expired
  <2>3. \A c \in Commands : Expired(c) => rec[c].chan \in Nat
    BY <2>2 DEF Record
  <2>4. closed' \subseteq Nat
    <3>1. \A x \in closed' : x \in closed \/ \E c \in Commands : Expired(c) /\ x = rec[c].chan
      BY <1>2
    <3>2. closed \subseteq Nat
      BY <1>1 DEF ChannelTypeOK
    <3> QED
      BY <2>3, <3>1, <3>2
  <2> QED
    BY <1>1, <1>2, <2>1, <2>4 DEF ChannelTypeOK
<1>6. StagesKept /\ StagesForward
  BY <1>2 DEF StagesKept, StagesForward, Forward
<1>7. PartOf(up', up) /\ PartOf(down', down) /\ FinalsNew
  BY <1>1, <1>2, WiresPart, PartFinals
<1>8. PauseExclusive' /\ QueueInv' /\ WireInv' /\ AnswerInv'
  BY <1>1, <1>2, <1>5, <1>6, <1>7, PauseKept, QueueKept, WireKept, AnswersKept DEF ChannelInv
<1>9. RecordInv'
  <2> SUFFICES ASSUME NEW c \in Commands, rec'[c] # NoRecord PROVE Accurate(c)'
    BY DEF RecordInv
  <2>1. rec'[c] = rec[c] /\ rec[c] # NoRecord
    BY <1>3
  <2>2. Accurate(c)
    BY <2>1 DEF ChannelInv, RecordInv
  <2> QED
    BY <1>2, <1>6, <1>7, <2>1, <2>2, AccurateKept DEF StagesForward
<1>10. WaiterInv'
  BY <1>2 DEF ChannelInv, WaiterInv
<1>11. NoLostWakeup'
  <2> SUFFICES ASSUME NEW w \in Waiters, waiter[w] = "blocked", holds[w] \notin closed'
               PROVE  Open(Awaits[w])' /\ rec'[Awaits[w]].chan = holds[w]
    BY <1>2 DEF NoLostWakeup
  <2>1. Awaits[w] \in Commands
    BY QueueAssumption
  <2>2. Open(Awaits[w]) /\ rec[Awaits[w]].chan = holds[w] /\ holds[w] # 0
    BY <1>2 DEF ChannelInv, NoLostWakeup, WaiterInv
  <2>3. ~Expired(Awaits[w])
    BY <1>4, <2>1, <2>2
  <2> QED
    BY <1>3, <2>1, <2>2, <2>3 DEF Open
<1> QED
  BY <1>5, <1>8, <1>9, <1>10, <1>11 DEF ChannelInv

\* The waiters' steps leave everything but the channel of one record alone.
LEMMA WaitStep ==
    ASSUME ChannelInv, NEW w \in Waiters, StartWaiting(w) \/ Wake(w) \/ StopWaiting(w)
    PROVE  ChannelInv'
<1>1. ChannelTypeOK /\ Awaits[w] \in Commands
  BY QueueAssumption DEF ChannelInv
<1>2. /\ UNCHANGED <<now, rec, sender, via, conn, conns, down, up, queue, spot, sent, pending, paused,
                     holds, chans, closed>>
      /\ waiter' \in {[waiter EXCEPT ![w] = "check"], [waiter EXCEPT ![w] = "gaveup"]}
      /\ sender[Awaits[w]] = "sent"
  BY DEF StartWaiting, Wake, StopWaiting, gatewayVars, wireVars, agentVars, ChannelInv, WaiterInv
<1>3. /\ waiter' \in [Waiters -> {"idle", "check", "blocked", "result", "missing", "gaveup"}]
      /\ waiter'[w] \in {"check", "gaveup"} /\ \A v \in Waiters : v # w => waiter'[v] = waiter[v]
  BY <1>1, <1>2 DEF ChannelTypeOK
<1>4. ChannelTypeOK'
  BY <1>1, <1>2, <1>3 DEF ChannelTypeOK
<1>5. StagesKept /\ StagesForward
  BY <1>2 DEF StagesKept, StagesForward, Forward
<1>6. PartOf(up', up) /\ PartOf(down', down) /\ FinalsNew
  BY <1>1, <1>2, WiresPart, PartFinals
<1>7. PauseExclusive' /\ QueueInv' /\ WireInv' /\ AnswerInv' /\ RecordInv'
  BY <1>1, <1>2, <1>4, <1>5, <1>6, PauseKept, QueueKept, WireKept, AnswersKept, RecordsKept
     DEF ChannelInv
<1>8. WaiterInv' /\ NoLostWakeup'
  BY <1>2, <1>3 DEF ChannelInv, WaiterInv, NoLostWakeup, Open
<1> QED
  BY <1>4, <1>7, <1>8 DEF ChannelInv

LEMMA CheckStep ==
    ASSUME ChannelInv, NEW w \in Waiters, Check(w)
    PROVE  ChannelInv'
<1> DEFINE c == Awaits[w]
<1>1. ChannelTypeOK /\ c \in Commands
  BY QueueAssumption DEF ChannelInv
<1>2. /\ UNCHANGED <<now, sender, via, conn, conns, down, up, queue, spot, sent, pending, paused, closed>>
      /\ waiter[w] = "check"
  BY DEF Check, wireVars, agentVars
<1>3. StagesKept /\ StagesForward
  BY <1>2 DEF StagesKept, StagesForward, Forward
<1>4. PartOf(up', up) /\ PartOf(down', down) /\ FinalsNew
  BY <1>1, <1>2, WiresPart, PartFinals
<1>s. sender[c] = "sent"
  BY <1>2 DEF ChannelInv, WaiterInv
<1>5. CASE ~Open(c)
  <2>1. /\ UNCHANGED <<rec, holds, chans>>
        /\ waiter' \in {[waiter EXCEPT ![w] = "missing"], [waiter EXCEPT ![w] = "result"]}
    BY <1>5 DEF Check
  <2>2. /\ waiter' \in [Waiters -> {"idle", "check", "blocked", "result", "missing", "gaveup"}]
        /\ waiter'[w] \in {"missing", "result"} /\ \A v \in Waiters : v # w => waiter'[v] = waiter[v]
    BY <1>1, <2>1 DEF ChannelTypeOK
  <2>3. ChannelTypeOK'
    BY <1>1, <1>2, <2>1, <2>2 DEF ChannelTypeOK
  <2>4. PauseExclusive' /\ QueueInv' /\ WireInv' /\ AnswerInv' /\ RecordInv'
    BY <1>1, <1>2, <1>3, <1>4, <2>1, <2>3, PauseKept, QueueKept, WireKept, AnswersKept, RecordsKept
       DEF ChannelInv
  <2>5. WaiterInv' /\ NoLostWakeup'
    BY <1>2, <1>s, <2>1, <2>2 DEF ChannelInv, WaiterInv, NoLostWakeup, Open
  <2> QED
    BY <2>3, <2>4, <2>5 DEF ChannelInv
<1>6. CASE Open(c)
  <2> DEFINE r == [rec[c] EXCEPT !.chan = IF @ = 0 THEN chans + 1 ELSE @]
  <2>0. rec[c] # NoRecord /\ rec[c] \in Record /\ rec \in Records /\ chans \in Nat
    BY <1>1, <1>6 DEF Open, ChannelTypeOK, Records
  <2>1. /\ chans' = IF rec[c].chan = 0 THEN chans + 1 ELSE chans
        /\ rec' = [rec EXCEPT ![c].chan = IF @ = 0 THEN chans + 1 ELSE @]
        /\ holds' = [holds EXCEPT ![w] = rec'[c].chan]
        /\ waiter' = [waiter EXCEPT ![w] = "blocked"]
    BY <1>6, <2>0 DEF Check
  <2>2. rec' = [rec EXCEPT ![c] = r]
    BY <1>1, <2>0, <2>1 DEF Records
  <2>3. /\ r \in Record /\ r.status = rec[c].status /\ r.why = rec[c].why
        /\ r.chan = IF rec[c].chan = 0 THEN chans + 1 ELSE rec[c].chan
    BY <2>0 DEF Record
  <2> HIDE DEF r
  <2>4. Updates(rec', c) /\ rec'[c] = r
    BY <1>1, <2>0, <2>2, <2>3, NewUpdates
  <2>5. r.chan \in Nat /\ r.chan # 0 /\ (rec[c].chan # 0 => r.chan = rec[c].chan)
    BY <2>0, <2>3 DEF Record
  <2>6. /\ holds' \in [Waiters -> Nat] /\ holds'[w] = r.chan
        /\ \A v \in Waiters : v # w => holds'[v] = holds[v]
    BY <1>1, <2>1, <2>4, <2>5 DEF ChannelTypeOK
  <2>7. /\ waiter' \in [Waiters -> {"idle", "check", "blocked", "result", "missing", "gaveup"}]
        /\ waiter'[w] = "blocked" /\ \A v \in Waiters : v # w => waiter'[v] = waiter[v]
    BY <1>1, <2>1 DEF ChannelTypeOK
  <2>8. chans' \in Nat
    BY <2>0, <2>1
  <2>9. ChannelTypeOK'
    BY <1>1, <1>2, <2>4, <2>6, <2>7, <2>8 DEF ChannelTypeOK, Updates, Records
  <2>10. PauseExclusive' /\ QueueInv' /\ WireInv' /\ AnswerInv'
    BY <1>1, <1>2, <1>3, <1>4, <2>9, PauseKept, QueueKept, WireKept, AnswersKept DEF ChannelInv
  <2>11. \A d \in Commands : rec'[d] # NoRecord =>
            /\ rec[d] # NoRecord /\ rec'[d].why = rec[d].why /\ rec'[d].status = rec[d].status
            /\ Open(d) => Open(d)' /\ (rec[d].chan # 0 => rec'[d].chan = rec[d].chan)
    BY <2>0, <2>3, <2>4, <2>5 DEF Updates, Open
  <2>12. RecordInv'
    <3> SUFFICES ASSUME NEW d \in Commands, rec'[d] # NoRecord PROVE Accurate(d)'
      BY DEF RecordInv
    <3>1. Accurate(d)
      BY <2>11 DEF ChannelInv, RecordInv
    <3> QED
      BY <1>2, <1>3, <1>4, <2>11, <3>1, AccurateKept DEF StagesForward
  <2>13. WaiterInv'
    BY <1>2, <1>s, <2>5, <2>6, <2>7 DEF ChannelInv, WaiterInv
  <2>14. NoLostWakeup'
    <3> SUFFICES ASSUME NEW v \in Waiters, waiter'[v] = "blocked", holds'[v] \notin closed
                 PROVE  Open(Awaits[v])' /\ rec'[Awaits[v]].chan = holds'[v]
      BY <1>2 DEF NoLostWakeup
    <3>1. CASE v = w
      <4>1. Open(c)'
        BY <1>6, <2>3, <2>4 DEF Open, Updates
      <4> QED
        BY <2>4, <2>6, <3>1, <4>1
    <3>2. CASE v # w
      <4>1. Awaits[v] \in Commands
        BY QueueAssumption
      <4>2. Open(Awaits[v]) /\ rec[Awaits[v]].chan = holds[v] /\ holds[v] # 0
        BY <2>6, <2>7, <3>2 DEF ChannelInv, NoLostWakeup, WaiterInv
      <4>3. rec'[Awaits[v]] # NoRecord
        BY <2>4, <4>1, <4>2 DEF Updates, Open
      <4> QED
        BY <2>6, <2>11, <3>2, <4>1, <4>2, <4>3
    <3> QED
      BY <3>1, <3>2
  <2> QED
    BY <2>9, <2>10, <2>12, <2>13, <2>14 DEF ChannelInv
<1> QED
  BY <1>5, <1>6

\* A message that changes a record wakes everyone who waits for it, unless the
\* record stays open under the same channel.
LEMMA DeliverWakes ==
    ASSUME ChannelInv, NEW c \in Commands, rec[c] # NoRecord, Notify(c),
           NEW w \in Waiters, waiter[w] = "blocked", Awaits[w] = c
    PROVE  holds[w] \in closed'
<1>1. holds[w] # 0 /\ (holds[w] \notin closed => rec[c].chan = holds[w])
  BY DEF ChannelInv, WaiterInv, NoLostWakeup
<1> QED
  BY <1>1 DEF Notify

LEMMA NotifyTypes ==
    ASSUME ChannelTypeOK, NEW c \in Commands, rec[c] # NoRecord, Notify(c)
    PROVE  closed \subseteq closed' /\ closed' \subseteq Nat
<1>1. rec[c] \in Record
  BY DEF ChannelTypeOK
<1>2. rec[c].chan \in Nat /\ closed \subseteq Nat
  BY <1>1 DEF ChannelTypeOK, Record
<1> QED
  BY <1>2 DEF Notify

LEMMA DeliverStep ==
    ASSUME ChannelInv, Deliver
    PROVE  ChannelInv'
<1>1. ChannelTypeOK /\ up \in Seq(Message) /\ up # <<>> /\ rec \in Records /\ now \in Nat
  BY DEF ChannelInv, ChannelTypeOK, Deliver, Records
<1>2. PICK m \in Message : m = Head(up)
  BY <1>1, TailRest
<1> DEFINE c == m.cmd
<1>3. c \in Commands /\ m.seq \in 0..MaxProgress
  BY DEF Message
<1>4. /\ up' = Tail(up) /\ UNCHANGED agentVars
      /\ UNCHANGED <<now, sender, via, conn, conns, down, queue, spot, sent, pending, paused,
                     waiter, holds, chans>>
  BY DEF Deliver, agentVars
<1>5. /\ Tail(up) \in Seq(Message) /\ 1 \in DOMAIN up /\ m = up[1]
      /\ \A i \in DOMAIN Tail(up) : i + 1 \in DOMAIN up /\ i + 1 # 1 /\ Tail(up)[i] = up[i + 1]
  BY <1>1, <1>2, TailRest
<1>6. PartOf(up', up) /\ PartOf(down', down)
  BY <1>1, <1>4, WiresPart, Parts
<1>7. Truthful(m)
  BY <1>5 DEF ChannelInv, AnswerInv
<1>8. TakeAck(m) \/ TakeProgress(m) \/ TakeResponse(m)
  BY <1>2 DEF Deliver
<1>9. Refused(c) => Refused(c)'
  BY <1>4 DEF Refused, Stage
<1>10. sender[c] = "sent"
  BY <1>3, <1>7 DEF Truthful, Refused, ChannelInv, WireInv
<1>11. ASSUME Final(m)
       PROVE  spot'[c][1] = "left" /\ \A i \in DOMAIN up' : Final(up'[i]) => up'[i].cmd # c
  <2>1. spot'[c][1] = "left"
    BY <1>4, <1>7, <1>11 DEF Truthful, Stage
  <2>2. \A i \in DOMAIN up' : Final(up'[i]) => up'[i].cmd # c
    BY <1>4, <1>5, <1>11 DEF ChannelInv, AnswerInv
  <2> QED
    BY <2>1, <2>2
<1> HIDE DEF c
\* No record changes.
<1>12. CASE UNCHANGED <<rec, closed>>
  <2>1. ChannelTypeOK'
    BY <1>1, <1>4, <1>5, <1>12 DEF ChannelTypeOK
  <2>2. StagesKept
    BY <1>4 DEF StagesKept
  <2> QED
    BY <1>4, <1>6, <1>12, <2>1, <2>2, QuietStep
\* The record of c changes, and closes the channel it had or is a new one.
<1>13. ASSUME Updates(rec', c), Accurate(c)', closed \subseteq closed', closed' \subseteq Nat,
              \A w \in Waiters : waiter[w] = "blocked" /\ holds[w] \notin closed' /\ Awaits[w] = c =>
                 Open(c)' /\ rec'[c].chan = holds[w]
       PROVE  ChannelInv'
  <2>1. ChannelTypeOK'
    BY <1>1, <1>4, <1>5, <1>13 DEF ChannelTypeOK, Updates, Records
  <2>2. \A d \in Commands : d # c => sender'[d] = sender[d] /\ rec'[d] = rec[d]
    BY <1>4, <1>13 DEF Updates
  <2> QED
    BY <1>3, <1>4, <1>6, <1>10, <1>13, <2>1, <2>2, RecordStep
\* The record of c is notified.
<1>14. ASSUME rec[c] # NoRecord, Notify(c), Updates(rec', c), Accurate(c)'
       PROVE  ChannelInv'
  <2>1. \A w \in Waiters : waiter[w] = "blocked" /\ Awaits[w] = c => holds[w] \in closed'
    BY <1>3, <1>14, DeliverWakes
  <2>2. closed \subseteq closed' /\ closed' \subseteq Nat
    BY <1>1, <1>3, <1>14, NotifyTypes
  <2> QED
    BY <1>13, <1>14, <2>1, <2>2
<1>15. CASE TakeAck(m)
  <2>1. CASE m.kind = "rejected" /\ Open(c)
    <3> DEFINE r == [rec[c] EXCEPT !.status = "failed", !.why = "refused", !.end = now, !.chan = 0]
    <3>0. rec[c] # NoRecord /\ rec[c] \in Record
      BY <1>1, <1>3, <2>1 DEF Open, Records
    <3>1. /\ rec' = [rec EXCEPT ![c].status = "failed", ![c].why = "refused",
                                ![c].end = now, ![c].chan = 0]
          /\ Notify(c)
      BY <1>15, <2>1 DEF TakeAck, c
    <3>2. rec' = [rec EXCEPT ![c] = r]
      BY <1>1, <1>3, <3>1 DEF Records
    <3>3. r \in Record /\ r.status = "failed" /\ r.why = "refused"
      BY <1>1, <3>0 DEF Record, Statuses
    <3> HIDE DEF r
    <3>4. Updates(rec', c) /\ rec'[c] = r
      BY <1>1, <1>3, <3>2, <3>3, NewUpdates
    <3>5. Refused(c)'
      BY <1>7, <1>9, <2>1 DEF Truthful, c
    <3>6. Accurate(c)'
      BY <1>4, <1>10, <3>3, <3>4, <3>5 DEF Accurate, Terminal
    <3> QED
      BY <1>14, <3>0, <3>1, <3>4, <3>6
  <2>2. CASE m.kind = "received" /\ Open(c)
    <3> DEFINE r == [rec[c] EXCEPT !.status = "received"]
    <3>0. rec[c] # NoRecord /\ rec[c] \in Record /\ rec[c].status \notin Terminal
      BY <1>1, <1>3, <2>2 DEF Open, Records
    <3>1. rec' = [rec EXCEPT ![c].status = "received"] /\ closed' = closed
      BY <1>15, <2>2 DEF TakeAck, c
    <3>2. rec' = [rec EXCEPT ![c] = r]
      BY <1>1, <1>3, <3>1 DEF Records
    <3>3. r \in Record /\ r.status = "received" /\ r.why = rec[c].why /\ r.chan = rec[c].chan
      BY <3>0 DEF Record, Statuses
    <3> HIDE DEF r
    <3>4. Updates(rec', c) /\ rec'[c] = r
      BY <1>1, <1>3, <3>2, <3>3, NewUpdates
    <3>5. r.why = "none"
      BY <1>3, <3>0, <3>3 DEF ChannelInv, RecordInv, Accurate
    <3>6. Accurate(c)'
      BY <1>4, <1>10, <3>3, <3>4, <3>5 DEF Accurate, Terminal
    <3>7. Open(c)' /\ rec'[c].chan = rec[c].chan
      BY <3>3, <3>4 DEF Open, Updates, Terminal
    <3>8. \A w \in Waiters : waiter[w] = "blocked" /\ holds[w] \notin closed' /\ Awaits[w] = c =>
             Open(c)' /\ rec'[c].chan = holds[w]
      BY <3>1, <3>7 DEF ChannelInv, NoLostWakeup
    <3>9. closed \subseteq closed' /\ closed' \subseteq Nat
      BY <1>1, <3>1 DEF ChannelTypeOK
    <3> QED
      BY <1>13, <3>4, <3>6, <3>8, <3>9
  <2> QED
    BY <1>12, <1>15, <2>1, <2>2 DEF TakeAck, c
<1>16. CASE TakeProgress(m)
  <2>1. CASE Open(c) /\ rec[c].seq < m.seq
    <3> DEFINE r == [rec[c] EXCEPT !.seq = m.seq, !.chan = 0]
    <3>0. rec[c] # NoRecord /\ rec[c] \in Record
      BY <1>1, <1>3, <2>1 DEF Open, Records
    <3>1. rec' = [rec EXCEPT ![c].seq = m.seq, ![c].chan = 0] /\ Notify(c)
      BY <1>16, <2>1 DEF TakeProgress, c
    <3>2. rec' = [rec EXCEPT ![c] = r]
      BY <1>1, <1>3, <3>1 DEF Records
    <3>3. r \in Record /\ r.status = rec[c].status /\ r.why = rec[c].why
      BY <1>3, <3>0 DEF Record
    <3> HIDE DEF r
    <3>4. Updates(rec', c) /\ rec'[c] = r
      BY <1>1, <1>3, <3>2, <3>3, NewUpdates
    <3>5. r.why = "none" /\ r.status \notin Terminal
      BY <1>3, <2>1, <3>0, <3>3 DEF ChannelInv, RecordInv, Accurate, Open
    <3>6. Accurate(c)'
      BY <1>4, <1>10, <3>4, <3>5 DEF Accurate
    <3> QED
      BY <1>14, <3>0, <3>1, <3>4, <3>6
  <2> QED
    BY <1>12, <1>16, <2>1 DEF TakeProgress, c
<1>17. CASE TakeResponse(m)
  <2> DEFINE status == IF m.kind = "success" THEN "completed" ELSE "failed"
             why == IF m.kind = "busy" THEN "refused" ELSE "executed"
  <2>1. m.kind \in {"success", "failure", "busy"}
    BY <1>17 DEF TakeResponse
  <2>2. /\ status \in Statuses /\ status \in Terminal /\ why \in {"refused", "executed"}
        /\ why = "refused" => Refused(c)' /\ status = "failed"
        /\ why = "executed" => /\ spot'[c][1] = "left"
                               /\ \A i \in DOMAIN up' : Final(up'[i]) => up'[i].cmd # c
    <3>1. CASE m.kind = "busy"
      BY <1>7, <1>9, <3>1 DEF Truthful, c, Statuses, Terminal
    <3>2. CASE m.kind \in {"success", "failure"}
      BY <1>11, <3>2 DEF Final, c, Statuses, Terminal
    <3> QED
      BY <2>1, <3>1, <3>2
  <2>3. /\ \/ /\ rec[c] # NoRecord
              /\ rec' = [rec EXCEPT ![c].status = status, ![c].why = why,
                                    ![c].end = now, ![c].chan = 0]
              /\ Notify(c)
           \/ /\ rec[c] = NoRecord
              /\ rec' = [rec EXCEPT ![c] = [status |-> status, why |-> why, start |-> 0,
                                            end |-> now, seq |-> 0, chan |-> 0]]
              /\ UNCHANGED closed
    BY <1>17 DEF TakeResponse, c
  <2> HIDE DEF status, why
  <2>4. ASSUME NEW r \in Record, rec' = [rec EXCEPT ![c] = r], r.status = status, r.why = why
        PROVE  Updates(rec', c) /\ rec'[c] = r /\ Accurate(c)'
    <3>1. Updates(rec', c) /\ rec'[c] = r
      BY <1>1, <1>3, <2>4, NewUpdates
    <3> QED
      BY <1>4, <1>10, <2>2, <2>4, <3>1 DEF Accurate, Stage, Final
  <2>5. CASE rec[c] # NoRecord
    <3> DEFINE r == [rec[c] EXCEPT !.status = status, !.why = why, !.end = now, !.chan = 0]
    <3>1. /\ rec' = [rec EXCEPT ![c].status = status, ![c].why = why, ![c].end = now, ![c].chan = 0]
          /\ Notify(c)
      BY <2>3, <2>5
    <3>2. rec' = [rec EXCEPT ![c] = r]
      BY <1>1, <1>3, <3>1 DEF Records
    <3>3. rec[c] \in Record
      BY <1>1, <1>3, <2>5 DEF Records
    <3>4. r \in Record /\ r.status = status /\ r.why = why
      BY <1>1, <2>2, <3>3 DEF Record
    <3> HIDE DEF r
    <3> QED
      BY <1>14, <2>4, <2>5, <3>1, <3>2, <3>4
  <2>6. CASE rec[c] = NoRecord
    <3> DEFINE r == [status |-> status, why |-> why, start |-> 0, end |-> now, seq |-> 0, chan |-> 0]
    <3>1. rec' = [rec EXCEPT ![c] = r] /\ closed' = closed
      BY <2>3, <2>6
    <3>2. r \in Record /\ r.status = status /\ r.why = why
      BY <1>1, <2>2, SizeAssumption DEF Record
    <3> HIDE DEF r
    <3>3. \A w \in Waiters : waiter[w] = "blocked" /\ Awaits[w] = c => holds[w] \in closed
      BY <2>6 DEF ChannelInv, NoLostWakeup, Open
    <3>4. closed \subseteq closed' /\ closed' \subseteq Nat
      BY <1>1, <3>1 DEF ChannelTypeOK
    <3> QED
      BY <1>13, <2>4, <3>1, <3>2, <3>3, <3>4
  <2> QED
    BY <2>5, <2>6
<1> QED
  BY <1>8, <1>15, <1>16, <1>17

-----------------------------------------------------------------------------
LEMMA ChannelStep ==
    ASSUME ChannelInv, [ChannelNext]_channelVars
    PROVE  ChannelInv'
<1>1. CASE UNCHANGED channelVars \/ Connect \/ Disconnect \/ ClockTick \/ Resume
  BY <1>1, ConnectionStep
<1>2. CASE AgentDies \/ Pause
  BY <1>2, AgentDiesStep, PauseStep
<1>3. CASE GatewayStep
  BY <1>3, DeliverStep, CleanupStep, RecordCommandStep, SendCommandStep, SendFailsStep DEF GatewayStep
<1>4. CASE AgentStep
  BY <1>4, DispatchStep, TakeStep, AcknowledgeStep, ExecuteStep, ReportStep, RespondStep DEF AgentStep
<1>5. CASE \E w \in Waiters : WaiterStep(w)
  BY <1>5, WaitStep, CheckStep DEF WaiterStep
<1> QED
  BY <1>1, <1>2, <1>3, <1>4, <1>5 DEF ChannelNext

LEMMA ChannelInvHolds == ChannelSpec => []ChannelInv
<1>1. ChannelInit => ChannelInv
  <2> SUFFICES ASSUME ChannelInit PROVE ChannelInv
    OBVIOUS
  <2>1. ChannelTypeOK
    <3>1. now \in Nat /\ conn \in 0..MaxConns /\ conns \in 0..MaxConns /\ pending \in Nat /\ chans \in Nat
      BY SizeAssumption DEF ChannelInit
    <3>2. via \in [Commands -> 0..MaxConns] /\ holds \in [Waiters -> Nat] /\ closed \subseteq Nat
      BY SizeAssumption DEF ChannelInit
    <3>3. spot \in [Commands -> AgentStages \X BOOLEAN]
      BY DEF ChannelInit, AgentStages
    <3>4. /\ down \in Seq(Commands) /\ up \in Seq(Message) /\ queue \in [Queues -> Seq(Commands)]
          /\ sent \in [Commands -> SUBSET (1..MaxProgress)]
      BY DEF ChannelInit
    <3>5. paused \in BOOLEAN
      BY DEF ChannelInit
    <3>6. /\ rec \in [Commands -> Record \cup {NoRecord}]
          /\ sender \in [Commands -> {"new", "recorded", "sent", "failed", "panicked"}]
          /\ waiter \in [Waiters -> {"idle", "check", "blocked", "result", "missing", "gaveup"}]
      BY DEF ChannelInit
    <3> QED
      BY <3>1, <3>2, <3>3, <3>4, <3>5, <3>6 DEF ChannelTypeOK
  <2>2. PauseExclusive
    <3>1. Inside = {}
      BY DEF Inside, Stage, ChannelInit
    <3> QED
      BY <3>1, FS_EmptySet DEF PauseExclusive, Inside, ChannelInit
  <2>3. WireInv /\ QueueInv /\ AnswerInv /\ RecordInv
    BY DEF ChannelInit, WireInv, QueueInv, AnswerInv, RecordInv, Stage
  <2>4. WaiterInv /\ NoLostWakeup
    BY DEF ChannelInit, WaiterInv, NoLostWakeup
  <2> QED
    BY <2>1, <2>2, <2>3, <2>4 DEF ChannelInv
<1>2. ChannelInv /\ [ChannelNext]_channelVars => ChannelInv'
  BY ChannelStep
<1> QED
  BY <1>1, <1>2, PTL DEF ChannelSpec

-----------------------------------------------------------------------------
\* Every state of the command channel is well typed; that the counter of commands
\* stays a natural number already takes the exact count.
THEOREM ChannelTypesHold == ChannelSpec => []ChannelTypeOK
  BY ChannelInvHolds, PTL DEF ChannelInv

\* WaitCommandResult never sleeps through the end of its command: whatever changes
\* or removes the record closes the channel the waiter captured under the mutex.
THEOREM WakeupsAreKept == ChannelSpec => []NoLostWakeup
  BY ChannelInvHolds, PTL DEF ChannelInv

\* PauseCommandsIfIdle keeps commands out: its counter is the number of commands
\* between enqueueCommand and the end of their handler, also across a restart.
THEOREM PauseIsExclusive == ChannelSpec => []PauseExclusive
  BY ChannelInvHolds, PTL DEF ChannelInv

\* A send error or a busy agent is reported for no command that the agent has,
\* had or will have: the caller may send it again.
THEOREM RetriesAreSafe == ChannelSpec => []RetrySafe
<1>1. ChannelInv => RetrySafe
  <2> SUFFICES ASSUME ChannelInv, NEW c \in Commands, rec[c] # NoRecord,
                      rec[c].why \in {"unsent", "refused"}
               PROVE  Stage(c) = "away"
    BY DEF RetrySafe
  <2>1. Accurate(c)
    BY DEF ChannelInv, RecordInv
  <2>2. Stage(c) # "away" => sender[c] = "sent"
    BY DEF ChannelInv, WireInv
  <2> QED
    BY <2>1, <2>2 DEF Accurate, Refused
<1> QED
  BY <1>1, ChannelInvHolds, PTL

\* What a step may do to the record of c.
MovesForward(c) ==
    rec[c] # NoRecord /\ rec'[c] # NoRecord =>
        /\ rec'[c].seq >= rec[c].seq
        /\ ~Open(c) => rec'[c].status = rec[c].status

LEMMA SameForward ==
    ASSUME ChannelTypeOK, NEW c \in Commands, rec'[c] = rec[c]
    PROVE  MovesForward(c)
<1>1. rec[c] # NoRecord => rec[c] \in Record
  BY DEF ChannelTypeOK
<1>2. rec[c] # NoRecord => rec[c].seq \in Nat
  BY <1>1, SizeAssumption DEF Record
<1> QED
  BY <1>2 DEF MovesForward

\* An answer that arrives for a settled record is the one the record has.
LEMMA AnswersAgree ==
    ASSUME ChannelInv, up # <<>>, NEW m \in Message, m = Head(up), NEW c \in Commands, c = m.cmd,
           rec[c] # NoRecord, ~Open(c)
    PROVE  /\ ~Final(m)
           /\ m.kind = "busy" => rec[c].status = "failed"
<1>1. Accurate(c) /\ rec[c].why # "none"
  BY DEF ChannelInv, RecordInv, Accurate, Open
<1>2. rec[c].why \in {"unsent", "refused", "executed"}
  <2>1. rec[c] \in Record
    BY DEF ChannelInv, ChannelTypeOK
  <2> QED
    BY <1>1, <2>1 DEF Record
<1>3. 1 \in DOMAIN up /\ up[1] = m
  BY TailRest DEF ChannelInv, ChannelTypeOK
<1>4. Truthful(m)
  BY <1>3 DEF ChannelInv, AnswerInv
<1>5. Stage(c) # "away" => sender[c] = "sent"
  BY DEF ChannelInv, WireInv
<1>6. ~Final(m)
  <2> SUFFICES ASSUME Final(m) PROVE FALSE
    OBVIOUS
  <2>1. Stage(c) = "left" /\ sender[c] = "sent"
    BY <1>4, <1>5 DEF Truthful
  <2>2. rec[c].why = "executed"
    BY <1>1, <1>2, <2>1 DEF Accurate, Refused
  <2> QED
    BY <1>1, <1>3, <2>2 DEF Accurate
<1>7. m.kind = "busy" => rec[c].status = "failed"
  BY <1>1, <1>2, <1>4 DEF Accurate, Truthful, Refused
<1> QED
  BY <1>6, <1>7

LEMMA DeliverForward ==
    ASSUME ChannelInv, Deliver, NEW d \in Commands
    PROVE  MovesForward(d)
<1>1. ChannelTypeOK /\ up \in Seq(Message) /\ up # <<>> /\ rec \in Records
  BY DEF ChannelInv, ChannelTypeOK, Deliver, Records
<1>2. PICK m \in Message : m = Head(up)
  BY <1>1, TailRest
<1>3. PICK c \in Commands : c = m.cmd
  BY DEF Message
<1>4. TakeAck(m) \/ TakeProgress(m) \/ TakeResponse(m)
  BY <1>2 DEF Deliver
<1>5. CASE rec'[d] = rec[d]
  BY <1>1, <1>5, SameForward
<1>6. CASE d = c /\ rec[c] # NoRecord /\ rec' # rec
  <2>1. rec[c] \in Record /\ rec[c].seq \in Nat
    <3>1. rec[c] \in Record
      BY <1>1, <1>6 DEF Records
    <3> QED
      BY <3>1, SizeAssumption DEF Record
  <2>2. CASE Open(c)
    <3>1. \/ rec' = [rec EXCEPT ![c].status = "failed", ![c].why = "refused", ![c].end = now, ![c].chan = 0]
          \/ rec' = [rec EXCEPT ![c].status = "received"]
          \/ rec[c].seq < m.seq /\ rec' = [rec EXCEPT ![c].seq = m.seq, ![c].chan = 0]
          \/ \E status \in Statuses, why \in {"refused", "executed"} :
                rec' = [rec EXCEPT ![c].status = status, ![c].why = why, ![c].end = now, ![c].chan = 0]
      BY <1>3, <1>4, <1>6, <2>2 DEF TakeAck, TakeProgress, TakeResponse, Statuses
    <3>2. rec'[c].seq = rec[c].seq \/ (rec[c].seq < m.seq /\ rec'[c].seq = m.seq)
      <4>1. CASE rec' = [rec EXCEPT ![c].status = "failed", ![c].why = "refused", ![c].end = now, ![c].chan = 0]
        BY <1>1, <2>1, <4>1 DEF Records, Record
      <4>2. CASE rec' = [rec EXCEPT ![c].status = "received"]
        BY <1>1, <2>1, <4>2 DEF Records, Record
      <4>3. CASE rec[c].seq < m.seq /\ rec' = [rec EXCEPT ![c].seq = m.seq, ![c].chan = 0]
        BY <1>1, <2>1, <4>3 DEF Records, Record
      <4>4. ASSUME NEW status \in Statuses, NEW why \in {"refused", "executed"},
                   rec' = [rec EXCEPT ![c].status = status, ![c].why = why, ![c].end = now, ![c].chan = 0]
            PROVE  rec'[c].seq = rec[c].seq
        BY <1>1, <2>1, <4>4 DEF Records, Record
      <4> QED
        BY <3>1, <4>1, <4>2, <4>3, <4>4
    <3>3. m.seq \in Nat
      BY SizeAssumption DEF Message
    <3>4. rec'[c].seq >= rec[c].seq
      BY <2>1, <3>2, <3>3
    <3> QED
      BY <1>6, <2>2, <3>4 DEF MovesForward
  <2>3. CASE ~Open(c)
    <3>1. TakeResponse(m)
      BY <1>3, <1>4, <1>6, <2>3 DEF TakeAck, TakeProgress
    <3>2. m.kind = "busy" /\ rec[c].status = "failed"
      BY <1>1, <1>2, <1>3, <1>6, <2>3, <3>1, AnswersAgree DEF TakeResponse, Final
    <3>3. rec' = [rec EXCEPT ![c].status = "failed", ![c].why = "refused", ![c].end = now, ![c].chan = 0]
      BY <1>3, <1>6, <3>1, <3>2 DEF TakeResponse
    <3>4. rec'[c].seq = rec[c].seq /\ rec'[c].status = "failed"
      BY <1>1, <2>1, <3>3 DEF Records, Record
    <3> QED
      BY <1>6, <2>1, <3>2, <3>4 DEF MovesForward
  <2> QED
    BY <2>2, <2>3
<1>7. CASE d = c /\ rec[c] = NoRecord
  BY <1>7 DEF MovesForward
<1>8. d # c => rec'[d] = rec[d]
  BY <1>1, <1>3, <1>4 DEF TakeAck, TakeProgress, TakeResponse, Records
<1> QED
  BY <1>5, <1>6, <1>7, <1>8

\* A record only moves forward, whatever arrives late, twice or out of order:
\* handleCommandProgress drops what is overtaken, and the one message that
\* handleCommandResponse stores over an outcome repeats it.
THEOREM RecordsMoveForward == ChannelSpec => RecordForward
<1>1. ASSUME ChannelInv, [ChannelNext]_channelVars, NEW c \in Commands
      PROVE  MovesForward(c)
  <2>1. ChannelTypeOK /\ rec \in Records
    BY <1>1 DEF ChannelInv, ChannelTypeOK, Records
  <2>2. CASE rec'[c] = rec[c]
    BY <2>1, <2>2, SameForward
  <2>3. CASE Deliver
    BY <1>1, <2>3, DeliverForward
  <2>4. CASE Cleanup
    <3>1. rec'[c] = NoRecord \/ rec'[c] = rec[c]
      BY <2>4 DEF Cleanup
    <3> QED
      BY <2>2, <3>1 DEF MovesForward
  <2>5. ASSUME NEW d \in Commands, RecordCommand(d)
        PROVE  MovesForward(c)
    <3>1. rec[d] = NoRecord
      BY <1>1, <2>5 DEF RecordCommand, ChannelInv, RecordInv, Accurate
    <3>2. c # d => rec'[c] = rec[c]
      BY <2>1, <2>5 DEF RecordCommand, Records
    <3> QED
      BY <2>2, <3>1, <3>2 DEF MovesForward
  <2>6. ASSUME NEW d \in Commands, SendFails(d)
        PROVE  MovesForward(c)
    <3>1. sender[d] = "recorded" /\ rec[d] # NoRecord
          /\ rec' = [rec EXCEPT ![d].status = "failed", ![d].why = "unsent", ![d].end = now]
      BY <2>6 DEF SendFails
    <3>2. rec[d] \in Record /\ rec[d].seq \in Nat
      <4>1. rec[d] \in Record
        BY <2>1, <3>1 DEF Records
      <4> QED
        BY <4>1, SizeAssumption DEF Record
    <3>3. Open(d)
      <4>1. Accurate(d) /\ (Stage(d) # "away" => sender[d] = "sent")
        BY <1>1, <3>1 DEF ChannelInv, RecordInv, WireInv
      <4>2. rec[d].why \notin {"unsent", "refused", "executed"}
        BY <3>1, <4>1 DEF Accurate, Refused
      <4>3. rec[d].why \in {"none", "unsent", "refused", "executed"}
        BY <3>2 DEF Record
      <4> QED
        BY <3>1, <4>1, <4>2, <4>3 DEF Accurate, Open
    <3>4. rec'[d].seq = rec[d].seq /\ (c # d => rec'[c] = rec[c])
      BY <2>1, <3>1, <3>2 DEF Records, Record
    <3> QED
      BY <2>2, <3>2, <3>3, <3>4 DEF MovesForward
  <2>7. ASSUME NEW w \in Waiters, Check(w)
        PROVE  MovesForward(c)
    <3>1. PICK d \in Commands : d = Awaits[w]
      BY QueueAssumption
    <3>2. rec' = rec \/ (Open(d) /\ rec' = [rec EXCEPT ![d].chan = IF @ = 0 THEN chans + 1 ELSE @])
      BY <2>7, <3>1 DEF Check
    <3>3. CASE Open(d) /\ rec' = [rec EXCEPT ![d].chan = IF @ = 0 THEN chans + 1 ELSE @]
      <4>1. rec[d] \in Record
        BY <2>1, <3>3 DEF Records, Open
      <4>2. rec[d].seq \in Nat
        BY <4>1, SizeAssumption DEF Record
      <4>3. rec'[d].seq = rec[d].seq /\ rec'[d].status = rec[d].status /\ (c # d => rec'[c] = rec[c])
        BY <2>1, <3>3, <4>1 DEF Records, Record
      <4> QED
        BY <2>2, <4>2, <4>3 DEF MovesForward
    <3> QED
      BY <2>2, <3>2, <3>3
  <2>8. \/ rec' = rec \/ Deliver \/ Cleanup
        \/ \E d \in Commands : RecordCommand(d) \/ SendFails(d)
        \/ \E w \in Waiters : Check(w)
    BY <1>1 DEF ChannelNext, channelVars, GatewayStep, AgentStep, WaiterStep, gatewayVars,
       Connect, Disconnect, AgentDies, ClockTick, Pause, Resume, SendCommand, SendPanics, Dispatch, Take,
       Acknowledge, Execute, Report, Respond, StartWaiting, Wake, StopWaiting
  <2> QED
    BY <2>2, <2>3, <2>4, <2>5, <2>6, <2>7, <2>8
<1>2. ChannelInv /\ [ChannelNext]_channelVars =>
        [\A c \in Commands : rec[c] # NoRecord /\ rec'[c] # NoRecord =>
           /\ rec'[c].seq >= rec[c].seq
           /\ ~Open(c) => rec'[c].status = rec[c].status]_channelVars
  BY <1>1 DEF MovesForward
<1> QED
  BY <1>2, ChannelInvHolds, PTL DEF ChannelSpec, RecordForward

-----------------------------------------------------------------------------
(* The stream of job events *)

\* An event that is missing behind a stored one was deleted with its job: age
\* and number delete from the front.
PrunedByAge ==
    \A i \in 1 .. last, f \in table : f <= i /\ i \notin table => jobOf[i] \in gone

\* Why an event is not in the table, as reader r may be concerned.
Excused(r, i) == i \in table \/ jobOf[i] \in gone \/ i \in late[r]

\* Behind the cursor of an open stream, and behind every event it is about to
\* write, nothing is missing without an excuse.
CursorGaps ==
    \A r \in Readers : Streaming(r) /\ after[r] > 0 =>
        \A i \in 1 .. last : i > after[r] => Excused(r, i)

PageGaps ==
    \A r \in Readers : place[r] = "write" =>
        \A e \in batch[r], i \in 1 .. last : i > e => Excused(r, i)

\* What is to be written lies after the cursor, and no stored event between.
PageDense ==
    \A r \in Readers :
        /\ batch[r] # {} => place[r] = "write"
        /\ \A e \in batch[r] : e > after[r]
        /\ \A e \in batch[r], i \in table : i > after[r] /\ i < e => i \in batch[r]

\* After a read that was not cut off, and without a signal since, everything
\* after the cursor is to be written or about to be published.
PageComplete ==
    \A r \in Readers : place[r] = "write" /\ ~more[r] /\ ~signal[r] =>
        Following(r) \subseteq batch[r] \cup unpublished

EventsInv ==
    /\ EventsTypeOK
    /\ PrunedByAge
    /\ CursorGaps
    /\ PageGaps
    /\ PageDense
    /\ PageComplete
    /\ NoLostSignal
    /\ GapsAnnounced

-----------------------------------------------------------------------------
(* Sets of ids *)

\* A set of naturals has a least element, a bounded one also a greatest.
LEMMA LeastNatural ==
    ASSUME NEW T \in SUBSET Nat, T # {}
    PROVE  \E x \in T : \A y \in T : x <= y
<1> DEFINE R == OpToRel(<, Nat)
<1>1. IsWellFoundedOn(R, Nat)
  BY NatLessThanWellFounded
<1>2. \A x, y \in Nat : x < y => <<x, y>> \in R
  BY DEF OpToRel
<1> HIDE DEF R
<1>3. PICK x \in T : \A y \in T : ~(<<y, x>> \in R)
  BY <1>1, WFMin
<1>4. \A y \in T : ~(y < x)
  BY <1>2, <1>3
<1> QED
  BY <1>4

LEMMA GreatestNatural ==
    ASSUME NEW n \in Nat, NEW T \in SUBSET (0 .. n), T # {}
    PROVE  \E x \in T : \A y \in T : y <= x
<1> DEFINE U == {n - x : x \in T}
<1>1. U \in SUBSET Nat /\ U # {}
  <2>1. \A x \in T : x \in 0 .. n /\ n - x \in Nat
    OBVIOUS
  <2> QED
    BY <2>1
<1>2. PICK u \in U : \A v \in U : u <= v
  BY <1>1, LeastNatural
<1>3. PICK x \in T : u = n - x
  OBVIOUS
<1>4. \A y \in T : n - x <= n - y
  BY <1>2, <1>3
<1> QED
  BY <1>4

LEMMA IdSets ==
    ASSUME NEW n \in Nat, NEW T \in SUBSET (1 .. n)
    PROVE  IsFiniteSet(T) /\ Cardinality(T) \in Nat
<1>1. IsFiniteSet(1 .. n)
  BY FS_Interval
<1>2. IsFiniteSet(T)
  BY <1>1, FS_Subset
<1> QED
  BY <1>2, FS_CardinalityType

\* What EventWindow returns.
LEMMA WindowEnds ==
    ASSUME EventsTypeOK
    PROVE  /\ table = {} => FirstID = 0 /\ LastID = 0
           /\ table # {} => /\ FirstID \in table /\ \A e \in table : FirstID <= e
                            /\ LastID \in table /\ \A e \in table : e <= LastID
           /\ LastID \in 0 .. last
<1>1. last \in Nat /\ table \in SUBSET (1 .. last) /\ table \in SUBSET Nat /\ table \in SUBSET (0 .. last)
  BY BatchAssumption DEF EventsTypeOK
<1>2. table # {} => \E e \in table : \A f \in table : e <= f
  BY <1>1, LeastNatural
<1>3. table # {} => \E e \in table : \A f \in table : f <= e
  BY <1>1, GreatestNatural
<1>4. table # {} => FirstID \in table /\ \A e \in table : FirstID <= e
  BY <1>2 DEF FirstID
<1>5. table # {} => LastID \in table /\ \A e \in table : e <= LastID
  BY <1>3 DEF LastID
<1>6. table = {} => FirstID = 0 /\ LastID = 0
  BY DEF FirstID, LastID
<1>7. LastID \in 0 .. last
  <2>1. CASE table = {}
    BY <1>1, <1>6, <2>1
  <2>2. CASE table # {}
    BY <1>1, <1>5, <2>2
  <2> QED
    BY <2>1, <2>2
<1> QED
  BY <1>4, <1>5, <1>6, <1>7

Before(r, e) == {f \in Following(r) : f < e}

LEMMA FollowingTypes ==
    ASSUME EventsTypeOK, NEW r \in Readers
    PROVE  /\ last \in Nat /\ Following(r) \in SUBSET (1 .. last) /\ after[r] \in Nat
           /\ Following(r) \subseteq table
           /\ \A e \in Following(r) : e > after[r]
           /\ \A e \in Following(r) : /\ Before(r, e) \in SUBSET (1 .. last)
                                      /\ IsFiniteSet(Before(r, e)) /\ Cardinality(Before(r, e)) \in Nat
           /\ Page(r) = {e \in Following(r) : Cardinality(Before(r, e)) < Batch}
           /\ Batch \in Nat \ {0}
<1>1. last \in Nat /\ Following(r) \in SUBSET (1 .. last) /\ after[r] \in Nat
  <2>1. last \in Nat /\ table \in SUBSET (1 .. last) /\ after[r] \in 0 .. last
    BY BatchAssumption DEF EventsTypeOK
  <2>2. after[r] \in Nat
    BY <2>1
  <2>3. Following(r) \subseteq table
    BY DEF Following
  <2> QED
    BY <2>1, <2>2, <2>3
<1>2. \A e \in Following(r) : Before(r, e) \in SUBSET (1 .. last)
  BY <1>1 DEF Before
<1>3. \A e \in Following(r) : IsFiniteSet(Before(r, e)) /\ Cardinality(Before(r, e)) \in Nat
  BY <1>1, <1>2, IdSets
<1>4. Page(r) = {e \in Following(r) : Cardinality(Before(r, e)) < Batch}
  BY DEF Page, Before
<1>5. Following(r) \subseteq table /\ \A e \in Following(r) : e > after[r]
  BY DEF Following
<1> QED
  BY <1>1, <1>2, <1>3, <1>4, <1>5, BatchAssumption

\* An earlier event has no more before it.
LEMMA RankGrows ==
    ASSUME EventsTypeOK, NEW r \in Readers, NEW d \in Following(r), NEW e \in Following(r), d <= e
    PROVE  Cardinality(Before(r, d)) <= Cardinality(Before(r, e))
<1>1. Before(r, d) \subseteq Before(r, e)
  BY FollowingTypes DEF Before
<1>2. IsFiniteSet(Before(r, e))
  BY FollowingTypes
<1> QED
  BY <1>1, <1>2, FS_Subset

\* A page has no holes.
LEMMA PageHasNoHoles ==
    ASSUME EventsTypeOK, NEW r \in Readers, NEW e \in Page(r), NEW i \in Following(r), i < e
    PROVE  i \in Page(r)
<1>1. /\ e \in Following(r) /\ Cardinality(Before(r, e)) < Batch
      /\ Cardinality(Before(r, e)) \in Nat /\ Cardinality(Before(r, i)) \in Nat
      /\ e \in Nat /\ i \in Nat /\ Batch \in Nat
  BY FollowingTypes
<1>2. Cardinality(Before(r, i)) <= Cardinality(Before(r, e))
  BY <1>1, RankGrows
<1>3. Cardinality(Before(r, i)) < Batch
  BY <1>1, <1>2
<1> QED
  BY <1>3, FollowingTypes

\* A page that is shorter than the limit is all there is: the reader may wait.
LEMMA ShortPageIsAll ==
    ASSUME EventsTypeOK, NEW r \in Readers, Cardinality(Page(r)) # Batch
    PROVE  Page(r) = Following(r)
<1> DEFINE F == Following(r)
           X == F \ Page(r)
<1>1. /\ last \in Nat /\ F \in SUBSET (1 .. last) /\ F \in SUBSET Nat /\ Batch \in Nat \ {0}
      /\ Page(r) = {e \in F : Cardinality(Before(r, e)) < Batch}
  BY FollowingTypes
<1>2. ASSUME X # {} PROVE FALSE
  <2>1. X \in SUBSET Nat
    BY <1>1
  <2>2. PICK e \in X : \A y \in X : e <= y
    BY <1>2, <2>1, LeastNatural
  <2> DEFINE B == Before(r, e)
  <2>3. /\ e \in F /\ e \in Nat /\ B \in SUBSET (1 .. last) /\ IsFiniteSet(B) /\ Cardinality(B) \in Nat
        /\ Cardinality(B) >= Batch
    BY <1>1, FollowingTypes
  <2>4. B # {}
    BY <1>1, <2>3, FS_EmptySet
  <2>5. PICK g \in B : \A y \in B : y <= g
    <3>1. B \in SUBSET (0 .. last)
      BY <1>1, <2>3
    <3> QED
      BY <1>1, <2>4, <3>1, GreatestNatural
  <2>6. g \in F /\ g < e /\ g \in Nat
    BY <1>1, <2>5 DEF Before
  <2>7. g \in Page(r)
    BY <2>2, <2>3, <2>6
  <2>8. Before(r, g) = B \ {g}
    BY <1>1, <2>3, <2>5, <2>6 DEF Before
  <2>9. Cardinality(Before(r, g)) = Cardinality(B) - 1
    BY <2>3, <2>5, <2>8, FS_RemoveElement
  <2>10. Cardinality(B) = Batch
    BY <1>1, <2>3, <2>7, <2>9
  <2>11. Page(r) = B
    <3>1. ASSUME NEW f \in F, f < e PROVE f \in Page(r)
      BY <1>1, <2>2, <2>3, <3>1
    <3>2. ASSUME NEW f \in Page(r) PROVE f < e
      <4> SUFFICES ASSUME ~(f < e) PROVE FALSE
        OBVIOUS
      <4>1. f \in F /\ f \in Nat /\ e <= f
        BY <1>1, <2>3
      <4>2. Cardinality(B) <= Cardinality(Before(r, f))
        BY <2>3, <4>1, RankGrows
      <4>3. Cardinality(Before(r, f)) < Batch /\ Cardinality(Before(r, f)) \in Nat
        BY <1>1, <4>1, FollowingTypes
      <4> QED
        BY <1>1, <2>3, <4>2, <4>3
    <3> QED
      BY <1>1, <3>1, <3>2 DEF Before
  <2> QED
    BY <2>10, <2>11
<1> QED
  BY <1>1, <1>2

-----------------------------------------------------------------------------
(* The store and the broker *)

\* The parts of the type invariant the steps use.
LEMMA EventTypes ==
    ASSUME EventsTypeOK
    PROVE  /\ last \in Nat /\ last <= MaxEvents /\ MaxEvents \in Nat
           /\ table \in SUBSET (1 .. last) /\ table \in SUBSET Nat
           /\ \A r \in Readers : /\ after[r] \in 0 .. last /\ after[r] \in Nat
                                 /\ batch[r] \in SUBSET (1 .. last) /\ batch[r] \in SUBSET Nat
                                 /\ missed[r] \in SUBSET (1 .. last)
                                 /\ late[r] \in SUBSET (1 .. last)
  BY BatchAssumption DEF EventsTypeOK

\* An event more is in the table, and waits to be published.
LEMMA CommitKeeps ==
    ASSUME EventsInv, NEW j \in Jobs, Commit(j)
    PROVE  EventsInv'
<1> USE DEF Commit
<1>0. EventsTypeOK
  BY DEF EventsInv
<1>1. /\ last \in Nat /\ last < MaxEvents /\ MaxEvents \in Nat /\ last + 1 \in Ids
      /\ last' = last + 1 /\ table' = table \cup {last + 1}
      /\ table \in SUBSET (1 .. last) /\ 1 .. last' = (1 .. last) \cup {last + 1}
      /\ 1 .. last \in SUBSET Ids
  BY <1>0, EventTypes DEF Ids
<1>2. \A i \in 1 .. last : jobOf'[i] = jobOf[i]
  BY <1>0, <1>1 DEF EventsTypeOK
<1>3. EventsTypeOK'
  <2>1. /\ last' \in 0 .. MaxEvents /\ table' \subseteq 1 .. last' /\ unpublished' \subseteq 1 .. last'
    BY <1>0, <1>1 DEF EventsTypeOK
  <2>2. jobOf' \in [Ids -> Jobs \cup {NoJob}] /\ gone' \subseteq Jobs
    BY <1>0, <1>1 DEF EventsTypeOK
  <2>3. after' \in [Readers -> 0 .. last']
    <3>1. 0 .. last \subseteq 0 .. last'
      BY <1>1
    <3> QED
      BY <1>0, <3>1 DEF EventsTypeOK
  <2>4. /\ batch' \in [Readers -> SUBSET (1 .. last')]
        /\ missed' \in [Readers -> SUBSET (1 .. last')]
        /\ late' \in [Readers -> SUBSET (1 .. last')]
    BY <1>0, <1>1 DEF EventsTypeOK
  <2>5. /\ place' \in [Readers -> HandlerStages]
        /\ signal' \in [Readers -> BOOLEAN] /\ known' \in [Readers -> BOOLEAN]
        /\ more' \in [Readers -> BOOLEAN]
    BY <1>0 DEF EventsTypeOK
  <2> QED
    BY <2>1, <2>2, <2>3, <2>4, <2>5 DEF EventsTypeOK
<1>4. \A r \in Readers, i \in 1 .. last : Excused(r, i) => Excused(r, i)'
  BY <1>1, <1>2 DEF Excused
<1>5. \A r \in Readers : \A i \in 1 .. last' : i \notin 1 .. last => Excused(r, i)'
  BY <1>1 DEF Excused
<1>6. PrunedByAge'
  <2> SUFFICES ASSUME NEW i \in 1 .. last', NEW f \in table', f <= i, i \notin table'
               PROVE  jobOf'[i] \in gone'
    BY DEF PrunedByAge
  <2>1. i \in 1 .. last /\ i \notin table /\ f \in table
    BY <1>1
  <2> QED
    BY <1>2, <2>1 DEF EventsInv, PrunedByAge
<1>7. CursorGaps'
  <2> SUFFICES ASSUME NEW r \in Readers, Streaming(r)', after[r] > 0, NEW i \in 1 .. last', i > after[r]
               PROVE  Excused(r, i)'
    BY DEF CursorGaps
  <2>1. Streaming(r)
    BY DEF Streaming
  <2> QED
    BY <1>4, <1>5, <2>1 DEF EventsInv, CursorGaps
<1>8. PageGaps'
  <2> SUFFICES ASSUME NEW r \in Readers, place[r] = "write", NEW e \in batch[r], NEW i \in 1 .. last', i > e
               PROVE  Excused(r, i)'
    BY DEF PageGaps
  <2> QED
    BY <1>1, <1>4, <1>5 DEF EventsInv, PageGaps
<1>9. PageDense'
  <2>1. \A r \in Readers : \A e \in batch[r] : ~(last + 1 < e)
    BY <1>0, <1>1, EventTypes
  <2> QED
    BY <1>1, <2>1 DEF EventsInv, PageDense
<1>10. \A r \in Readers : Following(r)' \subseteq Following(r) \cup {last + 1}
  BY <1>1 DEF Following
<1>11. PageComplete'
  BY <1>10 DEF EventsInv, PageComplete
<1>12. NoLostSignal'
  BY <1>10 DEF EventsInv, NoLostSignal
<1>13. GapsAnnounced'
  BY <1>0, <1>2, EventTypes DEF EventsInv, GapsAnnounced
<1> QED
  BY <1>3, <1>6, <1>7, <1>8, <1>9, <1>11, <1>12, <1>13 DEF EventsInv

\* Every open stream has a signal after Publish.
LEMMA PublishKeeps ==
    ASSUME EventsInv, NEW e \in Ids, Publish(e)
    PROVE  EventsInv'
<1> USE DEF Publish
<1>1. EventsTypeOK'
  BY DEF EventsInv, EventsTypeOK
<1>2. \A r \in Readers : place'[r] # "off" => signal'[r]
  OBVIOUS
<1>3. PageComplete' /\ NoLostSignal'
  BY <1>2 DEF PageComplete, NoLostSignal
<1>4. \A r \in Readers, i \in 1 .. last : Excused(r, i)' <=> Excused(r, i)
  BY DEF Excused
<1>5. PrunedByAge' /\ PageDense' /\ GapsAnnounced'
  BY DEF EventsInv, PrunedByAge, PageDense, GapsAnnounced
<1>6. CursorGaps' /\ PageGaps'
  BY <1>4 DEF EventsInv, CursorGaps, PageGaps, Streaming
<1> QED
  BY <1>1, <1>3, <1>5, <1>6 DEF EventsInv

\* What Prune deletes, an open stream can name.
LEMMA PruneKeeps ==
    ASSUME EventsInv, Prune
    PROVE  EventsInv'
<1>0. EventsTypeOK
  BY DEF EventsInv
<1>1. PICK id \in 0 .. last, js \in SUBSET (Jobs \ gone) :
         LET dropped == {e \in table : e <= id \/ jobOf[e] \in js}
         IN  /\ dropped # {}
             /\ table' = table \ dropped
             /\ gone' = gone \cup js
             /\ late' = [r \in Readers |-> IF Streaming(r) THEN late[r] \cup dropped ELSE late[r]]
             /\ UNCHANGED <<last, jobOf, unpublished, place, signal, known, after, batch,
                            more, missed>>
  BY DEF Prune
<1> DEFINE dropped == {e \in table : e <= id \/ jobOf[e] \in js}
<1>2. table' = table \ dropped /\ dropped \subseteq table /\ gone' = gone \cup js /\ js \subseteq Jobs
  BY <1>1
<1>3. late' = [r \in Readers |-> IF Streaming(r) THEN late[r] \cup dropped ELSE late[r]]
  BY <1>1
<1>4. UNCHANGED <<last, jobOf, unpublished, place, signal, known, after, batch, more, missed>>
  BY <1>1
<1>5. \A e \in table : e \in dropped <=> e <= id \/ jobOf[e] \in js
  OBVIOUS
<1>6. last \in Nat /\ id \in Nat /\ table \in SUBSET (1 .. last) /\ table \in SUBSET Nat
  BY <1>0, EventTypes
<1> HIDE DEF dropped
<1>7. EventsTypeOK'
  <2>1. late' \in [Readers -> SUBSET (1 .. last')]
    BY <1>0, <1>2, <1>3, <1>4, <1>6, EventTypes
  <2>2. table' \subseteq 1 .. last' /\ gone' \subseteq Jobs
    BY <1>0, <1>2, <1>4 DEF EventsTypeOK
  <2> QED
    BY <1>0, <1>4, <2>1, <2>2 DEF EventsTypeOK
<1>8. \A r \in Readers, i \in 1 .. last : Streaming(r) /\ Excused(r, i) => Excused(r, i)'
  BY <1>2, <1>3, <1>4 DEF Excused
<1>9. PrunedByAge'
  <2> SUFFICES ASSUME NEW i \in 1 .. last, NEW f \in table', f <= i, i \notin table'
               PROVE  jobOf[i] \in gone'
    BY <1>4 DEF PrunedByAge
  <2>1. f \in table /\ f \in Nat /\ i \in Nat /\ ~(f <= id)
    BY <1>2, <1>5, <1>6
  <2>2. CASE i \in table
    <3>1. i \in dropped
      BY <1>2, <2>2
    <3>2. ~(i <= id)
      BY <1>6, <2>1
    <3> QED
      BY <1>2, <1>5, <2>2, <3>1, <3>2
  <2>3. CASE i \notin table
    BY <1>2, <2>1, <2>3 DEF EventsInv, PrunedByAge
  <2> QED
    BY <2>2, <2>3
<1>10. CursorGaps' /\ PageGaps'
  BY <1>4, <1>8 DEF EventsInv, CursorGaps, PageGaps, Streaming
<1>11. PageDense'
  BY <1>2, <1>4 DEF EventsInv, PageDense
<1>12. PageComplete' /\ NoLostSignal'
  <2>1. \A r \in Readers : Following(r)' \subseteq Following(r)
    BY <1>2, <1>4 DEF Following
  <2> QED
    BY <1>4, <2>1 DEF EventsInv, PageComplete, NoLostSignal
<1>13. GapsAnnounced'
  <2>1. \A r \in Readers : late[r] \subseteq late'[r]
    BY <1>3
  <2> QED
    BY <1>2, <1>4, <2>1 DEF EventsInv, GapsAnnounced
<1> QED
  BY <1>7, <1>9, <1>10, <1>11, <1>12, <1>13 DEF EventsInv

-----------------------------------------------------------------------------
(* The handler *)

\* Nothing of the table changes, and nothing that excuses a missing event.
LEMMA TableKept ==
    ASSUME EventsInv, UNCHANGED <<last, table, jobOf, gone, late>>
    PROVE  /\ PrunedByAge'
           /\ \A r \in Readers : \A i \in 1 .. last : Excused(r, i)' <=> Excused(r, i)
  BY DEF EventsInv, PrunedByAge, Excused

LEMMA SubscribeKeeps ==
    ASSUME EventsInv, NEW r \in Readers, Subscribe(r)
    PROVE  EventsInv'
<1> USE DEF Subscribe, At, tableVars
<1>1. EventsTypeOK'
  BY DEF EventsInv, EventsTypeOK, HandlerStages
<1>2. /\ place' = [place EXCEPT ![r] = "window"] /\ place[r] = "off"
      /\ \A q \in Readers : place'[q] = IF q = r THEN "window" ELSE place[q]
      /\ \A q \in Readers : q # r => signal'[q] = signal[q]
  BY DEF EventsInv, EventsTypeOK
<1>3. CursorGaps' /\ PageGaps'
  BY <1>2, TableKept DEF EventsInv, CursorGaps, PageGaps, Streaming
<1>4. PageDense'
  BY <1>2 DEF EventsInv, PageDense
<1>5. PageComplete' /\ NoLostSignal'
  BY <1>2 DEF EventsInv, PageComplete, NoLostSignal, Following
<1>6. GapsAnnounced'
  BY DEF EventsInv, GapsAnnounced
<1> QED
  BY <1>1, <1>3, <1>4, <1>5, <1>6, TableKept DEF EventsInv

\* A cursor the window accepts, and the watermark, have nothing missing behind
\* them but what deleted jobs leave.
LEMMA WindowIsClosed ==
    ASSUME EventsInv, NEW c \in Nat, c > 0, c = LastID \/ ~Outside(c),
           NEW i \in 1 .. last, i > c
    PROVE  i \in table \/ jobOf[i] \in gone
<1>0. EventsTypeOK
  BY DEF EventsInv
<1>1. last \in Nat /\ i \in Nat /\ table \in SUBSET (1 .. last)
  BY <1>0, EventTypes
<1>2. table # {}
  BY <1>0, <1>1, WindowEnds DEF Outside
<1>3. FirstID \in table /\ LastID \in table /\ FirstID <= LastID
  BY <1>0, <1>2, WindowEnds
<1>4. FirstID \in Nat /\ FirstID > 0 /\ LastID \in Nat
  BY <1>1, <1>3
<1>5. FirstID <= i
  BY <1>1, <1>3, <1>4 DEF Outside
<1> QED
  BY <1>3, <1>5 DEF EventsInv, PrunedByAge

LEMMA WindowKeeps ==
    ASSUME EventsInv, NEW r \in Readers, Window(r)
    PROVE  EventsInv'
<1>0. EventsTypeOK
  BY DEF EventsInv
<1>1. /\ place[r] = "window" /\ place' = [place EXCEPT ![r] = "read"]
      /\ UNCHANGED <<last, table, jobOf, gone, unpublished, signal, batch, more, late>>
      /\ known' = [known EXCEPT ![r] = TRUE]
  BY DEF Window, At, tableVars
<1>2. \A q \in Readers : place'[q] = IF q = r THEN "read" ELSE place[q]
  BY <1>0, <1>1 DEF EventsTypeOK
<1>3. last \in Nat /\ after[r] \in Nat /\ after[r] \in 0 .. last /\ LastID \in 0 .. last
  BY <1>0, EventTypes, WindowEnds
<1>4. \E c \in 0 .. last : after' = [after EXCEPT ![r] = c] /\ (c = LastID \/ ~Outside(c))
  <2>1. CASE UNCHANGED after /\ ~Outside(after[r])
    <3>1. after' = [after EXCEPT ![r] = after[r]]
      BY <1>0, <2>1 DEF EventsTypeOK
    <3> QED
      BY <1>3, <2>1, <3>1
  <2>2. CASE after' = [after EXCEPT ![r] = LastID]
    BY <1>3, <2>2
  <2> QED
    BY <2>1, <2>2 DEF Window
<1>5. after \in [Readers -> 0 .. last]
  BY <1>0 DEF EventsTypeOK
<1>6. PICK c \in 0 .. last : after' = [after EXCEPT ![r] = c] /\ (c = LastID \/ ~Outside(c))
  BY <1>4
<1>7. \A q \in Readers : after'[q] = IF q = r THEN c ELSE after[q]
  BY <1>5, <1>6
<1>8. missed' \in [Readers -> SUBSET (1 .. last)] /\ \A q \in Readers : missed'[q] \subseteq missed[q]
  BY <1>0 DEF Window, EventsTypeOK
<1>9. EventsTypeOK'
  <2>1. after' \in [Readers -> 0 .. last]
    BY <1>5, <1>6
  <2>2. place' \in [Readers -> HandlerStages] /\ known' \in [Readers -> BOOLEAN]
    BY <1>0, <1>1 DEF EventsTypeOK, HandlerStages
  <2> QED
    BY <1>0, <1>1, <1>8, <2>1, <2>2 DEF EventsTypeOK
<1>10. \A q \in Readers : \A i \in 1 .. last : Excused(q, i)' <=> Excused(q, i)
  BY <1>1, TableKept
<1>11. CursorGaps'
  <2> SUFFICES ASSUME NEW q \in Readers, Streaming(q)', after'[q] > 0, NEW i \in 1 .. last, i > after'[q]
               PROVE  Excused(q, i)'
    BY <1>1 DEF CursorGaps
  <2>1. CASE q = r
    <3>1. c \in Nat /\ c > 0 /\ i > c
      BY <1>3, <1>7, <2>1
    <3>2. i \in table \/ jobOf[i] \in gone
      BY <1>6, <3>1, WindowIsClosed
    <3> QED
      BY <1>10, <3>2 DEF Excused
  <2>2. CASE q # r
    <3>1. Streaming(q) /\ after[q] = after'[q]
      BY <1>2, <1>7, <2>2 DEF Streaming
    <3> QED
      BY <1>10, <3>1 DEF EventsInv, CursorGaps
  <2> QED
    BY <2>1, <2>2
<1>12. PageGaps'
  BY <1>1, <1>2, <1>10 DEF EventsInv, PageGaps
<1>13. batch[r] = {}
  BY <1>1 DEF EventsInv, PageDense
<1>14. PageDense'
  BY <1>1, <1>2, <1>7, <1>13 DEF EventsInv, PageDense
<1>15. PageComplete' /\ NoLostSignal'
  <2>1. \A q \in Readers : q # r => Following(q)' = Following(q)
    BY <1>1, <1>7 DEF Following
  <2> QED
    BY <1>1, <1>2, <2>1 DEF EventsInv, PageComplete, NoLostSignal
<1>16. GapsAnnounced'
  BY <1>1, <1>8 DEF EventsInv, GapsAnnounced
<1> QED
  BY <1>1, <1>9, <1>11, <1>12, <1>14, <1>15, <1>16, TableKept DEF EventsInv

LEMMA ReadKeeps ==
    ASSUME EventsInv, NEW r \in Readers, Read(r)
    PROVE  EventsInv'
<1>0. EventsTypeOK
  BY DEF EventsInv
<1>1. /\ place[r] = "read" /\ place' = [place EXCEPT ![r] = "write"]
      /\ UNCHANGED <<last, table, jobOf, gone, unpublished, signal, known, after, missed, late>>
      /\ batch' = [batch EXCEPT ![r] = Page(r)]
      /\ more' = [more EXCEPT ![r] = Cardinality(Page(r)) = Batch]
  BY DEF Read, At, tableVars
<1>2. PICK P : P = Page(r)
  OBVIOUS
<1>3. /\ P \subseteq Following(r) /\ Following(r) \subseteq table /\ P \subseteq 1 .. last
      /\ \A e \in Following(r) : e > after[r]
      /\ last \in Nat /\ after[r] \in Nat
  BY <1>0, <1>2, FollowingTypes
<1>4. \A e \in P, i \in Following(r) : i < e => i \in P
  BY <1>0, <1>2, PageHasNoHoles
<1>5. \A q \in Readers : /\ place'[q] = IF q = r THEN "write" ELSE place[q]
                         /\ batch'[q] = IF q = r THEN P ELSE batch[q]
  BY <1>0, <1>1, <1>2 DEF EventsTypeOK
<1>6. /\ \A q \in Readers : q # r => more'[q] = more[q]
      /\ ~more'[r] => P = Following(r)
  <2>1. \A q \in Readers : q # r => more'[q] = more[q]
    BY <1>0, <1>1 DEF EventsTypeOK
  <2>2. more'[r] = (Cardinality(P) = Batch)
    BY <1>0, <1>1, <1>2 DEF EventsTypeOK
  <2>3. Cardinality(P) # Batch => P = Following(r)
    BY <1>0, <1>2, ShortPageIsAll
  <2> QED
    BY <2>1, <2>2, <2>3
<1>7. EventsTypeOK'
  <2>1. batch' \in [Readers -> SUBSET (1 .. last)]
    BY <1>0, <1>1, <1>2, <1>3 DEF EventsTypeOK
  <2>2. place' \in [Readers -> HandlerStages]
    BY <1>0, <1>1 DEF EventsTypeOK, HandlerStages
  <2>3. more' \in [Readers -> BOOLEAN]
    <3>1. (Cardinality(Page(r)) = Batch) \in BOOLEAN
      OBVIOUS
    <3> QED
      BY <1>0, <1>1, <3>1 DEF EventsTypeOK
  <2> QED
    BY <1>0, <1>1, <2>1, <2>2, <2>3 DEF EventsTypeOK
<1>8. \A q \in Readers : \A i \in 1 .. last : Excused(q, i)' <=> Excused(q, i)
  BY <1>1, TableKept
<1>9. CursorGaps'
  <2>1. \A q \in Readers : Streaming(q)' => Streaming(q)
    BY <1>1, <1>5 DEF Streaming
  <2> QED
    BY <1>1, <1>8, <2>1 DEF EventsInv, CursorGaps
<1>10. PageGaps'
  <2> SUFFICES ASSUME NEW q \in Readers, place'[q] = "write",
                      NEW e \in batch'[q], NEW i \in 1 .. last, i > e
               PROVE  Excused(q, i)'
    BY <1>1 DEF PageGaps
  <2>1. CASE q = r
    <3>1. e \in table /\ e \in 1 .. last
      BY <1>3, <1>5, <2>1
    <3>2. e <= i
      BY <1>3, <3>1
    <3> QED
      BY <1>8, <3>1, <3>2 DEF EventsInv, PrunedByAge, Excused
  <2>2. CASE q # r
    BY <1>5, <1>8, <2>2 DEF EventsInv, PageGaps
  <2> QED
    BY <2>1, <2>2
<1>11. PageDense'
  <2>1. \A i \in table : i > after[r] => i \in Following(r)
    BY DEF Following
  <2>2. /\ \A e \in P : e > after[r]
        /\ \A e \in P, i \in table : i > after[r] /\ i < e => i \in P
    BY <1>3, <1>4, <2>1
  <2> SUFFICES ASSUME NEW q \in Readers
               PROVE  /\ batch'[q] # {} => place'[q] = "write"
                      /\ \A e \in batch'[q] : e > after[q]
                      /\ \A e \in batch'[q], i \in table : i > after[q] /\ i < e => i \in batch'[q]
    BY <1>1 DEF PageDense
  <2>3. CASE q = r
    BY <1>5, <2>2, <2>3
  <2>4. CASE q # r
    BY <1>5, <2>4 DEF EventsInv, PageDense
  <2> QED
    BY <2>3, <2>4
<1>12. PageComplete' /\ NoLostSignal'
  <2>1. \A q \in Readers : Following(q)' = Following(q)
    BY <1>1 DEF Following
  <2>2. PageComplete'
    BY <1>1, <1>5, <1>6, <2>1 DEF EventsInv, PageComplete
  <2>3. NoLostSignal'
    BY <1>1, <1>5, <2>1 DEF EventsInv, NoLostSignal
  <2> QED
    BY <2>2, <2>3
<1>13. GapsAnnounced'
  BY <1>1 DEF EventsInv, GapsAnnounced
<1> QED
  BY <1>1, <1>7, <1>9, <1>10, <1>11, <1>12, <1>13, TableKept DEF EventsInv

\* An event the cursor goes past is not in the table, or it would be in the
\* page; so what is missing before it is excused already.
LEMMA WriteKeeps ==
    ASSUME EventsInv, NEW r \in Readers, NEW e \in Ids, Write(r, e)
    PROVE  EventsInv'
<1>0. EventsTypeOK
  BY DEF EventsInv
<1>1. /\ place[r] = "write" /\ e \in batch[r] /\ \A f \in batch[r] : e <= f
      /\ batch' = [batch EXCEPT ![r] = @ \ {e}]
      /\ missed' = [missed EXCEPT ![r] = @ \cup {i \in after[r] + 1 .. e - 1 : after[r] > 0}]
      /\ after' = [after EXCEPT ![r] = e]
      /\ UNCHANGED <<last, table, jobOf, gone, unpublished, place, signal, known, more, late>>
  BY DEF Write, tableVars
<1>2. /\ last \in Nat /\ e \in 1 .. last /\ e \in Nat /\ after[r] \in Nat
      /\ batch[r] \in SUBSET (1 .. last) /\ table \in SUBSET (1 .. last)
      /\ missed[r] \in SUBSET (1 .. last)
  BY <1>0, <1>1, EventTypes
<1>3. e > after[r] /\ \A f \in batch[r], i \in table : i > after[r] /\ i < f => i \in batch[r]
  BY <1>1 DEF EventsInv, PageDense
<1>4. PICK M : M = {i \in after[r] + 1 .. e - 1 : after[r] > 0}
  OBVIOUS
<1>5. \A i \in M : i \in 1 .. last /\ i > after[r] /\ i < e /\ after[r] > 0
  BY <1>2, <1>4
<1>6. after \in [Readers -> 0 .. last] /\ batch \in [Readers -> SUBSET (1 .. last)]
      /\ missed \in [Readers -> SUBSET (1 .. last)]
  BY <1>0 DEF EventsTypeOK
<1>7. \A q \in Readers : /\ after'[q] = IF q = r THEN e ELSE after[q]
                         /\ batch'[q] = IF q = r THEN batch[r] \ {e} ELSE batch[q]
                         /\ missed'[q] = IF q = r THEN missed[r] \cup M ELSE missed[q]
  BY <1>1, <1>4, <1>6
<1>8. EventsTypeOK'
  <2>1. after' \in [Readers -> 0 .. last]
    <3>1. e \in 0 .. last
      BY <1>2
    <3> QED
      BY <1>1, <1>6, <3>1
  <2>2. batch' \in [Readers -> SUBSET (1 .. last)]
    BY <1>1, <1>6
  <2>3. missed' \in [Readers -> SUBSET (1 .. last)]
    <3>1. missed[r] \cup M \in SUBSET (1 .. last)
      BY <1>2, <1>5
    <3> QED
      BY <1>1, <1>4, <1>6, <3>1
  <2> QED
    BY <1>0, <1>1, <2>1, <2>2, <2>3 DEF EventsTypeOK
<1>9. \A q \in Readers : \A i \in 1 .. last : Excused(q, i)' <=> Excused(q, i)
  BY <1>1, TableKept
<1>10. Streaming(r) /\ \A q \in Readers : Streaming(q)' <=> Streaming(q)
  BY <1>1 DEF Streaming
<1>11. CursorGaps'
  <2> SUFFICES ASSUME NEW q \in Readers, Streaming(q)', after'[q] > 0, NEW i \in 1 .. last, i > after'[q]
               PROVE  Excused(q, i)'
    BY <1>1 DEF CursorGaps
  <2>1. CASE q = r
    BY <1>1, <1>7, <1>9, <2>1 DEF EventsInv, PageGaps
  <2>2. CASE q # r
    BY <1>7, <1>9, <1>10, <2>2 DEF EventsInv, CursorGaps
  <2> QED
    BY <2>1, <2>2
<1>12. PageGaps'
  <2>1. \A q \in Readers : batch'[q] \subseteq batch[q]
    BY <1>7
  <2> QED
    BY <1>1, <1>9, <2>1 DEF EventsInv, PageGaps
<1>13. PageDense'
  <2> SUFFICES ASSUME NEW q \in Readers
               PROVE  /\ batch'[q] # {} => place[q] = "write"
                      /\ \A f \in batch'[q] : f > after'[q]
                      /\ \A f \in batch'[q], i \in table : i > after'[q] /\ i < f => i \in batch'[q]
    BY <1>1 DEF PageDense
  <2>1. CASE q = r
    <3>1. \A f \in batch[r] \ {e} : f > e
      BY <1>1, <1>2
    <3>2. \A f \in batch[r] \ {e}, i \in table : i > e /\ i < f => i \in batch[r] \ {e}
      <4> SUFFICES ASSUME NEW f \in batch[r] \ {e}, NEW i \in table, i > e, i < f
                   PROVE  i \in batch[r] \ {e}
        OBVIOUS
      <4>1. i \in Nat /\ i > after[r] /\ i # e
        BY <1>2, <1>3
      <4> QED
        BY <1>3, <4>1
    <3> QED
      BY <1>1, <1>7, <2>1, <3>1, <3>2
  <2>2. CASE q # r
    BY <1>7, <2>2 DEF EventsInv, PageDense
  <2> QED
    BY <2>1, <2>2
<1>14. PageComplete' /\ NoLostSignal'
  <2>1. \A q \in Readers : q # r => Following(q)' = Following(q)
    BY <1>1, <1>7 DEF Following
  <2>2. Following(r)' \subseteq Following(r) \ {e}
    <3> SUFFICES ASSUME NEW i \in table, i > e PROVE i > after[r] /\ i # e
      BY <1>1, <1>7 DEF Following
    <3> QED
      BY <1>2, <1>3
  <2>3. PageComplete'
    BY <1>1, <1>7, <2>1, <2>2 DEF EventsInv, PageComplete
  <2>4. NoLostSignal'
    BY <1>1, <2>1 DEF EventsInv, NoLostSignal
  <2> QED
    BY <2>3, <2>4
<1>15. GapsAnnounced'
  <2>1. ASSUME NEW i \in M PROVE jobOf[i] \in gone \/ i \in late[r]
    <3>1. i \in 1 .. last /\ i > after[r] /\ i < e /\ after[r] > 0
      BY <1>5
    <3>2. i \notin table
      BY <1>1, <1>2, <1>3, <3>1
    <3> QED
      BY <1>10, <3>1, <3>2 DEF EventsInv, CursorGaps, Excused
  <2> QED
    BY <1>1, <1>7, <2>1 DEF EventsInv, GapsAnnounced
<1> QED
  BY <1>1, <1>8, <1>11, <1>12, <1>13, <1>14, <1>15, TableKept DEF EventsInv

\* The handler waits only after a page that was not cut off.
LEMMA WrittenKeeps ==
    ASSUME EventsInv, NEW r \in Readers, Written(r)
    PROVE  EventsInv'
<1>0. EventsTypeOK
  BY DEF EventsInv
<1>1. /\ place[r] = "write" /\ batch[r] = {}
      /\ more' = [more EXCEPT ![r] = FALSE]
      /\ place' = [place EXCEPT ![r] = IF more[r] THEN "read" ELSE "wait"]
      /\ UNCHANGED <<last, table, jobOf, gone, unpublished, signal, known, after, batch, missed, late>>
  BY DEF Written, At, tableVars
<1>2. \A q \in Readers : /\ q # r => place'[q] = place[q] /\ more'[q] = more[q]
                         /\ q = r => place'[q] \in {"read", "wait"}
                         /\ q = r /\ more[r] => place'[q] = "read"
  BY <1>0, <1>1 DEF EventsTypeOK
<1>3. EventsTypeOK'
  BY <1>0, <1>1 DEF EventsTypeOK, HandlerStages
<1>4. \A q \in Readers : Streaming(q)' => Streaming(q)
  BY <1>1, <1>2 DEF Streaming
<1>5. \A q \in Readers : Following(q)' = Following(q)
  BY <1>1 DEF Following
<1>6. CursorGaps' /\ PageGaps'
  <2>1. \A q \in Readers : \A i \in 1 .. last : Excused(q, i)' <=> Excused(q, i)
    BY <1>1, TableKept
  <2>2. CursorGaps'
    BY <1>1, <1>4, <2>1 DEF EventsInv, CursorGaps
  <2>3. PageGaps'
    BY <1>1, <1>2, <2>1 DEF EventsInv, PageGaps
  <2> QED
    BY <2>2, <2>3
<1>7. PageDense'
  BY <1>1, <1>2 DEF EventsInv, PageDense
<1>8. PageComplete'
  BY <1>1, <1>2, <1>5 DEF EventsInv, PageComplete
<1>9. NoLostSignal'
  <2> SUFFICES ASSUME NEW q \in Readers, place'[q] = "wait", ~signal[q]
               PROVE  Following(q) \subseteq unpublished
    BY <1>1, <1>5 DEF NoLostSignal
  <2>1. CASE q = r
    <3>1. ~more[r]
      BY <1>2, <2>1
    <3> QED
      BY <1>1, <2>1, <3>1 DEF EventsInv, PageComplete
  <2>2. CASE q # r
    BY <1>2, <2>2 DEF EventsInv, NoLostSignal
  <2> QED
    BY <2>1, <2>2
<1>10. GapsAnnounced'
  BY <1>1 DEF EventsInv, GapsAnnounced
<1> QED
  BY <1>1, <1>3, <1>6, <1>7, <1>8, <1>9, <1>10, TableKept DEF EventsInv

\* A handler that wakes, by signal or by heartbeat, reads again.
LEMMA WakeKeeps ==
    ASSUME EventsInv, NEW r \in Readers, WakeHandler(r) \/ Heartbeat(r)
    PROVE  EventsInv'
<1>0. EventsTypeOK
  BY DEF EventsInv
<1>1. /\ place[r] = "wait" /\ place' = [place EXCEPT ![r] = "read"]
      /\ signal' = signal \/ signal' = [signal EXCEPT ![r] = FALSE]
      /\ UNCHANGED <<last, table, jobOf, gone, unpublished, known, after, batch, more, missed, late>>
  BY DEF WakeHandler, Heartbeat, At, tableVars
<1>2. \A q \in Readers : /\ place'[q] = IF q = r THEN "read" ELSE place[q]
                         /\ q # r => signal'[q] = signal[q]
  BY <1>0, <1>1 DEF EventsTypeOK
<1>3. EventsTypeOK'
  BY <1>0, <1>1 DEF EventsTypeOK, HandlerStages
<1>4. \A q \in Readers : Streaming(q)' => Streaming(q)
  BY <1>1, <1>2 DEF Streaming
<1>5. CursorGaps' /\ PageGaps'
  <2>1. \A q \in Readers : \A i \in 1 .. last : Excused(q, i)' <=> Excused(q, i)
    BY <1>1, TableKept
  <2>2. CursorGaps'
    BY <1>1, <1>4, <2>1 DEF EventsInv, CursorGaps
  <2>3. PageGaps'
    BY <1>1, <1>2, <2>1 DEF EventsInv, PageGaps
  <2> QED
    BY <2>2, <2>3
<1>6. PageDense'
  BY <1>1, <1>2 DEF EventsInv, PageDense
<1>7. PageComplete' /\ NoLostSignal'
  <2>1. \A q \in Readers : Following(q)' = Following(q)
    BY <1>1 DEF Following
  <2> QED
    BY <1>1, <1>2, <2>1 DEF EventsInv, PageComplete, NoLostSignal
<1>8. GapsAnnounced'
  BY <1>1 DEF EventsInv, GapsAnnounced
<1> QED
  BY <1>1, <1>3, <1>5, <1>6, <1>7, <1>8, TableKept DEF EventsInv

LEMMA LeaveKeeps ==
    ASSUME EventsInv, NEW r \in Readers, ClientLeaves(r)
    PROVE  EventsInv'
<1>0. EventsTypeOK
  BY DEF EventsInv
<1>1. /\ place' = [place EXCEPT ![r] = "off"]
      /\ signal' = [signal EXCEPT ![r] = FALSE]
      /\ batch' = [batch EXCEPT ![r] = {}]
      /\ more' = [more EXCEPT ![r] = FALSE]
      /\ UNCHANGED <<last, table, jobOf, gone, unpublished, known, after, missed, late>>
  BY DEF ClientLeaves, At, tableVars
<1>2. \A q \in Readers : /\ place'[q] = IF q = r THEN "off" ELSE place[q]
                         /\ batch'[q] = IF q = r THEN {} ELSE batch[q]
                         /\ q # r => signal'[q] = signal[q] /\ more'[q] = more[q]
  BY <1>0, <1>1 DEF EventsTypeOK
<1>3. EventsTypeOK'
  BY <1>0, <1>1 DEF EventsTypeOK, HandlerStages
<1>4. \A q \in Readers : Streaming(q)' => Streaming(q) /\ q # r
  BY <1>2 DEF Streaming
<1>5. CursorGaps' /\ PageGaps'
  <2>1. \A q \in Readers : \A i \in 1 .. last : Excused(q, i)' <=> Excused(q, i)
    BY <1>1, TableKept
  <2>2. CursorGaps'
    BY <1>1, <1>4, <2>1 DEF EventsInv, CursorGaps
  <2>3. PageGaps'
    BY <1>1, <1>2, <2>1 DEF EventsInv, PageGaps
  <2> QED
    BY <2>2, <2>3
<1>6. PageDense'
  <2> SUFFICES ASSUME NEW q \in Readers
               PROVE  /\ batch'[q] # {} => place'[q] = "write"
                      /\ \A e \in batch'[q] : e > after[q]
                      /\ \A e \in batch'[q], i \in table : i > after[q] /\ i < e => i \in batch'[q]
    BY <1>1 DEF PageDense
  <2>1. CASE q = r
    BY <1>2, <2>1
  <2>2. CASE q # r
    BY <1>2, <2>2 DEF EventsInv, PageDense
  <2> QED
    BY <2>1, <2>2
<1>7. PageComplete' /\ NoLostSignal'
  <2>1. \A q \in Readers : Following(q)' = Following(q)
    BY <1>1 DEF Following
  <2>2. ASSUME NEW q \in Readers, place'[q] # "off"
        PROVE  /\ place'[q] = place[q] /\ batch'[q] = batch[q]
               /\ signal'[q] = signal[q] /\ more'[q] = more[q]
    BY <1>2, <2>2
  <2>3. ASSUME NEW q \in Readers, place'[q] = "write", ~more'[q], ~signal'[q]
        PROVE  Following(q) \subseteq batch'[q] \cup unpublished
    BY <2>2, <2>3 DEF EventsInv, PageComplete
  <2>4. ASSUME NEW q \in Readers, place'[q] = "wait", ~signal'[q]
        PROVE  Following(q) \subseteq unpublished
    BY <2>2, <2>4 DEF EventsInv, NoLostSignal
  <2> QED
    BY <1>1, <2>1, <2>3, <2>4 DEF PageComplete, NoLostSignal
<1>8. GapsAnnounced'
  BY <1>1 DEF EventsInv, GapsAnnounced
<1> QED
  BY <1>1, <1>3, <1>5, <1>6, <1>7, <1>8, TableKept DEF EventsInv

LEMMA DeathKeeps ==
    ASSUME EventsInv, ServerDies
    PROVE  EventsInv'
<1> USE DEF ServerDies
<1>1. EventsTypeOK'
  BY DEF EventsInv, EventsTypeOK, HandlerStages
<1>2. CursorGaps' /\ PageGaps' /\ PageComplete' /\ NoLostSignal'
  BY DEF CursorGaps, PageGaps, PageComplete, NoLostSignal, Streaming
<1>3. PageDense' /\ GapsAnnounced'
  BY DEF EventsInv, PageDense, GapsAnnounced
<1> QED
  BY <1>1, <1>2, <1>3, TableKept DEF EventsInv

-----------------------------------------------------------------------------
(* The theorems *)

LEMMA EventsStart == EventsInit => EventsInv
<1> SUFFICES ASSUME EventsInit PROVE EventsInv
  OBVIOUS
<1> USE DEF EventsInit
<1>1. EventsTypeOK
  BY BatchAssumption DEF EventsTypeOK, HandlerStages
<1>2. PrunedByAge /\ CursorGaps /\ PageGaps /\ PageComplete /\ NoLostSignal
  BY DEF PrunedByAge, CursorGaps, PageGaps, PageComplete, NoLostSignal, Streaming
<1>3. PageDense /\ GapsAnnounced
  BY DEF PageDense, GapsAnnounced
<1> QED
  BY <1>1, <1>2, <1>3 DEF EventsInv

LEMMA EventsStep == EventsInv /\ [EventsNext]_eventVars => EventsInv'
<1> SUFFICES ASSUME EventsInv, [EventsNext]_eventVars PROVE EventsInv'
  OBVIOUS
<1>1. CASE UNCHANGED eventVars
  BY <1>1 DEF eventVars, EventsInv, EventsTypeOK, PrunedByAge, CursorGaps, PageGaps, PageDense,
     PageComplete, NoLostSignal, GapsAnnounced, Streaming, Following, Excused
<1>2. CASE \E j \in Jobs : Commit(j)
  BY <1>2, CommitKeeps
<1>3. CASE \E e \in Ids : Publish(e)
  BY <1>3, PublishKeeps
<1>4. CASE Prune
  BY <1>4, PruneKeeps
<1>5. CASE ServerDies
  BY <1>5, DeathKeeps
<1>6. ASSUME NEW r \in Readers, Subscribe(r) \/ HandlerStep(r) \/ Heartbeat(r) \/ ClientLeaves(r)
      PROVE  EventsInv'
  BY <1>6, SubscribeKeeps, WindowKeeps, ReadKeeps, WrittenKeeps, WakeKeeps, WriteKeeps, LeaveKeeps
     DEF HandlerStep
<1> QED
  BY <1>1, <1>2, <1>3, <1>4, <1>5, <1>6 DEF EventsNext

LEMMA EventsInvHolds == EventsSpec => []EventsInv
  BY EventsStart, EventsStep, PTL DEF EventsSpec

\* Cursors, pages and signals have their types: a cursor is never ahead of the
\* last id the table gave, whatever retention deletes and whenever the server dies.
THEOREM EventsTypesHold == EventsSpec => []EventsTypeOK
<1>1. EventsInv => EventsTypeOK
  BY DEF EventsInv
<1> QED
  BY <1>1, EventsInvHolds, PTL

\* A reader misses no event without being told: the handler of the stream, which
\* subscribes before it reads and stops reading only after a short page, never
\* waits while something is stored that nobody will announce; and a client that
\* comes back with a cursor is told of every gap but those that deleted jobs
\* leave and those that retention makes while its stream is open.  For every
\* number of readers and events and every page size.
THEOREM NothingIsMissed == EventsSpec => []NothingMissed
<1>1. EventsInv => NothingMissed
  BY DEF EventsInv, NothingMissed
<1> QED
  BY <1>1, EventsInvHolds, PTL

=============================================================================
