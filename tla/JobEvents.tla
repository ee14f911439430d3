------------------------------ MODULE JobEvents ------------------------------
(***************************************************************************)
(* The event stream of the job service: the event table and the Broker     *)
(* (internal/jobs), and the SSE handler of internal/httpapi/jobs_handler.  *)
(*                                                                         *)
(* Every transaction of the store that changes a job appends an event and  *)
(* commits; the service calls Publish after the commit, which puts a       *)
(* signal into the one-slot channel of every subscriber.  A reader         *)
(* subscribes, compares its cursor with the window of stored events, and   *)
(* then reads and waits in turns.  Retention deletes old events, and all   *)
(* events of the jobs it deletes, whoever has read them.                   *)
(*                                                                         *)
(* A client keeps its cursor when the connection breaks.  Events written   *)
(* to a broken connection are as good as not written, since the handler's  *)
(* own cursor ends with it; so writing and receiving is one step here.     *)
(***************************************************************************)
EXTENDS Integers, FiniteSets

CONSTANTS Readers,    \* clients of the stream
          Jobs,       \* jobs that have events
          Batch,      \* the limit of EventsAfter
          MaxEvents,  \* bound: events of a behaviour
          NoJob       \* the job of an event that does not exist yet

ASSUME BatchAssumption == Batch \in Nat \ {0} /\ MaxEvents \in Nat
ASSUME NoJobAssumption == NoJob \notin Jobs

VARIABLES
    last,         \* the id AUTO_INCREMENT gave last; ids are never used again
    table,        \* ids of the stored events
    jobOf,        \* jobOf[e]: the job of event e
    gone,         \* jobs retention has deleted
    unpublished,  \* committed events whose Publish is still to come
    place,        \* place[r]: where r's handler is
    signal,       \* signal[r]: r's channel has a signal
    known,        \* known[r]: the client has a cursor
    after,        \* after[r]: the cursor
    batch,        \* batch[r]: events read and not yet written
    more,         \* more[r]: the last read was as long as the limit
    missed,       \* history: events r's cursor, once it named an event, went past
    late          \* history: events deleted while r's stream was open

eventVars == <<last, table, jobOf, gone, unpublished, place, signal, known, after,
               batch, more, missed, late>>
tableVars == <<last, table, jobOf, gone, unpublished>>

Ids == 1 .. MaxEvents
HandlerStages == {"off", "window", "read", "write", "wait"}

EventsTypeOK ==
    /\ last \in 0 .. MaxEvents /\ table \subseteq 1 .. last
    /\ jobOf \in [Ids -> Jobs \cup {NoJob}] /\ gone \subseteq Jobs
    /\ unpublished \subseteq 1 .. last
    /\ place \in [Readers -> HandlerStages]
    /\ signal \in [Readers -> BOOLEAN] /\ known \in [Readers -> BOOLEAN]
    /\ after \in [Readers -> 0 .. last]
    /\ batch \in [Readers -> SUBSET (1 .. last)] /\ more \in [Readers -> BOOLEAN]
    /\ missed \in [Readers -> SUBSET (1 .. last)]
    /\ late \in [Readers -> SUBSET (1 .. last)]

EventsInit ==
    /\ last = 0 /\ table = {} /\ gone = {} /\ unpublished = {}
    /\ jobOf = [e \in Ids |-> NoJob]
    /\ place = [r \in Readers |-> "off"]
    /\ signal = [r \in Readers |-> FALSE] /\ known = [r \in Readers |-> FALSE]
    /\ after = [r \in Readers |-> 0]
    /\ batch = [r \in Readers |-> {}] /\ more = [r \in Readers |-> FALSE]
    /\ missed = [r \in Readers |-> {}] /\ late = [r \in Readers |-> {}]

At(r, s) == place' = [place EXCEPT ![r] = s]
Streaming(r) == place[r] \in {"read", "write", "wait"}

-----------------------------------------------------------------------------
(* The store and the broker *)

\* A transaction of the store commits its event (commitEvent).
Commit(j) ==
    /\ last < MaxEvents /\ j \notin gone
    /\ last' = last + 1
    /\ table' = table \cup {last + 1}
    /\ jobOf' = [jobOf EXCEPT ![last + 1] = j]
    /\ unpublished' = unpublished \cup {last + 1}
    /\ UNCHANGED <<gone, place, signal, known, after, batch, more, missed, late>>

\* Mutant of Publish: the channels have no slot, only a waiting handler gets the signal.
PublishWaiting(e) ==
    /\ e \in unpublished
    /\ unpublished' = unpublished \ {e}
    /\ signal' = [r \in Readers |-> signal[r] \/ place[r] = "wait"]
    /\ UNCHANGED <<last, table, jobOf, gone, place, known, after, batch, more, missed, late>>

\* The goroutine that committed e calls Publish: a full channel is skipped.
Publish(e) ==
    /\ e \in unpublished
    /\ unpublished' = unpublished \ {e}
    /\ signal' = [r \in Readers |-> place[r] # "off"]
    /\ UNCHANGED <<last, table, jobOf, gone, place, known, after, batch, more, missed, late>>

\* Prune: events up to an id, by age and by number, and the events of the ended
\* jobs it deletes, in one transaction.
Prune ==
    \E id \in 0 .. last, js \in SUBSET (Jobs \ gone) :
       LET dropped == {e \in table : e <= id \/ jobOf[e] \in js}
       IN  /\ dropped # {}
           /\ table' = table \ dropped
           /\ gone' = gone \cup js
           /\ late' = [r \in Readers |-> IF Streaming(r) THEN late[r] \cup dropped ELSE late[r]]
           /\ UNCHANGED <<last, jobOf, unpublished, place, signal, known, after, batch,
                          more, missed>>

-----------------------------------------------------------------------------
(* The handler of one reader *)

\* The client connects, with the cursor it has.  The handler subscribes first.
Subscribe(r) ==
    /\ place[r] = "off"
    /\ signal' = [signal EXCEPT ![r] = FALSE]
    /\ At(r, "window")
    /\ UNCHANGED <<tableVars, known, after, batch, more, missed, late>>

\* EventWindow: the smallest stored id, 0 if there is none, and the largest.
FirstID == IF table = {} THEN 0 ELSE CHOOSE e \in table : \A f \in table : e <= f

\* Mutant of LastID: the watermark is the id the next event will get.
LastIDNext == last + 1

LastID == IF table = {} THEN 0 ELSE CHOOSE e \in table : \A f \in table : f <= e

\* Mutant of Outside: a cursor beyond the window is taken as it is.
OutsideBelow(cursor) == FirstID > 0 /\ cursor < FirstID - 1

\* The stored events do not continue the cursor.
Outside(cursor) == cursor > LastID \/ (FirstID > 0 /\ cursor < FirstID - 1)

\* The client is sent job.cursor: its watermark and whether to start afresh.
\* A client that starts afresh reads the jobs themselves.
Window(r) ==
    /\ place[r] = "window"
    /\ \/ /\ ~known[r] \/ Outside(after[r])
          /\ after' = [after EXCEPT ![r] = LastID]
          /\ missed' = [missed EXCEPT ![r] = {}]
       \/ /\ known[r] /\ ~Outside(after[r])
          /\ UNCHANGED <<after, missed>>
    /\ known' = [known EXCEPT ![r] = TRUE]
    /\ At(r, "read")
    /\ UNCHANGED <<tableVars, signal, batch, more, late>>

\* EventsAfter: the first Batch events after the cursor.
Following(r) == {e \in table : e > after[r]}
Page(r) == {e \in Following(r) : Cardinality({f \in Following(r) : f < e}) < Batch}

Read(r) ==
    /\ place[r] = "read"
    /\ batch' = [batch EXCEPT ![r] = Page(r)]
    /\ more' = [more EXCEPT ![r] = Cardinality(Page(r)) = Batch]
    /\ At(r, "write")
    /\ UNCHANGED <<tableVars, signal, known, after, missed, late>>

\* The events are written one by one, in the order of their ids.
Write(r, e) ==
    /\ place[r] = "write"
    /\ e \in batch[r] /\ \A f \in batch[r] : e <= f
    /\ batch' = [batch EXCEPT ![r] = @ \ {e}]
    /\ missed' = [missed EXCEPT ![r] = @ \cup {i \in after[r] + 1 .. e - 1 : after[r] > 0}]
    /\ after' = [after EXCEPT ![r] = e]
    /\ UNCHANGED <<tableVars, place, signal, known, more, late>>

\* After a full page the handler reads on, else it waits.
Written(r) ==
    /\ place[r] = "write" /\ batch[r] = {}
    /\ more' = [more EXCEPT ![r] = FALSE]
    /\ At(r, IF more[r] THEN "read" ELSE "wait")
    /\ UNCHANGED <<tableVars, signal, known, after, batch, missed, late>>

\* The signal case of the select.
WakeHandler(r) ==
    /\ place[r] = "wait" /\ signal[r]
    /\ signal' = [signal EXCEPT ![r] = FALSE]
    /\ At(r, "read")
    /\ UNCHANGED <<tableVars, known, after, batch, more, missed, late>>

\* The heartbeat case: the loop reads again.
Heartbeat(r) ==
    /\ place[r] = "wait"
    /\ At(r, "read")
    /\ UNCHANGED <<tableVars, signal, known, after, batch, more, missed, late>>

\* The connection breaks or a read fails: the handler unsubscribes.
ClientLeaves(r) ==
    /\ place[r] # "off"
    /\ At(r, "off")
    /\ signal' = [signal EXCEPT ![r] = FALSE]
    /\ batch' = [batch EXCEPT ![r] = {}]
    /\ more' = [more EXCEPT ![r] = FALSE]
    /\ UNCHANGED <<tableVars, known, after, missed, late>>

\* The process dies: nobody publishes what was committed, all streams end.
ServerDies ==
    /\ unpublished' = {}
    /\ place' = [r \in Readers |-> "off"]
    /\ signal' = [r \in Readers |-> FALSE]
    /\ batch' = [r \in Readers |-> {}]
    /\ more' = [r \in Readers |-> FALSE]
    /\ UNCHANGED <<last, table, jobOf, gone, known, after, missed, late>>

-----------------------------------------------------------------------------
HandlerStep(r) ==
    \/ Window(r) \/ Read(r) \/ Written(r) \/ WakeHandler(r)
    \/ \E e \in Ids : Write(r, e)

EventsNext ==
    \/ \E j \in Jobs : Commit(j)
    \/ \E e \in Ids : Publish(e)
    \/ Prune \/ ServerDies
    \/ \E r \in Readers : Subscribe(r) \/ HandlerStep(r) \/ Heartbeat(r) \/ ClientLeaves(r)

EventsSpec == EventsInit /\ [][EventsNext]_eventVars

\* Goroutines run.  Nothing is asked of heartbeats: signals must do alone.
EventsFairness ==
    /\ \A e \in Ids : WF_eventVars(Publish(e))
    /\ \A r \in Readers : WF_eventVars(HandlerStep(r))

FairEventsSpec == EventsSpec /\ EventsFairness

-----------------------------------------------------------------------------
(* Properties *)

\* A handler that waits without a signal has read everything but what is about
\* to be published: dropping a signal for a full channel loses nothing.
NoLostSignal ==
    \A r \in Readers : place[r] = "wait" /\ ~signal[r] => Following(r) \subseteq unpublished

\* A client whose cursor names an event, and that was not told to start afresh,
\* got every later event up to its cursor, but for events of deleted jobs and
\* events deleted while its stream was open: the comparison with the window
\* finds every other gap.  (With cursor 0 it cannot: a client that has received
\* nothing and resumes while the table is empty again is not told.)
GapsAnnounced ==
    \A r \in Readers : \A e \in missed[r] : jobOf[e] \in gone \/ e \in late[r]

\* A reader misses no event without being told, whether it sleeps or comes back.
NothingMissed == NoLostSignal /\ GapsAnnounced

\* The cursor of a client that stays connected reaches every stored event.
EventsArrive ==
    \A r \in Readers, e \in Ids :
        Streaming(r) /\ e \in table ~> after[r] >= e \/ e \notin table \/ ~Streaming(r)
=============================================================================
