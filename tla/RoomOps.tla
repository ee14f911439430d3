------------------------------- MODULE RoomOps -------------------------------
(***************************************************************************)
(* The in-process room lock of internal/roomops/coordinator.go.            *)
(*                                                                         *)
(* A process-wide table maps a room to a lockEntry: a channel of capacity  *)
(* one that holds the room's token, and a count of the goroutines that     *)
(* still refer to the entry.  An entry is created by the first caller that *)
(* needs it and dropped from the table by the last one, so two entries for *)
(* one room - and so two tokens - must never be in use together.           *)
(*                                                                         *)
(* A caller is one goroutine running one operation: it acquires a set of   *)
(* rooms in sorted order (AcquireMany; Acquire and TryAcquire are the      *)
(* one-room case), may nest further acquisitions under the context it got  *)
(* back, and releases everything in reverse order.  Its context can be     *)
(* cancelled at any point.  Every critical section of shared.mu, every     *)
(* channel operation and every ctx.Err() test is a step of its own.        *)
(***************************************************************************)
EXTENDS Integers, FiniteSets

CONSTANTS Callers,  \* operations (goroutines with their context)
          Rooms,    \* lock keys, numbered in the order sort.Strings gives them
          Entries,  \* addresses of lockEntry values
          NoEntry,  \* the nil *lockEntry
          NoOne     \* the owner of a free room, in the abstract lock

ASSUME CallersAssumption == IsFiniteSet(Callers)
ASSUME RoomsAssumption == Rooms \subseteq Int /\ IsFiniteSet(Rooms)
ASSUME NoEntryAssumption == NoEntry \notin Entries
ASSUME NoOneAssumption == NoOne \notin Callers

VARIABLES
    locks,      \* shared.locks: the table, NoEntry where the room has no key
    token,      \* token[e]: number of tokens in e's channel
    refs,       \* refs[e]: e.refs
    entry,      \* entry[c][r]: the *lockEntry c's call for r captured
    stage,      \* stage[c][r]: how far c's call for r has come
    phase,      \* phase[c]: what the operation as a whole is doing
    todo,       \* todo[c]: rooms AcquireMany has still to take
    mode,       \* mode[c]: "wait" for Acquire, "try" for TryAcquire
    cancelled   \* cancelled[c]: ctx.Err() # nil

vars == <<locks, token, refs, entry, stage, phase, todo, mode, cancelled>>

Stages == {"none",     \* c does not refer to an entry of r
           "waiting",  \* counted in refs, at the select of lines 91-108
           "taken",    \* token received, ctx.Err() of line 109 not yet tested
           "held",     \* acquire returned, r is in the context's leaseMarker
           "unref",    \* token given back or never received, reference pending
           "done"}     \* reference dropped; the release closure still exists

Phases == {"idle", "acquire", "held", "release"}

\* The buffer of lockEntry.token: a send on a full channel blocks.
Capacity == 1

TypeOK ==
    /\ locks \in [Rooms -> Entries \cup {NoEntry}]
    /\ token \in [Entries -> Nat]
    /\ refs \in [Entries -> Int]
    /\ entry \in [Callers -> [Rooms -> Entries \cup {NoEntry}]]
    /\ stage \in [Callers -> [Rooms -> Stages]]
    /\ phase \in [Callers -> Phases]
    /\ todo \in [Callers -> SUBSET Rooms]
    /\ mode \in [Callers -> {"wait", "try"}]
    /\ cancelled \in [Callers -> BOOLEAN]

Init ==
    /\ locks = [r \in Rooms |-> NoEntry]
    /\ token = [e \in Entries |-> 0]
    /\ refs = [e \in Entries |-> 0]
    /\ entry = [c \in Callers |-> [r \in Rooms |-> NoEntry]]
    /\ stage = [c \in Callers |-> [r \in Rooms |-> "none"]]
    /\ phase = [c \in Callers |-> "idle"]
    /\ todo = [c \in Callers |-> {}]
    /\ mode = [c \in Callers |-> "wait"]
    /\ cancelled = [c \in Callers |-> FALSE]

-----------------------------------------------------------------------------
(* Views of the state *)

Marker(c) == {r \in Rooms : stage[c][r] = "held"}

\* No call of c for a single room is in progress.
Settled(c) == \A r \in Rooms : stage[c][r] \in {"none", "held", "done"}

\* c is counted in the refs of r's entry.
Refers(c, r) == stage[c][r] \in {"waiting", "taken", "held", "unref"}

\* c's context entitles it to r, or c holds r's token on its way there.
HasToken(c, r) == stage[c][r] \in {"taken", "held"}

\* An address no table slot and no goroutine refers to: what make can return.
Unused(e) ==
    /\ \A r \in Rooms : locks[r] # e
    /\ \A c \in Callers, r \in Rooms : entry[c][r] # e

-----------------------------------------------------------------------------
(* Starting an operation *)

\* A goroutine calls AcquireMany (or Acquire, or NewLocker(...).Lock) for S.
BeginWait(c) ==
    /\ phase[c] = "idle"
    /\ \E S \in SUBSET Rooms : todo' = [todo EXCEPT ![c] = S]
    /\ mode' = [mode EXCEPT ![c] = "wait"]
    /\ phase' = [phase EXCEPT ![c] = "acquire"]
    /\ UNCHANGED <<locks, token, refs, entry, stage, cancelled>>

\* A goroutine calls TryAcquire for one room.
BeginTry(c) ==
    /\ phase[c] = "idle"
    /\ \E r \in Rooms : todo' = [todo EXCEPT ![c] = {r}]
    /\ mode' = [mode EXCEPT ![c] = "try"]
    /\ phase' = [phase EXCEPT ![c] = "acquire"]
    /\ UNCHANGED <<locks, token, refs, entry, stage, cancelled>>

\* The operation calls Acquire again with the context it got back.  Rooms it
\* already holds are no-ops; callers take further keys only above the ones they
\* hold (a workshop key is taken under a room key, never the other way round).
Nest(c) ==
    /\ phase[c] = "held"
    /\ mode[c] = "wait"
    /\ \E S \in SUBSET Rooms :
         /\ S # {}
         /\ \A r \in S \ Marker(c) : \A h \in Marker(c) : h < r
         /\ todo' = [todo EXCEPT ![c] = S]
    /\ phase' = [phase EXCEPT ![c] = "acquire"]
    /\ UNCHANGED <<locks, token, refs, entry, stage, mode, cancelled>>

\* The request's context is cancelled or times out.
Cancel(c) ==
    /\ phase[c] # "idle"
    /\ ~cancelled[c]
    /\ cancelled' = [cancelled EXCEPT ![c] = TRUE]
    /\ UNCHANGED <<locks, token, refs, entry, stage, phase, todo, mode>>

-----------------------------------------------------------------------------
(* acquire(ctx, r, wait) *)

\* Mutant: AcquireMany without sort.Strings.
NextRoomUnsorted(c, r) ==
    /\ phase[c] = "acquire"
    /\ Settled(c)
    /\ r \in todo[c]

\* The next room of the sorted loop of AcquireMany.
NextRoom(c, r) ==
    /\ phase[c] = "acquire"
    /\ Settled(c)
    /\ r \in todo[c]
    /\ \A s \in todo[c] : r <= s

\* acquire failed: AcquireMany and the operation's defers release what is held.
Fail(c) ==
    /\ phase' = [phase EXCEPT ![c] = "release"]
    /\ todo' = [todo EXCEPT ![c] = {}]

EnterCancelled(c) ==
    /\ \E r \in Rooms : NextRoom(c, r)
    /\ cancelled[c]
    /\ Fail(c)
    /\ UNCHANGED <<locks, token, refs, entry, stage, mode, cancelled>>

\* The room is in the context's leaseMarker: a no-op release is returned.
Reenter(c, r) ==
    /\ NextRoom(c, r)
    /\ ~cancelled[c]
    /\ r \in Marker(c)
    /\ todo' = [todo EXCEPT ![c] = @ \ {r}]
    /\ UNCHANGED <<locks, token, refs, entry, stage, phase, mode, cancelled>>

\* Under shared.mu: find the room's entry or make one with its token, and
\* count the reference.
Register(c, r) ==
    /\ NextRoom(c, r)
    /\ ~cancelled[c]
    /\ r \notin Marker(c)
    /\ \/ /\ locks[r] # NoEntry
          /\ refs' = [refs EXCEPT ![locks[r]] = @ + 1]
          /\ entry' = [entry EXCEPT ![c] = [@ EXCEPT ![r] = locks[r]]]
          /\ UNCHANGED <<locks, token>>
       \/ /\ locks[r] = NoEntry
          /\ \E e \in Entries :
               /\ Unused(e)
               /\ locks' = [locks EXCEPT ![r] = e]
               /\ token' = [token EXCEPT ![e] = 1]
               /\ refs' = [refs EXCEPT ![e] = 1]
               /\ entry' = [entry EXCEPT ![c] = [@ EXCEPT ![r] = e]]
    /\ stage' = [stage EXCEPT ![c] = [@ EXCEPT ![r] = "waiting"]]
    /\ UNCHANGED <<phase, todo, mode, cancelled>>

\* The receive case of either select.
TakeToken(c, r) ==
    /\ stage[c][r] = "waiting"
    /\ token[entry[c][r]] > 0
    /\ token' = [token EXCEPT ![entry[c][r]] = @ - 1]
    /\ stage' = [stage EXCEPT ![c] = [@ EXCEPT ![r] = "taken"]]
    /\ UNCHANGED <<locks, refs, entry, phase, todo, mode, cancelled>>

\* Mutant: the early return forgets releaseReference.
WaitCancelledLeaks(c, r) ==
    /\ stage[c][r] = "waiting"
    /\ mode[c] = "wait"
    /\ cancelled[c]
    /\ stage' = [stage EXCEPT ![c] = [@ EXCEPT ![r] = "done"]]
    /\ Fail(c)
    /\ UNCHANGED <<locks, token, refs, entry, mode, cancelled>>

\* The ctx.Done() case of Acquire's select.
WaitCancelled(c, r) ==
    /\ stage[c][r] = "waiting"
    /\ mode[c] = "wait"
    /\ cancelled[c]
    /\ stage' = [stage EXCEPT ![c] = [@ EXCEPT ![r] = "unref"]]
    /\ Fail(c)
    /\ UNCHANGED <<locks, token, refs, entry, mode, cancelled>>

\* The default case of TryAcquire's select: ErrBusy (or ctx.Err()).
TryBusy(c, r) ==
    /\ stage[c][r] = "waiting"
    /\ mode[c] = "try"
    /\ token[entry[c][r]] = 0
    /\ stage' = [stage EXCEPT ![c] = [@ EXCEPT ![r] = "unref"]]
    /\ Fail(c)
    /\ UNCHANGED <<locks, token, refs, entry, mode, cancelled>>

\* The context was cancelled while the token arrived: it is sent back.
TakenCancelled(c, r) ==
    /\ stage[c][r] = "taken"
    /\ cancelled[c]
    /\ token[entry[c][r]] < Capacity
    /\ token' = [token EXCEPT ![entry[c][r]] = @ + 1]
    /\ stage' = [stage EXCEPT ![c] = [@ EXCEPT ![r] = "unref"]]
    /\ Fail(c)
    /\ UNCHANGED <<locks, refs, entry, mode, cancelled>>

\* acquire returns the context with r in its marker.
Granted(c, r) ==
    /\ stage[c][r] = "taken"
    /\ ~cancelled[c]
    /\ stage' = [stage EXCEPT ![c] = [@ EXCEPT ![r] = "held"]]
    /\ todo' = [todo EXCEPT ![c] = @ \ {r}]
    /\ UNCHANGED <<locks, token, refs, entry, phase, mode, cancelled>>

\* The loop of AcquireMany is done: the operation runs.
AllGranted(c) ==
    /\ phase[c] = "acquire"
    /\ Settled(c)
    /\ todo[c] = {}
    /\ phase' = [phase EXCEPT ![c] = "held"]
    /\ UNCHANGED <<locks, token, refs, entry, stage, todo, mode, cancelled>>

-----------------------------------------------------------------------------
(* Releasing *)

BeginRelease(c) ==
    /\ phase[c] = "held"
    /\ phase' = [phase EXCEPT ![c] = "release"]
    /\ UNCHANGED <<locks, token, refs, entry, stage, todo, mode, cancelled>>

\* First half of release: send the token.  Rooms go in reverse order.
ReturnToken(c, r) ==
    /\ phase[c] = "release"
    /\ Settled(c)
    /\ stage[c][r] = "held"
    /\ \A h \in Marker(c) : h <= r
    /\ token[entry[c][r]] < Capacity
    /\ token' = [token EXCEPT ![entry[c][r]] = @ + 1]
    /\ stage' = [stage EXCEPT ![c] = [@ EXCEPT ![r] = "unref"]]
    /\ UNCHANGED <<locks, refs, entry, phase, todo, mode, cancelled>>

\* releaseReference, under shared.mu.
ReleaseReference(c, r) ==
    /\ stage[c][r] = "unref"
    /\ LET e == entry[c][r] IN
         /\ refs' = [refs EXCEPT ![e] = @ - 1]
         /\ locks' = IF refs[e] = 1 /\ locks[r] = e
                     THEN [locks EXCEPT ![r] = NoEntry] ELSE locks
    /\ stage' = [stage EXCEPT ![c] = [@ EXCEPT ![r] = "done"]]
    /\ UNCHANGED <<token, entry, phase, todo, mode, cancelled>>

\* Mutant: release without sync.Once sends the token a second time.
RepeatReleaseTwice(c, r) ==
    /\ phase[c] = "release"
    /\ Settled(c)
    /\ stage[c][r] = "done"
    /\ token[entry[c][r]] < Capacity
    /\ token' = [token EXCEPT ![entry[c][r]] = @ + 1]
    /\ entry' = [entry EXCEPT ![c] = [@ EXCEPT ![r] = NoEntry]]
    /\ stage' = [stage EXCEPT ![c] = [@ EXCEPT ![r] = "none"]]
    /\ UNCHANGED <<locks, refs, phase, todo, mode, cancelled>>

\* The operation's deferred release runs after an explicit one (the agent gives
\* a shard up as soon as its process is launched): sync.Once makes it a no-op.
RepeatRelease(c, r) ==
    /\ phase[c] = "release"
    /\ Settled(c)
    /\ stage[c][r] = "done"
    /\ entry' = [entry EXCEPT ![c] = [@ EXCEPT ![r] = NoEntry]]
    /\ stage' = [stage EXCEPT ![c] = [@ EXCEPT ![r] = "none"]]
    /\ UNCHANGED <<locks, token, refs, phase, todo, mode, cancelled>>

\* Everything is released and the goroutine ends.
EndRelease(c) ==
    /\ phase[c] = "release"
    /\ \A r \in Rooms : stage[c][r] = "none"
    /\ phase' = [phase EXCEPT ![c] = "idle"]
    /\ cancelled' = [cancelled EXCEPT ![c] = FALSE]
    /\ UNCHANGED <<locks, token, refs, entry, stage, todo, mode>>

-----------------------------------------------------------------------------
RoomStep(c, r) ==
    \/ Reenter(c, r)
    \/ Register(c, r)
    \/ TakeToken(c, r)
    \/ WaitCancelled(c, r)
    \/ TryBusy(c, r)
    \/ TakenCancelled(c, r)
    \/ Granted(c, r)
    \/ ReturnToken(c, r)
    \/ ReleaseReference(c, r)
    \/ RepeatRelease(c, r)

CallerStep(c) ==
    \/ BeginWait(c)
    \/ BeginTry(c)
    \/ Nest(c)
    \/ Cancel(c)
    \/ EnterCancelled(c)
    \/ AllGranted(c)
    \/ BeginRelease(c)
    \/ EndRelease(c)

Next == \E c \in Callers : CallerStep(c) \/ \E r \in Rooms : RoomStep(c, r)

Spec == Init /\ [][Next]_vars

\* A goroutine that can run does run; an operation that holds its rooms ends;
\* receivers of a Go channel are served in the order they arrived, so a caller
\* at the select is not passed over for ever.  Nobody is obliged to start an
\* operation, to nest one, or to cancel one.
Fairness ==
    \A c \in Callers :
      /\ WF_vars(EnterCancelled(c) \/ AllGranted(c) \/ EndRelease(c))
      /\ SF_vars(BeginRelease(c))
      /\ \A r \in Rooms :
           /\ WF_vars(Reenter(c, r) \/ Register(c, r))
           /\ WF_vars(TakenCancelled(c, r) \/ Granted(c, r))
           /\ WF_vars(ReturnToken(c, r) \/ ReleaseReference(c, r) \/ RepeatRelease(c, r))
           /\ WF_vars(WaitCancelled(c, r) \/ TryBusy(c, r))
           /\ SF_vars(TakeToken(c, r))

FairSpec == Spec /\ Fairness

-----------------------------------------------------------------------------
(* Properties *)

\* Two operations never own the same room: "Acquire serializes filesystem and
\* runtime mutations for one local room" (coordinator.go line 55), whatever
\* entries have been created and dropped and whoever was cancelled meanwhile.
MutualExclusion ==
    \A c, d \in Callers, r \in Rooms : c # d => ~(HasToken(c, r) /\ HasToken(d, r))

\* A goroutine that still counts on an entry counts on the table's entry: the
\* deletion in releaseReference never strands a waiter on a dropped channel
\* while a newcomer makes a second one.
EntryCurrent ==
    \A c \in Callers, r \in Rooms : 
        Refers(c, r) => entry[c][r] # NoEntry /\ locks[r] = entry[c][r]

\* The table holds an entry exactly as long as somebody refers to it, whichever
\* of the four ways out of acquire and release each of them took.
NoEntryLeak ==
    \A r \in Rooms : locks[r] # NoEntry =>
        refs[locks[r]] = Cardinality({c \in Callers : Refers(c, r)}) /\ refs[locks[r]] > 0

\* A room's token is in its channel or with the room's owner, never lost and
\* never doubled: a cancelled receiver sends it back, a second release does not
\* send it again, and so the send in release finds the channel empty and the
\* deferred release cannot block.
TokenConserved ==
    \A r \in Rooms : locks[r] # NoEntry =>
        token[locks[r]] = IF \E c \in Callers : HasToken(c, r) THEN 0 ELSE 1

\* The table of coordinator.go is exact however its entries were made, waited for,
\* given up and dropped.
TableExact == EntryCurrent /\ NoEntryLeak /\ TokenConserved

\* A goroutine that waits for a room gets it or gives up: no cycle of waits, no
\* token lost by a cancelled receiver, no room re-taken by its own holder.
WaitEnds ==
    \A c \in Callers, r \in Rooms :
        stage[c][r] = "waiting" ~> stage[c][r] # "waiting"

\* The room lock implements the abstract mutex: the owner of a room is the
\* operation that has its token.
roomOwner ==
    [r \in Rooms |-> IF \E c \in Callers : HasToken(c, r)
                     THEN CHOOSE c \in Callers : HasToken(c, r) ELSE NoOne]

Mutex == INSTANCE RoomMutex WITH owner <- roomOwner

\* Every step of the channel protocol takes a room, gives one up, or is
\* invisible: a room never passes from one owner to another directly.
ImplementsMutex == Mutex!MutexSpec
=============================================================================
