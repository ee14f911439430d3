---------------------------- MODULE OperationLease ----------------------------
(***************************************************************************)
(* The room operation lease of internal/operationlease/service.go, one     *)
(* room: every statement of the service names its row by room_id, so rooms *)
(* do not interact.                                                        *)
(*                                                                         *)
(* The service reads its clock first and talks to the database after, so a *)
(* decision can be based on an old reading.  The SELECT of acquireOnce and *)
(* the INSERT or UPDATE that follows it are separate steps here: the code  *)
(* repeats its conditions in the WHERE clause and retries, so it does not  *)
(* depend on the isolation of the transaction, and neither does the model. *)
(* (models/models.go opens the database with _txlock=immediate, which      *)
(* allows fewer interleavings.)                                            *)
(***************************************************************************)
EXTENDS Naturals

CONSTANTS Callers,      \* operations that want the room
          Keys,         \* operation keys
          KeyOf,        \* KeyOf[c]: the operation key c uses
          TTL,          \* lease duration, in clock ticks
          MaxClock,     \* bound: the last instant of a behaviour
          MaxGrants,    \* bound: no call of Acquire starts after this many leases
          NoRow,        \* the room has no row yet
          NoLease       \* the caller has no Lease value

\* acquireOnce is tried three times.
Attempts == 3

\* LeaseID, OperationKey, FencingToken and ExpiresAt; the RoomID is the room's.
Lease == [id : Nat, key : Keys, token : Nat, exp : Nat]

ASSUME KeyAssumption == KeyOf \in [Callers -> Keys]
ASSUME ReservedAssumption == NoRow \notin Lease /\ NoLease \notin Lease
ASSUME TimeAssumption == TTL \in Nat \ {0} /\ MaxClock \in Nat /\ MaxGrants \in Nat

VARIABLES
    clock,    \* time.Now()
    row,      \* the leaseRecord of the room
    issued,   \* number of lease ids stored so far (uuid.NewString gives a fresh one)
    step,     \* step[c]: where c is in its call
    at,       \* at[c]: the clock reading c's call works with
    seen,     \* seen[c]: the fencing token c's SELECT returned
    attempt,  \* attempt[c]: attempts of acquireOnce that asked for a retry
    lease     \* lease[c]: the Lease value c was given

leaseVars == <<clock, row, issued, step, at, seen, attempt, lease>>

Steps == {"idle", "stamp", "select", "create", "update",
          "held", "renew", "lost", "release"}

LeaseTypeOK ==
    /\ clock \in Nat
    /\ row \in Lease \cup {NoRow}
    /\ issued \in Nat
    /\ step \in [Callers -> Steps]
    /\ at \in [Callers -> Nat]
    /\ seen \in [Callers -> Nat]
    /\ attempt \in [Callers -> 0..Attempts]
    /\ lease \in [Callers -> Lease \cup {NoLease}]

LeaseInit ==
    /\ clock = 0
    /\ row = NoRow
    /\ issued = 0
    /\ step = [c \in Callers |-> "idle"]
    /\ at = [c \in Callers |-> 0]
    /\ seen = [c \in Callers |-> 0]
    /\ attempt = [c \in Callers |-> 0]
    /\ lease = [c \in Callers |-> NoLease]

-----------------------------------------------------------------------------
\* c's call returns: its local variables are gone.
Return(c, s) ==
    /\ step' = [step EXCEPT ![c] = s]
    /\ at' = [at EXCEPT ![c] = 0]
    /\ seen' = [seen EXCEPT ![c] = 0]
    /\ attempt' = [attempt EXCEPT ![c] = 0]

Tick ==
    /\ clock < MaxClock
    /\ clock' = clock + 1
    /\ UNCHANGED <<row, issued, step, at, seen, attempt, lease>>

\* Acquire is called: the loop of attempts starts.
BeginAcquire(c) ==
    /\ step[c] = "idle"
    /\ issued < MaxGrants
    /\ step' = [step EXCEPT ![c] = "stamp"]
    /\ UNCHANGED <<clock, row, issued, at, seen, attempt, lease>>

\* now := s.now(), before the transaction begins.
Stamp(c) ==
    /\ step[c] = "stamp"
    /\ at' = [at EXCEPT ![c] = clock]
    /\ step' = [step EXCEPT ![c] = "select"]
    /\ UNCHANGED <<clock, row, issued, seen, attempt, lease>>

\* The SELECT, and what follows from it without another statement.
SelectAbsent(c) ==
    /\ step[c] = "select"
    /\ row = NoRow
    /\ step' = [step EXCEPT ![c] = "create"]
    /\ UNCHANGED <<clock, row, issued, at, seen, attempt, lease>>

\* A live lease of another operation: ErrBusy.
SelectBusy(c) ==
    /\ step[c] = "select"
    /\ row # NoRow
    /\ row.exp > at[c]
    /\ row.key # KeyOf[c]
    /\ Return(c, "idle")
    /\ UNCHANGED <<clock, row, issued, lease>>

\* A live lease of the same operation key: it is handed out again as it is.
SelectSame(c) ==
    /\ step[c] = "select"
    /\ row # NoRow
    /\ row.exp > at[c]
    /\ row.key = KeyOf[c]
    /\ lease' = [lease EXCEPT ![c] = row]
    /\ Return(c, "held")
    /\ UNCHANGED <<clock, row, issued>>

SelectExpired(c) ==
    /\ step[c] = "select"
    /\ row # NoRow
    /\ row.exp <= at[c]
    /\ seen' = [seen EXCEPT ![c] = row.token]
    /\ step' = [step EXCEPT ![c] = "update"]
    /\ UNCHANGED <<clock, row, issued, at, attempt, lease>>

\* The statement of this attempt found the row changed: try again, at most
\* Attempts times, then ErrBusy.
Retry(c) ==
    /\ \/ /\ attempt[c] + 1 < Attempts
          /\ step' = [step EXCEPT ![c] = "stamp"]
          /\ attempt' = [attempt EXCEPT ![c] = @ + 1]
          /\ UNCHANGED <<at, seen>>
       \/ /\ attempt[c] + 1 >= Attempts
          /\ Return(c, "idle")
    /\ UNCHANGED <<row, issued, lease>>

\* The row and the caller's copy become a new lease with token t.
Store(c, t) ==
    /\ row' = [id |-> issued + 1, key |-> KeyOf[c], token |-> t, exp |-> at[c] + TTL]
    /\ issued' = issued + 1
    /\ lease' = [lease EXCEPT ![c] = row']
    /\ Return(c, "held")

\* INSERT: the primary key lets one of two racing callers through; an error of
\* any kind asks for a retry.
Create(c) ==
    /\ step[c] = "create"
    /\ \/ row = NoRow /\ Store(c, 1)
       \/ Retry(c)
    /\ UNCHANGED clock

\* Mutants of Update: the expiry is not checked again; the token is not
\* advanced; the token is not compared.
UpdateUnchecked(c) ==
    /\ step[c] = "update"
    /\ \/ row.token = seen[c] /\ Store(c, seen[c] + 1)
       \/ row.token # seen[c] /\ Retry(c)
    /\ UNCHANGED clock

UpdateSameToken(c) ==
    /\ step[c] = "update"
    /\ \/ row.token = seen[c] /\ row.exp <= at[c] /\ Store(c, seen[c])
       \/ ~(row.token = seen[c] /\ row.exp <= at[c]) /\ Retry(c)
    /\ UNCHANGED clock

UpdateUnfenced(c) ==
    /\ step[c] = "update"
    /\ \/ row.exp <= at[c] /\ Store(c, seen[c] + 1)
       \/ row.exp > at[c] /\ Retry(c)
    /\ UNCHANGED clock

\* UPDATE ... WHERE fencing_token = seen AND expires_at <= now.
Update(c) ==
    /\ step[c] = "update"
    /\ \/ row.token = seen[c] /\ row.exp <= at[c] /\ Store(c, seen[c] + 1)
       \/ ~(row.token = seen[c] /\ row.exp <= at[c]) /\ Retry(c)
    /\ UNCHANGED clock

\* Renew: the clock is read, then the UPDATE runs.
BeginRenew(c) ==
    /\ step[c] = "held"
    /\ at' = [at EXCEPT ![c] = clock]
    /\ step' = [step EXCEPT ![c] = "renew"]
    /\ UNCHANGED <<clock, row, issued, seen, attempt, lease>>

\* The row is still the caller's lease.
Owns(c) ==
    /\ row # NoRow /\ lease[c] # NoLease
    /\ row.id = lease[c].id /\ row.token = lease[c].token /\ row.key = lease[c].key

RenewHeld(c) ==
    /\ step[c] = "renew"
    /\ Owns(c)
    /\ row.exp > at[c]
    /\ row' = [row EXCEPT !.exp = at[c] + TTL]
    /\ lease' = [lease EXCEPT ![c] = [@ EXCEPT !.exp = at[c] + TTL]]
    /\ Return(c, "held")
    /\ UNCHANGED <<clock, issued>>

\* ErrLeaseLost: the operation stops; its deferred Release still runs.
RenewLost(c) ==
    /\ step[c] = "renew"
    /\ ~(Owns(c) /\ row.exp > at[c])
    /\ Return(c, "lost")
    /\ UNCHANGED <<clock, row, issued, lease>>

\* The statement reports an error, before or after it took effect.
RenewFails(c) ==
    /\ step[c] = "renew"
    /\ \/ UNCHANGED row
       \/ Owns(c) /\ row.exp > at[c] /\ row' = [row EXCEPT !.exp = at[c] + TTL]
    /\ Return(c, "lost")
    /\ UNCHANGED <<clock, issued, lease>>

\* Release: the clock is read, then the UPDATE runs.
BeginRelease(c) ==
    /\ step[c] \in {"held", "lost"}
    /\ at' = [at EXCEPT ![c] = clock]
    /\ step' = [step EXCEPT ![c] = "release"]
    /\ UNCHANGED <<clock, row, issued, seen, attempt, lease>>

\* It ends the lease if that is still the row's, expired or not.
Release(c) ==
    /\ step[c] = "release"
    /\ row' = IF Owns(c) THEN [row EXCEPT !.exp = at[c]] ELSE row
    /\ lease' = [lease EXCEPT ![c] = NoLease]
    /\ Return(c, "idle")
    /\ UNCHANGED <<clock, issued>>

\* The caller dies, or a commit reports an error after it took effect: the row
\* stays, nobody releases it.
Abandon(c) ==
    /\ step[c] # "idle"
    /\ lease' = [lease EXCEPT ![c] = NoLease]
    /\ Return(c, "idle")
    /\ UNCHANGED <<clock, row, issued>>

LeaseStep(c) ==
    \/ BeginAcquire(c) \/ Stamp(c)
    \/ SelectAbsent(c) \/ SelectBusy(c) \/ SelectSame(c) \/ SelectExpired(c)
    \/ Create(c) \/ Update(c)
    \/ BeginRenew(c) \/ RenewHeld(c) \/ RenewLost(c) \/ RenewFails(c)
    \/ BeginRelease(c) \/ Release(c) \/ Abandon(c)

LeaseNext == Tick \/ \E c \in Callers : LeaseStep(c)

LeaseSpec == LeaseInit /\ [][LeaseNext]_leaseVars

-----------------------------------------------------------------------------
(* Properties *)

\* No other operation uses c's key (most callers make a fresh one).
Exclusive(c) == \A d \in Callers : KeyOf[d] = KeyOf[c] => d = c

\* A Lease value that has not run out is the room's lease: an operation with a
\* key of its own that compares its copy with the clock is right to go on,
\* whatever the others' clock readings and statements did.
LeaseCurrent ==
    \A c \in Callers : Exclusive(c) /\ lease[c] # NoLease /\ lease[c].exp > clock
        => row # NoRow /\ row.id = lease[c].id

\* The fencing token identifies the lease: two holders with the same token,
\* or a holder and the row, have the same lease id and operation key.
TokenIdentifiesLease ==
    \A c \in Callers : lease[c] # NoLease =>
        /\ row # NoRow /\ lease[c].token <= row.token
        /\ lease[c].token = row.token => lease[c].id = row.id /\ lease[c].key = row.key
        /\ \A d \in Callers : lease[d] # NoLease /\ lease[d].token = lease[c].token
              => lease[d].id = lease[c].id /\ lease[d].key = lease[c].key

\* The room changes hands only after its lease has expired, and with the next
\* fencing token; between two hand-overs only the holder moves the expiry.
NeverStolen ==
    [][row # NoRow /\ row' # row =>
         \/ row'.id = row.id /\ row'.token = row.token /\ row'.key = row.key
         \/ row.exp <= clock /\ row'.token = row.token + 1 /\ row'.id > row.id]_leaseVars
=============================================================================
