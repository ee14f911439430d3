------------------------------ MODULE RoomMutex ------------------------------
(***************************************************************************)
(* What internal/roomops promises its callers: a room is owned by at most  *)
(* one operation at a time, and it changes hands only by being given up    *)
(* first.  No channels, no reference counts, no contexts.                  *)
(***************************************************************************)
CONSTANTS Callers, Rooms, NoOne

VARIABLE owner

MutexTypeOK == owner \in [Rooms -> Callers \cup {NoOne}]

MutexInit == owner = [r \in Rooms |-> NoOne]

Lock(c, r) ==
    /\ owner[r] = NoOne
    /\ owner' = [owner EXCEPT ![r] = c]

Unlock(c, r) ==
    /\ owner[r] = c
    /\ owner' = [owner EXCEPT ![r] = NoOne]

MutexNext == \E c \in Callers, r \in Rooms : Lock(c, r) \/ Unlock(c, r)

MutexSpec == MutexInit /\ [][MutexNext]_owner
=============================================================================
