------------------------- MODULE OperationLeaseProofs -------------------------
(***************************************************************************)
(* Proofs about OperationLease for every set of callers and keys, every    *)
(* lease duration and every bound.                                         *)
(*                                                                         *)
(* LeaseInv says nothing of expiry.  OwnInv does, and only for operations  *)
(* with a key of their own: two operations under one key share a lease,    *)
(* and one of them releasing it ends the other's.                          *)
(***************************************************************************)
EXTENDS OperationLease, TLAPS

\* A clock reading is never ahead of the clock.
ReadingsPast == \A c \in Callers : at[c] <= clock

\* Token, id and the number of stored leases agree; without a row nobody has
\* a lease and nobody is about to update one.
RowCounts ==
    /\ row = NoRow => issued = 0 /\ \A c \in Callers : lease[c] = NoLease /\ step[c] # "update"
    /\ row # NoRow => row.id = issued /\ row.token = issued

CopyCounts == \A c \in Callers : lease[c] # NoLease => lease[c].id = lease[c].token

LeaseInv ==
    /\ LeaseTypeOK
    /\ ReadingsPast
    /\ RowCounts
    /\ CopyCounts
    /\ TokenIdentifiesLease

\* A copy has its caller's key.  If nobody else uses that key, the copy does not
\* outlive the row it was taken from, and once replaced it is over.
CopyOutlived ==
    \A c \in Callers : lease[c] # NoLease =>
        /\ lease[c].key = KeyOf[c]
        /\ Exclusive(c) /\ lease[c].token = row.token => lease[c].exp <= row.exp
        /\ Exclusive(c) /\ lease[c].token < row.token => lease[c].exp <= clock

\* No expiry is further away than one TTL, so a renewal never shortens.
WithinTTL ==
    /\ row # NoRow => row.exp <= clock + TTL
    /\ \A c \in Callers : lease[c] # NoLease =>
          /\ lease[c].exp <= clock + TTL
          /\ step[c] = "renew" => lease[c].exp <= at[c] + TTL

OwnInv == LeaseInv /\ CopyOutlived /\ WithinTTL

-----------------------------------------------------------------------------
\* What the row may become in one step.
LEMMA StoreTypes ==
    ASSUME NEW c \in Callers, NEW t \in Nat, LeaseTypeOK, Store(c, t), UNCHANGED clock
    PROVE  /\ row' \in Lease
           /\ row' = [id |-> issued + 1, key |-> KeyOf[c], token |-> t, exp |-> at[c] + TTL]
           /\ row' # NoRow
           /\ lease'[c] = row'
           /\ \A d \in Callers : d # c => lease'[d] = lease[d]
           /\ LeaseTypeOK'
<1>a. at[c] + TTL \in Nat /\ issued + 1 \in Nat /\ KeyOf[c] \in Keys
  BY KeyAssumption, TimeAssumption DEF LeaseTypeOK
<1>b. row' = [id |-> issued + 1, key |-> KeyOf[c], token |-> t, exp |-> at[c] + TTL]
  BY DEF Store
<1>1. row' \in Lease
  BY <1>a, <1>b DEF Lease
<1>2. issued' \in Nat /\ step' \in [Callers -> Steps] /\ at' \in [Callers -> Nat]
      /\ seen' \in [Callers -> Nat] /\ attempt' \in [Callers -> 0..Attempts]
  BY DEF Store, Return, LeaseTypeOK, Steps, Attempts
<1>3. lease' \in [Callers -> Lease \cup {NoLease}]
  BY <1>1 DEF Store, LeaseTypeOK
<1>4. clock' \in Nat
  BY DEF LeaseTypeOK
<1> QED
  BY <1>1, <1>2, <1>3, <1>4, <1>b, ReservedAssumption DEF Store, LeaseTypeOK

LEMMA ReturnTypes ==
    ASSUME NEW c \in Callers, NEW s \in Steps, LeaseTypeOK, Return(c, s)
    PROVE  /\ step' \in [Callers -> Steps] /\ at' \in [Callers -> Nat]
           /\ seen' \in [Callers -> Nat] /\ attempt' \in [Callers -> 0..Attempts]
  BY DEF Return, LeaseTypeOK, Attempts

LEMMA RetryTypes ==
    ASSUME NEW c \in Callers, LeaseTypeOK, Retry(c), UNCHANGED clock
    PROVE  LeaseTypeOK'
<1>1. CASE attempt[c] + 1 < Attempts /\ UNCHANGED <<at, seen>>
           /\ step' = [step EXCEPT ![c] = "stamp"] /\ attempt' = [attempt EXCEPT ![c] = @ + 1]
  BY <1>1 DEF Retry, LeaseTypeOK, Steps, Attempts
<1>2. CASE Return(c, "idle")
  <2>1. "idle" \in Steps
    BY DEF Steps
  <2> QED
    BY <1>2, <2>1, ReturnTypes DEF Retry, LeaseTypeOK
<1> QED
  BY <1>1, <1>2 DEF Retry

\* Moving the row's expiry keeps it a lease.
LEMMA RowExpiry ==
    ASSUME NEW c \in Callers, NEW e \in Nat, LeaseTypeOK, Owns(c)
    PROVE  /\ [row EXCEPT !.exp = e] \in Lease
           /\ [row EXCEPT !.exp = e] # NoRow
           /\ [lease[c] EXCEPT !.exp = e] \in Lease
<1>1. row \in Lease /\ lease[c] \in Lease
  BY DEF LeaseTypeOK, Owns
<1>2. [row EXCEPT !.exp = e] \in Lease /\ [lease[c] EXCEPT !.exp = e] \in Lease
  BY <1>1 DEF Lease
<1> QED
  BY <1>2, ReservedAssumption DEF LeaseTypeOK

LEMMA TypeStep ==
    ASSUME LeaseTypeOK, [LeaseNext]_leaseVars
    PROVE  LeaseTypeOK'
<1> USE DEF LeaseTypeOK
<1>0. CASE UNCHANGED leaseVars
  BY <1>0 DEF leaseVars
<1>1. CASE Tick
  BY <1>1 DEF Tick
<1>2. ASSUME NEW c \in Callers, LeaseStep(c)
      PROVE  LeaseTypeOK'
  <2>a. at[c] + TTL \in Nat /\ seen[c] + 1 \in Nat /\ 1 \in Nat /\ at[c] \in Nat /\ clock \in Nat
    BY TimeAssumption
  <2>b. {"idle", "held", "lost"} \subseteq Steps
    BY DEF Steps
  <2>1. CASE BeginAcquire(c) \/ Stamp(c) \/ SelectAbsent(c) \/ BeginRenew(c) \/ BeginRelease(c)
    BY <2>1 DEF BeginAcquire, Stamp, SelectAbsent, BeginRenew, BeginRelease, Steps
  <2>2. CASE SelectBusy(c) \/ RenewLost(c)
    BY <2>2, <2>b, ReturnTypes DEF SelectBusy, RenewLost
  <2>3. CASE SelectSame(c)
    BY <2>3, <2>b, ReturnTypes DEF SelectSame
  <2>4. CASE SelectExpired(c)
    <3>1. row.token \in Nat
      BY <2>4 DEF SelectExpired, Lease
    <3> QED
      BY <2>4, <3>1 DEF SelectExpired, Steps
  <2>5. CASE Create(c)
    <3>1. CASE Store(c, 1)
      BY <2>5, <3>1, <2>a, StoreTypes DEF Create
    <3>2. CASE Retry(c)
      BY <2>5, <3>2, RetryTypes DEF Create
    <3> QED
      BY <2>5, <3>1, <3>2 DEF Create
  <2>6. CASE Update(c)
    <3>1. CASE Store(c, seen[c] + 1)
      BY <2>6, <3>1, <2>a, StoreTypes DEF Update
    <3>2. CASE Retry(c)
      BY <2>6, <3>2, RetryTypes DEF Update
    <3> QED
      BY <2>6, <3>1, <3>2 DEF Update
  <2>7. CASE RenewHeld(c)
    <3>1. row' \in Lease /\ [lease[c] EXCEPT !.exp = at[c] + TTL] \in Lease
      BY <2>7, <2>a, RowExpiry DEF RenewHeld
    <3>2. step' \in [Callers -> Steps] /\ at' \in [Callers -> Nat]
          /\ seen' \in [Callers -> Nat] /\ attempt' \in [Callers -> 0..Attempts]
      BY <2>7, <2>b, ReturnTypes DEF RenewHeld
    <3> QED
      BY <2>7, <3>1, <3>2 DEF RenewHeld
  <2>8. CASE RenewFails(c)
    <3>1. row' \in Lease \cup {NoRow}
      BY <2>8, <2>a, RowExpiry DEF RenewFails
    <3> QED
      BY <2>8, <2>b, <3>1, ReturnTypes DEF RenewFails
  <2>9. CASE Release(c)
    <3>1. row' \in Lease \cup {NoRow}
      BY <2>9, <2>a, RowExpiry DEF Release
    <3> QED
      BY <2>9, <2>b, <3>1, ReturnTypes DEF Release
  <2>10. CASE Abandon(c)
    BY <2>10, <2>b, ReturnTypes DEF Abandon
  <2> QED
    BY <1>2, <2>1, <2>2, <2>3, <2>4, <2>5, <2>6, <2>7, <2>8, <2>9, <2>10 DEF LeaseStep
<1> QED
  BY <1>0, <1>1, <1>2 DEF LeaseNext

-----------------------------------------------------------------------------
\* Clock readings are taken from the clock, which only advances.
LEMMA ReadingsStep ==
    ASSUME LeaseTypeOK, ReadingsPast, [LeaseNext]_leaseVars
    PROVE  ReadingsPast'
<1> USE DEF LeaseTypeOK, ReadingsPast
<1>0. CASE UNCHANGED leaseVars
  BY <1>0 DEF leaseVars
<1>1. CASE Tick
  BY <1>1 DEF Tick
<1>2. ASSUME NEW c \in Callers, LeaseStep(c)
      PROVE  ReadingsPast'
  <2>1. clock' = clock
    BY <1>2 DEF LeaseStep, BeginAcquire, Stamp, SelectAbsent, SelectBusy, SelectSame,
       SelectExpired, Create, Update, BeginRenew, RenewHeld, RenewLost, RenewFails,
       BeginRelease, Release, Abandon
  <2>2. \/ at' = at
        \/ at' = [at EXCEPT ![c] = clock]
        \/ at' = [at EXCEPT ![c] = 0]
    BY <1>2 DEF LeaseStep, BeginAcquire, Stamp, SelectAbsent, SelectBusy, SelectSame,
       SelectExpired, Create, Update, BeginRenew, RenewHeld, RenewLost, RenewFails,
       BeginRelease, Release, Abandon, Retry, Store, Return
  <2> QED
    BY <2>1, <2>2
<1> QED
  BY <1>0, <1>1, <1>2 DEF LeaseNext

\* The ways a step of caller c can touch the row and the copies of it.
Kept(c) ==
    /\ row' = row /\ issued' = issued
    /\ \/ lease' = lease
       \/ lease' = [lease EXCEPT ![c] = NoLease]

Taken(c) ==
    /\ row # NoRow /\ row.key = KeyOf[c] /\ row' = row /\ issued' = issued
    /\ lease' = [lease EXCEPT ![c] = row]

Moved(c, e) ==
    /\ Owns(c) /\ row' = [row EXCEPT !.exp = e] /\ issued' = issued
    /\ \/ lease' = [lease EXCEPT ![c] = NoLease]
       \/ /\ step[c] = "renew" /\ e = at[c] + TTL
          /\ lease' = lease \/ lease' = [lease EXCEPT ![c] = [@ EXCEPT !.exp = e]]

Stored(c) ==
    /\ row # NoRow => row.exp <= at[c]
    /\ row' = [id |-> issued + 1, key |-> KeyOf[c], token |-> issued + 1, exp |-> at[c] + TTL]
    /\ issued' = issued + 1
    /\ lease' = [lease EXCEPT ![c] = row']

\* Every step of a caller is of one of these kinds.
LEMMA StepKinds ==
    ASSUME NEW c \in Callers, LeaseInv, LeaseStep(c)
    PROVE  /\ clock' = clock
           /\ Kept(c) \/ Taken(c) \/ Stored(c) \/ \E e \in {at[c], at[c] + TTL} : Moved(c, e)
<1>1. clock' = clock
  BY DEF LeaseStep, BeginAcquire, Stamp, SelectAbsent, SelectBusy, SelectSame,
     SelectExpired, Create, Update, BeginRenew, RenewHeld, RenewLost, RenewFails,
     BeginRelease, Release, Abandon
<1>2. CASE BeginAcquire(c) \/ Stamp(c) \/ SelectAbsent(c) \/ SelectBusy(c) \/ SelectExpired(c)
           \/ BeginRenew(c) \/ RenewLost(c) \/ BeginRelease(c) \/ Abandon(c)
  BY <1>1, <1>2 DEF Kept, BeginAcquire, Stamp, SelectAbsent, SelectBusy, SelectExpired,
     BeginRenew, RenewLost, BeginRelease, Abandon
<1>3. CASE SelectSame(c)
  BY <1>1, <1>3 DEF SelectSame, Taken
<1>4. CASE Create(c)
  BY <1>1, <1>4 DEF Create, Retry, Store, Kept, Stored, LeaseInv, RowCounts
<1>5. CASE Update(c)
  <2>1. row # NoRow /\ row.token = issued
    BY <1>5 DEF Update, LeaseInv, RowCounts
  <2> QED
    BY <1>1, <1>5, <2>1 DEF Update, Retry, Store, Kept, Stored
<1>6. CASE RenewHeld(c)
  BY <1>1, <1>6 DEF RenewHeld, Moved
<1>7. CASE RenewFails(c)
  BY <1>1, <1>7 DEF RenewFails, Moved, Kept
<1>8. CASE Release(c)
  BY <1>1, <1>8 DEF Release, Moved, Kept
<1> QED
  BY <1>2, <1>3, <1>4, <1>5, <1>6, <1>7, <1>8 DEF LeaseStep

\* Only a row that was read is updated.
LEMMA NoRowNoUpdate ==
    ASSUME NEW c \in Callers, LeaseInv, LeaseStep(c), row' = NoRow
    PROVE  \A d \in Callers : step'[d] # "update"
<1>1. row = NoRow
  <2>1. CASE Kept(c) \/ Taken(c)
    BY <2>1 DEF Kept, Taken
  <2>2. CASE Stored(c)
    <3>1. at[c] + TTL \in Nat /\ issued + 1 \in Nat /\ KeyOf[c] \in Keys
      BY KeyAssumption, TimeAssumption DEF LeaseInv, LeaseTypeOK
    <3>2. row' \in Lease
      BY <2>2, <3>1 DEF Stored, Lease
    <3> QED
      BY <3>2, ReservedAssumption
  <2>3. ASSUME NEW e \in {at[c], at[c] + TTL}, Moved(c, e)
        PROVE  FALSE
    <3>1. e \in Nat
      BY TimeAssumption DEF LeaseInv, LeaseTypeOK
    <3> QED
      BY <2>3, <3>1, RowExpiry DEF Moved, LeaseInv
  <2> QED
    BY <2>1, <2>2, <2>3, StepKinds
<1>2. \A d \in Callers : step[d] # "update"
  BY <1>1 DEF LeaseInv, RowCounts
<1>3. step \in [Callers -> Steps]
  BY DEF LeaseInv, LeaseTypeOK
<1> QED
  BY <1>1, <1>2, <1>3 DEF LeaseStep, BeginAcquire, Stamp, SelectAbsent, SelectBusy, SelectSame,
     SelectExpired, Create, Update, BeginRenew, RenewHeld, RenewLost, RenewFails,
     BeginRelease, Release, Abandon, Retry, Store, Return

LEMMA CountsStep ==
    ASSUME NEW c \in Callers, LeaseInv, LeaseStep(c)
    PROVE  RowCounts' /\ CopyCounts' /\ TokenIdentifiesLease'
<1> USE DEF LeaseInv, LeaseTypeOK
<1>1. LeaseTypeOK'
  BY TypeStep DEF LeaseNext
<1>2. CASE Kept(c)
  <2>1. \A d \in Callers : lease'[d] = lease[d] \/ lease'[d] = NoLease
    BY <1>2 DEF Kept
  <2>2. RowCounts'
    BY <1>2, <2>1, NoRowNoUpdate DEF RowCounts, Kept
  <2>3. CopyCounts'
    BY <2>1 DEF CopyCounts
  <2>4. TokenIdentifiesLease'
    BY <1>2, <2>1 DEF TokenIdentifiesLease, Kept
  <2> QED
    BY <2>2, <2>3, <2>4
<1>3. CASE Taken(c)
  <2>1. \A d \in Callers : lease'[d] = lease[d] \/ lease'[d] = row
    BY <1>3 DEF Taken
  <2>2. RowCounts'
    BY <1>3, NoRowNoUpdate DEF RowCounts, Taken
  <2>3. CopyCounts'
    BY <1>3, <2>1 DEF CopyCounts, RowCounts, Taken
  <2>4. row.token \in Nat
    BY <1>3 DEF Taken, Lease
  <2>5. TokenIdentifiesLease'
    BY <1>3, <2>1, <2>4 DEF TokenIdentifiesLease, Taken
  <2> QED
    BY <2>2, <2>3, <2>5
<1>4. CASE Stored(c)
  <2>1. /\ row' \in Lease /\ row' # NoRow
        /\ row'.id = issued + 1 /\ row'.token = issued + 1 /\ row'.key = KeyOf[c]
    <3>1. at[c] + TTL \in Nat /\ issued + 1 \in Nat /\ KeyOf[c] \in Keys
      BY KeyAssumption, TimeAssumption
    <3>2. row' \in Lease
      BY <1>4, <3>1 DEF Stored, Lease
    <3> QED
      BY <1>4, <3>2, ReservedAssumption DEF Stored
  <2>2. \A d \in Callers : IF d = c THEN lease'[d] = row' ELSE lease'[d] = lease[d]
    BY <1>4 DEF Stored
  <2>3. RowCounts'
    BY <1>4, <2>1 DEF RowCounts, Stored
  <2>4. CopyCounts'
    BY <2>1, <2>2 DEF CopyCounts
  <2>5. \A d \in Callers : lease[d] # NoLease => lease[d].token \in Nat /\ lease[d].token <= issued
    BY DEF TokenIdentifiesLease, RowCounts, Lease
  <2>6. TokenIdentifiesLease'
    BY <2>1, <2>2, <2>5 DEF TokenIdentifiesLease
  <2> QED
    BY <2>3, <2>4, <2>6
<1>5. ASSUME NEW e \in {at[c], at[c] + TTL}, Moved(c, e)
      PROVE  RowCounts' /\ CopyCounts' /\ TokenIdentifiesLease'
  <2>1. e \in Nat
    BY TimeAssumption
  <2>2. /\ row # NoRow /\ row' # NoRow /\ row \in Lease
        /\ row'.id = row.id /\ row'.token = row.token /\ row'.key = row.key
    <3>1. row' # NoRow /\ row \in Lease
      BY <1>5, <2>1, RowExpiry DEF Moved, Owns
    <3> QED
      BY <1>5, <3>1 DEF Moved, Owns, Lease
  <2>3. \A d \in Callers : lease'[d] # NoLease =>
           /\ lease[d] # NoLease
           /\ lease'[d].id = lease[d].id
           /\ lease'[d].token = lease[d].token
           /\ lease'[d].key = lease[d].key
    <3>1. CASE lease' = lease \/ lease' = [lease EXCEPT ![c] = NoLease]
      BY <3>1
    <3>2. CASE lease' = [lease EXCEPT ![c] = [@ EXCEPT !.exp = e]]
      <4>1. lease[c] \in Lease
        BY <1>5 DEF Moved, Owns
      <4> QED
        BY <3>2, <4>1, ReservedAssumption DEF Lease
    <3> QED
      BY <1>5, <3>1, <3>2 DEF Moved
  <2>4. RowCounts'
    BY <1>5, <2>2 DEF RowCounts, Moved
  <2>5. CopyCounts'
    BY <2>3 DEF CopyCounts
  <2>6. TokenIdentifiesLease'
    BY <2>2, <2>3 DEF TokenIdentifiesLease
  <2> QED
    BY <2>4, <2>5, <2>6
<1> QED
  BY <1>2, <1>3, <1>4, <1>5, StepKinds

LEMMA LeaseInvHolds == LeaseSpec => []LeaseInv
<1>1. LeaseInit => LeaseInv
  <2> SUFFICES ASSUME LeaseInit PROVE LeaseInv
    OBVIOUS
  <2>1. LeaseTypeOK
    BY ReservedAssumption DEF LeaseInit, LeaseTypeOK, Steps, Attempts
  <2> QED
    BY <2>1 DEF LeaseInit, LeaseInv, ReadingsPast, RowCounts, CopyCounts, TokenIdentifiesLease
<1>2. LeaseInv /\ [LeaseNext]_leaseVars => LeaseInv'
  <2> SUFFICES ASSUME LeaseInv, [LeaseNext]_leaseVars PROVE LeaseInv'
    OBVIOUS
  <2>1. LeaseTypeOK' /\ ReadingsPast'
    BY TypeStep, ReadingsStep DEF LeaseInv
  <2>2. CASE UNCHANGED <<row, issued, step, lease>>
    BY <2>1, <2>2 DEF LeaseInv, RowCounts, CopyCounts, TokenIdentifiesLease
  <2>3. ASSUME NEW c \in Callers, LeaseStep(c) PROVE LeaseInv'
    BY <2>1, <2>3, CountsStep DEF LeaseInv
  <2> QED
    BY <2>2, <2>3 DEF LeaseNext, Tick, leaseVars
<1> QED
  BY <1>1, <1>2, PTL DEF LeaseSpec

-----------------------------------------------------------------------------
\* Every state of the lease service is well typed.
THEOREM LeaseTypesHold == LeaseSpec => []LeaseTypeOK
  BY LeaseInvHolds, PTL DEF LeaseInv

\* However callers race, share keys or die, a fencing token never stands for
\* two leases (acquireOnce advances it with every stored lease).
THEOREM TokensIdentifyLeases == LeaseSpec => []TokenIdentifiesLease
  BY LeaseInvHolds, PTL DEF LeaseInv

\* The row changes hands only when its expiry is past and with the next token.
THEOREM LeaseIsNeverStolen == LeaseSpec => NeverStolen
<1>1. ASSUME LeaseInv, [LeaseNext]_leaseVars, row # NoRow, row' # row
      PROVE  \/ row'.id = row.id /\ row'.token = row.token /\ row'.key = row.key
             \/ row.exp <= clock /\ row'.token = row.token + 1 /\ row'.id > row.id
  <2>1. PICK c \in Callers : LeaseStep(c)
    BY <1>1 DEF LeaseNext, Tick, leaseVars
  <2>2. CASE Kept(c) \/ Taken(c)
    BY <1>1, <2>2 DEF Kept, Taken
  <2>3. CASE Stored(c)
    <3>1. at[c] \in Nat /\ clock \in Nat /\ issued \in Nat /\ at[c] <= clock /\ row.exp \in Nat
      BY <1>1 DEF LeaseInv, LeaseTypeOK, ReadingsPast, Lease
    <3>2. row.id = issued /\ row.token = issued /\ row'.id = issued + 1 /\ row'.token = issued + 1
      BY <1>1, <2>3 DEF LeaseInv, RowCounts, Stored
    <3>3. row.exp <= at[c]
      BY <1>1, <2>3 DEF Stored
    <3> QED
      BY <3>1, <3>2, <3>3
  <2>4. ASSUME NEW e \in {at[c], at[c] + TTL}, Moved(c, e)
        PROVE  row'.id = row.id /\ row'.token = row.token /\ row'.key = row.key
    BY <1>1, <2>4 DEF Moved, LeaseInv, LeaseTypeOK, Lease
  <2> QED
    BY <1>1, <2>1, <2>2, <2>3, <2>4, StepKinds
<1>2. LeaseInv /\ [LeaseNext]_leaseVars =>
        [row # NoRow /\ row' # row =>
         \/ row'.id = row.id /\ row'.token = row.token /\ row'.key = row.key
         \/ row.exp <= clock /\ row'.token = row.token + 1 /\ row'.id > row.id]_leaseVars
  BY <1>1
<1> QED
  BY <1>2, LeaseInvHolds, PTL DEF LeaseSpec, NeverStolen

-----------------------------------------------------------------------------
\* What LeaseCurrent rests on.
LEMMA OwnStep ==
    ASSUME NEW c \in Callers, OwnInv, LeaseStep(c)
    PROVE  CopyOutlived' /\ WithinTTL'
<1> USE DEF OwnInv, LeaseInv, LeaseTypeOK
<1>t. TTL \in Nat /\ clock \in Nat /\ clock' = clock /\ at[c] \in Nat /\ at[c] <= clock
  BY TimeAssumption, StepKinds DEF ReadingsPast
<1>l. \A d \in Callers : lease[d] # NoLease => lease[d].exp \in Nat /\ lease[d].token \in Nat
  BY DEF Lease
<1>r. row # NoRow => row.exp \in Nat /\ row.token \in Nat
  BY DEF Lease
\* A caller enters a renewal with a fresh clock reading.
<1>n. \A d \in Callers : step'[d] = "renew" =>
        \/ step[d] = "renew" /\ at'[d] = at[d] /\ d # c
        \/ at'[d] = clock
  BY DEF LeaseStep, BeginAcquire, Stamp, SelectAbsent, SelectBusy, SelectSame,
     SelectExpired, Create, Update, BeginRenew, RenewHeld, RenewLost, RenewFails,
     BeginRelease, Release, Abandon, Retry, Store, Return
<1>1. CASE Kept(c)
  <2>1. \A d \in Callers : lease'[d] # NoLease => lease'[d] = lease[d]
    BY <1>1 DEF Kept
  <2> QED
    BY <1>1, <1>t, <1>l, <1>n, <2>1 DEF Kept, CopyOutlived, WithinTTL
<1>2. CASE Taken(c)
  <2>1. \A d \in Callers : (d = c /\ lease'[d] = row) \/ lease'[d] = lease[d]
    BY <1>2 DEF Taken
  <2>2. CopyOutlived'
    BY <1>2, <1>t, <1>r, <2>1 DEF Taken, CopyOutlived
  <2>3. WithinTTL'
    BY <1>2, <1>t, <1>l, <1>r, <1>n, <2>1 DEF Taken, WithinTTL
  <2> QED
    BY <2>2, <2>3
<1>3. CASE Stored(c)
  <2>1. /\ row' # NoRow /\ row'.token = issued + 1 /\ row'.key = KeyOf[c]
        /\ row'.exp = at[c] + TTL
    <3>1. at[c] + TTL \in Nat /\ issued + 1 \in Nat /\ KeyOf[c] \in Keys
      BY KeyAssumption, TimeAssumption
    <3>2. row' \in Lease
      BY <1>3, <3>1 DEF Stored, Lease
    <3> QED
      BY <1>3, <3>2, ReservedAssumption DEF Stored
  <2>2. \A d \in Callers : (d = c /\ lease'[d] = row') \/ (d # c /\ lease'[d] = lease[d])
    BY <1>3 DEF Stored
  <2>3. \A d \in Callers : lease[d] # NoLease =>
           lease[d].token < issued + 1 /\ (Exclusive(d) => lease[d].exp <= clock)
    <3>1. ASSUME NEW d \in Callers, lease[d] # NoLease
          PROVE  lease[d].token < issued + 1 /\ (Exclusive(d) => lease[d].exp <= clock)
      <4>1. row # NoRow /\ lease[d].token <= row.token /\ row.token = issued /\ row.exp <= at[c]
        BY <1>3, <3>1 DEF TokenIdentifiesLease, RowCounts, Stored
      <4>2. CASE lease[d].token = row.token
        BY <1>t, <1>l, <1>r, <3>1, <4>1, <4>2 DEF CopyOutlived
      <4>3. CASE lease[d].token < row.token
        BY <1>t, <1>l, <1>r, <3>1, <4>1, <4>3 DEF CopyOutlived
      <4> QED
        BY <1>l, <1>r, <3>1, <4>1, <4>2, <4>3
    <3> QED
      BY <3>1
  <2>4. CopyOutlived'
    BY <1>t, <1>l, <2>1, <2>2, <2>3 DEF CopyOutlived
  <2>5. WithinTTL'
    BY <1>t, <1>l, <1>n, <2>1, <2>2 DEF WithinTTL
  <2> QED
    BY <2>4, <2>5
<1>4. ASSUME NEW e \in {at[c], at[c] + TTL}, Moved(c, e)
      PROVE  CopyOutlived' /\ WithinTTL'
  <2>1. /\ row # NoRow /\ row' # NoRow /\ row \in Lease /\ e \in Nat
        /\ row'.token = row.token /\ row'.key = row.key /\ row'.exp = e
    <3>1. e \in Nat
      BY <1>t
    <3>2. row' # NoRow /\ row \in Lease
      BY <1>4, <3>1, RowExpiry DEF Moved, Owns
    <3> QED
      BY <1>4, <3>1, <3>2 DEF Moved, Owns, Lease
  \* Another copy of the row has the same key, so that key is not exclusive.
  <2>2. \A d \in Callers : d # c /\ Exclusive(d) /\ lease[d] # NoLease
           => lease[d].token < row.token
    <3>1. lease[c] # NoLease /\ row.token = lease[c].token /\ row.key = lease[c].key
      BY <1>4 DEF Moved, Owns
    <3>2. lease[c].key = KeyOf[c]
      BY <3>1 DEF CopyOutlived
    <3>3. ASSUME NEW d \in Callers, lease[d] # NoLease, ~(lease[d].token < row.token)
          PROVE  KeyOf[d] = KeyOf[c]
      <4>1. lease[d].token <= row.token /\ lease[d].key = KeyOf[d]
        BY <3>3 DEF TokenIdentifiesLease, CopyOutlived
      <4>2. lease[d].token = row.token
        BY <1>l, <1>r, <2>1, <3>3, <4>1
      <4>3. lease[d].key = row.key
        BY <3>3, <4>2 DEF TokenIdentifiesLease
      <4> QED
        BY <3>1, <3>2, <4>1, <4>3
    <3> QED
      BY <3>3 DEF Exclusive
  <2>3. \A d \in Callers : d # c => lease'[d] = lease[d]
    BY <1>4 DEF Moved
  \* The caller's own copy is gone, or the row moved away from it.
  <2>4. lease'[c] # NoLease =>
          /\ lease'[c].key = KeyOf[c] /\ lease'[c].token = row.token
          /\ lease'[c].exp \in Nat /\ lease'[c].exp <= e /\ e = at[c] + TTL
    <3>1. CASE lease' = [lease EXCEPT ![c] = NoLease]
      BY <3>1
    <3>2. CASE step[c] = "renew" /\ e = at[c] + TTL /\ lease' = lease
      BY <1>4, <1>l, <3>2 DEF Moved, Owns, CopyOutlived, WithinTTL
    <3>3. CASE e = at[c] + TTL /\ lease' = [lease EXCEPT ![c] = [@ EXCEPT !.exp = e]]
      <4>1. lease[c] \in Lease /\ lease[c] # NoLease /\ lease[c].token = row.token
        BY <1>4 DEF Moved, Owns
      <4>2. /\ lease'[c].exp = e /\ lease'[c].key = lease[c].key
            /\ lease'[c].token = lease[c].token
        BY <3>3, <4>1 DEF Lease
      <4> QED
        BY <2>1, <3>3, <4>1, <4>2 DEF CopyOutlived
    <3> QED
      BY <1>4, <3>1, <3>2, <3>3 DEF Moved
  <2>5. e <= clock + TTL
    BY <1>t
  <2>6. CopyOutlived'
    BY <1>t, <1>l, <1>r, <2>1, <2>2, <2>3, <2>4 DEF CopyOutlived
  <2>7. WithinTTL'
    BY <1>t, <1>l, <1>n, <2>1, <2>3, <2>4, <2>5 DEF WithinTTL
  <2> QED
    BY <2>6, <2>7
<1> QED
  BY <1>1, <1>2, <1>3, <1>4, StepKinds

\* The lease of an operation with a key of its own that has not run out by the
\* clock is the room's lease: nobody else was granted the room meanwhile.
THEOREM LeaseStaysCurrent == LeaseSpec => []LeaseCurrent
<1>1. LeaseInit => CopyOutlived /\ WithinTTL
  BY DEF LeaseInit, CopyOutlived, WithinTTL
<1>2. LeaseInv /\ LeaseInv' /\ CopyOutlived /\ WithinTTL /\ [LeaseNext]_leaseVars
        => CopyOutlived' /\ WithinTTL'
  <2> SUFFICES ASSUME LeaseInv, CopyOutlived, WithinTTL, [LeaseNext]_leaseVars
               PROVE  CopyOutlived' /\ WithinTTL'
    OBVIOUS
  <2>1. CASE UNCHANGED leaseVars
    BY <2>1 DEF leaseVars, CopyOutlived, WithinTTL
  <2>2. CASE Tick
    <3>1. TTL \in Nat /\ clock \in Nat
      BY TimeAssumption DEF LeaseInv, LeaseTypeOK
    <3>2. /\ \A d \in Callers : lease[d] # NoLease => lease[d].exp \in Nat
          /\ row # NoRow => row.exp \in Nat
      BY DEF LeaseInv, LeaseTypeOK, Lease
    <3>3. CopyOutlived'
      BY <2>2, <3>1, <3>2 DEF Tick, CopyOutlived
    <3>4. WithinTTL'
      BY <2>2, <3>1, <3>2 DEF Tick, WithinTTL
    <3> QED
      BY <3>3, <3>4
  <2>3. ASSUME NEW c \in Callers, LeaseStep(c) PROVE CopyOutlived' /\ WithinTTL'
    BY <2>3, OwnStep DEF OwnInv
  <2> QED
    BY <2>1, <2>2, <2>3 DEF LeaseNext
<1>3. LeaseInv /\ CopyOutlived => LeaseCurrent
  <2> SUFFICES ASSUME LeaseInv, CopyOutlived,
                      NEW c \in Callers, Exclusive(c),
                      lease[c] # NoLease, lease[c].exp > clock
               PROVE  row # NoRow /\ row.id = lease[c].id
    BY DEF LeaseCurrent
  <2>1. /\ clock \in Nat /\ lease[c].exp \in Nat /\ lease[c].token \in Nat
        /\ row # NoRow => row.token \in Nat
    BY DEF LeaseInv, LeaseTypeOK, Lease
  <2>2. row # NoRow /\ lease[c].token <= row.token /\ ~(lease[c].token < row.token)
    BY <2>1 DEF LeaseInv, TokenIdentifiesLease, CopyOutlived
  <2> QED
    BY <2>1, <2>2 DEF LeaseInv, TokenIdentifiesLease
<1> QED
  BY <1>1, <1>2, <1>3, LeaseInvHolds, PTL DEF LeaseSpec
=============================================================================
