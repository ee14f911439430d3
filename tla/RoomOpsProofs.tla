---------------------------- MODULE RoomOpsProofs ----------------------------
(***************************************************************************)
(* Safety of the room lock for any number of callers, rooms and entries.   *)
(*                                                                         *)
(* Mutual exclusion is not inductive by itself: it needs that everybody    *)
(* who counts on an entry counts on the same one (EntryCurrent), which     *)
(* needs the reference count to be exact (NoEntryLeak) so that the last    *)
(* reference is really the last, and that the entry's token is not doubled *)
(* (TokenConserved).  The table must not give one entry to two rooms       *)
(* either (EntriesDistinct).                                               *)
(***************************************************************************)
EXTENDS RoomOps, FiniteSetTheorems, TLAPS

\* Two rooms never share an entry, and so never share a token.
EntriesDistinct ==
    \A r, s \in Rooms : r # s /\ locks[r] # NoEntry => locks[r] # locks[s]

\* The inductive invariant.
LockInv ==
    /\ TypeOK
    /\ MutualExclusion
    /\ EntryCurrent
    /\ NoEntryLeak
    /\ TokenConserved
    /\ EntriesDistinct

\* The part of the state the lock invariants speak of.
lockVars == <<locks, token, refs, entry, stage>>

-----------------------------------------------------------------------------
\* The callers counted in a room's entry form a finite set.
LEMMA RefersFinite ==
    ASSUME NEW r \in Rooms
    PROVE  IsFiniteSet({c \in Callers : Refers(c, r)})
BY CallersAssumption, FS_Subset

\* The lock starts free: no entries, no references.
LEMMA InitLockInv == Init => LockInv
BY DEF Init, LockInv, TypeOK, MutualExclusion, EntryCurrent, NoEntryLeak,
       TokenConserved, EntriesDistinct, HasToken, Refers, Stages, Phases

\* Steps that touch neither the table, the channels nor a call's stage.
LEMMA QuietStep ==
    ASSUME LockInv, UNCHANGED lockVars, TypeOK'
    PROVE  LockInv'
BY DEF LockInv, lockVars, MutualExclusion, EntryCurrent, NoEntryLeak,
       TokenConserved, EntriesDistinct, HasToken, Refers

\* A counted call holds a real pointer, to the entry the table has for its room.
LEMMA PointerIsCurrent ==
    ASSUME LockInv, NEW c \in Callers, NEW r \in Rooms, Refers(c, r)
    PROVE  /\ entry[c][r] \in Entries
           /\ locks[r] = entry[c][r]
           /\ locks[r] # NoEntry
BY NoEntryAssumption DEF LockInv, TypeOK, EntryCurrent

\* Every step keeps every variable in its type.
LEMMA TypeStep ==
    ASSUME LockInv, [Next]_vars
    PROVE  TypeOK'
<1> USE DEF LockInv, TypeOK
<1>1. CASE UNCHANGED vars
  BY <1>1 DEF vars
<1>2. ASSUME NEW c \in Callers, CallerStep(c)
      PROVE  TypeOK'
  <2>1. CASE BeginWait(c)
    BY <2>1 DEF BeginWait, Phases
  <2>2. CASE BeginTry(c)
    BY <2>2 DEF BeginTry, Phases
  <2>3. CASE Nest(c)
    BY <2>3 DEF Nest, Phases
  <2>4. CASE Cancel(c)
    BY <2>4 DEF Cancel
  <2>5. CASE EnterCancelled(c)
    BY <2>5 DEF EnterCancelled, Fail, Phases
  <2>6. CASE AllGranted(c)
    BY <2>6 DEF AllGranted, Phases
  <2>7. CASE BeginRelease(c)
    BY <2>7 DEF BeginRelease, Phases
  <2>8. CASE EndRelease(c)
    BY <2>8 DEF EndRelease, Phases
  <2> QED
    BY <1>2, <2>1, <2>2, <2>3, <2>4, <2>5, <2>6, <2>7, <2>8 DEF CallerStep
<1>3. ASSUME NEW c \in Callers, NEW r \in Rooms, RoomStep(c, r)
      PROVE  TypeOK'
  <2>1. CASE Reenter(c, r)
    BY <2>1 DEF Reenter
  <2>2. CASE Register(c, r)
    <3>1. CASE locks[r] # NoEntry
      <4>1. locks[r] \in Entries
        BY <3>1
      <4>2. /\ refs' = [refs EXCEPT ![locks[r]] = @ + 1]
            /\ entry' = [entry EXCEPT ![c] = [@ EXCEPT ![r] = locks[r]]]
            /\ UNCHANGED <<locks, token>>
        BY <2>2, <3>1 DEF Register
      <4> QED
        BY <2>2, <4>1, <4>2 DEF Register, Stages
    <3>2. CASE locks[r] = NoEntry
      <4>1. PICK e \in Entries :
              /\ locks' = [locks EXCEPT ![r] = e]
              /\ token' = [token EXCEPT ![e] = 1]
              /\ refs' = [refs EXCEPT ![e] = 1]
              /\ entry' = [entry EXCEPT ![c] = [@ EXCEPT ![r] = e]]
        BY <2>2, <3>2 DEF Register
      <4> QED
        BY <2>2, <4>1 DEF Register, Stages
    <3> QED
      BY <3>1, <3>2
  <2>3. CASE TakeToken(c, r)
    <3>1. entry[c][r] \in Entries
      BY <2>3, PointerIsCurrent DEF TakeToken, Refers
    <3>2. token[entry[c][r]] - 1 \in Nat
      BY <2>3, <3>1 DEF TakeToken
    <3> QED
      BY <2>3, <3>1, <3>2 DEF TakeToken, Stages
  <2>4. CASE WaitCancelled(c, r)
    BY <2>4 DEF WaitCancelled, Fail, Stages, Phases
  <2>5. CASE TryBusy(c, r)
    BY <2>5 DEF TryBusy, Fail, Stages, Phases
  <2>6. CASE TakenCancelled(c, r)
    <3>1. entry[c][r] \in Entries
      BY <2>6, PointerIsCurrent DEF TakenCancelled, Refers
    <3> QED
      BY <2>6, <3>1 DEF TakenCancelled, Fail, Stages, Phases
  <2>7. CASE Granted(c, r)
    BY <2>7 DEF Granted, Stages
  <2>8. CASE ReturnToken(c, r)
    <3>1. entry[c][r] \in Entries
      BY <2>8, PointerIsCurrent DEF ReturnToken, Refers
    <3> QED
      BY <2>8, <3>1 DEF ReturnToken, Stages
  <2>9. CASE ReleaseReference(c, r)
    <3>1. entry[c][r] \in Entries
      BY <2>9, PointerIsCurrent DEF ReleaseReference, Refers
    <3> QED
      BY <2>9, <3>1 DEF ReleaseReference, Stages
  <2>10. CASE RepeatRelease(c, r)
    BY <2>10 DEF RepeatRelease, Stages
  <2> QED
    BY <1>3, <2>1, <2>2, <2>3, <2>4, <2>5, <2>6, <2>7, <2>8, <2>9, <2>10 DEF RoomStep
<1> QED
  BY <1>1, <1>2, <1>3 DEF Next

-----------------------------------------------------------------------------
(* Steps that move one call between stages and keep its reference *)

\* A call that stays counted in its entry: the table, the pointers and the
\* counts do not move.
LEMMA StageStepCounts ==
    ASSUME LockInv, NEW c \in Callers, NEW r \in Rooms, NEW st \in Stages,
           Refers(c, r), st \in {"waiting", "taken", "held", "unref"},
           stage' = [stage EXCEPT ![c] = [@ EXCEPT ![r] = st]],
           UNCHANGED <<locks, refs, entry>>
    PROVE  EntryCurrent' /\ NoEntryLeak' /\ EntriesDistinct'
<1>1. \A d \in Callers, s \in Rooms : Refers(d, s)' <=> Refers(d, s)
  BY DEF LockInv, TypeOK, Refers
<1>2. \A s \in Rooms : {d \in Callers : Refers(d, s)'} = {d \in Callers : Refers(d, s)}
  BY <1>1
<1>3. EntryCurrent' /\ EntriesDistinct'
  BY <1>1 DEF LockInv, EntryCurrent, EntriesDistinct
<1>4. NoEntryLeak'
  BY <1>2 DEF LockInv, NoEntryLeak
<1> QED
  BY <1>3, <1>4

\* A step that neither gives nor takes a token.
LEMMA TokenlessStep ==
    ASSUME LockInv, NEW c \in Callers, NEW r \in Rooms, NEW st \in Stages,
           st \in {"taken", "held"} <=> HasToken(c, r),
           stage' = [stage EXCEPT ![c] = [@ EXCEPT ![r] = st]],
           UNCHANGED <<locks, token>>
    PROVE  MutualExclusion' /\ TokenConserved'
<1>1. \A d \in Callers, s \in Rooms : HasToken(d, s)' <=> HasToken(d, s)
  BY DEF LockInv, TypeOK, HasToken
<1> QED
  BY <1>1 DEF LockInv, MutualExclusion, TokenConserved

\* Receiving the token: it was in the channel, so nobody had it.
LEMMA TakeTokenStep ==
    ASSUME LockInv, TypeOK', NEW c \in Callers, NEW r \in Rooms, TakeToken(c, r)
    PROVE  LockInv'
<1>1. /\ Refers(c, r)
      /\ entry[c][r] \in Entries
      /\ locks[r] = entry[c][r]
      /\ locks[r] # NoEntry
  BY PointerIsCurrent DEF TakeToken, Refers
<1>2. EntryCurrent' /\ NoEntryLeak' /\ EntriesDistinct'
  BY <1>1, StageStepCounts, "taken" \in Stages DEF TakeToken, Stages
<1>3. /\ token[locks[r]] = 1
      /\ \A d \in Callers : ~HasToken(d, r)
  BY <1>1 DEF LockInv, TypeOK, TakeToken, TokenConserved
<1>4. \A d \in Callers, s \in Rooms :
        HasToken(d, s)' <=> HasToken(d, s) \/ (d = c /\ s = r)
  BY DEF LockInv, TypeOK, TakeToken, HasToken
<1>5. MutualExclusion'
  BY <1>3, <1>4 DEF LockInv, MutualExclusion
<1>6. TokenConserved'
  <2> SUFFICES ASSUME NEW s \in Rooms, locks[s] # NoEntry
               PROVE  token'[locks[s]] = IF \E d \in Callers : HasToken(d, s)' THEN 0 ELSE 1
    BY DEF TokenConserved, TakeToken
  <2>1. locks[s] \in Entries
    BY DEF LockInv, TypeOK
  <2>2. CASE s = r
    BY <1>1, <1>3, <1>4, <2>1, <2>2 DEF TakeToken, LockInv, TypeOK
  <2>3. CASE s # r
    <3>1. locks[s] # locks[r]
      BY <2>3 DEF LockInv, EntriesDistinct
    <3>2. token'[locks[s]] = token[locks[s]]
      BY <1>1, <3>1, <2>1 DEF TakeToken, LockInv, TypeOK
    <3>3. \A d \in Callers : HasToken(d, s)' <=> HasToken(d, s)
      BY <1>4, <2>3
    <3> QED
      BY <3>2, <3>3 DEF LockInv, TokenConserved
  <2> QED
    BY <2>2, <2>3
<1> QED
  BY <1>2, <1>5, <1>6 DEF LockInv

\* Sending the token back: only its owner can, so the channel was empty.
LEMMA SendTokenStep ==
    ASSUME LockInv, TypeOK', NEW c \in Callers, NEW r \in Rooms, HasToken(c, r),
           token' = [token EXCEPT ![entry[c][r]] = @ + 1],
           stage' = [stage EXCEPT ![c] = [@ EXCEPT ![r] = "unref"]],
           UNCHANGED <<locks, refs, entry>>
    PROVE  LockInv'
<1>1. /\ Refers(c, r)
      /\ entry[c][r] \in Entries
      /\ locks[r] = entry[c][r]
      /\ locks[r] # NoEntry
  BY PointerIsCurrent DEF HasToken, Refers
<1>2. EntryCurrent' /\ NoEntryLeak' /\ EntriesDistinct'
  BY <1>1, StageStepCounts, "unref" \in Stages DEF Stages
<1>3. /\ token[locks[r]] = 0
      /\ \A d \in Callers : HasToken(d, r) => d = c
  BY <1>1 DEF LockInv, MutualExclusion, TokenConserved
<1>4. \A d \in Callers, s \in Rooms :
        HasToken(d, s)' <=> HasToken(d, s) /\ ~(d = c /\ s = r)
  BY DEF LockInv, TypeOK, HasToken
<1>5. MutualExclusion'
  BY <1>4 DEF LockInv, MutualExclusion
<1>6. TokenConserved'
  <2> SUFFICES ASSUME NEW s \in Rooms, locks[s] # NoEntry
               PROVE  token'[locks[s]] = IF \E d \in Callers : HasToken(d, s)' THEN 0 ELSE 1
    BY DEF TokenConserved
  <2>1. locks[s] \in Entries
    BY DEF LockInv, TypeOK
  <2>2. CASE s = r
    BY <1>1, <1>3, <1>4, <2>1, <2>2 DEF LockInv, TypeOK
  <2>3. CASE s # r
    <3>1. locks[s] # locks[r]
      BY <2>3 DEF LockInv, EntriesDistinct
    <3>2. token'[locks[s]] = token[locks[s]]
      BY <1>1, <3>1, <2>1 DEF LockInv, TypeOK
    <3>3. \A d \in Callers : HasToken(d, s)' <=> HasToken(d, s)
      BY <1>4, <2>3
    <3> QED
      BY <3>2, <3>3 DEF LockInv, TokenConserved
  <2> QED
    BY <2>2, <2>3
<1> QED
  BY <1>2, <1>5, <1>6 DEF LockInv

-----------------------------------------------------------------------------
(* Steps that create, count or drop a reference *)

\* Registering with an entry others already use.
LEMMA JoinStep ==
    ASSUME LockInv, TypeOK', NEW c \in Callers, NEW r \in Rooms,
           Register(c, r), locks[r] # NoEntry
    PROVE  LockInv'
<1>1. /\ refs' = [refs EXCEPT ![locks[r]] = @ + 1]
      /\ entry' = [entry EXCEPT ![c] = [@ EXCEPT ![r] = locks[r]]]
      /\ stage' = [stage EXCEPT ![c] = [@ EXCEPT ![r] = "waiting"]]
      /\ UNCHANGED <<locks, token>>
      /\ locks[r] \in Entries
  BY DEF Register, LockInv, TypeOK
<1>2. ~Refers(c, r) /\ ~HasToken(c, r)
  BY DEF Register, NextRoom, Settled, Marker, Refers, HasToken
<1>3. MutualExclusion' /\ TokenConserved'
  BY <1>1, <1>2, TokenlessStep, "waiting" \in Stages DEF Stages
<1>4. \A d \in Callers, s \in Rooms :
        Refers(d, s)' <=> Refers(d, s) \/ (d = c /\ s = r)
  BY <1>1 DEF LockInv, TypeOK, Refers
<1>5. EntryCurrent'
  BY <1>1, <1>4 DEF LockInv, TypeOK, EntryCurrent
<1>6. EntriesDistinct'
  BY <1>1 DEF LockInv, EntriesDistinct
<1>7. NoEntryLeak'
  <2> SUFFICES ASSUME NEW s \in Rooms, locks[s] # NoEntry
               PROVE  /\ refs'[locks[s]] = Cardinality({d \in Callers : Refers(d, s)'})
                      /\ refs'[locks[s]] > 0
    BY <1>1 DEF NoEntryLeak
  <2>1. refs[locks[s]] = Cardinality({d \in Callers : Refers(d, s)}) /\ refs[locks[s]] > 0
    BY DEF LockInv, NoEntryLeak
  <2>2. locks[s] \in Entries
    BY DEF LockInv, TypeOK
  <2>3. CASE s = r
    <3>1. {d \in Callers : Refers(d, s)'} = {d \in Callers : Refers(d, s)} \cup {c}
      BY <1>4, <2>3
    <3>2. Cardinality({d \in Callers : Refers(d, s)'}) =
            Cardinality({d \in Callers : Refers(d, s)}) + 1
      BY <3>1, <1>2, <2>3, RefersFinite, FS_AddElement
    <3>3. refs'[locks[s]] = refs[locks[s]] + 1
      BY <1>1, <2>3 DEF LockInv, TypeOK
    <3> QED
      BY <2>1, <2>2, <3>2, <3>3 DEF LockInv, TypeOK
  <2>4. CASE s # r
    <3>1. {d \in Callers : Refers(d, s)'} = {d \in Callers : Refers(d, s)}
      BY <1>4, <2>4
    <3>2. refs'[locks[s]] = refs[locks[s]]
      BY <1>1, <2>2, <2>4 DEF LockInv, TypeOK, EntriesDistinct
    <3> QED
      BY <2>1, <3>1, <3>2
  <2> QED
    BY <2>3, <2>4
<1> QED
  BY <1>3, <1>5, <1>6, <1>7 DEF LockInv

\* Registering where the table has nothing: a fresh entry with its token.
LEMMA CreateStep ==
    ASSUME LockInv, TypeOK', NEW c \in Callers, NEW r \in Rooms,
           Register(c, r), locks[r] = NoEntry
    PROVE  LockInv'
<1>1. PICK e \in Entries :
        /\ Unused(e)
        /\ locks' = [locks EXCEPT ![r] = e]
        /\ token' = [token EXCEPT ![e] = 1]
        /\ refs' = [refs EXCEPT ![e] = 1]
        /\ entry' = [entry EXCEPT ![c] = [@ EXCEPT ![r] = e]]
  BY DEF Register
<1>2. stage' = [stage EXCEPT ![c] = [@ EXCEPT ![r] = "waiting"]]
  BY DEF Register
<1>3. \A d \in Callers : ~Refers(d, r) /\ ~HasToken(d, r)
  BY PointerIsCurrent DEF Refers, HasToken
<1>4. \A d \in Callers, s \in Rooms :
        /\ Refers(d, s)' <=> Refers(d, s) \/ (d = c /\ s = r)
        /\ HasToken(d, s)' <=> HasToken(d, s)
  BY <1>2, <1>3 DEF LockInv, TypeOK, Refers, HasToken
<1>5. /\ locks'[r] = e
      /\ e # NoEntry
      /\ \A s \in Rooms : s # r => locks'[s] = locks[s] /\ locks[s] # e
  BY <1>1, NoEntryAssumption DEF LockInv, TypeOK, Unused
<1>6. MutualExclusion'
  BY <1>4 DEF LockInv, MutualExclusion
<1>7. TokenConserved'
  <2> SUFFICES ASSUME NEW s \in Rooms, locks'[s] # NoEntry
               PROVE  token'[locks'[s]] = IF \E d \in Callers : HasToken(d, s)' THEN 0 ELSE 1
    BY DEF TokenConserved
  <2>1. CASE s = r
    BY <1>1, <1>3, <1>4, <1>5, <2>1 DEF LockInv, TypeOK
  <2>2. CASE s # r
    <3>1. token'[locks'[s]] = token[locks[s]] /\ locks[s] # NoEntry
      BY <1>1, <1>5, <2>2 DEF LockInv, TypeOK
    <3> QED
      BY <1>4, <3>1 DEF LockInv, TokenConserved
  <2> QED
    BY <2>1, <2>2
<1>8. EntryCurrent'
  <2> SUFFICES ASSUME NEW d \in Callers, NEW s \in Rooms, Refers(d, s)'
               PROVE  entry'[d][s] # NoEntry /\ locks'[s] = entry'[d][s]
    BY DEF EntryCurrent
  <2>1. CASE d = c /\ s = r
    BY <1>1, <1>5, <2>1 DEF LockInv, TypeOK
  <2>2. CASE s # r
    BY <1>1, <1>4, <1>5, <2>2, PointerIsCurrent DEF LockInv, TypeOK
  <2> QED
    BY <1>3, <1>4, <2>1, <2>2
<1>9. EntriesDistinct'
  BY <1>5 DEF LockInv, EntriesDistinct
<1>10. NoEntryLeak'
  <2> SUFFICES ASSUME NEW s \in Rooms, locks'[s] # NoEntry
               PROVE  /\ refs'[locks'[s]] = Cardinality({d \in Callers : Refers(d, s)'})
                      /\ refs'[locks'[s]] > 0
    BY DEF NoEntryLeak
  <2>1. CASE s = r
    <3>1. {d \in Callers : Refers(d, s)'} = {c}
      BY <1>3, <1>4, <2>1
    <3>2. Cardinality({c}) = 1
      BY FS_Singleton
    <3>3. refs'[locks'[s]] = 1
      BY <1>1, <1>5, <2>1 DEF LockInv, TypeOK
    <3> QED
      BY <3>1, <3>2, <3>3
  <2>2. CASE s # r
    <3>1. {d \in Callers : Refers(d, s)'} = {d \in Callers : Refers(d, s)}
      BY <1>4, <2>2
    <3>2. refs'[locks'[s]] = refs[locks[s]] /\ locks[s] # NoEntry
      BY <1>1, <1>5, <2>2 DEF LockInv, TypeOK
    <3> QED
      BY <3>1, <3>2 DEF LockInv, NoEntryLeak
  <2> QED
    BY <2>1, <2>2
<1> QED
  BY <1>6, <1>7, <1>8, <1>9, <1>10 DEF LockInv

\* releaseReference: the table forgets the entry with the last reference only.
LEMMA ReleaseReferenceStep ==
    ASSUME LockInv, TypeOK', NEW c \in Callers, NEW r \in Rooms, ReleaseReference(c, r)
    PROVE  LockInv'
<1>1. /\ Refers(c, r)
      /\ entry[c][r] \in Entries
      /\ locks[r] = entry[c][r]
      /\ locks[r] # NoEntry
      /\ ~HasToken(c, r)
  BY PointerIsCurrent DEF ReleaseReference, Refers, HasToken
<1>2. /\ refs' = [refs EXCEPT ![locks[r]] = @ - 1]
      /\ locks' = IF refs[locks[r]] = 1 THEN [locks EXCEPT ![r] = NoEntry] ELSE locks
      /\ stage' = [stage EXCEPT ![c] = [@ EXCEPT ![r] = "done"]]
      /\ UNCHANGED <<token, entry>>
  BY <1>1 DEF ReleaseReference
<1>3. \A d \in Callers, s \in Rooms :
        /\ Refers(d, s)' <=> Refers(d, s) /\ ~(d = c /\ s = r)
        /\ HasToken(d, s)' <=> HasToken(d, s)
  BY <1>1, <1>2 DEF LockInv, TypeOK, Refers, HasToken
<1>4. \A s \in Rooms : s # r => locks'[s] = locks[s]
  BY <1>2 DEF LockInv, TypeOK
<1>5. refs[locks[r]] = Cardinality({d \in Callers : Refers(d, r)})
  BY <1>1 DEF LockInv, NoEntryLeak
<1>6. {d \in Callers : Refers(d, r)'} = {d \in Callers : Refers(d, r)} \ {c}
  BY <1>3
<1>7. /\ IsFiniteSet({d \in Callers : Refers(d, r)'})
      /\ Cardinality({d \in Callers : Refers(d, r)'}) = refs[locks[r]] - 1
  BY <1>1, <1>5, <1>6, RefersFinite, FS_RemoveElement
<1>8. CASE refs[locks[r]] = 1
  <2>1. locks'[r] = NoEntry
    BY <1>2, <1>8 DEF LockInv, TypeOK
  <2>2. \A d \in Callers : ~Refers(d, r)'
    <3>1. {d \in Callers : Refers(d, r)'} = {}
      BY <1>7, <1>8, FS_EmptySet
    <3> QED
      BY <3>1
  <2>3. MutualExclusion' /\ EntriesDistinct'
    BY <1>3, <1>4, <2>1 DEF LockInv, MutualExclusion, EntriesDistinct
  <2>4. TokenConserved'
    BY <1>2, <1>3, <1>4, <2>1 DEF LockInv, TokenConserved
  <2>5. EntryCurrent'
    BY <1>2, <1>3, <1>4, <2>2 DEF LockInv, EntryCurrent
  <2>6. NoEntryLeak'
    <3> SUFFICES ASSUME NEW s \in Rooms, locks'[s] # NoEntry
                 PROVE  /\ refs'[locks'[s]] = Cardinality({d \in Callers : Refers(d, s)'})
                        /\ refs'[locks'[s]] > 0
      BY DEF NoEntryLeak
    <3>1. s # r
      BY <2>1
    <3>2. {d \in Callers : Refers(d, s)'} = {d \in Callers : Refers(d, s)}
      BY <1>3, <3>1
    <3>3. refs'[locks'[s]] = refs[locks[s]] /\ locks[s] # NoEntry
      BY <1>2, <1>4, <3>1 DEF LockInv, TypeOK, EntriesDistinct
    <3> QED
      BY <3>2, <3>3 DEF LockInv, NoEntryLeak
  <2> QED
    BY <2>3, <2>4, <2>5, <2>6 DEF LockInv
<1>9. CASE refs[locks[r]] # 1
  <2>1. UNCHANGED locks
    BY <1>2, <1>9
  <2>2. MutualExclusion' /\ EntriesDistinct'
    BY <1>3, <2>1 DEF LockInv, MutualExclusion, EntriesDistinct
  <2>3. TokenConserved'
    BY <1>2, <1>3, <2>1 DEF LockInv, TokenConserved
  <2>4. EntryCurrent'
    BY <1>2, <1>3, <2>1 DEF LockInv, EntryCurrent
  <2>5. NoEntryLeak'
    <3> SUFFICES ASSUME NEW s \in Rooms, locks[s] # NoEntry
                 PROVE  /\ refs'[locks[s]] = Cardinality({d \in Callers : Refers(d, s)'})
                        /\ refs'[locks[s]] > 0
      BY <2>1 DEF NoEntryLeak
    <3>1. refs[locks[s]] = Cardinality({d \in Callers : Refers(d, s)}) /\ refs[locks[s]] > 0
      BY DEF LockInv, NoEntryLeak
    <3>2. CASE s = r
      <4>1. refs'[locks[s]] = refs[locks[s]] - 1 /\ refs[locks[s]] \in Int
        BY <1>1, <1>2, <3>2 DEF LockInv, TypeOK
      <4> QED
        BY <1>7, <1>9, <3>1, <3>2, <4>1
    <3>3. CASE s # r
      <4>1. {d \in Callers : Refers(d, s)'} = {d \in Callers : Refers(d, s)}
        BY <1>3, <3>3
      <4>2. refs'[locks[s]] = refs[locks[s]]
        BY <1>2, <3>3 DEF LockInv, TypeOK, EntriesDistinct
      <4> QED
        BY <3>1, <4>1, <4>2
    <3> QED
      BY <3>2, <3>3
  <2> QED
    BY <2>2, <2>3, <2>4, <2>5 DEF LockInv
<1> QED
  BY <1>8, <1>9

\* The second call of a release closure, which sync.Once swallows.
LEMMA RepeatReleaseStep ==
    ASSUME LockInv, TypeOK', NEW c \in Callers, NEW r \in Rooms, RepeatRelease(c, r)
    PROVE  LockInv'
<1>1. \A d \in Callers, s \in Rooms :
        /\ Refers(d, s)' <=> Refers(d, s)
        /\ HasToken(d, s)' <=> HasToken(d, s)
        /\ Refers(d, s) => entry'[d][s] = entry[d][s]
  BY DEF RepeatRelease, LockInv, TypeOK, Refers, HasToken
<1>2. \A s \in Rooms : {d \in Callers : Refers(d, s)'} = {d \in Callers : Refers(d, s)}
  BY <1>1
<1>3. UNCHANGED <<locks, token, refs>>
  BY DEF RepeatRelease
<1>4. MutualExclusion' /\ EntryCurrent' /\ TokenConserved' /\ EntriesDistinct'
  BY <1>1, <1>3 DEF LockInv, MutualExclusion, EntryCurrent, TokenConserved, EntriesDistinct
<1>5. NoEntryLeak'
  BY <1>2, <1>3 DEF LockInv, NoEntryLeak
<1> QED
  BY <1>4, <1>5 DEF LockInv

-----------------------------------------------------------------------------
\* The invariant is inductive: no step of any caller breaks it.
LEMMA LockInvStep ==
    ASSUME LockInv, [Next]_vars
    PROVE  LockInv'
<1>1. TypeOK'
  BY TypeStep
<1>2. CASE UNCHANGED vars
  BY <1>1, <1>2, QuietStep DEF vars, lockVars
<1>3. ASSUME NEW c \in Callers, CallerStep(c)
      PROVE  LockInv'
  BY <1>1, <1>3, QuietStep
     DEF CallerStep, BeginWait, BeginTry, Nest, Cancel, EnterCancelled, AllGranted,
         BeginRelease, EndRelease, lockVars
<1>4. ASSUME NEW c \in Callers, NEW r \in Rooms, RoomStep(c, r)
      PROVE  LockInv'
  <2>1. CASE Reenter(c, r)
    BY <1>1, <2>1, QuietStep DEF Reenter, lockVars
  <2>2. CASE Register(c, r)
    BY <1>1, <2>2, JoinStep, CreateStep
  <2>3. CASE TakeToken(c, r)
    BY <1>1, <2>3, TakeTokenStep
  <2>4. ASSUME WaitCancelled(c, r) \/ TryBusy(c, r)
        PROVE  LockInv'
    <3>1. /\ Refers(c, r) /\ ~HasToken(c, r) /\ "unref" \in Stages
          /\ stage' = [stage EXCEPT ![c] = [@ EXCEPT ![r] = "unref"]]
          /\ UNCHANGED <<locks, token, refs, entry>>
      BY <2>4 DEF WaitCancelled, TryBusy, Refers, HasToken, Stages
    <3> QED
      BY <1>1, <3>1, StageStepCounts, TokenlessStep DEF LockInv
  <2>5. CASE TakenCancelled(c, r)
    BY <1>1, <2>5, SendTokenStep DEF TakenCancelled, HasToken
  <2>6. CASE Granted(c, r)
    <3>1. /\ Refers(c, r) /\ HasToken(c, r) /\ "held" \in Stages
          /\ stage' = [stage EXCEPT ![c] = [@ EXCEPT ![r] = "held"]]
          /\ UNCHANGED <<locks, token, refs, entry>>
      BY <2>6 DEF Granted, Refers, HasToken, Stages
    <3> QED
      BY <1>1, <3>1, StageStepCounts, TokenlessStep DEF LockInv
  <2>7. CASE ReturnToken(c, r)
    BY <1>1, <2>7, SendTokenStep DEF ReturnToken, HasToken
  <2>8. CASE ReleaseReference(c, r)
    BY <1>1, <2>8, ReleaseReferenceStep
  <2>9. CASE RepeatRelease(c, r)
    BY <1>1, <2>9, RepeatReleaseStep
  <2> QED
    BY <1>4, <2>1, <2>2, <2>3, <2>4, <2>5, <2>6, <2>7, <2>8, <2>9 DEF RoomStep
<1> QED
  BY <1>2, <1>3, <1>4 DEF Next

\* LockInv holds in every reachable state of the room lock.
LEMMA SpecLockInv == Spec => []LockInv
<1>1. Init => LockInv
  BY InitLockInv
<1>2. LockInv /\ [Next]_vars => LockInv'
  BY LockInvStep
<1> QED
  BY <1>1, <1>2, PTL DEF Spec

\* Type correctness of the lock's state, for every set of callers and rooms.
THEOREM TypeCorrect == Spec => []TypeOK
<1>1. LockInv => TypeOK
  BY DEF LockInv
<1> QED
  BY <1>1, SpecLockInv, PTL

\* However many operations run, wait, are cancelled and release twice, a room
\* has one owner (Acquire, TryAcquire and AcquireMany of coordinator.go).
THEOREM RoomsAreExclusive == Spec => []MutualExclusion
<1>1. LockInv => MutualExclusion
  BY DEF LockInv
<1> QED
  BY <1>1, SpecLockInv, PTL

\* The table of coordinator.go is exact: an entry lives as long as somebody
\* counts on it, no cancellation loses a room's token and no second release
\* doubles it.
THEOREM TableIsExact == Spec => []TableExact
<1>1. LockInv => TableExact
  BY DEF LockInv, TableExact
<1> QED
  BY <1>1, SpecLockInv, PTL

-----------------------------------------------------------------------------
(* Refinement: the channel protocol implements the abstract mutex *)

\* The owner the mapping shows is the one caller that has the token.
LEMMA OwnerIs ==
    ASSUME LockInv, NEW r \in Rooms
    PROVE  /\ \A c \in Callers : roomOwner[r] = c <=> HasToken(c, r)
           /\ roomOwner[r] = NoOne <=> \A c \in Callers : ~HasToken(c, r)
<1>1. CASE \E c \in Callers : HasToken(c, r)
  <2>1. roomOwner[r] \in Callers /\ HasToken(roomOwner[r], r)
    BY <1>1 DEF roomOwner
  <2> QED
    BY <1>1, <2>1, NoOneAssumption DEF LockInv, MutualExclusion
<1>2. CASE \A c \in Callers : ~HasToken(c, r)
  BY <1>2, NoOneAssumption DEF roomOwner
<1> QED
  BY <1>1, <1>2

\* Steps after which everybody has the rooms they had: the mutex stutters.
LEMMA OwnersStutter ==
    ASSUME LockInv, LockInv',
           \A d \in Callers, s \in Rooms : HasToken(d, s)' <=> HasToken(d, s)
    PROVE  UNCHANGED roomOwner
BY Zenon DEF roomOwner

\* Receiving a token is a Lock.
LEMMA TakeIsLock ==
    ASSUME LockInv, LockInv', NEW c \in Callers, NEW r \in Rooms, TakeToken(c, r)
    PROVE  Mutex!Lock(c, r)
<1>1. \A d \in Callers : ~HasToken(d, r)
  <2>1. /\ locks[r] = entry[c][r]
        /\ locks[r] # NoEntry
        /\ token[entry[c][r]] > 0
    BY PointerIsCurrent DEF TakeToken, Refers
  <2>2. token[locks[r]] # 0
    BY <2>1 DEF LockInv, TypeOK
  <2> QED
    BY <2>1, <2>2 DEF LockInv, TokenConserved
<1>2. \A d \in Callers, s \in Rooms :
        HasToken(d, s)' <=> HasToken(d, s) \/ (d = c /\ s = r)
  BY DEF LockInv, TypeOK, TakeToken, HasToken
<1>3. roomOwner[r] = NoOne
  BY <1>1, OwnerIs
<1>4. \A s \in Rooms : roomOwner'[s] = IF s = r THEN c ELSE roomOwner[s]
  <2> TAKE s \in Rooms
  <2>1. CASE s = r
    <3>1. HasToken(c, r)' /\ \A d \in Callers : HasToken(d, r)' => d = c
      BY <1>1, <1>2
    <3> QED
      BY <2>1, <3>1 DEF roomOwner
  <2>2. CASE s # r
    <3>1. \A d \in Callers : HasToken(d, s)' <=> HasToken(d, s)
      BY <1>2, <2>2
    <3>2. roomOwner'[s] = roomOwner[s]
      BY <3>1, Zenon DEF roomOwner
    <3> QED
      BY <2>2, <3>2
  <2> QED
    BY <2>1, <2>2
<1>5. roomOwner' = [roomOwner EXCEPT ![r] = c]
  BY <1>4 DEF roomOwner
<1> QED
  BY <1>3, <1>5 DEF Mutex!Lock

\* Sending a token back is an Unlock.
LEMMA SendIsUnlock ==
    ASSUME LockInv, LockInv', NEW c \in Callers, NEW r \in Rooms, HasToken(c, r),
           stage' = [stage EXCEPT ![c] = [@ EXCEPT ![r] = "unref"]]
    PROVE  Mutex!Unlock(c, r)
<1>1. \A d \in Callers : HasToken(d, r) => d = c
  BY DEF LockInv, MutualExclusion
<1>2. \A d \in Callers, s \in Rooms :
        HasToken(d, s)' <=> HasToken(d, s) /\ ~(d = c /\ s = r)
  BY DEF LockInv, TypeOK, HasToken
<1>3. roomOwner[r] = c
  BY OwnerIs
<1>4. \A s \in Rooms : roomOwner'[s] = IF s = r THEN NoOne ELSE roomOwner[s]
  <2> TAKE s \in Rooms
  <2>1. CASE s = r
    <3>1. \A d \in Callers : ~HasToken(d, r)'
      BY <1>1, <1>2
    <3> QED
      BY <2>1, <3>1 DEF roomOwner
  <2>2. CASE s # r
    <3>1. \A d \in Callers : HasToken(d, s)' <=> HasToken(d, s)
      BY <1>2, <2>2
    <3>2. roomOwner'[s] = roomOwner[s]
      BY <3>1, Zenon DEF roomOwner
    <3> QED
      BY <2>2, <3>2
  <2> QED
    BY <2>1, <2>2
<1>5. roomOwner' = [roomOwner EXCEPT ![r] = NoOne]
  BY <1>4 DEF roomOwner
<1> QED
  BY <1>3, <1>5 DEF Mutex!Unlock

\* Every step of the room lock is a step of the mutex or invisible to it.
LEMMA MutexStep ==
    ASSUME LockInv, LockInv', [Next]_vars
    PROVE  [Mutex!MutexNext]_roomOwner
<1>1. CASE UNCHANGED vars
  BY <1>1, OwnersStutter DEF vars, HasToken
<1>2. ASSUME NEW c \in Callers, CallerStep(c)
      PROVE  UNCHANGED roomOwner
  <2>1. UNCHANGED stage
    BY <1>2 DEF CallerStep, BeginWait, BeginTry, Nest, Cancel, EnterCancelled,
                AllGranted, BeginRelease, EndRelease
  <2> QED
    BY <2>1, OwnersStutter DEF HasToken
<1>3. ASSUME NEW c \in Callers, NEW r \in Rooms, RoomStep(c, r)
      PROVE  Mutex!MutexNext \/ UNCHANGED roomOwner
  <2>1. CASE TakeToken(c, r)
    BY <2>1, TakeIsLock DEF Mutex!MutexNext
  <2>2. ASSUME TakenCancelled(c, r) \/ ReturnToken(c, r)
        PROVE  Mutex!MutexNext
    <3>1. /\ HasToken(c, r)
          /\ stage' = [stage EXCEPT ![c] = [@ EXCEPT ![r] = "unref"]]
      BY <2>2 DEF TakenCancelled, ReturnToken, HasToken
    <3> QED
      BY <3>1, SendIsUnlock DEF Mutex!MutexNext
  <2>3. CASE Reenter(c, r)
    BY <2>3, OwnersStutter DEF Reenter, HasToken
  <2>4. CASE Register(c, r)
    <3>1. stage[c][r] \notin {"taken", "held"}
      BY <2>4 DEF Register, NextRoom, Settled, Marker
    <3>2. stage' = [stage EXCEPT ![c] = [@ EXCEPT ![r] = "waiting"]]
      BY <2>4 DEF Register
    <3>3. \A d \in Callers, s \in Rooms : HasToken(d, s)' <=> HasToken(d, s)
      BY <3>1, <3>2 DEF LockInv, TypeOK, HasToken
    <3> QED
      BY <3>3, OwnersStutter
  <2>5. ASSUME \/ WaitCancelled(c, r) \/ TryBusy(c, r)
               \/ ReleaseReference(c, r) \/ RepeatRelease(c, r)
        PROVE  UNCHANGED roomOwner
    <3>1. /\ stage[c][r] \notin {"taken", "held"}
          /\ \E st \in {"unref", "done", "none"} :
               stage' = [stage EXCEPT ![c] = [@ EXCEPT ![r] = st]]
      BY <2>5 DEF WaitCancelled, TryBusy, ReleaseReference, RepeatRelease
    <3>2. \A d \in Callers, s \in Rooms : HasToken(d, s)' <=> HasToken(d, s)
      BY <3>1 DEF LockInv, TypeOK, HasToken
    <3> QED
      BY <3>2, OwnersStutter
  <2>6. CASE Granted(c, r)
    <3>1. \A d \in Callers, s \in Rooms : HasToken(d, s)' <=> HasToken(d, s)
      BY <2>6 DEF LockInv, TypeOK, HasToken, Granted
    <3> QED
      BY <3>1, OwnersStutter
  <2> QED
    BY <1>3, <2>1, <2>2, <2>3, <2>4, <2>5, <2>6 DEF RoomStep
<1> QED
  BY <1>1, <1>2, <1>3 DEF Next

\* The detailed lock implements the abstract mutex: an operation gets a room
\* that is free, and only the operation that has it gives it up.
THEOREM LockImplementsMutex == Spec => ImplementsMutex
<1>1. Init => Mutex!MutexInit
  BY DEF Init, Mutex!MutexInit, roomOwner, HasToken
<1>2. LockInv /\ LockInv' /\ [Next]_vars => [Mutex!MutexNext]_roomOwner
  BY MutexStep
<1> QED
  BY <1>1, <1>2, SpecLockInv, PTL DEF Spec, ImplementsMutex, Mutex!MutexSpec
=============================================================================
