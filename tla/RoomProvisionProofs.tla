------------------------- MODULE RoomProvisionProofs -------------------------
(***************************************************************************)
(* Proofs about a room provisioning (RoomProvision), for every number of   *)
(* worlds and targets, of failures, late calls, deaths and recoveries.     *)
(*                                                                         *)
(* ProvisionServed and ProvisionSettled speak of the placement, the copies *)
(* and the processes; a run of the coordinator acts on what the row of the *)
(* operation and the rows of its steps say, and on the copy of them that   *)
(* it read. The invariant ties the three together:                         *)
(*                                                                         *)
(*   Ground   what the rows say of the world, whoever runs: before the     *)
(*            decision (UndecidedTrue) no copy is live, no process runs on *)
(*            a target, and a late call is one transfer or an undo; after  *)
(*            it (OnwardTrue) every copy is published and no process of a  *)
(*            moved world runs at home; a row that has ended tells the     *)
(*            truth (EndTrue);                                             *)
(*   Going    what a run supposes at each of its places: the direction it  *)
(*            reads is the row's (Headed), the way out has met no failure  *)
(*            (OutTrue), and each loop has done what lies behind it        *)
(*            (UndoTrue, RestoreTrue, OnTrue).                             *)
(*                                                                         *)
(* The types hold always. The rest holds until the save of the decision    *)
(* took effect and was reported as failed (misdecided), after which the    *)
(* run rolls back what the row says to keep, or a recovery used a row that *)
(* had changed since it was read (overtaken).                              *)
(***************************************************************************)
EXTENDS RoomProvision, TLAPS, WellFoundedInduction

\* The run and the request as records.
Runs == [at : SavePlaces \cup StepPlaces \cup CallPlaces \cup LocalPlaces,
         first : BOOLEAN, shard : 0 .. LastShard, head : Headers \cup {NoOperation},
         steps : [Shards -> StepRows], staged : BOOLEAN, forward : BOOLEAN, bad : BOOLEAN]
Places == SavePlaces \cup StepPlaces \cup CallPlaces \cup LocalPlaces

\* The places of a run by the direction it takes.
HaltPlaces == {"stopping", "halt", "stopped", "stage"}
MovePlaces == {"uploading", "planned", "begin", "unsent", "writing", "write", "commit",
               "published"}
SettlePlaces == {"recheck", "publish", "mark", "decide"}
OutPlaces == HaltPlaces \cup MovePlaces \cup SettlePlaces
RestorePlaces == {"restore", "start", "started"}
UndoPlaces == {"undo", "undone", "revert", "close", "require"} \cup RestorePlaces
OnPlaces == {"resolve", "apply", "applied", "complete", "completed", "unstage", "end", "require"}
            \cup RestorePlaces
MovingPlaces == MovePlaces \cup {"complete", "completed", "undo", "undone"}

\* The row says that the placement is, or is to be, the wanted one.
Onward == Decided(operation.phase) \/ operation.phase = "completed"

TransferCalls == {"begin", "write", "commit"}

\* A run is at one of its places, at a world that the place is for, and has a row.
RunOk(t) ==
    /\ t \in Runs
    /\ t # Nobody => t.at # "idle" /\ t.head # NoOperation
    /\ t.at = "idle" => t = Nobody
    /\ t.at \in MovingPlaces => t.shard \in MovedShards
    /\ t.at \in {"halt", "start", "started"} => t.shard \in Shards

\* What holds in every state, whatever became of the decision.
RunTyped ==
    /\ RunOk(worker)
    /\ worker # Nobody => operation # NoOperation /\ token >= 1
    /\ request # NoAsk => /\ operation # NoOperation
                          /\ request.head # NoOperation /\ ~Ended(request.head)
    /\ token + (IF request # NoAsk THEN 1 ELSE 0) <= count.asks + 1
    /\ operation = NoOperation => token = 0
ProvTyped == ProvTypeOK /\ RunTyped

\* No decision went wrong and no recovery used a row that had changed.
Sound == ~misdecided /\ ~overtaken


Cleared(w) == copy[w] = "none" \/ (copy[w] = "begun" /\ w \in intruded)

\* What the rows of the steps, or a run's copy of them, say before the decision ...
StepsUndecided(q) ==
    /\ \A w \in MovedShards :
          /\ q[w].phase = "not_started" => /\ copy[w] = "none"
                                           /\ \A c \in tardy : c.shard = w => c.call = "undo"
          /\ q[w].phase = "rolled_back" => Cleared(w)
          /\ q[w].phase \notin {"existing", "completed"}
    /\ \A w \in Shards : q[w].back => atHome[w]

\* ... and after it.
StepsOnward(q) ==
    /\ \A w \in MovedShards : q[w].phase = "completed" => copy[w] = "live"
    /\ \A w \in Shards : q[w].back => switched /\ (IF w \in MovedShards THEN away[w] ELSE atHome[w])

AllLive == \A w \in MovedShards : copy[w] = "live"

RowTrue ==
    /\ operation.status = "succeeded" <=> operation.phase = "completed"
    /\ operation.status = "rolled_back" <=> operation.phase = "rolled_back"
    /\ switched => Onward
    /\ operation = NoOperation => /\ tardy = {} /\ intruded = {} /\ clusterIni = "old"
                                  /\ \A w \in MovedShards : copy[w] = "none"

UndecidedTrue ==
    ~Onward =>
        /\ \A w \in MovedShards : ~away[w] /\ copy[w] # "live"
        /\ \A c \in tardy : c.call \in TransferCalls \cup {"undo"}
        /\ \A c, d \in tardy : c.call \in TransferCalls /\ d.call \in TransferCalls => c = d
        /\ intruded # {} => \A c \in tardy : c.call = "undo"
        /\ operation # NoOperation => StepsUndecided(steps)
        /\ clusterIni = "new" => unmarked \/ stageDir = "marked"

OnwardTrue ==
    Onward =>
        /\ \A w \in MovedShards : copy[w] \in {"published", "live"} /\ ~atHome[w]
        /\ \A w \in MovedShards : away[w] => switched
        /\ \A c \in tardy : c.call = "complete" \/ (c.call = "start" /\ switched)
        /\ StepsOnward(steps)
        /\ ClusterChanges => clusterIni = "new"

EndTrue ==
    /\ operation.status = "succeeded" =>
         /\ switched /\ AllLive
         /\ \A w \in Shards : wasUp[w] => IF w \in MovedShards THEN away[w] ELSE atHome[w]
    /\ operation.status = "rolled_back" =>
         /\ \A w \in MovedShards : Cleared(w)
         /\ \A w \in Shards : wasUp[w] => atHome[w]
         /\ unmarked \/ clusterIni = "old"

Ground == RowTrue /\ UndecidedTrue /\ OnwardTrue /\ EndTrue

\* The direction of a run is the direction of the row.
Headed ==
    /\ worker.at # "idle" => /\ ~Ended(operation)
                             /\ worker.forward <=> Onward
                             /\ worker.at \in IF worker.forward THEN OnPlaces
                                              ELSE OutPlaces \cup UndoPlaces
                             /\ IF Onward THEN StepsOnward(worker.steps)
                                ELSE StepsUndecided(worker.steps)
    /\ worker.forward => Decided(worker.head.phase)
    /\ ~worker.forward /\ worker.at \in {"start", "started", "require"} =>
           worker.head.phase = "runtime_restore_source"
    /\ worker.at # "idle" /\ ~worker.forward /\ worker.first /\ ~worker.staged => clusterIni = "old"

\* The first run until the decision: nothing has failed.
CopyIs(a) ==
    IF a \in {"uploading", "planned", "begin", "unsent"} THEN "none"
    ELSE IF a \in {"writing", "write"} THEN "begun"
    ELSE IF a = "commit" THEN "full" ELSE "published"
PhaseIs(a) ==
    IF a \in {"uploading", "planned"} THEN "not_started"
    ELSE IF a \in {"begin", "unsent", "writing"} THEN "planned" ELSE "uploading"

OutTrue ==
    worker.at \in OutPlaces =>
        /\ worker.first /\ ~worker.bad
        /\ tardy = {} /\ intruded = {}
        /\ worker.steps = steps
        /\ \A w \in Shards : ~steps[w].back
        /\ worker.at = "halt" => \A v \in Shards : v < worker.shard => ~atHome[v]
        /\ worker.at \notin {"stopping", "halt"} => \A v \in Shards : ~atHome[v]
        /\ worker.at \in HaltPlaces => ~worker.staged /\ \A w \in MovedShards : copy[w] = "none"
        /\ worker.at \in HaltPlaces => \A w \in MovedShards : steps[w].phase = "not_started"
        /\ worker.at \in MovePlaces =>
              /\ \A w \in MovedShards : w < worker.shard => copy[w] = "published"
              /\ \A w \in MovedShards : w > worker.shard => copy[w] = "none"
              /\ copy[worker.shard] = CopyIs(worker.at)
              /\ \A w \in MovedShards : w > worker.shard => steps[w].phase = "not_started"
              /\ steps[worker.shard].phase = PhaseIs(worker.at)
        /\ worker.at \in SettlePlaces => \A w \in MovedShards : copy[w] = "published"
        /\ worker.at \in MovePlaces \cup SettlePlaces => worker.staged = ClusterChanges
        /\ worker.at \in HaltPlaces \cup MovePlaces \cup {"recheck", "publish"} => clusterIni = "old"
        /\ worker.at \in {"publish", "mark"} => worker.staged
        /\ worker.at \in MovePlaces \cup {"recheck", "publish", "mark"} /\ worker.staged =>
               stageDir = "staged"
        /\ worker.at = "mark" => clusterIni = "new" /\ unmarked
        /\ worker.at = "decide" => (ClusterChanges => clusterIni = "new")

UndoTrue ==
    worker.at \in UndoPlaces /\ ~worker.forward =>
        /\ worker.at = "undo" => worker.steps[worker.shard].phase # "rolled_back"
        /\ worker.at = "undo" => \A v \in MovedShards : v > worker.shard =>
               worker.bad \/ worker.steps[v].phase = "rolled_back"
        /\ worker.at = "undone" => \A v \in MovedShards : v >= worker.shard =>
               worker.bad \/ worker.steps[v].phase = "rolled_back"
        /\ worker.at \notin {"undo", "undone"} => worker.bad \/ \A w \in MovedShards : Cleared(w)
        /\ worker.at \in RestorePlaces \cup {"close"} => worker.bad \/ clusterIni = "old" \/ unmarked

RestoreTrue ==
    /\ worker.at = "start" => /\ wasUp[worker.shard]
                              /\ \A v \in Shards : v < worker.shard /\ wasUp[v] => worker.steps[v].back
    /\ worker.at = "started" => \A v \in Shards : v <= worker.shard /\ wasUp[v] => worker.steps[v].back
    /\ worker.at \in {"end", "close"} => \A v \in Shards : wasUp[v] => worker.steps[v].back
    /\ worker.at = "close" => ~worker.bad

OnTrue ==
    worker.forward =>
        /\ worker.at \notin {"resolve", "apply", "require"} => switched
        /\ worker.at = "complete" =>
              \A v \in MovedShards : v < worker.shard => worker.steps[v].phase = "completed"
        /\ worker.at = "completed" =>
              \A v \in MovedShards : v <= worker.shard => worker.steps[v].phase = "completed"
        /\ worker.at \in {"unstage", "end"} \cup RestorePlaces => AllLive

Going == Headed /\ OutTrue /\ UndoTrue /\ RestoreTrue /\ OnTrue

ProvInv == ProvTyped /\ (Sound => Ground /\ Going)

-----------------------------------------------------------------------------
(* The next world and the previous one *)

LEMMA NextInIs ==
    ASSUME NEW w \in Nat, NEW S \in SUBSET Nat
    PROVE  \/ NextIn(w, S) = 0 /\ \A v \in S : v <= w
           \/ /\ NextIn(w, S) \in S /\ NextIn(w, S) > w
              /\ \A v \in S : v > w => NextIn(w, S) <= v
<1> DEFINE T == {v \in S : v > w}
<1>0. S \subseteq Nat /\ T \subseteq Nat
  OBVIOUS
<1>1. CASE T = {}
  <2>1. NextIn(w, S) = 0
    BY <1>1 DEF NextIn
  <2>2. \A v \in S : v \in Nat /\ ~(v > w)
    BY <1>0, <1>1
  <2> QED
    BY <2>1, <2>2
<1>2. CASE T # {}
  <2> DEFINE R == OpToRel(<, Nat)
  <2>1. IsWellFoundedOn(R, Nat)
    BY NatLessThanWellFounded
  <2>2. \A x, y \in Nat : x < y => <<x, y>> \in R
    BY DEF OpToRel
  <2> HIDE DEF R
  <2>3. PICK x \in T : \A y \in T : ~(<<y, x>> \in R)
    BY <1>0, <1>2, <2>1, WFMin
  <2>4. \A y \in T : x \in Nat /\ y \in Nat /\ ~(y < x)
    BY <1>0, <2>2, <2>3
  <2>5. \E v \in T : \A u \in T : v <= u
    BY <2>4
  <2>6. NextIn(w, S) = CHOOSE v \in T : \A u \in T : v <= u
    BY <1>2 DEF NextIn
  <2>7. NextIn(w, S) \in T /\ \A u \in T : NextIn(w, S) <= u
    BY <2>5, <2>6
  <2> QED
    BY <2>7
<1> QED
  BY <1>1, <1>2

LEMMA PrevInIs ==
    ASSUME NEW w \in Nat, NEW S \in SUBSET Nat
    PROVE  \/ PrevIn(w, S) = 0 /\ \A v \in S : v >= w
           \/ /\ PrevIn(w, S) \in S /\ PrevIn(w, S) < w
              /\ \A v \in S : v < w => PrevIn(w, S) >= v
<1> DEFINE T == {v \in S : v < w}
<1>0. S \subseteq Nat /\ T \subseteq Nat
  OBVIOUS
<1>1. CASE T = {}
  <2>1. PrevIn(w, S) = 0
    BY <1>1 DEF PrevIn
  <2>2. \A v \in S : v \in Nat /\ ~(v < w)
    BY <1>0, <1>1
  <2> QED
    BY <2>1, <2>2
<1>2. CASE T # {}
  <2> DEFINE U == {w - v : v \in T}
             R == OpToRel(<, Nat)
  <2>1. IsWellFoundedOn(R, Nat)
    BY NatLessThanWellFounded
  <2>2. \A x, y \in Nat : x < y => <<x, y>> \in R
    BY DEF OpToRel
  <2>3. \A v \in T : v \in Nat /\ v < w /\ w - v \in Nat
    BY <1>0
  <2>4. U \subseteq Nat /\ U # {}
    BY <1>2, <2>3
  <2> HIDE DEF R
  <2>5. PICK u \in U : \A y \in U : ~(<<y, u>> \in R)
    BY <2>1, <2>4, WFMin
  <2>6. PICK x \in T : u = w - x
    OBVIOUS
  <2>7. \A y \in T : ~(w - y < w - x)
    BY <2>2, <2>3, <2>4, <2>5, <2>6
  <2>8. \A y \in T : x >= y
    BY <2>3, <2>7
  <2>9. PrevIn(w, S) = CHOOSE v \in T : \A y \in T : v >= y
    BY <1>2 DEF PrevIn
  <2>10. PrevIn(w, S) \in T /\ \A y \in T : PrevIn(w, S) >= y
    BY <2>6, <2>8, <2>9
  <2> QED
    BY <2>10
<1> QED
  BY <1>1, <1>2

\* Where a loop over the worlds of S goes.
Walks(s, t, place, S, then) ==
    /\ t = [s EXCEPT !.at = t.at, !.shard = t.shard]
    /\ \/ /\ t.at = place /\ t.shard \in S /\ t.shard > s.shard
          /\ \A v \in S : v > s.shard => v >= t.shard
       \/ t.at = then /\ t.shard = 0 /\ \A v \in S : v <= s.shard

LEMMA ShardNumbers ==
    /\ Shards \subseteq Nat /\ MovedShards \subseteq Shards
    /\ \A w \in Shards : w >= 1 /\ w <= LastShard /\ w \in 0 .. LastShard
    /\ LastShard \in Nat /\ MaxAsks \in Nat
BY ProvisionAssumption DEF ProvisionAssumption, Shards

LEMMA WalkWalks ==
    ASSUME NEW s \in Runs, NEW S \in SUBSET Shards, NEW place, NEW then, place # then
    PROVE  Walks(s, Walk(s, place, S, then), place, S, then)
<1> DEFINE w == NextIn(s.shard, S)
           t == Walk(s, place, S, then)
<1>1. S \in SUBSET Nat /\ s.shard \in Nat
  BY ShardNumbers DEF Runs
<1>2. /\ \/ w = 0 /\ \A v \in S : v <= s.shard
         \/ w \in S /\ w > s.shard /\ \A v \in S : v > s.shard => w <= v
  BY <1>1, NextInIs
<1>3. t = IF w # 0 THEN [s EXCEPT !.at = place, !.shard = w]
          ELSE [s EXCEPT !.at = then, !.shard = 0]
  BY DEF Walk
<1> HIDE DEF w
<1>4. CASE w = 0
  <2>1. \A v \in S : v <= s.shard
    BY <1>1, <1>2, <1>4
  <2>2. t = [s EXCEPT !.at = then, !.shard = 0]
    BY <1>3, <1>4
  <2>3. t.at = then /\ t.shard = 0
    BY <2>2 DEF Runs
  <2> HIDE DEF t
  <2>4. Walks(s, t, place, S, then)
    BY <2>1, <2>2, <2>3 DEF Walks
  <2> QED
    BY <2>4 DEF t
<1>5. CASE w # 0
  <2>1. w \in S /\ w > s.shard /\ \A v \in S : v > s.shard => w <= v
    BY <1>1, <1>2, <1>5
  <2>2. t = [s EXCEPT !.at = place, !.shard = w]
    BY <1>3, <1>5
  <2>3. t.at = place /\ t.shard = w
    BY <2>2 DEF Runs
  <2>4. \A v \in S : v > s.shard => v >= w
    BY <1>1, <2>1
  <2> HIDE DEF t
  <2>5. Walks(s, t, place, S, then)
    BY <2>1, <2>2, <2>3, <2>4 DEF Walks
  <2> QED
    BY <2>5 DEF t
<1> QED
  BY <1>4, <1>5

\* Where the way back goes from a world down.
GoesBack(s, k, t) ==
    /\ t = [s EXCEPT !.at = t.at, !.shard = t.shard]
    /\ \/ /\ t.at = "undo" /\ t.shard \in MovedShards /\ t.shard < k
          /\ s.steps[t.shard].phase \notin {"rolled_back", "existing"}
          /\ \A v \in MovedShards : t.shard < v /\ v < k =>
                 s.steps[v].phase \in {"rolled_back", "existing"}
       \/ /\ t.at = IF s.first /\ ~s.staged THEN "restore" ELSE "revert"
          /\ t.shard = 0
          /\ \A v \in MovedShards : v < k => s.steps[v].phase \in {"rolled_back", "existing"}

\* A record with the fields of a run, its shard aside.
RunLike == [at : Places, first : BOOLEAN, shard : Nat, head : Headers \cup {NoOperation},
            steps : [Shards -> StepRows], staged : BOOLEAN, forward : BOOLEAN, bad : BOOLEAN]

LEMMA UndoNextGoesBack ==
    ASSUME NEW s \in RunLike
    PROVE  GoesBack(s, s.shard, UndoNext(s))
<1> DEFINE S == Undoable(s)
           w == PrevIn(s.shard, S)
           t == UndoNext(s)
<1>1. S \in SUBSET Nat /\ s.shard \in Nat /\ S \subseteq MovedShards
  BY ShardNumbers DEF RunLike, Undoable
<1>1a. \A v \in MovedShards : v \in S <=> s.steps[v].phase \notin {"rolled_back", "existing"}
  BY DEF Undoable
<1> HIDE DEF S
<1>2. \/ w = 0 /\ \A v \in S : v >= s.shard
      \/ w \in S /\ w < s.shard /\ \A v \in S : v < s.shard => w >= v
  BY <1>1, PrevInIs
<1>2a. 0 \notin S
  BY <1>1, ShardNumbers
<1>3. t = IF w # 0 THEN [s EXCEPT !.at = "undo", !.shard = w]
          ELSE [s EXCEPT !.at = IF s.first /\ ~s.staged THEN "restore" ELSE "revert", !.shard = 0]
  BY DEF UndoNext, S
<1> HIDE DEF w
<1>4. CASE w = 0
  <2>1. \A v \in S : v >= s.shard
    BY <1>2, <1>2a, <1>4
  <2>2. t = [s EXCEPT !.at = IF s.first /\ ~s.staged THEN "restore" ELSE "revert", !.shard = 0]
    BY <1>3, <1>4
  <2>3. t.at = (IF s.first /\ ~s.staged THEN "restore" ELSE "revert") /\ t.shard = 0
    BY <2>2 DEF RunLike
  <2>3a. \A v \in MovedShards : v < s.shard => v \notin S
    BY <1>1, <2>1
  <2>4. \A v \in MovedShards : v < s.shard => s.steps[v].phase \in {"rolled_back", "existing"}
    BY <2>3a, <1>1a
  <2> HIDE DEF t
  <2>5. GoesBack(s, s.shard, t)
    BY <2>2, <2>3, <2>4 DEF GoesBack
  <2> QED
    BY <2>5 DEF t
<1>5. CASE w # 0
  <2>1. w \in S /\ w < s.shard /\ \A v \in S : v < s.shard => w >= v
    BY <1>2, <1>5
  <2>2. t = [s EXCEPT !.at = "undo", !.shard = w]
    BY <1>3, <1>5
  <2>3. t.at = "undo" /\ t.shard = w
    BY <2>2 DEF RunLike
  <2>3a. \A v \in MovedShards : w < v /\ v < s.shard => v \notin S
    BY <1>1, <2>1
  <2>4. \A v \in MovedShards : w < v /\ v < s.shard =>
            s.steps[v].phase \in {"rolled_back", "existing"}
    BY <2>3a, <1>1a
  <2> HIDE DEF t
  <2>5. GoesBack(s, s.shard, t)
    BY <1>1, <1>1a, <2>1, <2>2, <2>3, <2>4 DEF GoesBack
  <2> QED
    BY <2>5 DEF t
<1> QED
  BY <1>4, <1>5

-----------------------------------------------------------------------------
(* Runs and what becomes of them *)

\* A run begins its way back: every moved world behind its place is undone.
TurnsBack(s, t) ==
    /\ RunOk(t) /\ ~t.forward
    /\ t.first = s.first /\ t.head = s.head /\ t.steps = s.steps
    /\ t.staged = s.staged /\ t.bad = s.bad
    /\ t.at \in {"undo", "restore", "revert"}
    /\ t.at = "undo" =>
          /\ t.shard \in MovedShards
          /\ s.steps[t.shard].phase \notin {"rolled_back", "existing"}
          /\ \A v \in MovedShards : v > t.shard => s.steps[v].phase \in {"rolled_back", "existing"}
    /\ t.at # "undo" => \A v \in MovedShards : s.steps[v].phase \in {"rolled_back", "existing"}
    /\ t.at = "restore" => s.first /\ ~s.staged

LEMMA PlaceNames ==
    /\ OutPlaces \cup UndoPlaces \cup OnPlaces \cup MovingPlaces \subseteq Places
    /\ SavePlaces \cup StepPlaces \cup CallPlaces \subseteq Places
    /\ "idle" \in Places
BY DEF OutPlaces, UndoPlaces, OnPlaces, MovingPlaces, Places, SavePlaces, StepPlaces, CallPlaces,
       LocalPlaces, HaltPlaces, MovePlaces, SettlePlaces, RestorePlaces

LEMMA UndoingTurnsBack ==
    ASSUME NEW s \in Runs, s.head # NoOperation
    PROVE  TurnsBack(s, Undoing(s))
<1> DEFINE k == LastShard + 1
           u == [s EXCEPT !.shard = k, !.forward = FALSE]
<1>0. LastShard \in Nat /\ k \in Nat /\ \A v \in MovedShards : v \in 0 .. LastShard /\ v < k
  BY ShardNumbers
<1>1. u \in RunLike
  BY <1>0 DEF Runs, RunLike, Places
<1>2. /\ u.shard = k /\ ~u.forward /\ u.first = s.first /\ u.head = s.head /\ u.steps = s.steps
      /\ u.staged = s.staged /\ u.bad = s.bad
  BY DEF Runs
<1>3. Undoing(s) = UndoNext(u)
  BY DEF Undoing
<1> HIDE DEF u, k
<1>4. PICK t : t = UndoNext(u)
  OBVIOUS
<1>5. GoesBack(u, k, t)
  BY <1>1, <1>2, <1>4, UndoNextGoesBack
<1>6. t = [u EXCEPT !.at = t.at, !.shard = t.shard]
  BY <1>5 DEF GoesBack
<1>7. /\ ~t.forward /\ t.first = s.first /\ t.head = s.head /\ t.steps = s.steps
      /\ t.staged = s.staged /\ t.bad = s.bad
  BY <1>1, <1>2, <1>6 DEF RunLike
<1>8. /\ t.at \in {"undo", "restore", "revert"}
      /\ t.at = "undo" => t.shard \in MovedShards
      /\ t.at # "undo" => t.shard = 0
      /\ t.at = "restore" => s.first /\ ~s.staged
  BY <1>2, <1>5 DEF GoesBack
<1>9. t.shard \in 0 .. LastShard
  BY <1>0, <1>8
<1>10. t.at \in Places
  BY <1>8 DEF Places, CallPlaces, SavePlaces, LocalPlaces
<1>11. t \in Runs
  BY <1>1, <1>6, <1>9, <1>10 DEF RunLike, Runs, Places
<1>12. RunOk(t)
  <2>1. t.at \notin {"idle", "halt", "start", "started"}
    BY <1>8
  <2>2. t.at \in MovingPlaces => t.shard \in MovedShards
    BY <1>8 DEF MovingPlaces, MovePlaces
  <2>3. t.head # NoOperation
    BY <1>7
  <2> QED
    BY <1>11, <2>1, <2>2, <2>3 DEF RunOk
<1>13. t.at = "undo" =>
          /\ s.steps[t.shard].phase \notin {"rolled_back", "existing"}
          /\ \A v \in MovedShards : v > t.shard => s.steps[v].phase \in {"rolled_back", "existing"}
  BY <1>0, <1>2, <1>5 DEF GoesBack
<1>14. t.at # "undo" => \A v \in MovedShards : s.steps[v].phase \in {"rolled_back", "existing"}
  BY <1>0, <1>2, <1>5 DEF GoesBack
<1> QED
  BY <1>3, <1>4, <1>7, <1>8, <1>12, <1>13, <1>14 DEF TurnsBack

\* A run that is on its way back goes on to the world before.
StepsBack(s, t) ==
    /\ RunOk(t)
    /\ t.first = s.first /\ t.head = s.head /\ t.steps = s.steps /\ t.forward = s.forward
    /\ t.staged = s.staged /\ t.bad = s.bad
    /\ t.at \in {"undo", "restore", "revert"}
    /\ t.at = "undo" =>
          /\ t.shard \in MovedShards
          /\ s.steps[t.shard].phase \notin {"rolled_back", "existing"}
          /\ \A v \in MovedShards : v > t.shard /\ v < s.shard =>
                 s.steps[v].phase \in {"rolled_back", "existing"}
    /\ t.at # "undo" => \A v \in MovedShards : v < s.shard =>
                 s.steps[v].phase \in {"rolled_back", "existing"}
    /\ t.at = "restore" => s.first /\ ~s.staged

LEMMA UndoNextStepsBack ==
    ASSUME NEW s \in Runs, s.head # NoOperation
    PROVE  StepsBack(s, UndoNext(s))
<1>0. LastShard \in Nat /\ \A v \in MovedShards : v \in 0 .. LastShard
  BY ShardNumbers
<1>1. s \in RunLike
  BY <1>0 DEF Runs, RunLike, Places
<1>4. PICK t : t = UndoNext(s)
  OBVIOUS
<1>5. GoesBack(s, s.shard, t)
  BY <1>1, <1>4, UndoNextGoesBack
<1>6. t = [s EXCEPT !.at = t.at, !.shard = t.shard]
  BY <1>5 DEF GoesBack
<1>7. /\ t.forward = s.forward /\ t.first = s.first /\ t.head = s.head /\ t.steps = s.steps
      /\ t.staged = s.staged /\ t.bad = s.bad
  BY <1>6 DEF Runs
<1>8. /\ t.at \in {"undo", "restore", "revert"}
      /\ t.at = "undo" => t.shard \in MovedShards
      /\ t.at # "undo" => t.shard = 0
      /\ t.at = "restore" => s.first /\ ~s.staged
  BY <1>5 DEF GoesBack
<1>9. t.shard \in 0 .. LastShard
  BY <1>0, <1>8
<1>10. t.at \in Places
  BY <1>8 DEF Places, CallPlaces, SavePlaces, LocalPlaces
<1>11. t \in Runs
  BY <1>6, <1>9, <1>10 DEF Runs, Places
<1>12. RunOk(t)
  <2>1. t.at \notin {"idle", "halt", "start", "started"}
    BY <1>8
  <2>2. t.at \in MovingPlaces => t.shard \in MovedShards
    BY <1>8 DEF MovingPlaces, MovePlaces
  <2>3. t.head # NoOperation
    BY <1>7
  <2> QED
    BY <1>11, <2>1, <2>2, <2>3 DEF RunOk
<1>13. t.at = "undo" =>
          /\ s.steps[t.shard].phase \notin {"rolled_back", "existing"}
          /\ \A v \in MovedShards : v > t.shard /\ v < s.shard =>
                 s.steps[v].phase \in {"rolled_back", "existing"}
  BY <1>5 DEF GoesBack
<1>14. t.at # "undo" => \A v \in MovedShards : v < s.shard =>
                 s.steps[v].phase \in {"rolled_back", "existing"}
  BY <1>5 DEF GoesBack
<1> QED
  BY <1>4, <1>7, <1>8, <1>12, <1>13, <1>14 DEF StepsBack

\* A run walks over the worlds of S: its other fields stay.
Keeps(s, t) ==
    /\ t.first = s.first /\ t.head = s.head /\ t.steps = s.steps /\ t.forward = s.forward
    /\ t.staged = s.staged /\ t.bad = s.bad

LEMMA WalkIsOk ==
    ASSUME NEW s \in Runs, NEW S \in SUBSET Shards, NEW place \in Places, NEW then \in Places,
           NEW t, Walks(s, t, place, S, then), s.head # NoOperation,
           place # "idle", then # "idle", place \in MovingPlaces => S \subseteq MovedShards,
           then \notin MovingPlaces \cup {"halt", "start", "started"}
    PROVE  RunOk(t) /\ Keeps(s, t)
<1>1. t = [s EXCEPT !.at = t.at, !.shard = t.shard]
  BY DEF Walks
<1>2. /\ t.at \in {place, then} /\ (t.shard = 0 \/ t.shard \in S)
      /\ t.at = place \/ t.at = then
      /\ t.at # then => t.at = place /\ t.shard \in S
  BY DEF Walks
<1>3. t.shard \in 0 .. LastShard
  <2>1. 0 \in 0 .. LastShard /\ \A w \in S : w \in 0 .. LastShard
    BY ShardNumbers
  <2> QED
    BY <1>2, <2>1
<1>4. t \in Runs
  BY <1>1, <1>2, <1>3 DEF Runs, Places
<1>5. Keeps(s, t)
  BY <1>1 DEF Runs, Keeps
<1>6. t.at # "idle" /\ t.head # NoOperation
  BY <1>2, <1>5 DEF Keeps
<1>7. t.at \in MovingPlaces => t.shard \in MovedShards
  BY <1>2
<1>8. t.at \in {"halt", "start", "started"} => t.shard \in Shards
  BY <1>2
<1> QED
  BY <1>4, <1>5, <1>6, <1>7, <1>8 DEF RunOk

\* A run of which only the place changes, or that is at the same world of another place.
LEMMA RunGoesTo ==
    ASSUME NEW s \in Runs, s.head # NoOperation, NEW a \in Places, a # "idle",
           a \in MovingPlaces => s.shard \in MovedShards,
           a \in {"halt", "start", "started"} => s.shard \in Shards
    PROVE  RunOk([s EXCEPT !.at = a])
<1>1. PICK t : t = [s EXCEPT !.at = a]
  OBVIOUS
<1>2. t \in Runs /\ t.at = a /\ t.shard = s.shard /\ t.head = s.head
  BY <1>1 DEF Runs, Places
<1>3. RunOk(t)
  BY <1>2 DEF RunOk
<1> QED
  BY <1>1, <1>3

\* What a save of the row writes.
LEMMA HeaderIs ==
    ASSUME NEW s \in Runs, s.head # NoOperation, s.at \in SavePlaces
    PROVE  /\ Header(s) \in Headers /\ Header(s) # NoOperation
           /\ s.at \in {"stopping", "stopped", "uploading"} =>
                 Header(s) = [phase |-> s.at, status |-> "running"]
           /\ s.at = "decide" => Header(s) = [phase |-> "commit_decided", status |-> "running"]
           /\ s.at = "applied" => Header(s) = [phase |-> "topology_committed", status |-> "running"]
           /\ s.at = "restore" => Header(s) = [phase |-> IF s.forward THEN "runtime_restore_target"
                                        ELSE "runtime_restore_source", status |-> "running"]
           /\ s.at = "end" => Header(s) = [phase |-> "completed", status |-> "succeeded"]
           /\ s.at = "close" => Header(s) = [phase |-> "rolled_back", status |-> "rolled_back"]
           /\ s.at = "require" => Header(s) = [phase |-> s.head.phase, status |-> "recovery_required"]
<1>0. s.head \in Headers /\ s.head.phase \in OperationPhases
  BY DEF Runs, Headers
<1>1. CASE s.at = "stopping"
  BY <1>1 DEF Header, Headers, OperationPhases, NoOperation
<1>2. CASE s.at = "stopped"
  BY <1>2 DEF Header, Headers, OperationPhases, NoOperation
<1>3. CASE s.at = "uploading"
  BY <1>3 DEF Header, Headers, OperationPhases, NoOperation
<1>4. CASE s.at = "decide"
  BY <1>4 DEF Header, Headers, OperationPhases, NoOperation
<1>5. CASE s.at = "applied"
  BY <1>5 DEF Header, Headers, OperationPhases, NoOperation
<1>6. CASE s.at = "restore"
  <2>1. Header(s) = [phase |-> IF s.forward THEN "runtime_restore_target"
                               ELSE "runtime_restore_source", status |-> "running"]
    BY <1>6 DEF Header
  <2> QED
    BY <1>6, <2>1 DEF Headers, OperationPhases, NoOperation
<1>7. CASE s.at = "end"
  BY <1>7 DEF Header, Headers, OperationPhases, NoOperation
<1>8. CASE s.at = "close"
  BY <1>8 DEF Header, Headers, OperationPhases, NoOperation
<1>9. CASE s.at = "require"
  <2>1. Header(s) = [phase |-> s.head.phase, status |-> "recovery_required"]
    BY <1>9 DEF Header
  <2> QED
    BY <1>0, <1>9, <2>1 DEF Headers, NoOperation
<1> QED
  BY <1>1, <1>2, <1>3, <1>4, <1>5, <1>6, <1>7, <1>8, <1>9 DEF SavePlaces

\* What a save of a step writes.
LEMMA StepRowIs ==
    ASSUME NEW s \in Runs, s.at \in StepPlaces, s.shard \in Shards
    PROVE  /\ StepRow(s) \in StepRows
           /\ StepRow(s).back = s.steps[s.shard].back
           /\ StepRow(s).phase = IF s.at \in {"planned", "published"} THEN s.at
                                 ELSE IF s.at = "unsent" THEN "not_started"
                                 ELSE IF s.at = "writing" THEN "uploading"
                                 ELSE s.steps[s.shard].phase
           /\ s.at \in {"completed", "undone", "started"} => StepRow(s) = s.steps[s.shard]
<1> DEFINE r == s.steps[s.shard]
<1>1. r \in StepRows
  BY DEF Runs
<1>2. CASE s.at = "planned"
  <2>1. StepRow(s) = [r EXCEPT !.phase = "planned"]
    BY <1>2 DEF StepRow
  <2> QED
    BY <1>1, <1>2, <2>1 DEF StepRows, StepPhases
<1>3. CASE s.at = "unsent"
  <2>1. StepRow(s) = [r EXCEPT !.phase = "not_started"]
    BY <1>3 DEF StepRow
  <2> QED
    BY <1>1, <1>3, <2>1 DEF StepRows, StepPhases
<1>4. CASE s.at = "writing"
  <2>1. StepRow(s) = [r EXCEPT !.phase = "uploading"]
    BY <1>4 DEF StepRow
  <2> QED
    BY <1>1, <1>4, <2>1 DEF StepRows, StepPhases
<1>5. CASE s.at = "published"
  <2>1. StepRow(s) = [r EXCEPT !.phase = "published"]
    BY <1>5 DEF StepRow
  <2> QED
    BY <1>1, <1>5, <2>1 DEF StepRows, StepPhases
<1>6. CASE s.at \in {"completed", "undone", "started"}
  <2>1. StepRow(s) = r
    BY <1>6 DEF StepRow
  <2> QED
    BY <1>1, <1>6, <2>1
<1> QED
  BY <1>2, <1>3, <1>4, <1>5, <1>6 DEF StepPlaces

LEMMA Typed ==
    ASSUME ProvTyped
    PROVE  /\ worker \in Runs /\ RunOk(worker)
           /\ worker # Nobody <=> worker.at # "idle"
           /\ worker.at # "idle" => worker.head # NoOperation /\ worker.head \in Headers
                                    /\ operation # NoOperation /\ operation \in Headers
                                    /\ token >= 1
           /\ worker.shard \in Nat
           /\ steps \in [Shards -> StepRows] /\ wasUp \in [Shards -> BOOLEAN]
           /\ atHome \in [Shards -> BOOLEAN] /\ away \in [MovedShards -> BOOLEAN]
           /\ copy \in [MovedShards -> {"none", "begun", "full", "published", "live"}]
           /\ token \in Nat /\ met \in [MovedShards -> Nat]
           /\ Nobody.at = "idle" /\ ~Nobody.forward /\ ~Nobody.first /\ Nobody.shard = 0
           /\ Nobody \in Runs /\ RunOk(Nobody)
<1>1. worker \in Runs /\ RunOk(worker)
  BY DEF ProvTyped, ProvTypeOK, Runs, RunTyped
<1>2. Nobody.at = "idle" /\ ~Nobody.forward /\ ~Nobody.first /\ Nobody.shard = 0
  BY DEF Nobody
<1>3. Nobody \in Runs
  <2>1. [w \in Shards |-> [phase |-> "not_started", back |-> FALSE]] \in [Shards -> StepRows]
    BY DEF StepRows, StepPhases
  <2>2. 0 \in 0 .. LastShard
    BY ShardNumbers
  <2>3. "idle" \in SavePlaces \cup StepPlaces \cup CallPlaces \cup LocalPlaces
    BY DEF LocalPlaces
  <2> QED
    BY <2>1, <2>2, <2>3 DEF Nobody, Runs
<1>4. RunOk(Nobody)
  BY <1>2, <1>3 DEF RunOk, MovingPlaces, MovePlaces
<1>5. worker # Nobody <=> worker.at # "idle"
  BY <1>1, <1>2 DEF RunOk
<1>6. worker.shard \in Nat
  BY <1>1, ShardNumbers DEF Runs
<1>7. worker.at # "idle" => worker.head # NoOperation /\ worker.head \in Headers
                            /\ operation # NoOperation /\ operation \in Headers /\ token >= 1
  BY <1>1, <1>5 DEF RunOk, Runs, ProvTyped, RunTyped, ProvTypeOK
<1>8. token \in Nat /\ met \in [MovedShards -> Nat]
  <2>1. 0 .. MaxAsks + 1 \subseteq Nat
    BY ShardNumbers
  <2> QED
    BY <2>1 DEF ProvTyped, ProvTypeOK
<1> QED
  BY <1>1, <1>2, <1>3, <1>4, <1>5, <1>6, <1>7, <1>8 DEF ProvTyped, ProvTypeOK

-----------------------------------------------------------------------------
(* The loops of a run *)

\* A loop over S goes on from the world k, or ends.
Reaches(t, k, place, S, then) ==
    \/ /\ t.at = place /\ t.shard \in S /\ t.shard > k
       /\ \A v \in S : v > k => v >= t.shard
    \/ t.at = then /\ t.shard = 0 /\ \A v \in S : v <= k

Loops(s, t, place, S, then) == RunOk(t) /\ Keeps(s, t) /\ Reaches(t, s.shard, place, S, then)

LEMMA WalkLoops ==
    ASSUME NEW s \in Runs, NEW S \in SUBSET Shards, NEW place \in Places, NEW then \in Places,
           s.head # NoOperation, place # then,
           place # "idle", then # "idle", place \in MovingPlaces => S \subseteq MovedShards,
           then \notin MovingPlaces \cup {"halt", "start", "started"}
    PROVE  Loops(s, Walk(s, place, S, then), place, S, then)
<1>1. PICK t : t = Walk(s, place, S, then)
  OBVIOUS
<1>2. Walks(s, t, place, S, then)
  BY <1>1, WalkWalks
<1>3. RunOk(t) /\ Keeps(s, t)
  BY <1>2, WalkIsOk
<1>4. Reaches(t, s.shard, place, S, then)
  BY <1>2 DEF Walks, Reaches
<1>5. Loops(s, t, place, S, then)
  BY <1>3, <1>4 DEF Loops
<1> QED
  BY <1>1, <1>5

LEMMA SomePlaces ==
    /\ {"halt", "stopped", "uploading", "recheck", "complete", "restore", "unstage", "start", "end",
        "require", "close"} \subseteq Places \ {"idle"}
    /\ \A a \in {"stopped", "recheck", "restore", "unstage", "end", "require", "close"} :
           a \notin MovingPlaces \cup {"halt", "start", "started"}
    /\ {"halt", "start"} \cap MovingPlaces = {}
BY DEF Places, SavePlaces, CallPlaces, LocalPlaces, StepPlaces, MovingPlaces, MovePlaces

LEMMA HaltingLoops ==
    ASSUME NEW s \in Runs, s.head # NoOperation
    PROVE  Loops(s, Halting(s), "halt", {w \in Shards : atHome[w]}, "stopped")
<1> DEFINE S == {w \in Shards : atHome[w]}
<1>1. S \in SUBSET Shards
  OBVIOUS
<1>2. Halting(s) = Walk(s, "halt", S, "stopped")
  BY DEF Halting
<1> HIDE DEF S
<1>3. Loops(s, Walk(s, "halt", S, "stopped"), "halt", S, "stopped")
  BY <1>1, WalkLoops, SomePlaces
<1>4. Loops(s, Halting(s), "halt", S, "stopped")
  BY <1>2, <1>3
<1> QED
  BY <1>4 DEF S

LEMMA TransferLoops ==
    ASSUME NEW s \in Runs, s.head # NoOperation
    PROVE  Loops(s, TransferNext(s), "uploading", MovedShards, "recheck")
<1>1. Loops(s, Walk(s, "uploading", MovedShards, "recheck"), "uploading", MovedShards, "recheck")
  BY WalkLoops, SomePlaces, ShardNumbers
<1> QED
  BY <1>1 DEF TransferNext

LEMMA CompleteLoops ==
    ASSUME NEW s \in Runs, s.head # NoOperation
    PROVE  /\ Loops(s, CompleteNext(s), "complete", Uncompleted(s), AfterCompletion(s))
           /\ AfterCompletion(s) \in {"restore", "unstage"}
<1>1. Uncompleted(s) \in SUBSET Shards /\ Uncompleted(s) \subseteq MovedShards
  BY ShardNumbers DEF Uncompleted
<1>2. AfterCompletion(s) \in {"restore", "unstage"}
  BY DEF AfterCompletion
<1>3. CompleteNext(s) = Walk(s, "complete", Uncompleted(s), AfterCompletion(s))
  BY DEF CompleteNext
<1>4. PICK a : a = AfterCompletion(s)
  OBVIOUS
<1>5. PICK S : S = Uncompleted(s)
  OBVIOUS
<1>6. a \in Places /\ a # "idle" /\ a # "complete" /\ a \notin MovingPlaces \cup {"halt", "start", "started"}
  BY <1>2, <1>4, SomePlaces
<1>7. "complete" \in Places /\ "complete" # "idle"
  BY SomePlaces
<1>8. Loops(s, Walk(s, "complete", S, a), "complete", S, a)
  BY <1>1, <1>5, <1>6, <1>7, WalkLoops
<1> QED
  BY <1>2, <1>3, <1>4, <1>5, <1>8

LEMMA RestoreLoops ==
    ASSUME NEW s \in Runs, s.head # NoOperation
    PROVE  /\ Loops(s, RestoreNext(s), "start", Restorable(s), Restarted(s))
           /\ Restarted(s) = IF s.forward THEN "end" ELSE IF s.bad THEN "require" ELSE "close"
<1>1. Restorable(s) \in SUBSET Shards
  BY DEF Restorable
<1>2. Restarted(s) \in {"end", "require", "close"}
  BY DEF Restarted
<1>3. RestoreNext(s) = Walk(s, "start", Restorable(s), Restarted(s))
  BY DEF RestoreNext
<1>4. PICK a : a = Restarted(s)
  OBVIOUS
<1>5. PICK S : S = Restorable(s)
  OBVIOUS
<1>6. a \in Places /\ a # "idle" /\ a # "start" /\ a \notin MovingPlaces \cup {"halt", "start", "started"}
  BY <1>2, <1>4, SomePlaces
<1>7. "start" \in Places /\ "start" # "idle" /\ "start" \notin MovingPlaces
  BY SomePlaces
<1>8. Loops(s, Walk(s, "start", S, a), "start", S, a)
  BY <1>1, <1>5, <1>6, <1>7, WalkLoops
<1> QED
  BY <1>3, <1>4, <1>5, <1>8 DEF Restarted

\* A run that does the same at another place.
GoesTo(s, t, a) == RunOk(t) /\ Keeps(s, t) /\ t.at = a /\ t.shard = s.shard

LEMMA RunMoves ==
    ASSUME NEW s \in Runs, s.head # NoOperation, NEW a \in Places, a # "idle",
           a \in MovingPlaces => s.shard \in MovedShards,
           a \in {"halt", "start", "started"} => s.shard \in Shards
    PROVE  GoesTo(s, [s EXCEPT !.at = a], a)
<1>1. PICK t : t = [s EXCEPT !.at = a]
  OBVIOUS
<1>2. RunOk(t)
  BY <1>1, RunGoesTo
<1>3. t.at = a /\ t.shard = s.shard /\ Keeps(s, t)
  BY <1>1 DEF Runs, Keeps
<1> QED
  BY <1>1, <1>2, <1>3 DEF GoesTo

\* A run that leaves the operation to a recovery.
LEMMA RequiringIs ==
    ASSUME NEW s \in Runs, s.head # NoOperation
    PROVE  RunOk(Requiring(s)) /\ Keeps(s, Requiring(s)) /\ Requiring(s).at = "require"
<1>1. PICK t : t = [s EXCEPT !.at = "require", !.shard = 0]
  OBVIOUS
<1>2. t \in Runs /\ t.at = "require" /\ Keeps(s, t)
  <2>1. 0 \in 0 .. LastShard
    BY ShardNumbers
  <2>2. "require" \in SavePlaces
    BY DEF SavePlaces
  <2> QED
    BY <1>1, <2>1, <2>2 DEF Runs, Keeps
<1>3. RunOk(t)
  BY <1>2, SomePlaces DEF RunOk, Keeps
<1> QED
  BY <1>1, <1>2, <1>3 DEF Requiring

\* A run begins its way back with a new header, or with a world that is not undone.
LEMMA FieldsStay ==
    ASSUME NEW s \in Runs, s.head # NoOperation
    PROVE  /\ \A h \in Headers, q \in [Shards -> StepRows] :
                 LET m == [s EXCEPT !.head = h, !.steps = q] IN
                 /\ m \in Runs /\ m.head = h /\ m.steps = q /\ m.at = s.at /\ m.shard = s.shard
                 /\ m.first = s.first /\ m.forward = s.forward /\ m.staged = s.staged /\ m.bad = s.bad
           /\ \A h \in Headers :
                 LET m == [s EXCEPT !.head = h] IN
                 /\ m \in Runs /\ m.head = h /\ m.steps = s.steps /\ m.at = s.at /\ m.shard = s.shard
                 /\ m.first = s.first /\ m.forward = s.forward /\ m.staged = s.staged /\ m.bad = s.bad
           /\ \A w \in Shards, r \in StepRows :
                 LET m == [s EXCEPT !.steps[w] = r] IN
                 /\ m \in Runs /\ m.head = s.head /\ m.steps = [s.steps EXCEPT ![w] = r]
                 /\ m.at = s.at /\ m.shard = s.shard
                 /\ m.first = s.first /\ m.forward = s.forward /\ m.staged = s.staged /\ m.bad = s.bad
           /\ LET m == From(s) IN m \in Runs /\ m.head # NoOperation /\ m.shard = 0 /\ m.at = s.at /\ Keeps(s, m)
           /\ LET m == [s EXCEPT !.bad = TRUE] IN
                 /\ m \in Runs /\ m.head = s.head /\ m.steps = s.steps /\ m.at = s.at /\ m.shard = s.shard
                 /\ m.first = s.first /\ m.forward = s.forward /\ m.staged = s.staged /\ m.bad
<1>1. \A h \in Headers, q \in [Shards -> StepRows] :
                 LET m == [s EXCEPT !.head = h, !.steps = q] IN
                 /\ m \in Runs /\ m.head = h /\ m.steps = q /\ m.at = s.at /\ m.shard = s.shard
                 /\ m.first = s.first /\ m.forward = s.forward /\ m.staged = s.staged /\ m.bad = s.bad
  BY DEF Runs
<1>2. \A h \in Headers :
                 LET m == [s EXCEPT !.head = h] IN
                 /\ m \in Runs /\ m.head = h /\ m.steps = s.steps /\ m.at = s.at /\ m.shard = s.shard
                 /\ m.first = s.first /\ m.forward = s.forward /\ m.staged = s.staged /\ m.bad = s.bad
  BY DEF Runs
<1>3. \A w \in Shards, r \in StepRows :
                 LET m == [s EXCEPT !.steps[w] = r] IN
                 /\ m \in Runs /\ m.head = s.head /\ m.steps = [s.steps EXCEPT ![w] = r]
                 /\ m.at = s.at /\ m.shard = s.shard
                 /\ m.first = s.first /\ m.forward = s.forward /\ m.staged = s.staged /\ m.bad = s.bad
  BY DEF Runs
<1>4. LET m == From(s) IN m \in Runs /\ m.head # NoOperation /\ m.shard = 0 /\ m.at = s.at /\ Keeps(s, m)
  BY ShardNumbers DEF From, Runs, Keeps
<1>5. LET m == [s EXCEPT !.bad = TRUE] IN
                 /\ m \in Runs /\ m.head = s.head /\ m.steps = s.steps /\ m.at = s.at /\ m.shard = s.shard
                 /\ m.first = s.first /\ m.forward = s.forward /\ m.staged = s.staged /\ m.bad
  BY DEF Runs
<1> QED
  BY <1>1, <1>2, <1>3, <1>4, <1>5

-----------------------------------------------------------------------------
(* What becomes of the invariant when a run goes on *)

LEMMA PlaceFacts ==
    /\ "undo" \in UndoPlaces /\ "undone" \in UndoPlaces /\ "revert" \in UndoPlaces
    /\ "restore" \in UndoPlaces /\ "start" \in UndoPlaces /\ "started" \in UndoPlaces
    /\ "close" \in UndoPlaces /\ "require" \in UndoPlaces /\ "end" \notin UndoPlaces
    /\ "restore" \in OnPlaces /\ "start" \in OnPlaces /\ "started" \in OnPlaces
    /\ "require" \in OnPlaces /\ "end" \in OnPlaces
    /\ "complete" \in OnPlaces /\ "completed" \in OnPlaces
    /\ "unstage" \in OnPlaces /\ "apply" \in OnPlaces /\ "applied" \in OnPlaces
    /\ "resolve" \in OnPlaces
    /\ OutPlaces \cap (UndoPlaces \cup OnPlaces) = {}
    /\ "idle" \notin OutPlaces \cup UndoPlaces \cup OnPlaces
    /\ RestorePlaces = {"restore", "start", "started"}
BY DEF OutPlaces, UndoPlaces, OnPlaces, HaltPlaces, MovePlaces, SettlePlaces, RestorePlaces

LEMMA TurnedBack ==
    ASSUME NEW s \in Runs, TurnsBack(s, worker'), Ground', ~Onward', ~Ended(operation'),
           StepsUndecided(s.steps)', s.first /\ ~s.staged => clusterIni' = "old"
    PROVE  Going'
<1>1. /\ ~worker'.forward /\ worker'.first = s.first /\ worker'.steps = s.steps
      /\ worker'.staged = s.staged /\ worker'.at \in {"undo", "restore", "revert"}
      /\ worker'.at = "undo" =>
          /\ worker'.shard \in MovedShards
          /\ s.steps[worker'.shard].phase # "rolled_back"
          /\ \A v \in MovedShards : v > worker'.shard => s.steps[v].phase \in {"rolled_back", "existing"}
      /\ worker'.at # "undo" => \A v \in MovedShards : s.steps[v].phase \in {"rolled_back", "existing"}
      /\ worker'.at = "restore" => s.first /\ ~s.staged
  BY DEF TurnsBack
<1>2. worker'.at \in UndoPlaces /\ worker'.at \notin OutPlaces
  BY <1>1, PlaceFacts
<1>3. \A v \in MovedShards : /\ s.steps[v].phase = "rolled_back" => Cleared(v)'
                             /\ s.steps[v].phase # "existing"
  BY DEF StepsUndecided
<1>4. Headed'
  BY <1>1, <1>2 DEF Headed
<1>5. OutTrue'
  BY <1>2 DEF OutTrue
<1>6. UndoTrue'
  <2>1. worker'.at # "undo" => \A v \in MovedShards : Cleared(v)'
    BY <1>1, <1>3
  <2>2. worker'.at = "undo" => \A v \in MovedShards : v > worker'.shard =>
            worker'.steps[v].phase = "rolled_back"
    BY <1>1, <1>3
  <2>3. worker'.at \in RestorePlaces \cup {"close"} => clusterIni' = "old"
    BY <1>1, PlaceFacts
  <2> QED
    BY <1>1, <2>1, <2>2, <2>3 DEF UndoTrue
<1>7. RestoreTrue'
  BY <1>1 DEF RestoreTrue
<1>8. OnTrue'
  BY <1>1 DEF OnTrue
<1> QED
  BY <1>4, <1>5, <1>6, <1>7, <1>8 DEF Going

LEMMA SteppedBack ==
    ASSUME NEW s \in Runs, StepsBack(s, worker'), Ground', ~Onward', ~Ended(operation'), ~s.forward,
           StepsUndecided(s.steps)', s.first /\ ~s.staged => clusterIni' = "old",
           \A v \in MovedShards : v >= s.shard => s.bad \/ s.steps[v].phase = "rolled_back"
    PROVE  Going'
<1>0. s.shard \in Nat /\ \A v \in MovedShards : v \in Nat
  BY ShardNumbers DEF Runs
<1>1. /\ ~worker'.forward /\ worker'.first = s.first /\ worker'.steps = s.steps
      /\ worker'.staged = s.staged /\ worker'.bad = s.bad
      /\ worker'.at \in {"undo", "restore", "revert"}
      /\ worker'.at = "undo" =>
          /\ worker'.shard \in MovedShards
          /\ s.steps[worker'.shard].phase # "rolled_back"
          /\ \A v \in MovedShards : v > worker'.shard /\ v < s.shard =>
                 s.steps[v].phase \in {"rolled_back", "existing"}
      /\ worker'.at # "undo" => \A v \in MovedShards : v < s.shard =>
                 s.steps[v].phase \in {"rolled_back", "existing"}
      /\ worker'.at = "restore" => s.first /\ ~s.staged
  BY DEF StepsBack
<1>2. worker'.at \in UndoPlaces /\ worker'.at \notin OutPlaces
  BY <1>1, PlaceFacts
<1>3. \A v \in MovedShards : /\ s.steps[v].phase = "rolled_back" => Cleared(v)'
                             /\ s.steps[v].phase # "existing"
  BY DEF StepsUndecided
<1>4. Headed'
  BY <1>1, <1>2 DEF Headed
<1>5. OutTrue'
  BY <1>2 DEF OutTrue
<1>6. UndoTrue'
  <2>1. worker'.at # "undo" => \A v \in MovedShards : worker'.bad \/ Cleared(v)'
    BY <1>0, <1>1, <1>3
  <2>2. worker'.at = "undo" => \A v \in MovedShards : v > worker'.shard =>
            worker'.bad \/ worker'.steps[v].phase = "rolled_back"
    BY <1>0, <1>1, <1>3
  <2>3. worker'.at \in RestorePlaces \cup {"close"} => clusterIni' = "old"
    BY <1>1, PlaceFacts
  <2> QED
    BY <1>1, <2>1, <2>2, <2>3 DEF UndoTrue
<1>7. RestoreTrue'
  BY <1>1 DEF RestoreTrue
<1>8. OnTrue'
  BY <1>1 DEF OnTrue
<1> QED
  BY <1>4, <1>5, <1>6, <1>7, <1>8 DEF Going

\* What a run needs for the worlds to be started.
LEMMA Restored ==
    ASSUME NEW s \in Runs, Ground', ~Ended(operation'),
           Loops(s, worker', "start", Restorable(s), Restarted(s)), wasUp' = wasUp,
           wasUp \in [Shards -> BOOLEAN],
           s.forward <=> Onward',
           IF Onward' THEN StepsOnward(s.steps)' ELSE StepsUndecided(s.steps)',
           s.first /\ ~s.staged /\ ~s.forward => clusterIni' = "old",
           \A v \in Shards : v <= s.shard /\ wasUp[v] => s.steps[v].back,
           s.forward => AllLive' /\ switched' /\ Decided(s.head.phase),
           ~s.forward => /\ s.head.phase = "runtime_restore_source"
                         /\ s.bad \/ \A w \in MovedShards : Cleared(w)'
                         /\ s.bad \/ clusterIni' = "old" \/ unmarked'
    PROVE  Going'
<1>0. s.shard \in Nat /\ \A v \in Shards : v \in Nat
  BY ShardNumbers DEF Runs
<1>1. Keeps(s, worker') /\ RunOk(worker')
  BY DEF Loops
<1>2. /\ worker'.first = s.first /\ worker'.head = s.head /\ worker'.steps = s.steps
      /\ worker'.forward = s.forward /\ worker'.staged = s.staged /\ worker'.bad = s.bad
      /\ s.forward \in BOOLEAN /\ s.bad \in BOOLEAN
  BY <1>1 DEF Keeps, Runs
<1>3. Restarted(s) = IF s.forward THEN "end" ELSE IF s.bad THEN "require" ELSE "close"
  BY DEF Restarted
<1>4. \/ /\ worker'.at = "start" /\ worker'.shard \in Shards
         /\ wasUp[worker'.shard] /\ worker'.shard > s.shard
         /\ \A v \in Shards : wasUp[v] /\ ~s.steps[v].back /\ v > s.shard => v >= worker'.shard
      \/ /\ worker'.at = Restarted(s)
         /\ \A v \in Shards : wasUp[v] /\ ~s.steps[v].back => v <= s.shard
  BY DEF Loops, Reaches, Restorable
<1>5. /\ worker'.at = "start" => \A v \in Shards : v < worker'.shard /\ wasUp[v] => s.steps[v].back
      /\ worker'.at # "start" => \A v \in Shards : wasUp[v] => s.steps[v].back
  <2>1. Restarted(s) # "start"
    BY <1>3
  <2>2. s.steps \in [Shards -> StepRows]
    BY DEF Runs
  <2>3. CASE worker'.at = "start"
    <3> SUFFICES ASSUME NEW v \in Shards, v < worker'.shard, wasUp[v], ~s.steps[v].back
                 PROVE  FALSE
      BY <2>3
    <3>1. ~(v <= s.shard)
      OBVIOUS
    <3>2. v >= worker'.shard
      BY <1>0, <1>4, <2>1, <2>3, <3>1
    <3> QED
      BY <1>0, <1>4, <2>1, <2>3, <3>2
  <2>4. CASE worker'.at # "start"
    BY <1>4, <2>4
  <2> QED
    BY <2>3, <2>4
<1>6. worker'.at \in IF s.forward THEN OnPlaces ELSE UndoPlaces
  BY <1>3, <1>4, PlaceFacts
<1>6a. worker'.at \notin OutPlaces
  BY <1>6, PlaceFacts
<1>7. Headed'
  BY <1>2, <1>6 DEF Headed
<1>8. OutTrue'
  BY <1>6a DEF OutTrue
<1>9. UndoTrue'
  <2>1. ~s.forward => worker'.at \notin {"undo", "undone"}
    BY <1>3, <1>4
  <2> QED
    BY <1>2, <2>1 DEF UndoTrue
<1>10. RestoreTrue'
  <2>1. worker'.at \in {"start", "end", "require", "close"}
    BY <1>3, <1>4
  <2>2. worker'.at = "close" => ~s.bad
    BY <1>3, <1>4
  <2>3. worker'.at = "start" => wasUp[worker'.shard]
    BY <1>3, <1>4
  <2> QED
    BY <1>2, <1>5, <2>1, <2>2, <2>3 DEF RestoreTrue
<1>11. OnTrue'
  <2>1. worker'.at \notin {"complete", "completed"}
    BY <1>3, <1>4
  <2> QED
    BY <1>2, <2>1 DEF OnTrue
<1> QED
  BY <1>7, <1>8, <1>9, <1>10, <1>11 DEF Going

LEMMA Completed ==
    ASSUME NEW s \in Runs, Ground', ~Ended(operation'),
           Loops(s, worker', "complete", Uncompleted(s), AfterCompletion(s)),
           s.forward, Onward', switched', StepsOnward(s.steps)', Decided(s.head.phase),
           \A v \in MovedShards : v <= s.shard => s.steps[v].phase = "completed"
    PROVE  Going'
<1>0. s.shard \in Nat /\ \A v \in MovedShards : v \in Nat
  BY ShardNumbers DEF Runs
<1>1. Keeps(s, worker') /\ RunOk(worker')
  BY DEF Loops
<1>2. /\ worker'.first = s.first /\ worker'.head = s.head /\ worker'.steps = s.steps
      /\ worker'.forward = s.forward
  BY <1>1 DEF Keeps
<1>3. AfterCompletion(s) \in {"restore", "unstage"}
  BY DEF AfterCompletion
<1>4. \/ /\ worker'.at = "complete" /\ worker'.shard \in MovedShards
         /\ \A v \in MovedShards : s.steps[v].phase # "completed" /\ v > s.shard => v >= worker'.shard
      \/ /\ worker'.at \in {"restore", "unstage"}
         /\ \A v \in MovedShards : s.steps[v].phase # "completed" => v <= s.shard
  BY <1>3 DEF Loops, Reaches, Uncompleted
<1>5. worker'.at = "complete" =>
          \A v \in MovedShards : v < worker'.shard => worker'.steps[v].phase = "completed"
  BY <1>0, <1>2, <1>4
<1>6. worker'.at # "complete" => AllLive'
  <2>1. worker'.at # "complete" => \A v \in MovedShards : s.steps[v].phase = "completed"
    BY <1>0, <1>4
  <2> QED
    BY <2>1 DEF AllLive, StepsOnward
<1>7. worker'.at \in {"complete", "restore", "unstage"}
  BY <1>4
<1>7a. worker'.at \in OnPlaces /\ worker'.at \notin OutPlaces
  BY <1>7, PlaceFacts
<1>8. Headed'
  BY <1>2, <1>7a DEF Headed
<1>9. OutTrue'
  BY <1>7a DEF OutTrue
<1>10. UndoTrue'
  BY <1>2 DEF UndoTrue
<1>11. RestoreTrue'
  BY <1>7 DEF RestoreTrue
<1>12. OnTrue'
  BY <1>2, <1>5, <1>6, <1>7, PlaceFacts DEF OnTrue
<1> QED
  BY <1>8, <1>9, <1>10, <1>11, <1>12 DEF Going

LEMMA Required ==
    ASSUME NEW s \in Runs, Ground', ~Ended(operation'), RunOk(worker'), Keeps(s, worker'),
           worker'.at = "require", s.forward <=> Onward',
           IF Onward' THEN StepsOnward(s.steps)' ELSE StepsUndecided(s.steps)',
           s.first /\ ~s.staged /\ ~s.forward => clusterIni' = "old",
           s.forward => Decided(s.head.phase),
           ~s.forward => /\ s.head.phase = "runtime_restore_source"
                         /\ s.bad \/ \A w \in MovedShards : Cleared(w)'
    PROVE  Going'
<1>2. /\ worker'.first = s.first /\ worker'.head = s.head /\ worker'.steps = s.steps
      /\ worker'.forward = s.forward /\ worker'.staged = s.staged /\ worker'.bad = s.bad
  BY DEF Keeps
<1>3. "require" \in OnPlaces /\ "require" \in UndoPlaces /\ "require" \notin OutPlaces
      /\ "require" \notin RestorePlaces \cup {"close"}
  BY PlaceFacts
<1>7. Headed'
  BY <1>2, <1>3 DEF Headed
<1>8. OutTrue'
  BY <1>3 DEF OutTrue
<1>9. UndoTrue'
  BY <1>2, <1>3 DEF UndoTrue
<1>10. RestoreTrue'
  BY DEF RestoreTrue
<1>11. OnTrue'
  BY <1>2, <1>3, PlaceFacts DEF OnTrue
<1> QED
  BY <1>7, <1>8, <1>9, <1>10, <1>11 DEF Going

LEMMA Left ==
    ASSUME worker' = Nobody
    PROVE  Going'
<1>1. worker'.at = "idle" /\ ~worker'.forward
  BY DEF Nobody
<1>2. worker'.at \notin OutPlaces \cup UndoPlaces
  BY <1>1, PlaceFacts
<1> QED
  BY <1>1, <1>2 DEF Going, Headed, OutTrue, UndoTrue, RestoreTrue, OnTrue

-----------------------------------------------------------------------------
(* Steps of the run that leave rows, machines and files alone *)

GroundCalm == UNCHANGED <<operation, steps, wasUp, copy, tardy, intruded, clusterIni, stageDir,
                          unmarked, switched, atHome, away>>

LEMMA GroundStays ==
    ASSUME Ground, GroundCalm
    PROVE  /\ Ground' /\ Onward' = Onward
           /\ \A q : StepsOnward(q)' = StepsOnward(q) /\ StepsUndecided(q)' = StepsUndecided(q)
           /\ \A w : Cleared(w)' = Cleared(w)
           /\ AllLive' = AllLive
<1>1. Onward' = Onward /\ AllLive' = AllLive
  BY DEF GroundCalm, Onward, AllLive
<1>2. \A w : Cleared(w)' = Cleared(w)
  BY DEF GroundCalm, Cleared
<1>3. \A q : StepsOnward(q)' = StepsOnward(q)
  BY DEF GroundCalm, StepsOnward
<1>4. \A q : StepsUndecided(q)' = StepsUndecided(q)
  BY DEF GroundCalm, StepsUndecided, Cleared
<1>5. RowTrue'
  BY <1>1 DEF Ground, GroundCalm, RowTrue
<1>6. UndecidedTrue'
  <2>1. StepsUndecided(steps)' <=> StepsUndecided(steps)
    BY DEF GroundCalm, StepsUndecided, Cleared
  <2> QED
    BY <1>1, <2>1 DEF Ground, GroundCalm, UndecidedTrue
<1>7. OnwardTrue'
  <2>1. StepsOnward(steps)' <=> StepsOnward(steps)
    BY DEF GroundCalm, StepsOnward
  <2> QED
    BY <1>1, <2>1 DEF Ground, GroundCalm, OnwardTrue
<1>8. EndTrue'
  BY <1>1, <1>2 DEF Ground, GroundCalm, EndTrue
<1> QED
  BY <1>1, <1>2, <1>3, <1>4, <1>5, <1>6, <1>7, <1>8 DEF Ground

LEMMA GoingStays ==
    ASSUME Ground, Going, GroundCalm, worker' = worker
    PROVE  Going'
<1>1. /\ Onward' = Onward /\ AllLive' = AllLive
      /\ \A q : StepsOnward(q)' = StepsOnward(q) /\ StepsUndecided(q)' = StepsUndecided(q)
      /\ \A w : Cleared(w)' = Cleared(w)
  BY GroundStays
<1>2. Headed'
  <2>1. /\ StepsOnward(worker.steps)' <=> StepsOnward(worker.steps)
        /\ StepsUndecided(worker.steps)' <=> StepsUndecided(worker.steps)
    BY DEF GroundCalm, StepsUndecided, StepsOnward, Cleared
  <2> QED
    BY <1>1, <2>1 DEF Going, Headed, GroundCalm
<1>3. OutTrue'
  BY DEF Going, OutTrue, GroundCalm
<1>4. UndoTrue'
  BY <1>1 DEF Going, UndoTrue, GroundCalm
<1>5. RestoreTrue'
  BY DEF Going, RestoreTrue, GroundCalm
<1>6. OnTrue'
  BY <1>1 DEF Going, OnTrue, GroundCalm
<1> QED
  BY <1>2, <1>3, <1>4, <1>5, <1>6 DEF Going

\* What the places of a run say of its direction.
LEMMA Directions ==
    ASSUME ProvTyped, Going
    PROVE  /\ worker.at \in OutPlaces => ~worker.forward /\ ~Onward
           /\ worker.at \in {"undo", "undone", "revert", "close"} => ~worker.forward /\ ~Onward
           /\ worker.at \in {"resolve", "apply", "applied", "complete", "completed", "unstage", "end"} =>
                  worker.forward /\ Onward
           /\ worker.at # "idle" => (worker.forward <=> Onward) /\ ~Ended(operation)
           /\ worker.forward \in BOOLEAN /\ worker.bad \in BOOLEAN
<1>1. worker \in Runs
  BY Typed
<1>2. worker.forward \in BOOLEAN /\ worker.bad \in BOOLEAN
  BY <1>1 DEF Runs
<1>3. worker.at # "idle" => /\ ~Ended(operation)
                            /\ worker.forward <=> Onward
                            /\ worker.at \in IF worker.forward THEN OnPlaces
                                             ELSE OutPlaces \cup UndoPlaces
  BY DEF Going, Headed
<1>4. {"undo", "undone", "revert", "close"} \cap OnPlaces = {}
      /\ {"resolve", "apply", "applied", "complete", "completed", "unstage", "end"}
           \cap (UndoPlaces \cup OutPlaces) = {}
  BY DEF OnPlaces, UndoPlaces, OutPlaces, HaltPlaces, MovePlaces, SettlePlaces, RestorePlaces
<1> QED
  BY <1>2, <1>3, <1>4, PlaceFacts

\* What an error makes of a run.
LEMMA ErroredIs ==
    ASSUME NEW s \in Runs, s.head # NoOperation
    PROVE  /\ s.at \in {"halt", "planned", "begin", "write", "commit"} => TurnsBack(s, Errored(s))
           /\ s.at \in {"complete", "start"} =>
                 /\ RunOk(Errored(s)) /\ Keeps(s, Errored(s)) /\ Errored(s).at = "require"
           /\ s.at = "undo" /\ s.shard \in MovedShards =>
                 /\ RunOk(Errored(s)) /\ Errored(s).at = "undone" /\ Errored(s).shard = s.shard
                 /\ Errored(s).bad /\ Errored(s).first = s.first /\ Errored(s).staged = s.staged
                 /\ Errored(s).forward = s.forward /\ Errored(s).steps = s.steps
                 /\ Errored(s).head = s.head
<1>1. s.at \in {"halt", "planned", "begin", "write", "commit"} => Errored(s) = Undoing(s)
  BY DEF Errored
<1>2. s.at \in {"complete", "start"} => Errored(s) = Requiring(s)
  BY DEF Errored
<1>3. ASSUME s.at = "undo", s.shard \in MovedShards
      PROVE  /\ RunOk(Errored(s)) /\ Errored(s).at = "undone" /\ Errored(s).shard = s.shard
             /\ Errored(s).bad /\ Errored(s).first = s.first /\ Errored(s).staged = s.staged
             /\ Errored(s).forward = s.forward /\ Errored(s).steps = s.steps
             /\ Errored(s).head = s.head
  <2>1. Errored(s) = [s EXCEPT !.at = "undone", !.bad = TRUE]
    BY <1>3 DEF Errored
  <2>2. "undone" \in StepPlaces
    BY DEF StepPlaces
  <2>3. PICK t : t = [s EXCEPT !.at = "undone", !.bad = TRUE]
    OBVIOUS
  <2>4. /\ t \in Runs /\ t.at = "undone" /\ t.shard = s.shard /\ t.bad /\ t.first = s.first
        /\ t.staged = s.staged /\ t.forward = s.forward /\ t.steps = s.steps /\ t.head = s.head
    BY <2>2, <2>3 DEF Runs
  <2>5. RunOk(t)
    BY <1>3, <2>4 DEF RunOk
  <2> QED
    BY <2>1, <2>3, <2>4, <2>5
<1> QED
  BY <1>1, <1>2, <1>3, UndoingTurnsBack, RequiringIs

LEMMA ErrorGoes ==
    ASSUME ProvTyped, Ground, Going, Ground', NEW s \in Runs, s = worker,
           worker.at \in {"halt", "planned", "begin", "write", "commit", "complete", "undo", "start"},
           worker' = Errored(worker), operation' = operation, clusterIni' = clusterIni,
           IF Onward THEN StepsOnward(s.steps)' ELSE StepsUndecided(s.steps)',
           \A w \in MovedShards : Cleared(w) => Cleared(w)'
    PROVE  Going'
<1>1. s = worker
  OBVIOUS
<1>2. s.head # NoOperation
  BY <1>1, Typed
<1>3. IF Onward THEN StepsOnward(s.steps)' ELSE StepsUndecided(s.steps)'
  OBVIOUS
<1>4. Onward' <=> Onward
  BY DEF Onward
<1>5. /\ (s.forward <=> Onward) /\ ~Ended(operation) /\ s.forward \in BOOLEAN
      /\ ~s.forward /\ s.first /\ ~s.staged => clusterIni = "old"
      /\ s.forward => Decided(s.head.phase)
  BY <1>1, Directions DEF Going, Headed
<1>6. CASE s.at \in {"halt", "planned", "begin", "write", "commit"}
  <2>1. TurnsBack(s, worker')
    BY <1>1, <1>2, <1>6, ErroredIs
  <2>2. s.at \in OutPlaces
    BY <1>6 DEF OutPlaces, HaltPlaces, MovePlaces
  <2>3. ~Onward' /\ ~s.forward
    BY <1>1, <1>4, <2>2, Directions
  <2> QED
    BY <1>3, <1>4, <1>5, <2>1, <2>3, TurnedBack
<1>7. CASE s.at \in {"complete", "start"}
  <2>1. RunOk(worker') /\ Keeps(s, worker') /\ worker'.at = "require"
    BY <1>1, <1>2, <1>7, ErroredIs
  <2>2. ~s.forward => s.at = "start"
    BY <1>1, <1>7, Directions
  <2>3. ~s.forward => /\ s.head.phase = "runtime_restore_source"
                      /\ s.bad \/ \A w \in MovedShards : Cleared(w)
    BY <1>1, <2>2, PlaceFacts DEF Going, Headed, UndoTrue
  <2>4. s.forward <=> Onward'
    BY <1>4, <1>5
  <2>5. IF Onward' THEN StepsOnward(s.steps)' ELSE StepsUndecided(s.steps)'
    BY <1>3, <1>4
  <2> QED
    BY <1>5, <2>1, <2>3, <2>4, <2>5, Required
<1>8. CASE s.at = "undo"
  <2>0. s.shard \in MovedShards
    BY <1>1, <1>8, Typed DEF RunOk, MovingPlaces
  <2>1. /\ worker'.at = "undone" /\ worker'.shard = s.shard
        /\ worker'.bad /\ worker'.first = s.first /\ worker'.staged = s.staged
        /\ worker'.forward = s.forward /\ worker'.steps = s.steps /\ worker'.head = s.head
    BY <1>1, <1>2, <1>8, <2>0, ErroredIs
  <2>2. ~Onward /\ ~s.forward
    BY <1>1, <1>8, Directions
  <2>3. Headed'
    BY <1>3, <1>4, <1>5, <2>1, <2>2, PlaceFacts DEF Headed
  <2>4. "undone" \notin OutPlaces \cup RestorePlaces
    BY PlaceFacts
  <2>5. OutTrue' /\ UndoTrue' /\ RestoreTrue' /\ OnTrue'
    BY <2>1, <2>2, <2>4 DEF OutTrue, UndoTrue, RestoreTrue, OnTrue
  <2> QED
    BY <2>3, <2>5 DEF Going
<1> QED
  BY <1>1, <1>6, <1>7, <1>8

LEMMA StepsBothWays ==
    ASSUME ProvTyped, Ground, Going, worker.at # "idle", NEW s, s = worker
    PROVE  IF Onward THEN StepsOnward(s.steps) ELSE StepsUndecided(s.steps)
BY DEF Going, Headed

LEMMA ReadOperationKeeps ==
    ASSUME ProvTyped, Ground, Going, ReadOperation \/ ResavePlan \/ UNCHANGED provVars
    PROVE  Ground' /\ Going'
<1>1. GroundCalm /\ worker' = worker
  BY DEF ReadOperation, ResavePlan, provVars, rowVars, nodeFiles, ownFiles, placing, processes, GroundCalm
<1> QED
  BY <1>1, GroundStays, GoingStays

LEMMA ControllerFallsKeeps ==
    ASSUME ProvTyped, Ground, Going, ControllerFalls
    PROVE  Ground' /\ Going'
<1>1. GroundCalm /\ worker' = Nobody
  BY DEF ControllerFalls, Leave, rowVars, nodeFiles, ownFiles, placing, processes, GroundCalm
<1> QED
  BY <1>1, GroundStays, Left

LEMMA RecoverOperationKeeps ==
    ASSUME ProvTyped, Ground, Going, RecoverOperation, Sound'
    PROVE  Ground' /\ Going'
<1>1. GroundCalm
  BY DEF RecoverOperation, rowVars, nodeFiles, ownFiles, placing, processes, GroundCalm
<1>2. Ground' /\ Onward' = Onward
  BY <1>1, GroundStays
<1>3. request = [head |-> operation, steps |-> steps]
  <2>1. ~overtaken'
    BY DEF Sound
  <2>2. overtaken' = (overtaken \/ request # [head |-> operation, steps |-> steps])
    BY DEF RecoverOperation
  <2> QED
    BY <2>1, <2>2
<1>4. request.head = operation /\ request.steps = steps
  BY <1>3
<1>5. operation # NoOperation /\ ~Ended(operation) /\ operation \in Headers
  <2>1. request # NoAsk
    BY DEF RecoverOperation
  <2> QED
    BY <1>4, <2>1 DEF ProvTyped, RunTyped, ProvTypeOK
<1>6. steps \in [Shards -> StepRows]
  BY Typed
<1>7. PICK s : s = [Nobody EXCEPT !.head = request.head, !.steps = request.steps]
  OBVIOUS
<1>8. /\ s \in Runs /\ s.head = operation /\ s.steps = steps /\ s.at = "idle" /\ s.shard = 0
      /\ ~s.first /\ ~s.forward /\ ~s.staged /\ ~s.bad
  <2>1. Nobody \in Runs
    BY Typed
  <2> QED
    BY <1>4, <1>5, <1>6, <1>7, <2>1 DEF Nobody, Runs
<1>9. worker' = IF Decided(s.head.phase) THEN [s EXCEPT !.at = "resolve", !.forward = TRUE]
                ELSE Undoing(s)
  BY <1>7 DEF RecoverOperation
<1>10. Ended(operation') = Ended(operation) /\ operation' = operation /\ steps' = steps
  BY <1>1 DEF GroundCalm
<1>11. Onward <=> Decided(operation.phase)
  <2>1. operation.phase # "completed"
    BY <1>5 DEF Ground, RowTrue, Ended
  <2> QED
    BY <2>1 DEF Onward
<1>12. CASE Decided(operation.phase)
  <2>1. worker' = [s EXCEPT !.at = "resolve", !.forward = TRUE]
    BY <1>8, <1>9, <1>12
  <2>2. worker'.at = "resolve" /\ worker'.forward /\ worker'.steps = steps /\ worker'.head = operation
    BY <1>8, <2>1 DEF Runs
  <2>3. StepsOnward(steps)'
    BY <1>2, <1>11, <1>12 DEF Ground, OnwardTrue
  <2>4. StepsOnward(worker.steps)'
    BY <1>10, <2>2, <2>3 DEF StepsOnward
  <2>5. Headed'
    BY <1>2, <1>5, <1>10, <1>11, <1>12, <2>2, <2>4, PlaceFacts DEF Headed
  <2>6. "resolve" \notin OutPlaces \cup UndoPlaces \cup RestorePlaces
    BY PlaceFacts DEF UndoPlaces, RestorePlaces
  <2>7. OutTrue' /\ UndoTrue' /\ RestoreTrue' /\ OnTrue'
    BY <2>2, <2>6 DEF OutTrue, UndoTrue, RestoreTrue, OnTrue
  <2> QED
    BY <1>2, <2>5, <2>7 DEF Going
<1>13. CASE ~Decided(operation.phase)
  <2>1. TurnsBack(s, worker')
    BY <1>5, <1>8, <1>9, <1>13, UndoingTurnsBack
  <2>2. StepsUndecided(steps)'
    BY <1>2, <1>5, <1>10, <1>11, <1>13 DEF Ground, UndecidedTrue
  <2>3. StepsUndecided(s.steps)'
    BY <1>8, <1>10, <2>2 DEF StepsUndecided
  <2>4. ~Onward' /\ ~Ended(operation')
    BY <1>2, <1>5, <1>10, <1>11, <1>13
  <2> QED
    BY <1>2, <1>8, <2>1, <2>3, <2>4, TurnedBack
<1> QED
  BY <1>12, <1>13

\* A place where nothing but the place changes.
LEMMA CallRefusedKeeps ==
    ASSUME ProvTyped, Ground, Going, CallRefused
    PROVE  Ground' /\ Going'
<1>1. GroundCalm /\ worker' = Errored(worker)
  BY DEF CallRefused, rowVars, nodeFiles, ownFiles, placing, processes, GroundCalm
<1>2. PICK s \in Runs : s = worker
  BY Typed
<1>3. worker.at \in {"begin", "write", "commit", "complete", "undo", "start"}
  BY DEF CallRefused, RemoteCall, HomeCall, CallPlaces
<1>4. IF Onward THEN StepsOnward(s.steps) ELSE StepsUndecided(s.steps)
  BY <1>2, <1>3, StepsBothWays
<1>5. IF Onward THEN StepsOnward(s.steps)' ELSE StepsUndecided(s.steps)'
  BY <1>1, <1>4, GroundStays
<1>6. \A w \in MovedShards : Cleared(w) => Cleared(w)'
  BY <1>1, GroundStays
<1>7. operation' = operation /\ clusterIni' = clusterIni /\ Ground'
  BY <1>1, GroundStays DEF GroundCalm
<1> QED
  BY <1>1, <1>2, <1>3, <1>5, <1>6, <1>7, ErrorGoes

LEMMA LeaseLostKeeps ==
    ASSUME ProvTyped, Ground, Going, LeaseLost
    PROVE  Ground' /\ Going'
<1>1. GroundCalm
  BY DEF LeaseLost, rowVars, nodeFiles, ownFiles, placing, processes, GroundCalm
<1>2. PICK s \in Runs : s = worker
  BY Typed
<1>3. worker.at \in {"halt", "planned", "write", "complete", "undo", "start"}
  BY DEF LeaseLost
<1>4. IF Onward THEN StepsOnward(s.steps) ELSE StepsUndecided(s.steps)
  BY <1>2, <1>3, StepsBothWays
<1>5. IF Onward THEN StepsOnward(s.steps)' ELSE StepsUndecided(s.steps)'
  BY <1>1, <1>4, GroundStays
<1>6. \A w \in MovedShards : Cleared(w) => Cleared(w)'
  BY <1>1, GroundStays
<1>7. operation' = operation /\ clusterIni' = clusterIni /\ Ground' /\ Onward' = Onward
  BY <1>1, GroundStays DEF GroundCalm
<1>8. CASE worker.at # "undo"
  <2>1. worker' = Errored(worker)
    BY <1>8 DEF LeaseLost
  <2> QED
    BY <1>2, <1>3, <1>5, <1>6, <1>7, <2>1, ErrorGoes
<1>9. CASE worker.at = "undo"
  <2>1. PICK m : m = [s EXCEPT !.bad = TRUE, !.shard = 1]
    OBVIOUS
  <2>2. worker' = UndoNext(m)
    BY <1>2, <1>9, <2>1 DEF LeaseLost
  <2>3. 1 \in 0 .. LastShard
    <3>1. s.shard \in MovedShards
      BY <1>2, <1>9, Typed DEF RunOk, MovingPlaces
    <3>2. s.shard \in Shards
      BY <3>1, ShardNumbers
    <3>3. s.shard >= 1 /\ s.shard <= LastShard /\ s.shard \in Nat /\ LastShard \in Nat
      BY <3>2, ShardNumbers
    <3> QED
      BY <3>3
  <2>4. /\ m \in Runs /\ m.bad /\ m.head = s.head /\ m.steps = s.steps /\ m.first = s.first
        /\ m.staged = s.staged /\ m.forward = s.forward /\ m.shard = 1
    BY <2>1, <2>3 DEF Runs
  <2>5. m.head # NoOperation
    BY <1>2, <1>9, <2>4, Typed
  <2>6. StepsBack(m, worker')
    BY <2>2, <2>4, <2>5, UndoNextStepsBack
  <2>7. ~Onward /\ ~s.forward /\ ~Ended(operation)
    BY <1>2, <1>9, Directions
  <2>8. m.first /\ ~m.staged => clusterIni' = "old"
    BY <1>2, <1>7, <1>9, <2>4, <2>7 DEF Going, Headed
  <2>9. StepsUndecided(m.steps)'
    BY <1>5, <2>4, <2>7
  <2> QED
    BY <1>7, <2>4, <2>6, <2>7, <2>8, <2>9, SteppedBack
<1> QED
  BY <1>8, <1>9

\* The first run goes on towards the decision.
LEMMA OutStep ==
    ASSUME Ground', OutTrue', worker'.at \in OutPlaces, ~worker'.forward, ~Onward',
           operation' # NoOperation, ~Ended(operation'),
           worker'.first /\ ~worker'.staged => clusterIni' = "old"
    PROVE  Going'
<1>1. worker'.steps = steps'
  BY DEF OutTrue
<1>2. StepsUndecided(steps)'
  BY DEF Ground, UndecidedTrue
<1>3. StepsUndecided(worker.steps)'
  BY <1>1, <1>2 DEF StepsUndecided
<1>4. worker'.at \notin UndoPlaces \cup OnPlaces
  BY PlaceFacts
<1>5. worker'.at \notin {"start", "started", "require", "end", "close"}
  BY <1>4, PlaceFacts
<1>6. Headed'
  BY <1>3, <1>5 DEF Headed
<1>7. UndoTrue' /\ RestoreTrue' /\ OnTrue'
  BY <1>4, <1>5 DEF UndoTrue, RestoreTrue, OnTrue
<1> QED
  BY <1>6, <1>7 DEF Going

\* What is known at the places of the first run.
LEMMA AtOut ==
    ASSUME ProvTyped, Ground, Going, worker.at \in OutPlaces
    PROVE  /\ OutTrue /\ ~worker.forward /\ ~Onward /\ operation # NoOperation /\ ~Ended(operation)
           /\ worker.head # NoOperation /\ worker.at # "idle"
           /\ worker.first /\ ~worker.staged => clusterIni = "old"
           /\ StepsUndecided(steps) /\ worker.steps = steps
           /\ worker.at \in MovePlaces => worker.shard \in MovedShards
<1>1. worker.at # "idle"
  BY PlaceFacts
<1>2. ~worker.forward /\ ~Onward /\ ~Ended(operation)
  BY <1>1, Directions
<1>3. operation # NoOperation /\ worker.head # NoOperation
  BY <1>1, Typed
<1>4. StepsUndecided(steps)
  BY <1>2, <1>3 DEF Ground, UndecidedTrue
<1>5. worker.at \in MovePlaces => worker.shard \in MovedShards
  BY Typed DEF RunOk, MovingPlaces
<1> QED
  BY <1>1, <1>2, <1>3, <1>4, <1>5 DEF Going, Headed, OutTrue

LEMMA BeginUnsentKeeps ==
    ASSUME ProvTyped, Ground, Going, BeginUnsent
    PROVE  Ground' /\ Going'
<1>1. GroundCalm /\ worker.at = "begin" /\ worker' = [worker EXCEPT !.at = "unsent"]
  BY DEF BeginUnsent, rowVars, nodeFiles, ownFiles, placing, processes, GroundCalm
<1>2. Ground' /\ Onward' = Onward
  BY <1>1, GroundStays
<1>3. PICK s \in Runs : s = worker
  BY Typed
<1>4. /\ worker'.at = "unsent" /\ worker'.shard = s.shard /\ worker'.steps = s.steps
      /\ worker'.first = s.first /\ worker'.bad = s.bad /\ worker'.staged = s.staged
      /\ worker'.forward = s.forward
  BY <1>1, <1>3 DEF Runs
<1>5. {"begin", "unsent"} \subseteq OutPlaces /\ {"begin", "unsent"} \subseteq MovePlaces
      /\ {"begin", "unsent"} \cap (HaltPlaces \cup SettlePlaces) = {}
  BY DEF OutPlaces, MovePlaces, HaltPlaces, SettlePlaces
<1>6. /\ OutTrue /\ ~worker.forward /\ ~Onward /\ operation # NoOperation /\ ~Ended(operation)
      /\ worker.first /\ ~worker.staged => clusterIni = "old"
  BY <1>1, <1>5, AtOut
<1>7. OutTrue'
  BY <1>1, <1>3, <1>4, <1>5, <1>6 DEF OutTrue, GroundCalm, CopyIs, PhaseIs
<1> QED
  BY <1>1, <1>2, <1>3, <1>4, <1>5, <1>6, <1>7, OutStep DEF GroundCalm

\* The first run turns back at one of its own places.
LEMMA TurnsFromOut ==
    ASSUME ProvTyped, Ground, Going, Ground', worker.at \in OutPlaces, NEW s \in Runs,
           s.steps = worker.steps, s.first = worker.first, s.staged = worker.staged,
           TurnsBack(s, worker'), ~Onward', ~Ended(operation'), clusterIni' = clusterIni \/ s.staged,
           StepsUndecided(s.steps)'
    PROVE  Going'
<1>1. s.first /\ ~s.staged => clusterIni' = "old"
  BY AtOut
<1> QED
  BY <1>1, TurnedBack

LEMMA RevalidateKeeps ==
    ASSUME ProvTyped, Ground, Going, Revalidate
    PROVE  Ground' /\ Going'
<1>1. GroundCalm /\ worker.at = "recheck"
  BY DEF Revalidate, rowVars, nodeFiles, ownFiles, placing, processes, GroundCalm
<1>2. Ground' /\ Onward' = Onward
  BY <1>1, GroundStays
<1>3. PICK s \in Runs : s = worker
  BY Typed
<1>4. {"recheck", "publish", "decide"} \subseteq OutPlaces
      /\ {"recheck", "publish", "decide"} \subseteq SettlePlaces
      /\ {"recheck", "publish", "decide"} \cap (HaltPlaces \cup MovePlaces) = {}
  BY DEF OutPlaces, MovePlaces, HaltPlaces, SettlePlaces
<1>5. /\ OutTrue /\ ~worker.forward /\ ~Onward /\ operation # NoOperation /\ ~Ended(operation)
      /\ worker.first /\ ~worker.staged => clusterIni = "old"
      /\ worker.head # NoOperation /\ StepsUndecided(steps) /\ worker.steps = steps
  BY <1>1, <1>4, AtOut
<1>6. CASE worker' = Undoing(worker)
  <2>1. TurnsBack(s, worker')
    BY <1>3, <1>5, <1>6, UndoingTurnsBack
  <2>2. StepsUndecided(s.steps)
    BY <1>3, <1>5
  <2>3. StepsUndecided(s.steps)'
    BY <1>1, <2>2, GroundStays
  <2> QED
    BY <1>1, <1>2, <1>3, <1>4, <1>5, <2>1, <2>3, TurnsFromOut DEF GroundCalm
<1>7. CASE worker' = [worker EXCEPT !.at = IF worker.staged THEN "publish" ELSE "decide"]
  <2>1. /\ worker'.at = (IF s.staged THEN "publish" ELSE "decide") /\ worker'.shard = s.shard
        /\ worker'.steps = s.steps
        /\ worker'.first = s.first /\ worker'.bad = s.bad /\ worker'.staged = s.staged
        /\ worker'.forward = s.forward
    BY <1>3, <1>7 DEF Runs
  <2>2. worker'.at \in {"publish", "decide"}
    BY <2>1
  <2>3. OutTrue'
    BY <1>1, <1>3, <1>4, <1>5, <2>1, <2>2 DEF OutTrue, GroundCalm
  <2> QED
    BY <1>1, <1>2, <1>3, <1>4, <1>5, <2>1, <2>2, <2>3, OutStep DEF GroundCalm
<1> QED
  BY <1>6, <1>7 DEF Revalidate

\* A decided run that only changes its place.
LEMMA OnGoes ==
    ASSUME ProvTyped, Ground, Going, Ground', worker.forward, NEW s \in Runs, s = worker, Onward',
           ~Ended(operation'), worker'.forward, worker'.head = s.head, worker'.steps = s.steps,
           worker'.at \in {"apply", "applied"}, worker'.at # "apply" => switched',
           StepsOnward(s.steps)'
    PROVE  Going'
<1>1. Decided(s.head.phase)
  BY DEF Going, Headed
<1>2. StepsOnward(worker.steps)'
  BY DEF StepsOnward
<1>3. "apply" \notin RestorePlaces /\ "applied" \notin RestorePlaces
  BY PlaceFacts
<1>4. Headed'
  BY <1>1, <1>2, PlaceFacts DEF Headed
<1>5. worker'.at \notin OutPlaces
  BY PlaceFacts
<1>6. OutTrue' /\ UndoTrue' /\ RestoreTrue' /\ OnTrue'
  BY <1>3, <1>5 DEF OutTrue, UndoTrue, RestoreTrue, OnTrue
<1> QED
  BY <1>4, <1>6 DEF Going

LEMMA OnRequired ==
    ASSUME ProvTyped, Ground, Going, Ground', worker.forward, NEW s \in Runs, s = worker, Onward',
           ~Ended(operation'), worker' = Requiring(s), s.head # NoOperation,
           StepsOnward(s.steps)'
    PROVE  Going'
<1>1. Decided(s.head.phase)
  BY DEF Going, Headed
<1>2. RunOk(worker') /\ Keeps(s, worker') /\ worker'.at = "require"
  BY RequiringIs
<1> QED
  BY <1>1, <1>2, Required

LEMMA ResolveKeeps ==
    ASSUME ProvTyped, Ground, Going, Resolve
    PROVE  Ground' /\ Going'
<1>1. GroundCalm /\ worker.at = "resolve"
  BY DEF Resolve, rowVars, nodeFiles, ownFiles, placing, processes, GroundCalm
<1>2. Ground' /\ Onward' = Onward
  BY <1>1, GroundStays
<1>3. PICK s \in Runs : s = worker
  BY Typed
<1>4. worker.forward /\ Onward /\ ~Ended(operation) /\ s.head # NoOperation
  BY <1>1, <1>3, Directions, Typed
<1>5. StepsOnward(s.steps)
  BY <1>1, <1>3, <1>4, StepsBothWays
<1>6. StepsOnward(s.steps)' /\ operation' = operation /\ switched' = switched
  BY <1>1, <1>5, GroundStays DEF GroundCalm
<1>7. CASE worker' = Requiring(worker)
  BY <1>2, <1>3, <1>4, <1>6, <1>7, OnRequired
<1>8. CASE worker' = [worker EXCEPT !.at = IF switched THEN "applied" ELSE "apply"]
  <2>1. /\ worker'.at = (IF switched THEN "applied" ELSE "apply") /\ worker'.forward = s.forward
        /\ worker'.head = s.head /\ worker'.steps = s.steps
    BY <1>3, <1>8 DEF Runs
  <2> QED
    BY <1>2, <1>3, <1>4, <1>6, <2>1, OnGoes
<1> QED
  BY <1>7, <1>8 DEF Resolve

LEMMA ApplyProvisionKeeps ==
    ASSUME ProvTyped, Ground, Going, ApplyProvision
    PROVE  Ground' /\ Going'
<1>1. /\ worker.at = "apply" /\ switched' \in {switched, TRUE}
      /\ UNCHANGED <<operation, steps, wasUp, copy, tardy, intruded, clusterIni, stageDir,
                     unmarked, atHome, away>>
  BY DEF ApplyProvision, rowVars, nodeFiles, ownFiles, placing, processes
<1>2. PICK s \in Runs : s = worker
  BY Typed
<1>3. worker.forward /\ Onward /\ ~Ended(operation) /\ s.head # NoOperation
  BY <1>1, <1>2, Directions, Typed
<1>4. Onward' /\ operation' = operation
  BY <1>1, <1>3 DEF Onward
<1>5. switched => switched'
  BY <1>1
<1>6. \A q : StepsOnward(q) => StepsOnward(q)'
  BY <1>1, <1>5 DEF StepsOnward
<1>7. StepsOnward(s.steps)'
  BY <1>1, <1>2, <1>3, <1>6, StepsBothWays
<1>8. RowTrue'
  BY <1>1, <1>3, <1>4 DEF Ground, RowTrue
<1>9. UndecidedTrue'
  BY <1>4 DEF UndecidedTrue
<1>10. OnwardTrue'
  <2>1. StepsOnward(steps)
    BY <1>3 DEF Ground, OnwardTrue
  <2>2. PICK q : q = steps
    OBVIOUS
  <2>3. StepsOnward(q)'
    BY <1>6, <2>1, <2>2
  <2>4. StepsOnward(steps)'
    BY <1>1, <2>2, <2>3 DEF StepsOnward
  <2> QED
    BY <1>1, <1>3, <1>5, <2>4 DEF Ground, OnwardTrue
<1>11. EndTrue'
  BY <1>3, <1>4 DEF EndTrue, Ended
<1>12. Ground'
  BY <1>8, <1>9, <1>10, <1>11 DEF Ground
<1>13. CASE worker' = Requiring(worker)
  BY <1>2, <1>3, <1>4, <1>7, <1>12, <1>13, OnRequired
<1>14. CASE worker' = [worker EXCEPT !.at = "applied"] /\ switched'
  <2>1. /\ worker'.at = "applied" /\ worker'.forward = s.forward
        /\ worker'.head = s.head /\ worker'.steps = s.steps
    BY <1>2, <1>14 DEF Runs
  <2> QED
    BY <1>2, <1>3, <1>4, <1>7, <1>12, <1>14, <2>1, OnGoes
<1> QED
  BY <1>12, <1>13, <1>14 DEF ApplyProvision

-----------------------------------------------------------------------------
(* The room's own files *)

FilesCalm == UNCHANGED <<operation, steps, wasUp, copy, tardy, intruded, switched, atHome, away>>

LEMMA GroundFiles ==
    ASSUME Ground, FilesCalm, operation # NoOperation, ~Ended(operation),
           Onward => clusterIni' = clusterIni,
           ~Onward /\ clusterIni' = "new" => unmarked' \/ stageDir' = "marked"
    PROVE  /\ Ground' /\ Onward' = Onward
           /\ \A q : StepsOnward(q)' = StepsOnward(q) /\ StepsUndecided(q)' = StepsUndecided(q)
           /\ \A w : Cleared(w)' = Cleared(w)
           /\ AllLive' = AllLive
<1>1. Onward' = Onward /\ AllLive' = AllLive
  BY DEF FilesCalm, Onward, AllLive
<1>2. \A w : Cleared(w)' = Cleared(w)
  BY DEF FilesCalm, Cleared
<1>3. \A q : StepsOnward(q)' = StepsOnward(q)
  BY DEF FilesCalm, StepsOnward
<1>4. \A q : StepsUndecided(q)' = StepsUndecided(q)
  BY DEF FilesCalm, StepsUndecided, Cleared
<1>5. RowTrue'
  BY <1>1 DEF Ground, FilesCalm, RowTrue
<1>6. UndecidedTrue'
  <2>1. StepsUndecided(steps)' <=> StepsUndecided(steps)
    BY DEF FilesCalm, StepsUndecided, Cleared
  <2> QED
    BY <1>1, <2>1 DEF Ground, FilesCalm, UndecidedTrue
<1>7. OnwardTrue'
  <2>1. StepsOnward(steps)' <=> StepsOnward(steps)
    BY DEF FilesCalm, StepsOnward
  <2> QED
    BY <1>1, <2>1 DEF Ground, FilesCalm, OnwardTrue
<1>8. EndTrue'
  BY DEF EndTrue, FilesCalm, Ended
<1> QED
  BY <1>1, <1>2, <1>3, <1>4, <1>5, <1>6, <1>7, <1>8 DEF Ground

LEMMA StageClusterKeeps ==
    ASSUME ProvTyped, Ground, Going, StageCluster
    PROVE  Ground' /\ Going'
<1>1. FilesCalm /\ worker.at = "stage" /\ clusterIni' = clusterIni /\ unmarked' = unmarked
  BY DEF StageCluster, rowVars, nodeFiles, placing, processes, FilesCalm
<1>2. PICK s \in Runs : s = worker
  BY Typed
<1>3. {"stage", "uploading", "recheck"} \subseteq OutPlaces
      /\ "stage" \in HaltPlaces /\ "uploading" \in MovePlaces /\ "recheck" \in SettlePlaces
      /\ "uploading" \notin HaltPlaces \cup SettlePlaces /\ "recheck" \notin HaltPlaces \cup MovePlaces
  BY DEF OutPlaces, MovePlaces, HaltPlaces, SettlePlaces
<1>4. /\ OutTrue /\ ~worker.forward /\ ~Onward /\ operation # NoOperation /\ ~Ended(operation)
      /\ worker.first /\ ~worker.staged => clusterIni = "old"
      /\ worker.head # NoOperation /\ StepsUndecided(steps) /\ worker.steps = steps
  BY <1>1, <1>3, AtOut
<1>5. clusterIni = "old"
  BY <1>1, <1>3, <1>4 DEF OutTrue
<1>6. Ground' /\ Onward' = Onward
  BY <1>1, <1>4, <1>5, GroundFiles
<1>7. StepsUndecided(s.steps)'
  <2>1. StepsUndecided(s.steps)
    BY <1>2, <1>4
  <2> QED
    BY <1>1, <1>4, <1>5, <2>1, GroundFiles
<1>8. CASE worker' = Undoing(worker)
  <2>1. TurnsBack(s, worker')
    BY <1>2, <1>4, <1>8, UndoingTurnsBack
  <2> QED
    BY <1>1, <1>2, <1>3, <1>4, <1>6, <1>7, <2>1, TurnsFromOut DEF FilesCalm
<1>9. CASE /\ stageDir' = IF ClusterChanges THEN "staged" ELSE stageDir
           /\ worker' = TransferNext([worker EXCEPT !.staged = ClusterChanges, !.shard = 0])
  <2>1. PICK m : m = [worker EXCEPT !.staged = ClusterChanges, !.shard = 0]
    OBVIOUS
  <2>1a. 0 \in 0 .. LastShard /\ ClusterChanges \in BOOLEAN
    BY ShardNumbers, ProvisionAssumption DEF ProvisionAssumption
  <2>2. /\ m \in Runs /\ m.head = s.head /\ m.steps = s.steps /\ m.first = s.first /\ m.bad = s.bad
        /\ m.forward = s.forward /\ m.staged = ClusterChanges /\ m.shard = 0
    BY <1>2, <2>1, <2>1a DEF Runs
  <2>3. m.head # NoOperation
    BY <1>2, <1>4, <2>2
  <2>4. worker' = TransferNext(m)
    BY <1>9, <2>1
  <2>5. Loops(m, worker', "uploading", MovedShards, "recheck")
    BY <2>2, <2>3, <2>4, TransferLoops
  <2>6. /\ worker'.first = m.first /\ worker'.head = m.head /\ worker'.steps = m.steps
        /\ worker'.forward = m.forward /\ worker'.staged = m.staged /\ worker'.bad = m.bad
    BY <2>5 DEF Loops, Keeps
  <2>7. \/ /\ worker'.at = "uploading" /\ worker'.shard \in MovedShards
           /\ \A v \in MovedShards : v >= worker'.shard
        \/ worker'.at = "recheck" /\ \A v \in MovedShards : v <= 0
    <3>1. \A v \in MovedShards : v > 0
      BY ShardNumbers
    <3> QED
      BY <2>2, <2>5, <3>1 DEF Loops, Reaches
  <2>8. worker'.at = "uploading" /\ worker'.shard \in MovedShards
        /\ \A v \in MovedShards : v >= worker'.shard
    <3>1. PICK v \in MovedShards : v \in Nat /\ v >= 1
      BY ShardNumbers, ProvisionAssumption DEF ProvisionAssumption
    <3>2. ~(v <= 0)
      BY <3>1
    <3> QED
      BY <2>7, <3>2
  <2>9. /\ worker.first /\ ~worker.bad /\ tardy = {} /\ intruded = {} /\ worker.steps = steps
        /\ \A w \in Shards : ~steps[w].back
        /\ \A v \in Shards : ~atHome[v]
        /\ \A w \in MovedShards : copy[w] = "none" /\ steps[w].phase = "not_started"
    BY <1>1, <1>3, <1>4 DEF OutTrue
  <2>10. /\ worker'.first /\ ~worker'.bad /\ tardy' = {} /\ intruded' = {} /\ worker'.steps = steps'
         /\ \A w \in Shards : ~steps'[w].back
         /\ \A v \in Shards : ~atHome'[v]
         /\ \A w \in MovedShards : copy'[w] = "none" /\ steps'[w].phase = "not_started"
         /\ clusterIni' = "old" /\ worker'.staged = ClusterChanges
         /\ worker'.staged => stageDir' = "staged"
    BY <1>1, <1>2, <1>5, <1>9, <2>2, <2>6, <2>9 DEF FilesCalm
  <2>11. \A w \in MovedShards : ~(w < worker'.shard)
    <3>1. \A w \in MovedShards : w \in Nat
      BY ShardNumbers
    <3>2. worker'.shard \in Nat
      BY <2>8, <3>1
    <3> QED
      BY <2>8, <3>1, <3>2
  <2>12. OutTrue'
    BY <1>3, <2>8, <2>10, <2>11 DEF OutTrue, CopyIs, PhaseIs
  <2>13. ~worker'.forward
    BY <1>2, <1>4, <2>2, <2>6
  <2> QED
    BY <1>1, <1>3, <1>4, <1>6, <2>8, <2>10, <2>12, <2>13, OutStep DEF FilesCalm
<1> QED
  BY <1>6, <1>8, <1>9 DEF StageCluster

LEMMA PublishClusterKeeps ==
    ASSUME ProvTyped, Ground, Going, PublishCluster
    PROVE  Ground' /\ Going'
<1>1. /\ FilesCalm /\ worker.at \in {"publish", "mark"}
      /\ unmarked' = (clusterIni' = "new" /\ stageDir' = "staged")
  BY DEF PublishCluster, rowVars, nodeFiles, placing, processes, FilesCalm
<1>2. PICK s \in Runs : s = worker
  BY Typed
<1>3. {"publish", "mark", "decide"} \subseteq OutPlaces
      /\ {"publish", "mark", "decide"} \subseteq SettlePlaces
      /\ {"publish", "mark", "decide"} \cap (HaltPlaces \cup MovePlaces) = {}
  BY DEF OutPlaces, MovePlaces, HaltPlaces, SettlePlaces
<1>4. /\ OutTrue /\ ~worker.forward /\ ~Onward /\ operation # NoOperation /\ ~Ended(operation)
      /\ worker.first /\ ~worker.staged => clusterIni = "old"
      /\ worker.head # NoOperation /\ StepsUndecided(steps) /\ worker.steps = steps
  BY <1>1, <1>3, AtOut
<1>5. /\ worker.staged /\ stageDir = "staged"
      /\ worker.at = "publish" => clusterIni = "old"
      /\ worker.at = "mark" => clusterIni = "new"
  BY <1>1, <1>3, <1>4 DEF OutTrue
<1>6. clusterIni' = "new" => unmarked' \/ stageDir' = "marked"
  BY <1>1, <1>5 DEF PublishCluster
<1>7. Ground' /\ Onward' = Onward
  BY <1>1, <1>4, <1>6, GroundFiles
<1>8. StepsUndecided(s.steps)'
  <2>1. StepsUndecided(s.steps)
    BY <1>2, <1>4
  <2> QED
    BY <1>1, <1>4, <1>6, <2>1, GroundFiles
<1>9. CASE worker' = Undoing(worker)
  <2>1. TurnsBack(s, worker')
    BY <1>2, <1>4, <1>9, UndoingTurnsBack
  <2> QED
    BY <1>1, <1>2, <1>3, <1>4, <1>5, <1>7, <1>8, <2>1, TurnsFromOut DEF FilesCalm
<1>10. CASE \/ /\ worker.at = "publish" /\ clusterIni' = "new" /\ stageDir' = stageDir
               /\ worker' = [worker EXCEPT !.at = "mark"]
            \/ /\ worker.at = "mark" /\ clusterIni' = clusterIni
               /\ worker' = [worker EXCEPT !.at = "decide"]
  <2>1. /\ worker'.first = s.first /\ worker'.head = s.head /\ worker'.steps = s.steps
        /\ worker'.forward = s.forward /\ worker'.staged = s.staged /\ worker'.bad = s.bad
        /\ worker'.at = IF worker.at = "publish" THEN "mark" ELSE "decide"
    BY <1>2, <1>10 DEF Runs
  <2>2. /\ worker'.at = "mark" => clusterIni' = "new" /\ unmarked' /\ stageDir' = "staged"
        /\ worker'.at = "decide" => clusterIni' = "new"
    BY <1>1, <1>5, <1>10, <2>1
  <2>3. worker'.at \in {"mark", "decide"}
    BY <2>1
  <2>4. OutTrue'
    BY <1>1, <1>2, <1>3, <1>4, <1>5, <2>1, <2>2, <2>3 DEF OutTrue, FilesCalm
  <2>5. worker'.staged /\ ~worker'.forward /\ worker'.at \in OutPlaces
    BY <1>2, <1>3, <1>4, <1>5, <2>1, <2>3
  <2> QED
    BY <1>1, <1>4, <1>7, <2>4, <2>5, OutStep DEF FilesCalm
<1> QED
  BY <1>7, <1>9, <1>10 DEF PublishCluster

LEMMA RevertClusterKeeps ==
    ASSUME ProvTyped, Ground, Going, RevertCluster
    PROVE  Ground' /\ Going'
<1>1. FilesCalm /\ worker.at = "revert" /\ unmarked' = unmarked
  BY DEF RevertCluster, rowVars, nodeFiles, placing, processes, FilesCalm
<1>2. PICK s \in Runs : s = worker
  BY Typed
<1>3. ~worker.forward /\ ~Onward /\ ~Ended(operation) /\ operation # NoOperation
  BY <1>1, Directions, Typed
<1>4. clusterIni = "new" => unmarked \/ stageDir = "marked"
  BY <1>3 DEF Ground, UndecidedTrue
<1>5. /\ clusterIni' \in {clusterIni, "old"}
      /\ \/ /\ clusterIni' = IF stageDir = "marked" THEN "old" ELSE clusterIni
            /\ worker' = [worker EXCEPT !.at = "restore"]
         \/ /\ stageDir' = stageDir
            /\ \E m : m = [worker EXCEPT !.at = "restore"] /\ worker' = [m EXCEPT !.bad = TRUE]
  BY DEF RevertCluster
<1>6. clusterIni' = "new" => unmarked' \/ stageDir' = "marked"
  BY <1>1, <1>4, <1>5
<1>7. Ground' /\ Onward' = Onward
  BY <1>1, <1>3, <1>6, GroundFiles
<1>8. StepsUndecided(s.steps)'
  <2>1. StepsUndecided(s.steps)
    BY <1>1, <1>2, <1>3, StepsBothWays
  <2> QED
    BY <1>1, <1>3, <1>6, <2>1, GroundFiles
<1>9. /\ worker'.at = "restore" /\ worker'.first = s.first /\ worker'.head = s.head
      /\ worker'.steps = s.steps /\ worker'.forward = s.forward /\ worker'.staged = s.staged
      /\ worker'.bad \/ worker'.bad = s.bad
      /\ worker'.bad \/ clusterIni' = IF stageDir = "marked" THEN "old" ELSE clusterIni
  BY <1>2, <1>5 DEF Runs
<1>10. worker.bad \/ \A w \in MovedShards : Cleared(w)
  BY <1>1, <1>3, PlaceFacts DEF Going, UndoTrue
<1>11. worker'.bad \/ \A w \in MovedShards : Cleared(w)'
  <2>1. \A w : Cleared(w)' = Cleared(w)
    BY <1>1, <1>3, <1>6, GroundFiles
  <2> QED
    BY <1>2, <1>9, <1>10, <2>1
<1>12. clusterIni \in {"old", "new"}
  BY DEF ProvTyped, ProvTypeOK
<1>13. worker'.bad \/ clusterIni' = "old" \/ unmarked'
  BY <1>1, <1>4, <1>9, <1>12
<1>14. worker'.first /\ ~worker'.staged => clusterIni' = "old"
  BY <1>1, <1>2, <1>3, <1>5, <1>9 DEF Going, Headed
<1>15. Headed'
  <2>1. StepsUndecided(worker.steps)'
    BY <1>8, <1>9 DEF StepsUndecided
  <2>2. worker'.at \in UndoPlaces
    BY <1>9, PlaceFacts
  <2> QED
    BY <1>1, <1>2, <1>3, <1>7, <1>9, <1>14, <2>1, <2>2 DEF Headed, FilesCalm
<1>16. "restore" \notin OutPlaces
  BY PlaceFacts
<1>17. OutTrue' /\ UndoTrue' /\ RestoreTrue' /\ OnTrue'
  BY <1>2, <1>3, <1>9, <1>11, <1>13, <1>16 DEF OutTrue, UndoTrue, RestoreTrue, OnTrue
<1> QED
  BY <1>7, <1>15, <1>17 DEF Going

LEMMA CompleteClusterKeeps ==
    ASSUME ProvTyped, Ground, Going, CompleteCluster
    PROVE  Ground' /\ Going'
<1>1. FilesCalm /\ worker.at = "unstage" /\ unmarked' = unmarked /\ clusterIni' = clusterIni
  BY DEF CompleteCluster, rowVars, nodeFiles, placing, processes, FilesCalm
<1>2. PICK s \in Runs : s = worker
  BY Typed
<1>3. worker.forward /\ Onward /\ ~Ended(operation) /\ operation # NoOperation /\ s.head # NoOperation
  BY <1>1, <1>2, Directions, Typed
<1>7. Ground' /\ Onward' = Onward
  BY <1>1, <1>3, GroundFiles
<1>8. StepsOnward(s.steps)' /\ AllLive' = AllLive /\ operation' = operation /\ switched' = switched
  <2>1. StepsOnward(s.steps)
    BY <1>1, <1>2, <1>3, StepsBothWays
  <2> QED
    BY <1>1, <1>3, <2>1, GroundFiles DEF FilesCalm
<1>9. CASE worker' = Requiring(worker)
  BY <1>2, <1>3, <1>7, <1>8, <1>9, OnRequired
<1>10. CASE worker' = [worker EXCEPT !.at = "restore"]
  <2>1. /\ worker'.at = "restore" /\ worker'.first = s.first /\ worker'.head = s.head
        /\ worker'.steps = s.steps /\ worker'.forward = s.forward /\ worker'.staged = s.staged
    BY <1>2, <1>10 DEF Runs
  <2>2. switched /\ AllLive /\ Decided(s.head.phase)
    BY <1>1, <1>2, <1>3 DEF Going, OnTrue, Headed
  <2>3. StepsOnward(worker.steps)'
    BY <1>8, <2>1 DEF StepsOnward
  <2>4. Headed'
    BY <1>2, <1>3, <1>7, <1>8, <2>1, <2>2, <2>3, PlaceFacts DEF Headed
  <2>5. "restore" \notin OutPlaces
    BY PlaceFacts
  <2>6. OutTrue' /\ UndoTrue' /\ RestoreTrue' /\ OnTrue'
    BY <1>2, <1>3, <1>8, <2>1, <2>2, <2>5 DEF OutTrue, UndoTrue, RestoreTrue, OnTrue
  <2> QED
    BY <1>7, <2>4, <2>6 DEF Going
<1> QED
  BY <1>9, <1>10 DEF CompleteCluster

-----------------------------------------------------------------------------
(* The row of the operation *)

RowCalm == UNCHANGED <<steps, wasUp, copy, tardy, intruded, clusterIni, stageDir, unmarked,
                       switched, atHome, away>>

LEMMA RowFrame ==
    ASSUME RowCalm
    PROVE  /\ \A q : StepsOnward(q)' = StepsOnward(q) /\ StepsUndecided(q)' = StepsUndecided(q)
           /\ \A w : Cleared(w)' = Cleared(w)
           /\ AllLive' = AllLive
           /\ StepsOnward(steps)' = StepsOnward(steps)
           /\ StepsUndecided(steps)' = StepsUndecided(steps)
           /\ switched' = switched /\ clusterIni' = clusterIni /\ unmarked' = unmarked
           /\ steps' = steps /\ wasUp' = wasUp
BY DEF RowCalm, StepsOnward, StepsUndecided, Cleared, AllLive

LEMMA GroundRow ==
    ASSUME Ground, RowCalm, operation # NoOperation, operation' # NoOperation, Onward' = Onward,
           operation'.status = "succeeded" <=> operation'.phase = "completed",
           operation'.status = "rolled_back" <=> operation'.phase = "rolled_back",
           EndTrue'
    PROVE  Ground'
<1>1. RowTrue'
  BY RowFrame DEF Ground, RowTrue
<1>2. UndecidedTrue'
  BY RowFrame DEF Ground, UndecidedTrue, RowCalm
<1>3. OnwardTrue'
  BY RowFrame DEF Ground, OnwardTrue, RowCalm
<1> QED
  BY <1>1, <1>2, <1>3 DEF Ground

LEMMA HeaderWritten ==
    ASSUME ProvTyped, Ground, Going, worker.at \in SavePlaces, worker.at # "decide",
           RowCalm, operation' = Header(worker)
    PROVE  /\ Ground' /\ Onward' = Onward
           /\ worker.at \notin {"end", "close"} => ~Ended(operation')
<1>1. PICK s \in Runs : s = worker
  BY Typed
<1>2. s.head # NoOperation /\ operation # NoOperation /\ s.at # "idle"
  BY <1>1, Typed DEF SavePlaces
<1>3. (s.forward <=> Onward) /\ s.forward \in BOOLEAN
  BY <1>1, <1>2, Directions
<1>4. operation' # NoOperation
  BY <1>1, <1>2, HeaderIs
<1>5. CASE s.at \in {"stopping", "stopped", "uploading"}
  <2>1. operation'.phase = s.at /\ operation'.status = "running"
    BY <1>1, <1>2, <1>5, HeaderIs
  <2>2. s.at \in OutPlaces
    BY <1>5 DEF OutPlaces, HaltPlaces, MovePlaces
  <2>3. ~Onward /\ ~Onward'
    BY <1>1, <1>5, <2>1, <2>2, Directions DEF Onward, Decided
  <2>4. EndTrue'
    BY <2>1 DEF EndTrue
  <2>4a. Onward' = Onward
    <3>1. Onward \in BOOLEAN /\ Onward' \in BOOLEAN
      BY DEF Onward, Decided
    <3> QED
      BY <2>3, <3>1
  <2>4b. operation'.phase \notin {"completed", "rolled_back"}
    BY <1>5, <2>1
  <2>5. Ground'
    BY <1>2, <1>4, <2>1, <2>4, <2>4a, <2>4b, GroundRow
  <2> QED
    BY <1>1, <2>1, <2>4a, <2>5 DEF Ended
<1>6. CASE s.at = "applied"
  <2>1. operation'.phase = "topology_committed" /\ operation'.status = "running"
    BY <1>1, <1>2, <1>6, HeaderIs
  <2>3. Onward /\ Onward'
    BY <1>1, <1>6, <2>1, Directions DEF Onward, Decided
  <2>4. EndTrue'
    BY <2>1 DEF EndTrue
  <2>5. Ground'
    BY <1>2, <1>4, <2>1, <2>3, <2>4, GroundRow
  <2> QED
    BY <2>1, <2>3, <2>5 DEF Ended
<1>7. CASE s.at = "restore"
  <2>1. /\ operation'.phase = (IF s.forward THEN "runtime_restore_target"
                               ELSE "runtime_restore_source")
        /\ operation'.status = "running"
    BY <1>1, <1>2, <1>7, HeaderIs
  <2>3. Onward' = Onward
    <3>1. Onward' <=> s.forward
      BY <2>1, <1>3 DEF Onward, Decided
    <3>2. Onward \in BOOLEAN /\ Onward' \in BOOLEAN
      BY DEF Onward, Decided
    <3> QED
      BY <1>3, <3>1, <3>2
  <2>4. EndTrue'
    BY <2>1 DEF EndTrue
  <2>4a. operation'.phase \notin {"completed", "rolled_back"}
    BY <2>1
  <2>5. Ground'
    BY <1>2, <1>4, <2>1, <2>3, <2>4, <2>4a, GroundRow
  <2> QED
    BY <2>1, <2>3, <2>5 DEF Ended
<1>8. CASE s.at = "require"
  <2>1. operation'.phase = s.head.phase /\ operation'.status = "recovery_required"
    BY <1>1, <1>2, <1>8, HeaderIs
  <2>2. /\ s.forward => Decided(s.head.phase)
        /\ ~s.forward => s.head.phase = "runtime_restore_source"
    BY <1>1, <1>8 DEF Going, Headed
  <2>3. Onward' = Onward
    <3>1. Onward' <=> s.forward
      BY <2>1, <2>2, <1>3 DEF Onward, Decided
    <3>2. Onward \in BOOLEAN /\ Onward' \in BOOLEAN
      BY DEF Onward, Decided
    <3> QED
      BY <1>3, <3>1, <3>2
  <2>4. EndTrue'
    BY <2>1 DEF EndTrue
  <2>4a. operation'.phase \notin {"completed", "rolled_back"}
    BY <1>3, <2>1, <2>2 DEF Decided
  <2>5. Ground'
    BY <1>2, <1>4, <2>1, <2>3, <2>4, <2>4a, GroundRow
  <2> QED
    BY <2>1, <2>3, <2>5 DEF Ended
<1>9. CASE s.at = "end"
  <2>1. operation'.phase = "completed" /\ operation'.status = "succeeded"
    BY <1>1, <1>2, <1>9, HeaderIs
  <2>2. Onward /\ Onward' /\ s.forward
    BY <1>1, <1>9, <2>1, Directions DEF Onward
  <2>3. /\ switched /\ AllLive
        /\ \A v \in Shards : wasUp[v] => s.steps[v].back
        /\ StepsOnward(s.steps)
    BY <1>1, <1>9, <2>2 DEF Going, OnTrue, RestoreTrue, Headed
  <2>4. \A w \in Shards : wasUp[w] => IF w \in MovedShards THEN away[w] ELSE atHome[w]
    BY <2>3 DEF StepsOnward
  <2>5. EndTrue'
    BY <2>1, <2>3, <2>4, RowFrame DEF EndTrue, RowCalm
  <2>6. Ground'
    BY <1>2, <1>4, <2>1, <2>2, <2>5, GroundRow
  <2> QED
    BY <1>1, <1>9, <2>2, <2>6
<1>10. CASE s.at = "close"
  <2>1. operation'.phase = "rolled_back" /\ operation'.status = "rolled_back"
    BY <1>1, <1>2, <1>10, HeaderIs
  <2>2. ~Onward /\ ~Onward' /\ ~s.forward
    BY <1>1, <1>10, <2>1, Directions DEF Onward, Decided
  <2>3. /\ ~s.bad /\ \A v \in Shards : wasUp[v] => s.steps[v].back
        /\ StepsUndecided(s.steps)
        /\ s.bad \/ \A w \in MovedShards : Cleared(w)
        /\ s.bad \/ clusterIni = "old" \/ unmarked
    BY <1>1, <1>10, <2>2, PlaceFacts DEF Going, UndoTrue, RestoreTrue, Headed
  <2>4. \A w \in Shards : wasUp[w] => atHome[w]
    BY <2>3 DEF StepsUndecided
  <2>5. EndTrue'
    BY <2>1, <2>3, <2>4, RowFrame DEF EndTrue, RowCalm
  <2>5a. Onward' = Onward
    <3>1. Onward \in BOOLEAN /\ Onward' \in BOOLEAN
      BY DEF Onward, Decided
    <3> QED
      BY <2>2, <3>1
  <2>6. Ground'
    BY <1>2, <1>4, <2>1, <2>5, <2>5a, GroundRow
  <2> QED
    BY <1>1, <1>10, <2>5a, <2>6
<1> QED
  BY <1>1, <1>5, <1>6, <1>7, <1>8, <1>9, <1>10 DEF SavePlaces

LEMMA DecisionWritten ==
    ASSUME ProvTyped, Ground, Going, worker.at = "decide", RowCalm, operation' = Header(worker)
    PROVE  Ground' /\ Onward' /\ ~Ended(operation') /\ StepsOnward(steps)'
           /\ operation'.phase = "commit_decided"
<1>1. operation'.phase = "commit_decided" /\ operation'.status = "running" /\ operation' # NoOperation
  <2>1. worker \in Runs /\ worker.head # NoOperation /\ worker.at \in SavePlaces
    BY Typed DEF SavePlaces
  <2> QED
    BY <2>1, HeaderIs
<1>2. "decide" \in OutPlaces /\ "decide" \in SettlePlaces
  BY DEF OutPlaces, SettlePlaces
<1>3. OutTrue /\ ~Onward /\ StepsUndecided(steps)
  BY <1>2, AtOut
<1>4. Onward'
  BY <1>1 DEF Onward, Decided
<1>5. /\ tardy = {} /\ \A w \in Shards : ~steps[w].back
      /\ \A v \in Shards : ~atHome[v]
      /\ \A w \in MovedShards : copy[w] = "published"
      /\ ClusterChanges => clusterIni = "new"
  BY <1>2, <1>3 DEF OutTrue
<1>6. \A w \in MovedShards : ~away[w]
  BY <1>3 DEF Ground, UndecidedTrue
<1>7. StepsOnward(steps)
  BY <1>3, <1>5 DEF StepsOnward, StepsUndecided
<1>8. RowTrue'
  BY <1>1, <1>4 DEF RowTrue
<1>9. UndecidedTrue'
  BY <1>4 DEF UndecidedTrue
<1>10. OnwardTrue'
  BY <1>5, <1>6, <1>7, RowFrame, ShardNumbers DEF OnwardTrue, RowCalm
<1>11. EndTrue'
  BY <1>1 DEF EndTrue
<1>12. Ground'
  BY <1>8, <1>9, <1>10, <1>11 DEF Ground
<1>13. StepsOnward(steps)' /\ ~Ended(operation')
  BY <1>1, <1>7, RowFrame DEF Ended
<1> QED
  BY <1>1, <1>4, <1>12, <1>13

\* A save of the row, and what the run does next.
LEMMA SavePhaseKeeps ==
    ASSUME ProvTyped, Ground, Going, SavePhase
    PROVE  Ground' /\ Going'
<1>1. /\ worker.at \in SavePlaces /\ operation' = Header(worker) /\ RowCalm
  BY DEF SavePhase, nodeFiles, ownFiles, placing, processes, RowCalm
<1>2. PICK s \in Runs : s = worker
  BY Typed
<1>3. s.head # NoOperation /\ s.at # "idle" /\ operation # NoOperation
      /\ steps \in [Shards -> StepRows]
  BY <1>1, <1>2, Typed DEF SavePlaces
<1>4. operation' \in Headers /\ operation' # NoOperation
  BY <1>1, <1>2, <1>3, HeaderIs
<1>5. PICK m : m = [worker EXCEPT !.head = operation', !.steps = steps]
  OBVIOUS
<1>6. /\ m \in Runs /\ m.head = operation' /\ m.steps = steps /\ m.at = s.at /\ m.shard = s.shard
      /\ m.first = s.first /\ m.forward = s.forward /\ m.staged = s.staged /\ m.bad = s.bad
  BY <1>2, <1>3, <1>4, <1>5 DEF Runs
<1>6a. m.head # NoOperation
  BY <1>4, <1>6
<1>7. worker' = CASE m.at = "stopping" -> Halting(From(m))
                  [] m.at = "stopped" -> [m EXCEPT !.at = "stage"]
                  [] m.at = "uploading" -> [m EXCEPT !.at = "planned"]
                  [] m.at = "decide" -> [m EXCEPT !.at = "apply", !.forward = TRUE]
                  [] m.at = "applied" -> CompleteNext(From(m))
                  [] m.at = "restore" -> RestoreNext(From(m))
                  [] OTHER -> Nobody
  BY <1>5 DEF SavePhase
<1>8. PICK u : u = From(m)
  OBVIOUS
<1>9. /\ u \in Runs /\ u.head = m.head /\ u.steps = m.steps /\ u.shard = 0 /\ u.first = m.first
      /\ u.forward = m.forward /\ u.staged = m.staged /\ u.bad = m.bad
  BY <1>6, <1>6a, <1>8, FieldsStay DEF Keeps
<1>9a. u.head # NoOperation
  BY <1>6a, <1>9
<1>10. s.at # "decide" => Ground' /\ Onward' = Onward
       /\ (s.at \notin {"end", "close"} => ~Ended(operation'))
  BY <1>1, <1>2, HeaderWritten
<1>11. CASE s.at = "stopping"
  <2>1. worker' = Halting(u)
    BY <1>6, <1>7, <1>8, <1>11
  <2>2. Loops(u, worker', "halt", {w \in Shards : atHome[w]}, "stopped")
    BY <1>9, <1>9a, <2>1, HaltingLoops
  <2>3. Keeps(u, worker')
    BY <2>2 DEF Loops
  <2>4. \/ /\ worker'.at = "halt" /\ worker'.shard \in Shards
           /\ \A v \in Shards : atHome[v] /\ v > 0 => v >= worker'.shard
        \/ worker'.at = "stopped" /\ \A v \in Shards : atHome[v] => v <= 0
    BY <1>9, <2>2 DEF Loops, Reaches
  <2>5. worker'.at = "halt" => \A v \in Shards : v < worker'.shard => ~atHome[v]
    <3>1. SUFFICES ASSUME worker'.at = "halt", NEW v \in Shards, v < worker'.shard, atHome[v]
                   PROVE  FALSE
      OBVIOUS
    <3>2. v \in Nat /\ v > 0 /\ worker'.shard \in Nat
      <4>1. \A x \in Shards : x \in Nat /\ x > 0
        BY ShardNumbers
      <4>2. worker'.shard \in Shards
        BY <2>4, <3>1
      <4> QED
        BY <4>1, <4>2
    <3> QED
      BY <2>4, <3>1, <3>2
  <2>6. worker'.at = "stopped" => \A v \in Shards : ~atHome[v]
    BY <2>4, ShardNumbers
  <2>7. {"stopping", "halt", "stopped"} \subseteq OutPlaces
        /\ {"stopping", "halt", "stopped"} \subseteq HaltPlaces
        /\ {"stopping", "halt", "stopped"} \cap (MovePlaces \cup SettlePlaces) = {}
    BY DEF OutPlaces, MovePlaces, HaltPlaces, SettlePlaces
  <2>8. /\ OutTrue /\ ~worker.forward /\ ~Onward /\ ~Ended(operation)
        /\ worker.first /\ ~worker.staged => clusterIni = "old"
    BY <1>2, <1>11, <2>7, AtOut
  <2>9. worker'.at \in {"halt", "stopped"}
    BY <2>4
  <2>10. /\ worker.first /\ ~worker.bad /\ tardy = {} /\ intruded = {}
         /\ \A w \in Shards : ~steps[w].back
         /\ ~worker.staged /\ \A w \in MovedShards : copy[w] = "none" /\ steps[w].phase = "not_started"
         /\ clusterIni = "old"
    BY <1>2, <1>11, <2>7, <2>8 DEF OutTrue
  <2>11. OutTrue'
    BY <1>1, <1>2, <1>6, <1>9, <2>3, <2>5, <2>6, <2>7, <2>9, <2>10 DEF OutTrue, RowCalm, Keeps
  <2>12. ~worker'.forward /\ clusterIni' = "old"
    BY <1>1, <1>2, <1>6, <1>9, <2>3, <2>8, <2>10 DEF Keeps, RowCalm
  <2>13. Ground' /\ ~Onward' /\ ~Ended(operation')
    BY <1>10, <1>11, <2>8
  <2> QED
    BY <1>4, <2>7, <2>9, <2>11, <2>12, <2>13, OutStep
<1>12. CASE s.at = "stopped" \/ s.at = "uploading"
  <2>1. worker' = [m EXCEPT !.at = IF s.at = "stopped" THEN "stage" ELSE "planned"]
    BY <1>6, <1>7, <1>12
  <2>2. /\ worker'.at = (IF s.at = "stopped" THEN "stage" ELSE "planned") /\ worker'.shard = m.shard
        /\ worker'.first = m.first /\ worker'.steps = m.steps /\ worker'.forward = m.forward
        /\ worker'.staged = m.staged /\ worker'.bad = m.bad
    BY <1>6, <2>1 DEF Runs
  <2>3. {"stopped", "uploading", "stage", "planned"} \subseteq OutPlaces
        /\ {"stopped", "stage"} \subseteq HaltPlaces /\ {"uploading", "planned"} \subseteq MovePlaces
        /\ {"stopped", "stage"} \cap (MovePlaces \cup SettlePlaces) = {}
        /\ {"uploading", "planned"} \cap (HaltPlaces \cup SettlePlaces) = {}
    BY DEF OutPlaces, MovePlaces, HaltPlaces, SettlePlaces
  <2>4. /\ OutTrue /\ ~worker.forward /\ ~Onward /\ ~Ended(operation)
        /\ worker.first /\ ~worker.staged => clusterIni = "old"
    BY <1>2, <1>12, <2>3, AtOut
  <2>5. OutTrue'
    BY <1>1, <1>2, <1>6, <1>12, <2>2, <2>3, <2>4 DEF OutTrue, RowCalm, CopyIs, PhaseIs
  <2>6. ~worker'.forward /\ (worker'.first /\ ~worker'.staged => clusterIni' = "old")
    BY <1>1, <1>2, <1>6, <2>2, <2>4 DEF RowCalm
  <2>7. Ground' /\ ~Onward' /\ ~Ended(operation')
    BY <1>10, <1>12, <2>4
  <2>8. worker'.at \in OutPlaces
    BY <2>2, <2>3
  <2> QED
    BY <1>4, <2>5, <2>6, <2>7, <2>8, OutStep
<1>13. CASE s.at = "decide"
  <2>1. worker' = [m EXCEPT !.at = "apply", !.forward = TRUE]
    BY <1>6, <1>7, <1>13
  <2>2. worker'.at = "apply" /\ worker'.forward /\ worker'.steps = steps /\ worker'.head = operation'
    BY <1>6, <2>1 DEF Runs
  <2>3. Ground' /\ Onward' /\ ~Ended(operation') /\ StepsOnward(steps)'
        /\ operation'.phase = "commit_decided"
    BY <1>1, <1>2, <1>13, DecisionWritten
  <2>4. StepsOnward(worker.steps)'
    BY <2>2, <2>3, RowFrame, <1>1 DEF StepsOnward
  <2>5. Headed'
    BY <2>2, <2>3, <2>4, PlaceFacts DEF Headed, Decided
  <2>6. "apply" \notin OutPlaces \cup RestorePlaces
    BY PlaceFacts
  <2>7. OutTrue' /\ UndoTrue' /\ RestoreTrue' /\ OnTrue'
    BY <2>2, <2>6 DEF OutTrue, UndoTrue, RestoreTrue, OnTrue
  <2> QED
    BY <2>3, <2>5, <2>7 DEF Going
<1>14. CASE s.at = "applied"
  <2>1. worker' = CompleteNext(u)
    BY <1>6, <1>7, <1>8, <1>14
  <2>2. Loops(u, worker', "complete", Uncompleted(u), AfterCompletion(u))
    BY <1>9, <1>9a, <2>1, CompleteLoops
  <2>3. s.forward /\ Onward /\ switched
    BY <1>2, <1>14, Directions DEF Going, OnTrue
  <2>4. Ground' /\ Onward' /\ ~Ended(operation') /\ switched'
    BY <1>1, <1>10, <1>14, <2>3, RowFrame
  <2>5. StepsOnward(u.steps)'
    <3>1. StepsOnward(steps)
      BY <2>3 DEF Ground, OnwardTrue
    <3>2. StepsOnward(u.steps)
      BY <1>6, <1>9, <3>1
    <3> QED
      BY <1>1, <3>2, RowFrame
  <2>6. Decided(u.head.phase)
    <3>1. operation'.phase = "topology_committed"
      BY <1>1, <1>2, <1>3, <1>14, HeaderIs
    <3> QED
      BY <1>6, <1>9, <3>1 DEF Decided
  <2>7. \A v \in MovedShards : ~(v <= u.shard)
    BY <1>9, ShardNumbers
  <2> QED
    BY <1>6, <1>9, <2>2, <2>3, <2>4, <2>5, <2>6, <2>7, Completed
<1>15. CASE s.at = "restore"
  <2>1. worker' = RestoreNext(u)
    BY <1>6, <1>7, <1>8, <1>15
  <2>2. Loops(u, worker', "start", Restorable(u), Restarted(u))
    BY <1>9, <1>9a, <2>1, RestoreLoops
  <2>3. (s.forward <=> Onward) /\ s.forward \in BOOLEAN
    BY <1>2, <1>3, Directions
  <2>4. Ground' /\ ~Ended(operation') /\ Onward' = Onward
    BY <1>10, <1>15
  <2>5. IF Onward' THEN StepsOnward(u.steps)' ELSE StepsUndecided(u.steps)'
    <3>1. IF Onward THEN StepsOnward(steps) ELSE StepsUndecided(steps)
      BY <1>3 DEF Ground, OnwardTrue, UndecidedTrue
    <3>2. IF Onward THEN StepsOnward(u.steps) ELSE StepsUndecided(u.steps)
      BY <1>6, <1>9, <3>1
    <3> QED
      BY <1>1, <2>4, <3>2, RowFrame
  <2>6. operation'.phase = IF s.forward THEN "runtime_restore_target" ELSE "runtime_restore_source"
    BY <1>1, <1>2, <1>3, <1>15, HeaderIs
  <2>7. s.forward => AllLive /\ switched
    BY <1>2, <1>15, PlaceFacts DEF Going, OnTrue
  <2>8. ~s.forward => /\ s.bad \/ \A w \in MovedShards : Cleared(w)
                      /\ s.bad \/ clusterIni = "old" \/ unmarked
    BY <1>2, <1>15, PlaceFacts DEF Going, UndoTrue
  <2>9. s.first /\ ~s.staged /\ ~s.forward => clusterIni = "old"
    BY <1>2, <1>3 DEF Going, Headed
  <2>10. \A v \in Shards : ~(v <= u.shard)
    BY <1>9, ShardNumbers
  <2>11. wasUp' = wasUp /\ wasUp \in [Shards -> BOOLEAN]
    BY <1>1, RowFrame, Typed
  <2>12. u.forward => AllLive' /\ switched' /\ Decided(u.head.phase)
    BY <1>1, <1>6, <1>9, <2>6, <2>7, RowFrame DEF Decided
  <2>13. ~u.forward => /\ u.head.phase = "runtime_restore_source"
                       /\ u.bad \/ \A w \in MovedShards : Cleared(w)'
                       /\ u.bad \/ clusterIni' = "old" \/ unmarked'
    BY <1>1, <1>6, <1>9, <2>6, <2>8, RowFrame
  <2>14. u.first /\ ~u.staged /\ ~u.forward => clusterIni' = "old"
    BY <1>1, <1>6, <1>9, <2>9, RowFrame
  <2>15. u.forward <=> Onward'
    BY <1>6, <1>9, <2>3, <2>4
  <2> QED
    BY <1>9, <2>2, <2>4, <2>5, <2>10, <2>11, <2>12, <2>13, <2>14, <2>15, Restored
<1>16. CASE s.at \in {"end", "close", "require"}
  <2>1. worker' = Nobody
    BY <1>6, <1>7, <1>16
  <2> QED
    BY <1>10, <1>16, <2>1, Left
<1> QED
  BY <1>1, <1>2, <1>11, <1>12, <1>13, <1>14, <1>15, <1>16 DEF SavePlaces

LEMMA SavePhaseFailsKeeps ==
    ASSUME ProvTyped, Ground, Going, SavePhaseFails, Sound'
    PROVE  Ground' /\ Going'
<1>1. /\ worker.at \in SavePlaces /\ operation' \in {operation, Header(worker)} /\ RowCalm
      /\ worker.at = "decide" => operation' = operation
  <2>1. ~misdecided'
    BY DEF Sound
  <2>2. misdecided' = (misdecided \/ (worker.at = "decide" /\ operation' # operation))
    BY DEF SavePhaseFails
  <2>3. worker.at = "decide" => operation' = operation
    BY <2>1, <2>2
  <2> QED
    BY <2>3 DEF SavePhaseFails, rowVars, nodeFiles, ownFiles, placing, processes, RowCalm
<1>2. PICK s \in Runs : s = worker
  BY Typed
<1>3. s.head # NoOperation /\ s.at # "idle" /\ operation # NoOperation
  BY <1>1, <1>2, Typed DEF SavePlaces
<1>4. Header(s) \in Headers /\ Header(s) # NoOperation
  BY <1>1, <1>2, <1>3, HeaderIs
<1>5. PICK m : m = [worker EXCEPT !.head = Header(worker)]
  OBVIOUS
<1>6. /\ m \in Runs /\ m.head = Header(s) /\ m.steps = s.steps /\ m.at = s.at /\ m.shard = s.shard
      /\ m.first = s.first /\ m.forward = s.forward /\ m.staged = s.staged /\ m.bad = s.bad
  <2>1. m = [s EXCEPT !.head = Header(s)]
    BY <1>2, <1>5
  <2>2. PICK h \in Headers : h = Header(s)
    BY <1>4
  <2>3. m = [s EXCEPT !.head = h]
    BY <2>1, <2>2
  <2> HIDE <2>1
  <2> QED
    BY <2>2, <2>3 DEF Runs
<1>6a. m.head # NoOperation
  BY <1>4, <1>6
<1>7. worker' = CASE m.at \in {"stopping", "stopped", "decide"} -> Undoing(m)
                  [] m.at = "applied" -> IF m.first THEN Requiring(m) ELSE CompleteNext(From(m))
                  [] m.at = "restore" -> Requiring(m)
                  [] OTHER -> Nobody
  BY <1>5 DEF SavePhaseFails
<1>8. (s.forward <=> Onward) /\ s.forward \in BOOLEAN /\ ~Ended(operation)
  BY <1>2, <1>3, Directions
<1>9. Ground' /\ Onward' = Onward /\ (s.at \notin {"end", "close"} => ~Ended(operation'))
  <2>1. CASE operation' = operation
    <3>1. GroundCalm
      BY <1>1, <2>1 DEF RowCalm, GroundCalm
    <3> QED
      BY <1>8, <2>1, <3>1, GroundStays
  <2>2. CASE operation' = Header(worker) /\ s.at # "decide"
    BY <1>1, <1>2, <2>2, HeaderWritten
  <2> QED
    BY <1>1, <1>2, <2>1, <2>2
<1>10. IF Onward' THEN StepsOnward(m.steps)' ELSE StepsUndecided(m.steps)'
  <2>1. IF Onward THEN StepsOnward(s.steps) ELSE StepsUndecided(s.steps)
    BY <1>2, <1>3, StepsBothWays
  <2>2. IF Onward THEN StepsOnward(m.steps) ELSE StepsUndecided(m.steps)
    BY <1>6, <2>1
  <2> QED
    BY <1>1, <1>9, <2>2, RowFrame
<1>11. s.first /\ ~s.staged /\ ~s.forward => clusterIni' = "old"
  BY <1>1, <1>2, <1>3, RowFrame DEF Going, Headed
<1>12. CASE s.at \in {"stopping", "stopped", "decide"}
  <2>1. worker' = Undoing(m)
    BY <1>6, <1>7, <1>12
  <2>2. TurnsBack(m, worker')
    BY <1>6, <1>6a, <2>1, UndoingTurnsBack
  <2>3. s.at \in OutPlaces
    BY <1>12 DEF OutPlaces, HaltPlaces, SettlePlaces
  <2>4. ~Onward /\ ~s.forward
    BY <1>2, <2>3, Directions
  <2>5. ~Onward' /\ ~Ended(operation')
    BY <1>9, <1>12, <2>4
  <2> QED
    BY <1>6, <1>9, <1>10, <1>11, <2>2, <2>4, <2>5, TurnedBack
<1>13. CASE s.at = "applied"
  <2>1. s.forward /\ Onward /\ switched
    BY <1>2, <1>13, Directions DEF Going, OnTrue
  <2>2. Onward' /\ ~Ended(operation') /\ switched'
    BY <1>1, <1>9, <1>13, <2>1, RowFrame
  <2>3. Decided(m.head.phase)
    BY <1>1, <1>2, <1>3, <1>6, <1>13, HeaderIs DEF Decided
  <2>4. CASE m.first
    <3>1. worker' = Requiring(m)
      BY <1>6, <1>7, <1>13, <2>4
    <3>2. RunOk(worker') /\ Keeps(m, worker') /\ worker'.at = "require"
      BY <1>6, <1>6a, <3>1, RequiringIs
    <3> QED
      BY <1>6, <1>9, <1>10, <2>1, <2>2, <2>3, <3>2, Required
  <2>5. CASE ~m.first
    <3>1. PICK u : u = From(m)
      OBVIOUS
    <3>2. /\ u \in Runs /\ u.head = m.head /\ u.steps = m.steps /\ u.shard = 0 /\ u.first = m.first
          /\ u.forward = m.forward
      BY <1>6, <1>6a, <3>1, FieldsStay DEF Keeps
    <3>3. worker' = CompleteNext(u) /\ u.head # NoOperation
      BY <1>6, <1>6a, <1>7, <1>13, <2>5, <3>1, <3>2
    <3>4. Loops(u, worker', "complete", Uncompleted(u), AfterCompletion(u))
      BY <3>2, <3>3, CompleteLoops
    <3>5. \A v \in MovedShards : ~(v <= u.shard)
      BY <3>2, ShardNumbers
    <3>6. StepsOnward(u.steps)'
      BY <1>10, <2>2, <3>2
    <3> QED
      BY <1>6, <1>9, <2>1, <2>2, <2>3, <3>2, <3>4, <3>5, <3>6, Completed
  <2> QED
    BY <2>4, <2>5
<1>14. CASE s.at = "restore"
  <2>1. worker' = Requiring(m)
    BY <1>6, <1>7, <1>14
  <2>2. RunOk(worker') /\ Keeps(m, worker') /\ worker'.at = "require"
    BY <1>6, <1>6a, <2>1, RequiringIs
  <2>3. m.head.phase = IF s.forward THEN "runtime_restore_target" ELSE "runtime_restore_source"
    BY <1>1, <1>2, <1>3, <1>6, <1>14, HeaderIs
  <2>4. ~s.forward => s.bad \/ \A w \in MovedShards : Cleared(w)
    BY <1>2, <1>14, PlaceFacts DEF Going, UndoTrue
  <2>5. ~m.forward => /\ m.head.phase = "runtime_restore_source"
                      /\ m.bad \/ \A w \in MovedShards : Cleared(w)'
    BY <1>1, <1>6, <2>3, <2>4, RowFrame
  <2>6. m.forward => Decided(m.head.phase)
    BY <1>6, <2>3 DEF Decided
  <2>7. (m.forward <=> Onward') /\ ~Ended(operation')
    BY <1>6, <1>8, <1>9, <1>14
  <2> QED
    BY <1>6, <1>9, <1>10, <1>11, <2>2, <2>5, <2>6, <2>7, Required
<1>15. CASE s.at \in {"uploading", "end", "close", "require"}
  <2>1. worker' = Nobody
    BY <1>6, <1>7, <1>15
  <2> QED
    BY <1>9, <2>1, Left
<1> QED
  BY <1>1, <1>2, <1>12, <1>13, <1>14, <1>15 DEF SavePlaces

-----------------------------------------------------------------------------
(* The rows of the steps *)

StepsCalm == UNCHANGED <<operation, wasUp, copy, tardy, intruded, clusterIni, stageDir, unmarked,
                         switched, atHome, away>>

LEMMA StepsFrame ==
    ASSUME StepsCalm
    PROVE  /\ \A q : StepsOnward(q)' = StepsOnward(q) /\ StepsUndecided(q)' = StepsUndecided(q)
           /\ \A w : Cleared(w)' = Cleared(w)
           /\ AllLive' = AllLive /\ Onward' = Onward
           /\ switched' = switched /\ clusterIni' = clusterIni /\ unmarked' = unmarked
           /\ operation' = operation /\ wasUp' = wasUp
BY DEF StepsCalm, StepsOnward, StepsUndecided, Cleared, AllLive, Onward

\* New rows that say what is true.
LEMMA GroundSteps ==
    ASSUME Ground, StepsCalm, NEW q, q = steps',
           IF Onward THEN StepsOnward(q) ELSE StepsUndecided(q)
    PROVE  Ground'
<1>1. RowTrue'
  BY StepsFrame DEF Ground, RowTrue, StepsCalm
<1>2. UndecidedTrue'
  <2>1. ~Onward => StepsUndecided(q)'
    BY StepsFrame
  <2>2. ~Onward => StepsUndecided(steps)'
    BY <2>1 DEF StepsUndecided
  <2> QED
    BY <2>2, StepsFrame DEF Ground, UndecidedTrue, StepsCalm
<1>3. OnwardTrue'
  <2>1. Onward => StepsOnward(q)'
    BY StepsFrame
  <2>2. Onward => StepsOnward(steps)'
    BY <2>1 DEF StepsOnward
  <2> QED
    BY <2>2, StepsFrame DEF Ground, OnwardTrue, StepsCalm
<1>4. EndTrue'
  BY StepsFrame DEF Ground, EndTrue, StepsCalm
<1> QED
  BY <1>1, <1>2, <1>3, <1>4 DEF Ground

\* A row that is replaced by a true one.
LEMMA RowsReplaced ==
    ASSUME NEW p \in [Shards -> StepRows], NEW q \in [Shards -> StepRows], NEW w \in Shards,
           NEW n, n = [p EXCEPT ![w] = q[w]],
           IF Onward THEN StepsOnward(p) /\ StepsOnward(q) ELSE StepsUndecided(p) /\ StepsUndecided(q)
    PROVE  IF Onward THEN StepsOnward(n) ELSE StepsUndecided(n)
<1>1. \A v \in Shards : n[v] = p[v] \/ n[v] = q[v]
  OBVIOUS
<1>2. \A v \in MovedShards : v \in Shards
  BY ShardNumbers
<1>3. CASE Onward
  BY <1>1, <1>2, <1>3 DEF StepsOnward
<1>4. CASE ~Onward
  BY <1>1, <1>2, <1>4 DEF StepsUndecided
<1> QED
  BY <1>3, <1>4

\* Where a save of a step is made.
LEMMA StepPlacesAre ==
    ASSUME ProvTyped, Ground, Going, worker.at \in StepPlaces
    PROVE  /\ worker.shard \in Shards /\ worker.at # "idle" /\ worker.head # NoOperation
           /\ worker.at \in {"planned", "unsent", "writing", "published"} =>
                 /\ worker.at \in OutPlaces /\ worker.at \in MovePlaces
                 /\ worker.at \notin HaltPlaces \cup SettlePlaces
                 /\ ~Onward /\ ~worker.forward
           /\ worker.at \in {"planned", "unsent", "writing", "published", "completed", "undone"} =>
                 worker.shard \in MovedShards
<1>1. worker.at \in {"planned", "unsent", "writing", "published"} =>
                 /\ worker.at \in OutPlaces /\ worker.at \in MovePlaces
                 /\ worker.at \notin HaltPlaces \cup SettlePlaces
  BY DEF OutPlaces, MovePlaces, HaltPlaces, SettlePlaces
<1>2. worker.at # "idle" /\ worker.head # NoOperation
  BY Typed DEF StepPlaces
<1>3. worker.at \in {"planned", "unsent", "writing", "published", "completed", "undone"} =>
                 worker.shard \in MovedShards
  BY Typed DEF RunOk, MovingPlaces, MovePlaces
<1>4. worker.shard \in Shards
  BY <1>3, Typed, ShardNumbers DEF RunOk, StepPlaces
<1> QED
  BY <1>1, <1>2, <1>3, <1>4, Directions

\* The step that is saved is true.
LEMMA StepRowTrue ==
    ASSUME ProvTyped, Ground, Going, worker.at \in StepPlaces, NEW s \in Runs, s = worker,
           NEW n, n = [s.steps EXCEPT ![s.shard] = StepRow(s)]
    PROVE  /\ n \in [Shards -> StepRows] /\ n[s.shard] = StepRow(s)
           /\ IF Onward THEN StepsOnward(n) ELSE StepsUndecided(n)
<1>1. s.shard \in Shards /\ s.at # "idle" /\ s.steps \in [Shards -> StepRows]
  BY StepPlacesAre DEF Runs
<1>2. /\ StepRow(s) \in StepRows /\ StepRow(s).back = s.steps[s.shard].back
      /\ StepRow(s).phase = IF s.at \in {"planned", "published"} THEN s.at
                            ELSE IF s.at = "unsent" THEN "not_started"
                            ELSE IF s.at = "writing" THEN "uploading"
                            ELSE s.steps[s.shard].phase
      /\ s.at \in {"completed", "undone", "started"} => StepRow(s) = s.steps[s.shard]
  BY <1>1, StepRowIs
<1>3. n \in [Shards -> StepRows] /\ n[s.shard] = StepRow(s)
  BY <1>1, <1>2
<1>4. IF Onward THEN StepsOnward(s.steps) ELSE StepsUndecided(s.steps)
  BY <1>1, StepsBothWays
<1>5. CASE s.at \in {"completed", "undone", "started"}
  <2>1. n = s.steps
    BY <1>1, <1>2, <1>5
  <2> QED
    BY <1>3, <1>4, <2>1
<1>6. CASE s.at \in {"planned", "unsent", "writing", "published"}
  <2>1. ~Onward /\ OutTrue /\ s.at \in MovePlaces /\ s.at \in OutPlaces /\ s.shard \in MovedShards
    BY <1>6, StepPlacesAre DEF Going
  <2>2. tardy = {} /\ (s.at = "unsent" => copy[s.shard] = "none")
    BY <1>6, <2>1 DEF OutTrue, CopyIs
  <2>3. StepRow(s).phase \in {"planned", "not_started", "uploading", "published"}
        /\ (StepRow(s).phase = "not_started" => s.at = "unsent")
    BY <1>2, <1>6
  <2>4. StepsUndecided(s.steps)
    BY <1>4, <2>1
  <2>5. \A v \in Shards : v # s.shard => n[v] = s.steps[v]
    BY <1>1
  <2>6. \A v \in MovedShards :
          /\ n[v].phase = "not_started" => /\ copy[v] = "none"
                                           /\ \A c \in tardy : c.shard = v => c.call = "undo"
          /\ n[v].phase = "rolled_back" => Cleared(v)
          /\ n[v].phase \notin {"existing", "completed"}
    <3> TAKE v \in MovedShards
    <3>1. v \in Shards
      BY ShardNumbers
    <3>2. CASE v = s.shard
      BY <1>3, <2>2, <2>3, <3>2
    <3>3. CASE v # s.shard
      BY <2>4, <2>5, <3>1, <3>3 DEF StepsUndecided
    <3> QED
      BY <3>2, <3>3
  <2>7. \A v \in Shards : n[v].back => atHome[v]
    <3>1. \A v \in Shards : n[v].back = s.steps[v].back
      BY <1>2, <1>3, <2>5
    <3> QED
      BY <2>4, <3>1 DEF StepsUndecided
  <2>8. StepsUndecided(n)
    BY <2>6, <2>7 DEF StepsUndecided
  <2> QED
    BY <1>3, <2>1, <2>8
<1> QED
  BY <1>5, <1>6 DEF StepPlaces

\* A saved step that is on the way to the decision.
LEMMA SaveStepOut ==
    ASSUME ProvTyped, Ground, Going, StepsCalm, Ground', NEW m \in Runs, NEW s \in Runs, s = worker,
           s.at \in {"planned", "writing", "published"},
           m.head = s.head, m.at = s.at, m.shard = s.shard, m.first = s.first,
           m.forward = s.forward, m.staged = s.staged, m.bad = s.bad, m.steps = steps',
           steps' = [steps EXCEPT ![s.shard] = StepRow(s)],
           worker' = IF s.at = "planned" THEN [m EXCEPT !.at = "begin"]
                     ELSE IF s.at = "writing" THEN [m EXCEPT !.at = "write"] ELSE TransferNext(m)
    PROVE  Going'
<1>1. /\ s.shard \in MovedShards /\ s.shard \in Shards /\ s.at \in OutPlaces /\ s.at \in MovePlaces
      /\ s.at \notin HaltPlaces \cup SettlePlaces /\ s.at \in StepPlaces
  BY StepPlacesAre DEF StepPlaces
<1>2. /\ OutTrue /\ ~worker.forward /\ ~Onward /\ operation # NoOperation /\ ~Ended(operation)
      /\ worker.first /\ ~worker.staged => clusterIni = "old"
      /\ s.head # NoOperation
  BY <1>1, AtOut
<1>3. steps \in [Shards -> StepRows]
  BY Typed
<1>4. /\ StepRow(s).back = s.steps[s.shard].back
      /\ StepRow(s).phase = IF s.at \in {"planned", "published"} THEN s.at ELSE "uploading"
  BY <1>1, StepRowIs
<1>5. /\ worker.first /\ ~worker.bad /\ tardy = {} /\ intruded = {} /\ worker.steps = steps
      /\ \A w \in Shards : ~steps[w].back
      /\ \A v \in Shards : ~atHome[v]
      /\ \A w \in MovedShards : w < s.shard => copy[w] = "published"
      /\ \A w \in MovedShards : w > s.shard => copy[w] = "none" /\ steps[w].phase = "not_started"
      /\ copy[s.shard] = CopyIs(s.at)
      /\ worker.staged = ClusterChanges /\ clusterIni = "old"
      /\ worker.staged => stageDir = "staged"
  BY <1>1, <1>2 DEF OutTrue, HaltPlaces
<1>6. /\ \A w \in Shards : w # s.shard => steps'[w] = steps[w]
      /\ steps'[s.shard] = StepRow(s)
  BY <1>1, <1>3
<1>7. \A w \in Shards : ~steps'[w].back
  BY <1>4, <1>5, <1>6
<1>8. \A w \in MovedShards : w > s.shard => steps'[w].phase = "not_started"
  BY <1>1, <1>5, <1>6, ShardNumbers
<1>9. ~Onward' /\ operation' # NoOperation /\ ~Ended(operation')
  BY <1>2, StepsFrame
<1>10. {"begin", "write", "uploading", "recheck"} \subseteq OutPlaces
       /\ {"begin", "write", "uploading"} \subseteq MovePlaces /\ "recheck" \in SettlePlaces
       /\ {"begin", "write", "uploading"} \cap (HaltPlaces \cup SettlePlaces) = {}
       /\ "recheck" \notin HaltPlaces \cup MovePlaces
  BY DEF OutPlaces, MovePlaces, HaltPlaces, SettlePlaces
<1>11. CASE s.at \in {"planned", "writing"}
  <2>1. worker' = [m EXCEPT !.at = IF s.at = "planned" THEN "begin" ELSE "write"]
    BY <1>11
  <2>2. /\ worker'.at = (IF s.at = "planned" THEN "begin" ELSE "write") /\ worker'.shard = s.shard
        /\ worker'.first = s.first /\ worker'.steps = steps' /\ worker'.forward = s.forward
        /\ worker'.staged = s.staged /\ worker'.bad = s.bad
    BY <2>1 DEF Runs
  <2>3. copy[s.shard] = CopyIs(worker'.at) /\ steps'[s.shard].phase = PhaseIs(worker'.at)
    BY <1>4, <1>5, <1>6, <1>11, <2>2 DEF CopyIs, PhaseIs
  <2>4. worker'.at \in {"begin", "write"}
    BY <2>2
  <2>5. OutTrue'
    BY <1>5, <1>7, <1>8, <1>10, <2>2, <2>3, <2>4 DEF OutTrue, StepsCalm
  <2>6. worker'.at \in OutPlaces /\ ~worker'.forward
        /\ (worker'.first /\ ~worker'.staged => clusterIni' = "old")
    BY <1>2, <1>10, <2>2, <2>4, StepsFrame
  <2> QED
    BY <1>9, <2>5, <2>6, OutStep
<1>12. CASE s.at = "published"
  <2>1. worker' = TransferNext(m)
    BY <1>12
  <2>2. m.head # NoOperation
    BY <1>2
  <2>3. Loops(m, worker', "uploading", MovedShards, "recheck")
    BY <2>1, <2>2, TransferLoops
  <2>4. /\ worker'.first = m.first /\ worker'.steps = m.steps
        /\ worker'.forward = m.forward /\ worker'.staged = m.staged /\ worker'.bad = m.bad
    BY <2>3 DEF Loops, Keeps
  <2>5. \/ /\ worker'.at = "uploading" /\ worker'.shard \in MovedShards /\ worker'.shard > s.shard
           /\ \A v \in MovedShards : v > s.shard => v >= worker'.shard
        \/ worker'.at = "recheck" /\ \A v \in MovedShards : v <= s.shard
    BY <2>3 DEF Loops, Reaches
  <2>6. \A v \in MovedShards : v \in Nat
    BY ShardNumbers
  <2>7. copy[s.shard] = "published"
    BY <1>5, <1>12 DEF CopyIs
  <2>8. \A v \in MovedShards : v <= s.shard => copy[v] = "published"
    BY <1>1, <1>5, <2>6, <2>7
  <2>9. CASE worker'.at = "uploading"
    <3>1. /\ worker'.shard \in MovedShards /\ worker'.shard > s.shard
          /\ \A v \in MovedShards : v > s.shard => v >= worker'.shard
      BY <2>5, <2>9
    <3>2. \A v \in MovedShards : v < worker'.shard => v <= s.shard
      BY <1>1, <2>6, <3>1
    <3>3. \A v \in MovedShards : v < worker'.shard => copy[v] = "published"
      BY <2>8, <3>2
    <3>4. \A v \in MovedShards : v >= worker'.shard => v > s.shard
      BY <1>1, <2>6, <3>1
    <3>5. \A v \in MovedShards : v >= worker'.shard => copy[v] = "none" /\ steps'[v].phase = "not_started"
      BY <1>5, <1>8, <3>4
    <3>6. /\ copy[worker'.shard] = "none" /\ steps'[worker'.shard].phase = "not_started"
          /\ \A v \in MovedShards : v > worker'.shard => copy[v] = "none" /\ steps'[v].phase = "not_started"
      BY <2>6, <3>1, <3>5
    <3>7. OutTrue'
      BY <1>5, <1>7, <1>10, <2>4, <2>9, <3>3, <3>6 DEF OutTrue, StepsCalm, CopyIs, PhaseIs
    <3>8. worker'.at \in OutPlaces /\ ~worker'.forward
          /\ (worker'.first /\ ~worker'.staged => clusterIni' = "old")
      BY <1>2, <1>10, <2>4, <2>9, StepsFrame
    <3> QED
      BY <1>9, <3>7, <3>8, OutStep
  <2>10. CASE worker'.at = "recheck"
    <3>1. \A v \in MovedShards : copy[v] = "published"
      BY <2>5, <2>8, <2>10
    <3>7. OutTrue'
      BY <1>5, <1>7, <1>10, <2>4, <2>10, <3>1 DEF OutTrue, StepsCalm
    <3>8. worker'.at \in OutPlaces /\ ~worker'.forward
          /\ (worker'.first /\ ~worker'.staged => clusterIni' = "old")
      BY <1>2, <1>10, <2>4, <2>10, StepsFrame
    <3> QED
      BY <1>9, <3>7, <3>8, OutStep
  <2> QED
    BY <2>5, <2>9, <2>10
<1> QED
  BY <1>11, <1>12

\* The rows after a save of a step that may have failed.
LEMMA StepsWritten ==
    ASSUME ProvTyped, Ground, Going, worker.at # "idle", StepsCalm, NEW n \in [Shards -> StepRows],
           NEW w \in Shards, steps' = steps \/ steps' = [steps EXCEPT ![w] = n[w]],
           IF Onward THEN StepsOnward(n) ELSE StepsUndecided(n)
    PROVE  Ground'
<1>1. IF Onward THEN StepsOnward(steps) ELSE StepsUndecided(steps)
  <2>1. operation # NoOperation
    BY Typed
  <2> QED
    BY <2>1 DEF Ground, OnwardTrue, UndecidedTrue
<1>2. PICK p : p = steps'
  OBVIOUS
<1>3. PICK o : o = steps
  OBVIOUS
<1>4. o \in [Shards -> StepRows]
  BY <1>3, Typed
<1>5. IF Onward THEN StepsOnward(o) ELSE StepsUndecided(o)
  BY <1>1, <1>3
<1>6. CASE p = o
  <2>1. IF Onward THEN StepsOnward(p) ELSE StepsUndecided(p)
    BY <1>5, <1>6
  <2> QED
    BY <1>2, <2>1, GroundSteps
<1>7. CASE p = [o EXCEPT ![w] = n[w]]
  <2>1. IF Onward THEN StepsOnward(o) /\ StepsOnward(n) ELSE StepsUndecided(o) /\ StepsUndecided(n)
    BY <1>5
  <2>2. IF Onward THEN StepsOnward(p) ELSE StepsUndecided(p)
    BY <1>4, <1>7, <2>1, RowsReplaced
  <2> QED
    BY <1>2, <2>2, GroundSteps
<1> QED
  BY <1>2, <1>3, <1>6, <1>7

LEMMA SaveStepKeeps ==
    ASSUME ProvTyped, Ground, Going, SaveStep
    PROVE  Ground' /\ Going'
<1>1. /\ worker.at \in StepPlaces /\ steps' = [steps EXCEPT ![worker.shard] = StepRow(worker)]
      /\ StepsCalm
  BY DEF SaveStep, nodeFiles, ownFiles, placing, processes, StepsCalm
<1>2. PICK s \in Runs : s = worker
  BY Typed
<1>3. s.shard \in Shards /\ s.at # "idle" /\ s.head # NoOperation /\ s.steps \in [Shards -> StepRows]
  BY <1>1, <1>2, StepPlacesAre DEF Runs
<1>4. PICK n : n = [s.steps EXCEPT ![s.shard] = StepRow(s)]
  OBVIOUS
<1>5. /\ n \in [Shards -> StepRows] /\ n[s.shard] = StepRow(s)
      /\ IF Onward THEN StepsOnward(n) ELSE StepsUndecided(n)
  BY <1>1, <1>2, <1>4, StepRowTrue
<1>6. StepRow(s) \in StepRows
  BY <1>1, <1>2, <1>3, StepRowIs
<1>7. PICK m : m = [worker EXCEPT !.steps[worker.shard] = StepRow(worker)]
  OBVIOUS
<1>8. /\ m \in Runs /\ m.head = s.head /\ m.steps = n /\ m.at = s.at /\ m.shard = s.shard
      /\ m.first = s.first /\ m.forward = s.forward /\ m.staged = s.staged /\ m.bad = s.bad
  <2>1. PICK r : r = StepRow(s)
    OBVIOUS
  <2>2. m = [s EXCEPT !.steps[s.shard] = r] /\ n = [s.steps EXCEPT ![s.shard] = r] /\ r \in StepRows
    BY <1>2, <1>4, <1>6, <1>7, <2>1
  <2> QED
    BY <1>3, <2>2 DEF Runs
<1>9. m.head # NoOperation
  BY <1>3, <1>8
<1>10. worker' = CASE m.at = "planned" -> [m EXCEPT !.at = "begin"]
                   [] m.at = "unsent" -> Undoing(m)
                   [] m.at = "writing" -> [m EXCEPT !.at = "write"]
                   [] m.at = "published" -> TransferNext(m)
                   [] m.at = "completed" -> CompleteNext(m)
                   [] m.at = "undone" -> UndoNext(m)
                   [] m.at = "started" -> RestoreNext(m)
  BY <1>7 DEF SaveStep
<1>12. Ground'
  <2>1. steps' = steps \/ steps' = [steps EXCEPT ![s.shard] = n[s.shard]]
    BY <1>1, <1>2, <1>5
  <2> QED
    BY <1>1, <1>2, <1>3, <1>5, <2>1, StepsWritten
<1>13. IF Onward' THEN StepsOnward(m.steps)' ELSE StepsUndecided(m.steps)'
  <2>1. IF Onward THEN StepsOnward(m.steps) ELSE StepsUndecided(m.steps)
    BY <1>5, <1>8
  <2> QED
    BY <1>1, <2>1, StepsFrame
<1>14. (s.forward <=> Onward) /\ s.forward \in BOOLEAN /\ ~Ended(operation)
       /\ (s.first /\ ~s.staged /\ ~s.forward => clusterIni = "old")
  BY <1>2, <1>3, Directions DEF Going, Headed
<1>15. ~Ended(operation') /\ Onward' = Onward /\ clusterIni' = clusterIni /\ wasUp' = wasUp
       /\ AllLive' = AllLive /\ switched' = switched /\ unmarked' = unmarked
       /\ \A w : Cleared(w)' = Cleared(w)
  BY <1>1, <1>14, StepsFrame
<1>16. CASE s.at \in {"planned", "writing", "published"}
  <2>1. worker' = IF s.at = "planned" THEN [m EXCEPT !.at = "begin"]
                  ELSE IF s.at = "writing" THEN [m EXCEPT !.at = "write"] ELSE TransferNext(m)
    BY <1>8, <1>10, <1>16
  <2>2. s.at \in OutPlaces
    BY <1>1, <1>2, <1>16, StepPlacesAre
  <2>3. s.steps = steps
    BY <1>2, <2>2, AtOut
  <2>4. m.steps = steps' /\ steps' = [steps EXCEPT ![s.shard] = StepRow(s)]
    BY <1>1, <1>2, <1>4, <1>8, <2>3
  <2> QED
    BY <1>1, <1>2, <1>8, <1>12, <1>16, <2>1, <2>4, SaveStepOut
<1>17. CASE s.at = "unsent"
  <2>1. worker' = Undoing(m)
    BY <1>8, <1>10, <1>17
  <2>2. TurnsBack(m, worker')
    BY <1>8, <1>9, <2>1, UndoingTurnsBack
  <2>3. ~Onward /\ ~s.forward
    BY <1>1, <1>2, <1>17, StepPlacesAre
  <2> QED
    BY <1>8, <1>12, <1>13, <1>14, <1>15, <2>2, <2>3, TurnedBack
<1>18. CASE s.at = "completed"
  <2>1. Loops(m, worker', "complete", Uncompleted(m), AfterCompletion(m))
    BY <1>8, <1>9, <1>10, <1>18, CompleteLoops
  <2>2. s.forward /\ Onward /\ switched /\ Decided(s.head.phase)
        /\ \A v \in MovedShards : v <= s.shard => s.steps[v].phase = "completed"
    BY <1>2, <1>18, Directions DEF Going, OnTrue, Headed
  <2>3. n = s.steps
    BY <1>1, <1>2, <1>3, <1>4, <1>18, StepRowIs
  <2> QED
    BY <1>8, <1>12, <1>13, <1>15, <2>1, <2>2, <2>3, Completed
<1>19. CASE s.at = "undone"
  <2>1. StepsBack(m, worker')
    BY <1>8, <1>9, <1>10, <1>19, UndoNextStepsBack
  <2>2. ~Onward /\ ~s.forward
    BY <1>2, <1>19, Directions
  <2>3. \A v \in MovedShards : v >= s.shard => s.bad \/ s.steps[v].phase = "rolled_back"
    BY <1>2, <1>19, <2>2, PlaceFacts DEF Going, UndoTrue
  <2>4. n = s.steps
    BY <1>1, <1>2, <1>3, <1>4, <1>19, StepRowIs
  <2> QED
    BY <1>8, <1>12, <1>13, <1>14, <1>15, <2>1, <2>2, <2>3, <2>4, SteppedBack
<1>20. CASE s.at = "started"
  <2>1. Loops(m, worker', "start", Restorable(m), Restarted(m))
    BY <1>8, <1>9, <1>10, <1>20, RestoreLoops
  <2>2. n = s.steps
    BY <1>1, <1>2, <1>3, <1>4, <1>20, StepRowIs
  <2>3. \A v \in Shards : v <= s.shard /\ wasUp[v] => s.steps[v].back
    BY <1>2, <1>20 DEF Going, RestoreTrue
  <2>4. s.forward => AllLive /\ switched /\ Decided(s.head.phase)
    BY <1>2, <1>20, PlaceFacts DEF Going, OnTrue, Headed
  <2>5. ~s.forward => /\ s.head.phase = "runtime_restore_source"
                      /\ s.bad \/ \A w \in MovedShards : Cleared(w)
                      /\ s.bad \/ clusterIni = "old" \/ unmarked
    BY <1>2, <1>20, PlaceFacts DEF Going, UndoTrue, Headed
  <2>6. \A v \in Shards : v <= m.shard /\ wasUp[v] => m.steps[v].back
    BY <1>8, <2>2, <2>3
  <2>7. wasUp \in [Shards -> BOOLEAN]
    BY Typed
  <2>8. m.forward => AllLive' /\ switched' /\ Decided(m.head.phase)
    BY <1>8, <1>15, <2>4
  <2>9. ~m.forward => /\ m.head.phase = "runtime_restore_source"
                      /\ m.bad \/ \A w \in MovedShards : Cleared(w)'
                      /\ m.bad \/ clusterIni' = "old" \/ unmarked'
    BY <1>8, <1>15, <2>5
  <2>10. (m.forward <=> Onward') /\ (m.first /\ ~m.staged /\ ~m.forward => clusterIni' = "old")
    BY <1>8, <1>14, <1>15
  <2> QED
    BY <1>8, <1>12, <1>13, <1>15, <2>1, <2>6, <2>7, <2>8, <2>9, <2>10, Restored
<1> QED
  BY <1>1, <1>2, <1>12, <1>16, <1>17, <1>18, <1>19, <1>20 DEF StepPlaces

LEMMA SaveStepFailsKeeps ==
    ASSUME ProvTyped, Ground, Going, SaveStepFails
    PROVE  Ground' /\ Going'
<1>1. /\ worker.at \in StepPlaces
      /\ steps' \in {steps, [steps EXCEPT ![worker.shard] = StepRow(worker)]}
      /\ StepsCalm
  BY DEF SaveStepFails, nodeFiles, ownFiles, placing, processes, StepsCalm
<1>2. PICK s \in Runs : s = worker
  BY Typed
<1>3. s.shard \in Shards /\ s.at # "idle" /\ s.head # NoOperation /\ s.steps \in [Shards -> StepRows]
  BY <1>1, <1>2, StepPlacesAre DEF Runs
<1>4. PICK n : n = [s.steps EXCEPT ![s.shard] = StepRow(s)]
  OBVIOUS
<1>5. /\ n \in [Shards -> StepRows] /\ n[s.shard] = StepRow(s)
      /\ IF Onward THEN StepsOnward(n) ELSE StepsUndecided(n)
  BY <1>1, <1>2, <1>4, StepRowTrue
<1>6. Ground'
  <2>1. steps' = steps \/ steps' = [steps EXCEPT ![s.shard] = n[s.shard]]
    BY <1>1, <1>2, <1>5
  <2> QED
    BY <1>1, <1>2, <1>3, <1>5, <2>1, StepsWritten
<1>7. IF Onward' THEN StepsOnward(s.steps)' ELSE StepsUndecided(s.steps)'
  <2>1. IF Onward THEN StepsOnward(s.steps) ELSE StepsUndecided(s.steps)
    BY <1>2, <1>3, StepsBothWays
  <2> QED
    BY <1>1, <2>1, StepsFrame
<1>8. /\ s.forward <=> Onward
      /\ s.forward \in BOOLEAN /\ ~Ended(operation)
      /\ s.first /\ ~s.staged /\ ~s.forward => clusterIni = "old"
  BY <1>2, <1>3, Directions DEF Going, Headed
<1>9. ~Ended(operation') /\ Onward' = Onward /\ clusterIni' = clusterIni
      /\ \A w : Cleared(w)' = Cleared(w)
  BY <1>1, <1>8, StepsFrame
<1>10. worker' = CASE worker.at \in {"planned", "unsent", "writing", "published"} -> Undoing(worker)
                   [] worker.at = "completed" -> Requiring(worker)
                   [] worker.at = "undone" -> UndoNext(worker)
                   [] worker.at = "started" -> Requiring(worker)
  BY DEF SaveStepFails
<1>11. CASE s.at \in {"planned", "unsent", "writing", "published"}
  <2>1. TurnsBack(s, worker')
    BY <1>2, <1>3, <1>10, <1>11, UndoingTurnsBack
  <2>2. ~Onward /\ ~s.forward
    BY <1>1, <1>2, <1>11, StepPlacesAre
  <2> QED
    BY <1>6, <1>7, <1>8, <1>9, <2>1, <2>2, TurnedBack
<1>12. CASE s.at \in {"completed", "started"}
  <2>1. RunOk(worker') /\ Keeps(s, worker') /\ worker'.at = "require"
    BY <1>2, <1>3, <1>10, <1>12, RequiringIs
  <2>2. ~s.forward => s.at = "started"
    BY <1>2, <1>12, Directions
  <2>3. ~s.forward => /\ s.head.phase = "runtime_restore_source"
                      /\ s.bad \/ \A w \in MovedShards : Cleared(w)
    BY <1>2, <2>2, PlaceFacts DEF Going, Headed, UndoTrue
  <2>4. s.forward => Decided(s.head.phase)
    BY <1>2 DEF Going, Headed
  <2>5. ~s.forward => /\ s.head.phase = "runtime_restore_source"
                      /\ s.bad \/ \A w \in MovedShards : Cleared(w)'
    BY <1>9, <2>3
  <2> QED
    BY <1>6, <1>7, <1>8, <1>9, <2>1, <2>4, <2>5, Required
<1>13. CASE s.at = "undone"
  <2>1. StepsBack(s, worker')
    BY <1>2, <1>3, <1>10, <1>13, UndoNextStepsBack
  <2>2. ~Onward /\ ~s.forward
    BY <1>2, <1>13, Directions
  <2>3. \A v \in MovedShards : v >= s.shard => s.bad \/ s.steps[v].phase = "rolled_back"
    BY <1>2, <1>13, <2>2, PlaceFacts DEF Going, UndoTrue
  <2> QED
    BY <1>6, <1>7, <1>8, <1>9, <2>1, <2>2, <2>3, SteppedBack
<1> QED
  BY <1>1, <1>2, <1>6, <1>11, <1>12, <1>13 DEF StepPlaces

\* The rollback of a step that was never begun.
LEMMA SkipUndoKeeps ==
    ASSUME ProvTyped, Ground, Going, SkipUndo
    PROVE  Ground' /\ Going'
<1>1. PICK s \in Runs : s = worker
  BY Typed
<1>2. s.at = "undo" /\ s.steps[s.shard].phase = "not_started" /\ StepsCalm
  BY <1>1 DEF SkipUndo, Unbegun, nodeFiles, ownFiles, placing, processes, StepsCalm
<1>3. /\ s.shard \in MovedShards /\ s.shard \in Shards /\ s.at # "idle" /\ s.head # NoOperation
      /\ s.steps \in [Shards -> StepRows]
  BY <1>1, <1>2, Typed, ShardNumbers DEF RunOk, MovingPlaces, Runs
<1>4. ~Onward /\ ~s.forward /\ ~Ended(operation)
  BY <1>1, <1>2, Directions
<1>5. StepsUndecided(s.steps)
  BY <1>1, <1>3, <1>4, StepsBothWays
<1>6. PICK r : r = [s.steps[s.shard] EXCEPT !.phase = "rolled_back"]
  OBVIOUS
<1>7. r \in StepRows /\ r.phase = "rolled_back" /\ r.back = s.steps[s.shard].back
  BY <1>3, <1>6 DEF StepRows, StepPhases
<1>8. PICK n : n = [s.steps EXCEPT ![s.shard] = r]
  OBVIOUS
<1>9. n \in [Shards -> StepRows] /\ n[s.shard] = r /\ \A v \in Shards : v # s.shard => n[v] = s.steps[v]
  BY <1>3, <1>7, <1>8
<1>10. PICK m : m = Answered(worker)
  OBVIOUS
<1>11. m = [s EXCEPT !.at = "undone", !.steps[s.shard].phase = "rolled_back"]
  BY <1>1, <1>2, <1>10 DEF Answered
<1>12. m = [s EXCEPT !.at = "undone", !.steps = n]
  BY <1>3, <1>6, <1>8, <1>11 DEF Runs
<1>13. /\ m \in Runs /\ m.steps = n /\ m.head = s.head /\ m.shard = s.shard /\ m.first = s.first
       /\ m.forward = s.forward /\ m.staged = s.staged /\ m.bad = s.bad
  <2>1. "undone" \in StepPlaces
    BY DEF StepPlaces
  <2> HIDE <1>11
  <2> QED
    BY <1>9, <1>12, <2>1 DEF Runs
<1>14. StepsUndecided(n)
  <2>1. copy[s.shard] = "none"
    BY <1>2, <1>3, <1>5 DEF StepsUndecided
  <2>2. \A v \in MovedShards :
          /\ n[v].phase = "not_started" => /\ copy[v] = "none"
                                           /\ \A c \in tardy : c.shard = v => c.call = "undo"
          /\ n[v].phase = "rolled_back" => Cleared(v)
          /\ n[v].phase \notin {"existing", "completed"}
    <3> TAKE v \in MovedShards
    <3>1. v \in Shards
      BY ShardNumbers
    <3>2. CASE v = s.shard
      BY <1>7, <1>9, <2>1, <3>2 DEF Cleared
    <3>3. CASE v # s.shard
      BY <1>5, <1>9, <3>1, <3>3 DEF StepsUndecided
    <3> QED
      BY <3>2, <3>3
  <2>3. \A v \in Shards : n[v].back => atHome[v]
    BY <1>5, <1>7, <1>9 DEF StepsUndecided
  <2> QED
    BY <2>2, <2>3 DEF StepsUndecided
<1>15. steps' = steps \/ steps' = [steps EXCEPT ![s.shard] = n[s.shard]]
  <2>1. m.steps[m.shard] = n[s.shard]
    BY <1>13
  <2>2. \/ steps' = [steps EXCEPT ![m.shard] = m.steps[m.shard]]
        \/ steps' \in {steps, [steps EXCEPT ![m.shard] = m.steps[m.shard]]}
    BY <1>10 DEF SkipUndo
  <2> QED
    BY <1>13, <2>1, <2>2
<1>16. Ground'
  BY <1>1, <1>2, <1>3, <1>4, <1>9, <1>14, <1>15, StepsWritten
<1>17. PICK u \in Runs : /\ worker' = UndoNext(u) /\ u.steps = n /\ u.head = s.head /\ u.shard = s.shard
                         /\ u.first = s.first /\ u.forward = s.forward /\ u.staged = s.staged
                         /\ u.bad \/ u.bad = s.bad
  <2>1. worker' = UndoNext(m) \/ worker' = UndoNext([m EXCEPT !.bad = TRUE])
    BY <1>10 DEF SkipUndo
  <2>2. PICK b : b = [m EXCEPT !.bad = TRUE]
    OBVIOUS
  <2>3. /\ b \in Runs /\ b.steps = n /\ b.head = s.head /\ b.shard = s.shard /\ b.first = s.first
        /\ b.forward = s.forward /\ b.staged = s.staged /\ b.bad
    BY <1>13, <2>2 DEF Runs
  <2> QED
    BY <1>13, <2>1, <2>2, <2>3
<1>18. StepsBack(u, worker')
  BY <1>3, <1>17, UndoNextStepsBack
<1>19. /\ ~Ended(operation') /\ ~Onward' /\ clusterIni' = clusterIni /\ StepsUndecided(n)'
  BY <1>2, <1>4, <1>14, StepsFrame
<1>20. StepsUndecided(u.steps)'
  BY <1>17, <1>19
<1>21. u.first /\ ~u.staged => clusterIni' = "old"
  BY <1>1, <1>3, <1>4, <1>17, <1>19 DEF Going, Headed
<1>22. \A v \in MovedShards : v >= u.shard => u.bad \/ u.steps[v].phase = "rolled_back"
  <2>1. \A v \in MovedShards : v > s.shard => s.bad \/ s.steps[v].phase = "rolled_back"
    BY <1>1, <1>2, <1>4, PlaceFacts DEF Going, UndoTrue
  <2> TAKE v \in MovedShards
  <2>2. v \in Shards /\ v \in Nat /\ s.shard \in Nat
    BY <1>3, ShardNumbers
  <2>3. CASE v = s.shard
    BY <1>7, <1>9, <1>17, <2>3
  <2>4. CASE v # s.shard
    BY <1>9, <1>17, <2>1, <2>2, <2>4
  <2> QED
    BY <2>3, <2>4
<1> QED
  BY <1>4, <1>16, <1>17, <1>18, <1>19, <1>20, <1>21, <1>22, SteppedBack

-----------------------------------------------------------------------------
(* The machines *)

FarCalm == UNCHANGED <<operation, steps, wasUp, clusterIni, stageDir, unmarked, switched, atHome>>

\* What an executed call does to the copy of its world.
LEMMA Effects ==
    ASSUME ProvTyped, NEW w \in MovedShards, NEW call, NEW tok, Execute(call, w, tok)
    PROVE  /\ \A v \in MovedShards : v # w => copy'[v] = copy[v] /\ away'[v] = away[v]
           /\ call = "begin" => copy'[w] = IF copy[w] \in {"none", "full"} THEN "begun" ELSE copy[w]
           /\ call = "write" => copy[w] = "begun" /\ copy'[w] = "full"
           /\ call = "commit" => copy[w] = "full" /\ copy'[w] = "published"
           /\ call = "complete" => copy[w] = "published" /\ copy'[w] = "live" /\ away'[w] = away[w]
           /\ call = "start" => copy[w] \in {"published", "live"} /\ copy'[w] = copy[w] /\ away'[w]
           /\ call = "undo" => copy'[w] = IF copy[w] # "live" THEN "none" ELSE copy[w]
           /\ call # "start" => away'[w] = (away[w] /\ copy'[w] # "none")
<1>1. /\ copy \in [MovedShards -> {"none", "begun", "full", "published", "live"}]
      /\ away \in [MovedShards -> BOOLEAN]
  BY Typed
<1>2. /\ CanDo(call, w) /\ copy' = [copy EXCEPT ![w] = Made(call, w)]
      /\ away' = IF call = "start" THEN [away EXCEPT ![w] = TRUE]
                 ELSE IF Made(call, w) = "none" THEN [away EXCEPT ![w] = FALSE] ELSE away
  BY DEF Execute
<1>3. copy'[w] = Made(call, w) /\ \A v \in MovedShards : v # w => copy'[v] = copy[v]
  BY <1>1, <1>2
<1>4. \A v \in MovedShards : v # w => away'[v] = away[v]
  BY <1>1, <1>2
<1>5. call # "start" => away'[w] = (away[w] /\ copy'[w] # "none")
  BY <1>1, <1>2, <1>3
<1>6. CASE call = "begin"
  BY <1>3, <1>4, <1>5, <1>6 DEF Made
<1>7. CASE call = "write"
  BY <1>2, <1>3, <1>4, <1>5, <1>7 DEF Made, CanDo
<1>8. CASE call = "commit"
  BY <1>2, <1>3, <1>4, <1>5, <1>8 DEF Made, CanDo
<1>9. CASE call = "complete"
  <2>1. copy'[w] = "live" /\ copy[w] = "published"
    BY <1>2, <1>3, <1>9 DEF Made, CanDo
  <2>2. away'[w] = away[w]
    BY <1>1, <1>2, <1>3, <1>9, <2>1
  <2> QED
    BY <1>3, <1>4, <1>5, <1>9, <2>1, <2>2
<1>10. CASE call = "undo"
  BY <1>3, <1>4, <1>5, <1>10 DEF Made
<1>11. CASE call = "start"
  <2>1. copy'[w] = copy[w] /\ copy[w] \in {"published", "live"}
    BY <1>2, <1>3, <1>11 DEF Made, CanDo
  <2>2. away'[w]
    BY <1>1, <1>2, <1>11
  <2> QED
    BY <1>3, <1>4, <1>11, <2>1, <2>2
<1>12. CASE call \notin {"begin", "write", "commit", "complete", "undo", "start"}
  BY <1>4, <1>3, <1>5, <1>12
<1> QED
  BY <1>6, <1>7, <1>8, <1>9, <1>10, <1>11, <1>12

\* After the decision: an import is completed, or a world started on its target.
LEMMA OnwardExecuted ==
    ASSUME ProvTyped, Ground, Onward, FarCalm, NEW w \in MovedShards, NEW tok,
           NEW call \in {"complete", "start"}, call = "start" => switched,
           Execute(call, w, tok) \/ UNCHANGED <<copy, away>>,
           \A c \in tardy' : c \in tardy \/ c.call = "complete" \/ (c.call = "start" /\ switched)
    PROVE  /\ Ground' /\ Onward'
           /\ \A q : StepsOnward(q) => StepsOnward(q)'
           /\ AllLive => AllLive'
<1>1. /\ \A v \in MovedShards : copy[v] \in {"published", "live"} /\ ~atHome[v]
      /\ \A v \in MovedShards : away[v] => switched
      /\ \A c \in tardy : c.call = "complete" \/ (c.call = "start" /\ switched)
      /\ StepsOnward(steps)
      /\ ClusterChanges => clusterIni = "new"
  BY DEF Ground, OnwardTrue
<1>2. Onward' /\ operation # NoOperation /\ operation.status # "rolled_back"
  BY DEF FarCalm, Onward, Decided, NoOperation, Ground, RowTrue
<1>3. /\ \A v \in MovedShards : copy[v] = "live" => copy'[v] = "live"
      /\ \A v \in MovedShards : copy'[v] \in {"published", "live"}
      /\ \A v \in MovedShards : away[v] => away'[v]
      /\ \A v \in MovedShards : away'[v] => switched
  <2>1. CASE UNCHANGED <<copy, away>>
    BY <1>1, <2>1
  <2>2. CASE Execute(call, w, tok)
    <3>1. /\ \A v \in MovedShards : v # w => copy'[v] = copy[v] /\ away'[v] = away[v]
          /\ call = "complete" => copy'[w] = "live" /\ away'[w] = away[w]
          /\ call = "start" => copy'[w] = copy[w] /\ away'[w]
      BY <2>2, Effects
    <3> QED
      BY <1>1, <3>1
  <2> QED
    BY <2>1, <2>2
<1>4. \A q : StepsOnward(q) => StepsOnward(q)'
  BY <1>3 DEF StepsOnward, FarCalm
<1>5. AllLive => AllLive'
  BY <1>3 DEF AllLive
<1>6. StepsOnward(steps)'
  <2>1. PICK q : q = steps
    OBVIOUS
  <2>2. StepsOnward(q)'
    BY <1>1, <1>4, <2>1
  <2> QED
    BY <2>1, <2>2 DEF StepsOnward, FarCalm
<1>7. RowTrue'
  BY <1>2 DEF Ground, RowTrue, FarCalm
<1>8. UndecidedTrue'
  BY <1>2 DEF UndecidedTrue
<1>9. OnwardTrue'
  <2>1. \A c \in tardy' : c.call = "complete" \/ (c.call = "start" /\ switched)
    BY <1>1
  <2> QED
    BY <1>1, <1>3, <1>6, <2>1 DEF OnwardTrue, FarCalm
<1>10. EndTrue'
  <2>1. operation.status = "succeeded" =>
          /\ switched /\ AllLive
          /\ \A v \in Shards : wasUp[v] => IF v \in MovedShards THEN away[v] ELSE atHome[v]
    BY DEF Ground, EndTrue
  <2> QED
    BY <1>2, <1>3, <1>5, <2>1 DEF EndTrue, FarCalm
<1> QED
  BY <1>2, <1>4, <1>5, <1>7, <1>8, <1>9, <1>10 DEF Ground

\* Before the decision: an import is undone.
LEMMA UndoExecuted ==
    ASSUME ProvTyped, Ground, ~Onward, FarCalm, intruded' = intruded, NEW w \in MovedShards, NEW tok,
           operation # NoOperation,
           Execute("undo", w, tok) \/ UNCHANGED <<copy, away>>,
           \A c \in tardy' : c \in tardy \/ c.call = "undo"
    PROVE  /\ Ground' /\ ~Onward'
           /\ \A q : StepsUndecided(q) => StepsUndecided(q)'
           /\ \A v \in MovedShards : Cleared(v) => Cleared(v)'
           /\ Execute("undo", w, tok) => copy'[w] = "none"
<1>1. /\ \A v \in MovedShards : ~away[v] /\ copy[v] # "live"
      /\ \A c \in tardy : c.call \in TransferCalls \cup {"undo"}
      /\ \A c, d \in tardy : c.call \in TransferCalls /\ d.call \in TransferCalls => c = d
      /\ intruded # {} => \A c \in tardy : c.call = "undo"
      /\ StepsUndecided(steps)
      /\ clusterIni = "new" => unmarked \/ stageDir = "marked"
  BY DEF Ground, UndecidedTrue
<1>2. ~Onward'
  BY DEF FarCalm, Onward
<1>3. Execute("undo", w, tok) => copy'[w] = "none"
  BY <1>1, Effects
<1>4. \A v \in MovedShards : /\ copy'[v] = copy[v] \/ copy'[v] = "none"
                             /\ ~away'[v] /\ copy'[v] # "live"
  <2>1. CASE UNCHANGED <<copy, away>>
    BY <1>1, <2>1
  <2>2. CASE Execute("undo", w, tok)
    <3>1. /\ \A v \in MovedShards : v # w => copy'[v] = copy[v] /\ away'[v] = away[v]
          /\ away'[w] = (away[w] /\ copy'[w] # "none")
      BY <2>2, Effects
    <3> QED
      BY <1>1, <1>3, <2>2, <3>1
  <2> QED
    BY <2>1, <2>2
<1>5. \A v \in MovedShards : Cleared(v) => Cleared(v)'
  BY <1>4 DEF Cleared
<1>6. \A q : StepsUndecided(q) => StepsUndecided(q)'
  <2> TAKE q
  <2> HAVE StepsUndecided(q)
  <2>1. \A v \in MovedShards :
          /\ q[v].phase = "not_started" => /\ copy'[v] = "none"
                                           /\ \A c \in tardy' : c.shard = v => c.call = "undo"
          /\ q[v].phase = "rolled_back" => Cleared(v)'
          /\ q[v].phase \notin {"existing", "completed"}
    BY <1>4, <1>5 DEF StepsUndecided
  <2>2. \A v \in Shards : q[v].back => atHome'[v]
    BY DEF StepsUndecided, FarCalm
  <2> QED
    BY <2>1, <2>2 DEF StepsUndecided
<1>7. StepsUndecided(steps)'
  <2>1. PICK q : q = steps
    OBVIOUS
  <2>2. StepsUndecided(q)'
    BY <1>1, <1>6, <2>1
  <2> QED
    BY <2>1, <2>2 DEF StepsUndecided, FarCalm
<1>8. RowTrue'
  BY <1>2 DEF Ground, RowTrue, FarCalm, Onward
<1>9. UndecidedTrue'
  <2>1. /\ \A c \in tardy' : c.call \in TransferCalls \cup {"undo"}
        /\ \A c, d \in tardy' : c.call \in TransferCalls /\ d.call \in TransferCalls => c = d
        /\ intruded' # {} => \A c \in tardy' : c.call = "undo"
    <3>1. "undo" \notin TransferCalls
      BY DEF TransferCalls
    <3> QED
      BY <1>1, <3>1
  <2> QED
    BY <1>1, <1>4, <1>7, <2>1 DEF UndecidedTrue, FarCalm
<1>10. OnwardTrue'
  BY <1>2 DEF OnwardTrue
<1>11. EndTrue'
  <2>1. operation.status # "succeeded"
    BY DEF Ground, RowTrue, Onward
  <2> QED
    BY <1>5, <2>1 DEF Ground, EndTrue, FarCalm
<1> QED
  BY <1>2, <1>3, <1>5, <1>6, <1>8, <1>9, <1>10, <1>11 DEF Ground

\* Before the decision: a call of an earlier import is executed, or never will be.
LEMMA TardyTransfer ==
    ASSUME ProvTyped, Ground, ~Onward, FarCalm, operation # NoOperation,
           NEW c \in tardy, c.call \in TransferCalls, c.shard \in MovedShards, tardy' = tardy \ {c},
           \/ /\ Execute(c.call, c.shard, c.token)
              /\ intruded' = IF c.call = "begin" THEN intruded \cup {c.shard} ELSE intruded
           \/ UNCHANGED <<copy, away, intruded>>
    PROVE  /\ Ground' /\ ~Onward'
           /\ \A q : StepsUndecided(q) => StepsUndecided(q)'
           /\ \A v \in MovedShards : Cleared(v) => Cleared(v)'
<1>1. /\ \A v \in MovedShards : ~away[v] /\ copy[v] # "live"
      /\ \A d \in tardy : d.call \in TransferCalls \cup {"undo"}
      /\ \A d, e \in tardy : d.call \in TransferCalls /\ e.call \in TransferCalls => d = e
      /\ intruded # {} => \A d \in tardy : d.call = "undo"
      /\ StepsUndecided(steps)
      /\ clusterIni = "new" => unmarked \/ stageDir = "marked"
  BY DEF Ground, UndecidedTrue
<1>2. ~Onward'
  BY DEF FarCalm, Onward
<1>3. \A d \in tardy' : d.call = "undo" /\ d \in tardy
  BY <1>1
<1>4. intruded = {}
  BY <1>1 DEF TransferCalls
<1>5. /\ \A v \in MovedShards : v # c.shard => copy'[v] = copy[v]
      /\ \A v \in MovedShards : ~away'[v] /\ copy'[v] # "live"
      /\ Cleared(c.shard) => Cleared(c.shard)'
  <2>1. CASE UNCHANGED <<copy, away, intruded>>
    BY <1>1, <2>1 DEF Cleared
  <2>2. CASE /\ Execute(c.call, c.shard, c.token)
             /\ intruded' = IF c.call = "begin" THEN intruded \cup {c.shard} ELSE intruded
    <3>1. PICK w \in MovedShards : w = c.shard
      OBVIOUS
    <3>2. PICK call : call = c.call
      OBVIOUS
    <3>3. PICK tok : tok = c.token
      OBVIOUS
    <3>4. Execute(call, w, tok)
      BY <2>2, <3>1, <3>2, <3>3
    <3>5. /\ \A v \in MovedShards : v # w => copy'[v] = copy[v] /\ away'[v] = away[v]
          /\ call = "begin" => copy'[w] = IF copy[w] \in {"none", "full"} THEN "begun" ELSE copy[w]
          /\ call = "write" => copy[w] = "begun" /\ copy'[w] = "full"
          /\ call = "commit" => copy[w] = "full" /\ copy'[w] = "published"
          /\ call # "start" => away'[w] = (away[w] /\ copy'[w] # "none")
      BY <3>4, Effects
    <3>6. call \in {"begin", "write", "commit"}
      BY <3>2 DEF TransferCalls
    <3>7. copy[w] \in {"none", "begun", "full", "published", "live"} /\ copy[w] # "live"
      BY <1>1, Typed
    <3>8. copy'[w] # "live"
      BY <3>5, <3>6, <3>7
    <3>9. copy[w] = "none" => copy'[w] = "none" \/ (copy'[w] = "begun" /\ w \in intruded')
      BY <2>2, <3>1, <3>2, <3>5, <3>6
    <3>10. Cleared(w) => Cleared(w)'
      BY <1>4, <3>9 DEF Cleared
    <3> QED
      BY <1>1, <3>1, <3>5, <3>6, <3>8, <3>10
  <2> QED
    BY <2>1, <2>2
<1>6. \A v \in MovedShards : Cleared(v) => Cleared(v)'
  <2>1. \A v \in MovedShards : v # c.shard /\ Cleared(v) => Cleared(v)'
    BY <1>4, <1>5 DEF Cleared
  <2> QED
    BY <1>5, <2>1
<1>7. \A q : StepsUndecided(q) => StepsUndecided(q)'
  <2> TAKE q
  <2> HAVE StepsUndecided(q)
  <2>1. \A v \in MovedShards :
          /\ q[v].phase = "not_started" => /\ copy'[v] = "none"
                                           /\ \A d \in tardy' : d.shard = v => d.call = "undo"
          /\ q[v].phase = "rolled_back" => Cleared(v)'
          /\ q[v].phase \notin {"existing", "completed"}
    <3> TAKE v \in MovedShards
    <3>1. q[v].phase = "not_started" => v # c.shard
      BY DEF StepsUndecided, TransferCalls
    <3> QED
      BY <1>3, <1>5, <1>6, <3>1 DEF StepsUndecided
  <2>2. \A v \in Shards : q[v].back => atHome'[v]
    BY DEF StepsUndecided, FarCalm
  <2> QED
    BY <2>1, <2>2 DEF StepsUndecided
<1>8. StepsUndecided(steps)'
  <2>1. PICK q : q = steps
    OBVIOUS
  <2>2. StepsUndecided(q)'
    BY <1>1, <1>7, <2>1
  <2> QED
    BY <2>1, <2>2 DEF StepsUndecided, FarCalm
<1>9. RowTrue'
  BY <1>2 DEF Ground, RowTrue, FarCalm, Onward
<1>10. UndecidedTrue'
  <2>1. /\ \A d \in tardy' : d.call \in TransferCalls \cup {"undo"}
        /\ \A d, e \in tardy' : d.call \in TransferCalls /\ e.call \in TransferCalls => d = e
        /\ intruded' # {} => \A d \in tardy' : d.call = "undo"
    BY <1>1, <1>3
  <2> QED
    BY <1>1, <1>5, <1>8, <2>1 DEF UndecidedTrue, FarCalm
<1>11. OnwardTrue'
  BY <1>2 DEF OnwardTrue
<1>12. EndTrue'
  <2>1. operation.status # "succeeded"
    BY DEF Ground, RowTrue, Onward
  <2> QED
    BY <1>6, <2>1 DEF Ground, EndTrue, FarCalm
<1> QED
  BY <1>2, <1>6, <1>7, <1>9, <1>10, <1>11, <1>12 DEF Ground

\* A run after the answer to its call: at the same world, with a new row of its step.
Answers(s, t, a, r) ==
    /\ RunOk(t) /\ t.at = a /\ t.shard = s.shard
    /\ t.first = s.first /\ t.head = s.head /\ t.forward = s.forward
    /\ t.staged = s.staged /\ t.bad = s.bad
    /\ t.steps = [s.steps EXCEPT ![s.shard] = r]

\* What the answers make of a run.
LEMMA AnsweredIs ==
    ASSUME NEW s \in Runs, s.head # NoOperation
    PROVE  /\ s.at = "halt" =>
                 Loops(s, Answered(s), "halt", {w \in Shards : atHome[w]}, "stopped")
           /\ s.at \in TransferCalls /\ s.shard \in MovedShards =>
                 GoesTo(s, Answered(s), IF s.at = "begin" THEN "writing"
                                        ELSE IF s.at = "write" THEN "commit" ELSE "published")
           /\ s.at = "complete" /\ s.shard \in MovedShards =>
                 \E r \in StepRows : /\ Answers(s, Answered(s), "completed", r)
                                     /\ r.phase = "completed" /\ r.back = s.steps[s.shard].back
           /\ s.at = "undo" /\ s.shard \in MovedShards =>
                 \E r \in StepRows : /\ Answers(s, Answered(s), "undone", r)
                                     /\ r.phase = "rolled_back" /\ r.back = s.steps[s.shard].back
           /\ s.at = "start" /\ s.shard \in Shards =>
                 \E r \in StepRows : /\ Answers(s, Answered(s), "started", r)
                                     /\ r.phase = s.steps[s.shard].phase /\ r.back
<1>1. s.at = "halt" => Loops(s, Answered(s), "halt", {w \in Shards : atHome[w]}, "stopped")
  <2>1. s.at = "halt" => Answered(s) = Halting(s)
    BY DEF Answered
  <2> QED
    BY <2>1, HaltingLoops
<1>2. ASSUME s.at \in TransferCalls, s.shard \in MovedShards
      PROVE  GoesTo(s, Answered(s), IF s.at = "begin" THEN "writing"
                                    ELSE IF s.at = "write" THEN "commit" ELSE "published")
  <2>1. PICK a : a = IF s.at = "begin" THEN "writing"
                     ELSE IF s.at = "write" THEN "commit" ELSE "published"
    OBVIOUS
  <2>2. Answered(s) = [s EXCEPT !.at = a]
    <3>1. s.at \in {"begin", "write", "commit"}
      BY <1>2 DEF TransferCalls
    <3> QED
      BY <2>1, <3>1 DEF Answered
  <2>3. a \in Places /\ a # "idle" /\ a \notin {"halt", "start", "started"}
    BY <2>1 DEF Places, StepPlaces, CallPlaces
  <2> QED
    BY <1>2, <2>1, <2>2, <2>3, RunMoves
<1>3. ASSUME NEW a \in {"completed", "undone"}, NEW ph, ph \in {"completed", "rolled_back"},
             s.shard \in MovedShards,
             Answered(s) = [s EXCEPT !.at = a, !.steps[s.shard].phase = ph]
      PROVE  \E r \in StepRows : /\ Answers(s, Answered(s), a, r)
                                 /\ r.phase = ph /\ r.back = s.steps[s.shard].back
  <2>1. s.shard \in Shards /\ s.steps \in [Shards -> StepRows]
    BY <1>3, ShardNumbers DEF Runs
  <2>2. PICK r : r = [s.steps[s.shard] EXCEPT !.phase = ph]
    OBVIOUS
  <2>3. r \in StepRows /\ r.phase = ph /\ r.back = s.steps[s.shard].back
    BY <1>3, <2>1, <2>2 DEF StepRows, StepPhases
  <2>4. PICK n : n = [s.steps EXCEPT ![s.shard] = r]
    OBVIOUS
  <2>5. n \in [Shards -> StepRows]
    BY <2>1, <2>3, <2>4
  <2>6. PICK t : t = [s EXCEPT !.at = a, !.steps = n]
    OBVIOUS
  <2>7. Answered(s) = t
    BY <1>3, <2>1, <2>2, <2>4, <2>6 DEF Runs
  <2>8. a \in Places /\ a # "idle" /\ a \notin {"halt", "start", "started"}
    BY <1>3 DEF Places, StepPlaces
  <2>9. /\ t \in Runs /\ t.at = a /\ t.shard = s.shard /\ t.first = s.first /\ t.head = s.head
        /\ t.forward = s.forward /\ t.staged = s.staged /\ t.bad = s.bad /\ t.steps = n
    BY <2>5, <2>6, <2>8 DEF Runs, Places
  <2>10. RunOk(t)
    BY <1>3, <2>8, <2>9 DEF RunOk
  <2>11. Answers(s, t, a, r)
    BY <2>4, <2>9, <2>10 DEF Answers
  <2> QED
    BY <2>3, <2>7, <2>11
<1>4. s.at = "complete" =>
          Answered(s) = [s EXCEPT !.at = "completed", !.steps[s.shard].phase = "completed"]
  BY DEF Answered
<1>5. s.at = "undo" =>
          Answered(s) = [s EXCEPT !.at = "undone", !.steps[s.shard].phase = "rolled_back"]
  BY DEF Answered
<1>6. ASSUME s.at = "start", s.shard \in Shards
      PROVE  \E r \in StepRows : /\ Answers(s, Answered(s), "started", r)
                                 /\ r.phase = s.steps[s.shard].phase /\ r.back
  <2>1. s.steps \in [Shards -> StepRows]
    BY DEF Runs
  <2>2. PICK r : r = [s.steps[s.shard] EXCEPT !.back = TRUE]
    OBVIOUS
  <2>3. r \in StepRows /\ r.phase = s.steps[s.shard].phase /\ r.back
    BY <1>6, <2>1, <2>2 DEF StepRows
  <2>4. PICK n : n = [s.steps EXCEPT ![s.shard] = r]
    OBVIOUS
  <2>5. n \in [Shards -> StepRows]
    BY <1>6, <2>1, <2>3, <2>4
  <2>6. PICK t : t = [s EXCEPT !.at = "started", !.steps = n]
    OBVIOUS
  <2>7. Answered(s) = t
    <3>1. Answered(s) = [s EXCEPT !.at = "started", !.steps[s.shard].back = TRUE]
      BY <1>6 DEF Answered
    <3> QED
      BY <1>6, <2>1, <2>2, <2>4, <2>6, <3>1 DEF Runs
  <2>8. "started" \in StepPlaces /\ "started" \notin MovingPlaces
    BY DEF StepPlaces, MovingPlaces, MovePlaces
  <2>9. /\ t \in Runs /\ t.at = "started" /\ t.shard = s.shard /\ t.first = s.first
        /\ t.head = s.head /\ t.forward = s.forward /\ t.staged = s.staged /\ t.bad = s.bad
        /\ t.steps = n
    BY <2>5, <2>6, <2>8 DEF Runs
  <2>10. RunOk(t)
    BY <1>6, <2>8, <2>9 DEF RunOk
  <2>11. Answers(s, t, "started", r)
    BY <2>4, <2>9, <2>10 DEF Answers
  <2> QED
    BY <2>3, <2>7, <2>11
<1> QED
  BY <1>1, <1>2, <1>3, <1>4, <1>5, <1>6

\* The call of an import by the first run.
LEMMA OwnTransfer ==
    ASSUME ProvTyped, Ground, Going, worker.at \in TransferCalls, FarCalm, intruded' = intruded,
           NEW w \in MovedShards, w = worker.shard, NEW a, a = worker.at, NEW tok,
           Execute(a, w, tok) \/ UNCHANGED <<copy, away>>,
           \A c \in tardy' : c.call = a /\ c.shard = w,
           \A c, d \in tardy' : c = d
    PROVE  Ground' /\ ~Onward' /\ ~Ended(operation') /\ StepsUndecided(steps)'
           /\ \A v \in MovedShards : v # w => copy'[v] = copy[v]
<1>1. a \in {"begin", "write", "commit"} /\ worker.at \in OutPlaces /\ worker.at \in MovePlaces
  BY DEF TransferCalls, OutPlaces, MovePlaces
<1>2. /\ OutTrue /\ ~Onward /\ operation # NoOperation /\ ~Ended(operation) /\ StepsUndecided(steps)
  BY <1>1, AtOut
<1>3. /\ intruded = {} /\ \A v \in Shards : ~steps[v].back
      /\ steps[w].phase = PhaseIs(a)
  BY <1>1, <1>2 DEF OutTrue
<1>4. steps[w].phase \notin {"not_started", "rolled_back", "existing", "completed"}
  BY <1>1, <1>3 DEF PhaseIs
<1>5. \A v \in MovedShards : ~away[v] /\ copy[v] # "live"
  BY <1>2 DEF Ground, UndecidedTrue
<1>6. /\ \A v \in MovedShards : v # w => copy'[v] = copy[v]
      /\ \A v \in MovedShards : ~away'[v] /\ copy'[v] # "live"
  <2>1. CASE UNCHANGED <<copy, away>>
    BY <1>5, <2>1
  <2>2. CASE Execute(a, w, tok)
    <3>1. /\ \A v \in MovedShards : v # w => copy'[v] = copy[v] /\ away'[v] = away[v]
          /\ a = "begin" => copy'[w] = IF copy[w] \in {"none", "full"} THEN "begun" ELSE copy[w]
          /\ a = "write" => copy'[w] = "full"
          /\ a = "commit" => copy'[w] = "published"
          /\ a # "start" => away'[w] = (away[w] /\ copy'[w] # "none")
      BY <2>2, Effects
    <3>2. copy'[w] # "live" /\ ~away'[w]
      BY <1>1, <1>5, <3>1
    <3> QED
      BY <1>5, <3>1, <3>2
  <2> QED
    BY <2>1, <2>2
<1>7. StepsUndecided(steps)'
  <2>1. steps' = steps
    BY DEF FarCalm
  <2>2. \A v \in MovedShards :
          /\ steps[v].phase = "not_started" => /\ copy'[v] = "none"
                                               /\ \A c \in tardy' : c.shard = v => c.call = "undo"
          /\ steps[v].phase = "rolled_back" => Cleared(v)'
          /\ steps[v].phase \notin {"existing", "completed"}
    <3> TAKE v \in MovedShards
    <3>1. CASE v = w
      BY <1>4, <3>1
    <3>2. CASE v # w
      BY <1>2, <1>6, <3>2 DEF StepsUndecided, Cleared
    <3> QED
      BY <3>1, <3>2
  <2> QED
    BY <1>3, <2>1, <2>2 DEF StepsUndecided
<1>8. ~Onward' /\ ~Ended(operation')
  BY <1>2 DEF FarCalm, Onward
<1>9. RowTrue'
  <2>1. RowTrue
    BY DEF Ground
  <2> QED
    BY <1>2, <2>1 DEF RowTrue, FarCalm, Onward
<1>10. UndecidedTrue'
  <2>1. \A c \in tardy' : c.call \in TransferCalls \cup {"undo"}
    OBVIOUS
  <2>2. clusterIni = "new" => unmarked \/ stageDir = "marked"
    BY <1>2 DEF Ground, UndecidedTrue
  <2> QED
    BY <1>3, <1>6, <1>7, <2>1, <2>2 DEF UndecidedTrue, FarCalm
<1>11. OnwardTrue'
  BY <1>8 DEF OnwardTrue
<1>12. EndTrue'
  BY <1>8 DEF EndTrue, Ended
<1> QED
  BY <1>6, <1>7, <1>8, <1>9, <1>10, <1>11, <1>12 DEF Ground

\* A world is up again.
LEMMA Started ==
    ASSUME ProvTyped, Ground, Going, Ground', NEW s \in Runs, s = worker, s.at = "start",
           NEW r \in StepRows, Answers(s, worker', "started", r), r.back,
           NEW n, n = [s.steps EXCEPT ![s.shard] = r],
           IF Onward THEN StepsOnward(n)' ELSE StepsUndecided(n)',
           Onward' = Onward, ~Ended(operation'), AllLive => AllLive',
           \A w \in MovedShards : Cleared(w) => Cleared(w)',
           clusterIni' = clusterIni, unmarked' = unmarked, switched' = switched, wasUp' = wasUp
    PROVE  Going'
<1>1. /\ worker'.at = "started" /\ worker'.shard = s.shard /\ worker'.first = s.first
      /\ worker'.head = s.head /\ worker'.forward = s.forward /\ worker'.staged = s.staged
      /\ worker'.bad = s.bad /\ worker'.steps = n
  BY DEF Answers
<1>2. s.shard \in Shards /\ s.steps \in [Shards -> StepRows]
  BY Typed DEF RunOk, Runs
<1>3. n[s.shard] = r /\ \A v \in Shards : v # s.shard => n[v] = s.steps[v]
  BY <1>2
<1>4. /\ s.forward <=> Onward
      /\ s.forward => Decided(s.head.phase)
      /\ ~s.forward => s.head.phase = "runtime_restore_source"
      /\ ~s.forward /\ s.first /\ ~s.staged => clusterIni = "old"
  BY Directions DEF Going, Headed
<1>5. IF Onward' THEN StepsOnward(worker.steps)' ELSE StepsUndecided(worker.steps)'
  BY <1>1 DEF StepsOnward, StepsUndecided
<1>6. "started" \notin OutPlaces
  BY PlaceFacts
<1>7. Headed'
  BY <1>1, <1>4, <1>5, PlaceFacts DEF Headed
<1>8. OutTrue'
  BY <1>1, <1>6 DEF OutTrue
<1>9. UndoTrue'
  <2>1. ~s.forward => /\ s.bad \/ \A w \in MovedShards : Cleared(w)
                      /\ s.bad \/ clusterIni = "old" \/ unmarked
    BY PlaceFacts DEF Going, UndoTrue
  <2>2. ~s.forward => /\ s.bad \/ \A w \in MovedShards : Cleared(w)'
                      /\ s.bad \/ clusterIni' = "old" \/ unmarked'
    BY <2>1
  <2> QED
    BY <1>1, <2>2, PlaceFacts DEF UndoTrue
<1>10. RestoreTrue'
  <2>1. \A v \in Shards : v < s.shard /\ wasUp[v] => s.steps[v].back
    BY DEF Going, RestoreTrue
  <2>2. \A v \in Shards : v \in Nat
    BY ShardNumbers
  <2>3. \A v \in Shards : v <= s.shard /\ wasUp[v] => n[v].back
    BY <1>2, <1>3, <2>1, <2>2
  <2> QED
    BY <1>1, <2>3 DEF RestoreTrue
<1>11. OnTrue'
  <2>1. s.forward => switched /\ AllLive
    BY PlaceFacts DEF Going, OnTrue
  <2> QED
    BY <1>1, <2>1 DEF OnTrue
<1> QED
  BY <1>7, <1>8, <1>9, <1>10, <1>11 DEF Going

\* A world has a new row: what its rows say stays true.
LEMMA OnwardRow ==
    ASSUME NEW p \in [Shards -> StepRows], NEW w \in Shards, NEW r \in StepRows,
           NEW n, n = [p EXCEPT ![w] = r], StepsOnward(p)',
           w \in MovedShards /\ r.phase = "completed" => copy'[w] = "live",
           r.back => switched' /\ (IF w \in MovedShards THEN away'[w] ELSE atHome'[w])
    PROVE  StepsOnward(n)'
<1>1. n[w] = r /\ \A v \in Shards : v # w => n[v] = p[v]
  OBVIOUS
<1>2. \A v \in MovedShards : n[v].phase = "completed" => copy'[v] = "live"
  <2> TAKE v \in MovedShards
  <2>1. v \in Shards
    BY ShardNumbers
  <2> QED
    BY <1>1, <2>1 DEF StepsOnward
<1>3. \A v \in Shards : n[v].back => switched' /\ (IF v \in MovedShards THEN away'[v] ELSE atHome'[v])
  BY <1>1 DEF StepsOnward
<1> QED
  BY <1>2, <1>3 DEF StepsOnward

LEMMA UndecidedRow ==
    ASSUME NEW p \in [Shards -> StepRows], NEW w \in Shards, NEW r \in StepRows,
           NEW n, n = [p EXCEPT ![w] = r], StepsUndecided(p)',
           w \in MovedShards =>
               /\ r.phase = "not_started" => p[w].phase = "not_started"
               /\ r.phase = "rolled_back" => Cleared(w)'
               /\ r.phase \notin {"existing", "completed"},
           r.back => atHome'[w]
    PROVE  StepsUndecided(n)'
<1>1. n[w] = r /\ \A v \in Shards : v # w => n[v] = p[v]
  OBVIOUS
<1>2. \A v \in MovedShards :
          /\ n[v].phase = "not_started" => /\ copy'[v] = "none"
                                           /\ \A c \in tardy' : c.shard = v => c.call = "undo"
          /\ n[v].phase = "rolled_back" => Cleared(v)'
          /\ n[v].phase \notin {"existing", "completed"}
  <2> TAKE v \in MovedShards
  <2>1. v \in Shards
    BY ShardNumbers
  <2>2. CASE v = w
    BY <1>1, <2>2 DEF StepsUndecided
  <2>3. CASE v # w
    BY <1>1, <2>1, <2>3 DEF StepsUndecided
  <2> QED
    BY <2>2, <2>3
<1>3. \A v \in Shards : n[v].back => atHome'[v]
  BY <1>1 DEF StepsUndecided
<1> QED
  BY <1>2, <1>3 DEF StepsUndecided

\* What is known where the run calls a target.
LEMMA RemoteCalls ==
    ASSUME ProvTyped, Ground, Going, RemoteCall, NEW s \in Runs, s = worker
    PROVE  /\ s.shard \in MovedShards /\ s.shard \in Shards /\ s.head # NoOperation
           /\ s.at \in {"begin", "write", "commit", "complete", "undo", "start"}
           /\ s.at \in TransferCalls => s.at \in OutPlaces /\ s.at \in MovePlaces
           /\ s.at = "start" => s.forward
           /\ s.at \in {"complete", "start"} => s.forward /\ Onward /\ switched
           /\ s.at = "undo" => ~s.forward /\ ~Onward
           /\ operation # NoOperation /\ ~Ended(operation)
           /\ IF Onward THEN StepsOnward(s.steps) ELSE StepsUndecided(s.steps)
<1>1. s.at \in {"begin", "write", "commit", "complete", "undo", "start"}
  BY DEF RemoteCall, CallPlaces, HomeCall
<1>2. s.head # NoOperation /\ operation # NoOperation /\ RunOk(s)
  BY <1>1, Typed
<1>3. s.at = "start" => s.forward /\ s.shard \in MovedShards
  BY DEF RemoteCall, HomeCall, OnTarget
<1>4. s.shard \in MovedShards /\ s.shard \in Shards
  BY <1>1, <1>2, <1>3, ShardNumbers DEF RunOk, MovingPlaces, MovePlaces
<1>5. s.at \in TransferCalls => s.at \in OutPlaces /\ s.at \in MovePlaces
  BY DEF TransferCalls, OutPlaces, MovePlaces
<1>6. ~Ended(operation) /\ (s.at \in {"complete", "start"} => s.forward /\ Onward)
      /\ (s.at = "undo" => ~s.forward /\ ~Onward)
  BY <1>1, <1>3, Directions
<1>7. s.at \in {"complete", "start"} => switched
  BY <1>6 DEF Going, OnTrue
<1>8. IF Onward THEN StepsOnward(s.steps) ELSE StepsUndecided(s.steps)
  BY <1>1, StepsBothWays
<1> QED
  BY <1>1, <1>2, <1>3, <1>4, <1>5, <1>6, <1>7, <1>8

LEMMA CallTargetKeeps ==
    ASSUME ProvTyped, Ground, Going, CallTarget
    PROVE  Ground' /\ Going'
<1>1. PICK s \in Runs : s = worker
  BY Typed
<1>2. /\ FarCalm /\ tardy' = tardy /\ intruded' = intruded /\ RemoteCall
      /\ Execute(worker.at, worker.shard, token)
      /\ worker' = Answered(worker)
  BY DEF CallTarget, rowVars, ownFiles, placing, FarCalm
<1>3. /\ s.shard \in MovedShards /\ s.shard \in Shards /\ s.head # NoOperation
      /\ s.at \in {"begin", "write", "commit", "complete", "undo", "start"}
      /\ s.at \in TransferCalls => s.at \in OutPlaces /\ s.at \in MovePlaces
      /\ s.at \in {"complete", "start"} => s.forward /\ Onward /\ switched
      /\ s.at = "undo" => ~s.forward /\ ~Onward
      /\ operation # NoOperation /\ ~Ended(operation)
      /\ IF Onward THEN StepsOnward(s.steps) ELSE StepsUndecided(s.steps)
  BY <1>1, <1>2, RemoteCalls
<1>4. PICK a : a = s.at
  OBVIOUS
<1>5. PICK w \in MovedShards : w = s.shard
  BY <1>3
<1>6. PICK tok : tok = token
  OBVIOUS
<1>7. Execute(a, w, tok)
  BY <1>1, <1>2, <1>4, <1>5, <1>6
<1>8. /\ a = "begin" => copy'[w] = IF copy[w] \in {"none", "full"} THEN "begun" ELSE copy[w]
      /\ a = "write" => copy'[w] = "full"
      /\ a = "commit" => copy'[w] = "published"
      /\ a = "complete" => copy'[w] = "live" /\ away'[w] = away[w]
      /\ a = "start" => copy'[w] = copy[w] /\ away'[w]
  BY <1>7, Effects
<1>9. s.steps \in [Shards -> StepRows]
  BY DEF Runs
<1>10. CASE s.at \in TransferCalls
  <2>1. worker.at \in OutPlaces /\ worker.at \in MovePlaces /\ s.at \in {"begin", "write", "commit"}
    BY <1>1, <1>3, <1>10 DEF TransferCalls
  <2>2. /\ OutTrue /\ ~worker.forward /\ (worker.first /\ ~worker.staged => clusterIni = "old")
    BY <2>1, AtOut
  <2>3. tardy = {}
    BY <2>1, <2>2 DEF OutTrue
  <2>4. /\ Ground' /\ ~Onward' /\ ~Ended(operation')
        /\ \A v \in MovedShards : v # w => copy'[v] = copy[v]
    BY <1>1, <1>2, <1>4, <1>5, <1>7, <1>10, <2>3, OwnTransfer
  <2>5. GoesTo(s, worker', IF s.at = "begin" THEN "writing"
                           ELSE IF s.at = "write" THEN "commit" ELSE "published")
    BY <1>1, <1>2, <1>3, <1>10, AnsweredIs
  <2>6. /\ worker'.at = (IF s.at = "begin" THEN "writing"
                         ELSE IF s.at = "write" THEN "commit" ELSE "published")
        /\ worker'.shard = s.shard /\ worker'.steps = s.steps /\ worker'.first = s.first
        /\ worker'.bad = s.bad /\ worker'.staged = s.staged /\ worker'.forward = s.forward
    BY <2>5 DEF GoesTo, Keeps
  <2>7. worker'.at \in {"writing", "commit", "published"}
    BY <2>6
  <2>8. {"writing", "commit", "published"} \subseteq OutPlaces
        /\ {"writing", "commit", "published"} \subseteq MovePlaces
        /\ {"writing", "commit", "published"} \cap (HaltPlaces \cup SettlePlaces) = {}
        /\ {"begin", "write", "commit"} \cap (HaltPlaces \cup SettlePlaces) = {}
    BY DEF OutPlaces, MovePlaces, HaltPlaces, SettlePlaces
  <2>9. /\ worker.first /\ ~worker.bad /\ intruded = {} /\ worker.steps = steps
        /\ \A v \in Shards : ~steps[v].back /\ ~atHome[v]
        /\ \A v \in MovedShards : v < s.shard => copy[v] = "published"
        /\ \A v \in MovedShards : v > s.shard => copy[v] = "none" /\ steps[v].phase = "not_started"
        /\ copy[s.shard] = CopyIs(s.at) /\ steps[s.shard].phase = PhaseIs(s.at)
        /\ worker.staged = ClusterChanges /\ clusterIni = "old"
        /\ worker.staged => stageDir = "staged"
    BY <1>1, <2>1, <2>2, <2>8 DEF OutTrue
  <2>10. \A v \in MovedShards : v \in Nat
    BY ShardNumbers
  <2>11. /\ \A v \in MovedShards : v < w => copy'[v] = "published"
         /\ \A v \in MovedShards : v > w => copy'[v] = "none"
    BY <1>5, <2>4, <2>9, <2>10
  <2>12. copy'[w] = CopyIs(worker'.at) /\ steps[w].phase = PhaseIs(worker'.at)
    BY <1>4, <1>5, <1>8, <2>1, <2>6, <2>9 DEF CopyIs, PhaseIs
  <2>13. OutTrue'
    BY <1>1, <1>2, <1>5, <2>3, <2>6, <2>7, <2>8, <2>9, <2>11, <2>12 DEF OutTrue, FarCalm
  <2>14. /\ operation' # NoOperation
         /\ (worker'.first /\ ~worker'.staged => clusterIni' = "old")
    BY <1>1, <1>2, <1>3, <2>2, <2>6 DEF FarCalm
  <2> QED
    BY <1>1, <2>2, <2>4, <2>6, <2>7, <2>8, <2>13, <2>14, OutStep
<1>11. CASE s.at = "complete"
  <2>1. PICK r \in StepRows : /\ Answers(s, worker', "completed", r)
                              /\ r.phase = "completed" /\ r.back = s.steps[s.shard].back
    BY <1>1, <1>2, <1>3, <1>11, AnsweredIs
  <2>2. /\ Ground' /\ Onward' /\ \A q : StepsOnward(q) => StepsOnward(q)'
    BY <1>2, <1>3, <1>4, <1>7, <1>11, OnwardExecuted
  <2>3. PICK n : n = [s.steps EXCEPT ![s.shard] = r]
    OBVIOUS
  <2>4. n[s.shard] = r /\ \A v \in Shards : v # s.shard => n[v] = s.steps[v]
    BY <1>3, <1>9, <2>3
  <2>5. StepsOnward(s.steps)'
    BY <1>3, <1>11, <2>2
  <2>6. r.back => switched' /\ (IF s.shard \in MovedShards THEN away'[s.shard] ELSE atHome'[s.shard])
    BY <1>3, <2>1, <2>5 DEF StepsOnward
  <2>7. copy'[s.shard] = "live"
    BY <1>4, <1>5, <1>8, <1>11
  <2>8. StepsOnward(n)'
    BY <1>3, <1>9, <2>3, <2>5, <2>6, <2>7, OnwardRow
  <2>9. /\ worker'.at = "completed" /\ worker'.shard = s.shard /\ worker'.first = s.first
        /\ worker'.head = s.head /\ worker'.forward = s.forward /\ worker'.staged = s.staged
        /\ worker'.bad = s.bad /\ worker'.steps = n
    BY <2>1, <2>3 DEF Answers
  <2>10. StepsOnward(worker.steps)'
    BY <2>8, <2>9 DEF StepsOnward
  <2>11. Decided(s.head.phase)
    BY <1>1, <1>3, <1>11 DEF Going, Headed
  <2>12. "completed" \notin OutPlaces /\ "completed" \notin RestorePlaces
    BY PlaceFacts
  <2>13. Headed'
    BY <1>2, <1>3, <1>11, <2>2, <2>9, <2>10, <2>11, PlaceFacts DEF Headed, FarCalm
  <2>14. OutTrue' /\ UndoTrue' /\ RestoreTrue'
    BY <1>3, <1>11, <2>9, <2>12 DEF OutTrue, UndoTrue, RestoreTrue
  <2>15. \A v \in MovedShards : v <= s.shard => n[v].phase = "completed"
    <3>1. \A v \in MovedShards : v < s.shard => s.steps[v].phase = "completed"
      BY <1>1, <1>3, <1>11 DEF Going, OnTrue
    <3>2. \A v \in MovedShards : v \in Nat /\ v \in Shards
      BY ShardNumbers
    <3> QED
      BY <1>3, <2>1, <2>4, <3>1, <3>2
  <2>16. OnTrue'
    BY <1>2, <1>3, <1>11, <2>9, <2>12, <2>15 DEF OnTrue, FarCalm
  <2> QED
    BY <2>2, <2>13, <2>14, <2>16 DEF Going
<1>12. CASE s.at = "undo"
  <2>1. PICK r \in StepRows : /\ Answers(s, worker', "undone", r)
                              /\ r.phase = "rolled_back" /\ r.back = s.steps[s.shard].back
    BY <1>1, <1>2, <1>3, <1>12, AnsweredIs
  <2>2. /\ Ground' /\ ~Onward' /\ \A q : StepsUndecided(q) => StepsUndecided(q)'
        /\ copy'[w] = "none"
    BY <1>2, <1>3, <1>4, <1>7, <1>12, UndoExecuted
  <2>3. PICK n : n = [s.steps EXCEPT ![s.shard] = r]
    OBVIOUS
  <2>4. n[s.shard] = r /\ \A v \in Shards : v # s.shard => n[v] = s.steps[v]
    BY <1>3, <1>9, <2>3
  <2>5. StepsUndecided(s.steps)'
    BY <1>3, <1>12, <2>2
  <2>6. r.back => atHome'[s.shard]
    BY <1>3, <2>1, <2>5 DEF StepsUndecided
  <2>7. Cleared(s.shard)'
    BY <1>5, <2>2 DEF Cleared
  <2>8. StepsUndecided(n)'
    BY <1>3, <1>9, <2>1, <2>3, <2>5, <2>6, <2>7, UndecidedRow
  <2>9. /\ worker'.at = "undone" /\ worker'.shard = s.shard /\ worker'.first = s.first
        /\ worker'.head = s.head /\ worker'.forward = s.forward /\ worker'.staged = s.staged
        /\ worker'.bad = s.bad /\ worker'.steps = n
    BY <2>1, <2>3 DEF Answers
  <2>10. StepsUndecided(worker.steps)'
    BY <2>8, <2>9 DEF StepsUndecided
  <2>12. "undone" \notin OutPlaces /\ "undone" \notin RestorePlaces
    BY PlaceFacts
  <2>13. s.first /\ ~s.staged => clusterIni = "old"
    BY <1>1, <1>3, <1>12 DEF Going, Headed
  <2>14. Headed'
    BY <1>2, <1>3, <1>12, <2>2, <2>9, <2>10, <2>13, PlaceFacts DEF Headed, FarCalm
  <2>15. OutTrue' /\ OnTrue' /\ RestoreTrue'
    BY <1>3, <1>12, <2>9, <2>12 DEF OutTrue, OnTrue, RestoreTrue
  <2>16. \A v \in MovedShards : v >= s.shard => s.bad \/ n[v].phase = "rolled_back"
    <3>1. \A v \in MovedShards : v > s.shard => s.bad \/ s.steps[v].phase = "rolled_back"
      BY <1>1, <1>3, <1>12, PlaceFacts DEF Going, UndoTrue
    <3>2. \A v \in MovedShards : v \in Nat /\ v \in Shards
      BY ShardNumbers
    <3> QED
      BY <1>3, <2>1, <2>4, <3>1, <3>2
  <2>17. UndoTrue'
    BY <2>9, <2>12, <2>16 DEF UndoTrue
  <2> QED
    BY <2>2, <2>14, <2>15, <2>17 DEF Going
<1>13. CASE s.at = "start"
  <2>1. PICK r \in StepRows : /\ Answers(s, worker', "started", r)
                              /\ r.phase = s.steps[s.shard].phase /\ r.back
    BY <1>1, <1>2, <1>3, <1>13, AnsweredIs
  <2>2. /\ Ground' /\ Onward' /\ (\A q : StepsOnward(q) => StepsOnward(q)')
        /\ (AllLive => AllLive')
    BY <1>2, <1>3, <1>4, <1>7, <1>13, OnwardExecuted
  <2>3. PICK n : n = [s.steps EXCEPT ![s.shard] = r]
    OBVIOUS
  <2>4. StepsOnward(s.steps)'
    BY <1>3, <1>13, <2>2
  <2>5. r.phase = "completed" => copy'[s.shard] = "live"
    BY <1>3, <2>1, <2>4 DEF StepsOnward
  <2>6. switched' /\ away'[s.shard]
    BY <1>2, <1>3, <1>4, <1>5, <1>8, <1>13 DEF FarCalm
  <2>7. StepsOnward(n)'
    BY <1>3, <1>9, <2>3, <2>4, <2>5, <2>6, OnwardRow
  <2>8. \A v \in MovedShards : Cleared(v) => Cleared(v)'
    BY <1>3, <1>13 DEF Cleared, Ground, OnwardTrue
  <2>9. Onward' = Onward
    BY <1>2 DEF FarCalm, Onward
  <2>10. /\ ~Ended(operation') /\ clusterIni' = clusterIni /\ unmarked' = unmarked
         /\ switched' = switched /\ wasUp' = wasUp
    BY <1>2, <1>3 DEF FarCalm
  <2>11. IF Onward THEN StepsOnward(n)' ELSE StepsUndecided(n)'
    BY <1>3, <1>13, <2>7
  <2> QED
    BY <1>1, <1>13, <2>1, <2>2, <2>3, <2>8, <2>9, <2>10, <2>11, Started
<1> QED
  BY <1>3, <1>10, <1>11, <1>12, <1>13 DEF TransferCalls

\* A failure of a call to a target: it had its effect, it has none, or it may still have it.
LEMMA TargetCallFailsKeeps ==
    ASSUME ProvTyped, Ground, Going, TargetCallFails
    PROVE  Ground' /\ Going'
<1>1. PICK s \in Runs : s = worker
  BY Typed
<1>2. /\ FarCalm /\ intruded' = intruded /\ RemoteCall /\ worker' = Errored(worker)
  BY DEF TargetCallFails, rowVars, ownFiles, placing, FarCalm
<1>3. \/ Execute(worker.at, worker.shard, token) /\ tardy' = tardy
      \/ /\ tardy' = tardy \cup {[call |-> worker.at, shard |-> worker.shard, token |-> token]}
         /\ UNCHANGED <<copy, away>>
  BY DEF TargetCallFails
<1>4. /\ s.shard \in MovedShards /\ s.shard \in Shards /\ s.head # NoOperation
      /\ s.at \in {"begin", "write", "commit", "complete", "undo", "start"}
      /\ s.at \in TransferCalls => s.at \in OutPlaces /\ s.at \in MovePlaces
      /\ s.at \in {"complete", "start"} => s.forward /\ Onward /\ switched
      /\ s.at = "undo" => ~s.forward /\ ~Onward
      /\ operation # NoOperation /\ ~Ended(operation)
      /\ IF Onward THEN StepsOnward(s.steps) ELSE StepsUndecided(s.steps)
  BY <1>1, <1>2, RemoteCalls
<1>5. PICK a : a = s.at
  OBVIOUS
<1>6. PICK w \in MovedShards : w = s.shard
  BY <1>4
<1>7. PICK tok : tok = token
  OBVIOUS
<1>8. PICK c : c = [call |-> a, shard |-> w, token |-> tok]
  OBVIOUS
<1>9. /\ Execute(a, w, tok) \/ UNCHANGED <<copy, away>>
      /\ tardy' = tardy \/ tardy' = tardy \cup {c}
      /\ c.call = a /\ c.shard = w
  BY <1>1, <1>3, <1>5, <1>6, <1>7, <1>8
<1>10. operation' = operation /\ clusterIni' = clusterIni
  BY <1>2 DEF FarCalm
<1>11. CASE s.at \in TransferCalls
  <2>1. worker.at \in OutPlaces /\ s.at \in {"begin", "write", "commit"}
    BY <1>1, <1>4, <1>11 DEF TransferCalls
  <2>2. OutTrue /\ worker.steps = steps
    BY <2>1, AtOut
  <2>3. tardy = {}
    BY <2>1, <2>2 DEF OutTrue
  <2>4. /\ \A d \in tardy' : d.call = a /\ d.shard = w
        /\ \A d, e \in tardy' : d = e
    BY <1>9, <2>3
  <2>5. Ground' /\ ~Onward' /\ ~Ended(operation') /\ StepsUndecided(steps)'
    BY <1>1, <1>2, <1>5, <1>6, <1>9, <1>11, <2>4, OwnTransfer
  <2>6. StepsUndecided(s.steps)'
    BY <1>1, <1>2, <2>2, <2>5 DEF FarCalm, StepsUndecided
  <2>7. TurnsBack(s, worker')
    BY <1>1, <1>2, <1>4, <2>1, ErroredIs
  <2> QED
    BY <1>1, <1>10, <2>1, <2>5, <2>6, <2>7, TurnsFromOut
<1>12. CASE s.at \in {"complete", "start"}
  <2>1. \A d \in tardy' : d \in tardy \/ d.call = "complete" \/ (d.call = "start" /\ switched)
    BY <1>4, <1>5, <1>9, <1>12
  <2>2. Ground' /\ \A q : StepsOnward(q) => StepsOnward(q)'
    BY <1>2, <1>4, <1>5, <1>9, <1>12, <2>1, OnwardExecuted
  <2>3. \A v \in MovedShards : Cleared(v) => Cleared(v)'
    BY <1>4, <1>12 DEF Cleared, Ground, OnwardTrue
  <2>4. IF Onward THEN StepsOnward(s.steps)' ELSE StepsUndecided(s.steps)'
    BY <1>4, <1>12, <2>2
  <2> QED
    BY <1>1, <1>2, <1>10, <1>12, <2>2, <2>3, <2>4, ErrorGoes
<1>13. CASE s.at = "undo"
  <2>1. \A d \in tardy' : d \in tardy \/ d.call = "undo"
    BY <1>5, <1>9, <1>13
  <2>2. /\ Ground' /\ (\A q : StepsUndecided(q) => StepsUndecided(q)')
        /\ \A v \in MovedShards : Cleared(v) => Cleared(v)'
    BY <1>2, <1>4, <1>5, <1>9, <1>13, <2>1, UndoExecuted
  <2>3. IF Onward THEN StepsOnward(s.steps)' ELSE StepsUndecided(s.steps)'
    BY <1>4, <1>13, <2>2
  <2> QED
    BY <1>1, <1>2, <1>10, <1>13, <2>2, <2>3, ErrorGoes
<1> QED
  BY <1>4, <1>11, <1>12, <1>13 DEF TransferCalls

\* A late call while a run is at work: the run is not on the way to the decision.
LEMMA TardyCallKeeps ==
    ASSUME ProvTyped, Ground, Going, NEW c \in tardy, TardyCall(c)
    PROVE  Ground' /\ Going'
<1>1. PICK s \in Runs : s = worker
  BY Typed
<1>2. /\ FarCalm /\ tardy' = tardy \ {c} /\ worker' = s
      /\ \/ /\ Execute(c.call, c.shard, c.token)
            /\ intruded' = IF c.call = "begin" THEN intruded \cup {c.shard} ELSE intruded
         \/ UNCHANGED <<copy, away, intruded>>
  BY <1>1 DEF TardyCall, rowVars, ownFiles, placing, FarCalm
<1>3. operation # NoOperation
  BY DEF Ground, RowTrue
<1>4. c.shard \in MovedShards
  BY DEF ProvTyped, ProvTypeOK
<1>5. PICK a : a = c.call
  OBVIOUS
<1>6. PICK w \in MovedShards : w = c.shard
  BY <1>4
<1>7. PICK tok : tok = c.token
  OBVIOUS
<1>8. Execute(a, w, tok) \/ UNCHANGED <<copy, away>>
  BY <1>2, <1>5, <1>6, <1>7
<1>9. CASE Onward
  <2>1. a = "complete" \/ (a = "start" /\ switched)
    BY <1>5, <1>9 DEF Ground, OnwardTrue
  <2>2. /\ Ground' /\ Onward' /\ (\A q : StepsOnward(q) => StepsOnward(q)') /\ (AllLive => AllLive')
    BY <1>2, <1>8, <1>9, <2>1, OnwardExecuted
  <2>3. s.at # "idle" => s.forward /\ s.at \in OnPlaces /\ StepsOnward(s.steps)'
                         /\ ~Ended(operation')
    BY <1>1, <1>2, <1>9, <2>2 DEF Going, Headed, FarCalm
  <2>4. s.at # "idle" => StepsOnward(worker.steps)'
    BY <1>2, <2>3 DEF StepsOnward
  <2>5. s.forward => Decided(s.head.phase)
    BY <1>1 DEF Going, Headed
  <2>6. s.at = "idle" => ~s.forward
    BY <1>1, Typed
  <2>7. s.at \in OutPlaces \cup UndoPlaces => s.at # "idle"
    BY PlaceFacts
  <2>8. Headed'
    BY <1>2, <2>2, <2>3, <2>4, <2>5, <2>6, PlaceFacts DEF Headed
  <2>9. OutTrue' /\ UndoTrue'
    BY <1>2, <2>3, <2>7, PlaceFacts DEF OutTrue, UndoTrue
  <2>10. RestoreTrue'
    BY <1>1, <1>2 DEF Going, RestoreTrue, FarCalm
  <2>11. OnTrue'
    BY <1>1, <1>2, <2>2 DEF Going, OnTrue, FarCalm
  <2> QED
    BY <2>2, <2>8, <2>9, <2>10, <2>11 DEF Going
<1>10. CASE ~Onward
  <2>1. a \in TransferCalls \cup {"undo"}
    BY <1>5, <1>10 DEF Ground, UndecidedTrue
  <2>3. /\ Ground' /\ ~Onward' /\ (\A q : StepsUndecided(q) => StepsUndecided(q)')
        /\ \A v \in MovedShards : Cleared(v) => Cleared(v)'
    <3>1. CASE a = "undo"
      <4>1. intruded' = intruded /\ \A d \in tardy' : d \in tardy \/ d.call = "undo"
        BY <1>2, <1>5, <3>1
      <4> QED
        BY <1>2, <1>3, <1>8, <1>10, <3>1, <4>1, UndoExecuted
    <3>2. CASE a \in TransferCalls
      BY <1>2, <1>3, <1>4, <1>5, <1>10, <3>2, TardyTransfer
    <3> QED
      BY <2>1, <3>1, <3>2
  <2>4. s.at \notin OutPlaces
    BY <1>1 DEF Going, OutTrue
  <2>5. s.at # "idle" => ~s.forward /\ s.at \in UndoPlaces /\ StepsUndecided(s.steps)'
                         /\ ~Ended(operation')
    BY <1>1, <1>2, <1>10, <2>3, <2>4 DEF Going, Headed, FarCalm
  <2>6. s.at # "idle" => StepsUndecided(worker.steps)'
    BY <1>2, <2>5 DEF StepsUndecided
  <2>7. s.at = "idle" => ~s.forward
    BY <1>1, Typed
  <2>8. /\ s.at \in {"start", "started", "require"} => s.head.phase = "runtime_restore_source"
        /\ s.at # "idle" /\ s.first /\ ~s.staged => clusterIni = "old"
    BY <1>1, <2>5, <2>7 DEF Going, Headed
  <2>9. Headed'
    BY <1>2, <2>3, <2>5, <2>6, <2>7, <2>8 DEF Headed, FarCalm
  <2>10. OutTrue' /\ OnTrue'
    BY <1>2, <2>4, <2>5, <2>7 DEF OutTrue, OnTrue
  <2>11. UndoTrue'
    <3>1. s.at \in UndoPlaces => UndoTrue /\ ~s.forward
      BY <2>5, PlaceFacts DEF Going
    <3> QED
      BY <1>1, <1>2, <2>3, <3>1 DEF UndoTrue, FarCalm
  <2>12. RestoreTrue'
    BY <1>1, <1>2 DEF Going, RestoreTrue, FarCalm
  <2> QED
    BY <2>3, <2>9, <2>10, <2>11, <2>12 DEF Going
<1> QED
  BY <1>9, <1>10

-----------------------------------------------------------------------------
(* The controller's own machine, and the first step *)

HomeCalm == UNCHANGED <<operation, steps, wasUp, copy, tardy, intruded, clusterIni, stageDir,
                        unmarked, switched, away>>

\* A world is started where it was: after the decision, one that stays.
LEMMA HomeStart ==
    ASSUME ProvTyped, Ground, HomeCalm, operation # NoOperation, ~Ended(operation),
           NEW w \in Shards, Onward => w \notin MovedShards,
           atHome' = atHome \/ atHome' = [atHome EXCEPT ![w] = TRUE]
    PROVE  /\ Ground' /\ Onward' = Onward
           /\ \A q : (StepsOnward(q) => StepsOnward(q)') /\ (StepsUndecided(q) => StepsUndecided(q)')
           /\ \A v : Cleared(v)' = Cleared(v)
           /\ AllLive' = AllLive
<1>1. atHome \in [Shards -> BOOLEAN]
  BY Typed
<1>2. /\ \A v \in Shards : atHome[v] => atHome'[v]
      /\ \A v \in Shards : v # w => atHome'[v] = atHome[v]
  BY <1>1
<1>3. /\ Onward' = Onward /\ AllLive' = AllLive /\ \A v : Cleared(v)' = Cleared(v)
  BY DEF HomeCalm, Onward, AllLive, Cleared
<1>4. \A q : StepsOnward(q) => StepsOnward(q)'
  BY <1>2 DEF StepsOnward, HomeCalm
<1>5. \A q : StepsUndecided(q) => StepsUndecided(q)'
  BY <1>2, <1>3 DEF StepsUndecided, HomeCalm
<1>6. Onward \in BOOLEAN /\ Onward' \in BOOLEAN
  BY DEF Onward, Decided
<1>7. RowTrue'
  <2>1. RowTrue
    BY DEF Ground
  <2> QED
    BY <1>3, <1>6, <2>1 DEF RowTrue, HomeCalm
<1>8. UndecidedTrue'
  <2> SUFFICES ASSUME ~Onward PROVE UndecidedTrue'
    BY <1>3 DEF UndecidedTrue
  <2>1. /\ \A v \in MovedShards : ~away[v] /\ copy[v] # "live"
        /\ \A c \in tardy : c.call \in TransferCalls \cup {"undo"}
        /\ \A c, d \in tardy : c.call \in TransferCalls /\ d.call \in TransferCalls => c = d
        /\ intruded # {} => \A c \in tardy : c.call = "undo"
        /\ StepsUndecided(steps)
        /\ clusterIni = "new" => unmarked \/ stageDir = "marked"
    BY DEF Ground, UndecidedTrue
  <2>2. PICK q : q = steps
    OBVIOUS
  <2>3. StepsUndecided(q)'
    BY <1>5, <2>1, <2>2
  <2>4. StepsUndecided(steps)'
    BY <2>2, <2>3 DEF StepsUndecided, HomeCalm
  <2> QED
    BY <2>1, <2>4 DEF UndecidedTrue, HomeCalm
<1>9. OnwardTrue'
  <2> SUFFICES ASSUME Onward PROVE OnwardTrue'
    BY <1>3 DEF OnwardTrue
  <2>1. /\ \A v \in MovedShards : copy[v] \in {"published", "live"} /\ ~atHome[v]
        /\ \A v \in MovedShards : away[v] => switched
        /\ \A c \in tardy : c.call = "complete" \/ (c.call = "start" /\ switched)
        /\ StepsOnward(steps)
        /\ ClusterChanges => clusterIni = "new"
    BY DEF Ground, OnwardTrue
  <2>2. PICK q : q = steps
    OBVIOUS
  <2>3. StepsOnward(q)'
    BY <1>4, <2>1, <2>2
  <2>4. StepsOnward(steps)'
    BY <2>2, <2>3 DEF StepsOnward, HomeCalm
  <2>5. \A v \in MovedShards : ~atHome'[v]
    BY <1>2, <2>1, ShardNumbers
  <2> QED
    BY <2>1, <2>4, <2>5 DEF OnwardTrue, HomeCalm
<1>10. EndTrue'
  BY DEF EndTrue, HomeCalm, Ended
<1> QED
  BY <1>3, <1>4, <1>5, <1>7, <1>8, <1>9, <1>10 DEF Ground

\* A world is stopped where it was, by the first run.
LEMMA HomeStop ==
    ASSUME ProvTyped, Ground, Going, HomeCalm, worker.at = "halt"
    PROVE  Ground' /\ ~Onward' /\ ~Ended(operation') /\ operation' # NoOperation
           /\ StepsUndecided(steps)'
<1>1. worker.at \in OutPlaces /\ worker.at \in HaltPlaces
  BY DEF OutPlaces, HaltPlaces
<1>2. /\ OutTrue /\ ~Onward /\ operation # NoOperation /\ ~Ended(operation)
      /\ StepsUndecided(steps)
  BY <1>1, AtOut
<1>3. \A w \in Shards : ~steps[w].back
  BY <1>1, <1>2 DEF OutTrue
<1>4. ~Onward' /\ ~Ended(operation') /\ operation' # NoOperation
  BY <1>2 DEF HomeCalm, Onward
<1>5. StepsUndecided(steps)'
  BY <1>2, <1>3 DEF StepsUndecided, HomeCalm, Cleared
<1>6. RowTrue'
  BY <1>2 DEF Ground, RowTrue, HomeCalm, Onward
<1>7. UndecidedTrue'
  BY <1>2, <1>5 DEF Ground, UndecidedTrue, HomeCalm
<1>8. OnwardTrue' /\ EndTrue'
  BY <1>4 DEF OnwardTrue, EndTrue, Ended
<1> QED
  BY <1>4, <1>5, <1>6, <1>7, <1>8 DEF Ground

LEMMA CallHomeKeeps ==
    ASSUME ProvTyped, Ground, Going, CallHome
    PROVE  Ground' /\ Going'
<1>1. PICK s \in Runs : s = worker
  BY Typed
<1>2. HomeCalm
  BY DEF CallHome, rowVars, nodeFiles, ownFiles, placing, HomeCalm
<1>3. s.at \in {"halt", "start"} /\ s.shard \in Shards /\ s.head # NoOperation /\ s.at # "idle"
      /\ operation # NoOperation
  BY <1>1, Typed DEF CallHome, HomeCall, RunOk
<1>4. atHome \in [Shards -> BOOLEAN]
  BY Typed
<1>5. operation' = operation /\ clusterIni' = clusterIni
  BY <1>2 DEF HomeCalm
<1>6. CASE s.at = "halt"
  <2>1. worker.at \in OutPlaces /\ worker.at \in HaltPlaces
    BY <1>1, <1>6 DEF OutPlaces, HaltPlaces
  <2>2. /\ OutTrue /\ ~worker.forward /\ worker.steps = steps
        /\ worker.first /\ ~worker.staged => clusterIni = "old"
    BY <2>1, AtOut
  <2>3. Ground' /\ ~Onward' /\ ~Ended(operation') /\ operation' # NoOperation
        /\ StepsUndecided(steps)'
    BY <1>1, <1>2, <1>6, HomeStop
  <2>4. CASE worker' = Errored(worker)
    <3>1. TurnsBack(s, worker')
      BY <1>1, <1>3, <1>6, <2>4, ErroredIs
    <3>2. StepsUndecided(s.steps)'
      BY <1>1, <1>2, <2>2, <2>3 DEF HomeCalm, StepsUndecided
    <3> QED
      BY <1>1, <1>5, <2>1, <2>3, <3>1, <3>2, TurnsFromOut
  <2>5. CASE atHome' = AtHome /\ worker' = Answered(worker)
    <3>1. atHome' = [atHome EXCEPT ![s.shard] = FALSE]
      BY <1>1, <1>6, <2>5 DEF AtHome
    <3>2. Loops(s, worker', "halt", {w \in Shards : atHome[w]}, "stopped")
      BY <1>1, <1>3, <1>6, <2>5, AnsweredIs
    <3>3. /\ worker'.first = s.first /\ worker'.head = s.head /\ worker'.steps = s.steps
          /\ worker'.forward = s.forward /\ worker'.staged = s.staged /\ worker'.bad = s.bad
      BY <3>2 DEF Loops, Keeps
    <3>4. \/ /\ worker'.at = "halt" /\ worker'.shard \in Shards /\ worker'.shard > s.shard
             /\ \A v \in Shards : atHome[v] /\ v > s.shard => v >= worker'.shard
          \/ worker'.at = "stopped" /\ \A v \in Shards : atHome[v] => v <= s.shard
      BY <3>2 DEF Loops, Reaches
    <3>5. /\ worker.first /\ ~worker.bad /\ tardy = {} /\ intruded = {}
          /\ \A w \in Shards : ~steps[w].back
          /\ \A v \in Shards : v < s.shard => ~atHome[v]
          /\ ~worker.staged /\ \A w \in MovedShards : copy[w] = "none" /\ steps[w].phase = "not_started"
          /\ clusterIni = "old"
      BY <1>1, <1>6, <2>1, <2>2 DEF OutTrue
    <3>6. \A v \in Shards : v \in Nat
      BY ShardNumbers
    <3>7. \A v \in Shards : v <= s.shard => ~atHome'[v]
      BY <1>3, <1>4, <3>1, <3>5, <3>6
    <3>8. \A v \in Shards : v > s.shard => atHome'[v] = atHome[v]
      <4>1. \A v \in Shards : v # s.shard => atHome'[v] = atHome[v]
        BY <1>3, <1>4, <3>1
      <4>2. \A v \in Shards : v > s.shard => v # s.shard
        BY <1>3, <3>6
      <4> QED
        BY <4>1, <4>2
    <3>9. /\ worker'.at = "halt" => \A v \in Shards : v < worker'.shard => ~atHome'[v]
          /\ worker'.at # "halt" => \A v \in Shards : ~atHome'[v]
      BY <1>3, <3>4, <3>6, <3>7, <3>8
    <3>10. worker'.at \in {"halt", "stopped"}
      BY <3>4
    <3>11. {"halt", "stopped"} \subseteq OutPlaces /\ {"halt", "stopped"} \subseteq HaltPlaces
           /\ {"halt", "stopped"} \cap (MovePlaces \cup SettlePlaces) = {}
      BY DEF OutPlaces, HaltPlaces, MovePlaces, SettlePlaces
    <3>12. OutTrue'
      BY <1>1, <1>2, <2>2, <3>3, <3>5, <3>9, <3>10, <3>11 DEF OutTrue, HomeCalm
    <3> QED
      BY <1>1, <1>5, <2>2, <2>3, <3>3, <3>10, <3>11, <3>12, OutStep
  <2> QED
    BY <2>4, <2>5 DEF CallHome
<1>7. CASE s.at = "start"
  <2>1. (s.forward <=> Onward) /\ ~Ended(operation)
    BY <1>1, <1>3, Directions
  <2>2. Onward => s.shard \notin MovedShards
    BY <1>1, <1>7, <2>1 DEF CallHome, HomeCall, OnTarget
  <2>3. AtHome = [atHome EXCEPT ![s.shard] = TRUE]
    BY <1>1, <1>7 DEF AtHome
  <2>4. atHome' = atHome \/ atHome' = [atHome EXCEPT ![s.shard] = TRUE]
    BY <2>3 DEF CallHome
  <2>5. PICK w \in Shards : w = s.shard
    BY <1>3
  <2>6. /\ Onward => w \notin MovedShards
        /\ atHome' = atHome \/ atHome' = [atHome EXCEPT ![w] = TRUE]
    BY <2>2, <2>4, <2>5
  <2>7. /\ Ground' /\ Onward' = Onward
        /\ \A q : (StepsOnward(q) => StepsOnward(q)') /\ (StepsUndecided(q) => StepsUndecided(q)')
        /\ \A v : Cleared(v)' = Cleared(v)
        /\ AllLive' = AllLive
    BY <1>2, <1>3, <2>1, <2>6, HomeStart
  <2>8. IF Onward THEN StepsOnward(s.steps) ELSE StepsUndecided(s.steps)
    BY <1>1, <1>3, StepsBothWays
  <2>9. IF Onward THEN StepsOnward(s.steps)' ELSE StepsUndecided(s.steps)'
    BY <2>7, <2>8
  <2>10. \A v \in MovedShards : Cleared(v) => Cleared(v)'
    BY <2>7
  <2>11. CASE worker' = Errored(worker)
    BY <1>1, <1>5, <1>7, <2>7, <2>9, <2>10, <2>11, ErrorGoes
  <2>12. CASE atHome' = AtHome /\ worker' = Answered(worker)
    <3>1. PICK r \in StepRows : /\ Answers(s, worker', "started", r)
                                /\ r.phase = s.steps[s.shard].phase /\ r.back
      BY <1>1, <1>3, <1>7, <2>12, AnsweredIs
    <3>2. s.steps \in [Shards -> StepRows]
      BY DEF Runs
    <3>3. PICK n : n = [s.steps EXCEPT ![s.shard] = r]
      OBVIOUS
    <3>4. atHome'[s.shard]
      BY <1>3, <1>4, <2>3, <2>12
    <3>5. ASSUME Onward PROVE StepsOnward(n)'
      <4>1. StepsOnward(s.steps)'
        BY <2>9, <3>5
      <4>2. switched'
        BY <1>1, <1>2, <1>7, <2>1, <3>5 DEF Going, OnTrue, HomeCalm
      <4>3. s.shard \notin MovedShards
        BY <2>2, <3>5
      <4> QED
        BY <1>3, <3>2, <3>3, <3>4, <4>1, <4>2, <4>3, OnwardRow
    <3>6. ASSUME ~Onward PROVE StepsUndecided(n)'
      <4>1. StepsUndecided(s.steps)'
        BY <2>9, <3>6
      <4>2. s.shard \in MovedShards =>
               /\ r.phase = "not_started" => s.steps[s.shard].phase = "not_started"
               /\ r.phase = "rolled_back" => Cleared(s.shard)'
               /\ r.phase \notin {"existing", "completed"}
        BY <3>1, <4>1 DEF StepsUndecided
      <4> QED
        BY <1>3, <3>2, <3>3, <3>4, <4>1, <4>2, UndecidedRow
    <3>7. IF Onward THEN StepsOnward(n)' ELSE StepsUndecided(n)'
      BY <3>5, <3>6
    <3>8. /\ ~Ended(operation') /\ unmarked' = unmarked /\ switched' = switched /\ wasUp' = wasUp
          /\ AllLive => AllLive'
      BY <1>2, <2>1, <2>7 DEF HomeCalm
    <3> QED
      BY <1>1, <1>5, <1>7, <2>7, <2>10, <3>1, <3>3, <3>7, <3>8, Started
  <2> QED
    BY <2>11, <2>12 DEF CallHome
<1> QED
  BY <1>3, <1>6, <1>7

\* The operation begins.
LEMMA ProvisionKeeps ==
    ASSUME ProvTyped, Ground, Going, Provision
    PROVE  Ground' /\ Going'
<1>1. /\ operation = NoOperation
      /\ operation' = [phase |-> "planned", status |-> "running"]
      /\ steps' = [w \in Shards |->
                    [phase |-> IF w \in MovedShards THEN "not_started" ELSE "existing",
                     back |-> FALSE]]
      /\ UNCHANGED <<copy, tardy, intruded, clusterIni, stageDir, unmarked, switched, atHome, away>>
  BY DEF Provision, nodeFiles, ownFiles, placing, processes
<1>2. PICK q : q = steps'
  OBVIOUS
<1>3. worker' = [Nobody EXCEPT !.at = "stopping", !.first = TRUE, !.head = operation', !.steps = q]
  BY <1>2 DEF Provision
<1>4. /\ worker'.at = "stopping" /\ worker'.first /\ worker'.steps = q /\ ~worker'.forward
      /\ ~worker'.staged /\ ~worker'.bad
  BY <1>3 DEF Nobody
<1>5. ~Onward /\ ~Onward'
  BY <1>1 DEF Onward, Decided, NoOperation
<1>6. /\ tardy = {} /\ intruded = {} /\ clusterIni = "old" /\ ~switched
      /\ \A w \in MovedShards : copy[w] = "none" /\ ~away[w]
  BY <1>1, <1>5 DEF Ground, RowTrue, UndecidedTrue
<1>7. \A w \in Shards : ~steps'[w].back
  BY <1>1
<1>8. \A w \in MovedShards : steps'[w].phase = "not_started"
  BY <1>1, ShardNumbers
<1>9. StepsUndecided(steps)'
  BY <1>1, <1>6, <1>7, <1>8 DEF StepsUndecided
<1>10. /\ operation' # NoOperation /\ ~Ended(operation')
       /\ operation'.status # "succeeded" /\ operation'.status # "rolled_back"
       /\ operation'.phase # "completed" /\ operation'.phase # "rolled_back"
  BY <1>1 DEF NoOperation, Ended
<1>11. RowTrue'
  BY <1>1, <1>6, <1>10 DEF RowTrue
<1>12. UndecidedTrue'
  BY <1>1, <1>6, <1>9 DEF UndecidedTrue
<1>13. OnwardTrue' /\ EndTrue'
  BY <1>5, <1>10 DEF OnwardTrue, EndTrue
<1>14. "stopping" \in OutPlaces /\ "stopping" \in HaltPlaces
       /\ "stopping" \notin MovePlaces \cup SettlePlaces
  BY DEF OutPlaces, HaltPlaces, MovePlaces, SettlePlaces
<1>15. Ground'
  BY <1>11, <1>12, <1>13 DEF Ground
<1>16. OutTrue'
  BY <1>1, <1>2, <1>4, <1>6, <1>7, <1>8, <1>14 DEF OutTrue
<1> QED
  BY <1>1, <1>4, <1>5, <1>6, <1>10, <1>14, <1>15, <1>16, OutStep

-----------------------------------------------------------------------------
(* The types *)

MachinesTyped ==
    /\ copy \in [MovedShards -> {"none", "begun", "full", "published", "live"}]
    /\ met \in [MovedShards -> 0 .. MaxAsks + 1]
    /\ tardy \subseteq [call : CallPlaces, shard : MovedShards, token : 1 .. MaxAsks + 1]
    /\ intruded \subseteq MovedShards
    /\ away \in [MovedShards -> BOOLEAN]

\* The other variables that a run changes.
OwnTyped ==
    /\ clusterIni \in {"old", "new"}
    /\ stageDir \in {"none", "original", "staged", "marked"}
    /\ {switched, unmarked, misdecided} \subseteq BOOLEAN
    /\ atHome \in [Shards -> BOOLEAN]

LEMMA PartsTyped ==
    ASSUME ProvTyped
    PROVE  MachinesTyped /\ OwnTyped
BY DEF ProvTyped, ProvTypeOK, MachinesTyped, OwnTyped

LEMMA MachinesStay ==
    ASSUME ProvTyped, UNCHANGED <<nodeFiles, away>>
    PROVE  MachinesTyped'
BY PartsTyped DEF nodeFiles, MachinesTyped

LEMMA OwnStays ==
    ASSUME ProvTyped, UNCHANGED <<ownFiles, switched, misdecided, atHome>>
    PROVE  OwnTyped'
BY PartsTyped DEF ownFiles, OwnTyped

LEMMA ExecuteTypes ==
    ASSUME ProvTyped, NEW call, NEW w \in MovedShards, NEW tok \in 0 .. MaxAsks + 1,
           Execute(call, w, tok)
    PROVE  /\ copy' \in [MovedShards -> {"none", "begun", "full", "published", "live"}]
           /\ met' \in [MovedShards -> 0 .. MaxAsks + 1]
           /\ away' \in [MovedShards -> BOOLEAN]
<1>1. MachinesTyped
  BY PartsTyped
<1>2. copy[w] \in {"none", "begun", "full", "published", "live"}
  BY <1>1 DEF MachinesTyped
<1>3. Made(call, w) \in {"none", "begun", "full", "published", "live"}
  <2>1. \/ Made(call, w) = copy[w] \/ Made(call, w) = "begun" \/ Made(call, w) = "full"
        \/ Made(call, w) = "published" \/ Made(call, w) = "live" \/ Made(call, w) = "none"
    BY DEF Made
  <2> QED
    BY <1>2, <2>1
<1>4. copy' = [copy EXCEPT ![w] = Made(call, w)] /\ met' = [met EXCEPT ![w] = tok]
  BY DEF Execute
<1>5. \/ away' = [away EXCEPT ![w] = TRUE] \/ away' = [away EXCEPT ![w] = FALSE] \/ away' = away
  BY DEF Execute
<1> QED
  BY <1>1, <1>3, <1>4, <1>5 DEF MachinesTyped

\* A run at work: its row and its token.
LEMMA AtWork ==
    ASSUME ProvTyped, worker.at # "idle"
    PROVE  /\ worker \in Runs /\ RunOk(worker) /\ worker.head # NoOperation
           /\ operation \in Headers /\ operation # NoOperation
           /\ token \in 1 .. MaxAsks + 1
           /\ worker.at \in MovingPlaces => worker.shard \in MovedShards
           /\ worker.at \in StepPlaces => worker.shard \in Shards
<1>1. /\ worker \in Runs /\ RunOk(worker) /\ worker.head # NoOperation
      /\ operation \in Headers /\ operation # NoOperation /\ token >= 1
  BY Typed
<1>2. token \in 0 .. MaxAsks + 1
  BY DEF ProvTyped, ProvTypeOK
<1>3. worker.at \in MovingPlaces => worker.shard \in MovedShards
  BY <1>1 DEF RunOk
<1>4. worker.at \in StepPlaces => worker.shard \in Shards
  BY <1>1, <1>3, ShardNumbers DEF RunOk, StepPlaces, MovingPlaces, MovePlaces
<1> QED
  BY <1>1, <1>2, <1>3, <1>4, ShardNumbers

\* A step of the run leaves everything typed.
LEMMA RunTypedAgain ==
    ASSUME ProvTyped, worker.at # "idle", RunOk(worker'), Slip \/ Smooth,
           \/ operation' = operation
           \/ worker.at \in SavePlaces /\ operation' = Header(worker),
           steps' \in [Shards -> StepRows], MachinesTyped', OwnTyped',
           UNCHANGED <<wasUp, request, token, plan, overtaken>>
    PROVE  ProvTyped'
<1>1. operation' \in Headers /\ operation' # NoOperation
  <2>1. PICK s \in Runs : s = worker
    BY AtWork
  <2>2. s.head # NoOperation /\ operation \in Headers /\ operation # NoOperation
    BY <2>1, AtWork
  <2> QED
    BY <2>1, <2>2, HeaderIs
<1>2. /\ count' \in [slips : 0 .. MaxSlips, falls : 0 .. MaxFalls, asks : 0 .. MaxAsks,
                     edits : 0 .. MaxPlanEdits]
      /\ count'.asks = count.asks
  <2>1. /\ count \in [slips : 0 .. MaxSlips, falls : 0 .. MaxFalls, asks : 0 .. MaxAsks,
                      edits : 0 .. MaxPlanEdits]
        /\ MaxSlips \in Nat
    BY ProvisionAssumption DEF ProvTyped, ProvTypeOK, ProvisionAssumption
  <2>2. CASE Smooth
    BY <2>1, <2>2 DEF Smooth
  <2>3. CASE Slip
    <3>1. count.slips < MaxSlips /\ count' = [count EXCEPT !.slips = @ + 1]
      BY <2>3 DEF Slip
    <3>2. count.slips + 1 \in 0 .. MaxSlips
      BY <2>1, <3>1
    <3> QED
      BY <2>1, <3>1, <3>2
  <2> QED
    BY <2>2, <2>3
<1>3. worker' \in Runs
  BY DEF RunOk
<1>4. ProvTypeOK'
  BY <1>1, <1>2, <1>3 DEF ProvTyped, ProvTypeOK, MachinesTyped, OwnTyped, Runs
<1>5. token >= 1 /\ token \in Nat
  BY AtWork
<1>6. RunTyped'
  BY <1>1, <1>2, <1>5 DEF ProvTyped, RunTyped
<1> QED
  BY <1>4, <1>6 DEF ProvTyped

\* What a run becomes has a place, a world and a row.
LEMMA BecomesOk ==
    ASSUME NEW s \in Runs, s.head # NoOperation
    PROVE  /\ RunOk(Nobody)
           /\ RunOk(Undoing(s)) /\ RunOk(UndoNext(s)) /\ RunOk(Requiring(s))
           /\ RunOk(Halting(s)) /\ RunOk(TransferNext(s)) /\ RunOk(CompleteNext(s))
           /\ RunOk(RestoreNext(s))
<1>1. RunOk(Undoing(s))
  BY UndoingTurnsBack DEF TurnsBack
<1>2. RunOk(UndoNext(s))
  BY UndoNextStepsBack DEF StepsBack
<1>3. RunOk(Requiring(s))
  BY RequiringIs
<1>4. RunOk(Halting(s)) /\ RunOk(TransferNext(s)) /\ RunOk(CompleteNext(s)) /\ RunOk(RestoreNext(s))
  BY HaltingLoops, TransferLoops, CompleteLoops, RestoreLoops DEF Loops
<1>5. RunOk(Nobody)
  <2>1. Nobody \in Runs
    BY ShardNumbers DEF Nobody, Runs, LocalPlaces, StepRows, StepPhases
  <2>2. "idle" \notin MovingPlaces \cup {"halt", "start", "started"}
    BY DEF MovingPlaces, MovePlaces
  <2> QED
    BY <2>1, <2>2 DEF RunOk, Nobody
<1> QED
  BY <1>1, <1>2, <1>3, <1>4, <1>5

LEMMA SavePhaseTypes ==
    ASSUME ProvTyped, SavePhase
    PROVE  ProvTyped'
<1>1. /\ worker.at \in SavePlaces /\ operation' = Header(worker) /\ steps' = steps
      /\ worker.at # "idle" /\ Smooth
      /\ UNCHANGED <<wasUp, request, token, plan, overtaken, nodeFiles, away, ownFiles, switched,
                     misdecided, atHome>>
  BY DEF SavePhase, SavePlaces, placing, processes
<1>2. PICK s \in Runs : s = worker
  BY Typed
<1>3. s.head # NoOperation /\ steps \in [Shards -> StepRows]
      /\ (s.at \in MovingPlaces => s.shard \in MovedShards)
  BY <1>1, <1>2, Typed DEF RunOk
<1>4. PICK h : h = Header(worker)
  OBVIOUS
<1>5. h \in Headers /\ h # NoOperation
  BY <1>1, <1>2, <1>3, <1>4, HeaderIs
<1>6. PICK q : q = steps
  OBVIOUS
<1>7. PICK m : m = [worker EXCEPT !.head = h, !.steps = q]
  OBVIOUS
<1>8. /\ m \in Runs /\ m.head = h /\ m.at = s.at /\ m.shard = s.shard
  BY <1>2, <1>3, <1>5, <1>6, <1>7 DEF Runs
<1>9. worker' = CASE m.at = "stopping" -> Halting(From(m))
                   [] m.at = "stopped" -> [m EXCEPT !.at = "stage"]
                   [] m.at = "uploading" -> [m EXCEPT !.at = "planned"]
                   [] m.at = "decide" -> [m EXCEPT !.at = "apply", !.forward = TRUE]
                   [] m.at = "applied" -> CompleteNext(From(m))
                   [] m.at = "restore" -> RestoreNext(From(m))
                   [] OTHER -> Nobody
  BY <1>1, <1>4, <1>6, <1>7 DEF SavePhase
<1>10. PICK f \in Runs : f = From(m) /\ f.head # NoOperation
  <2>1. 0 \in 0 .. LastShard
    BY ShardNumbers
  <2>2. PICK f : f = From(m)
    OBVIOUS
  <2>3. f \in Runs /\ f.head = h
    BY <1>8, <2>1, <2>2 DEF From, Runs
  <2> QED
    BY <1>5, <2>2, <2>3
<1>11. {"stage", "planned", "apply"} \subseteq Places \ {"idle"}
       /\ {"stage", "apply"} \cap MovingPlaces = {} /\ "uploading" \in MovingPlaces
  BY DEF Places, StepPlaces, LocalPlaces, MovingPlaces, MovePlaces
<1>12. RunOk(worker')
  <2>1. CASE s.at \in {"stopping", "applied", "restore"}
    BY <1>8, <1>9, <1>10, <2>1, BecomesOk
  <2>2. CASE s.at = "stopped"
    <3>1. worker' = [m EXCEPT !.at = "stage"]
      BY <1>8, <1>9, <2>2
    <3> QED
      BY <1>5, <1>8, <1>11, <3>1, RunMoves DEF GoesTo
  <2>3. CASE s.at = "uploading"
    <3>1. worker' = [m EXCEPT !.at = "planned"]
      BY <1>8, <1>9, <2>3
    <3>2. m.shard \in MovedShards
      BY <1>3, <1>8, <1>11, <2>3
    <3> QED
      BY <1>5, <1>8, <1>11, <3>1, <3>2, RunMoves DEF GoesTo
  <2>4. CASE s.at = "decide"
    <3>1. PICK g : g = [m EXCEPT !.forward = TRUE]
      OBVIOUS
    <3>2. g \in Runs /\ g.head # NoOperation
      BY <1>5, <1>8, <3>1 DEF Runs
    <3>3. worker' = [g EXCEPT !.at = "apply"]
      BY <1>8, <1>9, <2>4, <3>1 DEF Runs
    <3> QED
      BY <1>11, <3>2, <3>3, RunMoves DEF GoesTo
  <2>5. CASE s.at \in {"end", "close", "require"}
    <3>1. worker' = Nobody
      BY <1>8, <1>9, <2>5
    <3> QED
      BY <1>2, <1>3, <3>1, BecomesOk
  <2> QED
    BY <1>1, <1>2, <2>1, <2>2, <2>3, <2>4, <2>5 DEF SavePlaces
<1>13. MachinesTyped' /\ OwnTyped'
  BY <1>1, MachinesStay, OwnStays
<1> QED
  BY <1>1, <1>3, <1>12, <1>13, RunTypedAgain

LEMMA SavePhaseFailsTypes ==
    ASSUME ProvTyped, SavePhaseFails
    PROVE  ProvTyped'
<1>1. /\ worker.at \in SavePlaces /\ steps' = steps /\ worker.at # "idle" /\ Slip
      /\ operation' = operation \/ operation' = Header(worker)
      /\ misdecided' = (misdecided \/ (worker.at = "decide" /\ operation' # operation))
      /\ UNCHANGED <<wasUp, request, token, plan, overtaken, nodeFiles, away, ownFiles, switched,
                     atHome>>
  BY DEF SavePhaseFails, SavePlaces, placing, processes
<1>2. PICK s \in Runs : s = worker
  BY Typed
<1>3. s.head # NoOperation /\ steps \in [Shards -> StepRows]
  BY <1>1, <1>2, Typed
<1>4. PICK h : h = Header(worker)
  OBVIOUS
<1>5. h \in Headers /\ h # NoOperation
  BY <1>1, <1>2, <1>3, <1>4, HeaderIs
<1>6. PICK m : m = [worker EXCEPT !.head = h]
  OBVIOUS
<1>7. m \in Runs /\ m.head = h /\ m.at = s.at /\ m.first = s.first
  BY <1>2, <1>5, <1>6 DEF Runs
<1>8. worker' = CASE m.at \in {"stopping", "stopped", "decide"} -> Undoing(m)
                   [] m.at = "applied" -> IF m.first THEN Requiring(m) ELSE CompleteNext(From(m))
                   [] m.at = "restore" -> Requiring(m)
                   [] OTHER -> Nobody
  BY <1>4, <1>6 DEF SavePhaseFails
<1>9. PICK f \in Runs : f = From(m) /\ f.head # NoOperation
  <2>1. 0 \in 0 .. LastShard
    BY ShardNumbers
  <2>2. PICK f : f = From(m)
    OBVIOUS
  <2>3. f \in Runs /\ f.head = h
    BY <1>7, <2>1, <2>2 DEF From, Runs
  <2> QED
    BY <1>5, <2>2, <2>3
<1>10. RunOk(worker')
  <2>1. worker' \in {Undoing(m), Requiring(m), CompleteNext(f), Nobody}
    <3>1. CASE m.at \in {"stopping", "stopped", "decide"}
      BY <1>8, <3>1
    <3>2. CASE m.at = "applied"
      BY <1>8, <1>9, <3>2
    <3>3. CASE m.at = "restore"
      BY <1>8, <3>3
    <3>4. CASE m.at \notin {"stopping", "stopped", "decide", "applied", "restore"}
      BY <1>8, <3>4
    <3> QED
      BY <3>1, <3>2, <3>3, <3>4
  <2> QED
    BY <1>5, <1>7, <1>9, <2>1, BecomesOk
<1>11. MachinesTyped'
  BY <1>1, MachinesStay
<1>12. OwnTyped'
  <2>1. OwnTyped
    BY PartsTyped
  <2>2. misdecided' \in BOOLEAN
    <3>1. misdecided \in BOOLEAN
      BY <2>1 DEF OwnTyped
    <3> QED
      BY <1>1, <3>1
  <2> QED
    BY <1>1, <2>1, <2>2 DEF OwnTyped, ownFiles
<1> QED
  BY <1>1, <1>3, <1>10, <1>11, <1>12, RunTypedAgain

LEMMA SaveStepTypes ==
    ASSUME ProvTyped, SaveStep
    PROVE  ProvTyped'
<1>1. /\ worker.at \in StepPlaces /\ worker.at # "idle" /\ Smooth
      /\ steps' = [steps EXCEPT ![worker.shard] = StepRow(worker)]
      /\ UNCHANGED <<operation, wasUp, request, token, plan, overtaken, nodeFiles, away, ownFiles,
                     switched, misdecided, atHome>>
  BY DEF SaveStep, StepPlaces, placing, processes
<1>2. PICK s \in Runs : s = worker
  BY Typed
<1>3. /\ s.head # NoOperation /\ s.shard \in Shards /\ steps \in [Shards -> StepRows]
      /\ s.at \in MovingPlaces => s.shard \in MovedShards
  BY <1>1, <1>2, Typed, AtWork
<1>4. PICK r : r = StepRow(s)
  OBVIOUS
<1>5. r \in StepRows
  BY <1>1, <1>2, <1>3, <1>4, StepRowIs
<1>6. PICK m : m = [worker EXCEPT !.steps[worker.shard] = r]
  OBVIOUS
<1>7. m \in Runs /\ m.at = s.at /\ m.shard = s.shard /\ m.head = s.head
  BY <1>2, <1>3, <1>5, <1>6 DEF Runs
<1>8. worker' = CASE m.at = "planned" -> [m EXCEPT !.at = "begin"]
                   [] m.at = "unsent" -> Undoing(m)
                   [] m.at = "writing" -> [m EXCEPT !.at = "write"]
                   [] m.at = "published" -> TransferNext(m)
                   [] m.at = "completed" -> CompleteNext(m)
                   [] m.at = "undone" -> UndoNext(m)
                   [] m.at = "started" -> RestoreNext(m)
  BY <1>2, <1>4, <1>6 DEF SaveStep
<1>9. {"begin", "write"} \subseteq Places \ {"idle"} /\ {"planned", "writing"} \subseteq MovingPlaces
  BY DEF Places, CallPlaces, MovingPlaces, MovePlaces
<1>10. RunOk(worker')
  <2>1. CASE s.at \in {"planned", "writing"}
    <3>1. m.shard \in MovedShards
      BY <1>3, <1>7, <1>9, <2>1
    <3>2. worker' = [m EXCEPT !.at = "begin"] \/ worker' = [m EXCEPT !.at = "write"]
      BY <1>7, <1>8, <2>1
    <3> QED
      BY <1>3, <1>7, <1>9, <3>1, <3>2, RunMoves DEF GoesTo
  <2>2. CASE s.at \in {"unsent", "published", "completed", "undone", "started"}
    BY <1>3, <1>7, <1>8, <2>2, BecomesOk
  <2> QED
    BY <1>1, <1>2, <2>1, <2>2 DEF StepPlaces
<1>11. steps' \in [Shards -> StepRows]
  BY <1>1, <1>2, <1>3, <1>4, <1>5
<1>12. MachinesTyped' /\ OwnTyped'
  BY <1>1, MachinesStay, OwnStays
<1> QED
  BY <1>1, <1>10, <1>11, <1>12, RunTypedAgain

LEMMA SaveStepFailsTypes ==
    ASSUME ProvTyped, SaveStepFails
    PROVE  ProvTyped'
<1>1. /\ worker.at \in StepPlaces /\ worker.at # "idle" /\ Slip
      /\ steps' \in {steps, [steps EXCEPT ![worker.shard] = StepRow(worker)]}
      /\ UNCHANGED <<operation, wasUp, request, token, plan, overtaken, nodeFiles, away, ownFiles,
                     switched, misdecided, atHome>>
  BY DEF SaveStepFails, StepPlaces, placing, processes
<1>2. PICK s \in Runs : s = worker
  BY Typed
<1>3. s.head # NoOperation /\ s.shard \in Shards /\ steps \in [Shards -> StepRows]
  BY <1>1, <1>2, Typed, AtWork
<1>4. StepRow(s) \in StepRows
  BY <1>1, <1>2, <1>3, StepRowIs
<1>5. worker' = CASE worker.at \in {"planned", "unsent", "writing", "published"} -> Undoing(worker)
                   [] worker.at = "completed" -> Requiring(worker)
                   [] worker.at = "undone" -> UndoNext(worker)
                   [] worker.at = "started" -> Requiring(worker)
  BY DEF SaveStepFails
<1>6. worker' \in {Undoing(s), Requiring(s), UndoNext(s)}
  BY <1>1, <1>2, <1>5 DEF StepPlaces
<1>7. RunOk(worker')
  BY <1>3, <1>6, BecomesOk
<1>8. steps' \in [Shards -> StepRows]
  BY <1>1, <1>2, <1>3, <1>4
<1>9. MachinesTyped' /\ OwnTyped'
  BY <1>1, MachinesStay, OwnStays
<1> QED
  BY <1>1, <1>7, <1>8, <1>9, RunTypedAgain

\* What an answer or an error makes of a run at a call.
LEMMA CallsBecomeOk ==
    ASSUME ProvTyped, worker.at \in CallPlaces
    PROVE  RunOk(Answered(worker)) /\ RunOk(Errored(worker))
<1>1. PICK s \in Runs : s = worker
  BY Typed
<1>2. s.at # "idle"
  BY <1>1 DEF CallPlaces
<1>3. /\ s.head # NoOperation /\ RunOk(s)
  BY <1>1, <1>2, Typed
<1>4. s.at \in {"halt", "begin", "write", "commit", "complete", "undo", "start"}
  BY <1>1 DEF CallPlaces
<1>5. s.at \in {"begin", "write", "commit", "complete", "undo"} => s.shard \in MovedShards
  BY <1>3 DEF RunOk, MovingPlaces, MovePlaces
<1>6. s.at = "start" => s.shard \in Shards
  BY <1>3 DEF RunOk
<1>7. RunOk(Errored(s))
  <2>1. CASE s.at \in {"halt", "begin", "write", "commit"}
    BY <1>3, <2>1, ErroredIs DEF TurnsBack
  <2>2. CASE s.at \in {"complete", "start"}
    BY <1>3, <2>2, ErroredIs
  <2>3. CASE s.at = "undo"
    BY <1>3, <1>5, <2>3, ErroredIs
  <2> QED
    BY <1>4, <2>1, <2>2, <2>3
<1>8. RunOk(Answered(s))
  <2>1. CASE s.at = "halt"
    BY <1>3, <2>1, AnsweredIs DEF Loops
  <2>2. CASE s.at \in {"begin", "write", "commit"}
    BY <1>3, <1>5, <2>2, AnsweredIs DEF GoesTo, TransferCalls
  <2>3. CASE s.at = "complete"
    BY <1>3, <1>5, <2>3, AnsweredIs DEF Answers
  <2>4. CASE s.at = "undo"
    BY <1>3, <1>5, <2>4, AnsweredIs DEF Answers
  <2>5. CASE s.at = "start"
    BY <1>3, <1>6, <2>5, AnsweredIs DEF Answers
  <2> QED
    BY <1>4, <2>1, <2>2, <2>3, <2>4, <2>5
<1> QED
  BY <1>1, <1>7, <1>8

LEMMA CallHomeTypes ==
    ASSUME ProvTyped, CallHome
    PROVE  ProvTyped'
<1>1. /\ worker.at \in {"halt", "start"} /\ (Slip \/ Smooth)
      /\ atHome' \in {atHome, AtHome} /\ worker' \in {Answered(worker), Errored(worker)}
      /\ UNCHANGED <<operation, steps, wasUp, request, token, plan, overtaken, nodeFiles, away,
                     ownFiles, switched, misdecided>>
  BY DEF CallHome, HomeCall, rowVars, placing
<1>2. worker.at \in CallPlaces /\ worker.at # "idle"
  BY <1>1 DEF CallPlaces
<1>3. RunOk(worker') /\ steps \in [Shards -> StepRows]
  BY <1>1, <1>2, CallsBecomeOk, Typed
<1>4. atHome' \in [Shards -> BOOLEAN]
  <2>1. atHome \in [Shards -> BOOLEAN]
    BY Typed
  <2>2. AtHome = [atHome EXCEPT ![worker.shard] = TRUE]
        \/ AtHome = [atHome EXCEPT ![worker.shard] = FALSE]
    BY DEF AtHome
  <2>3. AtHome \in [Shards -> BOOLEAN]
    BY <2>1, <2>2
  <2> QED
    BY <1>1, <2>1, <2>3
<1>5. OwnTyped'
  BY <1>1, <1>4, PartsTyped DEF OwnTyped, ownFiles
<1>6. MachinesTyped'
  BY <1>1, MachinesStay
<1> QED
  BY <1>1, <1>2, <1>3, <1>5, <1>6, RunTypedAgain

LEMMA SkipUndoTypes ==
    ASSUME ProvTyped, SkipUndo
    PROVE  ProvTyped'
<1>1. /\ worker.at = "undo" /\ worker.at # "idle" /\ (Slip \/ Smooth)
      /\ UNCHANGED <<operation, wasUp, request, token, plan, overtaken, nodeFiles, away, ownFiles,
                     switched, misdecided, atHome>>
  BY DEF SkipUndo, placing, processes
<1>2. PICK s \in Runs : s = worker
  BY Typed
<1>3. s.shard \in MovedShards /\ s.head # NoOperation /\ steps \in [Shards -> StepRows]
  BY <1>1, <1>2, Typed DEF RunOk, MovingPlaces
<1>4. PICK m : m = Answered(worker)
  OBVIOUS
<1>5. PICK r \in StepRows : Answers(s, m, "undone", r)
  BY <1>1, <1>2, <1>3, <1>4, AnsweredIs
<1>6. m \in Runs /\ m.head = s.head /\ m.shard = s.shard
  BY <1>5 DEF Answers, RunOk
<1>7. m.steps[m.shard] \in StepRows
  BY <1>3, <1>6, ShardNumbers DEF Runs
<1>8. steps' \in [Shards -> StepRows]
  <2>1. steps' \in {steps, [steps EXCEPT ![m.shard] = m.steps[m.shard]]}
    BY <1>4 DEF SkipUndo
  <2> QED
    BY <1>3, <1>7, <2>1
<1>9. PICK b : b = [m EXCEPT !.bad = TRUE]
  OBVIOUS
<1>10. b \in Runs /\ b.head = s.head
  BY <1>6, <1>9 DEF Runs
<1>11. worker' = UndoNext(m) \/ worker' = UndoNext(b)
  BY <1>4, <1>9 DEF SkipUndo
<1>12. RunOk(worker')
  BY <1>3, <1>6, <1>10, <1>11, BecomesOk
<1>13. MachinesTyped' /\ OwnTyped'
  BY <1>1, MachinesStay, OwnStays
<1> QED
  BY <1>1, <1>8, <1>12, <1>13, RunTypedAgain

\* The calls to the targets.
LEMMA TargetTypes ==
    ASSUME ProvTyped, CallTarget \/ CallRefused \/ TargetCallFails
    PROVE  ProvTyped'
<1>1. /\ worker.at \in CallPlaces /\ ~HomeCall /\ (Slip \/ Smooth)
      /\ worker' \in {Answered(worker), Errored(worker)}
      /\ UNCHANGED <<operation, steps, wasUp, request, token, plan, overtaken, ownFiles, switched,
                     misdecided, atHome>>
      /\ intruded' = intruded
  BY DEF CallTarget, CallRefused, TargetCallFails, RemoteCall, rowVars, nodeFiles, placing,
         processes
<1>2. \/ Execute(worker.at, worker.shard, token) /\ tardy' = tardy
      \/ UNCHANGED <<copy, met, away>> /\ tardy' = tardy
      \/ /\ UNCHANGED <<copy, met, away>>
         /\ tardy' = tardy \cup {[call |-> worker.at, shard |-> worker.shard, token |-> token]}
  BY DEF CallTarget, CallRefused, TargetCallFails, nodeFiles, processes
<1>3. worker.at # "idle"
  BY <1>1 DEF CallPlaces
<1>4. RunOk(worker') /\ steps \in [Shards -> StepRows]
  BY <1>1, CallsBecomeOk, Typed
<1>5. worker.shard \in MovedShards
  <2>1. worker.at = "start" => worker.shard \in MovedShards
    BY <1>1 DEF HomeCall, OnTarget
  <2>2. worker.at # "start" => worker.at \in MovingPlaces
    BY <1>1 DEF CallPlaces, HomeCall, MovingPlaces, MovePlaces
  <2> QED
    BY <1>3, <2>1, <2>2, AtWork
<1>6. token \in 1 .. MaxAsks + 1 /\ token \in 0 .. MaxAsks + 1
  BY <1>3, AtWork, ShardNumbers
<1>7. MachinesTyped
  BY PartsTyped
<1>8. MachinesTyped'
  <2>1. CASE Execute(worker.at, worker.shard, token) /\ tardy' = tardy
    <3>1. PICK a : a = worker.at
      OBVIOUS
    <3>2. PICK w \in MovedShards : w = worker.shard
      BY <1>5
    <3>3. PICK tok \in 0 .. MaxAsks + 1 : tok = token
      BY <1>6
    <3>4. Execute(a, w, tok)
      BY <2>1, <3>1, <3>2, <3>3
    <3>5. /\ copy' \in [MovedShards -> {"none", "begun", "full", "published", "live"}]
          /\ met' \in [MovedShards -> 0 .. MaxAsks + 1]
          /\ away' \in [MovedShards -> BOOLEAN]
      BY <3>4, ExecuteTypes
    <3> QED
      BY <1>1, <1>7, <2>1, <3>5 DEF MachinesTyped
  <2>2. CASE UNCHANGED <<copy, met, away>> /\ tardy' = tardy
    BY <1>1, <1>7, <2>2 DEF MachinesTyped
  <2>3. CASE /\ UNCHANGED <<copy, met, away>>
             /\ tardy' = tardy \cup {[call |-> worker.at, shard |-> worker.shard, token |-> token]}
    <3>1. tardy' \subseteq [call : CallPlaces, shard : MovedShards, token : 1 .. MaxAsks + 1]
      BY <1>1, <1>5, <1>6, <1>7, <2>3 DEF MachinesTyped
    <3> QED
      BY <1>1, <1>7, <2>3, <3>1 DEF MachinesTyped
  <2> QED
    BY <1>2, <2>1, <2>2, <2>3
<1>9. OwnTyped'
  BY <1>1, OwnStays
<1> QED
  BY <1>1, <1>3, <1>4, <1>8, <1>9, RunTypedAgain

\* The steps that change nothing but the place of the run, the files and the placement.
LocalCalm == UNCHANGED <<operation, steps, wasUp, request, token, plan, overtaken, nodeFiles, away>>

LEMMA LocalTypes ==
    ASSUME ProvTyped, LocalCalm, worker.at # "idle", RunOk(worker'), Slip \/ Smooth, OwnTyped'
    PROVE  ProvTyped'
<1>1. steps' \in [Shards -> StepRows] /\ operation' = operation
  BY Typed DEF LocalCalm
<1>2. MachinesTyped'
  BY MachinesStay DEF LocalCalm
<1> QED
  BY <1>1, <1>2, RunTypedAgain DEF LocalCalm

LEMMA BeginUnsentTypes ==
    ASSUME ProvTyped, BeginUnsent
    PROVE  ProvTyped'
<1>1. /\ LocalCalm /\ worker.at = "begin" /\ Slip
      /\ UNCHANGED <<ownFiles, switched, misdecided, atHome>>
      /\ worker' = [worker EXCEPT !.at = "unsent"]
  BY DEF BeginUnsent, LocalCalm, rowVars, placing, processes
<1>2. PICK s \in Runs : s = worker
  BY Typed
<1>3. s.head # NoOperation /\ s.shard \in MovedShards
  BY <1>1, <1>2, AtWork DEF MovingPlaces, MovePlaces
<1>4. RunOk(worker')
  <2>1. "unsent" \in Places
    BY DEF Places, StepPlaces
  <2> QED
    BY <1>1, <1>2, <1>3, <2>1, RunMoves DEF GoesTo
<1> QED
  BY <1>1, <1>4, LocalTypes, OwnStays

LEMMA LeaseLostTypes ==
    ASSUME ProvTyped, LeaseLost
    PROVE  ProvTyped'
<1>1. /\ LocalCalm /\ worker.at # "idle" /\ Slip
      /\ worker.at \in {"halt", "planned", "write", "complete", "undo", "start"}
      /\ UNCHANGED <<ownFiles, switched, misdecided, atHome>>
  BY DEF LeaseLost, LocalCalm, rowVars, placing, processes
<1>2. PICK s \in Runs : s = worker
  BY Typed
<1>3. s.head # NoOperation
  BY <1>1, <1>2, AtWork
<1>4. PICK u : u = [s EXCEPT !.bad = TRUE, !.shard = 1]
  OBVIOUS
<1>5. RunOk(worker')
  <2>1. CASE worker.at = "undo"
    <3>1. worker.shard \in Shards
      BY <2>1, AtWork, ShardNumbers DEF MovingPlaces
    <3>2. 1 \in 0 .. LastShard
      BY <3>1, ShardNumbers DEF Shards
    <3>3. u \in Runs /\ u.head = s.head
      BY <1>4, <3>2 DEF Runs
    <3>4. worker' = UndoNext(u)
      BY <1>2, <1>4, <2>1 DEF LeaseLost
    <3> QED
      BY <1>3, <3>3, <3>4, BecomesOk
  <2>2. CASE worker.at = "planned"
    <3>1. worker' = Errored(worker)
      BY <2>2 DEF LeaseLost
    <3>2. worker' = Undoing(s)
      BY <1>2, <2>2, <3>1 DEF Errored
    <3> QED
      BY <1>3, <3>2, BecomesOk
  <2>3. CASE worker.at \in {"halt", "write", "complete", "start"}
    <3>1. worker' = Errored(worker) /\ worker.at \in CallPlaces
      BY <2>3 DEF LeaseLost, CallPlaces
    <3> QED
      BY <3>1, CallsBecomeOk
  <2> QED
    BY <1>1, <2>1, <2>2, <2>3
<1> QED
  BY <1>1, <1>5, LocalTypes, OwnStays

\* The local acts: where they lead.
LEMMA LocalActsTypes ==
    ASSUME ProvTyped, StageCluster \/ Revalidate \/ PublishCluster \/ RevertCluster
                      \/ CompleteCluster \/ Resolve \/ ApplyProvision
    PROVE  ProvTyped'
<1>1. /\ LocalCalm /\ (Slip \/ Smooth)
      /\ worker.at \in {"stage", "recheck", "publish", "mark", "revert", "unstage", "resolve", "apply"}
  BY DEF StageCluster, Revalidate, PublishCluster, RevertCluster, CompleteCluster, Resolve,
         ApplyProvision, LocalCalm, rowVars, nodeFiles, placing, processes
<1>2. worker.at # "idle"
  BY <1>1
<1>3. PICK s \in Runs : s = worker
  BY Typed
<1>4. s.head # NoOperation
  BY <1>2, <1>3, AtWork
<1>5. OwnTyped
  BY PartsTyped
<1>6. OwnTyped'
  <2>1. misdecided' = misdecided /\ atHome' = atHome
    BY DEF StageCluster, Revalidate, PublishCluster, RevertCluster, CompleteCluster, Resolve,
           ApplyProvision, processes
  <2>2. switched' \in {switched, TRUE}
    BY DEF StageCluster, Revalidate, PublishCluster, RevertCluster, CompleteCluster, Resolve,
           ApplyProvision, placing
  <2>3. clusterIni' \in {clusterIni, "old", "new"}
    BY DEF StageCluster, Revalidate, PublishCluster, RevertCluster, CompleteCluster, Resolve,
           ApplyProvision, ownFiles
  <2>4. stageDir' \in {stageDir, "none", "original", "staged", "marked"}
    BY DEF StageCluster, Revalidate, PublishCluster, RevertCluster, CompleteCluster, Resolve,
           ApplyProvision, ownFiles
  <2>5. unmarked' = unmarked \/ unmarked' = (clusterIni' = "new" /\ stageDir' = "staged")
    BY DEF StageCluster, Revalidate, PublishCluster, RevertCluster, CompleteCluster, Resolve,
           ApplyProvision, ownFiles
  <2>6. unmarked' \in BOOLEAN
    BY <1>5, <2>5 DEF OwnTyped
  <2> QED
    BY <1>5, <2>1, <2>2, <2>3, <2>4, <2>6 DEF OwnTyped
<1>7. RunOk(worker')
  <2>1. {"mark", "decide", "restore", "applied", "apply", "publish"} \subseteq Places \ {"idle"}
        /\ {"mark", "decide", "restore", "applied", "apply", "publish"}
             \cap (MovingPlaces \cup {"halt", "start", "started"}) = {}
    BY DEF Places, SavePlaces, LocalPlaces, MovingPlaces, MovePlaces
  <2>2. \A g \in Runs : \A a \in {"mark", "decide", "restore", "applied", "apply", "publish"} :
            g.head # NoOperation => RunOk([g EXCEPT !.at = a])
    BY <2>1, RunMoves DEF GoesTo
  <2>3. CASE StageCluster
    <3>1. PICK g : g = [s EXCEPT !.staged = ClusterChanges, !.shard = 0]
      OBVIOUS
    <3>2. g \in Runs /\ g.head = s.head
      <4>1. 0 \in 0 .. LastShard /\ ClusterChanges \in BOOLEAN
        BY ShardNumbers, ProvisionAssumption DEF ProvisionAssumption
      <4> QED
        BY <3>1, <4>1 DEF Runs
    <3>3. worker' = TransferNext(g) \/ worker' = Undoing(s)
      BY <1>3, <2>3, <3>1 DEF StageCluster
    <3> QED
      BY <1>4, <3>2, <3>3, BecomesOk
  <2>4. CASE Revalidate
    <3>1. worker' = Undoing(s) \/ worker' = [s EXCEPT !.at = "publish"]
          \/ worker' = [s EXCEPT !.at = "decide"]
      BY <1>3, <2>4 DEF Revalidate
    <3> QED
      BY <1>4, <2>2, <3>1, BecomesOk
  <2>5. CASE PublishCluster
    <3>1. worker' = Undoing(s) \/ worker' = [s EXCEPT !.at = "mark"]
          \/ worker' = [s EXCEPT !.at = "decide"]
      BY <1>3, <2>5 DEF PublishCluster
    <3> QED
      BY <1>4, <2>2, <3>1, BecomesOk
  <2>6. CASE RevertCluster
    <3>1. PICK g : g = [s EXCEPT !.bad = TRUE]
      OBVIOUS
    <3>2. g \in Runs /\ g.head = s.head
      BY <3>1 DEF Runs
    <3>3. worker' = [s EXCEPT !.at = "restore"] \/ worker' = [g EXCEPT !.at = "restore"]
      BY <1>3, <2>6, <3>1 DEF RevertCluster, Runs
    <3> QED
      BY <1>4, <2>2, <3>2, <3>3
  <2>7. CASE CompleteCluster
    <3>1. worker' = [s EXCEPT !.at = "restore"] \/ worker' = Requiring(s)
      BY <1>3, <2>7 DEF CompleteCluster
    <3> QED
      BY <1>4, <2>2, <3>1, BecomesOk
  <2>8. CASE Resolve
    <3>1. worker' = Requiring(s) \/ worker' = [s EXCEPT !.at = "applied"]
          \/ worker' = [s EXCEPT !.at = "apply"]
      BY <1>3, <2>8 DEF Resolve
    <3> QED
      BY <1>4, <2>2, <3>1, BecomesOk
  <2>9. CASE ApplyProvision
    <3>1. worker' = Requiring(s) \/ worker' = [s EXCEPT !.at = "applied"]
      BY <1>3, <2>9 DEF ApplyProvision
    <3> QED
      BY <1>4, <2>2, <3>1, BecomesOk
  <2> QED
    BY <2>3, <2>4, <2>5, <2>6, <2>7, <2>8, <2>9
<1> QED
  BY <1>1, <1>2, <1>6, <1>7, LocalTypes

\* The counters stay within their bounds.
LEMMA Counting ==
    ASSUME ProvTyped
    PROVE  /\ count \in [slips : 0 .. MaxSlips, falls : 0 .. MaxFalls, asks : 0 .. MaxAsks,
                         edits : 0 .. MaxPlanEdits]
           /\ MaxFalls \in Nat /\ MaxAsks \in Nat /\ MaxPlanEdits \in Nat
           /\ token \in Nat /\ count.asks \in Nat /\ count.asks <= MaxAsks
BY ProvisionAssumption DEF ProvTyped, ProvTypeOK, ProvisionAssumption

LEMMA ProvisionTypes ==
    ASSUME ProvTyped, Provision
    PROVE  ProvTyped'
<1>1. /\ operation = NoOperation
      /\ operation' = [phase |-> "planned", status |-> "running"]
      /\ steps' = [w \in Shards |->
                    [phase |-> IF w \in MovedShards THEN "not_started" ELSE "existing",
                     back |-> FALSE]]
      /\ wasUp' = atHome /\ token' = 1
      /\ UNCHANGED <<request, nodeFiles, ownFiles, placing, processes, misdecided, overtaken, count>>
  BY DEF Provision
<1>2. PICK q : q = steps'
  OBVIOUS
<1>3. PICK h : h = operation'
  OBVIOUS
<1>4. q \in [Shards -> StepRows] /\ h \in Headers /\ h # NoOperation
  BY <1>1, <1>2, <1>3 DEF StepRows, StepPhases, Headers, OperationPhases, NoOperation
<1>5. worker' = [Nobody EXCEPT !.at = "stopping", !.first = TRUE, !.head = h, !.steps = q]
  BY <1>2, <1>3 DEF Provision
<1>6. "stopping" \in SavePlaces /\ "stopping" \notin MovingPlaces
  BY DEF SavePlaces, MovingPlaces, MovePlaces
<1>7. worker' \in Runs /\ worker'.at = "stopping" /\ worker'.head = h
  BY <1>4, <1>5, <1>6, Typed DEF Runs
<1>8. RunOk(worker')
  BY <1>4, <1>6, <1>7 DEF RunOk
<1>9. request = NoAsk
  BY <1>1 DEF ProvTyped, RunTyped
<1>10. MachinesTyped' /\ OwnTyped'
  BY <1>1, MachinesStay, OwnStays DEF placing, processes
<1>11. ProvTypeOK'
  <2>1. token' \in 0 .. MaxAsks + 1
    BY <1>1, Counting
  <2>2. atHome \in [Shards -> BOOLEAN]
    BY Typed
  <2>3. /\ operation' \in Headers \cup {NoOperation} /\ steps' \in [Shards -> StepRows]
        /\ wasUp' \in [Shards -> BOOLEAN]
    BY <1>1, <1>2, <1>3, <1>4, <2>2
  <2>4. /\ request' \in [head : Headers \cup {NoOperation}, steps : [Shards -> StepRows]]
        /\ plan' \in {"as_read", "resaved", "changed"} /\ overtaken' \in BOOLEAN
        /\ count' \in [slips : 0 .. MaxSlips, falls : 0 .. MaxFalls, asks : 0 .. MaxAsks,
                       edits : 0 .. MaxPlanEdits]
    BY <1>1 DEF ProvTyped, ProvTypeOK, placing
  <2> QED
    BY <1>7, <1>10, <2>1, <2>3, <2>4 DEF ProvTypeOK, MachinesTyped, OwnTyped, Runs
<1>12. RunTyped'
  BY <1>1, <1>3, <1>4, <1>8, <1>9, Counting DEF RunTyped
<1> QED
  BY <1>11, <1>12 DEF ProvTyped

\* What the steps that leave the run's row and the machines alone need.
StillCalm == UNCHANGED <<operation, steps, wasUp, nodeFiles, ownFiles, switched, processes, misdecided>>

LEMMA StillTypes ==
    ASSUME ProvTyped, StillCalm, RunOk(worker'),
           request' \in [head : Headers \cup {NoOperation}, steps : [Shards -> StepRows]],
           token' \in 0 .. MaxAsks + 1, overtaken' \in BOOLEAN,
           plan' \in {"as_read", "resaved", "changed"},
           count' \in [slips : 0 .. MaxSlips, falls : 0 .. MaxFalls, asks : 0 .. MaxAsks,
                       edits : 0 .. MaxPlanEdits]
    PROVE  ProvTypeOK'
<1>1. /\ operation \in Headers \cup {NoOperation} /\ steps \in [Shards -> StepRows]
      /\ wasUp \in [Shards -> BOOLEAN]
  BY DEF ProvTyped, ProvTypeOK
<1>2. MachinesTyped' /\ OwnTyped'
  BY MachinesStay, OwnStays DEF StillCalm, processes
<1>3. worker' \in Runs
  BY DEF RunOk
<1> QED
  BY <1>1, <1>2, <1>3 DEF StillCalm, ProvTypeOK, MachinesTyped, OwnTyped, Runs

LEMMA AsksTypes ==
    ASSUME ProvTyped, ReadOperation \/ ResavePlan
    PROVE  ProvTyped'
<1>1. /\ StillCalm /\ operation # NoOperation
      /\ UNCHANGED <<worker, token, overtaken>>
  BY DEF ReadOperation, ResavePlan, StillCalm, rowVars, placing
<1>2. /\ RunOk(worker') /\ token' \in 0 .. MaxAsks + 1 /\ overtaken' \in BOOLEAN
      /\ worker' # Nobody => token' >= 1
  BY <1>1 DEF ProvTyped, ProvTypeOK, RunTyped
<1>3. CASE ReadOperation
  <2>1. /\ request = NoAsk /\ ~Ended(operation) /\ plan' = plan
        /\ request' = [head |-> operation, steps |-> steps]
        /\ count.asks < MaxAsks /\ count' = [count EXCEPT !.asks = @ + 1]
    BY <1>3 DEF ReadOperation, placing
  <2>2. operation \in Headers /\ steps \in [Shards -> StepRows]
    BY <1>1 DEF ProvTyped, ProvTypeOK
  <2>3. /\ count' \in [slips : 0 .. MaxSlips, falls : 0 .. MaxFalls, asks : 0 .. MaxAsks,
                       edits : 0 .. MaxPlanEdits]
        /\ count'.asks = count.asks + 1
    BY <2>1, Counting
  <2>4. /\ request' \in [head : Headers \cup {NoOperation}, steps : [Shards -> StepRows]]
        /\ request'.head = operation
    BY <2>1, <2>2
  <2>5. plan' \in {"as_read", "resaved", "changed"}
    BY <2>1 DEF ProvTyped, ProvTypeOK
  <2>6. ProvTypeOK'
    BY <1>1, <1>2, <2>3, <2>4, <2>5, StillTypes
  <2>7. token + 0 <= count.asks + 1
    BY <2>1 DEF ProvTyped, RunTyped
  <2>8. token' + (IF request' # NoAsk THEN 1 ELSE 0) <= count'.asks + 1
    BY <1>1, <2>3, <2>7, Counting
  <2>9. operation' # NoOperation /\ ~Ended(request'.head) /\ request'.head # NoOperation
    BY <1>1, <2>1, <2>4 DEF StillCalm
  <2>10. RunTyped'
    BY <1>2, <2>8, <2>9 DEF RunTyped
  <2> QED
    BY <2>6, <2>10 DEF ProvTyped
<1>4. CASE ResavePlan
  <2>1. /\ request' = request /\ plan' \in {"resaved", "changed"}
        /\ count.edits < MaxPlanEdits /\ count' = [count EXCEPT !.edits = @ + 1]
    BY <1>4 DEF ResavePlan
  <2>2. /\ count' \in [slips : 0 .. MaxSlips, falls : 0 .. MaxFalls, asks : 0 .. MaxAsks,
                       edits : 0 .. MaxPlanEdits]
        /\ count'.asks = count.asks
    <3>1. count.edits + 1 \in 0 .. MaxPlanEdits
      BY <2>1, Counting
    <3> QED
      BY <2>1, <3>1, Counting
  <2>3. request' \in [head : Headers \cup {NoOperation}, steps : [Shards -> StepRows]]
    BY <2>1 DEF ProvTyped, ProvTypeOK
  <2>4. ProvTypeOK'
    BY <1>1, <1>2, <2>1, <2>2, <2>3, StillTypes
  <2>5. RunTyped'
    BY <1>1, <1>2, <2>1, <2>2 DEF ProvTyped, RunTyped, StillCalm
  <2> QED
    BY <2>4, <2>5 DEF ProvTyped
<1> QED
  BY <1>3, <1>4

LEMMA ControllerFallsTypes ==
    ASSUME ProvTyped, ControllerFalls
    PROVE  ProvTyped'
<1>1. /\ StillCalm /\ worker' = Nobody /\ request' = NoAsk
      /\ UNCHANGED <<token, plan, overtaken>>
      /\ count.falls < MaxFalls /\ count' = [count EXCEPT !.falls = @ + 1]
  BY DEF ControllerFalls, Leave, StillCalm, rowVars, placing
<1>2. RunOk(worker')
  BY <1>1, Typed
<1>3. /\ count' \in [slips : 0 .. MaxSlips, falls : 0 .. MaxFalls, asks : 0 .. MaxAsks,
                     edits : 0 .. MaxPlanEdits]
      /\ count'.asks = count.asks
  <2>1. count.falls + 1 \in 0 .. MaxFalls
    BY <1>1, Counting
  <2> QED
    BY <1>1, <2>1, Counting
<1>4. request' \in [head : Headers \cup {NoOperation}, steps : [Shards -> StepRows]]
  <2>1. Nobody.steps \in [Shards -> StepRows]
    BY Typed DEF Runs
  <2> QED
    BY <1>1, <2>1 DEF NoAsk
<1>5. /\ token' \in 0 .. MaxAsks + 1 /\ overtaken' \in BOOLEAN
      /\ plan' \in {"as_read", "resaved", "changed"}
  BY <1>1 DEF ProvTyped, ProvTypeOK
<1>6. ProvTypeOK'
  BY <1>1, <1>2, <1>3, <1>4, <1>5, StillTypes
<1>7. token <= count.asks + 1 /\ (operation = NoOperation => token = 0)
  BY Counting DEF ProvTyped, RunTyped
<1>8. RunTyped'
  BY <1>1, <1>2, <1>3, <1>7, Counting DEF RunTyped, StillCalm
<1> QED
  BY <1>6, <1>8 DEF ProvTyped

LEMMA RecoverOperationTypes ==
    ASSUME ProvTyped, RecoverOperation
    PROVE  ProvTyped'
<1>1. /\ StillCalm /\ request # NoAsk /\ worker = Nobody /\ token' = token + 1 /\ request' = NoAsk
      /\ UNCHANGED <<plan, count>>
      /\ overtaken' = (overtaken \/ request # [head |-> operation, steps |-> steps])
  BY DEF RecoverOperation, StillCalm, rowVars, placing
<1>2. /\ operation # NoOperation /\ request.head # NoOperation
      /\ token + 1 <= count.asks + 1
      /\ request \in [head : Headers \cup {NoOperation}, steps : [Shards -> StepRows]]
  BY <1>1 DEF ProvTyped, ProvTypeOK, RunTyped
<1>3. PICK h : h = request.head
  OBVIOUS
<1>4. PICK q : q = request.steps
  OBVIOUS
<1>5. h \in Headers /\ h # NoOperation /\ q \in [Shards -> StepRows]
  BY <1>2, <1>3, <1>4
<1>6. PICK m : m = [Nobody EXCEPT !.head = h, !.steps = q]
  OBVIOUS
<1>7. m \in Runs /\ m.head = h
  BY <1>5, <1>6, Typed DEF Runs
<1>8. PICK g : g = [m EXCEPT !.forward = TRUE]
  OBVIOUS
<1>9. g \in Runs /\ g.head = h
  BY <1>7, <1>8 DEF Runs
<1>10. worker' = [g EXCEPT !.at = "resolve"] \/ worker' = Undoing(m)
  <2>1. worker' = [m EXCEPT !.at = "resolve", !.forward = TRUE] \/ worker' = Undoing(m)
    BY <1>3, <1>4, <1>6 DEF RecoverOperation
  <2> QED
    BY <1>7, <1>8, <2>1 DEF Runs
<1>11. RunOk(worker')
  <2>1. "resolve" \in Places /\ "resolve" \notin MovingPlaces
    BY DEF Places, LocalPlaces, MovingPlaces, MovePlaces
  <2> QED
    BY <1>5, <1>7, <1>9, <1>10, <2>1, BecomesOk, RunMoves DEF GoesTo
<1>12. request' \in [head : Headers \cup {NoOperation}, steps : [Shards -> StepRows]]
  <2>1. Nobody.steps \in [Shards -> StepRows]
    BY Typed DEF Runs
  <2> QED
    BY <1>1, <2>1 DEF NoAsk
<1>13. overtaken' \in BOOLEAN
  BY <1>1 DEF ProvTyped, ProvTypeOK
<1>14. token' \in 0 .. MaxAsks + 1
  BY <1>1, <1>2, Counting
<1>15. /\ plan' \in {"as_read", "resaved", "changed"}
       /\ count' \in [slips : 0 .. MaxSlips, falls : 0 .. MaxFalls, asks : 0 .. MaxAsks,
                      edits : 0 .. MaxPlanEdits]
  BY <1>1 DEF ProvTyped, ProvTypeOK
<1>16. ProvTypeOK'
  BY <1>1, <1>11, <1>12, <1>13, <1>14, <1>15, StillTypes
<1>17. RunTyped'
  BY <1>1, <1>2, <1>11, Counting DEF RunTyped, StillCalm
<1> QED
  BY <1>16, <1>17 DEF ProvTyped

LEMMA TardyCallTypes ==
    ASSUME ProvTyped, NEW c \in tardy, TardyCall(c)
    PROVE  ProvTyped'
<1>1. /\ tardy' = tardy \ {c}
      /\ \/ /\ Execute(c.call, c.shard, c.token)
            /\ intruded' \in {intruded, intruded \cup {c.shard}}
         \/ UNCHANGED <<copy, met, away, intruded>>
      /\ UNCHANGED <<operation, steps, wasUp, worker, request, token, ownFiles, placing, atHome,
                     misdecided, overtaken, count>>
  BY DEF TardyCall, rowVars
<1>2. MachinesTyped
  BY PartsTyped
<1>3. c.shard \in MovedShards /\ c.token \in 1 .. MaxAsks + 1
  BY <1>2 DEF MachinesTyped
<1>4. MachinesTyped'
  <2>1. CASE /\ Execute(c.call, c.shard, c.token)
             /\ intruded' \in {intruded, intruded \cup {c.shard}}
    <3>1. PICK a : a = c.call
      OBVIOUS
    <3>2. PICK w \in MovedShards : w = c.shard
      BY <1>3
    <3>3. PICK tok \in 0 .. MaxAsks + 1 : tok = c.token
      BY <1>3, Counting
    <3>4. Execute(a, w, tok)
      BY <2>1, <3>1, <3>2, <3>3
    <3>5. /\ copy' \in [MovedShards -> {"none", "begun", "full", "published", "live"}]
          /\ met' \in [MovedShards -> 0 .. MaxAsks + 1]
          /\ away' \in [MovedShards -> BOOLEAN]
      BY <3>4, ExecuteTypes
    <3> QED
      BY <1>1, <1>2, <1>3, <2>1, <3>5 DEF MachinesTyped
  <2>2. CASE UNCHANGED <<copy, met, away, intruded>>
    BY <1>1, <1>2, <2>2 DEF MachinesTyped
  <2> QED
    BY <1>1, <2>1, <2>2
<1>5. OwnTyped'
  BY <1>1, OwnStays DEF placing
<1>6. ProvTypeOK'
  BY <1>1, <1>4, <1>5 DEF ProvTyped, ProvTypeOK, MachinesTyped, OwnTyped, placing
<1>7. RunTyped'
  BY <1>1 DEF ProvTyped, RunTyped
<1> QED
  BY <1>6, <1>7 DEF ProvTyped

LEMMA TypedNext ==
    ASSUME ProvTyped, [ProvNext]_provVars
    PROVE  ProvTyped'
<1>1. CASE RunStep
  BY <1>1, SavePhaseTypes, SavePhaseFailsTypes, SaveStepTypes, SaveStepFailsTypes, CallHomeTypes,
     SkipUndoTypes, TargetTypes, BeginUnsentTypes, LeaseLostTypes, LocalActsTypes DEF RunStep
<1>2. CASE UNCHANGED provVars
  BY <1>2 DEF provVars, rowVars, nodeFiles, ownFiles, placing, processes, ProvTyped, ProvTypeOK,
              RunTyped
<1> QED
  BY <1>1, <1>2, ProvisionTypes, AsksTypes, RecoverOperationTypes, ControllerFallsTypes,
     TardyCallTypes DEF ProvNext

-----------------------------------------------------------------------------
(* The theorems *)

\* The invariant holds before the operation is made: nothing is moved, nobody is at work.
LEMMA ProvInitial ==
    ASSUME ProvInit
    PROVE  ProvInv
<1>1. Nobody \in Runs
  BY ShardNumbers DEF Nobody, Runs, LocalPlaces, StepRows, StepPhases
<1>2. "idle" \notin MovingPlaces \cup {"halt", "start", "started"}
  BY DEF MovingPlaces, MovePlaces
<1>3. RunOk(worker) /\ worker = Nobody /\ worker.at = "idle" /\ ~worker.forward
  BY <1>1, <1>2 DEF ProvInit, RunOk, Nobody
<1>4. ProvTyped
  <2>1. /\ MaxSlips \in Nat /\ MaxFalls \in Nat /\ MaxAsks \in Nat /\ MaxPlanEdits \in Nat
    BY ProvisionAssumption DEF ProvisionAssumption
  <2>2. Nobody.steps \in [Shards -> StepRows]
    BY <1>1 DEF Runs
  <2>3. ProvTypeOK
    <3>1. /\ operation \in Headers \cup {NoOperation} /\ steps \in [Shards -> StepRows]
          /\ wasUp \in [Shards -> BOOLEAN] /\ worker \in Runs
      BY <1>1, <2>2 DEF ProvInit
    <3>2. request \in [head : Headers \cup {NoOperation}, steps : [Shards -> StepRows]]
      BY <2>2 DEF ProvInit, NoAsk
    <3>3. copy \in [MovedShards -> {"none", "begun", "full", "published", "live"}]
      BY DEF ProvInit
    <3>5. 0 \in 0 .. MaxAsks + 1
      BY <2>1
    <3>6. token \in 0 .. MaxAsks + 1 /\ met \in [MovedShards -> 0 .. MaxAsks + 1]
      BY <3>5 DEF ProvInit
    <3>7. atHome \in [Shards -> BOOLEAN] /\ away \in [MovedShards -> BOOLEAN]
      BY DEF ProvInit
    <3>8. /\ tardy \subseteq [call : CallPlaces, shard : MovedShards, token : 1 .. MaxAsks + 1]
          /\ intruded \subseteq MovedShards
          /\ clusterIni \in {"old", "new"}
          /\ stageDir \in {"none", "original", "staged", "marked"}
          /\ {switched, unmarked, misdecided, overtaken} \subseteq BOOLEAN
          /\ plan \in {"as_read", "resaved", "changed"}
      BY DEF ProvInit
    <3>4. count \in [slips : 0 .. MaxSlips, falls : 0 .. MaxFalls, asks : 0 .. MaxAsks,
                     edits : 0 .. MaxPlanEdits]
      BY <2>1 DEF ProvInit
    <3> QED
      BY <3>1, <3>2, <3>3, <3>4, <3>6, <3>7, <3>8 DEF ProvTypeOK, Runs
  <2>4. RunTyped
    BY <1>3 DEF RunTyped, ProvInit
  <2> QED
    BY <2>3, <2>4 DEF ProvTyped
<1>5. ~Onward
  BY DEF ProvInit, Onward, Decided, NoOperation
<1>6. Ground
  <2>1. RowTrue
    BY DEF ProvInit, RowTrue, NoOperation
  <2>2. UndecidedTrue
    BY DEF ProvInit, UndecidedTrue
  <2>3. OnwardTrue /\ EndTrue
    BY <1>5 DEF ProvInit, OnwardTrue, EndTrue, NoOperation
  <2> QED
    BY <2>1, <2>2, <2>3 DEF Ground
<1>7. Going
  BY <1>3, PlaceFacts DEF Going, Headed, OutTrue, UndoTrue, RestoreTrue, OnTrue
<1> QED
  BY <1>4, <1>6, <1>7 DEF ProvInv

\* What the exclusions exclude stays excluded.
LEMMA SoundBefore ==
    ASSUME ProvTyped, [ProvNext]_provVars, Sound'
    PROVE  Sound
<1>1. /\ misdecided \in BOOLEAN /\ overtaken \in BOOLEAN
  BY DEF ProvTyped, ProvTypeOK
<1>2. misdecided => misdecided'
  <2>1. CASE SavePhaseFails
    BY <2>1 DEF SavePhaseFails
  <2>2. CASE RunStep /\ ~SavePhaseFails
    BY <2>2 DEF RunStep, SavePhase, SaveStep, SaveStepFails, CallHome, SkipUndo, CallTarget,
         CallRefused, TargetCallFails, BeginUnsent, LeaseLost, StageCluster, Revalidate,
         PublishCluster, RevertCluster, CompleteCluster, Resolve, ApplyProvision
  <2>3. CASE ~RunStep
    BY <2>3 DEF ProvNext, Provision, ReadOperation, RecoverOperation, ControllerFalls, ResavePlan,
         TardyCall, provVars
  <2> QED
    BY <2>1, <2>2, <2>3
<1>3. overtaken => overtaken'
  <2>1. CASE RecoverOperation
    BY <2>1 DEF RecoverOperation
  <2>2. CASE RunStep
    BY <2>2 DEF RunStep, SavePhase, SavePhaseFails, SaveStep, SaveStepFails, CallHome, SkipUndo,
         CallTarget, CallRefused, TargetCallFails, BeginUnsent, LeaseLost, StageCluster,
         Revalidate, PublishCluster, RevertCluster, CompleteCluster, Resolve, ApplyProvision
  <2>3. CASE ~RunStep /\ ~RecoverOperation
    BY <2>3 DEF ProvNext, Provision, ReadOperation, ControllerFalls, ResavePlan, TardyCall, provVars
  <2> QED
    BY <2>1, <2>2, <2>3
<1> QED
  BY <1>1, <1>2, <1>3 DEF Sound

LEMMA ProvInvKept ==
    ASSUME ProvInv, [ProvNext]_provVars
    PROVE  ProvInv'
<1>1. ProvTyped
  BY DEF ProvInv
<1>2. ProvTyped'
  BY <1>1, TypedNext
<1>3. ASSUME Sound' PROVE Ground' /\ Going'
  <2>1. Ground /\ Going
    BY <1>1, <1>3, SoundBefore DEF ProvInv
  <2>2. CASE RunStep
    BY <1>1, <1>3, <2>1, <2>2, SavePhaseKeeps, SavePhaseFailsKeeps, SaveStepKeeps,
       SaveStepFailsKeeps, CallHomeKeeps, SkipUndoKeeps, CallTargetKeeps, CallRefusedKeeps,
       TargetCallFailsKeeps, BeginUnsentKeeps, LeaseLostKeeps, StageClusterKeeps, RevalidateKeeps,
       PublishClusterKeeps, RevertClusterKeeps, CompleteClusterKeeps, ResolveKeeps,
       ApplyProvisionKeeps DEF RunStep
  <2>3. CASE ~RunStep
    BY <1>1, <1>3, <2>1, <2>3, ProvisionKeeps, ReadOperationKeeps, RecoverOperationKeeps,
       ControllerFallsKeeps, TardyCallKeeps DEF ProvNext
  <2> QED
    BY <2>2, <2>3
<1> QED
  BY <1>2, <1>3 DEF ProvInv

\* The invariant of a provisioning: what the row and the steps' rows say is true of the
\* copies, the processes and the files, and so is what a run of the coordinator supposes
\* at each of its places, through failures, late calls, deaths and recoveries.
THEOREM ProvInvariant == ProvSpec => []ProvInv
<1>1. ProvInit => ProvInv
  BY ProvInitial
<1>2. ProvInv /\ [ProvNext]_provVars => ProvInv'
  BY ProvInvKept
<1> QED
  BY <1>1, <1>2, PTL DEF ProvSpec

\* Every variable of a provisioning keeps its type.
THEOREM ProvTypesHold == ProvSpec => []ProvTypeOK
<1>1. ProvInv => ProvTypeOK
  BY DEF ProvInv, ProvTyped
<1> QED
  BY <1>1, ProvInvariant, PTL

\* A provisioning never leaves the placement with a machine that has not the world, and
\* never has a world run in two places (ApplyProvision, rollbackTargets, startWorlds).
THEOREM ProvisionIsServed == ProvSpec => []ProvisionServed
<1>1. ProvInv => ProvisionServed
  <2> SUFFICES ASSUME ProvInv, Sound PROVE
         \A w \in MovedShards : /\ switched => copy[w] \in {"published", "live"}
                                /\ away[w] => switched /\ ~atHome[w]
    BY DEF ProvisionServed, Sound
  <2>1. Ground
    BY DEF ProvInv
  <2>2. CASE Onward
    BY <2>1, <2>2 DEF Ground, OnwardTrue
  <2>3. CASE ~Onward
    BY <2>1, <2>3 DEF Ground, UndecidedTrue, RowTrue
  <2> QED
    BY <2>2, <2>3
<1> QED
  BY <1>1, ProvInvariant, PTL

\* The verdict that an operation's row ends with is true, however many recoveries it
\* took (completeAfterDecision, failBeforeDecision, RecoverOperation).
THEOREM ProvisionIsSettled == ProvSpec => []ProvisionSettled
<1>1. ProvInv => ProvisionSettled
  <2> SUFFICES ASSUME ProvInv, Sound PROVE ProvisionSettled
    BY DEF ProvisionSettled, Sound
  <2>1. Ground
    BY DEF ProvInv
  <2>2. operation.status = "succeeded" =>
              /\ switched
              /\ \A w \in MovedShards : copy[w] = "live" /\ (wasUp[w] => away[w])
              /\ \A w \in Shards \ MovedShards : wasUp[w] => atHome[w]
              /\ ClusterChanges => clusterIni = "new"
    <3> HAVE operation.status = "succeeded"
    <3>1. Onward
      BY <2>1 DEF Ground, RowTrue, Onward
    <3>2. switched /\ AllLive
          /\ \A w \in Shards : wasUp[w] => IF w \in MovedShards THEN away[w] ELSE atHome[w]
      BY <2>1 DEF Ground, EndTrue
    <3> QED
      BY <2>1, <3>1, <3>2, ShardNumbers DEF Ground, OnwardTrue, AllLive
  <2>3. operation.status = "rolled_back" =>
              /\ ~switched
              /\ \A w \in MovedShards : \/ copy[w] = "none"
                                        \/ copy[w] = "begun" /\ w \in intruded
              /\ \A w \in Shards : wasUp[w] => atHome[w]
              /\ unmarked \/ clusterIni = "old"
    <3> HAVE operation.status = "rolled_back"
    <3>1. operation.phase = "rolled_back" /\ ~Onward
      BY <2>1 DEF Ground, RowTrue, Onward, Decided
    <3> QED
      BY <2>1, <3>1 DEF Ground, EndTrue, RowTrue, Cleared
  <2> QED
    BY <2>2, <2>3 DEF ProvisionSettled
<1> QED
  BY <1>1, ProvInvariant, PTL
=============================================================================
