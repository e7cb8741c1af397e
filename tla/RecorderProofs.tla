--------------------------- MODULE RecorderProofs ---------------------------
(***************************************************************************)
(* Proofs about Recorder: the sharding and the refreshes, for any tokens,  *)
(* hash values and cap.                                                    *)
(***************************************************************************)
EXTENDS Recorder, FiniteSetTheorems, TLAPS

\* Every asset is on the shard that its hash names.
Placed ==
  \A s \in ShardIds : \A t \in assets[s] : nShards > 0 /\ hash[t] % nShards = s

\* Where the assets are between the calls of a refresh.
RefreshInv ==
  Running =>
    /\ loop \in {"waiting", "selecting"} => Recorded = current
    /\ loop = "adding" =>
         /\ Recorded = (current \cup target) \ toAdd
         /\ toAdd \subseteq target \ current
         /\ toRemove = current \ target
    /\ loop = "removing" =>
         /\ Recorded = target \cup toRemove
         /\ toRemove \cap target = {}

MInv == MTypeOK /\ Placed /\ RefreshInv
-----------------------------------------------------------------------------
\* Division by a positive number keeps the order.
LEMMA DivMonotone ==
  ASSUME NEW a \in Nat, NEW b \in Nat, NEW d \in Nat \ {0}, a =< b
  PROVE  a \div d \in Nat /\ a \div d =< b \div d
<1> DEFINE p == a \div d
           q == b \div d
<1>1. p \in Int /\ d * p =< a /\ a < d * p + d
  BY SMT
<1>2. q \in Int /\ d * q =< b /\ b < d * q + d
  BY SMT
<1> HIDE DEF p, q
<1>3. p >= 0
  <2> SUFFICES ASSUME p =< -1 PROVE FALSE
    BY <1>1
  <2>1. d * p =< d * (-1)
    BY <1>1
  <2> QED BY <2>1, <1>1
<1>4. p =< q
  <2> SUFFICES ASSUME q + 1 =< p PROVE FALSE
    BY <1>1, <1>2
  <2>1. d * (q + 1) =< d * p
    BY <1>1, <1>2
  <2>2. d * (q + 1) = d * q + d
    BY <1>2
  <2> QED BY <2>1, <2>2, <1>1, <1>2
<1> QED BY <1>1, <1>3, <1>4 DEF p, q

\* A selection takes at least one shard, and no more than there are.
LEMMA ShardCountBound ==
  ASSUME NEW S \in SUBSET Tokens
  PROVE  ShardCount(S) \in 1 .. ShardCount(Tokens)
<1> DEFINE quotient(T) == (Cardinality(T) + MaxAssets - 1) \div MaxAssets
<1>1. /\ Cardinality(S) \in Nat /\ Cardinality(Tokens) \in Nat
      /\ Cardinality(S) =< Cardinality(Tokens)
  BY RecorderAssumption, FS_Subset, FS_CardinalityType
<1>2. quotient(S) \in Nat /\ quotient(S) =< quotient(Tokens)
  BY <1>1, RecorderAssumption, DivMonotone
<1>3. quotient(Tokens) \in Nat
  BY <1>1, RecorderAssumption, DivMonotone
<1>4. \A T : ShardCount(T) = IF quotient(T) = 0 THEN 1 ELSE quotient(T)
  BY DEF ShardCount
<1> HIDE DEF quotient
<1> QED BY <1>2, <1>3, <1>4

\* A remainder is the id of a shard.
LEMMA ShardForBound ==
  ASSUME hash \in [Tokens -> Hashes], NEW t \in Tokens, NEW n \in 1 .. ShardCount(Tokens)
  PROVE  ShardFor(t, n) \in 0 .. n - 1 /\ ShardFor(t, n) \in ShardIds
<1>1. ShardCount(Tokens) \in Nat
  BY ShardCountBound
<1>2. hash[t] \in Nat
  BY RecorderAssumption
<1>3. hash[t] % n \in 0 .. n - 1
  BY <1>1, <1>2, SMT
<1> QED BY <1>1, <1>3 DEF ShardFor, ShardIds
-----------------------------------------------------------------------------
\* The initial states satisfy the invariant.
LEMMA MInvInit == MInit => MInv
<1> SUFFICES ASSUME MInit PROVE MInv
  OBVIOUS
<1>1. nShards \in 0 .. ShardCount(Tokens)
  BY ShardCountBound DEF MInit
<1>2. MTypeOK
  <2>1. assets \in [ShardIds -> SUBSET Tokens] /\ \A s \in ShardIds : assets[s] = {}
    BY DEF MInit
  <2> QED BY <1>1, <2>1 DEF MInit, MTypeOK
<1>3. Placed /\ RefreshInv
  BY DEF MInit, Placed, RefreshInv, Running
<1> QED BY <1>2, <1>3 DEF MInv

\* The start: the shards hold what was selected, each asset on its own.
LEMMA StartUpKeeps == MInv /\ StartUp => MInv'
<1> SUFFICES ASSUME MInv, StartUp PROVE MInv'
  OBVIOUS
<1> USE DEF MInv, StartUp
<1>1. PICK selected \in SUBSET Tokens :
        /\ nShards' = ShardCount(selected)
        /\ assets' = [s \in ShardIds |->
                        {t \in selected : ShardFor(t, ShardCount(selected)) = s}]
        /\ current' = selected
  OBVIOUS
<1>2. ShardCount(selected) \in 1 .. ShardCount(Tokens)
  BY ShardCountBound
<1>3. ShardCount(Tokens) \in Nat
  BY ShardCountBound
<1>4. hash \in [Tokens -> Hashes] /\ hash' = hash
  BY DEF MTypeOK
<1>5. \A t \in selected : /\ ShardFor(t, ShardCount(selected)) \in ShardIds
                          /\ ShardFor(t, ShardCount(selected)) < ShardCount(selected)
  <2> TAKE t \in selected
  <2>1. ShardFor(t, ShardCount(selected)) \in 0 .. ShardCount(selected) - 1
    BY <1>2, <1>4, ShardForBound
  <2>2. ShardFor(t, ShardCount(selected)) \in ShardIds
    BY <1>2, <1>4, ShardForBound
  <2> QED BY <2>1, <2>2, <1>2, <1>3
<1>6. MTypeOK'
  <2>1. \A s \in ShardIds : s >= nShards' => assets'[s] = {}
    BY <1>1, <1>2, <1>3, <1>5 DEF ShardIds
  <2>2. nShards' \in 0 .. ShardCount(Tokens) /\ nShards' > 0
    BY <1>1, <1>2, <1>3
  <2> QED BY <1>1, <1>4, <2>1, <2>2 DEF MTypeOK
<1>7. Placed'
  <2> SUFFICES ASSUME NEW s \in ShardIds, NEW t \in assets'[s]
               PROVE  nShards' > 0 /\ hash'[t] % nShards' = s
    BY DEF Placed
  <2> QED BY <1>1, <1>2, <1>3, <1>4 DEF ShardFor
<1>8. RefreshInv'
  <2>1. Recorded' = selected
    BY <1>1, <1>5 DEF Recorded
  <2> QED BY <1>1, <2>1 DEF RefreshInv
<1> QED BY <1>6, <1>7, <1>8

\* A call of add() gives one shard its part of what is to be added.
LEMMA AddToRecords ==
  ASSUME MInv, NEW s \in ShardIds, AddTo(s)
  PROVE  Recorded' = Recorded \cup OfShard(toAdd, s)
<1>1. assets \in [ShardIds -> SUBSET Tokens]
  BY DEF MInv, MTypeOK
<1>2. assets' = [assets EXCEPT ![s] = assets[s] \cup OfShard(toAdd, s)]
  BY DEF AddTo
<1> QED BY <1>1, <1>2 DEF Recorded

\* A call of remove() takes its assets from everywhere: no other shard has them.
LEMMA RemoveFromForgets ==
  ASSUME MInv, NEW s \in ShardIds, RemoveFrom(s)
  PROVE  Recorded' = Recorded \ OfShard(toRemove, s)
<1>1. assets \in [ShardIds -> SUBSET Tokens]
  BY DEF MInv, MTypeOK
<1>2. assets' = [assets EXCEPT ![s] = assets[s] \ OfShard(toRemove, s)]
  BY DEF RemoveFrom
<1>3. \A r \in ShardIds \ {s} : assets[r] \cap OfShard(toRemove, s) = {}
  BY DEF MInv, Placed, OfShard, ShardFor
<1> QED BY <1>1, <1>2, <1>3 DEF Recorded

\* Each call of add() preserves the invariant.
LEMMA AddToKeeps ==
  ASSUME MInv, NEW s \in ShardIds, AddTo(s)
  PROVE  MInv'
<1> USE DEF AddTo
<1>1. toAdd \subseteq Tokens /\ assets \in [ShardIds -> SUBSET Tokens]
  BY DEF MInv, MTypeOK
<1>2. OfShard(toAdd, s) \subseteq toAdd
  BY DEF OfShard
<1>3. nShards \in 1 .. ShardCount(Tokens) /\ nShards \in Nat /\ ShardCount(Tokens) \in Nat
  BY ShardCountBound DEF MInv, MTypeOK, Running
<1>4. s \in Nat /\ s < nShards
  <2>1. PICK t \in OfShard(toAdd, s) : TRUE
    OBVIOUS
  <2>2. t \in Tokens /\ ShardFor(t, nShards) = s
    BY <2>1, <1>1 DEF OfShard
  <2>3. ShardFor(t, nShards) \in 0 .. nShards - 1
    BY <1>3, <2>2, ShardForBound DEF MInv, MTypeOK
  <2> QED BY <1>3, <2>2, <2>3
<1>5. MTypeOK'
  <2>1. assets' \in [ShardIds -> SUBSET Tokens]
    BY <1>1, <1>2
  <2>2. \A r \in ShardIds : r >= nShards' => assets'[r] = {}
    BY <1>1, <1>3, <1>4 DEF MInv, MTypeOK
  <2> QED BY <1>1, <2>1, <2>2 DEF MInv, MTypeOK, Running
<1>6. Placed'
  <2> SUFFICES ASSUME NEW r \in ShardIds, NEW t \in assets'[r]
               PROVE  nShards' > 0 /\ hash'[t] % nShards' = r
    BY DEF Placed
  <2>1. CASE t \in assets[r]
    BY <2>1 DEF MInv, Placed, ShardFor
  <2>2. CASE t \notin assets[r]
    <3>1. r = s /\ t \in OfShard(toAdd, s)
      BY <1>1, <2>2
    <3> QED BY <3>1, <1>3 DEF OfShard, ShardFor
  <2> QED BY <2>1, <2>2
<1>7. RefreshInv'
  <2>1. Recorded' = Recorded \cup OfShard(toAdd, s)
    BY AddToRecords
  <2>2. /\ Recorded = (current \cup target) \ toAdd
        /\ toAdd \subseteq target \ current
        /\ toRemove = current \ target
    BY DEF MInv, RefreshInv
  <2>3. Recorded' = (current \cup target) \ toAdd'
    BY <1>2, <2>1, <2>2
  <2> QED BY <2>2, <2>3 DEF RefreshInv
<1> QED BY <1>5, <1>6, <1>7 DEF MInv

\* Each call of remove() preserves the invariant.
LEMMA RemoveFromKeeps ==
  ASSUME MInv, NEW s \in ShardIds, RemoveFrom(s)
  PROVE  MInv'
<1> USE DEF RemoveFrom
<1>1. toRemove \subseteq Tokens /\ assets \in [ShardIds -> SUBSET Tokens]
  BY DEF MInv, MTypeOK
<1>2. OfShard(toRemove, s) \subseteq toRemove
  BY DEF OfShard
<1>3. \A r \in ShardIds : assets'[r] \subseteq assets[r]
  BY <1>1
<1>4. MTypeOK'
  <2>1. assets' \in [ShardIds -> SUBSET Tokens]
    BY <1>1
  <2>2. \A r \in ShardIds : r >= nShards' => assets'[r] = {}
    BY <1>3 DEF MInv, MTypeOK
  <2> QED BY <1>1, <2>1, <2>2 DEF MInv, MTypeOK, Running
<1>5. Placed'
  BY <1>3 DEF MInv, Placed, ShardFor
<1>6. RefreshInv'
  <2>1. Recorded' = Recorded \ OfShard(toRemove, s)
    BY RemoveFromForgets
  <2>2. Recorded = target \cup toRemove /\ toRemove \cap target = {}
    BY DEF MInv, RefreshInv
  <2>3. Recorded' = target \cup toRemove' /\ toRemove' \cap target = {}
    BY <1>2, <2>1, <2>2
  <2> QED BY <2>3 DEF RefreshInv
<1> QED BY <1>4, <1>5, <1>6 DEF MInv

\* A selection begins a refresh, or is what is recorded already.
LEMMA SelectDoneKeeps == MInv /\ SelectDone => MInv'
<1> SUFFICES ASSUME MInv, SelectDone PROVE MInv'
  OBVIOUS
<1> USE DEF MInv, SelectDone
<1>1. MTypeOK'
  BY DEF MTypeOK, Running
<1>2. Placed'
  BY DEF Placed, ShardFor
<1>3. Recorded' = Recorded /\ Recorded = current
  BY DEF RefreshInv, Recorded
<1>4. CASE toAdd' = {} /\ toRemove' = {}
  <2>1. loop' = "waiting" /\ current' = current
    BY <1>4
  <2>2. RefreshInv'
    BY <1>3, <2>1 DEF RefreshInv
  <2> QED BY <1>1, <1>2, <2>2
<1>5. CASE ~ (toAdd' = {} /\ toRemove' = {})
  <2>1. loop' = "adding" /\ current' = current
    BY <1>5
  <2>2. Recorded' = (current' \cup target') \ toAdd'
    BY <1>3, <2>1
  <2>3. RefreshInv'
    BY <2>1, <2>2 DEF RefreshInv
  <2> QED BY <1>1, <1>2, <2>3
<1> QED BY <1>4, <1>5

\* The steps that change neither the shards nor what is recorded.
LEMMA OtherStepsKeep ==
  ASSUME MInv,
         \/ StartFails \/ Timeout \/ LoopReturns \/ SelectFails \/ AddsDone
         \/ RefreshDone \/ Stop \/ Shutdown \/ CancelTasks \/ Restart
         \/ UNCHANGED mvars
  PROVE  MInv'
<1> USE DEF MInv
<1>1. CASE StartFails
  BY <1>1 DEF StartFails, refresh, MTypeOK, Placed, ShardFor, RefreshInv, Running, Recorded
<1>2. CASE Timeout
  BY <1>2 DEF Timeout, refresh, MTypeOK, Placed, ShardFor, RefreshInv, Running, Recorded
<1>3. CASE LoopReturns
  BY <1>3 DEF LoopReturns, refresh, MTypeOK, Placed, ShardFor, RefreshInv, Running, Recorded
<1>4. CASE SelectFails
  BY <1>4 DEF SelectFails, refresh, MTypeOK, Placed, ShardFor, RefreshInv, Running, Recorded
<1>5. CASE AddsDone
  <2>1. MTypeOK' /\ Placed'
    BY <1>5 DEF AddsDone, MTypeOK, Placed, ShardFor, Running
  <2>2. Recorded' = Recorded
    BY <1>5 DEF AddsDone, Recorded
  <2>3. Recorded' = target \cup toRemove /\ toRemove \cap target = {}
    BY <1>5, <2>2 DEF AddsDone, RefreshInv
  <2> QED BY <1>5, <2>1, <2>3 DEF AddsDone, RefreshInv
<1>6. CASE RefreshDone
  BY <1>6 DEF RefreshDone, refresh, MTypeOK, Placed, ShardFor, RefreshInv, Running, Recorded
<1>7. CASE Stop
  BY <1>7 DEF Stop, refresh, MTypeOK, Placed, ShardFor, RefreshInv, Running, Recorded
<1>8. CASE Shutdown
  BY <1>8 DEF Shutdown, refresh, MTypeOK, Placed, ShardFor, RefreshInv, Running, Recorded
<1>9. CASE CancelTasks
  BY <1>9 DEF CancelTasks, refresh, MTypeOK, Placed, ShardFor, RefreshInv, Running, Recorded
<1>10. CASE Restart
  <2>1. nShards' \in 0 .. ShardCount(Tokens)
    BY <1>10, ShardCountBound DEF Restart
  <2>2. MTypeOK'
    <3>1. assets' \in [ShardIds -> SUBSET Tokens] /\ \A s \in ShardIds : assets'[s] = {}
      BY <1>10 DEF Restart
    <3> QED BY <1>10, <2>1, <3>1 DEF Restart, MTypeOK
  <2>3. Placed' /\ RefreshInv'
    BY <1>10 DEF Restart, Placed, RefreshInv, Running
  <2> QED BY <2>2, <2>3
<1>11. CASE UNCHANGED mvars
  BY <1>11 DEF mvars, refresh, MTypeOK, Placed, ShardFor, RefreshInv, Running, Recorded
<1> QED BY <1>1, <1>2, <1>3, <1>4, <1>5, <1>6, <1>7, <1>8, <1>9, <1>10, <1>11

\* Every step preserves the invariant.
LEMMA MInvStep == MInv /\ [MNext]_mvars => MInv'
<1> SUFFICES ASSUME MInv, [MNext]_mvars PROVE MInv'
  OBVIOUS
<1>1. CASE StartUp
  BY <1>1, StartUpKeeps
<1>2. CASE SelectDone
  BY <1>2, SelectDoneKeeps
<1>3. CASE \E s \in ShardIds : AddTo(s)
  BY <1>3, AddToKeeps
<1>4. CASE \E s \in ShardIds : RemoveFrom(s)
  BY <1>4, RemoveFromKeeps
<1>5. CASE \/ StartFails \/ Timeout \/ LoopReturns \/ SelectFails \/ AddsDone
           \/ RefreshDone \/ Stop \/ Shutdown \/ CancelTasks \/ Restart
           \/ UNCHANGED mvars
  BY <1>5, OtherStepsKeep
<1> QED BY <1>1, <1>2, <1>3, <1>4, <1>5 DEF MNext, LoopStep

\* The inductive invariant holds of every state that the orchestrator reaches.
THEOREM RecorderInvariant == MSpec => []MInv
BY MInvInit, MInvStep, PTL DEF MSpec

\* Type correctness of the orchestrator (MTypeOK).
THEOREM RecorderTypeCorrect == MSpec => []MTypeOK
<1>1. MInv => MTypeOK
  BY DEF MInv
<1> QED BY <1>1, RecorderInvariant, PTL

\* Between two refreshes, the shards record what _current says.
THEOREM CurrentIsRecorded == MSpec => []RecordedIsCurrent
<1>1. MInv => RecordedIsCurrent
  BY DEF MInv, RefreshInv, RecordedIsCurrent
<1> QED BY <1>1, RecorderInvariant, PTL

\* No asset is recorded by two shards.
THEOREM NotRecordedTwice == MSpec => []OneShardEach
<1>1. MInv => OneShardEach
  BY DEF MInv, Placed, OneShardEach
<1> QED BY <1>1, RecorderInvariant, PTL

\* A refresh makes no gap in what stays selected.
THEOREM RefreshKeeps == MSpec => KeptWithoutGap
<1> DEFINE Kept == Running /\ Running' /\ loop \notin {"waiting", "selecting"}
                     => (Recorded \cap target) \subseteq Recorded'
<1>1. MInv /\ [MNext]_mvars => [Kept]_mvars
  <2> SUFFICES ASSUME MInv, MNext, Running, Running', loop \notin {"waiting", "selecting"}
               PROVE  (Recorded \cap target) \subseteq Recorded'
    OBVIOUS
  <2>1. CASE \E s \in ShardIds : AddTo(s)
    BY <2>1, AddToRecords
  <2>2. CASE \E s \in ShardIds : RemoveFrom(s)
    <3>1. PICK s \in ShardIds : RemoveFrom(s)
      BY <2>2
    <3>2. Recorded' = Recorded \ OfShard(toRemove, s)
      BY <3>1, RemoveFromForgets
    <3>3. toRemove \cap target = {}
      BY <3>1 DEF RemoveFrom, MInv, RefreshInv
    <3> QED BY <3>2, <3>3 DEF OfShard
  <2>3. CASE StartUp \/ Restart
    BY <2>3 DEF StartUp, Restart, Running
  <2>4. CASE \/ StartFails \/ Timeout \/ LoopReturns \/ SelectFails \/ SelectDone
             \/ AddsDone \/ RefreshDone \/ Stop \/ Shutdown \/ CancelTasks
    <3>1. assets' = assets
      BY <2>4 DEF StartFails, Timeout, LoopReturns, SelectFails, SelectDone, AddsDone,
                  RefreshDone, Stop, Shutdown, CancelTasks
    <3> QED BY <3>1 DEF Recorded
  <2> QED BY <2>1, <2>2, <2>3, <2>4 DEF MNext, LoopStep
<1> HIDE DEF Kept
<1>2. KeptWithoutGap <=> [][Kept]_mvars
  BY DEF KeptWithoutGap, Kept
<1> QED BY <1>1, <1>2, RecorderInvariant, PTL DEF MSpec
=============================================================================
