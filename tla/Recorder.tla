------------------------------ MODULE Recorder ------------------------------
(***************************************************************************)
(* main.py: the Recorder, which selects the assets to record, spreads them *)
(* over a number of shards that is fixed at the start, and applies each    *)
(* later selection to them as a difference.                                *)
(*                                                                         *)
(* Of a shard, this module keeps the set of its assets (see CaptureShard). *)
(* A call of add() or remove() changes that set before it first suspends,  *)
(* and suspends before it returns, so each call is an action.              *)
(***************************************************************************)
EXTENDS Naturals, FiniteSets

CONSTANTS
  Tokens,      \* asset ids that a selection may hold
  MaxAssets,   \* capture.max_assets_per_connection
  Hashes       \* the values of hash(token_id)

ASSUME RecorderAssumption ==
  /\ IsFiniteSet(Tokens)
  /\ MaxAssets \in Nat \ {0}
  /\ Hashes \subseteq Nat

\* max(1, -(-len(target) // max_assets_per_connection))
ShardCount(target) ==
  LET n == (Cardinality(target) + MaxAssets - 1) \div MaxAssets
  IN  IF n = 0 THEN 1 ELSE n

ShardIds == 0 .. ShardCount(Tokens) - 1

VARIABLES
  phase,     \* where run() is
  hash,      \* Python's hash of strings, drawn when the process starts
  nShards,   \* len(self.shards), or 0 before there are any
  assets,    \* the assets of each shard
  current,   \* self._current
  loop,      \* where _universe_loop() is
  target,    \* what select() returned last
  toAdd,     \* the assets that the loop has still to add
  toRemove,  \* those that it has still to remove
  stop       \* _stop is set

refresh == <<loop, target, toAdd, toRemove>>
mvars == <<phase, hash, nShards, assets, current, refresh, stop>>

Recorded == UNION {assets[s] : s \in ShardIds}

MTypeOK ==
  /\ phase \in {"selecting", "up", "stopping", "exited", "failed"}
  /\ hash \in [Tokens -> Hashes]
  /\ nShards \in 0 .. ShardCount(Tokens)
  /\ phase \in {"up", "stopping"} => nShards > 0
  /\ assets \in [ShardIds -> SUBSET Tokens]
  /\ \A s \in ShardIds : s >= nShards => assets[s] = {}
  /\ current \subseteq Tokens /\ target \subseteq Tokens
  /\ loop \in {"none", "waiting", "selecting", "adding", "removing", "done"}
  /\ toAdd \subseteq Tokens /\ toRemove \subseteq Tokens
  /\ loop = "removing" => toAdd = {}
  /\ stop \in BOOLEAN

MInit ==
  /\ phase = "selecting"
  /\ hash \in [Tokens -> Hashes]
  /\ nShards = 0 /\ assets = [s \in ShardIds |-> {}]
  /\ current = {} /\ target = {}
  /\ loop = "none" /\ toAdd = {} /\ toRemove = {}
  /\ stop = FALSE

\* _shard_for(token_id, n_shards)
ShardFor(t, n) == hash[t] % n

OfShard(set, s) == {t \in set : ShardFor(t, nShards) = s}
-----------------------------------------------------------------------------
\* The initial selection, and the shards with their assets, each in a task.
StartUp ==
  /\ phase = "selecting"
  /\ \E selected \in SUBSET Tokens :
       LET n == ShardCount(selected) IN
       /\ nShards' = n
       /\ assets' = [s \in ShardIds |-> {t \in selected : ShardFor(t, n) = s}]
       /\ current' = selected
  /\ phase' = "up"
  /\ loop' = "waiting"
  /\ UNCHANGED <<hash, target, toAdd, toRemove, stop>>

\* The initial select() raises, and run() with it.
StartFails ==
  /\ phase = "selecting"
  /\ phase' = "failed"
  /\ UNCHANGED <<hash, nShards, assets, current, refresh, stop>>

Running == phase \in {"up", "stopping"}

\* refresh_interval_s has passed.
Timeout ==
  /\ Running /\ loop = "waiting" /\ ~ stop
  /\ loop' = "selecting"
  /\ UNCHANGED <<phase, hash, nShards, assets, current, target, toAdd, toRemove, stop>>

\* The wait, or the test of the loop, sees _stop.
LoopReturns ==
  /\ Running /\ loop = "waiting" /\ stop
  /\ loop' = "done"
  /\ UNCHANGED <<phase, hash, nShards, assets, current, target, toAdd, toRemove, stop>>

\* select() raises: an HTTP error of Gamma, an answer of another shape.
SelectFails ==
  /\ Running /\ loop = "selecting"
  /\ loop' = "waiting"
  /\ UNCHANGED <<phase, hash, nShards, assets, current, target, toAdd, toRemove, stop>>

\* Variant: a selection replaces all that is recorded.
SelectReplaces ==
  /\ Running /\ loop = "selecting"
  /\ target' \in SUBSET Tokens
  /\ toAdd' = target' /\ toRemove' = current
  /\ loop' = "adding"
  /\ UNCHANGED <<phase, hash, nShards, assets, current, stop>>

\* select() returned: diff_universe, and the calls that it takes.
SelectDone ==
  /\ Running /\ loop = "selecting"
  /\ target' \in SUBSET Tokens
  /\ toAdd' = target' \ current /\ toRemove' = current \ target'
  /\ loop' = IF toAdd' = {} /\ toRemove' = {} THEN "waiting" ELSE "adding"
  /\ UNCHANGED <<phase, hash, nShards, assets, current, stop>>

\* Variant: the shard is that of a process with as many shards as the target
\* would take now.
AddToResized(s) ==
  /\ Running /\ loop = "adding"
  /\ LET A == {t \in toAdd : ShardFor(t, ShardCount(target)) = s} IN
     /\ A # {}
     /\ assets' = [assets EXCEPT ![s] = @ \cup A]
     /\ toAdd' = toAdd \ A
  /\ UNCHANGED <<phase, hash, nShards, current, loop, target, toRemove, stop>>

\* Variant: of the assets of one shard, the last one stands for all.
AddToLast(s) ==
  /\ Running /\ loop = "adding"
  /\ \E t \in OfShard(toAdd, s) : assets' = [assets EXCEPT ![s] = @ \cup {t}]
  /\ toAdd' = toAdd \ OfShard(toAdd, s)
  /\ UNCHANGED <<phase, hash, nShards, current, loop, target, toRemove, stop>>

\* await self.shards[s].add(assets), one call per shard.
AddTo(s) ==
  /\ Running /\ loop = "adding"
  /\ OfShard(toAdd, s) # {}
  /\ assets' = [assets EXCEPT ![s] = @ \cup OfShard(toAdd, s)]
  /\ toAdd' = toAdd \ OfShard(toAdd, s)
  /\ UNCHANGED <<phase, hash, nShards, current, loop, target, toRemove, stop>>

AddsDone ==
  /\ Running /\ loop = "adding" /\ toAdd = {}
  /\ loop' = "removing"
  /\ UNCHANGED <<phase, hash, nShards, assets, current, target, toAdd, toRemove, stop>>

\* await self.shards[s].remove(assets)
RemoveFrom(s) ==
  /\ Running /\ loop = "removing"
  /\ OfShard(toRemove, s) # {}
  /\ assets' = [assets EXCEPT ![s] = @ \ OfShard(toRemove, s)]
  /\ toRemove' = toRemove \ OfShard(toRemove, s)
  /\ UNCHANGED <<phase, hash, nShards, current, loop, target, toAdd, stop>>

\* Variant: what is recorded now is not noted.
RefreshDoneUnnoted ==
  /\ Running /\ loop = "removing" /\ toRemove = {}
  /\ loop' = "waiting"
  /\ UNCHANGED <<phase, hash, nShards, assets, current, target, toAdd, toRemove, stop>>

\* self._current = target
RefreshDone ==
  /\ Running /\ loop = "removing" /\ toRemove = {}
  /\ current' = target
  /\ loop' = "waiting"
  /\ UNCHANGED <<phase, hash, nShards, assets, target, toAdd, toRemove, stop>>

\* SIGINT or SIGTERM.
Stop ==
  /\ phase \notin {"exited", "failed"}
  /\ stop' = TRUE
  /\ UNCHANGED <<phase, hash, nShards, assets, current, refresh>>

\* run() wakes up and begins _shutdown(): the shards end where they wait.
Shutdown ==
  /\ phase = "up" /\ stop
  /\ phase' = "stopping"
  /\ UNCHANGED <<hash, nShards, assets, current, refresh, stop>>

\* All tasks are cancelled, the loop where it is.
CancelTasks ==
  /\ phase = "stopping"
  /\ phase' = "exited"
  /\ loop' = "done" /\ toAdd' = {} /\ toRemove' = {}
  /\ UNCHANGED <<hash, nShards, assets, current, target, stop>>

\* systemd: Restart=always.  Another process draws another hash.
Restart ==
  /\ phase \in {"exited", "failed"}
  /\ phase' = "selecting"
  /\ hash' \in [Tokens -> Hashes]
  /\ nShards' = 0 /\ assets' = [s \in ShardIds |-> {}]
  /\ current' = {} /\ target' = {}
  /\ loop' = "none" /\ toAdd' = {} /\ toRemove' = {}
  /\ stop' = FALSE

LoopStep ==
  \/ Timeout \/ LoopReturns \/ SelectDone \/ SelectFails
  \/ AddsDone \/ RefreshDone
  \/ \E s \in ShardIds : AddTo(s) \/ RemoveFrom(s)

MNext ==
  \/ StartUp \/ StartFails \/ LoopStep
  \/ Stop \/ Shutdown \/ CancelTasks \/ Restart

MSpec == MInit /\ [][MNext]_mvars

\* The event loop runs the loop's task, every wait in it ends, and the clock
\* reaches the next refresh.
MFairSpec == MSpec /\ WF_mvars(LoopStep)
-----------------------------------------------------------------------------
\* Between two refreshes the shards together record what the last applied
\* selection said, whatever was added, removed or failed before.
RecordedIsCurrent ==
  Running /\ loop \in {"waiting", "selecting"} => Recorded = current

\* No asset is recorded on two connections: its updates would be archived
\* twice.
OneShardEach ==
  \A s, r \in ShardIds : s # r => assets[s] \cap assets[r] = {}

\* An asset that is recorded and stays selected is recorded all through a
\* refresh: none of its calls makes a gap in it.
KeptWithoutGap ==
  [][ Running /\ Running' /\ loop \notin {"waiting", "selecting"}
        => (Recorded \cap target) \subseteq Recorded' ]_mvars

\* A selection is applied in the end: each asset that it holds is recorded, and
\* each other one is not, unless the process stops before.
SelectionApplied ==
  \A T \in SUBSET Tokens :
    (loop = "adding" /\ target = T) ~> (Recorded = T \/ stop)
=============================================================================
