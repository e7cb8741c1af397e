------------------------- MODULE CaptureShardProofs -------------------------
(***************************************************************************)
(* Proofs about one shard: whatever the interleaving of its updates, its   *)
(* connections and their watchdogs, for any assets and number of faults.   *)
(***************************************************************************)
EXTENDS CaptureShard, TLAPS

\* What an update on its way still has to do.  One call fills one of its sets.
UpdateShape ==
  /\ update.pc = "idle" => update = NoUpdate
  /\ update.pc = "adding" => update.todo = update.add
  /\ ~ EarlyUpdates =>
       /\ pendAdd = {} /\ pendRemove = {}
       /\ update.pc \in {"adding", "seeding"} => update.add \subseteq assets /\ update.remove = {}
       /\ update.pc = "removing" => update.remove \cap assets = {}

\* What the server has of an open connection, before and after each send.
SubsFollow ==
  ~ EarlyUpdates /\ ws = "open" /\ ~ spoilt =>
    subs = IF update.current /\ update.pc = "adding" THEN assets \ update.add
           ELSE IF update.current /\ update.pc = "removing" THEN assets \cup update.remove
           ELSE assets

\* Each subscribed asset was asked for, or is in the list of one of the seedings.
AskedOrListed ==
  ws = "open" /\ ~ spoilt =>
    \A t \in subs : \/ t \in asked \/ t \in seeds
                    \/ update.pc = "seeding" /\ update.current /\ t \in update.todo

\* The watchdog of a connection that works has nothing to close.
Lively == watchdog /\ ws = "open" => ~ quiet

\* Each watchdog that was left behind has cost a fault.
OrphansPaid ==
  orphans + (IF ws = "closed" /\ (run = "seeding" \/ watchdog) THEN 1 ELSE 0) =< mishaps

SInv ==
  /\ STypeOK /\ UpdateShape /\ SubsFollow /\ AskedOrListed /\ Lively /\ OrphansPaid
-----------------------------------------------------------------------------
\* The local variables of an update.
Updates == [pc : {"idle", "adding", "seeding", "removing"}, add : SUBSET Tokens,
            remove : SUBSET Tokens, todo : SUBSET Tokens, current : BOOLEAN]

LEMMA NoUpdateType == NoUpdate \in Updates
<1>1. {} \in SUBSET Tokens
  OBVIOUS
<1> QED BY <1>1 DEF NoUpdate, Updates

\* The start.
LEMMA SInitInv == SInit => SInv
<1> SUFFICES ASSUME SInit PROVE SInv
  OBVIOUS
<1>1. STypeOK
  <2>1. update \in Updates
    BY NoUpdateType DEF SInit
  <2>2. assets \subseteq Tokens /\ orphans \in 0 .. MaxFaults
    BY ShardAssumption DEF SInit
  <2>3. calls \in 0 .. MaxCalls /\ mishaps \in 0 .. MaxFaults
    BY ShardAssumption DEF SInit
  <2> QED BY <2>1, <2>2, <2>3 DEF SInit, STypeOK, Updates
<1>2. UpdateShape /\ SubsFollow /\ AskedOrListed
  BY DEF SInit, UpdateShape, SubsFollow, AskedOrListed, NoUpdate
<1>3. Lively /\ OrphansPaid
  BY DEF SInit, Lively, OrphansPaid
<1> QED BY <1>1, <1>2, <1>3 DEF SInv

\* What add() and remove() do with the sets they are given keeps their types.
LEMMA ApplyType ==
  ASSUME update \in Updates, NEW add \in SUBSET Tokens, NEW remove \in SUBSET Tokens,
         Apply(add, remove)
  PROVE  pendAdd' \subseteq Tokens /\ pendRemove' \subseteq Tokens /\ update' \in Updates
<1>1. CASE ws = "none"
  BY <1>1 DEF Apply
<1>2. CASE ws # "none"
  <2> DEFINE pc == IF add # {} THEN "adding" ELSE IF remove # {} THEN "removing" ELSE "idle"
  <2>1. pc \in {"idle", "adding", "seeding", "removing"}
    OBVIOUS
  <2>2. /\ pendAdd' = {} /\ pendRemove' = {}
        /\ update' = [pc |-> pc, add |-> add, remove |-> remove, todo |-> add, current |-> TRUE]
    BY <1>2 DEF Apply
  <2> HIDE DEF pc
  <2> QED BY <2>1, <2>2 DEF Updates
<1> QED BY <1>1, <1>2

\* What an update has still to do stays as described.
LEMMA ShapeKept == SInv /\ [SNext]_svars => UpdateShape'
<1> SUFFICES ASSUME SInv, [SNext]_svars PROVE UpdateShape'
  OBVIOUS
<1> USE ShardAssumption DEF SInv, STypeOK, UpdateShape, members, connection, history
<1>1. CASE Top
  BY <1>1 DEF Top
<1>2. CASE CleanReturn
  BY <1>2 DEF CleanReturn
<1>3. CASE Connect
  <2>1. /\ update'.pc = update.pc /\ update'.add = update.add
        /\ update'.remove = update.remove /\ update'.todo = update.todo
    BY <1>3 DEF Connect
  <2>2. ASSUME update.pc = "idle" PROVE update' = NoUpdate
    <3>1. update = NoUpdate /\ update' = [update EXCEPT !.current = TRUE]
      BY <1>3, <2>2 DEF Connect
    <3> QED BY <3>1 DEF NoUpdate
  <2> QED BY <1>3, <2>1, <2>2 DEF Connect
<1>4. CASE Seed
  BY <1>4 DEF Seed
<1>5. CASE Capture
  BY <1>5 DEF Capture
<1>6. CASE CaptureEnds
  BY <1>6 DEF CaptureEnds, Disconnect
<1>7. CASE Backoff
  BY <1>7 DEF Backoff
<1>8. CASE ConnectFails
  BY <1>8 DEF ConnectFails, Disconnect, Fault
<1>9. CASE SeedFails
  BY <1>9 DEF SeedFails, Disconnect, Fault
<1>10. CASE Receive
  BY <1>10 DEF Receive
<1>11. CASE Watchdog
  BY <1>11 DEF Watchdog
<1>12. CASE OrphanWatchdog
  BY <1>12 DEF OrphanWatchdog
<1>13. CASE SendAdd
  BY <1>13 DEF SendAdd, Sendable
<1>14. CASE SeedAdded
  BY <1>14 DEF SeedAdded, NoUpdate
<1>15. CASE SendRemove
  BY <1>15 DEF SendRemove, NoUpdate, Sendable
<1>16. CASE UpdateFails
  BY <1>16 DEF UpdateFails, NoUpdate, Sendable
<1>17. CASE BadBook
  BY <1>17 DEF BadBook, NoUpdate, Fault
<1>18. CASE Drop
  BY <1>18 DEF Drop, Fault
<1>19. CASE GoMute
  BY <1>19 DEF GoMute, Fault
<1>20. CASE FallQuiet
  BY <1>20 DEF FallQuiet
<1>21. CASE Stop
  BY <1>21 DEF Stop
<1>22. ASSUME NEW A \in SUBSET Tokens \ {{}}, Add(A) PROVE UpdateShape'
  <2>1. CASE ws = "none"
    BY <1>22, <2>1 DEF Add, Called, Apply, NoUpdate
  <2>2. CASE ws # "none"
    <3>1. /\ update' = [pc |-> IF pendAdd \cup (A \ assets) # {} THEN "adding"
                             ELSE IF pendRemove # {} THEN "removing" ELSE "idle",
                        add |-> pendAdd \cup (A \ assets), remove |-> pendRemove,
                        todo |-> pendAdd \cup (A \ assets), current |-> TRUE]
          /\ pendAdd' = {} /\ pendRemove' = {} /\ assets' = assets \cup A
      BY <1>22, <2>2 DEF Add, Apply
    <3> QED BY <3>1 DEF NoUpdate
  <2> QED BY <2>1, <2>2
<1>23. ASSUME NEW A \in SUBSET Tokens \ {{}}, Remove(A) PROVE UpdateShape'
  BY <1>23 DEF Remove, Called, Apply, NoUpdate
<1>24. CASE UNCHANGED svars
  BY <1>24 DEF svars
<1> QED
  BY <1>1, <1>2, <1>3, <1>4, <1>5, <1>6, <1>7, <1>8, <1>9, <1>10, <1>11, <1>12, <1>13, <1>14, <1>15, <1>16, <1>17, <1>18, <1>19, <1>20, <1>21, <1>22, <1>23, <1>24
  DEF SNext, RunStep, UpdateStep

\* The subscriptions follow the asset set, one send behind.
LEMMA SubsKept == SInv /\ [SNext]_svars => SubsFollow'
<1> SUFFICES ASSUME SInv, [SNext]_svars PROVE SubsFollow'
  OBVIOUS
<1> USE ShardAssumption DEF SInv, STypeOK, UpdateShape, SubsFollow, members, connection, history
<1>1. CASE Top
  BY <1>1 DEF Top
<1>2. CASE CleanReturn
  BY <1>2 DEF CleanReturn
<1>3. CASE Connect
  BY <1>3 DEF Connect
<1>4. CASE Seed
  BY <1>4 DEF Seed
<1>5. CASE Capture
  BY <1>5 DEF Capture
<1>6. CASE CaptureEnds
  BY <1>6 DEF CaptureEnds, Disconnect
<1>7. CASE Backoff
  BY <1>7 DEF Backoff
<1>8. CASE ConnectFails
  BY <1>8 DEF ConnectFails, Disconnect, Fault
<1>9. CASE SeedFails
  BY <1>9 DEF SeedFails, Disconnect, Fault
<1>10. CASE Receive
  BY <1>10 DEF Receive
<1>11. CASE Watchdog
  BY <1>11 DEF Watchdog
<1>12. CASE OrphanWatchdog
  BY <1>12 DEF OrphanWatchdog
<1>13. CASE SendAdd
  BY <1>13 DEF SendAdd, Sendable
<1>14. CASE SeedAdded
  BY <1>14 DEF SeedAdded, NoUpdate
<1>15. CASE SendRemove
  BY <1>15 DEF SendRemove, NoUpdate, Sendable
<1>16. CASE UpdateFails
  BY <1>16 DEF UpdateFails, NoUpdate, Sendable
<1>17. CASE BadBook
  BY <1>17 DEF BadBook, NoUpdate, Fault
<1>18. CASE Drop
  BY <1>18 DEF Drop, Fault
<1>19. CASE GoMute
  BY <1>19 DEF GoMute, Fault
<1>20. CASE FallQuiet
  BY <1>20 DEF FallQuiet
<1>21. CASE Stop
  BY <1>21 DEF Stop
<1>22. ASSUME NEW A \in SUBSET Tokens \ {{}}, Add(A) PROVE SubsFollow'
  BY <1>22 DEF Add, Called, Apply, NoUpdate
<1>23. ASSUME NEW A \in SUBSET Tokens \ {{}}, Remove(A) PROVE SubsFollow'
  BY <1>23 DEF Remove, Called, Apply, NoUpdate
<1>24. CASE UNCHANGED svars
  BY <1>24 DEF svars
<1> QED
  BY <1>1, <1>2, <1>3, <1>4, <1>5, <1>6, <1>7, <1>8, <1>9, <1>10, <1>11, <1>12, <1>13, <1>14, <1>15, <1>16, <1>17, <1>18, <1>19, <1>20, <1>21, <1>22, <1>23, <1>24
  DEF SNext, RunStep, UpdateStep

\* No subscribed asset is forgotten by the seedings.
LEMMA AskedKept == SInv /\ [SNext]_svars => AskedOrListed'
<1> SUFFICES ASSUME SInv, [SNext]_svars PROVE AskedOrListed'
  OBVIOUS
<1> USE ShardAssumption DEF SInv, STypeOK, UpdateShape, AskedOrListed, members, connection, history
<1>1. CASE Top
  BY <1>1 DEF Top
<1>2. CASE CleanReturn
  BY <1>2 DEF CleanReturn
<1>3. CASE Connect
  BY <1>3 DEF Connect
<1>4. CASE Seed
  BY <1>4 DEF Seed
<1>5. CASE Capture
  BY <1>5 DEF Capture
<1>6. CASE CaptureEnds
  BY <1>6 DEF CaptureEnds, Disconnect
<1>7. CASE Backoff
  BY <1>7 DEF Backoff
<1>8. CASE ConnectFails
  BY <1>8 DEF ConnectFails, Disconnect, Fault
<1>9. CASE SeedFails
  BY <1>9 DEF SeedFails, Disconnect, Fault
<1>10. CASE Receive
  BY <1>10 DEF Receive
<1>11. CASE Watchdog
  BY <1>11 DEF Watchdog
<1>12. CASE OrphanWatchdog
  BY <1>12 DEF OrphanWatchdog
<1>13. CASE SendAdd
  BY <1>13 DEF SendAdd, Sendable
<1>14. CASE SeedAdded
  BY <1>14 DEF SeedAdded, NoUpdate
<1>15. CASE SendRemove
  BY <1>15 DEF SendRemove, NoUpdate, Sendable
<1>16. CASE UpdateFails
  BY <1>16 DEF UpdateFails, NoUpdate, Sendable
<1>17. CASE BadBook
  BY <1>17 DEF BadBook, NoUpdate, Fault
<1>18. CASE Drop
  BY <1>18 DEF Drop, Fault
<1>19. CASE GoMute
  BY <1>19 DEF GoMute, Fault
<1>20. CASE FallQuiet
  BY <1>20 DEF FallQuiet
<1>21. CASE Stop
  BY <1>21 DEF Stop
<1>22. ASSUME NEW A \in SUBSET Tokens \ {{}}, Add(A) PROVE AskedOrListed'
  BY <1>22 DEF Add, Called, Apply, NoUpdate
<1>23. ASSUME NEW A \in SUBSET Tokens \ {{}}, Remove(A) PROVE AskedOrListed'
  BY <1>23 DEF Remove, Called, Apply, NoUpdate
<1>24. CASE UNCHANGED svars
  BY <1>24 DEF svars
<1> QED
  BY <1>1, <1>2, <1>3, <1>4, <1>5, <1>6, <1>7, <1>8, <1>9, <1>10, <1>11, <1>12, <1>13, <1>14, <1>15, <1>16, <1>17, <1>18, <1>19, <1>20, <1>21, <1>22, <1>23, <1>24
  DEF SNext, RunStep, UpdateStep

\* A connection that works is not found silent.
LEMMA LivelyKept == SInv /\ [SNext]_svars => Lively'
<1> SUFFICES ASSUME SInv, [SNext]_svars PROVE Lively'
  OBVIOUS
<1> USE ShardAssumption DEF SInv, STypeOK, Lively, members, connection, history
<1>1. CASE Top
  BY <1>1 DEF Top
<1>2. CASE CleanReturn
  BY <1>2 DEF CleanReturn
<1>3. CASE Connect
  BY <1>3 DEF Connect
<1>4. CASE Seed
  BY <1>4 DEF Seed
<1>5. CASE Capture
  BY <1>5 DEF Capture
<1>6. CASE CaptureEnds
  BY <1>6 DEF CaptureEnds, Disconnect
<1>7. CASE Backoff
  BY <1>7 DEF Backoff
<1>8. CASE ConnectFails
  BY <1>8 DEF ConnectFails, Disconnect, Fault
<1>9. CASE SeedFails
  BY <1>9 DEF SeedFails, Disconnect, Fault
<1>10. CASE Receive
  BY <1>10 DEF Receive
<1>11. CASE Watchdog
  BY <1>11 DEF Watchdog
<1>12. CASE OrphanWatchdog
  BY <1>12 DEF OrphanWatchdog
<1>13. CASE SendAdd
  BY <1>13 DEF SendAdd, Sendable
<1>14. CASE SeedAdded
  BY <1>14 DEF SeedAdded, NoUpdate
<1>15. CASE SendRemove
  BY <1>15 DEF SendRemove, NoUpdate, Sendable
<1>16. CASE UpdateFails
  BY <1>16 DEF UpdateFails, NoUpdate, Sendable
<1>17. CASE BadBook
  BY <1>17 DEF BadBook, NoUpdate, Fault
<1>18. CASE Drop
  BY <1>18 DEF Drop, Fault
<1>19. CASE GoMute
  BY <1>19 DEF GoMute, Fault
<1>20. CASE FallQuiet
  BY <1>20 DEF FallQuiet
<1>21. CASE Stop
  BY <1>21 DEF Stop
<1>22. ASSUME NEW A \in SUBSET Tokens \ {{}}, Add(A) PROVE Lively'
  BY <1>22 DEF Add, Called, Apply, NoUpdate
<1>23. ASSUME NEW A \in SUBSET Tokens \ {{}}, Remove(A) PROVE Lively'
  BY <1>23 DEF Remove, Called, Apply, NoUpdate
<1>24. CASE UNCHANGED svars
  BY <1>24 DEF svars
<1> QED
  BY <1>1, <1>2, <1>3, <1>4, <1>5, <1>6, <1>7, <1>8, <1>9, <1>10, <1>11, <1>12, <1>13, <1>14, <1>15, <1>16, <1>17, <1>18, <1>19, <1>20, <1>21, <1>22, <1>23, <1>24
  DEF SNext, RunStep, UpdateStep

\* Only a fault leaves a watchdog behind.
LEMMA OrphansKept == SInv /\ [SNext]_svars => OrphansPaid'
<1> SUFFICES ASSUME SInv, [SNext]_svars PROVE OrphansPaid'
  OBVIOUS
<1> USE ShardAssumption DEF SInv, STypeOK, OrphansPaid, members, connection, history
<1>1. CASE Top
  BY <1>1 DEF Top
<1>2. CASE CleanReturn
  BY <1>2 DEF CleanReturn
<1>3. CASE Connect
  BY <1>3 DEF Connect
<1>4. CASE Seed
  BY <1>4 DEF Seed
<1>5. CASE Capture
  BY <1>5 DEF Capture
<1>6. CASE CaptureEnds
  BY <1>6 DEF CaptureEnds, Disconnect
<1>7. CASE Backoff
  BY <1>7 DEF Backoff
<1>8. CASE ConnectFails
  BY <1>8 DEF ConnectFails, Disconnect, Fault
<1>9. CASE SeedFails
  BY <1>9 DEF SeedFails, Disconnect, Fault
<1>10. CASE Receive
  BY <1>10 DEF Receive
<1>11. CASE Watchdog
  BY <1>11 DEF Watchdog
<1>12. CASE OrphanWatchdog
  BY <1>12 DEF OrphanWatchdog
<1>13. CASE SendAdd
  BY <1>13 DEF SendAdd, Sendable
<1>14. CASE SeedAdded
  BY <1>14 DEF SeedAdded, NoUpdate
<1>15. CASE SendRemove
  BY <1>15 DEF SendRemove, NoUpdate, Sendable
<1>16. CASE UpdateFails
  BY <1>16 DEF UpdateFails, NoUpdate, Sendable
<1>17. CASE BadBook
  BY <1>17 DEF BadBook, NoUpdate, Fault
<1>18. CASE Drop
  BY <1>18 DEF Drop, Fault
<1>19. CASE GoMute
  BY <1>19 DEF GoMute, Fault
<1>20. CASE FallQuiet
  BY <1>20 DEF FallQuiet
<1>21. CASE Stop
  BY <1>21 DEF Stop
<1>22. ASSUME NEW A \in SUBSET Tokens \ {{}}, Add(A) PROVE OrphansPaid'
  BY <1>22 DEF Add, Called, Apply, NoUpdate
<1>23. ASSUME NEW A \in SUBSET Tokens \ {{}}, Remove(A) PROVE OrphansPaid'
  BY <1>23 DEF Remove, Called, Apply, NoUpdate
<1>24. CASE UNCHANGED svars
  BY <1>24 DEF svars
<1> QED
  BY <1>1, <1>2, <1>3, <1>4, <1>5, <1>6, <1>7, <1>8, <1>9, <1>10, <1>11, <1>12, <1>13, <1>14, <1>15, <1>16, <1>17, <1>18, <1>19, <1>20, <1>21, <1>22, <1>23, <1>24
  DEF SNext, RunStep, UpdateStep

\* The types are kept.
LEMMA TypeKept == SInv /\ [SNext]_svars => STypeOK'
<1> SUFFICES ASSUME SInv, [SNext]_svars PROVE STypeOK'
  OBVIOUS
<1> USE ShardAssumption DEF SInv, STypeOK, OrphansPaid, members, connection, history
<1>1. CASE Top
  BY <1>1 DEF Top
<1>2. CASE CleanReturn
  BY <1>2 DEF CleanReturn
<1>3. CASE Connect
  BY <1>3 DEF Connect
<1>4. CASE Seed
  BY <1>4 DEF Seed
<1>5. CASE Capture
  BY <1>5 DEF Capture
<1>6. CASE CaptureEnds
  <2>1. orphans' \in 0 .. MaxFaults
    BY <1>6 DEF CaptureEnds, Disconnect, OrphansPaid
  <2> QED BY <1>6, <2>1 DEF CaptureEnds, Disconnect
<1>7. CASE Backoff
  BY <1>7 DEF Backoff
<1>8. CASE ConnectFails
  <2>1. orphans' = orphans
    BY <1>8 DEF ConnectFails, Disconnect
  <2>2. mishaps' \in 0 .. MaxFaults
    BY <1>8 DEF ConnectFails, Fault
  <2> QED BY <1>8, <2>1, <2>2 DEF ConnectFails, Disconnect
<1>9. CASE SeedFails
  <2>1. orphans' = orphans
    BY <1>9 DEF SeedFails, Disconnect
  <2>2. mishaps' \in 0 .. MaxFaults
    BY <1>9 DEF SeedFails, Fault
  <2> QED BY <1>9, <2>1, <2>2 DEF SeedFails, Disconnect
<1>10. CASE Receive
  BY <1>10 DEF Receive
<1>11. CASE Watchdog
  BY <1>11 DEF Watchdog
<1>12. CASE OrphanWatchdog
  BY <1>12 DEF OrphanWatchdog
<1>13. CASE SendAdd
  BY <1>13 DEF SendAdd, Sendable
<1>14. CASE SeedAdded
  <2>1. asked' \subseteq Tokens
    BY <1>14 DEF SeedAdded
  <2>2. update \in Updates
    BY DEF Updates
  <2>3. update' \in Updates
    <3>1. CASE \E t \in update.todo : update' = [update EXCEPT !.todo = @ \ {t}]
      BY <2>2, <3>1 DEF Updates
    <3>2. CASE update' = [update EXCEPT !.pc = "removing"]
      BY <2>2, <3>2 DEF Updates
    <3>3. CASE update' = NoUpdate
      BY <3>3, NoUpdateType
    <3> QED BY <1>14, <3>1, <3>2, <3>3 DEF SeedAdded
  <2> QED BY <1>14, <2>1, <2>3 DEF SeedAdded, Updates
<1>15. CASE SendRemove
  BY <1>15 DEF SendRemove, NoUpdate, Sendable
<1>16. CASE UpdateFails
  BY <1>16 DEF UpdateFails, NoUpdate, Sendable
<1>17. CASE BadBook
  BY <1>17 DEF BadBook, NoUpdate, Fault
<1>18. CASE Drop
  BY <1>18 DEF Drop, Fault
<1>19. CASE GoMute
  BY <1>19 DEF GoMute, Fault
<1>20. CASE FallQuiet
  BY <1>20 DEF FallQuiet
<1>21. CASE Stop
  BY <1>21 DEF Stop
<1>22. ASSUME NEW A \in SUBSET Tokens \ {{}}, Add(A) PROVE STypeOK'
  <2>1. \E add, remove \in SUBSET Tokens : Apply(add, remove)
    BY <1>22 DEF Add
  <2>2. update \in Updates
    BY DEF Updates
  <2>3. pendAdd' \subseteq Tokens /\ pendRemove' \subseteq Tokens /\ update' \in Updates
    BY <2>1, <2>2, ApplyType
  <2>4. assets' \subseteq Tokens /\ calls' \in 0 .. MaxCalls
    BY <1>22 DEF Add, Called
  <2> QED BY <1>22, <2>3, <2>4 DEF Add, Updates
<1>23. ASSUME NEW A \in SUBSET Tokens \ {{}}, Remove(A) PROVE STypeOK'
  <2>1. \E add, remove \in SUBSET Tokens : Apply(add, remove)
    BY <1>23 DEF Remove
  <2>2. update \in Updates
    BY DEF Updates
  <2>3. pendAdd' \subseteq Tokens /\ pendRemove' \subseteq Tokens /\ update' \in Updates
    BY <2>1, <2>2, ApplyType
  <2>4. assets' \subseteq Tokens /\ calls' \in 0 .. MaxCalls
    BY <1>23 DEF Remove, Called
  <2> QED BY <1>23, <2>3, <2>4 DEF Remove, Updates
<1>24. CASE UNCHANGED svars
  BY <1>24 DEF svars
<1> QED
  BY <1>1, <1>2, <1>3, <1>4, <1>5, <1>6, <1>7, <1>8, <1>9, <1>10, <1>11, <1>12, <1>13, <1>14, <1>15, <1>16, <1>17, <1>18, <1>19, <1>20, <1>21, <1>22, <1>23, <1>24
  DEF SNext, RunStep, UpdateStep

LEMMA SStepInv == SInv /\ [SNext]_svars => SInv'
BY ShapeKept, SubsKept, AskedKept, LivelyKept, OrphansKept, TypeKept DEF SInv
-----------------------------------------------------------------------------
\* The inductive invariant holds of every state that a shard reaches.
THEOREM ShardInvariant == SSpec => []SInv
BY SInitInv, SStepInv, PTL DEF SSpec

\* Type correctness of the shard (STypeOK); in particular, its watchdogs that
\* outlive their connections are no more than the faults.
THEOREM ShardTypeCorrect == SSpec => []STypeOK
<1>1. SInv => STypeOK
  BY DEF SInv
<1> QED BY <1>1, ShardInvariant, PTL

\* If the universe loop calls no shard before its first connection, the server
\* has the subscriptions that the shard is to record, between any two updates.
THEOREM SubscriptionsFollow ==
  ASSUME ~ EarlyUpdates
  PROVE  SSpec => []SubscribedIsWanted
<1>1. SInv => SubscribedIsWanted
  BY DEF SInv, SubsFollow, SubscribedIsWanted
<1> QED BY <1>1, ShardInvariant, PTL

\* Each asset that is captured was seeded after it was subscribed, also when
\* updates come before the first connection.
THEOREM SeededBeforeCapture == SSpec => []CapturedWasSeeded
<1>1. SInv => CapturedWasSeeded
  BY DEF SInv, STypeOK, AskedOrListed, CapturedWasSeeded
<1> QED BY <1>1, ShardInvariant, PTL

\* No watchdog closes a connection that works.
THEOREM WatchdogsSpare == SSpec => WorkingConnectionKept
<1> DEFINE Spared == ws = "open" /\ ws' = "closed" => mishaps' = mishaps + 1
<1>1. SInv /\ [SNext]_svars => [Spared]_svars
  <2> SUFFICES ASSUME SInv, SNext, ws = "open", ws' = "closed"
               PROVE  mishaps' = mishaps + 1
    OBVIOUS
  <2>1. ~ Watchdog
    BY DEF Watchdog, SInv, Lively
  <2>2. CASE SeedFails \/ Drop
    BY <2>2 DEF SeedFails, Drop, Fault
  <2>3. CASE \/ RunStep \/ ConnectFails \/ Receive \/ OrphanWatchdog
             \/ UpdateStep \/ UpdateFails \/ BadBook \/ GoMute \/ FallQuiet \/ Stop
             \/ \E A \in SUBSET Tokens \ {{}} : Add(A) \/ Remove(A)
    <3>1. ws' # "closed"
      BY <2>3 DEF RunStep, Top, CleanReturn, Connect, Seed, Capture, CaptureEnds, Backoff,
                  ConnectFails, Receive, OrphanWatchdog, UpdateStep, SendAdd, SeedAdded,
                  SendRemove, UpdateFails, BadBook, GoMute, FallQuiet, Stop, Add, Remove,
                  connection
    <3> QED BY <3>1
  <2> QED BY <2>1, <2>2, <2>3 DEF SNext
<1> HIDE DEF Spared
<1>2. WorkingConnectionKept <=> [][Spared]_svars
  BY DEF WorkingConnectionKept, Spared
<1> QED BY <1>1, <1>2, ShardInvariant, PTL DEF SSpec

=============================================================================
