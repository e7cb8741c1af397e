---------------------------- MODULE CaptureShard ----------------------------
(***************************************************************************)
(* capture.py: one CaptureShard.  Its run() task connects, subscribes,     *)
(* seeds and captures; the universe loop calls add() and remove() on it    *)
(* meanwhile, and watchdogs of earlier connections may still be alive.     *)
(*                                                                         *)
(* The connection that self._ws names is open, mute (half-open: the peer   *)
(* is gone and nothing has noticed) or closed.  A coroutine runs without   *)
(* interleaving between two awaits that suspend it; the shard's lock never *)
(* does, because one task makes all the calls.                             *)
(***************************************************************************)
EXTENDS Naturals, FiniteSets

CONSTANTS
  Tokens,         \* asset ids
  Initial,        \* the assets that Recorder.run() gives the shard
  MaxCalls,       \* bound: how often add() or remove() is called
  MaxFaults,      \* bound: connections that fail, and books that are no JSON
  EarlyUpdates    \* add() and remove() may come before the first connection

ASSUME ShardAssumption ==
  /\ Initial \subseteq Tokens
  /\ MaxCalls \in Nat /\ MaxFaults \in Nat
  /\ EarlyUpdates \in BOOLEAN

VARIABLES
  assets,      \* self.assets
  pendAdd,     \* self._pending_add
  pendRemove,  \* self._pending_remove
  ws,          \* what has become of the connection in self._ws
  subs,        \* the server's subscriptions of that connection
  run,         \* where run() is
  seeds,       \* the assets that _connect_and_capture has still to seed
  watchdog,    \* the _stale_watchdog of this connection is running
  orphans,     \* how many watchdogs of earlier connections are running
  quiet,       \* stale_after_s has passed since _last_msg
  update,      \* where add() or remove() is, with its local variables
  asked,       \* history: assets whose book was requested since the connect, and
               \* since they were last subscribed on it
  spoilt,      \* history: since then, book() made an update give up
  sstop,       \* _stop is set
  calls,       \* history: add() and remove() so far
  mishaps      \* history: faults so far

connection == <<ws, subs, watchdog, orphans, quiet>>
members    == <<assets, pendAdd, pendRemove>>
history    == <<asked, spoilt>>
svars == <<members, connection, run, seeds, update, history, sstop, calls, mishaps>>

NoUpdate == [pc |-> "idle", add |-> {}, remove |-> {}, todo |-> {}, current |-> TRUE]

STypeOK ==
  /\ assets \subseteq Tokens /\ pendAdd \subseteq Tokens /\ pendRemove \subseteq Tokens
  /\ ws \in {"none", "open", "mute", "closed"}
  /\ subs \subseteq Tokens /\ seeds \subseteq Tokens
  /\ run \in {"top", "empty", "connecting", "seeding", "capturing", "backoff", "done"}
  /\ watchdog \in BOOLEAN /\ orphans \in 0 .. MaxFaults
  /\ quiet \in BOOLEAN
  /\ update \in [pc : {"idle", "adding", "seeding", "removing"}, add : SUBSET Tokens,
                 remove : SUBSET Tokens, todo : SUBSET Tokens, current : BOOLEAN]
  /\ asked \subseteq Tokens
  /\ spoilt \in BOOLEAN /\ sstop \in BOOLEAN
  /\ calls \in 0 .. MaxCalls /\ mishaps \in 0 .. MaxFaults
  /\ seeds # {} => run = "seeding"
  /\ watchdog => run = "capturing"

SInit ==
  /\ assets = Initial /\ pendAdd = {} /\ pendRemove = {}
  /\ ws = "none" /\ subs = {}
  /\ run = "top" /\ seeds = {}
  /\ watchdog = FALSE /\ orphans = 0 /\ quiet = TRUE
  /\ update = NoUpdate
  /\ asked = {} /\ spoilt = FALSE
  /\ sstop = FALSE /\ calls = 0 /\ mishaps = 0

Fault == mishaps < MaxFaults /\ mishaps' = mishaps + 1
-----------------------------------------------------------------------------
(***************************************************************************)
(* run() and _connect_and_capture().                                       *)
(***************************************************************************)

\* The test of the loop, then that of the asset set.
Top ==
  /\ run = "top"
  /\ run' = IF sstop THEN "done" ELSE IF assets = {} THEN "empty" ELSE "connecting"
  /\ UNCHANGED <<members, connection, seeds, update, history, sstop, calls, mishaps>>

\* _connect_and_capture returned: with no assets, after a second.
CleanReturn ==
  /\ run = "empty"
  /\ run' = "top"
  /\ UNCHANGED <<members, connection, seeds, update, history, sstop, calls, mishaps>>

\* The handshake succeeds: _ws, the lifecycle record, _subscribe and the list of
\* assets to seed, before anything else can run.
Connect ==
  /\ run = "connecting"
  /\ run' = "seeding"
  /\ ws' = "open"
  /\ subs' = assets
  /\ seeds' = assets
  /\ asked' = {} /\ spoilt' = FALSE
  /\ update' = [update EXCEPT !.current = (update.pc = "idle")]
  /\ UNCHANGED <<members, watchdog, orphans, quiet, sstop, calls, mishaps>>

\* Variant: the connection's tasks are forgotten, not abandoned.
DisconnectLeftOver ==
  /\ run' = "backoff"
  /\ UNCHANGED <<seeds, watchdog, orphans>>

\* The except clause of run(): the lifecycle record, then the wait.  Leaving gather() and
\* the connection's "async with" closes it, and leaves its watchdog behind.
Disconnect ==
  /\ run' = "backoff"
  /\ seeds' = {}
  /\ watchdog' = FALSE
  /\ orphans' = IF watchdog THEN orphans + 1 ELSE orphans

ConnectFails ==
  /\ run = "connecting" /\ Fault
  /\ Disconnect
  /\ UNCHANGED <<members, ws, subs, quiet, update, asked, spoilt, sstop, calls>>

\* One asset of _seed_snapshots: a snapshot, or nothing after an HTTP error.
Seed ==
  /\ run = "seeding"
  /\ \E t \in seeds :
       /\ seeds' = seeds \ {t}
       /\ asked' = asked \cup {t}
  /\ UNCHANGED <<members, connection, run, update, spoilt, sstop, calls, mishaps>>

\* book() raises: the answer is no JSON object.
SeedFails ==
  /\ run = "seeding" /\ seeds # {} /\ Fault
  /\ Disconnect
  /\ ws' = "closed" /\ subs' = {}
  /\ UNCHANGED <<members, quiet, update, asked, spoilt, sstop, calls>>

\* Variant: _last_msg is still that of the connection before.
CaptureStale ==
  /\ run = "seeding" /\ seeds = {}
  /\ run' = "capturing"
  /\ watchdog' = TRUE
  /\ UNCHANGED <<members, ws, subs, orphans, quiet, seeds, update, history, sstop, calls, mishaps>>

\* All are seeded: _last_msg, then gather() of the three loops.
Capture ==
  /\ run = "seeding" /\ seeds = {}
  /\ run' = "capturing"
  /\ watchdog' = TRUE
  /\ quiet' = FALSE
  /\ UNCHANGED <<members, ws, subs, orphans, seeds, update, history, sstop, calls, mishaps>>

\* _recv_loop: a frame or a PONG.
Receive ==
  /\ run = "capturing" /\ ws = "open"
  /\ quiet' = FALSE
  /\ UNCHANGED <<members, ws, subs, watchdog, orphans, run, seeds, update,
                 history, sstop, calls, mishaps>>

\* The connection is closed: _recv_loop raises, or it has returned and the next
\* send of _ping_loop raises.  gather() passes the first exception on.
CaptureEnds ==
  /\ run = "capturing" /\ ws = "closed"
  /\ Disconnect
  /\ UNCHANGED <<members, ws, subs, quiet, update, asked, spoilt, sstop, calls, mishaps>>

\* asyncio.sleep(backoff) is over.
Backoff ==
  /\ run = "backoff"
  /\ run' = "top"
  /\ UNCHANGED <<members, connection, seeds, update, history, sstop, calls, mishaps>>

\* Variant: the watchdog leaves the connection alone.
WatchdogNoClose ==
  /\ watchdog /\ quiet
  /\ watchdog' = FALSE
  /\ UNCHANGED <<members, ws, subs, orphans, quiet, run, seeds, update,
                 asked, spoilt, sstop, calls, mishaps>>

\* _stale_watchdog of this connection finds it silent.
Watchdog ==
  /\ watchdog /\ quiet
  /\ watchdog' = FALSE
  /\ ws' = "closed" /\ subs' = {}
  /\ UNCHANGED <<members, orphans, quiet, run, seeds, update,
                 asked, spoilt, sstop, calls, mishaps>>

\* That of an earlier connection reads the same _last_msg; what it closes is
\* closed already.
OrphanWatchdog ==
  /\ orphans > 0 /\ quiet
  /\ orphans' = orphans - 1
  /\ UNCHANGED <<members, ws, subs, watchdog, quiet, run, seeds, update,
                 asked, spoilt, sstop, calls, mishaps>>
-----------------------------------------------------------------------------
(***************************************************************************)
(* add(), remove() and _apply_subscription_updates().                      *)
(***************************************************************************)

\* The sets are changed; without a connection they wait, with one they are
\* swapped out and the sends begin.
Apply(add, remove) ==
  IF ws = "none"
  THEN /\ pendAdd' = add /\ pendRemove' = remove
       /\ UNCHANGED update
  ELSE /\ pendAdd' = {} /\ pendRemove' = {}
       /\ update' = [pc |-> IF add # {} THEN "adding"
                            ELSE IF remove # {} THEN "removing" ELSE "idle",
                     add |-> add, remove |-> remove, todo |-> add, current |-> TRUE]

Called ==
  /\ update.pc = "idle"
  /\ calls < MaxCalls /\ calls' = calls + 1
  /\ EarlyUpdates \/ ws # "none"

Add(A) ==
  /\ Called
  /\ assets' = assets \cup A
  /\ Apply(pendAdd \cup (A \ assets), pendRemove)
  /\ UNCHANGED <<connection, run, seeds, history, sstop, mishaps>>

Remove(A) ==
  /\ Called
  /\ assets' = assets \ A
  /\ Apply(pendAdd, pendRemove \cup (A \cap assets))
  /\ UNCHANGED <<connection, run, seeds, history, sstop, mishaps>>

\* The captured ws takes what is sent: a mute one for nobody.
Sendable == update.current /\ ws \in {"open", "mute"}

SendAdd ==
  /\ update.pc = "adding" /\ Sendable
  /\ subs' = IF ws = "open" THEN subs \cup update.add ELSE subs
  /\ update' = [update EXCEPT !.pc = "seeding"]
  /\ asked' = asked \ update.add
  /\ UNCHANGED <<members, ws, watchdog, orphans, quiet, run, seeds, spoilt,
                 sstop, calls, mishaps>>

\* Variant: the assets that are new are not seeded.
SeedAddedSkipped ==
  /\ update.pc = "seeding"
  /\ update' = [update EXCEPT !.pc = IF update.remove # {} THEN "removing" ELSE "idle",
                              !.todo = {}]
  /\ UNCHANGED <<members, connection, run, seeds, history, sstop, calls, mishaps>>

\* _seed_snapshots of the update, whatever has become of the connection.
SeedAdded ==
  /\ update.pc = "seeding"
  /\ \/ /\ \E t \in update.todo :
             /\ update' = [update EXCEPT !.todo = @ \ {t}]
             /\ asked' = asked \cup {t}
     \/ /\ update.todo = {}
        /\ update' = IF update.remove # {} THEN [update EXCEPT !.pc = "removing"]
                     ELSE NoUpdate
        /\ UNCHANGED asked
  /\ UNCHANGED <<members, connection, run, seeds, spoilt, sstop, calls, mishaps>>

SendRemove ==
  /\ update.pc = "removing" /\ Sendable
  /\ subs' = IF ws = "open" THEN subs \ update.remove ELSE subs
  /\ update' = NoUpdate
  /\ UNCHANGED <<members, ws, watchdog, orphans, quiet, run, seeds, history,
                 sstop, calls, mishaps>>

\* Variant: the deltas go back to the pending sets.
UpdateFailsRequeued ==
  /\ update.pc \in {"adding", "removing"} /\ ~ Sendable
  /\ pendAdd' = pendAdd \cup update.add /\ pendRemove' = pendRemove \cup update.remove
  /\ update' = NoUpdate
  /\ UNCHANGED <<assets, connection, run, seeds, history, sstop, calls, mishaps>>

\* The except clause drops the deltas: a send on a closed connection raises.
UpdateFails ==
  /\ update.pc \in {"adding", "removing"} /\ ~ Sendable
  /\ update' = NoUpdate
  /\ UNCHANGED <<members, connection, run, seeds, history, sstop, calls, mishaps>>

\* The same when book() raises, on whatever connection there is.
BadBook ==
  /\ update.pc = "seeding" /\ update.todo # {} /\ Fault
  /\ update' = NoUpdate
  /\ spoilt' = (spoilt \/ update.current)
  /\ UNCHANGED <<members, connection, run, seeds, asked, sstop, calls>>

UpdateStep == SendAdd \/ SeedAdded \/ SendRemove
-----------------------------------------------------------------------------
(***************************************************************************)
(* The surroundings.                                                       *)
(***************************************************************************)

\* The server closes the connection, cleanly or not.
Drop ==
  /\ ws \in {"open", "mute"} /\ run \in {"seeding", "capturing"} /\ Fault
  /\ ws' = "closed" /\ subs' = {}
  /\ UNCHANGED <<members, watchdog, orphans, quiet, run, seeds, update,
                 history, sstop, calls>>

\* The path to the server breaks and nobody is told.
GoMute ==
  /\ ws = "open" /\ run \in {"seeding", "capturing"} /\ Fault
  /\ ws' = "mute"
  /\ UNCHANGED <<members, subs, watchdog, orphans, quiet, run, seeds, update,
                 history, sstop, calls>>

\* A long time passes without a message.  While a connection is captured and
\* not broken, each PING is answered within stale_after_s.
FallQuiet ==
  /\ ~ (run = "capturing" /\ ws = "open")
  /\ quiet' = TRUE
  /\ UNCHANGED <<members, ws, subs, watchdog, orphans, run, seeds, update,
                 history, sstop, calls, mishaps>>

Stop ==
  /\ sstop' = TRUE
  /\ UNCHANGED <<members, connection, run, seeds, update, history, calls, mishaps>>

RunStep == Top \/ CleanReturn \/ Connect \/ Seed \/ Capture \/ CaptureEnds \/ Backoff

SNext ==
  \/ RunStep \/ ConnectFails \/ SeedFails \/ Receive
  \/ Watchdog \/ OrphanWatchdog
  \/ \E A \in SUBSET Tokens \ {{}} : Add(A) \/ Remove(A)
  \/ UpdateStep \/ UpdateFails \/ BadBook
  \/ Drop \/ GoMute \/ FallQuiet \/ Stop

SSpec == SInit /\ [][SNext]_svars

\* The event loop runs every task, and its clock advances.
SFairness ==
  /\ WF_svars(RunStep) /\ WF_svars(Watchdog) /\ WF_svars(FallQuiet)
  /\ WF_svars(UpdateStep \/ UpdateFails)

SFairSpec == SSpec /\ SFairness
-----------------------------------------------------------------------------
\* When no update is on its way and the connection is up, the server sends what
\* the shard is to record, and nothing else: no interleaving of an update with a
\* lost connection and its reconnect, and no stale delta, leaves them apart.
\* Only an update that book() made give up does, until the next connection.
SubscribedIsWanted ==
  ws = "open" /\ update.pc = "idle" /\ ~ spoilt => subs = assets

\* On a connection whose frames are being archived, each asset that is
\* subscribed has had its book requested after it was subscribed, by the
\* (re)connect or by the update that added it.
CapturedWasSeeded ==
  run = "capturing" /\ ws = "open" /\ update.pc = "idle" /\ ~ spoilt =>
    subs \subseteq asked

\* A connection that was closed, or that fell silent without being closed, is
\* replaced, unless the shard is stopped or has nothing left to record.
Reconnects ==
  ws \in {"mute", "closed"} ~> (ws = "open" \/ sstop \/ assets = {})

\* A connection that works is never closed from this side: not by its own
\* watchdog, although _last_msg may be old when its capture begins, and not by one
\* that an earlier connection left behind and that reads the same _last_msg.
WorkingConnectionKept ==
  [][ws = "open" /\ ws' = "closed" => mishaps' = mishaps + 1]_svars
=============================================================================
