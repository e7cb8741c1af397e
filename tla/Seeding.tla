------------------------------ MODULE Seeding ------------------------------
(***************************************************************************)
(* Who stands in the limiter's line, and for how long: shards that seed    *)
(* their connections one asset after the other, and the candidates of a    *)
(* refinement, which all ask at once (asyncio.gather).  A shard neither    *)
(* reads its connection nor sends a PING before its seeding has ended.     *)
(*                                                                         *)
(* Bounds on time need bounds on the surroundings: a request is answered   *)
(* within MaxAnswer (httpx times out), a sleep lasts at most MaxLag too    *)
(* long, and whoever is ready to run does so before the clock advances.    *)
(***************************************************************************)
EXTENDS RateLimiter, FiniteSets

CONSTANTS
  Shards,       \* the callers that are shards; the others are candidates
  NAssets,      \* how many assets a shard has
  MaxLag,       \* bound: how long a sleep may go on after its end
  MaxAnswer,    \* bound: how long an answer of the CLOB takes
  Never

ASSUME SeedingAssumption ==
  /\ IsFiniteSet(Callers) /\ Shards \subseteq Callers
  /\ NAssets \in Nat \ {0} /\ MaxLag \in Nat /\ MaxAnswer \in Nat
  /\ Never \notin Nat

VARIABLES
  left,     \* the requests that each caller has still to make
  asked,    \* when its request on the way was sent, or Never
  since,    \* when its connection was made, if it is being seeded
  passed    \* history: who was granted a request since it called acquire()

svars == <<rvars, left, asked, since, passed>>

SInit ==
  /\ RInit
  /\ left = [c \in Callers |-> 0]
  /\ asked = [c \in Callers |-> Never]
  /\ since = [c \in Callers |-> Never]
  /\ passed = [c \in Callers |-> <<>>]

Waiting(c) == c = holder \/ Waits(c)
Ready(c)   == left[c] > 0 /\ asked[c] = Never /\ ~ Waiting(c)
-----------------------------------------------------------------------------
\* A connection is made: initially, after a disconnect, in a storm of several.
Connect(s) ==
  /\ s \in Shards /\ left[s] = 0 /\ asked[s] = Never
  /\ left' = [left EXCEPT ![s] = NAssets]
  /\ since' = [since EXCEPT ![s] = clock]
  /\ UNCHANGED <<rvars, asked, passed>>

\* _refine: one request for each candidate.  The next refresh comes long after.
Refine ==
  /\ \A c \in Callers \ Shards : left[c] = 0 /\ asked[c] = Never
  /\ left' = [c \in Callers |-> IF c \in Shards THEN left[c] ELSE 1]
  /\ Callers \ Shards # {}
  /\ UNCHANGED <<rvars, asked, since, passed>>

\* c goes on in acquire(): if it returns, c sends its request.
GoesOn(c) ==
  /\ IF grants' = grants
     THEN UNCHANGED <<asked, passed>>
     ELSE /\ asked' = [asked EXCEPT ![c] = clock]
          /\ passed' = [d \in Callers |-> IF d # c /\ Waiting(d) THEN Append(passed[d], c)
                                          ELSE IF d = c THEN <<>> ELSE passed[d]]
  /\ UNCHANGED <<left, since>>

Ask(c)  == Ready(c) /\ Acquire(c) /\ GoesOn(c)
NextUp  == Turn /\ GoesOn(Head(line))
WakeUp  == Wake /\ GoesOn(holder)

\* Variant: a request that failed is made again.
AnswerRetries(c) ==
  /\ asked[c] # Never
  /\ asked' = [asked EXCEPT ![c] = Never]
  /\ \E n \in 0 .. 1 :
       /\ left' = [left EXCEPT ![c] = @ - n]
       /\ since' = [since EXCEPT ![c] = IF left[c] = n THEN Never ELSE @]
  /\ UNCHANGED <<rvars, passed>>

\* book() returns, with the snapshot or None; the next asset is due.
Answer(c) ==
  /\ asked[c] # Never
  /\ asked' = [asked EXCEPT ![c] = Never]
  /\ left' = [left EXCEPT ![c] = @ - 1]
  /\ since' = [since EXCEPT ![c] = IF left[c] = 1 THEN Never ELSE @]
  /\ UNCHANGED <<rvars, passed>>

\* The caller gives up: book() raises on an answer that is no JSON, or its task
\* is cancelled where it waits.
GiveUp(c) ==
  /\ \/ asked[c] # Never /\ UNCHANGED rvars
     \/ Cancel(c)
  /\ asked' = [asked EXCEPT ![c] = Never]
  /\ left' = [left EXCEPT ![c] = 0]
  /\ since' = [since EXCEPT ![c] = Never]
  /\ passed' = [passed EXCEPT ![c] = <<>>]

Time ==
  /\ \A c \in Callers : ~ Ready(c) /\ (asked[c] # Never => clock < asked[c] + MaxAnswer)
  /\ holder = Nobody => line = <<>>
  /\ holder # Nobody => clock < until + MaxLag
  /\ Tick
  /\ UNCHANGED <<left, asked, since, passed>>

SNext ==
  \/ \E c \in Callers : Connect(c) \/ Ask(c) \/ Answer(c) \/ GiveUp(c)
  \/ Refine \/ NextUp \/ WakeUp \/ Time

SSpec == SInit /\ [][SNext]_svars
-----------------------------------------------------------------------------
\* The line is fair: while a caller waits, no other one is served twice, however
\* often it comes back.  Shards that reconnect and a refinement of many candidates
\* delay each other by one request each.
PassedOnce == \A c \in Callers : IsInjective(passed[c])

\* How long a connection is neither read nor kept alive, and how late recv_ts
\* may be for what the server sent meanwhile: each of its assets costs a shard at
\* most one grant of each caller, and an answer.
SilentAtMost ==
  \A s \in Shards : since[s] # Never =>
    clock - since[s] =<
      NAssets * (Cardinality(Callers) * (MinInterval + MaxLag) + MaxAnswer)
=============================================================================
