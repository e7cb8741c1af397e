---------------------------- MODULE RateLimiter ----------------------------
(***************************************************************************)
(* ratelimit.py: the AsyncRateLimiter that the Gamma client, the CLOB      *)
(* client of every shard and the universe refinement share.  Time is       *)
(* time.monotonic() in whole units; asyncio.Lock is fair.                  *)
(***************************************************************************)
EXTENDS Integers, Sequences, SequencesExt

CONSTANTS
  Callers,       \* coroutines that call acquire()
  MinInterval,   \* rest_min_interval_s
  MaxTime,       \* bound: the clock stops there
  Nobody

ASSUME LimiterAssumption ==
  /\ MinInterval \in Nat \ {0} /\ MaxTime \in Nat
  /\ Nobody \notin Callers

VARIABLES
  clock,    \* time.monotonic()
  last,     \* self._last
  holder,   \* who has the lock and sleeps in it, or Nobody
  until,    \* when that sleep ends
  line,     \* who waits for the lock, in its order
  grants    \* history: when acquire() returned

rvars == <<clock, last, holder, until, line, grants>>

RTypeOK ==
  /\ clock \in 0 .. MaxTime
  /\ last \in 0 .. clock
  /\ holder \in Callers \cup {Nobody}
  /\ until \in Nat
  /\ line \in Seq(Callers)
  /\ grants \in Seq(0 .. clock)

RInit ==
  /\ clock \in 0 .. MaxTime
  /\ last = 0 /\ holder = Nobody /\ until = 0
  /\ line = <<>> /\ grants = <<>>
-----------------------------------------------------------------------------
Waits(c) == \E i \in DOMAIN line : line[i] = c

\* self._last = time.monotonic(), and the lock is released.
Grant ==
  /\ last' = clock
  /\ grants' = Append(grants, clock)
  /\ holder' = Nobody
  /\ UNCHANGED until

\* Variant: the next slot is reserved before the sleep.
EnterReserves(c) ==
  LET wait == MinInterval - (clock - last) IN
  \/ /\ wait > 0
     /\ holder' = c
     /\ until' = clock + wait
     /\ last' = clock + wait
     /\ UNCHANGED grants
  \/ wait =< 0 /\ Grant

\* What acquire() does once it has the lock.
Enter(c) ==
  LET wait == MinInterval - (clock - last) IN
  \/ /\ wait > 0
     /\ holder' = c
     /\ until' = clock + wait
     /\ UNCHANGED <<last, grants>>
  \/ wait =< 0 /\ Grant

\* Variant: a lock that is free is taken, whoever waits for it.
AcquireBarges(c) ==
  /\ c # holder /\ ~ Waits(c)
  /\ \/ /\ holder = Nobody
        /\ Enter(c) /\ UNCHANGED line
     \/ /\ holder # Nobody
        /\ line' = Append(line, c)
        /\ UNCHANGED <<last, holder, until, grants>>
  /\ UNCHANGED clock

\* acquire() takes the lock at once, or gets in line for it.
Acquire(c) ==
  /\ c # holder /\ ~ Waits(c)
  /\ \/ /\ holder = Nobody /\ line = <<>>
        /\ Enter(c) /\ UNCHANGED line
     \/ /\ holder # Nobody \/ line # <<>>
        /\ line' = Append(line, c)
        /\ UNCHANGED <<last, holder, until, grants>>
  /\ UNCHANGED clock

\* The lock goes to the first in line.
Turn ==
  /\ holder = Nobody /\ line # <<>>
  /\ Enter(Head(line))
  /\ line' = Tail(line)
  /\ UNCHANGED clock

\* Variant: only a caller that need not sleep notes the time.
WakeUnstamped ==
  /\ holder # Nobody /\ clock >= until
  /\ grants' = Append(grants, clock)
  /\ holder' = Nobody
  /\ UNCHANGED <<clock, last, until, line>>

\* asyncio.sleep(wait) is over.
Wake ==
  /\ holder # Nobody /\ clock >= until
  /\ Grant
  /\ UNCHANGED <<clock, line>>

\* The caller is cancelled, in its sleep or in the line: "async with" releases
\* the lock and _last stays.
Cancel(c) ==
  /\ \/ /\ holder = c
        /\ holder' = Nobody
        /\ UNCHANGED line
     \/ /\ \E i \in DOMAIN line : line[i] = c /\ line' = RemoveAt(line, i)
        /\ UNCHANGED holder
  /\ UNCHANGED <<clock, last, until, grants>>

Tick ==
  /\ clock < MaxTime
  /\ clock' = clock + 1
  /\ UNCHANGED <<last, holder, until, line, grants>>

RNext ==
  \/ \E c \in Callers : Acquire(c) \/ Cancel(c)
  \/ Turn \/ Wake \/ Tick

RSpec == RInit /\ [][RNext]_rvars
-----------------------------------------------------------------------------
\* The REST budget: any n + 1 requests of all callers together take at least n
\* times min_interval, whoever waits, is cancelled or comes back.
Budget ==
  \A i, j \in DOMAIN grants :
    i =< j => grants[j] - grants[i] >= (j - i) * MinInterval
=============================================================================
