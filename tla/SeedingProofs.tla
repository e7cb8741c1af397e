--------------------------- MODULE SeedingProofs ---------------------------
(***************************************************************************)
(* Proofs about the limiter and its callers.  The limiter keeps its budget *)
(* for any set of callers and any interval, whatever is cancelled.  That   *)
(* holds of the shards and candidates that use it, none of them is passed  *)
(* twice by another, and the seeding of a connection ends in time.         *)
(***************************************************************************)
EXTENDS Seeding, SequenceTheorems, FiniteSetTheorems, TLAPS

\* The last n + 1 requests already span n intervals at the time of _last.
SinceGrant ==
  \A i \in DOMAIN grants : last - grants[i] >= (Len(grants) - i) * MinInterval

\* Who sleeps with the lock does so until an interval after _last.
SleepsLongEnough == holder # Nobody => until >= last + MinInterval

RInv == RTypeOK /\ SinceGrant /\ SleepsLongEnough /\ Budget
-----------------------------------------------------------------------------
LEMMA RInitInv == RInit => RInv
BY LimiterAssumption
   DEF RInit, RInv, RTypeOK, SinceGrant, SleepsLongEnough, Budget

\* A request that comes at least an interval after _last extends the budget.
LEMMA GrantInv ==
  ASSUME RInv, Grant, clock - last >= MinInterval, UNCHANGED clock,
         line' \in Seq(Callers)
  PROVE  RInv'
<1> DEFINE n == Len(grants)
<1>1. /\ MinInterval \in Nat /\ clock \in Nat /\ last \in Nat /\ n \in Nat
      /\ grants \in Seq(0 .. clock) /\ clock \in 0 .. MaxTime
      /\ \A i \in 1 .. n : grants[i] \in Nat
  BY LimiterAssumption DEF RInv, RTypeOK
<1>2. /\ grants' \in Seq(0 .. clock) /\ Len(grants') = n + 1
      /\ \A i \in 1 .. n : grants'[i] = grants[i]
      /\ grants'[n + 1] = clock
  BY <1>1 DEF Grant
<1>3. RTypeOK'
  BY <1>1, <1>2 DEF RInv, RTypeOK, Grant
<1>4. ASSUME NEW i \in 1 .. n
      PROVE  clock - grants[i] >= ((n + 1) - i) * MinInterval
  <2>1. last - grants[i] >= (n - i) * MinInterval
    BY <1>1 DEF RInv, SinceGrant
  <2>2. ((n + 1) - i) * MinInterval = (n - i) * MinInterval + MinInterval
    BY <1>1
  <2>3. (n - i) * MinInterval \in Int
    BY <1>1
  <2> QED BY <1>1, <2>1, <2>2, <2>3
<1>5. SinceGrant'
  <2> SUFFICES ASSUME NEW i \in 1 .. (n + 1)
               PROVE  clock - grants'[i] >= ((n + 1) - i) * MinInterval
    BY <1>1, <1>2 DEF SinceGrant, Grant
  <2> HIDE DEF n
  <2>1. CASE i = n + 1
    BY <1>1, <1>2, <2>1
  <2>2. CASE i \in 1 .. n
    BY <1>2, <1>4, <2>2
  <2> QED BY <1>1, <2>1, <2>2
<1>6. SleepsLongEnough'
  BY DEF SleepsLongEnough, Grant
<1>7. Budget'
  <2> SUFFICES ASSUME NEW i \in 1 .. (n + 1), NEW j \in 1 .. (n + 1), i =< j
               PROVE  grants'[j] - grants'[i] >= (j - i) * MinInterval
    BY <1>1, <1>2 DEF Budget
  <2>1. CASE j \in 1 .. n
    <3>1. i \in 1 .. n
      BY <1>1, <2>1
    <3>2. DOMAIN grants = 1 .. n
      BY <1>1
    <3>3. grants[j] - grants[i] >= (j - i) * MinInterval
      BY <2>1, <3>1, <3>2 DEF RInv, Budget
    <3>4. grants'[j] = grants[j] /\ grants'[i] = grants[i]
      BY <1>2, <2>1, <3>1
    <3> QED BY <3>3, <3>4
  <2> HIDE DEF n
  <2>2. CASE j = n + 1 /\ i \in 1 .. n
    BY <1>2, <1>4, <2>2
  <2>3. CASE j = n + 1 /\ i = n + 1
    BY <1>1, <1>2, <2>3
  <2> QED BY <1>1, <2>1, <2>2, <2>3
<1> QED BY <1>3, <1>5, <1>6, <1>7 DEF RInv

\* acquire(), once it has the lock: it returns or sleeps.
LEMMA EnterInv ==
  ASSUME RInv, NEW c \in Callers, Enter(c), UNCHANGED clock, line' \in Seq(Callers)
  PROVE  RInv'
<1>1. MinInterval \in Nat /\ clock \in Nat /\ last \in Nat
  BY LimiterAssumption DEF RInv, RTypeOK
<1>2. CASE MinInterval - (clock - last) =< 0 /\ Grant
  BY <1>1, <1>2, GrantInv
<1>3. CASE /\ MinInterval - (clock - last) > 0
           /\ holder' = c /\ until' = clock + (MinInterval - (clock - last))
           /\ UNCHANGED <<last, grants>>
  <2>1. until' = last + MinInterval
    BY <1>1, <1>3
  <2>2. RTypeOK'
    BY <1>1, <1>3, <2>1 DEF RInv, RTypeOK
  <2>3. SinceGrant' /\ Budget'
    BY <1>3 DEF RInv, SinceGrant, Budget
  <2>4. SleepsLongEnough'
    BY <1>1, <1>3, <2>1 DEF SleepsLongEnough
  <2> QED BY <2>2, <2>3, <2>4 DEF RInv
<1> QED BY <1>2, <1>3 DEF Enter

\* A step that changes who waits, or only the time, keeps the invariant.
LEMMA WaitingInv ==
  ASSUME RInv, UNCHANGED <<last, until, grants>>, clock' \in clock .. MaxTime,
         line' \in Seq(Callers), holder' \in {holder, Nobody}
  PROVE  RInv'
<1>1. RTypeOK'
  <2>1. clock \in Nat /\ clock' \in Nat /\ clock =< clock' /\ MaxTime \in Nat
    BY LimiterAssumption DEF RInv, RTypeOK
  <2>2. grants' \in Seq(0 .. clock')
    BY <2>1 DEF RInv, RTypeOK
  <2> QED BY <2>1, <2>2 DEF RInv, RTypeOK
<1>2. SinceGrant' /\ Budget' /\ SleepsLongEnough'
  BY DEF RInv, SinceGrant, Budget, SleepsLongEnough
<1> QED BY <1>1, <1>2 DEF RInv

LEMMA RStepInv == RInv /\ [RNext]_rvars => RInv'
<1> SUFFICES ASSUME RInv, [RNext]_rvars PROVE RInv'
  OBVIOUS
<1>0. /\ MinInterval \in Nat /\ MaxTime \in Nat /\ clock \in 0 .. MaxTime /\ last \in 0 .. clock
      /\ line \in Seq(Callers) /\ holder \in Callers \cup {Nobody} /\ until \in Nat
  BY LimiterAssumption DEF RInv, RTypeOK
<1>1. ASSUME NEW c \in Callers, Acquire(c) PROVE RInv'
  <2>1. CASE Enter(c) /\ UNCHANGED line
    BY <1>0, <1>1, <2>1, EnterInv DEF Acquire
  <2>2. CASE line' = Append(line, c) /\ UNCHANGED <<last, holder, until, grants>>
    <3>1. line' \in Seq(Callers)
      BY <1>0, <2>2
    <3> QED BY <1>0, <1>1, <2>2, <3>1, WaitingInv DEF Acquire
  <2> QED BY <1>1, <2>1, <2>2 DEF Acquire
<1>2. ASSUME NEW c \in Callers, Cancel(c) PROVE RInv'
  <2>1. line' \in Seq(Callers)
    <3>1. CASE UNCHANGED line
      BY <1>0, <3>1
    <3>2. CASE \E i \in DOMAIN line : line' = RemoveAt(line, i)
      BY <1>0, <3>2 DEF RemoveAt
    <3> QED BY <1>2, <3>1, <3>2 DEF Cancel
  <2> QED BY <1>0, <1>2, <2>1, WaitingInv DEF Cancel
<1>3. CASE Turn
  <2>1. Head(line) \in Callers /\ Tail(line) \in Seq(Callers)
    BY <1>0, <1>3 DEF Turn
  <2> QED BY <1>3, <2>1, EnterInv DEF Turn
<1>4. CASE Wake
  <2>1. clock - last >= MinInterval
    BY <1>0, <1>4 DEF Wake, RInv, SleepsLongEnough
  <2> QED BY <1>0, <1>4, <2>1, GrantInv DEF Wake
<1>5. CASE Tick
  BY <1>0, <1>5, WaitingInv DEF Tick
<1>6. CASE UNCHANGED rvars
  BY <1>0, <1>6, WaitingInv DEF rvars
<1> QED BY <1>1, <1>2, <1>3, <1>4, <1>5, <1>6 DEF RNext
-----------------------------------------------------------------------------
\* The limiter's variables keep their types; in particular _last is never in
\* the future.
THEOREM LimiterTypeCorrect == RSpec => []RTypeOK
<1>1. RInv => RTypeOK
  BY DEF RInv
<1> QED BY RInitInv, RStepInv, <1>1, PTL DEF RSpec

\* The rate limit of ratelimit.py's docstring: requests of all callers together
\* never exceed one per min_interval, over any stretch of them.
THEOREM BudgetKept == RSpec => []Budget
<1>1. RInv => Budget
  BY DEF RInv
<1> QED BY RInitInv, RStepInv, <1>1, PTL DEF RSpec
-----------------------------------------------------------------------------
(***************************************************************************)
(* The line of the limiter.                                                *)
(***************************************************************************)
N    == Cardinality(Callers)
Held == IF holder = Nobody THEN 0 ELSE 1

\* No caller stands in the line twice, or sleeps and stands in it.
Distinct ==
  /\ \A i, j \in DOMAIN line : line[i] = line[j] => i = j
  /\ \A i \in DOMAIN line : line[i] # holder

\* How many have passed each caller.
Passes == [c \in Callers |-> Len(passed[c])]

\* Each grant to another moves a caller one place forward, so what has passed
\* it and what is before it are never more than the other callers.
Places ==
  /\ Passes \in [Callers -> Nat]
  /\ \A c \in Callers : ~ Waiting(c) => Passes[c] = 0
  /\ \A i \in DOMAIN line : Passes[line[i]] + Held + i =< N
  /\ holder # Nobody => Passes[holder] < N

LInv == RTypeOK /\ Distinct /\ Places

\* e holds the lock, or stands in the line, not behind c.
Ahead(e, c) ==
  \/ e = holder
  \/ \E i, j \in DOMAIN line : i =< j /\ line[i] = e /\ line[j] = c

\* Who has passed a caller is behind it.
InOrder ==
  /\ passed \in [Callers -> Seq(Callers)]
  /\ \A c \in Callers : IsInjective(passed[c])
  /\ \A c, e \in Callers : Ahead(e, c) => e \notin Range(passed[c])

\* c is granted, and the others that wait are passed by it.
PassedBy(c) ==
  passed' = [d \in Callers |-> IF d # c /\ Waiting(d) THEN Append(passed[d], c)
                               ELSE IF d = c THEN <<>> ELSE passed[d]]

\* The counts follow the lists.
LEMMA PassesFollow ==
  ASSUME passed \in [Callers -> Seq(Callers)], NEW c \in Callers
  PROVE  /\ Passes \in [Callers -> Nat]
         /\ UNCHANGED passed => UNCHANGED Passes
         /\ passed' = [passed EXCEPT ![c] = <<>>] => Passes' = [Passes EXCEPT ![c] = 0]
         /\ PassedBy(c) =>
              Passes' = [d \in Callers |-> IF d # c /\ Waiting(d) THEN Passes[d] + 1
                                           ELSE IF d = c THEN 0 ELSE Passes[d]]
<1>1. /\ \A d \in Callers : Len(passed[d]) \in Nat /\ Len(Append(passed[d], c)) = Len(passed[d]) + 1
      /\ Len(<<>>) = 0
  BY EmptySeq, AppendProperties, LenProperties
<1>2. Passes \in [Callers -> Nat] /\ (UNCHANGED passed => UNCHANGED Passes)
  BY <1>1 DEF Passes
<1>3. ASSUME passed' = [passed EXCEPT ![c] = <<>>] PROVE Passes' = [Passes EXCEPT ![c] = 0]
  <2>1. \A d \in Callers : Len(passed'[d]) = IF d = c THEN 0 ELSE Len(passed[d])
    BY <1>1, <1>3
  <2> QED BY <2>1 DEF Passes
<1>4. ASSUME PassedBy(c)
      PROVE  Passes' = [d \in Callers |-> IF d # c /\ Waiting(d) THEN Passes[d] + 1
                                          ELSE IF d = c THEN 0 ELSE Passes[d]]
  <2>1. \A d \in Callers : Len(passed'[d]) = IF d # c /\ Waiting(d) THEN Len(passed[d]) + 1
                                              ELSE IF d = c THEN 0 ELSE Len(passed[d])
    BY <1>1, <1>4 DEF PassedBy
  <2> QED BY <2>1 DEF Passes
<1> QED BY <1>2, <1>3, <1>4
-----------------------------------------------------------------------------
\* RemoveAt of the community modules leaves one element out.
LEMMA RemoveOne ==
  ASSUME NEW S, NEW s \in Seq(S), NEW i \in 1 .. Len(s)
  PROVE  /\ RemoveAt(s, i) \in Seq(S)
         /\ DOMAIN RemoveAt(s, i) = 1 .. Len(s) - 1
         /\ \A j \in 1 .. Len(s) - 1 :
              RemoveAt(s, i)[j] = IF j < i THEN s[j] ELSE s[j + 1]
<1> DEFINE a == SubSeq(s, 1, i - 1)
           b == SubSeq(s, i + 1, Len(s))
<1>1. Len(s) \in Nat /\ i \in Nat /\ i >= 1 /\ i =< Len(s)
  BY LenProperties
<1>2. \A j \in 1 .. Len(s) : s[j] \in S
  BY ElementOfSeq
<1>3. /\ a \in Seq(S) /\ Len(a) = i - 1
      /\ \A j \in 1 .. i - 1 : a[j] = s[j]
  <2>1. \A j \in 1 .. i - 1 : s[j] \in S
    BY <1>1, <1>2
  <2>2. /\ a \in Seq(S)
        /\ Len(a) = IF 1 =< i - 1 THEN (i - 1) - 1 + 1 ELSE 0
        /\ \A j \in 1 .. (i - 1) - 1 + 1 : a[j] = s[1 + j - 1]
    BY <1>1, <2>1, SubSeqProperties
  <2> QED BY <1>1, <2>2
<1>4. /\ b \in Seq(S) /\ Len(b) = Len(s) - i
      /\ \A j \in 1 .. Len(s) - i : b[j] = s[i + j]
  <2>1. \A j \in i + 1 .. Len(s) : s[j] \in S
    BY <1>1, <1>2
  <2>2. /\ b \in Seq(S)
        /\ Len(b) = IF i + 1 =< Len(s) THEN Len(s) - (i + 1) + 1 ELSE 0
        /\ \A j \in 1 .. Len(s) - (i + 1) + 1 : b[j] = s[(i + 1) + j - 1]
    BY <1>1, <2>1, SubSeqProperties
  <2>3. \A j \in 1 .. Len(s) - i : b[j] = s[i + j]
    <3> SUFFICES ASSUME NEW j \in 1 .. Len(s) - i PROVE b[j] = s[i + j]
      OBVIOUS
    <3>1. j \in 1 .. Len(s) - (i + 1) + 1 /\ (i + 1) + j - 1 = i + j
      BY <1>1
    <3> QED BY <2>2, <3>1
  <2> QED BY <1>1, <2>2, <2>3
<1>5. /\ a \o b \in Seq(S) /\ Len(a \o b) = Len(a) + Len(b)
      /\ \A j \in 1 .. Len(a) + Len(b) : (a \o b)[j] = IF j =< Len(a) THEN a[j] ELSE b[j - Len(a)]
  BY <1>3, <1>4, ConcatProperties
<1> HIDE DEF a, b
<1>6. DOMAIN (a \o b) = 1 .. Len(s) - 1
  BY <1>1, <1>3, <1>4, <1>5, LenProperties
<1>7. ASSUME NEW j \in 1 .. Len(s) - 1
      PROVE  (a \o b)[j] = IF j < i THEN s[j] ELSE s[j + 1]
  <2>1. CASE j < i
    BY <1>1, <1>3, <1>4, <1>5, <2>1
  <2>2. CASE ~ (j < i)
    <3>1. j - (i - 1) \in 1 .. Len(s) - i /\ i + (j - (i - 1)) = j + 1
      BY <1>1, <2>2
    <3>2. (a \o b)[j] = b[j - (i - 1)]
      BY <1>1, <1>3, <1>4, <1>5, <2>2
    <3> QED BY <1>4, <2>2, <3>1, <3>2
  <2> QED BY <2>1, <2>2
<1> QED BY <1>5, <1>6, <1>7 DEF RemoveAt, a, b

LEMMA CardinalityUpTo == ASSUME NEW n \in Nat PROVE Cardinality(1 .. n) = n
<1>1. Cardinality(1 .. n) = IF 1 > n THEN 0 ELSE n - 1 + 1
  BY FS_Interval
<1> QED BY <1>1

\* A caller that neither sleeps nor waits finds room behind the others.
LEMMA RoomForOne ==
  ASSUME RTypeOK, Distinct, NEW c \in Callers, ~ Waiting(c)
  PROVE  N \in Nat /\ Held + Len(line) + 1 =< N
<1> DEFINE T == Callers \ {c}
           U == T \ {holder}
<1>1. /\ IsFiniteSet(T) /\ N \in Nat /\ Cardinality(T) = N - 1
  BY SeedingAssumption, FS_CardinalityType, FS_RemoveElement DEF N
<1>2. /\ IsFiniteSet(U) /\ Cardinality(U) \in Nat
      /\ Cardinality(U) = IF holder \in T THEN Cardinality(T) - 1 ELSE Cardinality(T)
  BY <1>1, FS_RemoveElement, FS_CardinalityType
<1>3. line \in Injection(1 .. Len(line), U)
  <2>1. DOMAIN line = 1 .. Len(line) /\ line \in [1 .. Len(line) -> Callers]
    BY LenProperties DEF RTypeOK
  <2>2. \A i \in DOMAIN line : line[i] # c /\ line[i] # holder /\ line[i] \in Callers
    BY <2>1 DEF Waiting, Waits, Distinct
  <2>3. line \in [1 .. Len(line) -> U]
    BY <2>1, <2>2
  <2> QED BY <2>1, <2>3 DEF Injection, IsInjective, Distinct
<1>4. Cardinality(1 .. Len(line)) = Len(line) /\ Len(line) \in Nat
  <2>1. Len(line) \in Nat
    BY LenProperties DEF RTypeOK
  <2> HIDE DEF T, U
  <2> QED BY ONLY <2>1, CardinalityUpTo
<1> HIDE DEF U, T
<1>5. Len(line) =< Cardinality(U)
  BY <1>2, <1>3, <1>4, FS_Injection
<1>6. holder # Nobody => holder \in T
  BY DEF RTypeOK, Waiting, T
<1> QED BY <1>1, <1>2, <1>4, <1>5, <1>6 DEF Held
-----------------------------------------------------------------------------
(***************************************************************************)
(* The callers use the limiter as RateLimiter says.                        *)
(***************************************************************************)
LEMMA StepIsLimiter == [SNext]_svars => [RNext]_rvars
<1> SUFFICES ASSUME [SNext]_svars PROVE [RNext]_rvars
  OBVIOUS
<1>1. ASSUME NEW c \in Callers, Connect(c) \/ Ask(c) \/ Answer(c) \/ GiveUp(c)
      PROVE  [RNext]_rvars
  BY <1>1 DEF Connect, Ask, Answer, GiveUp, RNext
<1>2. CASE Refine \/ NextUp \/ WakeUp \/ Time
  BY <1>2 DEF Refine, NextUp, WakeUp, Time, RNext
<1> QED BY <1>1, <1>2 DEF SNext, svars

\* Shards and refinements obey the protocol of the limiter.
THEOREM CallersUseLimiter == SSpec => RSpec
<1>1. SInit => RInit
  BY DEF SInit
<1> QED BY <1>1, StepIsLimiter, PTL DEF SSpec, RSpec

\* The REST budget holds for all shards and candidates together.
THEOREM BudgetOfAll == SSpec => []Budget
BY CallersUseLimiter, BudgetKept, PTL

\* The limiter's state stays in its types under these callers.
THEOREM SeedingTypeCorrect == SSpec => []RTypeOK
BY CallersUseLimiter, LimiterTypeCorrect, PTL
-----------------------------------------------------------------------------
(***************************************************************************)
(* The line is fair.                                                       *)
(***************************************************************************)

\* A step that leaves the line and the counts alone.
LEMMA QuietPlaces ==
  ASSUME LInv, RTypeOK', UNCHANGED <<holder, line, Passes>>
  PROVE  LInv'
BY DEF LInv, Distinct, Places, Held, Waiting, Waits

\* One more at the end of the line.
LEMMA QueuePlaces ==
  ASSUME LInv, RTypeOK', NEW c \in Callers, ~ Waiting(c),
         line' = Append(line, c), UNCHANGED <<holder, Passes>>
  PROVE  LInv'
<1> DEFINE n == Len(line)
<1>1. /\ line \in Seq(Callers) /\ n \in Nat /\ DOMAIN line = 1 .. n
      /\ \A i \in 1 .. n : line[i] \in Callers
      /\ Passes \in [Callers -> Nat]
  BY LenProperties, ElementOfSeq DEF LInv, RTypeOK, Places
<1>2. /\ DOMAIN line' = 1 .. n + 1
      /\ \A i \in 1 .. n : line'[i] = line[i]
      /\ line'[n + 1] = c
  BY <1>1, AppendProperties, LenProperties
<1>3. \A i \in 1 .. n : line[i] # c
  BY <1>1 DEF Waiting, Waits
<1>4. c # holder /\ Passes[c] = 0
  BY DEF LInv, Places, Waiting
<1>5. Held \in Nat /\ N \in Nat /\ Held + n + 1 =< N /\ Held' = Held
  BY RoomForOne DEF LInv, Held
<1> HIDE DEF n
<1>6. Distinct'
  <2>1. \A i, j \in 1 .. n : line[i] = line[j] => i = j
    BY <1>1 DEF LInv, Distinct
  <2>2. \A i \in 1 .. n : line[i] # holder
    BY <1>1 DEF LInv, Distinct
  <2>3. ASSUME NEW i \in 1 .. n + 1, NEW j \in 1 .. n + 1, line'[i] = line'[j]
        PROVE  i = j
    <3>1. CASE i = n + 1 /\ j \in 1 .. n
      BY <1>2, <1>3, <2>3, <3>1
    <3>2. CASE j = n + 1 /\ i \in 1 .. n
      BY <1>2, <1>3, <2>3, <3>2
    <3>3. CASE i \in 1 .. n /\ j \in 1 .. n
      BY <1>2, <2>1, <2>3, <3>3
    <3> QED BY <1>1, <3>1, <3>2, <3>3
  <2>4. ASSUME NEW i \in 1 .. n + 1 PROVE line'[i] # holder'
    <3>1. CASE i = n + 1
      BY <1>2, <1>4, <3>1
    <3>2. CASE i \in 1 .. n
      BY <1>2, <2>2, <3>2
    <3> QED BY <1>1, <3>1, <3>2
  <2> QED BY <1>2, <2>3, <2>4 DEF Distinct
<1>7. Places'
  <2>1. ASSUME NEW d \in Callers, ~ Waiting(d)' PROVE Passes'[d] = 0
    <3>1. ~ Waiting(d)
      BY <1>1, <1>2, <2>1 DEF Waiting, Waits
    <3> QED BY <3>1 DEF LInv, Places
  <2>2. ASSUME NEW i \in 1 .. n + 1 PROVE Passes'[line'[i]] + Held + i =< N
    <3>1. CASE i = n + 1
      BY <1>1, <1>2, <1>4, <1>5, <3>1
    <3>2. CASE i \in 1 .. n
      BY <1>1, <1>2, <3>2 DEF LInv, Places
    <3> QED BY <1>1, <3>1, <3>2
  <2> QED BY <1>2, <1>5, <2>1, <2>2 DEF LInv, Places
<1> QED BY <1>6, <1>7 DEF LInv

\* The first in line leaves it, to sleep in the lock or with a grant.
LEMMA TurnPlaces ==
  ASSUME LInv, RTypeOK', holder = Nobody, line # <<>>, line' = Tail(line),
         \/ holder' = Head(line) /\ UNCHANGED Passes
         \/ /\ holder' = Nobody
            /\ Passes' = [d \in Callers |->
                            IF d # Head(line) /\ Waiting(d) THEN Passes[d] + 1
                            ELSE IF d = Head(line) THEN 0 ELSE Passes[d]]
  PROVE  LInv'
<1> DEFINE n == Len(line)
           c == Head(line)
<1>1. /\ line \in Seq(Callers) /\ n \in Nat \ {0} /\ DOMAIN line = 1 .. n
      /\ \A i \in 1 .. n : line[i] \in Callers
      /\ Passes \in [Callers -> Nat] /\ Nobody \notin Callers
  BY LenProperties, ElementOfSeq, EmptySeq, LimiterAssumption DEF LInv, RTypeOK, Places
<1>2. /\ c = line[1] /\ c \in Callers /\ c # Nobody
      /\ DOMAIN line' = 1 .. n - 1
      /\ \A i \in 1 .. n - 1 : line'[i] = line[i + 1] /\ i + 1 \in 1 .. n
  <2>1. c = line[1] /\ c \in Callers
    BY <1>1
  <2>2. /\ Tail(line) \in Seq(Callers) /\ Len(Tail(line)) = n - 1
        /\ \A i \in 1 .. Len(Tail(line)) : Tail(line)[i] = line[i + 1]
    BY <1>1, HeadTailProperties
  <2>3. DOMAIN line' = 1 .. n - 1
    BY <1>1, <2>2, LenProperties
  <2>4. \A i \in 1 .. n - 1 : i + 1 \in 1 .. n
    BY <1>1
  <2> QED BY <1>1, <2>1, <2>2, <2>3, <2>4
<1>3. \A i, j \in 1 .. n : line[i] = line[j] => i = j
  BY <1>1 DEF LInv, Distinct
<1>4. /\ \A i \in 1 .. n : Passes[line[i]] + i =< N
      /\ \A i \in 1 .. n : Passes[line[i]] \in Nat
      /\ N \in Nat
  <2>1. N \in Nat
    BY SeedingAssumption, FS_CardinalityType DEF N
  <2>2. Held = 0
    BY DEF Held
  <2>3. \A i \in 1 .. n : Passes[line[i]] + Held + i =< N /\ Passes[line[i]] \in Nat
    BY <1>1 DEF LInv, Places
  <2> QED BY <1>1, <2>1, <2>2, <2>3
<1>5. /\ \A i \in 1 .. n - 1 : line'[i] # c
      /\ \A d \in Callers : Waiting(d) <=> \E i \in 1 .. n : line[i] = d
      /\ \A d \in Callers : d # c /\ Waiting(d) => Waiting(d)'
  <2>1. \A d \in Callers : Waiting(d) <=> \E i \in 1 .. n : line[i] = d
    BY <1>1 DEF Waiting, Waits
  <2>2. ASSUME NEW i \in 1 .. n - 1 PROVE line'[i] # c
    <3>1. i + 1 # 1 /\ 1 \in 1 .. n
      BY <1>1
    <3> QED BY <1>2, <1>3, <3>1
  <2>3. ASSUME NEW d \in Callers, d # c, Waiting(d) PROVE Waiting(d)'
    <3>1. PICK i \in 1 .. n : line[i] = d
      BY <2>1, <2>3
    <3>2. i # 1
      BY <1>2, <2>3, <3>1
    <3>3. i - 1 \in 1 .. n - 1 /\ (i - 1) + 1 = i
      BY <1>1, <3>2
    <3>4. line'[i - 1] = d
      BY <1>2, <3>1, <3>3
    <3> QED BY <1>2, <3>3, <3>4 DEF Waiting, Waits
  <2> QED BY <2>1, <2>2, <2>3
<1> HIDE DEF n, c
<1>6. Distinct'
  <2>1. ASSUME NEW i \in 1 .. n - 1, NEW j \in 1 .. n - 1, line'[i] = line'[j] PROVE i = j
    <3>1. i + 1 = j + 1
      BY <1>2, <1>3, <2>1
    <3> QED BY <1>1, <3>1
  <2>2. ASSUME NEW i \in 1 .. n - 1 PROVE line'[i] # holder'
    <3>1. line'[i] # c /\ line'[i] \in Callers
      BY <1>1, <1>2, <1>5
    <3> QED BY <1>1, <3>1 DEF c
  <2> QED BY <1>2, <2>1, <2>2 DEF Distinct
<1>7. CASE holder' = c /\ UNCHANGED Passes
  <2>1. Held' = 1
    BY <1>2, <1>7 DEF Held
  <2>2. Passes'[c] < N
    <3>1. 1 \in 1 .. n
      BY <1>1
    <3> QED BY <1>2, <1>4, <1>7, <3>1
  <2>3. ASSUME NEW i \in 1 .. n - 1 PROVE Passes'[line'[i]] + Held' + i =< N
    <3>1. Passes[line[i + 1]] + (i + 1) =< N /\ Passes[line[i + 1]] \in Nat
      BY <1>2, <1>4
    <3> QED BY <1>1, <1>2, <1>4, <1>7, <2>1, <3>1
  <2>4. ASSUME NEW d \in Callers, ~ Waiting(d)' PROVE Passes'[d] = 0
    <3>1. d # c
      BY <1>7, <2>4 DEF Waiting
    <3> QED BY <1>5, <1>7, <2>4, <3>1 DEF LInv, Places
  <2>5. Places'
    BY <1>1, <1>2, <1>7, <2>2, <2>3, <2>4 DEF Places
  <2> QED BY <1>6, <2>5 DEF LInv
<1>8. CASE /\ holder' = Nobody
           /\ Passes' = [d \in Callers |-> IF d # c /\ Waiting(d) THEN Passes[d] + 1
                                           ELSE IF d = c THEN 0 ELSE Passes[d]]
  <2>1. Held' = 0
    BY <1>8 DEF Held
  <2>2. Passes' \in [Callers -> Nat]
    BY <1>1, <1>8
  <2>3. ASSUME NEW i \in 1 .. n - 1 PROVE Passes'[line'[i]] + Held' + i =< N
    <3>1. Passes[line[i + 1]] + (i + 1) =< N /\ Passes[line[i + 1]] \in Nat
      BY <1>2, <1>4
    <3>2. line'[i] = line[i + 1] /\ line'[i] \in Callers /\ line'[i] # c
      BY <1>1, <1>2, <1>5
    <3>3. Waiting(line'[i])
      BY <1>1, <1>2 DEF Waiting, Waits
    <3>4. Passes'[line'[i]] = Passes[line[i + 1]] + 1
      BY <1>8, <3>2, <3>3
    <3> QED BY <1>1, <1>4, <2>1, <3>1, <3>4
  <2>4. ASSUME NEW d \in Callers, ~ Waiting(d)' PROVE Passes'[d] = 0
    <3>1. CASE d = c
      BY <1>8, <3>1
    <3>2. CASE d # c
      BY <1>5, <1>8, <2>4, <3>2 DEF LInv, Places
    <3> QED BY <3>1, <3>2
  <2>5. Places'
    BY <1>2, <1>8, <2>2, <2>3, <2>4 DEF Places
  <2> QED BY <1>6, <2>5 DEF LInv
<1> QED BY <1>7, <1>8 DEF c

\* The sleeper gets its grant.
LEMMA WakePlaces ==
  ASSUME LInv, RTypeOK', holder # Nobody, holder' = Nobody, UNCHANGED line,
         Passes' = [d \in Callers |-> IF d # holder /\ Waiting(d) THEN Passes[d] + 1
                                      ELSE IF d = holder THEN 0 ELSE Passes[d]]
  PROVE  LInv'
<1>1. /\ line \in Seq(Callers) /\ Passes \in [Callers -> Nat] /\ Nobody \notin Callers
      /\ DOMAIN line = 1 .. Len(line) /\ Len(line) \in Nat
      /\ \A i \in DOMAIN line : line[i] \in Callers /\ line[i] # holder
  BY LenProperties, ElementOfSeq, LimiterAssumption DEF LInv, RTypeOK, Places, Distinct
<1>2. N \in Nat /\ Held = 1 /\ Held' = 0
  BY SeedingAssumption, FS_CardinalityType DEF N, Held
<1>3. Distinct'
  BY <1>1 DEF LInv, Distinct
<1>4. Passes' \in [Callers -> Nat]
  BY <1>1
<1>5. ASSUME NEW i \in DOMAIN line PROVE Passes'[line[i]] + Held' + i =< N
  <2>1. Passes[line[i]] + Held + i =< N /\ Passes[line[i]] \in Nat /\ i \in Nat
    BY <1>1 DEF LInv, Places
  <2>2. Waiting(line[i])
    BY DEF Waiting, Waits
  <2>3. Passes'[line[i]] = Passes[line[i]] + 1
    BY <1>1, <2>2
  <2> QED BY <1>2, <2>1, <2>3
<1>6. ASSUME NEW d \in Callers, ~ Waiting(d)' PROVE Passes'[d] = 0
  <2>1. CASE d = holder
    BY <2>1
  <2>2. CASE d # holder
    BY <1>6, <2>2 DEF LInv, Places, Waiting, Waits
  <2> QED BY <2>1, <2>2
<1>7. Places'
  BY <1>4, <1>5, <1>6 DEF Places
<1> QED BY <1>3, <1>7 DEF LInv

\* A caller that gives up leaves the others where they are, or further ahead.
LEMMA GiveUpPlaces ==
  ASSUME LInv, InOrder, RTypeOK', NEW c \in Callers, GiveUp(c)
  PROVE  LInv'
<1>1. /\ line \in Seq(Callers) /\ Passes \in [Callers -> Nat] /\ Nobody \notin Callers
      /\ DOMAIN line = 1 .. Len(line) /\ Len(line) \in Nat
      /\ \A i \in DOMAIN line : line[i] \in Callers
      /\ holder \in Callers \cup {Nobody}
  BY LenProperties, ElementOfSeq, LimiterAssumption DEF LInv, RTypeOK, Places
<1>2. /\ N \in Nat /\ Held \in {0, 1} /\ Held' \in {0, 1}
      /\ \A d \in Callers : Passes'[d] \in Nat /\ Passes'[d] =< Passes[d]
      /\ \A d \in Callers : Passes'[d] = IF d = c THEN 0 ELSE Passes[d]
      /\ Passes' \in [Callers -> Nat]
  <2>1. N \in Nat /\ Held \in {0, 1} /\ Held' \in {0, 1}
    BY SeedingAssumption, FS_CardinalityType DEF N, Held
  <2>2. Passes' = [Passes EXCEPT ![c] = 0]
    BY PassesFollow DEF GiveUp, InOrder
  <2> QED BY <1>1, <2>1, <2>2
<1>3. /\ \A d \in Callers : ~ Waiting(d) => Passes[d] = 0
      /\ \A i \in DOMAIN line : Passes[line[i]] + Held + i =< N
      /\ holder # Nobody => Passes[holder] < N
  BY DEF LInv, Places
<1>4. CASE UNCHANGED line /\ holder' \in {holder, Nobody} /\ (holder' # holder => holder = c)
  <2>1. Held' =< Held
    BY <1>4 DEF Held
  <2>2. Distinct'
    BY <1>1, <1>4 DEF LInv, Distinct
  <2>3. ASSUME NEW i \in DOMAIN line PROVE Passes'[line[i]] + Held' + i =< N
    <3>1. Passes[line[i]] + Held + i =< N /\ i \in Nat /\ line[i] \in Callers
      BY <1>1, <1>3
    <3>2. /\ Passes'[line[i]] \in Nat /\ Passes'[line[i]] =< Passes[line[i]]
          /\ Passes[line[i]] \in Nat
      BY <1>1, <1>2, <3>1
    <3> QED BY <1>2, <2>1, <3>1, <3>2
  <2>4. ASSUME NEW d \in Callers, ~ Waiting(d)' PROVE Passes'[d] = 0
    <3>1. CASE d = c
      BY <1>2, <3>1
    <3>2. CASE d # c
      BY <1>2, <1>3, <1>4, <2>4, <3>2 DEF Waiting, Waits
    <3> QED BY <3>1, <3>2
  <2>5. holder' # Nobody => Passes'[holder'] < N
    <3> SUFFICES ASSUME holder' # Nobody PROVE Passes'[holder'] < N
      OBVIOUS
    <3>1. holder' = holder /\ holder \in Callers /\ Passes[holder] < N
      BY <1>1, <1>3, <1>4
    <3>2. /\ Passes'[holder] \in Nat /\ Passes'[holder] =< Passes[holder]
          /\ Passes[holder] \in Nat
      BY <1>1, <1>2, <3>1
    <3> QED BY <1>2, <3>1, <3>2
  <2>6. Places'
    BY <1>2, <1>4, <2>3, <2>4, <2>5 DEF Places
  <2> QED BY <2>2, <2>6 DEF LInv
<1>5. ASSUME NEW k \in DOMAIN line, line[k] = c, line' = RemoveAt(line, k), UNCHANGED holder
      PROVE  LInv'
  <2> DEFINE n == Len(line)
  <2>1. /\ DOMAIN line' = 1 .. n - 1 /\ n \in Nat /\ k \in 1 .. n
        /\ \A j \in 1 .. n - 1 : line'[j] = IF j < k THEN line[j] ELSE line[j + 1]
    <3>1. k \in 1 .. Len(line) /\ Len(line) \in Nat
      BY <1>1, <1>5
    <3> HIDE DEF n
    <3>2. /\ DOMAIN RemoveAt(line, k) = 1 .. Len(line) - 1
          /\ \A j \in 1 .. Len(line) - 1 :
               RemoveAt(line, k)[j] = IF j < k THEN line[j] ELSE line[j + 1]
      BY <1>1, <3>1, RemoveOne
    <3> QED BY <1>5, <3>1, <3>2 DEF n
  <2> HIDE DEF n
  <2>2. \A j \in 1 .. n - 1 : j \in 1 .. n /\ j + 1 \in 1 .. n
    BY ONLY <2>1
  <2>3. Held' = Held
    BY <1>5 DEF Held
  <2>4. \A i, j \in 1 .. n : line[i] = line[j] => i = j
    BY <1>1 DEF LInv, Distinct, n
  <2>5. Distinct'
    <3>1. ASSUME NEW i \in 1 .. n - 1, NEW j \in 1 .. n - 1, line'[i] = line'[j] PROVE i = j
      <4>1. CASE i < k /\ j < k
        BY <2>1, <2>2, <2>4, <3>1, <4>1
      <4>2. CASE i < k /\ ~ (j < k)
        <5>1. i = j + 1
          BY <2>1, <2>2, <2>4, <3>1, <4>2
        <5> QED BY <2>1, <4>2, <5>1
      <4>3. CASE ~ (i < k) /\ j < k
        <5>1. i + 1 = j
          BY <2>1, <2>2, <2>4, <3>1, <4>3
        <5> QED BY <2>1, <4>3, <5>1
      <4>4. CASE ~ (i < k) /\ ~ (j < k)
        <5>1. i + 1 = j + 1
          BY <2>1, <2>2, <2>4, <3>1, <4>4
        <5> QED BY <2>1, <5>1
      <4> QED BY <4>1, <4>2, <4>3, <4>4
    <3>2. ASSUME NEW i \in 1 .. n - 1 PROVE line'[i] # holder'
      BY <1>1, <1>5, <2>1, <2>2 DEF LInv, Distinct, n
    <3> QED BY <2>1, <3>1, <3>2 DEF Distinct
  <2>6. ASSUME NEW i \in 1 .. n - 1 PROVE Passes'[line'[i]] + Held' + i =< N
    <3>1. ASSUME NEW j \in 1 .. n, line'[i] = line[j], i =< j
          PROVE  Passes'[line'[i]] + Held' + i =< N
      <4>1. Passes[line[j]] + Held + j =< N /\ line[j] \in Callers
        BY <1>1, <1>3 DEF n
      <4>2. Passes'[line[j]] \in Nat /\ Passes[line[j]] \in Nat /\ Passes'[line[j]] =< Passes[line[j]]
        BY <1>1, <1>2, <4>1
      <4> QED BY <1>2, <2>1, <2>3, <3>1, <4>1, <4>2
    <3>2. CASE i < k
      BY <2>1, <2>2, <3>1, <3>2
    <3>3. CASE ~ (i < k)
      <4>1. i =< i + 1
        BY <2>1
      <4> QED BY <2>1, <2>2, <3>1, <3>3, <4>1
    <3> QED BY <3>2, <3>3
  <2>7. ASSUME NEW d \in Callers, ~ Waiting(d)' PROVE Passes'[d] = 0
    <3>1. CASE d = c
      BY <1>2, <3>1
    <3>2. CASE d # c
      <4>1. ASSUME NEW j \in 1 .. n, line[j] = d PROVE FALSE
        <5>1. CASE j < k
          <6>1. j \in 1 .. n - 1 /\ line'[j] = d
            BY <2>1, <4>1, <5>1
          <6> QED BY <2>1, <2>7, <6>1 DEF Waiting, Waits
        <5>2. CASE j > k
          <6>1. j - 1 \in 1 .. n - 1 /\ ~ (j - 1 < k) /\ (j - 1) + 1 = j
            BY <2>1, <5>2
          <6>2. line'[j - 1] = d
            BY <2>1, <4>1, <6>1
          <6> QED BY <2>1, <2>7, <6>1, <6>2 DEF Waiting, Waits
        <5>3. j # k
          BY <1>5, <3>2, <4>1
        <5> QED BY <2>1, <5>1, <5>2, <5>3
      <4>2. d # holder
        BY <1>5, <2>7 DEF Waiting
      <4>3. ~ Waiting(d)
        BY <1>1, <4>1, <4>2 DEF Waiting, Waits, n
      <4> QED BY <1>2, <1>3, <3>2, <4>3
    <3> QED BY <3>1, <3>2
  <2>8. holder' # Nobody => Passes'[holder'] < N
    <3> SUFFICES ASSUME holder' # Nobody PROVE Passes'[holder'] < N
      OBVIOUS
    <3>1. holder' = holder /\ holder \in Callers /\ Passes[holder] < N
      BY <1>1, <1>3, <1>5
    <3>2. /\ Passes'[holder] \in Nat /\ Passes'[holder] =< Passes[holder]
          /\ Passes[holder] \in Nat
      BY <1>1, <1>2, <3>1
    <3> QED BY <1>2, <3>1, <3>2
  <2>9. Places'
    BY <1>2, <2>1, <2>6, <2>7, <2>8 DEF Places
  <2> QED BY <2>5, <2>9 DEF LInv
<1>6. CASE UNCHANGED rvars
  BY <1>4, <1>6 DEF rvars
<1>7. CASE Cancel(c)
  BY <1>4, <1>5, <1>7 DEF Cancel
<1> QED BY <1>6, <1>7 DEF GiveUp

\* acquire(), once it has the lock, as its caller sees it: it sleeps, or it is
\* granted and the others that wait are passed.
LEMMA EnterGoesOn ==
  ASSUME RTypeOK, NEW c \in Callers, Enter(c), GoesOn(c)
  PROVE  \/ holder' = c /\ UNCHANGED passed
         \/ holder' = Nobody /\ PassedBy(c)
<1>1. Append(grants, clock) # grants
  <2>1. grants \in Seq(0 .. clock) /\ clock \in 0 .. clock
    BY LimiterAssumption DEF RTypeOK
  <2>2. Len(Append(grants, clock)) = Len(grants) + 1 /\ Len(grants) \in Nat
    BY <2>1, AppendProperties, LenProperties
  <2> QED BY <2>2
<1> QED BY <1>1 DEF Enter, Grant, GoesOn, PassedBy

LEMMA StepPlaces == LInv /\ InOrder /\ RTypeOK' /\ [SNext]_svars => LInv'
<1> SUFFICES ASSUME LInv, InOrder, RTypeOK', [SNext]_svars PROVE LInv'
  OBVIOUS
<1>0. /\ RTypeOK /\ line \in Seq(Callers) /\ holder \in Callers \cup {Nobody}
      /\ grants \in Seq(0 .. clock) /\ clock \in 0 .. clock
      /\ Passes \in [Callers -> Nat] /\ Nobody \notin Callers
      /\ passed \in [Callers -> Seq(Callers)]
  BY LimiterAssumption DEF LInv, RTypeOK, Places, InOrder
<1>1. ASSUME NEW c \in Callers, Ask(c) PROVE LInv'
  <2>1. ~ Waiting(c)
    BY <1>1 DEF Ask, Ready
  <2>2. CASE line' = Append(line, c) /\ UNCHANGED <<holder, grants>>
    <3>1. UNCHANGED Passes
      BY <1>0, <1>1, <2>2, PassesFollow DEF Ask, GoesOn
    <3> QED BY <2>1, <2>2, <3>1, QueuePlaces
  <2>3. CASE holder = Nobody /\ line = <<>> /\ Enter(c) /\ UNCHANGED line
    <3>1. \A d \in Callers : ~ Waiting(d)
      BY <1>0, <2>3, EmptySeq DEF Waiting, Waits
    <3>2. \A d \in Callers : Passes[d] = 0
      BY <3>1 DEF LInv, Places
    <3>3. UNCHANGED Passes /\ holder' \in {c, Nobody}
      <4>1. CASE holder' = c /\ UNCHANGED passed
        BY <1>0, <4>1, PassesFollow
      <4>2. CASE holder' = Nobody /\ PassedBy(c)
        <5>1. Passes' = [d \in Callers |-> IF d # c /\ Waiting(d) THEN Passes[d] + 1
                                           ELSE IF d = c THEN 0 ELSE Passes[d]]
          BY <1>0, <4>2, PassesFollow
        <5>2. \A d \in Callers : Passes'[d] = Passes[d]
          BY <3>1, <3>2, <5>1
        <5> QED BY <1>0, <4>2, <5>1, <5>2
      <4> QED BY <1>0, <1>1, <2>3, <4>1, <4>2, EnterGoesOn DEF Ask
    <3>4. DOMAIN line = {} /\ line' = line
      BY <2>3, EmptySeq
    <3>5. Distinct'
      BY <3>4 DEF Distinct
    <3>6. 0 < N
      <4>1. N \in Nat /\ Held + Len(line) + 1 =< N
        BY <1>0, <2>1, RoomForOne DEF LInv
      <4>2. Held = 0 /\ Len(line) = 0
        BY <2>3, EmptySeq DEF Held
      <4> QED BY <4>1, <4>2
    <3>7. Places'
      BY <1>0, <3>2, <3>3, <3>4, <3>6 DEF Places
    <3> QED BY <3>5, <3>7 DEF LInv
  <2> QED BY <1>1, <2>2, <2>3 DEF Ask, Acquire
<1>2. CASE NextUp
  <2>1. Head(line) \in Callers
    BY <1>0, <1>2, HeadTailProperties DEF NextUp, Turn
  <2>2. \/ holder' = Head(line) /\ UNCHANGED passed
        \/ holder' = Nobody /\ PassedBy(Head(line))
    BY <1>0, <1>2, <2>1, EnterGoesOn DEF NextUp, Turn
  <2>3. \/ holder' = Head(line) /\ UNCHANGED Passes
        \/ /\ holder' = Nobody
           /\ Passes' = [d \in Callers |->
                           IF d # Head(line) /\ Waiting(d) THEN Passes[d] + 1
                           ELSE IF d = Head(line) THEN 0 ELSE Passes[d]]
    BY <1>0, <2>1, <2>2, PassesFollow
  <2> QED BY <1>2, <2>3, TurnPlaces DEF NextUp, Turn
<1>3. CASE WakeUp
  <2>1. holder \in Callers /\ holder # Nobody /\ holder' = Nobody /\ UNCHANGED line
    BY <1>0, <1>3 DEF WakeUp, Wake, Grant
  <2>2. grants' # grants
    <3>1. Len(Append(grants, clock)) = Len(grants) + 1 /\ Len(grants) \in Nat
      BY <1>0, AppendProperties, LenProperties
    <3> QED BY <1>3, <3>1 DEF WakeUp, Wake, Grant
  <2>3. PassedBy(holder)
    BY <1>3, <2>2 DEF WakeUp, GoesOn, PassedBy
  <2>4. Passes' = [d \in Callers |-> IF d # holder /\ Waiting(d) THEN Passes[d] + 1
                                     ELSE IF d = holder THEN 0 ELSE Passes[d]]
    BY <1>0, <2>1, <2>3, PassesFollow
  <2> QED BY <2>1, <2>4, WakePlaces
<1>4. ASSUME NEW c \in Callers, Connect(c) \/ Answer(c) PROVE LInv'
  BY <1>0, <1>4, PassesFollow, QuietPlaces DEF Connect, Answer, rvars
<1>5. ASSUME NEW c \in Callers, GiveUp(c) PROVE LInv'
  BY <1>5, GiveUpPlaces
<1>6. CASE Refine \/ Time \/ UNCHANGED svars
  <2>1. UNCHANGED <<holder, line, passed>>
    BY <1>6 DEF Refine, Time, Tick, svars, rvars
  <2>2. UNCHANGED Passes
    BY <2>1 DEF Passes
  <2> QED BY <2>1, <2>2, QuietPlaces
<1> QED BY <1>1, <1>2, <1>3, <1>4, <1>5, <1>6 DEF SNext

-----------------------------------------------------------------------------
(***************************************************************************)
(* Who has passed a caller is behind it.                                   *)
(***************************************************************************)

\* A step without a grant: a caller that keeps its list has none before it that
\* was not there.
LEMMA OrderKept ==
  ASSUME InOrder, passed' \in [Callers -> Seq(Callers)],
         \A d \in Callers : passed'[d] \in {passed[d], <<>>},
         \A d, e \in Callers : passed'[d] # <<>> /\ Ahead(e, d)' => Ahead(e, d)
  PROVE  InOrder'
<1>1. DOMAIN <<>> = {} /\ Range(<<>>) = {} /\ IsInjective(<<>>)
  BY EmptySeq DEF Range, IsInjective
<1>2. ASSUME NEW d \in Callers PROVE IsInjective(passed'[d])
  BY <1>1 DEF InOrder
<1>3. ASSUME NEW d \in Callers, NEW e \in Callers, Ahead(e, d)' PROVE e \notin Range(passed'[d])
  <2>1. CASE passed'[d] = <<>>
    BY <1>1, <2>1
  <2>2. CASE passed'[d] # <<>>
    BY <1>3, <2>2 DEF InOrder
  <2> QED BY <2>1, <2>2
<1> QED BY <1>2, <1>3 DEF InOrder

\* A grant to the one that is before all that wait.
LEMMA OrderGranted ==
  ASSUME InOrder, NEW c \in Callers, PassedBy(c),
         \A d \in Callers : ~ Waiting(d) => passed[d] = <<>>,
         \A d \in Callers : Waiting(d) => Ahead(c, d),
         \A d, e \in Callers : d # c /\ Ahead(e, d)' => Ahead(e, d) /\ e # c
  PROVE  InOrder'
<1>1. DOMAIN <<>> = {} /\ Range(<<>>) = {} /\ IsInjective(<<>>) /\ <<>> \in Seq(Callers)
  BY EmptySeq DEF Range, IsInjective
<1>2. ASSUME NEW d \in Callers
      PROVE  /\ passed'[d] \in Seq(Callers) /\ IsInjective(passed'[d])
             /\ \A e \in Callers : Ahead(e, d)' => e \notin Range(passed'[d])
  <2>1. CASE d = c \/ ~ Waiting(d)
    <3>1. passed'[d] = <<>>
      BY <2>1 DEF PassedBy
    <3> QED BY <1>1, <3>1
  <2>2. CASE d # c /\ Waiting(d)
    <3> DEFINE q == passed[d]
               n == Len(q)
    <3>1. passed'[d] = Append(q, c) /\ q \in Seq(Callers) /\ IsInjective(q) /\ c \notin Range(q)
      BY <2>2 DEF PassedBy, InOrder
    <3> HIDE DEF q
    <3>2. /\ n \in Nat /\ DOMAIN q = 1 .. n
          /\ Append(q, c) \in Seq(Callers) /\ DOMAIN Append(q, c) = 1 .. n + 1
          /\ \A i \in 1 .. n : Append(q, c)[i] = q[i]
          /\ Append(q, c)[n + 1] = c
      BY <3>1, AppendProperties, LenProperties
    <3>3. \A i \in 1 .. n : q[i] # c
      BY <3>1, <3>2 DEF Range
    <3> HIDE DEF n
    <3>4. \A i \in 1 .. n + 1 : i = n + 1 \/ i \in 1 .. n
      BY <3>2
    <3>5. IsInjective(Append(q, c))
      <4> SUFFICES ASSUME NEW i \in 1 .. n + 1, NEW j \in 1 .. n + 1,
                          Append(q, c)[i] = Append(q, c)[j]
                   PROVE  i = j
        BY <3>2 DEF IsInjective
      <4>1. CASE i \in 1 .. n /\ j \in 1 .. n
        BY <3>1, <3>2, <4>1 DEF IsInjective
      <4> QED BY <3>2, <3>3, <3>4, <4>1
    <3>6. ASSUME NEW e \in Callers, Ahead(e, d)' PROVE e \notin Range(Append(q, c))
      <4>1. e # c /\ e \notin Range(q)
        BY <2>2, <3>6 DEF InOrder, q
      <4> QED BY <3>2, <3>4, <4>1 DEF Range
    <3> QED BY <3>1, <3>2, <3>5, <3>6
  <2> QED BY <2>1, <2>2
<1>3. passed' \in [Callers -> Seq(Callers)]
  <2>1. passed' = [d \in Callers |-> passed'[d]]
    BY DEF PassedBy
  <2> QED BY <1>2, <2>1
<1> QED BY <1>2, <1>3 DEF InOrder

\* One more behind the others.
LEMMA QueueOrder ==
  ASSUME LInv, InOrder, NEW c \in Callers, passed[c] = <<>>,
         line' = Append(line, c), UNCHANGED <<holder, passed>>
  PROVE  InOrder'
<1> DEFINE n == Len(line)
<1>1. /\ n \in Nat /\ DOMAIN line = 1 .. n /\ DOMAIN line' = 1 .. n + 1
      /\ \A i \in 1 .. n : line'[i] = line[i]
      /\ line'[n + 1] = c
  BY AppendProperties, LenProperties DEF LInv, RTypeOK
<1> HIDE DEF n
<1>2. ASSUME NEW d \in Callers, NEW e \in Callers, passed[d] # <<>>, Ahead(e, d)'
      PROVE  Ahead(e, d)
  <2> SUFFICES ASSUME NEW i \in 1 .. n + 1, NEW j \in 1 .. n + 1,
                      i =< j, line'[i] = e, line'[j] = d
               PROVE  Ahead(e, d)
    BY <1>1, <1>2 DEF Ahead
  <2>1. j # n + 1
    BY <1>1, <1>2
  <2>2. i \in 1 .. n /\ j \in 1 .. n
    BY <1>1, <2>1
  <2> QED BY <1>1, <2>2 DEF Ahead
<1> QED BY <1>2, OrderKept DEF InOrder

\* The first in line leaves it.
LEMMA TurnOrder ==
  ASSUME LInv, InOrder, holder = Nobody, line # <<>>, line' = Tail(line),
         \/ holder' = Head(line) /\ UNCHANGED passed
         \/ holder' = Nobody /\ PassedBy(Head(line)),
         \A d \in Callers : ~ Waiting(d) => passed[d] = <<>>
  PROVE  InOrder'
<1> DEFINE n == Len(line)
           c == Head(line)
<1>1. /\ n \in Nat \ {0} /\ DOMAIN line = 1 .. n /\ Nobody \notin Callers
      /\ c = line[1] /\ c \in Callers /\ DOMAIN line' = 1 .. n - 1
      /\ \A i \in 1 .. n - 1 : line'[i] = line[i + 1]
      /\ \A i, j \in 1 .. n : line[i] = line[j] => i = j
  <2>1. line \in Seq(Callers) /\ n \in Nat \ {0} /\ DOMAIN line = 1 .. n /\ Nobody \notin Callers
    BY LenProperties, EmptySeq, LimiterAssumption DEF LInv, RTypeOK
  <2>2. /\ c = line[1] /\ c \in Callers
        /\ Tail(line) \in Seq(Callers) /\ Len(Tail(line)) = n - 1
        /\ \A i \in 1 .. Len(Tail(line)) : Tail(line)[i] = line[i + 1]
    BY <2>1, HeadTailProperties
  <2> QED BY <2>1, <2>2, LenProperties DEF LInv, Distinct
<1>2. 1 \in 1 .. n /\ \A i \in 1 .. n - 1 : i + 1 \in 1 .. n /\ i + 1 # 1
  BY <1>1
<1> HIDE DEF n, c
<1>3. ASSUME NEW d \in Callers, Waiting(d) PROVE Ahead(c, d)
  <2>1. PICK j \in 1 .. n : line[j] = d
    BY <1>1, <1>3 DEF Waiting, Waits
  <2>2. 1 =< j
    BY <2>1
  <2> QED BY <1>1, <1>2, <2>1, <2>2 DEF Ahead
<1>4. ASSUME NEW d \in Callers, NEW e \in Callers, e # holder', Ahead(e, d)'
      PROVE  Ahead(e, d) /\ e # c
  <2>1. PICK i, j \in 1 .. n - 1 : i =< j /\ line'[i] = e /\ line'[j] = d
    BY <1>1, <1>4 DEF Ahead
  <2>2. i + 1 =< j + 1 /\ line[i + 1] = e /\ line[j + 1] = d
    BY <1>1, <2>1
  <2>3. e # c
    BY <1>1, <1>2, <2>1, <2>2
  <2> QED BY <1>1, <1>2, <2>1, <2>2, <2>3 DEF Ahead
<1>5. CASE holder' = c /\ UNCHANGED passed
  <2>1. ASSUME NEW d \in Callers, NEW e \in Callers, passed[d] # <<>>, Ahead(e, d)'
        PROVE  Ahead(e, d)
    <3>1. CASE e = c
      BY <1>3, <2>1, <3>1
    <3>2. CASE e # c
      BY <1>4, <1>5, <2>1, <3>2
    <3> QED BY <3>1, <3>2
  <2> QED BY <1>5, <2>1, OrderKept DEF InOrder
<1>6. CASE holder' = Nobody /\ PassedBy(c)
  <2>1. \A d, e \in Callers : d # c /\ Ahead(e, d)' => Ahead(e, d) /\ e # c
    BY <1>1, <1>4, <1>6
  <2> QED BY <1>1, <1>3, <1>6, <2>1, OrderGranted
<1> QED BY <1>5, <1>6 DEF c

\* A caller that gives up leaves the order of the others as it is.
LEMMA GiveUpOrder ==
  ASSUME LInv, InOrder, NEW c \in Callers, GiveUp(c)
  PROVE  InOrder'
<1>1. /\ line \in Seq(Callers) /\ DOMAIN line = 1 .. Len(line) /\ Len(line) \in Nat
      /\ passed \in [Callers -> Seq(Callers)] /\ Nobody \notin Callers
      /\ passed' = [passed EXCEPT ![c] = <<>>] /\ <<>> \in Seq(Callers)
  BY LenProperties, EmptySeq, LimiterAssumption DEF LInv, RTypeOK, InOrder, GiveUp
<1>2. /\ passed' \in [Callers -> Seq(Callers)]
      /\ \A d \in Callers : passed'[d] \in {passed[d], <<>>}
      /\ \A d \in Callers : passed'[d] # <<>> => d # c
  BY <1>1
<1>3. ASSUME UNCHANGED line, holder' \in {holder, Nobody} PROVE InOrder'
  <2>1. \A d, e \in Callers : Ahead(e, d)' => Ahead(e, d)
    BY <1>1, <1>3 DEF Ahead
  <2> QED BY <1>2, <2>1, OrderKept
<1>4. ASSUME NEW k \in DOMAIN line, line' = RemoveAt(line, k), UNCHANGED holder
      PROVE  InOrder'
  <2> DEFINE n == Len(line)
             old(j) == IF j < k THEN j ELSE j + 1
  <2>1. /\ n \in Nat /\ k \in 1 .. n /\ DOMAIN line = 1 .. n /\ DOMAIN line' = 1 .. n - 1
        /\ \A j \in 1 .. n - 1 : line'[j] = IF j < k THEN line[j] ELSE line[j + 1]
    BY <1>1, <1>4, RemoveOne
  <2> HIDE DEF n
  <2>2. \A j \in 1 .. n - 1 : old(j) \in 1 .. n /\ line'[j] = line[old(j)]
    BY <2>1
  <2>3. \A i, j \in 1 .. n - 1 : i =< j => old(i) =< old(j)
    BY <2>1
  <2> HIDE DEF old
  <2>4. \A d, e \in Callers : Ahead(e, d)' => Ahead(e, d)
    <3> SUFFICES ASSUME NEW d \in Callers, NEW e \in Callers,
                        NEW i \in 1 .. n - 1, NEW j \in 1 .. n - 1,
                        i =< j, line'[i] = e, line'[j] = d
                 PROVE  Ahead(e, d)
      BY <1>4, <2>1 DEF Ahead
    <3> QED BY <2>1, <2>2, <2>3 DEF Ahead
  <2> QED BY <1>2, <2>4, OrderKept
<1> QED BY <1>3, <1>4 DEF GiveUp, Cancel, rvars

LEMMA StepOrder == LInv /\ InOrder /\ [SNext]_svars => InOrder'
<1> SUFFICES ASSUME LInv, InOrder, [SNext]_svars PROVE InOrder'
  OBVIOUS
<1>0. /\ RTypeOK /\ line \in Seq(Callers) /\ holder \in Callers \cup {Nobody}
      /\ grants \in Seq(0 .. clock) /\ clock \in 0 .. clock
      /\ Nobody \notin Callers /\ passed \in [Callers -> Seq(Callers)]
  BY LimiterAssumption DEF LInv, RTypeOK, InOrder
<1>1. ASSUME NEW d \in Callers, ~ Waiting(d) PROVE passed[d] = <<>>
  <2>1. Len(passed[d]) = 0
    BY <1>1 DEF LInv, Places, Passes
  <2> QED BY <1>0, <2>1, EmptySeq
<1>2. ASSUME UNCHANGED <<holder, line, passed>> PROVE InOrder'
  BY <1>2 DEF InOrder, Ahead
<1>3. ASSUME NEW c \in Callers, Ask(c) PROVE InOrder'
  <2>1. passed[c] = <<>>
    BY <1>1, <1>3 DEF Ask, Ready
  <2>2. CASE line' = Append(line, c) /\ UNCHANGED <<holder, grants>>
    BY <1>3, <2>1, <2>2, QueueOrder DEF Ask, GoesOn
  <2>3. CASE holder = Nobody /\ line = <<>> /\ Enter(c) /\ UNCHANGED line
    <3>1. \A d \in Callers : ~ Waiting(d)
      BY <1>0, <2>3, EmptySeq DEF Waiting, Waits
    <3>2. UNCHANGED passed \/ PassedBy(c)
      BY <1>0, <1>3, <2>3, EnterGoesOn DEF Ask
    <3>3. \A d \in Callers : passed[d] = <<>> /\ passed'[d] = <<>>
      BY <1>1, <3>1, <3>2 DEF PassedBy
    <3>4. passed' = passed
      BY <1>0, <3>2, <3>3 DEF PassedBy
    <3> QED BY <1>0, <3>3, <3>4, OrderKept
  <2> QED BY <1>3, <2>2, <2>3 DEF Ask, Acquire
<1>4. ASSUME NextUp PROVE InOrder'
  <2>1. Head(line) \in Callers
    BY <1>0, <1>4, HeadTailProperties DEF NextUp, Turn
  <2>2. \/ holder' = Head(line) /\ UNCHANGED passed
        \/ holder' = Nobody /\ PassedBy(Head(line))
    BY <1>0, <1>4, <2>1, EnterGoesOn DEF NextUp, Turn
  <2> QED BY <1>1, <1>4, <2>2, TurnOrder DEF NextUp, Turn
<1>5. ASSUME WakeUp PROVE InOrder'
  <2>1. holder \in Callers /\ holder' = Nobody /\ UNCHANGED line
    BY <1>0, <1>5 DEF WakeUp, Wake, Grant
  <2>2. grants' # grants
    <3>1. Len(Append(grants, clock)) = Len(grants) + 1 /\ Len(grants) \in Nat
      BY <1>0, AppendProperties, LenProperties
    <3> QED BY <1>5, <3>1 DEF WakeUp, Wake, Grant
  <2>3. PassedBy(holder)
    BY <1>5, <2>2 DEF WakeUp, GoesOn, PassedBy
  <2>4. \A d, e \in Callers : Ahead(e, d)' => Ahead(e, d) /\ e # holder
    BY <1>0, <2>1 DEF LInv, Distinct, Ahead
  <2>5. \A d \in Callers : Ahead(holder, d)
    BY DEF Ahead
  <2> QED BY <1>1, <2>1, <2>3, <2>4, <2>5, OrderGranted
<1>6. ASSUME NEW c \in Callers, Connect(c) \/ Answer(c) PROVE InOrder'
  BY <1>2, <1>6 DEF Connect, Answer, rvars
<1>7. ASSUME NEW c \in Callers, GiveUp(c) PROVE InOrder'
  BY <1>7, GiveUpOrder
<1>8. CASE Refine \/ Time \/ UNCHANGED svars
  BY <1>2, <1>8 DEF Refine, Time, Tick, svars, rvars
<1> QED BY <1>3, <1>4, <1>5, <1>6, <1>7, <1>8 DEF SNext

LEMMA InitPlaces == SInit => RInv /\ LInv /\ InOrder
<1> SUFFICES ASSUME SInit PROVE RInv /\ LInv /\ InOrder
  OBVIOUS
<1>1. RInv
  BY RInitInv DEF SInit
<1>2. DOMAIN line = {} /\ holder = Nobody /\ Len(<<>>) = 0 /\ <<>> \in Seq(Callers)
      /\ DOMAIN <<>> = {}
  BY EmptySeq DEF SInit, RInit
<1>3. Places /\ Distinct
  BY <1>2 DEF SInit, Places, Passes, Distinct
<1>4. InOrder
  BY <1>2 DEF SInit, InOrder, IsInjective, Range
<1> QED BY <1>1, <1>3, <1>4 DEF LInv, RInv

LEMMA LInvStep == RInv /\ LInv /\ InOrder /\ [SNext]_svars => RInv' /\ LInv' /\ InOrder'
<1> SUFFICES ASSUME RInv, LInv, InOrder, [SNext]_svars PROVE RInv' /\ LInv' /\ InOrder'
  OBVIOUS
<1>1. RInv'
  BY StepIsLimiter, RStepInv
<1> QED BY <1>1, StepPlaces, StepOrder DEF RInv

\* While a caller waits, no other one is served twice, for any set of callers and
\* whatever is cancelled: shards that seed and candidates of a refinement delay
\* each other by one request each.
THEOREM ServedInTurn == SSpec => []PassedOnce
<1>1. InOrder => PassedOnce
  BY DEF InOrder, PassedOnce
<1> QED BY InitPlaces, LInvStep, <1>1, PTL DEF SSpec
-----------------------------------------------------------------------------
(***************************************************************************)
(* How long a seeding takes.                                               *)
(***************************************************************************)

\* No place in the line is behind the last one.
LEMMA PassedLess ==
  ASSUME LInv, NEW c \in Callers
  PROVE  Passes[c] < N
<1>1. N \in Nat /\ N # 0 /\ Held \in Nat
  <2>1. Callers # {}
    OBVIOUS
  <2> QED BY <2>1, SeedingAssumption, FS_CardinalityType, FS_EmptySet DEF N, Held
<1>2. CASE ~ Waiting(c)
  BY <1>1, <1>2 DEF LInv, Places
<1>3. CASE c = holder
  BY <1>3, LimiterAssumption DEF LInv, Places
<1>4. CASE Waits(c)
  <2>1. PICK i \in DOMAIN line : line[i] = c
    BY <1>4 DEF Waits
  <2>2. i \in Nat \ {0}
    BY LenProperties DEF LInv, RTypeOK
  <2>3. Passes[c] + Held + i =< N /\ Passes[c] \in Nat
    BY <2>1 DEF LInv, Places
  <2> QED BY <1>1, <2>2, <2>3
<1> QED BY <1>2, <1>3, <1>4 DEF Waiting

Slot  == MinInterval + MaxLag      \* from one grant to the next, if one waits
Round == N * Slot + MaxAnswer      \* one request of a caller

\* By when a shard is done with the requests that it has behind it.
DoneBy(s) == since[s] + (NAssets - left[s]) * Round

Counted ==
  /\ left \in [Callers -> 0 .. NAssets]
  /\ asked \in [Callers -> Nat \cup {Never}]
  /\ since \in [Callers -> Nat \cup {Never}]

\* A caller that waits is not kept longer than a slot after the last grant.
Prompt ==
  /\ holder # Nobody => until = last + MinInterval
  /\ holder # Nobody \/ line # <<>> => clock =< last + Slot

\* A caller waits or has a request on the way, not both, and only for cause.
Busy ==
  \A c \in Callers :
    /\ Waiting(c) => left[c] > 0 /\ asked[c] = Never
    /\ asked[c] # Never => left[c] > 0 /\ asked[c] =< clock /\ clock =< asked[c] + MaxAnswer
    /\ since[c] # Never => left[c] > 0

\* Each request costs a shard a round: a slot for each grant that passes it,
\* one for its own, and the answer.
Paced(s) ==
  since[s] # Never =>
    /\ Ready(s) => clock =< DoneBy(s)
    /\ Waiting(s) => last =< DoneBy(s) + Passes[s] * Slot
    /\ asked[s] # Never => asked[s] =< DoneBy(s) + N * Slot

TInv == LInv /\ InOrder /\ Counted /\ Prompt /\ Busy /\ \A s \in Callers : Paced(s)

\* What a caller goes through in acquire(): it begins or goes on to wait, or it
\* gets its grant.
Sleeps(c) ==
  /\ Ready(c) \/ Waiting(c)
  /\ \A d \in Callers : Waiting(d)' <=> Waiting(d) \/ d = c
  /\ UNCHANGED <<clock, last, left, asked, since, Passes>>

Granted(c) ==
  /\ Ready(c) \/ Waiting(c)
  /\ \A d \in Callers : Waiting(d)' <=> Waiting(d) /\ d # c
  /\ last' = clock /\ holder' = Nobody
  /\ asked' = [asked EXCEPT ![c] = clock]
  /\ \A d \in Callers : d # c /\ Waiting(d) => Passes'[d] = Passes[d] + 1
  /\ UNCHANGED <<clock, left, since>>

LEMMA RoundType ==
  /\ N \in Nat /\ Slot \in Nat /\ Round \in Nat /\ N * Slot \in Nat
  /\ Round = N * Slot + MaxAnswer
  /\ NAssets \in Nat /\ MaxAnswer \in Nat /\ MinInterval \in Nat /\ MaxLag \in Nat
  /\ Never \notin Nat
<1>1. /\ N \in Nat /\ Slot \in Nat /\ NAssets \in Nat /\ MaxAnswer \in Nat
      /\ MinInterval \in Nat /\ MaxLag \in Nat
  BY SeedingAssumption, LimiterAssumption, FS_CardinalityType DEF N, Slot
<1>2. N * Slot \in Nat
  BY <1>1
<1> QED BY <1>1, <1>2, SeedingAssumption DEF Round

\* One more request behind it moves that time by a round.
LEMMA DoneByType ==
  ASSUME NEW s \in Callers, left[s] \in 0 .. NAssets, since[s] \in Nat
  PROVE  /\ DoneBy(s) \in Nat
         /\ since[s] + (NAssets - (left[s] - 1)) * Round = DoneBy(s) + Round
         /\ left[s] > 0 => DoneBy(s) + Round =< since[s] + NAssets * Round
<1> DEFINE k == NAssets - left[s]
<1>1. k \in Nat /\ Round \in Nat /\ NAssets \in Nat /\ left[s] \in Nat
  BY RoundType
<1>2. NAssets - (left[s] - 1) = k + 1 /\ DoneBy(s) = since[s] + k * Round
  BY <1>1 DEF DoneBy
<1>3. left[s] > 0 => NAssets - k - 1 \in Nat
  BY <1>1
<1> HIDE DEF k
<1>4. k * Round \in Nat /\ (k + 1) * Round = k * Round + Round
  BY <1>1
<1>5. left[s] > 0 => NAssets * Round >= (k + 1) * Round
  <2> SUFFICES ASSUME NEW r \in Nat, r = NAssets - k - 1 PROVE NAssets * Round >= (k + 1) * Round
    BY <1>3
  <2>1. NAssets = (k + 1) + r
    BY <1>1
  <2>2. ((k + 1) + r) * Round = (k + 1) * Round + r * Round /\ r * Round \in Nat
    BY <1>1
  <2>3. (k + 1) * Round \in Nat /\ NAssets * Round \in Nat
    BY <1>1
  <2> QED BY <2>1, <2>2, <2>3
<1>6. (k + 1) * Round \in Nat /\ NAssets * Round \in Nat
  BY <1>1
<1>7. since[s] + (NAssets - (left[s] - 1)) * Round = DoneBy(s) + Round
  <2>1. since[s] + (k + 1) * Round = DoneBy(s) + Round
    BY <1>1, <1>2, <1>4
  <2> QED BY <1>2, <2>1
<1>8. left[s] > 0 => DoneBy(s) + Round =< since[s] + NAssets * Round
  BY <1>1, <1>2, <1>4, <1>5, <1>6
<1> QED BY <1>2, <1>4, <1>7, <1>8

\* The slots of those that passed a caller, and its own, are not more than all.
LEMMA SlotsBefore ==
  ASSUME NEW p \in Nat, p < N
  PROVE  p * Slot + Slot =< N * Slot /\ p * Slot \in Nat
<1>1. PICK r \in Nat : N = (p + 1) + r
  <2>1. N - (p + 1) \in Nat /\ N = (p + 1) + (N - (p + 1))
    BY RoundType
  <2> QED BY <2>1
<1>2. ((p + 1) + r) * Slot = (p + 1) * Slot + r * Slot /\ r * Slot \in Nat
  BY RoundType
<1>3. (p + 1) * Slot = p * Slot + Slot /\ p * Slot \in Nat
  BY RoundType
<1> QED BY <1>1, <1>2, <1>3, RoundType

\* What a step is for a caller that it is not about.
LEMMA OthersPaced ==
  ASSUME TInv, NEW d \in Callers,
         left'[d] = left[d], asked'[d] = asked[d], since'[d] = since[d],
         \/ UNCHANGED <<clock, last>> /\ Passes'[d] = Passes[d]
         \/ /\ last' = clock /\ UNCHANGED clock
            /\ line # <<>> \/ holder # Nobody
            /\ Waiting(d) => Passes'[d] = Passes[d] + 1,
         Waiting(d)' <=> Waiting(d)
  PROVE  Paced(d)'
<1> SUFFICES ASSUME since[d] # Never PROVE Paced(d)'
  BY DEF Paced
<1>1. /\ DoneBy(d)' = DoneBy(d) /\ DoneBy(d) \in Nat /\ Ready(d)' = Ready(d)
      /\ Passes[d] \in Nat /\ last \in Nat /\ clock \in Nat
  <2>1. since[d] \in Nat /\ left[d] \in 0 .. NAssets
    BY DEF TInv, Counted
  <2>2. Round' = Round /\ Slot' = Slot
    BY DEF Round, Slot, N
  <2> QED BY <2>1, <2>2, DoneByType, LimiterAssumption
          DEF DoneBy, Ready, TInv, LInv, Places, RTypeOK
<1>2. Paced(d)
  BY DEF TInv
<1>3. CASE UNCHANGED <<clock, last>> /\ Passes'[d] = Passes[d]
  BY <1>1, <1>2, <1>3, RoundType DEF Paced, N, Slot
<1>4. CASE /\ last' = clock /\ UNCHANGED clock
           /\ line # <<>> \/ holder # Nobody
           /\ Waiting(d) => Passes'[d] = Passes[d] + 1
  <2>1. clock =< last + Slot
    BY <1>4 DEF TInv, Prompt
  <2>2. Waiting(d)' => last' =< DoneBy(d)' + Passes'[d] * Slot
    <3> SUFFICES ASSUME Waiting(d) PROVE clock =< DoneBy(d) + (Passes[d] + 1) * Slot
      BY <1>1, <1>4 DEF Slot
    <3>1. (Passes[d] + 1) * Slot = Passes[d] * Slot + Slot /\ Passes[d] * Slot \in Nat
      BY <1>1, RoundType
    <3>2. last =< DoneBy(d) + Passes[d] * Slot
      BY <1>2 DEF Paced
    <3>3. (Passes[d] + 1) * Slot \in Nat /\ Slot \in Nat
      BY <1>1, RoundType
    <3>4. /\ clock \in Nat /\ last \in Nat /\ DoneBy(d) \in Nat /\ Passes[d] * Slot \in Nat
          /\ clock =< last + Slot
      BY <1>1, <2>1, <3>1
    <3> QED BY ONLY <3>1, <3>2, <3>3, <3>4
  <2> QED BY <1>1, <1>2, <1>4, <2>2 DEF Paced, N, Slot
<1> QED BY <1>3, <1>4

LEMMA SleepsPaced ==
  ASSUME TInv, NEW c \in Callers, Sleeps(c)
  PROVE  Counted' /\ Busy' /\ \A s \in Callers : Paced(s)'
<1>1. Counted'
  BY DEF TInv, Counted, Sleeps
<1>2. left[c] > 0 /\ asked[c] = Never
  BY DEF TInv, Busy, Sleeps, Ready
<1>3. Busy'
  BY <1>2 DEF TInv, Busy, Sleeps
<1>4. ASSUME NEW s \in Callers PROVE Paced(s)'
  <2>1. CASE Waiting(s)' <=> Waiting(s)
    BY <2>1, OthersPaced DEF Sleeps
  <2>2. CASE s = c /\ Ready(c)
    <3> SUFFICES ASSUME since[c] # Never PROVE last =< DoneBy(c) + Passes[c] * Slot
      BY <1>2, <2>2 DEF Paced, Sleeps, Ready, DoneBy, Round, Slot, N
    <3>1. since[c] \in Nat /\ left[c] \in 0 .. NAssets
      BY DEF TInv, Counted
    <3>2. /\ clock =< DoneBy(c) /\ DoneBy(c) \in Nat
          /\ Passes[c] \in Nat /\ last \in Nat /\ clock \in Nat /\ last =< clock
      BY <2>2, <3>1, DoneByType, LimiterAssumption DEF TInv, Paced, LInv, Places, RTypeOK
    <3>3. Passes[c] * Slot \in Nat
      BY <3>2, RoundType
    <3> QED BY <3>2, <3>3
  <2> QED BY <2>1, <2>2 DEF Sleeps
<1> QED BY <1>1, <1>3, <1>4

LEMMA GrantedPaced ==
  ASSUME TInv, NEW c \in Callers, Granted(c)
  PROVE  Counted' /\ Busy' /\ \A s \in Callers : Paced(s)'
<1>0. clock \in Nat /\ last \in Nat /\ last =< clock /\ MaxAnswer \in Nat /\ Never \notin Nat
  BY LimiterAssumption, SeedingAssumption DEF TInv, LInv, RTypeOK
<1>1. Counted'
  BY <1>0 DEF TInv, Counted, Granted
<1>2. left[c] > 0 /\ asked'[c] = clock /\ ~ Waiting(c)'
  BY DEF TInv, Busy, Granted, Ready, Counted
<1>3. \A d \in Callers : d # c => asked'[d] = asked[d] /\ (Waiting(d)' <=> Waiting(d))
  BY DEF Granted, TInv, Counted
<1>4. Busy'
  <2> SUFFICES ASSUME NEW d \in Callers
               PROVE  /\ Waiting(d)' => left[d] > 0 /\ asked'[d] = Never
                      /\ asked'[d] # Never => /\ left[d] > 0 /\ asked'[d] =< clock
                                              /\ clock =< asked'[d] + MaxAnswer
                      /\ since[d] # Never => left[d] > 0
    BY DEF Busy, Granted
  <2> QED BY <1>0, <1>2, <1>3 DEF TInv, Busy
<1>5. Paced(c)'
  <2> SUFFICES ASSUME since[c] # Never PROVE clock =< DoneBy(c) + N * Slot
    BY <1>0, <1>2 DEF Paced, Granted, Ready, DoneBy, Round, Slot, N
  <2>1. since[c] \in Nat /\ left[c] \in 0 .. NAssets
    BY DEF TInv, Counted
  <2>2. DoneBy(c) \in Nat /\ Passes[c] \in Nat /\ Passes[c] < N
    BY <2>1, DoneByType, PassedLess DEF TInv, LInv, Places
  <2>3. CASE Ready(c)
    <3>1. clock =< DoneBy(c)
      BY <2>3 DEF TInv, Paced
    <3> QED BY <1>0, <2>2, <3>1, RoundType
  <2>4. CASE Waiting(c)
    <3>1. last =< DoneBy(c) + Passes[c] * Slot
      BY <2>4 DEF TInv, Paced
    <3>2. holder # Nobody \/ line # <<>>
      BY <2>4, LimiterAssumption, EmptySeq DEF Waiting, Waits
    <3>3. clock =< last + Slot
      BY <3>2 DEF TInv, Prompt
    <3>4. Passes[c] * Slot + Slot =< N * Slot
      BY <2>2, SlotsBefore
    <3>5. Passes[c] * Slot \in Nat
      BY <2>2, RoundType
    <3> QED BY <1>0, <2>2, <3>1, <3>3, <3>4, <3>5, RoundType
  <2> QED BY <2>3, <2>4 DEF Granted
<1>6. ASSUME NEW d \in Callers, d # c PROVE Paced(d)'
  <2>1. CASE Waiting(d)
    <3>1. holder # Nobody \/ line # <<>>
      BY <2>1, LimiterAssumption, EmptySeq DEF Waiting, Waits
    <3> QED BY <1>3, <1>6, <2>1, <3>1, OthersPaced DEF Granted
  <2>2. CASE ~ Waiting(d)
    <3>1. Paced(d)
      BY DEF TInv
    <3> QED BY <1>3, <1>6, <2>2, <3>1 DEF Paced, Granted, Ready, DoneBy, Round, Slot, N
  <2> QED BY <2>1, <2>2
<1> QED BY <1>1, <1>4, <1>5, <1>6

\* acquire(), once it has the lock: a sleep that ends an interval after the last
\* grant, or a grant.
LEMMA EnterOutcome ==
  ASSUME TInv, NEW c \in Callers, Enter(c), GoesOn(c), UNCHANGED clock
  PROVE  \/ /\ holder' = c /\ UNCHANGED <<last, left, asked, since, Passes>>
            /\ Prompt'
         \/ /\ holder' = Nobody /\ last' = clock /\ UNCHANGED <<left, since>>
            /\ asked' = [asked EXCEPT ![c] = clock]
            /\ \A d \in Callers : d # c /\ Waiting(d) => Passes'[d] = Passes[d] + 1
            /\ Prompt'
<1>0. /\ clock \in Nat /\ last \in Nat /\ MinInterval \in Nat /\ MaxLag \in Nat
      /\ Nobody \notin Callers /\ grants \in Seq(0 .. clock) /\ clock \in 0 .. clock
      /\ passed \in [Callers -> Seq(Callers)]
  BY RoundType, LimiterAssumption DEF TInv, InOrder, LInv, RTypeOK
<1>1. CASE /\ MinInterval - (clock - last) > 0
           /\ holder' = c /\ until' = clock + (MinInterval - (clock - last))
           /\ UNCHANGED <<last, grants>>
  <2>1. until' = last' + MinInterval /\ clock' =< last' + (MinInterval + MaxLag)
    BY <1>0, <1>1
  <2>2. Prompt'
    BY <2>1 DEF Prompt, Slot
  <2> QED BY <1>0, <1>1, <2>2, PassesFollow DEF GoesOn
<1>2. CASE Grant
  <2>1. grants' # grants
    <3>1. Len(Append(grants, clock)) = Len(grants) + 1 /\ Len(grants) \in Nat
      BY <1>0, AppendProperties, LenProperties
    <3> QED BY <1>2, <3>1 DEF Grant
  <2>2. Prompt'
    <3>1. clock' =< last' + (MinInterval + MaxLag)
      BY <1>0, <1>2 DEF Grant
    <3> QED BY <1>2, <3>1 DEF Prompt, Slot, Grant
  <2>3. asked' = [asked EXCEPT ![c] = clock] /\ PassedBy(c) /\ UNCHANGED <<left, since>>
    BY <2>1 DEF GoesOn, PassedBy
  <2>4. \A d \in Callers : d # c /\ Waiting(d) => Passes'[d] = Passes[d] + 1
    BY <1>0, <2>3, PassesFollow
  <2> QED BY <1>2, <2>2, <2>3, <2>4 DEF Grant
<1> QED BY <1>0, <1>1, <1>2 DEF Enter

\* Each of the three ways to go on in acquire() is one of the two.
LEMMA AskOutcome ==
  ASSUME TInv, NEW c \in Callers, Ask(c)
  PROVE  (Sleeps(c) \/ Granted(c)) /\ Prompt'
<1>0. /\ Ready(c) /\ ~ Waiting(c) /\ UNCHANGED clock
      /\ line \in Seq(Callers) /\ holder \in Callers \cup {Nobody} /\ Nobody \notin Callers
  BY LimiterAssumption DEF Ask, Ready, Acquire, TInv, LInv, RTypeOK
<1>1. CASE line' = Append(line, c) /\ (holder # Nobody \/ line # <<>>)
           /\ UNCHANGED <<last, holder, until, grants>>
  <2>1. /\ DOMAIN line = 1 .. Len(line) /\ DOMAIN line' = 1 .. Len(line) + 1
        /\ Len(line) \in Nat
        /\ \A i \in 1 .. Len(line) : line'[i] = line[i]
        /\ line'[Len(line) + 1] = c
    BY <1>0, <1>1, AppendProperties, LenProperties
  <2>2. ASSUME NEW d \in Callers PROVE Waits(d)' <=> Waits(d) \/ d = c
    <3>1. Waits(d) => Waits(d)'
      BY <2>1 DEF Waits
    <3>2. Len(line) + 1 \in DOMAIN line'
      BY <2>1
    <3>3. Waits(c)'
      BY <2>1, <3>2 DEF Waits
    <3>4. Waits(d)' => Waits(d) \/ d = c
      <4> SUFFICES ASSUME NEW i \in DOMAIN line', line'[i] = d, d # c PROVE Waits(d)
        BY DEF Waits
      <4>1. i \in 1 .. Len(line)
        BY <2>1
      <4> QED BY <2>1, <4>1 DEF Waits
    <3> QED BY <3>1, <3>3, <3>4
  <2>3. Sleeps(c)
    <3>1. UNCHANGED <<asked, passed, left, since, Passes>>
      BY <1>1 DEF Ask, GoesOn, Passes
    <3> QED BY <1>0, <1>1, <2>2, <3>1 DEF Sleeps, Waiting
  <2>4. Prompt'
    BY <1>0, <1>1 DEF TInv, Prompt, Slot
  <2> QED BY <2>3, <2>4
<1>2. CASE holder = Nobody /\ line = <<>> /\ Enter(c) /\ UNCHANGED line
  <2>1. \A d \in Callers : Waits(d)' = Waits(d)
    BY <1>2 DEF Waits
  <2>2. \A d \in Callers : ~ Waiting(d)
    BY <1>0, <1>2, EmptySeq DEF Waiting, Waits
  <2>3. CASE holder' = c /\ UNCHANGED <<last, left, asked, since, Passes>> /\ Prompt'
    BY <1>0, <2>1, <2>2, <2>3 DEF Sleeps, Waiting
  <2>4. CASE /\ holder' = Nobody /\ last' = clock /\ UNCHANGED <<left, since>>
             /\ asked' = [asked EXCEPT ![c] = clock]
             /\ \A d \in Callers : d # c /\ Waiting(d) => Passes'[d] = Passes[d] + 1
             /\ Prompt'
    BY <1>0, <2>1, <2>2, <2>4 DEF Granted, Waiting
  <2> QED BY <1>0, <1>2, <2>3, <2>4, EnterOutcome DEF Ask
<1> QED BY <1>1, <1>2 DEF Ask, Acquire

LEMMA NextUpOutcome ==
  ASSUME TInv, NextUp
  PROVE  /\ Head(line) \in Callers /\ Prompt'
         /\ Sleeps(Head(line)) \/ Granted(Head(line))
<1> DEFINE n == Len(line)
           c == Head(line)
<1>1. /\ line \in Seq(Callers) /\ line # <<>> /\ n \in Nat \ {0} /\ DOMAIN line = 1 .. n
      /\ holder = Nobody /\ Nobody \notin Callers /\ UNCHANGED clock
      /\ \A i, j \in 1 .. n : line[i] = line[j] => i = j
  BY LenProperties, EmptySeq, LimiterAssumption
     DEF TInv, LInv, RTypeOK, Distinct, NextUp, Turn
<1>2. /\ c = line[1] /\ c \in Callers /\ DOMAIN line' = 1 .. n - 1
      /\ \A i \in 1 .. n - 1 : line'[i] = line[i + 1] /\ i + 1 \in 1 .. n
  <2>1. /\ c = line[1] /\ c \in Callers
        /\ Tail(line) \in Seq(Callers) /\ Len(Tail(line)) = n - 1
        /\ \A i \in 1 .. Len(Tail(line)) : Tail(line)[i] = line[i + 1]
    BY <1>1, HeadTailProperties
  <2>2. line' = Tail(line)
    BY DEF NextUp, Turn
  <2>3. \A i \in 1 .. n - 1 : i + 1 \in 1 .. n
    BY <1>1
  <2> QED BY <2>1, <2>2, <2>3, LenProperties
<1>3. 1 \in 1 .. n
  BY <1>1
<1> HIDE DEF n, c
<1>4. ASSUME NEW d \in Callers PROVE Waits(d)' <=> Waits(d) /\ d # c
  <2>1. ASSUME NEW i \in 1 .. n - 1, line'[i] = d PROVE Waits(d) /\ d # c
    <3>1. line[i + 1] = d /\ i + 1 \in 1 .. n /\ i + 1 # 1
      BY <1>1, <1>2, <2>1
    <3> QED BY <1>1, <1>2, <1>3, <3>1 DEF Waits
  <2>2. ASSUME NEW i \in 1 .. n, line[i] = d, d # c PROVE Waits(d)'
    <3>1. i # 1
      BY <1>2, <2>2
    <3>2. i - 1 \in 1 .. n - 1 /\ (i - 1) + 1 = i
      BY <1>1, <3>1
    <3>3. line'[i - 1] = d
      BY <1>2, <2>2, <3>2
    <3> QED BY <1>2, <3>2, <3>3 DEF Waits
  <2> QED BY <1>1, <1>2, <2>1, <2>2 DEF Waits
<1>5. Waits(c) /\ Waiting(c)
  BY <1>1, <1>2, <1>3 DEF Waits, Waiting
<1>6. CASE holder' = c /\ UNCHANGED <<last, left, asked, since, Passes>> /\ Prompt'
  BY <1>1, <1>2, <1>4, <1>5, <1>6 DEF Sleeps, Waiting, c
<1>7. CASE /\ holder' = Nobody /\ last' = clock /\ UNCHANGED <<left, since>>
           /\ asked' = [asked EXCEPT ![c] = clock]
           /\ \A d \in Callers : d # c /\ Waiting(d) => Passes'[d] = Passes[d] + 1
           /\ Prompt'
  BY <1>1, <1>2, <1>4, <1>5, <1>7 DEF Granted, Waiting, c
<1> QED BY <1>1, <1>2, <1>6, <1>7, EnterOutcome DEF NextUp, Turn, c

LEMMA WakeUpOutcome ==
  ASSUME TInv, WakeUp
  PROVE  holder \in Callers /\ Granted(holder) /\ Prompt'
<1>1. /\ holder \in Callers /\ holder # Nobody /\ Nobody \notin Callers
      /\ UNCHANGED <<clock, line>> /\ Grant /\ clock \in Nat
      /\ grants \in Seq(0 .. clock) /\ clock \in 0 .. clock
      /\ passed \in [Callers -> Seq(Callers)]
  BY LimiterAssumption DEF TInv, LInv, InOrder, RTypeOK, WakeUp, Wake
<1>2. grants' # grants
  <2>1. Len(Append(grants, clock)) = Len(grants) + 1 /\ Len(grants) \in Nat
    BY <1>1, AppendProperties, LenProperties
  <2> QED BY <1>1, <2>1 DEF Grant
<1>3. /\ asked' = [asked EXCEPT ![holder] = clock] /\ UNCHANGED <<left, since>>
      /\ PassedBy(holder)
  BY <1>2 DEF WakeUp, GoesOn, PassedBy
<1>4. \A d \in Callers : d # holder /\ Waiting(d) => Passes'[d] = Passes[d] + 1
  BY <1>1, <1>3, PassesFollow
<1>5. ~ Waits(holder)
  BY DEF TInv, LInv, Distinct, Waits
<1>6. \A d \in Callers : Waiting(d)' <=> Waiting(d) /\ d # holder
  BY <1>1, <1>5 DEF Waiting, Waits, Grant
<1>7. Prompt'
  BY <1>1, RoundType DEF Prompt, Slot, Grant
<1> QED BY <1>1, <1>3, <1>4, <1>6, <1>7 DEF Granted, Waiting, Grant
-----------------------------------------------------------------------------
\* The other actions: what they change of one caller, and of the clock.
TimeParts == Counted /\ Prompt /\ Busy /\ \A s \in Callers : Paced(s)

LEMMA ConnectPaced == ASSUME TInv, NEW s \in Callers, Connect(s) PROVE TimeParts'
<1>0. /\ left[s] = 0 /\ asked[s] = Never /\ ~ Waiting(s)
      /\ left' = [left EXCEPT ![s] = NAssets] /\ since' = [since EXCEPT ![s] = clock]
      /\ UNCHANGED <<rvars, asked, Passes>> /\ clock \in Nat /\ NAssets \in Nat \ {0}
      /\ \A d \in Callers : Waiting(d)' = Waiting(d)
  BY LimiterAssumption, SeedingAssumption
     DEF Connect, Passes, TInv, Busy, LInv, RTypeOK, Waiting, Waits, rvars
<1>1. /\ left'[s] = NAssets /\ since'[s] = clock
      /\ \A d \in Callers : d # s => left'[d] = left[d] /\ since'[d] = since[d]
  BY <1>0 DEF TInv, Counted
<1>2. Counted'
  BY <1>0 DEF TInv, Counted
<1>3. Busy' /\ Prompt'
  BY <1>0, <1>1 DEF TInv, Busy, Prompt, rvars, Slot
<1>4. ASSUME NEW d \in Callers, d # s PROVE Paced(d)'
  BY <1>0, <1>1, <1>4, OthersPaced DEF rvars
<1>5. Paced(s)'
  <2>1. (NAssets - NAssets) * Round = 0
    BY <1>0, RoundType
  <2>2. DoneBy(s)' = clock
    BY <1>0, <1>1, <2>1 DEF DoneBy, Round, N, Slot
  <2> QED BY <1>0, <1>1, <2>2 DEF Paced, rvars
<1> QED BY <1>2, <1>3, <1>4, <1>5 DEF TimeParts

LEMMA AnswerPaced == ASSUME TInv, NEW c \in Callers, Answer(c) PROVE TimeParts'
<1>0. /\ asked[c] \in Nat /\ asked[c] # Never /\ ~ Waiting(c)
      /\ left[c] \in 1 .. NAssets /\ NAssets \in Nat /\ MaxAnswer \in Nat /\ clock \in Nat
      /\ asked[c] =< clock /\ clock =< asked[c] + MaxAnswer
      /\ asked' = [asked EXCEPT ![c] = Never] /\ left' = [left EXCEPT ![c] = @ - 1]
      /\ since' = [since EXCEPT ![c] = IF left[c] = 1 THEN Never ELSE @]
      /\ UNCHANGED <<rvars, Passes>> /\ Never \notin Nat
      /\ \A d \in Callers : Waiting(d)' = Waiting(d)
  BY LimiterAssumption, SeedingAssumption
     DEF Answer, Passes, TInv, Counted, Busy, LInv, RTypeOK, Waiting, Waits, rvars
<1>1. /\ left'[c] = left[c] - 1 /\ asked'[c] = Never
      /\ since'[c] = IF left[c] = 1 THEN Never ELSE since[c]
      /\ \A d \in Callers : d # c => /\ left'[d] = left[d] /\ since'[d] = since[d]
                                     /\ asked'[d] = asked[d]
  BY <1>0 DEF TInv, Counted
<1>2. Counted'
  <2>1. left[c] - 1 \in 0 .. NAssets
    BY <1>0
  <2> QED BY <1>0, <2>1 DEF TInv, Counted
<1>3. Prompt'
  BY <1>0 DEF TInv, Prompt, rvars, Slot
<1>4. Busy'
  <2> SUFFICES ASSUME NEW d \in Callers
               PROVE  /\ Waiting(d) => left'[d] > 0 /\ asked'[d] = Never
                      /\ asked'[d] # Never => /\ left'[d] > 0 /\ asked'[d] =< clock
                                              /\ clock =< asked'[d] + MaxAnswer
                      /\ since'[d] # Never => left'[d] > 0
    BY <1>0 DEF Busy, rvars
  <2>1. CASE d = c
    BY <1>0, <1>1, <2>1
  <2>2. CASE d # c
    BY <1>1, <2>2 DEF TInv, Busy
  <2> QED BY <2>1, <2>2
<1>5. ASSUME NEW d \in Callers, d # c PROVE Paced(d)'
  BY <1>0, <1>1, <1>5, OthersPaced DEF rvars
<1>6. Paced(c)'
  <2> SUFFICES ASSUME since'[c] # Never PROVE clock =< DoneBy(c)'
    BY <1>0, <1>1 DEF Paced, rvars
  <2>1. /\ since'[c] = since[c] /\ since[c] \in Nat /\ since[c] # Never
        /\ left[c] \in 0 .. NAssets
    BY <1>0, <1>1 DEF TInv, Counted
  <2>2. DoneBy(c)' = since[c] + (NAssets - (left[c] - 1)) * Round
    BY <1>1, <2>1 DEF DoneBy, Round, N, Slot
  <2>3. DoneBy(c) \in Nat /\ DoneBy(c)' = DoneBy(c) + Round
    BY <2>1, <2>2, DoneByType
  <2>4. asked[c] =< DoneBy(c) + N * Slot
    BY <1>0, <2>1 DEF TInv, Paced
  <2> QED BY <1>0, <2>3, <2>4, RoundType
<1> QED BY <1>2, <1>3, <1>4, <1>5, <1>6 DEF TimeParts

\* The caller that gives up is no longer in the line, and the others are.
LEMMA GiveUpWaits ==
  ASSUME TInv, NEW c \in Callers, GiveUp(c)
  PROVE  /\ \A d \in Callers : Waiting(d)' <=> Waiting(d) /\ d # c
         /\ UNCHANGED <<clock, last>> /\ Prompt'
<1>0. /\ line \in Seq(Callers) /\ Len(line) \in Nat /\ DOMAIN line = 1 .. Len(line)
      /\ holder \in Callers \cup {Nobody} /\ Nobody \notin Callers
      /\ \A i, j \in DOMAIN line : line[i] = line[j] => i = j
      /\ \A i \in DOMAIN line : line[i] # holder
  BY LenProperties, LimiterAssumption DEF TInv, LInv, RTypeOK, Distinct
<1>1. CASE asked[c] # Never /\ UNCHANGED rvars
  <2>1. ~ Waiting(c)
    BY <1>1 DEF TInv, Busy
  <2> QED BY <1>1, <2>1 DEF TInv, Prompt, Waiting, Waits, rvars, Slot
<1>2. CASE holder = c /\ holder' = Nobody /\ UNCHANGED <<line, clock, last, until, grants>>
  <2>1. \A d \in Callers : Waiting(d)' <=> Waiting(d) /\ d # c
    BY <1>0, <1>2 DEF Waiting, Waits
  <2>2. Prompt'
    BY <1>0, <1>2 DEF TInv, Prompt, Slot
  <2> QED BY <1>2, <2>1, <2>2
<1>3. ASSUME NEW i \in DOMAIN line, line[i] = c, line' = RemoveAt(line, i),
             UNCHANGED <<holder, clock, last, until, grants>>
      PROVE  /\ \A d \in Callers : Waiting(d)' <=> Waiting(d) /\ d # c
             /\ Prompt'
  <2> DEFINE n == Len(line)
  <2>1. /\ n \in Nat /\ i \in 1 .. n /\ DOMAIN line = 1 .. n /\ DOMAIN line' = 1 .. n - 1
        /\ \A j \in 1 .. n - 1 : line'[j] = IF j < i THEN line[j] ELSE line[j + 1]
    BY <1>0, <1>3, RemoveOne
  <2> HIDE DEF n
  <2>2. ASSUME NEW d \in Callers PROVE Waits(d)' <=> Waits(d) /\ d # c
    <3>1. ASSUME NEW j \in 1 .. n - 1, line'[j] = d PROVE Waits(d) /\ d # c
      <4>1. CASE j < i
        <5>1. line[j] = d /\ j \in 1 .. n /\ j # i
          BY <2>1, <3>1, <4>1
        <5> QED BY <1>0, <1>3, <2>1, <5>1 DEF Waits
      <4>2. CASE ~ (j < i)
        <5>1. line[j + 1] = d /\ j + 1 \in 1 .. n /\ j + 1 # i
          BY <2>1, <3>1, <4>2
        <5> QED BY <1>0, <1>3, <2>1, <5>1 DEF Waits
      <4> QED BY <4>1, <4>2
    <3>2. ASSUME NEW j \in 1 .. n, line[j] = d, d # c PROVE Waits(d)'
      <4>1. CASE j < i
        <5>1. j \in 1 .. n - 1 /\ line'[j] = d
          BY <2>1, <3>2, <4>1
        <5> QED BY <2>1, <5>1 DEF Waits
      <4>2. CASE j > i
        <5>1. j - 1 \in 1 .. n - 1 /\ ~ (j - 1 < i) /\ (j - 1) + 1 = j
          BY <2>1, <4>2
        <5>2. line'[j - 1] = d
          BY <2>1, <3>2, <5>1
        <5> QED BY <2>1, <5>1, <5>2 DEF Waits
      <4>3. j # i
        BY <1>3, <3>2
      <4> QED BY <2>1, <4>1, <4>2, <4>3
    <3> QED BY <2>1, <3>1, <3>2 DEF Waits
  <2>3. c # holder
    BY <1>0, <1>3
  <2>4. Prompt'
    <3>1. line # <<>>
      BY <1>3, EmptySeq
    <3> QED BY <1>3, <3>1 DEF TInv, Prompt, Slot
  <2> QED BY <1>3, <2>2, <2>3, <2>4 DEF Waiting
<1> QED BY <1>1, <1>2, <1>3 DEF GiveUp, Cancel, rvars

LEMMA GiveUpPaced == ASSUME TInv, NEW c \in Callers, GiveUp(c) PROVE TimeParts'
<1>0. /\ asked' = [asked EXCEPT ![c] = Never] /\ left' = [left EXCEPT ![c] = 0]
      /\ since' = [since EXCEPT ![c] = Never] /\ Passes' = [Passes EXCEPT ![c] = 0]
      /\ NAssets \in Nat
  BY PassesFollow, SeedingAssumption DEF GiveUp, TInv, InOrder
<1>1. /\ left'[c] = 0 /\ asked'[c] = Never /\ since'[c] = Never
      /\ \A d \in Callers : d # c => /\ left'[d] = left[d] /\ since'[d] = since[d]
                                     /\ asked'[d] = asked[d] /\ Passes'[d] = Passes[d]
  BY <1>0 DEF TInv, Counted, LInv, Places
<1>2. Counted'
  BY <1>0 DEF TInv, Counted
<1>3. Busy'
  BY <1>1, GiveUpWaits DEF TInv, Busy
<1>4. ASSUME NEW d \in Callers, d # c PROVE Paced(d)'
  BY <1>1, <1>4, GiveUpWaits, OthersPaced
<1>5. Paced(c)'
  BY <1>1 DEF Paced
<1> QED BY <1>2, <1>3, <1>4, <1>5, GiveUpWaits DEF TimeParts

LEMMA RefinePaced == ASSUME TInv, Refine PROVE TimeParts'
<1>0. /\ \A c \in Callers \ Shards : left[c] = 0 /\ asked[c] = Never
      /\ left' = [c \in Callers |-> IF c \in Shards THEN left[c] ELSE 1]
      /\ UNCHANGED <<rvars, asked, since, Passes>> /\ NAssets \in Nat \ {0}
      /\ \A d \in Callers : Waiting(d)' = Waiting(d)
  BY SeedingAssumption DEF Refine, Passes, Waiting, Waits, rvars
<1>1. Counted'
  <2>1. \A c \in Callers : left'[c] \in 0 .. NAssets
    BY <1>0 DEF TInv, Counted
  <2> QED BY <1>0, <2>1 DEF TInv, Counted
<1>2. Busy' /\ Prompt'
  BY <1>0 DEF TInv, Busy, Prompt, rvars, Slot
<1>3. ASSUME NEW s \in Callers PROVE Paced(s)'
  <2>1. CASE s \in Shards
    BY <1>0, <2>1, OthersPaced DEF rvars
  <2>2. CASE s \notin Shards
    <3>1. since[s] = Never
      BY <1>0, <2>2 DEF TInv, Busy
    <3> QED BY <1>0, <3>1 DEF Paced
  <2> QED BY <2>1, <2>2
<1> QED BY <1>1, <1>2, <1>3 DEF TimeParts

LEMMA TimePaced == ASSUME TInv, Time PROVE TimeParts'
<1>0. /\ clock' = clock + 1 /\ UNCHANGED <<last, holder, until, line, left, asked, since, Passes>>
      /\ \A c \in Callers : ~ Ready(c) /\ (asked[c] # Never => clock < asked[c] + MaxAnswer)
      /\ \A c \in Callers : asked[c] # Never => asked[c] \in Nat
      /\ clock \in Nat /\ last \in Nat /\ MaxAnswer \in Nat
      /\ MinInterval \in Nat /\ MaxLag \in Nat
      /\ \A d \in Callers : Waiting(d)' = Waiting(d)
  BY LimiterAssumption, SeedingAssumption
     DEF Time, Tick, Passes, TInv, LInv, RTypeOK, Counted, Waiting, Waits
<1>1. Counted'
  BY <1>0 DEF TInv, Counted
<1>2. Busy'
  BY <1>0 DEF TInv, Busy
<1>3. Prompt'
  <2>1. holder # Nobody \/ line # <<>> => clock < (last + MinInterval) + MaxLag
    BY DEF Time, TInv, Prompt
  <2>2. holder # Nobody \/ line # <<>> => clock + 1 =< last + (MinInterval + MaxLag)
    BY <1>0, <2>1
  <2> QED BY <1>0, <2>2 DEF TInv, Prompt, Slot
<1>4. ASSUME NEW s \in Callers PROVE Paced(s)'
  <2>1. Paced(s) /\ Ready(s)' = Ready(s)
    BY <1>0 DEF TInv, Ready
  <2> QED BY <1>0, <2>1 DEF Paced, DoneBy, Round, N, Slot
<1> QED BY <1>1, <1>2, <1>3, <1>4 DEF TimeParts

LEMMA TimeStep == RInv /\ TInv /\ [SNext]_svars => (RInv /\ TInv)'
<1> SUFFICES ASSUME RInv, TInv, [SNext]_svars PROVE (RInv /\ TInv)'
  OBVIOUS
<1>0. RInv' /\ LInv' /\ InOrder'
  BY LInvStep DEF TInv
<1>1. ASSUME NEW c \in Callers, Ask(c) PROVE TimeParts'
  BY <1>1, AskOutcome, SleepsPaced, GrantedPaced DEF TimeParts
<1>2. ASSUME NEW c \in Callers, Connect(c) \/ Answer(c) \/ GiveUp(c) PROVE TimeParts'
  BY <1>2, ConnectPaced, AnswerPaced, GiveUpPaced
<1>3. ASSUME NextUp PROVE TimeParts'
  BY <1>3, NextUpOutcome, SleepsPaced, GrantedPaced DEF TimeParts
<1>4. ASSUME WakeUp PROVE TimeParts'
  BY <1>4, WakeUpOutcome, GrantedPaced DEF TimeParts
<1>5. ASSUME Refine \/ Time PROVE TimeParts'
  BY <1>5, RefinePaced, TimePaced
<1>6. ASSUME UNCHANGED svars PROVE TimeParts'
  BY <1>6 DEF TInv, TimeParts, svars, rvars, Counted, Prompt, Busy, Paced, Ready, Waiting,
              Waits, DoneBy, Round, N, Slot, Passes
<1>7. TimeParts'
  BY <1>1, <1>2, <1>3, <1>4, <1>5, <1>6 DEF SNext
<1> QED BY <1>0, <1>7 DEF TInv, TimeParts

LEMMA TimeInit == SInit => RInv /\ TInv
<1> SUFFICES ASSUME SInit PROVE TInv
  BY InitPlaces
<1>1. /\ DOMAIN line = {} /\ holder = Nobody /\ line = <<>> /\ Nobody \notin Callers
      /\ NAssets \in Nat
  BY EmptySeq, LimiterAssumption, SeedingAssumption DEF SInit, RInit
<1>2. \A c \in Callers : ~ Waiting(c) /\ asked[c] = Never /\ since[c] = Never
  BY <1>1 DEF SInit, Waiting, Waits
<1>3. Counted
  BY <1>1 DEF SInit, Counted
<1>4. Prompt /\ Busy /\ \A s \in Callers : Paced(s)
  BY <1>1, <1>2 DEF Prompt, Busy, Paced
<1> QED BY <1>3, <1>4, InitPlaces DEF TInv

\* For any number of callers and assets, a shard's connection is neither read nor
\* kept alive for a bounded time only: each asset costs it at most one slot of
\* the limiter for each caller, and an answer.
THEOREM SeedingEnds == SSpec => []SilentAtMost
<1>1. TInv => SilentAtMost
  <2> SUFFICES ASSUME TInv, NEW s \in Shards, since[s] # Never
               PROVE  clock - since[s] =< NAssets * Round
    BY DEF SilentAtMost, Round, Slot, N
  <2>1. /\ s \in Callers /\ since[s] \in Nat /\ left[s] \in 0 .. NAssets /\ left[s] > 0
        /\ clock \in Nat /\ last \in Nat
        /\ Passes[s] \in Nat /\ Passes[s] < N /\ Nobody \notin Callers
    BY SeedingAssumption, LimiterAssumption, PassedLess
       DEF TInv, Counted, Busy, LInv, RTypeOK, Places
  <2>2. DoneBy(s) \in Nat /\ DoneBy(s) + Round =< since[s] + NAssets * Round
    BY <2>1, DoneByType
  <2>3. NAssets * Round \in Nat
    BY RoundType
  <2>4. clock =< DoneBy(s) + Round
    <3>1. CASE Ready(s)
      BY <2>1, <2>2, <3>1, RoundType DEF TInv, Paced
    <3>2. CASE asked[s] # Never
      <4>1. /\ asked[s] =< DoneBy(s) + N * Slot /\ clock =< asked[s] + MaxAnswer
            /\ asked[s] \in Nat
        BY <2>1, <3>2 DEF TInv, Paced, Busy, Counted
      <4> QED BY <2>1, <2>2, <4>1, RoundType
    <3>3. CASE Waiting(s)
      <4>1. last =< DoneBy(s) + Passes[s] * Slot
        BY <2>1, <3>3 DEF TInv, Paced
      <4>2. holder # Nobody \/ line # <<>>
        BY <2>1, <3>3, EmptySeq DEF Waiting, Waits
      <4>3. clock =< last + Slot
        BY <4>2 DEF TInv, Prompt
      <4>4. Passes[s] * Slot + Slot =< N * Slot /\ Passes[s] * Slot \in Nat
        BY <2>1, SlotsBefore
      <4> QED BY <2>1, <2>2, <4>1, <4>3, <4>4, RoundType
    <3>4. Ready(s) \/ asked[s] # Never \/ Waiting(s)
      BY <2>1 DEF Ready
    <3> QED BY <3>1, <3>2, <3>3, <3>4
  <2> QED BY <2>1, <2>2, <2>3, <2>4, RoundType
<1> QED BY TimeInit, TimeStep, <1>1, PTL DEF SSpec
=============================================================================
