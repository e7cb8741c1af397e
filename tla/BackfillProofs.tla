--------------------------- MODULE BackfillProofs ---------------------------
(***************************************************************************)
(* Proofs about the backfill job: its pages leave no hole, however fast    *)
(* trades are made, and what it has written is lost only through two       *)
(* hands at one file, for any flushers on its pending_dir, with a bucket   *)
(* or without.                                                             *)
(***************************************************************************)
EXTENDS Backfill, SequenceTheorems, TLAPS

\* What was proved of a flusher.
FP == INSTANCE FlusherProofs WITH
        Jobs <- {Job}, Files <- Markets,
        MaxDay <- 0, MaxCrashes <- 0, DeleteAfterUpload <- TRUE

Lowest == IF trades = <<>> THEN atStart + 1 ELSE trades[Len(trades)]

\* What fetch_trades has is an unbroken stretch down from the newest trade at
\* its start, and the next page begins inside it or right below it.
Stretch ==
  stage \in {"fetching", "fetched"} /\ market \in Markets =>
    /\ atStart =< total
    /\ Lowest .. atStart \subseteq Range(trades)
    /\ stage = "fetching" =>
         /\ trades = <<>> => offset = 0
         /\ trades # <<>> => Lowest + offset =< total + 1

\* The files are made in the order of the markets.
MadeInOrder ==
  /\ \A m \in Markets :
       made[m] # NoFile => m < market \/ (m = market /\ stage \in {"writing", "dead"})
  /\ stage = "writing" => made[market] = trades

\* Pass p has file m open.
Holds(p, m) == pass[p].pc \in Flush!Working /\ Flush!Current(p) = m

\* The job has closed file m.
Closed(m) == made[m] # NoFile /\ ~ (m = market /\ stage \in {"writing", "dead"})

\* At file m, pass p has gone through the steps before the one it is at.
Sound(p, m) ==
  /\ pass[p].pc = "copying" => pass[p].linked /\ pass[p].data = made[m]
  /\ pass[p].pc = "upload" => gz[m] = made[m]
  /\ pass[p].pc \in {"rmgz", "rmsrc"} => Flush!Stored(m)

\* One pass at most has file m open, none while the job writes it.
OneHand(m) ==
  /\ \A p, q \in Flush!Flushers : Holds(p, m) /\ Holds(q, m) => p = q
  /\ stage = "writing" /\ m = market =>
       pending[m] # NoFile /\ \A p \in Flush!Flushers : ~ Holds(p, m)

\* So file m is whole from its close to its upload.
Kept(m) ==
  /\ pending[m] # NoFile => made[m] # NoFile
  /\ \A p \in Flush!Flushers : Holds(p, m) => made[m] # NoFile
  /\ OneHand(m)
  /\ Closed(m) =>
       /\ pending[m] = made[m] \/ (pending[m] = NoFile /\ Flush!Stored(m))
       /\ \A p \in Flush!Flushers : Holds(p, m) => Sound(p, m)

BInv ==
  /\ BTypeOK /\ Flush!FTypeOK
  /\ FetchedWithoutHole
  /\ Stretch
  /\ MadeInOrder
  /\ \A m \in Markets \ clashed : Kept(m)
-----------------------------------------------------------------------------
(***************************************************************************)
(* fetch_trades().                                                         *)
(***************************************************************************)

\* A page holds the trades from the first one behind the offset, downwards.
LEMMA PageIs ==
  ASSUME BTypeOK, market \in Markets
  PROVE  \E left, n \in 0 .. MaxTrades :
           /\ left = IF total > offset THEN total - offset ELSE 0
           /\ n = IF left < Limit THEN left ELSE Limit
           /\ Page \in Seq(1 .. MaxTrades) /\ Len(Page) = n
           /\ \A i \in 1 .. n : Page[i] = left - i + 1
<1> DEFINE left == IF total > offset THEN total - offset ELSE 0
           n == IF left < Limit THEN left ELSE Limit
<1>1. total \in 0 .. MaxTrades /\ offset \in Nat /\ MaxTrades \in Nat /\ Limit \in Nat
  BY BackfillAssumption DEF BTypeOK
<1>2. left \in 0 .. MaxTrades /\ n \in 0 .. MaxTrades /\ n =< left
  BY <1>1
<1>3. Page = [i \in 1 .. n |-> left - i + 1]
  BY DEF Page
<1> HIDE DEF left, n
<1>4. \A i \in 1 .. n : left - i + 1 \in 1 .. MaxTrades
  BY <1>1, <1>2
<1>5. Page \in Seq(1 .. MaxTrades) /\ Len(Page) = n /\ \A i \in 1 .. n : Page[i] = left - i + 1
  BY <1>2, <1>3, <1>4
<1> QED BY <1>2, <1>5 DEF left, n

\* The range of a concatenation.
LEMMA RangeConcat ==
  ASSUME NEW S, NEW s \in Seq(S), NEW t \in Seq(S)
  PROVE  Range(s \o t) = Range(s) \cup Range(t)
<1> DEFINE c == s \o t
<1>1. /\ DOMAIN s = 1 .. Len(s) /\ DOMAIN t = 1 .. Len(t) /\ DOMAIN c = 1 .. Len(s) + Len(t)
      /\ Len(s) \in Nat /\ Len(t) \in Nat
      /\ \A i \in 1 .. Len(s) + Len(t) : c[i] = IF i =< Len(s) THEN s[i] ELSE t[i - Len(s)]
  BY ConcatProperties, LenProperties
<1> HIDE DEF c
<1>2. ASSUME NEW x \in Range(c) PROVE x \in Range(s) \cup Range(t)
  <2>1. PICK i \in 1 .. Len(s) + Len(t) : c[i] = x
    BY <1>1, <1>2 DEF Range
  <2>2. CASE i =< Len(s)
    <3>1. i \in 1 .. Len(s) /\ s[i] = x
      BY <1>1, <2>1, <2>2
    <3> QED BY <1>1, <3>1 DEF Range
  <2>3. CASE ~ (i =< Len(s))
    <3>1. i - Len(s) \in 1 .. Len(t) /\ t[i - Len(s)] = x
      BY <1>1, <2>1, <2>3
    <3> QED BY <1>1, <3>1 DEF Range
  <2> QED BY <2>2, <2>3
<1>3. ASSUME NEW x \in Range(s) PROVE x \in Range(c)
  <2>1. PICK i \in 1 .. Len(s) : s[i] = x
    BY <1>1, <1>3 DEF Range
  <2>2. i \in 1 .. Len(s) + Len(t) /\ c[i] = x
    BY <1>1, <2>1
  <2> QED BY <1>1, <2>2 DEF Range
<1>4. ASSUME NEW x \in Range(t) PROVE x \in Range(c)
  <2>1. PICK i \in 1 .. Len(t) : t[i] = x
    BY <1>1, <1>4 DEF Range
  <2>2. Len(s) + i \in 1 .. Len(s) + Len(t) /\ ~ (Len(s) + i =< Len(s)) /\ Len(s) + i - Len(s) = i
    BY <1>1
  <2>3. c[Len(s) + i] = x
    BY <1>1, <2>1, <2>2
  <2> QED BY <1>1, <2>2, <2>3 DEF Range
<1> QED BY <1>2, <1>3, <1>4 DEF c

\* A page continues the stretch.
LEMMA FetchKeeps ==
  ASSUME BInv, FetchPage
  PROVE  /\ trades' \in Seq(1 .. MaxTrades)
         /\ Stretch' /\ FetchedWithoutHole'
<1>1. /\ market \in Markets /\ stage = "fetching" /\ UNCHANGED <<market, total, atStart, cut>>
      /\ trades' = trades \o Page
      /\ trades \in Seq(1 .. MaxTrades) /\ offset \in Nat /\ atStart \in Nat
      /\ total \in Nat /\ MaxTrades \in Nat /\ Limit \in Nat \ {0}
  BY BackfillAssumption DEF BInv, BTypeOK, FetchPage, Fetching
<1>2. /\ atStart =< total
      /\ Lowest .. atStart \subseteq Range(trades)
      /\ trades = <<>> => offset = 0
      /\ trades # <<>> => Lowest + offset =< total + 1
  BY <1>1 DEF BInv, Stretch
<1>3. PICK left \in 0 .. MaxTrades : \E n \in 0 .. MaxTrades :
         /\ left = IF total > offset THEN total - offset ELSE 0
         /\ n = IF left < Limit THEN left ELSE Limit
         /\ Page \in Seq(1 .. MaxTrades) /\ Len(Page) = n
         /\ \A i \in 1 .. n : Page[i] = left - i + 1
  BY <1>1, PageIs DEF BInv
<1>4. PICK n \in 0 .. MaxTrades :
         /\ n = IF left < Limit THEN left ELSE Limit
         /\ Page \in Seq(1 .. MaxTrades) /\ Len(Page) = n
         /\ \A i \in 1 .. n : Page[i] = left - i + 1
  BY <1>3
<1>5. left = IF total > offset THEN total - offset ELSE 0
  BY <1>3
<1>10. n \in Nat /\ left \in Nat /\ n =< left /\ n =< Limit /\ (n = left \/ n = Limit)
  <2>1. n = IF left < Limit THEN left ELSE Limit
    BY <1>4
  <2> QED BY <1>1, <2>1
<1>6. /\ trades' \in Seq(1 .. MaxTrades)
      /\ Range(trades') = Range(trades) \cup Range(Page)
      /\ Len(trades') = Len(trades) + n /\ Len(trades) \in Nat
  <2>1. /\ trades \o Page \in Seq(1 .. MaxTrades)
        /\ Len(trades \o Page) = Len(trades) + Len(Page)
    BY <1>1, <1>4, ConcatProperties
  <2>2. Range(trades \o Page) = Range(trades) \cup Range(Page)
    BY <1>1, <1>4, RangeConcat
  <2> QED BY <1>1, <1>4, <2>1, <2>2, LenProperties
<1>7. trades # <<>> => Lowest \in 1 .. MaxTrades
  <2> SUFFICES ASSUME trades # <<>> PROVE trades[Len(trades)] \in 1 .. MaxTrades
    BY DEF Lowest
  <2>1. Len(trades) \in 1 .. Len(trades)
    BY <1>1, <1>6, EmptySeq
  <2> QED BY <1>1, <2>1, ElementOfSeq
\* The last page is empty.
<1>8. CASE n = 0
  <2>1. Page = <<>> /\ trades' = trades
    <3>1. Page = <<>>
      BY <1>4, <1>8, EmptySeq
    <3> QED BY <1>1, <3>1, ConcatEmptySeq
  <2>2. left = 0 /\ total =< offset /\ stage' = "fetched"
    <3>1. left = 0
      BY <1>1, <1>4, <1>8
    <3>2. Len(Page) < Limit /\ Len(Page) # Limit
      BY <1>1, <1>4, <1>8
    <3> QED BY <1>1, <1>5, <3>1, <3>2 DEF FetchPage
  <2>3. Lowest' = Lowest
    BY <1>1, <2>1 DEF Lowest
  <2>4. Stretch'
    BY <1>1, <1>2, <2>1, <2>2, <2>3 DEF Stretch
  <2>5. Lowest = 1 \/ atStart = 0
    <3>1. CASE trades = <<>>
      BY <1>1, <1>2, <2>2, <3>1
    <3>2. CASE trades # <<>>
      BY <1>1, <1>2, <1>7, <2>2, <3>2
    <3> QED BY <3>1, <3>2
  <2>6. FetchedWithoutHole'
    BY <1>1, <1>2, <2>1, <2>2, <2>3, <2>5 DEF FetchedWithoutHole, Lowest
  <2> QED BY <1>6, <2>4, <2>6
<1>9. CASE n > 0
  <2> DEFINE low == left - n + 1
  <2>1. left = total - offset /\ left \in Nat /\ n =< left /\ low \in 1 .. left
    BY <1>1, <1>5, <1>9, <1>10
  <2>2. trades' # <<>> /\ Lowest' = low
    <3>1. Len(trades') # 0 /\ trades'[Len(trades')] = Page[n]
      <4>1. /\ Len(trades) + n \in 1 .. Len(trades) + Len(Page)
            /\ ~ (Len(trades) + n =< Len(trades)) /\ Len(trades) + n - Len(trades) = n
            /\ Len(trades) + n # 0
        BY <1>4, <1>6, <1>9
      <4>2. (trades \o Page)[Len(trades) + n] = Page[n]
        BY <1>1, <1>4, <4>1, ConcatProperties
      <4> QED BY <1>1, <1>6, <4>1, <4>2
    <3>2. Page[n] = low
      BY <1>4, <1>9
    <3>3. trades' # <<>>
      BY <3>1, EmptySeq
    <3> QED BY <3>1, <3>2, <3>3 DEF Lowest
  <2>3. low .. left \subseteq Range(Page)
    <3> SUFFICES ASSUME NEW x \in low .. left PROVE x \in Range(Page)
      OBVIOUS
    <3>1. left - x + 1 \in 1 .. n /\ left - (left - x + 1) + 1 = x
      BY <1>10, <2>1
    <3>2. Page[left - x + 1] = x /\ DOMAIN Page = 1 .. n
      BY <1>4, <3>1, LenProperties
    <3> QED BY <3>1, <3>2 DEF Range
  <2> HIDE DEF low
  <2>4. low .. atStart \subseteq Range(trades')
    <3> SUFFICES ASSUME NEW x \in low .. atStart PROVE x \in Range(trades')
      OBVIOUS
    <3>1. CASE x =< left
      <4>1. x \in low .. left
        BY <1>10, <2>1, <3>1
      <4> QED BY <1>6, <2>3, <4>1
    <3>2. CASE x > left
      <4>1. trades # <<>>
        BY <1>1, <1>2, <2>1, <3>2
      <4>2. Lowest =< left + 1
        <5>1. Lowest + offset =< total + 1 /\ Lowest \in Nat
          BY <1>1, <1>2, <1>7, <4>1
        <5>2. left = total - offset /\ total \in Nat /\ offset \in Nat
          BY <1>1, <2>1
        <5> HIDE DEF Lowest
        <5> QED BY <5>1, <5>2
      <4>3. x \in Lowest .. atStart
        BY <1>1, <1>7, <2>1, <3>2, <4>1, <4>2
      <4> QED BY <1>2, <1>6, <4>3
    <3> QED BY <1>1, <2>1, <3>1, <3>2
  <2>5. stage' = "fetching" => offset' = offset + n
    BY <1>1, <1>4 DEF FetchPage
  <2>6. Stretch'
    <3>1. stage' = "fetching" => low + offset' =< total + 1
      <4>1. low + (offset + n) =< total + 1
        <5>1. /\ total \in Int /\ offset \in Int /\ n \in Int
              /\ low = (total - offset) - n + 1
          BY <1>1, <1>10, <2>1 DEF low
        <5> HIDE DEF low
        <5> QED BY ONLY <5>1
      <4> QED BY <2>5, <4>1
    <3> QED BY <1>1, <1>2, <2>2, <2>4, <3>1 DEF Stretch
  <2>7. stage' = "fetched" => warned' \/ low = 1
    <3>1. CASE Len(Page) = Limit
      BY <1>1, <3>1 DEF FetchPage
    <3>2. CASE Len(Page) # Limit
      <4>1. n = left
        BY <1>1, <1>4, <3>2
      <4> QED BY <2>1, <4>1 DEF low
    <3> QED BY <3>1, <3>2
  <2>8. FetchedWithoutHole'
    BY <1>1, <2>2, <2>4, <2>7 DEF FetchedWithoutHole, Lowest
  <2> QED BY <1>6, <2>6, <2>8
<1> QED BY <1>4, <1>8, <1>9
-----------------------------------------------------------------------------
(***************************************************************************)
(* The flushers of this pending_dir.                                       *)
(***************************************************************************)
LEMMA FlushersHere == Flush!Flushers = Recorders \cup {Job} /\ Job \in Flush!Flushers
BY DEF Flush!Flushers

LEMMA CurrentListed ==
  ASSUME Flush!FTypeOK, NEW p \in Flush!Flushers, pass[p].todo # {}
  PROVE  Flush!Current(p) \in pass[p].todo /\ Flush!Current(p) \in Markets
<1>1. pass[p].todo \in SUBSET Markets
  BY DEF Flush!FTypeOK, Flush!Pass
<1>2. pass[p].todo \in SUBSET Nat
  BY <1>1 DEF Markets
<1>3. FP!FlusherAssumption
  BY BackfillAssumption DEF FP!FlusherAssumption, Markets, FP!Content
<1>4. FP!Min(pass[p].todo) \in pass[p].todo
  BY <1>2, <1>3, FP!MinInSet
<1> QED BY <1>1, <1>4 DEF Flush!Current, Flush!Min, FP!Min

\* An update of one pass keeps the types, and the other passes.
LEMMA PassSet ==
  ASSUME Flush!FTypeOK, NEW p \in Flush!Flushers, NEW r \in Flush!Pass,
         pass' = [pass EXCEPT ![p] = r]
  PROVE  /\ pass' \in [Flush!Flushers -> Flush!Pass] /\ pass'[p] = r
         /\ \A q \in Flush!Flushers : q # p => pass'[q] = pass[q]
BY DEF Flush!FTypeOK

\* A pass that begins or ends has no file open, and touches none; a pass that
\* raises may have uploaded the one it was at.
LEMMA OutsideFiles ==
  ASSUME Flush!FTypeOK, NEW p \in Flush!Flushers,
         \/ Flush!Wake(p) \/ Flush!ListPending(p) \/ Flush!Finish(p) \/ Flush!Raise(p)
  PROVE  /\ Flush!FTypeOK' /\ pass'[p].pc \notin Flush!Working
         /\ \A q \in Flush!Flushers : q # p => pass'[q] = pass[q]
         /\ UNCHANGED <<pending, made, gz, fstop, day, crashes>>
         /\ \/ UNCHANGED s3
            \/ /\ pass[p].pc = "upload"
               /\ s3' = [s3 EXCEPT ![day][Flush!Current(p)] = gz[Flush!Current(p)]]
<1>0. /\ pass[p] \in Flush!Pass /\ pass \in [Flush!Flushers -> Flush!Pass]
      /\ task \in [Flush!Flushers -> {"once", "waiting", "passing", "draining", "done"}]
  BY DEF Flush!FTypeOK
<1>1. PICK r \in Flush!Pass :
        r.pc \notin Flush!Working /\ pass' = [pass EXCEPT ![p] = r]
  <2>1. Flush!Idle \in Flush!Pass /\ Flush!Idle.pc \notin Flush!Working
    BY DEF Flush!Idle, Flush!Pass, Flush!Working, Flush!Content
  <2>2. CASE Flush!EndPass(p)
    BY <2>1, <2>2 DEF Flush!EndPass
  <2>3. CASE Flush!Wake(p)
    <3> DEFINE r == [pass[p] EXCEPT !.pc = "list"]
    <3>1. r \in Flush!Pass /\ r.pc \notin Flush!Working
      BY <1>0 DEF Flush!Pass, Flush!Working
    <3>2. pass' = [pass EXCEPT ![p] = r]
      BY <1>0, <2>3 DEF Flush!Wake
    <3> QED BY <3>1, <3>2
  <2>4. CASE pass' = [pass EXCEPT ![p].pc = "next",
                                  ![p].todo = {f \in Markets : pending[f] # NoFile}]
    <3> DEFINE r == [pass[p] EXCEPT !.pc = "next", !.todo = {f \in Markets : pending[f] # NoFile}]
    <3>1. r \in Flush!Pass /\ r.pc \notin Flush!Working
      BY <1>0 DEF Flush!Pass, Flush!Working
    <3>2. pass' = [pass EXCEPT ![p] = r]
      BY <1>0, <2>4
    <3> QED BY <3>1, <3>2
  <2> QED BY <2>2, <2>3, <2>4 DEF Flush!ListPending, Flush!Finish, Flush!Raise
<1>2. /\ pass' \in [Flush!Flushers -> Flush!Pass] /\ pass'[p].pc \notin Flush!Working
      /\ \A q \in Flush!Flushers : q # p => pass'[q] = pass[q]
  BY <1>1, PassSet
<1>3. /\ task' \in [Flush!Flushers -> {"once", "waiting", "passing", "draining", "done"}]
      /\ UNCHANGED <<pending, made, gz, fstop, day, crashes>>
      /\ \/ UNCHANGED s3
         \/ /\ pass[p].pc = "upload"
            /\ s3' = [s3 EXCEPT ![day][Flush!Current(p)] = gz[Flush!Current(p)]]
  BY <1>0 DEF Flush!Wake, Flush!ListPending, Flush!Finish, Flush!Raise, Flush!EndPass
<1>4. s3' \in [Flush!Days -> [Markets -> Flush!Content \cup {NoFile}]]
  <2>1. CASE UNCHANGED s3
    BY <2>1 DEF Flush!FTypeOK
  <2>2. CASE /\ pass[p].pc = "upload"
             /\ s3' = [s3 EXCEPT ![day][Flush!Current(p)] = gz[Flush!Current(p)]]
    <3>1. Flush!Current(p) \in Markets
      BY <2>2, CurrentListed DEF Flush!FTypeOK, Flush!Working
    <3>2. gz[Flush!Current(p)] \in Flush!Content \cup {NoFile}
      BY <3>1 DEF Flush!FTypeOK
    <3> HIDE DEF Flush!Content, Flush!Days
    <3> QED BY <2>2, <3>1, <3>2 DEF Flush!FTypeOK
  <2> QED BY <1>3, <2>1, <2>2
<1>5. \A q \in Flush!Flushers : pass'[q].pc \in Flush!Working => pass'[q].todo # {}
  BY <1>2 DEF Flush!FTypeOK
<1> QED BY <1>2, <1>3, <1>4, <1>5 DEF Flush!FTypeOK

\* A pass at a file c: what it does to c, and that it leaves the other files and
\* the other passes alone, but for the link of one that copies the same file.
StepAt(p, c) ==
  /\ c = Flush!Current(p) /\ UNCHANGED <<made, day>>
  /\ \A m \in Markets \ {c} :
       /\ pending'[m] = pending[m] /\ gz'[m] = gz[m]
       /\ \A d \in Flush!Days : s3'[d][m] = s3[d][m]
  /\ \A q \in Flush!Flushers : q # p =>
       \/ pass'[q] = pass[q]
       \/ /\ pass[q].pc = "copying" /\ Flush!Current(q) = c
          /\ pass'[q] = [pass[q] EXCEPT !.linked = FALSE]
  /\ \/ /\ Flush!OpenSource(p) /\ pass[p].pc = "next" /\ pending[c] # NoFile
        /\ UNCHANGED <<pending, s3>>
        /\ pass'[p] = [pass[p] EXCEPT !.pc = "copying", !.linked = TRUE,
                                      !.data = pending[c]]
     \/ /\ pass[p].pc = "copying" /\ UNCHANGED <<pending, s3>>
        /\ pass[p].linked => gz'[c] = pass[p].data
        /\ pass'[p] = [pass[p] EXCEPT !.pc = "upload", !.linked = FALSE]
     \/ /\ pass[p].pc = "upload" /\ UNCHANGED <<pending, gz>>
        /\ s3' = [s3 EXCEPT ![day][c] = gz[c]]
        /\ pass'[p] = [pass[p] EXCEPT !.pc = "rmgz"]
     \/ /\ pass[p].pc = "rmgz" /\ UNCHANGED <<pending, s3>>
        /\ pass'[p] = [pass[p] EXCEPT !.pc = "rmsrc"]
     \/ /\ pass[p].pc = "rmsrc" /\ UNCHANGED <<gz, s3>>
        /\ pending' = [pending EXCEPT ![c] = NoFile]
        /\ pass'[p] = [pass[p] EXCEPT !.pc = "next", !.todo = @ \ {c}]

LEMMA InsideFile ==
  ASSUME Flush!FTypeOK, NEW p \in Flush!Flushers,
         \/ Flush!OpenSource(p) \/ Flush!FinishCopy(p) \/ Flush!Upload(p)
         \/ Flush!RemoveGz(p) \/ Flush!RemoveSrc(p)
  PROVE  Flush!FTypeOK' /\ \E c \in Markets : StepAt(p, c)
<1>0. pass[p].todo # {}
  BY DEF Flush!FTypeOK, Flush!Working, Flush!OpenSource, Flush!FinishCopy, Flush!Upload,
         Flush!RemoveGz, Flush!RemoveSrc
<1>1. PICK c \in Markets : c = Flush!Current(p) /\ c \in pass[p].todo
  BY <1>0, CurrentListed
<1>2. /\ pass[p] \in Flush!Pass /\ pass \in [Flush!Flushers -> Flush!Pass]
      /\ pending \in [Markets -> Flush!Content \cup {NoFile}]
      /\ gz \in [Markets -> Flush!Content \cup {NoFile}]
      /\ s3 \in [Flush!Days -> [Markets -> Flush!Content \cup {NoFile}]]
      /\ day \in Flush!Days /\ <<>> \in Flush!Content
      /\ pass[p].todo \subseteq Markets /\ pass[p].data \in Flush!Content
  BY DEF Flush!FTypeOK, Flush!Pass, Flush!Content
<1> HIDE DEF Flush!Content, Flush!Days
<1>3. CASE Flush!OpenSource(p)
  <2> DEFINE r == [pass[p] EXCEPT !.pc = "copying", !.linked = TRUE, !.data = pending[c]]
  <2>1. /\ pending[c] # NoFile /\ gz' = [gz EXCEPT ![c] = <<>>]
        /\ pass' = [pass EXCEPT ![p] = r]
        /\ UNCHANGED <<pending, made, s3, day, fstop, task, crashes>>
    BY <1>1, <1>2, <1>3 DEF Flush!OpenSource
  <2>2. r \in Flush!Pass /\ r.pc = "copying" /\ r.todo = pass[p].todo
    BY <1>2, <2>1 DEF Flush!Pass, Flush!Working
  <2>3. gz' \in [Markets -> Flush!Content \cup {NoFile}]
    BY <1>2, <2>1
  <2> HIDE DEF r
  <2>4. /\ pass' \in [Flush!Flushers -> Flush!Pass] /\ pass'[p] = r
        /\ \A q \in Flush!Flushers : q # p => pass'[q] = pass[q]
    BY <2>1, <2>2, PassSet
  <2>5. Flush!FTypeOK'
    BY <1>0, <2>1, <2>2, <2>3, <2>4 DEF Flush!FTypeOK
  <2> QED BY <1>1, <1>2, <1>3, <2>1, <2>4, <2>5 DEF r, StepAt, Flush!OpenSource
<1>4. CASE Flush!FinishCopy(p)
  <2> DEFINE r == [pass[p] EXCEPT !.pc = "upload", !.linked = FALSE]
  <2>1. /\ pass[p].pc = "copying"
        /\ gz' = IF pass[p].linked THEN [gz EXCEPT ![c] = pass[p].data] ELSE gz
        /\ pass' = [pass EXCEPT ![p] = r]
        /\ UNCHANGED <<pending, made, s3, day, fstop, task, crashes>>
    BY <1>1, <1>2, <1>4 DEF Flush!FinishCopy
  <2>2. r \in Flush!Pass /\ r.pc = "upload" /\ r.todo = pass[p].todo
    BY <1>2 DEF Flush!Pass, Flush!Working
  <2>3. gz' \in [Markets -> Flush!Content \cup {NoFile}]
    BY <1>2, <2>1
  <2> HIDE DEF r
  <2>4. /\ pass' \in [Flush!Flushers -> Flush!Pass] /\ pass'[p] = r
        /\ \A q \in Flush!Flushers : q # p => pass'[q] = pass[q]
    BY <2>1, <2>2, PassSet
  <2>5. Flush!FTypeOK'
    BY <1>0, <2>1, <2>2, <2>3, <2>4 DEF Flush!FTypeOK
  <2> QED BY <1>1, <1>2, <2>1, <2>4, <2>5 DEF r, StepAt
<1>5. CASE Flush!Upload(p)
  <2> DEFINE r == [pass[p] EXCEPT !.pc = "rmgz"]
  <2>1. /\ pass[p].pc = "upload"
        /\ s3' = [s3 EXCEPT ![day][c] = gz[c]]
        /\ pass' = [pass EXCEPT ![p] = r]
        /\ UNCHANGED <<pending, made, gz, day, fstop, task, crashes>>
    BY <1>1, <1>2, <1>5 DEF Flush!Upload
  <2>2. r \in Flush!Pass /\ r.pc = "rmgz" /\ r.todo = pass[p].todo
    BY <1>2 DEF Flush!Pass, Flush!Working
  <2>3. s3' \in [Flush!Days -> [Markets -> Flush!Content \cup {NoFile}]]
    BY <1>2, <2>1
  <2> HIDE DEF r
  <2>4. /\ pass' \in [Flush!Flushers -> Flush!Pass] /\ pass'[p] = r
        /\ \A q \in Flush!Flushers : q # p => pass'[q] = pass[q]
    BY <2>1, <2>2, PassSet
  <2>5. Flush!FTypeOK'
    BY <1>0, <2>1, <2>2, <2>3, <2>4 DEF Flush!FTypeOK
  <2> QED BY <1>1, <1>2, <2>1, <2>4, <2>5 DEF r, StepAt
<1>6. CASE Flush!RemoveGz(p)
  <2> DEFINE r == [pass[p] EXCEPT !.pc = "rmsrc"]
             u(q) == IF pass[q].pc = "copying" /\ Flush!Current(q) = c
                     THEN [pass[q] EXCEPT !.linked = FALSE] ELSE pass[q]
  <2>1. /\ pass[p].pc = "rmgz"
        /\ gz' = [gz EXCEPT ![c] = NoFile]
        /\ pass' = [q \in Flush!Flushers |-> IF q = p THEN r ELSE u(q)]
        /\ UNCHANGED <<pending, made, s3, day, fstop, task, crashes>>
    BY <1>1, <1>6 DEF Flush!RemoveGz
  <2>2. r \in Flush!Pass /\ r.pc = "rmsrc" /\ r.todo = pass[p].todo
    BY <1>2 DEF Flush!Pass, Flush!Working
  <2>3. ASSUME NEW q \in Flush!Flushers
        PROVE  /\ u(q) \in Flush!Pass /\ u(q).pc = pass[q].pc /\ u(q).todo = pass[q].todo
               /\ \/ u(q) = pass[q]
                  \/ /\ pass[q].pc = "copying" /\ Flush!Current(q) = c
                     /\ u(q) = [pass[q] EXCEPT !.linked = FALSE]
    BY <1>2 DEF Flush!Pass
  <2>4. gz' \in [Markets -> Flush!Content \cup {NoFile}]
    BY <1>2, <2>1
  <2> HIDE DEF r, u
  <2>5. /\ pass' \in [Flush!Flushers -> Flush!Pass] /\ pass'[p] = r
        /\ \A q \in Flush!Flushers : q # p => pass'[q] = u(q)
    BY <2>1, <2>2, <2>3
  <2>6. Flush!FTypeOK'
    <3>1. \A q \in Flush!Flushers : pass'[q].pc \in Flush!Working => pass'[q].todo # {}
      BY <1>0, <2>2, <2>3, <2>5 DEF Flush!FTypeOK
    <3> QED BY <2>1, <2>4, <2>5, <3>1 DEF Flush!FTypeOK
  <2> QED BY <1>1, <1>2, <2>1, <2>3, <2>5, <2>6 DEF r, StepAt
<1>7. CASE Flush!RemoveSrc(p)
  <2> DEFINE r == [pass[p] EXCEPT !.pc = "next", !.todo = @ \ {c}]
  <2>1. /\ pass[p].pc = "rmsrc"
        /\ pending' = [pending EXCEPT ![c] = NoFile]
        /\ pass' = [pass EXCEPT ![p] = r]
        /\ UNCHANGED <<made, gz, s3, day, fstop, task, crashes>>
    BY <1>1, <1>2, <1>7 DEF Flush!RemoveSrc
  <2>2. r \in Flush!Pass /\ r.pc = "next"
    BY <1>2 DEF Flush!Pass
  <2>3. pending' \in [Markets -> Flush!Content \cup {NoFile}]
    BY <1>2, <2>1
  <2> HIDE DEF r
  <2>4. /\ pass' \in [Flush!Flushers -> Flush!Pass] /\ pass'[p] = r
        /\ \A q \in Flush!Flushers : q # p => pass'[q] = pass[q]
    BY <2>1, <2>2, PassSet
  <2>5. Flush!FTypeOK'
    BY <2>1, <2>2, <2>3, <2>4 DEF Flush!FTypeOK, Flush!Working
  <2> QED BY <1>1, <1>2, <2>1, <2>4, <2>5 DEF r, StepAt
<1> QED BY <1>3, <1>4, <1>5, <1>6, <1>7
-----------------------------------------------------------------------------
(***************************************************************************)
(* One file, and the passes over it.                                       *)
(***************************************************************************)

\* The job stays at its market, and writes its file or does not.
SameFile ==
  /\ UNCHANGED market
  /\ UNCHANGED stage \/ {stage, stage'} \cap {"writing", "dead"} = {}

\* A step that leaves file m alone, and ends at no file or at another one.
LEMMA KeptAway ==
  ASSUME NEW m \in Markets, NEW p \in Flush!Flushers, Kept(m),
         ~ Holds(p, m)', UNCHANGED made, SameFile,
         pending'[m] = pending[m],
         ~ Holds(p, m) => gz'[m] = gz[m],
         \A d \in Flush!Days : s3'[d][m] = s3[d][m],
         \A q \in Flush!Flushers : q # p =>
           \/ pass'[q] = pass[q]
           \/ ~ Holds(q, m) /\ ~ Holds(q, m)'
  PROVE  Kept(m)'
<1>1. Flush!Stored(m) => Flush!Stored(m)'
  BY DEF Flush!Stored
<1>2. \A q \in Flush!Flushers : Holds(q, m)' => q # p /\ pass'[q] = pass[q] /\ Holds(q, m)
  BY DEF Holds, Flush!Current
<1>3. ASSUME NEW q \in Flush!Flushers, Holds(q, m)' PROVE ~ Holds(p, m)
  BY <1>2, <1>3 DEF Kept, OneHand
<1>4. OneHand(m)'
  BY <1>2 DEF Kept, OneHand, SameFile
<1>5. ASSUME Closed(m), NEW q \in Flush!Flushers, Holds(q, m)' PROVE Sound(q, m)'
  <2>1. Sound(q, m) /\ pass'[q] = pass[q]
    BY <1>2, <1>5 DEF Kept
  <2>2. gz'[m] = gz[m]
    BY <1>3, <1>5
  <2> QED BY <1>1, <2>1, <2>2 DEF Sound
<1>6. Closed(m)' <=> Closed(m)
  BY DEF Closed, SameFile
<1> QED BY <1>1, <1>2, <1>4, <1>5, <1>6 DEF Kept

\* A step of the pass that has file m open, or opens it, alone.
LEMMA KeptAt ==
  ASSUME NEW m \in Markets, NEW p \in Flush!Flushers, Kept(m),
         UNCHANGED made, SameFile,
         made[m] # NoFile, ~ (stage = "writing" /\ m = market),
         pending'[m] # NoFile => pending[m] # NoFile,
         \A q \in Flush!Flushers : q # p => ~ Holds(q, m)',
         Closed(m) =>
           /\ pending'[m] = made[m] \/ (pending'[m] = NoFile /\ Flush!Stored(m)')
           /\ Sound(p, m)'
  PROVE  Kept(m)'
<1>1. OneHand(m)'
  BY DEF OneHand, SameFile
<1>2. Closed(m)' <=> Closed(m)
  BY DEF Closed, SameFile
<1> QED BY <1>1, <1>2 DEF Kept

\* A step of a flusher, with or without a second one at its file.
LEMMA KeptByPass ==
  ASSUME Flush!FTypeOK, MadeInOrder, NEW m \in Markets \ clashed, Kept(m),
         NEW p \in Flush!Flushers,
         Flush!Wake(p) \/ Flush!FlushStep(p) \/ Flush!Raise(p),
         SameFile,
         m \notin Clash(p)
  PROVE  Kept(m)'
<1> DEFINE Outside == Flush!Wake(p) \/ Flush!ListPending(p) \/ Flush!Finish(p) \/ Flush!Raise(p)
           Inside == \/ Flush!OpenSource(p) \/ Flush!FinishCopy(p) \/ Flush!Upload(p)
                     \/ Flush!RemoveGz(p) \/ Flush!RemoveSrc(p)
<1>1. Outside \/ Inside
  BY DEF Flush!FlushStep
<1>2. CASE Outside
  <2>1. /\ pass'[p].pc \notin Flush!Working
        /\ \A q \in Flush!Flushers : q # p => pass'[q] = pass[q]
        /\ UNCHANGED <<pending, made, gz>>
        /\ \/ UNCHANGED s3
           \/ /\ pass[p].pc = "upload"
              /\ s3' = [s3 EXCEPT ![day][Flush!Current(p)] = gz[Flush!Current(p)]]
    BY <1>2, OutsideFiles
  <2>2. ~ Holds(p, m)'
    BY <2>1 DEF Holds
  <2>3. CASE UNCHANGED s3
    BY <2>1, <2>2, <2>3, KeptAway
  <2>4. CASE /\ pass[p].pc = "upload"
             /\ s3' = [s3 EXCEPT ![day][Flush!Current(p)] = gz[Flush!Current(p)]]
    <3>1. /\ s3 \in [Flush!Days -> [Markets -> Flush!Content \cup {NoFile}]] /\ day \in Flush!Days
      BY DEF Flush!FTypeOK
    <3>2. CASE Flush!Current(p) # m
      <4>1. \A d \in Flush!Days : s3'[d][m] = s3[d][m]
        BY <2>4, <3>1, <3>2
      <4> QED BY <2>1, <2>2, <4>1, KeptAway
    <3>3. CASE Flush!Current(p) = m
      <4>1. Holds(p, m)
        BY <2>4, <3>3 DEF Holds, Flush!Working
      <4>2. \A q \in Flush!Flushers : q # p => ~ Holds(q, m)'
        BY <2>1, <4>1 DEF Kept, OneHand, Holds, Flush!Current
      <4>3. made[m] # NoFile /\ ~ (stage = "writing" /\ m = market)
        BY <4>1 DEF Kept, OneHand
      <4>4. Closed(m) => Flush!Stored(m)'
        <5>1. Closed(m) => gz[m] = made[m]
          BY <2>4, <4>1 DEF Kept, Sound
        <5>2. s3'[day][m] = gz[m]
          BY <2>4, <3>1, <3>3
        <5> QED BY <2>1, <3>1, <5>1, <5>2 DEF Flush!Stored
      <4>5. Sound(p, m)'
        BY <2>1 DEF Sound, Flush!Working
      <4> QED BY <2>1, <4>2, <4>3, <4>4, <4>5, KeptAt DEF Kept
    <3> QED BY <3>2, <3>3
  <2> QED BY <2>1, <2>3, <2>4
<1>3. CASE Inside
  <2>0. PICK c \in Markets : StepAt(p, c)
    BY <1>3, InsideFile
  <2>1. /\ \A q \in Flush!Flushers :
             DOMAIN pass[q] = {"pc", "todo", "data", "linked"}
        /\ s3 \in [Flush!Days -> [Markets -> Flush!Content \cup {NoFile}]]
        /\ DOMAIN pending = Markets /\ day \in Flush!Days
    BY DEF Flush!FTypeOK, Flush!Pass
  <2> USE DEF StepAt
  <2>2. /\ pass'[p].todo = pass[p].todo \/ pass'[p].pc = "next"
        /\ pass'[p].pc \in Flush!Working => Flush!Current(p)' = c
    BY <2>0, <2>1 DEF Flush!Current, Flush!Working
  <2>3. ASSUME NEW q \in Flush!Flushers, q # p
        PROVE  /\ Holds(q, m)' <=> Holds(q, m)
               /\ pass'[q] = pass[q] \/ Flush!Current(q) = c
    <3>1. pass'[q] = pass[q] \/ pass'[q] = [pass[q] EXCEPT !.linked = FALSE]
      BY <2>0, <2>3
    <3>2. pass[q] \in Flush!Pass
      BY <2>3 DEF Flush!FTypeOK
    <3>3. pass'[q].pc = pass[q].pc /\ pass'[q].todo = pass[q].todo
      BY <3>1, <3>2 DEF Flush!Pass
    <3> QED BY <2>0, <2>3, <3>3 DEF Holds, Flush!Current
  <2>4. CASE m # c
    <3>1. ~ Holds(p, m) /\ ~ Holds(p, m)'
      BY <2>0, <2>2, <2>4 DEF Holds
    <3>2. \A q \in Flush!Flushers : q # p =>
            pass'[q] = pass[q] \/ (~ Holds(q, m) /\ ~ Holds(q, m)')
      BY <2>3, <2>4 DEF Holds
    <3> QED BY <2>0, <2>4, <3>1, <3>2, KeptAway
  <2>5. CASE m = c
    <3>1. CASE /\ Flush!OpenSource(p) /\ pass[p].pc = "next" /\ pending[c] # NoFile
               /\ UNCHANGED <<pending, s3>>
               /\ pass'[p] = [pass[p] EXCEPT !.pc = "copying", !.linked = TRUE,
                                             !.data = pending[c]]
      <4>1. pass'[p].pc = "copying" /\ pass'[p].linked /\ pass'[p].data = pending[m]
        BY <2>1, <2>5, <3>1
      <4>2. /\ ~ (stage = "writing" /\ market = m)
            /\ \A q \in Flush!Flushers \ {p} : ~ Holds(q, m)
        BY <2>0, <2>5, <3>1, <4>1 DEF Clash, Holds, Flush!OpenSource
      <4>3. made[m] # NoFile
        BY <2>5, <3>1 DEF Kept
      <4>4. Closed(m) => pending[m] = made[m]
        BY <2>5, <3>1 DEF Kept
      <4>5. Closed(m) => Sound(p, m)'
        BY <2>0, <4>1, <4>4 DEF Sound
      <4> QED BY <2>0, <2>3, <3>1, <4>2, <4>3, <4>4, <4>5, KeptAt
    <3>2. CASE pass[p].pc # "next"
      <4>1. Holds(p, m) /\ Flush!Current(p) = m
        BY <2>0, <2>5, <3>2 DEF Holds, Flush!Working
      <4>2. /\ \A q \in Flush!Flushers : q # p => ~ Holds(q, m)'
            /\ made[m] # NoFile /\ ~ (stage = "writing" /\ m = market)
        BY <2>3, <4>1 DEF Kept, OneHand
      <4>3. Closed(m) =>
              /\ Sound(p, m)
              /\ pending[m] = made[m] \/ (pending[m] = NoFile /\ Flush!Stored(m))
        BY <4>1 DEF Kept
      <4>4. CASE /\ pass[p].pc = "copying" /\ UNCHANGED <<pending, s3>>
                 /\ pass[p].linked => gz'[c] = pass[p].data
                 /\ pass'[p] = [pass[p] EXCEPT !.pc = "upload", !.linked = FALSE]
        <5>1. pass'[p].pc = "upload"
          BY <2>1, <4>4
        <5>2. Closed(m) => gz'[m] = made[m]
          BY <2>5, <4>3, <4>4 DEF Sound
        <5>3. Closed(m) => Sound(p, m)'
          BY <2>0, <5>1, <5>2 DEF Sound
        <5>4. Flush!Stored(m) => Flush!Stored(m)'
          BY <2>0, <4>4 DEF Flush!Stored
        <5> QED BY <2>0, <4>2, <4>3, <4>4, <5>3, <5>4, KeptAt
      <4>5. CASE /\ pass[p].pc = "upload" /\ UNCHANGED <<pending, gz>>
                 /\ s3' = [s3 EXCEPT ![day][c] = gz[c]]
                 /\ pass'[p] = [pass[p] EXCEPT !.pc = "rmgz"]
        <5>1. pass'[p].pc = "rmgz"
          BY <2>1, <4>5
        <5>2. Closed(m) => Flush!Stored(m)'
          <6>1. Closed(m) => gz[m] = made[m]
            BY <4>3, <4>5 DEF Sound
          <6>2. s3'[day][m] = gz[m]
            BY <2>1, <2>5, <4>5
          <6> QED BY <2>0, <2>1, <6>1, <6>2 DEF Flush!Stored
        <5>3. Closed(m) => Sound(p, m)'
          BY <5>1, <5>2 DEF Sound
        <5> QED BY <2>0, <4>2, <4>3, <4>5, <5>2, <5>3, KeptAt
      <4>6. CASE /\ pass[p].pc = "rmgz" /\ UNCHANGED <<pending, s3>>
                 /\ pass'[p] = [pass[p] EXCEPT !.pc = "rmsrc"]
        <5>1. pass'[p].pc = "rmsrc"
          BY <2>1, <4>6
        <5>2. Closed(m) => Flush!Stored(m)'
          BY <2>0, <4>3, <4>6 DEF Sound, Flush!Stored
        <5>3. Closed(m) => Sound(p, m)'
          BY <5>1, <5>2 DEF Sound
        <5> QED BY <2>0, <4>2, <4>3, <4>6, <5>2, <5>3, KeptAt
      <4>7. CASE /\ pass[p].pc = "rmsrc" /\ UNCHANGED <<gz, s3>>
                 /\ pending' = [pending EXCEPT ![c] = NoFile]
                 /\ pass'[p] = [pass[p] EXCEPT !.pc = "next", !.todo = @ \ {c}]
        <5>1. pass'[p].pc = "next" /\ pending'[m] = NoFile
          BY <2>1, <2>5, <4>7
        <5>2. Closed(m) => Flush!Stored(m)'
          BY <2>0, <4>3, <4>7 DEF Sound, Flush!Stored
        <5>3. Sound(p, m)'
          BY <5>1 DEF Sound
        <5> QED BY <2>0, <4>2, <5>1, <5>2, <5>3, KeptAt
      <4> QED BY <2>0, <3>2, <4>4, <4>5, <4>6, <4>7
    <3> QED BY <2>0, <3>1, <3>2
  <2> QED BY <2>4, <2>5
<1> QED BY <1>1, <1>2, <1>3
-----------------------------------------------------------------------------
(***************************************************************************)
(* The invariant of the job.                                               *)
(***************************************************************************)

\* What is known of the job's own variables.
JobOK ==
  /\ stage \in {"fetching", "fetched", "writing", "flushing", "dead"}
  /\ market \in 1 .. MaxMarkets + 1
  /\ total \in 0 .. MaxTrades
  /\ offset \in 0 .. MaxOffset
  /\ trades \in Seq(1 .. MaxTrades)
  /\ atStart \in 0 .. MaxTrades
  /\ warned \in BOOLEAN /\ cut \in BOOLEAN
  /\ clashed \subseteq Markets
  /\ stage \in {"fetched", "writing"} => market \in Markets

LEMMA TypeParts ==
  BTypeOK <=> JobOK /\ (stage # "flushing" => pass[Job] = Flush!Idle)
BY DEF BTypeOK, JobOK

LEMMA TradesAreNumbers == ASSUME JobOK PROVE trades \in Seq(Nat) /\ trades # NoFile
<1>1. 1 .. MaxTrades \subseteq Nat /\ trades \in Seq(1 .. MaxTrades)
  BY BackfillAssumption DEF JobOK
<1> QED BY <1>1, SeqMonotonic, BackfillAssumption

LEMMA NewMarket ==
  ASSUME NEW m \in 1 .. MaxMarkets + 1, StartMarket(m), UNCHANGED clashed, JobOK
  PROVE  JobOK' /\ Stretch' /\ FetchedWithoutHole'
<1>1. /\ stage' = "fetching" /\ market' = m /\ offset' = 0 /\ trades' = <<>>
      /\ total' \in 0 .. (IF m \in Markets THEN MaxTrades ELSE 0) /\ atStart' = total'
      /\ warned' = FALSE /\ cut' = FALSE
  BY DEF StartMarket
<1>2. total' \in 0 .. MaxTrades /\ 0 \in 0 .. MaxOffset /\ trades' \in Seq(1 .. MaxTrades)
  BY <1>1, BackfillAssumption, EmptySeq
<1>3. JobOK'
  BY <1>1, <1>2 DEF JobOK
<1>4. Lowest' = atStart' + 1 /\ Lowest' .. atStart' = {}
  <2>1. Lowest' = atStart' + 1
    BY <1>1 DEF Lowest
  <2>2. \A a \in Nat : a + 1 .. a = {}
    OBVIOUS
  <2>3. atStart' \in Nat
    BY <1>1, <1>2, BackfillAssumption
  <2> QED BY <2>1, <2>2, <2>3
<1>5. atStart' =< total'
  BY <1>1, <1>2, BackfillAssumption
<1>6. Stretch' /\ FetchedWithoutHole'
  BY <1>1, <1>4, <1>5 DEF Stretch, FetchedWithoutHole
<1> QED BY <1>3, <1>6

\* The steps of the job that leave the files and the flushers alone.  A file that
\* is closed thereby is whole, and no pass has it open.
LEMMA JobAlone ==
  ASSUME BInv, UNCHANGED <<fvars, clashed>>, stage' \notin {"writing", "flushing"},
         stage \notin {"flushing", "dead"},
         \/ market' = market /\ (stage = "writing" => stage' = "dead")
         \/ market' = market + 1 /\ (stage = "writing" => pending[market] \in {trades, NoFile}),
         JobOK', Stretch', FetchedWithoutHole'
  PROVE  BInv'
<1>0. /\ JobOK /\ Flush!FTypeOK /\ MadeInOrder /\ pass[Job] = Flush!Idle
      /\ UNCHANGED <<pending, made, gz, s3, day, fstop, task, pass, crashes>>
  BY TypeParts DEF BInv, fvars
<1>1. BTypeOK' /\ Flush!FTypeOK'
  <2>1. Flush!FTypeOK'
    BY <1>0 DEF Flush!FTypeOK
  <2> QED BY <1>0, <2>1 DEF BTypeOK, JobOK
<1>2. MadeInOrder'
  <2>1. market \in Nat /\ \A m \in Markets : m \in Nat
    BY <1>0, BackfillAssumption DEF JobOK, Markets
  <2> QED BY <1>0, <2>1 DEF MadeInOrder
<1>3. ASSUME NEW m \in Markets \ clashed PROVE Kept(m)'
  <2>1. Kept(m)
    BY DEF BInv
  <2>2. OneHand(m)'
    BY <1>0, <2>1 DEF Kept, OneHand, Holds, Flush!Current
  <2>3. Flush!Stored(m)' <=> Flush!Stored(m)
    BY <1>0 DEF Flush!Stored
  <2>4. \A q \in Flush!Flushers : (Holds(q, m)' <=> Holds(q, m)) /\ (Sound(q, m)' <=> Sound(q, m))
    BY <1>0, <2>3 DEF Holds, Sound, Flush!Current
  <2>5. CASE Closed(m)
    BY <1>0, <2>1, <2>2, <2>3, <2>4, <2>5 DEF Kept
  <2>6. CASE ~ Closed(m) /\ Closed(m)'
    <3>1. /\ stage = "writing" /\ m = market
          /\ pending[market] \in {trades, NoFile} /\ made[market] = trades
      <4>1. market \in Nat /\ market # market + 1
        BY <1>0, BackfillAssumption DEF JobOK
      <4>2. made[m] # NoFile /\ m = market /\ stage \in {"writing", "dead"}
        BY <1>0, <2>6 DEF Closed
      <4> QED BY <1>0, <2>6, <4>1, <4>2 DEF Closed, MadeInOrder
    <3>2. pending[m] = made[m] /\ \A q \in Flush!Flushers : ~ Holds(q, m)
      BY <2>1, <3>1 DEF Kept, OneHand
    <3> QED BY <1>0, <2>1, <2>2, <2>4, <3>2 DEF Kept
  <2>7. CASE ~ Closed(m)'
    BY <1>0, <2>1, <2>2, <2>4, <2>7 DEF Kept
  <2> QED BY <2>5, <2>6, <2>7
<1> QED BY <1>1, <1>2, <1>3 DEF BInv

LEMMA FetchInv ==
  ASSUME BInv, FetchPage \/ OddPage \/ FetchFails \/ FetchRaises \/ SkipFrames, UNCHANGED clashed
  PROVE  BInv'
<1>0. /\ JobOK /\ stage \in {"fetching", "fetched"} /\ market \in Markets
      /\ UNCHANGED <<fvars, clashed>> /\ Stretch /\ FetchedWithoutHole
  <2>1. JobOK
    BY TypeParts DEF BInv
  <2>2. stage \in {"fetching", "fetched"} /\ market \in Markets /\ UNCHANGED fvars
    BY <2>1 DEF JobOK, FetchPage, OddPage, FetchFails, FetchRaises, SkipFrames, Fetching
  <2> QED BY <2>1, <2>2 DEF BInv
<1>1. CASE FetchPage
  <2>1. trades' \in Seq(1 .. MaxTrades) /\ Stretch' /\ FetchedWithoutHole'
    BY <1>1, FetchKeeps
  <2>2. offset' \in 0 .. MaxOffset
    BY <1>0, <1>1, BackfillAssumption DEF FetchPage, JobOK
  <2>3. JobOK'
    BY <1>0, <1>1, <2>1, <2>2 DEF FetchPage, JobOK
  <2>4. stage' \in {"fetching", "fetched"} /\ market' = market
    BY <1>1 DEF FetchPage, Fetching
  <2> QED BY <1>0, <2>1, <2>3, <2>4, JobAlone
<1>2. CASE OddPage
  <2>1. JobOK' /\ stage' = "fetched" /\ market' = market
    BY <1>0, <1>2 DEF OddPage, JobOK
  <2>2. Stretch' /\ FetchedWithoutHole'
    BY <1>0, <1>2 DEF OddPage, Stretch, FetchedWithoutHole, Lowest
  <2> QED BY <1>0, <2>1, <2>2, JobAlone
<1>3. CASE FetchFails \/ SkipFrames
  <2>1. market + 1 \in 1 .. MaxMarkets + 1
    BY <1>0, BackfillAssumption DEF Markets
  <2>2. StartMarket(market + 1)
    BY <1>3 DEF FetchFails, SkipFrames
  <2>3. stage' = "fetching" /\ market' = market + 1
    BY <2>2 DEF StartMarket
  <2> QED BY <1>0, <2>1, <2>2, <2>3, NewMarket, JobAlone
<1>4. CASE FetchRaises
  <2>1. JobOK' /\ stage' = "dead" /\ market' = market
    BY <1>0, <1>4 DEF FetchRaises, JobOK
  <2>2. Stretch' /\ FetchedWithoutHole'
    BY <2>1 DEF Stretch, FetchedWithoutHole
  <2> QED BY <1>0, <2>1, <2>2, JobAlone
<1> QED BY <1>1, <1>2, <1>3, <1>4

\* An error while the file is written: it stays as it is.
LEMMA WriteRaisesInv == ASSUME BInv, WriteRaises, UNCHANGED clashed PROVE BInv'
<1>1. /\ JobOK /\ stage \in {"fetched", "writing"} /\ stage' = "dead" /\ UNCHANGED <<fvars, clashed>>
      /\ UNCHANGED <<total, market, offset, trades, atStart, warned, cut>>
  BY TypeParts DEF BInv, WriteRaises
<1>2. JobOK' /\ Stretch' /\ FetchedWithoutHole'
  BY <1>1 DEF JobOK, Stretch, FetchedWithoutHole
<1> QED BY <1>1, <1>2, JobAlone

\* The file is closed.
LEMMA CloseInv == ASSUME BInv, CloseFrames, UNCHANGED clashed PROVE BInv'
<1>0. /\ JobOK /\ stage = "writing" /\ market \in Markets
      /\ UNCHANGED <<fvars, clashed>> /\ StartMarket(market + 1)
      /\ pending[market] \in {trades, NoFile}
  BY TypeParts DEF BInv, BTypeOK, CloseFrames
<1>1. market + 1 \in 1 .. MaxMarkets + 1
  BY <1>0, BackfillAssumption DEF Markets
<1>2. stage' = "fetching" /\ market' = market + 1
  BY <1>0 DEF StartMarket
<1> QED BY <1>0, <1>1, <1>2, NewMarket, JobAlone

\* The file is opened: nothing has had its name.
LEMMA OpenInv == ASSUME BInv, OpenFrames, UNCHANGED clashed PROVE BInv'
<1>0. /\ JobOK /\ stage = "fetched" /\ market \in Markets /\ stage' = "writing"
      /\ total' = 0 /\ atStart' = 0 /\ warned' = FALSE /\ cut' = FALSE
      /\ UNCHANGED <<market, offset, trades, gz, s3, day, fstop, task, pass, crashes, clashed>>
      /\ pending' = [pending EXCEPT ![market] = <<>>]
      /\ made' = [made EXCEPT ![market] = trades]
      /\ pass[Job] = Flush!Idle /\ MadeInOrder /\ Flush!FTypeOK
  BY TypeParts DEF BInv, BTypeOK, OpenFrames, FetchDone
<1>1. /\ pending \in [Markets -> Flush!Content \cup {NoFile}]
      /\ made \in [Markets -> Flush!Content \cup {NoFile}]
      /\ <<>> \in Flush!Content /\ trades \in Flush!Content /\ NoFile \notin Flush!Content
  <2>1. trades \in Seq(Nat)
    BY <1>0, TradesAreNumbers
  <2> QED BY <1>0, <2>1, EmptySeq, BackfillAssumption DEF Flush!FTypeOK, Flush!Content
<1>2. Flush!FTypeOK'
  BY <1>0, <1>1 DEF Flush!FTypeOK
<1>3. JobOK' /\ Stretch' /\ FetchedWithoutHole'
  <2>1. 0 \in 0 .. MaxTrades
    BY BackfillAssumption
  <2>2. JobOK'
    BY <1>0, <2>1 DEF JobOK
  <2> QED BY <1>0, <2>2 DEF Stretch, FetchedWithoutHole
<1>4. MadeInOrder'
  BY <1>0, <1>1 DEF MadeInOrder
<1>5. ASSUME NEW m \in Markets \ clashed PROVE Kept(m)'
  <2>1. Kept(m)
    BY DEF BInv
  <2>2. Flush!Stored(m) /\ m # market => Flush!Stored(m)'
    BY <1>0, <1>1 DEF Flush!Stored
  <2>3. CASE m = market
    <3>1. made[m] = NoFile
      <4>1. market \in Nat
        BY <1>0, BackfillAssumption DEF JobOK
      <4> QED BY <1>0, <2>3, <4>1 DEF MadeInOrder
    <3>2. \A q \in Flush!Flushers : ~ Holds(q, m)'
      BY <1>0, <2>1, <3>1 DEF Kept, Holds, Flush!Current
    <3>3. pending'[m] # NoFile /\ made'[m] # NoFile
      BY <1>0, <1>1, <2>3
    <3>4. ~ Closed(m)'
      BY <1>0, <2>3 DEF Closed
    <3> QED BY <3>2, <3>3, <3>4 DEF Kept, OneHand
  <2>4. CASE m # market
    <3>1. pending'[m] = pending[m] /\ made'[m] = made[m] /\ (Closed(m)' <=> Closed(m))
      BY <1>0, <1>1, <2>4 DEF Closed
    <3>2. \A q \in Flush!Flushers : Holds(q, m)' <=> Holds(q, m)
      BY <1>0 DEF Holds, Flush!Current
    <3>3. \A q \in Flush!Flushers : Sound(q, m) => Sound(q, m)'
      BY <1>0, <2>2, <2>4, <3>1 DEF Sound
    <3>4. OneHand(m)'
      BY <1>0, <2>1, <2>4, <3>2 DEF Kept, OneHand
    <3> QED BY <2>1, <2>2, <2>4, <3>1, <3>2, <3>3, <3>4 DEF Kept
  <2> QED BY <2>3, <2>4
<1> QED BY <1>0, <1>2, <1>3, <1>4, <1>5 DEF BInv, BTypeOK, JobOK

LEMMA WriteInv == ASSUME BInv, WriteFrames, UNCHANGED clashed PROVE BInv'
<1>0. /\ JobOK /\ stage = "writing" /\ market \in Markets
      /\ UNCHANGED <<jvars, total, clashed, made, gz, s3, day, fstop, task, pass, crashes>>
      /\ pending[market] # NoFile
      /\ pass[Job] = Flush!Idle /\ MadeInOrder /\ Flush!FTypeOK
  BY TypeParts DEF BInv, BTypeOK, WriteFrames
<1>1. PICK n \in Len(pending[market]) + 1 .. Len(trades) :
        pending' = [pending EXCEPT ![market] = SubSeq(trades, 1, n)]
  BY DEF WriteFrames
<1>2. /\ pending \in [Markets -> Flush!Content \cup {NoFile}]
      /\ SubSeq(trades, 1, n) \in Flush!Content /\ NoFile \notin Flush!Content
  <2>1. pending \in [Markets -> Flush!Content \cup {NoFile}]
    BY <1>0 DEF Flush!FTypeOK
  <2>2. pending[market] \in Seq(Nat) /\ trades \in Seq(Nat)
    BY <1>0, <2>1, TradesAreNumbers DEF Flush!Content
  <2>3. Len(pending[market]) \in Nat /\ Len(trades) \in Nat
    BY <2>2, LenProperties
  <2>4. n \in Nat /\ \A i \in 1 .. n : trades[i] \in Nat
    BY <2>2, <2>3, ElementOfSeq
  <2>5. SubSeq(trades, 1, n) \in Seq(Nat)
    BY <2>2, <2>4, SubSeqProperties
  <2> QED BY <2>1, <2>5, BackfillAssumption DEF Flush!Content
<1>3. Flush!FTypeOK'
  BY <1>0, <1>1, <1>2 DEF Flush!FTypeOK
<1>4. JobOK' /\ Stretch' /\ FetchedWithoutHole'
  BY <1>0 DEF JobOK, Stretch, FetchedWithoutHole, jvars
<1>5. MadeInOrder'
  BY <1>0 DEF MadeInOrder, jvars
<1>6. ASSUME NEW m \in Markets \ clashed PROVE Kept(m)'
  <2>1. Kept(m) /\ UNCHANGED <<stage, market, made, gz, s3, pass>>
    BY <1>0 DEF BInv, jvars
  <2>2. \A q \in Flush!Flushers : (Holds(q, m)' <=> Holds(q, m)) /\ (Sound(q, m)' <=> Sound(q, m))
    BY <2>1 DEF Holds, Sound, Flush!Current, Flush!Stored
  <2>3. pending'[m] # NoFile <=> pending[m] # NoFile
    BY <1>0, <1>1, <1>2
  <2>4. OneHand(m)'
    BY <2>1, <2>2, <2>3 DEF Kept, OneHand
  <2>5. Closed(m)' => Closed(m) /\ pending'[m] = pending[m]
    BY <1>0, <1>1, <1>2, <2>1 DEF Closed
  <2>6. Flush!Stored(m)' <=> Flush!Stored(m)
    BY <2>1 DEF Flush!Stored
  <2> QED BY <2>1, <2>2, <2>3, <2>4, <2>5, <2>6 DEF Kept
<1> QED BY <1>0, <1>3, <1>4, <1>5, <1>6 DEF BInv, BTypeOK, JobOK, jvars

\* A step of a flusher, of the job or of a live recorder, the first of the job's
\* pass included.
LEMMA PassInv ==
  ASSUME BInv, NEW p \in Flush!Flushers,
         Flush!Wake(p) \/ Flush!FlushStep(p) \/ Flush!Raise(p),
         UNCHANGED stage \/ (stage = "fetching" /\ stage' = "flushing"),
         p = Job => stage' = "flushing",
         UNCHANGED <<market, offset, trades, atStart, warned, cut, total>>,
         clashed' \subseteq Markets, clashed \cup Clash(p) \subseteq clashed'
  PROVE  BInv'
<1>0. /\ JobOK /\ Flush!FTypeOK /\ MadeInOrder /\ SameFile
      /\ stage # "flushing" => pass[Job] = Flush!Idle
  BY TypeParts DEF BInv, SameFile
<1>1. Flush!FTypeOK' /\ UNCHANGED made
  BY <1>0, OutsideFiles, InsideFile DEF Flush!FlushStep, StepAt
<1>2. JobOK' /\ Stretch' /\ FetchedWithoutHole'
  BY <1>0 DEF BInv, JobOK, Stretch, FetchedWithoutHole, Lowest
<1>3. MadeInOrder'
  BY <1>0, <1>1 DEF MadeInOrder, SameFile
<1>4. stage' # "flushing" => pass'[Job] = Flush!Idle
  <2> SUFFICES ASSUME stage' # "flushing" PROVE pass'[Job] = pass[Job]
    BY <1>0
  <2>1. p # Job /\ pass[Job].pc = "idle"
    BY <1>0 DEF Flush!Idle
  <2>2. pass'[Job] = pass[Job] \/ pass[Job].pc = "copying"
    BY <1>0, <2>1, FlushersHere, OutsideFiles, InsideFile DEF Flush!FlushStep, StepAt
  <2> QED BY <2>1, <2>2
<1>5. ASSUME NEW m \in Markets \ clashed' PROVE Kept(m)'
  <2>1. m \in Markets \ clashed /\ Kept(m) /\ m \notin Clash(p)
    BY <1>5 DEF BInv
  <2> QED BY <1>0, <2>1, KeptByPass
<1> QED BY <1>1, <1>2, <1>3, <1>4, <1>5 DEF BInv, BTypeOK, JobOK

LEMMA FlushInv == ASSUME BInv, StartFlush, UNCHANGED clashed PROVE BInv'
<1>0. /\ JobOK /\ stage = "fetching" /\ stage' = "flushing" /\ pass[Job] = Flush!Idle
      /\ UNCHANGED <<total, market, offset, trades, atStart, warned, cut>>
  BY TypeParts DEF BInv, BTypeOK, StartFlush
<1>1. CASE Flush!Wake(Job)
  <2>1. Clash(Job) = {}
    BY <1>0 DEF Clash, Flush!Idle
  <2>2. clashed' \subseteq Markets /\ clashed \cup Clash(Job) \subseteq clashed'
    BY <1>0, <2>1 DEF JobOK
  <2> QED BY <1>0, <1>1, <2>2, FlushersHere, PassInv
<1>2. CASE UNCHANGED fvars
  <2>0. UNCHANGED <<pending, made, gz, s3, day, fstop, task, pass, crashes>>
    BY <1>2 DEF fvars
  <2>1. JobOK' /\ Stretch' /\ FetchedWithoutHole' /\ MadeInOrder'
    BY <1>0, <2>0 DEF BInv, JobOK, Stretch, FetchedWithoutHole, MadeInOrder
  <2>2. Flush!FTypeOK'
    BY <2>0 DEF BInv, Flush!FTypeOK
  <2>3. ASSUME NEW m \in Markets \ clashed PROVE Kept(m)'
    <3>1. Kept(m) /\ SameFile
      BY <1>0 DEF BInv, SameFile
    <3>2. ~ Holds(Job, m)'
      BY <1>0, <2>0 DEF Holds, Flush!Idle, Flush!Working
    <3> QED BY <2>0, <3>1, <3>2, FlushersHere, KeptAway
  <2> QED BY <1>0, <2>1, <2>2, <2>3 DEF BInv, BTypeOK, JobOK
<1> QED BY <1>1, <1>2 DEF StartFlush

\* A trade is made, or nothing changes.
LEMMA TradeInv ==
  ASSUME BInv, UNCHANGED <<fvars, jvars, clashed>>,
         total' = total \/ (total < MaxTrades /\ total' = total + 1)
  PROVE  BInv'
<1>0. /\ JobOK /\ UNCHANGED <<pending, made, gz, s3, day, fstop, task, pass, crashes>>
      /\ UNCHANGED <<stage, market, offset, trades, atStart, warned, cut>>
  BY TypeParts DEF BInv, fvars, jvars
<1>1. total \in Nat /\ MaxTrades \in Nat /\ total' \in 0 .. MaxTrades /\ total' >= total
  BY <1>0, BackfillAssumption DEF JobOK
<1>2. JobOK' /\ FetchedWithoutHole' /\ MadeInOrder'
  BY <1>0, <1>1 DEF JobOK, BInv, FetchedWithoutHole, MadeInOrder
<1>3. Stretch'
  <2> SUFFICES ASSUME stage \in {"fetching", "fetched"}, market \in Markets
               PROVE  /\ atStart =< total'
                      /\ Lowest .. atStart \subseteq Range(trades)
                      /\ stage = "fetching" =>
                           /\ trades = <<>> => offset = 0
                           /\ trades # <<>> => Lowest + offset =< total' + 1
    BY <1>0 DEF Stretch, Lowest
  <2>1. /\ atStart =< total
        /\ Lowest .. atStart \subseteq Range(trades)
        /\ stage = "fetching" =>
             /\ trades = <<>> => offset = 0
             /\ trades # <<>> => Lowest + offset =< total + 1
    BY DEF BInv, Stretch
  <2>2. atStart \in Nat /\ offset \in Nat
    BY <1>0, BackfillAssumption DEF JobOK
  <2>3. trades # <<>> => Lowest \in Nat
    <3> SUFFICES ASSUME trades # <<>> PROVE trades[Len(trades)] \in Nat
      BY DEF Lowest
    <3>1. trades \in Seq(Nat)
      BY <1>0, TradesAreNumbers
    <3>2. Len(trades) \in 1 .. Len(trades)
      BY <3>1, EmptySeq, LenProperties
    <3> QED BY <3>1, <3>2, ElementOfSeq
  <2> HIDE DEF Lowest
  <2> QED BY <1>1, <2>1, <2>2, <2>3
<1>4. Flush!FTypeOK'
  BY <1>0 DEF BInv, Flush!FTypeOK
<1>5. ASSUME NEW m \in Markets \ clashed PROVE Kept(m)'
  BY <1>0 DEF BInv, Kept, OneHand, Closed, Holds, Sound, Flush!Current, Flush!Stored
<1>6. (stage # "flushing" => pass[Job] = Flush!Idle)'
  BY <1>0, TypeParts DEF BInv
<1> QED BY <1>0, <1>2, <1>3, <1>4, <1>5, <1>6 DEF BInv, BTypeOK, JobOK

LEMMA BStepInv == BInv /\ [BNext]_bvars => BInv'
<1> SUFFICES ASSUME BInv, [BNext]_bvars PROVE BInv'
  OBVIOUS
<1>0. JobOK
  BY TypeParts DEF BInv
<1>1. CASE JobStep
  BY <1>1, FetchInv, OpenInv, WriteInv, WriteRaisesInv, CloseInv, FlushInv DEF JobStep
<1>2. CASE RecorderWakes
  <2>1. PICK p \in Recorders : Flush!Wake(p)
    BY <1>2 DEF RecorderWakes
  <2>2. p \in Flush!Flushers /\ p # Job /\ pass'[p].pc # "copying"
    <3>1. p \in Flush!Flushers /\ p # Job
      BY <2>1, FlushersHere, BackfillAssumption
    <3> QED BY <2>1, <3>1, OutsideFiles DEF BInv, Flush!Working
  <2>3. Clash(p) = {}
    BY <2>2 DEF Clash
  <2>4. clashed' \subseteq Markets /\ clashed \cup Clash(p) \subseteq clashed'
    BY <1>0, <1>2, <2>3 DEF RecorderWakes, JobOK
  <2> QED BY <1>2, <2>1, <2>2, <2>4, PassInv DEF RecorderWakes, jvars
<1>3. CASE \E p \in {Job} \cup Recorders : FlushPass(p)
  <2>1. PICK p \in Flush!Flushers : FlushPass(p)
    BY <1>3, FlushersHere
  <2>2. clashed' \subseteq Markets /\ clashed \cup Clash(p) \subseteq clashed'
    BY <1>0, <2>1 DEF FlushPass, JobOK, Clash
  <2>3. Flush!FlushStep(p) \/ Flush!Raise(p)
    BY <2>1 DEF FlushPass
  <2>4. stage' = stage /\ UNCHANGED <<market, offset, trades, atStart, warned, cut, total>>
    BY <2>1 DEF FlushPass, jvars
  <2>5. p = Job => stage = "flushing"
    <3> SUFFICES ASSUME p = Job, stage # "flushing" PROVE FALSE
      OBVIOUS
    <3>1. pass[p].pc = "idle"
      BY TypeParts DEF BInv, Flush!Idle
    <3> QED BY <2>3, <3>1 DEF Flush!FlushStep, Flush!ListPending, Flush!Finish, Flush!OpenSource,
       Flush!FinishCopy, Flush!Upload, Flush!RemoveGz, Flush!RemoveSrc, Flush!Raise, Flush!Working
  <2> QED BY <2>1, <2>2, <2>3, <2>4, <2>5, PassInv
<1>4. CASE NewTrade
  BY <1>4, TradeInv DEF NewTrade
<1>5. CASE UNCHANGED bvars
  BY <1>5, TradeInv DEF bvars
<1> QED BY <1>1, <1>2, <1>3, <1>4, <1>5 DEF BNext

LEMMA BInitInv == BInit => BInv
<1> SUFFICES ASSUME BInit PROVE BInv
  OBVIOUS
<1>1. /\ pending = [f \in Markets |-> NoFile] /\ made = [f \in Markets |-> NoFile]
      /\ gz = [f \in Markets |-> NoFile]
      /\ s3 = [d \in Flush!Days |-> [f \in Markets |-> NoFile]]
      /\ day = 0 /\ fstop = {} /\ crashes = 0
      /\ task = [p \in Flush!Flushers |-> IF p \in {Job} THEN "once" ELSE "waiting"]
      /\ pass = [p \in Flush!Flushers |-> Flush!Idle]
  BY DEF BInit, Flush!FInit
<1>2. Flush!FTypeOK
  BY <1>1 DEF Flush!FTypeOK, Flush!Pass, Flush!Idle, Flush!Working, Flush!Content, Flush!Days
<1>3. /\ stage = "fetching" /\ market = 1 /\ offset = 0 /\ trades = <<>> /\ clashed = {}
      /\ total \in 0 .. (IF 1 \in Markets THEN MaxTrades ELSE 0) /\ atStart = total
      /\ warned = FALSE /\ cut = FALSE
  BY DEF BInit
<1>4. JobOK
  <2>1. 1 \in 1 .. MaxMarkets + 1 /\ 0 \in 0 .. MaxOffset /\ total \in 0 .. MaxTrades
    BY <1>3, BackfillAssumption
  <2> QED BY <1>3, <2>1, EmptySeq DEF JobOK
<1>5. Stretch /\ FetchedWithoutHole
  <2>1. Lowest = atStart + 1 /\ atStart \in Nat
    BY <1>3, <1>4, BackfillAssumption DEF Lowest, JobOK
  <2>2. Lowest .. atStart = {}
    BY <2>1
  <2> QED BY <1>3, <1>4, <2>1, <2>2 DEF Stretch, FetchedWithoutHole
<1>6. MadeInOrder
  BY <1>1, <1>3 DEF MadeInOrder
<1>7. \A m \in Markets : Kept(m)
  BY <1>1, <1>3 DEF Kept, OneHand, Closed, Holds, Flush!Idle, Flush!Working
<1>8. BTypeOK
  BY <1>1, <1>4, TypeParts, FlushersHere
<1> QED BY <1>2, <1>5, <1>6, <1>7, <1>8 DEF BInv

\* The inductive invariant of the job.
THEOREM BackfillInvariant == BSpec => []BInv
<1>1. BInv /\ [BNext]_bvars => BInv'
  BY BStepInv
<1> QED BY <1>1, BInitInv, PTL DEF BSpec

\* The job's variables keep their types, and no pass of its flusher runs while
\* it fetches and writes.
THEOREM BackfillTypeCorrect == BSpec => []BTypeOK
<1>1. BInv => BTypeOK
  BY DEF BInv
<1> QED BY <1>1, BackfillInvariant, PTL

\* What fetch_trades returns is an unbroken stretch of trades, for any page size,
\* cap and number of trades, although the offsets shift while it pages.
THEOREM NoHole == BSpec => []FetchedWithoutHole
<1>1. BInv => FetchedWithoutHole
  BY DEF BInv
<1> QED BY <1>1, BackfillInvariant, PTL

\* What the job has written is whole in pending_dir until S3 has it, through
\* errors of the job and of its flusher, with any live recorders that upload from
\* the same directory: but for a file that two of them had open at once, or that
\* one opened while the job wrote it.
THEOREM NothingWrittenLost == BSpec => []WrittenIsKept
<1>1. BInv => WrittenIsKept
  BY DEF BInv, Kept, Closed, WrittenIsKept
<1> QED BY <1>1, BackfillInvariant, PTL
=============================================================================
