--------------------------- MODULE PipelineProofs ---------------------------
(***************************************************************************)
(* Proofs about the way of a frame: the archive keeps the order of the     *)
(* frames, the flusher's guarantees hold with the archiver, the shutdown   *)
(* and the restarts around it, and all of it implements FrameLog.          *)
(***************************************************************************)
EXTENDS Pipeline, SequenceTheorems, TLAPS

\* What was proved of a flusher, for the one of this process.
FP == INSTANCE FlusherProofs WITH
        Recorders <- {Live}, Jobs <- {}, Configured <- {Live}, Files <- Frames

\* No frame is anywhere before it has arrived.
Known ==
  /\ \A j \in DOMAIN Volatile : Volatile[j] =< arrived
  /\ \A f \in Frames : made[f] # NoFile => \A i \in DOMAIN made[f] : made[f][i] =< arrived

\* A thread that is not in _flush_once has no local state.
IdlePass == pass[Live].pc = "idle" => pass[Live] = Flush!Idle

\* A process that was killed has no writer.
KilledWriter == phase = "killed" => writer # "running"

PInv ==
  /\ PTypeOK /\ FP!FInv /\ LogOrder /\ Known
  /\ IdlePass /\ KilledWriter

\* The ways in which a step changes the frames in memory and the files: one
\* arrives, or the first k leave memory, the first n of them in a file.
Arrives ==
  /\ arrived < MaxFrames /\ arrived' = arrived + 1
  /\ Volatile' \in {Volatile, Append(Volatile, arrived + 1)}
  /\ UNCHANGED <<pending, made>>

Drops(k, n) ==
  /\ Volatile' = SubSeq(Volatile, k + 1, Len(Volatile))
  /\ Promote(SubSeq(Volatile, 1, n))
  /\ UNCHANGED arrived

DropsSome == \E k \in 0 .. Len(Volatile) : \E n \in 0 .. k : Drops(k, n)

\* All that leaves memory is in the file.
DropsWhole == \E k \in 0 .. Len(Volatile) : Drops(k, k)
-----------------------------------------------------------------------------
(***************************************************************************)
(* Memory: the open file, with the queue behind it.                        *)
(***************************************************************************)

\* The first n elements of a sequence.
LEMMA Prefix ==
  ASSUME NEW S, NEW q \in Seq(S), NEW n \in 0 .. Len(q)
  PROVE  /\ SubSeq(q, 1, n) \in Seq(S) /\ Len(SubSeq(q, 1, n)) = n
         /\ \A i \in 1 .. n : SubSeq(q, 1, n)[i] = q[i]
<1>1. Len(q) \in Nat /\ \A i \in 1 .. n : q[i] \in S
  BY LenProperties, ElementOfSeq
<1>2. /\ SubSeq(q, 1, n) \in Seq(S)
      /\ Len(SubSeq(q, 1, n)) = IF 1 =< n THEN n - 1 + 1 ELSE 0
      /\ \A i \in 1 .. n - 1 + 1 : SubSeq(q, 1, n)[i] = q[1 + i - 1]
  BY <1>1, SubSeqProperties
<1> DEFINE p == SubSeq(q, 1, n)
<1> HIDE DEF p
<1>3. /\ p \in Seq(S) /\ Len(p) = IF 1 =< n THEN n - 1 + 1 ELSE 0
      /\ \A i \in 1 .. n - 1 + 1 : p[i] = q[1 + i - 1]
  BY <1>2 DEF p
<1>4. Len(p) = n
  BY <1>1, <1>3
<1>5. \A i \in 1 .. n : p[i] = q[i]
  BY <1>1, <1>3
<1> QED BY <1>3, <1>4, <1>5 DEF p

\* The elements after the first n.
LEMMA Suffix ==
  ASSUME NEW S, NEW q \in Seq(S), NEW n \in 0 .. Len(q)
  PROVE  /\ SubSeq(q, n + 1, Len(q)) \in Seq(S) /\ Len(SubSeq(q, n + 1, Len(q))) = Len(q) - n
         /\ \A i \in 1 .. Len(q) - n : SubSeq(q, n + 1, Len(q))[i] = q[n + i]
<1>1. Len(q) \in Nat /\ \A i \in n + 1 .. Len(q) : q[i] \in S
  BY LenProperties, ElementOfSeq
<1> DEFINE p == SubSeq(q, n + 1, Len(q))
<1>2. /\ p \in Seq(S)
      /\ Len(p) = IF n + 1 =< Len(q) THEN Len(q) - (n + 1) + 1 ELSE 0
      /\ \A i \in 1 .. Len(q) - (n + 1) + 1 : p[i] = q[(n + 1) + i - 1]
  BY <1>1, SubSeqProperties
<1> HIDE DEF p
<1>3. Len(p) = Len(q) - n
  BY <1>1, <1>2
<1>4. ASSUME NEW i \in 1 .. Len(q) - n PROVE p[i] = q[n + i]
  <2>1. i \in 1 .. Len(q) - (n + 1) + 1 /\ (n + 1) + i - 1 = n + i
    BY <1>1
  <2> QED BY <1>2, <2>1
<1> QED BY <1>2, <1>3, <1>4 DEF p

\* The first elements of a concatenation, and the others.
LEMMA Slices ==
  ASSUME NEW S, NEW s \in Seq(S), NEW t \in Seq(S), NEW w \in 0 .. Len(t)
  PROVE  /\ SubSeq(s \o t, 1, Len(s) + w) = s \o SubSeq(t, 1, w)
         /\ SubSeq(s \o t, Len(s) + w + 1, Len(s \o t)) = SubSeq(t, w + 1, Len(t))
<1> DEFINE c == s \o t
           n == Len(s) + w
<1>1. /\ c \in Seq(S) /\ Len(c) = Len(s) + Len(t)
      /\ \A i \in 1 .. Len(s) + Len(t) : c[i] = IF i =< Len(s) THEN s[i] ELSE t[i - Len(s)]
      /\ Len(s) \in Nat /\ Len(t) \in Nat
  BY ConcatProperties, LenProperties
<1> HIDE DEF c
<1>2. n \in 0 .. Len(c) /\ Len(c) - n = Len(t) - w
  BY <1>1
<1>3. SubSeq(c, 1, n) = s \o SubSeq(t, 1, w)
  <2> DEFINE h == SubSeq(t, 1, w)
             l == SubSeq(c, 1, n)
             r == s \o h
  <2>1. l \in Seq(S) /\ Len(l) = n /\ \A i \in 1 .. n : l[i] = c[i]
    BY <1>1, <1>2, Prefix
  <2>2. h \in Seq(S) /\ Len(h) = w /\ \A i \in 1 .. w : h[i] = t[i]
    BY Prefix
  <2> HIDE DEF h, l
  <2>3. /\ r \in Seq(S) /\ Len(r) = n
        /\ \A i \in 1 .. n : r[i] = IF i =< Len(s) THEN s[i] ELSE h[i - Len(s)]
    BY <2>2, ConcatProperties
  <2> HIDE DEF r
  <2>4. ASSUME NEW i \in 1 .. n PROVE l[i] = r[i]
    <3>1. i \in 1 .. Len(s) + Len(t)
      BY <1>1
    <3>2. CASE i =< Len(s)
      BY <1>1, <2>1, <2>3, <3>1, <3>2
    <3>3. CASE ~ (i =< Len(s))
      <4>1. i - Len(s) \in 1 .. w
        BY <1>1, <3>3
      <4>2. r[i] = t[i - Len(s)]
        BY <2>2, <2>3, <3>3, <4>1
      <4>3. l[i] = t[i - Len(s)]
        BY <1>1, <2>1, <3>1, <3>3
      <4> QED BY <4>2, <4>3
    <3> QED BY <3>2, <3>3
  <2>5. l = r
    BY <2>1, <2>3, <2>4, SeqEqual
  <2> QED BY <2>5 DEF h, l, r
<1>4. SubSeq(c, n + 1, Len(c)) = SubSeq(t, w + 1, Len(t))
  <2> DEFINE l == SubSeq(c, n + 1, Len(c))
             r == SubSeq(t, w + 1, Len(t))
  <2> HIDE DEF n
  <2>1. l \in Seq(S) /\ Len(l) = Len(t) - w /\ \A i \in 1 .. Len(t) - w : l[i] = c[n + i]
    BY <1>1, <1>2, Suffix
  <2>2. r \in Seq(S) /\ Len(r) = Len(t) - w /\ \A i \in 1 .. Len(t) - w : r[i] = t[w + i]
    BY Suffix
  <2> HIDE DEF l, r
  <2>3. ASSUME NEW i \in 1 .. Len(t) - w PROVE l[i] = r[i]
    <3> DEFINE k == n + i
    <3>1. k \in 1 .. Len(s) + Len(t) /\ ~ (k =< Len(s)) /\ k - Len(s) = w + i
      BY <1>1 DEF n
    <3>2. l[i] = c[k]
      BY <2>1
    <3> HIDE DEF k
    <3>3. c[k] = t[w + i]
      BY <1>1, <3>1
    <3> QED BY <2>2, <3>2, <3>3
  <2>4. l = r
    BY <2>1, <2>2, <2>3, SeqEqual
  <2> QED BY <2>4 DEF l, r
<1> QED BY <1>3, <1>4 DEF c

\* Taking the head of the queue to the end of the file moves no frame.
LEMMA MoveHead ==
  ASSUME NEW S, NEW s \in Seq(S), NEW t \in Seq(S), t # <<>>
  PROVE  /\ Append(s, Head(t)) = s \o SubSeq(t, 1, 1)
         /\ Tail(t) = SubSeq(t, 2, Len(t))
         /\ Append(s, Head(t)) \o Tail(t) = s \o t
         /\ Append(s, Head(t)) \in Seq(S) /\ Tail(t) \in Seq(S)
<1>1. /\ Head(t) \in S /\ Tail(t) \in Seq(S) /\ Len(t) \in Nat \ {0}
  BY HeadTailProperties, EmptySeq
<1>2. /\ <<Head(t)>> \in Seq(S)
      /\ Append(s, Head(t)) \in Seq(S) /\ Append(s, Head(t)) = s \o <<Head(t)>>
  BY <1>1, AppendIsConcat, AppendProperties
<1>3. Head(t) = t[1] /\ SubSeq(t, 1, 1) = <<t[1]>>
  <2>1. 1 \in 1 .. Len(t) /\ 1 \in 1 .. 1
    BY <1>1
  <2>2. SubSeq(t, 1, 1) = <<t[1]>> \o SubSeq(t, 1 + 1, 1)
    BY <2>1, SubSeqRecursiveFirst
  <2>3. SubSeq(t, 1 + 1, 1) = <<>>
    BY SubSeqEmpty
  <2>4. t[1] \in S
    BY <2>1, ElementOfSeq
  <2>5. <<t[1]>> \in Seq(S)
    BY <2>4
  <2>6. <<t[1]>> \o <<>> = <<t[1]>>
    BY <2>5, ConcatEmptySeq
  <2>7. Head(t) = t[1]
    OBVIOUS
  <2> QED BY <2>2, <2>3, <2>6, <2>7
<1>4. Tail(t) = SubSeq(t, 2, Len(t))
  BY TailIsSubSeq
<1>5. t = <<Head(t)>> \o Tail(t)
  <2>1. SubSeq(t, 1, 1) \o SubSeq(t, 2, Len(t)) = SubSeq(t, 1, Len(t))
    <3>1. 1 \in 1 .. Len(t) + 1 /\ 1 \in 1 - 1 .. Len(t) /\ Len(t) \in 1 .. Len(t)
      BY <1>1
    <3>2. SubSeq(t, 1, 1) \o SubSeq(t, 1 + 1, Len(t)) = SubSeq(t, 1, Len(t))
      BY <3>1, ConcatAdjacentSubSeq
    <3> QED BY <3>2
  <2> QED BY <1>3, <1>4, <2>1, SubSeqFull
<1>6. (s \o <<Head(t)>>) \o Tail(t) = s \o (<<Head(t)>> \o Tail(t))
  BY <1>1, <1>2, ConcatAssociative
<1> QED BY <1>1, <1>2, <1>3, <1>4, <1>5, <1>6

\* Memory is a sequence of frames.
LEMMA MemoryType ==
  ASSUME ATypeOK
  PROVE  /\ buf \in Seq(Frames) /\ queue \in Seq(Frames)
         /\ Len(buf) \in Nat /\ Len(queue) \in Nat
         /\ Volatile \in Seq(Frames) /\ Len(Volatile) = Len(buf) + Len(queue)
<1>1. buf \in Seq(Frames) /\ queue \in Seq(Frames)
  BY DEF ATypeOK
<1> QED BY <1>1, LenProperties, ConcatProperties DEF Volatile

\* Nothing leaves memory.
LEMMA DropsNone ==
  ASSUME ATypeOK, UNCHANGED <<arrived, Volatile, pending, made>>
  PROVE  DropsWhole
<1>1. Volatile' = SubSeq(Volatile, 0 + 1, Len(Volatile))
  BY MemoryType, SubSeqFull
<1>2. SubSeq(Volatile, 1, 0) = <<>>
  BY SubSeqEmpty
<1>3. Drops(0, 0)
  BY <1>1, <1>2 DEF Drops, Promote
<1> QED BY <1>3, MemoryType DEF DropsWhole

LEMMA WholeDrops == ASSUME ATypeOK, DropsWhole PROVE DropsSome
<1>1. PICK k \in 0 .. Len(Volatile) : Drops(k, k)
  BY DEF DropsWhole
<1>2. k \in 0 .. k
  BY MemoryType
<1> QED BY <1>1, <1>2 DEF DropsSome

\* The open file leaves memory, with w frames of the queue, promoted or lost.
LEMMA FileSlices ==
  ASSUME ATypeOK, NEW w \in 0 .. Len(queue)
  PROVE  LET k == Len(buf) + w
         IN  /\ k \in 0 .. Len(Volatile)
             /\ SubSeq(Volatile, 1, k) = buf \o SubSeq(queue, 1, w)
             /\ SubSeq(Volatile, k + 1, Len(Volatile)) = SubSeq(queue, w + 1, Len(queue))
<1> DEFINE k == Len(buf) + w
<1>1. k \in 0 .. Len(Volatile)
  BY MemoryType
<1>2. /\ SubSeq(Volatile, 1, k) = buf \o SubSeq(queue, 1, w)
      /\ SubSeq(Volatile, k + 1, Len(Volatile)) = SubSeq(queue, w + 1, Len(queue))
  BY MemoryType, Slices DEF Volatile
<1> QED BY <1>1, <1>2

LEMMA FilePromoted ==
  ASSUME ATypeOK, NEW w \in 0 .. Len(queue), UNCHANGED arrived,
         Volatile' = SubSeq(queue, w + 1, Len(queue)),
         Promote(buf \o SubSeq(queue, 1, w))
  PROVE  DropsWhole
<1> DEFINE k == Len(buf) + w
<1>1. /\ k \in 0 .. Len(Volatile)
      /\ SubSeq(Volatile, 1, k) = buf \o SubSeq(queue, 1, w)
      /\ SubSeq(Volatile, k + 1, Len(Volatile)) = SubSeq(queue, w + 1, Len(queue))
  BY FileSlices
<1>2. Drops(k, k)
  BY <1>1 DEF Drops
<1> QED BY <1>1, <1>2 DEF DropsWhole

LEMMA DropsFile ==
  ASSUME ATypeOK, NEW w \in 0 .. Len(queue), UNCHANGED arrived,
         Volatile' = SubSeq(queue, w + 1, Len(queue)),
         \/ Promote(buf \o SubSeq(queue, 1, w))
         \/ UNCHANGED <<pending, made>>
  PROVE  DropsSome
<1> DEFINE k == Len(buf) + w
<1>1. CASE Promote(buf \o SubSeq(queue, 1, w))
  BY <1>1, FilePromoted, WholeDrops
<1>2. CASE UNCHANGED <<pending, made>>
  <2>1. /\ k \in 0 .. Len(Volatile)
        /\ SubSeq(Volatile, k + 1, Len(Volatile)) = SubSeq(queue, w + 1, Len(queue))
    BY FileSlices
  <2>2. SubSeq(Volatile, 1, 0) = <<>>
    BY SubSeqEmpty
  <2>3. Drops(k, 0)
    BY <1>2, <2>1, <2>2 DEF Drops, Promote
  <2>4. 0 \in 0 .. k
    BY MemoryType
  <2> HIDE DEF k
  <2> QED BY <2>1, <2>3, <2>4 DEF DropsSome
<1> QED BY <1>1, <1>2

\* The end of the writer's loop: the file b is promoted, or kept.
LEMMA LoopEndDrops ==
  ASSUME ATypeOK, NEW w \in 0 .. Len(queue), UNCHANGED arrived,
         LoopEnd(buf \o SubSeq(queue, 1, w)), queue' = SubSeq(queue, w + 1, Len(queue)),
         (buf \o SubSeq(queue, 1, w)) \o queue' = Volatile
  PROVE  DropsWhole
<1> DEFINE b == buf \o SubSeq(queue, 1, w)
<1>1. CASE Promote(b) /\ buf' = <<>>
  <2>1. queue' \in Seq(Frames)
    BY MemoryType
  <2>2. Volatile' = queue'
    BY <1>1, <2>1, ConcatEmptySeq DEF Volatile
  <2> QED BY <1>1, <2>2, FilePromoted
<1>2. CASE buf' = b /\ UNCHANGED <<pending, made>>
  <2>1. Volatile' = Volatile
    BY <1>2 DEF Volatile
  <2> QED BY <1>2, <2>1, DropsNone
<1> QED BY <1>1, <1>2 DEF LoopEnd

\* The writer's step is one of these.
LEMMA WriterDrops == ASSUME ATypeOK, WriterStep PROVE DropsWhole
<1>1. CASE WriterStart
  BY <1>1, DropsNone DEF WriterStart, Volatile
<1>2. CASE Write
  <2>1. queue # <<>> /\ Len(queue) \in Nat \ {0}
    BY <1>2, MemoryType, EmptySeq DEF Write
  <2>2. /\ Append(buf, Head(queue)) = buf \o SubSeq(queue, 1, 1)
        /\ Tail(queue) = SubSeq(queue, 1 + 1, Len(queue))
        /\ Append(buf, Head(queue)) \o Tail(queue) = Volatile
    BY <2>1, MemoryType, MoveHead DEF Volatile
  <2>3. LoopEnd(buf \o SubSeq(queue, 1, 1))
    <3>1. LoopEnd(Append(buf, Head(queue)))
      BY <1>2 DEF Write
    <3> HIDE DEF Volatile
    <3> QED BY <2>2, <3>1 DEF LoopEnd, Promote
  <2>5. /\ 1 \in 0 .. Len(queue)
        /\ queue' = SubSeq(queue, 1 + 1, Len(queue)) /\ UNCHANGED arrived
    BY <1>2, <2>1, <2>2 DEF Write
  <2>4. (buf \o SubSeq(queue, 1, 1)) \o queue' = Volatile
    BY <2>2, <2>5
  <2> QED BY <2>3, <2>4, <2>5, LoopEndDrops
<1>3. CASE GetTimeout
  <2>1. queue = <<>> /\ queue' = <<>> /\ Len(queue) = 0 /\ LoopEnd(buf)
    BY <1>3 DEF GetTimeout
  <2>2. SubSeq(queue, 1, 0) = <<>> /\ SubSeq(queue, 0 + 1, Len(queue)) = <<>>
    BY <2>1, SubSeqEmpty
  <2>3. buf \o SubSeq(queue, 1, 0) = buf /\ (buf \o SubSeq(queue, 1, 0)) \o queue' = Volatile
    BY <2>1, <2>2, MemoryType, ConcatEmptySeq DEF Volatile
  <2>4. /\ 0 \in 0 .. Len(queue)
        /\ LoopEnd(buf \o SubSeq(queue, 1, 0))
        /\ queue' = SubSeq(queue, 0 + 1, Len(queue)) /\ UNCHANGED arrived
    BY <1>3, <2>1, <2>2, <2>3 DEF GetTimeout, LoopEnd, Promote
  <2> QED BY <2>3, <2>4, LoopEndDrops
<1> QED BY <1>1, <1>2, <1>3 DEF WriterStep

\* A cancelled writer promotes its file.
LEMMA CancelDrops == ASSUME ATypeOK, CancelWriter PROVE DropsWhole
<1>1. /\ SubSeq(queue, 1, 0) = <<>> /\ SubSeq(queue, 0 + 1, Len(queue)) = queue
      /\ buf \o SubSeq(queue, 1, 0) = buf
  BY MemoryType, SubSeqEmpty, SubSeqFull, ConcatEmptySeq
<1>2. Volatile' = queue
  BY MemoryType, ConcatEmptySeq DEF CancelWriter, Volatile
<1>3. Promote(buf)
  BY DEF CancelWriter, ATypeOK, Promote
<1>4. 0 \in 0 .. Len(queue)
  BY MemoryType
<1> QED BY <1>1, <1>2, <1>3, <1>4, FilePromoted DEF CancelWriter

\* An error that ends the writer takes the file and at most one frame behind it.
LEMMA WriteFaultDrops == ASSUME ATypeOK, WriteFault, UNCHANGED arrived PROVE DropsSome
<1>1. PICK v \in 0 .. 1 :
        /\ v =< Len(queue)
        /\ \/ Promote(buf \o SubSeq(queue, 1, v))
           \/ UNCHANGED <<pending, made>>
  BY DEF WriteFault
<1>2. /\ queue' = SubSeq(queue, 2, Len(queue)) /\ buf' = <<>> /\ arrived' = arrived
      /\ queue' \in Seq(Frames)
  BY MemoryType DEF WriteFault
<1>3. Volatile' = SubSeq(queue, 2, Len(queue))
  BY <1>2, ConcatEmptySeq DEF Volatile
<1>4. CASE Len(queue) = 0
  <2>1. v = 0 /\ SubSeq(queue, 2, Len(queue)) = SubSeq(queue, v + 1, Len(queue))
    BY <1>1, <1>4, SubSeqEmpty
  <2> QED BY <1>1, <1>2, <1>3, <2>1, DropsFile
<1>5. CASE Len(queue) # 0
  <2>1. 1 \in 0 .. Len(queue)
    BY <1>5, MemoryType
  <2>2. CASE v = 1
    BY <1>1, <1>2, <1>3, <2>1, <2>2, DropsFile
  <2>3. CASE v = 0 /\ UNCHANGED <<pending, made>>
    BY <1>2, <1>3, <2>1, <2>3, DropsFile
  <2>4. CASE v = 0 /\ Promote(buf \o SubSeq(queue, 1, v))
    <3> DEFINE k == Len(buf) + 1
               n == Len(buf)
    <3>1. k \in 0 .. Len(Volatile) /\ n \in 0 .. k
      BY <2>1, MemoryType
    <3>2. /\ SubSeq(Volatile, 1, Len(buf) + 0) = buf \o SubSeq(queue, 1, 0)
          /\ SubSeq(Volatile, Len(buf) + 1 + 1, Len(Volatile)) = SubSeq(queue, 1 + 1, Len(queue))
      BY <2>1, MemoryType, Slices DEF Volatile
    <3>3. SubSeq(Volatile, 1, n) = buf \o SubSeq(queue, 1, v)
      BY <2>4, <3>2, MemoryType
    <3>4. SubSeq(Volatile, k + 1, Len(Volatile)) = SubSeq(queue, 2, Len(queue))
      BY <3>2
    <3>5. Drops(k, n)
      BY <1>2, <1>3, <2>4, <3>3, <3>4 DEF Drops
    <3> HIDE DEF k, n
    <3> QED BY <3>1, <3>5 DEF DropsSome
  <2> QED BY <1>1, <2>2, <2>3, <2>4
<1> QED BY <1>4, <1>5, MemoryType

LEMMA FaultDrops == ASSUME ATypeOK, DiskFault PROVE DropsSome
<1>1. CASE OpenFault
  BY <1>1, DropsNone, WholeDrops DEF OpenFault, DiskFault, Volatile
<1>2. CASE WriteFault
  BY <1>2, WriteFaultDrops DEF DiskFault
<1> QED BY <1>1, <1>2 DEF DiskFault


\* A process that ends takes all of memory with it.
LEMMA LossDrops ==
  ASSUME ATypeOK, UNCHANGED <<arrived, pending, made>>, Volatile' = <<>>
  PROVE  DropsSome
<1>1. /\ SubSeq(queue, Len(queue) + 1, Len(queue)) = <<>>
      /\ Len(queue) \in 0 .. Len(queue)
  BY MemoryType, SubSeqEmpty
<1> QED BY <1>1, DropsFile
-----------------------------------------------------------------------------
(***************************************************************************)
(* The order of the frames.                                                *)
(***************************************************************************)

\* A frame that arrives is newer than all others.
LEMMA ArrivesKeeps ==
  ASSUME ATypeOK, LogOrder, Known, Arrives
  PROVE  LogOrder' /\ Known'
<1> DEFINE n == Len(Volatile)
<1>1. /\ Volatile \in Seq(Frames) /\ n \in Nat /\ DOMAIN Volatile = 1 .. n
      /\ arrived \in Nat /\ arrived + 1 \in Frames /\ Frames \subseteq Nat
      /\ \A i \in 1 .. n : Volatile[i] \in Nat
  BY MemoryType, LenProperties, ElementOfSeq, ArchiverAssumption DEF ATypeOK, Arrives, Frames
<1>2. made' = made /\ arrived' = arrived + 1
  BY DEF Arrives
<1>3. \A f \in Frames : made[f] # NoFile =>
        made[f] \in Seq(Nat) /\ DOMAIN made[f] = 1 .. Len(made[f])
        /\ \A i \in DOMAIN made[f] : made[f][i] \in Nat
  BY DEF ATypeOK, Content
<1>4. CASE Volatile' = Volatile
  BY <1>1, <1>2, <1>3, <1>4 DEF LogOrder, Known
<1>5. CASE Volatile' = Append(Volatile, arrived + 1)
  <2> DEFINE m == Volatile'
  <2>1. /\ DOMAIN m = 1 .. n + 1 /\ m[n + 1] = arrived + 1
        /\ \A i \in 1 .. n : m[i] = Volatile[i]
    BY <1>1, <1>5, AppendProperties, LenProperties
  <2>2. \A i \in 1 .. n : Volatile[i] < arrived + 1
    BY <1>1 DEF Known
  <2>3. \A f \in Frames : made[f] # NoFile => \A i \in DOMAIN made[f] : made[f][i] < arrived + 1
    BY <1>1, <1>3 DEF Known
  <2> HIDE DEF m, n
  <2>4. \A i, j \in DOMAIN m : i < j => m[i] < m[j]
    BY <1>1, <2>1, <2>2 DEF LogOrder
  <2>5. \A f \in Frames : made[f] # NoFile =>
          \A i \in DOMAIN made[f], j \in DOMAIN m : made[f][i] < m[j]
    <3> SUFFICES ASSUME NEW f \in Frames, made[f] # NoFile,
                        NEW i \in DOMAIN made[f], NEW j \in DOMAIN m
                 PROVE  made[f][i] < m[j]
      OBVIOUS
    <3>1. CASE j = n + 1
      BY <2>1, <2>3, <3>1
    <3>2. CASE j \in 1 .. n
      BY <1>1, <2>1, <3>2 DEF LogOrder
    <3> QED BY <1>1, <2>1, <3>1, <3>2
  <2>6. \A j \in DOMAIN m : m[j] =< arrived + 1
    BY <1>1, <2>1, <2>2
  <2>7. Known'
    <3>1. \A f \in Frames : made[f] # NoFile => \A i \in DOMAIN made[f] : made[f][i] =< arrived + 1
      BY <1>1, <1>3, <2>3
    <3> QED BY <1>2, <2>6, <3>1 DEF Known, m
  <2>8. LogOrder'
    BY <1>2, <2>4, <2>5 DEF LogOrder, m
  <2> QED BY <2>7, <2>8
<1> QED BY <1>4, <1>5 DEF Arrives

\* The first frame in memory has no file of its name yet.
LEMMA Fresh ==
  ASSUME ATypeOK, LogOrder, Len(Volatile) > 0
  PROVE  Volatile[1] \in Frames /\ made[Volatile[1]] = NoFile
<1>1. /\ Volatile \in Seq(Frames) /\ 1 \in DOMAIN Volatile /\ Volatile[1] \in Frames
      /\ Volatile[1] \in Nat
  <2>1. Volatile \in Seq(Frames) /\ Len(Volatile) \in Nat
    BY MemoryType, LenProperties
  <2>2. DOMAIN Volatile = 1 .. Len(Volatile) /\ 1 \in 1 .. Len(Volatile)
    BY <2>1, LenProperties
  <2>3. Volatile[1] \in Frames
    BY <2>1, <2>2, ElementOfSeq
  <2> QED BY <2>1, <2>2, <2>3 DEF Frames
<1>2. ASSUME made[Volatile[1]] # NoFile PROVE FALSE
  <2> DEFINE c == made[Volatile[1]]
  <2>1. c \in Seq(Nat) /\ c # <<>> /\ Head(c) = Volatile[1]
    BY <1>1, <1>2 DEF ATypeOK, Content, LogOrder
  <2>2. 1 \in DOMAIN c /\ c[1] = Volatile[1]
    BY <2>1
  <2>3. c[1] < Volatile[1]
    BY <1>1, <1>2, <2>2 DEF LogOrder
  <2> QED BY <1>1, <2>2, <2>3
<1> QED BY <1>1, <1>2

\* What leaves memory is older than what stays, and newer than what left before.
LEMMA DropsKeeps ==
  ASSUME ATypeOK, LogOrder, Known,
         NEW k \in 0 .. Len(Volatile), NEW n \in 0 .. k, Drops(k, n)
  PROVE  LogOrder' /\ Known'
<1> DEFINE l == Len(Volatile)
           b == SubSeq(Volatile, 1, n)
           m == Volatile'
<1>1. /\ Volatile \in Seq(Frames) /\ l \in Nat /\ DOMAIN Volatile = 1 .. l
      /\ k \in Nat /\ n \in Nat /\ k =< l /\ n =< k
      /\ \A i \in 1 .. l : Volatile[i] \in Frames
      /\ \A i \in 1 .. l : Volatile[i] \in Nat /\ Volatile[i] =< arrived
  <2>1. Volatile \in Seq(Frames) /\ l \in Nat /\ DOMAIN Volatile = 1 .. l
    BY MemoryType, LenProperties
  <2>2. \A i \in 1 .. l : Volatile[i] \in Frames
    BY <2>1, ElementOfSeq
  <2>3. \A i \in 1 .. l : Volatile[i] \in Nat /\ Volatile[i] =< arrived
    BY <2>1, <2>2 DEF Frames, Known
  <2> HIDE DEF l
  <2> QED BY <2>1, <2>2, <2>3
<1>2. /\ DOMAIN m = 1 .. l - k
      /\ \A i \in 1 .. l - k : m[i] = Volatile[k + i] /\ k + i \in 1 .. l
  <2>1. /\ m \in Seq(Frames) /\ Len(m) = IF k + 1 =< l THEN l - (k + 1) + 1 ELSE 0
        /\ \A i \in 1 .. l - (k + 1) + 1 : m[i] = Volatile[(k + 1) + i - 1]
    BY <1>1, SubSeqProperties DEF Drops
  <2>2. Len(m) = l - k /\ DOMAIN m = 1 .. l - k
    <3>1. DOMAIN m = 1 .. Len(m)
      BY <2>1, LenProperties
    <3> HIDE DEF m, l
    <3> QED BY <1>1, <2>1, <3>1
  <2>3. ASSUME NEW i \in 1 .. l - k PROVE m[i] = Volatile[k + i] /\ k + i \in 1 .. l
    <3>1. i \in 1 .. l - (k + 1) + 1 /\ (k + 1) + i - 1 = k + i /\ k + i \in 1 .. l
      BY <1>1
    <3> QED BY <2>1, <3>1
  <2> QED BY <2>2, <2>3
<1>3. /\ b \in Seq(Frames) /\ DOMAIN b = 1 .. n
      /\ \A i \in 1 .. n : b[i] = Volatile[i] /\ i \in 1 .. l
      /\ n > 0 => b # <<>> /\ Head(b) = Volatile[1]
      /\ n = 0 => b = <<>>
  <2>1. /\ b \in Seq(Frames) /\ Len(b) = IF 1 =< n THEN n - 1 + 1 ELSE 0
        /\ \A i \in 1 .. n - 1 + 1 : b[i] = Volatile[1 + i - 1]
    BY <1>1, SubSeqProperties
  <2>2. Len(b) = n /\ DOMAIN b = 1 .. n
    BY <1>1, <2>1, LenProperties
  <2>3. ASSUME NEW i \in 1 .. n PROVE b[i] = Volatile[i] /\ i \in 1 .. l
    <3>1. i \in 1 .. n - 1 + 1 /\ 1 + i - 1 = i /\ i \in 1 .. l
      BY <1>1
    <3> QED BY <2>1, <3>1
  <2>4. n > 0 => b # <<>> /\ Head(b) = Volatile[1]
    BY <1>1, <2>1, <2>2, <2>3
  <2>5. n = 0 => b = <<>>
    BY SubSeqEmpty
  <2> QED BY <2>1, <2>2, <2>3, <2>4, <2>5
<1>4. /\ \A f \in Frames : made[f] # NoFile =>
           made[f] \in Seq(Nat) /\ \A i \in DOMAIN made[f] : made[f][i] \in Nat
      /\ made \in [Frames -> Content \cup {NoFile}]
  BY DEF ATypeOK, Content
<1>5. \A i, j \in 1 .. l : i < j => Volatile[i] < Volatile[j]
  BY <1>1 DEF LogOrder
<1>6. arrived' = arrived
  BY DEF Drops
<1>7. /\ \A i, j \in DOMAIN m : i < j => m[i] < m[j]
      /\ \A j \in DOMAIN m : m[j] =< arrived
  <2> HIDE DEF m, l
  <2> QED BY <1>1, <1>2, <1>5
<1>8. \A f \in Frames : made[f] # NoFile =>
        \A i \in DOMAIN made[f], j \in DOMAIN m : made[f][i] < m[j]
  <2> HIDE DEF m, l
  <2> QED BY <1>1, <1>2 DEF LogOrder
<1>9. CASE n = 0
  <2>1. made' = made
    BY <1>3, <1>9 DEF Drops, Promote
  <2> QED BY <1>6, <1>7, <1>8, <2>1 DEF LogOrder, Known
<1>10. CASE n > 0
  <2> DEFINE f0 == Volatile[1]
  <2>1. f0 \in Frames /\ f0 \in Nat /\ made[f0] = NoFile
    BY <1>1, <1>10, Fresh
  <2>2. made' = [made EXCEPT ![f0] = b]
    BY <1>3, <1>10 DEF Drops, Promote
  <2> HIDE DEF m, l, b, f0
  <2>3. \A f \in Frames : made'[f] = IF f = f0 THEN b ELSE made[f]
    BY <1>4, <2>2
  <2>4. f0 = Volatile[1] /\ b[1] = f0 /\ 1 \in 1 .. n /\ 1 \in 1 .. l
    BY <1>1, <1>3, <1>10 DEF f0
  \* What is in the new file is not older than its name.
  <2>5. \A i \in 1 .. n : b[i] >= f0 /\ b[i] \in Nat /\ b[i] =< arrived
    BY <1>1, <1>3, <1>5, <2>1, <2>4
  \* The other files are older than the new one, in all of their frames.
  <2>6. \A g \in Frames : made[g] # NoFile =>
          /\ g \in Nat /\ g < f0 /\ \A i \in DOMAIN made[g] : made[g][i] < f0
    <3> SUFFICES ASSUME NEW g \in Frames, made[g] # NoFile
                 PROVE  g \in Nat /\ g < f0 /\ \A i \in DOMAIN made[g] : made[g][i] < f0
      OBVIOUS
    <3>1. \A i \in DOMAIN made[g] : made[g][i] < f0
      BY <1>1, <2>4 DEF LogOrder
    <3>2. made[g] \in Seq(Nat) /\ made[g] # <<>> /\ Head(made[g]) = g
      BY <1>4 DEF LogOrder
    <3>3. 1 \in DOMAIN made[g] /\ made[g][1] = g
      BY <3>2
    <3> QED BY <1>4, <3>1, <3>3
  <2>7. \A f \in Frames : made'[f] # NoFile =>
          /\ made'[f] # <<>> /\ Head(made'[f]) = f
          /\ \A i, j \in DOMAIN made'[f] : i < j => made'[f][i] < made'[f][j]
    <3> SUFFICES ASSUME NEW f \in Frames, made'[f] # NoFile
                 PROVE  /\ made'[f] # <<>> /\ Head(made'[f]) = f
                        /\ \A i, j \in DOMAIN made'[f] : i < j => made'[f][i] < made'[f][j]
      OBVIOUS
    <3>1. CASE f = f0
      <4>1. b # <<>> /\ Head(b) = f0
        BY <1>3, <1>10, <2>4
      <4>2. \A i, j \in DOMAIN b : i < j => b[i] < b[j]
        BY <1>1, <1>3, <1>5
      <4> QED BY <2>3, <3>1, <4>1, <4>2
    <3>2. CASE f # f0
      BY <2>3, <3>2 DEF LogOrder
    <3> QED BY <3>1, <3>2
  <2>8. \A f, g \in Frames : made'[f] # NoFile /\ f < g /\ made'[g] # NoFile =>
          \A i \in DOMAIN made'[f] : made'[f][i] < g
    <3> SUFFICES ASSUME NEW f \in Frames, NEW g \in Frames, made'[f] # NoFile, f < g,
                        made'[g] # NoFile, NEW i \in DOMAIN made'[f]
                 PROVE  made'[f][i] < g
      OBVIOUS
    <3>1. CASE f = f0
      <4>1. g # f0 /\ made[g] # NoFile
        BY <2>1, <2>3, <3>1
      <4>2. g < f0
        BY <2>6, <4>1
      <4> QED BY <2>1, <2>6, <3>1, <4>1, <4>2
    <3>2. CASE f # f0 /\ g = f0
      BY <2>3, <2>6, <3>2
    <3>3. CASE f # f0 /\ g # f0
      BY <2>3, <3>3 DEF LogOrder
    <3> QED BY <3>1, <3>2, <3>3
  <2>9. \A f \in Frames : made'[f] # NoFile =>
          \A i \in DOMAIN made'[f], j \in DOMAIN m : made'[f][i] < m[j]
    <3> SUFFICES ASSUME NEW f \in Frames, made'[f] # NoFile,
                        NEW i \in DOMAIN made'[f], NEW j \in DOMAIN m
                 PROVE  made'[f][i] < m[j]
      OBVIOUS
    <3>1. CASE f = f0
      <4>1. i \in 1 .. n /\ made'[f][i] = Volatile[i] /\ i \in 1 .. l
        BY <1>3, <2>3, <3>1
      <4>2. m[j] = Volatile[k + j] /\ k + j \in 1 .. l /\ i < k + j
        BY <1>1, <1>2, <4>1
      <4> QED BY <1>5, <4>1, <4>2
    <3>2. CASE f # f0
      BY <1>8, <2>3, <3>2
    <3> QED BY <3>1, <3>2
  <2>10. \A f \in Frames : made'[f] # NoFile => \A i \in DOMAIN made'[f] : made'[f][i] =< arrived
    <3> SUFFICES ASSUME NEW f \in Frames, made'[f] # NoFile, NEW i \in DOMAIN made'[f]
                 PROVE  made'[f][i] =< arrived
      OBVIOUS
    <3>1. CASE f = f0
      BY <1>3, <2>3, <2>5, <3>1
    <3>2. CASE f # f0
      BY <2>3, <3>2 DEF Known
    <3> QED BY <3>1, <3>2
  <2>11. LogOrder'
    BY <1>7, <2>7, <2>8, <2>9 DEF LogOrder, m
  <2>12. Known'
    BY <1>6, <1>7, <2>10 DEF Known, m
  <2> QED BY <2>11, <2>12
<1> QED BY <1>1, <1>9, <1>10
-----------------------------------------------------------------------------
(***************************************************************************)
(* The flusher among the other parts.                                      *)
(***************************************************************************)
LEMMA FlusherHere == FP!FlusherAssumption /\ FP!OneFlusher /\ Live \in FP!Flushers
BY ArchiverAssumption, PipelineAssumption
   DEF FP!FlusherAssumption, FP!OneFlusher, FP!Flushers, Frames, Content, FP!Content

\* Both instances of Flusher define the same.
LEMMA SameTypes ==
  /\ Flush!FTypeOK <=> FP!FTypeOK
  /\ Flush!FInit <=> FP!FInit
  /\ Flush!Idle = FP!Idle
  /\ \A f : Flush!Stored(f) <=> FP!Stored(f)
BY DEF Flush!FTypeOK, FP!FTypeOK, Flush!FInit, FP!FInit, Flush!Idle, FP!Idle,
       Flush!Stored, FP!Stored, Flush!Days, FP!Days, Flush!Pass, FP!Pass,
       Flush!Working, FP!Working, Flush!Content, FP!Content, Flush!Flushers, FP!Flushers

LEMMA SameSteps ==
  /\ Flush!Wake(Live) <=> FP!Wake(Live)
  /\ Flush!Stop(Live) <=> FP!Stop(Live)
  /\ Flush!Restart(Live) <=> FP!Restart(Live)
  /\ Flush!Crash(Live) <=> FP!Crash(Live)
  /\ Flush!NextDay <=> FP!NextDay
<1>1. Flush!Wake(Live) <=> FP!Wake(Live)
  BY DEF Flush!Wake, FP!Wake
<1>2. Flush!Stop(Live) <=> FP!Stop(Live)
  BY DEF Flush!Stop, FP!Stop
<1>3. Flush!Restart(Live) <=> FP!Restart(Live)
  BY DEF Flush!Restart, FP!Restart, Flush!Idle, FP!Idle
<1>4. Flush!Crash(Live) <=> FP!Crash(Live)
  BY <1>3 DEF Flush!Crash, FP!Crash
<1>5. Flush!NextDay <=> FP!NextDay
  BY DEF Flush!NextDay, FP!NextDay
<1> QED BY <1>1, <1>2, <1>3, <1>4, <1>5

LEMMA SamePass ==
  /\ Flush!ListPending(Live) <=> FP!ListPending(Live)
  /\ Flush!Finish(Live) <=> FP!Finish(Live)
  /\ Flush!OpenSource(Live) <=> FP!OpenSource(Live)
  /\ Flush!FinishCopy(Live) <=> FP!FinishCopy(Live)
  /\ Flush!Upload(Live) <=> FP!Upload(Live)
  /\ Flush!RemoveGz(Live) <=> FP!RemoveGz(Live)
  /\ Flush!RemoveSrc(Live) <=> FP!RemoveSrc(Live)
  /\ Flush!Raise(Live) <=> FP!Raise(Live)
<1>1. Flush!EndPass(Live) <=> FP!EndPass(Live)
  BY DEF Flush!EndPass, FP!EndPass, Flush!Idle, FP!Idle
<1>2. \A p : Flush!Current(p) = FP!Current(p)
  BY DEF Flush!Current, FP!Current, Flush!Min, FP!Min
<1>3. Flush!ListPending(Live) <=> FP!ListPending(Live)
  BY <1>1 DEF Flush!ListPending, FP!ListPending
<1>4. Flush!Finish(Live) <=> FP!Finish(Live)
  BY <1>1 DEF Flush!Finish, FP!Finish
<1>5. Flush!OpenSource(Live) <=> FP!OpenSource(Live)
  BY <1>2 DEF Flush!OpenSource, FP!OpenSource
<1>6. Flush!FinishCopy(Live) <=> FP!FinishCopy(Live)
  BY <1>2 DEF Flush!FinishCopy, FP!FinishCopy
<1>7. Flush!Upload(Live) <=> FP!Upload(Live)
  BY <1>2 DEF Flush!Upload, FP!Upload
<1>8. Flush!RemoveGz(Live) <=> FP!RemoveGz(Live)
  BY <1>2 DEF Flush!RemoveGz, FP!RemoveGz, Flush!Flushers, FP!Flushers
<1>9. Flush!RemoveSrc(Live) <=> FP!RemoveSrc(Live)
  BY <1>2 DEF Flush!RemoveSrc, FP!RemoveSrc
<1>10. Flush!Raise(Live) <=> FP!Raise(Live)
  BY <1>1, <1>2 DEF Flush!Raise, FP!Raise, Flush!Working, FP!Working
<1> QED BY <1>3, <1>4, <1>5, <1>6, <1>7, <1>8, <1>9, <1>10

\* The flusher's own variables, but for the coroutine.
Untouched == UNCHANGED <<gz, s3, day, fstop, pass, crashes>>

\* A coroutine goes on as it is, or is cancelled.
TaskEnds ==
  /\ task' \in [FP!Flushers -> {"once", "waiting", "passing", "draining", "done"}]
  /\ \A p \in FP!Flushers : task'[p] \in {task[p], "done"}

\* The flusher's invariant when nothing appears in pending_dir.
LEMMA QuietHere ==
  ASSUME FP!FInv, Untouched, TaskEnds, UNCHANGED <<pending, made>>
  PROVE  FP!FInv'
<1>1. FP!FTypeOK' /\ FP!PassFresh'
  BY DEF FP!FInv, FP!FTypeOK, FP!PassFresh, Untouched, TaskEnds
<1> QED BY <1>1, FlusherHere, FP!QuietStep DEF Untouched

\* The flusher's invariant when a file appears there, or frames are lost.
LEMMA DropsFInv ==
  ASSUME FP!FInv, ATypeOK, LogOrder, DropsSome, Untouched, TaskEnds
  PROVE  FP!FInv'
<1>1. PICK k \in 0 .. Len(Volatile) : \E n \in 0 .. k : Drops(k, n)
  BY DEF DropsSome
<1>5. PICK n \in 0 .. k : Drops(k, n)
  BY <1>1
<1> DEFINE b == SubSeq(Volatile, 1, n)
<1>2. Len(Volatile) \in Nat /\ k \in Nat /\ n \in Nat /\ n =< Len(Volatile)
  BY MemoryType
<1>3. CASE n = 0
  <2>1. b = <<>>
    BY <1>3, SubSeqEmpty
  <2> QED BY <1>5, <2>1, QuietHere DEF Drops, Promote
<1>4. CASE n > 0
  <2>1. /\ b \in Seq(Frames) /\ Len(b) = n
        /\ Head(b) = Volatile[1] /\ Volatile \in Seq(Frames)
    <3>1. Volatile \in Seq(Frames)
      BY MemoryType
    <3>2. 1 \in 1 .. Len(Volatile) /\ n \in 1 .. Len(Volatile)
      BY <1>2, <1>4
    <3>3. \A i \in 1 .. n : Volatile[i] \in Frames
      BY <1>2, <3>1, ElementOfSeq
    <3>4. b \in Seq(Frames) /\ Len(b) = IF 1 =< n THEN n - 1 + 1 ELSE 0
      BY <1>2, <3>3, SubSeqProperties
    <3>5. Head(b) = Volatile[1]
      BY <3>1, <3>2, HeadTailOfSubSeq
    <3> QED BY <1>2, <1>4, <3>1, <3>4, <3>5
  <2>2. b \in FP!Content
    BY <2>1, SeqMonotonic DEF FP!Content, Frames
  <2>3. Volatile[1] \in Frames /\ made[Volatile[1]] = NoFile
    BY <1>2, <1>4, Fresh
  <2>4. b # <<>>
    BY <1>4, <2>1
  <2>5. /\ pending' = [pending EXCEPT ![Volatile[1]] = b]
        /\ made' = [made EXCEPT ![Volatile[1]] = b]
    BY <1>5, <2>1, <2>4 DEF Drops, Promote
  <2> HIDE DEF b
  <2> QED BY <2>2, <2>3, <2>5, FlusherHere, FP!AppearInv DEF Untouched, TaskEnds
<1> QED BY <1>2, <1>3, <1>4

\* A frame that is recorded arrives.
LEMMA RecordArrives == ASSUME ATypeOK, Record PROVE Arrives
<1>1. arrived + 1 \in Frames
  BY ArchiverAssumption DEF Record, ATypeOK, Frames
<1>2. buf \o Append(queue, arrived + 1) = Append(buf \o queue, arrived + 1)
  <2>1. /\ <<arrived + 1>> \in Seq(Frames)
        /\ Append(queue, arrived + 1) = queue \o <<arrived + 1>>
        /\ Append(buf \o queue, arrived + 1) = (buf \o queue) \o <<arrived + 1>>
    BY <1>1, MemoryType, AppendIsConcat DEF Volatile
  <2> QED BY <2>1, MemoryType, ConcatAssociative
<1> QED BY <1>2 DEF Record, Arrives, Volatile

\* What a step does to memory, the files and the flusher, by who takes it.
LEMMA StepKinds ==
  ASSUME PInv, PNext
  PROVE  /\ Arrives \/ DropsSome \/ FlushFile \/ FlushError
         /\ ~ (FlushFile \/ FlushError) => UNCHANGED s3
         /\ FP!FInv'
<1>0. /\ ATypeOK /\ LogOrder /\ FP!FInv /\ FP!FTypeOK /\ task \in [{Live} -> {"once", "waiting", "passing", "draining", "done"}]
      /\ FP!Flushers = {Live}
  BY DEF PInv, PTypeOK, FP!FInv, FP!FTypeOK, FP!Flushers
<1>1. CASE Capture
  <2>1. /\ Untouched /\ UNCHANGED <<task, pending, made>> /\ Record
    BY <1>1 DEF Capture, Record, fvars, Untouched
  <2>2. Arrives
    BY <1>0, <2>1, RecordArrives
  <2>3. TaskEnds
    BY <1>0, <2>1 DEF TaskEnds
  <2>4. ~ (FlushFile \/ FlushError) => UNCHANGED s3
    BY <2>1 DEF Untouched
  <2> QED BY <1>0, <2>1, <2>2, <2>3, <2>4, QuietHere
<1>2. CASE Archive \/ Timer \/ BreakDisk \/ Exit
  <2>1. Untouched /\ UNCHANGED task
    BY <1>2 DEF Archive, Timer, BreakDisk, Exit, fvars, Untouched, WriterStep, WriterStart,
               Write, GetTimeout, Age, DiskFault, avars
  <2>2. DropsSome
    <3>1. CASE Archive
      BY <1>0, <3>1, WriterDrops, WholeDrops DEF Archive
    <3>2. CASE Timer \/ Exit
      BY <1>0, <3>2, DropsNone, WholeDrops DEF Timer, Age, Exit, avars, Volatile
    <3>3. CASE BreakDisk
      BY <1>0, <3>3, FaultDrops DEF BreakDisk
    <3> QED BY <1>2, <3>1, <3>2, <3>3
  <2>3. TaskEnds
    BY <1>0, <2>1 DEF TaskEnds
  <2>4. FP!FInv'
    BY <1>0, <2>1, <2>2, <2>3, DropsFInv
  <2> QED BY <2>1, <2>2, <2>4 DEF Untouched
<1>3. CASE FlushWake
  <2>1. FP!FInv'
    BY <1>0, <1>3, FlusherHere, SameSteps, FP!WakeInv DEF FlushWake
  <2>2. UNCHANGED <<avars, s3>>
    BY <1>3 DEF FlushWake, Flush!Wake, avars
  <2>3. DropsSome
    BY <1>0, <2>2, DropsNone, WholeDrops DEF avars, Volatile
  <2> QED BY <2>1, <2>2, <2>3
<1>4. CASE FlushFile
  <2>1. FP!FlushStep(Live)
    BY <1>4, SamePass DEF FlushFile, Flush!FlushStep, FP!FlushStep
  <2>2. FP!FInv'
    BY <1>0, <2>1, FlusherHere, FP!FlushStepInv
  <2> QED BY <1>4, <2>2
<1>5. CASE FlushError
  <2>1. FP!FInv'
    BY <1>0, <1>5, FlusherHere, SamePass, FP!RaiseInv DEF FlushError
  <2> QED BY <1>5, <2>1
<1>6. CASE Midnight
  <2>1. FP!FInv'
    BY <1>0, <1>6, FlusherHere, SameSteps, FP!NextDayInv DEF Midnight
  <2>2. UNCHANGED <<avars, s3>>
    BY <1>6 DEF Midnight, Flush!NextDay
  <2>3. DropsSome
    BY <1>0, <2>2, DropsNone, WholeDrops DEF avars, Volatile
  <2> QED BY <2>1, <2>2, <2>3
<1>7. CASE Shutdown
  <2>1. FP!FInv'
    BY <1>0, <1>7, FlusherHere, SameSteps, FP!StopInv DEF Shutdown
  <2>2. UNCHANGED <<arrived, buf, queue, pending, made, s3>>
    BY <1>7 DEF Shutdown, Flush!Stop
  <2>3. DropsSome
    BY <1>0, <2>2, DropsNone, WholeDrops DEF Volatile
  <2> QED BY <2>1, <2>2, <2>3
<1>8. CASE CancelTasks
  <2>1. DropsSome
    BY <1>0, <1>8, CancelDrops, WholeDrops DEF CancelTasks
  <2>2. Untouched /\ TaskEnds
    BY <1>0, <1>8 DEF CancelTasks, Untouched, TaskEnds
  <2>3. FP!FInv'
    BY <1>0, <2>1, <2>2, DropsFInv
  <2> QED BY <2>1, <2>2, <2>3 DEF Untouched
<1>9. CASE Kill
  <2>1. FP!FInv'
    BY <1>0, <1>9, FlusherHere, SameSteps, FP!CrashInv DEF Kill
  <2>2. UNCHANGED <<arrived, pending, made, s3>> /\ buf' = <<>> /\ queue' = <<>>
    BY <1>9 DEF Kill, Flush!Crash, Flush!Restart
  <2>3. Volatile' = <<>>
    BY <2>2 DEF Volatile
  <2> QED BY <1>0, <2>1, <2>2, <2>3, LossDrops
<1>10. CASE Start
  <2>1. FP!FInv'
    <3>1. FP!Restart(Live) /\ crashes' \in 0 .. MaxCrashes
      BY <1>0, <1>10, SameSteps DEF Start, FP!FTypeOK
    <3> QED BY <1>0, <3>1, FlusherHere, FP!RestartInv
  <2>2. buf = <<>>
    BY <1>10 DEF Start, Alive, PInv, PTypeOK, KilledWriter, ATypeOK
  <2>3. UNCHANGED <<arrived, pending, made, s3>> /\ buf' = <<>> /\ queue' = <<>>
    BY <1>10, <2>2 DEF Start, Flush!Restart
  <2>4. Volatile' = <<>>
    BY <2>3 DEF Volatile
  <2> QED BY <1>0, <2>1, <2>3, <2>4, LossDrops
<1> QED BY <1>1, <1>2, <1>3, <1>4, <1>5, <1>6, <1>7, <1>8, <1>9, <1>10 DEF PNext
-----------------------------------------------------------------------------
(***************************************************************************)
(* The invariant of the composition.                                       *)
(***************************************************************************)

\* What the archiver holds, but for the files.
HoldsOK ==
  /\ arrived \in 0 .. MaxFrames
  /\ queue \in Seq(Frames) /\ Len(queue) =< QueueMax
  /\ writer \in {"new", "running", "done", "dead"}
  /\ astop \in BOOLEAN /\ aged \in BOOLEAN
  /\ buf \in Seq(Frames)
  /\ buf # <<>> => writer = "running"
  /\ faults \in 0 .. MaxFaults

LEMMA RecordHolds == ASSUME ATypeOK, Record PROVE HoldsOK'
<1>1. arrived + 1 \in Frames /\ arrived' \in 0 .. MaxFrames
  BY ArchiverAssumption DEF ATypeOK, Record, Frames
<1>2. queue' \in Seq(Frames) /\ Len(queue') =< QueueMax
  <2>1. CASE Len(queue) < QueueMax
    <3>1. /\ queue' = Append(queue, arrived + 1)
          /\ queue \in Seq(Frames) /\ Len(queue) \in Nat
      BY <2>1, MemoryType DEF Record
    <3>2. Append(queue, arrived + 1) \in Seq(Frames) /\ Len(Append(queue, arrived + 1)) = Len(queue) + 1
      BY <1>1, <3>1, AppendProperties
    <3> QED BY <2>1, <3>1, <3>2, ArchiverAssumption
  <2>2. CASE ~ (Len(queue) < QueueMax)
    BY <2>2 DEF ATypeOK, Record
  <2> QED BY <2>1, <2>2
<1> QED BY <1>1, <1>2 DEF ATypeOK, Record, HoldsOK

LEMMA LoopEndHolds ==
  ASSUME ATypeOK, writer = "running", NEW b \in Seq(Frames), LoopEnd(b), UNCHANGED astop
  PROVE  /\ buf' \in Seq(Frames) /\ (buf' # <<>> => writer' = "running")
         /\ aged' \in BOOLEAN /\ writer' \in {"done", "running"}
<1>1. CASE buf' = <<>> /\ aged' = FALSE
  BY <1>1, EmptySeq DEF LoopEnd
<1>2. CASE ~ astop /\ buf' = b /\ aged' = aged
  BY <1>2 DEF LoopEnd, ATypeOK
<1> QED BY <1>1, <1>2 DEF LoopEnd

LEMMA WriterHolds == ASSUME ATypeOK, WriterStep PROVE HoldsOK'
<1>1. CASE WriterStart
  BY <1>1 DEF ATypeOK, WriterStart, HoldsOK
<1>2. CASE Write
  <2>1. /\ queue \in Seq(Frames) /\ queue # <<>> /\ buf \in Seq(Frames)
        /\ writer = "running"
    BY <1>2 DEF ATypeOK, Write
  <2>2. /\ Head(queue) \in Frames
        /\ Tail(queue) \in Seq(Frames) /\ Len(Tail(queue)) = Len(queue) - 1
    BY <2>1, HeadTailProperties
  <2>3. Append(buf, Head(queue)) \in Seq(Frames)
    BY <2>1, <2>2, AppendProperties
  <2>4. /\ buf' \in Seq(Frames) /\ (buf' # <<>> => writer' = "running")
        /\ aged' \in BOOLEAN /\ writer' \in {"done", "running"}
    BY <1>2, <2>1, <2>3, LoopEndHolds DEF Write
  <2>5. Len(queue) - 1 =< QueueMax
    BY MemoryType, ArchiverAssumption DEF ATypeOK
  <2> QED BY <1>2, <2>2, <2>4, <2>5 DEF ATypeOK, Write, HoldsOK
<1>3. CASE GetTimeout
  <2>1. /\ buf' \in Seq(Frames) /\ (buf' # <<>> => writer' = "running")
        /\ aged' \in BOOLEAN /\ writer' \in {"done", "running"}
    BY <1>3, LoopEndHolds DEF GetTimeout, ATypeOK
  <2> QED BY <1>3, <2>1 DEF ATypeOK, GetTimeout, HoldsOK
<1> QED BY <1>1, <1>2, <1>3 DEF WriterStep

\* A slice of the queue, and the file with the front of the queue.
LEMMA FaultHolds == ASSUME ATypeOK, DiskFault PROVE HoldsOK'
<1>1. /\ queue \in Seq(Frames) /\ Len(queue) \in Nat /\ buf \in Seq(Frames)
      /\ \A i \in 1 .. Len(queue) : queue[i] \in Frames
  BY MemoryType, ElementOfSeq
<1>2. queue' \in Seq(Frames) /\ Len(queue') =< QueueMax
  <2>1. \A i \in 2 .. Len(queue) : queue[i] \in Frames
    BY <1>1
  <2>2. /\ SubSeq(queue, 2, Len(queue)) \in Seq(Frames)
        /\ Len(SubSeq(queue, 2, Len(queue))) =
             IF 2 =< Len(queue) THEN Len(queue) - 2 + 1 ELSE 0
    BY <1>1, <2>1, SubSeqProperties
  <2>3. Len(queue) =< QueueMax /\ QueueMax \in Nat
    BY ArchiverAssumption DEF ATypeOK
  <2>4. queue' \in {queue, SubSeq(queue, 2, Len(queue))}
    BY DEF DiskFault, OpenFault, WriteFault
  <2>5. CASE queue' = queue
    BY <2>5 DEF ATypeOK
  <2>6. CASE queue' = SubSeq(queue, 2, Len(queue))
    BY <1>1, <2>2, <2>3, <2>6 DEF ATypeOK
  <2> QED BY <2>4, <2>5, <2>6
<1>3. faults' \in 0 .. MaxFaults
  BY ArchiverAssumption DEF ATypeOK, DiskFault
<1> QED BY <1>2, <1>3, EmptySeq DEF ATypeOK, DiskFault, OpenFault, WriteFault, HoldsOK

LEMMA StepHolds == ASSUME PInv, PNext PROVE HoldsOK'
<1>0. ATypeOK
  BY DEF PInv, PTypeOK
<1>1. CASE Capture
  BY <1>0, <1>1, RecordHolds DEF Capture
<1>2. CASE Archive
  BY <1>0, <1>2, WriterHolds DEF Archive
<1>3. CASE BreakDisk
  BY <1>0, <1>3, FaultHolds DEF BreakDisk
<1>4. CASE Timer
  BY <1>0, <1>4 DEF ATypeOK, Timer, Age, HoldsOK
<1>5. CASE FlushWake \/ FlushFile \/ FlushError \/ Midnight \/ Exit
  BY <1>0, <1>5 DEF ATypeOK, FlushWake, FlushFile, FlushError, Midnight, Exit, avars, HoldsOK
<1>6. CASE Shutdown
  BY <1>0, <1>6 DEF ATypeOK, Shutdown, HoldsOK
<1>7. CASE CancelTasks
  BY <1>0, <1>7, EmptySeq DEF ATypeOK, CancelTasks, CancelWriter, HoldsOK
<1>8. CASE Kill
  <2>1. Range(buf) \subseteq Frames
    BY <1>0, ElementOfSeq, LenProperties DEF Range, ATypeOK
  <2>2. Len(<<>>) =< QueueMax
    BY EmptySeq, ArchiverAssumption
  <2> QED BY <1>0, <1>8, <2>1, <2>2, EmptySeq DEF ATypeOK, Kill, HoldsOK
<1>9. CASE Start
  <2>1. Len(<<>>) =< QueueMax
    BY EmptySeq, ArchiverAssumption
  <2>2. buf = <<>>
    BY <1>9 DEF Start, Alive, PInv, PTypeOK, KilledWriter, ATypeOK
  <2> QED BY <1>0, <1>9, <2>1, <2>2, EmptySeq DEF ATypeOK, Start, HoldsOK
<1> QED BY <1>1, <1>2, <1>3, <1>4, <1>5, <1>6, <1>7, <1>8, <1>9 DEF PNext

\* A step of the worker thread: its state when it is idle, and the coroutine
\* of a pass that ended.
LEMMA PassSteps ==
  ASSUME PInv, FlushFile \/ FlushError
  PROVE  /\ IdlePass'
         /\ task[Live] = "done" => task'[Live] = "done"
         /\ UNCHANGED <<writer, phase, signals, heard, arrived, crashes, faults>>
         /\ Alive
<1>0. /\ pass \in [{Live} -> Flush!Pass]
      /\ task \in [{Live} -> {"once", "waiting", "passing", "draining", "done"}]
      /\ IdlePass
  BY DEF PInv, PTypeOK, Flush!FTypeOK, Flush!Flushers
<1>1. ASSUME Flush!EndPass(Live)
      PROVE  IdlePass' /\ (task[Live] = "done" => task'[Live] = "done")
  BY <1>0, <1>1 DEF Flush!EndPass, IdlePass, Flush!Idle
<1>2. ASSUME pass'[Live].pc # "idle", UNCHANGED task
      PROVE  IdlePass' /\ (task[Live] = "done" => task'[Live] = "done")
  BY <1>2 DEF IdlePass
<1>3. CASE FlushFile
  <2>1. CASE Flush!ListPending(Live) \/ Flush!Finish(Live)
    BY <1>0, <1>1, <1>2, <1>3, <2>1
       DEF FlushFile, Flush!ListPending, Flush!Finish, Flush!Pass, fvars
  <2>2. CASE Flush!OpenSource(Live) \/ Flush!FinishCopy(Live) \/ Flush!Upload(Live)
    <3>1. pass'[Live].pc \in {"copying", "upload", "rmgz"} /\ UNCHANGED <<task, crashes>>
      BY <1>0, <2>2 DEF Flush!OpenSource, Flush!FinishCopy, Flush!Upload, Flush!Pass
    <3> QED BY <1>2, <1>3, <3>1 DEF FlushFile
  <2>3. CASE Flush!RemoveGz(Live) \/ Flush!RemoveSrc(Live)
    <3>1. pass'[Live].pc \in {"rmsrc", "next"} /\ UNCHANGED <<task, crashes>>
      BY <1>0, <2>3 DEF Flush!RemoveGz, Flush!RemoveSrc, Flush!Pass, Flush!Flushers
    <3> QED BY <1>2, <1>3, <3>1 DEF FlushFile
  <2> QED BY <1>3, <2>1, <2>2, <2>3 DEF FlushFile, Flush!FlushStep
<1>4. CASE FlushError
  BY <1>1, <1>4 DEF FlushError, Flush!Raise, avars
<1> QED BY <1>3, <1>4

LEMMA StepInv == PInv /\ [PNext]_pvars => PInv'
<1> SUFFICES ASSUME PInv, [PNext]_pvars PROVE PInv'
  OBVIOUS
<1>1. CASE UNCHANGED pvars
  <2>1. FP!FInv'
    <3>1. Untouched /\ TaskEnds /\ UNCHANGED <<pending, made>>
      BY <1>1 DEF PInv, FP!FInv, FP!FTypeOK, pvars, avars, fvars, Untouched, TaskEnds
    <3> QED BY <3>1, QuietHere DEF PInv
  <2>2. PTypeOK'
    BY <1>1 DEF PInv, pvars, avars, fvars, PTypeOK, ATypeOK, Flush!FTypeOK
  <2>3. LogOrder' /\ Known'
    BY <1>1 DEF PInv, pvars, avars, LogOrder, Known, Volatile
  <2> QED BY <1>1, <2>1, <2>2, <2>3
          DEF PInv, pvars, avars, fvars, IdlePass, KilledWriter
<1>2. CASE PNext
  <2>0. /\ ATypeOK /\ LogOrder /\ Known /\ FP!FInv /\ FP!FTypeOK
        /\ IdlePass /\ KilledWriter
    BY DEF PInv, PTypeOK, FP!FInv
  <2>1. FP!FInv' /\ HoldsOK'
    BY <1>2, StepKinds, StepHolds
  <2>2. LogOrder' /\ Known'
    <3>1. CASE FlushFile \/ FlushError
      <4>1. UNCHANGED <<arrived, Volatile, made>>
        BY <3>1 DEF FlushFile, FlushError, avars, Volatile, Flush!FlushStep, Flush!ListPending,
                    Flush!Finish, Flush!OpenSource, Flush!FinishCopy, Flush!Upload,
                    Flush!RemoveGz, Flush!RemoveSrc
      <4> QED BY <2>0, <4>1 DEF LogOrder, Known
    <3>2. CASE Arrives
      BY <2>0, <3>2, ArrivesKeeps
    <3>3. CASE DropsSome
      BY <2>0, <3>3, DropsKeeps DEF DropsSome
    <3> QED BY <1>2, <3>1, <3>2, <3>3, StepKinds
  <2>3. ATypeOK' /\ Flush!FTypeOK'
    <3>1. FP!FTypeOK'
      BY <2>1 DEF FP!FInv
    <3>2. Flush!FTypeOK'
      BY <3>1 DEF Flush!FTypeOK, FP!FTypeOK, Flush!Days, FP!Days, Flush!Pass, FP!Pass,
         Flush!Working, FP!Working, Flush!Content, FP!Content, Flush!Flushers, FP!Flushers
    <3> QED BY <2>1, <3>1, <3>2 DEF HoldsOK, ATypeOK, FP!FTypeOK, Content, FP!Content
  <2>4. /\ phase' \in {"up", "stopping", "cancelled", "exited", "killed"}
        /\ signals' \in 0 .. MaxSignals /\ heard' \in 0 .. arrived'
        /\ (phase' \in {"cancelled", "exited"} => writer' # "running" /\ task'[Live] = "done")
        /\ (phase' \in {"exited", "killed"} => pass'[Live] = Flush!Idle)
        /\ IdlePass' /\ KilledWriter'
    <3> USE <2>0 DEF PInv, PTypeOK, KilledWriter
    <3>0. /\ task \in [{Live} -> {"once", "waiting", "passing", "draining", "done"}]
          /\ pass \in [{Live} -> Flush!Pass]
      BY DEF Flush!FTypeOK, Flush!Flushers
    <3>1. CASE Capture
      <4>1. arrived \in Nat /\ arrived' = arrived + 1 /\ heard' = heard
        BY <3>1 DEF Capture, Record, ATypeOK
      <4>2. heard' \in 0 .. arrived'
        BY <4>1
      <4> QED BY <3>1, <4>2 DEF Capture, Record, fvars, IdlePass
    <3>2. CASE Archive \/ Timer
      BY <3>2 DEF Archive, Timer, fvars, WriterStep, WriterStart, Write, GetTimeout, Age, IdlePass
    <3>3. CASE BreakDisk
      <4> QED BY <3>3 DEF BreakDisk, DiskFault, fvars, IdlePass
    <3>4. CASE FlushWake
      BY <3>0, <3>4 DEF FlushWake, Flush!Wake, avars, IdlePass, Flush!Pass
    <3>5. CASE FlushFile \/ FlushError
      BY <3>5, PassSteps DEF Alive
    <3>6. CASE Midnight
      BY <3>6 DEF Midnight, Flush!NextDay, avars, IdlePass
    <3>7. CASE Shutdown
      <4>1. signals' \in 0 .. MaxSignals /\ heard' \in 0 .. arrived'
        BY <3>7, PipelineAssumption DEF Shutdown, ATypeOK
      <4> QED BY <3>7, <4>1 DEF Shutdown, Flush!Stop, IdlePass
    <3>8. CASE CancelTasks
      BY <3>0, <3>8 DEF CancelTasks, CancelWriter, ATypeOK, IdlePass
    <3>9. CASE Exit
      BY <3>9 DEF Exit, avars, fvars, IdlePass
    <3>10. CASE Kill
      <4>1. crashes' # 0 /\ pass'[Live] = Flush!Idle /\ writer' = "new" /\ phase' = "killed"
        BY <3>0, <3>10 DEF Kill, Flush!Crash, Flush!Restart, FP!FTypeOK
      <4> QED BY <3>10, <4>1 DEF Kill, IdlePass
    <3>11. CASE Start
      <4>1. pass'[Live] = Flush!Idle
        BY <3>0, <3>11 DEF Start, Flush!Restart
      <4> QED BY <3>11, <4>1 DEF Start, IdlePass
    <3> QED BY <1>2, <3>1, <3>2, <3>3, <3>4, <3>5, <3>6, <3>7, <3>8, <3>9, <3>10, <3>11 DEF PNext
  <2> QED BY <2>1, <2>2, <2>3, <2>4 DEF PInv, PTypeOK, IdlePass, KilledWriter
<1> QED BY <1>1, <1>2

LEMMA PInitInv == PInit => PInv
<1> SUFFICES ASSUME PInit PROVE PInv
  OBVIOUS
<1>1. FP!FInv /\ Flush!FTypeOK
  <2>1. FP!FInv
    BY FlusherHere, SameTypes, FP!InitInv DEF PInit
  <2> QED BY <2>1, SameTypes DEF FP!FInv
<1>2. ATypeOK
  <2>1. Len(<<>>) =< QueueMax
    BY EmptySeq, ArchiverAssumption
  <2>2. /\ pending \in [Frames -> Content \cup {NoFile}]
        /\ made \in [Frames -> Content \cup {NoFile}]
    BY <1>1 DEF Flush!FTypeOK, Content, Flush!Content
  <2>3. /\ arrived \in 0 .. MaxFrames /\ faults \in 0 .. MaxFaults
        /\ queue \in Seq(Frames) /\ buf \in Seq(Frames) /\ Len(queue) =< QueueMax
    BY <2>1, EmptySeq, ArchiverAssumption DEF PInit, AInit
  <2> QED BY <2>2, <2>3 DEF PInit, AInit, ATypeOK
<1>3. Volatile = <<>>
  BY DEF PInit, AInit, Volatile
<1>4. LogOrder /\ Known
  <2>1. DOMAIN Volatile = {}
    BY <1>3, EmptySeq
  <2> QED BY <2>1 DEF PInit, AInit, LogOrder, Known
<1> QED BY <1>1, <1>2, <1>4, PipelineAssumption
        DEF PInit, AInit, Flush!FInit, Flush!Flushers, PInv, PTypeOK, IdlePass, KilledWriter

\* The inductive invariant of the whole pipeline.
THEOREM PipelineInvariant == PSpec => []PInv
<1> QED BY PInitInv, StepInv, PTL DEF PSpec

\* The archiver, the flusher and the process stay in their types, through any
\* number of frames, files, shutdowns, kills and restarts.
THEOREM PipelineTypeCorrect == PSpec => []PTypeOK
<1>1. PInv => PTypeOK
  BY DEF PInv
<1> QED BY <1>1, PipelineInvariant, PTL

\* The files of pending_dir hold the frames in the order of their record()
\* calls, and none of them twice.
THEOREM ArchiveInOrder == PSpec => []LogOrder
<1>1. PInv => LogOrder
  BY DEF PInv
<1> QED BY <1>1, PipelineInvariant, PTL
-----------------------------------------------------------------------------
(***************************************************************************)
(* No frame is lost while the process and its disk are well.               *)
(***************************************************************************)
Keeps ==
  \A f \in Range(Volatile) :
    f \in Range(Volatile') \/ \E g \in Frames : made'[g] # NoFile /\ f \in Range(made'[g])

LEMMA WholeKeeps == ASSUME ATypeOK, DropsWhole PROVE Keeps
<1>1. PICK k \in 0 .. Len(Volatile) : Drops(k, k)
  BY DEF DropsWhole
<1> DEFINE n == Len(Volatile)
           b == SubSeq(Volatile, 1, k)
<1>2. /\ Volatile \in Seq(Frames) /\ n \in Nat /\ k \in 0 .. n /\ DOMAIN Volatile = 1 .. n
      /\ \A i \in 1 .. n : Volatile[i] \in Frames
  BY MemoryType, LenProperties, ElementOfSeq
<1> HIDE DEF n
<1>3. SUFFICES ASSUME NEW j \in 1 .. n
               PROVE  \/ Volatile[j] \in Range(Volatile')
                      \/ \E g \in Frames : made'[g] # NoFile /\ Volatile[j] \in Range(made'[g])
  BY <1>2 DEF Keeps, Range
<1>4. CASE j > k
  <2>1. Volatile' = SubSeq(Volatile, k + 1, n)
    BY <1>1 DEF Drops, n
  <2>2. /\ k + 1 \in 1 .. n + 1 /\ n \in (k + 1) - 1 .. n
        /\ Volatile' \in Seq(Frames) /\ Len(Volatile') = n - k
        /\ \A i \in 1 .. n - k : Volatile'[i] = Volatile[k + i]
    <3>1. k + 1 \in Int /\ n \in Int /\ \A i \in k + 1 .. n : Volatile[i] \in Frames
      BY <1>2
    <3>2. SubSeq(Volatile, k + 1, n) \in Seq(Frames)
          /\ Len(SubSeq(Volatile, k + 1, n)) = (IF k + 1 =< n THEN n - (k + 1) + 1 ELSE 0)
          /\ \A i \in 1 .. n - (k + 1) + 1 : SubSeq(Volatile, k + 1, n)[i] = Volatile[k + 1 + i - 1]
      BY <1>2, <3>1, SubSeqProperties
    <3> HIDE DEF b
    <3> QED BY <1>2, <2>1, <3>2
  <2>3. j - k \in 1 .. n - k /\ k + (j - k) = j
    BY <1>2, <1>4
  <2>4. Volatile'[j - k] = Volatile[j] /\ j - k \in DOMAIN Volatile'
    BY <1>2, <2>2, <2>3
  <2> QED BY <2>4 DEF Range
<1>5. CASE j =< k
  <2>1. /\ b \in Seq(Frames) /\ Len(b) = k /\ \A i \in 1 .. k : b[i] = Volatile[i]
        /\ Head(b) = Volatile[1]
    <3>1. 1 \in Int /\ k \in Int /\ \A i \in 1 .. k : Volatile[i] \in Frames
      BY <1>2
    <3>2. /\ b \in Seq(Frames) /\ Len(b) = (IF 1 =< k THEN k - 1 + 1 ELSE 0)
          /\ \A i \in 1 .. k - 1 + 1 : b[i] = Volatile[1 + i - 1]
      BY <1>2, <3>1, SubSeqProperties
    <3> HIDE DEF b
    <3>3. Len(b) = k /\ \A i \in 1 .. k : b[i] = Volatile[i]
      BY <1>2, <1>5, <3>2
    <3>4. Head(b) = b[1] /\ 1 \in 1 .. k
      BY <1>2, <1>5, <3>2, <3>3
    <3> QED BY <3>2, <3>3, <3>4
  <2>2. Promote(b)
    BY <1>1 DEF Drops
  <2> HIDE DEF b
  <2>3. b # <<>> /\ Head(b) \in Frames
    BY <1>2, <1>5, <2>1
  <2>4. made'[Head(b)] = b
    BY <2>2, <2>3 DEF Promote, ATypeOK
  <2>5. b # NoFile
    BY <2>1, SeqMonotonic, ArchiverAssumption DEF Content, Frames
  <2>6. j \in DOMAIN b /\ b[j] = Volatile[j]
    BY <1>2, <1>5, <2>1
  <2>7. Volatile[j] \in Range(b)
    BY <2>6 DEF Range
  <2> QED BY <2>3, <2>4, <2>5, <2>7
<1> QED BY <1>2, <1>4, <1>5

LEMMA StepKeeps ==
  ASSUME PInv, PNext
  PROVE  Keeps \/ faults' > faults \/ crashes' > crashes \/ ~ Alive
<1>1. ATypeOK /\ faults \in Nat /\ crashes \in Nat
  BY DEF PInv, PTypeOK, ATypeOK, Flush!FTypeOK
<1>2. CASE Capture
  <2>1. Volatile' \in {Volatile, Append(Volatile, arrived + 1)}
    BY <1>1, <1>2, RecordArrives DEF Capture, Arrives
  <2>2. Volatile \in Seq(Frames) /\ arrived + 1 \in Nat
    BY <1>1, MemoryType DEF ATypeOK
  <2>3. \A i \in DOMAIN Volatile : i \in DOMAIN Volatile' /\ Volatile'[i] = Volatile[i]
    <3>1. CASE Volatile' = Append(Volatile, arrived + 1)
      <4>1. DOMAIN Volatile = 1 .. Len(Volatile) /\ Len(Volatile) \in Nat
        BY <2>2, LenProperties
      <4>2. Volatile \in Seq(Frames \cup {arrived + 1})
        BY <2>2, SeqMonotonic
      <4>3. \A i \in 1 .. Len(Volatile) :
              i \in DOMAIN Append(Volatile, arrived + 1) /\ Append(Volatile, arrived + 1)[i] = Volatile[i]
        BY <4>1, <4>2, AppendProperties
      <4> QED BY <3>1, <4>1, <4>3
    <3> QED BY <2>1, <3>1
  <2> QED BY <2>3 DEF Keeps, Range
<1>3. CASE Archive
  BY <1>1, <1>3, WriterDrops, WholeKeeps DEF Archive
<1>4. CASE CancelTasks
  BY <1>1, <1>4, CancelDrops, WholeKeeps DEF CancelTasks
<1>5. CASE Timer \/ FlushWake \/ FlushFile \/ FlushError \/ Midnight \/ Shutdown \/ Exit
  BY <1>5 DEF Timer, Age, FlushWake, Flush!Wake, FlushFile, FlushError, Flush!Raise, Midnight,
     Flush!NextDay, Shutdown, Flush!Stop, Exit, avars, Keeps, Volatile
<1>6. CASE BreakDisk
  BY <1>1, <1>6 DEF BreakDisk, DiskFault
<1>7. CASE Kill
  BY <1>1, <1>7 DEF Kill, Flush!Crash, Flush!Restart
<1>8. CASE Start
  BY <1>8 DEF Start
<1> QED BY <1>2, <1>3, <1>4, <1>5, <1>6, <1>7, <1>8 DEF PNext

\* A frame of the queue or of the open file is there until it is in a file of
\* pending_dir, or the process or its disk fails: for any queue, file size, and
\* number of signals, also when the writer is stopped or cancelled.
THEOREM NoFrameLost == PSpec => LostOnlyInFailure
<1>1. PInv /\ [PNext]_pvars =>
        [\A f \in Range(Volatile) :
           \/ f \in Range(Volatile')
           \/ \E g \in Frames : made'[g] # NoFile /\ f \in Range(made'[g])
           \/ faults' > faults \/ crashes' > crashes \/ ~ Alive]_pvars
  BY StepKeeps DEF Keeps
<1> QED BY <1>1, PipelineInvariant, PTL DEF PSpec, LostOnlyInFailure
-----------------------------------------------------------------------------
(***************************************************************************)
(* The pipeline implements FrameLog.                                       *)
(***************************************************************************)
OnDisk  == {f \in Frames : pending[f] # NoFile}
InCloud == {f \in Frames : made[f] # NoFile /\ Flush!Stored(f)}

\* Stored, of either instance, is the same before a step and after it.
LEMMA CloudSame ==
  ASSUME UNCHANGED <<made, s3>>
  PROVE  InCloud' = InCloud
BY DEF InCloud, Flush!Stored

\* An arrival is an arrival.
LEMMA ArrivesMaps ==
  ASSUME Arrives, UNCHANGED s3
  PROVE  Log!Arrive
<1>1. OnDisk' = OnDisk /\ InCloud' = InCloud
  BY CloudSame DEF Arrives, OnDisk
<1> QED BY <1>1 DEF Arrives, Log!Arrive, OnDisk, InCloud

\* What leaves memory leaves the abstract memory; a file is not in S3 when it
\* is promoted, for no object has its name yet.
LEMMA DropsMaps ==
  ASSUME PInv, DropsSome, UNCHANGED s3
  PROVE  [Log!LNext]_(Log!lvars)
<1>0. /\ ATypeOK /\ LogOrder /\ FP!ObjectsComplete /\ FP!FTypeOK
      /\ Volatile \in Seq(Frames) /\ Len(Volatile) \in Nat
  BY MemoryType DEF PInv, PTypeOK, FP!FInv
<1>1. PICK k \in 0 .. Len(Volatile) : \E n \in 0 .. k : Drops(k, n)
  BY DEF DropsSome
<1>2. PICK n \in 0 .. k : Drops(k, n)
  BY <1>1
<1> DEFINE b == SubSeq(Volatile, 1, n)
<1>3. CASE n = 0
  <2>1. b = <<>>
    BY <1>3, SubSeqEmpty
  <2>2. UNCHANGED <<arrived, pending, made>> /\ Volatile' = SubSeq(Volatile, k + 1, Len(Volatile))
    BY <1>2, <2>1 DEF Drops, Promote
  <2>3. OnDisk' = OnDisk /\ InCloud' = InCloud
    BY <2>2, CloudSame DEF OnDisk
  <2>4. CASE k = 0
    <3>1. Volatile' = Volatile
      BY <1>0, <2>2, <2>4, SubSeqFull
    <3> QED BY <2>2, <2>3, <3>1 DEF Log!lvars, OnDisk, InCloud
  <2>5. CASE k > 0
    <3>1. k \in 1 .. Len(Volatile) /\ 0 \in 0 .. k
      BY <1>0, <2>5
    <3>2. Log!Leave
      BY <2>2, <2>3, <3>1 DEF Log!Leave, OnDisk, InCloud
    <3> QED BY <3>2 DEF Log!LNext
  <2> QED BY <1>0, <2>4, <2>5
<1>4. CASE n > 0
  <2> DEFINE f0 == Volatile[1]
  <2>1. k \in 1 .. Len(Volatile) /\ n \in 0 .. k /\ n # 0 /\ 1 \in 1 .. Len(Volatile)
        /\ n \in 1 .. Len(Volatile)
    BY <1>0, <1>4
  <2>2. f0 \in Frames /\ made[f0] = NoFile
    BY <1>0, <2>1, Fresh
  <2>3. /\ b \in Seq(Frames) /\ b # <<>> /\ Head(b) = f0 /\ Head(Volatile) = f0
    <3>1. \A i \in 1 .. n : Volatile[i] \in Frames
      BY <1>0, <2>1, ElementOfSeq
    <3>2. b \in Seq(Frames) /\ Len(b) = IF 1 =< n THEN n - 1 + 1 ELSE 0
      BY <1>0, <2>1, <3>1, SubSeqProperties
    <3>3. Head(b) = f0
      BY <1>0, <2>1, HeadTailOfSubSeq
    <3>4. Len(b) # 0 /\ Len(Volatile) # 0
      BY <2>1, <3>2
    <3> QED BY <1>0, <3>2, <3>3, <3>4, EmptySeq
  <2>4. b # NoFile
    BY <2>3, SeqMonotonic, ArchiverAssumption DEF Content, Frames
  <2>5. /\ pending' = [pending EXCEPT ![f0] = b] /\ made' = [made EXCEPT ![f0] = b]
        /\ Volatile' = SubSeq(Volatile, k + 1, Len(Volatile)) /\ arrived' = arrived
    BY <1>2, <2>3 DEF Drops, Promote
  <2> HIDE DEF b, f0
  <2>6. OnDisk' = OnDisk \cup {f0}
    BY <1>0, <2>2, <2>4, <2>5 DEF OnDisk, ATypeOK
  <2>7. InCloud' = InCloud
    <3>1. ASSUME NEW f \in Frames, f # f0 PROVE f \in InCloud' <=> f \in InCloud
      BY <1>0, <2>5, <3>1 DEF InCloud, Flush!Stored, ATypeOK
    <3>2. f0 \notin InCloud
      BY <2>2 DEF InCloud
    <3>3. f0 \notin InCloud'
      <4>1. \A d \in Flush!Days : s3[d][f0] = NoFile
        BY <1>0, <2>2 DEF FP!ObjectsComplete, Flush!Days, FP!Days
      <4>2. made'[f0] = b
        BY <1>0, <2>2, <2>5 DEF ATypeOK
      <4> QED BY <2>4, <4>1, <4>2 DEF InCloud, Flush!Stored
    <3> QED BY <2>2, <3>1, <3>2, <3>3 DEF InCloud
  <2>8. Log!Leave
    BY <2>1, <2>2, <2>3, <2>5, <2>6, <2>7 DEF Log!Leave, OnDisk, InCloud, b
  <2> QED BY <2>8 DEF Log!LNext
<1> QED BY <1>0, <1>3, <1>4

\* An object that is complete in S3 stores its file, whether the answer arrives
\* or is lost.
LEMMA StoreMaps ==
  ASSUME PInv, UNCHANGED <<arrived, Volatile, pending, made>>,
         pass[Live].pc = "upload",
         s3' = [s3 EXCEPT ![day][FP!Current(Live)] = gz[FP!Current(Live)]]
  PROVE  Log!LNext
<1> DEFINE c == FP!Current(Live)
<1>1. /\ FP!FTypeOK /\ FP!FilesIntact /\ FP!PassSound(Live)
      /\ FP!Flushers = {Live}
  BY DEF PInv, FP!FInv, FP!Flushers
<1>2. pass[Live].todo # {} /\ c \in pass[Live].todo /\ c \in Frames
  <2>1. pass[Live].todo # {}
    BY <1>1 DEF FP!FTypeOK, FP!Working
  <2> QED BY <1>1, <2>1, FlusherHere, FP!CurrentListed
<1>3. gz[c] = made[c] /\ pending[c] # NoFile /\ made[c] # NoFile
  BY <1>1, <1>2 DEF FP!PassSound, FP!FilesIntact
<1> HIDE DEF c
<1>4. s3' = [s3 EXCEPT ![day][c] = made[c]]
  BY <1>3 DEF c
<1>5. /\ day \in Flush!Days
      /\ s3 \in [Flush!Days -> [Frames -> Flush!Content \cup {NoFile}]]
  BY <1>1 DEF FP!FTypeOK, Flush!Days, FP!Days, Flush!Content, FP!Content
<1>6. InCloud' = InCloud \cup {c}
  <2>1. ASSUME NEW f \in Frames, f # c PROVE f \in InCloud' <=> f \in InCloud
    <3>1. \A d \in Flush!Days : s3'[d][f] = s3[d][f]
      BY <1>2, <1>4, <1>5, <2>1
    <3> QED BY <3>1 DEF InCloud, Flush!Stored
  <2>2. c \in InCloud'
    <3>1. s3'[day][c] = made[c]
      BY <1>2, <1>4, <1>5
    <3> QED BY <1>2, <1>3, <1>5, <3>1 DEF InCloud, Flush!Stored
  <2> QED BY <1>2, <2>1, <2>2 DEF InCloud
<1>7. c \in OnDisk /\ OnDisk' = OnDisk
  BY <1>2, <1>3 DEF OnDisk
<1>8. \E f \in Log!Names : Log!Store(f)
  BY <1>2, <1>6, <1>7 DEF Log!Names, Frames, Log!Store, OnDisk, InCloud
<1> QED BY <1>8 DEF Log!LNext

\* The delete of _flush_once releases a batch that S3 holds.
LEMMA ReleaseMaps ==
  ASSUME PInv, UNCHANGED <<arrived, Volatile>>, FP!RemoveSrc(Live)
  PROVE  Log!LNext
<1> DEFINE c == FP!Current(Live)
<1>1. /\ FP!FTypeOK /\ FP!FilesIntact /\ FP!PassSound(Live) /\ ATypeOK
      /\ FP!Flushers = {Live}
  BY DEF PInv, PTypeOK, FP!FInv, FP!Flushers
<1>2. c \in Frames
  <2>1. pass[Live].todo # {}
    BY <1>1 DEF FP!FTypeOK, FP!Working, FP!RemoveSrc
  <2> QED BY <1>1, <2>1, FlusherHere, FP!CurrentListed
<1>3. /\ FP!Stored(c) /\ pending[c] # NoFile /\ made[c] # NoFile
      /\ pending' = [pending EXCEPT ![c] = NoFile] /\ UNCHANGED <<made, s3>>
  BY <1>1, <1>2 DEF FP!PassSound, FP!FilesIntact, FP!RemoveSrc
<1> HIDE DEF c
<1>4. OnDisk' = OnDisk \ {c}
  BY <1>1, <1>2, <1>3 DEF OnDisk, ATypeOK
<1>5. InCloud' = InCloud
  BY <1>3, CloudSame
<1>6. c \in OnDisk \cap InCloud
  BY <1>2, <1>3 DEF OnDisk, InCloud, FP!Stored, Flush!Stored, FP!Days, Flush!Days
<1>7. \E f \in Log!Names : Log!Release(f)
  BY <1>2, <1>3, <1>4, <1>5, <1>6 DEF Log!Names, Frames, Log!Release, OnDisk, InCloud
<1> QED BY <1>7 DEF Log!LNext

LEMMA StepMaps == PInv /\ [PNext]_pvars => [Log!LNext]_(Log!lvars)
<1> SUFFICES ASSUME PInv, [PNext]_pvars PROVE [Log!LNext]_(Log!lvars)
  OBVIOUS
<1>1. ASSUME UNCHANGED <<arrived, Volatile, pending, made, s3>>
      PROVE  UNCHANGED Log!lvars
  <2>1. OnDisk' = OnDisk /\ InCloud' = InCloud
    BY <1>1, CloudSame DEF OnDisk
  <2> QED BY <1>1, <2>1 DEF Log!lvars, OnDisk, InCloud
<1>2. CASE UNCHANGED pvars
  BY <1>1, <1>2 DEF pvars, avars, fvars, Volatile
<1>3. CASE FlushFile
  <2>1. UNCHANGED <<arrived, Volatile>>
    BY <1>3 DEF FlushFile, Volatile
  <2>2. CASE \/ FP!ListPending(Live) \/ FP!Finish(Live) \/ FP!OpenSource(Live)
             \/ FP!FinishCopy(Live) \/ FP!RemoveGz(Live)
    BY <1>1, <2>1, <2>2 DEF FP!ListPending, FP!Finish, FP!OpenSource, FP!FinishCopy, FP!RemoveGz
  <2>3. CASE FP!Upload(Live)
    BY <2>1, <2>3, StoreMaps DEF FP!Upload
  <2>4. CASE FP!RemoveSrc(Live)
    BY <2>1, <2>4, ReleaseMaps
  <2> QED BY <1>3, <2>2, <2>3, <2>4, SamePass DEF FlushFile, Flush!FlushStep
<1>4. CASE FlushError
  <2>1. UNCHANGED <<arrived, Volatile, pending, made>> /\ FP!Raise(Live)
    BY <1>4, SamePass DEF FlushError, avars, Volatile
  <2>2. CASE UNCHANGED s3
    BY <1>1, <2>1, <2>2
  <2>3. CASE /\ pass[Live].pc = "upload"
             /\ s3' = [s3 EXCEPT ![day][FP!Current(Live)] = gz[FP!Current(Live)]]
    BY <2>1, <2>3, StoreMaps
  <2> QED BY <2>1, <2>2, <2>3 DEF FP!Raise
<1>5. CASE PNext /\ ~ (FlushFile \/ FlushError)
  <2>1. (Arrives \/ DropsSome) /\ UNCHANGED s3
    BY <1>5, StepKinds
  <2> QED BY <2>1, ArrivesMaps, DropsMaps DEF Log!LNext
<1> QED BY <1>2, <1>3, <1>4, <1>5

LEMMA InitMaps == PInit => Log!LInit
<1> SUFFICES ASSUME PInit PROVE Log!LInit
  OBVIOUS
<1>1. OnDisk = {} /\ InCloud = {} /\ Volatile = <<>>
  BY DEF OnDisk, InCloud, PInit, AInit, Volatile
<1> QED BY <1>1 DEF PInit, AInit, Log!LInit, Log!Names, Frames, OnDisk, InCloud

\* The archiver, the flusher, the shutdown and the restarts keep the promise of
\* FrameLog: memory loses frames from its front only, a batch never changes,
\* and the local disk gives it up only when S3 has it.
THEOREM PipelineRefines == PSpec => ImplementsFrameLog
<1>1. PInit => Log!LInit
  BY InitMaps
<1>2. PInv /\ [PNext]_pvars => [Log!LNext]_(Log!lvars)
  BY StepMaps
<1> QED BY <1>1, <1>2, PipelineInvariant, PTL DEF PSpec, ImplementsFrameLog, Log!LSpec
=============================================================================
