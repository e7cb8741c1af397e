----------------------------- MODULE ChartProofs -----------------------------
(***************************************************************************)
(* Proofs about the chart tool: the recorder with a clock is still the     *)
(* recorder of Pipeline, a chart of a window that ends now misses no frame *)
(* of it that the bucket holds, and its last row is the newest.            *)
(*                                                                         *)
(* The code finds frames by the times in keys and names.  That it finds    *)
(* them all rests on three facts of the recorder: a file is left within    *)
(* rotate_interval_s of its opening (Young), so no frame in it is much     *)
(* younger than its name (Named), and no object is filed under a day       *)
(* before that of a frame in it (Filed).                                   *)
(*                                                                         *)
(* What is read is then sorted.  Each event has a key of its own, keys are *)
(* totally ordered, and the place of an event is the number of keys ahead  *)
(* of its own; that the places are 1 .. n, with none left free, is counted *)
(* (PlaceOnto).                                                            *)
(***************************************************************************)
EXTENDS Chart, PipelineProofs, FiniteSetTheorems, FunctionTheorems, WellFoundedInduction

\* Each frame that arrived has a stamp of the past.
Stamped ==
  /\ clock \in Nat /\ clock =< MaxTime
  /\ stamp \in Seq(Nat) /\ Len(stamp) = arrived
  /\ \A j \in 1 .. arrived : stamp[j] =< clock

\* The day of the recorder is the date of the clock.
Dated == day * DayLength =< clock /\ clock < (day + 1) * DayLength

\* The open file is not older than rotate_interval_s.
Young ==
  /\ opened \in Nat /\ opened =< clock
  /\ writer = "running" => clock =< opened + RotateInterval

\* A file holds nothing that is much younger than its name.
Named ==
  /\ named \in [Frames -> Nat] /\ \A g \in Frames : named[g] =< clock
  /\ \A g \in Frames : made[g] # NoFile =>
       \A i \in DOMAIN made[g] : stamp[made[g][i]] =< named[g] + RotateInterval

\* A key is of a day that has come, and its object holds nothing of a later one.
Filed ==
  \A d \in 0 .. MaxDay, g \in Frames : s3[d][g] # NoFile =>
    /\ d =< day
    /\ \A i \in DOMAIN s3[d][g] : stamp[s3[d][g][i]] < (d + 1) * DayLength

\* A file holds frames that have arrived.
Recorded ==
  \A g \in Frames : made[g] # NoFile =>
    /\ made[g] \in Seq(Nat)
    /\ \A i \in DOMAIN made[g] : made[g][i] \in 1 .. arrived

CInv == PInv /\ Stamped /\ Dated /\ Young /\ Named /\ Filed
-----------------------------------------------------------------------------
(***************************************************************************)
(* Days.                                                                   *)
(***************************************************************************)
LEMMA Division ==
  ASSUME NEW a \in Nat, NEW b \in Nat, b > 0
  PROVE  /\ a = b * (a \div b) + (a % b)
         /\ (a * b) % b = 0
OBVIOUS

\* What ChartAssumption says of the times, alone.
LEMMA Times ==
  /\ RotateInterval \in Nat /\ RotateSlack \in Nat /\ RotateInterval =< RotateSlack
  /\ DayLength \in Nat /\ DayLength > 0 /\ MaxTime \in Nat
BY ChartAssumption

\* The date of a time, from the bounds of its day.
LEMMA Dates ==
  ASSUME NEW t \in Nat, NEW d \in Nat
  PROVE  /\ DateOf(t) \in Nat
         /\ t < (d + 1) * DayLength => DateOf(t) =< d
         /\ d * DayLength =< t /\ t < (d + 1) * DayLength => DateOf(t) = d
<1>1. DayLength \in Nat /\ DayLength > 0
  BY Times
<1>2. t \div DayLength \in Nat
  BY <1>1
<1>3. ASSUME t < (d + 1) * DayLength PROVE t \div DayLength =< d
  BY <1>1, <1>3
<1>4. ASSUME d * DayLength =< t, t < (d + 1) * DayLength PROVE t \div DayLength = d
  BY <1>1, <1>4
<1> QED BY <1>2, <1>3, <1>4 DEF DateOf

\* The date changes with the clock at the multiples of a day, and not between.
LEMMA Midnights ==
  ASSUME NEW t \in Nat, NEW d \in Nat, d * DayLength =< t, t < (d + 1) * DayLength
  PROVE  IF (t + 1) % DayLength = 0
         THEN (d + 1) * DayLength =< t + 1 /\ t + 1 < (d + 2) * DayLength
         ELSE d * DayLength =< t + 1 /\ t + 1 < (d + 1) * DayLength
<1>1. DayLength \in Nat /\ DayLength > 0
  BY Times
<1>2. CASE t + 1 = (d + 1) * DayLength
  <2>1. (t + 1) % DayLength = 0
    BY <1>1, <1>2, d + 1 \in Nat, Division
  <2>2. (d + 2) * DayLength = (d + 1) * DayLength + DayLength
    BY <1>1
  <2> QED BY <1>1, <1>2, <2>1, <2>2
<1>3. CASE t + 1 < (d + 1) * DayLength
  <2>1. (t + 1) % DayLength # 0
    <3> DEFINE q == (t + 1) \div DayLength
    <3>1. q = d
      <4>1. d * DayLength =< t + 1 /\ t + 1 \in Nat
        BY <1>1
      <4> QED BY <1>1, <1>3, <4>1
    <3>2. t + 1 = DayLength * q + ((t + 1) % DayLength)
      BY <1>1, t + 1 \in Nat, Division
    <3>3. DayLength * q = d * DayLength /\ d * DayLength \in Nat
      BY <1>1, <3>1
    <3> HIDE DEF q
    <3> QED BY <1>1, <3>2, <3>3
  <2> QED BY <1>1, <1>3, <2>1
<1>4. (d + 1) * DayLength \in Nat
  BY <1>1
<1> QED BY <1>2, <1>3, <1>4
-----------------------------------------------------------------------------
(***************************************************************************)
(* Steps of the recorder.                                                  *)
(***************************************************************************)

\* With its clock, the recorder still does what Pipeline says.
LEMMA ClockedStep == [CNext]_cvars => [PNext]_pvars
<1>1. ASSUME Midnight PROVE PNext
  BY <1>1 DEF PNext
<1>2. ASSUME RecorderStep PROVE PNext
  BY <1>2 DEF RecorderStep
<1>3. ASSUME UNCHANGED cvars PROVE UNCHANGED pvars
  BY <1>3 DEF cvars
<1> QED BY <1>1, <1>2, <1>3 DEF CNext, Tick

\* One frame arrives, or none.
LEMMA ArrivalStep ==
  ASSUME PInv, PNext
  PROVE  arrived' \in {arrived, arrived + 1}
<1>1. CASE FlushFile \/ FlushError
  BY <1>1 DEF FlushFile, FlushError, avars
<1>2. CASE ~ (FlushFile \/ FlushError)
  BY <1>2, StepKinds DEF Arrives, DropsSome, Drops
<1> QED BY <1>1, <1>2

\* The writer runs after a step if it ran before, or starts.
LEMMA RunningStep ==
  ASSUME PNext, writer' = "running"
  PROVE  writer \in {"new", "running"}
<1> QED BY DEF PNext, Capture, Record, Archive, WriterStep, WriterStart, Write, GetTimeout,
       LoopEnd, Timer, Age, BreakDisk, DiskFault, OpenFault, WriteFault, FlushWake, FlushFile, FlushError, Midnight,
       Shutdown, CancelTasks, CancelWriter, Exit, Kill, Start, avars

\* Files are promoted by a writer that runs.
LEMMA PromotingStep ==
  ASSUME PNext, made' # made
  PROVE  writer = "running"
<1>1. CASE FlushFile
  BY <1>1 DEF FlushFile, Flush!FlushStep, Flush!ListPending, Flush!Finish, Flush!OpenSource,
     Flush!FinishCopy, Flush!Upload, Flush!RemoveGz, Flush!RemoveSrc
<1>2. CASE ~ FlushFile
  BY <1>2 DEF PNext, Capture, Record, Archive, WriterStep, WriterStart, Write, GetTimeout,
     Timer, Age, BreakDisk, DiskFault, OpenFault, WriteFault, FlushWake, FlushError, Flush!Raise, Midnight, Flush!NextDay,
     Shutdown, Flush!Stop, CancelTasks, CancelWriter, Exit, Kill, Flush!Crash, Flush!Restart,
     Flush!Wake, Start, avars, fvars
<1> QED BY <1>1, <1>2

\* An upload puts an object under the day of the recorder, and touches no other.
LEMMA FilingStep ==
  ASSUME PNext, s3' # s3
  PROVE  \E g, c : s3' = [s3 EXCEPT ![day][g] = c]
<1>1. CASE FlushFile
  BY <1>1 DEF FlushFile, Flush!FlushStep, Flush!ListPending, Flush!Finish, Flush!OpenSource,
     Flush!FinishCopy, Flush!Upload, Flush!RemoveGz, Flush!RemoveSrc
<1>2. CASE FlushError
  BY <1>2 DEF FlushError, Flush!Raise
<1>3. CASE ~ (FlushFile \/ FlushError)
  BY <1>3 DEF PNext, Capture, Archive, Timer, BreakDisk, FlushWake, Midnight, Flush!NextDay,
     Shutdown, Flush!Stop, CancelTasks, Exit, Kill, Flush!Crash, Flush!Restart,
     Flush!Wake, Start, fvars
<1> QED BY <1>1, <1>2, <1>3
-----------------------------------------------------------------------------
(***************************************************************************)
(* The invariant.                                                          *)
(***************************************************************************)
LEMMA FilesRecorded == PInv => Recorded
<1> SUFFICES ASSUME PInv, NEW g \in Frames, made[g] # NoFile
             PROVE  /\ made[g] \in Seq(Nat)
                    /\ \A i \in DOMAIN made[g] : made[g][i] \in 1 .. arrived
  BY DEF Recorded
<1>1. made[g] \in Seq(Nat)
  BY DEF PInv, PTypeOK, ATypeOK, Content
<1>2. ASSUME NEW i \in DOMAIN made[g] PROVE made[g][i] \in 1 .. arrived
  <2>1. /\ made[g][i] \in Nat /\ made[g][i] =< arrived /\ i \in 1 .. Len(made[g])
        /\ arrived \in Nat /\ g \in Nat \ {0}
    BY <1>1, <1>2 DEF PInv, PTypeOK, ATypeOK, Known, Frames
  <2>2. made[g] # <<>> /\ Head(made[g]) = g
    BY DEF PInv, LogOrder
  <2>3. made[g][1] = g /\ 1 \in DOMAIN made[g]
    BY <1>1, <2>1, <2>2
  <2>4. 1 < i => made[g][1] < made[g][i]
    BY <1>2, <2>3 DEF PInv, LogOrder
  <2> QED BY <2>1, <2>3, <2>4
<1> QED BY <1>1, <1>2

\* A stamp is given once.
LEMMA StampedStep ==
  ASSUME CInv, CNext
  PROVE  /\ Stamped'
         /\ \A j \in 1 .. arrived : stamp'[j] = stamp[j]
<1>1. /\ clock \in Nat /\ MaxTime \in Nat /\ clock =< MaxTime /\ arrived \in Nat
      /\ stamp \in Seq(Nat) /\ Len(stamp) = arrived
      /\ \A j \in 1 .. arrived : stamp[j] =< clock
  BY Times DEF CInv, Stamped, PInv, PTypeOK, ATypeOK
<1>2. CASE Tick
  <2>1. arrived' = arrived /\ stamp' = stamp /\ clock' = clock + 1 /\ clock' =< MaxTime
    BY <1>1, <1>2 DEF Tick, Midnight, avars, pvars
  <2> QED BY <1>1, <2>1 DEF Stamped
<1>3. CASE RecorderStep
  <2>1. /\ clock' = clock /\ arrived' \in {arrived, arrived + 1}
        /\ stamp' = IF arrived' > arrived THEN Append(stamp, clock) ELSE stamp
    BY <1>3, ArrivalStep DEF RecorderStep, CInv
  <2>2. CASE arrived' = arrived
    BY <1>1, <2>1, <2>2 DEF Stamped
  <2>3. CASE arrived' = arrived + 1
    <3>1. stamp' = Append(stamp, clock)
      BY <1>1, <2>1, <2>3
    <3>2. /\ stamp' \in Seq(Nat) /\ Len(stamp') = arrived + 1
          /\ \A j \in 1 .. arrived : stamp'[j] = stamp[j]
          /\ stamp'[arrived + 1] = clock
      BY <1>1, <3>1, AppendProperties
    <3> QED BY <1>1, <2>1, <2>3, <3>2 DEF Stamped
  <2> QED BY <2>1, <2>2, <2>3
<1> QED BY <1>2, <1>3 DEF CNext

LEMMA DatedStep == ASSUME CInv, CNext PROVE Dated'
<1>1. clock \in Nat /\ day \in Nat /\ day * DayLength =< clock /\ clock < (day + 1) * DayLength
  BY PipelineAssumption DEF CInv, Stamped, Dated, PInv, PTypeOK, Flush!FTypeOK, Flush!Days
<1>2. CASE Tick
  <2>1. CASE (clock + 1) % DayLength = 0
    <3>1. day' = day + 1 /\ clock' = clock + 1
      BY <1>2, <2>1 DEF Tick, Midnight, Flush!NextDay
    <3>2. (day + 1) + 1 = day + 2
      BY <1>1
    <3> QED BY <1>1, <2>1, <3>1, <3>2, Midnights DEF Dated
  <2>2. CASE (clock + 1) % DayLength # 0
    <3>1. day' = day /\ clock' = clock + 1
      BY <1>2, <2>2 DEF Tick, pvars, fvars
    <3> QED BY <1>1, <2>2, <3>1, Midnights DEF Dated
  <2> QED BY <2>1, <2>2
<1>3. CASE RecorderStep
  BY <1>1, <1>3 DEF RecorderStep, Dated
<1> QED BY <1>2, <1>3 DEF CNext

LEMMA YoungStep == ASSUME CInv, CNext PROVE Young'
<1>1. /\ clock \in Nat /\ opened \in Nat /\ opened =< clock /\ RotateInterval \in Nat
      /\ writer = "running" => clock =< opened + RotateInterval
  BY Times DEF CInv, Stamped, Young
<1>2. CASE Tick
  <2>1. writer' = writer /\ opened' = opened /\ clock' = clock + 1
    BY <1>2 DEF Tick, Midnight, avars, pvars
  <2>2. writer = "running" => clock - opened < RotateInterval
    BY <1>2 DEF Tick
  <2> QED BY <1>1, <2>1, <2>2 DEF Young
<1>3. CASE RecorderStep
  <2>1. clock' = clock /\ opened' = IF Reopens THEN clock ELSE opened
    BY <1>3 DEF RecorderStep
  <2>2. writer' = "running" => writer = "running" \/ Reopens
    BY <1>3, RunningStep DEF RecorderStep, Reopens
  <2> QED BY <1>1, <2>1, <2>2 DEF Young
<1> QED BY <1>2, <1>3 DEF CNext

LEMMA NamedStep == ASSUME CInv, CNext, PInv' PROVE Named'
<1>1. /\ Recorded /\ Recorded'
      /\ Stamped' /\ \A j \in 1 .. arrived : stamp'[j] = stamp[j]
  <2>1. PInv' => Recorded'
    BY FilesRecorded, PTL
  <2> QED BY <2>1, FilesRecorded, StampedStep DEF CInv
<1>2. /\ clock \in Nat /\ opened \in Nat /\ opened =< clock
      /\ named \in [Frames -> Nat] /\ \A g \in Frames : named[g] =< clock
      /\ \A g \in Frames : made[g] # NoFile =>
           \A i \in DOMAIN made[g] : stamp[made[g][i]] =< named[g] + RotateInterval
  BY DEF CInv, Stamped, Young, Named
<1>3. CASE Tick
  <2>1. named' = named /\ made' = made /\ stamp' = stamp /\ clock' = clock + 1
    BY <1>3 DEF Tick, Midnight, avars, pvars
  <2> QED BY <1>2, <2>1 DEF Named
<1>4. CASE RecorderStep
  <2>1. /\ clock' = clock
        /\ named' = [f \in Frames |-> IF made'[f] # made[f] THEN opened ELSE named[f]]
    BY <1>4 DEF RecorderStep
  <2>2. named' \in [Frames -> Nat] /\ \A g \in Frames : named'[g] =< clock'
    BY <1>2, <2>1
  <2>3. ASSUME NEW g \in Frames, made'[g] # NoFile, NEW i \in DOMAIN made'[g]
        PROVE  stamp'[made'[g][i]] =< named'[g] + RotateInterval
    <3>1. CASE made'[g] = made[g]
      <4>1. made[g][i] \in 1 .. arrived
        BY <1>1, <2>3, <3>1 DEF Recorded
      <4> QED BY <1>1, <1>2, <2>1, <2>3, <3>1, <4>1
    <3>2. CASE made'[g] # made[g]
      <4>1. writer = "running" /\ clock =< opened + RotateInterval /\ named'[g] = opened
        BY <1>4, <2>1, <3>2, PromotingStep DEF RecorderStep, CInv, Young
      <4>2. stamp'[made'[g][i]] =< clock'
        BY <1>1, <2>3 DEF Recorded, Stamped
      <4>3. stamp'[made'[g][i]] \in Nat
        <5>1. made'[g][i] \in 1 .. arrived' /\ stamp' \in Seq(Nat) /\ Len(stamp') = arrived'
          BY <1>1, <2>3 DEF Recorded, Stamped
        <5> QED BY <5>1, ElementOfSeq
      <4> QED BY <1>2, <2>1, <4>1, <4>2, <4>3, Times
    <3> QED BY <3>1, <3>2
  <2> QED BY <2>2, <2>3 DEF Named
<1> QED BY <1>3, <1>4 DEF CNext

LEMMA FiledStep == ASSUME CInv, CNext, PInv' PROVE Filed'
<1>1. /\ Recorded /\ Recorded'
      /\ Stamped' /\ \A j \in 1 .. arrived : stamp'[j] = stamp[j]
  <2>1. PInv' => Recorded'
    BY FilesRecorded, PTL
  <2> QED BY <2>1, FilesRecorded, StampedStep DEF CInv
<1>2. /\ day \in 0 .. MaxDay /\ MaxDay \in Nat /\ clock \in Nat /\ DayLength \in Nat
      /\ clock < (day + 1) * DayLength
      /\ s3 \in [0 .. MaxDay -> [Frames -> Flush!Content \cup {NoFile}]]
  BY PipelineAssumption, ChartAssumption
     DEF CInv, Stamped, Dated, PInv, PTypeOK, Flush!FTypeOK, Flush!Days
<1>3. \A d \in 0 .. MaxDay, g \in Frames :
        /\ s3[d][g] \in {NoFile, made[g]} /\ s3'[d][g] \in {NoFile, made'[g]}
        /\ s3[d][g] # NoFile =>
             /\ d =< day
             /\ \A i \in DOMAIN s3[d][g] : stamp[s3[d][g][i]] < (d + 1) * DayLength
  BY DEF CInv, PInv, FP!FInv, FP!ObjectsComplete, FP!Days, Filed
<1>4. CASE Tick
  <2>1. s3' = s3 /\ stamp' = stamp /\ day' \in {day, day + 1}
    BY <1>4 DEF Tick, Midnight, Flush!NextDay, pvars, fvars
  <2> QED BY <1>2, <1>3, <2>1 DEF Filed
<1>5. CASE RecorderStep
  <2>1. clock' = clock /\ day' = day
    BY <1>5 DEF RecorderStep
  <2>2. ASSUME NEW d \in 0 .. MaxDay, NEW g \in Frames, s3'[d][g] # NoFile
        PROVE  /\ d =< day'
               /\ \A i \in DOMAIN s3'[d][g] : stamp'[s3'[d][g][i]] < (d + 1) * DayLength
    <3>1. CASE s3'[d][g] = s3[d][g]
      <4>1. \A i \in DOMAIN s3[d][g] : stamp'[s3[d][g][i]] = stamp[s3[d][g][i]]
        BY <1>1, <1>3, <2>2, <3>1 DEF Recorded
      <4> QED BY <1>3, <2>1, <2>2, <3>1, <4>1
    <3>2. CASE s3'[d][g] # s3[d][g]
      <4>1. d = day
        <5>1. PICK h, c : s3' = [s3 EXCEPT ![day][h] = c]
          BY <1>5, <3>2, FilingStep DEF RecorderStep
        <5> QED BY <1>2, <3>2, <5>1
      <4>2. ASSUME NEW i \in DOMAIN s3'[d][g] PROVE stamp'[s3'[d][g][i]] < (d + 1) * DayLength
        <5>1. s3'[d][g][i] \in 1 .. arrived'
          BY <1>1, <1>3, <2>2, <4>2 DEF Recorded
        <5>2. stamp'[s3'[d][g][i]] \in Nat /\ stamp'[s3'[d][g][i]] =< clock'
          BY <1>1, <5>1, ElementOfSeq DEF Stamped
        <5>3. (day + 1) * DayLength \in Nat
          BY <1>2
        <5> QED BY <1>2, <2>1, <4>1, <5>2, <5>3
      <4> QED BY <1>2, <2>1, <4>1, <4>2
    <3> QED BY <3>1, <3>2
  <2> QED BY <2>2 DEF Filed
<1> QED BY <1>4, <1>5 DEF CNext

LEMMA CInitInv == CInit => CInv
<1> SUFFICES ASSUME CInit PROVE CInv
  OBVIOUS
<1>1. PInv
  BY PInitInv DEF CInit
<1>2. /\ arrived = 0 /\ writer = "new" /\ day = 0
      /\ \A g \in Frames : made[g] = NoFile
      /\ \A d \in 0 .. MaxDay, g \in Frames : s3[d][g] = NoFile
  BY DEF CInit, PInit, AInit, Flush!FInit, Flush!Days
<1>3. clock = 0 /\ stamp = <<>> /\ opened = 0 /\ named = [f \in Frames |-> 0]
  BY DEF CInit
<1>4. Stamped
  BY <1>2, <1>3, EmptySeq, Times DEF Stamped
<1>5. Dated
  BY <1>2, <1>3, Times DEF Dated
<1>6. Young /\ Named /\ Filed
  BY <1>2, <1>3 DEF Young, Named, Filed
<1> QED BY <1>1, <1>4, <1>5, <1>6 DEF CInv

LEMMA CStepInv == CInv /\ [CNext]_cvars => CInv'
<1> SUFFICES ASSUME CInv, [CNext]_cvars PROVE CInv'
  OBVIOUS
<1>1. PInv'
  BY ClockedStep, StepInv DEF CInv
<1>2. CASE CNext
  BY <1>1, <1>2, StampedStep, DatedStep, YoungStep, NamedStep, FiledStep DEF CInv
<1>3. CASE UNCHANGED cvars
  <2>1. Stamped' /\ Dated' /\ Young' /\ Named' /\ Filed'
    BY <1>3 DEF cvars, pvars, avars, fvars, CInv, Stamped, Dated, Young, Named, Filed
  <2> QED BY <1>1, <2>1 DEF CInv
<1> QED BY <1>2, <1>3

\* The inductive invariant of the recorder with its clock.
THEOREM ChartInvariant == CSpec => []CInv
<1> QED BY CInitInv, CStepInv, PTL DEF CSpec

\* The times that the reader goes by do not change what the recorder does: each
\* step of the recorder with its clock is one of Pipeline, or none.  All that is
\* proved of Pipeline holds of the frames that a chart is drawn from.
THEOREM ClockRefines == CSpec => PSpec
<1>1. CInit => PInit
  BY DEF CInit
<1> QED BY <1>1, ClockedStep, PTL DEF CSpec, PSpec

\* The files of a chart hold the frames in the order of their record() calls.
THEOREM ChartFilesInOrder == CSpec => []LogOrder
<1> QED BY ClockRefines, ArchiveInOrder, PTL
-----------------------------------------------------------------------------
(***************************************************************************)
(* The reader.                                                             *)
(***************************************************************************)

\* A line of an object that is read is a frame that arrived.
LEMMA LinesAreFrames ==
  ASSUME CInv, NEW start \in 0 .. clock, NEW line \in LinesRead(start, clock)
  PROVE  FrameAt(line) \in InBucket(start, clock)
<1>1. PICK key \in ListKeys(start, clock) :
        line \in {<<key[1], key[2], i>> : i \in DOMAIN s3[key[1]][key[2]]}
  BY DEF LinesRead
<1>2. PICK i \in DOMAIN s3[key[1]][key[2]] : line = <<key[1], key[2], i>>
  BY <1>1
<1> DEFINE d == key[1]
           g == key[2]
<1>3. /\ d \in DateOf(start) .. DateOf(clock) /\ g \in Frames /\ s3[d][g] # NoFile
      /\ FrameAt(line) = s3[d][g][i]
  BY <1>1, <1>2 DEF ListKeys, FrameAt
<1>4. d \in 0 .. MaxDay
  <2>1. start \in Nat /\ clock \in Nat /\ day \in 0 .. MaxDay /\ MaxDay \in Nat
    BY PipelineAssumption DEF CInv, Stamped, PInv, PTypeOK, Flush!FTypeOK, Flush!Days
  <2>2. DateOf(start) \in Nat /\ DateOf(clock) = day
    BY <2>1, Dates DEF CInv, Dated
  <2> HIDE DEF d
  <2> QED BY <1>3, <2>1, <2>2
<1> HIDE DEF d, g
<1>5. s3[d][g] = made[g] /\ i \in DOMAIN made[g]
  BY <1>2, <1>3, <1>4 DEF CInv, PInv, FP!FInv, FP!ObjectsComplete, FP!Days, d, g
<1>6. FrameAt(line) \in 1 .. arrived
  BY <1>3, <1>5, FilesRecorded DEF CInv, Recorded
<1>7. FrameAt(line) \in DOMAIN stamp
  BY <1>6 DEF CInv, Stamped
<1>8. FrameAt(line) \in Range(s3[d][g])
  BY <1>3, <1>5 DEF Range
<1>9. start =< stamp[FrameAt(line)] /\ stamp[FrameAt(line)] =< clock
  BY DEF LinesRead
<1> QED BY <1>3, <1>4, <1>7, <1>8, <1>9 DEF InBucket

\* A frame of the window that the bucket holds is on a line that is read.
LEMMA FramesAreRead ==
  ASSUME CInv, NEW start \in 0 .. clock, NEW f \in InBucket(start, clock)
  PROVE  \E line \in LinesRead(start, clock) : FrameAt(line) = f
<1>1. /\ clock \in Nat /\ start \in Nat /\ start =< clock
      /\ day \in 0 .. MaxDay /\ MaxDay \in Nat
      /\ f \in DOMAIN stamp /\ stamp \in Seq(Nat)
      /\ start =< stamp[f] /\ stamp[f] =< clock
  BY PipelineAssumption
     DEF CInv, Stamped, PInv, PTypeOK, Flush!FTypeOK, Flush!Days, InBucket
<1>2. PICK d \in 0 .. MaxDay, g \in Frames : s3[d][g] # NoFile /\ f \in Range(s3[d][g])
  BY DEF InBucket
<1>3. PICK i \in DOMAIN s3[d][g] : s3[d][g][i] = f
  BY <1>2 DEF Range
<1>4. s3[d][g] = made[g] /\ made[g] # NoFile /\ stamp[f] \in Nat
  <2>1. s3[d][g] = made[g]
    BY <1>2 DEF CInv, PInv, FP!FInv, FP!ObjectsComplete, FP!Days
  <2> QED BY <1>1, <1>2, <2>1
<1>5. d \in DateOf(start) .. DateOf(clock)
  <2>1. d =< day /\ stamp[f] < (d + 1) * DayLength
    BY <1>2, <1>3 DEF CInv, Filed
  <2>2. start < (d + 1) * DayLength
    <3>1. (d + 1) * DayLength \in Nat
      BY Times
    <3> QED BY <1>1, <1>4, <2>1, <3>1
  <2>3. DateOf(start) \in Nat /\ DateOf(start) =< d
    BY <1>1, <2>2, Dates
  <2>4. DateOf(clock) = day
    BY <1>1, Dates DEF CInv, Dated
  <2> QED BY <1>1, <2>1, <2>3, <2>4
<1>6. named[g] =< clock /\ named[g] + RotateSlack >= start
  <2>1. named[g] \in Nat /\ named[g] =< clock /\ stamp[f] =< named[g] + RotateInterval
    BY <1>3, <1>4 DEF CInv, Named
  <2>2. start \in Nat /\ start =< stamp[f]
    BY <1>1
  <2>3. start =< named[g] + RotateInterval
    BY <1>4, <2>1, <2>2, Times
  <2> QED BY <2>1, <2>2, <2>3, Times
<1>7. <<d, g>> \in ListKeys(start, clock)
  BY <1>2, <1>5, <1>6 DEF ListKeys
<1> DEFINE line == <<d, g, i>>
<1>8. FrameAt(line) = f
  BY <1>3 DEF FrameAt
<1>9. line \in LinesRead(start, clock)
  <2> DEFINE key == <<d, g>>
  <2>1. line \in {<<key[1], key[2], j>> : j \in DOMAIN s3[key[1]][key[2]]}
    <3>1. key[1] = d /\ key[2] = g
      OBVIOUS
    <3> HIDE DEF key
    <3>2. i \in DOMAIN s3[key[1]][key[2]] /\ line = <<key[1], key[2], i>>
      BY <3>1
    <3> HIDE DEF line
    <3> QED BY <3>2
  <2> QED BY <1>1, <1>7, <1>8, <2>1 DEF LinesRead
<1> QED BY <1>8, <1>9

\* A chart that ends now, of any window, shows every frame of the window that
\* the bucket holds, and nothing else: for any rotation interval, any slack that
\* is not shorter, and any length of the day.
THEOREM RecentChartsComplete == CSpec => []RecentWindowComplete
<1>1. CInv => RecentWindowComplete
  BY LinesAreFrames, FramesAreRead DEF RecentWindowComplete
<1> QED BY <1>1, ChartInvariant, PTL
-----------------------------------------------------------------------------
(***************************************************************************)
(* Sets of numbers.                                                        *)
(***************************************************************************)
LEMMA LeastOf ==
  ASSUME NEW S \in SUBSET Nat, S # {}
  PROVE  Min(S) \in S /\ \A y \in S : Min(S) =< y
<1>1. PICK x \in S : \A y \in S : ~ (<<y, x>> \in OpToRel(<, Nat))
  BY WFMin, NatLessThanWellFounded
<1>2. ASSUME NEW y \in S PROVE x =< y
  <2>1. ~ (y < x)
    BY <1>1 DEF OpToRel
  <2> QED BY <2>1
<1> QED BY <1>2 DEF Min

LEMMA GreatestOf ==
  ASSUME NEW n \in Nat, NEW S \in SUBSET (0 .. n), S # {}
  PROVE  Max(S) \in S /\ \A y \in S : y =< Max(S)
<1> DEFINE T == {x \in 0 .. n : n - x \in S}
<1>1. ASSUME NEW y \in S PROVE n - y \in T
  <2>1. n - y \in 0 .. n /\ n - (n - y) = y
    OBVIOUS
  <2> QED BY <2>1
<1>2. T \in SUBSET Nat /\ T # {}
  <2>1. PICK y \in S : TRUE
    OBVIOUS
  <2>2. n - y \in T
    BY <1>1, <2>1
  <2>3. \A z \in T : z \in Nat
    OBVIOUS
  <2> HIDE DEF T
  <2> QED BY <2>2, <2>3
<1> DEFINE x == n - Min(T)
<1>3. Min(T) \in T /\ \A y \in T : Min(T) =< y
  BY <1>2, LeastOf
<1>4. Min(T) \in 0 .. n /\ x \in S
  BY <1>3
<1>5. ASSUME NEW y \in S PROVE x >= y
  <2>1. Min(T) =< n - y
    BY <1>1, <1>3
  <2> HIDE DEF T
  <2> QED BY <1>4, <2>1
<1> HIDE DEF x
<1>6. \E z \in S : \A y \in S : z >= y
  BY <1>4, <1>5
<1>7. Max(S) \in S /\ \A y \in S : Max(S) >= y
  BY <1>6 DEF Max
<1>8. S \subseteq Nat
  OBVIOUS
<1> QED BY <1>7, <1>8

\* Python compares tuples from the left: a strict total order.
Tuples == [1 .. 7 -> Int]

LEMMA BeforeOrder ==
  ASSUME NEW x \in Tuples, NEW y \in Tuples, NEW z \in Tuples
  PROVE  /\ ~ Before(x, x)
         /\ x # y => Before(x, y) \/ Before(y, x)
         /\ Before(x, y) /\ Before(y, z) => Before(x, z)
<1>1. /\ DOMAIN x = 1 .. 7 /\ DOMAIN y = 1 .. 7
      /\ \A k \in 1 .. 7 : x[k] \in Int /\ y[k] \in Int /\ z[k] \in Int
  BY DEF Tuples
<1>2. ~ Before(x, x)
  BY <1>1 DEF Before
<1>3. ASSUME x # y PROVE Before(x, y) \/ Before(y, x)
  <2> DEFINE D == {k \in 1 .. 7 : x[k] # y[k]}
  <2>1. D # {}
    BY <1>3 DEF Tuples
  <2>2. D \in SUBSET Nat
    OBVIOUS
  <2>3. Min(D) \in D /\ \A k \in D : Min(D) =< k
    BY <2>1, <2>2, LeastOf
  <2>4. PICK m \in 1 .. 7 : x[m] # y[m] /\ \A k \in D : m =< k
    BY <2>3
  <2>5. ASSUME NEW j \in 1 .. m - 1 PROVE x[j] = y[j]
    BY <2>4
  <2> HIDE DEF D
  <2>6. x[m] < y[m] \/ y[m] < x[m]
    BY <1>1, <2>4
  <2> QED BY <1>1, <2>5, <2>6 DEF Before
<1>4. ASSUME Before(x, y), Before(y, z) PROVE Before(x, z)
  <2>1. PICK k \in 1 .. 7 : x[k] < y[k] /\ \A j \in 1 .. k - 1 : x[j] = y[j]
    BY <1>1, <1>4 DEF Before
  <2>2. PICK l \in 1 .. 7 : y[l] < z[l] /\ \A j \in 1 .. l - 1 : y[j] = z[j]
    BY <1>1, <1>4 DEF Before
  <2>3. CASE k =< l
    <3>1. x[k] < z[k]
      <4>1. y[k] =< z[k]
        BY <1>1, <2>2, <2>3
      <4> QED BY <1>1, <2>1, <4>1
    <3>2. \A j \in 1 .. k - 1 : x[j] = z[j]
      BY <2>1, <2>2, <2>3
    <3> QED BY <1>1, <3>1, <3>2 DEF Before
  <2>4. CASE l < k
    <3>1. x[l] < z[l] /\ \A j \in 1 .. l - 1 : x[j] = z[j]
      BY <2>1, <2>2, <2>4
    <3> QED BY <1>1, <3>1 DEF Before
  <2> QED BY <2>3, <2>4
<1> QED BY <1>2, <1>3, <1>4
-----------------------------------------------------------------------------
(***************************************************************************)
(* Sorting a set of things <<key, pos>>.                                   *)
(***************************************************************************)
Keyed(S) ==
  /\ IsFiniteSet(S)
  /\ \A x \in S : x[1] \in Tuples
  /\ \A x, y \in S : x[1] = y[1] => x = y

Ahead(S, x) == {y \in S : Before(y[1], x[1])}

\* How many are ahead is the place in the result.
LEMMA PlaceType ==
  ASSUME NEW S, Keyed(S), NEW x \in S
  PROVE  /\ IsFiniteSet(Ahead(S, x)) /\ Cardinality(S) \in Nat \ {0}
         /\ Cardinality(Ahead(S, x)) \in 0 .. Cardinality(S) - 1
<1>1. Ahead(S, x) \subseteq S \ {x}
  BY BeforeOrder DEF Ahead, Keyed
<1>2. /\ IsFiniteSet(S \ {x}) /\ Cardinality(S \ {x}) = Cardinality(S) - 1
      /\ Cardinality(S) \in Nat /\ Cardinality(S \ {x}) \in Nat
  BY FS_RemoveElement, FS_CardinalityType DEF Keyed
<1>3. /\ IsFiniteSet(Ahead(S, x)) /\ Cardinality(Ahead(S, x)) =< Cardinality(S \ {x})
      /\ Cardinality(Ahead(S, x)) \in Nat
  BY <1>1, <1>2, FS_Subset, FS_CardinalityType
<1> QED BY <1>2, <1>3

LEMMA PlaceLess ==
  ASSUME NEW S, Keyed(S), NEW x \in S, NEW y \in S, Before(x[1], y[1])
  PROVE  Cardinality(Ahead(S, x)) < Cardinality(Ahead(S, y))
<1> DEFINE X == Ahead(S, x)
           Y == Ahead(S, y)
<1>1. X \subseteq Y \ {x} /\ x \in Y
  BY BeforeOrder DEF Ahead, Keyed
<1>2. IsFiniteSet(X) /\ IsFiniteSet(Y)
  BY PlaceType
<1> HIDE DEF X, Y
<1>3. IsFiniteSet(Y \ {x}) /\ Cardinality(Y \ {x}) = Cardinality(Y) - 1
  BY <1>1, <1>2, FS_RemoveElement
<1>4. Cardinality(X) =< Cardinality(Y \ {x}) /\ Cardinality(X) \in Nat /\ Cardinality(Y) \in Nat
  BY <1>1, <1>2, <1>3, FS_Subset, FS_CardinalityType
<1>5. Cardinality(X) < Cardinality(Y)
  BY <1>3, <1>4
<1> QED BY <1>5 DEF X, Y

LEMMA PlaceOnce ==
  ASSUME NEW S, Keyed(S), NEW x \in S, NEW y \in S,
         Cardinality(Ahead(S, x)) = Cardinality(Ahead(S, y))
  PROVE  x = y
<1> SUFFICES ASSUME x # y PROVE FALSE
  OBVIOUS
<1>1. Before(x[1], y[1]) \/ Before(y[1], x[1])
  BY BeforeOrder DEF Keyed
<1>2. \/ Cardinality(Ahead(S, x)) < Cardinality(Ahead(S, y))
      \/ Cardinality(Ahead(S, y)) < Cardinality(Ahead(S, x))
  BY <1>1, PlaceLess
<1>3. Cardinality(Ahead(S, x)) \in Nat
  BY PlaceType
<1> QED BY <1>2, <1>3

LEMMA PlaceOnto ==
  ASSUME NEW S, Keyed(S), NEW r \in 0 .. Cardinality(S) - 1
  PROVE  \E x \in S : Cardinality(Ahead(S, x)) = r
<1> DEFINE c == Cardinality(S)
           f == [x \in S |-> Cardinality(Ahead(S, x))]
<1>1. c \in Nat
  BY FS_CardinalityType DEF Keyed
<1>2. IsFiniteSet(0 .. c - 1) /\ Cardinality(0 .. c - 1) = c
  <2>1. 0 \in Int /\ c - 1 \in Int
    BY <1>1
  <2>2. /\ IsFiniteSet(0 .. c - 1)
        /\ Cardinality(0 .. c - 1) = IF 0 > c - 1 THEN 0 ELSE (c - 1) - 0 + 1
    BY <2>1, FS_Interval, Zenon
  <2> QED BY <1>1, <2>2
<1>3. f \in [S -> 0 .. c - 1]
  BY PlaceType
<1>4. ASSUME NEW x \in S, NEW y \in S, f[x] = f[y] PROVE x = y
  BY <1>4, PlaceOnce
<1>5. f \in Injection(S, 0 .. c - 1)
  BY <1>3, <1>4 DEF Injection, IsInjective
<1>6. f \in Surjection(S, 0 .. c - 1)
  BY <1>2, <1>5, FS_Injection
<1> QED BY <1>6 DEF Surjection

\* Taken by their places, all come, and in the order of their keys.
At(S, k) == CHOOSE x \in S : Cardinality(Ahead(S, x)) = k - 1

LEMMA Sorted ==
  ASSUME NEW S, Keyed(S)
  PROVE  /\ Cardinality(S) \in Nat
         /\ \A k \in 1 .. Cardinality(S) : At(S, k) \in S
         /\ \A x \in S : \E k \in 1 .. Cardinality(S) : At(S, k) = x
         /\ \A k, l \in 1 .. Cardinality(S) : k < l => Before(At(S, k)[1], At(S, l)[1])
<1> DEFINE c == Cardinality(S)
<1>1. c \in Nat
  BY FS_CardinalityType DEF Keyed
<1>2. ASSUME NEW k \in 1 .. c
      PROVE  At(S, k) \in S /\ Cardinality(Ahead(S, At(S, k))) = k - 1
  <2>1. k - 1 \in 0 .. c - 1
    BY <1>1
  <2>2. \E x \in S : Cardinality(Ahead(S, x)) = k - 1
    BY <2>1, PlaceOnto
  <2> QED BY <2>2 DEF At
<1>3. ASSUME NEW x \in S PROVE \E k \in 1 .. c : At(S, k) = x
  <2> DEFINE k == Cardinality(Ahead(S, x)) + 1
  <2>1. k \in 1 .. c /\ Cardinality(Ahead(S, x)) = k - 1
    BY <1>1, PlaceType
  <2> HIDE DEF k
  <2>2. At(S, k) = x
    BY <1>2, <2>1, PlaceOnce
  <2> QED BY <2>1, <2>2
<1>4. ASSUME NEW k \in 1 .. c, NEW l \in 1 .. c, k < l
      PROVE  Before(At(S, k)[1], At(S, l)[1])
  <2>1. /\ At(S, k) \in S /\ Cardinality(Ahead(S, At(S, k))) = k - 1
        /\ At(S, l) \in S /\ Cardinality(Ahead(S, At(S, l))) = l - 1
    BY <1>2
  <2>2. At(S, k) # At(S, l)
    BY <1>1, <1>4, <2>1
  <2>3. ~ Before(At(S, l)[1], At(S, k)[1])
    <3> SUFFICES ASSUME Before(At(S, l)[1], At(S, k)[1]) PROVE FALSE
      OBVIOUS
    <3>1. Cardinality(Ahead(S, At(S, l))) < Cardinality(Ahead(S, At(S, k)))
      BY <2>1, PlaceLess
    <3> QED BY <1>1, <1>4, <2>1, <3>1
  <2> QED BY <2>1, <2>2, <2>3, BeforeOrder DEF Keyed
<1> HIDE DEF c
<1>5. c = Cardinality(S)
  BY DEF c
<1> QED BY <1>1, <1>2, <1>3, <1>4, <1>5
-----------------------------------------------------------------------------
(***************************************************************************)
(* What is charted.                                                        *)
(***************************************************************************)
LEMMA FiniteImage ==
  ASSUME NEW S, IsFiniteSet(S), NEW f, DOMAIN f = S, f = [x \in S |-> f[x]]
  PROVE  IsFiniteSet({f[x] : x \in S})
<1> DEFINE T == {f[x] : x \in S}
<1>1. f \in [S -> T]
  OBVIOUS
<1>2. f \in Surjection(S, T)
  BY <1>1 DEF Surjection
<1> QED BY <1>2, FS_Surjection

\* A market that is asked for is one of Gamma's, and has its tokens.
LEMMA AskedMarkets ==
  /\ IsFiniteSet(Asked)
  /\ \A m \in Asked : /\ m \in Market /\ m.tokens # <<>> /\ Len(m.tokens) = Len(m.outcomes)
                      /\ Request.by # "token"
<1> DEFINE all == OpenMarkets \o ClosedMarkets
           first == {k \in DOMAIN all : /\ all[k].id # ""
                                        /\ \A j \in 1 .. k - 1 : all[j].id # all[k].id}
           f == [k \in first |-> all[k]]
<1>1. all \in Seq(Market) /\ Len(all) \in Nat /\ DOMAIN all = 1 .. Len(all)
  BY ChartAssumption, ConcatProperties
<1>2. IsFiniteSet(1 .. Len(all))
  BY <1>1, FS_Interval, 1 \in Int, Len(all) \in Int, Zenon
<1>3. IsFiniteSet(first)
  BY <1>1, <1>2, FS_Subset
<1>4. gamma_markets = {all[k] : k \in first}
  BY DEF gamma_markets
<1> HIDE DEF all
<1> HIDE DEF first
<1>5. /\ DOMAIN f = first /\ f = [k \in first |-> f[k]]
      /\ {f[k] : k \in first} = {all[k] : k \in first}
  OBVIOUS
<1> HIDE DEF f
<1>6. IsFiniteSet(gamma_markets)
  BY <1>3, <1>4, <1>5, FiniteImage
<1>7. Asked \subseteq gamma_markets
  BY DEF Asked, Picked
<1>8. ASSUME NEW m \in Asked
      PROVE  /\ m \in Market /\ m.tokens # <<>> /\ Len(m.tokens) = Len(m.outcomes)
             /\ Request.by # "token"
  <2>1. PICK k \in first : m = all[k]
    BY <1>4, <1>7
  <2>2. k \in 1 .. Len(all)
    BY <1>1, <2>1 DEF first
  <2>3. m \in Market /\ m \in Range(all)
    BY <1>1, <2>1, <2>2, ElementOfSeq DEF Range
  <2>4. Len(m.tokens) = Len(m.outcomes)
    BY <2>3, ChartAssumption DEF all
  <2> QED BY <2>3, <2>4 DEF Asked, Picked
<1> QED BY <1>6, <1>7, <1>8, FS_Subset

\* The labels are numbered.
LEMMA LabelsRanked ==
  ASSUME Request.by # "token"
  PROVE  Rank \in [Labels -> Int]
<1> DEFINE tokens == {YesToken(m) : m \in Asked}
           f == [m \in Asked |-> YesToken(m)]
<1>1. DOMAIN watch = tokens /\ watch = [t \in tokens |-> watch[t]]
  BY DEF watch
<1>2. IsFiniteSet(tokens)
  <2>1. DOMAIN f = Asked /\ f = [m \in Asked |-> f[m]] /\ {f[m] : m \in Asked} = tokens
    OBVIOUS
  <2> HIDE DEF f, tokens
  <2>2. IsFiniteSet({f[m] : m \in Asked})
    BY <2>1, AskedMarkets, FiniteImage
  <2> QED BY <2>1, <2>2
<1> HIDE DEF tokens
<1>3. IsFiniteSet(Labels)
  BY <1>1, <1>2, FiniteImage DEF Labels
<1> DEFINE c == Cardinality(Labels)
<1>4. c \in Nat /\ ExistsBijection(1 .. c, Labels)
  BY <1>3, FS_CardinalityType
<1>5. ExistsBijection(Labels, 1 .. c)
  BY <1>4, Fun_ExistsBijSymmetric
<1>6. \E r \in [Labels -> 1 .. c] : IsInjective(r)
  BY <1>5 DEF ExistsBijection, Bijection, Injection
<1>7. Rank \in [Labels -> 1 .. c]
  BY <1>6 DEF Rank
<1> QED BY <1>7

\* An item that is charted has a midpoint.
LEMMA ItemTypes ==
  ASSUME NEW f \in Frames
  PROVE  /\ Items(f) \in Seq(Item)
         /\ \A i \in DOMAIN Items(f) : HasMid(Items(f)[i]) => Mid(Items(f)[i]) \in Nat
<1>1. Items(f) \in Seq(Item)
  <2>1. Payload[f].items \in Seq(Item)
    BY ChartAssumption
  <2> QED BY <2>1, EmptySeq DEF Items
<1>2. ASSUME NEW i \in DOMAIN Items(f), HasMid(Items(f)[i]) PROVE Mid(Items(f)[i]) \in Nat
  <2> DEFINE it == Items(f)[i]
  <2>1. it \in Item
    BY <1>1, <1>2, ElementOfSeq
  <2>2. it.bids \in SUBSET (0 .. MaxPrice) /\ it.asks \in SUBSET (0 .. MaxPrice)
    BY <2>1 DEF Item
  <2>3. it.bids # {} /\ it.asks # {} /\ MaxPrice \in Nat
    BY <1>2, ChartAssumption DEF HasMid
  <2> HIDE DEF it
  <2>4. it.asks \in SUBSET Nat
    BY <2>2, <2>3
  <2>5. Max(it.bids) \in it.bids /\ Min(it.asks) \in it.asks
    BY <2>2, <2>3, <2>4, LeastOf, GreatestOf
  <2>6. Max(it.bids) \in Nat /\ Min(it.asks) \in Nat
    BY <2>2, <2>3, <2>5
  <2> QED BY <2>6 DEF Mid, it
<1> QED BY <1>1, <1>2
-----------------------------------------------------------------------------
(***************************************************************************)
(* The events of a chart.                                                  *)
(***************************************************************************)

\* The days of a window that ends now.
LEMMA WindowDays ==
  ASSUME CInv, NEW start \in 0 .. clock
  PROVE  /\ start \in Nat /\ clock \in Nat /\ MaxDay \in Nat
         /\ DateOf(start) \in Nat /\ DateOf(clock) = day /\ day \in 0 .. MaxDay
<1>1. start \in Nat /\ clock \in Nat /\ day \in 0 .. MaxDay /\ MaxDay \in Nat
  BY PipelineAssumption DEF CInv, Stamped, PInv, PTypeOK, Flush!FTypeOK, Flush!Days
<1>2. DateOf(start) \in Nat /\ DateOf(clock) = day
  BY <1>1, Dates DEF CInv, Dated
<1> QED BY <1>1, <1>2

\* The keys of a window are finitely many, and each is of an object.
LEMMA KeysListed ==
  ASSUME CInv, NEW start \in 0 .. clock
  PROVE  /\ IsFiniteSet(ListKeys(start, clock))
         /\ \A key \in ListKeys(start, clock) :
              /\ key = <<key[1], key[2]>> /\ key[1] \in 0 .. MaxDay /\ key[2] \in Frames
              /\ s3[key[1]][key[2]] \in Seq(Nat)
<1> DEFINE days == DateOf(start) .. DateOf(clock)
<1>1. /\ start \in Nat /\ clock \in Nat /\ MaxDay \in Nat /\ MaxFrames \in Nat
      /\ DateOf(start) \in Nat /\ DateOf(clock) = day /\ day \in 0 .. MaxDay
  BY WindowDays, PipelineAssumption, ArchiverAssumption
<1>2. IsFiniteSet(days)
  <2>1. DateOf(start) \in Int /\ DateOf(clock) \in Int
    BY <1>1
  <2> QED BY <2>1, FS_Interval, Zenon
<1>3. IsFiniteSet(Frames)
  <2>1. 1 \in Int /\ MaxFrames \in Int
    BY <1>1
  <2> QED BY <2>1, FS_Interval, Zenon DEF Frames
<1>4. IsFiniteSet(days \X Frames)
  BY <1>2, <1>3, FS_Product
<1>5. ListKeys(start, clock) \in SUBSET (days \X Frames)
  BY DEF ListKeys
<1>6. ASSUME NEW key \in ListKeys(start, clock)
      PROVE  /\ key = <<key[1], key[2]>> /\ key[1] \in 0 .. MaxDay /\ key[2] \in Frames
             /\ s3[key[1]][key[2]] \in Seq(Nat)
  <2>1. key \in days \X Frames /\ s3[key[1]][key[2]] # NoFile
    BY DEF ListKeys
  <2>2. key = <<key[1], key[2]>> /\ key[1] \in days /\ key[2] \in Frames
    BY <2>1
  <2>3. key[1] \in 0 .. MaxDay
    BY <1>1, <2>2
  <2>4. s3[key[1]][key[2]] = made[key[2]] /\ made[key[2]] # NoFile
    BY <2>1, <2>2, <2>3 DEF CInv, PInv, FP!FInv, FP!ObjectsComplete, FP!Days
  <2> QED BY <2>2, <2>3, <2>4, FilesRecorded DEF CInv, Recorded
<1> QED BY <1>4, <1>5, <1>6, FS_Subset

\* A line that is read has a frame and its stamp.
LEMMA FramesRead ==
  ASSUME CInv, NEW start \in 0 .. clock, NEW line \in LinesRead(start, clock)
  PROVE  /\ FrameAt(line) \in Frames /\ stamp[FrameAt(line)] \in Nat
         /\ \E d \in Nat, g \in Nat, n \in Nat : line = <<d, g, n>>
<1>1. FrameAt(line) \in DOMAIN stamp
  BY LinesAreFrames DEF InBucket
<1>2. arrived \in 0 .. MaxFrames /\ stamp \in Seq(Nat) /\ Len(stamp) = arrived
  BY DEF CInv, Stamped, PInv, PTypeOK, ATypeOK
<1>3. FrameAt(line) \in Frames /\ stamp[FrameAt(line)] \in Nat
  BY <1>1, <1>2, ElementOfSeq, ArchiverAssumption DEF Frames
<1>4. PICK key \in ListKeys(start, clock) :
        line \in {<<key[1], key[2], i>> : i \in DOMAIN s3[key[1]][key[2]]}
  BY DEF LinesRead
<1>5. PICK n \in DOMAIN s3[key[1]][key[2]] : line = <<key[1], key[2], n>>
  BY <1>4
<1>6. key[1] \in Nat /\ key[2] \in Nat /\ n \in Nat
  <2>1. key[1] \in 0 .. MaxDay /\ key[2] \in Frames /\ s3[key[1]][key[2]] \in Seq(Nat)
    BY <1>4, KeysListed
  <2>2. n \in Nat
    BY <1>5, <2>1
  <2> QED BY <2>1, <2>2, PipelineAssumption, ArchiverAssumption DEF Frames
<1> QED BY <1>3, <1>5, <1>6

\* What is read of a window is finite.
LEMMA EventsFinite ==
  ASSUME CInv, NEW start \in 0 .. clock
  PROVE  IsFiniteSet(EventsRead(start, clock))
<1> DEFINE keys == ListKeys(start, clock)
           lines(key) == {<<key[1], key[2], i>> : i \in DOMAIN s3[key[1]][key[2]]}
           read == LinesRead(start, clock)
           items(line) == {<<line, i>> : i \in DOMAIN Items(FrameAt(line))}
<1>1. ASSUME NEW key \in keys PROVE IsFiniteSet(lines(key))
  <2> DEFINE n == Len(s3[key[1]][key[2]])
             f == [i \in 1 .. n |-> <<key[1], key[2], i>>]
  <2>1. n \in Nat /\ DOMAIN s3[key[1]][key[2]] = 1 .. n
    BY KeysListed
  <2>2. DOMAIN f = 1 .. n /\ f = [i \in 1 .. n |-> f[i]]
    OBVIOUS
  <2>3. {f[i] : i \in 1 .. n} = lines(key)
    BY <2>1
  <2> HIDE DEF f, n
  <2>4. IsFiniteSet(1 .. n)
    BY <2>1, FS_Interval, 1 \in Int, n \in Int, Zenon
  <2>5. IsFiniteSet({f[i] : i \in 1 .. n})
    BY <2>2, <2>4, FiniteImage
  <2> HIDE DEF lines
  <2> QED BY <2>3, <2>5
<1>2. IsFiniteSet(read)
  <2> DEFINE f == [key \in keys |-> lines(key)]
  <2>1. DOMAIN f = keys /\ f = [key \in keys |-> f[key]]
        /\ {f[key] : key \in keys} = {lines(key) : key \in keys}
    OBVIOUS
  <2>2. read \in SUBSET UNION {lines(key) : key \in keys}
    BY DEF LinesRead
  <2> HIDE DEF f, lines, read
  <2>3. IsFiniteSet({f[key] : key \in keys})
    BY <2>1, KeysListed, FiniteImage
  <2>4. IsFiniteSet({lines(key) : key \in keys})
    BY <2>1, <2>3
  <2>5. IsFiniteSet(UNION {lines(key) : key \in keys})
    BY <1>1, <2>4, FS_UNION
  <2> QED BY <2>2, <2>5, FS_Subset
<1>3. ASSUME NEW line \in read PROVE IsFiniteSet(items(line))
  <2> DEFINE n == Len(Items(FrameAt(line)))
             f == [i \in 1 .. n |-> <<line, i>>]
  <2>1. n \in Nat /\ DOMAIN Items(FrameAt(line)) = 1 .. n
    <3>1. FrameAt(line) \in Frames
      BY FramesRead
    <3> QED BY <3>1, ItemTypes
  <2>2. DOMAIN f = 1 .. n /\ f = [i \in 1 .. n |-> f[i]]
    OBVIOUS
  <2>3. {f[i] : i \in 1 .. n} = items(line)
    BY <2>1
  <2> HIDE DEF f, n
  <2>4. IsFiniteSet(1 .. n)
    BY <2>1, FS_Interval, 1 \in Int, n \in Int, Zenon
  <2>5. IsFiniteSet({f[i] : i \in 1 .. n})
    BY <2>2, <2>4, FiniteImage
  <2> HIDE DEF items
  <2> QED BY <2>3, <2>5
<1> DEFINE f == [line \in read |-> items(line)]
<1>4. DOMAIN f = read /\ f = [line \in read |-> f[line]]
      /\ {f[line] : line \in read} = {items(line) : line \in read}
  OBVIOUS
<1>5. EventsRead(start, clock) \in SUBSET UNION {items(line) : line \in read}
  BY DEF EventsRead
<1> HIDE DEF f, items, read
<1>6. IsFiniteSet({f[line] : line \in read})
  BY <1>2, <1>4, FiniteImage
<1>7. IsFiniteSet({items(line) : line \in read})
  BY <1>4, <1>6
<1>8. IsFiniteSet(UNION {items(line) : line \in read})
  BY <1>3, <1>7, FS_UNION
<1> QED BY <1>5, <1>8, FS_Subset

\* An event has a place in the bucket, and a time, a label and a midpoint.
LEMMA EventTypes ==
  ASSUME CInv, Request.by # "token", NEW start \in 0 .. clock,
         NEW pos \in EventsRead(start, clock)
  PROVE  /\ \E d \in Nat, g \in Nat, n \in Nat, i \in Nat : pos = <<<<d, g, n>>, i>>
         /\ pos[1] \in LinesRead(start, clock) /\ pos[2] \in DOMAIN Items(FrameAt(pos[1]))
         /\ ItemAt(pos).asset \in DOMAIN watch /\ HasMid(ItemAt(pos))
         /\ Event(pos).ts \in Nat /\ Event(pos).label \in Labels /\ Event(pos).pct \in Nat
         /\ SortKey(pos) \in Tuples
<1> DEFINE items(line) == {<<line, i>> : i \in DOMAIN Items(FrameAt(line))}
<1>1. /\ pos \in UNION {items(line) : line \in LinesRead(start, clock)}
      /\ ItemAt(pos).asset \in DOMAIN watch /\ HasMid(ItemAt(pos))
  BY DEF EventsRead
<1>2. PICK line \in LinesRead(start, clock) : pos \in items(line)
  BY <1>1
<1>3. PICK i \in DOMAIN Items(FrameAt(line)) : pos = <<line, i>>
  BY <1>2
<1>4. /\ FrameAt(line) \in Frames /\ stamp[FrameAt(line)] \in Nat
      /\ \E d \in Nat, g \in Nat, n \in Nat : line = <<d, g, n>>
  BY FramesRead
<1>5. PICK d \in Nat, g \in Nat, n \in Nat : line = <<d, g, n>>
  BY <1>4
<1>6. pos[1] = line /\ pos[2] = i /\ ItemAt(pos) = Items(FrameAt(line))[i]
  BY <1>3 DEF ItemAt
<1>7. Items(FrameAt(line)) \in Seq(Item) /\ Mid(ItemAt(pos)) \in Nat
  BY <1>1, <1>4, <1>6, ItemTypes
<1>8. i \in Nat
  BY <1>7
<1>9. /\ Event(pos).ts = stamp[FrameAt(line)] /\ Event(pos).label = watch[ItemAt(pos).asset]
      /\ Event(pos).pct = Mid(ItemAt(pos))
  BY <1>6 DEF Event
<1>10. Event(pos).label \in Labels
  BY <1>1, <1>9 DEF Labels
<1>11. Rank[Event(pos).label] \in Int
  BY <1>10, LabelsRanked
<1>12. SortKey(pos) = <<Event(pos).ts, Rank[Event(pos).label], Event(pos).pct, d, g, n, i>>
  BY <1>5, <1>6 DEF SortKey
<1>13. SortKey(pos) \in Tuples
  <2> DEFINE a == Event(pos).ts
             b == Rank[Event(pos).label]
             c == Event(pos).pct
  <2>1. a \in Int /\ b \in Int /\ c \in Int
    BY <1>4, <1>7, <1>9, <1>11
  <2> HIDE DEF a, b, c
  <2>2. <<a, b, c, d, g, n, i>> \in [1 .. 7 -> Int]
    BY <1>8, <2>1
  <2> QED BY <1>12, <2>2 DEF Tuples, a, b, c
<1> QED BY <1>1, <1>3, <1>4, <1>5, <1>6, <1>7, <1>8, <1>9, <1>10, <1>13

\* Events are told apart by their keys, which begin with their times.
LEMMA EventKeys ==
  ASSUME CInv, Request.by # "token", NEW start \in 0 .. clock,
         NEW p \in EventsRead(start, clock), NEW q \in EventsRead(start, clock)
  PROVE  /\ SortKey(p) = SortKey(q) => p = q
         /\ Before(SortKey(p), SortKey(q)) => Event(p).ts =< Event(q).ts
<1>1. PICK d \in Nat, g \in Nat, n \in Nat, i \in Nat : p = <<<<d, g, n>>, i>>
  BY EventTypes
<1>2. PICK e \in Nat, h \in Nat, o \in Nat, j \in Nat : q = <<<<e, h, o>>, j>>
  BY EventTypes
<1>3. /\ SortKey(p) = <<Event(p).ts, Rank[Event(p).label], Event(p).pct, d, g, n, i>>
      /\ SortKey(q) = <<Event(q).ts, Rank[Event(q).label], Event(q).pct, e, h, o, j>>
  BY <1>1, <1>2 DEF SortKey
<1>4. ASSUME SortKey(p) = SortKey(q) PROVE p = q
  BY <1>1, <1>2, <1>3, <1>4
<1>5. ASSUME Before(SortKey(p), SortKey(q)) PROVE Event(p).ts =< Event(q).ts
  <2>1. SortKey(p) \in Tuples /\ Event(p).ts \in Nat /\ Event(q).ts \in Nat
    BY EventTypes
  <2>2. DOMAIN SortKey(p) = 1 .. 7
    BY <2>1 DEF Tuples
  <2>3. PICK k \in 1 .. 7 : /\ SortKey(p)[k] < SortKey(q)[k]
                            /\ \A l \in 1 .. k - 1 : SortKey(p)[l] = SortKey(q)[l]
    BY <1>5, <2>2 DEF Before
  <2>4. SortKey(p)[1] = Event(p).ts /\ SortKey(q)[1] = Event(q).ts
    BY <1>3
  <2>5. CASE k = 1
    BY <2>1, <2>3, <2>4, <2>5
  <2>6. CASE k > 1
    <3>1. 1 \in 1 .. k - 1
      BY <2>6
    <3> QED BY <2>1, <2>3, <2>4, <3>1
  <2> QED BY <2>5, <2>6
<1> QED BY <1>4, <1>5

\* extract_series gives the events that are read, all of them, by their times.
LEMMA SeriesSorted ==
  ASSUME CInv, Request.by # "token", NEW start \in 0 .. clock
  PROVE  LET es == ExtractSeries(start, clock)
         IN  \E n \in Nat :
               /\ DOMAIN es = 1 .. n
               /\ \A k \in 1 .. n : \E pos \in EventsRead(start, clock) : es[k] = Event(pos)
               /\ \A pos \in EventsRead(start, clock) : \E k \in 1 .. n : es[k] = Event(pos)
               /\ \A k, l \in 1 .. n : k < l => es[k].ts =< es[l].ts
<1> DEFINE read == EventsRead(start, clock)
           f == [pos \in read |-> <<SortKey(pos), pos>>]
           S == {<<SortKey(pos), pos>> : pos \in read}
           n == Cardinality(S)
           es == ExtractSeries(start, clock)
<1>1. IsFiniteSet(S)
  <2>1. DOMAIN f = read /\ f = [pos \in read |-> f[pos]]
    OBVIOUS
  <2>2. {f[pos] : pos \in read} = S
    OBVIOUS
  <2> HIDE DEF f
  <2>3. IsFiniteSet({f[pos] : pos \in read})
    BY <2>1, EventsFinite, FiniteImage
  <2> HIDE DEF S
  <2> QED BY <2>2, <2>3
<1>2. \A x \in S : \E pos \in read : x = <<SortKey(pos), pos>>
  OBVIOUS
<1>3. \A pos \in read : <<SortKey(pos), pos>> \in S
  OBVIOUS
<1>4. es = [k \in 1 .. n |-> Event(At(S, k)[2])]
  BY DEF ExtractSeries, At, Ahead
<1> HIDE DEF S, es, read
<1>5. Keyed(S)
  <2>1. \A x \in S : x[1] \in Tuples
    BY <1>2, EventTypes DEF read
  <2>2. \A x, y \in S : x[1] = y[1] => x = y
    BY <1>2, EventKeys DEF read
  <2> QED BY <1>1, <2>1, <2>2 DEF Keyed
<1>6. /\ n \in Nat
      /\ \A k \in 1 .. n : At(S, k) \in S
      /\ \A x \in S : \E k \in 1 .. n : At(S, k) = x
      /\ \A k, l \in 1 .. n : k < l => Before(At(S, k)[1], At(S, l)[1])
  BY <1>5, Sorted
<1> HIDE DEF n
<1>7. DOMAIN es = 1 .. n /\ \A k \in 1 .. n : es[k] = Event(At(S, k)[2])
  BY <1>4
<1>8. ASSUME NEW k \in 1 .. n
      PROVE  \E pos \in read : At(S, k) = <<SortKey(pos), pos>> /\ es[k] = Event(pos)
  <2>1. PICK pos \in read : At(S, k) = <<SortKey(pos), pos>>
    BY <1>2, <1>6
  <2> QED BY <1>7, <2>1
<1>9. ASSUME NEW pos \in read PROVE \E k \in 1 .. n : es[k] = Event(pos)
  <2>1. PICK k \in 1 .. n : At(S, k) = <<SortKey(pos), pos>>
    BY <1>3, <1>6
  <2> QED BY <1>7, <2>1
<1>10. ASSUME NEW k \in 1 .. n, NEW l \in 1 .. n, k < l PROVE es[k].ts =< es[l].ts
  <2>1. PICK p \in read : At(S, k) = <<SortKey(p), p>> /\ es[k] = Event(p)
    BY <1>8
  <2>2. PICK q \in read : At(S, l) = <<SortKey(q), q>> /\ es[l] = Event(q)
    BY <1>8
  <2>3. Before(SortKey(p), SortKey(q))
    BY <1>6, <1>10, <2>1, <2>2
  <2> QED BY <2>1, <2>2, <2>3, EventKeys DEF read
<1> QED BY <1>6, <1>7, <1>8, <1>9, <1>10 DEF es, read
-----------------------------------------------------------------------------
(***************************************************************************)
(* The last row.                                                           *)
(***************************************************************************)

\* The token of outcome "Yes" is found by its place, and is the first one if no
\* outcome is called so.
LEMMA YesPlace ==
  ASSUME NEW m \in Asked
  PROVE  YesToken(m) = m.tokens[Min({i \in DOMAIN m.tokens :
                          m.outcomes[i] = "yes" \/ "yes" \notin Range(m.outcomes)})]
<1> DEFINE yes == {i \in DOMAIN m.outcomes : m.outcomes[i] = "yes"}
           n == Len(m.tokens)
<1>1. /\ m.tokens # <<>> /\ Len(m.outcomes) = n /\ n \in Nat
      /\ DOMAIN m.tokens = 1 .. n /\ DOMAIN m.outcomes = 1 .. n
  BY AskedMarkets DEF Market
<1>2. n # 0
  BY <1>1, AskedMarkets DEF Market
<1>3. CASE yes = {}
  <2>1. "yes" \notin Range(m.outcomes)
    BY <1>3 DEF Range
  <2>2. {i \in DOMAIN m.tokens : m.outcomes[i] = "yes" \/ "yes" \notin Range(m.outcomes)} = 1 .. n
    BY <1>1, <2>1
  <2>3. Min(1 .. n) = 1
    <3>1. 1 .. n \in SUBSET Nat /\ 1 \in 1 .. n
      BY <1>1, <1>2
    <3>2. Min(1 .. n) \in 1 .. n /\ Min(1 .. n) =< 1
      BY <3>1, LeastOf
    <3> QED BY <1>1, <3>2
  <2> QED BY <1>3, <2>2, <2>3 DEF YesToken
<1>4. CASE yes # {}
  <2>1. "yes" \in Range(m.outcomes)
    BY <1>4 DEF Range
  <2>2. {i \in DOMAIN m.tokens : m.outcomes[i] = "yes" \/ "yes" \notin Range(m.outcomes)} = yes
    BY <1>1, <2>1
  <2> QED BY <1>4, <2>2 DEF YesToken
<1> QED BY <1>3, <1>4

\* A label that no other market has is the label of the market's token only.
LEMMA LabelOfToken ==
  ASSUME NEW m \in Asked, ToldApart(m)
  PROVE  /\ YesToken(m) \in DOMAIN watch /\ watch[YesToken(m)] = shorten_label(m)
         /\ \A t \in DOMAIN watch : watch[t] = shorten_label(m) => t = YesToken(m)
<1>1. watch = [t \in {YesToken(n) : n \in Asked} |->
                 shorten_label(CHOOSE n \in Asked : YesToken(n) = t)]
  BY AskedMarkets DEF watch
<1>2. \A n \in Asked : n # m => YesToken(n) # YesToken(m) /\ shorten_label(n) # shorten_label(m)
  BY DEF ToldApart
<1> DEFINE owner(t) == CHOOSE n \in Asked : YesToken(n) = t
<1>3. owner(YesToken(m)) = m
  BY <1>2
<1>4. ASSUME NEW t \in DOMAIN watch PROVE owner(t) \in Asked /\ YesToken(owner(t)) = t
  BY <1>1
<1>5. \A t \in DOMAIN watch : watch[t] = shorten_label(owner(t))
  BY <1>1
<1>6. YesToken(m) \in DOMAIN watch
  BY <1>1
<1> HIDE DEF owner
<1> QED BY <1>2, <1>3, <1>4, <1>5, <1>6

\* The quotes of a token in the frames of a window that the bucket holds.
Quotes(yes, start) ==
  UNION {{<<f, it>> : it \in {x \in Range(Items(f)) : x.asset = yes /\ HasMid(x)}}
           : f \in InBucket(start, clock)}

\* They are the events that are read of it.
LEMMA QuotesAreEvents ==
  ASSUME CInv, Request.by # "token", NEW start \in 0 .. clock,
         NEW yes \in DOMAIN watch, watch[yes] # "", NEW q \in Quotes(yes, start)
  PROVE  \E pos \in EventsRead(start, clock) :
           Event(pos) = [ts |-> stamp[q[1]], label |-> watch[yes], pct |-> Mid(q[2])]
<1>1. PICK f \in InBucket(start, clock) :
        q \in {<<f, it>> : it \in {x \in Range(Items(f)) : x.asset = yes /\ HasMid(x)}}
  BY DEF Quotes
<1>2. PICK it \in Range(Items(f)) : q = <<f, it>> /\ it.asset = yes /\ HasMid(it)
  BY <1>1
<1>3. PICK i \in DOMAIN Items(f) : it = Items(f)[i]
  BY <1>2 DEF Range
<1>4. PICK line \in LinesRead(start, clock) : FrameAt(line) = f
  BY FramesAreRead
<1> DEFINE pos == <<line, i>>
<1>5. pos[1] = line /\ pos[2] = i /\ ItemAt(pos) = it
  BY <1>3, <1>4 DEF ItemAt
<1>6. pos \in {<<line, j>> : j \in DOMAIN Items(FrameAt(line))}
  BY <1>3, <1>4
<1> HIDE DEF pos
<1>7. pos \in EventsRead(start, clock)
  <2>1. ItemAt(pos).asset \in DOMAIN watch /\ watch[ItemAt(pos).asset] # "" /\ HasMid(ItemAt(pos))
    BY <1>2, <1>5
  <2>2. pos \in UNION {{<<l, j>> : j \in DOMAIN Items(FrameAt(l))} : l \in LinesRead(start, clock)}
    BY <1>6
  <2> QED BY <2>1, <2>2 DEF EventsRead
<1>8. Event(pos) = [ts |-> stamp[q[1]], label |-> watch[yes], pct |-> Mid(q[2])]
  BY <1>2, <1>4, <1>5 DEF Event
<1> QED BY <1>7, <1>8

LEMMA EventsAreQuotes ==
  ASSUME CInv, Request.by # "token", NEW start \in 0 .. clock,
         NEW pos \in EventsRead(start, clock)
  PROVE  \E q \in Quotes(ItemAt(pos).asset, start) :
           Event(pos) = [ts |-> stamp[q[1]], label |-> watch[ItemAt(pos).asset], pct |-> Mid(q[2])]
<1> DEFINE f == FrameAt(pos[1])
           it == ItemAt(pos)
           q == <<f, it>>
<1>1. /\ pos[1] \in LinesRead(start, clock) /\ pos[2] \in DOMAIN Items(f) /\ HasMid(it)
  BY EventTypes
<1>2. f \in InBucket(start, clock)
  BY <1>1, LinesAreFrames
<1>3. it \in Range(Items(f))
  BY <1>1 DEF ItemAt, Range
<1>4. q \in {<<f, x>> : x \in {y \in Range(Items(f)) : y.asset = it.asset /\ HasMid(y)}}
  BY <1>1, <1>3
<1>5. q \in Quotes(it.asset, start)
  BY <1>2, <1>4 DEF Quotes
<1>6. Event(pos) = [ts |-> stamp[q[1]], label |-> watch[it.asset], pct |-> Mid(q[2])]
  BY DEF Event
<1> QED BY <1>5, <1>6

\* The last row of a chart, for one market.
LEMMA LastRow ==
  ASSUME CInv, NEW start \in 0 .. clock, NEW m \in Asked, ToldApart(m),
         Quotes(YesToken(m), start) # {}
  PROVE  LET rows == Rows(ExtractSeries(start, clock))
         IN  /\ rows # <<>>
             /\ \E q \in Quotes(YesToken(m), start) :
                  /\ \A r \in Quotes(YesToken(m), start) : stamp[r[1]] =< stamp[q[1]]
                  /\ shorten_label(m) \in DOMAIN Last(rows)
                  /\ Last(rows)[shorten_label(m)] = Mid(q[2])
<1> DEFINE yes == YesToken(m)
           label == shorten_label(m)
           es == ExtractSeries(start, clock)
           rows == Rows(es)
<1>1. Request.by # "token"
  BY AskedMarkets
<1>2. /\ yes \in DOMAIN watch /\ watch[yes] = label /\ watch[yes] # ""
      /\ \A t \in DOMAIN watch : watch[t] = label => t = yes
  BY LabelOfToken DEF ToldApart
<1>3. PICK n \in Nat :
        /\ DOMAIN es = 1 .. n
        /\ \A k \in 1 .. n : \E pos \in EventsRead(start, clock) : es[k] = Event(pos)
        /\ \A pos \in EventsRead(start, clock) : \E k \in 1 .. n : es[k] = Event(pos)
        /\ \A k, l \in 1 .. n : k < l => es[k].ts =< es[l].ts
  BY <1>1, SeriesSorted
<1> DEFINE K == {j \in 1 .. n : es[j].label = label}
<1>4. ASSUME NEW q \in Quotes(yes, start)
      PROVE  \E k \in K : es[k] = [ts |-> stamp[q[1]], label |-> label, pct |-> Mid(q[2])]
  <2>1. PICK pos \in EventsRead(start, clock) :
          Event(pos) = [ts |-> stamp[q[1]], label |-> label, pct |-> Mid(q[2])]
    BY <1>1, <1>2, QuotesAreEvents
  <2>2. PICK k \in 1 .. n : es[k] = Event(pos)
    BY <1>3
  <2>3. es[k].label = label
    BY <2>1, <2>2
  <2> QED BY <2>1, <2>2, <2>3
<1>5. ASSUME NEW k \in K
      PROVE  \E q \in Quotes(yes, start) :
               es[k] = [ts |-> stamp[q[1]], label |-> label, pct |-> Mid(q[2])]
  <2>1. PICK pos \in EventsRead(start, clock) : es[k] = Event(pos)
    BY <1>3
  <2>2. ItemAt(pos).asset = yes
    <3>1. ItemAt(pos).asset \in DOMAIN watch
      BY <1>1, EventTypes
    <3>2. watch[ItemAt(pos).asset] = label
      BY <2>1 DEF Event
    <3> QED BY <1>2, <3>1, <3>2
  <2> QED BY <1>1, <1>2, <2>1, <2>2, EventsAreQuotes
<1> DEFINE k == Max(K)
<1>6. K # {} /\ K \in SUBSET (0 .. n)
  <2>1. PICK q \in Quotes(yes, start) : TRUE
    OBVIOUS
  <2>2. \E j \in K : TRUE
    BY <1>4, <2>1
  <2>3. \A j \in K : j \in 0 .. n
    OBVIOUS
  <2> HIDE DEF K
  <2> QED BY <2>2, <2>3
<1>7. k \in K /\ \A l \in K : l =< k
  BY <1>6, GreatestOf
<1>8. K = {j \in 1 .. n : es[j].label = label}
  OBVIOUS
<1>9. rows # <<>> /\ label \in DOMAIN Last(rows) /\ Last(rows)[label] = es[k].pct
  <2> DEFINE row(i) == [l \in {l \in Labels : \E j \in 1 .. i : es[j].label = l} |->
                          es[Max({j \in 1 .. i : es[j].label = l})].pct]
  <2>1. rows = [i \in 1 .. n |-> row(i)]
    BY <1>3 DEF Rows
  <2>2. n >= 1
    BY <1>6, <1>8
  <2>3. label \in Labels
    BY <1>2 DEF Labels
  <2>4. label \in DOMAIN row(n) /\ row(n)[label] = es[k].pct
    BY <1>6, <1>8, <2>3
  <2> HIDE DEF rows, row, K
  <2>5. DOMAIN rows = 1 .. n /\ rows[n] = row(n)
    BY <2>1, <2>2
  <2>6. Len(rows) = n
    BY <2>1
  <2>7. rows # <<>>
    BY <2>2, <2>6
  <2> QED BY <2>4, <2>5, <2>6, <2>7 DEF Last
<1> HIDE DEF K, es
<1>10. PICK q \in Quotes(yes, start) :
         es[k] = [ts |-> stamp[q[1]], label |-> label, pct |-> Mid(q[2])]
  BY <1>5, <1>7
<1>11. ASSUME NEW r \in Quotes(yes, start) PROVE stamp[r[1]] =< stamp[q[1]]
  <2>1. PICK l \in K : es[l] = [ts |-> stamp[r[1]], label |-> label, pct |-> Mid(r[2])]
    BY <1>4
  <2>2. l =< k /\ l \in 1 .. n /\ k \in 1 .. n
    BY <1>7, <1>8
  <2>3. es[l].ts = stamp[r[1]] /\ es[k].ts = stamp[q[1]]
    BY <1>10, <2>1
  <2>4. es[k].ts \in Nat
    <3>1. PICK pos \in EventsRead(start, clock) : es[k] = Event(pos)
      BY <1>3, <2>2
    <3> QED BY <1>1, <3>1, EventTypes
  <2>5. CASE l = k
    BY <2>3, <2>4, <2>5
  <2>6. CASE l < k
    BY <1>3, <2>2, <2>3, <2>6
  <2> QED BY <2>2, <2>5, <2>6
<1> HIDE DEF rows
<1>12. Last(rows)[label] = Mid(q[2])
  BY <1>9, <1>10
<1> QED BY <1>9, <1>11, <1>12 DEF rows, es

\* What LastRowIsNewest says of one market, whose token is yes.
NewestOf(start, m, yes) ==
  LET rows   == Rows(ExtractSeries(start, clock))
      quotes == UNION {{<<f, it>> : it \in {x \in Range(Items(f)) : x.asset = yes /\ HasMid(x)}}
                         : f \in InBucket(start, clock)}
  IN  ToldApart(m) /\ quotes # {} =>
        /\ rows # <<>>
        /\ \E q \in quotes :
             /\ \A r \in quotes : stamp[r[1]] =< stamp[q[1]]
             /\ shorten_label(m) \in DOMAIN Last(rows)
             /\ Last(rows)[shorten_label(m)] = Mid(q[2])

\* A chart up to now ends with the newest midpoint that the bucket holds of each
\* market that was asked for: for any markets, frames and window, with files
\* read in the order of their days and an object that may be there twice.
THEOREM NewestShown == CSpec => []LastRowIsNewest
<1> DEFINE place(m) == m.tokens[Min({i \in DOMAIN m.tokens :
                          m.outcomes[i] = "yes" \/ "yes" \notin Range(m.outcomes)})]
<1>1. ASSUME CInv, NEW start \in 0 .. clock, NEW m \in Asked
      PROVE  NewestOf(start, m, place(m))
  <2>1. NewestOf(start, m, YesToken(m))
    BY <1>1, LastRow DEF NewestOf, Quotes
  <2>2. YesToken(m) = place(m)
    BY YesPlace
  <2> HIDE DEF place
  <2> QED BY <2>1, <2>2
<1>2. (\A start \in 0 .. clock : \A m \in Asked : NewestOf(start, m, place(m)))
        => LastRowIsNewest
  BY DEF LastRowIsNewest, NewestOf
<1>3. CInv => LastRowIsNewest
  BY <1>1, <1>2
<1> QED BY <1>3, ChartInvariant, PTL
=============================================================================
