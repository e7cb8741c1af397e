------------------------------ MODULE Archiver ------------------------------
(***************************************************************************)
(* archiver.py: record() enqueues a frame for the writer task run(), which *)
(* appends it to the current spool file and, on rotation and at its end,   *)
(* moves that file to pending_dir with one os.replace.                     *)
(*                                                                         *)
(* A frame is the number of its record() call.  A file is named after the  *)
(* first frame in it: the code names it by its time of opening, which puts *)
(* names in the same order, and removes a file that has no frame.          *)
(* The coroutine runs without interleaving between two awaits, so what it  *)
(* does after queue.get() returned, down to the next one, is one action.   *)
(***************************************************************************)
EXTENDS Naturals, Sequences, Functions

CONSTANTS
  MaxFrames,   \* bound: how many frames are recorded
  QueueMax,    \* queue_maxsize
  RotateMax,   \* rotate_max_bytes, in frames
  MaxFaults,   \* bound: how many disk errors the writer meets
  NoFile       \* nothing at a path

Frames  == 1 .. MaxFrames
Content == Seq(Nat)

ASSUME ArchiverAssumption ==
  /\ MaxFrames \in Nat /\ MaxFaults \in Nat
  /\ QueueMax \in Nat \ {0} /\ RotateMax \in Nat \ {0}
  /\ NoFile \notin Content

VARIABLES
  arrived,   \* history: record() calls so far
  queue,     \* the frames that wait for the writer
  writer,    \* the writer task: not in its loop yet, in it, returned, or raised
  astop,     \* _stop is set
  buf,       \* the frames of the current spool file
  aged,      \* rotate_interval_s has passed since the file was opened
  pending,   \* pending_dir/<name>.jsonl : its frames, or NoFile
  made,      \* history: the frames of each file when it was put in pending_dir
  faults     \* history: disk errors so far

avars == <<arrived, queue, writer, astop, buf, aged, pending, made, faults>>

ATypeOK ==
  /\ arrived \in 0 .. MaxFrames
  /\ queue \in Seq(Frames) /\ Len(queue) =< QueueMax
  /\ writer \in {"new", "running", "done", "dead"}
  /\ astop \in BOOLEAN /\ aged \in BOOLEAN
  /\ buf \in Seq(Frames)
  /\ buf # <<>> => writer = "running"
  /\ pending \in [Frames -> Content \cup {NoFile}]
  /\ made \in [Frames -> Content \cup {NoFile}]
  /\ faults \in 0 .. MaxFaults

AInit ==
  /\ arrived = 0
  /\ queue = <<>>
  /\ writer = "new"
  /\ astop = FALSE
  /\ buf = <<>>
  /\ aged = FALSE
  /\ pending = [f \in Frames |-> NoFile]
  /\ made = [f \in Frames |-> NoFile]
  /\ faults = 0
-----------------------------------------------------------------------------
\* record(): put_nowait, or a dropped frame when the queue is full.
Record ==
  /\ arrived < MaxFrames
  /\ arrived' = arrived + 1
  /\ queue' = IF Len(queue) < QueueMax THEN Append(queue, arrived + 1) ELSE queue
  /\ UNCHANGED <<writer, astop, buf, aged, pending, made, faults>>

\* _close_and_promote of a file that holds b: an empty file is removed.
Promote(b) ==
  IF b = <<>> THEN UNCHANGED <<pending, made>>
  ELSE /\ pending' = [pending EXCEPT ![Head(b)] = b]
       /\ made' = [made EXCEPT ![Head(b)] = b]

\* The first steps of run(): it opens a file.  A task that finds _stop set removes
\* the file and returns: what it did is undone, and it is left as it was.
WriterStart ==
  /\ writer = "new" /\ ~ astop
  /\ writer' = "running"
  /\ aged' = FALSE
  /\ UNCHANGED <<arrived, queue, astop, buf, pending, made, faults>>

\* Variant: the file goes to pending_dir as a copy, and is appended to.
LoopEndCopies(b) ==
  /\ \/ /\ astop \/ aged \/ Len(b) >= RotateMax
        /\ Promote(b)
        /\ buf' = IF astop THEN <<>> ELSE b
        /\ aged' = FALSE
     \/ /\ ~ (astop \/ aged \/ Len(b) >= RotateMax)
        /\ buf' = b
        /\ UNCHANGED <<aged, pending, made>>
  /\ writer' = IF astop THEN "done" ELSE writer

\* After a frame was written, or none came for a second: _maybe_rotate(), then
\* the test of the loop, which ends in the finally clause.
LoopEnd(b) ==
  /\ \/ /\ astop \/ aged \/ Len(b) >= RotateMax
        /\ Promote(b)
        /\ buf' = <<>>
        /\ aged' = FALSE
     \/ /\ ~ (astop \/ aged \/ Len(b) >= RotateMax)
        /\ buf' = b
        /\ UNCHANGED <<aged, pending, made>>
  /\ writer' = IF astop THEN "done" ELSE writer

\* queue.get() returned a frame.
Write ==
  /\ writer = "running" /\ queue # <<>>
  /\ queue' = Tail(queue)
  /\ LoopEnd(Append(buf, Head(queue)))
  /\ UNCHANGED <<arrived, astop, faults>>

\* Variant: a timeout goes back to get() at once.
GetTimeoutContinue ==
  /\ writer = "running" /\ queue = <<>>
  /\ astop
  /\ LoopEnd(buf)
  /\ UNCHANGED <<arrived, queue, astop, faults>>

\* asyncio.TimeoutError: no frame came for a second.
GetTimeout ==
  /\ writer = "running" /\ queue = <<>>
  /\ LoopEnd(buf)
  /\ UNCHANGED <<arrived, queue, astop, faults>>

Age ==
  /\ writer = "running"
  /\ aged' = TRUE
  /\ UNCHANGED <<arrived, queue, writer, astop, buf, pending, made, faults>>

\* Task.cancel(): the finally clause promotes what the file holds.
CancelWriter ==
  /\ IF writer = "running" THEN Promote(buf) ELSE UNCHANGED <<pending, made>>
  /\ buf' = <<>>
  /\ writer' = IF writer \in {"new", "running"} THEN "done" ELSE writer
  /\ UNCHANGED <<arrived, queue, astop, aged, faults>>

\* _open_new raises in the first step of run().
OpenFault ==
  /\ writer = "new" /\ ~ astop
  /\ UNCHANGED <<queue, buf, pending, made>>

\* An OSError of write, flush, fsync, replace or open, or json.dumps of what is
\* no JSON value.  The frame taken from the queue may have reached the file or
\* not, and the finally clause promotes the file, or fails as well and leaves it
\* in spool_dir, where nothing looks for it.
WriteFault ==
  /\ writer = "running"
  /\ queue' = SubSeq(queue, 2, Len(queue))
  /\ \E written \in 0 .. 1 :
       /\ written =< Len(queue)
       /\ \/ Promote(buf \o SubSeq(queue, 1, written))
          \/ UNCHANGED <<pending, made>>
  /\ buf' = <<>>

\* An error ends run(), and nothing restarts the task.
DiskFault ==
  /\ faults < MaxFaults
  /\ faults' = faults + 1
  /\ OpenFault \/ WriteFault
  /\ writer' = "dead"
  /\ UNCHANGED <<arrived, astop, aged>>

WriterStep == WriterStart \/ Write \/ GetTimeout
-----------------------------------------------------------------------------
\* The frames that memory or an open spool file holds, oldest first.
Volatile == buf \o queue

\* The archive keeps the order of the record() calls: within a file, from one
\* file to the next in the order of their names, and from the files to what
\* has not been promoted yet.  No frame is in two of these places.
LogOrder ==
  /\ \A f \in Frames : made[f] # NoFile =>
       /\ made[f] # <<>> /\ Head(made[f]) = f
       /\ \A i, j \in DOMAIN made[f] : i < j => made[f][i] < made[f][j]
       /\ \A g \in Frames : f < g /\ made[g] # NoFile =>
            \A i \in DOMAIN made[f] : made[f][i] < g
       /\ \A i \in DOMAIN made[f], j \in DOMAIN Volatile : made[f][i] < Volatile[j]
  /\ \A i, j \in DOMAIN Volatile : i < j => Volatile[i] < Volatile[j]
=============================================================================
