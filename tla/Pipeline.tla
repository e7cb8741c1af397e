------------------------------ MODULE Pipeline ------------------------------
(***************************************************************************)
(* The way of a frame through one recorder process: the queue and files of *)
(* the archiver, the flusher's passes over pending_dir, the shutdown of    *)
(* main.py's Recorder, and the process being killed and started again.     *)
(***************************************************************************)
EXTENDS Archiver

CONSTANTS
  Live,               \* the S3Flusher of the recorder
  MaxDay,             \* bound: UTC days 0..MaxDay
  MaxCrashes,         \* bound: how often the process is killed
  MaxSignals,         \* bound: how often it is told to stop
  DeleteAfterUpload   \* s3.delete_after_upload

ASSUME PipelineAssumption ==
  /\ MaxDay \in Nat /\ MaxCrashes \in Nat /\ MaxSignals \in Nat
  /\ DeleteAfterUpload \in BOOLEAN

VARIABLES
  gz, s3, day, fstop, task, pass, crashes,   \* see Flusher
  phase,     \* where the process is between its start and its exit
  signals,   \* history: SIGINT and SIGTERM so far
  heard      \* history: how many frames had arrived at the last signal

Flush == INSTANCE Flusher WITH
           Recorders <- {Live}, Jobs <- {}, Configured <- {Live}, Files <- Frames

fvars == <<gz, s3, day, fstop, task, pass, crashes>>
pvars == <<avars, fvars, phase, signals, heard>>

PTypeOK ==
  /\ ATypeOK
  /\ Flush!FTypeOK
  /\ phase \in {"up", "stopping", "cancelled", "exited", "killed"}
  /\ signals \in 0 .. MaxSignals /\ heard \in 0 .. arrived
  /\ phase \in {"cancelled", "exited"} => writer # "running" /\ task[Live] = "done"
  /\ phase \in {"exited", "killed"} => pass[Live] = Flush!Idle

PInit ==
  /\ AInit
  /\ Flush!FInit
  /\ phase = "up"
  /\ signals = 0 /\ heard = 0
-----------------------------------------------------------------------------
Alive == phase \notin {"exited", "killed"}

\* The event loop schedules the tasks until they are cancelled.  The writer's task
\* is created first, so it has opened its file before a shard records, and shards
\* that find _stop set at their start record nothing.  A shard that records goes on
\* when it is stopped: CaptureShard.stop() is seen between connections only.
Capture ==
  /\ phase \in {"up", "stopping"} /\ writer # "new"
  /\ Record
  /\ UNCHANGED <<fvars, phase, signals, heard>>

Archive ==
  /\ phase \in {"up", "stopping"}
  /\ WriterStep
  /\ UNCHANGED <<fvars, phase, signals, heard>>

Timer ==
  /\ phase \in {"up", "stopping"}
  /\ Age
  /\ UNCHANGED <<fvars, phase, signals, heard>>

BreakDisk ==
  /\ phase \in {"up", "stopping"}
  /\ DiskFault
  /\ UNCHANGED <<fvars, phase, signals, heard>>

FlushWake ==
  /\ phase \in {"up", "stopping"}
  /\ Flush!Wake(Live)
  /\ UNCHANGED <<avars, phase, signals, heard>>

\* The worker thread takes no notice of the event loop.
FlushFile ==
  /\ Alive
  /\ Flush!FlushStep(Live)
  /\ UNCHANGED <<arrived, queue, writer, astop, buf, aged, faults,
                 phase, signals, heard>>

FlushError ==
  /\ Alive
  /\ Flush!Raise(Live)
  /\ UNCHANGED <<avars, phase, signals, heard>>

Midnight ==
  /\ Flush!NextDay
  /\ UNCHANGED <<avars, phase, signals, heard>>
-----------------------------------------------------------------------------
\* A signal sets Recorder._stop; run() goes on to _shutdown(), which stops the
\* shards, the archiver and the flusher.
Shutdown ==
  /\ phase = "up" /\ signals < MaxSignals
  /\ signals' = signals + 1 /\ heard' = arrived
  /\ phase' = "stopping"
  /\ astop' = TRUE
  /\ Flush!Stop(Live)
  /\ UNCHANGED <<arrived, queue, writer, buf, aged, faults>>

\* Nothing is ready to run: half a second is long for the event loop, so each
\* task has gone on to the next thing it waits for.
Settled ==
  /\ writer = "running" => queue = <<>>
  /\ task[Live] # "waiting"

\* Variant: the archiver's file is not closed when its task is cancelled.
CancelTasksNoFinally ==
  /\ phase = "stopping" /\ Settled
  /\ phase' = "cancelled"
  /\ writer' = IF writer \in {"new", "running"} THEN "done" ELSE writer
  /\ buf' = <<>>
  /\ task' = [task EXCEPT ![Live] = "done"]
  /\ UNCHANGED <<arrived, queue, astop, aged, faults, signals, heard,
                 pending, made, gz, s3, day, fstop, pass, crashes>>

\* Half a second later every task is cancelled.
CancelTasks ==
  /\ phase = "stopping" /\ Settled
  /\ phase' = "cancelled"
  /\ CancelWriter
  /\ task' = [task EXCEPT ![Live] = "done"]
  /\ UNCHANGED <<gz, s3, day, fstop, pass, crashes, signals, heard>>

\* Variant: the interpreter does not wait for the worker thread.
ExitUnjoined ==
  /\ phase = "cancelled"
  /\ phase' = "exited"
  /\ UNCHANGED <<avars, fvars, signals, heard>>

\* main() returns.  The interpreter joins the worker thread before it exits.
Exit ==
  /\ phase = "cancelled" /\ pass[Live].pc = "idle"
  /\ phase' = "exited"
  /\ UNCHANGED <<avars, fvars, signals, heard>>

\* SIGKILL, power loss: memory is gone, the open spool file stays behind.
Kill ==
  /\ Alive
  /\ phase' = "killed"
  /\ Flush!Crash(Live)
  /\ buf' = <<>> /\ queue' = <<>> /\ writer' = "new"
  /\ UNCHANGED <<arrived, astop, aged, faults, signals, heard>>

\* systemd: Restart=always, or the machine comes up again.
Start ==
  /\ ~ Alive
  /\ phase' = "up"
  /\ queue' = <<>> /\ writer' = "new" /\ astop' = FALSE /\ aged' = FALSE
  /\ Flush!Restart(Live)
  /\ UNCHANGED <<arrived, buf, faults, crashes, signals, heard>>

PNext ==
  \/ Capture \/ Archive \/ Timer \/ BreakDisk
  \/ FlushWake \/ FlushFile \/ FlushError \/ Midnight
  \/ Shutdown \/ CancelTasks \/ Exit \/ Kill \/ Start

PSpec == PInit /\ [][PNext]_pvars

\* A step of the worker thread that is not cut short.
Thread(step) ==
  /\ Alive /\ step
  /\ UNCHANGED <<arrived, queue, writer, astop, buf, aged, faults, phase, signals, heard>>

\* The loop and the thread run, timers fire, the shutdown proceeds, the service
\* manager starts the process again, and no kind of call of the flusher fails at
\* every attempt.
PFairness ==
  /\ WF_pvars(Archive) /\ WF_pvars(Timer) /\ WF_pvars(FlushWake)
  /\ WF_pvars(FlushFile \/ (Flush!Missing(Live) /\ FlushError))
  /\ SF_pvars(Thread(Flush!ListPending(Live))) /\ SF_pvars(Thread(Flush!OpenSource(Live)))
  /\ SF_pvars(Thread(Flush!FinishCopy(Live))) /\ SF_pvars(Thread(Flush!Upload(Live)))
  /\ SF_pvars(Thread(Flush!RemoveGz(Live))) /\ SF_pvars(Thread(Flush!RemoveSrc(Live)))
  /\ WF_pvars(CancelTasks) /\ WF_pvars(Exit) /\ WF_pvars(Start)

PFairSpec == PSpec /\ PFairness
-----------------------------------------------------------------------------
\* The archiver, the flusher, the shutdown and the restarts together keep the
\* promise of FrameLog: frames leave memory oldest first, a promoted file never
\* changes, and it leaves the local disk only when S3 holds all of it.
Log == INSTANCE FrameLog WITH
         NoBatch <- NoFile,
         arrivals <- arrived,
         memory <- Volatile,
         log <- made,
         local <- {f \in Frames : pending[f] # NoFile},
         archived <- {f \in Frames : made[f] # NoFile /\ Flush!Stored(f)}

ImplementsFrameLog == Log!LSpec

\* A frame that record() enqueued leaves for pending_dir although no frame
\* follows it: rotation does not depend on traffic.  Only a shutdown, the death
\* of the writer or a kill ends that.
FramesShipped ==
  \A f \in Frames :
    f \in Range(Volatile) ~>
      \/ \E g \in Frames : made[g] # NoFile /\ f \in Range(made[g])
      \/ astop \/ writer = "dead" \/ crashes > 0

\* A file that was promoted reaches S3, through upload errors, kills and
\* shutdowns that cut a pass short: what one process leaves in pending_dir, the
\* next one uploads.
PromotedIsStored ==
  \A f \in Frames : made[f] # NoFile ~> Flush!Stored(f)

\* A frame that record() enqueued stays in the queue or in the open file until it
\* is in a file of pending_dir.  No rotation, signal or cancellation loses one: only
\* an error that ends the writer, a kill, or the end of the process does.
LostOnlyInFailure ==
  [][\A f \in Range(Volatile) :
       \/ f \in Range(Volatile')
       \/ \E g \in Frames : made'[g] # NoFile /\ f \in Range(made'[g])
       \/ faults' > faults \/ crashes' > crashes \/ ~ Alive]_pvars

\* main.py: "Graceful shutdown on SIGINT/SIGTERM flushes everything before
\* exit."  A frame that was in the queue or in the open file when the signal
\* came is not lost with the process, if nothing fails.
ShutdownFlushesEverything ==
  phase = "exited" /\ crashes = 0 /\ faults = 0 =>
    \A f \in Range(Volatile) : f > heard
=============================================================================
