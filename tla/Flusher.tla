------------------------------ MODULE Flusher ------------------------------
(***************************************************************************)
(* flusher.py: the S3Flusher coroutine run() and the synchronous           *)
(* _flush_once() it runs in a worker thread, one file-system or S3 call    *)
(* per step, over the pending_dir that several processes may share.        *)
(*                                                                         *)
(* A file is identified by its name, a number that orders names as         *)
(* sorted(os.listdir()) does, and holds a sequence of frames.  gz[f] is    *)
(* what the temporary <name>.gz decompresses to; <<>> is a gzip that has   *)
(* been opened for writing and not completed (or was left so by a crash).  *)
(* S3 keys carry the UTC day of the upload, so s3 is indexed by day and    *)
(* name.                                                                   *)
(***************************************************************************)
EXTENDS Naturals, Sequences, FiniteSetsExt

CONSTANTS
  Recorders,          \* S3Flusher instances driven by run(): live recorders
  Jobs,               \* instances whose _flush_once is called once (backfill)
  Files,              \* names of .jsonl files, ordered as sorted() orders them
  NoFile,             \* nothing at a path, or at an S3 key
  MaxDay,             \* bound: UTC days 0..MaxDay
  MaxCrashes,         \* bound: how often a process is killed and started again
  Configured,         \* the flushers whose s3.bucket is not "CHANGE_ME"
  DeleteAfterUpload   \* s3.delete_after_upload

Flushers == Recorders \cup Jobs
Content  == Seq(Nat)
Days     == 0 .. MaxDay

ASSUME FlusherAssumption ==
  /\ Files \subseteq Nat
  /\ NoFile \notin Content
  /\ MaxDay \in Nat /\ MaxCrashes \in Nat
  /\ Configured \subseteq Recorders \cup Jobs /\ DeleteAfterUpload \in BOOLEAN
  /\ Recorders \cap Jobs = {}

VARIABLES
  pending,  \* pending_dir/<name>.jsonl : its frames, or NoFile
  made,     \* history: the frames of each file when it was put in pending_dir
  gz,       \* pending_dir/<name>.jsonl.gz
  s3,       \* the bucket: s3[day][name]
  day,      \* datetime.now(timezone.utc), to the day
  fstop,    \* the flushers whose _stop event is set
  task,     \* where run() is
  pass,     \* where _flush_once() is: its thread's local state
  crashes   \* history: kills so far

fvars == <<pending, made, gz, s3, day, fstop, task, pass, crashes>>

\* The steps that a pass takes for one file, after it has opened it.
Working == {"copying", "upload", "rmgz", "rmsrc"}

\* Where a thread is in _flush_once: the rest of its listing, what its copy
\* has read, and whether the .gz it writes still has its name.
Pass == [pc : {"idle", "list", "next"} \cup Working,
         todo : SUBSET Files, data : Content, linked : BOOLEAN]

\* No thread is inside _flush_once.
Idle == [pc |-> "idle", todo |-> {}, data |-> <<>>, linked |-> FALSE]

\* The file the pass is at: sorted(os.listdir(...)), taken in order.
Current(p) == Min(pass[p].todo)

\* The frames of f are in the bucket, under some day, complete.
Stored(f) == \E d \in Days : s3[d][f] = made[f]

FTypeOK ==
  /\ pending \in [Files -> Content \cup {NoFile}]
  /\ made \in [Files -> Content \cup {NoFile}]
  /\ gz \in [Files -> Content \cup {NoFile}]
  /\ s3 \in [Days -> [Files -> Content \cup {NoFile}]]
  /\ day \in Days
  /\ fstop \in SUBSET Flushers
  /\ task \in [Flushers -> {"once", "waiting", "passing", "draining", "done"}]
  /\ pass \in [Flushers -> Pass]
  /\ \A p \in Flushers : pass[p].pc \in Working => pass[p].todo # {}
  /\ crashes \in 0 .. MaxCrashes

FInit ==
  /\ pending = [f \in Files |-> NoFile]
  /\ made = [f \in Files |-> NoFile]
  /\ gz = [f \in Files |-> NoFile]
  /\ s3 = [d \in Days |-> [f \in Files |-> NoFile]]
  /\ day = 0
  /\ fstop = {}
  /\ task = [p \in Flushers |-> IF p \in Jobs THEN "once" ELSE "waiting"]
  /\ pass = [p \in Flushers |-> Idle]
  /\ crashes = 0
-----------------------------------------------------------------------------
(***************************************************************************)
(* run(): the loop around _flush_once.                                     *)
(***************************************************************************)

\* The top of the loop, reached at the start, when flush_interval_s has passed
\* and when _stop is set: another pass, or the final drain.  A backfill job has
\* no loop: it calls _flush_once once.
Wake(p) ==
  /\ \/ task[p] = "waiting"
     \/ task[p] = "once"
  /\ task' = [task EXCEPT ![p] =
                IF p \in fstop \/ p \in Jobs THEN "draining" ELSE "passing"]
  /\ pass' = [pass EXCEPT ![p].pc = "list"]
  /\ UNCHANGED <<pending, made, gz, s3, day, fstop, crashes>>

\* _flush_once returned or raised.  A periodic pass that raised is logged and
\* the loop goes on; the final drain is the end of run() either way, and a
\* thread whose coroutine was cancelled ends alone.
EndPassNoRescue(p) ==
  /\ pass' = [pass EXCEPT ![p] = Idle]
  /\ task' = [task EXCEPT ![p] = "done"]

EndPass(p) ==
  /\ pass' = [pass EXCEPT ![p] = Idle]
  /\ task' = [task EXCEPT ![p] = IF @ = "passing" THEN "waiting" ELSE "done"]

\* stop() sets the event; the periodic wait sees it.
Stop(p) ==
  /\ fstop' = fstop \cup {p}
  /\ UNCHANGED <<pending, made, gz, s3, day, task, pass, crashes>>

\* Task.cancel() ends run() where it waits.  The worker thread cannot be
\* cancelled: a pass it is in goes on to its end, with no drain after it.
Cancel(p) ==
  /\ task' = [task EXCEPT ![p] = "done"]
  /\ UNCHANGED <<pending, made, gz, s3, day, fstop, pass, crashes>>
-----------------------------------------------------------------------------
(***************************************************************************)
(* _flush_once(), step by step.                                            *)
(***************************************************************************)

\* The bucket test, and the listing of pending_dir.
ListPending(p) ==
  /\ pass[p].pc = "list"
  /\ \/ /\ p \notin Configured
        /\ EndPass(p)
     \/ /\ p \in Configured
        /\ pass' = [pass EXCEPT ![p].pc = "next",
                                ![p].todo = {f \in Files : pending[f] # NoFile}]
        /\ UNCHANGED task
  /\ UNCHANGED <<pending, made, gz, s3, day, fstop, crashes>>

\* The listing is exhausted.
Finish(p) ==
  /\ pass[p].pc = "next" /\ pass[p].todo = {}
  /\ EndPass(p)
  /\ UNCHANGED <<pending, made, gz, s3, day, fstop, crashes>>

\* Variant: a .gz that is already there is taken for the finished one.
OpenSourceReuse(p) ==
  /\ pass[p].pc = "next" /\ pass[p].todo # {}
  /\ pending[Current(p)] # NoFile
  /\ \/ /\ gz[Current(p)] = NoFile
        /\ gz' = [gz EXCEPT ![Current(p)] = <<>>]
        /\ pass' = [pass EXCEPT ![p].pc = "copying", ![p].linked = TRUE,
                                ![p].data = pending[Current(p)]]
     \/ /\ gz[Current(p)] # NoFile
        /\ pass' = [pass EXCEPT ![p].pc = "upload"]
        /\ UNCHANGED gz
  /\ UNCHANGED <<pending, made, s3, day, fstop, task, crashes>>

\* Variant: the name leaves the listing when the file is opened.
OpenSourcePopped(p) ==
  /\ pass[p].pc = "next" /\ pass[p].todo # {}
  /\ pending[Current(p)] # NoFile
  /\ gz' = [gz EXCEPT ![Current(p)] = <<>>]
  /\ pass' = [pass EXCEPT ![p].pc = "copying", ![p].linked = TRUE,
                          ![p].todo = @ \ {Current(p)},
                          ![p].data = pending[Current(p)]]
  /\ UNCHANGED <<pending, made, s3, day, fstop, task, crashes>>

\* open(src, "rb"), then gzip.open(gz, "wb"), which truncates a .gz that is
\* there.  The copy reads what src holds now.
OpenSource(p) ==
  /\ pass[p].pc = "next" /\ pass[p].todo # {}
  /\ pending[Current(p)] # NoFile
  /\ gz' = [gz EXCEPT ![Current(p)] = <<>>]
  /\ pass' = [pass EXCEPT ![p].pc = "copying", ![p].linked = TRUE,
                          ![p].data = pending[Current(p)]]
  /\ UNCHANGED <<pending, made, s3, day, fstop, task, crashes>>

\* copyfileobj is done and both files are closed.  If the .gz was unlinked
\* meanwhile, what was written is gone with it.
FinishCopy(p) ==
  /\ pass[p].pc = "copying"
  /\ gz' = IF pass[p].linked THEN [gz EXCEPT ![Current(p)] = pass[p].data] ELSE gz
  /\ pass' = [pass EXCEPT ![p].pc = "upload", ![p].linked = FALSE]
  /\ UNCHANGED <<pending, made, s3, day, fstop, task, crashes>>

\* _key_for and upload_file: the key is dated by the day of the upload.
Upload(p) ==
  /\ pass[p].pc = "upload" /\ gz[Current(p)] # NoFile
  /\ s3' = [s3 EXCEPT ![day][Current(p)] = gz[Current(p)]]
  /\ pass' = [pass EXCEPT ![p].pc = "rmgz"]
  /\ UNCHANGED <<pending, made, gz, day, fstop, task, crashes>>

\* Variant: the temporary .gz is left behind.
RemoveGzForgotten(p) ==
  /\ pass[p].pc = "rmgz" /\ gz[Current(p)] # NoFile
  /\ pass' = [pass EXCEPT ![p].pc = IF DeleteAfterUpload THEN "rmsrc" ELSE "next",
                          ![p].todo = IF DeleteAfterUpload THEN @ ELSE @ \ {Current(p)}]
  /\ UNCHANGED <<pending, made, gz, s3, day, fstop, task, crashes>>

\* os.remove(gz).  A flusher that still writes it goes on in an unlinked file.
RemoveGz(p) ==
  /\ pass[p].pc = "rmgz" /\ gz[Current(p)] # NoFile
  /\ gz' = [gz EXCEPT ![Current(p)] = NoFile]
  /\ pass' = [q \in Flushers |->
       IF q = p
       THEN IF DeleteAfterUpload
            THEN [pass[p] EXCEPT !.pc = "rmsrc"]
            ELSE [pass[p] EXCEPT !.pc = "next", !.todo = @ \ {Current(p)}]
       ELSE IF pass[q].pc = "copying" /\ Current(q) = Current(p)
            THEN [pass[q] EXCEPT !.linked = FALSE]
            ELSE pass[q]]
  /\ UNCHANGED <<pending, made, s3, day, fstop, task, crashes>>

\* os.remove(src), on to the next file of the listing.
RemoveSrc(p) ==
  /\ pass[p].pc = "rmsrc" /\ pending[Current(p)] # NoFile
  /\ pending' = [pending EXCEPT ![Current(p)] = NoFile]
  /\ pass' = [pass EXCEPT ![p].pc = "next", ![p].todo = @ \ {Current(p)}]
  /\ UNCHANGED <<made, gz, s3, day, fstop, task, crashes>>

\* A path the step needs has been removed by someone else.
Missing(p) ==
  \/ /\ pass[p].pc = "next" /\ pass[p].todo # {}
     /\ pending[Current(p)] = NoFile
  \/ pass[p].pc = "rmsrc" /\ pending[Current(p)] = NoFile
  \/ pass[p].pc \in {"upload", "rmgz"} /\ gz[Current(p)] = NoFile

\* Variant: an upload that failed is swallowed, as if it had succeeded.
RaiseSwallowed(p) ==
  /\ pass[p].pc = "upload"
  /\ pass' = [pass EXCEPT ![p].pc = "rmgz"]
  /\ UNCHANGED <<pending, made, gz, s3, day, fstop, task, crashes>>

\* An exception leaves _flush_once where it is, and with it the rest of the
\* listing: FileNotFoundError, another OSError of any of its file-system calls,
\* or an S3 error.  An upload may fail on this side only: S3 has the object, its
\* answer is lost.
Raise(p) ==
  /\ \/ /\ \/ pass[p].pc = "list" /\ p \in Configured
           \/ pass[p].pc = "next" /\ pass[p].todo # {}
           \/ pass[p].pc \in Working
        /\ UNCHANGED s3
     \/ /\ pass[p].pc = "upload" /\ gz[Current(p)] # NoFile
        /\ s3' = [s3 EXCEPT ![day][Current(p)] = gz[Current(p)]]
  /\ EndPass(p)
  /\ UNCHANGED <<pending, made, gz, day, fstop, crashes>>

FlushStep(p) ==
  \/ ListPending(p) \/ Finish(p) \/ OpenSource(p) \/ FinishCopy(p)
  \/ Upload(p) \/ RemoveGz(p) \/ RemoveSrc(p)
-----------------------------------------------------------------------------
(***************************************************************************)
(* The surroundings.                                                       *)
(***************************************************************************)

\* The archiver promotes a finished file with one os.replace: it appears whole.
Deliver(f) ==
  /\ made[f] = NoFile
  /\ pending' = [pending EXCEPT ![f] = <<f>>]
  /\ made' = [made EXCEPT ![f] = <<f>>]
  /\ UNCHANGED <<gz, s3, day, fstop, task, pass, crashes>>

NextDay ==
  /\ day < MaxDay
  /\ day' = day + 1
  /\ UNCHANGED <<pending, made, gz, s3, fstop, task, pass, crashes>>

\* What a new process starts with: the files stay, everything else is gone.
Restart(p) ==
  /\ fstop' = fstop \ {p}
  /\ task' = [task EXCEPT ![p] = IF p \in Jobs THEN "once" ELSE "waiting"]
  /\ pass' = [pass EXCEPT ![p] = Idle]
  /\ UNCHANGED <<pending, made, gz, s3, day>>

Crash(p) ==
  /\ crashes < MaxCrashes
  /\ crashes' = crashes + 1
  /\ Restart(p)

FNext ==
  \/ \E p \in Flushers : Wake(p) \/ FlushStep(p) \/ Raise(p) \/ Crash(p)
  \/ \E p \in Recorders : Stop(p) \/ (p \in fstop /\ Cancel(p))
  \/ \E f \in Files : Deliver(f)
  \/ NextDay

FSpec == FInit /\ [][FNext]_fvars

\* The event loop and the worker thread keep running, the flush timer fires,
\* and no kind of call meets a disk or an S3 error at every attempt.
FFairness ==
  \A p \in Recorders :
    /\ WF_fvars(Wake(p))
    /\ WF_fvars(FlushStep(p) \/ (Missing(p) /\ Raise(p)))
    /\ SF_fvars(ListPending(p)) /\ SF_fvars(OpenSource(p)) /\ SF_fvars(FinishCopy(p))
    /\ SF_fvars(Upload(p)) /\ SF_fvars(RemoveGz(p)) /\ SF_fvars(RemoveSrc(p))

FFairSpec == FSpec /\ FFairness
-----------------------------------------------------------------------------
\* A local file leaves pending_dir only when S3 holds all of its frames: the
\* delete of _flush_once is the delete "on success" of the module's docstring,
\* whatever a failing upload, a crash or a restart put before it.
DeletedOnlyWhenStored ==
  \A f \in Files : made[f] # NoFile /\ pending[f] = NoFile => Stored(f)

\* No S3 object is a truncated gzip: a .gz that a crash or an I/O error left
\* half-written is never what upload_file reads.
ObjectsComplete ==
  \A d \in Days, f \in Files : s3[d][f] \in {NoFile, made[f]}

\* A temporary .gz never outlives its .jsonl.  The scan skips names that do
\* not end in .jsonl, so such a .gz would stay on the disk for ever.
NoOrphanGz == \A f \in Files : gz[f] # NoFile => pending[f] # NoFile

\* Every file that is put in pending_dir reaches S3, through failed passes,
\* S3 errors and crashes, unless the flusher is told to stop.
EventuallyStored ==
  \A f \in Files :
    made[f] # NoFile ~> (Stored(f) \/ Recorders \cap Configured \subseteq fstop)
=============================================================================
