------------------------------ MODULE FrameLog ------------------------------
(***************************************************************************)
(* What the recorder promises about frames, whatever its parts do: memory  *)
(* is a queue that may lose frames from its front only, what leaves it     *)
(* becomes an immutable batch, and a batch is given up locally only when   *)
(* it is in S3, for good.                                                  *)
(***************************************************************************)
EXTENDS Naturals, Sequences

CONSTANTS
  MaxFrames,   \* bound: how many frames arrive
  NoBatch      \* no batch of that name

Names == 1 .. MaxFrames

VARIABLES
  arrivals,   \* how many frames have arrived
  memory,     \* the frames that a crash would lose
  log,        \* the batches, each named after its first frame
  local,      \* the names of the batches that the local disk holds
  archived    \* the names of the batches that S3 holds

lvars == <<arrivals, memory, log, local, archived>>

LInit ==
  /\ arrivals = 0
  /\ memory = <<>>
  /\ log = [f \in Names |-> NoBatch]
  /\ local = {}
  /\ archived = {}

\* A frame arrives; it may be dropped at once.
Arrive ==
  /\ arrivals < MaxFrames
  /\ arrivals' = arrivals + 1
  /\ memory' \in {memory, Append(memory, arrivals + 1)}
  /\ UNCHANGED <<log, local, archived>>

\* The first k frames leave memory: the first n of them as a batch, the others
\* for nowhere.
Leave ==
  \E k \in 1 .. Len(memory) : \E n \in 0 .. k :
    /\ memory' = SubSeq(memory, k + 1, Len(memory))
    /\ IF n = 0 THEN UNCHANGED <<log, local>>
       ELSE /\ log[Head(memory)] = NoBatch
            /\ log' = [log EXCEPT ![Head(memory)] = SubSeq(memory, 1, n)]
            /\ local' = local \cup {Head(memory)}
    /\ UNCHANGED <<arrivals, archived>>

Store(f) ==
  /\ f \in local
  /\ archived' = archived \cup {f}
  /\ UNCHANGED <<arrivals, memory, log, local>>

Release(f) ==
  /\ f \in local \cap archived
  /\ local' = local \ {f}
  /\ UNCHANGED <<arrivals, memory, log, archived>>

LNext == Arrive \/ Leave \/ \E f \in Names : Store(f) \/ Release(f)

LSpec == LInit /\ [][LNext]_lvars
=============================================================================
