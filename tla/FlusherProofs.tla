--------------------------- MODULE FlusherProofs ---------------------------
(***************************************************************************)
(* Proofs about one configured flusher: nothing leaves pending_dir that S3 *)
(* does not hold, for any set of files and any number of days and crashes. *)
(***************************************************************************)
EXTENDS Flusher, WellFoundedInduction, TLAPS

\* pending_dir has one flusher that uploads (other processes may be started on
\* it with the default bucket).
OneFlusher == \A p, q \in Configured : p = q

\* A file in pending_dir is as it was put there.
FilesIntact == \A f \in Files : pending[f] \in {NoFile, made[f]}

\* Without a bucket, a pass ends at its first test.
OthersIdle == \A p \in Flushers \ Configured : pass[p].pc \in {"idle", "list"}

\* No thread is in _flush_once while run() waits, and a pass starts afresh.
PassFresh ==
  \A p \in Flushers :
    /\ task[p] \in {"waiting", "once"} => pass[p] = Idle
    /\ pass[p].pc \in {"idle", "list"} => pass[p].todo = {}

\* Each file of the listing is still there, and the file at hand has gone
\* through the steps before the one its pass is at.
PassSound(p) ==
  LET c == Current(p) IN
  /\ \A f \in pass[p].todo : pending[f] # NoFile
  /\ pass[p].pc = "copying" => pass[p].linked /\ pass[p].data = made[c]
  /\ pass[p].pc \in {"upload", "rmgz"} => gz[c] = made[c]
  /\ pass[p].pc = "rmsrc" => gz[c] = NoFile
  /\ pass[p].pc \in {"rmgz", "rmsrc"} => Stored(c)

FInv ==
  /\ FTypeOK
  /\ DeletedOnlyWhenStored
  /\ ObjectsComplete
  /\ NoOrphanGz
  /\ FilesIntact
  /\ OthersIdle
  /\ PassFresh
  /\ \A p \in Configured : PassSound(p)
-----------------------------------------------------------------------------
\* Min of the community modules is a member: a set of names has a first name.
LEMMA MinInSet ==
  ASSUME NEW S \in SUBSET Nat, S # {}
  PROVE  Min(S) \in S
<1>1. \E x \in S : \A y \in S : ~ (<<y, x>> \in OpToRel(<, Nat))
  BY WFMin, NatLessThanWellFounded
<1>2. \E x \in S : \A y \in S : x =< y
  <2>1. PICK x \in S : \A y \in S : ~ (<<y, x>> \in OpToRel(<, Nat))
    BY <1>1
  <2>2. ASSUME NEW y \in S PROVE x =< y
    <3>1. ~ (y < x)
      BY <2>1 DEF OpToRel
    <3> QED BY <3>1
  <2> QED BY <2>2
<1> QED BY <1>2 DEF Min

\* The file at hand is one of the listing.
LEMMA CurrentListed ==
  ASSUME FTypeOK, NEW p \in Flushers, pass[p].todo # {}
  PROVE  Current(p) \in pass[p].todo /\ Current(p) \in Files
<1>1. pass[p].todo \in SUBSET Files
  BY DEF FTypeOK, Pass
<1>2. pass[p].todo \in SUBSET Nat
  BY <1>1, FlusherAssumption
<1> QED BY <1>1, <1>2, MinInSet DEF Current

\* Only the configured flusher has a file open.
LEMMA OnlyConfiguredWorks ==
  ASSUME FTypeOK, OthersIdle, NEW p \in Flushers,
         pass[p].pc \notin {"idle", "list"}
  PROVE  p \in Configured
BY DEF OthersIdle

LEMMA InitInv == FInit => FInv
<1> SUFFICES ASSUME FInit PROVE FInv
  OBVIOUS
<1> USE FlusherAssumption DEF FInit
<1>1. FTypeOK
  BY DEF FTypeOK, Pass, Idle, Working, Flushers, Content, Days
<1>2. DeletedOnlyWhenStored /\ ObjectsComplete /\ NoOrphanGz /\ FilesIntact
  BY DEF DeletedOnlyWhenStored, ObjectsComplete, NoOrphanGz, FilesIntact, Days
<1>3. OthersIdle /\ PassFresh /\ \A p \in Configured : PassSound(p)
  BY DEF OthersIdle, PassFresh, PassSound, Idle, Flushers
<1> QED BY <1>1, <1>2, <1>3 DEF FInv

\* A step that touches neither files nor S3, and leaves every pass as it is or
\* outside of any file, keeps the invariant.
LEMMA QuietStep ==
  ASSUME FInv, FTypeOK', PassFresh',
         UNCHANGED <<pending, made, gz, s3>>,
         \A q \in Flushers : \/ pass'[q] = pass[q]
                             \/ pass'[q].pc \in {"idle", "list"}
  PROVE  FInv'
<1> USE DEF FInv
<1>1. /\ DeletedOnlyWhenStored' /\ ObjectsComplete' /\ NoOrphanGz' /\ FilesIntact'
  BY DEF DeletedOnlyWhenStored, ObjectsComplete, NoOrphanGz, FilesIntact, Stored
<1>2. OthersIdle'
  BY DEF OthersIdle
<1>3. ASSUME NEW q \in Configured PROVE PassSound(q)'
  <2>1. q \in Flushers
    BY FlusherAssumption DEF Flushers
  <2>2. CASE pass'[q] = pass[q]
    BY <2>2 DEF PassSound, Current, Stored
  <2>3. CASE pass'[q].pc \in {"idle", "list"}
    BY <2>1, <2>3 DEF PassSound, PassFresh
  <2> QED BY <2>1, <2>2, <2>3
<1> QED BY <1>1, <1>2, <1>3

LEMMA WakeInv == ASSUME FInv, NEW p \in Flushers, Wake(p) PROVE FInv'
<1>1. pass[p] = Idle
  BY DEF FInv, PassFresh, Wake
<1>2. FTypeOK'
  BY <1>1 DEF FInv, FTypeOK, Wake, Pass, Working, Idle
<1>3. PassFresh'
  BY <1>1 DEF FInv, FTypeOK, PassFresh, Wake, Idle
<1> QED BY <1>2, <1>3, QuietStep DEF Wake, FInv, FTypeOK

LEMMA StopInv == ASSUME FInv, NEW p \in Flushers, Stop(p) PROVE FInv'
<1>1. FTypeOK' /\ PassFresh'
  BY DEF FInv, FTypeOK, PassFresh, Stop
<1> QED BY <1>1, QuietStep DEF Stop

LEMMA CancelInv == ASSUME FInv, NEW p \in Flushers, Cancel(p) PROVE FInv'
<1>1. FTypeOK' /\ PassFresh'
  BY DEF FInv, FTypeOK, PassFresh, Cancel
<1> QED BY <1>1, QuietStep DEF Cancel

LEMMA NextDayInv == ASSUME FInv, NextDay PROVE FInv'
<1>1. FTypeOK' /\ PassFresh'
  BY FlusherAssumption DEF FInv, FTypeOK, PassFresh, NextDay, Days
<1> QED BY <1>1, QuietStep DEF NextDay

\* A new process, after a kill that is counted or after an exit.
LEMMA RestartInv ==
  ASSUME FInv, NEW p \in Flushers, Restart(p), crashes' \in 0 .. MaxCrashes
  PROVE  FInv'
<1>1. FTypeOK'
  BY DEF FInv, FTypeOK, Restart, Idle, Pass, Working, Content
<1>2. PassFresh'
  BY DEF FInv, FTypeOK, PassFresh, Restart, Idle
<1> QED BY <1>1, <1>2, QuietStep DEF Restart, FInv, FTypeOK, Idle

LEMMA CrashInv == ASSUME FInv, NEW p \in Flushers, Crash(p) PROVE FInv'
<1>1. crashes' \in 0 .. MaxCrashes
  BY FlusherAssumption DEF FInv, FTypeOK, Crash
<1> QED BY <1>1, RestartInv DEF Crash

\* The end of a pass, when it leaves the files and S3 alone.
LEMMA EndPassInv ==
  ASSUME FInv, NEW p \in Flushers, EndPass(p),
         UNCHANGED <<pending, made, gz, s3, day, fstop, crashes>>
  PROVE  FInv'
<1>1. FTypeOK'
  BY DEF FInv, FTypeOK, EndPass, Idle, Pass, Working, Content
<1>2. PassFresh'
  BY DEF FInv, FTypeOK, PassFresh, EndPass, Idle
<1> QED BY <1>1, <1>2, QuietStep DEF EndPass, FInv, FTypeOK, Idle

LEMMA ListPendingInv ==
  ASSUME FInv, NEW p \in Flushers, ListPending(p)
  PROVE  FInv'
<1>1. CASE p \notin Configured
  BY <1>1, EndPassInv DEF ListPending
<1>2. CASE p \in Configured
  <2> DEFINE listed == {f \in Files : pending[f] # NoFile}
  <2>1. /\ pass' = [pass EXCEPT ![p].pc = "next", ![p].todo = listed]
        /\ UNCHANGED <<pending, made, gz, s3, day, fstop, task, crashes>>
        /\ pass[p].pc = "list"
    BY <1>2 DEF ListPending
  <2>2. listed \subseteq Files /\ \A f \in listed : pending[f] # NoFile
    OBVIOUS
  <2> HIDE DEF listed
  <2> USE DEF FInv
  <2>3. FTypeOK'
    BY <2>1, <2>2 DEF FTypeOK, Pass, Working
  <2>4. DeletedOnlyWhenStored' /\ ObjectsComplete' /\ NoOrphanGz' /\ FilesIntact'
    BY <2>1 DEF DeletedOnlyWhenStored, ObjectsComplete, NoOrphanGz, FilesIntact, Stored
  <2>5. OthersIdle' /\ PassFresh'
    <3>1. task[p] \notin {"waiting", "once"}
      BY <2>1 DEF PassFresh, Idle
    <3>2. \A q \in Flushers : q # p => pass'[q] = pass[q]
      BY <2>1 DEF FTypeOK
    <3>3. pass'[p].pc = "next"
      BY <2>1 DEF FTypeOK, Pass
    <3> HIDE DEF FInv
    <3> QED BY <1>2, <2>1, <3>1, <3>2, <3>3 DEF FInv, OthersIdle, PassFresh
  <2>6. ASSUME NEW q \in Configured PROVE PassSound(q)'
    <3>1. q \in Flushers
      BY FlusherAssumption DEF Flushers
    <3>2. CASE q = p
      BY <2>1, <2>2, <3>2 DEF PassSound, FTypeOK, Pass
    <3>3. CASE q # p
      BY <2>1, <3>1, <3>3 DEF PassSound, Current, Stored, FTypeOK
    <3> QED BY <3>2, <3>3
  <2> QED BY <2>3, <2>4, <2>5, <2>6
<1> QED BY <1>1, <1>2

LEMMA FinishInv == ASSUME FInv, NEW p \in Flushers, Finish(p) PROVE FInv'
BY EndPassInv DEF Finish

\* The frame of a step of the pass p at its file c: no other file, no other
\* working pass, and not the history.
LEMMA FileStepFrame ==
  ASSUME OneFlusher, FInv, NEW p \in Flushers,
         pass[p].pc \notin {"idle", "list"},
         \A q \in Flushers : q # p => pass'[q] = pass[q],
         \A q \in Flushers : task'[q] = task[q] \/ task'[q] \notin {"waiting", "once"},
         task[p] = task'[p],
         pass'[p].pc \notin {"idle", "list"},
         UNCHANGED made
  PROVE  /\ OthersIdle'
         /\ PassFresh'
         /\ \A q \in Configured : q = p
<1>1. p \in Configured
  BY OnlyConfiguredWorks DEF FInv
<1>2. \A q \in Configured : q = p
  BY <1>1 DEF OneFlusher
<1>3. OthersIdle'
  BY <1>1, <1>2 DEF FInv, OthersIdle
<1>4. task[p] \notin {"waiting", "once"}
  BY DEF FInv, PassFresh, Idle
<1>5. PassFresh'
  BY <1>4 DEF FInv, PassFresh
<1> QED BY <1>2, <1>3, <1>5

LEMMA OpenSourceInv ==
  ASSUME OneFlusher, FInv, NEW p \in Flushers, OpenSource(p)
  PROVE  FInv'
<1>0. PICK c \in Files : c = Current(p) /\ c \in pass[p].todo
  BY CurrentListed DEF OpenSource, FInv
<1>2. /\ pass[p].pc = "next" /\ pending[c] # NoFile
      /\ gz' = [gz EXCEPT ![c] = <<>>]
      /\ pass' = [pass EXCEPT ![p].pc = "copying", ![p].linked = TRUE,
                              ![p].data = pending[c]]
      /\ UNCHANGED <<pending, made, s3, day, fstop, task, crashes>>
  BY <1>0 DEF OpenSource
<1>3. /\ pass'[p].pc = "copying" /\ pass'[p].linked
      /\ pass'[p].todo = pass[p].todo /\ pass'[p].data = pending[c]
      /\ \A q \in Flushers : q # p => pass'[q] = pass[q]
  BY <1>2 DEF FInv, FTypeOK, Pass
<1>4. Current(p)' = c
  BY <1>0, <1>3 DEF Current
<1>5. pending[c] = made[c]
  BY <1>0, <1>2 DEF FInv, FilesIntact
<1>6. FTypeOK'
  <2>1. pending[c] \in Content /\ <<>> \in Content
    BY <1>0, <1>2 DEF FInv, FTypeOK, Content
  <2>2. pass' \in [Flushers -> Pass]
    <3>1. pass[p] \in Pass
      BY DEF FInv, FTypeOK
    <3>2. [pass[p] EXCEPT !.pc = "copying", !.linked = TRUE, !.data = pending[c]]
            \in Pass
      BY <2>1, <3>1 DEF Pass, Working
    <3>3. pass' = [pass EXCEPT ![p] =
                     [pass[p] EXCEPT !.pc = "copying", !.linked = TRUE,
                                     !.data = pending[c]]]
      BY <1>2, <3>1 DEF FInv, FTypeOK
    <3> QED BY <3>2, <3>3 DEF FInv, FTypeOK
  <2>3. gz' \in [Files -> Content \cup {NoFile}]
    BY <1>2, <2>1 DEF FInv, FTypeOK
  <2> QED BY <1>0, <1>2, <1>3, <2>2, <2>3 DEF FInv, FTypeOK
<1>7. DeletedOnlyWhenStored' /\ ObjectsComplete' /\ FilesIntact'
  BY <1>2 DEF FInv, DeletedOnlyWhenStored, ObjectsComplete, FilesIntact, Stored
<1>8. NoOrphanGz'
  BY <1>0, <1>2 DEF FInv, FTypeOK, NoOrphanGz
<1>9. OthersIdle' /\ PassFresh' /\ \A q \in Configured : q = p
  BY <1>2, <1>3, FileStepFrame
<1>10. PassSound(p)'
  <2>1. p \in Configured
    BY <1>2, OnlyConfiguredWorks DEF FInv
  <2>2. \A f \in pass[p].todo : pending[f] # NoFile
    BY <2>1 DEF FInv, PassSound
  <2> QED BY <1>2, <1>3, <1>4, <1>5, <2>2 DEF PassSound
<1> QED BY <1>6, <1>7, <1>8, <1>9, <1>10 DEF FInv

LEMMA FinishCopyInv ==
  ASSUME OneFlusher, FInv, NEW p \in Flushers, FinishCopy(p)
  PROVE  FInv'
<1>0. PICK c \in Files : c = Current(p) /\ c \in pass[p].todo
  BY CurrentListed DEF FinishCopy, FInv, FTypeOK, Working
<1>2. PassSound(p) /\ pass[p].pc = "copying"
  BY OnlyConfiguredWorks DEF FinishCopy, FInv
<1>3. /\ gz' = [gz EXCEPT ![c] = made[c]]
      /\ pass' = [pass EXCEPT ![p].pc = "upload", ![p].linked = FALSE]
      /\ UNCHANGED <<pending, made, s3, day, fstop, task, crashes>>
  BY <1>0, <1>2 DEF FinishCopy, PassSound
<1>4. /\ pass'[p].pc = "upload" /\ pass'[p].todo = pass[p].todo
      /\ \A q \in Flushers : q # p => pass'[q] = pass[q]
  BY <1>3 DEF FInv, FTypeOK, Pass
<1>5. Current(p)' = c
  BY <1>0, <1>4 DEF Current
<1>6. pending[c] # NoFile
  BY <1>0, <1>2 DEF PassSound
<1>7. FTypeOK'
  <2>1. pass' \in [Flushers -> Pass]
    <3>1. pass \in [Flushers -> Pass]
      BY DEF FInv, FTypeOK
    <3>2. [pass[p] EXCEPT !.pc = "upload", !.linked = FALSE] \in Pass
      BY <3>1 DEF Pass, Working
    <3> QED BY <1>3, <3>1, <3>2
  <2>2. gz' \in [Files -> Content \cup {NoFile}]
    BY <1>0, <1>3 DEF FInv, FTypeOK
  <2> QED BY <1>0, <1>3, <1>4, <2>1, <2>2 DEF FInv, FTypeOK
<1>8. DeletedOnlyWhenStored' /\ ObjectsComplete' /\ FilesIntact'
  BY <1>3 DEF FInv, DeletedOnlyWhenStored, ObjectsComplete, FilesIntact, Stored
<1>9. NoOrphanGz'
  BY <1>3, <1>6 DEF FInv, FTypeOK, NoOrphanGz
<1>10. OthersIdle' /\ PassFresh' /\ \A q \in Configured : q = p
  BY <1>2, <1>3, <1>4, FileStepFrame
<1>11. PassSound(p)'
  BY <1>0, <1>2, <1>3, <1>4, <1>5 DEF FInv, FTypeOK, PassSound
<1> QED BY <1>7, <1>8, <1>9, <1>10, <1>11 DEF FInv

\* What an upload of the finished .gz of c does to the bucket.
LEMMA UploadStores ==
  ASSUME FInv, NEW c \in Files, gz[c] = made[c], made[c] # NoFile,
         s3' = [s3 EXCEPT ![day][c] = gz[c]], UNCHANGED made
  PROVE  /\ s3' \in [Days -> [Files -> Content \cup {NoFile}]]
         /\ ObjectsComplete'
         /\ \A f \in Files : Stored(f) => Stored(f)'
         /\ Stored(c)'
<1>1. day \in Days /\ made[c] \in Content /\ s3 \in [Days -> [Files -> Content \cup {NoFile}]]
  BY DEF FInv, FTypeOK
<1>2. \A d \in Days, f \in Files :
        s3'[d][f] = IF d = day /\ f = c THEN made[c] ELSE s3[d][f]
  BY <1>1
<1>3. s3' \in [Days -> [Files -> Content \cup {NoFile}]]
  BY <1>1
<1>4. ObjectsComplete'
  BY <1>2 DEF FInv, ObjectsComplete
<1>5. \A f \in Files : Stored(f) => Stored(f)'
  BY <1>2 DEF Stored
<1>6. Stored(c)'
  BY <1>1, <1>2 DEF Stored
<1> QED BY <1>3, <1>4, <1>5, <1>6

LEMMA UploadInv ==
  ASSUME OneFlusher, FInv, NEW p \in Flushers, Upload(p)
  PROVE  FInv'
<1>0. PICK c \in Files : c = Current(p) /\ c \in pass[p].todo
  BY CurrentListed DEF Upload, FInv, FTypeOK, Working
<1>2. PassSound(p) /\ pass[p].pc = "upload"
  BY OnlyConfiguredWorks DEF Upload, FInv
<1>3. /\ gz[c] # NoFile /\ gz[c] = made[c]
      /\ s3' = [s3 EXCEPT ![day][c] = gz[c]]
      /\ pass' = [pass EXCEPT ![p].pc = "rmgz"]
      /\ UNCHANGED <<pending, made, gz, day, fstop, task, crashes>>
  BY <1>0, <1>2 DEF Upload, PassSound
<1>4. /\ pass'[p].pc = "rmgz" /\ pass'[p].todo = pass[p].todo
      /\ \A q \in Flushers : q # p => pass'[q] = pass[q]
  BY <1>3 DEF FInv, FTypeOK, Pass
<1>5. Current(p)' = c
  BY <1>0, <1>4 DEF Current
<1>6. /\ s3' \in [Days -> [Files -> Content \cup {NoFile}]]
      /\ ObjectsComplete'
      /\ \A f \in Files : Stored(f) => Stored(f)'
      /\ Stored(c)'
  BY <1>3, UploadStores
<1>7. FTypeOK'
  <2>1. pass' \in [Flushers -> Pass]
    BY <1>3 DEF FInv, FTypeOK, Pass, Working
  <2> QED BY <1>0, <1>3, <1>4, <1>6, <2>1 DEF FInv, FTypeOK
<1>8. DeletedOnlyWhenStored'
  BY <1>3, <1>6 DEF FInv, DeletedOnlyWhenStored
<1>9. NoOrphanGz' /\ FilesIntact'
  BY <1>3 DEF FInv, NoOrphanGz, FilesIntact
<1>10. OthersIdle' /\ PassFresh' /\ \A q \in Configured : q = p
  BY <1>2, <1>3, <1>4, FileStepFrame
<1>11. PassSound(p)'
  BY <1>0, <1>2, <1>3, <1>4, <1>5, <1>6 DEF PassSound
<1> QED BY <1>6, <1>7, <1>8, <1>9, <1>10, <1>11 DEF FInv

LEMMA RemoveGzInv ==
  ASSUME OneFlusher, FInv, NEW p \in Flushers, RemoveGz(p)
  PROVE  FInv'
<1>0. PICK c \in Files : c = Current(p) /\ c \in pass[p].todo
  BY CurrentListed DEF RemoveGz, FInv, FTypeOK, Working
<1>1. p \in Configured
  BY OnlyConfiguredWorks DEF RemoveGz, FInv
<1>2. PassSound(p) /\ pass[p].pc = "rmgz"
  BY <1>1 DEF RemoveGz, FInv
<1>3. /\ gz' = [gz EXCEPT ![c] = NoFile]
      /\ UNCHANGED <<pending, made, s3, day, fstop, task, crashes>>
  BY <1>0 DEF RemoveGz
<1>4. \A q \in Flushers : q # p => pass'[q] = pass[q]
  BY <1>0, <1>1 DEF RemoveGz, OneFlusher, FInv, OthersIdle
<1>5. /\ pass'[p].pc \in {"rmsrc", "next"}
      /\ pass'[p].pc = "rmsrc" => pass'[p].todo = pass[p].todo
      /\ pass'[p].pc = "next" => pass'[p].todo = pass[p].todo \ {c}
      /\ pass' \in [Flushers -> Pass]
  <2>1. pass[p] \in Pass
    BY DEF FInv, FTypeOK
  <2>2. CASE DeleteAfterUpload
    <3>1. pass'[p] = [pass[p] EXCEPT !.pc = "rmsrc"]
      BY <2>2 DEF RemoveGz
    <3>2. pass'[p] \in Pass
      BY <2>1, <3>1 DEF Pass, Working
    <3> QED BY <1>4, <2>1, <3>1, <3>2 DEF RemoveGz, FInv, FTypeOK, Pass
  <2>3. CASE ~ DeleteAfterUpload
    <3>1. pass'[p] = [pass[p] EXCEPT !.pc = "next", !.todo = pass[p].todo \ {c}]
      BY <1>0, <2>3 DEF RemoveGz
    <3>2. pass'[p] \in Pass
      BY <2>1, <3>1 DEF Pass, Working
    <3> QED BY <1>4, <2>1, <3>1, <3>2 DEF RemoveGz, FInv, FTypeOK, Pass
  <2> QED BY <2>2, <2>3
<1>6. pass'[p].pc = "rmsrc" => Current(p)' = c
  BY <1>0, <1>5 DEF Current
<1>7. FTypeOK'
  <2>1. gz' \in [Files -> Content \cup {NoFile}]
    BY <1>3 DEF FInv, FTypeOK
  <2> QED BY <1>0, <1>3, <1>4, <1>5, <2>1 DEF FInv, FTypeOK, Working
<1>8. DeletedOnlyWhenStored' /\ ObjectsComplete' /\ FilesIntact'
  BY <1>3 DEF FInv, DeletedOnlyWhenStored, ObjectsComplete, FilesIntact, Stored
<1>9. NoOrphanGz'
  BY <1>3 DEF FInv, FTypeOK, NoOrphanGz
<1>10. OthersIdle' /\ PassFresh' /\ \A q \in Configured : q = p
  BY <1>2, <1>3, <1>4, <1>5, FileStepFrame
<1>11. PassSound(p)'
  <2>1. \A f \in pass'[p].todo : pending'[f] # NoFile
    BY <1>2, <1>3, <1>5 DEF PassSound
  <2>2. pass'[p].pc = "rmsrc" => gz'[Current(p)'] = NoFile /\ Stored(Current(p))'
    BY <1>0, <1>2, <1>3, <1>6 DEF FInv, FTypeOK, PassSound, Stored
  <2> QED BY <1>5, <2>1, <2>2 DEF PassSound
<1> QED BY <1>7, <1>8, <1>9, <1>10, <1>11 DEF FInv

LEMMA RemoveSrcInv ==
  ASSUME OneFlusher, FInv, NEW p \in Flushers, RemoveSrc(p)
  PROVE  FInv'
<1>0. PICK c \in Files : c = Current(p) /\ c \in pass[p].todo
  BY CurrentListed DEF RemoveSrc, FInv, FTypeOK, Working
<1>2. PassSound(p) /\ pass[p].pc = "rmsrc"
  BY OnlyConfiguredWorks DEF RemoveSrc, FInv
<1>3. /\ pending' = [pending EXCEPT ![c] = NoFile]
      /\ pass' = [pass EXCEPT ![p].pc = "next", ![p].todo = @ \ {c}]
      /\ UNCHANGED <<made, gz, s3, day, fstop, task, crashes>>
  BY <1>0 DEF RemoveSrc
<1>4. /\ pass'[p].pc = "next" /\ pass'[p].todo = pass[p].todo \ {c}
      /\ \A q \in Flushers : q # p => pass'[q] = pass[q]
      /\ pass' \in [Flushers -> Pass]
  <2>1. pass \in [Flushers -> Pass]
    BY DEF FInv, FTypeOK
  <2>2. [pass[p] EXCEPT !.pc = "next", !.todo = @ \ {c}] \in Pass
    BY <2>1 DEF Pass
  <2>3. pass[p] = [pc |-> pass[p].pc, todo |-> pass[p].todo, data |-> pass[p].data,
                   linked |-> pass[p].linked]
    BY <2>1 DEF Pass
  <2>4. pass' = [pass EXCEPT ![p] = [pass[p] EXCEPT !.pc = "next", !.todo = @ \ {c}]]
    BY <1>3, <2>1
  <2> QED BY <2>1, <2>2, <2>3, <2>4
<1>5. gz[c] = NoFile /\ Stored(c)
  BY <1>0, <1>2 DEF PassSound
<1>7. FTypeOK'
  <2>1. pending' \in [Files -> Content \cup {NoFile}]
    BY <1>3 DEF FInv, FTypeOK
  <2> QED BY <1>3, <1>4, <2>1 DEF FInv, FTypeOK, Working
<1>8. DeletedOnlyWhenStored' /\ ObjectsComplete' /\ FilesIntact'
  BY <1>3, <1>5 DEF FInv, FTypeOK, DeletedOnlyWhenStored, ObjectsComplete, FilesIntact, Stored
<1>9. NoOrphanGz'
  BY <1>3, <1>5 DEF FInv, FTypeOK, NoOrphanGz
<1>10. OthersIdle' /\ PassFresh' /\ \A q \in Configured : q = p
  BY <1>2, <1>3, <1>4, FileStepFrame
<1>11. PassSound(p)'
  BY <1>2, <1>3, <1>4 DEF FInv, FTypeOK, PassSound
<1> QED BY <1>7, <1>8, <1>9, <1>10, <1>11 DEF FInv

LEMMA RaiseInv ==
  ASSUME OneFlusher, FInv, NEW p \in Flushers, Raise(p)
  PROVE  FInv'
<1>1. CASE UNCHANGED s3
  BY <1>1, EndPassInv DEF Raise
<1>2. CASE /\ pass[p].pc = "upload" /\ gz[Current(p)] # NoFile
           /\ s3' = [s3 EXCEPT ![day][Current(p)] = gz[Current(p)]]
  <2>0. PICK c \in Files : c = Current(p) /\ c \in pass[p].todo
    BY <1>2, CurrentListed DEF FInv, FTypeOK, Working
  <2>1. PassSound(p)
    BY <1>2, OnlyConfiguredWorks DEF FInv
  <2>2. gz[c] = made[c] /\ made[c] # NoFile
    BY <1>2, <2>0, <2>1 DEF PassSound
  <2>3. EndPass(p) /\ UNCHANGED <<pending, made, gz, day, fstop, crashes>>
    BY DEF Raise
  <2>4. /\ s3' \in [Days -> [Files -> Content \cup {NoFile}]]
        /\ ObjectsComplete'
        /\ \A f \in Files : Stored(f) => Stored(f)'
    BY <1>2, <2>0, <2>2, <2>3, UploadStores
  <2>5. /\ pass'[p] = Idle
        /\ \A q \in Flushers : q # p => pass'[q] = pass[q] /\ task'[q] = task[q]
    BY <2>3 DEF EndPass, FInv, FTypeOK
  <2>6. FTypeOK'
    <3>1. Idle \in Pass
      BY DEF Idle, Pass, Content
    <3> QED BY <2>3, <2>4, <3>1 DEF FInv, FTypeOK, EndPass, Idle, Working
  <2>7. DeletedOnlyWhenStored' /\ NoOrphanGz' /\ FilesIntact'
    BY <2>3, <2>4 DEF FInv, DeletedOnlyWhenStored, NoOrphanGz, FilesIntact
  <2>8. OthersIdle' /\ PassFresh'
    BY <2>5 DEF FInv, OthersIdle, PassFresh, Idle
  <2>9. \A q \in Configured : q = p
    BY <1>2, OnlyConfiguredWorks DEF FInv, OneFlusher
  <2>10. PassSound(p)'
    BY <2>5 DEF PassSound, Idle
  <2> QED BY <2>4, <2>6, <2>7, <2>8, <2>9, <2>10 DEF FInv
<1> QED BY <1>1, <1>2 DEF Raise

\* A file that is put in pending_dir under a new name, whatever it holds, also
\* while a coroutine is cancelled.
LEMMA AppearInv ==
  ASSUME FInv, NEW f \in Files, NEW b \in Content, made[f] = NoFile,
         pending' = [pending EXCEPT ![f] = b], made' = [made EXCEPT ![f] = b],
         UNCHANGED <<gz, s3, day, fstop, pass, crashes>>,
         task' \in [Flushers -> {"once", "waiting", "passing", "draining", "done"}],
         \A p \in Flushers : task'[p] \in {task[p], "done"}
  PROVE  FInv'
<1>1. /\ made[f] = NoFile /\ pending[f] = NoFile
      /\ pending' = [pending EXCEPT ![f] = b]
      /\ made' = [made EXCEPT ![f] = b]
      /\ UNCHANGED <<gz, s3, day, fstop, pass, crashes>>
  BY DEF FInv, FilesIntact
<1>2. b \in Content
  OBVIOUS
<1>3. FTypeOK'
  BY <1>1, <1>2 DEF FInv, FTypeOK
<1>4. \A d \in Days : s3[d][f] = NoFile
  BY <1>1 DEF FInv, ObjectsComplete
<1>5. \A g \in Files : g # f => made'[g] = made[g] /\ pending'[g] = pending[g]
  BY <1>1 DEF FInv, FTypeOK
<1>6. pending'[f] = b /\ made'[f] = b /\ b # NoFile
  BY <1>1, <1>2, FlusherAssumption DEF FInv, FTypeOK
<1>7. /\ DeletedOnlyWhenStored' /\ ObjectsComplete' /\ NoOrphanGz' /\ FilesIntact'
  BY <1>1, <1>4, <1>5, <1>6
     DEF FInv, DeletedOnlyWhenStored, ObjectsComplete, NoOrphanGz, FilesIntact, Stored
<1>8. OthersIdle' /\ PassFresh'
  BY <1>1 DEF FInv, OthersIdle, PassFresh
<1>9. ASSUME NEW p \in Configured PROVE PassSound(p)'
  <2>1. p \in Flushers /\ PassSound(p)
    BY FlusherAssumption DEF Flushers, FInv
  <2>2. f \notin pass[p].todo
    BY <1>1, <2>1 DEF PassSound
  <2>3. CASE pass[p].pc \notin Working
    BY <1>1, <1>5, <1>6, <2>1, <2>3 DEF PassSound, Working
  <2>4. CASE pass[p].pc \in Working
    <3>1. Current(p) \in pass[p].todo /\ Current(p) \in Files
      BY <2>1, <2>4, CurrentListed DEF FInv, FTypeOK
    <3>2. Current(p)' = Current(p) /\ Current(p) # f
      BY <1>1, <2>2, <3>1 DEF Current
    <3> QED BY <1>1, <1>5, <1>6, <2>1, <2>2, <3>1, <3>2
            DEF FInv, FTypeOK, Pass, PassSound, Stored
  <2> QED BY <2>3, <2>4
<1> QED BY <1>3, <1>7, <1>8, <1>9 DEF FInv

LEMMA DeliverInv ==
  ASSUME FInv, NEW f \in Files, Deliver(f)
  PROVE  FInv'
<1>1. <<f>> \in Content
  BY FlusherAssumption DEF Content
<1> QED BY <1>1, AppearInv DEF Deliver, FInv, FTypeOK
-----------------------------------------------------------------------------
LEMMA FlushStepInv ==
  ASSUME OneFlusher, FInv, NEW p \in Flushers, FlushStep(p)
  PROVE  FInv'
BY ListPendingInv, FinishInv, OpenSourceInv, FinishCopyInv, UploadInv, RemoveGzInv,
   RemoveSrcInv DEF FlushStep

\* Whatever one flusher's passes, failures, crashes and restarts do, FInv holds.
THEOREM FlusherInvariant ==
  ASSUME OneFlusher PROVE FSpec => []FInv
<1>1. FInit => FInv
  BY InitInv
<1>2. FInv /\ [FNext]_fvars => FInv'
  <2> SUFFICES ASSUME FInv, [FNext]_fvars PROVE FInv'
    OBVIOUS
  <2>1. ASSUME NEW p \in Flushers, Wake(p) \/ FlushStep(p) \/ Raise(p) \/ Crash(p)
        PROVE  FInv'
    BY <2>1, WakeInv, FlushStepInv, RaiseInv, CrashInv
  <2>2. ASSUME NEW p \in Recorders, Stop(p) \/ (p \in fstop /\ Cancel(p))
        PROVE  FInv'
    BY <2>2, StopInv, CancelInv DEF Flushers
  <2>3. ASSUME NEW f \in Files, Deliver(f) PROVE FInv'
    BY <2>3, DeliverInv
  <2>4. CASE NextDay
    BY <2>4, NextDayInv
  <2>5. CASE UNCHANGED fvars
    BY <2>5, QuietStep DEF fvars, FInv, FTypeOK, PassFresh
  <2> QED BY <2>1, <2>2, <2>3, <2>4, <2>5 DEF FNext
<1> QED BY <1>1, <1>2, PTL DEF FSpec

\* The flusher's variables keep their types, and a pass that works on a file
\* has one in its listing.
THEOREM TypeCorrect ==
  ASSUME OneFlusher PROVE FSpec => []FTypeOK
<1>1. FInv => FTypeOK
  BY DEF FInv
<1> QED BY <1>1, FlusherInvariant, PTL

\* The delete of _flush_once is only ever "on success": a file that left
\* pending_dir is complete in S3.
THEOREM NothingDeletedUnstored ==
  ASSUME OneFlusher PROVE FSpec => []DeletedOnlyWhenStored
<1>1. FInv => DeletedOnlyWhenStored
  BY DEF FInv
<1> QED BY <1>1, FlusherInvariant, PTL

\* No upload ships a .gz that is half-written, from this pass or from one that
\* a crash cut short.
THEOREM NoTornObject ==
  ASSUME OneFlusher PROVE FSpec => []ObjectsComplete
<1>1. FInv => ObjectsComplete
  BY DEF FInv
<1> QED BY <1>1, FlusherInvariant, PTL

\* No temporary .gz is left without the .jsonl that makes a later pass visit it.
THEOREM NoGzLeftBehind ==
  ASSUME OneFlusher PROVE FSpec => []NoOrphanGz
<1>1. FInv => NoOrphanGz
  BY DEF FInv
<1> QED BY <1>1, FlusherInvariant, PTL
=============================================================================
