-------------------------- MODULE DownloadRuntime --------------------------
(***************************************************************************)
(* The download manager as the browser runs it:                            *)
(* AdvancedDownloadRuntimeService of advanced_download_runtime.hpp, which  *)
(* owns the queue of records, the transfer scheduler (module               *)
(* DownloadScheduler, whose variables are used here under their names),    *)
(* the staged and final files, the checkpoints and the persistent queue.   *)
(*                                                                         *)
(* A process death can fall between any two steps of a pump, of a callback *)
(* or of the constructor of the next process, which restores what the disk *)
(* holds.  (Inside an operation of the user it leaves what a failed save   *)
(* or erase of the same operation and a death after it leave.)             *)
(*                                                                         *)
(* Abstractions: every resource has Total bytes in each of its versions    *)
(* and the server names the version by an ETag; all scheduled downloads    *)
(* have the same start time; the lines of queue.tsv are restored in any    *)
(* order; a file written through a temporary file and a rename changes     *)
(* atomically.  progress_, progress_samples_ and security_decisions_ are   *)
(* read by the panel only and are left out.                                *)
(***************************************************************************)
EXTENDS DownloadPlan, FiniteSets

CONSTANTS
  MaxId,        \* bound: ids are 1..MaxId
  Sources,      \* URLs
  Files,        \* names in the download directory
  Requests,     \* what can be enqueued: [source, file, private, scheduled]
  Total,        \* bytes of a resource
  MaxSegments,  \* kMaximumSegmentsPerDownload
  MaxActive,    \* kMaximumActiveDownloads
  MaxRetries,   \* kMaximumRetriesPerSegment
  MaxVersion,   \* bound: changes of a resource on its server
  MaxCrashes,   \* bound: process deaths
  RangeSupport, \* what a server may say of Accept-Ranges: a set of Booleans
  Answers,      \* the kinds of answers the network gives
  Verdicts,     \* what Wardveil may decide
  Faults,       \* the file operations that may fail
  None

Ids == 1..MaxId

AnswerKinds == {"range", "rangecut", "short", "whole", "wholecut", "error", "down"}
VerdictKinds == {"allow", "hold", "block"}
FaultKinds == {"prepare", "write", "save", "erase", "read", "tamper", "remove", "rename"}

ASSUME RuntimeAssumption ==
  /\ {MaxId, Total, MaxSegments, MaxActive} \subseteq Nat \ {0}
  /\ {MaxRetries, MaxVersion, MaxCrashes} \subseteq Nat
  /\ Requests \subseteq [source : Sources, file : Files, private : BOOLEAN, scheduled : BOOLEAN]
  /\ RangeSupport \subseteq BOOLEAN
  /\ Answers \subseteq AnswerKinds
  /\ Verdicts \subseteq VerdictKinds
  /\ Faults \subseteq FaultKinds

VARIABLES
  \* the scheduler
  pending, active, plan, outcome, paused, cancelled, stage, scans, turn,
  \* the process
  rec,        \* queue_: the records by id, None when there is none
  nextId,     \* next_id_
  waiting,    \* scheduled_waiting_
  opened,     \* files_: the downloads whose paths are known
  etag,       \* metadata.etag of the plan of an active download
  job,        \* the callback in progress: its download, its next step, the
              \* digest sent to the scanner and the decision
  boot,       \* the loaded records restore_persistent_queue() has still to
              \* visit, by id
  running,    \* the constructor has returned
  \* the disk
  part,       \* staged files, by id and file name
  final,      \* released files, by name
  ckpt,       \* .goreecloud-checkpoints
  store,      \* queue.tsv, by id
  \* the world
  version,    \* the current version of each resource
  due,        \* the scheduled start time has come
  crashes

schedVars == <<pending, active, plan, outcome, paused, cancelled, stage, scans, turn>>
diskVars == <<part, final, ckpt, store>>
worldVars == <<version, due, crashes>>
vars == <<schedVars, rec, nextId, waiting, opened, etag, job, boot, running, diskVars, worldVars>>

States == {"queued", "running", "paused", "completed", "failed", "cancelled",
           "verifying", "held", "blocked"}

Fresh(ranges) == MakePlan(Total, MaxSegments, ranges)

\* The plan f with credits c and retries r.
Progressed(f, c, r) ==
  [i \in 1..Len(f) |-> [begin |-> f[i].begin, size |-> f[i].size, credit |-> c[i],
                        retries |-> r[i], finished |-> c[i] = f[i].size]]

\* Every plan an admission can produce: the fresh ones, and these with the
\* credits and retries a checkpoint may hold.
AllPlans ==
  UNION {
    {Progressed(Fresh(ranges), c, r) :
        c \in {c \in [1..Len(Fresh(ranges)) -> 0..Total] :
                 \A i \in 1..Len(Fresh(ranges)) : c[i] <= Fresh(ranges)[i].size},
        r \in [1..Len(Fresh(ranges)) -> 0..MaxRetries]} :
    ranges \in BOOLEAN}

Sched == INSTANCE DownloadScheduler WITH Plans <- AllPlans, Reports <- 0..Total

(* The types of the records, the files and the callback in progress. *)

Hole == <<"hole">>
Junk == <<"junk">>

Bytes == {Hole, Junk} \cup (Sources \X (0..MaxVersion) \X (1..Total))

Contents == [1..Total -> Bytes]

Records == [source : Sources, file : Files, private : BOOLEAN, scheduled : BOOLEAN, state : States]

Checkpoints == [source : Sources, etag : 0..MaxVersion, plan : AllPlans]

Releases == [bytes : Contents, by : {None} \cup Ids, source : Sources]

Steps == {"none", "report", "running", "size", "scan", "recheck", "remove", "rename", "forget", "conclude"}

Jobs == [id : {None} \cup Ids, step : Steps, digest : Seq(Bytes), verdict : {"none"} \cup VerdictKinds]

ASSUME NoneAssumption ==
  None \notin Records /\ None \notin Releases /\ None \notin Ids /\ None \notin Seq(Bytes)

NoJob == [id |-> None, step |-> "none", digest |-> <<>>, verdict |-> "none"]

NoRecords == [id \in Ids |-> None]

Init ==
  /\ Sched!Init
  /\ rec = NoRecords
  /\ nextId = 1
  /\ waiting = {}
  /\ opened = {}
  /\ etag = [id \in Ids |-> 0]
  /\ job = NoJob
  /\ boot = NoRecords
  /\ running = TRUE
  /\ part = [id \in Ids |-> [f \in Files |-> None]]
  /\ final = [f \in Files |-> None]
  /\ ckpt = [id \in Ids |-> None]
  /\ store = NoRecords
  /\ version = [s \in Sources |-> 0]
  /\ due = FALSE
  /\ crashes = 0

----------------------------------------------------------------------------
(* Contents of files. *)

\* Bytes from..to of a resource, counted from 1.
Slice(s, v, from, to) == [k \in 1..(to + 1 - from) |-> <<s, v, from + k - 1>>]

Whole(s, v) == Slice(s, v, 1, Total)

\* write_at(): data placed after offset bytes, a gap before it read as zeros.
\* It creates no file.
WriteAt(file, offset, data) ==
  LET end == IF offset + Len(data) > Len(file) THEN offset + Len(data) ELSE Len(file)
  IN  IF file = None \/ data = <<>> THEN file
      ELSE [k \in 1..end |->
              IF k > offset /\ k <= offset + Len(data) THEN data[k - offset]
              ELSE IF k <= Len(file) THEN file[k] ELSE Hole]

Staged(id) == part[id][rec[id].file]

\* Mutant: an existing staged file is truncated.
PreparedAnew(id, file) == [part EXCEPT ![id][file] = <<>>]

\* prepare(): an existing staged file is kept as it is.
Prepared(id, file) ==
  [part EXCEPT ![id][file] = IF @ = None THEN <<>> ELSE @]

----------------------------------------------------------------------------
(* The records and queue.tsv. *)

\* persist_queue() leaves private records out.
Saved(r) == [id \in Ids |-> IF r[id] # None /\ ~r[id].private THEN r[id] ELSE None]

\* The result of save() is ignored: a failed save leaves the old file, or no
\* file when the second rename fails too.
Persist(r) ==
  \/ store' = Saved(r)
  \/ "save" \in Faults /\ store' \in {store, NoRecords}

SaveCheckpoint(id, c) ==
  \/ ckpt' = [ckpt EXCEPT ![id] = c]
  \/ "save" \in Faults /\ ckpt' \in {ckpt, [ckpt EXCEPT ![id] = None]}

\* Mutant: the checkpoint is never erased.
EraseNothing(id) == UNCHANGED ckpt

\* Nor is the result of erase() looked at.
EraseCheckpoint(id) ==
  \/ ckpt' = [ckpt EXCEPT ![id] = None]
  \/ "erase" \in Faults /\ UNCHANGED ckpt

InState(id, states) == rec[id] # None /\ rec[id].state \in states

WithState(id, s) == [rec EXCEPT ![id].state = s]

SetState(id, s) == rec' = WithState(id, s) /\ Persist(WithState(id, s))

FutureStart(r) == r.scheduled /\ ~due

\* next_id(): the counter restarts with the process and skips the ids in use.
FreeIds == {id \in Ids : id >= nextId /\ rec[id] = None}
NextFree(id) == id \in FreeIds /\ \A j \in FreeIds : id <= j

\* The released file is no longer the result of the current attempt of id.
Disown(id) ==
  [f \in Files |-> IF final[f] # None /\ final[f].by = id
                   THEN [final[f] EXCEPT !.by = None] ELSE final[f]]

----------------------------------------------------------------------------
(* The user's operations, between two pumps. *)

Idle == running /\ stage = "idle"

UserFrame == UNCHANGED <<etag, job, boot, running, worldVars>>

Record(r, s) == [source |-> r.source, file |-> r.file, private |-> r.private,
                 scheduled |-> r.scheduled, state |-> s]

Enqueue(r, id) ==
  /\ Idle
  /\ NextFree(id)
  /\ rec' = [rec EXCEPT ![id] = Record(r, "queued")]
  /\ Persist([rec EXCEPT ![id] = Record(r, "queued")])
  /\ nextId' = id + 1
  /\ part' = Prepared(id, r.file)
  /\ opened' = opened \cup {id}
  /\ final' = Disown(id)
  /\ \/ FutureStart(r) /\ Sched!QueuePaused(id) /\ waiting' = waiting \cup {id}
     \/ ~FutureStart(r) /\ Sched!Queue(id) /\ UNCHANGED waiting
  /\ UserFrame
  /\ UNCHANGED ckpt

\* The staged file cannot be created: the record stays, cancelled.
EnqueueFails(r, id) ==
  /\ Idle
  /\ "prepare" \in Faults
  /\ NextFree(id)
  /\ rec' = [rec EXCEPT ![id] = Record(r, "cancelled")]
  /\ Persist([rec EXCEPT ![id] = Record(r, "cancelled")])
  /\ nextId' = id + 1
  /\ final' = Disown(id)
  /\ UserFrame
  /\ UNCHANGED <<schedVars, waiting, opened, part, ckpt>>

Pause(id) ==
  /\ Idle
  /\ InState(id, {"queued", "running", "paused", "failed"})
  /\ Sched!Pause(id)
  /\ waiting' = waiting \ {id}
  /\ SetState(id, "paused")
  /\ UserFrame
  /\ UNCHANGED <<nextId, opened, part, final, ckpt>>

Resume(id) ==
  /\ Idle
  /\ InState(id, {"paused"})
  /\ Sched!Resume(id)
  /\ waiting' = waiting \ {id}
  /\ SetState(id, "queued")
  /\ UserFrame
  /\ UNCHANGED <<nextId, opened, part, final, ckpt>>

Cancel(id, discard) ==
  /\ Idle
  /\ InState(id, States \ {"completed", "cancelled", "verifying"})
  /\ Sched!Cancel(id)
  /\ waiting' = waiting \ {id}
  /\ EraseCheckpoint(id)
  /\ \/ /\ discard /\ id \in opened
        /\ part' = [part EXCEPT ![id][rec[id].file] = None]
     \/ /\ ~discard \/ id \notin opened \/ "remove" \in Faults
        /\ UNCHANGED part
  /\ SetState(id, "cancelled")
  /\ UserFrame
  /\ UNCHANGED <<nextId, opened, final>>

Restartable(id) == InState(id, {"completed", "failed", "cancelled", "held", "blocked"})

Restart(id) ==
  /\ Idle
  /\ Restartable(id)
  /\ Sched!CancelAndQueue(id)
  /\ waiting' = waiting \ {id}
  /\ EraseCheckpoint(id)
  /\ \/ part' = [part EXCEPT ![id][rec[id].file] = <<>>]
     \/ "remove" \in Faults /\ part' = Prepared(id, rec[id].file)
  /\ opened' = opened \cup {id}
  /\ final' = Disown(id)
  /\ SetState(id, "queued")
  /\ UserFrame
  /\ UNCHANGED nextId

\* prepare() fails before or after the old staged file is discarded: restart()
\* has already cancelled the transfer and erased the checkpoint.
RestartFails(id) ==
  /\ Idle
  /\ "prepare" \in Faults
  /\ Restartable(id)
  /\ Sched!Cancel(id)
  /\ waiting' = waiting \ {id}
  /\ EraseCheckpoint(id)
  /\ \/ UNCHANGED part
     \/ part' = [part EXCEPT ![id][rec[id].file] = None]
  /\ UserFrame
  /\ UNCHANGED <<rec, nextId, opened, final, store>>

----------------------------------------------------------------------------
(* The pump.  The scheduler's steps happen when no callback is in progress. *)

Free == running /\ job = NoJob

PumpFrame == UNCHANGED <<nextId, opened, boot, running, worldVars>>

\* Mutant: the failure is not persisted.
MarkFailedUnsaved(id) ==
  waiting' = waiting \ {id} /\ rec' = WithState(id, "failed") /\ UNCHANGED store

\* mark_failed(): the checkpoint stays.
MarkFailed(id) == waiting' = waiting \ {id} /\ SetState(id, "failed")

\* Mutant: due schedules are not released.
PumpBeginOnly ==
  /\ Free
  /\ Sched!PumpBegin({})
  /\ PumpFrame
  /\ UNCHANGED <<rec, waiting, etag, job, diskVars>>

PumpBegin ==
  /\ Free
  /\ LET released == {id \in waiting : ~FutureStart(rec[id])}
     IN  Sched!PumpBegin(released) /\ waiting' = waiting \ released
  /\ PumpFrame
  /\ UNCHANGED <<rec, etag, job, diskVars>>

AdmitSkip ==
  /\ Free
  /\ Sched!AdmitDrop \/ Sched!AdmitDefer
  /\ PumpFrame
  /\ UNCHANGED <<rec, waiting, etag, job, diskVars>>

AdmitReject ==
  /\ Free
  /\ "down" \in Answers
  /\ Sched!AdmitReject
  /\ MarkFailed(Head(pending))
  /\ PumpFrame
  /\ UNCHANGED <<etag, job, part, final, ckpt>>

\* inspect(), make_plan() and the restored checkpoint; the first progress
\* report follows.
AdmitStart ==
  /\ Free
  /\ pending # <<>>
  /\ LET id  == Head(pending)
         src == rec[id].source
         tag == version[src]
     IN  /\ \E ranges \in RangeSupport :
              Sched!AdmitStart(IF ckpt[id] = None THEN Fresh(ranges)
                               ELSE ApplyCheckpoint(Fresh(ranges), src, tag, ckpt[id]))
         /\ etag' = [etag EXCEPT ![id] = tag]
         /\ job' = [NoJob EXCEPT !.id = id, !.step = "report"]
  /\ PumpFrame
  /\ UNCHANGED <<rec, waiting, diskVars>>

AdmitEnd ==
  /\ Free
  /\ Sched!AdmitEnd
  /\ PumpFrame
  /\ UNCHANGED <<rec, waiting, etag, job, diskVars>>

\* What the client makes of a request for the bytes of seg still missing:
\* the bytes it hands to the writer, at the offset it asked for; whether it
\* reports the range complete; whether the request may be retried.  A request
\* carries If-Range, so a range is served only while the version is the
\* plan's; a server may always ignore the range and send the whole resource.
\* Only a 206 answer counts as complete, but every body byte is written.  An
\* interrupted answer may be retried after some errors and not after others.
\* The writer may fail in the middle of any body, of a range or of a whole
\* resource, which ends the request for good with the bytes written so far.
\* (In the middle of an error page it leaves what a cut of that page leaves.)
Replies(id, seg) ==
  LET src  == rec[id].source
      from == seg.begin + seg.credit + 1
      to   == seg.begin + seg.size
      now  == version[src]
      same == etag[id] = now
      Reply(data, done, again) == [data |-> data, done |-> done, again |-> again]
  IN  UNION {
        IF "range" \in Answers /\ same
          THEN {Reply(Slice(src, now, from, to), TRUE, FALSE)} ELSE {},
        IF "rangecut" \in Answers /\ same
          THEN {Reply(Slice(src, now, from, k), FALSE, again) :
                  k \in (from - 1)..(to - 1), again \in BOOLEAN} ELSE {},
        IF "short" \in Answers /\ same
          THEN {Reply(Slice(src, now, from, k), TRUE, FALSE) : k \in from..(to - 1)} ELSE {},
        IF "whole" \in Answers
          THEN {Reply(Whole(src, now), FALSE, FALSE)} ELSE {},
        IF "wholecut" \in Answers
          THEN {Reply(Slice(src, now, 1, k), FALSE, again) :
                  k \in 1..(Total - 1), again \in BOOLEAN} ELSE {},
        IF "error" \in Answers
          THEN {Reply([i \in 1..k |-> Junk], FALSE, again) :
                  k \in 0..Total, again \in BOOLEAN} ELSE {},
        IF "down" \in Answers
          THEN {Reply(<<>>, FALSE, again) : again \in BOOLEAN} ELSE {},
        IF "write" \in Faults /\ Answers \cap {"range", "rangecut", "short"} # {} /\ same
          THEN {Reply(Slice(src, now, from, k), FALSE, FALSE) : k \in (from - 1)..(to - 1)} ELSE {},
        IF "write" \in Faults /\ Answers \cap {"whole", "wholecut"} # {}
          THEN {Reply(Slice(src, now, 1, k), FALSE, FALSE) : k \in 0..(Total - 1)} ELSE {}}

Transfer(id) ==
  /\ Free
  /\ id \in turn
  /\ stage = "transfer"
  /\ Sched!Unfinished(plan[id]) # {}
  /\ LET seg == plan[id][Sched!NextSegment(plan[id])]
     IN  \E reply \in Replies(id, seg) :
           /\ Sched!Transfer(id, Len(reply.data), reply.done, reply.again)
           /\ part' = [part EXCEPT ![id][rec[id].file] =
                         WriteAt(@, seg.begin + seg.credit, reply.data)]
  /\ job' = [NoJob EXCEPT !.id = id, !.step = "report"]
  /\ PumpFrame
  /\ UNCHANGED <<rec, waiting, etag, final, ckpt, store>>

TransferNothing(id) ==
  /\ Free
  /\ Sched!TransferNothing(id)
  /\ job' = [NoJob EXCEPT !.id = id, !.step = "report"]
  /\ PumpFrame
  /\ UNCHANGED <<rec, waiting, etag, diskVars>>

TransferEnd ==
  /\ Free
  /\ Sched!TransferEnd
  /\ PumpFrame
  /\ UNCHANGED <<rec, waiting, etag, job, diskVars>>

\* Mutant: the failure callback puts the download back in the queue, from
\* inside the pump.
SettleFailedRequeues(id) ==
  /\ Free
  /\ stage = "settle"
  /\ id \in turn
  /\ outcome[id] = "failed"
  /\ turn' = turn \ {id}
  /\ pending' = Append(pending, id)
  /\ SetState(id, "queued")
  /\ PumpFrame
  /\ UNCHANGED <<active, plan, outcome, paused, cancelled, stage, scans>>
  /\ UNCHANGED <<waiting, etag, job, part, final, ckpt>>

\* The failure callback.
SettleFailed(id) ==
  /\ Free
  /\ outcome[id] = "failed"
  /\ Sched!Settle(id)
  /\ MarkFailed(id)
  /\ PumpFrame
  /\ UNCHANGED <<etag, job, part, final, ckpt>>

PumpEnd ==
  /\ Free
  /\ Sched!PumpEnd
  /\ etag' = [id \in Ids |-> IF id \in Sched!Leaving THEN 0 ELSE etag[id]]
  /\ PumpFrame
  /\ UNCHANGED <<rec, waiting, job, diskVars>>

----------------------------------------------------------------------------
(* The callbacks, one action per write to the disk. *)

JobAt(step) == running /\ job.step = step

Goto(step) == job' = [job EXCEPT !.step = step]

\* The progress callback: the checkpoint first, then the queue.
Report ==
  /\ JobAt("report")
  /\ SaveCheckpoint(job.id, MakeCheckpoint(rec[job.id].source, etag[job.id], plan[job.id]))
  /\ Goto("running")
  /\ PumpFrame
  /\ UNCHANGED <<schedVars, rec, waiting, etag, part, final, store>>

ReportRunning ==
  /\ JobAt("running")
  /\ SetState(job.id, "running")
  /\ job' = NoJob
  /\ PumpFrame
  /\ UNCHANGED <<schedVars, waiting, etag, part, final, ckpt>>

\* verify_and_commit(), up to the first persist_queue().
BeginVerify(id) ==
  /\ Free
  /\ stage = "settle"
  /\ id \in turn
  /\ outcome[id] = "finished"
  /\ SetState(id, "verifying")
  /\ job' = [NoJob EXCEPT !.id = id, !.step = "size"]
  /\ PumpFrame
  /\ UNCHANGED <<schedVars, waiting, etag, part, final, ckpt>>

\* The callback returns to the settle loop after mark_failed().
FailJob ==
  /\ Sched!Settle(job.id)
  /\ MarkFailed(job.id)
  /\ job' = NoJob

\* The callback goes on to mark_blocked().
Refused == job' = [job EXCEPT !.step = "forget", !.verdict = "block"]

\* The size of the staged file and its first digest.
CheckSize ==
  /\ JobAt("size")
  /\ LET bytes == Staged(job.id)
     IN  \/ /\ bytes = None \/ Len(bytes) # Total
            /\ FailJob
         \/ /\ bytes # None /\ Len(bytes) = Total
            /\ \/ job' = [job EXCEPT !.step = "scan", !.digest = bytes]
               \/ "read" \in Faults /\ Refused
            /\ UNCHANGED <<schedVars, rec, waiting, store>>
  /\ PumpFrame
  /\ UNCHANGED <<etag, part, final, ckpt>>

Scan ==
  /\ JobAt("scan")
  /\ \E v \in Verdicts :
       job' = [job EXCEPT !.verdict = v, !.step = IF v = "allow" THEN "recheck" ELSE "forget"]
  /\ PumpFrame
  /\ UNCHANGED <<schedVars, rec, waiting, etag, diskVars>>

\* Something outside the browser rewrites the staged file while it is
\* scanned.  (Between the second digest and the rename the code does not look
\* at the bytes again; a change in that window is outside this model.)
Tamper ==
  /\ "tamper" \in Faults
  /\ JobAt("scan") \/ JobAt("recheck")
  /\ part' = [part EXCEPT ![job.id][rec[job.id].file] = [k \in 1..Total |-> Junk]]
  /\ PumpFrame
  /\ UNCHANGED <<schedVars, rec, waiting, etag, job, final, ckpt, store>>

\* Mutant: the digest is not computed again.
RecheckNothing ==
  /\ JobAt("recheck")
  /\ Goto("remove")
  /\ PumpFrame
  /\ UNCHANGED <<schedVars, rec, waiting, etag, diskVars>>

Recheck ==
  /\ JobAt("recheck")
  /\ \/ Staged(job.id) = job.digest /\ Goto("remove")
     \/ Staged(job.id) # job.digest /\ Refused
     \/ "read" \in Faults /\ Refused
  /\ PumpFrame
  /\ UNCHANGED <<schedVars, rec, waiting, etag, diskVars>>

\* commit(): an existing destination is removed, then the rename.
CommitRemove ==
  /\ JobAt("remove")
  /\ \/ /\ final' = [final EXCEPT ![rec[job.id].file] = None]
        /\ Goto("rename")
        /\ UNCHANGED <<schedVars, rec, waiting, store>>
     \/ /\ "remove" \in Faults
        /\ final[rec[job.id].file] # None
        /\ FailJob
        /\ UNCHANGED final
  /\ PumpFrame
  /\ UNCHANGED <<etag, part, ckpt>>

\* The released file of the job.
Commit == [bytes |-> Staged(job.id), by |-> job.id, source |-> rec[job.id].source]

\* Mutant: the result of the rename is not looked at.
CommitRenameUnchecked ==
  /\ JobAt("rename")
  /\ Goto("forget")
  /\ \/ /\ final' = [final EXCEPT ![rec[job.id].file] = Commit]
        /\ part' = [part EXCEPT ![job.id][rec[job.id].file] = None]
     \/ "rename" \in Faults /\ UNCHANGED <<part, final>>
  /\ PumpFrame
  /\ UNCHANGED <<schedVars, rec, waiting, etag, ckpt, store>>

CommitRename ==
  /\ JobAt("rename")
  /\ \/ /\ final' = [final EXCEPT ![rec[job.id].file] = Commit]
        /\ part' = [part EXCEPT ![job.id][rec[job.id].file] = None]
        /\ Goto("forget")
        /\ UNCHANGED <<schedVars, rec, waiting, store>>
     \/ /\ "rename" \in Faults
        /\ FailJob
        /\ UNCHANGED <<part, final>>
  /\ PumpFrame
  /\ UNCHANGED <<etag, ckpt>>

\* checkpoints_.erase(), before the last persist_queue() of the callback.
Forget ==
  /\ JobAt("forget")
  /\ EraseCheckpoint(job.id)
  /\ Goto("conclude")
  /\ PumpFrame
  /\ UNCHANGED <<schedVars, rec, waiting, etag, part, final, store>>

Concluded(v) ==
  CASE v = "allow" -> "completed"
    [] v = "hold"  -> "held"
    [] v = "block" -> "blocked"

Conclude ==
  /\ JobAt("conclude")
  /\ Sched!Settle(job.id)
  /\ waiting' = waiting \ {job.id}
  /\ SetState(job.id, Concluded(job.verdict))
  /\ job' = NoJob
  /\ PumpFrame
  /\ UNCHANGED <<etag, part, final, ckpt>>

----------------------------------------------------------------------------
(* Process death and restore_persistent_queue(). *)

\* Mutant: failed downloads are not restored.
RestorableNotFailed ==
  {id \in Ids : store[id] # None /\ store[id].state \notin {"completed", "cancelled", "failed"}}

Restorable == {id \in Ids : store[id] # None /\ store[id].state \notin {"completed", "cancelled"}}

Crash ==
  /\ crashes < MaxCrashes
  /\ crashes' = crashes + 1
  /\ Sched!Rebuild
  /\ rec' = NoRecords
  /\ nextId' = 1
  /\ waiting' = {}
  /\ opened' = {}
  /\ etag' = [id \in Ids |-> 0]
  /\ job' = NoJob
  /\ boot' = [id \in Ids |-> IF id \in Restorable THEN store[id] ELSE None]
  /\ running' = FALSE
  /\ UNCHANGED <<diskVars, version, due>>

BootFrame == UNCHANGED <<nextId, etag, job, running, worldVars>>

\* restore(): what was running or verifying waits again.
RestoredRecord(r) == [r EXCEPT !.state = IF @ \in {"running", "verifying"} THEN "queued" ELSE @]

\* A held or blocked download stays in staging, the others wait in the
\* scheduler, paused if they were or if their start time has not come.
Rescheduled(id, state, future) ==
  \/ state \in {"held", "blocked"} /\ UNCHANGED <<schedVars, waiting>>
  \/ state = "paused" /\ Sched!QueuePaused(id) /\ UNCHANGED waiting
  \/ /\ state \notin {"held", "blocked", "paused"}
     /\ \/ future /\ Sched!QueuePaused(id) /\ waiting' = waiting \cup {id}
        \/ ~future /\ Sched!Queue(id) /\ UNCHANGED waiting

RestoreOne(id) ==
  /\ boot[id] # None
  /\ boot' = [boot EXCEPT ![id] = None]
  /\ rec' = [rec EXCEPT ![id] = RestoredRecord(boot[id])]
  /\ part' = Prepared(id, boot[id].file)
  /\ opened' = opened \cup {id}
  /\ Rescheduled(id, boot[id].state, FutureStart(boot[id]))
  /\ BootFrame
  /\ UNCHANGED <<final, ckpt, store>>

\* Mutant: the record is kept as it was when its file cannot be reopened.
RestoreFailsQuietly(id) ==
  /\ boot[id] # None
  /\ "prepare" \in Faults
  /\ boot' = [boot EXCEPT ![id] = None]
  /\ LET to == [rec EXCEPT ![id] = RestoredRecord(boot[id])]
     IN  rec' = to /\ Persist(to)
  /\ BootFrame
  /\ UNCHANGED <<schedVars, waiting, opened, part, final, ckpt>>

\* mark_failed() persists the records restored so far, and only these.
RestoreFails(id) ==
  /\ boot[id] # None
  /\ "prepare" \in Faults
  /\ boot' = [boot EXCEPT ![id] = None]
  /\ LET to == [rec EXCEPT ![id] = [boot[id] EXCEPT !.state = "failed"]]
     IN  rec' = to /\ Persist(to)
  /\ BootFrame
  /\ UNCHANGED <<schedVars, waiting, opened, part, final, ckpt>>

BootDone ==
  /\ ~running
  /\ boot = NoRecords
  /\ running' = TRUE
  /\ Persist(rec)
  /\ UNCHANGED <<schedVars, rec, nextId, waiting, opened, etag, job, boot, part, final, ckpt, worldVars>>

----------------------------------------------------------------------------
(* The world. *)

StartTimeReached ==
  /\ ~due
  /\ due' = TRUE
  /\ UNCHANGED <<schedVars, rec, nextId, waiting, opened, etag, job, boot, running, diskVars, version, crashes>>

ServerChanges(s) ==
  /\ version[s] < MaxVersion
  /\ version' = [version EXCEPT ![s] = @ + 1]
  /\ UNCHANGED <<schedVars, rec, nextId, waiting, opened, etag, job, boot, running, diskVars, due, crashes>>

----------------------------------------------------------------------------

User ==
  \/ \E r \in Requests, id \in Ids : Enqueue(r, id) \/ EnqueueFails(r, id)
  \/ \E id \in Ids :
       \/ Pause(id)
       \/ Resume(id)
       \/ \E discard \in BOOLEAN : Cancel(id, discard)
       \/ Restart(id)
       \/ RestartFails(id)

Pump ==
  \/ PumpBegin
  \/ AdmitSkip
  \/ AdmitReject
  \/ AdmitStart
  \/ AdmitEnd
  \/ \E id \in Ids : Transfer(id) \/ TransferNothing(id) \/ SettleFailed(id) \/ BeginVerify(id)
  \/ TransferEnd
  \/ PumpEnd
  \/ Report
  \/ ReportRunning
  \/ CheckSize
  \/ Scan
  \/ Recheck
  \/ CommitRemove
  \/ CommitRename
  \/ Forget
  \/ Conclude

Boot == BootDone \/ \E id \in Ids : RestoreOne(id) \/ RestoreFails(id)

World == StartTimeReached \/ Tamper \/ \E s \in Sources : ServerChanges(s)

Next == User \/ Pump \/ Boot \/ World \/ Crash

Spec == Init /\ [][Next]_vars

\* The event loop pumps on every iteration and a constructor runs to its end;
\* time passes.  The user, the servers and process deaths owe nothing.
FairSpec ==
  /\ Spec
  /\ WF_vars(Pump)
  /\ WF_vars(Boot)
  /\ WF_vars(StartTimeReached)

----------------------------------------------------------------------------
(* Properties *)

\* Every variable of the process and the disk keeps its type.
TypeOK ==
  /\ rec \in [Ids -> {None} \cup Records]
  /\ nextId \in 1..(MaxId + 1)
  /\ waiting \subseteq Ids /\ opened \subseteq Ids
  /\ etag \in [Ids -> 0..MaxVersion]
  /\ job \in Jobs
  /\ boot \in [Ids -> {None} \cup Records] /\ running \in BOOLEAN
  /\ part \in [Ids -> [Files -> {None} \cup Seq(Bytes)]]
  /\ final \in [Files -> {None} \cup Releases]
  /\ ckpt \in [Ids -> {None} \cup Checkpoints]
  /\ store \in [Ids -> {None} \cup Records]
  /\ version \in [Sources -> 0..MaxVersion]
  /\ due \in BOOLEAN /\ crashes \in 0..MaxCrashes

\* The decision in force: what security_decisions_ says of the bytes whose
\* digest was sent to the scanner, until the rename.
Cleared ==
  IF job.verdict = "allow" /\ job.step \notin {"forget", "conclude"} THEN {job.digest} ELSE {}

Gate == INSTANCE ReleaseGate WITH
  Contents <- Contents,
  released <- [f \in Files |-> IF final[f] = None THEN None ELSE final[f].bytes],
  cleared  <- Cleared

\* A file appears under a final name only with the bytes that were cleared:
\* the runtime implements the release gate.
GateSpec == Gate!Spec

\* The runtime drives its scheduler only as the scheduler allows.
SchedulerSpec == Sched!Spec

\* A released file is one whole version of the resource it was requested from.
ReleasedIsWhole ==
  \A f \in Files : final[f] # None =>
    \E v \in 0..MaxVersion : final[f].bytes = Whole(final[f].source, v)

Settled == {"completed", "cancelled", "held", "blocked"}

\* Between pumps the record of a download and the scheduler tell the same
\* story: a settled download is out of the scheduler, an unsettled one is in it
\* (or was restarted and dropped), and paused_ holds exactly the records shown
\* as paused and those waiting for their start time.  (A failed download is
\* restored as failed but waits in the scheduler like a queued one.)
RecordsAgree ==
  Idle => \A id \in Ids :
    /\ InState(id, Settled) => ~Sched!Contains(id)
    /\ InState(id, States \ (Settled \cup {"failed"})) => Sched!Contains(id) \/ id \in cancelled
    /\ InState(id, {"running"}) => id \in active
    /\ InState(id, {"paused"}) <=> id \in paused \ waiting
    /\ id \in waiting => id \in paused /\ InState(id, {"queued", "failed"})

\* Between two operations queue.tsv is the queue without private records.
StoreInSync == Idle => store = Saved(rec)

\* A checkpoint on disk belongs to a download that may still use it; one of a
\* settled or unknown download would be picked up when its id is used again.
NoStrayCheckpoint ==
  Idle => \A id \in Ids : ckpt[id] # None => InState(id, States \ Settled)

\* The file under the name of id is what its current attempt released.
Released(id) == final[rec[id].file] # None /\ final[rec[id].file].by = id

\* Another download has the destination of id, and may replace what id released.
Shared(id) == \E j \in Ids \ {id} : rec[j] # None /\ rec[j].file = rec[id].file

\* A completed download owns the file the panel opens for it, unless another
\* download was given the same destination.
CompletedOwnsFile ==
  \A id \in Ids : InState(id, {"completed"}) => Released(id) \/ Shared(id)

\* A failed download has released nothing.
FailedNeverReleased ==
  \A id \in Ids : InState(id, {"failed"}) => ~Released(id)

\* Without a process death, records, scheduler, queue file and released files
\* tell one story between pumps, whatever file operation failed.
RecordsAreSound == TypeOK /\ RecordsAgree /\ StoreInSync /\ FailedNeverReleased

\* queue.tsv never loses a download that is not settled.
NothingForgotten ==
  [][\A id \in Ids : store[id] # None /\ store[id].state \notin {"completed", "cancelled"} =>
       store'[id] # None]_vars

\* The bytes a plan credits, counted from 1.
Credited(p) == UNION {(p[i].begin + 1)..(p[i].begin + p[i].credit) : i \in 1..Len(p)}

\* A checkpoint never credits a byte the staged file does not hold, also when a
\* crash falls between the two writes of a segment.  (That the byte is the right
\* one is the digest's to say: see ReleasedIsWhole.  Once the file is released the
\* staged name is gone, and the checkpoint follows it one write later; a process
\* that died in between starts again with an empty file and a full checkpoint.)
CheckpointHonest ==
  \A id \in Ids : ckpt[id] # None /\ rec[id] # None =>
    \/ \A k \in Credited(ckpt[id].plan) :
         Staged(id) # None /\ k <= Len(Staged(id)) /\ Staged(id)[k] # Hole
    \/ /\ \A i \in 1..Len(ckpt[id].plan) : ckpt[id].plan[i].credit = ckpt[id].plan[i].size
       /\ Staged(id) = <<>> \/ (Staged(id) = None /\ job.id = id)

\* A download that starts and is not paused comes to a final state, unless it
\* waits for a slot that a paused transfer keeps or was restarted.
EventuallySettles ==
  \A id \in Ids :
    InState(id, {"queued", "running", "verifying"}) ~>
      \/ ~InState(id, {"queued", "running", "verifying"})
      \/ active \cap paused # {}
      \/ id \in cancelled

\* A restarted download runs again.
RestartedRuns ==
  \A id \in Ids :
    InState(id, {"queued"}) /\ id \in cancelled ~> ~InState(id, {"queued"})
=============================================================================
