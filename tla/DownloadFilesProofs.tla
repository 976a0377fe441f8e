------------------------- MODULE DownloadFilesProofs -------------------------
(***************************************************************************)
(* Proofs that queue.tsv, the checkpoints and the released files tell the  *)
(* same story as the records of module DownloadRuntime, that a checkpoint  *)
(* credits only bytes that are staged, and that a released file is one     *)
(* whole version of its resource: for every set of ids, sources, files and *)
(* requests, every size, limit and history of the server.  A theorem that  *)
(* holds only while some file operation succeeds, or no process dies, says *)
(* so in its hypotheses; RecordsAlwaysAgree and CompletedAlwaysOwns have    *)
(* none.                                                                   *)
(***************************************************************************)
EXTENDS DownloadRuntimeProofs

----------------------------------------------------------------------------
(* queue.tsv. *)

\* A process whose constructor has returned has its queue on disk.
StoreOK == running => store = Saved(rec)

\* Every change of a record is written, and nothing else is.
LEMMA StepKeepsStore ==
  ASSUME "save" \notin Faults, RInv, StoreOK, [Next]_vars
  PROVE  StoreOK'
<1>1. ASSUME NEW r, Persist(r) PROVE store' = Saved(r)
  BY <1>1 DEF Persist
<1>2. ASSUME rec' = rec, store' = store, running' = running PROVE StoreOK'
  BY <1>2 DEF StoreOK, Saved
<1>3. ASSUME Persist(rec') PROVE StoreOK'
  BY <1>1, <1>3 DEF StoreOK
<1>4. ASSUME NEW id, NEW s, SetState(id, s) PROVE StoreOK'
  BY <1>3, <1>4 DEF SetState
<1>5. CASE User
  <2>1. ASSUME NEW r \in Requests, NEW id \in Ids, Enqueue(r, id) \/ EnqueueFails(r, id) PROVE StoreOK'
    BY <2>1, <1>3 DEF Enqueue, EnqueueFails
  <2>2. ASSUME NEW id \in Ids, Pause(id) \/ Resume(id) \/ Restart(id) \/ \E d \in BOOLEAN : Cancel(id, d)
        PROVE  StoreOK'
    BY <2>2, <1>4 DEF Pause, Resume, Restart, Cancel
  <2>3. ASSUME NEW id \in Ids, RestartFails(id) PROVE StoreOK'
    BY <2>3, <1>2 DEF RestartFails, UserFrame
  <2> QED BY <1>5, <2>1, <2>2, <2>3 DEF User
<1>6. CASE Pump
  <2>1. running' = running
    BY <1>6 DEF Pump, PumpBegin, AdmitSkip, AdmitReject, AdmitStart, AdmitEnd, Transfer,
       TransferNothing, SettleFailed, BeginVerify, TransferEnd, PumpEnd, Report, ReportRunning,
       CheckSize, Scan, Recheck, CommitRemove, CommitRename, Forget, Conclude, PumpFrame
  <2>2. UNCHANGED <<rec, store>> \/ \E id, s : SetState(id, s)
    BY <1>6 DEF Pump, PumpBegin, AdmitSkip, AdmitReject, AdmitStart, AdmitEnd, Transfer,
       TransferNothing, SettleFailed, BeginVerify, TransferEnd, PumpEnd, Report, ReportRunning,
       CheckSize, Scan, Recheck, CommitRemove, CommitRename, Forget, Conclude, FailJob,
       MarkFailed, diskVars
  <2> QED BY <2>1, <2>2, <1>2, <1>4
<1>7. CASE Boot
  <2>1. CASE BootDone
    BY <2>1, <1>3 DEF BootDone
  <2>2. ASSUME NEW id \in Ids, RestoreOne(id) \/ RestoreFails(id) PROVE StoreOK'
    BY <2>2, NoneAssumption
       DEF RestoreOne, RestoreFails, BootFrame, RInv, BootOK, NoRecords, StoreOK
  <2> QED BY <1>7, <2>1, <2>2 DEF Boot
<1>8. CASE World
  BY <1>8, <1>2 DEF World, StartTimeReached, Tamper, ServerChanges, PumpFrame, diskVars
<1>9. CASE Crash
  BY <1>9 DEF Crash, StoreOK
<1>10. CASE UNCHANGED vars
  BY <1>10, <1>2 DEF vars, diskVars
<1> QED BY <1>5, <1>6, <1>7, <1>8, <1>9, <1>10 DEF Next

LEMMA StoreInvariant == ASSUME "save" \notin Faults PROVE Spec => []StoreOK
<1>1. Init => StoreOK
  BY DEF Init, StoreOK, Saved, NoRecords
<1>2. RInv /\ StoreOK /\ [Next]_vars => StoreOK'
  BY StepKeepsStore
<1> QED BY <1>1, <1>2, RuntimeInvariant, PTL DEF Spec

----------------------------------------------------------------------------
(* How a step changes the records. *)

\* A record that is added.
LEMMA RecordAdded ==
  ASSUME rec \in MaybeRecords, NEW id \in Ids, NEW r \in Records, rec' = [rec EXCEPT ![id] = r]
  PROVE  /\ rec'[id] = r /\ rec'[id] # None
         /\ \A j \in Ids \ {id} : rec'[j] = rec[j]
         /\ \A S : InState(id, S)' <=> r.state \in S
BY NoneAssumption DEF MaybeRecords, InState

\* The record of a request.
LEMMA RequestRecord ==
  ASSUME NEW r \in Requests, NEW s \in States
  PROVE  Record(r, s) \in Records /\ Record(r, s).state = s /\ Record(r, s).private = r.private
<1>1. r \in [source : Sources, file : Files, private : BOOLEAN, scheduled : BOOLEAN]
  BY RuntimeAssumption
<1> QED BY <1>1 DEF Record, Records

\* The pump's failures and the callbacks change the state of a download that
\* has a record, is in the scheduler and is not settled.
LEMMA PumpSetsState ==
  ASSUME RInv, RInv', RecordsOK, Pump
  PROVE  \/ UNCHANGED <<rec, store>>
         \/ \E id \in Ids, s \in States :
              /\ SetState(id, s) /\ rec[id] # None /\ ~InState(id, Settled)
              /\ \/ s = "failed" /\ job.step \in {"none", "size", "remove", "rename"} /\ job' = NoJob
                 \/ s = "running" /\ job.step = "running" /\ job' = NoJob
                 \/ s = "verifying" /\ job.step = "none" /\ job'.id = id /\ job'.step = "size"
                 \/ /\ s = Concluded(job.verdict) /\ s \in Settled
                    /\ job.step = "conclude" /\ job' = NoJob
              /\ job.step # "none" => job.id = id
<1>0. rec \in MaybeRecords /\ SchedulerOK /\ Known /\ JobOK
  BY TypeParts DEF RInv, DiskTyped
<1>1. ASSUME NEW id \in Ids, Sched!Contains(id), ~Leaves(id) PROVE rec[id] # None /\ ~InState(id, Settled)
  BY <1>0, <1>1 DEF Known, RecordsOK, RecordOK
<1>2. ASSUME NEW id \in Ids, id \in turn, stage = "settle" PROVE rec[id] # None /\ ~InState(id, Settled)
  <2>1. id \in active /\ ~Leaves(id)
    BY <1>0, <1>2 DEF SchedulerOK, Leaves
  <2> QED BY <1>1, <2>1 DEF Sched!Contains
<1>3. {"failed", "running", "verifying"} \subseteq States
  BY DEF States
<1>4. CASE AdmitReject
  <2>1. stage = "admit" /\ pending # <<>> /\ job.step = "none" /\ job' = NoJob
        /\ SetState(Head(pending), "failed")
    BY <1>4 DEF AdmitReject, Free, NoJob, Sched!AdmitReject, Sched!CanAdmit, MarkFailed
  <2>2. Head(pending) \in Ids /\ Sched!Contains(Head(pending)) /\ ~Leaves(Head(pending))
    BY <1>0, <2>1, SchedulerIds DEF Leaves
  <2> QED BY <1>1, <1>3, <2>1, <2>2
<1>5. ASSUME NEW id \in Ids, SettleFailed(id) PROVE
         /\ SetState(id, "failed") /\ rec[id] # None /\ ~InState(id, Settled)
         /\ job.step = "none" /\ job' = NoJob
  BY <1>2, <1>5 DEF SettleFailed, Free, NoJob, Sched!Settle, MarkFailed
<1>6. ASSUME NEW id \in Ids, BeginVerify(id) PROVE
         /\ SetState(id, "verifying") /\ rec[id] # None /\ ~InState(id, Settled)
         /\ job.step = "none" /\ job'.id = id /\ job'.step = "size"
  <2>1. /\ id \in turn /\ stage = "settle" /\ job.step = "none" /\ SetState(id, "verifying")
        /\ job' = [NoJob EXCEPT !.id = id, !.step = "size"]
    BY <1>6 DEF BeginVerify, Free, NoJob
  <2> QED BY <1>2, <2>1, JobStarts DEF Steps
<1>7. ASSUME job.step # "none" PROVE job.id \in Ids /\ rec[job.id] # None /\ ~InState(job.id, Settled)
  <2>1. job.id \in Ids /\ job \in Jobs
    BY <1>7, JobFacts
  <2>2. CASE job.step \in {"report", "running"}
    <3>1. job.id \in active /\ ~Leaves(job.id)
      BY <2>2 DEF RecordsOK, JobPlace, Leaves
    <3> QED BY <1>1, <2>1, <3>1 DEF Sched!Contains
  <2>3. CASE job.step \in Steps \ {"none", "report", "running"}
    BY <1>2, <2>1, <2>3 DEF RecordsOK, JobPlace
  <2> QED BY <1>7, <2>1, <2>2, <2>3 DEF Jobs
<1>8. CASE ReportRunning
  BY <1>3, <1>7, <1>8 DEF ReportRunning, JobAt
<1>9. CASE FailJob /\ job.step \in {"size", "remove", "rename"}
  BY <1>3, <1>7, <1>9 DEF FailJob, MarkFailed
<1>10. CASE Conclude
  <2>1. job.verdict \in VerdictKinds
    BY <1>0, <1>10 DEF Conclude, JobAt, JobOK
  <2>2. Concluded(job.verdict) \in Settled \cap States
    BY <2>1 DEF VerdictKinds, Concluded, Settled, States
  <2> QED BY <1>7, <1>10, <2>2 DEF Conclude, JobAt
<1>11. CASE PumpBegin \/ AdmitSkip \/ AdmitStart \/ AdmitEnd \/ TransferEnd \/ PumpEnd
            \/ \E id \in Ids : Transfer(id) \/ TransferNothing(id)
  BY <1>11 DEF PumpBegin, AdmitSkip, AdmitStart, AdmitEnd, Transfer, TransferNothing,
     TransferEnd, PumpEnd, diskVars
<1>12. CASE Report \/ Scan \/ Recheck \/ Forget
  BY <1>12 DEF Report, Scan, Recheck, Forget, diskVars
<1>13. CASE CheckSize \/ CommitRemove \/ CommitRename
  <2>1. UNCHANGED <<rec, store>> \/ (FailJob /\ job.step \in {"size", "remove", "rename"})
    BY <1>13 DEF CheckSize, CommitRemove, CommitRename, JobAt
  <2> QED BY <1>9, <2>1
<1> QED BY <1>3, <1>4, <1>5, <1>6, <1>8, <1>10, <1>11, <1>12, <1>13 DEF Pump

\* Only the death of the process forgets a record; what a record says of its
\* download never changes.
LEMMA RecordsKept ==
  ASSUME RInv, RInv', RecordsOK, [Next]_vars, ~Crash, NEW j \in Ids, rec[j] # None
  PROVE  /\ rec'[j] # None /\ rec'[j].file = rec[j].file /\ rec'[j].source = rec[j].source
         /\ rec'[j].private = rec[j].private
<1>0. rec \in MaybeRecords
  BY TypeParts DEF RInv, DiskTyped
<1>1. ASSUME NEW id \in Ids, NEW s \in States, SetState(id, s), rec[id] # None
      PROVE  /\ rec'[j] # None /\ rec'[j].file = rec[j].file /\ rec'[j].source = rec[j].source
             /\ rec'[j].private = rec[j].private
  BY <1>0, <1>1, StateSet DEF SetState
<1>2. ASSUME NEW id \in Ids, NEW r \in Records, rec[id] = None, rec' = [rec EXCEPT ![id] = r]
      PROVE  rec'[j] = rec[j]
  BY <1>0, <1>2, RecordAdded
<1>3. CASE User
  <2>1. ASSUME NEW r \in Requests, NEW id \in Ids, Enqueue(r, id) \/ EnqueueFails(r, id)
        PROVE  rec'[j] = rec[j]
    <3>1. rec[id] = None /\ \E s \in {"queued", "cancelled"} : rec' = [rec EXCEPT ![id] = Record(r, s)]
      BY <2>1 DEF Enqueue, EnqueueFails, NextFree, FreeIds
    <3> QED BY <3>1, <1>2, RequestRecord DEF States
  <2>2. ASSUME NEW id \in Ids, Pause(id) \/ Resume(id) \/ Restart(id) \/ \E d \in BOOLEAN : Cancel(id, d)
        PROVE  rec[id] # None /\ \E s \in States : SetState(id, s)
    BY <2>2 DEF Pause, Resume, Restart, Restartable, Cancel, InState, States
  <2>3. ASSUME NEW id \in Ids, RestartFails(id) PROVE rec'[j] = rec[j]
    BY <2>3 DEF RestartFails
  <2> QED BY <1>1, <1>3, <2>1, <2>2, <2>3 DEF User
<1>4. CASE Pump
  BY <1>1, <1>4, PumpSetsState
<1>5. CASE Boot
  <2>1. ASSUME NEW id \in Ids, RestoreOne(id) \/ RestoreFails(id) PROVE rec'[j] = rec[j]
    BY <1>2, <2>1, BootFacts
  <2> QED BY <1>5, <2>1 DEF Boot, BootDone
<1>6. CASE World \/ UNCHANGED vars
  BY <1>6 DEF World, StartTimeReached, Tamper, ServerChanges, vars
<1> QED BY <1>3, <1>4, <1>5, <1>6 DEF Next

----------------------------------------------------------------------------
(* Who owns a released file. *)

\* The callback is between the rename of job.id and its last save.
Renamed(id) == job.id = id /\ job.step \in {"forget", "conclude"} /\ job.verdict = "allow"

\* A file released by the current attempt of a download belongs to a completed
\* one, or to the one whose callback has just renamed it.
ReleasedOK == \A id \in Ids : rec[id] # None /\ Released(id) => InState(id, {"completed"}) \/ Renamed(id)

\* A completed download, and one that is about to be, owns its file or shares
\* its destination.
OwnOK == \A id \in Ids : InState(id, {"completed"}) \/ Renamed(id) => Released(id) \/ Shared(id)

\* Disown() takes the files of one download, and no other's.
LEMMA DisownedFacts ==
  ASSUME final \in FinalFiles, NEW id \in Ids, NEW f \in Files, NEW j \in Ids
  PROVE  Disown(id)[f] # None /\ Disown(id)[f].by = j <=> j # id /\ final[f] # None /\ final[f].by = j
<1>1. Disown(id)[f] = IF final[f] # None /\ final[f].by = id
                      THEN [final[f] EXCEPT !.by = None] ELSE final[f]
  BY DEF Disown
<1>2. CASE final[f] # None /\ final[f].by = id
  <2>1. final[f] \in Releases
    BY <1>2 DEF FinalFiles
  <2>2. Disown(id)[f].by = None
    BY <1>1, <1>2, <2>1 DEF Releases
  <2> QED BY <1>2, <2>2, NoneAssumption
<1>3. CASE ~(final[f] # None /\ final[f].by = id)
  BY <1>1, <1>3
<1> QED BY <1>2, <1>3

\* The file of a record.
LEMMA FileOfRecord ==
  ASSUME rec \in MaybeRecords, NEW id \in Ids, rec[id] # None
  PROVE  rec[id] \in Records /\ rec[id].file \in Files /\ rec[id].source \in Sources
BY DEF MaybeRecords, Records

\* While the released files stay, a download keeps what it released.
LEMMA ReleasedStays ==
  ASSUME NEW j \in Ids, rec'[j].file = rec[j].file, final' = final
  PROVE  Released(j)' <=> Released(j)
BY DEF Released

\* How a step changes the released files.
LEMMA FinalMoves ==
  ASSUME RInv, [Next]_vars
  PROVE  \/ final' = final
         \/ \E id \in Ids : /\ final' = Disown(id) /\ job' = job /\ job.step = "none"
                            /\ \/ \E r \in Requests : Enqueue(r, id) \/ EnqueueFails(r, id)
                               \/ Restart(id)
         \/ CommitRemove /\ final' = [final EXCEPT ![rec[job.id].file] = None]
         \/ CommitRename /\ final' = [final EXCEPT ![rec[job.id].file] = Commit]
<1>1. CASE User
  <2>1. UNCHANGED final \/ \E id \in Ids : /\ final' = Disown(id)
                                           /\ \/ \E r \in Requests : Enqueue(r, id) \/ EnqueueFails(r, id)
                                              \/ Restart(id)
    BY <1>1 DEF User, Enqueue, EnqueueFails, Pause, Resume, Cancel, Restart, RestartFails
  <2>2. Idle /\ job' = job
    BY <1>1 DEF User, Enqueue, EnqueueFails, Pause, Resume, Cancel, Restart, RestartFails, UserFrame
  <2>3. job.step = "none"
    BY <2>2, IdleHasNoJob DEF RInv
  <2> QED BY <2>1, <2>2, <2>3
<1>2. CASE Pump
  BY <1>2 DEF Pump, PumpBegin, AdmitSkip, AdmitReject, AdmitStart, AdmitEnd, Transfer,
     TransferNothing, SettleFailed, BeginVerify, TransferEnd, PumpEnd, Report, ReportRunning,
     CheckSize, Scan, Recheck, CommitRemove, CommitRename, Forget, Conclude, diskVars
<1>3. CASE Boot \/ World \/ Crash \/ UNCHANGED vars
  BY <1>3 DEF Boot, BootDone, RestoreOne, RestoreFails, World, StartTimeReached, Tamper,
     ServerChanges, Crash, vars, diskVars
<1> QED BY <1>1, <1>2, <1>3 DEF Next

\* How a callback comes to have renamed its file, and how it stays so.
LEMMA RenamedMoves ==
  ASSUME RInv, RInv', RecordsOK, [Next]_vars, NEW id \in Ids
  PROVE  /\ Renamed(id)' => Renamed(id) \/ (CommitRename /\ job.id = id /\ job.step = "rename"
                                             /\ final' = [final EXCEPT ![rec[job.id].file] = Commit])
         /\ Renamed(id) => Renamed(id)' \/ Crash \/ (Conclude /\ InState(id, {"completed"})')
<1>0. RestTyped /\ JobOK /\ rec \in MaybeRecords
  BY TypeParts DEF RInv, DiskTyped
<1>1. job = [id |-> job.id, step |-> job.step, digest |-> job.digest, verdict |-> job.verdict]
  BY <1>0 DEF RestTyped, Jobs
<1>2. NoJob.step = "none"
  BY DEF NoJob
<1>3. ASSUME job' = job \/ job'.step \in {"none", "report", "size"}, job.step = "none" \/ job' = job
      PROVE  (Renamed(id)' => Renamed(id)) /\ (Renamed(id) => Renamed(id)')
  BY <1>3 DEF Renamed
<1>4. CASE User
  <2>1. job' = job
    BY <1>4 DEF User, Enqueue, EnqueueFails, Pause, Resume, Cancel, Restart, RestartFails, UserFrame
  <2> QED BY <1>3, <2>1
<1>5. CASE LoopStep
  <2>1. job.step = "none" /\ (job' = job \/ \E k : \E step \in {"report", "size"} :
                                               job' = [NoJob EXCEPT !.id = k, !.step = step])
    BY <1>5, <1>2 DEF LoopStep, PumpBegin, AdmitSkip, AdmitReject, AdmitStart, AdmitEnd, Transfer,
       TransferNothing, SettleFailed, BeginVerify, TransferEnd, PumpEnd, Free
  <2>2. \A k : \A step \in {"report", "size"} : [NoJob EXCEPT !.id = k, !.step = step].step = step
    BY DEF NoJob
  <2> QED BY <1>3, <2>1, <2>2
<1>6. CASE JobStep
  <2>1. CASE Report \/ ReportRunning \/ Scan \/ Recheck \/ CommitRemove \/ CheckSize
    <3>1. job.step \notin {"forget", "conclude"}
      BY <2>1 DEF Report, ReportRunning, Scan, Recheck, CommitRemove, CheckSize, JobAt
    <3>2. ~(job'.step \in {"forget", "conclude"} /\ job'.verdict = "allow")
      <4>1. CASE Refused
        <5>1. job'.verdict = "block"
          BY <1>1, <4>1 DEF Refused
        <5> QED BY <5>1
      <4>2. ASSUME NEW v, job' = [job EXCEPT !.verdict = v, !.step = IF v = "allow" THEN "recheck" ELSE "forget"]
            PROVE  job'.verdict = "allow" => job'.step = "recheck"
        <5>1. job'.verdict = v /\ job'.step = IF v = "allow" THEN "recheck" ELSE "forget"
          BY <1>1, <4>2
        <5> QED BY <5>1
      <4>3. ASSUME NEW step \in {"running", "scan", "remove", "rename"}, job'.step = step
            PROVE  job'.step \notin {"forget", "conclude"}
        BY <4>3
      <4>4. ASSUME NEW step, Goto(step) PROVE job'.step = step
        BY <1>1, <4>4 DEF Goto
      <4>5. ASSUME NEW b, job' = [job EXCEPT !.step = "scan", !.digest = b] PROVE job'.step = "scan"
        BY <1>1, <4>5
      <4> QED BY <1>2, <2>1, <4>1, <4>2, <4>3, <4>4, <4>5
              DEF Report, ReportRunning, Scan, Recheck, CommitRemove, CheckSize, FailJob
    <3> QED BY <3>1, <3>2 DEF Renamed
  <2>2. CASE CommitRename
    <3>1. job.step = "rename" /\ job.verdict = "allow"
      BY <2>2, <1>0 DEF CommitRename, JobAt, JobOK
    <3>2. CASE Goto("forget")
      <4>1. job'.id = job.id /\ job'.step = "forget" /\ job'.verdict = "allow"
        BY <1>1, <3>1, <3>2 DEF Goto
      <4>2. final' = [final EXCEPT ![rec[job.id].file] = Commit]
        BY <2>2, <3>2, <4>1, <1>2 DEF CommitRename, FailJob
      <4> QED BY <2>2, <3>1, <4>1, <4>2 DEF Renamed
    <3>3. CASE FailJob
      BY <1>2, <3>1, <3>3 DEF FailJob, Renamed
    <3> QED BY <2>2, <3>2, <3>3 DEF CommitRename
  <2>3. CASE Forget
    <3>1. job'.id = job.id /\ job'.step = "conclude" /\ job'.verdict = job.verdict /\ job.step = "forget"
      BY <1>1, <2>3 DEF Forget, Goto, JobAt
    <3> QED BY <3>1 DEF Renamed
  <2>4. CASE Conclude
    <3>1. job'.step = "none" /\ job.step = "conclude" /\ SetState(job.id, Concluded(job.verdict))
      BY <1>2, <2>4 DEF Conclude, JobAt
    <3>2. job.id \in Ids /\ rec[job.id] # None
      BY <3>1, JobFacts
    <3>3. ASSUME Renamed(id) PROVE InState(id, {"completed"})'
      <4>1. job.id = id /\ Concluded(job.verdict) = "completed"
        BY <3>3 DEF Renamed, Concluded
      <4>2. rec' = WithState(id, "completed") /\ "completed" \in States
        BY <3>1, <4>1 DEF SetState, States
      <4> QED BY <1>0, <3>2, <4>1, <4>2, StateSet
    <3> QED BY <2>4, <3>1, <3>3 DEF Renamed
  <2> QED BY <1>6, <2>1, <2>2, <2>3, <2>4 DEF JobStep
<1>7. CASE Boot \/ World \/ UNCHANGED vars
  <2>1. job' = job
    BY <1>7 DEF Boot, BootDone, RestoreOne, RestoreFails, BootFrame, World, StartTimeReached,
       Tamper, ServerChanges, vars
  <2> QED BY <1>3, <2>1
<1>8. CASE Crash
  BY <1>2, <1>8 DEF Crash, Renamed
<1> QED BY <1>4, <1>5, <1>6, <1>7, <1>8 DEF Next, Pump, LoopStep, JobStep

\* How a download comes to be completed.
LEMMA CompletedMoves ==
  ASSUME RInv, RInv', RecordsOK, [Next]_vars, NEW id \in Ids
  PROVE  /\ InState(id, {"completed"})' => InState(id, {"completed"}) \/ Renamed(id)
         /\ InState(id, {"completed"}) =>
              InState(id, {"completed"})' \/ Crash \/ (Restart(id) /\ final' = Disown(id))
<1>0. rec \in MaybeRecords /\ DiskTyped /\ JobOK
  BY TypeParts DEF RInv, DiskTyped
<1>1. ASSUME rec' = rec PROVE InState(id, {"completed"})' <=> InState(id, {"completed"})
  BY <1>1 DEF InState
<1>2. ASSUME NEW j \in Ids, NEW s \in States, SetState(j, s), rec[j] # None
      PROVE  /\ j = id => (InState(id, {"completed"})' <=> s = "completed")
             /\ j # id => (InState(id, {"completed"})' <=> InState(id, {"completed"}))
  <2>1. /\ \A S : InState(j, S)' <=> s \in S
        /\ \A k \in Ids \ {j} : rec'[k] = rec[k]
    BY <1>0, <1>2, StateSet DEF SetState
  <2>2. InState(j, {"completed"})' <=> s = "completed"
    BY <2>1
  <2>3. j # id => (InState(id, {"completed"})' <=> InState(id, {"completed"}))
    BY <2>1 DEF InState
  <2> QED BY <2>2, <2>3
<1>3. ASSUME NEW j \in Ids, NEW r \in Records, rec[j] = None, rec' = [rec EXCEPT ![j] = r],
             r.state # "completed"
      PROVE  InState(id, {"completed"})' <=> InState(id, {"completed"})
  BY <1>0, <1>3, RecordAdded DEF InState
<1>4. CASE User
  <2>1. ASSUME NEW r \in Requests, NEW j \in Ids, Enqueue(r, j) \/ EnqueueFails(r, j)
        PROVE  InState(id, {"completed"})' <=> InState(id, {"completed"})
    <3>1. PICK s \in {"queued", "cancelled"} : rec[j] = None /\ rec' = [rec EXCEPT ![j] = Record(r, s)]
      BY <2>1 DEF Enqueue, EnqueueFails, NextFree, FreeIds
    <3>2. Record(r, s) \in Records /\ Record(r, s).state # "completed"
      BY <3>1, RequestRecord DEF States
    <3> QED BY <1>3, <3>1, <3>2
  <2>2. ASSUME NEW j \in Ids, Pause(j) \/ Resume(j) \/ \E d \in BOOLEAN : Cancel(j, d)
        PROVE  InState(id, {"completed"})' <=> InState(id, {"completed"})
    <3>1. /\ rec[j] # None /\ ~InState(j, {"completed"})
          /\ \E s \in {"paused", "queued", "cancelled"} : SetState(j, s)
      BY <2>2 DEF Pause, Resume, Cancel, InState, States
    <3> QED BY <1>2, <3>1 DEF States
  <2>3. ASSUME NEW j \in Ids, Restart(j)
        PROVE  /\ InState(id, {"completed"})' => InState(id, {"completed"})
               /\ InState(id, {"completed"}) => InState(id, {"completed"})' \/ j = id
    <3>1. rec[j] # None /\ SetState(j, "queued")
      BY <2>3 DEF Restart, Restartable, InState
    <3> QED BY <1>2, <3>1 DEF States
  <2>4. ASSUME NEW j \in Ids, RestartFails(j) PROVE rec' = rec
    BY <2>4 DEF RestartFails
  <2> QED BY <1>1, <1>4, <2>1, <2>2, <2>3, <2>4 DEF User, Restart
<1>5. CASE Pump
  <2>1. ASSUME NEW j \in Ids, NEW s \in States, SetState(j, s), rec[j] # None, ~InState(j, Settled),
               s = "completed" => Renamed(j)
        PROVE  /\ InState(id, {"completed"})' => InState(id, {"completed"}) \/ Renamed(id)
               /\ InState(id, {"completed"}) => InState(id, {"completed"})'
    BY <1>2, <2>1 DEF InState, Settled
  <2>2. ASSUME NEW j \in Ids, NEW s \in States, s = Concluded(job.verdict), job.step = "conclude", job.id = j,
               s = "completed"
        PROVE  Renamed(j)
    <3>1. job.verdict \in VerdictKinds
      BY <1>0, <2>2 DEF JobOK
    <3> QED BY <2>2, <3>1 DEF Renamed, Concluded, VerdictKinds
  <2> QED BY <1>1, <1>5, <2>1, <2>2, PumpSetsState
<1>6. CASE Boot
  <2>1. ASSUME NEW j \in Ids, RestoreOne(j) \/ RestoreFails(j)
        PROVE  InState(id, {"completed"})' <=> InState(id, {"completed"})
    <3>1. PICK r \in Records :
            /\ rec' = [rec EXCEPT ![j] = r]
            /\ \/ RestoreOne(j) /\ r = RestoredRecord(boot[j])
               \/ RestoreFails(j) /\ r.state = "failed"
      BY <2>1, BootFacts
    <3>2. rec[j] = None /\ boot[j] \in Records /\ boot[j].state # "completed"
      BY <2>1, BootFacts
    <3>3. r.state # "completed"
      BY <3>1, <3>2, RestoredFacts
    <3> QED BY <1>3, <3>1, <3>2, <3>3
  <2> QED BY <1>1, <1>6, <2>1 DEF Boot, BootDone
<1>7. CASE World \/ UNCHANGED vars
  BY <1>1, <1>7 DEF World, StartTimeReached, Tamper, ServerChanges, vars
<1>8. CASE Crash
  BY <1>8 DEF Crash, NoRecords, InState
<1> QED BY <1>4, <1>5, <1>6, <1>7, <1>8 DEF Next

\* What a step does to the files that downloads have released.
LEMMA ReleasedMoves ==
  ASSUME RInv, RInv', RecordsOK, [Next]_vars, ~Crash, NEW id \in Ids, rec[id] # None
  PROVE  /\ Released(id)' => Released(id) \/ (CommitRename /\ job.id = id /\ Renamed(id)')
         /\ Released(id) => \/ Released(id)'
                            \/ final' = Disown(id) /\ Restart(id)
                            \/ /\ CommitRemove \/ (CommitRename /\ job.id # id)
                               /\ job.id \in Ids /\ rec[job.id] # None /\ rec[job.id].file = rec[id].file
                            \/ CommitRename /\ job.id = id
<1>0. rec \in MaybeRecords /\ final \in FinalFiles
  BY TypeParts DEF RInv, DiskTyped
<1>1. rec'[id].file = rec[id].file /\ rec[id].file \in Files
  BY <1>0, RecordsKept, FileOfRecord
<1>2. CASE final' = final
  BY <1>1, <1>2, ReleasedStays
<1>3. ASSUME NEW j \in Ids, final' = Disown(j), \/ \E r \in Requests : Enqueue(r, j) \/ EnqueueFails(r, j)
                                                \/ Restart(j)
      PROVE  /\ Released(id)' => Released(id)
             /\ Released(id) => Released(id)' \/ (j = id /\ Restart(id))
  <2>1. Released(id)' <=> j # id /\ Released(id)
    BY <1>0, <1>1, <1>3, DisownedFacts DEF Released
  <2>2. j = id => Restart(id)
    BY <1>3 DEF Enqueue, EnqueueFails, NextFree, FreeIds
  <2> QED BY <2>1, <2>2
<1>4. CASE CommitRemove /\ final' = [final EXCEPT ![rec[job.id].file] = None]
  <2>1. job.id \in Ids /\ rec[job.id] # None /\ rec[job.id].file \in Files
    <3>1. job.step = "remove"
      BY <1>4 DEF CommitRemove, JobAt
    <3> QED BY <3>1, JobFacts
  <2>2. rec[id].file # rec[job.id].file => (Released(id)' <=> Released(id))
    BY <1>0, <1>1, <1>4, <2>1 DEF Released, FinalFiles
  <2>3. rec[id].file = rec[job.id].file => ~Released(id)'
    BY <1>0, <1>1, <1>4, <2>1 DEF Released, FinalFiles
  <2> QED BY <1>4, <2>1, <2>2, <2>3
<1>5. CASE CommitRename /\ final' = [final EXCEPT ![rec[job.id].file] = Commit]
  <2>1. job.id \in Ids /\ rec[job.id] # None /\ rec[job.id].file \in Files /\ job.step = "rename"
    <3>1. job.step = "rename"
      BY <1>5 DEF CommitRename, JobAt
    <3> QED BY <3>1, JobFacts
  <2>2. Commit.by = job.id /\ Commit # None
    BY <2>1, CommitTyped DEF Commit
  <2>3. rec[id].file # rec[job.id].file => (Released(id)' <=> Released(id))
    BY <1>0, <1>1, <1>5, <2>1 DEF Released, FinalFiles
  <2>4. rec[id].file = rec[job.id].file => (Released(id)' <=> job.id = id)
    <3>1. ASSUME rec[id].file = rec[job.id].file PROVE final'[rec[id].file] = Commit
      BY <1>0, <1>5, <2>1, <3>1 DEF FinalFiles
    <3> QED BY <1>1, <2>2, <3>1 DEF Released
  <2>5. ASSUME job.id = id, ~Released(id), Released(id)' PROVE Renamed(id)'
    <3>1. final' # final
      BY <1>1, <2>5, ReleasedStays
    <3>2. Goto("forget") /\ job.verdict = "allow" /\ job \in Jobs
      BY <1>5, <2>1, <3>1, TypeParts DEF CommitRename, RInv, JobOK, RestTyped
    <3> QED BY <2>5, <3>2 DEF Goto, Jobs, Renamed
  <2> QED BY <1>5, <2>1, <2>3, <2>4, <2>5
<1> QED BY <1>2, <1>3, <1>4, <1>5, FinalMoves

\* Where a record comes from.
LEMMA NewRecords ==
  ASSUME RInv, RInv', RecordsOK, [Next]_vars, NEW id \in Ids, rec[id] = None, rec'[id] # None
  PROVE  \/ \E r \in Requests : Enqueue(r, id) \/ EnqueueFails(r, id)
         \/ RestoreOne(id) \/ RestoreFails(id)
<1>0. rec \in MaybeRecords
  BY TypeParts DEF RInv, DiskTyped
<1>1. rec' # rec
  OBVIOUS
<1>2. ASSUME NEW j \in Ids, NEW s \in States, SetState(j, s), rec[j] # None PROVE FALSE
  BY <1>0, <1>2, StateSet DEF SetState
<1>3. ASSUME NEW j \in Ids, NEW r, rec' = [rec EXCEPT ![j] = r] PROVE j = id
  BY <1>0, <1>3 DEF MaybeRecords
<1>4. CASE User
  <2>1. ASSUME NEW j \in Ids, Pause(j) \/ Resume(j) \/ Restart(j) \/ RestartFails(j)
                              \/ \E d \in BOOLEAN : Cancel(j, d)
        PROVE  FALSE
    BY <1>1, <1>2, <2>1 DEF Pause, Resume, Restart, RestartFails, Restartable, Cancel, InState, States
  <2>2. ASSUME NEW r \in Requests, NEW j \in Ids, Enqueue(r, j) \/ EnqueueFails(r, j) PROVE j = id
    BY <1>3, <2>2 DEF Enqueue, EnqueueFails
  <2> QED BY <1>4, <2>1, <2>2 DEF User
<1>5. CASE Pump
  BY <1>1, <1>2, <1>5, PumpSetsState
<1>6. CASE Boot
  <2>1. ASSUME NEW j \in Ids, RestoreOne(j) \/ RestoreFails(j) PROVE j = id
    BY <1>3, <2>1 DEF RestoreOne, RestoreFails
  <2> QED BY <1>1, <1>6, <2>1 DEF Boot, BootDone
<1>7. CASE World \/ UNCHANGED vars \/ Crash
  BY <1>1, <1>7 DEF World, StartTimeReached, Tamper, ServerChanges, vars, Crash, NoRecords
<1> QED BY <1>4, <1>5, <1>6, <1>7 DEF Next

\* A completed download keeps its file until the file's name is given away.
LEMMA StepKeepsOwn == ASSUME RInv, RInv', RecordsOK, RecordsOK', OwnOK, [Next]_vars PROVE OwnOK'
<1>0. rec \in MaybeRecords /\ final \in FinalFiles /\ final' \in FinalFiles /\ rec' \in MaybeRecords
  <2>1. TypeOK'
    BY DEF RInv
  <2> QED BY <2>1, TypeParts DEF RInv, DiskTyped, TypeOK, MaybeRecords, FinalFiles
<1>1. CASE Crash
  BY <1>1 DEF Crash, OwnOK, InState, NoRecords, Renamed, NoJob
<1>2. ASSUME ~Crash, NEW id \in Ids, InState(id, {"completed"})' \/ Renamed(id)'
      PROVE  Released(id)' \/ Shared(id)'
  <2>1. CASE CommitRename /\ job.id = id /\ job.step = "rename"
              /\ final' = [final EXCEPT ![rec[job.id].file] = Commit]
    <3>1. rec[id] # None /\ rec[id].file \in Files
      BY <2>1, JobFacts
    <3>2. rec'[id].file = rec[id].file
      BY <1>2, <3>1, RecordsKept
    <3>3. Commit.by = id /\ Commit # None
      BY <2>1, CommitTyped DEF Commit
    <3>4. final'[rec'[id].file] = Commit
      BY <1>0, <2>1, <3>1, <3>2 DEF FinalFiles
    <3> QED BY <3>3, <3>4 DEF Released
  <2>2. CASE InState(id, {"completed"}) \/ Renamed(id)
    <3>1. Released(id) \/ Shared(id)
      BY <2>2 DEF OwnOK
    <3>2. rec[id] # None /\ rec'[id].file = rec[id].file
      <4>1. rec[id] # None
        BY <2>2, JobFacts DEF InState, Renamed
      <4> QED BY <1>2, <4>1, RecordsKept
    <3>3. ASSUME Shared(id) PROVE Shared(id)'
      BY <1>2, <3>2, <3>3, RecordsKept DEF Shared
    <3>4. ASSUME Released(id), ~Released(id)' PROVE Shared(id)
      <4>1. CASE final' = Disown(id) /\ Restart(id)
        <5>1. rec' = WithState(id, "queued") /\ job' = job /\ job.step = "none"
          BY <4>1, IdleHasNoJob DEF Restart, SetState, UserFrame, RInv
        <5>2. ~InState(id, {"completed"})'
          BY <1>0, <3>2, <5>1, StateSet DEF States
        <5>3. ~Renamed(id)'
          BY <5>1 DEF Renamed
        <5> QED BY <1>2, <5>2, <5>3
      <4>2. CASE CommitRemove \/ CommitRename
        <5>1. job.step \in {"remove", "rename"}
          BY <4>2 DEF CommitRemove, CommitRename, JobAt
        <5>2. InState(job.id, {"verifying"}) /\ ~Renamed(id)
          BY <5>1 DEF RecordsOK, JobPlace, Steps, Renamed
        <5>3. job.id # id
          BY <2>2, <5>2 DEF InState
        <5>4. job.id \in Ids /\ rec[job.id] # None /\ rec[job.id].file = rec[id].file
          BY <1>2, <3>2, <3>4, <4>2, <5>3, ReleasedMoves
             DEF Restart, CommitRemove, CommitRename, JobAt, Idle, RInv, JobOK
        <5> QED BY <5>3, <5>4 DEF Shared
      <4> QED BY <1>2, <3>2, <3>4, <4>1, <4>2, ReleasedMoves
    <3> QED BY <3>1, <3>3, <3>4
  <2> QED BY <1>2, <2>1, <2>2, RenamedMoves, CompletedMoves
<1> QED BY <1>1, <1>2 DEF OwnOK

LEMMA OwnInvariant == Spec => []OwnOK
<1>1. Init => OwnOK
  BY DEF Init, OwnOK, InState, NoRecords, Renamed, NoJob
<1>2. RInv /\ RInv' /\ RecordsOK /\ RecordsOK' /\ OwnOK /\ [Next]_vars => OwnOK'
  BY StepKeepsOwn
<1> QED BY <1>1, <1>2, RuntimeInvariant, RecordsInvariant, PTL DEF Spec

\* The panel opens, for a completed download, the file that download released,
\* unless another download has the same destination: whatever file operation
\* fails and wherever a process dies.
THEOREM CompletedAlwaysOwns == Spec => []CompletedOwnsFile
<1>1. OwnOK => CompletedOwnsFile
  BY DEF OwnOK, CompletedOwnsFile
<1> QED BY <1>1, OwnInvariant, PTL

\* Without a process death a download that failed has released nothing.
LEMMA StepKeepsReleased ==
  ASSUME MaxCrashes = 0, RInv, RInv', RecordsOK, running, ReleasedOK, [Next]_vars
  PROVE  running' /\ ReleasedOK'
<1>0. rec \in MaybeRecords /\ final \in FinalFiles
  BY TypeParts DEF RInv, DiskTyped
<1>1. ~Crash
  <2>1. crashes \in 0..0
    BY TypeParts DEF RInv, RestTyped
  <2> QED BY <2>1 DEF Crash
<1>2. running'
  BY <1>1 DEF Next, User, Enqueue, EnqueueFails, Pause, Resume, Cancel, Restart, RestartFails,
     UserFrame, Pump, PumpBegin, AdmitSkip, AdmitReject, AdmitStart, AdmitEnd, Transfer,
     TransferNothing, SettleFailed, BeginVerify, TransferEnd, PumpEnd, Report, ReportRunning,
     CheckSize, Scan, Recheck, CommitRemove, CommitRename, Forget, Conclude, PumpFrame,
     Boot, BootDone, RestoreOne, RestoreFails, BootFrame, World, StartTimeReached, Tamper,
     ServerChanges, vars
<1>3. ASSUME NEW id \in Ids, rec'[id] # None, Released(id)'
      PROVE  InState(id, {"completed"})' \/ Renamed(id)'
  <2>1. ASSUME final' = Disown(id), rec'[id].file \in Files PROVE FALSE
    BY <1>0, <1>3, <2>1, DisownedFacts DEF Released
  <2>2. rec'[id].file \in Files
    <3>1. TypeOK'
      BY DEF RInv
    <3> QED BY <1>3, <3>1 DEF TypeOK, Records
  <2>3. rec[id] # None
    <3>1. boot = NoRecords
      BY DEF RInv, BootOK
    <3>2. ~RestoreOne(id) /\ ~RestoreFails(id)
      BY <3>1 DEF RestoreOne, RestoreFails, NoRecords
    <3>3. ~\E r \in Requests : Enqueue(r, id) \/ EnqueueFails(r, id)
      BY <2>1, <2>2 DEF Enqueue, EnqueueFails
    <3> QED BY <1>3, <3>2, <3>3, NewRecords
  <2>4. CASE Released(id)
    <3>1. InState(id, {"completed"}) \/ Renamed(id)
      BY <2>3, <2>4 DEF ReleasedOK
    <3> QED BY <1>1, <2>1, <2>2, <3>1, CompletedMoves, RenamedMoves
  <2> QED BY <1>1, <1>3, <2>3, <2>4, ReleasedMoves
<1> QED BY <1>2, <1>3 DEF ReleasedOK

\* Without a process death, records, scheduler, queue.tsv and released files tell
\* one story between pumps, whatever file operation but a save of the queue fails.
THEOREM RecordsSound == ASSUME MaxCrashes = 0, "save" \notin Faults PROVE Spec => []RecordsAreSound
<1>1. Init => running /\ ReleasedOK
  BY DEF Init, ReleasedOK, NoRecords
<1>2. RInv /\ RInv' /\ RecordsOK /\ running /\ ReleasedOK /\ [Next]_vars => (running /\ ReleasedOK)'
  BY StepKeepsReleased
<1>3. StoreOK => StoreInSync
  BY DEF StoreOK, StoreInSync, Idle
<1>4. RInv /\ RecordsOK /\ ReleasedOK => FailedNeverReleased
  <2> SUFFICES ASSUME RInv, RecordsOK, ReleasedOK, NEW id \in Ids, InState(id, {"failed"}), Released(id)
               PROVE  FALSE
    BY DEF FailedNeverReleased
  <2>1. Renamed(id) /\ ~InState(id, {"verifying"})
    BY DEF ReleasedOK, InState
  <2> QED BY <2>1 DEF Renamed, RecordsOK, JobPlace, Steps
<1>5. Spec => [](running /\ ReleasedOK)
  BY <1>1, <1>2, RuntimeInvariant, RecordsInvariant, PTL DEF Spec
<1>6. RInv => TypeOK
  BY DEF RInv
<1> QED BY <1>3, <1>4, <1>5, <1>6, RuntimeInvariant, RecordsInvariant, RecordsAlwaysAgree, StoreInvariant,
           PTL DEF RecordsAreSound

----------------------------------------------------------------------------
(* What a restart finds. *)

\* Private records are never on disk.
StorePublic == \A id \in Ids : store[id] # None => ~store[id].private

\* While the constructor runs, every download worth restoring is still to be
\* visited or has been restored from what is on disk.
BootKept ==
  ~running => \A id \in Ids :
    store[id] # None /\ store[id].state \notin {"completed", "cancelled"} =>
      boot[id] = store[id] \/ rec[id] = RestoredRecord(store[id])

\* The constructor alone runs before it has returned.
LEMMA BeforeRunning ==
  ASSUME RInv, [Next]_vars, ~running
  PROVE  Boot \/ World \/ Crash \/ UNCHANGED vars
<1>1. ~Idle /\ ~Free /\ ~\E step : JobAt(step)
  BY DEF Idle, Free, JobAt
<1>2. ~User
  BY <1>1 DEF User, Enqueue, EnqueueFails, Pause, Resume, Cancel, Restart, RestartFails
<1>3. ~Pump
  BY <1>1 DEF Pump, PumpBegin, AdmitSkip, AdmitReject, AdmitStart, AdmitEnd, Transfer,
     TransferNothing, SettleFailed, BeginVerify, TransferEnd, PumpEnd, Report, ReportRunning,
     CheckSize, Scan, Recheck, CommitRemove, CommitRename, Forget, Conclude
<1> QED BY <1>2, <1>3 DEF Next

\* A running process stays one until it dies.
LEMMA StaysRunning ==
  ASSUME [Next]_vars, running, ~Crash
  PROVE  running'
BY DEF Next, User, Enqueue, EnqueueFails, Pause, Resume, Cancel, Restart, RestartFails,
   UserFrame, Pump, PumpBegin, AdmitSkip, AdmitReject, AdmitStart, AdmitEnd, Transfer,
   TransferNothing, SettleFailed, BeginVerify, TransferEnd, PumpEnd, Report, ReportRunning,
   CheckSize, Scan, Recheck, CommitRemove, CommitRename, Forget, Conclude, PumpFrame,
   Boot, BootDone, RestoreOne, RestoreFails, BootFrame, World, StartTimeReached, Tamper,
   ServerChanges, vars

LEMMA StepKeepsPublic ==
  ASSUME RInv, RInv', RecordsOK, StoreOK', "save" \notin Faults, StorePublic, [Next]_vars
  PROVE  StorePublic'
<1>1. ASSUME store' = store PROVE StorePublic'
  BY <1>1 DEF StorePublic
<1>2. CASE running'
  <2>1. store' = Saved(rec')
    BY <1>2 DEF StoreOK
  <2> QED BY <2>1 DEF StorePublic, Saved
<1>3. CASE ~running'
  <2>1. ~running \/ Crash
    BY <1>3, StaysRunning
  <2>2. (Boot /\ ~BootDone) \/ World \/ Crash \/ UNCHANGED vars
    BY <1>3, <2>1, BeforeRunning DEF BootDone
  <2>3. ASSUME NEW id \in Ids, RestoreFails(id) PROVE StorePublic'
    BY <2>3 DEF RestoreFails, Persist, Saved, StorePublic
  <2>4. store' = store \/ \E id \in Ids : RestoreFails(id)
    BY <2>2 DEF Boot, RestoreOne, World, StartTimeReached, Tamper, ServerChanges, Crash, vars, diskVars
  <2> QED BY <1>1, <2>3, <2>4
<1> QED BY <1>2, <1>3

\* The constructor forgets no download while staged files can be opened.
LEMMA StepKeepsBoot ==
  ASSUME "prepare" \notin Faults, RInv, RecordsOK, BootKept, [Next]_vars
  PROVE  BootKept'
<1>1. CASE running /\ ~Crash
  BY <1>1, StaysRunning DEF BootKept
<1>2. CASE Crash
  BY <1>2 DEF Crash, BootKept, Restorable, diskVars
<1>3. CASE ~running /\ ~Crash
  <2>1. CASE BootDone
    BY <2>1 DEF BootDone, BootKept
  <2>2. ASSUME NEW id \in Ids, RestoreOne(id) PROVE BootKept'
    <3>1. /\ rec' = [rec EXCEPT ![id] = RestoredRecord(boot[id])]
          /\ boot' = [boot EXCEPT ![id] = None] /\ store' = store
          /\ rec \in MaybeRecords /\ boot \in MaybeRecords
          /\ boot[id] \in Records /\ rec[id] = None
      BY <2>2, BootFacts DEF RestoreOne, DiskTyped
    <3>2. /\ rec'[id] = RestoredRecord(boot[id])
          /\ \A j \in Ids \ {id} : rec'[j] = rec[j] /\ boot'[j] = boot[j]
      BY <3>1 DEF MaybeRecords
    <3>3. ASSUME NEW j \in Ids, store[j] # None, store[j].state \notin {"completed", "cancelled"}
          PROVE  boot'[j] = store[j] \/ rec'[j] = RestoredRecord(store[j])
      <4>1. boot[j] = store[j] \/ rec[j] = RestoredRecord(store[j])
        BY <1>3, <3>3 DEF BootKept
      <4>2. store[j] \in Records
        BY <3>3, TypeParts DEF RInv, DiskTyped, MaybeRecords
      <4>3. RestoredRecord(store[j]) # None
        BY <4>2, RestoredFacts, NoneAssumption
      <4> QED BY <3>1, <3>2, <4>1, <4>3
    <3> QED BY <3>1, <3>3 DEF BootKept
  <2>3. ~\E id \in Ids : RestoreFails(id)
    BY DEF RestoreFails
  <2>4. CASE World \/ UNCHANGED vars
    BY <2>4 DEF World, StartTimeReached, Tamper, ServerChanges, PumpFrame, vars, diskVars, BootKept
  <2> QED BY <1>3, <2>1, <2>2, <2>3, <2>4, BeforeRunning DEF Boot
<1> QED BY <1>1, <1>2, <1>3

\* Every invariant of this section, and the ones below it.
RestartOK == RInv /\ RecordsOK /\ StoreOK /\ StorePublic /\ BootKept

LEMMA RestartInvariant == ASSUME {"save", "prepare"} \cap Faults = {} PROVE Spec => []RestartOK
<1>1. "save" \notin Faults /\ "prepare" \notin Faults
  OBVIOUS
<1>2. Init => StorePublic /\ BootKept
  BY DEF Init, StorePublic, BootKept, NoRecords
<1>3. RInv /\ RInv' /\ RecordsOK /\ StoreOK /\ StoreOK' /\ StorePublic /\ BootKept /\ [Next]_vars
        => StorePublic' /\ BootKept'
  BY <1>1, StepKeepsPublic, StepKeepsBoot
<1>4. Spec => []StoreOK
  BY <1>1, StoreInvariant
<1> QED BY <1>2, <1>3, <1>4, RuntimeInvariant, RecordsInvariant, PTL DEF Spec, RestartOK

\* queue.tsv never loses a download that is not over, though it is rewritten
\* whole at every change and by every new process, while it can be written and
\* the staged files can be opened.
THEOREM QueueForgetsNothing ==
  ASSUME {"save", "prepare"} \cap Faults = {} PROVE Spec => NothingForgotten
<1> DEFINE Kept == \A id \in Ids : store[id] # None /\ store[id].state \notin {"completed", "cancelled"} =>
                     store'[id] # None
<1>1. ASSUME RestartOK, RestartOK', [Next]_vars PROVE Kept
  <2> SUFFICES ASSUME NEW id \in Ids, store[id] # None, store[id].state \notin {"completed", "cancelled"}
               PROVE  store'[id] # None
    OBVIOUS
  <2>0. RInv /\ RInv' /\ RecordsOK /\ StoreOK /\ StoreOK' /\ StorePublic /\ BootKept
    BY <1>1 DEF RestartOK
  <2>1. CASE Crash
    BY <2>1 DEF Crash, diskVars
  <2>2. CASE running /\ ~Crash
    <3>1. store = Saved(rec) /\ store' = Saved(rec')
      BY <1>1, <2>0, <2>2, StaysRunning DEF StoreOK
    <3>2. rec[id] # None /\ ~rec[id].private
      BY <3>1 DEF Saved
    <3>3. rec'[id] # None /\ ~rec'[id].private
      BY <1>1, <2>0, <2>2, <3>2, RecordsKept
    <3> QED BY <3>1, <3>3 DEF Saved
  <2>3. CASE ~running /\ ~Crash
    <3>1. CASE BootDone
      <4>1. rec[id] = RestoredRecord(store[id])
        BY <2>0, <2>3, <3>1 DEF BootDone, BootKept, NoRecords
      <4>2. store[id] \in Records /\ ~store[id].private
        BY <2>0, TypeParts DEF RInv, DiskTyped, MaybeRecords, StorePublic
      <4>3. rec[id] # None /\ ~rec[id].private
        BY <4>1, <4>2, RestoredFacts, NoneAssumption
      <4>4. store' = Saved(rec)
        BY <2>0, <3>1 DEF BootDone, StoreOK
      <4> QED BY <4>3, <4>4 DEF Saved
    <3>2. CASE ~BootDone
      <4>1. "prepare" \notin Faults
        OBVIOUS
      <4>2. store' = store
        BY <1>1, <2>0, <2>3, <3>2, <4>1, BeforeRunning
           DEF Boot, RestoreOne, RestoreFails, World, StartTimeReached, Tamper, ServerChanges, vars, diskVars
      <4> QED BY <4>2
    <3> QED BY <3>1, <3>2
  <2> QED BY <2>1, <2>2, <2>3
<1>2. RestartOK /\ RestartOK' /\ [Next]_vars => [Kept]_vars
  BY <1>1
<1>3. Spec => [][Kept]_vars
  BY <1>2, RestartInvariant, PTL DEF Spec
<1> QED BY <1>3 DEF NothingForgotten

----------------------------------------------------------------------------
(* Checkpoints. *)

\* The downloads whose checkpoint may still be used.
Open == States \ Settled

\* No download is private.
AllPublic == \A id \in Ids : /\ rec[id] # None => ~rec[id].private
                             /\ boot[id] # None => ~boot[id].private

\* A checkpoint belongs to an open download: in the records of a running
\* process, in queue.tsv while a process starts.  The callback erases it before
\* the download is settled.
CheckpointOK ==
  /\ running => \A id \in Ids : ckpt[id] # None => InState(id, Open)
  /\ job.step = "conclude" => ckpt[job.id] = None
  /\ ~running => \A id \in Ids : ckpt[id] # None => store[id] # None /\ store[id].state \in Open

LEMMA StepKeepsAllPublic ==
  ASSUME \A r \in Requests : ~r.private, RInv, RInv', RecordsOK, StorePublic, AllPublic, [Next]_vars
  PROVE  AllPublic'
<1>1. ASSUME NEW id \in Ids, rec'[id] # None PROVE ~rec'[id].private
  <2>0. CASE Crash
    BY <1>1, <2>0 DEF Crash, NoRecords
  <2>1. CASE rec[id] # None /\ ~Crash
    BY <2>1, RecordsKept DEF AllPublic
  <2>2. CASE rec[id] = None
    <3>1. ASSUME NEW r \in Requests, Enqueue(r, id) \/ EnqueueFails(r, id) PROVE ~rec'[id].private
      <4>1. PICK s \in {"queued", "cancelled"} : rec' = [rec EXCEPT ![id] = Record(r, s)]
        BY <3>1 DEF Enqueue, EnqueueFails
      <4>2. Record(r, s) \in Records /\ ~Record(r, s).private
        BY RequestRecord DEF States
      <4>3. rec \in MaybeRecords
        BY TypeParts DEF RInv, DiskTyped
      <4> QED BY <4>1, <4>2, <4>3, RecordAdded
    <3>2. ASSUME RestoreOne(id) \/ RestoreFails(id) PROVE ~rec'[id].private
      <4>1. /\ boot[id] \in Records /\ rec \in MaybeRecords
            /\ \E r \in Records : rec' = [rec EXCEPT ![id] = r] /\ r.private = boot[id].private
        BY <3>2, BootFacts DEF DiskTyped
      <4>2. ~boot[id].private
        BY <4>1, NoneAssumption DEF AllPublic
      <4> QED BY <4>1, <4>2, RecordAdded
    <3> QED BY <1>1, <2>2, <3>1, <3>2, NewRecords
  <2> QED BY <2>0, <2>1, <2>2
<1>2. ASSUME NEW id \in Ids, boot'[id] # None PROVE ~boot'[id].private
  <2>1. CASE Crash
    BY <1>2, <2>1 DEF Crash, Restorable, StorePublic
  <2>2. CASE running /\ ~Crash
    <3>1. boot'[id] = None
      BY <2>2, StaysRunning DEF RInv, BootOK, NoRecords
    <3> QED BY <1>2, <3>1
  <2>3. CASE ~running /\ ~Crash
    <3>1. boot' = boot \/ \E j \in Ids : boot' = [boot EXCEPT ![j] = None]
      BY <2>3, BeforeRunning
         DEF Boot, BootDone, RestoreOne, RestoreFails, World, StartTimeReached, Tamper, ServerChanges,
             PumpFrame, vars
    <3>2. boot \in MaybeRecords
      BY TypeParts DEF RInv, RestTyped
    <3>3. boot'[id] = boot[id]
      BY <1>2, <3>1, <3>2 DEF MaybeRecords
    <3> QED BY <1>2, <3>3 DEF AllPublic
  <2> QED BY <2>1, <2>2, <2>3
<1> QED BY <1>1, <1>2 DEF AllPublic

\* How a download comes to be settled, and who leaves the scheduler for good.
LEMMA OpenMoves ==
  ASSUME RInv, RInv', RecordsOK, [Next]_vars, NEW id \in Ids, InState(id, Open)
  PROVE  InState(id, Open)' \/ Crash \/ (\E d \in BOOLEAN : Cancel(id, d)) \/ (Conclude /\ job.id = id)
<1>0. rec \in MaybeRecords /\ rec[id] # None
  BY TypeParts DEF RInv, DiskTyped, InState
<1>1. ASSUME NEW j \in Ids, rec'[id] = rec[id] PROVE InState(id, Open)'
  BY <1>1 DEF InState
<1>2. ASSUME NEW j \in Ids, NEW s \in States, SetState(j, s), rec[j] # None
      PROVE  (j = id => (InState(id, Open)' <=> s \in Open)) /\ (j # id => rec'[id] = rec[id])
  BY <1>0, <1>2, StateSet DEF SetState
<1>3. CASE User
  <2>1. ASSUME NEW r \in Requests, NEW j \in Ids, Enqueue(r, j) \/ EnqueueFails(r, j)
        PROVE  rec'[id] = rec[id]
    <3>1. rec[j] = None /\ \E x : rec' = [rec EXCEPT ![j] = x]
      BY <2>1 DEF Enqueue, EnqueueFails, NextFree, FreeIds
    <3> QED BY <1>0, <3>1 DEF MaybeRecords
  <2>2. ASSUME NEW j \in Ids, Pause(j) \/ Resume(j) \/ Restart(j)
        PROVE  rec[j] # None /\ \E s \in {"paused", "queued"} : SetState(j, s)
    BY <2>2 DEF Pause, Resume, Restart, Restartable, InState
  <2>3. ASSUME NEW j \in Ids, \E d \in BOOLEAN : Cancel(j, d)
        PROVE  rec[j] # None /\ SetState(j, "cancelled")
    BY <2>3 DEF Cancel, InState
  <2>4. ASSUME NEW j \in Ids, RestartFails(j) PROVE rec' = rec
    BY <2>4 DEF RestartFails
  <2>5. {"paused", "queued"} \subseteq Open /\ {"paused", "queued", "cancelled"} \subseteq States
    BY DEF Open, Settled, States
  <2> QED BY <1>1, <1>2, <1>3, <2>1, <2>2, <2>3, <2>4, <2>5 DEF User
<1>4. CASE Pump
  <2>1. {"failed", "running", "verifying"} \subseteq Open
    BY DEF Open, Settled, States
  <2>2. CASE UNCHANGED <<rec, store>>
    BY <1>1, <2>2
  <2>3. ASSUME NEW j \in Ids, NEW s \in States, SetState(j, s), rec[j] # None,
               s \notin Open => Conclude /\ job.id = j
        PROVE  InState(id, Open)' \/ (Conclude /\ job.id = id)
    BY <1>1, <1>2, <2>3
  <2>4. ASSUME job.step = "conclude" PROVE Conclude
    <3>1. ~Free
      BY <2>4 DEF Free, NoJob
    <3>2. ~LoopStep
      BY <3>1 DEF LoopStep, PumpBegin, AdmitSkip, AdmitReject, AdmitStart, AdmitEnd, Transfer,
         TransferNothing, SettleFailed, BeginVerify, TransferEnd, PumpEnd
    <3>3. JobStep
      BY <1>4, <3>2 DEF Pump, LoopStep, JobStep
    <3> QED BY <2>4, <3>3 DEF JobStep, Report, ReportRunning, CheckSize, Scan, Recheck,
            CommitRemove, CommitRename, Forget, JobAt
  <2> QED BY <1>4, <2>1, <2>2, <2>3, <2>4, PumpSetsState
<1>5. CASE Boot
  <2>1. ASSUME NEW j \in Ids, RestoreOne(j) \/ RestoreFails(j) PROVE rec'[id] = rec[id]
    BY <1>0, <2>1, BootFacts, RecordAdded
  <2> QED BY <1>1, <1>5, <2>1 DEF Boot, BootDone
<1>6. CASE World \/ UNCHANGED vars
  BY <1>1, <1>6 DEF World, StartTimeReached, Tamper, ServerChanges, vars
<1> QED BY <1>3, <1>4, <1>5, <1>6 DEF Next

\* The download of a callback is not settled.
LEMMA JobIsOpen ==
  ASSUME RInv, RecordsOK, job.step # "none"
  PROVE  InState(job.id, Open)
<1>1. job.id \in Ids /\ rec[job.id] # None /\ rec[job.id] \in Records /\ job.step \in Steps
  BY JobFacts DEF Jobs
<1>2. CASE job.step \in {"report", "running"}
  <2>1. job.id \in active /\ ~Leaves(job.id)
    BY <1>2 DEF RecordsOK, JobPlace, Leaves
  <2>2. ~InState(job.id, Settled)
    BY <1>1, <2>1 DEF RecordsOK, RecordOK, Sched!Contains
  <2> QED BY <1>1, <2>2 DEF InState, Open, Records
<1>3. CASE job.step \in Steps \ {"none", "report", "running"}
  BY <1>3 DEF RecordsOK, JobPlace, InState, Open, Settled, States
<1> QED BY <1>1, <1>2, <1>3

\* How the checkpoints change while saves and erasures succeed.
LEMMA CheckpointMoves ==
  ASSUME {"save", "erase"} \cap Faults = {}, RInv, [Next]_vars
  PROVE  \/ ckpt' = ckpt
         \/ Report /\ ckpt' = [ckpt EXCEPT ![job.id] =
                                 MakeCheckpoint(rec[job.id].source, etag[job.id], plan[job.id])]
         \/ \E id \in Ids : /\ ckpt' = [ckpt EXCEPT ![id] = None] /\ job' = job /\ job.step = "none"
                            /\ (\E d \in BOOLEAN : Cancel(id, d)) \/ Restart(id) \/ RestartFails(id)
         \/ Forget /\ ckpt' = [ckpt EXCEPT ![job.id] = None]
<1>1. CASE User
  <2>1. Idle /\ job' = job
    BY <1>1 DEF User, Enqueue, EnqueueFails, Pause, Resume, Cancel, Restart, RestartFails, UserFrame
  <2>2. job.step = "none"
    BY <2>1, IdleHasNoJob DEF RInv
  <2>3. ASSUME NEW id \in Ids, (\E d \in BOOLEAN : Cancel(id, d)) \/ Restart(id) \/ RestartFails(id)
        PROVE  ckpt' = [ckpt EXCEPT ![id] = None]
    BY <2>3 DEF Cancel, Restart, RestartFails, EraseCheckpoint
  <2>4. ASSUME NEW id \in Ids, (\E r \in Requests : Enqueue(r, id) \/ EnqueueFails(r, id)) \/ Pause(id) \/ Resume(id)
        PROVE  ckpt' = ckpt
    BY <2>4 DEF Enqueue, EnqueueFails, Pause, Resume
  <2> QED BY <1>1, <2>1, <2>2, <2>3, <2>4 DEF User
<1>2. CASE Pump
  BY <1>2 DEF Pump, PumpBegin, AdmitSkip, AdmitReject, AdmitStart, AdmitEnd, Transfer,
     TransferNothing, SettleFailed, BeginVerify, TransferEnd, PumpEnd, Report, ReportRunning,
     CheckSize, Scan, Recheck, CommitRemove, CommitRename, Forget, Conclude, diskVars,
     SaveCheckpoint, EraseCheckpoint
<1>3. CASE Boot \/ World \/ Crash \/ UNCHANGED vars
  BY <1>3 DEF Boot, BootDone, RestoreOne, RestoreFails, World, StartTimeReached, Tamper,
     ServerChanges, Crash, vars, diskVars
<1> QED BY <1>1, <1>2, <1>3 DEF Next

\* A callback concludes after it has forgotten the checkpoint.
LEMMA ConcludeComes ==
  ASSUME RInv, [Next]_vars, job'.step = "conclude"
  PROVE  (Forget /\ job'.id = job.id) \/ (job' = job /\ job.step = "conclude" /\ ckpt' = ckpt)
<1>1. job = [id |-> job.id, step |-> job.step, digest |-> job.digest, verdict |-> job.verdict]
  BY TypeParts DEF RInv, RestTyped, Jobs
<1>2. job' # NoJob
  BY DEF NoJob
<1>3. ASSUME User PROVE FALSE
  <2>1. Idle /\ job' = job
    BY <1>3 DEF User, Enqueue, EnqueueFails, Pause, Resume, Cancel, Restart, RestartFails, UserFrame
  <2> QED BY <2>1, IdleHasNoJob DEF RInv
<1>4. ASSUME LoopStep PROVE FALSE
  <2>1. job = NoJob /\ (job' = job \/ \E k : \E step \in {"report", "size"} :
                                        job' = [NoJob EXCEPT !.id = k, !.step = step])
    BY <1>4 DEF LoopStep, PumpBegin, AdmitSkip, AdmitReject, AdmitStart, AdmitEnd, Transfer,
       TransferNothing, SettleFailed, BeginVerify, TransferEnd, PumpEnd, Free
  <2>2. \A k : \A step \in {"report", "size"} : [NoJob EXCEPT !.id = k, !.step = step].step = step
    BY DEF NoJob
  <2> QED BY <1>2, <2>1, <2>2
<1>5. ASSUME JobStep, ~Forget PROVE FALSE
  <2>1. ASSUME Refused PROVE FALSE
    <3>1. job'.step = "forget"
      BY <1>1, <2>1 DEF Refused
    <3> QED BY <3>1
  <2>2. ASSUME NEW v, job' = [job EXCEPT !.verdict = v, !.step = IF v = "allow" THEN "recheck" ELSE "forget"]
        PROVE  FALSE
    <3>1. job'.step = IF v = "allow" THEN "recheck" ELSE "forget"
      BY <1>1, <2>2
    <3> QED BY <3>1
  <2>3. ASSUME NEW step \in {"running", "remove", "rename", "forget"}, Goto(step) PROVE FALSE
    <3>1. job'.step = step
      BY <1>1, <2>3 DEF Goto
    <3> QED BY <3>1
  <2>4. ASSUME NEW d, job' = [job EXCEPT !.step = "scan", !.digest = d] PROVE FALSE
    <3>1. job'.step = "scan"
      BY <1>1, <2>4
    <3> QED BY <3>1
  <2> QED BY <1>2, <1>5, <2>1, <2>2, <2>3, <2>4
          DEF JobStep, Report, ReportRunning, CheckSize, Scan, Recheck, CommitRemove, CommitRename,
              Conclude, FailJob
<1>6. ASSUME Forget PROVE job'.id = job.id
  BY <1>1, <1>6 DEF Forget, Goto
<1>7. CASE Boot \/ World \/ UNCHANGED vars
  BY <1>7 DEF Boot, BootDone, RestoreOne, RestoreFails, BootFrame, World, StartTimeReached,
     Tamper, ServerChanges, diskVars, vars
<1>8. ~Crash
  BY <1>2 DEF Crash
<1> QED BY <1>3, <1>4, <1>5, <1>6, <1>7, <1>8 DEF Next, Pump, LoopStep, JobStep

\* Checkpoints follow their downloads.
LEMMA StepKeepsCheckpoints ==
  ASSUME {"save", "erase", "prepare"} \cap Faults = {},
         RestartOK, RestartOK', AllPublic, CheckpointOK, [Next]_vars
  PROVE  CheckpointOK'
<1>0. /\ RInv /\ RInv' /\ RecordsOK /\ StoreOK /\ BootKept
      /\ {"save", "erase"} \cap Faults = {} /\ "prepare" \notin Faults
      /\ ckpt \in SavedCheckpoints /\ rec \in MaybeRecords /\ store \in MaybeRecords
  BY TypeParts DEF RestartOK, RInv, DiskTyped
<1>1. ASSUME NEW id \in Ids, ckpt'[id] # None
      PROVE  ckpt[id] # None \/ (Report /\ job.id = id)
  BY <1>0, <1>1, CheckpointMoves DEF SavedCheckpoints
<1>2. ASSUME running, running', NEW id \in Ids, ckpt'[id] # None PROVE InState(id, Open)'
  <2>1. ~Crash
    BY <1>2 DEF Crash
  <2>2. InState(id, Open)
    <3>1. CASE ckpt[id] # None
      BY <1>2, <3>1 DEF CheckpointOK
    <3>2. CASE Report /\ job.id = id
      BY <1>0, <3>2, JobIsOpen DEF Report, JobAt
    <3> QED BY <1>1, <1>2, <3>1, <3>2
  <2>3. ~\E d \in BOOLEAN : Cancel(id, d)
    <3>1. ASSUME NEW d \in BOOLEAN, Cancel(id, d) PROVE ckpt'[id] = None
      BY <1>0, <3>1 DEF Cancel, EraseCheckpoint, SavedCheckpoints
    <3> QED BY <1>2, <3>1
  <2>4. ~(Conclude /\ job.id = id)
    BY <1>2 DEF Conclude, JobAt, CheckpointOK
  <2> QED BY <1>0, <2>1, <2>2, <2>3, <2>4, OpenMoves
<1>3. ASSUME ~running, running', NEW id \in Ids, ckpt'[id] # None PROVE InState(id, Open)'
  <2>1. BootDone
    BY <1>0, <1>3, BeforeRunning
       DEF Boot, RestoreOne, RestoreFails, BootFrame, World, StartTimeReached, Tamper, ServerChanges,
           PumpFrame, Crash, vars
  <2>2. /\ ckpt[id] # None /\ store[id] # None /\ store[id].state \in Open
        /\ rec' = rec /\ boot = NoRecords
    BY <1>3, <2>1 DEF BootDone, CheckpointOK
  <2>3. rec[id] = RestoredRecord(store[id])
    BY <1>0, <1>3, <2>2 DEF BootKept, NoRecords, Open, Settled
  <2>4. store[id] \in Records
    BY <1>0, <2>2 DEF MaybeRecords
  <2>5. rec[id] # None /\ rec[id].state \in Open
    BY <2>2, <2>3, <2>4, RestoredFacts, NoneAssumption DEF Open, Settled, States
  <2> QED BY <2>2, <2>5 DEF InState
<1>4. ASSUME ~running', NEW id \in Ids, ckpt'[id] # None PROVE store'[id] # None /\ store'[id].state \in Open
  <2>1. ckpt' = ckpt /\ store' = store
    <3>1. Crash \/ ~running
      BY <1>4, StaysRunning
    <3> QED BY <1>0, <1>4, <3>1, BeforeRunning
            DEF Boot, BootDone, RestoreOne, RestoreFails, World, StartTimeReached, Tamper, ServerChanges,
                Crash, vars, diskVars
  <2>2. CASE running
    <3>1. InState(id, Open) /\ store = Saved(rec)
      BY <1>0, <1>4, <2>1, <2>2 DEF CheckpointOK, StoreOK
    <3>2. store[id] = rec[id]
      BY <3>1 DEF AllPublic, Saved, InState
    <3> QED BY <2>1, <3>1, <3>2 DEF InState
  <2>3. CASE ~running
    BY <1>4, <2>1, <2>3 DEF CheckpointOK
  <2> QED BY <2>2, <2>3
<1>5. job'.step = "conclude" => ckpt'[job'.id] = None
  <2>1. ASSUME Forget PROVE job.id \in Ids /\ ckpt' = [ckpt EXCEPT ![job.id] = None]
    <3>1. job.step = "forget"
      BY <2>1 DEF Forget, JobAt
    <3> QED BY <1>0, <2>1, <3>1, JobFacts DEF Forget, EraseCheckpoint
  <2> QED BY <1>0, <2>1, ConcludeComes DEF CheckpointOK, SavedCheckpoints
<1> QED BY <1>2, <1>3, <1>4, <1>5 DEF CheckpointOK

LEMMA CheckpointInvariant ==
  ASSUME {"save", "erase", "prepare"} \cap Faults = {}, \A r \in Requests : ~r.private
  PROVE  Spec => [](RestartOK /\ AllPublic /\ CheckpointOK)
<1>1. {"save", "prepare"} \cap Faults = {}
  OBVIOUS
<1>2. Spec => []RestartOK
  BY <1>1, RestartInvariant
<1>3. Init => AllPublic /\ CheckpointOK
  BY DEF Init, AllPublic, CheckpointOK, NoRecords, NoJob
<1>4. RestartOK /\ RestartOK' /\ AllPublic /\ CheckpointOK /\ [Next]_vars => AllPublic' /\ CheckpointOK'
  BY StepKeepsAllPublic, StepKeepsCheckpoints DEF RestartOK
<1> QED BY <1>2, <1>3, <1>4, PTL DEF Spec

\* No checkpoint outlives its download, so none is picked up by a later download
\* that is given the same id: while saves and erasures succeed and no download is
\* private, wherever a process dies.
THEOREM NoCheckpointStrays ==
  ASSUME {"save", "erase", "prepare"} \cap Faults = {}, \A r \in Requests : ~r.private
  PROVE  Spec => []NoStrayCheckpoint
<1>1. CheckpointOK => NoStrayCheckpoint
  BY DEF CheckpointOK, NoStrayCheckpoint, Idle, Open
<1> QED BY <1>1, CheckpointInvariant, PTL

----------------------------------------------------------------------------
(* Plans and the bytes they credit. *)

\* Every byte that p credits is in y, and is one that ok allows at its place.
Backed(p, y, ok) ==
  \A i \in 1..Len(p) : \A k \in (p[i].begin + 1)..(p[i].begin + p[i].credit) :
    y # None /\ k <= Len(y) /\ y[k] \in ok[k]

Full(p) == \A i \in 1..Len(p) : p[i].credit = p[i].size

\* A full plan whose file was released, or was opened anew after a process died
\* before it forgot the checkpoint.
Stale(p, y) == Full(p) /\ y \in {None, <<>>}

\* Opening a file that was not there takes no byte from a plan.
LEMMA OpenedKeepsBytes ==
  ASSUME NEW p, NEW ok
  PROVE  /\ Backed(p, None, ok) => Backed(p, <<>>, ok)
         /\ Stale(p, None) => Stale(p, <<>>)
BY DEF Backed, Stale

\* A fresh plan credits nothing.
LEMMA FreshIsBacked ==
  ASSUME NEW ranges \in BOOLEAN, NEW y, NEW ok
  PROVE  Backed(Fresh(ranges), y, ok)
<1>1. \A i \in 1..Len(Fresh(ranges)) : Fresh(ranges)[i].begin \in Nat
  BY FreshFacts
<1>2. \A i \in 1..Len(Fresh(ranges)) : Fresh(ranges)[i].credit = 0
  <2> DEFINE n == SegmentCount(Total, MaxSegments, ranges)
  <2>1. Total \in Nat \ {0} /\ MaxSegments \in Nat
    BY RuntimeAssumption
  <2>2. n \in Nat
    BY <2>1, SegmentCountBounds
  <2>3. Fresh(ranges) = [i \in 1..n |-> [begin |-> SegmentBegin(Total, n, i), size |-> SegmentSize(Total, n, i),
                                         credit |-> 0, retries |-> 0, finished |-> FALSE]]
    BY <2>1 DEF Fresh, MakePlan
  <2> HIDE DEF n
  <2> QED BY <2>2, <2>3
<1> QED BY <1>1, <1>2 DEF Backed

\* A plan is put back as it was saved, or not at all.
LEMMA AppliedIsSaved ==
  ASSUME NEW ranges \in BOOLEAN, NEW source, NEW tag, NEW saved \in Checkpoints
  PROVE  LET p == ApplyCheckpoint(Fresh(ranges), source, tag, saved)
         IN  p = Fresh(ranges) \/ (p = saved.plan /\ saved.source = source /\ saved.etag = tag)
<1> DEFINE f == Fresh(ranges)
           p == ApplyCheckpoint(f, source, tag, saved)
           s == saved.plan
<1> SUFFICES ASSUME p # f PROVE p = s /\ saved.source = source /\ saved.etag = tag
  OBVIOUS
<1>1. /\ SameRanges(f, s) /\ saved.source = source /\ saved.etag = tag
      /\ p = [i \in 1..Len(f) |-> Restored(f[i], s[i])]
  BY DEF ApplyCheckpoint
<1>2. s \in Seq(Sched!Segment) /\ \A i \in 1..Len(s) : Sched!WellFormed(s[i])
  <2>1. s \in AllPlans
    BY DEF Checkpoints
  <2> QED BY <2>1, PlanFacts
<1> HIDE DEF f, p, s
<1>3. ASSUME NEW i \in 1..Len(f) PROVE Restored(f[i], s[i]) = s[i]
  <2>1. s[i].size = f[i].size /\ s[i].begin = f[i].begin /\ i \in 1..Len(s)
    BY <1>1 DEF SameRanges
  <2>2. s[i] \in Sched!Segment /\ Sched!WellFormed(s[i])
    BY <2>1, <1>2
  <2>3. Restored(f[i], s[i]) = [begin |-> f[i].begin, size |-> f[i].size, credit |-> s[i].credit,
                retries |-> s[i].retries, finished |-> s[i].finished \/ s[i].credit = f[i].size]
    BY DEF Restored
  <2>4. (s[i].finished \/ s[i].credit = f[i].size) = s[i].finished
    <3>1. s[i].finished \in BOOLEAN
      BY <2>2 DEF Sched!Segment
    <3>2. s[i].credit = f[i].size <=> s[i].finished
      BY <2>1, <2>2 DEF Sched!WellFormed
    <3> QED BY <3>1, <3>2, Zenon
  <2>5. Restored(f[i], s[i]) = [begin |-> s[i].begin, size |-> s[i].size, credit |-> s[i].credit,
                retries |-> s[i].retries, finished |-> s[i].finished]
    BY <2>1, <2>3, <2>4, Zenon
  <2> QED BY <2>2, <2>5 DEF Sched!Segment
<1>4. Len(f) = Len(s)
  BY <1>1 DEF SameRanges
<1>5. p = s
  BY <1>1, <1>2, <1>3, <1>4
<1> QED BY <1>1, <1>5

\* z is y with data written at offset: what was there, a gap, and the data.
Overlaid(z, y, offset, data) ==
  /\ z \in Seq(Bytes)
  /\ Len(z) = IF offset + Len(data) > Len(y) THEN offset + Len(data) ELSE Len(y)
  /\ \A k \in 1..Len(z) :
       z[k] = IF k > offset /\ k <= offset + Len(data) THEN data[k - offset]
              ELSE IF k <= Len(y) THEN y[k] ELSE Hole

\* That is what writing at an offset does.
LEMMA WriteAtFacts ==
  ASSUME NEW y \in Seq(Bytes), NEW offset \in Nat, NEW data \in Seq(Bytes), data # <<>>
  PROVE  Overlaid(WriteAt(y, offset, data), y, offset, data)
<1> DEFINE end == IF offset + Len(data) > Len(y) THEN offset + Len(data) ELSE Len(y)
           Byte(k) == IF k > offset /\ k <= offset + Len(data) THEN data[k - offset]
                      ELSE IF k <= Len(y) THEN y[k] ELSE Hole
           z == WriteAt(y, offset, data)
<1>1. y # None
  BY NoneAssumption
<1>2. z = [k \in 1..end |-> Byte(k)]
  BY <1>1 DEF WriteAt
<1>3. end \in Nat
  BY LenProperties
<1>4. z \in Seq(Bytes)
  BY <1>1, WriteAtTyped
<1> HIDE DEF z, end
<1>5. Len(z) = end /\ \A k \in 1..end : z[k] = Byte(k)
  BY <1>2, <1>3
<1>6. Overlaid(z, y, offset, data)
  BY <1>4, <1>5 DEF Overlaid, end
<1> QED BY <1>6 DEF z

\* A segment request is credited with no more than the bytes it brought, while
\* "complete" is not said too early.
LEMMA AdvancedCredit ==
  ASSUME NEW p \in AllPlans, NEW i \in 1..Len(p), NEW n \in Nat,
         NEW done \in BOOLEAN, NEW again \in BOOLEAN, done => p[i].credit + n >= p[i].size
  PROVE  LET q == [p EXCEPT ![i] = Sched!Advanced(p[i], n, done, again)]
         IN  /\ Len(q) = Len(p)
             /\ \A j \in 1..Len(p) : j # i => q[j] = p[j]
             /\ q[i].begin = p[i].begin /\ q[i].size = p[i].size
             /\ q[i].credit <= p[i].credit + n /\ q[i].credit \in Nat /\ p[i].credit <= q[i].credit
             /\ p[i].begin \in Nat /\ p[i].credit \in Nat
<1> DEFINE g == Sched!Advanced(p[i], n, done, again)
           q == [p EXCEPT ![i] = g]
<1>1. p \in Seq(Sched!Segment) /\ p[i] \in Sched!Segment /\ Sched!WellFormed(p[i])
  BY PlanFacts
<1>2. p[i].begin \in Nat /\ p[i].credit \in Nat /\ p[i].size \in Nat /\ p[i].credit <= p[i].size
  BY <1>1 DEF Sched!Segment, Sched!WellFormed
<1>3. /\ g.begin = p[i].begin /\ g.size = p[i].size
      /\ g.credit <= p[i].credit + n /\ g.credit \in Nat /\ p[i].credit <= g.credit
  <2> DEFINE c    == Sched!AtMost(p[i].size, p[i].credit + n)
             full == done \/ c = p[i].size
             r    == IF ~full /\ again /\ p[i].retries < MaxRetries THEN p[i].retries + 1 ELSE p[i].retries
             d    == IF full THEN p[i].size ELSE c
  <2>1. g = [p[i] EXCEPT !.credit = d, !.finished = full, !.retries = r]
    BY DEF Sched!Advanced
  <2>2. d <= p[i].credit + n /\ d \in Nat /\ p[i].credit <= d
    BY <1>2 DEF Sched!AtMost
  <2> HIDE DEF d, full, r
  <2>3. g.begin = p[i].begin /\ g.size = p[i].size /\ g.credit = d
    BY <1>1, <2>1 DEF Sched!Segment
  <2> QED BY <2>2, <2>3
<1> HIDE DEF g
<1>4. Len(q) = Len(p) /\ q[i] = g /\ \A j \in 1..Len(p) : j # i => q[j] = p[j]
  BY <1>1
<1> QED BY <1>2, <1>3, <1>4 DEF g

\* The bytes credited before and after a segment request are in the file it was
\* written to.
LEMMA TransferIsBacked ==
  ASSUME NEW p \in AllPlans, NEW i \in 1..Len(p), NEW y \in Seq(Bytes), NEW data \in Seq(Bytes),
         NEW done \in BOOLEAN, NEW again \in BOOLEAN, NEW ok, Backed(p, y, ok),
         done => p[i].credit + Len(data) >= p[i].size,
         \A m \in 1..Len(data) : data[m] \in ok[p[i].begin + p[i].credit + m]
  PROVE  LET z == WriteAt(y, p[i].begin + p[i].credit, data)
         IN  /\ Backed([p EXCEPT ![i] = Sched!Advanced(p[i], Len(data), done, again)], z, ok)
             /\ Backed(p, z, ok)
<1> DEFINE q   == [p EXCEPT ![i] = Sched!Advanced(p[i], Len(data), done, again)]
           off == p[i].begin + p[i].credit
           z   == WriteAt(y, off, data)
<1>1. Len(data) \in Nat /\ Len(y) \in Nat /\ y # None
  BY LenProperties, NoneAssumption
<1>2. /\ Len(q) = Len(p)
      /\ \A j \in 1..Len(p) : j # i => q[j] = p[j]
      /\ q[i].begin = p[i].begin
      /\ q[i].credit <= p[i].credit + Len(data) /\ q[i].credit \in Nat /\ p[i].credit <= q[i].credit
      /\ p[i].begin \in Nat /\ p[i].credit \in Nat
  BY <1>1, AdvancedCredit
<1>3. p \in Seq(Sched!Segment) /\ off \in Nat
  BY <1>2, PlanFacts
<1> HIDE DEF q
<1>4. \A j \in 1..Len(p) : p[j].begin \in Nat /\ p[j].credit \in Nat
  <2> SUFFICES ASSUME NEW j \in 1..Len(p) PROVE p[j].begin \in Nat /\ p[j].credit \in Nat
    OBVIOUS
  <2>1. p[j] \in Sched!Segment
    BY <1>3
  <2> QED BY <2>1 DEF Sched!Segment
<1>5. ASSUME NEW j \in 1..Len(q), NEW k \in (q[j].begin + 1)..(q[j].begin + q[j].credit),
             ~(k > off /\ k <= off + Len(data))
      PROVE  k \in Nat \ {0} /\ k <= Len(y) /\ y[k] \in ok[k]
  <2>1. k \in (p[j].begin + 1)..(p[j].begin + p[j].credit)
    <3>1. CASE j = i
      <4>1. PICK b \in Nat, c \in Nat, d \in Nat, l \in Nat :
              b = p[i].begin /\ c = p[i].credit /\ d = q[i].credit /\ l = Len(data)
        BY <1>1, <1>2, Zenon
      <4>2. d <= c + l /\ k \in (b + 1)..(b + d) /\ ~(k > b + c /\ k <= (b + c) + l)
        BY <1>2, <1>5, <3>1, <4>1, Zenon
      <4>3. k \in (b + 1)..(b + c)
        BY <4>2
      <4> QED BY <3>1, <4>1, <4>3, Zenon
    <3>2. CASE j # i
      BY <1>2, <1>5, <3>2
    <3> QED BY <3>1, <3>2
  <2> QED BY <1>2, <1>4, <2>1 DEF Backed
<1>6. Backed(q, z, ok) => Backed(p, z, ok)
  <2> HIDE DEF z
  <2>1. ASSUME NEW j \in 1..Len(p), NEW k \in (p[j].begin + 1)..(p[j].begin + p[j].credit)
        PROVE  k \in (q[j].begin + 1)..(q[j].begin + q[j].credit)
    <3>1. CASE j = i
      BY <1>2, <2>1, <3>1
    <3>2. CASE j # i
      BY <1>2, <2>1, <3>2
    <3> QED BY <3>1, <3>2
  <2> QED BY <1>2, <2>1 DEF Backed
<1>7. CASE data = <<>>
  <2>1. z = y /\ Len(data) = 0
    BY <1>7 DEF WriteAt
  <2>2. Backed(q, z, ok)
    BY <1>1, <1>3, <1>5, <2>1 DEF Backed
  <2> QED BY <1>6, <2>2 DEF q
<1>8. CASE data # <<>>
  <2>1. /\ z \in Seq(Bytes)
        /\ Len(z) = IF off + Len(data) > Len(y) THEN off + Len(data) ELSE Len(y)
        /\ \A k \in 1..Len(z) : z[k] = IF k > off /\ k <= off + Len(data) THEN data[k - off]
                                       ELSE IF k <= Len(y) THEN y[k] ELSE Hole
    <3>1. Overlaid(z, y, off, data)
      BY <1>3, <1>8, WriteAtFacts, Zenon
    <3> HIDE DEF z, off
    <3> QED BY <3>1, Zenon DEF Overlaid
  <2>2. z # None
    BY <2>1, NoneAssumption
  <2> HIDE DEF z, off
  <2>3. ASSUME NEW j \in 1..Len(q), NEW k \in (q[j].begin + 1)..(q[j].begin + q[j].credit)
        PROVE  k <= Len(z) /\ z[k] \in ok[k]
    <3>1. CASE k > off /\ k <= off + Len(data)
      <4>1. k - off \in 1..Len(data) /\ off + (k - off) = k
        BY <1>1, <1>3, <3>1
      <4>2. data[k - off] \in ok[k]
        BY <4>1 DEF off
      <4>3. k \in 1..Len(z)
        BY <1>1, <1>3, <2>1, <3>1
      <4> QED BY <2>1, <3>1, <4>2, <4>3
    <3>2. CASE ~(k > off /\ k <= off + Len(data))
      <4>1. k \in Nat \ {0} /\ k <= Len(y) /\ y[k] \in ok[k]
        BY <1>5, <3>2 DEF off
      <4>2. k \in 1..Len(z)
        BY <1>1, <1>3, <2>1, <4>1
      <4> QED BY <2>1, <3>2, <4>1, <4>2
    <3> QED BY <3>1, <3>2
  <2>4. Backed(q, z, ok)
    BY <2>2, <2>3 DEF Backed
  <2> QED BY <1>6, <2>4 DEF q, z, off
<1> QED BY <1>7, <1>8

----------------------------------------------------------------------------
(* The staged file of a download in use. *)

\* The callback of id is past the release, or has refused it.
Gone(id) == job.id = id /\ job.step \in {"forget", "conclude"}

\* The scheduler may still ask for bytes of id.
InUse(id) == Sched!Contains(id) /\ ~Leaves(id) /\ ~Gone(id)

\* What the scheduler is told by a callback.
LEMMA JobStepSched ==
  ASSUME RInv, RecordsOK, JobStep
  PROVE  UNCHANGED schedVars \/ (Sched!Settle(job.id) /\ job' = NoJob)
BY DEF JobStep, Report, ReportRunning, CheckSize, Scan, Recheck, CommitRemove, CommitRename, Forget,
   Conclude, FailJob, schedVars

\* How a download comes into use.
LEMMA UseBegins ==
  ASSUME RInv, RInv', RecordsOK, [Next]_vars, NEW id \in Ids, InUse(id)'
  PROVE  InUse(id) \/ (\E r \in Requests : Enqueue(r, id)) \/ Restart(id) \/ RestoreOne(id)
<1>0. SchedulerOK /\ SchedulerOK' /\ Known
  BY DEF RInv
<1>1. ASSUME UNCHANGED schedVars, job' = job PROVE InUse(id)
  BY <1>1 DEF schedVars, InUse, Gone, Leaves, Sched!Contains, Sched!Waiting
<1>2. ASSUME NEW j \in Ids, j # id, Sched!OwnerCall(j), job' = job, stage = "idle" PROVE InUse(id)
  BY <1>0, <1>2, OwnerCallOthers DEF InUse, Gone, Leaves
<1>3. CASE User
  <2>1. job' = job /\ Idle /\ stage = "idle" /\ ~Leaves(id) /\ ~Gone(id)
    <3>1. job' = job /\ Idle
      BY <1>3 DEF User, Enqueue, EnqueueFails, Pause, Resume, Cancel, Restart, RestartFails, UserFrame
    <3> QED BY <3>1, IdleHasNoJob DEF RInv, Idle, Leaves, Gone
  <2>2. ASSUME NEW r \in Requests, NEW j \in Ids, Enqueue(r, j) PROVE InUse(id) \/ j = id
    BY <1>2, <2>1, <2>2 DEF Enqueue, Sched!OwnerCall
  <2>3. ASSUME NEW r \in Requests, NEW j \in Ids, EnqueueFails(r, j) PROVE InUse(id)
    BY <1>1, <2>1, <2>3 DEF EnqueueFails
  <2>4. ASSUME NEW j \in Ids, Pause(j) \/ Resume(j) PROVE InUse(id)
    <3>1. Sched!Pause(j) \/ Sched!Resume(j)
      BY <2>4 DEF Pause, Resume
    <3>2. CASE j = id
      BY <1>0, <2>1, <3>1, <3>2, OwnerCallOwn DEF InUse
    <3> QED BY <1>2, <2>1, <3>1, <3>2 DEF Sched!OwnerCall
  <2>5. ASSUME NEW j \in Ids, RestartFails(j) \/ \E d \in BOOLEAN : Cancel(j, d) PROVE InUse(id)
    <3>1. Sched!Cancel(j)
      BY <2>5 DEF Cancel, RestartFails
    <3>2. j # id
      BY <1>0, <3>1, OwnerCallOwn DEF InUse
    <3> QED BY <1>2, <2>1, <3>1, <3>2 DEF Sched!OwnerCall
  <2>6. ASSUME NEW j \in Ids, Restart(j) PROVE InUse(id) \/ j = id
    BY <1>2, <2>1, <2>6 DEF Restart, Sched!OwnerCall
  <2> QED BY <1>3, <2>2, <2>3, <2>4, <2>5, <2>6 DEF User
<1>4. CASE LoopStep
  <2>1. job.step = "none" /\ ~Gone(id)
    BY <1>4, LoopFacts DEF Gone
  <2>2. Sched!Contains(id)
    <3>1. Pump
      BY <1>4 DEF LoopStep, Pump
    <3>2. Sched!Pump \/ UNCHANGED Sched!vars
      BY <3>1, PumpDrives
    <3>3. CASE Sched!Pump
      BY <1>0, <3>3, PumpLearnsNothing DEF InUse
    <3>4. CASE UNCHANGED Sched!vars
      BY <3>4 DEF InUse, Sched!vars, Sched!Contains, Sched!Waiting
    <3> QED BY <3>2, <3>3, <3>4
  <2>3. ASSUME Leaves(id) PROVE FALSE
    <3>1. stage = "settle" /\ id \in active /\ id \notin turn /\ outcome[id] # "none"
      BY <2>3 DEF Leaves
    <3>2. CASE PumpEnd
      <4>1. id \notin active' /\ pending' = pending
        BY <3>1, <3>2 DEF PumpEnd, Sched!PumpEnd, Sched!Leaving
      <4>2. id \notin Sched!Waiting
        BY <1>4, <3>1, LoopFacts
      <4> QED BY <4>1, <4>2 DEF InUse, Sched!Contains, Sched!Waiting
    <3>3. CASE ~PumpEnd
      <4>1. Leaves(id)'
        BY <1>4, <3>1, <3>3 DEF LoopStep, PumpBegin, AdmitSkip, AdmitReject, AdmitStart, AdmitEnd, Transfer,
           TransferNothing, SettleFailed, BeginVerify, TransferEnd, Sched!PumpBegin, Sched!AdmitDrop,
           Sched!AdmitDefer, Sched!AdmitReject, Sched!AdmitStart, Sched!AdmitEnd, Sched!CanAdmit,
           Sched!Transfer, Sched!TransferNothing, Sched!TransferEnd, Sched!Settle, schedVars, Leaves
      <4> QED BY <4>1 DEF InUse
    <3> QED BY <3>2, <3>3
  <2> QED BY <2>1, <2>2, <2>3 DEF InUse
<1>5. CASE JobStep
  <2>1. CASE UNCHANGED schedVars
    <3>1. ASSUME Gone(id) PROVE FALSE
      <4>2. job.step \in {"forget", "conclude"} /\ job.id = id
        BY <3>1 DEF Gone
      <4>3. Forget \/ Conclude
        BY <1>5, <4>2 DEF JobStep, Report, ReportRunning, CheckSize, Scan, Recheck, CommitRemove,
           CommitRename, JobAt
      <4>4. CASE Forget
        <5>1. job \in Jobs /\ Goto("conclude")
          BY <4>4, TypeParts DEF Forget, RInv, RestTyped
        <5>2. job'.id = id /\ job'.step = "conclude"
          BY <4>2, <5>1 DEF Goto, Jobs
        <5> QED BY <5>2 DEF InUse, Gone
      <4>5. CASE Conclude
        <5>1. id \in turn /\ turn' = turn \ {id}
          BY <4>2, <4>5 DEF Conclude, Sched!Settle
        <5> QED BY <2>1, <5>1 DEF schedVars
      <4> QED BY <4>3, <4>4, <4>5
    <3> QED BY <2>1, <3>1 DEF schedVars, InUse, Leaves, Sched!Contains, Sched!Waiting
  <2>2. CASE Sched!Settle(job.id) /\ job' = NoJob
    <3>1. /\ turn' = turn \ {job.id} /\ stage = "settle" /\ job.id \in turn
          /\ UNCHANGED <<pending, active, outcome, stage>>
      BY <2>2 DEF Sched!Settle
    <3>2. PICK k \in Ids : k = job.id
      BY <1>0, <3>1, SchedulerIds
    <3>3. outcome[k] # "none" /\ k \in active
      BY <1>0, <3>1, <3>2 DEF RecordsOK, OutcomeOK, SchedulerOK
    <3>4. Leaves(k)'
      BY <3>1, <3>2, <3>3 DEF Leaves
    <3>5. k # id
      BY <3>4 DEF InUse
    <3> QED BY <3>1, <3>2, <3>5 DEF InUse, Gone, Leaves, Sched!Contains, Sched!Waiting
  <2> QED BY <1>5, <2>1, <2>2, JobStepSched
<1>6. CASE Boot
  <2>1. CASE BootDone
    BY <1>1, <2>1 DEF BootDone
  <2>2. ASSUME NEW j \in Ids, RestoreOne(j) \/ RestoreFails(j) PROVE InUse(id) \/ (j = id /\ RestoreOne(j))
    <3>1. job' = job
      BY <2>2 DEF RestoreOne, RestoreFails, BootFrame
    <3>2. UNCHANGED schedVars \/ (RestoreOne(j) /\ (Sched!QueuePaused(j) \/ Sched!Queue(j)))
      BY <2>2 DEF RestoreOne, RestoreFails, Rescheduled
    <3>3. Sched!QueuePaused(j) \/ Sched!Queue(j) => Sched!OwnerCall(j) /\ stage = "idle"
      BY DEF Sched!OwnerCall, Sched!QueuePaused, Sched!Queue, Sched!BetweenPumps
    <3> QED BY <1>1, <1>2, <3>1, <3>2, <3>3
  <2> QED BY <1>6, <2>1, <2>2 DEF Boot
<1>7. CASE World \/ UNCHANGED vars
  BY <1>1, <1>7 DEF World, StartTimeReached, Tamper, ServerChanges, PumpFrame, vars
<1>8. ~Crash
  <2>1. ASSUME Crash PROVE ~Sched!Contains(id)'
    BY <2>1 DEF Crash, Sched!Rebuild, Sched!Contains, Sched!Waiting, Sched!Elements
  <2> QED BY <2>1 DEF InUse
<1> QED BY <1>3, <1>4, <1>5, <1>6, <1>7, <1>8 DEF Next, Pump, LoopStep, JobStep

\* The outcome of the pump's step for the download it stands at: one request,
\* what came back, and the plan and the staged file after it.
Moved(id, reply) ==
  LET i   == Sched!NextSegment(plan[id])
      seg == plan[id][i]
  IN  /\ reply \in Replies(id, seg)
      /\ plan'[id] = [plan[id] EXCEPT ![i] = Sched!Advanced(seg, Len(reply.data), reply.done, reply.again)]
      /\ Staged(id)' = WriteAt(Staged(id), seg.begin + seg.credit, reply.data)

LEMMA TransferMoves ==
  ASSUME RInv, NEW id \in Ids, Transfer(id)
  PROVE  /\ rec' = rec /\ etag' = etag /\ ckpt' = ckpt /\ version' = version /\ job.step = "none"
         /\ job'.id = id /\ job'.step = "report" /\ id \in active /\ rec[id] # None
         /\ Sched!Unfinished(plan[id]) # {}
         /\ part' = [part EXCEPT ![id][rec[id].file] = Staged(id)']
         /\ \E reply : Moved(id, reply)
<1> DEFINE i   == Sched!NextSegment(plan[id])
           seg == plan[id][i]
<1>1. /\ id \in turn /\ Sched!Unfinished(plan[id]) # {} /\ job = NoJob
      /\ rec' = rec /\ etag' = etag /\ ckpt' = ckpt /\ version' = version
      /\ job' = [NoJob EXCEPT !.id = id, !.step = "report"]
  BY DEF Transfer, Free, PumpFrame, worldVars
<1>2. rec[id] \in Records /\ rec[id].file \in Files /\ part \in Staging /\ plan \in [Ids -> Seq(Sched!Segment)]
      /\ id \in active /\ rec[id] # None
  <2>1. rec[id] \in Records /\ id \in active /\ rec[id] # None
    BY <1>1, TransferFacts DEF RInv, SchedulerOK, Known, Sched!Contains
  <2> QED BY <2>1, TypeParts, SchedulerIds DEF RInv, DiskTyped, Records
<1>3. PICK reply \in Replies(id, seg) :
        /\ Sched!Transfer(id, Len(reply.data), reply.done, reply.again)
        /\ part' = [part EXCEPT ![id][rec[id].file] = WriteAt(@, seg.begin + seg.credit, reply.data)]
  BY DEF Transfer
<1> DEFINE w == WriteAt(Staged(id), seg.begin + seg.credit, reply.data)
<1>4. part' = [part EXCEPT ![id][rec[id].file] = w]
  BY <1>2, <1>3 DEF Staged, Staging
<1>5. plan' = [plan EXCEPT ![id] = [plan[id] EXCEPT ![i] = Sched!Advanced(seg, Len(reply.data), reply.done, reply.again)]]
  BY <1>3 DEF Sched!Transfer
<1>6. Staged(id)' = part'[id][rec[id].file]
  BY <1>1 DEF Staged
<1> HIDE DEF w
<1>7. Staged(id)' = w
  BY <1>2, <1>4, <1>6 DEF Staging
<1>8. plan'[id] = [plan[id] EXCEPT ![i] = Sched!Advanced(seg, Len(reply.data), reply.done, reply.again)]
  BY <1>2, <1>5
<1>9. Moved(id, reply)
  BY <1>3, <1>7, <1>8 DEF Moved, w
<1>10. job.step = "none" /\ job'.id = id /\ job'.step = "report"
  BY <1>1, JobStarts DEF NoJob, Steps
<1> QED BY <1>1, <1>2, <1>4, <1>7, <1>9, <1>10

\* How a step changes the plan of a transfer.
LEMMA PlanMoves ==
  ASSUME RInv, RInv', RecordsOK, [Next]_vars, NEW id \in Ids, id \in active'
  PROVE  \/ AdmitStart /\ id = Head(pending)
         \/ Transfer(id)
         \/ id \in active /\ plan'[id] = plan[id] /\ etag'[id] = etag[id]
<1>0. SchedulerOK /\ SchedulerOK' /\ plan \in [Ids -> Seq(Sched!Segment)] /\ etag \in [Ids -> 0..MaxVersion]
  BY TypeParts, SchedulerIds DEF RInv, RestTyped
<1>1. ASSUME UNCHANGED schedVars, etag' = etag PROVE id \in active /\ plan'[id] = plan[id] /\ etag'[id] = etag[id]
  BY <1>1 DEF schedVars
<1>2. ASSUME NEW j \in Ids, Sched!OwnerCall(j), etag' = etag
      PROVE  id \in active /\ plan'[id] = plan[id] /\ etag'[id] = etag[id]
  <2>1. CASE j = id
    BY <1>0, <1>2, <2>1 DEF Sched!OwnerCall, Sched!Queue, Sched!QueuePaused, Sched!Pause, Sched!Resume, Sched!Cancel,
       Sched!CancelAndQueue, Sched!Removed
  <2>2. CASE j # id
    BY <1>0, <1>2, <2>2, OwnerCallOthers
  <2> QED BY <2>1, <2>2
<1>3. CASE User
  <2>1. etag' = etag /\ (UNCHANGED schedVars \/ \E j \in Ids : Sched!OwnerCall(j))
    BY <1>3 DEF User, Enqueue, EnqueueFails, Pause, Resume, Cancel, Restart, RestartFails, UserFrame, Sched!OwnerCall
  <2> QED BY <1>1, <1>2, <2>1
<1>4. CASE LoopStep
  <2>1. CASE AdmitStart
    <3>1. PICK p : Sched!AdmitStart(p)
      BY <2>1 DEF AdmitStart
    <3>2. /\ active' = active \cup {Head(pending)}
          /\ plan' = [plan EXCEPT ![Head(pending)] = p]
          /\ etag' = [etag EXCEPT ![Head(pending)] = version[rec[Head(pending)].source]]
      BY <2>1, <3>1 DEF AdmitStart, Sched!AdmitStart
    <3> QED BY <1>0, <2>1, <3>2
  <2>2. CASE PumpEnd
    BY <1>0, <2>2 DEF PumpEnd, Sched!PumpEnd
  <2>3. ASSUME NEW j \in Ids, Transfer(j) PROVE j = id \/ (id \in active /\ plan'[id] = plan[id] /\ etag'[id] = etag[id])
    <3>1. active' = active /\ etag' = etag /\ \E q : plan' = [plan EXCEPT ![j] = q]
      BY <2>3 DEF Transfer, Sched!Transfer
    <3> QED BY <1>0, <3>1
  <2>4. CASE PumpBegin \/ AdmitSkip \/ AdmitReject \/ AdmitEnd \/ TransferEnd
             \/ \E j \in Ids : TransferNothing(j) \/ SettleFailed(j) \/ BeginVerify(j)
    <3>1. active' = active /\ plan' = plan /\ etag' = etag
      BY <2>4 DEF PumpBegin, AdmitSkip, AdmitReject, AdmitEnd, TransferEnd, TransferNothing, SettleFailed,
         BeginVerify, Sched!PumpBegin, Sched!AdmitDrop, Sched!AdmitDefer, Sched!AdmitReject, Sched!AdmitEnd,
         Sched!TransferEnd, Sched!TransferNothing, Sched!Settle, schedVars
    <3> QED BY <3>1
  <2> QED BY <1>4, <2>1, <2>2, <2>3, <2>4 DEF LoopStep
<1>5. CASE JobStep
  <2>1. etag' = etag
    BY <1>5 DEF JobStep, Report, ReportRunning, CheckSize, Scan, Recheck, CommitRemove, CommitRename, Forget, Conclude
  <2>2. active' = active /\ plan' = plan
    BY <1>5, JobStepSched DEF schedVars, Sched!Settle
  <2> QED BY <2>1, <2>2
<1>6. CASE Boot
  <2>1. etag' = etag /\ (UNCHANGED schedVars \/ \E j \in Ids : Sched!OwnerCall(j))
    BY <1>6 DEF Boot, BootDone, RestoreOne, RestoreFails, Rescheduled, BootFrame, Sched!OwnerCall
  <2> QED BY <1>1, <1>2, <2>1
<1>7. CASE World \/ UNCHANGED vars
  BY <1>1, <1>7 DEF World, StartTimeReached, Tamper, ServerChanges, PumpFrame, vars
<1>8. ~Crash
  BY DEF Crash, Sched!Rebuild
<1> QED BY <1>3, <1>4, <1>5, <1>6, <1>7, <1>8 DEF Next, Pump, LoopStep, JobStep

\* How a step changes a staged file.
LEMMA PartMoves ==
  ASSUME RInv, RInv', RecordsOK, "prepare" \notin Faults, [Next]_vars, NEW id \in Ids, NEW f \in Files
  PROVE  \/ part'[id][f] = part[id][f]
         \/ part[id][f] = None /\ part'[id][f] = <<>>
         \/ Restart(id) \/ \E d \in BOOLEAN : Cancel(id, d)
         \/ Transfer(id) /\ f = rec[id].file
         \/ /\ Tamper /\ job.id = id /\ f = rec[id].file
            /\ part'[id][f] = [k \in 1..Total |-> Junk]
         \/ /\ CommitRename /\ job.id = id /\ f = rec[id].file
            /\ part'[id][f] = None /\ Gone(id)'
<1>0. part \in Staging /\ rec \in MaybeRecords
  BY TypeParts DEF RInv, DiskTyped
<1>1. ASSUME NEW j \in Ids, NEW g, part' = Prepared(j, g)
      PROVE  part'[id][f] = part[id][f] \/ (part[id][f] = None /\ part'[id][f] = <<>>)
  BY <1>0, <1>1 DEF Prepared, Staging
<1>2. ASSUME NEW j \in Ids, NEW g, NEW x, part' = [part EXCEPT ![j][g] = x]
      PROVE  /\ j # id \/ g # f => part'[id][f] = part[id][f]
             /\ j = id /\ g = f => part'[id][f] = x
  BY <1>0, <1>2 DEF Staging
<1>3. CASE User
  <2>1. ASSUME NEW j \in Ids, Restart(j) \/ \E d \in BOOLEAN : Cancel(j, d)
        PROVE  part'[id][f] = part[id][f] \/ j = id
    <3>1. \/ part' = part
          \/ \E g, x : part' = [part EXCEPT ![j][g] = x]
          \/ part' = Prepared(j, rec[j].file) /\ \E x : Prepared(j, rec[j].file) = [part EXCEPT ![j][rec[j].file] = x]
      <4>1. \E x : Prepared(j, rec[j].file) = [part EXCEPT ![j][rec[j].file] = x]
        <5>1. Prepared(j, rec[j].file) = [part EXCEPT ![j][rec[j].file] =
                 IF part[j][rec[j].file] = None THEN <<>> ELSE part[j][rec[j].file]]
          BY DEF Prepared
        <5> QED BY <5>1
      <4> QED BY <2>1, <4>1 DEF Restart, Cancel
    <3> QED BY <1>2, <3>1
  <2>2. ASSUME NEW j \in Ids, NEW r \in Requests, Enqueue(r, j) PROVE part' = Prepared(j, r.file)
    BY <2>2 DEF Enqueue
  <2>3. ASSUME NEW j \in Ids, RestartFails(j) \/ (\E r \in Requests : EnqueueFails(r, j)) PROVE FALSE
    BY <2>3 DEF RestartFails, EnqueueFails
  <2>4. ASSUME NEW j \in Ids, Pause(j) \/ Resume(j) PROVE part' = part
    BY <2>4 DEF Pause, Resume
  <2> QED BY <1>1, <1>3, <2>1, <2>2, <2>3, <2>4 DEF User
<1>4. CASE LoopStep
  <2>1. ASSUME NEW j \in Ids, Transfer(j) PROVE part'[id][f] = part[id][f] \/ (j = id /\ f = rec[id].file)
    <3>1. part' = [part EXCEPT ![j][rec[j].file] = Staged(j)']
      BY <2>1, TransferMoves
    <3> QED BY <1>2, <3>1
  <2>2. CASE PumpBegin \/ AdmitSkip \/ AdmitReject \/ AdmitStart \/ AdmitEnd \/ TransferEnd \/ PumpEnd
             \/ \E j \in Ids : TransferNothing(j) \/ SettleFailed(j) \/ BeginVerify(j)
    BY <2>2 DEF PumpBegin, AdmitSkip, AdmitReject, AdmitStart, AdmitEnd, TransferEnd, PumpEnd, TransferNothing,
       SettleFailed, BeginVerify, diskVars
  <2> QED BY <1>4, <2>1, <2>2 DEF LoopStep
<1>5. CASE JobStep
  <2>1. CASE part' = part
    BY <2>1
  <2>2. CASE part' # part
    <3>1. CommitRename /\ part' = [part EXCEPT ![job.id][rec[job.id].file] = None] /\ Goto("forget") /\ JobAt("rename")
      BY <1>5, <2>2 DEF JobStep, Report, ReportRunning, CheckSize, Scan, Recheck, CommitRemove, CommitRename, Forget,
         Conclude, diskVars
    <3>2. PICK j \in Ids : j = job.id
      BY <3>1, JobFacts DEF JobAt
    <3>3. job'.id = j /\ job'.step = "forget"
      BY <1>5, <3>1, <3>2, TypeParts DEF RInv, RestTyped, Goto, Jobs
    <3>4. j = id => Gone(id)'
      BY <3>3 DEF Gone
    <3> QED BY <1>2, <3>1, <3>2, <3>4
  <2> QED BY <2>1, <2>2
<1>6. CASE Boot
  BY <1>1, <1>6 DEF Boot, BootDone, RestoreOne, RestoreFails
<1>7. CASE World
  <2>1. CASE Tamper
    <3>1. PICK j \in Ids : j = job.id
      BY <2>1, JobFacts DEF Tamper, JobAt
    <3>2. part' = [part EXCEPT ![j][rec[j].file] = [k \in 1..Total |-> Junk]]
      BY <2>1, <3>1 DEF Tamper
    <3> QED BY <1>2, <2>1, <3>1, <3>2
  <2>2. CASE StartTimeReached \/ \E s \in Sources : ServerChanges(s)
    BY <2>2 DEF StartTimeReached, ServerChanges, diskVars
  <2> QED BY <1>7, <2>1, <2>2 DEF World
<1>8. CASE Crash \/ UNCHANGED vars
  BY <1>8 DEF Crash, vars, diskVars
<1> QED BY <1>3, <1>4, <1>5, <1>6, <1>7, <1>8 DEF Next, Pump, LoopStep, JobStep

----------------------------------------------------------------------------
(* The file and the resource of a download across a restart. *)

FileOf(id) == IF rec[id] # None THEN rec[id].file ELSE boot[id].file
SourceOf(id) == IF rec[id] # None THEN rec[id].source ELSE boot[id].source

\* What the staged file of id holds.
Held(id) == part[id][FileOf(id)]

\* What a process knows of its downloads and their checkpoints.
KeptOK == RestartOK /\ AllPublic /\ CheckpointOK

\* The download of a checkpoint is the one queue.tsv names.
LEMMA OwnerOfCheckpoint ==
  ASSUME KeptOK, NEW id \in Ids, ckpt[id] # None
  PROVE  /\ store[id] \in Records /\ store[id].state \in Open /\ store[id] # None
         /\ FileOf(id) = store[id].file /\ SourceOf(id) = store[id].source
         /\ FileOf(id) \in Files /\ SourceOf(id) \in Sources
         /\ running => rec[id] # None
<1>0. /\ RInv /\ RecordsOK /\ StoreOK /\ BootKept /\ AllPublic /\ CheckpointOK
      /\ store \in MaybeRecords /\ boot \in MaybeRecords
  BY TypeParts DEF KeptOK, RestartOK, RInv, DiskTyped, RestTyped
<1>1. ASSUME store[id] # None PROVE store[id] \in Records /\ store[id].file \in Files /\ store[id].source \in Sources
  BY <1>0, <1>1 DEF MaybeRecords, Records
<1>2. CASE running
  <2>1. InState(id, Open) /\ store[id] = rec[id]
    BY <1>0, <1>2 DEF CheckpointOK, AllPublic, StoreOK, Saved, InState
  <2> QED BY <1>1, <2>1 DEF InState, FileOf, SourceOf
<1>3. CASE ~running
  <2>1. store[id] # None /\ store[id].state \in Open /\ store[id] \in Records
    BY <1>0, <1>1, <1>3 DEF CheckpointOK
  <2>2. boot[id] = store[id] \/ rec[id] = RestoredRecord(store[id])
    BY <1>0, <1>3, <2>1 DEF BootKept, Open, Settled
  <2>3. /\ RestoredRecord(store[id]).file = store[id].file
        /\ RestoredRecord(store[id]).source = store[id].source
    BY <2>1, RestoredFacts
  <2>4. boot[id] # None => rec[id] = None
    BY <1>0 DEF RecordsOK, BootRecords
  <2>5. RestoredRecord(store[id]) # None
    BY <2>1, RestoredFacts, NoneAssumption
  <2> QED BY <1>1, <1>3, <2>1, <2>2, <2>3, <2>4, <2>5 DEF FileOf, SourceOf
<1> QED BY <1>2, <1>3

\* It keeps its file and its resource through every step, the death of the
\* process included.
LEMMA OwnerKept ==
  ASSUME "prepare" \notin Faults, KeptOK, RInv', [Next]_vars, NEW id \in Ids, ckpt[id] # None
  PROVE  FileOf(id)' = FileOf(id) /\ SourceOf(id)' = SourceOf(id)
<1>0. RInv /\ RecordsOK /\ rec \in MaybeRecords /\ boot \in MaybeRecords
  BY TypeParts DEF KeptOK, RestartOK, RInv, DiskTyped, RestTyped
<1>1. ASSUME rec'[id] = rec[id], boot'[id] = boot[id]
      PROVE  FileOf(id)' = FileOf(id) /\ SourceOf(id)' = SourceOf(id)
  BY <1>1 DEF FileOf, SourceOf
<1>2. CASE Crash
  <2>1. rec'[id] = None /\ boot'[id] = store[id]
    BY <1>2, OwnerOfCheckpoint DEF Crash, NoRecords, Restorable, Open, Settled
  <2> QED BY <2>1, OwnerOfCheckpoint DEF FileOf, SourceOf
<1>3. CASE running /\ ~Crash
  BY <1>0, <1>3, OwnerOfCheckpoint, RecordsKept DEF FileOf, SourceOf
<1>4. CASE ~running /\ ~Crash
  <2>1. ASSUME NEW j \in Ids, RestoreOne(j)
        PROVE  FileOf(id)' = FileOf(id) /\ SourceOf(id)' = SourceOf(id)
    <3>1. PICK r \in Records : rec' = [rec EXCEPT ![j] = r] /\ r.file = boot[j].file /\ r.source = boot[j].source
      BY <1>0, <2>1, BootFacts
    <3>2. boot' = [boot EXCEPT ![j] = None] /\ rec[j] = None
      BY <1>0, <2>1, BootFacts
    <3>3. CASE j = id
      <4>1. rec'[id] = r /\ r # None
        BY <1>0, <3>1, <3>3, RecordAdded, NoneAssumption
      <4> QED BY <3>1, <3>2, <3>3, <4>1 DEF FileOf, SourceOf
    <3>4. CASE j # id
      BY <1>0, <1>1, <3>1, <3>2, <3>4 DEF MaybeRecords
    <3> QED BY <3>3, <3>4
  <2>2. CASE BootDone \/ World \/ UNCHANGED vars
    BY <1>1, <2>2 DEF BootDone, World, StartTimeReached, Tamper, ServerChanges, PumpFrame, vars
  <2>3. ~\E j \in Ids : RestoreFails(j)
    BY DEF RestoreFails
  <2> QED BY <1>0, <1>4, <2>1, <2>2, <2>3, BeforeRunning DEF Boot
<1> QED BY <1>2, <1>3, <1>4

----------------------------------------------------------------------------
(* Callbacks, staged files and checkpoints. *)

\* While a callback runs nothing else happens in the process.
LEMMA WhileJob ==
  ASSUME RInv, [Next]_vars, job.step # "none"
  PROVE  JobStep \/ World \/ Crash \/ UNCHANGED vars
<1>1. running /\ stage # "idle" /\ job # NoJob /\ boot = NoRecords
  BY JobFacts DEF NoJob, RInv, BootOK
<1>2. ~User
  BY <1>1 DEF User, Idle, Enqueue, EnqueueFails, Pause, Resume, Cancel, Restart, RestartFails
<1>3. ~LoopStep
  BY <1>1 DEF LoopStep, PumpBegin, AdmitSkip, AdmitReject, AdmitStart, AdmitEnd, Transfer,
     TransferNothing, SettleFailed, BeginVerify, TransferEnd, PumpEnd, Free
<1>4. ~Boot
  BY <1>1 DEF Boot, BootDone, RestoreOne, RestoreFails, NoRecords
<1> QED BY <1>2, <1>3, <1>4 DEF Next, Pump, LoopStep, JobStep

\* The world leaves the process alone.
LEMMA WorldFacts ==
  ASSUME World \/ UNCHANGED vars
  PROVE  UNCHANGED <<schedVars, rec, etag, job, boot, running, ckpt, store, final>>
BY DEF World, StartTimeReached, Tamper, ServerChanges, PumpFrame, vars, diskVars

VerifySteps == {"size", "scan", "recheck", "remove", "rename"}

\* Only a finished download is verified.
VerifiedOK == job.step \in VerifySteps => outcome[job.id] = "finished"

\* A verification begins after a pump's step has found its download finished.
LEMMA VerifyBegins ==
  ASSUME RInv, [Next]_vars, job.step = "none", job'.step \notin {"none", "report"}
  PROVE  \E id \in Ids : BeginVerify(id)
<1>1. job' # job
  OBVIOUS
<1>2. ~User
  BY <1>1 DEF User, Enqueue, EnqueueFails, Pause, Resume, Cancel, Restart, RestartFails, UserFrame
<1>3. ~JobStep
  BY DEF JobStep, Report, ReportRunning, CheckSize, Scan, Recheck, CommitRemove, CommitRename, Forget,
     Conclude, JobAt
<1>4. ~Boot /\ ~World /\ ~UNCHANGED vars
  BY <1>1, WorldFacts DEF Boot, BootDone, RestoreOne, RestoreFails, BootFrame
<1>5. ~Crash
  BY DEF Crash, NoJob
<1>6. ASSUME NEW id \in Ids, job' = [NoJob EXCEPT !.id = id, !.step = "report"] PROVE FALSE
  BY <1>6, JobStarts DEF Steps
<1>7. Head(pending) \in Ids \/ ~AdmitStart
  BY SchedulerIds DEF RInv, AdmitStart
<1>8. ~AdmitStart
  BY <1>6, <1>7 DEF AdmitStart
<1>9. ~\E id \in Ids : Transfer(id) \/ TransferNothing(id)
  BY <1>6 DEF Transfer, TransferNothing
<1>10. LoopStep
  BY <1>2, <1>3, <1>4, <1>5 DEF Next, Pump, LoopStep, JobStep
<1> QED BY <1>1, <1>8, <1>9, <1>10 DEF LoopStep, PumpBegin, AdmitSkip, AdmitReject, AdmitEnd, TransferEnd,
        SettleFailed, PumpEnd

LEMMA StepKeepsVerified == ASSUME RInv, RInv', VerifiedOK, [Next]_vars PROVE VerifiedOK'
<1>1. SUFFICES ASSUME job'.step \in VerifySteps PROVE outcome'[job'.id] = "finished"
  BY DEF VerifiedOK
<1>2. CASE job.step # "none"
  <2>1. CASE JobStep
    <3>1. job' # NoJob
      BY <1>1 DEF NoJob, VerifySteps
    <3>2. UNCHANGED schedVars
      BY <2>1, <3>1 DEF JobStep, Report, ReportRunning, CheckSize, Scan, Recheck, CommitRemove, CommitRename, Forget,
         Conclude, FailJob
    <3>3. job'.id = job.id /\ ~Report
      BY <1>1, <2>1, <3>1, JobMoves DEF VerifySteps
    <3>4. job.step \in VerifySteps
      <4>1. ~Forget
        <5>1. ASSUME Forget PROVE job'.step = "conclude"
          BY <5>1, TypeParts DEF RInv, RestTyped, Jobs, Forget, Goto
        <5> QED BY <1>1, <5>1 DEF VerifySteps
      <4> QED BY <2>1, <3>1, <3>3, <4>1 DEF JobStep, ReportRunning, CheckSize, Scan, Recheck, CommitRemove, CommitRename,
              Conclude, JobAt, VerifySteps
    <3> QED BY <3>2, <3>3, <3>4 DEF VerifiedOK, schedVars
  <2>2. CASE World \/ UNCHANGED vars
    BY <1>1, <2>2, WorldFacts DEF VerifiedOK, schedVars
  <2>3. ~Crash
    BY <1>1 DEF Crash, NoJob, VerifySteps
  <2> QED BY <1>2, <2>1, <2>2, <2>3, WhileJob
<1>3. CASE job.step = "none"
  <2>2. \E id \in Ids : BeginVerify(id)
    BY <1>1, <1>3, VerifyBegins DEF VerifySteps
  <2>3. PICK id \in Ids : BeginVerify(id)
    BY <2>2
  <2>4. outcome[id] = "finished" /\ outcome' = outcome /\ job' = [NoJob EXCEPT !.id = id, !.step = "size"]
    BY <2>3 DEF BeginVerify, schedVars
  <2>5. job'.id = id
    BY <2>4, JobStarts DEF Steps
  <2> QED BY <2>4, <2>5
<1> QED BY <1>2, <1>3

\* A verified download has every byte credited.
LEMMA VerifiedIsFull ==
  ASSUME RInv, RecordsOK, VerifiedOK, job.step \in VerifySteps
  PROVE  job.id \in active /\ plan[job.id] \in AllPlans /\ Full(plan[job.id])
<1>1. job.id \in Ids /\ job.id \in active /\ outcome[job.id] = "finished"
  BY JobFacts DEF RecordsOK, JobPlace, VerifiedOK, VerifySteps, Steps, RInv, SchedulerOK
<1>2. plan[job.id] \in AllPlans
  BY <1>1, SchedulerIds DEF RInv, SchedulerOK
<1>3. SP!Unfinished(plan[job.id]) = {}
  BY <1>1 DEF RInv, SchedulerOK, SP!IInv, SP!FinishedIsFull
<1>4. \A i \in 1..Len(plan[job.id]) : plan[job.id][i].finished /\ Sched!WellFormed(plan[job.id][i])
  BY <1>2, <1>3, PlanFacts DEF SP!Unfinished
<1> QED BY <1>1, <1>2, <1>4 DEF Full, Sched!WellFormed

\* A download in use has a staged file.  One that has a checkpoint has it too,
\* but for the moment between the release and the end of its callback.
StagedOK ==
  \A id \in Ids : /\ InUse(id) => Staged(id) # None
                  /\ ckpt[id] # None /\ rec[id] # None /\ Staged(id) = None => Gone(id)

\* Sequences of bytes are files.
LEMMA FilesAreSequences ==
  /\ <<>> # None
  /\ [k \in 1..Total |-> Junk] \in Seq(Bytes) /\ [k \in 1..Total |-> Junk] # None
<1>1. Junk \in Bytes /\ Total \in Nat
  BY RuntimeAssumption DEF Bytes
<1>2. <<>> \in Seq(Bytes) /\ [k \in 1..Total |-> Junk] \in Seq(Bytes)
  BY <1>1
<1> QED BY <1>2, NoneAssumption

\* A file that is prepared is there.
LEMMA PreparedIsThere ==
  ASSUME part \in Staging, NEW id \in Ids, NEW f \in Files, part' = Prepared(id, f)
  PROVE  part'[id][f] # None
BY FilesAreSequences DEF Prepared, Staging

\* A transfer leaves a file where there was one.
LEMMA TransferKeepsFile ==
  ASSUME RInv, NEW id \in Ids, Transfer(id), Staged(id) # None
  PROVE  Staged(id)' \in Seq(Bytes) /\ Staged(id)' # None
<1> DEFINE i   == Sched!NextSegment(plan[id])
           seg == plan[id][i]
<1>1. PICK reply : Moved(id, reply)
  BY TransferMoves
<1>2. id \in turn /\ Sched!Unfinished(plan[id]) # {} /\ rec[id] # None
  BY TransferMoves DEF Transfer
<1>3. seg.begin + seg.credit \in Nat /\ reply.data \in Seq(Bytes)
  BY <1>1, <1>2, TransferFacts DEF Moved
<1>4. rec[id].file \in Files
  BY <1>2, FileOfRecord, TypeParts DEF RInv, DiskTyped
<1>5. Staged(id) \in Seq(Bytes)
  BY <1>4, TypeParts DEF RInv, DiskTyped, Staging, Staged
<1> HIDE DEF seg
<1>6. WriteAt(Staged(id), seg.begin + seg.credit, reply.data) \in Seq(Bytes)
  BY <1>3, <1>5, WriteAtTyped
<1>7. Staged(id)' = WriteAt(Staged(id), seg.begin + seg.credit, reply.data)
  BY <1>1 DEF Moved, seg
<1> QED BY <1>6, <1>7, NoneAssumption

\* Where the staged file of a download with a record is after a step.
LEMMA StagedMoves ==
  ASSUME RInv, RInv', RecordsOK, "prepare" \notin Faults, [Next]_vars, ~Crash, NEW id \in Ids, rec[id] # None
  PROVE  /\ rec'[id] # None
         /\ \/ Staged(id)' = Staged(id)
            \/ Staged(id) = None /\ Staged(id)' = <<>>
            \/ Restart(id) \/ \E d \in BOOLEAN : Cancel(id, d)
            \/ Transfer(id)
            \/ Tamper /\ job.id = id /\ Staged(id)' = [k \in 1..Total |-> Junk]
            \/ CommitRename /\ job.id = id /\ Staged(id)' = None /\ Gone(id)'
<1>1. rec'[id] # None /\ rec'[id].file = rec[id].file
  BY RecordsKept
<1>2. rec[id].file \in Files
  BY FileOfRecord, TypeParts DEF RInv, DiskTyped
<1>3. Staged(id) = part[id][rec[id].file] /\ Staged(id)' = part'[id][rec[id].file]
  BY <1>1 DEF Staged
<1> QED BY <1>1, <1>2, <1>3, PartMoves

\* A callback past the release stays there until it has concluded.
LEMMA GoneStays ==
  ASSUME RInv, [Next]_vars, NEW id \in Ids, Gone(id)
  PROVE  Gone(id)' \/ Crash \/ (Conclude /\ job.step = "conclude")
<1>1. job.id = id /\ job.step \in {"forget", "conclude"}
  BY DEF Gone
<1>2. CASE JobStep
  <2>1. Forget \/ (Conclude /\ job.step = "conclude")
    BY <1>1, <1>2 DEF JobStep, Report, ReportRunning, CheckSize, Scan, Recheck, CommitRemove, CommitRename, Conclude, JobAt
  <2>2. ASSUME Forget PROVE job'.id = id /\ job'.step = "conclude"
    BY <1>1, <2>2, TypeParts DEF RInv, RestTyped, Jobs, Forget, Goto
  <2> QED BY <2>1, <2>2 DEF Gone
<1>3. CASE World \/ UNCHANGED vars
  BY <1>1, <1>3, WorldFacts DEF Gone
<1> QED BY <1>1, <1>2, <1>3, WhileJob

LEMMA StepKeepsStaged ==
  ASSUME {"save", "erase", "prepare"} \cap Faults = {}, KeptOK, RInv', StagedOK, [Next]_vars
  PROVE  StagedOK'
<1>0. /\ RInv /\ RecordsOK /\ CheckpointOK /\ Known /\ Known'
      /\ {"save", "erase"} \cap Faults = {} /\ "prepare" \notin Faults
      /\ part \in Staging /\ rec \in MaybeRecords /\ ckpt \in SavedCheckpoints
  BY TypeParts DEF KeptOK, RestartOK, RInv, DiskTyped
<1>1. ASSUME NEW id \in Ids, Restart(id) PROVE Staged(id)' # None
  <2>1. rec[id] # None
    BY <1>1 DEF Restart, Restartable, InState
  <2>2. rec[id].file \in Files /\ rec'[id].file = rec[id].file
    <3>1. ~Crash
      BY <1>1 DEF Restart, Idle, UserFrame, Crash
    <3> QED BY <1>0, <2>1, <3>1, FileOfRecord, RecordsKept
  <2>3. part'[id][rec[id].file] # None
    BY <1>0, <1>1, <2>2, PreparedIsThere, FilesAreSequences DEF Restart, Staging
  <2> QED BY <2>2, <2>3 DEF Staged
<1>2. ASSUME NEW id \in Ids, RestoreOne(id) PROVE Staged(id)' # None
  <2>1. boot[id] \in Records /\ \E r \in Records : rec' = [rec EXCEPT ![id] = r] /\ r.file = boot[id].file
    BY <1>0, <1>2, BootFacts
  <2>2. rec'[id].file = boot[id].file /\ boot[id].file \in Files
    BY <1>0, <2>1, RecordAdded DEF Records
  <2>3. part'[id][boot[id].file] # None
    BY <1>0, <1>2, <2>2, PreparedIsThere DEF RestoreOne
  <2> QED BY <2>2, <2>3 DEF Staged
<1>3. ASSUME NEW id \in Ids, NEW r \in Requests, Enqueue(r, id) PROVE Staged(id)' # None
  <2>1. Record(r, "queued") \in Records /\ rec' = [rec EXCEPT ![id] = Record(r, "queued")]
    BY <1>3, RequestRecord DEF Enqueue, States
  <2>2. rec'[id].file = r.file /\ r.file \in Files
    <3>1. rec'[id] = Record(r, "queued")
      BY <1>0, <2>1, RecordAdded
    <3>2. Record(r, "queued").file = r.file
      BY DEF Record
    <3>3. Record(r, "queued").file \in Files
      BY <2>1 DEF Records
    <3> QED BY <3>1, <3>2, <3>3
  <2>3. part'[id][r.file] # None
    BY <1>0, <1>3, <2>2, PreparedIsThere DEF Enqueue
  <2> QED BY <2>2, <2>3 DEF Staged
<1>4. ASSUME NEW id \in Ids, InUse(id)' PROVE Staged(id)' # None
  <2>1. CASE InUse(id)
    <3>1. rec[id] # None /\ Staged(id) # None
      BY <1>0, <2>1 DEF InUse, Known, StagedOK
    <3>2. ~Crash /\ ~\E d \in BOOLEAN : Cancel(id, d)
      <4>1. ASSUME Crash PROVE ~Sched!Contains(id)'
        BY <4>1 DEF Crash, Sched!Rebuild, Sched!Contains, Sched!Waiting, Sched!Elements
      <4>2. ASSUME NEW d \in BOOLEAN, Cancel(id, d) PROVE ~Sched!Contains(id)'
        BY <1>0, <4>2, OwnerCallOwn DEF Cancel, RInv
      <4> QED BY <1>4, <4>1, <4>2 DEF InUse
    <3>3. ~Gone(id)'
      BY <1>4 DEF InUse
    <3> QED BY <1>0, <1>1, <3>1, <3>2, <3>3, StagedMoves, TransferKeepsFile, FilesAreSequences
  <2> QED BY <1>0, <1>1, <1>2, <1>3, <1>4, <2>1, UseBegins
<1>5. ASSUME NEW id \in Ids, ckpt'[id] # None, rec'[id] # None, Staged(id)' = None PROVE Gone(id)'
  <2>1. ~Crash
    BY <1>5 DEF Crash, NoRecords
  <2>2. ~(Report /\ job.id = id)
    <3>1. ASSUME Report, job.id = id PROVE Staged(id)' # None
      <4>1. InUse(id)
        BY <1>0, <3>1 DEF Report, JobAt, RecordsOK, JobPlace, InUse, Leaves, Gone, Sched!Contains
      <4>2. Staged(id)' = Staged(id)
        BY <3>1 DEF Report, Staged
      <4> QED BY <4>1, <4>2 DEF StagedOK
    <3> QED BY <1>5, <3>1
  <2>3. ckpt[id] # None
    BY <1>0, <1>5, <2>2, CheckpointMoves DEF SavedCheckpoints
  <2>4. ~Restart(id) /\ ~\E d \in BOOLEAN : Cancel(id, d)
    <3>1. ASSUME Restart(id) \/ \E d \in BOOLEAN : Cancel(id, d) PROVE ckpt'[id] = None
      BY <1>0, <3>1 DEF Restart, Cancel, EraseCheckpoint, SavedCheckpoints
    <3> QED BY <1>5, <3>1
  <2>5. CASE rec[id] = None
    <3>1. ~running
      BY <2>3, <2>5, OwnerOfCheckpoint
    <3>2. RestoreOne(id)
      BY <1>0, <1>5, <2>5, <3>1, NewRecords DEF Enqueue, EnqueueFails, Idle, RestoreFails
    <3> QED BY <1>2, <1>5, <3>2
  <2>6. CASE rec[id] # None
    <3>1. CASE Staged(id)' = Staged(id)
      <4>1. Gone(id)
        BY <1>5, <2>3, <2>6, <3>1 DEF StagedOK
      <4>2. ~(Conclude /\ job.step = "conclude")
        BY <1>0, <2>3, <4>1 DEF CheckpointOK, Gone
      <4> QED BY <1>0, <2>1, <4>1, <4>2, GoneStays
    <3>2. CASE Transfer(id)
      <4>1. InUse(id)
        <5>1. id \in active /\ job.step = "none" /\ stage = "transfer"
          BY <1>0, <3>2, TransferMoves DEF Transfer
        <5> QED BY <5>1 DEF InUse, Leaves, Gone, Sched!Contains
      <4> QED BY <1>0, <1>5, <3>2, <4>1, TransferKeepsFile DEF StagedOK
    <3> QED BY <1>0, <1>5, <2>1, <2>4, <2>6, <3>1, <3>2, StagedMoves, FilesAreSequences
  <2> QED BY <2>5, <2>6
<1> QED BY <1>4, <1>5 DEF StagedOK

\* The checkpoint of a transfer is its plan, but while it is about to be saved.
FollowsOK ==
  \A id \in Ids : id \in active /\ ckpt[id] # None /\ ~(job.id = id /\ job.step = "report") =>
    ckpt[id] = MakeCheckpoint(rec[id].source, etag[id], plan[id])

LEMMA StepKeepsFollowing ==
  ASSUME {"save", "erase"} \cap Faults = {}, RInv, RInv', RecordsOK, FollowsOK, [Next]_vars
  PROVE  FollowsOK'
<1> SUFFICES ASSUME NEW id \in Ids, id \in active', ckpt'[id] # None, ~(job'.id = id /\ job'.step = "report")
             PROVE  ckpt'[id] = MakeCheckpoint(rec'[id].source, etag'[id], plan'[id])
  BY DEF FollowsOK
<1>0. ckpt \in SavedCheckpoints
  BY TypeParts DEF RInv, DiskTyped
<1>1. id \in active /\ plan'[id] = plan[id] /\ etag'[id] = etag[id]
  <2>1. ASSUME AdmitStart, id = Head(pending) PROVE FALSE
    <3>1. job' = [NoJob EXCEPT !.id = id, !.step = "report"]
      BY <2>1 DEF AdmitStart
    <3> QED BY <3>1, JobStarts DEF Steps
  <2>2. ASSUME Transfer(id) PROVE FALSE
    BY <2>2, TransferMoves
  <2> QED BY <2>1, <2>2, PlanMoves
<1>2. rec'[id].source = rec[id].source
  <2>1. rec[id] # None
    BY <1>1 DEF RInv, Known, Sched!Contains
  <2>2. ~Crash
    BY DEF Crash, Sched!Rebuild
  <2> QED BY <2>1, <2>2, RecordsKept
<1>3. CASE Report /\ job.id = id
  <2>1. ckpt' = [ckpt EXCEPT ![id] = MakeCheckpoint(rec[id].source, etag[id], plan[id])]
    BY <1>3 DEF Report, SaveCheckpoint
  <2> QED BY <1>0, <1>1, <1>2, <2>1 DEF SavedCheckpoints
<1>4. CASE ~(Report /\ job.id = id)
  <2>1. ckpt'[id] = ckpt[id]
    BY <1>0, <1>4, CheckpointMoves DEF SavedCheckpoints
  <2>2. ~(job.id = id /\ job.step = "report")
    <3>1. ASSUME job.id = id, job.step = "report" PROVE FALSE
      <4>1. ~JobStep
        BY <1>4, <3>1 DEF JobStep, ReportRunning, CheckSize, Scan, Recheck, CommitRemove, CommitRename, Forget,
           Conclude, JobAt
      <4>2. ~Crash
        BY DEF Crash, Sched!Rebuild
      <4>3. job' = job
        BY <3>1, <4>1, <4>2, WhileJob, WorldFacts
      <4> QED BY <3>1, <4>3
    <3> QED BY <3>1
  <2> QED BY <1>1, <1>2, <2>1, <2>2 DEF FollowsOK
<1> QED BY <1>3, <1>4

----------------------------------------------------------------------------
(* What a checkpoint credits is in the staged file. *)

\* The invariants a crash leaves of the staged files and the checkpoints.
StagingOK == KeptOK /\ VerifiedOK /\ StagedOK /\ FollowsOK

LEMMA StepKeepsStaging ==
  ASSUME {"save", "erase", "prepare"} \cap Faults = {}, KeptOK', StagingOK, [Next]_vars
  PROVE  StagingOK'
<1>1. {"save", "erase"} \cap Faults = {}
  OBVIOUS
<1>2. RInv /\ RInv' /\ RecordsOK
  BY DEF KeptOK, RestartOK, StagingOK
<1> QED BY <1>1, <1>2, StepKeepsVerified, StepKeepsStaged, StepKeepsFollowing DEF StagingOK

LEMMA StagingInvariant ==
  ASSUME {"save", "erase", "prepare"} \cap Faults = {}, \A r \in Requests : ~r.private
  PROVE  Spec => []StagingOK
<1>1. Init => VerifiedOK /\ StagedOK /\ FollowsOK
  BY DEF Init, Sched!Init, VerifiedOK, StagedOK, FollowsOK, NoJob, VerifySteps, InUse, Sched!Contains, Sched!Waiting,
     Sched!Elements, NoRecords
<1>2. KeptOK /\ KeptOK' /\ VerifiedOK /\ StagedOK /\ FollowsOK /\ [Next]_vars => VerifiedOK' /\ StagedOK' /\ FollowsOK'
  BY StepKeepsStaging DEF StagingOK
<1>3. Spec => []KeptOK
  BY CheckpointInvariant DEF KeptOK
<1> QED BY <1>1, <1>2, <1>3, PTL DEF Spec, StagingOK

\* The body of a whole resource may end early: the connection is cut, or the
\* writer fails in the middle of it.
CutsWhole == "wholecut" \in Answers \/ ("write" \in Faults /\ "whole" \in Answers)

\* What a request brings: the bytes asked for or the first of them, the whole
\* resource or the beginning of it, an error page, or nothing.
LEMMA ReplyKinds ==
  ASSUME NEW id, NEW seg, NEW reply \in Replies(id, seg),
         seg.begin \in Nat, seg.credit \in Nat, seg.size \in Nat,
         seg.credit < seg.size, seg.begin + seg.size <= Total
  PROVE  LET src  == rec[id].source
             now  == version[src]
             off  == seg.begin + seg.credit
             data == reply.data
         IN  \/ /\ etag[id] = now
                /\ \A m \in 1..Len(data) : data[m] = <<src, now, off + m>>
                /\ reply.done /\ "short" \notin Answers => seg.credit + Len(data) = seg.size
             \/ ~reply.done /\ data = Whole(src, now) /\ Len(data) = Total
             \/ ~reply.done /\ CutsWhole /\ \A m \in 1..Len(data) : data[m] = <<src, now, m>>
             \/ ~reply.done /\ "error" \in Answers /\ \A m \in 1..Len(data) : data[m] = Junk
             \/ ~reply.done /\ data = <<>>
<1> DEFINE src  == rec[id].source
           now  == version[src]
           off  == seg.begin + seg.credit
           from == seg.begin + seg.credit + 1
           to   == seg.begin + seg.size
           Is(data, done, again) == reply = [data |-> data, done |-> done, again |-> again]
<1>1. /\ Total \in Nat \ {0} /\ off \in Nat /\ from = off + 1 /\ to \in Nat /\ from <= to
      /\ seg.credit + (to - off) = seg.size
  BY RuntimeAssumption
<1>2. \/ Is(Slice(src, now, from, to), TRUE, FALSE) /\ etag[id] = now
      \/ etag[id] = now /\ \E k \in (from - 1)..(to - 1), again \in BOOLEAN : Is(Slice(src, now, from, k), FALSE, again)
      \/ etag[id] = now /\ "short" \in Answers /\ \E k \in from..(to - 1) : Is(Slice(src, now, from, k), TRUE, FALSE)
      \/ Is(Whole(src, now), FALSE, FALSE)
      \/ CutsWhole /\ \E k \in 0..(Total - 1), again \in BOOLEAN : Is(Slice(src, now, 1, k), FALSE, again)
      \/ "error" \in Answers /\ \E k \in 0..Total, again \in BOOLEAN : Is([i \in 1..k |-> Junk], FALSE, again)
      \/ \E again \in BOOLEAN : Is(<<>>, FALSE, again)
      \/ etag[id] = now /\ \E k \in (from - 1)..(to - 1) : Is(Slice(src, now, from, k), FALSE, FALSE)
  <2>1. \/ Is(Slice(src, now, from, to), TRUE, FALSE) /\ etag[id] = now
        \/ etag[id] = now /\ \E k \in (from - 1)..(to - 1), again \in BOOLEAN : Is(Slice(src, now, from, k), FALSE, again)
        \/ etag[id] = now /\ "short" \in Answers /\ \E k \in from..(to - 1) : Is(Slice(src, now, from, k), TRUE, FALSE)
        \/ Is(Whole(src, now), FALSE, FALSE)
        \/ "wholecut" \in Answers /\ \E k \in 1..(Total - 1), again \in BOOLEAN : Is(Slice(src, now, 1, k), FALSE, again)
        \/ "write" \in Faults /\ Answers \cap {"whole", "wholecut"} # {} /\ \E k \in 0..(Total - 1) : Is(Slice(src, now, 1, k), FALSE, FALSE)
        \/ "error" \in Answers /\ \E k \in 0..Total, again \in BOOLEAN : Is([i \in 1..k |-> Junk], FALSE, again)
        \/ \E again \in BOOLEAN : Is(<<>>, FALSE, again)
        \/ etag[id] = now /\ \E k \in (from - 1)..(to - 1) : Is(Slice(src, now, from, k), FALSE, FALSE)
    BY DEF Replies
  <2>2. /\ "wholecut" \in Answers => CutsWhole
        /\ "write" \in Faults /\ Answers \cap {"whole", "wholecut"} # {} => CutsWhole
    BY DEF CutsWhole
  <2>3. \A k \in 1..(Total - 1) : k \in 0..(Total - 1)
    BY <1>1
  <2> HIDE DEF Is, src, now, from, to, off
  <2> QED BY <2>1, <2>2, <2>3
<1> HIDE DEF src, now, from, to, off
<1>3. ASSUME NEW data, NEW done, NEW again, Is(data, done, again) PROVE reply.data = data /\ reply.done = done
  BY <1>3
<1> HIDE DEF Is
<1>4. ASSUME NEW k \in (from - 1)..to
      PROVE  /\ Len(Slice(src, now, from, k)) = k - off
             /\ \A m \in 1..Len(Slice(src, now, from, k)) : Slice(src, now, from, k)[m] = <<src, now, off + m>>
  <2>1. k + 1 - from \in Nat /\ k + 1 - from = k - off
    BY <1>1
  <2>2. Slice(src, now, from, k) = [m \in 1..(k + 1 - from) |-> <<src, now, from + m - 1>>]
    BY DEF Slice
  <2>3. \A m \in 1..(k - off) : from + m - 1 = off + m
    BY <1>1
  <2> QED BY <2>1, <2>2, <2>3
<1>5. ASSUME NEW k \in 0..Total
      PROVE  /\ Len(Slice(src, now, 1, k)) = k
             /\ \A m \in 1..Len(Slice(src, now, 1, k)) : Slice(src, now, 1, k)[m] = <<src, now, m>>
  <2>1. k + 1 - 1 = k /\ \A m \in 1..k : 1 + m - 1 = m
    OBVIOUS
  <2>2. Slice(src, now, 1, k) = [m \in 1..(k + 1 - 1) |-> <<src, now, 1 + m - 1>>]
    BY DEF Slice
  <2> QED BY <2>1, <2>2
<1> DEFINE Served == /\ etag[id] = now
                     /\ \A m \in 1..Len(reply.data) : reply.data[m] = <<src, now, off + m>>
                     /\ reply.done /\ "short" \notin Answers => seg.credit + Len(reply.data) = seg.size
<1>6. CASE etag[id] = now /\ \E k \in (from - 1)..to, done \in BOOLEAN, again \in BOOLEAN :
                               Is(Slice(src, now, from, k), done, again) /\ (done => k = to \/ "short" \in Answers)
  <2>1. PICK k \in (from - 1)..to, done \in BOOLEAN, again \in BOOLEAN :
          Is(Slice(src, now, from, k), done, again) /\ (done => k = to \/ "short" \in Answers)
    BY <1>6
  <2>2. reply.data = Slice(src, now, from, k) /\ reply.done = done
    BY <1>3, <2>1
  <2>3. /\ \A m \in 1..Len(reply.data) : reply.data[m] = <<src, now, off + m>>
        /\ Len(reply.data) = k - off
    BY <1>4, <2>2
  <2>4. reply.done /\ "short" \notin Answers => seg.credit + Len(reply.data) = seg.size
    BY <1>1, <2>1, <2>2, <2>3
  <2>5. Served
    BY <1>6, <2>3, <2>4
  <2> QED BY <2>5 DEF src, now, off
<1> HIDE DEF Served
<1>7. CASE Is(Whole(src, now), FALSE, FALSE)
  <2>1. reply.data = Whole(src, now) /\ ~reply.done
    BY <1>3, <1>7
  <2>2. Len(reply.data) = Total
    BY <1>1, <1>5, <2>1 DEF Whole
  <2> QED BY <2>1, <2>2 DEF src, now
<1>8. CASE CutsWhole /\ \E k \in 0..(Total - 1), again \in BOOLEAN : Is(Slice(src, now, 1, k), FALSE, again)
  <2>1. PICK k \in 0..(Total - 1), again \in BOOLEAN : Is(Slice(src, now, 1, k), FALSE, again)
    BY <1>8
  <2>2. reply.data = Slice(src, now, 1, k) /\ ~reply.done /\ k \in 0..Total
    <3>1. reply.data = Slice(src, now, 1, k) /\ reply.done = FALSE
      BY <1>3, <2>1, Zenon
    <3> QED BY <1>1, <3>1
  <2>3. \A m \in 1..Len(reply.data) : reply.data[m] = <<src, now, m>>
    BY <1>5, <2>2
  <2> QED BY <1>8, <2>2, <2>3 DEF src, now
<1>9. CASE "error" \in Answers /\ \E k \in 0..Total, again \in BOOLEAN : Is([i \in 1..k |-> Junk], FALSE, again)
  <2>1. PICK k \in 0..Total, again \in BOOLEAN : Is([i \in 1..k |-> Junk], FALSE, again)
    BY <1>9
  <2>2. reply.data = [i \in 1..k |-> Junk] /\ ~reply.done /\ k \in Nat
    <3>1. reply.data = [i \in 1..k |-> Junk] /\ reply.done = FALSE
      BY <1>3, <2>1, Zenon
    <3> QED BY <1>1, <3>1
  <2>3. \A m \in 1..Len(reply.data) : reply.data[m] = Junk
    BY <2>2
  <2> QED BY <1>9, <2>2, <2>3
<1>10. CASE \E again \in BOOLEAN : Is(<<>>, FALSE, again)
  <2>1. reply.data = <<>> /\ ~reply.done
    BY <1>3, <1>10
  <2> QED BY <2>1
<1>11. /\ to \in (from - 1)..to
       /\ \A k \in (from - 1)..(to - 1) : k \in (from - 1)..to
       /\ \A k \in from..(to - 1) : k \in (from - 1)..to
  BY <1>1
<1> QED BY <1>2, <1>6, <1>7, <1>8, <1>9, <1>10, <1>11

\* Any byte that was written, at any place.
Written == [k \in Nat |-> Bytes \ {Hole}]

Supported(p, y) == Backed(p, y, Written) \/ Stale(p, y)

HonestOK ==
  \A id \in Ids : /\ ckpt[id] # None => Supported(ckpt[id].plan, Held(id))
                  /\ id \in active => Supported(plan[id], Staged(id))

\* Where the credits of a plan lie.
LEMMA CreditsWithin ==
  ASSUME NEW p \in AllPlans, NEW i \in 1..Len(p), NEW k \in (p[i].begin + 1)..(p[i].begin + p[i].credit)
  PROVE  k \in 1..Total
<1>1. p[i] \in Sched!Segment /\ Sched!WellFormed(p[i]) /\ p[i].begin + p[i].size <= Total
  BY PlanFacts
<1>2. /\ p[i].begin \in Nat /\ p[i].credit \in Nat /\ p[i].size \in Nat /\ p[i].credit <= p[i].size
      /\ Total \in Nat
  BY <1>1, RuntimeAssumption DEF Sched!Segment, Sched!WellFormed
<1> QED BY <1>1, <1>2

\* The steps that request no byte leave a plan its support.
LEMMA StagedSupport ==
  ASSUME RInv, RInv', RecordsOK, "prepare" \notin Faults, [Next]_vars, ~Crash, NEW id \in Ids, rec[id] # None,
         ~Restart(id), ~\E d \in BOOLEAN : Cancel(id, d), ~Transfer(id),
         NEW p \in AllPlans, Supported(p, Staged(id)), CommitRename /\ job.id = id => Full(p)
  PROVE  Supported(p, Staged(id)')
<1>1. CASE Staged(id)' = Staged(id)
  BY <1>1
<1>2. CASE Staged(id) = None /\ Staged(id)' = <<>>
  BY <1>2, OpenedKeepsBytes DEF Supported
<1>3. CASE Staged(id)' = [k \in 1..Total |-> Junk]
  <2> DEFINE y == [k \in 1..Total |-> Junk]
  <2>1. Junk # Hole /\ Junk \in Bytes /\ Total \in Nat
    BY RuntimeAssumption DEF Hole, Junk, Bytes
  <2>2. y # None /\ Len(y) = Total /\ \A k \in 1..Total : y[k] = Junk
    BY <2>1, FilesAreSequences
  <2> HIDE DEF y
  <2>3. Backed(p, y, Written)
    BY <2>1, <2>2, CreditsWithin DEF Backed, Written
  <2> QED BY <1>3, <2>3 DEF Supported, y
<1>4. CASE CommitRename /\ job.id = id /\ Staged(id)' = None
  BY <1>4 DEF Supported, Stale
<1> QED BY <1>1, <1>2, <1>3, <1>4, StagedMoves

\* What a transfer works on.
LEMMA TransferParts ==
  ASSUME RInv, NEW id \in Ids, Transfer(id)
  PROVE  LET i   == Sched!NextSegment(plan[id])
             seg == plan[id][i]
             src == rec[id].source
         IN  /\ plan[id] \in AllPlans /\ i \in 1..Len(plan[id])
             /\ src \in Sources /\ version[src] \in 0..MaxVersion /\ etag[id] \in 0..MaxVersion
             /\ seg.begin \in Nat /\ seg.credit \in Nat /\ seg.size \in Nat
             /\ seg.credit < seg.size /\ seg.begin + seg.size <= Total
             /\ Staged(id) \in {None} \cup Seq(Bytes)
             /\ \A reply : Moved(id, reply) => reply.data \in Seq(Bytes) /\ reply.done \in BOOLEAN /\ reply.again \in BOOLEAN
<1> DEFINE i   == Sched!NextSegment(plan[id])
           seg == plan[id][i]
           src == rec[id].source
<1>1. id \in turn /\ Sched!Unfinished(plan[id]) # {} /\ rec[id] # None
  BY TransferMoves DEF Transfer
<1>2. /\ plan[id] \in AllPlans /\ i \in 1..Len(plan[id]) /\ rec[id] \in Records
      /\ \A reply \in Replies(id, seg) : reply.data \in Seq(Bytes) /\ reply.done \in BOOLEAN /\ reply.again \in BOOLEAN
  BY <1>1, TransferFacts
<1>3. \A reply : Moved(id, reply) => reply \in Replies(id, seg)
  BY DEF Moved
<1>4. src \in Sources /\ version[src] \in 0..MaxVersion /\ etag[id] \in 0..MaxVersion
      /\ Staged(id) \in {None} \cup Seq(Bytes)
  BY <1>2, TypeParts DEF RInv, DiskTyped, RestTyped, Records, Staging, Staged
<1>5. ~seg.finished
  BY <1>1, <1>2, PlanFacts, NextIsUnfinished DEF Sched!Unfinished
<1>6. seg \in Sched!Segment /\ Sched!WellFormed(seg) /\ seg.begin + seg.size <= Total
  BY <1>2, PlanFacts
<1> HIDE DEF seg, i, src
<1>7. seg.begin \in Nat /\ seg.credit \in Nat /\ seg.size \in Nat /\ seg.credit < seg.size
  BY <1>5, <1>6 DEF Sched!Segment, Sched!WellFormed
<1> QED BY <1>2, <1>3, <1>4, <1>6, <1>7 DEF seg, i, src

\* A plan with something left to request is not stale.
LEMMA UnfinishedNotStale ==
  ASSUME NEW p \in AllPlans, Sched!Unfinished(p) # {}
  PROVE  ~Full(p)
BY PlanFacts DEF Full, Sched!Unfinished, Sched!WellFormed

\* A request credits only what it has written, unless an incomplete answer is
\* taken for a complete one.
LEMMA TransferSupport ==
  ASSUME "short" \notin Answers, RInv, NEW id \in Ids, Transfer(id), Staged(id) # None,
         Supported(plan[id], Staged(id))
  PROVE  Supported(plan'[id], Staged(id)') /\ Supported(plan[id], Staged(id)')
<1> DEFINE p    == plan[id]
           i    == Sched!NextSegment(p)
           seg  == p[i]
           y    == Staged(id)
           src  == rec[id].source
           now  == version[src]
           off  == seg.begin + seg.credit
<1>1. PICK reply : Moved(id, reply)
  BY TransferMoves
<1> DEFINE data == reply.data
<1>2. /\ p \in AllPlans /\ i \in 1..Len(p)
      /\ src \in Sources /\ now \in 0..MaxVersion
      /\ seg.begin \in Nat /\ seg.credit \in Nat /\ seg.size \in Nat
      /\ seg.credit < seg.size /\ seg.begin + seg.size <= Total
      /\ data \in Seq(Bytes) /\ reply.done \in BOOLEAN /\ reply.again \in BOOLEAN
      /\ y \in {None} \cup Seq(Bytes)
  BY <1>1, TransferParts
<1>3. /\ reply \in Replies(id, seg)
      /\ plan'[id] = [p EXCEPT ![i] = Sched!Advanced(seg, Len(data), reply.done, reply.again)]
      /\ Staged(id)' = WriteAt(y, off, data)
  BY <1>1 DEF Moved
<1>4. Sched!Unfinished(p) # {}
  BY TransferMoves
<1> HIDE DEF p, i, seg, y
<1>5. /\ reply.done => seg.credit + Len(data) >= seg.size
      /\ \A m \in 1..Len(data) : data[m] # Hole
  <2> HIDE DEF src, now
  <2>1. \/ /\ \A m \in 1..Len(data) : data[m] = <<src, now, off + m>>
           /\ reply.done => seg.credit + Len(data) = seg.size
        \/ ~reply.done /\ data = Whole(src, now)
        \/ ~reply.done /\ \A m \in 1..Len(data) : data[m] = <<src, now, m>>
        \/ ~reply.done /\ \A m \in 1..Len(data) : data[m] = Junk
        \/ ~reply.done /\ data = <<>>
    BY <1>2, <1>3, ReplyKinds DEF src, now
  <2>2. Len(data) \in Nat
    BY <1>2, LenProperties
  <2>3. /\ \A v, m : <<src, v, m>> # Hole
        /\ Junk # Hole
    BY DEF Hole, Junk
  <2>4. \A m \in 1..Len(Whole(src, now)) : Whole(src, now)[m] # Hole
    <3>1. Total \in Nat /\ Total + 1 - 1 = Total
      BY RuntimeAssumption
    <3>2. Whole(src, now) = [k \in 1..Total |-> <<src, now, 1 + k - 1>>]
      BY <3>1 DEF Whole, Slice
    <3> QED BY <2>3, <3>1, <3>2
  <2>5. reply.done => seg.credit + Len(data) >= seg.size
    BY <1>2, <2>1, <2>2
  <2>6. ASSUME NEW m \in 1..Len(data) PROVE data[m] # Hole
    <3> HIDE DEF data
    <3>1. \/ data[m] = <<src, now, off + m>> \/ data = Whole(src, now)
          \/ data[m] = <<src, now, m>> \/ data[m] = Junk \/ data = <<>>
      BY <2>1, <2>6
    <3>2. data # <<>>
      BY <2>6
    <3> QED BY <2>3, <2>4, <2>6, <3>1, <3>2
  <2> QED BY <2>5, <2>6
<1>6. ~Stale(p, y)
  BY <1>2, <1>4, UnfinishedNotStale DEF Stale
<1>7. Backed(p, y, Written)
  BY <1>6 DEF Supported, p, y
<1>8. \A m \in 1..Len(data) : data[m] \in Written[seg.begin + seg.credit + m]
  <2> SUFFICES ASSUME NEW m \in 1..Len(data) PROVE data[m] \in Written[seg.begin + seg.credit + m]
    OBVIOUS
  <2>1. seg.begin + seg.credit + m \in Nat /\ data[m] \in Bytes
    BY <1>2, ElementOfSeq
  <2> QED BY <1>5, <2>1 DEF Written
<1>9. y \in Seq(Bytes)
  BY <1>2 DEF y
<1>10. /\ Backed([p EXCEPT ![i] = Sched!Advanced(seg, Len(data), reply.done, reply.again)],
                  WriteAt(y, off, data), Written)
       /\ Backed(p, WriteAt(y, off, data), Written)
  <2> HIDE DEF data
  <2> QED BY <1>2, <1>5, <1>7, <1>8, <1>9, TransferIsBacked DEF seg
<1> QED BY <1>3, <1>10 DEF Supported, p

\* A download that is active or has a checkpoint, and what a step leaves alone.
LEMMA ActiveFacts ==
  ASSUME RInv, RInv', NEW id \in Ids
  PROVE  /\ id \in active => rec[id] # None /\ plan[id] \in AllPlans
         /\ id \in active' => /\ rec'[id] # None /\ ~Crash /\ ~Restart(id)
                              /\ ~\E d \in BOOLEAN : Cancel(id, d)
<1>1. SchedulerOK /\ SchedulerOK' /\ Known /\ Known'
  BY DEF RInv
<1>2. id \in active => rec[id] # None /\ plan[id] \in AllPlans
  BY <1>1, SchedulerIds DEF SchedulerOK, Known, Sched!Contains
<1>3. id \in active' => rec'[id] # None
  BY <1>1 DEF Known, Sched!Contains
<1>4. Restart(id) \/ (\E d \in BOOLEAN : Cancel(id, d)) \/ Crash => id \notin active'
  BY DEF Restart, Cancel, Crash, Sched!Cancel, Sched!CancelAndQueue, Sched!Removed, Sched!Rebuild
<1> QED BY <1>2, <1>3, <1>4

\* The requests of a pump go to downloads that have a staged file.
LEMMA TransferHasFile ==
  ASSUME RInv, StagedOK, NEW id \in Ids, Transfer(id)
  PROVE  Staged(id) # None
<1>1. id \in active /\ job.step = "none" /\ stage = "transfer"
  BY TransferMoves DEF Transfer
<1> QED BY <1>1 DEF StagedOK, InUse, Leaves, Gone, Sched!Contains

\* The plan a transfer starts with.
LEMMA StartsWith ==
  ASSUME RInv, RInv', NEW id \in Ids, AdmitStart, id = Head(pending)
  PROVE  /\ UNCHANGED <<rec, boot, diskVars, version>> /\ etag'[id] = version[rec[id].source] /\ rec[id] # None
         /\ \/ \E ranges \in BOOLEAN : plan'[id] = Fresh(ranges)
            \/ /\ ckpt[id] # None /\ plan'[id] = ckpt[id].plan
               /\ ckpt[id].source = rec[id].source /\ ckpt[id].etag = version[rec[id].source]
<1> DEFINE src == rec[id].source
           tag == version[src]
<1>1. PICK ranges \in RangeSupport :
        Sched!AdmitStart(IF ckpt[id] = None THEN Fresh(ranges)
                         ELSE ApplyCheckpoint(Fresh(ranges), src, tag, ckpt[id]))
  BY DEF AdmitStart
<1>2. ranges \in BOOLEAN
  BY RuntimeAssumption
<1>3. plan \in [Ids -> Seq(Sched!Segment)] /\ etag \in [Ids -> 0..MaxVersion] /\ ckpt \in SavedCheckpoints
  BY TypeParts, SchedulerIds DEF RInv, RestTyped, DiskTyped
<1>4. plan'[id] = IF ckpt[id] = None THEN Fresh(ranges) ELSE ApplyCheckpoint(Fresh(ranges), src, tag, ckpt[id])
  BY <1>1, <1>3 DEF Sched!AdmitStart
<1>5. etag'[id] = tag /\ UNCHANGED <<rec, boot, diskVars, version>>
  BY <1>3 DEF AdmitStart, PumpFrame, worldVars
<1>6. pending # <<>> /\ rec[id] # None
  BY SchedulerIds DEF AdmitStart, RInv, Known
<1> HIDE DEF src, tag
<1>7. ckpt[id] # None => ckpt[id] \in Checkpoints
  BY <1>3 DEF SavedCheckpoints
<1> QED BY <1>2, <1>4, <1>5, <1>6, <1>7, AppliedIsSaved DEF src, tag

LEMMA StepKeepsHonest ==
  ASSUME {"save", "erase", "prepare"} \cap Faults = {}, "short" \notin Answers,
         StagingOK, KeptOK', HonestOK, [Next]_vars
  PROVE  HonestOK'
<1>0. /\ RInv /\ RInv' /\ RecordsOK /\ KeptOK /\ VerifiedOK /\ StagedOK /\ FollowsOK
      /\ {"save", "erase"} \cap Faults = {} /\ "prepare" \notin Faults
      /\ part \in Staging /\ ckpt \in SavedCheckpoints
  BY TypeParts DEF StagingOK, KeptOK, RestartOK, RInv, DiskTyped
<1>1. ASSUME NEW id \in Ids, Transfer(id)
      PROVE  Supported(plan'[id], Staged(id)') /\ Supported(plan[id], Staged(id)')
  BY <1>0, <1>1, TransferMoves, TransferHasFile, TransferSupport DEF HonestOK
<1>2. ASSUME NEW id \in Ids, CommitRename, job.id = id PROVE id \in active /\ Full(plan[id])
  BY <1>0, <1>2, VerifiedIsFull DEF CommitRename, JobAt, VerifySteps
<1>3. ASSUME NEW id \in Ids, ckpt'[id] # None, ckpt'[id] = ckpt[id] PROVE Supported(ckpt[id].plan, Held(id)')
  <2>1. Supported(ckpt[id].plan, Held(id)) /\ ckpt[id].plan \in AllPlans
    BY <1>0, <1>3 DEF HonestOK, SavedCheckpoints, Checkpoints
  <2>2. /\ FileOf(id)' = FileOf(id) /\ FileOf(id) \in Files
        /\ Held(id) = part[id][FileOf(id)] /\ Held(id)' = part'[id][FileOf(id)]
    BY <1>0, <1>3, OwnerKept, OwnerOfCheckpoint DEF Held
  <2>3. CASE Crash
    BY <2>1, <2>2, <2>3 DEF Crash, diskVars
  <2>4. ~Restart(id) /\ ~\E d \in BOOLEAN : Cancel(id, d)
    <3>1. ASSUME Restart(id) \/ \E d \in BOOLEAN : Cancel(id, d) PROVE ckpt'[id] = None
      BY <1>0, <3>1 DEF Restart, Cancel, EraseCheckpoint, SavedCheckpoints
    <3> QED BY <1>3, <3>1
  <2>5. CASE running /\ ~Crash
    <3>1. rec[id] # None /\ rec'[id] # None
      BY <1>0, <1>3, <2>5, OwnerOfCheckpoint, RecordsKept
    <3>2. Held(id) = Staged(id) /\ Held(id)' = Staged(id)'
      BY <3>1 DEF Held, FileOf, Staged
    <3>3. CASE Transfer(id)
      <4>1. ckpt[id].plan = plan[id]
        <5>1. id \in active /\ job.step = "none" /\ ckpt[id] # None
          BY <1>0, <1>3, <3>3, TransferMoves
        <5>2. ckpt[id] = MakeCheckpoint(rec[id].source, etag[id], plan[id])
          BY <1>0, <5>1 DEF FollowsOK
        <5> QED BY <5>2 DEF MakeCheckpoint
      <4> QED BY <1>1, <3>2, <3>3, <4>1
    <3>4. CASE ~Transfer(id)
      <4>1. CommitRename /\ job.id = id => Full(ckpt[id].plan)
        <5>1. ASSUME CommitRename, job.id = id PROVE ckpt[id].plan = plan[id]
          <6>1. id \in active /\ job.step = "rename" /\ ckpt[id] # None
            BY <1>2, <1>3, <5>1 DEF CommitRename, JobAt
          <6>2. ckpt[id] = MakeCheckpoint(rec[id].source, etag[id], plan[id])
            BY <1>0, <6>1 DEF FollowsOK
          <6> QED BY <6>2 DEF MakeCheckpoint
        <5> QED BY <1>2, <5>1
      <4> QED BY <1>0, <2>1, <2>4, <2>5, <3>1, <3>2, <3>4, <4>1, StagedSupport
    <3> QED BY <3>3, <3>4
  <2>6. CASE ~running /\ ~Crash
    <3>1. Held(id)' = Held(id) \/ (Held(id) = None /\ Held(id)' = <<>>)
      BY <1>0, <2>2, <2>4, <2>6, PartMoves DEF Transfer, Free, Tamper, CommitRename, JobAt
    <3> QED BY <2>1, <3>1, OpenedKeepsBytes DEF Supported
  <2> QED BY <2>3, <2>5, <2>6
<1>4. ASSUME NEW id \in Ids, ckpt'[id] # None PROVE Supported(ckpt'[id].plan, Held(id)')
  <2>1. CASE Report /\ job.id = id
    <3>1. ckpt'[id] = MakeCheckpoint(rec[id].source, etag[id], plan[id])
      BY <1>0, <2>1 DEF Report, SaveCheckpoint, SavedCheckpoints
    <3>2. id \in active /\ rec[id] # None
      BY <1>0, <2>1, ActiveFacts DEF Report, JobAt, RecordsOK, JobPlace
    <3>3. Held(id)' = Staged(id)
      BY <2>1, <3>2 DEF Report, Held, FileOf, Staged
    <3> QED BY <3>1, <3>2, <3>3 DEF HonestOK, MakeCheckpoint
  <2>2. CASE ~(Report /\ job.id = id)
    <3>1. ckpt'[id] = ckpt[id]
      BY <1>0, <1>4, <2>2, CheckpointMoves DEF SavedCheckpoints
    <3> QED BY <1>3, <1>4, <3>1
  <2> QED BY <2>1, <2>2
<1>5. ASSUME NEW id \in Ids, id \in active' PROVE Supported(plan'[id], Staged(id)')
  <2>1. CASE AdmitStart /\ id = Head(pending)
    <3>1. /\ rec' = rec /\ part' = part /\ rec[id] # None
          /\ (\E ranges \in BOOLEAN : plan'[id] = Fresh(ranges)) \/ (ckpt[id] # None /\ plan'[id] = ckpt[id].plan)
      BY <1>0, <2>1, StartsWith DEF diskVars
    <3>2. Held(id) = Staged(id) /\ Staged(id)' = Staged(id)
      BY <3>1 DEF Held, FileOf, Staged
    <3> QED BY <3>1, <3>2, FreshIsBacked DEF HonestOK, Supported
  <2>2. CASE Transfer(id)
    BY <1>1, <2>2
  <2>3. CASE id \in active /\ plan'[id] = plan[id] /\ ~Transfer(id)
    <3>1. /\ rec[id] # None /\ plan[id] \in AllPlans /\ ~Crash /\ ~Restart(id)
          /\ ~\E d \in BOOLEAN : Cancel(id, d)
      BY <1>0, <1>5, <2>3, ActiveFacts
    <3> QED BY <1>0, <1>2, <2>3, <3>1, StagedSupport DEF HonestOK
  <2> QED BY <1>0, <1>5, <2>1, <2>2, <2>3, PlanMoves
<1> QED BY <1>4, <1>5 DEF HonestOK

\* A checkpoint credits no byte that the staged file does not hold, wherever the
\* process dies between the writes of a segment, while saves, erasures and the
\* opening of staged files succeed, no download is private, and the client never
\* takes an incomplete answer for a complete one.
THEOREM CheckpointsAreHonest ==
  ASSUME {"save", "erase", "prepare"} \cap Faults = {}, "short" \notin Answers, \A r \in Requests : ~r.private
  PROVE  Spec => []CheckpointHonest
<1>1. Init => HonestOK
  BY DEF Init, Sched!Init, HonestOK
<1>2. StagingOK /\ KeptOK' /\ HonestOK /\ [Next]_vars => HonestOK'
  BY StepKeepsHonest
<1>3. StagingOK => KeptOK
  BY DEF StagingOK
<1>4. StagingOK /\ HonestOK => CheckpointHonest
  <2> SUFFICES ASSUME StagingOK, HonestOK, NEW id \in Ids, ckpt[id] # None, rec[id] # None
               PROVE  \/ \A k \in Credited(ckpt[id].plan) :
                           Staged(id) # None /\ k <= Len(Staged(id)) /\ Staged(id)[k] # Hole
                      \/ /\ \A i \in 1..Len(ckpt[id].plan) : ckpt[id].plan[i].credit = ckpt[id].plan[i].size
                         /\ Staged(id) = <<>> \/ (Staged(id) = None /\ job.id = id)
    BY DEF CheckpointHonest
  <2>1. Held(id) = Staged(id) /\ ckpt[id].plan \in AllPlans
    BY TypeParts DEF Held, FileOf, Staged, StagingOK, KeptOK, RestartOK, RInv, DiskTyped, SavedCheckpoints, Checkpoints
  <2>2. CASE Backed(ckpt[id].plan, Staged(id), Written)
    <3> SUFFICES ASSUME NEW k \in Credited(ckpt[id].plan)
                 PROVE  Staged(id) # None /\ k <= Len(Staged(id)) /\ Staged(id)[k] # Hole
      OBVIOUS
    <3>1. PICK i \in 1..Len(ckpt[id].plan) :
            k \in (ckpt[id].plan[i].begin + 1)..(ckpt[id].plan[i].begin + ckpt[id].plan[i].credit)
      BY DEF Credited
    <3>2. k \in Nat
      BY <2>1, <3>1, CreditsWithin, RuntimeAssumption
    <3> QED BY <2>2, <3>1, <3>2 DEF Backed, Written
  <2>3. CASE Stale(ckpt[id].plan, Staged(id))
    BY <2>3 DEF Stale, Full, StagingOK, StagedOK, Gone
  <2> QED BY <2>1, <2>2, <2>3 DEF HonestOK, Supported
<1> QED BY <1>1, <1>2, <1>3, <1>4, StagingInvariant, PTL DEF Spec

----------------------------------------------------------------------------
(* A released file is one version of its resource. *)

\* The segments of a plan leave no byte of the resource out.
LEMMA PlanCovers ==
  ASSUME NEW p \in AllPlans, NEW k \in 1..Total
  PROVE  \E i \in 1..Len(p) : k \in (p[i].begin + 1)..(p[i].begin + p[i].size)
<1>1. PICK ranges \in BOOLEAN : CutAs(p, Fresh(ranges))
  BY PlanIsCut
<1> DEFINE f == Fresh(ranges)
<1>2. \A i \in 1..Len(f) : p[i].begin = f[i].begin /\ p[i].size = f[i].size
  BY <1>1 DEF CutAs, SameRanges
<1>3. \E i \in 1..Len(f) : k \in (f[i].begin + 1)..(f[i].begin + f[i].size)
  <2>1. Total \in Nat \ {0} /\ MaxSegments \in Nat
    BY RuntimeAssumption
  <2> QED BY <2>1, SegmentsCover DEF Fresh
<1>4. Len(p) = Len(f)
  BY <1>1 DEF CutAs, SameRanges
<1> HIDE DEF f
<1> QED BY <1>2, <1>3, <1>4

\* The right byte of a version of a resource, at every place.
Truth(s, v) == [k \in Nat |-> {<<s, v, k>>}]

OneVersion(s, y) == \E v \in 0..MaxVersion : y = Whole(s, v)

\* A whole version of a resource.
LEMMA WholeFacts ==
  ASSUME NEW s \in Sources, NEW v \in 0..MaxVersion
  PROVE  /\ Whole(s, v) = [k \in 1..Total |-> <<s, v, k>>]
         /\ Whole(s, v) \in Seq(Bytes) /\ Len(Whole(s, v)) = Total /\ Whole(s, v) # None
<1>1. Total \in Nat \ {0} /\ Total + 1 - 1 = Total /\ \A k \in 1..Total : 1 + k - 1 = k
  BY RuntimeAssumption
<1>2. Whole(s, v) = [k \in 1..(Total + 1 - 1) |-> <<s, v, 1 + k - 1>>]
  BY DEF Whole, Slice
<1>3. Whole(s, v) = [k \in 1..Total |-> <<s, v, k>>]
  BY <1>1, <1>2
<1>4. \A k \in 1..Total : <<s, v, k>> \in Bytes
  BY DEF Bytes
<1>5. Whole(s, v) \in Seq(Bytes) /\ Len(Whole(s, v)) = Total
  BY <1>1, <1>3, <1>4
<1> QED BY <1>3, <1>5, NoneAssumption

\* A file of the size of the resource whose bytes are all credited and right is
\* the resource.
LEMMA WholeWhenFull ==
  ASSUME NEW p \in AllPlans, Full(p), NEW y \in Seq(Bytes), Len(y) = Total,
         NEW s \in Sources, NEW v \in 0..MaxVersion, Backed(p, y, Truth(s, v))
  PROVE  y = Whole(s, v)
<1>1. Total \in Nat
  BY RuntimeAssumption
<1>2. ASSUME NEW k \in 1..Total PROVE y[k] = <<s, v, k>>
  <2>1. PICK i \in 1..Len(p) : k \in (p[i].begin + 1)..(p[i].begin + p[i].size)
    BY PlanCovers
  <2>2. k \in (p[i].begin + 1)..(p[i].begin + p[i].credit)
    BY <2>1 DEF Full
  <2>3. y[k] \in Truth(s, v)[k]
    BY <2>1, <2>2 DEF Backed
  <2> QED BY <1>1, <2>3 DEF Truth
<1>3. y = [k \in 1..Total |-> y[k]]
  OBVIOUS
<1> QED BY <1>2, <1>3, WholeFacts

\* A file that is longer than the resource will not pass the size check.
Long(y) == y # None /\ Len(y) > Total

\* What p credits in y is of version v of the resource s, if it counts at all.
Faithful(p, y, s, v) == Long(y) \/ Backed(p, y, Truth(s, v)) \/ Stale(p, y)

\* What a transfer knows of its staged file: its credits are of the version its
\* plan was made for, or the server has sent another version whole.
TransferFaithful(id) ==
  \/ Faithful(plan[id], Staged(id), rec[id].source, etag[id])
  \/ etag[id] # version[rec[id].source] /\ OneVersion(rec[id].source, Staged(id))

TruthOK ==
  /\ \A id \in active : etag[id] <= version[rec[id].source] /\ TransferFaithful(id)
  /\ \A id \in Ids : ckpt[id] # None =>
       /\ ckpt[id].etag <= version[ckpt[id].source]
       /\ ckpt[id].source = SourceOf(id) /\ ckpt[id].etag = version[SourceOf(id)] =>
            Faithful(ckpt[id].plan, Held(id), SourceOf(id), ckpt[id].etag)
  /\ job.step \in {"scan", "recheck", "remove", "rename"} => OneVersion(rec[job.id].source, job.digest)
  /\ ReleasedIsWhole

\* Time does not run backwards on a server, nor does a change on it touch the
\* process or the disk.
LEMMA VersionMoves ==
  ASSUME RInv, [Next]_vars
  PROVE  version' = version \/ \E s \in Sources : ServerChanges(s)
<1>1. CASE User
  BY <1>1 DEF User, Enqueue, EnqueueFails, Pause, Resume, Cancel, Restart, RestartFails, UserFrame, worldVars
<1>2. CASE Pump
  BY <1>2 DEF Pump, PumpBegin, AdmitSkip, AdmitReject, AdmitStart, AdmitEnd, Transfer,
     TransferNothing, SettleFailed, BeginVerify, TransferEnd, PumpEnd, Report, ReportRunning,
     CheckSize, Scan, Recheck, CommitRemove, CommitRename, Forget, Conclude, PumpFrame, worldVars
<1>3. CASE Boot \/ Crash \/ World \/ UNCHANGED vars
  BY <1>3 DEF Boot, BootDone, RestoreOne, RestoreFails, BootFrame, Crash, World, StartTimeReached, Tamper,
     PumpFrame, worldVars, vars
<1> QED BY <1>1, <1>2, <1>3 DEF Next

LEMMA VersionsGrow ==
  ASSUME RInv, [Next]_vars, NEW s \in Sources
  PROVE  version[s] \in 0..MaxVersion /\ version'[s] \in Nat /\ version[s] <= version'[s]
<1>1. version \in [Sources -> 0..MaxVersion] /\ MaxVersion \in Nat
  BY TypeParts, RuntimeAssumption DEF RInv, RestTyped
<1>2. ASSUME NEW t \in Sources, ServerChanges(t) PROVE version' = [version EXCEPT ![t] = @ + 1]
  BY <1>2 DEF ServerChanges
<1> QED BY <1>1, <1>2, VersionMoves

\* A write past the end of the resource makes the file too long; one over the
\* whole of it makes it that version.
LEMMA WholeOver ==
  ASSUME NEW y \in Seq(Bytes), NEW offset \in Nat, NEW s \in Sources, NEW v \in 0..MaxVersion
  PROVE  LET z == WriteAt(y, offset, Whole(s, v))
         IN  /\ offset > 0 => Long(z)
             /\ offset = 0 /\ Len(y) <= Total => z = Whole(s, v)
<1> DEFINE data == Whole(s, v)
           z    == WriteAt(y, offset, data)
<1>1. data \in Seq(Bytes) /\ Len(data) = Total /\ Total \in Nat \ {0} /\ Len(y) \in Nat
      /\ data = [k \in 1..Total |-> <<s, v, k>>]
  BY WholeFacts, RuntimeAssumption, LenProperties
<1> HIDE DEF data
<1>2. data # <<>>
  BY <1>1
<1>3. /\ z \in Seq(Bytes)
      /\ Len(z) = IF offset + Len(data) > Len(y) THEN offset + Len(data) ELSE Len(y)
      /\ \A k \in 1..Len(z) :
           z[k] = IF k > offset /\ k <= offset + Len(data) THEN data[k - offset]
                  ELSE IF k <= Len(y) THEN y[k] ELSE Hole
  <2>1. Overlaid(z, y, offset, data)
    BY <1>1, <1>2, WriteAtFacts, Zenon
  <2> HIDE DEF z
  <2> QED BY <2>1, Zenon DEF Overlaid
<1> HIDE DEF z
<1>4. ASSUME offset > 0 PROVE Long(z)
  BY <1>1, <1>3, <1>4, NoneAssumption DEF Long
<1>5. ASSUME offset = 0, Len(y) <= Total PROVE z = data
  <2>1. Len(z) = Total
    BY <1>1, <1>3, <1>5
  <2>2. ASSUME NEW k \in 1..Total PROVE z[k] = data[k]
    BY <1>1, <1>3, <1>5, <2>1
  <2>3. z = [k \in 1..Total |-> z[k]]
    BY <1>3, <2>1
  <2>4. data = [k \in 1..Total |-> data[k]]
    BY <1>1
  <2> QED BY <2>2, <2>3, <2>4
<1> QED BY <1>4, <1>5 DEF z, data

\* A file that is too long stays too long.
LEMMA LongStays ==
  ASSUME NEW y \in Seq(Bytes), Long(y), NEW offset \in Nat, NEW data \in Seq(Bytes)
  PROVE  Long(WriteAt(y, offset, data))
<1> DEFINE z == WriteAt(y, offset, data)
<1>1. CASE data = <<>>
  BY <1>1 DEF WriteAt
<1>2. CASE data # <<>>
  <2>1. z \in Seq(Bytes) /\ Len(z) = IF offset + Len(data) > Len(y) THEN offset + Len(data) ELSE Len(y)
    <3>1. Overlaid(z, y, offset, data)
      BY <1>2, WriteAtFacts, Zenon
    <3> HIDE DEF z
    <3> QED BY <3>1, Zenon DEF Overlaid
  <2>2. Len(y) \in Nat /\ Len(data) \in Nat /\ Total \in Nat /\ Len(y) > Total
    BY LenProperties, RuntimeAssumption DEF Long
  <2> HIDE DEF z
  <2>3. z # None /\ Len(z) > Total
    BY <2>1, <2>2, NoneAssumption
  <2> QED BY <2>3 DEF Long, z
<1> QED BY <1>1, <1>2

\* The steps that request no byte leave the truth of a staged file alone.
LEMMA FaithfulStays ==
  ASSUME {"prepare", "tamper"} \cap Faults = {}, RInv, RInv', RecordsOK, [Next]_vars, ~Crash,
         NEW id \in Ids, rec[id] # None, ~Restart(id), ~\E d \in BOOLEAN : Cancel(id, d), ~Transfer(id),
         NEW p, NEW s, NEW v, Faithful(p, Staged(id), s, v), CommitRename /\ job.id = id => Full(p)
  PROVE  Faithful(p, Staged(id)', s, v)
<1>1. CASE Staged(id)' = Staged(id)
  BY <1>1
<1>2. CASE Staged(id) = None /\ Staged(id)' = <<>>
  <2>1. ~Long(Staged(id))
    BY <1>2 DEF Long
  <2> QED BY <1>2, <2>1, OpenedKeepsBytes DEF Faithful
<1>3. ~Tamper
  BY DEF Tamper
<1>4. CASE CommitRename /\ job.id = id /\ Staged(id)' = None
  BY <1>4 DEF Faithful, Stale
<1> QED BY <1>1, <1>2, <1>3, <1>4, StagedMoves

\* A request keeps the credits of a transfer true: a range is served only while
\* the version is the plan's, and the whole of another version either replaces
\* the file or makes it too long.
LEMMA TransferTruth ==
  ASSUME Answers \cap {"short", "error"} = {}, ~CutsWhole, RInv, NEW id \in Ids, Transfer(id),
         Staged(id) # None, TransferFaithful(id)
  PROVE  /\ TransferFaithful(id)'
         /\ etag[id] = version[rec[id].source] =>
              Faithful(plan[id], Staged(id)', rec[id].source, etag[id])
<1> DEFINE p    == plan[id]
           i    == Sched!NextSegment(p)
           seg  == p[i]
           y    == Staged(id)
           z    == Staged(id)'
           q    == plan'[id]
           src  == rec[id].source
           now  == version[src]
           v    == etag[id]
           off  == seg.begin + seg.credit
<1>1. PICK reply : Moved(id, reply)
  BY TransferMoves
<1> DEFINE data == reply.data
<1>2. /\ p \in AllPlans /\ i \in 1..Len(p)
      /\ src \in Sources /\ now \in 0..MaxVersion /\ v \in 0..MaxVersion
      /\ seg.begin \in Nat /\ seg.credit \in Nat /\ seg.size \in Nat
      /\ seg.credit < seg.size /\ seg.begin + seg.size <= Total
      /\ data \in Seq(Bytes) /\ reply.done \in BOOLEAN /\ reply.again \in BOOLEAN
      /\ y \in {None} \cup Seq(Bytes)
  BY <1>1, TransferParts
<1>3. /\ reply \in Replies(id, seg)
      /\ q = [p EXCEPT ![i] = Sched!Advanced(seg, Len(data), reply.done, reply.again)]
      /\ z = WriteAt(y, off, data)
  BY <1>1 DEF Moved
<1>4. Sched!Unfinished(p) # {} /\ rec' = rec /\ etag' = etag /\ version' = version
  BY TransferMoves
<1>5. TransferFaithful(id)' <=> Faithful(q, z, src, v) \/ (v # now /\ OneVersion(src, z))
  BY <1>4 DEF TransferFaithful, Faithful, OneVersion, Backed, Stale, Full, Long, Truth
<1>6. Faithful(p, y, src, v) \/ (v # now /\ OneVersion(src, y))
  BY DEF TransferFaithful
<1>7. ~Stale(p, y)
  BY <1>2, <1>4, UnfinishedNotStale DEF Stale
<1>8. \/ v = now /\ (\A m \in 1..Len(data) : data[m] = <<src, now, off + m>>)
         /\ (reply.done => seg.credit + Len(data) = seg.size)
      \/ ~reply.done /\ data = Whole(src, now) /\ Len(data) = Total
      \/ ~reply.done /\ data = <<>>
  BY <1>2, <1>3, ReplyKinds
<1> SUFFICES (Faithful(q, z, src, v) \/ (v # now /\ OneVersion(src, z))) /\ (v = now => Faithful(p, z, src, v))
  BY <1>5
<1> HIDE DEF p, i, seg, y, z, q, src, now, v, data
<1>9. y \in Seq(Bytes) /\ off \in Nat /\ Len(data) \in Nat /\ Len(y) \in Nat /\ Total \in Nat
  <2>1. y \in Seq(Bytes) /\ off \in Nat /\ data \in Seq(Bytes)
    <3>1. y # None
      BY DEF y
    <3>2. seg.begin + seg.credit \in Nat
      BY <1>2
    <3> QED BY <1>2, <3>1, <3>2
  <2>2. Len(y) \in Nat /\ Len(data) \in Nat
    BY <2>1, LenProperties, Zenon
  <2> QED BY <2>1, <2>2, RuntimeAssumption
<1>10. CASE Long(y)
  BY <1>2, <1>3, <1>9, <1>10, LongStays DEF Faithful
<1>11. ASSUME Backed(p, y, Truth(src, v)), reply.done => seg.credit + Len(data) = seg.size,
              \A m \in 1..Len(data) : data[m] = <<src, v, off + m>>
       PROVE  Backed(q, z, Truth(src, v)) /\ Backed(p, z, Truth(src, v))
  <2>1. ASSUME NEW m \in 1..Len(data) PROVE data[m] \in Truth(src, v)[seg.begin + seg.credit + m]
    <3>1. off + m \in Nat
      BY <1>9
    <3> QED BY <1>11, <3>1 DEF Truth
  <2>2. reply.done => seg.credit + Len(data) >= seg.size
    BY <1>2, <1>11
  <2> QED BY <1>2, <1>3, <1>9, <1>11, <2>1, <2>2, TransferIsBacked DEF seg
<1>12. CASE data = Whole(src, now) /\ ~reply.done /\ v # now /\ ~Long(y)
  <2>1. Len(y) <= Total
    BY <1>9, <1>12, NoneAssumption DEF Long
  <2>2. Long(z) \/ z = Whole(src, now)
    BY <1>2, <1>3, <1>9, <1>12, <2>1, WholeOver
  <2> QED BY <1>2, <1>12, <2>2 DEF Faithful, OneVersion
<1>13. CASE Backed(p, y, Truth(src, v)) /\ data = Whole(src, now) /\ ~reply.done /\ v = now
  <2>1. CASE off > 0
    <3>1. Long(z)
      BY <1>2, <1>3, <1>9, <1>13, <2>1, WholeOver
    <3> QED BY <3>1 DEF Faithful
  <2>2. CASE off = 0
    <3>1. \A m \in 1..Len(data) : data[m] = <<src, v, off + m>>
      BY <1>2, <1>13, <2>2, WholeFacts
    <3> QED BY <1>11, <1>13, <3>1 DEF Faithful
  <2> QED BY <1>9, <2>1, <2>2
<1>14. CASE data = <<>> /\ ~reply.done
  <2>1. z = y
    BY <1>3, <1>14 DEF WriteAt
  <2>2. CASE Backed(p, y, Truth(src, v))
    BY <1>11, <1>14, <2>2 DEF Faithful
  <2>3. CASE v # now /\ OneVersion(src, y)
    BY <2>1, <2>3
  <2> QED BY <1>6, <1>7, <1>10, <2>2, <2>3 DEF Faithful
<1>15. CASE Backed(p, y, Truth(src, v)) /\ v = now /\ (\A m \in 1..Len(data) : data[m] = <<src, now, off + m>>)
            /\ (reply.done => seg.credit + Len(data) = seg.size)
  BY <1>11, <1>15 DEF Faithful
<1> QED BY <1>6, <1>7, <1>8, <1>10, <1>12, <1>13, <1>14, <1>15 DEF Faithful

\* How the digest that is sent to the scanner comes about.
LEMMA DigestMoves ==
  ASSUME RInv, [Next]_vars, job'.step \in {"scan", "recheck", "remove", "rename"}
  PROVE  /\ job.id \in Ids /\ rec[job.id] # None /\ job'.id = job.id /\ ~Crash
         /\ \/ job.step = "size" /\ job'.digest = Staged(job.id) /\ Len(job'.digest) = Total /\ job'.digest # None
            \/ job.step \in {"scan", "recheck", "remove"} /\ job'.digest = job.digest
            \/ job' = job
<1>1. job.step # "none"
  <2>1. ASSUME NEW id \in Ids, BeginVerify(id) PROVE job'.step = "size"
    <3>1. job' = [NoJob EXCEPT !.id = id, !.step = "size"]
      BY <2>1 DEF BeginVerify
    <3> QED BY <3>1, JobStarts DEF Steps
  <2> QED BY <2>1, VerifyBegins
<1>2. job \in Jobs /\ job.id \in Ids /\ rec[job.id] # None
  BY <1>1, JobFacts
<1>3. ~Crash /\ job' # NoJob
  BY DEF Crash, NoJob
<1>4. CASE World \/ UNCHANGED vars
  BY <1>2, <1>3, <1>4, WorldFacts
<1>5. CASE JobStep
  <2>1. job'.id = job.id /\ ~Report
    BY <1>3, <1>5, JobMoves
  <2>2. CASE CheckSize
    <3>1. job.step = "size"
      BY <2>2 DEF CheckSize, JobAt
    <3>2. \/ /\ job' = [job EXCEPT !.step = "scan", !.digest = Staged(job.id)]
             /\ Staged(job.id) # None /\ Len(Staged(job.id)) = Total
          \/ Refused
      BY <1>3, <2>2 DEF CheckSize, FailJob
    <3>3. ~Refused
      <4>1. Refused => job'.step = "forget"
        BY <1>2 DEF Refused, Jobs
      <4> QED BY <4>1
    <3> QED BY <1>2, <1>3, <2>1, <3>1, <3>2, <3>3 DEF Jobs
  <2>3. CASE Scan \/ Recheck \/ CommitRemove
    <3>1. job.step \in {"scan", "recheck", "remove"}
      BY <2>3 DEF Scan, Recheck, CommitRemove, JobAt
    <3>2. job'.digest = job.digest
      BY <1>2, <1>3, <2>3 DEF Scan, Recheck, CommitRemove, Goto, Refused, FailJob, Jobs
    <3> QED BY <1>2, <1>3, <2>1, <3>1, <3>2
  <2>4. ~CommitRename /\ ~Forget
    <3>1. \A s : Goto(s) /\ s \in Steps => job'.step = s
      BY <1>2 DEF Goto, Jobs
    <3> QED BY <1>3, <3>1 DEF CommitRename, Forget, FailJob, Steps
  <2>5. ~ReportRunning /\ ~Conclude
    BY <1>3 DEF ReportRunning, Conclude
  <2> QED BY <1>5, <2>1, <2>2, <2>3, <2>4, <2>5 DEF JobStep
<1> QED BY <1>1, <1>3, <1>4, <1>5, WhileJob

\* A file that passes the size check is one version of the resource.
LEMMA CheckedIsWhole ==
  ASSUME RInv, RecordsOK, VerifiedOK, TruthOK, job.step = "size", Staged(job.id) # None, Len(Staged(job.id)) = Total
  PROVE  OneVersion(rec[job.id].source, Staged(job.id))
<1>1. job.id \in active /\ plan[job.id] \in AllPlans /\ Full(plan[job.id])
  BY VerifiedIsFull DEF VerifySteps
<1>2. PICK id \in Ids : id = job.id
  BY JobFacts
<1> DEFINE src == rec[id].source
           y   == Staged(id)
<1>3. src \in Sources /\ etag[id] \in 0..MaxVersion /\ y \in Seq(Bytes) /\ Total \in Nat \ {0}
  <2>1. rec[id] \in Records /\ y \in {None} \cup Seq(Bytes)
    BY <1>2, JobFacts
  <2> QED BY <1>2, <2>1, TypeParts, RuntimeAssumption DEF RInv, RestTyped, Records
<1>4. Faithful(plan[id], y, src, etag[id]) \/ OneVersion(src, y)
  BY <1>1, <1>2 DEF TruthOK, TransferFaithful
<1>5. ~Long(y) /\ ~Stale(plan[id], y)
  BY <1>2, <1>3 DEF Long, Stale
<1>6. CASE Backed(plan[id], y, Truth(src, etag[id]))
  BY <1>1, <1>2, <1>3, <1>6, WholeWhenFull DEF OneVersion
<1> QED BY <1>2, <1>4, <1>5, <1>6 DEF Faithful

\* A released file keeps its bytes and its resource, or is replaced by a file
\* whose digest was cleared.
LEMMA ReleasesStayWhole ==
  ASSUME RInv, TruthOK, [Next]_vars
  PROVE  ReleasedIsWhole'
<1> SUFFICES ASSUME NEW f \in Files, final'[f] # None
             PROVE  \E v \in 0..MaxVersion : final'[f].bytes = Whole(final'[f].source, v)
  BY DEF ReleasedIsWhole
<1>1. final \in FinalFiles /\ ReleasedIsWhole
  BY TypeParts DEF RInv, DiskTyped, TruthOK
<1>2. CASE final'[f] = final[f]
  BY <1>1, <1>2 DEF ReleasedIsWhole
<1>3. ASSUME NEW id \in Ids, final' = Disown(id) PROVE final[f] # None /\ final'[f].bytes = final[f].bytes /\ final'[f].source = final[f].source
  <2>1. final'[f] = IF final[f] # None /\ final[f].by = id THEN [final[f] EXCEPT !.by = None] ELSE final[f]
    BY <1>3 DEF Disown
  <2>2. final[f] # None => final[f] \in Releases
    BY <1>1 DEF FinalFiles
  <2> QED BY <2>1, <2>2 DEF Releases
<1>4. CASE CommitRemove /\ final' = [final EXCEPT ![rec[job.id].file] = None]
  BY <1>1, <1>2, <1>4 DEF FinalFiles
<1>5. CASE CommitRename /\ final' = [final EXCEPT ![rec[job.id].file] = Commit]
  <2>1. CASE f = rec[job.id].file
    <3>1. final'[f] = Commit
      BY <1>1, <1>5, <2>1 DEF FinalFiles
    <3>2. job.step = "rename" /\ Staged(job.id) = job.digest
      BY <1>5 DEF CommitRename, JobAt, RInv, JobOK
    <3>3. OneVersion(rec[job.id].source, Staged(job.id))
      BY <3>2 DEF TruthOK
    <3>4. final'[f].bytes = Staged(job.id) /\ final'[f].source = rec[job.id].source
      BY <3>1 DEF Commit
    <3> QED BY <3>3, <3>4 DEF OneVersion
  <2>2. CASE f # rec[job.id].file
    BY <1>1, <1>2, <1>5, <2>2 DEF FinalFiles
  <2> QED BY <2>1, <2>2
<1>6. CASE \E id \in Ids : final' = Disown(id)
  BY <1>1, <1>3, <1>6 DEF ReleasedIsWhole
<1> QED BY <1>2, <1>4, <1>5, <1>6, FinalMoves

LEMMA StepKeepsTruth ==
  ASSUME {"save", "erase", "prepare", "tamper"} \cap Faults = {},
         Answers \cap {"short", "error"} = {}, ~CutsWhole,
         StagingOK, KeptOK', TruthOK, [Next]_vars
  PROVE  TruthOK'
<1>0. /\ RInv /\ RInv' /\ RecordsOK /\ KeptOK /\ VerifiedOK /\ StagedOK /\ FollowsOK
      /\ {"save", "erase"} \cap Faults = {} /\ "prepare" \notin Faults /\ {"prepare", "tamper"} \cap Faults = {}
      /\ part \in Staging /\ ckpt \in SavedCheckpoints /\ rec \in MaybeRecords /\ etag \in [Ids -> 0..MaxVersion]
  BY TypeParts DEF StagingOK, KeptOK, RestartOK, RInv, DiskTyped, RestTyped
<1>1. ASSUME NEW id \in Ids, Transfer(id)
      PROVE  /\ TransferFaithful(id)'
             /\ etag[id] = version[rec[id].source] => Faithful(plan[id], Staged(id)', rec[id].source, etag[id])
  <2>1. TransferFaithful(id)
    BY <1>1, TransferMoves, <1>0 DEF TruthOK
  <2> QED BY <1>0, <1>1, <2>1, TransferHasFile, TransferTruth
<1>2. ASSUME NEW id \in Ids, CommitRename, job.id = id PROVE id \in active /\ Full(plan[id])
  BY <1>0, <1>2, VerifiedIsFull DEF CommitRename, JobAt, VerifySteps
\* The transfers.
<1>3. ASSUME NEW id \in Ids, id \in active' PROVE etag'[id] <= version'[rec'[id].source] /\ TransferFaithful(id)'
  <2>1. CASE AdmitStart /\ id = Head(pending)
    <3>1. /\ rec' = rec /\ part' = part /\ version' = version /\ rec[id] # None
          /\ etag'[id] = version[rec[id].source]
          /\ \/ \E ranges \in BOOLEAN : plan'[id] = Fresh(ranges)
             \/ /\ ckpt[id] # None /\ plan'[id] = ckpt[id].plan
                /\ ckpt[id].source = rec[id].source /\ ckpt[id].etag = version[rec[id].source]
      BY <1>0, <2>1, StartsWith DEF diskVars
    <3>2. Held(id) = Staged(id) /\ Staged(id)' = Staged(id) /\ SourceOf(id) = rec[id].source
      BY <3>1 DEF Held, FileOf, Staged, SourceOf
    <3>3. Faithful(plan'[id], Staged(id), rec[id].source, etag'[id])
      BY <3>1, <3>2, FreshIsBacked DEF TruthOK, Faithful
    <3>4. TransferFaithful(id)'
      BY <3>1, <3>2, <3>3 DEF TransferFaithful, Faithful, Long, Backed, Truth, Stale, Full
    <3>5. version[rec[id].source] \in Nat
      BY <1>0, <3>1, FileOfRecord, VersionsGrow
    <3> QED BY <3>1, <3>4, <3>5
  <2>2. CASE Transfer(id)
    BY <1>0, <1>1, <2>2, TransferMoves DEF TruthOK
  <2>3. CASE id \in active /\ plan'[id] = plan[id] /\ etag'[id] = etag[id] /\ ~Transfer(id)
    <3>1. rec[id] # None /\ ~Crash /\ ~Restart(id) /\ ~\E d \in BOOLEAN : Cancel(id, d)
      BY <1>0, <1>3, <2>3, ActiveFacts
    <3>2. PICK s \in Sources : s = rec[id].source /\ rec'[id].source = s
      BY <1>0, <3>1, FileOfRecord, RecordsKept
    <3>3. etag[id] \in Nat /\ version[s] \in Nat /\ version'[s] \in Nat /\ version[s] <= version'[s]
          /\ etag[id] <= version[s] /\ TransferFaithful(id)
      BY <1>0, <2>3, <3>2, VersionsGrow DEF TruthOK
    <3>4. CASE Faithful(plan[id], Staged(id), s, etag[id])
      <4>1. Faithful(plan[id], Staged(id)', s, etag[id])
        BY <1>0, <1>2, <2>3, <3>1, <3>4, FaithfulStays
      <4>2. TransferFaithful(id)'
        BY <2>3, <3>2, <4>1 DEF TransferFaithful, Faithful, Long, Backed, Truth, Stale, Full
      <4> QED BY <2>3, <3>2, <3>3, <4>2
    <3>5. CASE etag[id] # version[s] /\ OneVersion(s, Staged(id))
      <4>1. etag'[id] # version'[s]
        BY <2>3, <3>3, <3>5
      <4>2. Staged(id) \in Seq(Bytes) /\ Staged(id) # None
        BY <3>5, WholeFacts DEF OneVersion
      <4>3. Staged(id)' = Staged(id) \/ (Staged(id)' = None /\ Full(plan[id]))
        BY <1>0, <1>2, <2>3, <3>1, <4>2, StagedMoves DEF Tamper
      <4>4. TransferFaithful(id)'
        <5>1. CASE Staged(id)' = Staged(id)
          BY <3>2, <3>5, <4>1, <5>1 DEF TransferFaithful, OneVersion
        <5>2. CASE Staged(id)' = None /\ Full(plan[id])
          BY <2>3, <5>2 DEF TransferFaithful, Faithful, Stale, Full
        <5> QED BY <4>3, <5>1, <5>2
      <4> QED BY <2>3, <3>2, <3>3, <4>4
    <3> QED BY <3>2, <3>3, <3>4, <3>5 DEF TransferFaithful
  <2> QED BY <1>0, <1>3, <2>1, <2>2, <2>3, PlanMoves
\* The checkpoints.
<1>4. ASSUME NEW id \in Ids, ckpt'[id] # None, Report, job.id = id
      PROVE  /\ ckpt'[id].etag <= version'[ckpt'[id].source]
             /\ ckpt'[id].source = SourceOf(id)' /\ ckpt'[id].etag = version'[SourceOf(id)'] =>
                  Faithful(ckpt'[id].plan, Held(id)', SourceOf(id)', ckpt'[id].etag)
  <2>1. /\ ckpt'[id].etag = etag[id] /\ ckpt'[id].source = rec[id].source /\ ckpt'[id].plan = plan[id]
    <3>1. ckpt'[id] = MakeCheckpoint(rec[id].source, etag[id], plan[id])
      BY <1>0, <1>4 DEF Report, SaveCheckpoint, SavedCheckpoints
    <3> QED BY <3>1 DEF MakeCheckpoint
  <2>2. id \in active /\ rec[id] # None
    BY <1>0, <1>4, ActiveFacts DEF Report, JobAt, RecordsOK, JobPlace
  <2>3. Held(id)' = Staged(id) /\ SourceOf(id)' = rec[id].source /\ version' = version
    BY <1>4, <2>2 DEF Report, Held, FileOf, Staged, SourceOf, PumpFrame, worldVars
  <2> QED BY <2>1, <2>2, <2>3 DEF TruthOK, TransferFaithful
<1>5. ASSUME NEW id \in Ids, ckpt'[id] # None, ckpt'[id] = ckpt[id]
      PROVE  /\ ckpt[id].etag <= version'[ckpt[id].source]
             /\ ckpt[id].source = SourceOf(id)' /\ ckpt[id].etag = version'[SourceOf(id)'] =>
                  Faithful(ckpt[id].plan, Held(id)', SourceOf(id)', ckpt[id].etag)
  <2>1. /\ ckpt[id].etag \in Nat /\ ckpt[id].source \in Sources /\ ckpt[id].plan \in AllPlans
        /\ ckpt[id].etag <= version[ckpt[id].source]
    BY <1>0, <1>5, RuntimeAssumption DEF TruthOK, SavedCheckpoints, Checkpoints
  <2>2. ckpt[id].etag <= version'[ckpt[id].source]
    BY <1>0, <2>1, VersionsGrow
  <2> SUFFICES ASSUME ckpt[id].source = SourceOf(id)', ckpt[id].etag = version'[SourceOf(id)']
               PROVE  Faithful(ckpt[id].plan, Held(id)', ckpt[id].source, ckpt[id].etag)
    BY <2>2
  <2> DEFINE s == ckpt[id].source
             v == ckpt[id].etag
             p == ckpt[id].plan
  <2>3. /\ FileOf(id)' = FileOf(id) /\ FileOf(id) \in Files /\ SourceOf(id) = s
        /\ Held(id) = part[id][FileOf(id)] /\ Held(id)' = part'[id][FileOf(id)]
    BY <1>0, <1>5, OwnerKept, OwnerOfCheckpoint DEF Held
  <2>4. v = version[s]
    BY <1>0, <2>1, VersionsGrow
  <2>5. Faithful(p, Held(id), s, v)
    BY <1>5, <2>3, <2>4 DEF TruthOK
  <2>6. ~Restart(id) /\ ~\E d \in BOOLEAN : Cancel(id, d)
    <3>1. ASSUME Restart(id) \/ \E d \in BOOLEAN : Cancel(id, d) PROVE ckpt'[id] = None
      BY <1>0, <3>1 DEF Restart, Cancel, EraseCheckpoint, SavedCheckpoints
    <3> QED BY <1>5, <3>1
  <2>7. CASE Crash
    BY <2>3, <2>5, <2>7 DEF Crash, diskVars
  <2>8. ASSUME id \in active, ~(job.id = id /\ job.step = "report")
        PROVE  p = plan[id] /\ s = rec[id].source /\ v = etag[id]
    <3>1. ckpt[id] = MakeCheckpoint(rec[id].source, etag[id], plan[id])
      BY <1>0, <1>5, <2>8 DEF FollowsOK
    <3> QED BY <3>1 DEF MakeCheckpoint
  <2>9. CASE running /\ ~Crash
    <3>1. rec[id] # None /\ rec'[id] # None
      BY <1>0, <1>5, <2>9, OwnerOfCheckpoint, RecordsKept
    <3>2. Held(id) = Staged(id) /\ Held(id)' = Staged(id)'
      BY <3>1 DEF Held, FileOf, Staged
    <3>3. CASE Transfer(id)
      <4>1. id \in active /\ ~(job.id = id /\ job.step = "report")
        BY <1>0, <3>3, TransferMoves
      <4>2. p = plan[id] /\ s = rec[id].source /\ v = etag[id]
        BY <2>8, <4>1
      <4> QED BY <1>1, <2>4, <3>2, <3>3, <4>2
    <3>4. CASE ~Transfer(id)
      <4>1. CommitRename /\ job.id = id => Full(p)
        <5>1. ASSUME CommitRename, job.id = id PROVE id \in active /\ ~(job.id = id /\ job.step = "report") /\ Full(plan[id])
          BY <1>2, <5>1 DEF CommitRename, JobAt
        <5> QED BY <2>8, <5>1
      <4> HIDE DEF p, s, v
      <4>2. Faithful(p, Staged(id)', s, v)
        BY <1>0, <2>5, <2>6, <2>9, <3>1, <3>2, <3>4, <4>1, FaithfulStays
      <4> QED BY <3>2, <4>2 DEF p, s, v
    <3> QED BY <3>3, <3>4
  <2>10. CASE ~running /\ ~Crash
    <3>1. Held(id)' = Held(id) \/ (Held(id) = None /\ Held(id)' = <<>>)
      BY <1>0, <2>3, <2>6, <2>10, PartMoves DEF Transfer, Free, Tamper, CommitRename, JobAt
    <3> QED BY <2>5, <3>1, OpenedKeepsBytes DEF Faithful, Long
  <2> QED BY <2>7, <2>9, <2>10
<1>6. ASSUME NEW id \in Ids, ckpt'[id] # None
      PROVE  /\ ckpt'[id].etag <= version'[ckpt'[id].source]
             /\ ckpt'[id].source = SourceOf(id)' /\ ckpt'[id].etag = version'[SourceOf(id)'] =>
                  Faithful(ckpt'[id].plan, Held(id)', SourceOf(id)', ckpt'[id].etag)
  <2>1. CASE ~(Report /\ job.id = id)
    <3>1. ckpt'[id] = ckpt[id]
      BY <1>0, <1>6, <2>1, CheckpointMoves DEF SavedCheckpoints
    <3> QED BY <1>5, <1>6, <3>1
  <2> QED BY <1>4, <1>6, <2>1
\* The digest.
<1>7. ASSUME job'.step \in {"scan", "recheck", "remove", "rename"}
      PROVE  OneVersion(rec'[job'.id].source, job'.digest)
  <2>1. /\ job.id \in Ids /\ rec[job.id] # None /\ job'.id = job.id /\ ~Crash
        /\ \/ job.step = "size" /\ job'.digest = Staged(job.id) /\ Len(job'.digest) = Total /\ job'.digest # None
           \/ job.step \in {"scan", "recheck", "remove"} /\ job'.digest = job.digest
           \/ job' = job
    BY <1>0, <1>7, DigestMoves
  <2>2. rec'[job.id].source = rec[job.id].source
    BY <1>0, <2>1, RecordsKept
  <2>3. OneVersion(rec[job.id].source, job'.digest)
    BY <1>0, <1>7, <2>1, CheckedIsWhole DEF TruthOK
  <2> QED BY <2>1, <2>2, <2>3
<1>8. ReleasedIsWhole'
  BY <1>0, ReleasesStayWhole
<1>9. (\A id \in active : etag[id] <= version[rec[id].source] /\ TransferFaithful(id))'
  <2>1. active' \subseteq Ids
    BY <1>0 DEF RInv, SchedulerOK, SP!IInv, SP!TypeOK
  <2> QED BY <1>3, <2>1
<1>10. (job.step \in {"scan", "recheck", "remove", "rename"} => OneVersion(rec[job.id].source, job.digest))'
  BY <1>7 DEF OneVersion
<1>11. (\A id \in Ids : ckpt[id] # None =>
          /\ ckpt[id].etag <= version[ckpt[id].source]
          /\ ckpt[id].source = SourceOf(id) /\ ckpt[id].etag = version[SourceOf(id)] =>
               Faithful(ckpt[id].plan, Held(id), SourceOf(id), ckpt[id].etag))'
  BY <1>6 DEF Faithful, Long, Backed, Truth, Stale, Full
<1> QED BY <1>8, <1>9, <1>10, <1>11 DEF TruthOK

\* A released file is one whole version of the resource it was requested from,
\* however the server changes while the transfer is interrupted, resumed and
\* restarted, as long as saves, erasures and the opening of staged files succeed,
\* no download is private, nothing else writes to the staged file, and no answer
\* leaves other bytes in it than the plan credits: no error page, no short range,
\* and no body of the whole resource that ends early, by a cut or by a failing
\* writer.
THEOREM ReleasedFilesAreWhole ==
  ASSUME {"save", "erase", "prepare", "tamper"} \cap Faults = {},
         Answers \cap {"short", "error", "wholecut"} = {},
         "write" \in Faults => "whole" \notin Answers,
         \A r \in Requests : ~r.private
  PROVE  Spec => []ReleasedIsWhole
<1>1. Init => TruthOK
  BY DEF Init, Sched!Init, TruthOK, NoJob, ReleasedIsWhole
<1>2. StagingOK /\ KeptOK' /\ TruthOK /\ [Next]_vars => TruthOK'
  BY StepKeepsTruth DEF CutsWhole
<1>3. StagingOK => KeptOK
  BY DEF StagingOK
<1>4. TruthOK => ReleasedIsWhole
  BY DEF TruthOK
<1>5. Spec => []StagingOK
  BY StagingInvariant
<1> QED BY <1>1, <1>2, <1>3, <1>4, <1>5, PTL DEF Spec
=============================================================================
