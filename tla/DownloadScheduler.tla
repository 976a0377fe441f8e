------------------------- MODULE DownloadScheduler -------------------------
(***************************************************************************)
(* The transfer scheduler of the download manager: class                   *)
(* DownloadTransferScheduler of advanced_download_transfer_engine.hpp.     *)
(*                                                                         *)
(* A download waits in the pending queue, takes one of the MaxActive       *)
(* transfer slots, moves its plan forward by one segment request per pump, *)
(* and leaves when its plan is finished or failed.  A pump is one call,    *)
(* but it calls back into its owner after every step, so it is a sequence  *)
(* of actions here; the user's operations happen only between two pumps,   *)
(* because both run on the browser's UI thread.                            *)
(*                                                                         *)
(* Abstractions: the transfer loop visits the active downloads in vector   *)
(* order, here in any order; the completed_ and failed_ histories, which   *)
(* nothing in the class reads, are left out.                               *)
(***************************************************************************)
EXTENDS Naturals, Sequences, FiniteSets

CONSTANTS
  Ids,         \* download ids
  MaxActive,   \* kMaximumActiveDownloads
  MaxRetries,  \* kMaximumRetriesPerSegment
  Plans,       \* the plans an admission can produce: fresh, or restored
  Reports      \* the byte counts a segment request can report

Segment == [begin : Nat, size : Nat \ {0}, credit : Nat,
            retries : 0..MaxRetries, finished : BOOLEAN]

\* What make_plan and apply_download_checkpoint guarantee of a segment.
WellFormed(seg) == /\ seg.credit <= seg.size
                   /\ seg.finished <=> seg.credit = seg.size

ASSUME SchedulerAssumption ==
  /\ MaxActive \in Nat \ {0}
  /\ MaxRetries \in Nat
  /\ Reports \subseteq Nat
  /\ Plans \subseteq Seq(Segment)
  /\ \A p \in Plans : p # <<>> /\ \A i \in 1..Len(p) : WellFormed(p[i])

VARIABLES
  pending,    \* pending_: ids in queue order
  active,     \* active_: ids holding a transfer slot
  plan,       \* the segments of an active download, <<>> otherwise
  outcome,    \* ActiveTransfer.finished and .failed
  paused,     \* paused_
  cancelled,  \* cancelled_
  stage,      \* where the pump is; "idle" between two pumps
  scans,      \* the local counter of the admission loop
  turn        \* active downloads the current loop has still to visit

vars == <<pending, active, plan, outcome, paused, cancelled, stage, scans, turn>>

Outcomes == {"none", "finished", "failed"}
Stages == {"idle", "admit", "transfer", "settle"}

Init ==
  /\ pending = <<>>
  /\ active = {}
  /\ plan = [id \in Ids |-> <<>>]
  /\ outcome = [id \in Ids |-> "none"]
  /\ paused = {}
  /\ cancelled = {}
  /\ stage = "idle"
  /\ scans = 0
  /\ turn = {}

Elements(s) == {s[i] : i \in 1..Len(s)}

Distinct(s) == \A i, j \in 1..Len(s) : i # j => s[i] # s[j]

Waiting == Elements(pending)

Contains(id) == id \in Waiting \cup active

\* s without id, which occurs at most once.
Without(s, id) ==
  IF \E i \in 1..Len(s) : s[i] = id
  THEN LET k == CHOOSE i \in 1..Len(s) : s[i] = id
       IN  [i \in 1..(Len(s) - 1) |-> IF i < k THEN s[i] ELSE s[i + 1]]
  ELSE s

----------------------------------------------------------------------------
(* The owner's calls, between two pumps. *)

BetweenPumps == stage = "idle" /\ UNCHANGED <<stage, scans, turn>>

Queue(id) ==
  /\ BetweenPumps
  /\ ~Contains(id)
  /\ pending' = Append(pending, id)
  /\ UNCHANGED <<active, plan, outcome, paused, cancelled>>

\* queue() and then pause(): how a scheduled or restored download enters.
QueuePaused(id) ==
  /\ BetweenPumps
  /\ ~Contains(id)
  /\ pending' = Append(pending, id)
  /\ paused' = paused \cup {id}
  /\ UNCHANGED <<active, plan, outcome, cancelled>>

Pause(id) ==
  /\ BetweenPumps
  /\ Contains(id)
  /\ paused' = paused \cup {id}
  /\ UNCHANGED <<pending, active, plan, outcome, cancelled>>

Resume(id) ==
  /\ BetweenPumps
  /\ id \in paused
  /\ paused' = paused \ {id}
  /\ UNCHANGED <<pending, active, plan, outcome, cancelled>>

\* Mutant: an active transfer is only marked, for a later pump to drop.
RemovedLater(id) ==
  /\ paused' = paused \ {id}
  /\ cancelled' = cancelled \cup {id}
  /\ UNCHANGED <<active, plan, outcome>>

\* cancel() leaves the id in cancelled_ for the life of the process.
Removed(id) ==
  /\ active' = active \ {id}
  /\ plan' = [plan EXCEPT ![id] = <<>>]
  /\ outcome' = [outcome EXCEPT ![id] = "none"]
  /\ paused' = paused \ {id}
  /\ cancelled' = cancelled \cup {id}

Cancel(id) ==
  /\ BetweenPumps
  /\ pending' = Without(pending, id)
  /\ Removed(id)

\* cancel() and then queue(): what a restart does.
CancelAndQueue(id) ==
  /\ BetweenPumps
  /\ pending' = Append(Without(pending, id), id)
  /\ Removed(id)

\* The process ends and another one constructs the scheduler afresh.
Rebuild ==
  /\ pending' = <<>>
  /\ active' = {}
  /\ plan' = [id \in Ids |-> <<>>]
  /\ outcome' = [id \in Ids |-> "none"]
  /\ paused' = {}
  /\ cancelled' = {}
  /\ stage' = "idle"
  /\ scans' = 0
  /\ turn' = {}

----------------------------------------------------------------------------
(* One pump: admit, transfer one segment each, settle. *)

\* due: the downloads whose scheduled start has come, resumed before the pump.
PumpBegin(due) ==
  /\ stage = "idle"
  /\ stage' = "admit"
  /\ scans' = Len(pending)
  /\ paused' = paused \ due
  /\ UNCHANGED <<pending, active, plan, outcome, cancelled, turn>>

CanAdmit ==
  /\ stage = "admit"
  /\ Cardinality(active) < MaxActive
  /\ pending # <<>>
  /\ scans > 0

NextScan == scans' = scans - 1 /\ UNCHANGED <<stage, turn, cancelled, paused>>

AdmitDrop ==
  /\ CanAdmit
  /\ Head(pending) \in cancelled
  /\ pending' = Tail(pending)
  /\ NextScan
  /\ UNCHANGED <<active, plan, outcome>>

\* Mutant: a paused download is put back at the front.
AdmitDeferFront ==
  /\ CanAdmit
  /\ Head(pending) \in paused \ cancelled
  /\ NextScan
  /\ UNCHANGED <<pending, active, plan, outcome>>

AdmitDefer ==
  /\ CanAdmit
  /\ Head(pending) \in paused \ cancelled
  /\ pending' = Append(Tail(pending), Head(pending))
  /\ NextScan
  /\ UNCHANGED <<active, plan, outcome>>

\* The server could not be inspected, or its answer yields no segment.
AdmitReject ==
  /\ CanAdmit
  /\ Head(pending) \notin paused \cup cancelled
  /\ pending' = Tail(pending)
  /\ NextScan
  /\ UNCHANGED <<active, plan, outcome>>

AdmitStart(p) ==
  /\ CanAdmit
  /\ Head(pending) \notin paused \cup cancelled
  /\ pending' = Tail(pending)
  /\ active' = active \cup {Head(pending)}
  /\ plan' = [plan EXCEPT ![Head(pending)] = p]
  /\ NextScan
  /\ UNCHANGED outcome

\* Mutant: the transfer loop does not skip paused downloads.
AdmitEndAll ==
  /\ stage = "admit"
  /\ ~CanAdmit
  /\ stage' = "transfer"
  /\ turn' = {id \in active : outcome[id] = "none" /\ id \notin cancelled}
  /\ scans' = 0
  /\ UNCHANGED <<pending, active, plan, outcome, paused, cancelled>>

AdmitEnd ==
  /\ stage = "admit"
  /\ ~CanAdmit
  /\ stage' = "transfer"
  /\ turn' = {id \in active : outcome[id] = "none" /\ id \notin paused \cup cancelled}
  /\ scans' = 0
  /\ UNCHANGED <<pending, active, plan, outcome, paused, cancelled>>

Unfinished(p) == {i \in 1..Len(p) : ~p[i].finished}

\* find_if: the first segment that is not finished.
NextSegment(p) == CHOOSE i \in Unfinished(p) : \A j \in Unfinished(p) : i <= j

AtMost(a, b) == IF a <= b THEN a ELSE b

\* The segment after a request that reported n bytes, completion (done) and
\* whether it may be tried again.
Advanced(seg, n, done, again) ==
  LET credit == AtMost(seg.size, seg.credit + n)
      full   == done \/ credit = seg.size
  IN  [seg EXCEPT !.credit   = IF full THEN seg.size ELSE credit,
                  !.finished = full,
                  !.retries  = IF ~full /\ again /\ seg.retries < MaxRetries
                               THEN seg.retries + 1 ELSE seg.retries]

GivesUp(seg, again) == ~again \/ seg.retries >= MaxRetries

\* What run_one_segment leaves of a download whose i-th segment was tried.
OutcomeAfter(q, i, spent) ==
  CASE Unfinished(q) = {} -> "finished"
    [] i \in Unfinished(q) /\ spent -> "failed"
    [] OTHER -> "none"

Transfer(id, n, done, again) ==
  /\ stage = "transfer"
  /\ id \in turn
  /\ Unfinished(plan[id]) # {}
  /\ LET i == NextSegment(plan[id])
         q == [plan[id] EXCEPT ![i] = Advanced(plan[id][i], n, done, again)]
     IN  /\ plan' = [plan EXCEPT ![id] = q]
         /\ outcome' = [outcome EXCEPT ![id] =
                          OutcomeAfter(q, i, GivesUp(plan[id][i], again))]
  /\ turn' = turn \ {id}
  /\ UNCHANGED <<pending, active, paused, cancelled, stage, scans>>

\* A plan restored with every segment full finishes without a request.
TransferNothing(id) ==
  /\ stage = "transfer"
  /\ id \in turn
  /\ Unfinished(plan[id]) = {}
  /\ outcome' = [outcome EXCEPT ![id] = "finished"]
  /\ turn' = turn \ {id}
  /\ UNCHANGED <<pending, active, plan, paused, cancelled, stage, scans>>

TransferEnd ==
  /\ stage = "transfer"
  /\ turn = {}
  /\ stage' = "settle"
  /\ turn' = {id \in active : outcome[id] # "none"}
  /\ UNCHANGED <<pending, active, plan, outcome, paused, cancelled, scans>>

\* The completion or failure callback of the owner has run.
Settle(id) ==
  /\ stage = "settle"
  /\ id \in turn
  /\ turn' = turn \ {id}
  /\ UNCHANGED <<pending, active, plan, outcome, paused, cancelled, stage, scans>>

Leaving == {id \in active : outcome[id] # "none" \/ id \in cancelled}

PumpEnd ==
  /\ stage = "settle"
  /\ turn = {}
  /\ stage' = "idle"
  /\ active' = active \ Leaving
  /\ plan' = [id \in Ids |-> IF id \in Leaving THEN <<>> ELSE plan[id]]
  /\ outcome' = [id \in Ids |-> "none"]
  /\ UNCHANGED <<pending, paused, cancelled, scans, turn>>

----------------------------------------------------------------------------

OwnerCall(id) ==
  \/ Queue(id)
  \/ QueuePaused(id)
  \/ Pause(id)
  \/ Resume(id)
  \/ Cancel(id)
  \/ CancelAndQueue(id)

PumpStep ==
  \/ AdmitDrop
  \/ AdmitDefer
  \/ AdmitReject
  \/ \E p \in Plans : AdmitStart(p)
  \/ AdmitEnd
  \/ \E id \in Ids, n \in Reports, done, again \in BOOLEAN : Transfer(id, n, done, again)
  \/ \E id \in Ids : TransferNothing(id)
  \/ TransferEnd
  \/ \E id \in Ids : Settle(id)
  \/ PumpEnd

Pump == PumpStep \/ \E due \in SUBSET paused : PumpBegin(due)

Next ==
  \/ \E id \in Ids : OwnerCall(id)
  \/ Pump
  \/ Rebuild

Spec == Init /\ [][Next]_vars

\* The browser's event loop calls pump() on every iteration, whatever the user
\* does; nothing obliges the user to act or the process to end.
FairSpec == Spec /\ WF_vars(Pump)

----------------------------------------------------------------------------
(* Properties *)

\* Every variable keeps its type.
TypeOK ==
  /\ pending \in Seq(Ids)
  /\ active \subseteq Ids
  /\ plan \in [Ids -> Seq(Segment)]
  /\ outcome \in [Ids -> Outcomes]
  /\ paused \subseteq Ids
  /\ cancelled \subseteq Ids
  /\ stage \in Stages
  /\ scans \in Nat
  /\ turn \subseteq Ids

\* A download is known to the scheduler once: it waits at one place of the
\* queue or holds one slot, through deferrals, restarts and cancellations.
KnownOnce ==
  /\ Distinct(pending)
  /\ Waiting \cap active = {}

\* kMaximumActiveDownloads is never exceeded.
SlotBound == Cardinality(active) <= MaxActive

\* A cancelled id never holds a slot again in this process, even if it is
\* queued again: cancelled_ has no other effect on a queued id than to drop it.
CancelledNeverActive == cancelled \cap active = {}

\* A segment is finished exactly when all of its bytes are credited, and is
\* never credited with more; only an active download has a plan.
CreditMatches ==
  /\ \A id \in Ids : \A i \in 1..Len(plan[id]) : WellFormed(plan[id][i])
  /\ \A id \in Ids : id \in active <=> plan[id] # <<>>

\* What reaches verification as finished has every segment full.
FinishedIsFull ==
  \A id \in active : outcome[id] = "finished" => Unfinished(plan[id]) = {}

\* What the scheduler promises its owner between and within pumps: a known
\* download is in one place, within the slots, not cancelled, and credited with
\* what it has.
SchedulerIsSound ==
  TypeOK /\ KnownOnce /\ SlotBound /\ CancelledNeverActive /\ CreditMatches /\ FinishedIsFull

\* A paused download makes no progress: neither does its plan change nor does
\* it finish or fail while it is paused and in its slot.
PausedHoldsStill ==
  [][\A id \in paused : id \in active /\ id \in active' =>
       UNCHANGED <<plan[id], outcome[id]>>]_vars

\* A waiting download that nobody pauses leaves the queue, unless the user
\* restarts it over and over, which moves it to the tail each time, or a paused
\* transfer keeps its slot.
WaitingIsServed ==
  \A id \in Ids :
    \/ []<><<CancelAndQueue(id)>>_vars
    \/ id \in Waiting ~> \/ id \notin Waiting
                         \/ id \in paused
                         \/ active \cap paused # {}
=============================================================================
