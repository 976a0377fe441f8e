----------------------- MODULE DownloadSchedulerProofs -----------------------
(***************************************************************************)
(* Proofs about DownloadScheduler, for every set of ids, number of slots,  *)
(* retry bound and set of well-formed plans.                               *)
(*                                                                         *)
(* The lemmas on sequences come first, then one inductive invariant, whose *)
(* conjuncts are the properties the runs check and two facts about the     *)
(* pump that make them inductive.                                          *)
(***************************************************************************)
EXTENDS DownloadScheduler, FiniteSetTheorems, SequenceTheorems, TLAPS

----------------------------------------------------------------------------
(* The pending queue as a sequence of distinct ids. *)

\* Appending an id that is not in the queue keeps its ids distinct.
LEMMA AppendKeepsDistinct ==
  ASSUME NEW S, NEW s \in Seq(S), NEW x \in S, Distinct(s), x \notin Elements(s)
  PROVE  /\ Append(s, x) \in Seq(S)
         /\ Distinct(Append(s, x))
         /\ Elements(Append(s, x)) = Elements(s) \cup {x}
<1>1. /\ Append(s, x) \in Seq(S)
      /\ Len(Append(s, x)) = Len(s) + 1
      /\ \A i \in 1..Len(s) : Append(s, x)[i] = s[i]
      /\ Append(s, x)[Len(s) + 1] = x
      /\ Len(s) \in Nat
  OBVIOUS
<1>2. Distinct(Append(s, x))
  BY <1>1 DEF Distinct, Elements
<1>3. Elements(Append(s, x)) = Elements(s) \cup {x}
  BY <1>1 DEF Elements
<1> QED BY <1>1, <1>2, <1>3

\* Taking the head leaves the other ids, still distinct, without the head.
LEMMA TailKeepsDistinct ==
  ASSUME NEW S, NEW s \in Seq(S), s # <<>>, Distinct(s)
  PROVE  /\ Head(s) \in S
         /\ Tail(s) \in Seq(S)
         /\ Distinct(Tail(s))
         /\ Elements(Tail(s)) = Elements(s) \ {Head(s)}
         /\ Head(s) \in Elements(s)
<1>1. /\ Head(s) \in S
      /\ Tail(s) \in Seq(S)
      /\ Len(Tail(s)) = Len(s) - 1
      /\ \A i \in 1..Len(Tail(s)) : Tail(s)[i] = s[i + 1]
      /\ Head(s) = s[1]
      /\ Len(s) \in Nat \ {0}
  BY HeadTailProperties, EmptySeq
<1>2. Distinct(Tail(s))
  BY <1>1 DEF Distinct
<1>3. Elements(Tail(s)) = Elements(s) \ {Head(s)}
  <2>1. ASSUME NEW y \in Elements(Tail(s)) PROVE y \in Elements(s) \ {Head(s)}
    BY <1>1 DEF Elements, Distinct
  <2>2. ASSUME NEW y \in Elements(s), y # Head(s) PROVE y \in Elements(Tail(s))
    <3>1. PICK i \in 1..Len(s) : y = s[i]
      BY DEF Elements
    <3>2. i - 1 \in 1..Len(Tail(s)) /\ Tail(s)[i - 1] = y
      BY <3>1, <2>2, <1>1
    <3> QED BY <3>2 DEF Elements
  <2> QED BY <2>1, <2>2
<1>4. Head(s) \in Elements(s)
  BY <1>1 DEF Elements
<1> QED BY <1>1, <1>2, <1>3, <1>4

\* Removing an id keeps the others in order, and distinct.
LEMMA WithoutKeepsDistinct ==
  ASSUME NEW S, NEW s \in Seq(S), NEW x, Distinct(s)
  PROVE  /\ Without(s, x) \in Seq(S)
         /\ Distinct(Without(s, x))
         /\ Elements(Without(s, x)) = Elements(s) \ {x}
<1>1. CASE \A i \in 1..Len(s) : s[i] # x
  BY <1>1 DEF Without, Elements
<1>2. CASE \E i \in 1..Len(s) : s[i] = x
  <2> DEFINE k == CHOOSE i \in 1..Len(s) : s[i] = x
             t == [i \in 1..(Len(s) - 1) |-> IF i < k THEN s[i] ELSE s[i + 1]]
  <2>1. k \in 1..Len(s) /\ s[k] = x
    BY <1>2
  <2>2. Without(s, x) = t
    BY <1>2 DEF Without
  <2> HIDE DEF k
  <2>3. Len(s) \in Nat /\ Len(s) - 1 \in Nat
    BY <2>1, LenProperties
  <2>4. \A i \in 1..(Len(s) - 1) : t[i] = IF i < k THEN s[i] ELSE s[i + 1]
    OBVIOUS
  <2>5. \A i \in 1..(Len(s) - 1) : t[i] \in S
    BY <2>1, <2>3, <2>4, LenProperties
  <2>6. t \in Seq(S) /\ Len(t) = Len(s) - 1
    BY <2>3, <2>5
  <2> HIDE DEF t
  <2>7. Distinct(t)
    BY <2>1, <2>3, <2>4, <2>6 DEF Distinct
  <2>8. ASSUME NEW y \in Elements(t) PROVE y \in Elements(s) \ {x}
    BY <2>1, <2>3, <2>4, <2>6 DEF Elements, Distinct
  <2>9. ASSUME NEW y \in Elements(s), y # x PROVE y \in Elements(t)
    <3>1. PICK i \in 1..Len(s) : y = s[i]
      BY DEF Elements
    <3>2. CASE i < k
      BY <3>1, <3>2, <2>1, <2>3, <2>4, <2>6 DEF Elements
    <3>3. CASE i > k
      <4>1. i - 1 \in 1..(Len(s) - 1) /\ t[i - 1] = y
        BY <3>1, <3>3, <2>1, <2>3, <2>4
      <4> QED BY <4>1, <2>6 DEF Elements
    <3> QED BY <3>1, <3>2, <3>3, <2>1, <2>9
  <2> QED BY <2>2, <2>6, <2>7, <2>8, <2>9
<1> QED BY <1>1, <1>2

----------------------------------------------------------------------------
(* The segments of a plan. *)

\* A segment request leaves the segment typed and its credit in agreement with
\* its finished flag, whatever the request reports.
LEMMA AdvancedIsWellFormed ==
  ASSUME NEW seg \in Segment, WellFormed(seg), NEW n \in Nat,
         NEW done \in BOOLEAN, NEW again \in BOOLEAN
  PROVE  Advanced(seg, n, done, again) \in Segment /\ WellFormed(Advanced(seg, n, done, again))
<1> DEFINE credit == AtMost(seg.size, seg.credit + n)
           full   == done \/ credit = seg.size
           retry  == IF ~full /\ again /\ seg.retries < MaxRetries
                     THEN seg.retries + 1 ELSE seg.retries
           new    == Advanced(seg, n, done, again)
<1>1. /\ seg.size \in Nat \ {0} /\ seg.credit \in Nat /\ seg.begin \in Nat
      /\ seg.retries \in 0..MaxRetries /\ MaxRetries \in Nat
  BY SchedulerAssumption DEF Segment
<1>2. credit \in Nat /\ credit <= seg.size
  BY <1>1 DEF AtMost
<1>3. full \in BOOLEAN /\ retry \in 0..MaxRetries
  BY <1>1
<1>4. new = [seg EXCEPT !.credit = IF full THEN seg.size ELSE credit,
                        !.finished = full, !.retries = retry]
  BY DEF Advanced
<1> HIDE DEF new, retry, credit
<1>5. new \in Segment
  BY <1>1, <1>2, <1>3, <1>4 DEF Segment
<1>6. new.size = seg.size /\ new.finished = full
      /\ new.credit = IF full THEN seg.size ELSE credit
  BY <1>4 DEF Segment
<1>7. WellFormed(new)
  <2>1. full => credit = seg.size \/ done
    OBVIOUS
  <2>2. ~full => credit < seg.size
    BY <1>1, <1>2
  <2> HIDE DEF full
  <2>3. CASE full
    BY <2>3, <1>1, <1>6 DEF WellFormed
  <2>4. CASE ~full
    <3>1. new.finished = FALSE
      BY <2>4, <1>3, <1>6, Zenon
    <3>2. new.credit < new.size
      BY <2>4, <2>2, <1>6
    <3> QED BY <3>1, <3>2, <1>1, <1>2, <1>6 DEF WellFormed
  <2> QED BY <2>3, <2>4
<1> QED BY <1>5, <1>7 DEF new

\* Replacing one segment of a plan by a well-formed one keeps the plan
\* well-formed and as long as it was.
LEMMA PlanStaysWellFormed ==
  ASSUME NEW p \in Seq(Segment), NEW i, NEW seg,
         \A j \in 1..Len(p) : WellFormed(p[j]),
         i \in 1..Len(p) => seg \in Segment /\ WellFormed(seg)
  PROVE  /\ [p EXCEPT ![i] = seg] \in Seq(Segment)
         /\ Len([p EXCEPT ![i] = seg]) = Len(p)
         /\ \A j \in 1..Len(p) : WellFormed([p EXCEPT ![i] = seg][j])
<1>1. CASE i \in 1..Len(p)
  BY <1>1, ExceptSeq
<1>2. CASE i \notin 1..Len(p)
  <2>1. [p EXCEPT ![i] = seg] = p
    BY <1>2, LenProperties
  <2> QED BY <2>1
<1> QED BY <1>1, <1>2

----------------------------------------------------------------------------
(* The inductive invariant. *)

\* Until the transfer loop runs, no active download has an outcome.
NoOutcomeYet == stage \in {"idle", "admit"} => outcome = [id \in Ids |-> "none"]

\* The transfer loop visits no paused and no cancelled download, and the
\* cursor is empty when no loop runs.
TurnIsRunnable ==
  /\ stage \in {"idle", "admit"} => turn = {}
  /\ stage = "transfer" => turn \cap paused = {}

SlotsBounded == IsFiniteSet(active) /\ SlotBound

IInv ==
  /\ TypeOK
  /\ KnownOnce
  /\ CancelledNeverActive
  /\ CreditMatches
  /\ FinishedIsFull
  /\ NoOutcomeYet
  /\ TurnIsRunnable

\* The pump's initial state satisfies every conjunct.
LEMMA InitIInv == Init => IInv /\ SlotsBounded
<1> SUFFICES ASSUME Init PROVE IInv /\ SlotsBounded
  OBVIOUS
<1> USE DEF Init
<1>1. TypeOK
  BY DEF TypeOK, Outcomes, Stages
<1>2. KnownOnce /\ CancelledNeverActive /\ FinishedIsFull /\ NoOutcomeYet /\ TurnIsRunnable
  BY DEF KnownOnce, Distinct, Waiting, Elements, CancelledNeverActive, FinishedIsFull,
         NoOutcomeYet, TurnIsRunnable
<1>3. CreditMatches
  BY DEF CreditMatches
<1>4. SlotsBounded
  BY FS_EmptySet, SchedulerAssumption DEF SlotsBounded, SlotBound
<1> QED BY <1>1, <1>2, <1>3, <1>4 DEF IInv

\* What cancelling does to everything but the queue.
LEMMA RemovedKeeps ==
  ASSUME IInv, NEW id \in Ids, Removed(id), BetweenPumps,
         pending' \in Seq(Ids), Distinct(pending'),
         Elements(pending') \subseteq (Waiting \ {id}) \cup {id}
  PROVE  IInv'
<1> USE DEF IInv, Removed, BetweenPumps
<1>1. TypeOK'
  BY DEF TypeOK, Outcomes, Stages
<1>2. KnownOnce'
  BY DEF KnownOnce, Waiting
<1>3. CancelledNeverActive'
  BY DEF CancelledNeverActive
<1>4. CreditMatches'
  BY DEF CreditMatches, TypeOK
<1>5. FinishedIsFull' /\ NoOutcomeYet'
  BY DEF FinishedIsFull, NoOutcomeYet, TypeOK
<1>6. TurnIsRunnable'
  BY DEF TurnIsRunnable
<1> QED BY <1>1, <1>2, <1>3, <1>4, <1>5, <1>6

\* The steps of the owner, between two pumps.
LEMMA OwnerCallKeepsIInv == ASSUME IInv, NEW id \in Ids, OwnerCall(id) PROVE IInv'
<1> USE DEF IInv
<1>0. pending \in Seq(Ids) /\ Distinct(pending)
  BY DEF TypeOK, KnownOnce
<1>1. CASE Queue(id)
  <2>1. pending' \in Seq(Ids) /\ Distinct(pending') /\ Elements(pending') = Waiting \cup {id}
    BY <1>0, <1>1, AppendKeepsDistinct DEF Queue, Contains, Waiting
  <2> QED BY <2>1, <1>1
        DEF Queue, BetweenPumps, Contains, TypeOK, KnownOnce, Waiting, CancelledNeverActive,
            CreditMatches, FinishedIsFull, NoOutcomeYet, TurnIsRunnable
<1>2. CASE QueuePaused(id)
  <2>1. pending' \in Seq(Ids) /\ Distinct(pending') /\ Elements(pending') = Waiting \cup {id}
    BY <1>0, <1>2, AppendKeepsDistinct DEF QueuePaused, Contains, Waiting
  <2> QED BY <2>1, <1>2
        DEF QueuePaused, BetweenPumps, Contains, TypeOK, KnownOnce, Waiting, CancelledNeverActive,
            CreditMatches, FinishedIsFull, NoOutcomeYet, TurnIsRunnable
<1>3. CASE Pause(id)
  BY <1>3 DEF Pause, BetweenPumps, TypeOK, KnownOnce, Waiting, CancelledNeverActive,
              CreditMatches, FinishedIsFull, NoOutcomeYet, TurnIsRunnable
<1>4. CASE Resume(id)
  BY <1>4 DEF Resume, BetweenPumps, TypeOK, KnownOnce, Waiting, CancelledNeverActive,
              CreditMatches, FinishedIsFull, NoOutcomeYet, TurnIsRunnable
<1>5. CASE Cancel(id)
  <2>1. pending' \in Seq(Ids) /\ Distinct(pending') /\ Elements(pending') = Waiting \ {id}
    BY <1>0, <1>5, WithoutKeepsDistinct DEF Cancel, Waiting
  <2> QED BY <2>1, <1>5, RemovedKeeps DEF Cancel
<1>6. CASE CancelAndQueue(id)
  <2>1. /\ Without(pending, id) \in Seq(Ids)
        /\ Distinct(Without(pending, id))
        /\ Elements(Without(pending, id)) = Waiting \ {id}
    BY <1>0, WithoutKeepsDistinct DEF Waiting
  <2>2. /\ pending' \in Seq(Ids)
        /\ Distinct(pending')
        /\ Elements(pending') = (Waiting \ {id}) \cup {id}
    BY <2>1, <1>6, AppendKeepsDistinct DEF CancelAndQueue
  <2> QED BY <2>2, <1>6, RemovedKeeps DEF CancelAndQueue
<1> QED BY <1>1, <1>2, <1>3, <1>4, <1>5, <1>6 DEF OwnerCall

\* The steps of a pump that admits downloads.
LEMMA AdmissionKeepsIInv ==
  ASSUME IInv,
         \/ AdmitDrop \/ AdmitDefer \/ AdmitReject \/ (\E p \in Plans : AdmitStart(p)) \/ AdmitEnd
  PROVE  IInv'
<1> USE DEF IInv
<1>0. /\ pending \in Seq(Ids) /\ Distinct(pending) /\ Waiting \cap active = {}
      /\ scans \in Nat
  BY DEF TypeOK, KnownOnce
<1>1. ASSUME CanAdmit
      PROVE  /\ Head(pending) \in Ids /\ Tail(pending) \in Seq(Ids)
             /\ Distinct(Tail(pending))
             /\ Elements(Tail(pending)) = Waiting \ {Head(pending)}
             /\ Head(pending) \in Waiting
             /\ scans - 1 \in Nat
  BY <1>0, <1>1, TailKeepsDistinct DEF CanAdmit, Waiting
<1>2. CASE AdmitDrop \/ AdmitReject
  BY <1>2, <1>1, <1>0
     DEF AdmitDrop, AdmitReject, NextScan, CanAdmit, TypeOK, KnownOnce, Waiting,
         CancelledNeverActive, CreditMatches, FinishedIsFull, NoOutcomeYet, TurnIsRunnable
<1>3. CASE AdmitDefer
  <2>1. /\ pending' \in Seq(Ids)
        /\ Distinct(pending')
        /\ Elements(pending') = Waiting
    <3> DEFINE h == Head(pending)
               t == Tail(pending)
    <3>1. /\ h \in Ids /\ t \in Seq(Ids) /\ Distinct(t)
          /\ Elements(t) = Waiting \ {h} /\ h \in Waiting /\ pending' = Append(t, h)
      BY <1>3, <1>1 DEF AdmitDefer
    <3> HIDE DEF h, t
    <3>2. h \notin Elements(t)
      BY <3>1
    <3>3. /\ Append(t, h) \in Seq(Ids) /\ Distinct(Append(t, h))
          /\ Elements(Append(t, h)) = Elements(t) \cup {h}
      BY <3>1, <3>2, AppendKeepsDistinct
    <3>4. Elements(t) \cup {h} = Waiting
      BY <3>1
    <3> QED BY <3>1, <3>3, <3>4
  <2> QED BY <2>1, <1>3, <1>1, <1>0
        DEF AdmitDefer, NextScan, CanAdmit, TypeOK, KnownOnce, Waiting,
            CancelledNeverActive, CreditMatches, FinishedIsFull, NoOutcomeYet, TurnIsRunnable
<1>4. ASSUME NEW p \in Plans, AdmitStart(p) PROVE IInv'
  <2>1. p \in Seq(Segment) /\ p # <<>> /\ \A i \in 1..Len(p) : WellFormed(p[i])
    BY SchedulerAssumption
  <2> DEFINE h == Head(pending)
  <2>2. /\ h \in Ids /\ h \in Waiting /\ h \notin cancelled
        /\ active' = active \cup {h} /\ plan' = [plan EXCEPT ![h] = p]
        /\ pending' = Tail(pending) /\ scans' = scans - 1
        /\ UNCHANGED <<stage, turn, cancelled, paused, outcome>>
        /\ stage = "admit"
    BY <1>4, <1>1 DEF AdmitStart, NextScan, CanAdmit
  <2>3. /\ Tail(pending) \in Seq(Ids) /\ Distinct(Tail(pending))
        /\ Elements(Tail(pending)) = Waiting \ {h} /\ scans - 1 \in Nat
    BY <1>4, <1>1 DEF AdmitStart
  <2> HIDE DEF h
  <2>4. TypeOK'
    BY <2>1, <2>2, <2>3 DEF TypeOK
  <2>5. KnownOnce' /\ CancelledNeverActive'
    BY <1>0, <2>2, <2>3 DEF KnownOnce, Waiting, CancelledNeverActive
  <2>6. CreditMatches'
    BY <2>1, <2>2 DEF CreditMatches, TypeOK
  <2>7. FinishedIsFull' /\ NoOutcomeYet' /\ TurnIsRunnable'
    BY <2>2 DEF FinishedIsFull, NoOutcomeYet, TurnIsRunnable
  <2> QED BY <2>4, <2>5, <2>6, <2>7
<1>5. CASE AdmitEnd
  BY <1>5 DEF AdmitEnd, TypeOK, Stages, KnownOnce, Waiting, CancelledNeverActive,
              CreditMatches, FinishedIsFull, NoOutcomeYet, TurnIsRunnable
<1> QED BY <1>2, <1>3, <1>4, <1>5

\* One segment request of one active download.
LEMMA TransferKeepsIInv ==
  ASSUME IInv, NEW id \in Ids, NEW n \in Nat, NEW done \in BOOLEAN, NEW again \in BOOLEAN,
         Transfer(id, n, done, again)
  PROVE  IInv'
<1> USE DEF IInv
<1> DEFINE p   == plan[id]
           i   == NextSegment(p)
           seg == Advanced(p[i], n, done, again)
           q   == [p EXCEPT ![i] = seg]
<1>1. /\ plan' = [plan EXCEPT ![id] = q]
      /\ outcome' = [outcome EXCEPT ![id] = OutcomeAfter(q, i, GivesUp(p[i], again))]
      /\ turn' = turn \ {id} /\ stage = "transfer"
      /\ UNCHANGED <<pending, active, paused, cancelled, stage, scans>>
  BY DEF Transfer
<1>2. p \in Seq(Segment) /\ \A j \in 1..Len(p) : WellFormed(p[j])
  BY DEF TypeOK, CreditMatches
<1>3. i \in 1..Len(p) => seg \in Segment /\ WellFormed(seg)
  BY <1>2, AdvancedIsWellFormed, ElementOfSeq
<1> HIDE DEF i, seg
<1>4. /\ q \in Seq(Segment) /\ Len(q) = Len(p)
      /\ \A j \in 1..Len(q) : WellFormed(q[j])
  BY <1>2, <1>3, PlanStaysWellFormed
<1>5. q = <<>> <=> p = <<>>
  BY <1>2, <1>4, EmptySeq
<1>6. /\ outcome'[id] \in Outcomes
      /\ outcome'[id] = "finished" => Unfinished(q) = {}
      /\ \A d \in Ids \ {id} : outcome'[d] = outcome[d]
      /\ outcome' \in [Ids -> Outcomes]
  <2> DEFINE o == OutcomeAfter(q, i, GivesUp(p[i], again))
  <2>1. o \in Outcomes /\ (o = "finished" => Unfinished(q) = {})
    BY DEF Outcomes, OutcomeAfter
  <2> HIDE DEF o
  <2>2. outcome' = [outcome EXCEPT ![id] = o]
    BY <1>1 DEF o
  <2> QED BY <2>1, <2>2 DEF TypeOK
<1> HIDE DEF q
<1>7. TypeOK'
  BY <1>1, <1>4, <1>6 DEF TypeOK
<1>8. KnownOnce' /\ CancelledNeverActive'
  BY <1>1 DEF KnownOnce, Waiting, CancelledNeverActive
<1>9. CreditMatches'
  <2>1. \A d \in Ids : plan'[d] = IF d = id THEN q ELSE plan[d]
    BY <1>1 DEF TypeOK
  <2> QED BY <2>1, <1>1, <1>4, <1>5 DEF CreditMatches
<1>10. FinishedIsFull'
  <2>1. \A d \in Ids : plan'[d] = IF d = id THEN q ELSE plan[d]
    BY <1>1 DEF TypeOK
  <2> QED BY <2>1, <1>1, <1>6 DEF FinishedIsFull, TypeOK
<1>11. NoOutcomeYet' /\ TurnIsRunnable'
  BY <1>1 DEF NoOutcomeYet, TurnIsRunnable
<1> QED BY <1>7, <1>8, <1>9, <1>10, <1>11

\* The other steps of a pump.
LEMMA LoopKeepsIInv ==
  ASSUME IInv,
         \/ \E due \in SUBSET paused : PumpBegin(due)
         \/ \E id \in Ids : TransferNothing(id) \/ Settle(id)
         \/ TransferEnd \/ PumpEnd
  PROVE  IInv'
<1> USE DEF IInv
<1>1. ASSUME NEW due \in SUBSET paused, PumpBegin(due) PROVE IInv'
  <2>1. Len(pending) \in Nat
    BY DEF TypeOK
  <2> QED BY <2>1, <1>1
        DEF PumpBegin, TypeOK, Stages, KnownOnce, Waiting, CancelledNeverActive,
            CreditMatches, FinishedIsFull, NoOutcomeYet, TurnIsRunnable
<1>2. ASSUME NEW id \in Ids, TransferNothing(id) PROVE IInv'
  <2>1. \A d \in Ids : outcome'[d] = IF d = id THEN "finished" ELSE outcome[d]
    BY <1>2 DEF TransferNothing, TypeOK
  <2> QED BY <2>1, <1>2
        DEF TransferNothing, TypeOK, Outcomes, KnownOnce, Waiting, CancelledNeverActive,
            CreditMatches, FinishedIsFull, NoOutcomeYet, TurnIsRunnable
<1>3. ASSUME NEW id \in Ids, Settle(id) PROVE IInv'
  BY <1>3 DEF Settle, TypeOK, KnownOnce, Waiting, CancelledNeverActive,
              CreditMatches, FinishedIsFull, NoOutcomeYet, TurnIsRunnable
<1>4. CASE TransferEnd
  BY <1>4 DEF TransferEnd, TypeOK, Stages, KnownOnce, Waiting, CancelledNeverActive,
              CreditMatches, FinishedIsFull, NoOutcomeYet, TurnIsRunnable
<1>5. CASE PumpEnd
  <2>1. plan' \in [Ids -> Seq(Segment)]
    BY <1>5 DEF PumpEnd, TypeOK
  <2>2. TypeOK'
    BY <2>1, <1>5 DEF PumpEnd, TypeOK, Stages, Outcomes
  <2>3. \A id \in Ids : plan'[id] = IF id \in Leaving THEN <<>> ELSE plan[id]
    BY <1>5 DEF PumpEnd
  <2>4. active' = active \ Leaving
    BY <1>5 DEF PumpEnd
  <2>5. CreditMatches'
    <3>1. ASSUME NEW id \in Ids, NEW j \in 1..Len(plan'[id]) PROVE WellFormed(plan'[id][j])
      BY <3>1, <2>3 DEF CreditMatches
    <3>2. ASSUME NEW id \in Ids PROVE id \in active' <=> plan'[id] # <<>>
      BY <2>3, <2>4 DEF CreditMatches, Leaving
    <3> QED BY <3>1, <3>2 DEF CreditMatches
  <2>6. KnownOnce' /\ CancelledNeverActive' /\ NoOutcomeYet' /\ TurnIsRunnable'
    BY <2>4, <1>5
       DEF PumpEnd, KnownOnce, Waiting, CancelledNeverActive, NoOutcomeYet, TurnIsRunnable
  <2>7. FinishedIsFull'
    BY <2>4, <1>5 DEF PumpEnd, FinishedIsFull, TypeOK
  <2> QED BY <2>2, <2>5, <2>6, <2>7
<1> QED BY <1>1, <1>2, <1>3, <1>4, <1>5

\* Every step of the scheduler keeps the invariant.
LEMMA NextKeepsIInv == IInv /\ [Next]_vars => IInv'
<1> SUFFICES ASSUME IInv, [Next]_vars PROVE IInv'
  OBVIOUS
<1>1. ASSUME NEW id \in Ids, OwnerCall(id) PROVE IInv'
  BY <1>1, OwnerCallKeepsIInv
<1>2. CASE PumpStep
  <2>1. ASSUME NEW id \in Ids, NEW n \in Reports, NEW done \in BOOLEAN, NEW again \in BOOLEAN,
               Transfer(id, n, done, again)
        PROVE  IInv'
    BY <2>1, TransferKeepsIInv, SchedulerAssumption
  <2> QED BY <1>2, <2>1, AdmissionKeepsIInv, LoopKeepsIInv DEF PumpStep
<1>3. CASE \E due \in SUBSET paused : PumpBegin(due)
  BY <1>3, LoopKeepsIInv
<1>4. CASE Rebuild
  <2>1. Init'
    BY <1>4 DEF Rebuild, Init
  <2> QED BY <2>1, InitIInv, PTL
<1>5. CASE UNCHANGED vars
  BY <1>5 DEF vars, IInv, TypeOK, KnownOnce, Waiting, CancelledNeverActive,
              CreditMatches, FinishedIsFull, NoOutcomeYet, TurnIsRunnable, Leaving
<1> QED BY <1>1, <1>2, <1>3, <1>4, <1>5 DEF Next, Pump

\* Every step keeps at most MaxActive downloads in slots.
LEMMA NextKeepsSlots == TypeOK /\ SlotsBounded /\ [Next]_vars => SlotsBounded'
<1> SUFFICES ASSUME TypeOK, SlotsBounded, [Next]_vars PROVE SlotsBounded'
  OBVIOUS
<1> USE DEF SlotsBounded, SlotBound
<1>0. Cardinality(active) \in Nat /\ MaxActive \in Nat
  BY FS_CardinalityType, SchedulerAssumption
<1>1. ASSUME active' \subseteq active PROVE SlotsBounded'
  <2>1. IsFiniteSet(active') /\ Cardinality(active') <= Cardinality(active)
    BY <1>1, FS_Subset
  <2>2. Cardinality(active') \in Nat
    BY <2>1, FS_CardinalityType
  <2> QED BY <2>1, <2>2, <1>0
<1>2. ASSUME NEW p \in Plans, AdmitStart(p) PROVE SlotsBounded'
  <2>1. active' = active \cup {Head(pending)} /\ Cardinality(active) < MaxActive
    BY <1>2 DEF AdmitStart, CanAdmit
  <2>2. /\ IsFiniteSet(active')
        /\ Cardinality(active') = Cardinality(active) \/ Cardinality(active') = Cardinality(active) + 1
    BY <2>1, FS_AddElement
  <2> QED BY <2>1, <2>2, <1>0
<1>3. CASE Rebuild \/ PumpEnd
  <2>1. active' \subseteq active
    BY <1>3 DEF Rebuild, PumpEnd
  <2> QED BY <2>1, <1>1
<1>4. ASSUME NEW id \in Ids, OwnerCall(id) PROVE SlotsBounded'
  <2>1. active' \subseteq active
    BY <1>4 DEF OwnerCall, Queue, QueuePaused, Pause, Resume, Cancel, CancelAndQueue, Removed
  <2> QED BY <2>1, <1>1
<1>5. ASSUME PumpStep, ~PumpEnd, \A p \in Plans : ~AdmitStart(p) PROVE SlotsBounded'
  <2>1. active' = active
    BY <1>5 DEF PumpStep, AdmitDrop, AdmitDefer, AdmitReject, AdmitEnd, Transfer,
                TransferNothing, TransferEnd, Settle
  <2> QED BY <2>1, <1>1
<1>6. CASE (\E due \in SUBSET paused : PumpBegin(due)) \/ UNCHANGED vars
  <2>1. active' = active
    BY <1>6 DEF PumpBegin, vars
  <2> QED BY <2>1, <1>1
<1> QED BY <1>2, <1>3, <1>4, <1>5, <1>6 DEF Next, Pump

\* No step of the scheduler moves a paused download.
LEMMA PausedStepHoldsStill ==
  IInv /\ [Next]_vars =>
    [\A id \in paused : id \in active /\ id \in active' =>
        UNCHANGED <<plan[id], outcome[id]>>]_vars
<1> SUFFICES ASSUME IInv, Next, NEW d \in paused, d \in active, d \in active'
             PROVE  plan'[d] = plan[d] /\ outcome'[d] = outcome[d]
  BY DEF IInv
<1>0. d \in Ids /\ plan \in [Ids -> Seq(Segment)] /\ outcome \in [Ids -> Outcomes]
  BY DEF IInv, TypeOK
<1>1. ASSUME NEW id \in Ids, OwnerCall(id) PROVE plan'[d] = plan[d] /\ outcome'[d] = outcome[d]
  BY <1>0, <1>1 DEF OwnerCall, Queue, QueuePaused, Pause, Resume, Cancel, CancelAndQueue, Removed
<1>2. ASSUME NEW p \in Plans, AdmitStart(p) PROVE plan'[d] = plan[d] /\ outcome'[d] = outcome[d]
  BY <1>0, <1>2 DEF AdmitStart
<1>3. ASSUME NEW id \in Ids,
             TransferNothing(id) \/ \E n \in Reports, done, again \in BOOLEAN :
                                      Transfer(id, n, done, again)
      PROVE  plan'[d] = plan[d] /\ outcome'[d] = outcome[d]
  <2>1. stage = "transfer" /\ id \in turn
    BY <1>3 DEF TransferNothing, Transfer
  <2>2. id # d
    BY <2>1 DEF IInv, TurnIsRunnable
  <2> QED BY <1>0, <1>3, <2>2 DEF TransferNothing, Transfer
<1>4. CASE PumpEnd
  <2>1. outcome[d] = "none"
    BY <1>4 DEF PumpEnd, Leaving
  <2> QED BY <1>0, <1>4, <2>1 DEF PumpEnd
<1>5. CASE Rebuild
  BY <1>5 DEF Rebuild
<1>6. CASE \/ AdmitDrop \/ AdmitDefer \/ AdmitReject \/ AdmitEnd \/ TransferEnd
           \/ (\E id \in Ids : Settle(id)) \/ (\E due \in SUBSET paused : PumpBegin(due))
  BY <1>6 DEF AdmitDrop, AdmitDefer, AdmitReject, AdmitEnd, TransferEnd, Settle, PumpBegin
<1> QED BY <1>1, <1>2, <1>3, <1>4, <1>5, <1>6 DEF Next, Pump, PumpStep

----------------------------------------------------------------------------
(* The theorems. *)

\* The invariant holds in every state of every behaviour of the scheduler.
THEOREM SchedulerInvariant == Spec => []IInv
<1>1. Init => IInv
  BY InitIInv
<1>2. IInv /\ [Next]_vars => IInv'
  BY NextKeepsIInv
<1> QED BY <1>1, <1>2, PTL DEF Spec

\* Every variable of the scheduler keeps its type.
THEOREM SchedulerTyped == Spec => []TypeOK
<1>1. IInv => TypeOK
  BY DEF IInv
<1> QED BY <1>1, SchedulerInvariant, PTL

\* However downloads are deferred, restarted and cancelled, none is in the
\* queue twice or in the queue and in a slot at once.
THEOREM SchedulerKnowsOnce == Spec => []KnownOnce
<1>1. IInv => KnownOnce
  BY DEF IInv
<1> QED BY <1>1, SchedulerInvariant, PTL

\* An id given to cancel() never becomes active again in this process: since
\* restart() goes through cancel(), a restarted download never runs.
THEOREM CancelledStaysOut == Spec => []CancelledNeverActive
<1>1. IInv => CancelledNeverActive
  BY DEF IInv
<1> QED BY <1>1, SchedulerInvariant, PTL

\* A segment's finished flag and its credited bytes always agree, through
\* clipped, short and retried requests and through restored plans.
THEOREM CreditAlwaysMatches == Spec => []CreditMatches
<1>1. IInv => CreditMatches
  BY DEF IInv
<1> QED BY <1>1, SchedulerInvariant, PTL

\* A download reported as complete has every segment full.
THEOREM CompletionIsFull == Spec => []FinishedIsFull
<1>1. IInv => FinishedIsFull
  BY DEF IInv
<1> QED BY <1>1, SchedulerInvariant, PTL

\* kMaximumActiveDownloads bounds the slots in use.
THEOREM SlotsNeverExceeded == Spec => []SlotBound
<1>1. Init => SlotsBounded
  BY InitIInv
<1>2. TypeOK /\ SlotsBounded /\ [Next]_vars => SlotsBounded'
  BY NextKeepsSlots
<1>3. SlotsBounded => SlotBound
  BY DEF SlotsBounded
<1> QED BY <1>1, <1>2, <1>3, SchedulerTyped, PTL DEF Spec

\* All of these at once, in every state of every behaviour: what the scheduler's
\* run checks, for every set of ids, limit and set of plans.
THEOREM SchedulerSound == Spec => []SchedulerIsSound
<1>1. TypeOK /\ KnownOnce /\ SlotBound /\ CancelledNeverActive /\ CreditMatches /\ FinishedIsFull
        => SchedulerIsSound
  BY DEF SchedulerIsSound
<1> QED BY <1>1, SchedulerTyped, SchedulerKnowsOnce, SlotsNeverExceeded, CancelledStaysOut,
           CreditAlwaysMatches, CompletionIsFull, PTL

\* Nothing a pump does moves a download that is paused.
THEOREM PausedDownloadHoldsStill == Spec => PausedHoldsStill
<1>1. IInv /\ [Next]_vars =>
        [\A id \in paused : id \in active /\ id \in active' =>
            UNCHANGED <<plan[id], outcome[id]>>]_vars
  BY PausedStepHoldsStill
<1> QED BY <1>1, SchedulerInvariant, PTL DEF Spec, PausedHoldsStill
=============================================================================
