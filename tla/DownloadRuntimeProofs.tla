------------------------ MODULE DownloadRuntimeProofs ------------------------
(***************************************************************************)
(* Proofs about DownloadPlan and DownloadRuntime, for every set of ids,    *)
(* sources, files and requests, every size and limit, every kind of answer *)
(* and fault: the segments of a plan partition the resource and survive    *)
(* restoration; the types of the process and the disk; the runtime         *)
(* implements the transfer scheduler and the release gate; its records     *)
(* always agree with the scheduler.                                        *)
(***************************************************************************)
EXTENDS DownloadRuntime, SequenceTheorems, WellFoundedInduction, TLAPS

----------------------------------------------------------------------------
(* The plan of a download: module DownloadPlan. *)

\* There is at least one segment, and no more of them than bytes.
LEMMA SegmentCountBounds ==
  ASSUME NEW total \in Nat \ {0}, NEW limit \in Nat, NEW ranges \in BOOLEAN
  PROVE  SegmentCount(total, limit, ranges) \in 1..total
<1>1. 1 \in 1..total /\ total \in 1..total
  OBVIOUS
<1>2. ASSUME limit >= 1, limit <= total PROVE limit \in 1..total
  BY <1>2
<1> QED BY <1>1, <1>2 DEF SegmentCount

\* Division of a size by a segment count.
LEMMA DivisionFacts ==
  ASSUME NEW total \in Nat, NEW n \in Nat \ {0}
  PROVE  /\ total \div n \in Nat
         /\ total % n \in 0..(n - 1)
         /\ total = n * (total \div n) + (total % n)
<1>1. n > 0
  OBVIOUS
<1>2. total \div n \in Nat
  BY <1>1
<1>3. total % n \in 0..(n - 1)
  BY <1>1
<1>4. total = n * (total \div n) + (total % n)
  BY <1>1
<1> QED BY <1>2, <1>3, <1>4

\* Segment i + 1 begins where segment i ends.
LEMMA SegmentsAdjoin ==
  ASSUME NEW total \in Nat \ {0}, NEW n \in Nat \ {0}, NEW i \in 1..n
  PROVE  SegmentBegin(total, n, i + 1) = SegmentBegin(total, n, i) + SegmentSize(total, n, i)
<1> DEFINE q == total \div n
           r == total % n
<1>1. q \in Nat /\ r \in 0..(n - 1)
  BY DivisionFacts
<1> HIDE DEF q, r
<1>2. (i + 1 - 1) * q = (i - 1) * q + q
  BY <1>1
<1>3. SegmentSize(total, n, i) = q + (IF i <= r THEN 1 ELSE 0)
  BY DEF SegmentSize, q, r
<1>4. SegmentBegin(total, n, i) = (i - 1) * q + (IF i - 1 <= r THEN i - 1 ELSE r)
  BY DEF SegmentBegin, q, r
<1>5. SegmentBegin(total, n, i + 1) = (i + 1 - 1) * q + (IF i + 1 - 1 <= r THEN i + 1 - 1 ELSE r)
  BY DEF SegmentBegin, q, r
<1> DEFINE a == (i - 1) * q
           b == (i + 1 - 1) * q
<1>6. a \in Nat /\ b = a + q
  BY <1>1, <1>2
<1> HIDE DEF a, b
<1>7. b + (IF i <= r THEN i ELSE r) = (a + (IF i - 1 <= r THEN i - 1 ELSE r)) + (q + (IF i <= r THEN 1 ELSE 0))
  BY <1>1, <1>6
<1>8. i + 1 - 1 = i
  OBVIOUS
<1> QED BY <1>3, <1>4, <1>5, <1>7, <1>8 DEF a, b

\* The segments of a plan partition the resource: the first begins at 0, each
\* one is not empty and begins where the one before it ends, the last one ends
\* at the last byte.
THEOREM PlanPartitionsResource ==
  ASSUME NEW total \in Nat \ {0}, NEW limit \in Nat, NEW ranges \in BOOLEAN
  PROVE  LET p == MakePlan(total, limit, ranges)
             n == Len(p)
         IN  /\ n \in 1..total
             /\ p[1].begin = 0
             /\ \A i \in 1..n : p[i].size \in Nat \ {0}
             /\ \A i \in 1..(n - 1) : p[i + 1].begin = p[i].begin + p[i].size
             /\ p[n].begin + p[n].size = total
<1> DEFINE n == SegmentCount(total, limit, ranges)
           p == MakePlan(total, limit, ranges)
           seg(i) == [begin |-> SegmentBegin(total, n, i), size |-> SegmentSize(total, n, i),
                      credit |-> 0, retries |-> 0, finished |-> FALSE]
<1>1. n \in 1..total
  BY SegmentCountBounds
<1>2. p = [i \in 1..n |-> seg(i)]
  BY DEF MakePlan
<1> HIDE DEF n, p
<1>3. Len(p) = n /\ \A i \in 1..n : p[i].begin = SegmentBegin(total, n, i)
                                  /\ p[i].size = SegmentSize(total, n, i)
  BY <1>1, <1>2
<1>4. n \in Nat \ {0} /\ n <= total
  BY <1>1
<1>5. /\ total \div n \in Nat
      /\ total % n \in 0..(n - 1)
      /\ total = n * (total \div n) + (total % n)
  BY <1>4, DivisionFacts
<1>6. total \div n >= 1
  <2>1. ASSUME total \div n = 0 PROVE FALSE
    <3>1. n * (total \div n) = 0
      BY <2>1, <1>4
    <3> QED BY <3>1, <1>4, <1>5
  <2> QED BY <2>1, <1>5
<1>7. SegmentBegin(total, n, 1) = 0
  <2>1. (1 - 1) * (total \div n) = 0
    BY <1>5
  <2> QED BY <2>1, <1>5 DEF SegmentBegin
<1>8. \A i \in 1..n : SegmentSize(total, n, i) \in Nat \ {0}
  BY <1>5, <1>6 DEF SegmentSize
<1>9. \A i \in 1..(n - 1) : SegmentBegin(total, n, i + 1)
                            = SegmentBegin(total, n, i) + SegmentSize(total, n, i)
  BY <1>4, SegmentsAdjoin
<1>10. SegmentBegin(total, n, n) + SegmentSize(total, n, n) = total
  <2>1. SegmentBegin(total, n, n + 1) = SegmentBegin(total, n, n) + SegmentSize(total, n, n)
    BY <1>4, SegmentsAdjoin
  <2>2. SegmentBegin(total, n, n + 1) = n * (total \div n) + (total % n)
    <3>1. n + 1 - 1 = n /\ ~(n <= total % n)
      BY <1>4, <1>5
    <3>2. SegmentBegin(total, n, n + 1)
          = (n + 1 - 1) * (total \div n) + (IF n + 1 - 1 <= total % n THEN n + 1 - 1 ELSE total % n)
      BY <1>4 DEF SegmentBegin
    <3>3. (IF n + 1 - 1 <= total % n THEN n + 1 - 1 ELSE total % n) = total % n
      BY <3>1
    <3>4. (n + 1 - 1) * (total \div n) = n * (total \div n)
      BY <3>1
    <3> QED BY <3>2, <3>3, <3>4
  <2> QED BY <2>1, <2>2, <1>5
<1>11. \A i \in 1..(n - 1) : i \in 1..n /\ i + 1 \in 1..n
  BY <1>4
<1>12. 1 \in 1..n /\ n \in 1..n
  BY <1>4
<1> QED BY <1>1, <1>3, <1>7, <1>8, <1>9, <1>10, <1>11, <1>12 DEF p

\* No segment reaches beyond the end of the resource.
LEMMA SegmentsWithinResource ==
  ASSUME NEW total \in Nat \ {0}, NEW limit \in Nat, NEW ranges \in BOOLEAN
  PROVE  LET p == MakePlan(total, limit, ranges)
         IN  \A i \in 1..Len(p) : /\ p[i].begin \in Nat /\ p[i].size \in Nat \ {0}
                                  /\ p[i].begin + p[i].size <= total
<1> DEFINE n == SegmentCount(total, limit, ranges)
           p == MakePlan(total, limit, ranges)
           q == total \div n
           r == total % n
<1>1. n \in Nat \ {0} /\ n <= total
  BY SegmentCountBounds
<1>2. p = [i \in 1..n |-> [begin |-> SegmentBegin(total, n, i), size |-> SegmentSize(total, n, i),
                           credit |-> 0, retries |-> 0, finished |-> FALSE]]
  BY DEF MakePlan
<1>3. \A i \in 1..Len(p) : p[i].size \in Nat \ {0}
  BY PlanPartitionsResource
<1>4. q \in Nat /\ r \in 0..(n - 1) /\ total = n * q + r
  BY <1>1, DivisionFacts
<1> HIDE DEF n, p
<1>5. Len(p) = n
  BY <1>1, <1>2
<1>6. ASSUME NEW i \in 1..n
      PROVE  /\ p[i].begin \in Nat
             /\ p[i].begin + p[i].size <= total
  <2>1. p[i].begin = SegmentBegin(total, n, i) /\ p[i].size = SegmentSize(total, n, i)
    BY <1>2
  <2>2. SegmentBegin(total, n, i) + SegmentSize(total, n, i) = SegmentBegin(total, n, i + 1)
    BY <1>1, SegmentsAdjoin
  <2>3. i + 1 - 1 = i /\ i \in Nat /\ i - 1 \in Nat /\ n - i \in Nat
    BY <1>1
  <2>4. SegmentBegin(total, n, i + 1) = i * q + (IF i <= r THEN i ELSE r)
    BY <2>3 DEF SegmentBegin
  <2>5. i * q <= n * q
    <3>1. n * q = i * q + (n - i) * q
      BY <2>3, <1>1, <1>4
    <3>2. (n - i) * q \in Nat /\ i * q \in Nat
      BY <2>3, <1>4
    <3> QED BY <3>1, <3>2
  <2>6. i * q \in Nat /\ n * q \in Nat
    BY <2>3, <1>1, <1>4
  <2>7. SegmentBegin(total, n, i + 1) <= total
    <3> HIDE DEF q, r
    <3> QED BY <2>3, <2>4, <2>5, <2>6, <1>4
  <2>8. SegmentBegin(total, n, i) \in Nat
    <3>1. (i - 1) * q \in Nat
      BY <2>3, <1>4
    <3> QED BY <3>1, <2>3, <1>4 DEF SegmentBegin
  <2> QED BY <2>1, <2>2, <2>7, <2>8
<1> QED BY <1>3, <1>5, <1>6 DEF p

\* The segments of a plan leave no byte of the resource out.
LEMMA SegmentsCover ==
  ASSUME NEW total \in Nat \ {0}, NEW limit \in Nat, NEW ranges \in BOOLEAN, NEW k \in 1..total
  PROVE  LET p == MakePlan(total, limit, ranges)
         IN  \E i \in 1..Len(p) : k \in (p[i].begin + 1)..(p[i].begin + p[i].size)
<1> DEFINE p == MakePlan(total, limit, ranges)
           n == Len(p)
<1>1. /\ n \in 1..total /\ p[1].begin = 0
      /\ \A i \in 1..(n - 1) : p[i + 1].begin = p[i].begin + p[i].size
      /\ p[n].begin + p[n].size = total
  BY PlanPartitionsResource
<1>2. \A i \in 1..n : p[i].begin \in Nat /\ p[i].size \in Nat
  BY SegmentsWithinResource
<1> HIDE DEF p, n
<1> DEFINE U == {i \in 1..n : k <= p[i].begin + p[i].size}
           R == {ss \in Nat \X Nat : ss[1] < ss[2]}
<1>3. n \in U /\ U \subseteq Nat /\ n \in Nat /\ k \in Nat \ {0}
  BY <1>1
<1>4. IsWellFoundedOn(R, Nat)
  BY NatLessThanWellFounded DEF OpToRel
<1>5. PICK i \in U : \A j \in U : ~(<<j, i>> \in R)
  <2> HIDE DEF R, U
  <2> QED BY <1>3, <1>4, WFMin
<1>6. i \in 1..n /\ k <= p[i].begin + p[i].size
  OBVIOUS
<1>7. k > p[i].begin
  <2>1. CASE i = 1
    BY <1>1, <1>3, <2>1
  <2>2. CASE i # 1
    <3>1. i - 1 \in 1..(n - 1) /\ i - 1 \in 1..n /\ i - 1 + 1 = i /\ i - 1 < i /\ i - 1 \in Nat /\ i \in Nat
      BY <1>3, <1>6, <2>2
    <3>2. p[i].begin = p[i - 1].begin + p[i - 1].size
      BY <1>1, <3>1
    <3>3. i - 1 \notin U
      BY <1>5, <3>1
    <3> QED BY <1>2, <1>3, <3>1, <3>2, <3>3
  <2> QED BY <2>1, <2>2
<1>8. k \in (p[i].begin + 1)..(p[i].begin + p[i].size)
  BY <1>2, <1>3, <1>6, <1>7
<1> QED BY <1>6, <1>8 DEF n, p

\* Whatever a checkpoint holds, the plan it yields has the segments of the
\* fresh plan, and each segment marked full is full and none is over-credited,
\* provided the checkpoint says the same of its own segments.
THEOREM RestoredPlanFits ==
  ASSUME NEW total \in Nat \ {0}, NEW limit \in Nat, NEW ranges \in BOOLEAN,
         NEW source, NEW tag, NEW saved,
         \A i \in 1..Len(saved.plan) :
           /\ saved.plan[i].credit \in Nat
           /\ saved.plan[i].finished \in BOOLEAN
           /\ saved.plan[i].finished => saved.plan[i].credit = saved.plan[i].size
  PROVE  LET fresh == MakePlan(total, limit, ranges)
             p == ApplyCheckpoint(fresh, source, tag, saved)
         IN  /\ Len(p) = Len(fresh)
             /\ \A i \in 1..Len(p) :
                  /\ p[i].begin = fresh[i].begin /\ p[i].size = fresh[i].size
                  /\ p[i].credit \in Nat /\ p[i].credit <= p[i].size
                  /\ p[i].finished <=> p[i].credit = p[i].size
<1> DEFINE n == SegmentCount(total, limit, ranges)
           fresh == MakePlan(total, limit, ranges)
           p == ApplyCheckpoint(fresh, source, tag, saved)
<1>1. n \in 1..total
  BY SegmentCountBounds
<1>2. fresh = [i \in 1..n |-> [begin |-> SegmentBegin(total, n, i), size |-> SegmentSize(total, n, i),
                                credit |-> 0, retries |-> 0, finished |-> FALSE]]
  BY DEF MakePlan
<1>3. \A i \in 1..Len(fresh) : fresh[i].size \in Nat \ {0}
  BY PlanPartitionsResource
<1> HIDE DEF n, fresh
<1>4. Len(fresh) = n /\ \A i \in 1..n : fresh[i].credit = 0 /\ fresh[i].finished = FALSE
  BY <1>1, <1>2
<1>5. /\ Len(p) = Len(fresh)
      /\ \A i \in 1..Len(fresh) :
           /\ p[i].begin = fresh[i].begin /\ p[i].size = fresh[i].size
           /\ p[i].credit \in Nat /\ p[i].credit <= p[i].size
           /\ p[i].finished <=> p[i].credit = p[i].size
  <2>1. CASE p = fresh
    BY <1>3, <1>4, <2>1
  <2>2. CASE p # fresh
    <3>1. /\ SameRanges(fresh, saved.plan)
          /\ \A i \in 1..Len(fresh) : saved.plan[i].credit <= fresh[i].size
          /\ p = [i \in 1..Len(fresh) |-> Restored(fresh[i], saved.plan[i])]
      BY <2>2 DEF ApplyCheckpoint
    <3> HIDE DEF p
    <3>2. Len(p) = Len(fresh)
      BY <3>1, <1>1, <1>4
    <3>3. ASSUME NEW i \in 1..Len(fresh)
          PROVE  /\ p[i].begin = fresh[i].begin /\ p[i].size = fresh[i].size
                 /\ p[i].credit \in Nat /\ p[i].credit <= p[i].size
                 /\ p[i].finished <=> p[i].credit = p[i].size
      <4>1. saved.plan[i].size = fresh[i].size /\ i \in 1..Len(saved.plan)
        BY <3>1 DEF SameRanges
      <4>2. p[i] = Restored(fresh[i], saved.plan[i])
        BY <3>1
      <4>3. /\ p[i].begin = fresh[i].begin /\ p[i].size = fresh[i].size
            /\ p[i].credit = saved.plan[i].credit
            /\ p[i].finished = (saved.plan[i].finished \/ saved.plan[i].credit = fresh[i].size)
        BY <4>2 DEF Restored
      <4> QED BY <4>1, <4>3, <3>1, <1>3
    <3> QED BY <3>2, <3>3
  <2> QED BY <2>1, <2>2
<1> HIDE DEF p
<1> QED BY <1>5 DEF p, fresh

----------------------------------------------------------------------------
(* The runtime over its scheduler. *)

\* The scheduler's theorems, for the plans and reports of the runtime.
SP == INSTANCE DownloadSchedulerProofs WITH Plans <- AllPlans, Reports <- 0..Total

----------------------------------------------------------------------------
(* Plans. *)

\* What a fresh plan looks like.
LEMMA FreshFacts ==
  ASSUME NEW ranges \in BOOLEAN
  PROVE  LET f == Fresh(ranges)
         IN  /\ Len(f) \in Nat \ {0}
             /\ f \in Seq(Sched!Segment)
             /\ \A i \in 1..Len(f) : /\ f[i].begin \in Nat /\ f[i].size \in Nat \ {0}
                                     /\ f[i].begin + f[i].size <= Total
                                     /\ Sched!WellFormed(f[i])
<1> DEFINE n == SegmentCount(Total, MaxSegments, ranges)
           f == Fresh(ranges)
<1>1. Total \in Nat \ {0} /\ MaxSegments \in Nat /\ MaxRetries \in Nat
  BY RuntimeAssumption
<1>2. n \in Nat \ {0}
  BY <1>1, SegmentCountBounds
<1>3. f = [i \in 1..n |-> [begin |-> SegmentBegin(Total, n, i), size |-> SegmentSize(Total, n, i),
                           credit |-> 0, retries |-> 0, finished |-> FALSE]]
  BY <1>1 DEF Fresh, MakePlan
<1>4. \A i \in 1..Len(f) : /\ f[i].begin \in Nat /\ f[i].size \in Nat \ {0}
                           /\ f[i].begin + f[i].size <= Total
  BY <1>1, SegmentsWithinResource DEF Fresh
<1> HIDE DEF n, f
<1>5. Len(f) = n
  BY <1>2, <1>3
<1>6. ASSUME NEW i \in 1..n
      PROVE  f[i] \in Sched!Segment /\ Sched!WellFormed(f[i])
  <2>1. f[i] = [begin |-> SegmentBegin(Total, n, i), size |-> SegmentSize(Total, n, i),
                credit |-> 0, retries |-> 0, finished |-> FALSE]
    BY <1>3
  <2>2. f[i].credit = 0 /\ f[i].finished = FALSE /\ f[i].size \in Nat \ {0}
    BY <2>1, <1>4, <1>5
  <2>3. f[i] \in Sched!Segment
    BY <2>1, <1>1, <1>4, <1>5 DEF Sched!Segment
  <2>4. Sched!WellFormed(f[i])
    BY <2>2 DEF Sched!WellFormed
  <2> QED BY <2>3, <2>4
<1>7. f \in Seq(Sched!Segment)
  BY <1>2, <1>3, <1>6
<1> QED BY <1>2, <1>4, <1>5, <1>6, <1>7 DEF f

\* p is cut like f, each segment credited at most its size and finished
\* exactly when full.
CutAs(p, f) ==
  /\ p \in Seq(Sched!Segment)
  /\ SameRanges(p, f)
  /\ \A i \in 1..Len(p) : Sched!WellFormed(p[i])

\* The plans are exactly the well-formed cuts of a fresh plan.
LEMMA PlanIsCut == ASSUME NEW p \in AllPlans PROVE \E ranges \in BOOLEAN : CutAs(p, Fresh(ranges))
<1>1. PICK ranges \in BOOLEAN :
        \E c \in [1..Len(Fresh(ranges)) -> 0..Total], r \in [1..Len(Fresh(ranges)) -> 0..MaxRetries] :
          /\ \A i \in 1..Len(Fresh(ranges)) : c[i] <= Fresh(ranges)[i].size
          /\ p = Progressed(Fresh(ranges), c, r)
  BY DEF AllPlans
<1> DEFINE f == Fresh(ranges)
<1>2. /\ Len(f) \in Nat \ {0}
      /\ \A i \in 1..Len(f) : f[i].begin \in Nat /\ f[i].size \in Nat \ {0}
  BY FreshFacts
<1> HIDE DEF f
<1>3. PICK c \in [1..Len(f) -> 0..Total], r \in [1..Len(f) -> 0..MaxRetries] :
        /\ \A i \in 1..Len(f) : c[i] <= f[i].size
        /\ p = Progressed(f, c, r)
  BY <1>1 DEF f
<1>4. ASSUME NEW i \in 1..Len(f)
      PROVE  /\ p[i] \in Sched!Segment /\ Sched!WellFormed(p[i])
             /\ p[i].begin = f[i].begin /\ p[i].size = f[i].size
  <2>1. p[i] = [begin |-> f[i].begin, size |-> f[i].size, credit |-> c[i],
                retries |-> r[i], finished |-> c[i] = f[i].size]
    BY <1>3 DEF Progressed
  <2>2. c[i] \in Nat /\ c[i] <= f[i].size /\ r[i] \in 0..MaxRetries
    BY <1>3, RuntimeAssumption
  <2> DEFINE full == c[i] = f[i].size
  <2>3. full \in BOOLEAN /\ (full <=> c[i] = f[i].size)
    OBVIOUS
  <2>4. p[i] = [begin |-> f[i].begin, size |-> f[i].size, credit |-> c[i],
                retries |-> r[i], finished |-> full]
    BY <2>1, Zenon
  <2> HIDE DEF full
  <2>5. /\ p[i].begin = f[i].begin /\ p[i].size = f[i].size /\ p[i].credit = c[i]
        /\ p[i].finished = full
    BY <2>4
  <2>6. Sched!WellFormed(p[i])
    BY <2>2, <2>3, <2>5 DEF Sched!WellFormed
  <2>7. p[i] \in Sched!Segment
    BY <2>2, <2>3, <2>4, <1>2 DEF Sched!Segment
  <2> QED BY <2>5, <2>6, <2>7
<1>5. Len(p) = Len(f) /\ DOMAIN p = 1..Len(f)
  BY <1>2, <1>3 DEF Progressed
<1>6. p \in Seq(Sched!Segment)
  BY <1>2, <1>3, <1>4, <1>5 DEF Progressed
<1> QED BY <1>4, <1>5, <1>6 DEF CutAs, SameRanges, f

\* A cut of a fresh plan is a plan: the same ranges, with credits, retries and
\* flags of their own.
LEMMA CutIsPlan == ASSUME NEW p, NEW ranges \in BOOLEAN, CutAs(p, Fresh(ranges)) PROVE p \in AllPlans
<1> DEFINE f == Fresh(ranges)
           c == [i \in 1..Len(f) |-> p[i].credit]
           r == [i \in 1..Len(f) |-> p[i].retries]
<1>1. /\ Len(f) \in Nat \ {0}
      /\ \A i \in 1..Len(f) : /\ f[i].begin \in Nat /\ f[i].size \in Nat
                              /\ f[i].begin + f[i].size <= Total
  BY FreshFacts
<1>2. Total \in Nat
  BY RuntimeAssumption
<1>3. CutAs(p, f)
  OBVIOUS
<1> HIDE DEF f
<1>4. /\ Len(p) = Len(f)
      /\ \A i \in 1..Len(f) : /\ p[i] \in Sched!Segment /\ Sched!WellFormed(p[i])
                              /\ p[i].begin = f[i].begin /\ p[i].size = f[i].size
  BY <1>1, <1>3 DEF CutAs, SameRanges
<1>5. \A i \in 1..Len(f) : /\ p[i].credit \in Nat /\ p[i].credit <= f[i].size
                           /\ p[i].retries \in 0..MaxRetries
  BY <1>4 DEF Sched!Segment, Sched!WellFormed
<1>6. c \in [1..Len(f) -> 0..Total] /\ r \in [1..Len(f) -> 0..MaxRetries]
  <2>1. \A i \in 1..Len(f) : p[i].credit \in 0..Total
    BY <1>1, <1>2, <1>5
  <2> QED BY <2>1, <1>5
<1>7. \A i \in 1..Len(f) : c[i] <= f[i].size
  BY <1>1, <1>5
<1>8. ASSUME NEW i \in 1..Len(f)
      PROVE  p[i] = [begin |-> f[i].begin, size |-> f[i].size, credit |-> c[i], retries |-> r[i],
                     finished |-> c[i] = f[i].size]
  <2>1. p[i].finished \in BOOLEAN
    BY <1>4 DEF Sched!Segment
  <2>2. p[i].finished <=> c[i] = f[i].size
    BY <1>4 DEF Sched!WellFormed
  <2>3. p[i].finished = (c[i] = f[i].size)
    BY <2>1, <2>2, Zenon
  <2>4. p[i] = [begin |-> p[i].begin, size |-> p[i].size, credit |-> p[i].credit,
                retries |-> p[i].retries, finished |-> p[i].finished]
    BY <1>4 DEF Sched!Segment
  <2>5. p[i].begin = f[i].begin /\ p[i].size = f[i].size /\ p[i].credit = c[i] /\ p[i].retries = r[i]
    BY <1>4
  <2> HIDE DEF c, r
  <2> QED BY <2>3, <2>4, <2>5, Zenon
<1>9. p = Progressed(f, c, r)
  <2> DEFINE s(i) == [begin |-> f[i].begin, size |-> f[i].size, credit |-> c[i], retries |-> r[i],
                      finished |-> c[i] = f[i].size]
  <2>1. \A i \in 1..Len(f) : p[i] = s(i)
    BY <1>8
  <2>2. Progressed(f, c, r) = [i \in 1..Len(f) |-> s(i)]
    BY DEF Progressed
  <2>3. p = [i \in 1..Len(f) |-> p[i]]
    BY <1>3, <1>4 DEF CutAs
  <2> HIDE DEF s
  <2> QED BY <2>1, <2>2, <2>3
<1> HIDE DEF c, r
<1> QED BY <1>6, <1>7, <1>9 DEF AllPlans, f

\* A plan is a non-empty sequence of segments inside the resource, each
\* credited at most its size and finished exactly when full.
LEMMA PlanFacts ==
  ASSUME NEW p \in AllPlans
  PROVE  /\ Len(p) \in Nat \ {0}
         /\ p # <<>>
         /\ p \in Seq(Sched!Segment)
         /\ \A i \in 1..Len(p) : Sched!WellFormed(p[i]) /\ p[i].begin + p[i].size <= Total
<1>1. PICK ranges \in BOOLEAN : CutAs(p, Fresh(ranges))
  BY PlanIsCut
<1>2. /\ Len(Fresh(ranges)) \in Nat \ {0}
      /\ \A i \in 1..Len(Fresh(ranges)) : Fresh(ranges)[i].begin + Fresh(ranges)[i].size <= Total
  BY FreshFacts
<1>3. Len(p) = Len(Fresh(ranges))
  BY <1>1 DEF CutAs, SameRanges
<1>4. p # <<>>
  BY <1>2, <1>3
<1> QED BY <1>1, <1>2, <1>3, <1>4 DEF CutAs, SameRanges

\* The plans of the runtime are as the scheduler assumes.
LEMMA PlansFitScheduler == SP!SchedulerAssumption
<1>1. \A p \in AllPlans : p \in Seq(SP!Segment)
  BY PlanFacts DEF Sched!Segment, SP!Segment
<1>2. \A p \in AllPlans : p # <<>> /\ \A i \in 1..Len(p) : SP!WellFormed(p[i])
  BY PlanFacts DEF Sched!WellFormed, SP!WellFormed
<1>3. MaxActive \in Nat \ {0} /\ MaxRetries \in Nat /\ 0..Total \subseteq Nat
  BY RuntimeAssumption
<1> QED BY <1>1, <1>2, <1>3 DEF SP!SchedulerAssumption

\* The plan of a new transfer is a plan of the runtime.
LEMMA FreshIsPlan == ASSUME NEW ranges \in BOOLEAN PROVE Fresh(ranges) \in AllPlans
BY FreshFacts, CutIsPlan DEF CutAs, SameRanges

\* What a checkpoint gives back is a plan.
LEMMA RestoredIsPlan ==
  ASSUME NEW ranges \in BOOLEAN, NEW source, NEW tag, NEW saved \in Checkpoints
  PROVE  ApplyCheckpoint(Fresh(ranges), source, tag, saved) \in AllPlans
<1> DEFINE f == Fresh(ranges)
           p == ApplyCheckpoint(f, source, tag, saved)
           s == saved.plan
<1>1. CASE p = f
  BY <1>1, FreshIsPlan
<1>2. CASE p # f
  <2>1. /\ SameRanges(f, s)
        /\ p = [i \in 1..Len(f) |-> Restored(f[i], s[i])]
    BY <1>2 DEF ApplyCheckpoint
  <2>2. s \in AllPlans
    BY DEF Checkpoints
  <2>3. /\ s \in Seq(Sched!Segment)
        /\ \A i \in 1..Len(s) : Sched!WellFormed(s[i])
    BY <2>2, PlanFacts
  <2>4. /\ Len(f) \in Nat \ {0}
        /\ \A i \in 1..Len(f) : f[i].begin \in Nat /\ f[i].size \in Nat \ {0}
    BY FreshFacts
  <2> HIDE DEF f, p, s
  <2>5. ASSUME NEW i \in 1..Len(f)
        PROVE  /\ p[i] \in Sched!Segment /\ Sched!WellFormed(p[i])
               /\ p[i].begin = f[i].begin /\ p[i].size = f[i].size
    <3>1. s[i].size = f[i].size /\ s[i].begin = f[i].begin /\ i \in 1..Len(s)
      BY <2>1 DEF SameRanges
    <3>2. s[i] \in Sched!Segment /\ Sched!WellFormed(s[i])
      BY <3>1, <2>3
    <3>3. p[i] = [begin |-> f[i].begin, size |-> f[i].size, credit |-> s[i].credit,
                  retries |-> s[i].retries, finished |-> s[i].finished \/ s[i].credit = f[i].size]
      BY <2>1 DEF Restored
    <3>4. (s[i].finished \/ s[i].credit = f[i].size) = s[i].finished
      <4>1. s[i].finished \in BOOLEAN
        BY <3>2 DEF Sched!Segment
      <4>2. s[i].credit = f[i].size <=> s[i].finished
        BY <3>1, <3>2 DEF Sched!WellFormed
      <4> QED BY <4>1, <4>2, Zenon
    <3>5. p[i] = [begin |-> s[i].begin, size |-> s[i].size, credit |-> s[i].credit,
                  retries |-> s[i].retries, finished |-> s[i].finished]
      BY <3>1, <3>3, <3>4, Zenon
    <3>6. p[i] = s[i]
      BY <3>2, <3>5 DEF Sched!Segment
    <3> QED BY <3>1, <3>2, <3>6
  <2>6. Len(p) = Len(f) /\ p \in Seq(Sched!Segment)
    BY <2>1, <2>4, <2>5
  <2>7. CutAs(p, f)
    BY <2>5, <2>6 DEF CutAs, SameRanges
  <2> QED BY <2>7, CutIsPlan DEF f, p
<1> QED BY <1>1, <1>2

\* A segment request leaves a plan a plan.
LEMMA AdvancedIsPlan ==
  ASSUME NEW p \in AllPlans, NEW i \in 1..Len(p), NEW n \in Nat,
         NEW done \in BOOLEAN, NEW again \in BOOLEAN
  PROVE  [p EXCEPT ![i] = Sched!Advanced(p[i], n, done, again)] \in AllPlans
<1> DEFINE g == Sched!Advanced(p[i], n, done, again)
           q == [p EXCEPT ![i] = g]
<1>1. PICK ranges \in BOOLEAN : CutAs(p, Fresh(ranges))
  BY PlanIsCut
<1>2. p \in Seq(Sched!Segment) /\ \A j \in 1..Len(p) : Sched!WellFormed(p[j])
  BY PlanFacts
<1>3. p[i] \in Sched!Segment /\ Sched!WellFormed(p[i])
  BY <1>2
<1>4. g \in Sched!Segment /\ Sched!WellFormed(g)
  <2>1. p[i] \in SP!Segment /\ SP!WellFormed(p[i])
    BY <1>3 DEF Sched!Segment, SP!Segment, Sched!WellFormed, SP!WellFormed
  <2>2. g = SP!Advanced(p[i], n, done, again)
    BY DEF Sched!Advanced, SP!Advanced, Sched!AtMost, SP!AtMost
  <2>3. g \in SP!Segment /\ SP!WellFormed(g)
    BY <2>1, <2>2, PlansFitScheduler, SP!AdvancedIsWellFormed
  <2> QED BY <2>3 DEF Sched!Segment, SP!Segment, Sched!WellFormed, SP!WellFormed
<1>5. g.begin = p[i].begin /\ g.size = p[i].size
  BY <1>3 DEF Sched!Advanced, Sched!Segment
<1> HIDE DEF g
<1>6. /\ q \in Seq(Sched!Segment) /\ Len(q) = Len(p)
      /\ \A j \in 1..Len(p) : q[j] = IF j = i THEN g ELSE p[j]
  BY <1>2, <1>4
<1> HIDE DEF q
<1>7. CutAs(q, Fresh(ranges))
  BY <1>1, <1>2, <1>4, <1>5, <1>6 DEF CutAs, SameRanges
<1> QED BY <1>7, CutIsPlan DEF q, g

----------------------------------------------------------------------------
(* The scheduler of the runtime is the one its theorems are about. *)

\* Every call of the runtime into its scheduler is a call the scheduler's proofs
\* know.
LEMMA SameOwnerCall == ASSUME NEW id \in Ids, Sched!OwnerCall(id) PROVE SP!OwnerCall(id)
BY DEF Sched!OwnerCall, Sched!Queue, Sched!QueuePaused, Sched!Pause, Sched!Resume, Sched!Cancel,
       Sched!CancelAndQueue, Sched!Removed, Sched!BetweenPumps, Sched!Contains, Sched!Waiting,
       Sched!Without, Sched!Elements,
       SP!OwnerCall, SP!Queue, SP!QueuePaused, SP!Pause, SP!Resume, SP!Cancel,
       SP!CancelAndQueue, SP!Removed, SP!BetweenPumps, SP!Contains, SP!Waiting,
       SP!Without, SP!Elements

\* Every step of the runtime's scheduler in a pump is a step the scheduler's
\* proofs know, with a plan and a report of theirs.
LEMMA SamePump == Sched!Pump => SP!Pump
<1>0. Sched!CanAdmit <=> SP!CanAdmit
  <2>1. Sched!Cardinality(active) = SP!Cardinality(active)
    BY DEF Sched!Cardinality, SP!Cardinality
  <2> QED BY <2>1 DEF Sched!CanAdmit, SP!CanAdmit
<1>1. Sched!AdmitDrop => SP!AdmitDrop
  BY <1>0 DEF Sched!AdmitDrop, SP!AdmitDrop, Sched!NextScan, SP!NextScan
<1>2. Sched!AdmitDefer => SP!AdmitDefer
  BY <1>0 DEF Sched!AdmitDefer, SP!AdmitDefer, Sched!NextScan, SP!NextScan
<1>3. Sched!AdmitReject => SP!AdmitReject
  BY <1>0 DEF Sched!AdmitReject, SP!AdmitReject, Sched!NextScan, SP!NextScan
<1>4. ASSUME NEW p \in AllPlans, Sched!AdmitStart(p) PROVE SP!AdmitStart(p)
  BY <1>0, <1>4 DEF Sched!AdmitStart, SP!AdmitStart, Sched!NextScan, SP!NextScan
<1>5. Sched!AdmitEnd => SP!AdmitEnd
  BY <1>0 DEF Sched!AdmitEnd, SP!AdmitEnd
<1>6. ASSUME NEW id \in Ids, NEW n \in 0..Total, NEW done \in BOOLEAN, NEW again \in BOOLEAN,
             Sched!Transfer(id, n, done, again)
      PROVE  SP!Transfer(id, n, done, again)
  <2>1. \A p : Sched!Unfinished(p) = SP!Unfinished(p)
    BY DEF Sched!Unfinished, SP!Unfinished
  <2>2. \A p : Sched!NextSegment(p) = SP!NextSegment(p)
    BY DEF Sched!NextSegment, SP!NextSegment, Sched!Unfinished, SP!Unfinished
  <2>3. \A seg : Sched!Advanced(seg, n, done, again) = SP!Advanced(seg, n, done, again)
    BY DEF Sched!Advanced, SP!Advanced, Sched!AtMost, SP!AtMost
  <2>4. \A q, i, seg : Sched!OutcomeAfter(q, i, Sched!GivesUp(seg, again))
                       = SP!OutcomeAfter(q, i, SP!GivesUp(seg, again))
    BY DEF Sched!OutcomeAfter, SP!OutcomeAfter, Sched!Unfinished, SP!Unfinished,
           Sched!GivesUp, SP!GivesUp
  <2> QED BY <1>6, <2>1, <2>2, <2>3, <2>4 DEF Sched!Transfer, SP!Transfer
<1>7. ASSUME NEW id \in Ids, Sched!TransferNothing(id) PROVE SP!TransferNothing(id)
  BY <1>7 DEF Sched!TransferNothing, SP!TransferNothing, Sched!Unfinished, SP!Unfinished
<1>8. Sched!TransferEnd => SP!TransferEnd
  BY DEF Sched!TransferEnd, SP!TransferEnd
<1>9. ASSUME NEW id \in Ids, Sched!Settle(id) PROVE SP!Settle(id)
  BY <1>9 DEF Sched!Settle, SP!Settle
<1>10. Sched!PumpEnd => SP!PumpEnd
  BY DEF Sched!PumpEnd, SP!PumpEnd, Sched!Leaving, SP!Leaving
<1>11. ASSUME NEW d \in SUBSET paused, Sched!PumpBegin(d) PROVE SP!PumpBegin(d)
  BY <1>11 DEF Sched!PumpBegin, SP!PumpBegin
<1> QED BY <1>1, <1>2, <1>3, <1>4, <1>5, <1>6, <1>7, <1>8, <1>9, <1>10, <1>11
        DEF Sched!Pump, SP!Pump, Sched!PumpStep, SP!PumpStep

\* The scheduler starts as the scheduler of the proofs does.
LEMMA SameInit == Sched!Init => SP!Init
BY DEF Sched!Init, SP!Init

\* The scheduler inside the runtime moves as the scheduler of the proofs does.
LEMMA SameNext == [Sched!Next]_(Sched!vars) => [SP!Next]_(SP!vars)
BY SameOwnerCall, SamePump DEF Sched!Next, SP!Next, Sched!vars, SP!vars, Sched!Rebuild, SP!Rebuild

----------------------------------------------------------------------------
(* The contents of files. *)

\* A slice of a resource is a sequence of bytes no longer than the resource.
LEMMA SliceTyped ==
  ASSUME NEW s \in Sources, NEW v \in 0..MaxVersion,
         NEW from \in Nat \ {0}, NEW to \in 0..Total, from <= to + 1
  PROVE  Slice(s, v, from, to) \in Seq(Bytes) /\ Len(Slice(s, v, from, to)) \in 0..Total
<1> DEFINE n == to + 1 - from
           Byte(k) == <<s, v, from + k - 1>>
<1>1. Total \in Nat
  BY RuntimeAssumption
<1>2. n \in 0..Total /\ n \in Nat
  BY <1>1
<1>3. ASSUME NEW k \in 1..n PROVE Byte(k) \in Bytes
  <2>1. from + k - 1 \in 1..Total
    BY <1>1
  <2> QED BY <2>1 DEF Bytes
<1>4. Slice(s, v, from, to) = [k \in 1..n |-> Byte(k)]
  BY DEF Slice
<1> HIDE DEF n, Byte
<1>5. [k \in 1..n |-> Byte(k)] \in Seq(Bytes) /\ Len([k \in 1..n |-> Byte(k)]) = n
  BY <1>2, <1>3
<1> QED BY <1>2, <1>4, <1>5

\* Whatever the network and the writer make of a segment request, the data
\* are bytes of the resource or junk, no more than the resource has.
LEMMA RepliesTyped ==
  ASSUME NEW id, NEW seg, NEW reply \in Replies(id, seg),
         rec[id].source \in Sources, version[rec[id].source] \in 0..MaxVersion,
         seg.begin \in Nat, seg.credit \in Nat, seg.size \in Nat,
         seg.credit < seg.size, seg.begin + seg.size <= Total
  PROVE  /\ reply.data \in Seq(Bytes) /\ Len(reply.data) \in 0..Total
         /\ reply.done \in BOOLEAN /\ reply.again \in BOOLEAN
<1> DEFINE src  == rec[id].source
           now  == version[src]
           from == seg.begin + seg.credit + 1
           to   == seg.begin + seg.size
           Good(data) == data \in Seq(Bytes) /\ Len(data) \in 0..Total
           Is(data, done, again) == reply = [data |-> data, done |-> done, again |-> again]
<1>1. Total \in Nat \ {0}
  BY RuntimeAssumption
<1>2. from \in Nat \ {0} /\ to \in 0..Total /\ from <= to
  BY <1>1
<1>3. src \in Sources /\ now \in 0..MaxVersion
  OBVIOUS
<1> HIDE DEF src, now, from, to
<1>4. \A k \in (from - 1)..to : Good(Slice(src, now, from, k))
  BY <1>1, <1>2, <1>3, SliceTyped
<1>5. \A k \in 0..Total : Good(Slice(src, now, 1, k))
  BY <1>1, <1>3, SliceTyped
<1>6. Good(Whole(src, now))
  BY <1>1, <1>5 DEF Whole
<1>7. \A k \in 0..Total : Good([i \in 1..k |-> Junk])
  <2>1. Junk \in Bytes
    BY DEF Bytes
  <2> QED BY <1>1, <2>1
<1>8. Good(<<>>)
  BY <1>1
<1> HIDE DEF Good
<1>9. \E data, done, again : Good(data) /\ done \in BOOLEAN /\ again \in BOOLEAN /\ Is(data, done, again)
  <2>1. \/ Is(Slice(src, now, from, to), TRUE, FALSE)
        \/ \E k \in (from - 1)..(to - 1), again \in BOOLEAN : Is(Slice(src, now, from, k), FALSE, again)
        \/ \E k \in from..(to - 1) : Is(Slice(src, now, from, k), TRUE, FALSE)
        \/ Is(Whole(src, now), FALSE, FALSE)
        \/ \E k \in 1..(Total - 1), again \in BOOLEAN : Is(Slice(src, now, 1, k), FALSE, again)
        \/ \E k \in 0..Total, again \in BOOLEAN : Is([i \in 1..k |-> Junk], FALSE, again)
        \/ \E again \in BOOLEAN : Is(<<>>, FALSE, again)
        \/ \E k \in (from - 1)..(to - 1) : Is(Slice(src, now, from, k), FALSE, FALSE)
        \/ \E k \in 0..(Total - 1) : Is(Slice(src, now, 1, k), FALSE, FALSE)
    BY DEF Replies, src, now, from, to
  <2>2. /\ \A k \in (from - 1)..(to - 1) : k \in (from - 1)..to
        /\ \A k \in from..(to - 1) : k \in (from - 1)..to
        /\ \A k \in 1..(Total - 1) : k \in 0..Total
        /\ \A k \in 0..(Total - 1) : k \in 0..Total
        /\ to \in (from - 1)..to
    BY <1>1, <1>2
  <2> QED BY <2>1, <2>2, <1>4, <1>5, <1>6, <1>7, <1>8
<1>10. PICK data, done, again : Good(data) /\ done \in BOOLEAN /\ again \in BOOLEAN /\ Is(data, done, again)
  BY <1>9
<1>11. reply.data = data /\ reply.done = done /\ reply.again = again
  BY <1>10
<1> QED BY <1>10, <1>11 DEF Good

\* Writing at an offset leaves a file a sequence of bytes.
LEMMA WriteAtTyped ==
  ASSUME NEW file \in {None} \cup Seq(Bytes), NEW offset \in Nat, NEW data \in Seq(Bytes)
  PROVE  /\ WriteAt(file, offset, data) \in {None} \cup Seq(Bytes)
         /\ file # None => WriteAt(file, offset, data) \in Seq(Bytes)
<1>1. CASE file = None \/ data = <<>>
  BY <1>1 DEF WriteAt
<1>2. CASE file # None /\ data # <<>>
  <2> DEFINE end == IF offset + Len(data) > Len(file) THEN offset + Len(data) ELSE Len(file)
             Byte(k) == IF k > offset /\ k <= offset + Len(data) THEN data[k - offset]
                        ELSE IF k <= Len(file) THEN file[k] ELSE Hole
  <2>1. file \in Seq(Bytes)
    BY <1>2
  <2>2. Len(file) \in Nat /\ Len(data) \in Nat /\ end \in Nat
    BY <2>1, LenProperties
  <2>3. Hole \in Bytes
    BY DEF Bytes
  <2>4. ASSUME NEW k \in 1..end PROVE Byte(k) \in Bytes
    <3>1. CASE k > offset /\ k <= offset + Len(data)
      <4>1. k - offset \in 1..Len(data)
        BY <3>1, <2>2
      <4>2. data[k - offset] \in Bytes
        BY <4>1, ElementOfSeq
      <4> QED BY <3>1, <4>2
    <3>2. CASE ~(k > offset /\ k <= offset + Len(data)) /\ k <= Len(file)
      <4>1. file[k] \in Bytes
        BY <3>2, <2>1, <2>2, ElementOfSeq
      <4> QED BY <3>2, <4>1
    <3>3. CASE ~(k > offset /\ k <= offset + Len(data)) /\ ~(k <= Len(file))
      BY <3>3, <2>3
    <3> QED BY <3>1, <3>2, <3>3
  <2>5. WriteAt(file, offset, data) = [k \in 1..end |-> Byte(k)]
    BY <1>2 DEF WriteAt
  <2> HIDE DEF end, Byte
  <2>6. [k \in 1..end |-> Byte(k)] \in Seq(Bytes)
    BY <2>2, <2>4
  <2> QED BY <2>5, <2>6
<1> QED BY <1>1, <1>2

----------------------------------------------------------------------------
(* The records and the files of the disk. *)

MaybeRecords == [Ids -> {None} \cup Records]

\* Saving the queue leaves queue.tsv a table of records, whatever fails.
LEMMA PersistTyped ==
  ASSUME NEW r \in MaybeRecords, store \in MaybeRecords, Persist(r)
  PROVE  store' \in MaybeRecords
<1>1. Saved(r) \in MaybeRecords
  BY DEF Saved, MaybeRecords
<1>2. NoRecords \in MaybeRecords
  BY DEF NoRecords, MaybeRecords
<1> QED BY <1>1, <1>2 DEF Persist

\* A change of state leaves every record a record, of the same download.
LEMMA SetStateTyped ==
  ASSUME rec \in MaybeRecords, store \in MaybeRecords,
         NEW id \in Ids, rec[id] # None, NEW s \in States, SetState(id, s)
  PROVE  /\ rec' \in MaybeRecords /\ store' \in MaybeRecords
         /\ \A j \in Ids : rec[j] # None => rec'[j] # None /\ rec'[j].file = rec[j].file
<1>1. rec[id] \in Records
  BY DEF MaybeRecords
<1>2. /\ [rec[id] EXCEPT !.state = s] \in Records
      /\ [rec[id] EXCEPT !.state = s].file = rec[id].file
  BY <1>1 DEF Records
<1>3. rec' = [rec EXCEPT ![id] = [rec[id] EXCEPT !.state = s]]
  BY DEF SetState, WithState, MaybeRecords
<1>4. rec' \in MaybeRecords
  BY <1>2, <1>3 DEF MaybeRecords
<1>5. store' \in MaybeRecords
  BY <1>4, PersistTyped DEF SetState
<1>6. ASSUME NEW j \in Ids, rec[j] # None PROVE rec'[j] # None /\ rec'[j].file = rec[j].file
  BY <1>2, <1>3, <1>6, NoneAssumption DEF MaybeRecords
<1> QED BY <1>4, <1>5, <1>6

Staging == [Ids -> [Files -> {None} \cup Seq(Bytes)]]

\* A staged file replaced by another.
LEMMA PartTyped ==
  ASSUME part \in Staging, NEW id \in Ids, NEW file \in Files, NEW new \in {None} \cup Seq(Bytes)
  PROVE  /\ [part EXCEPT ![id][file] = new] \in Staging
         /\ [part EXCEPT ![id][file] = new][id][file] = new
BY DEF Staging

\* Opening a staged file, new or old, leaves the staging directory well typed.
LEMMA PreparedTyped ==
  ASSUME part \in Staging, NEW id \in Ids, NEW file \in Files
  PROVE  Prepared(id, file) \in Staging
<1> DEFINE new == IF part[id][file] = None THEN <<>> ELSE part[id][file]
<1>1. new \in {None} \cup Seq(Bytes)
  BY DEF Staging
<1>2. Prepared(id, file) = [part EXCEPT ![id][file] = new]
  BY DEF Prepared, Staging
<1> HIDE DEF new
<1> QED BY <1>1, <1>2 DEF Staging

FinalFiles == [Files -> {None} \cup Releases]

\* Disowning a file changes no content.
LEMMA DisownKeeps ==
  ASSUME final \in FinalFiles, NEW id
  PROVE  /\ Disown(id) \in FinalFiles
         /\ \A f \in Files : /\ Disown(id)[f] = None <=> final[f] = None
                             /\ final[f] # None => Disown(id)[f].bytes = final[f].bytes
<1>1. ASSUME NEW f \in Files, final[f] # None
      PROVE  /\ [final[f] EXCEPT !.by = None] \in Releases
             /\ [final[f] EXCEPT !.by = None].bytes = final[f].bytes
  <2>1. final[f] \in Releases
    BY <1>1 DEF FinalFiles
  <2> QED BY <2>1 DEF Releases
<1>2. \A f \in Files : Disown(id)[f] = IF final[f] # None /\ final[f].by = id
                                       THEN [final[f] EXCEPT !.by = None] ELSE final[f]
  BY DEF Disown
<1>3. Disown(id) \in FinalFiles
  BY <1>1 DEF Disown, FinalFiles
<1>4. ASSUME NEW f \in Files
      PROVE  /\ Disown(id)[f] = None <=> final[f] = None
             /\ final[f] # None => Disown(id)[f].bytes = final[f].bytes
  BY <1>1, <1>2, NoneAssumption
<1> QED BY <1>3, <1>4

SavedCheckpoints == [Ids -> {None} \cup Checkpoints]

\* Saving and erasing a checkpoint leaves the checkpoint store well typed.
LEMMA CheckpointsTyped ==
  ASSUME ckpt \in SavedCheckpoints, NEW id \in Ids,
         \/ \E c \in Checkpoints : SaveCheckpoint(id, c)
         \/ EraseCheckpoint(id)
  PROVE  ckpt' \in SavedCheckpoints
BY DEF SavedCheckpoints, SaveCheckpoint, EraseCheckpoint

----------------------------------------------------------------------------
(* The inductive invariant. *)

\* The files and tables of the disk and the records, and the other variables.
DiskTyped ==
  /\ rec \in MaybeRecords /\ store \in MaybeRecords
  /\ part \in Staging /\ final \in FinalFiles /\ ckpt \in SavedCheckpoints

RestTyped ==
  /\ nextId \in 1..(MaxId + 1)
  /\ waiting \subseteq Ids /\ opened \subseteq Ids
  /\ etag \in [Ids -> 0..MaxVersion]
  /\ job \in Jobs
  /\ boot \in MaybeRecords /\ running \in BOOLEAN
  /\ version \in [Sources -> 0..MaxVersion]
  /\ due \in BOOLEAN /\ crashes \in 0..MaxCrashes

\* The scheduler's own invariant, the plans of the runtime, and what the
\* runtime relies on when it calls the scheduler.
SchedulerOK ==
  /\ SP!IInv
  /\ \A id \in Ids : plan[id] \in AllPlans \cup {<<>>}
  /\ turn \subseteq active
  /\ waiting \subseteq paused

\* The scheduler knows only downloads that have a record.
Known == \A id \in Ids : Sched!Contains(id) => rec[id] # None

\* Where a callback is: it runs inside a pump of a running process, for a
\* download with a record; from the scan on it holds the digest it sent, and
\* from the second digest on the staged file has that digest and the decision
\* was to release it.
JobOK ==
  /\ job.step # "none" => running /\ stage # "idle" /\ job.id \in Ids /\ rec[job.id] # None
  /\ job.step = "report" => plan[job.id] # <<>>
  /\ job.step \in {"scan", "recheck", "remove", "rename"} => job.digest \in Contents
  /\ job.step \in {"remove", "rename"} => Staged(job.id) = job.digest
  /\ job.step \in {"recheck", "remove", "rename"} => job.verdict = "allow"
  /\ job.step \in {"forget", "conclude"} => job.verdict \in VerdictKinds
  /\ job.verdict = "allow" => job.step \in {"recheck", "remove", "rename", "forget", "conclude"}

\* Records are restored only while the constructor runs.
BootOK == running => boot = NoRecords

RInv == TypeOK /\ SchedulerOK /\ Known /\ JobOK /\ BootOK

\* The type invariant in two parts: the disk, and the process with the world.
LEMMA TypeParts == TypeOK <=> DiskTyped /\ RestTyped
BY DEF TypeOK, DiskTyped, RestTyped, MaybeRecords, Staging, FinalFiles, SavedCheckpoints

\* What the scheduler's invariant says of the ids it holds.
LEMMA SchedulerIds ==
  ASSUME SchedulerOK
  PROVE  /\ active \subseteq Ids /\ turn \subseteq Ids /\ paused \subseteq Ids
         /\ pending # <<>> => Head(pending) \in Ids /\ Sched!Contains(Head(pending))
         /\ \A id \in Ids : id \in active <=> plan[id] # <<>>
         /\ plan \in [Ids -> Seq(Sched!Segment)]
<1>1. SP!TypeOK /\ SP!CreditMatches
  BY DEF SchedulerOK, SP!IInv
<1>2. pending \in Seq(Ids)
  BY <1>1 DEF SP!TypeOK
<1>3. ASSUME pending # <<>> PROVE Head(pending) \in Ids /\ Sched!Contains(Head(pending))
  <2>1. 1 \in 1..Len(pending) /\ Head(pending) = pending[1]
    BY <1>2, <1>3, EmptySeq, LenProperties
  <2>2. Head(pending) \in Ids
    BY <2>1, <1>2
  <2> QED BY <2>1, <2>2 DEF Sched!Contains, Sched!Waiting, Sched!Elements
<1> QED BY <1>1, <1>3 DEF SP!TypeOK, SP!CreditMatches, Sched!Segment, SP!Segment

\* The invariant holds initially.
LEMMA InitRInv == Init => RInv
<1> SUFFICES ASSUME Init PROVE RInv
  OBVIOUS
<1>0. MaxVersion \in Nat /\ MaxCrashes \in Nat /\ MaxId \in Nat \ {0}
  BY RuntimeAssumption
<1>1. DiskTyped
  BY DEF Init, NoRecords, DiskTyped, MaybeRecords, Staging, FinalFiles, SavedCheckpoints
<1>2. NoJob \in Jobs
  BY DEF NoJob, Jobs, Steps
<1>3. RestTyped
  <2>1. nextId \in 1..(MaxId + 1) /\ crashes \in 0..MaxCrashes
    BY <1>0 DEF Init
  <2>2. etag \in [Ids -> 0..MaxVersion] /\ version \in [Sources -> 0..MaxVersion]
    BY <1>0 DEF Init
  <2>3. boot \in MaybeRecords
    BY DEF Init, NoRecords, MaybeRecords
  <2> QED BY <1>2, <2>1, <2>2, <2>3 DEF Init, RestTyped
<1>4. SP!IInv
  BY SameInit, SP!InitIInv, PlansFitScheduler DEF Init
<1>5. SchedulerOK
  BY <1>4 DEF SchedulerOK, Init, Sched!Init
<1>6. Known
  BY DEF Known, Init, Sched!Init, Sched!Contains, Sched!Waiting, Sched!Elements
<1>7. JobOK
  BY DEF JobOK, Init, NoJob
<1>8. BootOK
  BY DEF BootOK, Init
<1> QED BY <1>1, <1>3, <1>5, <1>6, <1>7, <1>8, TypeParts DEF RInv

----------------------------------------------------------------------------
(* The runtime drives its scheduler as the scheduler allows. *)

\* The next segment of a plan is one that is not finished.
LEMMA NextIsUnfinished ==
  ASSUME NEW p, Sched!Unfinished(p) # {}, Len(p) \in Nat
  PROVE  Sched!NextSegment(p) \in Sched!Unfinished(p)
<1> DEFINE U == Sched!Unfinished(p)
           R == {ss \in Nat \X Nat : ss[1] < ss[2]}
<1>1. U \subseteq Nat
  BY DEF Sched!Unfinished
<1>2. IsWellFoundedOn(R, Nat)
  BY NatLessThanWellFounded DEF OpToRel
<1>3. PICK n \in U : \A m \in U : ~(<<m, n>> \in R)
  <2> HIDE DEF R, U
  <2> QED BY <1>1, <1>2, WFMin DEF U
<1>4. ASSUME NEW m \in U PROVE n <= m
  <2>1. m \in Nat /\ n \in Nat
    BY <1>1
  <2>2. ~(<<m, n>> \in R)
    BY <1>3
  <2>3. ~(m < n)
    BY <2>1, <2>2
  <2> QED BY <2>1, <2>3
<1> QED BY <1>4 DEF Sched!NextSegment

\* The segment a transfer requests, and what comes back.
LEMMA TransferFacts ==
  ASSUME RInv, NEW id \in Ids, id \in turn, Sched!Unfinished(plan[id]) # {}
  PROVE  LET i   == Sched!NextSegment(plan[id])
             seg == plan[id][i]
         IN  /\ plan[id] \in AllPlans /\ i \in 1..Len(plan[id])
             /\ rec[id] \in Records
             /\ seg.begin + seg.credit \in Nat
             /\ \A reply \in Replies(id, seg) :
                  /\ reply.data \in Seq(Bytes) /\ Len(reply.data) \in 0..Total
                  /\ reply.done \in BOOLEAN /\ reply.again \in BOOLEAN
<1> DEFINE p   == plan[id]
           i   == Sched!NextSegment(p)
           seg == p[i]
<1>1. SchedulerOK /\ Known /\ DiskTyped /\ RestTyped
  BY TypeParts DEF RInv
<1>2. p \in AllPlans
  <2>1. id \in active
    BY <1>1 DEF SchedulerOK
  <2> QED BY <2>1, <1>1, SchedulerIds DEF SchedulerOK
<1>3. rec[id] \in Records
  <2>1. id \in active
    BY <1>1 DEF SchedulerOK
  <2>2. rec[id] # None
    BY <2>1, <1>1 DEF Known, Sched!Contains
  <2> QED BY <2>2, <1>1 DEF DiskTyped, MaybeRecords
<1>4. /\ Len(p) \in Nat /\ p \in Seq(Sched!Segment)
      /\ \A j \in 1..Len(p) : Sched!WellFormed(p[j]) /\ p[j].begin + p[j].size <= Total
  BY <1>2, PlanFacts
<1>5. i \in Sched!Unfinished(p)
  BY <1>4, NextIsUnfinished
<1>6. i \in 1..Len(p) /\ ~seg.finished
  BY <1>5 DEF Sched!Unfinished
<1>7. seg \in Sched!Segment /\ Sched!WellFormed(seg) /\ seg.begin + seg.size <= Total
  BY <1>4, <1>6
<1>8. rec[id].source \in Sources /\ version[rec[id].source] \in 0..MaxVersion
  BY <1>1, <1>3 DEF Records, RestTyped
<1> HIDE DEF seg, i, p
<1>9. /\ seg.begin \in Nat /\ seg.credit \in Nat /\ seg.size \in Nat
      /\ seg.credit < seg.size
  <2>1. /\ seg.begin \in Nat /\ seg.credit \in Nat /\ seg.size \in Nat
        /\ seg.finished \in BOOLEAN
    BY <1>7 DEF Sched!Segment
  <2>2. seg.credit <= seg.size /\ seg.credit # seg.size
    BY <1>6, <1>7, <2>1 DEF Sched!WellFormed
  <2> QED BY <2>1, <2>2
<1>10. \A reply \in Replies(id, seg) :
          /\ reply.data \in Seq(Bytes) /\ Len(reply.data) \in 0..Total
          /\ reply.done \in BOOLEAN /\ reply.again \in BOOLEAN
  BY <1>7, <1>8, <1>9, RepliesTyped
<1>11. seg.begin + seg.credit \in Nat
  BY <1>9
<1> QED BY <1>2, <1>3, <1>6, <1>10, <1>11 DEF seg, i, p

\* The user's operations reach the scheduler as one call of its owner.
LEMMA UserDrives == ASSUME User PROVE [Sched!Next]_(Sched!vars)
<1>1. ASSUME NEW id \in Ids, Sched!OwnerCall(id) PROVE Sched!Next
  BY <1>1 DEF Sched!Next
<1>2. ASSUME NEW r \in Requests, NEW id \in Ids, Enqueue(r, id) PROVE Sched!OwnerCall(id)
  BY <1>2 DEF Enqueue, Sched!OwnerCall
<1>3. ASSUME NEW r \in Requests, NEW id \in Ids, EnqueueFails(r, id) PROVE UNCHANGED Sched!vars
  BY <1>3 DEF EnqueueFails, schedVars, Sched!vars
<1>4. ASSUME NEW id \in Ids,
             \/ Pause(id) \/ Resume(id) \/ \E discard \in BOOLEAN : Cancel(id, discard)
             \/ Restart(id) \/ RestartFails(id)
      PROVE  Sched!OwnerCall(id)
  BY <1>4 DEF Pause, Resume, Cancel, Restart, RestartFails, Sched!OwnerCall
<1> QED BY <1>1, <1>2, <1>3, <1>4 DEF User

\* So do the steps of the pump and the callbacks, as steps of the scheduler's.
LEMMA PumpDrives == ASSUME RInv, Pump PROVE Sched!Pump \/ UNCHANGED Sched!vars
<1> SUFFICES ASSUME ~UNCHANGED Sched!vars PROVE Sched!Pump
  OBVIOUS
<1>0. SchedulerOK /\ Known /\ JobOK /\ DiskTyped
  BY TypeParts DEF RInv
<1>1. ASSUME NEW id \in Ids, Sched!Settle(id) PROVE Sched!Pump
  BY <1>1 DEF Sched!Pump, Sched!PumpStep
<1>2. CASE PumpBegin
  <2> DEFINE released == {id \in waiting : ~FutureStart(rec[id])}
  <2>1. released \subseteq paused
    BY <1>0 DEF SchedulerOK
  <2>2. Sched!PumpBegin(released)
    BY <1>2 DEF PumpBegin
  <2> HIDE DEF released
  <2> QED BY <2>1, <2>2 DEF Sched!Pump
<1>3. CASE AdmitSkip
  BY <1>3 DEF AdmitSkip, Sched!Pump, Sched!PumpStep
<1>4. CASE AdmitReject
  BY <1>4 DEF AdmitReject, Sched!Pump, Sched!PumpStep
<1>5. CASE AdmitStart
  <2> DEFINE id == Head(pending)
             tag == version[rec[id].source]
             P(ranges) == IF ckpt[id] = None THEN Fresh(ranges)
                          ELSE ApplyCheckpoint(Fresh(ranges), rec[id].source, tag, ckpt[id])
  <2>1. PICK ranges \in RangeSupport : Sched!AdmitStart(P(ranges))
    BY <1>5 DEF AdmitStart
  <2>2. ranges \in BOOLEAN
    BY RuntimeAssumption
  <2>3. id \in Ids
    BY <1>0, <1>5, SchedulerIds DEF AdmitStart
  <2>4. ckpt[id] = None \/ ckpt[id] \in Checkpoints
    BY <2>3, <1>0 DEF DiskTyped, SavedCheckpoints
  <2> HIDE DEF id, tag
  <2>5. P(ranges) \in AllPlans
    BY <2>2, <2>4, FreshIsPlan, RestoredIsPlan
  <2> QED BY <2>1, <2>5 DEF Sched!Pump, Sched!PumpStep
<1>6. CASE AdmitEnd
  BY <1>6 DEF AdmitEnd, Sched!Pump, Sched!PumpStep
<1>7. ASSUME NEW id \in Ids, Transfer(id) PROVE Sched!Pump
  <2> DEFINE seg == plan[id][Sched!NextSegment(plan[id])]
  <2>1. PICK reply \in Replies(id, seg) : Sched!Transfer(id, Len(reply.data), reply.done, reply.again)
    BY <1>7 DEF Transfer
  <2>2. Len(reply.data) \in 0..Total /\ reply.done \in BOOLEAN /\ reply.again \in BOOLEAN
    BY <1>7, TransferFacts DEF Transfer
  <2> QED BY <2>1, <2>2 DEF Sched!Pump, Sched!PumpStep
<1>8. ASSUME NEW id \in Ids, TransferNothing(id) PROVE Sched!Pump
  BY <1>8 DEF TransferNothing, Sched!Pump, Sched!PumpStep
<1>9. ASSUME NEW id \in Ids, SettleFailed(id) PROVE Sched!Pump
  BY <1>9, <1>1 DEF SettleFailed
<1>10. ASSUME NEW id \in Ids, BeginVerify(id) PROVE FALSE
  BY <1>10 DEF BeginVerify, schedVars, Sched!vars
<1>11. CASE TransferEnd
  BY <1>11 DEF TransferEnd, Sched!Pump, Sched!PumpStep
<1>12. CASE PumpEnd
  BY <1>12 DEF PumpEnd, Sched!Pump, Sched!PumpStep
<1>13. CASE Report \/ ReportRunning \/ Scan \/ Recheck \/ Forget
  BY <1>13 DEF Report, ReportRunning, Scan, Recheck, Forget, schedVars, Sched!vars
<1>14. CASE CheckSize \/ CommitRemove \/ CommitRename \/ Conclude
  <2>1. job.id \in Ids
    BY <1>14, <1>0 DEF CheckSize, CommitRemove, CommitRename, Conclude, JobAt, JobOK
  <2>2. Sched!Settle(job.id)
    BY <1>14 DEF CheckSize, CommitRemove, CommitRename, Conclude, FailJob, schedVars, Sched!vars
  <2> QED BY <2>1, <2>2, <1>1
<1> QED BY <1>2, <1>3, <1>4, <1>5, <1>6, <1>7, <1>8, <1>9, <1>10, <1>11, <1>12, <1>13, <1>14 DEF Pump

\* Whatever the runtime does is a step of the scheduler, or none.
LEMMA StepDrivesScheduler == RInv /\ [Next]_vars => [Sched!Next]_(Sched!vars)
<1> SUFFICES ASSUME RInv, [Next]_vars PROVE [Sched!Next]_(Sched!vars)
  OBVIOUS
<1>1. CASE Boot
  <2>1. CASE BootDone
    BY <2>1 DEF BootDone, schedVars, Sched!vars
  <2>2. ASSUME NEW id \in Ids, RestoreOne(id) PROVE [Sched!Next]_(Sched!vars)
    BY <2>2 DEF RestoreOne, Rescheduled, schedVars, Sched!vars, Sched!Next, Sched!OwnerCall
  <2>3. ASSUME NEW id \in Ids, RestoreFails(id) PROVE UNCHANGED Sched!vars
    BY <2>3 DEF RestoreFails, schedVars, Sched!vars
  <2> QED BY <1>1, <2>1, <2>2, <2>3 DEF Boot
<1>2. CASE World
  BY <1>2 DEF World, StartTimeReached, Tamper, ServerChanges, schedVars, Sched!vars
<1>3. CASE Crash
  BY <1>3 DEF Crash, Sched!Next
<1>4. CASE UNCHANGED vars
  BY <1>4 DEF vars, schedVars, Sched!vars
<1>5. CASE Pump
  BY <1>5, PumpDrives DEF Sched!Next
<1> QED BY <1>1, <1>2, <1>3, <1>4, <1>5, UserDrives DEF Next

----------------------------------------------------------------------------
(* The scheduler's part of the invariant. *)

\* Its own invariant, the plans and the cursor of its loops.
LEMMA SchedulerStepKeeps ==
  ASSUME SchedulerOK, [Sched!Next]_(Sched!vars)
  PROVE  /\ SP!IInv'
         /\ \A id \in Ids : plan'[id] \in AllPlans \cup {<<>>}
         /\ turn' \subseteq active'
<1> USE DEF SchedulerOK
<1>1. SP!IInv'
  BY SameNext, SP!NextKeepsIInv, PlansFitScheduler
<1>2. SP!TypeOK /\ SP!TurnIsRunnable
  BY DEF SP!IInv
<1>3. plan \in [Ids -> Seq(Sched!Segment)] /\ (stage = "idle" => turn = {})
  BY <1>2, SchedulerIds DEF SP!TurnIsRunnable
<1>4. ASSUME NEW id \in Ids, Sched!OwnerCall(id)
      PROVE  (\A j \in Ids : plan'[j] \in AllPlans \cup {<<>>}) /\ turn' \subseteq active'
  BY <1>3, <1>4 DEF Sched!OwnerCall, Sched!Queue, Sched!QueuePaused, Sched!Pause, Sched!Resume,
     Sched!Cancel, Sched!CancelAndQueue, Sched!Removed, Sched!BetweenPumps
<1>5. CASE Sched!Rebuild \/ UNCHANGED Sched!vars
  BY <1>1, <1>5 DEF Sched!Rebuild, Sched!vars
<1>6. ASSUME NEW p \in AllPlans, Sched!AdmitStart(p)
      PROVE  (\A j \in Ids : plan'[j] \in AllPlans \cup {<<>>}) /\ turn' \subseteq active'
  BY <1>3, <1>6 DEF Sched!AdmitStart, Sched!NextScan
<1>7. CASE Sched!AdmitDrop \/ Sched!AdmitDefer \/ Sched!AdmitReject \/ Sched!AdmitEnd
           \/ Sched!TransferEnd \/ \E id \in Ids : Sched!TransferNothing(id) \/ Sched!Settle(id)
  BY <1>1, <1>7 DEF Sched!AdmitDrop, Sched!AdmitDefer, Sched!AdmitReject, Sched!AdmitEnd, Sched!NextScan,
     Sched!TransferEnd, Sched!TransferNothing, Sched!Settle
<1>8. ASSUME NEW id \in Ids, NEW n \in 0..Total, NEW done \in BOOLEAN, NEW again \in BOOLEAN,
             Sched!Transfer(id, n, done, again)
      PROVE  (\A j \in Ids : plan'[j] \in AllPlans \cup {<<>>}) /\ turn' \subseteq active'
  <2> DEFINE p == plan[id]
             i == Sched!NextSegment(p)
             q == [p EXCEPT ![i] = Sched!Advanced(p[i], n, done, again)]
  <2>1. p \in AllPlans
    BY <1>3, <1>8, SchedulerIds DEF Sched!Transfer
  <2>2. i \in 1..Len(p)
    BY <1>8, <2>1, PlanFacts, NextIsUnfinished DEF Sched!Transfer, Sched!Unfinished
  <2>3. n \in Nat
    BY RuntimeAssumption
  <2> HIDE DEF p, i
  <2>4. q \in AllPlans
    BY <2>1, <2>2, <2>3, AdvancedIsPlan
  <2>5. plan' = [plan EXCEPT ![id] = q] /\ turn' = turn \ {id} /\ active' = active
    BY <1>8 DEF Sched!Transfer, p, i
  <2> HIDE DEF q
  <2> QED BY <2>4, <2>5, <1>3
<1>9. CASE Sched!PumpEnd
  BY <1>1, <1>9 DEF Sched!PumpEnd
<1>10. ASSUME NEW d, Sched!PumpBegin(d)
       PROVE  (\A j \in Ids : plan'[j] \in AllPlans \cup {<<>>}) /\ turn' \subseteq active'
  BY <1>10 DEF Sched!PumpBegin
<1>11. (\A j \in Ids : plan'[j] \in AllPlans \cup {<<>>}) /\ turn' \subseteq active'
  BY <1>4, <1>5, <1>6, <1>7, <1>8, <1>9, <1>10 DEF Sched!Next, Sched!Pump, Sched!PumpStep
<1> QED BY <1>1, <1>11

\* A call of the owner makes no other download known than its own.
LEMMA OwnerCallLearns ==
  ASSUME SchedulerOK, NEW id \in Ids, Sched!OwnerCall(id), NEW j, Sched!Contains(j)'
  PROVE  Sched!Contains(j) \/ j = id
<1>1. pending \in Seq(Ids) /\ SP!Distinct(pending)
  BY DEF SchedulerOK, SP!IInv, SP!TypeOK, SP!KnownOnce
<1>2. /\ Sched!Without(pending, id) = SP!Without(pending, id)
      /\ \A s : Sched!Elements(s) = SP!Elements(s)
  BY DEF Sched!Without, SP!Without, Sched!Elements, SP!Elements
<1> DEFINE w == Sched!Without(pending, id)
<1>3. w \in Seq(Ids) /\ Sched!Elements(w) \subseteq Sched!Elements(pending)
  BY <1>1, <1>2, PlansFitScheduler, SP!WithoutKeepsDistinct
<1> HIDE DEF w
<1>4. \A s \in Seq(Ids) : Sched!Elements(Append(s, id)) \subseteq Sched!Elements(s) \cup {id}
  <2> SUFFICES ASSUME NEW s \in Seq(Ids), NEW x \in Sched!Elements(Append(s, id)), x # id
               PROVE  x \in Sched!Elements(s)
    OBVIOUS
  <2>1. PICK i \in 1..Len(Append(s, id)) : x = Append(s, id)[i]
    BY DEF Sched!Elements
  <2>2. i \in 1..Len(s) /\ x = s[i]
    BY <2>1
  <2> QED BY <2>2 DEF Sched!Elements
<1>5. active' \subseteq active
  BY DEF Sched!OwnerCall, Sched!Queue, Sched!QueuePaused, Sched!Pause, Sched!Resume,
     Sched!Cancel, Sched!CancelAndQueue, Sched!Removed
<1>6. Sched!Elements(pending') \subseteq Sched!Elements(pending) \cup {id}
  <2>1. pending' \in {pending, Append(pending, id), w, Append(w, id)}
    BY DEF Sched!OwnerCall, Sched!Queue, Sched!QueuePaused, Sched!Pause, Sched!Resume,
       Sched!Cancel, Sched!CancelAndQueue, w
  <2> QED BY <2>1, <1>1, <1>3, <1>4
<1> QED BY <1>5, <1>6 DEF Sched!Contains, Sched!Waiting

\* A pump makes none known.
LEMMA PumpLearnsNothing ==
  ASSUME SchedulerOK, Sched!Pump, NEW j, Sched!Contains(j)'
  PROVE  Sched!Contains(j)
<1>1. pending \in Seq(Ids) /\ SP!Distinct(pending)
  BY DEF SchedulerOK, SP!IInv, SP!TypeOK, SP!KnownOnce
<1>2. \A s : Sched!Elements(s) = SP!Elements(s)
  BY DEF Sched!Elements, SP!Elements
<1>3. CASE Sched!AdmitDrop \/ Sched!AdmitDefer \/ Sched!AdmitReject
           \/ \E p \in AllPlans : Sched!AdmitStart(p)
  <2> DEFINE h == Head(pending)
             t == Tail(pending)
  <2>1. pending # <<>>
    BY <1>3 DEF Sched!AdmitDrop, Sched!AdmitDefer, Sched!AdmitReject, Sched!AdmitStart, Sched!CanAdmit
  <2>2. /\ h \in Ids /\ t \in Seq(Ids) /\ SP!Distinct(t)
        /\ SP!Elements(t) = SP!Elements(pending) \ {h} /\ h \in SP!Elements(pending)
    BY <1>1, <2>1, PlansFitScheduler, SP!TailKeepsDistinct
  <2> HIDE DEF h, t
  <2>3. SP!Elements(Append(t, h)) = SP!Elements(t) \cup {h}
    BY <2>2, PlansFitScheduler, SP!AppendKeepsDistinct
  <2>4. pending' \in {t, Append(t, h)} /\ active' \in {active, active \cup {h}}
    BY <1>3 DEF Sched!AdmitDrop, Sched!AdmitDefer, Sched!AdmitReject, Sched!AdmitStart, h, t
  <2> QED BY <1>2, <2>2, <2>3, <2>4 DEF Sched!Contains, Sched!Waiting
<1>4. ASSUME NEW id \in Ids, NEW n, NEW done, NEW again, Sched!Transfer(id, n, done, again)
      PROVE  Sched!Contains(j)
  BY <1>4 DEF Sched!Transfer, Sched!Contains, Sched!Waiting
<1>5. CASE Sched!AdmitEnd \/ Sched!TransferEnd \/ Sched!PumpEnd
           \/ \E id \in Ids : Sched!TransferNothing(id) \/ Sched!Settle(id)
  BY <1>5 DEF Sched!AdmitEnd, Sched!TransferEnd, Sched!PumpEnd, Sched!TransferNothing, Sched!Settle,
     Sched!Contains, Sched!Waiting
<1>6. ASSUME NEW d, Sched!PumpBegin(d) PROVE Sched!Contains(j)
  BY <1>6 DEF Sched!PumpBegin, Sched!Contains, Sched!Waiting
<1> QED BY <1>3, <1>4, <1>5, <1>6 DEF Sched!Pump, Sched!PumpStep

----------------------------------------------------------------------------
(* The runtime's part of the invariant. *)

RuntimeOK ==
  /\ DiskTyped /\ RestTyped
  /\ waiting \subseteq paused
  /\ Known
  /\ JobOK /\ BootOK

\* With no callback in progress, JobOK says that none has been cleared.
LEMMA NoJobOK ==
  ASSUME job'.step = "none", job'.verdict # "allow"
  PROVE  JobOK'
BY DEF JobOK

\* Between two pumps no callback is in progress.
LEMMA IdleHasNoJob == ASSUME JobOK, Idle PROVE job.step = "none" /\ job.verdict # "allow"
BY DEF JobOK, Idle

\* After a call of the owner for id the scheduler knows only downloads with a
\* record, if id has one.
LEMMA OwnerCallKeepsKnown ==
  ASSUME SchedulerOK, Known, NEW id \in Ids, Sched!OwnerCall(id), rec'[id] # None,
         \A j \in Ids : rec[j] # None => rec'[j] # None
  PROVE  Known'
BY OwnerCallLearns DEF Known

\* A new record, and what is saved with it.
LEMMA NewRecord ==
  ASSUME DiskTyped, NEW id \in Ids, NEW r \in Records
  PROVE  /\ [rec EXCEPT ![id] = r] \in MaybeRecords
         /\ [rec EXCEPT ![id] = r][id] # None
         /\ \A j \in Ids : rec[j] # None => [rec EXCEPT ![id] = r][j] # None
BY NoneAssumption DEF DiskTyped, MaybeRecords

\* Enqueueing, with or without a staged file.
LEMMA EnqueueKeeps ==
  ASSUME RInv, NEW r \in Requests, NEW id \in Ids, Enqueue(r, id) \/ EnqueueFails(r, id)
  PROVE  RuntimeOK'
<1>1. DiskTyped /\ RestTyped /\ SchedulerOK /\ Known /\ JobOK /\ BootOK
  BY TypeParts DEF RInv
<1>2. r \in [source : Sources, file : Files, private : BOOLEAN, scheduled : BOOLEAN]
  BY RuntimeAssumption
<1>3. \A s \in States : Record(r, s) \in Records
  BY <1>2 DEF Record, Records
<1>4. PICK s \in {"queued", "cancelled"} :
        rec' = [rec EXCEPT ![id] = Record(r, s)] /\ Persist([rec EXCEPT ![id] = Record(r, s)])
  BY DEF Enqueue, EnqueueFails
<1>5. Record(r, s) \in Records
  BY <1>3 DEF States
<1> DEFINE new == [rec EXCEPT ![id] = Record(r, s)]
<1>6. /\ new \in MaybeRecords /\ new[id] # None
      /\ \A j \in Ids : rec[j] # None => new[j] # None
  BY <1>1, <1>5, NewRecord
<1> HIDE DEF new
<1>7. rec' = new /\ Persist(new)
  BY <1>4 DEF new
<1>8. store' \in MaybeRecords
  BY <1>1, <1>6, <1>7, PersistTyped DEF DiskTyped
<1>9. part' \in Staging
  <2>1. part' = part \/ part' = Prepared(id, r.file)
    BY DEF Enqueue, EnqueueFails
  <2>2. r.file \in Files
    BY <1>2
  <2> QED BY <2>1, <2>2, <1>1, PreparedTyped DEF DiskTyped
<1>10. final' \in FinalFiles /\ ckpt' = ckpt
  BY <1>1, DisownKeeps DEF Enqueue, EnqueueFails, DiskTyped
<1>11. DiskTyped'
  BY <1>1, <1>6, <1>7, <1>8, <1>9, <1>10 DEF DiskTyped
<1>12. UserFrame /\ nextId' = id + 1
  BY DEF Enqueue, EnqueueFails
<1>13. waiting' \subseteq waiting \cup {id} /\ opened' \subseteq opened \cup {id}
  BY DEF Enqueue, EnqueueFails
<1>14. RestTyped'
  <2>1. nextId' \in 1..(MaxId + 1)
    BY <1>12, RuntimeAssumption DEF Ids
  <2> QED BY <2>1, <1>1, <1>12, <1>13 DEF RestTyped, UserFrame, worldVars
<1>15. waiting' \subseteq paused'
  BY <1>1 DEF Enqueue, EnqueueFails, SchedulerOK, Sched!Queue, Sched!QueuePaused, schedVars
<1>16. Known'
  <2>1. CASE Enqueue(r, id)
    <3>1. Sched!OwnerCall(id)
      BY <2>1 DEF Enqueue, Sched!OwnerCall
    <3> QED BY <3>1, <1>1, <1>6, <1>7, OwnerCallKeepsKnown
  <2>2. CASE EnqueueFails(r, id)
    BY <2>2, <1>1, <1>6, <1>7 DEF EnqueueFails, schedVars, Known, Sched!Contains, Sched!Waiting
  <2> QED BY <2>1, <2>2
<1>17. JobOK' /\ BootOK'
  <2>1. Idle
    BY DEF Enqueue, EnqueueFails
  <2>2. job' = job /\ boot' = boot /\ running' = running
    BY <1>12 DEF UserFrame
  <2>3. JobOK'
    BY <2>1, <2>2, <1>1, IdleHasNoJob, NoJobOK
  <2> QED BY <2>2, <2>3, <1>1 DEF BootOK
<1> QED BY <1>11, <1>14, <1>15, <1>16, <1>17 DEF RuntimeOK

\* The operations on a known download.
LEMMA ControlKeeps ==
  ASSUME RInv, NEW id \in Ids,
         \/ Pause(id) \/ Resume(id) \/ \E discard \in BOOLEAN : Cancel(id, discard)
         \/ Restart(id) \/ RestartFails(id)
  PROVE  RuntimeOK'
<1>1. DiskTyped /\ RestTyped /\ SchedulerOK /\ Known /\ JobOK /\ BootOK
  BY TypeParts DEF RInv
<1>2. Idle /\ Sched!OwnerCall(id) /\ rec[id] # None
  BY DEF Pause, Resume, Cancel, Restart, RestartFails, Restartable, InState, Sched!OwnerCall
<1>3. rec[id] \in Records /\ rec[id].file \in Files
  BY <1>1, <1>2 DEF DiskTyped, MaybeRecords, Records
<1>4. \/ UNCHANGED <<rec, store>>
      \/ \E s \in States : SetState(id, s)
  BY DEF Pause, Resume, Cancel, Restart, RestartFails, States
<1>5. /\ rec' \in MaybeRecords /\ store' \in MaybeRecords
      /\ \A j \in Ids : rec[j] # None => rec'[j] # None
  BY <1>1, <1>2, <1>4, SetStateTyped DEF DiskTyped
<1>6. part' \in Staging
  <2>1. \/ part' = part
        \/ part' = [part EXCEPT ![id][rec[id].file] = None]
        \/ part' = [part EXCEPT ![id][rec[id].file] = <<>>]
        \/ part' = Prepared(id, rec[id].file)
    BY DEF Pause, Resume, Cancel, Restart, RestartFails
  <2>2. part \in Staging
    BY <1>1 DEF DiskTyped
  <2>3. None \in {None} \cup Seq(Bytes) /\ <<>> \in {None} \cup Seq(Bytes)
    BY EmptySeq
  <2>4. \A new \in {None, <<>>} : [part EXCEPT ![id][rec[id].file] = new] \in Staging
    BY <2>2, <2>3, <1>3, PartTyped
  <2> QED BY <2>1, <2>2, <2>4, <1>3, PreparedTyped
<1>7. final' \in FinalFiles
  BY <1>1, DisownKeeps DEF Pause, Resume, Cancel, Restart, RestartFails, DiskTyped
<1>8. ckpt' \in SavedCheckpoints
  <2>1. UNCHANGED ckpt \/ EraseCheckpoint(id)
    BY DEF Pause, Resume, Cancel, Restart, RestartFails
  <2> QED BY <2>1, <1>1, CheckpointsTyped DEF DiskTyped
<1>9. UserFrame /\ nextId' = nextId /\ waiting' = waiting \ {id} /\ opened' \subseteq opened \cup {id}
  BY DEF Pause, Resume, Cancel, Restart, RestartFails
<1>10. RestTyped'
  BY <1>1, <1>9 DEF RestTyped, UserFrame, worldVars
<1>11. waiting' \subseteq paused'
  <2>1. paused \ {id} \subseteq paused'
    BY DEF Pause, Resume, Cancel, Restart, RestartFails,
       Sched!Pause, Sched!Resume, Sched!Cancel, Sched!CancelAndQueue, Sched!Removed
  <2> QED BY <2>1, <1>1, <1>9 DEF SchedulerOK
<1>12. Known'
  BY <1>1, <1>2, <1>5, OwnerCallKeepsKnown
<1>13. JobOK' /\ BootOK'
  <2>1. job' = job /\ boot' = boot /\ running' = running
    BY <1>9 DEF UserFrame
  <2>2. JobOK'
    BY <2>1, <1>1, <1>2, IdleHasNoJob, NoJobOK
  <2> QED BY <2>1, <2>2, <1>1 DEF BootOK
<1> QED BY <1>5, <1>6, <1>7, <1>8, <1>10, <1>11, <1>12, <1>13 DEF RuntimeOK, DiskTyped

\* A pump takes no download out of paused_ but those whose time has come, and
\* makes none known.
LEMMA PumpKeepsWaiting ==
  ASSUME RInv, Pump
  PROVE  waiting' \subseteq paused' /\ waiting' \subseteq waiting
<1>1. waiting \subseteq paused
  BY DEF RInv, SchedulerOK
<1>2. CASE PumpBegin
  BY <1>1, <1>2 DEF PumpBegin, Sched!PumpBegin
<1>3. CASE ~PumpBegin
  <2>1. waiting' \subseteq waiting
    BY <1>3 DEF Pump, AdmitSkip, AdmitReject, AdmitStart, AdmitEnd, Transfer, TransferNothing,
       SettleFailed, BeginVerify, TransferEnd, PumpEnd, Report, ReportRunning, CheckSize, Scan,
       Recheck, CommitRemove, CommitRename, Forget, Conclude, FailJob, MarkFailed
  <2>2. CASE AdmitSkip \/ AdmitReject \/ AdmitStart \/ AdmitEnd \/ TransferEnd \/ PumpEnd
             \/ \E id \in Ids : Transfer(id) \/ TransferNothing(id)
    <3>1. paused' = paused
      BY <2>2 DEF AdmitSkip, AdmitReject, AdmitStart, AdmitEnd, Transfer, TransferNothing,
         TransferEnd, PumpEnd, Sched!AdmitDrop, Sched!AdmitDefer, Sched!AdmitReject,
         Sched!AdmitStart, Sched!AdmitEnd, Sched!NextScan, Sched!Transfer, Sched!TransferNothing,
         Sched!TransferEnd, Sched!PumpEnd
    <3> QED BY <3>1, <2>1, <1>1
  <2>3. CASE Report \/ ReportRunning \/ CheckSize \/ Scan \/ Recheck \/ CommitRemove
             \/ CommitRename \/ Forget \/ Conclude \/ \E id \in Ids : SettleFailed(id) \/ BeginVerify(id)
    <3>1. paused' = paused
      BY <2>3 DEF SettleFailed, BeginVerify, Report, ReportRunning, CheckSize, Scan, Recheck,
         CommitRemove, CommitRename, Forget, Conclude, FailJob, Sched!Settle, schedVars
    <3> QED BY <3>1, <2>1, <1>1
  <2> QED BY <1>3, <2>2, <2>3 DEF Pump
<1> QED BY <1>2, <1>3

\* A pump step that forgets no record leaves every id the scheduler holds with
\* a record.
LEMMA PumpKeepsKnown ==
  ASSUME RInv, Pump, \A j \in Ids : rec[j] # None => rec'[j] # None
  PROVE  Known'
<1>1. SchedulerOK /\ Known
  BY DEF RInv
<1>2. CASE Sched!Pump
  BY <1>1, <1>2, PumpLearnsNothing DEF Known
<1>3. CASE UNCHANGED Sched!vars
  BY <1>1, <1>3 DEF Known, Sched!vars, Sched!Contains, Sched!Waiting
<1> QED BY <1>2, <1>3, PumpDrives

\* What no step of a pump touches.
LEMMA PumpKeepsRest ==
  ASSUME RInv, Pump, etag' \in [Ids -> 0..MaxVersion], job' \in Jobs
  PROVE  RestTyped' /\ BootOK' /\ running' = running
<1>1. RestTyped /\ BootOK
  BY TypeParts DEF RInv
<1>2. PumpFrame
  BY DEF Pump, PumpBegin, AdmitSkip, AdmitReject, AdmitStart, AdmitEnd, Transfer, TransferNothing,
     SettleFailed, BeginVerify, TransferEnd, PumpEnd, Report, ReportRunning, CheckSize, Scan,
     Recheck, CommitRemove, CommitRename, Forget, Conclude
<1>3. waiting' \subseteq waiting
  BY PumpKeepsWaiting
<1> QED BY <1>1, <1>2, <1>3 DEF RestTyped, BootOK, PumpFrame, worldVars

\* The steps of the pump itself.
LoopStep ==
  \/ PumpBegin \/ AdmitSkip \/ AdmitReject \/ AdmitStart \/ AdmitEnd \/ TransferEnd \/ PumpEnd
  \/ \E id \in Ids : Transfer(id) \/ TransferNothing(id) \/ SettleFailed(id) \/ BeginVerify(id)

\* The steps of the pump's own loops keep the runtime's part of the invariant.
LEMMA LoopKeeps == ASSUME RInv, LoopStep PROVE RuntimeOK'
<1>1. DiskTyped /\ RestTyped /\ SchedulerOK /\ Known /\ JobOK /\ BootOK
  BY TypeParts DEF RInv
<1>2. Pump /\ Free
  BY DEF LoopStep, Pump, PumpBegin, AdmitSkip, AdmitReject, AdmitStart, AdmitEnd, Transfer,
     TransferNothing, SettleFailed, BeginVerify, TransferEnd, PumpEnd
<1>3. \A id \in Ids : id \in turn => rec[id] # None
  BY <1>1 DEF SchedulerOK, Known, Sched!Contains
<1>4. \/ UNCHANGED <<rec, store>>
      \/ \E id \in Ids, s \in States : rec[id] # None /\ SetState(id, s)
  <2>1. CASE AdmitReject
    <3>1. pending # <<>> /\ SetState(Head(pending), "failed")
      BY <2>1 DEF AdmitReject, MarkFailed, Sched!AdmitReject, Sched!CanAdmit
    <3>2. Head(pending) \in Ids /\ rec[Head(pending)] # None
      BY <3>1, <1>1, SchedulerIds DEF Known
    <3> QED BY <3>1, <3>2 DEF States
  <2>2. ASSUME NEW id \in Ids, SettleFailed(id) \/ BeginVerify(id)
        PROVE  rec[id] # None /\ \E s \in States : SetState(id, s)
    BY <2>2, <1>3 DEF SettleFailed, BeginVerify, MarkFailed, Sched!Settle, States
  <2>3. CASE PumpBegin \/ AdmitSkip \/ AdmitStart \/ AdmitEnd \/ TransferEnd \/ PumpEnd
             \/ \E id \in Ids : Transfer(id) \/ TransferNothing(id)
    BY <2>3 DEF PumpBegin, AdmitSkip, AdmitStart, AdmitEnd, TransferEnd, PumpEnd, Transfer,
       TransferNothing, diskVars
  <2> QED BY <2>1, <2>2, <2>3 DEF LoopStep
<1>5. /\ rec' \in MaybeRecords /\ store' \in MaybeRecords
      /\ \A j \in Ids : rec[j] # None => rec'[j] # None
  BY <1>1, <1>4, SetStateTyped DEF DiskTyped
<1>6. part' \in Staging
  <2>1. ASSUME NEW id \in Ids, Transfer(id) PROVE part' \in Staging
    <3> DEFINE seg == plan[id][Sched!NextSegment(plan[id])]
    <3>1. PICK reply \in Replies(id, seg) :
            part' = [part EXCEPT ![id][rec[id].file] = WriteAt(@, seg.begin + seg.credit, reply.data)]
      BY <2>1 DEF Transfer
    <3>2. /\ seg.begin + seg.credit \in Nat /\ reply.data \in Seq(Bytes) /\ rec[id] \in Records
      BY <2>1, TransferFacts DEF Transfer
    <3> DEFINE file == rec[id].file
               new  == WriteAt(part[id][file], seg.begin + seg.credit, reply.data)
    <3>3. file \in Files /\ part \in Staging /\ part[id][file] \in {None} \cup Seq(Bytes)
      BY <3>2, <1>1 DEF Records, DiskTyped, Staging
    <3> HIDE DEF seg
    <3>4. new \in {None} \cup Seq(Bytes)
      BY <3>2, <3>3, WriteAtTyped
    <3>5. part' = [part EXCEPT ![id][file] = new]
      BY <3>1, <3>3 DEF Staging
    <3> HIDE DEF file, new
    <3> QED BY <3>3, <3>4, <3>5, PartTyped
  <2>2. CASE ~\E id \in Ids : Transfer(id)
    <3>1. UNCHANGED part
      BY <2>2 DEF LoopStep, PumpBegin, AdmitSkip, AdmitReject, AdmitStart, AdmitEnd, TransferEnd,
         PumpEnd, TransferNothing, SettleFailed, BeginVerify, diskVars
    <3> QED BY <3>1, <1>1 DEF DiskTyped
  <2> QED BY <2>1, <2>2
<1>7. final' = final /\ ckpt' = ckpt
  BY DEF LoopStep, PumpBegin, AdmitSkip, AdmitReject, AdmitStart, AdmitEnd, Transfer,
     TransferNothing, SettleFailed, BeginVerify, TransferEnd, PumpEnd, diskVars
<1>8. DiskTyped'
  BY <1>1, <1>5, <1>6, <1>7 DEF DiskTyped
<1>9. etag' \in [Ids -> 0..MaxVersion]
  <2>1. CASE AdmitStart
    <3>1. pending # <<>> /\ etag' = [etag EXCEPT ![Head(pending)] = version[rec[Head(pending)].source]]
      BY <2>1 DEF AdmitStart
    <3>2. Head(pending) \in Ids /\ rec[Head(pending)] \in Records
      BY <3>1, <1>1, SchedulerIds DEF Known, DiskTyped, MaybeRecords
    <3>3. version[rec[Head(pending)].source] \in 0..MaxVersion
      BY <3>2, <1>1 DEF Records, RestTyped
    <3> QED BY <3>1, <3>2, <3>3, <1>1 DEF RestTyped
  <2>2. CASE PumpEnd
    BY <2>2, <1>1, RuntimeAssumption DEF PumpEnd, RestTyped
  <2>3. CASE ~AdmitStart /\ ~PumpEnd
    BY <2>3, <1>1 DEF LoopStep, PumpBegin, AdmitSkip, AdmitReject, AdmitEnd, Transfer,
       TransferNothing, SettleFailed, BeginVerify, TransferEnd, RestTyped
  <2> QED BY <2>1, <2>2, <2>3
<1>10. \/ job' = NoJob
       \/ \E id \in Ids :
            /\ rec[id] # None /\ stage' # "idle"
            /\ \/ job' = [NoJob EXCEPT !.id = id, !.step = "report"] /\ plan'[id] # <<>>
               \/ job' = [NoJob EXCEPT !.id = id, !.step = "size"]
  <2>1. CASE AdmitStart
    <3>1. /\ pending # <<>> /\ job' = [NoJob EXCEPT !.id = Head(pending), !.step = "report"]
          /\ Head(pending) \in active' /\ stage' # "idle"
      BY <2>1 DEF AdmitStart, Sched!AdmitStart, Sched!CanAdmit, Sched!NextScan
    <3>2. Head(pending) \in Ids /\ rec[Head(pending)] # None
      BY <3>1, <1>1, SchedulerIds DEF Known
    <3>3. SP!IInv'
      BY <1>1, <1>2, PumpDrives, SchedulerStepKeeps DEF Sched!Next
    <3>4. plan'[Head(pending)] # <<>>
      BY <3>1, <3>2, <3>3 DEF SP!IInv, SP!CreditMatches
    <3> QED BY <3>1, <3>2, <3>4
  <2>2. ASSUME NEW id \in Ids, Transfer(id) \/ TransferNothing(id)
        PROVE  /\ rec[id] # None /\ stage' # "idle" /\ plan'[id] # <<>>
               /\ job' = [NoJob EXCEPT !.id = id, !.step = "report"]
    <3>1. /\ id \in turn /\ stage' # "idle" /\ active' = active
          /\ job' = [NoJob EXCEPT !.id = id, !.step = "report"]
      BY <2>2 DEF Transfer, TransferNothing, Sched!Transfer, Sched!TransferNothing
    <3>2. SP!IInv'
      BY <1>1, <1>2, PumpDrives, SchedulerStepKeeps DEF Sched!Next
    <3>3. plan'[id] # <<>>
      BY <3>1, <3>2, <1>1 DEF SchedulerOK, SP!IInv, SP!CreditMatches
    <3> QED BY <3>1, <3>3, <1>3
  <2>3. ASSUME NEW id \in Ids, BeginVerify(id)
        PROVE  rec[id] # None /\ stage' # "idle" /\ job' = [NoJob EXCEPT !.id = id, !.step = "size"]
    BY <2>3, <1>3 DEF BeginVerify, schedVars
  <2>4. CASE PumpBegin \/ AdmitSkip \/ AdmitReject \/ AdmitEnd \/ TransferEnd \/ PumpEnd
             \/ \E id \in Ids : SettleFailed(id)
    BY <2>4, <1>2 DEF PumpBegin, AdmitSkip, AdmitReject, AdmitEnd, TransferEnd, PumpEnd,
       SettleFailed, Free
  <2> QED BY <2>1, <2>2, <2>3, <2>4 DEF LoopStep
<1>11. ASSUME NEW id \in Ids, NEW step \in {"report", "size"},
              job' = [NoJob EXCEPT !.id = id, !.step = step]
       PROVE  job' \in Jobs /\ job'.id = id /\ job'.step = step /\ job'.verdict = "none"
  <2>1. job' = [id |-> id, step |-> step, digest |-> <<>>, verdict |-> "none"]
    BY <1>11 DEF NoJob
  <2>2. step \in Steps /\ <<>> \in Seq(Bytes)
    BY EmptySeq DEF Steps
  <2> QED BY <2>1, <2>2 DEF Jobs
<1>12. NoJob \in Jobs /\ NoJob.step = "none" /\ NoJob.verdict = "none"
  <2>1. "none" \in Steps /\ <<>> \in Seq(Bytes)
    BY EmptySeq DEF Steps
  <2> QED BY <2>1 DEF NoJob, Jobs
<1>13. job' \in Jobs
  BY <1>10, <1>11, <1>12
<1>14. JobOK'
  <2>1. CASE job' = NoJob
    BY <2>1, <1>12, NoJobOK
  <2>2. ASSUME NEW id \in Ids, rec[id] # None, stage' # "idle", NEW step \in {"report", "size"},
               job' = [NoJob EXCEPT !.id = id, !.step = step],
               step = "report" => plan'[id] # <<>>
        PROVE  JobOK'
    <3>1. job'.id = id /\ job'.step = step /\ job'.verdict = "none"
      BY <1>11, <2>2
    <3>2. running' /\ rec'[id] # None
      BY <1>2, <1>5, <1>9, <1>13, <2>2, PumpKeepsRest DEF Free
    <3> QED BY <2>2, <3>1, <3>2 DEF JobOK
  <2> QED BY <2>1, <2>2, <1>10
<1> QED BY <1>2, <1>5, <1>8, <1>9, <1>13, <1>14, PumpKeepsRest, PumpKeepsKnown, PumpKeepsWaiting
        DEF RuntimeOK

\* The steps of a callback.
JobStep ==
  \/ Report \/ ReportRunning \/ CheckSize \/ Scan \/ Recheck
  \/ CommitRemove \/ CommitRename \/ Forget \/ Conclude

\* The download of the callback in progress.
LEMMA JobFacts ==
  ASSUME RInv, job.step # "none"
  PROVE  /\ running /\ stage # "idle" /\ job \in Jobs
         /\ job.id \in Ids /\ rec[job.id] \in Records /\ rec[job.id] # None
         /\ rec[job.id].file \in Files /\ Staged(job.id) \in {None} \cup Seq(Bytes)
<1>1. DiskTyped /\ RestTyped /\ JobOK
  BY TypeParts DEF RInv
<1>2. running /\ stage # "idle" /\ job \in Jobs /\ job.id \in Ids /\ rec[job.id] # None
  BY <1>1 DEF JobOK, RestTyped
<1>3. rec[job.id] \in Records
  BY <1>1, <1>2 DEF DiskTyped, MaybeRecords
<1>4. rec[job.id].file \in Files
  BY <1>3 DEF Records
<1>5. Staged(job.id) \in {None} \cup Seq(Bytes)
  BY <1>1, <1>2, <1>4 DEF Staged, DiskTyped, Staging
<1> QED BY <1>2, <1>3, <1>4, <1>5

\* What is renamed is the content that was cleared.
LEMMA CommitTyped ==
  ASSUME RInv, job.step = "rename"
  PROVE  /\ Commit \in Releases /\ Commit # None
         /\ Commit.bytes = job.digest /\ job.digest \in Contents
<1>1. Staged(job.id) = job.digest /\ job.digest \in Contents
  BY DEF RInv, JobOK
<1>2. job.id \in Ids /\ rec[job.id].source \in Sources
  BY JobFacts DEF Records
<1>3. Commit \in Releases
  BY <1>1, <1>2 DEF Commit, Releases
<1> QED BY <1>1, <1>3, NoneAssumption DEF Commit

\* A step of a callback leaves the disk well typed and forgets no record.
LEMMA JobStepDisk == ASSUME RInv, JobStep PROVE DiskTyped' /\ \A j \in Ids : rec[j] # None => rec'[j] # None
<1>0. DiskTyped /\ RestTyped /\ SchedulerOK /\ JobOK
  BY TypeParts DEF RInv
<1>1. job.step # "none"
  BY DEF JobStep, Report, ReportRunning, CheckSize, Scan, Recheck, CommitRemove, CommitRename,
     Forget, Conclude, JobAt
<1>2. /\ job.id \in Ids /\ rec[job.id] \in Records /\ rec[job.id] # None
      /\ rec[job.id].file \in Files
  BY <1>1, JobFacts
<1>3. UNCHANGED <<rec, store>> \/ \E s \in States : SetState(job.id, s)
  <2>1. CASE Conclude
    <3>1. job.verdict \in VerdictKinds
      BY <2>1, <1>0 DEF Conclude, JobAt, JobOK
    <3>2. Concluded(job.verdict) \in States
      BY <3>1 DEF Concluded, VerdictKinds, States
    <3> QED BY <2>1, <3>2 DEF Conclude
  <2>2. CASE ReportRunning \/ CheckSize \/ CommitRemove \/ CommitRename
    BY <2>2 DEF ReportRunning, CheckSize, CommitRemove, CommitRename, FailJob, MarkFailed, States
  <2>3. CASE Report \/ Scan \/ Recheck \/ Forget
    BY <2>3 DEF Report, Scan, Recheck, Forget, diskVars
  <2> QED BY <2>1, <2>2, <2>3 DEF JobStep
<1>4. /\ rec' \in MaybeRecords /\ store' \in MaybeRecords
      /\ \A j \in Ids : rec[j] # None => rec'[j] # None
  BY <1>0, <1>2, <1>3, SetStateTyped DEF DiskTyped
<1>5. part' \in Staging
  <2>1. part' = part \/ part' = [part EXCEPT ![job.id][rec[job.id].file] = None]
    BY DEF JobStep, Report, ReportRunning, CheckSize, Scan, Recheck, CommitRemove, CommitRename,
       Forget, Conclude, diskVars
  <2>2. part \in Staging /\ None \in {None} \cup Seq(Bytes)
    BY <1>0 DEF DiskTyped
  <2>3. [part EXCEPT ![job.id][rec[job.id].file] = None] \in Staging
    BY <2>2, <1>2, PartTyped
  <2> QED BY <2>1, <2>2, <2>3
<1>6. final' \in FinalFiles
  <2>1. CASE CommitRename
    <3>1. Commit \in Releases
      BY <2>1, CommitTyped DEF CommitRename, JobAt
    <3>2. final' = final \/ final' = [final EXCEPT ![rec[job.id].file] = Commit]
      BY <2>1 DEF CommitRename
    <3> QED BY <3>1, <3>2, <1>0 DEF DiskTyped, FinalFiles
  <2>2. CASE ~CommitRename
    <3>1. final' = final \/ final' = [final EXCEPT ![rec[job.id].file] = None]
      BY <2>2 DEF JobStep, Report, ReportRunning, CheckSize, Scan, Recheck, CommitRemove, Forget,
         Conclude, diskVars
    <3> QED BY <3>1, <1>0 DEF DiskTyped, FinalFiles
  <2> QED BY <2>1, <2>2
<1>7. ckpt' \in SavedCheckpoints
  <2>1. CASE Report
    <3> DEFINE c == MakeCheckpoint(rec[job.id].source, etag[job.id], plan[job.id])
    <3>1. plan[job.id] \in AllPlans
      BY <2>1, <1>0, <1>2 DEF Report, JobAt, JobOK, SchedulerOK
    <3>2. rec[job.id].source \in Sources /\ etag[job.id] \in 0..MaxVersion
      BY <1>0, <1>2 DEF Records, RestTyped
    <3>3. c \in Checkpoints
      BY <3>1, <3>2 DEF MakeCheckpoint, Checkpoints
    <3>4. SaveCheckpoint(job.id, c)
      BY <2>1 DEF Report
    <3> HIDE DEF c
    <3> QED BY <3>3, <3>4, <1>0, <1>2, CheckpointsTyped DEF DiskTyped
  <2>2. CASE Forget
    BY <2>2, <1>0, <1>2, CheckpointsTyped DEF Forget, DiskTyped
  <2>3. CASE ~Report /\ ~Forget
    BY <2>3, <1>0 DEF JobStep, ReportRunning, CheckSize, Scan, Recheck, CommitRemove, CommitRename,
       Conclude, diskVars, DiskTyped
  <2> QED BY <2>1, <2>2, <2>3
<1> QED BY <1>4, <1>5, <1>6, <1>7 DEF DiskTyped

\* The steps of the callbacks keep the runtime's part of the invariant.
LEMMA JobStepKeeps == ASSUME RInv, JobStep PROVE RuntimeOK'
<1>0. DiskTyped /\ RestTyped /\ SchedulerOK /\ JobOK
  BY TypeParts DEF RInv
<1>1. job.step # "none" /\ Pump
  BY DEF JobStep, Pump, Report, ReportRunning, CheckSize, Scan, Recheck, CommitRemove, CommitRename,
     Forget, Conclude, JobAt
<1>2. /\ running /\ stage # "idle" /\ job \in Jobs
      /\ job.id \in Ids /\ rec[job.id] \in Records /\ rec[job.id] # None
      /\ rec[job.id].file \in Files /\ Staged(job.id) \in {None} \cup Seq(Bytes)
  BY <1>1, JobFacts
<1>3. DiskTyped' /\ \A j \in Ids : rec[j] # None => rec'[j] # None
  BY JobStepDisk
<1>4. etag' = etag /\ stage' = stage
  BY DEF JobStep, Report, ReportRunning, CheckSize, Scan, Recheck, CommitRemove, CommitRename,
     Forget, Conclude, FailJob, Sched!Settle, schedVars
<1>5. NoJob \in Jobs /\ NoJob.step = "none" /\ NoJob.verdict = "none"
  <2>1. "none" \in Steps /\ <<>> \in Seq(Bytes)
    BY EmptySeq DEF Steps
  <2> QED BY <2>1 DEF NoJob, Jobs
\* The callback goes on: its next step and what holds there.
<1>6. ASSUME NEW step \in Steps \ {"none", "report"}, NEW digest \in Seq(Bytes),
             NEW verdict \in {"none"} \cup VerdictKinds,
             job' = [id |-> job.id, step |-> step, digest |-> digest, verdict |-> verdict],
             step \in {"scan", "recheck", "remove", "rename"} => digest \in Contents,
             step \in {"remove", "rename"} => Staged(job.id)' = digest,
             step \in {"recheck", "remove", "rename"} => verdict = "allow",
             step \in {"forget", "conclude"} => verdict \in VerdictKinds,
             verdict = "allow" => step \in {"recheck", "remove", "rename", "forget", "conclude"}
      PROVE  job' \in Jobs /\ JobOK'
  <2>1. job'.id = job.id /\ job'.step = step /\ job'.digest = digest /\ job'.verdict = verdict
    BY <1>6
  <2>2. job' \in Jobs
    BY <1>2, <1>6 DEF Jobs
  <2>3. running' = running
    BY <1>0, <1>1, <1>4, <2>2, PumpKeepsRest DEF RestTyped
  <2> QED BY <1>2, <1>3, <1>4, <1>6, <2>1, <2>2, <2>3 DEF JobOK
<1> DEFINE digest  == job.digest
           verdict == job.verdict
<1>7. digest \in Seq(Bytes) /\ verdict \in {"none"} \cup VerdictKinds
  BY <1>2 DEF Jobs
<1>8. job = [id |-> job.id, step |-> job.step, digest |-> digest, verdict |-> verdict]
  BY <1>2 DEF Jobs
<1>9. ASSUME NEW step \in Steps, Goto(step)
      PROVE  job' = [id |-> job.id, step |-> step, digest |-> digest, verdict |-> verdict]
  BY <1>8, <1>9 DEF Goto
<1>10. ASSUME Refused PROVE job' \in Jobs /\ JobOK'
  <2>1. job' = [id |-> job.id, step |-> "forget", digest |-> digest, verdict |-> "block"]
    BY <1>8, <1>10 DEF Refused
  <2>2. "forget" \in Steps \ {"none", "report"} /\ "block" \in VerdictKinds
    BY DEF Steps, VerdictKinds
  <2> HIDE DEF digest, verdict
  <2> QED BY <2>1, <2>2, <1>6, <1>7
<1>11. ASSUME UNCHANGED <<part, rec>>, job'.id = job.id
       PROVE  Staged(job.id)' = Staged(job.id)
  BY <1>11 DEF Staged
<1>12. CASE job' = NoJob
  <2>1. job' \in Jobs /\ JobOK'
    BY <1>5, <1>12, NoJobOK
  <2> QED BY <2>1, <1>0, <1>1, <1>3, <1>4, PumpKeepsRest, PumpKeepsKnown, PumpKeepsWaiting
          DEF RuntimeOK, RestTyped
<1>13. CASE job' # NoJob
  <2>0. SUFFICES job' \in Jobs /\ JobOK'
    BY <1>0, <1>1, <1>3, <1>4, PumpKeepsRest, PumpKeepsKnown, PumpKeepsWaiting DEF RuntimeOK, RestTyped
  <2>1. CASE Report
    <3>1. verdict # "allow" /\ "running" \in Steps /\ Goto("running")
      BY <2>1, <1>0 DEF Report, JobAt, JobOK, Steps
    <3>2. job' = [id |-> job.id, step |-> "running", digest |-> digest, verdict |-> verdict]
      BY <3>1, <1>9
    <3> HIDE DEF digest, verdict
    <3> QED BY <3>1, <3>2, <1>6, <1>7
  <2>2. CASE ReportRunning \/ Conclude
    BY <2>2, <1>13 DEF ReportRunning, Conclude
  <2>3. CASE CheckSize
    <3> DEFINE bytes == Staged(job.id)
    <3>1. CASE Refused
      BY <3>1, <1>10
    <3>2. CASE bytes # None /\ Len(bytes) = Total /\ job' = [job EXCEPT !.step = "scan", !.digest = bytes]
      <4>1. bytes \in Seq(Bytes) /\ bytes \in Contents
        <5>1. bytes \in Seq(Bytes)
          BY <1>2, <3>2
        <5> QED BY <5>1, <3>2, LenProperties DEF Contents
      <4>2. verdict # "allow" /\ "scan" \in Steps
        BY <2>3, <1>0 DEF CheckSize, JobAt, JobOK, Steps
      <4>3. job' = [id |-> job.id, step |-> "scan", digest |-> bytes, verdict |-> verdict]
        BY <3>2, <1>8
      <4> HIDE DEF bytes, digest, verdict
      <4> QED BY <4>1, <4>2, <4>3, <1>6, <1>7
    <3> QED BY <2>3, <3>1, <3>2, <1>13 DEF CheckSize, FailJob
  <2>4. CASE Scan
    <3>1. PICK v \in Verdicts :
            job' = [job EXCEPT !.verdict = v, !.step = IF v = "allow" THEN "recheck" ELSE "forget"]
      BY <2>4 DEF Scan
    <3> DEFINE step == IF v = "allow" THEN "recheck" ELSE "forget"
    <3>2. v \in VerdictKinds
      BY RuntimeAssumption
    <3>3. digest \in Contents
      BY <2>4, <1>0 DEF Scan, JobAt, JobOK
    <3>4. job' = [id |-> job.id, step |-> step, digest |-> digest, verdict |-> v]
      BY <3>1, <1>8
    <3>5. step \in Steps \ {"none", "report"} /\ step \notin {"scan", "remove", "rename"}
          /\ (step = "recheck" <=> v = "allow") /\ (step = "forget" <=> v # "allow")
      BY DEF Steps
    <3> HIDE DEF step, digest, verdict
    <3> QED BY <3>2, <3>3, <3>4, <3>5, <1>6, <1>7
  <2>5. CASE Recheck
    <3>1. CASE Refused
      BY <3>1, <1>10
    <3>2. CASE Staged(job.id) = digest /\ Goto("remove")
      <4>1. digest \in Contents /\ verdict = "allow" /\ "remove" \in Steps
        BY <2>5, <1>0 DEF Recheck, JobAt, JobOK, Steps
      <4>2. job' = [id |-> job.id, step |-> "remove", digest |-> digest, verdict |-> verdict]
        BY <3>2, <4>1, <1>9
      <4>3. Staged(job.id)' = digest
        BY <2>5, <3>2, <4>2, <1>11 DEF Recheck, diskVars
      <4> HIDE DEF digest, verdict
      <4> QED BY <4>1, <4>2, <4>3, <1>6, <1>7
    <3> QED BY <2>5, <3>1, <3>2 DEF Recheck
  <2>6. CASE CommitRemove
    <3>1. Goto("rename") /\ UNCHANGED <<part, rec>>
      BY <2>6, <1>13 DEF CommitRemove, FailJob
    <3>2. /\ digest \in Contents /\ verdict = "allow" /\ "rename" \in Steps
          /\ Staged(job.id) = digest
      BY <2>6, <1>0 DEF CommitRemove, JobAt, JobOK, Steps
    <3>3. job' = [id |-> job.id, step |-> "rename", digest |-> digest, verdict |-> verdict]
      BY <3>1, <3>2, <1>9
    <3>4. Staged(job.id)' = digest
      BY <3>1, <3>2, <3>3, <1>11
    <3> HIDE DEF digest, verdict
    <3> QED BY <3>2, <3>3, <3>4, <1>6, <1>7
  <2>7. CASE CommitRename \/ Forget
    <3>1. PICK step \in {"forget", "conclude"} : Goto(step)
      BY <2>7, <1>13 DEF CommitRename, Forget, FailJob
    <3>2. verdict \in VerdictKinds /\ step \in Steps
      BY <2>7, <1>0 DEF CommitRename, Forget, JobAt, JobOK, VerdictKinds, Steps
    <3>3. job' = [id |-> job.id, step |-> step, digest |-> digest, verdict |-> verdict]
      BY <3>1, <3>2, <1>9
    <3> HIDE DEF digest, verdict
    <3> QED BY <3>2, <3>3, <1>6, <1>7
  <2> QED BY <2>1, <2>2, <2>3, <2>4, <2>5, <2>6, <2>7 DEF JobStep
<1> QED BY <1>12, <1>13

\* The constructor of the next process.
LEMMA BootKeeps == ASSUME RInv, Boot PROVE RuntimeOK'
<1>0. DiskTyped /\ RestTyped /\ SchedulerOK /\ Known /\ JobOK /\ BootOK
  BY TypeParts DEF RInv
<1>1. CASE BootDone
  <2>1. DiskTyped'
    BY <1>0, <1>1, PersistTyped DEF BootDone, DiskTyped
  <2>2. RestTyped' /\ waiting' \subseteq paused' /\ BootOK'
    BY <1>0, <1>1 DEF BootDone, RestTyped, SchedulerOK, BootOK, schedVars, worldVars
  <2>3. Known'
    BY <1>0, <1>1 DEF BootDone, Known, schedVars, Sched!Contains, Sched!Waiting
  <2>4. JobOK'
    BY <1>0, <1>1, NoJobOK DEF BootDone, JobOK
  <2> QED BY <2>1, <2>2, <2>3, <2>4 DEF RuntimeOK
<1>2. ASSUME NEW id \in Ids, RestoreOne(id) \/ RestoreFails(id) PROVE RuntimeOK'
  <2>1. boot[id] \in Records
    BY <1>0, <1>2 DEF RestoreOne, RestoreFails, RestTyped, MaybeRecords
  <2>2. ~running
    BY <1>0, <1>2 DEF RestoreOne, RestoreFails, BootOK, NoRecords
  <2>3. boot[id].state \in States
    BY <2>1 DEF Records
  <2>4. PICK s \in States : rec' = [rec EXCEPT ![id] = [boot[id] EXCEPT !.state = s]]
    <3>1. CASE RestoreOne(id)
      <4>1. RestoredRecord(boot[id]) = [boot[id] EXCEPT !.state =
               IF boot[id].state \in {"running", "verifying"} THEN "queued" ELSE boot[id].state]
        BY <2>1 DEF RestoredRecord, Records
      <4> QED BY <3>1, <4>1, <2>3 DEF RestoreOne, States
    <3>2. CASE RestoreFails(id)
      BY <3>2 DEF RestoreFails, States
    <3> QED BY <1>2, <3>1, <3>2
  <2> DEFINE r   == [boot[id] EXCEPT !.state = s]
             new == [rec EXCEPT ![id] = r]
  <2>5. r \in Records
    BY <2>1 DEF Records
  <2>6. rec' = new
    BY <2>4
  <2> HIDE DEF r
  <2>7. /\ new \in MaybeRecords /\ new[id] # None
        /\ \A j \in Ids : rec[j] # None => new[j] # None
    BY <2>5, <1>0, NewRecord
  <2> HIDE DEF new
  <2>8. store' \in MaybeRecords
    <3>1. store' = store \/ Persist(rec')
      BY <1>2 DEF RestoreOne, RestoreFails
    <3> QED BY <3>1, <2>6, <2>7, <1>0, PersistTyped DEF DiskTyped
  <2>9. part' \in Staging
    <3>1. part' = part \/ part' = Prepared(id, boot[id].file)
      BY <1>2 DEF RestoreOne, RestoreFails
    <3>2. boot[id].file \in Files
      BY <2>1 DEF Records
    <3> QED BY <3>1, <3>2, <1>0, PreparedTyped DEF DiskTyped
  <2>10. final' = final /\ ckpt' = ckpt
    BY <1>2 DEF RestoreOne, RestoreFails
  <2>11. DiskTyped'
    BY <2>6, <2>7, <2>8, <2>9, <2>10, <1>0 DEF DiskTyped
  <2>12. /\ boot' = [boot EXCEPT ![id] = None]
         /\ opened' \subseteq opened \cup {id} /\ waiting' \subseteq waiting \cup {id}
         /\ BootFrame
    BY <1>2 DEF RestoreOne, RestoreFails, Rescheduled
  <2>13. RestTyped' /\ BootOK'
    BY <2>2, <2>12, <1>0 DEF RestTyped, BootFrame, worldVars, MaybeRecords, BootOK
  <2>14. waiting' \subseteq paused'
    BY <1>2, <1>0 DEF RestoreOne, RestoreFails, Rescheduled, SchedulerOK, Sched!Queue,
       Sched!QueuePaused, schedVars
  <2>15. Known'
    <3>1. CASE Sched!OwnerCall(id)
      BY <3>1, <2>6, <2>7, <1>0, OwnerCallKeepsKnown
    <3>2. CASE UNCHANGED schedVars
      BY <3>2, <2>6, <2>7, <1>0 DEF schedVars, Known, Sched!Contains, Sched!Waiting
    <3> QED BY <1>2, <3>1, <3>2 DEF RestoreOne, RestoreFails, Rescheduled, Sched!OwnerCall
  <2>16. JobOK'
    BY <2>2, <2>12, <1>0, NoJobOK DEF BootFrame, JobOK
  <2> QED BY <2>11, <2>13, <2>14, <2>15, <2>16 DEF RuntimeOK
<1> QED BY <1>1, <1>2 DEF Boot

\* The world, and the death of the process.
LEMMA WorldKeeps == ASSUME RInv, World PROVE RuntimeOK'
<1>0. DiskTyped /\ RestTyped /\ SchedulerOK /\ Known /\ JobOK /\ BootOK
  BY TypeParts DEF RInv
<1>1. /\ UNCHANGED <<schedVars, rec, nextId, waiting, opened, etag, job, boot, running,
                     final, ckpt, store, crashes>>
  BY DEF World, StartTimeReached, Tamper, ServerChanges, PumpFrame, worldVars, diskVars
<1>2. waiting' \subseteq paused' /\ Known' /\ BootOK'
  BY <1>0, <1>1 DEF schedVars, SchedulerOK, Known, BootOK, Sched!Contains, Sched!Waiting
<1>3. CASE Tamper
  <2>1. job.step \in {"scan", "recheck"}
    BY <1>3 DEF Tamper, JobAt
  <2>2. job.id \in Ids /\ rec[job.id].file \in Files
    BY <2>1, JobFacts
  <2> DEFINE junk == [k \in 1..Total |-> Junk]
  <2>3. junk \in Seq(Bytes)
    <3>1. Junk \in Bytes /\ Total \in Nat
      BY RuntimeAssumption DEF Bytes
    <3> QED BY <3>1
  <2>4. part' = [part EXCEPT ![job.id][rec[job.id].file] = junk]
    BY <1>3 DEF Tamper
  <2> HIDE DEF junk
  <2>5. part \in Staging /\ junk \in {None} \cup Seq(Bytes)
    BY <2>3, <1>0 DEF DiskTyped
  <2>6. part' \in Staging
    BY <2>2, <2>4, <2>5, PartTyped
  <2>7. DiskTyped'
    BY <2>6, <1>0, <1>1 DEF DiskTyped
  <2>8. RestTyped'
    BY <1>0, <1>1, <1>3 DEF RestTyped, Tamper, PumpFrame, worldVars
  <2>9. JobOK'
    BY <2>1, <1>0, <1>1 DEF JobOK, schedVars
  <2> QED BY <2>7, <2>8, <2>9, <1>2 DEF RuntimeOK
<1>4. CASE StartTimeReached \/ \E s \in Sources : ServerChanges(s)
  <2>1. UNCHANGED part
    BY <1>4 DEF StartTimeReached, ServerChanges, diskVars
  <2>2. DiskTyped'
    BY <2>1, <1>0, <1>1 DEF DiskTyped
  <2>3. JobOK'
    BY <2>1, <1>0, <1>1 DEF JobOK, schedVars, Staged
  <2>4. due' \in BOOLEAN /\ version' \in [Sources -> 0..MaxVersion]
    <3>1. CASE StartTimeReached
      BY <3>1, <1>0 DEF StartTimeReached, RestTyped
    <3>2. ASSUME NEW s \in Sources, ServerChanges(s)
          PROVE  due' \in BOOLEAN /\ version' \in [Sources -> 0..MaxVersion]
      <4>1. version[s] \in 0..MaxVersion /\ version[s] < MaxVersion /\ MaxVersion \in Nat
        BY <3>2, <1>0, RuntimeAssumption DEF ServerChanges, RestTyped
      <4>2. version[s] + 1 \in 0..MaxVersion
        BY <4>1
      <4> QED BY <3>2, <4>2, <1>0 DEF ServerChanges, RestTyped
    <3> QED BY <1>4, <3>1, <3>2
  <2>5. RestTyped'
    BY <2>4, <1>0, <1>1 DEF RestTyped
  <2> QED BY <2>2, <2>3, <2>5, <1>2 DEF RuntimeOK
<1> QED BY <1>3, <1>4 DEF World

\* The death of the process keeps the runtime's part of the invariant: what is
\* to be restored was read from a well typed store.
LEMMA CrashKeeps == ASSUME RInv, Crash PROVE RuntimeOK'
<1>0. DiskTyped /\ RestTyped
  BY TypeParts DEF RInv
<1>1. DiskTyped'
  <2>1. NoRecords \in MaybeRecords
    BY DEF NoRecords, MaybeRecords
  <2> QED BY <2>1, <1>0 DEF Crash, DiskTyped, diskVars
<1>2. NoJob \in Jobs /\ NoJob.step = "none" /\ NoJob.verdict = "none"
  <2>1. "none" \in Steps /\ <<>> \in Seq(Bytes)
    BY EmptySeq DEF Steps
  <2> QED BY <2>1 DEF NoJob, Jobs
<1>3. RestTyped'
  <2>1. MaxId \in Nat \ {0} /\ MaxVersion \in Nat /\ MaxCrashes \in Nat
    BY RuntimeAssumption
  <2>2. nextId' \in 1..(MaxId + 1) /\ crashes' \in 0..MaxCrashes
    BY <2>1, <1>0 DEF Crash, RestTyped
  <2>3. etag' \in [Ids -> 0..MaxVersion]
    BY <2>1 DEF Crash
  <2>4. boot' \in MaybeRecords
    BY <1>0 DEF Crash, DiskTyped, MaybeRecords
  <2> QED BY <1>0, <1>2, <2>2, <2>3, <2>4 DEF Crash, RestTyped
<1>4. waiting' \subseteq paused' /\ BootOK'
  BY DEF Crash, BootOK
<1>5. Known'
  BY DEF Known, Crash, Sched!Rebuild, Sched!Contains, Sched!Waiting, Sched!Elements
<1>6. JobOK'
  BY <1>2, NoJobOK DEF Crash
<1> QED BY <1>1, <1>3, <1>4, <1>5, <1>6 DEF RuntimeOK

\* Every step keeps the invariant: the runtime's part by the lemmas above, the
\* scheduler's part by the scheduler's own proof.
LEMMA NextKeepsRInv == RInv /\ [Next]_vars => RInv'
<1> SUFFICES ASSUME RInv, [Next]_vars PROVE RInv'
  OBVIOUS
<1>0. DiskTyped /\ RestTyped /\ SchedulerOK /\ Known /\ JobOK /\ BootOK
  BY TypeParts DEF RInv
<1>1. /\ SP!IInv'
      /\ \A id \in Ids : plan'[id] \in AllPlans \cup {<<>>}
      /\ turn' \subseteq active'
  BY <1>0, StepDrivesScheduler, SchedulerStepKeeps
<1>2. RuntimeOK'
  <2>1. CASE User
    BY <2>1, EnqueueKeeps, ControlKeeps DEF User
  <2>2. CASE Pump
    <3>1. LoopStep \/ JobStep
      BY <2>2 DEF Pump, LoopStep, JobStep
    <3> QED BY <3>1, LoopKeeps, JobStepKeeps
  <2>3. CASE UNCHANGED vars
    <3>1. DiskTyped' /\ RestTyped' /\ BootOK' /\ waiting' \subseteq paused'
      BY <1>0, <2>3 DEF vars, schedVars, diskVars, worldVars, DiskTyped, RestTyped, BootOK, SchedulerOK
    <3>2. Known'
      BY <1>0, <2>3 DEF vars, schedVars, Known, Sched!Contains, Sched!Waiting
    <3>3. JobOK'
      BY <1>0, <2>3 DEF vars, schedVars, diskVars, JobOK, Staged
    <3> QED BY <3>1, <3>2, <3>3 DEF RuntimeOK
  <2> QED BY <2>1, <2>2, <2>3, BootKeeps, WorldKeeps, CrashKeeps DEF Next
<1>3. TypeOK'
  BY <1>2 DEF RuntimeOK, TypeOK, DiskTyped, RestTyped, MaybeRecords, Staging, FinalFiles,
     SavedCheckpoints
<1> QED BY <1>1, <1>2, <1>3 DEF RInv, RuntimeOK, SchedulerOK

----------------------------------------------------------------------------
(* The release gate. *)

\* What the gate sees of the final files.
Names == [f \in Files |-> IF final[f] = None THEN None ELSE final[f].bytes]

\* What the gate observes: the content under each name, and the decisions in
\* force.
LEMMA GateVars == Gate!gateVars = <<Names, Cleared>>
BY DEF Gate!gateVars, Names

\* With the same content under every name and the same decision in force the
\* gate does not move.
LEMMA GateStutters ==
  ASSUME Names' = Names, Cleared' = Cleared PROVE [Gate!Next]_(Gate!gateVars)
BY GateVars DEF Gate!gateVars, Names

\* A step that changes no content and leaves no decision in force is a lapse of
\* the gate.
LEMMA GateLapses ==
  ASSUME Names' = Names, Cleared' = {} PROVE [Gate!Next]_(Gate!gateVars)
BY DEF Gate!Next, Gate!Lapse, Names

\* No decision is in force before the scan, after the rename or between pumps.
LEMMA ClearedFacts ==
  ASSUME JobOK
  PROVE  /\ job.step \in {"recheck", "remove", "rename"} => Cleared = {job.digest}
         /\ job.step \notin {"recheck", "remove", "rename"} => Cleared = {}
BY DEF JobOK, Cleared

\* Every step of the runtime is a step the gate allows: a name changes only by a
\* removal while a decision is in force, or by the rename that consumes it.
LEMMA StepPassesGate == RInv /\ [Next]_vars => [Gate!Next]_(Gate!gateVars)
<1> SUFFICES ASSUME RInv, [Next]_vars PROVE [Gate!Next]_(Gate!gateVars)
  OBVIOUS
<1>0. DiskTyped /\ RestTyped /\ JobOK
  BY TypeParts DEF RInv
<1>1. JobOK'
  BY NextKeepsRInv DEF RInv
<1>2. /\ job'.step \in {"recheck", "remove", "rename"} => Cleared' = {job'.digest}
      /\ job'.step \notin {"recheck", "remove", "rename"} => Cleared' = {}
  BY <1>1 DEF JobOK, Cleared
<1>3. ASSUME final' = final PROVE Names' = Names
  BY <1>3 DEF Names
<1>4. ASSUME UNCHANGED job PROVE Cleared' = Cleared
  BY <1>4 DEF Cleared
<1>5. CASE User
  <2>1. UNCHANGED job
    BY <1>5 DEF User, Enqueue, EnqueueFails, Pause, Resume, Cancel, Restart, RestartFails, UserFrame
  <2>2. final' = final \/ \E id : final' = Disown(id)
    BY <1>5 DEF User, Enqueue, EnqueueFails, Pause, Resume, Cancel, Restart, RestartFails
  <2>3. ASSUME NEW id, final' = Disown(id) PROVE Names' = Names
    <3>1. \A f \in Files : /\ final'[f] = None <=> final[f] = None
                           /\ final[f] # None => final'[f].bytes = final[f].bytes
      BY <2>3, <1>0, DisownKeeps DEF DiskTyped
    <3> QED BY <3>1 DEF Names
  <2> QED BY <2>1, <2>2, <2>3, <1>3, <1>4, GateStutters
<1>6. CASE LoopStep
  <2>1. final' = final /\ job = NoJob
    BY <1>6 DEF LoopStep, PumpBegin, AdmitSkip, AdmitReject, AdmitStart, AdmitEnd, Transfer,
       TransferNothing, SettleFailed, BeginVerify, TransferEnd, PumpEnd, diskVars, Free
  <2>2. job' = NoJob \/ \E id, step : job' = [NoJob EXCEPT !.id = id, !.step = step]
    BY <1>6, <2>1 DEF LoopStep, PumpBegin, AdmitSkip, AdmitReject, AdmitStart, AdmitEnd, Transfer,
       TransferNothing, SettleFailed, BeginVerify, TransferEnd, PumpEnd
  <2>3. job'.verdict = "none"
    <3>1. ASSUME NEW id, NEW step, job' = [NoJob EXCEPT !.id = id, !.step = step]
          PROVE  job'.verdict = "none"
      <4>1. job' = [id |-> id, step |-> step, digest |-> <<>>, verdict |-> "none"]
        BY <3>1 DEF NoJob
      <4> QED BY <4>1
    <3>2. ASSUME job' = NoJob PROVE job'.verdict = "none"
      BY <3>2 DEF NoJob
    <3> QED BY <2>2, <3>1, <3>2
  <2>4. Cleared' = {}
    BY <2>3 DEF Cleared
  <2> QED BY <2>1, <2>4, <1>3, GateLapses
<1>7. CASE Report \/ ReportRunning \/ CheckSize \/ Forget \/ Conclude
  <2>1. final' = final
    BY <1>7 DEF Report, ReportRunning, CheckSize, Forget, Conclude
  <2>2. \/ job' = NoJob
        \/ \E step \in {"running", "conclude"} : Goto(step)
        \/ \E bytes : job' = [job EXCEPT !.step = "scan", !.digest = bytes]
        \/ Refused
    BY <1>7 DEF Report, ReportRunning, CheckSize, Forget, Conclude, FailJob
  <2>3. job = [id |-> job.id, step |-> job.step, digest |-> job.digest, verdict |-> job.verdict]
    BY <1>0 DEF RestTyped, Jobs
  <2>4. job'.step \notin {"recheck", "remove", "rename"}
    <3>1. ASSUME job' = NoJob PROVE job'.step = "none"
      BY <3>1 DEF NoJob
    <3>2. ASSUME NEW step \in {"running", "conclude"}, Goto(step) PROVE job'.step = step
      BY <3>2, <2>3 DEF Goto
    <3>3. ASSUME NEW bytes, job' = [job EXCEPT !.step = "scan", !.digest = bytes]
          PROVE  job'.step = "scan"
      BY <3>3, <2>3
    <3>4. ASSUME Refused PROVE job'.step = "forget"
      BY <3>4, <2>3 DEF Refused
    <3> QED BY <2>2, <3>1, <3>2, <3>3, <3>4
  <2> QED BY <2>1, <2>4, <1>2, <1>3, GateLapses
<1>8. CASE Scan
  <2>1. job.step = "scan" /\ Names' = Names /\ job.digest \in Contents
    BY <1>8, <1>0, <1>3 DEF Scan, JobAt, JobOK, diskVars
  <2>2. job'.digest = job.digest /\ job'.step \in {"recheck", "forget"}
    BY <1>8, <1>0 DEF Scan, RestTyped, Jobs
  <2>3. CASE job'.step = "recheck"
    <3>1. Cleared' = {job.digest}
      BY <2>2, <2>3, <1>2
    <3> QED BY <2>1, <3>1 DEF Gate!Next, Gate!Clear, Names
  <2>4. CASE job'.step = "forget"
    BY <2>1, <2>4, <1>2, GateLapses
  <2> QED BY <2>2, <2>3, <2>4
<1>9. CASE Recheck
  <2>1. job.step = "recheck" /\ Names' = Names
    BY <1>9, <1>3 DEF Recheck, JobAt, diskVars
  <2>2. job'.step = "forget" \/ (job'.step = "remove" /\ job'.digest = job.digest)
    BY <1>9, <1>0 DEF Recheck, Goto, Refused, RestTyped, Jobs
  <2>3. Cleared' = {} \/ Cleared' = Cleared
    BY <2>1, <2>2, <1>0, <1>2, ClearedFacts
  <2> QED BY <2>1, <2>3, GateLapses, GateStutters
<1>10. CASE CommitRemove
  <2>1. /\ job.step = "remove" /\ job.id \in Ids /\ rec[job.id].file \in Files
    BY <1>10, JobFacts DEF CommitRemove, JobAt
  <2>2. CASE job' = NoJob /\ final' = final
    BY <2>2, <1>2, <1>3, GateLapses DEF NoJob
  <2>3. CASE final' = [final EXCEPT ![rec[job.id].file] = None] /\ Goto("rename")
    <3> DEFINE f == rec[job.id].file
    <3>1. Cleared' = Cleared
      BY <2>1, <2>3, <1>0, <1>2, ClearedFacts DEF Goto, RestTyped, Jobs
    <3>2. Names' = [Names EXCEPT ![f] = None]
      BY <2>1, <2>3, <1>0 DEF Names, DiskTyped, FinalFiles
    <3> HIDE DEF f
    <3>3. f \in Files
      BY <2>1 DEF f
    <3> QED BY <3>1, <3>2, <3>3 DEF Gate!Next, Gate!Remove, Names
  <2> QED BY <1>10, <2>2, <2>3 DEF CommitRemove, FailJob
<1>11. CASE CommitRename
  <2>1. /\ job.step = "rename" /\ job.id \in Ids /\ rec[job.id].file \in Files
    BY <1>11, JobFacts DEF CommitRename, JobAt
  <2>2. CASE job' = NoJob /\ final' = final
    BY <2>2, <1>2, <1>3, GateLapses DEF NoJob
  <2>3. CASE final' = [final EXCEPT ![rec[job.id].file] = Commit] /\ Goto("forget")
    <3> DEFINE f == rec[job.id].file
               c == job.digest
    <3>1. Cleared = {c} /\ Cleared' = {}
      BY <2>1, <2>3, <1>0, <1>2, ClearedFacts DEF Goto, RestTyped, Jobs
    <3>2. Commit # None /\ Commit.bytes = c
      BY <2>1, CommitTyped
    <3>3. Names' = [Names EXCEPT ![f] = c]
      BY <2>1, <2>3, <3>2, <1>0 DEF Names, DiskTyped, FinalFiles
    <3>4. f \in Files
      BY <2>1
    <3> HIDE DEF f, c
    <3> QED BY <3>1, <3>3, <3>4 DEF Gate!Next, Gate!Release, Names
  <2> QED BY <1>11, <2>2, <2>3 DEF CommitRename, FailJob
<1>12. CASE Boot
  <2>1. UNCHANGED job /\ final' = final
    BY <1>12 DEF Boot, BootDone, RestoreOne, RestoreFails, BootFrame
  <2> QED BY <2>1, <1>3, <1>4, GateStutters
<1>13. CASE World
  <2>1. UNCHANGED job /\ final' = final
    BY <1>13 DEF World, StartTimeReached, Tamper, ServerChanges, diskVars
  <2> QED BY <2>1, <1>3, <1>4, GateStutters
<1>14. CASE Crash
  BY <1>14, <1>2, <1>3, GateLapses DEF Crash, diskVars, NoJob
<1>15. CASE UNCHANGED vars
  BY <1>15, <1>3, <1>4, GateStutters DEF vars, diskVars
<1> QED BY <1>5, <1>6, <1>7, <1>8, <1>9, <1>10, <1>11, <1>12, <1>13, <1>14, <1>15
        DEF Next, Pump, LoopStep

----------------------------------------------------------------------------
(* The theorems. *)

\* The inductive invariant holds in every behaviour.
THEOREM RuntimeInvariant == Spec => []RInv
BY InitRInv, NextKeepsRInv, PTL DEF Spec

\* The records, the checkpoints, the staged and released files and the state
\* of a callback keep their types, whatever the network, the disk and the user
\* do and wherever the process dies.
THEOREM RuntimeTyped == Spec => []TypeOK
<1>1. RInv => TypeOK
  BY DEF RInv
<1> QED BY <1>1, RuntimeInvariant, PTL

\* The runtime never calls its scheduler in a way, or hands it a plan or a
\* report, that DownloadScheduler does not provide for.
THEOREM RuntimeImplementsScheduler == Spec => SchedulerSpec
<1>1. Init => Sched!Init
  BY DEF Init
<1> QED BY <1>1, RuntimeInvariant, StepDrivesScheduler, PTL DEF Spec, SchedulerSpec, Sched!Spec

\* A file appears under a final name only with the bytes for which a decision
\* to release is in force, and every decision releases at most one file.
THEOREM RuntimePassesGate == Spec => GateSpec
<1>1. Init => Gate!Init
  BY DEF Init, Gate!Init, Cleared, NoJob
<1> QED BY <1>1, RuntimeInvariant, StepPassesGate, PTL DEF Spec, GateSpec, Gate!Spec

----------------------------------------------------------------------------
(* What the scheduler's steps do to the ids it holds. *)

\* A call of the owner concerns one download and leaves the others where they
\* are.
LEMMA OwnerCallOthers ==
  ASSUME SchedulerOK, NEW id \in Ids, Sched!OwnerCall(id), NEW j \in Ids, j # id
  PROVE  /\ stage = "idle" /\ stage' = "idle" /\ turn' = turn
         /\ Sched!Contains(j)' <=> Sched!Contains(j)
         /\ j \in active' <=> j \in active
         /\ j \in paused' <=> j \in paused
         /\ j \in cancelled' <=> j \in cancelled
         /\ outcome'[j] = outcome[j] /\ plan'[j] = plan[j]
<1>1. /\ pending \in Seq(Ids) /\ SP!Distinct(pending)
      /\ outcome \in [Ids -> SP!Outcomes] /\ plan \in [Ids -> Seq(SP!Segment)]
  BY DEF SchedulerOK, SP!IInv, SP!TypeOK, SP!KnownOnce
<1>2. /\ Sched!Without(pending, id) = SP!Without(pending, id)
      /\ \A s : Sched!Elements(s) = SP!Elements(s)
  BY DEF Sched!Without, SP!Without, Sched!Elements, SP!Elements
<1> DEFINE w == Sched!Without(pending, id)
<1>3. w \in Seq(Ids) /\ SP!Distinct(w) /\ Sched!Elements(w) = Sched!Elements(pending) \ {id}
  BY <1>1, <1>2, PlansFitScheduler, SP!WithoutKeepsDistinct
<1> HIDE DEF w
<1>4. ASSUME NEW s \in Seq(Ids)
      PROVE  j \in Sched!Elements(Append(s, id)) <=> j \in Sched!Elements(s)
  BY DEF Sched!Elements
<1>5. j \in Sched!Elements(pending') <=> j \in Sched!Elements(pending)
  <2>1. pending' \in {pending, Append(pending, id), w, Append(w, id)}
    BY DEF Sched!OwnerCall, Sched!Queue, Sched!QueuePaused, Sched!Pause, Sched!Resume,
       Sched!Cancel, Sched!CancelAndQueue, w
  <2> QED BY <2>1, <1>1, <1>3, <1>4
<1>6. /\ stage = "idle" /\ stage' = "idle" /\ turn' = turn
      /\ j \in active' <=> j \in active
      /\ j \in paused' <=> j \in paused
      /\ j \in cancelled' <=> j \in cancelled
      /\ outcome'[j] = outcome[j] /\ plan'[j] = plan[j]
  BY <1>1 DEF Sched!OwnerCall, Sched!Queue, Sched!QueuePaused, Sched!Pause, Sched!Resume,
     Sched!Cancel, Sched!CancelAndQueue, Sched!Removed, Sched!BetweenPumps
<1> QED BY <1>5, <1>6 DEF Sched!Contains, Sched!Waiting

\* Where a call of the owner leaves the download it is about.
LEMMA OwnerCallOwn ==
  ASSUME SchedulerOK, NEW id \in Ids
  PROVE  /\ Sched!Queue(id) \/ Sched!QueuePaused(id) \/ Sched!CancelAndQueue(id) => Sched!Contains(id)'
         /\ Sched!Cancel(id) => ~Sched!Contains(id)'
         /\ Sched!Pause(id) \/ Sched!Resume(id) => (Sched!Contains(id)' <=> Sched!Contains(id))
<1>1. pending \in Seq(Ids) /\ SP!Distinct(pending)
  BY DEF SchedulerOK, SP!IInv, SP!TypeOK, SP!KnownOnce
<1>2. /\ Sched!Without(pending, id) = SP!Without(pending, id)
      /\ \A s : Sched!Elements(s) = SP!Elements(s)
  BY DEF Sched!Without, SP!Without, Sched!Elements, SP!Elements
<1> DEFINE w == Sched!Without(pending, id)
<1>3. w \in Seq(Ids) /\ Sched!Elements(w) = Sched!Elements(pending) \ {id}
  BY <1>1, <1>2, PlansFitScheduler, SP!WithoutKeepsDistinct
<1> HIDE DEF w
<1>4. \A s \in Seq(Ids) : id \in Sched!Elements(Append(s, id))
  <2> SUFFICES ASSUME NEW s \in Seq(Ids) PROVE id \in Sched!Elements(Append(s, id))
    OBVIOUS
  <2>1. /\ Len(s) + 1 \in 1..Len(Append(s, id))
        /\ Append(s, id)[Len(s) + 1] = id
    OBVIOUS
  <2> QED BY <2>1 DEF Sched!Elements
<1>5. ASSUME Sched!Queue(id) \/ Sched!QueuePaused(id) \/ Sched!CancelAndQueue(id)
      PROVE  Sched!Contains(id)'
  <2>1. pending' = Append(pending, id) \/ pending' = Append(w, id)
    BY <1>5 DEF Sched!Queue, Sched!QueuePaused, Sched!CancelAndQueue, w
  <2> QED BY <2>1, <1>1, <1>3, <1>4 DEF Sched!Contains, Sched!Waiting
<1>6. ASSUME Sched!Cancel(id) PROVE ~Sched!Contains(id)'
  BY <1>3, <1>6 DEF Sched!Cancel, Sched!Removed, Sched!Contains, Sched!Waiting, w
<1>7. ASSUME Sched!Pause(id) \/ Sched!Resume(id) PROVE Sched!Contains(id)' <=> Sched!Contains(id)
  BY <1>7 DEF Sched!Pause, Sched!Resume, Sched!Contains, Sched!Waiting
<1> QED BY <1>5, <1>6, <1>7

\* The admission loop drops a cancelled download and one whose server cannot be
\* inspected; it keeps the others.
LEMMA AdmissionContains ==
  ASSUME SchedulerOK, NEW j \in Ids
  PROVE  /\ Sched!AdmitDrop \/ Sched!AdmitReject =>
              (Sched!Contains(j)' <=> Sched!Contains(j) /\ j # Head(pending))
         /\ Sched!AdmitDefer \/ (\E p \in AllPlans : Sched!AdmitStart(p)) =>
              (Sched!Contains(j)' <=> Sched!Contains(j))
<1> DEFINE h == Head(pending)
           t == Tail(pending)
<1>1. pending \in Seq(Ids) /\ SP!Distinct(pending) /\ SP!Waiting \cap active = {}
  BY DEF SchedulerOK, SP!IInv, SP!TypeOK, SP!KnownOnce
<1>2. \A s : Sched!Elements(s) = SP!Elements(s)
  BY DEF Sched!Elements, SP!Elements
<1>3. ASSUME pending # <<>>
      PROVE  /\ h \in Ids /\ t \in Seq(Ids) /\ SP!Distinct(t)
             /\ SP!Elements(t) = SP!Elements(pending) \ {h} /\ h \in SP!Elements(pending)
             /\ h \notin active
  BY <1>1, <1>3, PlansFitScheduler, SP!TailKeepsDistinct DEF SP!Waiting
<1> HIDE DEF h, t
<1>4. ASSUME pending # <<>> PROVE SP!Elements(Append(t, h)) = SP!Elements(pending)
  <2>1. SP!Elements(Append(t, h)) = SP!Elements(t) \cup {h}
    BY <1>3, <1>4, PlansFitScheduler, SP!AppendKeepsDistinct
  <2> QED BY <2>1, <1>3, <1>4
<1>5. ASSUME Sched!AdmitDrop \/ Sched!AdmitReject
      PROVE  Sched!Contains(j)' <=> Sched!Contains(j) /\ j # h
  <2>1. pending # <<>> /\ pending' = t /\ active' = active
    BY <1>5 DEF Sched!AdmitDrop, Sched!AdmitReject, Sched!CanAdmit, t
  <2> QED BY <2>1, <1>2, <1>3 DEF Sched!Contains, Sched!Waiting
<1>6. ASSUME Sched!AdmitDefer \/ \E p \in AllPlans : Sched!AdmitStart(p)
      PROVE  Sched!Contains(j)' <=> Sched!Contains(j)
  <2>1. /\ pending # <<>>
        /\ \/ pending' = Append(t, h) /\ active' = active
           \/ pending' = t /\ active' = active \cup {h}
    BY <1>6 DEF Sched!AdmitDefer, Sched!AdmitStart, Sched!CanAdmit, h, t
  <2> QED BY <2>1, <1>2, <1>3, <1>4 DEF Sched!Contains, Sched!Waiting
<1> QED BY <1>5, <1>6 DEF h

----------------------------------------------------------------------------
(* Records and scheduler, within a pump as well. *)

\* The transfer of id has ended and its callback has returned: the pump will
\* drop it at its end.
Leaves(id) == stage = "settle" /\ id \in active \ turn /\ outcome[id] # "none"

Unsettled == States \ (Settled \cup {"failed"})

\* RecordsAgree, with what a download that leaves is allowed meanwhile.
RecordOK(id) ==
  /\ InState(id, Settled) => ~Sched!Contains(id) \/ Leaves(id)
  /\ InState(id, Unsettled) => (Sched!Contains(id) /\ ~Leaves(id)) \/ id \in cancelled
  /\ InState(id, {"running"}) => id \in active
  /\ InState(id, {"paused"}) <=> id \in paused \ waiting
  /\ id \in waiting => id \in paused /\ InState(id, {"queued", "failed"})

\* A loaded record has no other beside it and is worth restoring.
BootRecords ==
  \A id \in Ids : boot[id] # None => rec[id] = None /\ boot[id].state \notin {"completed", "cancelled"}

\* The progress callback runs in the first two loops of a pump for a download
\* that holds a slot, the completion callback in the third for the download the
\* loop stands at, whose record says so.
JobPlace ==
  /\ job.step \in {"report", "running"} =>
       stage \in {"admit", "transfer"} /\ job.id \in active \ paused
  /\ job.step \in Steps \ {"none", "report", "running"} =>
       stage = "settle" /\ job.id \in turn /\ InState(job.id, {"verifying"})

\* Only a transfer that runs comes to an outcome, and the third loop visits the
\* transfers that did.
OutcomeOK ==
  /\ \A id \in Ids : outcome[id] # "none" => id \in active \ paused
  /\ stage = "settle" => \A id \in turn : outcome[id] # "none"

RecordsOK == (\A id \in Ids : RecordOK(id)) /\ BootRecords /\ JobPlace /\ OutcomeOK

\* A record stays in agreement while neither it nor its place changes.
LEMMA RecordStays ==
  ASSUME NEW j \in Ids, RecordOK(j), rec'[j] = rec[j],
         Sched!Contains(j)' <=> Sched!Contains(j), Leaves(j)' <=> Leaves(j),
         j \in active' <=> j \in active, j \in paused' <=> j \in paused,
         j \in cancelled' <=> j \in cancelled, j \in waiting' <=> j \in waiting
  PROVE  RecordOK(j)'
BY DEF RecordOK, InState

\* The record of a changed state.
LEMMA StateSet ==
  ASSUME rec \in MaybeRecords, NEW id \in Ids, rec[id] # None, NEW s \in States, rec' = WithState(id, s)
  PROVE  /\ rec'[id] # None /\ rec'[id].state = s
         /\ rec'[id].file = rec[id].file /\ rec'[id].source = rec[id].source
         /\ rec'[id].private = rec[id].private
         /\ \A j \in Ids \ {id} : rec'[j] = rec[j]
         /\ \A S : InState(id, S)' <=> s \in S
<1>1. rec[id] \in Records
  BY DEF MaybeRecords
<1>2. [rec[id] EXCEPT !.state = s] \in Records
  BY <1>1 DEF Records
<1>3. rec' = [rec EXCEPT ![id] = [rec[id] EXCEPT !.state = s]]
  BY DEF WithState, MaybeRecords
<1>4. /\ rec'[id] = [rec[id] EXCEPT !.state = s]
      /\ \A j \in Ids \ {id} : rec'[j] = rec[j]
  BY <1>3 DEF MaybeRecords
<1>5. rec'[id] # None
  BY <1>2, <1>4, NoneAssumption
<1>6. /\ rec'[id].state = s /\ rec'[id].file = rec[id].file /\ rec'[id].source = rec[id].source
      /\ rec'[id].private = rec[id].private
  BY <1>1, <1>4 DEF Records
<1> QED BY <1>4, <1>5, <1>6 DEF InState

\* Between two pumps nothing leaves and no transfer has an outcome.
LEMMA IdleFacts ==
  ASSUME RInv, Idle
  PROVE  /\ \A j : ~Leaves(j)
         /\ job.step = "none" /\ turn = {} /\ boot = NoRecords
         /\ \A j \in Ids : outcome[j] = "none"
<1>1. SP!NoOutcomeYet /\ SP!TurnIsRunnable
  BY DEF RInv, SchedulerOK, SP!IInv
<1>2. job.step = "none"
  BY IdleHasNoJob DEF RInv
<1> QED BY <1>1, <1>2 DEF Idle, Leaves, SP!NoOutcomeYet, SP!TurnIsRunnable, RInv, BootOK

\* After a user's operation there is no callback, no loaded record and no
\* outcome, so the rest of the invariant holds of its own.
LEMMA UserKeepsRest ==
  ASSUME RInv, RInv', User
  PROVE  BootRecords' /\ JobPlace' /\ OutcomeOK' /\ Idle /\ Idle' /\ \A j : ~Leaves(j) /\ ~Leaves(j)'
<1>1. Idle /\ Idle' /\ job' = job
  <2>1. Idle /\ UserFrame
    BY DEF User, Enqueue, EnqueueFails, Pause, Resume, Cancel, Restart, RestartFails
  <2>2. (\E id \in Ids : Sched!OwnerCall(id)) \/ UNCHANGED schedVars
    BY DEF User, Enqueue, EnqueueFails, Pause, Resume, Cancel, Restart, RestartFails, Sched!OwnerCall
  <2>3. stage' = stage
    BY <2>2 DEF schedVars, Sched!OwnerCall, Sched!Queue, Sched!QueuePaused, Sched!Pause,
       Sched!Resume, Sched!Cancel, Sched!CancelAndQueue, Sched!BetweenPumps
  <2> QED BY <2>1, <2>3 DEF UserFrame, Idle
<1>2. job.step = "none"
  BY <1>1, IdleFacts
<1>3. SP!NoOutcomeYet' /\ stage' = "idle" /\ running'
  BY <1>1 DEF RInv, SchedulerOK, SP!IInv, Idle
<1>4. OutcomeOK'
  BY <1>3 DEF SP!NoOutcomeYet, OutcomeOK
<1>5. JobPlace'
  BY <1>1, <1>2 DEF JobPlace, Steps
<1>6. boot' = NoRecords
  BY <1>3 DEF RInv, BootOK
<1>7. BootRecords'
  BY <1>6 DEF BootRecords, NoRecords
<1> QED BY <1>1, <1>3, <1>4, <1>5, <1>7, IdleFacts DEF Leaves, Idle

\* Enqueueing puts the new record where it belongs.
LEMMA EnqueueKeepsRecords ==
  ASSUME RInv, RInv', RecordsOK, NEW r \in Requests, NEW id \in Ids, Enqueue(r, id) \/ EnqueueFails(r, id)
  PROVE  RecordsOK'
<1>1. User
  BY DEF User
<1>2. BootRecords' /\ JobPlace' /\ OutcomeOK' /\ \A j : ~Leaves(j) /\ ~Leaves(j)'
  BY <1>1, UserKeepsRest
<1>3. SchedulerOK /\ Known /\ DiskTyped
  BY TypeParts DEF RInv
<1>4. rec[id] = None /\ ~Sched!Contains(id)
  BY <1>3 DEF Enqueue, EnqueueFails, NextFree, FreeIds, Known
<1>5. id \notin paused /\ id \notin waiting
  BY <1>4 DEF RecordsOK, RecordOK, InState
<1>6. ASSUME NEW s \in States, rec' = [rec EXCEPT ![id] = Record(r, s)]
      PROVE  /\ \A S : InState(id, S)' <=> s \in S
             /\ \A j \in Ids \ {id} : rec'[j] = rec[j]
  <2>1. r \in [source : Sources, file : Files, private : BOOLEAN, scheduled : BOOLEAN]
    BY RuntimeAssumption
  <2>2. Record(r, s) \in Records /\ Record(r, s).state = s
    BY <2>1 DEF Record, Records
  <2>3. rec'[id] = Record(r, s) /\ \A j \in Ids \ {id} : rec'[j] = rec[j]
    BY <1>3, <1>6 DEF DiskTyped, MaybeRecords
  <2> QED BY <2>2, <2>3, NoneAssumption DEF InState
<1>7. CASE EnqueueFails(r, id)
  <2>1. rec' = [rec EXCEPT ![id] = Record(r, "cancelled")] /\ "cancelled" \in States
    BY <1>7 DEF EnqueueFails, States
  <2>2. /\ \A S : InState(id, S)' <=> "cancelled" \in S
        /\ \A j \in Ids \ {id} : rec'[j] = rec[j]
    BY <2>1, <1>6
  <2>3. UNCHANGED <<pending, active, plan, outcome, paused, cancelled, stage, scans, turn, waiting>>
    BY <1>7 DEF EnqueueFails, schedVars
  <2>4. \A j \in Ids : Sched!Contains(j)' <=> Sched!Contains(j)
    BY <2>3 DEF Sched!Contains, Sched!Waiting
  <2>5. \A j \in Ids \ {id} : RecordOK(j)'
    BY <1>2, <2>2, <2>3, <2>4, RecordStays DEF RecordsOK
  <2>6. RecordOK(id)'
    BY <1>4, <1>5, <2>2, <2>3, <2>4 DEF RecordOK, Settled, Unsettled
  <2> QED BY <1>2, <2>5, <2>6 DEF RecordsOK
<1>8. CASE Enqueue(r, id)
  <2>1. rec' = [rec EXCEPT ![id] = Record(r, "queued")] /\ "queued" \in States
    BY <1>8 DEF Enqueue, States
  <2>2. /\ \A S : InState(id, S)' <=> "queued" \in S
        /\ \A j \in Ids \ {id} : rec'[j] = rec[j]
    BY <2>1, <1>6
  <2>3. Sched!OwnerCall(id) /\ (Sched!Queue(id) \/ Sched!QueuePaused(id))
    BY <1>8 DEF Enqueue, Sched!OwnerCall
  <2>4. \A j \in Ids \ {id} : j \in waiting' <=> j \in waiting
    BY <1>8 DEF Enqueue
  <2>5. \A j \in Ids \ {id} : RecordOK(j)'
    BY <1>2, <1>3, <2>2, <2>3, <2>4, OwnerCallOthers, RecordStays DEF RecordsOK
  <2>6. Sched!Contains(id)'
    BY <1>3, <2>3, OwnerCallOwn
  <2>7. \/ id \in paused' /\ id \in waiting'
        \/ id \notin paused' /\ id \notin waiting'
    BY <1>5, <1>8 DEF Enqueue, Sched!Queue, Sched!QueuePaused
  <2>8. RecordOK(id)'
    BY <1>2, <2>2, <2>6, <2>7 DEF RecordOK, Settled, Unsettled
  <2> QED BY <1>2, <2>5, <2>8 DEF RecordsOK
<1> QED BY <1>7, <1>8

\* So do the operations on a known download.
LEMMA ControlKeepsRecords ==
  ASSUME RInv, RInv', RecordsOK, NEW id \in Ids,
         \/ Pause(id) \/ Resume(id) \/ \E discard \in BOOLEAN : Cancel(id, discard)
         \/ Restart(id) \/ RestartFails(id)
  PROVE  RecordsOK'
<1>1. User
  BY DEF User
<1>2. BootRecords' /\ JobPlace' /\ OutcomeOK' /\ \A j : ~Leaves(j) /\ ~Leaves(j)'
  BY <1>1, UserKeepsRest
<1>3. SchedulerOK /\ rec \in MaybeRecords /\ RecordOK(id)
  BY TypeParts DEF RInv, DiskTyped, RecordsOK
<1>4. Sched!OwnerCall(id) /\ rec[id] # None /\ waiting' = waiting \ {id}
  BY DEF Pause, Resume, Cancel, Restart, RestartFails, Restartable, InState, Sched!OwnerCall
<1>5. ASSUME NEW s \in States, SetState(id, s)
      PROVE  (\A S : InState(id, S)' <=> s \in S) /\ \A j \in Ids \ {id} : rec'[j] = rec[j]
  BY <1>3, <1>4, <1>5, StateSet DEF SetState
<1>6. \A j \in Ids \ {id} : RecordOK(j)'
  <2>1. \A j \in Ids \ {id} : rec'[j] = rec[j]
    BY <1>5 DEF Pause, Resume, Cancel, Restart, RestartFails, States
  <2> QED BY <1>2, <1>3, <1>4, <2>1, OwnerCallOthers, RecordStays DEF RecordsOK
<1>7. CASE Pause(id)
  <2>1. (\A S : InState(id, S)' <=> "paused" \in S) /\ Sched!Contains(id)'
    BY <1>3, <1>5, <1>7, OwnerCallOwn DEF Pause, States, Sched!Pause
  <2>2. id \in paused' \ waiting'
    BY <1>4, <1>7 DEF Pause, Sched!Pause
  <2> QED BY <1>2, <1>6, <2>1, <2>2 DEF RecordsOK, RecordOK, Settled, Unsettled
<1>8. CASE Resume(id)
  <2>1. (\A S : InState(id, S)' <=> "queued" \in S) /\ InState(id, {"paused"})
    BY <1>5, <1>8 DEF Resume, States
  <2>2. Sched!Contains(id)' \/ id \in cancelled'
    <3>1. Sched!Contains(id) \/ id \in cancelled
      BY <1>2, <1>3, <2>1 DEF RecordOK, InState, Unsettled, Settled, States
    <3> QED BY <1>3, <1>8, <3>1, OwnerCallOwn DEF Resume, Sched!Resume
  <2>3. id \notin paused' /\ id \notin waiting'
    BY <1>4, <1>8 DEF Resume, Sched!Resume
  <2> QED BY <1>2, <1>6, <2>1, <2>2, <2>3 DEF RecordsOK, RecordOK, Settled, Unsettled
<1>9. ASSUME NEW discard \in BOOLEAN, Cancel(id, discard) PROVE RecordsOK'
  <2>1. (\A S : InState(id, S)' <=> "cancelled" \in S) /\ ~Sched!Contains(id)'
    BY <1>3, <1>5, <1>9, OwnerCallOwn DEF Cancel, States
  <2>2. id \notin paused' /\ id \notin waiting'
    BY <1>4, <1>9 DEF Cancel, Sched!Cancel, Sched!Removed
  <2> QED BY <1>2, <1>6, <2>1, <2>2 DEF RecordsOK, RecordOK, Settled, Unsettled
<1>10. CASE Restart(id)
  <2>1. (\A S : InState(id, S)' <=> "queued" \in S) /\ Sched!Contains(id)'
    BY <1>3, <1>5, <1>10, OwnerCallOwn DEF Restart, States
  <2>2. id \notin paused' /\ id \notin waiting'
    BY <1>4, <1>10 DEF Restart, Sched!CancelAndQueue, Sched!Removed
  <2> QED BY <1>2, <1>6, <2>1, <2>2 DEF RecordsOK, RecordOK, Settled, Unsettled
<1>11. CASE RestartFails(id)
  <2>1. rec' = rec /\ ~Sched!Contains(id)'
    BY <1>3, <1>11, OwnerCallOwn DEF RestartFails
  <2>2. id \notin paused' /\ id \notin waiting'
    BY <1>4, <1>11 DEF RestartFails, Sched!Cancel, Sched!Removed
  <2>3. InState(id, {"completed", "failed", "cancelled", "held", "blocked"})
    BY <1>11 DEF RestartFails, Restartable
  <2> QED BY <1>2, <1>6, <2>1, <2>2, <2>3 DEF RecordsOK, RecordOK, InState, Settled, Unsettled
<1> QED BY <1>7, <1>8, <1>9, <1>10, <1>11

\* What a step of the pump's loops finds and leaves.
LEMMA LoopFacts ==
  ASSUME RInv, RInv', LoopStep
  PROVE  /\ Free /\ job.step = "none" /\ running' /\ boot' = NoRecords /\ boot = NoRecords
         /\ SchedulerOK /\ Known /\ rec \in MaybeRecords
         /\ cancelled \cap active = {} /\ turn \subseteq active
         /\ SP!Waiting \cap active = {} /\ SP!Waiting = Sched!Waiting
         /\ stage = "transfer" => turn \cap paused = {}
<1>1. Free /\ PumpFrame
  BY DEF LoopStep, PumpBegin, AdmitSkip, AdmitReject, AdmitStart, AdmitEnd, Transfer,
     TransferNothing, SettleFailed, BeginVerify, TransferEnd, PumpEnd
<1>2. job.step = "none" /\ running' /\ boot = NoRecords /\ boot' = NoRecords
  BY <1>1 DEF Free, NoJob, PumpFrame, RInv, BootOK
<1>3. SchedulerOK /\ Known /\ rec \in MaybeRecords
  BY TypeParts DEF RInv, DiskTyped
<1>4. /\ SP!CancelledNeverActive /\ SP!TurnIsRunnable /\ SP!KnownOnce /\ turn \subseteq active
  BY <1>3 DEF SchedulerOK, SP!IInv
<1>5. SP!Waiting = Sched!Waiting
  BY DEF SP!Waiting, Sched!Waiting, SP!Elements, Sched!Elements
<1> QED BY <1>1, <1>2, <1>3, <1>4, <1>5 DEF SP!CancelledNeverActive, SP!TurnIsRunnable, SP!KnownOnce

\* The callback that a step of the loops starts.
LEMMA JobStarts ==
  ASSUME NEW id \in Ids, NEW step \in Steps, job' = [NoJob EXCEPT !.id = id, !.step = step]
  PROVE  job'.id = id /\ job'.step = step /\ job'.verdict = "none"
<1>1. job' = [id |-> id, step |-> step, digest |-> <<>>, verdict |-> "none"]
  BY DEF NoJob
<1>2. job'.id = id
  BY <1>1
<1>3. job'.step = step
  BY <1>1
<1>4. job'.verdict = "none"
  <2>1. [id |-> id, step |-> step, digest |-> <<>>, verdict |-> "none"].verdict = "none"
    OBVIOUS
  <2> QED BY <1>1, <2>1, Zenon
<1> QED BY <1>2, <1>3, <1>4

\* The admission loop.
LEMMA AdmissionKeepsRecords ==
  ASSUME RInv, RInv', RecordsOK, AdmitSkip \/ AdmitReject \/ AdmitStart \/ AdmitEnd
  PROVE  RecordsOK'
<1> DEFINE h == Head(pending)
<1>0. LoopStep
  BY DEF LoopStep
<1>1. /\ job.step = "none" /\ boot' = NoRecords /\ rec \in MaybeRecords /\ SchedulerOK /\ Known
      /\ cancelled \cap active = {}
  BY <1>0, LoopFacts
<1>2. BootRecords'
  BY <1>1 DEF BootRecords, NoRecords
<1>3. /\ stage = "admit" /\ stage' \in {"admit", "transfer"} /\ outcome' = outcome
      /\ paused' = paused /\ cancelled' = cancelled
  BY DEF AdmitSkip, AdmitReject, AdmitStart, AdmitEnd, Sched!AdmitDrop, Sched!AdmitDefer,
     Sched!AdmitReject, Sched!AdmitStart, Sched!AdmitEnd, Sched!CanAdmit, Sched!NextScan
<1>4. active \subseteq active'
  BY DEF AdmitSkip, AdmitReject, AdmitStart, AdmitEnd, Sched!AdmitDrop, Sched!AdmitDefer,
     Sched!AdmitReject, Sched!AdmitStart, Sched!AdmitEnd
<1>5. OutcomeOK' /\ \A j : ~Leaves(j) /\ ~Leaves(j)'
  BY <1>3, <1>4 DEF RecordsOK, OutcomeOK, Leaves
<1>6. CASE AdmitSkip \/ AdmitEnd
  <2>1. JobPlace' /\ rec' = rec /\ waiting' = waiting /\ active' = active
    BY <1>1, <1>6 DEF AdmitSkip, AdmitEnd, JobPlace, Steps, Sched!AdmitDrop, Sched!AdmitDefer,
       Sched!AdmitEnd
  <2>2. ASSUME NEW j \in Ids, j \notin cancelled PROVE Sched!Contains(j)' <=> Sched!Contains(j)
    <3>1. CASE Sched!AdmitDrop
      BY <3>1, <2>2, <1>1, AdmissionContains DEF Sched!AdmitDrop
    <3>2. CASE Sched!AdmitDefer
      BY <3>2, <1>1, AdmissionContains
    <3>3. CASE Sched!AdmitEnd
      BY <3>3 DEF Sched!AdmitEnd, Sched!Contains, Sched!Waiting
    <3> QED BY <1>6, <3>1, <3>2, <3>3 DEF AdmitSkip, AdmitEnd
  <2>3. ASSUME NEW j \in Ids PROVE Sched!Contains(j)' => Sched!Contains(j)
    <3>1. CASE Sched!AdmitDrop
      BY <3>1, <1>1, AdmissionContains
    <3>2. CASE ~Sched!AdmitDrop
      <4>1. CASE Sched!AdmitDefer
        BY <4>1, <1>1, AdmissionContains
      <4>2. CASE Sched!AdmitEnd
        BY <4>2 DEF Sched!AdmitEnd, Sched!Contains, Sched!Waiting
      <4> QED BY <1>6, <3>2, <4>1, <4>2 DEF AdmitSkip, AdmitEnd
    <3> QED BY <3>1, <3>2
  <2>4. \A j \in Ids : RecordOK(j)'
    BY <1>3, <1>5, <2>1, <2>2, <2>3 DEF RecordsOK, RecordOK, InState
  <2> QED BY <1>2, <1>5, <2>1, <2>4 DEF RecordsOK
<1>7. CASE AdmitReject
  <2>0. PICK id \in Ids : id = h /\ rec[id] # None
    <3>1. pending # <<>>
      BY <1>7 DEF AdmitReject, Sched!AdmitReject, Sched!CanAdmit
    <3>2. h \in Ids /\ Sched!Contains(h)
      BY <1>1, <3>1, SchedulerIds
    <3> QED BY <1>1, <3>2 DEF Known
  <2>1. /\ Sched!AdmitReject /\ id \notin paused
        /\ rec' = WithState(id, "failed") /\ waiting' = waiting \ {id} /\ active' = active
        /\ JobPlace'
    BY <1>1, <1>7, <2>0 DEF AdmitReject, Sched!AdmitReject, MarkFailed, SetState, JobPlace, Steps
  <2>2. /\ \A S : InState(id, S)' <=> "failed" \in S
        /\ \A j \in Ids \ {id} : rec'[j] = rec[j]
    BY <1>1, <2>0, <2>1, StateSet DEF States
  <2>3. \A j \in Ids : Sched!Contains(j)' <=> Sched!Contains(j) /\ j # id
    BY <1>1, <2>0, <2>1, AdmissionContains
  <2>4. \A j \in Ids \ {id} : RecordOK(j)'
    BY <1>3, <1>5, <2>1, <2>2, <2>3, RecordStays DEF RecordsOK
  <2>5. RecordOK(id)'
    BY <1>3, <1>5, <2>1, <2>2 DEF RecordOK, Settled, Unsettled
  <2> QED BY <1>2, <1>5, <2>1, <2>4, <2>5 DEF RecordsOK
<1>8. CASE AdmitStart
  <2>1. PICK p : Sched!AdmitStart(p)
    BY <1>8 DEF AdmitStart
  <2>2. /\ rec' = rec /\ waiting' = waiting /\ active' = active \cup {h} /\ h \notin paused
        /\ job' = [NoJob EXCEPT !.id = h, !.step = "report"]
    BY <1>8, <2>1 DEF AdmitStart, Sched!AdmitStart
  <2>3. \A j \in Ids : Sched!Contains(j)' <=> Sched!Contains(j)
    <3>1. pending \in Seq(Ids) /\ pending # <<>>
      BY <1>1, <2>1 DEF SchedulerOK, SP!IInv, SP!TypeOK, Sched!AdmitStart, Sched!CanAdmit
    <3>2. h \in Sched!Elements(pending)
      BY <1>1, <3>1, SP!TailKeepsDistinct, PlansFitScheduler
         DEF SchedulerOK, SP!IInv, SP!KnownOnce, SP!Elements, Sched!Elements
    <3>3. p \in AllPlans
      <4>1. plan'[h] = p /\ plan'[h] \in AllPlans \cup {<<>>} /\ plan'[h] # <<>>
        <5>1. h \in Ids
          BY <1>1, <3>1, SchedulerIds
        <5>2. plan'[h] = p
          BY <1>1, <2>1, <5>1, SchedulerIds DEF Sched!AdmitStart
        <5>3. plan'[h] \in AllPlans \cup {<<>>} /\ SP!CreditMatches'
          BY <5>1 DEF RInv, SchedulerOK, SP!IInv
        <5> QED BY <2>2, <5>1, <5>2, <5>3 DEF SP!CreditMatches
      <4> QED BY <4>1
    <3> QED BY <1>1, <2>1, <3>3, AdmissionContains
  <2>4. JobPlace'
    <3>1. h \in Ids /\ stage' = "admit"
      BY <1>1, <2>1, SchedulerIds DEF Sched!AdmitStart, Sched!CanAdmit, Sched!NextScan
    <3>2. job'.id = h /\ job'.step = "report"
      BY <2>2, <3>1, JobStarts DEF Steps
    <3> QED BY <1>3, <2>2, <3>1, <3>2 DEF JobPlace, Steps
  <2>5. \A j \in Ids : RecordOK(j)'
    BY <1>3, <1>5, <2>2, <2>3 DEF RecordsOK, RecordOK, InState
  <2> QED BY <1>2, <1>5, <2>4, <2>5 DEF RecordsOK
<1> QED BY <1>6, <1>7, <1>8

\* The transfer loop.
LEMMA TransferKeepsRecords ==
  ASSUME RInv, RInv', RecordsOK,
         (\E id \in Ids : Transfer(id) \/ TransferNothing(id)) \/ TransferEnd
  PROVE  RecordsOK'
<1>0. LoopStep
  BY DEF LoopStep
<1>1. /\ job.step = "none" /\ boot' = NoRecords /\ SchedulerOK /\ turn \subseteq active
      /\ stage = "transfer" => turn \cap paused = {}
  BY <1>0, LoopFacts
<1>2. BootRecords'
  BY <1>1 DEF BootRecords, NoRecords
<1>3. /\ stage = "transfer" /\ rec' = rec /\ waiting' = waiting
      /\ UNCHANGED <<pending, active, paused, cancelled>>
  BY DEF Transfer, TransferNothing, TransferEnd, Sched!Transfer, Sched!TransferNothing, Sched!TransferEnd
<1>4. \A j : Sched!Contains(j)' <=> Sched!Contains(j)
  BY <1>3 DEF Sched!Contains, Sched!Waiting
<1>5. \A j : ~Leaves(j)
  BY <1>3 DEF Leaves
<1>6. ASSUME \A j \in Ids : ~Leaves(j)' PROVE \A j \in Ids : RecordOK(j)'
  BY <1>3, <1>4, <1>5, <1>6, RecordStays DEF RecordsOK
<1>7. CASE TransferEnd
  <2>1. JobPlace' /\ (\A j \in Ids : ~Leaves(j)') /\ OutcomeOK'
    BY <1>1, <1>3, <1>7 DEF TransferEnd, Sched!TransferEnd, JobPlace, Steps, Leaves, RecordsOK, OutcomeOK
  <2> QED BY <1>2, <1>6, <2>1 DEF RecordsOK
<1>8. ASSUME NEW id \in Ids, Transfer(id) \/ TransferNothing(id) PROVE RecordsOK'
  <2>1. /\ id \in turn /\ stage' = "transfer" /\ \A j \in Ids \ {id} : outcome'[j] = outcome[j]
        /\ job' = [NoJob EXCEPT !.id = id, !.step = "report"]
    <3>1. outcome \in [Ids -> SP!Outcomes]
      BY <1>1 DEF SchedulerOK, SP!IInv, SP!TypeOK
    <3> QED BY <3>1, <1>8 DEF Transfer, TransferNothing, Sched!Transfer, Sched!TransferNothing
  <2>2. id \in active \ paused
    BY <1>1, <1>3, <2>1
  <2>3. OutcomeOK' /\ \A j \in Ids : ~Leaves(j)'
    BY <1>3, <2>1, <2>2 DEF RecordsOK, OutcomeOK, Leaves
  <2>4. JobPlace'
    BY <1>3, <2>1, <2>2, JobStarts DEF JobPlace, Steps
  <2> QED BY <1>2, <1>6, <2>3, <2>4 DEF RecordsOK
<1> QED BY <1>7, <1>8

\* The settle loop, and the two ends of a pump.
LEMMA SettleKeepsRecords ==
  ASSUME RInv, RInv', RecordsOK,
         PumpBegin \/ PumpEnd \/ \E id \in Ids : SettleFailed(id) \/ BeginVerify(id)
  PROVE  RecordsOK'
<1>0. LoopStep
  BY DEF LoopStep
<1>1. /\ job.step = "none" /\ boot' = NoRecords /\ SchedulerOK /\ Known /\ rec \in MaybeRecords
      /\ cancelled \cap active = {} /\ turn \subseteq active
      /\ SP!Waiting \cap active = {} /\ SP!Waiting = Sched!Waiting
  BY <1>0, LoopFacts
<1>2. BootRecords'
  BY <1>1 DEF BootRecords, NoRecords
<1>3. CASE PumpBegin
  <2> DEFINE released == {id \in waiting : ~FutureStart(rec[id])}
  <2>1. /\ released \subseteq waiting /\ rec' = rec
        /\ paused' = paused \ released /\ waiting' = waiting \ released
        /\ stage = "idle" /\ stage' = "admit" /\ job' = job
        /\ UNCHANGED <<pending, active, outcome, cancelled, turn>>
    BY <1>3 DEF PumpBegin, Sched!PumpBegin
  <2> HIDE DEF released
  <2>2. /\ \A j : ~Leaves(j) /\ ~Leaves(j)'
        /\ \A j : Sched!Contains(j)' <=> Sched!Contains(j)
    BY <2>1 DEF Leaves, Sched!Contains, Sched!Waiting
  <2>3. \A j \in Ids : RecordOK(j)'
    BY <2>1, <2>2 DEF RecordsOK, RecordOK, InState
  <2>4. JobPlace' /\ OutcomeOK'
    BY <1>1, <2>1 DEF JobPlace, Steps, RecordsOK, OutcomeOK
  <2> QED BY <1>2, <2>3, <2>4 DEF RecordsOK
<1>4. ASSUME NEW id \in Ids, SettleFailed(id) PROVE RecordsOK'
  <2>1. /\ id \in turn /\ stage = "settle" /\ rec' = WithState(id, "failed") /\ waiting' = waiting \ {id}
        /\ turn' = turn \ {id} /\ job' = job
        /\ UNCHANGED <<pending, active, outcome, cancelled, paused, stage>>
    BY <1>4 DEF SettleFailed, Sched!Settle, MarkFailed, SetState
  <2>2. id \notin paused /\ rec[id] # None
    BY <1>1, <2>1 DEF RecordsOK, OutcomeOK, Known, Sched!Contains
  <2>3. /\ \A S : InState(id, S)' <=> "failed" \in S
        /\ \A j \in Ids \ {id} : rec'[j] = rec[j]
    BY <1>1, <2>1, <2>2, StateSet DEF States
  <2>4. /\ \A j : Sched!Contains(j)' <=> Sched!Contains(j)
        /\ \A j : j # id => (Leaves(j)' <=> Leaves(j))
    BY <2>1 DEF Sched!Contains, Sched!Waiting, Leaves
  <2>5. \A j \in Ids \ {id} : RecordOK(j)'
    BY <2>1, <2>3, <2>4, RecordStays DEF RecordsOK
  <2>6. RecordOK(id)'
    BY <2>1, <2>2, <2>3 DEF RecordOK, Settled, Unsettled
  <2>7. JobPlace' /\ OutcomeOK'
    BY <1>1, <2>1 DEF JobPlace, Steps, RecordsOK, OutcomeOK
  <2> QED BY <1>2, <2>5, <2>6, <2>7 DEF RecordsOK
<1>5. ASSUME NEW id \in Ids, BeginVerify(id) PROVE RecordsOK'
  <2>1. /\ id \in turn /\ stage = "settle" /\ rec' = WithState(id, "verifying") /\ waiting' = waiting
        /\ job' = [NoJob EXCEPT !.id = id, !.step = "size"]
        /\ UNCHANGED <<pending, active, outcome, cancelled, paused, stage, turn>>
    BY <1>5 DEF BeginVerify, schedVars, SetState
  <2>2. id \notin paused /\ rec[id] # None /\ id \in active
    BY <1>1, <2>1 DEF RecordsOK, OutcomeOK, Known, Sched!Contains
  <2>3. /\ \A S : InState(id, S)' <=> "verifying" \in S
        /\ \A j \in Ids \ {id} : rec'[j] = rec[j]
    BY <1>1, <2>1, <2>2, StateSet DEF States
  <2>4. \A j : (Sched!Contains(j)' <=> Sched!Contains(j)) /\ (Leaves(j)' <=> Leaves(j))
    BY <2>1 DEF Sched!Contains, Sched!Waiting, Leaves
  <2>5. \A j \in Ids \ {id} : RecordOK(j)'
    BY <2>1, <2>3, <2>4, RecordStays DEF RecordsOK
  <2>6. RecordOK(id)'
    <3>1. id \notin waiting
      BY <2>2 DEF RecordsOK, RecordOK
    <3>2. Sched!Contains(id)' /\ ~Leaves(id)'
      BY <2>1, <2>2 DEF Sched!Contains, Leaves
    <3> QED BY <2>1, <2>2, <2>3, <3>1, <3>2 DEF RecordOK, Settled, Unsettled
  <2>7. JobPlace' /\ OutcomeOK'
    <3>1. job'.id = id /\ job'.step = "size"
      BY <2>1, JobStarts DEF Steps
    <3>2. InState(job.id, {"verifying"})'
      BY <2>3, <3>1 DEF InState
    <3> QED BY <2>1, <3>1, <3>2 DEF JobPlace, Steps, RecordsOK, OutcomeOK
  <2> QED BY <1>2, <2>5, <2>6, <2>7 DEF RecordsOK
<1>6. CASE PumpEnd
  <2>1. /\ stage = "settle" /\ turn = {} /\ stage' = "idle" /\ rec' = rec /\ waiting' = waiting
        /\ active' = active \ Sched!Leaving /\ outcome' = [id \in Ids |-> "none"] /\ job' = job
        /\ UNCHANGED <<pending, cancelled, paused, turn>>
    BY <1>6 DEF PumpEnd, Sched!PumpEnd
  <2>2. /\ \A j \in Ids : j \in Sched!Leaving <=> Leaves(j)
        /\ \A j : ~Leaves(j)'
    BY <1>1, <2>1 DEF Leaves, Sched!Leaving
  <2>3. \A j \in Ids : j \in active' <=> j \in active /\ ~Leaves(j)
    BY <2>1, <2>2
  <2>4. \A j \in Ids : Sched!Contains(j)' <=> Sched!Contains(j) /\ ~Leaves(j)
    BY <1>1, <2>1, <2>3 DEF Sched!Contains, Sched!Waiting, Leaves
  <2>5. ASSUME NEW j \in Ids PROVE RecordOK(j)'
    <3>1. RecordOK(j)
      BY DEF RecordsOK
    <3>2. InState(j, {"running"}) => ~Leaves(j)
      BY <1>1, <3>1 DEF RecordOK, InState, Unsettled, Settled, States, Leaves
    <3> QED BY <2>1, <2>2, <2>3, <2>4, <3>1, <3>2 DEF RecordOK, InState
  <2>6. JobPlace' /\ OutcomeOK'
    BY <1>1, <2>1 DEF JobPlace, Steps, OutcomeOK
  <2> QED BY <1>2, <2>5, <2>6 DEF RecordsOK
<1> QED BY <1>3, <1>4, <1>5, <1>6

\* How a callback goes on: it ends, or it takes its next step for the same
\* download.
LEMMA JobMoves ==
  ASSUME RInv, JobStep
  PROVE  \/ /\ job' = NoJob
            /\ ReportRunning \/ Conclude \/ (FailJob /\ job.step \in {"size", "remove", "rename"})
         \/ /\ job'.id = job.id
            /\ \/ Report /\ job'.step = "running"
               \/ ~Report /\ job'.step \in {"scan", "recheck", "remove", "rename", "forget", "conclude"}
<1>1. job \in Jobs
  BY TypeParts DEF RInv, RestTyped
<1>2. job = [id |-> job.id, step |-> job.step, digest |-> job.digest, verdict |-> job.verdict]
  BY <1>1 DEF Jobs
<1>3. ASSUME NEW step, Goto(step) PROVE job'.id = job.id /\ job'.step = step
  BY <1>2, <1>3 DEF Goto
<1>4. ASSUME Refused PROVE job'.id = job.id /\ job'.step = "forget"
  BY <1>2, <1>4 DEF Refused
<1>5. ASSUME NEW bytes, job' = [job EXCEPT !.step = "scan", !.digest = bytes]
      PROVE  job'.id = job.id /\ job'.step = "scan"
  BY <1>2, <1>5
<1>6. ASSUME NEW v, job' = [job EXCEPT !.verdict = v, !.step = IF v = "allow" THEN "recheck" ELSE "forget"]
      PROVE  job'.id = job.id /\ job'.step \in {"recheck", "forget"}
  BY <1>2, <1>6
<1>7. CASE Report
  BY <1>3, <1>7 DEF Report
<1>8. CASE ReportRunning \/ Conclude
  BY <1>8 DEF ReportRunning, Conclude
<1>9. CASE CheckSize
  BY <1>4, <1>5, <1>9 DEF CheckSize, FailJob, JobAt, Report
<1>10. CASE Scan
  BY <1>6, <1>10 DEF Scan, JobAt, Report
<1>11. CASE Recheck
  BY <1>3, <1>4, <1>11 DEF Recheck, JobAt, Report
<1>12. CASE CommitRemove
  BY <1>3, <1>12 DEF CommitRemove, FailJob, JobAt, Report
<1>13. CASE CommitRename
  BY <1>3, <1>13 DEF CommitRename, FailJob, JobAt, Report
<1>14. CASE Forget
  BY <1>3, <1>14 DEF Forget, JobAt, Report
<1> QED BY <1>7, <1>8, <1>9, <1>10, <1>11, <1>12, <1>13, <1>14 DEF JobStep

\* The end of a completion callback: the download is settled or has failed,
\* and leaves.
LEMMA JobEndKeepsRecords ==
  ASSUME RInv, RInv', RecordsOK,
         job.step \in Steps \ {"none", "report", "running"}, Sched!Settle(job.id), job' = NoJob, PumpFrame,
         waiting' = waiting \ {job.id}, NEW s \in Settled \cup {"failed"}, SetState(job.id, s)
  PROVE  RecordsOK'
<1>1. PICK id \in Ids : id = job.id /\ id \in turn /\ stage = "settle" /\ rec[id] # None
  BY DEF RecordsOK, JobPlace, RInv, JobOK, Steps
<1>2. /\ rec' = WithState(id, s) /\ turn' = turn \ {id} /\ waiting' = waiting \ {id} /\ s \in States
      /\ UNCHANGED <<pending, active, outcome, cancelled, paused, stage>>
  BY <1>1 DEF Sched!Settle, SetState, Settled, States
<1>3. id \in active \ paused /\ outcome[id] # "none" /\ rec \in MaybeRecords
  BY <1>1, TypeParts DEF RInv, DiskTyped, RecordsOK, OutcomeOK
<1>4. /\ \A S : InState(id, S)' <=> s \in S
      /\ \A j \in Ids \ {id} : rec'[j] = rec[j]
  BY <1>1, <1>2, <1>3, StateSet
<1>5. /\ \A j : Sched!Contains(j)' <=> Sched!Contains(j)
      /\ \A j : j # id => (Leaves(j)' <=> Leaves(j))
  BY <1>2 DEF Sched!Contains, Sched!Waiting, Leaves
<1>6. \A j \in Ids \ {id} : RecordOK(j)'
  BY <1>2, <1>4, <1>5, RecordStays DEF RecordsOK
<1>7. RecordOK(id)'
  <2>1. Leaves(id)'
    BY <1>1, <1>2, <1>3 DEF Leaves
  <2> QED BY <1>2, <1>3, <1>4, <2>1 DEF RecordOK, Settled, Unsettled
<1>8. JobPlace' /\ OutcomeOK'
  BY <1>2 DEF JobPlace, NoJob, Steps, RecordsOK, OutcomeOK
<1>9. BootRecords'
  <2>1. running
    BY DEF RInv, JobOK
  <2>2. boot' = NoRecords
    BY <2>1 DEF PumpFrame, RInv, BootOK
  <2> QED BY <2>2 DEF BootRecords, NoRecords
<1> QED BY <1>6, <1>7, <1>8, <1>9 DEF RecordsOK

\* The steps of a callback.
LEMMA JobStepKeepsRecords == ASSUME RInv, RInv', RecordsOK, JobStep PROVE RecordsOK'
<1>1. job.step # "none" /\ Pump /\ running /\ running' = running
  <2>1. PumpFrame /\ job.step # "none" /\ running
    BY DEF JobStep, Report, ReportRunning, CheckSize, Scan, Recheck, CommitRemove, CommitRename,
       Forget, Conclude, JobAt
  <2> QED BY <2>1 DEF JobStep, Pump, PumpFrame
<1>2. BootRecords'
  BY <1>1 DEF RInv, BootOK, BootRecords, NoRecords
<1>3. job.id \in Ids /\ rec[job.id] # None /\ rec \in MaybeRecords /\ job.step \in Steps
  BY <1>1, JobFacts, TypeParts DEF RInv, DiskTyped, Jobs
<1>4. ASSUME job' # NoJob PROVE RecordsOK'
  <2>1. UNCHANGED <<schedVars, rec, waiting>>
    BY <1>4 DEF JobStep, Report, ReportRunning, CheckSize, Scan, Recheck, CommitRemove, CommitRename,
       Forget, Conclude, FailJob
  <2>2. \A j : (Sched!Contains(j)' <=> Sched!Contains(j)) /\ (Leaves(j)' <=> Leaves(j))
    BY <2>1 DEF schedVars, Sched!Contains, Sched!Waiting, Leaves
  <2>3. \A j \in Ids : RecordOK(j)'
    BY <2>1, <2>2, RecordStays DEF schedVars, RecordsOK
  <2>4. OutcomeOK'
    BY <2>1 DEF schedVars, RecordsOK, OutcomeOK
  <2>5. JobPlace'
    <3>1. CASE Report
      <4>1. job.step = "report" /\ job'.id = job.id /\ job'.step = "running"
        BY <1>4, <3>1, JobMoves DEF Report, JobAt
      <4> QED BY <2>1, <4>1 DEF schedVars, RecordsOK, JobPlace, Steps
    <3>2. CASE ~Report
      <4>1. job'.id = job.id /\ job'.step \in Steps \ {"none", "report", "running"}
        BY <1>4, <3>2, JobMoves DEF Steps
      <4>2. job.step \in Steps \ {"none", "report", "running"}
        BY <1>3, <1>4, <3>2 DEF JobStep, ReportRunning, CheckSize, Scan, Recheck, CommitRemove,
           CommitRename, Forget, Conclude, JobAt, Steps
      <4>3. stage = "settle" /\ job.id \in turn /\ InState(job.id, {"verifying"})
        BY <4>2 DEF RecordsOK, JobPlace
      <4>4. stage' = "settle" /\ job'.id \in turn' /\ InState(job.id, {"verifying"})'
        BY <2>1, <4>1, <4>3 DEF schedVars, InState
      <4> QED BY <4>1, <4>4 DEF JobPlace
    <3> QED BY <3>1, <3>2
  <2> QED BY <1>2, <2>3, <2>4, <2>5 DEF RecordsOK
<1>5. CASE ReportRunning
  <2>1. PICK id \in Ids : id = job.id
    BY <1>3
  <2>2. stage \in {"admit", "transfer"} /\ id \in active \ paused
    BY <1>5, <2>1 DEF ReportRunning, JobAt, RecordsOK, JobPlace
  <2>3. rec' = WithState(id, "running") /\ UNCHANGED <<schedVars, waiting>> /\ job' = NoJob
    BY <1>5, <2>1 DEF ReportRunning, SetState
  <2>4. /\ \A S : InState(id, S)' <=> "running" \in S
        /\ \A j \in Ids \ {id} : rec'[j] = rec[j]
    BY <1>3, <2>1, <2>3, StateSet DEF States
  <2>5. \A j : (Sched!Contains(j)' <=> Sched!Contains(j)) /\ ~Leaves(j)' /\ ~Leaves(j)
    BY <2>2, <2>3 DEF schedVars, Sched!Contains, Sched!Waiting, Leaves
  <2>6. \A j \in Ids \ {id} : RecordOK(j)'
    BY <2>3, <2>4, <2>5, RecordStays DEF schedVars, RecordsOK
  <2>7. RecordOK(id)'
    <3>1. id \notin waiting
      BY <2>2 DEF RecordsOK, RecordOK
    <3> QED BY <2>2, <2>3, <2>4, <2>5, <3>1
            DEF schedVars, RecordOK, Settled, Unsettled, Sched!Contains
  <2>8. JobPlace' /\ OutcomeOK'
    BY <2>3 DEF schedVars, JobPlace, NoJob, Steps, RecordsOK, OutcomeOK
  <2> QED BY <1>2, <2>6, <2>7, <2>8 DEF RecordsOK
<1>6. CASE job' = NoJob /\ ~ReportRunning
  <2>1. Conclude \/ (FailJob /\ job.step \in {"size", "remove", "rename"})
    <3>1. job'.step = "none"
      BY <1>6 DEF NoJob
    <3> QED BY <1>6, <3>1, JobMoves
  <2>2. job.step \in Steps \ {"none", "report", "running"} /\ PumpFrame
    <3>1. job.step \in {"size", "remove", "rename", "conclude"}
      BY <2>1 DEF Conclude, JobAt
    <3> QED BY <3>1 DEF Steps, JobStep, Report, ReportRunning, CheckSize, Scan, Recheck,
            CommitRemove, CommitRename, Forget, Conclude
  <2>3. CASE FailJob
    BY <1>6, <2>2, <2>3, JobEndKeepsRecords DEF FailJob, MarkFailed
  <2>4. CASE Conclude
    <3>1. Concluded(job.verdict) \in Settled
      BY <2>4 DEF Conclude, JobAt, RInv, JobOK, VerdictKinds, Concluded, Settled
    <3> QED BY <1>6, <2>2, <2>4, <3>1, JobEndKeepsRecords DEF Conclude
  <2> QED BY <2>1, <2>3, <2>4
<1> QED BY <1>4, <1>5, <1>6

\* What a record is restored as.
LEMMA RestoredFacts ==
  ASSUME NEW r \in Records
  PROVE  /\ RestoredRecord(r) \in Records
         /\ RestoredRecord(r) = [r EXCEPT !.state = RestoredRecord(r).state]
         /\ RestoredRecord(r).file = r.file /\ RestoredRecord(r).source = r.source
         /\ RestoredRecord(r).private = r.private
         /\ RestoredRecord(r).state =
              IF r.state \in {"running", "verifying"} THEN "queued" ELSE r.state
<1> DEFINE s == IF r.state \in {"running", "verifying"} THEN "queued" ELSE r.state
<1>1. s \in States
  BY DEF Records, States
<1>2. RestoredRecord(r) = [r EXCEPT !.state = s]
  BY DEF RestoredRecord, Records
<1> HIDE DEF s
<1>3. /\ RestoredRecord(r) \in Records /\ RestoredRecord(r).state = s
      /\ RestoredRecord(r).file = r.file /\ RestoredRecord(r).source = r.source
      /\ RestoredRecord(r).private = r.private
  BY <1>1, <1>2 DEF Records
<1>4. RestoredRecord(r) = [r EXCEPT !.state = RestoredRecord(r).state]
  BY <1>2, <1>3
<1> QED BY <1>3, <1>4 DEF s

\* What a step of the constructor finds.
LEMMA BootFacts ==
  ASSUME RInv, RecordsOK, NEW id \in Ids, RestoreOne(id) \/ RestoreFails(id)
  PROVE  /\ boot[id] \in Records /\ rec[id] = None
         /\ boot[id].state \notin {"completed", "cancelled"}
         /\ ~running /\ ~running' /\ job.step = "none" /\ job' = job
         /\ ~Sched!Contains(id) /\ id \notin paused /\ id \notin waiting
         /\ SchedulerOK /\ DiskTyped /\ boot \in MaybeRecords
         /\ boot' = [boot EXCEPT ![id] = None]
         /\ \E r \in Records :
              /\ rec' = [rec EXCEPT ![id] = r]
              /\ r.file = boot[id].file /\ r.source = boot[id].source
              /\ r.private = boot[id].private
              /\ \/ RestoreOne(id) /\ r = RestoredRecord(boot[id])
                 \/ RestoreFails(id) /\ r.state = "failed"
<1>1. DiskTyped /\ RestTyped /\ SchedulerOK /\ Known /\ JobOK /\ BootOK
  BY TypeParts DEF RInv
<1>2. boot[id] \in Records /\ boot' = [boot EXCEPT ![id] = None] /\ BootFrame
  BY <1>1 DEF RestoreOne, RestoreFails, RestTyped, MaybeRecords
<1>3. rec[id] = None /\ boot[id].state \notin {"completed", "cancelled"}
  BY <1>2, NoneAssumption DEF RecordsOK, BootRecords
<1>4. ~running /\ ~running' /\ job.step = "none" /\ job' = job
  BY <1>1, <1>2, NoneAssumption DEF BootOK, NoRecords, JobOK, BootFrame
<1>5. ~Sched!Contains(id) /\ id \notin paused /\ id \notin waiting
  BY <1>1, <1>3 DEF Known, RecordsOK, RecordOK, InState
<1>6. \E r \in Records :
        /\ rec' = [rec EXCEPT ![id] = r]
        /\ r.file = boot[id].file /\ r.source = boot[id].source /\ r.private = boot[id].private
        /\ \/ RestoreOne(id) /\ r = RestoredRecord(boot[id])
           \/ RestoreFails(id) /\ r.state = "failed"
  <2>1. CASE RestoreOne(id)
    BY <1>2, <2>1, RestoredFacts DEF RestoreOne
  <2>2. CASE RestoreFails(id)
    <3> DEFINE r == [boot[id] EXCEPT !.state = "failed"]
    <3>1. /\ r \in Records /\ r.state = "failed"
          /\ r.file = boot[id].file /\ r.source = boot[id].source /\ r.private = boot[id].private
      BY <1>2 DEF Records, States
    <3>2. rec' = [rec EXCEPT ![id] = r]
      BY <2>2 DEF RestoreFails
    <3> HIDE DEF r
    <3> QED BY <2>2, <3>1, <3>2
  <2> QED BY <2>1, <2>2
<1> QED BY <1>1, <1>2, <1>3, <1>4, <1>5, <1>6 DEF RestTyped

\* The constructor puts every loaded record where its state belongs.
LEMMA BootKeepsRecords == ASSUME RInv, RInv', RecordsOK, Boot PROVE RecordsOK'
<1>1. CASE BootDone
  <2>1. UNCHANGED <<schedVars, rec, waiting, job, boot>>
    BY <1>1 DEF BootDone
  <2>2. \A j \in Ids : RecordOK(j)'
    BY <2>1 DEF schedVars, RecordsOK, RecordOK, InState, Leaves, Sched!Contains, Sched!Waiting
  <2> QED BY <2>1, <2>2 DEF schedVars, RecordsOK, BootRecords, JobPlace, OutcomeOK, InState
<1>2. ASSUME NEW id \in Ids, RestoreOne(id) \/ RestoreFails(id) PROVE RecordsOK'
  <2>1. /\ boot[id] \in Records /\ boot[id].state \notin {"completed", "cancelled"}
        /\ job.step = "none" /\ job' = job
        /\ ~Sched!Contains(id) /\ id \notin paused /\ id \notin waiting
        /\ SchedulerOK /\ rec \in MaybeRecords /\ boot \in MaybeRecords
        /\ boot' = [boot EXCEPT ![id] = None]
    BY <1>2, BootFacts DEF DiskTyped
  <2>2. PICK r \in Records :
          /\ rec' = [rec EXCEPT ![id] = r]
          /\ \/ RestoreOne(id) /\ r = RestoredRecord(boot[id])
             \/ RestoreFails(id) /\ r.state = "failed"
    BY <1>2, BootFacts
  <2>3. /\ \A S : InState(id, S)' <=> r.state \in S
        /\ \A j \in Ids \ {id} : rec'[j] = rec[j] /\ boot'[j] = boot[j]
        /\ boot'[id] = None
    BY <2>1, <2>2, NoneAssumption DEF MaybeRecords, InState
  <2>4. BootRecords'
    BY <2>3 DEF RecordsOK, BootRecords
  <2>5. JobPlace'
    BY <2>1 DEF JobPlace, Steps
  <2>6. \/ UNCHANGED <<schedVars, waiting>> /\ r.state \in {"held", "blocked", "failed"}
        \/ Sched!QueuePaused(id) /\ waiting' = waiting /\ r.state = "paused"
        \/ Sched!QueuePaused(id) /\ waiting' = waiting \cup {id} /\ r.state \in {"queued", "failed"}
        \/ Sched!Queue(id) /\ waiting' = waiting /\ r.state \in {"queued", "failed"}
    <3>1. CASE RestoreFails(id) /\ r.state = "failed"
      BY <3>1 DEF RestoreFails
    <3>2. CASE RestoreOne(id) /\ r = RestoredRecord(boot[id])
      <4>1. Rescheduled(id, boot[id].state, FutureStart(boot[id]))
        BY <3>2 DEF RestoreOne
      <4>2. r.state = IF boot[id].state \in {"running", "verifying"} THEN "queued" ELSE boot[id].state
        BY <2>1, <3>2, RestoredFacts
      <4>3. boot[id].state \in {"queued", "running", "paused", "failed", "verifying", "held", "blocked"}
        BY <2>1 DEF Records, States
      <4> HIDE DEF FutureStart
      <4> QED BY <4>1, <4>2, <4>3 DEF Rescheduled
    <3> QED BY <2>2, <3>1, <3>2
  <2>7. CASE UNCHANGED <<schedVars, waiting>> /\ r.state \in {"held", "blocked", "failed"}
    <3>1. \A j : (Sched!Contains(j)' <=> Sched!Contains(j)) /\ (Leaves(j)' <=> Leaves(j))
      BY <2>7 DEF schedVars, Sched!Contains, Sched!Waiting, Leaves
    <3>2. \A j \in Ids \ {id} : RecordOK(j)'
      BY <2>3, <2>7, <3>1, RecordStays DEF schedVars, RecordsOK
    <3>3. RecordOK(id)'
      BY <2>1, <2>3, <2>7, <3>1 DEF schedVars, RecordOK, Settled, Unsettled
    <3>4. OutcomeOK'
      BY <2>7 DEF schedVars, RecordsOK, OutcomeOK
    <3> QED BY <2>4, <2>5, <3>2, <3>3, <3>4 DEF RecordsOK
  <2>8. ASSUME Sched!Queue(id) \/ Sched!QueuePaused(id),
               \A j \in Ids \ {id} : j \in waiting' <=> j \in waiting,
               RecordOK(id)'
        PROVE  RecordsOK'
    <3>1. Sched!OwnerCall(id) /\ stage = "idle" /\ stage' = "idle"
      BY <2>8 DEF Sched!OwnerCall, Sched!Queue, Sched!QueuePaused, Sched!BetweenPumps
    <3>2. \A j : ~Leaves(j) /\ ~Leaves(j)'
      BY <3>1 DEF Leaves
    <3>3. \A j \in Ids \ {id} : RecordOK(j)'
      BY <2>1, <2>3, <2>8, <3>1, <3>2, OwnerCallOthers, RecordStays DEF RecordsOK
    <3>4. OutcomeOK'
      <4>1. outcome[id] = "none"
        BY <2>1 DEF RecordsOK, OutcomeOK, Sched!Contains
      <4> QED BY <2>8, <3>1, <4>1 DEF RecordsOK, OutcomeOK, Sched!Queue, Sched!QueuePaused
    <3> QED BY <2>4, <2>5, <2>8, <3>3, <3>4 DEF RecordsOK
  <2>9. CASE Sched!QueuePaused(id) /\ waiting' = waiting /\ r.state = "paused"
    <3>1. RecordOK(id)'
      BY <2>1, <2>3, <2>9, OwnerCallOwn
         DEF RecordOK, Settled, Unsettled, Leaves, Sched!QueuePaused, Sched!BetweenPumps
    <3> QED BY <2>8, <2>9, <3>1
  <2>10. CASE Sched!QueuePaused(id) /\ waiting' = waiting \cup {id} /\ r.state \in {"queued", "failed"}
    <3>1. RecordOK(id)'
      BY <2>1, <2>3, <2>10, OwnerCallOwn
         DEF RecordOK, Settled, Unsettled, Leaves, Sched!QueuePaused, Sched!BetweenPumps
    <3> QED BY <2>8, <2>10, <3>1
  <2>11. CASE Sched!Queue(id) /\ waiting' = waiting /\ r.state \in {"queued", "failed"}
    <3>1. RecordOK(id)'
      BY <2>1, <2>3, <2>11, OwnerCallOwn
         DEF RecordOK, Settled, Unsettled, Leaves, Sched!Queue, Sched!BetweenPumps
    <3> QED BY <2>8, <2>11, <3>1
  <2> QED BY <2>6, <2>7, <2>9, <2>10, <2>11
<1> QED BY <1>1, <1>2 DEF Boot

\* The world touches neither the records nor the scheduler.
LEMMA WorldKeepsRecords == ASSUME RInv, RecordsOK, World PROVE RecordsOK'
<1>1. UNCHANGED <<schedVars, rec, waiting, job, boot>>
  BY DEF World, StartTimeReached, Tamper, ServerChanges, PumpFrame
<1>2. \A j \in Ids : RecordOK(j)'
  BY <1>1 DEF schedVars, RecordsOK, RecordOK, InState, Leaves, Sched!Contains, Sched!Waiting
<1> QED BY <1>1, <1>2 DEF schedVars, RecordsOK, BootRecords, JobPlace, OutcomeOK, InState

\* Without a record there is nothing to agree with.
LEMMA NoRecordsAgree ==
  ASSUME rec = NoRecords, paused = {}, waiting = {}, stage = "idle"
  PROVE  \A id \in Ids : RecordOK(id)
BY DEF RecordOK, InState, NoRecords

\* A new process has no record yet.
LEMMA CrashKeepsRecords == ASSUME RInv, Crash PROVE RecordsOK'
<1>1. /\ rec' = NoRecords /\ waiting' = {} /\ job' = NoJob /\ paused' = {} /\ stage' = "idle"
      /\ outcome' = [id \in Ids |-> "none"]
      /\ boot' = [id \in Ids |-> IF id \in Restorable THEN store[id] ELSE None]
  BY DEF Crash, Sched!Rebuild
<1>2. \A id \in Ids : RecordOK(id)'
  BY <1>1 DEF RecordOK, InState, NoRecords
<1>3. BootRecords'
  BY <1>1 DEF BootRecords, Restorable, NoRecords
<1>4. JobPlace' /\ OutcomeOK'
  BY <1>1 DEF JobPlace, NoJob, Steps, OutcomeOK
<1> QED BY <1>2, <1>3, <1>4 DEF RecordsOK

LEMMA InitRecords == Init => RecordsOK
<1> SUFFICES ASSUME Init PROVE RecordsOK
  OBVIOUS
<1>1. \A id \in Ids : RecordOK(id)
  BY NoRecordsAgree DEF Init, Sched!Init
<1>2. BootRecords /\ JobPlace /\ OutcomeOK
  BY DEF Init, NoRecords, BootRecords, JobPlace, NoJob, Steps, OutcomeOK, Sched!Init
<1> QED BY <1>1, <1>2 DEF RecordsOK

\* Every step keeps records and scheduler in agreement.
LEMMA NextKeepsRecords == RInv /\ RInv' /\ RecordsOK /\ [Next]_vars => RecordsOK'
<1> SUFFICES ASSUME RInv, RInv', RecordsOK, [Next]_vars PROVE RecordsOK'
  OBVIOUS
<1>1. CASE User
  BY <1>1, EnqueueKeepsRecords, ControlKeepsRecords DEF User
<1>2. CASE Pump
  <2>1. CASE JobStep
    BY <2>1, JobStepKeepsRecords
  <2>2. CASE ~JobStep
    BY <1>2, <2>2, AdmissionKeepsRecords, TransferKeepsRecords, SettleKeepsRecords DEF Pump, JobStep
  <2> QED BY <2>1, <2>2
<1>3. CASE UNCHANGED vars
  <2>1. UNCHANGED <<schedVars, rec, waiting, job, boot>>
    BY <1>3 DEF vars
  <2>2. \A j \in Ids : RecordOK(j)'
    BY <2>1 DEF schedVars, RecordsOK, RecordOK, InState, Leaves, Sched!Contains, Sched!Waiting
  <2> QED BY <2>1, <2>2 DEF schedVars, RecordsOK, BootRecords, JobPlace, OutcomeOK, InState
<1> QED BY <1>1, <1>2, <1>3, BootKeepsRecords, WorldKeepsRecords, CrashKeepsRecords DEF Next

LEMMA RecordsInvariant == Spec => []RecordsOK
<1>1. Init => RecordsOK
  BY InitRecords
<1>2. RInv /\ RInv' /\ RecordsOK /\ [Next]_vars => RecordsOK'
  BY NextKeepsRecords
<1> QED BY <1>1, <1>2, RuntimeInvariant, PTL DEF Spec

\* Between two pumps the record of every download and the scheduler tell the
\* same story, whatever fails and whenever the process dies.
THEOREM RecordsAlwaysAgree == Spec => []RecordsAgree
<1>1. RInv /\ RecordsOK => RecordsAgree
  <2> SUFFICES ASSUME RInv, RecordsOK, Idle, NEW id \in Ids
               PROVE  /\ InState(id, Settled) => ~Sched!Contains(id)
                      /\ InState(id, Unsettled) => Sched!Contains(id) \/ id \in cancelled
                      /\ InState(id, {"running"}) => id \in active
                      /\ InState(id, {"paused"}) <=> id \in paused \ waiting
                      /\ id \in waiting => id \in paused /\ InState(id, {"queued", "failed"})
    BY DEF RecordsAgree, Unsettled
  <2>1. ~Leaves(id)
    BY IdleFacts
  <2>2. RecordOK(id)
    BY DEF RecordsOK
  <2> QED BY <2>1, <2>2 DEF RecordOK
<1> QED BY <1>1, RuntimeInvariant, RecordsInvariant, PTL
=============================================================================
