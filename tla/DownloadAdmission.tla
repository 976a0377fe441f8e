------------------------- MODULE DownloadAdmission -------------------------
(***************************************************************************)
(* DownloadPlan put to use: a plan with its checkpoint, for every resource *)
(* size, segment limit and range support within the bounds.  A step makes  *)
(* any legal progress or admits the download again, perhaps against a      *)
(* resource that has changed its size, its ETag or its support for ranges. *)
(***************************************************************************)
EXTENDS DownloadPlan

CONSTANTS MaxTotal, MaxLimit, Etags

ASSUME AdmissionAssumption == MaxTotal \in Nat /\ MaxLimit \in Nat /\ Etags # {}

VARIABLES
  resource,  \* [total, ranges, etag]: what the last inspection returned
  limit,     \* the record's segment limit
  plan,      \* the plan in use
  saved      \* the checkpoint of the plan

vars == <<resource, limit, plan, saved>>

Resources == [total : 1..MaxTotal, ranges : BOOLEAN, etag : Etags]

Init ==
  /\ resource \in Resources
  /\ limit \in 0..MaxLimit
  /\ plan = MakePlan(resource.total, limit, resource.ranges)
  /\ saved = MakeCheckpoint("url", resource.etag, plan)

\* One segment receives some of its missing bytes and the plan is saved.
Progress ==
  /\ \E i \in 1..Len(plan) : \E c \in (plan[i].credit + 1)..plan[i].size :
       plan' = [plan EXCEPT ![i].credit = c, ![i].finished = c = plan[i].size]
  /\ saved' = MakeCheckpoint("url", resource.etag, plan')
  /\ UNCHANGED <<resource, limit>>

\* The download is admitted again.
Readmit ==
  /\ resource' \in Resources
  /\ plan' = ApplyCheckpoint(MakePlan(resource'.total, limit, resource'.ranges),
                             "url", resource'.etag, saved)
  /\ UNCHANGED <<limit, saved>>

Next == Progress \/ Readmit

Spec == Init /\ [][Next]_vars

----------------------------------------------------------------------------

\* The loop of make_plan, segment by segment: where the cursor stands before
\* segment i.
Cursor(total, n) ==
  LET f[i \in 1..n] == IF i = 1 THEN 0 ELSE f[i - 1] + SegmentSize(total, n, i - 1)
  IN  f

\* The segments partition the resource: none is empty, each starts where the
\* cursor of the loop stands, the last one ends at the last byte, and there are
\* never more than the limit allows.
PlanPartitions ==
  LET n == Len(plan)
  IN  /\ n >= 1
      /\ \A i \in 1..n : plan[i].size >= 1 /\ plan[i].begin = Cursor(resource.total, n)[i]
      /\ plan[n].begin + plan[n].size = resource.total
      /\ n <= (IF limit >= 1 THEN limit ELSE 1)
      /\ ~resource.ranges => n = 1

\* Admitting a download again keeps progress only of the same version of the
\* resource, and then all of it.
ResumeKeepsProgress ==
  [][Readmit =>
       IF saved.etag = resource'.etag /\ SameRanges(plan', saved.plan)
       THEN \A i \in 1..Len(plan') : plan'[i].credit = saved.plan[i].credit
       ELSE \A i \in 1..Len(plan') : plan'[i].credit = 0]_vars
=============================================================================
