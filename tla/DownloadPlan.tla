---------------------------- MODULE DownloadPlan ----------------------------
(***************************************************************************)
(* How a download is cut into segments and how a saved checkpoint is put   *)
(* back: DownloadTransferPlanner::make_plan of                             *)
(* advanced_download_transfer_engine.hpp, make_download_checkpoint and     *)
(* apply_download_checkpoint of download_checkpoint_store.hpp.             *)
(*                                                                         *)
(* Offsets and sizes are unbounded naturals: they come from a content      *)
(* length, and no computation below exceeds it.                            *)
(***************************************************************************)
EXTENDS Naturals, Sequences

\* min({requested, limit, kMaximumSegmentsPerDownload}), at least one and at
\* most one per byte; a server without byte ranges gets a single segment.
SegmentCount(total, limit, ranges) ==
  LET cap == IF limit >= 1 THEN limit ELSE 1
  IN  IF ~ranges THEN 1 ELSE IF cap <= total THEN cap ELSE total

\* Mutant: the remainder is spread over one segment too few.
SegmentSizeShort(total, n, i) ==
  (total \div n) + (IF i < total % n THEN 1 ELSE 0)

\* The loop of make_plan: the first total % n segments are one byte longer,
\* and the cursor has passed the sizes of the segments before the i-th.
SegmentSize(total, n, i) ==
  (total \div n) + (IF i <= total % n THEN 1 ELSE 0)

SegmentBegin(total, n, i) ==
  (i - 1) * (total \div n) + (IF i - 1 <= total % n THEN i - 1 ELSE total % n)

MakePlan(total, limit, ranges) ==
  IF total = 0 THEN <<>>
  ELSE LET n == SegmentCount(total, limit, ranges)
       IN  [i \in 1..n |-> [begin |-> SegmentBegin(total, n, i),
                            size |-> SegmentSize(total, n, i),
                            credit |-> 0, retries |-> 0, finished |-> FALSE]]

\* A checkpoint is the plan with what identifies the resource it belongs to.
MakeCheckpoint(source, etag, plan) ==
  [source |-> source, etag |-> etag, plan |-> plan]

SameRanges(p, q) ==
  /\ Len(p) = Len(q)
  /\ \A i \in 1..Len(p) : p[i].begin = q[i].begin /\ p[i].size = q[i].size

\* A fresh segment with the progress an old one made.
Restored(seg, old) ==
  [begin |-> seg.begin, size |-> seg.size, credit |-> old.credit, retries |-> old.retries,
   finished |-> old.finished \/ old.credit = seg.size]

\* Mutant: the ETag is not compared.
ApplyAnyCheckpoint(fresh, source, etag, saved) ==
  IF /\ saved.source = source
     /\ SameRanges(fresh, saved.plan)
     /\ \A i \in 1..Len(fresh) : saved.plan[i].credit <= fresh[i].size
  THEN [i \in 1..Len(fresh) |-> Restored(fresh[i], saved.plan[i])]
  ELSE fresh

\* The plan to continue with: the saved credits and retries when the
\* checkpoint is of the same resource cut the same way, the fresh plan
\* otherwise.  (The code tests the ranges one by one while it copies; with
\* equal totals and equal counts they never differ half-way.)
ApplyCheckpoint(fresh, source, etag, saved) ==
  IF /\ saved.source = source
     /\ saved.etag = etag
     /\ SameRanges(fresh, saved.plan)
     /\ \A i \in 1..Len(fresh) : saved.plan[i].credit <= fresh[i].size
  THEN [i \in 1..Len(fresh) |-> Restored(fresh[i], saved.plan[i])]
  ELSE fresh
=============================================================================
