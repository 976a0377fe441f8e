------------------------ MODULE MCDownloadScheduler ------------------------
(* Plans for model checking DownloadScheduler on its own. *)
EXTENDS DownloadScheduler

Fresh(begin, size) ==
  [begin |-> begin, size |-> size, credit |-> 0, retries |-> 0, finished |-> FALSE]

\* A server without byte ranges: one segment of two bytes.
OneSegment == <<Fresh(0, 2)>>

\* Three segments, restored with the first one full and the second one's
\* retries spent.
Restored == <<[Fresh(0, 1) EXCEPT !.credit = 1, !.finished = TRUE],
              [Fresh(1, 1) EXCEPT !.retries = MaxRetries],
              Fresh(2, 1)>>

\* Restored after the last segment was saved and before it was verified.
AllFull == <<[Fresh(0, 1) EXCEPT !.credit = 1, !.finished = TRUE]>>

MCPlans == {OneSegment, Restored, AllFull}
=============================================================================
