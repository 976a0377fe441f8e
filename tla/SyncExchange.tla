---------------------------- MODULE SyncExchange ----------------------------
(***************************************************************************)
(* Synchronization: what this browser may send (sync_records.hpp,          *)
(* sync_submission.hpp, sync_capabilities.hpp) and how it fetches what the *)
(* server has, page by page (sync_retrieval.hpp), while other devices      *)
(* change it.  The server and the signer are external: the server serves   *)
(* the pages it should, or any pages; the signer signs, signs for another  *)
(* device, or does not.                                                    *)
(*                                                                         *)
(* The ids of records are numbers, 0 for none; the cursor of a fetch is an *)
(* id; a record's content is left out but for whether it has any.          *)
(***************************************************************************)
EXTENDS Naturals, FiniteSets, FiniteSetsExt, SequencesExt

CONSTANTS
  Ids,              \* valid record ids
  PageSize,         \* kSyncRetrievalPageSize
  MaxPages,         \* kMaxSyncRetrievalPages
  MaxRecords        \* kMaxSyncRetrievalRecords

\* What the theorems need of them; 0 stands for no id.
Limits == Ids \subseteq Nat \ {0} /\ PageSize \in Nat \ {0} /\ MaxRecords \in Nat
ASSUME SyncAssumption == Limits

\* sync_capabilities: all three can be read and written.
Datasets == {"tabs", "history", "preferences"}
Erasable == {"tabs", "history"}

\* FetchBrowserSyncSnapshot takes these, one after the other.
Fetched == <<"tabs", "history">>

VARIABLES
  server,   \* ids the server has of the dataset being fetched, tombstones among them
  honest,   \* whether the server serves the pages it should
  fetch,    \* [n, after, pages, status]: the dataset fetched, its cursor, the pages
            \* taken, and "idle", "running", "done" or "failed"
  got,      \* the ids fetched of it, in order
  throughout, atTimes,  \* ids of the dataset all along its fetch, and at any time of it
  sent      \* the last envelope that left with its proof
syncVars == <<server, honest, fetch, got, throughout, atTimes, sent>>

Nothing == [dataset |-> "none"]

SyncInit ==
  /\ server \in SUBSET Ids /\ honest \in BOOLEAN
  /\ fetch = [n |-> 1, after |-> 0, pages |-> 0, status |-> "idle"]
  /\ got = <<>>
  /\ throughout = {} /\ atTimes = {} /\ sent = Nothing

\* What the server has after a change, and what that means for the fetch.
Served(ids) ==
  /\ server' = ids
  /\ IF fetch.status = "running"
       THEN throughout' = throughout \cap ids /\ atTimes' = atTimes \cup ids
       ELSE UNCHANGED <<throughout, atTimes>>

----------------------------------------------------------------------------
(* Sending                                                                 *)

\* A tab, a visit or the preferences, and whether to erase it.
Inputs == {i \in [dataset : Datasets, id : Ids \cup {0}, url : BOOLEAN, private : BOOLEAN,
                  deleted : BOOLEAN, revision : 0..1] :
             i.dataset = "preferences" => ~i.private}

\* MakeTabSyncRecord and MakeHistorySyncRecord: no record of a private tab, nor
\* of one without id or address; nobody makes the record of preferences.
Recordable(i) == i.dataset \in Erasable => ~i.private /\ i.id # 0 /\ i.url

\* MakeSyncEnvelope and MakeSyncTombstone: a tombstone is made of an id alone and has
\* no content; whether the id is of a private tab nobody asks.
Envelope(i) ==
  [dataset |-> i.dataset, revision |-> i.revision, deleted |-> i.deleted,
   content |-> ~i.deleted, private |-> i.private]

\* ValidateSyncEnvelopeShape
Shape(id, e) == id # 0 /\ e.revision # 0 /\ (e.deleted <=> ~e.content)

\* Without a proof of the signer that names this device nothing leaves.
Send(i) ==
  /\ i.deleted \/ Recordable(i)
  /\ i.deleted => i.dataset \in Erasable
  /\ Shape(i.id, Envelope(i))
  /\ sent' = Envelope(i)
  /\ IF i.dataset = Fetched[fetch.n]
       THEN Served(server \cup {i.id})
       ELSE UNCHANGED <<server, throughout, atTimes>>
  /\ UNCHANGED <<honest, fetch, got>>

\* Another device, or the server forgetting a tombstone.
ElsewhereChanged ==
  /\ \E id \in Ids : Served(SymDiff(server, {id}))
  /\ UNCHANGED <<honest, fetch, got, sent>>

----------------------------------------------------------------------------
(* Fetching                                                                *)

Begin ==
  /\ fetch.status = "idle"
  /\ fetch' = [fetch EXCEPT !.status = "running"]
  /\ throughout' = server /\ atTimes' = throughout'
  /\ UNCHANGED <<server, honest, got, sent>>

\* The ids of a page are in order, none twice.
Ascending(ids) == \A i, j \in DOMAIN ids : i < j => ids[i] < ids[j]

\* Any page; "shaped" says whether its records are of this dataset and well formed.
AnyPage ==
  [records : BoundedSeq(Ids, PageSize + 1), next : Ids \cup {0}, shaped : {TRUE}]
  \cup {[records |-> <<>>, next |-> 0, shaped |-> FALSE]}

\* The page an honest server serves: the least ids after the cursor, in order,
\* as many as fit, and where to go on when there are more.
IsHonest(page, after) ==
  LET left == {id \in server : id > after}
      ids == Range(page.records)
  IN  /\ page.shaped /\ ids \subseteq left /\ Ascending(page.records)
      /\ Len(page.records) <= PageSize
      /\ left \subseteq ids \/ Len(page.records) = PageSize
      /\ \A x \in left \ ids, y \in ids : y < x
      /\ page.next = IF left \subseteq ids THEN 0 ELSE Last(page.records)

\* ValidateSyncRetrievalBatch
ValidPage(page, after) ==
  /\ page.shaped /\ Len(page.records) <= PageSize
  /\ \A i \in DOMAIN page.records : page.records[i] > after
  /\ Ascending(page.records)

\* Mutant: the first page is taken for all there is.
PageFirstOnly(page) ==
  LET all == got \o page.records
  IN  IF ~ValidPage(page, fetch.after) \/ Len(all) > MaxRecords
        THEN fetch' = [fetch EXCEPT !.status = "failed"] /\ UNCHANGED got
      ELSE got' = all /\ fetch' = [fetch EXCEPT !.status = "done"]

\* One turn of the loop of FetchSyncDataset.  Without pages left it gives up.
Page(page) ==
  LET all == got \o page.records
  IN  IF ~ValidPage(page, fetch.after) \/ Len(all) > MaxRecords
        THEN fetch' = [fetch EXCEPT !.status = "failed"] /\ UNCHANGED got
      ELSE /\ got' = all
           /\ fetch' = IF page.next = 0 THEN [fetch EXCEPT !.status = "done"]
                       ELSE IF page.records = <<>> \/ page.next # Last(page.records)
                               \/ fetch.pages + 1 = MaxPages
                         THEN [fetch EXCEPT !.status = "failed"]
                       ELSE [fetch EXCEPT !.after = page.next, !.pages = @ + 1]

\* The transport may fail.
FetchPage ==
  /\ fetch.status = "running"
  /\ \/ \E page \in AnyPage : (honest => IsHonest(page, fetch.after)) /\ Page(page)
     \/ fetch' = [fetch EXCEPT !.status = "failed"] /\ UNCHANGED got
  /\ UNCHANGED <<server, honest, throughout, atTimes, sent>>

\* The second dataset is fetched when the first is there, which is not looked at
\* again.
NextDataset ==
  /\ fetch.status = "done" /\ fetch.n < Len(Fetched)
  /\ fetch' = [n |-> fetch.n + 1, after |-> 0, pages |-> 0, status |-> "idle"]
  /\ server' \in SUBSET Ids /\ got' = <<>> /\ throughout' = {} /\ atTimes' = {}
  /\ UNCHANGED <<honest, sent>>

SyncNext ==
  \/ \E i \in Inputs : Send(i)
  \/ ElsewhereChanged \/ Begin \/ FetchPage \/ NextDataset

SyncSpec == SyncInit /\ [][SyncNext]_syncVars

----------------------------------------------------------------------------
(* Properties                                                              *)

\* What leaves the browser has no content of a private tab (the tombstone of one, which
\* is its id, may leave), has a revision, and is a tombstone exactly when it has no
\* content.
SentIsAllowed ==
  sent # Nothing =>
    /\ sent.private => ~sent.content
    /\ sent.revision > 0
    /\ sent.deleted <=> ~sent.content

\* Whatever the server sends, what was fetched has no id twice, is in order and
\* within the limits.
FetchedIsOrdered ==
  /\ Ascending(got)
  /\ Len(got) <= MaxRecords

\* A server that serves the pages it should may change while they are fetched:
\* what it had all along is not missed, and nothing is fetched that it never had.
NothingMissed ==
  honest /\ fetch.status = "done" =>
    throughout \subseteq Range(got) /\ Range(got) \subseteq atTimes

\* What is sent is allowed to be; what is fetched is in order whatever the
\* server sends, and all there was if it behaves.
SyncIsSound == SentIsAllowed /\ FetchedIsOrdered /\ NothingMissed
=============================================================================
