--------------------------- MODULE FrontEndProofs ---------------------------
(***************************************************************************)
(* Proofs about the parts of the browser the user sees and what they keep  *)
(* of his session, one after the other: PrivateSession, CefView,           *)
(* SyncExchange, BrowserShell, SessionRecovery, BrowserWindow.  They share *)
(* no state, and no proof uses another.                                    *)
(***************************************************************************)
EXTENDS BrowserWindow, SessionRecovery, PrivateSession, CefView, BrowserShell, SyncExchange,
        FiniteSetTheorems, SequenceTheorems, WellFoundedInduction, TLAPS

----------------------------------------------------------------------------
(***************************************************************************)
(* What private browsing keeps to for any number of sessions, downloads    *)
(* and grants, with an engine that may refuse any call.                    *)
(*                                                                         *)
(* A context is destroyed either when the application stops, which drops   *)
(* everything any context holds, or by close_and_forget, whose chain of    *)
(* clearings ends well only if every one did: ChainClears is the heart of  *)
(* it, and says of both engines what a success means.                      *)
(***************************************************************************)

DownloadRecords == [session : SessionIds, disposition : {"undecided", "keep", "delete"}]

PrivateTypes ==
  /\ engine \in {"cef", "conforming"} /\ running \in BOOLEAN
  /\ contexts \in SUBSET SessionIds /\ windows \in SUBSET SessionIds
  /\ held \in [SessionIds -> SUBSET Classes]
  /\ sessions \subseteq 1..(nextId - 1) /\ nextId \in Nat \ {0}
  /\ DOMAIN present = SessionIds
  /\ files \in SUBSET Downloads
  /\ downloads \in [DOMAIN downloads -> DownloadRecords] /\ DOMAIN downloads \subseteq files

PrivateInv == PrivateTypes /\ NothingOutlives

\* What a call clears is of the known classes, and one that reports success to a
\* conforming engine's caller cleared all it was asked for.
LEMMA OneClears ==
  ASSUME NEW classes \in SUBSET Classes, NEW r \in Clearings(classes),
         engine \in {"cef", "conforming"}
  PROVE  /\ r.gone \subseteq Classes /\ r.ok \in BOOLEAN
         /\ engine = "conforming" /\ r.ok => classes \subseteq r.gone
         /\ engine = "cef" /\ r.ok => classes # {"permissions"}
  <1>1. CASE engine = "conforming"
    <2>1. r = [gone |-> classes, ok |-> TRUE] \/ r = [gone |-> {}, ok |-> FALSE]
      BY <1>1, Zenon DEF Clearings
    <2>2. CASE r = [gone |-> classes, ok |-> TRUE]
      BY <1>1, <2>2
    <2>3. CASE r = [gone |-> {}, ok |-> FALSE]
      BY <1>1, <2>3
    <2> QED
      BY <2>1, <2>2, <2>3
  <1>2. CASE engine = "cef"
    <2>1. CASE classes = {"permissions"}
      <3>1. r = [gone |-> {}, ok |-> FALSE]
        BY <1>2, <2>1 DEF Clearings
      <3> QED
        BY <1>2, <3>1
    <2>2. CASE classes # {"permissions"}
      <3>1. r = [gone |-> classes \cap {"cache", "authentication"}, ok |-> TRUE]
        BY <1>2, <2>2 DEF Clearings
      <3> QED
        BY <1>2, <2>2, <3>1
    <2> QED
      BY <2>1, <2>2
  <1> QED
    BY <1>1, <1>2

\* A chain that reports success left nothing of any class behind: under CEF no
\* chain does, since clearing the permissions is refused.
LEMMA ChainClears ==
  ASSUME NEW r \in Wipes, engine \in {"cef", "conforming"}
  PROVE  r.ok => Classes \subseteq r.gone
  <1>1. PICK a \in Clearings(DataClasses), b \in Clearings({"authentication"}),
             c \in Clearings({"permissions"}) :
               r = [gone |-> a.gone \cup (IF a.ok THEN b.gone ELSE {})
                             \cup (IF a.ok /\ b.ok THEN c.gone ELSE {}),
                    ok |-> a.ok /\ b.ok /\ c.ok]
    BY DEF Wipes
  <1>2. r.ok = (a.ok /\ b.ok /\ c.ok)
    BY <1>1, Zenon
  <1>3. r.gone = a.gone \cup (IF a.ok THEN b.gone ELSE {})
                        \cup (IF a.ok /\ b.ok THEN c.gone ELSE {})
    BY <1>1, Zenon
  <1>4. /\ DataClasses \in SUBSET Classes /\ {"authentication"} \in SUBSET Classes
        /\ {"permissions"} \in SUBSET Classes
    BY DEF Classes, DataClasses
  <1>5. /\ engine = "conforming" /\ a.ok => DataClasses \subseteq a.gone
        /\ engine = "conforming" /\ b.ok => {"authentication"} \subseteq b.gone
        /\ engine = "conforming" /\ c.ok => {"permissions"} \subseteq c.gone
        /\ engine = "cef" => ~c.ok
    BY <1>4, OneClears
  <1> QED
    BY <1>2, <1>3, <1>5 DEF Classes

LEMMA PrivateInitHolds == PrivateInit => PrivateInv
  <1> SUFFICES ASSUME PrivateInit PROVE PrivateInv
    OBVIOUS
  <1>1. PrivateTypes
    BY DEF PrivateInit, PrivateTypes
  <1>2. NothingOutlives
    BY DEF PrivateInit, NothingOutlives
  <1> QED
    BY <1>1, <1>2 DEF PrivateInv

\* Taking classes from a context leaves the others' contents as they are.
LEMMA Taken ==
  ASSUME PrivateInv, NEW s \in SessionIds, NEW gone, held' = [held EXCEPT ![s] = @ \ gone]
  PROVE  /\ held' \in [SessionIds -> SUBSET Classes]
         /\ \A i \in SessionIds : held'[i] \subseteq held[i]
         /\ held'[s] = held[s] \ gone
  BY DEF PrivateInv, PrivateTypes

LEMMA SessionStepKeeps == ASSUME PrivateInv, SessionNext PROVE PrivateInv'
  <1> USE DEF PrivateInv, PrivateTypes, NothingOutlives
  <1>1. CASE Shutdown
    BY <1>1 DEF Shutdown, manVars, sideVars
  <1>2. CASE Initialize
    BY <1>2 DEF Initialize, manVars, sideVars
  <1>3. CASE CreateSession
    <2>1. nextId' \in Nat \ {0} /\ sessions' \subseteq 1..(nextId' - 1)
      <3>1. nextId \in Nat \ {0} /\ nextId' = nextId + 1 /\ sessions' = sessions \cup {nextId}
        BY <1>3 DEF CreateSession
      <3>2. \A n \in sessions : n \in 1..(nextId - 1)
        OBVIOUS
      <3> QED
        BY <3>1, <3>2
    <2>2. DOMAIN present' = SessionIds
      BY <1>3 DEF CreateSession
    <2> QED
      BY <1>3, <2>1, <2>2 DEF CreateSession, appVars, sideVars
  <1>4. ASSUME NEW s \in SessionIds, NewPrivateWindow(s) PROVE PrivateInv'
    BY <1>4 DEF NewPrivateWindow, manVars, sideVars
  <1>5. ASSUME NEW s \in SessionIds, ClearSearch(s) PROVE PrivateInv'
    BY <1>5 DEF ClearSearch, Drop, appVars, sideVars
  <1>6. ASSUME NEW s \in SessionIds, ClearEverything(s) PROVE PrivateInv'
    <2>1. PICK r \in Wipes :
            /\ held' = [held EXCEPT ![s] = @ \ r.gone]
            /\ IF r.ok THEN Drop(s, Classes \cup {"search"}) ELSE UNCHANGED manVars
      BY <1>6 DEF ClearEverything
    <2>2. DOMAIN present' = SessionIds /\ UNCHANGED <<sessions, nextId>>
      BY <2>1 DEF Drop, manVars
    <2> QED
      BY <1>6, <2>1, <2>2, Taken DEF ClearEverything, sideVars
  <1>7. ASSUME NEW s \in SessionIds, CloseAndForget(s) PROVE PrivateInv'
    <2>1. PICK r \in Wipes :
            /\ held' = [held EXCEPT ![s] = @ \ r.gone]
            /\ IF r.ok /\ s \in sessions
                 THEN contexts' = contexts \ {s} /\ sessions' = sessions \ {s}
                 ELSE UNCHANGED <<contexts, sessions>>
      BY <1>7 DEF CloseAndForget
    <2>2. r.ok => held'[s] = {}
      BY <2>1, Taken, ChainClears
    <2>3. PrivateTypes'
      BY <1>7, <2>1, Taken DEF CloseAndForget, sideVars
    <2>4. NothingOutlives'
      BY <2>1, <2>2, Taken
    <2> QED
      BY <2>3, <2>4
  <1>8. ASSUME NEW s \in SessionIds, ForgetByWindow(s) PROVE PrivateInv'
    BY <1>8 DEF ForgetByWindow, appVars, sideVars
  <1>9. ASSUME NEW s \in SessionIds, NEW class \in Classes, Browse(s, class) PROVE PrivateInv'
    BY <1>9 DEF Browse, manVars, sideVars
  <1>10. ASSUME NEW s \in SessionIds, NEW class \in Classes, Clear(s, class) PROVE PrivateInv'
    <2>1. PICK r \in Clearings({class}) :
            /\ held' = [held EXCEPT ![s] = @ \ r.gone]
            /\ IF r.ok THEN Drop(s, {class}) ELSE UNCHANGED manVars
      BY <1>10 DEF Clear
    <2>2. DOMAIN present' = SessionIds /\ UNCHANGED <<sessions, nextId>>
      BY <2>1 DEF Drop, manVars
    <2> QED
      BY <1>10, <2>1, <2>2, Taken DEF Clear, sideVars
  <1> QED
    BY <1>1, <1>2, <1>3, <1>4, <1>5, <1>6, <1>7, <1>8, <1>9, <1>10 DEF SessionNext

LEMMA StoreStepKeeps == ASSUME PrivateInv, StoreNext PROVE PrivateInv'
  <1> USE DEF PrivateInv, PrivateTypes, NothingOutlives, appVars, manVars
  <1>1. ASSUME NEW s \in SessionIds, CloseDownloads(s) PROVE PrivateInv'
    <2>1. PICK deleted \in SUBSET ToDelete(s) :
            /\ files' = files \ deleted
            /\ downloads' = [d \in DOMAIN downloads \ OfSession(s) |-> downloads[d]]
      BY <1>1 DEF CloseDownloads
    <2>2. deleted \subseteq OfSession(s)
      BY DEF ToDelete
    <2>3. downloads' \in [DOMAIN downloads' -> DownloadRecords] /\ DOMAIN downloads' \subseteq files'
      BY <2>1, <2>2
    <2> QED
      BY <1>1, <2>1, <2>3 DEF CloseDownloads
  <1>2. ASSUME NEW s \in SessionIds, NEW g \in Grants, NEW d \in {"once", "session", "block"},
               Permit(s, g, d)
        PROVE  PrivateInv'
    BY <1>2 DEF Permit
  <1>3. ASSUME NEW s \in SessionIds, NEW g \in Grants, ConsumeOnce(s, g) PROVE PrivateInv'
    BY <1>3 DEF ConsumeOnce
  <1>4. ASSUME NEW s \in SessionIds, NEW gone \in SUBSET Grants, ForgetGrants(s, gone) PROVE PrivateInv'
    BY <1>4 DEF ForgetGrants
  <1>5. ASSUME NEW s \in SessionIds, NEW d \in Downloads, RegisterDownload(d, s) PROVE PrivateInv'
    <2>1. [session |-> s, disposition |-> "undecided"] \in DownloadRecords
      BY DEF DownloadRecords
    <2>2. downloads' \in [DOMAIN downloads' -> DownloadRecords] /\ DOMAIN downloads' \subseteq files'
      BY <1>5, <2>1 DEF RegisterDownload
    <2> QED
      BY <1>5, <2>2 DEF RegisterDownload
  <1>6. ASSUME NEW d \in Downloads, NEW p \in {"keep", "delete"}, ChooseDisposition(d, p)
        PROVE  PrivateInv'
    <2>1. downloads' \in [DOMAIN downloads -> DownloadRecords]
      BY <1>6 DEF ChooseDisposition, DownloadRecords
    <2> QED
      BY <1>6, <2>1 DEF ChooseDisposition
  <1> QED
    BY <1>1, <1>2, <1>3, <1>4, <1>5, <1>6 DEF StoreNext

LEMMA PrivateStepKeeps == PrivateInv /\ [PrivateNext]_privateVars => PrivateInv'
  <1> SUFFICES ASSUME PrivateInv, [PrivateNext]_privateVars PROVE PrivateInv'
    OBVIOUS
  <1>1. CASE UNCHANGED privateVars
    BY <1>1 DEF PrivateInv, PrivateTypes, NothingOutlives, privateVars, appVars, manVars, sideVars
  <1> QED
    BY <1>1, SessionStepKeeps, StoreStepKeeps DEF PrivateNext

\* The inductive invariant: types, and nothing left in a destroyed context.
THEOREM PrivateInvariant == PrivateSpec => []PrivateInv
  BY PrivateInitHolds, PrivateStepKeeps, PTL DEF PrivateSpec

\* Contexts, sessions, contents, records and files keep their types.
THEOREM PrivateTyped == PrivateSpec => []PrivateTypeOK
  <1>1. PrivateInv => PrivateTypeOK
    BY DEF PrivateInv, PrivateTypes, PrivateTypeOK
  <1> QED
    BY <1>1, PrivateInvariant, PTL

\* close_and_forget destroys a context only with nothing left in it, whichever
\* of the engine's calls failed.
THEOREM PrivateNothingOutlives == PrivateSpec => []NothingOutlives
  BY PrivateInvariant, PTL DEF PrivateInv

\* The manager forgets a session only together with its context, unless only
\* its window was closed: a failed close_and_forget can be repeated.
THEOREM PrivateRetryRemains == PrivateSpec => RetryRemains
  <1>1. [PrivateNext]_privateVars => [\A s \in sessions \ sessions' : s \in contexts' => ForgetByWindow(s)]_privateVars
    <2> SUFFICES ASSUME PrivateNext, NEW s \in sessions \ sessions', s \in contexts'
                 PROVE  ForgetByWindow(s)
      BY DEF privateVars
    <2>1. ASSUME SessionNext PROVE ForgetByWindow(s)
      <3>1. ~Shutdown /\ ~Initialize /\ ~CreateSession
        BY DEF Shutdown, Initialize, CreateSession, manVars
      <3>2. PICK i \in SessionIds :
              \/ NewPrivateWindow(i) \/ ClearSearch(i) \/ ClearEverything(i)
              \/ CloseAndForget(i) \/ ForgetByWindow(i)
              \/ \E class \in Classes : Browse(i, class) \/ Clear(i, class)
        BY <2>1, <3>1 DEF SessionNext
      <3>3. ~NewPrivateWindow(i) /\ ~ClearSearch(i) /\ ~ClearEverything(i)
        BY DEF NewPrivateWindow, ClearSearch, ClearEverything, Drop, manVars
      <3>4. ~\E class \in Classes : Browse(i, class) \/ Clear(i, class)
        BY DEF Browse, Clear, Drop, manVars
      <3>5. ~CloseAndForget(i)
        BY DEF CloseAndForget
      <3>6. ForgetByWindow(i) => s = i
        BY DEF ForgetByWindow
      <3> QED
        BY <3>2, <3>3, <3>4, <3>5, <3>6
    <2>2. ~StoreNext
      BY DEF StoreNext, CloseDownloads, Permit, ConsumeOnce, ForgetGrants, RegisterDownload,
             ChooseDisposition, manVars
    <2> QED
      BY <2>1, <2>2 DEF PrivateNext
  <1> QED
    BY <1>1, PTL DEF PrivateSpec, RetryRemains

\* Under an engine that keeps its promise the manager says a class is gone only
\* when it is.
THEOREM PrivateManagerNeverAhead == PrivateSpec => ManagerNeverAhead
  <1>1. PrivateInv /\ [PrivateNext]_privateVars =>
          [engine = "conforming" =>
             \A s \in contexts : \A c \in Classes :
               c \in present[s] \ present'[s] => c \notin held'[s]]_privateVars
    <2> SUFFICES ASSUME PrivateInv, PrivateNext, engine = "conforming", NEW s \in contexts,
                        NEW c \in Classes, c \in present[s] \ present'[s]
                 PROVE  c \notin held'[s]
      BY DEF privateVars
    <2>0. s \in SessionIds /\ DOMAIN present = SessionIds
      BY DEF PrivateInv, PrivateTypes
    <2>1. ASSUME SessionNext PROVE c \notin held'[s]
      <3>1. ~Shutdown /\ ~Initialize
        BY DEF Shutdown, Initialize, manVars
      <3>2. ~CreateSession
        BY <2>0 DEF CreateSession
      <3>3. PICK i \in SessionIds :
              \/ NewPrivateWindow(i) \/ ClearSearch(i) \/ ClearEverything(i)
              \/ CloseAndForget(i) \/ ForgetByWindow(i)
              \/ \E class \in Classes : Browse(i, class) \/ Clear(i, class)
        BY <2>1, <3>1, <3>2 DEF SessionNext
      <3>4. ~NewPrivateWindow(i) /\ ~CloseAndForget(i) /\ ~ForgetByWindow(i)
        BY DEF NewPrivateWindow, CloseAndForget, ForgetByWindow, manVars
      <3>5. ~ClearSearch(i)
        BY <2>0 DEF ClearSearch, Drop, Classes, DataClasses
      <3>6. ASSUME ClearEverything(i) PROVE c \notin held'[s]
        <4>1. PICK r \in Wipes :
                /\ held' = [held EXCEPT ![i] = @ \ r.gone]
                /\ IF r.ok THEN Drop(i, Classes \cup {"search"}) ELSE UNCHANGED manVars
          BY <3>6 DEF ClearEverything
        <4>2. r.ok /\ s = i
          BY <2>0, <4>1 DEF Drop, manVars
        <4> QED
          BY <4>1, <4>2, Taken, ChainClears DEF PrivateInv, PrivateTypes
      <3>7. ASSUME NEW class \in Classes, Clear(i, class) PROVE c \notin held'[s]
        <4>1. PICK r \in Clearings({class}) :
                /\ held' = [held EXCEPT ![i] = @ \ r.gone]
                /\ IF r.ok THEN Drop(i, {class}) ELSE UNCHANGED manVars
          BY <3>7 DEF Clear
        <4>2. r.ok /\ s = i /\ c = class
          BY <2>0, <4>1 DEF Drop, manVars
        <4>3. {class} \subseteq r.gone
          BY <4>2, OneClears DEF PrivateInv, PrivateTypes
        <4> QED
          BY <4>1, <4>2, <4>3, Taken
      <3>8. ~\E class \in Classes : Browse(i, class)
        BY DEF Browse, manVars
      <3> QED
        BY <3>3, <3>4, <3>5, <3>6, <3>7, <3>8
    <2>2. ~StoreNext
      BY DEF StoreNext, CloseDownloads, Permit, ConsumeOnce, ForgetGrants, RegisterDownload,
             ChooseDisposition, manVars
    <2> QED
      BY <2>1, <2>2 DEF PrivateNext
  <1> QED
    BY <1>1, PrivateInvariant, PTL DEF PrivateSpec, ManagerNeverAhead

\* close_session reports every file that was to go and is still there.
THEOREM PrivateSurvivorReported == PrivateSpec => SurvivorReported
  <1>1. [PrivateNext]_privateVars =>
          [\A d \in DOMAIN downloads \ DOMAIN downloads' :
             downloads[d].disposition = "delete" /\ d \in files' => ~told']_privateVars
    <2> SUFFICES ASSUME PrivateNext, NEW d \in DOMAIN downloads \ DOMAIN downloads',
                        downloads[d].disposition = "delete", d \in files'
                 PROVE  ~told'
      BY DEF privateVars
    <2>1. ~SessionNext
      BY DEF SessionNext, Shutdown, Initialize, CreateSession, NewPrivateWindow, ClearSearch,
             ClearEverything, CloseAndForget, ForgetByWindow, Browse, Clear, sideVars
    <2>2. PICK s \in SessionIds : CloseDownloads(s)
      BY <2>1 DEF PrivateNext, StoreNext, Permit, ConsumeOnce, ForgetGrants, RegisterDownload,
                  ChooseDisposition
    <2>3. PICK deleted \in SUBSET ToDelete(s) :
            /\ files' = files \ deleted
            /\ downloads' = [e \in DOMAIN downloads \ OfSession(s) |-> downloads[e]]
            /\ told' = (deleted = ToDelete(s))
      BY <2>2 DEF CloseDownloads
    <2>4. d \in ToDelete(s)
      BY <2>3 DEF OfSession, ToDelete
    <2>5. deleted # ToDelete(s)
      BY <2>3, <2>4
    <2> QED
      BY <2>3, <2>5, Zenon
  <1> QED
    BY <1>1, PTL DEF PrivateSpec, SurvivorReported

----------------------------------------------------------------------------
(***************************************************************************)
(* Proofs about one web view of the engine, for any number of browsers and *)
(* of requests: whoever asks the renderer is answered, and once.           *)
(*                                                                         *)
(* The inductive invariant adds to the types and to AnsweredOnce what they *)
(* rest on: what was not asked yet was not answered either, and the client *)
(* keeps a callback only as long as it knows a browser.  The second needs  *)
(* the closing of any browser, also of one the client has forgotten, to    *)
(* answer whatever is open: CEF may close the browser the client knows     *)
(* after another one was created, or before.                               *)
(***************************************************************************)

\* No answer to what nobody asked.
UnaskedUnanswered == \A r \in Requests : r > made => answers[r] = 0

\* A callback is kept only while a browser is known.
PendingHasCurrent == pending # {} => current # 0

ViewInv == ViewTypeOK /\ AnsweredOnce /\ UnaskedUnanswered /\ PendingHasCurrent

----------------------------------------------------------------------------
(* The initial states                                                      *)

\* A view that was just made has the inductive invariant.
LEMMA ViewInitHolds == ViewInit => ViewInv
  <1> SUFFICES ASSUME ViewInit PROVE ViewInv
    OBVIOUS
  <1>1. ViewTypeOK
    <2>1. attached \in BOOLEAN /\ closed \in BOOLEAN
      BY Zenon DEF ViewInit
    <2>2. made \in Nat /\ 1..made \subseteq Requests /\ pending \subseteq 1..made
      BY DEF ViewInit
    <2>3. /\ viewUrl \in Urls \cup {NoUrl} /\ clientUrl \in Urls \cup {NoUrl}
          /\ stage \in [Browsers -> {"none", "creating", "open", "closing", "gone"}]
          /\ current \in Shown \cup {0}
          /\ mail \in [Requests -> {"none", "asked", "replied"}]
      BY DEF ViewInit
    <2>4. answers \in [Requests -> Nat]
      BY DEF ViewInit
    <2> QED
      BY <2>1, <2>2, <2>3, <2>4 DEF ViewTypeOK
  <1>2. AnsweredOnce /\ UnaskedUnanswered /\ PendingHasCurrent
    <2>1. \A r \in Requests : answers[r] = 0
      BY DEF ViewInit
    <2>2. 1..made = {} /\ pending = {}
      BY DEF ViewInit
    <2> QED
      BY <2>1, <2>2 DEF AnsweredOnce, UnaskedUnanswered, PendingHasCurrent
  <1> QED
    BY <1>1, <1>2 DEF ViewInv

----------------------------------------------------------------------------
(* Calls and callbacks that touch no request                               *)

\* What only moves browsers and addresses, and keeps a known browser known.
LEMMA BrowserStep ==
  ASSUME ViewInv,
         viewUrl' \in Urls \cup {NoUrl}, clientUrl' \in Urls \cup {NoUrl},
         stage' \in [Browsers -> {"none", "creating", "open", "closing", "gone"}],
         current' \in Shown' \cup {0}, current # 0 => current' # 0,
         attached' \in BOOLEAN,
         UNCHANGED <<closed, made, pending, mail, answers>>
  PROVE  ViewInv'
  <1>1. ViewTypeOK'
    BY DEF ViewInv, ViewTypeOK
  <1>2. AnsweredOnce' /\ UnaskedUnanswered' /\ PendingHasCurrent'
    BY DEF ViewInv, AnsweredOnce, UnaskedUnanswered, PendingHasCurrent
  <1> QED
    BY <1>1, <1>2 DEF ViewInv

\* A surface is attached to the known browser, or another one is asked for.
LEMMA AttachKeeps == ViewInv /\ Attach => ViewInv'
  <1> SUFFICES ASSUME ViewInv, Attach PROVE ViewInv'
    OBVIOUS
  <1>1. stage' \in [Browsers -> {"none", "creating", "open", "closing", "gone"}]
        /\ attached' \in BOOLEAN
    BY DEF ViewInv, ViewTypeOK, Attach
  <1>2. current' \in Shown' \cup {0}
    <2>1. CASE current = 0
      BY <2>1 DEF Attach
    <2>2. CASE current # 0
      BY <2>2 DEF Attach, ViewInv, ViewTypeOK, Shown
    <2> QED
      BY <2>1, <2>2
  <1> QED
    BY <1>1, <1>2, BrowserStep DEF Attach, ViewInv, ViewTypeOK

\* The known browser is asked to close, and stays known until it has.
LEMMA DetachKeeps == ViewInv /\ Detach => ViewInv'
  <1> SUFFICES ASSUME ViewInv, Detach PROVE ViewInv'
    OBVIOUS
  <1>1. stage' \in [Browsers -> {"none", "creating", "open", "closing", "gone"}]
    BY DEF ViewInv, ViewTypeOK, Detach
  <1>2. current' \in Shown' \cup {0}
    BY DEF Detach, ViewInv, ViewTypeOK, Shown
  <1> QED
    BY <1>1, <1>2, BrowserStep DEF Detach, ViewInv, ViewTypeOK

\* The address of the view or of the client changes.
LEMMA AddressKeeps ==
  ASSUME ViewInv,
         (\E u \in Urls : Navigate(u)) \/ (\E b \in Browsers, u \in Urls : Load(b, u)) \/ Publish
  PROVE  ViewInv'
  <1>1. viewUrl' \in Urls \cup {NoUrl} /\ clientUrl' \in Urls \cup {NoUrl}
    BY DEF ViewInv, ViewTypeOK, Navigate, Load, Publish
  <1>2. UNCHANGED <<stage, current, attached, closed, made, pending, mail, answers>>
    BY DEF Navigate, Load, Publish
  <1> QED
    BY <1>1, <1>2, BrowserStep DEF ViewInv, ViewTypeOK, Shown

\* A browser that was created is the known one, whichever was before.
LEMMA AfterCreatedKeeps == ASSUME ViewInv, NEW b \in Browsers, AfterCreated(b) PROVE ViewInv'
  <1>1. stage' \in [Browsers -> {"none", "creating", "open", "closing", "gone"}]
    BY DEF ViewInv, ViewTypeOK, AfterCreated
  <1>2. current' \in Shown' /\ current' # 0
    BY DEF AfterCreated, ViewInv, ViewTypeOK, Shown, Browsers
  <1> QED
    BY <1>1, <1>2, BrowserStep DEF AfterCreated, ViewInv, ViewTypeOK

----------------------------------------------------------------------------
(* Requests and their answers                                              *)

\* The request gets the next number; it is kept when it was sent, and answered
\* when it was not.
LEMMA RequestKeeps == ViewInv /\ Request => ViewInv'
  <1> SUFFICES ASSUME ViewInv, Request PROVE ViewInv'
    OBVIOUS
  <1>1. /\ made \in Nat /\ made' = made + 1 /\ made + 1 \in Requests /\ current # 0
        /\ 1..made' = 1..made \cup {made + 1} /\ 1..made' \subseteq Requests
    BY DEF Request, ViewInv, ViewTypeOK, Requests
  <1>2. /\ pending \subseteq 1..made /\ answers \in [Requests -> Nat]
        /\ mail \in [Requests -> {"none", "asked", "replied"}] /\ Requests \subseteq Nat
    BY DEF ViewInv, ViewTypeOK, Requests
  <1>3. answers[made + 1] = 0
    BY <1>1 DEF ViewInv, UnaskedUnanswered
  <1>4. PICK went \in BOOLEAN :
          IF went THEN /\ pending' = pending \cup {made + 1} /\ answers' = answers
                       /\ mail' = [mail EXCEPT ![made + 1] = "asked"]
          ELSE /\ answers' = [answers EXCEPT ![made + 1] = @ + 1]
               /\ pending' = pending /\ mail' = mail
    BY DEF Request
  <1>5. UNCHANGED <<viewUrl, clientUrl, stage, current, attached, closed>>
    BY DEF Request
  <1>6. ViewTypeOK'
    <2>1. pending' \subseteq 1..made'
      <3>1. 1..made \subseteq 1..(made + 1) /\ made + 1 \in 1..(made + 1)
        BY <1>1
      <3> QED
        BY <1>1, <1>2, <1>4, <3>1
    <2>2. mail' \in [Requests -> {"none", "asked", "replied"}]
      BY <1>2, <1>4
    <2>3. answers' \in [Requests -> Nat]
      <3>1. answers[made + 1] + 1 \in Nat
        BY <1>3
      <3> QED
        BY <1>2, <1>4, <3>1
    <2> QED
      BY <2>1, <2>2, <2>3, <1>1, <1>5 DEF ViewInv, ViewTypeOK, Shown
  <1>7. AnsweredOnce'
    <2> SUFFICES ASSUME NEW r \in 1..(made + 1)
                 PROVE  answers'[r] = IF r \in pending' THEN 0 ELSE 1
      BY <1>1 DEF AnsweredOnce
    <2>1. r \in Requests
      BY <1>1
    <2>2. CASE r = made + 1
      BY <1>1, <1>2, <1>3, <1>4, <2>2
    <2>3. CASE r \in 1..made
      BY <1>1, <1>2, <1>4, <2>1, <2>3 DEF ViewInv, AnsweredOnce
    <2> QED
      BY <1>1, <2>2, <2>3
  <1>8. UnaskedUnanswered'
    BY <1>1, <1>2, <1>4 DEF ViewInv, UnaskedUnanswered
  <1>9. PendingHasCurrent'
    BY <1>1, <1>5 DEF PendingHasCurrent
  <1> QED
    BY <1>6, <1>7, <1>8, <1>9 DEF ViewInv

\* A refused preview is answered and never kept.
LEMMA RequestProtectedKeeps == ViewInv /\ RequestProtected => ViewInv'
  <1> SUFFICES ASSUME ViewInv, RequestProtected PROVE ViewInv'
    OBVIOUS
  <1>1. /\ made \in Nat /\ made' = made + 1 /\ made + 1 \in Requests
        /\ 1..made' = 1..made \cup {made + 1} /\ 1..made' \subseteq Requests
    BY DEF RequestProtected, ViewInv, ViewTypeOK, Requests
  <1>2. /\ pending \subseteq 1..made /\ answers \in [Requests -> Nat] /\ Requests \subseteq Nat
    BY DEF ViewInv, ViewTypeOK, Requests
  <1>3. answers' = [answers EXCEPT ![made + 1] = 1]
    <2>1. answers[made + 1] = 0
      BY <1>1 DEF ViewInv, UnaskedUnanswered
    <2> QED
      BY <1>1, <2>1 DEF RequestProtected
  <1>4. UNCHANGED <<viewUrl, clientUrl, stage, current, attached, closed, pending, mail>>
    BY DEF RequestProtected
  <1>5. ViewTypeOK'
    BY <1>1, <1>2, <1>3, <1>4 DEF ViewInv, ViewTypeOK, Shown
  <1>6. AnsweredOnce' /\ UnaskedUnanswered'
    BY <1>1, <1>2, <1>3, <1>4 DEF ViewInv, AnsweredOnce, UnaskedUnanswered, Requests
  <1>7. PendingHasCurrent'
    BY <1>4 DEF ViewInv, PendingHasCurrent
  <1> QED
    BY <1>5, <1>6, <1>7 DEF ViewInv

\* Calling the callbacks of some of the requests that are open, and forgetting
\* them, answers each of them for the first time.
LEMMA AnsweredStep ==
  ASSUME ViewInv, NEW S, S \subseteq pending, Answered(S), made' = made
  PROVE  /\ pending' \subseteq 1..made' /\ answers' \in [Requests -> Nat]
         /\ AnsweredOnce' /\ UnaskedUnanswered' /\ pending' \subseteq pending
  <1>1. /\ pending \subseteq 1..made /\ 1..made \subseteq Requests /\ made \in Nat
        /\ answers \in [Requests -> Nat] /\ Requests \subseteq Nat
    BY DEF ViewInv, ViewTypeOK, Requests
  <1>2. /\ pending' = pending \ S
        /\ answers' = [r \in Requests |-> IF r \in S THEN answers[r] + 1 ELSE answers[r]]
    BY DEF Answered
  <1>3. AnsweredOnce'
    BY <1>1, <1>2 DEF ViewInv, AnsweredOnce
  <1>4. UnaskedUnanswered'
    BY <1>1, <1>2 DEF ViewInv, UnaskedUnanswered
  <1> QED
    BY <1>1, <1>2, <1>3, <1>4

\* A browser that closes answers whatever is open, known or not.
LEMMA BeforeCloseKeeps == ASSUME ViewInv, NEW b \in Browsers, BeforeClose(b) PROVE ViewInv'
  <1>1. /\ pending' \subseteq 1..made' /\ answers' \in [Requests -> Nat]
        /\ AnsweredOnce' /\ UnaskedUnanswered'
    BY AnsweredStep DEF BeforeClose
  <1>2. pending' = {}
    BY DEF BeforeClose, Answered
  <1>3. current' \in Shown' \cup {0}
    BY DEF BeforeClose, ViewInv, ViewTypeOK, Shown
  <1>4. ViewTypeOK'
    BY <1>1, <1>3 DEF BeforeClose, ViewInv, ViewTypeOK
  <1> QED
    BY <1>1, <1>2, <1>4 DEF ViewInv, PendingHasCurrent

\* The renderer's answer goes on its way.
LEMMA ReplyKeeps == ASSUME ViewInv, NEW r \in Requests, Reply(r) PROVE ViewInv'
  <1>1. ViewTypeOK'
    BY DEF Reply, ViewInv, ViewTypeOK, Shown
  <1>2. AnsweredOnce' /\ UnaskedUnanswered' /\ PendingHasCurrent'
    BY DEF Reply, ViewInv, AnsweredOnce, UnaskedUnanswered, PendingHasCurrent
  <1> QED
    BY <1>1, <1>2 DEF ViewInv

\* An answer that arrives is passed on if it is still waited for.
LEMMA DeliverKeeps == ASSUME ViewInv, NEW r \in Requests, Deliver(r) PROVE ViewInv'
  <1>1. /\ pending' \subseteq 1..made' /\ answers' \in [Requests -> Nat]
        /\ AnsweredOnce' /\ UnaskedUnanswered' /\ pending' \subseteq pending
    <2>1. {r} \cap pending \subseteq pending /\ Answered({r} \cap pending) /\ made' = made
      BY DEF Deliver
    <2> QED
      BY <2>1, AnsweredStep
  <1>2. ViewTypeOK'
    BY <1>1 DEF Deliver, ViewInv, ViewTypeOK, Shown
  <1>3. PendingHasCurrent'
    BY <1>1 DEF Deliver, ViewInv, PendingHasCurrent
  <1> QED
    BY <1>1, <1>2, <1>3 DEF ViewInv

----------------------------------------------------------------------------
(* The theorems                                                            *)

\* Every step of the view keeps the inductive invariant.
LEMMA ViewStepKeeps == ViewInv /\ [ViewNext]_viewVars => ViewInv'
  <1> SUFFICES ASSUME ViewInv, [ViewNext]_viewVars PROVE ViewInv'
    OBVIOUS
  <1>1. CASE Attach
    BY <1>1, AttachKeeps
  <1>2. CASE Detach
    BY <1>2, DetachKeeps
  <1>3. CASE Request
    BY <1>3, RequestKeeps
  <1>4. CASE RequestProtected
    BY <1>4, RequestProtectedKeeps
  <1>5. CASE Publish
    BY <1>5, Zenon, AddressKeeps
  <1>9. ASSUME NEW u \in Urls, Navigate(u) PROVE ViewInv'
    BY <1>9, AddressKeeps
  <1>6. ASSUME NEW b \in Browsers,
               AfterCreated(b) \/ BeforeClose(b) \/ \E u \in Urls : Load(b, u)
        PROVE  ViewInv'
    BY <1>6, AfterCreatedKeeps, BeforeCloseKeeps, AddressKeeps
  <1>7. ASSUME NEW r \in Requests, Reply(r) \/ Deliver(r)
        PROVE  ViewInv'
    BY <1>7, ReplyKeeps, DeliverKeeps
  <1>8. CASE UNCHANGED viewVars
    BY <1>8 DEF viewVars, ViewInv, ViewTypeOK, AnsweredOnce, UnaskedUnanswered, PendingHasCurrent, Shown
  <1> QED
    BY <1>1, <1>2, <1>3, <1>4, <1>5, <1>6, <1>7, <1>8, <1>9 DEF ViewNext

\* The inductive invariant holds in every reachable state.
LEMMA ViewInvariant == ViewSpec => []ViewInv
  BY ViewInitHolds, ViewStepKeeps, PTL DEF ViewSpec

\* The variables of a view keep their types: among them, the client knows no
\* browser but one that was created and has not closed.
THEOREM ViewTyped == ViewSpec => []ViewTypeOK
  BY ViewInvariant, PTL DEF ViewInv

\* Every probe and every preview is answered exactly once, whether by the
\* renderer, by the failure to send it or by a closing browser, and although
\* the renderer's answer may arrive after that (cef_client.hpp).
THEOREM ViewAnsweredOnce == ViewSpec => []AnsweredOnce
  BY ViewInvariant, PTL DEF ViewInv

\* While an answer is due there is a browser whose renderer or whose closing
\* gives it.
THEOREM ViewPendingHasBrowser == ViewSpec => []PendingHasBrowser
  <1>1. ViewInv => PendingHasBrowser
    BY DEF ViewInv, ViewTypeOK, PendingHasCurrent, PendingHasBrowser, Shown, Alive
  <1> QED
    BY <1>1, ViewInvariant, PTL

\* The properties of a view together.
THEOREM ViewAnswersRequests == ViewSpec => []RequestsAreAnswered
  <1>1. ViewTypeOK /\ AnsweredOnce /\ PendingHasBrowser => RequestsAreAnswered
    BY DEF RequestsAreAnswered
  <1> QED
    BY <1>1, ViewTyped, ViewAnsweredOnce, ViewPendingHasBrowser, PTL

----------------------------------------------------------------------------
(***************************************************************************)
(* Proofs about SyncExchange, for any ids, page sizes and limits, any      *)
(* server and any changes of what it has while its pages are fetched.      *)
(*                                                                         *)
(* What was fetched is in order because every id of it is at most the      *)
(* cursor and a page is past the cursor; nothing is missed because what    *)
(* the server had all along is fetched up to the cursor.                   *)
(***************************************************************************)

SyncTypes ==
  /\ server \subseteq Ids /\ honest \in BOOLEAN
  /\ fetch \in [n : Nat, after : Ids \cup {0}, pages : Nat,
                status : {"idle", "running", "done", "failed"}]
  /\ got \in Seq(Ids) /\ throughout \subseteq Ids /\ atTimes \subseteq Ids

\* What was fetched lies before the cursor,
BeforeCursor ==
  /\ fetch.status = "idle" => got = <<>> /\ fetch.after = 0
  /\ fetch.status = "running" => \A i \in DOMAIN got : got[i] <= fetch.after

\* and of an honest server lacks nothing before it.
UpToCursor ==
  /\ fetch.status = "running" => throughout \subseteq server /\ server \subseteq atTimes
  /\ fetch.status = "running" /\ honest =>
       /\ Range(got) \subseteq atTimes
       /\ \A x \in throughout : x <= fetch.after => x \in Range(got)

SyncInv == SyncTypes /\ FetchedIsOrdered /\ BeforeCursor /\ UpToCursor /\ NothingMissed

----------------------------------------------------------------------------
(* Pages                                                                   *)

LEMMA PageType ==
  ASSUME NEW page \in AnyPage, page.shaped
  PROVE  page.records \in Seq(Ids) /\ page.next \in Ids \cup {0}
  <1>1. CASE page \in [records : BoundedSeq(Ids, PageSize + 1), next : Ids \cup {0}, shaped : {TRUE}]
    <2>1. page.records \in BoundedSeq(Ids, PageSize + 1) /\ page.next \in Ids \cup {0}
      BY <1>1
    <2>2. PICK m \in 0..(PageSize + 1) : page.records \in [1..m -> Ids]
      BY <2>1 DEF BoundedSeq, SeqOf
    <2> QED
      BY <2>1, <2>2
  <1>2. CASE page \in {[records |-> <<>>, next |-> 0, shaped |-> FALSE]}
    BY <1>2
  <1> QED
    BY <1>1, <1>2 DEF AnyPage

\* Two ascending sequences, the second past a bound of the first.
LEMMA AppendAscends ==
  ASSUME Ids \subseteq Nat, NEW s \in Seq(Ids), NEW t \in Seq(Ids), NEW k \in Nat,
         Ascending(s), Ascending(t),
         \A i \in DOMAIN s : s[i] <= k, \A i \in DOMAIN t : t[i] > k
  PROVE  /\ s \o t \in Seq(Ids) /\ Ascending(s \o t) /\ Range(s \o t) = Range(s) \cup Range(t)
  <1>1. /\ s \o t \in Seq(Ids) /\ DOMAIN s = 1..Len(s) /\ DOMAIN t = 1..Len(t)
        /\ DOMAIN (s \o t) = 1..(Len(s) + Len(t)) /\ Len(s) \in Nat /\ Len(t) \in Nat
    OBVIOUS
  <1>2. \A i \in 1..(Len(s) + Len(t)) :
          (s \o t)[i] = IF i <= Len(s) THEN s[i] ELSE t[i - Len(s)]
    OBVIOUS
  <1>3. (\A i \in 1..Len(s) : s[i] \in Nat) /\ (\A i \in 1..Len(t) : t[i] \in Nat)
    <2>1. (\A i \in 1..Len(s) : s[i] \in Ids) /\ (\A i \in 1..Len(t) : t[i] \in Ids)
      OBVIOUS
    <2> QED
      BY <2>1
  <1>4. ASSUME NEW i \in 1..(Len(s) + Len(t)), NEW j \in 1..(Len(s) + Len(t)), i < j
        PROVE  (s \o t)[i] < (s \o t)[j]
    <2>1. CASE j <= Len(s)
      BY <1>1, <1>2, <1>4, <2>1 DEF Ascending
    <2>2. CASE i <= Len(s) /\ j > Len(s)
      <3>1. s[i] <= k /\ t[j - Len(s)] > k /\ s[i] \in Nat /\ t[j - Len(s)] \in Nat
        <4>1. i \in 1..Len(s) /\ j - Len(s) \in 1..Len(t)
          BY <1>1, <2>2
        <4> QED
          BY <1>1, <1>3, <4>1, Zenon
      <3> QED
        BY <1>2, <2>2, <3>1
    <2>3. CASE i > Len(s)
      <3>1. i - Len(s) \in DOMAIN t /\ j - Len(s) \in DOMAIN t /\ i - Len(s) < j - Len(s)
        BY <1>1, <1>4, <2>3
      <3>2. t[i - Len(s)] < t[j - Len(s)]
        BY <3>1 DEF Ascending
      <3> QED
        BY <1>1, <1>2, <1>4, <2>3, <3>2
    <2> QED
      BY <1>1, <2>1, <2>2, <2>3
  <1>5. Ascending(s \o t)
    BY <1>1, <1>4 DEF Ascending
  <1>6. Range(s \o t) \subseteq Range(s) \cup Range(t)
    <2> SUFFICES ASSUME NEW i \in 1..(Len(s) + Len(t))
                 PROVE  (s \o t)[i] \in Range(s) \cup Range(t)
      BY <1>1 DEF Range
    <2>1. CASE i <= Len(s)
      BY <1>1, <1>2, <2>1 DEF Range
    <2>2. CASE i > Len(s)
      <3>1. i - Len(s) \in DOMAIN t
        BY <1>1, <2>2
      <3> QED
        BY <1>2, <2>2, <3>1 DEF Range
    <2> QED
      BY <1>1, <2>1, <2>2
  <1>7. Range(s) \subseteq Range(s \o t)
    <2> SUFFICES ASSUME NEW i \in DOMAIN s PROVE s[i] \in Range(s \o t)
      BY DEF Range
    <2>1. i \in DOMAIN (s \o t) /\ (s \o t)[i] = s[i]
      BY <1>1, <1>2
    <2> QED
      BY <2>1 DEF Range
  <1>8. Range(t) \subseteq Range(s \o t)
    <2> SUFFICES ASSUME NEW i \in DOMAIN t PROVE t[i] \in Range(s \o t)
      BY DEF Range
    <2>1. i + Len(s) \in DOMAIN (s \o t) /\ (s \o t)[i + Len(s)] = t[i]
      BY <1>1, <1>2
    <2> QED
      BY <2>1 DEF Range
  <1> QED
    BY <1>1, <1>5, <1>6, <1>7, <1>8

\* The last id of an ascending sequence is the greatest.
LEMMA LastIsGreatest ==
  ASSUME Ids \subseteq Nat, NEW s \in Seq(Ids), s # <<>>, Ascending(s)
  PROVE  Last(s) \in Range(s) /\ \A x \in Range(s) : x <= Last(s)
  <1>1. Last(s) = s[Len(s)] /\ Len(s) \in DOMAIN s /\ DOMAIN s = 1..Len(s)
    BY DEF Last
  <1>2. \A i \in DOMAIN s : s[i] \in Nat /\ (i = Len(s) \/ i < Len(s))
    <2>1. \A i \in DOMAIN s : s[i] \in Ids
      OBVIOUS
    <2>2. Len(s) \in Nat
      OBVIOUS
    <2>3. \A i \in 1..Len(s) : i = Len(s) \/ i < Len(s)
      BY <2>2
    <2>4. \A i \in DOMAIN s : s[i] \in Nat
      BY <2>1
    <2> QED
      BY <1>1, <2>3, <2>4
  <1>3. ASSUME NEW i \in DOMAIN s PROVE s[i] <= Last(s)
    <2>1. CASE i = Len(s)
      BY <1>1, <1>2, <2>1
    <2>2. CASE i < Len(s)
      BY <1>1, <1>2, <2>2 DEF Ascending
    <2> QED
      BY <1>2, <2>1, <2>2
  <1> QED
    BY <1>1, <1>3 DEF Range

----------------------------------------------------------------------------
(* Initially, and step by step                                             *)

LEMMA SyncInitHolds == ASSUME Limits, SyncInit PROVE SyncInv
  <1>1. SyncTypes /\ BeforeCursor /\ UpToCursor /\ NothingMissed
    BY DEF Limits, SyncInit, SyncTypes, BeforeCursor, UpToCursor, NothingMissed
  <1>2. FetchedIsOrdered
    BY DEF Limits, SyncInit, FetchedIsOrdered, Ascending
  <1> QED
    BY <1>1, <1>2 DEF SyncInv

\* A change of what the server has.
LEMMA ServedKeeps ==
  ASSUME Limits, SyncInv, NEW ids \in SUBSET Ids, Served(ids), UNCHANGED <<honest, fetch, got>>
  PROVE  SyncInv'
  <1> USE DEF SyncInv
  <1>1. SyncTypes'
    BY DEF SyncTypes, Served
  <1>2. FetchedIsOrdered'
    BY DEF FetchedIsOrdered, Ascending
  <1>3. BeforeCursor'
    BY DEF BeforeCursor
  <1>4. UpToCursor'
    <2>1. CASE fetch.status = "running"
      BY <2>1 DEF UpToCursor, Served, Range
    <2>2. CASE fetch.status # "running"
      BY <2>2 DEF UpToCursor
    <2> QED
      BY <2>1, <2>2
  <1>5. NothingMissed'
    <2>1. CASE fetch.status = "running"
      BY <2>1 DEF NothingMissed
    <2>2. CASE fetch.status # "running"
      BY <2>2 DEF NothingMissed, Served, Range
    <2> QED
      BY <2>1, <2>2
  <1> QED
    BY <1>1, <1>2, <1>3, <1>4, <1>5

LEMMA SendKeeps ==
  ASSUME Limits, SyncInv, NEW i \in Inputs, Send(i)
  PROVE  SyncInv'
  <1>1. CASE i.dataset = Fetched[fetch.n]
    <2>1. i.id \in Ids
      BY DEF Inputs, Send, Shape
    <2>2. server \cup {i.id} \in SUBSET Ids
      BY <2>1 DEF SyncInv, SyncTypes
    <2>3. Served(server \cup {i.id}) /\ UNCHANGED <<honest, fetch, got>>
      BY <1>1 DEF Send
    <2> QED
      BY <2>2, <2>3, ServedKeeps
  <1>2. CASE i.dataset # Fetched[fetch.n]
    BY <1>2 DEF Send, SyncInv, SyncTypes, FetchedIsOrdered, Ascending, BeforeCursor, UpToCursor,
       NothingMissed, Range
  <1> QED
    BY <1>1, <1>2

LEMMA ElsewhereKeeps == ASSUME Limits, SyncInv, ElsewhereChanged PROVE SyncInv'
  <1>1. PICK id \in Ids : Served(SymDiff(server, {id}))
    BY DEF ElsewhereChanged
  <1>2. SymDiff(server, {id}) \in SUBSET Ids
    BY DEF SymDiff, SyncInv, SyncTypes
  <1> QED
    BY <1>1, <1>2, ServedKeeps DEF ElsewhereChanged

LEMMA BeginKeeps == ASSUME Limits, SyncInv, Begin PROVE SyncInv'
  <1> USE DEF SyncInv, Begin
  <1>1. fetch \in [n : Nat, after : Ids \cup {0}, pages : Nat,
                   status : {"idle", "running", "done", "failed"}]
    BY DEF SyncTypes
  <1>2. fetch'.status = "running" /\ fetch'.after = 0 /\ got = <<>>
    BY <1>1 DEF BeforeCursor
  <1>3. SyncTypes'
    BY <1>1 DEF SyncTypes
  <1>4. FetchedIsOrdered' /\ BeforeCursor' /\ NothingMissed'
    BY <1>2 DEF FetchedIsOrdered, Ascending, BeforeCursor, NothingMissed
  <1>5. UpToCursor'
    <2>1. \A x \in throughout' : x \in Nat \ {0}
      BY DEF SyncTypes, Limits
    <2> QED
      BY <1>2, <2>1 DEF UpToCursor, Range
  <1> QED
    BY <1>3, <1>4, <1>5

LEMMA FetchFails ==
  ASSUME Limits, SyncInv, fetch' = [fetch EXCEPT !.status = "failed"],
         UNCHANGED <<got, server, honest, throughout, atTimes>>
  PROVE  SyncInv'
  <1> USE DEF SyncInv
  <1>1. SyncTypes' /\ fetch'.status = "failed"
    BY DEF SyncTypes
  <1> QED
    BY <1>1 DEF FetchedIsOrdered, Ascending, BeforeCursor, UpToCursor, NothingMissed

\* A page of an honest server, or of any.
LEMMA PageKeeps ==
  ASSUME Limits, SyncInv, fetch.status = "running", NEW page \in AnyPage,
         honest => IsHonest(page, fetch.after), Page(page),
         UNCHANGED <<server, honest, throughout, atTimes>>
  PROVE  SyncInv'
  <1> DEFINE Records == page.records
             All == got \o Records
             Ends == page.next = 0
             Wrong == Records = <<>> \/ page.next # Last(Records) \/ fetch.pages + 1 = MaxPages
  <1>1. CASE ~ValidPage(page, fetch.after) \/ Len(All) > MaxRecords
    BY <1>1, FetchFails DEF Page
  <1>2. CASE ValidPage(page, fetch.after) /\ ~(Len(All) > MaxRecords)
    <2>1. /\ Records \in Seq(Ids) /\ page.next \in Ids \cup {0} /\ Ascending(Records)
          /\ \A i \in DOMAIN Records : Records[i] > fetch.after
      BY <1>2, PageType DEF ValidPage
    <2>2. /\ got \in Seq(Ids) /\ fetch.after \in Nat /\ Ascending(got)
          /\ \A i \in DOMAIN got : got[i] <= fetch.after
      <3>1. /\ fetch \in [n : Nat, after : Ids \cup {0}, pages : Nat,
                          status : {"idle", "running", "done", "failed"}]
            /\ got \in Seq(Ids) /\ Ascending(got)
        BY DEF SyncInv, SyncTypes, FetchedIsOrdered
      <3>2. \A i \in DOMAIN got : got[i] <= fetch.after
        BY DEF SyncInv, BeforeCursor
      <3>3. fetch.after \in Nat
        <4>1. fetch.after \in Ids \cup {0}
          BY <3>1
        <4>2. Ids \cup {0} \subseteq Nat
          BY DEF Limits
        <4> QED
          BY <4>1, <4>2
      <3> QED
        BY <3>1, <3>2, <3>3
    <2>3. All \in Seq(Ids) /\ Ascending(All) /\ Range(All) = Range(got) \cup Range(Records)
      <3> HIDE DEF Records
      <3> QED
        BY <2>1, <2>2, AppendAscends DEF Limits
    <2>4. /\ got' = All
          /\ fetch' = IF Ends THEN [fetch EXCEPT !.status = "done"]
                      ELSE IF Wrong THEN [fetch EXCEPT !.status = "failed"]
                      ELSE [fetch EXCEPT !.after = page.next, !.pages = @ + 1]
      BY <1>2 DEF Page
    <2>5. /\ throughout \subseteq server /\ server \subseteq atTimes
          /\ honest => /\ Range(got) \subseteq atTimes
                       /\ \A x \in throughout : x <= fetch.after => x \in Range(got)
      BY DEF SyncInv, UpToCursor
    \* What the page of an honest server adds.
    <2>6. honest => /\ Range(Records) \subseteq server
                    /\ Ends => \A x \in server : x > fetch.after => x \in Range(Records)
                    /\ ~Wrong => \A x \in server : x > fetch.after /\ x <= page.next =>
                                   x \in Range(Records)
      <3> SUFFICES ASSUME honest
                   PROVE  /\ Range(Records) \subseteq server
                          /\ Ends => \A x \in server : x > fetch.after => x \in Range(Records)
                          /\ ~Wrong => \A x \in server : x > fetch.after /\ x <= page.next =>
                                         x \in Range(Records)
        OBVIOUS
      <3> DEFINE Left == {id \in server : id > fetch.after}
      <3>1. /\ Range(Records) \subseteq Left
            /\ \A x \in Left \ Range(Records), y \in Range(Records) : y < x
            /\ page.next = IF Left \subseteq Range(Records) THEN 0 ELSE Last(Records)
            /\ Left \subseteq Range(Records) \/ Len(Records) = PageSize
        BY DEF IsHonest
      <3> HIDE DEF Records
      <3>2. Ends => Left \subseteq Range(Records)
        <4> SUFFICES ASSUME Ends, ~(Left \subseteq Range(Records)) PROVE FALSE
          OBVIOUS
        <4>1. Records # <<>>
          BY <2>1, <3>1 DEF Limits
        <4>2. Last(Records) \in Ids
          BY <2>1, <4>1 DEF Last
        <4> QED
          BY <3>1, <4>2 DEF Limits
      <3>3. ~Wrong => \A x \in Left : x <= page.next => x \in Range(Records)
        <4> SUFFICES ASSUME ~Wrong, NEW x \in Left, x <= page.next, x \notin Range(Records)
                     PROVE  FALSE
          OBVIOUS
        <4>1. Records # <<>> /\ page.next = Last(Records)
          OBVIOUS
        <4>2. Last(Records) \in Range(Records) /\ Last(Records) \in Nat
          <5>1. Last(Records) \in Range(Records)
            BY <2>1, <4>1, LastIsGreatest DEF Limits
          <5>2. Last(Records) \in Ids
            BY <2>1, <4>1 DEF Last
          <5> QED
            BY <5>1, <5>2 DEF Limits
        <4>3. Last(Records) < x /\ x \in Nat
          BY <3>1, <4>2 DEF SyncInv, SyncTypes, Limits
        <4> QED
          BY <4>1, <4>2, <4>3
      <3> QED
        BY <3>1, <3>2, <3>3
    <2>7. SyncTypes'
      <3>1. fetch' \in [n : Nat, after : Ids \cup {0}, pages : Nat,
                        status : {"idle", "running", "done", "failed"}]
        <4> HIDE DEF Ends, Wrong
        <4>1. fetch \in [n : Nat, after : Ids \cup {0}, pages : Nat,
                         status : {"idle", "running", "done", "failed"}]
          BY DEF SyncInv, SyncTypes
        <4>2. CASE fetch' = [fetch EXCEPT !.after = page.next, !.pages = @ + 1]
          <5>1. page.next \in Ids \cup {0}
            BY <2>1
          <5>2. fetch.n \in Nat /\ fetch.pages + 1 \in Nat
            BY <4>1
          <5>3. fetch' = [n |-> fetch.n, after |-> page.next, pages |-> fetch.pages + 1,
                          status |-> fetch.status]
            BY <4>1, <4>2
          <5> QED
            BY <4>1, <5>1, <5>2, <5>3
        <4>3. CASE \E s \in {"done", "failed"} : fetch' = [fetch EXCEPT !.status = s]
          BY <4>1, <4>3
        <4> HIDE DEF All, Records
        <4> QED
          BY <2>4, <4>2, <4>3
      <3> QED
        BY <2>3, <2>4, <3>1 DEF SyncInv, SyncTypes
    <2> HIDE DEF All
    <2>8. FetchedIsOrdered'
      <3>1. Len(All) \in Nat
        BY <2>3
      <3>2. Len(All) <= MaxRecords
        BY <1>2, <3>1 DEF Limits, All
      <3> QED
        BY <2>3, <2>4, <3>2 DEF FetchedIsOrdered, Ascending
    <2>9. fetch \in [n : Nat, after : Ids \cup {0}, pages : Nat,
                     status : {"idle", "running", "done", "failed"}]
      BY DEF SyncInv, SyncTypes
    <2>10. \A x \in throughout \cup server : x \in Nat
      BY DEF SyncInv, SyncTypes, Limits
    <2> HIDE DEF Records
    <2>11. CASE Ends
      <3>1. fetch'.status = "done"
        BY <2>4, <2>9, <2>11
      <3>2. BeforeCursor' /\ UpToCursor'
        BY <3>1 DEF BeforeCursor, UpToCursor
      <3>3. ASSUME honest, NEW x \in throughout PROVE x \in Range(got')
        <4>1. CASE x <= fetch.after
          BY <2>3, <2>4, <2>5, <3>3, <4>1
        <4>2. CASE ~(x <= fetch.after)
          <5>1. x > fetch.after /\ x \in server
            BY <2>2, <2>5, <2>10, <4>2
          <5>2. x \in Range(Records)
            BY <2>6, <2>11, <3>3, <5>1
          <5> QED
            BY <2>3, <2>4, <5>2
        <4> QED
          BY <4>1, <4>2
      <3>4. honest => Range(got') \subseteq atTimes
        BY <2>3, <2>4, <2>5, <2>6
      <3>5. NothingMissed'
        BY <3>3, <3>4 DEF NothingMissed, Range
      <3> QED
        BY <2>7, <2>8, <3>2, <3>5 DEF SyncInv
    <2>12. CASE ~Ends /\ Wrong
      <3>1. fetch'.status = "failed"
        BY <2>4, <2>9, <2>12
      <3> QED
        BY <2>7, <2>8, <3>1 DEF SyncInv, BeforeCursor, UpToCursor, NothingMissed
    <2>13. CASE ~Ends /\ ~Wrong
      <3>1. fetch'.status = "running" /\ fetch'.after = page.next
        BY <2>4, <2>9, <2>13
      <3>2. page.next = Last(Records) /\ Records # <<>>
        BY <2>13
      <3>3. /\ \A x \in Range(Records) : x <= page.next /\ x > fetch.after
            /\ page.next \in Nat /\ page.next > fetch.after
        <4>1. Last(Records) \in Range(Records) /\ \A x \in Range(Records) : x <= Last(Records)
          BY <2>1, <3>2, LastIsGreatest DEF Limits
        <4>2. \A x \in Range(Records) : x > fetch.after
          BY <2>1 DEF Range
        <4>3. Last(Records) \in Nat
          <5>1. Last(Records) \in Ids
            BY <2>1, <3>2 DEF Last
          <5> QED
            BY <5>1 DEF Limits
        <4> HIDE DEF Wrong, Ends
        <4> QED
          BY <3>2, <4>1, <4>2, <4>3
      <3>4. \A x \in Range(All) : x <= page.next
        <4>1. \A x \in Range(got) : x \in Nat /\ x <= fetch.after
          <5> SUFFICES ASSUME NEW i \in DOMAIN got PROVE got[i] \in Nat /\ got[i] <= fetch.after
            BY DEF Range
          <5>1. got[i] \in Ids
            BY <2>2
          <5> QED
            BY <2>2, <5>1 DEF Limits
        <4> QED
          BY <2>2, <2>3, <3>3, <4>1
      <3>5. BeforeCursor'
        BY <2>4, <3>1, <3>4 DEF BeforeCursor, Range
      <3>6. ASSUME honest, NEW x \in throughout, x <= page.next PROVE x \in Range(got')
        <4>1. CASE x <= fetch.after
          BY <2>3, <2>4, <2>5, <3>6, <4>1
        <4>2. CASE ~(x <= fetch.after)
          <5>1. x > fetch.after /\ x \in server
            BY <2>2, <2>5, <2>10, <4>2
          <5>2. x \in Range(Records)
            BY <2>6, <2>13, <3>6, <5>1
          <5> QED
            BY <2>3, <2>4, <5>2
        <4> QED
          BY <4>1, <4>2
      <3>7. honest => Range(got') \subseteq atTimes
        BY <2>3, <2>4, <2>5, <2>6
      <3>8. UpToCursor'
        BY <2>5, <3>1, <3>6, <3>7 DEF UpToCursor, Range
      <3>9. NothingMissed'
        BY <3>1 DEF NothingMissed
      <3> QED
        BY <2>7, <2>8, <3>5, <3>8, <3>9 DEF SyncInv
    <2> QED
      BY <2>11, <2>12, <2>13
  <1> QED
    BY <1>1, <1>2

LEMMA NextDatasetKeeps == ASSUME Limits, SyncInv, NextDataset PROVE SyncInv'
  <1> USE DEF SyncInv, NextDataset
  <1>1. SyncTypes' /\ fetch'.status = "idle" /\ fetch'.after = 0
    BY DEF SyncTypes
  <1> QED
    BY <1>1 DEF FetchedIsOrdered, Ascending, BeforeCursor, UpToCursor, NothingMissed, Limits

LEMMA SyncStepKeeps == ASSUME Limits, SyncInv, [SyncNext]_syncVars PROVE SyncInv'
  <1>1. ASSUME NEW i \in Inputs, Send(i) PROVE SyncInv'
    BY <1>1, SendKeeps
  <1>2. CASE ElsewhereChanged
    BY <1>2, ElsewhereKeeps
  <1>3. CASE Begin
    BY <1>3, BeginKeeps
  <1>4. CASE FetchPage
    <2>1. CASE \E page \in AnyPage : (honest => IsHonest(page, fetch.after)) /\ Page(page)
      <3>1. PICK page \in AnyPage : (honest => IsHonest(page, fetch.after)) /\ Page(page)
        BY <2>1
      <3> QED
        BY <1>4, <3>1, PageKeeps DEF FetchPage
    <2>2. CASE fetch' = [fetch EXCEPT !.status = "failed"] /\ UNCHANGED got
      BY <1>4, <2>2, FetchFails DEF FetchPage
    <2> QED
      BY <1>4, <2>1, <2>2 DEF FetchPage
  <1>5. CASE NextDataset
    BY <1>5, NextDatasetKeeps
  <1>6. CASE UNCHANGED syncVars
    BY <1>6 DEF syncVars, SyncInv, SyncTypes, FetchedIsOrdered, Ascending, BeforeCursor, UpToCursor,
       NothingMissed, Range
  <1> QED
    BY <1>1, <1>2, <1>3, <1>4, <1>5, <1>6 DEF SyncNext

----------------------------------------------------------------------------
(* Theorems                                                                *)

\* The inductive invariant of an exchange.
THEOREM SyncInvariant == SyncSpec => []SyncInv
  <1>1. SyncInit => SyncInv
    BY SyncInitHolds, SyncAssumption
  <1>2. SyncInv /\ [SyncNext]_syncVars => SyncInv'
    BY SyncStepKeeps, SyncAssumption
  <1> QED
    BY <1>1, <1>2, PTL DEF SyncSpec

\* Whatever a server sends, in however many pages, what FetchSyncDataset
\* returns has no id twice, is in order and within its limit.
THEOREM SyncFetchedIsOrdered == SyncSpec => []FetchedIsOrdered
  <1>1. SyncInv => FetchedIsOrdered
    BY DEF SyncInv
  <1> QED
    BY <1>1, SyncInvariant, PTL

\* From a server that serves the pages it should, a fetch that succeeds misses
\* nothing that was there all along and makes nothing up, whatever other
\* devices change between its pages.
THEOREM SyncNothingMissed == SyncSpec => []NothingMissed
  <1>1. SyncInv => NothingMissed
    BY DEF SyncInv
  <1> QED
    BY <1>1, SyncInvariant, PTL

\* No envelope that leaves has content of a private tab, no revision, or is a tombstone
\* with content.  That the id of a private tab leaves, as a tombstone, is not excluded:
\* MakeSyncTombstone takes any id.
THEOREM SyncSentIsAllowed == SyncSpec => []SentIsAllowed
  <1>1. SyncInit => SentIsAllowed
    BY DEF SyncInit, SentIsAllowed
  <1>2. SentIsAllowed /\ [SyncNext]_syncVars => SentIsAllowed'
    <2> SUFFICES ASSUME SentIsAllowed, [SyncNext]_syncVars PROVE SentIsAllowed'
      OBVIOUS
    <2>1. ASSUME NEW i \in Inputs, Send(i) PROVE SentIsAllowed'
      <3>1. /\ i.dataset \in Datasets /\ i.revision \in 0..1 /\ i.deleted \in BOOLEAN
            /\ i.private \in BOOLEAN /\ i.dataset = "preferences" => ~i.private
        BY DEF Inputs
      <3>2. ~i.deleted => ~i.private
        BY <2>1, <3>1 DEF Send, Recordable, Datasets, Erasable
      <3>3. sent' = Envelope(i) /\ i.revision # 0
        BY <2>1 DEF Send, Shape, Envelope
      <3>4. Envelope(i).private = i.private /\ Envelope(i).revision = i.revision
        BY Zenon DEF Envelope
      <3>5. Envelope(i).deleted = i.deleted /\ Envelope(i).content = ~i.deleted
        BY Zenon DEF Envelope
      <3>6. Envelope(i).revision > 0
        BY <3>1, <3>3, <3>4
      <3>7. /\ Envelope(i).private => ~Envelope(i).content
            /\ Envelope(i).deleted <=> ~Envelope(i).content
        BY <3>2, <3>4, <3>5, Zenon
      <3> QED
        BY <3>3, <3>6, <3>7, Zenon DEF SentIsAllowed
    <2>2. CASE UNCHANGED sent
      BY <2>2 DEF SentIsAllowed
    <2> QED
      BY <2>1, <2>2 DEF SyncNext, ElsewhereChanged, Begin, FetchPage, NextDataset, syncVars
  <1> QED
    BY <1>1, <1>2, PTL DEF SyncSpec

\* The properties of synchronization together: no content of a private tab is sent, and
\* what is fetched is in order and complete.
THEOREM SyncSound == SyncSpec => []SyncIsSound
  BY SyncSentIsAllowed, SyncFetchedIsOrdered, SyncNothingMissed, PTL DEF SyncIsSound

----------------------------------------------------------------------------
(***************************************************************************)
(* The shell, for any number of tabs, addresses and media.                 *)
(*                                                                         *)
(* The popover is of the attached view because the newest probe is, and    *)
(* because whatever attaches another view takes the popover away and makes *)
(* the newest probe one whose answer is not awaited.                       *)
(***************************************************************************)

Hovers(n) == [awaited : 0..n, target : Targets \cup {None},
              host : Targets \cup {None}, popover : Targets \cup {None}]
Screens(n) == [attached : 0..n, on : BOOLEAN, surface : {"web", "internal", "panel"}]
Clicks == [target : Targets \cup {None}, shown : Targets \cup {None}]

\* Whose answer is awaited is the view that is attached.
AsksTheShown == hover.awaited # 0 => hover.awaited = screen.attached

\* An open dialog has the target that was clicked, and none is open at the end.
DialogIsOfClicked == dialog.target = dialog.shown /\ (turn = "stopped" => dialog = NoDialog)

ShellInv == ShellIsCurrent /\ AsksTheShown /\ DialogIsOfClicked

\* What the operators of the coordinator and the host make of a hover.
LEMMA HoverOperators ==
  ASSUME NEW n \in Nat, NEW h \in Hovers(n)
  PROVE  /\ Covered(h) \in Hovers(n) /\ Covered(h).awaited = 0 /\ Covered(h).popover = None
         /\ Detached(h) \in Hovers(n) /\ Detached(h).awaited = 0 /\ Detached(h).popover = None
         /\ Detached(h).host = None
         /\ Hidden(h) \in Hovers(n) /\ Hidden(h).awaited = h.awaited
         /\ Hidden(h) = h \/ Hidden(h).popover = None
         /\ h.target = None => Hidden(h) = h
  <1>1. Invalidated(h) \in Hovers(n) /\ Invalidated(h).awaited = 0
    <2> DEFINE g == [h EXCEPT !.awaited = 0]
    <2>1. g \in Hovers(n) /\ g.awaited = 0
      BY DEF Hovers
    <2>2. Invalidated(h) = [g EXCEPT !.target = None]
      BY DEF Invalidated
    <2> HIDE DEF g
    <2> QED
      BY <2>1, <2>2 DEF Hovers
  <1>2. Covered(h) \in Hovers(n) /\ Covered(h).awaited = 0 /\ Covered(h).popover = None
    BY <1>1 DEF Covered, Hovers
  <1>3. /\ Detached(h) \in Hovers(n) /\ Detached(h).awaited = 0 /\ Detached(h).popover = None
        /\ Detached(h).host = None
    BY <1>2 DEF Detached, Hovers
  <1>4. h.target = None => Hidden(h) = h
    BY DEF Hidden
  <1>5. h.target # None =>
          Hidden(h) \in Hovers(n) /\ Hidden(h).awaited = h.awaited /\ Hidden(h).popover = None
    BY DEF Hidden, Hovers
  <1> QED
    BY <1>2, <1>3, <1>4, <1>5

LEMMA ScreenOperators ==
  ASSUME NEW n \in Nat, NEW s \in Screens(n)
  PROVE  /\ ShowPanel(s) \in Screens(n) /\ ShowInternal(s) \in Screens(n)
         /\ ShowPanel(s).attached = s.attached /\ ShowInternal(s).attached = s.attached
         /\ \A t \in 1..n, on \in BOOLEAN : Attached(s, t, on) \in Screens(n)
  BY DEF Screens, ShowPanel, ShowInternal, Attached

\* The types in parts.
LEMMA ShellParts ==
  ShellTypeOK <=>
    /\ url \in Seq(WebUrls \cup InternalUrls) /\ Len(url) \in 1..ShellTabs
    /\ screen \in Screens(Len(url)) /\ hover \in Hovers(Len(url))
    /\ panel \in {"", "downloads", "privacy-shield"}
    /\ lastUrl \in WebUrls \cup InternalUrls
    /\ dialog \in [action : Actions \cup {"none"}, target : Targets \cup {None},
                   shown : Targets \cup {None}]
    /\ acted \in Clicks
    /\ turn \in {"events", "engine", "stopped"}
  BY DEF ShellTypeOK, Screens, Hovers, Clicks, Active

LEMMA ShellTyped ==
  ASSUME url' \in Seq(WebUrls \cup InternalUrls), Len(url') \in 1..ShellTabs,
         screen' \in Screens(Len(url')), hover' \in Hovers(Len(url')),
         panel' \in {"", "downloads", "privacy-shield"},
         lastUrl' \in WebUrls \cup InternalUrls,
         dialog' \in [action : Actions \cup {"none"}, target : Targets \cup {None},
                      shown : Targets \cup {None}],
         acted' \in Clicks, turn' \in {"events", "engine", "stopped"}
  PROVE  ShellTypeOK'
  BY DEF ShellTypeOK, Screens, Hovers, Clicks, Active

\* A step that takes the popover away and makes no answer awaited keeps what is
\* promised of them, whatever it attaches.
LEMMA Quieted ==
  ASSUME ShellInv, ShellTypeOK',
         hover'.awaited = 0, hover'.popover = None,
         turn' # "stopped", acted'.target = acted'.shown, dialog'.target = dialog'.shown
  PROVE  ShellInv'
  BY DEF ShellInv, ShellIsCurrent, AsksTheShown, DialogIsOfClicked, PopoverIsCurrent,
     ActsOnClicked, ClosedIsQuiet

\* So does a step that leaves the window as it is.
LEMMA LeftAlone ==
  ASSUME ShellInv, ShellTypeOK', hover' = hover, screen' = screen,
         turn' # "stopped", acted'.target = acted'.shown, dialog'.target = dialog'.shown
  PROVE  ShellInv'
  BY DEF ShellInv, ShellIsCurrent, AsksTheShown, DialogIsOfClicked, PopoverIsCurrent,
     ActsOnClicked, ClosedIsQuiet

\* A page that is navigated to keeps the number of tabs.
LEMMA NavigatedTyped ==
  ASSUME ShellTypeOK, NEW u \in WebUrls \cup InternalUrls, NEW t \in 1..Len(url),
         url' = [url EXCEPT ![t] = u]
  PROVE  /\ url' \in Seq(WebUrls \cup InternalUrls) /\ Len(url') = Len(url)
         /\ Len(url) \in Nat
  <1>1. url \in Seq(WebUrls \cup InternalUrls)
    BY ShellParts
  <1> QED
    BY <1>1

\* Showing an address attaches its view or none.
LEMMA ShowTyped ==
  ASSUME NEW n \in Nat \ {0}, Active = n, NEW s \in Screens(n), NEW h \in Hovers(n), NEW u,
         Show(u, s, h)
  PROVE  /\ screen' \in Screens(n) /\ hover' \in Hovers(n)
         /\ hover'.awaited = 0 /\ hover'.popover = None
  <1>1. Active \in 1..n /\ n \in Nat
    OBVIOUS
  <1>2. CASE u \in InternalUrls
    <2>1. screen' = ShowInternal(s) /\ hover' = Covered(h)
      BY <1>2 DEF Show
    <2>2. screen' \in Screens(n)
      BY <1>1, <2>1, ScreenOperators, Zenon
    <2>3. hover' \in Hovers(n) /\ hover'.awaited = 0 /\ hover'.popover = None
      BY <1>1, <2>1, HoverOperators, Zenon
    <2> QED
      BY <2>2, <2>3
  <1>3. CASE u \notin InternalUrls
    <2>1. (\E on \in BOOLEAN : screen' = Attached(s, n, on)) /\ hover' = Detached(h)
      BY <1>3 DEF Show
    <2>2. screen' \in Screens(n)
      <3>1. n \in 1..n
        OBVIOUS
      <3> QED
        BY <1>1, <2>1, <3>1, ScreenOperators, Zenon
    <2>3. hover' \in Hovers(n) /\ hover'.awaited = 0 /\ hover'.popover = None
      BY <1>1, <2>1, HoverOperators, Zenon
    <2> QED
      BY <2>2, <2>3
  <1> QED
    BY <1>2, <1>3

\* The shell as it starts.
LEMMA ShellInitHolds == ShellInit => ShellInv
  <1>1. SUFFICES
          ASSUME NEW u \in WebUrls \cup InternalUrls, NEW on \in BOOLEAN,
                 url = <<u>>, lastUrl = u,
                 screen = IF u \in InternalUrls
                            THEN [attached |-> 0, on |-> FALSE, surface |-> "internal"]
                            ELSE [attached |-> 1, on |-> on, surface |-> "web"],
                 hover = [awaited |-> 0, target |-> None, host |-> None, popover |-> None],
                 panel = "", dialog = NoDialog,
                 acted = [target |-> None, shown |-> None], turn = "events"
          PROVE  ShellInv
    BY DEF ShellInit
  <1>2. <<u>> \in Seq(WebUrls \cup InternalUrls) /\ Len(<<u>>) = 1 /\ 1 \in 1..ShellTabs
    <2>1. 1 \in 1..ShellTabs
      <3>1. ShellTabs \in Nat \ {0}
        BY ShellAssumption, Zenon
      <3> QED
        BY <3>1
    <2>2. <<u>> \in Seq(WebUrls \cup InternalUrls)
      OBVIOUS
    <2> QED
      BY <2>1, <2>2
  <1>3. /\ [attached |-> 0, on |-> FALSE, surface |-> "internal"] \in Screens(1)
        /\ [attached |-> 1, on |-> on, surface |-> "web"] \in Screens(1)
    BY DEF Screens
  <1>4. [awaited |-> 0, target |-> None, host |-> None, popover |-> None] \in Hovers(1)
    BY DEF Hovers
  <1>5. /\ [target |-> None, shown |-> None] \in Clicks
        /\ NoDialog \in [action : Actions \cup {"none"}, target : Targets \cup {None},
                         shown : Targets \cup {None}]
    BY DEF NoDialog, Clicks
  <1>6. ShellTypeOK
    <2>1. url \in Seq(WebUrls \cup InternalUrls) /\ Len(url) = 1
      BY <1>1, <1>2, Zenon
    <2>2. screen \in Screens(1) /\ hover \in Hovers(1)
      BY <1>1, <1>3, <1>4, Zenon
    <2> QED
      BY <1>1, <1>2, <1>5, <2>1, <2>2, ShellParts, Zenon
  <1>7. /\ acted.target = acted.shown /\ dialog.target = dialog.shown
        /\ hover.awaited = 0 /\ hover.popover = None /\ turn # "stopped"
    BY <1>1 DEF NoDialog
  <1> QED
    BY <1>6, <1>7 DEF ShellInv, ShellIsCurrent, AsksTheShown, DialogIsOfClicked,
       PopoverIsCurrent, ActsOnClicked, ClosedIsQuiet

\* The parts of the invariant by name.
LEMMA ShellFacts ==
  ASSUME ShellInv
  PROVE  /\ ShellTypeOK /\ Len(url) \in Nat \ {0} /\ Len(url) <= ShellTabs /\ Active = Len(url)
         /\ screen \in Screens(Len(url)) /\ hover \in Hovers(Len(url))
         /\ url \in Seq(WebUrls \cup InternalUrls)
         /\ acted.target = acted.shown /\ dialog.target = dialog.shown
         /\ hover.target = None => hover.popover = None
  <1>1. ShellTypeOK /\ ActsOnClicked /\ PopoverIsCurrent /\ DialogIsOfClicked
    BY DEF ShellInv, ShellIsCurrent
  <1>2. Len(url) \in 1..ShellTabs /\ ShellTabs \in Nat
    BY <1>1, ShellParts, ShellAssumption
  <1>3. hover.target = None => hover.popover = None
    BY <1>1 DEF PopoverIsCurrent
  <1>4. acted.target = acted.shown /\ dialog.target = dialog.shown /\ Active = Len(url)
    BY <1>1 DEF ActsOnClicked, DialogIsOfClicked, Active
  <1>5. Len(url) \in Nat \ {0} /\ Len(url) <= ShellTabs
    BY <1>2
  <1> QED
    BY <1>1, <1>3, <1>4, <1>5, ShellParts

\* The handlers of the toolbar and the search bar.
LEMMA HandlerKeeps ==
  ASSUME ShellInv,
         \/ \E u \in InternalUrls : ToolbarGo(u)
         \/ ToolbarEngine \/ SearchControl \/ Resize
         \/ \E p \in {"downloads", "privacy-shield"} : ToolbarPanel(p)
         \/ \E i \in WebUrls \cup InternalUrls \cup {"query"} : Search(i)
  PROVE  ShellInv'
  <1> USE ShellFacts
  <1>0. /\ acted' = acted /\ dialog' = dialog /\ turn' = turn /\ lastUrl' = lastUrl
        /\ turn = "events"
    BY DEF ToolbarGo, ToolbarEngine, SearchControl, Resize, ToolbarPanel, Search, Handles, Quiet
  <1>1. ASSUME NEW u \in InternalUrls, ToolbarGo(u) PROVE ShellInv'
    <2>1. url' = [url EXCEPT ![Len(url)] = u] /\ panel' = "" /\ hover' = hover /\ screen' = screen
      BY <1>1 DEF ToolbarGo, Navigated
    <2>2. url' \in Seq(WebUrls \cup InternalUrls) /\ Len(url') = Len(url)
      <3>1. Len(url) \in 1..Len(url)
        OBVIOUS
      <3> QED
        BY <2>1, <3>1, NavigatedTyped
    <2>3. ShellTypeOK'
      BY <1>0, <2>1, <2>2, ShellParts, ShellTyped
    <2> QED
      BY <1>0, <2>1, <2>3, LeftAlone
  <1>2. CASE ToolbarEngine
    <2>1. url' = url /\ panel' = "" /\ hover' = hover /\ screen' = screen
      BY <1>2 DEF ToolbarEngine
    <2>2. ShellTypeOK'
      BY <1>0, <2>1, ShellParts, ShellTyped
    <2> QED
      BY <1>0, <2>1, <2>2, LeftAlone
  <1>3. ASSUME screen' = screen \/ screen' = ShowPanel(screen), hover' = Covered(hover), url' = url,
               panel' \in {"", "downloads", "privacy-shield"}
        PROVE  ShellInv'
    <2>1. screen' \in Screens(Len(url)) /\ hover' \in Hovers(Len(url))
          /\ hover'.awaited = 0 /\ hover'.popover = None
      BY <1>3, HoverOperators, ScreenOperators
    <2>2. ShellTypeOK'
      BY <1>0, <1>3, <2>1, ShellParts, ShellTyped
    <2> QED
      BY <1>0, <2>1, <2>2, Quieted
  <1>4. CASE SearchControl \/ Resize
    BY <1>3, <1>4, ShellParts DEF SearchControl, Resize
  <1>5. ASSUME NEW p \in {"downloads", "privacy-shield"}, ToolbarPanel(p) PROVE ShellInv'
    BY <1>3, <1>5 DEF ToolbarPanel
  <1>6. ASSUME NEW i \in WebUrls \cup InternalUrls \cup {"query"}, Search(i) PROVE ShellInv'
    <2> DEFINE u == Resolved(i)
    <2>1. CASE u = ""
      BY <1>3, <1>6, <2>1, ShellParts DEF Search
    <2>2. CASE u # ""
      <3>1. u \in WebUrls \cup InternalUrls
        BY <2>2, ShellAssumption DEF Resolved
      <3>2. panel' = "" /\ url' = [url EXCEPT ![Len(url)] = u] /\ Show(u, screen, hover)
        BY <1>6, <2>2 DEF Search, Navigated
      <3> HIDE DEF u
      <3>3. url' \in Seq(WebUrls \cup InternalUrls) /\ Len(url') = Len(url)
        <4>1. Len(url) \in 1..Len(url)
          OBVIOUS
        <4> QED
          BY <3>1, <3>2, <4>1, NavigatedTyped
      <3>4. /\ screen' \in Screens(Len(url)) /\ hover' \in Hovers(Len(url))
            /\ hover'.awaited = 0 /\ hover'.popover = None
        BY <3>2, ShowTyped
      <3>5. ShellTypeOK'
        BY <1>0, <3>2, <3>3, <3>4, ShellParts, ShellTyped
      <3> QED
        BY <1>0, <3>4, <3>5, Quieted
    <2> QED
      BY <2>1, <2>2
  <1> QED
    BY <1>1, <1>2, <1>4, <1>5, <1>6

\* The timer, a click in the popover, and the end of the window's events.
LEMMA WindowEventKeeps ==
  ASSUME ShellInv, Tick \/ (\E a \in Actions : ClickAction(a)) \/ EndEvents \/ Stop
  PROVE  ShellInv'
  <1> USE ShellFacts
  <1>1. /\ acted' = acted /\ lastUrl' = lastUrl /\ panel' = panel /\ url' = url
        /\ turn = "events"
    BY DEF Tick, ClickAction, EndEvents, Stop, Handles
  <1>2. CASE Tick
    <2>1. screen' = screen /\ dialog' = dialog /\ turn' = turn
      BY <1>2 DEF Tick
    <2>2. /\ hover' \in Hovers(Len(url))
          /\ hover'.awaited = 0 \/ hover'.awaited = screen.attached
          /\ hover'.popover = None \/ (/\ hover'.popover = hover.popover
                                        /\ hover'.target = hover.target
                                        /\ hover'.host = hover.host)
      <3>1. hover.awaited = 0 \/ hover.awaited = screen.attached
        BY DEF ShellInv, AsksTheShown, Hovers
      <3>2. CASE hover' = Hidden(hover)
        BY <3>1, <3>2, HoverOperators
      <3>3. CASE hover' = [hover EXCEPT !.awaited = screen.attached]
        BY <3>3 DEF Hovers, Screens
      <3> QED
        BY <1>2, <3>2, <3>3 DEF Tick
    <2>3. ShellTypeOK'
      <3>1. hover' \in Hovers(Len(url'))
        BY <1>1, <2>2
      <3> QED
        BY <1>1, <2>1, <3>1, ShellParts, ShellTyped
    <2>4. PopoverIsCurrent'
      BY <2>1, <2>2 DEF PopoverIsCurrent, ShellInv, ShellIsCurrent
    <2>5. AsksTheShown' /\ ActsOnClicked'
      <3>1. AsksTheShown'
        BY <2>1, <2>2 DEF AsksTheShown
      <3> QED
        BY <1>1, <3>1 DEF ActsOnClicked
    <2>6. DialogIsOfClicked' /\ ClosedIsQuiet'
      BY <1>1, <2>1 DEF DialogIsOfClicked, ClosedIsQuiet
    <2> QED
      BY <2>3, <2>4, <2>5, <2>6 DEF ShellInv, ShellIsCurrent
  <1>3. ASSUME NEW a \in Actions, ClickAction(a) PROVE ShellInv'
    <2>1. /\ dialog' = [action |-> a, target |-> hover.host, shown |-> hover.popover]
          /\ hover.popover # None /\ screen' = screen /\ hover' = hover /\ turn' = turn
      BY <1>3 DEF ClickAction
    <2>2. hover.host = hover.popover
      BY <2>1 DEF ShellInv, ShellIsCurrent, PopoverIsCurrent
    <2>3. hover.host \in Targets \cup {None} /\ hover.popover \in Targets \cup {None}
      BY DEF Hovers
    <2>4. dialog'.target = dialog'.shown
          /\ dialog' \in [action : Actions \cup {"none"}, target : Targets \cup {None},
                          shown : Targets \cup {None}]
      BY <2>1, <2>2, <2>3
    <2>5. ShellTypeOK'
      BY <1>1, <2>1, <2>4, ShellParts, ShellTyped
    <2> QED
      BY <1>1, <2>1, <2>4, <2>5, LeftAlone
  <1>4. CASE EndEvents
    <2>1. turn' = "engine" /\ dialog' = dialog /\ screen' = screen /\ hover' = hover
      BY <1>4 DEF EndEvents
    <2>2. ShellTypeOK'
      BY <1>1, <2>1, ShellParts, ShellTyped
    <2> QED
      BY <1>1, <2>1, <2>2, LeftAlone
  <1>5. CASE Stop
    <2>1. /\ turn' = "stopped" /\ dialog' = dialog /\ dialog = NoDialog
          /\ hover' = Detached(hover) /\ screen' = [screen EXCEPT !.attached = 0, !.on = FALSE]
      BY <1>5 DEF Stop, Handles
    <2>2. screen' \in Screens(Len(url)) /\ screen'.attached = 0
      <3> DEFINE s == [screen EXCEPT !.attached = 0]
      <3>1. s \in Screens(Len(url)) /\ s.attached = 0
        BY DEF Screens
      <3>2. screen' = [s EXCEPT !.on = FALSE]
        BY <2>1
      <3> HIDE DEF s
      <3> QED
        BY <3>1, <3>2 DEF Screens
    <2>3. /\ hover' \in Hovers(Len(url))
          /\ hover'.awaited = 0 /\ hover'.popover = None /\ hover'.host = None
      BY <2>1, HoverOperators
    <2>4. ShellTypeOK'
      BY <1>1, <2>1, <2>2, <2>3, ShellParts, ShellTyped
    <2> QED
      BY <1>1, <2>1, <2>2, <2>3, <2>4 DEF ShellInv, ShellIsCurrent, AsksTheShown,
         DialogIsOfClicked, PopoverIsCurrent, ActsOnClicked, ClosedIsQuiet
  <1> QED
    BY <1>2, <1>3, <1>4, <1>5

\* The dialogs of an action are answered.
LEMMA ExecuteKeeps == ASSUME ShellInv, Execute PROVE ShellInv'
  <1> USE ShellFacts
  <1>1. /\ dialog # NoDialog /\ dialog' = NoDialog /\ lastUrl' = lastUrl /\ turn' = turn
        /\ dialog'.target = dialog'.shown
        /\ dialog' \in [action : Actions \cup {"none"}, target : Targets \cup {None},
                        shown : Targets \cup {None}]
    BY DEF Execute, NoDialog
  <1>2. turn # "stopped"
    BY <1>1 DEF ShellInv, DialogIsOfClicked
  <1>3. CASE UNCHANGED <<url, screen, hover, panel, acted>>
    <2>1. ShellTypeOK'
      BY <1>1, <1>3, ShellParts, ShellTyped
    <2> QED
      BY <1>1, <1>2, <1>3, <2>1, LeftAlone
  <1>4. CASE acted' = [target |-> RequestTarget, shown |-> dialog.shown]
             /\ ~UNCHANGED <<url, screen, hover, panel, acted>>
    <2>1. acted' \in Clicks /\ acted'.target = acted'.shown
      BY <1>4, ShellParts DEF RequestTarget, Clicks
    <2>2. /\ url' \in Seq(WebUrls \cup InternalUrls) /\ Len(url') \in 1..ShellTabs
          /\ screen' \in Screens(Len(url')) /\ hover' \in Hovers(Len(url'))
          /\ hover'.awaited = 0 /\ hover'.popover = None
          /\ panel' \in {"", "downloads", "privacy-shield"}
      <3>1. CASE /\ panel' = "" /\ hover' = Detached(hover)
                 /\ \E u \in WebUrls : Navigated(u)
                 /\ \E on \in BOOLEAN : screen' = ShowPanel(Attached(screen, Active, on))
        <4>1. PICK u \in WebUrls : url' = [url EXCEPT ![Len(url)] = u]
          BY <3>1 DEF Navigated
        <4>2. Len(url) \in 1..Len(url)
          OBVIOUS
        <4>3. url' \in Seq(WebUrls \cup InternalUrls) /\ Len(url') = Len(url)
          BY <4>1, <4>2, NavigatedTyped
        <4>4. screen' \in Screens(Len(url))
          BY <3>1, <4>2, ScreenOperators
        <4>5. /\ hover' \in Hovers(Len(url)) /\ hover'.awaited = 0 /\ hover'.popover = None
          BY <3>1, HoverOperators
        <4> QED
          BY <3>1, <4>3, <4>4, <4>5, ShellParts
      <3>2. CASE /\ Len(url) < ShellTabs /\ \E u \in WebUrls : url' = Append(url, u)
                 /\ screen' = ShowPanel(screen) /\ hover' = Covered(hover) /\ panel' = panel
        <4>1. url' \in Seq(WebUrls \cup InternalUrls) /\ Len(url') = Len(url) + 1
          BY <3>2
        <4>2. screen' \in Screens(Len(url))
          BY <3>2, ScreenOperators
        <4>3. /\ hover' \in Hovers(Len(url)) /\ hover'.awaited = 0 /\ hover'.popover = None
          BY <3>2, HoverOperators
        <4>4. screen' \in Screens(Len(url) + 1) /\ hover' \in Hovers(Len(url) + 1)
          <5>1. 0..Len(url) \subseteq 0..(Len(url) + 1)
            OBVIOUS
          <5> QED
            BY <4>2, <4>3, <5>1 DEF Screens, Hovers
        <4>5. Len(url) + 1 \in 1..ShellTabs
          <5>1. ShellTabs \in Nat
            BY ShellAssumption, Zenon
          <5> QED
            BY <3>2, <5>1
        <4> QED
          BY <3>2, <4>1, <4>3, <4>4, <4>5, ShellParts
      <3>3. CASE screen' = ShowPanel(screen) /\ hover' = Covered(hover) /\ url' = url /\ panel' = panel
        BY <3>3, HoverOperators, ScreenOperators, ShellParts
      <3> QED
        BY <1>4, <3>1, <3>2, <3>3 DEF Execute
    <2>3. ShellTypeOK'
      BY <1>1, <2>1, <2>2, ShellParts, ShellTyped
    <2> QED
      BY <1>1, <1>2, <2>1, <2>2, <2>3, Quieted
  <1> QED
    BY <1>3, <1>4 DEF Execute

\* Events of the engine and the end of the turn.
LEMMA EngineKeeps ==
  ASSUME ShellInv,
         \/ \E t \in 1..ShellTabs, u \in WebUrls : PageMoves(t, u)
         \/ \E m \in Media \cup {"none"} : Accept(m)
         \/ PreviewFails \/ EndTurn
  PROVE  ShellInv'
  <1> USE ShellFacts
  <1>1. /\ acted' = acted /\ dialog' = dialog /\ turn = "engine"
    BY DEF PageMoves, Accept, PreviewFails, EndTurn
  <1>2. ASSUME NEW t \in 1..ShellTabs, NEW u \in WebUrls, PageMoves(t, u) PROVE ShellInv'
    <2>1. /\ url' = [url EXCEPT ![t] = u] /\ t \in 1..Len(url) /\ turn' = turn
          /\ UNCHANGED <<screen, hover, panel, lastUrl>>
      BY <1>2 DEF PageMoves
    <2>2. url' \in Seq(WebUrls \cup InternalUrls) /\ Len(url') = Len(url)
      BY <2>1, NavigatedTyped
    <2>3. ShellTypeOK'
      BY <1>1, <2>1, <2>2, ShellParts, ShellTyped
    <2> QED
      BY <1>1, <2>1, <2>3, LeftAlone
  <1>3. ASSUME NEW m \in Media \cup {"none"}, Accept(m) PROVE ShellInv'
    <2> DEFINE t == [tab |-> hover.awaited, media |-> m]
               h == [hover EXCEPT !.awaited = 0]
    <2>1. /\ UNCHANGED <<url, screen, panel, lastUrl, turn>> /\ hover.awaited # 0
          /\ hover' = IF m = "none" THEN Hidden(h)
                      ELSE [h EXCEPT !.target = t, !.host = t, !.popover = t]
      BY <1>3 DEF Accept
    <2>2. /\ h \in Hovers(Len(url)) /\ h.awaited = 0 /\ h.target = hover.target
          /\ h.host = hover.host /\ h.popover = hover.popover
      BY DEF Hovers
    <2>3. hover.awaited = screen.attached /\ hover.awaited \in 1..ShellTabs
      <3>1. hover.awaited = screen.attached
        BY <2>1 DEF ShellInv, AsksTheShown
      <3>2. hover.awaited \in 0..Len(url)
        BY DEF Hovers
      <3>3. ShellTabs \in Nat
        BY ShellAssumption, Zenon
      <3> QED
        BY <2>1, <3>1, <3>2, <3>3
    <2> HIDE DEF h
    <2>4. /\ hover' \in Hovers(Len(url)) /\ hover'.awaited = 0
          /\ PopoverIsCurrent'
      <3>1. CASE m = "none"
        <4>1. hover' = Hidden(h) /\ screen' = screen
          BY <2>1, <3>1
        <4>2. hover' \in Hovers(Len(url)) /\ hover'.awaited = 0
          BY <2>2, <4>1, HoverOperators
        <4>3. hover'.popover = None \/ hover' = h
          BY <2>2, <4>1, HoverOperators
        <4>4. PopoverIsCurrent'
          BY <2>2, <4>1, <4>3 DEF PopoverIsCurrent, ShellInv, ShellIsCurrent
        <4> QED
          BY <4>2, <4>4
      <3>2. CASE m # "none"
        <4>1. t \in Targets /\ t.tab = screen.attached
          BY <2>3, <3>2 DEF Targets
        <4> HIDE DEF t
        <4>2. hover' = [h EXCEPT !.target = t, !.host = t, !.popover = t] /\ screen' = screen
          BY <2>1, <3>2 DEF t
        <4>3. /\ hover'.target = t /\ hover'.host = t /\ hover'.popover = t
              /\ hover'.awaited = 0 /\ hover' \in Hovers(Len(url))
          BY <2>2, <4>1, <4>2 DEF Hovers
        <4>4. PopoverIsCurrent'
          BY <4>1, <4>2, <4>3 DEF PopoverIsCurrent
        <4> QED
          BY <4>3, <4>4
      <3> QED
        BY <3>1, <3>2
    <2>5. ShellTypeOK'
      BY <1>1, <2>1, <2>4, ShellParts, ShellTyped
    <2>6. AsksTheShown' /\ ActsOnClicked'
      BY <1>1, <2>4 DEF AsksTheShown, ActsOnClicked
    <2>7. DialogIsOfClicked' /\ ClosedIsQuiet'
      BY <1>1, <2>1 DEF DialogIsOfClicked, ClosedIsQuiet
    <2> QED
      BY <2>4, <2>5, <2>6, <2>7 DEF ShellInv, ShellIsCurrent
  <1>4. CASE PreviewFails
    <2>1. /\ screen' = ShowPanel(screen) /\ hover' = Covered(hover)
          /\ UNCHANGED <<url, panel, lastUrl, turn>>
      BY <1>4 DEF PreviewFails
    <2>2. screen' \in Screens(Len(url)) /\ hover' \in Hovers(Len(url))
          /\ hover'.awaited = 0 /\ hover'.popover = None
      BY <2>1, HoverOperators, ScreenOperators
    <2>3. ShellTypeOK'
      BY <1>1, <2>1, <2>2, ShellParts, ShellTyped
    <2> QED
      BY <1>1, <2>1, <2>2, <2>3, Quieted
  <1>5. CASE EndTurn
    <2> DEFINE s == IF panel = "downloads" THEN ShowPanel(screen) ELSE screen
               h == IF panel = "downloads" THEN Covered(hover) ELSE hover
    <2>1. /\ url' = url /\ panel' = panel /\ turn' = "events" /\ lastUrl' = url[Len(url)]
          /\ IF url[Len(url)] # lastUrl THEN Show(url[Len(url)], s, h)
             ELSE screen' = s /\ hover' = h
      BY <1>5 DEF EndTurn
    <2>2. url[Len(url)] \in WebUrls \cup InternalUrls
      OBVIOUS
    <2>3. s \in Screens(Len(url)) /\ h \in Hovers(Len(url))
      BY HoverOperators, ScreenOperators
    <2>4. CASE url[Len(url)] # lastUrl \/ panel = "downloads"
      <3>1. /\ screen' \in Screens(Len(url)) /\ hover' \in Hovers(Len(url))
            /\ hover'.awaited = 0 /\ hover'.popover = None
        <4>1. CASE url[Len(url)] # lastUrl
          <5> HIDE DEF s, h
          <5> QED
            BY <2>1, <2>3, <4>1, ShowTyped
        <4>2. CASE url[Len(url)] = lastUrl
          <5>1. screen' = ShowPanel(screen) /\ hover' = Covered(hover)
            BY <2>1, <2>4, <4>2
          <5>2. Len(url) \in Nat /\ screen \in Screens(Len(url)) /\ hover \in Hovers(Len(url))
            OBVIOUS
          <5> QED
            BY <5>1, <5>2, HoverOperators, ScreenOperators, Zenon
        <4> QED
          BY <4>1, <4>2
      <3>2. ShellTypeOK'
        BY <1>1, <2>1, <2>2, <3>1, ShellParts, ShellTyped
      <3> QED
        BY <1>1, <2>1, <3>1, <3>2, Quieted
    <2>5. CASE ~(url[Len(url)] # lastUrl \/ panel = "downloads")
      <3>1. screen' = screen /\ hover' = hover
        BY <2>1, <2>5
      <3>2. ShellTypeOK'
        BY <1>1, <2>1, <2>2, <3>1, ShellParts, ShellTyped
      <3> QED
        BY <1>1, <2>1, <3>1, <3>2, LeftAlone
    <2> QED
      BY <2>4, <2>5
  <1> QED
    BY <1>2, <1>3, <1>4, <1>5

LEMMA ShellStepKeeps == ShellInv /\ [ShellNext]_shellVars => ShellInv'
  <1> SUFFICES ASSUME ShellInv, [ShellNext]_shellVars PROVE ShellInv'
    OBVIOUS
  <1>1. CASE UNCHANGED shellVars
    <2>1. ShellIsCurrent'
      <3>1. ShellTypeOK'
        BY <1>1, ShellFacts, ShellParts, ShellTyped DEF shellVars
      <3> QED
        BY <1>1, <3>1 DEF shellVars, ShellInv, ShellIsCurrent, PopoverIsCurrent,
           ActsOnClicked, ClosedIsQuiet
    <2> QED
      BY <1>1, <2>1 DEF shellVars, ShellInv, AsksTheShown, DialogIsOfClicked
  <1>2. CASE \/ \E u \in InternalUrls : ToolbarGo(u)
             \/ ToolbarEngine \/ SearchControl \/ Resize
             \/ \E p \in {"downloads", "privacy-shield"} : ToolbarPanel(p)
             \/ \E i \in WebUrls \cup InternalUrls \cup {"query"} : Search(i)
    BY <1>2, HandlerKeeps
  <1>3. CASE Tick \/ (\E a \in Actions : ClickAction(a)) \/ EndEvents \/ Stop
    BY <1>3, WindowEventKeeps
  <1>4. CASE Execute
    BY <1>4, ExecuteKeeps
  <1>5. CASE \/ \E t \in 1..ShellTabs, u \in WebUrls : PageMoves(t, u)
             \/ \E m \in Media \cup {"none"} : Accept(m)
             \/ PreviewFails \/ EndTurn
    BY <1>5, EngineKeeps
  <1> QED
    BY <1>1, <1>2, <1>3, <1>4, <1>5 DEF ShellNext

\* The popover only ever shows media of the attached view, an action is executed
\* on what was clicked, and after the window closed nothing is attached, asked or
\* shown, in whatever order probes, dialogs and pages come (gtk_linux_runner.hpp,
\* gtk_linux_glaze_host.cpp, live_media_hover.hpp).
THEOREM ShellStaysCurrent == ShellSpec => []ShellIsCurrent
  <1>1. ShellInv => ShellIsCurrent
    BY DEF ShellInv
  <1> QED
    BY <1>1, ShellInitHolds, ShellStepKeeps, PTL DEF ShellSpec

----------------------------------------------------------------------------
(***************************************************************************)
(* Session recovery, for any windows, policies and stores.  What is        *)
(* offered is judged when it is offered, so that nothing needs to be known *)
(* of the store but that it holds snapshots; that a clean end is quiet     *)
(* needs the newest snapshot to be the clean one.                          *)
(***************************************************************************)

Recorded == [id : CheckpointIds \cup {"invalid"}, exit : {"running", "clean", "unclean"},
             windows : Seq(Windows)]

RecoveryInv ==
  /\ stored \in Seq(Recorded)
  /\ lastCall = "clean" => stored # <<>> /\ Last(stored).exit = "clean"

\* A set of natural numbers that is not empty has a least one.
LEMMA LeastOf ==
  ASSUME NEW U, U \subseteq Nat, U # {}
  PROVE  \E m \in U : \A k \in U : m <= k
  <1> DEFINE R == {ss \in Nat \X Nat : ss[1] < ss[2]}
  <1>1. IsWellFoundedOn(R, Nat)
    BY NatLessThanWellFounded DEF OpToRel
  <1>2. PICK m \in U : \A k \in U : ~(<<k, m>> \in R)
    <2> HIDE DEF R
    <2> QED
      BY <1>1, WFMin
  <1>3. ASSUME NEW k \in U PROVE m <= k
    <2>1. <<k, m>> \in Nat \X Nat /\ k \in Nat /\ m \in Nat
      OBVIOUS
    <2>2. ~(k < m)
      BY <1>2, <2>1
    <2> QED
      BY <2>1, <2>2
  <1> QED
    BY <1>3

\* What is left of a sequence are elements of it that pass.
LEMMA FilteredFacts ==
  ASSUME NEW S, NEW s \in Seq(S), NEW T
  PROVE  Filtered(s, T) \in Seq(S \cap T)
  <1> DEFINE n == Len(s)
             Step(g, i) == IF i = 0 THEN <<>>
                           ELSE IF s[i] \in T THEN Append(g[i - 1], s[i]) ELSE g[i - 1]
             Runs(k) == {g \in [0..k -> Seq(S \cap T)] : \A i \in 0..k : g[i] = Step(g, i)}
             U == {k \in 0..n : Runs(k) = {}}
  <1>1. n \in Nat /\ \A i \in 1..n : s[i] \in S
    OBVIOUS
  <1>2. U = {}
    <2> SUFFICES ASSUME U # {} PROVE FALSE
      OBVIOUS
    <2>1. U \subseteq Nat
      BY <1>1
    <2> HIDE DEF U
    <2>2. PICK m \in U : \A k \in U : m <= k
      BY <2>1, LeastOf
    <2> USE DEF U
    <2>3. m \in 0..n /\ Runs(m) = {}
      OBVIOUS
    <2>4. CASE m = 0
      <3> DEFINE g == [i \in 0..0 |-> <<>>]
      <3>1. g \in [0..0 -> Seq(S \cap T)]
        OBVIOUS
      <3>2. \A i \in 0..0 : g[i] = Step(g, i)
        OBVIOUS
      <3>3. g \in Runs(0)
        BY <3>1, <3>2
      <3> QED
        BY <2>3, <2>4, <3>3
    <2>5. CASE m # 0
      <3>1. m - 1 \in 0..n /\ m - 1 \notin U /\ m \in 1..n
        <4>1. m \in Nat /\ m - 1 \in 0..n /\ m \in 1..n /\ ~(m <= m - 1)
          BY <1>1, <2>3, <2>5
        <4> HIDE DEF U
        <4> QED
          BY <2>2, <4>1
      <3>2. PICK g \in Runs(m - 1) : TRUE
        BY <3>1
      <3>3. g \in [0..(m - 1) -> Seq(S \cap T)] /\ \A i \in 0..(m - 1) : g[i] = Step(g, i)
        BY <3>2
      <3> DEFINE h == [i \in 0..m |-> IF i = m THEN Step(g, m) ELSE g[i]]
      <3>4. Step(g, m) \in Seq(S \cap T)
        <4>1. g[m - 1] \in Seq(S \cap T) /\ s[m] \in S
          BY <1>1, <3>1, <3>3
        <4>2. CASE s[m] \in T
          <5>1. s[m] \in S \cap T
            BY <4>1, <4>2
          <5>2. Append(g[m - 1], s[m]) \in Seq(S \cap T)
            BY <4>1, <5>1
          <5> QED
            BY <2>5, <4>2, <5>2
        <4>3. CASE s[m] \notin T
          BY <2>5, <4>1, <4>3
        <4> QED
          BY <4>2, <4>3
      <3>5. h \in [0..m -> Seq(S \cap T)]
        <4> HIDE DEF Step
        <4> QED
          BY <3>1, <3>3, <3>4
      <3>6. ASSUME NEW i \in 0..m PROVE h[i] = Step(h, i)
        <4>1. CASE i = 0
          BY <2>5, <3>1, <3>3, <4>1
        <4>2. CASE i # 0
          <5>1. i - 1 \in 0..(m - 1) /\ i - 1 # m
            BY <3>1, <4>2
          <5>2. h[i - 1] = g[i - 1]
            BY <3>1, <5>1
          <5>3. h[i] = IF i = m THEN Step(g, m) ELSE g[i]
            BY <3>1
          <5>4. i # m => g[i] = Step(g, i)
            <6>1. i # m => i \in 0..(m - 1)
              BY <3>1
            <6> HIDE DEF Step
            <6> QED
              BY <3>3, <6>1
          <5>5. h[i] = Step(g, i)
            BY <5>3, <5>4
          <5> HIDE DEF h
          <5> QED
            BY <4>2, <5>2, <5>5
        <4> QED
          BY <4>1, <4>2
      <3>7. h \in Runs(m)
        <4> HIDE DEF h, Step
        <4> QED
          BY <3>5, <3>6
      <3> QED
        BY <2>3, <3>7
    <2> QED
      BY <2>4, <2>5
  <1>3. PICK g \in [0..n -> Seq(S \cap T)] : \A i \in 0..n : g[i] = Step(g, i)
    <2>1. n \in 0..n
      BY <1>1
    <2>2. Runs(n) # {}
      <3> HIDE DEF Runs
      <3> QED
        BY <1>2, <2>1
    <2> HIDE DEF Step
    <2> QED
      BY <2>2
  <1> DEFINE Def(f) == [i \in 0..Len(s) |->
                         IF i = 0 THEN <<>>
                         ELSE IF s[i] \in T THEN Append(f[i - 1], s[i]) ELSE f[i - 1]]
             kept == CHOOSE f : f = Def(f)
  <1>4. g = Def(g)
    BY <1>3
  <1>5. kept = Def(kept)
    <2> HIDE DEF Def
    <2> QED
      BY <1>4, Zenon
  <1>6. Filtered(s, T) = kept[n]
    BY Zenon DEF Filtered
  <1> HIDE DEF kept
  <1>7. \A i \in 0..n : kept[i] = Step(kept, i)
    BY <1>5
  <1> DEFINE V == {k \in 0..n : kept[k] # g[k]}
  <1>8. V = {}
    <2> SUFFICES ASSUME V # {} PROVE FALSE
      OBVIOUS
    <2>1. V \subseteq Nat
      BY <1>1
    <2> HIDE DEF V
    <2>2. PICK m \in V : \A k \in V : m <= k
      BY <2>1, LeastOf
    <2> USE DEF V
    <2>3. m \in 0..n /\ kept[m] # g[m] /\ kept[m] = Step(kept, m) /\ g[m] = Step(g, m)
      BY <1>3, <1>7
    <2>4. m # 0
      BY <2>3
    <2>5. m - 1 \in 0..n /\ m - 1 \notin V
      BY <1>1, <2>2, <2>3, <2>4
    <2>6. kept[m - 1] = g[m - 1]
      BY <2>5
    <2> QED
      BY <2>3, <2>4, <2>6
  <1>9. n \in 0..n
    BY <1>1
  <1> QED
    BY <1>3, <1>6, <1>8, <1>9

\* What is written of a snapshot has its id and end, and windows that may be.
LEMMA SanitizedFacts ==
  ASSUME NEW c \in Recorded
  PROVE  /\ Sanitized(c) \in Recorded /\ Sanitized(c).exit = c.exit
         /\ \A i \in 1..Len(Sanitized(c).windows) :
              /\ Sanitized(c).windows[i] \in Windows
              /\ Sanitized(c).windows[i].mode = "normal"
  <1> DEFINE T == {w \in Windows : ShouldPersist(w.mode)}
             ws == Filtered(c.windows, T)
  <1>1. c.windows \in Seq(Windows)
    BY DEF Recorded
  <1>2. ws \in Seq(Windows \cap T)
    BY <1>1, FilteredFacts
  <1>3. Sanitized(c) = [c EXCEPT !.windows = ws]
    BY DEF Sanitized
  <1> HIDE DEF ws
  <1>4. ws \in Seq(Windows) /\ \A i \in 1..Len(ws) : ws[i] \in Windows /\ ShouldPersist(ws[i].mode)
    BY <1>2
  <1>5. /\ Sanitized(c) \in Recorded /\ Sanitized(c).exit = c.exit
        /\ Sanitized(c).windows = ws
    BY <1>3, <1>4 DEF Recorded
  <1> QED
    BY <1>4, <1>5 DEF ShouldPersist

\* The tabs of a window, each with an id of its own, are as many as their ids.
LEMMA IdsCount ==
  ASSUME NEW S, NEW its \in Seq(S),
         \A a, b \in 1..Len(its) : its[a].id = its[b].id => a = b
  PROVE  Cardinality({t.id : t \in Range(its)}) = Len(its)
  <1> DEFINE n == Len(its)
             I == {t.id : t \in Range(its)}
             f == [a \in 1..n |-> its[a].id]
  <1>1. n \in Nat /\ DOMAIN its = 1..n
    OBVIOUS
  <1>2. I = {its[a].id : a \in 1..n}
    BY <1>1 DEF Range
  <1>3. f \in Bijection(1..n, I)
    <2>1. f \in [1..n -> I]
      BY <1>2
    <2>2. IsInjective(f)
      BY <1>1 DEF IsInjective
    <2>3. \A x \in I : \E a \in 1..n : f[a] = x
      BY <1>2
    <2> QED
      BY <2>1, <2>2, <2>3 DEF Bijection, Injection, Surjection
  <1>4. IsFiniteSet(1..n) /\ Cardinality(1..n) = n
    BY <1>1, FS_Interval
  <1> QED
    <2>1. ExistsBijection(1..n, I)
      BY <1>3 DEF ExistsBijection
    <2> HIDE DEF I, f
    <2>2. Cardinality(I) = Cardinality(1..n)
      BY <1>4, <2>1, FS_Bijection
    <2> QED
      BY <1>4, <2>2 DEF I

\* A snapshot that passes is sound, whoever wrote it.
LEMMA ValidIsSound ==
  ASSUME NEW c \in Recorded, Valid(c), NEW i \in DOMAIN c.windows
  PROVE  /\ Cardinality({t.id : t \in Range(c.windows[i].tabs)}) = Len(c.windows[i].tabs)
         /\ Cardinality(ActiveTabs(c.windows[i])) <= 1
         /\ c.windows[i].active \in {t.id : t \in Range(c.windows[i].tabs)} \cup {0}
         /\ \A j \in DOMAIN c.windows :
              i # j => {t.id : t \in Range(c.windows[i].tabs)}
                         \cap {t.id : t \in Range(c.windows[j].tabs)} = {}
  <1>1. \A j \in DOMAIN c.windows :
          c.windows[j] \in Windows /\ c.windows[j].tabs \in Seq([id : Nat, active : BOOLEAN])
    BY RecoveryAssumption DEF Recorded
  <1>2. /\ WindowOk(c.windows[i])
        /\ \A p, q \in TabPlaces(c) : TabAt(c, p).id = TabAt(c, q).id => p = q
    BY DEF Valid
  <1>3. ASSUME NEW j \in DOMAIN c.windows, NEW a \in DOMAIN c.windows[j].tabs
        PROVE  <<j, a>> \in TabPlaces(c) /\ TabAt(c, <<j, a>>) = c.windows[j].tabs[a]
    BY DEF TabPlaces, TabAt
  <1>4. ASSUME NEW a \in DOMAIN c.windows[i].tabs, NEW j \in DOMAIN c.windows,
               NEW b \in DOMAIN c.windows[j].tabs,
               c.windows[i].tabs[a].id = c.windows[j].tabs[b].id
        PROVE  i = j /\ a = b
    <2>1. <<i, a>> = <<j, b>>
      BY <1>2, <1>3, <1>4
    <2> QED
      BY <2>1
  <1>5. Cardinality({t.id : t \in Range(c.windows[i].tabs)}) = Len(c.windows[i].tabs)
    <2>1. c.windows[i].tabs \in Seq([id : Nat, active : BOOLEAN])
          /\ DOMAIN c.windows[i].tabs = 1..Len(c.windows[i].tabs)
      BY <1>1
    <2>2. \A a, b \in 1..Len(c.windows[i].tabs) :
            c.windows[i].tabs[a].id = c.windows[i].tabs[b].id => a = b
      BY <1>4, <2>1
    <2> QED
      BY <2>1, <2>2, IdsCount
  <1>6. c.windows[i].active \in {t.id : t \in Range(c.windows[i].tabs)} \cup {0}
    BY <1>2 DEF WindowOk, Range
  <1>7. ASSUME NEW j \in DOMAIN c.windows, i # j
        PROVE  {t.id : t \in Range(c.windows[i].tabs)}
                 \cap {t.id : t \in Range(c.windows[j].tabs)} = {}
    BY <1>4, <1>7 DEF Range
  <1>8. Cardinality(ActiveTabs(c.windows[i])) <= 1
    BY <1>2 DEF WindowOk
  <1> QED
    BY <1>5, <1>6, <1>7, <1>8

LEMMA LastRecorded ==
  ASSUME NEW S, NEW s \in Seq(S)
  PROVE  /\ s # <<>> => Last(s) \in S
         /\ \A c \in S : /\ Append(s, c) \in Seq(S) /\ Append(s, c) # <<>>
                        /\ Last(Append(s, c)) = c
  BY DEF Last

LEMMA RecoveryStepKeeps == RecoveryInv /\ [RecoveryNext]_recoveryVars => RecoveryInv'
  <1> SUFFICES ASSUME RecoveryInv, [RecoveryNext]_recoveryVars PROVE RecoveryInv'
    OBVIOUS
  <1>1. stored \in Seq(Recorded)
    BY DEF RecoveryInv
  <1>2. Snapshots \subseteq Recorded
    <2>1. BoundedSeq(Windows, MaxWindows + 1) \subseteq Seq(Windows)
      BY RecoveryAssumption DEF BoundedSeq, SeqOf
    <2> QED
      BY <2>1 DEF Snapshots, Recorded
  <1>3. ASSUME NEW c \in Snapshots, Call(c.exit, c) PROVE RecoveryInv'
    <2> DEFINE d == [c EXCEPT !.exit = c.exit]
    <2>1. d \in Recorded /\ d.exit = c.exit
      BY <1>2 DEF Recorded
    <2>2. stored' = Append(stored, Sanitized(d)) /\ lastCall' = c.exit
      BY <1>3 DEF Call, Persist
    <2> HIDE DEF d
    <2>3. Sanitized(d) \in Recorded /\ Sanitized(d).exit = c.exit
      BY <2>1, SanitizedFacts
    <2> QED
      BY <1>1, <2>2, <2>3, LastRecorded DEF RecoveryInv
  <1>4. ASSUME NEW c \in Snapshots, Tamper(c) PROVE RecoveryInv'
    <2>1. stored' = Append(stored, c) /\ lastCall' # "clean" /\ c \in Recorded
      BY <1>2, <1>4 DEF Tamper
    <2> QED
      BY <1>1, <2>1, LastRecorded DEF RecoveryInv
  <1>5. ASSUME NEW id, Discard(id) PROVE RecoveryInv'
    <2> DEFINE T == {c \in Range(stored) : c.id # id}
    <2>1. stored' = Filtered(stored, T) /\ lastCall' = IF stored' = stored THEN lastCall ELSE "discard"
      BY <1>5 DEF Discard
    <2>2. stored' \in Seq(Recorded \cap T)
      BY <1>1, <2>1, FilteredFacts
    <2>3. stored' \in Seq(Recorded)
      BY <2>2
    <2> QED
      BY <2>1, <2>3 DEF RecoveryInv
  <1>6. CASE UNCHANGED recoveryVars
    BY <1>6 DEF RecoveryInv, recoveryVars
  <1> QED
    BY <1>3, <1>4, <1>5, <1>6 DEF RecoveryNext

\* Whatever another program, an older build or a lost write left in the store,
\* what latest_candidate offers has no private window, no tab twice and no window
\* with two active tabs, and after a clean shutdown it offers nothing.
THEOREM RecoveryStaysSound == RecoverySpec => []RecoveryIsSound
  <1>1. RecoveryInit => RecoveryInv
    BY DEF RecoveryInit, RecoveryInv
  <1>2. RecoveryInv => RecoveryIsSound
    <2> SUFFICES ASSUME RecoveryInv PROVE RecoveryIsSound
      OBVIOUS
    <2>1. stored # <<>> => Last(stored) \in Recorded
      BY LastRecorded DEF RecoveryInv
    <2>2. OfferIsSound
      <3> SUFFICES ASSUME NEW c \in Candidate
                   PROVE  /\ \A i \in DOMAIN c.windows : c.windows[i].mode = "normal"
                          /\ \A i, j \in DOMAIN c.windows :
                               /\ i # j => {t.id : t \in Range(c.windows[i].tabs)}
                                             \cap {t.id : t \in Range(c.windows[j].tabs)} = {}
                               /\ Cardinality({t.id : t \in Range(c.windows[i].tabs)})
                                    = Len(c.windows[i].tabs)
                               /\ Cardinality(ActiveTabs(c.windows[i])) <= 1
                               /\ c.windows[i].active
                                    \in {t.id : t \in Range(c.windows[i].tabs)} \cup {0}
        BY DEF OfferIsSound
      <3>1. stored # <<>> /\ c = Sanitized(Last(stored)) /\ Valid(c)
        BY DEF Candidate
      <3>2. /\ c \in Recorded
            /\ \A i \in 1..Len(c.windows) : c.windows[i].mode = "normal"
        BY <2>1, <3>1, SanitizedFacts
      <3>3. DOMAIN c.windows = 1..Len(c.windows)
        BY <3>2 DEF Recorded
      <3> QED
        BY <3>1, <3>2, <3>3, ValidIsSound
    <2>3. CleanEndIsQuiet
      <3> SUFFICES ASSUME lastCall = "clean" PROVE Candidate = {}
        BY DEF CleanEndIsQuiet
      <3>1. Last(stored) \in Recorded /\ Last(stored).exit = "clean"
        BY <2>1 DEF RecoveryInv
      <3>2. Sanitized(Last(stored)).exit = "clean"
        BY <3>1, SanitizedFacts
      <3> QED
        BY <3>2 DEF Candidate
    <2> QED
      BY <2>2, <2>3 DEF RecoveryIsSound
  <1> QED
    BY <1>1, <1>2, RecoveryStepKeeps, PTL DEF RecoverySpec

----------------------------------------------------------------------------
(***************************************************************************)
(* A window and its tab manager, for any number of tabs, groups, workspaces *)
(* and splits.                                                             *)
(*                                                                         *)
(* Tabs get ascending ids and are never reordered, so that the i-th tab has *)
(* at least id i: a window has no more tabs than it opened.  What the      *)
(* strip draws rests on the manager's tabs, also those the window lacks:   *)
(* every tab in a split or group is known there.                           *)
(***************************************************************************)

\* The tabs ts, where n is the next id.
TabsOK(ts, n) ==
  /\ ts \in Seq(TabIds)
  /\ \A i \in 1..Len(ts) : i <= ts[i] /\ ts[i] < n
  /\ \A i, j \in 1..Len(ts) : ts[i] = ts[j] => i = j

\* Their states, the active one and the selection.
ShownOK(ts, states, a, chosen) ==
  /\ DOMAIN states = Range(ts)
  /\ \A id \in Range(ts) : /\ states[id] \in {"active", "background", "suspended"}
                           /\ states[id] = "active" => id = ts[a]
  /\ a \in 0..Len(ts) /\ (a = 0 <=> ts = <<>>)
  /\ chosen \subseteq Range(ts)

ManagedTab(n) ==
  [protection : {"normal", "locked", "protected"}, sleeping : BOOLEAN,
   group : 0..n, workspace : 0..n, split : Nat]

\* What the manager m knows of tabs, with its collections cs and splits sp, where
\* n and k are the next ids of a tab and of a split.
ManagerOK(m, cs, sp, n, k) ==
  /\ cs \in Seq([kind : {"group", "workspace"}, lists : SUBSET TabIds])
  /\ DOMAIN sp \subseteq 1..(k - 1) /\ k \in 1..(MaxSplits + 1)
  /\ DOMAIN m \subseteq TabIds
  /\ \A id \in DOMAIN m :
       /\ id < n /\ m[id] \in ManagedTab(Len(cs))
       /\ m[id].split # 0 => m[id].split \in DOMAIN sp /\ id \in sp[m[id].split]
       /\ m[id].group # 0 => id \in cs[m[id].group].lists

WindowInv ==
  /\ hasManager \in BOOLEAN /\ nextTab \in 1..(MaxTabs + 1)
  /\ TabsOK(tabs, nextTab)
  /\ ShownOK(tabs, life, active, selected)
  /\ ManagerOK(managed, collections, splits, nextTab, nextSplit)

----------------------------------------------------------------------------
(* The tabs of the window                                                  *)

LEMMA TabsAreNumbers ==
  /\ TabIds \subseteq Nat
  /\ \A n, ts : TabsOK(ts, n) =>
       /\ ts \in Seq(TabIds) /\ Len(ts) \in Nat
       /\ \A i \in 1..Len(ts) : ts[i] \in TabIds /\ ts[i] \in Nat
  <1>1. TabIds \subseteq Nat
    <2>1. MaxTabs \in Nat
      BY WindowAssumption
    <2> QED
      BY <2>1 DEF TabIds
  <1>2. ASSUME NEW n, NEW ts, TabsOK(ts, n)
        PROVE  /\ ts \in Seq(TabIds) /\ Len(ts) \in Nat
               /\ \A i \in 1..Len(ts) : ts[i] \in TabIds /\ ts[i] \in Nat
    <2>1. ts \in Seq(TabIds)
      BY <1>2 DEF TabsOK
    <2>2. Len(ts) \in Nat /\ \A i \in 1..Len(ts) : ts[i] \in TabIds
      BY <2>1
    <2> QED
      BY <1>1, <2>1, <2>2
  <1> QED
    BY <1>1, <1>2

\* A tab opened has a place and an id behind all others.
LEMMA OpenedTab ==
  ASSUME NEW n \in TabIds, NEW ts, TabsOK(ts, n)
  PROVE  /\ TabsOK(Append(ts, n), n + 1) /\ Len(Append(ts, n)) = Len(ts) + 1
         /\ Range(Append(ts, n)) = Range(ts) \cup {n}
  <1> DEFINE us == Append(ts, n)
  <1>1. /\ ts \in Seq(TabIds) /\ TabIds \subseteq Nat /\ Len(ts) \in Nat /\ n \in Nat
        /\ \A i \in 1..Len(ts) : ts[i] \in Nat
    BY TabsAreNumbers
  <1>2. /\ us \in Seq(TabIds) /\ Len(us) = Len(ts) + 1
        /\ \A i \in 1..(Len(ts) + 1) : us[i] = IF i = Len(ts) + 1 THEN n ELSE ts[i]
    BY <1>1
  <1> HIDE DEF us
  <1>3. Len(ts) < n
    <2>1. CASE Len(ts) = 0
      BY <2>1 DEF TabIds
    <2>2. CASE Len(ts) # 0
      <3>1. Len(ts) \in 1..Len(ts)
        BY <1>1, <2>2
      <3> QED
        BY <1>1, <3>1 DEF TabsOK
    <2> QED
      BY <2>1, <2>2
  <1>4. TabsOK(us, n + 1)
    <2>1. ASSUME NEW i \in 1..Len(us) PROVE i <= us[i] /\ us[i] < n + 1
      <3>1. CASE i = Len(ts) + 1
        BY <1>1, <1>2, <1>3, <3>1
      <3>2. CASE i \in 1..Len(ts)
        BY <1>1, <1>2, <3>2 DEF TabsOK
      <3> QED
        BY <1>1, <1>2, <3>1, <3>2
    <2>2. ASSUME NEW i \in 1..Len(us), NEW j \in 1..Len(us), us[i] = us[j] PROVE i = j
      <3>1. CASE i \in 1..Len(ts) /\ j \in 1..Len(ts)
        BY <1>1, <1>2, <2>2, <3>1 DEF TabsOK
      <3>2. CASE i = Len(ts) + 1 /\ j \in 1..Len(ts)
        BY <1>1, <1>2, <2>2, <3>2 DEF TabsOK
      <3>3. CASE j = Len(ts) + 1 /\ i \in 1..Len(ts)
        BY <1>1, <1>2, <2>2, <3>3 DEF TabsOK
      <3> QED
        BY <1>1, <1>2, <3>1, <3>2, <3>3
    <2> QED
      BY <1>2, <2>1, <2>2 DEF TabsOK
  <1>5. Range(us) = Range(ts) \cup {n}
    <2>1. DOMAIN us = 1..(Len(ts) + 1) /\ DOMAIN ts = 1..Len(ts)
      BY <1>1, <1>2
    <2>2. 1..(Len(ts) + 1) = 1..Len(ts) \cup {Len(ts) + 1} /\ Len(ts) + 1 \notin 1..Len(ts)
      BY <1>1
    <2>3. ASSUME NEW x PROVE x \in Range(us) <=> x \in Range(ts) \cup {n}
      BY <1>2, <2>1, <2>2 DEF Range
    <2> QED
      BY <2>3
  <1> QED
    BY <1>2, <1>4, <1>5 DEF us

\* A tab closed goes, and those behind it move up by one place.
LEMMA ClosedTab ==
  ASSUME NEW n \in Nat, NEW ts, TabsOK(ts, n), NEW i \in 1..Len(ts)
  PROVE  LET us == RemoveAt(ts, i)
         IN  /\ TabsOK(us, n) /\ Len(us) = Len(ts) - 1
             /\ \A j \in 1..Len(us) : us[j] = IF j < i THEN ts[j] ELSE ts[j + 1]
             /\ Range(us) = Range(ts) \ {ts[i]}
  <1> DEFINE us == RemoveAt(ts, i)
             p == SubSeq(ts, 1, i - 1)
             q == SubSeq(ts, i + 1, Len(ts))
  <1>1. /\ ts \in Seq(TabIds) /\ TabIds \subseteq Nat /\ Len(ts) \in Nat /\ i \in Nat
        /\ \A j \in 1..Len(ts) : ts[j] \in Nat
    BY TabsAreNumbers
  <1>2. p \in Seq(TabIds) /\ Len(p) = i - 1 /\ \A j \in 1..(i - 1) : p[j] = ts[j]
    BY <1>1
  <1>3. q \in Seq(TabIds) /\ Len(q) = Len(ts) - i /\ \A j \in 1..(Len(ts) - i) : q[j] = ts[i + j]
    BY <1>1
  <1>4. us = p \o q
    BY DEF RemoveAt
  <1> HIDE DEF p, q, us
  <1>5. us \in Seq(TabIds) /\ Len(us) = Len(ts) - 1
    <2>1. us \in Seq(TabIds) /\ Len(us) = Len(p) + Len(q)
      <3>1. p \in Seq(TabIds) /\ q \in Seq(TabIds)
        BY <1>2, <1>3
      <3> QED
        BY <1>4, <3>1, ConcatProperties
    <2>2. Len(us) = i - 1 + (Len(ts) - i)
      BY <1>2, <1>3, <2>1
    <2> QED
      BY <1>1, <2>1, <2>2
  <1>6. ASSUME NEW j \in 1..Len(us) PROVE us[j] = IF j < i THEN ts[j] ELSE ts[j + 1]
    <2>1. us[j] = IF j <= Len(p) THEN p[j] ELSE q[j - Len(p)]
      BY <1>1, <1>2, <1>3, <1>4, <1>5
    <2>2. CASE j < i
      BY <1>1, <1>2, <1>5, <2>1, <2>2
    <2>3. CASE j >= i
      <3>1. j - (i - 1) \in 1..(Len(ts) - i) /\ i + (j - (i - 1)) = j + 1
        BY <1>1, <1>5, <2>3
      <3> QED
        BY <1>1, <1>2, <1>3, <1>5, <2>1, <2>3, <3>1
    <2> QED
      BY <1>1, <1>5, <2>2, <2>3
  <1>7. TabsOK(us, n)
    <2>1. ASSUME NEW j \in 1..Len(us)
          PROVE  j \in 1..Len(ts) /\ j + 1 \in 1..Len(ts) /\ j <= us[j] /\ us[j] < n
      <3>1. j \in 1..Len(ts) /\ j + 1 \in 1..Len(ts)
        BY <1>1, <1>5
      <3> QED
        BY <1>1, <1>6, <3>1 DEF TabsOK
    <2>2. ASSUME NEW j \in 1..Len(us), NEW k \in 1..Len(us), us[j] = us[k] PROVE j = k
      BY <1>1, <1>6, <2>1, <2>2 DEF TabsOK
    <2> QED
      BY <1>5, <2>1, <2>2 DEF TabsOK
  <1>8. Range(us) = Range(ts) \ {ts[i]}
    <2>1. DOMAIN us = 1..(Len(ts) - 1) /\ DOMAIN ts = 1..Len(ts)
      BY <1>1, <1>5
    <2>2. ASSUME NEW j \in 1..(Len(ts) - 1) PROVE us[j] \in Range(ts) /\ us[j] # ts[i]
      <3>1. j \in 1..Len(ts) /\ j + 1 \in 1..Len(ts) /\ (j < i \/ j + 1 > i) /\ j \in 1..Len(us)
        BY <1>1, <1>5
      <3> QED
        <4>1. /\ ts[j] \in Range(ts) /\ ts[j + 1] \in Range(ts)
              /\ j # i => ts[j] # ts[i]
              /\ j + 1 # i => ts[j + 1] # ts[i]
          BY <2>1, <3>1 DEF TabsOK, Range
        <4>2. us[j] = IF j < i THEN ts[j] ELSE ts[j + 1]
          BY <1>6, <3>1
        <4>3. (j < i => j # i) /\ (~(j < i) => j + 1 # i)
          BY <1>1, <3>1
        <4> QED
          BY <4>1, <4>2, <4>3
    <2>3. ASSUME NEW j \in 1..Len(ts), ts[j] # ts[i] PROVE ts[j] \in Range(us)
      <3>1. CASE j < i
        <4>1. j \in 1..Len(us)
          BY <1>1, <1>5, <3>1
        <4> QED
          BY <1>5, <1>6, <2>1, <3>1, <4>1 DEF Range
      <3>2. CASE j > i
        <4>1. j - 1 \in 1..Len(us) /\ ~(j - 1 < i) /\ j - 1 + 1 = j
          BY <1>1, <1>5, <3>2
        <4>2. us[j - 1] = ts[j]
          BY <1>6, <4>1
        <4> QED
          BY <1>5, <2>1, <4>1, <4>2 DEF Range
      <3> QED
        BY <1>1, <2>3, <3>1, <3>2
    <2> QED
      BY <2>1, <2>2, <2>3 DEF Range
  <1> QED
    BY <1>5, <1>6, <1>7, <1>8 DEF us

\* The tab activated is the active one, every other one in the background.
LEMMA Activated ==
  ASSUME NEW n, NEW order, TabsOK(order, n), NEW i \in 1..Len(order), Activate(order, i)
  PROVE  ShownOK(order, life', active', selected')
  <1>1. order \in Seq(TabIds) /\ Len(order) \in Nat
    BY TabsAreNumbers
  <1>2. /\ DOMAIN life' = Range(order) /\ active' = i /\ selected' = {order[i]}
        /\ \A id \in Range(order) : life'[id] = IF id = order[i] THEN "active" ELSE "background"
    BY DEF Activate
  <1>3. order[i] \in Range(order)
    BY <1>1 DEF Range
  <1>4. i \in 0..Len(order) /\ i # 0 /\ order # <<>>
    BY <1>1
  <1> QED
    BY <1>2, <1>3, <1>4 DEF ShownOK

----------------------------------------------------------------------------
(* The manager                                                             *)

\* What the manager knows of tabs after one field of those in S was rewritten.
LEMMA Rewritten ==
  ASSUME WindowInv, NEW S, NEW value, NEW field \in {"protection", "sleeping", "group", "workspace", "split"},
         Rewrite(S, field, value),
         \A id \in S \cap Known :
           /\ field = "protection" => value[id] \in {"normal", "locked", "protected"}
           /\ field = "sleeping" => value[id] \in BOOLEAN
           /\ field \in {"group", "workspace"} => value[id] \in 0..Len(collections)
           /\ field = "split" => value[id] \in Nat
  PROVE  /\ DOMAIN managed' = Known
         /\ \A id \in Known :
              /\ managed'[id] \in ManagedTab(Len(collections))
              /\ managed'[id].split =
                   IF field = "split" /\ id \in S THEN value[id] ELSE managed[id].split
              /\ managed'[id].group =
                   IF field = "group" /\ id \in S THEN value[id] ELSE managed[id].group
  <1>1. Len(collections) \in Nat
    BY DEF WindowInv, ManagerOK
  <1>2. /\ DOMAIN managed' = Known
        /\ \A id \in Known :
             managed'[id] = IF id \in S THEN [managed[id] EXCEPT ![field] = value[id]] ELSE managed[id]
    BY DEF Rewrite
  <1>3. ASSUME NEW id \in Known
        PROVE  /\ managed'[id] \in ManagedTab(Len(collections))
               /\ managed'[id].split =
                    IF field = "split" /\ id \in S THEN value[id] ELSE managed[id].split
               /\ managed'[id].group =
                    IF field = "group" /\ id \in S THEN value[id] ELSE managed[id].group
    <2>1. managed[id] \in ManagedTab(Len(collections))
      BY DEF WindowInv, ManagerOK, Known
    <2>2. CASE id \notin S
      BY <1>2, <2>1, <2>2
    <2>3. CASE id \in S /\ field = "protection"
      <3>1. value[id] \in {"normal", "locked", "protected"}
        BY <2>3
      <3>2. managed'[id] = [managed[id] EXCEPT !["protection"] = value[id]]
        BY <1>2, <2>3
      <3>3. /\ managed'[id] \in ManagedTab(Len(collections))
            /\ managed'[id].split = managed[id].split
            /\ managed'[id].group = managed[id].group
        BY <1>1, <2>1, <3>1, <3>2 DEF ManagedTab
      <3> QED
        BY <2>3, <3>3
    <2>4. CASE id \in S /\ field = "sleeping"
      <3>1. value[id] \in BOOLEAN
        BY <2>4
      <3>2. managed'[id] = [managed[id] EXCEPT !["sleeping"] = value[id]]
        BY <1>2, <2>4
      <3>3. /\ managed'[id] \in ManagedTab(Len(collections))
            /\ managed'[id].split = managed[id].split
            /\ managed'[id].group = managed[id].group
        BY <1>1, <2>1, <3>1, <3>2 DEF ManagedTab
      <3> QED
        BY <2>4, <3>3
    <2>5. CASE id \in S /\ field = "group"
      <3>1. value[id] \in 0..Len(collections)
        BY <2>5
      <3>2. managed'[id] = [managed[id] EXCEPT !["group"] = value[id]]
        BY <1>2, <2>5
      <3>3. /\ managed'[id] \in ManagedTab(Len(collections))
            /\ managed'[id].split = managed[id].split
            /\ managed'[id].group = value[id]
        BY <1>1, <2>1, <3>1, <3>2 DEF ManagedTab
      <3> QED
        BY <2>5, <3>3
    <2>6. CASE id \in S /\ field = "workspace"
      <3>1. value[id] \in 0..Len(collections)
        BY <2>6
      <3>2. managed'[id] = [managed[id] EXCEPT !["workspace"] = value[id]]
        BY <1>2, <2>6
      <3>3. /\ managed'[id] \in ManagedTab(Len(collections))
            /\ managed'[id].split = managed[id].split
            /\ managed'[id].group = managed[id].group
        BY <1>1, <2>1, <3>1, <3>2 DEF ManagedTab
      <3> QED
        BY <2>6, <3>3
    <2>7. CASE id \in S /\ field = "split"
      <3>1. value[id] \in Nat
        BY <2>7
      <3>2. managed'[id] = [managed[id] EXCEPT !["split"] = value[id]]
        BY <1>2, <2>7
      <3>3. /\ managed'[id] \in ManagedTab(Len(collections))
            /\ managed'[id].split = value[id]
            /\ managed'[id].group = managed[id].group
        BY <1>1, <2>1, <3>1, <3>2 DEF ManagedTab
      <3> QED
        BY <2>7, <3>3
    <2> QED
      BY <2>2, <2>3, <2>4, <2>5, <2>6, <2>7
  <1> QED
    BY <1>2, <1>3

----------------------------------------------------------------------------
(* The operations                                                          *)

LEMMA NewTabSound == ASSUME WindowInv, NewTab PROVE WindowInv'
  <1>1. /\ nextTab \in TabIds /\ nextTab \in Nat /\ nextTab' = nextTab + 1
        /\ nextTab' \in 1..(MaxTabs + 1)
    <2>1. MaxTabs \in Nat /\ MaxManaged \in 0..MaxTabs
      BY WindowAssumption
    <2>2. nextTab \in 1..(MaxTabs + 1) /\ nextTab <= MaxTabs /\ nextTab' = nextTab + 1
      BY <2>1 DEF NewTab, WindowInv
    <2> QED
      BY <2>1, <2>2 DEF TabIds
  <1>2. /\ tabs' = Append(tabs, nextTab) /\ Activate(tabs', Len(tabs'))
        /\ hasManager' = hasManager /\ UNCHANGED <<managed, collections, splits, nextSplit>>
    BY DEF NewTab, managerVars
  <1>3. TabsOK(tabs', nextTab') /\ Len(tabs') = Len(tabs) + 1
    BY <1>1, <1>2, OpenedTab DEF WindowInv
  <1>4. Len(tabs') \in 1..Len(tabs')
    <2>1. Len(tabs) \in Nat
      BY TabsAreNumbers DEF WindowInv
    <2> QED
      BY <1>3, <2>1
  <1>5. ShownOK(tabs', life', active', selected')
    BY <1>2, <1>3, <1>4, Activated
  <1>6. ManagerOK(managed', collections', splits', nextTab', nextSplit')
    <2>1. \A id \in Known : id \in TabIds /\ id < nextTab
      BY DEF WindowInv, ManagerOK, Known
    <2>2. ASSUME NEW id \in Known PROVE id < nextTab + 1
      <3>1. id \in Nat /\ id < nextTab
        BY <2>1, TabsAreNumbers
      <3> QED
        BY <1>1, <3>1
    <2>3. ManagerOK(managed, collections, splits, nextTab, nextSplit)
      BY DEF WindowInv
    <2> QED
      BY <1>1, <1>2, <2>2, <2>3 DEF ManagerOK, Known
  <1> QED
    BY <1>1, <1>2, <1>3, <1>5, <1>6 DEF WindowInv

\* What is forgotten takes nothing from the other tabs.
LEMMA Forgotten ==
  ASSUME WindowInv, NEW S, Forget(S), nextTab' = nextTab
  PROVE  ManagerOK(managed', collections', splits', nextTab', nextSplit')
  <1>1. /\ DOMAIN managed' = Known \ S /\ \A id \in Known \ S : managed'[id] = managed[id]
        /\ UNCHANGED <<collections, splits, nextSplit>>
    BY DEF Forget
  <1>2. ManagerOK(managed, collections, splits, nextTab, nextSplit)
    BY DEF WindowInv
  <1> QED
    BY <1>1, <1>2 DEF ManagerOK, Known

\* The place a tab of the window has.
LEMMA PlaceOfTab ==
  ASSUME WindowInv, NEW id \in Range(tabs)
  PROVE  LET i == CHOOSE j \in 1..Len(tabs) : tabs[j] = id
         IN  i \in 1..Len(tabs) /\ tabs[i] = id
  <1>1. tabs \in Seq(TabIds)
    BY DEF WindowInv, TabsOK
  <1>2. PICK j \in 1..Len(tabs) : tabs[j] = id
    BY <1>1 DEF Range
  <1> QED
    BY <1>2, Zenon

\* Closing a tab of the window leaves an active tab, if any tab is left.
LEMMA ErasedShown ==
  ASSUME WindowInv, NEW i \in 1..Len(tabs), tabs' = RemoveAt(tabs, i), AfterErase(tabs', i)
  PROVE  /\ TabsOK(tabs', nextTab)
         /\ ShownOK(tabs', life', active', selected')
         /\ active < i /\ active # 0 => active' = active /\ tabs'[active] = tabs[active]
  <1>1. nextTab \in Nat
    BY DEF WindowInv
  <1>2. /\ TabsOK(tabs', nextTab) /\ Len(tabs') = Len(tabs) - 1
        /\ \A j \in 1..Len(tabs') : tabs'[j] = IF j < i THEN tabs[j] ELSE tabs[j + 1]
        /\ Range(tabs') = Range(tabs) \ {tabs[i]}
    BY <1>1, ClosedTab DEF WindowInv
  <1>3. /\ tabs \in Seq(TabIds) /\ tabs' \in Seq(TabIds)
        /\ Len(tabs) \in Nat /\ Len(tabs') \in Nat /\ i \in Nat
    BY <1>2, TabsAreNumbers DEF WindowInv
  <1>4. ShownOK(tabs, life, active, selected)
    BY DEF WindowInv
  <1>5. /\ active \in 0..Len(tabs) /\ (active = 0 <=> tabs = <<>>)
        /\ DOMAIN life = Range(tabs) /\ selected \subseteq Range(tabs)
        /\ \A id \in Range(tabs) : /\ life[id] \in {"active", "background", "suspended"}
                                   /\ life[id] = "active" => id = tabs[active]
    BY <1>4 DEF ShownOK
  <1>6. active # 0 /\ tabs # <<>>
    BY <1>3, <1>5
  <1>7. CASE tabs' = <<>>
    <2>1. active' = 0 /\ life' = <<>> /\ selected' = selected \ {tabs[i]}
      BY <1>7 DEF AfterErase
    <2>2. Range(tabs') = {} /\ Len(tabs') = 0
      BY <1>7 DEF Range
    <2>3. DOMAIN life' = {}
      BY <2>1
    <2>4. ShownOK(tabs', life', active', selected')
      BY <1>2, <1>5, <1>7, <2>1, <2>2, <2>3 DEF ShownOK
    <2>5. ~(active < i)
      <3>1. Len(tabs) = 1 /\ active \in 0..Len(tabs) /\ active # 0
        BY <1>2, <1>3, <1>5, <1>6, <2>2
      <3> QED
        BY <3>1
    <2> QED
      BY <1>2, <2>4, <2>5
  <1>8. CASE tabs' # <<>> /\ i <= active
    <2>1. Activate(tabs', IF i <= Len(tabs') THEN i ELSE Len(tabs'))
      BY <1>8 DEF AfterErase
    <2>2. (IF i <= Len(tabs') THEN i ELSE Len(tabs')) \in 1..Len(tabs')
      <3>1. Len(tabs') # 0
        BY <1>3, <1>8
      <3> QED
        BY <1>3, <3>1
    <2>3. ShownOK(tabs', life', active', selected')
      BY <1>2, <2>1, <2>2, Activated
    <2>4. ~(active < i)
      BY <1>3, <1>5, <1>8
    <2> QED
      BY <1>2, <2>3, <2>4
  <1>9. CASE tabs' # <<>> /\ ~(i <= active)
    <2>1. /\ DOMAIN life' = Range(tabs') /\ \A id \in Range(tabs') : life'[id] = life[id]
          /\ selected' = selected \ {tabs[i]} /\ active' = active
      BY <1>6, <1>9 DEF AfterErase
    <2>2. active \in 1..Len(tabs') /\ active < i
      BY <1>2, <1>3, <1>5, <1>6, <1>9
    <2>3. tabs'[active] = tabs[active]
      BY <1>2, <2>2
    <2>4. active' \in 0..Len(tabs') /\ active' # 0
      BY <1>3, <2>1, <2>2
    <2>5. \A id \in Range(tabs') : id \in Range(tabs)
      BY <1>2
    <2>6. ShownOK(tabs', life', active', selected')
      BY <1>2, <1>5, <1>9, <2>1, <2>3, <2>4, <2>5 DEF ShownOK
    <2> QED
      BY <1>2, <2>1, <2>3, <2>6
  <1> QED
    BY <1>7, <1>8, <1>9

LEMMA CloseTabSound ==
  ASSUME WindowInv, NEW id, NEW explicit, CloseTab(id, explicit) PROVE WindowInv'
  <1>1. /\ IF hasManager THEN Forget({id}) ELSE UNCHANGED managerVars
        /\ hasManager' = hasManager /\ nextTab' = nextTab
    BY DEF CloseTab
  <1>2. ManagerOK(managed', collections', splits', nextTab', nextSplit')
    <2>1. CASE hasManager
      BY <1>1, <2>1, Forgotten
    <2>2. CASE ~hasManager
      <3>1. ManagerOK(managed, collections, splits, nextTab, nextSplit)
        BY DEF WindowInv
      <3> QED
        BY <1>1, <2>2, <3>1 DEF managerVars
    <2> QED
      BY <2>1, <2>2
  <1>3. TabsOK(tabs', nextTab') /\ ShownOK(tabs', life', active', selected')
    <2>1. CASE id \in Range(tabs)
      <3> DEFINE i == CHOOSE j \in 1..Len(tabs) : tabs[j] = id
      <3>1. tabs' = RemoveAt(tabs, i) /\ AfterErase(tabs', i)
        BY <2>1 DEF CloseTab
      <3>2. i \in 1..Len(tabs)
        BY <2>1, PlaceOfTab
      <3> HIDE DEF i
      <3> QED
        BY <1>1, <3>1, <3>2, ErasedShown
    <2>2. CASE id \notin Range(tabs)
      <3>1. UNCHANGED <<tabs, life, active, selected>>
        BY <2>2 DEF CloseTab
      <3> QED
        BY <1>1, <3>1 DEF WindowInv
    <2> QED
      BY <2>1, <2>2
  <1> QED
    BY <1>1, <1>2, <1>3 DEF WindowInv

\* The operations on the tabs that the manager has no part in.
LEMMA TabsShownSound ==
  ASSUME WindowInv,
         \/ \E id \in TabIds : ActivateTab(id)
         \/ \E id \in TabIds, additive \in BOOLEAN : SelectTab(id, additive)
         \/ ClearSelection
  PROVE  WindowInv'
  <1>1. UNCHANGED <<hasManager, tabs, nextTab, managed, collections, splits, nextSplit>>
    BY DEF ActivateTab, SelectTab, ClearSelection, managerVars
  <1>2. ShownOK(tabs', life', active', selected')
    <2>1. ASSUME NEW id \in TabIds, ActivateTab(id) PROVE ShownOK(tabs', life', active', selected')
      <3> DEFINE i == CHOOSE j \in 1..Len(tabs) : tabs[j] = id
      <3>1. Activate(tabs, i) /\ id \in Range(tabs)
        BY <2>1 DEF ActivateTab
      <3>2. i \in 1..Len(tabs)
        BY <3>1, PlaceOfTab
      <3> HIDE DEF i
      <3>3. ShownOK(tabs, life', active', selected')
        BY <3>1, <3>2, Activated DEF WindowInv
      <3> QED
        BY <1>1, <3>3
    <2>2. ASSUME NEW id \in TabIds, NEW additive \in BOOLEAN, SelectTab(id, additive)
          PROVE  ShownOK(tabs', life', active', selected')
      BY <2>2 DEF SelectTab, WindowInv, ShownOK
    <2>3. ASSUME ClearSelection PROVE ShownOK(tabs', life', active', selected')
      BY <2>3 DEF ClearSelection, WindowInv, ShownOK
    <2> QED
      BY <2>1, <2>2, <2>3
  <1> QED
    BY <1>1, <1>2 DEF WindowInv

\* A field no group or split rests on is rewritten, and nothing else of the manager.
LEMMA RewrittenHarmless ==
  ASSUME WindowInv, NEW S, NEW value, NEW field \in {"protection", "sleeping", "workspace"},
         Rewrite(S, field, value), UNCHANGED <<collections, splits, nextTab, nextSplit>>,
         \A id \in S \cap Known :
           /\ field = "protection" => value[id] \in {"normal", "locked", "protected"}
           /\ field = "sleeping" => value[id] \in BOOLEAN
           /\ field = "workspace" => value[id] \in 0..Len(collections)
  PROVE  ManagerOK(managed', collections', splits', nextTab', nextSplit')
  <1>1. /\ DOMAIN managed' = Known
        /\ \A id \in Known : /\ managed'[id] \in ManagedTab(Len(collections))
                             /\ managed'[id].split = managed[id].split
                             /\ managed'[id].group = managed[id].group
    BY Rewritten
  <1>2. ManagerOK(managed, collections, splits, nextTab, nextSplit)
    BY DEF WindowInv
  <1> QED
    BY <1>1, <1>2 DEF ManagerOK, Known

LEMMA OnSelectionSound ==
  ASSUME WindowInv,
         \/ SleepSelected \/ WakeSelected
         \/ \E p \in {"normal", "locked", "protected"} : GuardSelected(p)
  PROVE  WindowInv'
  <1>1. UNCHANGED <<hasManager, tabs, active, selected, nextTab, collections, splits, nextSplit>>
    BY DEF SleepSelected, WakeSelected, GuardSelected, winVars
  <1>2. ShownOK(tabs', life', active', selected')
    <2>1. CASE SleepSelected
      BY <1>1, <2>1 DEF SleepSelected, WindowInv, ShownOK
    <2>2. CASE WakeSelected
      BY <1>1, <2>2 DEF WakeSelected, WindowInv, ShownOK
    <2>3. ASSUME NEW p \in {"normal", "locked", "protected"}, GuardSelected(p)
          PROVE  ShownOK(tabs', life', active', selected')
      BY <2>3 DEF GuardSelected, WindowInv, winVars
    <2> QED
      BY <2>1, <2>2, <2>3
  <1>3. ManagerOK(managed', collections', splits', nextTab', nextSplit')
    <2>1. CASE SleepSelected
      <3>1. selected \subseteq Known
        BY <2>1 DEF SleepSelected, OnSelection
      <3>2. \A id \in Known : managed[id].sleeping \in BOOLEAN
        BY DEF WindowInv, ManagerOK, ManagedTab, Known
      <3> DEFINE value == [id \in selected |-> managed[id].sleeping \/ id \notin Wakeful]
      <3>3. \A id \in selected \cap Known : value[id] \in BOOLEAN
        BY <3>2
      <3>4. Rewrite(selected, "sleeping", value)
        BY <2>1 DEF SleepSelected
      <3> HIDE DEF value
      <3> QED
        BY <1>1, <3>3, <3>4, RewrittenHarmless
    <2>2. CASE WakeSelected
      <3> DEFINE value == [id \in selected |-> FALSE]
      <3>1. \A id \in selected \cap Known : value[id] \in BOOLEAN
        OBVIOUS
      <3>2. Rewrite(selected, "sleeping", value)
        BY <2>2 DEF WakeSelected
      <3> HIDE DEF value
      <3> QED
        BY <1>1, <3>1, <3>2, RewrittenHarmless
    <2>3. ASSUME NEW p \in {"normal", "locked", "protected"}, GuardSelected(p)
          PROVE  ManagerOK(managed', collections', splits', nextTab', nextSplit')
      <3> DEFINE value == [id \in selected |-> p]
      <3>1. \A id \in selected \cap Known : value[id] \in {"normal", "locked", "protected"}
        OBVIOUS
      <3>2. Rewrite(selected, "protection", value)
        BY <2>3 DEF GuardSelected
      <3> HIDE DEF value
      <3> QED
        BY <1>1, <3>1, <3>2, RewrittenHarmless
    <2> QED
      BY <2>1, <2>2, <2>3
  <1> QED
    BY <1>1, <1>2, <1>3 DEF WindowInv

LEMMA RegisterSound ==
  ASSUME WindowInv, NEW id \in TabIds, Register(id) PROVE WindowInv'
  <1> DEFINE fresh == [protection |-> "normal", sleeping |-> FALSE,
                       group |-> 0, workspace |-> 0, split |-> 0]
  <1>1. /\ DOMAIN managed' = Known \cup {id}
        /\ \A k \in Known \cup {id} : managed'[k] = IF k = id THEN fresh ELSE managed[k]
        /\ id \in Range(tabs)
        /\ UNCHANGED <<hasManager, tabs, life, active, selected, nextTab, collections, splits, nextSplit>>
    BY DEF Register, winVars
  <1>2. ManagerOK(managed, collections, splits, nextTab, nextSplit)
    BY DEF WindowInv
  <1>3. id < nextTab
    BY <1>1 DEF WindowInv, TabsOK, Range
  <1>4. Len(collections) \in Nat
    BY <1>2 DEF ManagerOK
  <1>5. fresh \in ManagedTab(Len(collections)) /\ fresh.split = 0 /\ fresh.group = 0
    BY <1>4 DEF ManagedTab
  <1> HIDE DEF fresh
  <1>6. ManagerOK(managed', collections', splits', nextTab', nextSplit')
    BY <1>1, <1>2, <1>3, <1>5 DEF ManagerOK, Known
  <1> QED
    BY <1>1, <1>6 DEF WindowInv

LEMMA CloseManagedSound ==
  ASSUME WindowInv, NEW S, NEW explicit, CloseManaged(S, explicit) PROVE WindowInv'
  <1>1. Forget(S) /\ UNCHANGED <<hasManager, tabs, life, active, selected, nextTab>>
    BY DEF CloseManaged, winVars
  <1>2. ManagerOK(managed', collections', splits', nextTab', nextSplit')
    BY <1>1, Forgotten
  <1> QED
    BY <1>1, <1>2 DEF WindowInv

LEMMA CreateSound ==
  ASSUME WindowInv, NEW kind \in {"group", "workspace"}, Create(kind) PROVE WindowInv'
  <1> DEFINE c == [kind |-> kind, lists |-> {}]
             Collection == [kind : {"group", "workspace"}, lists : SUBSET TabIds]
  <1>1. /\ collections' = Append(collections, c)
        /\ UNCHANGED <<hasManager, tabs, life, active, selected, nextTab, managed, splits, nextSplit>>
    BY DEF Create, winVars
  <1>2. ManagerOK(managed, collections, splits, nextTab, nextSplit)
    BY DEF WindowInv
  <1>3. c \in Collection /\ collections \in Seq(Collection)
    BY <1>2 DEF ManagerOK
  <1> HIDE DEF c
  <1>4. /\ collections' \in Seq(Collection) /\ Len(collections') = Len(collections) + 1
        /\ \A i \in 1..Len(collections) : collections'[i] = collections[i]
        /\ Len(collections) \in Nat
    BY <1>1, <1>3
  <1>5. ASSUME NEW id \in Known
        PROVE  /\ managed[id] \in ManagedTab(Len(collections'))
               /\ managed[id].group # 0 => id \in collections'[managed[id].group].lists
    <2>1. managed[id] \in ManagedTab(Len(collections)) /\ managed[id].group \in 0..Len(collections)
      BY <1>2 DEF ManagerOK, ManagedTab, Known
    <2>2. managed[id].group # 0 => id \in collections[managed[id].group].lists
      BY <1>2 DEF ManagerOK, Known
    <2>3. managed[id].group # 0 => managed[id].group \in 1..Len(collections)
      BY <1>4, <2>1
    <2>4. ManagedTab(Len(collections)) \subseteq ManagedTab(Len(collections'))
      <3>1. 0..Len(collections) \subseteq 0..Len(collections')
        BY <1>4
      <3> QED
        BY <3>1 DEF ManagedTab
    <2> QED
      BY <1>4, <2>1, <2>2, <2>3, <2>4
  <1>6. ManagerOK(managed', collections', splits', nextTab', nextSplit')
    BY <1>1, <1>2, <1>4, <1>5 DEF ManagerOK, Known
  <1> QED
    BY <1>1, <1>6 DEF WindowInv

LEMMA CollectSound ==
  ASSUME WindowInv, NEW S \in SUBSET TabIds, NEW c, Collect(S, c) PROVE WindowInv'
  <1> DEFINE Collection == [kind : {"group", "workspace"}, lists : SUBSET TabIds]
             value == [id \in S |-> c]
  <1>1. /\ S \subseteq Known /\ c \in 1..Len(collections)
        /\ Rewrite(S, collections[c].kind, value)
        /\ collections' = [collections EXCEPT ![c].lists = @ \cup S]
        /\ UNCHANGED <<hasManager, tabs, life, active, selected, nextTab, splits, nextSplit>>
    BY DEF Collect, winVars
  <1>2. ManagerOK(managed, collections, splits, nextTab, nextSplit)
    BY DEF WindowInv
  <1>3. /\ collections \in Seq(Collection) /\ Len(collections) \in Nat
        /\ collections[c] \in Collection /\ collections[c].kind \in {"group", "workspace"}
    <2>1. collections \in Seq(Collection) /\ Len(collections) \in Nat
      BY <1>2 DEF ManagerOK
    <2>2. c \in 1..Len(collections)
      BY <1>1
    <2> HIDE DEF Collection
    <2>3. collections[c] \in Collection
      BY <2>1, <2>2
    <2> USE DEF Collection
    <2> QED
      BY <2>1, <2>3
  <1>4. /\ collections' \in Seq(Collection) /\ Len(collections') = Len(collections)
        /\ \A i \in 1..Len(collections) : collections[i].lists \subseteq collections'[i].lists
        /\ S \subseteq collections'[c].lists
    <2> DEFINE g == [collections[c] EXCEPT !.lists = @ \cup S]
    <2>1. g \in Collection /\ g.lists = collections[c].lists \cup S
      BY <1>3
    <2>2. collections' = [collections EXCEPT ![c] = g]
      BY <1>1
    <2> HIDE DEF g
    <2> QED
      BY <1>1, <1>3, <2>1, <2>2
  <1>5. \A id \in S \cap Known : value[id] = c /\ c \in 0..Len(collections)
    BY <1>1
  <1> HIDE DEF value
  <1>6. /\ DOMAIN managed' = Known
        /\ \A id \in Known :
             /\ managed'[id] \in ManagedTab(Len(collections))
             /\ managed'[id].split = managed[id].split
             /\ managed'[id].group =
                  IF collections[c].kind = "group" /\ id \in S THEN c ELSE managed[id].group
    <2>1. CASE collections[c].kind = "group"
      BY <1>1, <1>5, <2>1, Rewritten
    <2>2. CASE collections[c].kind = "workspace"
      BY <1>1, <1>5, <2>2, Rewritten
    <2> QED
      BY <1>3, <2>1, <2>2
  <1>7. ASSUME NEW id \in Known, managed'[id].group # 0
        PROVE  id \in collections'[managed'[id].group].lists
    <2>1. CASE managed'[id].group = c /\ id \in S
      BY <1>4, <2>1
    <2>2. CASE managed'[id].group = managed[id].group
      <3>1. managed[id].group \in 1..Len(collections) /\ id \in collections[managed[id].group].lists
        BY <1>2, <1>3, <1>7, <2>2 DEF ManagerOK, ManagedTab, Known
      <3> QED
        BY <1>4, <2>2, <3>1
    <2> QED
      BY <1>6, <2>1, <2>2
  <1>8. ManagerOK(managed', collections', splits', nextTab', nextSplit')
    BY <1>1, <1>2, <1>4, <1>6, <1>7 DEF ManagerOK, Known
  <1> QED
    BY <1>1, <1>8 DEF WindowInv

LEMMA CreateSplitSound ==
  ASSUME WindowInv, NEW S, CreateSplit(S) PROVE WindowInv'
  <1> DEFINE value == [id \in S |-> nextSplit]
  <1>1. /\ S \subseteq Known /\ nextSplit <= MaxSplits /\ nextSplit' = nextSplit + 1
        /\ Rewrite(S, "split", value)
        /\ DOMAIN splits' = DOMAIN splits \cup {nextSplit}
        /\ \A s \in DOMAIN splits \cup {nextSplit} :
             splits'[s] = IF s = nextSplit THEN S ELSE splits[s]
        /\ UNCHANGED <<hasManager, tabs, life, active, selected, nextTab, collections>>
    BY DEF CreateSplit, winVars
  <1>2. ManagerOK(managed, collections, splits, nextTab, nextSplit)
    BY DEF WindowInv
  <1>3. MaxSplits \in Nat /\ nextSplit \in 1..(MaxSplits + 1)
    BY <1>2, WindowAssumption DEF ManagerOK
  <1>4. /\ nextSplit \in Nat /\ nextSplit # 0 /\ nextSplit' \in 1..(MaxSplits + 1)
        /\ 1..(nextSplit - 1) \subseteq 1..(nextSplit' - 1) /\ nextSplit \in 1..(nextSplit' - 1)
        /\ nextSplit \notin 1..(nextSplit - 1)
    BY <1>1, <1>3
  <1>5. DOMAIN splits' \subseteq 1..(nextSplit' - 1) /\ nextSplit \notin DOMAIN splits
    BY <1>1, <1>2, <1>4 DEF ManagerOK
  <1>6. \A id \in S \cap Known : value[id] = nextSplit
    OBVIOUS
  <1> HIDE DEF value
  <1>7. /\ DOMAIN managed' = Known
        /\ \A id \in Known :
             /\ managed'[id] \in ManagedTab(Len(collections))
             /\ managed'[id].split = IF id \in S THEN value[id] ELSE managed[id].split
             /\ managed'[id].group = managed[id].group
    BY <1>1, <1>4, <1>6, Rewritten
  <1>8. ASSUME NEW id \in Known, managed'[id].split # 0
        PROVE  managed'[id].split \in DOMAIN splits' /\ id \in splits'[managed'[id].split]
    <2>1. CASE id \in S
      BY <1>1, <1>6, <1>7, <2>1
    <2>2. CASE id \notin S
      <3>1. managed'[id].split = managed[id].split
        BY <1>7, <2>2
      <3>2. managed[id].split \in DOMAIN splits /\ id \in splits[managed[id].split]
        BY <1>2, <1>8, <3>1 DEF ManagerOK, Known
      <3> QED
        BY <1>1, <1>5, <3>1, <3>2
    <2> QED
      BY <2>1, <2>2
  <1>9. ManagerOK(managed', collections', splits', nextTab', nextSplit')
    BY <1>1, <1>2, <1>4, <1>5, <1>7, <1>8 DEF ManagerOK, Known
  <1> QED
    BY <1>1, <1>9 DEF WindowInv

LEMMA ExitSplitSound ==
  ASSUME WindowInv, NEW s, ExitSplit(s) PROVE WindowInv'
  <1> DEFINE value == [id \in splits[s] |-> 0]
  <1>1. /\ s \in DOMAIN splits /\ Rewrite(splits[s] \cap Known, "split", value)
        /\ DOMAIN splits' = DOMAIN splits \ {s}
        /\ \A t \in DOMAIN splits \ {s} : splits'[t] = splits[t]
        /\ UNCHANGED <<hasManager, tabs, life, active, selected, nextTab, collections, nextSplit>>
    BY DEF ExitSplit, winVars
  <1>2. ManagerOK(managed, collections, splits, nextTab, nextSplit)
    BY DEF WindowInv
  <1>3. \A id \in (splits[s] \cap Known) \cap Known : value[id] = 0
    OBVIOUS
  <1> HIDE DEF value
  <1>4. /\ DOMAIN managed' = Known
        /\ \A id \in Known :
             /\ managed'[id] \in ManagedTab(Len(collections))
             /\ managed'[id].split =
                  IF id \in splits[s] \cap Known THEN value[id] ELSE managed[id].split
             /\ managed'[id].group = managed[id].group
    BY <1>1, <1>3, Rewritten
  <1>5. ASSUME NEW id \in Known, managed'[id].split # 0
        PROVE  managed'[id].split \in DOMAIN splits' /\ id \in splits'[managed'[id].split]
    <2>1. id \notin splits[s] /\ managed'[id].split = managed[id].split
      BY <1>3, <1>4, <1>5
    <2>2. managed[id].split \in DOMAIN splits /\ id \in splits[managed[id].split]
      BY <1>2, <1>5, <2>1 DEF ManagerOK, Known
    <2> QED
      BY <1>1, <2>1, <2>2
  <1>6. ManagerOK(managed', collections', splits', nextTab', nextSplit')
    BY <1>1, <1>2, <1>4, <1>5 DEF ManagerOK, Known
  <1> QED
    BY <1>1, <1>6 DEF WindowInv

----------------------------------------------------------------------------

LEMMA WindowInitInv == ASSUME WindowInit PROVE WindowInv
  <1>1. MaxTabs \in Nat /\ MaxSplits \in Nat
    BY WindowAssumption
  <1>2. Range(tabs) = {} /\ Len(tabs) = 0 /\ tabs \in Seq(TabIds) /\ DOMAIN life = {}
    BY DEF WindowInit, Range
  <1>3. TabsOK(tabs, nextTab) /\ ShownOK(tabs, life, active, selected)
    BY <1>2 DEF WindowInit, TabsOK, ShownOK
  <1>4. ManagerOK(managed, collections, splits, nextTab, nextSplit)
    <2>1. DOMAIN managed = {} /\ DOMAIN splits = {} /\ nextSplit \in 1..(MaxSplits + 1)
      BY <1>1 DEF WindowInit
    <2>2. collections \in Seq([kind : {"group", "workspace"}, lists : SUBSET TabIds])
      BY DEF WindowInit
    <2> QED
      BY <2>1, <2>2 DEF ManagerOK
  <1> QED
    BY <1>1, <1>3, <1>4 DEF WindowInit, WindowInv

LEMMA WindowNextInv == ASSUME WindowInv, [WindowNext]_windowVars PROVE WindowInv'
  <1>1. CASE UNCHANGED windowVars
    BY <1>1 DEF windowVars, winVars, managerVars, WindowInv
  <1>2. CASE NewTab
    BY <1>2, NewTabSound
  <1>3. CASE \/ ClearSelection
             \/ \E id \in TabIds : ActivateTab(id)
             \/ \E id \in TabIds, yes \in BOOLEAN : SelectTab(id, yes)
    BY <1>3, TabsShownSound
  <1>4. CASE \/ SleepSelected \/ WakeSelected
             \/ \E p \in {"normal", "locked", "protected"} : GuardSelected(p)
    BY <1>4, OnSelectionSound
  <1>5. CASE \E kind \in {"group", "workspace"} : Create(kind)
    BY <1>5, CreateSound
  <1>6. CASE \E id \in TabIds, yes \in BOOLEAN : CloseTab(id, yes)
    BY <1>6, CloseTabSound
  <1>7. CASE \E id \in TabIds : Register(id)
    BY <1>7, RegisterSound
  <1>8. CASE \E S \in SUBSET TabIds, yes \in BOOLEAN : CloseManaged(S, yes)
    BY <1>8, CloseManagedSound
  <1>9. CASE \E S \in SUBSET TabIds, c \in 1..MaxCollected : Collect(S, c)
    BY <1>9, CollectSound
  <1>10. CASE \E S \in SUBSET TabIds : CreateSplit(S)
    BY <1>10, CreateSplitSound
  <1>11. CASE \E s \in 1..MaxSplits : ExitSplit(s)
    BY <1>11, ExitSplitSound
  <1> QED
    BY <1>1, <1>2, <1>3, <1>4, <1>5, <1>6, <1>7, <1>8, <1>9, <1>10, <1>11, Zenon DEF WindowNext

THEOREM WindowInvariant == WindowSpec => []WindowInv
  BY WindowInitInv, WindowNextInv, PTL DEF WindowSpec

\* A window has no more tabs than it opened.
LEMMA TabsAreBounded == ASSUME WindowInv PROVE tabs \in BoundedSeq(TabIds, MaxTabs) /\ Len(tabs) \in 0..MaxTabs
  <1>1. tabs \in Seq(TabIds) /\ Len(tabs) \in Nat /\ MaxTabs \in Nat
    BY TabsAreNumbers, WindowAssumption DEF WindowInv
  <1>2. Len(tabs) \in 0..MaxTabs
    <2>1. CASE Len(tabs) = 0
      BY <1>1, <2>1
    <2>2. CASE Len(tabs) # 0
      <3>1. Len(tabs) \in 1..Len(tabs)
        BY <1>1, <2>2
      <3>2. Len(tabs) <= tabs[Len(tabs)] /\ tabs[Len(tabs)] \in 1..MaxTabs
        BY <1>1, <3>1 DEF WindowInv, TabsOK, TabIds
      <3> QED
        BY <1>1, <3>2
    <2> QED
      BY <2>1, <2>2
  <1>3. tabs \in [1..Len(tabs) -> TabIds]
    BY <1>1
  <1> QED
    BY <1>2, <1>3 DEF BoundedSeq, SeqOf

\* A window with tabs has an active one, whatever was closed; its selection is of
\* tabs it has; and the strip draws no tab in a group or split that is gone or
\* lacks it, with any number of tabs, groups, workspaces and splits.
THEOREM WindowStaysSound == WindowSpec => []WindowIsSound
  <1>1. ASSUME WindowInv PROVE WindowIsSound
    <2>1. /\ TabsOK(tabs, nextTab) /\ ShownOK(tabs, life, active, selected)
          /\ ManagerOK(managed, collections, splits, nextTab, nextSplit)
          /\ nextTab \in 1..(MaxTabs + 1)
      BY <1>1 DEF WindowInv
    <2>2. tabs \in Seq(TabIds) /\ Len(tabs) \in Nat
      BY <2>1, TabsAreNumbers
    <2>3. \A id \in Range(tabs) : id \in TabIds
      BY <2>2 DEF Range
    <2>4. WindowTypeOK
      <3>1. tabs \in BoundedSeq(TabIds, MaxTabs)
        BY <1>1, TabsAreBounded
      <3>2. /\ selected \subseteq TabIds /\ DOMAIN life = Range(tabs)
            /\ \A id \in DOMAIN life : life[id] \in {"active", "background", "suspended"}
        BY <2>1, <2>3 DEF ShownOK
      <3>3. active \in 0..MaxTabs
        <4>1. active \in 0..Len(tabs) /\ Len(tabs) <= MaxTabs /\ MaxTabs \in Nat
          <5>1. MaxTabs \in Nat
            BY WindowAssumption
          <5> QED
            BY <1>1, <2>1, <5>1, TabsAreBounded DEF ShownOK
        <4> QED
          BY <2>2, <4>1
      <3>4. \A id \in Known : /\ id < nextTab
                              /\ managed[id].group \in 0..Len(collections)
                              /\ managed[id].workspace \in 0..Len(collections)
        BY <2>1 DEF ManagerOK, ManagedTab, Known
      <3>5. nextSplit \in 1..(MaxSplits + 1)
        BY <2>1 DEF ManagerOK
      <3> QED
        BY <2>1, <3>1, <3>2, <3>3, <3>4, <3>5 DEF WindowTypeOK
    <2>5. ActiveIsShown
      BY <2>1, <2>2 DEF ActiveIsShown, ShownOK
    <2>6. SelectionExists
      BY <2>1, <2>2 DEF SelectionExists, ShownOK, TabsOK, IsInjective
    <2>7. StripIsBacked
      <3>1. Found({}) = Known
        BY DEF Found
      <3>2. ASSUME NEW id \in Range(tabs)
            PROVE  /\ StripItem(id).split = IF id \in Known THEN managed[id].split ELSE 0
                   /\ StripItem(id).group = IF id \in Known THEN managed[id].group ELSE 0
        BY <3>1 DEF StripItem
      <3> QED
        BY <2>1, <3>2 DEF StripIsBacked, ManagerOK, Known
    <2> QED
      BY <2>4, <2>5, <2>6, <2>7 DEF WindowIsSound
  <1> QED
    BY <1>1, WindowInvariant, PTL

\* No operation takes two tabs out of a window, and closing one behind the active
\* tab leaves the same tab active.  Of closing a tab before the active one, which
\* does change the page, it says nothing.
THEOREM OnlyClosedTabGoes == WindowSpec => OnlyTheClosedGoes
  <1> DEFINE Gone == /\ Cardinality(Range(tabs) \ Range(tabs')) <= 1
                     /\ \A i \in 1..Len(tabs) :
                          tabs[i] \notin Range(tabs') /\ active < i => tabs'[active'] = tabs[active]
  <1>1. ASSUME WindowInv, Range(tabs) \subseteq Range(tabs') PROVE Gone
    <2>1. Range(tabs) \ Range(tabs') = {}
      BY <1>1
    <2>2. Cardinality(Range(tabs) \ Range(tabs')) = 0
      BY <2>1, FS_EmptySet
    <2>3. \A i \in 1..Len(tabs) : tabs[i] \in Range(tabs)
      BY <1>1, TabsAreNumbers DEF WindowInv, Range
    <2> QED
      BY <1>1, <2>2, <2>3
  <1>2. ASSUME WindowInv, NEW id, NEW explicit, CloseTab(id, explicit) PROVE Gone
    <2>1. CASE id \notin Range(tabs)
      <3>1. tabs' = tabs
        BY <1>2, <2>1 DEF CloseTab
      <3> QED
        BY <1>1, <1>2, <3>1
    <2>2. CASE id \in Range(tabs)
      <3> DEFINE k == CHOOSE j \in 1..Len(tabs) : tabs[j] = id
      <3>1. tabs' = RemoveAt(tabs, k) /\ AfterErase(tabs', k)
        BY <1>2, <2>2 DEF CloseTab
      <3>2. k \in 1..Len(tabs)
        BY <1>2, <2>2, PlaceOfTab
      <3> HIDE DEF k
      <3>3. Range(tabs') = Range(tabs) \ {tabs[k]}
        BY <1>2, <3>1, <3>2, ClosedTab DEF WindowInv
      <3>4. active < k /\ active # 0 => active' = active /\ tabs'[active] = tabs[active]
        BY <1>2, <3>1, <3>2, ErasedShown
      <3>5. active # 0
        BY <1>2, <3>2 DEF WindowInv, ShownOK
      <3>6. tabs[k] \in Range(tabs)
        BY <1>2, <3>2, TabsAreNumbers DEF WindowInv, Range
      <3>7. Cardinality(Range(tabs) \ Range(tabs')) <= 1
        <4>1. Range(tabs) \ Range(tabs') = {tabs[k]}
          BY <3>3, <3>6
        <4>2. Cardinality(Range(tabs) \ Range(tabs')) = 1
          BY <4>1, FS_Singleton
        <4> QED
          BY <4>2
      <3>8. ASSUME NEW i \in 1..Len(tabs), tabs[i] \notin Range(tabs') /\ active < i
            PROVE  tabs'[active'] = tabs[active]
        <4>1. tabs[i] \in Range(tabs)
          BY <1>2, TabsAreNumbers DEF WindowInv, Range
        <4>2. tabs[i] = tabs[k]
          BY <3>3, <3>8, <4>1
        <4>3. i = k
          BY <1>2, <3>2, <4>2 DEF WindowInv, TabsOK
        <4> QED
          BY <3>4, <3>5, <3>8, <4>3
      <3> QED
        BY <3>7, <3>8
    <2> QED
      BY <2>1, <2>2
  <1>3. ASSUME WindowInv, NewTab PROVE Gone
    <2>1. tabs' = Append(tabs, nextTab)
      BY <1>3 DEF NewTab
    <2>2. tabs \in Seq(TabIds) /\ nextTab \in TabIds
      <3>1. MaxTabs \in Nat /\ MaxManaged \in 0..MaxTabs
        BY WindowAssumption
      <3>2. nextTab \in 1..(MaxTabs + 1) /\ nextTab <= MaxTabs
        BY <1>3, <3>1 DEF NewTab, WindowInv
      <3> QED
        BY <1>3, <3>1, <3>2 DEF TabIds, WindowInv, TabsOK
    <2>3. Range(tabs') = Range(tabs) \cup {nextTab}
      BY <1>3, <2>1, <2>2, OpenedTab DEF WindowInv
    <2> QED
      BY <1>1, <1>3, <2>3
  <1>4. ASSUME WindowInv, WindowNext PROVE Gone
    <2>1. \/ NewTab \/ (\E id \in TabIds, yes \in BOOLEAN : CloseTab(id, yes)) \/ tabs' = tabs
      BY <1>4 DEF WindowNext, ClearSelection, SleepSelected, WakeSelected, Create, SelectTab,
           ActivateTab, Register, GuardSelected, CloseManaged, Collect, CreateSplit, ExitSplit, winVars
    <2>2. CASE tabs' = tabs
      BY <1>1, <1>4, <2>2
    <2> QED
      BY <1>2, <1>3, <1>4, <2>1, <2>2
  <1> HIDE DEF Gone
  <1>5. ASSUME WindowInv, [WindowNext]_windowVars PROVE [Gone]_windowVars
    BY <1>4, <1>5
  <1>6. WindowSpec => [][Gone]_windowVars
    BY <1>5, WindowInvariant, PTL DEF WindowSpec
  <1> QED
    BY <1>6 DEF OnlyTheClosedGoes, Gone
=============================================================================
