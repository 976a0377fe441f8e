--------------------------- MODULE PrivateSession ---------------------------
(***************************************************************************)
(* Private browsing: the application's engine contexts (application.hpp),  *)
(* the manager's sessions (in_memory_private_browsing.hpp) and the runtime *)
(* that cleans one and closes the other (private_session_runtime.hpp,      *)
(* private_cleanup_controller.hpp), with the permission store and the      *)
(* download policy of a session.  A session lives in two places that know  *)
(* nothing of each other but its id, and ending it is a chain of calls     *)
(* each of which may fail.                                                 *)
(*                                                                         *)
(* The engine is external: either CEF, whose context clears what           *)
(* cef_runtime.cpp clears, or one that keeps the interface's promise, where *)
(* each call clears all it was asked for or reports a failure.             *)
(*                                                                         *)
(* Cookies, site storage and history are one class here, "site": each has  *)
(* a call of its own, and the calls differ in nothing else.                *)
(*                                                                         *)
(* Left out: the counters, which nothing increments, and the sites, which  *)
(* nothing adds; a lock changes nothing but its own flag.                  *)
(***************************************************************************)
EXTENDS Naturals, FiniteSets

CONSTANTS
  MaxSessions,   \* bound of the sessions the manager ever creates
  Downloads,     \* ids of private downloads
  Grants         \* what a permission is asked for: an origin and a kind

\* 0 is "shared-private", a context without a session of the manager.
SessionIds == 0..MaxSessions

\* What a context holds, by what clears it.
DataClasses == {"site", "cache"}
Classes == DataClasses \cup {"authentication", "permissions"}

VARIABLES
  engine,     \* the engine of this build
  running,    \* initialized_
  contexts,   \* ids with an engine context: private_contexts_
  windows,    \* ids whose context a window refers to
  held,       \* id -> what its context holds; what it left, once it is gone
  sessions,   \* ids of sessions_ of the manager
  present,    \* id -> the flags of the manager still set
  nextId,
  granted,    \* <<session, grant, decision>> of the permission store
  downloads,  \* id -> [session, disposition], the records
  files,      \* downloads whose file exists
  told        \* whether the last close of downloads reported success

appVars == <<engine, running, contexts, windows, held>>
manVars == <<sessions, present, nextId>>
sideVars == <<granted, downloads, files, told>>
privateVars == <<appVars, manVars, sideVars>>

PrivateInit ==
  /\ engine \in {"cef", "conforming"} /\ running = TRUE
  /\ contexts = {} /\ windows = {} /\ held = [s \in SessionIds |-> {}]
  /\ sessions = {} /\ present = [s \in SessionIds |-> {}] /\ nextId = 1
  /\ granted = {} /\ downloads = <<>> /\ files = {} /\ told = TRUE

----------------------------------------------------------------------------
(* The application                                                         *)

\* new_private_window, which creates the context of its session if need be; the
\* engine may fail to.
NewPrivateWindow(s) ==
  /\ running
  /\ contexts' = contexts \cup {s} /\ windows' = windows \cup {s}
  /\ UNCHANGED <<engine, running, held, manVars, sideVars>>

\* shutdown: the windows go before the contexts; then initialize again.
Shutdown ==
  /\ running /\ running' = FALSE
  /\ contexts' = {} /\ windows' = {} /\ held' = [s \in SessionIds |-> {}]
  /\ UNCHANGED <<engine, manVars, sideVars>>

Initialize ==
  /\ ~running /\ running' = TRUE
  /\ UNCHANGED <<engine, contexts, windows, held, manVars, sideVars>>

\* A page of the session leaves something behind.
Browse(s, class) ==
  /\ s \in contexts /\ held' = [held EXCEPT ![s] = @ \cup {class}]
  /\ UNCHANGED <<engine, running, contexts, windows, manVars, sideVars>>

----------------------------------------------------------------------------
(* The engine's context                                                    *)

\* One call to clear these classes: the classes it clears and whether it
\* reports success.
Clearings(classes) ==
  IF engine = "conforming" THEN {[gone |-> classes, ok |-> TRUE], [gone |-> {}, ok |-> FALSE]}
  ELSE IF classes = {"permissions"} THEN {[gone |-> {}, ok |-> FALSE]}
  ELSE {[gone |-> classes \cap {"cache", "authentication"}, ok |-> TRUE]}

\* Mutant: the permissions are forgotten.
WipesWithoutPermissions ==
  {[gone |-> a.gone \cup IF a.ok THEN b.gone ELSE {}, ok |-> a.ok /\ b.ok] :
     a \in Clearings(DataClasses), b \in Clearings({"authentication"})}

\* clear_everything of the cleanup controller: three calls, each made only if
\* the one before reported success.
Wipes ==
  {[gone |-> a.gone \cup (IF a.ok THEN b.gone ELSE {})
                    \cup (IF a.ok /\ b.ok THEN c.gone ELSE {}),
    ok |-> a.ok /\ b.ok /\ c.ok] :
     a \in Clearings(DataClasses), b \in Clearings({"authentication"}),
     c \in Clearings({"permissions"})}

----------------------------------------------------------------------------
(* The manager and the runtime                                             *)

CreateSession ==
  /\ nextId <= MaxSessions
  /\ sessions' = sessions \cup {nextId} /\ nextId' = nextId + 1
  /\ present' = [present EXCEPT ![nextId] = Classes \cup {"search"}]
  /\ UNCHANGED <<appVars, sideVars>>

\* The manager drops flags of a session it knows.
Drop(s, classes) ==
  /\ present' = [present EXCEPT ![s] = IF s \in sessions THEN @ \ classes ELSE @]
  /\ UNCHANGED <<sessions, nextId>>

\* Mutant: the manager is told whatever the engine reported.
ClearAnyway(s, class) ==
  /\ running /\ s \in contexts
  /\ \E r \in Clearings({class}) :
       /\ held' = [held EXCEPT ![s] = @ \ r.gone]
       /\ Drop(s, {class})
  /\ UNCHANGED <<engine, running, contexts, windows, sideVars>>

\* clear_cookies, clear_cache, clear_site_storage, clear_history,
\* clear_authentication, clear_permissions: the engine first, and the manager
\* only if it reported success.
Clear(s, class) ==
  /\ running /\ s \in contexts
  /\ \E r \in Clearings({class}) :
       /\ held' = [held EXCEPT ![s] = @ \ r.gone]
       /\ IF r.ok THEN Drop(s, {class}) ELSE UNCHANGED manVars
  /\ UNCHANGED <<engine, running, contexts, windows, sideVars>>

\* clear_search_state has no counterpart in the engine.
ClearSearch(s) ==
  /\ s \in sessions /\ Drop(s, {"search"})
  /\ UNCHANGED <<appVars, sideVars>>

ClearEverything(s) ==
  /\ running /\ s \in contexts
  /\ \E r \in Wipes :
       /\ held' = [held EXCEPT ![s] = @ \ r.gone]
       /\ IF r.ok THEN Drop(s, Classes \cup {"search"}) ELSE UNCHANGED manVars
  /\ UNCHANGED <<engine, running, contexts, windows, sideVars>>

\* Mutant: the session is forgotten before the engine was asked.
CloseAndForgetFirst(s) ==
  /\ running /\ s \in contexts \cap sessions
  /\ sessions' = sessions \ {s} /\ UNCHANGED <<present, nextId>>
  /\ \E r \in Wipes :
       /\ contexts' = IF r.ok THEN contexts \ {s} ELSE contexts
       /\ held' = [held EXCEPT ![s] = @ \ r.gone]
  /\ UNCHANGED <<engine, running, windows, sideVars>>

\* close_and_forget: clear everything, forget the session, destroy the context;
\* a window of the session goes on referring to it.
CloseAndForget(s) ==
  /\ running /\ s \in contexts
  /\ \E r \in Wipes :
       /\ held' = [held EXCEPT ![s] = @ \ r.gone]
       /\ IF r.ok /\ s \in sessions
            THEN contexts' = contexts \ {s} /\ sessions' = sessions \ {s}
            ELSE UNCHANGED <<contexts, sessions>>
  /\ UNCHANGED <<engine, running, windows, present, nextId, sideVars>>

\* close_and_forget_window and close_and_forget_session of the window's
\* controller ask the manager only.
ForgetByWindow(s) ==
  /\ s \in sessions /\ sessions' = sessions \ {s}
  /\ UNCHANGED <<appVars, present, nextId, sideVars>>

----------------------------------------------------------------------------
(* Permissions and downloads of a session                                  *)

Permit(s, g, decision) ==
  /\ granted' = {p \in granted : ~(p[1] = s /\ p[2] = g)} \cup {<<s, g, decision>>}
  /\ UNCHANGED <<appVars, manVars, downloads, files, told>>

ConsumeOnce(s, g) ==
  /\ <<s, g, "once">> \in granted /\ granted' = granted \ {<<s, g, "once">>}
  /\ UNCHANGED <<appVars, manVars, downloads, files, told>>

\* forget_origin with the grants of one origin, forget_session with all
ForgetGrants(s, gone) ==
  /\ granted' = {p \in granted : ~(p[1] = s /\ p[2] \in gone)}
  /\ UNCHANGED <<appVars, manVars, downloads, files, told>>

\* register_download, once its file is there; the disposition is chosen later.
RegisterDownload(d, s) ==
  /\ d \notin DOMAIN downloads /\ d \notin files
  /\ downloads' = [e \in DOMAIN downloads \cup {d} |->
                     IF e = d THEN [session |-> s, disposition |-> "undecided"]
                     ELSE downloads[e]]
  /\ files' = files \cup {d}
  /\ UNCHANGED <<appVars, manVars, granted, told>>

ChooseDisposition(d, disposition) ==
  /\ d \in DOMAIN downloads
  /\ downloads' = [downloads EXCEPT ![d].disposition = disposition]
  /\ UNCHANGED <<appVars, manVars, granted, files, told>>

OfSession(s) == {d \in DOMAIN downloads : downloads[d].session = s}
ToDelete(s) == {d \in OfSession(s) : downloads[d].disposition = "delete"}

\* close_session: every file to delete is tried, every record goes, and one
\* failure makes the whole a failure.
CloseDownloads(s) ==
  \E deleted \in SUBSET ToDelete(s) :
    /\ files' = files \ deleted
    /\ downloads' = [d \in DOMAIN downloads \ OfSession(s) |-> downloads[d]]
    /\ told' = (deleted = ToDelete(s))
    /\ UNCHANGED <<appVars, manVars, granted>>

SessionNext ==
  \/ Shutdown \/ Initialize \/ CreateSession
  \/ \E s \in SessionIds :
       \/ NewPrivateWindow(s) \/ ClearSearch(s) \/ ClearEverything(s)
       \/ CloseAndForget(s) \/ ForgetByWindow(s)
       \/ \E class \in Classes : Browse(s, class) \/ Clear(s, class)

StoreNext ==
  \/ \E s \in SessionIds :
       \/ CloseDownloads(s)
       \/ \E g \in Grants, d \in {"once", "session", "block"} : Permit(s, g, d)
       \/ \E g \in Grants : ConsumeOnce(s, g)
       \/ \E gone \in SUBSET Grants : ForgetGrants(s, gone)
       \/ \E d \in Downloads : RegisterDownload(d, s)
  \/ \E d \in Downloads, p \in {"keep", "delete"} : ChooseDisposition(d, p)

PrivateNext == SessionNext \/ StoreNext

PrivateSpec == PrivateInit /\ [][PrivateNext]_privateVars

----------------------------------------------------------------------------
(* Properties                                                              *)

PrivateTypeOK ==
  /\ running \in BOOLEAN /\ contexts \subseteq SessionIds /\ windows \subseteq SessionIds
  /\ \A s \in SessionIds : held[s] \subseteq Classes
  /\ sessions \subseteq 1..(nextId - 1)
  /\ files \subseteq Downloads /\ DOMAIN downloads \subseteq files

\* A context is destroyed only when nothing is left in it, not a permission nor
\* a login, whichever call the engine refused on the way.
NothingOutlives == \A s \in SessionIds : s \notin contexts => held[s] = {}

\* A session whose closing failed can be closed again: the manager forgets it
\* together with its context, except when only its window was told to, which
\* leaves a context the runtime can never destroy.
RetryRemains ==
  [][\A s \in sessions \ sessions' : s \in contexts' => ForgetByWindow(s)]_privateVars

\* The manager says a class of data is gone only in a step that took it from
\* the engine as well.
ManagerNeverAhead ==
  [][engine = "conforming" =>
       \A s \in contexts : \A c \in Classes :
         c \in present[s] \ present'[s] => c \notin held'[s]]_privateVars

\* A file the user wanted deleted with its session, and that is still there
\* when its record is gone, was reported.
SurvivorReported ==
  [][\A d \in DOMAIN downloads \ DOMAIN downloads' :
       downloads[d].disposition = "delete" /\ d \in files' => ~told']_privateVars
=============================================================================
