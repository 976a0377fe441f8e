----------------------------- MODULE MCFrontEnd -----------------------------
(***************************************************************************)
(* Checks the parts of the browser the user sees, and what they keep of    *)
(* his session: a window, the recovery of a session, private browsing, a   *)
(* view of the engine, the shell with its hover controls, and              *)
(* synchronization.  In the code they share no state, so that a behaviour  *)
(* here is one of one of them, "part"; the others stand still.             *)
(***************************************************************************)
EXTENDS BrowserWindow, SessionRecovery, PrivateSession, CefView, BrowserShell, SyncExchange

VARIABLE part

frontVars == <<part, windowVars, recoveryVars, privateVars, viewVars, shellVars, syncVars>>

RecoveredTab(id, isActive) == [id |-> id, active |-> isActive]
Recovered(id, mode, its, activeTab) ==
  [id |-> id, mode |-> mode, tabs |-> its, active |-> activeTab]

\* A good window, one that shares a tab with it, a private one, and one of the
\* first one's id with two active tabs, neither of which is the one it names.
FourWindows ==
  {Recovered("w1", "normal", <<RecoveredTab(1, TRUE), RecoveredTab(2, FALSE)>>, 1),
   Recovered("w2", "normal", <<RecoveredTab(2, FALSE)>>, 0),
   Recovered("w3", "private", <<RecoveredTab(4, TRUE)>>, 4),
   Recovered("w1", "normal", <<RecoveredTab(5, TRUE), RecoveredTab(6, TRUE)>>, 4)}

Parts == {"window", "recovery", "private", "stores", "view", "shell", "sync"}

\* What stands still does so in one of its initial states.
FrontInit ==
  /\ part \in Parts
  /\ WindowInit /\ RecoveryInit /\ PrivateInit /\ ViewInit /\ ShellInit /\ SyncInit
  /\ part # "window" => hasManager
  /\ part # "private" => engine = "cef"
  /\ part # "view" => viewUrl = "u1"
  /\ part # "shell" => url = <<"w1">> /\ screen.on
  /\ part # "sync" => server = {} /\ honest

FrontNext ==
  /\ UNCHANGED part
  /\ \/ part = "window" /\ WindowNext
        /\ UNCHANGED <<recoveryVars, privateVars, viewVars, shellVars, syncVars>>
     \/ part = "recovery" /\ RecoveryNext
        /\ UNCHANGED <<windowVars, privateVars, viewVars, shellVars, syncVars>>
     \/ part = "private" /\ SessionNext
        /\ UNCHANGED <<windowVars, recoveryVars, viewVars, shellVars, syncVars>>
     \/ part = "stores" /\ StoreNext
        /\ UNCHANGED <<windowVars, recoveryVars, viewVars, shellVars, syncVars>>
     \/ part = "view" /\ ViewNext
        /\ UNCHANGED <<windowVars, recoveryVars, privateVars, shellVars, syncVars>>
     \/ part = "shell" /\ ShellNext
        /\ UNCHANGED <<windowVars, recoveryVars, privateVars, viewVars, syncVars>>
     \/ part = "sync" /\ SyncNext
        /\ UNCHANGED <<windowVars, recoveryVars, privateVars, viewVars, shellVars>>

FrontSpec == FrontInit /\ [][FrontNext]_frontVars
=============================================================================
