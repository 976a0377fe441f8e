-------------------------- MODULE SessionRecovery --------------------------
(***************************************************************************)
(* Session recovery (session_recovery.hpp): the coordinator that strips a  *)
(* snapshot of the open windows of everything private, refuses an          *)
(* ill-formed one, writes it to a store, and after a start offers the      *)
(* newest one unless the session before ended cleanly.  The store is not   *)
(* trusted: it may fail to write, and hold what the coordinator never      *)
(* wrote (an older build, another program).                                *)
(*                                                                         *)
(* A snapshot is [id, exit, windows]; its time is abstracted to whether it *)
(* is set, and URLs, titles, groups and pins are left out.                 *)
(***************************************************************************)
EXTENDS Naturals, FiniteSets, SequencesExt, Filtering

CONSTANTS
  CheckpointIds,      \* valid checkpoint identifiers
  Windows,            \* RecoverableWindow: [id, mode, tabs, active], where
                      \* tabs is a sequence of [id, active] and active an id or 0
  MaxWindows,         \* kMaxRecoveryWindows
  MaxTabsPerWindow,   \* kMaxRecoveryTabsPerWindow
  MaxTotalTabs,       \* kMaxRecoveryTotalTabs
  MaxStored,          \* bound of the snapshots in the store
  PersistNormal,      \* SessionRecoveryPolicy::persist_normal_windows
  MaxCheckpoints      \* SessionRecoveryPolicy::max_checkpoints

\* RecoverableWindow and RecoverableTab
ASSUME RecoveryAssumption ==
  /\ MaxWindows \in Nat
  /\ Windows \subseteq
       [id : STRING, mode : STRING,
        tabs : Seq([id : Nat, active : BOOLEAN]), active : Nat]

VARIABLES
  stored,    \* the store, oldest first
  lastCall   \* what happened to the store last: the call, or what is not a call
recoveryVars == <<stored, lastCall>>

Snapshots == [id : CheckpointIds \cup {"invalid"},
              exit : {"running", "clean", "unclean"},
              windows : BoundedSeq(Windows, MaxWindows + 1)]

RecoveryInit == stored = <<>> /\ lastCall = "none"

----------------------------------------------------------------------------
ShouldPersist(mode) == mode = "normal" /\ PersistNormal

\* sanitize_for_persistence
Sanitized(c) ==
  [c EXCEPT !.windows = Filtered(@, {w \in Windows : ShouldPersist(w.mode)})]

\* The tabs of all windows, as the places <<window, tab>> where they are.
TabPlaces(c) == UNION {{i} \X DOMAIN c.windows[i].tabs : i \in DOMAIN c.windows}
TabAt(c, p) == c.windows[p[1]].tabs[p[2]]

ActiveTabs(w) == {i \in DOMAIN w.tabs : w.tabs[i].active}

\* What valid_checkpoint asks of one window by itself.
WindowOk(w) ==
  /\ w.id # "" /\ Len(w.tabs) <= MaxTabsPerWindow
  /\ Cardinality(ActiveTabs(w)) <= 1
  /\ w.active # 0 =>
       /\ \E i \in DOMAIN w.tabs : w.tabs[i].id = w.active
       /\ \A i \in ActiveTabs(w) : w.tabs[i].id = w.active

\* Mutant: the tabs are compared within each window only.
ValidPerWindow(c) ==
  /\ c.id # "invalid" /\ Len(c.windows) <= MaxWindows
  /\ \A i \in DOMAIN c.windows : WindowOk(c.windows[i])
  /\ IsInjective([i \in DOMAIN c.windows |-> c.windows[i].id])
  /\ Cardinality(TabPlaces(c)) <= MaxTotalTabs
  /\ \A i \in DOMAIN c.windows :
       IsInjective([j \in DOMAIN c.windows[i].tabs |-> c.windows[i].tabs[j].id])

\* valid_checkpoint
Valid(c) ==
  /\ c.id # "invalid" /\ Len(c.windows) <= MaxWindows
  /\ \A i \in DOMAIN c.windows : WindowOk(c.windows[i])
  /\ IsInjective([i \in DOMAIN c.windows |-> c.windows[i].id])
  /\ Cardinality(TabPlaces(c)) <= MaxTotalTabs
  /\ \A p, q \in TabPlaces(c) : TabAt(c, p).id = TabAt(c, q).id => p = q

\* persist_sanitized: the store writes it, or fails.
Persist(c) ==
  /\ Len(stored) < MaxStored /\ Valid(Sanitized(c))
  /\ stored' = Append(stored, Sanitized(c))

\* checkpoint, mark_clean_shutdown, mark_unclean_shutdown
Call(exit, c) == Persist([c EXCEPT !.exit = exit]) /\ lastCall' = exit

\* discard: the store erases the snapshots of that id.
Discard(id) ==
  /\ id # "invalid"
  /\ stored' = Filtered(stored, {c \in Range(stored) : c.id # id})
  /\ lastCall' = IF stored' = stored THEN lastCall ELSE "discard"

\* The store is written by somebody else.
Tamper(c) ==
  /\ Len(stored) < MaxStored
  /\ stored' = Append(stored, c) /\ lastCall' = "tamper"

RecoveryNext ==
  \/ Len(stored) < MaxStored /\ \E c \in Snapshots : Call(c.exit, c) \/ Tamper(c)
  \/ \E id \in CheckpointIds : Discard(id)

RecoverySpec == RecoveryInit /\ [][RecoveryNext]_recoveryVars

----------------------------------------------------------------------------
\* latest_candidate, as the set of what it offers: only the newest snapshot
\* is looked at, and it is sanitized and validated again.
Candidate ==
  IF MaxCheckpoints = 0 \/ stored = <<>> THEN {}
  ELSE LET c == Sanitized(Last(stored))
       IN  IF Valid(c) /\ c.exit # "clean" /\ c.windows # <<>> THEN {c} ELSE {}

----------------------------------------------------------------------------
(* Properties                                                              *)

\* Whatever the store holds, also what the coordinator never wrote, what is
\* offered has no private window, no tab twice, no window with two active
\* tabs, and an active tab that exists.
OfferIsSound ==
  \A c \in Candidate :
    /\ \A i \in DOMAIN c.windows : c.windows[i].mode = "normal"
    /\ \A i, j \in DOMAIN c.windows :
         /\ i # j => {t.id : t \in Range(c.windows[i].tabs)}
                       \cap {t.id : t \in Range(c.windows[j].tabs)} = {}
         /\ Cardinality({t.id : t \in Range(c.windows[i].tabs)}) = Len(c.windows[i].tabs)
         /\ Cardinality(ActiveTabs(c.windows[i])) <= 1
         /\ c.windows[i].active \in {t.id : t \in Range(c.windows[i].tabs)} \cup {0}

\* After a clean end nothing is offered, until a session is recorded that did
\* not end, or a snapshot is discarded.
CleanEndIsQuiet == lastCall = "clean" => Candidate = {}

\* What is offered after a start is sound and not private, whatever the store
\* holds, and after a clean end nothing is offered.
RecoveryIsSound == OfferIsSound /\ CleanEndIsQuiet
=============================================================================
