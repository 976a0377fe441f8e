--------------------------- MODULE BrowserWindow ---------------------------
(***************************************************************************)
(* One browser window (window_controller.hpp) and the tab manager it may   *)
(* have (in_memory_tab_manager.hpp), with the tab strip drawn from both    *)
(* (tab_strip_model.hpp).  The window owns the order of the tabs, the      *)
(* active one and the selection; the manager owns what is known of a tab   *)
(* by its id: protection, sleep, group, workspace and split.  The two are  *)
(* told apart by nothing but the id, and each can be called without the    *)
(* other.                                                                  *)
(*                                                                         *)
(* Left out: pinned and muted, which only the strip shows; recently closed *)
(* tabs, which restore never restores; the URL of a tab (BrowserShell).    *)
(* A group and a workspace are both a collection, which lists its tabs.    *)
(***************************************************************************)
EXTENDS Naturals, FiniteSets, SequencesExt

CONSTANTS
  MaxTabs,      \* bound of the tabs a window without a manager ever opens
  MaxManaged,   \* bound of the tabs a window with a manager ever opens
  MaxCollected, \* bound of the groups and workspaces ever created
  MaxSplits,    \* bound of the splits ever created
  Wakeful       \* ids of tabs that never sleep or play media or download

\* The ids of a managed window are among those of any window.
ASSUME WindowAssumption ==
  /\ MaxTabs \in Nat /\ MaxManaged \in 0..MaxTabs
  /\ MaxCollected \in Nat /\ MaxSplits \in Nat

TabIds == 1..MaxTabs

VARIABLES
  hasManager,  \* whether the window was given a tab manager
  tabs,        \* ids of the window's tabs, in order
  life,        \* id -> TabLifecycleState
  active,      \* active_index_ counted from 1, or 0
  selected,    \* selected_tab_ids_
  nextTab,
  managed,     \* id -> what the manager knows of the tab, for the ids it knows
  collections, \* the groups and workspaces created: [kind, lists]
  splits,      \* split -> tab ids it shows, for the splits that exist
  nextSplit

winVars == <<tabs, life, active, selected, nextTab>>
managerVars == <<managed, collections, splits, nextSplit>>
windowVars == <<hasManager, winVars, managerVars>>

Known == DOMAIN managed

WindowInit ==
  /\ hasManager \in BOOLEAN
  /\ tabs = <<>> /\ life = <<>> /\ active = 0 /\ selected = {} /\ nextTab = 1
  /\ managed = <<>> /\ collections = <<>> /\ splits = <<>> /\ nextSplit = 1

----------------------------------------------------------------------------
(* The window                                                              *)

\* activate: one tab is active, every other one in the background, also one
\* that slept, and the selection is the active tab.
Activate(order, i) ==
  /\ active' = i
  /\ life' = [id \in Range(order) |-> IF id = order[i] THEN "active" ELSE "background"]
  /\ selected' = {order[i]}

NewTab ==
  /\ nextTab <= (IF hasManager THEN MaxManaged ELSE MaxTabs)
  /\ nextTab' = nextTab + 1
  /\ tabs' = Append(tabs, nextTab)
  /\ Activate(tabs', Len(tabs'))
  /\ UNCHANGED <<hasManager, managerVars>>

\* close_tabs of the manager, or its refusal: an unknown tab, or a protected
\* one without explicit consent.
MayClose(S, explicit) ==
  S \subseteq Known /\ (explicit \/ \A id \in S : managed[id].protection # "protected")

Forget(S) ==
  /\ managed' = [id \in Known \ S |-> managed[id]]
  /\ UNCHANGED <<collections, splits, nextSplit>>

\* Mutant: the active index is repaired only when the active tab was closed.
AfterEraseOnlyActive(order, i) ==
  IF order = <<>> THEN active' = 0 /\ life' = <<>> /\ selected' = selected \ {tabs[i]}
  ELSE IF active = 0 \/ i = active
    THEN Activate(order, IF i <= Len(order) THEN i ELSE Len(order))
  ELSE /\ life' = [id \in Range(order) |-> life[id]]
       /\ selected' = selected \ {tabs[i]}
       /\ UNCHANGED active

\* Mutant: the tab at the index of the closed one always becomes active.
AfterEraseJumps(order, i) ==
  IF order = <<>> THEN active' = 0 /\ life' = <<>> /\ selected' = selected \ {tabs[i]}
  ELSE Activate(order, IF i <= Len(order) THEN i ELSE Len(order))

\* What is active after the tab at index i was erased.
AfterErase(order, i) ==
  IF order = <<>> THEN active' = 0 /\ life' = <<>> /\ selected' = selected \ {tabs[i]}
  ELSE IF active = 0 \/ i <= active
    THEN Activate(order, IF i <= Len(order) THEN i ELSE Len(order))
  ELSE /\ life' = [id \in Range(order) |-> life[id]]
       /\ selected' = selected \ {tabs[i]}
       /\ UNCHANGED active

\* close_tab: the manager forgets the tab first, also one the window lacks.
CloseTab(id, explicit) ==
  /\ hasManager => MayClose({id}, explicit)
  /\ IF hasManager THEN Forget({id}) ELSE UNCHANGED managerVars
  /\ IF id \in Range(tabs)
       THEN LET i == CHOOSE j \in 1..Len(tabs) : tabs[j] = id
            IN  tabs' = RemoveAt(tabs, i) /\ AfterErase(tabs', i)
       ELSE UNCHANGED <<tabs, life, active, selected>>
  /\ UNCHANGED <<hasManager, nextTab>>

ActivateTab(id) ==
  /\ id \in Range(tabs)
  /\ Activate(tabs, CHOOSE j \in 1..Len(tabs) : tabs[j] = id)
  /\ UNCHANGED <<hasManager, tabs, nextTab, managerVars>>

SelectTab(id, additive) ==
  /\ id \in Range(tabs)
  /\ selected' = IF additive THEN selected \cup {id} ELSE {id}
  /\ UNCHANGED <<hasManager, tabs, life, active, nextTab, managerVars>>

ClearSelection ==
  /\ selected' = {}
  /\ UNCHANGED <<hasManager, tabs, life, active, nextTab, managerVars>>

\* The manager's tabs with one field of those in S rewritten.
Rewrite(S, field, value) ==
  managed' = [id \in Known |->
                IF id \in S THEN [managed[id] EXCEPT ![field] = value[id]] ELSE managed[id]]

\* An operation on the selection needs a manager that knows all of it.
OnSelection == hasManager /\ selected # {} /\ selected \subseteq Known

\* sleep_selected_tabs: the window suspends the whole selection, the manager
\* only what may sleep.
SleepSelected ==
  /\ OnSelection
  /\ Rewrite(selected, "sleeping",
             [id \in selected |-> managed[id].sleeping \/ id \notin Wakeful])
  /\ life' = [id \in DOMAIN life |-> IF id \in selected THEN "suspended" ELSE life[id]]
  /\ UNCHANGED <<hasManager, tabs, active, selected, nextTab,
                 collections, splits, nextSplit>>

WakeSelected ==
  /\ OnSelection
  /\ Rewrite(selected, "sleeping", [id \in selected |-> FALSE])
  /\ life' = [id \in DOMAIN life |->
       IF id \notin selected THEN life[id]
       ELSE IF active # 0 /\ tabs[active] = id THEN "active" ELSE "background"]
  /\ UNCHANGED <<hasManager, tabs, active, selected, nextTab,
                 collections, splits, nextSplit>>

\* protect_selected_tabs and lock_selected_tabs write the same field.
GuardSelected(protection) ==
  /\ OnSelection
  /\ Rewrite(selected, "protection", [id \in selected |-> protection])
  /\ UNCHANGED <<hasManager, winVars, collections, splits, nextSplit>>

----------------------------------------------------------------------------
(* The manager called on its own                                           *)

\* register_tab, by the window's owner after a tab was opened; a second
\* registration forgets what was known.
Register(id) ==
  /\ hasManager /\ id \in Range(tabs)
  /\ managed' = [k \in Known \cup {id} |->
       IF k = id THEN [protection |-> "normal", sleeping |-> FALSE,
                       group |-> 0, workspace |-> 0, split |-> 0]
       ELSE managed[k]]
  /\ UNCHANGED <<hasManager, winVars, collections, splits, nextSplit>>

CloseManaged(S, explicit) ==
  /\ hasManager /\ S # {} /\ MayClose(S, explicit)
  /\ Forget(S)
  /\ UNCHANGED <<hasManager, winVars>>

\* create_group and create_workspace
Create(kind) ==
  /\ hasManager /\ Len(collections) < MaxCollected
  /\ collections' = Append(collections, [kind |-> kind, lists |-> {}])
  /\ UNCHANGED <<hasManager, winVars, managed, splits, nextSplit>>

\* assign_tabs_to_group and move_tabs_to_workspace: the one the tab leaves goes
\* on listing it.  (A workspace lists a tab moved twice twice; a set here,
\* nothing reads the list.)
Collect(S, c) ==
  /\ hasManager /\ S \subseteq Known /\ c \in 1..Len(collections)
  /\ Rewrite(S, collections[c].kind, [id \in S |-> c])
  /\ collections' = [collections EXCEPT ![c].lists = @ \cup S]
  /\ UNCHANGED <<hasManager, winVars, splits, nextSplit>>

\* create_split: a tab may be in an older split, which goes on showing it.
CreateSplit(S) ==
  /\ hasManager /\ nextSplit <= MaxSplits
  /\ S \subseteq Known /\ Cardinality(S) \in 2..4
  /\ Rewrite(S, "split", [id \in S |-> nextSplit])
  /\ splits' = [s \in DOMAIN splits \cup {nextSplit} |->
                  IF s = nextSplit THEN S ELSE splits[s]]
  /\ nextSplit' = nextSplit + 1
  /\ UNCHANGED <<hasManager, winVars, collections>>

\* exit_split: every tab it shows is in no split any more.
ExitSplit(s) ==
  /\ s \in DOMAIN splits
  /\ Rewrite(splits[s] \cap Known, "split", [id \in splits[s] |-> 0])
  /\ splits' = [t \in DOMAIN splits \ {s} |-> splits[t]]
  /\ UNCHANGED <<hasManager, winVars, collections, nextSplit>>

WindowNext ==
  \/ NewTab \/ ClearSelection \/ SleepSelected \/ WakeSelected
  \/ \E kind \in {"group", "workspace"} : Create(kind)
  \/ \E id \in TabIds, yes \in BOOLEAN : CloseTab(id, yes) \/ SelectTab(id, yes)
  \/ \E id \in TabIds : ActivateTab(id) \/ Register(id)
  \/ \E p \in {"normal", "locked", "protected"} : GuardSelected(p)
  \/ \E S \in SUBSET TabIds :
       \/ \E yes \in BOOLEAN : CloseManaged(S, yes)
       \/ \E c \in 1..MaxCollected : Collect(S, c)
       \/ CreateSplit(S)
  \/ \E s \in 1..MaxSplits : ExitSplit(s)

WindowSpec == WindowInit /\ [][WindowNext]_windowVars

----------------------------------------------------------------------------
(* The tab strip                                                           *)

\* search with the given conditions (the text and the ids of a group or a
\* workspace are conditions of the same kind).
Found(conditions) == {id \in Known : \A c \in conditions :
  CASE c = "sleeping" -> managed[id].sleeping
    [] c = "protected" -> managed[id].protection = "protected"
    [] c = "split" -> managed[id].split # 0}

\* build: what the strip shows of a tab of the window.
StripItem(id) ==
  LET known == id \in Found({})
  IN  [active |-> active # 0 /\ tabs[active] = id,
       selected |-> id \in selected,
       protected |-> known /\ managed[id].protection = "protected",
       group |-> IF known THEN managed[id].group ELSE 0,
       split |-> IF known THEN managed[id].split ELSE 0]

----------------------------------------------------------------------------
(* Properties                                                              *)

\* Every variable keeps its type.
WindowTypeOK ==
  /\ tabs \in BoundedSeq(TabIds, MaxTabs) /\ selected \subseteq TabIds
  /\ DOMAIN life = Range(tabs)
  /\ \A id \in DOMAIN life : life[id] \in {"active", "background", "suspended"}
  /\ active \in 0..MaxTabs /\ nextTab \in 1..(MaxTabs + 1) /\ nextSplit \in 1..(MaxSplits + 1)
  /\ \A id \in Known : /\ id < nextTab
                       /\ managed[id].group \in 0..Len(collections)
                       /\ managed[id].workspace \in 0..Len(collections)

\* A window with tabs has an active one, whatever was closed before, at or
\* behind it, and no other tab is awake as the active one.
ActiveIsShown ==
  /\ active = 0 <=> tabs = <<>>
  /\ active <= Len(tabs)
  /\ \A id \in Range(tabs) : life[id] = "active" => id = tabs[active]

\* What is selected is in the window, each tab of which has an id of its own:
\* an operation on the selection never means a tab that is gone.
SelectionExists == selected \subseteq Range(tabs) /\ IsInjective(tabs)

\* The strip draws a tab inside a group or a split only if that group or split
\* exists and has the tab: a tab taken into a second split, a split left and
\* a second registration leave no tab drawn in a split that is gone.
StripIsBacked ==
  \A id \in Range(tabs) :
    /\ StripItem(id).split # 0 =>
         StripItem(id).split \in DOMAIN splits /\ id \in splits[StripItem(id).split]
    /\ StripItem(id).group # 0 => id \in collections[StripItem(id).group].lists

\* No step takes two tabs out of the window, and closing one that lies behind
\* the active tab leaves the user on the page he is reading.  Closing one before
\* it is not spoken of: the index of the active tab stays, and shows its neighbour.
OnlyTheClosedGoes ==
  [][/\ Cardinality(Range(tabs) \ Range(tabs')) <= 1
     /\ \A i \in 1..Len(tabs) :
          tabs[i] \notin Range(tabs') /\ active < i => tabs'[active'] = tabs[active]]_windowVars

\* A window with tabs has an active one, its selection is of tabs it has, and
\* its strip draws no tab in a group or split that is gone.
WindowIsSound == WindowTypeOK /\ ActiveIsShown /\ SelectionExists /\ StripIsBacked
=============================================================================
