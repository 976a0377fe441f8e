---------------------------- MODULE BrowserShell ----------------------------
(***************************************************************************)
(* The browser on Linux: the loop of gtk_linux_runner.hpp and its handlers, *)
(* the window host it drives (gtk_linux_glaze_host.cpp), and the controls  *)
(* that float over the media under the pointer (LiveMediaHoverCoordinator).*)
(* One turn of the loop handles the events of the window, then those of    *)
(* the engine, then shows what the active tab's address has become.        *)
(*                                                                         *)
(* A tab is its address: views are CefView's.  The runner never closes or  *)
(* activates a tab, so that the active one is the last.  The sequence      *)
(* number of a probe is abstracted to which probe, if any, has the newest: *)
(* an answer to any other does nothing.                                    *)
(***************************************************************************)
EXTENDS Naturals, Sequences

CONSTANTS
  WebUrls, InternalUrls,  \* addresses; kHomeUrl and kSettingsUrl are internal
  Media,                  \* things on a page that can be pointed at
  ShellTabs,              \* bound of the tabs ever opened
  SearchUrl               \* where GoreeCloud Search answers, or "" when it is not configured

\* The search, when it is configured, has an address like any other.
ASSUME ShellAssumption ==
  ShellTabs \in Nat \ {0} /\ SearchUrl \in WebUrls \cup InternalUrls \cup {""}

None == [tab |-> 0, media |-> "none"]
Targets == [tab : 1..ShellTabs, media : Media]

VARIABLES
  url,      \* tab -> address its view reports
  screen,   \* [attached, on, surface]: attached_view, engine_surface_attached and
            \* the child of the stack that shows
  hover,    \* [awaited, target, host, popover]: the tab whose probe is newest and
            \* unanswered, current_target_, current_media_target, what the popover shows
  panel,    \* active_panel of the router
  lastUrl,
  dialog,   \* the media action whose dialogs are open: [action, target, shown], where
            \* shown is what the popover showed when it was clicked (history)
  acted,    \* the target of the last action executed, and what was clicked then
  turn      \* where the loop is: "events", "engine" or "stopped"
shellVars == <<url, screen, hover, panel, lastUrl, dialog, acted, turn>>

Active == Len(url)
NoDialog == [action |-> "none", target |-> None, shown |-> None]

----------------------------------------------------------------------------
(* The hover coordinator and the popover                                   *)

\* Mutant: the sequence number does not advance.
InvalidatedOnly(h) == [h EXCEPT !.target = None]

\* invalidate
Invalidated(h) == [h EXCEPT !.awaited = 0, !.target = None]

\* hide: the host's callback runs only when there was a target.
Hidden(h) ==
  IF h.target = None THEN h
  ELSE [h EXCEPT !.target = None, !.host = None, !.popover = None]

\* What hides the page or moves it hides the popover.
Covered(h) == [Invalidated(h) EXCEPT !.popover = None]

----------------------------------------------------------------------------
(* The host                                                                *)

ShowInternal(s) == [s EXCEPT !.surface = "internal"]
ShowPanel(s) == [s EXCEPT !.surface = "panel"]

\* detach_engine_view
Detached(h) == [Covered(h) EXCEPT !.host = None]

\* attach_engine_view: the surface may refuse, and what showed then stays.
Attached(s, t, on) ==
  [attached |-> t, on |-> on, surface |-> IF on THEN "web" ELSE s.surface]

\* An address becomes what the window shows.
Show(u, s, h) ==
  IF u \in InternalUrls
    THEN screen' = ShowInternal(s) /\ hover' = Covered(h)
    ELSE /\ \E on \in BOOLEAN : screen' = Attached(s, Active, on)
         /\ hover' = Detached(h)

----------------------------------------------------------------------------
(* The start: before host.show nothing is realized, so that the view is    *)
(* attached by show.                                                       *)

ShellInit ==
  \E u \in WebUrls \cup InternalUrls, on \in BOOLEAN :
    /\ url = <<u>> /\ lastUrl = u
    /\ screen = IF u \in InternalUrls
                  THEN [attached |-> 0, on |-> FALSE, surface |-> "internal"]
                  ELSE [attached |-> 1, on |-> on, surface |-> "web"]
    /\ hover = [awaited |-> 0, target |-> None, host |-> None, popover |-> None]
    /\ panel = "" /\ dialog = NoDialog /\ acted = [target |-> None, shown |-> None] /\ turn = "events"

----------------------------------------------------------------------------
(* Events of the window                                                    *)

Handles == turn = "events" /\ dialog = NoDialog
Quiet == UNCHANGED <<dialog, acted, turn, lastUrl>>

\* navigate_active: what the view reports changes at once.
Navigated(u) == url' = [url EXCEPT ![Active] = u]

\* The toolbar: home and settings only navigate, the loop shows them; back,
\* forward and refresh ask the engine; every other item opens a panel.
ToolbarGo(u) ==
  Handles /\ panel' = "" /\ Navigated(u) /\ Quiet /\ UNCHANGED <<screen, hover>>

ToolbarEngine ==
  Handles /\ panel' = "" /\ Quiet /\ UNCHANGED <<url, screen, hover>>

ToolbarPanel(p) ==
  /\ Handles /\ panel' = p
  /\ screen' = ShowPanel(screen) /\ hover' = Covered(hover)
  /\ Quiet /\ UNCHANGED url

\* The unified search bar: nothing, an internal address, an address, or a
\* query, for which there is no other search than the configured one.
\* The address an input resolves to; "" for the failure to resolve it.
Resolved(input) == IF input = "query" THEN SearchUrl ELSE input

Search(input) ==
  /\ Handles
  /\ LET u == Resolved(input)
     IN  IF u = ""
           THEN /\ screen' = ShowPanel(screen) /\ hover' = Covered(hover)
                /\ UNCHANGED <<url, panel>>
           ELSE panel' = "" /\ Navigated(u) /\ Show(u, screen, hover)
  /\ Quiet

\* Reader, bookmarks and security controls of the search bar: the panel of the
\* router stays what it was.
SearchControl ==
  /\ Handles /\ screen' = ShowPanel(screen) /\ hover' = Covered(hover)
  /\ Quiet /\ UNCHANGED <<url, panel>>

\* The timer samples the pointer, also while a dialog runs a loop of its own:
\* it has left the content, or the view is asked what is under it.
Tick ==
  /\ turn = "events"
  /\ \/ hover' = Hidden(hover)
     \/ /\ screen.on /\ screen.attached # 0
        /\ hover' = [hover EXCEPT !.awaited = screen.attached]
  /\ UNCHANGED <<url, screen, panel, lastUrl, dialog, acted, turn>>

\* size-allocate
Resize ==
  /\ turn = "events" /\ hover' = Covered(hover)
  /\ UNCHANGED <<url, screen, panel, lastUrl, dialog, acted, turn>>

\* A click in the popover: the target is copied before the first dialog.
Actions == {"search", "open", "open_new_tab", "store"}

ClickAction(a) ==
  /\ Handles /\ hover.popover # None
  /\ dialog' = [action |-> a, target |-> hover.host, shown |-> hover.popover]
  /\ UNCHANGED <<url, screen, hover, panel, lastUrl, acted, turn>>

\* The request holds its own copy of the target.
RequestTarget == dialog.target

\* The dialogs are answered: the action is given up, or executed.  What a
\* visual search or an opened medium navigates to is any address.
Execute ==
  /\ dialog # NoDialog /\ dialog' = NoDialog
  /\ \/ UNCHANGED <<url, screen, hover, panel, acted>>
     \/ /\ acted' = [target |-> RequestTarget, shown |-> dialog.shown]
        /\ \/ /\ dialog.action \in {"search", "open"} /\ panel' = ""
              /\ \E u \in WebUrls : Navigated(u)
              /\ \E on \in BOOLEAN :
                   screen' = ShowPanel(Attached(screen, Active, on))
              /\ hover' = Detached(hover)
           \/ /\ dialog.action = "open_new_tab" /\ Len(url) < ShellTabs
              /\ \E u \in WebUrls : url' = Append(url, u)
              /\ screen' = ShowPanel(screen) /\ hover' = Covered(hover)
              /\ UNCHANGED panel
           \/ /\ dialog.action = "store"
              /\ screen' = ShowPanel(screen) /\ hover' = Covered(hover)
              /\ UNCHANGED <<url, panel>>
  /\ UNCHANGED <<lastUrl, turn>>

\* The window is destroyed, or no event is left.
EndEvents ==
  /\ Handles /\ turn' = "engine"
  /\ UNCHANGED <<url, screen, hover, panel, lastUrl, dialog, acted>>

\* destroy: pump_events returns false, and close detaches the view.
Stop ==
  /\ Handles /\ turn' = "stopped"
  /\ hover' = Detached(hover)
  /\ screen' = [screen EXCEPT !.attached = 0, !.on = FALSE]
  /\ UNCHANGED <<url, panel, lastUrl, dialog, acted>>

----------------------------------------------------------------------------
(* Events of the engine, and the end of the turn                           *)

\* A page moves on by itself, in whatever tab.
PageMoves(t, u) ==
  /\ turn = "engine" /\ t \in 1..Active
  /\ url' = [url EXCEPT ![t] = u]
  /\ UNCHANGED <<screen, hover, panel, lastUrl, dialog, acted, turn>>

\* accept, for the newest probe: of any other nothing is taken.
Accept(m) ==
  /\ turn = "engine" /\ hover.awaited # 0
  /\ LET t == [tab |-> hover.awaited, media |-> m]
         h == [hover EXCEPT !.awaited = 0]
     IN  hover' = IF m = "none" THEN Hidden(h)
                  ELSE [h EXCEPT !.target = t, !.host = t, !.popover = t]
  /\ UNCHANGED <<url, screen, panel, lastUrl, dialog, acted, turn>>

\* The preview asked for cannot be had: a panel says so.
PreviewFails ==
  /\ turn = "engine" /\ acted.target # None
  /\ screen' = ShowPanel(screen) /\ hover' = Covered(hover)
  /\ UNCHANGED <<url, panel, lastUrl, dialog, acted, turn>>

\* The rest of the turn: the downloads panel is drawn again, and an active tab
\* whose address is another than the last seen is shown.
EndTurn ==
  /\ turn = "engine" /\ turn' = "events" /\ lastUrl' = url[Active]
  /\ LET s == IF panel = "downloads" THEN ShowPanel(screen) ELSE screen
         h == IF panel = "downloads" THEN Covered(hover) ELSE hover
     IN  IF url[Active] # lastUrl THEN Show(url[Active], s, h)
         ELSE screen' = s /\ hover' = h
  /\ UNCHANGED <<url, panel, dialog, acted>>

ShellNext ==
  \/ \E u \in InternalUrls : ToolbarGo(u)
  \/ ToolbarEngine \/ SearchControl \/ Tick \/ Resize \/ Execute \/ EndEvents \/ Stop
  \/ \E p \in {"downloads", "privacy-shield"} : ToolbarPanel(p)
  \/ \E i \in WebUrls \cup InternalUrls \cup {"query"} : Search(i)
  \/ \E a \in Actions : ClickAction(a)
  \/ \E t \in 1..ShellTabs, u \in WebUrls : PageMoves(t, u)
  \/ \E m \in Media \cup {"none"} : Accept(m)
  \/ PreviewFails \/ EndTurn

ShellSpec == ShellInit /\ [][ShellNext]_shellVars

----------------------------------------------------------------------------
(* Properties                                                              *)

ShellTypeOK ==
  /\ url \in Seq(WebUrls \cup InternalUrls) /\ Len(url) \in 1..ShellTabs
  /\ screen \in [attached : 0..Active, on : BOOLEAN, surface : {"web", "internal", "panel"}]
  /\ hover \in [awaited : 0..Active, target : Targets \cup {None},
                host : Targets \cup {None}, popover : Targets \cup {None}]
  /\ panel \in {"", "downloads", "privacy-shield"}
  /\ lastUrl \in WebUrls \cup InternalUrls
  /\ dialog \in [action : Actions \cup {"none"}, target : Targets \cup {None},
                 shown : Targets \cup {None}]
  /\ acted \in [target : Targets \cup {None}, shown : Targets \cup {None}]
  /\ turn \in {"events", "engine", "stopped"}

\* The popover only ever shows media of the view that is attached, whatever
\* probes are still to be answered: the host and the coordinator mean the same.
PopoverIsCurrent ==
  hover.popover # None =>
    /\ hover.popover.tab = screen.attached
    /\ hover.target = hover.popover /\ hover.host = hover.popover

\* An action is executed on what the popover showed when it was clicked, although
\* the pointer may leave it and the window may move while the dialogs ask.
ActsOnClicked == acted.target = acted.shown

\* The window is the user's: after it closed nothing is attached, asked or shown.
ClosedIsQuiet ==
  turn = "stopped" =>
    /\ screen.attached = 0 /\ hover.awaited = 0
    /\ hover.popover = None /\ hover.host = None

\* The popover shows media of the attached view only, an action is executed on
\* what was clicked, and after the window closed nothing is asked or shown.
ShellIsCurrent == ShellTypeOK /\ PopoverIsCurrent /\ ActsOnClicked /\ ClosedIsQuiet
=============================================================================
