---------------------------- MODULE MediaActions ----------------------------
(***************************************************************************)
(* What an action on the media under the pointer may do: the target made   *)
(* of a hit (media_target_detector.hpp), the actions offered for it and    *)
(* the policy of the site (media_hover.hpp, media_hover_ui.hpp), the       *)
(* questions the runner asks (gtk_linux_runner.hpp), the executor          *)
(* (media_action_executor.hpp) and its backend                             *)
(* (browser_media_action_backend.hpp).                                     *)
(*                                                                         *)
(* An execution is abstracted to what it touches: "search" sends the       *)
(* medium to GoreeCloud Search, "store" hands it to a service, "enqueue"   *)
(* downloads it; "none" is a denial or an action nobody implements.        *)
(***************************************************************************)
EXTENDS FiniteSets

SearchActions == {"search", "search_similar", "search_region", "search_frame"}
SaveActions == {"save", "download_media", "save_region", "save_frame"}
AiActions == {"ask_goreecloud_ai", "ask_ai", "describe_media"}
OcrActions == {"extract_text", "ocr", "translate_text", "read_aloud"}
ServiceActions == {"save_to_drive", "save_to_photos", "save_to_video",
                   "save_to_notes", "save_to_memos", "create_task"}
CopyActions == {"copy_media", "copy_media_url", "copy_region", "copy_frame", "copy_link"}
OpenActions == {"open_media", "open_media_new_tab", "open_link", "open_link_new_tab"}
OtherActions == {"preview", "more", "select_region", "media_details",
                 "security_details", "save_link", "inspect_media"}
MediaActionNames == UNION {SearchActions, SaveActions, AiActions, OcrActions,
                           ServiceActions, CopyActions, OpenActions, OtherActions}

SaveDestinations == {"local_device", "goreecloud_drive", "goreecloud_photos", "goreecloud_video"}

Hits == [link : BOOLEAN, downloadable : BOOLEAN,
         copyable : BOOLEAN, capturable : BOOLEAN, protected : BOOLEAN, drm : BOOLEAN]

SitePolicies == [enabled : BOOLEAN, basic : BOOLEAN, visual_search : BOOLEAN,
                 ai : BOOLEAN, ocr : BOOLEAN, remote : BOOLEAN]

\* The answers of the user to what the runner may ask; "cancel" is no
\* destination.
Answers == [privacy : BOOLEAN, persistence : BOOLEAN,
            destination : SaveDestinations \cup {"cancel"}]

----------------------------------------------------------------------------
\* normalize, for a hit on media; regions, text and visual search are taken to
\* be possible on every medium.
Target(hit) ==
  [link |-> hit.link,
   download |-> hit.downloadable /\ ~hit.protected /\ ~hit.drm,
   copy |-> hit.copyable,
   frame |-> hit.capturable /\ ~hit.drm,
   protected |-> hit.protected \/ hit.drm]

\* actions_for
Given(condition, actions) == IF condition THEN actions ELSE {}

ActionsFor(t, policy) ==
  IF ~policy.enabled THEN {}
  ELSE IF policy.basic
    THEN {"preview", "save", "more"} \cup Given(policy.visual_search, {"search"})
  ELSE UNION {
    {"preview", "save", "open_media", "open_media_new_tab", "media_details",
     "save_to_notes", "save_to_memos", "create_task", "security_details", "inspect_media",
     "select_region", "search_region", "copy_region", "save_region"},
    Given(policy.visual_search, {"search", "search_similar"}),
    Given(t.copy, {"copy_media", "copy_media_url"}),
    Given(t.download /\ ~t.protected, {"download_media"}),
    Given(t.frame /\ ~t.protected, {"search_frame", "copy_frame", "save_frame"}),
    Given(policy.ocr, OcrActions),
    Given(policy.ai, {"ask_goreecloud_ai", "describe_media"}),
    Given(t.link, {"open_link", "open_link_new_tab", "copy_link", "save_link"})}

\* The enabled buttons of the popover; "more" only unfolds it.
Clickable(t, policy) == Given(policy.enabled, ActionsFor(t, policy) \ {"more"})

\* decide
Decide(action, hosted, policy) ==
  /\ action \in SearchActions => policy.visual_search
  /\ action \in AiActions => policy.ai
  /\ action \in OcrActions => policy.ocr
  /\ hosted => policy.remote

----------------------------------------------------------------------------
\* The request the runner makes of a click and the answers to its questions;
\* "given up" when one of them is no.
GivenUp == [action |-> "more", hosted |-> FALSE, privacy |-> FALSE,
            destination |-> "none", persistence |-> FALSE]

Asked(action, a) ==
  LET request == [GivenUp EXCEPT !.action = action]
  IN  IF action \in SearchActions
        THEN IF a.privacy THEN [request EXCEPT !.hosted = TRUE, !.privacy = TRUE] ELSE GivenUp
      ELSE IF action \in SaveActions
        THEN IF a.destination = "cancel" THEN GivenUp
             ELSE IF a.destination = "local_device"
               THEN [request EXCEPT !.destination = a.destination]
             ELSE IF ~a.persistence THEN GivenUp
             ELSE [request EXCEPT !.destination = a.destination, !.persistence = TRUE]
      ELSE IF action \in ServiceActions
        THEN IF a.persistence THEN [request EXCEPT !.persistence = TRUE] ELSE GivenUp
      ELSE request

\* What extraction of protected media is.
Extraction == {"download_media", "copy_frame", "save_frame", "search_frame",
               "save_region", "copy_region"}

RemoteProcessing == SearchActions \cup (OcrActions \ {"read_aloud"}) \cup AiActions

Synchronized(request) == request.destination \notin {"none", "local_device"}

\* Mutant: a remote action needs no authorization of its own.
DeniedUnasked(request, t, policy) ==
  \/ request.action \in RemoteProcessing /\ ~Decide(request.action, request.hosted, policy)
  \/ t.protected /\ request.action \in Extraction
  \/ request.action \in ServiceActions /\ ~request.persistence

\* The denials of the executor.
Denied(request, t, policy) ==
  \/ /\ request.action \in RemoteProcessing
     /\ \/ ~Decide(request.action, request.hosted, policy)
        \/ request.hosted /\ ~request.privacy
  \/ t.protected /\ request.action \in Extraction
  \/ Synchronized(request) /\ ~request.persistence
  \/ request.action \in ServiceActions /\ ~request.persistence

\* save of the backend
Saved(request, t) ==
  IF Synchronized(request) THEN "store"
  ELSE IF request.destination = "none" \/ ~t.download \/ t.protected THEN "none"
  ELSE "enqueue"

\* copy and open of the backend
Copied(request, t) == IF request.action = "copy_link" /\ ~t.link THEN "none" ELSE "copy"

Opened(request) ==
  IF request.action \in {"open_media_new_tab", "open_link_new_tab"} THEN "new tab" ELSE "navigate"

\* send_to_service of the backend: each of these actions has a service of its own.
Serviced(request) == IF request.action \in ServiceActions THEN "store" ELSE "none"

\* execute: what the action touches.
Effect(request, t, policy) ==
  IF Denied(request, t, policy) THEN "none"
  ELSE IF request.action \in SearchActions THEN "search"
  ELSE IF request.action \in SaveActions THEN Saved(request, t)
  ELSE IF request.action \in ServiceActions THEN Serviced(request)
  ELSE IF request.action \in CopyActions THEN Copied(request, t)
  ELSE IF request.action \in OpenActions THEN Opened(request)
  ELSE IF request.action = "preview" THEN "preview"
  ELSE "none"

----------------------------------------------------------------------------
(* Properties, of every hit and policy                                     *)

\* Whatever is clicked, the medium is sent to GoreeCloud Search only after the
\* user said yes to that, and handed to a service only after yes to that; and
\* the executor alone sees to both, should a caller leave its questions out.
NothingLeavesUnasked(hit, policy) ==
  \A action \in MediaActionNames, a \in Answers :
    LET unasked == [GivenUp EXCEPT !.action = action, !.hosted = TRUE,
                                   !.destination = "goreecloud_drive"]
    IN  /\ LET effect == Effect(Asked(action, a), Target(hit), policy)
           IN  /\ effect = "search" => a.privacy
               /\ effect = "store" => a.persistence
        /\ Effect(unasked, Target(hit), policy) \notin {"search", "store"}

\* Media that says it is protected, in either way a page can say so, is never
\* put in the download queue nor its frames taken, whatever is offered.
ProtectedStays(hit, policy) ==
  hit.protected \/ hit.drm =>
    \A action \in MediaActionNames, a \in Answers :
      LET effect == Effect(Asked(action, a), Target(hit), policy)
      IN  effect # "enqueue" /\ (effect # "none" => action \notin Extraction)

\* What the site forbids is not done, although parts of it are offered.
PolicyBinds(hit, policy) ==
  \A action \in Clickable(Target(hit), policy), a \in Answers :
    Effect(Asked(action, a), Target(hit), policy) = "search" =>
      policy.visual_search /\ policy.remote
=============================================================================
