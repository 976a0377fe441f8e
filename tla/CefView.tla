------------------------------ MODULE CefView ------------------------------
(***************************************************************************)
(* One web view of the CEF engine: the view of the runtime (cef_runtime.cpp)*)
(* behind its adapter (chromium_adapter.cpp), the client that receives     *)
(* CEF's callbacks (cef_client.hpp) and the renderer that answers it       *)
(* (cef_media_probe_app.hpp).  CEF creates and closes a browser on its own *)
(* time, so that a view may have several of them: one still being created, *)
(* one being closed; the client knows only the last created.               *)
(*                                                                         *)
(* A request asks the renderer about the media under the pointer ("probe") *)
(* or for a picture of it ("preview"); what is answered is left out, but   *)
(* not whether, how often and to whom.                                     *)
(***************************************************************************)
EXTENDS Naturals

CONSTANTS
  Urls,          \* addresses of pages
  MaxBrowsers,   \* bound of the browsers CEF ever creates for the view
  MaxRequests    \* bound of the requests ever made

Browsers == 1..MaxBrowsers
Requests == 1..MaxRequests
NoUrl == "no address"

VARIABLES
  viewUrl,     \* state_.url of the runtime view
  clientUrl,   \* state_.url of the client
  stage,       \* browser -> "none" until asked for, "creating", "open", "closing" or "gone"
  current,     \* browser_ of the client, 0 for none
  attached,    \* attached_ of the adapter
  closed,      \* closed_: the view reports its renderer as terminated
  made,        \* number of requests made
  pending,     \* requests whose callback the client keeps
  mail,        \* request -> "none", "asked" with the renderer, "replied" to the client
  answers      \* request -> how often its callback was called
viewVars == <<viewUrl, clientUrl, stage, current, attached, closed, made, pending, mail, answers>>

Alive == {b \in Browsers : stage[b] \notin {"none", "gone"}}
Shown == {b \in Browsers : stage[b] \in {"open", "closing"}}

ViewInit ==
  /\ viewUrl \in Urls /\ clientUrl = NoUrl /\ current = 0
  /\ stage = [b \in Browsers |-> "none"]
  /\ attached = FALSE /\ closed = FALSE
  /\ made = 0 /\ pending = {} /\ mail = [r \in Requests |-> "none"]
  /\ answers = [r \in Requests |-> 0]

----------------------------------------------------------------------------
(* Calls of the window                                                     *)

\* attach_surface: resizes the browser there is, else asks CEF for another, at
\* the address the view has; CEF may refuse.
Attach ==
  /\ IF current # 0
       THEN attached' = TRUE /\ UNCHANGED stage
       ELSE \/ attached' = FALSE /\ UNCHANGED stage
            \/ \E b \in Browsers :
                 /\ \A c \in Browsers : stage[c] = "none" <=> c >= b
                 /\ attached' = TRUE /\ stage' = [stage EXCEPT ![b] = "creating"]
  /\ UNCHANGED <<viewUrl, clientUrl, current, closed, made, pending, mail, answers>>

\* detach_surface: asks the browser the client knows to close; one still being
\* created is not asked.
Detach ==
  /\ attached /\ attached' = FALSE
  /\ stage' = IF current = 0 THEN stage ELSE [stage EXCEPT ![current] = "closing"]
  /\ UNCHANGED <<viewUrl, clientUrl, current, closed, made, pending, mail, answers>>

\* navigate: without a browser only the view's address changes.
Navigate(u) ==
  /\ viewUrl' = u
  /\ UNCHANGED <<clientUrl, stage, current, attached, closed, made, pending, mail, answers>>

\* The callbacks of the requests in S are called and forgotten.
Answered(S) ==
  /\ pending' = pending \ S
  /\ answers' = [r \in Requests |-> IF r \in S THEN answers[r] + 1 ELSE answers[r]]

\* request_media_probe and request_media_preview: kept, then sent; when it
\* cannot be sent, taken back and answered at once.
Request ==
  /\ current # 0 /\ made + 1 \in Requests /\ made' = made + 1
  /\ \E sent \in BOOLEAN :
       IF sent THEN /\ pending' = pending \cup {made + 1} /\ UNCHANGED answers
                    /\ mail' = [mail EXCEPT ![made + 1] = "asked"]
       ELSE answers' = [answers EXCEPT ![made + 1] = @ + 1] /\ UNCHANGED <<pending, mail>>
  /\ UNCHANGED <<viewUrl, clientUrl, stage, current, attached, closed>>

\* A preview of protected media is answered before anything is asked.
RequestProtected ==
  /\ made + 1 \in Requests /\ made' = made + 1
  /\ answers' = [answers EXCEPT ![made + 1] = @ + 1]
  /\ UNCHANGED <<viewUrl, clientUrl, stage, current, attached, closed, pending, mail>>

----------------------------------------------------------------------------
(* Callbacks of CEF                                                        *)

\* OnAfterCreated: the newest browser is the client's, and the client's state,
\* which has no address yet, is published over the view's.
AfterCreated(b) ==
  /\ stage[b] = "creating"
  /\ stage' = [stage EXCEPT ![b] = "open"] /\ current' = b
  /\ viewUrl' = clientUrl
  /\ UNCHANGED <<clientUrl, attached, closed, made, pending, mail, answers>>

\* Mutant: the closing of a browser answers nothing.
BeforeCloseSilent(b) ==
  /\ b \in Shown
  /\ stage' = [stage EXCEPT ![b] = "gone"]
  /\ current' = IF current = b THEN 0 ELSE current
  /\ closed' = TRUE
  /\ UNCHANGED <<viewUrl, clientUrl, attached, made, pending, mail, answers>>

\* OnBeforeClose: for a browser asked to close, or one whose window was
\* destroyed; every callback the client keeps is answered, whatever the
\* renderer still answers.
BeforeClose(b) ==
  /\ b \in Shown
  /\ stage' = [stage EXCEPT ![b] = "gone"]
  /\ current' = IF current = b THEN 0 ELSE current
  /\ closed' = TRUE
  /\ Answered(pending)
  /\ UNCHANGED <<viewUrl, clientUrl, attached, made, mail>>

\* OnLoadStart and OnLoadEnd of the main frame, also of a browser that is not
\* the client's.
Load(b, u) ==
  /\ b \in Shown
  /\ clientUrl' = u /\ viewUrl' = u
  /\ UNCHANGED <<stage, current, attached, closed, made, pending, mail, answers>>

\* OnTitleChange and OnLoadingStateChange publish the client's address again,
\* over one navigated to meanwhile.
Publish ==
  /\ Shown # {} /\ viewUrl' = clientUrl
  /\ UNCHANGED <<clientUrl, stage, current, attached, closed, made, pending, mail, answers>>

\* handle_probe and handle_preview in the renderer: each of their paths sends
\* one answer, with media or without.
Reply(r) ==
  /\ mail[r] = "asked" /\ Alive # {}
  /\ mail' = [mail EXCEPT ![r] = "replied"]
  /\ UNCHANGED <<viewUrl, clientUrl, stage, current, attached, closed, made, pending, answers>>

\* handle_media_probe_response and handle_media_preview_response: an answer to
\* a request the client no longer keeps does nothing.
Deliver(r) ==
  /\ mail[r] = "replied" /\ Alive # {}
  /\ mail' = [mail EXCEPT ![r] = "none"]
  /\ Answered({r} \cap pending)
  /\ UNCHANGED <<viewUrl, clientUrl, stage, current, attached, closed, made>>

ViewNext ==
  \/ Attach \/ Detach \/ Request \/ RequestProtected \/ Publish
  \/ \E u \in Urls : Navigate(u)
  \/ \E b \in Browsers : AfterCreated(b) \/ BeforeClose(b) \/ (\E u \in Urls : Load(b, u))
  \/ \E r \in Requests : Reply(r) \/ Deliver(r)

ViewSpec == ViewInit /\ [][ViewNext]_viewVars

----------------------------------------------------------------------------
(* Properties                                                              *)

ViewTypeOK ==
  /\ viewUrl \in Urls \cup {NoUrl} /\ clientUrl \in Urls \cup {NoUrl}
  /\ stage \in [Browsers -> {"none", "creating", "open", "closing", "gone"}]
  /\ current \in Shown \cup {0} /\ attached \in BOOLEAN /\ closed \in BOOLEAN
  /\ made \in Nat /\ 1..made \subseteq Requests /\ pending \subseteq 1..made
  /\ mail \in [Requests -> {"none", "asked", "replied"}]
  /\ answers \in [Requests -> Nat]

\* Every request is answered exactly once: by the renderer, by the failure to
\* send it, or by the browser's closing, in whatever order they happen and
\* however many browsers the view has had.
AnsweredOnce ==
  \A r \in 1..made : answers[r] = IF r \in pending THEN 0 ELSE 1

\* Who asks is never left without an answer: as long as one is due a browser
\* lives whose renderer, or at last whose closing, gives it.
PendingHasBrowser == pending # {} => Alive # {}

\* Every request to the renderer is answered once, and as long as an answer is
\* due there is a browser to give it.
RequestsAreAnswered == ViewTypeOK /\ AnsweredOnce /\ PendingHasBrowser
=============================================================================
