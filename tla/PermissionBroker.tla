-------------------------- MODULE PermissionBroker --------------------------
(***************************************************************************)
(* The broker of a page's requests for camera, microphone and the like     *)
(* (permission_broker.hpp).  A request is received, evaluated against the  *)
(* authorities, decided upon by the user resource by resource, cancelled,  *)
(* or closed with its context.  The page that is shown, the authorities'   *)
(* answers and the time are arguments of every call, so any of them may    *)
(* have changed since the last one, the clock in either direction.         *)
(*                                                                         *)
(* Not in the code: granted, what the engine was allowed because of the    *)
(* resolutions the caller got, with the arguments of that call.            *)
(***************************************************************************)
EXTENDS Naturals, FiniteSets

CONSTANTS
  Ids,         \* request ids
  Resources,   \* PermissionResource
  Contexts,    \* [id, mode, page]: profile, privacy context, tab and origins
  Snapshots,   \* what the authorities may answer, of the shape Snapshot
  MaxTime,     \* bound of the clock
  None

Gates == [required : BOOLEAN,
          decision : {"not_required", "allow", "deny", "unavailable", "invalid"}]

HostStates == {"granted", "denied_requestable", "denied_no_reprompt", "restricted",
               "unavailable", "error"}

Snapshot == [policy : Gates, shield : Gates, wardveil : Gates, host : HostStates]

ASSUME BrokerAssumption ==
  /\ MaxTime \in Nat /\ Snapshots \subseteq Snapshot \cup {None}
  /\ \A c \in Contexts : c.mode \in {"normal", "private_browsing", "isolated_private"}

Allowing == {"allow_once", "allow_session", "allow_persistent"}
Denying == {"deny_once", "deny_session", "deny_persistent"}
UserDecisions == Allowing \cup Denying

Outcomes == UserDecisions \cup
  {"cancelled", "expired", "blocked_policy", "blocked_security", "blocked_os",
   "unavailable", "error_fail_closed"}

\* A request and what its resources were resolved to so far.
Resolutions == UNION {[S -> Outcomes] : S \in SUBSET Resources}

Requests ==
  [context : Contexts, resources : SUBSET Resources, created : 0..MaxTime,
   expires : 0..MaxTime, state : {"received", "user_decision", "completed"},
   resolved : Resolutions]

ASSUME NoneAssumption == None \notin Requests

VARIABLES
  requests,  \* id -> None or a request with its state and resolutions
  granted    \* set of [id, resource, kept, page, at, under]

vars == <<requests, granted>>

Init ==
  /\ requests = [id \in Ids |-> None]
  /\ granted = {}

----------------------------------------------------------------------------
(* The authorities                                                         *)

\* check_authority: "pass" or the decision that blocks.
GateSays(gate, denied) ==
  CASE gate.decision = "allow" -> "pass"
    [] gate.decision = "deny" -> denied
    [] gate.decision = "invalid" -> "error_fail_closed"
    [] OTHER -> IF gate.required THEN "unavailable" ELSE "pass"

HostSays(host) ==
  CASE host = "granted" -> "pass"
    [] host = "unavailable" -> "unavailable"
    [] host = "error" -> "error_fail_closed"
    [] OTHER -> "blocked_os"

\* preflight_resource: the first of the four that blocks decides.
Preflight(snapshot) ==
  IF snapshot = None THEN "unavailable"
  ELSE LET says == <<GateSays(snapshot.policy, "blocked_policy"),
                     GateSays(snapshot.shield, "blocked_policy"),
                     GateSays(snapshot.wardveil, "blocked_security"),
                     HostSays(snapshot.host)>>
           blocking == {i \in 1..4 : says[i] # "pass"}
       IN  IF blocking = {} THEN "pass"
           ELSE says[CHOOSE i \in blocking : \A j \in blocking : i <= j]

----------------------------------------------------------------------------
(* A stored request                                                        *)

Resolved(request) == DOMAIN request.resolved

\* validate_live_request at time now and on page here: "live", or the
\* decision for every resource that has none.
Liveness(request, here, now) ==
  IF now < request.created THEN "error_fail_closed"
  ELSE IF now >= request.expires THEN "expired"
  ELSE IF request.context # here THEN "cancelled"
  ELSE "live"

\* Mutant: a resource may be resolved again.
SettledAnew(request, found) ==
  LET resolved == [r \in Resolved(request) \cup DOMAIN found |->
                     IF r \in DOMAIN found THEN found[r] ELSE request.resolved[r]]
  IN  [request EXCEPT !.resolved = resolved,
         !.state = IF DOMAIN resolved = request.resources THEN "completed"
                   ELSE "user_decision"]

\* The request after the resources of found were resolved as found says; what
\* was resolved before stays.
Settled(request, found) ==
  LET resolved == [r \in Resolved(request) \cup DOMAIN found |->
                     IF r \in Resolved(request) THEN request.resolved[r] ELSE found[r]]
  IN  [request EXCEPT !.resolved = resolved,
         !.state = IF DOMAIN resolved = request.resources THEN "completed"
                   ELSE "user_decision"]

\* resolve_all_unresolved
AllSettled(request, decision) == Settled(request, [r \in request.resources |-> decision])

Open(id) == requests[id] # None /\ requests[id].state # "completed"

Update(id, request) == requests' = [requests EXCEPT ![id] = request]

----------------------------------------------------------------------------
(* The broker                                                              *)

\* receive: an id is used once, resources are not repeated, the request has
\* some time to live.
Receive(id) ==
  /\ requests[id] = None
  /\ \E context \in Contexts, S \in (SUBSET Resources) \ {{}}, created, expires \in 0..MaxTime :
       /\ created < expires
       /\ Update(id, [context |-> context, resources |-> S, created |-> created,
                      expires |-> expires, state |-> "received",
                      resolved |-> [r \in {} |-> None]])
  /\ UNCHANGED granted

\* evaluate: resources the authorities block are resolved so, the others wait
\* for the user.
Evaluate(id, here, now, answers) ==
  /\ Open(id)
  /\ LET request == requests[id]
         blocked == {r \in request.resources : Preflight(answers[r]) # "pass"}
     IN  Update(id, IF Liveness(request, here, now) # "live"
                      THEN AllSettled(request, Liveness(request, here, now))
                      ELSE Settled(request, [r \in blocked |-> Preflight(answers[r])]))
  /\ UNCHANGED granted

\* Mutant: what the authorities say is asked for at the evaluation only.
ResolutionUnasked(request, decision, answer) ==
  IF decision \in {"allow_persistent", "deny_persistent"} /\ request.context.mode # "normal"
    THEN "error_fail_closed"
  ELSE decision

\* Mutant: a private context may keep what the user decided.
ResolutionKept(request, decision, answer) ==
  IF decision \in Allowing /\ Preflight(answer) # "pass" THEN Preflight(answer)
  ELSE decision

\* What apply_user_decision stores for the resource.
Resolution(request, decision, answer) ==
  IF decision \in {"allow_persistent", "deny_persistent"} /\ request.context.mode # "normal"
    THEN "error_fail_closed"
  ELSE IF decision \in Allowing /\ Preflight(answer) # "pass"
    THEN Preflight(answer)
  ELSE decision

\* apply_user_decision, with or without an evaluation before.
Decide(id, r, decision, here, now, answer) ==
  /\ Open(id) /\ r \in requests[id].resources \ Resolved(requests[id])
  /\ LET request == requests[id]
         outcome == Resolution(request, decision, answer)
     IN  IF Liveness(request, here, now) # "live"
           THEN /\ Update(id, AllSettled(request, Liveness(request, here, now)))
                /\ UNCHANGED granted
           ELSE /\ Update(id, Settled(request, [s \in {r} |-> outcome]))
                /\ granted' = granted \cup
                     {g \in {[id |-> id, resource |-> r, kept |-> outcome = "allow_persistent",
                              page |-> here, at |-> now, under |-> answer]} :
                        outcome \in Allowing}

Cancel(id) ==
  /\ Open(id)
  /\ Update(id, AllSettled(requests[id], "cancelled"))
  /\ UNCHANGED granted

CloseContext(c) ==
  /\ requests' = [id \in Ids |->
       IF Open(id) /\ requests[id].context.id = c
         THEN AllSettled(requests[id], "cancelled") ELSE requests[id]]
  /\ UNCHANGED granted

Next ==
  \/ \E id \in Ids : Receive(id) \/ Cancel(id)
  \/ \E id \in Ids, here \in Contexts, now \in 0..MaxTime :
       \/ \E answers \in [Resources -> Snapshots] : Evaluate(id, here, now, answers)
       \/ \E r \in Resources, decision \in UserDecisions, answer \in Snapshots :
            Decide(id, r, decision, here, now, answer)
  \/ \E c \in Contexts : CloseContext(c.id)

Spec == Init /\ [][Next]_vars

----------------------------------------------------------------------------
(* Properties                                                              *)

\* Every variable keeps its type.
TypeOK ==
  /\ requests \in [Ids -> Requests \cup {None}]
  /\ \A id \in Ids : requests[id] # None =>
       Resolved(requests[id]) \subseteq requests[id].resources
  /\ granted \subseteq [id : Ids, resource : Resources, kept : BOOLEAN, page : Contexts,
                        at : 0..MaxTime, under : Snapshots]

\* The engine was allowed exactly what is stored as allowed, once per request
\* and resource, and nothing allowed in a private context is kept.
GrantsAreConsented ==
  /\ \A id \in Ids, r \in Resources :
       Cardinality({g \in granted : g.id = id /\ g.resource = r}) =
         IF requests[id] # None /\ r \in Resolved(requests[id])
              /\ requests[id].resolved[r] \in Allowing THEN 1 ELSE 0
  /\ \A g \in granted : g.kept => requests[g.id].context.mode = "normal"

\* A request is completed when, and only when, every resource is resolved: no
\* interleaving of evaluations, decisions and closings leaves it open forever
\* or completes it with a resource unanswered.
CompletedIsResolved ==
  \A id \in Ids : requests[id] # None =>
    (requests[id].state = "completed" <=> Resolved(requests[id]) = requests[id].resources)

\* A grant was made under the answers of its own moment, for the page that was
\* shown then and within the request's time, whatever an earlier evaluation
\* found.
GrantIsFresh ==
  \A g \in granted :
    /\ Preflight(g.under) = "pass"
    /\ g.page = requests[g.id].context
    /\ requests[g.id].created <= g.at /\ g.at < requests[g.id].expires

\* What was resolved stays as it is: no late decision, cancellation, expiry or
\* closing overrides the first answer.
FirstAnswerStands ==
  [][\A id \in Ids : requests[id] # None =>
       \A r \in Resolved(requests[id]) :
         /\ r \in Resolved(requests[id])'
         /\ requests[id].resolved[r] = requests[id].resolved[r]']_vars
=============================================================================
