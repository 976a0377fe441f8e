----------------------- MODULE PermissionBrokerProofs -----------------------
(***************************************************************************)
(* Proofs about PermissionBroker, for any number of requests, resources,   *)
(* contexts and moments and whatever the authorities may answer.           *)
(*                                                                         *)
(* Every call moves a request forward (Progress): it keeps what was        *)
(* resolved and may resolve more.  All calls but a decision resolve        *)
(* quietly, allowing nothing.  The inductive invariant relates the         *)
(* resolutions of the requests to what the engine was allowed, in both     *)
(* directions; neither direction is inductive without the other, because a *)
(* decision allows only what has no resolution yet.                        *)
(***************************************************************************)
EXTENDS PermissionBroker, FiniteSetTheorems, TLAPS

\* What the engine was allowed is stored as allowed,
GrantHasConsent ==
  \A g \in granted : /\ requests[g.id] # None /\ g.resource \in Resolved(requests[g.id])
                     /\ requests[g.id].resolved[g.resource] \in Allowing

\* what is stored as allowed the engine was allowed,
ConsentHasGrant ==
  \A id \in Ids : requests[id] # None =>
    \A r \in Resolved(requests[id]) : requests[id].resolved[r] \in Allowing =>
      \E g \in granted : g.id = id /\ g.resource = r

\* and only once.
GrantOnce ==
  \A g, h \in granted : g.id = h.id /\ g.resource = h.resource => g = h

KeptIsNormal == \A g \in granted : g.kept => requests[g.id].context.mode = "normal"

IInv ==
  /\ TypeOK /\ CompletedIsResolved /\ GrantIsFresh
  /\ GrantHasConsent /\ ConsentHasGrant /\ GrantOnce /\ KeptIsNormal

----------------------------------------------------------------------------
(* The authorities                                                         *)

\* An authority lets pass or blocks, and never allows.
LEMMA GateSaysType ==
  ASSUME NEW gate, NEW denied \in Outcomes \ Allowing
  PROVE  GateSays(gate, denied) \in {"pass"} \cup (Outcomes \ Allowing)
  BY DEF GateSays, Outcomes, Allowing, UserDecisions, Denying

LEMMA PreflightType ==
  ASSUME NEW snapshot
  PROVE  Preflight(snapshot) \in {"pass"} \cup (Outcomes \ Allowing)
  <1> DEFINE Says == <<GateSays(snapshot.policy, "blocked_policy"),
                       GateSays(snapshot.shield, "blocked_policy"),
                       GateSays(snapshot.wardveil, "blocked_security"),
                       HostSays(snapshot.host)>>
             Blocking == {i \in 1..4 : Says[i] # "pass"}
             First == CHOOSE i \in Blocking : \A j \in Blocking : i <= j
  <1>1. /\ "blocked_policy" \in Outcomes \ Allowing /\ "blocked_security" \in Outcomes \ Allowing
        /\ "unavailable" \in Outcomes \ Allowing
    BY DEF Outcomes, Allowing, UserDecisions, Denying
  <1>2. HostSays(snapshot.host) \in {"pass"} \cup (Outcomes \ Allowing)
    BY DEF HostSays, Outcomes, Allowing, UserDecisions, Denying
  <1>3. \A i \in 1..4 : Says[i] \in {"pass"} \cup (Outcomes \ Allowing)
    <2> HIDE DEF Blocking, First
    <2>1. /\ Says[1] \in {"pass"} \cup (Outcomes \ Allowing)
          /\ Says[2] \in {"pass"} \cup (Outcomes \ Allowing)
          /\ Says[3] \in {"pass"} \cup (Outcomes \ Allowing)
          /\ Says[4] \in {"pass"} \cup (Outcomes \ Allowing)
      BY <1>1, <1>2, GateSaysType
    <2> QED
      BY <2>1
  <1>4. Blocking # {} => First \in 1..4
    <2> HIDE DEF Says
    <2>1. Blocking # {} => \E i \in Blocking : \A j \in Blocking : i <= j
      OBVIOUS
    <2> QED
      BY <2>1
  <1>5. Preflight(snapshot) = IF snapshot = None THEN "unavailable"
                              ELSE IF Blocking = {} THEN "pass" ELSE Says[First]
    BY DEF Preflight
  <1> HIDE DEF Says, Blocking, First
  <1> QED
    BY <1>1, <1>3, <1>4, <1>5

----------------------------------------------------------------------------
(* Resolutions of a request                                                *)

\* How a call may change a request.
Progress(old, new) ==
  /\ new \in Requests
  /\ new.context = old.context /\ new.resources = old.resources
  /\ new.created = old.created /\ new.expires = old.expires
  /\ Resolved(old) \subseteq Resolved(new) /\ Resolved(new) \subseteq new.resources
  /\ \A r \in Resolved(old) : new.resolved[r] = old.resolved[r]
  /\ new.state = "completed" <=> Resolved(new) = new.resources

\* Whether what it resolves is all refused.
Quiet(old, new) == \A r \in Resolved(new) \ Resolved(old) : new.resolved[r] \notin Allowing

LEMMA SettledProgress ==
  ASSUME NEW request \in Requests, Resolved(request) \subseteq request.resources,
         NEW S \in SUBSET request.resources, NEW found \in [S -> Outcomes]
  PROVE  /\ Progress(request, Settled(request, found))
         /\ Resolved(Settled(request, found)) = Resolved(request) \cup S
         /\ \A r \in S \ Resolved(request) : Settled(request, found).resolved[r] = found[r]
  <1> DEFINE Merged == [r \in Resolved(request) \cup DOMAIN found |->
                          IF r \in Resolved(request) THEN request.resolved[r] ELSE found[r]]
             State == IF DOMAIN Merged = request.resources THEN "completed" ELSE "user_decision"
             New == [request EXCEPT !.resolved = Merged, !.state = State]
  <1>1. Settled(request, found) = New
    BY DEF Settled
  <1>2. request.resources \in SUBSET Resources /\ request.resolved \in Resolutions
    BY DEF Requests
  <1>3. request.resolved \in [Resolved(request) -> Outcomes]
    BY <1>2 DEF Resolutions, Resolved
  <1>4. /\ DOMAIN Merged = Resolved(request) \cup S
        /\ Merged \in [Resolved(request) \cup S -> Outcomes]
        /\ \A r \in Resolved(request) : Merged[r] = request.resolved[r]
        /\ \A r \in S \ Resolved(request) : Merged[r] = found[r]
    BY <1>3
  <1>5. Merged \in Resolutions
    BY <1>2, <1>4 DEF Resolutions
  <1>6. State \in {"received", "user_decision", "completed"}
    OBVIOUS
  <1>7. State = "completed" <=> DOMAIN Merged = request.resources
    OBVIOUS
  <1> HIDE DEF Merged, State
  <1>8. /\ New \in Requests /\ New.resolved = Merged /\ New.state = State
        /\ New.context = request.context /\ New.resources = request.resources
        /\ New.created = request.created /\ New.expires = request.expires
    BY <1>5, <1>6 DEF Requests
  <1> HIDE DEF New
  <1> QED
    BY <1>1, <1>4, <1>7, <1>8 DEF Progress, Resolved

\* Resolving with refusals only is quiet.
LEMMA SettledQuiet ==
  ASSUME NEW request \in Requests, Resolved(request) \subseteq request.resources,
         NEW S \in SUBSET request.resources, NEW found \in [S -> Outcomes \ Allowing]
  PROVE  /\ Progress(request, Settled(request, found))
         /\ Quiet(request, Settled(request, found))
  <1>1. found \in [S -> Outcomes]
    OBVIOUS
  <1>2. \A r \in S : found[r] \notin Allowing
    OBVIOUS
  <1> QED
    BY <1>1, <1>2, SettledProgress DEF Quiet

\* What ends a request allows nothing.
LEMMA AllSettledQuiet ==
  ASSUME NEW request \in Requests, Resolved(request) \subseteq request.resources,
         NEW decision \in Outcomes \ Allowing
  PROVE  /\ Progress(request, AllSettled(request, decision))
         /\ Quiet(request, AllSettled(request, decision))
  <1> DEFINE found == [r \in request.resources |-> decision]
  <1>1. found \in [request.resources -> Outcomes \ Allowing]
    OBVIOUS
  <1> HIDE DEF found
  <1>2. /\ Progress(request, Settled(request, found))
        /\ Quiet(request, Settled(request, found))
    BY <1>1, SettledQuiet
  <1> QED
    BY <1>2 DEF AllSettled, found

\* A request that is no longer live is ended with a refusal.
LEMMA LivenessType ==
  ASSUME NEW request, NEW here, NEW now, Liveness(request, here, now) # "live"
  PROVE  Liveness(request, here, now) \in Outcomes \ Allowing
  BY DEF Liveness, Outcomes, Allowing, UserDecisions, Denying

----------------------------------------------------------------------------
(* The initial states and the quiet calls                                  *)

LEMMA InitIInv == Init => IInv
  <1> SUFFICES ASSUME Init PROVE IInv
    OBVIOUS
  <1>1. granted = {} /\ \A id \in Ids : requests[id] = None
    BY DEF Init
  <1>2. requests \in [Ids -> Requests \cup {None}]
    BY DEF Init
  <1> QED
    BY <1>1, <1>2 DEF IInv, TypeOK, CompletedIsResolved, GrantIsFresh, GrantHasConsent,
                       ConsentHasGrant, GrantOnce, KeptIsNormal

\* How a call moves all the requests when it decides nothing.
QuietCall ==
  /\ requests' \in [Ids -> Requests \cup {None}]
  /\ \A id \in Ids :
       \/ requests'[id] = requests[id]
       \/ /\ requests[id] # None
          /\ Progress(requests[id], requests'[id]) /\ Quiet(requests[id], requests'[id])
       \/ /\ requests[id] = None
          /\ Resolved(requests'[id]) = {} /\ requests'[id].resources # {}
          /\ requests'[id].state # "completed"
  /\ UNCHANGED granted

\* What was resolved stays, as a relation of two states.
AnswersStand ==
  \A id \in Ids : requests[id] # None =>
    \A r \in Resolved(requests[id]) :
      /\ r \in Resolved(requests'[id])
      /\ requests[id].resolved[r] = requests'[id].resolved[r]

LEMMA QuietCallIInv == IInv /\ QuietCall => IInv' /\ AnswersStand
  <1> SUFFICES ASSUME IInv, QuietCall PROVE IInv' /\ AnswersStand
    OBVIOUS
  <1>1. /\ requests \in [Ids -> Requests \cup {None}]
        /\ requests' \in [Ids -> Requests \cup {None}] /\ granted' = granted
        /\ \A g \in granted : g.id \in Ids
    BY DEF IInv, TypeOK, QuietCall
  <1>2. AnswersStand
    BY DEF QuietCall, AnswersStand, Progress
  <1>3. TypeOK'
    <2>1. ASSUME NEW id \in Ids, requests'[id] # None
          PROVE  Resolved(requests'[id]) \subseteq requests'[id].resources
      BY <2>1 DEF QuietCall, IInv, TypeOK, Progress
    <2> QED
      BY <1>1, <2>1 DEF IInv, TypeOK
  <1>4. CompletedIsResolved'
    BY DEF QuietCall, IInv, CompletedIsResolved, Progress
  <1>5. \A g \in granted : /\ requests[g.id] # None /\ requests'[g.id] # None
                           /\ requests'[g.id].context = requests[g.id].context
                           /\ requests'[g.id].created = requests[g.id].created
                           /\ requests'[g.id].expires = requests[g.id].expires
    BY <1>1, NoneAssumption DEF QuietCall, IInv, GrantHasConsent, Progress
  <1>6. GrantIsFresh' /\ KeptIsNormal' /\ GrantOnce'
    BY <1>1, <1>5 DEF IInv, GrantIsFresh, KeptIsNormal, GrantOnce
  <1>7. GrantHasConsent'
    BY <1>1, <1>2, <1>5 DEF IInv, GrantHasConsent, AnswersStand
  <1>8. ConsentHasGrant'
    <2> SUFFICES ASSUME NEW id \in Ids, requests'[id] # None,
                        NEW r \in Resolved(requests'[id]),
                        requests'[id].resolved[r] \in Allowing
                 PROVE  \E g \in granted : g.id = id /\ g.resource = r
      BY <1>1 DEF ConsentHasGrant
    <2>1. requests[id] # None /\ r \in Resolved(requests[id])
      BY DEF QuietCall, Quiet
    <2>2. requests[id].resolved[r] \in Allowing
      BY <1>2, <2>1 DEF AnswersStand
    <2> QED
      BY <2>1, <2>2 DEF IInv, ConsentHasGrant
  <1> QED
    BY <1>2, <1>3, <1>4, <1>6, <1>7, <1>8 DEF IInv

\* A stored request is one, and its resolutions are of its resources.
LEMMA StoredRequest ==
  ASSUME IInv, NEW id \in Ids, requests[id] # None
  PROVE  requests[id] \in Requests /\ Resolved(requests[id]) \subseteq requests[id].resources
  BY DEF IInv, TypeOK

\* Changing one request quietly is a quiet call.
LEMMA QuietUpdate ==
  ASSUME IInv, NEW id \in Ids, requests[id] # None, NEW new,
         Progress(requests[id], new), Quiet(requests[id], new),
         Update(id, new), UNCHANGED granted
  PROVE  QuietCall
  <1>1. new \in Requests
    BY DEF Progress
  <1>2. /\ requests' \in [Ids -> Requests \cup {None}] /\ requests'[id] = new
        /\ \A other \in Ids \ {id} : requests'[other] = requests[other]
    BY <1>1 DEF IInv, TypeOK, Update
  <1> QED
    BY <1>2 DEF QuietCall

\* A request that arrives is not resolved in anything.
LEMMA ReceiveQuiet == ASSUME IInv, NEW id \in Ids, Receive(id) PROVE QuietCall
  <1>1. PICK context \in Contexts, S \in SUBSET Resources, created, expires \in 0..MaxTime :
          /\ S # {}
          /\ Update(id, [context |-> context, resources |-> S, created |-> created,
                         expires |-> expires, state |-> "received",
                         resolved |-> [r \in {} |-> None]])
    BY DEF Receive
  <1> DEFINE nothing == [r \in {} |-> None]
             new == [context |-> context, resources |-> S, created |-> created,
                     expires |-> expires, state |-> "received", resolved |-> nothing]
  <1>2. nothing \in [{} -> Outcomes] /\ DOMAIN nothing = {}
    OBVIOUS
  <1>3. nothing \in Resolutions
    BY <1>2 DEF Resolutions
  <1>4. Update(id, new)
    BY <1>1
  <1> HIDE DEF nothing
  <1>5. new \in Requests /\ Resolved(new) = {} /\ new.resources # {} /\ new.state # "completed"
    <2>1. new \in Requests
      BY <1>3 DEF Requests
    <2>2. new.resolved = nothing /\ new.resources = S /\ new.state = "received"
      OBVIOUS
    <2> HIDE DEF new
    <2> QED
      BY <1>1, <1>2, <2>1, <2>2 DEF Resolved
  <1> HIDE DEF new
  <1>6. /\ requests' \in [Ids -> Requests \cup {None}] /\ requests'[id] = new
        /\ \A other \in Ids \ {id} : requests'[other] = requests[other]
    BY <1>4, <1>5 DEF IInv, TypeOK, Update
  <1>7. requests[id] = None /\ UNCHANGED granted
    BY DEF Receive
  <1> QED
    BY <1>5, <1>6, <1>7 DEF QuietCall

\* An evaluation refuses, or leaves to the user.
LEMMA EvaluateQuiet ==
  ASSUME IInv, NEW id \in Ids, NEW here \in Contexts, NEW now \in 0..MaxTime,
         NEW answers \in [Resources -> Snapshots], Evaluate(id, here, now, answers)
  PROVE  QuietCall
  <1>1. requests[id] # None /\ UNCHANGED granted
    BY DEF Evaluate, Open
  <1>2. requests[id] \in Requests /\ Resolved(requests[id]) \subseteq requests[id].resources
    BY <1>1, StoredRequest
  <1>3. CASE Liveness(requests[id], here, now) # "live"
    <2>1. Liveness(requests[id], here, now) \in Outcomes \ Allowing
      BY <1>3, LivenessType
    <2>2. Update(id, AllSettled(requests[id], Liveness(requests[id], here, now)))
      BY <1>3 DEF Evaluate
    <2> QED
      BY <1>1, <1>2, <2>1, <2>2, AllSettledQuiet, QuietUpdate
  <1>4. CASE Liveness(requests[id], here, now) = "live"
    <2> DEFINE blocked == {r \in requests[id].resources : Preflight(answers[r]) # "pass"}
               found == [r \in blocked |-> Preflight(answers[r])]
    <2>1. Update(id, Settled(requests[id], found))
      BY <1>4 DEF Evaluate
    <2>2. \A r \in blocked : Preflight(answers[r]) \in Outcomes \ Allowing
      BY PreflightType
    <2>3. blocked \in SUBSET requests[id].resources /\ found \in [blocked -> Outcomes \ Allowing]
      BY <2>2
    <2> HIDE DEF blocked, found
    <2>4. /\ Progress(requests[id], Settled(requests[id], found))
          /\ Quiet(requests[id], Settled(requests[id], found))
      BY <1>2, <2>3, SettledQuiet
    <2> QED
      BY <1>1, <2>1, <2>4, QuietUpdate
  <1> QED
    BY <1>3, <1>4

LEMMA CancelledIsRefusal == "cancelled" \in Outcomes \ Allowing
  BY DEF Outcomes, Allowing, UserDecisions, Denying

LEMMA CancelQuiet == ASSUME IInv, NEW id \in Ids, Cancel(id) PROVE QuietCall
  <1>1. requests[id] # None /\ UNCHANGED granted /\ Update(id, AllSettled(requests[id], "cancelled"))
    BY DEF Cancel, Open
  <1>2. /\ Progress(requests[id], AllSettled(requests[id], "cancelled"))
        /\ Quiet(requests[id], AllSettled(requests[id], "cancelled"))
    BY <1>1, StoredRequest, AllSettledQuiet, CancelledIsRefusal
  <1> QED
    BY <1>1, <1>2, QuietUpdate

\* The requests of a context that closes are all cancelled at once.
LEMMA CloseContextQuiet == ASSUME IInv, NEW c, CloseContext(c) PROVE QuietCall
  <1>1. requests \in [Ids -> Requests \cup {None}]
    BY DEF IInv, TypeOK
  <1>2. /\ UNCHANGED granted
        /\ requests' = [id \in Ids |->
             IF Open(id) /\ requests[id].context.id = c
               THEN AllSettled(requests[id], "cancelled") ELSE requests[id]]
    BY DEF CloseContext
  <1>3. ASSUME NEW id \in Ids
        PROVE  \/ requests'[id] = requests[id]
               \/ /\ requests[id] # None
                  /\ Progress(requests[id], requests'[id]) /\ Quiet(requests[id], requests'[id])
    <2>1. CASE Open(id) /\ requests[id].context.id = c
      <3>1. requests[id] # None /\ requests'[id] = AllSettled(requests[id], "cancelled")
        BY <1>2, <2>1 DEF Open
      <3> QED
        BY <3>1, StoredRequest, AllSettledQuiet, CancelledIsRefusal
    <2>2. CASE ~(Open(id) /\ requests[id].context.id = c)
      BY <1>2, <2>2
    <2> QED
      BY <2>1, <2>2
  <1>4. \A id \in Ids : requests'[id] \in Requests \cup {None}
    BY <1>1, <1>3 DEF Progress
  <1>5. requests' \in [Ids -> Requests \cup {None}]
    BY <1>2, <1>4
  <1> QED
    BY <1>2, <1>3, <1>5 DEF QuietCall

----------------------------------------------------------------------------
(* The decision                                                            *)

\* What is stored for the resource; it is an allowance only if the authorities
\* agree at that moment, and a lasting one only in a normal context.
LEMMA ResolutionType ==
  ASSUME NEW request, NEW decision \in UserDecisions, NEW answer
  PROVE  /\ Resolution(request, decision, answer) \in Outcomes
         /\ Resolution(request, decision, answer) \in Allowing => Preflight(answer) = "pass"
         /\ Resolution(request, decision, answer) = "allow_persistent" =>
              request.context.mode = "normal"
  <1>1. Preflight(answer) \in {"pass"} \cup (Outcomes \ Allowing)
    BY PreflightType
  <1>2. /\ UserDecisions \subseteq Outcomes /\ "error_fail_closed" \in Outcomes \ Allowing
        /\ "allow_persistent" \in Allowing
    BY DEF Outcomes, Allowing, UserDecisions, Denying
  <1> QED
    BY <1>1, <1>2 DEF Resolution

\* A decision resolves the one resource, and allows it or not.
LEMMA DecideIInv ==
  ASSUME IInv, NEW id \in Ids, NEW r \in Resources, NEW decision \in UserDecisions,
         NEW here \in Contexts, NEW now \in 0..MaxTime, NEW answer \in Snapshots,
         Decide(id, r, decision, here, now, answer)
  PROVE  IInv' /\ AnswersStand
  <1> DEFINE outcome == Resolution(requests[id], decision, answer)
             found == [s \in {r} |-> outcome]
             new == Settled(requests[id], found)
             grant == [id |-> id, resource |-> r, kept |-> outcome = "allow_persistent",
                       page |-> here, at |-> now, under |-> answer]
  <1>1. requests[id] # None /\ r \in requests[id].resources \ Resolved(requests[id])
    BY DEF Decide, Open
  <1>2. requests[id] \in Requests /\ Resolved(requests[id]) \subseteq requests[id].resources
    BY <1>1, StoredRequest
  <1>3. CASE Liveness(requests[id], here, now) # "live"
    <2>1. Liveness(requests[id], here, now) \in Outcomes \ Allowing
      BY <1>3, LivenessType
    <2>2. /\ Update(id, AllSettled(requests[id], Liveness(requests[id], here, now)))
          /\ UNCHANGED granted
      BY <1>3 DEF Decide
    <2> QED
      BY <1>1, <1>2, <2>1, <2>2, AllSettledQuiet, QuietUpdate, QuietCallIInv
  <1>4. CASE Liveness(requests[id], here, now) = "live"
    <2>1. /\ Update(id, new)
          /\ granted' = granted \cup {g \in {grant} : outcome \in Allowing}
      BY <1>4 DEF Decide
    <2>2. /\ outcome \in Outcomes
          /\ outcome \in Allowing => Preflight(answer) = "pass"
          /\ outcome = "allow_persistent" => requests[id].context.mode = "normal"
      BY ResolutionType
    <2>3. /\ requests[id].created <= now /\ now < requests[id].expires
          /\ requests[id].context = here
      BY <1>2, <1>4, BrokerAssumption DEF Liveness, Requests
    <2>4. {r} \in SUBSET requests[id].resources /\ found \in [{r} -> Outcomes] /\ found[r] = outcome
      BY <1>1, <2>2
    <2>5. grant \in [id : Ids, resource : Resources, kept : BOOLEAN, page : Contexts,
                     at : 0..MaxTime, under : Snapshots]
      OBVIOUS
    <2>6. /\ grant.id = id /\ grant.resource = r /\ grant.page = here /\ grant.at = now
          /\ grant.under = answer /\ (grant.kept => outcome = "allow_persistent")
      OBVIOUS
    <2> HIDE DEF found, outcome, grant
    <2>7. /\ Progress(requests[id], new) /\ Resolved(new) = Resolved(requests[id]) \cup {r}
          /\ new.resolved[r] = outcome
      BY <1>1, <1>2, <2>4, SettledProgress
    <2> HIDE DEF new
    <2>8. new \in Requests /\ new # None
      BY <2>7, NoneAssumption DEF Progress
    <2>9. /\ requests' \in [Ids -> Requests \cup {None}] /\ requests'[id] = new
          /\ \A other \in Ids \ {id} : requests'[other] = requests[other]
      BY <2>1, <2>8 DEF IInv, TypeOK, Update
    <2>10. AnswersStand
      BY <2>7, <2>9 DEF AnswersStand, Progress
    <2>11. TypeOK'
      <3>1. granted' \subseteq [id : Ids, resource : Resources, kept : BOOLEAN, page : Contexts,
                                at : 0..MaxTime, under : Snapshots]
        BY <2>1, <2>5 DEF IInv, TypeOK
      <3>2. \A other \in Ids : requests'[other] # None =>
              Resolved(requests'[other]) \subseteq requests'[other].resources
        BY <2>7, <2>9 DEF IInv, TypeOK, Progress
      <3> QED
        BY <2>9, <3>1, <3>2 DEF TypeOK
    <2>12. CompletedIsResolved'
      BY <2>7, <2>9 DEF IInv, CompletedIsResolved, Progress
    <2>13. \A g \in granted : g.id \in Ids /\ ~(g.id = id /\ g.resource = r)
      BY <1>1 DEF IInv, TypeOK, GrantHasConsent
    <2>14. \A g \in granted : /\ requests[g.id] # None /\ requests'[g.id] # None
                              /\ requests'[g.id].context = requests[g.id].context
                              /\ requests'[g.id].created = requests[g.id].created
                              /\ requests'[g.id].expires = requests[g.id].expires
      BY <2>7, <2>8, <2>9, <2>13 DEF IInv, GrantHasConsent, Progress
    <2>15. \A g \in granted' : g \in granted \/ (g = grant /\ outcome \in Allowing)
      BY <2>1
    <2>16. /\ new.context = requests[id].context /\ new.created = requests[id].created
           /\ new.expires = requests[id].expires
      BY <2>7 DEF Progress
    <2>17. GrantIsFresh'
      <3>1. ASSUME NEW g \in granted
            PROVE  /\ Preflight(g.under) = "pass" /\ g.page = requests'[g.id].context
                   /\ requests'[g.id].created <= g.at /\ g.at < requests'[g.id].expires
        BY <2>14 DEF IInv, GrantIsFresh
      <3>2. outcome \in Allowing =>
              /\ Preflight(grant.under) = "pass" /\ grant.page = requests'[grant.id].context
              /\ requests'[grant.id].created <= grant.at
              /\ grant.at < requests'[grant.id].expires
        BY <2>2, <2>3, <2>6, <2>9, <2>16
      <3> QED
        BY <2>15, <3>1, <3>2 DEF GrantIsFresh
    <2>18. KeptIsNormal'
      <3>1. \A g \in granted : g.kept => requests'[g.id].context.mode = "normal"
        BY <2>14 DEF IInv, KeptIsNormal
      <3>2. outcome \in Allowing /\ grant.kept => requests'[grant.id].context.mode = "normal"
        BY <2>2, <2>6, <2>9, <2>16
      <3> QED
        BY <2>15, <3>1, <3>2 DEF KeptIsNormal
    <2>19. GrantOnce'
      BY <2>6, <2>13, <2>15 DEF IInv, GrantOnce
    <2>20. GrantHasConsent'
      <3>1. ASSUME NEW g \in granted
            PROVE  /\ requests'[g.id] # None /\ g.resource \in Resolved(requests'[g.id])
                   /\ requests'[g.id].resolved[g.resource] \in Allowing
        BY <2>10, <2>13, <2>14 DEF IInv, GrantHasConsent, AnswersStand
      <3>2. outcome \in Allowing =>
              /\ requests'[grant.id] # None /\ grant.resource \in Resolved(requests'[grant.id])
              /\ requests'[grant.id].resolved[grant.resource] \in Allowing
        BY <2>6, <2>7, <2>8, <2>9
      <3> QED
        BY <2>15, <3>1, <3>2 DEF GrantHasConsent
    <2>21. ConsentHasGrant'
      <3> SUFFICES ASSUME NEW other \in Ids, requests'[other] # None,
                          NEW s \in Resolved(requests'[other]),
                          requests'[other].resolved[s] \in Allowing
                   PROVE  \E g \in granted' : g.id = other /\ g.resource = s
        BY DEF ConsentHasGrant
      <3>1. CASE other = id /\ s = r
        <4>1. outcome \in Allowing
          BY <3>1, <2>7, <2>9
        <4>2. grant \in granted'
          BY <4>1, <2>1
        <4> QED
          BY <3>1, <4>2, <2>6
      <3>2. CASE ~(other = id /\ s = r)
        <4>1. requests[other] # None /\ s \in Resolved(requests[other])
          BY <1>1, <3>2, <2>7, <2>9
        <4>2. requests[other].resolved[s] \in Allowing
          BY <4>1, <2>10 DEF AnswersStand
        <4>3. PICK g \in granted : g.id = other /\ g.resource = s
          BY <4>1, <4>2 DEF IInv, ConsentHasGrant
        <4> QED
          BY <4>3, <2>1
      <3> QED
        BY <3>1, <3>2
    <2> QED
      BY <2>10, <2>11, <2>12, <2>17, <2>18, <2>19, <2>20, <2>21 DEF IInv
  <1> QED
    BY <1>3, <1>4

----------------------------------------------------------------------------
(* The theorems                                                            *)

LEMMA NextIInv == IInv /\ [Next]_vars => IInv' /\ AnswersStand
  <1> SUFFICES ASSUME IInv, [Next]_vars PROVE IInv' /\ AnswersStand
    OBVIOUS
  <1>1. ASSUME NEW id \in Ids, Receive(id) \/ Cancel(id) PROVE IInv' /\ AnswersStand
    BY <1>1, ReceiveQuiet, CancelQuiet, QuietCallIInv
  <1>2. ASSUME NEW id \in Ids, NEW here \in Contexts, NEW now \in 0..MaxTime,
               NEW answers \in [Resources -> Snapshots], Evaluate(id, here, now, answers)
        PROVE  IInv' /\ AnswersStand
    BY <1>2, EvaluateQuiet, QuietCallIInv
  <1>3. ASSUME NEW id \in Ids, NEW here \in Contexts, NEW now \in 0..MaxTime,
               NEW r \in Resources, NEW decision \in UserDecisions, NEW answer \in Snapshots,
               Decide(id, r, decision, here, now, answer)
        PROVE  IInv' /\ AnswersStand
    BY <1>3, DecideIInv
  <1>4. ASSUME NEW c \in Contexts, CloseContext(c.id) PROVE IInv' /\ AnswersStand
    BY <1>4, CloseContextQuiet, QuietCallIInv
  <1>5. CASE UNCHANGED vars
    <2>1. QuietCall
      BY <1>5 DEF vars, QuietCall, IInv, TypeOK
    <2> QED
      BY <2>1, QuietCallIInv
  <1> QED
    BY <1>1, <1>2, <1>3, <1>4, <1>5 DEF Next

LEMMA BrokerIInv == Spec => []IInv
  BY InitIInv, NextIInv, PTL DEF Spec

\* Requests and grants keep their types; nothing is resolved that was not
\* asked for.
THEOREM BrokerTypeOK == Spec => []TypeOK
  BY BrokerIInv, PTL DEF IInv

\* A request is completed exactly when every resource of it has an answer
\* (finalize_if_complete, called at the end of every call).
THEOREM BrokerCompletedIsResolved == Spec => []CompletedIsResolved
  BY BrokerIInv, PTL DEF IInv

\* Whatever an evaluation found before, what the engine was allowed was allowed
\* for the page then shown, in time, and with every authority's consent at that
\* moment (apply_user_decision).
THEOREM BrokerGrantIsFresh == Spec => []GrantIsFresh
  BY BrokerIInv, PTL DEF IInv

\* What the engine was allowed and what is stored as allowed are the same, one
\* to one; nothing allowed in a private context is kept.
THEOREM BrokerGrantsAreConsented == Spec => []GrantsAreConsented
  <1>1. ASSUME IInv PROVE GrantsAreConsented
    <2>1. ASSUME NEW id \in Ids, NEW r \in Resources
          PROVE  Cardinality({g \in granted : g.id = id /\ g.resource = r}) =
                   IF requests[id] # None /\ r \in Resolved(requests[id])
                        /\ requests[id].resolved[r] \in Allowing THEN 1 ELSE 0
      <3> DEFINE S == {g \in granted : g.id = id /\ g.resource = r}
      <3>1. CASE requests[id] # None /\ r \in Resolved(requests[id])
                   /\ requests[id].resolved[r] \in Allowing
        <4>1. PICK g \in granted : g.id = id /\ g.resource = r
          BY <1>1, <3>1 DEF IInv, ConsentHasGrant
        <4>2. S = {g}
          BY <1>1, <4>1 DEF IInv, GrantOnce
        <4> QED
          BY <3>1, <4>2, FS_Singleton
      <3>2. CASE ~(requests[id] # None /\ r \in Resolved(requests[id])
                     /\ requests[id].resolved[r] \in Allowing)
        <4>1. S = {}
          BY <1>1, <3>2 DEF IInv, GrantHasConsent
        <4> QED
          BY <3>2, <4>1, FS_EmptySet
      <3> QED
        BY <3>1, <3>2
    <2> QED
      BY <1>1, <2>1 DEF IInv, KeptIsNormal, GrantsAreConsented
  <1> QED
    BY <1>1, BrokerIInv, PTL

\* The first answer to a resource stands, against any later decision,
\* cancellation, expiry or closing.
THEOREM BrokerFirstAnswerStands == Spec => FirstAnswerStands
  <1>1. AnswersStand =>
          \A id \in Ids : requests[id] # None =>
            \A r \in Resolved(requests[id]) :
              /\ r \in Resolved(requests[id])'
              /\ requests[id].resolved[r] = requests[id].resolved[r]'
    BY DEF AnswersStand, Resolved
  <1> QED
    BY <1>1, BrokerIInv, NextIInv, PTL DEF Spec, FirstAnswerStands
=============================================================================
