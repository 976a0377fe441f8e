----------------------- MODULE ExtensionRuntimeProofs -----------------------
(***************************************************************************)
(* Proofs about ExtensionRuntime, for any instances, leases, manifests,    *)
(* requests and handles, any token life and any length of a run.           *)
(*                                                                         *)
(* Every operation of the ledger but adding lets its leases only decay     *)
(* (Decays): none comes back to life and none that was used up is fresh    *)
(* again.  The tokens are related to the ledger (TokensOK): the lease of a *)
(* token is there, is used up if it was for one use, and had not ended     *)
(* before the token was issued.                                            *)
(***************************************************************************)
EXTENDS ExtensionRuntime, WellFoundedInduction, TLAPS

Lease == Leases(Nat, STRING, STRING, STRING, Nat)

Times == 0..MaxClock \cup {None}

Token == [instance : Instances, place : Places, issued : 1..MaxClock,
          state : {"live", "revoked", "consumed"}, lease : LeaseIds, used : Times]

Typed ==
  /\ clock \in 1..MaxClock /\ ledger \in Seq(Lease)
  /\ session \in [Instances -> Sessions \cup {None}]
  /\ tokens \in Seq(Token)
  /\ process \in [Brokered -> Processes \cup {None}]
  /\ alive \in [Pids -> [instance : Brokered, isolated : BOOLEAN] \cup {None}]
  /\ endedAt \in [LeaseIds -> Times]

\* A lease is in the ledger once, and what has ended does not authorize.
LedgerOK ==
  /\ \A i \in DOMAIN ledger : ledger[i].id \in LeaseIds
  /\ \A i, j \in DOMAIN ledger : ledger[i].id = ledger[j].id => i = j
  /\ \A l \in LeaseIds : endedAt[l] # None =>
       \E i \in DOMAIN ledger : ledger[i].id = l /\ ~ledger[i].active

TokensOK ==
  \A t \in DOMAIN tokens :
    /\ tokens[t].issued <= clock
    /\ tokens[t].state = "consumed" <=> tokens[t].used # None
    /\ tokens[t].used # None => tokens[t].used < tokens[t].issued + TokenLife
    /\ endedAt[tokens[t].lease] # None => tokens[t].issued <= endedAt[tokens[t].lease]
    /\ \E i \in DOMAIN ledger : /\ ledger[i].id = tokens[t].lease
                                /\ ledger[i].lifetime = "once" => ledger[i].consumed

IInv ==
  /\ Typed /\ LedgerOK /\ TokensOK
  /\ LiveTokenRuns /\ OnceIsOnce /\ BrokerAgrees

----------------------------------------------------------------------------
(* What the constants are                                                  *)

LEMMA ConstantTypes ==
  /\ Hour \in Nat /\ MaxMillis \in Nat /\ TokenLife \in Nat \ {0} /\ MaxClock \in Nat \ {0}
  /\ Offers \subseteq Lease /\ None \notin Instances /\ Direct \cap Brokered = {}
  /\ None \notin Sessions /\ None \notin Processes /\ None \notin 0..MaxClock
  <1>1. Hour \in Nat /\ MaxMillis \in Nat
    BY LedgerAssumption, Zenon
  <1> QED
    BY <1>1, RuntimeAssumption, NoneAssumption DEF Lease

LEMMA LeaseFields ==
  ASSUME NEW l \in Lease
  PROVE  /\ l.id \in Nat /\ l.lifetime \in Lifetimes /\ l.active \in BOOLEAN
         /\ l.consumed \in BOOLEAN /\ l.revoked \in BOOLEAN
  BY DEF Lease, Leases

----------------------------------------------------------------------------
(* The ledger                                                              *)

\* The leases of new are those of old, or less than they were.
Decays(old, new) ==
  /\ new \in Seq(Lease) /\ DOMAIN new = DOMAIN old
  /\ \A i \in DOMAIN old :
       /\ new[i].id = old[i].id /\ new[i].lifetime = old[i].lifetime
       /\ old[i].consumed => new[i].consumed
       /\ new[i].active => old[i].active

LEMMA RevokedLeaseIs ==
  ASSUME NEW l \in Lease
  PROVE  /\ RevokedLease(l) \in Lease /\ RevokedLease(l).id = l.id
         /\ RevokedLease(l).lifetime = l.lifetime /\ RevokedLease(l).consumed = l.consumed
         /\ ~RevokedLease(l).active
  BY DEF RevokedLease, Lease, Leases

LEMMA DeactivatedLeaseIs ==
  ASSUME NEW l \in Lease
  PROVE  /\ [l EXCEPT !.active = FALSE] \in Lease
         /\ [l EXCEPT !.active = FALSE].id = l.id
         /\ [l EXCEPT !.active = FALSE].lifetime = l.lifetime
         /\ [l EXCEPT !.active = FALSE].consumed = l.consumed
         /\ ~[l EXCEPT !.active = FALSE].active
  BY DEF Lease, Leases

\* A ledger each of whose leases is as before, revoked or deactivated.
LEMMA LeaseByLease ==
  ASSUME NEW old \in Seq(Lease), NEW new, new = [i \in DOMAIN old |-> new[i]],
         \A i \in DOMAIN old : \/ new[i] = old[i] \/ new[i] = RevokedLease(old[i])
                              \/ new[i] = [old[i] EXCEPT !.active = FALSE]
  PROVE  Decays(old, new)
  <1>1. \A i \in DOMAIN old : old[i] \in Lease
    OBVIOUS
  <1>2. \A i \in DOMAIN old :
          /\ new[i] \in Lease /\ new[i].id = old[i].id /\ new[i].lifetime = old[i].lifetime
          /\ (old[i].consumed => new[i].consumed) /\ (new[i].active => old[i].active)
    <2> SUFFICES ASSUME NEW i \in DOMAIN old
                 PROVE  /\ new[i] \in Lease /\ new[i].id = old[i].id
                        /\ new[i].lifetime = old[i].lifetime
                        /\ (old[i].consumed => new[i].consumed) /\ (new[i].active => old[i].active)
      OBVIOUS
    <2>1. CASE new[i] = old[i]
      BY <1>1, <2>1, Zenon
    <2>2. CASE new[i] = RevokedLease(old[i])
      BY <1>1, <2>2, RevokedLeaseIs, Zenon
    <2>3. CASE new[i] = [old[i] EXCEPT !.active = FALSE]
      <3>1. PICK l \in Lease : l = old[i]
        BY <1>1
      <3>2. PICK m : m = [l EXCEPT !.active = FALSE]
        OBVIOUS
      <3>3. m \in Lease /\ m.id = l.id /\ m.lifetime = l.lifetime /\ m.consumed = l.consumed /\ ~m.active
        BY <3>2, DeactivatedLeaseIs
      <3>4. new[i] = m
        BY <2>3, <3>1, <3>2
      <3> QED
        BY <3>1, <3>3, <3>4, Zenon
    <2> QED
      BY <2>1, <2>2, <2>3
  <1>3. new \in Seq(Lease) /\ DOMAIN new = DOMAIN old
    BY <1>2
  <1> QED
    BY <1>2, <1>3, Zenon DEF Decays

LEMMA RevokedDecays ==
  ASSUME NEW old \in Seq(Lease), NEW id
  PROVE  Decays(old, Revoked(old, id))
  BY LeaseByLease DEF Revoked

LEMMA ProfileRevokedDecays ==
  ASSUME NEW old \in Seq(Lease), NEW profile
  PROVE  Decays(old, ProfileRevoked(old, profile))
  BY LeaseByLease DEF ProfileRevoked

\* What deactivate_matching does, whatever leases match.
LEMMA SomeDeactivated ==
  ASSUME NEW old \in Seq(Lease), NEW S
  PROVE  Decays(old, [i \in DOMAIN old |->
                        IF i \in S THEN [old[i] EXCEPT !.active = FALSE] ELSE old[i]])
  <1> DEFINE New == [i \in DOMAIN old |->
                       IF i \in S THEN [old[i] EXCEPT !.active = FALSE] ELSE old[i]]
  <1>1. \A i \in DOMAIN old : old[i] \in Lease
    OBVIOUS
  <1>2. \A i \in DOMAIN old : New[i] = old[i] \/ New[i] = [old[i] EXCEPT !.active = FALSE]
    OBVIOUS
  <1>3. \A i \in DOMAIN old : New[i] \in Lease
    BY <1>1, DeactivatedLeaseIs
  <1>4. New \in Seq(Lease) /\ DOMAIN New = DOMAIN old
    BY <1>3
  <1>5. \A i \in DOMAIN old :
          /\ New[i].id = old[i].id /\ New[i].lifetime = old[i].lifetime
          /\ (old[i].consumed => New[i].consumed) /\ (New[i].active => old[i].active)
    <2> HIDE DEF New
    <2> SUFFICES ASSUME NEW i \in DOMAIN old
                 PROVE  /\ New[i].id = old[i].id /\ New[i].lifetime = old[i].lifetime
                        /\ (old[i].consumed => New[i].consumed)
                        /\ (New[i].active => old[i].active)
      OBVIOUS
    <2>1. CASE New[i] = old[i]
      BY <2>1
    <2>2. CASE New[i] = [old[i] EXCEPT !.active = FALSE]
      BY <1>1, <2>2, DeactivatedLeaseIs, Zenon
    <2> QED
      BY <1>2, <2>1, <2>2
  <1>6. Decays(old, New)
    <2> HIDE DEF New
    <2> QED
      BY <1>4, <1>5, Zenon DEF Decays
  <1> QED
    BY <1>6

LEMMA TabClosedDecays ==
  ASSUME NEW old \in Seq(Lease), NEW tab
  PROVE  Decays(old, TabClosed(old, tab))
  <1> DEFINE S == {i \in DOMAIN old : old[i].active /\ ~old[i].revoked
                             /\ old[i].lifetime = "until_tab_closes" /\ old[i].tab = tab}
  <1>1. TabClosed(old, tab) = [i \in DOMAIN old |->
              IF i \in S THEN [old[i] EXCEPT !.active = FALSE] ELSE old[i]]
    BY DEF TabClosed, Deactivated, Lasting
  <1> HIDE DEF S
  <1> QED
    BY <1>1, SomeDeactivated

LEMMA WebsiteClosedDecays ==
  ASSUME NEW old \in Seq(Lease), NEW profile, NEW site
  PROVE  Decays(old, WebsiteClosed(old, profile, site))
  <1> DEFINE S == {i \in DOMAIN old : old[i].active /\ ~old[i].revoked
                             /\ old[i].lifetime = "until_website_closes" /\ old[i].profile = profile
                             /\ site \in Websites(old[i])}
  <1>1. WebsiteClosed(old, profile, site) = [i \in DOMAIN old |->
              IF i \in S THEN [old[i] EXCEPT !.active = FALSE] ELSE old[i]]
    BY DEF WebsiteClosed, Deactivated, Lasting
  <1> HIDE DEF S
  <1> QED
    BY <1>1, SomeDeactivated

LEMMA SessionClosedDecays ==
  ASSUME NEW old \in Seq(Lease), NEW browser
  PROVE  Decays(old, SessionClosed(old, browser))
  <1> DEFINE S == {i \in DOMAIN old : old[i].active /\ ~old[i].revoked
                             /\ old[i].lifetime = "until_browser_closes" /\ old[i].session = browser}
  <1>1. SessionClosed(old, browser) = [i \in DOMAIN old |->
              IF i \in S THEN [old[i] EXCEPT !.active = FALSE] ELSE old[i]]
    BY DEF SessionClosed, Deactivated, Lasting
  <1> HIDE DEF S
  <1> QED
    BY <1>1, SomeDeactivated

LEMMA ExpiredDecays ==
  ASSUME NEW old \in Seq(Lease), NEW now
  PROVE  Decays(old, ExpiredAt(old, now))
  <1> DEFINE S == {i \in DOMAIN old : old[i].active /\ ~old[i].revoked
                             /\ old[i].lifetime = "one_hour" /\ old[i].expires > 0
                             /\ now >= old[i].expires}
  <1>1. ExpiredAt(old, now) = [i \in DOMAIN old |->
              IF i \in S THEN [old[i] EXCEPT !.active = FALSE] ELSE old[i]]
    BY DEF ExpiredAt, Deactivated, Lasting
  <1> HIDE DEF S
  <1> QED
    BY <1>1, SomeDeactivated

LEMMA ConsumedDecays ==
  ASSUME NEW old \in Seq(Lease), NEW k \in DOMAIN old
  PROVE  /\ Decays(old, Consumed(old, k))
         /\ old[k].lifetime = "once" => Consumed(old, k)[k].consumed
  <1> DEFINE Spent == [old[k] EXCEPT !.consumed = TRUE, !.active = FALSE]
  <1>1. \A i \in DOMAIN old : old[i] \in Lease
    OBVIOUS
  <1>2. /\ Spent \in Lease /\ Spent.id = old[k].id /\ Spent.lifetime = old[k].lifetime
        /\ Spent.consumed /\ ~Spent.active
    BY <1>1 DEF Lease, Leases
  <1>3. CASE old[k].lifetime = "once"
    <2>1. Consumed(old, k) = [old EXCEPT ![k] = Spent]
      BY <1>3 DEF Consumed
    <2> HIDE DEF Spent
    <2>2. /\ Consumed(old, k) \in Seq(Lease) /\ DOMAIN Consumed(old, k) = DOMAIN old
          /\ \A i \in DOMAIN old : Consumed(old, k)[i] = IF i = k THEN Spent ELSE old[i]
      BY <1>2, <2>1
    <2> QED
      BY <1>1, <1>2, <2>2 DEF Decays
  <1>4. CASE old[k].lifetime # "once"
    BY <1>4 DEF Consumed, Decays
  <1> QED
    BY <1>3, <1>4

----------------------------------------------------------------------------
(* Steps of the ledger                                                     *)

\* A lease ends now if it is no longer active.
LEMMA DecayKeepsLedger ==
  ASSUME IInv, NEW new, Decays(ledger, new), LedgerBecomes(new)
  PROVE  /\ ledger' \in Seq(Lease) /\ endedAt' \in [LeaseIds -> Times] /\ LedgerOK'
         /\ \A l \in LeaseIds : endedAt'[l] # endedAt[l] => endedAt'[l] = clock
         /\ \A l \in LeaseIds : endedAt'[l] # endedAt[l] => endedAt[l] = None
  <1>1. /\ ledger' = new /\ ledger' \in Seq(Lease) /\ DOMAIN ledger' = DOMAIN ledger
        /\ ledger \in Seq(Lease) /\ endedAt \in [LeaseIds -> Times] /\ clock \in Times
    BY DEF IInv, Typed, LedgerBecomes, Decays, Times
  <1> DEFINE Ends(l) ==
        \E i \in DOMAIN ledger : ledger[i].id = l /\ ledger[i].active /\ ~new[i].active
  <1>2. endedAt' = [l \in LeaseIds |-> IF Ends(l) THEN clock ELSE endedAt[l]]
    BY DEF LedgerBecomes
  <1>3. endedAt' \in [LeaseIds -> Times]
    <2> HIDE DEF Ends
    <2> QED
      BY <1>1, <1>2
  <1>4. \A i \in DOMAIN ledger : /\ new[i].id = ledger[i].id
                                 /\ new[i].active => ledger[i].active
    BY DEF Decays
  <1>5. \A l \in LeaseIds : Ends(l) => endedAt[l] = None
    BY DEF IInv, LedgerOK
  <1>6. LedgerOK'
    <2>1. \A i \in DOMAIN ledger' : ledger'[i].id \in LeaseIds
      BY <1>1, <1>4 DEF IInv, LedgerOK
    <2>2. \A i, j \in DOMAIN ledger' : ledger'[i].id = ledger'[j].id => i = j
      BY <1>1, <1>4 DEF IInv, LedgerOK
    <2>3. ASSUME NEW l \in LeaseIds, endedAt'[l] # None
          PROVE  \E i \in DOMAIN ledger' : ledger'[i].id = l /\ ~ledger'[i].active
      <3>1. CASE Ends(l)
        BY <1>1, <1>4, <3>1
      <3>2. CASE ~Ends(l)
        <4>1. endedAt[l] # None
          BY <1>2, <2>3, <3>2
        <4>2. PICK i \in DOMAIN ledger : ledger[i].id = l /\ ~ledger[i].active
          BY <4>1 DEF IInv, LedgerOK
        <4> QED
          BY <1>1, <1>4, <4>2
      <3> QED
        BY <3>1, <3>2
    <2> QED
      BY <2>1, <2>2, <2>3, <1>1 DEF LedgerOK
  <1>7. \A l \in LeaseIds : endedAt'[l] # endedAt[l] => endedAt'[l] = clock /\ endedAt[l] = None
    <2> HIDE DEF Ends
    <2> QED
      BY <1>2, <1>5
  <1> QED
    BY <1>1, <1>3, <1>6, <1>7

\* A step that lets leases decay and leaves the rest.
LEMMA DecayKeeps ==
  ASSUME IInv, NEW new, Decays(ledger, new), LedgerBecomes(new), UNCHANGED Running
  PROVE  IInv'
  <1>1. /\ ledger' = new /\ UNCHANGED <<clock, session, tokens, process, alive>>
        /\ ledger \in Seq(Lease) /\ tokens \in Seq(Token) /\ clock \in 1..MaxClock
    BY DEF IInv, Typed, LedgerBecomes, Running
  <1>2. /\ ledger' \in Seq(Lease) /\ endedAt' \in [LeaseIds -> Times] /\ LedgerOK'
        /\ \A l \in LeaseIds : endedAt'[l] # endedAt[l] => endedAt'[l] = clock
    BY DecayKeepsLedger
  <1>3. Typed'
    BY <1>1, <1>2 DEF IInv, Typed
  <1>4. \A t \in DOMAIN tokens : tokens[t] \in Token
    BY <1>1
  <1>5. \A t \in DOMAIN tokens : tokens[t].lease \in LeaseIds
    BY <1>4 DEF Token
  <1>6. \A i \in DOMAIN ledger :
          /\ i \in DOMAIN ledger' /\ ledger'[i].id = ledger[i].id
          /\ ledger'[i].lifetime = ledger[i].lifetime
          /\ ledger[i].consumed => ledger'[i].consumed
    BY <1>1 DEF Decays
  <1>7. TokensOK'
    <2> SUFFICES ASSUME NEW t \in DOMAIN tokens
                 PROVE  /\ endedAt'[tokens[t].lease] # None =>
                             tokens[t].issued <= endedAt'[tokens[t].lease]
                        /\ \E i \in DOMAIN ledger' :
                             /\ ledger'[i].id = tokens[t].lease
                             /\ ledger'[i].lifetime = "once" => ledger'[i].consumed
      BY <1>1 DEF TokensOK, IInv
    <2>1. /\ tokens[t].issued <= clock
          /\ endedAt[tokens[t].lease] # None => tokens[t].issued <= endedAt[tokens[t].lease]
      BY DEF IInv, TokensOK
    <2>2. PICK i \in DOMAIN ledger : /\ ledger[i].id = tokens[t].lease
                                     /\ ledger[i].lifetime = "once" => ledger[i].consumed
      BY DEF IInv, TokensOK
    <2>3. endedAt'[tokens[t].lease] \in {clock, endedAt[tokens[t].lease]}
      BY <1>2, <1>5
    <2> QED
      BY <1>6, <2>1, <2>2, <2>3
  <1>8. LiveTokenRuns' /\ BrokerAgrees'
    BY <1>1 DEF IInv, LiveTokenRuns, BrokerAgrees, InState
  <1>9. OnceIsOnce'
    BY <1>1, <1>6 DEF IInv, OnceIsOnce
  <1> QED
    BY <1>2, <1>3, <1>7, <1>8, <1>9 DEF IInv

LEMMA LedgerKeeps ==
  ASSUME IInv, Revoke \/ RevokeProfile \/ CloseTab \/ CloseWebsiteScope
                 \/ CloseBrowserSession \/ Expire
  PROVE  IInv'
  <1>1. ledger \in Seq(Lease)
    BY DEF IInv, Typed
  <1>2. CASE Revoke
    BY <1>1, <1>2, RevokedDecays, DecayKeeps DEF Revoke
  <1>3. CASE RevokeProfile
    BY <1>1, <1>3, ProfileRevokedDecays, DecayKeeps DEF RevokeProfile
  <1>4. CASE CloseTab
    BY <1>1, <1>4, TabClosedDecays, DecayKeeps DEF CloseTab
  <1>5. CASE CloseWebsiteScope
    BY <1>1, <1>5, WebsiteClosedDecays, DecayKeeps DEF CloseWebsiteScope
  <1>6. CASE CloseBrowserSession
    BY <1>1, <1>6, SessionClosedDecays, DecayKeeps DEF CloseBrowserSession
  <1>7. CASE Expire
    BY <1>1, <1>7, ExpiredDecays, DecayKeeps DEF Expire
  <1> QED
    BY <1>2, <1>3, <1>4, <1>5, <1>6, <1>7

LEMMA GrantKeeps == ASSUME IInv, Grant PROVE IInv'
  <1>1. PICK offer \in Offers :
          LET lease == IF offer.lifetime = "one_hour"
                         THEN [offer EXCEPT !.issued = clock, !.expires = clock + Hour]
                         ELSE offer
          IN  CanAdd(ledger, lease) /\ LedgerBecomes(Added(ledger, lease))
    BY DEF Grant
  <1> DEFINE New == IF offer.lifetime = "one_hour"
                      THEN [offer EXCEPT !.issued = clock, !.expires = clock + Hour]
                      ELSE offer
  <1>2. CanAdd(ledger, New) /\ LedgerBecomes(Append(ledger, New))
    BY <1>1 DEF Added
  <1>3. New \in Lease /\ New.id \in LeaseIds
    <2>1. offer \in Lease /\ clock \in Nat /\ Hour \in Nat
      BY ConstantTypes DEF IInv, Typed
    <2> DEFINE Timed == [offer EXCEPT !.issued = clock, !.expires = clock + Hour]
    <2>2. clock + Hour \in Nat
      BY <2>1
    <2>3. Timed \in Lease /\ Timed.id = offer.id
      BY <2>1, <2>2 DEF Lease, Leases
    <2>4. New \in Lease /\ New.id = offer.id
      <3> HIDE DEF Timed
      <3>1. New \in {offer, Timed}
        BY Zenon DEF Timed
      <3> HIDE DEF New
      <3> QED
        BY <2>1, <2>3, <3>1
    <2> HIDE DEF New
    <2> QED
      BY <2>4 DEF LeaseIds
  <1> HIDE DEF New
  <1>4. /\ ledger' = Append(ledger, New) /\ ledger \in Seq(Lease) /\ ledger' \in Seq(Lease)
        /\ UNCHANGED <<clock, session, tokens, process, alive>>
        /\ \A i \in DOMAIN ledger : i \in DOMAIN ledger' /\ ledger'[i] = ledger[i]
        /\ \A i \in DOMAIN ledger' : i \in DOMAIN ledger \/ (i = Len(ledger) + 1 /\ ledger'[i] = New)
    <2>1. /\ ledger' = Append(ledger, New) /\ ledger \in Seq(Lease)
          /\ UNCHANGED <<clock, session, tokens, process, alive>>
      BY <1>2 DEF IInv, Typed, LedgerBecomes, Grant, Running
    <2>2. /\ ledger' \in Seq(Lease) /\ Len(ledger) \in Nat /\ DOMAIN ledger = 1..Len(ledger)
          /\ DOMAIN ledger' = 1..(Len(ledger) + 1) /\ ledger'[Len(ledger) + 1] = New
          /\ \A i \in 1..Len(ledger) : ledger'[i] = ledger[i]
      BY <1>3, <2>1
    <2>3. \A i \in DOMAIN ledger : i \in DOMAIN ledger' /\ ledger'[i] = ledger[i]
      BY <2>2
    <2>4. \A i \in DOMAIN ledger' : i \in DOMAIN ledger \/ (i = Len(ledger) + 1 /\ ledger'[i] = New)
      BY <2>2
    <2> QED
      BY <2>1, <2>2, <2>3, <2>4
  <1>5. \A i \in DOMAIN ledger : ledger[i].id # New.id
    BY <1>2 DEF CanAdd
  <1>6. endedAt' = endedAt
    <2>1. \A i \in DOMAIN ledger : Append(ledger, New)[i] = ledger[i]
      BY <1>4
    <2>2. endedAt' = [l \in LeaseIds |-> endedAt[l]]
      BY <1>2, <2>1 DEF LedgerBecomes
    <2> QED
      BY <2>2 DEF IInv, Typed
  <1>7. Typed'
    BY <1>4, <1>6 DEF IInv, Typed
  <1>8. LedgerOK'
    <2>1. \A i \in DOMAIN ledger' : ledger'[i].id \in LeaseIds
      BY <1>3, <1>4 DEF IInv, LedgerOK
    <2>2. \A i, j \in DOMAIN ledger' : ledger'[i].id = ledger'[j].id => i = j
      BY <1>4, <1>5 DEF IInv, LedgerOK
    <2>3. ASSUME NEW l \in LeaseIds, endedAt'[l] # None
          PROVE  \E i \in DOMAIN ledger' : ledger'[i].id = l /\ ~ledger'[i].active
      BY <1>4, <1>6, <2>3 DEF IInv, LedgerOK
    <2> QED
      BY <2>1, <2>2, <2>3 DEF LedgerOK
  <1>9. TokensOK'
    <2> SUFFICES ASSUME NEW t \in DOMAIN tokens
                 PROVE  \E i \in DOMAIN ledger' :
                          /\ ledger'[i].id = tokens[t].lease
                          /\ ledger'[i].lifetime = "once" => ledger'[i].consumed
      BY <1>4, <1>6 DEF TokensOK, IInv
    <2>1. PICK i \in DOMAIN ledger : /\ ledger[i].id = tokens[t].lease
                                     /\ ledger[i].lifetime = "once" => ledger[i].consumed
      BY DEF IInv, TokensOK
    <2> QED
      BY <1>4, <2>1
  <1>10. LiveTokenRuns' /\ BrokerAgrees'
    BY <1>4 DEF IInv, LiveTokenRuns, BrokerAgrees, InState
  <1>11. OnceIsOnce'
    BY <1>4 DEF IInv, OnceIsOnce
  <1> QED
    BY <1>7, <1>8, <1>9, <1>10, <1>11 DEF IInv

----------------------------------------------------------------------------
(* Steps of the sessions                                                   *)

\* Everything about tokens and leases that does not look at the sessions.
LEMMA TokensUntouched ==
  ASSUME IInv, UNCHANGED <<ledger, clock, tokens, endedAt>>
  PROVE  LedgerOK' /\ TokensOK' /\ OnceIsOnce'
  BY DEF IInv, LedgerOK, TokensOK, OnceIsOnce

LEMMA TokenFields ==
  ASSUME IInv
  PROVE  \A t \in DOMAIN tokens :
           /\ tokens[t] \in Token /\ tokens[t].instance \in Instances
           /\ tokens[t].issued \in 1..MaxClock /\ tokens[t].lease \in LeaseIds
           /\ tokens[t].used \in Times
           /\ tokens[t].state \in {"live", "revoked", "consumed"}
  <1>1. \A t \in DOMAIN tokens : tokens[t] \in Token
    BY DEF IInv, Typed
  <1> QED
    BY <1>1 DEF Token

\* A session that starts has no token yet.
LEMMA RegisteredKeeps ==
  ASSUME IInv, NEW i \in Instances, NEW identity \in Identities, NEW manifest \in Manifests,
         session[i] = None, session' = Registered(i, identity, manifest),
         UNCHANGED <<ledger, clock, tokens, endedAt>>
  PROVE  /\ session' \in [Instances -> Sessions \cup {None}]
         /\ \A j \in Instances : session'[j] = None <=> session[j] = None /\ j # i
         /\ \A j \in Instances \ {i} : session'[j] = session[j]
         /\ LiveTokenRuns'
  <1> DEFINE New == [identity |-> identity, manifest |-> manifest, state |-> "running"]
  <1>1. New \in Sessions /\ New # None /\ New.state = "running"
    BY ConstantTypes DEF Sessions, SessionStates
  <1>2. session' = [session EXCEPT ![i] = New]
    BY DEF Registered
  <1> HIDE DEF New
  <1>3. session \in [Instances -> Sessions \cup {None}]
    BY DEF IInv, Typed
  <1>4. /\ session' \in [Instances -> Sessions \cup {None}] /\ session'[i] = New
        /\ \A j \in Instances \ {i} : session'[j] = session[j]
    BY <1>1, <1>2, <1>3
  <1>5. \A t \in DOMAIN tokens : tokens[t].instance \in Instances
    BY TokenFields
  <1>6. LiveTokenRuns'
    BY <1>1, <1>4, <1>5 DEF IInv, LiveTokenRuns, InState
  <1> QED
    BY <1>1, <1>4, <1>6

LEMMA RegisterKeeps == ASSUME IInv, NEW i \in Instances, Register(i) PROVE IInv'
  <1>1. PICK identity \in Identities, manifest \in Manifests, decision \in Decisions :
          MayRegister(i, identity, manifest, decision)
          /\ session' = Registered(i, identity, manifest)
    BY DEF Register
  <1>2. session[i] = None /\ i \in Direct /\ UNCHANGED <<ledger, clock, tokens, process, alive, endedAt>>
    BY <1>1 DEF MayRegister, Register
  <1>3. /\ session' \in [Instances -> Sessions \cup {None}] /\ LiveTokenRuns'
        /\ \A j \in Instances \ {i} : session'[j] = session[j]
    BY <1>1, <1>2, RegisteredKeeps
  <1>4. BrokerAgrees'
    <2>1. \A j \in Brokered : j \in Instances \ {i}
      BY <1>2, ConstantTypes DEF Instances
    <2> QED
      BY <1>2, <1>3, <2>1 DEF IInv, BrokerAgrees, InState
  <1>5. Typed'
    BY <1>2, <1>3 DEF IInv, Typed
  <1> QED
    BY <1>2, <1>3, <1>4, <1>5, TokensUntouched DEF IInv

\* The tokens of i are no longer live, the others are as they were.
LEMMA TokensRevokedIs ==
  ASSUME IInv, NEW i \in Instances
  PROVE  /\ TokensRevoked(i) \in Seq(Token) /\ DOMAIN TokensRevoked(i) = DOMAIN tokens
         /\ \A t \in DOMAIN tokens :
              /\ TokensRevoked(i)[t].instance = tokens[t].instance
              /\ TokensRevoked(i)[t].issued = tokens[t].issued
              /\ TokensRevoked(i)[t].lease = tokens[t].lease
              /\ TokensRevoked(i)[t].used = tokens[t].used
              /\ \/ TokensRevoked(i)[t].state = tokens[t].state
                 \/ tokens[t].state = "live" /\ TokensRevoked(i)[t].state = "revoked"
              /\ TokensRevoked(i)[t].state = "live" =>
                   tokens[t].state = "live" /\ tokens[t].instance # i
  <1>1. \A t \in DOMAIN tokens : tokens[t] \in Token
    BY DEF IInv, Typed
  <1>2. ASSUME NEW r \in Token
        PROVE  /\ [r EXCEPT !.state = "revoked"] \in Token
               /\ [r EXCEPT !.state = "revoked"].instance = r.instance
               /\ [r EXCEPT !.state = "revoked"].issued = r.issued
               /\ [r EXCEPT !.state = "revoked"].lease = r.lease
               /\ [r EXCEPT !.state = "revoked"].used = r.used
               /\ [r EXCEPT !.state = "revoked"].state = "revoked"
    BY DEF Token
  <1>3. tokens \in Seq(Token)
    BY DEF IInv, Typed
  <1>4. \A t \in DOMAIN tokens : TokensRevoked(i)[t] =
          IF tokens[t].instance = i /\ tokens[t].state = "live"
            THEN [tokens[t] EXCEPT !.state = "revoked"] ELSE tokens[t]
    BY DEF TokensRevoked
  <1>5. DOMAIN TokensRevoked(i) = DOMAIN tokens
    BY DEF TokensRevoked
  <1>6. \A t \in DOMAIN tokens : TokensRevoked(i)[t] \in Token
    BY <1>1, <1>2, <1>4
  <1>7. TokensRevoked(i) \in Seq(Token)
    BY <1>3, <1>6 DEF TokensRevoked
  <1>8. ASSUME NEW t \in DOMAIN tokens
        PROVE  /\ TokensRevoked(i)[t].instance = tokens[t].instance
               /\ TokensRevoked(i)[t].issued = tokens[t].issued
               /\ TokensRevoked(i)[t].lease = tokens[t].lease
               /\ TokensRevoked(i)[t].used = tokens[t].used
               /\ \/ TokensRevoked(i)[t].state = tokens[t].state
                  \/ tokens[t].state = "live" /\ TokensRevoked(i)[t].state = "revoked"
               /\ TokensRevoked(i)[t].state = "live" =>
                    tokens[t].state = "live" /\ tokens[t].instance # i
    <2>1. CASE tokens[t].instance = i /\ tokens[t].state = "live"
      <3>1. TokensRevoked(i)[t] = [tokens[t] EXCEPT !.state = "revoked"]
        BY <1>4, <2>1
      <3> QED
        BY <1>1, <1>2, <2>1, <3>1
    <2>2. CASE ~(tokens[t].instance = i /\ tokens[t].state = "live")
      <3>1. TokensRevoked(i)[t] = tokens[t]
        BY <1>4, <2>2
      <3> QED
        BY <2>2, <3>1
    <2> QED
      BY <2>1, <2>2
  <1> QED
    BY <1>5, <1>7, <1>8

LEMMA RevokingKeeps ==
  ASSUME IInv, NEW i \in Instances, tokens' = TokensRevoked(i),
         UNCHANGED <<ledger, clock, endedAt>>
  PROVE  LedgerOK' /\ TokensOK' /\ OnceIsOnce' /\ tokens' \in Seq(Token)
  <1>1. /\ tokens' \in Seq(Token) /\ DOMAIN tokens' = DOMAIN tokens
        /\ \A t \in DOMAIN tokens :
             /\ tokens'[t].issued = tokens[t].issued /\ tokens'[t].lease = tokens[t].lease
             /\ tokens'[t].used = tokens[t].used
             /\ \/ tokens'[t].state = tokens[t].state
                \/ tokens[t].state = "live" /\ tokens'[t].state = "revoked"
    BY TokensRevokedIs
  <1>2. TokensOK'
    <2> SUFFICES ASSUME NEW t \in DOMAIN tokens
                 PROVE  /\ tokens'[t].issued <= clock'
                        /\ tokens'[t].state = "consumed" <=> tokens'[t].used # None
                        /\ tokens'[t].used # None => tokens'[t].used < tokens'[t].issued + TokenLife
                        /\ endedAt'[tokens'[t].lease] # None =>
                             tokens'[t].issued <= endedAt'[tokens'[t].lease]
                        /\ \E k \in DOMAIN ledger' :
                             /\ ledger'[k].id = tokens'[t].lease
                             /\ ledger'[k].lifetime = "once" => ledger'[k].consumed
      BY <1>1 DEF TokensOK
    <2>1. /\ tokens[t].issued <= clock
          /\ tokens[t].state = "consumed" <=> tokens[t].used # None
          /\ tokens[t].used # None => tokens[t].used < tokens[t].issued + TokenLife
          /\ endedAt[tokens[t].lease] # None => tokens[t].issued <= endedAt[tokens[t].lease]
          /\ \E k \in DOMAIN ledger : /\ ledger[k].id = tokens[t].lease
                                      /\ ledger[k].lifetime = "once" => ledger[k].consumed
      BY DEF IInv, TokensOK
    <2> QED
      BY <1>1, <2>1
  <1>3. LedgerOK' /\ OnceIsOnce'
    BY <1>1 DEF IInv, LedgerOK, OnceIsOnce
  <1> QED
    BY <1>1, <1>2, <1>3

\* Ending or suspending a session.
LEMMA HaltedKeeps ==
  ASSUME IInv, NEW i \in Instances, NEW state \in SessionStates, session[i] # None,
         session' = [session EXCEPT ![i].state = state], tokens' = TokensRevoked(i),
         UNCHANGED <<ledger, clock, endedAt>>
  PROVE  /\ session' \in [Instances -> Sessions \cup {None}] /\ tokens' \in Seq(Token)
         /\ session'[i] # None /\ session'[i].state = state
         /\ \A j \in Instances \ {i} : session'[j] = session[j]
         /\ LedgerOK' /\ TokensOK' /\ OnceIsOnce' /\ LiveTokenRuns'
  <1>1. session \in [Instances -> Sessions \cup {None}] /\ session[i] \in Sessions
    BY DEF IInv, Typed
  <1>2. [session[i] EXCEPT !.state = state] \in Sessions
        /\ [session[i] EXCEPT !.state = state].state = state
    BY <1>1 DEF Sessions
  <1>3. session' = [session EXCEPT ![i] = [session[i] EXCEPT !.state = state]]
    OBVIOUS
  <1>4. /\ session' \in [Instances -> Sessions \cup {None}]
        /\ session'[i] = [session[i] EXCEPT !.state = state]
        /\ \A j \in Instances \ {i} : session'[j] = session[j]
    BY <1>1, <1>2, <1>3
  <1>5. session'[i] # None /\ session'[i].state = state
    BY <1>2, <1>4, ConstantTypes
  <1>6. LedgerOK' /\ TokensOK' /\ OnceIsOnce' /\ tokens' \in Seq(Token)
    BY RevokingKeeps
  <1>7. LiveTokenRuns'
    <2> SUFFICES ASSUME NEW t \in DOMAIN tokens', tokens'[t].state = "live"
                 PROVE  session'[tokens'[t].instance] # None
                        /\ session'[tokens'[t].instance].state = "running"
      BY DEF LiveTokenRuns, InState
    <2>1. /\ t \in DOMAIN tokens /\ tokens'[t].instance = tokens[t].instance
          /\ tokens[t].state = "live" /\ tokens[t].instance # i
      BY TokensRevokedIs
    <2>2. tokens[t].instance \in Instances
      BY <2>1, TokenFields
    <2>3. session[tokens[t].instance] # None /\ session[tokens[t].instance].state = "running"
      BY <2>1 DEF IInv, LiveTokenRuns, InState
    <2> QED
      BY <1>4, <2>1, <2>2, <2>3
  <1> QED
    BY <1>4, <1>5, <1>6, <1>7

LEMMA DirectIsNotBrokered ==
  ASSUME NEW i \in Direct
  PROVE  i \in Instances /\ \A j \in Brokered : j \in Instances \ {i}
  BY ConstantTypes DEF Instances

LEMMA SuspendKeeps == ASSUME IInv, NEW i \in Instances, Suspend(i) PROVE IInv'
  <1>1. /\ i \in Direct /\ session[i] # None /\ "suspended" \in SessionStates
        /\ session' = [session EXCEPT ![i].state = "suspended"] /\ tokens' = TokensRevoked(i)
        /\ UNCHANGED <<ledger, clock, process, alive, endedAt>>
    BY DEF Suspend, InState, SessionStates
  <1>2. /\ session' \in [Instances -> Sessions \cup {None}] /\ tokens' \in Seq(Token)
        /\ \A j \in Instances \ {i} : session'[j] = session[j]
        /\ LedgerOK' /\ TokensOK' /\ OnceIsOnce' /\ LiveTokenRuns'
    BY <1>1, HaltedKeeps
  <1>3. BrokerAgrees'
    BY <1>1, <1>2, DirectIsNotBrokered DEF IInv, BrokerAgrees, InState
  <1>4. Typed'
    BY <1>1, <1>2 DEF IInv, Typed
  <1> QED
    BY <1>2, <1>3, <1>4 DEF IInv

LEMMA TerminateKeeps == ASSUME IInv, NEW i \in Instances, Terminate(i) PROVE IInv'
  <1>1. /\ i \in Direct /\ session[i] # None /\ "terminated" \in SessionStates
        /\ session' = [session EXCEPT ![i].state = "terminated"] /\ tokens' = TokensRevoked(i)
        /\ UNCHANGED <<ledger, clock, process, alive, endedAt>>
    BY DEF Terminate, Ended, SessionStates
  <1>2. /\ session' \in [Instances -> Sessions \cup {None}] /\ tokens' \in Seq(Token)
        /\ \A j \in Instances \ {i} : session'[j] = session[j]
        /\ LedgerOK' /\ TokensOK' /\ OnceIsOnce' /\ LiveTokenRuns'
    BY <1>1, HaltedKeeps
  <1>3. BrokerAgrees'
    BY <1>1, <1>2, DirectIsNotBrokered DEF IInv, BrokerAgrees, InState
  <1>4. Typed'
    BY <1>1, <1>2 DEF IInv, Typed
  <1> QED
    BY <1>2, <1>3, <1>4 DEF IInv

\* No live token waits for a resumption: the suspension revoked them.
LEMMA ResumeKeeps == ASSUME IInv, NEW i \in Instances, Resume(i) PROVE IInv'
  <1>1. /\ i \in Direct /\ session[i] # None
        /\ session' = [session EXCEPT ![i].state = "running"]
        /\ UNCHANGED <<ledger, clock, tokens, process, alive, endedAt>>
    BY DEF Resume, InState
  <1>2. session \in [Instances -> Sessions \cup {None}] /\ session[i] \in Sessions
    BY <1>1 DEF IInv, Typed
  <1> DEFINE New == [session[i] EXCEPT !.state = "running"]
  <1>3. New \in Sessions /\ New.state = "running"
    BY <1>2 DEF Sessions, SessionStates
  <1>4. session' = [session EXCEPT ![i] = New]
    BY <1>1
  <1> HIDE DEF New
  <1>5. /\ session' \in [Instances -> Sessions \cup {None}] /\ session'[i] = New
        /\ \A j \in Instances \ {i} : session'[j] = session[j]
    BY <1>2, <1>3, <1>4
  <1>6. LiveTokenRuns'
    BY <1>1, <1>3, <1>5, TokenFields, ConstantTypes DEF IInv, LiveTokenRuns, InState
  <1>7. BrokerAgrees'
    BY <1>1, <1>5, DirectIsNotBrokered DEF IInv, BrokerAgrees, InState
  <1>8. Typed'
    BY <1>1, <1>5 DEF IInv, Typed
  <1> QED
    BY <1>1, <1>6, <1>7, <1>8, TokensUntouched DEF IInv

----------------------------------------------------------------------------
(* Steps of the processes                                                  *)

\* A termination, whatever the platform does.
LEMMA BrokerTerminateKeeps == ASSUME IInv, NEW i \in Brokered, BrokerTerminate(i) PROVE IInv'
  <1>1. /\ i \in Instances /\ process[i] # None /\ session[i] # None
        /\ Ended(i) /\ UNCHANGED <<ledger, clock, endedAt>>
    BY DEF BrokerTerminate, BrokerFrame, Instances, IInv, BrokerAgrees
  <1>2. /\ session' \in [Instances -> Sessions \cup {None}] /\ tokens' \in Seq(Token)
        /\ session'[i] # None /\ session'[i].state = "terminated"
        /\ \A j \in Instances \ {i} : session'[j] = session[j]
        /\ LedgerOK' /\ TokensOK' /\ OnceIsOnce' /\ LiveTokenRuns'
    <2>1. CASE session[i].state # "terminated"
      <3>1. /\ session' = [session EXCEPT ![i].state = "terminated"]
            /\ tokens' = TokensRevoked(i) /\ "terminated" \in SessionStates
        BY <1>1, <2>1 DEF Ended, SessionStates
      <3> QED
        BY <1>1, <3>1, HaltedKeeps
    <2>2. CASE session[i].state = "terminated"
      <3>1. UNCHANGED <<session, tokens>>
        BY <2>2, <1>1 DEF Ended
      <3>2. LiveTokenRuns'
        BY <3>1 DEF IInv, LiveTokenRuns, InState
      <3> QED
        BY <1>1, <2>2, <3>1, <3>2, TokensUntouched DEF IInv, Typed
    <2> QED
      BY <2>1, <2>2
  <1>3. /\ process \in [Brokered -> Processes \cup {None}] /\ process[i] \in Processes
        /\ alive \in [Pids -> [instance : Brokered, isolated : BOOLEAN] \cup {None}]
    BY <1>1 DEF IInv, Typed
  <1>4. /\ process' \in [Brokered -> Processes \cup {None}]
        /\ process'[i] # None /\ process'[i].pid = process[i].pid
        /\ \A j \in Brokered \ {i} : process'[j] = process[j]
        /\ alive' \in [Pids -> [instance : Brokered, isolated : BOOLEAN] \cup {None}]
    <2>1. CASE UNCHANGED <<process, alive>>
      BY <1>1, <1>3, <2>1
    <2>2. CASE /\ process' = [process EXCEPT ![i].confirmed = TRUE]
               /\ alive' = [alive EXCEPT ![process[i].pid] = None]
      <3> DEFINE New == [process[i] EXCEPT !.confirmed = TRUE]
      <3>1. New \in Processes /\ New.pid = process[i].pid
        BY <1>3 DEF Processes
      <3>2. process' = [process EXCEPT ![i] = New]
        BY <2>2
      <3> HIDE DEF New
      <3>3. /\ process' \in [Brokered -> Processes \cup {None}] /\ process'[i] = New
            /\ \A j \in Brokered \ {i} : process'[j] = process[j]
        BY <1>3, <3>1, <3>2
      <3>4. alive' \in [Pids -> [instance : Brokered, isolated : BOOLEAN] \cup {None}]
        <4> DEFINE Some == [instance : Brokered, isolated : BOOLEAN]
        <4> HIDE DEF Some
        <4>1. alive \in [Pids -> Some \cup {None}] => alive' \in [Pids -> Some \cup {None}]
          BY <2>2
        <4> QED
          BY <1>3, <4>1 DEF Some
      <3> QED
        BY <3>1, <3>3, <3>4, ConstantTypes
    <2> QED
      BY <2>1, <2>2 DEF BrokerTerminate
  <1>5. BrokerAgrees'
    <2>1. \A j \in Brokered : j \in Instances
      BY DEF Instances
    <2>2. \A j \in Brokered : process'[j] # None <=> session'[j] # None
      BY <1>1, <1>2, <1>4, <2>1 DEF IInv, BrokerAgrees
    <2>3. \A j \in Brokered : process'[j] # None => process'[j].pid = process[j].pid /\ process[j] # None
      BY <1>1, <1>4
    <2>4. \A j, k \in Brokered : process'[j] # None /\ process'[k] # None /\ j # k =>
            process'[j].pid # process'[k].pid
      BY <2>3 DEF IInv, BrokerAgrees
    <2>5. ASSUME NEW j \in Brokered, process'[j] # None /\ process'[j].confirmed
          PROVE  session'[j] # None /\ session'[j].state = "terminated"
      <3>1. CASE j = i
        BY <1>2, <3>1
      <3>2. CASE j # i
        <4>1. process[j] # None /\ process[j].confirmed
          BY <1>4, <2>5, <3>2
        <4> QED
          BY <1>2, <2>1, <3>2, <4>1 DEF IInv, BrokerAgrees, InState
      <3> QED
        BY <3>1, <3>2
    <2> QED
      BY <2>2, <2>4, <2>5 DEF BrokerAgrees, InState
  <1>6. Typed'
    BY <1>1, <1>2, <1>4 DEF IInv, Typed
  <1> QED
    BY <1>2, <1>5, <1>6 DEF IInv

LEMMA StartedIs ==
  ASSUME IInv, NEW i \in Brokered, NEW p \in Pids, NEW isolated \in BOOLEAN,
         Started(i, p, isolated)
  PROVE  alive' \in [Pids -> [instance : Brokered, isolated : BOOLEAN] \cup {None}]
  <1> DEFINE Some == [instance : Brokered, isolated : BOOLEAN]
             New == [instance |-> i, isolated |-> isolated]
  <1>1. New \in Some
    OBVIOUS
  <1>2. alive \in [Pids -> Some \cup {None}]
    BY DEF IInv, Typed
  <1>3. alive' = [alive EXCEPT ![p] = New]
    BY DEF Started
  <1> HIDE DEF Some, New
  <1>4. alive' \in [Pids -> Some \cup {None}]
    BY <1>1, <1>2, <1>3
  <1> QED
    BY <1>4 DEF Some

LEMMA LaunchKeeps == ASSUME IInv, NEW i \in Brokered, Launch(i) PROVE IInv'
  <1>1. PICK identity \in Identities, manifest \in Manifests, decision \in Decisions, p \in Pids :
          /\ MayLaunch(i, identity, manifest, decision) /\ Started(i, p, TRUE) /\ ~Tracked(p)
          /\ session' = Registered(i, identity, manifest)
          /\ process' = [process EXCEPT ![i] = [pid |-> p, confirmed |-> FALSE]]
    BY DEF Launch
  <1>2. /\ i \in Instances /\ session[i] = None /\ process[i] = None
        /\ UNCHANGED <<ledger, clock, tokens, endedAt>>
    BY <1>1 DEF MayLaunch, MayRegister, Launch, BrokerFrame, Instances
  <1>3. /\ session' \in [Instances -> Sessions \cup {None}] /\ LiveTokenRuns'
        /\ \A j \in Instances : session'[j] = None <=> session[j] = None /\ j # i
        /\ \A j \in Instances \ {i} : session'[j] = session[j]
    BY <1>1, <1>2, RegisteredKeeps
  <1> DEFINE New == [pid |-> p, confirmed |-> FALSE]
  <1>4. New \in Processes /\ New # None /\ New.pid = p /\ ~New.confirmed
    <2>1. New \in Processes /\ New.pid = p
      BY DEF Processes
    <2>2. New.confirmed = FALSE
      BY Zenon
    <2> HIDE DEF New
    <2> QED
      BY <2>1, <2>2, ConstantTypes
  <1>5. process' = [process EXCEPT ![i] = New]
    BY <1>1
  <1> HIDE DEF New
  <1>6. /\ process' \in [Brokered -> Processes \cup {None}] /\ process'[i] = New
        /\ \A j \in Brokered \ {i} : process'[j] = process[j]
    BY <1>4, <1>5 DEF IInv, Typed
  <1>7. alive' \in [Pids -> [instance : Brokered, isolated : BOOLEAN] \cup {None}]
    BY <1>1, StartedIs
  <1>8. BrokerAgrees'
    <2>1. \A j \in Brokered : j \in Instances
      BY DEF Instances
    <2>2. \A j \in Brokered : process'[j] # None <=> session'[j] # None
      BY <1>2, <1>3, <1>4, <1>6, <2>1 DEF IInv, BrokerAgrees
    <2>3. \A j \in Brokered \ {i} : process[j] # None => process[j].pid # p
      BY <1>1 DEF Tracked
    <2>4. \A j, k \in Brokered : process'[j] # None /\ process'[k] # None /\ j # k =>
            process'[j].pid # process'[k].pid
      BY <1>4, <1>6, <2>3 DEF IInv, BrokerAgrees
    <2>5. \A j \in Brokered : process'[j] # None /\ process'[j].confirmed =>
            session'[j] # None /\ session'[j].state = "terminated"
      BY <1>3, <1>4, <1>6, <2>1 DEF IInv, BrokerAgrees, InState
    <2> QED
      BY <2>2, <2>4, <2>5 DEF BrokerAgrees, InState
  <1>9. Typed'
    BY <1>2, <1>3, <1>6, <1>7 DEF IInv, Typed
  <1> QED
    BY <1>2, <1>3, <1>8, <1>9, TokensUntouched DEF IInv

\* Steps that only concern what runs on the platform.
LEMMA PlatformKeeps ==
  ASSUME IInv, UNCHANGED <<ledger, clock, session, tokens, process, endedAt>>,
         alive' \in [Pids -> [instance : Brokered, isolated : BOOLEAN] \cup {None}]
  PROVE  IInv'
  BY DEF IInv, Typed, LedgerOK, TokensOK, LiveTokenRuns, OnceIsOnce, BrokerAgrees, InState

LEMMA UntrackedKeeps ==
  ASSUME IInv, NEW i \in Brokered, LaunchAmbiguous(i) \/ LaunchRolledBack(i)
  PROVE  IInv'
  <1>1. UNCHANGED <<ledger, clock, session, tokens, process, endedAt>>
    BY DEF LaunchAmbiguous, LaunchRolledBack, BrokerFrame
  <1>2. (\E p \in Pids, b \in BOOLEAN : Started(i, p, b)) \/ UNCHANGED alive
    BY DEF LaunchAmbiguous, LaunchRolledBack
  <1>3. alive' \in [Pids -> [instance : Brokered, isolated : BOOLEAN] \cup {None}]
    BY <1>2, StartedIs DEF IInv, Typed
  <1> QED
    BY <1>1, <1>3, PlatformKeeps

LEMMA ExitKeeps == ASSUME IInv, NEW p \in Pids, Exit(p) PROVE IInv'
  <1> DEFINE Some == [instance : Brokered, isolated : BOOLEAN]
  <1>1. alive \in [Pids -> Some \cup {None}] /\ alive' = [alive EXCEPT ![p] = None]
    BY DEF IInv, Typed, Exit
  <1> HIDE DEF Some
  <1>2. alive' \in [Pids -> Some \cup {None}]
    BY <1>1
  <1> QED
    BY <1>2, PlatformKeeps DEF Exit, Some

LEMMA TickKeeps == ASSUME IInv, Tick PROVE IInv'
  <1>1. clock \in 1..MaxClock /\ clock < MaxClock /\ clock' = clock + 1 /\ MaxClock \in Nat
    BY ConstantTypes DEF IInv, Typed, Tick
  <1>2. UNCHANGED <<ledger, session, tokens, process, alive, endedAt>>
    BY DEF Tick
  <1>3. clock' \in 1..MaxClock
    BY <1>1
  <1>4. Typed'
    BY <1>2, <1>3 DEF IInv, Typed
  <1>5. TokensOK'
    <2>1. \A t \in DOMAIN tokens : tokens[t].issued \in Nat /\ tokens[t].issued <= clock
      BY TokenFields DEF IInv, TokensOK
    <2>2. \A t \in DOMAIN tokens : tokens[t].issued <= clock'
      BY <1>1, <2>1
    <2> QED
      BY <1>2, <2>2 DEF IInv, TokensOK
  <1> QED
    BY <1>2, <1>4, <1>5 DEF IInv, LedgerOK, LiveTokenRuns, OnceIsOnce, BrokerAgrees, InState

----------------------------------------------------------------------------
(* Steps of the tokens                                                     *)

LEMMA HasLeast ==
  ASSUME NEW T \in SUBSET Nat, T # {}
  PROVE  \E i \in T : \A j \in T : i <= j
  <1>1. PICK i \in T : \A j \in T : ~(<<j, i>> \in OpToRel(<, Nat))
    BY NatLessThanWellFounded, WFMin, Zenon
  <1>2. \A j \in T : ~(j < i)
    BY <1>1 DEF OpToRel
  <1> QED
    BY <1>2

\* The lease a request is given is one that authorizes it.
LEMMA ChosenIs ==
  ASSUME IInv, NEW manifest, NEW permission, NEW ctx,
         Authorizing(ledger, manifest, permission, ctx) # {}
  PROVE  LET chosen == ChosenLease(ledger, manifest, permission, ctx)
         IN  /\ chosen \in DOMAIN ledger
             /\ ledger[chosen].active /\ ~ledger[chosen].consumed
  <1> DEFINE S == Authorizing(ledger, manifest, permission, ctx)
             k == ChosenLease(ledger, manifest, permission, ctx)
  <1>1. S \subseteq DOMAIN ledger
    BY Zenon DEF Authorizing
  <1>2. DOMAIN ledger \subseteq Nat
    BY DEF IInv, Typed
  <1>3. \A i \in S : ledger[i].active /\ ~ledger[i].consumed
    BY Zenon DEF Authorizing, Authorizes
  <1>4. k = CHOOSE i \in S : \A j \in S : i <= j
    BY Zenon DEF ChosenLease
  <1> HIDE DEF S, k
  <1>5. \E i \in S : \A j \in S : i <= j
    <2>1. S \in SUBSET Nat /\ S # {}
      BY <1>1, <1>2 DEF S
    <2> QED
      BY <2>1, HasLeast, Zenon
  <1>6. k \in S
    BY <1>4, <1>5
  <1>7. k \in DOMAIN ledger /\ ledger[k].active /\ ~ledger[k].consumed
    BY <1>1, <1>3, <1>6
  <1> QED
    BY <1>7 DEF k

LEMMA IssueKeeps == ASSUME IInv, NEW i \in Instances, Issue(i) PROVE IInv'
  <1>1. PICK identity \in Identities, place \in Places, click \in BOOLEAN, open \in Opens :
          LET manifest == session[i].manifest
              ctx == LeaseContext(identity, place, click, open, clock)
              chosen == ChosenLease(ledger, manifest, place.permission, ctx)
          IN  /\ Matches(i, identity)
              /\ Declares(manifest, place.permission)
              /\ clock <= MaxMillis - TokenLife
              /\ Authorizing(ledger, manifest, place.permission, ctx) # {}
              /\ LedgerBecomes(Consumed(ledger, chosen))
              /\ tokens' = Append(tokens,
                   [instance |-> i, place |-> place, issued |-> clock, state |-> "live",
                    lease |-> ledger[chosen].id, used |-> None])
    BY Zenon DEF Issue
  <1> DEFINE Ctx == LeaseContext(identity, place, click, open, clock)
             k == ChosenLease(ledger, session[i].manifest, place.permission, Ctx)
             New == [instance |-> i, place |-> place, issued |-> clock, state |-> "live",
                     lease |-> ledger[k].id, used |-> None]
  <1>2. InState(i, "running") /\ LedgerBecomes(Consumed(ledger, k)) /\ tokens' = Append(tokens, New)
    BY <1>1 DEF Matches
  <1>3. k \in DOMAIN ledger /\ ledger[k].active /\ ~ledger[k].consumed
    BY <1>1, ChosenIs
  <1>4. UNCHANGED <<clock, session, process, alive>>
    BY DEF Issue
  <1> HIDE DEF k, Ctx
  <1>5. ledger[k].id \in LeaseIds
    BY <1>3 DEF IInv, LedgerOK
  <1>6. clock \in 1..MaxClock
    BY DEF IInv, Typed
  <1>7. New \in Token
    BY <1>5, <1>6 DEF Token, Times
  <1>8. /\ New.instance = i /\ New.issued = clock /\ New.state = "live"
        /\ New.lease = ledger[k].id /\ New.used = None
    OBVIOUS
  <1> HIDE DEF New
  <1>9. tokens \in Seq(Token) /\ ledger \in Seq(Lease)
    BY DEF IInv, Typed
  <1>10. /\ tokens' \in Seq(Token)
         /\ \A t \in DOMAIN tokens : t \in DOMAIN tokens' /\ tokens'[t] = tokens[t]
         /\ \A t \in DOMAIN tokens' : t \in DOMAIN tokens \/ (t = Len(tokens) + 1 /\ tokens'[t] = New)
    <2>1. /\ tokens' \in Seq(Token) /\ Len(tokens) \in Nat /\ DOMAIN tokens = 1..Len(tokens)
          /\ DOMAIN tokens' = 1..(Len(tokens) + 1) /\ tokens'[Len(tokens) + 1] = New
          /\ \A t \in 1..Len(tokens) : tokens'[t] = tokens[t]
      BY <1>2, <1>7, <1>9
    <2>2. \A t \in DOMAIN tokens : t \in DOMAIN tokens' /\ tokens'[t] = tokens[t]
      BY <2>1
    <2>3. \A t \in DOMAIN tokens' : t \in DOMAIN tokens \/ (t = Len(tokens) + 1 /\ tokens'[t] = New)
      BY <2>1
    <2> QED
      BY <2>1, <2>2, <2>3
  <1>11. Decays(ledger, Consumed(ledger, k)) /\ ledger' = Consumed(ledger, k)
         /\ (ledger[k].lifetime = "once" => ledger'[k].consumed)
    BY <1>2, <1>3, <1>9, ConsumedDecays DEF LedgerBecomes
  <1>12. /\ ledger' \in Seq(Lease) /\ endedAt' \in [LeaseIds -> Times] /\ LedgerOK'
         /\ \A l \in LeaseIds : endedAt'[l] # endedAt[l] => endedAt'[l] = clock
    BY <1>2, <1>11, DecayKeepsLedger
  <1>13. \A j \in DOMAIN ledger :
           /\ j \in DOMAIN ledger' /\ ledger'[j].id = ledger[j].id
           /\ ledger'[j].lifetime = ledger[j].lifetime
           /\ ledger[j].consumed => ledger'[j].consumed
    BY <1>11 DEF Decays
  \* An active lease has not ended before.
  <1>14. endedAt[ledger[k].id] = None
    BY <1>3, <1>5 DEF IInv, LedgerOK
  <1>15. Typed'
    BY <1>4, <1>10, <1>12 DEF IInv, Typed
  <1>16. TokensOK'
    <2> SUFFICES ASSUME NEW t \in DOMAIN tokens'
                 PROVE  /\ tokens'[t].issued <= clock
                        /\ tokens'[t].state = "consumed" <=> tokens'[t].used # None
                        /\ tokens'[t].used # None => tokens'[t].used < tokens'[t].issued + TokenLife
                        /\ endedAt'[tokens'[t].lease] # None =>
                             tokens'[t].issued <= endedAt'[tokens'[t].lease]
                        /\ \E j \in DOMAIN ledger' :
                             /\ ledger'[j].id = tokens'[t].lease
                             /\ ledger'[j].lifetime = "once" => ledger'[j].consumed
      BY <1>4 DEF TokensOK
    <2>1. CASE t \in DOMAIN tokens
      <3>1. /\ tokens[t].issued <= clock
            /\ tokens[t].state = "consumed" <=> tokens[t].used # None
            /\ tokens[t].used # None => tokens[t].used < tokens[t].issued + TokenLife
            /\ endedAt[tokens[t].lease] # None => tokens[t].issued <= endedAt[tokens[t].lease]
        BY <2>1 DEF IInv, TokensOK
      <3>2. PICK j \in DOMAIN ledger : /\ ledger[j].id = tokens[t].lease
                                       /\ ledger[j].lifetime = "once" => ledger[j].consumed
        BY <2>1 DEF IInv, TokensOK
      <3>3. endedAt'[tokens[t].lease] \in {clock, endedAt[tokens[t].lease]}
        BY <1>12, <2>1, TokenFields
      <3>4. tokens'[t] = tokens[t]
        BY <1>10, <2>1
      <3> QED
        BY <1>13, <3>1, <3>2, <3>3, <3>4
    <2>2. CASE tokens'[t] = New
      <3>1. endedAt'[ledger[k].id] \in {clock, None}
        BY <1>5, <1>12, <1>14
      <3> QED
        BY <1>3, <1>6, <1>8, <1>11, <1>13, <2>2, <3>1
    <2> QED
      BY <1>10, <2>1, <2>2
  <1>17. LiveTokenRuns'
    BY <1>2, <1>4, <1>8, <1>10 DEF IInv, LiveTokenRuns, InState
  <1>18. BrokerAgrees'
    BY <1>4 DEF IInv, BrokerAgrees, InState
  <1>19. OnceIsOnce'
    \* The lease of the new token was not used up, so no other token is of it
    \* unless it is for more than one use.
    <2>1. ASSUME NEW t \in DOMAIN tokens, tokens[t].lease = New.lease
          PROVE  ledger[k].lifetime # "once"
      <3>1. PICK j \in DOMAIN ledger : /\ ledger[j].id = tokens[t].lease
                                       /\ ledger[j].lifetime = "once" => ledger[j].consumed
        BY DEF IInv, TokensOK
      <3>2. j = k
        BY <1>3, <1>8, <2>1, <3>1 DEF IInv, LedgerOK
      <3> QED
        BY <1>3, <3>1, <3>2
    <2> SUFFICES ASSUME NEW t \in DOMAIN tokens', NEW u \in DOMAIN tokens',
                        t # u, tokens'[t].lease = tokens'[u].lease
                 PROVE  \E j \in DOMAIN ledger' :
                          ledger'[j].id = tokens'[t].lease /\ ledger'[j].lifetime # "once"
      BY DEF OnceIsOnce
    <2>2. CASE t \in DOMAIN tokens /\ u \in DOMAIN tokens
      <3>1. PICK j \in DOMAIN ledger :
              ledger[j].id = tokens[t].lease /\ ledger[j].lifetime # "once"
        BY <1>10, <2>2 DEF IInv, OnceIsOnce
      <3> QED
        BY <1>10, <1>13, <2>2, <3>1
    <2>3. CASE t \in DOMAIN tokens /\ tokens'[u] = New
      <3>1. tokens[t].lease = New.lease
        BY <1>10, <2>3
      <3>2. ledger[k].lifetime # "once"
        BY <2>1, <2>3, <3>1
      <3> QED
        BY <1>3, <1>8, <1>10, <1>13, <2>3, <3>1, <3>2
    <2>4. CASE tokens'[t] = New /\ u \in DOMAIN tokens
      <3>1. tokens[u].lease = New.lease
        BY <1>10, <2>4
      <3>2. ledger[k].lifetime # "once"
        BY <2>1, <2>4, <3>1
      <3> QED
        BY <1>3, <1>8, <1>10, <1>13, <2>4, <3>1, <3>2
    <2> QED
      BY <1>10, <2>2, <2>3, <2>4
  <1> QED
    BY <1>12, <1>15, <1>16, <1>17, <1>18, <1>19 DEF IInv

LEMMA DispatchKeeps == ASSUME IInv, NEW i \in Instances, Dispatch(i) PROVE IInv'
  <1>1. PICK t \in DOMAIN tokens, identity \in Identities, place \in Places :
          /\ MayDispatch(t, i, identity, place)
          /\ tokens' = [tokens EXCEPT ![t].state = "consumed", ![t].used = clock]
    BY Zenon DEF Dispatch
  <1>2. UNCHANGED <<ledger, clock, session, process, alive, endedAt>>
    BY Zenon DEF Dispatch
  <1>3. clock < tokens[t].issued + TokenLife /\ clock \in 1..MaxClock /\ clock # None
    BY <1>1, ConstantTypes DEF MayDispatch, IInv, Typed
  <1> DEFINE New == [tokens[t] EXCEPT !.state = "consumed", !.used = clock]
  <1>4. /\ New \in Token /\ New.instance = tokens[t].instance /\ New.issued = tokens[t].issued
        /\ New.lease = tokens[t].lease /\ New.state = "consumed" /\ New.used = clock
    <2>1. tokens[t] \in Token /\ clock \in Times
      BY <1>3, TokenFields DEF Times
    <2> QED
      BY <2>1 DEF Token
  <1>5. tokens' = [tokens EXCEPT ![t] = New]
    BY <1>1
  <1> HIDE DEF New
  <1>6. tokens \in Seq(Token)
    BY DEF IInv, Typed
  <1>7. /\ tokens' \in Seq(Token) /\ DOMAIN tokens' = DOMAIN tokens
        /\ \A u \in DOMAIN tokens : tokens'[u] = IF u = t THEN New ELSE tokens[u]
    BY <1>4, <1>5, <1>6
  <1>8. \A u \in DOMAIN tokens :
          /\ tokens'[u].instance = tokens[u].instance /\ tokens'[u].lease = tokens[u].lease
          /\ tokens'[u].issued = tokens[u].issued
          /\ tokens'[u].state = "live" => tokens[u].state = "live"
    BY <1>4, <1>7
  <1>9. TokensOK'
    <2> SUFFICES ASSUME NEW u \in DOMAIN tokens
                 PROVE  /\ tokens'[u].issued <= clock
                        /\ tokens'[u].state = "consumed" <=> tokens'[u].used # None
                        /\ tokens'[u].used # None => tokens'[u].used < tokens'[u].issued + TokenLife
                        /\ endedAt[tokens'[u].lease] # None =>
                             tokens'[u].issued <= endedAt[tokens'[u].lease]
                        /\ \E j \in DOMAIN ledger :
                             /\ ledger[j].id = tokens'[u].lease
                             /\ ledger[j].lifetime = "once" => ledger[j].consumed
      BY <1>2, <1>7 DEF TokensOK
    <2>1. /\ tokens[u].issued <= clock
          /\ tokens[u].state = "consumed" <=> tokens[u].used # None
          /\ tokens[u].used # None => tokens[u].used < tokens[u].issued + TokenLife
          /\ endedAt[tokens[u].lease] # None => tokens[u].issued <= endedAt[tokens[u].lease]
          /\ \E j \in DOMAIN ledger : /\ ledger[j].id = tokens[u].lease
                                      /\ ledger[j].lifetime = "once" => ledger[j].consumed
      BY DEF IInv, TokensOK
    <2>2. CASE u = t
      BY <1>3, <1>4, <1>7, <1>8, <2>1, <2>2
    <2>3. CASE u # t
      BY <1>7, <2>1, <2>3
    <2> QED
      BY <2>2, <2>3
  <1>10. LiveTokenRuns'
    BY <1>2, <1>7, <1>8 DEF IInv, LiveTokenRuns, InState
  <1>11. OnceIsOnce'
    BY <1>2, <1>7, <1>8 DEF IInv, OnceIsOnce
  <1>12. Typed'
    BY <1>2, <1>7 DEF IInv, Typed
  <1> QED
    BY <1>2, <1>9, <1>10, <1>11, <1>12 DEF IInv, LedgerOK, BrokerAgrees, InState

----------------------------------------------------------------------------
(* Initially, and step by step                                             *)

LEMMA InitHolds == Init => IInv
  <1> SUFFICES ASSUME Init PROVE IInv
    OBVIOUS
  <1>1. Typed
    BY ConstantTypes DEF Init, Typed, Times
  <1>2. LedgerOK /\ TokensOK /\ LiveTokenRuns /\ OnceIsOnce
    BY DEF Init, LedgerOK, TokensOK, LiveTokenRuns, OnceIsOnce
  <1>3. BrokerAgrees
    BY DEF Init, BrokerAgrees, Instances
  <1> QED
    BY <1>1, <1>2, <1>3 DEF IInv

LEMMA StepKeeps == IInv /\ [Next]_vars => IInv'
  <1> SUFFICES ASSUME IInv, [Next]_vars PROVE IInv'
    OBVIOUS
  <1>1. CASE Ledger
    BY <1>1, GrantKeeps, LedgerKeeps DEF Ledger
  <1>2. CASE Tick
    BY <1>2, TickKeeps
  <1>3. ASSUME NEW i \in Instances, Authority(i) PROVE IInv'
    BY <1>3, RegisterKeeps, SuspendKeeps, ResumeKeeps, TerminateKeeps, IssueKeeps, DispatchKeeps
       DEF Authority
  <1>4. ASSUME NEW i \in Brokered, Broker(i) PROVE IInv'
    BY <1>4, LaunchKeeps, UntrackedKeeps, BrokerTerminateKeeps DEF Broker
  <1>5. ASSUME NEW p \in Pids, Exit(p) PROVE IInv'
    BY <1>5, ExitKeeps
  <1>6. CASE UNCHANGED vars
    BY <1>6 DEF vars, IInv, Typed, LedgerOK, TokensOK, LiveTokenRuns, OnceIsOnce, BrokerAgrees,
       InState
  <1> QED
    BY <1>1, <1>2, <1>3, <1>4, <1>5, <1>6 DEF Next

\* A terminated instance of the broker stays so and no token of it is used.
LEMMA StepIsFinal ==
  ASSUME IInv, IInv', Next, NEW i \in Brokered, BrokerTerminate(i) \/ InState(i, "terminated")
  PROVE  /\ InState(i, "terminated")'
         /\ \A t \in DOMAIN tokens' : tokens'[t].instance = i =>
              tokens'[t].state # "live" /\ t \in DOMAIN tokens /\ tokens'[t].used = tokens[t].used
  <1>1. i \in Instances /\ session \in [Instances -> Sessions \cup {None}]
    BY DEF Instances, IInv, Typed
  \* What a step does to the session of i and to the tokens.
  <1> DEFINE Quiet == \A t \in DOMAIN tokens' : tokens'[t].instance = i =>
                        t \in DOMAIN tokens /\ tokens'[t].used = tokens[t].used
  <1>2. CASE BrokerTerminate(i)
    <2>1. process[i] # None /\ session[i] # None /\ Ended(i)
      BY <1>2 DEF BrokerTerminate, IInv, BrokerAgrees
    <2>2. InState(i, "terminated")' /\ Quiet
      <3>1. CASE session[i].state # "terminated"
        <4>1. /\ session' = [session EXCEPT ![i].state = "terminated"]
              /\ tokens' = TokensRevoked(i)
          BY <2>1, <3>1 DEF Ended
        <4>2. session'[i] = [session[i] EXCEPT !.state = "terminated"]
          BY <1>1, <4>1
        <4>3. session[i] \in Sessions
          BY <1>1, <2>1
        <4>4. /\ [session[i] EXCEPT !.state = "terminated"] \in Sessions
              /\ [session[i] EXCEPT !.state = "terminated"].state = "terminated"
          BY <4>3 DEF Sessions, SessionStates
        <4>5. InState(i, "terminated")'
          BY <4>2, <4>4, ConstantTypes DEF InState
        <4>6. Quiet
          BY <1>1, <4>1, TokensRevokedIs
        <4> QED
          BY <4>5, <4>6
      <3>2. CASE session[i].state = "terminated"
        BY <2>1, <3>2 DEF Ended, InState
      <3> QED
        BY <3>1, <3>2
    <2> QED
      BY <2>2 DEF IInv, LiveTokenRuns, InState
  <1>3. CASE InState(i, "terminated")
    <2>1. /\ session[i] # None /\ session[i].state = "terminated"
          /\ \A t \in DOMAIN tokens : tokens[t].instance = i => tokens[t].state # "live"
      BY <1>3 DEF InState, IInv, LiveTokenRuns
    <2>2. InState(i, "terminated")' /\ Quiet
      <3>1. ASSUME UNCHANGED <<session, tokens>> PROVE InState(i, "terminated")' /\ Quiet
        BY <1>3, <3>1 DEF InState
      <3>2. CASE Ledger \/ Tick
        <4>1. UNCHANGED <<session, tokens>>
          BY <3>2 DEF Ledger, Tick, Grant, Revoke, RevokeProfile, CloseTab, CloseWebsiteScope,
             CloseBrowserSession, Expire, Running
        <4> QED
          BY <3>1, <4>1
      <3>3. ASSUME NEW p \in Pids, Exit(p) PROVE InState(i, "terminated")' /\ Quiet
        BY <3>1, <3>3 DEF Exit
      <3>4. ASSUME NEW j \in Instances, Register(j) \/ Suspend(j) \/ Resume(j) \/ Terminate(j)
            PROVE  InState(i, "terminated")' /\ Quiet
        <4>1. j \in Direct /\ j # i
          BY <3>4, ConstantTypes DEF Register, Suspend, Resume, Terminate
        <4>2. session'[i] = session[i]
          BY <1>1, <3>4, <4>1 DEF Register, Registered, Suspend, Resume, Terminate, Ended
        <4>3. tokens' = tokens \/ tokens' = TokensRevoked(j)
          BY <3>4 DEF Register, Suspend, Resume, Terminate, Ended
        <4>4. Quiet
          BY <3>4, <4>3, TokensRevokedIs
        <4> QED
          BY <2>1, <4>2, <4>4 DEF InState
      <3>5. ASSUME NEW j \in Instances, Issue(j) PROVE InState(i, "terminated")' /\ Quiet
        <4>1. session' = session /\ InState(j, "running")
          BY <3>5, Zenon DEF Issue, Matches
        <4>2. j # i
          BY <2>1, <4>1 DEF InState
        <4>3. \E new : new.instance = j /\ tokens' = Append(tokens, new)
          <5>1. PICK place, lease : tokens' = Append(tokens,
                  [instance |-> j, place |-> place, issued |-> clock, state |-> "live",
                   lease |-> lease, used |-> None])
            BY <3>5, Zenon DEF Issue
          <5> QED
            BY <5>1
        <4>4. PICK new : new.instance = j /\ tokens' = Append(tokens, new)
          BY <4>3
        <4>5. tokens \in Seq(Token)
          BY DEF IInv, Typed
        <4>6. \A t \in DOMAIN tokens' : t \in DOMAIN tokens \/ tokens'[t] = new
          BY <4>4, <4>5
        <4>7. \A t \in DOMAIN tokens : tokens'[t] = tokens[t]
          BY <4>4, <4>5
        <4> QED
          BY <1>3, <4>1, <4>2, <4>4, <4>6, <4>7 DEF InState
      <3>6. ASSUME NEW j \in Instances, Dispatch(j) PROVE InState(i, "terminated")' /\ Quiet
        <4>1. PICK t \in DOMAIN tokens, identity \in Identities, place \in Places :
                /\ MayDispatch(t, j, identity, place)
                /\ tokens' = [tokens EXCEPT ![t].state = "consumed", ![t].used = clock]
          BY <3>6, Zenon DEF Dispatch
        <4>2. session' = session
          BY <3>6, Zenon DEF Dispatch
        <4>3. tokens[t].state = "live" /\ tokens[t].instance # i
          BY <2>1, <4>1 DEF MayDispatch
        <4>4. tokens \in Seq(Token) /\ tokens[t] \in Token
          BY DEF IInv, Typed
        <4> DEFINE New == [tokens[t] EXCEPT !.state = "consumed", !.used = clock]
        <4>5. New.instance = tokens[t].instance
          BY <4>4 DEF Token
        <4>6. tokens' = [tokens EXCEPT ![t] = New]
          BY <4>1
        <4> HIDE DEF New
        <4>7. /\ DOMAIN tokens' = DOMAIN tokens
              /\ \A u \in DOMAIN tokens : tokens'[u] = IF u = t THEN New ELSE tokens[u]
          BY <4>4, <4>6
        <4> QED
          BY <1>3, <4>2, <4>3, <4>5, <4>7 DEF InState
      <3>7. ASSUME NEW j \in Brokered, Launch(j) \/ LaunchAmbiguous(j) \/ LaunchRolledBack(j)
            PROVE  InState(i, "terminated")' /\ Quiet
        <4>1. CASE Launch(j)
          <5>1. PICK identity \in Identities, manifest \in Manifests, decision \in Decisions,
                     p \in Pids :
                  /\ MayLaunch(j, identity, manifest, decision)
                  /\ session' = Registered(j, identity, manifest)
            BY <4>1 DEF Launch
          <5>2. session[j] = None /\ tokens' = tokens
            BY <4>1, <5>1 DEF MayLaunch, MayRegister, Launch
          <5>3. session'[i] = session[i]
            BY <1>1, <2>1, <5>1, <5>2 DEF Registered
          <5> QED
            BY <2>1, <5>2, <5>3 DEF InState
        <4>2. CASE LaunchAmbiguous(j) \/ LaunchRolledBack(j)
          BY <3>1, <4>2 DEF LaunchAmbiguous, LaunchRolledBack
        <4> QED
          BY <3>7, <4>1, <4>2
      <3>8. ASSUME NEW j \in Brokered, BrokerTerminate(j) PROVE InState(i, "terminated")' /\ Quiet
        <4>1. Ended(j) /\ j \in Instances
          BY <3>8 DEF BrokerTerminate, Instances
        <4>2. CASE session[j] # None /\ session[j].state # "terminated"
          <5>1. /\ session' = [session EXCEPT ![j].state = "terminated"]
                /\ tokens' = TokensRevoked(j) /\ j # i
            BY <2>1, <4>1, <4>2 DEF Ended
          <5>2. session'[i] = session[i]
            BY <1>1, <5>1
          <5>3. Quiet
            BY <4>1, <5>1, TokensRevokedIs
          <5> QED
            BY <2>1, <5>2, <5>3 DEF InState
        <4>3. CASE ~(session[j] # None /\ session[j].state # "terminated")
          BY <3>1, <4>1, <4>3 DEF Ended
        <4> QED
          BY <4>2, <4>3
      <3> HIDE DEF Quiet
      <3> QED
        BY <3>2, <3>3, <3>4, <3>5, <3>6, <3>7, <3>8 DEF Next, Authority, Broker
    <2> QED
      BY <2>2 DEF IInv, LiveTokenRuns, InState
  <1> QED
    BY <1>2, <1>3

----------------------------------------------------------------------------
(* Theorems                                                                *)

\* The inductive invariant of the runtime.
THEOREM ExtensionInvariant == Spec => []IInv
  <1> QED
    BY InitHolds, StepKeeps, PTL DEF Spec

\* Every variable of the authority, the broker and the ledger keeps its type.
THEOREM ExtensionTypeOK == Spec => []TypeOK
  <1>1. IInv => TypeOK
    <2> SUFFICES ASSUME IInv PROVE TypeOK
      OBVIOUS
    <2>1. \A t \in DOMAIN tokens :
            /\ tokens[t].instance \in Instances /\ tokens[t].place \in Places
            /\ tokens[t].issued \in 1..clock /\ tokens[t].lease \in LeaseIds
            /\ tokens[t].state \in {"live", "revoked", "consumed"}
            /\ tokens[t].state = "consumed" <=> tokens[t].used # None
      <3> SUFFICES ASSUME NEW t \in DOMAIN tokens
                   PROVE  /\ tokens[t].place \in Places /\ tokens[t].issued \in 1..clock
                          /\ tokens[t].state = "consumed" <=> tokens[t].used # None
        BY TokenFields
      <3>1. tokens[t].place \in Places
        BY TokenFields DEF Token
      <3>2. tokens[t].issued \in 1..MaxClock /\ tokens[t].issued <= clock /\ clock \in 1..MaxClock
        BY TokenFields DEF IInv, TokensOK, Typed
      <3>3. tokens[t].state = "consumed" <=> tokens[t].used # None
        BY DEF IInv, TokensOK
      <3> QED
        BY <3>1, <3>2, <3>3
    <2>2. \A p \in Pids : alive[p] # None => alive[p] \in [instance : Brokered, isolated : BOOLEAN]
      BY DEF IInv, Typed
    <2> QED
      BY <2>1, <2>2 DEF IInv, Typed, TypeOK
  <1> QED
    BY <1>1, ExtensionInvariant, PTL

\* A token that can be used belongs to a running session, whatever was
\* suspended, resumed, ended or launched again in between.
THEOREM ExtensionLiveTokenRuns == Spec => []LiveTokenRuns
  <1>1. IInv => LiveTokenRuns
    BY DEF IInv
  <1> QED
    BY <1>1, ExtensionInvariant, PTL

\* A lease for one use backs one token, whoever asks for it.
THEOREM ExtensionOnceIsOnce == Spec => []OnceIsOnce
  <1>1. IInv => OnceIsOnce
    BY DEF IInv
  <1> QED
    BY <1>1, ExtensionInvariant, PTL

\* Nothing is dispatched a token's life after its lease was revoked, closed,
\* expired or used up.
THEOREM ExtensionRevocationBites == Spec => []RevocationBitesSoon
  <1>1. IInv => RevocationBitesSoon
    <2> SUFFICES ASSUME IInv, NEW t \in DOMAIN tokens, tokens[t].used # None,
                        endedAt[tokens[t].lease] # None
                 PROVE  tokens[t].used < endedAt[tokens[t].lease] + TokenLife
      BY DEF RevocationBitesSoon
    <2>1. /\ tokens[t].used < tokens[t].issued + TokenLife
          /\ tokens[t].issued <= endedAt[tokens[t].lease]
      BY DEF IInv, TokensOK
    <2>2. /\ tokens[t].used \in Nat /\ tokens[t].issued \in Nat /\ TokenLife \in Nat
          /\ endedAt[tokens[t].lease] \in Nat
      BY TokenFields, ConstantTypes DEF IInv, Typed, Times
    <2> QED
      BY <2>1, <2>2
  <1> QED
    BY <1>1, ExtensionInvariant, PTL

\* The broker's sessions and processes correspond one to one.
THEOREM ExtensionBrokerAgrees == Spec => []BrokerAgrees
  <1>1. IInv => BrokerAgrees
    BY DEF IInv
  <1> QED
    BY <1>1, ExtensionInvariant, PTL

\* An instance whose termination was asked for gets nothing any more.
THEOREM ExtensionTerminationIsFinal == Spec => TerminationIsFinal
  <1>1. IInv /\ IInv' /\ [Next]_vars =>
          [\A i \in Brokered : BrokerTerminate(i) \/ InState(i, "terminated") =>
             /\ InState(i, "terminated")'
             /\ \A t \in DOMAIN tokens' : tokens'[t].instance = i =>
                  tokens'[t].state # "live" /\ t \in DOMAIN tokens
                  /\ tokens'[t].used = tokens[t].used]_vars
    BY StepIsFinal
  <1> QED
    BY <1>1, ExtensionInvariant, PTL DEF Spec, TerminationIsFinal
=============================================================================
