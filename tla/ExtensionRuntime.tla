-------------------------- MODULE ExtensionRuntime --------------------------
(***************************************************************************)
(* What a running extension may do: the runtime authority, which turns a   *)
(* lease of the ledger into a short-lived token and a token into one       *)
(* dispatch (extension_runtime_authority.hpp), and the process broker,     *)
(* which starts and ends extension processes through a platform launcher   *)
(* (extension_process_broker.hpp).  The instances in Brokered belong to    *)
(* the broker's own authority, the others to an authority that is used     *)
(* directly and that can also be suspended; both consult one ledger.       *)
(*                                                                         *)
(* The launcher and its processes are outside the repository and are       *)
(* modelled by what ExtensionPlatformProcessLauncher promises: a handle    *)
(* of a running process is never handed out again, and a termination is    *)
(* confirmed only when it happened.  A process may also exit by itself.    *)
(*                                                                         *)
(* Not in the code: the lease a token was issued under, the time of its    *)
(* dispatch, and endedAt, the time at which a lease stopped authorizing.   *)
(***************************************************************************)
EXTENDS ExtensionLedger, FiniteSets

CONSTANTS
  Direct, Brokered,   \* runtime instance ids
  Identities,         \* [extension, profile, private]: who an instance can be
  Manifests,          \* [id, valid, entries, permissions, websites]
  Offers,             \* the leases the browser may issue, at clock 0
  Places,             \* [permission, website, tab, session] of a request
  Opens,              \* [tab, website, browser]: which of them are there at a request
  Pids,               \* platform process handles
  TokenLife,          \* kExtensionRuntimeCapabilityMaxMillis in ticks
  MaxLedger, MaxSessions, MaxTokens, MaxClock, \* bounds
  None

Instances == Direct \cup Brokered
LeaseIds == {offer.id : offer \in Offers}

ASSUME RuntimeAssumption ==
  /\ Direct \cap Brokered = {} /\ None \notin Instances
  /\ Opens \subseteq [tab : BOOLEAN, website : BOOLEAN, browser : BOOLEAN]
  /\ TokenLife \in Nat \ {0} /\ TokenLife <= MaxMillis
  /\ {MaxLedger, MaxSessions, MaxTokens} \subseteq Nat /\ MaxClock \in Nat \ {0}
  /\ Offers \subseteq Leases(Nat, STRING, STRING, STRING, Nat)

SessionStates == {"running", "suspended", "terminated"}

Sessions == [identity : Identities, manifest : Manifests, state : SessionStates]

\* What the broker keeps of a process.
Processes == [pid : Pids, confirmed : BOOLEAN]

ASSUME NoneAssumption ==
  None \notin Sessions /\ None \notin Processes /\ None \notin 0..MaxClock

VARIABLES
  ledger, clock,
  session,   \* instance -> None or [identity, manifest, state]
  tokens,    \* the tokens issued, oldest first
  process,   \* brokered instance -> None or [pid, confirmed]
  alive,     \* handle -> None or [instance, isolated]: what runs on the platform
  endedAt    \* lease id -> None or the time it stopped authorizing

vars == <<ledger, clock, session, tokens, process, alive, endedAt>>

Init ==
  /\ ledger = <<>> /\ clock = 1
  /\ session = [i \in Instances |-> None]
  /\ tokens = <<>>
  /\ process = [i \in Brokered |-> None]
  /\ alive = [p \in Pids |-> None]
  /\ endedAt = [l \in LeaseIds |-> None]

InState(i, state) == session[i] # None /\ session[i].state = state

----------------------------------------------------------------------------
(* Changes of the ledger                                                   *)

\* The ledger becomes new; a lease that is no longer active ends now.
LedgerBecomes(new) ==
  /\ ledger' = new
  /\ endedAt' = [l \in LeaseIds |->
       IF \E i \in DOMAIN ledger : ledger[i].id = l /\ ledger[i].active /\ ~new[i].active
         THEN clock ELSE endedAt[l]]

Running == <<clock, session, tokens, process, alive>>

Grant ==
  /\ Len(ledger) < MaxLedger
  /\ \E offer \in Offers :
       LET lease == IF offer.lifetime = "one_hour"
                      THEN [offer EXCEPT !.issued = clock, !.expires = clock + Hour]
                      ELSE offer
       IN  CanAdd(ledger, lease) /\ LedgerBecomes(Added(ledger, lease))
  /\ UNCHANGED Running

Revoke ==
  /\ \E i \in DOMAIN ledger : ~ledger[i].revoked /\ LedgerBecomes(Revoked(ledger, ledger[i].id))
  /\ UNCHANGED Running

Profiles == {identity.profile : identity \in Identities}

RevokeProfile ==
  /\ \E profile \in Profiles : LedgerBecomes(ProfileRevoked(ledger, profile))
  /\ UNCHANGED Running

CloseTab ==
  /\ \E tab \in {place.tab : place \in Places} : LedgerBecomes(TabClosed(ledger, tab))
  /\ UNCHANGED Running

CloseWebsiteScope ==
  /\ \E profile \in Profiles, site \in {place.website : place \in Places} :
       LedgerBecomes(WebsiteClosed(ledger, profile, site))
  /\ UNCHANGED Running

CloseBrowserSession ==
  /\ \E browser \in {place.session : place \in Places} :
       LedgerBecomes(SessionClosed(ledger, browser))
  /\ UNCHANGED Running

Expire ==
  /\ LedgerBecomes(ExpiredAt(ledger, clock))
  /\ UNCHANGED Running

----------------------------------------------------------------------------
(* ExtensionRuntimeAuthority                                               *)

\* Who may be registered: package trust is not asked.
MayRegister(i, identity, manifest, decision) ==
  /\ decision.launch
  /\ manifest.valid /\ manifest.id = identity.extension
  /\ identity.private => decision.private
  /\ session[i] = None
  /\ Cardinality({j \in Instances : session[j] # None}) < MaxSessions

Registered(i, identity, manifest) ==
  [session EXCEPT ![i] = [identity |-> identity, manifest |-> manifest, state |-> "running"]]

Decisions == [launch : BOOLEAN, private : BOOLEAN]

Register(i) ==
  /\ i \in Direct
  /\ \E identity \in Identities, manifest \in Manifests, decision \in Decisions :
       /\ MayRegister(i, identity, manifest, decision)
       /\ session' = Registered(i, identity, manifest)
  /\ UNCHANGED <<ledger, clock, tokens, process, alive, endedAt>>

\* revoke_runtime_tokens
TokensRevoked(i) ==
  [t \in DOMAIN tokens |->
     IF tokens[t].instance = i /\ tokens[t].state = "live"
       THEN [tokens[t] EXCEPT !.state = "revoked"] ELSE tokens[t]]

\* Mutant: the tokens stay as they are until the instance is resumed.
SuspendOnly(i) ==
  /\ i \in Direct /\ InState(i, "running")
  /\ session' = [session EXCEPT ![i].state = "suspended"]
  /\ UNCHANGED <<tokens, ledger, clock, process, alive, endedAt>>

Suspend(i) ==
  /\ i \in Direct /\ InState(i, "running")
  /\ session' = [session EXCEPT ![i].state = "suspended"]
  /\ tokens' = TokensRevoked(i)
  /\ UNCHANGED <<ledger, clock, process, alive, endedAt>>

Resume(i) ==
  /\ i \in Direct /\ InState(i, "suspended")
  /\ session' = [session EXCEPT ![i].state = "running"]
  /\ UNCHANGED <<ledger, clock, tokens, process, alive, endedAt>>

\* Mutant: the tokens of the instance stay.
EndedQuietly(i) ==
  /\ session' = IF session[i] = None THEN session ELSE [session EXCEPT ![i].state = "terminated"]
  /\ UNCHANGED tokens

\* The part of a termination that is the authority's.
Ended(i) ==
  IF session[i] # None /\ session[i].state # "terminated"
    THEN /\ session' = [session EXCEPT ![i].state = "terminated"]
         /\ tokens' = TokensRevoked(i)
    ELSE UNCHANGED <<session, tokens>>

Terminate(i) ==
  /\ i \in Direct /\ session[i] # None /\ session[i].state # "terminated"
  /\ Ended(i)
  /\ UNCHANGED <<ledger, clock, process, alive, endedAt>>

\* The broker passes on requests of a process it has not seen end.
Reachable(i) == i \in Brokered => process[i] # None /\ ~process[i].confirmed

\* The session a request or a dispatch names is running and is who it says.
Matches(i, identity) ==
  InState(i, "running") /\ session[i].identity = identity

LeaseContext(identity, place, click, open, now) ==
  [profile |-> identity.profile, website |-> place.website, private |-> identity.private,
   click |-> click, tab_active |-> open.tab, website_active |-> open.website,
   browser_active |-> open.browser, now |-> now, tab |-> place.tab,
   session |-> place.session]

\* issue_capability.  A request may claim another identity than its own.
Issue(i) ==
  /\ Reachable(i) /\ Len(tokens) < MaxTokens
  /\ \E identity \in Identities, place \in Places, click \in BOOLEAN, open \in Opens :
       LET manifest == session[i].manifest
           ctx == LeaseContext(identity, place, click, open, clock)
           chosen == ChosenLease(ledger, manifest, place.permission, ctx)
       IN  /\ Matches(i, identity)
           /\ Declares(manifest, place.permission)
           /\ clock <= MaxMillis - TokenLife
           /\ Authorizing(ledger, manifest, place.permission, ctx) # {}
           /\ LedgerBecomes(Consumed(ledger, chosen))
           /\ tokens' = Append(tokens,
                [instance |-> i, place |-> place, issued |-> clock, state |-> "live",
                 lease |-> ledger[chosen].id, used |-> None])
  /\ UNCHANGED <<clock, session, process, alive>>

\* Mutant: a token does not expire.
MayDispatchAnyTime(t, i, identity, place) ==
  /\ tokens[t].state = "live"
  /\ tokens[t].instance = i /\ tokens[t].place = place
  /\ Matches(i, identity)

\* authorize_and_consume: what a dispatch must agree with.
MayDispatch(t, i, identity, place) ==
  /\ tokens[t].state = "live"
  /\ tokens[t].issued <= clock /\ clock < tokens[t].issued + TokenLife
  /\ tokens[t].instance = i /\ tokens[t].place = place
  /\ Matches(i, identity)

Dispatch(i) ==
  /\ Reachable(i)
  /\ \E t \in DOMAIN tokens, identity \in Identities, place \in Places, open \in Opens :
       /\ MayDispatch(t, i, identity, place)
       /\ open.browser
       /\ place.tab # "" => open.tab
       /\ place.website # "" => open.website
       /\ tokens' = [tokens EXCEPT ![t].state = "consumed", ![t].used = clock]
  /\ UNCHANGED <<ledger, clock, session, process, alive, endedAt>>

Authority(i) ==
  \/ Register(i) \/ Suspend(i) \/ Resume(i) \/ Terminate(i) \/ Issue(i) \/ Dispatch(i)

----------------------------------------------------------------------------
(* ExtensionProcessBroker                                                  *)

BrokerFrame == UNCHANGED <<ledger, clock, endedAt>>

MayLaunch(i, identity, manifest, decision) ==
  /\ MayRegister(i, identity, manifest, decision)
  /\ manifest.entries
  /\ process[i] = None

\* find_platform_process: terminated processes keep their handle.
Tracked(p) == \E i \in Brokered : process[i] # None /\ process[i].pid = p

\* The launcher starts a process under a free handle and gives its receipt.
Started(i, p, isolated) ==
  /\ alive[p] = None
  /\ alive' = [alive EXCEPT ![p] = [instance |-> i, isolated |-> isolated]]

\* Mutant: a handle that is known already is taken for a new process.
LaunchUntracked(i) ==
  /\ \E identity \in Identities, manifest \in Manifests, decision \in Decisions, p \in Pids :
       /\ MayLaunch(i, identity, manifest, decision)
       /\ Started(i, p, TRUE)
       /\ session' = Registered(i, identity, manifest)
       /\ process' = [process EXCEPT ![i] = [pid |-> p, confirmed |-> FALSE]]
  /\ UNCHANGED tokens /\ BrokerFrame

Launch(i) ==
  /\ \E identity \in Identities, manifest \in Manifests, decision \in Decisions, p \in Pids :
       /\ MayLaunch(i, identity, manifest, decision)
       /\ Started(i, p, TRUE)
       /\ ~Tracked(p)
       /\ session' = Registered(i, identity, manifest)
       /\ process' = [process EXCEPT ![i] = [pid |-> p, confirmed |-> FALSE]]
  /\ UNCHANGED tokens /\ BrokerFrame

\* A handle that is still tracked is ambiguous: the new process is left to the
\* launcher.
LaunchAmbiguous(i) ==
  /\ \E identity \in Identities, manifest \in Manifests, decision \in Decisions, p \in Pids :
       /\ MayLaunch(i, identity, manifest, decision)
       /\ Started(i, p, TRUE)
       /\ Tracked(p)
  /\ UNCHANGED <<session, process, tokens>> /\ BrokerFrame

\* The receipt does not prove the isolation asked for: the process is ended
\* again, if the launcher manages to.
LaunchRolledBack(i) ==
  /\ \E identity \in Identities, manifest \in Manifests, decision \in Decisions, p \in Pids :
       /\ MayLaunch(i, identity, manifest, decision)
       /\ Started(i, p, FALSE) \/ (alive[p] = None /\ UNCHANGED alive)
  /\ UNCHANGED <<session, process, tokens>> /\ BrokerFrame

\* Browser authority ends first; the platform may have to be asked again.
BrokerTerminate(i) ==
  /\ process[i] # None /\ ~process[i].confirmed
  /\ Ended(i)
  /\ \/ /\ process' = [process EXCEPT ![i].confirmed = TRUE]
        /\ alive' = [alive EXCEPT ![process[i].pid] = None]
     \/ UNCHANGED <<process, alive>>
  /\ BrokerFrame

Exit(p) ==
  /\ alive[p] # None
  /\ alive' = [alive EXCEPT ![p] = None]
  /\ UNCHANGED <<ledger, clock, session, tokens, process, endedAt>>

Broker(i) ==
  Launch(i) \/ LaunchAmbiguous(i) \/ LaunchRolledBack(i) \/ BrokerTerminate(i)

----------------------------------------------------------------------------

Tick ==
  /\ clock < MaxClock
  /\ clock' = clock + 1
  /\ UNCHANGED <<ledger, session, tokens, process, alive, endedAt>>

Ledger ==
  \/ Grant \/ Revoke \/ RevokeProfile
  \/ CloseTab \/ CloseWebsiteScope \/ CloseBrowserSession \/ Expire

Next ==
  \/ Ledger \/ Tick
  \/ \E i \in Instances : Authority(i)
  \/ \E i \in Brokered : Broker(i)
  \/ \E p \in Pids : Exit(p)

Spec == Init /\ [][Next]_vars

----------------------------------------------------------------------------
(* Properties                                                              *)

\* Every variable keeps its type.
TypeOK ==
  /\ clock \in 1..MaxClock
  /\ session \in [Instances -> Sessions \cup {None}]
  /\ \A t \in DOMAIN tokens :
       /\ tokens[t].instance \in Instances /\ tokens[t].place \in Places
       /\ tokens[t].issued \in 1..clock /\ tokens[t].lease \in LeaseIds
       /\ tokens[t].state \in {"live", "revoked", "consumed"}
       /\ tokens[t].state = "consumed" <=> tokens[t].used # None
  /\ process \in [Brokered -> Processes \cup {None}]
  /\ \A p \in Pids : alive[p] # None =>
       alive[p] \in [instance : Brokered, isolated : BOOLEAN]

\* A token that can still be used belongs to a running session: what was
\* issued before a suspension or a termination does not come back with a
\* resumption or a retry.
LiveTokenRuns ==
  \A t \in DOMAIN tokens : tokens[t].state = "live" => InState(tokens[t].instance, "running")

\* A lease for one use backs one token over the whole life of the browser,
\* and the requests of several instances do not share it.
OnceIsOnce ==
  \A t, u \in DOMAIN tokens : t # u /\ tokens[t].lease = tokens[u].lease =>
    \E i \in DOMAIN ledger : ledger[i].id = tokens[t].lease /\ ledger[i].lifetime # "once"

\* A token outlives the lease it was issued under, but never by its own life:
\* nothing is dispatched TokenLife after the lease was revoked, closed or used.
RevocationBitesSoon ==
  \A t \in DOMAIN tokens :
    tokens[t].used # None /\ endedAt[tokens[t].lease] # None =>
      tokens[t].used < endedAt[tokens[t].lease] + TokenLife

\* Every session of the broker has a process of its own, under a handle of its
\* own, and a process that was seen to end has lost its session before.
BrokerAgrees ==
  /\ \A i \in Brokered : process[i] # None <=> session[i] # None
  /\ \A i, j \in Brokered : process[i] # None /\ process[j] # None /\ i # j =>
       process[i].pid # process[j].pid
  /\ \A i \in Brokered : process[i] # None /\ process[i].confirmed =>
       InState(i, "terminated")

\* Once its termination was asked for, an instance gets nothing any more,
\* however often the platform fails to end its process.
TerminationIsFinal ==
  [][\A i \in Brokered : BrokerTerminate(i) \/ InState(i, "terminated") =>
       /\ InState(i, "terminated")'
       /\ \A t \in DOMAIN tokens' : tokens'[t].instance = i =>
            tokens'[t].state # "live" /\ t \in DOMAIN tokens /\ tokens'[t].used = tokens[t].used]_vars
=============================================================================
