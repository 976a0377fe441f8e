-------------------------- MODULE ExtensionLedger --------------------------
(***************************************************************************)
(* The permission leases of native extensions (native_extension.hpp,       *)
(* extension_permission_ledger.hpp).  A ledger is a sequence of leases in  *)
(* the order they were added; every operation of the class is an operator  *)
(* from a ledger to a ledger, so that the storage and the runtime          *)
(* authority can be built from them.                                       *)
(*                                                                         *)
(* Simplifications: identifiers are strings, "" being the empty one.  A    *)
(* manifest keeps whether it validates, the permissions it declares and    *)
(* its websites; ExtensionPackage models the validation itself.            *)
(***************************************************************************)
EXTENDS Naturals, Sequences

CONSTANTS
  Hour,        \* kExtensionOneHourMillis in ticks of the clock
  MaxMillis,   \* the largest value of the clock's type
  ValidSites   \* the websites valid_extension_site_declaration accepts

ASSUME LedgerAssumption ==
  /\ Hour \in Nat \ {0} /\ MaxMillis \in Nat /\ Hour <= MaxMillis
  /\ "" \notin ValidSites

PagePermissions == {"page.read", "page.modify", "sites.selected", "sites.all"}

OtherPermissions ==
  {"tabs.read", "tabs.create", "history.read", "bookmarks.modify", "downloads.manage",
   "clipboard.access", "notifications.display", "storage.extension", "network.request",
   "context_menu.add", "browser_ui.add"}

Permissions == PagePermissions \cup OtherPermissions

Scopes == {"extension", "only_when_clicked", "current_website", "selected_websites",
           "all_websites"}

Lifetimes == {"once", "until_tab_closes", "until_website_closes", "until_browser_closes",
              "one_hour", "always"}

Websites(lease) == {lease.websites[i] : i \in DOMAIN lease.websites}

Leases(Ids, Profiles, Sites, Names, Times) ==
  [id : Ids, permission : Permissions, profile : Profiles, scope : Scopes,
   lifetime : Lifetimes, websites : Seq(Sites), private : BOOLEAN, active : BOOLEAN,
   issued : Times, expires : Times, tab : Names, session : Names,
   revoked : BOOLEAN, consumed : BOOLEAN]

----------------------------------------------------------------------------
(* What a manifest and a grant allow                                       *)

Declares(manifest, permission) == permission \in manifest.permissions

AllowsWebsite(manifest, site) ==
  site # "" /\ (Declares(manifest, "sites.all") \/ site \in manifest.websites)

\* extension_grant_lifetime_active: live says which lifetimes are running.
LifetimeActive(grant, live) == grant.lifetime = "always" \/ grant.lifetime \in live

ScopeAuthorizes(grant, ctx) ==
  \/ grant.scope = "extension"
  \/ grant.scope = "only_when_clicked" /\ ctx.click
  \/ /\ ctx.website # ""
     /\ \/ grant.scope = "current_website" /\ grant.websites = <<ctx.website>>
        \/ grant.scope = "selected_websites" /\ ctx.website \in Websites(grant)
        \/ grant.scope = "all_websites"

\* authorize_extension_permission, for the one candidate the ledger hands it.
Authorizes(manifest, grant, permission, ctx, live) ==
  LET required == permission \in PagePermissions
  IN  /\ manifest.valid
      /\ Declares(manifest, permission)
      /\ ctx.profile # ""
      /\ required => AllowsWebsite(manifest, ctx.website) /\ grant.scope # "extension"
      /\ grant.active
      /\ grant.permission = permission
      /\ grant.profile = ctx.profile
      /\ ctx.private => grant.private
      /\ LifetimeActive(grant, live)
      /\ ScopeAuthorizes(grant, ctx)

----------------------------------------------------------------------------
(* The ledger                                                              *)

ValidScope(lease) ==
  /\ ~(lease.permission \in PagePermissions /\ lease.scope = "extension")
  /\ lease.scope = "current_website" => Len(lease.websites) = 1
  /\ lease.scope = "selected_websites" => lease.websites # <<>>
  /\ lease.scope \in {"current_website", "selected_websites"} =>
       Websites(lease) \subseteq ValidSites

Untimed(lease) == lease.issued = 0 /\ lease.expires = 0

ValidLifetime(lease) ==
  \/ lease.lifetime = "once" /\ ~lease.consumed /\ Untimed(lease)
  \/ lease.lifetime = "until_tab_closes" /\ lease.tab # "" /\ Untimed(lease)
  \/ /\ lease.lifetime = "until_website_closes" /\ lease.websites # <<>>
     /\ Websites(lease) \subseteq ValidSites /\ Untimed(lease)
  \/ lease.lifetime = "until_browser_closes" /\ lease.session # "" /\ Untimed(lease)
  \/ /\ lease.lifetime = "one_hour" /\ lease.issued > 0
     /\ lease.issued <= MaxMillis - Hour /\ lease.expires = lease.issued + Hour
  \/ lease.lifetime = "always" /\ Untimed(lease)

ValidLease(lease) ==
  /\ lease.id # 0 /\ ~lease.revoked /\ lease.active /\ lease.profile # ""
  /\ ValidScope(lease)
  /\ ValidLifetime(lease)

CanAdd(ledger, lease) ==
  ValidLease(lease) /\ \A i \in DOMAIN ledger : ledger[i].id # lease.id

Added(ledger, lease) == IF CanAdd(ledger, lease) THEN Append(ledger, lease) ELSE ledger

RevokedLease(lease) == [lease EXCEPT !.revoked = TRUE, !.active = FALSE]

Revoked(ledger, id) ==
  [i \in DOMAIN ledger |->
     IF ledger[i].id = id /\ ~ledger[i].revoked THEN RevokedLease(ledger[i]) ELSE ledger[i]]

ProfileRevoked(ledger, profile) ==
  [i \in DOMAIN ledger |->
     IF ledger[i].active /\ ~ledger[i].revoked /\ ledger[i].profile = profile
       THEN RevokedLease(ledger[i]) ELSE ledger[i]]

\* deactivate_matching: the leases at the places S, of those that are in force.
Deactivated(ledger, S) ==
  [i \in DOMAIN ledger |->
     IF ledger[i].active /\ ~ledger[i].revoked /\ i \in S
       THEN [ledger[i] EXCEPT !.active = FALSE] ELSE ledger[i]]

\* The places of the leases of one lifetime.
Lasting(ledger, lifetime) == {i \in DOMAIN ledger : ledger[i].lifetime = lifetime}

TabClosed(ledger, tab) ==
  Deactivated(ledger, {i \in Lasting(ledger, "until_tab_closes") : ledger[i].tab = tab})

WebsiteClosed(ledger, profile, site) ==
  Deactivated(ledger, {i \in Lasting(ledger, "until_website_closes") :
                         ledger[i].profile = profile /\ site \in Websites(ledger[i])})

SessionClosed(ledger, session) ==
  Deactivated(ledger, {i \in Lasting(ledger, "until_browser_closes") :
                         ledger[i].session = session})

ExpiredAt(ledger, now) ==
  Deactivated(ledger, {i \in Lasting(ledger, "one_hour") :
                         ledger[i].expires > 0 /\ now >= ledger[i].expires})

\* The lifetimes that are running for a lease in a context.
LiveFor(lease, ctx) ==
  {"once"}
  \cup (IF ctx.tab_active /\ ctx.tab # "" /\ lease.tab = ctx.tab
          THEN {"until_tab_closes"} ELSE {})
  \cup (IF ctx.website_active /\ ctx.website # "" THEN {"until_website_closes"} ELSE {})
  \cup (IF ctx.browser_active /\ ctx.session # "" /\ lease.session = ctx.session
          THEN {"until_browser_closes"} ELSE {})
  \cup (IF ctx.now >= lease.issued /\ ctx.now < lease.expires THEN {"one_hour"} ELSE {})

\* The indices of the leases that authorize a request.
Authorizing(ledger, manifest, permission, ctx) ==
  {i \in DOMAIN ledger :
     /\ ~ledger[i].revoked /\ ~ledger[i].consumed
     /\ Authorizes(manifest, ledger[i], permission, ctx, LiveFor(ledger[i], ctx))}

\* authorize_and_consume takes the first of them; a lease for one use is spent.
ChosenLease(ledger, manifest, permission, ctx) ==
  LET S == Authorizing(ledger, manifest, permission, ctx)
  IN  CHOOSE i \in S : \A j \in S : i <= j

\* Mutant: a lease for one use is left as it is.
ConsumedNever(ledger, i) == ledger

Consumed(ledger, i) ==
  IF ledger[i].lifetime = "once"
    THEN [ledger EXCEPT ![i].consumed = TRUE, ![i].active = FALSE] ELSE ledger
=============================================================================
