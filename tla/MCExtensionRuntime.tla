------------------------- MODULE MCExtensionRuntime -------------------------
(* Leases, manifests and places for model checking ExtensionRuntime. *)
EXTENDS ExtensionRuntime, TLC

Lease(id, permission, scope, lifetime, websites, private) ==
  [id |-> id, permission |-> permission, profile |-> "p", scope |-> scope,
   lifetime |-> lifetime, websites |-> websites, private |-> private, active |-> TRUE,
   issued |-> 0, expires |-> 0, tab |-> "", session |-> "",
   revoked |-> FALSE, consumed |-> FALSE]

\* A lease for one use, one for a tab and one for a private hour.
MCOffers ==
  {Lease(1, "clipboard.access", "only_when_clicked", "once", <<>>, FALSE),
   [Lease(2, "page.read", "selected_websites", "until_tab_closes", <<"https://s">>, FALSE)
      EXCEPT !.tab = "t"],
   Lease(3, "clipboard.access", "extension", "one_hour", <<>>, TRUE)}

MCManifests ==
  {[id |-> "e", valid |-> TRUE, entries |-> TRUE,
    permissions |-> {"page.read", "clipboard.access"}, websites |-> {"https://s"}]}

MCIdentities ==
  {[extension |-> "e", profile |-> "p", private |-> FALSE],
   [extension |-> "e", profile |-> "p", private |-> TRUE]}

MCPlaces ==
  {[permission |-> "page.read", website |-> "https://s", tab |-> "t", session |-> "b"],
   [permission |-> "clipboard.access", website |-> "", tab |-> "", session |-> "b"]}

\* The instances of the broker are interchangeable.
BrokeredSymmetry == Permutations(Brokered)

MCOpens == {[tab |-> b, website |-> b, browser |-> b] : b \in BOOLEAN}
=============================================================================
