-------------------------- MODULE MCLedgerStorage --------------------------
(* Leases for model checking LedgerStorage. *)
EXTENDS LedgerStorage

Lease(id, permission, profile, scope, lifetime, websites) ==
  [id |-> id, permission |-> permission, profile |-> profile, scope |-> scope,
   lifetime |-> lifetime, websites |-> websites, private |-> FALSE, active |-> TRUE,
   issued |-> 0, expires |-> 0, tab |-> "", session |-> "",
   revoked |-> FALSE, consumed |-> FALSE]

Always == Lease(1, "page.read", "p", "selected_websites", "always", <<"https://s">>)
OneHour == Lease(2, "tabs.read", "p", "extension", "one_hour", <<>>)
Other == Lease(3, "storage.extension", "q", "extension", "always", <<>>)

\* A durable lease without end, one for an hour, one for another profile.
DurableOffers == {Always, OneHour, Other}
OneOffer == {Always}
=============================================================================
