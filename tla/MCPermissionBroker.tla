------------------------- MODULE MCPermissionBroker -------------------------
(* Contexts and authority snapshots for model checking PermissionBroker. *)
EXTENDS PermissionBroker, TLC

MCContexts ==
  {[id |-> "a", mode |-> "normal", page |-> "x"],
   [id |-> "b", mode |-> "private_browsing", page |-> "x"]}

Gate(required, decision) == [required |-> required, decision |-> decision]
Silent == Gate(FALSE, "not_required")

Clear == [policy |-> Gate(TRUE, "allow"), shield |-> Silent, wardveil |-> Silent,
          host |-> "granted"]

\* All clear; two authorities against it; none asked.
MCSnapshots ==
  {Clear,
   [Clear EXCEPT !.shield = Gate(FALSE, "deny"), !.host = "restricted"],
   None}

\* Sound: the broker treats every id alike.
IdSymmetry == Permutations(Ids)
=============================================================================
