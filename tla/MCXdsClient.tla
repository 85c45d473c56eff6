----------------------------- MODULE MCXdsClient -----------------------------
(***************************************************************************)
(* One watched type and one on demand, two tasks that may demand the same  *)
(* resource, by its name or by an address it is known under.               *)
(***************************************************************************)
EXTENDS XdsClient

CONSTANTS n1, a1

MCNames == {n1}
MCAliases == {a1}
MCAliasOf == [a \in {a1} |-> n1]
=============================================================================
