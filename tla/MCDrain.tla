------------------------------- MODULE MCDrain -------------------------------
(***************************************************************************)
(* The end of a dedicated proxy, with one connection to any of its servers *)
(***************************************************************************)
EXTENDS Lifecycle

DrainConfigs == {[shared |-> FALSE, proxy |-> TRUE, dns |-> FALSE, self |-> FALSE, xds |-> TRUE, unix |-> FALSE]}
=============================================================================
