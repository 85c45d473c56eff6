-------------------------- MODULE MCSandboxManager ---------------------------
(***************************************************************************)
(* Two requests with two identities against one token file, which is       *)
(* missing at first.                                                       *)
(***************************************************************************)
EXTENDS SandboxManager, TLC

MCInit == Init /\ files = [f \in Files |-> NoFile]

Symmetry == Permutations(Requests) \union Permutations(Ids)
=============================================================================
