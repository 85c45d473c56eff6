------------------------------- MODULE Lists -------------------------------
(***************************************************************************)
(* The lists in the values of the indices (SandboxStore.by_workload,       *)
(* WorkloadStore.by_addr), from which members are taken in place.          *)
(***************************************************************************)
EXTENDS Naturals, Sequences

\* Vec::retain: the list without the members of D, in its order.
Without(q, D) ==
    LET kept[i \in 0..Len(q)] ==
            IF i = 0 THEN <<>> ELSE IF q[i] \in D THEN kept[i - 1] ELSE Append(kept[i - 1], q[i])
    IN kept[Len(q)]
=============================================================================
