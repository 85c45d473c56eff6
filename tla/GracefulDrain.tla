---------------------------- MODULE GracefulDrain ----------------------------
(***************************************************************************)
(* What draining promises (src/drain.rs, run_with_drain): a component      *)
(* takes up work until it sees the drain, then lets the work it has come   *)
(* to its end, and stops when there is none left.  Only a forced shutdown  *)
(* or an error makes it stop with work under way.  The UDP dispatcher and  *)
(* the in-pod manager implement it.                                        *)
(***************************************************************************)
CONSTANT Work
VARIABLES
    phase,      \* "serving", "draining", "stopped" or "aborted"
    active      \* the work under way

Init == phase = "serving" /\ active = {}

TakeUp(w) == phase = "serving" /\ w \notin active /\ active' = active \cup {w} /\ UNCHANGED phase
Finish(w) == w \in active /\ active' = active \ {w} /\ UNCHANGED phase
StartDrain == phase = "serving" /\ phase' = "draining" /\ UNCHANGED active
Stop == phase = "draining" /\ active = {} /\ phase' = "stopped" /\ UNCHANGED active
Abort == phase \in {"serving", "draining"} /\ phase' = "aborted" /\ UNCHANGED active

Next == (\E w \in Work : TakeUp(w) \/ Finish(w)) \/ StartDrain \/ Stop \/ Abort

Spec == Init /\ [][Next]_<<phase, active>>
=============================================================================
