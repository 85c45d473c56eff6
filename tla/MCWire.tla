-------------------------------- MODULE MCWire --------------------------------
(***************************************************************************)
(* Messages of the agent alone, with at most two descriptors.              *)
(***************************************************************************)
EXTENDS Wire

AgentsMessages ==
    [cmsgs : {<<>>, << <<1>> >>, << <<1, 2>> >>}, trunc : BOOLEAN, ctrunc : BOOLEAN, payload : {"Add", "Keep", "broken"}]
===============================================================================
