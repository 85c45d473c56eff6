INIT WireInit
NEXT WireNext
CONSTANTS
    CapsuleStreams = {}
    MaxDatagramSize = 2
    AgentMessages <- AgentsMessages
    NoCtx = NoCtx
INVARIANTS NoFdLeaks
CHECK_DEADLOCK FALSE
