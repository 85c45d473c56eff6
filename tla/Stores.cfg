SPECIFICATION StoresSpec
CONSTANTS
    u1 = u1
    u2 = u2
    s1 = s1
    s2 = s2
    p1 = p1
    p2 = p2
    x = x
    y = y
    a1 = a1
    a2 = a2
    v1 = v1
    v2 = v2
    i1 = i1
    i2 = i2
    Uids = {u1, u2}
    SandboxIds = {s1, s2}
    PolicyNames = {p1, p2}
    NoUid = NoUid
    NoSandbox = NoSandbox
    NoBody = NoBody
    NoRules = NoRules
    NoRefs = NoRefs
    NoResource = NoResource
    Invalid = Invalid
    Bodies <- MCBodies
    RefLists <- MCRefLists
    PolicyBatches <- MCPolicyBatches
    SandboxBatches <- MCSandboxBatches
    LocalConfigs <- MCLocalConfigs
    Packets <- MCPackets
    MaxRules = 2
    MaxRefs = 2
    NoEntry = NoEntry
    WorkloadIds = {u1, u2}
    WorkloadValues <- MCWorkloadValues
    ServiceValues <- MCServiceValues
    AddressFiles <- MCAddressFiles
    Services = {s1, s2}
    Addrs = {a1, a2}
    Vips = {v1, v2}
    Identities = {i1, i2}
    Ids = {a}
    Clients = {c1, c2}
    NoId = NoId
    Cancellable = {c1, c2}
    Concurrency = 1
    QueueCap = 1
    Lifetimes = {0, 2}
    RetryDelays = {1, 3}
INVARIANTS PoliciesDecide IndicesCurrent EndpointsExact ManagedIsRefreshed
PROPERTIES NotifyOnChange EveryFetchReturns
