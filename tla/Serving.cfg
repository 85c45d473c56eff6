INIT ServingInit
NEXT ServingNext
CONSTANTS
    Absent = Absent
    a4 = a4
    a6 = a6
    g1 = g1
    g2 = g2
    v1 = v1
    o4 = o4
    o6 = o6
    lo = lo
    net = net
    ns1 = ns1
    hGw = hGw
    hWp = hWp
    hSvc = hSvc
    hDns = hDns
    i1 = i1
    i2 = i2
    i3 = i3
    san = san
    IPv6 = {a6, o6}
    Loopback = {lo}
    IllegalPorts = {15}
    Network = net
    Conns = {c1}
    Local = "local"
    Stores <- ServingStores
    Inputs <- ServingInputs
    Configs <- ServingConfigs
    Answers <- ServingAnswers
    MaxUpdates = 1
    Queries = {q1}
    Labels <- ServingLabels
    Asked <- ServingAsked
    DnsStores <- ServingDnsStores
    ClusterDomain <- Cluster
    ResolvConf <- ServingResolvConf
    DnsConfigs <- ServingDnsConfigs
    DnsLocal = "local"
    MaxDnsUpdates = 2
    NoValue = Absent
    Fetches = {f1, f2}
    Handshakes = {h1}
    Roots = {0, 1, 2}
    Requested <- ServingRequested
    Responses <- ServingResponses
    CaNames = {"alt", "ca"}
    TlsConfigs <- ServingTlsConfigs
    Peers <- ServingPeers
    CrlFiles <- ServingCrlFiles
    MaxFileChanges = 2
    LifeConfigs <- ServingLifeConfigs
    LifeConns = {n1}
    SocketFiles = {"none", "stale", "file", "other"}
    CopySides <- ServingCopySides
    CopyUnits = 2
    CapsuleStreams <- ServingCapsuleStreams
    MaxDatagramSize = 2
    AgentMessages <- ServingAgentMessages
    NoCtx = NoCtx
    Missing = Missing
    WireResources <- ServingWireResources
    Probes <- ServingProbes
    PolicyProbes <- ServingPolicyProbes
    MaxResponses = 2
    Nil = Nil
    Kubelets = {k1}
    ProberSets <- ServingProbers
    Hosts <- ServingHosts
    StatusPort = 15020
    MaxRedirects = 3
    MaxChanges = 2
    Unset = Unset
    Bad = Bad
    Environments <- ServingEnvironments
    Files = {"root-cert.pem", "istio-token"}
    Cpus = 2
    Width = 65536
    NamedSetThreshold = 1
    MultiportMax = 2
    AnyValue = AnyValue
    SampleRuleSets <- ServingRuleSets
    Packets <- ServingPackets
INVARIANTS
    ProbesTruthful
    InputsHonoured
    StreamIntact
    WireIntact
    ReadyIsTrue
    DrainSound
    CredentialsSound
    AnswersGrounded
    EndsWhereChecked
    CoherentHop
    Accounted
CHECK_DEADLOCK FALSE
