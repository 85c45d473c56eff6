------------------------------- MODULE Settings -------------------------------
(***************************************************************************)
(* The configuration of the process (src/config.rs): environment, the mesh *)
(* file and PROXY_CONFIG are layered, parsed and checked once at start.    *)
(*                                                                         *)
(* A variable of the environment is Unset, Bad (set, but not to be parsed) *)
(* or a value.  A URI is [text, scheme].  A path is a name that exists as  *)
(* a file or not.  A metadata key is a pair of whether it is spelled with  *)
(* the ISTIO_META_ prefix, and its name.                                   *)
(***************************************************************************)
EXTENDS Naturals, Sequences, SequencesExt, FiniteSetsExt

CONSTANTS
    Unset, Bad,
    Environments,   \* records, see the fields used below
    Files,          \* paths that exist
    Cpus,           \* num_cpus::get()
    Width           \* 2^64 in the code: arithmetic on u64 wraps in a release build

VARIABLES env, settings     \* settings: what parse_config returned, or Unset

settingsVars == <<env, settings>>

Or(a, b) == IF a = Unset THEN b ELSE a
EmptyToNone(text) == IF text = "" THEN Unset ELSE text

-----------------------------------------------------------------------------
(* ProxyConfig                                                             *)

NoProxyConfig == [discovery |-> Unset, concurrency |-> Unset, admin |-> Unset, meta |-> <<>>]

\* The later one wins field by field, and key by key.
Merge(pc, other) ==
    [discovery |-> Or(other.discovery, pc.discovery), concurrency |-> Or(other.concurrency, pc.concurrency),
     admin |-> Or(other.admin, pc.admin),
     meta |-> [k \in DOMAIN other.meta \cup DOMAIN pc.meta |-> IF k \in DOMAIN other.meta THEN other.meta[k] ELSE pc.meta[k]]]

MergeIf(pc, other) == IF other = Unset THEN pc ELSE Merge(pc, other)

ProxyConfigOk(e) == e.mesh # Bad /\ e.proxyConfig # Bad
ProxyConfig(e) == MergeIf(MergeIf(NoProxyConfig, e.mesh), e.proxyConfig)

\* Prefixes are stripped in the order of a hash map: if a key comes in both
\* spellings either value may stay.  The environment then overrides.
MetaValues(e, key) ==
    LET meta == ProxyConfig(e).meta
    IN IF e.meta[key] # Unset THEN {e.meta[key]}
       ELSE IF \E k \in DOMAIN meta : k[2] = key THEN {meta[k] : k \in {k \in DOMAIN meta : k[2] = key}}
       ELSE {Unset}

-----------------------------------------------------------------------------
(* Single settings                                                         *)

\* parse_default: a value that cannot be parsed fails the whole configuration.
Parsed == {"ipv6", "fakeCa", "proxy", "udp", "udpSessions", "udpIdle", "onDemand", "deadline", "mark", "threads",
           "backend", "manager", "tokenEnabled", "tls", "unix", "debounce", "xdsHeader"}
ParseOk(e) == /\ \A k \in Parsed : e[k] # Bad
              /\ e.deadline = Unset => e.grace # Bad

\* validate_uri: one without a scheme gets https.
ValidateUri(uri) == IF uri = Unset \/ uri.scheme THEN uri ELSE [uri EXCEPT !.scheme = TRUE]
UriOrNone(uri) == IF uri = Unset THEN Unset ELSE IF uri.text = "" THEN Unset ELSE ValidateUri(uri)

DefaultIstiod(e) == [text |-> IF e.kubernetes THEN "istiod" ELSE "localhost", scheme |-> TRUE]
XdsAddress(e) == Or(Or(e.xds, ProxyConfig(e).discovery), DefaultIstiod(e))
CaAddress(e) == IF Or(e.fakeCa, FALSE) THEN Unset ELSE Or(e.ca, DefaultIstiod(e))
UriOk(uri) == uri # Bad

\* A provider is a file if there is one of that name.
RootCert(provider) ==
    LET p == Or(provider, "root-cert.pem")
    IN IF p \in Files THEN <<"File", p>> ELSE IF p = "SYSTEM" THEN <<"Default">> ELSE <<"Static", p>>
Auth(e) ==
    LET p == Or(e.token, "istio-token")
    IN IF p \in Files THEN <<"Token", p>> ELSE IF e.token = Unset THEN <<"None">> ELSE <<"StaticToken", p>>

\* The cluster of a token: the prefixed variable comes first.
ClusterId(e) == Or(e.meta["CLUSTER_ID"], Or(e.clusterId, "Kubernetes"))

ModeOk(e) == e.mode \in {Unset, "shared", "dedicated"}
Dedicated(e) == e.mode = "dedicated"

\* PROXY_WORKLOAD_INFO has three parts, or the three variables are set.
InfoOk(e) == Dedicated(e) => IF e.info # Unset THEN Len(e.info) = 3 ELSE Unset \notin ToSet(e.pod)
WorkloadInfo(e) == IF ~Dedicated(e) THEN Unset ELSE IF e.info # Unset THEN e.info ELSE e.pod
ZtunnelIdentity(e) == IF Unset \in ToSet(e.pod) THEN Unset ELSE e.pod

LocalXdsOk(e) == e.localPath = Unset \/ e.localXds = Unset
LocalXds(e) == IF e.localPath # Unset THEN <<"File", e.localPath>> ELSE IF e.localXds # Unset THEN <<"Static", e.localXds>> ELSE Unset

LocalhostV6(e) == Or(e.ipv6, TRUE) /\ e.kernelV6
\* An address of both loopbacks, or a given one.
BindAddrs(e, addr) == IF addr = "localhost" THEN {"127.0.0.1"} \cup (IF LocalhostV6(e) THEN {"::1"} ELSE {}) ELSE {addr}

\* Shortened by five seconds, or by one if it is short.
Shortened(secs) == IF secs > 10 THEN secs - 5 ELSE (secs + Width - 1) % Width
Deadline(e) == IF e.deadline # Unset THEN e.deadline
               ELSE IF e.grace # Unset THEN Max({Shortened(e.grace), 1}) ELSE 5

\* ZTUNNEL_WORKER_THREADS is <<n>>, or <<n, "%">>.
Percentage(e) == e.threads # Unset /\ Len(e.threads) = 2
ThreadsOk(e) == Percentage(e) => e.threads[1] \in 1..100 /\ e.cpuLimit # Bad
WorkerThreads(e) ==
    LET cpus == Or(e.cpuLimit, Cpus)
    IN IF e.threads = Unset THEN Or(ProxyConfig(e).concurrency, 2)
       ELSE IF Len(e.threads) = 1 THEN e.threads[1]
       ELSE Max({(cpus * e.threads[1] + 99) \div 100, 1})

\* Only a proxy in the pods gets a mark by itself.
PacketMarkShared(e) == Or(e.mark, IF ~Dedicated(e) THEN 1337 ELSE Unset)

PacketMark(e) == Or(e.mark, IF ~Dedicated(e) \/ Or(e.udp, FALSE) THEN 1337 ELSE Unset)

-----------------------------------------------------------------------------
(* The configuration                                                       *)

Config(e, capture, dnsAddr) ==
    [proxy |-> Or(e.proxy, TRUE), dns |-> capture \in {Unset, "true", "TRUE"}, dnsAddrs |-> BindAddrs(e, Or(dnsAddr, "localhost")),
     adminAddrs |-> BindAddrs(e, "localhost"), wildcard |-> IF Or(e.ipv6, TRUE) THEN "::" ELSE "0.0.0.0",
     xds |-> UriOrNone(XdsAddress(e)), ca |-> UriOrNone(CaAddress(e)), xdsRoot |-> RootCert(e.xdsRoot), caRoot |-> RootCert(e.caRoot),
     auth |-> Auth(e), cluster |-> ClusterId(e), dedicated |-> Dedicated(e), info |-> WorkloadInfo(e), self |-> ZtunnelIdentity(e),
     local |-> LocalXds(e), deadline |-> Deadline(e), threads |-> WorkerThreads(e), mark |-> PacketMark(e),
     udp |-> Or(e.udp, FALSE), udpSessions |-> Or(e.udpSessions, 1024), udpIdle |-> Or(e.udpIdle, 30),
     onDemand |-> Or(e.onDemand, FALSE), crl |-> EmptyToNone(e.crl), backend |-> Or(e.backend, "auto"),
     manager |-> Or(e.manager, FALSE), tokens |-> Or(e.tokenEnabled, FALSE), debounce |-> Or(e.debounce, 500),
     tls |-> Or(e.tls, FALSE), allowed |-> ToSet(e.allowed) \ {""}, unix |-> Or(e.unix, FALSE), socketPath |-> e.socketPath]

ValidateConfig(c) ==
    /\ c.tokens => c.manager
    /\ c.tls => c.manager /\ c.allowed # {}
    /\ c.manager => c.proxy /\ c.xds # Unset
    /\ c.unix => c.socketPath = "absolute"
    /\ c.tokens => c.debounce # 0
    /\ ~(c.dns /\ c.onDemand) /\ (c.proxy \/ c.dns)
    /\ c.udpSessions # 0 /\ c.udpIdle # 0

ConstructOk(e) ==
    /\ ProxyConfigOk(e) /\ ParseOk(e) /\ UriOk(XdsAddress(e)) /\ UriOk(CaAddress(e))
    /\ ModeOk(e) /\ InfoOk(e) /\ LocalXdsOk(e) /\ ThreadsOk(e)

SettingsInit == env \in Environments /\ settings = Unset

\* parse_config: an error ends the process, as does a DNS address that does not parse.
ParseConfig(capture, dnsAddr) ==
    LET c == Config(env, capture, dnsAddr)
    IN /\ settings = Unset /\ ConstructOk(env)
       /\ capture \in MetaValues(env, "DNS_CAPTURE") /\ dnsAddr \in MetaValues(env, "DNS_PROXY_ADDR") \ {Bad}
       /\ ValidateConfig(c)
       /\ settings' = c
       /\ UNCHANGED env

SettingsNext == \E capture \in {Unset, "true", "TRUE", "false"}, dnsAddr \in {Unset, "localhost", "0.0.0.0"} : ParseConfig(capture, dnsAddr)

-----------------------------------------------------------------------------
(* Properties                                                              *)

\* A configuration that is accepted gives every part it starts what that part needs,
\* however its sources are layered: UDP replies are marked in every mode, or the
\* redirection would catch them; a dedicated proxy knows its workload; the sandbox
\* manager has a server, and a closed list of callers if it asks for certificates;
\* every server address has a scheme; a share of the CPUs is a thread at least and
\* never more than the CPUs; and a variable of the environment beats the files
\* (construct_config, validate_config, construct_proxy_config).
SettingsUsable ==
    settings # Unset =>
        /\ settings.udp => settings.mark # Unset
        /\ settings.dedicated => settings.info # Unset
        /\ settings.manager => settings.xds # Unset /\ settings.proxy
        /\ settings.tls => settings.allowed # {} /\ "" \notin settings.allowed
        /\ \A uri \in {settings.xds, settings.ca} \ {Unset} : uri.scheme /\ uri.text # ""
        /\ (Percentage(env) => settings.threads \in 1..Max({Or(env.cpuLimit, Cpus), 1}))
        /\ (env.xds # Unset /\ env.xds.text # "" => settings.xds.text = env.xds.text)
        /\ (env.meta["DNS_CAPTURE"] # Unset => settings.dns = (env.meta["DNS_CAPTURE"] \in {"true", "TRUE"}))
        /\ ("::1" \in settings.adminAddrs => settings.wildcard = "::")

===============================================================================
