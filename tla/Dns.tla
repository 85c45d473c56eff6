--------------------------------- MODULE Dns ---------------------------------
(***************************************************************************)
(* The DNS proxy: Handler of src/dns/handler.rs, Store and SystemForwarder *)
(* of src/dns/server.rs, Forwarder of src/dns/forwarder.rs.                *)
(*                                                                         *)
(* A name is a sequence of labels.  The store is read under its lock once  *)
(* to find a service and, for a service without VIPs, a second time to     *)
(* read its endpoints; it may change in between and while a query waits    *)
(* for the local workload or for the resolver upstream.  No name that is   *)
(* asked for has the label "*", which the library does not count.          *)
(***************************************************************************)
EXTENDS Routing

CONSTANTS
    Queries,            \* slots for queries in flight
    Labels,             \* what names are made of
    Asked,              \* [message, op, info, name, type] that a client may send
    DnsStores,
    ClusterDomain,      \* Config.cluster_domain, as labels
    ResolvConf,         \* search domains of /etc/resolv.conf
    DnsConfigs,         \* [perPod, preferred, ipv6]
    DnsLocal,           \* uid of the workload that asks
    MaxDnsUpdates

Names == Seq(Labels)
DnsServices == UNION {Range(st.services) : st \in DnsStores}
DnsWorkloads == UNION {st.workloads : st \in DnsStores}

\* Names are lists of labels, and a namespace is a label; Absent is no service,
\* no workload and no match of a name.
ASSUME DnsAssumption ==
    /\ IsFiniteSet(Queries) /\ {"svc", "*"} \subseteq Labels
    /\ ClusterDomain \in Names /\ ResolvConf \in Seq(Names)
    /\ \A a \in Asked : a.name \in Names
    /\ \A st \in DnsStores : st.services \in Seq(Range(st.services))
    /\ \A s \in DnsServices : s.host \in Names /\ \A v \in s.vips : v = [ip |-> v.ip, net |-> v.net]
    /\ \A w \in DnsWorkloads : w.ns \in Labels /\ w.ips \in Seq(Range(w.ips))
    /\ Absent \notin DnsServices /\ Absent \notin DnsWorkloads
    /\ Absent \notin [svc : DnsServices, name : Names, stripped : Names \cup {Absent}]

VARIABLES
    dnsCfg,
    dnsStore,
    dnsUpdates,
    dnsServer,          \* up, draining or down
    query,
    dnsCounts           \* requests, forwarded_requests, forwarded_failures

dnsVars == <<dnsCfg, dnsStore, dnsUpdates, dnsServer, query, dnsCounts>>

NoQuery == [stage |-> "idle", ask |-> Absent, client |-> Absent, match |-> Absent, reply |-> Absent,
            upstream |-> FALSE, seen |-> {}]

DnsInit ==
    /\ dnsCfg \in DnsConfigs
    /\ dnsStore \in DnsStores
    /\ dnsUpdates = 0
    /\ dnsServer = "up"
    /\ query = [q \in Queries |-> NoQuery]
    /\ dnsCounts = [requests |-> 0, forwarded |-> 0, failures |-> 0]

-----------------------------------------------------------------------------
(* Names                                                                   *)

HasDomain(name, domain) ==
    Len(name) > Len(domain) /\ SubSeq(name, Len(name) - Len(domain) + 1, Len(name)) = domain

TrimDomain(name, domain) == SubSeq(name, 1, Len(name) - Len(domain))

SvcDomain == <<"svc">> \o ClusterDomain
NamespacedDomain(ns) == <<ns>> \o SvcDomain

\* to_kube_fqdns: which domains are appended depends on the number of labels.
ToKubeFqdns(name, ns) ==
    LET only(cond, domain) == IF cond THEN << name \o domain >> ELSE <<>>
        n == Len(name)
    IN only(n \in {3, 4} /\ HasDomain(name, <<"svc">>), ClusterDomain)
       \o only(n \in {2, 3}, SvcDomain)
       \o only(n \in {1, 2}, NamespacedDomain(ns))

\* SystemForwarder::search_domains
SearchDomains(ns) ==
    IF dnsCfg.perPod THEN << NamespacedDomain(ns), SvcDomain, ClusterDomain >> ELSE ResolvConf

\* get_aliases, in order.  Of two equal names the first is found first, so that
\* the second need not be left out.
AliasesUnder(ns, base, stripped) ==
    LET names == <<base>> \o ToKubeFqdns(base, ns)
    IN [i \in DOMAIN names |-> [name |-> names[i], stripped |-> stripped]]

AliasLists(ns, name) ==
    LET domains == SearchDomains(ns)
        trimmed(d) == TrimDomain(name, d)
    IN <<AliasesUnder(ns, name, Absent)>> \o
       [i \in DOMAIN domains |-> IF HasDomain(name, domains[i])
                                 THEN AliasesUnder(ns, trimmed(domains[i]), trimmed(domains[i])) ELSE <<>>]

Aliases(ns, name) == FlattenSeq(AliasLists(ns, name))

\* get_wildcards: the name, then ever shorter wildcards, none of one label.
GetWildcards(name) ==
    <<name>> \o [i \in 1..(Len(name) - 1) |-> <<"*">> \o SubSeq(name, i + 1, Len(name))]

-----------------------------------------------------------------------------
(* Lookups                                                                 *)

\* A service without VIPs is served only under the cluster's own domain.
Served(s) == s.vips # {} \/ HasDomain(s.host, SvcDomain)

ServiceFor(st, client, host) ==
    LET named == GetByHost(st, host)
    IN FindBestMatch(Without(named, {s \in Range(named) : ~Served(s)}), client.ns, dnsCfg.preferred)

\* The names that find_server looks for: every wildcard of every alias, in order.
SearchesOf(alias) ==
    LET names == GetWildcards(alias.name)
    IN [i \in DOMAIN names |-> [name |-> names[i], stripped |-> alias.stripped]]

Searches(ns, name) ==
    LET aliases == Aliases(ns, name) IN FlattenSeq([i \in DOMAIN aliases |-> SearchesOf(aliases[i])])

\* find_server: the first of them that names a service.
FindServer(st, client, name) ==
    LET searches == Searches(client.ns, name)
        hits == {i \in DOMAIN searches : ServiceFor(st, client, searches[i].name) # Absent}
        first == searches[Min(hits)]
    IN IF hits = {} THEN Absent
       ELSE [svc |-> ServiceFor(st, client, first.name), name |-> first.name, stripped |-> first.stripped]

IsRecordType(ip, type) == type = (IF ip \in IPv6 THEN "AAAA" ELSE "A")
RecordTypeEnabled(ip) == ip \notin IPv6 \/ dnsCfg.ipv6

ServiceFamilyAllowed(svc, type) ==
    /\ type = "AAAA" => dnsCfg.ipv6 /\ svc.family # "IPv4"
    /\ type = "A" => svc.family # "IPv6"

\* get_addresses: of a headless service the first usable address of each endpoint.
GetAddresses(st, client, svc, type) ==
    LET usable(ip) == IsRecordType(ip, type) /\ RecordTypeEnabled(ip)
        first(w) == LET fit == {i \in DOMAIN w.ips : usable(w.ips[i])} IN IF fit = {} THEN {} ELSE {w.ips[Min(fit)]}
    IN IF svc.vips = {} THEN UNION {first(w) : w \in {x \in st.workloads : x.uid \in DOMAIN svc.eps}}
       ELSE {v.ip : v \in {x \in svc.vips : x.net = client.net /\ usable(x.ip)}}

\* The records keep the name that was asked for, behind a CNAME.
RecordsUnderName(name, m, ips) ==
    (IF m.stripped # Absent THEN {[name |-> name, cname |-> m.stripped]} ELSE {})
    \cup {[name |-> IF m.stripped # Absent THEN m.name ELSE name, ip |-> ip] : ip \in ips}

\* A CNAME only for a stripped name that was not found by a wildcard.
Records(name, m, ips) ==
    LET renamed == m.stripped # Absent /\ m.name[1] # "*"
    IN (IF renamed THEN {[name |-> name, cname |-> m.stripped]} ELSE {})
       \cup {[name |-> IF renamed THEN m.stripped ELSE name, ip |-> ip] : ip \in ips}

-----------------------------------------------------------------------------
(* Queries                                                                 *)

DnsSet(q, x) == query' = [query EXCEPT ![q] = x]
Replied(q, reply) == DnsSet(q, [query[q] EXCEPT !.stage = "send", !.reply = reply])
CountRequest == dnsCounts' = [dnsCounts EXCEPT !.requests = @ + 1]
InFlight(q) == query[q].stage \notin {"idle", "done"}
Asks(q) == query[q].ask

Answer(records, authoritative) == [code |-> "NoError", aa |-> authoritative, records |-> records]
SendError(code) == [code |-> code, aa |-> FALSE, records |-> {}]

\* xDS changes the store.
DnsUpdate(st) ==
    /\ dnsUpdates < MaxDnsUpdates /\ st # dnsStore
    /\ dnsStore' = st /\ dnsUpdates' = dnsUpdates + 1
    /\ query' = [q \in Queries |-> IF InFlight(q) THEN [query[q] EXCEPT !.seen = @ \cup {st}] ELSE query[q]]
    /\ UNCHANGED <<dnsCfg, dnsServer, dnsCounts>>

\* handle_request
HandleRequest(q, ask) ==
    /\ dnsServer = "up" /\ query[q].stage = "idle"
    /\ IF ask.message = "Query" /\ ask.op = "Query"
       THEN DnsSet(q, [query[q] EXCEPT !.stage = "client", !.ask = ask, !.seen = {dnsStore}])
       ELSE DnsSet(q, [query[q] EXCEPT !.stage = "send", !.ask = ask,
                                       !.reply = SendError(IF ask.message = "Query" THEN "NotImp" ELSE "FormErr")])
    /\ UNCHANGED <<dnsCfg, dnsStore, dnsUpdates, dnsServer, dnsCounts>>

\* forward: both counters, before the resolver is asked.
Forward(q, client) ==
    /\ DnsSet(q, [query[q] EXCEPT !.stage = "forward", !.client = client, !.upstream = TRUE])
    /\ dnsCounts' = [dnsCounts EXCEPT !.requests = @ + 1, !.forwarded = @ + 1]

\* lookup up to the match: the store is locked for find_server only.
Lookup(q) ==
    /\ query[q].stage = "client"
    /\ \E client \in {w \in dnsStore.workloads : w.uid = DnsLocal} :
        LET m == FindServer(dnsStore, client, Asks(q).name)
        IN \/ /\ ~Asks(q).info                          \* request_info fails
              /\ Replied(q, SendError("ServFail"))
              /\ UNCHANGED dnsCounts
           \/ /\ Asks(q).info /\ (Asks(q).type \notin {"A", "AAAA"} \/ m = Absent)
              /\ Forward(q, client)
           \/ /\ Asks(q).info /\ Asks(q).type \in {"A", "AAAA"} /\ m # Absent
              /\ DnsSet(q, [query[q] EXCEPT !.stage = "addresses", !.client = client, !.match = m])
              /\ CountRequest
    /\ UNCHANGED <<dnsCfg, dnsStore, dnsUpdates, dnsServer>>

\* The local workload is not known in time.
UnknownSource(q) ==
    /\ query[q].stage = "client" /\ \A w \in dnsStore.workloads : w.uid # DnsLocal
    /\ Replied(q, SendError("ServFail"))
    /\ CountRequest
    /\ UNCHANGED <<dnsCfg, dnsStore, dnsUpdates, dnsServer>>

\* The rest of lookup, with what the store holds by now.
Addresses(q) ==
    LET m == query[q].match
        type == Asks(q).type
        ips == IF ServiceFamilyAllowed(m.svc, type) THEN GetAddresses(dnsStore, query[q].client, m.svc, type) ELSE {}
    IN /\ query[q].stage = "addresses"
       /\ Replied(q, Answer(IF ips = {} THEN {} ELSE Records(Asks(q).name, m, ips), TRUE))
       /\ UNCHANGED <<dnsCfg, dnsStore, dnsUpdates, dnsServer, dnsCounts>>

\* The resolver upstream answers or fails: see send_lookup_error for the codes.
Upstream(q, code) ==
    /\ query[q].stage = "forward"
    /\ Replied(q, IF code = "NoError" THEN Answer({}, FALSE) ELSE SendError(code))
    /\ dnsCounts' = [dnsCounts EXCEPT !.failures = IF code = "NoError" THEN @ ELSE @ + 1]
    /\ UNCHANGED <<dnsCfg, dnsStore, dnsUpdates, dnsServer>>

\* send_response: a failure is logged and the query is over.
Send(q, ok) ==
    /\ query[q].stage = "send"
    /\ DnsSet(q, [query[q] EXCEPT !.stage = "done", !.reply = IF ok THEN @ ELSE Absent])
    /\ UNCHANGED <<dnsCfg, dnsStore, dnsUpdates, dnsServer, dnsCounts>>

\* Server::run: an immediate drain drops the queries, a graceful one waits.
DnsDrain(mode) ==
    /\ dnsServer = "up"
    /\ IF mode = "Graceful" THEN dnsServer' = "draining" /\ UNCHANGED query
       ELSE /\ dnsServer' = "down"
            /\ query' = [q \in Queries |-> IF InFlight(q) THEN [query[q] EXCEPT !.stage = "done", !.reply = Absent] ELSE query[q]]
    /\ UNCHANGED <<dnsCfg, dnsStore, dnsUpdates, dnsCounts>>

DnsDrained ==
    /\ dnsServer = "draining" /\ \A q \in Queries : ~InFlight(q)
    /\ dnsServer' = "down"
    /\ UNCHANGED <<dnsCfg, dnsStore, dnsUpdates, query, dnsCounts>>

DnsNext ==
    \/ \E st \in DnsStores : DnsUpdate(st)
    \/ \E mode \in {"Graceful", "Immediate"} : DnsDrain(mode)
    \/ DnsDrained
    \/ \E q \in Queries :
        \/ \E ask \in Asked : HandleRequest(q, ask)
        \/ Lookup(q) \/ UnknownSource(q) \/ Addresses(q)
        \/ \E code \in {"NoError", "NXDomain", "ServFail"} : Upstream(q, code)
        \/ \E ok \in BOOLEAN : Send(q, ok)

DnsSpec == DnsInit /\ [][DnsNext]_dnsVars

-----------------------------------------------------------------------------
(* Properties                                                              *)

Covers(host, name) ==
    \/ host = name
    \/ host[1] = "*" /\ HasDomain(name, Tail(host))

\* What a client of the namespace can mean by a name: the name, without a search
\* domain or as it is, relative to a domain of the cluster or not.
Meanings(ns, name) ==
    LET bases == {name} \cup {TrimDomain(name, d) : d \in {x \in Range(SearchDomains(ns)) : HasDomain(name, x)}}
    IN {base \o d : base \in bases, d \in {<<>>, ClusterDomain, SvcDomain, NamespacedDomain(ns)}}

\* An answer we are the authority for is about a service that the client can mean
\* by the name; its addresses are the service's VIPs in the client's network, or
\* addresses of its endpoints, of the family that was asked for, in states of the
\* store that the query has lived in.  A service that has exactly the name, with a
\* VIP, is never hidden by another of the same name in a namespace that is not the
\* client's, nor left to the resolver upstream (find_server, get_addresses).
AnswersAuthoritative ==
    \A q \in Queries : query[q].stage = "send" /\ query[q].client # Absent =>
        LET x == query[q]
            own(st) == {s \in Range(st.services) : s.host = x.ask.name /\ s.ns = x.client.ns /\ s.vips # {}}
        IN /\ x.reply.aa =>
                /\ \E n \in Meanings(x.client.ns, x.ask.name) : Covers(x.match.svc.host, n)
                /\ \A r \in {r \in x.reply.records : "ip" \in DOMAIN r} :
                     /\ (x.ask.type = "AAAA") = (r.ip \in IPv6)
                     /\ \/ [ip |-> r.ip, net |-> x.client.net] \in x.match.svc.vips
                        \/ /\ x.match.svc.vips = {}
                           /\ \E st \in x.seen : \E w \in st.workloads :
                                w.uid \in DOMAIN x.match.svc.eps /\ r.ip \in Range(w.ips)
           /\ x.ask.type \in {"A", "AAAA"} /\ (\A st \in x.seen : own(st) # {}) =>
                x.reply.aa /\ x.match.svc.ns = x.client.ns

\* The records of an answer can be followed from the name that was asked for: an
\* address stands under that name or under the name its CNAME leads to, and there
\* is at most one CNAME.  A lookup is counted once when it is known to be one,
\* also as forwarded if and only if the resolver is asked (lookup, forward).
AnswersUsable ==
    /\ \A q \in Queries : query[q].reply # Absent =>
         LET records == query[q].reply.records
             cnames == {r \in records : "cname" \in DOMAIN r}
         IN /\ Cardinality(cnames) <= 1
            /\ \A r \in records : IF r \in cnames THEN r.name = query[q].ask.name
                                  ELSE r.name \in {query[q].ask.name} \cup {c.cname : c \in cnames}
            /\ cnames # {} => \A r \in records \ cnames : r.name # query[q].ask.name
    /\ dnsCounts.requests <= Cardinality({q \in Queries : InFlight(q) \/ query[q].stage = "done"})
    /\ dnsCounts.forwarded = Cardinality({q \in Queries : query[q].upstream})
    /\ dnsCounts.failures <= dnsCounts.forwarded /\ dnsCounts.forwarded <= dnsCounts.requests

\* A name is answered with what the state held, in a form a resolver can follow: the
\* two parts above (find_server, get_addresses, lookup).
AnswersGrounded == AnswersAuthoritative /\ AnswersUsable
=============================================================================
