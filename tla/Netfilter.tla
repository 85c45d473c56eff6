------------------------------ MODULE Netfilter ------------------------------
\* The two netfilter backends (firewall/backend/nft.rs, ipt.rs): what the rule
\* set of a workload becomes as nftables or iptables lines, and what those
\* lines do with a packet.  A CIDR is the set of hosts it covers with its
\* family, a port range its bounds, a rendered line the record of its matches;
\* the text of the scripts is left out.
EXTENDS Integers, Sequences, FiniteSets, TLC, SequencesExt, FiniteSetsExt

CONSTANTS
    NamedSetThreshold,   \* more CIDRs than this become a named set (128)
    MultiportMax,        \* entries of one multiport match (15)
    AnyValue,            \* a field a line does not restrict
    SampleRuleSets,      \* the rule sets and packets Faithful compares
    Packets

-----------------------------------------------------------------------------
(* What both backends share.  All the lines of a rule have its verdict, so  *)
(* they are a set, and a chain is a sequence of rules with their lines.     *)

\* sort_by_key is stable: equal priorities keep their order.
ByPriority(rules) ==
    LET tagged == [i \in DOMAIN rules |-> [at |-> i, rule |-> rules[i]]]
    IN SortSeq(tagged, LAMBDA a, b : \/ a.rule.priority < b.rule.priority
                                     \/ a.rule.priority = b.rule.priority /\ a.at < b.at)

\* The chains of the rules and, in front of them, of the inline rules.
Ordered(ruleset) ==
    [c \in {"main", "gate"} |-> ByPriority(IF c = "main" THEN ruleset.rules ELSE ruleset.inline_rules)]

\* An inline rule that allows goes on to the rules.
Verdict(rule, chain) ==
    IF rule.action = "Deny" THEN "reject" ELSE IF chain = "gate" THEN "return" ELSE "accept"

\* A match without ports leaves the protocol of the clauses before it alone.
NoPortRestriction(m) ==
    \/ m.port_groups = <<>>
    \/ Len(m.port_groups) = 1 /\ m.port_groups[1].protocol = "NonTcp" /\ m.port_groups[1].ports = <<>>

\* Clauses are ANDed: every combination so far with every match of the next.
Flatten(start, clauses, Combine(_, _)) ==
    FoldLeft(LAMBDA found, clause : UNION {Combine(f, m) : f \in found, m \in Range(clause)}, {start}, clauses)

PortsOf(ranges) == UNION {r[1]..r[2] : r \in Range(ranges)}

-----------------------------------------------------------------------------
(* nftables                                                                *)

GroupByFamily(cidrs) ==
    {g \in {[v4 |-> b, cidrs |-> SelectSeq(cidrs, LAMBDA c : c.v4 = b)] : b \in BOOLEAN} : g.cidrs # <<>>}

Groups(cidrs) == IF cidrs = <<>> THEN {[v4 |-> TRUE, cidrs |-> <<>>]} ELSE GroupByFamily(cidrs)

NftFlatten(clauses) ==
    Flatten([source_ips |-> <<>>, dest_ips |-> <<>>,
             port_groups |-> <<[protocol |-> "NonTcp", ports |-> <<>>]>>],
            clauses,
            LAMBDA f, m :
                {[source_ips  |-> IF m.source_ips = <<>> THEN f.source_ips ELSE m.source_ips,
                  dest_ips    |-> IF m.dest_ips = <<>> THEN f.dest_ips ELSE m.dest_ips,
                  port_groups |-> IF NoPortRestriction(m) THEN f.port_groups ELSE m.port_groups]})

\* The counter is not moved on: sets share a name, and nft adds their elements up.
RenderIpMatchUncounted(g, at) ==
    IF g.cidrs = <<>> THEN AnyValue
    ELSE [hosts |-> UNION {c.hosts : c \in Range(g.cidrs)},
          set   |-> IF Len(g.cidrs) > NamedSetThreshold THEN <<0, g.v4>> ELSE <<>>]

\* No expression for no CIDRs, a named set for many.  The counter in the name,
\* moved on with every set, stands for the place the set is rendered at.
RenderIpMatch(g, at) ==
    IF g.cidrs = <<>> THEN AnyValue
    ELSE [hosts |-> UNION {c.hosts : c \in Range(g.cidrs)},
          set   |-> IF Len(g.cidrs) > NamedSetThreshold THEN <<at, g.v4>> ELSE <<>>]

\* Protocols are those of the packets the expression matches: ICMP is one
\* protocol per family.
RenderPortGroup(g, family) ==
    [protos |-> CASE g.protocol = "NonTcp" -> IF g.ports = <<>> THEN {"udp", "sctp", "icmp", "icmpv6"} ELSE {"udp", "sctp"}
                  [] g.protocol = "Udp"    -> {"udp"}
                  [] g.protocol = "Sctp"   -> {"sctp"}
                  [] OTHER -> IF family = AnyValue THEN {"icmp", "icmpv6"} ELSE IF family THEN {"icmp"} ELSE {"icmpv6"},
     ports  |-> IF g.ports = <<>> \/ g.protocol = "Icmp" THEN AnyValue ELSE PortsOf(g.ports)]

\* render_rule_with_action: one line per pair of families and port group; a
\* pair of two families is dropped.
NftRule(rule, at) ==
    UNION {LET pairs == {<<s, d>> \in Groups(f.source_ips) \X Groups(f.dest_ips) :
                            s.cidrs = <<>> \/ d.cidrs = <<>> \/ s.v4 = d.v4}
           IN {[src  |-> RenderIpMatch(pair[1], <<at, f, pair, "src">>),
                dst  |-> RenderIpMatch(pair[2], <<at, f, pair, "dst">>),
                port |-> RenderPortGroup(g, IF pair[1].cidrs # <<>> THEN pair[1].v4
                                            ELSE IF pair[2].cidrs # <<>> THEN pair[2].v4 ELSE AnyValue)] :
                  pair \in pairs, g \in Range(f.port_groups)} :
           f \in NftFlatten(rule.clauses)}

NftLines(ruleset) ==
    [c \in {"main", "gate"} |->
        LET queue == Ordered(ruleset)[c]
        IN [i \in DOMAIN queue |-> [direction |-> queue[i].rule.direction, verdict |-> Verdict(queue[i].rule, c),
                                    lines |-> NftRule(queue[i].rule, <<c, i>>)]]]

-----------------------------------------------------------------------------
(* iptables                                                                *)

\* Multiport matches of at most MultiportMax entries, a range counting as two.
RenderPortSuffixes(ranges) ==
    LET weight(r) == IF r[1] = r[2] THEN 1 ELSE 2
        add(acc, r) ==
            IF acc.chunk # {} /\ acc.weight + weight(r) > MultiportMax
            THEN [done |-> acc.done \cup {acc.chunk}, chunk |-> r[1]..r[2], weight |-> weight(r)]
            ELSE [acc EXCEPT !.chunk = @ \cup r[1]..r[2], !.weight = @ + weight(r)]
        end == FoldLeft(add, [done |-> {}, chunk |-> {}, weight |-> 0], ranges)
    IN IF ranges = <<>> THEN {AnyValue} ELSE end.done \cup {end.chunk}

ExpandPortGroups(groups) ==
    UNION {CASE g.protocol = "NonTcp" /\ g.ports = <<>> -> {[protos |-> {"udp", "sctp", "icmp"}, ports |-> AnyValue]}
             [] g.protocol = "Icmp" -> {[protos |-> {"icmp"}, ports |-> AnyValue]}
             [] OTHER -> {[protos |-> {proto}, ports |-> ports] :
                             proto \in CASE g.protocol = "Udp" -> {"udp"} [] g.protocol = "Sctp" -> {"sctp"} [] OTHER -> {"udp", "sctp"},
                             ports \in RenderPortSuffixes(g.ports)} :
           g \in Range(groups)}

\* One value per field: sources, destinations and ports are multiplied out.
IptFlatten(clauses) ==
    Flatten([src |-> AnyValue, dst |-> AnyValue, port |-> [protos |-> {"udp", "sctp", "icmp"}, ports |-> AnyValue]],
            clauses,
            LAMBDA f, m :
                [src  : IF m.source_ips = <<>> THEN {f.src} ELSE Range(m.source_ips),
                 dst  : IF m.dest_ips = <<>> THEN {f.dst} ELSE Range(m.dest_ips),
                 port : IF NoPortRestriction(m) THEN {f.port} ELSE ExpandPortGroups(m.port_groups)])

\* render_rule_in_chain: a match on an IPv6 address is skipped.
IptRule(rule) ==
    LET renderable(c) == c = AnyValue \/ c.v4
        field(c) == IF c = AnyValue THEN AnyValue ELSE [hosts |-> c.hosts, set |-> <<>>]
    IN {[src |-> field(f.src), dst |-> field(f.dst), port |-> f.port] :
            f \in {g \in IptFlatten(rule.clauses) : renderable(g.src) /\ renderable(g.dst)}}

IptLines(ruleset) ==
    [c \in {"main", "gate"} |->
        LET queue == Ordered(ruleset)[c]
        IN [i \in DOMAIN queue |-> [direction |-> queue[i].rule.direction, verdict |-> Verdict(queue[i].rule, c),
                                    lines |-> IptRule(queue[i].rule)]]]

-----------------------------------------------------------------------------
(* What the kernel does with a packet, given the lines                      *)

\* A bypass of DNS that does not look at the protocol.
ExemptAnyDns(backend, p) ==
    \/ p.established \/ p.loopback
    \/ p.direction = "Outbound" /\ p.proxy
    \/ backend.kind = "ipt" /\ backend.inpod /\ backend.dns_proxy /\ p.direction = "Outbound" /\ p.port = 53

\* Established flows and loopback pass first, then the proxy's own packets.  The
\* port of a packet is the one it was sent to (--ctorigdstport).  In a pod with
\* the DNS proxy, nat/OUTPUT redirects every query to that proxy before iptables
\* filters, so iptables lets all of UDP:53 pass; nftables filters before it.
Exempt(backend, p) ==
    \/ p.established \/ p.loopback
    \/ p.direction = "Outbound" /\ p.proxy
    \/ /\ backend.kind = "ipt" /\ backend.inpod /\ backend.dns_proxy
       /\ p.direction = "Outbound" /\ p.proto = "udp" /\ p.port = 53

\* The named sets of a script; those of one name add up.
SetsOf(chains) ==
    LET lines == UNION {r.lines : r \in Range(chains["main"]) \cup Range(chains["gate"])}
    IN {f \in UNION {{l.src, l.dst} : l \in lines} : f # AnyValue /\ f.set # <<>>}

FieldMatches(field, h, sets) ==
    \/ field = AnyValue
    \/ IF field.set = <<>> THEN h \in field.hosts ELSE \E s \in sets : s.set = field.set /\ h \in s.hosts

LineMatches(line, p, sets) ==
    /\ p.proto \in line.port.protos
    /\ FieldMatches(line.src, p.src, sets)
    /\ FieldMatches(line.dst, p.dst, sets)
    /\ line.port.ports = AnyValue \/ p.port \in line.port.ports

FirstVerdict(chain, p, sets) ==
    LET hits == {i \in DOMAIN chain : /\ chain[i].direction = p.direction
                                      /\ \E line \in chain[i].lines : LineMatches(line, p, sets)}
    IN IF hits = {} THEN "none" ELSE chain[Min(hits)].verdict

Rendered(backend, ruleset) == IF backend.kind = "nft" THEN NftLines(ruleset) ELSE IptLines(ruleset)

\* The chain of a direction: exemptions, the gate, the rules, the trailing
\* reject.  iptables does not see IPv6 packets.
LetThrough(backend, ruleset, chains, sets, p) ==
    LET verdict == [c \in {"main", "gate"} |-> FirstVerdict(chains[c], p, sets)]
    IN \/ Exempt(backend, p)
       \/ backend.kind = "ipt" /\ ~p.v4
       \/ p.proto = "tcp"
       \/ /\ verdict["gate"] # "reject"
          /\ verdict["main"] = "accept" \/ (verdict["main"] = "none" /\ ~ruleset.policy_attached)

-----------------------------------------------------------------------------
(* The meaning of a rule set (firewall/types.rs), independent of backends   *)

InCidrs(cidrs, h) == cidrs = <<>> \/ \E c \in Range(cidrs) : h \in c.hosts

InGroups(groups, p) ==
    groups = <<>> \/ \E g \in Range(groups) :
        CASE g.protocol = "NonTcp" -> g.ports = <<>> \/ (p.proto \in {"udp", "sctp"} /\ p.port \in PortsOf(g.ports))
          [] g.protocol = "Icmp"   -> p.proto \in {"icmp", "icmpv6"}
          [] OTHER -> /\ p.proto = IF g.protocol = "Udp" THEN "udp" ELSE "sctp"
                      /\ g.ports = <<>> \/ p.port \in PortsOf(g.ports)

\* "rule fires when ALL clauses have at least one match that passes".
Fires(rule, p) ==
    /\ rule.direction = p.direction
    /\ \A i \in DOMAIN rule.clauses : \E m \in Range(rule.clauses[i]) :
          InCidrs(m.source_ips, p.src) /\ InCidrs(m.dest_ips, p.dst) /\ InGroups(m.port_groups, p)

\* The action of the first rule that fires: lowest priority, then position.
FirstAction(rules, p) ==
    LET hits == {i \in DOMAIN rules : Fires(rules[i], p)}
        first == {i \in hits : \A j \in hits : \/ rules[i].priority < rules[j].priority
                                               \/ rules[i].priority = rules[j].priority /\ i <= j}
    IN IF hits = {} THEN "none" ELSE rules[CHOOSE i \in first : TRUE].action

Permits(ruleset, p) ==
    \/ p.proto = "tcp"
    \/ /\ FirstAction(ruleset.inline_rules, p) # "Deny"
       /\ LET main == FirstAction(ruleset.rules, p) IN main # "Deny" /\ (main = "none" => ~ruleset.policy_attached)

\* What no policy is about: a flow let in before, the pod's own loopback, and
\* what the proxy itself sends.
NotPoliced(p) == p.established \/ p.loopback \/ (p.proxy /\ p.direction = "Outbound")

\* A DNS query of an application.
AppQuery(p) == p.direction = "Outbound" /\ p.proto = "udp" /\ p.port = 53 /\ ~p.proxy

\* Whether a backend decides every packet it sees as the first rule that
\* fires does, over the sample rule sets, in and outside of a pod and with and
\* without the DNS proxy.  It differs in one place: where the DNS proxy takes the
\* queries of a pod, iptables polices none of them.
Faithful ==
    [k \in {"nft", "ipt"} |->
        \A rs \in SampleRuleSets, inpod \in BOOLEAN, dns \in BOOLEAN :
            \E backend \in {[kind |-> k, inpod |-> inpod, dns_proxy |-> dns]} :
            \E chains \in {Rendered(backend, rs)} : \E sets \in {SetsOf(chains)} :
             \A p \in Packets : k = "nft" \/ p.v4 =>
                IF k = "ipt" /\ inpod /\ dns /\ AppQuery(p)
                THEN LetThrough(backend, rs, chains, sets, p)
                ELSE LetThrough(backend, rs, chains, sets, p) <=> NotPoliced(p) \/ Permits(rs, p)]
=============================================================================
