---------------------------- MODULE PolicyState ----------------------------
(***************************************************************************)
(* Policy bodies, their bindings to workloads and sandboxes, and the       *)
(* decision over a connection: src/rbac.rs, src/sandbox/discovery.rs, the  *)
(* Sandbox, TrafficPolicy and Workload handlers of src/xds.rs and          *)
(* assert_rbac of src/state.rs, with the netfilter rules derived from the  *)
(* same policies (rbac::firewall_rulesets, src/firewall/convert.rs).       *)
(*                                                                         *)
(* Every handler runs under the write lock of the state, so a batch of     *)
(* updates is one step.  Addresses and ports are members of small sets, a  *)
(* CIDR list or port range is the set it contains.  ConnectionManager      *)
(* relies on what this module establishes: a step that changes a decision  *)
(* notifies the policy watchers.                                           *)
(***************************************************************************)
EXTENDS Lists, FiniteSets, SequencesExt, FiniteSetsExt

CONSTANTS
    Uids, SandboxIds, PolicyNames,
    NoUid, NoSandbox,
    NoBody,             \* Option<TrafficPolicy>::None
    NoRules,            \* Option<RuleSet>::None: direction not configured
    NoRefs,             \* traffic_policy_refs absent
    NoResource,         \* no such resource in the store
    Invalid,            \* a resource that does not pass validation
    Bodies,             \* valid policies: direction -> NoRules or rules
    RefLists,           \* values of traffic_policy_refs: NoRefs or names
    PolicyBatches,      \* sequences of TrafficPolicy updates in one response
    SandboxBatches,     \* sequences of Sandbox updates in one response
    LocalConfigs,       \* contents of a local configuration file
    MaxRules, MaxRefs,  \* rules of a policy in a direction, references of a workload
    Packets             \* [dir, proto, src, port]

Directions == {"Inbound", "Outbound"}
Sandboxes  == [wl : Uids \cup {NoUid}, policy : Bodies \cup {NoBody}]
SandboxUpdates == [name : SandboxIds, val : Sandboxes \cup {NoResource, Invalid}]
PolicyUpdates  == [name : PolicyNames, val : Bodies \cup {NoBody, Invalid}]

\* Values that stand for "none" are none of the others; a policy has rules for each
\* direction or is silent about it; what arrives is of its type.
ASSUME PolicyStateAssumption ==
    /\ NoUid \notin Uids /\ NoSandbox \notin SandboxIds
    /\ NoBody \notin Bodies /\ Invalid \notin Bodies \cup {NoBody, NoResource}
    /\ {NoResource, Invalid} \cap Sandboxes = {}
    /\ \A b \in Bodies : DOMAIN b = Directions /\ \A d \in Directions : b[d] # NoRules =>
          b[d] \in Seq(Range(b[d])) /\ \A r \in Range(b[d]) : \A g \in r.ports :
             g = [proto |-> g.proto, ports |-> g.ports] /\ g.proto # "NonTcp"
    /\ NoRefs # NoResource /\ RefLists \subseteq Seq(PolicyNames) \cup {NoRefs} /\ NoResource \notin Seq(PolicyNames)
    /\ PolicyBatches \subseteq Seq(PolicyUpdates)
    /\ SandboxBatches \subseteq Seq(SandboxUpdates)
    /\ \A c \in LocalConfigs :
          /\ c.workload \in [Uids -> RefLists \cup {NoResource}]
          /\ c.policy \in [PolicyNames -> Bodies \cup {NoBody, Invalid}]
          /\ c.sandboxes \in Seq(SandboxUpdates)

\* The rules of a policy for a direction.
RulesOf(body, d) == IF body[d] = NoRules THEN <<>> ELSE body[d]

LastPriority == 2147483647      \* i32::MAX

\* A priority is a position cast to i32; no response holds that many rules.
ASSUME PriorityAssumption ==
    /\ MaxRules \in Nat /\ MaxRefs \in Nat \ {0} /\ LastPriority \in Nat /\ MaxRefs * MaxRules <= LastPriority
    /\ \A b \in Bodies, d \in Directions : Len(RulesOf(b, d)) <= MaxRules
    /\ \A refs \in RefLists : refs # NoRefs => Len(refs) <= MaxRefs
    /\ \A p \in Packets : p.dir \in Directions

VARIABLES
    workload,   \* WorkloadStore.by_uid: the policy references of each workload
    sandbox,    \* SandboxStore.resources
    bound,      \* SandboxStore.by_workload, in binding arrival order
    policy,     \* TrafficPolicyStore.resources
    notices     \* flips when a step calls TrafficPolicyStore::send

rbacVars == <<workload, sandbox, bound, policy, notices>>

PolicyInit ==
    /\ workload = [u \in Uids |-> NoResource]
    /\ sandbox = [s \in SandboxIds |-> NoResource]
    /\ bound = [u \in Uids |-> <<>>]
    /\ policy = [n \in PolicyNames |-> NoBody]
    /\ notices = FALSE

Notify(changed) == notices' = IF changed THEN ~notices ELSE notices

-----------------------------------------------------------------------------
(* Deciding over a TCP connection                                          *)

\* Rule::matches_tcp: empty ports match every protocol.
MatchesTcp(r, p) ==
    /\ p.src \in r.src
    /\ r.ports = {} \/ \E g \in r.ports : g.proto \in {"ALL", "TCP"} /\ p.port \in g.ports

FirstMatch(rules, p) == {i \in DOMAIN rules : MatchesTcp(rules[i], p)}

\* One ordered stage: a missing policy denies; else the first policy with a
\* rule that matches decides by its first such rule; else a configured stage
\* denies and an unconfigured one allows.
AssertPolicies(list, p) ==
    LET configured == {i \in DOMAIN list : list[i] # NoBody /\ list[i][p.dir] # NoRules}
        matching == {i \in configured : FirstMatch(list[i][p.dir], p) # {}}
    IN /\ \A i \in DOMAIN list : list[i] # NoBody
       /\ IF matching = {} THEN configured = {}
          ELSE LET rules == list[Min(matching)][p.dir]
               IN rules[Min(FirstMatch(rules, p))].action = "Allow"

\* Workload::traffic_policies: an absent binding is one missing policy.
TrafficPolicies(u) ==
    IF workload[u] = NoRefs THEN <<NoBody>>
    ELSE [i \in DOMAIN workload[u] |-> policy[workload[u][i]]]

FirstBound(u) == IF bound[u] = <<>> THEN NoSandbox ELSE Head(bound[u])

\* The sandbox whose inline policy applies: the one the connection selected,
\* if it is still there and bound; none for an outbound connection that
\* selected none; else the first one bound.  A sandbox bound to another
\* workload denies.
Mismatch(ctx) ==
    /\ ctx.sandbox # NoSandbox
    /\ sandbox[ctx.sandbox] # NoResource
    /\ sandbox[ctx.sandbox].wl \notin {NoUid, ctx.uid}

Selected(ctx) ==
    IF ctx.sandbox # NoSandbox
    THEN IF sandbox[ctx.sandbox] # NoResource /\ sandbox[ctx.sandbox].wl = ctx.uid
         THEN ctx.sandbox ELSE NoSandbox
    ELSE IF ctx.packet.dir = "Outbound" THEN NoSandbox ELSE FirstBound(ctx.uid)

Inline(s) == IF s = NoSandbox THEN NoBody ELSE sandbox[s].policy

RbacAllows(ctx) ==
    /\ workload[ctx.uid] # NoResource
    /\ ~Mismatch(ctx)
    /\ LET inline == Inline(Selected(ctx))
       IN inline # NoBody => AssertPolicies(<<inline>>, ctx.packet)
    /\ AssertPolicies(TrafficPolicies(ctx.uid), ctx.packet)

-----------------------------------------------------------------------------
(* Deriving netfilter rules                                                *)

\* The priority of the first rule of a policy: the number of rules before it.
Offset(list, d, i) ==
    LET offset[k \in 0..(i - 1)] == IF k = 0 THEN 0 ELSE offset[k - 1] + Len(RulesOf(list[k], d))
    IN offset[i - 1]

\* The protocols a rule keeps in netfilter.  A rule for TCP ports only is left
\* out, a rule without ports matches all other traffic.
Groups(r) ==
    {[g EXCEPT !.proto = IF @ = "ALL" THEN "NonTcp" ELSE @] : g \in {g \in r.ports : g.proto # "TCP"}}

KeptAnyway(r) == TRUE

Kept(r) == r.ports = {} \/ Groups(r) # {}

NonTcpDeny(d) == [dir |-> d, prio |-> LastPriority, action |-> "Deny", any |-> TRUE, src |-> {}, groups |-> {}]

\* firewall_rulesets: per direction the rules of all policies in order, then
\* the default deny if anything is configured or missing.
FirewallRule(r, d, prio) ==
    [dir |-> d, prio |-> prio, action |-> r.action, any |-> FALSE, src |-> r.src, groups |-> Groups(r)]

Configured(list, d) == {i \in DOMAIN list : list[i][d] # NoRules}

KeptRules(rules, d, offset) ==
    {FirewallRule(rules[j], d, offset + j - 1) : j \in {j \in DOMAIN rules : Kept(rules[j])}}

DirectionRules(list, d) ==
    IF \E i \in DOMAIN list : list[i] = NoBody THEN {NonTcpDeny(d)}
    ELSE (UNION {KeptRules(list[i][d], d, Offset(list, d, i)) : i \in Configured(list, d)})
         \cup (IF Configured(list, d) = {} THEN {} ELSE {NonTcpDeny(d)})

FirewallRulesets(list) == UNION {DirectionRules(list, d) : d \in Directions}

\* What netfilter does with a packet that is not TCP and opens a flow: the
\* backends render the rules of its direction by priority, the inline ones in
\* a chain of their own whose ALLOW returns to the workload's.  (Established
\* flows, loopback and the proxy's own packets pass before any rule.)
FirewallMatches(f, p) ==
    /\ f.dir = p.dir
    /\ f.any \/ p.src \in f.src
    /\ f.groups = {} \/ \E g \in f.groups : g.proto \in {"NonTcp", p.proto} /\ p.port \in g.ports

FirewallPasses(rules, p) ==
    LET matching == {f \in rules : FirewallMatches(f, p)}
    IN \/ matching = {}
       \/ \A f \in matching : (\A g \in matching : f.prio <= g.prio) => f.action = "Allow"

\* resolve_workload_firewall: the gate of the first bound sandbox, then the
\* workload's rules.
FirewallAllows(u, p) ==
    LET inline == Inline(FirstBound(u))
    IN /\ inline # NoBody => FirewallPasses(FirewallRulesets(<<inline>>), p)
       /\ FirewallPasses(FirewallRulesets(TrafficPolicies(u)), p)

-----------------------------------------------------------------------------
(* Handlers                                                                *)

\* A Workload update replaces its references; watchers are told if they are
\* new or different.
InsertWorkload(u, refs) ==
    /\ workload' = [workload EXCEPT ![u] = refs]
    /\ Notify(workload[u] # refs)
    /\ UNCHANGED <<sandbox, bound, policy>>

RemoveWorkload(u) ==
    /\ workload' = [workload EXCEPT ![u] = NoResource]
    /\ Notify(workload[u] # NoResource)
    /\ UNCHANGED <<sandbox, bound, policy>>

Unbind(b, u, s) == IF u = NoUid THEN b ELSE [b EXCEPT ![u] = Without(b[u], {s})]
Bind(b, u, s)   == IF u = NoUid THEN b ELSE [b EXCEPT ![u] = Append(b[u], s)]

BoundTo(st, s) == IF st.sandbox[s] = NoResource THEN NoUid ELSE st.sandbox[s].wl

\* A new binding that leaves the old one behind.
SandboxInsertKeepsOld(st, s, v) ==
    [sandbox |-> [st.sandbox EXCEPT ![s] = v],
     bound   |-> IF BoundTo(st, s) = v.wl THEN st.bound ELSE Bind(st.bound, v.wl, s),
     changed |-> st.changed \/ st.sandbox[s] # v]

\* SandboxStore::insert: the place in the line is kept while the binding is.
SandboxInsert(st, s, v) ==
    [sandbox |-> [st.sandbox EXCEPT ![s] = v],
     bound   |-> IF BoundTo(st, s) = v.wl THEN st.bound
                 ELSE Bind(Unbind(st.bound, BoundTo(st, s), s), v.wl, s),
     changed |-> st.changed \/ st.sandbox[s] # v]

SandboxRemove(st, s) ==
    [sandbox |-> [st.sandbox EXCEPT ![s] = NoResource],
     bound   |-> Unbind(st.bound, BoundTo(st, s), s),
     changed |-> st.changed \/ st.sandbox[s] # NoResource]

\* Only the last update of a batch counts.
SandboxUpdateLast(st, x) ==
    LET fresh == [st EXCEPT !.changed = FALSE]
    IN IF x.val = Invalid THEN fresh
       ELSE IF x.val = NoResource THEN SandboxRemove(fresh, x.name)
       ELSE SandboxInsert(fresh, x.name, x.val)

\* One update of a batch: rejected and skipped, a removal, or an insertion.
SandboxUpdate(st, x) ==
    IF x.val = Invalid THEN st
    ELSE IF x.val = NoResource THEN SandboxRemove(st, x.name)
    ELSE SandboxInsert(st, x.name, x.val)

\* The updates of a batch one after the other.
SandboxFold(start, batch) ==
    LET after[i \in 0..Len(batch)] == IF i = 0 THEN start ELSE SandboxUpdate(after[i - 1], batch[i])
    IN after[Len(batch)]

HandleSandboxes(batch) ==
    LET start == [sandbox |-> sandbox, bound |-> bound, changed |-> FALSE]
        end   == SandboxFold(start, batch)
    IN /\ sandbox' = end.sandbox
       /\ bound' = end.bound
       /\ Notify(end.changed)
       /\ UNCHANGED <<workload, policy>>

\* TrafficPolicyStore::update and remove: an invalid body leaves the last
\* accepted one.
PolicyUpdate(st, x) ==
    IF x.val = Invalid THEN st
    ELSE [policy  |-> [st.policy EXCEPT ![x.name] = x.val],
          changed |-> st.changed \/ st.policy[x.name] # x.val]

PolicyFold(start, batch) ==
    LET after[i \in 0..Len(batch)] == IF i = 0 THEN start ELSE PolicyUpdate(after[i - 1], batch[i])
    IN after[Len(batch)]

HandlePolicies(batch) ==
    LET end == PolicyFold([policy |-> policy, changed |-> FALSE], batch)
    IN /\ policy' = end.policy
       /\ Notify(end.changed)
       /\ UNCHANGED <<workload, sandbox, bound>>

\* LocalClient::load_config: a new state is built and swapped in.  One
\* invalid policy or sandbox, or a sandbox listed twice, rejects the whole
\* file.  LocalClient starts beside the xDS client, so it may come at any time.
Accepted(cfg) ==
    /\ \A n \in PolicyNames : cfg.policy[n] # Invalid
    /\ \A i \in DOMAIN cfg.sandboxes :
          /\ cfg.sandboxes[i].val # Invalid
          /\ \A j \in 1..(i - 1) : cfg.sandboxes[j].name # cfg.sandboxes[i].name

LoadConfig(cfg) ==
    LET start == [sandbox |-> [s \in SandboxIds |-> NoResource], bound |-> [u \in Uids |-> <<>>], changed |-> FALSE]
        built == SandboxFold(start, cfg.sandboxes)
    IN /\ Accepted(cfg)
       /\ workload' = cfg.workload
       /\ policy' = cfg.policy
       /\ sandbox' = built.sandbox
       /\ bound' = built.bound
       /\ Notify(TRUE)

PolicyNext ==
    \/ \E u \in Uids, refs \in RefLists : InsertWorkload(u, refs)
    \/ \E u \in Uids : RemoveWorkload(u)
    \/ \E b \in SandboxBatches : HandleSandboxes(b)
    \/ \E b \in PolicyBatches : HandlePolicies(b)
    \/ \E c \in LocalConfigs : LoadConfig(c)

PolicySpec == PolicyInit /\ [][PolicyNext]_rbacVars

-----------------------------------------------------------------------------
(* Properties                                                              *)

PolicyTypeOK ==
    /\ workload \in [Uids -> RefLists \cup {NoResource}]
    /\ sandbox \in [SandboxIds -> Sandboxes \cup {NoResource}]
    /\ bound \in [Uids -> Seq(SandboxIds)]
    /\ policy \in [PolicyNames -> Bodies \cup {NoBody}]
    /\ notices \in BOOLEAN

\* The index by workload lists exactly the sandboxes bound to it, each once,
\* through rebinding, removal and replacement (SandboxStore).
BindingIndex ==
    \A u \in Uids :
        /\ Range(bound[u]) = {s \in SandboxIds : sandbox[s] # NoResource /\ sandbox[s].wl = u}
        /\ Len(bound[u]) = Cardinality(Range(bound[u]))

Contexts == [uid : Uids, sandbox : SandboxIds \cup {NoSandbox}, packet : {p \in Packets : p.proto = "TCP"}]

\* Every step that changes the decision over any connection, or the netfilter
\* rules of any workload, notifies the watchers: "Notify after accepted
\* changes to policy bodies or Workload/Sandbox policy bindings"
\* (TrafficPolicyStore::send), through whatever handler and in whatever
\* batch, rejected members included.
NotifyOnChange ==
    [][rbacVars' # rbacVars /\ notices' = notices =>
          /\ \A k \in Contexts : RbacAllows(k)' = RbacAllows(k)
          /\ \A u \in Uids, p \in Packets :
                workload[u] # NoResource => FirewallAllows(u, p)' = FirewallAllows(u, p)]_rbacVars

\* The reference both evaluators are compared with: first match over the
\* concatenation of all bodies, fail closed.
RuleMatches(r, p) ==
    /\ p.src \in r.src
    /\ r.ports = {} \/ \E g \in r.ports : g.proto \in {"ALL", p.proto} /\ p.port \in g.ports

Chain(list, d) == FlattenSeq([i \in DOMAIN list |-> RulesOf(list[i], d)])

Decides(list, p) ==
    /\ \A i \in DOMAIN list : list[i] # NoBody
    /\ LET chain == Chain(list, p.dir)
           hits == {i \in DOMAIN chain : RuleMatches(chain[i], p)}
       IN IF hits # {} THEN chain[Min(hits)].action = "Allow"
          ELSE \A i \in DOMAIN list : list[i][p.dir] = NoRules

\* Both evaluators decide as the first matching rule of all the workload's policies
\* in their order does, and deny on a missing policy: the one for TCP
\* (assert_policies), and the netfilter rules derived from the same policies for all
\* other traffic (firewall_rulesets), whose priorities keep the order across policies
\* and which leaves the TCP rules out without opening anything.
EvaluatorsAgree ==
    \A u \in Uids, p \in Packets :
        workload[u] # NoResource =>
            IF p.proto = "TCP"
              THEN AssertPolicies(TrafficPolicies(u), p) = Decides(TrafficPolicies(u), p)
              ELSE FirewallAllows(u, p) =
                     /\ Inline(FirstBound(u)) # NoBody => Decides(<<Inline(FirstBound(u))>>, p)
                     /\ Decides(TrafficPolicies(u), p)

\* What a workload may do is decided by its own policies: the sandboxes it is
\* evaluated with are those bound to it (BindingIndex, SandboxStore), and both
\* evaluators decide as the first match over its policies does (EvaluatorsAgree).
PoliciesDecide == BindingIndex /\ EvaluatorsAgree
=============================================================================
