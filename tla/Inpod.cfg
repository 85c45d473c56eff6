SPECIFICATION InpodSpec
CONSTANTS
    u1 = u1
    u2 = u2
    n1 = n1
    n2 = n2
    None = None
    Uids <- MCUids
    Netns <- MCNetns
    MaxChurn = 3
    MaxBreaks = 1
    MaxFailures = 2
    MaxProxies = 3
    p1 = p1
    p2 = p2
    r1 = r1
    r2 = r2
    NoRules = NoRules
    NoWorkload = NoWorkload
    Zero = Zero
    NoPod = NoPod
    NoJob = NoJob
    Pods = {p1, p2}
    Gens = {1, 2}
    RuleSets = {r1, r2}
    Hosts <- MCHosts
    MaxInitRetries = 2
    MaxChanges = 3
    MaxFaults = 2
CHECK_DEADLOCK FALSE
INVARIANTS AddsTakeEffect NothingForgottenRuns ProxiesAccounted RulesCurrent
PROPERTIES DrainContract Converges Settles
