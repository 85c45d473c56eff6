SPECIFICATION Spec
CONSTANTS
    Watched = {policy}
    Optional = {}
    OnDemand = {address}
    n1 = n1
    a1 = a1
    Names <- MCNames
    Aliases <- MCAliases
    AliasOf <- MCAliasOf
    Values = {v1}
    Bad = Bad
    Absent = Absent
    Tasks = {w1, w2}
    MaxDemand = 1
    MaxRequests = 2
    MaxBackoff = 1
    MaxChanges = 0
    MaxBreaks = 0
PROPERTIES DemandAnswered
CHECK_DEADLOCK FALSE
