SPECIFICATION Spec
CONSTANTS
    Watched = {policy}
    Optional = {}
    OnDemand = {address}
    n1 = n1
    a1 = a1
    Names <- MCNames
    Aliases <- MCAliases
    AliasOf <- MCAliasOf
    Values = {v1}
    Bad = Bad
    Absent = Absent
    Tasks = {w1, w2}
    MaxDemand = 1
    MaxRequests = 1
    MaxBackoff = 0
    MaxChanges = 1
    MaxBreaks = 1
INVARIANTS Remembered
PROPERTIES Converges
CHECK_DEADLOCK FALSE
