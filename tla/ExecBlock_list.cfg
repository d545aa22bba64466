SPECIFICATION FairSpec
CONSTANTS
    n1 = n1
    n2 = n2
    n3 = n3
    c = c
    d = d
    r = r
    Needle = {n1, n2, n3}
    File = {c, d, r}
    Targets <- MCTargets
    Refused = {r}
    MaxEntries = 2
    SaveFaults = {"kept", "removed"}
INVARIANTS
    OneListedOwner
PROPERTIES
    
    PendingGetsArmed
