SPECIFICATION FairSpec
CONSTANTS
    f1 = f1
    n1 = n1
    n2 = n2
    EventSourceIsDriver = FALSE
    FirstFollows = {TRUE, FALSE}
    ProcessEnds = TRUE
    MaxClients = 1
    MaxPosts = 2
    MaxHits = 1
    Needle = {n1, n2}
    File = {f1}
    Targets <- MCTargets
    Refused = {}
    MaxEntries = 2
    SaveFaults = {"removed"}
INVARIANTS
    Settled
    SwitchedTogether
    KernelIntentKept
    ListInForce
PROPERTIES
    WakesUp
    StandsBy
