CONSTANTS
    f = f
    g = g
    Registered = {g}
    FileCallbacks = {f}
    Cap = 4
    MaxEvents = 4
SPECIFICATION FairSpec
INVARIANTS WakeupIsComing SendsOnOpenPort
PROPERTIES QueueSpec OldestLeaves UnloadEnds
