CONSTANTS
    safe = safe
    temp = temp
    Hashes = {safe, temp}
    Risky = {temp}
    Capacity = 1
    MaxEntries = 1
    MaxEvents = 2
SPECIFICATION FairSpec
INVARIANTS HeardIsOwn ConclusionsReachOne InflightIsQueued
PROPERTIES WorkIsDone StopEnds
