SPECIFICATION FairSpec
CONSTANTS
    Drivers = {"good", "stale", "old"}
    Dim = {pids, commands}
    Probed = {commands}
    Newer = {commands}
    ReaderMayHang = TRUE
    MaxUnloads = 3
    QueueMax = 3
    MaxPerDrain = 1
INVARIANTS ReaderHasPort ConfiguredWhileLive DisabledIsDetached
PROPERTIES OutageReported FirstAttachHeals
