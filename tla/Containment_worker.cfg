CONSTANTS
    p1 = p1
    p2 = p2
    evil = evil
    sys = sys
    Pids = {p1, p2}
    Images = {evil, sys}
    Critical = {sys}
    MaxEntries = 1
    MaxPrompts = 1
    MaxMail = 1
    MaxLost = 1
    Gone = Gone
SPECIFICATION FairSpec
INVARIANTS SuspendedIsRecorded
PROPERTIES ClearedRuns HeldUntilDecided PromptsEnd
