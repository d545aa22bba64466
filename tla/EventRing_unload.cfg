CONSTANTS
    f = f
    g = g
    Registered = {g}
    FileCallbacks = {f}
    Cap = 2
    MaxEvents = 3
SPECIFICATION Spec
INVARIANT NoWriteAfterFree
