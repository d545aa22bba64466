SPECIFICATION FairKernelSpec
CONSTANTS
    Needle = {tool, memo, game}
    Slots = 2
INVARIANTS LearnedIsPending
PROPERTY LearnedIsWritten
