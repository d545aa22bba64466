SPECIFICATION BannedSpec
CONSTANTS
    None = None
    Pid = {p, q, t}
    Capacity = 2
    Bit = {0}
    BitOf <- MCBitOf
SYMMETRY Alike
INVARIANTS
    LookIsExact
    ExitLiftsBan
