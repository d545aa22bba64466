CONSTANTS
    Paths = {p1}
    Ids = {i1, i2}
    Bytes = {b1, b2}
    Garbled = Garbled
    NoFile = NoFile
SYMMETRY Alike
SPECIFICATION VaultSpec
INVARIANTS ListedIsRestorable DeletedIsVaulted
PROPERTY NeverOverwritten
