SPECIFICATION Spec
CONSTANTS
    tool = tool
    memo = memo
    game = game
    docs = docs
    nTool = nTool
    nMemo = nMemo
    nGame = nGame
    Image = {tool, memo, game}
    Needle = {nTool, nMemo, nGame}
    NeedleOf <- MCNeedleOf
    Inside <- MCInside
    FileTrust = {tool}
    DirTrust = {docs}
    Watched = {tool}
    DenyExecute = TRUE
    Slots = 2
    MaxEntries = 2
    MaxHeld = 1
    MaxFaults = 1
PROPERTIES TrustTakesEffect OthersStayDenied
