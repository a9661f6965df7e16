CONSTANTS
    m1 = m1
    m2 = m2
    loop = loop
    word = word
    Message = {m1, m2}
    Voice = {m1}
    Keyword = {m2}
    Matching = {m1}
    NoMessage = NoMessage
    Window = 2
    Flow = {loop, word}
    NoFlow = NoFlow
    Node = {"t", "c", "o", "s", "gone"}
    NoNode = NoNode
    Doc <- Docs
    MaxNodes = 3
    MaxAttempts = 2
    MaxStalls = 1
    MaxCrashes = 1

SPECIFICATION FairSpec
INVARIANT RepliesExplained
INVARIANT AiSwitchRespected
INVARIANT HandOffAnnounced
PROPERTY EveryMessageSettles
