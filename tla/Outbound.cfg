CONSTANTS
    Message = {m1, m2}
    Blank = {m2}
    Slot = slot
    Number = number
    Recipient = c1
    Provider <- MetaProvider
    PerMinute = 1
    DailyCap = 0
    MaxRate = 2
    MaxCrashes = 1
    Plan = {"FREE"}
    Quota <- OneMessages
    Unlimited = {}
    LastPeriod = 2
    MaxUsage = 3
    MaxAttempts = 2
    MaxStalls = 1

SPECIFICATION FairSpec
INVARIANT CopiesExplained
INVARIANT TakenWithinCounted
PROPERTY EveryJobSettles
