CONSTANTS
    Message = {m1}
    Blank = {}
    Slot = slot
    Number = number
    Recipient = c1
    Provider <- MetaProvider
    PerMinute = 1
    DailyCap = 1
    MaxRate = 2
    MaxCrashes = 0
    Plan = {"FREE"}
    Quota <- TwoMessages
    Unlimited = {}
    LastPeriod = 1
    MaxUsage = 6
    MaxAttempts = 5
    MaxStalls = 1

SPECIFICATION Spec
INVARIANT PausedStaysQueued
