CONSTANTS
    Contact = {c1, c2}
    Starter = {s1}
    Slots = 2
    KeepCompleted = 1
    MaxAttempts = 2
    MaxStalls = 1
    MaxStarts = 2
    MaxCrashes = 1

SPECIFICATION Spec
SYMMETRY CampaignSymmetry
INVARIANT CopiesExplained
INVARIANT PauseLeakBounded
INVARIANT OptOutRespected
