CONSTANTS
    Caller = {p1, p2}
    Account = {acct}
    Contact = {c1}
    Provider <- MetaProvider
    PerMinute = 2
    DailyCap = 1
    MaxRate = 3
    MaxCrashes = 1

SPECIFICATION FairSpec
INVARIANT DailyOvershootBounded
INVARIANT RateBoundedUpToStaleRefunds
INVARIANT NoImmortalBucket
INVARIANT PauseLeakBounded
PROPERTY BucketDrains
