CONSTANTS
    m0 = m0
    m1 = m1
    m2 = m2
    alice = alice
    Request = {r1, r2}
    Campaigner = {k1}
    Msg = {m0, m1, m2}
    Anonymous = {m2}
    Ignored = {m0}
    Phone = {alice}
    NoPhone = NoPhone
    Imported = {alice}
    From <- Senders
    Batch <- Batches
    MaxDeliveries = 2
    MaxConvs = 4
    MaxReopens = 1

SPECIFICATION FairSpec
INVARIANT NothingForgotten
INVARIANT OpenConversationsBounded
PROPERTY ImplementsInbox
PROPERTY EveryMessageTried
