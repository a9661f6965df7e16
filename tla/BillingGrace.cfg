CONSTANTS
    Call = {c1}
    First = "STARTER"
    Statuses = {"active", "pending", "halted", "cancelled"}
    MaxSubs = 1
    MaxRows = 1

SPECIFICATION SubSpec
PROPERTY LapsedGraceSuspends
CHECK_DEADLOCK FALSE
