CONSTANTS
    Kind = {"AGENCY", "CLIENT", "TEAM_MEMBER"}
    Request = {r1, r2}
    MaxAttempts = 1
    MaxRows = 3
    MaxLinks = 1

SPECIFICATION Spec
SYMMETRY AccountsSymmetry
INVARIANT GuessesBounded
INVARIANT PendingCodesBounded
INVARIANT ReplacedPasswordFades
