CONSTANTS
    Kind = {"AGENCY", "CLIENT"}
    Request = {r1}
    MaxAttempts = 2
    MaxRows = 3
    MaxLinks = 1

SPECIFICATION Spec
PROPERTY ResetEndsSessions
