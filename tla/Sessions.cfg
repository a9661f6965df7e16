CONSTANTS
    Token = {t1, t2, t3}
    NoToken = NoToken
    Device = {laptop, phone}
    NoDevice = NoDevice
    Request = {r1, r2}

SPECIFICATION Spec
SYMMETRY SessionSymmetry
INVARIANT NoResurrection
INVARIANT SequentialRefreshKeepsSession
