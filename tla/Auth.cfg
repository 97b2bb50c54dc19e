CONSTANTS
    Callers = {c1, c2}
    Persisters = {p1}
    Tenants = {a}
    None = None
    Version <- MCAllV1
    WithTotp = {}
    MayFail = TRUE
    ClientsMayAbort = TRUE
    MaxVersions = 2
    MaxRestarts = 1
SYMMETRY MCSymmetry
SPECIFICATION Spec
INVARIANTS
    LogoutForgets
    DiskIsCurrent
