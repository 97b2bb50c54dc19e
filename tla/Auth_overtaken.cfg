CONSTANTS
    Callers = {c1}
    Persisters = {p1}
    Tenants = {a}
    None = None
    Version <- MCAllV1
    WithTotp = {a}
    MayFail = FALSE
    ClientsMayAbort = FALSE
    MaxVersions = 1
    MaxRestarts = 0
SPECIFICATION Spec
INVARIANT LogoutDeletesFile
