CONSTANTS
    Writers = {w1}
    Data <- MCData
    Size <- MCSize
    None = None
    Garbage = Garbage
SPECIFICATION Spec
INVARIANTS
    Loadable
PROPERTY ImplementsAtomicFile
