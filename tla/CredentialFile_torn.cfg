CONSTANTS
    Writers = {w1, w2}
    Data <- MCData
    Size <- MCSize
    None = None
    Garbage = Garbage
SPECIFICATION Spec
INVARIANT Loadable
