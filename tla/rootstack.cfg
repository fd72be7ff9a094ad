SPECIFICATION Spec
CONSTANTS
    Values = {v1, v2}
    Null = Null
    MaxSize = 3
    MaxDepth = 3
SYMMETRY ValueSymmetry
INVARIANTS
    StackOK
    ReferencesLive
    BarrierKept
PROPERTIES
    ScopedSpec
