SPECIFICATION Spec
CONSTANTS
    MaxDepth = 6
INVARIANTS
    FramesOK
    ScopesAreRoots
