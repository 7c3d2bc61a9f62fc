SPECIFICATION Spec
CONSTANTS
    Key <- MCKey
    v1 = v1
    v2 = v2
    Value <- MCValue
    Null = Null
    Hash <- MCHash
    MIN_NODES = 2
    Failure = {"calloc", "expand", "contract"}
INVARIANTS
    Placed
PROPERTIES
    ImplementsMap
SYMMETRY MCSymmetry
CHECK_DEADLOCK FALSE
