SPECIFICATION Spec
CONSTANTS
    Node = {n1, n2, n3}
    MaxBarriers = 3
    MaxSlots = 3
    MaxFaults = 2
SYMMETRY Symmetry
INVARIANT CapturesAgree
CHECK_DEADLOCK FALSE
