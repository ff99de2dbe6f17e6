SPECIFICATION Spec
CONSTANTS
    Node = {n1, n2, n3}
    MaxBarriers = 2
    MaxSlots = 4
    MaxFaults = 1
SYMMETRY Symmetry
INVARIANTS NewestSealBacked GenerationsBacked SealKnown CapturesAreNew
CHECK_DEADLOCK FALSE
