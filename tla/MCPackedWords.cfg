CONSTANTS
    Modulus = 64
    MaxSize = 31
SPECIFICATION Spec
INVARIANTS
    PackedInv
    
    DequeuingDecodes
