SPECIFICATION Spec
CONSTANTS
    kReceiveSize = 3
    MaxReceived = 14
INVARIANTS
    HoldsStream
    ReadsInOrder
    MemoryBounded
