CONSTANTS
    BitSize <- MCBitSize
    WordBits = 3
    VectorSizeMin = 2
    Level = 1
    Acls <- MCAcls
SPECIFICATION Spec
INVARIANTS
    SortIndexInRange
    BucketLookupExact
