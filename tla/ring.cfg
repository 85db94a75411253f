SPECIFICATION Spec
CONSTANTS
    r1 = r1
    r2 = r2
    x = x
    y = y
    Nil = Nil
    Readers <- TwoReaders
    Sizes <- TwoSizes
    Bytes <- TwoBytes
    Capacity = 3
    HalfModulus = 2
SYMMETRY Symmetry
INVARIANTS
    TypeOK
    NoRacyCopy
    PublishedReadable
PROPERTIES
    BlockLogSpec
