SPECIFICATION Spec
CONSTANTS
    p1 = p1
    p2 = p2
    k1 = k1
    k2 = k2
    k3 = k3
    v1 = v1
    v2 = v2
    Nil = Nil
    Threads <- TwoThreads
    Keys <- ThreeKeys
    Values <- OneValue
    Capacities <- SmallCapacity
SYMMETRY Symmetry
INVARIANTS
    NoDanglingUse
