CONSTANTS
    w1 = w1
    w2 = w2
    w3 = w3
    r1 = r1
    None = None
    Writer <- MCWriter
    Reader = {r1}
    Coordinate = {"a1", "a2", "b1"}
    Capability <- MCCapability
    Digest = {"d1", "e1", "d2", "d3"}
    Bundle <- MCBundle
    Time = {1, 2}
    MaxEntries = 2
SYMMETRY WriterSymmetry
SPECIFICATION Spec
INVARIANTS
    IndexIsSound
    ReadersNeedNoLock
PROPERTIES
    ImplementsCatalog
CHECK_DEADLOCK FALSE
