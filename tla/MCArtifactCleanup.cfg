SPECIFICATION Spec
CONSTANTS
    p1 = p1
    w1 = w1
    w2 = w2
    None = None
    Rows <- MCRows
    Workers <- MCWorkers
INVARIANTS
    TypeOK
    BytesAreTracked
PROPERTIES
    WantedBytesStay
