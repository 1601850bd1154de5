CONSTANTS
    Writers = {p1, p2}
    Readers = {r1, r2}
    Values = {v1, v2}
    NotFound = NotFound
    Garbled = Garbled
    Error = Error
SPECIFICATION StoreSpec
INVARIANTS
    NoTempLeft
PROPERTY ImplementsRegister
