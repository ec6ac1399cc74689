CONSTANTS
    elder = elder
    fresh = fresh
    k1 = k1
    k2 = k2
    t1 = t1
    t2 = t2
    t3 = t3
    j1 = j1
    r1 = r1
    r2 = r2
    Emails = {elder, fresh}
    Legacy = {elder}
    OldTokens = {t1}
    KeyPairs = {k1, k2}
    Malformed = {k2}
    Sendable <- SomeKeys
    Bundles <- SomeBundles
    Jtis = {j1}
    Tokens = {t1, t2, t3}
    Requests = {r1, r2}
SYMMETRY Symmetry
SPECIFICATION Spec
CONSTRAINT Bounded
CHECK_DEADLOCK FALSE
INVARIANTS
    ImportedOnce
    HomeIsReadable
    
PROPERTIES
    KeysAreFinal
    RenewedOnce
