\* A bulk upsert gives an existing secret a new value.
CONSTANTS
    k1 = k1
    k2 = k2
    w1 = w1
    Keys = {k1, k2}
    Domains = {}
    Resolvers = {}
    Delegations = {}
    Writers = {w1}
    Ops = {"create", "bulk_update"}
    MaxClock = 3
SPECIFICATION FairSpec
PROPERTIES
    ResolverCatchesUp
