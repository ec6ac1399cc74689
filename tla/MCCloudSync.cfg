\* Every write operation against a poll; two requests between stamp and commit.
CONSTANTS
    k1 = k1
    k2 = k2
    w1 = w1
    w2 = w2
    Keys = {k1}
    Domains = {"d1"}
    Resolvers = {"default"}
    Delegations = {1, 2}
    Writers = {w1, w2}
    Ops <- EveryOp
    MaxClock = 3
SPECIFICATION HistorySpec
INVARIANTS
    RevokedKeyNotServed
    PollIsFresh
    UnchangedIsTrue
    OneRowUnlessCrossed
