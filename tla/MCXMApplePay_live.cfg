SPECIFICATION LiveSpec
CONSTANTS
    t1 = t1
    t2 = t2
    p1 = p1
    c1 = c1
    l1 = l1
    u1 = u1
    Nil = Nil
    NoUid = NoUid
    Nobody = Nobody
    Tids <- MCTids1
    Products <- MCProducts
    Goods <- MCProducts
    Calls <- MCCalls
    Lookups <- MCLookups
    Queries <- MCQueries
    Verdicts <- MCVerdicts
    Logins <- MCLogins
    Uids <- MCUids
    Blocks <- MCBlocks
    MaxInFlight = 3
    MaxRegistrations = 2
    MaxRepeated = 1
    MaxRelaunches = 2
PROPERTIES
    TakenOrdersAreSettled
CHECK_DEADLOCK FALSE
