SPECIFICATION HSpec
SYMMETRY MessageSymmetry
CONSTANTS
    Messages = {m1, m2}
    Runners = {daemon}
    Backfills = {backfill}
    Readers = {q1}
    Exclusive = TRUE
    CleanBackfill = TRUE
    Paired = {"update", "delete"}
    MaxEvents = 3
    MaxAborts = 1
    MaxExpiries = 1
INVARIANTS
    TypeOK NeverBehindCursor NothingMissing CachedBodyCurrent
CHECK_DEADLOCK FALSE
