SPECIFICATION FairSpec
CONSTANTS
    Messages = {m1}
    Runners = {daemon}
    Backfills = {backfill}
    Readers = {}
    Exclusive = TRUE
    CleanBackfill = TRUE
    Paired = {"update", "delete"}
    MaxEvents = 4
    MaxAborts = 1
    MaxExpiries = 1
PROPERTIES
    CatchesUp
CHECK_DEADLOCK FALSE
