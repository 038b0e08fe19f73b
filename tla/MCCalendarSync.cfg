CONSTANTS
    c1 = c1
    c2 = c2
    e1 = e1
    e2 = e2
    Calendars = {c1, c2}
    Events = {e1, e2}
    CalendarOf <- MCCalendarOf
    MaxEdit = 2
    MaxChanges = 2
    MaxFaults = 1
    MaxReads = 1
SPECIFICATION FairSpec
INVARIANTS
    
    TextIsCurrent
    

    
