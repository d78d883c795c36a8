SPECIFICATION FairSpec
CONSTANTS
    Sale = {s1}
    Report = {r1}
    Pull = {p1}
    FreeText = {}
    Job = {j1, j2}
    Server = j1
    Cents = {1, 9}
    Typical = {1}
    DayLength = 1
    MaxTime = 1
    MinObservations = 2
    BatchSize = 1
    MaxPending = 1
    MaxPerDay = 2
    None = None
    Deleted = Deleted
INVARIANT IndexIsHonest
INVARIANT CountedOnce
 
CHECK_DEADLOCK FALSE
