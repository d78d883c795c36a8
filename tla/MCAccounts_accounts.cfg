SPECIFICATION MCSpec
CONSTANTS
    Slot = {s1, s2}
    Link = {l1}
    MaxPasskeys = 1
    MaxAccounts = 1
    Nobody = Nobody
    Person = {p1, p2}
    MaxTime = 2
    MaxRestores = 1
    Straddles = FALSE
    Never = Never
    Cell = {c1, c2}
    OldKey = k1
    NewKey = k2
    Nothing = Nothing
INVARIANT OldLinksAreDead
 
INVARIANT NothingIsLost
PROPERTY ConsoleCloses
CHECK_DEADLOCK FALSE
