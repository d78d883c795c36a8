SPECIFICATION MCSpec
CONSTANTS
    RowLimit = 2
    SizeLimit = 99
    Columns <- MCColumns
    Required <- MCRequired
    Unreadable = Unreadable
    Req = {r1, r2}
    User = {owner}
    Visitor = Visitor
    Id = {c1}
    l1 = l1
    l2 = l2
    Line = {l1, l2}
    Purchase <- MCPurchase
    File <- MCFile
    Price <- MCPrice
    Money = "USD"
    MaxCollections = 1
    MaxQuantity = 4
    MaxNotes = 3
    Char <- MCChar
    MaxRequests = 4
    Unknown = Unknown
    Unpriced = Unpriced
    Absent = Absent
    Gone = Gone
    None = None
    p1 = p1
    Person = {p1, p2}
    Creator <- MCCreator
    Product <- MCProduct
    Odds <- MCOdds
    ZSquared <- MCZSquared
    Buyer <- MCBuyer
    Seller <- MCSeller
    p2 = p2
    Handle = {"admin", "amuro"}
    Reserved = {"admin"}
    Break = {b1, b2}
    Rarity = {"SR"}
    NoRarity = NoRarity
    PackCount = {4}
    MaxPulls = 1
    MinPacks = 3
    MinExpected = 1
    Sample = 1
    Order = {o1, o2}
    Stars = {1, 4, 5}
    Item = {o1}
    Slot = {s1, s2}
    MaxVersion = 3
    Nothing = Nothing
    ca = ca
    cb = cb
    Card = {ca, cb}
    Term = {t1}
    Finds <- MCFinds
    Amount = {3}
    Junk = Junk
    Empty = Empty
    IndexPrice <- MCIndexPrice
    MaxEntries = 1
    MaxInFlight = 1
    Content = {x1, x2}
    Seed = {k1, k2}
    MaxLog = 2
    MaxEvidence = 2
    Unhashed = Unhashed
    Unread = Unread
 
INVARIANT StarsHadMoney
 
 
PROPERTY NeverGoesBack
PROPERTY AnswersKeepSecrets
CHECK_DEADLOCK FALSE
