SPECIFICATION Spec

CONSTANTS
    p1 = p1
    p2 = p2
    s1 = s1
    s2 = s2
    h1 = h1
    h2 = h2
    c1 = c1
    c2 = c2
    Posts = {p1, p2}
    Hashes = {h1}
    NoHash = NoHash
    MaxTime = 1
    DueTimes = {}
    Lookback = 2
    MaxQueued = 1
    Faults = {"crash", "timeout", "db", "enqueue", "callback", "telegram"}
    Slots = {s1, s2}
    NoPost = NoPost
    AddAcceptsInsert = TRUE
    Channels = {c1}
    ReconcileMaxAge = 2
    Normalized = {p1, p2}
    AutoPosts = {}
    HashOf <- OneHash
    ChannelOf <- OneChannel

INVARIANTS
    TypeOK
    ReservationExclusive
PROPERTIES
    NoResendAfterRecord

CHECK_DEADLOCK FALSE
