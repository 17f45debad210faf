SPECIFICATION Spec

CONSTANTS
    p1 = p1
    p2 = p2
    s1 = s1
    s2 = s2
    h1 = h1
    h2 = h2
    c1 = c1
    c2 = c2
    Posts = {p1, p2}
    Hashes = {h1}
    NoHash = NoHash
    MaxTime = 4
    DueTimes = {}
    Lookback = 2
    MaxQueued = 1
    Faults = {"telegram", "enqueue"}
    Slots = {s1}
    NoPost = NoPost
    AddAcceptsInsert = FALSE
    Channels = {c1}
    ReconcileMaxAge = 2
    Normalized = {p1}
    AutoPosts = {}
    HashOf <- OneHash
    ChannelOf <- OneChannel

INVARIANTS
    NoRepeatInWindow
    NoOrphanReservation
PROPERTIES
    NoResendAfterRecord
    SendsOncePerWindow

CHECK_DEADLOCK FALSE
