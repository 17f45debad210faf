SPECIFICATION Spec

CONSTANTS
    p1 = p1
    p2 = p2
    s1 = s1
    s2 = s2
    h1 = h1
    h2 = h2
    c1 = c1
    c2 = c2
    Posts = {p1}
    Hashes = {h1}
    NoHash = NoHash
    MaxTime = 1
    DueTimes = {}
    Lookback = 2
    MaxQueued = 1
    Faults = {}
    Slots = {s1}
    NoPost = NoPost
    AddAcceptsInsert = FALSE
    Channels = {c1}
    ReconcileMaxAge = 2
    Normalized = {p1}
    AutoPosts = {}
    HashOf <- OneHash
    ChannelOf <- OneChannel

PROPERTIES
    RejectedIsNotClaimed

CHECK_DEADLOCK FALSE
