SPECIFICATION PipelineSpec

CONSTANTS
    p1 = p1
    p2 = p2
    s1 = s1
    w1 = w1
    w2 = w2
    h1 = h1
    c1 = c1
    Posts = {p1, p2}
    NoPost = NoPost
    Hashes = {h1}
    NoHash = NoHash
    HashOf <- OneHash
    AutoPosts = {p1}
    Normalized = {}
    TextPosts = {p1}
    MaxTime = 1
    DueTimes = {}
    Lookback = 2
    MaxQueued = 1
    Faults = {"worker", "normalize"}
    Slots = {s1}
    AddAcceptsInsert = FALSE
    Channels = {c1}
    ChannelOf <- OneChannel
    ReconcileMaxAge = 2
    Workers = {w1}
    MaxNormalize = 1

INVARIANTS
    PipelineTypeOK
    PendingIsOnItsWay
    DuplicateOfSomething
    NoRepeatInWindow
    NothingUnapprovedGoesOut
PROPERTIES
    NoResendAfterRecord

CHECK_DEADLOCK FALSE
