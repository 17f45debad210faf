SPECIFICATION FairSpec

CONSTANTS
    c1 = c1
    p1 = p1
    t1 = t1
    t2 = t2
    r1 = r1
    r2 = r2
    Channels = {c1}
    Tags = {t1, t2}
    Posts = {p1}
    Requests = {r1, r2}
    None = None
    Lists <- SomeLists
    ChannelOf <- OneChannel

INVARIANTS
    TypeOK
    LinksMirrorDefaults
    StaleTagsCameLate
    PostsKeepGivenTags
PROPERTIES
    RequestsEnd
