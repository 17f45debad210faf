SPECIFICATION Spec

CONSTANTS
    h1 = h1
    Hashes = {h1}

INVARIANTS
    TypeOK
    StatementsExecute
    SchemaFollowsRevision
    HeadServesTheModels
