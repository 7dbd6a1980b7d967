CONSTANTS
    c1 = c1  c2 = c2  b1 = b1  b2 = b2  i1 = i1
    None = None
    Clients = {c1, c2}
    Buckets = {b1, b2}
    Uploads = {i1}
    MaxContent = 2
    Versions = {1, 2}
    DistTags = {"latest", "beta"}
    MaxUploads = 3
    MItems = {1, 2, 3}
    MaxVersion = 2
    Workers = 2
    Pct = 50
    MaxChanges = 1
    MaxSyncs = 2
    Upstreams <- Listed
    ScanIds = {1, 2}
    MaxVer = 2
    MaxRank = 1
    Entries = {1, 2, 3, 4, 5}
    PageLimit = 2
    Groupings <- Prefixes
    MaxWrites = 2
    Pages = {1, 2}
    Parts = {1, 2}
    MaxPublished = 2
    ChunkMax = 1
    SessionMax = 2
    MaxOps = 3
    MaxRotations = 3
    GitRefs = {1, 2}
    MaxCommits = 3
    MaxLines = 1
    MaxEvents = 5
    Peers = {1, 2, 3}
    Burst = 1
    MaxPeers = 2
    MaxConcurrent = 1
    MaxTicks = 4
SPECIFICATION Spec
SYMMETRY Symmetry
CHECK_DEADLOCK FALSE
INVARIANTS
    ObjectsIntact
    
    
    
    
    WalkComplete
    IndexesPublished
    UploadsExact
    DatabaseKept
    RefsListed
    
    AttemptsBounded

    
