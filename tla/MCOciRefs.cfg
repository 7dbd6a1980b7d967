CONSTANTS
    r1 = r1  r2 = r2  t1 = t1  t2 = t2  b1 = b1  b2 = b2
    i1 = i1  i2 = i2  x1 = x1  x2 = x2  none = none  c1 = c1  c2 = c2
    None = none
    Repos = {r1, r2}
    Tags = {t1, t2}
    Blobs = {b1, b2}
    Manifests = {i1, i2, x1, x2}
    Index = {x1, x2}
    Refs <- NestedRefs
    Clients = {c1, c2}
    Overlap = FALSE
SPECIFICATION Spec
SYMMETRY Symmetry
CONSTRAINT OneRepoOrOneTag
INVARIANTS
    IndexComplete
    RefCountsExact
    TagsResolve
    ImagesServable
