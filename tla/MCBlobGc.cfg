CONSTANTS
    b1 = b1  b2 = b2  r1 = r1  r2 = r2  c1 = c1  c2 = c2
    p1 = p1  g1 = g1  g2 = g2  none = none
    None = none
    Blobs = {b1}
    Repos = {r1, r2}
    Clients = {c1}
    Pulls = {p1}
    Collectors = {g1, g2}
    Hour = 3
    RequestLimit = 1
    JobLimit = 2
    Quiescence = 0
    MaxNow = 6
    MaxRefs = 1
SPECIFICATION Spec
SYMMETRY Symmetry
INVARIANTS
    RowsHaveFiles
    PushWindow
