CONSTANTS
    w1 = w1  w2 = w2  w3 = w3  d1 = d1  d2 = d2
    v1 = v1  v2 = v2  h1 = h1  h2 = h2  e1 = e1  e2 = e2  e3 = e3
    None = None
    Writers = {w1, w2}
    Deleters = {d1}
    Versions = {v1, v2}
    Holders = {h1}
    Entries = {e1, e2}
SPECIFICATION LiveSpec
INVARIANTS
    UploadsAgree
    NothingCommittedIsLost
PROPERTIES
    UploadsEnd
