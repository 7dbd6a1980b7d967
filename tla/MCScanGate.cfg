CONSTANTS
    r1 = r1 r2 = r2
    ScanIds <- TwoScans
    Readers = {r1, r2}
    MaxVer = 2
    MaxRank = 1
SPECIFICATION GSpec
CHECK_DEADLOCK FALSE
INVARIANTS NoStaleAllow
