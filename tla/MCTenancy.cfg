CONSTANTS
    p1 = p1  p2 = p2  x1 = x1  x2 = x2  k1 = k1  n1 = n1  m1 = m1  m2 = m2
    u1 = u1  u2 = u2  c1 = c1  c2 = c2  r1 = r1  r2 = r2
    a1 = a1  a2 = a2  l1 = l1  l2 = l2  s1 = s1
    None = None
    Ids = {a1, a2}
    Sids = {s1}
    Kids = {k1}
    KeyNames = {n1}
    PIds = {p1, p2}
    Rows = {x1, x2}
    CIds = {k1}
    Names = {n1}
    MemberNames = {m1, m2}
    Users = {u1, u2}
    Repos = {r1, r2}
    Public = {r1}
    Clients = {c1, c2}
    LoginOf <- Logins
    SessionTTL = 2
    SessionHardTTL = 3
    Interval = 1
    MaxTime = 2
    MaxStamp = 1
    MaxIndex = 2
SPECIFICATION TSpec
SYMMETRY Symmetry
CHECK_DEADLOCK FALSE
INVARIANTS  
           SuperAdminRemains SetupOnce SessionsBounded
PROPERTIES RestoreExact LastMaintainerKept RoleChangeIsAuthorised
