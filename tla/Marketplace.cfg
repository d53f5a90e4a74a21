SPECIFICATION Spec
CONSTANTS
    c1 = c1  c2 = c2  c3 = c3
    u1 = u1  u2 = u2  u3 = u3
    t1 = t1  t2 = t2  t3 = t3  t4 = t4
    none = none  None = none
    r1 = r1  r2 = r2  p1 = p1  p2 = p2  x1 = x1  x2 = x2  x3 = x3
    Calls = {c1, c2, c3}
    Users = {u1, u2, u3}
    Tokens = {t1, t2, t3, t4}
    Admins = {u1}
    OldSessions <- MCOldSessions
    Limit = 2
    MaxFaults = 1
    Agencies = {"a1", "a2"}
    OldMembers <- MCOldMembers
    Rank <- MCRank
    Defaults <- MCDefaults
    Externals = {x1, x2, x3}
    OldListings <- MCOldListings
    Requests = {r1, r2}
    OldRequests <- MCOldRequests
    Properties = {p1, p2}
    OldProperties <- MCOldProperties
    Workloads <- MCWorkloads
SYMMETRY CallSymmetry
INVARIANTS TypeOK LockedOut WindowExpires OneConversation ReplacesEarlier KeepsEarlier NothingHalfMade
CHECK_DEADLOCK FALSE
