\* Nine groups of requests on two accounts, three campaigns and two clients.
SPECIFICATION Spec
CONSTANTS
    a1 = a1  u1 = u1  n1 = n1  n2 = n2
    g1 = g1  g2 = g2  g3 = g3  l1 = l1  l2 = l2
    e0 = e0  e1 = e1  e2 = e2
    k1 = k1  k2 = k2  k3 = k3  x1 = x1  x2 = x2  w1 = w1  w2 = w2
    Ids = {a1, u1, n1, n2}
    Unused = Unused
    Gone = Gone
    Logins = {g1, g2, g3, l1, l2}
    Google = {g1, g2, g3}
    NoLogin = NoLogin
    Emails = {e0, e1, e2}
    EmailOf <- MCEmailOf
    NoEmail = NoEmail
    Verified = {g1, g2}
    Calls <- MCCalls
    Plans <- MCPlans
    Seeded <- MCSeeded
    Sockets = {w1, w2}
    UserOf <- MCUserOf
    Enrolled <- MCEnrolled
    Names = {k1, k2, k3}
    Scenarios = {x1, x2}
    Opened <- MCOpened
INVARIANTS
    
    ScopeWasOnceTrue
    InvitationsAreGenuine
CHECK_DEADLOCK FALSE
