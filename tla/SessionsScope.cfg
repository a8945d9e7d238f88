CONSTANTS
    k1 = k1  k2 = k2  k3 = k3
    t1 = t1  t2 = t2
    q1 = q1  q2 = q2
    home = home  branch = branch
    Token = {k1, k2, k3}
    Tab = {t1, t2}
    Request = {q1, q2}
    Org = {home, branch}
    Home = home
    None = None
    MaxMoves = 5
SYMMETRY AnyNames
SPECIFICATION Spec
INVARIANTS OneOrgPerFamily
CHECK_DEADLOCK FALSE
