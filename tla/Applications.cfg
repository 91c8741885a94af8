SPECIFICATION MCSpec
CONSTANTS
    p1 = p1  p2 = p2  p3 = p3  p4 = p4
    a1 = a1  a2 = a2
    s1 = s1  s2 = s2
    m1 = m1  m2 = m2
    f1 = f1  f2 = f2
    ppa = ppa  ppb = ppb
    g1 = g1  g2 = g2
    r1 = r1  r2 = r2
    w1 = w1  w2 = w2  w3 = w3
    i1 = i1  i2 = i2
    x1 = x1  x2 = x2
    q1 = q1  q2 = q2
    u1 = u1  u2 = u2
    None = None
    Ports = {q1, q2}
    Groups = {g1, g2}
    Rules = {u1, u2}
    GroupOf <- RuleGroups
    RemoteOf <- RuleRemotes
    Width = 1
    MaxReconnects = 1
CONSTRAINT Followed
SYMMETRY Symmetry
CHECK_DEADLOCK FALSE
INVARIANTS
    TypesOK SnatFollows RouterFollowed ClientsServed MetadataServed 
    GroupsEnforced
