SPECIFICATION MCSpec
CONSTANTS
    n = n  p = p  q = q
    None = None
    Models <- ThreeModels
    Versioned = {n, p}
    MaxVersion = 2
    MaxWrites = 4
    MaxFaults = 0
    InOrder = TRUE
    s1 = s1  s3 = s3  l1 = l1  l2 = l2  t1 = t1  t2 = t2
    u1 = u1  u2 = u2
    c1 = c1  c2 = c2  v1 = v1  v2 = v2
    m1 = m1  m2 = m2  b1 = b1  b2 = b2
INVARIANTS TypesOK  CacheExact SubscriptionsExact
 
