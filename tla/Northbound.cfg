SPECIFICATION MCSpec
CONSTANTS
    Procs = {p1, p2}
    Oids = {o1}
    Sids = {s1, s2, s3, s4}
    NoSid = NoSid
    NoOid = NoOid
    MaxRetries = 1
    n1 = n1  n2 = n2  n3 = n3
    own = own  other = other
    None = None
    h1 = h1  h2 = h2  d1 = d1  d2 = d2
INVARIANTS TypesOK MutualExclusion ServiceHeard NeutronFollowed LockedRowsKept
PROPERTIES OnlyOwnerOrTtlUnlocks LockProgress KeysAllocated DeadForgotten
    OwnerRecorded
