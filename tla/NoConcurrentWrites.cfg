SPECIFICATION Spec
CONSTANTS
    Procs = {p1, p2}
    Oids = {o1, o2}
    Sids = {s1, s2, s3, s4}
    NoSid = NoSid
    NoOid = NoOid
    MaxRetries = 1
INVARIANTS NoConcurrentWrites
