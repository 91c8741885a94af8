SPECIFICATION Spec
CONSTANTS
    s1 = s1
    s2 = s2
    s3 = s3
    l1 = l1
    l2 = l2
    t1 = t1
    t2 = t2
    SwitchPorts = {s1, s2, s3}
    Lports = {l1, l2}
    Topics = {t1, t2}
    LportOf <- ThreeRowsLports
    TopicOf <- OneTenant
    Away = {l2}
    Migrating = {}
    MaxFaults = 0
    LportFirst = FALSE
    SerialReplug = TRUE
CHECK_DEADLOCK FALSE
PROPERTIES PluggedPortsSubscribed
