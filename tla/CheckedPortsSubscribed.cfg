SPECIFICATION Spec
CONSTANTS
    s1 = s1
    s2 = s2
    s3 = s3
    l1 = l1
    l2 = l2
    t1 = t1
    t2 = t2
    SwitchPorts = {s1}
    Lports = {l1}
    Topics = {t1}
    LportOf <- OneRowLports
    TopicOf <- OneLportTopics
    Away = {}
    Migrating = {}
    MaxFaults = 2
    LportFirst = TRUE
    SerialReplug = TRUE
CHECK_DEADLOCK FALSE
PROPERTIES CheckedPortsSubscribed
