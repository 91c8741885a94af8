SPECIFICATION Spec
CONSTANTS
    p1 = p1  p2 = p2
    n1 = n1
    h = h  c1 = c1  c2 = c2
    i0 = i0  i1 = i1  i2 = i2
    None = None
    Ports = {p1, p2}
    Nets = {n1}
    NetOf <- OneNet
    Chassis = {h, c1, c2}
    Here = h
    Ips = {i0, i1, i2}
    ChassisIp <- Addresses
    MaxWrites = 3
    MaxReconnects = 1
SYMMETRY Symmetry
CHECK_DEADLOCK FALSE
PROPERTY ChassisPortsDeleted
