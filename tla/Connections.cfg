SPECIFICATION Spec
CONSTANTS
    c1 = c1
    c2 = c2
    c3 = c3
    fd1 = fd1
    fd2 = fd2
    fd3 = fd3
    Conns <- MCConns
    Fds <- MCFds
    MaxConnections = 1
    SwitchAt = 1
SYMMETRY Symmetry
CHECK_DEADLOCK FALSE
INVARIANTS
    OpenBound
    Heard
    OwnSocketOnly
    TroubleNeedsStray
