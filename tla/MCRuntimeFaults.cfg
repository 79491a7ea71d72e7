SPECIFICATION MCSpec
CONSTANTS
    f1 = f1
    f2 = f2
    f3 = f3
    g1 = g1
    s1 = s1
    v1 = v1
    a1 = a1
    a2 = a2
    Opcodes = {o1}
    Features = {f1, f2, f3}
    NameOf <- MCNameOf
    Sizes = {0, 2}
    MaxPackets = 2
    Quota = 3
    MaxDispatch = 2
    ByteBudget = 2
    MaxArrivals = 3
    None = None
    Functions = {g1}
    Scripts = {s1}
    CVars = {v1}
    Addresses = {a1, a2}
    Null = Null
    Reuse = FALSE
    MaxStates = 2
    MaxClears = 1
    MaxRefusals = 1
    MaxFaults = 1
    MaxOwed = 2
INVARIANT RerunForNewStateOnly
CHECK_DEADLOCK FALSE
