SPECIFICATION FairSpec
CONSTANTS
    t1 = t1
    t2 = t2
    p1 = p1
    p2 = p2
    p3 = p3
    q1 = q1
    q2 = q2
    c1 = c1
    q3 = q3
    Targets = {t1, t2}
    LiveTargets = {t1}
    Parties = {p1, p2, p3, q1, q2, q3}
    Callers = {c1}
    TargetOf <- MCTargetOf
    Priority <- MCPriority
    Engine = Engine
    Null = Null
    Idle = Idle
INVARIANT OldOrNewSuccessor
