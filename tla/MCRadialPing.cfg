SPECIFICATION Spec
CONSTANTS
    p1 = p1
    p2 = p2
    Players = {p1, p2}
    Maps = {m1, m2}
    UpdateLimit = 1
    MaxPings <- MCMaxPings
    MaxEvents = 1
    None = None
INVARIANT MarkersSettle
PROPERTY PingIsShown
CHECK_DEADLOCK FALSE
