SPECIFICATION Spec
INVARIANT DrawsInPlace
INVARIANT CirclesKeepTextures
INVARIANT ZoomsOnlyOnce
INVARIANT CursorTellsTheTruth
INVARIANT OneRepresentation
PROPERTY ShapesAsAsked
INVARIANT OnlyGrassMoves
INVARIANT PingsAreAimed
INVARIANT EventsTellTheTruth
CONSTANTS
    MarkerQuests = {q1, q2}
    Units = {u1, u2, u3}
    Entries = {e1, e2}
    MaxEntries = 1
    MaxCircles = 2
    MaxCachedUnits = 2
    GuidEntry <- PackedEntries
    u1 = u1
    u2 = u2
    u3 = u3
    e1 = e1
    e2 = e2
    MaxDevices = 2
    Instances <- Models
    CharModels <- People
    RaceOf <- Races
    ScreenOf <- Screens
    Notches = 1
    Turns = {0, 1}
    Slots = {s1, s2}
    Points = {here, there}
    Nothing = Nothing
    Pieces = {0, 2, 4}
    MaxShapes = 2
    GrassShaders = {g1, g2}
    OtherShaders = {o1}
    MaxNewDevices = 1
    NoShader = NoShader
    Places = {"here"}
    UnitGuids <- Guids
    UnitNames <- Names
    Characters <- NameCharacters
    MaxUnitName = 2
    Subscribers = {sub1, sub2}
    Labels = {x1, x2}
    Nobody = Nobody
    MaxCalls = 3
    MaxNested = 2
    MaxSubscriptions = 2
CHECK_DEADLOCK FALSE
