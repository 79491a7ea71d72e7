SPECIFICATION Spec
CONSTANTS
    engine = engine
    open = open
    render = render
    ext1 = ext1
    ext2 = ext2
    BootPoints = {engine}
    EngineInit = engine
    StoragePoints <- MCStorage
    NormalPoints = {render}
    ExtPoints = {ext1, ext2}
    Timeout = TRUE
    MaxInits = 1
    MaxFailures = 1
    N = 2
    Keys <- MCKeys
    CoreKeys <- MCCore
    Needs <- MCNeeds
    Offers <- MCOffers
    Kinds <- MCKinds
    kPoints <- MCPoints
    Asks <- MCAsks
INVARIANT SafeToCall
PROPERTY ComesUp
CHECK_DEADLOCK FALSE
