SPECIFICATION Spec
CONSTANTS
    signed = signed
    tailed = tailed
    full = full
    Builds = {signed, tailed, full}
    StockOf <- MCStockOf
    Edits <- MCEdits
    FileAlignment = 2
    SectionAlignment = 4
    Tag = ".wxl"
    NewImport = "WarcraftXL"
    Thunks <- MCThunks
    Zero = "0"
    Failed = Failed
    Absent = Absent
    Torn = Torn
    TornCopy = TRUE
    LosesCache = TRUE
    MaxRuns = 3
    MaxChanges = 2
    MaxUpdates = 1
    Levels = 4
    Sources <- TextureSources
    Edges = {1, 2, 4}
    ComponentEdges <- ClampedEdges
    MaxConversions = 3
    Spots = {1, 2, 3}
    Alphas = {0, 3, 128, 255}
    Shades <- TexelShades
    Packed <- Endpoints
    PaletteSize = 3
    ImageColours <- Palettes
    MostOf = 2
    Skeletons <- AnimSkeletons
    Libraries <- AnimLibraries
    Maps <- AnimMaps
    Ambients = {"stand", "none"}
    NoRate = 0
    ModelFiles <- SkinFiles
    Modes <- TextureModes
    Bands = 3
    VertexLimit = 20
    BoneLimit = 3
INVARIANT PicturesSurvive
INVARIANT ModelsMatch
INVARIANT BackupIsWayBack
INVARIANT PatchedImagesSound
PROPERTY TargetReplacedWhole
CHECK_DEADLOCK FALSE
