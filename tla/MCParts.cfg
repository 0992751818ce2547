CONSTANTS
    BufferRequest = 2
    BufferLimit = 3
    MaxFrames = 4
    ImageLimit = 5
    NodeLists <- SomeNodes
    ShownFrames = 4
    Interval = 2
    FrameLimit = 6
    Names = {"a", "b", "c"}
    Copies = {1, 2}
    TableMax = 2
    NoOps = NoOps
    ArgLists <- Lines
    Numeral <- Numbers
    IntSpan <- SmallInt
    ViewerBuilt = TRUE
    Shapes <- SomeShapes
    OsdArea <- OverlayBox
    OsdInk <- Ink
    One = 255
    BoxThresh = 25
    NmsThresh = 45
    ClientPictures <- SomePictures
    Cells <- SomeCells
    CellLimit = 4
    ModelWidth = 32
    ModelHeight = 32
    MaxResults = 2
    CallLimit = 3
SPECIFICATION Spec
CHECK_DEADLOCK FALSE
INVARIANTS
    BuffersAccountedFor
    NothingLeftBehind
    ShowsAcceptedFrames
    EofOnlyWhenClosed
    NoUseAfterFree
    ReaderGetsWhole
    StartupConsistent
    PixelsSurvive
    DetectionsAreGreedy
    DetectorBalances
PROPERTIES
    StopEndsCapture
    SnapshotStays
    ViewerReturns
    RegistryImplementsTable
