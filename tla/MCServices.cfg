SPECIFICATION Spec
CONSTANTS
    malloc_pageshift = 4
    malloc_minshift = 2
    malloc_cache = 1
    MALLOC_BITS = 3
    SizeofWord = 1
    SizeofEntry = 2
    SizeofPginfo = 2
    SizeofPgfree = 3
    MaxHeap = 6
    SizeRange = 256
    MallocSizes <- MCMallocSizes
    MaxLive = 3
    MaxCalls = 6
    Commands <- MCCommands
    FileNames = {"f"}
    FirstFiles <- MCFirstFiles
    NBRA = 2
    MaxLines = 6
    MaxCommands = 3
    NFILES = 8
    Lines <- MCLines
    MaxPids = 5
    MaxShLines = 2
    HALF_BITS = 2
    DISPLAY_WIDTH = 2
    DISPLAY_HEIGHT = 3
    ScrollScreens = 2
    NTERMS = 2
    Glyphs = {"a"}
    FirstTexts <- MCFirstTexts
    MaxChars = 5
    PAGE_SIZE = 16
    UserLow = 4
    UserHigh = 24
    TablePages = 4
    Files <- MCFiles
    ArgLists <- MCArgLists
    StackPages = 2
    TouchedPages = {6, 8, 10}
    MaxExecs = 2
    MaxAnons = 6
    MaxSyscalls = 3
    CharBits = 2
    ShortBits = 3
    IntBits = 4
    LongLongBits = 6
    BufSize = 6
    Formats <- MCFormats
    Conversions <- MCConversions
    MaxPrints = 4
    KSH_BUF_SIZE = 8
    KSH_MAX_ARGS = 4
    KshNFILES = 4
    KshCommands <- MCKshCommands
    KshLines <- MCKshLines
    KshOpen <- MCKshOpen
    MaxKshLines = 2
    VnCallers = {"a", "b"}
    VnInodes = {0, 1, 2}
    VnSlots = {1, 2}
    VnFrames = {1, 2}
    MaxHeld = 2
    MaxLinks = 1
INVARIANTS
    HeapIsSound
    EditsAreExact
    SearchFindsLeftmost
    PromptIsClean
    StreamsAreTheNamedOnes
    DivisionIsExact
    ScreenShowsTheText
    ExecIsAllOrNothing
    ProgramFindsItsMemory
    CallsLeaveNothingBehind
    TextIsExact
    LineMeansWhatItSays
    
    VnodesAreCounted
CHECK_DEADLOCK FALSE
