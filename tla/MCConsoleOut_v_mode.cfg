SPECIFICATION MCSpec
CONSTANTS
    out1 = out1
    out2 = out2
    out3 = out3
    r1 = r1
    r2 = r2
    r3 = r3
    GopModes <- MCGopModes
    GopFaulty = {}
    GlyphWidth = 1
    GlyphHeight = 1
    FirstMode <- MCFirstMode
    ModeTable <- MCModeTable
    Word = 256
    PcdVideo <- MCZero
    PcdConOut <- MCZero
    MemoryFails = FALSE
    Attributes = {7}
    Chars = {"a"}
    Strings <- MCStrings
    Positions <- MCPositions
    Blank = " "
    TextDevices = {out1, out2, out3}
    ErrDevices = {out1}
    FaultyTexts = {out1, out3}
    TextModes <- MCTextModes
    Size25 <- MCSize25
    Size50 <- MCSize50
    TextColours = {1, 2}
    Gray = 1
    TextChars = {"bs", "lf", "cr", "a"}
    TextPositions <- MCTextPositions
    AllocUnit = 2
    GopDevices = {out1, out2, out3}
    FaultyGops = {out2}
    DeviceModes <- MCDeviceModes
    SmallMode = r1
    Pictures = {"picture"}
    BlackPicture = "black"
    BltSizes <- MCSizes
    Infos <- MCInfos
    MemorySize = 49
    Bitmaps <- MCBitmaps
    BltCalls <- MCBltCalls
    MaxCalls = 1
    PoolRunsOut = TRUE
    Images = {"image"}
    Texts <- MCTexts
    ScreenWidth = 7
    ScreenHeight = 9
    FontWidth = 2
    FontHeight = 2
    ScaleFactor = 1
    Stack = {TRUE, FALSE}
INVARIANTS
    ModeExists
CHECK_DEADLOCK FALSE
