SPECIFICATION Spec
CONSTANTS
    CardLen = 32
    CardHalf = 16
    ProgramBlock = 4
    SizeClasses = {4, 8, 16, 32}
    Align = 2
    Page = 2
    Header = 1
    SingleLoader = 1
    TwoRomLoader = 2
    MultiLoader = 3
    RomFiles <- MCRomFiles
    PatternLen <- MCPatternLen
    Chunk = 4
    Overlap = 2
    Commands <- MCCommands
    CatalogSlots = 4
    CapturedRoms = 3
    OldPatterns = {3}
INVARIANT TwoRomRoundTrip
