SPECIFICATION Spec
CONSTANTS
    Columns = {"c", "d"}
    Heights = {0, 1}
    SectionBlobs = {"s8", "t8", "s9"}
    BiomeBlobs = {"b"}
    NoHeight = NoHeight
    Biomes = Biomes
    OwnHeight <- MCOwnHeight
    Scripts <- MCScripts
INVARIANTS NoForgottenBlob OnlyKnownFailures
PROPERTIES AllShown Delivers
CHECK_DEADLOCK FALSE
