CONSTANTS
    MaxTracks = 3
    MaxClips = 3
    ClipBytes = {1, 3}
    Bodies <- MCBodies
    MaxChunks <- MCMaxChunks
    Digits <- MCDigits
    Envelope = 0
    Budget = 9
SPECIFICATION FairSpec
INVARIANTS
    TypeOK
    ChunksAreTheBody
    OnlyEmptyTracksFailTheCheck
    RefusesOnlyIndivisible
PROPERTIES
    HintGrows
    Terminates
CHECK_DEADLOCK FALSE
