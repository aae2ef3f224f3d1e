CONSTANTS
    x = x  y = y  c1 = c1  c2 = c2
    Clients = {c1, c2}
    Layouts = {l1}
    Tracks = {t1, t2}
    Contents = {x, y, bad}
    Locators = {p, q}
    Unreadable = {bad}
    Oversized = {bad}
    Unsendable = {}
    MaxChanges = 1
    NoBody = NoBody
    NoChunks = NoChunks
    NoContents = NoContents
    NoManifest = NoManifest
    MaxRevision = 2
    MaxEdits = 1
    MaxLosses = 0
    MaxEpoch = 1
    MaxInFlight = 2
SYMMETRY Symmetry
SPECIFICATION Spec
INVARIANTS
    TypeOK
    MirrorIsPublished
    AcceptedMirrorIsSnapshot
    DeltaIsCurrent
    FetchIsWhole
CHECK_DEADLOCK FALSE
