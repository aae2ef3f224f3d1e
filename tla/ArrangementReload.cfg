CONSTANTS
    x = x  y = y  c1 = c1  c2 = c2
    Clients = {c1, c2}
    Layouts = {l1}
    Tracks = {t1}
    Contents = {x, y}
    Locators = {p}
    Unreadable = {}
    Oversized = {}
    Unsendable = {}
    MaxChanges = 1
    NoBody = NoBody
    NoChunks = NoChunks
    NoContents = NoContents
    NoManifest = NoManifest
    MaxRevision = 2
    MaxEdits = 1
    MaxLosses = 0
    MaxEpoch = 2
    MaxInFlight = 1
SPECIFICATION Spec
INVARIANT AcceptedMirrorIsSnapshotAfterReload
CHECK_DEADLOCK FALSE
