CONSTANTS
    x = x  y = y  c1 = c1  c2 = c2
    Clients = {c1}
    Layouts = {l1, l2}
    Tracks = {t1, t2}
    Contents = {x, y}
    Locators = {p}
    Unreadable = {}
    Oversized = {}
    Unsendable = {}
    MaxChanges = 1
    NoBody = NoBody
    NoChunks = NoChunks
    NoContents = NoContents
    NoManifest = NoManifest
    MaxRevision = 6
    MaxEdits = 2
    MaxLosses = 1
    MaxEpoch = 2
    MaxInFlight = 1
SPECIFICATION FairSpec
PROPERTIES
    Converges
    ImplementsMirror
