CONSTANTS
    o1 = o1  o2 = o2  o3 = o3
    c1 = c1  c2 = c2  c3 = c3  c4 = c4
    Index = {1, 2}
    Objects = {o1, o2, o3}
    NoObject = NoObject
    CallbackIds = {c1, c2, c3, c4}
    NoCallback = NoCallback
    NoIndex = NoIndex
    Plain = {"name", "device_name"}
    Mixer = {"volume"}
    Param = {"parameter"}
    Shared = {"device_name"}
    Rank <- MCRank
CONSTRAINT MaxCallbacks
SYMMETRY Symmetry
SPECIFICATION Spec
PROPERTY ReloadKeepsServing
