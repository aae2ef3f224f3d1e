SPECIFICATION Spec
CONSTANTS
 MaxDepth = 2
 NoBrowser <- MCNoBrowser
 Browsers <- MCBrowsers
 KnownSets <- MCKnownSets
 NoScan <- MCNoScan
 Tracks = 1
 Chains <- MCChains
 Devices <- MCDevices
 LoadRequests <- MCLoadRequests
 Categories <- MCCategories
 MaxLoads = 1
 Budget = 10
 Envelope = 2
 MarkerBytes = 2
 NotesPerPage = 2
 TopPitch = 127
 Grids <- MCGrids
 Scenes <- MCScenes
 NoteLists <- MCNoteLists
 Spans <- MCSpans
 CostLists <- MCCostLists
 MaxEdits = 2
 FileCount = 2
 FirstSizes <- MCFirstSizes
 Sizes <- MCSizes
 StemOf <- MCStemOf
 Listings <- MCListings
 SingleHash = 2
 HashPerCall = 2
 PageBudget = 4
 ItemBytes <- MCItemBytes
 MaxLimit = 3
 Limits <- MCLimits
 MaxWrites = 2
 MaxPages = 2
 Sessions <- MCSessions
 Ranges <- MCRanges
 Blocks <- MCBlocks
 Fraction = 2
 MaxTime = 6
 TrackCount = 1
 TrackArgs <- MCTrackArgs
 ClipArgs <- MCClipArgs
 Pitches <- MCPitches
 NoteCounts <- MCNoteCounts
 Cut = 1
 Times <- MCTimes
 Windows <- MCWindows
 CCs = {1, 7}
 CCParams = {7}
 MaxPoints = 2
 MaxClips = 2
 MaxOps = 3
 FilterSets <- MCFilterSets
 FilterNotes = {"C", "E"}
 FilterSlices <- MCFilterSlices
 MaxChanges = 4
 Tasks = {"load", "pages", "metadata", "session", "beat", "clips", "filter"}
INVARIANTS
 RequestsTypeOK
 ListedPathsLoad
 PagesAreWhole
 PagesFit
 HashIsContent
 HashProgress
 SessionAligned
 BeatKnown
 FilterFollowsNames
PROPERTIES
 InsertModeRestored
 InsertedWhereAsked
 ClipEditsAsAsked
\* The bounds stop every task.
CHECK_DEADLOCK FALSE
