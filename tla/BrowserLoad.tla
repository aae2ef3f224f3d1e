------------------------------ MODULE BrowserLoad ------------------------------
(* /live/browser/get/names and /live/browser/load.  Loading is a short program  *)
(* against Live: select the track, remember its insert mode, select the anchor,  *)
(* set the mode, load, restore the mode, look which device is new.  Every call   *)
(* into Live can raise.  Tracks and devices are counted from 0, as in the        *)
(* request; a chain of devices is the sequence of their names.                   *)
EXTENDS Integers, BrowserTree

CONSTANTS
    NoBrowser, \* a browser without roots: Live has none yet
    Browsers,  \* browsers that Live may show, with unique names among siblings
    KnownSets, \* what the scans of the disk may have found
    NoScan,    \* what is known before a scan
    Tracks,    \* the number of tracks
    Chains,    \* device chains a track may have
    Devices,   \* names of devices that a load may bring
    LoadRequests, \* loads that clients ask for
    Categories,   \* categories that clients list
    MaxLoads   \* bound: loads in a behaviour

\* A tree: the path of a child is that of its parent with its name, which no other
\* child of the parent has; a root has no name.
IsForest(b) ==
    /\ NoItem \notin b.items
    /\ b.named \subseteq b.items /\ b.loadable \subseteq b.items
    /\ b.root \in [DOMAIN b.root -> b.items]
    /\ b.kids \in [b.items -> Seq(b.items)]
    /\ b.path \in [b.items -> Seq([stem : STRING, ext : STRING, case : STRING])]
    /\ \A a \in DOMAIN b.root : b.path[b.root[a]] = <<>>
    /\ \A i \in b.items : \A k, l \in DOMAIN b.kids[i] :
          LET p == b.path[b.kids[i][k]]
          IN /\ p # <<>> /\ p = Append(b.path[i], Leaf(p))
             /\ p = b.path[b.kids[i][l]] => b.kids[i][k] = b.kids[i][l]

\* Below two roots, items of the same path of several parts can both be loaded, or
\* neither; a load by path turns to the first of them.
PathsTellLoadable(b) ==
    \A i \in b.named \cap b.loadable : \A j \in b.named :
        Len(b.path[i]) > 1 /\ b.path[i] = b.path[j] => j \in b.loadable

ASSUME BrowsersAreForests == \A b \in Browsers \cup {NoBrowser} : IsForest(b) /\ PathsTellLoadable(b)
ASSUME TracksNat == Tracks \in Nat
ASSUME ChainsAreSequences == Chains \subseteq Seq(Devices)
ASSUME LoadRequestsKnown ==
    \A r \in LoadRequests : r.mode \in {"none", "append", "before", "after", "bad"} /\ r.anchor \in Int
ASSUME MaxLoadsNat == MaxLoads \in Nat

VARIABLES
    browser, known, \* what Live offers, and the cached stems
    listing,        \* the category a client has listed, and the paths it was given
    devices, insertMode, \* of each track: its chain and view.device_insert_mode
    selectedDevice, \* the device that Live has selected on the selected track
    loadPc, load,   \* where the handler is, and the request it serves
    previous,       \* previous_insert_mode, None outside a positioned load
    sizeBefore,     \* device_count_before
    beforeNames,    \* before_names
    loadReply,      \* the answer to the last load
    modeBefore,     \* history: the insert modes when the load began
    chainBefore,    \* history: the chain of the track when the load began
    stuck,          \* history: Live has refused to restore an insert mode
    loads           \* loads so far

treeVars == <<browser, known, listing>>
liveVars == <<devices, insertMode, selectedDevice>>
localVars == <<previous, sizeBefore, beforeNames>>
historyVars == <<modeBefore, chainBefore, stuck>>
loadVars == <<treeVars, liveVars, localVars, historyVars, loadPc, load, loadReply, loads>>

TrackIds == 0 .. Tracks - 1
Modes == 0 .. 2
None == -1
NoListing == [category |-> "none", paths |-> <<>>]
NoReplyYet == [status |-> "none", index |-> None]

InsertModeValue(m) == CASE m = "append" -> 0 [] m = "before" -> 1 [] m = "after" -> 2
Positioned == load.mode # "none"
Beside == load.mode \in {"before", "after"}

Target == FindLoadable(browser, load.query, load.category, known)

Without(s, k) == SubSeq(s, 1, k - 1) \o SubSeq(s, k + 1, Len(s))

\* Mutant: a device that is new is taken to be the last.
LastIndex(before, after) == IF Len(after) > Len(before) THEN Len(after) - 1 ELSE None

\* _find_inserted_device_index: the first place whose removal gives the old chain.
InsertedIndex(before, after) ==
    LET places == {k \in 1 .. Len(after) : Without(after, k) = before}
    IN IF places = {} THEN None ELSE (CHOOSE k \in places : \A j \in places : k <= j) - 1

\* _device_names: a chain of which one name cannot be read is reported empty.
NamesRead(chain) == IF Positioned THEN {chain, <<>>} ELSE {<<>>}

LoadInit ==
    /\ browser = NoBrowser
    /\ known = NoScan
    /\ listing = NoListing
    /\ devices = [t \in TrackIds |-> <<>>]
    /\ insertMode = [t \in TrackIds |-> InsertModeValue("append")]
    /\ selectedDevice = None
    /\ loadPc = "idle"
    /\ load = [track |-> None, category |-> "none", query |-> <<>>, mode |-> "none", anchor |-> None]
    /\ previous = None
    /\ sizeBefore = None
    /\ beforeNames = <<>>
    /\ loadReply = NoReplyYet
    /\ modeBefore = insertMode
    /\ chainBefore = <<>>
    /\ stuck = FALSE
    /\ loads = 0

\* get_names: a client keeps what it is told.  Bound: before the first load.
List(category) ==
    /\ loadPc = "idle"
    /\ loads = 0
    /\ listing' = IF Offered(browser, category)
                  THEN [category |-> category, paths |-> Collected(browser, category, known)]
                  ELSE NoListing
    /\ UNCHANGED <<browser, known, liveVars, localVars, historyVars, loadPc, load, loadReply, loads>>

\* Live starts, or the user changes what it shows; what a client has listed is void.
\* The stems are scanned once and cached.  Bound: not after the first load.
Refresh ==
    /\ loadPc = "idle"
    /\ loads = 0
    /\ browser' \in Browsers
    /\ known' \in IF known = NoScan THEN KnownSets ELSE {known}
    /\ listing' = NoListing
    /\ UNCHANGED <<liveVars, localVars, historyVars, loadPc, load, loadReply, loads>>

\* The user edits a track.  Bound: before the first load, and not between listings.
Edit(t) ==
    /\ loadPc = "idle"
    /\ loads = 0
    /\ listing = NoListing
    /\ devices' \in {[devices EXCEPT ![t] = c] : c \in Chains}
    /\ insertMode' \in {[insertMode EXCEPT ![t] = m] : m \in Modes}
    /\ selectedDevice' = None
    /\ UNCHANGED <<treeVars, localVars, historyVars, loadPc, load, loadReply, loads>>

\* A client asks for a load, and is done with what it has listed.
Ask(r) ==
    /\ loadPc = "idle"
    /\ loads < MaxLoads
    /\ loads' = loads + 1
    /\ load' = r
    /\ loadPc' = "check"
    /\ previous' = None
    /\ sizeBefore' = None
    /\ beforeNames' = <<>>
    /\ modeBefore' = insertMode
    /\ chainBefore' = IF r.track \in TrackIds THEN devices[r.track] ELSE <<>>
    /\ stuck' = FALSE
    /\ loadReply' = NoReplyYet
    /\ listing' = NoListing
    /\ UNCHANGED <<browser, known, liveVars>>

Reply(status, index) ==
    /\ loadPc' = "idle"
    /\ loadReply' = [status |-> status, index |-> index]

Error == Reply("error", None)

Continue(pc) == loadPc' = pc /\ UNCHANGED loadReply

\* Everything that is refused before Live is touched.
Invalid ==
    \/ load.mode = "bad"
    \/ Beside /\ load.anchor < 0
    \/ ~Offered(browser, load.category)
    \/ Target = NoItem
    \/ Target \notin browser.loadable

Check ==
    /\ loadPc = "check"
    /\ IF Invalid THEN Error ELSE Continue("select")
    /\ UNCHANGED <<treeVars, liveVars, localVars, historyVars, load, loads>>

SelectTrack ==
    /\ loadPc = "select"
    /\ \/ Error /\ UNCHANGED selectedDevice
       \/ /\ load.track \in TrackIds
          /\ selectedDevice' = None
          /\ Continue(IF Positioned THEN "anchor" ELSE "load")
    /\ UNCHANGED <<treeVars, devices, insertMode, localVars, historyVars, load, loads>>

\* The mode is read first; an anchor that is refused leaves nothing to restore.
SelectAnchor ==
    /\ loadPc = "anchor"
    /\ previous' = insertMode[load.track]
    /\ \/ Error /\ UNCHANGED selectedDevice
       \/ /\ Beside => load.anchor < Len(devices[load.track])
          /\ selectedDevice' = IF Beside THEN load.anchor ELSE selectedDevice
          /\ Continue("mode")
    /\ UNCHANGED <<treeVars, devices, insertMode, sizeBefore, beforeNames, historyVars, load, loads>>

SetInsertMode ==
    /\ loadPc = "mode"
    /\ \/ Error /\ UNCHANGED insertMode
       \/ /\ insertMode' = [insertMode EXCEPT ![load.track] = InsertModeValue(load.mode)]
          /\ Continue("count")
    /\ UNCHANGED <<treeVars, devices, selectedDevice, localVars, historyVars, load, loads>>

\* What the track holds now is read, as far as it can be; presets change a device
\* and are not counted.
Count ==
    /\ loadPc = IF Positioned THEN "count" ELSE "load"
    /\ beforeNames' \in NamesRead(devices[load.track])
    /\ sizeBefore' \in IF load.category \in Presets THEN {None} ELSE {Len(devices[load.track]), None}
    /\ Continue("insert")
    /\ UNCHANGED <<treeVars, liveVars, previous, historyVars, load, loads>>

\* Where Live inserts, counted from 1: as the mode says, seen from the selected device.
Place(chain, m) ==
    CASE m = InsertModeValue("before") /\ selectedDevice # None -> selectedDevice + 1
      [] m = InsertModeValue("after") /\ selectedDevice # None -> selectedDevice + 2
      [] OTHER -> Len(chain) + 1

\* browser.load_item: Live inserts a device, replaces one, does nothing yet, or raises.
LoadItem ==
    /\ loadPc = "insert"
    /\ LET t == load.track
           chain == devices[t]
       IN \/ loadPc' = "raised" /\ UNCHANGED devices
          \/ loadPc' = "loaded" /\ UNCHANGED devices
          \/ /\ loadPc' = "loaded"
             /\ \E d \in Devices :
                   \/ devices' = [devices EXCEPT ![t] = InsertAt(chain, Place(chain, insertMode[t]), d)]
                   \/ \E k \in DOMAIN chain : devices' = [devices EXCEPT ![t][k] = d]
    /\ UNCHANGED <<treeVars, insertMode, selectedDevice, localVars, historyVars, load, loadReply, loads>>

\* Mutant: the mode is restored where the load is known to have succeeded.
RestoreOnSuccess ==
    /\ loadPc \in {"loaded", "raised"}
    /\ insertMode' = IF previous = None \/ loadPc = "raised" THEN insertMode ELSE [insertMode EXCEPT ![load.track] = previous]
    /\ IF loadPc = "raised" THEN Error ELSE Continue("report")
    /\ UNCHANGED <<treeVars, devices, selectedDevice, localVars, historyVars, load, loads>>

\* The finally of the load; Live may refuse, which is only logged.
Restore ==
    /\ loadPc \in {"loaded", "raised"}
    /\ \/ /\ insertMode' = IF previous = None THEN insertMode ELSE [insertMode EXCEPT ![load.track] = previous]
          /\ UNCHANGED stuck
       \/ /\ previous # None
          /\ stuck' = TRUE
          /\ UNCHANGED insertMode
    /\ IF loadPc = "raised" THEN Error ELSE Continue("report")
    /\ UNCHANGED <<treeVars, devices, selectedDevice, localVars, modeBefore, chainBefore, load, loads>>

\* A chain that has not grown is answered with a warning.
Report ==
    /\ loadPc = "report"
    /\ \E after \in NamesRead(devices[load.track]), size \in {Len(devices[load.track]), None} :
          LET index == IF Positioned /\ Len(after) > Len(beforeNames)
                       THEN InsertedIndex(beforeNames, after) ELSE None
          IN Reply(IF sizeBefore # None /\ size # None /\ size <= sizeBefore THEN "warning" ELSE "ok", index)
    /\ UNCHANGED <<treeVars, liveVars, localVars, historyVars, load, loads>>

LoadNext ==
    \/ Refresh
    \/ \E c \in Categories : List(c)
    \/ \E t \in TrackIds : Edit(t)
    \/ \E r \in LoadRequests : Ask(r)
    \/ Check
    \/ SelectTrack
    \/ SelectAnchor
    \/ SetInsertMode
    \/ Count
    \/ LoadItem
    \/ Restore
    \/ Report

LoadSpec == LoadInit /\ [][LoadNext]_loadVars

--------------------------------------------------------------------------------
LoadPcs == {"idle", "check", "select", "anchor", "mode", "count", "load", "insert",
            "loaded", "raised", "report"}

LoadTypeOK ==
    /\ browser \in Browsers \cup {NoBrowser}
    /\ known \in KnownSets \cup {NoScan}
    /\ devices \in [TrackIds -> Seq(Devices)]
    /\ insertMode \in [TrackIds -> Modes]
    /\ selectedDevice \in Nat \cup {None}
    /\ loadPc \in LoadPcs
    /\ load.track \in TrackIds \/ loadPc \in {"idle", "check", "select"}
    /\ previous \in Modes \cup {None}
    /\ sizeBefore \in Nat \cup {None}
    /\ beforeNames \in Seq(Devices)
    /\ modeBefore \in [TrackIds -> Modes]
    /\ stuck \in BOOLEAN
    /\ loads \in 0 .. MaxLoads

\* However a load ends, at whatever call Live raises, every track has the insert
\* mode that it had before the load; only Live refusing the restoring assignment
\* itself leaves another.
InsertModeRestored ==
    [][loadPc # "idle" /\ loadPc' = "idle" /\ ~stuck' => insertMode' = modeBefore]_loadVars

\* The index in an "ok" reply is that of the device that the load has brought:
\* without it the chain is the old one, and it stands where the request has asked,
\* up to neighbours of the same name, from which a name cannot tell it.  A chain
\* whose names could not be read before the load is taken for an empty one: the
\* property is about the others.
Asked == CASE load.mode = "before" -> load.anchor
           [] load.mode = "after" -> load.anchor + 1
           [] OTHER -> Len(chainBefore)

InsertedWhereAsked ==
    [][loadPc = "report" /\ loadReply'.status = "ok" /\ loadReply'.index # None /\ beforeNames = chainBefore
       => LET chain == devices'[load.track]
              i == loadReply'.index
          IN /\ i + 1 \in DOMAIN chain
             /\ Without(chain, i + 1) = chainBefore
             /\ chain[i + 1] = chain[Asked + 1]]_loadVars

\* Whatever a client has been told a category holds, it can load by the path it
\* was given: the search by path or by name, the filter and the roots agree with
\* the collection, and a path of several parts leads to the very item.
ListedPathsLoad ==
    \A k \in DOMAIN listing.paths :
        LET path == listing.paths[k]
            target == FindLoadable(browser, path, listing.category, known)
        IN /\ target # NoItem
           /\ target \in browser.loadable
           /\ IF Len(path) > 1 THEN browser.path[target] = path
              ELSE SameName(Leaf(browser.path[target]), path[1])
================================================================================
