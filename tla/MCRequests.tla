------------------------------ MODULE MCRequests ------------------------------
EXTENDS Requests

N(stem, ext) == [stem |-> stem, ext |-> ext, case |-> "lower"]
F(stem) == N(stem, "")
Capital(stem) == [F(stem) EXCEPT !.case = "capital"]

\* An entry of a tree: below which root, at which path, and what it is.
Folder(at, path) == [at |-> at, path |-> path, loadable |-> FALSE, folder |-> TRUE]
Item(at, path) == [at |-> at, path |-> path, loadable |-> TRUE, folder |-> FALSE]
Nest(at, path) == [at |-> at, path |-> path, loadable |-> TRUE, folder |-> TRUE]

\* A browser of these entries; the roots are the items after them.
Tree(attrs, entries, unnamed) ==
    LET n == Len(entries)
        items == 1 .. n + Len(attrs)
        At(i) == IF i <= n THEN entries[i].at ELSE attrs[i - n]
        Path(i) == IF i <= n THEN entries[i].path ELSE <<>>
    IN [root |-> [a \in {attrs[k] : k \in DOMAIN attrs} |-> n + (CHOOSE k \in DOMAIN attrs : attrs[k] = a)],
        items |-> items,
        kids |-> [i \in items |-> SelectSeq([k \in 1 .. n |-> k],
                     LAMBDA k : At(k) = At(i) /\ Len(Path(k)) = Len(Path(i)) + 1
                                /\ SubSeq(Path(k), 1, Len(Path(i))) = Path(i))],
        path |-> [i \in items |-> Path(i)],
        named |-> items \ unnamed,
        loadable |-> {i \in 1 .. n : entries[i].loadable},
        folder |-> {i \in 1 .. n : entries[i].folder} \cup n + 1 .. n + Len(attrs)]

MCNoBrowser == Tree(<<>>, <<>>, {})

Fx == "audio_effects"
Ul == "user_library"
Mx == "max_for_live"
In == "instruments"
Lfo == N("lfo", "amxd")
Rack == F("audio effect rack")

MCBrowsers ==
    {Tree(<<Fx, Ul, Mx, In>>,
           <<Folder(Fx, <<F("space")>>), Nest(Fx, <<F("space"), F("echo")>>),
             Item(Fx, <<F("space"), F("echo"), N("long", "adv")>>), Item(Fx, <<F("echo")>>),
             Item(Fx, <<F("lfo")>>), Item(In, <<F("shaper")>>),
             Item(In, <<Capital("shaper")>>),
             Folder(Ul, <<Rack>>), Item(Ul, <<Rack, N("wide", "adg")>>),
             Folder(Ul, <<Rack, F("drum rack")>>), Item(Ul, <<Rack, F("drum rack"), N("kit", "adg")>>),
             Folder(Ul, <<F("mine")>>), Item(Ul, <<F("mine"), Lfo>>), Item(Ul, <<F("mine"), N("wide", "adg")>>),
             Folder(Mx, <<F("mine")>>), Item(Mx, <<F("mine"), N("tool", "amxd")>>), Item(Mx, <<N("shaper", "amxd")>>)>>, {}),
     Tree(<<Mx, Fx, Ul>>,
           <<Folder(Fx, <<F("a")>>), Folder(Fx, <<F("a"), F("b")>>), Folder(Fx, <<F("a"), F("b"), F("c")>>),
             Item(Fx, <<F("a"), F("b"), F("c"), F("deep")>>), Item(Fx, <<F("a"), F("b"), F("low")>>),
             Item(Fx, <<F("hidden")>>), Folder(Mx, <<F("hidden")>>), Item(Ul, <<Lfo>>),
             Item(Ul, <<N("echo", "adv")>>), Item(Ul, <<N("synth", "vstpreset")>>)>>, {6})}

MCNoScan == [user |-> {}, installed |-> {}]
MCKnownSets == {[user |-> {<<"lfo">>}, installed |-> {<<"lfo">>, <<"shaper">>}], [user |-> {<<"shaper">>}, installed |-> {}]}
MCCategories == DOMAIN CategoryMap \cup {"unknown"}
MCDevices == {"echo", "lfo"}
MCChains == {<<>>, <<"echo">>, <<"echo", "lfo">>, <<"lfo", "lfo">>}
Load(track, category, query, mode, anchor) ==
    [track |-> track, category |-> category, query |-> query, mode |-> mode, anchor |-> anchor]
MCLoadRequests ==
    {Load(0, Fx, <<F("echo")>>, m, -1) : m \in {"none", "append", "before", "bad"}}
    \cup {Load(0, Fx, <<F("echo")>>, m, a) : m \in {"before", "after"}, a \in {0, 1}}
    \cup {Load(0, "ableton_presets", <<N("echo", "adv")>>, m, 0) : m \in {"none", "append", "after"}}
    \cup {Load(5, Fx, <<F("echo")>>, "append", -1), Load(0, Fx, <<F("a"), F("b")>>, "append", -1)}
--------------------------------------------------------------------------------
MCGrids == {<< <<3, 3>>, <<0, 3>> >>, << <<9, -1, 3>>, <<>>, <<4, 2>> >>, << <<1, 2, 3>>, <<2, 2, 2>>, <<8>> >>, << <<-1>> >>}
MCScenes == {0, 2, 3}
MCNoteLists == {<<0, 60, 127>>, <<0, 1, 2, 3, 127>>, <<127>>, <<3, 4>>}
MCSpans == {2, 128}
MCCostLists == {<<3, 3, 3, 3>>, <<9>>, <<2, 9, 1>>, <<8>>, <<4, 3, 1>>}

MCFirstSizes == <<2, 2>>
MCSizes == {2, 3}
MCStemOf == <<"x", "x", "x", "y", "z">>
MCListings == {[paths |-> <<1, 2, 4>>, stems |-> FALSE], [paths |-> <<4, 3, 5, 1>>, stems |-> TRUE]}
MCItemBytes == [s \in {"file_backed", "hash_only"} |-> 2] @@ [s \in {"ambiguous_file_match", "stale_missing_file", "path_only"} |-> 1]
MCLimits == {0, 9}

--------------------------------------------------------------------------------
T(g, s, c, d, r) == [group |-> g, slot |-> s, clips |-> c, devices |-> d, raises |-> r]
MCSessions ==
    {<<T(-1, 0, <<TRUE, FALSE>>, 1, "none"), T(0, 1, <<FALSE, TRUE>>, 2, r), T(0, 1, <<FALSE, TRUE>>, 0, "none")>> :
        r \in {"none", "name", "color", "mute", "slot", "position", "group", "foldable"}}
MCRanges == {<<>>, <<0, -1>>, <<1, 3>>, <<-1, 2>>, <<2, 5>>}
MCBlocks == {<<"track.group_track">>, <<"track.name", "clip.name", "track.num_devices", "device.name">>, <<"song.name", "clip_slot.has_clip">>}

MCTrackArgs == {-1, 1}
MCClipArgs == {0, 1}
MCPitches == {60, 127}
MCNoteCounts == {0, 2, 6}
MCTimes == {0, 2, 4, 6}
MCWindows == {<<>>, <<60, 2>>}

Slot(n) == [clip |-> TRUE, notes |-> n, raises |-> FALSE]
MCFilterSets ==
    {<< <<Slot({"C", "E"}), NoClip>>, <<Slot({}), Slot({"E"})>> >>,
     << <<Slot({"C"}), Slot({"C", "E"})>> >>,
     << <<Slot({"E"}), Slot({"C"})>>, <<Slot({}), [Slot({}) EXCEPT !.raises = TRUE]>>, <<Slot({"E"}), NoClip>> >>}
MCFilterSlices == {<<>>, <<1, 2>>, <<-1, 5>>}
================================================================================
