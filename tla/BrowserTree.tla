------------------------------ MODULE BrowserTree ------------------------------
(* What browser.py finds in Live's browser.  A browser b has, for every        *)
(* attribute it offers, a root; below a root, items with children, some        *)
(* loadable, some folders, some whose name cannot be read.  An item is known    *)
(* by its path from the root, a sequence of names; a name is a stem with an     *)
(* extension, in lower case, and the case it is written in.  known.user and     *)
(* known.installed are the stems (MaxStem) of the Max for Live files that the   *)
(* two scans of the disk have found.                                            *)
EXTENDS Naturals, Sequences, SequencesExt

CONSTANT MaxDepth \* MAX_DEPTH

ASSUME MaxDepthNat == MaxDepth \in Nat

NoItem == 0

CategoryMap ==
    [instruments |-> "instruments", audio_effects |-> "audio_effects",
     midi_effects |-> "midi_effects", plugins |-> "plugins",
     instrument_racks |-> "user_library", drum_racks |-> "user_library",
     audio_effect_racks |-> "user_library", midi_effect_racks |-> "user_library",
     ableton_presets |-> "user_library", plugin_presets |-> "user_library",
     user_library_max_for_live |-> "max_for_live", max_for_live |-> "max_for_live"]

UserLibraryCategories ==
    {"instrument_racks", "drum_racks", "audio_effect_racks", "midi_effect_racks",
     "ableton_presets", "plugin_presets", "user_library_max_for_live"}

Presets == {"ableton_presets", "plugin_presets"}

\* The attributes a category is collected from, in this order; those that b has not
\* are passed over.
Attributes(category) ==
    CASE category = "user_library_max_for_live" -> <<"max_for_live", "user_library">>
      [] category = "max_for_live" -> <<"max_for_live", "audio_effects", "midi_effects", "instruments">>
      [] OTHER -> <<CategoryMap[category]>>

\* The category is one that get_names, search and load serve.
Offered(b, category) == category \in DOMAIN CategoryMap /\ CategoryMap[category] \in DOMAIN b.root

Leaf(path) == path[Len(path)]

\* Two names are equal but for the case they are written in.
SameName(m, n) == m.stem = n.stem /\ m.ext = n.ext

\* _max_for_live_stem: only the extension of a Max for Live device is taken off.
MaxStem(path) ==
    IF Leaf(path).ext \in {"", "amxd"} THEN <<Leaf(path).stem>>
    ELSE <<Leaf(path).stem, Leaf(path).ext>>

\* The racks are told by the first of these folders that the path goes through.
RackFolders ==
    <<[stem |-> "instrument rack", category |-> "instrument_racks"],
      [stem |-> "drum rack", category |-> "drum_racks"],
      [stem |-> "audio effect rack", category |-> "audio_effect_racks"],
      [stem |-> "midi effect rack", category |-> "midi_effect_racks"]>>

RackCategory(path) ==
    LET of == SelectSeq(RackFolders, LAMBDA f : \E i \in DOMAIN path : path[i].stem = f.stem /\ path[i].ext = "")
    IN IF of = <<>> THEN "none" ELSE of[1].category

CategoryForPath(path) ==
    CASE Leaf(path).ext = "adg" -> RackCategory(path)
      [] Leaf(path).ext = "adv" -> "ableton_presets"
      [] Leaf(path).ext \in {"vstpreset", "aupreset"} -> "plugin_presets"
      [] Leaf(path).ext = "amxd" -> "user_library_max_for_live"
      [] OTHER -> "none"

Matches(path, category, known) ==
    CASE category = "user_library_max_for_live" ->
            MaxStem(path) \in known.user \/ CategoryForPath(path) = category
      [] category = "max_for_live" -> MaxStem(path) \notin known.user
      [] category \in UserLibraryCategories -> CategoryForPath(path) = category
      [] OTHER -> TRUE

\* Effects and instruments count as Max for Live if such a device is installed.
AcceptedFrom(attr, path, category, known) ==
    category = "max_for_live" /\ attr # "max_for_live" => MaxStem(path) \in known.installed

\* The items below an item, itself excluded, in the order of a recursion that
\* enters folders and stops below MaxDepth.
Visited(b, item) ==
    LET below[at \in b.items \X (0 .. MaxDepth + 1)] ==
            IF at[2] > MaxDepth THEN <<>>
            ELSE FlattenSeq([k \in DOMAIN b.kids[at[1]] |->
                    LET kid == b.kids[at[1]][k] IN
                    IF kid \notin b.named THEN <<>>
                    ELSE <<kid>> \o (IF kid \in b.folder THEN below[<<kid, at[2] + 1>>] ELSE <<>>)])
    IN below[<<item, 0>>]

\* The items of a category.
Wanted(b, category, known) == {i \in b.loadable : Matches(b.path[i], category, known)}

Picked(items, good) == FlattenSeq([k \in DOMAIN items |-> IF items[k] \in good THEN <<items[k]>> ELSE <<>>])

\* _collect_loadable from the root of an attribute, and what is accepted of it.
Candidates(b, attr, category, known) ==
    IF attr \notin DOMAIN b.root THEN <<>>
    ELSE Picked(Visited(b, b.root[attr]),
                {i \in Wanted(b, category, known) : AcceptedFrom(attr, b.path[i], category, known)})

\* Max for Live devices are the same if their stems are, other items if their paths are.
SameItem(p, q, category) ==
    IF category \in {"user_library_max_for_live", "max_for_live"}
    THEN MaxStem(p) = MaxStem(q)
    ELSE p = q

\* _extend_unique: of paths that are the same, the first is kept.
Unique(paths, category) ==
    FlattenSeq([k \in DOMAIN paths |->
        IF \E j \in 1 .. k - 1 : SameItem(paths[j], paths[k], category) THEN <<>> ELSE <<paths[k]>>])

\* _collect_category_items: the paths that a category lists.
Collected(b, category, known) ==
    LET attrs == Attributes(category)
        found == FlattenSeq([k \in DOMAIN attrs |-> Candidates(b, attrs[k], category, known)])
    IN Unique([k \in DOMAIN found |-> b.path[found[k]]], category)

First(items, good) ==
    LET places == {k \in DOMAIN items : items[k] \in good}
    IN IF places = {} THEN NoItem ELSE items[Min(places)]

Called(b, name) == {i \in b.named : b.path[i] # <<>> /\ Leaf(b.path[i]) = name}

\* _find_by_path_with_path: at each level the first child of that name, at any depth.
FindByPath(b, root, path) ==
    LET at[k \in 0 .. Len(path)] ==
            IF k = 0 THEN root
            ELSE IF at[k - 1] = NoItem THEN NoItem
            ELSE First(b.kids[at[k - 1]], Called(b, path[k]))
    IN at[Len(path)]

\* _find_by_name_with_path: the first loadable item of that name, in any case,
\* and of that category.
FindByName(b, root, name, category, known) ==
    First(Visited(b, root), {i \in Wanted(b, category, known) : SameName(Leaf(b.path[i]), name)})

\* _find_loadable_in_root: a query with a slash is a path, any other a name.
FindInRoot(b, attr, query, category, known) ==
    LET target == IF Len(query) > 1
                  THEN FindByPath(b, b.root[attr], query)
                  ELSE FindByName(b, b.root[attr], query[1], category, known)
    IN IF target # NoItem /\ Matches(b.path[target], category, known) THEN target ELSE NoItem

\* Mutant: a category is looked for in one root, as it is named in the map.
FindInFirstRoot(b, query, category, known) ==
    FindInRoot(b, CategoryMap[category], query, category, known)

\* What the root of an attribute has, unless it is not accepted from there.
FindFrom(b, attr, query, category, known) ==
    IF attr \notin DOMAIN b.root THEN NoItem
    ELSE LET target == FindInRoot(b, attr, query, category, known)
         IN IF target # NoItem /\ AcceptedFrom(attr, b.path[target], category, known)
            THEN target ELSE NoItem

\* _find_loadable_for_browser_category: the first root that has it.
FindLoadable(b, query, category, known) ==
    LET attrs == Attributes(category)
    IN First([k \in DOMAIN attrs |-> FindFrom(b, attrs[k], query, category, known)], b.items)
================================================================================
