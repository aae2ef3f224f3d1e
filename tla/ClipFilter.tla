------------------------------- MODULE ClipFilter -------------------------------
(* /live/clips/filter mutes every clip whose name ends in notes that are not all   *)
(* asked for.  The notes of the names are read once, into a cache by track and      *)
(* slot, and the cache is never emptied; the set goes on changing.  A slot is        *)
(* NoClip, or a clip with the notes of its name; reading a name can raise.           *)
EXTENDS Integers, Sequences, SequencesExt, FiniteSetsExt

CONSTANTS
    FilterSets,  \* sequences of tracks, which are sequences of slots
    FilterNotes, \* notes in names, and that clients ask for
    FilterSlices, \* (track_start, track_end) of unfilter requests; <<>> for none
    MaxChanges   \* bound: edits and requests

NoClip == [clip |-> FALSE, notes |-> {}, raises |-> FALSE]

\* A name that cannot be read, because there is no clip or it raises, has no notes.
Slots ==
    {slot \in [clip : BOOLEAN, notes : SUBSET FilterNotes, raises : BOOLEAN] :
        slot.notes # {} => slot.clip /\ ~slot.raises}

ASSUME FilterSetsAssumption == FilterSets \subseteq Seq(Seq(Slots))

VARIABLES
    slots,      \* the set
    muted,      \* the slots whose clips are muted, as <<track, slot>>
    notesCache, \* _clip_notes_cache
    filtered,   \* the last filter: the notes it asked for, and whether it came to its end
    untouched,  \* history: the set is as it was when the cache was built
    changes

filterVars == <<slots, muted, notesCache, filtered, untouched, changes>>

FilterInit ==
    /\ slots = <<>>
    /\ muted = {}
    /\ notesCache = <<>>
    /\ filtered = [notes |-> {}, done |-> FALSE]
    /\ untouched = FALSE
    /\ changes = 0

Positions(s) == UNION {{<<t, k>> : k \in DOMAIN s[t]} : t \in DOMAIN s}
Earlier(p, q) == p[1] < q[1] \/ (p[1] = q[1] /\ p[2] < q[2])

\* _build_clip_name_cache: what was built before a name raised stays.
Built(s) ==
    LET bad == {p \in Positions(s) : s[p[1]][p[2]].raises}
        Reached(p) == \A q \in bad : ~Earlier(q, p)
        tracks == IF bad = {} THEN Len(s) ELSE CHOOSE t \in DOMAIN s : \E p \in bad : p[1] = t /\ Reached(p)
    IN [t \in 1 .. tracks |->
          LET upTo == Max({0} \cup {k \in DOMAIN s[t] : Reached(<<t, k>>)})
          IN [k \in 1 .. upTo |-> IF s[t][k].raises THEN {} ELSE s[t][k].notes]]

BuildRaises(s) == \E p \in Positions(s) : s[p[1]][p[2]].raises

\* The cache has no entry for a slot, or notes for a slot that has lost its clip.
Stumbles(cache_, p) ==
    \/ p[1] > Len(cache_) \/ p[2] > Len(cache_[p[1]])
    \/ cache_[p[1]][p[2]] # {} /\ ~slots[p[1]][p[2]].clip

\* Mutant: one note in common is enough.
MutedAny(clipNotes, asked) == clipNotes \cap asked = {}

MutedFor(clipNotes, asked) == ~(clipNotes \subseteq asked)

\* The slots are taken in order, up to one at which the filter stumbles.
Filter(asked) ==
    /\ changes < MaxChanges
    /\ changes' = changes + 1
    /\ notesCache' = IF notesCache = <<>> THEN Built(slots) ELSE notesCache
    /\ untouched' = IF notesCache = <<>> THEN TRUE ELSE untouched
    /\ IF notesCache = <<>> /\ BuildRaises(slots)
       THEN /\ filtered' = [notes |-> asked, done |-> FALSE]
            /\ UNCHANGED muted
       ELSE LET bad == {p \in Positions(slots) : Stumbles(notesCache', p)}
                passed == {p \in Positions(slots) : \A q \in bad : Earlier(p, q)}
                named == {p \in passed : notesCache'[p[1]][p[2]] # {}}
                off == {p \in named : MutedFor(notesCache'[p[1]][p[2]], asked)}
            IN /\ muted' = (muted \ named) \cup off
               /\ filtered' = [notes |-> asked, done |-> bad = {}]
    /\ UNCHANGED slots

\* Python's tracks[start:end].
Bound(i) == IF i >= 0 THEN Min({i, Len(slots)}) ELSE Max({0, Len(slots) + i})

Unfilter(slice) ==
    /\ changes < MaxChanges
    /\ changes' = changes + 1
    /\ muted' = IF slice = <<>> THEN {} ELSE {p \in muted : p[1] \notin Bound(slice[1]) + 1 .. Bound(slice[2])}
    /\ filtered' = [notes |-> {}, done |-> FALSE]
    /\ UNCHANGED <<slots, notesCache, untouched>>

\* The user edits the set; new clips are not muted.
Rearrange ==
    /\ changes < MaxChanges
    /\ changes' = changes + 1
    /\ slots' \in FilterSets
    /\ muted' \in SUBSET {p \in Positions(slots') : slots'[p[1]][p[2]].clip}
    /\ untouched' = FALSE
    /\ filtered' = [notes |-> {}, done |-> FALSE]
    /\ UNCHANGED notesCache

FilterNext ==
    \/ \E asked \in SUBSET FilterNotes : Filter(asked)
    \/ \E slice \in FilterSlices : Unfilter(slice)
    \/ Rearrange

FilterSpec == FilterInit /\ [][FilterNext]_filterVars

--------------------------------------------------------------------------------
\* As long as nobody has edited the set since the cache was built, a filter comes to
\* its end, unless building the cache was cut short, and then the clips that are
\* muted, of those with notes in their names, are those with a note not asked for.
FilterFollowsNames ==
    /\ filtered.done /\ untouched =>
          \A p \in Positions(slots) :
              LET notes_ == slots[p[1]][p[2]].notes
              IN notes_ # {} => (p \in muted <=> ~(notes_ \subseteq filtered.notes))
    /\ untouched /\ slots # <<>> /\ ~BuildRaises(slots) => \A p \in Positions(slots) : ~Stumbles(notesCache, p)
================================================================================
