------------------------------ MODULE SessionReads ------------------------------
(* The replies of song.py that describe a whole session at once: session_info,    *)
(* playing_positions, track_names, track_data and the exported structure.  They    *)
(* are lists that a client reads side by side, by the number of the track.  A       *)
(* track has a group track or none, a playing slot or -1, slots with and without    *)
(* clips, devices, and possibly one property that raises.                          *)
EXTENDS Integers, Sequences, SequencesExt, FiniteSetsExt

CONSTANTS
    Sessions,  \* sequences of tracks
    Ranges,    \* (track_index_min, track_index_max) that clients ask for; <<>> for none
    Blocks     \* sequences of properties that clients ask for with track_data

Track == [group : Int, slot : Int, clips : Seq(BOOLEAN), devices : Nat, raises : STRING]

ASSUME SessionsAssumption ==
    /\ Sessions \subseteq Seq(Track)
    /\ \A range \in Ranges : range = <<>> \/ range \in Int \X Int

VARIABLES
    session,     \* the tracks
    info,        \* session_info: a list for each field
    positions,   \* playing_positions: the keys
    names,       \* track_names: the range and the list
    trackData,   \* track_data: the range, the block and the list
    exported     \* abletonosc-song-structure.json

sessionVars == <<session, info, positions, names, trackData, exported>>

NoSession == <<>>
NoTrack == -1
InfoFields == <<"name", "color", "midi", "foldable", "group", "mute", "slot">>
FieldSet == ToSet(InfoFields)
FieldPlace(f) == CHOOSE i \in DOMAIN InfoFields : InfoFields[i] = f

NoInfo == [f \in FieldSet |-> <<>>]
NoList == [ok |-> FALSE, range |-> <<>>, list |-> <<>>]

Cell(t, value) == [of |-> t, value |-> value]

Raises(t, f) == session[t].raises = f
Placeholder(f) == IF f \in {"group", "slot"} THEN NoTrack ELSE 0

\* Whether a track is foldable, and its group, are read in a try of their own.
Guarded == {"foldable", "group"}
Unguarded == FieldSet \ Guarded

FieldValue(t, f) ==
    CASE Raises(t, f) -> Placeholder(f)
      [] f = "group" -> session[t].group
      [] f = "slot" -> session[t].slot
      [] OTHER -> 1

\* Mutant: a track that raises is left out where it had got to.
CellsDropped(t, f) ==
    IF session[t].raises \in Unguarded /\ FieldPlace(session[t].raises) <= FieldPlace(f)
    THEN <<>> ELSE <<Cell(t, FieldValue(t, f))>>

\* A track that raises adds a placeholder to every list, also to those it had reached.
Cells(t, f) ==
    IF session[t].raises \notin Unguarded THEN <<Cell(t, FieldValue(t, f))>>
    ELSE IF FieldPlace(f) < FieldPlace(session[t].raises) THEN <<Cell(t, FieldValue(t, f)), Cell(t, Placeholder(f))>>
    ELSE <<Cell(t, Placeholder(f))>>

SessionInfo == [f \in FieldSet |-> FlattenSeq([t \in DOMAIN session |-> Cells(t, f)])]

\* Keys "track,slot", from 0, of the playing slots with a clip; what raises is left out.
PlayingPositions ==
    {<<t - 1, session[t].slot>> : t \in {u \in DOMAIN session :
        /\ ~Raises(u, "slot") /\ ~Raises(u, "position")
        /\ session[u].slot >= 0
        /\ session[u].slot < Len(session[u].clips)
        /\ session[u].clips[session[u].slot + 1]}}

\* The positions in a sequence that Python means by the indices min .. max - 1.
PythonRange(min, max) == [k \in 1 .. Max({0, max - min}) |-> min + k - 1]
InRange(i) == i \in -Len(session) .. Len(session) - 1
PythonItem(i) == IF i >= 0 THEN i + 1 ELSE Len(session) + i + 1

UpTo(range) == IF range[2] = -1 THEN Len(session) ELSE range[2]

TracksOf(range) ==
    IF range = <<>> THEN [t \in DOMAIN session |-> t]
    ELSE LET indices == PythonRange(range[1], UpTo(range))
         IN [k \in DOMAIN indices |-> PythonItem(indices[k])]

\* An index out of range, or a name that raises, is an error in place of the reply.
Answerable(range) ==
    range # <<>> => \A k \in DOMAIN PythonRange(range[1], UpTo(range)) : InRange(PythonRange(range[1], UpTo(range))[k])

TrackNames(range) ==
    IF Answerable(range) /\ \A t \in ToSet(TracksOf(range)) : ~Raises(t, "name")
    THEN [ok |-> TRUE, range |-> range, list |-> TracksOf(range)]
    ELSE [NoList EXCEPT !.range = range]

\* What one property of a block adds to the list of a track: one value for the track,
\* one for each slot or device; group tracks are told by their index.
BlockValues(t, p) ==
    CASE p \in {"track.name", "track.num_devices"} -> <<Cell(t, 1)>>
      [] p = "track.group_track" -> <<Cell(t, session[t].group)>>
      [] p \in {"clip.name", "clip_slot.has_clip"} ->
            [s \in DOMAIN session[t].clips |-> Cell(t, IF session[t].clips[s] THEN 1 ELSE 0)]
      [] p = "device.name" -> [d \in 1 .. session[t].devices |-> Cell(t, 1)]
      [] OTHER -> <<>>

TrackData(range, block) ==
    IF Answerable(range) /\ (\A t \in ToSet(TracksOf(range)) :
                               /\ "track.name" \in ToSet(block) => ~Raises(t, "name")
                               /\ "track.group_track" \in ToSet(block) => ~Raises(t, "group"))
    THEN [ok |-> TRUE, range |-> range, block |-> block,
          list |-> FlattenSeq([k \in DOMAIN TracksOf(range) |->
                       FlattenSeq([p \in DOMAIN block |-> BlockValues(TracksOf(range)[k], block[p])])])]
    ELSE [ok |-> FALSE, range |-> range, block |-> block, list |-> <<>>]

\* The indices, from 0, of the slots with a clip.
Filled(clips) == SelectSeq([s \in DOMAIN clips |-> s - 1], LAMBDA s : clips[s + 1])

\* song_export_structure: the whole structure is built before the file is opened, so
\* a property that raises leaves the file that was there.
Structure ==
    [t \in DOMAIN session |->
        [index |-> t - 1, group |-> session[t].group, clips |-> Filled(session[t].clips)]]

SessionInit ==
    /\ session = NoSession
    /\ info = NoInfo
    /\ positions = {}
    /\ names = NoList
    /\ trackData = [ok |-> FALSE, range |-> <<>>, block |-> <<>>, list |-> <<>>]
    /\ exported = <<>>

\* The user opens a set; it stays as it is while it is read.
OpenSet ==
    /\ session = NoSession
    /\ session' \in Sessions
    /\ UNCHANGED <<info, positions, names, trackData, exported>>

GetSessionInfo ==
    /\ info' = SessionInfo
    /\ UNCHANGED <<session, positions, names, trackData, exported>>

GetPlayingPositions ==
    /\ positions' = PlayingPositions
    /\ UNCHANGED <<session, info, names, trackData, exported>>

GetTrackNames(range) ==
    /\ names' = TrackNames(range)
    /\ UNCHANGED <<session, info, positions, trackData, exported>>

GetTrackData(range, block) ==
    /\ trackData' = TrackData(range, block)
    /\ UNCHANGED <<session, info, positions, names, exported>>

ExportStructure ==
    /\ exported' = IF \E t \in DOMAIN session : session[t].raises \in {"name"} \cup Guarded THEN exported ELSE Structure
    /\ UNCHANGED <<session, info, positions, names, trackData>>

SessionNext ==
    \/ OpenSet
    \/ GetSessionInfo
    \/ GetPlayingPositions
    \/ \E range \in Ranges : GetTrackNames(range)
    \/ \E range \in Ranges \ {<<>>}, block \in Blocks : GetTrackData(range, block)
    \/ ExportStructure

SessionSpec == SessionInit /\ [][SessionNext]_sessionVars

--------------------------------------------------------------------------------
\* Tracks that raise after their name was read; their names stay in the list.
Late == {t \in DOMAIN session : session[t].raises \in Unguarded \ {"name"}}
Before(t) == \A u \in 1 .. t - 1 : u \notin Late
Sound(t) == Before(t) /\ session[t].raises = "none"

\* Up to the first track that raises after its name, every list of session_info has
\* at a place what it says of the track at that place, or a placeholder for it, and
\* agrees with the other replies: with the playing positions, with the group tracks
\* in track_data and in the exported structure.  A track that raises at once shifts
\* nothing; one that raises later shifts the lists it had reached, for the tracks
\* behind it.
SessionAligned ==
    info # NoInfo =>
        /\ \A f \in FieldSet : \A t \in DOMAIN session : Before(t) => t \in DOMAIN info[f] /\ info[f][t].of = t
        /\ Late = {} => \A f \in FieldSet : Len(info[f]) = Len(session)
        /\ \A p \in positions : Sound(p[1] + 1) => info["slot"][p[1] + 1].value = p[2]
        /\ exported # <<>> => \A t \in DOMAIN session : Sound(t) => info["group"][t].value = exported[t].group
        /\ trackData.block = <<"track.group_track">> =>
              \A k \in DOMAIN trackData.list :
                  LET cell == trackData.list[k] IN Sound(cell.of) => info["group"][cell.of].value = cell.value
================================================================================
