------------------------------- MODULE ClipEdits -------------------------------
(* Edits of clips: notes, loop and envelopes, and the arrangement clips of a track, *)
(* which requests name by their place in the list.  A request is carried out in      *)
(* one callback, but in several calls into Live, each of which can be refused.       *)
(* Tracks, clips and pages are counted from 0, as in the requests; times are whole    *)
(* numbers.                                                                           *)
EXTENDS Integers, Sequences, SequencesExt, FiniteSetsExt

CONSTANTS
    TrackCount, \* the number of tracks
    TrackArgs,  \* track indices in requests
    ClipArgs,   \* clip indices in requests
    Pitches,    \* pitches of notes that clients send
    NoteCounts, \* how many notes a client sends at once
    Cut,        \* how many values a request may lack at its end
    Times,      \* loop positions
    Windows,    \* (pitch_start, pitch_span) of a removal; <<>> for none
    CCs,        \* controllers that requests name
    CCParams,   \* those that have a parameter
    MaxPoints,  \* bound: points in a request
    MaxClips,   \* bound: clips on a track
    MaxOps      \* bound: requests

ASSUME TrackCountPositive == TrackCount \in Nat \ {0}
ASSUME TimesAreNumbers == Times \subseteq Int
ASSUME RequestsAreNumbers ==
    /\ TrackArgs \subseteq Int /\ ClipArgs \subseteq Int /\ Pitches \subseteq Int
    /\ NoteCounts \subseteq Nat /\ Cut \in Nat /\ MaxPoints \in Nat /\ MaxOps \in Nat

VARIABLES
    arrangement, \* arrangement_clips of each track
    envelopes,   \* the points of each controller of one clip
    lastOp,      \* the last request, and its answer
    ops

clipVars == <<arrangement, envelopes, lastOp, ops>>

NewClip(start, length) ==
    [notes |-> <<>>, loopStart |-> start, loopEnd |-> start + length, looping |-> FALSE]

NoOp == [op |-> "none", ok |-> TRUE, reply |-> 0, args |-> <<>>, clip |-> <<>>]

ClipInit ==
    /\ arrangement = [t \in 1 .. TrackCount |-> <<>>]
    /\ envelopes = [cc \in CCs |-> {}]
    /\ lastOp = NoOp
    /\ ops = 0

Done(op, ok, reply, args, clip) ==
    lastOp' = [op |-> op, ok |-> ok, reply |-> reply, args |-> args, clip |-> clip]

\* song.tracks[i], and no such track.
PythonIndex(i) == IF i >= 0 THEN i + 1 ELSE TrackCount + i + 1
HasTrack(i) == i \in -TrackCount .. TrackCount - 1

\* create_arrangement_clip_callback finds the clip, or answers nothing.
Named(i, c) == HasTrack(i) /\ c \in 0 .. Len(arrangement[PythonIndex(i)]) - 1
ClipAt(i, c) == arrangement[PythonIndex(i)][c + 1]
PutClip(i, c, clip) == arrangement' = [arrangement EXCEPT ![PythonIndex(i)][c + 1] = clip]

CountOp == ops < MaxOps /\ ops' = ops + 1

\* A note on the wire: its pitch, then four or five values, told apart by their place.
Wire(pitch, fields) == [k \in 1 .. fields |-> IF k = 1 THEN pitch ELSE 1000 * k + pitch]
DefaultProbability == 1000
Malformed == -1

\* Mutant: six values a note whenever there are six values.
StepGreedy(n) == IF n >= 6 THEN 6 ELSE 5

\* How many values make a note, told from how many there are.
Step(n) == IF n >= 6 /\ n % 6 = 0 THEN 6 ELSE 5

Chunks(values) ==
    [k \in 1 .. (Len(values) + Step(Len(values)) - 1) \div Step(Len(values)) |->
        SubSeq(values, (k - 1) * Step(Len(values)) + 1, Min({k * Step(Len(values)), Len(values)}))]

\* The note that Live is given: without a sixth value, the default probability.
Specification(chunk) == IF Len(chunk) = 6 THEN chunk ELSE Append(chunk, DefaultProbability)

\* add_notes: a last note without all its values ends the request before Live is
\* called; Live takes all notes or refuses them.
AddNotes(i, c, pitches, fields, cut) ==
    /\ CountOp
    /\ Named(i, c)
    /\ LET whole == FlattenSeq([k \in DOMAIN pitches |-> Wire(pitches[k], fields)])
           values == SubSeq(whole, 1, Max({0, Len(whole) - cut}))
           specs == [k \in DOMAIN Chunks(values) |-> Specification(Chunks(values)[k])]
           args == [pitches |-> pitches, fields |-> fields, cut |-> cut]
       IN IF \E k \in DOMAIN Chunks(values) : Len(Chunks(values)[k]) < 5
          THEN Done("add", FALSE, Malformed, args, ClipAt(i, c)) /\ UNCHANGED arrangement
          ELSE \/ /\ PutClip(i, c, [ClipAt(i, c) EXCEPT !.notes = @ \o specs])
                  /\ Done("add", TRUE, Len(specs), args, ClipAt(i, c))
               \/ /\ specs # <<>>
                  /\ Done("add", FALSE, 0, args, ClipAt(i, c))
                  /\ UNCHANGED arrangement
    /\ UNCHANGED envelopes

\* remove_notes; without a window, the pitches 0 to 126.
RemoveNotes(i, c, window_) ==
    /\ CountOp
    /\ Named(i, c)
    /\ LET from == IF window_ = <<>> THEN 0 ELSE window_[1]
           span == IF window_ = <<>> THEN 127 ELSE window_[2]
           list == ClipAt(i, c).notes
           Kept(n) == IF n[1] \in from .. from + span - 1 THEN <<>> ELSE <<n>>
       IN PutClip(i, c, [ClipAt(i, c) EXCEPT !.notes = FlattenSeq([k \in DOMAIN list |-> Kept(list[k])])])
    /\ Done("remove", TRUE, 0, window_, ClipAt(i, c))
    /\ UNCHANGED envelopes

\* Live refuses to write a loop end that is not behind the loop start, and the reverse.
SetStart(clip, t) == IF t < clip.loopEnd THEN [ok |-> TRUE, clip |-> [clip EXCEPT !.loopStart = t]]
                                         ELSE [ok |-> FALSE, clip |-> clip]
SetEnd(clip, t) == IF t > clip.loopStart THEN [ok |-> TRUE, clip |-> [clip EXCEPT !.loopEnd = t]]
                                         ELSE [ok |-> FALSE, clip |-> clip]

\* Mutant: the end is always written first.
EndFirstAlways(clip, end) == TRUE

EndFirst(clip, end) == end > clip.loopStart

\* The two writes of set_loop; the one that is refused ends the request where it is.
LoopWritten(clip, start, end) ==
    IF EndFirst(clip, end)
    THEN LET first == SetEnd(clip, end) IN IF first.ok THEN SetStart(first.clip, start) ELSE first
    ELSE LET first == SetStart(clip, start) IN IF first.ok THEN SetEnd(first.clip, end) ELSE first

SetLoop(i, c, looping, start, end) ==
    /\ CountOp
    /\ Named(i, c)
    /\ LET written == LoopWritten(ClipAt(i, c), start, end)
       IN /\ PutClip(i, c, IF written.ok THEN [written.clip EXCEPT !.looping = looping] ELSE written.clip)
          /\ Done("loop", written.ok, 0, [looping |-> looping, start |-> start, end |-> end], ClipAt(i, c))
    /\ UNCHANGED envelopes

\* arrangement_clip_create; Live keeps the clips of a track in the order of time.
CreateClip(i, start, length) ==
    /\ CountOp
    /\ IF HasTrack(i)
       THEN /\ Len(arrangement[PythonIndex(i)]) < MaxClips
            /\ \E k \in 1 .. Len(arrangement[PythonIndex(i)]) + 1 :
                  arrangement' = [arrangement EXCEPT ![PythonIndex(i)] = InsertAt(@, k, NewClip(start, length))]
            /\ Done("create", TRUE, 0, <<i>>, <<>>)
       ELSE Done("create", FALSE, 0, <<i>>, <<>>) /\ UNCHANGED arrangement
    /\ UNCHANGED envelopes

\* arrangement_clip_delete: a place without a clip is passed over in silence.
DeleteClip(i, c) ==
    /\ CountOp
    /\ IF Named(i, c)
       THEN arrangement' = [arrangement EXCEPT ![PythonIndex(i)] = RemoveAt(@, c + 1)]
       ELSE UNCHANGED arrangement
    /\ Done("delete", HasTrack(i), 0, <<i, c>>, <<>>)
    /\ UNCHANGED envelopes

\* The handlers of a clip that is not there do nothing.
NoSuchClip(i, c) ==
    /\ CountOp
    /\ ~Named(i, c)
    /\ Done("clip", HasTrack(i), 0, <<i, c>>, <<>>)
    /\ UNCHANGED <<arrangement, envelopes>>

\* set_envelope: the old points go, unless Live refuses, then each point is written
\* as far as Live takes it; -1 tells that there is no parameter or no envelope.  A
\* value that is no number (the one at bad) raises when those before it are written.
SetEnvelope(cc, points) ==
    /\ CountOp
    /\ IF cc \notin CCParams
       THEN Done("envelope", FALSE, -1, points, <<>>) /\ UNCHANGED envelopes
       ELSE \E kept \in {{}, envelopes[cc]} :
               \/ /\ envelopes' = [envelopes EXCEPT ![cc] = kept]
                  /\ Done("envelope", FALSE, -1, points, <<>>)
               \/ \E taken \in SUBSET DOMAIN points :
                     /\ envelopes' = [envelopes EXCEPT ![cc] = kept \cup {points[k] : k \in taken}]
                     /\ Done("envelope", TRUE, Cardinality(taken), points, <<>>)
               \/ \E bad \in DOMAIN points : \E taken \in SUBSET (1 .. bad - 1) :
                     /\ envelopes' = [envelopes EXCEPT ![cc] = kept \cup {points[k] : k \in taken}]
                     /\ Done("envelope", FALSE, Malformed, points, <<>>)
    /\ UNCHANGED arrangement

\* clear_envelope.
ClearEnvelope(cc) ==
    /\ CountOp
    /\ \/ /\ cc \in CCParams
          /\ envelopes' = [envelopes EXCEPT ![cc] = {}]
          /\ Done("clear", TRUE, 1, <<cc>>, <<>>)
       \/ /\ Done("clear", FALSE, -1, <<cc>>, <<>>)
          /\ UNCHANGED envelopes
    /\ UNCHANGED arrangement

Repeated(p, n) == [k \in 1 .. n |-> p]

ClipNext ==
    \/ \E i \in TrackArgs, start, length \in Times : length > 0 /\ CreateClip(i, start, length)
    \/ \E cc \in CCs :
        \/ ClearEnvelope(cc)
        \/ \E n \in 1 .. MaxPoints : SetEnvelope(cc, [k \in 1 .. n |-> <<k, ops>>])
    \/ \E i \in TrackArgs, c \in ClipArgs :
        \/ DeleteClip(i, c)
        \/ NoSuchClip(i, c)
        \/ \E window_ \in Windows : RemoveNotes(i, c, window_)
        \/ \E looping \in BOOLEAN, start, end \in Times : SetLoop(i, c, looping, start, end)
        \/ \E p \in Pitches, n \in NoteCounts, fields \in {5, 6}, cut \in 0 .. Cut : AddNotes(i, c, Repeated(p, n), fields, cut)

ClipSpec == ClipInit /\ [][ClipNext]_clipVars

--------------------------------------------------------------------------------
ClipRecord == [notes : Seq(Seq(Int)), loopStart : Int, loopEnd : Int, looping : BOOLEAN]

ClipTypeOK ==
    /\ arrangement \in [1 .. TrackCount -> Seq(ClipRecord)]
    /\ envelopes \in [CCs -> SUBSET ((1 .. MaxPoints) \X (0 .. MaxOps))]
    /\ lastOp.ok \in BOOLEAN
    /\ ops \in 0 .. MaxOps

AllClips == UNION {ToSet(arrangement[t]) : t \in 1 .. TrackCount}

\* A loop whose start is before its end is never refused, wherever the loop was, and
\* is then the loop of the clip; one that is refused leaves a loop that Live can have.
LegalLoopSet ==
    lastOp'.op = "loop" =>
        LET asked == lastOp'.args
        IN /\ asked.start < asked.end =>
                 /\ lastOp'.ok
                 /\ [lastOp'.clip EXCEPT !.loopStart = asked.start, !.loopEnd = asked.end, !.looping = asked.looping] \in AllClips'
           /\ \A clip \in AllClips' : clip.loopStart < clip.loopEnd

\* Notes that are sent whole are understood, and arrive as they were sent or, if Live
\* refuses them, not at all; only six notes, or a multiple of six, of five values each
\* are taken for five of six values.  A request that fails adds no note.
NotesAsSent ==
    lastOp'.op = "add" =>
        LET sent == lastOp'.args
            n == Len(sent.pitches)
            added == [k \in 1 .. n |-> Specification(Wire(sent.pitches[k], sent.fields))]
        IN /\ ~lastOp'.ok => arrangement' = arrangement
           /\ sent.cut = 0 /\ (sent.fields = 6 \/ n % 6 # 0) =>
                 IF lastOp'.ok THEN [lastOp'.clip EXCEPT !.notes = @ \o added] \in AllClips'
                               ELSE lastOp'.reply # Malformed

\* The number that set_envelope answers is that of the new points in the envelope;
\* the points of a request are at different times.
EnvelopeCounted ==
    lastOp'.op = "envelope" /\ lastOp'.ok =>
        \E cc \in CCs : Cardinality(envelopes'[cc] \cap ToSet(lastOp'.args)) = lastOp'.reply

\* A request does to a clip what it asks for, or nothing by halves that a client
\* would take for it.
ClipEditsAsAsked == [][LegalLoopSet /\ NotesAsSent /\ EnvelopeCounted]_clipVars
================================================================================
