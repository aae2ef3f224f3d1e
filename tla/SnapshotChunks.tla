---------------------------- MODULE SnapshotChunks ----------------------------
(***************************************************************************)
(* How a snapshot is cut into chunks (abletonosc/arrangement_view.py       *)
(* 276-466).  The clips of the tracks are packed greedily, in order, into  *)
(* chunks that fit a byte budget; a track too large for a chunk of its own *)
(* is cut into pages.  A chunk carries its index and the number of chunks, *)
(* and the number is not known before the packing is done: the packing is  *)
(* repeated with the number it found until it finds the number it used.    *)
(*                                                                         *)
(* Only sizes matter.  Clips are numbered through the whole arrangement    *)
(* from 0, so a chunk is two ranges: tracks from..to and clips lo..hi-1.   *)
(* A body gives for each track its first clip and, cumulated, the bytes    *)
(* its key and its clips take in the JSON text.                            *)
(* json.dumps makes these sizes add up when a track's key stands for its   *)
(* brackets and separator and a clip for its row and separator.            *)
(***************************************************************************)
EXTENDS Integers, Sequences

CONSTANTS
    Bodies,         \* arrangements to cut
    Envelope,       \* bytes of a chunk with neither clips nor numbers
    Digits,         \* bytes that a chunk index or a chunk count takes
    Budget,         \* MAX_ARRANGEMENT_SNAPSHOT_CHUNK_BYTES
    MaxChunks       \* bound on tracks and clips together, and so on chunks

Clips(b) == b.first[b.tracks + 1]

Ordered(f, lo, hi) == \A i, j \in lo .. hi : i <= j => f[i] <= f[j]

WellFormed(b) ==
    /\ b.tracks \in Nat
    /\ b.first \in [1 .. b.tracks + 1 -> Nat]
    /\ b.first[1] = 0 /\ Ordered(b.first, 1, b.tracks + 1)
    /\ b.key \in [1 .. b.tracks + 1 -> Nat] /\ Ordered(b.key, 1, b.tracks + 1)
    /\ b.bytes \in [0 .. Clips(b) -> Nat] /\ Ordered(b.bytes, 0, Clips(b))
    /\ b.tracks + Clips(b) <= MaxChunks

ASSUME SizeAssumption == Envelope \in Nat /\ Budget \in Nat /\ MaxChunks \in Nat
ASSUME DigitsAssumption ==
    Digits \in [0 .. MaxChunks -> Nat] /\ Ordered(Digits, 0, MaxChunks)
ASSUME BodyAssumption == \A b \in Bodies : WellFormed(b)

VARIABLES
    body,       \* what is cut
    hint,       \* chunk_count_hint
    chunks,     \* chunks of this pass, with the pages of split tracks
    open,       \* where current (or current_page) begins
    track,      \* the track the loop is at
    clip,       \* the clip the loop is at
    stage       \* "tracks"; "clips" of a split track; "packed"; "answered"; "refused"

vars == <<body, hint, chunks, open, track, clip, stage>>

-----------------------------------------------------------------------------
(* _snapshot_chunk and _chunk_fits. *)

Chunk == [from : Nat, to : Nat, lo : Nat, hi : Nat]
Span(from, to, lo, hi) == [from |-> from, to |-> to, lo |-> lo, hi |-> hi]

Size(c, index, count) ==
    Envelope + Digits[index] + Digits[count]
        + (body.key[c.to + 1] - body.key[c.from]) + (body.bytes[c.hi] - body.bytes[c.lo])

\* Mutant: the index of the chunk is left out of its size.
FitsWithoutIndex(c, index) == Size(c, 0, hint) <= Budget

Fits(c, index) == Size(c, index, hint) <= Budget

-----------------------------------------------------------------------------
(* _snapshot_chunk_clip_maps: one step per track. *)

AtTrack == stage = "tracks" /\ track <= body.tracks
NextFirst == body.first[track + 1]

\* current, the candidate, and the track alone.
Current == Span(open.track, track - 1, open.clip, clip)
Candidate == Span(open.track, track, open.clip, NextFirst)
Alone == Span(track, track, clip, NextFirst)

\* "if current: chunks.append(current)"
Closed == IF open.track = track THEN chunks ELSE Append(chunks, Current)

Here == [track |-> track, clip |-> clip]

NextTrack == track' = track + 1 /\ clip' = NextFirst

AddTrack ==
    /\ AtTrack /\ Fits(Candidate, Len(chunks))
    /\ NextTrack
    /\ UNCHANGED <<body, hint, chunks, open, stage>>

NewChunk ==
    /\ AtTrack /\ ~Fits(Candidate, Len(chunks))
    /\ Fits(Alone, Len(Closed))
    /\ chunks' = Closed /\ open' = Here
    /\ NextTrack
    /\ UNCHANGED <<body, hint, stage>>

SplitTrack ==
    /\ AtTrack /\ ~Fits(Candidate, Len(chunks))
    /\ ~Fits(Alone, Len(Closed))
    /\ chunks' = Closed /\ open' = Here
    /\ stage' = "clips"
    /\ UNCHANGED <<body, hint, track, clip>>

-----------------------------------------------------------------------------
(* _split_track_clip_pages: one step per clip. *)

Page(hi) == Span(track, track, open.clip, hi)
Single == Span(track, track, clip, clip + 1)
AtClip == stage = "clips" /\ clip < NextFirst

AddClip ==
    /\ AtClip /\ Fits(Page(clip + 1), Len(chunks))
    /\ clip' = clip + 1
    /\ UNCHANGED <<body, hint, chunks, open, track, stage>>

\* Mutant: the page starts empty behind the clip that did not fit.
NextPageSkips ==
    /\ AtClip /\ ~Fits(Page(clip + 1), Len(chunks))
    /\ open.clip < clip /\ Fits(Single, Len(chunks) + 1)
    /\ chunks' = Append(chunks, Page(clip))
    /\ open' = [track |-> track, clip |-> clip + 1] /\ clip' = clip + 1
    /\ UNCHANGED <<body, hint, track, stage>>

NextPage ==
    /\ AtClip /\ ~Fits(Page(clip + 1), Len(chunks))
    /\ open.clip < clip /\ Fits(Single, Len(chunks) + 1)
    /\ chunks' = Append(chunks, Page(clip))
    /\ open' = Here /\ clip' = clip + 1
    /\ UNCHANGED <<body, hint, track, stage>>

\* Mutant: the page that is begun is not closed to make room for the clip.
RefuseSecondPage ==
    /\ AtClip /\ ~Fits(Page(clip + 1), Len(chunks))
    /\ stage' = "refused"
    /\ UNCHANGED <<body, hint, chunks, open, track, clip>>

\* ValueError: a clip is over the budget in a page of its own.
Refuse ==
    /\ AtClip /\ ~Fits(Page(clip + 1), Len(chunks))
    /\ open.clip < clip => ~Fits(Single, Len(chunks) + 1)
    /\ stage' = "refused"
    /\ UNCHANGED <<body, hint, chunks, open, track, clip>>

\* The last page; it is empty only when the track is.
EndTrack ==
    /\ stage = "clips" /\ clip = NextFirst
    /\ chunks' = Append(chunks, Page(clip))
    /\ NextTrack /\ open' = [track |-> track + 1, clip |-> clip]
    /\ stage' = "tracks"
    /\ UNCHANGED <<body, hint>>

-----------------------------------------------------------------------------
(* build_arrangement_snapshot_chunks: the loop over the count, and what is *)
(* checked after it.                                                       *)

AtEnd == stage = "tracks" /\ track > body.tracks

\* Mutant: the tracks are counted from 0, as their keys in the JSON text are.
BeginAtZero(n) ==
    /\ hint' = n /\ chunks' = <<>>
    /\ track' = 0 /\ clip' = 0 /\ open' = [track |-> 0, clip |-> 0]

Begin(n) ==
    /\ hint' = n /\ chunks' = <<>>
    /\ track' = 1 /\ clip' = 0 /\ open' = [track |-> 1, clip |-> 0]

\* Mutant: the next pass makes room for one more chunk than the last one found.
RepackWithOneMore ==
    /\ AtEnd /\ Len(Closed) # hint
    /\ Begin(IF Len(Closed) < MaxChunks THEN Len(Closed) + 1 ELSE Len(Closed))
    /\ UNCHANGED <<body, stage>>

Repack ==
    /\ AtEnd /\ Len(Closed) # hint
    /\ Begin(Len(Closed))
    /\ UNCHANGED <<body, stage>>

Packed ==
    /\ AtEnd /\ Len(Closed) = hint
    /\ chunks' = Closed /\ stage' = "packed"
    /\ UNCHANGED <<body, hint, open, track, clip>>

Answer ==
    /\ stage = "packed"
    /\ stage' = IF \A k \in 1 .. Len(chunks) : Size(chunks[k], k - 1, Len(chunks)) <= Budget
                THEN "answered" ELSE "refused"
    /\ UNCHANGED <<body, hint, chunks, open, track, clip>>

InitWithCount(n) ==
    /\ body \in Bodies
    /\ hint = n /\ chunks = <<>>
    /\ track = 1 /\ clip = 0 /\ open = [track |-> 1, clip |-> 0]
    /\ stage = "tracks"

\* Mutant: the first pass makes room for as many chunks as there could be.
InitFromAbove == InitWithCount(MaxChunks)

Init == InitWithCount(0)

Next ==
    \/ AddTrack \/ NewChunk \/ SplitTrack
    \/ AddClip \/ NextPage \/ Refuse \/ EndTrack
    \/ Repack \/ Packed \/ Answer

Spec == Init /\ [][Next]_vars

\* The function runs until it returns.
FairSpec == Spec /\ WF_vars(Next)

-----------------------------------------------------------------------------
(* What holds. *)

TypeOK ==
    /\ WellFormed(body)
    /\ hint \in 0 .. MaxChunks
    /\ chunks \in Seq(Chunk) /\ Len(chunks) <= MaxChunks
    /\ open \in [track : Nat, clip : Nat]
    /\ track \in 1 .. body.tracks + 1 /\ clip \in 0 .. Clips(body)
    /\ stage \in {"tracks", "clips", "packed", "answered", "refused"}

\* The chunks, put one behind the other, are the arrangement: each goes on where
\* the one before it ended, inside a track or with the next one.  It is what lets
\* snapshot_manifest (505-508) and a client put the clips together again.
Follows(c, d) ==
    /\ d.lo = c.hi
    /\ \/ d.from = c.to + 1 /\ d.lo = body.first[d.from]
       \/ d.from = c.to /\ d.lo < body.first[c.to + 1]

ChunksAreTheBody ==
    stage = "answered" =>
        /\ \A k \in 1 .. Len(chunks) - 1 : Follows(chunks[k], chunks[k + 1])
        /\ IF chunks = <<>> THEN body.tracks = 0
           ELSE LET head == chunks[1]  last == chunks[Len(chunks)] IN
                /\ head.from = 1 /\ head.lo = 0
                /\ last.to = body.tracks /\ last.hi = Clips(body)

\* The size the packing tested is the size of the chunk that is sent, index and
\* count included, so the check at 444-449 never turns down a chunk with a clip.
OnlyEmptyTracksFailTheCheck ==
    stage = "packed" =>
        \A k \in 1 .. Len(chunks) :
            Size(chunks[k], k - 1, Len(chunks)) > Budget => chunks[k].lo = chunks[k].hi

\* chunk_too_large is for arrangements with one clip, or one empty track, that no
\* chunk can hold: the rest can always be cut.
Indivisible(c) == c.from = c.to /\ (c.hi = c.lo + 1 \/ c.hi = c.lo)
RefusesOnlyIndivisible ==
    stage = "refused" =>
        LET index == IF Len(chunks) < MaxChunks THEN Len(chunks) + 1 ELSE MaxChunks IN
        \E t \in 1 .. body.tracks :
            \E lo, hi \in body.first[t] .. body.first[t + 1] :
                /\ Indivisible(Span(t, t, lo, hi))
                /\ lo = hi => body.first[t] = body.first[t + 1]
                /\ Size(Span(t, t, lo, hi), index, hint) > Budget

\* A pass never finds fewer chunks than the one before it, although a greedy
\* packing of other sizes can: more room for the count only delays nothing.
HintGrows == [][hint' >= hint]_vars

\* "while True" (419-429) ends.
Terminates == <>(stage \in {"answered", "refused"})
=============================================================================
