------------------------- MODULE SnapshotChunksProofs -------------------------
(***************************************************************************)
(* Proofs about SnapshotChunks, for any arrangement and any sizes.  The    *)
(* invariant has two halves.  Walked says that the chunks of a pass are,   *)
(* up to where the open one begins, pieces of the arrangement that follow  *)
(* each other and fit.  Ahead is the argument for greedy algorithms: no    *)
(* other packing under the same count has come further with as many        *)
(* chunks.  So a pass finds the least number of chunks; a packing under a  *)
(* larger count is one under a smaller, so the number never falls.         *)
(***************************************************************************)
EXTENDS SnapshotChunks, TLAPS

\* A chunk that a packing may make: whole tracks, or some clips of one.
Piece(c) ==
    /\ 1 <= c.from /\ c.from <= c.to /\ c.to <= body.tracks
    /\ body.first[c.from] <= c.lo /\ c.lo <= c.hi /\ c.hi <= body.first[c.to + 1]
    /\ \/ c.lo = body.first[c.from] /\ c.hi = body.first[c.to + 1]
       \/ c.from = c.to /\ c.lo < c.hi

EmptyTrack(c) == c.from = c.to /\ c.lo = c.hi

Sound(c, index, count) == Piece(c) /\ (Size(c, index, count) <= Budget \/ EmptyTrack(c))

At(t, p) == [track |-> t, clip |-> p]
End(c) == IF c.hi = body.first[c.to + 1] THEN At(c.to + 1, c.hi) ELSE At(c.to, c.hi)
NotAfter(a, b) == a.track < b.track \/ (a.track = b.track /\ a.clip <= b.clip)

Chained(p) ==
    /\ \A k \in 1 .. Len(p) - 1 : Follows(p[k], p[k + 1])
    /\ p # <<>> => p[1].from = 1 /\ p[1].lo = 0
Fitted(p, count) == \A k \in 1 .. Len(p) : Sound(p[k], k - 1, count)
Reaches(p, a) == IF p = <<>> THEN a = At(1, 0) ELSE End(p[Len(p)]) = a

\* A packing of the whole arrangement under a count.
Packs(p, count) ==
    /\ Len(p) <= MaxChunks
    /\ Chained(p) /\ Fitted(p, count)
    /\ Reaches(p, At(body.tracks + 1, Clips(body)))

Ahead(q, a, p) == Len(q) <= Len(p) /\ (Len(q) > 0 => NotAfter(End(p[Len(q)]), a))

Walked(q, a) ==
    /\ q \in Seq(Chunk)
    /\ Len(q) <= a.track - 1 + a.clip
    /\ Chained(q) /\ Fitted(q, hint) /\ Reaches(q, a)
    /\ \A p \in Seq(Chunk) : Packs(p, hint) => Ahead(q, a, p)

TrackLoop ==
    /\ 1 <= open.track /\ open.track <= track
    /\ clip = body.first[track] /\ open.clip = body.first[open.track]
    /\ open.track < track => Fits(Current, Len(chunks))

ClipLoop ==
    /\ track <= body.tracks /\ open.track = track
    /\ body.first[track] <= open.clip /\ open.clip <= clip /\ clip <= NextFirst
    /\ open.clip = clip => clip = body.first[track]
    /\ open.clip < clip => Fits(Page(clip), Len(chunks))
    /\ ~Fits(Span(track, track, body.first[track], NextFirst), Len(chunks))

Least == \A p \in Seq(Chunk) : Packs(p, hint) => hint <= Len(p)

IInv ==
    /\ TypeOK
    /\ Least
    /\ stage \in {"tracks", "clips"} => Walked(chunks, open)
    /\ stage = "tracks" => TrackLoop
    /\ stage = "clips" => ClipLoop
    /\ stage \in {"packed", "answered"} => Packs(chunks, hint) /\ hint = Len(chunks)
    /\ RefusesOnlyIndivisible

-----------------------------------------------------------------------------
(* Sizes. *)

\* A body's clips and sizes are numbers, in order.
LEMMA BodyFacts ==
    ASSUME WellFormed(body)
    PROVE  /\ body.tracks \in Nat /\ body.first[1] = 0
           /\ body.tracks + Clips(body) <= MaxChunks
           /\ \A t \in 1 .. body.tracks + 1 :
                /\ body.first[t] \in 0 .. Clips(body) /\ body.key[t] \in Nat
           /\ \A t, u \in 1 .. body.tracks + 1 : t <= u =>
                body.first[t] <= body.first[u] /\ body.key[t] <= body.key[u]
           /\ Clips(body) \in Nat
           /\ \A p \in 0 .. Clips(body) : body.bytes[p] \in Nat
           /\ \A p, q \in 0 .. Clips(body) : p <= q => body.bytes[p] <= body.bytes[q]
<1> DEFINE last == body.tracks + 1
<1>1. /\ body.tracks \in Nat /\ body.first[1] = 0 /\ last \in Nat
      /\ body.tracks + Clips(body) <= MaxChunks
  BY DEF WellFormed
<1>2. \A t \in 1 .. last : body.first[t] \in Nat /\ body.key[t] \in Nat
  BY <1>1 DEF WellFormed
<1>3. \A t, u \in 1 .. last : t <= u =>
         body.first[t] <= body.first[u] /\ body.key[t] <= body.key[u]
  BY DEF WellFormed, Ordered
<1>4. /\ Clips(body) = body.first[last] /\ last \in 1 .. last
  BY <1>1 DEF Clips
<1>5. \A t \in 1 .. last : body.first[t] <= Clips(body)
  BY <1>1, <1>3, <1>4
<1>6. Clips(body) \in Nat
  BY <1>2, <1>4
<1>7. /\ \A p \in 0 .. Clips(body) : body.bytes[p] \in Nat
      /\ \A p, q \in 0 .. Clips(body) : p <= q => body.bytes[p] <= body.bytes[q]
  BY <1>6 DEF WellFormed, Ordered
<1> QED
  BY <1>1, <1>2, <1>3, <1>5, <1>6, <1>7

\* One piece is inside another.
Within(c, d) ==
    /\ 1 <= d.from /\ d.from <= c.from /\ c.from <= c.to
    /\ c.to <= d.to /\ d.to <= body.tracks
    /\ d.lo <= c.lo /\ c.lo <= c.hi /\ c.hi <= d.hi /\ d.hi <= Clips(body)

\* A smaller piece with no larger index and count has no larger size.
LEMMA SizeOrdered ==
    ASSUME WellFormed(body), NEW c \in Chunk, NEW d \in Chunk,
           Within(c, d),
           NEW i \in 0 .. MaxChunks, NEW j \in 0 .. MaxChunks, i <= j,
           NEW m \in 0 .. MaxChunks, NEW n \in 0 .. MaxChunks, m <= n
    PROVE  /\ Size(c, i, m) \in Int /\ Size(d, j, n) \in Int
           /\ Size(c, i, m) <= Size(d, j, n)
<1>1. /\ Digits[i] \in Nat /\ Digits[j] \in Nat /\ Digits[i] <= Digits[j]
      /\ Digits[m] \in Nat /\ Digits[n] \in Nat /\ Digits[m] <= Digits[n]
  BY DigitsAssumption DEF Ordered
<1>2. /\ body.key[c.from] \in Nat /\ body.key[d.from] \in Nat
      /\ body.key[c.to + 1] \in Nat /\ body.key[d.to + 1] \in Nat
      /\ body.key[d.from] <= body.key[c.from] /\ body.key[c.to + 1] <= body.key[d.to + 1]
  BY BodyFacts DEF Chunk, Within
<1>3. /\ body.bytes[c.lo] \in Nat /\ body.bytes[d.lo] \in Nat
      /\ body.bytes[c.hi] \in Nat /\ body.bytes[d.hi] \in Nat
      /\ body.bytes[d.lo] <= body.bytes[c.lo] /\ body.bytes[c.hi] <= body.bytes[d.hi]
  BY BodyFacts DEF Chunk, Within
<1> QED
  BY <1>1, <1>2, <1>3, SizeAssumption DEF Size

-----------------------------------------------------------------------------
(* Pieces. *)

\* Where a piece lies in its arrangement.
LEMMA PieceFacts ==
    ASSUME WellFormed(body), NEW d \in Chunk, Piece(d)
    PROVE  /\ d.from \in Nat /\ d.to \in Nat /\ d.lo \in Nat /\ d.hi \in Nat
           /\ 1 <= d.from /\ d.from <= d.to /\ d.to <= body.tracks
           /\ d.from \in 1 .. body.tracks + 1 /\ d.to + 1 \in 1 .. body.tracks + 1
           /\ body.first[d.from] \in Nat /\ body.first[d.to + 1] \in 0 .. Clips(body)
           /\ body.first[d.from] <= d.lo /\ d.lo <= d.hi
           /\ d.hi <= body.first[d.to + 1] /\ d.hi <= Clips(body)
<1>1. /\ d.from \in Nat /\ d.to \in Nat /\ d.lo \in Nat /\ d.hi \in Nat
      /\ 1 <= d.from /\ d.from <= d.to /\ d.to <= body.tracks /\ body.tracks \in Nat
      /\ Clips(body) \in Nat
  BY BodyFacts DEF Chunk, Piece
<1>2. d.from \in 1 .. body.tracks + 1 /\ d.to + 1 \in 1 .. body.tracks + 1
  BY <1>1
<1>3. body.first[d.from] \in Nat /\ body.first[d.to + 1] \in 0 .. Clips(body)
  BY <1>2, BodyFacts
<1> QED
  BY <1>1, <1>2, <1>3 DEF Piece


\* A piece is inside itself.
LEMMA WithinItself ==
    ASSUME WellFormed(body), NEW d \in Chunk, Piece(d)
    PROVE  Within(d, d)
BY PieceFacts DEF Within

\* The next chunk of a packing begins no later than the chunk that is open.
LEMMA NextPiece ==
    ASSUME WellFormed(body), NEW q, NEW a \in [track : Nat, clip : Nat],
           NEW p \in Seq(Chunk), Packs(p, hint), Len(q) \in Nat, Ahead(q, a, p),
           a.track <= body.tracks, 1 <= a.track
    PROVE  /\ Len(q) < Len(p)
           /\ NotAfter(At(p[Len(q) + 1].from, p[Len(q) + 1].lo), a)
           /\ Sound(p[Len(q) + 1], Len(q), hint)
<1>1. /\ Len(p) \in Nat /\ \A k \in 1 .. Len(p) : p[k] \in Chunk
  OBVIOUS
<1>2. Len(q) # Len(p)
  <2>1. SUFFICES ASSUME Len(q) = Len(p) PROVE FALSE
    OBVIOUS
  <2>2. CASE p = <<>>
    BY <2>2, BodyFacts DEF Packs, Reaches, At
  <2>3. CASE p # <<>>
    <3>1. Len(p) > 0
      BY <2>3
    <3>2. NotAfter(At(body.tracks + 1, Clips(body)), a)
      BY <2>1, <2>3, <3>1 DEF Packs, Reaches, Ahead
    <3> QED
      BY <3>2, BodyFacts DEF NotAfter, At
  <2> QED
    BY <2>2, <2>3
<1>3. Len(q) < Len(p)
  BY <1>1, <1>2 DEF Ahead
<1>4. Sound(p[Len(q) + 1], Len(q), hint)
  BY <1>1, <1>3 DEF Packs, Fitted
<1>5. NotAfter(At(p[Len(q) + 1].from, p[Len(q) + 1].lo), a)
  <2>1. CASE Len(q) = 0
    BY <2>1, <1>1, <1>3, BodyFacts DEF Packs, Chained, NotAfter, At
  <2>2. CASE Len(q) > 0
    <3> DEFINE c == p[Len(q)]  d == p[Len(q) + 1]
    <3>1. /\ c \in Chunk /\ d \in Chunk /\ Follows(c, d) /\ Piece(c) /\ Piece(d)
      BY <2>2, <1>1, <1>3 DEF Packs, Chained, Fitted, Sound
    <3>2. NotAfter(End(c), a)
      BY <2>2 DEF Ahead
    <3>3. /\ c.from \in Nat /\ c.to \in Nat /\ c.hi \in Nat
          /\ d.from \in Nat /\ d.lo \in Nat /\ a.track \in Nat /\ a.clip \in Nat
      BY <3>1 DEF Chunk
    <3>4. CASE d.from = c.to + 1 /\ d.lo = body.first[d.from]
      BY <3>1, <3>2, <3>3, <3>4 DEF End, NotAfter, At, Follows
    <3>5. CASE d.from = c.to /\ d.lo < body.first[c.to + 1]
      BY <3>1, <3>2, <3>3, <3>5 DEF End, NotAfter, At, Follows
    <3> QED
      BY <3>1, <3>4, <3>5 DEF Follows
  <2> QED
    BY <2>1, <2>2
<1> QED
  BY <1>3, <1>4, <1>5

\* A chunk that begins where the last one ended follows it.
LEMMA FollowsEnd ==
    ASSUME WellFormed(body), NEW c \in Chunk, NEW d \in Chunk, Piece(c), Piece(d),
           End(c) = At(d.from, d.lo)
    PROVE  Follows(c, d)
<1>1. /\ c.from \in Nat /\ c.to \in Nat /\ c.hi \in Nat /\ d.from \in Nat /\ d.lo \in Nat
      /\ c.to + 1 \in 1 .. body.tracks + 1 /\ body.first[c.to + 1] \in Nat
  BY BodyFacts DEF Chunk, Piece
<1>2. CASE c.hi = body.first[c.to + 1]
  BY <1>1, <1>2 DEF End, At, Follows
<1>3. CASE c.hi # body.first[c.to + 1]
  BY <1>1, <1>3 DEF End, At, Follows, Piece
<1> QED
  BY <1>2, <1>3

\* The end of a piece is a place in the arrangement, after its beginning.
LEMMA EndLater ==
    ASSUME WellFormed(body), NEW c \in Chunk, Piece(c)
    PROVE  /\ End(c) \in [track : Nat, clip : Nat]
           /\ c.from + c.lo < End(c).track + End(c).clip
           /\ End(c).track <= body.tracks + 1 /\ End(c).clip = c.hi
           /\ NotAfter(End(c), At(body.tracks + 1, Clips(body)))
<1>1. /\ c.from \in Nat /\ c.to \in Nat /\ c.hi \in Nat /\ c.lo \in Nat
      /\ c.to + 1 \in 1 .. body.tracks + 1 /\ body.first[c.to + 1] \in 0 .. Clips(body)
      /\ body.tracks \in Nat /\ Clips(body) \in Nat
  BY BodyFacts DEF Chunk, Piece
<1>2. CASE c.hi = body.first[c.to + 1]
  BY <1>1, <1>2 DEF End, At, NotAfter, Piece
<1>3. CASE c.hi # body.first[c.to + 1]
  BY <1>1, <1>3 DEF End, At, NotAfter, Piece
<1> QED
  BY <1>2, <1>3

\* Greed pays: when no piece that begins as early as the open chunk ends later
\* than it does, closing it keeps the packing ahead of every other.
LEMMA Close ==
    ASSUME WellFormed(body), hint \in 0 .. MaxChunks,
           NEW q, NEW a \in [track : Nat, clip : Nat], 1 <= a.track, Walked(q, a),
           NEW c \in Chunk, c.from = a.track, c.lo = a.clip, Sound(c, Len(q), hint),
           \A d \in Chunk : Sound(d, Len(q), hint) /\ NotAfter(At(d.from, d.lo), a)
                                => NotAfter(End(d), End(c))
    PROVE  /\ Walked(Append(q, c), End(c))
           /\ Append(q, c) \in Seq(Chunk) /\ Len(Append(q, c)) = Len(q) + 1
<1> DEFINE r == Append(q, c)
<1>1. /\ q \in Seq(Chunk) /\ Len(q) \in Nat /\ r \in Seq(Chunk) /\ Len(r) = Len(q) + 1
      /\ \A k \in 1 .. Len(q) : q[k] \in Chunk /\ r[k] = q[k]
      /\ r[Len(q) + 1] = c /\ r # <<>>
  BY DEF Walked
<1>2. Piece(c) /\ a.track <= body.tracks
  BY BodyFacts DEF Sound, Piece, Chunk
<1>3. Len(r) <= End(c).track - 1 + End(c).clip
  BY <1>1, <1>2, EndLater DEF Walked, Chunk
<1>4. Chained(r)
  <2>1. CASE q = <<>>
    <3>1. Len(q) = 0 /\ c.from = 1 /\ c.lo = 0
      BY <2>1 DEF Walked, Reaches, At
    <3> QED
      BY <3>1, <1>1 DEF Chained
  <2>2. CASE q # <<>>
    <3>1. Len(q) > 0
      BY <2>2, <1>1
    <3>2. Follows(q[Len(q)], c)
      <4>1. q[Len(q)] \in Chunk /\ Piece(q[Len(q)])
        BY <3>1, <1>1 DEF Walked, Fitted, Sound
      <4>2. End(q[Len(q)]) = At(c.from, c.lo)
        BY <2>2 DEF Walked, Reaches, At
      <4> QED
        BY <4>1, <4>2, <1>2, FollowsEnd
    <3>3. ASSUME NEW k \in 1 .. Len(r) - 1 PROVE Follows(r[k], r[k + 1])
      <4>1. CASE k = Len(q)
        BY <4>1, <3>2, <3>1, <1>1
      <4>2. CASE k # Len(q)
        BY <4>2, <1>1 DEF Walked, Chained
      <4> QED
        BY <4>1, <4>2
    <3>4. r[1].from = 1 /\ r[1].lo = 0
      BY <2>2, <3>1, <1>1 DEF Walked, Chained
    <3> QED
      BY <3>3, <3>4 DEF Chained
  <2> QED
    BY <2>1, <2>2
<1>5. Fitted(r, hint)
  <2>1. SUFFICES ASSUME NEW k \in 1 .. Len(r) PROVE Sound(r[k], k - 1, hint)
    BY DEF Fitted
  <2>2. CASE k = Len(q) + 1
    BY <2>2, <1>1
  <2>3. CASE k # Len(q) + 1
    BY <2>3, <1>1 DEF Walked, Fitted
  <2> QED
    BY <2>2, <2>3
<1>6. Reaches(r, End(c))
  BY <1>1 DEF Reaches
<1>7. ASSUME NEW p \in Seq(Chunk), Packs(p, hint) PROVE Ahead(r, End(c), p)
  <2>1. Ahead(q, a, p)
    BY <1>7 DEF Walked
  <2>2. /\ Len(q) < Len(p)
        /\ NotAfter(At(p[Len(q) + 1].from, p[Len(q) + 1].lo), a)
        /\ Sound(p[Len(q) + 1], Len(q), hint)
    BY <1>1, <1>2, <1>7, <2>1, NextPiece
  <2>3. p[Len(q) + 1] \in Chunk /\ Len(p) \in Nat
    BY <2>2, <1>1
  <2>4. NotAfter(End(p[Len(q) + 1]), End(c))
    BY <2>2, <2>3
  <2> QED
    BY <2>2, <2>3, <2>4, <1>1 DEF Ahead
<1>8. Walked(r, End(c))
  BY <1>1, <1>3, <1>4, <1>5, <1>6, <1>7 DEF Walked
<1> QED
  BY <1>1, <1>8

-----------------------------------------------------------------------------
(* The three places where a chunk is closed. *)

\* What the invariant says of the numbers in it.
LEMMA Numbers ==
    ASSUME IInv
    PROVE  /\ WellFormed(body) /\ hint \in 0 .. MaxChunks /\ MaxChunks \in Nat
           /\ body.tracks \in Nat /\ Clips(body) \in Nat
           /\ body.tracks + Clips(body) <= MaxChunks
           /\ chunks \in Seq(Chunk) /\ Len(chunks) \in Nat
           /\ open \in [track : Nat, clip : Nat] /\ open.track \in Nat /\ open.clip \in Nat
           /\ track \in 1 .. body.tracks + 1 /\ clip \in 0 .. Clips(body)
           /\ body.first[track] \in 0 .. Clips(body)
           /\ track <= body.tracks => NextFirst \in body.first[track] .. Clips(body)
<1>1. WellFormed(body)
  BY DEF IInv, TypeOK
<1> QED
  BY <1>1, BodyFacts, SizeAssumption DEF IInv, TypeOK, NextFirst

\* Where the loop goes on after a track.
LEMMA NextNumbers ==
    ASSUME IInv, track <= body.tracks
    PROVE  /\ track + 1 \in 1 .. body.tracks + 1 /\ track \in 1 .. body.tracks
           /\ NextFirst \in 0 .. Clips(body)
<1>1. /\ track \in Nat /\ 1 <= track /\ body.tracks \in Nat /\ Clips(body) \in Nat
      /\ body.first[track] \in Nat /\ NextFirst \in body.first[track] .. Clips(body)
  BY Numbers
<1> QED
  BY <1>1

\* A piece with tracks before and with or behind a track holds all of that track.
LEMMA PieceAround ==
    ASSUME WellFormed(body), NEW d \in Chunk, Piece(d), NEW t \in 1 .. body.tracks,
           d.from <= t, t <= d.to, d.from # t \/ d.to # t
    PROVE  /\ ~EmptyTrack(d)
           /\ d.lo <= body.first[t] /\ body.first[t + 1] <= d.hi /\ d.hi <= Clips(body)
           /\ d.lo = body.first[d.from]
<1>1. /\ d.from \in 1 .. body.tracks + 1 /\ d.to + 1 \in 1 .. body.tracks + 1
      /\ t \in 1 .. body.tracks + 1 /\ t + 1 \in 1 .. body.tracks + 1
      /\ d.from <= t /\ t + 1 <= d.to + 1
  BY PieceFacts, BodyFacts
<1>2. body.first[d.from] <= body.first[t] /\ body.first[t + 1] <= body.first[d.to + 1]
  BY <1>1, BodyFacts
<1>3. body.first[d.to + 1] \in 0 .. Clips(body) /\ d.from # d.to
  BY PieceFacts, BodyFacts
<1> QED
  BY <1>1, <1>2, <1>3 DEF Piece, EmptyTrack

\* A piece ends no later than a track it does not reach.
LEMMA EndsBefore ==
    ASSUME WellFormed(body), NEW d \in Chunk, Piece(d),
           NEW t \in 1 .. body.tracks + 1, d.to < t, NEW n \in Nat, body.first[t] <= n
    PROVE  NotAfter(End(d), At(t, n))
<1>1. /\ d.to \in Nat /\ d.hi \in Nat /\ d.to + 1 \in 1 .. body.tracks + 1
      /\ body.first[d.to + 1] \in 0 .. Clips(body) /\ d.hi <= body.first[d.to + 1]
      /\ body.tracks \in Nat /\ Clips(body) \in Nat
  BY PieceFacts, BodyFacts
<1>2. d.to + 1 <= t /\ t \in Nat
  BY <1>1
<1>3. body.first[d.to + 1] <= body.first[t] /\ body.first[t] \in 0 .. Clips(body)
  BY <1>1, <1>2, BodyFacts
<1>4. d.hi <= n /\ body.first[d.to + 1] <= n
  BY <1>1, <1>3
<1>5. CASE d.hi = body.first[d.to + 1]
  BY <1>1, <1>2, <1>4, <1>5 DEF End, At, NotAfter
<1>6. CASE d.hi # body.first[d.to + 1]
  BY <1>1, <1>2, <1>4, <1>6 DEF End, At, NotAfter
<1> QED
  BY <1>5, <1>6

\* What it means to begin no later than a place.
LEMMA StartsBy ==
    ASSUME NEW d \in Chunk, NEW a \in [track : Nat, clip : Nat],
           NotAfter(At(d.from, d.lo), a)
    PROVE  d.from <= a.track /\ (d.from = a.track => d.lo <= a.clip)
BY DEF NotAfter, At, Chunk

\* What fits leaves no smaller chunk that does not.
LEMMA FitsWithin ==
    ASSUME WellFormed(body), hint \in 0 .. MaxChunks, NEW i \in 0 .. MaxChunks,
           NEW c \in Chunk, NEW d \in Chunk, Within(c, d), Size(d, i, hint) <= Budget
    PROVE  Fits(c, i)
<1>1. i <= i /\ hint <= hint
  BY SizeAssumption
<1>2. /\ Size(c, i, hint) <= Size(d, i, hint)
      /\ Size(c, i, hint) \in Int /\ Size(d, i, hint) \in Int
  BY <1>1, SizeOrdered
<1> QED
  BY <1>2, SizeAssumption DEF Fits

\* A chunk of whole tracks, closed because the next track does not fit, or at the end.
LEMMA CloseCurrent ==
    ASSUME IInv, stage = "tracks", open.track < track,
           track <= body.tracks => ~Fits(Candidate, Len(chunks))
    PROVE  Walked(Append(chunks, Current), Here)
<1>0. /\ WellFormed(body) /\ hint \in 0 .. MaxChunks /\ Len(chunks) \in 0 .. MaxChunks
      /\ MaxChunks \in Nat
  BY Numbers DEF IInv, TypeOK
<1>N. /\ track \in 1 .. body.tracks + 1 /\ track \in Nat /\ body.tracks \in Nat
      /\ clip \in Nat /\ Clips(body) \in Nat /\ open.track \in Nat
  BY Numbers
<1>L. open.track < track
  OBVIOUS
<1>1. TrackLoop /\ Walked(chunks, open)
  BY DEF IInv
<1>2. /\ open.track \in 1 .. body.tracks + 1 /\ body.first[open.track] <= body.first[track]
      /\ open.clip = body.first[open.track] /\ clip = body.first[track]
  <2>1. /\ 1 <= open.track /\ clip = body.first[track] /\ open.clip = body.first[open.track]
    BY <1>1 DEF TrackLoop
  <2>2. open.track \in 1 .. body.tracks + 1
    BY ONLY <2>1, <1>N, <1>L
  <2>3. body.first[open.track] <= body.first[track]
    BY ONLY <2>2, <1>0, <1>N, <1>L, BodyFacts
  <2> QED
    BY <2>1, <2>2, <2>3
<1>3. /\ Current \in Chunk /\ Current.from = open.track /\ Current.lo = open.clip
      /\ Current.to = track - 1 /\ Current.hi = clip
  BY <1>2, Numbers DEF Current, Span, Chunk
<1>4. Piece(Current) /\ End(Current) = Here
  <2>1. /\ 1 <= open.track /\ open.track <= track - 1 /\ track - 1 <= body.tracks
        /\ track - 1 + 1 = track
    BY ONLY <1>N, <1>L, <1>2
  <2>2. clip <= clip /\ open.clip <= clip /\ open.clip <= open.clip
    <3>1. open.clip \in Nat
      BY Numbers
    <3> QED
      BY ONLY <3>1, <1>N, <1>2
  <2>3. End(Current) = Here
    BY <2>1, <1>2, <1>3 DEF End, At, Here
  <2> QED
    BY <2>1, <2>2, <2>3, <1>2, <1>3 DEF Piece
<1>5. Sound(Current, Len(chunks), hint)
  BY <1>1, <1>4 DEF TrackLoop, Sound, Fits
<1>6. ASSUME NEW d \in Chunk, Sound(d, Len(chunks), hint), NotAfter(At(d.from, d.lo), open)
      PROVE  NotAfter(End(d), Here)
  <2>1. Piece(d) /\ d.from <= open.track
    <3>1. open \in [track : Nat, clip : Nat]
      BY Numbers
    <3> QED
      BY <3>1, <1>6, StartsBy DEF Sound
  <2>2. /\ d.from \in Nat /\ d.to \in Nat /\ d.hi \in Nat /\ d.lo \in Nat
        /\ 1 <= d.from /\ d.to <= body.tracks /\ d.from \in 1 .. body.tracks + 1
        /\ d.to + 1 \in 1 .. body.tracks + 1 /\ body.first[d.to + 1] \in 0 .. Clips(body)
        /\ d.hi <= body.first[d.to + 1]
    BY <1>0, <2>1, PieceFacts
  <2>3. CASE d.to < track
    <3>1. body.first[track] <= clip
      BY <1>N, <1>2
    <3>2. NotAfter(End(d), At(track, clip))
      BY ONLY <3>1, <1>0, <1>N, <2>1, <2>3, d \in Chunk, EndsBefore
    <3> QED
      BY <3>2 DEF At, Here
  <2>4. CASE d.to >= track
    <3>1. track \in 1 .. body.tracks /\ d.from < track /\ d.from # track /\ track <= d.to
      BY ONLY <1>N, <1>L, <2>1, <2>2, <2>4
    <3>2. /\ ~EmptyTrack(d) /\ body.first[track + 1] <= d.hi /\ d.hi <= Clips(body)
          /\ d.lo = body.first[d.from]
      BY ONLY <3>1, <1>0, <1>N, <2>1, <2>2, d \in Chunk, PieceAround, SMTT(20)
    <3>3. d.lo <= open.clip
      BY <3>2, <1>0, <1>N, <1>2, <2>1, <2>2, BodyFacts
    <3>4. /\ Candidate \in Chunk /\ Candidate.from = open.track /\ Candidate.to = track
          /\ Candidate.lo = open.clip /\ Candidate.hi = body.first[track + 1]
          /\ open.clip <= body.first[track + 1] /\ open.clip \in Nat
      <4>1. /\ open.clip \in Nat /\ open.track \in Nat
            /\ NextFirst \in body.first[track] .. Clips(body)
            /\ body.first[track] \in Nat
        BY <3>1, <1>N, Numbers
      <4>2. open.clip <= NextFirst /\ NextFirst \in Nat
        BY <4>1, <1>N, <1>2
      <4> QED
        BY <3>1, <4>1, <4>2, <1>N DEF Candidate, Span, Chunk, NextFirst
    <3>5. Within(Candidate, d)
      BY <3>1, <3>2, <3>3, <3>4, <1>N, <1>2, <2>1, <2>2, SMTT(20) DEF Within
    <3>6. Size(d, Len(chunks), hint) <= Budget
      BY <3>2, <1>6 DEF Sound
    <3>7. Fits(Candidate, Len(chunks))
      BY ONLY <3>4, <3>5, <3>6, <1>0, d \in Chunk, FitsWithin
    <3> QED
      BY <3>1, <3>7, <1>N
  <2> QED
    BY <1>N, <2>2, <2>3, <2>4
<1>7. 1 <= open.track
  BY <1>2
<1> QED
  BY <1>1, <1>3, <1>4, <1>5, <1>6, <1>7, Numbers, Close

\* The packing with the current chunk closed, be it empty or not.
LEMMA ClosedWalked ==
    ASSUME IInv, stage = "tracks", track <= body.tracks => ~Fits(Candidate, Len(chunks))
    PROVE  Walked(Closed, Here)
<1>1. CASE open.track = track
  <2>1. open = Here
    BY <1>1, Numbers DEF IInv, TrackLoop, Here
  <2> QED
    BY <1>1, <2>1 DEF Closed, IInv
<1>2. CASE open.track # track
  BY <1>2, CloseCurrent, Numbers DEF Closed, IInv, TrackLoop
<1> QED
  BY <1>1, <1>2

\* A page, closed because the next clip does not fit or because it has the last one.
LEMMA ClosePage ==
    ASSUME IInv, stage = "clips",
           \/ clip = NextFirst
           \/ clip < NextFirst /\ open.clip < clip /\ ~Fits(Page(clip + 1), Len(chunks))
    PROVE  /\ Walked(Append(chunks, Page(clip)), End(Page(clip)))
           /\ End(Page(clip)) = IF clip = NextFirst THEN At(track + 1, clip) ELSE Here
<1>0. /\ WellFormed(body) /\ hint \in 0 .. MaxChunks /\ Len(chunks) \in 0 .. MaxChunks
      /\ MaxChunks \in Nat
  BY Numbers DEF IInv, TypeOK
<1>N. /\ track \in Nat /\ clip \in Nat /\ body.tracks \in Nat /\ Clips(body) \in Nat
      /\ body.first[track] \in Nat
  BY Numbers
<1>1. ClipLoop /\ Walked(chunks, open)
  BY DEF IInv
<1>2. /\ track \in 1 .. body.tracks /\ open.track = track /\ NextFirst = body.first[track + 1]
      /\ body.first[track] <= open.clip /\ open.clip <= clip /\ clip <= NextFirst
      /\ NextFirst \in 0 .. Clips(body) /\ open.clip \in Nat
  BY <1>1, Numbers DEF ClipLoop, NextFirst
<1>3. /\ body.first[track] <= clip /\ body.first[track] \in Nat
      /\ body.first[track] <= NextFirst /\ NextFirst \in Nat /\ NextFirst <= Clips(body)
  BY <1>N, <1>2
<1>4. /\ Page(clip) \in Chunk /\ Page(clip).from = track /\ Page(clip).to = track
      /\ Page(clip).lo = open.clip /\ Page(clip).hi = clip
  BY <1>2, Numbers DEF Page, Span, Chunk
<1>5. End(Page(clip)) = IF clip = NextFirst THEN At(track + 1, clip) ELSE Here
  BY <1>2, <1>4 DEF End, At, Here
<1>6. Sound(Page(clip), Len(chunks), hint)
  <2>1. CASE open.clip < clip
    BY <2>1, <1>1, <1>2, <1>4, Numbers DEF ClipLoop, Sound, Piece, Fits
  <2>2. CASE open.clip = clip
    BY <2>2, <1>1, <1>2, <1>4, Numbers DEF ClipLoop, Sound, Piece, EmptyTrack
  <2> QED
    BY <2>1, <2>2, <1>2, Numbers
<1>7. ASSUME NEW d \in Chunk, Sound(d, Len(chunks), hint), NotAfter(At(d.from, d.lo), open)
      PROVE  NotAfter(End(d), End(Page(clip)))
  <2> DEFINE size == Size(d, Len(chunks), hint)
  <2>1. Piece(d) /\ d.from <= track /\ (d.from = track => d.lo <= open.clip)
    <3>1. open \in [track : Nat, clip : Nat]
      BY Numbers
    <3> QED
      BY <3>1, <1>2, <1>7, StartsBy DEF Sound
  <2>2. /\ d.from \in Nat /\ d.to \in Nat /\ d.hi \in Nat /\ d.lo \in Nat
        /\ 1 <= d.from /\ d.from <= d.to /\ d.to <= body.tracks
        /\ d.to + 1 \in 1 .. body.tracks + 1 /\ body.first[d.to + 1] \in 0 .. Clips(body)
        /\ d.lo <= d.hi /\ d.hi <= body.first[d.to + 1] /\ d.hi <= Clips(body)
    BY <1>0, <1>N, <2>1, PieceFacts
  <2>3. CASE d.to < track
    <3>1. track \in 1 .. body.tracks + 1 /\ body.first[track] <= clip
      BY ONLY <1>N, <1>2, <1>3
    <3>2. NotAfter(End(d), At(track, clip))
      BY ONLY <3>1, <1>0, <1>N, <2>1, <2>3, d \in Chunk, EndsBefore
    <3>3. End(Page(clip)) \in {At(track, clip), At(track + 1, clip)}
      BY <1>5 DEF At, Here
    <3>4. End(d) \in [track : Nat, clip : Nat]
      BY ONLY <1>0, <2>1, d \in Chunk, EndLater
    <3>5. NotAfter(End(d), At(track + 1, clip))
      BY ONLY <3>2, <3>4, <1>N DEF NotAfter, At
    <3> QED
      BY <3>2, <3>3, <3>5
  <2>4. CASE d.to >= track /\ (d.from # track \/ d.to # track)
    <3> DEFINE whole == Span(track, track, body.first[track], NextFirst)
    <3>1. /\ ~EmptyTrack(d) /\ d.lo <= body.first[track] /\ NextFirst <= d.hi
      BY <1>0, <1>N, <1>2, <2>1, <2>2, <2>4, PieceAround
    <3>2. /\ whole \in Chunk /\ whole.from = track /\ whole.to = track
          /\ whole.lo = body.first[track] /\ whole.hi = NextFirst
      <4>1. NextFirst \in Nat
        BY <1>3
      <4> QED
        BY <4>1, <1>N DEF Span, Chunk
    <3>3. Within(whole, d)
      BY <3>1, <3>2, <1>N, <1>2, <1>3, <2>1, <2>2, <2>4 DEF Within
    <3>4. size <= Budget
      BY <3>1, <1>7 DEF Sound
    <3>5. Fits(whole, Len(chunks))
      <4> HIDE DEF whole
      <4> QED
        BY ONLY <3>2, <3>3, <3>4, <1>0, d \in Chunk, FitsWithin DEF size
    <3> QED
      BY <3>5, <1>1 DEF ClipLoop
  <2>5. CASE d.from = track /\ d.to = track
    <3>1. CASE clip = NextFirst
      BY <3>1, <1>N, <1>2, <1>5, <2>2, <2>5 DEF End, NotAfter, At
    <3>2. CASE clip # NextFirst
      <4>1. SUFFICES ASSUME d.hi > clip PROVE FALSE
        <5>1. (End(d).track = track /\ End(d).clip = d.hi) \/ d.hi > clip
          BY <3>2, <1>N, <1>2, <2>2, <2>5 DEF End, At
        <5>2. End(Page(clip)) = Here
          BY <3>2, <1>5
        <5> QED
          BY <5>1, <5>2, <1>N, <2>2 DEF NotAfter, Here
      <4>2. clip < NextFirst /\ open.clip < clip /\ ~Fits(Page(clip + 1), Len(chunks))
        BY <3>2
      <4>3. /\ Page(clip + 1) \in Chunk
            /\ Page(clip + 1).from = track /\ Page(clip + 1).to = track
            /\ Page(clip + 1).lo = open.clip /\ Page(clip + 1).hi = clip + 1
        <5>1. clip + 1 \in Nat /\ open.clip \in Nat
          BY <1>N, <1>2
        <5> QED
          BY <5>1, <1>N DEF Page, Span, Chunk
      <4>4. Within(Page(clip + 1), d)
        <5>1. /\ 1 <= track /\ track <= body.tracks /\ d.lo <= open.clip
              /\ open.clip <= clip + 1 /\ clip + 1 <= d.hi /\ d.hi <= Clips(body)
          BY ONLY <4>1, <1>N, <1>2, <2>1, <2>2, <2>5
        <5> QED
          BY <5>1, <4>3, <2>5, <1>N DEF Within
      <4>5. size <= Budget
        BY <4>1, <4>2, <1>N, <1>2, <1>7, <2>1, <2>2, <2>5 DEF Sound, EmptyTrack
      <4>6. Fits(Page(clip + 1), Len(chunks))
        BY ONLY <4>3, <4>4, <4>5, <1>0, d \in Chunk, FitsWithin DEF size
      <4> QED
        BY <4>2, <4>6
    <3> QED
      BY <3>1, <3>2
  <2> QED
    BY <1>N, <2>2, <2>3, <2>4, <2>5
<1>8. Walked(Append(chunks, Page(clip)), End(Page(clip)))
  <2>1. /\ 1 <= open.track /\ Page(clip).from = open.track
    BY <1>2, <1>4
  <2> QED
    BY <2>1, <1>1, <1>4, <1>6, <1>7, Numbers, Close
<1> QED
  BY <1>5, <1>8

-----------------------------------------------------------------------------
(* The steps. *)

\* The packings there are do not depend on how far the loop has come.
LEMMA Frame ==
    ASSUME body' = body, hint' = hint, NEW q, NEW a, NEW c, NEW n
    PROVE  /\ Walked(q, a)' <=> Walked(q, a)
           /\ Packs(q, n)' <=> Packs(q, n)
           /\ Fits(c, n)' <=> Fits(c, n)
           /\ Least' <=> Least
<1>1. \A m : Fits(c, m)' <=> Fits(c, m)
  BY DEF Fits, Size
<1>2. ASSUME NEW p, NEW m PROVE Packs(p, m)' <=> Packs(p, m)
  BY DEF Packs, Chained, Fitted, Reaches, Sound, Piece, EmptyTrack, Size, End, At, Follows,
     Clips
<1>3. Least' <=> Least
  BY <1>2 DEF Least
<1>4. Fitted(q, hint)' <=> Fitted(q, hint)
  BY DEF Fitted, Sound, Piece, EmptyTrack, Size
<1>5. /\ Chained(q)' <=> Chained(q)
      /\ Reaches(q, a)' <=> Reaches(q, a)
  BY DEF Chained, Follows, Reaches, End, At
<1>6. ASSUME NEW p PROVE Ahead(q, a, p)' <=> Ahead(q, a, p)
  BY DEF Ahead, NotAfter, End, At
<1>7. Walked(q, a)' <=> Walked(q, a)
  BY <1>2, <1>4, <1>5, <1>6 DEF Walked
<1> QED
  BY <1>1, <1>2, <1>3, <1>7

\* The numbers of a step that stays in the same arrangement and under the same count.
LEMMA FrameType ==
    ASSUME IInv, body' = body, hint' = hint,
           chunks' \in Seq(Chunk), Len(chunks') <= MaxChunks,
           open' \in [track : Nat, clip : Nat],
           track' \in 1 .. body.tracks + 1, clip' \in 0 .. Clips(body),
           stage' \in {"tracks", "clips", "packed", "answered", "refused"}
    PROVE  TypeOK'
BY DEF IInv, TypeOK, Clips, WellFormed, Chunk, Ordered

\* A walk is no longer than there are tracks and clips.
LEMMA WalkBounded ==
    ASSUME IInv, NEW q, NEW a \in [track : Nat, clip : Nat], Walked(q, a),
           a.track <= body.tracks + 1, a.clip <= Clips(body)
    PROVE  q \in Seq(Chunk) /\ Len(q) \in Nat /\ Len(q) <= MaxChunks
<1>1. a.track \in Nat /\ a.clip \in Nat
  OBVIOUS
<1>2. q \in Seq(Chunk) /\ Len(q) <= a.track - 1 + a.clip
  BY DEF Walked
<1>3. Len(q) \in Nat
  BY <1>2
<1>4. /\ body.tracks \in Nat /\ Clips(body) \in Nat /\ MaxChunks \in Nat
      /\ body.tracks + Clips(body) <= MaxChunks
  BY Numbers
<1> QED
  BY <1>1, <1>2, <1>3, <1>4

\* A whole track is added to the current chunk.
LEMMA AddTrackStep ==
    ASSUME IInv, AddTrack
    PROVE  IInv'
<1>1. /\ body' = body /\ hint' = hint /\ chunks' = chunks /\ open' = open
      /\ stage' = stage /\ stage = "tracks"
      /\ track' = track + 1 /\ clip' = NextFirst /\ track <= body.tracks
  BY DEF AddTrack, AtTrack, NextTrack
<1>2. TypeOK'
  <2>1. /\ track' \in 1 .. body.tracks + 1 /\ clip' \in 0 .. Clips(body)
    BY <1>1, NextNumbers
  <2>2. /\ chunks' \in Seq(Chunk) /\ Len(chunks') <= MaxChunks
        /\ open' \in [track : Nat, clip : Nat]
    BY <1>1 DEF IInv, TypeOK
  <2> QED
    BY <1>1, <2>1, <2>2, FrameType
<1>3. Least' /\ Walked(chunks, open)'
  BY <1>1, Frame DEF IInv
<1>4. TrackLoop'
  <2>1. /\ TrackLoop /\ Fits(Candidate, Len(chunks))
    BY <1>1 DEF IInv, AddTrack
  <2>2. /\ track \in Nat /\ open.track \in Nat /\ track + 1 - 1 = track
        /\ NextFirst = body.first[track + 1]
    BY Numbers DEF NextFirst
  <2>3. Current' = Candidate /\ Fits(Current, Len(chunks))'
    BY <1>1, <2>1, <2>2 DEF Fits, Size, Current, Candidate, Span
  <2>4. 1 <= open.track /\ open.track <= track + 1 /\ open.clip = body.first[open.track]
    BY <2>1, <2>2 DEF TrackLoop
  <2> QED
    BY <1>1, <2>2, <2>3, <2>4 DEF TrackLoop
<1> QED
  BY <1>1, <1>2, <1>3, <1>4 DEF IInv, RefusesOnlyIndivisible

\* The current chunk, if any, is closed and the track begins another.
LEMMA NewChunkStep ==
    ASSUME IInv, NewChunk
    PROVE  IInv'
<1>1. /\ body' = body /\ hint' = hint /\ chunks' = Closed /\ open' = Here
      /\ stage' = stage /\ stage = "tracks"
      /\ track' = track + 1 /\ clip' = NextFirst /\ track <= body.tracks
      /\ ~Fits(Candidate, Len(chunks)) /\ Fits(Alone, Len(Closed))
  BY DEF NewChunk, AtTrack, NextTrack
<1>2. Walked(Closed, Here)
  BY <1>1, ClosedWalked
<1>3. /\ Here \in [track : Nat, clip : Nat] /\ Here.track = track /\ Here.clip = clip
      /\ track <= body.tracks + 1 /\ clip <= Clips(body)
  BY Numbers DEF Here
<1>4. TypeOK'
  <2>1. /\ track' \in 1 .. body.tracks + 1 /\ clip' \in 0 .. Clips(body)
    BY <1>1, NextNumbers
  <2>2. /\ chunks' \in Seq(Chunk) /\ Len(chunks') <= MaxChunks
    BY <1>1, <1>2, <1>3, WalkBounded
  <2> QED
    BY <1>1, <1>3, <2>1, <2>2, FrameType
<1>5. Least' /\ Walked(chunks, open)'
  BY <1>1, <1>2, Frame DEF IInv
<1>6. TrackLoop'
  <2>1. clip = body.first[track]
    BY <1>1 DEF IInv, TrackLoop
  <2>2. /\ track \in Nat /\ 1 <= track /\ track <= track + 1 /\ track + 1 - 1 = track
        /\ NextFirst = body.first[track + 1]
    BY Numbers DEF NextFirst
  <2>3. Current' = Alone /\ Fits(Current, Len(chunks))'
    BY <1>1, <1>3, <2>2 DEF Fits, Size, Current, Alone, Span
  <2> QED
    BY <1>1, <1>3, <2>1, <2>2, <2>3 DEF TrackLoop
<1> QED
  BY <1>1, <1>4, <1>5, <1>6 DEF IInv, RefusesOnlyIndivisible

\* The current chunk, if any, is closed and the track is cut into pages.
LEMMA SplitTrackStep ==
    ASSUME IInv, SplitTrack
    PROVE  IInv'
<1>1. /\ body' = body /\ hint' = hint /\ chunks' = Closed /\ open' = Here
      /\ stage' = "clips" /\ stage = "tracks"
      /\ track' = track /\ clip' = clip /\ track <= body.tracks
      /\ ~Fits(Candidate, Len(chunks)) /\ ~Fits(Alone, Len(Closed))
  BY DEF SplitTrack, AtTrack
<1>2. Walked(Closed, Here)
  BY <1>1, ClosedWalked
<1>3. /\ Here \in [track : Nat, clip : Nat] /\ Here.track = track /\ Here.clip = clip
      /\ track <= body.tracks + 1 /\ clip <= Clips(body)
  BY Numbers DEF Here
<1>4. TypeOK'
  <2>1. /\ track' \in 1 .. body.tracks + 1 /\ clip' \in 0 .. Clips(body)
    BY <1>1, Numbers
  <2>2. /\ chunks' \in Seq(Chunk) /\ Len(chunks') <= MaxChunks
    BY <1>1, <1>2, <1>3, WalkBounded
  <2> QED
    BY <1>1, <1>3, <2>1, <2>2, FrameType
<1>5. Least' /\ Walked(chunks, open)'
  BY <1>1, <1>2, Frame DEF IInv
<1>6. clip = body.first[track] /\ clip <= NextFirst
  BY <1>1, Numbers DEF IInv, TrackLoop
<1>7. ClipLoop'
  BY <1>1, <1>3, <1>6, Numbers DEF ClipLoop, Fits, Size, Alone, Span, NextFirst
<1> QED
  BY <1>1, <1>4, <1>5, <1>7 DEF IInv, RefusesOnlyIndivisible

\* A clip is added to the page.
LEMMA AddClipStep ==
    ASSUME IInv, AddClip
    PROVE  IInv'
<1>1. /\ body' = body /\ hint' = hint /\ chunks' = chunks /\ open' = open
      /\ stage' = stage /\ stage = "clips" /\ track' = track
      /\ clip' = clip + 1 /\ clip < NextFirst /\ Fits(Page(clip + 1), Len(chunks))
  BY DEF AddClip, AtClip
<1>2. /\ track \in 1 .. body.tracks /\ NextFirst \in 0 .. Clips(body) /\ clip \in Nat
      /\ open.clip \in Nat
  BY <1>1, Numbers DEF IInv, ClipLoop
<1>3. TypeOK'
  <2>1. /\ track' \in 1 .. body.tracks + 1 /\ clip' \in 0 .. Clips(body)
    BY <1>1, <1>2, Numbers
  <2>2. /\ chunks' \in Seq(Chunk) /\ Len(chunks') <= MaxChunks
        /\ open' \in [track : Nat, clip : Nat]
    BY <1>1 DEF IInv, TypeOK
  <2> QED
    BY <1>1, <2>1, <2>2, FrameType
<1>4. Least' /\ Walked(chunks, open)'
  BY <1>1, Frame DEF IInv
<1>5. ClipLoop'
  BY <1>1, <1>2 DEF IInv, ClipLoop, Fits, Size, Page, Span, NextFirst
<1> QED
  BY <1>1, <1>3, <1>4, <1>5 DEF IInv, RefusesOnlyIndivisible

\* A page is closed and the clip begins another.
LEMMA NextPageStep ==
    ASSUME IInv, NextPage
    PROVE  IInv'
<1>1. /\ body' = body /\ hint' = hint /\ chunks' = Append(chunks, Page(clip))
      /\ open' = Here /\ stage' = stage /\ stage = "clips" /\ track' = track
      /\ clip' = clip + 1 /\ clip < NextFirst /\ open.clip < clip
      /\ ~Fits(Page(clip + 1), Len(chunks)) /\ Fits(Single, Len(chunks) + 1)
  BY DEF NextPage, AtClip
<1>2. /\ track \in 1 .. body.tracks /\ NextFirst \in 0 .. Clips(body) /\ clip \in Nat
      /\ open.clip \in Nat /\ body.first[track] <= open.clip /\ body.first[track] \in Nat
      /\ ~Fits(Span(track, track, body.first[track], NextFirst), Len(chunks))
      /\ body.tracks \in Nat /\ Clips(body) \in Nat
  BY <1>1, Numbers DEF IInv, ClipLoop
<1>3. Walked(chunks', Here)
  <2>1. /\ Walked(Append(chunks, Page(clip)), End(Page(clip)))
        /\ End(Page(clip)) = IF clip = NextFirst THEN At(track + 1, clip) ELSE Here
    BY <1>1, ClosePage
  <2> QED
    BY <2>1, <1>1, <1>2
<1>4. /\ Here \in [track : Nat, clip : Nat] /\ Here.track = track /\ Here.clip = clip
      /\ track <= body.tracks + 1 /\ clip <= Clips(body)
  BY Numbers DEF Here
<1>5. chunks' \in Seq(Chunk) /\ Len(chunks') <= MaxChunks /\ Len(chunks') = Len(chunks) + 1
  <2>1. chunks' \in Seq(Chunk) /\ Len(chunks') <= MaxChunks
    BY <1>3, <1>4, WalkBounded
  <2>2. Len(chunks') = Len(chunks) + 1
    BY <1>1, Numbers
  <2> QED
    BY <2>1, <2>2
<1>6. TypeOK'
  <2>1. /\ track' \in 1 .. body.tracks + 1 /\ clip' \in 0 .. Clips(body)
    BY <1>1, <1>2, Numbers
  <2> QED
    BY <1>1, <1>4, <1>5, <2>1, FrameType
<1>7. Least' /\ Walked(chunks, open)'
  BY <1>1, <1>3, Frame DEF IInv
<1>8. ~Fits(Span(track, track, body.first[track], NextFirst), Len(chunks) + 1)
  <2> DEFINE whole == Span(track, track, body.first[track], NextFirst)
  <2>1. whole \in Chunk /\ Within(whole, whole)
    <3>1. /\ body.first[track] <= NextFirst /\ NextFirst \in Nat /\ NextFirst <= Clips(body)
          /\ track \in Nat /\ 1 <= track /\ track <= body.tracks
      BY <1>1, <1>2
    <3> QED
      BY <3>1, <1>2 DEF Span, Chunk, Within
  <2>2. Len(chunks) \in 0 .. MaxChunks /\ Len(chunks) + 1 \in 0 .. MaxChunks
    BY <1>5, Numbers
  <2>3. hint \in 0 .. MaxChunks /\ WellFormed(body) /\ Len(chunks) <= Len(chunks) + 1
        /\ hint <= hint
    BY <2>2, Numbers
  <2>4. /\ Size(whole, Len(chunks), hint) <= Size(whole, Len(chunks) + 1, hint)
        /\ Size(whole, Len(chunks), hint) \in Int
        /\ Size(whole, Len(chunks) + 1, hint) \in Int
    <3> HIDE DEF whole
    <3> QED
      BY <2>1, <2>2, <2>3, SizeOrdered
  <2> QED
    BY <1>2, <2>4, SizeAssumption DEF Fits
<1>9. ClipLoop'
  <2>1. NextFirst' = NextFirst
    BY <1>1 DEF NextFirst
  <2>2. (~Fits(Span(track, track, body.first[track], NextFirst), Len(chunks)))'
    BY <1>1, <1>5, <1>8, <2>1 DEF Fits, Size, Span
  <2>3. Fits(Page(clip), Len(chunks))'
    BY <1>1, <1>4, <1>5 DEF Fits, Size, Page, Single, Span
  <2>4. /\ track' <= body'.tracks /\ open'.track = track'
        /\ body'.first[track'] <= open'.clip /\ open'.clip < clip' /\ clip' <= NextFirst'
    BY <1>1, <1>2, <1>4, <2>1
  <2>5. open'.clip # clip' /\ open'.clip <= clip'
    BY <1>1, <1>2, <1>4
  <2> QED
    BY <2>2, <2>3, <2>4, <2>5 DEF ClipLoop
<1> QED
  BY <1>1, <1>6, <1>7, <1>9 DEF IInv, RefusesOnlyIndivisible

\* The last page of a track is closed.
LEMMA EndTrackStep ==
    ASSUME IInv, EndTrack
    PROVE  IInv'
<1>1. /\ body' = body /\ hint' = hint /\ chunks' = Append(chunks, Page(clip))
      /\ open' = At(track + 1, clip) /\ stage' = "tracks" /\ stage = "clips"
      /\ track' = track + 1 /\ clip' = NextFirst /\ clip = NextFirst
  BY DEF EndTrack, NextTrack, At
<1>2. /\ track \in 1 .. body.tracks /\ clip \in 0 .. Clips(body)
      /\ body.tracks \in Nat /\ Clips(body) \in Nat
  BY <1>1, Numbers DEF IInv, ClipLoop
<1>3. Walked(chunks', At(track + 1, clip))
  BY <1>1, ClosePage
<1>4. /\ At(track + 1, clip) \in [track : Nat, clip : Nat]
      /\ At(track + 1, clip).track = track + 1 /\ At(track + 1, clip).clip = clip
      /\ track + 1 <= body.tracks + 1 /\ clip <= Clips(body)
  BY <1>2 DEF At
<1>5. TypeOK'
  <2>1. /\ track' \in 1 .. body.tracks + 1 /\ clip' \in 0 .. Clips(body)
    BY <1>1, <1>2
  <2>2. chunks' \in Seq(Chunk) /\ Len(chunks') <= MaxChunks
    BY <1>3, <1>4, WalkBounded
  <2> QED
    BY <1>1, <1>4, <2>1, <2>2, FrameType
<1>6. Least' /\ Walked(chunks, open)'
  BY <1>1, <1>3, Frame DEF IInv
<1>7. TrackLoop'
  BY <1>1, <1>2, <1>4 DEF TrackLoop, NextFirst
<1> QED
  BY <1>1, <1>5, <1>6, <1>7 DEF IInv, RefusesOnlyIndivisible

\* A clip no chunk can hold ends the packing.
LEMMA RefuseStep ==
    ASSUME IInv, Refuse
    PROVE  IInv'
<1>1. /\ body' = body /\ hint' = hint /\ chunks' = chunks /\ open' = open
      /\ stage' = "refused" /\ stage = "clips" /\ track' = track /\ clip' = clip
      /\ clip < NextFirst /\ ~Fits(Page(clip + 1), Len(chunks))
      /\ open.clip < clip => ~Fits(Single, Len(chunks) + 1)
  BY DEF Refuse, AtClip
<1>2. /\ track \in 1 .. body.tracks /\ NextFirst \in 0 .. Clips(body) /\ clip \in Nat
      /\ NextFirst = body.first[track + 1] /\ body.first[track] \in Nat
      /\ open.clip \in Nat /\ body.first[track] <= open.clip /\ open.clip <= clip
      /\ open.track = track /\ body.tracks \in Nat /\ Clips(body) \in Nat
  <2>1. /\ track \in 1 .. body.tracks + 1 /\ track <= body.tracks /\ open.track = track
        /\ body.first[track] <= open.clip /\ open.clip <= clip
    BY <1>1, Numbers DEF IInv, ClipLoop
  <2>2. /\ open.clip \in Nat /\ body.tracks \in Nat /\ Clips(body) \in Nat
        /\ clip \in Nat /\ body.first[track] \in Nat
    BY Numbers
  <2> QED
    BY <2>1, <2>2, NextNumbers DEF NextFirst
<1>3. TypeOK'
  <2>1. /\ track' \in 1 .. body.tracks + 1 /\ clip' \in 0 .. Clips(body)
    BY <1>1, Numbers
  <2>2. /\ chunks' \in Seq(Chunk) /\ Len(chunks') <= MaxChunks
        /\ open' \in [track : Nat, clip : Nat]
    BY <1>1 DEF IInv, TypeOK
  <2> QED
    BY <1>1, <2>1, <2>2, FrameType
<1>4. Least'
  BY <1>1, Frame DEF IInv
<1>5. Len(chunks) \in Nat /\ Len(chunks) < MaxChunks
  <2>1. Len(chunks) <= open.track - 1 + open.clip
    BY <1>1 DEF IInv, Walked
  <2>2. /\ Clips(body) + body.tracks <= MaxChunks
        /\ Len(chunks) \in Nat /\ MaxChunks \in Nat
    BY <1>2, Numbers
  <2>3. open.clip < Clips(body)
    BY <1>1, <1>2
  <2> QED
    BY <2>1, <2>2, <2>3, <1>2
<1>6. /\ Single \in Chunk /\ Within(Single, Single)
  <2>1. clip + 1 <= Clips(body) /\ track \in Nat /\ 1 <= track /\ track <= body.tracks
    BY <1>1, <1>2
  <2> QED
    BY <2>1, <1>2 DEF Single, Span, Chunk, Within
<1>7. /\ Size(Single, Len(chunks), hint) <= Size(Single, Len(chunks) + 1, hint)
      /\ Size(Single, Len(chunks), hint) \in Int
      /\ Size(Single, Len(chunks) + 1, hint) \in Int
  <2>1. /\ Len(chunks) \in 0 .. MaxChunks /\ Len(chunks) + 1 \in 0 .. MaxChunks
        /\ Len(chunks) <= Len(chunks) + 1
    BY <1>5, Numbers
  <2>2. hint \in 0 .. MaxChunks /\ hint <= hint /\ WellFormed(body)
    BY Numbers
  <2> QED
    BY <2>1, <2>2, <1>6, SizeOrdered
<1>8. Size(Single, Len(chunks) + 1, hint) > Budget
  <2>1. CASE open.clip < clip
    BY <2>1, <1>1, <1>7, SizeAssumption DEF Fits
  <2>2. CASE open.clip = clip
    <3>1. Page(clip + 1) = Single
      BY <2>2 DEF Page, Single, Span
    <3> QED
      BY <3>1, <1>1, <1>7, SizeAssumption DEF Fits
  <2> QED
    BY <2>1, <2>2, <1>2
<1>9. RefusesOnlyIndivisible'
  <2>1. /\ clip \in body.first[track] .. body.first[track + 1]
        /\ clip + 1 \in body.first[track] .. body.first[track + 1]
        /\ clip # clip + 1
    <3>1. clip < NextFirst
      BY <1>1
    <3> QED
      BY ONLY <3>1, <1>2
  <2>2. Indivisible(Span(track, track, clip, clip + 1))
    BY DEF Indivisible, Span
  <2>3. \E t \in 1 .. body.tracks :
           \E lo, hi \in body.first[t] .. body.first[t + 1] :
               /\ Indivisible(Span(t, t, lo, hi))
               /\ lo = hi => body.first[t] = body.first[t + 1]
               /\ Size(Span(t, t, lo, hi), Len(chunks) + 1, hint) > Budget
    BY <1>2, <1>8, <2>1, <2>2 DEF Single
  <2> QED
    BY <2>3, <1>1, <1>5 DEF RefusesOnlyIndivisible, Size, Indivisible
<1> QED
  BY <1>1, <1>3, <1>4, <1>9 DEF IInv

\* What fits next to a longer count fits next to a shorter one.
LEMMA PacksUnderLess ==
    ASSUME WellFormed(body), NEW m \in 0 .. MaxChunks, NEW n \in 0 .. MaxChunks, m <= n,
           NEW p \in Seq(Chunk), Packs(p, n)
    PROVE  Packs(p, m)
<1>1. SUFFICES ASSUME NEW k \in 1 .. Len(p) PROVE Sound(p[k], k - 1, m)
  BY DEF Packs, Fitted
<1>2. /\ p[k] \in Chunk /\ Sound(p[k], k - 1, n) /\ Len(p) \in Nat /\ Len(p) <= MaxChunks
  BY DEF Packs, Fitted
<1>3. k - 1 \in 0 .. MaxChunks /\ k - 1 <= k - 1 /\ MaxChunks \in Nat
  BY <1>2, SizeAssumption
<1>4. Piece(p[k])
  BY <1>2 DEF Sound
<1>5. Within(p[k], p[k])
  BY <1>2, <1>4, WithinItself
<1>6. /\ Size(p[k], k - 1, m) <= Size(p[k], k - 1, n)
      /\ Size(p[k], k - 1, m) \in Int /\ Size(p[k], k - 1, n) \in Int
  BY <1>2, <1>3, <1>5, SizeOrdered
<1> QED
  BY <1>2, <1>6, SizeAssumption DEF Sound

\* A pass ends with a packing of the arrangement, no longer than any other and no
\* shorter than the count it made room for.
LEMMA PassPacks ==
    ASSUME IInv, AtEnd
    PROVE  /\ Closed \in Seq(Chunk) /\ Len(Closed) \in 0 .. MaxChunks
           /\ Packs(Closed, hint) /\ hint <= Len(Closed)
           /\ \A p \in Seq(Chunk) : Packs(p, hint) => Len(Closed) <= Len(p)
<1>1. /\ stage = "tracks" /\ track = body.tracks + 1 /\ clip = Clips(body)
      /\ body.tracks \in Nat /\ Clips(body) \in Nat /\ MaxChunks \in Nat /\ hint \in Nat
  <2>1. stage = "tracks" /\ track > body.tracks /\ clip = body.first[track]
    BY DEF AtEnd, IInv, TrackLoop
  <2>2. track = body.tracks + 1
    BY <2>1, Numbers
  <2>3. clip = Clips(body)
    BY <2>1, <2>2 DEF Clips
  <2> QED
    BY <2>1, <2>2, <2>3, Numbers
<1>2. Walked(Closed, Here)
  BY <1>1, ClosedWalked
<1>3. Here = At(body.tracks + 1, Clips(body)) /\ Here \in [track : Nat, clip : Nat]
      /\ Here.track = body.tracks + 1 /\ Here.clip = Clips(body)
  BY <1>1 DEF Here, At
<1>4. Closed \in Seq(Chunk) /\ Len(Closed) \in Nat /\ Len(Closed) <= MaxChunks
  BY <1>1, <1>2, <1>3, WalkBounded
<1>5. Packs(Closed, hint)
  BY <1>2, <1>3, <1>4 DEF Walked, Packs
<1>6. hint <= Len(Closed)
  BY <1>4, <1>5 DEF IInv, Least
<1>7. \A p \in Seq(Chunk) : Packs(p, hint) => Len(Closed) <= Len(p)
  BY <1>2 DEF Walked, Ahead
<1> QED
  BY <1>1, <1>4, <1>5, <1>6, <1>7

\* A pass with another number of chunks than the count begins the next one.
LEMMA RepackStep ==
    ASSUME IInv, Repack
    PROVE  IInv' /\ hint' >= hint
<1>1. /\ body' = body /\ hint' = Len(Closed) /\ chunks' = <<>> /\ open' = At(1, 0)
      /\ stage' = stage /\ stage = "tracks" /\ track' = 1 /\ clip' = 0 /\ AtEnd
  BY DEF Repack, Begin, AtEnd, At
<1>2. /\ hint' \in 0 .. MaxChunks /\ hint <= hint' /\ hint \in 0 .. MaxChunks
      /\ hint' \in Int /\ hint \in Int /\ WellFormed(body)
  BY <1>1, PassPacks, Numbers
<1>3. TypeOK'
  <2>1. /\ track' \in 1 .. body.tracks + 1 /\ clip' \in 0 .. Clips(body)
        /\ open' \in [track : Nat, clip : Nat]
    BY <1>1, Numbers DEF At
  <2>2. chunks' \in Seq(Chunk) /\ Len(chunks') <= MaxChunks
    BY <1>1, SizeAssumption
  <2> QED
    BY <1>1, <1>2, <2>1, <2>2 DEF TypeOK, WellFormed, Clips
<1>4. Least'
  <2>1. ASSUME NEW p \in Seq(Chunk), Packs(p, hint)' PROVE Len(Closed) <= Len(p)
    <3>1. Packs(p, Len(Closed))
      BY <1>1, <2>1 DEF Packs, Chained, Fitted, Reaches, Sound, Piece, EmptyTrack, Size, End,
         At, Follows, Clips
    <3>2. Packs(p, hint)
      BY <3>1, <1>1, <1>2, PacksUnderLess
    <3> QED
      BY <3>2, <1>1, PassPacks
  <2> QED
    BY <2>1, <1>1 DEF Least
<1>5. Walked(chunks, open)'
  BY <1>1 DEF Walked, Chained, Fitted, Reaches, Ahead, At
<1>6. TrackLoop'
  BY <1>1, <1>2, BodyFacts DEF TrackLoop, At
<1> QED
  BY <1>1, <1>2, <1>3, <1>4, <1>5, <1>6 DEF IInv, RefusesOnlyIndivisible

\* A pass with as many chunks as the count is the packing.
LEMMA PackedStep ==
    ASSUME IInv, Packed
    PROVE  IInv'
<1>1. /\ body' = body /\ hint' = hint /\ chunks' = Closed /\ open' = open
      /\ stage' = "packed" /\ stage = "tracks" /\ track' = track /\ clip' = clip
      /\ AtEnd /\ Len(Closed) = hint
  BY DEF Packed, AtEnd
<1>2. TypeOK'
  <2>1. /\ track' \in 1 .. body.tracks + 1 /\ clip' \in 0 .. Clips(body)
        /\ open' \in [track : Nat, clip : Nat]
    BY <1>1, Numbers
  <2>2. chunks' \in Seq(Chunk) /\ Len(chunks') <= MaxChunks
    BY <1>1, PassPacks, Numbers
  <2> QED
    BY <1>1, <2>1, <2>2, FrameType
<1>3. Least'
  BY <1>1, Frame DEF IInv
<1>4. Packs(chunks, hint)'
  <2>1. Packs(Closed, hint)
    BY <1>1, PassPacks
  <2> QED
    BY <2>1, <1>1 DEF Packs, Chained, Fitted, Reaches, Sound, Piece, EmptyTrack, Size, End,
       At, Follows, Clips
<1> QED
  BY <1>1, <1>2, <1>3, <1>4 DEF IInv, RefusesOnlyIndivisible

\* The packing is answered, or an empty track in it is over the budget.
LEMMA AnswerStep ==
    ASSUME IInv, Answer
    PROVE  IInv'
<1>1. /\ body' = body /\ hint' = hint /\ chunks' = chunks /\ open' = open
      /\ stage = "packed" /\ track' = track /\ clip' = clip
      /\ stage' \in {"answered", "refused"}
      /\ Packs(chunks, hint) /\ hint = Len(chunks)
  BY DEF Answer, IInv
<1>2. TypeOK'
  <2>1. /\ track' \in 1 .. body.tracks + 1 /\ clip' \in 0 .. Clips(body)
        /\ chunks' \in Seq(Chunk) /\ Len(chunks') <= MaxChunks
        /\ open' \in [track : Nat, clip : Nat]
    BY <1>1, Numbers DEF IInv, TypeOK
  <2> QED
    BY <1>1, <2>1, FrameType
<1>3. Least'
  BY <1>1, Frame DEF IInv
<1>4. Packs(chunks, hint)'
  BY <1>1 DEF Packs, Chained, Fitted, Reaches, Sound, Piece, EmptyTrack, Size, End,
     At, Follows, Clips
<1>5. ASSUME stage' = "refused" PROVE RefusesOnlyIndivisible'
  <2>1. PICK k \in 1 .. Len(chunks) : ~(Size(chunks[k], k - 1, hint) <= Budget)
    BY <1>1, <1>5 DEF Answer
  <2> DEFINE c == chunks[k]
             index == IF Len(chunks) < MaxChunks THEN Len(chunks) + 1 ELSE MaxChunks
  <2>2. c \in Chunk /\ Len(chunks) \in 0 .. MaxChunks /\ MaxChunks \in Nat
    BY Numbers DEF IInv, TypeOK
  <2>3. Piece(c) /\ EmptyTrack(c)
    BY <1>1, <2>1 DEF Packs, Fitted, Sound
  <2>4. WellFormed(body)
    BY Numbers
  <2>5. /\ c.from \in Nat /\ c.lo \in Nat /\ 1 <= c.from /\ c.from <= c.to
        /\ c.to <= body.tracks /\ c.hi <= Clips(body)
    BY <2>2, <2>3, <2>4, PieceFacts
  <2>6. /\ c.from \in Nat /\ c.lo \in Nat /\ c.from = c.to /\ c.lo = c.hi
        /\ 1 <= c.from /\ c.from <= body.tracks /\ c.lo <= Clips(body)
        /\ c.lo = body.first[c.from] /\ c.lo = body.first[c.from + 1]
    BY <2>3, <2>5 DEF EmptyTrack, Piece
  <2>7. c = Span(c.from, c.from, c.lo, c.lo)
    BY <2>2, <2>6 DEF Chunk, Span
  <2>8. Within(c, c)
    BY <2>2, <2>3, <2>4, WithinItself
  <2>9. k - 1 \in 0 .. MaxChunks /\ index \in 0 .. MaxChunks /\ k - 1 <= index
    BY <2>2
  <2>10. Size(c, index, hint) > Budget
    <3>1. hint \in 0 .. MaxChunks /\ hint <= hint /\ WellFormed(body)
      BY Numbers
    <3>2. /\ Size(c, k - 1, hint) <= Size(c, index, hint)
          /\ Size(c, k - 1, hint) \in Int /\ Size(c, index, hint) \in Int
      <4> HIDE DEF c, index
      <4> QED
        BY <3>1, <2>2, <2>8, <2>9, SizeOrdered
    <3> QED
      BY <3>2, <2>1, SizeAssumption
  <2>11. \E t \in 1 .. body.tracks :
           \E lo, hi \in body.first[t] .. body.first[t + 1] :
               /\ Indivisible(Span(t, t, lo, hi))
               /\ lo = hi => body.first[t] = body.first[t + 1]
               /\ Size(Span(t, t, lo, hi), index, hint) > Budget
    <3>1. c.from \in 1 .. body.tracks /\ c.lo \in body.first[c.from] .. body.first[c.from + 1]
      BY <2>6, Numbers
    <3>2. Indivisible(Span(c.from, c.from, c.lo, c.lo))
      BY DEF Indivisible, Span
    <3>3. Size(Span(c.from, c.from, c.lo, c.lo), index, hint) > Budget
      BY <2>7, <2>10
    <3>4. body.first[c.from] = body.first[c.from + 1]
      BY <2>6
    <3> HIDE DEF c, index
    <3> QED
      BY <3>1, <3>2, <3>3, <3>4
  <2> QED
    BY <2>11, <1>1 DEF RefusesOnlyIndivisible, Size, Indivisible
<1>6. RefusesOnlyIndivisible'
  BY <1>5 DEF RefusesOnlyIndivisible
<1> QED
  BY <1>1, <1>2, <1>3, <1>4, <1>6 DEF IInv

\* The first pass is under the least of all counts.
LEMMA InitHolds ==
    ASSUME Init
    PROVE  IInv
<1>1. /\ body \in Bodies /\ hint = 0 /\ chunks = <<>> /\ open = At(1, 0)
      /\ stage = "tracks" /\ track = 1 /\ clip = 0
  BY DEF Init, InitWithCount, At
<1>2. WellFormed(body)
  BY <1>1, BodyAssumption
<1>3. TypeOK
  BY <1>1, <1>2, BodyFacts, SizeAssumption DEF TypeOK, At
<1>4. Least
  BY <1>1 DEF Least
<1>5. Walked(chunks, open)
  BY <1>1 DEF Walked, Chained, Fitted, Reaches, Ahead, At
<1>6. TrackLoop
  BY <1>1, <1>2, BodyFacts DEF TrackLoop, At
<1> QED
  BY <1>1, <1>3, <1>4, <1>5, <1>6 DEF IInv, RefusesOnlyIndivisible

\* No step breaks the invariant, and none lowers the count.
LEMMA StepHolds ==
    ASSUME IInv, [Next]_vars
    PROVE  IInv' /\ (hint' >= hint \/ UNCHANGED hint)
<1>0. hint \in Int
  BY Numbers
<1>1. CASE AddTrack
  BY <1>0, <1>1, AddTrackStep DEF AddTrack
<1>2. CASE NewChunk
  BY <1>0, <1>2, NewChunkStep DEF NewChunk
<1>3. CASE SplitTrack
  BY <1>0, <1>3, SplitTrackStep DEF SplitTrack
<1>4. CASE AddClip
  BY <1>0, <1>4, AddClipStep DEF AddClip
<1>5. CASE NextPage
  BY <1>0, <1>5, NextPageStep DEF NextPage
<1>6. CASE Refuse
  BY <1>0, <1>6, RefuseStep DEF Refuse
<1>7. CASE EndTrack
  BY <1>0, <1>7, EndTrackStep DEF EndTrack
<1>8. CASE Repack
  BY <1>8, RepackStep
<1>9. CASE Packed
  BY <1>0, <1>9, PackedStep DEF Packed
<1>10. CASE Answer
  BY <1>0, <1>10, AnswerStep DEF Answer
<1>11. CASE UNCHANGED vars
  <2>1. /\ body' = body /\ hint' = hint /\ chunks' = chunks /\ open' = open
        /\ track' = track /\ clip' = clip /\ stage' = stage
    BY <1>11 DEF vars
  <2>2. TypeOK'
    BY <2>1, FrameType DEF IInv, TypeOK
  <2>3. /\ Least' <=> Least
        /\ Walked(chunks, open)' <=> Walked(chunks, open)
        /\ Packs(chunks, hint)' <=> Packs(chunks, hint)
    BY <2>1, Frame
  <2>4. /\ TrackLoop' <=> TrackLoop
        /\ ClipLoop' <=> ClipLoop
        /\ RefusesOnlyIndivisible' <=> RefusesOnlyIndivisible
    <3>1. TrackLoop' <=> TrackLoop
      BY <2>1 DEF TrackLoop, Fits, Size, Current, Span
    <3>2. ClipLoop' <=> ClipLoop
      BY <2>1 DEF ClipLoop, Fits, Size, Page, Span, NextFirst
    <3>3. RefusesOnlyIndivisible' <=> RefusesOnlyIndivisible
      BY <2>1 DEF RefusesOnlyIndivisible, Size, Indivisible
    <3> QED
      BY <3>1, <3>2, <3>3
  <2> QED
    BY <2>1, <2>2, <2>3, <2>4 DEF IInv
<1> QED
  BY <1>1, <1>2, <1>3, <1>4, <1>5, <1>6, <1>7, <1>8, <1>9, <1>10, <1>11 DEF Next

-----------------------------------------------------------------------------
(* The theorems. *)

\* The invariant holds while the snapshot is cut, of any arrangement and any sizes.
THEOREM Invariant == Spec => []IInv
<1>1. Init => IInv
  BY InitHolds
<1>2. IInv /\ [Next]_vars => IInv'
  BY StepHolds
<1> QED
  BY <1>1, <1>2, PTL DEF Spec

\* The numbers of the packing stay in their ranges: there are never more chunks
\* than tracks and clips.
THEOREM TypeCorrect == Spec => []TypeOK
<1>1. IInv => TypeOK
  BY DEF IInv
<1> QED
  BY <1>1, Invariant, PTL

\* The chunks that are sent, put together, are the arrangement: no clip is lost,
\* sent twice or out of place between tracks, chunks and pages.
THEOREM ChunksAlwaysTheBody == Spec => []ChunksAreTheBody
<1>1. IInv => ChunksAreTheBody
  <2>1. SUFFICES ASSUME IInv, stage = "answered" PROVE ChunksAreTheBody
    BY DEF ChunksAreTheBody
  <2>2. Packs(chunks, hint) /\ chunks \in Seq(Chunk)
    BY <2>1 DEF IInv, TypeOK
  <2>3. CASE chunks = <<>>
    BY <2>2, <2>3, Numbers, <2>1 DEF Packs, Chained, Reaches, At, ChunksAreTheBody
  <2>4. CASE chunks # <<>>
    <3> DEFINE last == chunks[Len(chunks)]
    <3>1. Len(chunks) \in Nat /\ Len(chunks) > 0 /\ last \in Chunk
      BY <2>2, <2>4
    <3>2. Piece(last) /\ End(last) = At(body.tracks + 1, Clips(body))
      BY <2>2, <2>4, <3>1 DEF Packs, Fitted, Sound, Reaches
    <3>3. last.to = body.tracks /\ last.hi = Clips(body)
      <4>1. WellFormed(body) /\ body.tracks \in Nat /\ Clips(body) \in Nat
        BY <2>1, Numbers
      <4>2. last.to \in Nat /\ last.to <= body.tracks
        BY <3>1, <3>2, <4>1, PieceFacts
      <4> QED
        BY <3>2, <4>1, <4>2 DEF End, At
    <3> QED
      BY <2>2, <2>4, <3>3 DEF Packs, Chained, ChunksAreTheBody
  <2> QED
    BY <2>3, <2>4
<1> QED
  BY <1>1, Invariant, PTL

\* The check of the chunks after the packing can only turn down an empty track.
THEOREM OnlyEmptyTracksEverFail == Spec => []OnlyEmptyTracksFailTheCheck
<1>1. IInv => OnlyEmptyTracksFailTheCheck
  <2>1. SUFFICES ASSUME IInv, stage = "packed", NEW k \in 1 .. Len(chunks),
                        Size(chunks[k], k - 1, Len(chunks)) > Budget
                 PROVE  chunks[k].lo = chunks[k].hi
    BY DEF OnlyEmptyTracksFailTheCheck
  <2>2. Sound(chunks[k], k - 1, Len(chunks))
    BY <2>1 DEF IInv, Packs, Fitted
  <2>3. Piece(chunks[k]) /\ chunks[k] \in Chunk
    BY <2>1, <2>2 DEF Sound, IInv, TypeOK
  <2>4. Size(chunks[k], k - 1, Len(chunks)) \in Int
    <3>1. Within(chunks[k], chunks[k])
      BY <2>1, <2>3, Numbers, WithinItself
    <3>2. /\ k - 1 \in 0 .. MaxChunks /\ k - 1 <= k - 1 /\ WellFormed(body)
          /\ Len(chunks) \in 0 .. MaxChunks /\ Len(chunks) <= Len(chunks)
      BY <2>1, Numbers DEF IInv, TypeOK
    <3> QED
      BY <3>1, <3>2, <2>3, SizeOrdered
  <2> QED
    BY <2>1, <2>2, <2>4, SizeAssumption DEF Sound, EmptyTrack
<1> QED
  BY <1>1, Invariant, PTL

\* A snapshot is only refused for a clip or an empty track that fits no chunk.
THEOREM RefusesOnlyIndivisibleAlways == Spec => []RefusesOnlyIndivisible
<1>1. IInv => RefusesOnlyIndivisible
  BY DEF IInv
<1> QED
  BY <1>1, Invariant, PTL

\* No pass finds fewer chunks than the count it was given, so the loop over the
\* count cannot go back and forth between two counts.
THEOREM HintAlwaysGrows == Spec => HintGrows
<1>1. IInv /\ [Next]_vars => [hint' >= hint]_vars
  BY StepHolds DEF vars, IInv, TypeOK
<1> QED
  BY <1>1, Invariant, PTL DEF Spec, HintGrows

=============================================================================
