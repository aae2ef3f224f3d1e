--------------------------- MODULE MCSnapshotChunks ---------------------------
(* Up to three tracks of up to three clips, small or large, in chunks of    *)
(* nine bytes.  Numbers get longer at 2, 4 and 6 instead of at 10 and 100, *)
(* so that the count of chunks crosses a length in most arrangements.       *)
EXTENDS SnapshotChunks

CONSTANTS MaxTracks, MaxClips, ClipBytes

Upto(n, S) == UNION {[1 .. m -> S] : m \in 0 .. n}
Arrangements == Upto(MaxTracks, Upto(MaxClips, ClipBytes))

\* The sums of the prefixes of s.
Sums(s) == LET sum[n \in 0 .. Len(s)] == IF n = 0 THEN 0 ELSE sum[n - 1] + s[n] IN sum

AllClips(a) ==
    LET upto[t \in 0 .. Len(a)] == IF t = 0 THEN <<>> ELSE upto[t - 1] \o a[t]
    IN upto[Len(a)]

BodyOf(a) ==
    LET before == Sums([t \in DOMAIN a |-> Len(a[t])]) IN
    [tracks |-> Len(a),
     first |-> [t \in 1 .. Len(a) + 1 |-> before[t - 1]],
     key |-> [t \in 1 .. Len(a) + 1 |-> t - 1],
     bytes |-> Sums(AllClips(a))]

MCBodies == {BodyOf(a) : a \in Arrangements}
MCMaxChunks == MaxTracks + MaxTracks * MaxClips
MCDigits == [n \in 0 .. MCMaxChunks |-> 1 + n \div 2]
=============================================================================
