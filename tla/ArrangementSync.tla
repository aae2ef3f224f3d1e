---------------------------- MODULE ArrangementSync ----------------------------
(***************************************************************************)
(* Clients that mirror the arrangement over UDP.  The bridge answers the   *)
(* three endpoints of song.py 346-373 out of ArrangementCache; a request   *)
(* or a reply may be lost or overtaken, and a client that waited too long  *)
(* asks again.  The client is the application on the other side of the     *)
(* wire, not part of this repository: it fetches a manifest and then every *)
(* chunk under the manifest's snapshot id, polls for deltas with its       *)
(* revision, applies a delta whose base revision is its own, and starts    *)
(* over when it is told to resync.                                         *)
(***************************************************************************)
EXTENDS ArrangementCache

CONSTANTS
    Clients,
    Unsendable,     \* layouts whose manifest is over one datagram
    NoContents, NoManifest,
    MaxEdits, MaxLosses, MaxEpoch,      \* bounds on the environment
    MaxInFlight     \* messages of one client on the wire at once

ASSUME EpochAssumption == MaxEpoch \in Nat \ {0}
ASSUME EmptyAssumption == NoContents \notin Contents

Epoch == 0 .. MaxEpoch
Mixed == 0      \* the epoch of a mirror put together from two caches

Request ==
    [ask : {"manifest"}, from : Clients]
    \union [ask : {"chunk"}, from : Clients, id : SnapshotId, track : Tracks]
    \union [ask : {"delta"}, from : Clients, since : Revision]

Manifest == [is : {"manifest"}, to : Clients, id : SnapshotId, revision : Revision,
             layout : Layouts, locators : Locators, epoch : Epoch]
Chunk == [is : {"chunk"}, to : Clients, id : SnapshotId, track : Tracks, clips : Contents]
Change == [clips : UNION {[ts -> Contents] : ts \in SUBSET Tracks},
           locators : SUBSET Locators]
\* now is history: the song when the delta was computed.
Delta == [is : {"delta"}, to : Clients, base : Revision, revision : Revision,
          changes : Change, epoch : Epoch, now : Body]
\* unknown_snapshot and resync_required.
Restart == [is : {"restart"}, to : Clients]
Failure == [is : {"failure"}, to : Clients]

ASSUME ManifestAssumption == NoManifest \notin Manifest

VARIABLES
    requests, replies,      \* the wire
    mirror,     \* the body a client shows
    known,      \* its revision
    fetch,      \* the manifest whose chunks a client is fetching
    got,        \* the chunks it has of it
    made,       \* history: the epoch the mirror comes from
    edits, losses

wire == <<requests, replies>>
clientVars == <<mirror, known, fetch, got, made>>
vars == <<song, cacheVars, wire, clientVars, edits, losses>>

-----------------------------------------------------------------------------
InFlight(c) == Cardinality({r \in requests : r.from = c}) + Cardinality({m \in replies : m.to = c})

Answer(r, reply) ==
    /\ requests' = requests \ {r}
    /\ replies' = replies \union reply
    /\ UNCHANGED <<song, clientVars, edits, losses>>

(* The bridge serves the requests it has, one at a time. *)

ServeManifest(r) ==
    /\ r.ask = "manifest"
    /\ \/ /\ ManifestBuilt
          /\ Answer(r, {[is |-> "manifest", to |-> r.from, id |-> CurrentId,
                         revision |-> revision + 1, layout |-> l,
                         locators |-> song.locators, epoch |-> epoch] :
                            l \in {song.layout} \ Unsendable})
       \/ ManifestFailed /\ Answer(r, {[is |-> "failure", to |-> r.from]})

\* Mutant: chunks are looked up by their index alone.
ServeChunkOfAnySnapshot(r) ==
    /\ r.ask = "chunk"
    /\ Answer(r, {IF chunks # NoChunks
                  THEN [is |-> "chunk", to |-> r.from, id |-> r.id, track |-> r.track,
                        clips |-> chunks.clips[r.track]]
                  ELSE [is |-> "restart", to |-> r.from]})
    /\ UNCHANGED cacheVars

\* Mutant: an unknown snapshot has no clips.
ServeChunkUnknownAsEmpty(r) ==
    /\ r.ask = "chunk"
    /\ Answer(r, {[is |-> "chunk", to |-> r.from, id |-> r.id, track |-> r.track,
                   clips |-> IF chunks # NoChunks /\ chunks.id = r.id
                             THEN chunks.clips[r.track] ELSE NoContents]})
    /\ UNCHANGED cacheVars

ServeChunk(r) ==
    /\ r.ask = "chunk"
    /\ Answer(r, {IF chunks # NoChunks /\ chunks.id = r.id
                  THEN [is |-> "chunk", to |-> r.from, id |-> r.id, track |-> r.track,
                        clips |-> chunks.clips[r.track]]
                  ELSE [is |-> "restart", to |-> r.from]})
    /\ UNCHANGED cacheVars

ServeDelta(r) ==
    /\ r.ask = "delta"
    /\ \/ /\ NeedsResync(r.since)
          /\ Answer(r, {[is |-> "restart", to |-> r.from]})
          /\ UNCHANGED cacheVars
       \/ /\ DeltaFails(r.since)
          /\ Answer(r, {[is |-> "failure", to |-> r.from]})
          /\ UNCHANGED cacheVars
       \/ /\ DeltaAnswered(r.since)
          /\ Answer(r, {[is |-> "delta", to |-> r.from, base |-> r.since,
                         revision |-> revision', changes |-> Changes,
                         epoch |-> epoch, now |-> song]})

Serve(r) == ServeManifest(r) \/ ServeChunk(r) \/ ServeDelta(r)

-----------------------------------------------------------------------------
(* The clients. *)

Ask(c, r) ==
    /\ InFlight(c) < MaxInFlight
    /\ r \notin requests
    /\ requests' = requests \union {r}
    /\ UNCHANGED <<song, cacheVars, replies, clientVars, edits, losses>>

AskManifest(c) ==
    mirror[c] = NoBody /\ fetch[c] = NoManifest /\ Ask(c, [ask |-> "manifest", from |-> c])

AskChunk(c, t) ==
    /\ fetch[c] # NoManifest /\ got[c][t] = NoContents
    /\ Ask(c, [ask |-> "chunk", from |-> c, id |-> fetch[c].id, track |-> t])

AskDelta(c) ==
    mirror[c] # NoBody /\ Ask(c, [ask |-> "delta", from |-> c, since |-> known[c]])

Consume(m) ==
    /\ replies' = replies \ {m}
    /\ UNCHANGED <<song, cacheVars, requests, edits, losses>>

TakeManifest(m) ==
    /\ m.is = "manifest"
    /\ Consume(m)
    /\ IF mirror[m.to] = NoBody /\ fetch[m.to] = NoManifest
       THEN /\ fetch' = [fetch EXCEPT ![m.to] = m]
            /\ got' = [got EXCEPT ![m.to] = [t \in Tracks |-> NoContents]]
       ELSE UNCHANGED <<fetch, got>>
    /\ UNCHANGED <<mirror, known, made>>

TakeChunk(m) ==
    /\ m.is = "chunk"
    /\ Consume(m)
    /\ got' = IF fetch[m.to] # NoManifest /\ fetch[m.to].id = m.id
              THEN [got EXCEPT ![m.to][m.track] = m.clips] ELSE got
    /\ UNCHANGED <<mirror, known, fetch, made>>

\* All chunks are there: the mirror is put together.
Assemble(c) ==
    /\ fetch[c] # NoManifest
    /\ \A t \in Tracks : got[c][t] # NoContents
    /\ mirror' = [mirror EXCEPT ![c] = [layout |-> fetch[c].layout, clips |-> got[c],
                                        locators |-> fetch[c].locators]]
    /\ known' = [known EXCEPT ![c] = fetch[c].revision]
    /\ made' = [made EXCEPT ![c] = fetch[c].epoch]
    /\ fetch' = [fetch EXCEPT ![c] = NoManifest]
    /\ UNCHANGED <<song, cacheVars, wire, got, edits, losses>>

Patched(b, changes) ==
    [layout |-> b.layout,
     clips |-> [t \in Tracks |-> IF t \in DOMAIN changes.clips
                                 THEN changes.clips[t] ELSE b.clips[t]],
     locators |-> IF changes.locators = {} THEN b.locators
                  ELSE CHOOSE l \in changes.locators : TRUE]

TakeDelta(m) ==
    /\ m.is = "delta"
    /\ Consume(m)
    /\ IF mirror[m.to] # NoBody /\ known[m.to] = m.base
       THEN /\ mirror' = [mirror EXCEPT ![m.to] = Patched(@, m.changes)]
            /\ known' = [known EXCEPT ![m.to] = m.revision]
            /\ made' = [made EXCEPT ![m.to] = IF @ = m.epoch THEN @ ELSE Mixed]
       ELSE UNCHANGED <<mirror, known, made>>
    /\ UNCHANGED <<fetch, got>>

TakeRestart(m) ==
    /\ m.is = "restart"
    /\ Consume(m)
    /\ mirror' = [mirror EXCEPT ![m.to] = NoBody]
    /\ fetch' = [fetch EXCEPT ![m.to] = NoManifest]
    /\ UNCHANGED <<known, got, made>>

TakeFailure(m) == m.is = "failure" /\ Consume(m) /\ UNCHANGED clientVars

Take(m) == TakeManifest(m) \/ TakeChunk(m) \/ TakeDelta(m) \/ TakeRestart(m) \/ TakeFailure(m)

-----------------------------------------------------------------------------
(* The environment: the user edits the song, the wire loses messages, the  *)
(* bridge is reloaded.                                                     *)

Edit(b) ==
    /\ edits < MaxEdits /\ b # song
    /\ song' = b
    /\ edits' = edits + 1
    /\ UNCHANGED <<cacheVars, wire, clientVars, losses>>

Lose ==
    /\ losses < MaxLosses
    /\ \/ \E r \in requests : requests' = requests \ {r} /\ UNCHANGED replies
       \/ \E m \in replies : replies' = replies \ {m} /\ UNCHANGED requests
    /\ losses' = losses + 1
    /\ UNCHANGED <<song, cacheVars, clientVars, edits>>

Reload ==
    /\ epoch < MaxEpoch
    /\ NewCache
    /\ UNCHANGED <<song, wire, clientVars, edits, losses>>

Init ==
    /\ CacheInit
    /\ requests = {} /\ replies = {}
    /\ mirror = [c \in Clients |-> NoBody]
    /\ known = [c \in Clients |-> 0]
    /\ fetch = [c \in Clients |-> NoManifest]
    /\ got = [c \in Clients |-> [t \in Tracks |-> NoContents]]
    /\ made = [c \in Clients |-> Mixed]
    /\ edits = 0 /\ losses = 0

Next ==
    \/ \E r \in requests : Serve(r)
    \/ \E c \in Clients : AskManifest(c) \/ AskDelta(c) \/ Assemble(c)
    \/ \E c \in Clients, t \in Tracks : AskChunk(c, t)
    \/ \E m \in replies : Take(m)
    \/ \E b \in Body : Edit(b)
    \/ Lose
    \/ Reload

Spec == Init /\ [][Next]_vars

\* The bridge's tick serves what was received; clients keep polling.
Fairness ==
    /\ WF_vars(\E r \in requests : Serve(r))
    /\ WF_vars(\E m \in replies : Take(m))
    /\ \A c \in Clients : WF_vars(AskManifest(c)) /\ WF_vars(AskDelta(c)) /\ WF_vars(Assemble(c))
    /\ \A c \in Clients, t \in Tracks : WF_vars(AskChunk(c, t))

FairSpec == Spec /\ Fairness

-----------------------------------------------------------------------------
(* What holds. *)

TypeOK ==
    /\ CacheTypeOK
    /\ epoch \in 1 .. MaxEpoch
    /\ requests \subseteq Request
    /\ replies \subseteq Manifest \union Chunk \union Delta \union Restart \union Failure
    /\ mirror \in [Clients -> Body \union {NoBody}]
    /\ known \in [Clients -> Revision]
    /\ fetch \in [Clients -> Manifest \union {NoManifest}]
    /\ got \in [Clients -> [Tracks -> Contents \union {NoContents}]]
    /\ made \in [Clients -> Epoch]
    /\ edits \in Nat /\ losses \in Nat

\* A mirror built from one cache is, at each of its revisions, the body the cache
\* announced under that revision: no loss, overtaking or retry mixes two bodies.
MirrorIsPublished ==
    \A c \in Clients : mirror[c] # NoBody /\ made[c] = epoch =>
                          mirror[c] = published[known[c]]

\* A revision that delta() accepts is one whose client has the very snapshot the
\* difference is taken from.
AcceptedMirrorIsSnapshot ==
    \A c \in Clients : mirror[c] # NoBody /\ made[c] = epoch /\ Known(known[c]) =>
                          mirror[c] = snapshot

\* A delta that arrives, "no changes" included, takes the mirror of its base
\* revision to the song as it was when the delta was computed.
DeltaIsCurrent ==
    \A m \in replies :
        m.is = "delta" /\ m.epoch = epoch /\ published[m.base] # NoBody =>
            Patched(published[m.base], m.changes) = m.now

\* Chunks fetched under one manifest are all of the body of that manifest, even
\* when a later manifest or delta replaced it between two of them.
FetchIsWhole ==
    \A c \in Clients, t \in Tracks :
        fetch[c] # NoManifest /\ got[c][t] # NoContents =>
            got[c][t] = fetch[c].id.digest.clips[t]

Mirrors == INSTANCE ArrangementMirror
           WITH Bodies <- Body, Revisions <- Revision,
                announced <- published, shown <- mirror, at <- known, from <- made

\* Requests, chunks, polls, losses and retries add up to a ledger that is only added
\* to and clients that move forward in it, each step of theirs a single one: no
\* client goes back, shows part of a body, or takes an entry for another ledger's.
ImplementsMirror == Mirrors!Spec

\* Once the song is left alone and no more messages are lost, every client shows it.
Converges == <>[](\A c \in Clients : mirror[c] = song)

-----------------------------------------------------------------------------
(* What the repository says and the code does not do. *)

\* tests/test_arrangement_view_delta_unit.py 982, "requests snapshot when base
\* revision is unknown": also a base revision that only an earlier cache gave out.
AcceptedMirrorIsSnapshotAfterReload ==
    \A c \in Clients : mirror[c] # NoBody /\ Known(known[c]) => mirror[c] = snapshot
=============================================================================
