--------------------------- MODULE ArrangementCache ---------------------------
(***************************************************************************)
(* The Arrangement View cache of the song handler: ArrangementDeltaCache   *)
(* (abletonosc/arrangement_view.py 481-616).  It numbers what it has told  *)
(* its clients with revisions, keeps the body of the last one, and answers *)
(* a poll with the difference between that body and the song.              *)
(*                                                                         *)
(* A body is what _snapshot_body reads: the layout (the metadata of the    *)
(* tracks), the clip rows of each track, and the locators.  The play       *)
(* position is left out: no comparison of the code looks at it.  Bytes are *)
(* abstracted to two constants: contents too large for any reply, and how  *)
(* many changes a delta holds.                                             *)
(***************************************************************************)
EXTENDS Naturals, FiniteSets

CONSTANTS
    Layouts, Tracks, Contents, Locators,    \* what a body is made of
    Unreadable,     \* contents whose identity or notes Live does not give
    Oversized,      \* contents with a clip over the byte budget
    MaxChanges,     \* changes that fit in a delta
    NoBody, NoChunks,
    MaxRevision     \* bound: revisions in the life of one cache

ASSUME RevisionAssumption == MaxRevision \in Nat
ASSUME ContentAssumption == Unreadable \subseteq Contents /\ Oversized \subseteq Contents

Body == [layout : Layouts, clips : [Tracks -> Contents], locators : Locators]
Revision == 0 .. MaxRevision

\* _snapshot_id: the revision and a digest of the body, taken to be injective.
SnapshotId == [revision : Revision, digest : Body]
Chunks == [id : SnapshotId, clips : [Tracks -> Contents]]

ASSUME NothingAssumption == NoBody \notin Body /\ NoChunks \notin Chunks

VARIABLES
    song,       \* what _snapshot_body would read now
    revision,   \* _revision
    snapshot,   \* _snapshot
    chunks,     \* _snapshot_chunks: the chunks of one snapshot
    epoch,      \* which cache this is: a reload of the bridge makes a new one
    published   \* history: the body this cache announced under each revision

cacheVars == <<revision, snapshot, chunks, epoch, published>>

-----------------------------------------------------------------------------
Readable(b) == \A t \in Tracks : b.clips[t] \notin Unreadable
Fits(b) == \A t \in Tracks : b.clips[t] \notin Oversized

\* Mutant: locators are not compared.
DiffClipsOnly(old, new) ==
    [clips |-> [t \in {u \in Tracks : old.clips[u] # new.clips[u]} |-> new.clips[t]],
     locators |-> {}]

\* The changes list of delta: replace_track_clips and replace_locators.
Diff(old, new) ==
    [clips |-> [t \in {u \in Tracks : old.clips[u] # new.clips[u]} |-> new.clips[t]],
     locators |-> {l \in {new.locators} : l # old.locators}]

NoChange(changes) == DOMAIN changes.clips = {} /\ changes.locators = {}

TooLarge(changes) ==
    \/ \E t \in DOMAIN changes.clips : changes.clips[t] \in Oversized
    \/ Cardinality(DOMAIN changes.clips) + Cardinality(changes.locators) > MaxChanges

Announce(b) == published' = [published EXCEPT ![revision + 1] = b]

-----------------------------------------------------------------------------
(* snapshot_manifest: the revision moves before the snapshot is built, and *)
(* stays moved if the build fails.                                         *)

CurrentId == [revision |-> revision + 1, digest |-> song]

\* Mutant: the revision moves only when the cached one was handed out.
ManifestKeepsRevision ==
    /\ Readable(song) /\ Fits(song)
    /\ revision < MaxRevision
    /\ revision' = IF snapshot = NoBody THEN revision + 1 ELSE revision
    /\ chunks' = [id |-> CurrentId, clips |-> song.clips]
    /\ snapshot' = song
    /\ Announce(song)
    /\ UNCHANGED epoch

ManifestBuilt ==
    /\ Readable(song) /\ Fits(song)
    /\ revision < MaxRevision
    /\ revision' = revision + 1
    /\ chunks' = [id |-> CurrentId, clips |-> song.clips]
    /\ snapshot' = song
    /\ Announce(song)
    /\ UNCHANGED epoch

\* identity_unavailable, notes_unavailable, chunk_too_large.
ManifestFailed ==
    /\ ~(Readable(song) /\ Fits(song))
    /\ revision < MaxRevision
    /\ revision' = revision + 1
    /\ UNCHANGED <<snapshot, chunks, epoch, published>>

-----------------------------------------------------------------------------
(* delta: which of its answers a poll gets. *)

\* Mutant: any revision up to the current one is taken for the current one.
KnownAnyEarlier(since) == snapshot # NoBody /\ since <= revision

Known(since) == snapshot # NoBody /\ since = revision

MetadataChanged == snapshot.layout # song.layout

Changes == Diff(snapshot, song)

DeltaFails(since) == Known(since) /\ ~Readable(song)

\* Mutant: a change of the tracks themselves is not looked for.
NeedsResyncOnSizeOnly(since) ==
    \/ ~Known(since)
    \/ Known(since) /\ Readable(song) /\ ~NoChange(Changes) /\ TooLarge(Changes)

NeedsResync(since) ==
    \/ ~Known(since)
    \/ /\ Known(since) /\ Readable(song)
       /\ MetadataChanged \/ (~NoChange(Changes) /\ TooLarge(Changes))

\* Mutant: the reply is built and the snapshot is not brought up to date.
DeltaForgetsSnapshot(since) ==
    /\ Known(since) /\ ~NeedsResync(since) /\ Readable(song)
    /\ IF NoChange(Changes)
       THEN UNCHANGED <<revision, snapshot, published>>
       ELSE /\ revision < MaxRevision
            /\ revision' = revision + 1
            /\ Announce(song)
            /\ UNCHANGED snapshot
    /\ UNCHANGED <<chunks, epoch>>

DeltaAnswered(since) ==
    /\ Known(since) /\ ~NeedsResync(since) /\ Readable(song)
    /\ IF NoChange(Changes)
       THEN UNCHANGED <<revision, snapshot, published>>
       ELSE /\ revision < MaxRevision
            /\ revision' = revision + 1
            /\ snapshot' = song
            /\ Announce(song)
    /\ UNCHANGED <<chunks, epoch>>

-----------------------------------------------------------------------------
CacheInit ==
    /\ song \in Body
    /\ revision = 0
    /\ snapshot = NoBody
    /\ chunks = NoChunks
    /\ epoch = 1
    /\ published = [r \in Revision |-> NoBody]

\* A reload, or a restart of Live: SongHandler is made anew, with a new cache.
NewCache ==
    /\ revision' = 0
    /\ snapshot' = NoBody
    /\ chunks' = NoChunks
    /\ epoch' = epoch + 1
    /\ published' = [r \in Revision |-> NoBody]

CacheTypeOK ==
    /\ song \in Body
    /\ revision \in Revision
    /\ snapshot \in Body \union {NoBody}
    /\ chunks \in Chunks \union {NoChunks}
    /\ epoch \in Nat
    /\ published \in [Revision -> Body \union {NoBody}]
=============================================================================
