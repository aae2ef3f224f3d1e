-------------------------- MODULE ArrangementProofs --------------------------
(***************************************************************************)
(* Proofs about ArrangementSync, for any number of clients, any song and   *)
(* any loss, overtaking and retry.  The inductive invariant says of every  *)
(* message on the wire and every client what it is worth to the cache that *)
(* sent it: CacheStep and the three lemmas after it show that the cache    *)
(* never takes that back, since it writes only to revisions it has not     *)
(* announced.                                                              *)
(***************************************************************************)
EXTENDS ArrangementSync, TLAPS

Reply == Manifest \union Chunk \union Delta \union Restart \union Failure

GoodManifest(m) ==
    /\ m.layout = m.id.digest.layout /\ m.locators = m.id.digest.locators
    /\ m.epoch <= epoch
    /\ m.epoch = epoch => m.revision <= revision /\ published[m.revision] = m.id.digest

GoodDelta(m) ==
    /\ m.epoch <= epoch
    /\ m.epoch = epoch =>
        /\ m.base <= revision /\ m.revision <= revision
        /\ published[m.base] # NoBody =>
            Patched(published[m.base], m.changes) = m.now /\ published[m.revision] = m.now

GoodReply(m) ==
    /\ m.is = "manifest" => GoodManifest(m)
    /\ m.is = "chunk" => m.clips = m.id.digest.clips[m.track]
    /\ m.is = "delta" => GoodDelta(m)

GoodFetch(c) ==
    fetch[c] # NoManifest =>
        /\ GoodManifest(fetch[c])
        /\ \A t \in Tracks : got[c][t] # NoContents =>
                               got[c][t] = fetch[c].id.digest.clips[t]

GoodMirror(c) ==
    mirror[c] # NoBody =>
        /\ made[c] <= epoch
        /\ made[c] = epoch => known[c] <= revision /\ mirror[c] = published[known[c]]

CacheOK ==
    /\ \A r \in Revision : r > revision => published[r] = NoBody
    /\ published[revision] # NoBody => snapshot = published[revision]
    /\ chunks # NoChunks => chunks.clips = chunks.id.digest.clips

IInv ==
    /\ TypeOK
    /\ CacheOK
    /\ \A m \in replies : GoodReply(m)
    /\ \A c \in Clients : GoodFetch(c) /\ GoodMirror(c)

-----------------------------------------------------------------------------
(* Types. *)

\* A field tells which kind of message it is.
LEMMA ReplyKinds ==
    ASSUME NEW m \in Reply
    PROVE  /\ m.to \in Clients
           /\ m.is = "manifest" => m \in Manifest
           /\ m.is = "chunk" => m \in Chunk
           /\ m.is = "delta" => m \in Delta
BY DEF Reply, Manifest, Chunk, Delta, Restart, Failure

\* The same for requests.
LEMMA RequestKinds ==
    ASSUME NEW r \in Request
    PROVE  /\ r.from \in Clients
           /\ r.ask = "chunk" => r.id \in SnapshotId /\ r.track \in Tracks
           /\ r.ask = "delta" => r.since \in Revision
BY DEF Request

\* The difference of two bodies is a list of changes.
LEMMA DiffTyped ==
    ASSUME NEW old \in Body, NEW new \in Body
    PROVE  Diff(old, new) \in Change
<1> DEFINE changed == {u \in Tracks : old.clips[u] # new.clips[u]}
<1>1. changed \in SUBSET Tracks
  OBVIOUS
<1>2. [t \in changed |-> new.clips[t]] \in [changed -> Contents]
  BY DEF Body
<1>3. {l \in {new.locators} : l # old.locators} \in SUBSET Locators
  BY DEF Body
<1> QED
  BY <1>1, <1>2, <1>3 DEF Diff, Change

\* Patching a body with changes gives a body.
LEMMA PatchedTyped ==
    ASSUME NEW b \in Body, NEW changes \in Change
    PROVE  Patched(b, changes) \in Body
<1>1. PICK ts \in SUBSET Tracks : changes.clips \in [ts -> Contents]
  BY DEF Change
<1>2. changes.locators \in SUBSET Locators
  BY DEF Change
<1>3. [t \in Tracks |-> IF t \in DOMAIN changes.clips THEN changes.clips[t]
                        ELSE b.clips[t]] \in [Tracks -> Contents]
  BY <1>1 DEF Body
<1>4. (IF changes.locators = {} THEN b.locators
       ELSE CHOOSE l \in changes.locators : TRUE) \in Locators
  BY <1>2 DEF Body
<1> QED
  BY <1>3, <1>4 DEF Patched, Body

\* The client that applies a difference to the old body has the new one, and an
\* empty difference means that they are the same: delta() compares the layout
\* before it compares anything else.
LEMMA PatchDiff ==
    ASSUME NEW old \in Body, NEW new \in Body, old.layout = new.layout
    PROVE  /\ Patched(old, Diff(old, new)) = new
           /\ NoChange(Diff(old, new)) => old = new
<1> DEFINE d == Diff(old, new)
           changed == {u \in Tracks : old.clips[u] # new.clips[u]}
<1>1. /\ d.clips = [t \in changed |-> new.clips[t]]
      /\ d.locators = {l \in {new.locators} : l # old.locators}
  BY DEF Diff
<1>2. new = [layout |-> new.layout, clips |-> new.clips, locators |-> new.locators]
  BY DEF Body
<1>3. old = [layout |-> old.layout, clips |-> old.clips, locators |-> old.locators]
  BY DEF Body
<1>4. old.clips \in [Tracks -> Contents] /\ new.clips \in [Tracks -> Contents]
  BY DEF Body
<1>5. [t \in Tracks |-> IF t \in DOMAIN d.clips THEN d.clips[t] ELSE old.clips[t]] = new.clips
  BY <1>1, <1>4
<1>6. (IF d.locators = {} THEN old.locators ELSE CHOOSE l \in d.locators : TRUE) = new.locators
  BY <1>1
<1>7. NoChange(d) => old = new
  <2> SUFFICES ASSUME NoChange(d)
               PROVE  old = new
    OBVIOUS
  <2>1. changed = {} /\ old.locators = new.locators
    BY <1>1 DEF NoChange
  <2>2. old.clips = new.clips
    BY <2>1, <1>4
  <2> QED
    BY <2>1, <2>2, <1>2, <1>3
<1> QED
  BY <1>2, <1>5, <1>6, <1>7 DEF Patched

-----------------------------------------------------------------------------
(* The cache. *)

CacheStep ==
    \/ ManifestBuilt
    \/ ManifestFailed
    \/ \E since \in Revision : DeltaAnswered(since)
    \/ UNCHANGED cacheVars

\* What a step of the cache may do to what it has announced: nothing, in its own
\* epoch.
Advances ==
    \/ epoch' = epoch + 1
    \/ /\ epoch' = epoch /\ revision <= revision'
       /\ \A r \in Revision : r <= revision => published'[r] = published[r]

\* The state of the cache after a step, as the type invariant wants it.
CacheTyped ==
    /\ revision' \in Revision
    /\ snapshot' \in Body \union {NoBody}
    /\ chunks' \in Chunks \union {NoChunks}
    /\ published' \in [Revision -> Body \union {NoBody}]

\* Every step of a cache keeps its invariant and what it has announced.
LEMMA CacheStepKeeps ==
    ASSUME CacheTypeOK, CacheOK, CacheStep
    PROVE  CacheTyped /\ epoch' = epoch /\ CacheOK' /\ Advances
<1> USE RevisionAssumption, NothingAssumption DEF Revision, CacheTyped
<1>1. CASE ManifestBuilt
  <2>1. CurrentId \in SnapshotId
    BY <1>1 DEF CurrentId, SnapshotId, CacheTypeOK, ManifestBuilt
  <2>2. chunks' \in Chunks /\ chunks'.clips = chunks'.id.digest.clips
    BY <1>1, <2>1 DEF ManifestBuilt, Chunks, CacheTypeOK, Body, CurrentId
  <2>3. /\ revision' = revision + 1 /\ revision' \in Revision /\ snapshot' = song
        /\ epoch' = epoch /\ published' = [published EXCEPT ![revision + 1] = song]
    BY <1>1 DEF ManifestBuilt, Announce, CacheTypeOK
  <2> QED
    BY <2>2, <2>3 DEF CacheTypeOK, CacheOK, Advances
<1>2. CASE ManifestFailed
  BY <1>2 DEF ManifestFailed, CacheTypeOK, CacheOK, Advances
<1>3. ASSUME NEW since \in Revision, DeltaAnswered(since)
      PROVE  CacheTyped /\ epoch' = epoch /\ CacheOK' /\ Advances
  <2>1. CASE NoChange(Changes)
    BY <1>3, <2>1 DEF DeltaAnswered, CacheTypeOK, CacheOK, Advances
  <2>2. CASE ~NoChange(Changes)
    <3>1. /\ revision' = revision + 1 /\ revision' \in Revision /\ snapshot' = song
          /\ epoch' = epoch /\ published' = [published EXCEPT ![revision + 1] = song]
          /\ chunks' = chunks
      BY <1>3, <2>2 DEF DeltaAnswered, Announce, CacheTypeOK
    <3> QED
      BY <3>1 DEF CacheTypeOK, CacheOK, Advances
  <2> QED
    BY <2>1, <2>2
<1>4. CASE UNCHANGED cacheVars
  BY <1>4 DEF cacheVars, CacheTypeOK, CacheOK, Advances
<1> QED
  BY <1>1, <1>2, <1>3, <1>4 DEF CacheStep

\* A new cache starts with nothing announced, and a later epoch.
LEMMA NewCacheKeeps ==
    ASSUME CacheTypeOK, NewCache
    PROVE  CacheTyped /\ CacheOK' /\ Advances
BY RevisionAssumption DEF NewCache, CacheTypeOK, CacheTyped, CacheOK, Advances, Revision

\* What the cache told in a manifest, a delta or a mirror stays true of it.
LEMMA GoodManifestStays ==
    ASSUME TypeOK, Advances, revision' \in Revision, NEW m \in Manifest, GoodManifest(m)
    PROVE  GoodManifest(m)'
<1>1. m.epoch \in Nat /\ m.revision \in Revision /\ epoch \in Nat /\ revision \in Revision
  BY DEF Manifest, Epoch, TypeOK, CacheTypeOK
<1> QED
  BY <1>1, RevisionAssumption DEF GoodManifest, Advances, Revision

\* A delta on the wire stays right.
LEMMA GoodDeltaStays ==
    ASSUME TypeOK, Advances, revision' \in Revision, NEW m \in Delta, GoodDelta(m)
    PROVE  GoodDelta(m)'
<1>1. /\ m.epoch \in Nat /\ m.base \in Revision /\ m.revision \in Revision
      /\ epoch \in Nat /\ revision \in Revision
  BY DEF Delta, Epoch, TypeOK, CacheTypeOK
<1> QED
  BY <1>1, RevisionAssumption DEF GoodDelta, Advances, Revision

\* So does any reply.
LEMMA GoodReplyStays ==
    ASSUME TypeOK, Advances, revision' \in Revision, NEW m \in Reply, GoodReply(m)
    PROVE  GoodReply(m)'
BY ReplyKinds, GoodManifestStays, GoodDeltaStays DEF GoodReply

\* What a client holds stays right.
LEMMA GoodClientStays ==
    ASSUME TypeOK, Advances, revision' \in Revision, NEW c \in Clients,
           GoodFetch(c), GoodMirror(c), fetch'[c] = fetch[c], got'[c] = got[c],
           mirror'[c] = mirror[c], known'[c] = known[c], made'[c] = made[c]
    PROVE  GoodFetch(c)' /\ GoodMirror(c)'
<1>1. GoodFetch(c)'
  <2> SUFFICES ASSUME fetch[c] # NoManifest
               PROVE  GoodFetch(c)'
    BY DEF GoodFetch
  <2>1. fetch[c] \in Manifest /\ GoodManifest(fetch[c])
    BY DEF GoodFetch, TypeOK
  <2>2. PICK m \in Manifest : m = fetch[c]
    BY <2>1
  <2>3. GoodManifest(m)'
    BY <2>1, <2>2, GoodManifestStays
  <2> QED
    BY <2>2, <2>3 DEF GoodFetch, GoodManifest
<1>2. GoodMirror(c)'
  <2>1. /\ made[c] \in Nat /\ known[c] \in Revision /\ epoch \in Nat /\ revision \in Revision
    BY DEF Epoch, TypeOK, CacheTypeOK
  <2> QED
    BY <2>1, RevisionAssumption DEF GoodMirror, Advances, Revision
<1> QED
  BY <1>1, <1>2

-----------------------------------------------------------------------------
(* Steps of the bridge and the environment: the clients do not move. *)

\* A step of the cache that adds good replies keeps IInv.
LEMMA BridgeStepKeeps ==
    ASSUME IInv, CacheTyped, CacheOK', Advances, epoch' \in 1 .. MaxEpoch, song' \in Body,
           requests' \subseteq Request,
           \A m \in replies' : m \in replies \/ (m \in Reply /\ GoodReply(m)'),
           UNCHANGED clientVars, edits' \in Nat, losses' \in Nat
    PROVE  IInv'
<1>1. revision' \in Revision
  BY DEF CacheTyped
<1>2. TypeOK'
  BY EpochAssumption DEF IInv, TypeOK, CacheTypeOK, CacheTyped, clientVars, Reply
<1>3. ASSUME NEW m \in replies'
      PROVE  GoodReply(m)'
  <2>1. CASE m \in replies
    BY <1>1, <2>1, GoodReplyStays DEF IInv, TypeOK, Reply
  <2> QED
    BY <2>1
<1>4. ASSUME NEW c \in Clients
      PROVE  GoodFetch(c)' /\ GoodMirror(c)'
  BY <1>1, GoodClientStays DEF IInv, clientVars
<1> QED
  BY <1>2, <1>3, <1>4 DEF IInv

\* Every reply the bridge writes is of its type and true of the cache after it.
LEMMA ServeManifestReply ==
    ASSUME IInv, NEW r \in requests, ServeManifest(r), CacheTyped, epoch' = epoch,
           NEW m \in replies', m \notin replies
    PROVE  m \in Reply /\ GoodReply(m)'
<1> USE RevisionAssumption, EpochAssumption DEF Revision
<1>1. r.from \in Clients /\ epoch \in Epoch /\ epoch \in Nat /\ song \in Body /\ revision \in Revision
  BY RequestKinds DEF IInv, TypeOK, CacheTypeOK, Epoch
<1>2. CASE ManifestFailed /\ Answer(r, {[is |-> "failure", to |-> r.from]})
  BY <1>1, <1>2 DEF Answer, Reply, Failure, GoodReply
<1>3. CASE ManifestBuilt /\ m = [is |-> "manifest", to |-> r.from, id |-> CurrentId,
                         revision |-> revision + 1, layout |-> song.layout,
                         locators |-> song.locators, epoch |-> epoch]
  <2>1. /\ revision' = revision + 1 /\ revision + 1 \in Revision
        /\ published'[revision + 1] = song
    BY <1>1, <1>3 DEF ManifestBuilt, Announce, IInv, TypeOK, CacheTypeOK
  <2>2. CurrentId \in SnapshotId /\ CurrentId.digest = song
    BY <1>1, <2>1 DEF CurrentId, SnapshotId
  <2>3. song.layout \in Layouts /\ song.locators \in Locators
    BY <1>1 DEF Body
  <2>4. m \in Manifest
    BY <1>1, <1>3, <2>1, <2>2, <2>3 DEF Manifest
  <2>5. GoodManifest(m)'
    BY <1>1, <1>3, <2>1, <2>2 DEF GoodManifest
  <2> QED
    BY <1>3, <2>4, <2>5 DEF Reply, GoodReply
<1> QED
  BY <1>2, <1>3 DEF ServeManifest, Answer

\* A chunk is of the body its id names.
LEMMA ServeChunkReply ==
    ASSUME IInv, NEW r \in requests, ServeChunk(r), NEW m \in replies', m \notin replies
    PROVE  m \in Reply /\ GoodReply(m)'
<1>1. r \in Request /\ r.ask = "chunk"
  BY DEF IInv, TypeOK, ServeChunk
<1>2. r.from \in Clients /\ r.id \in SnapshotId /\ r.track \in Tracks
  BY <1>1, RequestKinds
<1>3. CASE /\ chunks # NoChunks /\ chunks.id = r.id
           /\ m = [is |-> "chunk", to |-> r.from, id |-> r.id, track |-> r.track,
                   clips |-> chunks.clips[r.track]]
  <2>1. chunks \in Chunks /\ chunks.clips[r.track] = r.id.digest.clips[r.track]
    BY <1>3 DEF IInv, TypeOK, CacheTypeOK, CacheOK
  <2>2. chunks.clips[r.track] \in Contents
    BY <1>2, <2>1 DEF Chunks
  <2> QED
    BY <1>2, <1>3, <2>1, <2>2 DEF Reply, Chunk, GoodReply
<1>4. CASE m = [is |-> "restart", to |-> r.from]
  BY <1>2, <1>4 DEF Reply, Restart, GoodReply
<1> QED
  BY <1>3, <1>4 DEF ServeChunk, Answer

\* A delta leads from the announced base to the song.
LEMMA ServeDeltaReply ==
    ASSUME IInv, NEW r \in requests, ServeDelta(r), CacheTyped, epoch' = epoch, Advances,
           NEW m \in replies', m \notin replies
    PROVE  m \in Reply /\ GoodReply(m)'
<1> USE RevisionAssumption, EpochAssumption DEF Revision
<1>1. r \in Request /\ r.ask = "delta"
  BY DEF IInv, TypeOK, ServeDelta
<1>2. r.from \in Clients /\ r.since \in Revision
  BY <1>1, RequestKinds
<1>3. epoch \in Epoch /\ epoch \in Nat /\ song \in Body /\ revision \in Revision
  BY DEF IInv, TypeOK, CacheTypeOK, Epoch
<1>4. CASE m = [is |-> "restart", to |-> r.from] \/ m = [is |-> "failure", to |-> r.from]
  BY <1>2, <1>4 DEF Reply, Restart, Failure, GoodReply
<1>5. CASE /\ DeltaAnswered(r.since)
           /\ m = [is |-> "delta", to |-> r.from, base |-> r.since, revision |-> revision',
                   changes |-> Changes, epoch |-> epoch, now |-> song]
  <2>1. snapshot \in Body /\ r.since = revision /\ snapshot.layout = song.layout
    BY <1>5 DEF DeltaAnswered, NeedsResync, Known, MetadataChanged, IInv, TypeOK, CacheTypeOK
  <2>2. Changes \in Change
    BY <1>3, <2>1, DiffTyped DEF Changes
  <2>3. m \in Delta
    BY <1>2, <1>3, <1>5, <2>2 DEF Delta, CacheTyped
  <2>4. Patched(snapshot, Changes) = song /\ (NoChange(Changes) => snapshot = song)
    BY <1>3, <2>1, PatchDiff DEF Changes
  <2>5. published[revision] # NoBody => snapshot = published[revision]
    BY DEF IInv, CacheOK
  <2>6. published'[revision] = published[revision] /\ revision <= revision' /\ revision' \in Revision
    BY <1>3 DEF Advances, CacheTyped
  <2>7. published[revision] # NoBody => published'[revision'] = song
    BY <1>3, <1>5, <2>4, <2>5 DEF DeltaAnswered, Announce, IInv, TypeOK, CacheTypeOK
  <2>8. GoodDelta(m)'
    BY <1>3, <1>5, <2>1, <2>4, <2>5, <2>6, <2>7 DEF GoodDelta
  <2> QED
    BY <1>5, <2>3, <2>8 DEF Reply, GoodReply
<1> QED
  BY <1>4, <1>5 DEF ServeDelta, Answer

\* Serving a request keeps IInv.
LEMMA ServeIInv ==
    ASSUME IInv, NEW r \in requests, Serve(r)
    PROVE  IInv'
<1>1. r \in Request
  BY DEF IInv, TypeOK
<1>2. CacheStep
  BY <1>1, RequestKinds DEF Serve, ServeManifest, ServeChunk, ServeDelta, CacheStep
<1>3. CacheTyped /\ epoch' = epoch /\ CacheOK' /\ Advances
  BY <1>2, CacheStepKeeps DEF IInv, TypeOK
<1>4. /\ requests' \subseteq Request /\ UNCHANGED <<song, clientVars, edits, losses>>
  BY DEF Serve, ServeManifest, ServeChunk, ServeDelta, Answer, IInv, TypeOK
<1>5. ASSUME NEW m \in replies', m \notin replies
      PROVE  m \in Reply /\ GoodReply(m)'
  BY <1>3, <1>5, ServeManifestReply, ServeChunkReply, ServeDeltaReply DEF Serve
<1> QED
  BY <1>3, <1>4, <1>5, BridgeStepKeeps DEF IInv, TypeOK, CacheTypeOK

\* Edits, losses and reloads keep IInv.
LEMMA EnvironmentIInv ==
    ASSUME IInv, (\E b \in Body : Edit(b)) \/ Lose \/ Reload
    PROVE  IInv'
<1>1. CASE \E b \in Body : Edit(b)
  <2>1. CacheStep
    BY <1>1 DEF Edit, CacheStep
  <2>2. CacheTyped /\ epoch' = epoch /\ CacheOK' /\ Advances
    BY <2>1, CacheStepKeeps DEF IInv, TypeOK
  <2>3. song' \in Body /\ edits' \in Nat /\ losses' \in Nat /\ UNCHANGED <<wire, clientVars>>
    BY <1>1 DEF Edit, IInv, TypeOK
  <2> QED
    BY <2>2, <2>3, BridgeStepKeeps DEF wire, IInv, TypeOK
<1>2. CASE Lose
  <2>1. CacheStep
    BY <1>2 DEF Lose, CacheStep
  <2>2. CacheTyped /\ epoch' = epoch /\ CacheOK' /\ Advances
    BY <2>1, CacheStepKeeps DEF IInv, TypeOK
  <2>3. /\ song' \in Body /\ edits' \in Nat /\ losses' \in Nat /\ UNCHANGED clientVars
        /\ requests' \subseteq requests /\ replies' \subseteq replies
    BY <1>2 DEF Lose, IInv, TypeOK, CacheTypeOK
  <2> QED
    BY <2>2, <2>3, BridgeStepKeeps DEF IInv, TypeOK
<1>3. CASE Reload
  <2>1. CacheTyped /\ CacheOK' /\ Advances
    BY <1>3, NewCacheKeeps DEF Reload, IInv, TypeOK
  <2>2. epoch' \in 1 .. MaxEpoch
    BY <1>3, EpochAssumption DEF Reload, NewCache, IInv, TypeOK
  <2>3. UNCHANGED <<song, wire, clientVars, edits, losses>>
    BY <1>3 DEF Reload
  <2> QED
    BY <2>1, <2>2, <2>3, BridgeStepKeeps DEF wire, IInv, TypeOK, CacheTypeOK
<1> QED
  BY <1>1, <1>2, <1>3

-----------------------------------------------------------------------------
(* Steps of the clients: the cache does not move. *)

\* A step of a client that ends with a good fetch and mirror keeps IInv.
LEMMA ClientStepKeeps ==
    ASSUME IInv, UNCHANGED <<song, cacheVars, edits, losses>>,
           requests' \subseteq Request, replies' \subseteq replies,
           mirror' \in [Clients -> Body \union {NoBody}],
           known' \in [Clients -> Revision],
           fetch' \in [Clients -> Manifest \union {NoManifest}],
           got' \in [Clients -> [Tracks -> Contents \union {NoContents}]],
           made' \in [Clients -> Epoch],
           \A c \in Clients : GoodFetch(c)' /\ GoodMirror(c)'
    PROVE  IInv'
<1>1. UNCHANGED <<revision, snapshot, chunks, epoch, published, song>>
  BY DEF cacheVars
<1>2. TypeOK' /\ CacheOK'
  BY <1>1 DEF IInv, TypeOK, CacheTypeOK, CacheOK
<1>3. ASSUME NEW m \in replies'
      PROVE  GoodReply(m)'
  BY <1>1 DEF IInv, GoodReply, GoodManifest, GoodDelta
<1> QED
  BY <1>2, <1>3 DEF IInv

\* A question changes nothing but the wire.
LEMMA AskIInv ==
    ASSUME IInv, NEW c \in Clients, NEW r \in Request, Ask(c, r)
    PROVE  IInv'
<1>1. UNCHANGED <<song, cacheVars, replies, clientVars, edits, losses>>
  BY DEF Ask
<1>2. requests' \subseteq Request
  BY DEF Ask, IInv, TypeOK
<1>3. ASSUME NEW d \in Clients
      PROVE  GoodFetch(d)' /\ GoodMirror(d)'
  BY <1>1 DEF IInv, cacheVars, clientVars, GoodFetch, GoodManifest, GoodMirror
<1> QED
  BY <1>1, <1>2, <1>3, ClientStepKeeps DEF clientVars, IInv, TypeOK

\* Every request a client writes is of its type.
LEMMA AsksIInv ==
    ASSUME IInv, NEW c \in Clients,
           AskManifest(c) \/ AskDelta(c) \/ \E t \in Tracks : AskChunk(c, t)
    PROVE  IInv'
<1>1. CASE AskManifest(c)
  <2>1. [ask |-> "manifest", from |-> c] \in Request
    BY DEF Request
  <2> QED
    BY <1>1, <2>1, AskIInv DEF AskManifest
<1>2. CASE AskDelta(c)
  <2>1. [ask |-> "delta", from |-> c, since |-> known[c]] \in Request
    BY DEF Request, IInv, TypeOK
  <2> QED
    BY <1>2, <2>1, AskIInv DEF AskDelta
<1>3. ASSUME NEW t \in Tracks, AskChunk(c, t)
      PROVE  IInv'
  <2>1. fetch[c] \in Manifest
    BY <1>3 DEF AskChunk, IInv, TypeOK
  <2>2. [ask |-> "chunk", from |-> c, id |-> fetch[c].id, track |-> t] \in Request
    BY <2>1 DEF Request, Manifest
  <2> QED
    BY <1>3, <2>2, AskIInv DEF AskChunk
<1> QED
  BY <1>1, <1>2, <1>3

\* The mirror a client puts together is the body its manifest was announced with.
LEMMA AssembleIInv ==
    ASSUME IInv, NEW c \in Clients, Assemble(c)
    PROVE  IInv'
<1> DEFINE b == [layout |-> fetch[c].layout, clips |-> got[c], locators |-> fetch[c].locators]
           m == fetch[c]
<1>1. m \in Manifest /\ GoodManifest(m)
  BY DEF Assemble, IInv, TypeOK, GoodFetch
<1>2. m.id.digest \in Body /\ m.revision \in Revision /\ m.epoch \in Epoch
  BY <1>1 DEF Manifest, SnapshotId
<1>3. got[c] \in [Tracks -> Contents \union {NoContents}]
  BY DEF IInv, TypeOK
<1>4. got[c] = m.id.digest.clips
  <2>1. \A t \in Tracks : got[c][t] = m.id.digest.clips[t]
    BY DEF Assemble, IInv, GoodFetch
  <2> QED
    BY <1>2, <1>3, <2>1 DEF Body
<1>5. b = m.id.digest
  BY <1>1, <1>2, <1>4 DEF GoodManifest, Body
<1>6. /\ mirror' = [mirror EXCEPT ![c] = b] /\ known' = [known EXCEPT ![c] = m.revision]
      /\ made' = [made EXCEPT ![c] = m.epoch] /\ fetch' = [fetch EXCEPT ![c] = NoManifest]
      /\ UNCHANGED <<song, cacheVars, wire, got, edits, losses>>
  BY DEF Assemble
<1>7. ASSUME NEW d \in Clients
      PROVE  GoodFetch(d)' /\ GoodMirror(d)'
  <2>1. UNCHANGED <<revision, epoch, published>>
    BY <1>6 DEF cacheVars
  <2>2. CASE d = c
    BY <1>1, <1>5, <1>6, <2>1, <2>2
       DEF IInv, TypeOK, GoodFetch, GoodMirror, GoodManifest
  <2>3. CASE d # c
    BY <1>6, <2>1, <2>3 DEF IInv, TypeOK, GoodFetch, GoodMirror, GoodManifest
  <2> QED
    BY <2>2, <2>3
<1> HIDE DEF b, m
<1>8. /\ mirror' \in [Clients -> Body \union {NoBody}] /\ known' \in [Clients -> Revision]
      /\ fetch' \in [Clients -> Manifest \union {NoManifest}] /\ made' \in [Clients -> Epoch]
  BY <1>2, <1>5, <1>6 DEF IInv, TypeOK
<1> QED
  BY <1>6, <1>7, <1>8, ClientStepKeeps DEF wire, IInv, TypeOK

\* Taking a reply keeps IInv, each kind for its own reason.
LEMMA TakeIInv ==
    ASSUME IInv, NEW m \in replies, Take(m)
    PROVE  IInv'
<1>1. m \in Reply /\ m.to \in Clients /\ GoodReply(m)
  BY ReplyKinds DEF IInv, TypeOK, Reply
<1>2. /\ UNCHANGED <<song, cacheVars, requests, edits, losses>> /\ replies' \subseteq replies
      /\ UNCHANGED <<revision, epoch, published>>
  BY DEF Take, TakeManifest, TakeChunk, TakeDelta, TakeRestart, TakeFailure, Consume, cacheVars
<1>3. ASSUME mirror' \in [Clients -> Body \union {NoBody}], known' \in [Clients -> Revision],
             fetch' \in [Clients -> Manifest \union {NoManifest}],
             got' \in [Clients -> [Tracks -> Contents \union {NoContents}]],
             made' \in [Clients -> Epoch],
             GoodFetch(m.to)', GoodMirror(m.to)',
             \A d \in Clients : d # m.to =>
                /\ mirror'[d] = mirror[d] /\ known'[d] = known[d] /\ made'[d] = made[d]
                /\ fetch'[d] = fetch[d] /\ got'[d] = got[d]
      PROVE  IInv'
  <2>1. ASSUME NEW d \in Clients, d # m.to
        PROVE  GoodFetch(d)' /\ GoodMirror(d)'
    BY <1>2, <1>3, <2>1 DEF IInv, GoodFetch, GoodMirror, GoodManifest
  <2> QED
    BY <1>2, <1>3, <2>1, ClientStepKeeps DEF IInv, TypeOK
<1>4. CASE TakeManifest(m)
  <2>1. m \in Manifest /\ GoodManifest(m)
    BY <1>1, <1>4, ReplyKinds DEF TakeManifest, GoodReply
  <2>2. UNCHANGED <<mirror, known, made>>
    BY <1>4 DEF TakeManifest
  <2>3. CASE mirror[m.to] = NoBody /\ fetch[m.to] = NoManifest
    <3>1. /\ fetch' = [fetch EXCEPT ![m.to] = m]
          /\ got' = [got EXCEPT ![m.to] = [t \in Tracks |-> NoContents]]
      BY <1>4, <2>3 DEF TakeManifest
    <3>2. GoodFetch(m.to)' /\ GoodMirror(m.to)'
      BY <1>1, <1>2, <2>1, <2>2, <3>1 DEF IInv, TypeOK, GoodFetch, GoodMirror, GoodManifest
    <3> QED
      BY <1>1, <1>3, <2>1, <2>2, <3>1, <3>2 DEF IInv, TypeOK
  <2>4. CASE ~(mirror[m.to] = NoBody /\ fetch[m.to] = NoManifest)
    <3>1. UNCHANGED <<fetch, got>>
      BY <1>4, <2>4 DEF TakeManifest
    <3>2. GoodFetch(m.to)' /\ GoodMirror(m.to)'
      BY <1>1, <1>2, <2>2, <3>1 DEF IInv, GoodFetch, GoodMirror, GoodManifest
    <3> QED
      BY <1>3, <2>2, <3>1, <3>2 DEF IInv, TypeOK
  <2> QED
    BY <2>3, <2>4
<1>5. CASE TakeChunk(m)
  <2>1. m \in Chunk /\ m.clips = m.id.digest.clips[m.track]
    BY <1>1, <1>5, ReplyKinds DEF TakeChunk, GoodReply
  <2>2. UNCHANGED <<mirror, known, fetch, made>>
    BY <1>5 DEF TakeChunk
  <2>3. m.track \in Tracks /\ m.clips \in Contents
    BY <2>1 DEF Chunk
  <2>4. CASE fetch[m.to] # NoManifest /\ fetch[m.to].id = m.id
    <3>1. got' = [got EXCEPT ![m.to][m.track] = m.clips]
      BY <1>5, <2>4 DEF TakeChunk
    <3>2. GoodFetch(m.to)' /\ GoodMirror(m.to)'
      BY <1>1, <1>2, <2>1, <2>2, <2>3, <2>4, <3>1
         DEF IInv, TypeOK, GoodFetch, GoodMirror, GoodManifest
    <3> QED
      BY <1>1, <1>3, <2>2, <2>3, <3>1, <3>2 DEF IInv, TypeOK
  <2>5. CASE ~(fetch[m.to] # NoManifest /\ fetch[m.to].id = m.id)
    <3>1. got' = got
      BY <1>5, <2>5 DEF TakeChunk
    <3>2. GoodFetch(m.to)' /\ GoodMirror(m.to)'
      BY <1>1, <1>2, <2>2, <3>1 DEF IInv, GoodFetch, GoodMirror, GoodManifest
    <3> QED
      BY <1>3, <2>2, <3>1, <3>2 DEF IInv, TypeOK
  <2> QED
    BY <2>4, <2>5
<1>6. CASE TakeDelta(m)
  <2>1. m \in Delta /\ GoodDelta(m)
    BY <1>1, <1>6, ReplyKinds DEF TakeDelta, GoodReply
  <2>2. UNCHANGED <<fetch, got>>
    BY <1>6 DEF TakeDelta
  <2>3. GoodFetch(m.to)'
    BY <1>1, <1>2, <2>2 DEF IInv, GoodFetch, GoodManifest
  <2>4. CASE mirror[m.to] # NoBody /\ known[m.to] = m.base
    <3> DEFINE b == Patched(mirror[m.to], m.changes)
               e == IF made[m.to] = m.epoch THEN made[m.to] ELSE Mixed
    <3>1. /\ mirror' = [mirror EXCEPT ![m.to] = b]
          /\ known' = [known EXCEPT ![m.to] = m.revision]
          /\ made' = [made EXCEPT ![m.to] = e]
      BY <1>6, <2>4 DEF TakeDelta
    <3>2. mirror[m.to] \in Body /\ m.changes \in Change /\ m.revision \in Revision
      BY <1>1, <2>1, <2>4 DEF IInv, TypeOK, Delta
    <3>3. b \in Body
      BY <3>2, PatchedTyped
    <3>4. e \in Epoch /\ e <= epoch /\ (e = epoch => made[m.to] = epoch /\ m.epoch = epoch)
      <4>1. made[m.to] \in Epoch /\ made[m.to] <= epoch
        BY <1>1, <2>4 DEF IInv, TypeOK, GoodMirror
      <4>2. epoch \in Nat /\ epoch > 0
        BY EpochAssumption DEF IInv, TypeOK
      <4>3. Mixed \in Epoch /\ Mixed <= epoch /\ Mixed # epoch
        BY <4>2, EpochAssumption DEF Epoch, Mixed
      <4>4. CASE made[m.to] = m.epoch
        BY <4>1, <4>4
      <4>5. CASE made[m.to] # m.epoch
        BY <4>3, <4>5
      <4> QED
        BY <4>4, <4>5
    <3>5. e = epoch => m.revision <= revision /\ b = published[m.revision]
      BY <1>1, <2>1, <2>4, <3>2, <3>4, NothingAssumption DEF IInv, GoodMirror, GoodDelta
    <3> HIDE DEF b, e
    <3>6. GoodMirror(m.to)'
      BY <1>1, <1>2, <3>1, <3>4, <3>5 DEF IInv, TypeOK, GoodMirror
    <3> QED
      BY <1>1, <1>3, <2>2, <2>3, <3>1, <3>2, <3>3, <3>4, <3>6 DEF IInv, TypeOK
  <2>5. CASE ~(mirror[m.to] # NoBody /\ known[m.to] = m.base)
    <3>1. UNCHANGED <<mirror, known, made>>
      BY <1>6, <2>5 DEF TakeDelta
    <3>2. GoodMirror(m.to)'
      BY <1>1, <1>2, <3>1 DEF IInv, GoodMirror
    <3> QED
      BY <1>3, <2>2, <2>3, <3>1, <3>2 DEF IInv, TypeOK
  <2> QED
    BY <2>4, <2>5
<1>7. CASE TakeRestart(m)
  <2>1. /\ mirror' = [mirror EXCEPT ![m.to] = NoBody]
        /\ fetch' = [fetch EXCEPT ![m.to] = NoManifest]
        /\ UNCHANGED <<known, got, made>>
    BY <1>7 DEF TakeRestart
  <2>2. GoodFetch(m.to)' /\ GoodMirror(m.to)'
    BY <1>1, <2>1 DEF IInv, TypeOK, GoodFetch, GoodMirror
  <2> QED
    BY <1>1, <1>3, <2>1, <2>2 DEF IInv, TypeOK
<1>8. CASE TakeFailure(m)
  <2>1. UNCHANGED <<mirror, known, fetch, got, made>>
    BY <1>8 DEF TakeFailure, clientVars
  <2>2. GoodFetch(m.to)' /\ GoodMirror(m.to)'
    BY <1>1, <1>2, <2>1 DEF IInv, GoodFetch, GoodMirror, GoodManifest
  <2> QED
    BY <1>3, <2>1, <2>2 DEF IInv, TypeOK
<1> QED
  BY <1>4, <1>5, <1>6, <1>7, <1>8 DEF Take

-----------------------------------------------------------------------------
(* The invariant. *)

\* An empty cache that nobody has asked satisfies IInv.
LEMMA InitIInv ==
    ASSUME Init
    PROVE  IInv
<1>1. TypeOK
  BY RevisionAssumption, EpochAssumption
     DEF Init, CacheInit, TypeOK, CacheTypeOK, Revision, Epoch, Mixed
<1>2. CacheOK
  BY RevisionAssumption DEF Init, CacheInit, CacheOK, Revision
<1> QED
  BY <1>1, <1>2 DEF Init, IInv, GoodFetch, GoodMirror

\* IInv is inductive.
LEMMA NextIInv ==
    ASSUME IInv, [Next]_vars
    PROVE  IInv'
<1>1. CASE \E r \in requests : Serve(r)
  BY <1>1, ServeIInv
<1>2. CASE \E c \in Clients : AskManifest(c) \/ AskDelta(c) \/ Assemble(c)
  BY <1>2, AsksIInv, AssembleIInv
<1>3. CASE \E c \in Clients, t \in Tracks : AskChunk(c, t)
  BY <1>3, AsksIInv
<1>4. CASE \E m \in replies : Take(m)
  BY <1>4, TakeIInv
<1>5. CASE (\E b \in Body : Edit(b)) \/ Lose \/ Reload
  BY <1>5, EnvironmentIInv
<1>6. CASE UNCHANGED vars
  BY <1>6, ClientStepKeeps
     DEF vars, cacheVars, wire, clientVars, IInv, TypeOK, GoodFetch, GoodMirror, GoodManifest
<1> QED
  BY <1>1, <1>2, <1>3, <1>4, <1>5, <1>6 DEF Next

\* No step of the system takes back what the cache announced.
LEMMA NextAdvances ==
    ASSUME IInv, Next
    PROVE  Advances
<1>1. ASSUME CacheStep
      PROVE  Advances
  BY <1>1, CacheStepKeeps DEF IInv, TypeOK
<1>2. CASE \E r \in requests : Serve(r)
  BY <1>1, <1>2, RequestKinds
     DEF Serve, ServeManifest, ServeChunk, ServeDelta, CacheStep, IInv, TypeOK
<1>3. CASE \E c \in Clients : AskManifest(c) \/ AskDelta(c) \/ Assemble(c)
  BY <1>1, <1>3 DEF AskManifest, AskDelta, Assemble, Ask, CacheStep
<1>4. CASE \E c \in Clients, t \in Tracks : AskChunk(c, t)
  BY <1>1, <1>4 DEF AskChunk, Ask, CacheStep
<1>5. CASE \E m \in replies : Take(m)
  BY <1>1, <1>5 DEF Take, TakeManifest, TakeChunk, TakeDelta, TakeRestart, TakeFailure,
                    Consume, CacheStep
<1>6. CASE (\E b \in Body : Edit(b)) \/ Lose
  BY <1>1, <1>6 DEF Edit, Lose, CacheStep
<1>7. CASE Reload
  BY <1>7, NewCacheKeeps DEF Reload, IInv, TypeOK
<1> QED
  BY <1>2, <1>3, <1>4, <1>5, <1>6, <1>7 DEF Next

\* IInv holds in every reachable state, for every song and every number of clients.
THEOREM Invariance == Spec => []IInv
<1>1. Init => IInv
  BY InitIInv
<1>2. IInv /\ [Next]_vars => IInv'
  BY NextIInv
<1> QED
  BY <1>1, <1>2, PTL DEF Spec

-----------------------------------------------------------------------------
(* What follows from it. *)

\* TypeOK for every song, number of clients and bound.
THEOREM TypeCorrect == Spec => []TypeOK
BY Invariance, PTL DEF IInv

\* Whatever is lost, overtaken or asked again, a mirror made from one cache is what
\* the cache announced under the mirror's revision.
THEOREM MirrorAlwaysPublished == Spec => []MirrorIsPublished
<1>1. IInv => MirrorIsPublished
  BY DEF IInv, GoodMirror, MirrorIsPublished
<1> QED
  BY <1>1, Invariance, PTL

\* delta() takes its difference from the very body the accepted client shows.
THEOREM AcceptedMirrorAlwaysSnapshot == Spec => []AcceptedMirrorIsSnapshot
<1>1. IInv => AcceptedMirrorIsSnapshot
  <2> SUFFICES ASSUME IInv, NEW c \in Clients, mirror[c] # NoBody, made[c] = epoch,
                      Known(known[c])
               PROVE  mirror[c] = snapshot
    BY DEF AcceptedMirrorIsSnapshot
  <2>1. mirror[c] = published[known[c]] /\ known[c] = revision
    BY DEF IInv, GoodMirror, Known
  <2> QED
    BY <2>1 DEF IInv, CacheOK
<1> QED
  BY <1>1, Invariance, PTL

\* A delta takes the body of its base revision to the song it was computed from.
THEOREM DeltaAlwaysCurrent == Spec => []DeltaIsCurrent
<1>1. IInv => DeltaIsCurrent
  BY DEF IInv, GoodReply, GoodDelta, DeltaIsCurrent
<1> QED
  BY <1>1, Invariance, PTL

\* Chunks fetched under one manifest are all of its body.
THEOREM FetchAlwaysWhole == Spec => []FetchIsWhole
<1>1. IInv => FetchIsWhole
  BY DEF IInv, GoodFetch, FetchIsWhole
<1> QED
  BY <1>1, Invariance, PTL

\* One cache never announces two bodies under one revision.
RevisionsAreNotReused ==
    [][\A r \in Revision : epoch' = epoch /\ published[r] # NoBody =>
                              published'[r] = published[r]]_vars

\* A revision keeps the body it was announced with for the life of the cache: what
\* makes the ledger of ArrangementMirror one that is only added to.
THEOREM RevisionsNeverReused == Spec => RevisionsAreNotReused
<1> DEFINE Step == \A r \in Revision : epoch' = epoch /\ published[r] # NoBody =>
                                          published'[r] = published[r]
<1>1. IInv /\ [Next]_vars => [Step]_vars
  <2> SUFFICES ASSUME IInv, Next
               PROVE  Step
    BY DEF vars, cacheVars
  <2>1. Advances
    BY NextAdvances
  <2>2. \A r \in Revision : r > revision => published[r] = NoBody
    BY DEF IInv, CacheOK
  <2>3. epoch \in Nat /\ revision \in Nat /\ Revision \subseteq Nat
    BY RevisionAssumption DEF IInv, TypeOK, CacheTypeOK, Revision
  <2> QED
    BY <2>1, <2>2, <2>3 DEF Advances
<1>2. Spec => [][Step]_vars
  BY <1>1, Invariance, PTL DEF Spec
<1> QED
  BY <1>2 DEF RevisionsAreNotReused

-----------------------------------------------------------------------------
(* The protocol implements the mirror.  Two more facts say that a client   *)
(* never goes back: a delta leads from a revision to one not older, and    *)
(* nobody fetches a snapshot while showing a body.                         *)

Forward ==
    /\ \A m \in replies : m.is = "delta" => m.base <= m.revision
    /\ \A c \in Clients : fetch[c] # NoManifest => mirror[c] = NoBody

\* A new client with nothing on the wire goes nowhere.
LEMMA InitForward ==
    ASSUME Init
    PROVE  Forward
BY DEF Init, Forward

\* Forward is inductive, given IInv.
LEMMA NextForward ==
    ASSUME IInv, Forward, [Next]_vars
    PROVE  Forward'
<1>1. ASSUME NEW r \in requests, Serve(r)
      PROVE  Forward'
  <2>1. UNCHANGED <<mirror, fetch>>
    BY <1>1 DEF Serve, ServeManifest, ServeChunk, ServeDelta, Answer, clientVars
  <2>2. ASSUME NEW m \in replies', m.is = "delta", m \notin replies
        PROVE  m.base <= m.revision
    <3>1. ServeDelta(r) /\ DeltaAnswered(r.since) /\ m.base = r.since /\ m.revision = revision'
      BY <1>1, <2>2 DEF Serve, ServeManifest, ServeChunk, ServeDelta, Answer
    <3>2. r.since = revision /\ revision \in Nat
      BY <3>1, RevisionAssumption DEF DeltaAnswered, Known, IInv, TypeOK, CacheTypeOK, Revision
    <3> QED
      BY <3>1, <3>2 DEF DeltaAnswered
  <2> QED
    BY <2>1, <2>2 DEF Forward
<1>2. ASSUME NEW c \in Clients, AskManifest(c) \/ AskDelta(c) \/ \E t \in Tracks : AskChunk(c, t)
      PROVE  Forward'
  <2>1. UNCHANGED <<replies, mirror, fetch>>
    BY <1>2 DEF AskManifest, AskDelta, AskChunk, Ask, clientVars
  <2> QED
    BY <2>1 DEF Forward
<1>3. ASSUME NEW c \in Clients, Assemble(c)
      PROVE  Forward'
  <2>1. /\ replies' = replies /\ fetch' = [fetch EXCEPT ![c] = NoManifest]
        /\ \A d \in Clients : d # c => mirror'[d] = mirror[d]
    BY <1>3 DEF Assemble, wire, IInv, TypeOK
  <2> QED
    BY <2>1 DEF Forward, IInv, TypeOK
<1>4. ASSUME NEW m \in replies, Take(m)
      PROVE  Forward'
  <2>1. replies' \subseteq replies
    BY <1>4 DEF Take, TakeManifest, TakeChunk, TakeDelta, TakeRestart, TakeFailure, Consume
  <2>2. ASSUME NEW c \in Clients, fetch'[c] # NoManifest
        PROVE  mirror'[c] = NoBody
    <3>1. CASE TakeManifest(m)
      BY <2>2, <3>1 DEF TakeManifest, Forward, IInv, TypeOK
    <3>2. CASE TakeDelta(m)
      BY <2>2, <3>2 DEF TakeDelta, Forward, IInv, TypeOK
    <3>3. CASE TakeRestart(m)
      BY <2>2, <3>3 DEF TakeRestart, Forward, IInv, TypeOK
    <3>4. CASE TakeChunk(m) \/ TakeFailure(m)
      BY <2>2, <3>4 DEF TakeChunk, TakeFailure, clientVars, Forward
    <3> QED
      BY <1>4, <3>1, <3>2, <3>3, <3>4 DEF Take
  <2> QED
    BY <2>1, <2>2 DEF Forward
<1>5. ASSUME (\E b \in Body : Edit(b)) \/ Lose \/ Reload \/ UNCHANGED vars
      PROVE  Forward'
  <2>1. replies' \subseteq replies /\ UNCHANGED <<mirror, fetch>>
    BY <1>5 DEF Edit, Lose, Reload, vars, wire, clientVars
  <2> QED
    BY <2>1 DEF Forward
<1> QED
  BY <1>1, <1>2, <1>3, <1>4, <1>5 DEF Next

\* What the mirror sees of a state.
mirrorState == <<song, epoch, published, mirror, known, made>>

\* A client that comes to show a body moves to an entry of the ledger.
LEMMA MovesForward ==
    ASSUME IInv, IInv', NEW c \in Clients, UNCHANGED <<song, epoch, published>>,
           NEW b \in Body, NEW r \in Revision, NEW e \in Epoch,
           mirror' = [mirror EXCEPT ![c] = b], known' = [known EXCEPT ![c] = r],
           made' = [made EXCEPT ![c] = e],
           mirror[c] # NoBody => known[c] <= r /\ e \in {0, made[c]}
    PROVE  Mirrors!Next
<1>1. b # NoBody
  BY NothingAssumption
<1>2. mirror'[c] = b /\ known'[c] = r /\ made'[c] = e
  BY DEF IInv, TypeOK
<1>3. e <= epoch /\ (e = epoch => published[r] = b)
  BY <1>1, <1>2 DEF IInv, GoodMirror
<1>4. e \in 0 .. epoch
  BY <1>3, EpochAssumption DEF Epoch, IInv, TypeOK, CacheTypeOK
<1>5. Mirrors!Move(c, b, r, e)
  BY <1>3 DEF Mirrors!Move, Mirrors!cacheState
<1> QED
  BY <1>4, <1>5 DEF Mirrors!Next

\* Serving a request writes at most one entry, the song, after all the others.
LEMMA ServeImplements ==
    ASSUME IInv, NEW r \in requests, Serve(r)
    PROVE  Mirrors!Next \/ UNCHANGED mirrorState
<1>1. UNCHANGED <<song, mirror, known, made>>
  BY DEF Serve, ServeManifest, ServeChunk, ServeDelta, Answer, clientVars
<1>2. CASE UNCHANGED <<epoch, published>>
  BY <1>1, <1>2 DEF mirrorState
<1>3. CASE epoch' = epoch /\ revision < MaxRevision /\ Announce(song)
  <2>1. revision \in 0 .. MaxRevision /\ revision + 1 \in Revision
    BY <1>3, RevisionAssumption DEF IInv, TypeOK, CacheTypeOK, Revision
  <2>2. \A q \in Revision : q >= revision + 1 => published[q] = NoBody
    BY <2>1, RevisionAssumption DEF IInv, CacheOK, Revision
  <2>3. Mirrors!Announce(revision + 1)
    BY <1>1, <1>3, <2>2 DEF Announce, Mirrors!Announce, Mirrors!clientState
  <2> QED
    BY <2>1, <2>3 DEF Mirrors!Next
<1> QED
  BY <1>2, <1>3 DEF Serve, ServeManifest, ServeChunk, ServeDelta, cacheVars,
                    ManifestBuilt, ManifestFailed, DeltaAnswered

\* A reply moves its client forward, makes it drop what it shows, or changes nothing.
LEMMA TakeImplements ==
    ASSUME IInv, IInv', Forward, NEW m \in replies, Take(m)
    PROVE  Mirrors!Next \/ UNCHANGED mirrorState
<1>1. m \in Reply /\ m.to \in Clients
  BY ReplyKinds DEF IInv, TypeOK, Reply
<1>2. UNCHANGED <<song, epoch, published>>
  BY DEF Take, TakeManifest, TakeChunk, TakeDelta, TakeRestart, TakeFailure, Consume, cacheVars
<1>3. CASE UNCHANGED <<mirror, known, made>>
  BY <1>2, <1>3 DEF mirrorState
<1>4. CASE TakeDelta(m) /\ mirror[m.to] # NoBody /\ known[m.to] = m.base
  <2> DEFINE b == Patched(mirror[m.to], m.changes)
             e == IF made[m.to] = m.epoch THEN made[m.to] ELSE Mixed
  <2>1. m \in Delta /\ m.base <= m.revision
    BY <1>1, <1>4, ReplyKinds DEF TakeDelta, Forward
  <2>2. mirror[m.to] \in Body /\ m.changes \in Change /\ m.revision \in Revision
    BY <1>1, <1>4, <2>1 DEF IInv, TypeOK, Delta
  <2>3. b \in Body /\ e \in Epoch /\ e \in {0, made[m.to]}
    BY <1>1, <2>2, PatchedTyped, EpochAssumption DEF IInv, TypeOK, Epoch, Mixed
  <2>4. /\ mirror' = [mirror EXCEPT ![m.to] = b]
        /\ known' = [known EXCEPT ![m.to] = m.revision]
        /\ made' = [made EXCEPT ![m.to] = e]
    BY <1>4 DEF TakeDelta
  <2> HIDE DEF b, e
  <2> QED
    BY <1>1, <1>2, <1>4, <2>1, <2>2, <2>3, <2>4, MovesForward
<1>5. CASE TakeRestart(m)
  <2>1. Mirrors!Drop(m.to)
    BY <1>2, <1>5 DEF TakeRestart, Mirrors!Drop, Mirrors!cacheState
  <2> QED
    BY <1>1, <2>1 DEF Mirrors!Next
<1> QED
  BY <1>3, <1>4, <1>5
     DEF Take, TakeManifest, TakeChunk, TakeDelta, TakeFailure, clientVars

\* Every step of the protocol is one of the mirror's, or none that it sees.
LEMMA NextImplements ==
    ASSUME IInv, IInv', Forward, Next
    PROVE  Mirrors!Next \/ UNCHANGED mirrorState
<1>1. CASE \E r \in requests : Serve(r)
  BY <1>1, ServeImplements
<1>2. CASE \E m \in replies : Take(m)
  BY <1>2, TakeImplements
<1>3. ASSUME NEW c \in Clients, Assemble(c)
      PROVE  Mirrors!Next
  <2> DEFINE b == [layout |-> fetch[c].layout, clips |-> got[c], locators |-> fetch[c].locators]
  <2>1. fetch[c] \in Manifest /\ mirror[c] = NoBody
    BY <1>3 DEF Assemble, Forward, IInv, TypeOK
  <2>2. fetch[c].revision \in Revision /\ fetch[c].epoch \in Epoch
    BY <2>1 DEF Manifest
  <2>3. /\ mirror' = [mirror EXCEPT ![c] = b]
        /\ known' = [known EXCEPT ![c] = fetch[c].revision]
        /\ made' = [made EXCEPT ![c] = fetch[c].epoch]
        /\ UNCHANGED <<song, epoch, published>>
    BY <1>3 DEF Assemble, cacheVars
  <2>4. b \in Body
    <3>1. got[c] \in [Tracks -> Contents]
      BY <1>3 DEF Assemble, IInv, TypeOK
    <3>2. fetch[c].layout \in Layouts /\ fetch[c].locators \in Locators
      BY <2>1 DEF Manifest
    <3> QED
      BY <3>1, <3>2 DEF Body
  <2> HIDE DEF b
  <2> QED
    BY <2>1, <2>2, <2>3, <2>4, MovesForward
<1>4. ASSUME NEW c \in Clients, AskManifest(c) \/ AskDelta(c) \/ \E t \in Tracks : AskChunk(c, t)
      PROVE  UNCHANGED mirrorState
  BY <1>4 DEF AskManifest, AskDelta, AskChunk, Ask, cacheVars, clientVars, mirrorState
<1>5. ASSUME NEW b \in Body, Edit(b)
      PROVE  Mirrors!Next
  BY <1>5 DEF Edit, cacheVars, clientVars, Mirrors!Next, Mirrors!Edit,
              Mirrors!cacheState, Mirrors!clientState
<1>6. CASE Lose
  BY <1>6 DEF Lose, cacheVars, clientVars, mirrorState
<1>7. CASE Reload
  BY <1>7 DEF Reload, NewCache, clientVars, Mirrors!Next, Mirrors!Renew, Mirrors!clientState
<1> QED
  BY <1>1, <1>2, <1>3, <1>4, <1>5, <1>6, <1>7 DEF Next

\* For every song, any number of clients and any loss, retry and reload: what the
\* cache announces is a ledger that is only added to, and clients only move forward
\* in it, from whole body to whole body.
THEOREM ProtocolImplementsMirror == Spec => ImplementsMirror
<1>1. Init => Mirrors!Init
  BY DEF Init, CacheInit, Mirrors!Init, Mixed
<1>2. Init => Forward
  BY InitForward
<1>3. IInv /\ Forward /\ [Next]_vars => Forward'
  BY NextForward
<1>4. IInv /\ IInv' /\ Forward /\ [Next]_vars => [Mirrors!Next]_(Mirrors!vars)
  <2>1. UNCHANGED mirrorState => UNCHANGED Mirrors!vars
    BY DEF mirrorState, Mirrors!vars, Mirrors!cacheState, Mirrors!clientState
  <2>2. UNCHANGED vars => UNCHANGED mirrorState
    BY DEF vars, cacheVars, clientVars, mirrorState
  <2> QED
    BY <2>1, <2>2, NextImplements
<1>5. Spec => Mirrors!Spec
  BY <1>1, <1>2, <1>3, <1>4, Invariance, PTL DEF Spec, Mirrors!Spec
<1> QED
  BY <1>5 DEF ImplementsMirror
=============================================================================
