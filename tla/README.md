# Formal verification of Ohmic Bridge

Ohmic Bridge is a Remote Script for Ableton Live: Python that Live loads and
calls, which exposes Live's object model to clients over OSC on UDP (requests to
port 11002, replies to port 11003). This directory holds TLA+ models of its
core, TLC configurations that check them on small instances, and proofs that
TLAPS checks for every instance. `PROJECT.json` lists the runs, the source lines
each definition stands for, the hazards and the theorems.

Everything of the bridge runs on Live's one thread. Live calls it in three ways:
a *tick* every 100 ms (`manager.py` `tick`), a *listener* when a property
changes, and `disconnect`. What is concurrent is everything around it: clients
send at any moment, datagrams are lost and overtaken, the user edits the Live
set between two requests, and the bridge can be reloaded under its clients.

## Inventory

| component | source | state it keeps | operations | interacts with | what is hard | what makes it correct |
|---|---|---|---|---|---|---|
| listeners | `handler.py`, `track.py` mixer part, `device.py` parameter part | `listener_functions`, `listener_objects` of each handler | start, stop, `"*"` over tracks, clear on reload | Live holds the callbacks; callbacks send through the OSC server | clients name objects by position and the set is rearranged between start and stop; three ways of registering; properties whose key all devices share | the dicts and Live agree; nothing is silenced; a callback escapes the dicts only through a request that finds another object than the callback's |
| arrangement cache | `arrangement_view.py`, `song.py` 346-373 | revision, last snapshot, its chunks | manifest, chunk, delta | clients on a lossy wire; reads the song | stale revisions, one snapshot for all clients, byte budgets, reload | a mirror is always one body the cache announced; a delta leads to the song |
| snapshot chunking | `arrangement_view.py` 276-466 | none (an algorithm) | pack clips into chunks under a byte budget | the cache | chunk count is part of chunk size: a fixpoint | chunks concatenate to the body, each fits, the iteration ends |
| OSC server | `osc_server.py` | socket, callback table, default reply address | drain, dispatch message, bundle, `"*"`; send | handlers; manager's tick; log relay | a handler's exception in a loop over datagrams; unsendable replies; several clients | answers reach their sender, failures stay in their datagram and are reported, the loop goes on |
| manager | `manager.py` | scheduled tick, handlers, log handlers | start, tick, reload, disconnect | all | order of set-up steps; the tick schedules the next one last | a loaded bridge keeps serving |
| property handlers | `track.py`, `clip.py`, `scene.py`, `device.py`, `view.py`, `clip_slot.py`, `application.py`, `midimap.py` | Live's own state; the cache of clip names | get, set, call by position; edits of notes, loops and envelopes; filter | OSC server, Live | index handling; loop writes in two steps; a stale cache of clip names; a note's width told from the request's length | a legal loop is set wherever the old one was; notes arrive as sent or not at all; the filter follows the names |
| paging | `song.py` 14-51, 294-344; `clip.py` 13-56; `browser.py` 849-863, 1084-1128 | none | one page per request, or a cut list | clients | the set changes between pages; exact multiples; an entry too large for a page | pages of one state concatenate to it and fit |
| session info | `song.py` 184-291, 375-487 | none | one reply | clients | lists filled in step by code that can fail midway | lists stay aligned up to the failure |
| beat listener | `song.py` 533-569 | `last_song_time` | start, stop, callback, reload | Live's song time | jumps, merged callbacks | the last beat sent is that of the last time seen |
| browser | `browser.py` | two cached scans; Live's selection and insert mode | list, load at a position | Live | two recursions that must agree; a mode restored on every way out; which device is new | what is listed can be loaded; the mode is restored; the index is that of the new device |
| browser metadata | `browser_metadata.py`, `browser.py` 321-531 | the cache of hashes | page, resolve, hash | the file system, clients | files change while they are read; a budget of bytes; pages cut by their size | a hash is of one content of the file it is filed under; short files get hashed; pages are whole |
| capabilities | `capabilities.py` | one cached probe | probe | clients | partial failure is cached | |
| introspection | `introspection.py` | none | list attributes | | | |
| OSC client | `client/client.py`, `integration_client.py`, `run-console.py` | a handler per address; a socket | query, wait, time out, drain | bridge | a thread for each datagram looks handlers up while they are deleted; an answer after its timeout | every query ends, with a message under its address that nobody was given before |
| pythonosc | `pythonosc/` | none | parse, build | | vendored | |

## Modules

* **`Listeners`** - `functions` and `objects` are the two dicts, keyed by
  property and the indices that the handler's wrapper hands on (`ListenerKey`): for
  the properties in `Shared`, a device's name, class and type, it hands none on
  (`device.py:41-44`, without `include_ids`), so all devices have one key; `attached` is the set of callbacks that Live itself
  holds, each with the object it is attached to; `at` says which object lies at
  each position; `todo` is what is left of a `"*"` request (`track_callback`
  serves the tracks in order, and an exception drops the rest); `serving` says
  whether the bridge has OSC handlers. One action per handler:
  `StartListen`/`StopListen` (`handler.py`), `StartMixerListen` and
  `StopUntracked` (`track.py`), `StartParamListen` (`device.py`), `RemoveRaises`
  where Live refuses to disconnect and nobody catches it, `StopUnknown`, `Reload`
  and `ReloadRaises` (`manager.clear_api` clears the handlers in their order, so
  a failure leaves those ahead cleared), and `Rearrange` for the user. A start
  that finds its key in use is one action with the stop it calls. Abstracted:
  the value of the property; of the immediate callback of a start, only that it may
  raise: the listener is then registered, and the rest of a `"*"` request is
  dropped (`Raise`).
* **`ArrangementCache`** - `ArrangementDeltaCache`. A body is a layout, the clips
  of each track and the locators; `ManifestBuilt`, `ManifestFailed`,
  `DeltaAnswered` are the ways its methods change state, `Known`, `NeedsResync`,
  `DeltaFails` which answer a poll gets, in the order of the code (identity first,
  then the read of the song, then the layout, then the size). Digests are taken
  to be injective; bytes are two constants (`Oversized` contents, `MaxChanges`
  per delta); a chunk holds one track. `published` is history.
* **`ArrangementSync`** - composes the cache with clients and a wire on which
  messages are sets: they can be overtaken, lost (`Lose`, or never taken) and
  asked again. The client side is external, the protocol its endpoints suggest:
  fetch a manifest and all its chunks, poll with the revision, patch, start over
  when told to resync. `now`, `made` and `epoch` are history: they say what song
  a delta was computed from and which cache a mirror comes from.
* **`ArrangementMirror`** - what that protocol promises, without messages: the cache
  is a ledger that is only added to, each entry being the song when it was written;
  a client shows nothing, or moves in one step to an entry not older than its own,
  or drops what it shows; a reload begins a new ledger, and what a client shows of an
  old one is not promised anything. `ArrangementSync` implements it (`Mirrors`): the
  published bodies are the ledger, `mirror`, `known` and `made` what a client shows,
  for which revision and from which ledger. A manifest and a delta with changes are
  an entry, the last chunk's assembly and a delta taken are a move, a restart is a
  drop; chunks, requests, failures, losses and retries are no steps at all.
* **`SnapshotChunks`** - `build_arrangement_snapshot_chunks` below its reading of
  the song: one step per track (`AddTrack`, `NewChunk`, `SplitTrack`), per clip of
  a track that is cut (`AddClip`, `NextPage`, `Refuse`, `EndTrack`), and per pass
  of the loop over the chunk count (`Repack`, `Packed`), then the check of the
  encoded sizes (`Answer`). A chunk is a range of tracks and a range of clips;
  `open` is where `current` or `current_page` begins. The JSON text is its length,
  a sum over envelope, keys, clips and the two numbers, whose lengths (`Digits`)
  are any non-decreasing function. What it refuses is `ArrangementCache`'s `Fits`.
* **`OscServer`** - `process` as the manager drives it. A datagram is a sequence
  of messages (a bundle); a message names handlers directly or by `"*"`; what a
  handler does is the set of ways it can end (`Ends`): nothing, a tuple, a tuple
  over one datagram, a value OSC cannot carry, an exception by kind, a change of
  log level, a reload that fails. `visit` and `bundle` are what is left when one
  of them ends. `link` is whether `sendto` works, at any moment. `relaying` is
  whether errors reach the log handler that sends them: `CanLog` is false exactly
  when `send` and that handler call each other until Python raises
  `RecursionError`, which `GiveUp` carries past both `except` clauses of
  `process` to `tick`, before it schedules the next.
* **`QueryService`** - abstract: what a client may rely on when it asks. One
  request at a time is open; it ends once, with a message under its address that
  no request was given before, or with an error; and it does end. It does not say
  that the message is the answer to *this* request, and neither does the code: an
  answer carries an address and no number.
* **`OscClient`** - the two clients as implementations of it, over a wire that
  loses and overtakes. *threaded* (`client/client.py`): `handlers` is
  `address_handlers` with, for each address, the query whose closure is
  registered; the asking thread is `pc` (`SetHandler`, `Send`, `Wake`,
  `RemoveHandler`, `CheckEvent`); each datagram is a thread that looks its handler
  up in two steps (`Look`, `Index`), calls the closure (`Store`) and sets its event
  (`SetEvent`), interleaved with the asker at every point. *polling*
  (`integration_client.py`): `DrainAndSend`, `Receive`, `Deadline`. Requests and
  outcomes are the state of `QueryService` itself, so the refinement mapping is
  the identity; the rest is hidden.
* **`BrowserTree`** - pure: categories, the collection that `get_names` and
  `search` list (`Collected`), and the search that `load` makes (`FindLoadable`),
  with the filters and roots of each. A name is a stem, an extension and the case
  it is written in: a search by path compares names as they are, one by a single
  name ignores the case (`SameName`), and may so find another item than the one
  listed. Of extensions only `.amxd` is taken off a stem (`MaxStem`).
* **`BrowserLoad`** - `load_item`, one action per call into Live, each of which
  can raise: `Check`, `SelectTrack`, `SelectAnchor`, `SetInsertMode`, `Count`,
  `LoadItem`, `Restore` (the `finally`), `Report`. Where Live inserts (`Place`) is
  external; it may also replace a device, or load later.
* **`BrowserMetadata`** - a metadata page, with every access to the file system an
  action of its own (`Resolve`, `Stat`, `Identify`, `Lookup`, `Open`, `ReadOn`,
  `Restat`, `Reidentify`), and `Write` of other processes between any two of
  them. A file is an inode with a size and a stamp; assumed of the file system is
  that a write into a file gives it a modification time it never had, while a file
  put in its place may have any, and an inode that never was at the path: a file
  renamed away and back between the two checks of its identity, with another in its
  place meanwhile, is not modelled.
* **`Paging`** - the packing of the clip grid, the pages of notes, the cut lists,
  and a client that reads page by page while the user edits. The window of time that a
  read of notes has by default, -8192 to 8192 beats, is taken to hold every note.
* **`SessionReads`** - the replies of `song.py` that describe every track in
  parallel lists; an entry says which track it is about.
* **`BeatListener`** - the listener on the song's time.
* **`ClipEdits`** - notes, loops, envelopes and arrangement clips; what Live
  refuses is external. The points of one request are taken to be at different times,
  since two at one time are one point to Live. The notes and envelopes of session clips go through the
  same code with another way of finding the clip.
* **`ClipFilter`** - the filter by notes in clip names, with its cache.
* **`Requests`** - composes the seven modules above from `BrowserLoad` on. Their
  handlers share no state: `task` chooses the one that a behaviour is about, since
  interleaving them would add states and no behaviour of any of them.
* **`MCListeners`, `MCArrangementSync`, `MCSnapshotChunks`, `MCOscServer`,
  `MCOscClient`, `MCRequests`** - instances for TLC.
* **`ListenersProofs`, `ArrangementProofs`, `SnapshotChunksProofs`,
  `OscServerProofs`, `OscClientProofs`, `BrowserProofs`, `RequestsProofs`** - proofs;
  **`SequenceLemmas`** - what they need to know of sequences, folds and recursive
  functions.

Definitions whose comment starts with "Mutant" are plausible bugs: each property
of a passing run has one that violates it, which shows that the property can
tell the code from its neighbours.

## Runs

| run | bounds | shows |
|---|---|---|
| `listeners` | 2 positions, 3 objects, a property of each kind and one with a shared key, 4 callbacks at once | the dicts, Live's callbacks and the set under every order of starts, stops, `"*"` requests, reloads and moves |
| `listeners_reload` (violation) | same | a reload with a mixer or parameter listener leaves no OSC handlers (`handler.py:136`) |
| `listeners_benign` (violation) | same | the error dropped in `_stop_listen` can leave an unreachable callback (`handler.py:119`), at its shortest by a stop for another device (`device.py:41`) |
| `arrangement_sync` | 2 clients with 2 messages each in flight, 2 tracks, unreadable and oversized contents, 2 revisions, 1 edit | no mirror ever mixes bodies; deltas lead to the song |
| `arrangement_converge` | 1 client, 2 layouts, 2 tracks, 1 change per delta, 2 edits, 1 loss, 1 reload, 6 revisions | it implements `ArrangementMirror` across the reload, and the mirror ends equal to the song |
| `arrangement_reload` (violation) | 2 clients, a reload | a revision of the old cache is taken for the new one's (`arrangement_view.py:539`) |
| `snapshot_chunks` | all arrangements of up to 3 tracks of up to 3 clips of 1 or 3 bytes; budget 9; numbers longer at 2, 4, 6 | chunks are the arrangement; only the indivisible is refused; the loop ends |
| `osc_server` | 2 clients, 4 handlers, 5 kinds of datagram, 2 in the socket | answers, isolation of failures, reports, and that the tick goes on |
| `osc_server_arguments` (violation) | same | a `"*"` request without arguments is aborted, not skipped (`osc_server.py:123`) |
| `osc_server_dead` (violation) | same | an unsendable report ends the tick (`manager.py:71`) |
| `clients` | both clients, 2 requests, 2 addresses, a listener on one | they implement `QueryService`, in safety and in that every query ends; nothing left behind answers a later query |
| `requests` | see below | listing and loading agree and loads restore the insert mode; pages are whole and fit; hashes are of one content; lists are aligned; the beat, the filter and the edits of clips are as asked |

Why the bounds are enough. *Listeners*: an operation concerns one key and at most
two objects, the recorded one and the one now at the position; a third object and
a second position allow exchange, replacement and deletion, and two devices that
share a key; four identities allow
an orphan next to a current callback for two keys. *Arrangement*: every property
relates one client, one base revision and the present one; a second client makes
the cache move behind the first; two messages in flight give overtaking and
repetition. Losses need no budget in `arrangement_sync`, since a message may
simply never be taken; the run stops at its last revision, so it does not check
deadlock. In `arrangement_converge` the revisions suffice for every behaviour of
its edits, losses and reload. *Chunks*: a budget of nine
bytes is between one clip and three tracks, so that every branch is taken, and
numbers get longer below ten instead of at 10, 100 and 1000, so that the count
crosses a length in most arrangements. The run does not check deadlock, since the
function returns. *Server*: the four handlers end in each of the ways
of `Ends`; two datagrams give the drain loop something behind the failing one.
*Clients*: every hazard is one earlier request's answer, handler or thread meeting
the present query, under its own address or another. *Requests*, by task. Load: two
browsers with a path below the depth limit, folders that load, an item without a
name, the same stem under several roots, racks within racks; chains of up to two
devices with equal names; every mode and anchor at and past the ends. Pages: grids
with an entry as large as, and larger than, a page, empty and broken slots; notes
at the page size, its multiples and one less; two edits. Metadata: two files of
one stem, sizes that fit the budget together and not, a third path without a file,
two writes, two pages. Session: each property that can raise, on the middle one of
three tracks. Clips: three requests, which create a clip, change it and change it
again; up to six notes, the number at which the width of a note is ambiguous.
Filter: four edits and requests over three sets, one with a name that raises. The
run does not check deadlock: its bounds end every task.

Fairness. `OscServer` assumes weak fairness of Live's thread: Live calls a tick it
was given, and Python code that runs goes on; nothing is assumed of clients, of
the link, or of `recvfrom` failing. `SnapshotChunks` assumes that a function that
runs goes on. `OscClient` assumes that a query that waits goes on, since both
clients wait with a timeout, and that the polling client meets its deadline, since
it compares the clock with it before every read: messages for other addresses
cannot hold it for ever. `ArrangementSync` assumes that requests and
replies on the wire are served and taken and that a client goes on asking, as a
client that polls does; `KeepsServing` of the server is what justifies the first.
Convergence is stated for an environment whose edits and losses end; with two
clients it is not promised by the code, because each manifest replaces the other
client's snapshot and who wins depends on their retry times.

## Proofs

For every value of the constants, under the assumptions named in the modules
(disjoint kinds, markers outside the sets they mark, numeric bounds in `Nat`):

* `ListenersProofs`: the type invariant, `DictsAgree`, `RegisteredIsAttached`,
  `MixerCallbacksKnown`, and the action properties `OrphansNeedAnotherObject`,
  `MixerEntryHeld`, `ServiceLostOnlyByUntracked`. Inductive is their conjunction:
  that an operation on one key leaves the callbacks of another alone needs that an
  entry carries its own key (`DictsAgree`), and that a reload clears a listener
  from the right object needs that the recorded object is the callback's.
* `ArrangementProofs`: the type invariant, `MirrorIsPublished`,
  `AcceptedMirrorIsSnapshot`, `DeltaIsCurrent`, `FetchIsWhole` and
  `ImplementsMirror`; and `RevisionsAreNotReused`, a part of the last that no run
  checks by itself. None is inductive alone, because a reply still on the
  wire can become a mirror later. `IInv` therefore says what each message and each
  fetch is worth to the cache of its epoch (`GoodReply`, `GoodFetch`,
  `GoodMirror`), and that nothing is announced above the present revision
  (`CacheOK`); the lemmas on `CacheStep` show that a cache never takes such a
  statement back, since it writes only above its revision. `PatchDiff` is the
  algebra: patching with a difference gives the new body if the layouts are equal,
  the condition `delta` checks first. The refinement takes every step to one of the
  ledger, of a client, or to none; besides `IInv` it needs that a delta leads to a
  revision not older than its base and that nobody fetches while showing a body
  (`Forward`): without the second, an old manifest could take a client back.
* `SnapshotChunksProofs`: the type invariant, `ChunksAreTheBody`,
  `OnlyEmptyTracksFailTheCheck`, `RefusesOnlyIndivisible` and `HintGrows`, for any
  arrangement, budget and number lengths. The first three are invariants of the
  pass: its closed chunks are pieces of the arrangement that follow each other and
  fit (`Walked`), and the open one fits (`TrackLoop`, `ClipLoop`). That the count
  never falls needs more, since a greedy packing of other sizes may well find
  fewer chunks: `Ahead` says that no packing under the same count has come further
  with as many chunks (`Close` is the step of the argument, `CloseCurrent` and
  `ClosePage` its two uses), so a pass finds the least number, and a packing under
  a larger count is one under a smaller (`PacksUnderLess`).
* `OscServerProofs`: the type invariant with the order of phases,
  `AnswersReachTheirSender`, `TickComesBack`, `DatagramsAreIsolated`,
  `LostWorkIsReported`. The strengthening is `remote = sender`: error reports go
  to the default address and replies to the sender of the datagram, so a report
  is about its addressee because the address is set before dispatch.
* `OscClientProofs`: the type invariant, `NothingLeftBehind`, and that every
  behaviour of the clients is one of `Service!SafeSpec`, where `Service` is
  `QueryService` with the clients' addresses, requests and outcomes. A message can be given out
  only once because it is in one place at a time: the inductive invariant follows
  each reply from the bridge to the wire, to a thread or the socket, to the `rv` of
  one closure and to an outcome, and says that an earlier place is empty of what a
  later one holds. `Store` needs that a thread's closure is a query of its address.
* `BrowserProofs`, about listing and loading: `ListedPathsLoad`. The collection and
  the two searches are different recursions over the same tree. `VisitedReached`
  connects them: by induction on the depth, all that the collection visits below a
  root is found again by its path, since the search by path finds the children of
  what it finds (`FindNext`) and what it finds has the path it was asked for
  (`FindSound`). With several roots the first that has the path wins; `ItemsLoad`
  shows that it has an item that is as good. The invariant of the run is inductive.
  Assumed is that Live's browser is a forest with distinct names among siblings and
  that items of the same path under two roots are both loadable or neither
  (`BrowsersAreForests`, which TLC evaluates for the instances).
* `BrowserProofs`, about a load: the type invariant, `InsertModeRestored` and
  `InsertedWhereAsked`. The invariant says for each phase what is still to be
  restored and what the chain was when the load began. That the answered index is
  right up to equal names rests on `SameNeighbours`: if removing at either of two
  places gives the same chain, all names between them are equal.
* `BrowserProofs`, about metadata: the type invariant, `HashIsContent`,
  `HashProgress` and `MetadataPagesWhole`. Size, stamp and identity are read at
  different moments before and after the content; the argument is that a stamp or
  an identity that stands now and was seen before has stood all the time, because a
  write never gives a file a stamp it had and a replacement is a new inode.
  `MetadataPagesWhole` follows what has been read so far to the place in the listing
  where the page under way stands (`ReadInv`).
* `RequestsProofs`, about pages: `PagesFit`, and `GridPagesWhole` and
  `NotesPagesWhole`, which with the third make `PagesAreWhole`. The packing of the
  grid is a fold with two results, the pages and the size of the last; by induction
  on the entries, the pages, flattened, are the entries so far, and each fits or is
  one entry. A client's pages are whole because they are pages of one packing
  (`GridInv`, `NoteInv`: as long as no edit came between, what was read is the
  beginning of what would be answered now).
* `RequestsProofs`, about the session: `SessionAligned`, for any tracks. Inductive
  is that each reply a client holds is what the session would answer (`SessionInv`);
  the rest is about the lists: an entry of a flattened list belongs to the track its
  place says (`FlattenPlace`), and each field gets one entry for every track up to
  the first that fails (`FieldAligned`).
* `RequestsProofs`, about clips and the filter: the type invariant of clips, by
  which every loop is legal at all times, `ClipEditsAsAsked` and
  `FilterFollowsNames` with their invariants `ClipInv` (no loop of a clip that exists
  is empty or reversed, no point of an envelope is from the future) and `FilterInv`
  (the cache, once filled and the set untouched, is the names of the set).
* `RequestsProofs`, about the beat: the type invariant and `BeatKnown`.
* `RequestsProofs`, about all of these handlers side by side: each behaves as it does
  alone (`HandlersAreIndependent`: the specification of all implies that of each), so
  that everything above holds of their composition (`RequestsTypes`,
  `PagesAlwaysWhole`, `HandlersAlwaysCorrect`), which is what the run checks.
* `SequenceLemmas`: the library's induction schemes take an operator as a
  parameter, which the provers here cannot instantiate. `Induction` states the
  scheme for a *set* of numbers instead, which they can, and follows from the least
  element of a set of numbers. `Recursion` builds from it the function that a
  step-by-step definition names; with it `FlattenSeq` (`FlattenUnfolds`), `FoldLeft`
  (`FoldIterates`) and the recursive functions of `BrowserTree` unfold to a base and
  a step about which one can argue.

Assumptions on constants, each named in the module that declares it and evaluated by
TLC: kinds of properties are disjoint, marks lie outside the sets they mark, bounds
are numbers, a single entry's envelope fits into a page (`PagingAssumption`), a file
that is hashed alone is no larger than the budget of a page (`HashAssumption`), and
the forest of the browser.

Only model-checked: the liveness properties `Converges`, `KeepsServing`,
`Terminates` and the liveness half of `ImplementsQueryService` (fairness and ENABLED
are beyond this prover; for `Terminates` the proofs give the variant, a count that
only grows and is bounded by tracks and clips), and the five violations. Every
safety property of every passing run is proved.

## Disagreements between the source and what it says

Each is a run that ends in a counterexample, listed under `findings` with the
line quoted: a reload with mixer or parameter listeners (`handler.py:136`), the
"benign" error (`handler.py:119`) and the key that all devices share, through which
it comes with no move of the set (`device.py:41`), revisions across a reload
(`arrangement_view.py:539`), `"*"` requests without arguments
(`osc_server.py:123`), and reports over a dead link (`manager.py:71`).

What modelling the rest has met, stated as the exceptions in the properties or
here; no run shows it as a violation:

* Six notes of five values, or a multiple, are read as five of six values
  (`clip.py:193`, `clip.py:437`), although the comment at `clip.py:190-192` says that
  older clients, which send five, can still drive the bridge.
* The default window of a session clip has 127 pitches and leaves pitch 127 out,
  in reading and in removing; that of reading an arrangement clip has 128
  (`clip.py:185`, `clip.py:428`).
* When reading a track fails after its name was read, the lists of `session_info`
  are shifted against each other for all later tracks (`song.py:233`).
* A metadata page with limit 0 answers `offset + 1`: a client that follows it
  skips a path (`browser.py:490`).
* Among equal device names the first possible index is answered, and a chain whose
  names cannot be read counts as empty (`browser.py:50`).
* A folder that cannot be loaded, but has the path of an item that can in a later
  root of the same category, hides that item: the search by path takes the first
  root that has the path, and `load_item` then refuses (`browser.py:765`). The proof
  that listed paths load has shown that this must be assumed away; Live's roots do
  not seem to share such paths.
* A name with a slash is listed and cannot be found, since the query is split at
  slashes (`browser.py:733`); names in the model have none.
* When an envelope is read and the controller's parameter has not been found, its
  name is looked for as a part of the names of the clip's envelopes, so that "CC 1"
  can find "CC 10" (`clip.py:307`). The search for the parameter itself compares
  whole names.
* What a listener of a device's name, class or type reports carries no indices, since
  none are handed to it (`handler.py:92`): a client with two of them cannot tell
  whose value it is.
* `disconnect` stops the log before the socket, and `stop_logging` raises when
  the log handlers were never made, because the port was in use or `start_logging`
  failed (`manager.py:77`, `manager.py:176`): the socket is then never shut down. In the model this is `Disconnect`,
  after which a start may find the port in use, or no step, if Live goes on calling
  the tick.
* `set_envelope` converts its points one by one outside its `try` (`clip.py:370`): one
  that is no number ends the request with those before it written (`SetEnvelope`).
* A query of the polling or the threaded client can be given the answer to an
  earlier one of the same address that came late; `QueryService` says so.

## Not modelled

The values of properties and the methods handlers call: Live's own semantics.
The parsing and building of OSC packets: vendored. The play position in a
manifest, which no comparison looks at. Log files. The MIDI map. Partial module
reloads of Python. In `clip.py`, the reading of an envelope (a list of samples),
the search for a controller's parameter, names and `remove_notes_by_id`, which
pass one call to Live. In `browser_metadata.py`, how Windows is asked for a file's identity
(`ctypes`): an identity is there or is not. Capabilities: a table of `hasattr`
probes that is filled once and answered as it is; a probe that raised stays
"unsupported" until a reload, and nothing in the bridge reads the table. The size
of `session_info`, which is one reply without pages or budget; what becomes of a
reply that cannot be sent is in `OscServer`. Introspection lists attributes and keeps nothing. The interactive
console parses and prints.

## Plan

What is left, in order:

1. An abstract service (each datagram is answered, reported or dropped with its
   link) implemented by `OscServer`, with the refinement proved.
2. `OscClient` composed with `OscServer` in place of the external `Serve`, so that
   the wildcard and error replies of the bridge meet the clients.
