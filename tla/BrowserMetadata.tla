---------------------------- MODULE BrowserMetadata ----------------------------
(* /live/browser/get/metadata_page: for a page of the paths that a category      *)
(* lists, which file of the User Library each is, and the hash of that file as    *)
(* far as there is time.  Other processes write the files while Bridge reads      *)
(* them.  A path is a number; the paths 1 .. FileCount name a file of a supported  *)
(* kind, the others show a device without saying where it lies.                    *)
(*                                                                                *)
(* A file is an inode, by its number, with a size and a modification stamp.  A     *)
(* write into an inode gives it a stamp it never had; a file that replaces         *)
(* another is a new inode and may carry any stamp.  So the content of an inode is  *)
(* told by its number and its stamp, and a digest is the pair of the contents that *)
(* its two reads have met.                                                         *)
EXTENDS Integers, Sequences, SequencesExt, FiniteSetsExt

CONSTANTS
    FileCount,    \* the number of paths that name files
    FirstSizes,   \* the sizes that the files have at first, a sequence
    Sizes,        \* the sizes that a write may give a file
    StemOf,       \* the name of a path without folders and extension
    Listings,     \* what a category may list: its paths, and whether it goes by stems
    SingleHash,   \* MAX_SINGLE_SYNC_HASH_BYTES
    HashPerCall,  \* MAX_METADATA_HASH_BYTES_PER_CALL
    PageBudget,   \* MAX_REPLY_BYTES, less the envelope
    ItemBytes,    \* what an item takes, by its status
    MaxLimit,     \* MAX_METADATA_PAGE_LIMIT
    Limits,       \* limits that clients ask for
    MaxWrites,    \* bound: writes of other processes
    MaxPages      \* bound: pages that are asked for

ASSUME HashAssumption == SingleHash \in Nat /\ HashPerCall \in Nat /\ SingleHash <= HashPerCall
ASSUME LimitAssumption == MaxLimit \in Nat \ {0} /\ Limits \subseteq Int

Files == 1 .. FileCount

ASSUME FilesAssumption == FileCount \in Nat /\ FirstSizes \in [Files -> Nat] /\ Sizes \subseteq Nat
ASSUME ListingsAssumption == \A l \in Listings : l.paths \in Seq(Nat) /\ l.stems \in BOOLEAN
ASSUME BoundsAssumption == MaxWrites \in Nat /\ MaxPages \in Nat
Absent == 0

VARIABLES
    disk, inode, \* of each file its inode, or Absent; of each inode [size, stamp]
    cache,       \* _SHA256_CACHE: digests by key
    metaPc,      \* where the handler is
    page,        \* the request and what it has so far
    stemIndex,   \* the files by stem, as the page began
    hashLeft,    \* the hash budget
    looked,      \* the file that is read: what resolved it, and what was seen of it
    pageReply,   \* the last answer
    read,        \* the paths a client has read since it began at offset 0
    quiet,       \* history: no write since the page began
    hashed,      \* history: files hashed for this page
    writes, pages

metaVars == <<disk, inode, cache, metaPc, page, stemIndex, hashLeft, looked, pageReply, read,
              quiet, hashed, writes, pages>>

NoOffset == -1
NoPage == [listing |-> [paths |-> <<>>, stems |-> FALSE], offset |-> 0, limit |-> 0, items |-> <<>>]
NoFile == [file |-> Absent, by |-> "none", size |-> 0, stamp |-> 0, id |-> Absent, handle |-> Absent,
           digest |-> <<>>, cached |-> FALSE]
NoPageReply == [items |-> <<>>, next |-> NoOffset]

MetaInit ==
    /\ disk = [f \in Files |-> f]
    /\ inode = [f \in Files |-> [size |-> FirstSizes[f], stamp |-> 0]]
    /\ cache = <<>>
    /\ metaPc = "idle"
    /\ page = NoPage
    /\ stemIndex = <<>>
    /\ hashLeft = HashPerCall
    /\ looked = NoFile
    /\ pageReply = NoPageReply
    /\ read = <<>>
    /\ quiet = TRUE
    /\ hashed = 0
    /\ writes = 0
    /\ pages = 0

Content(i) == <<i, inode[i].stamp>>
StatOf(f) == inode[disk[f]]
Key == [file |-> looked.file, size |-> looked.size, stamp |-> looked.stamp, id |-> looked.id]
ListedPath == page.listing.paths[page.offset + Len(page.items) + 1]

\* Another process writes into a file, puts another in its place, or removes it.
\* Bound: while pages are still asked for, for what it does later has no effect.
Write(f) ==
    /\ writes < MaxWrites
    /\ pages < MaxPages \/ metaPc # "idle"
    /\ writes' = writes + 1
    /\ quiet' = FALSE
    /\ \E size \in Sizes :
       \/ /\ disk[f] # Absent
          /\ inode' = [inode EXCEPT ![disk[f]] = [size |-> size, stamp |-> writes + 1]]
          /\ UNCHANGED disk
       \/ /\ \E stamp \in {0, writes + 1} : inode' = Append(inode, [size |-> size, stamp |-> stamp])
          /\ disk' = [disk EXCEPT ![f] = Len(inode) + 1]
       \/ /\ disk' = [disk EXCEPT ![f] = Absent]
          /\ UNCHANGED inode
    /\ UNCHANGED <<cache, metaPc, page, stemIndex, hashLeft, looked, pageReply, read, hashed, pages>>

\* The client takes the paths of the reply and goes on at next_offset.
Answer(items, next) ==
    /\ metaPc' = "idle"
    /\ looked' = NoFile
    /\ pageReply' = [items |-> items, next |-> next]
    /\ read' = (IF page'.offset = 0 THEN <<>> ELSE read) \o [k \in DOMAIN items |-> items[k].path]

Following(offset, listing) == IF offset < Len(listing.paths) THEN offset ELSE NoOffset

\* The scan of the User Library: the files that are there, by their stems.
StemIndex == [s \in {StemOf[f] : f \in Files} |-> {f \in Files : StemOf[f] = s /\ disk[f] # Absent}]

\* _metadata_for_category_items: offset and limit are clamped; a limit of 0 asks for nothing.
AskPage(listing, offset, limit) ==
    /\ metaPc = "idle"
    /\ pages < MaxPages
    /\ pages' = pages + 1
    /\ LET start == Max({0, offset})
           upTo == Max({0, Min({limit, MaxLimit})})
       IN /\ page' = [listing |-> listing, offset |-> start, limit |-> upTo, items |-> <<>>]
          /\ IF upTo = 0
             THEN Answer(<<>>, IF start < Len(listing.paths) THEN start + 1 ELSE NoOffset)
             ELSE IF start >= Len(listing.paths) THEN Answer(<<>>, NoOffset)
             ELSE metaPc' = "resolve" /\ UNCHANGED <<looked, pageReply, read>>
    /\ stemIndex' = IF listing.stems THEN StemIndex ELSE <<>>
    /\ hashLeft' = HashPerCall
    /\ quiet' = TRUE
    /\ hashed' = 0
    /\ UNCHANGED <<disk, inode, cache, writes>>

\* A client begins a category, or goes on with the one it reads; next_offset is past
\* a path that it has not been given if it asked for nothing, so then it does not.
ClientAsks ==
    \E limit \in Limits :
        \/ \E listing \in Listings, offset \in {-1, 0} : AskPage(listing, offset, limit)
        \/ pageReply.next # NoOffset /\ page.limit > 0 /\ AskPage(page.listing, pageReply.next, limit)

TooLong(items) == FoldLeft(LAMBDA n, i : n + ItemBytes[i.status], 0, items) > PageBudget

\* Mutant: a page ends where it was to end, whatever was left out of it.
AddItemSkipping(item) ==
    LET items == Append(page.items, item)
        full == page.items # <<>> /\ TooLong(items)
        taken == IF full THEN page.items ELSE items
        upTo == page.offset + Len(taken)
    IN /\ page' = [page EXCEPT !.items = taken]
       /\ IF full \/ Len(taken) = page.limit \/ upTo = Len(page.listing.paths)
          THEN Answer(taken, Following(page.offset + page.limit, page.listing))
          ELSE metaPc' = "resolve" /\ looked' = NoFile /\ UNCHANGED <<pageReply, read>>

\* An item that makes the reply too long ends the page, without the item.
AddItem(item) ==
    LET items == Append(page.items, item)
        full == page.items # <<>> /\ TooLong(items)
        taken == IF full THEN page.items ELSE items
        upTo == page.offset + Len(taken)
    IN /\ page' = [page EXCEPT !.items = taken]
       /\ IF full \/ Len(taken) = page.limit \/ upTo = Len(page.listing.paths)
          THEN Answer(taken, Following(upTo, page.listing))
          ELSE metaPc' = "resolve" /\ looked' = NoFile /\ UNCHANGED <<pageReply, read>>

PathItem(status) == [path |-> ListedPath, status |-> status, hash |-> "none", key |-> <<>>, digest |-> <<>>]

\* A file without an identity is "hash_only".
FileItem(hash, digest) ==
    [path |-> ListedPath, status |-> IF looked.id = Absent THEN "hash_only" ELSE "file_backed",
     hash |-> hash, key |-> Key, digest |-> digest]

Missing == AddItem(PathItem(IF ListedPath \in Files THEN "stale_missing_file" ELSE "path_only"))

\* The files that the index has under the stem of the path.
StemMatches == IF page.listing.stems /\ StemOf[ListedPath] \in DOMAIN stemIndex THEN stemIndex[StemOf[ListedPath]] ELSE {}

Examine(f, by) ==
    /\ metaPc' = "stat"
    /\ looked' = [NoFile EXCEPT !.file = f, !.by = by]
    /\ UNCHANGED <<page, pageReply, read>>

\* The only file of that stem is taken, several are ambiguous.
ByStem ==
    IF StemMatches = {} THEN Missing
    ELSE IF Cardinality(StemMatches) > 1 THEN AddItem(PathItem("ambiguous_file_match"))
    ELSE \E f \in StemMatches : Examine(f, "stem")

\* _metadata_item_for_browser_path: the file at the path, else the file of that stem.
Resolve ==
    /\ metaPc = "resolve"
    /\ IF ListedPath \in Files /\ disk[ListedPath] # Absent THEN Examine(ListedPath, "path") ELSE ByStem
    /\ UNCHANGED <<disk, inode, cache, stemIndex, hashLeft, quiet, hashed, writes, pages>>

\* metadata_for_file: a file that has gone is looked for by its stem, then given up.
Stat ==
    /\ metaPc = "stat"
    /\ IF disk[looked.file] # Absent
       THEN /\ looked' = [looked EXCEPT !.size = StatOf(looked.file).size, !.stamp = StatOf(looked.file).stamp]
            /\ metaPc' = "identify"
            /\ UNCHANGED <<page, pageReply, read>>
       ELSE IF looked.by = "path" THEN ByStem ELSE Missing
    /\ UNCHANGED <<disk, inode, cache, stemIndex, hashLeft, quiet, hashed, writes, pages>>

Identify ==
    /\ metaPc = "identify"
    /\ looked' = [looked EXCEPT !.id = disk[looked.file]]
    /\ metaPc' = "lookup"
    /\ UNCHANGED <<disk, inode, cache, page, stemIndex, hashLeft, pageReply, read, quiet, hashed, writes, pages>>

Pending == AddItem(FileItem("pending", <<>>))

\* Mutant: a digest that is cached is charged to the budget as well.
LookupCharging ==
    /\ metaPc = "lookup"
    /\ IF looked.size > SingleHash \/ looked.size > hashLeft
       THEN Pending /\ UNCHANGED hashLeft
       ELSE /\ looked' = IF Key \in DOMAIN cache THEN [looked EXCEPT !.digest = cache[Key], !.cached = TRUE] ELSE looked
            /\ metaPc' = IF Key \in DOMAIN cache THEN "restat" ELSE "open"
            /\ hashLeft' = hashLeft - looked.size
            /\ UNCHANGED <<page, pageReply, read>>
    /\ UNCHANGED <<disk, inode, cache, stemIndex, quiet, hashed, writes, pages>>

\* Mutant: only the size of the file itself is looked at before it is charged.
LookupOverdrawn ==
    /\ metaPc = "lookup"
    /\ IF looked.size > SingleHash
       THEN Pending /\ UNCHANGED hashLeft
       ELSE /\ metaPc' = "open"
            /\ hashLeft' = hashLeft - looked.size
            /\ UNCHANGED <<looked, page, pageReply, read>>
    /\ UNCHANGED <<disk, inode, cache, stemIndex, quiet, hashed, writes, pages>>

\* _sha256_metadata: a digest that is cached costs nothing; a file that is too long,
\* for one file or for what is left, waits; any other is charged before it is read.
Lookup ==
    /\ metaPc = "lookup"
    /\ \/ /\ Key \in DOMAIN cache
          /\ looked' = [looked EXCEPT !.digest = cache[Key], !.cached = TRUE]
          /\ metaPc' = "restat"
          /\ UNCHANGED <<page, hashLeft, pageReply, read>>
       \/ /\ Key \notin DOMAIN cache
          /\ looked.size > SingleHash \/ looked.size > hashLeft
          /\ Pending
          /\ UNCHANGED hashLeft
       \/ /\ Key \notin DOMAIN cache
          /\ looked.size <= SingleHash /\ looked.size <= hashLeft
          /\ hashLeft' = hashLeft - looked.size
          /\ metaPc' = "open"
          /\ UNCHANGED <<looked, page, pageReply, read>>
    /\ UNCHANGED <<disk, inode, cache, stemIndex, quiet, hashed, writes, pages>>

\* sha256_for_path: what is opened is read to its end, wherever the path leads then.
Open ==
    /\ metaPc = "open"
    /\ IF disk[looked.file] = Absent
       THEN Pending
       ELSE /\ looked' = [looked EXCEPT !.handle = disk[looked.file], !.digest = <<Content(disk[looked.file])>>]
            /\ metaPc' = "read"
            /\ UNCHANGED <<page, pageReply, read>>
    /\ UNCHANGED <<disk, inode, cache, stemIndex, hashLeft, quiet, hashed, writes, pages>>

ReadOn ==
    /\ metaPc = "read"
    /\ looked' = [looked EXCEPT !.digest = Append(@, Content(looked.handle))]
    /\ metaPc' = "restat"
    /\ UNCHANGED <<disk, inode, cache, page, stemIndex, hashLeft, pageReply, read, quiet, hashed, writes, pages>>

\* Size and stamp again ...
Restat ==
    /\ metaPc = "restat"
    /\ IF disk[looked.file] # Absent /\ StatOf(looked.file) = [size |-> looked.size, stamp |-> looked.stamp]
       THEN metaPc' = "reidentify" /\ UNCHANGED <<looked, page, pageReply, read>>
       ELSE Pending
    /\ UNCHANGED <<disk, inode, cache, stemIndex, hashLeft, quiet, hashed, writes, pages>>

Stored == [k \in DOMAIN cache \cup {Key} |-> IF k = Key THEN looked.digest ELSE cache[k]]

\* Mutant: the identity is trusted if size and stamp are as before.
ReidentifyNot ==
    /\ metaPc = "reidentify"
    /\ AddItem(FileItem("ready", looked.digest))
    /\ cache' = IF looked.cached THEN cache ELSE Stored
    /\ hashed' = IF looked.cached THEN hashed ELSE hashed + 1
    /\ UNCHANGED <<disk, inode, stemIndex, hashLeft, quiet, writes, pages>>

\* ... and the identity: a file that has changed since it was first seen waits.
Reidentify ==
    /\ metaPc = "reidentify"
    /\ IF disk[looked.file] = looked.id
       THEN /\ AddItem(FileItem("ready", looked.digest))
            /\ cache' = IF looked.cached THEN cache ELSE Stored
            /\ hashed' = IF looked.cached THEN hashed ELSE hashed + 1
       ELSE /\ Pending
            /\ UNCHANGED <<cache, hashed>>
    /\ UNCHANGED <<disk, inode, stemIndex, hashLeft, quiet, writes, pages>>

MetaNext ==
    \/ \E f \in Files : Write(f)
    \/ ClientAsks
    \/ Resolve
    \/ Stat
    \/ Identify
    \/ Lookup
    \/ Open
    \/ ReadOn
    \/ Restat
    \/ Reidentify

MetaSpec == MetaInit /\ [][MetaNext]_metaVars

--------------------------------------------------------------------------------
MetaTypeOK ==
    /\ disk \in [Files -> 0 .. Len(inode)]
    /\ metaPc \in {"idle", "resolve", "stat", "identify", "lookup", "open", "read", "restat", "reidentify"}
    /\ hashLeft \in 0 .. HashPerCall
    /\ looked.file \in Files \/ metaPc \in {"idle", "resolve"}
    /\ pageReply.next \in Nat \cup {NoOffset}
    /\ quiet \in BOOLEAN /\ hashed \in Nat
    /\ writes \in 0 .. MaxWrites /\ pages \in 0 .. MaxPages

IsContent(key, digest) == digest = << <<key.id, key.stamp>>, <<key.id, key.stamp>> >>

\* A digest that is cached or answered is that of the file with the size, the stamp
\* and the identity it is filed under, and of no mixture of two: whatever is written,
\* replaced or removed while Bridge reads.  A file that was away as its identity was
\* asked for has none, and nothing is said of it.
HashIsContent ==
    /\ \A key \in DOMAIN cache : key.id # Absent => IsContent(key, cache[key])
    /\ \A k \in DOMAIN pageReply.items :
          LET item == pageReply.items[k]
          IN item.status = "file_backed" /\ item.hash = "ready" => IsContent(item.key, item.digest)

\* A page that leaves a file waiting which is short enough to be hashed has hashed
\* another one, unless the files have changed: a client that asks again gets every
\* short file hashed in the end.
HashProgress ==
    metaPc = "idle" /\ quiet =>
        \A k \in DOMAIN pageReply.items :
            LET item == pageReply.items[k]
            IN item.hash = "pending" => item.key.size > SingleHash \/ hashed > 0

\* A client that goes on from next_offset has at every moment read the listing from
\* its beginning, and all of it when there is no next_offset, however many items the
\* size of the replies has held back.
MetadataPagesWhole ==
    metaPc = "idle" /\ page.limit > 0 =>
        IF pageReply.next = NoOffset
        THEN page.offset < Len(page.listing.paths) => read = page.listing.paths
        ELSE read = SubSeq(page.listing.paths, 1, pageReply.next)
================================================================================
