----------------------------- MODULE RequestsProofs -----------------------------
(* What holds of the requests that keep something between two replies: the pages of  *)
(* grids, notes and lists, the beat listener, and all handlers side by side.         *)
EXTENDS Requests, BrowserProofs, FiniteSetTheorems

Entry == [track : Nat, slot : Nat, bytes : Nat]

\* The pages of the grid so far, as the loop of _clip_grid_pages goes on.
PageLists == {sheets \in Seq(Seq(Entry)) : sheets # <<>>}
WithEntry(sheets, e) ==
    LET last == sheets[Len(sheets)] IN
    IF last # <<>> /\ Bytes(last) + e.bytes > Budget
    THEN Append(sheets, <<e>>)
    ELSE [sheets EXCEPT ![Len(sheets)] = Append(@, e)]

------------------------------------------------------------
\* The two folds of the module, unfolded.
ByteSteps(entries) == [i \in 1 .. Len(entries) |-> [n \in Nat |-> n + entries[i].bytes]]
PageSteps(entries) == [i \in 1 .. Len(entries) |-> [sheets \in PageLists |-> WithEntry(sheets, entries[i])]]

\* The bytes of a page are the last of the sums so far.
LEMMA BytesUnfold ==
    ASSUME NEW entries \in Seq(Entry)
    PROVE \E g : Iterates(g, Len(entries), Nat, Envelope, ByteSteps(entries)) /\ g[Len(entries)] = Bytes(entries)
<1> DEFINE n == Len(entries)
           h == ByteSteps(entries)
           F == CHOOSE it : it = [s \in SUBSET (DOMAIN entries) |->
                    IF s = {} THEN Envelope ELSE it[s \ {Max(s)}] + entries[Max(s)].bytes]
<1>1. n \in Nat /\ DOMAIN entries = 1 .. n /\ \A i \in 1 .. n : entries[i].bytes \in Nat
  <2>1. \A i \in 1 .. n : entries[i] \in Entry
    OBVIOUS
  <2> QED BY <2>1 DEF Entry
<1>2. h \in [1 .. n -> [Nat -> Nat]]
  BY <1>1 DEF ByteSteps
<1>3. Bytes(entries) = F[DOMAIN entries]
  BY DEF Bytes, FoldLeft, MapThenFoldSet
<1>4. Envelope \in Nat
  BY PagingAssumption
<1>5. PICK it : FoldsBack(it, n, Nat, Envelope, h)
  <2> HIDE DEF h, n
  <2> QED BY <1>1, <1>2, <1>4, FoldExists
<1>6. ASSUME NEW k \in 1 .. n, NEW v \in Nat PROVE h[k][v] = v + entries[k].bytes
  BY DEF ByteSteps
<1> HIDE DEF h
<1>7. it = [s \in SUBSET (1 .. n) |-> IF s = {} THEN Envelope ELSE it[s \ {Max(s)}] + entries[Max(s)].bytes]
  <2>1. ASSUME NEW s \in SUBSET (1 .. n), s # {}
        PROVE it[s] = it[s \ {Max(s)}] + entries[Max(s)].bytes
    <3>1. Max(s) \in s
      BY <1>1, <2>1, MaxOf
    <3>2. it[s \ {Max(s)}] \in Nat
      BY <1>5 DEF FoldsBack
    <3>3. it[s] = h[Max(s)][it[s \ {Max(s)}]]
      BY <1>5, <2>1 DEF FoldsBack
    <3> QED BY <1>6, <3>1, <3>2, <3>3
  <2>2. it \in [SUBSET (1 .. n) -> Nat] /\ it[{}] = Envelope
    BY <1>5 DEF FoldsBack
  <2> QED BY <2>1, <2>2
<1>8. F = [s \in SUBSET (1 .. n) |-> IF s = {} THEN Envelope ELSE F[s \ {Max(s)}] + entries[Max(s)].bytes]
  BY <1>1, <1>7
<1> HIDE DEF F
<1>9. F[{}] = Envelope
  BY <1>8
<1>10. ASSUME NEW k \in 0 .. n - 1, F[1 .. k] \in Nat PROVE F[1 .. k + 1] = h[k + 1][F[1 .. k]]
  <2>1. 1 .. k + 1 \in SUBSET (1 .. n) /\ 1 .. k + 1 # {} /\ k + 1 \in 1 .. n /\ k \in Nat
    <3>1. k \in Nat /\ k + 1 \in 1 .. n /\ k + 1 \in 1 .. k + 1
      BY <1>1
    <3>2. \A i \in 1 .. k + 1 : i \in 1 .. n
      BY <3>1
    <3> QED BY <3>1, <3>2
  <2>2. Max(1 .. k + 1) = k + 1 /\ (1 .. k + 1) \ {k + 1} = 1 .. k
    BY <2>1, MaxInterval
  <2>3. F[1 .. k + 1] = F[1 .. k] + entries[k + 1].bytes
    BY <1>8, <2>1, <2>2
  <2> QED BY <1>6, <1>10, <2>1, <2>3
<1>11. \E g : Iterates(g, n, Nat, Envelope, h) /\ g[n] = F[1 .. n]
  <2> DEFINE V == Nat
  <2>1. Envelope \in V /\ h \in [1 .. n -> [V -> V]]
    BY <1>2, <1>4
  <2>3. Unfolds(F, n, V, Envelope, h)
    BY <1>9, <1>10 DEF Unfolds
  <2> HIDE DEF V, n
  <2>2. \E g : Iterates(g, n, V, Envelope, h) /\ g[n] = F[1 .. n]
    BY <1>1, <2>1, <2>3, FoldIterates
  <2> QED BY <2>2 DEF V
<1> QED BY <1>1, <1>3, <1>11 DEF h

\* An entry adds its bytes to a page.
LEMMA BytesAppend ==
    ASSUME NEW entries \in Seq(Entry), NEW e \in Entry
    PROVE Bytes(Append(entries, e)) = Bytes(entries) + e.bytes /\ Bytes(entries) \in Nat
<1> DEFINE n == Len(entries)
           more == Append(entries, e)
<1>1. n \in Nat /\ more \in Seq(Entry) /\ Len(more) = n + 1 /\ more[n + 1] = e
      /\ \A i \in 1 .. n : more[i] = entries[i]
  OBVIOUS
<1> HIDE DEF more
<1>2. PICK g : Iterates(g, n, Nat, Envelope, ByteSteps(entries)) /\ g[n] = Bytes(entries)
  BY BytesUnfold
<1>3. PICK f : Iterates(f, n + 1, Nat, Envelope, ByteSteps(more)) /\ f[n + 1] = Bytes(more)
  BY <1>1, BytesUnfold
<1>4. ASSUME NEW i \in 1 .. n PROVE ByteSteps(entries)[i] = ByteSteps(more)[i]
  BY <1>1 DEF ByteSteps
<1>5. g[n] = f[n]
  <2> DEFINE h1 == ByteSteps(entries)
             h2 == ByteSteps(more)
             m == n + 1
             V == Nat
  <2>1. m \in Nat /\ n <= n /\ n <= m
    BY <1>1
  <2>2. Iterates(g, n, V, Envelope, h1) /\ Iterates(f, m, V, Envelope, h2) /\ \A i \in 1 .. n : h1[i] = h2[i]
    BY <1>2, <1>3, <1>4
  <2> HIDE DEF h1, h2, m, n, V
  <2> QED BY <1>1, <2>1, <2>2, IteratesUnique
<1>6. f[n] \in Nat /\ f[n + 1] = ByteSteps(more)[n + 1][f[n]]
  <2>1. n \in 0 .. n + 1 - 1 /\ n \in 0 .. n + 1
    BY <1>1
  <2> QED BY <1>3, <2>1 DEF Iterates
<1>7. ByteSteps(more)[n + 1][f[n]] = f[n] + e.bytes
  <2>1. ByteSteps(more)[n + 1] = [k \in Nat |-> k + e.bytes]
    BY <1>1 DEF ByteSteps
  <2> QED BY <1>6, <2>1
<1>8. Bytes(more) = Bytes(entries) + e.bytes /\ Bytes(entries) \in Nat
  BY <1>2, <1>3, <1>5, <1>6, <1>7
<1> QED BY <1>8 DEF more

------------------------------------------------------------
\* A step of the packing loop leaves pages.
LEMMA WithEntryTyped ==
    ASSUME NEW sheets \in PageLists, NEW e \in Entry
    PROVE WithEntry(sheets, e) \in PageLists
<1>1. sheets \in Seq(Seq(Entry)) /\ Len(sheets) \in 1 .. Len(sheets) /\ sheets[Len(sheets)] \in Seq(Entry)
  BY DEF PageLists
<1>2. Append(sheets, <<e>>) \in PageLists
  <2>1. <<e>> \in Seq(Entry)
    OBVIOUS
  <2>2. Append(sheets, <<e>>) \in Seq(Seq(Entry)) /\ Len(Append(sheets, <<e>>)) = Len(sheets) + 1
    BY <1>1, <2>1
  <2>3. Append(sheets, <<e>>) # <<>>
    BY <1>1, <2>2
  <2> QED BY <2>2, <2>3 DEF PageLists
<1>3. [sheets EXCEPT ![Len(sheets)] = Append(@, e)] \in PageLists
  <2> DEFINE longer == Append(sheets[Len(sheets)], e)
             a == [sheets EXCEPT ![Len(sheets)] = longer]
  <2>1. longer \in Seq(Entry)
    BY <1>1
  <2> HIDE DEF longer
  <2>2. a \in Seq(Seq(Entry)) /\ Len(a) = Len(sheets)
    BY <1>1, <2>1, ExceptSeq
  <2>3. a # <<>>
    BY <1>1, <2>2
  <2> QED BY <2>2, <2>3 DEF PageLists, longer
<1> QED BY <1>2, <1>3 DEF WithEntry

\* The pages of a grid are what the loop has after the last entry.
LEMMA PagesUnfold ==
    ASSUME NEW entries \in Seq(Entry)
    PROVE \E g : Iterates(g, Len(entries), PageLists, << <<>> >>, PageSteps(entries)) /\ g[Len(entries)] = PagesOf(entries)
<1> DEFINE n == Len(entries)
           h == PageSteps(entries)
           base == << <<>> >>
           F == CHOOSE it : it = [s \in SUBSET (DOMAIN entries) |->
                    IF s = {} THEN base ELSE WithEntry(it[s \ {Max(s)}], entries[Max(s)])]
<1>1. n \in Nat /\ DOMAIN entries = 1 .. n /\ \A i \in 1 .. n : entries[i] \in Entry
  OBVIOUS
<1>2. h \in [1 .. n -> [PageLists -> PageLists]]
  BY <1>1, WithEntryTyped DEF PageSteps
<1>3. PagesOf(entries) = F[DOMAIN entries]
  BY DEF PagesOf, FoldLeft, MapThenFoldSet, WithEntry
<1>4. base \in PageLists
  <2>1. <<>> \in Seq(Entry)
    OBVIOUS
  <2> QED BY <2>1 DEF PageLists
<1> HIDE DEF base
<1>5. PICK it : FoldsBack(it, n, PageLists, base, h)
  <2> HIDE DEF h, n
  <2> QED BY <1>1, <1>2, <1>4, FoldExists
<1>6. ASSUME NEW k \in 1 .. n, NEW v \in PageLists PROVE h[k][v] = WithEntry(v, entries[k])
  BY DEF PageSteps
<1> HIDE DEF h
<1>7. it = [s \in SUBSET (1 .. n) |-> IF s = {} THEN base ELSE WithEntry(it[s \ {Max(s)}], entries[Max(s)])]
  <2>1. ASSUME NEW s \in SUBSET (1 .. n), s # {}
        PROVE it[s] = WithEntry(it[s \ {Max(s)}], entries[Max(s)])
    <3>1. Max(s) \in s
      BY <1>1, <2>1, MaxOf
    <3>2. it[s \ {Max(s)}] \in PageLists
      BY <1>5 DEF FoldsBack
    <3>3. it[s] = h[Max(s)][it[s \ {Max(s)}]]
      BY <1>5, <2>1 DEF FoldsBack
    <3> QED BY <1>6, <3>1, <3>2, <3>3
  <2>2. it \in [SUBSET (1 .. n) -> PageLists] /\ it[{}] = base
    BY <1>5 DEF FoldsBack
  <2> QED BY <2>1, <2>2
<1>8. F = [s \in SUBSET (1 .. n) |-> IF s = {} THEN base ELSE WithEntry(F[s \ {Max(s)}], entries[Max(s)])]
  BY <1>1, <1>7
<1> HIDE DEF F
<1>9. F[{}] = base
  BY <1>8
<1>10. ASSUME NEW k \in 0 .. n - 1, F[1 .. k] \in PageLists PROVE F[1 .. k + 1] = h[k + 1][F[1 .. k]]
  <2>1. 1 .. k + 1 \in SUBSET (1 .. n) /\ 1 .. k + 1 # {} /\ k + 1 \in 1 .. n /\ k \in Nat
    <3>1. k \in Nat /\ k + 1 \in 1 .. n /\ k + 1 \in 1 .. k + 1
      BY <1>1
    <3>2. \A i \in 1 .. k + 1 : i \in 1 .. n
      BY <3>1
    <3> QED BY <3>1, <3>2
  <2>2. Max(1 .. k + 1) = k + 1 /\ (1 .. k + 1) \ {k + 1} = 1 .. k
    BY <2>1, MaxInterval
  <2>3. F[1 .. k + 1] = WithEntry(F[1 .. k], entries[k + 1])
    BY <1>8, <2>1, <2>2
  <2> QED BY <1>6, <1>10, <2>1, <2>3
<1>11. Unfolds(F, n, PageLists, base, h)
  BY <1>9, <1>10 DEF Unfolds
<1> HIDE DEF n
<1>12. \E g : Iterates(g, n, PageLists, base, h) /\ g[n] = F[1 .. n]
  BY <1>1, <1>2, <1>4, <1>11, FoldIterates
<1> QED BY <1>1, <1>3, <1>12 DEF h, n, base

PageFits(sheet) == Bytes(sheet) > Budget => Len(sheet) = 1
Fit(sheets) == \A k \in 1 .. Len(sheets) : PageFits(sheets[k])

\* A step of the loop adds its entry behind all others, and leaves pages that fit.
LEMMA WithEntryStep ==
    ASSUME NEW sheets \in PageLists, NEW e \in Entry, Fit(sheets)
    PROVE FlattenSeq(WithEntry(sheets, e)) = Append(FlattenSeq(sheets), e) /\ Fit(WithEntry(sheets, e))
<1> DEFINE n == Len(sheets)
           last == sheets[n]
<1>1. sheets \in Seq(Seq(Entry)) /\ sheets # <<>> /\ n \in 1 .. n /\ n \in Nat /\ last \in Seq(Entry)
  BY DEF PageLists
<1> HIDE DEF last
<1>2. CASE last # <<>> /\ Bytes(last) + e.bytes > Budget
  <2> DEFINE more == Append(sheets, <<e>>)
  <2>1. WithEntry(sheets, e) = more
    BY <1>2 DEF WithEntry, last
  <2>2. <<e>> \in Seq(Entry) /\ Len(<<e>>) = 1
    OBVIOUS
  <2>3. FlattenSeq(more) = FlattenSeq(sheets) \o <<e>>
    BY <1>1, <2>2, FlattenAppend
  <2>4. FlattenSeq(sheets) \in Seq(Entry)
    BY <1>1, FlattenTyped
  <2>5. FlattenSeq(sheets) \o <<e>> = Append(FlattenSeq(sheets), e)
    BY <2>4
  <2>6. Len(more) = n + 1 /\ more[n + 1] = <<e>> /\ \A k \in 1 .. n : more[k] = sheets[k]
    BY <1>1, <2>2
  <2> HIDE DEF more
  <2>7. ASSUME NEW k \in 1 .. n + 1 PROVE PageFits(more[k])
    <3>1. k = n + 1 \/ k \in 1 .. n
      BY <1>1
    <3> QED BY <2>2, <2>6, <3>1 DEF Fit, PageFits
  <2> QED BY <2>1, <2>3, <2>5, <2>6, <2>7 DEF Fit
<1>3. CASE ~(last # <<>> /\ Bytes(last) + e.bytes > Budget)
  <2> DEFINE longer == Append(last, e)
             more == [sheets EXCEPT ![n] = longer]
  <2>1. WithEntry(sheets, e) = [sheets EXCEPT ![n] = Append(@, e)]
    BY <1>3 DEF WithEntry, last
  <2>2. [sheets EXCEPT ![n] = Append(@, e)] = more
    BY DEF last
  <2>3. longer \in Seq(Entry) /\ Len(longer) = Len(last) + 1
    BY <1>1
  <2>4. FlattenSeq([sheets EXCEPT ![n] = Append(@, e)]) = Append(FlattenSeq(sheets), e)
    BY <1>1, FlattenLast
  <2>5. PageFits(longer)
    <3>1. CASE last = <<>>
      BY <2>3, <3>1 DEF PageFits
    <3>2. CASE last # <<>>
      <4>1. Bytes(longer) = Bytes(last) + e.bytes /\ Bytes(last) \in Nat
        BY <1>1, BytesAppend
      <4>2. e.bytes \in Nat /\ Budget \in Nat
        BY PagingAssumption DEF Entry
      <4>3. ~(Bytes(last) + e.bytes > Budget)
        BY <1>3, <3>2
      <4> HIDE DEF longer
      <4>4. ~(Bytes(longer) > Budget)
        BY <4>1, <4>3
      <4> QED BY <4>4 DEF PageFits
    <3> QED BY <3>1, <3>2
  <2> HIDE DEF longer
  <2>6. Len(more) = n /\ \A k \in 1 .. n : more[k] = IF k = n THEN longer ELSE sheets[k]
    BY <1>1, <2>3, ExceptSeq
  <2> HIDE DEF more
  <2>7. ASSUME NEW k \in 1 .. n PROVE PageFits(more[k])
    BY <2>5, <2>6 DEF Fit
  <2>8. Fit(more)
    BY <2>6, <2>7 DEF Fit
  <2> QED BY <2>1, <2>2, <2>4, <2>8
<1> QED BY <1>2, <1>3

\* A page without entries is its envelope.
LEMMA BytesNone == Bytes(<<>>) = Envelope
<1>1. <<>> \in Seq(Entry) /\ Len(<<>>) = 0
  OBVIOUS
<1>2. PICK g : Iterates(g, 0, Nat, Envelope, ByteSteps(<<>>)) /\ g[0] = Bytes(<<>>)
  BY <1>1, BytesUnfold
<1> QED BY <1>2 DEF Iterates

\* The pages of a list hold it, in its order, and no page is over the budget but for
\* one entry that is so alone.
LEMMA PagesProperties ==
    ASSUME NEW entries \in Seq(Entry)
    PROVE /\ PagesOf(entries) \in PageLists
          /\ FlattenSeq(PagesOf(entries)) = entries
          /\ Fit(PagesOf(entries))
<1> DEFINE n == Len(entries)
           h == PageSteps(entries)
<1>1. n \in Nat
  OBVIOUS
<1>2. PICK g : Iterates(g, n, PageLists, << <<>> >>, h) /\ g[n] = PagesOf(entries)
  BY PagesUnfold
<1> DEFINE Good(k) == g[k] \in PageLists /\ FlattenSeq(g[k]) = SubSeq(entries, 1, k) /\ Fit(g[k])
           T == {k \in Nat : k <= n => Good(k)}
<1>3. 0 \in T
  <2>1. g[0] = << <<>> >> /\ g[0] \in PageLists
    BY <1>1, <1>2, SMTT(30) DEF Iterates
  <2>2. FlattenSeq(<< <<>> >>) = <<>>
    <3>1. <<>> \in Seq(Entry)
      OBVIOUS
    <3> QED BY <3>1, FlattenOne
  <2>3. SubSeq(entries, 1, 0) = <<>>
    BY PrefixNone
  <2>4. PageFits(<<>>)
    BY BytesNone, PagingAssumption DEF PageFits
  <2>5. Fit(<< <<>> >>)
    BY <2>4 DEF Fit
  <2> QED BY <2>1, <2>2, <2>3, <2>5
<1>4. ASSUME NEW k \in Nat, k \in T PROVE k + 1 \in T
  <2>1. SUFFICES ASSUME k + 1 <= n PROVE Good(k + 1)
    OBVIOUS
  <2>2. k \in 0 .. n - 1 /\ k <= n /\ k + 1 \in 1 .. n
    BY <1>1, <2>1
  <2>3. Good(k)
    BY <1>4, <2>2
  <2>4. entries[k + 1] \in Entry
    BY <2>2
  <2>5. g[k + 1] = WithEntry(g[k], entries[k + 1])
    <3>1. g[k + 1] = h[k + 1][g[k]]
      BY <1>2, <2>2 DEF Iterates
    <3>2. h[k + 1] = [sheets \in PageLists |-> WithEntry(sheets, entries[k + 1])]
      BY <2>2 DEF PageSteps
    <3> QED BY <2>3, <3>1, <3>2
  <2>6. WithEntry(g[k], entries[k + 1]) \in PageLists
    BY <2>3, <2>4, WithEntryTyped
  <2>7. FlattenSeq(WithEntry(g[k], entries[k + 1])) = Append(FlattenSeq(g[k]), entries[k + 1])
        /\ Fit(WithEntry(g[k], entries[k + 1]))
    BY <2>3, <2>4, WithEntryStep
  <2>8. SubSeq(entries, 1, k + 1) = Append(SubSeq(entries, 1, k), entries[k + 1])
    BY <2>2, PrefixNext
  <2> QED BY <2>3, <2>5, <2>6, <2>7, <2>8
<1> HIDE DEF T
<1>5. n \in T
  BY <1>1, <1>3, <1>4, Induction
<1>6. Good(n)
  BY <1>1, <1>5 DEF T
<1>7. SubSeq(entries, 1, n) = entries
  BY PrefixAll
<1> QED BY <1>2, <1>6, <1>7

------------------------------------------------------------
\* Each page that a client has is one that it could have been given.
GridTyped == gridPages \in Seq([count : Nat, entries : Seq(Entry)])

GridFresh ==
    fresh.grid => \A k \in 1 .. Len(gridPages) :
        LET sheets == PagesOf(Occupied)
        IN k <= Len(sheets) /\ gridPages[k] = [count |-> Len(sheets), entries |-> sheets[k]]

GridInv == GridTyped /\ GridFresh /\ \A k \in 1 .. Len(gridPages) : PageFits(gridPages[k].entries)

\* How many of a number of notes the first k pages hold.
UpToPage(k, total) == Min({k * NotesPerPage, total})

PageOfTotal(p, k) ==
    /\ p.count = NotePageCount(p.total)
    /\ k <= p.count
    /\ Len(p.entries) = UpToPage(k, p.total) - (k - 1) * NotesPerPage

PageOfList(p, k, list) ==
    /\ p.total = Len(list)
    /\ p.entries = SubSeq(list, (k - 1) * NotesPerPage + 1, UpToPage(k, Len(list)))

NotePage == [count : Int, total : Nat, entries : Seq(Int)]

NoteInv ==
    /\ notePages \in Seq(NotePage)
    /\ window.span \in Nat /\ (window.clip = "arrangement" => window.span = TopPitch + 1)
    /\ \A k \in 1 .. Len(notePages) : PageOfTotal(notePages[k], k)
    /\ fresh.notes => \A k \in 1 .. Len(notePages) : PageOfList(notePages[k], k, InWindow(window.span))

PageInv == PagingTypeOK /\ GridInv /\ NoteInv

\* The session that the paged replies read.
LEMMA SetsTyped ==
    ASSUME PagingTypeOK
    PROVE grid \in Seq(Seq(Int)) /\ scenes \in Nat /\ notes \in Seq(0 .. TopPitch)
<1>1. grid \in Grids \/ grid = <<>>
  BY DEF PagingTypeOK
<1>2. notes \in NoteLists \/ notes = <<>>
  BY DEF PagingTypeOK
<1>3. scenes \in Scenes \/ scenes = 0
  BY DEF PagingTypeOK
<1>4. <<>> \in Seq(Seq(Int)) /\ <<>> \in Seq(0 .. TopPitch) /\ 0 \in Nat
  OBVIOUS
<1>5. grid \in Seq(Seq(Int))
  BY <1>1, <1>4, SetsAssumption
<1>6. notes \in Seq(0 .. TopPitch)
  BY <1>2, <1>4, SetsAssumption
<1> QED BY <1>3, <1>4, <1>5, <1>6, SetsAssumption

\* The occupied slots are entries of a grid.
LEMMA OccupiedTyped == ASSUME PagingTypeOK PROVE Occupied \in Seq(Entry)
<1> DEFINE TrackEntries(t) == [s \in DOMAIN grid[t] |->
                          IF s <= scenes /\ grid[t][s] > 0 THEN <<[track |-> t, slot |-> s, bytes |-> grid[t][s]]>> ELSE <<>>]
           tracks == [t \in DOMAIN grid |-> FlattenSeq(TrackEntries(t))]
<1>1. grid \in Seq(Seq(Int)) /\ scenes \in Nat
  BY SetsTyped
<1>2. ASSUME NEW t \in DOMAIN grid PROVE FlattenSeq(TrackEntries(t)) \in Seq(Entry)
  <2>1. grid[t] \in Seq(Int) /\ t \in Nat
    BY <1>1
  <2>2. ASSUME NEW s \in DOMAIN grid[t] PROVE TrackEntries(t)[s] \in Seq(Entry)
    <3>1. s \in Nat /\ grid[t][s] \in Int
      BY <2>1
    <3>2. CASE s <= scenes /\ grid[t][s] > 0
      <4>1. [track |-> t, slot |-> s, bytes |-> grid[t][s]] \in Entry
        BY <2>1, <3>1, <3>2 DEF Entry
      <4> QED BY <3>2, <4>1
    <3>3. CASE ~(s <= scenes /\ grid[t][s] > 0)
      BY <3>3
    <3> QED BY <3>2, <3>3
  <2>3. TrackEntries(t) \in Seq(Seq(Entry))
    <3>1. DOMAIN grid[t] = 1 .. Len(grid[t]) /\ Len(grid[t]) \in Nat /\ DOMAIN TrackEntries(t) = DOMAIN grid[t]
      BY <2>1
    <3> DEFINE T == TrackEntries(t)
    <3>2. T = [s \in 1 .. Len(grid[t]) |-> T[s]]
      BY <3>1
    <3>3. \A s \in 1 .. Len(grid[t]) : T[s] \in Seq(Entry)
      BY <2>2, <3>1
    <3> HIDE DEF T
    <3>4. T \in Seq(Seq(Entry))
      BY <3>1, <3>2, <3>3
    <3> QED BY <3>4 DEF T
  <2> HIDE DEF Track
  <2> QED BY <2>3, FlattenTyped
<1>3. tracks \in Seq(Seq(Entry))
  <2>1. DOMAIN grid = 1 .. Len(grid) /\ Len(grid) \in Nat
    BY <1>1
  <2> HIDE DEF Track
  <2> QED BY <1>2, <2>1
<1>4. FlattenSeq(tracks) \in Seq(Entry)
  <2> HIDE DEF tracks
  <2> QED BY <1>3, FlattenTyped
<1> QED BY <1>4 DEF Occupied

\* The notes of a window are numbers.
LEMMA InWindowTyped == ASSUME PagingTypeOK, NEW span \in Nat PROVE InWindow(span) \in Seq(Int)
<1> DEFINE picked == [k \in DOMAIN notes |-> IF notes[k] < span THEN <<notes[k]>> ELSE <<>>]
<1>1. notes \in Seq(Int) /\ DOMAIN notes = 1 .. Len(notes) /\ Len(notes) \in Nat
  <2>1. notes \in Seq(0 .. TopPitch)
    BY SetsTyped
  <2> QED BY <2>1, PagingAssumption
<1>2. picked \in Seq(Seq(Int))
  <2>1. \A k \in 1 .. Len(notes) : <<notes[k]>> \in Seq(Int) /\ <<>> \in Seq(Int)
    BY <1>1
  <2> QED BY <1>1, <2>1
<1>3. FlattenSeq(picked) \in Seq(Int)
  <2> HIDE DEF picked
  <2> QED BY <1>2, FlattenTyped
<1> QED BY <1>3 DEF InWindow

\* A window over all pitches holds all notes.
LEMMA AllInWindow == ASSUME PagingTypeOK PROVE InWindow(TopPitch + 1) = notes
<1>1. notes \in Seq(0 .. TopPitch) /\ DOMAIN notes = 1 .. Len(notes)
  <2>1. notes \in Seq(0 .. TopPitch)
    BY SetsTyped
  <2> QED BY <2>1
<1>2. \A k \in DOMAIN notes : notes[k] < TopPitch + 1
  BY <1>1, PagingAssumption
<1>3. [k \in DOMAIN notes |-> IF notes[k] < TopPitch + 1 THEN <<notes[k]>> ELSE <<>>] = [k \in DOMAIN notes |-> <<notes[k]>>]
  BY <1>2
<1>4. FlattenSeq([k \in DOMAIN notes |-> <<notes[k]>>]) = notes
  BY <1>1, FlattenSingles
<1> QED BY <1>3, <1>4 DEF InWindow

------------------------------------------------------------
\* How many pages a number of notes takes.
LEMMA CountEnough ==
    ASSUME NEW total \in Nat
    PROVE /\ NotePageCount(total) \in Nat /\ NotePageCount(total) >= 1
          /\ total <= NotePageCount(total) * NotesPerPage
          /\ \A j \in Nat : j < NotePageCount(total) => j * NotesPerPage <= total
<1> DEFINE N == NotesPerPage
           a == total + N - 1
           q == a \div N
           count == NotePageCount(total)
<1>1. N \in Nat \ {0} /\ N \in Nat /\ N \in Int /\ a \in Nat
  BY PagingAssumption
<1>2. q \in Nat /\ N * q <= a /\ a < N * q + N
  <2> HIDE DEF N, a
  <2> QED BY <1>1, Division
<1>3. count = IF 1 >= q THEN 1 ELSE q
  <2> HIDE DEF q
  <2>1. Max({1, q}) = IF 1 >= q THEN 1 ELSE q
    BY <1>2, Pair
  <2> QED BY <2>1 DEF NotePageCount, q
<1>4. N * q = q * N /\ N * q \in Int
  <2> HIDE DEF q, N
  <2> QED BY <1>1, <1>2
<1>5. total <= q * N
  <2> HIDE DEF q
  <2>1. total + N - 1 < q * N + N /\ q * N \in Int
    BY <1>2, <1>4
  <2> HIDE DEF N
  <2> QED BY <1>1, <2>1
<1>6. count \in Nat /\ count >= 1 /\ q <= count
  <2> HIDE DEF q, count
  <2> QED BY <1>2, <1>3
<1>7. total <= count * N
  <2> HIDE DEF q, count, N
  <2>1. q * N <= count * N /\ q * N \in Int /\ count * N \in Int
    BY <1>1, <1>2, <1>6, ProductGrows
  <2> QED BY <1>5, <2>1
<1>8. ASSUME NEW j \in Nat, j < count PROVE j * N <= total
  <2>1. CASE j = 0
    BY <1>1, <2>1
  <2>2. CASE j # 0
    <3> HIDE DEF q, count
    <3>1. j + 1 <= q
      BY <1>2, <1>3, <1>8, <2>2
    <3>2. (j + 1) * N <= q * N
      <4> HIDE DEF N
      <4> QED BY <1>1, <1>2, <3>1, ProductGrows
    <3>3. (j + 1) * N = j * N + N /\ j * N \in Int
      <4> HIDE DEF N
      <4> QED BY <1>1, ProductNext
    <3>4. q * N <= total + N - 1 /\ q * N \in Int
      BY <1>2, <1>4
    <3> HIDE DEF N
    <3> QED BY <1>1, <3>2, <3>3, <3>4
  <2> QED BY <2>1, <2>2
<1> QED BY <1>6, <1>7, <1>8

PageAt(list, j) ==
    [count |-> NotePageCount(Len(list)), total |-> Len(list),
     entries |-> SubSeq(list, j * NotesPerPage + 1, Min({j * NotesPerPage + NotesPerPage, Len(list)}))]

\* A page of notes tells the count of all pages and notes, and its own notes.
LEMMA ReplyIsPage ==
    ASSUME NEW list \in Seq(Int), NEW j \in Nat, j < NotePageCount(Len(list)), NEW p, p = PageAt(list, j)
    PROVE /\ p \in NotePage
          /\ PageOfTotal(p, j + 1)
          /\ PageOfList(p, j + 1, list)
<1> DEFINE first == j * NotesPerPage
           total == Len(list)
           end == UpToPage(j + 1, total)
<1>1. NotesPerPage \in Nat /\ NotesPerPage > 0 /\ total \in Nat
  BY PagingAssumption
<1>2. first \in Int /\ (j + 1) * NotesPerPage = first + NotesPerPage /\ 0 <= first
  <2>1. first \in Int /\ (j + 1) * NotesPerPage = first + NotesPerPage
    BY <1>1, ProductNext
  <2>2. 0 * NotesPerPage <= j * NotesPerPage /\ 0 * NotesPerPage = 0
    BY <1>1, ProductGrows
  <2> QED BY <2>1, <2>2
<1>3. NotePageCount(total) \in Nat /\ first <= total
  BY <1>1, CountEnough
<1>4. end = Min({first + NotesPerPage, total}) /\ end = IF first + NotesPerPage <= total THEN first + NotesPerPage ELSE total
  <2>1. end = Min({first + NotesPerPage, total})
    BY <1>2 DEF UpToPage
  <2> DEFINE next == first + NotesPerPage
  <2>2. next \in Int /\ total \in Int
    BY <1>1, <1>2
  <2> HIDE DEF end, first, total, next
  <2>3. Min({next, total}) = IF next <= total THEN next ELSE total
    BY <2>2, Pair
  <2> QED BY <2>1, <2>3 DEF next
<1> HIDE DEF first, end
<1>5. end \in Nat /\ first <= end /\ end <= total
  BY <1>1, <1>2, <1>3, <1>4
<1>6. p = [count |-> NotePageCount(total), total |-> total, entries |-> SubSeq(list, first + 1, end)]
  BY <1>4 DEF first, PageAt
<1>7. SubSeq(list, first + 1, end) \in Seq(Int) /\ Len(SubSeq(list, first + 1, end)) = end - first
  <2>1. \A i \in first + 1 .. end : list[i] \in Int
    BY <1>1, <1>2, <1>5
  <2>2. first + 1 \in Int /\ end \in Int
    BY <1>2, <1>5
  <2>3. /\ SubSeq(list, first + 1, end) \in Seq(Int)
        /\ Len(SubSeq(list, first + 1, end)) = IF first + 1 <= end THEN end - (first + 1) + 1 ELSE 0
    BY <2>1, <2>2, SubSeqProperties
  <2> QED BY <1>2, <1>5, <2>3
<1>8. (j + 1 - 1) * NotesPerPage = first
  BY DEF first
<1> DEFINE entries == SubSeq(list, first + 1, end)
           count == NotePageCount(total)
<1> HIDE DEF entries, count, total
<1>12. p = [count |-> count, total |-> total, entries |-> entries]
  BY <1>6 DEF entries, count
<1>13. p.count = count /\ p.total = total /\ p.entries = entries
  BY <1>12
<1>9. PageOfTotal(p, j + 1)
  <2>1. j + 1 <= count /\ count = NotePageCount(p.total)
    BY <1>3, <1>13 DEF count, total
  <2>2. Len(entries) = UpToPage(j + 1, p.total) - (j + 1 - 1) * NotesPerPage
    BY <1>7, <1>8, <1>13 DEF end, entries, total
  <2> QED BY <1>13, <2>1, <2>2 DEF PageOfTotal
<1>10. PageOfList(p, j + 1, list)
  <2> DEFINE k == j + 1
  <2>1. (k - 1) * NotesPerPage = first /\ UpToPage(k, Len(list)) = end
    BY <1>8 DEF end, total
  <2>2. p.total = Len(list)
    BY <1>13 DEF total
  <2> HIDE DEF k
  <2>3. p.entries = SubSeq(list, (k - 1) * NotesPerPage + 1, UpToPage(k, Len(list)))
    BY <1>13, <2>1 DEF entries
  <2>4. PageOfList(p, k, list)
    BY <2>2, <2>3 DEF PageOfList
  <2> QED BY <2>4 DEF k
<1>11. p \in NotePage
  <2>1. count \in Int /\ total \in Nat /\ entries \in Seq(Int)
    BY <1>1, <1>3, <1>7 DEF count, entries
  <2> QED BY <1>12, <2>1 DEF NotePage
<1> QED BY <1>9, <1>10, <1>11

------------------------------------------------------------
Index(params) == IF params = <<>> THEN 0 ELSE params[1]
FromStart(params) == params \in {<<>>, <<0>>}

\* A client asks for the first page, for a page that there is not, or for the next.
LEMMA AskedFor ==
    ASSUME NEW S, NEW sheets \in Seq(S), NEW params \in NextParams(sheets)
    PROVE \/ FromStart(params) /\ Index(params) = 0 /\ ~(params = <<Len(sheets)>> /\ sheets # <<>>)
          \/ ~FromStart(params) /\ Index(params) = -1 /\ ~(params = <<Len(sheets)>> /\ sheets # <<>>)
          \/ ~FromStart(params) /\ Index(params) = Len(sheets) /\ params = <<Len(sheets)>> /\ sheets # <<>>
<1>1. Len(sheets) \in Nat /\ (sheets # <<>> => Len(sheets) > 0)
  OBVIOUS
<1>2. params \in {<<>>, <<0>>, <<-1>>} \/ (sheets # <<>> /\ params = <<Len(sheets)>>)
  BY DEF NextParams
<1>3. CASE params = <<>>
  BY <1>3 DEF FromStart, Index
<1>4. CASE params = <<0>>
  <2>1. params # <<>> /\ params[1] = 0
    BY <1>4
  <2>2. sheets # <<>> => params # <<Len(sheets)>>
    BY <1>1, <1>4
  <2> QED BY <1>4, <2>1, <2>2 DEF FromStart, Index
<1>5. CASE params = <<-1>>
  <2>1. params # <<>> /\ params # <<0>> /\ params[1] = -1
    BY <1>5
  <2>2. params # <<Len(sheets)>>
    BY <1>1, <1>5
  <2> QED BY <2>1, <2>2 DEF FromStart, Index
<1>6. CASE sheets # <<>> /\ params = <<Len(sheets)>>
  <2>1. params # <<>> /\ params # <<0>> /\ params[1] = Len(sheets)
    BY <1>1, <1>6
  <2> QED BY <1>6, <2>1 DEF FromStart, Index
<1> QED BY <1>2, <1>3, <1>4, <1>5, <1>6

------------------------------------------------------------
\* A reply about the grid is one of its pages, or an error.
LEMMA GridReplies ==
    ASSUME PagingTypeOK, NEW params, Index(params) \in Int
    PROVE LET sheets == PagesOf(Occupied) IN
          IF Index(params) \in 0 .. Len(sheets) - 1
          THEN /\ GridReply(params) = [count |-> Len(sheets), entries |-> sheets[Index(params) + 1]]
               /\ GridReply(params) \in [count : Nat, entries : Seq(Entry)]
               /\ PageFits(sheets[Index(params) + 1])
          ELSE GridReply(params).count = -1
<1> DEFINE sheets == PagesOf(Occupied)
<1>1. sheets \in PageLists /\ Fit(sheets)
  BY OccupiedTyped, PagesProperties
<1>2. CASE Index(params) \in 0 .. Len(sheets) - 1
  <2>1. GridReply(params) = [count |-> Len(sheets), entries |-> sheets[Index(params) + 1]]
    BY <1>2 DEF GridReply, Index
  <2> HIDE DEF sheets
  <2>2. sheets \in Seq(Seq(Entry)) /\ Len(sheets) \in Nat /\ Index(params) + 1 \in 1 .. Len(sheets)
    BY <1>1, <1>2 DEF PageLists
  <2>3. sheets[Index(params) + 1] \in Seq(Entry) /\ PageFits(sheets[Index(params) + 1])
    BY <1>1, <2>2 DEF Fit
  <2>4. GridReply(params) \in [count : Nat, entries : Seq(Entry)]
    BY <2>1, <2>2, <2>3
  <2> QED BY <1>2, <2>1, <2>3, <2>4 DEF sheets
<1>3. CASE Index(params) \notin 0 .. Len(sheets) - 1
  <2>1. GridReply(params) = PageError
    BY <1>3 DEF GridReply, Index
  <2> QED BY <1>3, <2>1 DEF PageError
<1> QED BY <1>2, <1>3

\* A reply with notes is the page that was asked for, or an error.
LEMMA NotesReplies ==
    ASSUME NEW list \in Seq(Int), NEW span, list = InWindow(span), NEW params, Index(params) \in Int
    PROVE IF Index(params) \in 0 .. NotePageCount(Len(list)) - 1
          THEN NotesReply(span, params) = PageAt(list, Index(params))
          ELSE NotesReply(span, params).count = -1
<1>1. CASE Index(params) \in 0 .. NotePageCount(Len(list)) - 1
  BY <1>1 DEF NotesReply, Index, PageAt
<1>2. CASE Index(params) \notin 0 .. NotePageCount(Len(list)) - 1
  <2>1. NotesReply(span, params) = PageError
    BY <1>2 DEF NotesReply, Index
  <2> QED BY <1>2, <2>1 DEF PageError
<1> QED BY <1>1, <1>2

\* Reading a page changes nothing of the session.
LEMMA ReadGridInv == ASSUME PageInv, ReadGrid PROVE PageInv'
<1> DEFINE P == PagesOf(Occupied)
<1>1. PICK params \in NextParams(gridPages) :
          /\ gridPages' = Extended(gridPages, params, GridReply(params))
          /\ fresh' = [fresh EXCEPT !.grid = IF params \in {<<>>, <<0>>} THEN TRUE ELSE @]
  BY DEF ReadGrid
<1>2. UNCHANGED <<grid, scenes, notes, notePages, window, shown, edits>>
  BY DEF ReadGrid
<1>3. fresh' \in [grid : BOOLEAN, notes : BOOLEAN] /\ fresh'.notes = fresh.notes
      /\ fresh'.grid = IF FromStart(params) THEN TRUE ELSE fresh.grid
  BY <1>1 DEF PageInv, PagingTypeOK, FromStart
<1>4. PagingTypeOK'
  BY <1>2, <1>3 DEF PageInv, PagingTypeOK
<1>5. NoteInv'
  BY <1>2, <1>3 DEF PageInv, NoteInv, PageOfTotal, PageOfList, UpToPage, InWindow
<1>6. Occupied' = Occupied /\ P' = P
  <2>1. Occupied' = Occupied
    BY <1>2 DEF Occupied
  <2> QED BY <2>1
<1>7. P \in PageLists /\ Len(P) \in Nat /\ Len(P) > 0
  <2>1. P \in PageLists
    BY OccupiedTyped, PagesProperties DEF PageInv
  <2> HIDE DEF P
  <2> QED BY <2>1 DEF PageLists
<1>8. gridPages \in Seq([count : Nat, entries : Seq(Entry)])
  BY DEF PageInv, GridInv, GridTyped
<1>9. Index(params) \in Int
  BY <1>1, <1>8, AskedFor
<1> DEFINE reply == GridReply(params)
<1> HIDE DEF P
<1>10. IF Index(params) \in 0 .. Len(P) - 1
       THEN /\ reply = [count |-> Len(P), entries |-> P[Index(params) + 1]]
            /\ reply \in [count : Nat, entries : Seq(Entry)]
            /\ PageFits(P[Index(params) + 1])
       ELSE reply.count = -1
  BY <1>9, GridReplies DEF PageInv, P
<1> HIDE DEF reply
<1>11. CASE Index(params) \notin 0 .. Len(P) - 1
  <2>1. gridPages' = <<>>
    BY <1>1, <1>10, <1>11 DEF Extended, reply
  <2> QED BY <2>1, <1>4, <1>5 DEF PageInv, GridInv, GridTyped, GridFresh
<1>12. CASE Index(params) \in 0 .. Len(P) - 1
  <2>1. reply.count # -1 /\ reply.entries = P[Index(params) + 1] /\ reply.count = Len(P) /\ PageFits(reply.entries)
    BY <1>7, <1>10, <1>12
  <2>2. CASE FromStart(params) /\ Index(params) = 0
    <3>1. gridPages' = <<reply>>
      BY <1>1, <2>1, <2>2 DEF Extended, FromStart, reply
    <3>2. <<reply>> \in Seq([count : Nat, entries : Seq(Entry)]) /\ Len(<<reply>>) = 1 /\ <<reply>>[1] = reply
      BY <1>10, <1>12
    <3>3. GridTyped'
      BY <3>1, <3>2 DEF GridTyped
    <3>4. GridFresh'
      <4>1. \A k \in 1 .. 1 : k <= Len(P) /\ <<reply>>[k] = [count |-> Len(P), entries |-> P[k]]
        BY <1>7, <1>10, <1>12, <2>2, <3>2
      <4> QED BY <3>1, <3>2, <4>1, <1>6 DEF GridFresh, P
    <3>5. \A k \in 1 .. Len(gridPages') : PageFits(gridPages'[k].entries)
      BY <2>1, <3>1, <3>2
    <3>6. GridInv'
      BY <3>3, <3>4, <3>5 DEF GridInv
    <3> QED BY <1>4, <1>5, <3>6 DEF PageInv
  <2>3. CASE ~FromStart(params) /\ Index(params) = Len(gridPages) /\ gridPages # <<>>
    <3>1. gridPages' = Append(gridPages, reply)
      BY <1>1, <2>1, <2>3 DEF Extended, FromStart, reply
    <3>2. reply \in [count : Nat, entries : Seq(Entry)]
      BY <1>10, <1>12
    <3> DEFINE n == Len(gridPages)
               more == Append(gridPages, reply)
    <3>3. /\ more \in Seq([count : Nat, entries : Seq(Entry)]) /\ Len(more) = n + 1 /\ n \in Nat
          /\ more[n + 1] = reply /\ \A k \in 1 .. n : more[k] = gridPages[k]
      BY <1>8, <3>2
    <3> HIDE DEF more
    <3>4. \A k \in 1 .. n + 1 : k = n + 1 \/ k \in 1 .. n
      BY <3>3
    <3>5. GridTyped'
      BY <3>1, <3>3 DEF GridTyped, more
    <3>6. GridFresh'
      <4>1. ASSUME fresh'.grid, NEW k \in 1 .. n + 1
            PROVE k <= Len(P) /\ more[k] = [count |-> Len(P), entries |-> P[k]]
        <5>1. fresh.grid
          BY <1>3, <2>3, <4>1
        <5>2. CASE k = n + 1
          BY <1>7, <1>10, <1>12, <2>3, <3>3, <5>2
        <5>3. CASE k \in 1 .. n
          BY <3>3, <5>1, <5>3 DEF PageInv, GridInv, GridFresh, P
        <5> QED BY <3>4, <5>2, <5>3
      <4> QED BY <3>1, <3>3, <4>1, <1>6 DEF GridFresh, P, more
    <3>7. \A k \in 1 .. n + 1 : PageFits(more[k].entries)
      BY <2>1, <3>3, <3>4 DEF PageInv, GridInv
    <3>8. GridInv'
      BY <3>1, <3>3, <3>5, <3>6, <3>7 DEF GridInv, more
    <3> QED BY <1>4, <1>5, <3>8 DEF PageInv
  <2> QED BY <1>1, <1>8, <1>12, <2>2, <2>3, AskedFor
<1> QED BY <1>11, <1>12

\* The fields of a page of notes.
LEMMA NotePageFields ==
    ASSUME NEW p \in NotePage
    PROVE p.count \in Int /\ p.total \in Nat /\ p.entries \in Seq(Int)
  BY DEF NotePage

\* Reading notes keeps the invariant: a page is added to pages of the same notes.
LEMMA ReadNotesInv == ASSUME PageInv, ReadNotes PROVE PageInv'
<1> DEFINE next(params) == params = <<Len(notePages)>> /\ notePages # <<>>
<1>1. PICK params \in NextParams(notePages) :
          /\ window' \in IF next(params) THEN {window}
                         ELSE [span : Spans, clip : {"none"}]
                              \cup {[span |-> DefaultSpan(c), clip |-> c] : c \in {"session", "arrangement"}}
          /\ notePages' = Extended(notePages, params, NotesReply(window'.span, params))
          /\ fresh' = [fresh EXCEPT !.notes = IF params \in {<<>>, <<0>>} THEN TRUE ELSE @]
  BY DEF ReadNotes
<1>2. UNCHANGED <<grid, scenes, notes, gridPages, shown, edits>>
  BY DEF ReadNotes
<1>3. fresh' \in [grid : BOOLEAN, notes : BOOLEAN] /\ fresh'.grid = fresh.grid
      /\ fresh'.notes = IF FromStart(params) THEN TRUE ELSE fresh.notes
  BY <1>1 DEF PageInv, PagingTypeOK, FromStart
<1>4. PagingTypeOK'
  BY <1>2, <1>3 DEF PageInv, PagingTypeOK
<1>5. GridInv'
  <2>1. Occupied' = Occupied
    BY <1>2 DEF Occupied
  <2> QED BY <1>2, <1>3, <2>1 DEF PageInv, GridInv, GridTyped, GridFresh
<1>6. window'.span \in Nat /\ (window'.clip = "arrangement" => window'.span = TopPitch + 1)
  <2>1. CASE next(params)
    BY <1>1, <2>1 DEF PageInv, NoteInv
  <2>2. CASE ~next(params)
    BY <1>1, <2>2, PagingAssumption, SetsAssumption DEF DefaultSpan
  <2> QED BY <2>1, <2>2
<1>7. notePages \in Seq(NotePage) /\ Len(notePages) \in Nat
  BY DEF PageInv, NoteInv
<1>8. Index(params) \in Int
  BY <1>1, <1>7, AskedFor
<1> DEFINE span == window'.span
           list == InWindow(span)
           reply == NotesReply(span, params)
           count == NotePageCount(Len(list))
<1>9. list \in Seq(Int) /\ Len(list) \in Nat
  <2>1. list \in Seq(Int)
    BY <1>6, InWindowTyped DEF PageInv
  <2> HIDE DEF list
  <2> QED BY <2>1
<1>10. IF Index(params) \in 0 .. count - 1 THEN reply = PageAt(list, Index(params)) ELSE reply.count = -1
  BY <1>8, <1>9, NotesReplies
<1>11. count \in Nat /\ count >= 1
  BY <1>9, CountEnough
<1>13. InWindow(window.span)' = list
  BY <1>2 DEF InWindow
<1>14. notePages' = Extended(notePages, params, reply)
  BY <1>1
<1> DEFINE j == Index(params)
<1> HIDE DEF list, span, reply, count, j
<1>15. CASE j \notin 0 .. count - 1
  <2>1. notePages' = <<>>
    BY <1>14, <1>10, <1>15 DEF Extended, j
  <2>2. NoteInv'
    BY <2>1, <1>6 DEF NoteInv
  <2> QED BY <2>2, <1>4, <1>5 DEF PageInv
<1>16. CASE j \in 0 .. count - 1
  <2>0. j \in Nat /\ j < count /\ j < NotePageCount(Len(list)) /\ reply = PageAt(list, j)
    BY <1>10, <1>11, <1>16 DEF count, j
  <2>1. reply \in NotePage /\ PageOfTotal(reply, j + 1) /\ PageOfList(reply, j + 1, list)
    BY <1>9, <2>0, ReplyIsPage
  <2>2. reply.count # -1
    BY <2>0, <1>11 DEF PageAt, count
  <2>3. CASE FromStart(params) /\ j = 0
    <3>1. notePages' = <<reply>>
      BY <1>14, <2>2, <2>3 DEF Extended, FromStart
    <3>2. <<reply>> \in Seq(NotePage) /\ Len(<<reply>>) = 1 /\ <<reply>>[1] = reply /\ \A k \in 1 .. 1 : k = 0 + 1
      BY <2>1
    <3>3. PageOfTotal(reply, 0 + 1) /\ PageOfList(reply, 0 + 1, list)
      BY <2>1, <2>3
    <3>4. \A k \in 1 .. Len(notePages') : PageOfTotal(notePages'[k], k) /\ PageOfList(notePages'[k], k, list)
      BY <3>1, <3>2, <3>3
    <3>5. notePages' \in Seq(NotePage)
      BY <3>1, <3>2
    <3>6. NoteInv'
      BY <1>6, <1>13, <3>4, <3>5 DEF NoteInv, PageOfTotal, PageOfList, UpToPage
    <3> QED BY <1>4, <1>5, <3>6 DEF PageInv
  <2>4. CASE ~FromStart(params) /\ j = Len(notePages) /\ next(params)
    <3>1. notePages' = Append(notePages, reply)
      BY <1>14, <2>2, <2>4 DEF Extended, FromStart
    <3> DEFINE n == Len(notePages)
               more == Append(notePages, reply)
    <3>2. /\ more \in Seq(NotePage) /\ Len(more) = n + 1 /\ n \in Nat
          /\ more[n + 1] = reply /\ \A k \in 1 .. n : more[k] = notePages[k]
      BY <1>7, <2>1
    <3>3. window' = window /\ InWindow(window.span) = list
      BY <1>1, <2>4 DEF list, span
    <3> HIDE DEF more
    <3>4. \A k \in 1 .. n + 1 : k = n + 1 \/ k \in 1 .. n
      BY <3>2
    <3>5. ASSUME NEW k \in 1 .. n + 1 PROVE PageOfTotal(more[k], k)
      <4>1. CASE k = n + 1
        BY <2>1, <2>4, <3>2, <4>1
      <4>2. CASE k \in 1 .. n
        BY <3>2, <4>2 DEF PageInv, NoteInv
      <4> QED BY <3>4, <4>1, <4>2
    <3>6. ASSUME fresh'.notes, NEW k \in 1 .. n + 1 PROVE PageOfList(more[k], k, list)
      <4>0. fresh.notes
        BY <1>3, <2>4, <3>6
      <4>1. CASE k = n + 1
        BY <2>1, <2>4, <3>2, <4>1
      <4>2. CASE k \in 1 .. n
        BY <3>2, <3>3, <4>0, <4>2 DEF PageInv, NoteInv
      <4> QED BY <3>4, <4>1, <4>2
    <3>7. notePages' = more
      BY <3>1 DEF more
    <3>8. /\ notePages' \in Seq(NotePage)
          /\ \A k \in 1 .. Len(notePages') : PageOfTotal(notePages'[k], k)
          /\ fresh'.notes => \A k \in 1 .. Len(notePages') : PageOfList(notePages'[k], k, list)
      BY <3>2, <3>5, <3>6, <3>7
    <3>9. NoteInv'
      BY <1>6, <1>13, <3>8 DEF NoteInv, PageOfTotal, PageOfList, UpToPage
    <3> QED BY <1>4, <1>5, <3>9 DEF PageInv
  <2> QED BY <1>1, <1>7, <1>16, <2>3, <2>4, AskedFor DEF j
<1> QED BY <1>15, <1>16

------------------------------------------------------------
\* What is shown of a list fits, and the next entry would not.
CutFits(costs, count) ==
    LET Sum(n) == FoldLeft(+, MarkerBytes, SubSeq(costs, 1, n)) IN
    /\ count > 0 => Sum(count) <= Budget
    /\ count < Len(costs) => Sum(count + 1) > Budget

\* A list is cut where the next entry would not fit any more.
LEMMA ShownCut ==
    ASSUME NEW costs \in Seq(Nat)
    PROVE Shown(costs) \in 0 .. Len(costs) /\ CutFits(costs, Shown(costs))
<1> DEFINE Sum(n) == FoldLeft(+, MarkerBytes, SubSeq(costs, 1, n))
           s == {n \in 0 .. Len(costs) : \A m \in 1 .. n : Sum(m) <= Budget}
           count == Shown(costs)
           len == Len(costs)
<1>1. count = Max(s)
  BY DEF Shown
<1>2. ASSUME NEW n \in 0 .. len PROVE Sum(n) \in Nat
  <2>1. SubSeq(costs, 1, n) \in Seq(Nat)
    BY Prefix
  <2> QED BY <2>1, PagingAssumption, SumTyped
<1> HIDE DEF Sum, count
<1>3. len \in Nat /\ s \in SUBSET (0 .. len) /\ 0 \in s
  OBVIOUS
<1>4. \A n : n \in s <=> n \in 0 .. len /\ \A m \in 1 .. n : Sum(m) <= Budget
  OBVIOUS
<1> HIDE DEF s, len
<1>5. count \in s /\ \A i \in s : i <= count
  BY <1>1, <1>3, MaxFrom0
<1>6. count \in 0 .. len /\ \A m \in 1 .. count : Sum(m) <= Budget
  BY <1>4, <1>5
<1>7. count > 0 => Sum(count) <= Budget
  BY <1>3, <1>6
<1>8. ASSUME count < len PROVE Sum(count + 1) > Budget
  <2>1. count + 1 \in 0 .. len /\ ~(count + 1 <= count)
    BY <1>3, <1>6, <1>8
  <2>2. count + 1 \notin s
    BY <1>5, <2>1
  <2>3. PICK m \in 1 .. count + 1 : ~(Sum(m) <= Budget)
    BY <1>4, <2>1, <2>2
  <2>4. m = count + 1 \/ m \in 1 .. count
    BY <1>6
  <2>5. ~(Sum(count + 1) <= Budget)
    BY <1>6, <2>3, <2>4
  <2>6. Sum(count + 1) \in Nat
    BY <1>2, <2>1
  <2> QED BY <2>5, <2>6, PagingAssumption
<1> QED BY <1>6, <1>7, <1>8 DEF CutFits, Sum, count, len

ShownInv == shown.costs \in Seq(Nat) /\ CutFits(shown.costs, shown.count)

\* The inductive invariant.
PagingInv == PageInv /\ ShownInv

\* Nothing is read at first.
LEMMA PagingInitInv == PagingInit => PagingInv
<1> SUFFICES ASSUME PagingInit PROVE PagingInv
  OBVIOUS
<1>1. <<>> \in Seq(Nat) /\ Len(<<>>) = 0
  OBVIOUS
<1>2. PagingTypeOK
  BY <1>1, SetsAssumption DEF PagingInit, PagingTypeOK
<1>3. GridInv
  BY DEF PagingInit, GridInv, GridTyped, GridFresh
<1>4. NoteInv
  BY DEF PagingInit, NoteInv
<1>5. ShownInv
  <2> DEFINE none == <<>>
  <2>1. none \in Seq(Nat) /\ Len(none) = 0
    BY <1>1
  <2>2. shown.costs = none /\ shown.count = 0
    BY DEF PagingInit
  <2> HIDE DEF none
  <2>3. Shown(none) = 0 /\ CutFits(none, Shown(none))
    <3>1. Shown(none) \in 0 .. 0 /\ CutFits(none, Shown(none))
      BY <2>1, ShownCut
    <3> QED BY <3>1
  <2> QED BY <2>1, <2>2, <2>3 DEF ShownInv
<1> QED BY <1>2, <1>3, <1>4, <1>5 DEF PagingInv, PageInv

\* Lists touch nothing but what is shown of them, and what is left alone keeps what was true of it.
LEMMA GridKept ==
    ASSUME GridInv, UNCHANGED <<grid, scenes, gridPages>>, fresh'.grid => fresh.grid
    PROVE GridInv'
<1>1. Occupied' = Occupied
  BY DEF Occupied
<1> QED BY <1>1 DEF GridInv, GridTyped, GridFresh

\* What leaves the notes alone, or owns up to an edit, keeps the pages of notes.
LEMMA NotesKept ==
    ASSUME NoteInv, UNCHANGED <<notes, notePages, window>>, fresh'.notes => fresh.notes
    PROVE NoteInv'
<1>1. InWindow(window.span)' = InWindow(window.span)
  BY DEF InWindow
<1> QED BY <1>1 DEF NoteInv, PageOfTotal, PageOfList, UpToPage

\* PagingInv is inductive.
LEMMA PagingNextInv == PagingInv /\ [PagingNext]_pagingVars => PagingInv'
<1> SUFFICES ASSUME PagingInv, [PagingNext]_pagingVars PROVE PagingInv'
  OBVIOUS
<1> USE DEF PagingInv
<1>1. CASE ReadGrid
  <2>1. PageInv'
    BY <1>1, ReadGridInv
  <2>2. ShownInv'
    BY <1>1 DEF ReadGrid, ShownInv
  <2> QED BY <2>1, <2>2
<1>2. CASE ReadNotes
  <2>1. PageInv'
    BY <1>2, ReadNotesInv
  <2>2. ShownInv'
    BY <1>2 DEF ReadNotes, ShownInv
  <2> QED BY <2>1, <2>2
<1>3. ASSUME NEW costs \in CostLists, ReadList(costs) PROVE PagingInv'
  <2>1. costs \in Seq(Nat)
    BY SetsAssumption
  <2>2. Shown(costs) \in 0 .. Len(costs) /\ CutFits(costs, Shown(costs))
    BY <2>1, ShownCut
  <2>3. shown' = [costs |-> costs, count |-> Shown(costs)]
    BY <1>3 DEF ReadList
  <2>4. ShownInv'
    BY <2>1, <2>2, <2>3 DEF ShownInv
  <2>5. PagingTypeOK'
    BY <1>3, <2>2, <2>3 DEF ReadList, PageInv, PagingTypeOK
  <2>6. GridInv' /\ NoteInv'
    BY <1>3, GridKept, NotesKept DEF ReadList, PageInv
  <2> QED BY <2>4, <2>5, <2>6 DEF PageInv
<1>4. CASE EditSession
  <2>1. fresh' \in [grid : BOOLEAN, notes : BOOLEAN] /\ ~fresh'.grid /\ fresh'.notes = fresh.notes
    BY <1>4 DEF EditSession, PageInv, PagingTypeOK
  <2>2. PagingTypeOK'
    BY <1>4, <2>1, SetsAssumption DEF EditSession, PageInv, PagingTypeOK
  <2>3. NoteInv'
    BY <1>4, <2>1, NotesKept DEF EditSession, PageInv
  <2>4. GridInv'
    BY <1>4, <2>1 DEF EditSession, PageInv, GridInv, GridTyped, GridFresh
  <2>5. ShownInv'
    BY <1>4 DEF EditSession, ShownInv
  <2> QED BY <2>2, <2>3, <2>4, <2>5 DEF PageInv
<1>5. CASE EditNotes
  <2>1. fresh' \in [grid : BOOLEAN, notes : BOOLEAN] /\ ~fresh'.notes /\ fresh'.grid = fresh.grid
    BY <1>5 DEF EditNotes, PageInv, PagingTypeOK
  <2>2. PagingTypeOK'
    BY <1>5, <2>1, SetsAssumption DEF EditNotes, PageInv, PagingTypeOK
  <2>3. GridInv'
    BY <1>5, <2>1, GridKept DEF EditNotes, PageInv
  <2>4. NoteInv'
    BY <1>5, <2>1 DEF EditNotes, PageInv, NoteInv, PageOfTotal, PageOfList, UpToPage
  <2>5. ShownInv'
    BY <1>5 DEF EditNotes, ShownInv
  <2> QED BY <2>2, <2>3, <2>4, <2>5 DEF PageInv
<1>6. CASE UNCHANGED pagingVars
  <2>1. UNCHANGED <<grid, scenes, notes, gridPages, notePages, window, fresh, shown, edits>>
    BY <1>6 DEF pagingVars
  <2>2. PagingTypeOK'
    BY <2>1 DEF PageInv, PagingTypeOK
  <2>3. GridInv' /\ NoteInv'
    BY <2>1, GridKept, NotesKept DEF PageInv
  <2>4. ShownInv'
    BY <2>1 DEF ShownInv
  <2> QED BY <2>2, <2>3, <2>4 DEF PageInv
<1> QED BY <1>1, <1>2, <1>3, <1>4, <1>5, <1>6 DEF PagingNext

\* PagingInv holds of every state, of any grids, notes and lists, and for any edits
\* between the requests for the pages.
LEMMA PagingInvariance == PagingSpec => []PagingInv
  BY PagingInitInv, PagingNextInv, PTL DEF PagingSpec

------------------------------------------------------------
\* Pages of one grid, all of them, hold its entries.
LEMMA GridWhole == ASSUME PagingInv PROVE GridPagesWhole
<1> SUFFICES ASSUME Finished(gridPages), fresh.grid PROVE Entries(gridPages) = Occupied
  BY DEF GridPagesWhole
<1> DEFINE P == PagesOf(Occupied)
           n == Len(gridPages)
           parts == [k \in DOMAIN gridPages |-> gridPages[k].entries]
<1>1. P \in PageLists /\ FlattenSeq(P) = Occupied
  BY OccupiedTyped, PagesProperties DEF PagingInv, PageInv
<1> HIDE DEF P
<1>2. gridPages \in Seq([count : Nat, entries : Seq(Entry)]) /\ n \in Nat /\ n > 0 /\ DOMAIN gridPages = 1 .. n
  BY DEF PagingInv, PageInv, GridInv, GridTyped, Finished
<1>3. \A k \in 1 .. n : k <= Len(P) /\ gridPages[k] = [count |-> Len(P), entries |-> P[k]]
  BY DEF PagingInv, PageInv, GridInv, GridFresh, P
<1>4. P \in Seq(Seq(Entry)) /\ Len(P) \in Nat
  BY <1>1 DEF PageLists
<1>5. Len(P) = n
  <2>1. n \in 1 .. n
    BY <1>2
  <2>2. gridPages[n].count = Len(P) /\ n <= Len(P)
    <3> HIDE DEF n
    <3>1. n <= Len(P) /\ gridPages[n] = [count |-> Len(P), entries |-> P[n]]
      BY <1>3, <2>1
    <3> QED BY <3>1
  <2> QED BY <1>2, <1>4, <2>2 DEF Finished
<1>6. parts \in Seq(Seq(Entry)) /\ Len(parts) = n /\ \A k \in 1 .. n : parts[k] = P[k]
  <2>1. \A k \in 1 .. n : gridPages[k].entries = P[k] /\ P[k] \in Seq(Entry)
    <3> HIDE DEF n
    <3>1. ASSUME NEW k \in 1 .. n PROVE gridPages[k].entries = P[k]
      <4>1. gridPages[k] = [count |-> Len(P), entries |-> P[k]]
        BY <1>3
      <4> QED BY <4>1
    <3>2. \A k \in 1 .. n : P[k] \in Seq(Entry)
      BY <1>4, <1>5
    <3> QED BY <3>1, <3>2
  <2>2. parts = [k \in 1 .. n |-> gridPages[k].entries]
    BY <1>2
  <2>3. \A k \in 1 .. n : parts[k] = gridPages[k].entries
    BY <2>2
  <2> HIDE DEF parts, n
  <2>4. \A k \in 1 .. n : parts[k] = P[k] /\ parts[k] \in Seq(Entry)
    BY <2>1, <2>3
  <2>5. parts = [k \in 1 .. n |-> parts[k]]
    BY <2>2, <2>3
  <2>6. n \in Nat
    BY <1>2
  <2> DEFINE S == Seq(Entry)
  <2>7. \A k \in 1 .. n : parts[k] \in S
    BY <2>4
  <2> HIDE DEF S
  <2>8. parts \in Seq(S) /\ Len(parts) = n
    BY <2>5, <2>6, <2>7
  <2> QED BY <2>4, <2>8 DEF S
<1> HIDE DEF parts, n
<1>7. parts = P
  BY <1>4, <1>5, <1>6, SeqEqual
<1>8. FlattenSeq(parts) = Occupied
  BY <1>1, <1>7
<1> QED BY <1>8 DEF Entries, parts

\* The prefixes of the notes that a client has.
Parts == [k \in DOMAIN notePages |-> notePages[k].entries]

\* The notes of the pages so far.
LEMMA PartsTyped ==
    ASSUME PagingInv
    PROVE /\ Parts \in Seq(Seq(Int)) /\ Len(Parts) = Len(notePages) /\ Len(notePages) \in Nat
          /\ \A k \in 1 .. Len(notePages) : Parts[k] = notePages[k].entries
<1> DEFINE n == Len(notePages)
           S == Seq(Int)
<1>1. n \in Nat /\ DOMAIN notePages = 1 .. n /\ \A k \in 1 .. n : notePages[k] \in NotePage
  BY DEF PagingInv, PageInv, NoteInv
<1>2. \A k \in 1 .. n : notePages[k].entries \in S
  BY <1>1, NotePageFields
<1>3. Parts = [k \in 1 .. n |-> notePages[k].entries]
  BY <1>1 DEF Parts
<1>4. \A k \in 1 .. n : Parts[k] = notePages[k].entries
  BY <1>3
<1> HIDE DEF S, n
<1>5. Parts \in Seq(S) /\ Len(Parts) = n
  BY <1>1, <1>2, <1>3
<1> QED BY <1>1, <1>4, <1>5 DEF S, n

\* The last page of a finished read is the last that there was.
LEMMA LastPage ==
    ASSUME PagingInv, Finished(notePages)
    PROVE LET n == Len(notePages) IN
          /\ n \in Nat /\ n >= 1
          /\ n = NotePageCount(notePages[n].total)
          /\ notePages[n].total \in Nat
<1> DEFINE n == Len(notePages)
<1>1. n \in Nat /\ n >= 1 /\ notePages[n] \in NotePage /\ n \in 1 .. n
  BY DEF PagingInv, PageInv, NoteInv, Finished
<1>2. notePages[n].total \in Nat /\ notePages[n].count \in Int
  BY <1>1, NotePageFields
<1>3. PageOfTotal(notePages[n], n)
  BY <1>1 DEF PagingInv, PageInv, NoteInv
<1>4. notePages[n].count <= n /\ n <= notePages[n].count /\ notePages[n].count = NotePageCount(notePages[n].total)
  BY <1>3 DEF Finished, PageOfTotal
<1> QED BY <1>1, <1>2, <1>4

\* The notes that k pages hold.
LEMMA UpToPageIs ==
    ASSUME NEW t \in Nat, NEW j \in Nat
    PROVE /\ UpToPage(j, t) = (IF j * NotesPerPage <= t THEN j * NotesPerPage ELSE t)
          /\ j * NotesPerPage \in Nat
          /\ UpToPage(j, t) \in 0 .. t
<1> DEFINE a == j * NotesPerPage
<1>1. a \in Int /\ 0 <= a
  <2>1. 0 * NotesPerPage <= a /\ 0 * NotesPerPage = 0 /\ a \in Int
    BY PagingAssumption, ProductGrows
  <2> QED BY <2>1
<1>2. UpToPage(j, t) = Min({a, t})
  BY DEF UpToPage
<1> HIDE DEF a
<1>3. Min({a, t}) = IF a <= t THEN a ELSE t
  BY <1>1, Pair
<1>4. UpToPage(j, t) = (IF a <= t THEN a ELSE t) /\ a \in Nat /\ UpToPage(j, t) \in 0 .. t
  BY <1>1, <1>2, <1>3
<1> QED BY <1>4 DEF a

\* All pages but the last are full, and all of them hold all notes.
LEMMA UpToPageBefore ==
    ASSUME NEW t \in Nat, NEW k \in Nat
    PROVE /\ k < NotePageCount(t) => UpToPage(k, t) = k * NotesPerPage
          /\ UpToPage(NotePageCount(t), t) = t
          /\ UpToPage(0, t) = 0
<1> DEFINE c == NotePageCount(t)
<1>1. c \in Nat /\ t <= c * NotesPerPage /\ (k < c => k * NotesPerPage <= t)
  BY CountEnough
<1> HIDE DEF c
<1>2. k < c => UpToPage(k, t) = k * NotesPerPage
  BY <1>1, UpToPageIs
<1>3. UpToPage(c, t) = t
  <2> DEFINE a == c * NotesPerPage
  <2>1. a \in Nat /\ t <= a /\ UpToPage(c, t) = (IF a <= t THEN a ELSE t)
    BY <1>1, UpToPageIs
  <2> HIDE DEF a
  <2> QED BY <2>1
<1>4. UpToPage(0, t) = 0
  <2>1. 0 * NotesPerPage = 0
    BY PagingAssumption
  <2>2. UpToPage(0, t) = (IF 0 * NotesPerPage <= t THEN 0 * NotesPerPage ELSE t)
    BY UpToPageIs
  <2> QED BY <2>1, <2>2
<1> QED BY <1>2, <1>3, <1>4 DEF c

\* One page more is at most a page full more, and no fewer notes.
LEMMA UpToPageNext ==
    ASSUME NEW t \in Nat, NEW k \in Nat
    PROVE LET m == k * NotesPerPage
              u == UpToPage(k + 1, t)
          IN m \in Nat /\ u \in 0 .. t /\ u - m <= NotesPerPage /\ (m <= t => m <= u)
<1> DEFINE m == k * NotesPerPage
           u == UpToPage(k + 1, t)
           b == (k + 1) * NotesPerPage
<1>1. NotesPerPage \in Nat /\ k + 1 \in Nat
  BY PagingAssumption
<1>2. m \in Nat /\ u \in 0 .. t /\ u = (IF b <= t THEN b ELSE t)
  BY <1>1, UpToPageIs
<1>3. b = m + NotesPerPage
  BY <1>1, ProductNext
<1> HIDE DEF m, u, b
<1>4. u - m <= NotesPerPage /\ (m <= t => m <= u)
  BY <1>1, <1>2, <1>3
<1> QED BY <1>2, <1>4 DEF m, u

\* Pages that agree on their total have that many notes, whatever happened between them.
LEMMA NotesCounted ==
    ASSUME PagingInv, Finished(notePages), \A k \in DOMAIN notePages : notePages[k].total = notePages[1].total
    PROVE Len(Entries(notePages)) = notePages[1].total
<1> DEFINE n == Len(notePages)
           t == notePages[1].total
           e == Parts
<1>1. n \in Nat /\ n >= 1 /\ n = NotePageCount(t) /\ t \in Nat /\ \A k \in 1 .. n : notePages[k].total = t
  <2>1. DOMAIN notePages = 1 .. n
    BY DEF PagingInv, PageInv, NoteInv
  <2>2. n \in 1 .. n /\ notePages[n].total = t
    BY <2>1, LastPage
  <2> QED BY <2>1, <2>2, LastPage
<1>2. e \in Seq(Seq(Int)) /\ Len(e) = n /\ \A k \in 1 .. n : e[k] = notePages[k].entries
  BY PartsTyped
<1>3. ASSUME NEW k \in 1 .. n PROVE Len(e[k]) = UpToPage(k, t) - (k - 1) * NotesPerPage
  BY <1>1, <1>2 DEF PagingInv, PageInv, NoteInv, PageOfTotal
<1> HIDE DEF n, t, e
<1> DEFINE T == {k \in Nat : k <= n => Len(FlattenSeq(SubSeq(e, 1, k))) = UpToPage(k, t)}
<1>4. 0 \in T
  <2>1. SubSeq(e, 1, 0) = <<>>
    BY <1>2, PrefixNone
  <2>2. UpToPage(0, t) = 0
    BY <1>1, UpToPageBefore
  <2>3. FlattenSeq(SubSeq(e, 1, 0)) = <<>>
    BY <2>1, FlattenNone
  <2>4. Len(FlattenSeq(SubSeq(e, 1, 0))) = 0
    BY <2>3
  <2> QED BY <2>2, <2>4
<1>5. ASSUME NEW k \in Nat, k \in T PROVE k + 1 \in T
  <2>1. SUFFICES ASSUME k + 1 <= n PROVE Len(FlattenSeq(SubSeq(e, 1, k + 1))) = UpToPage(k + 1, t)
    OBVIOUS
  <2>2. k \in 0 .. Len(e) - 1 /\ k \in 0 .. Len(e) /\ k + 1 \in 1 .. n /\ k < n /\ k <= n
    BY <1>1, <1>2, <2>1
  <2> DEFINE a == SubSeq(e, 1, k)
  <2>3. SubSeq(e, 1, k + 1) = Append(a, e[k + 1]) /\ a \in Seq(Seq(Int)) /\ e[k + 1] \in Seq(Int)
    <3>1. SubSeq(e, 1, k + 1) = Append(a, e[k + 1])
      BY <1>2, <2>2, PrefixNext
    <3>2. a \in Seq(Seq(Int))
      BY <1>2, <2>2, Prefix
    <3> QED BY <1>2, <2>2, <3>1, <3>2
  <2>4. Len(FlattenSeq(a)) = UpToPage(k, t)
    BY <1>5, <2>2
  <2> HIDE DEF a
  <2>5. FlattenSeq(Append(a, e[k + 1])) = FlattenSeq(a) \o e[k + 1] /\ FlattenSeq(a) \in Seq(Int)
    BY <2>3, FlattenAppend, FlattenTyped
  <2>6. Len(FlattenSeq(a) \o e[k + 1]) = Len(FlattenSeq(a)) + Len(e[k + 1])
    BY <2>3, <2>5
  <2>7. UpToPage(k, t) = k * NotesPerPage
    BY <1>1, <2>2, UpToPageBefore
  <2>8. Len(e[k + 1]) = UpToPage(k + 1, t) - (k + 1 - 1) * NotesPerPage /\ k + 1 - 1 = k
    BY <1>3, <2>2
  <2>9. UpToPage(k + 1, t) \in Int
    BY <1>1, <2>2, UpToPageIs
  <2> DEFINE u == UpToPage(k + 1, t)
             m == k * NotesPerPage
  <2>10. m \in Int
    BY PagingAssumption
  <2>11. Len(e[k + 1]) = u - m
    BY <2>8
  <2> HIDE DEF u, m
  <2>12. m + (u - m) = u
    BY <2>9, <2>10 DEF u
  <2> QED BY <2>3, <2>4, <2>5, <2>6, <2>7, <2>11, <2>12 DEF u, m
<1> HIDE DEF T
<1>6. n \in T
  BY <1>1, <1>4, <1>5, Induction
<1>7. Len(FlattenSeq(SubSeq(e, 1, n))) = UpToPage(n, t)
  BY <1>1, <1>6 DEF T
<1>8. SubSeq(e, 1, n) = e
  BY <1>2, PrefixAll
<1>9. UpToPage(n, t) = t
  BY <1>1, UpToPageBefore
<1> QED BY <1>7, <1>8, <1>9 DEF Entries, Parts, e, t

\* If nobody edited the notes, the pages are the notes of the window.
LEMMA NotesListed ==
    ASSUME PagingInv, Finished(notePages), fresh.notes
    PROVE Entries(notePages) = InWindow(window.span)
<1> DEFINE n == Len(notePages)
           list == InWindow(window.span)
           t == Len(list)
           e == Parts
<1>1. list \in Seq(Int) /\ t \in Nat
  <2>1. list \in Seq(Int)
    BY InWindowTyped DEF PagingInv, PageInv, NoteInv
  <2> HIDE DEF list
  <2> QED BY <2>1
<1>2. \A k \in 1 .. n : PageOfList(notePages[k], k, list)
  BY DEF PagingInv, PageInv, NoteInv
<1>3. e \in Seq(Seq(Int)) /\ Len(e) = n /\ \A k \in 1 .. n : e[k] = notePages[k].entries
  BY PartsTyped
<1> HIDE DEF list
<1>4. n \in Nat /\ n >= 1 /\ n = NotePageCount(t)
  <2>1. n \in Nat /\ n >= 1 /\ n = NotePageCount(notePages[n].total) /\ n \in 1 .. n
    BY LastPage
  <2>2. notePages[n].total = t
    BY <1>2, <2>1 DEF PageOfList
  <2> QED BY <2>1, <2>2
<1>5. ASSUME NEW k \in 1 .. n PROVE e[k] = SubSeq(list, (k - 1) * NotesPerPage + 1, UpToPage(k, t))
  BY <1>2, <1>3 DEF PageOfList
<1> HIDE DEF n, t, e
<1> DEFINE T == {k \in Nat : k <= n => FlattenSeq(SubSeq(e, 1, k)) = SubSeq(list, 1, UpToPage(k, t))}
<1>6. 0 \in T
  <2>1. SubSeq(e, 1, 0) = <<>> /\ SubSeq(list, 1, 0) = <<>>
    BY <1>1, <1>3, PrefixNone
  <2>2. UpToPage(0, t) = 0
    BY <1>1, UpToPageBefore
  <2> QED BY <2>1, <2>2, FlattenNone
<1>7. ASSUME NEW k \in Nat, k \in T PROVE k + 1 \in T
  <2>1. SUFFICES ASSUME k + 1 <= n PROVE FlattenSeq(SubSeq(e, 1, k + 1)) = SubSeq(list, 1, UpToPage(k + 1, t))
    OBVIOUS
  <2>2. k \in 0 .. Len(e) - 1 /\ k \in 0 .. Len(e) /\ k + 1 \in 1 .. n /\ k < n /\ k <= n
    BY <1>3, <1>4, <2>1
  <2> DEFINE a == SubSeq(e, 1, k)
             u == UpToPage(k + 1, t)
             m == k * NotesPerPage
  <2>3. SubSeq(e, 1, k + 1) = Append(a, e[k + 1]) /\ a \in Seq(Seq(Int)) /\ e[k + 1] \in Seq(Int)
    BY <1>3, <2>2, PrefixNext, Prefix
  <2>4. FlattenSeq(a) = SubSeq(list, 1, UpToPage(k, t))
    BY <1>7, <2>2
  <2> HIDE DEF a
  <2>5. FlattenSeq(Append(a, e[k + 1])) = FlattenSeq(a) \o e[k + 1]
    BY <2>3, FlattenAppend
  <2>6. UpToPage(k, t) = m
    BY <1>1, <1>4, <2>2, UpToPageBefore
  <2>7. e[k + 1] = SubSeq(list, m + 1, u)
    BY <1>5, <2>2
  <2>8. m \in 0 .. t /\ u \in 0 .. t /\ m <= u
    <3>1. UpToPage(k, t) \in 0 .. t
      BY <1>1, UpToPageIs
    <3>2. u \in 0 .. t /\ (m <= t => m <= u)
      BY <1>1, UpToPageNext
    <3> QED BY <1>1, <2>6, <3>1, <3>2
  <2> HIDE DEF u, m
  <2>10. 1 \in 1 .. Len(list) + 1 /\ m \in 1 - 1 .. Len(list) /\ u \in m .. Len(list)
    BY <1>1, <2>8 DEF t
  <2>11. SubSeq(list, 1, m) \o SubSeq(list, m + 1, u) = SubSeq(list, 1, u)
    BY <1>1, <2>10, ConcatAdjacentSubSeq
  <2> QED BY <2>3, <2>4, <2>5, <2>6, <2>7, <2>11 DEF u
<1> HIDE DEF T
<1>8. n \in T
  BY <1>4, <1>6, <1>7, Induction
<1>9. FlattenSeq(SubSeq(e, 1, n)) = SubSeq(list, 1, UpToPage(n, t))
  BY <1>4, <1>8 DEF T
<1>10. SubSeq(e, 1, n) = e
  BY <1>3, PrefixAll
<1>11. UpToPage(n, t) = t
  BY <1>1, <1>4, UpToPageBefore
<1>12. SubSeq(list, 1, t) = list
  BY <1>1, PrefixAll DEF t
<1> QED BY <1>9, <1>10, <1>11, <1>12 DEF Entries, Parts, e, list

\* Pages of the same notes, all of them, hold these notes.
LEMMA NotesWhole == ASSUME PagingInv PROVE NotesPagesWhole
<1>1. SUFFICES ASSUME Finished(notePages)
               PROVE /\ (\A k \in DOMAIN notePages : notePages[k].total = notePages[1].total)
                        => Len(Entries(notePages)) = notePages[1].total
                     /\ fresh.notes => /\ Entries(notePages) = InWindow(window.span)
                                       /\ window.clip = "arrangement" => Entries(notePages) = notes
  BY DEF NotesPagesWhole
<1>2. fresh.notes => Entries(notePages) = InWindow(window.span)
  BY <1>1, NotesListed
<1>3. window.clip = "arrangement" => InWindow(window.span) = notes
  BY AllInWindow DEF PagingInv, PageInv, NoteInv
<1> QED BY <1>1, <1>2, <1>3, NotesCounted

\* Every page of more than one entry and every cut list fits the budget.
LEMMA PagesAllFit == ASSUME PagingInv PROVE PagesFit
<1>1. ASSUME NEW k \in DOMAIN gridPages, Bytes(gridPages[k].entries) > Budget PROVE Len(gridPages[k].entries) = 1
  BY <1>1, SMTT(30) DEF PagingInv, PageInv, GridInv, GridTyped, PageFits
<1>2. ASSUME NEW k \in DOMAIN notePages PROVE Len(notePages[k].entries) <= NotesPerPage
  <2> DEFINE t == notePages[k].total
             u == UpToPage(k, t)
             m == (k - 1) * NotesPerPage
  <2>1. k \in 1 .. Len(notePages) /\ k \in Nat /\ notePages[k] \in NotePage
    BY DEF PagingInv, PageInv, NoteInv
  <2>2. t \in Nat
    BY <2>1, NotePageFields
  <2>3. Len(notePages[k].entries) = u - m
    BY <2>1 DEF PagingInv, PageInv, NoteInv, PageOfTotal
  <2>4. u - m <= NotesPerPage
    <3> DEFINE j == k - 1
    <3>1. j \in Nat /\ j + 1 = k
      BY <2>1
    <3> HIDE DEF j, t
    <3>2. UpToPage(j + 1, t) - j * NotesPerPage <= NotesPerPage
      BY <2>2, <3>1, UpToPageNext
    <3> QED BY <3>1, <3>2 DEF j
  <2> QED BY <2>3, <2>4
<1>3. CutFits(shown.costs, shown.count)
  BY DEF PagingInv, ShownInv
<1> QED BY <1>1, <1>2, <1>3 DEF PagesFit, CutFits

\* The variables of the paged requests have their types.
THEOREM PagingTypes == PagingSpec => []PagingTypeOK
<1>1. PagingInv => PagingTypeOK
  BY DEF PagingInv, PageInv
<1> QED BY <1>1, PagingInvariance, PTL

\* Who has read all pages of a grid that nobody edited meanwhile has every occupied
\* slot, once and in order, however _clip_grid_pages divides them.
THEOREM GridAlwaysWhole == PagingSpec => []GridPagesWhole
  BY GridWhole, PagingInvariance, PTL

\* The pages of _paged_notes_reply add up to their total if they agree on it, and to
\* the notes of the window if nobody edited them; /live/arrangement_clip/get/notes
\* gives all notes.
THEOREM NotesAlwaysWhole == PagingSpec => []NotesPagesWhole
  BY NotesWhole, PagingInvariance, PTL

\* No reply is over the budget but for one clip that is so alone, and a list that was
\* cut (get_names, search) was cut at the first entry that did not fit.
THEOREM PagesAlwaysFit == PagingSpec => []PagesFit
  BY PagesAllFit, PagingInvariance, PTL

------------------------------------------------------------
\* A later time has no earlier beat.
LEMMA BeatGrows ==
    ASSUME NEW t \in Nat, NEW u \in Nat, t <= u
    PROVE  Beat(t) \in Nat /\ Beat(t) <= Beat(u)
<1> DEFINE q == t \div Fraction
           r == u \div Fraction
<1>1. Fraction \in Nat /\ Fraction > 0
  BY FractionPositive
<1>2. q \in Int /\ r \in Int
  BY <1>1
<1>3. Fraction * q <= t /\ t < Fraction * (q + 1) /\ Fraction * r <= u /\ u < Fraction * (r + 1)
  BY <1>1
<1> HIDE DEF q, r
<1>4. q >= 0
  BY <1>1, <1>2, <1>3
<1>5. q <= r
  BY <1>1, <1>2, <1>3
<1> QED
  BY <1>2, <1>4, <1>5 DEF Beat, q, r

\* A new handler has seen the beat before the first.
LEMMA NothingSeen == -Fraction < 0 /\ Beat(-Fraction) = -1
<1>1. Fraction \in Nat /\ Fraction > 0 /\ Fraction \div Fraction = 1
  BY FractionPositive
<1> QED
  BY <1>1 DEF Beat

\* The listener has seen no time at first.
LEMMA InitKnown == BeatInit => BeatTypeOK /\ BeatKnown
<1> SUFFICES ASSUME BeatInit PROVE BeatTypeOK /\ BeatKnown
  OBVIOUS
<1>1. Beat(MaxTime) \in Nat /\ -Fraction < 0
  BY MaxTimeNat, BeatGrows, NothingSeen
<1>2. songTime \in 0 .. MaxTime
  BY MaxTimeNat DEF BeatInit
<1>3. lastSongTime \in {-Fraction} \cup 0 .. MaxTime
  BY DEF BeatInit
<1>4. listening \in BOOLEAN /\ due \in BOOLEAN
  BY DEF BeatInit
<1>5. beat \in -1 .. Beat(MaxTime)
  BY <1>1 DEF BeatInit
<1>6. BeatKnown
  BY <1>1, FractionPositive DEF BeatInit, BeatKnown
<1> QED
  BY <1>2, <1>3, <1>4, <1>5, <1>6 DEF BeatTypeOK

\* Each step of the listener keeps the beat known.
LEMMA NextKnown == BeatTypeOK /\ BeatKnown /\ [BeatNext]_beatVars => BeatTypeOK' /\ BeatKnown'
<1> SUFFICES ASSUME BeatTypeOK, BeatKnown, [BeatNext]_beatVars
             PROVE  BeatTypeOK' /\ BeatKnown'
  OBVIOUS
<1>1. Fraction \in Nat /\ Fraction > 0 /\ MaxTime \in Nat /\ -Fraction < 0
  BY FractionPositive, MaxTimeNat
<1>2. ASSUME NEW t \in 0 .. MaxTime, MoveTo(t)
      PROVE  BeatTypeOK' /\ BeatKnown'
  BY <1>2 DEF MoveTo, BeatTypeOK, BeatKnown
<1>3. CASE StartListen \/ StopListen
  BY <1>3 DEF StartListen, StopListen, BeatTypeOK, BeatKnown
<1>4. CASE TimeChanged
  <2>1. songTime \in Nat /\ songTime <= MaxTime /\ Beat(songTime) \in Nat /\ Beat(songTime) <= Beat(MaxTime)
    BY <1>1, BeatGrows DEF BeatTypeOK
  <2>2. beat' = Beat(songTime)
    <3>1. CASE lastSongTime < 0
      BY <1>1, <1>4, <2>1, <3>1, NothingSeen DEF TimeChanged, BeatTypeOK
    <3>2. CASE songTime < lastSongTime
      BY <1>4, <3>2 DEF TimeChanged
    <3>3. CASE lastSongTime \in Nat /\ lastSongTime <= songTime
      <4>1. Beat(lastSongTime) \in Nat /\ Beat(lastSongTime) <= Beat(songTime)
        BY <2>1, <3>3, BeatGrows
      <4> QED
        BY <1>4, <2>1, <3>3, <4>1 DEF TimeChanged, BeatKnown
    <3> QED
      BY <1>1, <2>1, <3>1, <3>2, <3>3 DEF BeatTypeOK
  <2>3. lastSongTime' = songTime /\ due' = FALSE /\ UNCHANGED <<songTime, listening>>
    BY <1>4 DEF TimeChanged
  <2>4. Beat(MaxTime) \in Nat
    BY <1>1, BeatGrows
  <2>5. BeatTypeOK'
    <3>1. beat' \in -1 .. Beat(MaxTime)
      BY <2>1, <2>2, <2>4
    <3>2. /\ songTime' \in 0 .. MaxTime /\ lastSongTime' \in 0 .. MaxTime
          /\ listening' \in BOOLEAN /\ due' \in BOOLEAN
      BY <1>1, <2>3 DEF BeatTypeOK
    <3> QED
      BY <3>1, <3>2 DEF BeatTypeOK
  <2> QED
    BY <2>1, <2>2, <2>3, <2>5 DEF BeatKnown
<1>5. CASE ReloadSong
  <2>1. Beat(MaxTime) \in Nat
    BY <1>1, BeatGrows
  <2>2. beat' \in -1 .. Beat(MaxTime) /\ BeatKnown'
    BY <1>1, <1>5, <2>1 DEF ReloadSong, BeatKnown
  <2>3. /\ songTime' \in 0 .. MaxTime /\ lastSongTime' \in {-Fraction}
        /\ listening' \in BOOLEAN /\ due' \in BOOLEAN
    BY <1>5 DEF ReloadSong, BeatTypeOK
  <2> QED
    BY <2>2, <2>3 DEF BeatTypeOK
<1>6. CASE UNCHANGED beatVars
  BY <1>6 DEF beatVars, BeatTypeOK, BeatKnown
<1> QED
  BY <1>2, <1>3, <1>4, <1>5, <1>6 DEF BeatNext

\* The variables of the handler have their types.
THEOREM BeatTypes == BeatSpec => []BeatTypeOK
  BY InitKnown, NextKnown, PTL DEF BeatSpec

\* The last beat that was sent is that of the last time the handler has seen
\* (current_song_time_changed), for any jumps, stops, reloads and merged callbacks.
THEOREM BeatAlwaysKnown == BeatSpec => []BeatKnown
  BY InitKnown, NextKnown, PTL DEF BeatSpec

------------------------------------------------------------
CellRecord == [of : Int, value : Int]

\* The fields of session_info; the name is read outside the inner tries.
LEMMA FieldsAre ==
    /\ FieldSet = {"name", "color", "midi", "foldable", "group", "mute", "slot"}
    /\ "none" \notin FieldSet /\ "name" \in Unguarded
<1>1. DOMAIN InfoFields = 1 .. 7
  BY DEF InfoFields
<1>2. FieldSet = {InfoFields[i] : i \in 1 .. 7}
  BY <1>1 DEF FieldSet, ToSet
<1>3. 1 .. 7 = {1, 2, 3, 4, 5, 6, 7}
  OBVIOUS
<1>4. InfoFields[1] = "name" /\ InfoFields[2] = "color" /\ InfoFields[3] = "midi" /\ InfoFields[4] = "foldable"
      /\ InfoFields[5] = "group" /\ InfoFields[6] = "mute" /\ InfoFields[7] = "slot"
  BY DEF InfoFields
<1> HIDE DEF InfoFields
<1>5. FieldSet = {"name", "color", "midi", "foldable", "group", "mute", "slot"}
  BY <1>2, <1>3, <1>4
<1> QED BY <1>5 DEF Unguarded, Guarded

\* The name is read first of all.
LEMMA NameFirst == ASSUME NEW f \in FieldSet PROVE ~(FieldPlace(f) < FieldPlace("name"))
<1>1. DOMAIN InfoFields = 1 .. 7
  BY DEF InfoFields
<1>2. \E i \in 1 .. 7 : InfoFields[i] = f
  BY <1>1 DEF FieldSet, ToSet
<1>3. FieldPlace(f) \in 1 .. 7
  BY <1>1, <1>2 DEF FieldPlace
<1>4. \A i \in 1 .. 7 : InfoFields[i] = "name" => i = 1
  BY DEF InfoFields
<1>5. 1 \in 1 .. 7 /\ InfoFields[1] = "name"
  BY DEF InfoFields
<1>6. FieldPlace("name") = 1
  <2> HIDE DEF InfoFields
  <2> QED BY <1>1, <1>4, <1>5 DEF FieldPlace
<1> QED BY <1>3, <1>6

\* What a track adds to a list is a number.
LEMMA FieldTyped ==
    ASSUME session \in Seq(Track), NEW t \in DOMAIN session, NEW f \in FieldSet
    PROVE FieldValue(t, f) \in Int /\ Placeholder(f) \in Int
<1>1. session[t] \in Track
  OBVIOUS
<1>2. Placeholder(f) \in Int
  BY DEF Placeholder, NoTrack
<1> QED BY <1>1, <1>2 DEF FieldValue, Track

\* A cell tells its track and its value.
LEMMA CellIs ==
    ASSUME NEW t \in Int, NEW v \in Int
    PROVE Cell(t, v) \in CellRecord /\ Cell(t, v).of = t /\ Cell(t, v).value = v
  BY DEF Cell, CellRecord

\* A track has a cell of its own in every list, and only one unless it raises late.
LEMMA CellsAre ==
    ASSUME session \in Seq(Track), NEW t \in DOMAIN session, NEW f \in FieldSet
    PROVE LET cells == Cells(t, f)
          IN /\ cells \in Seq(CellRecord) /\ cells # <<>> /\ cells[1].of = t
             /\ t \notin Late => Len(cells) = 1
             /\ session[t].raises = "none" => cells[1].value = FieldValue(t, f)
<1> DEFINE a == Cell(t, FieldValue(t, f))
           b == Cell(t, Placeholder(f))
           r == session[t].raises
<1>1. t \in Int
  OBVIOUS
<1>2. a \in CellRecord /\ a.of = t /\ a.value = FieldValue(t, f) /\ b \in CellRecord /\ b.of = t
  BY <1>1, CellIs, FieldTyped
<1>3. Cells(t, f) = IF r \notin Unguarded THEN <<a>>
                    ELSE IF FieldPlace(f) < FieldPlace(r) THEN <<a, b>> ELSE <<b>>
  BY DEF Cells
<1>4. t \notin Late => r \notin Unguarded \/ ~(FieldPlace(f) < FieldPlace(r))
  BY NameFirst DEF Late
<1>5. r = "none" => r \notin Unguarded
  BY FieldsAre DEF Unguarded
<1> HIDE DEF a, b, r
<1>6. /\ <<a>> \in Seq(CellRecord) /\ <<a>> # <<>> /\ Len(<<a>>) = 1 /\ <<a>>[1] = a
      /\ <<b>> \in Seq(CellRecord) /\ <<b>> # <<>> /\ Len(<<b>>) = 1 /\ <<b>>[1] = b
      /\ <<a, b>> \in Seq(CellRecord) /\ <<a, b>> # <<>> /\ <<a, b>>[1] = a
  BY <1>2
<1>7. CASE Cells(t, f) = <<a>>
  BY <1>2, <1>6, <1>7
<1>8. CASE Cells(t, f) = <<b>> /\ r # "none"
  BY <1>2, <1>6, <1>8 DEF r
<1>9. CASE Cells(t, f) = <<a, b>> /\ t \in Late
  BY <1>2, <1>6, <1>9
<1> QED BY <1>3, <1>4, <1>5, <1>7, <1>8, <1>9

\* The list of a field, up to the first track that raises late.
LEMMA FieldAligned ==
    ASSUME session \in Seq(Track), NEW f \in FieldSet
    PROVE /\ \A t \in DOMAIN session : Before(t) =>
                 /\ t \in DOMAIN SessionInfo[f] /\ SessionInfo[f][t].of = t
                 /\ session[t].raises = "none" => SessionInfo[f][t].value = FieldValue(t, f)
          /\ Late = {} => Len(SessionInfo[f]) = Len(session)
<1> DEFINE n == Len(session)
           e == [t \in DOMAIN session |-> Cells(t, f)]
           S == Seq(CellRecord)
           list == SessionInfo[f]
<1>1. n \in Nat /\ DOMAIN session = 1 .. n
  OBVIOUS
<1>2. list = FlattenSeq(e)
  BY DEF SessionInfo
<1>3. ASSUME NEW t \in 1 .. n
      PROVE /\ e[t] \in S /\ e[t] # <<>> /\ e[t][1].of = t
            /\ t \notin Late => Len(e[t]) = 1
            /\ session[t].raises = "none" => e[t][1].value = FieldValue(t, f)
  <2>1. t \in DOMAIN session /\ e[t] = Cells(t, f)
    BY <1>1
  <2> HIDE DEF e
  <2> QED BY <2>1, CellsAre
<1>4. e = [t \in 1 .. n |-> e[t]]
  BY <1>1
<1> HIDE DEF e, S, list
<1>5. e \in Seq(S) /\ Len(e) = n
  <2> HIDE DEF n
  <2> QED BY <1>1, <1>3, <1>4, IsSequence
<1>6. e \in Seq(Seq(CellRecord))
  BY <1>5 DEF S
<1>7. ASSUME NEW t \in 1 .. n, Before(t)
      PROVE /\ t \in DOMAIN list /\ list[t].of = t
            /\ session[t].raises = "none" => list[t].value = FieldValue(t, f)
  <2>1. \A u \in 1 .. t - 1 : Len(e[u]) = 1
    <3>1. \A u \in 1 .. t - 1 : u \in 1 .. n /\ u \notin Late
      BY <1>1, <1>7 DEF Before
    <3> QED BY <1>3, <3>1
  <2>2. e[t] # <<>> /\ t \in 1 .. Len(e)
    BY <1>3, <1>5
  <2>3. t \in DOMAIN FlattenSeq(e) /\ FlattenSeq(e)[t] = e[t][1]
    BY <1>6, <2>1, <2>2, FlattenPlace
  <2> QED BY <1>2, <1>3, <2>3
<1>8. ASSUME Late = {} PROVE Len(list) = n
  <2>1. \A u \in 1 .. Len(e) : Len(e[u]) = 1
    BY <1>3, <1>5, <1>8
  <2>2. FlattenSeq(e) \in Seq(CellRecord) /\ Len(FlattenSeq(e)) = Len(e) * 1
    <3> HIDE DEF n
    <3>1. 1 \in Nat
      OBVIOUS
    <3> QED BY <1>6, <2>1, <3>1, FlattenUniform
  <2>3. Len(FlattenSeq(e)) = n
    <3> HIDE DEF n
    <3>1. n * 1 = n
      BY <1>1
    <3> QED BY <1>5, <2>2, <3>1
  <2> QED BY <1>2, <2>3
<1> QED BY <1>1, <1>7, <1>8 DEF list

------------------------------------------------------------
GroupBlock == <<"track.group_track">>

\* What track_data says of the group tracks, and of which tracks.
GroupsListed ==
    trackData.block = GroupBlock =>
        \A k \in DOMAIN trackData.list :
            LET cell == trackData.list[k]
            IN cell.of \in DOMAIN session /\ cell.value = session[cell.of].group

PositionsListed ==
    \A p \in positions :
        LET t == p[1] + 1 IN t \in DOMAIN session /\ session[t].slot = p[2]

\* The inductive invariant: what a client has been told is said of this session.
SessionInv ==
    /\ session \in Seq(Track)
    /\ info = NoInfo \/ info = SessionInfo
    /\ PositionsListed
    /\ exported = <<>> \/ exported = Structure
    /\ GroupsListed

\* The tracks of a range that can be answered are tracks of the session.
LEMMA RangeTracks ==
    ASSUME session \in Seq(Track), NEW range \in Int \X Int, Answerable(range)
    PROVE TracksOf(range) \in Seq(DOMAIN session)
<1> DEFINE min == range[1]
           max == UpTo(range)
           indices == PythonRange(min, max)
           n == Max({0, max - min})
           D == DOMAIN session
<1>1. min \in Int /\ max \in Int /\ range # <<>>
  BY DEF UpTo
<1> HIDE DEF min, max
<1>2. n \in Nat
  <2>1. max - min \in Int /\ 0 \in Int
    BY <1>1
  <2>2. Max({0, max - min}) = IF 0 >= max - min THEN 0 ELSE max - min
    BY <2>1, Pair
  <2> QED BY <2>1, <2>2
<1> HIDE DEF n
<1>3. indices = [k \in 1 .. n |-> min + k - 1] /\ DOMAIN indices = 1 .. n
  BY DEF PythonRange, n
<1> HIDE DEF indices
<1>4. TracksOf(range) = [k \in 1 .. n |-> PythonItem(indices[k])]
  BY <1>1, <1>3 DEF TracksOf, indices, min, max
<1>5. ASSUME NEW k \in 1 .. n PROVE PythonItem(indices[k]) \in D
  <2>1. InRange(indices[k])
    BY <1>1, <1>3 DEF Answerable, indices, min, max
  <2>2. Len(session) \in Nat /\ D = 1 .. Len(session)
    OBVIOUS
  <2> QED BY <2>1, <2>2 DEF InRange, PythonItem
<1> HIDE DEF D
<1>6. TracksOf(range) \in Seq(D)
  <2> DEFINE f == TracksOf(range)
  <2>1. f = [k \in 1 .. n |-> f[k]] /\ \A k \in 1 .. n : f[k] \in D
    BY <1>4, <1>5
  <2> HIDE DEF f
  <2>2. f \in Seq(D)
    BY <1>2, <2>1, IsSequence
  <2> QED BY <2>2 DEF f
<1> QED BY <1>6 DEF D

\* A block of group tracks has, for each track of the range, its group.
LEMMA GroupCells ==
    ASSUME session \in Seq(Track), NEW tracks \in Seq(DOMAIN session)
    PROVE LET list == FlattenSeq([k \in DOMAIN tracks |->
                          FlattenSeq([p \in DOMAIN GroupBlock |-> BlockValues(tracks[k], GroupBlock[p])])])
          IN \A k \in DOMAIN list : list[k].of \in DOMAIN session /\ list[k].value = session[list[k].of].group
<1> DEFINE D == DOMAIN session
           Group(t) == Cell(t, session[t].group)
           s == [k \in DOMAIN tracks |-> Group(tracks[k])]
           n == Len(tracks)
           Inner(k) == FlattenSeq([p \in DOMAIN GroupBlock |-> BlockValues(tracks[k], GroupBlock[p])])
<1>1. n \in Nat /\ DOMAIN tracks = 1 .. n /\ \A k \in 1 .. n : tracks[k] \in D
  OBVIOUS
<1>2. ASSUME NEW t \in D PROVE Group(t) \in CellRecord /\ Group(t).of = t /\ Group(t).value = session[t].group
  <2>1. session[t] \in Track /\ t \in Int
    OBVIOUS
  <2>2. session[t].group \in Int
    BY <2>1 DEF Track
  <2> QED BY <2>1, <2>2, CellIs
<1>3. ASSUME NEW k \in 1 .. n PROVE Inner(k) = <<Group(tracks[k])>>
  <2> DEFINE t == tracks[k]
             one == <<Group(t)>>
  <2>1. t \in D
    BY <1>1
  <2>2. DOMAIN GroupBlock = {1} /\ GroupBlock[1] = "track.group_track"
    BY DEF GroupBlock
  <2>3. BlockValues(t, "track.group_track") = one
    BY DEF BlockValues
  <2> HIDE DEF one, t
  <2>4. [p \in DOMAIN GroupBlock |-> BlockValues(t, GroupBlock[p])] = <<one>>
    <3> HIDE DEF GroupBlock
    <3>1. [p \in DOMAIN GroupBlock |-> BlockValues(t, GroupBlock[p])] = [p \in {1} |-> one]
      BY <2>2, <2>3
    <3>2. [p \in {1} |-> one] = <<one>>
      OBVIOUS
    <3> QED BY <3>1, <3>2
  <2>5. one \in Seq(CellRecord)
    BY <1>2, <2>1 DEF one
  <2>6. FlattenSeq(<<one>>) = one
    BY <2>5, FlattenOne
  <2> QED BY <2>4, <2>6 DEF one, t
<1>4. [k \in DOMAIN tracks |-> Inner(k)] = [k \in DOMAIN tracks |-> <<Group(tracks[k])>>]
  BY <1>1, <1>3
<1>5. s = [k \in 1 .. n |-> s[k]] /\ \A k \in 1 .. n : s[k] = Group(tracks[k])
  BY <1>1
<1> HIDE DEF Group, s
<1>6. s \in Seq(CellRecord)
  <2>1. \A k \in 1 .. n : s[k] \in CellRecord
    BY <1>1, <1>2, <1>5
  <2> HIDE DEF n
  <2> QED BY <1>1, <1>5, <2>1, IsSequence
<1>7. DOMAIN s = DOMAIN tracks
  BY <1>1, <1>5
<1>8. FlattenSeq([k \in DOMAIN s |-> <<s[k]>>]) = s
  BY <1>6, FlattenSingles
<1>9. [k \in DOMAIN s |-> <<s[k]>>] = [k \in DOMAIN tracks |-> <<Group(tracks[k])>>]
  BY <1>1, <1>5, <1>7
<1>10. FlattenSeq([k \in DOMAIN tracks |-> Inner(k)]) = s
  <2> HIDE DEF Inner
  <2> QED BY <1>4, <1>8, <1>9
<1>11. ASSUME NEW k \in DOMAIN s PROVE s[k].of \in D /\ s[k].value = session[s[k].of].group
  BY <1>1, <1>2, <1>5, <1>7
<1> HIDE DEF D
<1> QED BY <1>10, <1>11 DEF D

------------------------------------------------------------
\* There is nothing to say of no tracks.
LEMMA NothingToSay ==
    ASSUME session = NoSession
    PROVE SessionInfo = NoInfo /\ Structure = <<>>
<1>1. DOMAIN session = {} /\ session \in Seq(Track)
  BY DEF NoSession
<1>2. ASSUME NEW f \in FieldSet PROVE FlattenSeq([t \in DOMAIN session |-> Cells(t, f)]) = <<>>
  <2> DEFINE e == [t \in DOMAIN session |-> Cells(t, f)]
  <2>1. e = <<>>
    BY <1>1
  <2> HIDE DEF e
  <2> QED BY <2>1, FlattenNone DEF e
<1>3. SessionInfo = NoInfo
  BY <1>2 DEF SessionInfo, NoInfo
<1>4. Structure = <<>>
  BY <1>1 DEF Structure
<1> QED BY <1>3, <1>4

\* Nothing has been told at first.
LEMMA SessionInitially == ASSUME SessionInit PROVE SessionInv
<1>1. session = <<>> /\ info = NoInfo /\ positions = {} /\ exported = <<>> /\ trackData.list = <<>>
  BY DEF SessionInit, NoSession
<1> QED BY <1>1 DEF SessionInv, PositionsListed, GroupsListed

\* SessionInv is inductive: what was told of no session is nothing, and a session stays as it is.
LEMMA SessionStep == ASSUME SessionInv, [SessionNext]_sessionVars PROVE SessionInv'
<1> USE DEF SessionInv
<1>1. CASE OpenSet
  <2>1. session' \in Seq(Track) /\ session = NoSession
        /\ UNCHANGED <<info, positions, trackData, exported>>
    BY <1>1, SessionsAssumption DEF OpenSet
  <2>2. info = NoInfo /\ exported = <<>>
    BY <2>1, NothingToSay
  <2>3. DOMAIN session = {}
    BY <2>1 DEF NoSession
  <2>4. positions = {}
    BY <2>3 DEF PositionsListed
  <2>5. trackData.block = GroupBlock => DOMAIN trackData.list = {}
    BY <2>3 DEF GroupsListed
  <2>6. PositionsListed'
    BY <2>1, <2>4 DEF PositionsListed
  <2>7. GroupsListed'
    BY <2>1, <2>5 DEF GroupsListed
  <2>8. info' = NoInfo /\ exported' = <<>> /\ NoInfo' = NoInfo
    BY <2>1, <2>2 DEF NoInfo, FieldSet, InfoFields
  <2> QED BY <2>1, <2>6, <2>7, <2>8
<1> DEFINE Same == UNCHANGED session
<1>2. ASSUME Same
      PROVE /\ SessionInfo' = SessionInfo /\ Structure' = Structure /\ NoInfo' = NoInfo
            /\ positions' = positions => PositionsListed'
            /\ trackData' = trackData => GroupsListed'
  <2>1. SessionInfo' = SessionInfo /\ Structure' = Structure /\ NoInfo' = NoInfo
    BY <1>2 DEF SessionInfo, Cells, Cell, FieldValue, Raises, Placeholder, Structure, NoInfo
  <2>2. /\ positions' = positions => PositionsListed'
        /\ trackData' = trackData => GroupsListed'
    BY <1>2 DEF PositionsListed, GroupsListed
  <2> QED BY <2>1, <2>2
<1>3. CASE GetSessionInfo
  <2>1. Same /\ info' = SessionInfo /\ UNCHANGED <<positions, exported, trackData>>
    BY <1>3 DEF GetSessionInfo
  <2> QED BY <1>2, <2>1
<1>4. CASE GetPlayingPositions
  <2>1. Same /\ positions' = PlayingPositions /\ UNCHANGED <<info, exported, trackData>>
    BY <1>4 DEF GetPlayingPositions
  <2>2. ASSUME NEW p \in PlayingPositions PROVE p[1] + 1 \in DOMAIN session /\ session[p[1] + 1].slot = p[2]
    <3>1. PICK t \in DOMAIN session : p = <<t - 1, session[t].slot>>
      BY <2>2 DEF PlayingPositions
    <3>2. t \in Int /\ p[1] = t - 1 /\ p[2] = session[t].slot
      BY <3>1
    <3>3. p[1] + 1 = t
      BY <3>2
    <3> QED BY <3>2, <3>3
  <2>3. PositionsListed'
    BY <2>1, <2>2 DEF PositionsListed
  <2> QED BY <1>2, <2>1, <2>3
<1>5. ASSUME NEW range \in Ranges, GetTrackNames(range) PROVE SessionInv'
  <2>1. Same /\ UNCHANGED <<info, positions, exported, trackData>>
    BY <1>5 DEF GetTrackNames
  <2> QED BY <1>2, <2>1
<1>6. ASSUME NEW range \in Ranges \ {<<>>}, NEW block \in Blocks, GetTrackData(range, block) PROVE SessionInv'
  <2>1. Same /\ trackData' = TrackData(range, block) /\ UNCHANGED <<info, positions, exported>>
    BY <1>6 DEF GetTrackData
  <2>2. range \in Int \X Int
    BY SessionsAssumption
  <2> DEFINE data == TrackData(range, block)
             tracks == TracksOf(range)
             listed == FlattenSeq([k \in DOMAIN tracks |->
                           FlattenSeq([p \in DOMAIN GroupBlock |-> BlockValues(tracks[k], GroupBlock[p])])])
  <2>3. data.block = block
    BY DEF TrackData
  <2>4. ASSUME block = GroupBlock, NEW k \in DOMAIN data.list
        PROVE data.list[k].of \in DOMAIN session /\ data.list[k].value = session[data.list[k].of].group
    <3>1. CASE data.list = <<>>
      BY <2>4, <3>1
    <3>2. CASE Answerable(range) /\ data.list = listed
      <4>1. tracks \in Seq(DOMAIN session)
        BY <2>2, <3>2, RangeTracks
      <4>2. \A j \in DOMAIN listed : listed[j].of \in DOMAIN session /\ listed[j].value = session[listed[j].of].group
        <5> HIDE DEF tracks
        <5> QED BY <4>1, GroupCells
      <4> HIDE DEF listed, data
      <4> QED BY <2>4, <3>2, <4>2
    <3>3. data.list = <<>> \/ (Answerable(range) /\ data.list = listed)
      BY <2>4 DEF TrackData
    <3> QED BY <3>1, <3>2, <3>3
  <2>5. GroupsListed'
    <3> HIDE DEF data
    <3>1. trackData' = data
      BY <2>1 DEF data
    <3> QED BY <2>1, <2>3, <2>4, <3>1 DEF GroupsListed, GroupBlock
  <2> QED BY <1>2, <2>1, <2>5
<1>7. CASE ExportStructure
  <2>1. Same /\ (exported' = exported \/ exported' = Structure) /\ UNCHANGED <<info, positions, trackData>>
    BY <1>7 DEF ExportStructure
  <2> QED BY <1>2, <2>1
<1>8. CASE UNCHANGED sessionVars
  <2>1. Same /\ UNCHANGED <<info, positions, exported, trackData>>
    BY <1>8 DEF sessionVars
  <2> QED BY <1>2, <2>1
<1> QED BY <1>1, <1>3, <1>4, <1>5, <1>6, <1>7, <1>8 DEF SessionNext

\* What is said of one session agrees.
LEMMA SessionSays == ASSUME SessionInv PROVE SessionAligned
<1>1. SUFFICES ASSUME info # NoInfo PROVE SessionAligned
  BY DEF SessionAligned
<1>2. session \in Seq(Track) /\ info = SessionInfo /\ PositionsListed /\ GroupsListed
      /\ (exported = <<>> \/ exported = Structure)
  BY <1>1 DEF SessionInv
<1>3. "group" \in FieldSet /\ "slot" \in FieldSet
  BY FieldsAre
<1>4. ASSUME NEW t \in DOMAIN session, Sound(t)
      PROVE info["slot"][t].value = session[t].slot /\ info["group"][t].value = session[t].group
  <2>1. Before(t) /\ session[t].raises = "none"
    BY <1>4 DEF Sound
  <2>2. FieldValue(t, "slot") = session[t].slot /\ FieldValue(t, "group") = session[t].group
    BY <2>1 DEF FieldValue, Raises
  <2> QED BY <1>2, <1>3, <2>1, <2>2, FieldAligned
<1>5. \A f \in FieldSet : \A t \in DOMAIN session : Before(t) => t \in DOMAIN info[f] /\ info[f][t].of = t
  BY <1>2, FieldAligned
<1>6. Late = {} => \A f \in FieldSet : Len(info[f]) = Len(session)
  BY <1>2, FieldAligned
<1>7. \A p \in positions : Sound(p[1] + 1) => info["slot"][p[1] + 1].value = p[2]
  BY <1>2, <1>4 DEF PositionsListed
<1>8. exported # <<>> => \A t \in DOMAIN session : Sound(t) => info["group"][t].value = exported[t].group
  <2>1. \A t \in DOMAIN session : Structure[t].group = session[t].group
    BY DEF Structure
  <2> QED BY <1>2, <1>4, <2>1
<1>9. ASSUME trackData.block = <<"track.group_track">>, NEW k \in DOMAIN trackData.list, Sound(trackData.list[k].of)
      PROVE info["group"][trackData.list[k].of].value = trackData.list[k].value
  BY <1>2, <1>4, <1>9 DEF GroupsListed, GroupBlock
<1> QED BY <1>5, <1>6, <1>7, <1>8, <1>9 DEF SessionAligned

\* Whatever tracks a session has, what session_info says of one agrees with the other
\* replies, up to the first track that raises after its name was read.
THEOREM SessionAlwaysAligned == SessionSpec => []SessionAligned
<1>1. SessionInit => SessionInv
  BY SessionInitially
<1>2. SessionInv /\ [SessionNext]_sessionVars => SessionInv'
  BY SessionStep
<1>3. SessionInv => SessionAligned
  BY SessionSays
<1> QED BY <1>1, <1>2, <1>3, PTL DEF SessionSpec

------------------------------------------------------------
------------------------------------------------------------
\* Clips with a loop that Live can have.
LegalClip == {clip \in ClipRecord : clip.loopStart < clip.loopEnd}

\* The inductive invariant: all clips are legal, and all points are of earlier requests.
ClipInv ==
    /\ arrangement \in [1 .. TrackCount -> Seq(LegalClip)]
    /\ envelopes \in [CCs -> SUBSET ((1 .. MaxPoints) \X (0 .. MaxOps))]
    /\ \A cc \in CCs : \A p \in envelopes[cc] : p[2] < ops
    /\ lastOp.ok \in BOOLEAN
    /\ ops \in 0 .. MaxOps

\* A track and a clip that a request can name exist.
LEMMA ClipNamed ==
    ASSUME ClipInv, NEW i \in Int, NEW c \in Int, Named(i, c)
    PROVE /\ PythonIndex(i) \in 1 .. TrackCount
          /\ arrangement[PythonIndex(i)] \in Seq(LegalClip)
          /\ c + 1 \in 1 .. Len(arrangement[PythonIndex(i)])
          /\ ClipAt(i, c) \in LegalClip
<1> DEFINE t == PythonIndex(i)
<1>1. t \in 1 .. TrackCount
  BY TrackCountPositive DEF Named, HasTrack, PythonIndex
<1> HIDE DEF t
<1>2. arrangement[t] \in Seq(LegalClip)
  BY <1>1 DEF ClipInv
<1>3. c + 1 \in 1 .. Len(arrangement[t])
  BY <1>2 DEF Named, t
<1> QED BY <1>1, <1>2, <1>3 DEF t, ClipAt

\* A clip that is put in the place of another.
LEMMA ClipPut ==
    ASSUME ClipInv, NEW i \in Int, NEW c \in Int, Named(i, c), NEW clip \in LegalClip, PutClip(i, c, clip)
    PROVE arrangement' \in [1 .. TrackCount -> Seq(LegalClip)] /\ clip \in AllClips'
<1> DEFINE t == PythonIndex(i)
           k == c + 1
           s == arrangement[t]
           new == [s EXCEPT ![k] = clip]
<1>1. t \in 1 .. TrackCount /\ s \in Seq(LegalClip) /\ k \in 1 .. Len(s)
  BY ClipNamed
<1>2. arrangement' = [arrangement EXCEPT ![t] = new]
  BY DEF PutClip
<1> HIDE DEF t, k
<1>3. new \in Seq(LegalClip) /\ Len(new) = Len(s) /\ new[k] = clip
  BY <1>1, ExceptSeq
<1>4. arrangement \in [1 .. TrackCount -> Seq(LegalClip)]
  BY DEF ClipInv
<1> HIDE DEF new
<1>5. arrangement' \in [1 .. TrackCount -> Seq(LegalClip)] /\ arrangement'[t] = new
  BY <1>1, <1>2, <1>3, <1>4
<1>6. clip \in ToSet(arrangement'[t])
  BY <1>1, <1>3, <1>5 DEF ToSet
<1> QED BY <1>1, <1>5, <1>6 DEF AllClips

\* All clips of tracks of legal clips are legal.
LEMMA AllLegal ==
    ASSUME NEW s \in [1 .. TrackCount -> Seq(LegalClip)]
    PROVE UNION {ToSet(s[t]) : t \in 1 .. TrackCount} \subseteq LegalClip
<1>1. ASSUME NEW t \in 1 .. TrackCount, NEW clip \in ToSet(s[t]) PROVE clip \in LegalClip
  <2>1. s[t] \in Seq(LegalClip)
    OBVIOUS
  <2> QED BY <1>1, <2>1 DEF ToSet
<1> QED BY <1>1

\* What a request leaves alone.
LEMMA EnvelopesKept ==
    ASSUME ClipInv, CountOp, UNCHANGED envelopes, arrangement' \in [1 .. TrackCount -> Seq(LegalClip)], lastOp'.ok \in BOOLEAN
    PROVE ClipInv'
<1>1. ops \in Nat /\ ops' = ops + 1 /\ ops' \in 0 .. MaxOps
  BY RequestsAreNumbers DEF ClipInv, CountOp
<1>2. ASSUME NEW cc \in CCs, NEW p \in envelopes[cc] PROVE p[2] < ops'
  <2>1. p \in (1 .. MaxPoints) \X (0 .. MaxOps) /\ p[2] < ops
    BY DEF ClipInv
  <2> QED BY <1>1, <2>1
<1> QED BY <1>1, <1>2 DEF ClipInv

Other == lastOp'.op \notin {"loop", "add", "envelope"}

\* The property is about three requests; what the others do satisfies it.
LEMMA OtherAsAsked == ASSUME Other PROVE LegalLoopSet /\ NotesAsSent /\ EnvelopeCounted
  BY DEF Other, LegalLoopSet, NotesAsSent, EnvelopeCounted

\* What is recorded of a request that is done.
LEMMA DoneIs ==
    ASSUME NEW op, NEW ok, NEW reply, NEW args, NEW clip, Done(op, ok, reply, args, clip)
    PROVE /\ lastOp'.op = op /\ lastOp'.ok = ok /\ lastOp'.reply = reply
          /\ lastOp'.args = args /\ lastOp'.clip = clip
  BY DEF Done

------------------------------------------------------------
\* The pieces of a sequence of which each has w elements, but maybe the last.
LEMMA Pieces ==
    ASSUME NEW D, NEW v \in Seq(D), NEW w \in Nat \ {0}
    PROVE LET n == (Len(v) + w - 1) \div w
              pieces == [k \in 1 .. n |-> SubSeq(v, (k - 1) * w + 1, Min({k * w, Len(v)}))]
          IN n \in Nat /\ pieces \in Seq(Seq(D)) /\ Len(pieces) = n
<1> DEFINE len == Len(v)
           n == (len + w - 1) \div w
           pieces == [k \in 1 .. n |-> SubSeq(v, (k - 1) * w + 1, Min({k * w, len}))]
<1>1. len \in Nat /\ len + w - 1 \in Nat
  OBVIOUS
<1>2. n \in Nat
  BY <1>1, Division
<1> HIDE DEF len, n
<1>3. ASSUME NEW k \in 1 .. n PROVE SubSeq(v, (k - 1) * w + 1, Min({k * w, len})) \in Seq(D)
  <2> DEFINE a == (k - 1) * w
             b == k * w
             last == Min({b, len})
  <2>1. a \in Int /\ 0 <= a /\ b \in Int
    <3>1. 0 * w <= (k - 1) * w /\ 0 * w = 0
      BY <1>2, ProductGrows
    <3> QED BY <1>2, <3>1
  <2> HIDE DEF a, b
  <2>2. last \in Int /\ last <= len
    <3>1. b \in Int /\ len \in Int
      BY <1>1, <2>1
    <3>2. Min({b, len}) = IF b <= len THEN b ELSE len
      BY <3>1, Pair
    <3> QED BY <3>1, <3>2
  <2> HIDE DEF last
  <2>3. a + 1 \in Int /\ \A i \in a + 1 .. last : i \in 1 .. len
    BY <1>1, <2>1, <2>2
  <2>4. \A i \in a + 1 .. last : v[i] \in D
    BY <2>3 DEF len
  <2>5. SubSeq(v, a + 1, last) \in Seq(D)
    BY <2>2, <2>3, <2>4, SubSeqProperties
  <2> QED BY <2>5 DEF last, a, b
<1>4. pieces = [k \in 1 .. n |-> pieces[k]]
  OBVIOUS
<1>5. \A k \in 1 .. n : pieces[k] \in Seq(D)
  BY <1>3
<1> HIDE DEF pieces
<1>6. pieces \in Seq(Seq(D)) /\ Len(pieces) = n
  <2> DEFINE S == Seq(D)
  <2> HIDE DEF S
  <2>1. \A k \in 1 .. n : pieces[k] \in S
    BY <1>5 DEF S
  <2>2. pieces \in Seq(S) /\ Len(pieces) = n
    BY <1>2, <1>4, <2>1, IsSequence
  <2> QED BY <2>2 DEF S
<1> QED BY <1>2, <1>6 DEF pieces, n, len

\* A note is read as five or six values.
LEMMA StepWidth == ASSUME NEW n \in Nat PROVE Step(n) \in {5, 6} /\ Step(n) \in Nat \ {0}
  BY DEF Step

\* The values of a request are cut into as many notes as its length tells.
LEMMA ChunksTyped ==
    ASSUME NEW v \in Seq(Int)
    PROVE Chunks(v) \in Seq(Seq(Int)) /\ Len(Chunks(v)) = (Len(v) + Step(Len(v)) - 1) \div Step(Len(v))
          /\ Len(Chunks(v)) \in Nat
<1> DEFINE w == Step(Len(v))
           n == (Len(v) + w - 1) \div w
<1>1. w \in Nat \ {0}
  <2>1. Len(v) \in Nat
    OBVIOUS
  <2> QED BY <2>1, StepWidth
<1>2. Chunks(v) = [k \in 1 .. n |-> SubSeq(v, (k - 1) * w + 1, Min({k * w, Len(v)}))]
  BY DEF Chunks
<1> HIDE DEF w
<1>3. n \in Nat /\ Chunks(v) \in Seq(Seq(Int)) /\ Len(Chunks(v)) = n
  BY <1>1, <1>2, Pieces
<1> QED BY <1>3 DEF w

SpecsOf(v) == [k \in DOMAIN Chunks(v) |-> Specification(Chunks(v)[k])]

\* Each of them is a specification of a note.
LEMMA SpecsTyped ==
    ASSUME NEW v \in Seq(Int)
    PROVE SpecsOf(v) \in Seq(Seq(Int))
<1> DEFINE n == Len(Chunks(v))
           S == Seq(Int)
<1>1. n \in Nat /\ DOMAIN Chunks(v) = 1 .. n
  BY ChunksTyped
<1>2. ASSUME NEW k \in 1 .. n PROVE Specification(Chunks(v)[k]) \in S
  <2>1. Chunks(v)[k] \in Seq(Int)
    BY ChunksTyped
  <2> QED BY <2>1 DEF Specification, DefaultProbability
<1>3. SpecsOf(v) = [k \in 1 .. n |-> SpecsOf(v)[k]] /\ \A k \in 1 .. n : SpecsOf(v)[k] \in S
  BY <1>1, <1>2 DEF SpecsOf
<1> HIDE DEF n, S
<1>4. SpecsOf(v) \in Seq(S)
  BY <1>1, <1>3, IsSequence
<1> QED BY <1>4 DEF S

\* A note is sent as w values.
LEMMA WireTyped ==
    ASSUME NEW p \in Int, NEW w \in {5, 6}
    PROVE Wire(p, w) \in Seq(Int) /\ Len(Wire(p, w)) = w /\ \A j \in 1 .. w : Wire(p, w)[j] \in Int
<1> DEFINE f == Wire(p, w)
<1>1. f = [k \in 1 .. w |-> f[k]] /\ w \in Nat
  BY DEF Wire
<1>2. ASSUME NEW k \in 1 .. w PROVE f[k] \in Int
  BY DEF Wire
<1> HIDE DEF f
<1>3. f \in Seq(Int) /\ Len(f) = w
  BY <1>1, <1>2, IsSequence
<1> QED BY <1>2, <1>3 DEF f

------------------------------------------------------------
Whole(pitches, w) == FlattenSeq([k \in DOMAIN pitches |-> Wire(pitches[k], w)])

SideBySide(v, pitches, w) ==
    /\ Len(v) = Len(pitches) * w
    /\ \A k \in 1 .. Len(pitches) : \A j \in 1 .. w : v[(k - 1) * w + j] = Wire(pitches[k], w)[j]

\* Notes of w values, side by side.
LEMMA WholeTyped ==
    ASSUME NEW pitches \in Seq(Int), NEW w \in {5, 6}
    PROVE Whole(pitches, w) \in Seq(Int) /\ SideBySide(Whole(pitches, w), pitches, w)
<1> DEFINE n == Len(pitches)
           e == [k \in DOMAIN pitches |-> Wire(pitches[k], w)]
           S == Seq(Int)
<1>1. n \in Nat /\ DOMAIN pitches = 1 .. n /\ w \in Nat
  OBVIOUS
<1>2. ASSUME NEW k \in 1 .. n PROVE e[k] = Wire(pitches[k], w) /\ e[k] \in S /\ Len(e[k]) = w
  <2>1. pitches[k] \in Int
    OBVIOUS
  <2> QED BY <1>1, <2>1, WireTyped
<1>3. e = [k \in 1 .. n |-> e[k]]
  BY <1>1
<1> HIDE DEF e, n, S
<1>4. e \in Seq(S) /\ Len(e) = n
  BY <1>1, <1>2, <1>3, IsSequence
<1>5. e \in Seq(Seq(Int)) /\ \A k \in 1 .. Len(e) : Len(e[k]) = w
  BY <1>2, <1>4 DEF S
<1>6. /\ FlattenSeq(e) \in Seq(Int) /\ Len(FlattenSeq(e)) = Len(e) * w
      /\ \A k \in 1 .. Len(e) : \A j \in 1 .. w : FlattenSeq(e)[(k - 1) * w + j] = e[k][j]
  BY <1>1, <1>5, FlattenUniform, ZenonT(30)
<1>7. Whole(pitches, w) = FlattenSeq(e)
  BY DEF Whole, e
<1>8. \A k \in 1 .. n : e[k] = Wire(pitches[k], w)
  BY <1>2
<1> DEFINE v == FlattenSeq(e)
<1> HIDE DEF v
<1>9. v \in Seq(Int) /\ SideBySide(v, pitches, w)
  <2>1. v \in Seq(Int) /\ Len(v) = n * w
    BY <1>4, <1>6 DEF v
  <2>2. ASSUME NEW k \in 1 .. n, NEW j \in 1 .. w PROVE v[(k - 1) * w + j] = Wire(pitches[k], w)[j]
    <3>1. v[(k - 1) * w + j] = e[k][j]
      BY <1>4, <1>6 DEF v
    <3> QED BY <1>8, <3>1
  <2> QED BY <2>1, <2>2, Zenon DEF n, SideBySide
<1> QED BY <1>7, <1>9 DEF v

Understood(w, n) == w = 6 \/ n % 6 # 0

\* The width is read as it was sent, unless five values look like six.
LEMMA StepTold ==
    ASSUME NEW n \in Nat, NEW w \in {5, 6}, Understood(w, n), n # 0
    PROVE Step(n * w) = w /\ (n * w + w - 1) \div w = n
<1>1. CASE w = 5
  <2>1. n % 6 # 0
    BY <1>1 DEF Understood
  <2>2. (n * 5) % 6 # 0
    BY <2>1
  <2>3. (n * 5 + 5 - 1) \div 5 = n
    OBVIOUS
  <2> QED BY <1>1, <2>2, <2>3 DEF Step
<1>2. CASE w = 6
  <2>1. (n * 6) % 6 = 0 /\ n * 6 >= 6
    OBVIOUS
  <2>2. (n * 6 + 6 - 1) \div 6 = n
    OBVIOUS
  <2> QED BY <1>2, <2>1, <2>2 DEF Step
<1> QED BY <1>1, <1>2

\* Notes of w values each, side by side, are cut where they meet.
LEMMA WholeUnderstood ==
    ASSUME NEW pitches \in Seq(Int), NEW w \in {5, 6}, Understood(w, Len(pitches))
    PROVE Chunks(Whole(pitches, w)) = [k \in 1 .. Len(pitches) |-> Wire(pitches[k], w)]
<1> DEFINE n == Len(pitches)
           v == Whole(pitches, w)
           m == n * w
<1>1. n \in Nat /\ w \in Nat /\ v \in Seq(Int) /\ Len(v) = m
      /\ \A k \in 1 .. n : \A j \in 1 .. w : v[(k - 1) * w + j] = Wire(pitches[k], w)[j]
  <2>1. v \in Seq(Int) /\ SideBySide(v, pitches, w)
    BY WholeTyped
  <2> HIDE DEF v
  <2>2. n \in Nat /\ w \in Nat
    OBVIOUS
  <2> QED BY <2>1, <2>2 DEF SideBySide
<1>2. Len(v) \in Nat /\ m \in Nat
  BY <1>1
<1> HIDE DEF v
<1>3. CASE n = 0
  <2>1. m = 0 /\ Step(m) = 5
    BY <1>1, <1>3 DEF Step
  <2>2. (m + 5 - 1) \div 5 = 0
    BY <2>1
  <2>3. Chunks(v) = [k \in 1 .. 0 |-> SubSeq(v, (k - 1) * 5 + 1, Min({k * 5, 0}))]
    BY <1>1, <2>1, <2>2 DEF Chunks
  <2>4. 1 .. 0 = {}
    OBVIOUS
  <2> QED BY <1>3, <2>3, <2>4 DEF v
<1>4. CASE n # 0
  <2>1. Step(m) = w /\ (m + w - 1) \div w = n
    BY <1>1, <1>4, StepTold
  <2> HIDE DEF m
  <2>2. Chunks(v) = [k \in 1 .. n |-> SubSeq(v, (k - 1) * w + 1, Min({k * w, m}))]
    BY <1>1, <2>1 DEF Chunks
  <2>3. ASSUME NEW k \in 1 .. n PROVE SubSeq(v, (k - 1) * w + 1, Min({k * w, m})) = Wire(pitches[k], w)
    <3> DEFINE a == (k - 1) * w
               b == k * w
               p == Wire(pitches[k], w)
    <3>1. a \in Nat /\ b = a + w /\ b <= m
      <4>1. 0 * w <= (k - 1) * w /\ 0 * w = 0 /\ k * w <= n * w
        BY <1>1, ProductGrows
      <4>2. (k - 1 + 1) * w = (k - 1) * w + w /\ (k - 1) * w \in Int /\ k - 1 + 1 = k
        BY <1>1, ProductNext
      <4> QED BY <4>1, <4>2 DEF m
    <3>2. \A j \in 1 .. w : v[a + j] = p[j]
      BY <1>1
    <3>3. p \in Seq(Int) /\ Len(p) = w
      <4>1. pitches[k] \in Int
        OBVIOUS
      <4> QED BY <4>1, WireTyped
    <3> HIDE DEF a, b, p
    <3>4. Min({b, m}) = b
      <4>1. b \in Int /\ m \in Int
        BY <1>1, <1>2, <3>1
      <4>2. Min({b, m}) = IF b <= m THEN b ELSE m
        BY <4>1, Pair
      <4> QED BY <3>1, <4>2
    <3>5. \A i \in a + 1 .. b : v[i] \in Int
      <4>1. \A i \in a + 1 .. b : i \in 1 .. m
        BY <1>1, <1>2, <3>1
      <4> QED BY <1>1, <4>1
    <3> DEFINE q == SubSeq(v, a + 1, b)
    <3>6. q \in Seq(Int) /\ Len(q) = w /\ \A j \in 1 .. w : q[j] = v[a + j]
      <4>1. a + 1 \in Int /\ b \in Int /\ a + 1 <= b /\ b - (a + 1) + 1 = w
        <5>1. w \in {5, 6} /\ a \in Nat /\ b = a + w
          BY <3>1
        <5> QED BY <5>1
      <4>2. /\ q \in Seq(Int)
            /\ Len(q) = IF a + 1 <= b THEN b - (a + 1) + 1 ELSE 0
            /\ \A i \in 1 .. b - (a + 1) + 1 : q[i] = v[a + 1 + i - 1]
        BY <3>5, <4>1, SubSeqProperties, SMTT(30)
      <4>3. \A j \in 1 .. w : a + 1 + j - 1 = a + j
        BY <3>1
      <4> HIDE DEF q
      <4> QED BY <4>1, <4>2, <4>3
    <3> HIDE DEF q
    <3>7. q = p
      BY <3>2, <3>3, <3>6, SeqEqual
    <3> QED BY <3>4, <3>7 DEF q, a, b, p
  <2> QED BY <2>2, <2>3 DEF v
<1> QED BY <1>3, <1>4

------------------------------------------------------------
AsAsked == LegalLoopSet /\ NotesAsSent /\ EnvelopeCounted

\* Each action keeps the clips legal and does as asked; here the notes that are added.
LEMMA AddNotesStep ==
    ASSUME ClipInv, NEW i \in Int, NEW c \in Int, NEW pitches \in Seq(Int), NEW w \in {5, 6}, NEW cut \in Nat,
           AddNotes(i, c, pitches, w, cut)
    PROVE ClipInv' /\ AsAsked
<1> DEFINE whole == Whole(pitches, w)
           values == SubSeq(whole, 1, Max({0, Len(whole) - cut}))
           specs == SpecsOf(values)
           args == [pitches |-> pitches, fields |-> w, cut |-> cut]
           clip == ClipAt(i, c)
           longer == [clip EXCEPT !.notes = @ \o specs]
<1>1. Named(i, c) /\ CountOp /\ UNCHANGED envelopes
  BY DEF AddNotes
<1>2. \/ /\ \E k \in DOMAIN Chunks(values) : Len(Chunks(values)[k]) < 5
         /\ Done("add", FALSE, Malformed, args, clip) /\ UNCHANGED arrangement
      \/ /\ PutClip(i, c, longer)
         /\ Done("add", TRUE, Len(specs), args, clip)
      \/ Done("add", FALSE, 0, args, clip) /\ UNCHANGED arrangement
  BY DEF AddNotes, Whole, SpecsOf
<1>3. whole \in Seq(Int)
  BY WholeTyped
<1>4. values \in Seq(Int) /\ (cut = 0 => values = whole)
  <2> DEFINE n == Len(whole) - cut
             last == Max({0, n})
  <2>1. Len(whole) \in Nat /\ n \in Int
    BY <1>3
  <2> HIDE DEF n
  <2>2. last = IF 0 >= n THEN 0 ELSE n
    BY <2>1, Pair
  <2>3. last \in 0 .. Len(whole) /\ (cut = 0 => last = Len(whole))
    BY <2>1, <2>2 DEF n
  <2> HIDE DEF whole, last
  <2> QED BY <1>3, <2>3, Prefix, PrefixAll DEF last, n
<1> HIDE DEF values, whole
<1>5. specs \in Seq(Seq(Int))
  BY <1>4, SpecsTyped
<1> HIDE DEF specs
<1>6. clip \in LegalClip
  BY <1>1, ClipNamed
<1> HIDE DEF clip
<1>7. longer \in LegalClip
  <2>1. clip \in ClipRecord /\ clip.loopStart < clip.loopEnd /\ clip.notes \in Seq(Seq(Int))
    BY <1>6 DEF LegalClip, ClipRecord
  <2>2. clip.notes \o specs \in Seq(Seq(Int))
    BY <1>5, <2>1, Joined
  <2> DEFINE notes_ == clip.notes \o specs
  <2> HIDE DEF notes_
  <2>3. [clip EXCEPT !.notes = notes_] \in ClipRecord
    BY <2>1, <2>2 DEF ClipRecord, notes_
  <2>4. [clip EXCEPT !.notes = notes_].loopStart = clip.loopStart /\ [clip EXCEPT !.notes = notes_].loopEnd = clip.loopEnd
    BY <2>1 DEF ClipRecord
  <2> QED BY <2>1, <2>3, <2>4 DEF LegalClip, notes_
<1> DEFINE sent == lastOp'.args
           n == Len(sent.pitches)
           added == [k \in 1 .. n |-> Specification(Wire(sent.pitches[k], sent.fields))]
<1>8. lastOp'.op = "add" /\ lastOp'.args = args /\ lastOp'.clip = clip /\ lastOp'.ok \in BOOLEAN
  BY <1>2, DoneIs, ZenonT(30)
<1>9. sent.pitches = pitches /\ sent.fields = w /\ sent.cut = cut
  BY <1>8
<1>10. ASSUME cut = 0, Understood(w, Len(pitches))
       PROVE specs = added /\ \A k \in DOMAIN Chunks(values) : ~(Len(Chunks(values)[k]) < 5)
  <2>1. Chunks(values) = [k \in 1 .. Len(pitches) |-> Wire(pitches[k], w)]
    BY <1>4, <1>10, WholeUnderstood DEF whole
  <2>2. specs = added
    BY <1>9, <2>1 DEF specs, SpecsOf
  <2>3. ASSUME NEW k \in DOMAIN Chunks(values) PROVE ~(Len(Chunks(values)[k]) < 5)
    <3>1. k \in 1 .. Len(pitches) /\ pitches[k] \in Int /\ Chunks(values)[k] = Wire(pitches[k], w)
      BY <2>1
    <3>2. Len(Wire(pitches[k], w)) = w
      BY <3>1, WireTyped
    <3> QED BY <3>1, <3>2
  <2> QED BY <2>2, <2>3
<1> HIDE DEF added
<1>11. /\ arrangement' \in [1 .. TrackCount -> Seq(LegalClip)]
       /\ ~lastOp'.ok => arrangement' = arrangement
       /\ cut = 0 /\ Understood(w, Len(pitches)) =>
              IF lastOp'.ok THEN [clip EXCEPT !.notes = @ \o added] \in AllClips' ELSE lastOp'.reply # Malformed
  <2>1. CASE /\ \E k \in DOMAIN Chunks(values) : Len(Chunks(values)[k]) < 5
             /\ Done("add", FALSE, Malformed, args, clip) /\ UNCHANGED arrangement
    BY <1>10, <2>1 DEF ClipInv, Done
  <2>2. CASE PutClip(i, c, longer) /\ Done("add", TRUE, Len(specs), args, clip)
    <3>1. arrangement' \in [1 .. TrackCount -> Seq(LegalClip)] /\ longer \in AllClips'
      BY <1>1, <1>7, <2>2, ClipPut
    <3>2. lastOp'.ok = TRUE
      BY <2>2, DoneIs, ZenonT(30)
    <3> QED BY <1>10, <3>1, <3>2
  <2>3. CASE Done("add", FALSE, 0, args, clip) /\ UNCHANGED arrangement
    <3>1. lastOp'.ok = FALSE /\ lastOp'.reply = 0
      BY <2>3, DoneIs, ZenonT(30)
    <3> QED BY <2>3, <3>1 DEF ClipInv, Malformed
  <2> QED BY <1>2, <2>1, <2>2, <2>3
<1>12. ClipInv'
  BY <1>1, <1>8, <1>11, EnvelopesKept
<1>13. NotesAsSent
  BY <1>8, <1>9, <1>11 DEF NotesAsSent, Understood, added
<1>14. LegalLoopSet /\ EnvelopeCounted
  BY <1>8 DEF LegalLoopSet, EnvelopeCounted
<1> QED BY <1>12, <1>13, <1>14 DEF AsAsked

LEMMA RemoveNotesStep ==
    ASSUME ClipInv, NEW i \in Int, NEW c \in Int, NEW w, RemoveNotes(i, c, w)
    PROVE ClipInv' /\ AsAsked
<1> DEFINE clip == ClipAt(i, c)
           list == clip.notes
           from == IF w = <<>> THEN 0 ELSE w[1]
           span == IF w = <<>> THEN 127 ELSE w[2]
           Kept(n) == IF n[1] \in from .. from + span - 1 THEN <<>> ELSE <<n>>
           parts == [k \in DOMAIN list |-> Kept(list[k])]
           less == FlattenSeq(parts)
<1>1. Named(i, c) /\ CountOp /\ UNCHANGED envelopes /\ Done("remove", TRUE, 0, w, clip)
      /\ PutClip(i, c, [clip EXCEPT !.notes = less])
  BY DEF RemoveNotes
<1>2. clip \in LegalClip
  BY <1>1, ClipNamed
<1> HIDE DEF clip, from, span
<1>3. clip \in ClipRecord /\ list \in Seq(Seq(Int))
  BY <1>2 DEF LegalClip, ClipRecord
<1>4. less \in Seq(Seq(Int))
  <2> DEFINE S == Seq(Int)
             n == Len(list)
             Q == Seq(S)
  <2> HIDE DEF S, list
  <2>1. n \in Nat /\ DOMAIN list = 1 .. n /\ \A k \in 1 .. n : list[k] \in S
    BY <1>3 DEF S
  <2>2. ASSUME NEW k \in 1 .. n PROVE parts[k] \in Q
    BY <2>1
  <2>3. parts = [k \in 1 .. n |-> parts[k]]
    BY <2>1
  <2> HIDE DEF parts, n, Q
  <2>4. parts \in Seq(Q)
    BY <2>1, <2>2, <2>3, IsSequence
  <2> QED BY <2>4, FlattenTyped DEF Q, S
<1> HIDE DEF less
<1>5. [clip EXCEPT !.notes = less] \in LegalClip
  BY <1>2, <1>4 DEF LegalClip, ClipRecord
<1>6. lastOp'.op = "remove" /\ lastOp'.ok = TRUE
  BY <1>1, DoneIs
<1>7. arrangement' \in [1 .. TrackCount -> Seq(LegalClip)]
  BY <1>1, <1>5, ClipPut
<1> QED BY <1>1, <1>6, <1>7, EnvelopesKept, OtherAsAsked DEF Other, AsAsked

\* The two writes leave a loop that Live can have; if they are of a start before an
\* end, neither is refused, and the loop is the one that was asked for.
LEMMA WrittenLegal ==
    ASSUME NEW clip \in LegalClip, NEW start \in Int, NEW end \in Int
    PROVE LET written == LoopWritten(clip, start, end)
          IN /\ written.ok \in BOOLEAN /\ written.clip \in LegalClip
             /\ start < end => written.ok /\ written.clip = [clip EXCEPT !.loopStart = start, !.loopEnd = end]
<1> DEFINE s == clip.loopStart
           e == clip.loopEnd
           r == clip.notes
           g == clip.looping
           Loop(a, b) == [notes |-> r, loopStart |-> a, loopEnd |-> b, looping |-> g]
<1>1. clip = Loop(s, e) /\ s \in Int /\ e \in Int /\ s < e /\ g \in BOOLEAN /\ r \in Seq(Seq(Int))
  BY DEF LegalClip, ClipRecord
<1>3. [clip EXCEPT !.loopStart = start, !.loopEnd = end] = Loop(start, end)
  <2> DEFINE x == [clip EXCEPT !.loopStart = start, !.loopEnd = end]
  <2>1. /\ x \in ClipRecord /\ x.notes = clip.notes /\ x.loopStart = start
        /\ x.loopEnd = end /\ x.looping = clip.looping
    BY DEF LegalClip, ClipRecord
  <2> HIDE DEF x
  <2>2. x = [notes |-> x.notes, loopStart |-> x.loopStart, loopEnd |-> x.loopEnd, looping |-> x.looping]
    BY <2>1 DEF ClipRecord
  <2>3. x = Loop(start, end)
    BY <2>1, <2>2
  <2> QED BY <2>3 DEF x
<1> HIDE DEF s, e, r, g
<1>2. ASSUME NEW a \in Int, NEW b \in Int, a < b PROVE Loop(a, b) \in LegalClip
  BY <1>1, <1>2 DEF LegalClip, ClipRecord
<1>4. ASSUME NEW a \in Int, NEW b \in Int
      PROVE /\ start < b => SetStart(Loop(a, b), start) = [ok |-> TRUE, clip |-> Loop(start, b)]
            /\ ~(start < b) => SetStart(Loop(a, b), start) = [ok |-> FALSE, clip |-> Loop(a, b)]
  BY DEF SetStart
<1>5. ASSUME NEW a \in Int, NEW b \in Int
      PROVE /\ end > a => SetEnd(Loop(a, b), end) = [ok |-> TRUE, clip |-> Loop(a, end)]
            /\ ~(end > a) => SetEnd(Loop(a, b), end) = [ok |-> FALSE, clip |-> Loop(a, b)]
  BY DEF SetEnd
<1>6. ASSUME NEW a \in Int, NEW b \in Int PROVE EndFirst(Loop(a, b), end) <=> end > a
  BY DEF EndFirst
<1>7. ASSUME NEW result, NEW a \in Int, NEW b \in Int, NEW ok \in BOOLEAN, result = [ok |-> ok, clip |-> Loop(a, b)]
      PROVE result.ok = ok /\ result.clip = Loop(a, b)
  BY <1>7
<1> DEFINE written == LoopWritten(clip, start, end)
           Legal == /\ written.ok \in BOOLEAN /\ written.clip \in LegalClip
                    /\ start < end => written.ok /\ written.clip = Loop(start, end)
<1> HIDE DEF Loop
<1>8. ASSUME end > s PROVE Legal
  <2>1. EndFirst(clip, end) /\ SetEnd(clip, end) = [ok |-> TRUE, clip |-> Loop(s, end)]
    BY <1>1, <1>5, <1>6, <1>8
  <2>2. SetEnd(clip, end).ok = TRUE /\ SetEnd(clip, end).clip = Loop(s, end)
    BY <1>1, <1>7, <2>1
  <2>3. written = SetStart(Loop(s, end), start)
    BY <2>1, <2>2 DEF LoopWritten
  <2> HIDE DEF written
  <2>4. CASE start < end
    <3>1. written = [ok |-> TRUE, clip |-> Loop(start, end)]
      BY <1>1, <1>4, <2>3, <2>4
    <3>2. written.ok = TRUE /\ written.clip = Loop(start, end)
      BY <1>7, <3>1
    <3> QED BY <1>2, <2>4, <3>2
  <2>5. CASE ~(start < end)
    <3>1. written = [ok |-> FALSE, clip |-> Loop(s, end)]
      BY <1>1, <1>4, <2>3, <2>5
    <3>2. written.ok = FALSE /\ written.clip = Loop(s, end)
      BY <1>1, <1>7, <3>1
    <3> QED BY <1>1, <1>2, <1>8, <2>5, <3>2
  <2> QED BY <2>4, <2>5
<1>9. ASSUME ~(end > s) PROVE Legal
  <2>1. ~EndFirst(clip, end)
    BY <1>1, <1>6, <1>9
  <2>2. CASE start < e
    <3>1. SetStart(clip, start) = [ok |-> TRUE, clip |-> Loop(start, e)]
      BY <1>1, <1>4, <2>2
    <3>2. SetStart(clip, start).ok = TRUE /\ SetStart(clip, start).clip = Loop(start, e)
      BY <1>1, <1>7, <3>1
    <3>3. written = SetEnd(Loop(start, e), end)
      BY <2>1, <3>2 DEF LoopWritten
    <3> HIDE DEF written
    <3>4. CASE end > start
      <4>1. written = [ok |-> TRUE, clip |-> Loop(start, end)]
        BY <1>1, <1>5, <3>3, <3>4
      <4>2. written.ok = TRUE /\ written.clip = Loop(start, end)
        BY <1>7, <4>1
      <4> QED BY <1>2, <3>4, <4>2
    <3>5. CASE ~(end > start)
      <4>1. written = [ok |-> FALSE, clip |-> Loop(start, e)]
        BY <1>1, <1>5, <3>3, <3>5
      <4>2. written.ok = FALSE /\ written.clip = Loop(start, e)
        BY <1>1, <1>7, <4>1
      <4> QED BY <1>1, <1>2, <2>2, <3>5, <4>2
    <3> QED BY <3>4, <3>5
  <2>3. CASE ~(start < e)
    <3>1. SetStart(clip, start) = [ok |-> FALSE, clip |-> Loop(s, e)]
      BY <1>1, <1>4, <2>3
    <3>2. SetStart(clip, start).ok = FALSE /\ SetStart(clip, start).clip = Loop(s, e)
      BY <1>1, <1>7, <3>1
    <3>3. written = SetStart(clip, start)
      BY <2>1, <3>2 DEF LoopWritten
    <3> HIDE DEF written
    <3>4. ~(start < end)
      BY <1>1, <1>9, <2>3
    <3> QED BY <1>1, <1>2, <3>2, <3>3, <3>4
  <2> QED BY <2>2, <2>3
<1>10. Legal
  BY <1>8, <1>9
<1> QED BY <1>3, <1>10

LEMMA SetLoopStep ==
    ASSUME ClipInv, NEW i \in Int, NEW c \in Int, NEW looping \in BOOLEAN, NEW start \in Int, NEW end \in Int,
           SetLoop(i, c, looping, start, end)
    PROVE ClipInv' /\ AsAsked
<1> DEFINE clip == ClipAt(i, c)
           written == LoopWritten(clip, start, end)
           new == IF written.ok THEN [written.clip EXCEPT !.looping = looping] ELSE written.clip
           asked == [looping |-> looping, start |-> start, end |-> end]
<1>1. Named(i, c) /\ CountOp /\ UNCHANGED envelopes /\ PutClip(i, c, new) /\ Done("loop", written.ok, 0, asked, clip)
  BY DEF SetLoop
<1>2. clip \in LegalClip
  BY <1>1, ClipNamed
<1> HIDE DEF clip
<1>3. /\ written.ok \in BOOLEAN /\ written.clip \in LegalClip
      /\ start < end => written.ok /\ written.clip = [clip EXCEPT !.loopStart = start, !.loopEnd = end]
  BY <1>2, WrittenLegal
<1> HIDE DEF written
<1>4. new \in LegalClip
  BY <1>3 DEF LegalClip, ClipRecord
<1>5. start < end => new = [clip EXCEPT !.loopStart = start, !.loopEnd = end, !.looping = looping]
  BY <1>2, <1>3 DEF LegalClip, ClipRecord
<1> HIDE DEF new
<1>6. arrangement' \in [1 .. TrackCount -> Seq(LegalClip)] /\ new \in AllClips'
  BY <1>1, <1>4, ClipPut
<1>7. /\ lastOp'.op = "loop" /\ lastOp'.ok = written.ok /\ lastOp'.clip = clip
      /\ lastOp'.args.start = start /\ lastOp'.args.end = end /\ lastOp'.args.looping = looping
  <2>1. lastOp'.op = "loop" /\ lastOp'.ok = written.ok /\ lastOp'.clip = clip /\ lastOp'.args = asked
    BY <1>1, DoneIs
  <2> QED BY <2>1
<1>8. AllClips' \subseteq LegalClip
  BY <1>6, AllLegal DEF AllClips
<1>9. LegalLoopSet
  BY <1>3, <1>5, <1>6, <1>7, <1>8 DEF LegalLoopSet, LegalClip
<1>10. NotesAsSent /\ EnvelopeCounted
  BY <1>7 DEF NotesAsSent, EnvelopeCounted
<1>11. ClipInv'
  BY <1>1, <1>3, <1>6, <1>7, EnvelopesKept
<1> QED BY <1>9, <1>10, <1>11 DEF AsAsked

------------------------------------------------------------
\* A sequence with one element more.
LEMMA InsertTyped ==
    ASSUME NEW D, NEW s \in Seq(D), NEW k \in 1 .. Len(s) + 1, NEW e \in D
    PROVE InsertAt(s, k, e) \in Seq(D)
<1>1. SubSeq(s, 1, k - 1) \in Seq(D)
  <2>1. k - 1 \in 0 .. Len(s)
    OBVIOUS
  <2> QED BY <2>1, Prefix
<1>2. SubSeq(s, k, Len(s)) \in Seq(D)
  <2>1. k \in Int /\ Len(s) \in Int /\ \A j \in k .. Len(s) : s[j] \in D
    OBVIOUS
  <2> QED BY <2>1, SubSeqProperties
<1> QED BY <1>1, <1>2 DEF InsertAt

\* A sequence with one element less.
LEMMA RemoveTyped ==
    ASSUME NEW D, NEW s \in Seq(D), NEW k \in 1 .. Len(s)
    PROVE RemoveAt(s, k) \in Seq(D)
<1>1. SubSeq(s, 1, k - 1) \in Seq(D)
  <2>1. k - 1 \in 0 .. Len(s)
    OBVIOUS
  <2> QED BY <2>1, Prefix
<1>2. SubSeq(s, k + 1, Len(s)) \in Seq(D)
  <2>1. k + 1 \in Int /\ Len(s) \in Int /\ \A j \in k + 1 .. Len(s) : s[j] \in D
    OBVIOUS
  <2> QED BY <2>1, SubSeqProperties
<1> QED BY <1>1, <1>2 DEF RemoveAt

LEMMA CreateClipStep ==
    ASSUME ClipInv, NEW i \in Int, NEW start \in Int, NEW length \in Int, length > 0, CreateClip(i, start, length)
    PROVE ClipInv' /\ AsAsked
<1> DEFINE t == PythonIndex(i)
           new == NewClip(start, length)
<1>1. CountOp /\ UNCHANGED envelopes
  BY DEF CreateClip
<1>2. new \in LegalClip
  <2>1. <<>> \in Seq(Seq(Int)) /\ start + length \in Int /\ start < start + length
    OBVIOUS
  <2> QED BY <2>1 DEF NewClip, LegalClip, ClipRecord
<1> HIDE DEF new
<1>3. CASE HasTrack(i)
  <2>1. t \in 1 .. TrackCount
    BY <1>3, TrackCountPositive DEF HasTrack, PythonIndex
  <2>2. PICK k \in 1 .. Len(arrangement[t]) + 1 : arrangement' = [arrangement EXCEPT ![t] = InsertAt(@, k, new)]
    BY <1>3 DEF CreateClip, new
  <2>3. lastOp'.op = "create" /\ lastOp'.ok = TRUE
    BY <1>3, DoneIs DEF CreateClip
  <2> HIDE DEF t
  <2>4. InsertAt(arrangement[t], k, new) \in Seq(LegalClip)
    <3>1. arrangement[t] \in Seq(LegalClip)
      BY <2>1 DEF ClipInv
    <3> QED BY <1>2, <3>1, InsertTyped
  <2>5. arrangement' \in [1 .. TrackCount -> Seq(LegalClip)]
    BY <2>1, <2>2, <2>4 DEF ClipInv
  <2> QED BY <1>1, <2>3, <2>5, EnvelopesKept, OtherAsAsked DEF Other, AsAsked
<1>4. CASE ~HasTrack(i)
  <2>1. arrangement' = arrangement /\ Done("create", FALSE, 0, <<i>>, <<>>)
    BY <1>4 DEF CreateClip
  <2>2. lastOp'.op = "create" /\ lastOp'.ok = FALSE
    BY <2>1, DoneIs
  <2>3. arrangement' \in [1 .. TrackCount -> Seq(LegalClip)]
    BY <2>1 DEF ClipInv
  <2> QED BY <1>1, <2>2, <2>3, EnvelopesKept, OtherAsAsked DEF Other, AsAsked
<1> QED BY <1>3, <1>4

LEMMA DeleteClipStep ==
    ASSUME ClipInv, NEW i \in Int, NEW c \in Int, DeleteClip(i, c)
    PROVE ClipInv' /\ AsAsked
<1> DEFINE t == PythonIndex(i)
<1>1. CountOp /\ UNCHANGED envelopes /\ Done("delete", HasTrack(i), 0, <<i, c>>, <<>>)
  BY DEF DeleteClip
<1>2. lastOp'.op = "delete" /\ lastOp'.ok \in BOOLEAN
  <2>1. HasTrack(i) \in BOOLEAN
    BY DEF HasTrack
  <2>2. lastOp'.op = "delete" /\ lastOp'.ok = HasTrack(i)
    BY <1>1, DoneIs
  <2> QED BY <2>1, <2>2, Zenon
<1>3. CASE Named(i, c)
  <2>1. t \in 1 .. TrackCount /\ arrangement[t] \in Seq(LegalClip) /\ c + 1 \in 1 .. Len(arrangement[t])
    BY <1>3, ClipNamed
  <2>2. arrangement' = [arrangement EXCEPT ![t] = RemoveAt(@, c + 1)]
    BY <1>3 DEF DeleteClip
  <2> HIDE DEF t
  <2>3. RemoveAt(arrangement[t], c + 1) \in Seq(LegalClip)
    BY <2>1, RemoveTyped
  <2>4. arrangement' \in [1 .. TrackCount -> Seq(LegalClip)]
    BY <2>1, <2>2, <2>3 DEF ClipInv
  <2> QED BY <1>1, <1>2, <2>4, EnvelopesKept, OtherAsAsked DEF Other, AsAsked
<1>4. CASE ~Named(i, c)
  <2>1. arrangement' \in [1 .. TrackCount -> Seq(LegalClip)]
    BY <1>4 DEF DeleteClip, ClipInv
  <2> QED BY <1>1, <1>2, <2>1, EnvelopesKept, OtherAsAsked DEF Other, AsAsked
<1> QED BY <1>3, <1>4

LEMMA NoSuchClipStep ==
    ASSUME ClipInv, NEW i \in Int, NEW c \in Int, NoSuchClip(i, c)
    PROVE ClipInv' /\ AsAsked
<1>1. CountOp /\ UNCHANGED <<arrangement, envelopes>> /\ Done("clip", HasTrack(i), 0, <<i, c>>, <<>>)
  BY DEF NoSuchClip
<1>2. lastOp'.op = "clip" /\ lastOp'.ok \in BOOLEAN
  <2>1. HasTrack(i) \in BOOLEAN
    BY DEF HasTrack
  <2>2. lastOp'.op = "clip" /\ lastOp'.ok = HasTrack(i)
    BY <1>1, DoneIs
  <2> QED BY <2>1, <2>2, Zenon
<1>3. arrangement' \in [1 .. TrackCount -> Seq(LegalClip)]
  BY <1>1 DEF ClipInv
<1> QED BY <1>1, <1>2, <1>3, EnvelopesKept, OtherAsAsked DEF Other, AsAsked

------------------------------------------------------------
Points(n) == [k \in 1 .. n |-> <<k, ops>>]

\* What a list of points adds to those that a controller has kept.
NewAt(n, taken) == {Points(n)[k] : k \in taken}
Counted(kept, new, n, taken) ==
    /\ Cardinality((kept \cup new) \cap ToSet(Points(n))) = Cardinality(taken)
    /\ new \subseteq (1 .. MaxPoints) \X (0 .. MaxOps)
    /\ \A p \in kept \cup new : p[2] < ops + 1

\* Points of this request are as many as the places they are at, and none is an old one.
LEMMA NewPoints ==
    ASSUME ClipInv, NEW cc \in CCs, NEW n \in 1 .. MaxPoints, NEW taken \in SUBSET (1 .. n),
           NEW kept \in SUBSET envelopes[cc]
    PROVE Counted(kept, NewAt(n, taken), n, taken)
<1> DEFINE new == {Points(n)[k] : k \in taken}
<1>1. n \in Nat /\ ops \in 0 .. MaxOps /\ ops \in Nat /\ \A k \in 1 .. n : k \in 1 .. MaxPoints
  BY RequestsAreNumbers DEF ClipInv
<1>2. ASSUME NEW k \in 1 .. n PROVE Points(n)[k] = <<k, ops>>
  BY DEF Points
<1>3. DOMAIN Points(n) = 1 .. n
  BY DEF Points
<1>4. ToSet(Points(n)) = {Points(n)[k] : k \in 1 .. n}
  BY <1>3 DEF ToSet
<1>5. kept \cap ToSet(Points(n)) = {}
  <2>1. ASSUME NEW p \in kept, NEW k \in 1 .. n PROVE p # Points(n)[k]
    <3>1. p[2] < ops /\ <<k, ops>>[2] = ops
      BY DEF ClipInv
    <3> QED BY <1>1, <1>2, <3>1
  <2> QED BY <1>4, <2>1
<1>6. (kept \cup new) \cap ToSet(Points(n)) = new
  BY <1>4, <1>5
<1>7. Cardinality(new) = Cardinality(taken)
  <2>1. IsFiniteSet(taken)
    <3>1. IsFiniteSet(1 .. n)
      BY <1>1, FS_Interval
    <3> QED BY <3>1, FS_Subset
  <2> DEFINE f == [k \in taken |-> Points(n)[k]]
  <2>2. f \in [taken -> new]
    OBVIOUS
  <2>3. ASSUME NEW a \in taken, NEW b \in taken, f[a] = f[b] PROVE a = b
    <3>1. <<a, ops>> = <<b, ops>>
      BY <1>2, <2>3
    <3> QED BY <3>1
  <2>4. \A p \in new : \E k \in taken : f[k] = p
    OBVIOUS
  <2> HIDE DEF new, f
  <2>5. f \in Bijection(taken, new)
    BY <2>2, <2>3, <2>4 DEF Bijection, Injection, Surjection, IsInjective
  <2>6. ExistsBijection(taken, new)
    BY <2>5 DEF ExistsBijection
  <2> QED BY <2>1, <2>6, FS_Bijection
<1>8. new \subseteq (1 .. MaxPoints) \X (0 .. MaxOps)
  BY <1>1, <1>2
<1>9. ASSUME NEW p \in kept \cup new PROVE p[2] < ops + 1
  <2>1. CASE p \in kept
    <3>1. p \in (1 .. MaxPoints) \X (0 .. MaxOps) /\ p[2] < ops
      BY <2>1 DEF ClipInv
    <3> QED BY <1>1, <3>1
  <2>2. CASE p \in new
    <3>1. PICK k \in 1 .. n : p = <<k, ops>>
      BY <1>2, <2>2
    <3> QED BY <1>1, <3>1
  <2> QED BY <1>9, <2>1, <2>2
<1> HIDE DEF new
<1>10. Cardinality((kept \cup new) \cap ToSet(Points(n))) = Cardinality(taken)
  BY <1>6, <1>7
<1>11. Counted(kept, new, n, taken)
  BY <1>8, <1>9, <1>10 DEF Counted
<1> QED BY <1>11 DEF new, NewAt

\* The points of one controller change.
LEMMA PointsPut ==
    ASSUME ClipInv, CountOp, UNCHANGED arrangement, NEW cc \in CCs, NEW S \in SUBSET ((1 .. MaxPoints) \X (0 .. MaxOps)),
           \A p \in S : p[2] < ops + 1, envelopes' = [envelopes EXCEPT ![cc] = S], lastOp'.ok \in BOOLEAN
    PROVE ClipInv'
<1>1. ops \in Nat /\ ops' = ops + 1 /\ ops' \in 0 .. MaxOps
  BY RequestsAreNumbers DEF ClipInv, CountOp
<1>2. envelopes' \in [CCs -> SUBSET ((1 .. MaxPoints) \X (0 .. MaxOps))]
  BY DEF ClipInv
<1>3. ASSUME NEW c \in CCs, NEW p \in envelopes'[c] PROVE p[2] < ops'
  <2>1. CASE c = cc
    BY <1>1, <1>3, <2>1 DEF ClipInv
  <2>2. CASE c # cc
    <3>1. p \in envelopes[c]
      BY <1>3, <2>2 DEF ClipInv
    <3>2. p \in (1 .. MaxPoints) \X (0 .. MaxOps) /\ p[2] < ops
      BY <3>1 DEF ClipInv
    <3> QED BY <1>1, <3>2
  <2> QED BY <2>1, <2>2
<1>4. arrangement' \in [1 .. TrackCount -> Seq(LegalClip)]
  BY DEF ClipInv
<1> QED BY <1>1, <1>2, <1>3, <1>4 DEF ClipInv

LEMMA SetEnvelopeStep ==
    ASSUME ClipInv, NEW cc \in CCs, NEW n \in 1 .. MaxPoints, SetEnvelope(cc, Points(n))
    PROVE ClipInv' /\ AsAsked
<1>1. CountOp /\ UNCHANGED arrangement
  BY DEF SetEnvelope
<1>2. arrangement' \in [1 .. TrackCount -> Seq(LegalClip)]
  BY <1>1 DEF ClipInv
<1>3. CASE Done("envelope", FALSE, -1, Points(n), <<>>) /\ UNCHANGED envelopes
  <2>1. lastOp'.op = "envelope" /\ lastOp'.ok = FALSE
    BY <1>3, DoneIs
  <2>2. ClipInv'
    BY <1>1, <1>2, <1>3, <2>1, EnvelopesKept
  <2> QED BY <2>1, <2>2 DEF AsAsked, LegalLoopSet, NotesAsSent, EnvelopeCounted
<1>4. ASSUME NEW kept \in {{}, envelopes[cc]},
             envelopes' = [envelopes EXCEPT ![cc] = kept], Done("envelope", FALSE, -1, Points(n), <<>>)
      PROVE ClipInv' /\ AsAsked
  <2>1. lastOp'.op = "envelope" /\ lastOp'.ok = FALSE
    BY <1>4, DoneIs
  <2>2. kept \in SUBSET ((1 .. MaxPoints) \X (0 .. MaxOps)) /\ kept \in SUBSET envelopes[cc]
    BY DEF ClipInv
  <2>3. \A p \in kept : p[2] < ops + 1
    <3>1. {} \in SUBSET (1 .. n)
      OBVIOUS
    <3>2. Counted(kept, NewAt(n, {}), n, {})
      BY <2>2, <3>1, NewPoints
    <3> QED BY <3>2 DEF Counted
  <2>4. ClipInv'
    BY <1>1, <1>4, <2>1, <2>2, <2>3, PointsPut
  <2> QED BY <2>1, <2>4 DEF AsAsked, LegalLoopSet, NotesAsSent, EnvelopeCounted
<1>5. ASSUME NEW kept \in {{}, envelopes[cc]}, NEW taken \in SUBSET DOMAIN Points(n),
             envelopes' = [envelopes EXCEPT ![cc] = kept \cup {Points(n)[k] : k \in taken}],
             Done("envelope", TRUE, Cardinality(taken), Points(n), <<>>)
      PROVE ClipInv' /\ AsAsked
  <2> DEFINE S == kept \cup {Points(n)[k] : k \in taken}
  <2>1. lastOp'.op = "envelope" /\ lastOp'.ok = TRUE /\ lastOp'.reply = Cardinality(taken) /\ lastOp'.args = Points(n)
    BY <1>5, DoneIs
  <2>2. kept \in SUBSET ((1 .. MaxPoints) \X (0 .. MaxOps)) /\ kept \in SUBSET envelopes[cc] /\ taken \in SUBSET (1 .. n)
    BY DEF ClipInv, Points
  <2>3. /\ Cardinality(S \cap ToSet(Points(n))) = Cardinality(taken)
        /\ S \in SUBSET ((1 .. MaxPoints) \X (0 .. MaxOps)) /\ \A p \in S : p[2] < ops + 1
    <3> DEFINE new == NewAt(n, taken)
    <3>1. /\ Cardinality((kept \cup new) \cap ToSet(Points(n))) = Cardinality(taken)
          /\ new \subseteq (1 .. MaxPoints) \X (0 .. MaxOps)
          /\ \A p \in kept \cup new : p[2] < ops + 1
      <4>1. Counted(kept, new, n, taken)
        BY <2>2, NewPoints
      <4> QED BY <4>1 DEF Counted
    <3>2. S = kept \cup new
      BY DEF NewAt
    <3> HIDE DEF new, S
    <3> QED BY <2>2, <3>1, <3>2
  <2>4. envelopes' = [envelopes EXCEPT ![cc] = S]
    BY <1>5
  <2> HIDE DEF S
  <2>5. ClipInv'
    BY <1>1, <2>1, <2>3, <2>4, PointsPut
  <2>6. envelopes'[cc] = S
    BY <2>4 DEF ClipInv
  <2>7. Cardinality(envelopes'[cc] \cap ToSet(lastOp'.args)) = lastOp'.reply
    BY <2>1, <2>3, <2>6
  <2>8. EnvelopeCounted
    BY <2>7 DEF EnvelopeCounted
  <2> QED BY <2>1, <2>5, <2>8 DEF AsAsked, LegalLoopSet, NotesAsSent
<1>6. ASSUME NEW kept \in {{}, envelopes[cc]}, NEW bad \in DOMAIN Points(n), NEW taken \in SUBSET (1 .. bad - 1),
             envelopes' = [envelopes EXCEPT ![cc] = kept \cup {Points(n)[k] : k \in taken}],
             Done("envelope", FALSE, Malformed, Points(n), <<>>)
      PROVE ClipInv' /\ AsAsked
  <2> DEFINE S == kept \cup NewAt(n, taken)
  <2>1. lastOp'.op = "envelope" /\ lastOp'.ok = FALSE
    BY <1>6, DoneIs
  <2>2. kept \in SUBSET ((1 .. MaxPoints) \X (0 .. MaxOps)) /\ kept \in SUBSET envelopes[cc]
    BY DEF ClipInv
  <2>3. taken \in SUBSET (1 .. n)
    BY RequestsAreNumbers DEF Points
  <2>4. NewAt(n, taken) \subseteq (1 .. MaxPoints) \X (0 .. MaxOps) /\ \A p \in S : p[2] < ops + 1
    <3>1. Counted(kept, NewAt(n, taken), n, taken)
      BY <2>2, <2>3, NewPoints
    <3> QED BY <3>1 DEF Counted
  <2>5. envelopes' = [envelopes EXCEPT ![cc] = S]
    BY <1>6 DEF NewAt
  <2>6. S \in SUBSET ((1 .. MaxPoints) \X (0 .. MaxOps))
    BY <2>2, <2>4
  <2> HIDE DEF S
  <2>7. ClipInv'
    BY <1>1, <2>1, <2>4, <2>5, <2>6, PointsPut
  <2> QED BY <2>1, <2>7 DEF AsAsked, LegalLoopSet, NotesAsSent, EnvelopeCounted
<1> QED BY <1>3, <1>4, <1>5, <1>6 DEF SetEnvelope

LEMMA ClearEnvelopeStep ==
    ASSUME ClipInv, NEW cc \in CCs, ClearEnvelope(cc)
    PROVE ClipInv' /\ AsAsked
<1>1. CountOp /\ UNCHANGED arrangement
  BY DEF ClearEnvelope
<1>2. arrangement' \in [1 .. TrackCount -> Seq(LegalClip)]
  BY <1>1 DEF ClipInv
<1>3. CASE envelopes' = [envelopes EXCEPT ![cc] = {}] /\ Done("clear", TRUE, 1, <<cc>>, <<>>)
  <2>1. lastOp'.op = "clear" /\ lastOp'.ok = TRUE
    BY <1>3, DoneIs
  <2>2. {} \in SUBSET ((1 .. MaxPoints) \X (0 .. MaxOps))
    OBVIOUS
  <2>3. ClipInv'
    BY <1>1, <1>3, <2>1, <2>2, PointsPut
  <2> QED BY <2>1, <2>3, OtherAsAsked DEF Other, AsAsked
<1>4. CASE Done("clear", FALSE, -1, <<cc>>, <<>>) /\ UNCHANGED envelopes
  <2>1. lastOp'.op = "clear" /\ lastOp'.ok = FALSE
    BY <1>4, DoneIs
  <2> QED BY <1>1, <1>2, <1>4, <2>1, EnvelopesKept, OtherAsAsked DEF Other, AsAsked
<1> QED BY <1>3, <1>4 DEF ClearEnvelope

------------------------------------------------------------
\* A set without arrangement clips.
LEMMA ClipInitInv == ClipInit => ClipInv
<1> SUFFICES ASSUME ClipInit PROVE ClipInv
  OBVIOUS
<1>1. <<>> \in Seq(LegalClip) /\ 0 \in 0 .. MaxOps
  BY RequestsAreNumbers
<1>2. arrangement \in [1 .. TrackCount -> Seq(LegalClip)]
  BY <1>1 DEF ClipInit
<1> QED BY <1>1, <1>2 DEF ClipInit, ClipInv, NoOp

\* The pitches of a request.
LEMMA RepeatedTyped == ASSUME NEW p \in Int, NEW n \in Nat PROVE Repeated(p, n) \in Seq(Int)
  BY DEF Repeated

\* ClipInv is inductive, and every step does as asked.
LEMMA ClipNextStep == ASSUME ClipInv, ClipNext PROVE ClipInv' /\ AsAsked
<1>1. ASSUME NEW i \in TrackArgs, NEW start \in Times, NEW length \in Times, length > 0, CreateClip(i, start, length)
      PROVE ClipInv' /\ AsAsked
  BY <1>1, CreateClipStep, RequestsAreNumbers, TimesAreNumbers
<1>2. ASSUME NEW cc \in CCs, ClearEnvelope(cc) PROVE ClipInv' /\ AsAsked
  BY <1>2, ClearEnvelopeStep
<1>3. ASSUME NEW cc \in CCs, NEW n \in 1 .. MaxPoints, SetEnvelope(cc, [k \in 1 .. n |-> <<k, ops>>])
      PROVE ClipInv' /\ AsAsked
  BY <1>3, SetEnvelopeStep DEF Points
<1>4. ASSUME NEW i \in TrackArgs, NEW c \in ClipArgs, DeleteClip(i, c) \/ NoSuchClip(i, c) PROVE ClipInv' /\ AsAsked
  BY <1>4, DeleteClipStep, NoSuchClipStep, RequestsAreNumbers
<1>5. ASSUME NEW i \in TrackArgs, NEW c \in ClipArgs, NEW w \in Windows, RemoveNotes(i, c, w) PROVE ClipInv' /\ AsAsked
  BY <1>5, RemoveNotesStep, RequestsAreNumbers
<1>6. ASSUME NEW i \in TrackArgs, NEW c \in ClipArgs, NEW looping \in BOOLEAN, NEW start \in Times, NEW end \in Times,
             SetLoop(i, c, looping, start, end)
      PROVE ClipInv' /\ AsAsked
  BY <1>6, SetLoopStep, RequestsAreNumbers, TimesAreNumbers
<1>7. ASSUME NEW i \in TrackArgs, NEW c \in ClipArgs, NEW p \in Pitches, NEW n \in NoteCounts, NEW w \in {5, 6}, NEW cut \in 0 .. Cut,
             AddNotes(i, c, Repeated(p, n), w, cut)
      PROVE ClipInv' /\ AsAsked
  <2>1. i \in Int /\ c \in Int /\ Repeated(p, n) \in Seq(Int) /\ cut \in Nat
    BY RepeatedTyped, RequestsAreNumbers
  <2> QED BY <1>7, <2>1, AddNotesStep
<1> QED BY <1>1, <1>2, <1>3, <1>4, <1>5, <1>6, <1>7 DEF ClipNext

\* What touches no clip keeps ClipInv.
LEMMA ClipStutter == ClipInv /\ UNCHANGED clipVars => ClipInv'
<1> SUFFICES ASSUME ClipInv, UNCHANGED clipVars PROVE ClipInv'
  OBVIOUS
<1>1. arrangement' = arrangement /\ envelopes' = envelopes /\ lastOp' = lastOp /\ ops' = ops
  BY DEF clipVars
<1> QED BY <1>1 DEF ClipInv

\* ClipInv implies the types.
LEMMA ClipTyped == ASSUME ClipInv PROVE ClipTypeOK
<1>1. ASSUME NEW t \in 1 .. TrackCount PROVE arrangement[t] \in Seq(ClipRecord)
  <2>1. arrangement[t] \in Seq(LegalClip) /\ \A clip \in LegalClip : clip \in ClipRecord
    BY DEF ClipInv, LegalClip
  <2> HIDE DEF LegalClip, ClipRecord
  <2> QED BY <2>1
<1> QED BY <1>1 DEF ClipInv, ClipTypeOK

\* ClipInv holds in every reachable state.
LEMMA ClipInvariance == ClipSpec => []ClipInv
  BY ClipInitInv, ClipNextStep, ClipStutter, PTL DEF ClipSpec

\* The variables of the clip requests have their types.
THEOREM ClipTypes == ClipSpec => []ClipTypeOK
  BY ClipTyped, ClipInvariance, PTL

\* For any number of tracks, any loops and any notes: set_loop leaves a loop that Live
\* can have and sets every legal one, add_notes tells notes of five values from notes
\* of six, and set_envelope counts the points it wrote.
THEOREM ClipAlwaysAsAsked == ClipSpec => ClipEditsAsAsked
<1>1. ClipInv /\ [ClipNext]_clipVars => [LegalLoopSet /\ NotesAsSent /\ EnvelopeCounted]_clipVars
  BY ClipNextStep DEF AsAsked
<1> QED BY <1>1, ClipInvariance, PTL DEF ClipSpec, ClipEditsAsAsked

------------------------------------------------------------
\* The slots of a set whose name raises, and those before them all.
Raising(s) == {p \in Positions(s) : s[p[1]][p[2]].raises}
Read(s, p) == \A q \in Raising(s) : ~Earlier(q, p)

TracksBuilt(s) ==
    IF Raising(s) = {} THEN Len(s) ELSE CHOOSE t \in DOMAIN s : \E p \in Raising(s) : p[1] = t /\ Read(s, p)
SlotsBuilt(s, t) == Max({0} \cup {k \in DOMAIN s[t] : Read(s, <<t, k>>)})

\* The cache as a function of the slots whose names were read.
LEMMA BuiltIs ==
    ASSUME NEW s
    PROVE Built(s) = [t \in 1 .. TracksBuilt(s) |->
                        [k \in 1 .. SlotsBuilt(s, t) |-> IF s[t][k].raises THEN {} ELSE s[t][k].notes]]
  BY DEF Built, TracksBuilt, SlotsBuilt, Raising, Read

\* A position names a track and one of its slots.
LEMMA PositionIs ==
    ASSUME NEW s \in Seq(Seq(Slots)), NEW p \in Positions(s)
    PROVE /\ p = <<p[1], p[2]>> /\ p[1] \in 1 .. Len(s) /\ p[2] \in 1 .. Len(s[p[1]])
          /\ p[1] \in Nat /\ p[2] \in Nat
          /\ s[p[1]] \in Seq(Slots) /\ s[p[1]][p[2]] \in Slots
<1>1. PICK t \in DOMAIN s : p \in {<<t, k>> : k \in DOMAIN s[t]}
  BY DEF Positions
<1>2. PICK k \in DOMAIN s[t] : p = <<t, k>>
  BY <1>1
<1>3. t \in 1 .. Len(s) /\ s[t] \in Seq(Slots)
  BY <1>1
<1>4. k \in 1 .. Len(s[t]) /\ s[t][k] \in Slots
  BY <1>2, <1>3
<1>5. p[1] = t /\ p[2] = k
  BY <1>2
<1> QED BY <1>2, <1>3, <1>4, <1>5

\* A slot of a track is a position.
LEMMA PositionIn ==
    ASSUME NEW s \in Seq(Seq(Slots)), NEW t \in 1 .. Len(s), NEW k \in 1 .. Len(s[t])
    PROVE <<t, k>> \in Positions(s)
<1>1. s[t] \in Seq(Slots)
  OBVIOUS
<1>2. t \in DOMAIN s /\ k \in DOMAIN s[t]
  BY <1>1
<1> QED BY <1>2 DEF Positions

\* Of the names that raise there is one that is read first.
LEMMA FirstRaising ==
    ASSUME NEW s \in Seq(Seq(Slots)), Raising(s) # {}
    PROVE \E p \in Raising(s) : Read(s, p)
<1> DEFINE T == {p[1] : p \in Raising(s)}
<1>1. \A p \in Raising(s) : p[1] \in Nat /\ p[2] \in Nat
  BY PositionIs DEF Raising
<1>2. T \subseteq Nat /\ T # {}
  BY <1>1
<1>3. PICK t \in T : \A u \in T : t <= u
  <2> HIDE DEF T
  <2> QED BY <1>2, LeastNumber
<1> DEFINE K == {p[2] : p \in {q \in Raising(s) : q[1] = t}}
<1>4. K \subseteq Nat /\ K # {}
  BY <1>1, <1>3
<1>5. PICK k \in K : \A l \in K : k <= l
  <2> HIDE DEF K
  <2> QED BY <1>4, LeastNumber
<1>6. PICK p \in Raising(s) : p[1] = t /\ p[2] = k
  BY <1>5
<1>7. ASSUME NEW q \in Raising(s) PROVE ~Earlier(q, p)
  <2>1. q[1] \in Nat /\ q[2] \in Nat /\ t \in Nat /\ k \in Nat
    BY <1>1, <1>6
  <2>2. t <= q[1]
    BY <1>3
  <2>3. q[1] = t => k <= q[2]
    BY <1>5
  <2> QED BY <1>6, <2>1, <2>2, <2>3 DEF Earlier
<1> QED BY <1>6, <1>7 DEF Read

\* The cache has no more tracks than the set, and all of them if no name raises.
LEMMA TracksBuiltTyped ==
    ASSUME NEW s \in Seq(Seq(Slots))
    PROVE TracksBuilt(s) \in 0 .. Len(s) /\ (Raising(s) = {} => TracksBuilt(s) = Len(s))
<1>1. CASE Raising(s) = {}
  <2>1. Len(s) \in 0 .. Len(s)
    OBVIOUS
  <2> QED BY <1>1, <2>1 DEF TracksBuilt
<1>2. CASE Raising(s) # {}
  <2>1. PICK p \in Raising(s) : Read(s, p)
    BY <1>2, FirstRaising
  <2>2. p[1] \in 1 .. Len(s) /\ DOMAIN s = 1 .. Len(s)
    BY PositionIs DEF Raising
  <2>3. \E t \in DOMAIN s : \E q \in Raising(s) : q[1] = t /\ Read(s, q)
    BY <2>1, <2>2
  <2>4. TracksBuilt(s) \in DOMAIN s
    BY <1>2, <2>3 DEF TracksBuilt
  <2> QED BY <1>2, <2>2, <2>4
<1> QED BY <1>1, <1>2

\* The same for the slots of a track.
LEMMA SlotsBuiltTyped ==
    ASSUME NEW s \in Seq(Seq(Slots)), NEW t \in 1 .. Len(s)
    PROVE SlotsBuilt(s, t) \in 0 .. Len(s[t]) /\ (Raising(s) = {} => SlotsBuilt(s, t) = Len(s[t]))
<1> DEFINE n == Len(s[t])
           K == {0} \cup {k \in DOMAIN s[t] : Read(s, <<t, k>>)}
<1>1. s[t] \in Seq(Slots)
  OBVIOUS
<1>2. n \in Nat /\ DOMAIN s[t] = 1 .. n
  BY <1>1
<1> HIDE DEF n
<1>3. K \in SUBSET (0 .. n) /\ K # {}
  <2>1. 0 \in 0 .. n /\ \A k \in 1 .. n : k \in 0 .. n
    BY <1>2
  <2>2. \A k \in K : k = 0 \/ k \in 1 .. n
    BY <1>2
  <2>3. 0 \in K
    OBVIOUS
  <2> HIDE DEF K
  <2> QED BY <2>1, <2>2, <2>3
<1>4. Raising(s) = {} => n \in K
  <2>1. CASE n = 0
    BY <2>1
  <2>2. CASE n # 0
    BY <1>2, <2>2 DEF Read
  <2> QED BY <2>1, <2>2
<1> HIDE DEF K
<1>5. Max(K) \in K /\ \A i \in K : i <= Max(K)
  BY <1>2, <1>3, MaxFrom0
<1>6. Max(K) \in 0 .. n /\ (n \in K => Max(K) = n)
  <2>1. Max(K) \in 0 .. n
    BY <1>3, <1>5
  <2>2. n \in K => n <= Max(K)
    BY <1>5
  <2> QED BY <1>2, <2>1, <2>2
<1> QED BY <1>4, <1>6 DEF SlotsBuilt, K, n

\* The lengths of the cache and of its tracks.
LEMMA BuiltLengths ==
    ASSUME NEW s \in Seq(Seq(Slots))
    PROVE /\ Len(Built(s)) = TracksBuilt(s)
          /\ \A t \in 1 .. TracksBuilt(s) : Len(Built(s)[t]) = SlotsBuilt(s, t)
<1>1. TracksBuilt(s) \in Nat /\ \A t \in 1 .. TracksBuilt(s) : t \in 1 .. Len(s)
  BY TracksBuiltTyped
<1>2. Len(Built(s)) = TracksBuilt(s)
  BY <1>1, BuiltIs
<1>3. ASSUME NEW t \in 1 .. TracksBuilt(s) PROVE Len(Built(s)[t]) = SlotsBuilt(s, t)
  <2>1. SlotsBuilt(s, t) \in Nat
    <3>1. t \in 1 .. Len(s)
      BY <1>1
    <3> QED BY <3>1, SlotsBuiltTyped
  <2>2. Built(s)[t] = [k \in 1 .. SlotsBuilt(s, t) |-> IF s[t][k].raises THEN {} ELSE s[t][k].notes]
    BY BuiltIs
  <2> QED BY <2>1, <2>2
<1> QED BY <1>2, <1>3

\* What the cache says of a slot, if it has an entry, is what its name says.
LEMMA BuiltAt ==
    ASSUME NEW s \in Seq(Seq(Slots)), NEW p \in Positions(s),
           ~(p[1] > Len(Built(s))), ~(p[2] > Len(Built(s)[p[1]]))
    PROVE Built(s)[p[1]][p[2]] = s[p[1]][p[2]].notes
<1>1. p[1] \in Nat /\ p[1] >= 1 /\ p[2] \in Nat /\ p[2] >= 1 /\ s[p[1]][p[2]] \in Slots
  BY PositionIs
<1>2. TracksBuilt(s) \in Nat
  BY TracksBuiltTyped
<1>3. p[1] \in 1 .. TracksBuilt(s)
  BY <1>1, <1>2, BuiltLengths
<1>4. SlotsBuilt(s, p[1]) \in Nat
  <2>1. p[1] \in 1 .. Len(s)
    BY PositionIs
  <2> QED BY <2>1, SlotsBuiltTyped
<1>5. p[2] \in 1 .. SlotsBuilt(s, p[1])
  BY <1>1, <1>3, <1>4, BuiltLengths
<1>6. Built(s)[p[1]][p[2]] = IF s[p[1]][p[2]].raises THEN {} ELSE s[p[1]][p[2]].notes
  BY <1>3, <1>5, BuiltIs
<1> QED BY <1>1, <1>6 DEF Slots

\* If no name raises, every slot has an entry.
LEMMA BuiltAll ==
    ASSUME NEW s \in Seq(Seq(Slots)), Raising(s) = {}, NEW p \in Positions(s)
    PROVE ~(p[1] > Len(Built(s))) /\ ~(p[2] > Len(Built(s)[p[1]]))
<1>1. p[1] \in 1 .. Len(s) /\ p[2] \in 1 .. Len(s[p[1]])
  BY PositionIs
<1>2. Len(Built(s)) = Len(s)
  BY BuiltLengths, TracksBuiltTyped
<1>3. Len(Built(s)[p[1]]) = Len(s[p[1]])
  <2>1. TracksBuilt(s) = Len(s) /\ SlotsBuilt(s, p[1]) = Len(s[p[1]])
    BY <1>1, TracksBuiltTyped, SlotsBuiltTyped
  <2> QED BY <1>1, <2>1, BuiltLengths
<1> QED BY <1>1, <1>2, <1>3

------------------------------------------------------------
\* Those whose names were read are muted by what their names say.
NamesFollowed ==
    filtered.done /\ untouched =>
        \A p \in Positions(slots) :
            LET notes_ == slots[p[1]][p[2]].notes
            IN notes_ # {} => (p \in muted <=> ~(notes_ \subseteq filtered.notes))

\* The inductive invariant: the cache is that of the set, until the set changes.
FilterInv ==
    /\ slots \in Seq(Seq(Slots))
    /\ untouched => notesCache = Built(slots)
    /\ NamesFollowed

\* There is no cache at first.
LEMMA FilterInitInv == FilterInit => FilterInv
<1> SUFFICES ASSUME FilterInit PROVE FilterInv
  OBVIOUS
<1>1. <<>> \in Seq(Seq(Slots))
  OBVIOUS
<1> QED BY <1>1 DEF FilterInit, FilterInv, NamesFollowed

\* A filter mutes by a cache of the set it finds, or stops where it stumbles.
LEMMA FilterStep == ASSUME FilterInv, NEW asked \in SUBSET FilterNotes, Filter(asked) PROVE FilterInv'
<1>1. slots' = slots /\ slots \in Seq(Seq(Slots))
  BY DEF Filter, FilterInv
<1>2. untouched' => notesCache' = Built(slots)
  BY DEF Filter, FilterInv
<1>3. CASE notesCache = <<>> /\ BuildRaises(slots)
  <2>1. filtered' = [notes |-> asked, done |-> FALSE]
    BY <1>3 DEF Filter
  <2>2. ~filtered'.done
    BY <2>1
  <2> QED BY <1>1, <1>2, <2>2 DEF FilterInv, NamesFollowed
<1>4. CASE ~(notesCache = <<>> /\ BuildRaises(slots))
  <2> DEFINE bad == {p \in Positions(slots) : Stumbles(notesCache', p)}
             passed == {p \in Positions(slots) : \A q \in bad : Earlier(p, q)}
             named == {p \in passed : notesCache'[p[1]][p[2]] # {}}
             off == {p \in named : MutedFor(notesCache'[p[1]][p[2]], asked)}
  <2>1. muted' = (muted \ named) \cup off /\ filtered' = [notes |-> asked, done |-> bad = {}]
    BY <1>4 DEF Filter
  <2>2. filtered'.notes = asked /\ (filtered'.done <=> bad = {})
    BY <2>1
  <2>3. ASSUME filtered'.done, untouched', NEW p \in Positions(slots), slots[p[1]][p[2]].notes # {}
        PROVE p \in muted' <=> ~(slots[p[1]][p[2]].notes \subseteq asked)
    <3>1. bad = {}
      BY <2>2, <2>3
    <3>2. p \in passed
      BY <3>1
    <3>3. ~Stumbles(notesCache', p) /\ notesCache' = Built(slots)
      BY <1>2, <2>3, <3>1
    <3>4. notesCache'[p[1]][p[2]] = slots[p[1]][p[2]].notes
      BY <1>1, <3>3, BuiltAt DEF Stumbles
    <3>5. p \in named
      BY <2>3, <3>2, <3>4
    <3>6. p \in off <=> ~(slots[p[1]][p[2]].notes \subseteq asked)
      BY <3>4, <3>5 DEF MutedFor
    <3> HIDE DEF named, off
    <3> QED BY <2>1, <3>5, <3>6
  <2> HIDE DEF bad
  <2>4. NamesFollowed'
    BY <1>1, <2>2, <2>3 DEF NamesFollowed
  <2> QED BY <1>1, <1>2, <2>4 DEF FilterInv
<1> QED BY <1>3, <1>4

\* FilterInv is inductive.
LEMMA FilterNextInv == ASSUME FilterInv, [FilterNext]_filterVars PROVE FilterInv'
<1>1. ASSUME NEW asked \in SUBSET FilterNotes, Filter(asked) PROVE FilterInv'
  BY <1>1, FilterStep
<1>2. ASSUME NEW slice \in FilterSlices, Unfilter(slice) PROVE FilterInv'
  <2>1. filtered' = [notes |-> {}, done |-> FALSE] /\ UNCHANGED <<slots, notesCache, untouched>>
    BY <1>2 DEF Unfilter
  <2>2. ~filtered'.done
    BY <2>1
  <2> QED BY <2>1, <2>2 DEF FilterInv, NamesFollowed
<1>3. CASE Rearrange
  <2>1. slots' \in Seq(Seq(Slots)) /\ ~untouched'
    BY <1>3, FilterSetsAssumption DEF Rearrange
  <2> QED BY <2>1 DEF FilterInv, NamesFollowed
<1>4. CASE UNCHANGED filterVars
  <2>1. UNCHANGED <<slots, muted, notesCache, filtered, untouched>>
    BY <1>4 DEF filterVars
  <2> QED BY <2>1 DEF FilterInv, NamesFollowed
<1> QED BY <1>1, <1>2, <1>3, <1>4 DEF FilterNext

\* What FilterInv says of the last filter is the property.
LEMMA FilterFollows == ASSUME FilterInv PROVE FilterFollowsNames
<1>1. ASSUME untouched, ~BuildRaises(slots), NEW p \in Positions(slots) PROVE ~Stumbles(notesCache, p)
  <2>1. slots \in Seq(Seq(Slots)) /\ notesCache = Built(slots)
    BY <1>1 DEF FilterInv
  <2>2. Raising(slots) = {}
    BY <1>1 DEF BuildRaises, Raising
  <2>3. ~(p[1] > Len(notesCache)) /\ ~(p[2] > Len(notesCache[p[1]]))
    BY <2>1, <2>2, BuiltAll
  <2>4. notesCache[p[1]][p[2]] = slots[p[1]][p[2]].notes
    BY <2>1, <2>3, BuiltAt
  <2>5. slots[p[1]][p[2]] \in Slots
    BY <2>1, PositionIs
  <2> QED BY <2>3, <2>4, <2>5 DEF Stumbles, Slots
<1> QED BY <1>1 DEF FilterInv, NamesFollowed, FilterFollowsNames

\* FilterInv holds in every reachable state.
LEMMA FilterInvariance == FilterSpec => []FilterInv
  BY FilterInitInv, FilterNextInv, PTL DEF FilterSpec

\* Until the set changes, a filter that comes to its end has muted, of the clips with
\* notes in their names, those with a note that was not asked for; and it comes to its
\* end if the cache could be built.
THEOREM FilterAlwaysFollowsNames == FilterSpec => []FilterFollowsNames
  BY FilterFollows, FilterInvariance, PTL

------------------------------------------------------------
\* A step of all handlers is a step of one of them, and the others keep their state.
LEMMA StepsOfHandlers ==
    ASSUME [Next]_vars
    PROVE /\ [LoadNext]_loadVars /\ [PagingNext]_pagingVars /\ [MetaNext]_metaVars /\ [SessionNext]_sessionVars
          /\ [BeatNext]_beatVars /\ [ClipNext]_clipVars /\ [FilterNext]_filterVars
<1> DEFINE Goal == /\ [LoadNext]_loadVars /\ [PagingNext]_pagingVars /\ [MetaNext]_metaVars /\ [SessionNext]_sessionVars
                   /\ [BeatNext]_beatVars /\ [ClipNext]_clipVars /\ [FilterNext]_filterVars
<1>1. ASSUME LoadTask PROVE Goal
  BY <1>1 DEF LoadTask
<1>2. ASSUME PagingTask PROVE Goal
  BY <1>2 DEF PagingTask
<1>3. ASSUME MetaTask PROVE Goal
  BY <1>3 DEF MetaTask
<1>4. ASSUME SessionTask PROVE Goal
  BY <1>4 DEF SessionTask
<1>5. ASSUME BeatTask PROVE Goal
  BY <1>5 DEF BeatTask
<1>6. ASSUME ClipTask PROVE Goal
  BY <1>6 DEF ClipTask
<1>7. ASSUME FilterTask PROVE Goal
  BY <1>7 DEF FilterTask
<1>8. ASSUME UNCHANGED vars PROVE Goal
  BY <1>8 DEF vars
<1> HIDE DEF Goal
<1>9. Goal
  BY <1>1, <1>2, <1>3, <1>4, <1>5, <1>6, <1>7, <1>8 DEF Next
<1> QED BY <1>9 DEF Goal

\* Side by side, each handler behaves as it does alone.
THEOREM HandlersAreIndependent ==
    Spec => LoadSpec /\ PagingSpec /\ MetaSpec /\ SessionSpec /\ BeatSpec /\ ClipSpec /\ FilterSpec
<1>1. Init => LoadInit /\ PagingInit /\ MetaInit /\ SessionInit /\ BeatInit /\ ClipInit /\ FilterInit
  BY DEF Init
<1>2. [Next]_vars => /\ [LoadNext]_loadVars /\ [PagingNext]_pagingVars /\ [MetaNext]_metaVars
                     /\ [SessionNext]_sessionVars /\ [BeatNext]_beatVars /\ [ClipNext]_clipVars
                     /\ [FilterNext]_filterVars
  BY StepsOfHandlers
<1> QED BY <1>1, <1>2, PTL DEF Spec, LoadSpec, PagingSpec, MetaSpec, SessionSpec, BeatSpec, ClipSpec, FilterSpec

\* The variables of all handlers have their types, while the handlers run side by side.
THEOREM RequestsTypes == Spec => []RequestsTypeOK
<1>1. LoadTypeOK /\ PagingTypeOK /\ MetaTypeOK /\ BeatTypeOK /\ ClipTypeOK => RequestsTypeOK
  BY DEF RequestsTypeOK
<1> QED BY <1>1, HandlersAreIndependent, LoadTypes, PagingTypes, MetaTypes, BeatTypes, ClipTypes, PTL

\* What a client reads page by page, the grid, the notes of a clip or a list of the
\* browser, it reads whole, whatever the others ask for meanwhile.
THEOREM PagesAlwaysWhole == Spec => []PagesAreWhole
<1>1. GridPagesWhole /\ NotesPagesWhole /\ MetadataPagesWhole => PagesAreWhole
  BY DEF PagesAreWhole
<1> QED BY <1>1, HandlersAreIndependent, GridAlwaysWhole, NotesAlwaysWhole, MetadataAlwaysWhole, PTL

\* What the theorems above say of each handler alone holds of all of them side by side.
THEOREM HandlersAlwaysCorrect ==
    Spec => /\ []ListedPathsLoad /\ InsertModeRestored /\ InsertedWhereAsked
            /\ []HashIsContent /\ []HashProgress
            /\ []PagesFit
            /\ []SessionAligned
            /\ []BeatKnown
            /\ ClipEditsAsAsked
            /\ []FilterFollowsNames
  BY HandlersAreIndependent, ListedPathsAlwaysLoad, InsertModeAlwaysRestored, InsertedAlwaysWhereAsked, HashAlwaysContent,
     HashAlwaysProgresses, PagesAlwaysFit, SessionAlwaysAligned, BeatAlwaysKnown, ClipAlwaysAsAsked,
     FilterAlwaysFollowsNames, PTL
============================================================
