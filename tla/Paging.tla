-------------------------------- MODULE Paging --------------------------------
(* Replies that are cut to the reply budget.  /live/song/get/clip_grid and the   *)
(* /get/notes endpoints are read page by page, in calls between which the user   *)
(* may edit the set; /live/browser/get/names and /live/browser/search cut the    *)
(* list and say so.  A slot is Empty, Broken (reading it raises) or the number   *)
(* of bytes its clip takes in a page; a note is its pitch.                       *)
EXTENDS Integers, Sequences, SequencesExt, FiniteSetsExt

CONSTANTS
    Budget,       \* MAX_REPLY_BYTES
    Envelope,     \* _CLIP_GRID_ENVELOPE_BYTES
    MarkerBytes,  \* the allowance for the envelope and the truncation marker of a list
    NotesPerPage, \* MAX_NOTES_PER_PAGE
    TopPitch,     \* 127
    Grids,        \* what the tracks may hold: a sequence of slots for each
    Scenes,       \* numbers of scenes
    NoteLists,    \* what a clip may hold, in the order Live gives
    Spans,        \* numbers of pitches that a client asks for
    CostLists,    \* lists for get_names and search: the bytes of each entry
    MaxEdits      \* bound: edits of the user

ASSUME PagingAssumption ==
    /\ Budget \in Nat /\ Envelope \in Nat /\ MarkerBytes \in Nat /\ TopPitch \in Nat
    /\ Envelope <= Budget /\ NotesPerPage \in Nat \ {0}
ASSUME SetsAssumption ==
    /\ Grids \subseteq Seq(Seq(Int)) /\ Scenes \subseteq Nat
    /\ NoteLists \subseteq Seq(0 .. TopPitch) /\ Spans \subseteq Nat
    /\ CostLists \subseteq Seq(Nat) /\ MaxEdits \in Nat

Empty == 0
Broken == -1

VARIABLES
    grid, scenes, \* the session
    notes,        \* the notes of the clip that is read
    gridPages,    \* pages of the grid that a client has read, from page 0 on
    notePages,    \* pages of the notes
    window,       \* the request for notes: the span of pitches, and who is asked
    fresh,        \* history: since the first page of each read, nothing was edited
    shown,        \* the last list that was cut, and what was shown of it
    edits

pagingVars == <<grid, scenes, notes, gridPages, notePages, window, fresh, shown, edits>>

\* The occupied slots, track by track; slots past the scenes and slots that raise are left out.
Occupied ==
    FlattenSeq([t \in DOMAIN grid |->
        FlattenSeq([s \in DOMAIN grid[t] |->
            IF s <= scenes /\ grid[t][s] > 0 THEN <<[track |-> t, slot |-> s, bytes |-> grid[t][s]]>> ELSE <<>>])])

Bytes(entries) == FoldLeft(LAMBDA n, e : n + e.bytes, Envelope, entries)

\* Mutant: the page is measured before the entry, not with it.
PagesMeasuredBefore(entries) ==
    FoldLeft(LAMBDA pages, e :
                LET last == pages[Len(pages)] IN
                IF last # <<>> /\ Bytes(last) > Budget
                THEN Append(pages, <<e>>)
                ELSE [pages EXCEPT ![Len(pages)] = Append(@, e)],
             << <<>> >>, entries)

\* _clip_grid_pages: no page is empty, but for the only one of an empty list.
PagesOf(entries) ==
    FoldLeft(LAMBDA pages, e :
                LET last == pages[Len(pages)] IN
                IF last # <<>> /\ Bytes(last) + e.bytes > Budget
                THEN Append(pages, <<e>>)
                ELSE [pages EXCEPT ![Len(pages)] = Append(@, e)],
             << <<>> >>, entries)

PageError == [count |-> -1, total |-> -1, entries |-> <<>>]

\* clip_grid: without a page index, the first page.
GridReply(params) ==
    LET pages == PagesOf(Occupied)
        index == IF params = <<>> THEN 0 ELSE params[1]
    IN IF index \in 0 .. Len(pages) - 1
       THEN [count |-> Len(pages), entries |-> pages[index + 1]]
       ELSE PageError

InWindow(span) == FlattenSeq([k \in DOMAIN notes |-> IF notes[k] < span THEN <<notes[k]>> ELSE <<>>])

\* Mutant: the last page, which is not full, is not counted.
NotePageCountDown(total) == Max({1, total \div NotesPerPage})

NotePageCount(total) == Max({1, (total + NotesPerPage - 1) \div NotesPerPage})

\* _paged_notes_reply, for a window from pitch 0 that spans all times.
NotesReply(span, params) ==
    LET list == InWindow(span)
        count == NotePageCount(Len(list))
        index == IF params = <<>> THEN 0 ELSE params[1]
        first == index * NotesPerPage
    IN IF index \in 0 .. count - 1
       THEN [count |-> count, total |-> Len(list),
             entries |-> SubSeq(list, first + 1, Min({first + NotesPerPage, Len(list)}))]
       ELSE PageError

\* The notes that a request without a window is about.
DefaultSpan(clip) == IF clip = "arrangement" THEN TopPitch + 1 ELSE TopPitch

\* get_names and search stop at the first entry that does not fit.
Shown(costs) ==
    LET Fits(n) == FoldLeft(+, MarkerBytes, SubSeq(costs, 1, n)) <= Budget
    IN Max({n \in 0 .. Len(costs) : \A m \in 1 .. n : Fits(m)})

PagingInit ==
    /\ grid = <<>> /\ scenes = 0 /\ notes = <<>>
    /\ gridPages = <<>> /\ notePages = <<>>
    /\ window = [span |-> 0, clip |-> "none"]
    /\ fresh = [grid |-> TRUE, notes |-> TRUE]
    /\ shown = [costs |-> <<>>, count |-> 0]
    /\ edits = 0

Finished(pages) == pages # <<>> /\ pages[Len(pages)].count <= Len(pages)

\* A client begins with page 0, with or without saying so, goes on to the page after
\* those it has, and drops what it has when that page is not there any more.
NextParams(pages) == IF pages = <<>> \/ Finished(pages) THEN {<<>>, <<0>>, <<-1>>} ELSE {<<Len(pages)>>}

Extended(pages, params, reply) ==
    IF reply.count = -1 THEN <<>>
    ELSE IF params \in {<<>>, <<0>>} THEN <<reply>>
    ELSE Append(pages, reply)

\* Bound: a behaviour reads the grid, the notes of a clip or lists, which have
\* nothing in common.
ReadGrid ==
    /\ notePages = <<>>
    /\ \E params \in NextParams(gridPages) :
          /\ gridPages' = Extended(gridPages, params, GridReply(params))
          /\ fresh' = [fresh EXCEPT !.grid = IF params \in {<<>>, <<0>>} THEN TRUE ELSE @]
    /\ UNCHANGED <<grid, scenes, notes, notePages, window, shown, edits>>

\* /live/clip/get/notes and /live/arrangement_clip/get/notes.
ReadNotes ==
    /\ gridPages = <<>>
    /\ \E params \in NextParams(notePages) :
          /\ window' \in IF params = <<Len(notePages)>> /\ notePages # <<>>
                         THEN {window}
                         ELSE [span : Spans, clip : {"none"}]
                              \cup {[span |-> DefaultSpan(c), clip |-> c] : c \in {"session", "arrangement"}}
          /\ notePages' = Extended(notePages, params, NotesReply(window'.span, params))
          /\ fresh' = [fresh EXCEPT !.notes = IF params \in {<<>>, <<0>>} THEN TRUE ELSE @]
    /\ UNCHANGED <<grid, scenes, notes, gridPages, shown, edits>>

ReadList(costs) ==
    /\ gridPages = <<>> /\ notePages = <<>>
    /\ shown' = [costs |-> costs, count |-> Shown(costs)]
    /\ UNCHANGED <<grid, scenes, notes, gridPages, notePages, window, fresh, edits>>

EditSession ==
    /\ edits < MaxEdits
    /\ edits' = edits + 1
    /\ grid' \in Grids
    /\ scenes' \in Scenes
    /\ fresh' = [fresh EXCEPT !.grid = FALSE]
    /\ UNCHANGED <<notes, gridPages, notePages, window, shown>>

EditNotes ==
    /\ edits < MaxEdits
    /\ edits' = edits + 1
    /\ notes' \in NoteLists
    /\ fresh' = [fresh EXCEPT !.notes = FALSE]
    /\ UNCHANGED <<grid, scenes, gridPages, notePages, window, shown>>

PagingNext ==
    \/ ReadGrid
    \/ ReadNotes
    \/ \E costs \in CostLists : ReadList(costs)
    \/ EditSession
    \/ EditNotes

PagingSpec == PagingInit /\ [][PagingNext]_pagingVars

--------------------------------------------------------------------------------
PagingTypeOK ==
    /\ grid \in Grids \cup {<<>>}
    /\ scenes \in Scenes \cup {0}
    /\ notes \in NoteLists \cup {<<>>}
    /\ fresh \in [grid : BOOLEAN, notes : BOOLEAN]
    /\ shown.costs \in CostLists \cup {<<>>} /\ shown.count \in 0 .. Len(shown.costs)
    /\ edits \in 0 .. MaxEdits

Entries(pages) == FlattenSeq([k \in DOMAIN pages |-> pages[k].entries])

\* A client that has read all pages of a grid that nobody edited meanwhile has every
\* occupied slot once and in order.
GridPagesWhole == Finished(gridPages) /\ fresh.grid => Entries(gridPages) = Occupied

\* A client that was told the same total on every page has that many notes, edited
\* or not; if nobody edited them, it has the notes of the window, and of an
\* arrangement clip all notes.
NotesPagesWhole ==
    Finished(notePages) =>
        /\ (\A k \in DOMAIN notePages : notePages[k].total = notePages[1].total)
           => Len(Entries(notePages)) = notePages[1].total
        /\ fresh.notes => /\ Entries(notePages) = InWindow(window.span)
                          /\ window.clip = "arrangement" => Entries(notePages) = notes

\* No page is over the budget but for one clip that fills it alone; the entries of a
\* list fit with their marker; and nothing is withheld that would have fitted next.
PagesFit ==
    /\ \A k \in DOMAIN gridPages : Bytes(gridPages[k].entries) > Budget => Len(gridPages[k].entries) = 1
    /\ \A k \in DOMAIN notePages : Len(notePages[k].entries) <= NotesPerPage
    /\ LET Sum(n) == FoldLeft(+, MarkerBytes, SubSeq(shown.costs, 1, n)) IN
       /\ shown.count > 0 => Sum(shown.count) <= Budget
       /\ shown.count < Len(shown.costs) => Sum(shown.count + 1) > Budget
================================================================================
