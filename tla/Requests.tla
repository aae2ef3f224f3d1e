------------------------------- MODULE Requests -------------------------------
(* The handlers of requests that keep something between requests, or between the    *)
(* calls that one request makes, side by side.  Each runs in the main thread of      *)
(* Live, one request after the other, and none touches what another one keeps.       *)
EXTENDS BrowserLoad, Paging, BrowserMetadata, SessionReads, BeatListener, ClipEdits, ClipFilter

CONSTANT Tasks \* the handlers that are used

VARIABLE task

vars == <<task, loadVars, pagingVars, metaVars, sessionVars, beatVars, clipVars, filterVars>>

Init ==
    /\ task \in Tasks
    /\ LoadInit /\ PagingInit /\ MetaInit /\ SessionInit /\ BeatInit /\ ClipInit /\ FilterInit

\* The handlers share no state: each task is the behaviours of one of them.
LoadTask ==
    /\ task = "load"
    /\ LoadNext
    /\ UNCHANGED <<task, pagingVars, metaVars, sessionVars, beatVars, clipVars, filterVars>>

PagingTask ==
    /\ task = "pages"
    /\ PagingNext
    /\ UNCHANGED <<task, loadVars, metaVars, sessionVars, beatVars, clipVars, filterVars>>

MetaTask ==
    /\ task = "metadata"
    /\ MetaNext
    /\ UNCHANGED <<task, loadVars, pagingVars, sessionVars, beatVars, clipVars, filterVars>>

SessionTask ==
    /\ task = "session"
    /\ SessionNext
    /\ UNCHANGED <<task, loadVars, pagingVars, metaVars, beatVars, clipVars, filterVars>>

BeatTask ==
    /\ task = "beat"
    /\ BeatNext
    /\ UNCHANGED <<task, loadVars, pagingVars, metaVars, sessionVars, clipVars, filterVars>>

ClipTask ==
    /\ task = "clips"
    /\ ClipNext
    /\ UNCHANGED <<task, loadVars, pagingVars, metaVars, sessionVars, beatVars, filterVars>>

FilterTask ==
    /\ task = "filter"
    /\ FilterNext
    /\ UNCHANGED <<task, loadVars, pagingVars, metaVars, sessionVars, beatVars, clipVars>>

Next ==
    \/ LoadTask
    \/ PagingTask
    \/ MetaTask
    \/ SessionTask
    \/ BeatTask
    \/ ClipTask
    \/ FilterTask

Spec == Init /\ [][Next]_vars

--------------------------------------------------------------------------------
\* The variables of every handler have their types.
RequestsTypeOK == LoadTypeOK /\ PagingTypeOK /\ MetaTypeOK /\ BeatTypeOK /\ ClipTypeOK

\* What is read page by page is read whole.
PagesAreWhole == GridPagesWhole /\ NotesPagesWhole /\ MetadataPagesWhole
================================================================================
