------------------------------ MODULE BeatListener ------------------------------
(* /live/song/get/beat: a listener on the song's time that sends the number of     *)
(* the beat when the time has gone back or has reached a later beat.  Times are     *)
(* counted in fractions of a beat; Live tells its listeners of a change later, and   *)
(* of several changes once.                                                         *)
EXTENDS Integers

CONSTANTS
    Fraction, \* fractions of a beat
    MaxTime   \* bound: how far a song goes

ASSUME FractionPositive == Fraction \in Nat \ {0}
ASSUME MaxTimeNat == MaxTime \in Nat

VARIABLES
    songTime,     \* current_song_time
    lastSongTime, \* last_song_time of the handler
    listening,    \* the listener is attached
    due,          \* Live has a change to tell
    beat          \* the last beat that was sent since the handler was made, or -1

beatVars == <<songTime, lastSongTime, listening, due, beat>>

\* int() of a time: towards zero.
Beat(t) == IF t >= 0 THEN t \div Fraction ELSE -((-t) \div Fraction)

BeatInit ==
    /\ songTime = 0
    /\ lastSongTime = -Fraction
    /\ listening = FALSE
    /\ due = FALSE
    /\ beat = -1

\* The song plays on, or the user puts it elsewhere.
MoveTo(t) ==
    /\ t # songTime
    /\ songTime' = t
    /\ due' = listening
    /\ UNCHANGED <<lastSongTime, listening, beat>>

\* start_beat_listener stops first; a listener that was not attached is no error.
StartListen ==
    /\ listening' = TRUE
    /\ due' = FALSE
    /\ UNCHANGED <<songTime, lastSongTime, beat>>

StopListen ==
    /\ listening' = FALSE
    /\ due' = FALSE
    /\ UNCHANGED <<songTime, lastSongTime, beat>>

\* Mutant: only a later beat is sent.
TimeChangedForward ==
    /\ due
    /\ due' = FALSE
    /\ beat' = IF Beat(songTime) > Beat(lastSongTime) THEN Beat(songTime) ELSE beat
    /\ lastSongTime' = songTime
    /\ UNCHANGED <<songTime, listening>>

\* current_song_time_changed.
TimeChanged ==
    /\ due
    /\ due' = FALSE
    /\ beat' = IF songTime < lastSongTime \/ Beat(songTime) > Beat(lastSongTime) THEN Beat(songTime) ELSE beat
    /\ lastSongTime' = songTime
    /\ UNCHANGED <<songTime, listening>>

\* clear_api: the listener goes with its handler, and a new handler has seen nothing.
ReloadSong ==
    /\ listening' = FALSE
    /\ due' = FALSE
    /\ lastSongTime' = -Fraction
    /\ beat' = -1
    /\ UNCHANGED songTime

BeatNext ==
    \/ \E t \in 0 .. MaxTime : MoveTo(t)
    \/ StartListen
    \/ StopListen
    \/ TimeChanged
    \/ ReloadSong

BeatSpec == BeatInit /\ [][BeatNext]_beatVars

--------------------------------------------------------------------------------
BeatTypeOK ==
    /\ songTime \in 0 .. MaxTime
    /\ lastSongTime \in {-Fraction} \cup 0 .. MaxTime
    /\ listening \in BOOLEAN /\ due \in BOOLEAN
    /\ beat \in -1 .. Beat(MaxTime)

\* The last beat sent is the beat of the last time that the handler saw, however the
\* song has jumped, the listener been stopped and started again, and callbacks been
\* merged: so it is the beat of the song once every change has been told.
BeatKnown ==
    /\ lastSongTime >= 0 => beat = Beat(lastSongTime)
    /\ lastSongTime < 0 => beat = -1
================================================================================
