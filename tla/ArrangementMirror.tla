--------------------------- MODULE ArrangementMirror ---------------------------
(***************************************************************************)
(* What the Arrangement View protocol promises, without its messages.  A   *)
(* cache is a ledger that is only added to at its end; each entry is the   *)
(* song of the moment it is written, and a reload begins an empty ledger.  *)
(* A client shows nothing, or moves in one step to an entry not older than *)
(* the one it shows.  Nothing is promised of a client that shows what came *)
(* from an earlier ledger, but it cannot pass for one of this ledger until *)
(* it has dropped what it shows.                                           *)
(***************************************************************************)
EXTENDS Naturals

CONSTANTS Clients, Bodies, Revisions, NoBody

VARIABLES
    song,
    epoch,      \* which ledger is open
    announced,  \* its entries
    shown,      \* the body each client shows
    at,         \* the revision it shows it for
    from        \* the ledger that came from, 0 if from several

cacheState == <<epoch, announced>>
clientState == <<shown, at, from>>
vars == <<song, cacheState, clientState>>

Edit == song' \in Bodies /\ UNCHANGED <<cacheState, clientState>>

Announce(r) ==
    /\ \A q \in Revisions : q >= r => announced[q] = NoBody
    /\ announced' = [announced EXCEPT ![r] = song]
    /\ UNCHANGED <<song, epoch, clientState>>

Renew ==
    /\ epoch' = epoch + 1
    /\ announced' = [r \in Revisions |-> NoBody]
    /\ UNCHANGED <<song, clientState>>

Move(c, b, r, e) ==
    /\ e = epoch => announced[r] = b
    /\ shown[c] # NoBody => at[c] <= r /\ e \in {0, from[c]}
    /\ shown' = [shown EXCEPT ![c] = b]
    /\ at' = [at EXCEPT ![c] = r]
    /\ from' = [from EXCEPT ![c] = e]
    /\ UNCHANGED <<song, cacheState>>

Drop(c) ==
    /\ shown' = [shown EXCEPT ![c] = NoBody]
    /\ UNCHANGED <<song, cacheState, at, from>>

Init ==
    /\ song \in Bodies
    /\ epoch = 1
    /\ announced = [r \in Revisions |-> NoBody]
    /\ shown = [c \in Clients |-> NoBody]
    /\ at = [c \in Clients |-> 0]
    /\ from = [c \in Clients |-> 0]

Next ==
    \/ Edit
    \/ \E r \in Revisions : Announce(r)
    \/ Renew
    \/ \E c \in Clients, b \in Bodies, r \in Revisions, e \in 0 .. epoch : Move(c, b, r, e)
    \/ \E c \in Clients : Drop(c)

Spec == Init /\ [][Next]_vars
===============================================================================
