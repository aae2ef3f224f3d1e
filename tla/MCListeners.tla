----------------------------- MODULE MCListeners -----------------------------
(* Listeners on two positions and three objects, one property of each kind and *)
(* one whose key all positions share.                                          *)
EXTENDS Listeners, TLC, FiniteSets

CONSTANTS o1, o2, o3, c1, c2, c3, c4

\* TrackHandler is fifth and DeviceHandler sixth in manager.handlers.
MCRank == [p \in Props |-> IF p \in Param \union Shared THEN 6 ELSE 5]

\* Bound: callbacks that exist at once.  A start always finds a free identity.
MaxCallbacks == Cardinality(IdsInUse) < Cardinality(CallbackIds)

Symmetry == Permutations({o1, o2, o3}) \union Permutations({c1, c2, c3, c4})
=============================================================================
