------------------------------ MODULE Listeners ------------------------------
(***************************************************************************)
(* The property listeners of the bridge: what the dicts listener_functions *)
(* and listener_objects of the handlers (abletonosc/handler.py) say, and   *)
(* which callbacks Live itself still holds.                                *)
(*                                                                         *)
(* A client names a Live object by its position in the set: a track index, *)
(* a clip's (track, slot), a parameter's (track, device, parameter).  The  *)
(* set is rearranged under the bridge by the user of Live, so the object   *)
(* at a position when a listener is stopped need not be the one at which   *)
(* it was started.  The handlers register listeners in three ways:         *)
(*   Plain   handler.py _start_listen and its guarded twin: both dicts     *)
(*   Mixer   track.py _start_mixer_listen: only listener_functions         *)
(*   Param   device.py's parameter value listener: only listener_functions *)
(* A key of the dicts is the property and the indices of the request, but  *)
(* for name, class_name and type of a device (Shared, all of them Plain):  *)
(* device.py hands no indices on, so all devices have the same key.        *)
(***************************************************************************)
EXTENDS Naturals

CONSTANTS
    Index,          \* positions in the set
    Objects,        \* Live objects
    NoObject,       \* nothing lies at the position
    CallbackIds,    \* identities of Python closures
    NoCallback,     \* the key is not in listener_functions
    NoIndex,        \* the key says nothing of the position
    Plain, Mixer, Param,    \* property names, by the way they are registered
    Shared,         \* those whose key all positions share
    Rank            \* place in manager.handlers of the handler of a property

Props == Plain \union Mixer \union Param
Tracked == Plain                \* kinds that enter listener_objects

ASSUME IndexAssumption == Index \subseteq Nat /\ NoIndex \notin Index
ASSUME ObjectAssumption == NoObject \notin Objects
ASSUME KindAssumption ==
    /\ Plain \intersect Mixer = {} /\ (Plain \union Mixer) \intersect Param = {}
    /\ Shared \subseteq Plain
ASSUME RankAssumption == Rank \in [Props -> Nat]

\* listener_key, of the arguments that the handler's wrapper lets through.
ListenerKey(p, i) == [prop |-> p, idx |-> IF p \in Shared THEN NoIndex ELSE i]

Key == {ListenerKey(p, i) : p \in Props, i \in Index}
Callback == [id : CallbackIds, key : Key, obj : Objects]
Request == [op : {"start", "stop"}, prop : Props, idx : Index]

ASSUME CallbackAssumption == NoCallback \notin Callback

VARIABLES
    at,         \* the object at each position
    attached,   \* the callbacks Live calls when their object changes
    functions,  \* listener_functions
    objects,    \* listener_objects
    todo,       \* what is left of a "*" request
    serving     \* the bridge still has OSC handlers

vars == <<at, attached, functions, objects, todo, serving>>

-----------------------------------------------------------------------------
(* Reading the state. *)

Present == {at[i] : i \in Index} \ {NoObject}
Registered == {k \in Key : functions[k] # NoCallback}
Orphans == {c \in attached : functions[c.key] # c}

IdsInUse == {c.id : c \in attached} \union {functions[k].id : k \in Registered}

\* What remove_..._listener(listener_functions[k]) disconnects when it is called
\* on the object now at position i.  When it is empty Live raises.
Detachable(k, i) == {c \in attached : c = functions[k] /\ c.obj = at[i]}

-----------------------------------------------------------------------------
(* A request is served alone or as the next turn of a "*" request, whose   *)
(* track_callback visits the tracks in ascending order.  A request for a   *)
(* position with no object changes nothing: an index out of range is an    *)
(* error reply, an empty slot's None has no ..._listener attribute.        *)

\* Mutant: track_callback does not check the range of the index.
TurnAnywhere(op, p, i, rest) ==
    /\ serving
    /\ LET r == [op |-> op, prop |-> p, idx |-> i] IN
       \/ todo = {} /\ todo' = {}
       \/ /\ r \in todo
          /\ \A s \in todo : i <= s.idx
          /\ todo' = rest \ {r}

Turn(op, p, i, rest) ==
    /\ serving
    /\ at[i] # NoObject
    /\ LET r == [op |-> op, prop |-> p, idx |-> i] IN
       \/ todo = {} /\ todo' = {}
       \/ /\ r \in todo
          /\ \A s \in todo : i <= s.idx
          /\ todo' = rest \ {r}

Proceed(op, p, i) == Turn(op, p, i, todo)
Raise(op, p, i) == Turn(op, p, i, {})

\* track_callback with "*" for its index: every track of the set, in turn.
StartWildcard(op, p) ==
    /\ serving /\ todo = {}
    /\ p \in (Plain \ Shared) \union Mixer
    /\ todo' = {[op |-> op, prop |-> p, idx |-> i] :
                    i \in {j \in Index : at[j] # NoObject}}
    /\ UNCHANGED <<at, attached, functions, objects, serving>>

-----------------------------------------------------------------------------
(* Starting.  The callback is called once before the start returns: it     *)
(* sends the value, and an exception in it comes after the registration.   *)

\* add_..._listener(property_changed_callback), after the listener that the key
\* had is removed from the object now at the position.
Attach(p, i, id) ==
    LET k == ListenerKey(p, i)
        c == [id |-> id, key |-> k, obj |-> at[i]]
    IN  /\ id \notin IdsInUse
        /\ attached' = (attached \ Detachable(k, i)) \union {c}
        /\ functions' = [functions EXCEPT ![k] = c]

\* Mutant: listener_objects is not brought up to date.
StartListenForgetsObject(p, i, id) ==
    /\ p \in Plain
    /\ Proceed("start", p, i) \/ Raise("start", p, i)
    /\ Attach(p, i, id)
    /\ UNCHANGED <<at, objects, serving>>

StartListen(p, i, id) ==
    /\ p \in Plain
    /\ Proceed("start", p, i) \/ Raise("start", p, i)
    /\ Attach(p, i, id)
    /\ objects' = [objects EXCEPT ![ListenerKey(p, i)] = at[i]]
    /\ UNCHANGED <<at, serving>>

\* Mutant: the error of the nested stop is swallowed, as in StartParamListen.
StartMixerListenRegardless(p, i, id) ==
    /\ p \in Mixer
    /\ Proceed("start", p, i) \/ Raise("start", p, i)
    /\ Attach(p, i, id)
    /\ UNCHANGED <<at, objects, serving>>

StartMixerListen(p, i, id) ==
    /\ p \in Mixer
    /\ LET k == ListenerKey(p, i) IN k \in Registered => Detachable(k, i) # {}
    /\ Proceed("start", p, i) \/ Raise("start", p, i)
    /\ Attach(p, i, id)
    /\ UNCHANGED <<at, objects, serving>>

\* device.py: the nested stop is @guarded_lom, so its error is dropped and the
\* old callback is overwritten.  So is the start itself.
StartParamListen(p, i, id) ==
    /\ p \in Param
    /\ Proceed("start", p, i)
    /\ Attach(p, i, id)
    /\ UNCHANGED <<at, objects, serving>>

-----------------------------------------------------------------------------
(* Stopping. *)

Unregister(k, i) ==
    /\ attached' = attached \ Detachable(k, i)
    /\ functions' = [functions EXCEPT ![k] = NoCallback]

\* Mutant: the entry stays in the dicts.
StopListenKeepsEntry(p, i) ==
    /\ p \in Plain /\ ListenerKey(p, i) \in Registered
    /\ Proceed("stop", p, i)
    /\ attached' = attached \ Detachable(ListenerKey(p, i), i)
    /\ UNCHANGED <<at, functions, objects, serving>>

StopListen(p, i) ==
    LET k == ListenerKey(p, i) IN
    /\ p \in Plain /\ k \in Registered
    /\ Proceed("stop", p, i)
    /\ Unregister(k, i)
    /\ objects' = [objects EXCEPT ![k] = NoObject]
    /\ UNCHANGED <<at, serving>>

StopUntracked(p, i) ==
    LET k == ListenerKey(p, i) IN
    /\ p \in Mixer \union Param
    /\ k \in Registered /\ Detachable(k, i) # {}
    /\ Proceed("stop", p, i)
    /\ Unregister(k, i)
    /\ UNCHANGED <<at, objects, serving>>

\* "No listener function found": a warning.
StopUnknown(p, i) ==
    /\ ListenerKey(p, i) \notin Registered
    /\ Proceed("stop", p, i)
    /\ UNCHANGED <<at, attached, functions, objects, serving>>

\* Live refuses to disconnect a callback the object does not have, and nothing
\* is caught: a start or stop of a mixer listener, the stop of a parameter's.
RemoveRaises(op, p, i) ==
    LET k == ListenerKey(p, i) IN
    /\ k \in Registered /\ Detachable(k, i) = {}
    /\ p \in (IF op = "start" THEN Mixer ELSE Mixer \union Param)
    /\ Raise(op, p, i)
    /\ UNCHANGED <<at, attached, functions, objects, serving>>

-----------------------------------------------------------------------------
(* /live/api/reload: manager.clear_api drops the OSC handlers, then has    *)
(* each handler clear its listeners with the object recorded for each key; *)
(* manager.init_api then makes new handlers, with empty dicts.             *)

Cleared(done) == {c \in attached : c = functions[c.key] /\ c.key \in done
                                     /\ c.obj = objects[c.key]}

\* Mutant: the handlers are replaced without their listeners being cleared.
ReloadWithoutClearing ==
    /\ serving /\ todo = {}
    /\ functions' = [k \in Key |-> NoCallback]
    /\ objects' = [k \in Key |-> NoObject]
    /\ UNCHANGED <<at, attached, todo, serving>>

Reload ==
    /\ serving /\ todo = {}
    /\ \A k \in Registered : objects[k] # NoObject
    /\ attached' = attached \ Cleared(Registered)
    /\ functions' = [k \in Key |-> NoCallback]
    /\ objects' = [k \in Key |-> NoObject]
    /\ UNCHANGED <<at, todo, serving>>

\* A key that is not in listener_objects is a KeyError, before init_api: the
\* handlers ahead of its own are cleared, and its own in part.
ReloadRaises ==
    /\ serving /\ todo = {}
    /\ \E u \in Registered, done \in SUBSET {k \in Registered : objects[k] # NoObject} :
        /\ objects[u] = NoObject
        /\ \A k \in Registered :
            /\ objects[k] = NoObject => Rank[u.prop] <= Rank[k.prop]
            /\ Rank[k.prop] < Rank[u.prop] => k \in done
            /\ k \in done => Rank[k.prop] <= Rank[u.prop]
        /\ attached' = attached \ Cleared(done)
        /\ functions' = [k \in Key |-> IF k \in done THEN NoCallback ELSE functions[k]]
        /\ objects' = [k \in Key |-> IF k \in done THEN NoObject ELSE objects[k]]
    /\ serving' = FALSE
    /\ UNCHANGED <<at, todo>>

-----------------------------------------------------------------------------
(* The user of Live inserts, deletes and reorders.  A deleted object takes *)
(* its listeners with it; an object that enters the set is a new one.      *)

Known == Present \union {objects[k] : k \in Key}
               \union {functions[k].obj : k \in Registered}

Layouts == {l \in [Index -> Objects \union {NoObject}] :
                \A i, j \in Index : l[i] = l[j] /\ l[i] # NoObject => i = j}

Rearrange(l) ==
    /\ todo = {}
    /\ \A i \in Index : l[i] \in Present \/ l[i] \notin Known \/ l[i] = NoObject
    /\ at' = l
    /\ attached' = {c \in attached : \E i \in Index : l[i] = c.obj}
    /\ UNCHANGED <<functions, objects, todo, serving>>

-----------------------------------------------------------------------------
Init ==
    /\ at \in Layouts
    /\ attached = {}
    /\ functions = [k \in Key |-> NoCallback]
    /\ objects = [k \in Key |-> NoObject]
    /\ todo = {}
    /\ serving = TRUE

Next ==
    \/ \E p \in Props, i \in Index, id \in CallbackIds :
        StartListen(p, i, id) \/ StartMixerListen(p, i, id) \/ StartParamListen(p, i, id)
    \/ \E p \in Props, i \in Index :
        StopListen(p, i) \/ StopUntracked(p, i) \/ StopUnknown(p, i)
    \/ \E op \in {"start", "stop"}, p \in Props, i \in Index : RemoveRaises(op, p, i)
    \/ \E op \in {"start", "stop"}, p \in Props : StartWildcard(op, p)
    \/ Reload
    \/ ReloadRaises
    \/ \E l \in Layouts : Rearrange(l)

Spec == Init /\ [][Next]_vars
-----------------------------------------------------------------------------
(* What holds. *)

TypeOK ==
    /\ at \in [Index -> Objects \union {NoObject}]
    /\ attached \in SUBSET Callback
    /\ functions \in [Key -> Callback \union {NoCallback}]
    /\ objects \in [Key -> Objects \union {NoObject}]
    /\ todo \in SUBSET Request
    /\ serving \in BOOLEAN

\* The two dicts agree on the listeners that use both (handler.py 100-101 and
\* 126-127): the recorded object is the one the registered callback is for.  It
\* is what lets _clear_listeners find every such listener however the set moved.
DictsAgree ==
    \A k \in Key :
        /\ functions[k] # NoCallback => functions[k].key = k
        /\ objects[k] = IF k.prop \in Tracked /\ functions[k] # NoCallback
                         THEN functions[k].obj ELSE NoObject

\* As long as the object of a registered listener exists, Live still calls the
\* listener: none is silenced by starts, stops and moves of other positions.
RegisteredIsAttached ==
    \A k \in Registered : functions[k].obj \in Present => functions[k] \in attached

\* track.py: a mixer listener that Live still calls is in listener_functions, so
\* it can be stopped: the price is the entry that cannot be replaced (see
\* MixerEntryHeld).
MixerCallbacksKnown ==
    \A c \in attached : c.key.prop \in Mixer => functions[c.key] = c

\* A callback that Live calls and no dict knows, which nothing can disconnect any
\* more, comes only from a start or stop whose position holds another object than
\* the callback's.  For a key that names its position, the object there must have
\* been exchanged since the start.  For the key that devices share, no move is
\* needed: to start or stop the listener of another device is enough.  A reload
\* leaves none of its own behind (handler.py 118-127, device.py 124-125).
OrphansNeedAnotherObject ==
    [][\A c \in Orphans' \ Orphans : \E i \in Index :
            /\ ListenerKey(c.key.prop, i) = c.key
            /\ at[i] # c.obj
            /\ \/ StopListen(c.key.prop, i)
               \/ \E id \in CallbackIds : \/ StartListen(c.key.prop, i, id)
                                          \/ StartParamListen(c.key.prop, i, id)]_vars

\* track.py 354-355 and 372-379: a mixer entry changes only when the index again
\* names the track whose mixer the listener is on; until then each start and
\* stop for the index fails.
MixerEntryHeld ==
    [][\A k \in Registered : k.prop \in Mixer /\ functions'[k] # functions[k] =>
            /\ functions[k] \in attached
            /\ functions[k].obj = at[k.idx]]_vars

\* Only a reload with a mixer or parameter listener registered costs the bridge
\* its OSC handlers (handler.py 136).
ServiceLostOnlyByUntracked ==
    [][serving /\ ~serving' => \E k \in Registered : k.prop \notin Tracked]_vars

-----------------------------------------------------------------------------
(* What the repository says and the code does not do. *)

\* CONTRIBUTING.md 19: with a reload "it's not necessary to restart Live": the
\* bridge serves requests after it.
ReloadKeepsServing == [][serving => serving']_vars

\* handler.py 119-122: the error of remove_..._listener that _stop_listen drops
\* means that the observer is no longer connected.  (It comes with no move of the
\* set when the stop names another device, device.py 41-44.)
DroppedErrorIsBenign ==
    [][\A p \in Props, i \in Index :
        StopListen(p, i) => functions[ListenerKey(p, i)] \notin attached']_vars
=============================================================================
