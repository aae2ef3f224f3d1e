--------------------------- MODULE ListenersProofs ---------------------------
(***************************************************************************)
(* Proofs about Listeners for any positions, objects, callbacks and        *)
(* property kinds.  RegisteredIsAttached and MixerCallbacksKnown are not   *)
(* inductive alone: that an entry of one key is not disconnected by an     *)
(* operation on another rests on DictsAgree (a callback carries its key),  *)
(* and a reload on the recorded object being the callback's own.           *)
(***************************************************************************)
EXTENDS Listeners, TLAPS

IInv == TypeOK /\ DictsAgree /\ RegisteredIsAttached /\ MixerCallbacksKnown

\* The actions that serve one request, the part of Next that the proofs treat
\* alike.
StartStep(p, i, id) ==
    StartListen(p, i, id) \/ StartMixerListen(p, i, id) \/ StartParamListen(p, i, id)
StopStep(p, i) == StopListen(p, i) \/ StopUntracked(p, i)
IdleStep ==
    \/ \E p \in Props, i \in Index : StopUnknown(p, i)
    \/ \E op \in {"start", "stop"}, p \in Props, i \in Index : RemoveRaises(op, p, i)
    \/ \E op \in {"start", "stop"}, p \in Props : StartWildcard(op, p)

\* Every step is a start, a stop, a request without effect on the listeners, a
\* reload or a rearrangement.
LEMMA NextCases ==
    ASSUME Next
    PROVE  \/ \E p \in Props, i \in Index, id \in CallbackIds : StartStep(p, i, id)
           \/ \E p \in Props, i \in Index : StopStep(p, i)
           \/ IdleStep
           \/ Reload
           \/ ReloadRaises
           \/ \E l \in Layouts : Rearrange(l)
BY DEF Next, StartStep, StopStep, IdleStep

\* What an idle step leaves alone.
LEMMA IdleUnchanged ==
    ASSUME IdleStep
    PROVE  UNCHANGED <<at, attached, functions, objects, serving>>
BY DEF IdleStep, StopUnknown, RemoveRaises, StartWildcard

\* The requests still to be served stay requests.
LEMMA TodoTyped ==
    ASSUME TypeOK, Next
    PROVE  todo' \in SUBSET Request
<1>1. ASSUME NEW op \in {"start", "stop"}, NEW p \in Props, NEW i \in Index,
             NEW rest \in SUBSET Request, Turn(op, p, i, rest)
      PROVE  todo' \in SUBSET Request
  BY <1>1 DEF Turn
<1>2. todo \in SUBSET Request /\ {} \in SUBSET Request
  BY DEF TypeOK
<1>3. ASSUME NEW op \in {"start", "stop"}, NEW p \in Props, StartWildcard(op, p)
      PROVE  todo' \in SUBSET Request
  BY <1>3 DEF StartWildcard, Request
<1> QED
  BY <1>1, <1>2, <1>3 DEF Next, StartListen, StartMixerListen, StartParamListen,
     StopListen, StopUntracked, StopUnknown, RemoveRaises, Reload, ReloadRaises,
     Rearrange, Proceed, Raise

-----------------------------------------------------------------------------
(* The effect of each step on the listeners, in one place for all proofs.  *)

\* A key of a property carries it, and names the position unless it is shared.
LEMMA KeyOfRequest ==
    ASSUME NEW p \in Props, NEW i \in Index
    PROVE  /\ ListenerKey(p, i) \in Key
           /\ ListenerKey(p, i).prop = p
           /\ p \notin Shared => ListenerKey(p, i).idx = i
BY DEF ListenerKey, Key

\* A start puts one new callback, for the object at the position, in the place
\* of whatever it could disconnect, and records the object if it is tracked.
LEMMA StartEffect ==
    ASSUME TypeOK, NEW p \in Props, NEW i \in Index, NEW id \in CallbackIds,
           StartStep(p, i, id)
    PROVE  LET k == ListenerKey(p, i)
               c == [id |-> id, key |-> k, obj |-> at[i]]
           IN  /\ c \in Callback
               /\ at' = at /\ serving' = serving
               /\ attached' = (attached \ Detachable(k, i)) \union {c}
               /\ functions' = [functions EXCEPT ![k] = c]
               /\ objects' = IF p \in Plain
                             THEN [objects EXCEPT ![k] = at[i]] ELSE objects
               /\ p \in Mixer /\ k \in Registered => Detachable(k, i) # {}
<1>1. ListenerKey(p, i) \in Key
  BY KeyOfRequest
<1>2. at[i] # NoObject
  BY DEF StartStep, StartListen, StartMixerListen, StartParamListen, Proceed, Raise, Turn
<1>3. at[i] \in Objects
  BY <1>2 DEF TypeOK
<1>4. [id |-> id, key |-> ListenerKey(p, i), obj |-> at[i]] \in Callback
  BY <1>1, <1>3 DEF Callback
<1> QED
  BY <1>4, KindAssumption
     DEF StartStep, StartListen, StartMixerListen, StartParamListen, Attach

\* A stop disconnects what it can and drops the entry; of a listener that is not
\* tracked it drops the entry only when it disconnected something.
LEMMA StopEffect ==
    ASSUME NEW p \in Props, NEW i \in Index, StopStep(p, i)
    PROVE  LET k == ListenerKey(p, i)
           IN  /\ at' = at /\ serving' = serving
               /\ attached' = attached \ Detachable(k, i)
               /\ functions' = [functions EXCEPT ![k] = NoCallback]
               /\ objects' = IF p \in Plain
                             THEN [objects EXCEPT ![k] = NoObject] ELSE objects
               /\ k \in Registered
               /\ p \notin Plain => Detachable(k, i) # {}
BY KindAssumption DEF StopStep, StopListen, StopUntracked, Unregister

-----------------------------------------------------------------------------
(* Invariance of IInv. *)

\* Nothing is registered when the bridge starts.
LEMMA InitIInv == Init => IInv
BY CallbackAssumption DEF Init, IInv, TypeOK, DictsAgree, RegisteredIsAttached,
   MixerCallbacksKnown, Layouts, Registered

\* What a callback of listener_functions can be.
LEMMA RegisteredFacts ==
    ASSUME TypeOK, DictsAgree, NEW k \in Key, k \in Registered
    PROVE  /\ functions[k] \in Callback
           /\ functions[k].key = k
           /\ functions[k].obj \in Objects
BY DEF TypeOK, DictsAgree, Registered, Callback

\* Disconnecting for one key leaves the callbacks of the others alone.
LEMMA DetachableOwnKey ==
    ASSUME DictsAgree, TypeOK, NEW k \in Key, NEW i \in Index, NEW c \in Detachable(k, i)
    PROVE  c = functions[k] /\ c.key = k /\ c \in attached /\ c.obj = at[i]
BY CallbackAssumption DEF Detachable, DictsAgree, TypeOK

\* A start keeps the dicts and Live in step.
LEMMA StartIInv ==
    ASSUME IInv, NEW p \in Props, NEW i \in Index, NEW id \in CallbackIds,
           StartStep(p, i, id), todo' \in SUBSET Request
    PROVE  IInv'
<1> DEFINE k == ListenerKey(p, i)
           c == [id |-> id, key |-> k, obj |-> at[i]]
<1>1. /\ c \in Callback
      /\ at' = at /\ serving' = serving
      /\ attached' = (attached \ Detachable(k, i)) \union {c}
      /\ functions' = [functions EXCEPT ![k] = c]
      /\ objects' = IF p \in Plain THEN [objects EXCEPT ![k] = at[i]] ELSE objects
      /\ p \in Mixer /\ k \in Registered => Detachable(k, i) # {}
  BY StartEffect DEF IInv
<1>2. /\ c.key = k /\ c.obj = at[i] /\ c # NoCallback /\ c.obj \in Objects
      /\ k \in Key /\ k.prop = p
  BY <1>1, CallbackAssumption, KeyOfRequest DEF Callback
<1> HIDE DEF c, k
<1>3. TypeOK'
  BY <1>1, <1>2 DEF IInv, TypeOK
<1>4. /\ functions'[k] = c
      /\ \A j \in Key : j # k => functions'[j] = functions[j]
  BY <1>1, <1>2 DEF IInv, TypeOK
<1>5. DictsAgree'
  BY <1>1, <1>2, <1>4, ObjectAssumption DEF IInv, TypeOK, DictsAgree, Tracked
<1>6. RegisteredIsAttached'
  <2> SUFFICES ASSUME NEW j \in Key, functions'[j] # NoCallback, functions'[j].obj \in Present'
               PROVE  functions'[j] \in attached'
    BY DEF RegisteredIsAttached, Registered
  <2>1. CASE j = k
    BY <2>1, <1>1, <1>4
  <2>2. CASE j # k
    <3>1. functions'[j] = functions[j] /\ functions[j] \in attached
      BY <2>2, <1>1, <1>4 DEF IInv, RegisteredIsAttached, Registered, Present
    <3>2. functions[j].key = j
      BY <3>1 DEF IInv, DictsAgree
    <3> QED
      BY <2>2, <3>1, <3>2, <1>1, <1>2, DetachableOwnKey DEF IInv
  <2> QED
    BY <2>1, <2>2
<1>7. MixerCallbacksKnown'
  <2> SUFFICES ASSUME NEW d \in attached', d.key.prop \in Mixer, d # c
               PROVE  functions'[d.key] = d
    BY <1>2, <1>4 DEF MixerCallbacksKnown
  <2>1. d \in attached /\ d \notin Detachable(k, i) /\ d \in Callback /\ d.key \in Key
    BY <1>1 DEF IInv, TypeOK, Callback
  <2>2. functions[d.key] = d
    BY <2>1 DEF IInv, MixerCallbacksKnown
  <2>3. d.key # k
    <3> SUFFICES ASSUME d.key = k
                 PROVE  FALSE
      OBVIOUS
    <3>1. k \in Registered
      BY <2>1, <2>2, CallbackAssumption DEF Registered
    <3>2. PICK e \in Detachable(k, i) : TRUE
      BY <3>1, <1>1, <1>2
    <3> QED
      BY <3>2, <2>1, <2>2, DetachableOwnKey DEF IInv
  <2> QED
    BY <2>1, <2>2, <2>3, <1>4
<1> QED
  BY <1>3, <1>5, <1>6, <1>7 DEF IInv

\* So does a stop, tracked or not.
LEMMA StopIInv ==
    ASSUME IInv, NEW p \in Props, NEW i \in Index, StopStep(p, i),
           todo' \in SUBSET Request
    PROVE  IInv'
<1> DEFINE k == ListenerKey(p, i)
<1>1. /\ at' = at /\ serving' = serving
      /\ attached' = attached \ Detachable(k, i)
      /\ functions' = [functions EXCEPT ![k] = NoCallback]
      /\ objects' = IF p \in Plain THEN [objects EXCEPT ![k] = NoObject] ELSE objects
      /\ k \in Registered
      /\ p \notin Plain => Detachable(k, i) # {}
      /\ k \in Key /\ k.prop = p
  BY StopEffect, KeyOfRequest
<1> HIDE DEF k
<1>2. TypeOK'
  BY <1>1 DEF IInv, TypeOK
<1>3. /\ functions'[k] = NoCallback
      /\ \A j \in Key : j # k => functions'[j] = functions[j]
  BY <1>1 DEF IInv, TypeOK
<1>4. DictsAgree'
  BY <1>1, <1>3 DEF IInv, TypeOK, DictsAgree, Tracked
<1>5. RegisteredIsAttached'
  <2> SUFFICES ASSUME NEW j \in Key, functions'[j] # NoCallback, functions'[j].obj \in Present'
               PROVE  functions'[j] \in attached'
    BY DEF RegisteredIsAttached, Registered
  <2>1. j # k /\ functions'[j] = functions[j]
    BY <1>3
  <2>2. functions[j] \in attached /\ functions[j].key = j
    BY <2>1, <1>1 DEF IInv, RegisteredIsAttached, DictsAgree, Registered, Present
  <2> QED
    BY <2>1, <2>2, <1>1, DetachableOwnKey DEF IInv
<1>6. MixerCallbacksKnown'
  <2> SUFFICES ASSUME NEW d \in attached', d.key.prop \in Mixer
               PROVE  functions'[d.key] = d
    BY DEF MixerCallbacksKnown
  <2>1. d \in attached /\ d \notin Detachable(k, i) /\ d \in Callback /\ d.key \in Key
    BY <1>1 DEF IInv, TypeOK, Callback
  <2>2. functions[d.key] = d
    BY <2>1 DEF IInv, MixerCallbacksKnown
  <2>3. d.key # k
    <3> SUFFICES ASSUME d.key = k
                 PROVE  FALSE
      OBVIOUS
    <3>1. p \notin Plain
      BY <1>1, KindAssumption
    <3>2. PICK e \in Detachable(k, i) : TRUE
      BY <3>1, <1>1
    <3> QED
      BY <3>2, <2>1, <2>2, DetachableOwnKey DEF IInv
  <2> QED
    BY <2>1, <2>2, <2>3, <1>3
<1> QED
  BY <1>2, <1>4, <1>5, <1>6 DEF IInv

\* A reload that succeeds had only tracked listeners to clear, and clears them.
LEMMA ReloadIInv ==
    ASSUME IInv, Reload
    PROVE  IInv' /\ Orphans' \subseteq Orphans
<1>1. /\ at' = at /\ todo' = todo /\ serving' = serving
      /\ attached' = attached \ Cleared(Registered)
      /\ functions' = [k \in Key |-> NoCallback]
      /\ objects' = [k \in Key |-> NoObject]
      /\ \A k \in Registered : objects[k] # NoObject
  BY DEF Reload
<1>2. TypeOK' /\ DictsAgree' /\ RegisteredIsAttached'
  BY <1>1 DEF IInv, TypeOK, DictsAgree, RegisteredIsAttached, Registered
<1>3. ASSUME NEW d \in attached'
      PROVE  d \in attached /\ functions[d.key] # d
  <2>1. d \in attached /\ d \notin Cleared(Registered) /\ d \in Callback /\ d.key \in Key
    BY <1>1 DEF IInv, TypeOK, Callback
  <2> SUFFICES ASSUME functions[d.key] = d
               PROVE  FALSE
    BY <2>1
  <2>2. d.key \in Registered
    BY <2>1, CallbackAssumption DEF Registered
  <2>3. d.obj = objects[d.key]
    BY <1>1, <2>1, <2>2 DEF IInv, DictsAgree, Registered
  <2> QED
    BY <2>1, <2>2, <2>3 DEF Cleared
<1>4. MixerCallbacksKnown'
  BY <1>1, <1>3 DEF IInv, MixerCallbacksKnown
<1>5. Orphans' \subseteq Orphans
  BY <1>3 DEF Orphans
<1> QED
  BY <1>2, <1>4, <1>5 DEF IInv

\* A reload that fails has cleared only tracked listeners, from their objects.
LEMMA ReloadRaisesIInv ==
    ASSUME IInv, ReloadRaises
    PROVE  IInv' /\ Orphans' \subseteq Orphans
<1>1. PICK done \in SUBSET {k \in Registered : objects[k] # NoObject} :
      /\ attached' = attached \ Cleared(done)
      /\ functions' = [k \in Key |-> IF k \in done THEN NoCallback ELSE functions[k]]
      /\ objects' = [k \in Key |-> IF k \in done THEN NoObject ELSE objects[k]]
  BY DEF ReloadRaises
<1>2. at' = at /\ todo' = todo /\ serving' = FALSE
  BY DEF ReloadRaises
<1>3. done \subseteq Key /\ \A k \in done : k.prop \in Plain /\ objects[k] = functions[k].obj
  BY <1>1 DEF IInv, DictsAgree, Registered, Tracked
<1>4. TypeOK' /\ DictsAgree'
  BY <1>1, <1>2, <1>3 DEF IInv, TypeOK, DictsAgree
<1>5. RegisteredIsAttached'
  <2> SUFFICES ASSUME NEW j \in Key, functions'[j] # NoCallback, functions'[j].obj \in Present'
               PROVE  functions'[j] \in attached'
    BY DEF RegisteredIsAttached, Registered
  <2>1. j \notin done /\ functions'[j] = functions[j]
    BY <1>1
  <2>2. functions[j] \in attached /\ functions[j].key = j
    BY <2>1, <1>2 DEF IInv, RegisteredIsAttached, DictsAgree, Registered, Present
  <2> QED
    BY <2>1, <2>2, <1>1 DEF Cleared
<1>6. ASSUME NEW d \in attached', functions[d.key] = d
      PROVE  d \in attached /\ functions'[d.key] = d
  <2>1. d \in attached /\ d \notin Cleared(done) /\ d \in Callback /\ d.key \in Key
    BY <1>1 DEF IInv, TypeOK, Callback
  <2>2. d.key \notin done
    BY <2>1, <1>3, <1>6 DEF Cleared
  <2> QED
    BY <2>1, <2>2, <1>1, <1>6
<1>7. attached' \subseteq attached
  BY <1>1
<1>8. MixerCallbacksKnown'
  BY <1>6, <1>7 DEF IInv, MixerCallbacksKnown
<1>9. Orphans' \subseteq Orphans
  BY <1>6, <1>7 DEF Orphans
<1> QED
  BY <1>4, <1>5, <1>8, <1>9 DEF IInv

\* A rearrangement takes listeners only from objects that leave the set, and no
\* object that an entry still names comes back.
LEMMA RearrangeIInv ==
    ASSUME IInv, NEW l \in Layouts, Rearrange(l)
    PROVE  IInv' /\ Orphans' \subseteq Orphans
<1>1. /\ at' = l /\ UNCHANGED <<functions, objects, todo, serving>>
      /\ attached' = {c \in attached : \E i \in Index : l[i] = c.obj}
      /\ \A i \in Index : l[i] \in Present \/ l[i] \notin Known \/ l[i] = NoObject
  BY DEF Rearrange
<1>2. TypeOK' /\ DictsAgree'
  BY <1>1 DEF IInv, TypeOK, DictsAgree, Layouts
<1>3. RegisteredIsAttached'
  <2> SUFFICES ASSUME NEW j \in Key, functions[j] # NoCallback, functions[j].obj \in Present'
               PROVE  functions[j] \in attached'
    BY <1>1 DEF RegisteredIsAttached, Registered
  <2>1. PICK i \in Index : l[i] = functions[j].obj /\ l[i] # NoObject
    BY <1>1 DEF Present
  <2>2. functions[j].obj \in Known
    BY DEF Known, Registered
  <2>3. functions[j] \in attached
    BY <1>1, <2>1, <2>2 DEF IInv, RegisteredIsAttached, Registered
  <2> QED
    BY <1>1, <2>1, <2>3
<1>4. MixerCallbacksKnown' /\ Orphans' \subseteq Orphans
  BY <1>1 DEF IInv, MixerCallbacksKnown, Orphans
<1> QED
  BY <1>2, <1>3, <1>4 DEF IInv

\* A request without effect leaves every listener as it was.
LEMMA UnchangedIInv ==
    ASSUME IInv, UNCHANGED <<at, attached, functions, objects, serving>>,
           todo' \in SUBSET Request
    PROVE  IInv' /\ Orphans' \subseteq Orphans
BY DEF IInv, TypeOK, DictsAgree, RegisteredIsAttached, MixerCallbacksKnown, Registered,
   Present, Orphans

\* IInv is inductive.
LEMMA NextIInv == IInv /\ [Next]_vars => IInv'
<1> SUFFICES ASSUME IInv, [Next]_vars
             PROVE  IInv'
  OBVIOUS
<1>1. CASE UNCHANGED vars
  BY <1>1, UnchangedIInv DEF vars, IInv, TypeOK
<1>2. CASE Next
  <2>1. todo' \in SUBSET Request
    BY <1>2, TodoTyped DEF IInv
  <2>2. ASSUME NEW p \in Props, NEW i \in Index, NEW id \in CallbackIds,
               StartStep(p, i, id)
        PROVE  IInv'
    BY <2>1, <2>2, StartIInv
  <2>3. ASSUME NEW p \in Props, NEW i \in Index, StopStep(p, i)
        PROVE  IInv'
    BY <2>1, <2>3, StopIInv
  <2>4. CASE IdleStep
    BY <2>1, <2>4, IdleUnchanged, UnchangedIInv
  <2>5. CASE Reload
    BY <2>5, ReloadIInv
  <2>6. CASE ReloadRaises
    BY <2>6, ReloadRaisesIInv
  <2>7. ASSUME NEW l \in Layouts, Rearrange(l)
        PROVE  IInv'
    BY <2>7, RearrangeIInv
  <2> QED
    BY <1>2, <2>2, <2>3, <2>4, <2>5, <2>6, <2>7, NextCases
<1> QED
  BY <1>1, <1>2

\* IInv holds in every reachable state.
LEMMA Invariance == Spec => []IInv
BY InitIInv, NextIInv, PTL DEF Spec

-----------------------------------------------------------------------------
(* The theorems. *)

\* The dicts, the callbacks and the requests stay what their names say.
THEOREM TypeCorrect == Spec => []TypeOK
<1>1. IInv => TypeOK
  BY DEF IInv
<1> QED
  BY <1>1, Invariance, PTL

\* listener_functions and listener_objects agree on every tracked listener, so
\* _clear_listeners finds each of them on the object it was added to.
THEOREM DictsAlwaysAgree == Spec => []DictsAgree
<1>1. IInv => DictsAgree
  BY DEF IInv
<1> QED
  BY <1>1, Invariance, PTL

\* No operation on other positions silences a registered listener.
THEOREM RegisteredAlwaysAttached == Spec => []RegisteredIsAttached
<1>1. IInv => RegisteredIsAttached
  BY DEF IInv
<1> QED
  BY <1>1, Invariance, PTL

\* No mixer listener is ever called by Live without being in listener_functions.
THEOREM MixerCallbacksAlwaysKnown == Spec => []MixerCallbacksKnown
<1>1. IInv => MixerCallbacksKnown
  BY DEF IInv
<1> QED
  BY <1>1, Invariance, PTL

\* A start or stop that leaves the callback of its key attached and unknown named
\* another object than the callback's, and is one of those whose error is dropped.
LEMMA OrphanMade ==
    ASSUME IInv, NEW p \in Props, NEW i \in Index, NEW f, NEW d \in Orphans' \ Orphans,
           functions' = [functions EXCEPT ![ListenerKey(p, i)] = f],
           attached' = (attached \ Detachable(ListenerKey(p, i), i)) \union ({f} \intersect Callback),
           f \in Callback => f.key = ListenerKey(p, i)
    PROVE  /\ d.key = ListenerKey(p, i) /\ d.key.prop = p
           /\ d = functions[d.key] /\ d.key \in Registered
           /\ at[i] # d.obj
           /\ Detachable(d.key, i) = {}
<1> DEFINE k == ListenerKey(p, i)
<1>1. k \in Key /\ k.prop = p
  BY KeyOfRequest
<1> HIDE DEF k
<1>2. functions'[k] = f /\ \A j \in Key : j # k => functions'[j] = functions[j]
  BY <1>1 DEF IInv, TypeOK, k
<1>3. d \in attached' /\ functions'[d.key] # d
  BY DEF Orphans
<1>4. d # f
  <2>1. d = f => f \in Callback
    BY <1>3 DEF IInv, TypeOK
  <2> QED
    BY <1>2, <1>3, <2>1 DEF k
<1>5. d \in attached /\ d \notin Detachable(k, i) /\ functions[d.key] = d
  BY <1>3, <1>4 DEF Orphans, k
<1>6. d \in Callback /\ d.key \in Key
  BY <1>5 DEF IInv, TypeOK, Callback
<1>7. d.key = k
  BY <1>2, <1>3, <1>5, <1>6
<1>8. at[i] # d.obj
  BY <1>5, <1>7 DEF Detachable
<1>9. Detachable(k, i) = {}
  BY <1>5, <1>7 DEF Detachable
<1>10. d.key \in Registered
  BY <1>5, <1>6, CallbackAssumption DEF Registered
<1> QED
  BY <1>1, <1>5, <1>7, <1>8, <1>9, <1>10 DEF k

\* A listener is lost to the bridge only by a start or stop for another object: by
\* one for its own position after a move, or of another device.
THEOREM OrphansAlwaysNeedAnotherObject == Spec => OrphansNeedAnotherObject
<1> DEFINE Lost(c, i) ==
      /\ ListenerKey(c.key.prop, i) = c.key
      /\ at[i] # c.obj
      /\ \/ StopListen(c.key.prop, i)
         \/ \E id \in CallbackIds : \/ StartListen(c.key.prop, i, id)
                                    \/ StartParamListen(c.key.prop, i, id)
           Step == \A c \in Orphans' \ Orphans : \E i \in Index : Lost(c, i)
<1>1. IInv /\ [Next]_vars => [Step]_vars
  <2> SUFFICES ASSUME IInv, Next, NEW d \in Orphans' \ Orphans
               PROVE  \E i \in Index : Lost(d, i)
    OBVIOUS
  <2>1. ASSUME NEW p \in Props, NEW i \in Index, NEW id \in CallbackIds,
               StartStep(p, i, id)
        PROVE  Lost(d, i)
    <3> DEFINE c == [id |-> id, key |-> ListenerKey(p, i), obj |-> at[i]]
    <3>1. /\ c \in Callback
          /\ attached' = (attached \ Detachable(ListenerKey(p, i), i)) \union {c}
          /\ functions' = [functions EXCEPT ![ListenerKey(p, i)] = c]
          /\ p \in Mixer /\ ListenerKey(p, i) \in Registered
               => Detachable(ListenerKey(p, i), i) # {}
      BY <2>1, StartEffect DEF IInv
    <3>2. c.key = ListenerKey(p, i)
      OBVIOUS
    <3> HIDE DEF c
    <3>3. attached' = (attached \ Detachable(ListenerKey(p, i), i))
                        \union ({c} \intersect Callback)
      BY <3>1
    <3>4. /\ d.key = ListenerKey(p, i) /\ d.key.prop = p /\ d.key \in Registered
          /\ at[i] # d.obj /\ Detachable(d.key, i) = {}
      BY <3>1, <3>2, <3>3, OrphanMade
    <3>5. p \notin Mixer
      BY <3>1, <3>4
    <3> QED
      BY <2>1, <3>4, <3>5 DEF StartStep, StartMixerListen
  <2>2. ASSUME NEW p \in Props, NEW i \in Index, StopStep(p, i)
        PROVE  Lost(d, i)
    <3>1. /\ attached' = (attached \ Detachable(ListenerKey(p, i), i))
                            \union ({NoCallback} \intersect Callback)
          /\ functions' = [functions EXCEPT ![ListenerKey(p, i)] = NoCallback]
          /\ p \notin Plain => Detachable(ListenerKey(p, i), i) # {}
      BY <2>2, StopEffect, CallbackAssumption
    <3>2. /\ d.key = ListenerKey(p, i) /\ d.key.prop = p
          /\ at[i] # d.obj /\ Detachable(d.key, i) = {}
      BY <3>1, CallbackAssumption, OrphanMade
    <3>3. p \in Plain
      BY <3>1, <3>2
    <3> QED
      BY <2>2, <3>2, <3>3, KindAssumption DEF StopStep, StopUntracked
  <2>3. ASSUME Orphans' \subseteq Orphans
        PROVE  FALSE
    BY <2>3
  <2>4. ~IdleStep
    BY <2>3, IdleUnchanged DEF Orphans
  <2> QED
    BY <2>1, <2>2, <2>3, <2>4, NextCases, ReloadIInv, ReloadRaisesIInv, RearrangeIInv
<1> QED
  BY <1>1, Invariance, PTL DEF Spec, OrphansNeedAnotherObject

\* The key of a mixer listener names its position.
LEMMA MixerKey ==
    ASSUME NEW j \in Key, j.prop \in Mixer
    PROVE  /\ j.idx \in Index
           /\ \A p \in Props, i \in Index : j = ListenerKey(p, i) => p = j.prop /\ i = j.idx
<1>1. \A p \in Props, i \in Index : j = ListenerKey(p, i) => p = j.prop /\ i = j.idx
  BY KeyOfRequest, KindAssumption
<1>2. PICK p \in Props, i \in Index : j = ListenerKey(p, i)
  BY DEF Key
<1> QED
  BY <1>1, <1>2

\* The entry of a mixer listener changes only when its callback is disconnected.
LEMMA EntryChange ==
    ASSUME IInv, Next, NEW j \in Registered, functions'[j] # functions[j], j.prop \in Mixer
    PROVE  Detachable(j, j.idx) # {}
<1> USE DEF IInv
<1>1. j \in Key /\ functions[j] # NoCallback
  BY DEF Registered
<1>2. ASSUME NEW p \in Props, NEW i \in Index, NEW id \in CallbackIds, StartStep(p, i, id)
      PROVE  Detachable(j, j.idx) # {}
  <2>1. functions' = [functions EXCEPT ![ListenerKey(p, i)] =
                           [id |-> id, key |-> ListenerKey(p, i), obj |-> at[i]]]
    BY <1>2, StartEffect
  <2>2. p \in Mixer /\ ListenerKey(p, i) \in Registered => Detachable(ListenerKey(p, i), i) # {}
    BY <1>2, StartEffect
  <2>3. j = ListenerKey(p, i)
    BY <1>1, <2>1 DEF TypeOK
  <2>4. p = j.prop /\ i = j.idx
    BY <1>1, <2>3, MixerKey
  <2> QED
    BY <2>2, <2>3, <2>4
<1>3. ASSUME NEW p \in Props, NEW i \in Index, StopStep(p, i)
      PROVE  Detachable(j, j.idx) # {}
  <2>1. j = ListenerKey(p, i)
    BY <1>1, <1>3, StopEffect DEF TypeOK
  <2>2. p = j.prop /\ i = j.idx
    BY <1>1, <2>1, MixerKey
  <2> QED
    BY <1>3, <2>1, <2>2, StopEffect, KindAssumption
<1>4. objects[j] = NoObject
  BY <1>1, KindAssumption DEF DictsAgree, Tracked
<1>5. CASE Reload
  BY <1>4, <1>5 DEF Reload
<1>6. CASE ReloadRaises
  BY <1>1, <1>4, <1>6 DEF ReloadRaises
<1>7. CASE IdleStep
  BY <1>7, IdleUnchanged
<1>8. ASSUME NEW l \in Layouts, Rearrange(l)
      PROVE  FALSE
  BY <1>8 DEF Rearrange
<1> QED
  BY <1>2, <1>3, <1>5, <1>6, <1>7, <1>8, NextCases

\* A mixer entry changes only while its index names the track it listens to.
THEOREM MixerEntryAlwaysHeld == Spec => MixerEntryHeld
<1> DEFINE Step == \A k \in Registered : k.prop \in Mixer /\ functions'[k] # functions[k] =>
                       /\ functions[k] \in attached
                       /\ functions[k].obj = at[k.idx]
<1>1. IInv /\ [Next]_vars => [Step]_vars
  <2> SUFFICES ASSUME IInv, Next, NEW k \in Registered, k.prop \in Mixer,
                      functions'[k] # functions[k]
               PROVE  functions[k] \in attached /\ functions[k].obj = at[k.idx]
    OBVIOUS
  <2>1. k \in Key /\ k.idx \in Index /\ Detachable(k, k.idx) # {}
    BY EntryChange, MixerKey DEF Registered
  <2> QED
    BY <2>1, DetachableOwnKey DEF IInv
<1> QED
  BY <1>1, Invariance, PTL DEF Spec, MixerEntryHeld

\* The bridge loses its handlers only to a reload with a listener registered that
\* listener_objects does not know.
THEOREM ServiceLostOnlyToUntracked == Spec => ServiceLostOnlyByUntracked
<1> DEFINE Step == serving /\ ~serving' => \E k \in Registered : k.prop \notin Tracked
<1>1. IInv /\ [Next]_vars => [Step]_vars
  <2> SUFFICES ASSUME IInv, Next, serving, ~serving'
               PROVE  \E k \in Registered : k.prop \notin Tracked
    BY DEF vars
  <2>1. ReloadRaises
    BY NextCases, StartEffect, StopEffect, IdleUnchanged DEF IInv, Reload, Rearrange
  <2>2. PICK u \in Registered : objects[u] = NoObject
    BY <2>1 DEF ReloadRaises
  <2>3. u \in Key /\ functions[u] # NoCallback
    BY DEF Registered
  <2>4. functions[u].obj # NoObject
    BY <2>3, RegisteredFacts, ObjectAssumption DEF IInv
  <2> QED
    BY <2>2, <2>3, <2>4 DEF IInv, DictsAgree
<1> QED
  BY <1>1, Invariance, PTL DEF Spec, ServiceLostOnlyByUntracked
=============================================================================
