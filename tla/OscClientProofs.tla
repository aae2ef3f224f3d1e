---------------------------- MODULE OscClientProofs ----------------------------
(* Proofs about OscClient, for any addresses, listeners and number of requests:   *)
(* nothing left behind by a query answers a later one, and every step of either    *)
(* client is a step of QueryService or leaves it alone.                            *)
(*                                                                                 *)
(* The inductive invariant follows each reply on its way.  A reply is Undelivered   *)
(* in one place (in flight, in a thread, in the socket), and once Delivered (stored  *)
(* by a closure, returned by a query) it is nowhere else: so no two queries return   *)
(* it.  A handler, a thread and a stored reply belong to one query and carry its     *)
(* address: so a query returns what came under its address.                          *)
EXTENDS OscClient, TLAPS

\* Exactly the query that is open has no outcome yet.
OpenIsLast ==
    /\ pc # "idle" => Current # 0 /\ outcome[Current] = Mark("open")
    /\ \A i \in DOMAIN outcome : outcome[i] = Mark("open") => i = Current /\ pc # "idle"

\* What one client uses, the other leaves as it was.
Apart ==
    /\ kind = "polling" => /\ threads = {} /\ event = {}
                           /\ \A a \in Addresses : handlers[a] = NoHandler
                           /\ \A i \in Ids : rv[i] = NoReply
    /\ kind = "threaded" => socket = <<>> /\ seen = {}

\* A handler belongs to a query that was made.
HandlersOwned == \A a \in Addresses : handlers[a] <= Current

\* A thread that will store, or has stored, does so for a query under its address.
ThreadsOwned ==
    \A t \in threads :
        /\ t.at \in {"call", "set"} => t.fn \in 1 .. Current /\ request[t.fn].to = t.msg.to
        /\ t.at = "set" => rv[t.fn] # NoReply

StoredOwned ==
    /\ \A i \in Ids : rv[i] # NoReply => i <= Current /\ rv[i].to = request[i].to
    /\ \A i \in event : rv[i] # NoReply

\* Where a message can be before a query has it, and after.
Carried(m) == \E t \in threads : t.at # "set" /\ t.msg = m
Queued(m) == \E k \in DOMAIN socket : socket[k] = m
Stored(m) == \E i \in Ids : rv[i] = m
Returned(m) == \E i \in DOMAIN outcome : outcome[i] = m

Undelivered(m) == m \in inflight \/ Carried(m) \/ Queued(m)
Delivered(m) == Stored(m) \/ Returned(m)

\* The requests that the bridge has yet to answer, or to receive.
Unanswered == unserved \union (IF pc = "send" THEN {Current} ELSE {})

\* A reply is to a request that has been answered, and a request is sent once.
Answered ==
    /\ pc = "send" => Current \notin unserved
    /\ \A m \in Message : m.of # 0 /\ (Undelivered(m) \/ Delivered(m)) => m.of <= Current /\ m.of \notin Unanswered

NotYet == \A m \in Message : m.of # 0 /\ Undelivered(m) => ~Delivered(m)

\* On its way a reply is in one place.
OnePlace ==
    /\ \A m \in inflight : m.of # 0 => ~Carried(m) /\ ~Queued(m)
    /\ \A t, u \in threads : t.at # "set" /\ u.at # "set" /\ t.msg = u.msg /\ t.msg.of # 0 => t = u
    /\ \A j, k \in DOMAIN socket : socket[j] = socket[k] /\ socket[j].of # 0 => j = k

\* A reply that has been delivered belongs to one query.
OneQuery ==
    /\ \A i, j \in Ids : rv[i] = rv[j] /\ rv[i].of # 0 => i = j
    /\ \A i \in Ids, j \in DOMAIN outcome : rv[i] = outcome[j] /\ rv[i].of # 0 => i = j
    /\ \A i, j \in DOMAIN outcome : outcome[i] = outcome[j] /\ outcome[i].of # 0 => i = j

\* What has been drained is not seen again.
Drained ==
    \A m \in seen : m.of # 0 => m.of <= Current /\ m.of \notin unserved /\ m \notin inflight /\ ~Queued(m)

IInv ==
    /\ TypeOK
    /\ OpenIsLast /\ Apart /\ HandlersOfOpenQueries /\ HandlersOwned
    /\ ThreadsOwned /\ StoredOwned
    /\ Answered /\ NotYet /\ OnePlace /\ OneQuery
    /\ Drained /\ DrainedNeverAnswers

-----------------------------------------------------------------------------
(* The history of requests. *)

Results == Message \union {Mark("open"), Mark("sent"), Mark("failed")}

\* What Made and Ended do to the history.
Appended(a, awaits) ==
    /\ request' \in Seq([to : Addresses, awaits : BOOLEAN])
    /\ outcome' \in Seq(Results)
    /\ Len(request') = Current + 1 /\ Len(outcome') = Current + 1 /\ Current' = Current + 1
    /\ Current + 1 <= MaxRequests /\ Current \in Nat
    /\ DOMAIN outcome' = 1 .. Current + 1
    /\ \A i \in 1 .. Current : request'[i] = request[i] /\ outcome'[i] = outcome[i]
    /\ request'[Current + 1].to = a
    /\ outcome'[Current + 1] = Mark(IF awaits THEN "open" ELSE "sent")
    /\ unserved \union {Current + 1} \subseteq 1 .. Current + 1

EndedWith(r) ==
    /\ outcome' \in Seq(Results) /\ Len(outcome') = Len(outcome)
    /\ DOMAIN outcome' = 1 .. Current /\ DOMAIN outcome = 1 .. Current
    /\ Current \in 1 .. MaxRequests
    /\ outcome'[Current] = r
    /\ \A i \in 1 .. Current : i # Current => outcome'[i] = outcome[i]

\* A request that is made is the last of the history, and none is changed.
LEMMA MadeLast ==
    ASSUME TypeOK, NEW a \in Addresses, NEW awaits \in BOOLEAN, Made(a, awaits)
    PROVE  Appended(a, awaits)
<1>1. [to |-> a, awaits |-> awaits] \in [to : Addresses, awaits : BOOLEAN]
  OBVIOUS
<1>2. Mark(IF awaits THEN "open" ELSE "sent") \in Results
  BY DEF Mark, Results
<1>3. /\ request \in Seq([to : Addresses, awaits : BOOLEAN]) /\ outcome \in Seq(Results)
      /\ Len(outcome) = Len(request) /\ unserved \subseteq 1 .. Len(request)
  BY DEF TypeOK, Results
<1> DEFINE last == Mark(IF awaits THEN "open" ELSE "sent")
<1>4. /\ request' = Append(request, [to |-> a, awaits |-> awaits])
      /\ outcome' = Append(outcome, last) /\ Len(request) < MaxRequests
  BY DEF Made, Current
<1>5. last \in Results
  BY <1>2
<1> HIDE DEF last
<1>6. /\ outcome' \in Seq(Results) /\ Len(outcome') = Len(outcome) + 1
      /\ outcome'[Len(outcome) + 1] = last
      /\ \A i \in 1 .. Len(outcome) : outcome'[i] = outcome[i]
  BY <1>3, <1>4, <1>5
<1>7. /\ request' \in Seq([to : Addresses, awaits : BOOLEAN]) /\ Len(request') = Len(request) + 1
      /\ request'[Len(request) + 1].to = a
      /\ \A i \in 1 .. Len(request) : request'[i] = request[i]
  BY <1>1, <1>3, <1>4
<1>8. Len(request) \in Nat
  BY <1>3
<1>9. Len(request) + 1 <= MaxRequests
  BY <1>4, <1>8, MaxRequestsNat
<1>10. DOMAIN outcome' = 1 .. Len(outcome) + 1
  BY <1>6
<1>11. unserved \union {Len(request) + 1} \subseteq 1 .. Len(request) + 1
  <2>1. unserved \subseteq 1 .. Len(request)
    BY <1>3
  <2>2. \A i \in 1 .. Len(request) : i \in 1 .. Len(request) + 1
    BY <1>8
  <2>3. Len(request) + 1 \in 1 .. Len(request) + 1
    BY <1>8
  <2> QED
    BY <2>1, <2>2, <2>3
<1>12. outcome'[Len(outcome) + 1] = Mark(IF awaits THEN "open" ELSE "sent")
  BY <1>6 DEF last
<1> QED
  BY <1>3, <1>6, <1>7, <1>8, <1>9, <1>10, <1>11, <1>12 DEF Current, Appended

\* A result is that of the last request, and no other outcome changes.
LEMMA EndedLast ==
    ASSUME TypeOK, Current # 0, NEW r \in Results, Ended(r)
    PROVE  EndedWith(r)
<1>1. outcome \in Seq(Results) /\ Len(outcome) = Current /\ Current \in 1 .. MaxRequests
  BY MaxRequestsNat DEF TypeOK, Results, Current
<1> QED
  BY <1>1 DEF Ended, Results, EndedWith

\* Marks are no messages.
LEMMA MarksApart ==
    /\ \A m \in Message : m # NoReply /\ m # Mark("open") /\ m # Mark("sent") /\ m # Mark("failed")
    /\ Mark("open") # Mark("sent") /\ Mark("open") # Mark("failed") /\ Mark("open") # NoReply
    /\ Mark("open").of = 0 /\ Mark("sent").of = 0 /\ Mark("failed").of = 0 /\ NoReply.of = 0
<1>1. \A x \in {"none", "open", "sent", "failed"}, m \in Message : m # Mark(x)
  <2> SUFFICES ASSUME NEW x \in {"none", "open", "sent", "failed"}, NEW m \in Message, m = Mark(x)
               PROVE  FALSE
    OBVIOUS
  <2>1. m.to = x /\ m.to \in Addresses
    BY DEF Message, Mark
  <2> QED
    BY <2>1, NoAddressIsAMark
<1>2. \A x : Mark(x).to = x /\ Mark(x).of = 0
  BY DEF Mark
<1> QED
  BY <1>1, <1>2 DEF NoReply

\* What a state of the right types has.
LEMMA Basics ==
    ASSUME TypeOK
    PROVE  /\ Current \in Nat /\ Current <= MaxRequests
           /\ DOMAIN request = 1 .. Current /\ DOMAIN outcome = 1 .. Current
           /\ \A i \in 1 .. Current : i \in Ids /\ outcome[i] \in Results
           /\ \A i \in unserved : i \in 1 .. Current
           /\ \A i \in Ids : rv[i] \in Message \union {NoReply}
<1>1. /\ request \in Seq([to : Addresses, awaits : BOOLEAN]) /\ Len(request) <= MaxRequests
      /\ outcome \in Seq(Results) /\ Len(outcome) = Len(request)
  BY DEF TypeOK, Results
<1>2. unserved \subseteq 1 .. Len(request) /\ rv \in [Ids -> Message \union {NoReply}]
  BY DEF TypeOK
<1>3. \A i \in 1 .. Len(request) : i \in Ids
  BY <1>1, MaxRequestsNat DEF Ids
<1>4. \A i \in 1 .. Len(request) : outcome[i] \in Results
  BY <1>1
<1>5. DOMAIN request = 1 .. Len(request) /\ DOMAIN outcome = 1 .. Len(request) /\ Len(request) \in Nat
  BY <1>1
<1>6. \A i \in unserved : i \in 1 .. Len(request)
  BY <1>2
<1>7. \A i \in Ids : rv[i] \in Message \union {NoReply}
  BY <1>2
<1>8. Len(request) <= MaxRequests
  BY <1>1
<1>9. Current = Len(request)
  BY DEF Current
<1> QED
  BY <1>3, <1>4, <1>5, <1>6, <1>7, <1>8, <1>9

\* A step that puts no reply where none was, and takes on no old request, keeps the
\* account of the replies.
LEMMA Tracking ==
    ASSUME IInv, Current' \in Nat, Current <= Current', pc' = "send" => Current' \notin unserved',
           \A i \in Unanswered' : i \in Unanswered \/ i > Current,
           \A m \in Message : m.of # 0 /\ Undelivered(m)' => Undelivered(m),
           \A m \in Message : m.of # 0 /\ Delivered(m)' => Delivered(m)
    PROVE  Answered' /\ NotYet'
<1>1. Current \in Nat
  BY Basics DEF IInv
<1>2. ASSUME NEW m \in Message, m.of # 0, Undelivered(m)' \/ Delivered(m)'
      PROVE  m.of <= Current' /\ m.of \notin Unanswered'
  <2>1. m.of <= Current /\ m.of \notin Unanswered
    BY <1>2 DEF IInv, Answered
  <2>2. m.of \in Nat
    BY DEF Message
  <2> QED
    BY <1>1, <2>1, <2>2
<1>3. ASSUME NEW m \in Message, m.of # 0, Undelivered(m)'
      PROVE  ~Delivered(m)'
  BY <1>3 DEF IInv, NotYet
<1> QED
  BY <1>2, <1>3 DEF Answered, NotYet

\* A request is made while no query is open: what the earlier ones own stays theirs.
LEMMA MadeKeeps ==
    ASSUME IInv, NEW a \in Addresses, NEW awaits \in BOOLEAN, Appended(a, awaits), pc = "idle",
           pc' # "idle" <=> awaits, rv' = rv, threads' = threads, event' = event,
           handlers' = handlers \/ (handlers' = [handlers EXCEPT ![a] = Current + 1] /\ awaits /\ pc' \in {"send", "wait"})
    PROVE  /\ OpenIsLast' /\ HandlersOfOpenQueries' /\ HandlersOwned'
           /\ ThreadsOwned' /\ StoredOwned' /\ OneQuery'
           /\ \A m \in Message : m.of # 0 /\ Delivered(m)' => Delivered(m)
<1>1. /\ Current \in Nat /\ DOMAIN outcome = 1 .. Current
      /\ \A i \in 1 .. Current : i \in Ids
      /\ handlers \in [Addresses -> 0 .. MaxRequests] /\ threads \subseteq Thread
  BY Basics DEF IInv, TypeOK
<1>2. \A i \in 1 .. Current : outcome[i] # Mark("open")
  BY <1>1 DEF IInv, OpenIsLast
<1>3. OpenIsLast'
  <2>1. /\ DOMAIN outcome' = 1 .. Current + 1 /\ Current' = Current + 1
        /\ \A i \in 1 .. Current : outcome'[i] # Mark("open")
        /\ outcome'[Current + 1] = Mark("open") <=> awaits
    BY <1>2, MarksApart DEF Appended
  <2>2. \A i \in 1 .. Current + 1 : i \in 1 .. Current \/ i = Current + 1
    BY <1>1
  <2> QED
    BY <1>1, <2>1, <2>2 DEF OpenIsLast
<1>4. HandlersOwned'
  <2>1. \A b \in Addresses : handlers[b] \in Nat /\ handlers[b] <= Current
    BY <1>1, MaxRequestsNat DEF IInv, HandlersOwned
  <2>2. \A b \in Addresses : handlers'[b] = handlers[b] \/ handlers'[b] = Current + 1
    BY <1>1
  <2> QED
    BY <1>1, <2>1, <2>2 DEF Appended, HandlersOwned
<1>5. HandlersOfOpenQueries'
  <2> SUFFICES ASSUME NEW b \in Addresses, handlers'[b] # NoHandler
               PROVE  /\ request'[handlers'[b]].to = b
                      /\ \/ handlers'[b] = Current' /\ pc' \in {"send", "wait", "woken"}
                         \/ outcome'[handlers'[b]] = Mark("failed")
    BY DEF HandlersOfOpenQueries
  <2>1. CASE handlers'[b] = handlers[b]
    <3>1. handlers[b] \in 1 .. Current
      BY <1>1, <2>1, MaxRequestsNat DEF IInv, HandlersOwned, NoHandler
    <3>2. request[handlers[b]].to = b /\ outcome[handlers[b]] = Mark("failed")
      BY <2>1 DEF IInv, HandlersOfOpenQueries
    <3> QED
      BY <2>1, <3>1, <3>2 DEF Appended
  <2>2. CASE handlers'[b] # handlers[b]
    <3>1. b = a /\ handlers'[b] = Current + 1 /\ pc' \in {"send", "wait"}
      BY <1>1, <2>2
    <3> QED
      BY <3>1 DEF Appended
  <2> QED
    BY <2>1, <2>2
<1>6. ThreadsOwned'
  BY <1>1 DEF IInv, ThreadsOwned, Appended
<1>7. StoredOwned'
  <2>1. \A i \in Ids : rv[i] # NoReply => i \in 1 .. Current /\ rv[i].to = request[i].to
    BY <1>1 DEF IInv, StoredOwned, Ids
  <2>2. \A i \in Ids : rv[i] # NoReply => i <= Current' /\ rv[i].to = request'[i].to
    BY <1>1, <2>1 DEF Appended
  <2> QED
    BY <2>2 DEF IInv, StoredOwned
<1>8. outcome'[Current + 1].of = 0
  BY MarksApart DEF Appended
<1>9. \A m \in Message : m.of # 0 /\ Delivered(m)' => Delivered(m)
  BY <1>1, <1>8 DEF Appended, Delivered, Stored, Returned
<1>10. OneQuery'
  <2>1. \A i, j \in Ids : rv[i] = rv[j] /\ rv[i].of # 0 => i = j
    BY DEF IInv, OneQuery
  <2>2. \A i \in Ids, j \in 1 .. Current : rv[i] = outcome[j] /\ rv[i].of # 0 => i = j
    BY <1>1 DEF IInv, OneQuery
  <2>3. \A i, j \in 1 .. Current : outcome[i] = outcome[j] /\ outcome[i].of # 0 => i = j
    BY <1>1 DEF IInv, OneQuery
  <2>4. /\ DOMAIN outcome' = 1 .. Current + 1 /\ \A i \in 1 .. Current : outcome'[i] = outcome[i]
    BY DEF Appended
  <2>5. \A j \in 1 .. Current + 1 : j \in 1 .. Current \/ j = Current + 1
    BY <1>1
  <2>6. \A i \in Ids, j \in DOMAIN outcome' : rv'[i] = outcome'[j] /\ rv'[i].of # 0 => i = j
    BY <1>8, <2>2, <2>4, <2>5
  <2>7. \A i, j \in DOMAIN outcome' : outcome'[i] = outcome'[j] /\ outcome'[i].of # 0 => i = j
    BY <1>8, <2>3, <2>4, <2>5
  <2> QED
    BY <2>1, <2>6, <2>7 DEF OneQuery
<1> QED
  BY <1>3, <1>4, <1>5, <1>6, <1>7, <1>9, <1>10

\* A query ends, with something that nobody else has been given.
LEMMA EndedKeeps ==
    ASSUME IInv, NEW r \in Results, EndedWith(r), pc # "idle", pc' = "idle", Current # 0,
           request' = request, rv' = rv, threads' = threads, event' = event, handlers' = handlers,
           r # Mark("open"),
           pc \in {"send", "wait", "woken"} => (r = Mark("failed") \/ \A b \in Addresses : handlers[b] = NoHandler),
           r.of # 0 => ~Returned(r) /\ \A i \in Ids : rv[i] = r => i = Current
    PROVE  /\ OpenIsLast' /\ HandlersOfOpenQueries' /\ HandlersOwned'
           /\ ThreadsOwned' /\ StoredOwned' /\ OneQuery' /\ Current' = Current
           /\ \A m \in Message : Delivered(m)' => Delivered(m) \/ m = r
<1>1. /\ Current \in Nat /\ DOMAIN outcome = 1 .. Current
      /\ \A i \in 1 .. Current : i \in Ids
      /\ handlers \in [Addresses -> 0 .. MaxRequests] /\ threads \subseteq Thread
  BY Basics DEF IInv, TypeOK
<1>2. Current' = Current /\ outcome[Current] = Mark("open")
  BY DEF Current, IInv, OpenIsLast
<1>3. /\ DOMAIN outcome' = 1 .. Current /\ outcome'[Current] = r
      /\ \A i \in 1 .. Current : i # Current => outcome'[i] = outcome[i]
  BY DEF EndedWith
<1>4. OpenIsLast'
  BY <1>1, <1>2, <1>3 DEF IInv, OpenIsLast
<1>5. HandlersOwned'
  BY <1>2 DEF IInv, HandlersOwned
<1>6. HandlersOfOpenQueries'
  <2> SUFFICES ASSUME NEW b \in Addresses, handlers[b] # NoHandler
               PROVE  request[handlers[b]].to = b /\ outcome'[handlers[b]] = Mark("failed")
    BY DEF HandlersOfOpenQueries
  <2>1. handlers[b] \in 1 .. Current
    BY <1>1, MaxRequestsNat DEF IInv, HandlersOwned, NoHandler
  <2>2. request[handlers[b]].to = b
    BY DEF IInv, HandlersOfOpenQueries
  <2>3. CASE handlers[b] = Current
    BY <1>2, <1>3, <2>3, MarksApart DEF IInv, HandlersOfOpenQueries
  <2>4. CASE handlers[b] # Current
    BY <1>3, <2>1, <2>4 DEF IInv, HandlersOfOpenQueries
  <2> QED
    BY <2>2, <2>3, <2>4
<1>7. ThreadsOwned'
  BY <1>2 DEF IInv, ThreadsOwned
<1>8. StoredOwned'
  BY <1>2 DEF IInv, StoredOwned
<1>9. \A m \in Message : Delivered(m)' => Delivered(m) \/ m = r
  BY <1>1, <1>3 DEF Delivered, Stored, Returned
<1>10. OneQuery'
  <2>1. \A i, j \in Ids : rv[i] = rv[j] /\ rv[i].of # 0 => i = j
    BY DEF IInv, OneQuery
  <2>2. \A i \in Ids, j \in 1 .. Current : rv[i] = outcome'[j] /\ rv[i].of # 0 => i = j
    BY <1>1, <1>3 DEF IInv, OneQuery
  <2>3. \A i, j \in 1 .. Current : outcome'[i] = outcome'[j] /\ outcome'[i].of # 0 => i = j
    BY <1>1, <1>3 DEF IInv, OneQuery, Returned
  <2> QED
    BY <1>3, <2>1, <2>2, <2>3 DEF OneQuery
<1> QED
  BY <1>2, <1>4, <1>5, <1>6, <1>7, <1>8, <1>9, <1>10

-----------------------------------------------------------------------------
(* The steps of a query. *)

\* Each action keeps IInv, one lemma for each.
LEMMA SendMessageIInv ==
    ASSUME IInv, NEW a \in Addresses, SendMessage(a)
    PROVE  IInv'
<1>1. Appended(a, FALSE)
  BY MadeLast DEF IInv, SendMessage
<1>2. /\ pc = "idle" /\ unserved' = unserved \union {Current + 1}
      /\ UNCHANGED <<kind, inflight, pc, handlers, threads, event, rv, socket, seen>>
  BY DEF SendMessage, client
<1>3. /\ OpenIsLast' /\ HandlersOfOpenQueries' /\ HandlersOwned' /\ ThreadsOwned' /\ StoredOwned' /\ OneQuery'
      /\ \A m \in Message : m.of # 0 /\ Delivered(m)' => Delivered(m)
  BY <1>1, <1>2, MadeKeeps
<1>4. \A m \in Message : m.of # 0 /\ Undelivered(m)' => Undelivered(m)
  BY <1>2 DEF Undelivered, Carried, Queued
<1>5. Current \in Nat /\ Current' = Current + 1
  BY <1>1 DEF Appended
<1>6. Answered' /\ NotYet'
  BY <1>2, <1>3, <1>4, <1>5, Tracking DEF Unanswered
<1>7. TypeOK'
  BY <1>1, <1>2 DEF IInv, TypeOK, Appended, Results
<1>8. Apart' /\ OnePlace'
  BY <1>2 DEF IInv, Apart, OnePlace, Carried, Queued
<1>9. Drained'
  BY <1>2, <1>5 DEF IInv, TypeOK, Drained, Message, Queued
<1>10. DrainedNeverAnswers'
  BY <1>1, <1>2, <1>5, MarksApart DEF IInv, DrainedNeverAnswers, Appended
<1> QED
  BY <1>3, <1>6, <1>7, <1>8, <1>9, <1>10 DEF IInv

LEMMA SetHandlerIInv ==
    ASSUME IInv, NEW a \in Addresses, SetHandler(a)
    PROVE  IInv'
<1>1. Appended(a, TRUE)
  BY MadeLast DEF IInv, SetHandler
<1>2. /\ kind = "threaded" /\ pc = "idle" /\ pc' \in {"send", "wait"}
      /\ handlers' = [handlers EXCEPT ![a] = Current + 1]
      /\ UNCHANGED <<kind, unserved, inflight, threads, event, rv, socket, seen>>
  BY DEF SetHandler
<1>3. /\ OpenIsLast' /\ HandlersOfOpenQueries' /\ HandlersOwned' /\ ThreadsOwned' /\ StoredOwned' /\ OneQuery'
      /\ \A m \in Message : m.of # 0 /\ Delivered(m)' => Delivered(m)
  BY <1>1, <1>2, MadeKeeps
<1>4. \A m \in Message : m.of # 0 /\ Undelivered(m)' => Undelivered(m)
  BY <1>2 DEF Undelivered, Carried, Queued
<1>5. Current \in Nat /\ Current' = Current + 1 /\ \A i \in unserved : i \in 1 .. Current
  BY <1>1, Basics DEF Appended, IInv
<1>6. Answered' /\ NotYet'
  BY <1>2, <1>3, <1>4, <1>5, Tracking DEF Unanswered
<1>7. TypeOK'
  <2>1. Current + 1 \in 0 .. MaxRequests
    BY <1>1, MaxRequestsNat DEF Appended
  <2>2. handlers' \in [Addresses -> 0 .. MaxRequests]
    BY <1>2, <2>1 DEF IInv, TypeOK
  <2>3. unserved' \subseteq 1 .. Len(request')
    BY <1>1, <1>2 DEF Appended
  <2> QED
    BY <1>1, <1>2, <2>2, <2>3 DEF IInv, TypeOK, Appended, Results
<1>8. Apart' /\ OnePlace'
  BY <1>2 DEF IInv, Apart, OnePlace, Carried, Queued
<1>9. Drained' /\ DrainedNeverAnswers'
  BY <1>2 DEF IInv, Apart, Drained, DrainedNeverAnswers
<1> QED
  BY <1>3, <1>6, <1>7, <1>8, <1>9 DEF IInv

LEMMA SendIInv ==
    ASSUME IInv, Send
    PROVE  IInv'
<1>1. /\ pc = "send" /\ kind = "threaded" /\ Current # 0
      /\ UNCHANGED <<kind, request, inflight, handlers, threads, event, rv, socket, seen>>
  BY DEF Send, IInv, TypeOK, OpenIsLast
<1>2. Current \in 1 .. MaxRequests /\ Current' = Current
  BY <1>1, Basics, MaxRequestsNat DEF IInv, Current
<1>3. \A m \in Message : m.of # 0 /\ Undelivered(m)' => Undelivered(m)
  BY <1>1 DEF Undelivered, Carried, Queued
<1>4. Apart' /\ OnePlace' /\ Drained' /\ DrainedNeverAnswers'
  BY <1>1 DEF IInv, Apart, OnePlace, Carried, Queued, Drained, DrainedNeverAnswers
<1>5. CASE pc' = "wait" /\ unserved' = unserved \union {Current} /\ UNCHANGED outcome
  <2>1. TypeOK'
    <3>1. \A i \in unserved : i \in 1 .. Current
      BY Basics DEF IInv
    <3>2. Current \in 1 .. Current
      BY <1>2, MaxRequestsNat
    <3>3. unserved' \subseteq 1 .. Current
      BY <1>5, <3>1, <3>2
    <3> QED
      BY <1>1, <1>5, <3>3 DEF IInv, TypeOK, Current
  <2>2. OpenIsLast' /\ HandlersOfOpenQueries' /\ HandlersOwned'
    BY <1>1, <1>2, <1>5 DEF IInv, OpenIsLast, HandlersOfOpenQueries, HandlersOwned
  <2>3. ThreadsOwned' /\ StoredOwned' /\ OneQuery'
    BY <1>1, <1>2, <1>5 DEF IInv, ThreadsOwned, StoredOwned, OneQuery
  <2>4. \A m \in Message : m.of # 0 /\ Delivered(m)' => Delivered(m)
    BY <1>1, <1>5 DEF Delivered, Stored, Returned
  <2>5. Answered' /\ NotYet'
    BY <1>1, <1>2, <1>3, <1>5, <2>4, Tracking DEF Unanswered
  <2> QED
    BY <1>4, <2>1, <2>2, <2>3, <2>5 DEF IInv
<1>6. CASE pc' = "idle" /\ Ended(Mark("failed")) /\ UNCHANGED unserved
  <2>1. EndedWith(Mark("failed"))
    BY <1>1, <1>6, EndedLast DEF IInv, Results
  <2>2. /\ OpenIsLast' /\ HandlersOfOpenQueries' /\ HandlersOwned' /\ ThreadsOwned' /\ StoredOwned' /\ OneQuery'
        /\ \A m \in Message : Delivered(m)' => Delivered(m) \/ m = Mark("failed")
    BY <1>1, <1>6, <2>1, EndedKeeps, MarksApart DEF Results
  <2>3. \A m \in Message : m.of # 0 /\ Delivered(m)' => Delivered(m)
    BY <2>2, MarksApart
  <2>4. Answered' /\ NotYet'
    BY <1>1, <1>2, <1>3, <1>6, <2>3, Tracking DEF Unanswered
  <2>5. TypeOK'
    BY <1>1, <1>6, <2>1 DEF IInv, TypeOK, EndedWith, Results
  <2> QED
    BY <1>4, <2>2, <2>4, <2>5 DEF IInv
<1> QED
  BY <1>5, <1>6 DEF Send

\* The wait ends, or the handler goes: of the history and the messages nothing changes.
LEMMA WakeIInv ==
    ASSUME IInv, Wake \/ RemoveHandler
    PROVE  IInv'
<1>1. /\ pc \in {"wait", "woken"} /\ kind = "threaded" /\ Current # 0
      /\ UNCHANGED <<kind, request, outcome, unserved, inflight, threads, event, rv, socket, seen>>
      /\ pc' \in {"woken", "check"} /\ Current' = Current
  BY DEF Wake, RemoveHandler, IInv, TypeOK, OpenIsLast, Current
<1>2. TypeOK'
  <2>1. handlers' \in [Addresses -> 0 .. MaxRequests]
    BY MaxRequestsNat DEF Wake, RemoveHandler, IInv, TypeOK, NoHandler
  <2> QED
    BY <1>1, <2>1 DEF IInv, TypeOK
<1>3. HandlersOfOpenQueries'
  <2>1. CASE Wake
    BY <2>1 DEF Wake, IInv, HandlersOfOpenQueries, Current
  <2>2. CASE RemoveHandler
    <3> SUFFICES ASSUME NEW b \in Addresses, handlers'[b] # NoHandler
                 PROVE  request[handlers'[b]].to = b /\ outcome[handlers'[b]] = Mark("failed")
      BY <1>1 DEF HandlersOfOpenQueries
    <3>1. handlers'[b] = handlers[b] /\ b # Address
      BY <2>2 DEF RemoveHandler, IInv, TypeOK
    <3> QED
      BY <3>1 DEF IInv, HandlersOfOpenQueries, Address
  <2> QED
    BY <2>1, <2>2
<1>4. HandlersOwned'
  <2>1. \A b \in Addresses : handlers'[b] = handlers[b] \/ handlers'[b] = 0
    BY DEF Wake, RemoveHandler, IInv, TypeOK, NoHandler
  <2>2. Current \in Nat
    BY Basics DEF IInv
  <2> QED
    BY <1>1, <2>1, <2>2 DEF IInv, HandlersOwned
<1>5. OpenIsLast' /\ ThreadsOwned' /\ StoredOwned' /\ OneQuery'
  BY <1>1 DEF IInv, OpenIsLast, ThreadsOwned, StoredOwned, OneQuery
<1>6. Apart' /\ OnePlace' /\ Drained' /\ DrainedNeverAnswers'
  BY <1>1 DEF IInv, Apart, OnePlace, Carried, Queued, Drained, DrainedNeverAnswers
<1>7. Answered' /\ NotYet'
  BY <1>1 DEF IInv, Answered, NotYet, Unanswered, Undelivered, Delivered, Carried, Queued, Stored, Returned
<1> QED
  BY <1>2, <1>3, <1>4, <1>5, <1>6, <1>7 DEF IInv

LEMMA CheckEventIInv ==
    ASSUME IInv, CheckEvent
    PROVE  IInv'
<1>1. /\ pc = "check" /\ pc' = "idle" /\ kind = "threaded" /\ Current # 0
      /\ UNCHANGED <<kind, request, unserved, inflight, handlers, threads, event, rv, socket, seen>>
  BY DEF CheckEvent, IInv, TypeOK, OpenIsLast
<1>2. Current \in Ids /\ Current' = Current /\ Current \in Nat
  BY <1>1, Basics, MaxRequestsNat DEF IInv, Current, Ids
<1>3. PICK r \in Results : Ended(r) /\ (r = Mark("failed") \/ (r = rv[Current] /\ r \in Message))
  <2>1. Current \in event => rv[Current] \in Message
    BY <1>2, Basics DEF IInv, StoredOwned
  <2> QED
    BY <2>1 DEF CheckEvent, Results
<1>4. EndedWith(r) /\ r # Mark("open")
  BY <1>1, <1>3, EndedLast, MarksApart DEF IInv
<1>5. r.of # 0 => r = rv[Current] /\ r \in Message
  BY <1>3, MarksApart
<1>6. r.of # 0 => ~Returned(r) /\ \A i \in Ids : rv[i] = r => i = Current
  <2> SUFFICES ASSUME r.of # 0
               PROVE  ~Returned(r) /\ \A i \in Ids : rv[i] = r => i = Current
    OBVIOUS
  <2>1. \A i \in Ids : rv[i] = r => i = Current
    BY <1>2, <1>5 DEF IInv, OneQuery
  <2>2. ~Returned(r)
    BY <1>1, <1>2, <1>5, MarksApart DEF IInv, OneQuery, Returned, OpenIsLast
  <2> QED
    BY <2>1, <2>2
<1>7. /\ OpenIsLast' /\ HandlersOfOpenQueries' /\ HandlersOwned' /\ ThreadsOwned' /\ StoredOwned' /\ OneQuery'
      /\ \A m \in Message : Delivered(m)' => Delivered(m) \/ m = r
  BY <1>1, <1>4, <1>6, EndedKeeps
<1>8. \A m \in Message : m.of # 0 /\ Delivered(m)' => Delivered(m)
  <2>1. r.of # 0 => Delivered(r)
    BY <1>2, <1>5 DEF Delivered, Stored
  <2> QED
    BY <1>7, <2>1
<1>9. \A m \in Message : m.of # 0 /\ Undelivered(m)' => Undelivered(m)
  BY <1>1 DEF Undelivered, Carried, Queued
<1>10. Answered' /\ NotYet'
  BY <1>1, <1>2, <1>8, <1>9, Tracking DEF Unanswered
<1>11. TypeOK'
  BY <1>1, <1>4 DEF IInv, TypeOK, EndedWith, Results
<1>12. Apart' /\ OnePlace' /\ Drained' /\ DrainedNeverAnswers'
  BY <1>1 DEF IInv, Apart, OnePlace, Carried, Queued, Drained, DrainedNeverAnswers
<1> QED
  BY <1>7, <1>10, <1>11, <1>12 DEF IInv

-----------------------------------------------------------------------------
(* The steps of a thread. *)

\* A thread that goes on is put in the place of what it was.
LEMMA MovedThread ==
    ASSUME TypeOK, NEW thr \in threads, NEW at \in {"index", "call", "set"}, NEW fn \in 0 .. MaxRequests,
           Moved(thr, at, fn)
    PROVE  /\ threads' \subseteq Thread
           /\ \E new \in Thread : /\ new.msg = thr.msg /\ new.at = at /\ new.fn = fn
                                  /\ threads' = (threads \ {thr}) \union {new}
<1> DEFINE new == [thr EXCEPT !.at = at, !.fn = fn]
<1>1. thr \in Thread /\ threads \subseteq Thread
  BY DEF TypeOK
<1>2. new \in Thread /\ new.msg = thr.msg /\ new.at = at /\ new.fn = fn
  BY <1>1 DEF Thread
<1>3. threads' = (threads \ {thr}) \union {new}
  BY DEF Moved
<1> QED
  BY <1>1, <1>2, <1>3

LEMMA StartThreadIInv ==
    ASSUME IInv, NEW msg \in inflight, StartThread(msg)
    PROVE  IInv'
<1> DEFINE new == [msg |-> msg, at |-> "look", fn |-> NoHandler]
<1>1. /\ kind = "threaded" /\ inflight' = inflight \ {msg} /\ threads' = threads \union {new}
      /\ UNCHANGED <<kind, request, outcome, unserved, pc, handlers, event, rv, socket, seen>>
      /\ Current' = Current
  BY DEF StartThread, Current
<1>2. TypeOK'
  <2>1. new \in Thread
    BY MaxRequestsNat DEF IInv, TypeOK, Thread, NoHandler
  <2>2. threads' \subseteq Thread /\ inflight' \subseteq Message
    BY <1>1, <2>1 DEF IInv, TypeOK
  <2> QED
    BY <1>1, <2>2 DEF IInv, TypeOK
<1>3. OpenIsLast' /\ HandlersOfOpenQueries' /\ HandlersOwned' /\ StoredOwned' /\ OneQuery' /\ Apart'
  BY <1>1 DEF IInv, OpenIsLast, HandlersOfOpenQueries, HandlersOwned, StoredOwned, OneQuery, Apart
<1>4. ThreadsOwned'
  BY <1>1 DEF IInv, ThreadsOwned
<1>5. \A m \in Message : m.of # 0 /\ Undelivered(m)' => Undelivered(m)
  BY <1>1 DEF Undelivered, Carried, Queued
<1>6. Answered' /\ NotYet'
  BY <1>1, <1>5, Tracking, Basics DEF IInv, Unanswered, Answered, Delivered, Stored, Returned
<1>7. OnePlace'
  BY <1>1 DEF IInv, OnePlace, Carried, Queued
<1>8. Drained' /\ DrainedNeverAnswers'
  BY <1>1 DEF IInv, Drained, DrainedNeverAnswers, Queued
<1> QED
  BY <1>2, <1>3, <1>4, <1>6, <1>7, <1>8 DEF IInv

\* The lookup in two steps: the thread ends, or goes on with the handler of a query.
LEMMA LookIInv ==
    ASSUME IInv, NEW thr \in threads, Look(thr) \/ Index(thr)
    PROVE  IInv'
<1>1. /\ thr.at \in {"look", "index"} /\ Current' = Current
      /\ UNCHANGED <<kind, request, outcome, unserved, inflight, pc, handlers, event, rv, socket, seen>>
  BY DEF Look, Index, Current
<1>2. thr \in Thread /\ thr.msg.to \in Addresses /\ handlers \in [Addresses -> 0 .. MaxRequests]
  BY DEF IInv, TypeOK, Thread, Message
<1> DEFINE OwnedNew(new) ==
      /\ new.msg = thr.msg /\ new.at \in {"index", "call"}
      /\ new.at = "call" => new.fn \in 1 .. Current /\ request[new.fn].to = thr.msg.to
      /\ threads' = (threads \ {thr}) \union {new}
<1>3. /\ threads' \subseteq Thread
      /\ threads' = threads \ {thr} \/ \E new \in Thread : OwnedNew(new)
  <2>1. threads \subseteq Thread
    BY DEF IInv, TypeOK
  <2>2. CASE threads' = threads \ {thr}
    BY <2>1, <2>2
  <2>3. CASE Moved(thr, "index", NoHandler)
    <3>1. 0 \in 0 .. MaxRequests
      BY MaxRequestsNat
    <3> QED
      BY <2>3, <3>1, MovedThread DEF IInv, NoHandler
  <2>4. CASE Moved(thr, "call", handlers[thr.msg.to]) /\ handlers[thr.msg.to] # NoHandler
    <3>1. handlers[thr.msg.to] \in 0 .. MaxRequests
      BY <1>2
    <3>2. handlers[thr.msg.to] \in 1 .. Current /\ request[handlers[thr.msg.to]].to = thr.msg.to
      BY <1>2, <2>4, <3>1, MaxRequestsNat DEF IInv, HandlersOwned, HandlersOfOpenQueries, NoHandler
    <3> QED
      BY <2>4, <3>1, <3>2, MovedThread DEF IInv
  <2> QED
    BY <2>2, <2>3, <2>4 DEF Look, Index
<1>4. TypeOK'
  BY <1>1, <1>3 DEF IInv, TypeOK
<1>5. OpenIsLast' /\ HandlersOfOpenQueries' /\ HandlersOwned' /\ StoredOwned' /\ OneQuery'
  BY <1>1 DEF IInv, OpenIsLast, HandlersOfOpenQueries, HandlersOwned, StoredOwned, OneQuery
<1>6. Apart'
  BY <1>1 DEF IInv, Apart
<1>7. ThreadsOwned'
  BY <1>1, <1>3 DEF IInv, ThreadsOwned
<1>8. \A m : Carried(m)' => Carried(m)
  BY <1>1, <1>3 DEF Carried
<1>9. \A m \in Message : m.of # 0 /\ Undelivered(m)' => Undelivered(m)
  BY <1>1, <1>8 DEF Undelivered, Queued
<1>10. Answered' /\ NotYet'
  BY <1>1, <1>9, Tracking, Basics DEF IInv, Unanswered, Answered, Delivered, Stored, Returned
<1>11. OnePlace'
  <2>1. \A t, u \in threads' : t.at # "set" /\ u.at # "set" /\ t.msg = u.msg /\ t.msg.of # 0 => t = u
    BY <1>1, <1>3 DEF IInv, OnePlace
  <2> QED
    BY <1>1, <1>8, <2>1 DEF IInv, OnePlace, Queued
<1>12. Drained' /\ DrainedNeverAnswers'
  BY <1>1 DEF IInv, Drained, DrainedNeverAnswers, Queued
<1> QED
  BY <1>4, <1>5, <1>6, <1>7, <1>10, <1>11, <1>12 DEF IInv

\* The closure stores a reply that was nowhere else, for the query it belongs to.
LEMMA StoreIInv ==
    ASSUME IInv, NEW thr \in threads, Store(thr)
    PROVE  IInv'
<1>1. /\ thr.at = "call" /\ Current' = Current /\ Moved(thr, "set", thr.fn)
      /\ rv' = [rv EXCEPT ![thr.fn] = thr.msg]
      /\ UNCHANGED <<kind, request, outcome, unserved, inflight, pc, handlers, event, socket, seen>>
  BY DEF Store, Current
<1>2. /\ thr \in Thread /\ thr.msg \in Message /\ thr.fn \in 1 .. Current /\ request[thr.fn].to = thr.msg.to
      /\ thr.fn \in Ids /\ thr.fn \in 0 .. MaxRequests /\ rv \in [Ids -> Message \union {NoReply}]
  <2>1. thr \in Thread /\ thr.fn \in 1 .. Current /\ request[thr.fn].to = thr.msg.to
    BY <1>1 DEF IInv, TypeOK, ThreadsOwned
  <2>2. thr.msg \in Message /\ thr.fn \in 0 .. MaxRequests
    BY <2>1 DEF Thread
  <2> QED
    BY <2>1, <2>2, Basics DEF IInv, TypeOK
<1>3. /\ rv'[thr.fn] = thr.msg /\ thr.msg # NoReply
      /\ \A i \in Ids : i # thr.fn => rv'[i] = rv[i]
  BY <1>1, <1>2, MarksApart
<1>4. PICK new \in Thread : /\ new.msg = thr.msg /\ new.at = "set" /\ new.fn = thr.fn
                            /\ threads' = (threads \ {thr}) \union {new}
  BY <1>1, <1>2, MovedThread DEF IInv
<1>5. TypeOK'
  <2>1. threads' \subseteq Thread /\ rv' \in [Ids -> Message \union {NoReply}]
    BY <1>1, <1>2, <1>4 DEF IInv, TypeOK
  <2> QED
    BY <1>1, <2>1 DEF IInv, TypeOK
<1>6. OpenIsLast' /\ HandlersOfOpenQueries' /\ HandlersOwned' /\ Drained' /\ DrainedNeverAnswers'
  BY <1>1 DEF IInv, OpenIsLast, HandlersOfOpenQueries, HandlersOwned, Drained, DrainedNeverAnswers, Queued
<1>7. Apart'
  BY <1>1 DEF IInv, Apart
<1>8. StoredOwned'
  BY <1>1, <1>2, <1>3 DEF IInv, TypeOK, StoredOwned
<1>9. ThreadsOwned'
  <2>1. \A t \in threads : t.at = "set" => rv'[t.fn] # NoReply
    BY <1>2, <1>3, Basics DEF IInv, ThreadsOwned
  <2> QED
    BY <1>1, <1>2, <1>3, <1>4, <2>1 DEF IInv, ThreadsOwned
<1>10. Undelivered(thr.msg)
  BY <1>1 DEF Undelivered, Carried
<1>11. thr.msg.of # 0 => ~Delivered(thr.msg)
  BY <1>2, <1>10 DEF IInv, NotYet
<1>12. \A m : Carried(m)' => Carried(m) /\ (m.of # 0 => m # thr.msg)
  BY <1>1, <1>4 DEF IInv, OnePlace, Carried
<1>13. \A m \in Message : m.of # 0 /\ Undelivered(m)' => Undelivered(m) /\ m # thr.msg
  <2>1. thr.msg.of # 0 => thr.msg \notin inflight /\ ~Queued(thr.msg)
    <3>1. Carried(thr.msg)
      BY <1>1 DEF Carried
    <3>2. socket = <<>>
      BY KindsKnown DEF IInv, TypeOK, Apart
    <3> QED
      BY <3>1, <3>2 DEF IInv, OnePlace, Queued
  <2> QED
    BY <1>1, <1>12, <2>1 DEF Undelivered, Queued
<1>14. \A m \in Message : Delivered(m)' => Delivered(m) \/ m = thr.msg
  BY <1>1, <1>3 DEF Delivered, Stored, Returned
<1>15. Answered' /\ NotYet'
  BY <1>1, <1>10, <1>11, <1>13, <1>14 DEF IInv, Answered, NotYet, Unanswered
<1>16. OnePlace'
  <2>1. \A t, u \in threads' : t.at # "set" /\ u.at # "set" /\ t.msg = u.msg /\ t.msg.of # 0 => t = u
    BY <1>4 DEF IInv, OnePlace
  <2> QED
    BY <1>1, <1>12, <2>1 DEF IInv, OnePlace, Queued
<1>17. OneQuery'
  <2>1. thr.msg.of # 0 => /\ \A i \in Ids : rv[i] # thr.msg
                          /\ \A i \in DOMAIN outcome : outcome[i] # thr.msg
    BY <1>11 DEF Delivered, Stored, Returned
  <2> QED
    BY <1>1, <1>3, <2>1 DEF IInv, OneQuery
<1> QED
  BY <1>5, <1>6, <1>7, <1>8, <1>9, <1>15, <1>16, <1>17 DEF IInv

LEMMA SetEventIInv ==
    ASSUME IInv, NEW thr \in threads, SetEvent(thr)
    PROVE  IInv'
<1>1. /\ thr.at = "set" /\ threads' = threads \ {thr} /\ event' = event \union {thr.fn} /\ Current' = Current
      /\ UNCHANGED <<kind, request, outcome, unserved, inflight, pc, handlers, rv, socket, seen>>
  BY DEF SetEvent, Current
<1>2. thr.fn \in Ids /\ rv[thr.fn] # NoReply
  BY <1>1, Basics DEF IInv, ThreadsOwned
<1>3. TypeOK'
  <2>1. event' \subseteq Ids /\ threads' \subseteq Thread
    BY <1>1, <1>2 DEF IInv, TypeOK
  <2> QED
    BY <1>1, <2>1 DEF IInv, TypeOK
<1>4. OpenIsLast' /\ HandlersOfOpenQueries' /\ HandlersOwned' /\ OneQuery'
  BY <1>1 DEF IInv, OpenIsLast, HandlersOfOpenQueries, HandlersOwned, OneQuery
<1>5. ThreadsOwned' /\ StoredOwned' /\ Apart'
  BY <1>1, <1>2 DEF IInv, ThreadsOwned, StoredOwned, Apart
<1>6. \A m \in Message : m.of # 0 /\ Undelivered(m)' => Undelivered(m)
  BY <1>1 DEF Undelivered, Carried, Queued
<1>7. Answered' /\ NotYet'
  BY <1>1, <1>6, Tracking, Basics DEF IInv, Unanswered, Answered, Delivered, Stored, Returned
<1>8. OnePlace' /\ Drained' /\ DrainedNeverAnswers'
  BY <1>1 DEF IInv, OnePlace, Carried, Queued, Drained, DrainedNeverAnswers
<1> QED
  BY <1>3, <1>4, <1>5, <1>7, <1>8 DEF IInv

-----------------------------------------------------------------------------
(* The steps of the polling client. *)

LEMMA DrainAndSendIInv ==
    ASSUME IInv, NEW a \in Addresses, DrainAndSend(a)
    PROVE  IInv'
<1>1. /\ kind = "polling" /\ pc = "idle" /\ seen' = {socket[i] : i \in DOMAIN socket} /\ socket' = <<>>
      /\ UNCHANGED <<kind, inflight, handlers, threads, event, rv>>
  BY DEF DrainAndSend
<1>2. Current \in Nat /\ Current <= Current + 1
  BY Basics DEF IInv
<1>3. socket' \in Seq(Message) /\ seen' \subseteq Message
  BY <1>1 DEF IInv, TypeOK
<1>4. \A m \in Message : Undelivered(m)' => Undelivered(m)
  BY <1>1 DEF Undelivered, Carried, Queued
<1>5. Apart' /\ OnePlace'
  BY <1>1 DEF IInv, Apart, OnePlace, Carried, Queued
<1>6. \A m \in seen' : m.of # 0 => /\ m.of <= Current /\ m.of \notin unserved /\ m \notin inflight /\ ~Queued(m)'
                                   /\ m \in Message /\ ~Delivered(m)
  <2> SUFFICES ASSUME NEW m \in seen', m.of # 0
               PROVE  /\ m.of <= Current /\ m.of \notin unserved /\ m \notin inflight /\ ~Queued(m)'
                      /\ m \in Message /\ ~Delivered(m)
    OBVIOUS
  <2>1. m \in Message /\ Queued(m)
    BY <1>1, <1>3 DEF Queued
  <2>2. Undelivered(m)
    BY <2>1 DEF Undelivered
  <2>3. m.of <= Current /\ m.of \notin unserved /\ ~Delivered(m)
    BY <2>1, <2>2 DEF IInv, Answered, Unanswered, NotYet
  <2>4. m \notin inflight
    BY <2>1 DEF IInv, OnePlace
  <2> QED
    BY <1>1, <2>1, <2>3, <2>4 DEF Queued
<1>7. CASE Made(a, TRUE) /\ pc' = "wait" /\ unserved' = unserved \union {Current + 1}
  <2>1. Appended(a, TRUE) /\ Current' = Current + 1
    BY <1>7, MadeLast DEF IInv, Appended
  <2>2. /\ OpenIsLast' /\ HandlersOfOpenQueries' /\ HandlersOwned' /\ ThreadsOwned' /\ StoredOwned' /\ OneQuery'
        /\ \A m \in Message : m.of # 0 /\ Delivered(m)' => Delivered(m)
    BY <1>1, <1>7, <2>1, MadeKeeps
  <2>3. Answered' /\ NotYet'
    BY <1>1, <1>2, <1>4, <1>7, <2>1, <2>2, Tracking DEF Unanswered
  <2>4. TypeOK'
    BY <1>1, <1>3, <1>7, <2>1 DEF IInv, TypeOK, Appended, Results
  <2>5. Drained'
    BY <1>1, <1>2, <1>6, <1>7, <2>1 DEF Drained, Message
  <2>6. DrainedNeverAnswers'
    BY <1>7 DEF DrainedNeverAnswers
  <2> QED
    BY <1>5, <2>2, <2>3, <2>4, <2>5, <2>6 DEF IInv
<1>8. CASE UNCHANGED <<request, outcome, pc, unserved>>
  <2>1. Current' = Current
    BY <1>8 DEF Current
  <2>2. OpenIsLast' /\ HandlersOfOpenQueries' /\ HandlersOwned' /\ ThreadsOwned' /\ StoredOwned' /\ OneQuery'
    BY <1>1, <1>8, <2>1 DEF IInv, OpenIsLast, HandlersOfOpenQueries, HandlersOwned, ThreadsOwned, StoredOwned, OneQuery
  <2>3. Answered' /\ NotYet'
    BY <1>1, <1>2, <1>4, <1>8, <2>1, Tracking DEF Unanswered, Delivered, Stored, Returned
  <2>4. TypeOK'
    BY <1>1, <1>3, <1>8 DEF IInv, TypeOK
  <2>5. Drained'
    BY <1>1, <1>6, <1>8, <2>1 DEF Drained
  <2>6. DrainedNeverAnswers'
    <3>1. Current # 0 => Current \in DOMAIN outcome
      BY <1>2, Basics DEF IInv
    <3> QED
      BY <1>2, <1>6, <1>8, <2>1, <3>1 DEF DrainedNeverAnswers, Delivered, Returned
  <2> QED
    BY <1>5, <2>2, <2>3, <2>4, <2>5, <2>6 DEF IInv
<1> QED
  BY <1>7, <1>8 DEF DrainAndSend

LEMMA ReceiveIInv ==
    ASSUME IInv, Receive
    PROVE  IInv'
<1> DEFINE got == Head(socket)
<1>1. /\ kind = "polling" /\ pc = "wait" /\ Current # 0 /\ socket # <<>> /\ socket' = Tail(socket) /\ Current' = Current
      /\ UNCHANGED <<kind, request, unserved, inflight, handlers, threads, event, rv, seen>>
  BY DEF Receive, IInv, OpenIsLast, Current
<1>2. /\ socket' \in Seq(Message) /\ got \in Message
      /\ 1 \in DOMAIN socket /\ socket[1] = got
      /\ \A k \in DOMAIN socket' : k + 1 \in DOMAIN socket /\ k + 1 # 1 /\ k \in Nat /\ socket'[k] = socket[k + 1]
  BY <1>1 DEF IInv, TypeOK
<1> HIDE DEF got
<1>3. Queued(got) /\ Undelivered(got)
  BY <1>2 DEF Undelivered, Queued
<1>4. \A m : Queued(m)' => Queued(m) /\ (m.of # 0 => m # got)
  BY <1>2 DEF IInv, OnePlace, Queued
<1>5. /\ got.of # 0 => got \notin inflight /\ got \notin seen /\ ~Delivered(got)
      /\ \A m : ~Carried(m)
  BY <1>1, <1>2, <1>3 DEF IInv, OnePlace, Drained, NotYet, Apart, Carried
<1>6. \A m \in Message : m.of # 0 /\ Undelivered(m)' => Undelivered(m) /\ m # got
  BY <1>1, <1>4, <1>5 DEF Undelivered, Carried
<1>7. OnePlace'
  <2>1. \A j, k \in DOMAIN socket' : socket'[j] = socket'[k] /\ socket'[j].of # 0 => j = k
    BY <1>2 DEF IInv, OnePlace
  <2> QED
    BY <1>1, <1>4, <2>1 DEF IInv, OnePlace, Carried
<1>8. Apart' /\ Drained'
  BY <1>1, <1>4 DEF IInv, Apart, Drained
<1>9. CASE got.to = Address /\ Ended(got) /\ pc' = "idle"
  <2>1. EndedWith(got)
    BY <1>1, <1>2, <1>9, EndedLast DEF IInv, Results
  <2>2. \A i \in Ids : rv[i] = NoReply
    BY <1>1 DEF IInv, Apart
  <2>3. /\ OpenIsLast' /\ HandlersOfOpenQueries' /\ HandlersOwned' /\ ThreadsOwned' /\ StoredOwned' /\ OneQuery'
        /\ \A m \in Message : Delivered(m)' => Delivered(m) \/ m = got
    <3>1. got \in Results /\ got # Mark("open")
      BY <1>2, MarksApart DEF Results
    <3>2. \A b1 \in Addresses : handlers[b1] = NoHandler
      BY <1>1 DEF IInv, Apart
    <3>3. got.of # 0 => ~Returned(got) /\ \A i \in Ids : rv[i] = got => i = Current
      BY <1>5, <2>2, MarksApart DEF Delivered
    <3> QED
      BY <1>1, <1>9, <2>1, <3>1, <3>2, <3>3, EndedKeeps
  <2>4. Answered' /\ NotYet'
    <3>1. ASSUME NEW m \in Message, m.of # 0, Undelivered(m)' \/ Delivered(m)'
          PROVE  m.of <= Current /\ m.of \notin unserved
      <4>1. Undelivered(m) \/ Delivered(m)
        BY <1>3, <1>6, <2>3, <3>1
      <4> QED
        BY <3>1, <4>1 DEF IInv, Answered, Unanswered
    <3>2. ASSUME NEW m \in Message, m.of # 0, Undelivered(m)'
          PROVE  ~Delivered(m)'
      BY <1>6, <2>3, <3>2 DEF IInv, NotYet
    <3> QED
      BY <1>1, <1>9, <3>1, <3>2 DEF Answered, NotYet, Unanswered
  <2>5. TypeOK'
    BY <1>1, <1>2, <1>9, <2>1 DEF IInv, TypeOK, EndedWith, Results
  <2>6. DrainedNeverAnswers'
    BY <1>1, <1>5, <2>1 DEF DrainedNeverAnswers, EndedWith
  <2> QED
    BY <1>7, <1>8, <2>3, <2>4, <2>5, <2>6 DEF IInv
<1>10. CASE UNCHANGED <<outcome, pc>>
  <2>1. OpenIsLast' /\ HandlersOfOpenQueries' /\ HandlersOwned' /\ ThreadsOwned' /\ StoredOwned' /\ OneQuery'
    BY <1>1, <1>10 DEF IInv, OpenIsLast, HandlersOfOpenQueries, HandlersOwned, ThreadsOwned, StoredOwned, OneQuery
  <2>2. Answered' /\ NotYet'
    BY <1>1, <1>6, <1>10, Tracking, Basics DEF IInv, Unanswered, Answered, Delivered, Stored, Returned
  <2>3. TypeOK' /\ DrainedNeverAnswers'
    BY <1>1, <1>2, <1>10 DEF IInv, TypeOK, DrainedNeverAnswers
  <2> QED
    BY <1>7, <1>8, <2>1, <2>2, <2>3 DEF IInv
<1> QED
  BY <1>9, <1>10 DEF Receive, got

LEMMA DeadlineIInv ==
    ASSUME IInv, Deadline
    PROVE  IInv'
<1>1. /\ kind = "polling" /\ pc = "wait" /\ pc' = "idle" /\ Current # 0 /\ Ended(Mark("failed")) /\ Current' = Current
      /\ UNCHANGED <<kind, request, unserved, inflight, handlers, threads, event, rv, socket, seen>>
  BY DEF Deadline, IInv, OpenIsLast, Current
<1>2. EndedWith(Mark("failed"))
  BY <1>1, EndedLast DEF IInv, Results
<1>3. /\ OpenIsLast' /\ HandlersOfOpenQueries' /\ HandlersOwned' /\ ThreadsOwned' /\ StoredOwned' /\ OneQuery'
      /\ \A m \in Message : Delivered(m)' => Delivered(m) \/ m = Mark("failed")
  BY <1>1, <1>2, EndedKeeps, MarksApart DEF Results
<1>4. \A m \in Message : m.of # 0 /\ Undelivered(m)' => Undelivered(m)
  BY <1>1 DEF Undelivered, Carried, Queued
<1>5. Answered' /\ NotYet'
  <2>1. \A m \in Message : m.of # 0 /\ Delivered(m)' => Delivered(m)
    BY <1>3, MarksApart
  <2> QED
    BY <1>1, <1>4, <2>1, Tracking, Basics DEF IInv, Unanswered, Answered
<1>6. TypeOK'
  BY <1>1, <1>2 DEF IInv, TypeOK, EndedWith, Results
<1>7. Apart' /\ OnePlace' /\ Drained'
  BY <1>1 DEF IInv, Apart, OnePlace, Carried, Queued, Drained
<1>8. DrainedNeverAnswers'
  BY <1>1, <1>2, MarksApart DEF DrainedNeverAnswers, EndedWith
<1> QED
  BY <1>3, <1>5, <1>6, <1>7, <1>8 DEF IInv

LEMMA ArriveIInv ==
    ASSUME IInv, NEW msg \in inflight, Arrive(msg)
    PROVE  IInv'
<1>1. /\ kind = "polling" /\ inflight' = inflight \ {msg} /\ socket' = Append(socket, msg) /\ Current' = Current
      /\ UNCHANGED <<kind, request, outcome, unserved, pc, handlers, threads, event, rv, seen>>
  BY DEF Arrive, Current
<1>2. /\ socket' \in Seq(Message) /\ inflight' \subseteq Message
      /\ \A k \in DOMAIN socket' : (k \in DOMAIN socket /\ socket'[k] = socket[k]) \/ (k = Len(socket) + 1 /\ socket'[k] = msg)
  BY <1>1 DEF IInv, TypeOK
<1>3. \A m : Queued(m)' => Queued(m) \/ m = msg
  BY <1>2 DEF Queued
<1>4. \A m \in Message : m.of # 0 /\ Undelivered(m)' => Undelivered(m)
  BY <1>1, <1>3 DEF Undelivered, Carried
<1>5. TypeOK' /\ DrainedNeverAnswers' /\ Apart'
  BY <1>1, <1>2 DEF IInv, TypeOK, DrainedNeverAnswers, Apart
<1>6. OpenIsLast' /\ HandlersOfOpenQueries' /\ HandlersOwned' /\ ThreadsOwned' /\ StoredOwned' /\ OneQuery'
  BY <1>1 DEF IInv, OpenIsLast, HandlersOfOpenQueries, HandlersOwned, ThreadsOwned, StoredOwned, OneQuery
<1>7. Answered' /\ NotYet'
  BY <1>1, <1>4, Tracking, Basics DEF IInv, Unanswered, Answered, Delivered, Stored, Returned
<1>8. OnePlace'
  <2>1. msg.of # 0 => ~Queued(msg)
    BY DEF IInv, OnePlace
  <2>2. \A j, k \in DOMAIN socket' : socket'[j] = socket'[k] /\ socket'[j].of # 0 => j = k
    BY <1>2, <2>1 DEF IInv, OnePlace, Queued
  <2> QED
    BY <1>1, <1>3, <2>2 DEF IInv, OnePlace, Carried
<1>9. Drained'
  BY <1>1, <1>3 DEF IInv, Drained
<1> QED
  BY <1>5, <1>6, <1>7, <1>8, <1>9 DEF IInv

-----------------------------------------------------------------------------
(* The steps of the bridge. *)

\* A message is sent: by a listener, or as the reply to a request that had none.
LEMMA SentIInv ==
    ASSUME IInv, NEW new \in Message, inflight' = inflight \union {new} \/ inflight' = inflight, unserved' \subseteq unserved,
           new.of # 0 => new.of \in unserved /\ new.of \notin unserved',
           UNCHANGED <<kind, request, outcome, client>>
    PROVE  IInv'
<1>1. /\ UNCHANGED <<kind, request, outcome, pc, handlers, threads, event, rv, socket, seen>> /\ Current' = Current
      /\ inflight' \subseteq inflight \union {new}
  BY DEF client, Current
<1>2. TypeOK'
  BY <1>1 DEF IInv, TypeOK
<1>3. OpenIsLast' /\ HandlersOfOpenQueries' /\ HandlersOwned' /\ ThreadsOwned' /\ StoredOwned' /\ OneQuery'
  BY <1>1 DEF IInv, OpenIsLast, HandlersOfOpenQueries, HandlersOwned, ThreadsOwned, StoredOwned, OneQuery
<1>4. Apart' /\ DrainedNeverAnswers'
  BY <1>1 DEF IInv, Apart, DrainedNeverAnswers
<1>5. new.of # 0 => /\ ~Undelivered(new) /\ ~Delivered(new) /\ new.of <= Current
                    /\ new.of \notin Unanswered'
  BY <1>1, Basics DEF IInv, Answered, Unanswered
<1>6. \A m \in Message : /\ Undelivered(m)' => Undelivered(m) \/ m = new
                         /\ Delivered(m)' <=> Delivered(m)
  BY <1>1 DEF Undelivered, Delivered, Carried, Queued, Stored, Returned
<1>7. Answered'
  <2>1. pc' = "send" => Current' \notin unserved'
    BY <1>1 DEF IInv, Answered
  <2>2. Unanswered' \subseteq Unanswered
    BY <1>1 DEF Unanswered
  <2> QED
    BY <1>1, <1>5, <1>6, <2>1, <2>2 DEF IInv, Answered
<1>8. NotYet'
  BY <1>5, <1>6 DEF IInv, NotYet
<1>9. OnePlace'
  BY <1>1, <1>5 DEF IInv, OnePlace, Undelivered, Carried, Queued
<1>10. Drained'
  BY <1>1 DEF IInv, Drained, Queued
<1> QED
  BY <1>2, <1>3, <1>4, <1>7, <1>8, <1>9, <1>10 DEF IInv

LEMMA ServeIInv ==
    ASSUME IInv, NEW req \in unserved, Serve(req)
    PROVE  IInv'
<1> DEFINE new == [to |-> request[req].to, of |-> req]
<1>1. req \in 1 .. Current /\ req \in 0 .. MaxRequests /\ Current \in Nat /\ DOMAIN request = 1 .. Current
  BY Basics, MaxRequestsNat DEF IInv
<1>2. request[req].to \in Addresses
  <2> DEFINE Asked == [to : Addresses, awaits : BOOLEAN]
  <2>1. request \in Seq(Asked)
    BY DEF IInv, TypeOK
  <2>2. req \in 1 .. Len(request)
    BY <1>1 DEF Current
  <2>3. request[req] \in Asked
    <3> HIDE DEF Asked
    <3> QED BY <2>1, <2>2
  <2> QED
    BY <2>3
<1>3. new \in Message /\ new.of = req
  BY <1>1, <1>2 DEF Message
<1>4. /\ unserved' = unserved \ {req} /\ UNCHANGED <<kind, request, outcome, client>>
      /\ inflight' = inflight \union {new} \/ inflight' = inflight
  BY DEF Serve
<1> HIDE DEF new
<1> QED
  BY <1>3, <1>4, SentIInv

LEMMA ListenerSendsIInv ==
    ASSUME IInv, NEW a \in Addresses, ListenerSends(a)
    PROVE  IInv'
<1> DEFINE new == [to |-> a, of |-> 0]
<1>1. new \in Message /\ new.of = 0
  BY MaxRequestsNat DEF Message
<1>2. /\ inflight' = inflight \union {new} /\ unserved' \subseteq unserved
      /\ UNCHANGED <<kind, request, outcome, client>>
  BY DEF ListenerSends
<1> HIDE DEF new
<1> QED
  BY <1>1, <1>2, SentIInv

-----------------------------------------------------------------------------
(* What holds of every behaviour. *)

\* Nothing is asked at first.
LEMMA InitIInv == Init => IInv
<1> SUFFICES ASSUME Init PROVE IInv
  OBVIOUS
<1>1. /\ Len(request) = 0 /\ Current = 0 /\ DOMAIN outcome = {} /\ DOMAIN socket = {}
      /\ \A m : ~Undelivered(m)
  BY DEF Init, Current, Undelivered, Carried, Queued
<1>2. \A m \in Message : ~Delivered(m)
  BY <1>1, MarksApart DEF Init, Delivered, Stored, Returned
<1>3. TypeOK
  BY MaxRequestsNat DEF Init, TypeOK, NoHandler
<1>4. OpenIsLast /\ Apart /\ HandlersOfOpenQueries /\ HandlersOwned /\ ThreadsOwned /\ StoredOwned
  BY <1>1 DEF Init, OpenIsLast, Apart, HandlersOfOpenQueries, HandlersOwned, ThreadsOwned, StoredOwned, NoHandler
<1>5. Answered /\ NotYet /\ OnePlace
  BY <1>1, <1>2 DEF Init, Answered, NotYet, OnePlace
<1>6. OneQuery
  BY <1>1, MarksApart DEF Init, OneQuery
<1>7. Drained /\ DrainedNeverAnswers
  BY <1>1 DEF Init, Drained, DrainedNeverAnswers
<1> QED
  BY <1>3, <1>4, <1>5, <1>6, <1>7 DEF IInv

\* What changes nothing keeps IInv.
LEMMA StutterIInv ==
    ASSUME IInv, UNCHANGED vars
    PROVE  IInv'
<1>1. UNCHANGED <<kind, request, outcome, unserved, inflight, pc, handlers, threads, event, rv, socket, seen>> /\ Current' = Current
  BY DEF vars, client, Current
<1>2. TypeOK'
  BY <1>1 DEF IInv, TypeOK
<1>3. OpenIsLast' /\ Apart' /\ HandlersOfOpenQueries' /\ HandlersOwned' /\ ThreadsOwned' /\ StoredOwned'
  BY <1>1 DEF IInv, OpenIsLast, Apart, HandlersOfOpenQueries, HandlersOwned, ThreadsOwned, StoredOwned
<1>4. Answered' /\ NotYet'
  BY <1>1 DEF IInv, Answered, NotYet, Unanswered, Undelivered, Delivered, Carried, Queued, Stored, Returned
<1>5. OnePlace' /\ OneQuery' /\ Drained' /\ DrainedNeverAnswers'
  BY <1>1 DEF IInv, OnePlace, OneQuery, Drained, DrainedNeverAnswers, Carried, Queued
<1> QED
  BY <1>2, <1>3, <1>4, <1>5 DEF IInv

\* IInv is inductive.
LEMMA NextIInv == IInv /\ [Next]_vars => IInv'
<1> SUFFICES ASSUME IInv, [Next]_vars PROVE IInv'
  OBVIOUS
<1>1. CASE Asking
  BY <1>1, SendIInv, WakeIInv, CheckEventIInv, ReceiveIInv, DeadlineIInv DEF Asking
<1>2. ASSUME NEW a \in Addresses, SendMessage(a) \/ SetHandler(a) \/ DrainAndSend(a) \/ ListenerSends(a)
      PROVE  IInv'
  BY <1>2, SendMessageIInv, SetHandlerIInv, DrainAndSendIInv, ListenerSendsIInv
<1>3. ASSUME NEW m \in inflight, StartThread(m) \/ Arrive(m)
      PROVE  IInv'
  BY <1>3, StartThreadIInv, ArriveIInv
<1>4. ASSUME NEW t \in threads, Look(t) \/ Index(t) \/ Store(t) \/ SetEvent(t)
      PROVE  IInv'
  BY <1>4, LookIInv, StoreIInv, SetEventIInv
<1>5. ASSUME NEW i \in unserved, Serve(i)
      PROVE  IInv'
  BY <1>5, ServeIInv
<1> QED
  BY <1>1, <1>2, <1>3, <1>4, <1>5, StutterIInv DEF Next

\* The invariant holds in every state of every behaviour.
LEMMA Invariance == Spec => []IInv
BY InitIInv, NextIInv, PTL DEF Spec

\* Type correctness of both clients (client.py 17-167, integration_client.py 41-106).
THEOREM ClientTypes == Spec => []TypeOK
<1>1. IInv => TypeOK
  BY DEF IInv
<1> QED
  BY <1>1, Invariance, PTL

\* Neither a handler that an earlier query has left registered (client.py 135-155) nor
\* a datagram that had arrived before a query began (integration_client.py 58-72) can
\* answer the query.
THEOREM NothingIsLeftBehind == Spec => []NothingLeftBehind
<1>1. IInv => NothingLeftBehind
  BY DEF IInv, NothingLeftBehind
<1> QED
  BY <1>1, Invariance, PTL

-----------------------------------------------------------------------------
(* The refinement: a step of a client is a step of the service, or none. *)

\* A request that is made while no query is open is asked of the service.
LEMMA MadeIsAsk ==
    ASSUME IInv, pc = "idle", NEW a \in Addresses, NEW awaits \in BOOLEAN, Made(a, awaits)
    PROVE  Service!Next
<1>1. ~Service!Open
  <2>1. Len(outcome) = Current /\ Current \in Nat /\ DOMAIN outcome = 1 .. Current
    BY Basics DEF IInv, TypeOK, Current
  <2>2. outcome # <<>> => Len(outcome) \in DOMAIN outcome
    BY <2>1 DEF IInv, TypeOK
  <2> QED
    BY <2>2 DEF Service!Open, Service!Mark, Mark, IInv, OpenIsLast
<1>2. Service!Ask(a, awaits)
  BY <1>1 DEF Made, Mark, Service!Ask, Service!Mark
<1> QED
  BY <1>2 DEF Service!Next

\* While a query is open in the client, it is in the service.
LEMMA OpenInService ==
    ASSUME IInv, pc # "idle"
    PROVE  Service!Open /\ Len(outcome) = Current /\ Current \in Nat
<1>1. Len(outcome) = Current /\ Current \in Nat /\ Current # 0 /\ outcome[Current] = Mark("open")
  BY Basics DEF IInv, TypeOK, OpenIsLast, Current
<1>2. outcome # <<>>
  BY <1>1
<1> QED
  BY <1>1, <1>2 DEF Service!Open, Service!Mark, Mark

\* An error ends the open query.
LEMMA FailIsFail ==
    ASSUME IInv, pc # "idle", Ended(Mark("failed")), UNCHANGED request
    PROVE  Service!Next
<1>1. Service!Fail
  BY OpenInService DEF Ended, Mark, Service!Fail, Service!End, Service!Mark
<1> QED
  BY <1>1 DEF Service!Next

\* A message under the address of the query, to an earlier request or this one, and
\* given to no query yet, is an answer of the service.
LEMMA AnswerIsAnswer ==
    ASSUME IInv, pc # "idle", NEW r \in Message, Ended(r), UNCHANGED request,
           r.to = request[Current].to, r.of \in 0 .. Current, r.of # 0 => ~Returned(r)
    PROVE  Service!Next
<1>1. r = [to |-> r.to, of |-> r.of] /\ r.to \in Addresses
  BY DEF Message
<1>2. Service!Open /\ Len(outcome) = Current /\ Len(request) = Current
  BY OpenInService DEF Current
<1>3. Service!Answer(r)
  BY <1>2 DEF Ended, Returned, Service!Answer, Service!End
<1>4. Service!Answer([to |-> r.to, of |-> r.of])
  BY <1>1, <1>3
<1> QED
  BY <1>1, <1>2, <1>4 DEF Service!Next

\* Each step is one of the service, or leaves it alone.
LEMMA StepRefines == IInv /\ [Next]_vars => [Service!Next]_(Service!vars)
<1> SUFFICES ASSUME IInv, [Next]_vars
             PROVE  Service!Next \/ UNCHANGED <<request, outcome>>
  BY DEF Service!vars
<1>1. CASE Send
  BY <1>1, FailIsFail DEF Send
<1>2. CASE CheckEvent
  <2>1. pc # "idle" /\ UNCHANGED request /\ Current \in Nat /\ Current # 0 /\ Current \in Ids
    BY <1>2, Basics DEF CheckEvent, IInv, OpenIsLast
  <2>2. CASE Current \notin event
    BY <1>2, <2>1, <2>2, FailIsFail DEF CheckEvent
  <2>3. CASE Current \in event
    <3> DEFINE r == rv[Current]
    <3>1. r \in Message /\ r.to = request[Current].to
      BY <2>1, <2>3, Basics DEF IInv, StoredOwned
    <3>2. r.of \in 0 .. Current
      <4>1. Delivered(r)
        BY <2>1 DEF Delivered, Stored
      <4> QED
        BY <2>1, <3>1, <4>1 DEF IInv, Answered, Message
    <3>3. r.of # 0 => ~Returned(r)
      BY <2>1, <3>1, MarksApart DEF IInv, OneQuery, Returned, OpenIsLast
    <3>4. Ended(r)
      BY <1>2, <2>3 DEF CheckEvent
    <3> HIDE DEF r
    <3> QED
      BY <2>1, <3>1, <3>2, <3>3, <3>4, AnswerIsAnswer
  <2> QED
    BY <2>2, <2>3
<1>3. CASE Receive
  <2>1. pc # "idle" /\ UNCHANGED request /\ socket # <<>> /\ Current \in Nat
    BY <1>3, Basics DEF Receive, IInv
  <2>2. Head(socket) \in Message /\ Queued(Head(socket))
    BY <2>1 DEF IInv, TypeOK, Queued
  <2>3. Undelivered(Head(socket))
    BY <2>2 DEF Undelivered
  <2> DEFINE got == Head(socket)
  <2>4. CASE got.to = Address /\ Ended(got)
    <3>1. got \in Message /\ Undelivered(got)
      BY <2>2, <2>3
    <3> HIDE DEF got
    <3>2. got.of \in 0 .. Current /\ (got.of # 0 => ~Returned(got))
      BY <2>1, <3>1 DEF IInv, Answered, NotYet, Delivered, Message
    <3> QED
      BY <2>1, <2>4, <3>1, <3>2, AnswerIsAnswer DEF Address
  <2> QED
    BY <1>3, <2>1, <2>4 DEF Receive
<1>4. CASE Deadline
  BY <1>4, FailIsFail DEF Deadline
<1>5. CASE Wake \/ RemoveHandler
  BY <1>5 DEF Wake, RemoveHandler
<1>6. ASSUME NEW a \in Addresses, SendMessage(a) \/ SetHandler(a)
      PROVE  Service!Next
  BY <1>6, MadeIsAsk DEF SendMessage, SetHandler
<1>7. ASSUME NEW a \in Addresses, DrainAndSend(a)
      PROVE  Service!Next \/ UNCHANGED <<request, outcome>>
  BY <1>7, MadeIsAsk DEF DrainAndSend
<1>8. ASSUME NEW a \in Addresses, ListenerSends(a)
      PROVE  UNCHANGED <<request, outcome>>
  BY <1>8 DEF ListenerSends
<1>9. ASSUME NEW m \in inflight, StartThread(m) \/ Arrive(m)
      PROVE  UNCHANGED <<request, outcome>>
  BY <1>9 DEF StartThread, Arrive
<1>10. ASSUME NEW t \in threads, Look(t) \/ Index(t) \/ Store(t) \/ SetEvent(t)
       PROVE  UNCHANGED <<request, outcome>>
  BY <1>10 DEF Look, Index, Store, SetEvent
<1>11. ASSUME NEW i \in unserved, Serve(i)
       PROVE  UNCHANGED <<request, outcome>>
  BY <1>11 DEF Serve
<1>12. CASE UNCHANGED vars
  BY <1>12 DEF vars
<1> QED
  BY <1>1, <1>2, <1>3, <1>4, <1>5, <1>6, <1>7, <1>8, <1>9, <1>10, <1>11, <1>12 DEF Next, Asking

\* Both clients implement the query service, but for its liveness, which is checked by
\* TLC: one query is open at a time, and it ends once, with an error or with a message
\* under its address that no query was given before.
THEOREM ImplementsServiceSafely == Spec => Service!SafeSpec
<1>1. Init => Service!Init
  BY DEF Init, Service!Init
<1> QED
  BY <1>1, Invariance, StepRefines, PTL DEF Spec, Service!SafeSpec

================================================================================
