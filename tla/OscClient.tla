------------------------------- MODULE OscClient -------------------------------
(* The two clients of the repository, each asking one question at a time over  *)
(* UDP.  "threaded" (client/client.py) keeps a handler per address and serves  *)
(* every datagram in a thread of its own, which looks the handler up in two    *)
(* steps while the asking thread sets, waits and deletes.  "polling"           *)
(* (integration_client.py) empties its socket, sends, and reads until an       *)
(* address matches.  Datagrams are lost by staying in flight, and overtake     *)
(* each other; the bridge answers a request once, late, or not at all.         *)
EXTENDS Naturals, Sequences

CONSTANTS Addresses, Heard, Kinds, MaxRequests

ASSUME KindsKnown == Kinds \subseteq {"threaded", "polling"}
ASSUME NoAddressIsAMark == {"none", "open", "sent", "failed"} \cap Addresses = {}
ASSUME HeardAreAddresses == Heard \subseteq Addresses \* those a listener sends to as well
ASSUME MaxRequestsNat == MaxRequests \in Nat

VARIABLES
    kind,     \* which of the two clients runs
    request,  \* what it has sent, in order
    outcome,  \* of each request: the message it got, or a mark in its place
    pc,       \* where query() is
    unserved, \* requests that the bridge has not answered
    inflight, \* messages on the way to the client
    socket,   \* polling: what recvfrom will return
    seen,     \* history: what had arrived when the last query began
    handlers, \* threaded: address_handlers, the query whose closure is registered
    threads,  \* threaded: the messages being handled, and how far
    event,    \* threaded: the queries whose _event is set
    rv        \* threaded: what the closure of each query has stored

client == <<pc, handlers, threads, event, rv, socket, seen>>
vars == <<kind, request, outcome, unserved, inflight, client>>

Ids == 1 .. MaxRequests
Message == [to : Addresses, of : 0 .. MaxRequests]
Mark(m) == [to |-> m, of |-> 0]
NoHandler == 0
NoReply == Mark("none")
Current == Len(request)
Address == request[Current].to

\* A request enters the history; the bridge may answer it from now on.
Made(a, awaits) ==
    /\ Current < MaxRequests
    /\ request' = Append(request, [to |-> a, awaits |-> awaits])
    /\ outcome' = Append(outcome, Mark(IF awaits THEN "open" ELSE "sent"))

Ended(result) == outcome' = [outcome EXCEPT ![Current] = result]

\* send_message without waiting for anything, e.g. a set_ whose only reply is an error.
SendMessage(a) ==
    /\ pc = "idle"
    /\ Made(a, FALSE)
    /\ unserved' = unserved \union {Current + 1}
    /\ UNCHANGED <<kind, inflight, client>>

(* The threaded client *)

\* query() and await_message() up to set_handler, which replaces what is there.
SetHandler(a) ==
    /\ kind = "threaded"
    /\ pc = "idle"
    /\ Made(a, TRUE)
    /\ handlers' = [handlers EXCEPT ![a] = Current + 1]
    /\ pc' \in {"send", "wait"}
    /\ UNCHANGED <<kind, unserved, inflight, threads, event, rv, socket, seen>>

\* The message is built and sent; an argument that OSC cannot carry raises
\* through query(), which leaves the handler registered.
Send ==
    /\ pc = "send"
    /\ \/ /\ pc' = "wait"
          /\ unserved' = unserved \union {Current}
          /\ UNCHANGED outcome
       \/ /\ pc' = "idle"
          /\ Ended(Mark("failed"))
          /\ UNCHANGED unserved
    /\ UNCHANGED <<kind, request, inflight, handlers, threads, event, rv, socket, seen>>

\* _event.wait returns because the event is set, or after the timeout.
Wake ==
    /\ kind = "threaded"
    /\ pc = "wait"
    /\ pc' = "woken"
    /\ UNCHANGED <<kind, request, outcome, unserved, inflight, handlers, threads, event, rv, socket, seen>>

\* Mutant: the asker goes on without deleting its handler.
RemoveForgotten ==
    /\ pc = "woken"
    /\ pc' = "check"
    /\ UNCHANGED <<kind, request, outcome, unserved, inflight, handlers, threads, event, rv, socket, seen>>

\* remove_handler deletes the entry of the address.
RemoveHandler ==
    /\ pc = "woken"
    /\ handlers' = [handlers EXCEPT ![Address] = NoHandler]
    /\ pc' = "check"
    /\ UNCHANGED <<kind, request, outcome, unserved, inflight, threads, event, rv, socket, seen>>

\* The event decides between the stored reply and RuntimeError.
CheckEvent ==
    /\ pc = "check"
    /\ Ended(IF Current \in event THEN rv[Current] ELSE Mark("failed"))
    /\ pc' = "idle"
    /\ UNCHANGED <<kind, request, unserved, inflight, handlers, threads, event, rv, socket, seen>>

Moved(t, at, fn) == threads' = (threads \ {t}) \union {[t EXCEPT !.at = at, !.fn = fn]}

\* ThreadingOSCUDPServer starts a thread for the datagram.
StartThread(m) ==
    /\ kind = "threaded"
    /\ m \in inflight
    /\ inflight' = inflight \ {m}
    /\ threads' = threads \union {[msg |-> m, at |-> "look", fn |-> NoHandler]}
    /\ UNCHANGED <<kind, request, outcome, unserved, pc, handlers, event, rv, socket, seen>>

\* "if address in self.address_handlers"
Look(t) ==
    /\ t.at = "look"
    /\ IF handlers[t.msg.to] = NoHandler
       THEN threads' = threads \ {t}
       ELSE Moved(t, "index", NoHandler)
    /\ UNCHANGED <<kind, request, outcome, unserved, inflight, pc, handlers, event, rv, socket, seen>>

\* "self.address_handlers[address]": KeyError ends the thread if it was deleted meanwhile.
Index(t) ==
    /\ t.at = "index"
    /\ IF handlers[t.msg.to] = NoHandler
       THEN threads' = threads \ {t}
       ELSE Moved(t, "call", handlers[t.msg.to])
    /\ UNCHANGED <<kind, request, outcome, unserved, inflight, pc, handlers, event, rv, socket, seen>>

\* Mutant: one place for the reply, shared by all queries.
StoreForCurrent(t) ==
    /\ t.at = "call"
    /\ rv' = [rv EXCEPT ![Current] = t.msg]
    /\ Moved(t, "set", t.fn)
    /\ UNCHANGED <<kind, request, outcome, unserved, inflight, pc, handlers, event, socket, seen>>

\* received_response stores the parameters, then sets the event of its own query.
Store(t) ==
    /\ t.at = "call"
    /\ rv' = [rv EXCEPT ![t.fn] = t.msg]
    /\ Moved(t, "set", t.fn)
    /\ UNCHANGED <<kind, request, outcome, unserved, inflight, pc, handlers, event, socket, seen>>

SetEvent(t) ==
    /\ t.at = "set"
    /\ event' = event \union {t.fn}
    /\ threads' = threads \ {t}
    /\ UNCHANGED <<kind, request, outcome, unserved, inflight, pc, handlers, rv, socket, seen>>

(* The polling client *)

\* Mutant: drain() leaves the last datagram, as with one recvfrom too few.
DrainLeavesOne(a) ==
    /\ kind = "polling"
    /\ pc = "idle"
    /\ seen' = {socket[i] : i \in DOMAIN socket}
    /\ socket' = IF socket = <<>> THEN <<>> ELSE <<socket[Len(socket)]>>
    /\ Made(a, TRUE)
    /\ pc' = "wait"
    /\ unserved' = unserved \union {Current + 1}
    /\ UNCHANGED <<kind, inflight, handlers, threads, event, rv>>

\* drain() reads until the socket is empty, then the request is sent; if it
\* cannot be built query() raises with nothing left behind.
DrainAndSend(a) ==
    /\ kind = "polling"
    /\ pc = "idle"
    /\ seen' = {socket[i] : i \in DOMAIN socket}
    /\ socket' = <<>>
    /\ \/ /\ Made(a, TRUE)
          /\ pc' = "wait"
          /\ unserved' = unserved \union {Current + 1}
       \/ UNCHANGED <<request, outcome, pc, unserved>>
    /\ UNCHANGED <<kind, inflight, handlers, threads, event, rv>>

\* recvfrom returns a message: the answer if the address is right, else discarded.
Receive ==
    /\ kind = "polling"
    /\ pc = "wait"
    /\ socket # <<>>
    /\ socket' = Tail(socket)
    /\ IF Head(socket).to = Address
       THEN Ended(Head(socket)) /\ pc' = "idle"
       ELSE UNCHANGED <<outcome, pc>>
    /\ UNCHANGED <<kind, request, unserved, inflight, handlers, threads, event, rv, seen>>

\* The deadline has passed, before recvfrom or in it: BridgeNotResponding.
Deadline ==
    /\ kind = "polling"
    /\ pc = "wait"
    /\ Ended(Mark("failed"))
    /\ pc' = "idle"
    /\ UNCHANGED <<kind, request, unserved, inflight, handlers, threads, event, rv, socket, seen>>

(* The bridge and the wire *)

Arrive(m) ==
    /\ kind = "polling"
    /\ m \in inflight
    /\ inflight' = inflight \ {m}
    /\ socket' = Append(socket, m)
    /\ UNCHANGED <<kind, request, outcome, unserved, pc, handlers, threads, event, rv, seen>>

\* The bridge answers a request under its address, or has nothing to say.
Serve(i) ==
    /\ i \in unserved
    /\ unserved' = unserved \ {i}
    /\ \/ inflight' = inflight \union {[to |-> request[i].to, of |-> i]}
       \/ UNCHANGED inflight
    /\ UNCHANGED <<kind, request, outcome, client>>

\* A property listener of the bridge sends under the address of the query of
\* the property.  Bound: the messages of one address wait for each other.
ListenerSends(a) ==
    /\ a \in Heard
    /\ [to |-> a, of |-> 0] \notin inflight \union {t.msg : t \in threads} \union {socket[i] : i \in DOMAIN socket}
    /\ inflight' = inflight \union {[to |-> a, of |-> 0]}
    /\ UNCHANGED <<kind, request, outcome, unserved, client>>

Init ==
    /\ kind \in Kinds
    /\ request = <<>> /\ outcome = <<>>
    /\ pc = "idle"
    /\ unserved = {} /\ inflight = {}
    /\ socket = <<>> /\ seen = {}
    /\ handlers = [a \in Addresses |-> NoHandler]
    /\ threads = {} /\ event = {}
    /\ rv = [i \in Ids |-> NoReply]

\* query() once it has begun.
Asking == Send \/ Wake \/ RemoveHandler \/ CheckEvent \/ Receive \/ Deadline

Next ==
    \/ Asking
    \/ \E a \in Addresses : SendMessage(a) \/ SetHandler(a) \/ DrainAndSend(a) \/ ListenerSends(a)
    \/ \E m \in inflight : StartThread(m) \/ Arrive(m)
    \/ \E t \in threads : Look(t) \/ Index(t) \/ Store(t) \/ SetEvent(t)
    \/ \E i \in unserved : Serve(i)

Spec == Init /\ [][Next]_vars

\* A query waits with a timeout, so its thread goes on whatever the bridge does.
\* The polling loop compares the clock with its deadline before every read, so
\* messages for other addresses cannot hold it for ever.
FairSpec == Spec /\ WF_vars(Asking) /\ WF_vars(Deadline)

-----------------------------------------------------------------------------
(* Types.  Some phases belong to one client, and a handler names a query under *)
(* its own address.                                                            *)
Thread == [msg : Message, at : {"look", "index", "call", "set"}, fn : 0 .. MaxRequests]

TypeOK ==
    /\ kind \in Kinds
    /\ request \in Seq([to : Addresses, awaits : BOOLEAN])
    /\ Len(request) <= MaxRequests
    /\ Len(outcome) = Len(request)
    /\ outcome \in Seq(Message \union {Mark("open"), Mark("sent"), Mark("failed")})
    /\ pc \in {"idle", "wait"} \union (IF kind = "threaded" THEN {"send", "woken", "check"} ELSE {})
    /\ unserved \subseteq 1 .. Len(request)
    /\ inflight \subseteq Message
    /\ socket \in Seq(Message)
    /\ seen \subseteq Message
    /\ handlers \in [Addresses -> 0 .. MaxRequests]
    /\ threads \subseteq Thread
    /\ event \subseteq Ids
    /\ rv \in [Ids -> Message \union {NoReply}]

DrainedNeverAnswers ==
    (kind = "polling" /\ pc = "idle" /\ Current > 0) =>
        \A m \in seen : m.of # 0 => outcome[Current] # m

HandlersOfOpenQueries ==
    \A a \in Addresses :
        handlers[a] # NoHandler =>
            /\ request[handlers[a]].to = a
            /\ \/ handlers[a] = Current /\ pc \in {"send", "wait", "woken"}
               \/ outcome[handlers[a]] = Mark("failed")

(* What an earlier query left behind answers no later one.  A handler outlives *)
(* its query only if sending raised, and then stores into the closure of the    *)
(* failed query; a datagram that had arrived is drained (58-63, "the stale      *)
(* reply").                                                                     *)
NothingLeftBehind == HandlersOfOpenQueries /\ DrainedNeverAnswers

(* Both clients are the query service: every query ends, with a message under   *)
(* its address that no earlier query was given, or with an error.               *)
Service == INSTANCE QueryService WITH Addresses <- Addresses, request <- request, outcome <- outcome
ImplementsQueryService == Service!Spec
================================================================================
