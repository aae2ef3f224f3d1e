------------------------------- MODULE OscServer -------------------------------
(***************************************************************************)
(* The OSC server (abletonosc/osc_server.py) as the manager (manager.py)   *)
(* drives it: Live calls tick, tick drains the UDP socket, dispatches each *)
(* datagram to the registered handlers, sends the replies, and schedules   *)
(* itself again.  An error that is logged is also sent to the client: the  *)
(* log handler of manager.py calls OSCServer.send, which logs when it      *)
(* cannot send.                                                            *)
(*                                                                         *)
(* Everything of the bridge runs on Live's one thread; datagrams arrive,   *)
(* and the link to the client fails, at any moment.  What a handler does   *)
(* is abstracted to the way it ends; the state behind it is the subject of *)
(* the other modules.                                                      *)
(***************************************************************************)
EXTENDS Naturals, Sequences, FiniteSets

CONSTANTS
    Clients,
    Host,           \* 127.0.0.1, the default reply address
    Addresses,      \* OSC addresses with a handler
    Place,          \* their places in the dict _callbacks, which keeps the order of
                    \* add_handler
    Ends,           \* Ends[a][n]: how a's handler may end when given n arguments
    Datagrams,      \* what clients may send
    MaxInbox        \* bound: datagrams the socket buffers

Hosts == Clients \union {Host}

\* None; a tuple; a tuple over one datagram, or with a value OSC cannot carry; an
\* exception, by its kind; the log level set to critical or lower; and a reload
\* that raises after the handlers are dropped.
End == {"none", "reply", "oversized", "alien", "ValueError", "AttributeError",
        "IndexError", "Exception", "quiet", "loud", "half_reload"}

\* names: the handlers whose address the message's address matches; without a "*"
\* at most one.  A datagram that does not parse has the effect of a message to an
\* unknown address: one error.
Message == [wild : BOOLEAN, names : SUBSET Addresses, args : 0 .. 1]

ASSUME HostAssumption == Host \notin Clients
ASSUME PlaceAssumption == Place \in [Addresses -> Nat]
ASSUME EndsAssumption == Ends \in [Addresses -> [0 .. 1 -> SUBSET End]]
ASSUME DatagramAssumption ==
    Datagrams \subseteq [from : Clients, messages : Seq(Message)]
ASSUME InboxAssumption == MaxInbox \in Nat

VARIABLES
    status,     \* of the Manager: "new", "up", "unbound" (no server) or "gone"
    scheduled,  \* Live has a tick to call
    phase,      \* "idle", "draining" the socket, or "dispatching" a datagram
    inbox,      \* datagrams in the socket
    remote,     \* _remote_addr
    sender,     \* remote_addr of the datagram that is dispatched
    bundle,     \* its messages that are left
    doing,      \* the message that is dispatched
    visit,      \* the handlers left to call for it
    table,      \* _callbacks is not empty
    relaying,   \* errors reach LiveOSCErrorLogHandler: log level below critical
    link,       \* sendto works: "up" or "down"
    out         \* what the last step sent

work == <<bundle, doing, visit>>
hosts == <<remote, sender>>
vars == <<status, scheduled, phase, inbox, hosts, work, table, relaying, link, out>>

-----------------------------------------------------------------------------
(* manager.py: __init__, tick and disconnect. *)

\* Port in use; start_logging raises an OSError, after the tick is scheduled and
\* before there are handlers and the log handler; or all is well.
Start ==
    /\ status \in {"new", "gone"}
    /\ \/ status' = "unbound" /\ scheduled' = FALSE /\ table' = FALSE /\ relaying' = FALSE
       \/ status' = "up" /\ scheduled' = TRUE /\ table' = FALSE /\ relaying' = FALSE
       \/ status' = "up" /\ scheduled' = TRUE /\ table' = TRUE /\ relaying' = TRUE
    /\ remote' = Host /\ sender' = Host
    /\ out' = {}
    /\ UNCHANGED <<phase, inbox, work, link>>

\* When start_logging never came to its log handlers, stop_logging raises before
\* shutdown.  Then either Live drops the bridge all the same, which is this step (a
\* socket that nobody reads is like none, and Start may find the port in use), or it
\* goes on calling the tick, and nothing has changed.
Disconnect ==
    /\ status \in {"up", "unbound"} /\ phase = "idle"
    /\ status' = "gone" /\ scheduled' = FALSE /\ inbox' = <<>>
    /\ out' = {}
    /\ UNCHANGED <<phase, hosts, work, table, relaying, link>>

Tick ==
    /\ scheduled /\ phase = "idle"
    /\ scheduled' = FALSE /\ phase' = "draining"
    /\ out' = {}
    /\ UNCHANGED <<status, inbox, hosts, work, table, relaying, link>>

-----------------------------------------------------------------------------
(* Sending and logging. *)

Packet(is, to) == {[is |-> is, to |-> to, about |-> sender]}

\* logger.error: the report goes to the default address.
Log == out' = IF relaying THEN Packet("error", remote) ELSE {}

\* A send that fails is logged, and the report is sent the same way: when that
\* fails too, send and the log handler call each other until Python gives up.
CanLog == link = "up" \/ ~relaying

\* The RecursionError meets the same end in each of the handlers of process, and
\* tick does not come to schedule the next.
GiveUp ==
    /\ ~CanLog
    /\ phase' = "idle"
    /\ bundle' = <<>> /\ visit' = {}
    /\ out' = {}
    /\ UNCHANGED <<status, scheduled, inbox, hosts, doing, relaying, link>>

-----------------------------------------------------------------------------
(* process: the drain loop. *)

EndTick ==
    /\ phase' = "idle" /\ scheduled' = TRUE
    /\ UNCHANGED <<status, inbox, hosts, work, table, relaying, link>>

\* EAGAIN.
Drained == phase = "draining" /\ inbox = <<>> /\ out' = {} /\ EndTick

\* ECONNRESET is a warning; any other error of recvfrom is logged.
ReceiveFails ==
    /\ phase = "draining"
    /\ \/ out' = {} /\ EndTick
       \/ CanLog /\ Log /\ EndTick
       \/ GiveUp /\ UNCHANGED table

\* Mutant: the default address is left as it was.
ReceiveKeepsAddress ==
    /\ phase = "draining" /\ inbox # <<>>
    /\ sender' = Head(inbox).from
    /\ bundle' = Head(inbox).messages
    /\ inbox' = Tail(inbox)
    /\ phase' = "dispatching"
    /\ out' = {}
    /\ UNCHANGED <<remote, status, scheduled, doing, visit, table, relaying, link>>

Receive ==
    /\ phase = "draining" /\ inbox # <<>>
    /\ remote' = Head(inbox).from /\ sender' = Head(inbox).from
    /\ bundle' = Head(inbox).messages
    /\ inbox' = Tail(inbox)
    /\ phase' = "dispatching"
    /\ out' = {}
    /\ UNCHANGED <<status, scheduled, doing, visit, table, relaying, link>>

-----------------------------------------------------------------------------
(* process_message, for the messages of a datagram in turn. *)

Matching(m) == IF table THEN m.names ELSE {}

Selecting == phase = "dispatching" /\ visit = {} /\ bundle # <<>>
Unknown(m) == ~m.wild /\ Matching(m) = {}

Select ==
    /\ Selecting /\ ~Unknown(Head(bundle))
    /\ doing' = Head(bundle) /\ bundle' = Tail(bundle)
    /\ visit' = Matching(Head(bundle))
    /\ out' = {}
    /\ UNCHANGED <<status, scheduled, phase, inbox, hosts, table, relaying, link>>

SelectUnknown ==
    /\ Selecting /\ Unknown(Head(bundle))
    /\ \/ /\ CanLog /\ Log
          /\ bundle' = Tail(bundle)
          /\ UNCHANGED <<status, scheduled, phase, inbox, hosts, doing, visit, table,
                         relaying, link>>
       \/ GiveUp /\ UNCHANGED table

Done ==
    /\ phase = "dispatching" /\ visit = {} /\ bundle = <<>>
    /\ phase' = "draining"
    /\ out' = {}
    /\ UNCHANGED <<status, scheduled, inbox, hosts, work, table, relaying, link>>

Visited == CHOOSE a \in visit : \A b \in visit : Place[a] <= Place[b]

\* The handler whose turn it is ends with e.
Visiting(e) ==
    phase = "dispatching" /\ visit # {} /\ e \in Ends[Visited][doing.args]

Proceed ==
    /\ visit' = visit \ {Visited}
    /\ UNCHANGED <<status, scheduled, phase, inbox, hosts, bundle, doing, table, link>>

Silent(e) ==
    /\ Visiting(e)
    /\ e \in {"none", "quiet", "loud"} \/ (doing.wild /\ e \in {"ValueError", "AttributeError"})
    /\ relaying' = ((relaying /\ e # "quiet") \/ e = "loud")
    /\ out' = {}
    /\ Proceed

Reply(e) ==
    /\ Visiting(e) /\ e = "reply" /\ link = "up"
    /\ out' = Packet("reply", sender)
    /\ Proceed /\ UNCHANGED relaying

\* sendto raises an OSError: logged, and nothing else.
ReplyUnsent(e) ==
    /\ Visiting(e)
    /\ e = "oversized" \/ (e = "reply" /\ link = "down")
    /\ \/ CanLog /\ Log /\ Proceed /\ UNCHANGED relaying
       \/ GiveUp /\ UNCHANGED table

\* What Visiting leaves to the handler of process.
Raises(e) ==
    /\ Visiting(e)
    /\ \/ e \in {"alien", "IndexError", "Exception", "half_reload"}
       \/ ~doing.wild /\ e \in {"ValueError", "AttributeError"}

\* Mutant: only the handlers of the message are dropped.
DroppedKeepsBundle ==
    /\ visit' = {}
    /\ phase' = "draining"
    /\ UNCHANGED <<bundle, status, scheduled, inbox, hosts, doing, relaying, link>>

Dropped ==
    /\ bundle' = <<>> /\ visit' = {}
    /\ phase' = "draining"
    /\ UNCHANGED <<status, scheduled, inbox, hosts, doing, relaying, link>>

\* Mutant: the exception is caught outside the drain loop.
DatagramFailsEndsTick(e) ==
    /\ Raises(e)
    /\ table' = (table /\ e # "half_reload")
    /\ \/ /\ CanLog /\ Log
          /\ bundle' = <<>> /\ visit' = {}
          /\ phase' = "idle" /\ scheduled' = TRUE
          /\ UNCHANGED <<status, inbox, hosts, doing, relaying, link>>
       \/ GiveUp

\* Mutant: the exception is caught and not logged.
DatagramFailsSilently(e) ==
    /\ Raises(e)
    /\ table' = (table /\ e # "half_reload")
    /\ out' = {} /\ Dropped

\* Mutant: the exception is not caught.
DatagramFailsUncaught(e) ==
    /\ Raises(e)
    /\ table' = (table /\ e # "half_reload")
    /\ Log
    /\ bundle' = <<>> /\ visit' = {}
    /\ phase' = "idle"
    /\ UNCHANGED <<status, scheduled, inbox, hosts, doing, relaying, link>>

\* The rest of the datagram is dropped, and the error logged.
DatagramFails(e) ==
    /\ Raises(e)
    /\ table' = (table /\ e # "half_reload")
    /\ (CanLog /\ Log /\ Dropped) \/ GiveUp

-----------------------------------------------------------------------------
(* Between the ticks, and around the bridge. *)

\* A listener that Live calls sends to the default address.
Notify ==
    /\ status = "up" /\ phase = "idle"
    /\ out' = IF link = "up" THEN {[is |-> "update", to |-> remote, about |-> Host]} ELSE {}
    /\ UNCHANGED <<status, scheduled, phase, inbox, hosts, work, table, relaying, link>>

Arrive(d) ==
    /\ status = "up" /\ Len(inbox) < MaxInbox
    /\ inbox' = Append(inbox, d)
    /\ out' = {}
    /\ UNCHANGED <<status, scheduled, phase, hosts, work, table, relaying, link>>

LinkChanges ==
    /\ link' = IF link = "up" THEN "down" ELSE "up"
    /\ out' = {}
    /\ UNCHANGED <<status, scheduled, phase, inbox, hosts, work, table, relaying>>

Init ==
    /\ status = "new" /\ scheduled = FALSE /\ phase = "idle"
    /\ inbox = <<>> /\ remote = Host /\ sender = Host
    /\ bundle = <<>> /\ visit = {}
    /\ doing = [wild |-> FALSE, names |-> {}, args |-> 0]
    /\ table = FALSE /\ relaying = FALSE
    /\ link = "up" /\ out = {}

Visit(e) == Silent(e) \/ Reply(e) \/ ReplyUnsent(e) \/ DatagramFails(e)

\* A step of Live's thread in the bridge.
Thread ==
    \/ Tick \/ Drained \/ Receive \/ Select \/ SelectUnknown \/ Done
    \/ \E e \in End : Visit(e)

Next ==
    \/ Thread
    \/ ReceiveFails
    \/ Start \/ Disconnect \/ Notify \/ LinkChanges
    \/ \E d \in Datagrams : Arrive(d)

Spec == Init /\ [][Next]_vars

\* Live calls the tick it was given, and the tick runs.
FairSpec == Spec /\ WF_vars(Thread)

-----------------------------------------------------------------------------
(* What holds. *)

Outgoing == [is : {"error", "reply", "update"}, to : Hosts, about : Hosts]

TypeOK ==
    /\ status \in {"new", "up", "unbound", "gone"}
    /\ scheduled \in BOOLEAN /\ table \in BOOLEAN /\ relaying \in BOOLEAN
    /\ phase \in {"idle", "draining", "dispatching"}
    /\ inbox \in Seq(Datagrams)
    /\ remote \in Hosts /\ sender \in Hosts
    /\ bundle \in Seq(Message) /\ doing \in Message /\ visit \subseteq Addresses
    /\ link \in {"up", "down"}
    /\ out \subseteq Outgoing
    /\ scheduled => phase = "idle" /\ status = "up"
    /\ phase # "idle" => status = "up"
    /\ phase # "dispatching" => bundle = <<>> /\ visit = {}

\* manager.py 149-150: the next tick is scheduled after process returns, so a tick
\* that begins is the bridge's only chance.  It is lost only when an error has to
\* be logged, is relayed, and the report itself cannot be sent.
TickComesBack ==
    [][phase # "idle" /\ phase' = "idle" => scheduled' \/ (link = "down" /\ relaying)]_vars

\* osc_server.py 187-192: no handler, however it ends, ends the drain loop for the
\* datagrams behind its own, with the same exception.
DatagramsAreIsolated ==
    [][phase = "dispatching" /\ phase' = "idle" => link = "down" /\ relaying]_vars

\* The rest of a bundle or of a "*" request is dropped only with an error report to
\* the client that sent it, unless the client has silenced reports.
LostWorkIsReported ==
    [][phase = "dispatching" /\ phase' = "draining" /\ (visit # {} \/ bundle # <<>>) =>
            \/ [is |-> "error", to |-> sender, about |-> sender] \in out'
            \/ ~relaying]_vars

\* osc_server.py 183: one default address serves every client in turn, and yet a
\* reply or a report about a datagram goes to the client that sent the datagram.
AnswersReachTheirSender == \A p \in out : p.is \in {"error", "reply"} /\ p.about # Host =>
                                              p.to = p.about

\* A bridge that Live keeps loaded goes on taking what is sent to it, as long as
\* its errors can be reported and recvfrom does not fail for ever.
KeepsServing ==
    \/ <>~CanLog \/ []<>(status # "up") \/ []<><<ReceiveFails>>_vars
    \/ []<>(inbox = <<>>) \/ []<><<Receive>>_vars

-----------------------------------------------------------------------------
(* What the repository says and the code does not do. *)

\* osc_server.py 125-126, of a "*" request: "Don't throw errors for queries that
\* require more arguments (e.g. /live/track/get/send with no args)".
SkipsWhatNeedsArguments ==
    [][doing.wild /\ doing.args = 0 /\ Visiting("IndexError") /\ DatagramFails("IndexError") =>
            visit' = visit \ {Visited}]_vars

\* manager.py 71: "If the connection is dead, silently ignore errors".
DeadConnectionIsIgnored ==
    [][phase # "idle" /\ phase' = "idle" => scheduled']_vars
=============================================================================
