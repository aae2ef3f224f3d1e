---------------------------- MODULE OscServerProofs ----------------------------
(***************************************************************************)
(* Proofs about OscServer, for any handlers, however they end, and any     *)
(* datagrams.  The inductive invariant adds to TypeOK that the default     *)
(* reply address is the sender of the datagram last received: reports go   *)
(* to the one, replies to the other.                                       *)
(***************************************************************************)
EXTENDS OscServer, TLAPS

IInv == TypeOK /\ remote = sender /\ AnswersReachTheirSender

-----------------------------------------------------------------------------
(* What a step sends. *)

\* The state that each conjunct of the invariant other than out speaks of.
Placed ==
    /\ status \in {"new", "up", "unbound", "gone"}
    /\ scheduled \in BOOLEAN /\ table \in BOOLEAN /\ relaying \in BOOLEAN
    /\ phase \in {"idle", "draining", "dispatching"}
    /\ inbox \in Seq(Datagrams)
    /\ remote \in Hosts /\ sender \in Hosts
    /\ bundle \in Seq(Message) /\ doing \in Message /\ visit \subseteq Addresses
    /\ link \in {"up", "down"}
    /\ scheduled => phase = "idle" /\ status = "up"
    /\ phase # "idle" => status = "up"
    /\ phase # "dispatching" => bundle = <<>> /\ visit = {}
    /\ remote = sender

\* What a step may send: nothing, or one packet to the client it is about.
OutFine ==
    \/ out' = {}
    \/ \E is \in {"error", "reply", "update"} :
        out' = {[is |-> is, to |-> remote, about |-> sender]}
    \/ out' = {[is |-> "update", to |-> remote, about |-> Host]}

\* A step that leaves the state in order and sends what it may keeps IInv.
LEMMA StepIInv ==
    ASSUME IInv, Placed', OutFine
    PROVE  IInv'
<1>1. out' \subseteq Outgoing
  BY DEF OutFine, Outgoing, IInv, TypeOK, Hosts
<1>2. AnswersReachTheirSender'
  BY DEF OutFine, AnswersReachTheirSender, IInv
<1> QED
  BY <1>1, <1>2 DEF Placed, IInv, TypeOK

\* logger.error sends at most a report, to the default address.
LEMMA LogFine ==
    ASSUME Log
    PROVE  OutFine
BY DEF Log, Packet, OutFine

\* A tick that is lost leaves the state in order.
LEMMA GiveUpPlaced ==
    ASSUME IInv, GiveUp, table' \in BOOLEAN
    PROVE  Placed' /\ OutFine
<1>1. <<>> \in Seq(Message)
  OBVIOUS
<1> QED
  BY <1>1 DEF GiveUp, IInv, TypeOK, Placed, OutFine, hosts

\* A message that Ends and Datagrams know of.
LEMMA BundleParts ==
    ASSUME TypeOK, bundle # <<>>
    PROVE  Head(bundle) \in Message /\ Tail(bundle) \in Seq(Message)
BY DEF TypeOK

\* What a datagram of the inbox is made of.
LEMMA InboxParts ==
    ASSUME TypeOK, inbox # <<>>
    PROVE  /\ Head(inbox).from \in Hosts /\ Head(inbox).messages \in Seq(Message)
           /\ Tail(inbox) \in Seq(Datagrams)
<1>1. Head(inbox) \in Datagrams /\ Tail(inbox) \in Seq(Datagrams)
  BY DEF TypeOK
<1> QED
  BY <1>1, DatagramAssumption DEF Hosts

-----------------------------------------------------------------------------
(* The steps. *)

\* Live's calls into the bridge, and what happens around it.
LEMMA AroundIInv ==
    ASSUME IInv,
           \/ Start \/ Disconnect \/ Tick \/ Notify \/ LinkChanges
           \/ \E d \in Datagrams : Arrive(d)
    PROVE  IInv'
<1> USE DEF IInv, TypeOK, Placed, OutFine, hosts, work, Hosts
<1>1. CASE Start
  <2>1. phase = "idle"
    BY <1>1 DEF Start
  <2> QED
    BY <1>1, <2>1, StepIInv DEF Start
<1>2. CASE Disconnect
  <2>1. <<>> \in Seq(Datagrams)
    OBVIOUS
  <2> QED
    BY <1>2, <2>1, StepIInv DEF Disconnect
<1>3. CASE Tick
  BY <1>3, StepIInv DEF Tick
<1>4. CASE Notify
  BY <1>4, StepIInv DEF Notify
<1>5. CASE LinkChanges
  BY <1>5, StepIInv DEF LinkChanges
<1>6. ASSUME NEW d \in Datagrams, Arrive(d)
      PROVE  IInv'
  <2>1. inbox' \in Seq(Datagrams)
    BY <1>6 DEF Arrive
  <2> QED
    BY <1>6, <2>1, StepIInv DEF Arrive
<1> QED
  BY <1>1, <1>2, <1>3, <1>4, <1>5, <1>6

\* The drain loop.
LEMMA DrainIInv ==
    ASSUME IInv, Drained \/ ReceiveFails \/ Receive \/ Done
    PROVE  IInv'
<1> USE DEF IInv, TypeOK, Placed, hosts, work
<1>1. CASE Drained
  BY <1>1, StepIInv DEF Drained, EndTick, OutFine
<1>2. CASE ReceiveFails
  <2>1. CASE out' = {} /\ EndTick
    BY <1>2, <2>1, StepIInv DEF ReceiveFails, EndTick, OutFine
  <2>2. CASE Log /\ EndTick
    <3> HIDE DEF IInv
    <3>1. Placed'
      BY <1>2, <2>2 DEF ReceiveFails, EndTick, IInv
    <3> QED
      BY <2>2, <3>1, LogFine, StepIInv
  <2>3. CASE GiveUp /\ UNCHANGED table
    <3> HIDE DEF IInv, Placed
    <3>1. table' \in BOOLEAN
      BY <2>3 DEF IInv
    <3> QED
      BY <2>3, <3>1, GiveUpPlaced, StepIInv
  <2> QED
    BY <1>2, <2>1, <2>2, <2>3 DEF ReceiveFails
<1>3. CASE Receive
  BY <1>3, InboxParts, StepIInv DEF Receive, OutFine
<1>4. CASE Done
  BY <1>4, StepIInv DEF Done, OutFine
<1> QED
  BY <1>1, <1>2, <1>3, <1>4

\* process_message finds its handlers.
LEMMA SelectIInv ==
    ASSUME IInv, Select \/ SelectUnknown
    PROVE  IInv'
<1>1. CASE Select
  <2>1. /\ bundle # <<>> /\ phase = "dispatching" /\ out' = {}
        /\ bundle' = Tail(bundle) /\ doing' = Head(bundle)
        /\ visit' = Matching(Head(bundle))
        /\ UNCHANGED <<status, scheduled, phase, inbox, hosts, table, relaying, link>>
    BY <1>1 DEF Select, Selecting
  <2>2. Matching(Head(bundle)) \subseteq Addresses
    BY <2>1, BundleParts DEF IInv, Matching, Message
  <2>3. Placed'
    BY <2>1, <2>2, BundleParts DEF IInv, TypeOK, Placed, hosts
  <2> QED
    BY <2>1, <2>3, StepIInv DEF OutFine
<1>2. CASE SelectUnknown
  <2>1. CASE GiveUp /\ UNCHANGED table
    BY <2>1, GiveUpPlaced, StepIInv DEF IInv, TypeOK
  <2>2. CASE ~GiveUp
    <3>1. /\ bundle # <<>> /\ phase = "dispatching" /\ Log
          /\ bundle' = Tail(bundle)
          /\ UNCHANGED <<status, scheduled, phase, inbox, hosts, doing, visit, table,
                         relaying, link>>
      BY <1>2, <2>2 DEF SelectUnknown, Selecting
    <3>2. Placed'
      BY <3>1, BundleParts DEF IInv, TypeOK, Placed, hosts
    <3> QED
      BY <3>1, <3>2, LogFine, StepIInv
  <2> QED
    BY <1>2, <2>1, <2>2 DEF SelectUnknown
<1> QED
  BY <1>1, <1>2

\* A handler ends and the datagram goes on.
LEMMA ProceedPlaced ==
    ASSUME IInv, NEW e, Visiting(e), Proceed, relaying' \in BOOLEAN
    PROVE  Placed'
BY DEF Visiting, Proceed, IInv, TypeOK, Placed, hosts

\* A handler ends, in each of the ways it can.
LEMMA VisitIInv ==
    ASSUME IInv, NEW e \in End, Visit(e)
    PROVE  IInv'
<1>1. CASE Silent(e)
  <2>1. relaying' \in BOOLEAN /\ out' = {}
    BY <1>1 DEF Silent, IInv, TypeOK
  <2> QED
    BY <1>1, <2>1, ProceedPlaced, StepIInv DEF Silent, OutFine
<1>2. CASE Reply(e)
  <2>1. OutFine /\ relaying' \in BOOLEAN
    BY <1>2 DEF Reply, Packet, OutFine, IInv, TypeOK
  <2> QED
    BY <1>2, <2>1, ProceedPlaced, StepIInv DEF Reply
<1>3. CASE ReplyUnsent(e)
  <2>1. CASE Log /\ Proceed /\ UNCHANGED relaying
    <3>1. relaying' \in BOOLEAN /\ Visiting(e)
      BY <1>3, <2>1 DEF ReplyUnsent, IInv, TypeOK
    <3> QED
      BY <2>1, <3>1, ProceedPlaced, LogFine, StepIInv
  <2>2. CASE GiveUp /\ UNCHANGED table
    BY <2>2, GiveUpPlaced, StepIInv DEF IInv, TypeOK
  <2> QED
    BY <1>3, <2>1, <2>2 DEF ReplyUnsent
<1>4. CASE DatagramFails(e)
  <2>1. table' \in BOOLEAN
    BY <1>4 DEF DatagramFails, IInv, TypeOK
  <2>2. CASE Log /\ Dropped
    <3>1. phase = "dispatching"
      BY <1>4 DEF DatagramFails, Raises, Visiting
    <3>2. <<>> \in Seq(Message)
      OBVIOUS
    <3>3. Placed'
      BY <2>1, <2>2, <3>1, <3>2 DEF Dropped, IInv, TypeOK, Placed, hosts
    <3> QED
      BY <2>2, <3>3, LogFine, StepIInv
  <2>3. CASE GiveUp
    BY <2>1, <2>3, GiveUpPlaced, StepIInv
  <2> QED
    BY <1>4, <2>2, <2>3 DEF DatagramFails
<1> QED
  BY <1>1, <1>2, <1>3, <1>4 DEF Visit

\* A bridge that is not started satisfies IInv.
LEMMA InitIInv ==
    ASSUME Init
    PROVE  IInv
<1>1. <<>> \in Seq(Datagrams) /\ <<>> \in Seq(Message)
  OBVIOUS
<1>2. [wild |-> FALSE, names |-> {}, args |-> 0] \in Message
  BY DEF Message
<1> QED
  BY <1>1, <1>2 DEF Init, IInv, TypeOK, Hosts, AnswersReachTheirSender

\* IInv is inductive.
LEMMA NextIInv ==
    ASSUME IInv, [Next]_vars
    PROVE  IInv'
<1>1. CASE UNCHANGED vars
  BY <1>1 DEF vars, hosts, work, IInv, TypeOK, AnswersReachTheirSender
<1>2. CASE Next
  BY <1>2, AroundIInv, DrainIInv, SelectIInv, VisitIInv DEF Next, Thread
<1> QED
  BY <1>1, <1>2

\* IInv holds in every reachable state.
THEOREM Invariance == Spec => []IInv
<1>1. Init => IInv
  BY InitIInv
<1>2. IInv /\ [Next]_vars => IInv'
  BY NextIInv
<1> QED
  BY <1>1, <1>2, PTL DEF Spec

-----------------------------------------------------------------------------
(* What follows. *)

\* TypeOK, with the phases in order: one tick at a time, and no message left of a
\* datagram that is over.
THEOREM TypeCorrect == Spec => []TypeOK
BY Invariance, PTL DEF IInv

\* Replies and reports go to the client whose datagram they are about.
THEOREM AnswersAlwaysReachTheirSender == Spec => []AnswersReachTheirSender
BY Invariance, PTL DEF IInv

\* How a step ends a tick: with the next one scheduled, or because the report of an
\* error cannot be sent.
LEMMA EndOfTick ==
    ASSUME TypeOK, Next, phase # "idle", phase' = "idle"
    PROVE  (phase = "draining" /\ scheduled') \/ ~CanLog
<1>1. CASE Thread
  BY <1>1 DEF Thread, Tick, Drained, EndTick, Receive, Select, SelectUnknown, Done, Visit,
              Silent, Reply, ReplyUnsent, DatagramFails, Dropped, Proceed, GiveUp, CanLog,
              Visiting, Raises, TypeOK
<1>2. CASE ReceiveFails
  BY <1>2 DEF ReceiveFails, EndTick, GiveUp
<1>3. CASE Start \/ Disconnect \/ Notify \/ LinkChanges \/ \E d \in Datagrams : Arrive(d)
  BY <1>3 DEF Start, Disconnect, Notify, LinkChanges, Arrive, TypeOK
<1> QED
  BY <1>1, <1>2, <1>3 DEF Next

\* A tick that begins schedules the next one, unless a report cannot be sent.
THEOREM TickAlwaysComesBack == Spec => TickComesBack
<1> DEFINE Step == phase # "idle" /\ phase' = "idle" =>
                        scheduled' \/ (link = "down" /\ relaying)
<1>1. TypeOK /\ [Next]_vars => [Step]_vars
  BY EndOfTick DEF CanLog, TypeOK
<1>2. Spec => [][Step]_vars
  BY <1>1, TypeCorrect, PTL DEF Spec
<1> QED
  BY <1>2 DEF TickComesBack

\* However a handler ends, the drain loop goes on with the next datagram.
THEOREM DatagramsAlwaysIsolated == Spec => DatagramsAreIsolated
<1> DEFINE Step == phase = "dispatching" /\ phase' = "idle" => link = "down" /\ relaying
<1>1. TypeOK /\ [Next]_vars => [Step]_vars
  BY EndOfTick DEF CanLog, TypeOK
<1>2. Spec => [][Step]_vars
  BY <1>1, TypeCorrect, PTL DEF Spec
<1> QED
  BY <1>2 DEF DatagramsAreIsolated

\* Work of a datagram is never dropped in silence.
THEOREM LostWorkAlwaysReported == Spec => LostWorkIsReported
<1> DEFINE Step == phase = "dispatching" /\ phase' = "draining" /\ (visit # {} \/ bundle # <<>>) =>
                        \/ [is |-> "error", to |-> sender, about |-> sender] \in out'
                        \/ ~relaying
<1>1. IInv /\ [Next]_vars => [Step]_vars
  <2> SUFFICES ASSUME IInv, Next, phase = "dispatching", phase' = "draining",
                      visit # {} \/ bundle # <<>>
               PROVE  \/ [is |-> "error", to |-> sender, about |-> sender] \in out'
                      \/ ~relaying
    BY DEF vars
  <2>1. \E e \in End : DatagramFails(e)
    <3>1. CASE Thread
      BY <3>1 DEF Thread, Tick, Drained, Receive, Select, SelectUnknown, Done, Visit, Silent,
                  Reply, ReplyUnsent, Proceed, GiveUp
    <3>2. CASE ReceiveFails
      BY <3>2 DEF ReceiveFails
    <3>3. CASE Start \/ Disconnect \/ Notify \/ LinkChanges \/ \E d \in Datagrams : Arrive(d)
      BY <3>3 DEF Start, Disconnect, Notify, LinkChanges, Arrive
    <3> QED
      BY <3>1, <3>2, <3>3 DEF Next
  <2>2. Log
    BY <2>1 DEF DatagramFails, GiveUp
  <2> QED
    BY <2>2 DEF Log, Packet, IInv
<1>2. Spec => [][Step]_vars
  BY <1>1, Invariance, PTL DEF Spec
<1> QED
  BY <1>2 DEF LostWorkIsReported
=============================================================================
