----------------------------- MODULE QueryService -----------------------------
(* What a client of the bridge may rely on when it asks: one request at a    *)
(* time is open, each ends once, with a message under its own address or with *)
(* an error, and no reply is given out twice.  A reply names the request that *)
(* caused it; 0 stands for a message that a listener sent.  It is not promised *)
(* that the reply is to this request: an earlier one may have been given up.  *)
EXTENDS Naturals, Sequences

CONSTANT Addresses

VARIABLES request, \* requests in the order they were made: address, and whether an answer is awaited
          outcome  \* of each: the message it got, or a mark in its place

Mark(m) == [to |-> m, of |-> 0]
Open == outcome # <<>> /\ outcome[Len(outcome)] = Mark("open")

Ask(a, awaits) ==
    /\ ~Open
    /\ request' = Append(request, [to |-> a, awaits |-> awaits])
    /\ outcome' = Append(outcome, Mark(IF awaits THEN "open" ELSE "sent"))

End(result) ==
    /\ Open
    /\ outcome' = [outcome EXCEPT ![Len(outcome)] = result]
    /\ UNCHANGED request

Fail == End(Mark("failed"))

Answer(m) ==
    /\ Open
    /\ m.to = request[Len(request)].to
    /\ m.of \in 0 .. Len(request)
    /\ m.of # 0 => \A i \in DOMAIN outcome : outcome[i] # m
    /\ End(m)

Init == request = <<>> /\ outcome = <<>>

Next == \/ \E a \in Addresses, awaits \in BOOLEAN : Ask(a, awaits)
        \/ Fail
        \/ \E a \in Addresses, i \in 0 .. Len(request) : Answer([to |-> a, of |-> i])

vars == <<request, outcome>>

SafeSpec == Init /\ [][Next]_vars

\* Every query ends.
Spec == SafeSpec /\ WF_vars(Fail \/ \E a \in Addresses, i \in 0 .. Len(request) : Answer([to |-> a, of |-> i]))
===============================================================================
