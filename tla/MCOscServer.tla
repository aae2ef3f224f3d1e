------------------------------ MODULE MCOscServer ------------------------------
(* Four handlers, one of each sort, and the messages that tell them apart.  *)
(* The track queries read params[0] (track.py 15), so with no argument they *)
(* end in an IndexError; get/send unpacks one more than it is given here.   *)
EXTENDS OscServer

MCOrder == <<"reload", "log_level", "send", "name">>
MCAddresses == {MCOrder[i] : i \in 1 .. Len(MCOrder)}
MCPlace == [a \in MCAddresses |-> CHOOSE i \in 1 .. Len(MCOrder) : MCOrder[i] = a]

MCEnds ==
    [a \in MCAddresses |-> [n \in 0 .. 1 |->
        CASE a = "reload" -> {"none", "half_reload"}
          [] a = "log_level" -> IF n = 0 THEN {"IndexError"} ELSE {"quiet", "loud", "Exception"}
          [] a = "send" -> IF n = 0 THEN {"IndexError"} ELSE {"ValueError"}
          [] OTHER -> IF n = 0 THEN {"IndexError"}
                               ELSE {"reply", "oversized", "alien", "AttributeError"}]]

Exact(names, n) == [wild |-> FALSE, names |-> names, args |-> n]
Star(names, n) == [wild |-> TRUE, names |-> names, args |-> n]

MCBundles ==
    {<<Exact({"name"}, 1)>>,
     <<Exact({}, 0), Exact({"reload"}, 0)>>,
     <<Exact({"send"}, 1), Exact({"log_level"}, 1)>>,
     <<Star({"send", "name"}, 0), Exact({"name"}, 1)>>,
     <<Star({"log_level", "send", "name"}, 1)>>}

MCDatagrams == [from : Clients, messages : MCBundles]
=============================================================================
