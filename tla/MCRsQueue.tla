----------------------------- MODULE MCRsQueue -----------------------------
(* Small instances of RsQueue for TLC. *)
EXTENDS RsQueue

TwoAndTwo  == {"p1", "p2", "c1", "c2"}

(* The blocking calls, each thread either a sender or a receiver, and one of *)
(* each that always gives a timeout, as the clients of the event queue do.   *)
BlockingCalls ==
    [t \in Threads |-> CASE t = "p1" -> {"SendToBackWait", "SendToBackTimed"}
                         [] t = "p2" -> {"SendToBackTimed"}
                         [] t = "c1" -> {"ReceiveWait", "ReceiveTimed"}
                         [] t = "c2" -> {"ReceiveTimed"}]

(* A queue that does not block: the calls that hold the lock and those that  *)
(* do not; the wait of a call makes no difference here.                      *)
PollingCalls ==
    [t \in Threads |-> CASE t = "p1" -> {"SendToBack", "SendToBackWait"}
                         [] t = "p2" -> {"SendToBack"}
                         [] t = "c1" -> {"Receive", "ReceiveTimed"}
                         [] t = "c2" -> {}]

CallsOf == [b \in BOOLEAN |-> IF b THEN BlockingCalls ELSE PollingCalls]
=============================================================================
