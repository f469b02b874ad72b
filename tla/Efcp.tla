-------------------------------- MODULE Efcp --------------------------------
(***************************************************************************)
(* The EFCP container of the normal IPC process (components/EFCP): the map  *)
(* from connection endpoints to instances, and the receiving side of DTP.   *)
(* Every connection gets the endpoint 1 and the map stores it in its first  *)
(* row, so one instance at a time can be found: conn. Older ones are lost.  *)
(* Addresses and destination endpoints are data nothing here depends on.    *)
(***************************************************************************)
EXTENDS Naturals

CONSTANT MaxSeq         \* bound on the sequence numbers of PDUs
ASSUME SeqAssumption == MaxSeq \in Nat

VARIABLE conn           \* the instance in the first row of the map

(* No row matches the endpoint: pxEfcpImapFind returns NULL. *)
NoConn == [port |-> 0, drfRequired |-> TRUE, lwe |-> 0, first |-> 0, got |-> {}, refused |-> {}]
Found  == conn.port # 0

(* What arrives: a control PDU or a DT PDU with its data run flag. *)
Pdus == [control : BOOLEAN, run : BOOLEAN, seq : 0 .. MaxSeq]

EfcpInit == conn = NoConn
-----------------------------------------------------------------------------
(* xEfcpConnectionCreate, from the DTP state vector to the map. History: the *)
(* start of the data run, what the flow got, and what xFlowAllocatorDuPost    *)
(* refused.                                                                 *)
ConnectionCreate(p) == conn' = [NoConn EXCEPT !.port = p]

(* xEfcpConnectionDestroy: the row is cleared, and because xEfcpImapRemove   *)
(* returns true the function stops there; the instance is never freed.      *)
ConnectionDestroy == Found /\ conn' = NoConn
-----------------------------------------------------------------------------
(* xDtpReceive. A PDU is dropped when it lies at or below the left edge of   *)
(* the window, and posted to the flow otherwise; before the first PDU with   *)
(* the data run flag everything is posted. Nothing looks at the result of    *)
(* xDtpPduPost: the edge also moves over a PDU that was refused.             *)
StartsRun(pdu)  == conn.drfRequired /\ pdu.run
BeforeRun(pdu)  == conn.drfRequired /\ ~pdu.run
Duplicate(pdu)  == ~conn.drfRequired /\ pdu.seq <= conn.lwe
InWindow(pdu)   == ~conn.drfRequired /\ pdu.seq > conn.lwe

(* Fault: the edge jumps over a gap. *)
NextEdgeJumps(pdu) ==
    IF StartsRun(pdu) \/ InWindow(pdu) THEN pdu.seq ELSE conn.lwe

NextEdge(pdu) ==
    IF StartsRun(pdu) \/ (InWindow(pdu) /\ pdu.seq = conn.lwe + 1)
    THEN pdu.seq ELSE conn.lwe

PassedUp(pdu) == Found /\ ~pdu.control /\ ~Duplicate(pdu)

xDtpReceive(pdu, accepted) ==
    conn' = [conn EXCEPT !.drfRequired = @ /\ ~pdu.run,
                         !.lwe = NextEdge(pdu),
                         !.first = IF StartsRun(pdu) THEN pdu.seq ELSE @,
                         !.got = IF accepted THEN @ \cup {pdu.seq} ELSE @,
                         !.refused = IF accepted THEN @ ELSE @ \cup {pdu.seq}]
-----------------------------------------------------------------------------
EfcpTypeOK ==
    conn \in [port : Nat, drfRequired : BOOLEAN, lwe : 0 .. MaxSeq, first : 0 .. MaxSeq,
              got : SUBSET (0 .. MaxSeq), refused : SUBSET (0 .. MaxSeq)]

(* The left window edge of dtp.c never passes a PDU that has not come:       *)
(* whatever is lost, repeated or reordered on the way, all PDUs from the     *)
(* start of the data run to the edge were posted to the flow. Posted is not   *)
(* delivered: what the flow allocator refused, because the flow is not       *)
(* allocated, lies behind the edge too, and when the peer repeats it it is    *)
(* dropped as a duplicate. The property says that nothing else is lost so.    *)
WindowComplete ==
    ~conn.drfRequired => conn.first .. conn.lwe \subseteq conn.got \cup conn.refused
=============================================================================
