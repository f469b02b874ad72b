-------------------------- MODULE FlowRequestProofs --------------------------
(***************************************************************************)
(* Machine-checked facts about flow requests, for any number of application *)
(* threads, requests, rows and PDUs.                                        *)
(***************************************************************************)
EXTENDS FlowRequest, TLAPS, SequenceTheorems, WellFoundedInduction

(* A thread is between prvRINACreateFlowRequest and the return of the port,  *)
(* or has not yet created the connection of its request.                    *)
Requesting == Labels \ {"idle", "reading", "popping"}
Connecting == {"bind", "bound", "instance", "row", "next_hop", "connect", "no_cep"}

(* A port belongs to one thread at a time. *)
PortOwners ==
    /\ \A a \in Apps : pc[a] \in Requesting =>
         /\ port[a] < nextPort
         /\ \A b \in Apps : port[a] \notin owned[b]
         /\ \A b \in Apps : b # a /\ pc[b] \in Requesting => port[a] # port[b]
    /\ \A a \in Apps : pc[a] \in {"reading", "popping"} => port[a] \in owned[a]
    /\ \A a, b \in Apps : \A p \in owned[a] : p < nextPort /\ (a # b => p \notin owned[b])

(* The instance that can be found is not that of a request still to come. *)
ConnFresh ==
    /\ conn.port < nextPort
    /\ \A a \in Apps : pc[a] \in Connecting => port[a] # conn.port

(* The event bit says that the flow was added. *)
Bound(p) == p \in unbound \/ FlowsOf(p) # {}
BoundFlow ==
    /\ \A p \in Ports : "BOUND" \in handle[p].bits => Bound(p)
    /\ task.type = "wake" => Bound(task.port)
    /\ \A a \in Apps : pc[a] \in (Connecting \ {"bind", "bound"}) \cup {"cep", "reading", "popping"}
                         => Bound(port[a])

(* Only the flow of the first row is ever allocated. *)
AllocatedFirst ==
    \A i \in 1 .. Len(flows) :
        flows[i].allocated => overwrote \/ table[1] = flows[i].port

IInv ==
    /\ TypeOK /\ PortOwners /\ ConnFresh /\ BoundFlow /\ AllocatedFirst
    /\ ConnectionHasFlow /\ NoNullHandle /\ WindowComplete
-----------------------------------------------------------------------------
(* The first of the flows found: a set of numbers has a least element, *)
LEMMA LeastOf ==
    ASSUME NEW S \in SUBSET Nat, S # {}
    PROVE  Min(S) \in S /\ \A y \in S : Min(S) <= y
<1> DEFINE R == OpToRel(<, Nat)
<1>1. IsWellFoundedOn(R, Nat)
  BY NatLessThanWellFounded
<1>2. \A x, y \in Nat : y < x => <<y, x>> \in R
  BY DEF OpToRel
<1> HIDE DEF R
<1>3. PICK x \in S : \A y \in S : ~ (<<y, x>> \in R)
  BY <1>1, WFMin
<1>4. ASSUME NEW y \in S PROVE x <= y
  <2>1. ~ (y < x)
    BY <1>2, <1>3, Zenon
  <2>2. QED
    BY <2>1
<1>5. QED
  BY <1>4 DEF Min

(* and only one. *)
LEMMA LeastIs ==
    ASSUME NEW S \in SUBSET Nat, NEW x \in S, \A y \in S : x <= y
    PROVE  Min(S) = x
<1>1. Min(S) \in S /\ Min(S) <= x
  BY LeastOf
<1>2. x <= Min(S) /\ x \in Nat /\ Min(S) \in Nat
  BY <1>1
<1>3. QED
  BY <1>1, <1>2

(* What prvNormalFindFlow finds. *)
LEMMA FoundFlow ==
    ASSUME FlowsTypeOK, NEW p, FlowsOf(p) # {}
    PROVE  FirstFlow(p) \in 1 .. Len(flows) /\ flows[FirstFlow(p)].port = p
<1>1. FlowsOf(p) \in SUBSET Nat
  BY DEF FlowsOf, FlowsTypeOK
<1>2. FirstFlow(p) \in FlowsOf(p)
  BY <1>1, LeastOf DEF FirstFlow
<1>3. QED
  BY <1>2 DEF FlowsOf

(* Setting the endpoint or the state of a flow moves no flow, *)
LEMMA FlowKept ==
    ASSUME FlowsTypeOK, NEW i \in 1 .. Len(flows), NEW b \in BOOLEAN,
           \/ flows' = [flows EXCEPT ![i].cep = b]
           \/ flows' = [flows EXCEPT ![i].allocated = b]
    PROVE  /\ flows' \in Seq(FlowRecords) /\ Len(flows') = Len(flows)
           /\ \A j \in 1 .. Len(flows) : flows'[j].port = flows[j].port
           /\ \A p : FlowsOf(p)' = FlowsOf(p) /\ FirstFlow(p)' = FirstFlow(p)
<1>1. flows \in Seq(FlowRecords) /\ flows[i] \in FlowRecords
  BY DEF FlowsTypeOK
<1>2. PICK f \in FlowRecords :
        flows' = [flows EXCEPT ![i] = f] /\ f.port = flows[i].port
  <2>1. CASE flows' = [flows EXCEPT ![i].cep = b]
    <3>1. [flows[i] EXCEPT !.cep = b] \in FlowRecords
      BY <1>1 DEF FlowRecords
    <3>2. [flows[i] EXCEPT !.cep = b].port = flows[i].port
      BY <1>1 DEF FlowRecords
    <3>3. QED
      BY <2>1, <3>1, <3>2, Zenon
  <2>2. CASE flows' = [flows EXCEPT ![i].allocated = b]
    <3>1. [flows[i] EXCEPT !.allocated = b] \in FlowRecords
      BY <1>1 DEF FlowRecords
    <3>2. [flows[i] EXCEPT !.allocated = b].port = flows[i].port
      BY <1>1 DEF FlowRecords
    <3>3. QED
      BY <2>2, <3>1, <3>2, Zenon
  <2>3. QED
    BY <2>1, <2>2
<1>3. flows' \in Seq(FlowRecords) /\ Len(flows') = Len(flows)
  BY <1>1, <1>2
<1>4. \A j \in 1 .. Len(flows) : flows'[j].port = flows[j].port
  BY <1>1, <1>2
<1>5. \A p : FlowsOf(p)' = FlowsOf(p)
  BY <1>3, <1>4 DEF FlowsOf
<1>6. QED
  BY <1>3, <1>4, <1>5 DEF FirstFlow

(* and a flow added at the end is not found before an older one. *)
LEMMA FlowAdded ==
    ASSUME FlowsTypeOK, NEW f \in FlowRecords, flows' = Append(flows, f)
    PROVE  /\ flows' \in Seq(FlowRecords) /\ Len(flows') = Len(flows) + 1
           /\ \A j \in 1 .. Len(flows) : flows'[j] = flows[j]
           /\ flows'[Len(flows) + 1] = f
           /\ FlowsOf(f.port)' # {}
           /\ \A p : FlowsOf(p) # {} => FlowsOf(p)' # {} /\ FirstFlow(p)' = FirstFlow(p)
<1>1. /\ flows' \in Seq(FlowRecords) /\ Len(flows') = Len(flows) + 1
      /\ \A j \in 1 .. Len(flows) : flows'[j] = flows[j]
      /\ flows'[Len(flows) + 1] = f
  BY DEF FlowsTypeOK
<1>2. Len(flows) \in Nat
  BY DEF FlowsTypeOK
<1>3. FlowsOf(f.port)' # {}
  BY <1>1, <1>2 DEF FlowsOf
<1>4. ASSUME NEW p, FlowsOf(p) # {} PROVE FlowsOf(p)' # {} /\ FirstFlow(p)' = FirstFlow(p)
  <2>1. FlowsOf(p) \in SUBSET Nat /\ FlowsOf(p)' \in SUBSET Nat
    BY <1>1, <1>2 DEF FlowsOf
  <2>2. FirstFlow(p) \in FlowsOf(p) /\ \A j \in FlowsOf(p) : FirstFlow(p) <= j
    BY <2>1, <1>4, LeastOf DEF FirstFlow
  <2>3. FirstFlow(p) \in FlowsOf(p)'
    BY <1>1, <1>2, <2>2 DEF FlowsOf
  <2>4. \A j \in FlowsOf(p)' : j \in FlowsOf(p) \/ j = Len(flows) + 1
    BY <1>1, <1>2 DEF FlowsOf
  <2>5. FirstFlow(p) <= Len(flows)
    BY <1>2, <2>2 DEF FlowsOf
  <2>6. \A j \in FlowsOf(p)' : FirstFlow(p) <= j
    BY <1>2, <2>1, <2>2, <2>4, <2>5
  <2>7. Min(FlowsOf(p)') = FirstFlow(p)
    BY <2>1, <2>3, <2>6, LeastIs
  <2>8. QED
    BY <2>3, <2>7 DEF FirstFlow
<1>5. QED
  BY <1>1, <1>3, <1>4
-----------------------------------------------------------------------------
(* Which actions change what. *)
Footprint ==
    /\ \/ UNCHANGED conn
       \/ \E a \in Apps : Connect(a)
       \/ ReceivePasses
       \/ ConnectionEnds
    /\ \/ UNCHANGED <<flows, unbound>>
       \/ \E a \in Apps : UpdateCep(a)
       \/ xNormalFlowPrebind
       \/ xFlowAllocatorHandleCreateR
    /\ \/ UNCHANGED faVars
       \/ \E a \in Apps : SetRow(a)
       \/ xFlowAllocatorHandleCreateR
    /\ \/ UNCHANGED handle
       \/ \E a \in Apps : WaitBound(a) \/ ReadWait(a) \/ PopEnd(a)
       \/ vRINA_WakeUpFlowRequest
       \/ xFlowAllocatorHandleCreateR
       \/ InsertPacket
    /\ \/ UNCHANGED <<port, owned, nextPort>>
       \/ \E a \in Apps : FlowAlloc(a) \/ TimerSend(a) \/ Wait(a) \/ ReadBegin(a)
    /\ \/ UNCHANGED <<pc, port, row, owned, nextPort>>
       \/ \E a \in Apps : App(a)
    /\ \/ UNCHANGED program
       \/ \E a \in Apps : FlowAllocFails(a) \/ FlowMissing(a) \/ Connect(a)
                           \/ ConnectFails(a) \/ ReadBegin(a) \/ PopBegin(a)
       \/ ReceivePasses
    /\ \/ UNCHANGED task
       \/ Events
    /\ \/ UNCHANGED queue
       \/ \E a \in Apps : BindSend(a) \/ TimerSend(a) \/ WriteOrClose(a)
       \/ Events
       \/ PeerSend

LEMMA Footprints == ASSUME [Next]_vars PROVE Footprint
<1> USE DEF Footprint, faVars, envVars, appVars, taskVars
<1>1. CASE UNCHANGED vars
  BY <1>1 DEF vars
<1>2. ASSUME NEW a \in Apps, App(a) PROVE Footprint
  <2>1. CASE FlowAlloc(a)
    BY <1>2, <2>1 DEF FlowAlloc
  <2>2. CASE FlowAllocFails(a)
    BY <1>2, <2>2 DEF FlowAllocFails
  <2>3. CASE BindSend(a)
    BY <1>2, <2>3 DEF BindSend
  <2>4. CASE SendFails(a)
    BY <1>2, <2>4 DEF SendFails
  <2>5. CASE WaitBound(a)
    BY <1>2, <2>5 DEF WaitBound
  <2>6. CASE NewInstance(a)
    BY <1>2, <2>6 DEF NewInstance
  <2>7. CASE FindRow(a)
    BY <1>2, <2>7 DEF FindRow
  <2>8. CASE SetRow(a)
    BY <1>2, <2>8 DEF SetRow
  <2>9. CASE NextHop(a)
    BY <1>2, <2>9 DEF NextHop
  <2>10. CASE FlowMissing(a)
    BY <1>2, <2>10 DEF FlowMissing
  <2>11. CASE Connect(a)
    BY <1>2, <2>11 DEF Connect
  <2>12. CASE ConnectFails(a)
    BY <1>2, <2>12 DEF ConnectFails
  <2>13. CASE TimerSend(a)
    BY <1>2, <2>13 DEF TimerSend
  <2>14. CASE Wait(a)
    BY <1>2, <2>14 DEF Wait
  <2>15. CASE WriteOrClose(a)
    BY <1>2, <2>15 DEF WriteOrClose
  <2>16. CASE ReadBegin(a)
    BY <1>2, <2>16 DEF ReadBegin
  <2>17. CASE ReadWait(a)
    BY <1>2, <2>17 DEF ReadWait
  <2>18. CASE PopBegin(a)
    BY <1>2, <2>18 DEF PopBegin
  <2>19. CASE PopEnd(a)
    BY <1>2, <2>19 DEF PopEnd
  <2>20. CASE UpdateCep(a)
    BY <1>2, <2>20 DEF UpdateCep
  <2>21. QED
    BY <1>2, <2>1, <2>2, <2>3, <2>4, <2>5, <2>6, <2>7, <2>8, <2>9, <2>10, <2>11, <2>12, <2>13, <2>14, <2>15, <2>16, <2>17, <2>18, <2>19, <2>20
    DEF App, AppWaits, AppRuns, AppReads
<1>3. CASE xNormalFlowPrebind
  BY <1>3 DEF xNormalFlowPrebind, Events
<1>4. CASE vRINA_WakeUpFlowRequest
  BY <1>4 DEF vRINA_WakeUpFlowRequest, Events
<1>5. CASE TaskIgnores
  BY <1>5 DEF TaskIgnores, Events
<1>6. CASE InsertPacket
  BY <1>6 DEF InsertPacket, Events
<1>7. CASE xFlowAllocatorHandleCreateR
  BY <1>7 DEF xFlowAllocatorHandleCreateR, Events
<1>8. CASE ReceivePasses
  BY <1>8 DEF ReceivePasses, Events
<1>9. CASE ConnectionEnds
  BY <1>9 DEF ConnectionEnds, ConnectionDestroy, Events
<1>10. CASE NeighborKnown
  BY <1>10 DEF NeighborKnown
<1>11. CASE PeerSend
  BY <1>11 DEF PeerSend
<1>12. QED
  BY <1>1, <1>2, <1>3, <1>4, <1>5, <1>6, <1>7, <1>8, <1>9, <1>10, <1>11 DEF Next, Events, Peer
(* What the environment may do: the failures and calls are counted. *)
EnvStep ==
    /\ UNCHANGED neighbor \/ neighbor' = TRUE
    /\ UNCHANGED failures \/ MemoryFails
    /\ UNCHANGED writes \/ (writes < MaxWrites /\ writes' = writes + 1)
    /\ UNCHANGED received \/ (received < MaxRx /\ received' = received + 1)

LEMMA EnvFrame == ASSUME [Next]_vars PROVE EnvStep
<1> USE DEF EnvStep, envVars, appVars
<1>1. CASE UNCHANGED vars
  BY <1>1 DEF vars
<1>2. ASSUME NEW a \in Apps, App(a) PROVE EnvStep
  BY <1>2
  DEF App, AppWaits, AppRuns, AppReads, FlowAlloc, FlowAllocFails, BindSend, SendFails, WaitBound,
      NewInstance, FindRow, SetRow, NextHop, FlowMissing, Connect, ConnectFails, UpdateCep, TimerSend, Wait,
      WriteOrClose, ReadBegin, ReadWait, PopBegin, PopEnd
<1>3. CASE Events \/ Peer
  BY <1>3
  DEF Events, Peer, xNormalFlowPrebind, vRINA_WakeUpFlowRequest, TaskIgnores, InsertPacket,
      xFlowAllocatorHandleCreateR, ReceivePasses, ConnectionEnds, NeighborKnown, PeerSend
<1>4. QED
  BY <1>1, <1>2, <1>3 DEF Next

-----------------------------------------------------------------------------
(* The initial state. *)
LEMMA NoConnOK ==
    /\ conn = NoConn => EfcpTypeOK /\ conn.port = 0
    /\ NoConn.drfRequired /\ NoConn.port = 0
    /\ NoConn \in [port : Nat, drfRequired : BOOLEAN, lwe : 0 .. MaxSeq,
                   first : 0 .. MaxSeq, got : SUBSET (0 .. MaxSeq), refused : SUBSET (0 .. MaxSeq)]
<1>1. {} \in SUBSET (0 .. MaxSeq) /\ 0 \in 0 .. MaxSeq
  BY SeqAssumption
<1>2. NoConn \in [port : Nat, drfRequired : BOOLEAN, lwe : 0 .. MaxSeq,
                 first : 0 .. MaxSeq, got : SUBSET (0 .. MaxSeq), refused : SUBSET (0 .. MaxSeq)]
  BY <1>1 DEF NoConn
<1>3. NoConn.drfRequired /\ NoConn.port = 0
  BY DEF NoConn
<1>4. QED
  BY <1>2, <1>3 DEF EfcpTypeOK

LEMMA InitIInv == Init => IInv
<1> SUFFICES ASSUME Init PROVE IInv
  OBVIOUS
<1> USE FlowAssumption, SeqAssumption DEF Init, EfcpInit, NoConn, Event
<1>1. FlowsOf(0) = {} /\ \A p : FlowsOf(p) = {}
  BY DEF FlowsOf
<1>2. TypeOK
  <2>1. TaskTypeOK
    BY DEF TaskTypeOK
  <2>2. FlowsTypeOK /\ FaTypeOK
    <3>1. flows \in Seq(FlowRecords)
      OBVIOUS
    <3>2. unbound \subseteq Ports
      OBVIOUS
    <3>3. table \in [Rows -> 0 .. MaxPort] /\ allocated \subseteq Ports
      OBVIOUS
    <3>4. overwrote \in BOOLEAN
      BY Zenon
    <3>5. QED
      BY <3>1, <3>2, <3>3, <3>4 DEF FlowsTypeOK, FaTypeOK
  <2>3. HandleTypeOK /\ AppTypeOK
    BY DEF HandleTypeOK, AppTypeOK, Labels, Ports
  <2>4. EnvTypeOK /\ ConnTypeOK
    <3>1. EnvTypeOK
      <4>1. neighbor \in BOOLEAN /\ program = "runs"
        BY Zenon
      <4>2. failures \in 0 .. MaxFailures /\ writes \in 0 .. MaxWrites /\ received \in 0 .. MaxRx
        OBVIOUS
      <4>3. QED
        BY <4>1, <4>2 DEF EnvTypeOK
    <3>2. ConnTypeOK
      BY NoConnOK DEF ConnTypeOK
    <3>3. QED
      BY <3>1, <3>2
  <2>5. QED
    BY <2>1, <2>2, <2>3, <2>4 DEF TypeOK
<1>3. PortOwners /\ ConnFresh
  BY DEF PortOwners, ConnFresh, Requesting, Connecting
<1>4. BoundFlow /\ AllocatedFirst
  BY DEF BoundFlow, AllocatedFirst, Connecting
<1>5. ConnectionHasFlow /\ NoNullHandle /\ WindowComplete
  BY DEF ConnectionHasFlow, Found, NoNullHandle, WindowComplete
<1>6. QED
  BY <1>2, <1>3, <1>4, <1>5 DEF IInv

(* The window: only the three actions on the connection move it. *)
LEMMA ConnStep == ASSUME IInv, [Next]_vars PROVE ConnTypeOK' /\ WindowComplete'
<1>1. ConnTypeOK /\ WindowComplete /\ AppTypeOK
  BY DEF IInv, TypeOK
<1>2. CASE UNCHANGED conn
  BY <1>1, <1>2 DEF ConnTypeOK, EfcpTypeOK, WindowComplete
<1>3. ASSUME NEW a \in Apps, Connect(a) PROVE ConnTypeOK' /\ WindowComplete'
  <2>1. CASE AssertAborts
    BY <1>1, <1>3, <2>1 DEF Connect, ConnTypeOK, EfcpTypeOK, WindowComplete
  <2>2. CASE ~AssertAborts
    <3>1. conn' = [NoConn EXCEPT !.port = port[a]] /\ port[a] \in 0 .. MaxPort
      BY <1>1, <1>3, <2>2 DEF Connect, ConnectionCreate, AppTypeOK
    <3>2. ConnTypeOK'
      BY <3>1, NoConnOK, FlowAssumption DEF ConnTypeOK, EfcpTypeOK
    <3>3. WindowComplete'
      BY <3>1, NoConnOK DEF NoConn, WindowComplete
    <3>4. QED
      BY <3>2, <3>3
  <2>3. QED
    BY <2>1, <2>2
<1>4. CASE ReceivePasses
  <2>1. PICK pdu \in Pdus : PassedUp(pdu) /\ xDtpReceive(pdu, Accepted)
    BY <1>4 DEF ReceivePasses
  <2>2. pdu.seq \in 0 .. MaxSeq /\ pdu.run \in BOOLEAN
    BY DEF Pdus
  <2>3. NextEdge(pdu) \in 0 .. MaxSeq
    BY <1>1, <2>2 DEF NextEdge, ConnTypeOK, EfcpTypeOK
  <2>4. ConnTypeOK'
    BY <1>1, <2>1, <2>2, <2>3 DEF xDtpReceive, ConnTypeOK, EfcpTypeOK
  <2>5. CASE StartsRun(pdu)
    <3>1. conn'.lwe = pdu.seq /\ conn'.first = pdu.seq /\ pdu.seq \in conn'.got \cup conn'.refused
      BY <1>1, <2>1, <2>5 DEF NextEdge, xDtpReceive, ConnTypeOK, EfcpTypeOK
    <3>2. \A n \in conn'.first .. conn'.lwe : n = pdu.seq
      BY <2>2, <3>1
    <3>3. QED
      BY <2>4, <3>1, <3>2 DEF WindowComplete
  <2>6. CASE ~StartsRun(pdu)
    <3>1. /\ conn'.first = conn.first 
          /\ conn'.got \cup conn'.refused = (conn.got \cup conn.refused) \cup {pdu.seq}
          /\ conn'.drfRequired = conn.drfRequired
          /\ conn'.lwe = conn.lwe \/ (conn'.lwe = pdu.seq /\ pdu.seq = conn.lwe + 1)
      BY <1>1, <2>1, <2>2, <2>6
      DEF StartsRun, InWindow, NextEdge, xDtpReceive, ConnTypeOK, EfcpTypeOK
    <3>2. QED
      BY <1>1, <2>2, <2>4, <3>1 DEF WindowComplete, ConnTypeOK, EfcpTypeOK
  <2>7. QED
    BY <2>4, <2>5, <2>6
<1>5. CASE ConnectionEnds
  BY <1>5, SeqAssumption, FlowAssumption
  DEF ConnectionEnds, ConnectionDestroy, NoConn, ConnTypeOK, EfcpTypeOK, WindowComplete
<1>6. QED
  BY <1>2, <1>3, <1>4, <1>5, Footprints DEF Footprint

(* The ports: a request gets a number that nobody has. *)
LEMMA PortStep == ASSUME IInv, [Next]_vars PROVE PortOwners' /\ ConnFresh'
<1>1. /\ AppTypeOK /\ PortOwners /\ ConnFresh /\ ConnTypeOK
  BY DEF IInv, TypeOK
<1> USE DEF PortOwners, Requesting, Connecting
<1>2. PortOwners'
  <2>1. CASE UNCHANGED <<pc, port, row, owned, nextPort>>
    BY <1>1, <2>1
  <2>2. ASSUME NEW a \in Apps, App(a) PROVE PortOwners'
    <3>1. CASE FlowAlloc(a)
      <4>1. /\ pc[a] = "idle" /\ pc' = [pc EXCEPT ![a] = "bind"]
            /\ port' = [port EXCEPT ![a] = nextPort] /\ nextPort' = nextPort + 1
            /\ UNCHANGED owned /\ nextPort \in Nat
        BY <1>1, <3>1, FlowAssumption DEF FlowAlloc, AppTypeOK, At, Goto
      <4>2. \A b \in Apps : owned[b] \subseteq Nat /\ port[b] \in Nat
        BY <1>1 DEF AppTypeOK, Ports
      <4>3. /\ \A b \in Apps : port[b] # nextPort \/ pc[b] \notin Requesting
            /\ \A b \in Apps : nextPort \notin owned[b]
        BY <1>1, <4>1, <4>2
      <4>4. QED
        BY <1>1, <4>1, <4>2, <4>3 DEF AppTypeOK
    <3>2. CASE TimerSend(a)
      BY <1>1, <3>2 DEF TimerSend, Labels, AppTypeOK, At, Goto, Returns
    <3>3. CASE Wait(a)
      BY <1>1, <3>3 DEF Wait, Labels, AppTypeOK, At, Goto, Returns
    <3>4. CASE ReadBegin(a)
      BY <1>1, <3>4 DEF ReadBegin, Labels, AppTypeOK, At, Goto
    <3>5. CASE BindSend(a)
      BY <1>1, <3>5 DEF BindSend, Labels, At, Goto, AppTypeOK
    <3>6. CASE SendFails(a)
      BY <1>1, <3>6 DEF SendFails, Labels, At, Goto, AppTypeOK
    <3>7. CASE WaitBound(a)
      BY <1>1, <3>7 DEF WaitBound, Labels, At, Goto, AppTypeOK
    <3>8. CASE NewInstance(a)
      BY <1>1, <3>8 DEF NewInstance, Labels, At, Goto, AppTypeOK
    <3>9. CASE FindRow(a)
      BY <1>1, <3>9 DEF FindRow, Labels, At, Goto, AppTypeOK
    <3>10. CASE SetRow(a)
      BY <1>1, <3>10 DEF SetRow, Labels, At, Goto, AppTypeOK
    <3>11. CASE NextHop(a)
      BY <1>1, <3>11 DEF NextHop, Labels, At, Goto, AppTypeOK
    <3>12. CASE Connect(a)
      <4>1. CASE AssertAborts
        BY <1>1, <3>12, <4>1 DEF Connect
      <4>2. CASE ~AssertAborts
        BY <1>1, <3>12, <4>2 DEF Connect, Labels, At, Goto, AppTypeOK
      <4>3. QED
        BY <4>1, <4>2
    <3>13. CASE ConnectFails(a)
      <4>1. CASE UNCHANGED pc
        BY <1>1, <3>13, <4>1 DEF ConnectFails
      <4>2. CASE Goto(a, "no_cep")
        BY <1>1, <3>13, <4>2 DEF ConnectFails, Labels, At, Goto, AppTypeOK
      <4>3. QED
        BY <3>13, <4>1, <4>2 DEF ConnectFails
    <3>14. CASE PopBegin(a)
      BY <1>1, <3>14 DEF PopBegin, Labels, At, Goto, AppTypeOK
    <3>15. CASE PopEnd(a)
      BY <1>1, <3>15 DEF PopEnd, Labels, At, Goto, AppTypeOK
    <3>16. CASE FlowAllocFails(a) \/ FlowMissing(a) \/ WriteOrClose(a) \/ ReadWait(a)
      BY <1>1, <3>16 DEF FlowAllocFails, FlowMissing, WriteOrClose, ReadWait, appVars
    <3>17. CASE UpdateCep(a)
      BY <1>1, <3>17 DEF UpdateCep, Labels, At, Goto, AppTypeOK
    <3>18. QED
      BY <2>2, <3>1, <3>2, <3>3, <3>4, <3>5, <3>6, <3>7, <3>8, <3>9, <3>10, <3>11, <3>12, <3>13, <3>14, <3>15, <3>16, <3>17
      DEF App, AppWaits, AppRuns, AppReads
  <2>3. QED
    BY <2>1, <2>2, Footprints DEF Footprint
<1>3. ConnFresh'
  <2>1. conn'.port = conn.port \/ conn'.port = 0 \/ \E a \in Apps : Connect(a)
    <3>1. CASE ReceivePasses
      BY <1>1, <3>1 DEF ReceivePasses, xDtpReceive, ConnTypeOK, EfcpTypeOK
    <3>2. CASE ConnectionEnds
      BY <3>2, NoConnOK DEF ConnectionEnds, ConnectionDestroy
    <3>3. QED
      BY <3>1, <3>2, Footprints DEF Footprint
  <2>2. ASSUME NEW a \in Apps, Connect(a) PROVE ConnFresh'
    <3>1. CASE AssertAborts
      BY <1>1, <2>2, <3>1 DEF Connect, ConnFresh
    <3>2. CASE ~AssertAborts
      <4>1. conn'.port = port[a]
        BY <1>1, <2>2, <3>2 DEF Connect, ConnectionCreate, NoConn
      <4>2. QED
        BY <1>1, <2>2, <3>2, <4>1 DEF Connect, ConnFresh, At, Goto, AppTypeOK
    <3>3. QED
      BY <3>1, <3>2
  <2>3. CASE UNCHANGED <<pc, port, row, owned, nextPort>>
    <3>1. CASE conn'.port = conn.port
      BY <1>1, <2>3, <3>1 DEF ConnFresh
    <3>2. CASE conn'.port = 0
      BY <1>1, <2>3, <3>2 DEF ConnFresh, AppTypeOK
    <3>3. QED
      BY <2>1, <2>2, <3>1, <3>2
  <2>4. ASSUME NEW a \in Apps, App(a), ~ Connect(a) PROVE ConnFresh'
    <3>1. UNCHANGED conn
      BY <2>4
      DEF App, AppWaits, AppRuns, AppReads, FlowAlloc, FlowAllocFails, BindSend, SendFails,
          WaitBound, NewInstance, FindRow, SetRow, NextHop, FlowMissing, ConnectFails, UpdateCep, TimerSend,
          Wait, WriteOrClose, ReadBegin, ReadWait, PopBegin, PopEnd
    <3>2. CASE FlowAlloc(a)
      BY <1>1, <3>1, <3>2 DEF FlowAlloc, ConnFresh, ConnTypeOK, EfcpTypeOK, AppTypeOK, At, Goto
    <3>3. CASE ~ FlowAlloc(a)
      <4>1. /\ UNCHANGED nextPort
            /\ \A b \in Apps : pc'[b] \in Connecting => pc[b] \in Connecting /\ port'[b] = port[b]
        <5>1. CASE AppWaits(a)
          BY <1>1, <5>1 DEF AppWaits, BindSend, WaitBound, TimerSend, At, Goto, AppTypeOK
        <5>2. CASE AppRuns(a)
          BY <1>1, <2>4, <5>2
          DEF AppRuns, NewInstance, FindRow, SetRow, NextHop, UpdateCep, Wait, At, Goto, AppTypeOK
        <5>3. CASE AppReads(a)
          BY <1>1, <5>3 DEF AppReads, ReadBegin, ReadWait, PopBegin, PopEnd, At, Goto, AppTypeOK,
                            appVars
        <5>4. CASE FlowAllocFails(a) \/ SendFails(a) \/ FlowMissing(a)
          BY <1>1, <5>4 DEF FlowAllocFails, SendFails, FlowMissing, At, Goto, AppTypeOK, appVars
        <5>5. CASE ConnectFails(a) \/ WriteOrClose(a)
          BY <1>1, <5>5 DEF ConnectFails, WriteOrClose, At, Goto, AppTypeOK, appVars
        <5>6. QED
          BY <2>4, <3>3, <5>1, <5>2, <5>3, <5>4, <5>5 DEF App
      <4>2. QED
        BY <1>1, <3>1, <4>1 DEF ConnFresh
    <3>4. QED
      BY <3>2, <3>3
  <2>5. QED
    BY <2>2, <2>3, <2>4, Footprints DEF Footprint
<1>4. QED
  BY <1>2, <1>3

(* The types, part by part. *)
LEMMA TypeStep == ASSUME IInv, [Next]_vars PROVE TypeOK'
<1>1. /\ TaskTypeOK /\ FlowsTypeOK /\ FaTypeOK /\ HandleTypeOK /\ AppTypeOK /\ EnvTypeOK
      /\ ConnTypeOK /\ PortOwners
      /\ \A a \in Apps : pc[a] = "popping" => handle[port[a]].inbox > 0
  BY DEF IInv, TypeOK
<1>f. Footprint
  BY Footprints
<1>p. \A a \in Apps : pc[a] # "idle" => port[a] \in Ports
  BY <1>1 DEF AppTypeOK, Ports
<1>2. TaskTypeOK'
  <2>1. CASE UNCHANGED <<queue, task>>
    BY <1>1, <2>1 DEF TaskTypeOK
  <2>2. ASSUME NEW e \in QueueEvents, Send(e), UNCHANGED task PROVE TaskTypeOK'
    BY <1>1, <2>2, FlowAssumption DEF Send, TaskTypeOK
  <2>3. ASSUME NEW a \in Apps, BindSend(a) \/ TimerSend(a) \/ WriteOrClose(a) PROVE TaskTypeOK'
    <3>1. \A p \in Ports, type \in {"bind", "timer", "tx", "deallocate"} :
              Event(type, p) \in QueueEvents
      BY DEF Event, QueueEvents
    <3>2. CASE BindSend(a)
      BY <1>p, <2>2, <3>1, <3>2 DEF BindSend, At
    <3>3. CASE TimerSend(a)
      BY <1>p, <2>2, <3>1, <3>3 DEF TimerSend, At
    <3>4. CASE WriteOrClose(a)
      BY <1>1, <2>2, <3>1, <3>4 DEF WriteOrClose, AppTypeOK
    <3>5. QED
      BY <2>3, <3>2, <3>3, <3>4
  <2>4. CASE PeerSend
    <3>1. Event("rx", 0) \in QueueEvents
      BY DEF Event, QueueEvents
    <3>2. QED
      BY <2>2, <2>4, <3>1 DEF PeerSend
  <2>5. CASE Events
    <3>1. ASSUME NEW types, Takes(types)
          PROVE  /\ queue' \in Seq(QueueEvents) /\ Len(queue') <= QueueLen
                 /\ Head(queue) \in QueueEvents /\ Head(queue).type \in types
      BY <1>1, <3>1, FlowAssumption DEF Takes, TaskTypeOK
    <3>2. CASE xNormalFlowPrebind
      <4>1. Head(queue).port \in Ports
        BY <3>1, <3>2 DEF xNormalFlowPrebind, QueueEvents
      <4>2. QED
        BY <3>1, <3>2, <4>1 DEF xNormalFlowPrebind, TaskTypeOK, Event
    <3>3. CASE vRINA_WakeUpFlowRequest
      BY <1>1, <3>3 DEF vRINA_WakeUpFlowRequest, TaskTypeOK, Event
    <3>4. CASE InsertPacket
      BY <1>1, <3>4 DEF InsertPacket, TaskTypeOK, Event
    <3>5. CASE TaskIgnores \/ xFlowAllocatorHandleCreateR \/ ConnectionEnds
      <4>1. UNCHANGED task
        BY <3>5 DEF TaskIgnores, xFlowAllocatorHandleCreateR, ConnectionEnds
      <4>2. queue' \in Seq(QueueEvents) /\ Len(queue') <= QueueLen
        BY <3>1, <3>5 DEF TaskIgnores, xFlowAllocatorHandleCreateR, ConnectionEnds
      <4>3. QED
        BY <1>1, <4>1, <4>2 DEF TaskTypeOK
    <3>6. CASE ReceivePasses
      <4>1. UNCHANGED task \/ task' = Event("insert", conn.port)
        BY <3>6 DEF ReceivePasses
      <4>2. conn.port \in Ports
        BY <1>1, <3>6, FlowAssumption
        DEF ReceivePasses, PassedUp, Found, ConnTypeOK, EfcpTypeOK, Ports
      <4>3. queue' \in Seq(QueueEvents) /\ Len(queue') <= QueueLen
        BY <3>1, <3>6 DEF ReceivePasses
      <4>4. QED
        BY <1>1, <4>1, <4>2, <4>3 DEF TaskTypeOK, Event
    <3>7. QED
      BY <2>5, <3>2, <3>3, <3>4, <3>5, <3>6 DEF Events
  <2>6. UNCHANGED task \/ Events
    BY <1>f DEF Footprint
  <2>7. QED
    BY <1>f, <2>1, <2>3, <2>4, <2>5, <2>6 DEF Footprint
<1>3. FlowsTypeOK'
  <2>1. CASE UNCHANGED <<flows, unbound>>
    BY <1>1, <2>1 DEF FlowsTypeOK
  <2>2. ASSUME NEW p, NEW b \in BOOLEAN, SetCep(p, b) PROVE flows' \in Seq(FlowRecords)
    <3>1. CASE FlowsOf(p) = {}
      BY <1>1, <2>2, <3>1 DEF SetCep, FlowsTypeOK
    <3>2. CASE FlowsOf(p) # {}
      BY <1>1, <2>2, <3>2, FoundFlow, FlowKept DEF SetCep
    <3>3. QED
      BY <3>1, <3>2
  <2>3. ASSUME NEW a \in Apps, UpdateCep(a) PROVE FlowsTypeOK'
    <3>1. UNCHANGED unbound /\ SetCep(port[a], pc[a] = "cep")
      BY <2>3 DEF UpdateCep
    <3>2. QED
      BY <1>1, <2>2, <3>1 DEF FlowsTypeOK
  <2>4. CASE xNormalFlowPrebind
    <3>1. Head(queue).port \in Ports
      BY <1>1, <2>4 DEF xNormalFlowPrebind, Takes, TaskTypeOK, QueueEvents
    <3>2. [port |-> Head(queue).port, allocated |-> FALSE, cep |-> FALSE] \in FlowRecords
      BY <3>1 DEF FlowRecords
    <3>3. QED
      BY <1>1, <2>4, <3>1, <3>2, FlowAdded DEF xNormalFlowPrebind, FlowsTypeOK
  <2>5. CASE xFlowAllocatorHandleCreateR
    BY <1>1, <2>5, FoundFlow, FlowKept DEF xFlowAllocatorHandleCreateR, FlowsTypeOK
  <2>6. QED
    BY <1>f, <2>1, <2>3, <2>4, <2>5 DEF Footprint
<1>4. FaTypeOK'
  <2>1. CASE UNCHANGED faVars
    BY <1>1, <2>1 DEF FaTypeOK, faVars
  <2>2. ASSUME NEW a \in Apps, SetRow(a) PROVE FaTypeOK'
    <3>1. port[a] \in 0 .. MaxPort
      BY <1>1 DEF AppTypeOK
    <3>2. table' \in [Rows -> 0 .. MaxPort] /\ UNCHANGED allocated
      BY <1>1, <2>2, <3>1 DEF SetRow, FaTypeOK
    <3>3. overwrote' \in BOOLEAN
      BY <2>2, Zenon DEF SetRow
    <3>4. QED
      BY <1>1, <3>2, <3>3 DEF FaTypeOK
  <2>3. CASE xFlowAllocatorHandleCreateR
    BY <1>1, <2>3 DEF xFlowAllocatorHandleCreateR, FaTypeOK
  <2>4. QED
    BY <1>f, <2>1, <2>2, <2>3 DEF Footprint
<1>5. HandleTypeOK' /\ (\A a \in Apps : pc[a] = "popping" => handle[port[a]].inbox > 0)'
  <2> DEFINE Full == \A a \in Apps : pc[a] = "popping" => handle[port[a]].inbox > 0
  <2>1. ASSUME NEW p \in Ports, NEW bits \in SUBSET Bits,
               handle' = [handle EXCEPT ![p].bits = bits]
        PROVE  HandleTypeOK' /\ \A q \in Ports : handle'[q].inbox = handle[q].inbox
    BY <1>1, <2>1 DEF HandleTypeOK
  <2>2. ASSUME NEW bits \in SUBSET Bits, NEW bit \in Bits
        PROVE  Cleared(bits, bit) \in SUBSET Bits /\ bits \cup {bit} \in SUBSET Bits
    BY DEF Cleared
  <2>3. \A p \in Ports : handle[p].bits \in SUBSET Bits /\ handle[p].inbox \in Nat
    BY <1>1 DEF HandleTypeOK
  <2>b. "BOUND" \in Bits /\ "RECEIVE" \in Bits
    BY DEF Bits
  <2>4. ASSUME NEW a \in Apps, WaitBound(a) \/ ReadWait(a)
        PROVE  HandleTypeOK' /\ \A q \in Ports : handle'[q].inbox = handle[q].inbox
    <3>1. port[a] \in Ports
      BY <1>p, <2>4 DEF WaitBound, ReadWait, At
    <3>2. PICK bit \in Bits :
            handle' = [handle EXCEPT ![port[a]].bits = Cleared(handle[port[a]].bits, bit)]
      BY <1>1, <2>4, <2>b, <3>1 DEF WaitBound, ReadWait, HandleTypeOK
    <3>3. Cleared(handle[port[a]].bits, bit) \in SUBSET Bits
      BY <2>2, <2>3, <3>1
    <3>4. QED
      BY ONLY <2>1, <3>1, <3>2, <3>3, Zenon
  <2>5. ASSUME NEW p \in Ports, Wakes(p, "BOUND")
        PROVE  HandleTypeOK' /\ \A q \in Ports : handle'[q].inbox = handle[q].inbox
    <3>1. handle' = [handle EXCEPT ![p].bits = handle[p].bits \cup {"BOUND"}]
      BY <1>1, <2>5 DEF Wakes, HandleTypeOK
    <3>2. handle[p].bits \cup {"BOUND"} \in SUBSET Bits
      BY <2>2, <2>3, <2>b
    <3>3. QED
      BY ONLY <2>1, <2>5, <3>1, <3>2, Zenon
  <2>6. \A p \in {task.port} : task.type \in {"wake", "insert"} => p \in Ports
    BY <1>1 DEF TaskTypeOK
  <2>7. CASE InsertPacket
    <3>1. task.port \in Ports
      BY <2>6, <2>7 DEF InsertPacket, TaskAt
    <3>2. handle' = [handle EXCEPT ![task.port] =
             [bits |-> handle[task.port].bits \cup {"RECEIVE"},
              inbox |-> handle[task.port].inbox + 1]]
      BY <1>1, <2>7, <3>1 DEF InsertPacket, HandleTypeOK
    <3>3. [bits |-> handle[task.port].bits \cup {"RECEIVE"},
           inbox |-> handle[task.port].inbox + 1] \in [bits : SUBSET Bits, inbox : Nat]
      BY <2>2, <2>3, <2>b, <3>1
    <3>4. HandleTypeOK'
      BY <1>1, <3>1, <3>2, <3>3 DEF HandleTypeOK
    <3>5. \A q \in Ports : handle'[q].inbox >= handle[q].inbox
      BY <1>1, <2>3, <3>1, <3>2 DEF HandleTypeOK
    <3>6. UNCHANGED <<pc, port>>
      BY <2>7 DEF InsertPacket, appVars
    <3>7. QED
      BY <1>1, <1>p, <2>3, <3>4, <3>5, <3>6 DEF HandleTypeOK
  <2>8. ASSUME NEW a \in Apps, PopEnd(a) PROVE HandleTypeOK' /\ Full'
    <3>1. port[a] \in Ports /\ handle[port[a]].inbox > 0
      BY <1>1, <1>p, <2>8 DEF PopEnd, At
    <3>2. /\ handle' = [handle EXCEPT ![port[a]].inbox = handle[port[a]].inbox - 1]
          /\ UNCHANGED port /\ pc' = [pc EXCEPT ![a] = "idle"]
      BY <1>1, <2>8, <3>1 DEF PopEnd, HandleTypeOK, Goto
    <3>3. HandleTypeOK'
      BY <1>1, <2>3, <3>1, <3>2 DEF HandleTypeOK
    <3>4. ASSUME NEW b \in Apps, pc'[b] = "popping" PROVE handle'[port'[b]].inbox > 0
      <4>1. b # a /\ pc[b] = "popping" /\ pc[a] = "popping"
        BY <1>1, <2>8, <3>2, <3>4 DEF PopEnd, At, AppTypeOK
      <4>2. port[b] # port[a]
        BY <1>1, <4>1 DEF PortOwners
      <4>3. QED
        BY <1>1, <1>p, <3>2, <4>1, <4>2 DEF HandleTypeOK
    <3>5. QED
      BY <3>3, <3>4
  <2>9. ASSUME NEW a \in Apps, App(a), ~ PopEnd(a),
               \A q \in Ports : handle'[q].inbox = handle[q].inbox
        PROVE  Full'
    <3>1. CASE PopBegin(a)
      BY <1>1, <1>p, <2>9, <3>1 DEF PopBegin, At, Goto, AppTypeOK
    <3>2. CASE ~ PopBegin(a)
      <4>1. \A b \in Apps : pc'[b] = "popping" => pc[b] = "popping" /\ port'[b] = port[b]
        BY <1>1, <2>9, <3>2
        DEF App, AppWaits, AppRuns, AppReads, FlowAlloc, FlowAllocFails, BindSend, SendFails,
            WaitBound, NewInstance, FindRow, SetRow, NextHop, FlowMissing, Connect, ConnectFails, UpdateCep,
            TimerSend, Wait, WriteOrClose, ReadBegin, ReadWait, At, Goto, AppTypeOK, appVars
      <4>2. QED
        BY <1>1, <1>p, <2>9, <4>1
    <3>3. QED
      BY <3>1, <3>2
  <2>10. HandleTypeOK' /\ \/ \A q \in Ports : handle'[q].inbox = handle[q].inbox
                          \/ \E a \in Apps : PopEnd(a)
                          \/ InsertPacket
    <3>1. CASE UNCHANGED handle
      BY <1>1, <3>1 DEF HandleTypeOK
    <3>2. CASE vRINA_WakeUpFlowRequest
      BY <2>5, <2>6, <3>2 DEF vRINA_WakeUpFlowRequest, TaskAt
    <3>3. CASE xFlowAllocatorHandleCreateR
      BY <2>5, <3>3 DEF xFlowAllocatorHandleCreateR
    <3>4. QED
      BY <1>f, <2>4, <2>7, <2>8, <3>1, <3>2, <3>3 DEF Footprint
  <2>11. QED
    <3>1. CASE InsertPacket
      BY <2>7, <3>1
    <3>2. CASE \E a \in Apps : PopEnd(a)
      BY <2>8, <3>2
    <3>3. CASE \A q \in Ports : handle'[q].inbox = handle[q].inbox
      <4>1. CASE UNCHANGED <<pc, port, row, owned, nextPort>>
        BY <1>1, <1>p, <2>10, <3>3, <4>1
      <4>2. QED
        BY <1>f, <2>8, <2>9, <2>10, <3>3, <4>1 DEF Footprint
    <3>4. QED
      BY <2>10, <3>1, <3>2, <3>3
<1>6. AppTypeOK'
  <2>1. CASE UNCHANGED <<pc, port, row, owned, nextPort>>
    BY <1>1, <2>1 DEF AppTypeOK
  <2>2. ASSUME NEW a \in Apps, App(a) PROVE AppTypeOK'
    <3> USE DEF At, Goto, AppTypeOK, Labels
    <3>1. CASE FlowAlloc(a)
      <4>1. nextPort \in Ports /\ nextPort + 1 \in 1 .. MaxPort + 1
        BY <1>1, <3>1, FlowAssumption DEF FlowAlloc, Ports
      <4>2. QED
        BY <1>1, <3>1, <4>1, FlowAssumption DEF FlowAlloc, Ports
    <3>2. CASE BindSend(a)
      BY <1>1, <3>2 DEF BindSend
    <3>3. CASE SendFails(a)
      BY <1>1, <3>3 DEF SendFails
    <3>4. CASE WaitBound(a)
      BY <1>1, <3>4 DEF WaitBound
    <3>5. CASE NewInstance(a)
      BY <1>1, <3>5 DEF NewInstance
    <3>6. CASE FindRow(a)
      BY <1>1, <3>6, FlowAssumption DEF FindRow, Rows
    <3>7. CASE SetRow(a)
      BY <1>1, <3>7, FlowAssumption DEF SetRow, Rows
    <3>8. CASE NextHop(a)
      BY <1>1, <3>8 DEF NextHop
    <3>9. CASE Connect(a)
      <4>1. CASE AssertAborts
        BY <1>1, <3>9, <4>1 DEF Connect
      <4>2. CASE ~AssertAborts
        BY <1>1, <3>9, <4>2 DEF Connect
      <4>3. QED
        BY <4>1, <4>2
    <3>10. CASE ConnectFails(a)
      BY <1>1, <3>10 DEF ConnectFails
    <3>11. CASE TimerSend(a)
      <4>1. port[a] \in Ports
        BY <1>p, <3>11 DEF TimerSend
      <4>2. owned' \in [Apps -> SUBSET Ports]
        BY <1>1, <3>11, <4>1 DEF TimerSend, Returns
      <4>3. QED
        BY <1>1, <3>11, <4>2 DEF TimerSend
    <3>12. CASE Wait(a)
      <4>1. port[a] \in Ports
        BY <1>p, <3>12 DEF Wait
      <4>2. owned' \in [Apps -> SUBSET Ports]
        BY <1>1, <3>12, <4>1 DEF Wait, Returns
      <4>3. QED
        BY <1>1, <3>12, <4>2 DEF Wait
    <3>13. CASE ReadBegin(a)
      <4>1. UNCHANGED <<pc, port>> \/ \E p \in Ports : /\ port' = [port EXCEPT ![a] = p]
                                                     /\ pc' = [pc EXCEPT ![a] = "reading"]
        BY <1>1, <3>13 DEF ReadBegin
      <4>2. UNCHANGED <<row, owned, nextPort>>
        BY <3>13 DEF ReadBegin
      <4>3. QED
        BY <1>1, <4>1, <4>2 DEF Ports
    <3>14. CASE PopBegin(a)
      BY <1>1, <3>14 DEF PopBegin
    <3>15. CASE PopEnd(a)
      BY <1>1, <3>15 DEF PopEnd
    <3>16. CASE FlowAllocFails(a) \/ FlowMissing(a) \/ WriteOrClose(a) \/ ReadWait(a)
      BY <1>1, <3>16 DEF FlowAllocFails, FlowMissing, WriteOrClose, ReadWait, appVars
    <3>17. CASE UpdateCep(a)
      BY <1>1, <3>17 DEF UpdateCep
    <3>18. QED
      BY <2>2, <3>1, <3>2, <3>3, <3>4, <3>5, <3>6, <3>7, <3>8, <3>9, <3>10, <3>11, <3>12, <3>13, <3>14, <3>15, <3>16, <3>17
      DEF App, AppWaits, AppRuns, AppReads
  <2>3. QED
    BY <1>f, <2>1, <2>2 DEF Footprint
<1>7. EnvTypeOK'
  <2>1. /\ neighbor' \in BOOLEAN
        /\ program' \in {"runs", "null_handle", "null_flow", "no_rmt", "undefined"}
    <3>1. UNCHANGED neighbor \/ neighbor' = TRUE
      BY EnvFrame DEF EnvStep
    <3>2. neighbor' \in BOOLEAN
      BY <1>1, <3>1, Zenon DEF EnvTypeOK
    <3>3. program' \in {"runs", "null_handle", "null_flow", "no_rmt", "undefined"}
      BY <1>1, <1>f
      DEF Footprint, EnvTypeOK, FlowAllocFails, FlowMissing, Connect, ConnectFails, ReadBegin,
          PopBegin, ReceivePasses, Stops
    <3>4. QED
      BY <3>2, <3>3
  <2>2. /\ failures' \in 0 .. MaxFailures /\ writes' \in 0 .. MaxWrites
        /\ received' \in 0 .. MaxRx
    <3>1. /\ failures \in 0 .. MaxFailures /\ writes \in 0 .. MaxWrites
          /\ received \in 0 .. MaxRx
      BY <1>1 DEF EnvTypeOK
    <3>2. /\ UNCHANGED failures \/ (failures < MaxFailures /\ failures' = failures + 1)
          /\ UNCHANGED writes \/ (writes < MaxWrites /\ writes' = writes + 1)
          /\ UNCHANGED received \/ (received < MaxRx /\ received' = received + 1)
      BY EnvFrame DEF EnvStep, MemoryFails
    <3>3. QED
      BY ONLY <3>1, <3>2, FlowAssumption
  <2>3. QED
    BY <2>1, <2>2 DEF EnvTypeOK
<1>8. ConnTypeOK'
  BY ConnStep
<1>9. QED
  BY <1>2, <1>3, <1>4, <1>5, <1>6, <1>7, <1>8 DEF TypeOK
-----------------------------------------------------------------------------
(* No flow goes away, and a binding once made stays made. *)
LEMMA FlowsStay ==
    ASSUME IInv, [Next]_vars, NEW p
    PROVE  /\ FlowsOf(p) # {} => FlowsOf(p)' # {} /\ FirstFlow(p)' = FirstFlow(p)
           /\ Bound(p) => Bound(p)'
<1>1. FlowsTypeOK /\ TaskTypeOK
  BY DEF IInv, TypeOK
<1>2. CASE UNCHANGED <<flows, unbound>>
  BY <1>2 DEF FlowsOf, FirstFlow, Bound
<1>3. ASSUME NEW q, NEW b \in BOOLEAN, SetCep(q, b)
      PROVE  FlowsOf(p)' = FlowsOf(p) /\ FirstFlow(p)' = FirstFlow(p)
  <2>1. CASE FlowsOf(q) = {}
    BY <1>3, <2>1 DEF SetCep, FlowsOf, FirstFlow
  <2>2. CASE FlowsOf(q) # {}
    BY <1>1, <1>3, <2>2, FoundFlow, FlowKept DEF SetCep
  <2>3. QED
    BY <2>1, <2>2
<1>4. ASSUME NEW a \in Apps, UpdateCep(a)
      PROVE  FlowsOf(p)' = FlowsOf(p) /\ FirstFlow(p)' = FirstFlow(p) /\ UNCHANGED unbound
  <2>1. UNCHANGED unbound /\ SetCep(port[a], pc[a] = "cep")
    BY <1>4 DEF UpdateCep
  <2>2. QED
    BY <1>3, <2>1
<1>5. CASE xNormalFlowPrebind
  <2>1. Head(queue).port \in Ports
    BY <1>1, <1>5 DEF xNormalFlowPrebind, Takes, TaskTypeOK, QueueEvents
  <2>2. [port |-> Head(queue).port, allocated |-> FALSE, cep |-> FALSE] \in FlowRecords
    BY <2>1 DEF FlowRecords
  <2>3. CASE UNCHANGED flows
    BY <1>5, <2>3 DEF FlowsOf, FirstFlow, Bound, xNormalFlowPrebind
  <2>4. CASE ~ UNCHANGED flows
    <3>1. /\ flows' = Append(flows, [port |-> Head(queue).port, allocated |-> FALSE,
                                     cep |-> FALSE])
          /\ UNCHANGED unbound
      BY <1>5, <2>4 DEF xNormalFlowPrebind
    <3>2. QED
      BY <1>1, <2>2, <3>1, FlowAdded DEF Bound
  <2>5. QED
    BY <2>3, <2>4
<1>6. CASE xFlowAllocatorHandleCreateR
  BY <1>1, <1>6, FoundFlow, FlowKept DEF xFlowAllocatorHandleCreateR, Bound
<1>7. QED
  <2>1. CASE \E a \in Apps : UpdateCep(a)
    BY <1>4, <2>1 DEF Bound
  <2>2. QED
    BY <1>2, <1>5, <1>6, <2>1, Footprints DEF Footprint

(* A binding bit, or a thread past its wait, means a flow or no memory. *)
LEMMA BoundStep == ASSUME IInv, [Next]_vars PROVE BoundFlow'
<1>1. HandleTypeOK /\ AppTypeOK /\ TaskTypeOK /\ FlowsTypeOK /\ BoundFlow
  BY DEF IInv, TypeOK
<1>f. Footprint
  BY Footprints
<1>p. \A a \in Apps : pc[a] # "idle" => port[a] \in Ports
  BY <1>1 DEF AppTypeOK, Ports
<1>s. \A p : Bound(p) => Bound(p)'
  BY FlowsStay
<1> DEFINE Past == (Connecting \ {"bind", "bound"}) \cup {"cep", "reading", "popping"}
<1>2. ASSUME NEW p \in Ports, "BOUND" \in handle'[p].bits PROVE Bound(p)'
  <2>1. CASE "BOUND" \in handle[p].bits
    BY <1>1, <1>s, <2>1 DEF BoundFlow
  <2>2. ASSUME NEW a \in Apps, WaitBound(a), "BOUND" \notin handle[p].bits PROVE FALSE
    BY <1>1, <1>2, <1>p, <2>2 DEF WaitBound, At, HandleTypeOK, Bits
  <2>3. ASSUME NEW a \in Apps, ReadWait(a), "BOUND" \notin handle[p].bits PROVE Bound(p)'
    <3>1. p = port[a]
      BY <1>1, <1>2, <1>p, <2>3 DEF ReadWait, At, HandleTypeOK
    <3>2. QED
      BY <1>1, <1>s, <2>3, <3>1 DEF ReadWait, At, BoundFlow
  <2>4. ASSUME NEW a \in Apps, PopEnd(a) PROVE "BOUND" \in handle[p].bits
    BY <1>1, <1>2, <1>p, <2>4 DEF PopEnd, At, HandleTypeOK
  <2>5. CASE InsertPacket
    BY <1>1, <1>2, <1>s, <2>1, <2>5 DEF InsertPacket, HandleTypeOK
  <2>6. CASE vRINA_WakeUpFlowRequest /\ "BOUND" \notin handle[p].bits
    <3>1. p = task.port /\ task.type = "wake"
      BY <1>1, <1>2, <2>6 DEF vRINA_WakeUpFlowRequest, Wakes, HandleTypeOK, TaskAt
    <3>2. QED
      BY <1>1, <1>s, <3>1 DEF BoundFlow
  <2>7. CASE xFlowAllocatorHandleCreateR /\ "BOUND" \notin handle[p].bits
    <3>1. PICK q \in Ports : FlowsOf(q) # {} /\ Wakes(q, "BOUND")
      BY <2>7 DEF xFlowAllocatorHandleCreateR
    <3>2. p = q
      BY <1>1, <1>2, <2>7, <3>1 DEF Wakes, HandleTypeOK
    <3>3. QED
      BY <1>s, <3>1, <3>2 DEF Bound
  <2>8. CASE UNCHANGED handle
    BY <1>2, <2>1, <2>8
  <2>9. QED
    BY <1>f, <2>1, <2>2, <2>3, <2>4, <2>5, <2>6, <2>7, <2>8 DEF Footprint
<1>3. ASSUME task'.type = "wake" PROVE Bound(task.port)'
  <2>1. CASE UNCHANGED task
    BY <1>1, <1>3, <1>s, <2>1 DEF BoundFlow, Bound, FlowsOf
  <2>2. CASE xNormalFlowPrebind
    <3>1. task'.port = Head(queue).port
      BY <2>2 DEF xNormalFlowPrebind, Event
    <3>2. CASE Head(queue).port \in unbound'
      BY <3>1, <3>2 DEF Bound, FlowsOf
    <3>3. CASE Head(queue).port \notin unbound'
      <4>1. [port |-> Head(queue).port, allocated |-> FALSE, cep |-> FALSE] \in FlowRecords
        BY <1>1, <2>2 DEF xNormalFlowPrebind, Takes, TaskTypeOK, QueueEvents, FlowRecords
      <4>2. flows' = Append(flows, [port |-> Head(queue).port, allocated |-> FALSE,
                                    cep |-> FALSE])
        BY <2>2, <3>3 DEF xNormalFlowPrebind
      <4>3. /\ Len(flows') = Len(flows) + 1 /\ Len(flows) \in Nat
            /\ flows'[Len(flows) + 1].port = Head(queue).port
        BY <1>1, <4>1, <4>2, FlowAdded DEF FlowsTypeOK
      <4>4. QED
        BY <3>1, <4>3 DEF Bound, FlowsOf
    <3>4. QED
      BY <3>2, <3>3
  <2>3. CASE Events /\ ~ UNCHANGED task /\ ~ xNormalFlowPrebind
    BY <1>3, <2>3
    DEF Events, vRINA_WakeUpFlowRequest, TaskIgnores, InsertPacket, xFlowAllocatorHandleCreateR,
        ReceivePasses, ConnectionEnds, Event
  <2>4. QED
    BY <1>f, <2>1, <2>2, <2>3 DEF Footprint
<1>4. ASSUME NEW a \in Apps, pc'[a] \in Past PROVE Bound(port[a])'
  <2>1. CASE pc[a] \in Past /\ port'[a] = port[a]
    BY <1>1, <1>s, <2>1 DEF BoundFlow, Bound, FlowsOf
  <2>2. CASE WaitBound(a)
    BY <1>1, <1>p, <1>s, <2>2 DEF WaitBound, At, BoundFlow, Bound, FlowsOf
  <2>3. CASE ReadBegin(a)
    <3>1. CASE UNCHANGED <<pc, port>>
      BY <1>4, <2>1, <3>1
    <3>2. CASE ~ UNCHANGED <<pc, port>>
      <4>1. PICK p \in owned[a] : FlowsOf(p) # {} /\ port' = [port EXCEPT ![a] = p]
        BY <2>3, <3>2 DEF ReadBegin, FlowAllocated
      <4>2. Bound(p) /\ port'[a] = p
        BY <1>1, <4>1 DEF Bound, AppTypeOK
      <4>3. QED
        BY <1>s, <4>2 DEF Bound, FlowsOf
    <3>3. QED
      BY <3>1, <3>2
  <2>4. CASE UNCHANGED <<pc, port, row, owned, nextPort>>
    BY <1>4, <2>1, <2>4
  <2>5. ASSUME NEW b \in Apps, App(b), ~ WaitBound(a), ~ ReadBegin(a)
        PROVE  pc[a] \in Past /\ port'[a] = port[a]
    BY <1>1, <1>4, <2>5
    DEF Connecting, App, AppWaits, AppRuns, AppReads, FlowAlloc, FlowAllocFails, BindSend, SendFails,
        WaitBound, NewInstance, FindRow, SetRow, NextHop, FlowMissing, Connect, ConnectFails, UpdateCep,
        TimerSend, Wait, WriteOrClose, ReadBegin, ReadWait, PopBegin, PopEnd, At, Goto, AppTypeOK,
        appVars
  <2>6. QED
    BY <1>f, <2>1, <2>2, <2>3, <2>4, <2>5 DEF Footprint
<1>5. QED
  BY <1>2, <1>3, <1>4 DEF BoundFlow
-----------------------------------------------------------------------------
(* Only the flow of the first row is allocated, until rows are overwritten. *)
LEMMA AllocatedStep == ASSUME IInv, [Next]_vars PROVE AllocatedFirst'
<1>1. /\ FlowsTypeOK /\ FaTypeOK /\ AppTypeOK /\ TaskTypeOK /\ AllocatedFirst
      /\ 1 \in Rows
  BY FlowAssumption DEF IInv, TypeOK, Rows
<1>f. Footprint
  BY Footprints
<1>2. CASE xFlowAllocatorHandleCreateR
  <2>1. PICK q \in Ports : /\ pxFAFindInstance(q) /\ FlowsOf(q) # {}
                           /\ flows' = [flows EXCEPT ![FirstFlow(q)].allocated = TRUE]
    BY <1>2 DEF xFlowAllocatorHandleCreateR
  <2>2. FirstFlow(q) \in 1 .. Len(flows) /\ flows[FirstFlow(q)].port = q /\ table[1] = q
    BY <1>1, <2>1, FoundFlow DEF pxFAFindInstance
  <2>3. /\ Len(flows') = Len(flows)
        /\ \A j \in 1 .. Len(flows) : flows'[j].port = flows[j].port
    BY <1>1, <2>1, <2>2, FlowKept
  <2>4. \A j \in 1 .. Len(flows) : j # FirstFlow(q) => flows'[j] = flows[j]
    BY <1>1, <2>1 DEF FlowsTypeOK
  <2>5. UNCHANGED <<table, overwrote>>
    BY <1>2 DEF xFlowAllocatorHandleCreateR
  <2>6. QED
    BY <1>1, <2>2, <2>3, <2>4, <2>5 DEF AllocatedFirst
<1>3. ASSUME NEW a \in Apps, SetRow(a) PROVE AllocatedFirst'
  <2>1. UNCHANGED flows /\ row[a] \in Rows
    BY <1>1, <1>3 DEF SetRow, AppTypeOK, Rows
  <2>2. CASE overwrote
    BY <1>3, <2>2 DEF SetRow, AllocatedFirst
  <2>3. CASE table[row[a]] # 0
    BY <1>3, <2>3 DEF SetRow, AllocatedFirst
  <2>4. CASE ~overwrote /\ table[row[a]] = 0
    <3>1. ASSUME NEW i \in 1 .. Len(flows), flows[i].allocated PROVE table'[1] = flows[i].port
      <4>0. table[1] = flows[i].port
        BY <1>1, <2>4, <3>1 DEF AllocatedFirst
      <4>1. table[1] = flows[i].port /\ flows[i].port # 0
        <5>1. flows[i] \in FlowRecords
          BY <1>1, <3>1 DEF FlowsTypeOK
        <5>2. flows[i].port \in Ports
          BY <5>1 DEF FlowRecords
        <5>3. QED
          BY <4>0, <5>2 DEF Ports
      <4>2. QED
        BY <1>1, <1>3, <2>1, <2>4, <4>1 DEF SetRow, FaTypeOK
    <3>2. QED
      BY <2>1, <3>1 DEF AllocatedFirst
  <2>5. QED
    BY <2>2, <2>3, <2>4
<1>4. CASE UNCHANGED faVars
  <2> USE DEF faVars
  <2>1. CASE UNCHANGED flows
    BY <1>1, <1>4, <2>1 DEF AllocatedFirst
  <2>2. ASSUME NEW p, NEW b \in BOOLEAN, SetCep(p, b), FlowsOf(p) # {} PROVE AllocatedFirst'
    <3>1. FirstFlow(p) \in 1 .. Len(flows)
      BY <1>1, <2>2, FoundFlow
    <3>2. /\ flows' = [flows EXCEPT ![FirstFlow(p)].cep = b]
          /\ Len(flows') = Len(flows)
          /\ \A j \in 1 .. Len(flows) : flows'[j].port = flows[j].port
      BY <1>1, <2>2, <3>1, FlowKept DEF SetCep
    <3>3. \A j \in 1 .. Len(flows) : flows'[j].allocated = flows[j].allocated
      BY <1>1, <3>1, <3>2 DEF FlowsTypeOK, FlowRecords
    <3>4. QED
      BY <1>1, <1>4, <3>2, <3>3 DEF AllocatedFirst
  <2>3. ASSUME NEW a \in Apps, UpdateCep(a) PROVE AllocatedFirst'
    <3>1. UNCHANGED flows \/ (SetCep(port[a], pc[a] = "cep") /\ FlowsOf(port[a]) # {})
      BY <2>3 DEF UpdateCep, SetCep
    <3>2. QED
      BY <2>1, <2>2, <3>1
  <2>4. CASE xNormalFlowPrebind
    <3>1. CASE UNCHANGED flows
      BY <2>1, <3>1
    <3>2. CASE ~ UNCHANGED flows
      <4> DEFINE f == [port |-> Head(queue).port, allocated |-> FALSE, cep |-> FALSE]
      <4>1. f \in FlowRecords
        BY <1>1, <2>4 DEF xNormalFlowPrebind, Takes, TaskTypeOK, QueueEvents, FlowRecords
      <4>2. flows' = Append(flows, f)
        BY <2>4, <3>2 DEF xNormalFlowPrebind
      <4>3. /\ Len(flows') = Len(flows) + 1 /\ Len(flows) \in Nat
            /\ \A j \in 1 .. Len(flows) : flows'[j] = flows[j]
            /\ ~ flows'[Len(flows) + 1].allocated
        BY <1>1, <4>1, <4>2, FlowAdded DEF FlowsTypeOK
      <4>4. QED
        BY <1>1, <1>4, <4>3 DEF AllocatedFirst
    <3>3. QED
      BY <3>1, <3>2
  <2>5. QED
    BY <1>f, <1>2, <2>1, <2>3, <2>4 DEF Footprint
<1>5. QED
  BY <1>f, <1>2, <1>3, <1>4 DEF Footprint

(* The instance PDUs find has its flow. *)
LEMMA HasFlowStep == ASSUME IInv, [Next]_vars PROVE ConnectionHasFlow'
<1>1. /\ FlowsTypeOK /\ AppTypeOK /\ TaskTypeOK /\ ConnTypeOK /\ ConnFresh /\ BoundFlow
      /\ ConnectionHasFlow
  BY DEF IInv, TypeOK
<1>f. Footprint
  BY Footprints
<1> DEFINE Stored(p) == p \in unbound \/ (FlowsOf(p) # {} /\ flows[FirstFlow(p)].cep)
<1>2. ASSUME NEW p, NEW q, NEW b \in BOOLEAN, SetCep(q, b), UNCHANGED unbound
      PROVE  /\ Stored(p) /\ p # q => Stored(p)'
             /\ Bound(q) /\ b => Stored(q)'
  <2>1. CASE FlowsOf(q) = {}
    <3>1. UNCHANGED flows
      BY <1>2, <2>1 DEF SetCep
    <3>2. QED
      BY <1>2, <2>1, <3>1 DEF Bound, FlowsOf, FirstFlow
  <2>2. CASE FlowsOf(q) # {}
    <3>1. flows' = [flows EXCEPT ![FirstFlow(q)].cep = b]
      BY <1>2, <2>2 DEF SetCep
    <3>2. FirstFlow(q) \in 1 .. Len(flows) /\ flows[FirstFlow(q)].port = q
      BY <1>1, <2>2, FoundFlow
    <3>3. \A r : FlowsOf(r)' = FlowsOf(r) /\ FirstFlow(r)' = FirstFlow(r)
      BY <1>1, <3>1, <3>2, FlowKept
    <3>4. flows'[FirstFlow(q)].cep = b
      BY <1>1, <3>1, <3>2 DEF FlowsTypeOK, FlowRecords
    <3>5. ASSUME Stored(p), p # q PROVE Stored(p)'
      <4>1. CASE p \in unbound
        BY <1>2, <4>1
      <4>2. CASE FlowsOf(p) # {} /\ flows[FirstFlow(p)].cep
        <5>1. FirstFlow(p) \in 1 .. Len(flows) /\ flows[FirstFlow(p)].port = p
          BY <1>1, <4>2, FoundFlow
        <5>2. flows'[FirstFlow(p)] = flows[FirstFlow(p)]
          BY <1>1, <3>1, <3>2, <3>5, <5>1 DEF FlowsTypeOK
        <5>3. QED
          BY <3>3, <4>2, <5>2
      <4>3. QED
        BY <3>5, <4>1, <4>2
    <3>6. ASSUME b PROVE Stored(q)'
      BY <2>2, <3>3, <3>4, <3>6
    <3>7. QED
      BY <3>5, <3>6
  <2>3. QED
    BY <2>1, <2>2
<1>3. ASSUME NEW a \in Apps, Connect(a) PROVE ConnectionHasFlow'
  <2>1. CASE AssertAborts
    <3>1. UNCHANGED <<conn, flows, unbound, pc, port>>
      BY <1>3, <2>1 DEF Connect
    <3>2. QED
      BY <1>1, <3>1 DEF ConnectionHasFlow, Found, FlowsOf, FirstFlow
  <2>2. CASE ~AssertAborts
    <3>1. conn'.port = port[a] /\ UNCHANGED <<flows, unbound>>
      BY <1>3, <2>2 DEF Connect, ConnectionCreate, NoConn
    <3>2. pc'[a] = "cep" /\ port'[a] = port[a]
      BY <1>1, <1>3, <2>2 DEF Connect, Goto, AppTypeOK
    <3>3. Bound(port[a])
      BY <1>1, <1>3 DEF Connect, At, BoundFlow, Connecting
    <3>4. QED
      BY <3>1, <3>2, <3>3 DEF ConnectionHasFlow, Bound, FlowsOf
  <2>3. QED
    BY <2>1, <2>2
<1>4. conn'.port = conn.port \/ conn'.port = 0 \/ \E a \in Apps : Connect(a)
  <2>1. CASE ReceivePasses
    BY <1>1, <2>1 DEF ReceivePasses, xDtpReceive, ConnTypeOK, EfcpTypeOK
  <2>2. CASE ConnectionEnds
    BY <2>2, NoConnOK DEF ConnectionEnds, ConnectionDestroy
  <2>3. QED
    BY <1>f, <2>1, <2>2 DEF Footprint
<1>5. CASE conn'.port = 0
  BY <1>5 DEF ConnectionHasFlow, Found
<1>6. ASSUME NEW c, c = conn.port, c # 0, Stored(c), \A a \in Apps : ~ Connect(a)
      PROVE  Stored(c)'
  <2>0. Stored(c)
    BY <1>6
  <2>1. ASSUME NEW a \in Apps, UpdateCep(a) PROVE Stored(c)'
    <3>1. SetCep(port[a], pc[a] = "cep") /\ UNCHANGED unbound
      BY <2>1 DEF UpdateCep
    <3>2. CASE pc[a] = "no_cep"
      <4>1. port[a] # c
        BY <1>1, <1>6, <3>2 DEF ConnFresh, Connecting
      <4>2. QED
        BY <1>2, <2>0, <3>1, <4>1
    <3>3. CASE pc[a] = "cep"
      <4>1. CASE port[a] # c
        BY <1>2, <2>0, <3>1, <4>1
      <4>2. CASE port[a] = c
        BY <1>2, <2>0, <3>1, <3>3, <4>2 DEF Bound
      <4>3. QED
        BY <4>1, <4>2
    <3>4. QED
      BY <2>1, <3>2, <3>3 DEF UpdateCep, At
  <2>2. CASE UNCHANGED <<flows, unbound>>
    BY <1>6, <2>0, <2>2 DEF FlowsOf, FirstFlow
  <2>3. CASE c \in unbound
    <3>1. c \in unbound'
      BY <2>3, <2>1, <1>f, <1>6
      DEF Footprint, xNormalFlowPrebind, xFlowAllocatorHandleCreateR, UpdateCep
    <3>2. QED
      BY <3>1
  <2>4. CASE FlowsOf(c) # {} /\ flows[FirstFlow(c)].cep
                /\ (xNormalFlowPrebind \/ xFlowAllocatorHandleCreateR)
    <3>1. FirstFlow(c) \in 1 .. Len(flows)
      BY <1>1, <2>4, FoundFlow
    <3>2. FlowsOf(c)' # {} /\ FirstFlow(c)' = FirstFlow(c)
      BY <2>4, FlowsStay
    <3>3. flows'[FirstFlow(c)].cep
      <4>1. CASE UNCHANGED flows
        BY <2>4, <4>1
      <4>2. CASE xNormalFlowPrebind /\ ~ UNCHANGED flows
        <5> DEFINE f == [port |-> Head(queue).port, allocated |-> FALSE, cep |-> FALSE]
        <5>1. f \in FlowRecords
          BY <1>1, <4>2 DEF xNormalFlowPrebind, Takes, TaskTypeOK, QueueEvents, FlowRecords
        <5>2. flows' = Append(flows, f)
          BY <4>2 DEF xNormalFlowPrebind
        <5>3. \A j \in 1 .. Len(flows) : flows'[j] = flows[j]
          BY <1>1, <5>1, <5>2, FlowAdded
        <5>4. QED
          BY <2>4, <3>1, <5>3
      <4>3. CASE xFlowAllocatorHandleCreateR
        <5>1. PICK q \in Ports : /\ FlowsOf(q) # {}
                                 /\ flows' = [flows EXCEPT ![FirstFlow(q)].allocated = TRUE]
          BY <4>3 DEF xFlowAllocatorHandleCreateR
        <5>2. FirstFlow(q) \in 1 .. Len(flows)
          BY <1>1, <5>1, FoundFlow
        <5>3. \A j \in 1 .. Len(flows) : flows'[j].cep = flows[j].cep
          BY <1>1, <5>1, <5>2 DEF FlowsTypeOK, FlowRecords
        <5>4. QED
          BY <2>4, <3>1, <5>3
      <4>4. QED
        BY <2>4, <4>1, <4>2, <4>3
    <3>4. QED
      BY <3>2, <3>3
  <2>5. QED
    BY <1>f, <1>6, <2>0, <2>1, <2>2, <2>3, <2>4 DEF Footprint
<1>7. ASSUME NEW c, c = conn.port, NEW a \in Apps, pc[a] = "cep", port[a] = c, FlowsOf(c) # {}
      PROVE  \/ Stored(c)'
             \/ FlowsOf(c)' # {} /\ pc'[a] = "cep" /\ port'[a] = c
  <2>1. CASE UpdateCep(a)
    BY <1>2, <1>7, <2>1 DEF UpdateCep, Bound
  <2>2. CASE ~ UpdateCep(a)
    <3>1. FlowsOf(c)' # {}
      BY <1>7, FlowsStay
    <3>2. pc'[a] = pc[a] /\ port'[a] = port[a]
      <4>1. CASE UNCHANGED <<pc, port, row, owned, nextPort>>
        BY <4>1
      <4>2. ASSUME NEW b \in Apps, App(b) PROVE pc'[a] = pc[a] /\ port'[a] = port[a]
        BY <1>1, <1>7, <2>2, <4>2
        DEF App, AppWaits, AppRuns, AppReads, FlowAlloc, FlowAllocFails, BindSend, SendFails,
            WaitBound, NewInstance, FindRow, SetRow, NextHop, FlowMissing, Connect, ConnectFails,
            UpdateCep, TimerSend, Wait, WriteOrClose, ReadBegin, ReadWait, PopBegin, PopEnd, At,
            Goto, AppTypeOK, appVars
      <4>3. QED
        BY <1>f, <4>1, <4>2 DEF Footprint
    <3>3. QED
      BY <1>7, <3>1, <3>2
  <2>3. QED
    BY <2>1, <2>2
<1>8. CASE conn'.port = conn.port /\ conn.port # 0 /\ \A a \in Apps : ~ Connect(a)
  <2>1. \/ Stored(conn.port)
        \/ \E a \in Apps : pc[a] = "cep" /\ port[a] = conn.port /\ FlowsOf(conn.port) # {}
    BY <1>1, <1>8 DEF ConnectionHasFlow, Found
  <2>2. \A c : c = conn.port => c = conn'.port
    BY <1>8
  <2>3. ASSUME NEW c, c = conn.port, Stored(c)' PROVE ConnectionHasFlow'
    <3>1. c = conn'.port
      BY <2>2, <2>3
    <3>2. FlowsOf(conn.port)' = FlowsOf(c)' /\ FirstFlow(conn.port)' = FirstFlow(c)'
      BY <3>1 DEF FlowsOf, FirstFlow
    <3>3. QED
      BY <2>3, <3>1, <3>2, Zenon DEF ConnectionHasFlow
  <2>4. CASE Stored(conn.port)
    BY <1>6, <1>8, <2>3, <2>4
  <2>5. ASSUME NEW a \in Apps, pc[a] = "cep", port[a] = conn.port, FlowsOf(conn.port) # {}
        PROVE  ConnectionHasFlow'
    <3>1. ASSUME NEW c, c = conn.port, FlowsOf(c)' # {}, pc'[a] = "cep", port'[a] = c
          PROVE  ConnectionHasFlow'
      BY <2>2, <3>1 DEF ConnectionHasFlow, FlowsOf
    <3>2. QED
      BY <1>7, <2>3, <2>5, <3>1
  <2>6. QED
    BY <2>1, <2>4, <2>5
<1>9. QED
  BY <1>3, <1>4, <1>5, <1>8

(* A handle is only used without being there after a failure or when a row   *)
(* was overwritten.                                                         *)
LEMMA NullStep == ASSUME IInv, [Next]_vars PROVE NoNullHandle'
<1>1. FlowsTypeOK /\ FaTypeOK /\ AppTypeOK /\ AllocatedFirst /\ NoNullHandle /\ 1 \in Rows
  BY FlowAssumption DEF IInv, TypeOK, Rows
<1>n. failures \in Nat
  BY FlowAssumption DEF IInv, TypeOK, EnvTypeOK
<1>f. Footprint
  BY Footprints
<1>2. failures > 0 => failures' > 0
  <2>1. UNCHANGED failures \/ failures' = failures + 1
    BY EnvFrame DEF EnvStep, MemoryFails
  <2>2. QED
    BY <1>n, <2>1
<1>3. overwrote => overwrote'
  BY <1>f DEF Footprint, faVars, SetRow, xFlowAllocatorHandleCreateR
<1>4. CASE UNCHANGED program
  BY <1>1, <1>2, <1>3, <1>4 DEF NoNullHandle
<1>5. ASSUME NEW a \in Apps, FlowAllocFails(a) PROVE NoNullHandle'
  BY <1>n, <1>5 DEF FlowAllocFails, MemoryFails, NoNullHandle
<1>6. ASSUME NEW a \in Apps, ReadBegin(a), program' = "null_handle", ~ overwrote PROVE FALSE
  <2>1. PICK p \in owned[a] : FlowAllocated(p) /\ ~ pxFAFindInstance(p)
    BY <1>6 DEF ReadBegin, At
  <2>2. FirstFlow(p) \in 1 .. Len(flows) /\ flows[FirstFlow(p)].port = p
    BY <1>1, <2>1, FoundFlow DEF FlowAllocated
  <2>3. table[1] = p
    BY <1>1, <1>6, <2>1, <2>2 DEF FlowAllocated, AllocatedFirst
  <2>4. p # 0
    BY <1>1 DEF AppTypeOK, Ports
  <2>5. QED
    BY <1>1, <2>1, <2>3, <2>4 DEF pxFAFindInstance
<1>7. program' = "null_handle" => \/ UNCHANGED program
                                  \/ \E a \in Apps : FlowAllocFails(a) \/ ReadBegin(a)
  BY <1>f
  DEF Footprint, Stops, At, FlowMissing, Connect, ConnectFails, PopBegin, ReceivePasses
<1>8. QED
  BY <1>3, <1>4, <1>5, <1>6, <1>7 DEF NoNullHandle

LEMMA IInvStep == IInv /\ [Next]_vars => IInv'
BY TypeStep, PortStep, BoundStep, AllocatedStep, HasFlowStep, NullStep, ConnStep DEF IInv

LEMMA IInvHolds == Spec => []IInv
BY InitIInv, IInvStep, PTL DEF Spec

-----------------------------------------------------------------------------
(* The types of RINA_flow_alloc and of what the task does for it; a thread    *)
(* that removes a packet has one, because only the owner of a flow reads it. *)
THEOREM FlowTypes == Spec => []TypeOK
<1>1. IInv => TypeOK
  BY DEF IInv
<1>2. QED
  BY IInvHolds, <1>1, PTL

(* prvConnect: whatever the threads do, the instance PDUs find belongs to a   *)
(* flow that knows its endpoint or whose thread is about to store it, or to a *)
(* binding that had no memory.                                              *)
THEOREM ConnectionsHaveFlows == Spec => []ConnectionHasFlow
<1>1. IInv => ConnectionHasFlow
  BY DEF IInv
<1>2. QED
  BY IInvHolds, <1>1, PTL

(* RINA_flow_read finds the handle of an allocated flow, unless memory ran    *)
(* out or two threads of vFlowAllocatorFlowRequest took the same row.        *)
THEOREM HandlesAreThere == Spec => []NoNullHandle
<1>1. IInv => NoNullHandle
  BY DEF IInv
<1>2. QED
  BY IInvHolds, <1>1, PTL

(* xDtpReceive: the left window edge never passes a PDU that was not posted   *)
(* to the flow, which delivered it or refused it.                           *)
THEOREM WindowsAreComplete == Spec => []WindowComplete
<1>1. IInv => WindowComplete
  BY DEF IInv
<1>2. QED
  BY IInvHolds, <1>1, PTL
=============================================================================
