------------------------- MODULE EnrollmentProofs -------------------------
(***************************************************************************)
(* Machine-checked facts about the RIB daemon and its enrollment processes, *)
(* for every number of ports, processes and table rows.                     *)
(***************************************************************************)
EXTENDS Enrollment, TLAPS, SequenceTheorems, FiniteSetTheorems, WellFoundedInduction

(* A search of a table returns 0 when no row fits, otherwise a row that fits *)
(* (the loops of Ribd_connections.c and xRibFindPendingResponse).           *)
LEMMA FirstRow ==
    ASSUME NEW n \in Nat, NEW S \in SUBSET (1 .. n)
    PROVE  /\ S = {} => First(S) = 0
           /\ S # {} => First(S) \in S
<1>1. CASE S = {}
  BY <1>1 DEF First
<1>2. CASE S # {}
  <2> DEFINE R == OpToRel(<, Nat)
  <2>1. S \subseteq Nat
    OBVIOUS
  <2>2. IsWellFoundedOn(R, Nat)
    BY NatLessThanWellFounded
  <2>3. \A x, y \in Nat : y < x => <<y, x>> \in R
    BY DEF OpToRel
  <2> HIDE DEF R
  <2>4. PICK x \in S : \A y \in S : ~ (<<y, x>> \in R)
    BY <1>2, <2>1, <2>2, WFMin
  <2>5. ASSUME NEW y \in S PROVE x <= y
    <3>1. x \in Nat /\ y \in Nat /\ ~ (<<y, x>> \in R)
      BY <2>1, <2>4
    <3>2. ~ (y < x)
      BY <2>3, <3>1, Zenon
    <3>3. QED
      BY <3>1, <3>2
  <2>6. \E i \in S : \A j \in S : i <= j
    BY <2>5
  <2>7. QED
    BY <1>2, <2>6 DEF First
<1>3. QED
  BY <1>1, <1>2

(* The three searches of the code, and the row each of them returns. *)
LEMMA TableSearch ==
    /\ FreeConnRow \in ConnRows \cup {0}
    /\ FreeConnRow # 0 => xAppConnections[FreeConnRow].xStatus = "RELEASED"
    /\ \A port : LET i == pxRibConnectionFind(port) IN
         /\ i \in ConnRows \cup {0}
         /\ i # 0 => /\ xAppConnections[i].xStatus # "RELEASED"
                     /\ xAppConnections[i].unPort = port
         /\ i = 0 => \A j \in ConnRows : xAppConnections[j].xStatus # "RELEASED"
                                            => xAppConnections[j].unPort # port
    /\ \A id : LET i == xRibFindPendingResponse(id) IN
         /\ i \in ReqRows \cup {0}
         /\ i # 0 => xPendingReqs[i].unInvokeID = id
         /\ i = 0 => \A j \in ReqRows : xPendingReqs[j].unInvokeID # id
<1>1. APP_CONNECTION_TABLE_SIZE \in Nat /\ RESPONSE_HANDLER_TABLE_SIZE \in Nat
  BY RibAssumption
<1>2. \A S \in SUBSET ConnRows : /\ S = {} => First(S) = 0
                                 /\ S # {} => First(S) \in S
  BY <1>1, FirstRow DEF ConnRows
<1>3. \A S \in SUBSET ReqRows : /\ S = {} => First(S) = 0
                                /\ S # {} => First(S) \in S
  BY <1>1, FirstRow DEF ReqRows
<1>4. 0 \notin ConnRows /\ 0 \notin ReqRows
  BY <1>1 DEF ConnRows, ReqRows
<1>5. /\ FreeConnRow \in ConnRows \cup {0}
      /\ FreeConnRow # 0 => xAppConnections[FreeConnRow].xStatus = "RELEASED"
  <2> DEFINE S == {i \in ConnRows : xAppConnections[i].xStatus = "RELEASED"}
  <2>1. S \in SUBSET ConnRows /\ FreeConnRow = First(S)
    BY DEF FreeConnRow
  <2>2. QED
    BY <1>2, <1>4, <2>1
<1>6. ASSUME NEW port
      PROVE  LET i == pxRibConnectionFind(port) IN
               /\ i \in ConnRows \cup {0}
               /\ i # 0 => /\ xAppConnections[i].xStatus # "RELEASED"
                           /\ xAppConnections[i].unPort = port
               /\ i = 0 => \A j \in ConnRows : xAppConnections[j].xStatus # "RELEASED"
                                                  => xAppConnections[j].unPort # port
  <2> DEFINE S == {i \in ConnRows : /\ xAppConnections[i].xStatus # "RELEASED"
                                    /\ xAppConnections[i].unPort = port}
  <2>1. S \in SUBSET ConnRows /\ pxRibConnectionFind(port) = First(S)
    BY DEF pxRibConnectionFind
  <2>2. QED
    BY <1>2, <1>4, <2>1
<1>7. ASSUME NEW id
      PROVE  LET i == xRibFindPendingResponse(id) IN
               /\ i \in ReqRows \cup {0}
               /\ i # 0 => xPendingReqs[i].unInvokeID = id
               /\ i = 0 => \A j \in ReqRows : xPendingReqs[j].unInvokeID # id
  <2> DEFINE S == {i \in ReqRows : xPendingReqs[i].unInvokeID = id}
  <2>1. S \in SUBSET ReqRows /\ xRibFindPendingResponse(id) = First(S)
    BY DEF xRibFindPendingResponse
  <2>2. QED
    BY <1>3, <1>4, <2>1
<1>8. QED
  BY <1>5, <1>6, <1>7

(* Events are taken from the front of the queue and added at its end. *)
LEMMA QueueFacts ==
    ASSUME xNetworkEventQueue \in Seq(Event)
    PROVE  /\ xNetworkEventQueue # <<>> =>
                /\ Msg \in Event
                /\ Tail(xNetworkEventQueue) \in Seq(Event)
           /\ \A e \in Event : Append(xNetworkEventQueue, e) \in Seq(Event)
BY DEF Msg

(* The values invoke ids can have. *)
LEMMA InvokeIds ==
    ASSUME invoke_id \in Nat \ {0}
    PROVE  NextInvokeId \in Nat \ {0} /\ AfterInvokeId \in Nat \ {0}
BY DEF NextInvokeId, AfterInvokeId

LEMMA InitEnrollInv == Init => EnrollInv
<1> SUFFICES ASSUME Init PROVE EnrollInv
  OBVIOUS
<1> USE DEF Init, RibInit
<1>1. TypeOK
  BY RibAssumption DEF TypeOK, RibTypeOK, appConnection, ribPendingReq, ReleasedRow,
     FreeReq, Labels, Stages, TaskLabels
<1>2. OneConnectionPerPort
  BY DEF OneConnectionPerPort, ReleasedRow
<1>3. MutexOwner
  BY RibAssumption DEF MutexOwner
<1>4. TaskInv
  BY DEF TaskInv, FreeReq
<1>5. RowInv /\ StopIsPending
  BY DEF RowInv, StopIsPending
<1>6. QED
  BY <1>1, <1>2, <1>3, <1>4, <1>5 DEF EnrollInv

(* Every step keeps the types: a message taken from the queue is an event,  *)
(* what the searches return is a row, and the counters stay natural numbers. *)
LEMMA TypeStep ==
    ASSUME EnrollInv, [Next]_vars
    PROVE  TypeOK'
<1>0. TypeOK
  BY DEF EnrollInv
<1> USE <1>0 DEF TypeOK, RibTypeOK, TaskLabels, Labels, Stages, procVars
<1>1. ASSUME TaskSendMgmt, UNCHANGED procVars PROVE TypeOK'
  BY <1>1, QueueFacts DEF TaskSendMgmt
<1>2. ASSUME prvRibHandleConnect, UNCHANGED procVars PROVE TypeOK'
  BY <1>2, QueueFacts DEF prvRibHandleConnect, Incoming, Continue, Done
<1>3. ASSUME xRibConnectionAdd, UNCHANGED procVars PROVE TypeOK'
  <2>1. [xStatus |-> "IN_PROGRESS", unPort |-> pxMsg.port] \in appConnection
    BY <1>3 DEF EnrollInv, TaskInv, xRibConnectionAdd, Event, appConnection
  <2>2. xAppConnections' \in [ConnRows -> appConnection]
    BY <1>3, <2>1 DEF xRibConnectionAdd
  <2>3. QED
    BY <1>3, <2>2 DEF xRibConnectionAdd, Done
<1>4. ASSUME xRibConnectionAddFull, UNCHANGED procVars PROVE TypeOK'
  BY <1>4 DEF xRibConnectionAddFull, Done
<1>5. ASSUME prvRibHandleConnectReply, UNCHANGED procVars PROVE TypeOK'
  <2>1. \A r \in appConnection : [r EXCEPT !.xStatus = "OK"] \in appConnection
    BY DEF appConnection
  <2>2. xAppConnections' \in [ConnRows -> appConnection]
    BY <1>5, <2>1, TableSearch DEF prvRibHandleConnectReply, pxAppCon
  <2>3. QED
    BY <1>5, <2>2, QueueFacts DEF prvRibHandleConnectReply, Incoming, Done
<1>6. ASSUME prvRibHandleRelease, UNCHANGED procVars PROVE TypeOK'
  <2>1. ReleasedRow \in appConnection
    BY DEF ReleasedRow, appConnection
  <2>2. xAppConnections' \in [ConnRows -> appConnection]
    BY <1>6, <2>1 DEF prvRibHandleRelease
  <2>3. QED
    BY <1>6, <2>2, QueueFacts DEF prvRibHandleRelease, Incoming, Continue, Done
<1>7. ASSUME TaskRefuses, UNCHANGED procVars PROVE TypeOK'
  BY <1>7, QueueFacts DEF TaskRefuses, Incoming, Done
<1>8. ASSUME prvEnrollmentHandleOperationalStart, UNCHANGED procVars PROVE TypeOK'
  BY <1>8, QueueFacts DEF prvEnrollmentHandleOperationalStart, Incoming, Continue, Done
<1>9. ASSUME prvRibHandleAnyReply, UNCHANGED procVars PROVE TypeOK'
  <2>1. Msg \in Event /\ Tail(xNetworkEventQueue) \in Seq(Event)
    BY <1>9, QueueFacts DEF prvRibHandleAnyReply, Incoming
  <2>2. answered' \subseteq Nat
    BY <1>9, <2>1 DEF prvRibHandleAnyReply, Event
  <2>3. QED
    BY <1>9, <2>1, <2>2 DEF prvRibHandleAnyReply, Incoming, Continue
<1>10. ASSUME TaskFindPending, UNCHANGED procVars PROVE TypeOK'
  BY <1>10, TableSearch DEF TaskFindPending, Done
<1>10a. ASSUME TaskFindMethod, UNCHANGED procVars PROVE TypeOK'
  BY <1>10a DEF TaskFindMethod, Done
<1>11. ASSUME TaskDeliver, UNCHANGED procVars PROVE TypeOK'
  <2>1. \A r \in ribPendingReq : [r EXCEPT !.pxResp = TRUE] \in ribPendingReq
    BY DEF ribPendingReq
  <2>2. xPendingReqs' \in [ReqRows -> ribPendingReq]
    BY <1>11, <2>1 DEF TaskDeliver
  <2>3. QED
    BY <1>11, <2>2 DEF TaskDeliver
<1>12. ASSUME TaskSignal, UNCHANGED procVars PROVE TypeOK'
  <2>1. xWaitCond' \in [ReqRows -> SUBSET Procs]
    <3>1. CASE xWaitCond[pxTaskReq] = {}
      BY <1>12, <3>1 DEF TaskSignal
    <3>2. CASE xWaitCond[pxTaskReq] # {}
      <4>1. PICK p \in xWaitCond[pxTaskReq] :
              xWaitCond' = [xWaitCond EXCEPT ![pxTaskReq] = xWaitCond[pxTaskReq] \ {p}]
        BY <1>12, <3>2 DEF TaskSignal
      <4>2. \A w \in SUBSET Procs : w \ {p} \in SUBSET Procs
        OBVIOUS
      <4>3. QED
        BY <4>1, <4>2
    <3>3. QED
      BY <3>1, <3>2
  <2>2. QED
    BY <1>12, <2>1 DEF TaskSignal, Done
<1>13. ASSUME TaskLock, UNCHANGED procVars PROVE TypeOK'
  BY <1>13 DEF TaskLock
<1>14. ASSUME TaskOutput, UNCHANGED procVars PROVE TypeOK'
  <2>1. MgmtEvent(ReplyOp[pxMsg.op], pxMsg.port, pxMsg.id) \in Event
    BY <1>14 DEF EnrollInv, TaskInv, TaskOutput, ReplyOp, OwnOps, Event, MgmtEvent
  <2>2. QED
    BY <1>14, <2>1, QueueFacts DEF TaskOutput, Done
<1>15. ASSUME TaskOutputFails, UNCHANGED procVars PROVE TypeOK'
  BY <1>15 DEF TaskOutputFails, Done
<1>16. ASSUME prvEnrollmentObjectStart PROVE TypeOK'
  <2>1. Msg \in Event /\ Tail(xNetworkEventQueue) \in Seq(Event)
    BY <1>16, QueueFacts DEF prvEnrollmentObjectStart, Incoming
  <2>2. RibTypeOK'
    BY <1>16, <2>1 DEF prvEnrollmentObjectStart, Incoming, Continue, Done
  <2>3. CASE pxAppCon = 0
    BY <1>16, <2>2, <2>3 DEF prvEnrollmentObjectStart
  <2>4. CASE pxAppCon # 0
    <3>1. pvPriv' \in [unPort : Ports \cup {0}, unStartInvokeId : Nat]
      BY <1>16, <2>1, <2>4, TableSearch
      DEF prvEnrollmentObjectStart, Event, appConnection, pxAppCon
    <3>2. /\ pc' \in [Procs -> Labels] /\ stage' \in [Procs -> Stages]
      <4>2. CASE \E p \in Procs : pc[p] = "unused"
        <5>1. PICK p \in Procs : GotoStage(p, "start")
          BY <1>16, <2>4, <4>2 DEF prvEnrollmentObjectStart
        <5>2. QED
          BY <5>1 DEF GotoStage, Goto
      <4>3. CASE ~ \E p \in Procs : pc[p] = "unused"
        BY <1>16, <2>4, <4>3 DEF prvEnrollmentObjectStart
      <4>4. QED
        BY <4>2, <4>3
    <3>3. QED
      BY <1>16, <2>2, <2>4, <3>1, <3>2 DEF prvEnrollmentObjectStart
  <2>5. QED
    BY <2>3, <2>4
<1>17. ASSUME NEW m \in PeerMessages, PeerSend(m), UNCHANGED procVars PROVE TypeOK'
  <2>1. RxEvent(m) \in Event
    BY RibAssumption DEF RxEvent, Event, Message
  <2>2. QED
    BY <1>17, <2>1, QueueFacts DEF PeerSend
<1>18. ASSUME NEW p \in Procs, ReadArguments(p) PROVE TypeOK'
  BY <1>18 DEF ReadArguments, Goto, GotoStage, ribVars
<1>19. ASSUME NEW p \in Procs, xRibObjectReply(p) PROVE TypeOK'
  BY <1>19 DEF xRibObjectReply, Goto
<1>20. ASSUME NEW p \in Procs, QueryCommand(p) PROVE TypeOK'
  BY <1>20, InvokeIds DEF QueryCommand, Goto
<1>21. ASSUME NEW p \in Procs, QuerySync(p) PROVE TypeOK'
  <2>1. [FreeReq EXCEPT !.unInvokeID = NextInvokeId] \in ribPendingReq
    BY InvokeIds DEF FreeReq, ribPendingReq
  <2>2. xPendingReqs' \in [ReqRows -> ribPendingReq]
    BY <1>21, <2>1 DEF QuerySync
  <2>3. QED
    BY <1>21, <2>2, InvokeIds DEF QuerySync, Goto
<1>22. ASSUME NEW p \in Procs, prvRibNormalOutgoing(p) PROVE TypeOK'
  <2>1. StageOp[stage[p]] \in OwnOps
    BY DEF StageOp, OwnOps
  <2>2. MgmtEvent(StageOp[stage[p]], unPort[p], unInvokeId[p]) \in Event
    BY <2>1 DEF Event, MgmtEvent
  <2>3. pc' \in [Procs -> Labels] /\ stage' \in [Procs -> Stages]
    BY <1>22 DEF prvRibNormalOutgoing, GotoStage, Goto
  <2>4. QED
    BY <1>22, <2>2, <2>3, QueueFacts DEF prvRibNormalOutgoing
<1>23. ASSUME NEW p \in Procs, OutgoingFails(p) PROVE TypeOK'
  BY <1>23 DEF OutgoingFails, Goto
<1>24. ASSUME NEW p \in Procs, WaitFind(p) PROVE TypeOK'
  BY <1>24, TableSearch DEF WaitFind, Goto, ribVars
<1>25. ASSUME NEW p \in Procs, WaitCheck(p) PROVE TypeOK'
  BY <1>25 DEF WaitCheck, Goto, GotoStage, ribVars
<1>26. ASSUME NEW p \in Procs, WaitEnter(p) PROVE TypeOK'
  <2>1. \A w \in SUBSET Procs : w \cup {p} \in SUBSET Procs
    OBVIOUS
  <2>2. xWaitCond' \in [ReqRows -> SUBSET Procs]
    BY <1>26, <2>1 DEF WaitEnter
  <2>3. QED
    BY <1>26, <2>2 DEF WaitEnter, Goto
<1>27. ASSUME NEW p \in Procs, WaitTimeout(p) PROVE TypeOK'
  <2>1. \A w \in SUBSET Procs : w \ {p} \in SUBSET Procs
    OBVIOUS
  <2>2. xWaitCond' \in [ReqRows -> SUBSET Procs]
    BY <1>27, <2>1 DEF WaitTimeout
  <2>3. \A r \in ribPendingReq : [r EXCEPT !.xMutex = p] \in ribPendingReq
    BY DEF ribPendingReq
  <2>4. xPendingReqs' \in [ReqRows -> ribPendingReq]
    BY <1>27, <2>3 DEF WaitTimeout
  <2>5. QED
    BY <1>27, <2>2, <2>4 DEF WaitTimeout, Goto
<1>28. ASSUME NEW p \in Procs, SpuriousWakeup(p) PROVE TypeOK'
  <2>1. \A w \in SUBSET Procs : w \ {p} \in SUBSET Procs
    OBVIOUS
  <2>2. xWaitCond' \in [ReqRows -> SUBSET Procs]
    BY <1>28, <2>1 DEF SpuriousWakeup
  <2>3. QED
    BY <1>28, <2>2 DEF SpuriousWakeup
<1>29. ASSUME NEW p \in Procs, WaitReturn(p) PROVE TypeOK'
  BY <1>29 DEF WaitReturn, Goto, GotoStage, ribVars
<1>30. ASSUME UNCHANGED vars PROVE TypeOK'
  BY <1>30 DEF vars, ribVars
<1>31. QED
  BY <1>1, <1>2, <1>3, <1>4, <1>5, <1>6, <1>7, <1>8, <1>9, <1>10, <1>10a, <1>11, <1>12, <1>13,
     <1>14, <1>15, <1>16, <1>17, <1>18, <1>19, <1>20, <1>21, <1>22, <1>23, <1>24, <1>25, <1>26, <1>27, <1>28, <1>29, <1>30
  DEF Next, TaskRun, TaskRuns, ProcRuns, Fault, Peer
-----------------------------------------------------------------------------
(* The connection table only changes in three places, and a row is added for *)
(* a port without one (Ribd_connections.c, Ribd.c:363 to 371).               *)
LEMMA ConnectionStep ==
    ASSUME EnrollInv, [Next]_vars
    PROVE  OneConnectionPerPort'
<1>0. TypeOK /\ OneConnectionPerPort
  BY DEF EnrollInv
<1> USE <1>0 DEF TypeOK, RibTypeOK
<1>1. ASSUME UNCHANGED xAppConnections PROVE OneConnectionPerPort'
  BY <1>1 DEF OneConnectionPerPort
<1>2. ASSUME xRibConnectionAdd PROVE OneConnectionPerPort'
  <2>1. FreeConnRow \in ConnRows
    BY <1>2, TableSearch DEF xRibConnectionAdd
  <2>2. \A i \in ConnRows : xAppConnections[i].xStatus # "RELEASED" =>
                               xAppConnections[i].unPort # pxMsg.port
    BY <1>2 DEF EnrollInv, TaskInv, xRibConnectionAdd
  <2>3. xAppConnections' = [xAppConnections EXCEPT ![FreeConnRow] =
                               [xStatus |-> "IN_PROGRESS", unPort |-> pxMsg.port]]
    BY <1>2 DEF xRibConnectionAdd
  <2>4. QED
    BY <2>1, <2>2, <2>3 DEF OneConnectionPerPort
<1>3. ASSUME NEW i \in ConnRows, NEW r, r.xStatus = "RELEASED" \/ r.unPort = xAppConnections[i].unPort,
             xAppConnections[i].xStatus # "RELEASED",
             xAppConnections' = [xAppConnections EXCEPT ![i] = r]
      PROVE  OneConnectionPerPort'
  BY <1>3 DEF OneConnectionPerPort
<1>4. ASSUME prvRibHandleConnectReply PROVE OneConnectionPerPort'
  <2>1. CASE UNCHANGED xAppConnections
    BY <1>1, <2>1
  <2>2. CASE xAppConnections' # xAppConnections
    <3>1. /\ pxAppCon \in ConnRows
          /\ xAppConnections[pxAppCon].xStatus # "RELEASED"
          /\ xAppConnections' = [xAppConnections EXCEPT ![pxAppCon].xStatus = "OK"]
      BY <1>4, <2>2, TableSearch DEF prvRibHandleConnectReply, pxAppCon
    <3>2. [xAppConnections[pxAppCon] EXCEPT !.xStatus = "OK"].unPort = xAppConnections[pxAppCon].unPort
      BY <3>1 DEF appConnection
    <3>3. QED
      BY <1>3, <3>1, <3>2
  <2>3. QED
    BY <2>1, <2>2
<1>5. ASSUME prvRibHandleRelease PROVE OneConnectionPerPort'
  <2>1. CASE UNCHANGED xAppConnections
    BY <1>1, <2>1
  <2>2. CASE xAppConnections' # xAppConnections
    <3>1. /\ pxAppCon \in ConnRows
          /\ xAppConnections[pxAppCon].xStatus # "RELEASED"
          /\ xAppConnections' = [xAppConnections EXCEPT ![pxAppCon] = ReleasedRow]
      BY <1>5, <2>2, TableSearch DEF prvRibHandleRelease, pxAppCon
    <3>2. QED
      BY <1>3, <3>1 DEF ReleasedRow
  <2>3. QED
    BY <2>1, <2>2
<1>6. ASSUME TaskRuns, ~ xRibConnectionAdd, ~ prvRibHandleConnectReply, ~ prvRibHandleRelease
      PROVE  UNCHANGED xAppConnections
  BY <1>6 DEF TaskRuns, TaskSendMgmt, prvRibHandleConnect, xRibConnectionAddFull,
     TaskRefuses,
     prvEnrollmentHandleOperationalStart, prvRibHandleAnyReply, TaskFindPending,
     TaskFindMethod, TaskDeliver,
     TaskSignal, TaskLock, TaskOutput
<1>7. ASSUME NEW p \in Procs, ProcRuns(p) PROVE UNCHANGED xAppConnections
  BY <1>7 DEF ProcRuns, ReadArguments, xRibObjectReply, QueryCommand, QuerySync,
     prvRibNormalOutgoing,
     WaitFind, WaitCheck, WaitEnter, WaitTimeout, WaitReturn, ribVars
<1>8. ASSUME prvEnrollmentObjectStart \/ Fault \/ Peer \/ UNCHANGED vars PROVE UNCHANGED xAppConnections
  BY <1>8 DEF prvEnrollmentObjectStart, Fault, Peer, PeerSend, TaskOutputFails,
     OutgoingFails,
     SpuriousWakeup, vars, ribVars
<1>9. QED
  BY <1>1, <1>2, <1>4, <1>5, <1>6, <1>7, <1>8 DEF Next, TaskRun

(* The mutex is taken only when it is free, and given back by its owner.     *)
LEMMA MutexStep ==
    ASSUME EnrollInv, [Next]_vars
    PROVE  MutexOwner'
<1>0. TypeOK /\ MutexOwner
  BY DEF EnrollInv
<1> USE <1>0 DEF TypeOK
<1>1. ASSUME UNCHANGED <<xMutex, pc>> PROVE MutexOwner'
  BY <1>1 DEF MutexOwner
<1>2. ASSUME UNCHANGED pc, xMutex \in {Task, None}, xMutex' \in {Task, None} PROVE MutexOwner'
  BY <1>2, RibAssumption DEF MutexOwner
<1>3. ASSUME NEW p \in Procs, NEW label \in Labels \ {"output"}, UNCHANGED xMutex, pc[p] # "output", Goto(p, label)
      PROVE  MutexOwner'
  BY <1>3 DEF MutexOwner, Goto
<1>4. ASSUME NEW p \in Procs, xMutex = None, xMutex' = p, Goto(p, "output") PROVE MutexOwner'
  BY <1>4, RibAssumption DEF MutexOwner, Goto
<1>5. ASSUME NEW p \in Procs, NEW label \in Labels \ {"output"}, pc[p] = "output", xMutex' = None, Goto(p, label)
      PROVE  MutexOwner'
  BY <1>5, RibAssumption DEF MutexOwner, Goto
<1>6. ASSUME TaskRuns, UNCHANGED procVars PROVE MutexOwner'
  <2>1. CASE xRibConnectionAddFull \/ TaskLock
    BY <1>2, <1>6, <2>1 DEF xRibConnectionAddFull, TaskLock, procVars
  <2>2. CASE TaskOutput
    BY <1>2, <1>6, <2>2 DEF TaskOutput, procVars, EnrollInv, TaskInv
  <2>3. CASE ~ (xRibConnectionAddFull \/ TaskLock \/ TaskOutput)
    BY <1>1, <1>6, <2>3 DEF TaskRuns, TaskSendMgmt, prvRibHandleConnect,
       xRibConnectionAdd,
       prvRibHandleConnectReply, prvRibHandleRelease, TaskRefuses,
       prvEnrollmentHandleOperationalStart, prvRibHandleAnyReply, TaskFindPending,
       TaskFindMethod, TaskDeliver,
       TaskSignal, procVars
  <2>4. QED
    BY <2>1, <2>2, <2>3
<1>7. ASSUME prvEnrollmentObjectStart PROVE MutexOwner'
  <2>1. CASE UNCHANGED pc
    BY <1>1, <1>7, <2>1 DEF prvEnrollmentObjectStart
  <2>2. CASE ~ UNCHANGED pc
    <3>1. PICK p \in Procs : pc[p] = "unused" /\ GotoStage(p, "start")
      BY <1>7, <2>2 DEF prvEnrollmentObjectStart, procVars
    <3>2. QED
      BY <1>3, <1>7, <3>1 DEF prvEnrollmentObjectStart, GotoStage, Labels
  <2>3. QED
    BY <2>1, <2>2
<1>8. ASSUME NEW p \in Procs, ProcRuns(p) PROVE MutexOwner'
  <2> USE DEF Labels
  <2>1. CASE ReadArguments(p)
    BY <1>3, <2>1 DEF ReadArguments, ribVars
  <2>2. CASE xRibObjectReply(p) \/ QueryCommand(p)
    BY <1>4, <2>2 DEF xRibObjectReply, QueryCommand
  <2>3. CASE QuerySync(p)
    BY <1>3, <1>4, <2>3 DEF QuerySync
  <2>4. CASE prvRibNormalOutgoing(p)
    <3>1. PICK label \in Labels \ {"output"} : Goto(p, label)
      BY <2>4 DEF prvRibNormalOutgoing, GotoStage, Stages
    <3>2. QED
      BY <1>5, <2>4, <3>1 DEF prvRibNormalOutgoing
  <2>5. CASE WaitFind(p)
    BY <1>3, <2>5 DEF WaitFind, ribVars
  <2>6. CASE WaitCheck(p)
    BY <1>3, <2>6 DEF WaitCheck, GotoStage, ribVars
  <2>7. CASE WaitEnter(p)
    BY <1>3, <2>7 DEF WaitEnter
  <2>8. CASE WaitTimeout(p)
    BY <1>3, <2>8 DEF WaitTimeout, Asleep
  <2>9. CASE WaitReturn(p)
    BY <1>3, <2>9 DEF WaitReturn, GotoStage, ribVars
  <2>10. QED
    BY <1>8, <2>1, <2>2, <2>3, <2>4, <2>5, <2>6, <2>7, <2>8, <2>9 DEF ProcRuns
<1>9. ASSUME Fault PROVE MutexOwner'
  <2>1. CASE TaskOutputFails /\ UNCHANGED procVars
    BY <1>2, <2>1 DEF TaskOutputFails, procVars, EnrollInv, TaskInv
  <2>2. CASE \E p \in Procs : OutgoingFails(p)
    BY <1>5, <2>2 DEF OutgoingFails, Labels
  <2>3. CASE \E p \in Procs : SpuriousWakeup(p)
    BY <1>1, <2>3 DEF SpuriousWakeup, procVars
  <2>4. QED
    BY <1>9, <2>1, <2>2, <2>3 DEF Fault
<1>10. ASSUME Peer \/ UNCHANGED vars PROVE MutexOwner'
  BY <1>1, <1>10 DEF Peer, PeerSend, procVars, vars, ribVars
<1>11. QED
  BY <1>6, <1>7, <1>8, <1>9, <1>10 DEF Next, TaskRun
-----------------------------------------------------------------------------
(* A pending row keeps its invoke id, and its reply once there is one; a     *)
(* reply is only delivered for an id that was answered, or after a reply     *)
(* without one.                                                             *)
LEMMA RowsKept ==
    ASSUME EnrollInv, [Next]_vars
    PROVE  \A i \in ReqRows :
             /\ xPendingReqs[i].unInvokeID # 0 =>
                  /\ xPendingReqs'[i].unInvokeID = xPendingReqs[i].unInvokeID
                  /\ xPendingReqs[i].pxResp => xPendingReqs'[i].pxResp
             /\ xPendingReqs'[i].pxResp =>
                  \/ xPendingReqs[i].pxResp /\ xPendingReqs'[i].unInvokeID = xPendingReqs[i].unInvokeID
                  \/ xPendingReqs'[i].unInvokeID \in answered \/ 0 \in answered
<1> DEFINE Kept == \A i \in ReqRows :
             /\ xPendingReqs[i].unInvokeID # 0 =>
                  /\ xPendingReqs'[i].unInvokeID = xPendingReqs[i].unInvokeID
                  /\ xPendingReqs[i].pxResp => xPendingReqs'[i].pxResp
             /\ xPendingReqs'[i].pxResp =>
                  \/ xPendingReqs[i].pxResp /\ xPendingReqs'[i].unInvokeID = xPendingReqs[i].unInvokeID
                  \/ xPendingReqs'[i].unInvokeID \in answered \/ 0 \in answered
<1>0. TypeOK
  BY DEF EnrollInv
<1> USE <1>0 DEF TypeOK, RibTypeOK
<1>1. ASSUME UNCHANGED xPendingReqs PROVE Kept
  BY <1>1
<1>2. ASSUME TaskDeliver PROVE Kept
  <2>1. /\ pxTaskReq \in ReqRows
        /\ xPendingReqs[pxTaskReq].unInvokeID \in answered \/ 0 \in answered
    BY <1>2 DEF EnrollInv, TaskInv, TaskDeliver, AnsweredRow
  <2>2. \A r \in ribPendingReq :
          /\ [r EXCEPT !.pxResp = TRUE].unInvokeID = r.unInvokeID
          /\ [r EXCEPT !.pxResp = TRUE].pxResp
    BY DEF ribPendingReq
  <2>3. xPendingReqs' = [xPendingReqs EXCEPT ![pxTaskReq] = [xPendingReqs[pxTaskReq] EXCEPT !.pxResp = TRUE]]
    BY <1>2 DEF TaskDeliver
  <2>4. QED
    BY <2>1, <2>2, <2>3
<1>3. ASSUME NEW p \in Procs, QuerySync(p) PROVE Kept
  <2>1. CASE UNCHANGED xPendingReqs
    BY <1>1, <2>1
  <2>2. CASE xPendingReqs' # xPendingReqs
    <3>1. /\ FreeReqRow \in ReqRows /\ xPendingReqs[FreeReqRow].unInvokeID = 0
          /\ xPendingReqs' = [xPendingReqs EXCEPT ![FreeReqRow] = [FreeReq EXCEPT !.unInvokeID = NextInvokeId]]
      BY <1>3, <2>2, TableSearch DEF QuerySync, FreeReqRow
    <3>2. [FreeReq EXCEPT !.unInvokeID = NextInvokeId].pxResp = FALSE
      BY DEF FreeReq
    <3>3. QED
      BY <3>1, <3>2
  <2>3. QED
    BY <2>1, <2>2
<1>4. ASSUME NEW p \in Procs, WaitTimeout(p) PROVE Kept
  <2>1. \A r \in ribPendingReq :
          /\ [r EXCEPT !.xMutex = p].unInvokeID = r.unInvokeID
          /\ [r EXCEPT !.xMutex = p].pxResp = r.pxResp
    BY DEF ribPendingReq
  <2>2. xPendingReqs' = [xPendingReqs EXCEPT ![pxPendingReq[p]] = [xPendingReqs[pxPendingReq[p]] EXCEPT !.xMutex = p]]
    BY <1>4 DEF WaitTimeout
  <2>3. QED
    BY <2>1, <2>2
<1>5. ASSUME TaskRuns, ~ TaskDeliver PROVE UNCHANGED xPendingReqs
  BY <1>5 DEF TaskRuns, TaskSendMgmt, prvRibHandleConnect, xRibConnectionAdd,
     xRibConnectionAddFull,
     prvRibHandleConnectReply, prvRibHandleRelease, TaskRefuses,
     prvEnrollmentHandleOperationalStart, prvRibHandleAnyReply, TaskFindPending,
     TaskFindMethod, TaskSignal,
     TaskLock, TaskOutput
<1>6. ASSUME NEW p \in Procs, ProcRuns(p), ~ QuerySync(p), ~ WaitTimeout(p) PROVE UNCHANGED xPendingReqs
  BY <1>6 DEF ProcRuns, ReadArguments, xRibObjectReply, QueryCommand,
     prvRibNormalOutgoing,
     WaitFind, WaitCheck, WaitEnter, WaitReturn, ribVars
<1>7. ASSUME prvEnrollmentObjectStart \/ Fault \/ Peer \/ UNCHANGED vars PROVE UNCHANGED xPendingReqs
  BY <1>7 DEF prvEnrollmentObjectStart, Fault, Peer, PeerSend, TaskOutputFails,
     OutgoingFails,
     SpuriousWakeup, vars, ribVars
<1>8. Kept
  BY <1>1, <1>2, <1>3, <1>4, <1>5, <1>6, <1>7 DEF Next, TaskRun
<1>9. QED
  BY <1>8
-----------------------------------------------------------------------------
(* The IPCP task's knowledge of its message survives the steps of the other  *)
(* threads: nobody else writes the connection table, a row it found keeps    *)
(* its id although it is used without the mutex, and only the owner of the   *)
(* mutex gives it back.                                                     *)
LEMMA TaskStep ==
    ASSUME EnrollInv, [Next]_vars
    PROVE  TaskInv'
<1> DEFINE Rows == \A i \in ReqRows : xPendingReqs[i].pxResp => AnsweredRow(i)
<1>0. TypeOK /\ TaskInv /\ Rows
  BY DEF EnrollInv, TaskInv
<1> USE <1>0 DEF TypeOK, RibTypeOK
<1>1. answered \subseteq answered'
  BY DEF Next, TaskRun, TaskRuns, TaskSendMgmt, prvRibHandleConnect, xRibConnectionAdd,
     xRibConnectionAddFull, prvRibHandleConnectReply, prvRibHandleRelease, TaskRefuses,
     prvEnrollmentHandleOperationalStart, prvRibHandleAnyReply, TaskFindPending,
     TaskFindMethod, TaskDeliver,
     TaskSignal, TaskLock, TaskOutput, prvEnrollmentObjectStart, ProcRuns, ReadArguments,
     xRibObjectReply, QueryCommand, QuerySync, prvRibNormalOutgoing, WaitFind, WaitCheck,
     WaitEnter, WaitTimeout, WaitReturn, Fault, TaskOutputFails, OutgoingFails,
     SpuriousWakeup,
     Peer, PeerSend, ribVars, vars
<1>a. \A i \in ReqRows : AnsweredRow(i) => AnsweredRow(i)'
  BY <1>1, RowsKept DEF AnsweredRow
<1>2. Rows'
  BY <1>0, <1>1, <1>a, RowsKept DEF AnsweredRow
<1> HIDE DEF Rows
<1>3. ASSUME pcTask' \in {"loop", "crashed"}, pcTask' = "crashed" => pxMsg' \in Event PROVE TaskInv'
  BY <1>2, <1>3 DEF TaskInv, Rows
<1>4. ASSUME UNCHANGED <<pcTask, pxMsg, pxTaskReq, xAppConnections>>, xMutex = Task => xMutex' = Task
      PROVE  TaskInv'
  <2>1. /\ pcTask = "object" => (pxMsg.op = "M_STOP_R" => AnsweredRow(pxTaskReq)')
        /\ pcTask \in {"deliver", "signal"} => AnsweredRow(pxTaskReq)'
    BY <1>a, <1>4 DEF TaskInv
  <2>2. QED
    BY <1>1, <1>2, <1>4, <2>1 DEF TaskInv, Rows
<1>5. ASSUME pcTask' = "lock", pxMsg' \in Event, pxMsg'.op \in DOMAIN ReplyOp PROVE TaskInv'
  BY <1>2, <1>5 DEF TaskInv, Rows
<1>6. ASSUME TaskSendMgmt \/ prvRibHandleConnectReply \/ TaskRefuses \/ TaskOutput
             \/ TaskOutputFails \/ xRibConnectionAddFull \/ TaskSignal
      PROVE  TaskInv'
  BY <1>3, <1>6 DEF TaskSendMgmt, prvRibHandleConnectReply, TaskRefuses, TaskOutput,
     TaskOutputFails, xRibConnectionAddFull, TaskSignal, Done
<1>7. ASSUME \E ops : Incoming(ops) PROVE Msg \in Event
  BY <1>7, QueueFacts DEF Incoming
<1>8. ASSUME prvEnrollmentObjectStart PROVE TaskInv'
  BY <1>3, <1>7, <1>8 DEF prvEnrollmentObjectStart, Continue, Done
<1>9. ASSUME prvRibHandleConnect PROVE TaskInv'
  <2>1. CASE pxAppCon = 0
    <3>1. \A j \in ConnRows : xAppConnections[j].xStatus # "RELEASED" => xAppConnections[j].unPort # Msg.port
      BY <2>1, TableSearch DEF pxAppCon
    <3>2. Msg \in Event /\ Msg.op \in DOMAIN ReplyOp
      BY <1>7, <1>9 DEF prvRibHandleConnect, Incoming, Msg, ReplyOp
    <3>3. QED
      BY <1>2, <1>9, <2>1, <3>1, <3>2 DEF prvRibHandleConnect, Continue, TaskInv, Rows
  <2>2. CASE pxAppCon # 0
    BY <1>3, <1>9, <2>2 DEF prvRibHandleConnect, Done
  <2>3. QED
    BY <2>1, <2>2
<1>10. ASSUME xRibConnectionAdd PROVE TaskInv'
  <2>1. CASE pcTask' = "loop"
    BY <1>3, <2>1
  <2>2. CASE pcTask' # "loop"
    BY <1>5, <1>10, <2>2 DEF xRibConnectionAdd, Done, TaskInv
  <2>3. QED
    BY <2>1, <2>2
<1>11. ASSUME prvRibHandleRelease PROVE TaskInv'
  <2>1. Msg \in Event /\ Msg.op \in DOMAIN ReplyOp
    BY <1>7, <1>11 DEF prvRibHandleRelease, Incoming, Msg, ReplyOp
  <2>2. QED
    BY <1>3, <1>5, <1>11, <2>1 DEF prvRibHandleRelease, Continue, Done
<1>12. ASSUME prvEnrollmentHandleOperationalStart PROVE TaskInv'
  <2>1. Msg \in Event /\ Msg.op \in DOMAIN ReplyOp
    BY <1>7, <1>12 DEF prvEnrollmentHandleOperationalStart, Incoming, Msg, ReplyOp
  <2>2. QED
    BY <1>3, <1>5, <1>12, <2>1 DEF prvEnrollmentHandleOperationalStart, Continue, Done
<1>13. ASSUME prvRibHandleAnyReply PROVE TaskInv'
  <2>1. Msg \in Event
    BY <1>7, <1>13 DEF prvRibHandleAnyReply
  <2>2. Msg.op = "M_STOP_R" => Msg.id \in answered'
    BY <1>13 DEF prvRibHandleAnyReply
  <2>3. QED
    BY <1>2, <1>13, <2>1, <2>2 DEF prvRibHandleAnyReply, Continue, TaskInv, Rows
<1>14. ASSUME TaskFindPending PROVE TaskInv'
  <2>1. CASE pcTask' = "loop"
    BY <1>3, <2>1
  <2>2. CASE pcTask' # "loop"
    <3>1. /\ pxTaskReq' = xRibFindPendingResponse(pxMsg.id) /\ pxTaskReq' # 0
          /\ pcTask' = "object" /\ pcTask = "find"
          /\ UNCHANGED <<pxMsg, xPendingReqs, answered>>
      BY <1>14, <2>2 DEF TaskFindPending, Done
    <3>2. pxTaskReq' \in ReqRows /\ xPendingReqs[pxTaskReq'].unInvokeID = pxMsg.id
      BY <3>1, TableSearch
    <3>3. pxMsg.op = "M_STOP_R" => AnsweredRow(pxTaskReq)'
      BY <3>1, <3>2 DEF TaskInv, AnsweredRow
    <3>4. QED
      BY <1>2, <3>1, <3>2, <3>3 DEF TaskInv, Rows
  <2>3. QED
    BY <2>1, <2>2
<1>15a. ASSUME TaskFindMethod PROVE TaskInv'
  <2>1. pcTask = "object" /\ pxMsg \in Event /\ pxTaskReq \in ReqRows
    BY <1>15a DEF TaskFindMethod, TaskInv
  <2>2. CASE pcTask' \in {"loop", "crashed"}
    BY <1>3, <1>15a, <2>1, <2>2 DEF TaskFindMethod, Done
  <2>3. CASE pcTask' \notin {"loop", "crashed"}
    <3>1. /\ pcTask' = "deliver" /\ pxMsg.op = "M_STOP_R"
          /\ UNCHANGED <<pxMsg, pxTaskReq, xPendingReqs, answered>>
      BY <1>15a, <2>3 DEF TaskFindMethod, Done
    <3>2. AnsweredRow(pxTaskReq)'
      BY <1>a, <2>1, <3>1 DEF TaskInv
    <3>3. QED
      BY <1>2, <2>1, <3>1, <3>2 DEF TaskInv, Rows
  <2>4. QED
    BY <2>2, <2>3
<1>15. ASSUME TaskDeliver PROVE TaskInv'
  <2>1. AnsweredRow(pxTaskReq)'
    BY <1>a, <1>15 DEF TaskDeliver, TaskInv
  <2>2. QED
    BY <1>2, <1>15, <2>1 DEF TaskDeliver, TaskInv, Rows
<1>16. ASSUME TaskLock PROVE TaskInv'
  BY <1>2, <1>16 DEF TaskLock, TaskInv, Rows
<1>17. ASSUME NEW p \in Procs, ProcRuns(p) PROVE TaskInv'
  <2>1. xMutex = Task => xMutex' = Task
    BY <1>17, RibAssumption DEF ProcRuns, ReadArguments, xRibObjectReply, QueryCommand,
       QuerySync,
       prvRibNormalOutgoing, WaitFind, WaitCheck, WaitEnter, WaitTimeout, WaitReturn,
       ribVars,
       EnrollInv, MutexOwner
  <2>2. UNCHANGED <<pcTask, pxMsg, pxTaskReq, xAppConnections>>
    BY <1>17 DEF ProcRuns, ReadArguments, xRibObjectReply, QueryCommand, QuerySync,
       prvRibNormalOutgoing, WaitFind, WaitCheck, WaitEnter, WaitTimeout, WaitReturn,
       ribVars
  <2>3. QED
    BY <1>4, <2>1, <2>2
<1>18. ASSUME (\E p \in Procs : OutgoingFails(p) \/ SpuriousWakeup(p)) \/ Peer \/ UNCHANGED vars
       PROVE  TaskInv'
  BY <1>4, <1>18, RibAssumption DEF OutgoingFails, SpuriousWakeup, Peer, PeerSend,
     vars, ribVars,
     EnrollInv, MutexOwner
<1>19. QED
  BY <1>6, <1>8, <1>9, <1>10, <1>11, <1>12, <1>13, <1>14, <1>15a, <1>15, <1>16, <1>17,
     <1>18
  DEF Next, TaskRun, TaskRuns, Fault
-----------------------------------------------------------------------------
(* A process's row is the one it filled, or found, for its own request: the  *)
(* other processes only take free rows, and nobody takes a reply back.       *)
LEMMA RowStep ==
    ASSUME EnrollInv, [Next]_vars
    PROVE  RowInv' /\ StopIsPending'
<1> DEFINE ProcInv(p) ==
        /\ pc[p] # "not_pending"
        /\ pc[p] \in {"find", "check", "enter", "wait"} => stage[p] = "stop"
        /\ pc[p] \in {"check", "enter", "wait"} \/ stage[p] = "ops" =>
             /\ pxPendingReq[p] \in ReqRows
             /\ xPendingReqs[pxPendingReq[p]].unInvokeID # 0
        /\ stage[p] = "ops" => xPendingReqs[pxPendingReq[p]].pxResp
        /\ pc[p] = "find" \/ (pc[p] = "output" /\ stage[p] = "stop") =>
             /\ unInvokeId[p] # 0
             /\ \E i \in ReqRows : xPendingReqs[i].unInvokeID = unInvokeId[p]
<1>0. TypeOK /\ (\A p \in Procs : ProcInv(p))
  BY DEF EnrollInv, RowInv, StopIsPending
<1>a. (\A p \in Procs : ProcInv(p))' => RowInv' /\ StopIsPending'
  BY DEF RowInv, StopIsPending
<1> HIDE DEF ProcInv
<1> USE <1>0 DEF TypeOK, RibTypeOK
<1>1. ASSUME NEW q \in Procs, pc'[q] = pc[q], stage'[q] = stage[q], unInvokeId'[q] = unInvokeId[q],
             pxPendingReq'[q] = pxPendingReq[q]
      PROVE  ProcInv(q)'
  <2>1. \A i \in ReqRows : xPendingReqs[i].unInvokeID # 0 =>
          /\ xPendingReqs'[i].unInvokeID = xPendingReqs[i].unInvokeID
          /\ xPendingReqs[i].pxResp => xPendingReqs'[i].pxResp
    BY RowsKept
  <2>2. ProcInv(q)
    BY <1>0
  <2>3. QED
    BY <1>1, <2>1, <2>2 DEF ProcInv
<1>2. ASSUME UNCHANGED <<pc, stage, unInvokeId, pxPendingReq>> PROVE (\A p \in Procs : ProcInv(p))'
  BY <1>1, <1>2
<1>3. ASSUME NEW p \in Procs, ProcInv(p)', 
             NEW label, Goto(p, label),
             \A q \in Procs \ {p} : /\ stage'[q] = stage[q] /\ unInvokeId'[q] = unInvokeId[q]
                                    /\ pxPendingReq'[q] = pxPendingReq[q]
      PROVE  (\A q \in Procs : ProcInv(q))'
  <2>1. ASSUME NEW q \in Procs \ {p} PROVE ProcInv(q)'
    BY <1>1, <1>3, <2>1 DEF Goto
  <2>2. QED
    BY <1>3, <2>1
<1>4. ASSUME prvEnrollmentObjectStart PROVE (\A q \in Procs : ProcInv(q))'
  <2>1. CASE UNCHANGED pc /\ UNCHANGED stage
    BY <1>2, <1>4, <2>1 DEF prvEnrollmentObjectStart, procVars
  <2>2. CASE ~ (UNCHANGED pc /\ UNCHANGED stage)
    <3>1. PICK p \in Procs : pc[p] = "unused" /\ GotoStage(p, "start")
      BY <1>4, <2>2 DEF prvEnrollmentObjectStart, procVars
    <3>2. UNCHANGED <<unInvokeId, pxPendingReq>>
      BY <1>4 DEF prvEnrollmentObjectStart, procVars
    <3>3. ProcInv(p)'
      BY <3>1 DEF GotoStage, Goto, ProcInv
    <3>4. QED
      BY <1>3, <3>1, <3>2, <3>3 DEF GotoStage
  <2>3. QED
    BY <2>1, <2>2
<1>5. ASSUME NEW p \in Procs, ProcRuns(p) PROVE (\A q \in Procs : ProcInv(q))'
  <2>0. ProcInv(p)
    BY <1>0
  <2>r. \A i \in ReqRows : xPendingReqs[i].unInvokeID # 0 =>
          /\ xPendingReqs'[i].unInvokeID = xPendingReqs[i].unInvokeID
          /\ xPendingReqs[i].pxResp => xPendingReqs'[i].pxResp
    BY RowsKept
  <2>1. CASE ReadArguments(p)
    <3>1. ProcInv(p)'
      BY <2>0, <2>r, <2>1 DEF ReadArguments, Goto, ProcInv
    <3>2. QED
      BY <1>3, <2>1, <3>1 DEF ReadArguments
  <2>2. CASE xRibObjectReply(p) \/ QueryCommand(p)
    <3>1. ProcInv(p)'
      BY <2>0, <2>r, <2>2 DEF xRibObjectReply, QueryCommand, Goto, ProcInv
    <3>2. QED
      BY <1>3, <2>2, <3>1 DEF xRibObjectReply, QueryCommand
  <2>3. CASE QuerySync(p)
    <3>1. CASE FreeReqRow = 0
      <4>1. ProcInv(p)'
        BY <2>0, <2>r, <2>3, <3>1 DEF QuerySync, Goto, ProcInv
      <4>2. QED
        BY <1>3, <2>3, <3>1, <4>1 DEF QuerySync
    <3>2. CASE FreeReqRow # 0
      <4>1. /\ FreeReqRow \in ReqRows
            /\ xPendingReqs' = [xPendingReqs EXCEPT ![FreeReqRow] = [FreeReq EXCEPT !.unInvokeID = NextInvokeId]]
            /\ unInvokeId' = [unInvokeId EXCEPT ![p] = NextInvokeId]
            /\ Goto(p, "output") /\ UNCHANGED <<stage, pxPendingReq>> /\ stage[p] = "stop"
        BY <2>3, <3>2, TableSearch DEF QuerySync, FreeReqRow
      <4>2. [FreeReq EXCEPT !.unInvokeID = NextInvokeId].unInvokeID = NextInvokeId
        BY DEF FreeReq
      <4>3. xPendingReqs'[FreeReqRow].unInvokeID = NextInvokeId /\ NextInvokeId # 0
        BY <4>1, <4>2, InvokeIds
      <4>4. unInvokeId'[p] # 0 /\ \E i \in ReqRows : xPendingReqs'[i].unInvokeID = unInvokeId'[p]
        BY <4>1, <4>3
      <4>5. ProcInv(p)'
        BY <4>1, <4>4 DEF Goto, ProcInv
      <4>6. QED
        BY <1>3, <4>1, <4>5
    <3>3. QED
      BY <3>1, <3>2
  <2>4. CASE prvRibNormalOutgoing(p)
    <3>1. pc[p] = "output" /\ UNCHANGED <<unInvokeId, pxPendingReq, xPendingReqs>>
      BY <2>4 DEF prvRibNormalOutgoing
    <3>2. CASE stage[p] \in {"start", "create"}
      <4>1. PICK s \in {"create", "stop"} : GotoStage(p, s)
        BY <2>4, <3>2 DEF prvRibNormalOutgoing
      <4>2. ProcInv(p)'
        BY <2>0, <3>1, <4>1 DEF GotoStage, Goto, ProcInv
      <4>3. QED
        BY <1>3, <3>1, <4>1, <4>2 DEF GotoStage
    <3>3. CASE stage[p] = "stop"
      <4>1. Goto(p, "find") /\ UNCHANGED stage
        BY <2>4, <3>3 DEF prvRibNormalOutgoing
      <4>2. ProcInv(p)'
        BY <2>0, <3>1, <3>3, <4>1 DEF Goto, ProcInv
      <4>3. QED
        BY <1>3, <3>1, <4>1, <4>2
    <3>4. CASE stage[p] = "ops"
      <4>1. Goto(p, "finished") /\ UNCHANGED stage
        BY <2>4, <3>4 DEF prvRibNormalOutgoing
      <4>2. ProcInv(p)'
        BY <2>0, <3>1, <3>4, <4>1 DEF Goto, ProcInv
      <4>3. QED
        BY <1>3, <3>1, <4>1, <4>2
    <3>5. QED
      BY <3>2, <3>3, <3>4 DEF Stages
  <2>5. CASE WaitFind(p)
    <3>1. /\ unInvokeId[p] # 0 /\ stage[p] = "stop"
          /\ \E i \in ReqRows : xPendingReqs[i].unInvokeID = unInvokeId[p]
      BY <2>0, <2>5 DEF WaitFind, ProcInv
    <3>2. /\ xRibFindPendingResponse(unInvokeId[p]) \in ReqRows
          /\ xPendingReqs[xRibFindPendingResponse(unInvokeId[p])].unInvokeID = unInvokeId[p]
          /\ xRibFindPendingResponse(unInvokeId[p]) # 0
      BY <3>1, TableSearch
    <3>3. /\ pxPendingReq'[p] = xRibFindPendingResponse(unInvokeId[p])
          /\ Goto(p, "check") /\ UNCHANGED <<stage, unInvokeId, xPendingReqs>>
          /\ \A q \in Procs \ {p} : pxPendingReq'[q] = pxPendingReq[q]
      BY <2>5, <3>2 DEF WaitFind, ribVars
    <3>4. ProcInv(p)'
      BY <3>1, <3>2, <3>3 DEF Goto, ProcInv
    <3>5. QED
      BY <1>3, <3>3, <3>4
  <2>6. CASE WaitCheck(p)
    <3>1. ProcInv(p)'
      BY <2>0, <2>6 DEF WaitCheck, GotoStage, Goto, ProcInv, ribVars
    <3>2. QED
      BY <1>3, <2>6, <3>1 DEF WaitCheck, GotoStage
  <2>7. CASE WaitEnter(p)
    <3>1. ProcInv(p)'
      BY <2>0, <2>7 DEF WaitEnter, Goto, ProcInv
    <3>2. QED
      BY <1>3, <2>7, <3>1 DEF WaitEnter
  <2>8. CASE WaitTimeout(p)
    <3>1. ProcInv(p)'
      BY <2>0, <2>r, <2>8 DEF WaitTimeout, Asleep, Goto, ProcInv
    <3>2. QED
      BY <1>3, <2>8, <3>1 DEF WaitTimeout
  <2>9. CASE WaitReturn(p)
    <3>1. ProcInv(p)'
      BY <2>0, <2>9 DEF WaitReturn, GotoStage, Goto, ProcInv, ribVars
    <3>2. QED
      BY <1>3, <2>9, <3>1 DEF WaitReturn, GotoStage
  <2>10. QED
    BY <1>5, <2>1, <2>2, <2>3, <2>4, <2>5, <2>6, <2>7, <2>8, <2>9 DEF ProcRuns
<1>6. ASSUME NEW p \in Procs, OutgoingFails(p) PROVE (\A q \in Procs : ProcInv(q))'
  <2>1. ProcInv(p)
    BY <1>0
  <2>2. ProcInv(p)'
    BY <1>6, <2>1 DEF OutgoingFails, Goto, ProcInv
  <2>3. QED
    BY <1>3, <1>6, <2>2 DEF OutgoingFails
<1>7. ASSUME \/ UNCHANGED procVars \/ UNCHANGED vars \/ \E p \in Procs : SpuriousWakeup(p)
      PROVE  (\A q \in Procs : ProcInv(q))'
  BY <1>2, <1>7 DEF procVars, vars, SpuriousWakeup
<1>8. QED
  BY <1>a, <1>4, <1>5, <1>6, <1>7 DEF Next, TaskRun, Fault, Peer
-----------------------------------------------------------------------------
(* The invariant is inductive: no step of a thread, whatever the others do   *)
(* in between, breaks any of its parts.                                     *)
LEMMA EnrollInvStep == EnrollInv /\ [Next]_vars => EnrollInv'
BY TypeStep, ConnectionStep, MutexStep, TaskStep, RowStep DEF EnrollInv

(* The inductive invariant holds in every reachable state, for any number of *)
(* peers, enrollment processes and rows (Ribd.c, Ribd_requests.c and         *)
(* Enrollment_Inbound.c together).                                          *)
THEOREM EnrollInvariant == Spec => []EnrollInv
BY InitEnrollInv, EnrollInvStep, PTL DEF Spec

(* Rows found by the searches are rows, events are well formed, and the      *)
(* counters never leave the naturals.                                       *)
THEOREM RibTypeCorrect == Spec => []TypeOK
<1>1. EnrollInv => TypeOK
  BY DEF EnrollInv
<1>2. QED
  BY <1>1, EnrollInvariant, PTL

(* A port never has two application connections, whatever its peer sends and  *)
(* in whatever order (Ribd.c, 363 to 367).                                  *)
THEOREM ConnectionsUnique == Spec => []OneConnectionPerPort
<1>1. EnrollInv => OneConnectionPerPort
  BY DEF EnrollInv
<1>2. QED
  BY <1>1, EnrollInvariant, PTL

(* A thread holds the RIB mutex exactly while it builds and sends a message, *)
(* so no two threads do so at once and no failed request keeps it.           *)
THEOREM RibMutualExclusion == Spec => []MutexOwner
<1>1. EnrollInv => MutexOwner
  BY DEF EnrollInv
<1>2. QED
  BY <1>1, EnrollInvariant, PTL

(* No enrollment passes M_STOP on a wake-up, a timeout or the reply to        *)
(* another request (xRibObjectWaitReply, Ribd_requests.c:168): its own was    *)
(* answered, or a reply without an invoke id was taken for it.               *)
THEOREM EnrollmentAnswered == Spec => []EnrolledMeansAnswered
<1>1. EnrollInv => EnrolledMeansAnswered
  BY DEF EnrollInv, TypeOK, RibTypeOK, RowInv, TaskInv, EnrolledMeansAnswered
<1>2. QED
  BY <1>1, EnrollInvariant, PTL

(* The request a process waits for is in the table, so the error that its    *)
(* caller does not test for is never returned.                              *)
THEOREM StopFound == Spec => []StopIsPending
<1>1. EnrollInv => StopIsPending
  BY DEF EnrollInv
<1>2. QED
  BY <1>1, EnrollInvariant, PTL
-----------------------------------------------------------------------------
(* The invoke ids drawn so far, each by a process for one of its requests.   *)
Requests == Procs \X {"create", "stop", "ops"}

Earlier == [start |-> {}, create |-> {}, stop |-> {"create"}, ops |-> {"create", "stop"}]

Drawn == {d \in Requests : \/ d[2] \in Earlier[stage[d[1]]]
                           \/ d[2] = stage[d[1]] /\ pc[d[1]] \notin {"args", "lock"}}

(* get_next_invoke_id starts again at 1 when the counter reaches INT_MAX, and *)
(* then returns 1 twice. Each process draws three ids at most.              *)
FewRequests == IsFiniteSet(Procs) /\ 3 * Cardinality(Procs) < INT_MAX

IdsInv ==
    /\ \A p \in Procs : pc[p] = "unused" => stage[p] = "start"
    /\ invoke_id <= Cardinality(Drawn) + 1
    /\ \A i \in ReqRows : xPendingReqs[i].unInvokeID < invoke_id
    /\ PendingDistinct

(* Each process goes through its four requests in order. *)
Moves(p) ==
    /\ \A q \in Procs \ {p} : pc'[q] = pc[q] /\ stage'[q] = stage[q]
    /\ pc'[p] # "unused"
    /\ \/ pc[p] = "unused" /\ stage'[p] = "start"
       \/ /\ stage'[p] = stage[p]
          /\ pc[p] \notin {"args", "lock"} => pc'[p] \notin {"args", "lock"}
       \/ /\ pc[p] \notin {"args", "lock"}
          /\ \/ stage[p] = "start" /\ stage'[p] = "create"
             \/ stage[p] = "create" /\ stage'[p] = "stop"
             \/ stage[p] = "stop" /\ stage'[p] = "ops"

LEMMA ProcessMoves ==
    ASSUME EnrollInv, [Next]_vars
    PROVE  UNCHANGED <<pc, stage>> \/ \E p \in Procs : Moves(p)
<1>t. /\ pc \in [Procs -> Labels] /\ stage \in [Procs -> Stages]
      /\ \A p \in Procs : pc[p] \in {"check", "wait"} => stage[p] = "stop"
  BY DEF EnrollInv, TypeOK, RowInv
<1>1. CASE TaskRun \/ Peer \/ UNCHANGED vars
  BY <1>1, <1>t DEF TaskRun, Peer, vars, procVars, prvEnrollmentObjectStart, GotoStage, Goto, Moves
<1>2. ASSUME NEW p \in Procs, ProcRuns(p) PROVE UNCHANGED <<pc, stage>> \/ Moves(p)
  <2>1. CASE ReadArguments(p) \/ xRibObjectReply(p) \/ QueryCommand(p)
    BY <2>1, <1>t DEF ReadArguments, xRibObjectReply, QueryCommand, Goto, Moves
  <2>2. CASE QuerySync(p)
    BY <2>2, <1>t DEF QuerySync, Goto, Moves
  <2>3. CASE prvRibNormalOutgoing(p)
    BY <2>3, <1>t DEF prvRibNormalOutgoing, GotoStage, Goto, Moves, Stages
  <2>4. CASE WaitFind(p) \/ WaitCheck(p) \/ WaitEnter(p) \/ WaitTimeout(p) \/ WaitReturn(p)
    BY <2>4, <1>t DEF WaitFind, WaitCheck, WaitEnter, WaitTimeout, WaitReturn, Asleep,
       GotoStage, Goto, Moves
  <2> QED BY <1>2, <2>1, <2>2, <2>3, <2>4 DEF ProcRuns
<1>3. CASE Fault
  BY <1>3, <1>t DEF Fault, TaskOutputFails, OutgoingFails, SpuriousWakeup, procVars, Goto, Moves
<1> QED BY <1>1, <1>2, <1>3 DEF Next

(* What was drawn stays drawn. *)
LEMMA DrawnGrows ==
    ASSUME EnrollInv, IdsInv, [Next]_vars
    PROVE  Drawn \subseteq Drawn' /\ \A p \in Procs : pc'[p] = "unused" => stage'[p] = "start"
<1>t. /\ \A p \in Procs : stage[p] \in Stages
      /\ \A p \in Procs : pc[p] = "unused" => stage[p] = "start"
  BY DEF EnrollInv, TypeOK, IdsInv
<1>1. CASE UNCHANGED <<pc, stage>>
  BY <1>1, <1>t DEF Drawn
<1>2. ASSUME NEW p \in Procs, Moves(p)
      PROVE  Drawn \subseteq Drawn' /\ \A q \in Procs : pc'[q] = "unused" => stage'[q] = "start"
  <2>1. ASSUME NEW d \in Drawn PROVE d \in Drawn'
    <3>1. /\ d \in Requests /\ d[1] \in Procs /\ d[2] \in {"create", "stop", "ops"}
          /\ \/ d[2] \in Earlier[stage[d[1]]]
             \/ d[2] = stage[d[1]] /\ pc[d[1]] \notin {"args", "lock"}
      BY DEF Drawn, Requests
    <3>2. CASE d[1] # p
      BY <3>1, <3>2, <1>2 DEF Moves, Drawn
    <3>3. CASE d[1] = p
      BY <3>1, <3>3, <1>2, <1>t DEF Moves, Drawn, Earlier, Stages
    <3> QED BY <3>2, <3>3
  <2> QED BY <2>1, <1>2, <1>t DEF Moves
<1> QED BY <1>1, <1>2, ProcessMoves

(* There are never more of them than the processes may draw. *)
LEMMA DrawnCount ==
    ASSUME FewRequests
    PROVE  /\ IsFiniteSet(Requests) /\ Cardinality(Requests) < INT_MAX
           /\ INT_MAX \in Nat
           /\ \A D \in SUBSET Requests : IsFiniteSet(D) /\ Cardinality(D) \in Nat
                                           /\ Cardinality(D) <= Cardinality(Requests)
<1>1. IsFiniteSet(Procs) /\ Cardinality(Procs) \in Nat /\ INT_MAX \in Nat
  BY FS_CardinalityType, RibAssumption DEF FewRequests
<1>2. IsFiniteSet({"create", "stop", "ops"}) /\ Cardinality({"create", "stop", "ops"}) = 3
  <2>1. IsFiniteSet({"create"}) /\ Cardinality({"create"}) = 1
    BY FS_Singleton
  <2>2. IsFiniteSet({"create", "stop"}) /\ Cardinality({"create", "stop"}) = 2
    <3>1. {"create", "stop"} = {"create"} \cup {"stop"} /\ "stop" \notin {"create"}
      OBVIOUS
    <3> QED BY <2>1, <3>1, FS_AddElement
  <2>3. {"create", "stop", "ops"} = {"create", "stop"} \cup {"ops"} /\ "ops" \notin {"create", "stop"}
    OBVIOUS
  <2> QED BY <2>2, <2>3, FS_AddElement
<1>3. IsFiniteSet(Requests) /\ Cardinality(Requests) = Cardinality(Procs) * 3
  BY <1>1, <1>2, FS_Product DEF Requests
<1>4. Cardinality(Requests) < INT_MAX
  BY <1>1, <1>3 DEF FewRequests
<1> QED BY <1>1, <1>3, <1>4, FS_Subset, FS_CardinalityType

(* An id is drawn by a process that did not draw it yet, so the counter does *)
(* not wrap.                                                                *)
LEMMA DrawsNext ==
    ASSUME FewRequests, EnrollInv, IdsInv, [Next]_vars,
           NEW p \in Procs, QueryCommand(p) \/ QuerySync(p)
    PROVE  /\ NextInvokeId = invoke_id /\ invoke_id' = invoke_id + 1
           /\ Cardinality(Drawn) + 1 <= Cardinality(Drawn')
<1> DEFINE d == <<p, stage[p]>>
<1>t. /\ pc \in [Procs -> Labels] /\ stage \in [Procs -> Stages] /\ invoke_id \in Nat \ {0}
  BY DEF EnrollInv, TypeOK, RibTypeOK
<1>1. /\ pc[p] = "lock" /\ stage[p] \in {"create", "stop", "ops"} /\ stage'[p] = stage[p]
      /\ pc'[p] \notin {"args", "lock"} /\ invoke_id' = AfterInvokeId
  BY <1>t DEF QueryCommand, QuerySync, Goto
<1>2. d \in Requests /\ d \notin Drawn /\ d \in Drawn'
  BY <1>1 DEF Requests, Drawn, Earlier
<1>3. Drawn \subseteq Drawn' /\ Drawn \in SUBSET Requests /\ Drawn' \in SUBSET Requests
  BY DrawnGrows DEF Drawn
<1>4. /\ IsFiniteSet(Drawn') /\ Cardinality(Drawn') \in Nat
      /\ IsFiniteSet(Drawn) /\ Cardinality(Drawn) \in Nat
      /\ Cardinality(Drawn') < INT_MAX
  BY <1>3, DrawnCount, FS_CardinalityType
<1>5. Cardinality(Drawn \cup {d}) = Cardinality(Drawn) + 1
  BY <1>2, <1>4, FS_AddElement
<1>6. Cardinality(Drawn \cup {d}) <= Cardinality(Drawn')
  <2>1. Drawn \cup {d} \subseteq Drawn'
    BY <1>2, <1>3
  <2> QED BY <2>1, <1>4, FS_Subset
<1>7. invoke_id < INT_MAX /\ INT_MAX \in Nat
  <2>1. invoke_id <= Cardinality(Drawn) + 1 /\ INT_MAX \in Nat
    BY RibAssumption DEF IdsInv
  <2> QED BY <1>t, <1>4, <1>5, <1>6, <2>1
<1>8. invoke_id % INT_MAX # 0
  <2>1. \A n, k \in Nat : 0 < n /\ n < k => n % k = n
    OBVIOUS
  <2> QED BY <1>t, <1>7, <2>1
<1> QED BY <1>1, <1>5, <1>6, <1>8 DEF NextInvokeId, AfterInvokeId

LEMMA IdsStep ==
    ASSUME FewRequests, EnrollInv, IdsInv, [Next]_vars
    PROVE  IdsInv'
<1>t. /\ invoke_id \in Nat \ {0} /\ xPendingReqs \in [ReqRows -> ribPendingReq]
      /\ \A i \in ReqRows : xPendingReqs[i].unInvokeID \in Nat
  BY DEF EnrollInv, TypeOK, RibTypeOK, ribPendingReq
<1>d. /\ Cardinality(Drawn) \in Nat /\ Cardinality(Drawn') \in Nat
      /\ Cardinality(Drawn) <= Cardinality(Drawn')
  <2>1. Drawn \subseteq Drawn' /\ Drawn \in SUBSET Requests /\ Drawn' \in SUBSET Requests
    BY DrawnGrows DEF Drawn
  <2> QED BY <2>1, DrawnCount, FS_Subset
<1> DEFINE Ids == /\ invoke_id' <= Cardinality(Drawn') + 1
                  /\ \A i \in ReqRows : xPendingReqs'[i].unInvokeID < invoke_id'
                  /\ PendingDistinct'
           Same == /\ invoke_id' = invoke_id
                   /\ \A i \in ReqRows : xPendingReqs'[i].unInvokeID = xPendingReqs[i].unInvokeID
<1> USE DEF PendingDistinct
<1>1. ASSUME Same PROVE Ids
  BY <1>1, <1>t, <1>d DEF IdsInv
<1>2. ASSUME NEW p \in Procs, QueryCommand(p) PROVE Ids
  <2>1. xPendingReqs' = xPendingReqs
    BY <1>2 DEF QueryCommand
  <2> QED BY <1>2, <2>1, <1>t, <1>d, DrawsNext DEF IdsInv
<1>3. ASSUME NEW p \in Procs, QuerySync(p) PROVE Ids
  <2>1. /\ NextInvokeId = invoke_id /\ invoke_id' = invoke_id + 1
        /\ Cardinality(Drawn) + 1 <= Cardinality(Drawn')
    BY <1>3, DrawsNext
  <2>2. CASE xPendingReqs' = xPendingReqs
    BY <2>1, <2>2, <1>t, <1>d DEF IdsInv
  <2>3. CASE xPendingReqs' # xPendingReqs
    <3>1. /\ FreeReqRow \in ReqRows
          /\ xPendingReqs' = [xPendingReqs EXCEPT ![FreeReqRow] = [FreeReq EXCEPT !.unInvokeID = invoke_id]]
      BY <1>3, <2>1, <2>3, TableSearch DEF QuerySync, FreeReqRow
    <3>2. [FreeReq EXCEPT !.unInvokeID = invoke_id].unInvokeID = invoke_id
      BY DEF FreeReq
    <3>3. \A i \in ReqRows : xPendingReqs'[i].unInvokeID
                               = IF i = FreeReqRow THEN invoke_id ELSE xPendingReqs[i].unInvokeID
      BY <3>1, <3>2, <1>t
    <3> QED BY <3>1, <3>3, <2>1, <1>t, <1>d DEF IdsInv
  <2> QED BY <2>2, <2>3
<1>4. ASSUME \A p \in Procs : ~QueryCommand(p) /\ ~QuerySync(p)
      PROVE  Same
  <2>1. CASE TaskRuns
    BY <2>1, <1>t DEF TaskRuns, TaskSendMgmt, prvRibHandleConnect, xRibConnectionAdd,
       xRibConnectionAddFull, prvRibHandleConnectReply, prvRibHandleRelease, TaskRefuses,
       prvEnrollmentHandleOperationalStart, prvRibHandleAnyReply, TaskFindPending,
       TaskFindMethod, TaskDeliver, TaskSignal, TaskLock, TaskOutput, ribPendingReq
  <2>2. ASSUME NEW p \in Procs, ProcRuns(p) PROVE Same
    <3>1. CASE WaitTimeout(p)
      <4>1. \A r \in ribPendingReq : [r EXCEPT !.xMutex = p].unInvokeID = r.unInvokeID
        BY DEF ribPendingReq
      <4>2. xPendingReqs' = [xPendingReqs EXCEPT ![pxPendingReq[p]] =
                                [xPendingReqs[pxPendingReq[p]] EXCEPT !.xMutex = p]]
        BY <3>1 DEF WaitTimeout
      <4> QED BY <3>1, <4>1, <4>2, <1>t DEF WaitTimeout
    <3>2. CASE ~WaitTimeout(p)
      BY <2>2, <3>2, <1>4 DEF ProcRuns, ReadArguments, xRibObjectReply, prvRibNormalOutgoing,
         WaitFind, WaitCheck, WaitEnter, WaitReturn, ribVars
    <3> QED BY <3>1, <3>2
  <2>3. CASE prvEnrollmentObjectStart \/ Fault \/ Peer \/ UNCHANGED vars
    BY <2>3 DEF prvEnrollmentObjectStart, Fault, Peer, PeerSend, TaskOutputFails,
       OutgoingFails, SpuriousWakeup, vars, ribVars
  <2> QED BY <2>1, <2>2, <2>3 DEF Next, TaskRun
<1>5. Ids
  BY <1>1, <1>2, <1>3, <1>4
<1> QED BY <1>5, DrawnGrows DEF IdsInv

(* A reply finds the request it answers: no two pending requests carry the   *)
(* same invoke id, as long as there are fewer requests than the counter of   *)
(* get_next_invoke_id has values (Ribd_requests.c).                         *)
THEOREM IdsDistinct ==
    ASSUME FewRequests
    PROVE  Spec => []PendingDistinct
<1>1. Init => IdsInv
  <2> SUFFICES ASSUME Init PROVE IdsInv
    OBVIOUS
  <2>1. Drawn \in SUBSET Requests
    BY DEF Drawn
  <2>2. Cardinality(Drawn) \in Nat
    BY <2>1, DrawnCount
  <2> QED BY <2>2 DEF Init, RibInit, IdsInv, PendingDistinct, FreeReq
<1>2. EnrollInv /\ IdsInv /\ [Next]_vars => IdsInv'
  BY IdsStep
<1>3. IdsInv => PendingDistinct
  BY DEF IdsInv
<1> QED BY <1>1, <1>2, <1>3, EnrollInvariant, PTL DEF Spec
=============================================================================
