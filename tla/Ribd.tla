------------------------------- MODULE Ribd -------------------------------
(***************************************************************************)
(* The RIB daemon (components/Ribd) as the IPCP task runs it: CDAP messages *)
(* come out of the event queue one at a time, use the connection table and  *)
(* the table of pending requests under the RIB mutex, and answer through    *)
(* the same event queue.  Each step is one critical section of the RIB      *)
(* mutex or one access made outside of it, so that the enrollment processes *)
(* (module Enrollment) interleave with it as real threads would.            *)
(*                                                                         *)
(* The event queue is the bounded FIFO that module RsQueue implements.  Of  *)
(* the task's events only eRinaRxEvent ("rx", a management PDU of a peer)   *)
(* and eSendMgmtEvent ("mgmt") are kept.                                   *)
(***************************************************************************)
EXTENDS Naturals, Sequences, FiniteSets

CONSTANTS Ports,                        \* N-1 ports of the peers
          Procs,                        \* threads that may run RIB requests
          Task,                         \* the IPCP task
          None,                         \* nobody
          APP_CONNECTION_TABLE_SIZE,    \* Ribd_defs.h
          RESPONSE_HANDLER_TABLE_SIZE,  \* Ribd_defs.h
          unMaxItemCount,               \* size of xNetworkEventQueue
          INT_MAX,                      \* limit of the invoke id counter
          PeerMessages,                 \* the messages peers may send
          RxBacklog                     \* bound of the model: peers only send
                                        \* when fewer events are queued

PeerOps == {"M_CONNECT", "M_CONNECT_R", "M_RELEASE", "M_RELEASE_R",
            "M_START", "M_START_OPS", "M_START_R", "M_STOP_R", "OTHER"}
OwnOps  == {"M_CONNECT_R", "M_RELEASE_R", "M_START_R", "M_CREATE", "M_STOP",
            "M_START"}

Message == [op : PeerOps, port : Ports, id : Nat]

ASSUME RibAssumption ==
    /\ Ports \subseteq Nat \ {0}
    /\ None \notin Procs /\ Task \notin Procs /\ Task # None
    /\ APP_CONNECTION_TABLE_SIZE \in Nat \ {0}
    /\ RESPONSE_HANDLER_TABLE_SIZE \in Nat \ {0}
    /\ unMaxItemCount \in Nat \ {0}
    /\ INT_MAX \in Nat \ {0, 1}
    /\ RxBacklog \in Nat /\ RxBacklog <= unMaxItemCount
    /\ PeerMessages \subseteq Message

VARIABLES xNetworkEventQueue,  \* events, oldest first
          xMutex,              \* owner of the RIB mutex, which is not recursive
          xAppConnections,     \* the connection table
          xPendingReqs,        \* the table of requests that expect a reply
          xWaitCond,           \* the threads asleep on each row's condition
          invoke_id,           \* the counter behind get_next_invoke_id
          pcTask,              \* where the IPCP task is
          pxMsg,               \* the message it handles
          pxTaskReq,           \* the row it found for a reply
          answered             \* history: ids of the M_STOP_R received so far

ribVars == <<xNetworkEventQueue, xMutex, xAppConnections, xPendingReqs,
             xWaitCond, invoke_id, pcTask, pxMsg, pxTaskReq, answered>>

ConnRows == 1 .. APP_CONNECTION_TABLE_SIZE
ReqRows  == 1 .. RESPONSE_HANDLER_TABLE_SIZE

appConnection == [xStatus : {"RELEASED", "IN_PROGRESS", "OK"},
                  unPort : Ports \cup {0}]
ribPendingReq == [unInvokeID : Nat, pxResp : BOOLEAN, xMutex : Procs \cup {None}]

(* What memset and a zeroed Ribd_t leave in the rows of the two tables. *)
ReleasedRow == [xStatus |-> "RELEASED", unPort |-> 0]
FreeReq     == [unInvokeID |-> 0, pxResp |-> FALSE, xMutex |-> None]

RxEvent(m)             == [type |-> "rx", op |-> m.op, port |-> m.port, id |-> m.id]
MgmtEvent(op, port, id) == [type |-> "mgmt", op |-> op, port |-> port, id |-> id]
Event == [type : {"rx", "mgmt"}, op : PeerOps \cup OwnOps, port : Ports \cup {0},
          id : Nat]

RibInit ==
    /\ xNetworkEventQueue = <<>>
    /\ xMutex = None
    /\ xAppConnections = [i \in ConnRows |-> ReleasedRow]
    /\ xPendingReqs = [i \in ReqRows |-> FreeReq]
    /\ xWaitCond = [i \in ReqRows |-> {}]
    /\ invoke_id = 1
    /\ pcTask = "loop"
    /\ pxMsg = None
    /\ pxTaskReq = 0
    /\ answered = {}
-----------------------------------------------------------------------------
(* The tables are searched from their first row; 0 stands for NULL. *)
First(rows) == IF rows = {} THEN 0
               ELSE CHOOSE i \in rows : \A j \in rows : i <= j

pxRibConnectionFind(port) ==
    First({i \in ConnRows : /\ xAppConnections[i].xStatus # "RELEASED"
                            /\ xAppConnections[i].unPort = port})

FreeConnRow == First({i \in ConnRows : xAppConnections[i].xStatus = "RELEASED"})

xRibFindPendingResponse(id) ==
    First({i \in ReqRows : xPendingReqs[i].unInvokeID = id})

FreeReqRow == xRibFindPendingResponse(0)

(* Fault: the counter is read but not advanced. *)
KeepInvokeId == IF invoke_id % INT_MAX = 0 THEN 1 ELSE invoke_id

(* get_next_invoke_id: what it returns, and what it leaves in invoke_id. *)
NextInvokeId == IF invoke_id % INT_MAX = 0 THEN 1 ELSE invoke_id
AfterInvokeId == IF invoke_id % INT_MAX = 0 THEN 1 ELSE invoke_id + 1

QueueFull == Len(xNetworkEventQueue) >= unMaxItemCount
-----------------------------------------------------------------------------
(* The shim posts the PDU of a peer. When the queue stays full for its       *)
(* timeout the PDU is lost, which changes nothing here.                     *)
PeerSend(m) ==
    /\ Len(xNetworkEventQueue) < RxBacklog
    /\ xNetworkEventQueue' = Append(xNetworkEventQueue, RxEvent(m))
    /\ UNCHANGED <<xMutex, xAppConnections, xPendingReqs, xWaitCond, invoke_id,
                   pcTask, pxMsg, pxTaskReq, answered>>

(* eSendMgmtEvent: the PDU leaves through the RMT and the shim.              *)
TaskSendMgmt ==
    /\ pcTask = "loop"
    /\ xNetworkEventQueue # <<>>
    /\ Head(xNetworkEventQueue).type = "mgmt"
    /\ xNetworkEventQueue' = Tail(xNetworkEventQueue)
    /\ UNCHANGED <<xMutex, xAppConnections, xPendingReqs, xWaitCond, invoke_id,
                   pcTask, pxMsg, pxTaskReq, answered>>

(* xRibNormalIncoming dispatches the next received message on its opcode.    *)
Incoming(ops) ==
    /\ pcTask = "loop"
    /\ xNetworkEventQueue # <<>>
    /\ Head(xNetworkEventQueue).type = "rx"
    /\ Head(xNetworkEventQueue).op \in ops
    /\ xNetworkEventQueue' = Tail(xNetworkEventQueue)

Msg      == Head(xNetworkEventQueue)
pxAppCon == pxRibConnectionFind(Msg.port)

(* Handling the message takes more steps, or is over: xRibIncoming frees it. *)
Continue(label) == pcTask' = label /\ pxMsg' = Msg
Done            == pcTask' = "loop" /\ pxMsg' = None

(* Fault: a connection is added whether or not the port has one. *)
ConnectAlways ==
    /\ Incoming({"M_CONNECT"})
    /\ Continue("add")
    /\ UNCHANGED <<xMutex, xAppConnections, xPendingReqs, xWaitCond, invoke_id,
                   pxTaskReq, answered>>

prvRibHandleConnect ==
    /\ Incoming({"M_CONNECT"})
    /\ IF pxAppCon = 0 THEN Continue("add") ELSE Done
    /\ UNCHANGED <<xMutex, xAppConnections, xPendingReqs, xWaitCond, invoke_id,
                   pxTaskReq, answered>>

(* A row is filled before the names are copied: when a copy fails the row    *)
(* stays taken and no reply is sent.                                        *)
xRibConnectionAdd ==
    /\ pcTask = "add"
    /\ xMutex = None
    /\ FreeConnRow # 0
    /\ xAppConnections' = [xAppConnections EXCEPT ![FreeConnRow] =
                              [xStatus |-> "IN_PROGRESS", unPort |-> pxMsg.port]]
    /\ Done \/ (pcTask' = "lock" /\ UNCHANGED pxMsg)
    /\ UNCHANGED <<xNetworkEventQueue, xMutex, xPendingReqs, xWaitCond,
                   invoke_id, pxTaskReq, answered>>

(* With no row left the function returns without releasing the mutex. *)
xRibConnectionAddFull ==
    /\ pcTask = "add"
    /\ xMutex = None
    /\ FreeConnRow = 0
    /\ xMutex' = Task
    /\ Done
    /\ UNCHANGED <<xNetworkEventQueue, xAppConnections, xPendingReqs, xWaitCond,
                   invoke_id, pxTaskReq, answered>>

prvRibHandleConnectReply ==
    /\ Incoming({"M_CONNECT_R"})
    /\ xAppConnections' =
         IF pxAppCon # 0 /\ xAppConnections[pxAppCon].xStatus = "IN_PROGRESS"
         THEN [xAppConnections EXCEPT ![pxAppCon].xStatus = "OK"]
         ELSE xAppConnections
    /\ Done
    /\ UNCHANGED <<xMutex, xPendingReqs, xWaitCond, invoke_id, pxTaskReq,
                   answered>>

(* A release that wants a reply gets one and keeps its row. *)
prvRibHandleRelease ==
    /\ Incoming({"M_RELEASE"})
    /\ IF pxAppCon # 0 /\ Msg.id # 0
       THEN Continue("lock") /\ UNCHANGED xAppConnections
       ELSE /\ Done
            /\ xAppConnections' = IF pxAppCon = 0 THEN xAppConnections
                                  ELSE [xAppConnections EXCEPT ![pxAppCon] = ReleasedRow]
    /\ UNCHANGED <<xMutex, xPendingReqs, xWaitCond, invoke_id, pxTaskReq,
                   answered>>

(* M_RELEASE_R only succeeds on a released connection, and those are never   *)
(* found: it is refused, as are the messages no object has a method for.     *)
TaskRefuses ==
    /\ Incoming({"M_RELEASE_R", "OTHER"})
    /\ Done
    /\ UNCHANGED <<xMutex, xAppConnections, xPendingReqs, xWaitCond, invoke_id,
                   pxTaskReq, answered>>

(* M_START of the operational status object: answered when the neighbor is   *)
(* known, and nothing in the code calls pxEnrollmentCreateNeighInfo, which    *)
(* would make one known. The connection is used without a test for NULL.     *)
prvEnrollmentHandleOperationalStart ==
    /\ Incoming({"M_START_OPS"})
    /\ IF pxAppCon = 0 THEN Continue("crashed") ELSE Continue("lock") \/ Done
    /\ UNCHANGED <<xMutex, xAppConnections, xPendingReqs, xWaitCond, invoke_id,
                   pxTaskReq, answered>>

prvRibHandleAnyReply ==
    /\ Incoming({"M_STOP_R", "M_START_R"})
    /\ Continue("find")
    /\ answered' = IF Msg.op = "M_STOP_R" THEN answered \cup {Msg.id} ELSE answered
    /\ UNCHANGED <<xMutex, xAppConnections, xPendingReqs, xWaitCond, invoke_id,
                   pxTaskReq>>

(* The row is looked up under the mutex: that of the request, and for an id   *)
(* of 0 the first free one.                                                 *)
TaskFindPending ==
    /\ pcTask = "find"
    /\ xMutex = None
    /\ pxTaskReq' = xRibFindPendingResponse(pxMsg.id)
    /\ IF pxTaskReq' # 0 THEN pcTask' = "object" /\ UNCHANGED pxMsg ELSE Done
    /\ UNCHANGED <<xNetworkEventQueue, xMutex, xAppConnections, xPendingReqs,
                   xWaitCond, invoke_id, answered>>

(* The object is looked up by the name in the row, without the mutex: NULL as *)
(* long as no request has taken the row. The requests of the enrollment       *)
(* object are the only pending ones, and it only has a method for M_STOP_R.  *)
TaskFindMethod ==
    /\ pcTask = "object"
    /\ IF xPendingReqs[pxTaskReq].unInvokeID # 0 /\ pxMsg.op # "M_STOP_R"
       THEN Done /\ pxTaskReq' = 0
       ELSE /\ pcTask' = IF xPendingReqs[pxTaskReq].unInvokeID = 0 THEN "crashed" ELSE "deliver"
            /\ UNCHANGED <<pxMsg, pxTaskReq>>
    /\ UNCHANGED <<xNetworkEventQueue, xMutex, xAppConnections, xPendingReqs,
                   xWaitCond, invoke_id, answered>>

(* pxResp is stored, and its condition signalled, without any mutex. *)
TaskDeliver ==
    /\ pcTask = "deliver"
    /\ xPendingReqs' = [xPendingReqs EXCEPT ![pxTaskReq].pxResp = TRUE]
    /\ pcTask' = "signal"
    /\ UNCHANGED <<xNetworkEventQueue, xMutex, xAppConnections, xWaitCond,
                   invoke_id, pxMsg, pxTaskReq, answered>>

TaskSignal ==
    /\ pcTask = "signal"
    /\ Done
    /\ pxTaskReq' = 0
    /\ IF xWaitCond[pxTaskReq] = {}
       THEN UNCHANGED xWaitCond
       ELSE \E p \in xWaitCond[pxTaskReq] :
                xWaitCond' = [xWaitCond EXCEPT ![pxTaskReq] = @ \ {p}]
    /\ UNCHANGED <<xNetworkEventQueue, xMutex, xAppConnections, xPendingReqs,
                   invoke_id, answered>>

ReplyOp == [M_CONNECT |-> "M_CONNECT_R", M_RELEASE |-> "M_RELEASE_R",
            M_START_OPS |-> "M_START_R"]

(* A reply is sent with the mutex held from its creation to the queue.       *)
TaskLock ==
    /\ pcTask = "lock"
    /\ xMutex = None
    /\ xMutex' = Task
    /\ pcTask' = "output"
    /\ UNCHANGED <<xNetworkEventQueue, xAppConnections, xPendingReqs, xWaitCond,
                   invoke_id, pxMsg, pxTaskReq, answered>>

(* The task's own timeout is 0, which the queue takes for "wait for ever":   *)
(* there is no step when the queue is full.                                 *)
TaskOutput ==
    /\ pcTask = "output"
    /\ ~QueueFull
    /\ xNetworkEventQueue' = Append(xNetworkEventQueue,
                                    MgmtEvent(ReplyOp[pxMsg.op], pxMsg.port, pxMsg.id))
    /\ xMutex' = None
    /\ Done
    /\ UNCHANGED <<xAppConnections, xPendingReqs, xWaitCond, invoke_id,
                   pxTaskReq, answered>>

(* Encoding or the network buffer failed. *)
TaskOutputFails ==
    /\ pcTask = "output"
    /\ xMutex' = None
    /\ Done
    /\ UNCHANGED <<xNetworkEventQueue, xAppConnections, xPendingReqs, xWaitCond,
                   invoke_id, pxTaskReq, answered>>

TaskRuns == \/ TaskSendMgmt             \/ prvRibHandleConnect
            \/ xRibConnectionAdd        \/ xRibConnectionAddFull
            \/ prvRibHandleConnectReply \/ prvRibHandleRelease
            \/ TaskRefuses              \/ prvEnrollmentHandleOperationalStart
            \/ prvRibHandleAnyReply     \/ TaskFindPending
            \/ TaskFindMethod           \/ TaskDeliver
            \/ TaskSignal               \/ TaskLock
            \/ TaskOutput
-----------------------------------------------------------------------------
TaskLabels == {"loop", "add", "lock", "output", "find", "object", "deliver",
               "signal", "crashed"}

RibTypeOK ==
    /\ xNetworkEventQueue \in Seq(Event)
    /\ xMutex \in Procs \cup {Task, None}
    /\ xAppConnections \in [ConnRows -> appConnection]
    /\ xPendingReqs \in [ReqRows -> ribPendingReq]
    /\ xWaitCond \in [ReqRows -> SUBSET Procs]
    /\ invoke_id \in Nat \ {0}
    /\ pcTask \in TaskLabels
    /\ pxMsg \in Event \cup {None}
    /\ pxTaskReq \in ReqRows \cup {0}
    /\ answered \subseteq Nat

(* A port has at most one application connection, whatever the order of the  *)
(* connects, releases and replies of its peer: a second row would survive    *)
(* the release of the first (Ribd.c, 363 to 367).                           *)
OneConnectionPerPort ==
    \A i, j \in ConnRows :
        /\ xAppConnections[i].xStatus # "RELEASED"
        /\ xAppConnections[j].xStatus # "RELEASED"
        /\ xAppConnections[i].unPort = xAppConnections[j].unPort
        => i = j

(* No two pending requests carry the same invoke id (Ribd_requests.h: the    *)
(* "Number with which the request was sent"), so a reply finds its request.  *)
PendingDistinct ==
    \A i, j \in ReqRows :
        xPendingReqs[i].unInvokeID # 0
            /\ xPendingReqs[i].unInvokeID = xPendingReqs[j].unInvokeID => i = j

(* A reply to the request in row i was received, or one with the id 0, which  *)
(* is found in a free row and may come when a request has taken it.          *)
AnsweredRow(i) == xPendingReqs[i].unInvokeID \in answered \/ 0 \in answered

(* What the IPCP task knows of the message it handles: it is about to add a  *)
(* connection only for a port without one, and deliver to the row that has   *)
(* the id of the reply. Part of the inductive invariant of the proofs.       *)
TaskInv ==
    /\ pcTask # "loop" => pxMsg \in Event
    /\ pcTask \in {"add", "lock", "output"} => pxMsg.op \in DOMAIN ReplyOp
    /\ pcTask = "output" => xMutex = Task
    /\ pcTask = "add" =>
         \A i \in ConnRows : xAppConnections[i].xStatus # "RELEASED" =>
             xAppConnections[i].unPort # pxMsg.port
    /\ pcTask = "find" => (pxMsg.op = "M_STOP_R" => pxMsg.id \in answered)
    /\ pcTask \in {"object", "deliver", "signal"} => pxTaskReq \in ReqRows
    /\ pcTask = "object" => (pxMsg.op = "M_STOP_R" => AnsweredRow(pxTaskReq))
    /\ pcTask \in {"deliver", "signal"} => AnsweredRow(pxTaskReq)
    /\ \A i \in ReqRows : xPendingReqs[i].pxResp => AnsweredRow(i)
=============================================================================
