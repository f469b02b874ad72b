---------------------------- MODULE Enrollment ----------------------------
(***************************************************************************)
(* Inbound enrollment (components/Enrollment) on top of the RIB daemon: the *)
(* M_START of a peer makes the IPCP task create a thread that answers it,   *)
(* creates the neighbors in the peer, sends M_STOP and waits for the reply, *)
(* and starts the operational status object.  The threads share the RIB     *)
(* mutex, the pending requests, the event queue, and the private data of    *)
(* the one enrollment object.                                              *)
(***************************************************************************)
EXTENDS Ribd

VARIABLES pvPriv,        \* enrollmentObjectData_t: unPort and unStartInvokeId
          pc,            \* where each enrollment process is
          stage,         \* the message it sends
          unPort,        \* the port argument of its current RIB call
          unInvokeId,    \* the invoke id of its current RIB call
          pxPendingReq   \* the row on which it waits

procVars == <<pvPriv, pc, stage, unPort, unInvokeId, pxPendingReq>>
vars     == <<ribVars, procVars>>

Stages == {"start", "create", "stop", "ops"}
Labels == {"unused", "args", "lock", "output", "find", "check", "enter", "wait",
           "not_pending", "finished", "failed"}

Init ==
    /\ RibInit
    /\ pvPriv = [unPort |-> 0, unStartInvokeId |-> 0]
    /\ pc = [p \in Procs |-> "unused"]
    /\ stage = [p \in Procs |-> "start"]
    /\ unPort = [p \in Procs |-> 0]
    /\ unInvokeId = [p \in Procs |-> 0]
    /\ pxPendingReq = [p \in Procs |-> 0]

Goto(p, label) == pc' = [pc EXCEPT ![p] = label]

(* Leave the current block of xEnrollmentInboundProcess for the next one. *)
GotoStage(p, s) ==
    /\ stage' = [stage EXCEPT ![p] = s]
    /\ Goto(p, "args")
-----------------------------------------------------------------------------
(* The IPCP task writes the data of the object and creates the thread; the   *)
(* creation fails when there is no thread left. The connection is used       *)
(* without a test for NULL.                                                 *)
prvEnrollmentObjectStart ==
    /\ Incoming({"M_START"})
    /\ IF pxAppCon = 0
       THEN Continue("crashed") /\ UNCHANGED procVars
       ELSE /\ pvPriv' = [unPort |-> xAppConnections[pxAppCon].unPort,
                          unStartInvokeId |-> Msg.id]
            /\ IF \E p \in Procs : pc[p] = "unused"
               THEN \E p \in Procs :
                      /\ pc[p] = "unused"
                      /\ GotoStage(p, "start")
               ELSE UNCHANGED <<pc, stage>>
            /\ Done
            /\ UNCHANGED <<unPort, unInvokeId, pxPendingReq>>
    /\ UNCHANGED <<xMutex, xAppConnections, xPendingReqs, xWaitCond, invoke_id,
                   pxTaskReq, answered>>
-----------------------------------------------------------------------------
(* The arguments of a RIB call are read from the shared data, unprotected,   *)
(* before the call locks the RIB.                                           *)
ReadArguments(p) ==
    /\ pc[p] = "args"
    /\ unPort' = [unPort EXCEPT ![p] = pvPriv.unPort]
    /\ unInvokeId' = [unInvokeId EXCEPT ![p] =
                          IF stage[p] = "start" THEN pvPriv.unStartInvokeId ELSE 0]
    /\ Goto(p, "lock")
    /\ UNCHANGED <<ribVars, pvPriv, stage, pxPendingReq>>

(* xRibObjectReply: M_START_R. *)
xRibObjectReply(p) ==
    /\ pc[p] = "lock"
    /\ stage[p] = "start"
    /\ xMutex = None
    /\ xMutex' = p
    /\ Goto(p, "output")
    /\ UNCHANGED <<xNetworkEventQueue, xAppConnections, xPendingReqs, xWaitCond,
                   invoke_id, pcTask, pxMsg, pxTaskReq, answered, pvPriv, stage,
                   unPort, unInvokeId, pxPendingReq>>

(* xRibObjectQuery, RIB_QUERY_TYPE_CMD: an invoke id is drawn, then replaced *)
(* by 0 in the message.                                                     *)
QueryCommand(p) ==
    /\ pc[p] = "lock"
    /\ stage[p] \in {"create", "ops"}
    /\ xMutex = None
    /\ xMutex' = p
    /\ invoke_id' = AfterInvokeId
    /\ Goto(p, "output")
    /\ UNCHANGED <<xNetworkEventQueue, xAppConnections, xPendingReqs, xWaitCond,
                   pcTask, pxMsg, pxTaskReq, answered, pvPriv, stage, unPort,
                   unInvokeId, pxPendingReq>>

(* Fault: the request is sent without a row among the pending ones. *)
QueryUntracked(p) ==
    /\ pc[p] = "lock"
    /\ stage[p] = "stop"
    /\ xMutex = None
    /\ invoke_id' = AfterInvokeId
    /\ unInvokeId' = [unInvokeId EXCEPT ![p] = NextInvokeId]
    /\ xMutex' = p
    /\ Goto(p, "output")
    /\ UNCHANGED <<xNetworkEventQueue, xAppConnections, xPendingReqs, xWaitCond,
                   pcTask, pxMsg, pxTaskReq, answered, pvPriv, stage, unPort,
                   pxPendingReq>>

(* xRibObjectQuery, RIB_QUERY_TYPE_SYNC: the invoke id goes to the caller    *)
(* and into a free row of the pending requests. Rows are never given back.   *)
QuerySync(p) ==
    /\ pc[p] = "lock"
    /\ stage[p] = "stop"
    /\ xMutex = None
    /\ invoke_id' = AfterInvokeId
    /\ unInvokeId' = [unInvokeId EXCEPT ![p] = NextInvokeId]
    /\ IF FreeReqRow = 0
       THEN Goto(p, "failed") /\ UNCHANGED <<xMutex, xPendingReqs>>
       ELSE /\ xPendingReqs' = [xPendingReqs EXCEPT ![FreeReqRow] =
                                   [FreeReq EXCEPT !.unInvokeID = NextInvokeId]]
            /\ xMutex' = p
            /\ Goto(p, "output")
    /\ UNCHANGED <<xNetworkEventQueue, xAppConnections, xWaitCond, pcTask, pxMsg,
                   pxTaskReq, answered, pvPriv, stage, unPort, pxPendingReq>>

StageOp == [start |-> "M_START_R", create |-> "M_CREATE", stop |-> "M_STOP",
            ops |-> "M_START"]

(* prvRibNormalOutgoing succeeds, and the RIB call with it. *)
prvRibNormalOutgoing(p) ==
    /\ pc[p] = "output"
    /\ ~QueueFull
    /\ xNetworkEventQueue' = Append(xNetworkEventQueue,
                                    MgmtEvent(StageOp[stage[p]], unPort[p], unInvokeId[p]))
    /\ xMutex' = None
    /\ CASE stage[p] = "start"  -> GotoStage(p, "create")
         [] stage[p] = "create" -> GotoStage(p, "stop")
         [] stage[p] = "stop"   -> Goto(p, "find") /\ UNCHANGED stage
         [] stage[p] = "ops"    -> Goto(p, "finished") /\ UNCHANGED stage
    /\ UNCHANGED <<xAppConnections, xPendingReqs, xWaitCond, invoke_id, pcTask,
                   pxMsg, pxTaskReq, answered, pvPriv, unPort, unInvokeId,
                   pxPendingReq>>

(* Fault: the send waits without a timeout while it owns the mutex. *)
OutgoingNoTimeout(p) ==
    /\ pc[p] = "output"
    /\ ~QueueFull
    /\ xMutex' = None
    /\ Goto(p, "failed")
    /\ UNCHANGED <<xNetworkEventQueue, xAppConnections, xPendingReqs, xWaitCond,
                   invoke_id, pcTask, pxMsg, pxTaskReq, answered, pvPriv, stage,
                   unPort, unInvokeId, pxPendingReq>>

(* Encoding or the network buffer failed, or the queue was still full after  *)
(* the timeout of a thread that is not the IPCP task.                       *)
OutgoingFails(p) ==
    /\ pc[p] = "output"
    /\ xMutex' = None
    /\ Goto(p, "failed")
    /\ UNCHANGED <<xNetworkEventQueue, xAppConnections, xPendingReqs, xWaitCond,
                   invoke_id, pcTask, pxMsg, pxTaskReq, answered, pvPriv, stage,
                   unPort, unInvokeId, pxPendingReq>>
-----------------------------------------------------------------------------
(* xRibObjectWaitReply: the row is found under the mutex. Without one the    *)
(* caller would go on to test a variable nobody has set.                    *)
WaitFind(p) ==
    /\ pc[p] = "find"
    /\ xMutex = None
    /\ pxPendingReq' = [pxPendingReq EXCEPT ![p] = xRibFindPendingResponse(unInvokeId[p])]
    /\ Goto(p, IF pxPendingReq'[p] = 0 THEN "not_pending" ELSE "check")
    /\ UNCHANGED <<ribVars, pvPriv, stage, unPort, unInvokeId>>

(* The reply may be there already; it is looked at without the row's mutex.  *)
WaitCheck(p) ==
    /\ pc[p] = "check"
    /\ IF xPendingReqs[pxPendingReq[p]].pxResp
       THEN GotoStage(p, "ops")
       ELSE Goto(p, "enter") /\ UNCHANGED stage
    /\ UNCHANGED <<ribVars, pvPriv, unPort, unInvokeId, pxPendingReq>>

(* The row's mutex is locked, and released by pthread_cond_timedwait. *)
WaitEnter(p) ==
    /\ pc[p] = "enter"
    /\ xPendingReqs[pxPendingReq[p]].xMutex = None
    /\ xWaitCond' = [xWaitCond EXCEPT ![pxPendingReq[p]] = @ \cup {p}]
    /\ Goto(p, "wait")
    /\ UNCHANGED <<xNetworkEventQueue, xMutex, xAppConnections, xPendingReqs,
                   invoke_id, pcTask, pxMsg, pxTaskReq, answered, pvPriv, stage,
                   unPort, unInvokeId, pxPendingReq>>

Asleep(p) == pc[p] = "wait" /\ p \in xWaitCond[pxPendingReq[p]]

(* Fault: the wait has no timeout. *)
WaitForever(p) == FALSE

(* ETIMEDOUT: the function returns with the row's mutex still locked. *)
WaitTimeout(p) ==
    /\ Asleep(p)
    /\ xPendingReqs[pxPendingReq[p]].xMutex = None
    /\ xWaitCond' = [xWaitCond EXCEPT ![pxPendingReq[p]] = @ \ {p}]
    /\ xPendingReqs' = [xPendingReqs EXCEPT ![pxPendingReq[p]].xMutex = p]
    /\ Goto(p, "failed")
    /\ UNCHANGED <<xNetworkEventQueue, xMutex, xAppConnections, invoke_id, pcTask,
                   pxMsg, pxTaskReq, answered, pvPriv, stage, unPort, unInvokeId,
                   pxPendingReq>>

(* POSIX lets a wait on a condition end without a signal. *)
SpuriousWakeup(p) ==
    /\ Asleep(p)
    /\ xWaitCond' = [xWaitCond EXCEPT ![pxPendingReq[p]] = @ \ {p}]
    /\ UNCHANGED <<xNetworkEventQueue, xMutex, xAppConnections, xPendingReqs,
                   invoke_id, pcTask, pxMsg, pxTaskReq, answered, procVars>>

(* Fault: any wake-up counts as a reply. *)
WaitReturnUnchecked(p) ==
    /\ pc[p] = "wait"
    /\ ~Asleep(p)
    /\ GotoStage(p, "ops")
    /\ UNCHANGED <<ribVars, pvPriv, unPort, unInvokeId, pxPendingReq>>

(* The wait is over: pxResp is copied to nStopReply, which must be 1. *)
WaitReturn(p) ==
    /\ pc[p] = "wait"
    /\ ~Asleep(p)
    /\ xPendingReqs[pxPendingReq[p]].xMutex = None
    /\ IF xPendingReqs[pxPendingReq[p]].pxResp
       THEN GotoStage(p, "ops")
       ELSE Goto(p, "failed") /\ UNCHANGED stage
    /\ UNCHANGED <<ribVars, pvPriv, unPort, unInvokeId, pxPendingReq>>
-----------------------------------------------------------------------------
ProcRuns(p) == \/ ReadArguments(p) \/ xRibObjectReply(p)      \/ QueryCommand(p)
               \/ QuerySync(p)     \/ prvRibNormalOutgoing(p) \/ WaitFind(p)
               \/ WaitCheck(p)     \/ WaitEnter(p)            \/ WaitTimeout(p)
               \/ WaitReturn(p)

TaskRun == prvEnrollmentObjectStart \/ (TaskRuns /\ UNCHANGED procVars)

Fault == \/ TaskOutputFails /\ UNCHANGED procVars
         \/ \E p \in Procs : OutgoingFails(p) \/ SpuriousWakeup(p)

Peer == \E m \in PeerMessages : PeerSend(m) /\ UNCHANGED procVars

Running == pcTask # "crashed"

(* A NULL connection stops the whole program. *)
Next == Running /\ (TaskRun \/ (\E p \in Procs : ProcRuns(p)) \/ Fault \/ Peer)

Spec == Init /\ [][Next]_vars

(* Threads that can run do run, and a thread that waits for a place in the   *)
(* queue is given one or times out. Peers need not send anything, nor        *)
(* allocations fail.                                                        *)
FairSpec ==
    /\ Spec
    /\ WF_vars(Running /\ TaskRun)
    /\ \A p \in Procs :
          WF_vars(Running /\ (ProcRuns(p) \/ (QueueFull /\ OutgoingFails(p))))
-----------------------------------------------------------------------------
TypeOK ==
    /\ RibTypeOK
    /\ pvPriv \in [unPort : Ports \cup {0}, unStartInvokeId : Nat]
    /\ pc \in [Procs -> Labels]
    /\ stage \in [Procs -> Stages]
    /\ unPort \in [Procs -> Ports \cup {0}]
    /\ unInvokeId \in [Procs -> Nat]
    /\ pxPendingReq \in [Procs -> ReqRows \cup {0}]

(* Mutual exclusion: a process that builds and sends a message owns the RIB  *)
(* mutex, and owns it for nothing else (Ribd_requests.c, every path of       *)
(* xRibObjectQuery and xRibObjectReply).                                     *)
MutexOwner == \A p \in Procs : xMutex = p <=> pc[p] = "output"

(* An enrollment that goes past M_STOP does so because the peer answered the *)
(* M_STOP of this very process: not for a wake-up without a reply, nor for   *)
(* the reply to another process (Enrollment_Inbound.c, 107 to 122). A reply   *)
(* with the invoke id 0 answers any request that takes the free row it was    *)
(* found in before the object of the row is looked up (Ribd.c, 299 to 303).  *)
EnrolledMeansAnswered ==
    \A p \in Procs : stage[p] = "ops" => \E i \in ReqRows :
        /\ i = pxPendingReq[p]
        /\ xPendingReqs[i].pxResp
        /\ AnsweredRow(i)

(* A request that was sent is pending when its sender looks it up, so that   *)
(* xRibObjectWaitReply never returns ERR_RIB_NOT_PENDING: its caller only    *)
(* tests for a timeout and would use an uninitialised reply.                *)
StopIsPending == \A p \in Procs : pc[p] # "not_pending"

(* No two processes wait on the same row, so one reply wakes its process.    *)
OwnRow == \A p, q \in Procs :
    pxPendingReq[p] # 0 /\ pxPendingReq[p] = pxPendingReq[q] => p = q

(* Each process that waits, or has been answered, has a row of its request:  *)
(* rows are never freed, so it stays there. Part of the inductive invariant.  *)
RowInv ==
    \A p \in Procs :
        /\ pc[p] \in {"find", "check", "enter", "wait"} => stage[p] = "stop"
        /\ pc[p] \in {"check", "enter", "wait"} \/ stage[p] = "ops" =>
             /\ pxPendingReq[p] \in ReqRows
             /\ xPendingReqs[pxPendingReq[p]].unInvokeID # 0
        /\ stage[p] = "ops" => xPendingReqs[pxPendingReq[p]].pxResp
        /\ pc[p] = "find" \/ (pc[p] = "output" /\ stage[p] = "stop") =>
             /\ unInvokeId[p] # 0
             /\ \E i \in ReqRows : xPendingReqs[i].unInvokeID = unInvokeId[p]

(* The inductive invariant of the proofs. *)
EnrollInv == /\ TypeOK /\ OneConnectionPerPort /\ MutexOwner
             /\ TaskInv /\ RowInv /\ StopIsPending

(* The task hangs: it left xRibConnectionAdd with the mutex when the table    *)
(* was full (Ribd_connections.c:46), or posts into its own full queue         *)
(* without a timeout (IPCP.c:457).                                          *)
TaskHangs == \/ xMutex = Task /\ pcTask # "output"
             \/ pcTask = "output" /\ QueueFull

(* These are the only ways the task may fail to get back to its loop from a  *)
(* message: the mutex it waits for may be held by a process that waits for a  *)
(* place in the queue only the task empties, and the timeout of the process   *)
(* resolves it (Ribd.c:443, xSendEventStructToIPCPTask with 1000).           *)
TaskReturns == pcTask # "loop" ~> pcTask \in {"loop", "crashed"} \/ TaskHangs

(* Every enrollment process ends: no reply, no lost wake-up and no other     *)
(* process keeps it for ever.                                               *)
ProcessesEnd ==
    \A p \in Procs : pc[p] # "unused" ~>
        pc[p] \in {"finished", "failed"} \/ pcTask = "crashed"
=============================================================================
