---------------------------- MODULE FlowRequest ----------------------------
(***************************************************************************)
(* Flow requests of applications (components/RINA_API, FlowAllocator and    *)
(* the flows of IPCP/normalIPCP.c). RINA_flow_alloc runs on the thread of    *)
(* the application: it lets the IPCP task bind the flow, waits for the event *)
(* bit, and then does the flow allocator's and EFCP's work itself, without a *)
(* lock. The task answers bindings, and delivers the response of the peer    *)
(* and its data. A flow, its handle and its allocator instance are named by  *)
(* the port of the request. Ports are given out one by one (NumMgr).         *)
(***************************************************************************)
EXTENDS Efcp, Sequences, FiniteSetsExt

CONSTANTS
    Apps,           \* application threads
    MaxPort,        \* bound on the number of requests
    CFG_FLOWS_REQUEST, \* rows of the table of the flow allocator
    QueueLen,       \* length of the event queue of the task
    MaxInbox,       \* bound on the packets that wait for a reader
    MaxFailures,    \* bound on the allocations that fail
    MaxWrites,      \* bound on the calls that write or close
    MaxRx,          \* bound on the PDUs that arrive
    AssertAborts,   \* TRUE: RsAssert stops the program (assert); FALSE: it does not
    AllCalled       \* TRUE: pxEnrollmentCreateNeighInfo, xFlowAllocatorHandleCreateR and
                    \* xRmtAddressAdd, which the code defines and does not call, are
                    \* called; FALSE: no neighbor, response or data ever comes

ASSUME FlowAssumption ==
    /\ MaxPort \in Nat /\ CFG_FLOWS_REQUEST \in Nat \ {0} /\ QueueLen \in Nat \ {0}
    /\ MaxInbox \in Nat /\ MaxFailures \in Nat /\ MaxWrites \in Nat /\ MaxRx \in Nat
    /\ AssertAborts \in BOOLEAN /\ AllCalled \in BOOLEAN

VARIABLES
    program,   \* "runs", or how it ended
    queue,     \* xNetworkEventQueue
    task,      \* what the IPCP task does, and for which port
    flows,     \* xFlowsList of the normal IPC process
    table,     \* xFlowRequestTable: the port of the instance in each row, 0 if invalid
    allocated, \* the ports whose instance is eFAI_ALLOCATED
    handle,    \* event bits and waiting packets of each flow handle
    pc, port,  \* where each application thread is, and with which request
    row,       \* the row it found free
    owned,     \* the ports RINA_flow_alloc returned to it
    nextPort,  \* the port the next request gets
    neighbor,  \* whether the neighbor of CFG_REMOTE_ADDRESS_AP_NAME is known
    failures,  \* allocations that failed
    writes,    \* calls of RINA_flow_write and RINA_close so far
    received,  \* PDUs that arrived so far
    unbound,   \* history: ports whose xNormalFlowPrebind had no memory
    overwrote  \* history: a thread wrote a row that another had just taken

taskVars == <<queue, task>>
faVars   == <<table, allocated, overwrote>>
appVars  == <<pc, port, row, owned, nextPort>>
envVars  == <<neighbor, failures, writes, received>>
vars == <<program, taskVars, flows, unbound, faVars, handle, appVars, envVars, conn>>

Ports == 1 .. MaxPort
Rows  == 1 .. CFG_FLOWS_REQUEST
Bits  == {"BOUND", "RECEIVE"}
Labels == {"idle", "bind", "bound", "instance", "row", "next_hop", "connect", "cep",
           "no_cep", "timer", "wait", "reading", "popping"}
Event(type, p) == [type |-> type, port |-> p]

Init ==
    /\ program = "runs"
    /\ queue = <<>> /\ task = Event("idle", 0)
    /\ flows = <<>> /\ unbound = {}
    /\ table = [r \in Rows |-> 0] /\ allocated = {} /\ overwrote = FALSE
    /\ handle = [p \in Ports |-> [bits |-> {}, inbox |-> 0]]
    /\ pc = [a \in Apps |-> "idle"] /\ port = [a \in Apps |-> 0]
    /\ row = [a \in Apps |-> 0] /\ owned = [a \in Apps |-> {}]
    /\ nextPort = 1
    /\ neighbor = FALSE /\ failures = 0 /\ writes = 0 /\ received = 0
    /\ EfcpInit

At(a, label)    == program = "runs" /\ pc[a] = label
Goto(a, label)  == pc' = [pc EXCEPT ![a] = label]
MemoryFails     == failures < MaxFailures /\ failures' = failures + 1
Stops(how)      == program' = how

(* prvNormalFindFlow: the first flow of the list with the port. *)
FlowsOf(p) == {i \in 1 .. Len(flows) : flows[i].port = p}
FirstFlow(p) == Min(FlowsOf(p))

(* RINA_flowStatus, xNormalIsFlowAllocated. *)
FlowAllocated(p) == FlowsOf(p) # {} /\ flows[FirstFlow(p)].allocated

(* pxFAFindInstance, pxFAFindFlowHandle: for every valid row it is the port  *)
(* of the first row that is compared.                                       *)
pxFAFindInstance(p) == \E r \in Rows : table[r] # 0 /\ table[1] = p

-----------------------------------------------------------------------------
(* Applications. Sending waits while the queue is full: the timeout is 0.    *)
Send(e) == Len(queue) < QueueLen /\ queue' = Append(queue, e)

(* prvRINACreateFlowRequest; without memory RINA_flow_alloc uses NULL. *)
FlowAlloc(a) ==
    /\ At(a, "idle") /\ nextPort <= MaxPort
    /\ port' = [port EXCEPT ![a] = nextPort]
    /\ nextPort' = nextPort + 1
    /\ Goto(a, "bind")
    /\ UNCHANGED <<program, taskVars, flows, unbound, faVars, handle, row, owned, envVars, conn>>

FlowAllocFails(a) ==
    /\ At(a, "idle") /\ nextPort <= MaxPort /\ MemoryFails
    /\ Stops("null_handle")
    /\ UNCHANGED <<taskVars, flows, unbound, faVars, handle, appVars, neighbor, writes, received, conn>>

(* xRINA_bind: the event. *)
BindSend(a) ==
    /\ At(a, "bind") /\ Send(Event("bind", port[a])) /\ Goto(a, "bound")
    /\ UNCHANGED <<program, task, flows, unbound, faVars, handle, port, row, owned, nextPort,
                   envVars, conn>>

(* The queue has no memory for the event, for a binding or for the timer. *)
SendFails(a) ==
    /\ At(a, "bind") \/ At(a, "timer")
    /\ MemoryFails /\ Goto(a, "wait")
    /\ UNCHANGED <<program, taskVars, flows, unbound, faVars, handle, port, row, owned,
                   nextPort, neighbor, writes, received, conn>>

(* prvWaitForBit. To clear the bit it sets all the others. *)
Cleared(bits, bit) == bits \cup (Bits \ {bit})

(* Fault: the wait ends without the bit. *)
WaitBoundNot(a) ==
    /\ At(a, "bound")
    /\ handle' = [handle EXCEPT ![port[a]].bits = Cleared(@, "BOUND")]
    /\ Goto(a, "instance")
    /\ UNCHANGED <<program, taskVars, flows, unbound, faVars, port, row, owned, nextPort,
                   envVars, conn>>

WaitBound(a) ==
    /\ At(a, "bound") /\ "BOUND" \in handle[port[a]].bits
    /\ handle' = [handle EXCEPT ![port[a]].bits = Cleared(@, "BOUND")]
    /\ Goto(a, "instance")
    /\ UNCHANGED <<program, taskVars, flows, unbound, faVars, port, row, owned, nextPort,
                   envVars, conn>>

(* vFlowAllocatorFlowRequest: the instance, *)
NewInstance(a) ==
    /\ At(a, "instance")
    /\ \/ Goto(a, "row") /\ UNCHANGED failures
       \/ Goto(a, "timer") /\ MemoryFails
    /\ UNCHANGED <<program, taskVars, flows, unbound, faVars, handle, port, row, owned,
                   nextPort, neighbor, writes, received, conn>>

(* the search of a free row, which may be none, *)
FindRow(a) ==
    /\ At(a, "row") /\ row[a] = 0
    /\ \/ \E r \in Rows :
            /\ table[r] = 0 /\ \A s \in 1 .. r - 1 : table[s] # 0
            /\ row' = [row EXCEPT ![a] = r]
            /\ UNCHANGED pc
       \/ /\ \A r \in Rows : table[r] # 0
          /\ Goto(a, "next_hop")
          /\ UNCHANGED row
    /\ UNCHANGED <<program, taskVars, flows, unbound, faVars, handle, port, owned, nextPort,
                   envVars, conn>>

(* the row, *)
SetRow(a) ==
    /\ At(a, "row") /\ row[a] # 0
    /\ table' = [table EXCEPT ![row[a]] = port[a]]
    /\ overwrote' = (overwrote \/ table[row[a]] # 0)
    /\ row' = [row EXCEPT ![a] = 0]
    /\ Goto(a, "next_hop")
    /\ UNCHANGED <<program, taskVars, flows, unbound, allocated, handle, port, owned, nextPort,
                   envVars, conn>>

(* and the next hop. *)
NextHop(a) ==
    /\ At(a, "next_hop")
    /\ Goto(a, IF neighbor THEN "connect" ELSE "timer")
    /\ UNCHANGED <<program, taskVars, flows, unbound, faVars, handle, port, row, owned,
                   nextPort, envVars, conn>>

(* Without memory for the flow object its address is set through NULL. *)
FlowMissing(a) ==
    /\ At(a, "next_hop") /\ neighbor /\ MemoryFails
    /\ Stops("null_flow")
    /\ UNCHANGED <<taskVars, flows, unbound, faVars, handle, appVars, neighbor, writes, received, conn>>

(* xNormalConnectionCreateRequest: PDUs find the instance from here on.      *)
(* Nothing sets the pxRmt of the container that pxDtpCreate asserts. Without  *)
(* memory there is no endpoint, or xEfcpDestroy reads a pointer that was      *)
(* never set.                                                               *)
Connect(a) ==
    /\ At(a, "connect")
    /\ IF AssertAborts
       THEN Stops("no_rmt") /\ UNCHANGED <<conn, pc>>
       ELSE ConnectionCreate(port[a]) /\ Goto(a, "cep") /\ UNCHANGED program
    /\ UNCHANGED <<taskVars, flows, unbound, faVars, handle, port, row, owned, nextPort, envVars>>

ConnectFails(a) ==
    /\ At(a, "connect") /\ MemoryFails
    /\ \/ Goto(a, "no_cep") /\ UNCHANGED program
       \/ Stops("undefined") /\ UNCHANGED pc
    /\ UNCHANGED <<taskVars, flows, unbound, faVars, handle, port, row, owned, nextPort, neighbor,
                   writes, received, conn>>

(* xNormalUpdateCepIdFlow: the flow gets the endpoint, or CEP_ID_WRONG. *)
SetCep(p, known) ==
    flows' = IF FlowsOf(p) = {} THEN flows
             ELSE [flows EXCEPT ![FirstFlow(p)].cep = known]

UpdateCep(a) ==
    /\ At(a, "cep") \/ At(a, "no_cep")
    /\ SetCep(port[a], pc[a] = "cep")
    /\ Goto(a, "timer")
    /\ UNCHANGED <<program, taskVars, unbound, faVars, handle, port, row, owned, nextPort, envVars,
                   conn>>

(* The rest of prvConnect, and the loop of RINA_flow_alloc: it leaves in its *)
(* first pass, because a time that could be read counts as an error. The     *)
(* port is returned whatever happened.                                      *)
Returns(a) == owned' = [owned EXCEPT ![a] = @ \cup {port[a]}]

TimerSend(a) ==
    /\ At(a, "timer") /\ Send(Event("timer", port[a]))
    /\ Goto(a, "idle") /\ Returns(a)
    /\ UNCHANGED <<program, task, flows, unbound, faVars, handle, port, row, nextPort, envVars,
                   conn>>

Wait(a) ==
    /\ At(a, "wait")
    /\ Goto(a, "idle") /\ Returns(a)
    /\ UNCHANGED <<program, taskVars, flows, unbound, faVars, handle, port, row, nextPort,
                   envVars, conn>>
-----------------------------------------------------------------------------
(* RINA_flow_write and RINA_close post events that the task ignores. *)
WriteOrClose(a) ==
    /\ At(a, "idle") /\ writes < MaxWrites /\ writes' = writes + 1
    /\ \E p \in owned[a], type \in {"tx", "deallocate"} : Send(Event(type, p))
    /\ UNCHANGED <<program, task, flows, unbound, faVars, handle, appVars, neighbor, failures,
                   received, conn>>

(* RINA_flow_read of an allocated flow; without one it returns at once. *)
ReadBegin(a) ==
    /\ At(a, "idle")
    /\ \E p \in owned[a] :
         /\ FlowAllocated(p)
         /\ IF pxFAFindInstance(p)
            THEN /\ port' = [port EXCEPT ![a] = p]
                 /\ Goto(a, "reading")
                 /\ UNCHANGED program
            ELSE Stops("null_handle") /\ UNCHANGED <<pc, port>>
    /\ UNCHANGED <<taskVars, flows, unbound, faVars, handle, row, owned, nextPort, envVars, conn>>

(* The loop without packets does not look at the time that is left. *)
ReadWait(a) ==
    /\ At(a, "reading") /\ handle[port[a]].inbox = 0
    /\ "RECEIVE" \in handle[port[a]].bits
    /\ handle' = [handle EXCEPT ![port[a]].bits = Cleared(@, "RECEIVE")]
    /\ UNCHANGED <<program, taskVars, flows, unbound, faVars, appVars, envVars, conn>>

(* The packet is removed under the lock mux, and inserted under xMux: if     *)
(* both happen at once the list is undefined.                               *)
PopBegin(a) ==
    /\ At(a, "reading") /\ handle[port[a]].inbox > 0
    /\ IF task = Event("insert", port[a])
       THEN Stops("undefined") /\ UNCHANGED pc
       ELSE Goto(a, "popping") /\ UNCHANGED program
    /\ UNCHANGED <<taskVars, flows, unbound, faVars, handle, port, row, owned, nextPort,
                   envVars, conn>>

PopEnd(a) ==
    /\ At(a, "popping")
    /\ handle' = [handle EXCEPT ![port[a]].inbox = @ - 1]
    /\ Goto(a, "idle")
    /\ UNCHANGED <<program, taskVars, flows, unbound, faVars, port, row, owned, nextPort,
                   envVars, conn>>
-----------------------------------------------------------------------------
(* The IPCP task. *)
TaskAt(type)  == program = "runs" /\ task.type = type
Takes(types)  == /\ TaskAt("idle") /\ queue # <<>>
                 /\ Head(queue).type \in types
                 /\ queue' = Tail(queue)

(* Fault: the thread is not woken up. *)
WakesNobody(p, bit) == UNCHANGED handle

Wakes(p, bit) == handle' = [handle EXCEPT ![p].bits = @ \cup {bit}]

(* eFlowBindEvent: the flow is added, if there is memory, *)
xNormalFlowPrebind ==
    /\ Takes({"bind"})
    /\ task' = Event("wake", Head(queue).port)
    /\ \/ /\ flows' = Append(flows, [port |-> Head(queue).port, allocated |-> FALSE,
                                     cep |-> FALSE])
          /\ UNCHANGED <<unbound, failures>>
       \/ /\ MemoryFails
          /\ unbound' = unbound \cup {Head(queue).port}
          /\ UNCHANGED flows
    /\ UNCHANGED <<program, faVars, handle, appVars, neighbor, writes, received, conn>>

(* and the thread is woken up. *)
vRINA_WakeUpFlowRequest ==
    /\ TaskAt("wake")
    /\ Wakes(task.port, "BOUND")
    /\ task' = Event("idle", 0)
    /\ UNCHANGED <<program, queue, flows, unbound, faVars, appVars, envVars, conn>>

(* eFATimerEvent sets a timer nobody reads, the events of applications have   *)
(* no case, and most PDUs change nothing here.                              *)
TaskIgnores ==
    /\ Takes({"timer", "tx", "deallocate", "rx"})
    /\ UNCHANGED <<program, task, flows, unbound, faVars, handle, appVars, envVars, conn>>

(* pxEnrollmentCreateNeighInfo makes the peer a neighbor. *)
NeighborKnown ==
    /\ program = "runs" /\ AllCalled /\ ~neighbor /\ neighbor' = TRUE
    /\ UNCHANGED <<program, taskVars, flows, unbound, faVars, handle, appVars, failures, writes,
                   received, conn>>

(* A PDU arrives: eRinaRxEvent. *)
PeerSend ==
    /\ program = "runs" /\ received < MaxRx /\ received' = received + 1
    /\ Send(Event("rx", 0))
    /\ UNCHANGED <<program, task, flows, unbound, faVars, handle, appVars, neighbor, failures,
                   writes, conn>>

(* Fault: the response is not matched with an instance. *)
CreateRUnmatched ==
    /\ Takes({"rx"}) /\ AllCalled
    /\ \E p \in Ports :
         /\ Found
         /\ FlowsOf(p) # {}
         /\ flows' = [flows EXCEPT ![FirstFlow(p)].allocated = TRUE]
         /\ allocated' = allocated \cup {p}
         /\ Wakes(p, "BOUND")
    /\ UNCHANGED <<program, task, unbound, table, overwrote, appVars, envVars, conn>>

(* xFlowAllocatorHandleCreateR: the peer accepts the flow of a port. *)
xFlowAllocatorHandleCreateR ==
    /\ Takes({"rx"}) /\ AllCalled
    /\ \E p \in Ports :
         /\ pxFAFindInstance(p)
         /\ Found
         /\ FlowsOf(p) # {}
         /\ flows' = [flows EXCEPT ![FirstFlow(p)].allocated = TRUE]
         /\ allocated' = allocated \cup {p}
         /\ Wakes(p, "BOUND")
    /\ UNCHANGED <<program, task, unbound, table, overwrote, appVars, envVars, conn>>

(* xRmtReceive, xRmtProcessDtPdu, xEfcpContainerReceive: a DT PDU of the     *)
(* peer, whose header fields are read from its payload. Then                *)
(* xFlowAllocatorDuPost: only an allocated instance takes the packet.       *)
Accepted == pxFAFindInstance(conn.port) /\ conn.port \in allocated

ReceivePasses ==
    /\ Takes({"rx"}) /\ AllCalled
    /\ \E pdu \in Pdus : PassedUp(pdu) /\ xDtpReceive(pdu, Accepted)
    /\ handle[conn.port].inbox < MaxInbox
    /\ IF Accepted
       THEN IF \E a \in Apps : pc[a] = "popping" /\ port[a] = conn.port
            THEN Stops("undefined") /\ UNCHANGED task
            ELSE task' = Event("insert", conn.port) /\ UNCHANGED program
       ELSE UNCHANGED <<program, task>>
    /\ UNCHANGED <<flows, unbound, faVars, handle, appVars, envVars>>

InsertPacket ==
    /\ TaskAt("insert")
    /\ handle' = [handle EXCEPT ![task.port] =
                    [bits |-> @.bits \cup {"RECEIVE"}, inbox |-> @.inbox + 1]]
    /\ task' = Event("idle", 0)
    /\ UNCHANGED <<program, queue, flows, unbound, faVars, appVars, envVars, conn>>

ConnectionEnds ==
    /\ Takes({"rx"}) /\ AllCalled /\ ConnectionDestroy
    /\ UNCHANGED <<program, task, flows, unbound, faVars, handle, appVars, envVars>>
-----------------------------------------------------------------------------
AppWaits(a) == BindSend(a) \/ WaitBound(a) \/ TimerSend(a)
AppRuns(a)  == NewInstance(a) \/ FindRow(a) \/ SetRow(a) \/ NextHop(a) \/ Connect(a)
                 \/ UpdateCep(a) \/ Wait(a)
AppReads(a) == ReadBegin(a) \/ ReadWait(a) \/ PopBegin(a) \/ PopEnd(a)
App(a)      == AppWaits(a) \/ AppRuns(a) \/ AppReads(a) \/ FlowAlloc(a) \/ FlowAllocFails(a)
                 \/ SendFails(a) \/ FlowMissing(a) \/ ConnectFails(a) \/ WriteOrClose(a)
Events == xNormalFlowPrebind \/ vRINA_WakeUpFlowRequest \/ TaskIgnores \/ InsertPacket
            \/ xFlowAllocatorHandleCreateR \/ ReceivePasses \/ ConnectionEnds
Peer   == NeighborKnown \/ PeerSend
Next   == (\E a \in Apps : App(a)) \/ Events \/ Peer

Spec == Init /\ [][Next]_vars

(* The task keeps taking events, and a thread that can go on does so, also   *)
(* when it waits for room or for its bit. Nothing is asked of the peer, of   *)
(* the reader, or of what an application does next.                         *)
FairSpec ==
    /\ Spec
    /\ WF_vars(Events)
    /\ \A a \in Apps : WF_vars(AppWaits(a) \/ AppRuns(a))
-----------------------------------------------------------------------------
QueueEvents == [type : {"bind", "timer", "tx", "deallocate"}, port : Ports]
                 \cup [type : {"rx"}, port : {0}]
FlowRecords == [port : Ports, allocated : BOOLEAN, cep : BOOLEAN]

TaskTypeOK ==
    /\ queue \in Seq(QueueEvents) /\ Len(queue) <= QueueLen
    /\ task \in [type : {"idle"}, port : {0}] \cup [type : {"wake", "insert"}, port : Ports]
FlowsTypeOK == flows \in Seq(FlowRecords) /\ unbound \subseteq Ports
FaTypeOK ==
    table \in [Rows -> 0 .. MaxPort] /\ allocated \subseteq Ports /\ overwrote \in BOOLEAN
HandleTypeOK == handle \in [Ports -> [bits : SUBSET Bits, inbox : Nat]]
AppTypeOK ==
    /\ pc \in [Apps -> Labels] /\ port \in [Apps -> 0 .. MaxPort]
    /\ row \in [Apps -> 0 .. CFG_FLOWS_REQUEST] /\ owned \in [Apps -> SUBSET Ports]
    /\ nextPort \in 1 .. MaxPort + 1
    /\ \A a \in Apps : pc[a] # "idle" => port[a] # 0
EnvTypeOK ==
    /\ program \in {"runs", "null_handle", "null_flow", "no_rmt", "undefined"}
    /\ neighbor \in BOOLEAN /\ failures \in 0 .. MaxFailures
    /\ writes \in 0 .. MaxWrites /\ received \in 0 .. MaxRx
ConnTypeOK == EfcpTypeOK /\ conn.port <= MaxPort

TypeOK ==
    /\ TaskTypeOK /\ FlowsTypeOK /\ FaTypeOK /\ HandleTypeOK /\ AppTypeOK /\ EnvTypeOK
    /\ ConnTypeOK
    /\ \A a \in Apps : pc[a] = "popping" => handle[port[a]].inbox > 0

(* prvConnect waits for the binding before it creates the connection: the    *)
(* instance that PDUs find has a flow, whatever the other threads do, unless  *)
(* the task had no memory for it. The flow knows its endpoint, or the thread  *)
(* that made the instance is just about to store it: PDUs can come between.   *)
ConnectionHasFlow ==
    Found => \/ conn.port \in unbound
             \/ /\ FlowsOf(conn.port) # {}
                /\ \/ flows[FirstFlow(conn.port)].cep
                   \/ \E a \in Apps : pc[a] = "cep" /\ port[a] = conn.port

(* RINA_flow_read uses the handle it looks up without a test for NULL, and   *)
(* the lookup only ever finds the port of the first row. The handle is there *)
(* because the same lookup lets a flow be allocated; memory that ran out, or *)
(* two threads that took the same row, are what can still break it.         *)
NoNullHandle ==
    program = "null_handle" => failures > 0 \/ overwrote

(* RINA_flow_alloc returns: the binding is answered and events find room,    *)
(* also when the task has no memory for the flow.                           *)
RequestReturns ==
    \A a \in Apps : pc[a] \in Labels \ {"idle", "reading", "popping"}
                        ~> pc[a] = "idle" \/ program # "runs"
=============================================================================
