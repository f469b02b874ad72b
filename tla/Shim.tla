-------------------------------- MODULE Shim --------------------------------
(***************************************************************************)
(* The Ethernet shim (components/ShimIPCP), its ARP cache and the path of a *)
(* management PDU through shim, RMT and normal IPC process.                *)
(*                                                                         *)
(* Two threads share the shim: Net, the thread that reads frames from the   *)
(* interface, and Task, the IPCP task.  The table of flows is used under    *)
(* xLock, the rows of the ARP cache are used without any lock, although     *)
(* both threads add rows and only Task holds xLock while it does.           *)
(*                                                                         *)
(* What the RIB daemon does with a PDU is in module Ribd; here it answers   *)
(* or it does not.  A step is a critical section or one access to a row.    *)
(***************************************************************************)
EXTENDS Naturals, Sequences, FiniteSets, FiniteSetsExt

CONSTANTS Peers,                 \* hardware addresses of the peers
          Own,                   \* the hardware address of this node
          App, Daf,              \* the names that the normal IPCP registers
          OtherNames,            \* other protocol addresses, in rows or on the wire
          Requested,             \* those that ARP requests ask for
          SameAddress(_, _),     \* a row has the address that a request holds
          Text(_),               \* the name an address stands for
          Net, Task,             \* the two threads
          None,                  \* NULL
          Unknown,               \* no address: there was no memory for it
          Dangling,              \* a pointer to freed memory
          FlowSlots,             \* size of xFlows, 256 in ShimIPCP_instance.h
          MAX_PORT_ID,           \* rina_common_port.h
          CFG_ARP_CACHE_ENTRIES, \* configRINA_defaults.h
          unMaxItemCount,        \* size of xNetworkEventQueue
          ReplyPairs             \* <<pa, ha>> that ARP replies may carry

Threads  == {Net, Task}
OwnNames == {App, Daf}
Names    == OwnNames \cup OtherNames
Macs     == Peers \cup {Own}
Slots    == 0 .. FlowSlots - 1
Rows     == 1 .. CFG_ARP_CACHE_ENTRIES

(* The names rows are added for, and what stands for our own two.           *)
RowNames == OwnNames \cup {k[1] : k \in ReplyPairs}
OwnTexts == {Text(n) : n \in OwnNames}

(* PORT_ID_WRONG is outside the table of flows (256 entries, ports to 2047).  *)
ASSUME ShimAssumption ==
    /\ Own \notin Peers /\ App # Daf /\ Net # Task
    /\ {None, Unknown, Dangling} \cap (Macs \cup Names) = {}
    /\ None # Unknown /\ None # Dangling /\ Unknown # Dangling
    /\ None # Task
    /\ FlowSlots \in Nat \ {0} /\ MAX_PORT_ID \in Nat /\ MAX_PORT_ID >= 2
    /\ FlowSlots <= MAX_PORT_ID + 1
    /\ CFG_ARP_CACHE_ENTRIES \in Nat \ {0}
    /\ unMaxItemCount \in Nat \ {0}
    /\ Requested \subseteq Names
    /\ ReplyPairs \subseteq Names \X Macs

(* A comparison finds the row of the name that an address stands for (that   *)
(* this is so is AddressesResolve of Names); replies are true of our names.  *)
ASSUME NamesAssumption ==
    /\ Text(App) # Text(Daf)
    /\ \A n \in RowNames, w \in Names : SameAddress(n, w) <=> Text(n) = Text(w)
    /\ \A k \in ReplyPairs : k[2] = Own <=> Text(k[1]) \in OwnTexts

VARIABLES xFlows,             \* port -> address of the flow's peer, None if free
          xPorts,             \* N-1 ports bound in the RMT
          lastAllocated,      \* the port handed out last; ports never come back
          xNetworkEventQueue,
          xLock,              \* owner of the lock of the shim
          xCache,             \* the rows of the ARP cache
          pc,                 \* where each thread is
          xRow,               \* the row of the cache each thread looks at
          xKey,               \* the <<pa, ha>> it adds, copied beforehand
          xFrame,             \* the frame Net handles
          xHa,                \* the address Net uses: of the sender, or looked up
          unPort,             \* the port of the flow Net uses
          xEvent,             \* the event Task handles
          xRegistered,        \* what became of the registration
          mapped,             \* history: own names Task has a row for
          overlapped          \* history: both threads have added rows at once

flowVars  == <<xFlows, xPorts, lastAllocated>>
cacheVars == <<xCache, mapped>>
regVars   == <<xRegistered, overlapped>>
sharedVars == <<flowVars, xNetworkEventQueue, xLock, cacheVars, regVars>>
rowVars   == <<xRow, xKey>>
netVars   == <<xFrame, xHa, unPort>>
shimVars  == <<sharedVars, pc, rowVars, netVars, xEvent>>

FreeRow == [used |-> FALSE, pxPa |-> None, pxHa |-> None]
NoKey   == <<None, None>>
NoFrame == [type |-> "none", src |-> None, key |-> NoKey]

RinaFrame(m)     == [type |-> "rina", src |-> m, key |-> NoKey]
ArpRequest(n)    == [type |-> "request", src |-> None, key |-> <<n, None>>]
ArpReply(k)      == [type |-> "reply", src |-> None, key |-> k]
Frames == {RinaFrame(m) : m \in Peers}
            \cup {ArpRequest(n) : n \in Requested} \cup {ArpReply(k) : k \in ReplyPairs}

(* "from" is the sender of the PDU that the event carries or answers.       *)
EnrolledEvent      == [type |-> "enrolled", port |-> 0, from |-> None]
RinaRxEvent(m, p)   == [type |-> "rx", port |-> p, from |-> m]
SendMgmtEvent(m, p) == [type |-> "mgmt", port |-> p, from |-> m]
Event == [type : {"enrolled", "rx", "mgmt"}, port : Nat, from : Peers \cup {None}]

(* RINA_IPCPInit takes two ports for the ids of its IPC processes; the shim *)
(* is then started, and enabled by the task before its loop.               *)
Init ==
    /\ xFlows = [i \in Slots |-> None]
    /\ xPorts = {}
    /\ lastAllocated = 2
    /\ xNetworkEventQueue = <<>>
    /\ xLock = None
    /\ xCache = [r \in Rows |-> FreeRow] /\ mapped = {}
    /\ pc = [t \in Threads |-> IF t = Net THEN "off" ELSE "connect"]
    /\ xRow = [t \in Threads |-> 1] /\ xKey = [t \in Threads |-> NoKey]
    /\ xFrame = NoFrame /\ xHa = None /\ unPort = 0
    /\ xEvent = EnrolledEvent
    /\ xRegistered = "no"
    /\ overlapped = FALSE
-----------------------------------------------------------------------------
Goto(t, label) == pc' = [pc EXCEPT ![t] = label]

(* A thread at the end of its call: its locals are gone.                    *)
NetDone(label) ==
    /\ Goto(Net, label)
    /\ xRow' = [xRow EXCEPT ![Net] = 1] /\ xKey' = [xKey EXCEPT ![Net] = NoKey]
    /\ xFrame' = NoFrame /\ xHa' = None /\ unPort' = 0

TaskDone ==
    /\ Goto(Task, "loop")
    /\ xRow' = [xRow EXCEPT ![Task] = 1] /\ xKey' = [xKey EXCEPT ![Task] = NoKey]
    /\ xEvent' = EnrolledEvent

Queued    == xNetworkEventQueue
QueueFull == Len(Queued) >= unMaxItemCount

(* unIpcManagerReservePort, PORT_ID_WRONG when none is left.                *)
PORT_ID_WRONG == MAX_PORT_ID + 1
NextPort == IF lastAllocated < MAX_PORT_ID THEN lastAllocated + 1 ELSE PORT_ID_WRONG

ReservePort == lastAllocated' = IF lastAllocated < MAX_PORT_ID THEN NextPort
                                ELSE lastAllocated

(* Fault: only flows with a bound port are found.                            *)
FlowsBoundTo(ha) == {i \in Slots \cap xPorts : xFlows[i] = ha}

FlowsTo(ha) == {i \in Slots : xFlows[i] = ha}

(* An application asks for a flow (RINA_API.c:212).                         *)
AppReservePort ==
    /\ ReservePort
    /\ UNCHANGED <<xFlows, xPorts, xNetworkEventQueue, xLock, cacheVars, regVars, pc,
                   rowVars, netVars, xEvent>>
-----------------------------------------------------------------------------
(* Adding a row to the cache.  The pair of addresses was copied before.     *)
Adding == {"add", "mark", "setHa", "setPa"}

(* Fault: rows in use are not passed over.                                   *)
CacheTestNothing(t) ==
    /\ pc[t] = "add" /\ xRow[t] \in Rows
    /\ Goto(t, "mark")
    /\ UNCHANGED <<sharedVars, rowVars, netVars, xEvent>>

(* The row looks free.  Nothing keeps the other thread from the same row.   *)
CacheTest(t) ==
    /\ pc[t] = "add" /\ xRow[t] \in Rows
    /\ IF xCache[xRow[t]].used
       THEN xRow' = [xRow EXCEPT ![t] = @ + 1] /\ pc' = pc
       ELSE xRow' = xRow /\ Goto(t, "mark")
    /\ UNCHANGED <<sharedVars, xKey, netVars, xEvent>>

CacheMark(t) ==
    /\ pc[t] = "mark"
    /\ xCache' = [xCache EXCEPT ![xRow[t]].used = TRUE]
    /\ Goto(t, "setHa")
    /\ UNCHANGED <<flowVars, xNetworkEventQueue, xLock, mapped, regVars, rowVars,
                   netVars, xEvent>>

CacheSetHa(t) ==
    /\ pc[t] = "setHa"
    /\ xCache' = [xCache EXCEPT ![xRow[t]].pxHa = xKey[t][2]]
    /\ Goto(t, "setPa")
    /\ UNCHANGED <<flowVars, xNetworkEventQueue, xLock, mapped, regVars, rowVars,
                   netVars, xEvent>>

(* Net does not look at what xARPCacheAdd returns.                          *)
AddReturns(t, label) ==
    IF t = Net THEN NetDone("poll") ELSE Goto(t, label) /\ UNCHANGED <<rowVars, netVars>>

CacheSetPa(t) ==
    /\ pc[t] = "setPa"
    /\ xCache' = [xCache EXCEPT ![xRow[t]].pxPa = xKey[t][1]]
    /\ mapped' = IF t = Task THEN mapped \cup {xKey[t][1]} ELSE mapped
    /\ AddReturns(t, "added")
    /\ UNCHANGED <<flowVars, xNetworkEventQueue, xLock, regVars, xEvent>>

(* Every row is in use: xARPCacheAdd returns false.                         *)
CacheFull(t) ==
    /\ pc[t] = "add" /\ xRow[t] \notin Rows
    /\ AddReturns(t, "notAdded")
    /\ UNCHANGED <<sharedVars, xEvent>>

(* The start of xARPCacheAdd: the pair is copied.                           *)
BeginAdd(t, key) ==
    /\ Goto(t, "add")
    /\ xRow' = [xRow EXCEPT ![t] = 1]
    /\ xKey' = [xKey EXCEPT ![t] = key]
    /\ overlapped' = (overlapped \/ \E u \in Threads \ {t} : pc[u] \in Adding)

CacheStep(t) == \/ CacheTest(t) \/ CacheMark(t) \/ CacheSetHa(t)
                \/ CacheSetPa(t) \/ CacheFull(t)
-----------------------------------------------------------------------------
(* The reader of the interface.  xShimEnable starts it, if the interface is  *)
(* up; if not, the thread that watches the interface does so later.         *)
InterfaceUp ==
    /\ pc[Net] = "down"
    /\ Goto(Net, "poll")
    /\ UNCHANGED <<sharedVars, rowVars, netVars, xEvent>>

(* A frame that vShimHandleEthernetPacket or eARPProcessPacket lets pass: of  *)
(* one without memory for a header, of unknown type or not readable nothing *)
(* remains.                                                                *)
NetReceive(f) ==
    /\ pc[Net] = "poll"
    /\ xFrame' = f
    /\ Goto(Net, IF f.type = "request" THEN "lookup" ELSE "frame")
    /\ UNCHANGED <<sharedVars, rowVars, xHa, unPort, xEvent>>

(* prvShimHandleRinaFrame and prvShimFindFlowByGHA.  Without memory for the  *)
(* address of the sender no flow is found, and a new one is made for Unknown. *)
NetFindFlow ==
    /\ pc[Net] = "frame" /\ xFrame.type = "rina"
    /\ xLock = None
    /\ xHa' \in {xFrame.src, Unknown}
    /\ IF xHa' # Unknown /\ FlowsTo(xHa') # {}
       THEN unPort' = Min(FlowsTo(xHa')) /\ Goto(Net, "post")
       ELSE unPort' = unPort /\ Goto(Net, "create")
    /\ UNCHANGED <<sharedVars, rowVars, xFrame, xEvent>>

(* No memory for the flow that was not found, which may be because there was *)
(* none for the address either: the frame is forgotten, not freed.          *)
NetCreateFails ==
    /\ pc[Net] = "frame" /\ xFrame.type = "rina"
    /\ xLock = None
    /\ NetDone("poll")
    /\ UNCHANGED <<sharedVars, xEvent>>

(* The flow now owns the address.  Its port indexes the table without a test *)
(* of the bounds.                                                          *)
NetCreateFlow ==
    /\ pc[Net] = "create"
    /\ xLock = None
    /\ ReservePort
    /\ unPort' = NextPort /\ xHa' = None
    /\ IF NextPort \in Slots
       THEN xFlows' = [xFlows EXCEPT ![NextPort] = xHa] /\ Goto(Net, "bind")
       ELSE xFlows' = xFlows /\ Goto(Net, "undefined")
    /\ UNCHANGED <<xPorts, xNetworkEventQueue, xLock, cacheVars, regVars, rowVars,
                   xFrame, xEvent>>

(* xNormalFlowBinding, xRmtN1PortBind.                                      *)
NetBind ==
    /\ pc[Net] = "bind"
    /\ unPort \notin xPorts
    /\ xPorts' = xPorts \cup {unPort}
    /\ Goto(Net, "post")
    /\ UNCHANGED <<xFlows, lastAllocated, xNetworkEventQueue, xLock, cacheVars,
                   regVars, rowVars, netVars, xEvent>>

(* The port is refused, by lack of memory if it is not bound already: the    *)
(* frame is forgotten, the flow stays in the table.                         *)
NetBindFails ==
    /\ pc[Net] = "bind"
    /\ NetDone("poll")
    /\ UNCHANGED <<sharedVars, xEvent>>

(* Fault: the port reserved last instead of the port of the flow.            *)
NetPostLast ==
    /\ pc[Net] = "post" /\ ~QueueFull
    /\ xNetworkEventQueue' = Append(Queued, RinaRxEvent(xFrame.src, lastAllocated))
    /\ NetDone("poll")
    /\ UNCHANGED <<flowVars, xLock, cacheVars, regVars, xEvent>>

NetPost ==
    /\ pc[Net] = "post" /\ ~QueueFull
    /\ xNetworkEventQueue' = Append(Queued, RinaRxEvent(xFrame.src, unPort))
    /\ NetDone("poll")
    /\ UNCHANGED <<flowVars, xLock, cacheVars, regVars, xEvent>>

(* After 1000 microseconds without a place the PDU is lost.                 *)
NetPostTimeout ==
    /\ pc[Net] = "post" /\ QueueFull
    /\ NetDone("poll")
    /\ UNCHANGED <<sharedVars, xEvent>>
-----------------------------------------------------------------------------
(* eARPProcessPacket.  A reply adds the target of the reply, not its sender. *)
(* Without memory for a copy of it nothing is added.                        *)
NetArpReply ==
    /\ pc[Net] = "frame" /\ xFrame.type = "reply"
    /\ \/ BeginAdd(Net, xFrame.key) /\ UNCHANGED netVars
       \/ NetDone("poll") /\ UNCHANGED overlapped
    /\ UNCHANGED <<flowVars, xNetworkEventQueue, xLock, cacheVars, xRegistered, xEvent>>

(* eARPCacheLookupGPA, one row: it may be unused, complete, half written by  *)
(* Task (the assertion on its name fails), or being freed by Task.          *)
LookupRow(row) ==
    CASE ~row.used           -> "lookup"
      [] row.used /\ row.pxPa = None     -> "aborted"
      [] row.used /\ row.pxPa = Dangling -> "undefined"
      [] OTHER -> IF SameAddress(row.pxPa, xFrame.key[1]) THEN "respond" ELSE "lookup"

NetLookup ==
    /\ pc[Net] = "lookup" /\ xRow[Net] \in Rows
    /\ LET row == xCache[xRow[Net]] IN
         /\ Goto(Net, LookupRow(row))
         /\ IF LookupRow(row) = "lookup"
            THEN xRow' = [xRow EXCEPT ![Net] = @ + 1] /\ xHa' = xHa
            ELSE xRow' = xRow /\ xHa' = row.pxHa
    /\ UNCHANGED <<sharedVars, xKey, xFrame, unPort, xEvent>>

NetLookupMiss ==
    /\ pc[Net] = "lookup" /\ xRow[Net] \notin Rows
    /\ NetDone("poll")
    /\ UNCHANGED <<sharedVars, xEvent>>

(* The reply leaves, or, when it could not be made, the request itself goes  *)
(* back to its sender.                                                     *)
NetRespond ==
    /\ pc[Net] = "respond"
    /\ NetDone(IF xHa = Dangling THEN "undefined" ELSE "poll")
    /\ UNCHANGED <<sharedVars, xEvent>>

NetStep == \/ NetFindFlow \/ NetCreateFails \/ NetCreateFlow \/ NetBind \/ NetBindFails
           \/ NetPost \/ NetPostTimeout \/ NetArpReply \/ NetLookup \/ NetLookupMiss
           \/ NetRespond \/ CacheStep(Net)
-----------------------------------------------------------------------------
(* xShimEnable: the interface is connected, with its reader or, when it is   *)
(* down, without; or that fails, and no event is sent.                      *)
TaskConnect ==
    /\ pc[Task] = "connect"
    /\ \/ \E label \in {"poll", "down"} :
            pc' = [pc EXCEPT ![Task] = "enable", ![Net] = label]
       \/ Goto(Task, "loop")
    /\ UNCHANGED <<sharedVars, rowVars, netVars, xEvent>>

(* For the task the timeout becomes 0, which waits for a place for ever.    *)
TaskPost(ev) ==
    /\ ~QueueFull
    /\ xNetworkEventQueue' = Append(Queued, ev)
    /\ TaskDone
    /\ UNCHANGED <<flowVars, xLock, cacheVars, regVars, netVars>>

TaskEnable == pc[Task] = "enable" /\ TaskPost(EnrolledEvent)

(* prvIPCPTask; of a PDU for a port that is not bound nothing remains.      *)
EventLabels(ev) ==
    CASE ev.type = "enrolled" -> {"register"}
      [] ev.type = "mgmt"     -> {"write"}
      [] ev.type = "rx" /\ ev.port \in xPorts -> {"loop", "answer"}
      [] OTHER -> {"loop"}

(* xRmtReceive gives the RIB daemon only management PDUs with destination 0: *)
(* no address is ever added to the RMT (xRmtAddressAdd has no caller).      *)
TaskReceive ==
    /\ pc[Task] = "loop" /\ Queued # <<>>
    /\ xNetworkEventQueue' = Tail(Queued)
    /\ \E label \in EventLabels(Head(Queued)) :
         /\ Goto(Task, label)
         /\ xEvent' = IF label = "loop" THEN xEvent ELSE Head(Queued)
    /\ UNCHANGED <<flowVars, xLock, cacheVars, regVars, rowVars, netVars>>

(* Fault: the answer goes to the first port of the RMT.                      *)
TaskAnswerFirst ==
    pc[Task] = "answer" /\ TaskPost(SendMgmtEvent(xEvent.from, Min(xPorts)))

(* The RIB daemon answers on the port the PDU came from.                    *)
TaskAnswer ==
    pc[Task] = "answer" /\ TaskPost(SendMgmtEvent(xEvent.from, xEvent.port))

(* xNormalMgmtDuWrite, xRmtSendPortId, xShimSDUWrite: where the frame goes.  *)
WriteTo(port) == IF port \in xPorts THEN xFlows[port] ELSE None

(* It is written, or not: no port, flow or address, no memory, too large.   *)
TaskWrite ==
    /\ pc[Task] = "write" /\ xLock = None
    /\ TaskDone
    /\ UNCHANGED <<sharedVars, netVars>>
-----------------------------------------------------------------------------
(* xShimApplicationRegister, under xLock from its first step to its last.   *)
(* xARPCacheAdd may fail to copy the pair and return -1, which the shim,     *)
(* testing with "!", takes for success.                                    *)
TaskAdds(key) ==
    \/ BeginAdd(Task, key)
    \/ /\ Goto(Task, "added")
       /\ xKey' = [xKey EXCEPT ![Task] = key]
       /\ UNCHANGED <<xRow, overlapped>>

TaskRegister ==
    /\ pc[Task] = "register" /\ xLock = None
    /\ xLock' = Task
    /\ TaskAdds(<<App, Own>>)
    /\ UNCHANGED <<flowVars, xNetworkEventQueue, cacheVars, netVars, xEvent, xRegistered>>

TaskAddDaf ==
    /\ pc[Task] = "added" /\ xKey[Task][1] = App
    /\ TaskAdds(<<Daf, Own>>)
    /\ UNCHANGED <<flowVars, xNetworkEventQueue, xLock, cacheVars, netVars, xEvent,
                   xRegistered>>

RegisterReturns(status) ==
    /\ xLock' = None
    /\ xRegistered' = status
    /\ TaskDone
    /\ UNCHANGED <<flowVars, xNetworkEventQueue, cacheVars, overlapped, netVars>>

(* Fault: the error exit keeps the lock.                                     *)
RegisterFailsLocked ==
    /\ pc[Task] = "register" /\ xLock = None
    /\ xLock' = Task /\ xRegistered' = "failed"
    /\ TaskDone
    /\ UNCHANGED <<flowVars, xNetworkEventQueue, cacheVars, overlapped, netVars>>

(* No memory for names or addresses, from the lock to the unlock.           *)
RegisterFails ==
    pc[Task] = "register" /\ xLock = None /\ RegisterReturns("failed")

TaskRegistered ==
    pc[Task] = "added" /\ xKey[Task][1] = Daf /\ RegisterReturns("yes")

(* The cache is full: xARPRemoveApplication, twice for the same name.       *)
RemoveRow == ((xRow[Task] - 1) % CFG_ARP_CACHE_ENTRIES) + 1
Removing  == pc[Task] = "remove" /\ xRow[Task] <= 2 * CFG_ARP_CACHE_ENTRIES
IsApp     == LET row == xCache[RemoveRow]
             IN  row.used /\ row.pxPa \in Names /\ SameAddress(row.pxPa, App)

TaskUnregister ==
    /\ pc[Task] = "notAdded"
    /\ xRow' = [xRow EXCEPT ![Task] = 1]
    /\ Goto(Task, "remove")
    /\ UNCHANGED <<sharedVars, xKey, netVars, xEvent>>

TaskSkipRow ==
    /\ Removing /\ ~IsApp
    /\ xRow' = [xRow EXCEPT ![Task] = @ + 1]
    /\ UNCHANGED <<sharedVars, pc, xKey, netVars, xEvent>>

(* prvARPCacheFreeRow: the addresses first.  A lookup that has just found    *)
(* this row holds a pointer to one of them.                                *)
TaskFreeRow ==
    /\ Removing /\ IsApp
    /\ xCache' = [xCache EXCEPT ![RemoveRow].pxPa = Dangling,
                                ![RemoveRow].pxHa = Dangling]
    /\ mapped' = mapped \ {App}
    /\ xHa' = IF pc[Net] = "respond" /\ xRow[Net] = RemoveRow THEN Dangling ELSE xHa
    /\ Goto(Task, "clear")
    /\ UNCHANGED <<flowVars, xNetworkEventQueue, xLock, regVars, rowVars, xFrame,
                   unPort, xEvent>>

TaskClearRow ==
    /\ pc[Task] = "clear"
    /\ xCache' = [xCache EXCEPT ![RemoveRow] = FreeRow]
    /\ xRow' = [xRow EXCEPT ![Task] = @ + 1]
    /\ Goto(Task, "remove")
    /\ UNCHANGED <<flowVars, xNetworkEventQueue, xLock, mapped, regVars, xKey, netVars,
                   xEvent>>

TaskUnregistered ==
    pc[Task] = "remove" /\ ~Removing /\ RegisterReturns("failed")

Registering == \/ TaskAddDaf \/ TaskRegistered \/ TaskUnregister \/ TaskSkipRow
               \/ TaskFreeRow \/ TaskClearRow \/ TaskUnregistered \/ CacheStep(Task)
TaskStep == \/ TaskConnect \/ TaskEnable \/ TaskReceive \/ TaskAnswer \/ TaskWrite
            \/ TaskRegister \/ RegisterFails \/ Registering
-----------------------------------------------------------------------------
(* A failed assertion stops the program; after undefined behaviour nothing   *)
(* is known of it.                                                         *)
Stopped == pc[Net] \in {"aborted", "undefined"}

Next ==
    /\ ~Stopped
    /\ \/ AppReservePort \/ InterfaceUp
       \/ \E f \in Frames : NetReceive(f)
       \/ NetStep
       \/ TaskStep

Spec == Init /\ [][Next]_shimVars

(* The reader and the registration are scheduled; frames need not come.  The *)
(* task may wait for ever for a place in the queue, so nothing is asked of  *)
(* it elsewhere.                                                           *)
FairSpec == /\ Spec
            /\ WF_shimVars(~Stopped /\ NetStep)
            /\ WF_shimVars(~Stopped /\ Registering)
-----------------------------------------------------------------------------
NetLabels  == {"off", "down", "poll", "frame", "create", "bind", "post", "lookup",
               "respond", "aborted", "undefined"}
TaskLabels == {"connect", "enable", "loop", "answer", "write", "register", "added",
               "notAdded", "remove", "clear"}

FlowTypes ==
    /\ xFlows \in [Slots -> Peers \cup {None, Unknown}]
    /\ xPorts \subseteq Slots
    /\ lastAllocated \in 2 .. MAX_PORT_ID
QueueTypes == Queued \in Seq(Event) /\ Len(Queued) <= unMaxItemCount
CacheTypes ==
    /\ xCache \in [Rows -> [used : BOOLEAN, pxPa : Names \cup {None, Dangling},
                            pxHa : Macs \cup {None, Dangling}]]
    /\ mapped \subseteq OwnNames
PcTypes ==
    /\ pc \in [Threads -> NetLabels \cup TaskLabels \cup Adding]
    /\ pc[Net] \in NetLabels \cup Adding /\ pc[Task] \in TaskLabels \cup Adding
RowTypes ==
    /\ xRow \in [Threads -> Nat]
    /\ xKey \in [Threads -> (Names \X Macs) \cup {NoKey}]
NetTypes ==
    /\ xFrame \in Frames \cup {NoFrame}
    /\ xHa \in Macs \cup {None, Unknown, Dangling}
    /\ unPort \in Nat
RegTypes ==
    /\ xLock \in {None, Task}
    /\ xEvent \in Event
    /\ xRegistered \in {"no", "yes", "failed"}
    /\ overlapped \in BOOLEAN

(* Types: in particular the rows hold addresses, NULL or what was freed, and *)
(* ports stay inside the table.                                            *)
TypeOK == /\ FlowTypes /\ QueueTypes /\ CacheTypes /\ PcTypes
          /\ RowTypes /\ NetTypes /\ RegTypes

(* No two flows lead to one peer, whatever frames come and whichever of the   *)
(* steps between the reservation of the port and its binding fails: only the *)
(* thread of the network makes flows, so that what it found when it looked   *)
(* (ShimIPCP.c:227) still holds when it stores the flow (ShimIPCP.c:260).     *)
OneFlowPerPeer ==
    \A i, j \in Slots : (xFlows[i] = xFlows[j] /\ xFlows[i] \in Peers) => i = j

(* A queued PDU carries the port of the flow of the peer that sent it, or of *)
(* a flow whose address could not be stored, even if ports run out or were   *)
(* refused by the RMT while other frames waited (ShimIPCP.c:300).            *)
FramesAttributed ==
    \A i \in DOMAIN Queued : Queued[i].type = "rx" =>
        /\ Queued[i].port \in Slots
        /\ xFlows[Queued[i].port] \in {Queued[i].from, Unknown}

(* An answer of the RIB daemon only ever leaves for the peer that asked, by  *)
(* way of event, N-1 port and flow, whatever flows were made meanwhile.      *)
AnswerReachesSender ==
    pc[Task] = "write" => WriteTo(xEvent.port) \in {xEvent.from, Unknown, None}

(* Once registered, a name that has a row of its own is resolved to the      *)
(* address of this node by any lookup, however a request pads the name (the  *)
(* first row with that name decides, cache.c:202), and this node gives its   *)
(* own address for no name but its own two; unless the reader added a row    *)
(* while the task did: neither takes the lock of the other.                  *)
Matching(w) == {r \in Rows : /\ xCache[r].used /\ xCache[r].pxPa \in Names
                             /\ SameAddress(xCache[r].pxPa, w)}
OwnNamesResolved ==
    ~overlapped =>
      /\ xRegistered = "yes" =>
           \A n \in mapped, w \in Names : Text(w) = Text(n) =>
              Matching(w) # {} /\ xCache[Min(Matching(w))].pxHa = Own
      /\ \A w \in Names : \A r \in Matching(w) :
           xCache[r].pxHa = Own => Text(w) \in OwnTexts

(* The reader comes back to its poll from every frame, also from those that  *)
(* need the lock that a registration holds, unless the program stops.       *)
EveryFrameHandled ==
    pc[Net] \notin {"off", "down", "poll"} ~> pc[Net] = "poll" \/ Stopped

(* The inductive invariant of the proofs.  A port is somebody's when its flow *)
(* leads there; flows are only ever added, at ports not handed out before.   *)
FlowOf(port, peer) ==
    port \in Slots /\ peer \in Peers /\ xFlows[port] \in {peer, Unknown}

PortsFresh == \A i \in Slots : i > lastAllocated => xFlows[i] = None

NetInv ==
    /\ pc[Net] = "create" => /\ xFrame.src \in Peers /\ xHa \in {xFrame.src, Unknown}
                             /\ xHa # Unknown => FlowsTo(xHa) = {}
    /\ pc[Net] \in {"bind", "post"} => FlowOf(unPort, xFrame.src)

EventFlow(ev) == ev.type \in {"rx", "mgmt"} => FlowOf(ev.port, ev.from)

EventsInv == \A i \in DOMAIN Queued : EventFlow(Queued[i])

TaskInv ==
    /\ pc[Task] \in {"answer", "write"} => FlowOf(xEvent.port, xEvent.from)
    /\ pc[Task] \in Adding \cup {"added"} => xKey[Task][1] \in OwnNames

ShimInv ==
    TypeOK /\ PortsFresh /\ NetInv /\ EventsInv /\ TaskInv /\ OneFlowPerPeer
=============================================================================
