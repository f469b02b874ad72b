------------------------------ MODULE PduPath -------------------------------
(***************************************************************************)
(* The way of a PDU through the stack, as the life of its network buffers:   *)
(* from the thread of the interface (linux_tap/NetworkInterface.c) through   *)
(* the shim and ARP into the event queue, through RMT, normal IPC process    *)
(* and RIB or EFCP in the IPCP task, to the reader of a flow; and from the   *)
(* RIB through the queue, the task, RMT and the shim back to the interface.  *)
(* A chain is in the hands of one thread, in an event, or in the list of     *)
(* packets that wait for a reader. Pools are not told apart from the heap.   *)
(***************************************************************************)
EXTENDS NetBuf

CONSTANTS
    Bufs,      \* memory buffers, a bound on how many are in use or lost
    QueueLen   \* length of xNetworkEventQueue

ASSUME PduAssumption == NoBuf \notin Bufs /\ QueueLen \in Nat \ {0}

VARIABLES
    program,   \* "runs", or how it ended
    pc,        \* where each thread is
    chain,     \* the chain in the hands of each thread
    next,      \* the netbuf the loop of vNetBufFreeAll has come to
    queue,     \* events with their chains
    waiting,   \* xListWaitingPackets
    allocated, \* buffers in use
    sent,      \* history: what the last frame that left was made of
    dropped,   \* history: an error path forgot a chain
    ribTimeout \* history: prvRibNormalOutgoing could not post

threadVars == <<pc, chain, next>>
history    == <<dropped, ribTimeout>>
vars == <<program, threadVars, queue, waiting, allocated, sent, history>>

Threads == {"net", "task", "app"}
Labels  == {"idle", "frame", "arp", "rina", "post", "return", "free_all", "receive",
            "header", "deliver", "write", "send", "shim", "output", "read"}

Init ==
    /\ program = "runs"
    /\ pc = [t \in Threads |-> "idle"]
    /\ chain = [t \in Threads |-> <<>>]
    /\ next = [t \in Threads |-> 1]
    /\ queue = <<>> /\ waiting = <<>>
    /\ allocated = {}
    /\ sent = <<>>
    /\ dropped = FALSE /\ ribTimeout = FALSE

At(t, label) == program = "runs" /\ pc[t] = label
Goto(t, label) == pc' = [pc EXCEPT ![t] = label]
Holds(t, c) == chain' = [chain EXCEPT ![t] = c]

(* An error path returns and leaves the chain to nobody. *)
Drops(t) == Goto(t, "idle") /\ Holds(t, <<>>) /\ dropped' = TRUE

Fresh(b) == b \in Bufs \ allocated

(* vNetBufFree of a netbuf: the chain it leaves, and with the last live      *)
(* netbuf the memory.                                                       *)
vNetBufFree(t, i, label) ==
    LET c == Mark(chain[t], i)
    IN  /\ Goto(t, label)
        /\ IF AllFreed(c)
           THEN /\ Holds(t, <<>>)
                /\ allocated' = allocated \ BufsOf(c)
                /\ program' = IF Repeated(c) \/ ~(BufsOf(c) \subseteq allocated)
                              THEN "double_free" ELSE program
           ELSE Holds(t, c) /\ UNCHANGED <<allocated, program>>
-----------------------------------------------------------------------------
(* vNetBufFreeAll, by one netbuf. The loop reads the pxNext of the netbuf    *)
(* that follows: if the last live one is not the last, that is gone.        *)
FreeNext(t) ==
    /\ At(t, "free_all")
    /\ IF AllFreed(Mark(chain[t], next[t])) /\ next[t] < Len(chain[t])
       THEN /\ program' = "use_after_free"
            /\ UNCHANGED <<threadVars, allocated>>
       ELSE /\ vNetBufFree(t, next[t],
                           IF next[t] < Len(chain[t]) THEN "free_all" ELSE "idle")
            /\ next' = [next EXCEPT ![t] = IF @ < Len(chain[t]) THEN @ + 1 ELSE 1]
    /\ UNCHANGED <<queue, waiting, sent, history>>

(* xNetworkInterfaceOutput: the frame is copied and written; the caller      *)
(* frees the chain, also when the interface is down or memory short.        *)
Output(t) ==
    /\ At(t, "return") \/ At(t, "output")
    /\ sent' \in {sent, Content(chain[t])}
    /\ Goto(t, "free_all")
    /\ UNCHANGED <<program, chain, next, queue, waiting, allocated, history>>
-----------------------------------------------------------------------------
(* The thread of the interface. xNetworkInterfaceInput copies the frame; one *)
(* with the address of another node is forgotten.                           *)
xNetworkInterfaceInput ==
    /\ At("net", "idle")
    /\ \E b \in Bufs :
         /\ Fresh(b)
         /\ allocated' = allocated \cup {b}
         /\ \/ /\ Goto("net", "frame")
               /\ Holds("net", pxNetBufNew("frame", b))
               /\ UNCHANGED dropped
            \/ Drops("net")
    /\ UNCHANGED <<program, next, queue, waiting, sent, ribTimeout>>

(* vShimHandleEthernetPacket: the header is cut off. Without memory, or with *)
(* a type nobody handles, the frame is freed. A frame that ends with its     *)
(* header is not cut, and the netbuf after it is NULL.                      *)
vShimHandleEthernetPacket ==
    /\ At("net", "frame")
    /\ \/ /\ \E label \in {"arp", "rina", "free_all"} : Goto("net", label)
          /\ Holds("net", xNetBufSplit(chain["net"], "eth", "pdu"))
          /\ UNCHANGED program
       \/ Goto("net", "free_all") /\ UNCHANGED <<chain, program>>
       \/ program' = "null_du" /\ UNCHANGED <<pc, chain>>
    /\ UNCHANGED <<next, queue, waiting, allocated, sent, history>>

(* Fault: the response is linked between header and request. *)
ResponseBeforeRequest(b) ==
    LET c == Mark(chain["net"], Len(chain["net"]))
    IN  vNetBufAppend(<<c[1]>>, vNetBufAppend(pxNetBufNew("arp", b), Tail(c)))

(* prvARPGetResponse: the request is freed, the response appended. *)
prvARPGetResponse(b) ==
    vNetBufAppend(Mark(chain["net"], Len(chain["net"])), pxNetBufNew("arp", b))

(* eARPProcessPacket: a known target is answered, with the request itself if *)
(* there was no memory; anything else is freed.                             *)
eARPProcessPacket ==
    /\ At("net", "arp")
    /\ \/ \E b \in Bufs :
            /\ Fresh(b)
            /\ allocated' = allocated \cup {b}
            /\ Holds("net", prvARPGetResponse(b))
            /\ Goto("net", "return")
       \/ /\ \E label \in {"return", "free_all"} : Goto("net", label)
          /\ UNCHANGED <<chain, allocated>>
    /\ UNCHANGED <<program, next, queue, waiting, sent, history>>

(* prvShimHandleRinaFrame: when no flow can be made for the sender the frame *)
(* is forgotten, but said to be consumed; otherwise the header is freed     *)
prvShimHandleRinaFrame ==
    /\ At("net", "rina")
    /\ vNetBufFree("net", 1, "post")
    /\ UNCHANGED <<next, queue, waiting, sent, history>>

NoFlowForFrame ==
    /\ At("net", "rina")
    /\ Drops("net")
    /\ UNCHANGED <<program, next, queue, waiting, allocated, sent, ribTimeout>>

(* and the rest is posted, unless the queue stays full until the timeout.    *)
Post ==
    /\ At("net", "post")
    /\ \/ /\ Len(queue) < QueueLen
          /\ queue' = Append(queue, [type |-> "rx", du |-> chain["net"]])
          /\ Goto("net", "idle") /\ Holds("net", <<>>)
          /\ UNCHANGED dropped
       \/ Drops("net") /\ UNCHANGED queue
    /\ UNCHANGED <<program, next, waiting, allocated, sent, ribTimeout>>
-----------------------------------------------------------------------------
(* The IPCP task takes an event. *)
TaskTakes ==
    /\ At("task", "idle") /\ queue # <<>>
    /\ queue' = Tail(queue)
    /\ Holds("task", Head(queue).du)
    /\ Goto("task", IF Head(queue).type = "rx" THEN "receive" ELSE "write")
    /\ UNCHANGED <<program, next, waiting, allocated, sent, history>>

(* xRmtReceive: the PCI is cut off (xDuDecap). A PDU that ends with it has   *)
(* no data.                                                                 *)
xRmtReceive ==
    /\ At("task", "receive")
    /\ \/ /\ Holds("task", xNetBufSplit(chain["task"], "pci", "data"))
          /\ Goto("task", "header")
          /\ UNCHANGED program
       \/ program' = "null_du" /\ UNCHANGED <<pc, chain>>
    /\ UNCHANGED <<next, queue, waiting, allocated, sent, history>>

(* The PCI is in order and is freed: the netbuf before the data. *)
FreePci ==
    /\ At("task", "header")
    /\ vNetBufFree("task", Len(chain["task"]) - 1, "deliver")
    /\ UNCHANGED <<next, queue, waiting, sent, history>>

(* Fault: a message that was handled is not freed. *)
HandledIsKept ==
    /\ At("task", "deliver")
    /\ Goto("task", "idle") /\ Holds("task", <<>>)
    /\ UNCHANGED <<program, next, queue, waiting, allocated, sent, history>>

(* xRmtProcessMgmtPdu, after the RIB daemon has handled the message. *)
xRmtProcessMgmtPdu ==
    /\ At("task", "deliver")
    /\ vNetBufFree("task", Len(chain["task"]), "idle")
    /\ UNCHANGED <<next, queue, waiting, sent, history>>

(* xRmtProcessDtPdu: EFCP and the flow allocator give it to the reader. *)
xRmtProcessDtPdu ==
    /\ At("task", "deliver")
    /\ waiting' = Append(waiting, chain["task"])
    /\ Goto("task", "idle") /\ Holds("task", <<>>)
    /\ UNCHANGED <<program, next, queue, allocated, sent, history>>

(* Whatever is refused is forgotten: no N-1 port, a header that is wrong, no *)
(* flow, a message that cannot be decoded; on the way out no memory for the *)
(* PCI, no port, no flow, no address.                                       *)
TaskRefuses ==
    /\ \E label \in {"receive", "header", "deliver", "write", "send", "shim"} :
         At("task", label)
    /\ Drops("task")
    /\ UNCHANGED <<program, next, queue, waiting, allocated, sent, ribTimeout>>

(* Fault: the netbuf is linked behind the data. *)
EncapBehind(seg, b) == vNetBufAppend(chain["task"], pxNetBufNew(seg, b))

(* A header in a buffer of its own is put before the chain. *)
Encap(seg, b) == vNetBufAppend(pxNetBufNew(seg, b), chain["task"])

(* xNormalMgmtDuWrite with xDuEncap; without a netbuf the PCI stays behind.  *)
xNormalMgmtDuWrite ==
    /\ At("task", "write")
    /\ \E b \in Bufs :
         /\ Fresh(b)
         /\ allocated' = allocated \cup {b}
         /\ \/ Holds("task", Encap("pci", b)) /\ Goto("task", "send") /\ UNCHANGED dropped
            \/ Drops("task")
    /\ UNCHANGED <<program, next, queue, waiting, sent, ribTimeout>>

(* xRmtSendPortId finds the N-1 port and calls the shim. *)
xRmtSendPortId ==
    /\ At("task", "send")
    /\ Goto("task", "shim")
    /\ UNCHANGED <<program, chain, next, queue, waiting, allocated, sent, history>>

(* xShimSDUWrite: the header of the frame. *)
xShimSDUWrite ==
    /\ At("task", "shim")
    /\ \E b \in Bufs :
         /\ Fresh(b)
         /\ allocated' = allocated \cup {b}
         /\ \/ Holds("task", Encap("eth", b)) /\ Goto("task", "output") /\ UNCHANGED dropped
            \/ Drops("task")
    /\ UNCHANGED <<program, next, queue, waiting, sent, ribTimeout>>
-----------------------------------------------------------------------------
(* prvRibNormalOutgoing, by the task or an enrollment: an encoded message is *)
(* posted. When that fails its buffer is freed, and then the netbuf, which   *)
(* owns the buffer and frees it again.                                      *)
prvRibNormalOutgoing ==
    /\ program = "runs" /\ Len(queue) < QueueLen
    /\ \E b \in Bufs :
         /\ Fresh(b)
         /\ allocated' = allocated \cup {b}
         /\ queue' = Append(queue, [type |-> "mgmt", du |-> pxNetBufNew("data", b)])
    /\ UNCHANGED <<program, threadVars, waiting, sent, history>>

OutgoingFails ==
    /\ program = "runs" /\ \E b \in Bufs : Fresh(b)
    /\ program' = "double_free"
    /\ ribTimeout' = TRUE
    /\ UNCHANGED <<threadVars, queue, waiting, allocated, sent, dropped>>

(* RINA_flow_read takes a packet, copies it and frees it. *)
ReadTake ==
    /\ At("app", "idle") /\ waiting # <<>>
    /\ waiting' = Tail(waiting)
    /\ Holds("app", Head(waiting))
    /\ Goto("app", "read")
    /\ UNCHANGED <<program, next, queue, allocated, sent, history>>

ReadFree ==
    /\ At("app", "read")
    /\ vNetBufFree("app", Len(chain["app"]), "idle")
    /\ UNCHANGED <<next, queue, waiting, sent, history>>
-----------------------------------------------------------------------------
Net  == xNetworkInterfaceInput \/ vShimHandleEthernetPacket \/ eARPProcessPacket
          \/ prvShimHandleRinaFrame \/ NoFlowForFrame \/ Post
Task == TaskTakes \/ xRmtReceive \/ FreePci \/ xRmtProcessMgmtPdu \/ xRmtProcessDtPdu
          \/ TaskRefuses \/ xNormalMgmtDuWrite \/ xRmtSendPortId \/ xShimSDUWrite
Rib  == prvRibNormalOutgoing \/ OutgoingFails
App  == ReadTake \/ ReadFree
Next == Net \/ Task \/ Rib \/ App \/ \E t \in Threads : FreeNext(t) \/ Output(t)

Spec == Init /\ [][Next]_vars
-----------------------------------------------------------------------------
Segments == {"frame", "eth", "pdu", "arp", "pci", "data"}
NetBufs  == [seg : Segments, freed : BOOLEAN, buf : Bufs \cup {NoBuf}]

TypeOK ==
    /\ program \in {"runs", "use_after_free", "double_free", "null_du"}
    /\ pc \in [Threads -> Labels]
    /\ chain \in [Threads -> Seq(NetBufs)]
    /\ next \in [Threads -> Nat \ {0}]
    /\ queue \in Seq([type : {"rx", "mgmt"}, du : Seq(NetBufs)]) /\ Len(queue) <= QueueLen
    /\ waiting \in Seq(Seq(NetBufs))
    /\ allocated \subseteq Bufs
    /\ dropped \in BOOLEAN /\ ribTimeout \in BOOLEAN

(* Every chain and where it is. *)
Places == (Threads \X {1}) \cup ({"queue"} \X DOMAIN queue) \cup ({"waiting"} \X DOMAIN waiting)
ChainAt(p) == CASE p[1] \in Threads  -> chain[p[1]]
                [] p[1] = "queue"   -> queue[p[2]].du
                [] p[1] = "waiting" -> waiting[p[2]]
InUse == UNION {BufsOf(ChainAt(p)) : p \in Places}

(* As long as a netbuf is live its memory is in use by its chain alone,      *)
(* whatever became of the netbufs it shares a buffer with, and the netbuf a  *)
(* holder was given, the last, is live.                                     *)
MemoryLives ==
    program = "runs" =>
      \A p \in Places :
         LET c == ChainAt(p)
         IN  /\ \A i \in Live(c) : c[i].buf \in allocated
             /\ c # <<>> => Len(c) \in Live(c)
             /\ \A q \in Places \ {p} : BufsOf(c) \cap BufsOf(ChainAt(q)) = {}

(* What is read is there. vNetBufFreeAll goes on from a netbuf to the one    *)
(* that follows after it freed it: that is sound because the last netbuf of  *)
(* a chain is never freed first, not even by the ARP response that takes the *)
(* request's place. And a buffer goes back once, also when several netbufs   *)
(* lie in it, except for the message the RIB could not post.                *)
NoUseAfterFree ==
    /\ program # "use_after_free"
    /\ program = "double_free" => ribTimeout
    /\ MemoryLives

(* Nothing is lost but by an error: every buffer in use belongs to a chain   *)
(* that somebody will free.                                                 *)
NothingLost == program = "runs" /\ ~dropped => allocated = InUse

(* What leaves the node is a frame: a header with a management PDU, with an  *)
(* ARP response, or an ARP request sent back.                               *)
FramesComplete ==
    sent \in {<<>>, <<"eth", "pci", "data">>, <<"eth", "arp">>, <<"eth", "pdu">>}
=============================================================================
