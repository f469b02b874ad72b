------------------------------ MODULE RsQueue ------------------------------
(***************************************************************************)
(* Common/queue.c: the RsQueue_t shared by several threads, at the grain of *)
(* its semaphore and mutex operations.  Every critical section of xMutex    *)
(* is one step; everything between two of them can be interleaved with the *)
(* other threads.                                                          *)
(*                                                                         *)
(* The items come from a resource pool (Common/rsrc.c) of unMaxItemCount    *)
(* resources that is created with no initial resource and an increment of   *)
(* one.  Such a pool is "dynamic": its freelist is always empty between two *)
(* calls, so uiNumInUse is all that is left of it here.                     *)
(***************************************************************************)
EXTENDS Naturals, Sequences, FiniteSets

CONSTANTS Threads,          \* the threads that call the queue
          Items,            \* the payloads they send
          unMaxItemCount,   \* RsQueueParams_t, 0 = no limit
          Calls,            \* Calls[b][t]: the API functions thread t uses when
                            \* xBlock = b
          MaxBacklog,       \* bound of the model: items stored when there is no limit
          None              \* no thread: xMutex is free

SendCalls    == {"SendToBackWait", "SendToBackTimed", "SendToBack"}
ReceiveCalls == {"ReceiveWait", "ReceiveTimed", "Receive"}
ApiCalls     == SendCalls \cup ReceiveCalls

ASSUME QueueAssumption ==
    /\ IsFiniteSet(Threads)
    /\ None \notin Threads
    /\ Items # {}
    /\ unMaxItemCount \in Nat
    /\ MaxBacklog \in Nat
    /\ Calls \in [BOOLEAN -> [Threads -> SUBSET ApiCalls]]

VARIABLES xBlock,       \* RsQueueParams_t, TRUE for a blocking queue
          xQueueList,   \* the stored items, oldest first
          xSemItems,    \* value of the semaphore of items
          xSemPlaces,   \* value of the semaphore of places
          xMutex,       \* thread inside a non-blocking call, or None
          uiNumInUse,   \* resources of xPool that are in use
          pc,           \* where each thread is
          call,         \* the API function it is in
          pxItem,       \* the item it sends, or the last one it received
          xStatus       \* what its last call returned

vars == <<xBlock, xQueueList, xSemItems, xSemPlaces, xMutex, uiNumInUse, pc,
          call, pxItem, xStatus>>

Statuses == {"none", "SUCCESS", "FAIL", "OVERFLOW", "UNDERFLOW", "OOM"}
Labels   == {"idle", "s_lock", "s_place", "s_alloc", "s_insert", "s_post",
             "r_lock", "r_item", "r_remove", "r_post", "r_free", "unlock"}

Bounded == unMaxItemCount # 0
AtMax   == Len(xQueueList) = unMaxItemCount

(***************************************************************************)
(* xRsQueueInit.  xSemPlaces is only initialised for a bounded queue; the   *)
(* code never waits on it otherwise.                                       *)
(***************************************************************************)
Init ==
    /\ xBlock \in BOOLEAN
    /\ xQueueList = <<>>
    /\ xSemItems = 0
    /\ xSemPlaces = IF xBlock THEN unMaxItemCount ELSE 0
    /\ xMutex = None
    /\ uiNumInUse = 0
    /\ pc = [t \in Threads |-> "idle"]
    /\ call = [t \in Threads |-> "SendToBack"]
    /\ pxItem = [t \in Threads |-> CHOOSE v \in Items : TRUE]
    /\ xStatus = [t \in Threads |-> "none"]

-----------------------------------------------------------------------------
(* The two entry points that hold xMutex for the whole call. *)
NonBlocking(t) == call[t] \in {"SendToBack", "Receive"}

(* Fault: the senders' timeout is not passed on. *)
TimedReceiveOnly(t) == call[t] = "ReceiveTimed"

(* The calls that were given a non-zero unTimeout. *)
Timed(t) == call[t] \in {"SendToBackTimed", "ReceiveTimed"}

(* xMutex is recursive: its owner may enter it again. *)
MayLock(t) == xMutex \in {None, t}

Goto(t, label) == pc' = [pc EXCEPT ![t] = label]

(* Return from prvQueueSendToBack or prvQueueReceive: a non-blocking call    *)
(* still has to release xMutex.                                             *)
Return(t, status) ==
    /\ pc' = [pc EXCEPT ![t] = IF NonBlocking(t) THEN "unlock" ELSE "idle"]
    /\ xStatus' = [xStatus EXCEPT ![t] = status]

Unlock(t) ==
    /\ pc[t] = "unlock"
    /\ xMutex' = None
    /\ Goto(t, "idle")
    /\ UNCHANGED <<xBlock, xQueueList, xSemItems, xSemPlaces, uiNumInUse, call, pxItem,
                   xStatus>>
-----------------------------------------------------------------------------
(* xRsQueueSendToBackWait, xRsQueueSendToBackTimed and xRsQueueSendToBack    *)
(* are entered. Only the last one starts by locking xMutex.                 *)
SendBegin(t, c, v) ==
    /\ pc[t] = "idle"
    /\ c \in Calls[xBlock][t] \cap SendCalls
    /\ Bounded \/ Len(xQueueList) < MaxBacklog
    /\ call' = [call EXCEPT ![t] = c]
    /\ pxItem' = [pxItem EXCEPT ![t] = v]
    /\ xStatus' = [xStatus EXCEPT ![t] = "none"]
    /\ Goto(t, IF c = "SendToBack" THEN "s_lock" ELSE "s_place")
    /\ UNCHANGED <<xBlock, xQueueList, xSemItems, xSemPlaces, xMutex, uiNumInUse>>

SendLock(t) ==
    /\ pc[t] = "s_lock"
    /\ xMutex = None
    /\ xMutex' = t
    /\ IF Bounded /\ AtMax
       THEN Return(t, "OVERFLOW")
       ELSE Goto(t, "s_place") /\ UNCHANGED xStatus
    /\ UNCHANGED <<xBlock, xQueueList, xSemItems, xSemPlaces, uiNumInUse, call, pxItem>>

(* xRsSemWait or a successful xRsSemTimedWait on xSemPlaces. *)
SendTakePlace(t) ==
    /\ pc[t] = "s_place"
    /\ Bounded /\ xBlock
    /\ xSemPlaces > 0
    /\ xSemPlaces' = xSemPlaces - 1
    /\ Goto(t, "s_alloc")
    /\ UNCHANGED <<xBlock, xQueueList, xSemItems, xMutex, uiNumInUse, call, pxItem,
                   xStatus>>

SendTimeout(t) ==
    /\ pc[t] = "s_place"
    /\ Bounded /\ xBlock
    /\ Timed(t)
    /\ xSemPlaces = 0
    /\ Return(t, "FAIL")
    /\ UNCHANGED <<xBlock, xQueueList, xSemItems, xSemPlaces, xMutex, uiNumInUse, call,
                   pxItem>>

(* A queue that does not block looks at the length without the lock. *)
SendCheckLength(t) ==
    /\ pc[t] = "s_place"
    /\ ~(Bounded /\ xBlock)
    /\ IF Bounded /\ AtMax
       THEN Return(t, "OVERFLOW")
       ELSE Goto(t, "s_alloc") /\ UNCHANGED xStatus
    /\ UNCHANGED <<xBlock, xQueueList, xSemItems, xSemPlaces, xMutex, uiNumInUse, call,
                   pxItem>>

(* Fault: the pool is created without a limit. *)
SendAllocUnlimited(t) ==
    /\ pc[t] = "s_alloc"
    /\ MayLock(t)
    /\ uiNumInUse' = uiNumInUse + 1
    /\ Goto(t, "s_insert")
    /\ UNCHANGED <<xBlock, xQueueList, xSemItems, xSemPlaces, xMutex, call, pxItem, xStatus>>

(* pxRsrcAlloc on xPool, whose mutex is xMutex. When it returns NULL the     *)
(* place that was taken is not given back.                                  *)
SendAlloc(t) ==
    /\ pc[t] = "s_alloc"
    /\ MayLock(t)
    /\ IF Bounded /\ uiNumInUse >= unMaxItemCount
       THEN Return(t, "OOM") /\ UNCHANGED uiNumInUse
       ELSE /\ uiNumInUse' = uiNumInUse + 1
            /\ Goto(t, "s_insert")
            /\ UNCHANGED xStatus
    /\ UNCHANGED <<xBlock, xQueueList, xSemItems, xSemPlaces, xMutex, call, pxItem>>

(* Fault: the item is put in front of the others. *)
SendInsertFront(t) ==
    /\ pc[t] = "s_insert"
    /\ MayLock(t)
    /\ xQueueList' = <<pxItem[t]>> \o xQueueList
    /\ Goto(t, "s_post")
    /\ UNCHANGED <<xBlock, xSemItems, xSemPlaces, xMutex, uiNumInUse, call, pxItem,
                   xStatus>>

SendInsert(t) ==
    /\ pc[t] = "s_insert"
    /\ MayLock(t)
    /\ xQueueList' = Append(xQueueList, pxItem[t])
    /\ Goto(t, "s_post")
    /\ UNCHANGED <<xBlock, xSemItems, xSemPlaces, xMutex, uiNumInUse, call, pxItem,
                   xStatus>>

(* Fault: the item is not announced. *)
SendPostNothing(t) ==
    /\ pc[t] = "s_post"
    /\ Return(t, "SUCCESS")
    /\ UNCHANGED <<xBlock, xQueueList, xSemItems, xSemPlaces, xMutex, uiNumInUse, call,
                   pxItem>>

SendPost(t) ==
    /\ pc[t] = "s_post"
    /\ xSemItems' = IF xBlock THEN xSemItems + 1 ELSE xSemItems
    /\ Return(t, "SUCCESS")
    /\ UNCHANGED <<xBlock, xQueueList, xSemPlaces, xMutex, uiNumInUse, call, pxItem>>

-----------------------------------------------------------------------------
ReceiveBegin(t, c) ==
    /\ pc[t] = "idle"
    /\ c \in Calls[xBlock][t] \cap ReceiveCalls
    /\ call' = [call EXCEPT ![t] = c]
    /\ xStatus' = [xStatus EXCEPT ![t] = "none"]
    /\ Goto(t, IF c = "Receive" THEN "r_lock" ELSE "r_item")
    /\ UNCHANGED <<xBlock, xQueueList, xSemItems, xSemPlaces, xMutex, uiNumInUse, pxItem>>

ReceiveLock(t) ==
    /\ pc[t] = "r_lock"
    /\ xMutex = None
    /\ xMutex' = t
    /\ IF xQueueList = <<>>
       THEN Return(t, "UNDERFLOW")
       ELSE Goto(t, "r_item") /\ UNCHANGED xStatus
    /\ UNCHANGED <<xBlock, xQueueList, xSemItems, xSemPlaces, uiNumInUse, call, pxItem>>

ReceiveTakeItem(t) ==
    /\ pc[t] = "r_item"
    /\ xBlock => xSemItems > 0
    /\ xSemItems' = IF xBlock THEN xSemItems - 1 ELSE xSemItems
    /\ Goto(t, "r_remove")
    /\ UNCHANGED <<xBlock, xQueueList, xSemPlaces, xMutex, uiNumInUse, call, pxItem,
                   xStatus>>

ReceiveTimeout(t) ==
    /\ pc[t] = "r_item"
    /\ xBlock
    /\ Timed(t)
    /\ xSemItems = 0
    /\ Return(t, "FAIL")
    /\ UNCHANGED <<xBlock, xQueueList, xSemItems, xSemPlaces, xMutex, uiNumInUse, call,
                   pxItem>>

ReceiveRemove(t) ==
    /\ pc[t] = "r_remove"
    /\ MayLock(t)
    /\ IF xQueueList = <<>>
       THEN Return(t, "UNDERFLOW") /\ UNCHANGED <<xQueueList, pxItem>>
       ELSE /\ pxItem' = [pxItem EXCEPT ![t] = Head(xQueueList)]
            /\ xQueueList' = Tail(xQueueList)
            /\ Goto(t, "r_post")
            /\ UNCHANGED xStatus
    /\ UNCHANGED <<xBlock, xSemItems, xSemPlaces, xMutex, uiNumInUse, call>>

(* The place is offered to the senders before the item's resource is back   *)
(* in xPool. An unbounded queue posts a semaphore nobody waits on.           *)
ReceivePost(t) ==
    /\ pc[t] = "r_post"
    /\ xSemPlaces' = IF xBlock /\ Bounded THEN xSemPlaces + 1 ELSE xSemPlaces
    /\ Goto(t, "r_free")
    /\ UNCHANGED <<xBlock, xQueueList, xSemItems, xMutex, uiNumInUse, call, pxItem,
                   xStatus>>

(* vRsrcFree on a dynamic pool, under xMutex. *)
ReceiveFree(t) ==
    /\ pc[t] = "r_free"
    /\ MayLock(t)
    /\ uiNumInUse' = uiNumInUse - 1
    /\ Return(t, "SUCCESS")
    /\ UNCHANGED <<xBlock, xQueueList, xSemItems, xSemPlaces, xMutex, call, pxItem>>
-----------------------------------------------------------------------------
(* A thread is free to start a call or not; once inside, it runs. *)
Begin(t) == \/ \E c \in SendCalls, v \in Items : SendBegin(t, c, v)
            \/ \E c \in ReceiveCalls : ReceiveBegin(t, c)

Send(t) == \/ SendLock(t)        \/ SendTakePlace(t)   \/ SendTimeout(t)
           \/ SendCheckLength(t) \/ SendAlloc(t)       \/ SendInsert(t)
           \/ SendPost(t)

Receive(t) == \/ ReceiveLock(t)   \/ ReceiveTakeItem(t) \/ ReceiveTimeout(t)
              \/ ReceiveRemove(t) \/ ReceivePost(t)     \/ ReceiveFree(t)

Step(t) == Send(t) \/ Receive(t) \/ Unlock(t)

Next == \E t \in Threads : Begin(t) \/ Step(t)

Spec == Init /\ [][Next]_vars

(* The scheduler runs every thread that stays runnable. *)
FairSpec == Spec /\ \A t \in Threads : WF_vars(Step(t))
-----------------------------------------------------------------------------
TypeOK ==
    /\ xBlock \in BOOLEAN
    /\ xQueueList \in Seq(Items)
    /\ xSemItems \in Nat
    /\ xSemPlaces \in Nat
    /\ xMutex \in Threads \cup {None}
    /\ uiNumInUse \in Nat
    /\ pc \in [Threads -> Labels]
    /\ call \in [Threads -> ApiCalls]
    /\ pxItem \in [Threads -> Items]
    /\ xStatus \in [Threads -> Statuses]

(* The number of threads that are at one of the labels. *)
Count(p, labels) == Cardinality({t \in Threads : p[t] \in labels})

(* Every stored item is announced exactly once: it is counted by xSemItems,  *)
(* or its sender is about to post it, or a receiver has already taken its    *)
(* token (queue.c, prvQueueSendToBack and prvQueueReceive).                 *)
ItemTokens ==
    xBlock => Len(xQueueList) =
                xSemItems + Count(pc, {"r_remove"}) + Count(pc, {"s_post"})

(* Places are never invented: free ones, used ones and the ones in the hands *)
(* of a thread are at most the size of the queue.                           *)
PlaceBudget ==
    xBlock /\ Bounded =>
        xSemPlaces + Len(xQueueList) + Count(pc, {"s_alloc", "s_insert", "r_post"})
            <= unMaxItemCount

(* Every resource of the pool that is in use is stored in the list, or held  *)
(* by exactly one thread that will store it or free it: none is leaked and   *)
(* none is freed twice.                                                     *)
PoolBudget ==
    uiNumInUse = Len(xQueueList) + Count(pc, {"s_insert", "r_post", "r_free"})

(* The limit of the pool is respected by the resources themselves. *)
PoolBound == Bounded => uiNumInUse <= unMaxItemCount

(* The inductive invariant of the proofs. *)
QueueInv == TypeOK /\ ItemTokens /\ PlaceBudget /\ PoolBudget /\ PoolBound

(* The queue never stores more items than unMaxItemCount (queue.h), whatever *)
(* mix of calls the threads make; a queue that does not block owes this to   *)
(* its pool, since it reads the length without the lock.                    *)
CapacityOK == Bounded => Len(xQueueList) <= unMaxItemCount

(* A receiver that got an item token finds an item: the ERR_UNDERFLOW branch *)
(* of prvQueueReceive is dead code for a blocking queue.                    *)
TokenMeansItem ==
    xBlock => \A t \in Threads : pc[t] = "r_remove" => xQueueList # <<>>

(* The queue is a bounded FIFO for its users: items leave in the order they  *)
(* were inserted, and insertions only happen below the limit.               *)
Fifo == INSTANCE BoundedFifo
            WITH buffer <- xQueueList, Capacity <- unMaxItemCount

ImplementsFifo == Fifo!Spec

(* Threads that use the blocking calls only, with a non-zero timeout.       *)
TimedOnly(t) == Calls[xBlock][t] \subseteq {"SendToBackTimed", "ReceiveTimed"}

(* A call with a timeout returns: queue.h says that it "Blocks for           *)
(* 'pxTimeout'", so neither a full queue, nor an empty one, nor a place lost *)
(* by another sender may keep it for ever.                                  *)
TimedCallsReturn ==
    \A t \in Threads : TimedOnly(t) => (pc[t] # "idle" ~> pc[t] = "idle")
=============================================================================
