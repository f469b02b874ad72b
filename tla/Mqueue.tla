------------------------------- MODULE Mqueue -------------------------------
(***************************************************************************)
(* FreeRTOS_POSIX_mqueue.c: named message queues kept in a list under        *)
(* xQueueListMutex. What a call does under the mutex is one step; the        *)
(* allocation of a message, the FreeRTOS queue and the deletion come after  *)
(* it. A thread uses descriptors it opened, or ones that are in no list.     *)
(***************************************************************************)
EXTENDS Timespec, Sequences, FiniteSets

CONSTANTS Threads, Addrs,   \* a mqd_t is the address of a QueueListElement_t
          Names,            \* records: slash, the first character; len; id
          NAME_MAX, Attrs, DefaultAttr, OFlags,
          Lengths,          \* lengths of messages and buffers
          Deadlines, Clock, \* struct timespec of callers, and of clock_gettime
          NULL, Forever     \* no argument; portMAX_DELAY

ASSUME MqueueAssumption ==
    /\ IsFiniteSet(Threads)
    /\ NULL \notin Addrs
    /\ Lengths \subseteq Nat
    /\ Attrs \cup {DefaultAttr} \subseteq [maxmsg : Nat, msgsize : Nat]
    /\ Deadlines \cup Clock \subseteq [tv_sec : Int, tv_nsec : Int]
    /\ \A now \in Clock : UTILS_ValidateTimespec(now)  \* UTILS_NanosecondsToTimespec

VARIABLES list, heap,       \* linked queues; allocated ones
          el,               \* content of a QueueListElement_t
          data,             \* buffers pvPortMalloc gave to messages
          held,             \* descriptors a thread has opened
          pc, arg

vars == <<list, heap, el, data, held, pc, arg>>

Blank == [name |-> NULL, open |-> 0, pending |-> FALSE, attr |-> DefaultAttr,
          curmsgs |-> 0, flags |-> {}, q |-> <<>>]
NoArg == [d |-> NULL, len |-> 0, size |-> 0, ticks |-> 0, left |-> 0]

(* prvInitializeQueueList has run. *)
Init == /\ list = {} /\ heap = {} /\ data = 0
        /\ el = [a \in Addrs |-> Blank]
        /\ held = [t \in Threads |-> {}]
        /\ pc = [t \in Threads |-> "idle"]
        /\ arg = [t \in Threads |-> NoArg]

Goto(t, label) == pc' = [pc EXCEPT ![t] = label]
Mine(t) == el[arg[t].d]

(* A call that fails leaves its errno in pc until it returns. *)
Fail(t, errno) ==
    /\ Goto(t, errno)
    /\ UNCHANGED <<list, heap, el, data, held, arg>>
Errors == {"EINVAL", "EEXIST", "ENOSPC", "ENOENT", "EBADF", "EMSGSIZE", "EAGAIN",
           "ETIMEDOUT"}
Return(t) ==
    /\ pc[t] \in Errors
    /\ Goto(t, "idle")
    /\ arg' = [arg EXCEPT ![t] = NoArg]
    /\ UNCHANGED <<list, heap, el, data, held>>

UTILS_strnlen(name, max) == IF name.len < max THEN name.len ELSE max
prvValidateQueueName(name) ==
    name.slash /\ UTILS_strnlen(name, NAME_MAX + 2) # NAME_MAX + 2
prvFindQueueInList(name) == {a \in list : el[a].name = name}

-----------------------------------------------------------------------------
(* Fault: a queue that exists is handed out without counting the descriptor. *)
OpenUncounted(t, a) ==
    /\ held' = [held EXCEPT ![t] = @ \cup {a}]
    /\ UNCHANGED <<list, heap, el, data, pc, arg>>

OpenExisting(t, a) ==
    /\ el' = [el EXCEPT ![a].open = @ + 1]
    /\ held' = [held EXCEPT ![t] = @ \cup {a}]
    /\ UNCHANGED <<list, heap, data, pc, arg>>

OpenFound(t, a, oflag) ==
    CASE {"O_CREAT", "O_EXCL"} \subseteq oflag -> Fail(t, "EEXIST")
      [] ~({"O_CREAT", "O_EXCL"} \subseteq oflag) /\ el[a].pending -> Fail(t, "EINVAL")
      [] OTHER -> OpenExisting(t, a)

NewQueue(name, attr, oflag) ==
    [Blank EXCEPT !.name = name, !.open = 1, !.flags = oflag,
                  !.attr = IF attr = NULL THEN DefaultAttr ELSE attr]

prvCreateNewMessageQueue(t, a, name, attr, oflag) ==
    /\ heap' = heap \cup {a}
    /\ list' = list \cup {a}
    /\ el' = [el EXCEPT ![a] = NewQueue(name, attr, oflag)]
    /\ held' = [held EXCEPT ![t] = @ \cup {a}]
    /\ UNCHANGED <<data, pc, arg>>

OpenNew(t, name, attr, oflag) ==
    IF "O_CREAT" \in oflag
    THEN \/ \E a \in Addrs \ heap : prvCreateNewMessageQueue(t, a, name, attr, oflag)
         \/ Fail(t, "ENOSPC")
    ELSE Fail(t, "ENOENT")

mq_open(t, name, oflag, attr) ==
    /\ pc[t] = "idle"
    /\ ~\E a \in held[t] : el[a].name = name
    /\ LET bad == attr # NULL /\ (attr.maxmsg <= 0 \/ attr.msgsize <= 0)
       IN  IF ~prvValidateQueueName(name) \/ ("O_CREAT" \in oflag /\ bad)
           THEN Fail(t, "EINVAL")
           ELSE \/ \E a \in prvFindQueueInList(name) : OpenFound(t, a, oflag)
                \/ prvFindQueueInList(name) = {} /\ OpenNew(t, name, attr, oflag)

(* The element leaves the list now and is deleted after the mutex. *)
Remove(t, a) ==
    /\ list' = list \ {a}
    /\ arg' = [arg EXCEPT ![t].d = a]
    /\ Goto(t, "delete")

mq_close(t, d) ==
    /\ pc[t] = "idle"
    /\ d \in held[t] \cup (Addrs \ list)
    /\ LET open == IF el[d].open > 0 THEN el[d].open - 1 ELSE 0
       IN  IF d \notin list THEN Fail(t, "EBADF")
           ELSE /\ held' = [held EXCEPT ![t] = @ \ {d}]
                /\ el' = [el EXCEPT ![d].open = open, ![d].pending = @ \/ open = 0]
                /\ IF open = 0 /\ el[d].pending THEN Remove(t, d)
                   ELSE UNCHANGED <<list, arg, pc>>
                /\ UNCHANGED <<heap, data>>

(* Fault: the queue is removed although threads have it open. *)
UnlinkAtOnce(t, name) ==
    /\ pc[t] = "idle"
    /\ \E a \in prvFindQueueInList(name) : Remove(t, a)
    /\ UNCHANGED <<heap, el, data, held>>

mq_unlink(t, name) ==
    /\ pc[t] = "idle"
    /\ CASE ~prvValidateQueueName(name) -> Fail(t, "EINVAL")
         [] prvValidateQueueName(name) /\ prvFindQueueInList(name) = {} -> Fail(t, "ENOENT")
         [] OTHER -> \E a \in prvFindQueueInList(name) :
              /\ IF el[a].open = 0 THEN Remove(t, a) /\ UNCHANGED el
                 ELSE /\ el' = [el EXCEPT ![a].pending = TRUE]
                      /\ UNCHANGED <<list, arg, pc>>
              /\ UNCHANGED <<heap, data, held>>

prvDeleteMessageQueue(t) ==
    /\ pc[t] = "delete"
    /\ data' = data - Len(Mine(t).q)
    /\ heap' = heap \ {arg[t].d}
    /\ el' = [el EXCEPT ![arg[t].d] = Blank]
    /\ Goto(t, "idle")
    /\ arg' = [arg EXCEPT ![t] = NoArg]
    /\ UNCHANGED <<list, held>>

mq_getattr(t, d) ==
    /\ pc[t] = "idle"
    /\ d \in held[t] \cup (Addrs \ list)
    /\ IF d \notin list THEN Fail(t, "EBADF")
       ELSE /\ el' = [el EXCEPT ![d].curmsgs = Len(el[d].q)]
            /\ UNCHANGED <<list, heap, data, held, pc, arg>>

-----------------------------------------------------------------------------
prvCalculateTickTimeout(flags, abs, now) ==
    LET delta == UTILS_AbsoluteTimespecToDeltaTicks(abs, now)
    IN  CASE "O_NONBLOCK" \in flags -> With("ok", 0)
          [] "O_NONBLOCK" \notin flags /\ abs = NULL -> With("ok", Forever)
          [] OTHER -> CASE ~UTILS_ValidateTimespec(abs) -> With("EINVAL", 0)
                        [] UTILS_ValidateTimespec(abs) /\ delta.status # "ok" -> With("ETIMEDOUT", 0)
                        [] OTHER -> delta

Nanoseconds(x) == x.tv_sec * NANOSECONDS_PER_SECOND + x.tv_nsec

(* What mq_timedsend and mq_timedreceive do under the mutex. "left" is kept  *)
(* for the properties: the time between the clock and the deadline.         *)
Lookup(t, d, len, fits, abs, now, next) ==
    LET limit == prvCalculateTickTimeout(el[d].flags, abs, now)
        waits == abs # NULL /\ "O_NONBLOCK" \notin el[d].flags
    IN  /\ pc[t] = "idle"
        /\ d \in held[t] \cup (Addrs \ list)
        /\ CASE d \notin list -> Fail(t, "EBADF")
             [] d \in list /\ ~fits -> Fail(t, "EMSGSIZE")
             [] d \in list /\ fits /\ limit.status # "ok" -> Fail(t, limit.status)
             [] OTHER ->
                  /\ Goto(t, next)
                  /\ arg' = [arg EXCEPT ![t] =
                       [d |-> d, len |-> len, size |-> 0, ticks |-> limit.val,
                        left |-> IF waits THEN Nanoseconds(abs) - Nanoseconds(now) ELSE 0]]
                  /\ UNCHANGED <<list, heap, el, data, held>>

mq_timedreceive(t, d, len, abs, now) ==
    Lookup(t, d, len, len >= el[d].attr.msgsize, abs, now, "receive")

(* Fault: the length of the message is not compared with mq_msgsize. *)
SizeUnchecked(t, d, len, abs, now) ==
    Lookup(t, d, len, TRUE, abs, now, "alloc")
mq_timedsend(t, d, len, abs, now) ==
    Lookup(t, d, len, len <= el[d].attr.msgsize, abs, now, "alloc")

(* mq_receive and mq_send are the calls with abs = NULL. *)
TimedCalls(t) == \E d \in Addrs, len \in Lengths, abs \in Deadlines \cup {NULL}, now \in Clock :
    mq_timedreceive(t, d, len, abs, now) \/ mq_timedsend(t, d, len, abs, now)

SendAlloc(t) ==
    /\ pc[t] = "alloc"
    /\ \/ /\ data' = data + 1
          /\ Goto(t, "send")
          /\ UNCHANGED <<list, heap, el, held, arg>>
       \/ Fail(t, "EMSGSIZE")

xQueueSend(t) ==
    /\ pc[t] = "send" /\ Len(Mine(t).q) < Mine(t).attr.maxmsg
    /\ el' = [el EXCEPT ![arg[t].d].q = Append(@, arg[t].len)]
    /\ Goto(t, "idle")
    /\ arg' = [arg EXCEPT ![t] = NoArg]
    /\ UNCHANGED <<list, heap, data, held>>

WaitEnds(t) == Goto(t, IF "O_NONBLOCK" \in Mine(t).flags THEN "EAGAIN" ELSE "ETIMEDOUT")

(* Fault: the buffer of a message that was not sent is kept. *)
KeepsData(t) ==
    /\ pc[t] = "send" /\ Len(Mine(t).q) = Mine(t).attr.maxmsg /\ arg[t].ticks # Forever
    /\ WaitEnds(t)
    /\ UNCHANGED <<list, heap, el, data, held, arg>>

SendTimeout(t) ==
    /\ pc[t] = "send" /\ Len(Mine(t).q) = Mine(t).attr.maxmsg /\ arg[t].ticks # Forever
    /\ data' = data - 1
    /\ WaitEnds(t)
    /\ UNCHANGED <<list, heap, el, held, arg>>

xQueueReceive(t) ==
    /\ pc[t] = "receive" /\ Mine(t).q # <<>>
    /\ arg' = [arg EXCEPT ![t].size = Head(Mine(t).q)]
    /\ el' = [el EXCEPT ![arg[t].d].q = Tail(@)]
    /\ Goto(t, "copy")
    /\ UNCHANGED <<list, heap, data, held>>

ReceiveTimeout(t) ==
    /\ pc[t] = "receive" /\ Mine(t).q = <<>> /\ arg[t].ticks # Forever
    /\ WaitEnds(t)
    /\ UNCHANGED <<list, heap, el, data, held, arg>>

ReceiveCopy(t) ==
    /\ pc[t] = "copy"
    /\ data' = data - 1
    /\ Goto(t, "idle")
    /\ arg' = [arg EXCEPT ![t] = NoArg]
    /\ UNCHANGED <<list, heap, el, held>>

Step(t) ==
    \/ Return(t) \/ prvDeleteMessageQueue(t)
    \/ TimedCalls(t) \/ SendAlloc(t) \/ xQueueSend(t) \/ SendTimeout(t)
    \/ xQueueReceive(t) \/ ReceiveTimeout(t) \/ ReceiveCopy(t)
    \/ \E d \in Addrs : mq_close(t, d) \/ mq_getattr(t, d)
    \/ \E name \in Names :
         \/ mq_unlink(t, name)
         \/ \E oflag \in OFlags, attr \in Attrs \cup {NULL} : mq_open(t, name, oflag, attr)

Next == \E t \in Threads : Step(t)

Spec == Init /\ [][Next]_vars
-----------------------------------------------------------------------------
Elements == [name : Names \cup {NULL}, open : Nat, pending : BOOLEAN,
             attr : [maxmsg : Nat, msgsize : Nat], curmsgs : Nat,
             flags : SUBSET UNION OFlags, q : Seq(Nat)]
Arguments == [d : Addrs \cup {NULL}, len : Nat, size : Nat, ticks : Int \cup {Forever},
              left : Int]
Labels == Errors \cup {"idle", "delete", "alloc", "send", "receive", "copy"}

(* Types; one that works on a queue, or deletes it, has one. *)
TypeOK ==
    /\ list \subseteq Addrs /\ heap \subseteq Addrs /\ data \in Int
    /\ el \in [Addrs -> Elements]
    /\ held \in [Threads -> SUBSET Addrs]
    /\ pc \in [Threads -> Labels]
    /\ arg \in [Threads -> Arguments]
    /\ \A t \in Threads : pc[t] \in {"delete", "alloc", "send", "receive"} => arg[t].d \in Addrs

Deleting == {t \in Threads : pc[t] = "delete"}
InQueue  == {t \in Threads : pc[t] \in {"alloc", "send", "receive"}}

(* mq_timedsend and mq_timedreceive use the queue after they released the    *)
(* mutex under which they found it. Whatever mq_close and mq_unlink other    *)
(* threads do meanwhile, the element they use is not deleted.               *)
NoUseAfterDelete ==
    /\ \A t \in InQueue : arg[t].d \in heap
    /\ \A t \in Threads : held[t] \subseteq heap

(* xOpenDescriptors is the number of descriptors threads hold, and a queue is *)
(* either in the list or about to be deleted by exactly one thread.          *)
QueuesAccounted ==
    /\ \A a \in list : el[a].open = Cardinality({t \in Threads : a \in held[t]})
    /\ heap = list \cup {arg[t].d : t \in Deleting}
    /\ \A t \in Deleting : arg[t].d \notin list
    /\ \A s, t \in Deleting : arg[s].d = arg[t].d => s = t

(* A buffer of mq_timedsend is in a queue or in the hands of one thread: none *)
(* leaks when a send times out, a message is received or a queue deleted.    *)
Queued == UNION {{a} \X DOMAIN el[a].q : a \in heap}
InHand == {t \in Threads : pc[t] \in {"send", "copy"}}
DataAccounted == data = Cardinality(Queued) + Cardinality(InHand)

(* The memcpy of mq_timedreceive copies the sender's length: it fits because *)
(* both calls compared their own with mq_msgsize of the same queue.          *)
MessageFits == \A t \in Threads : pc[t] = "copy" => arg[t].size <= arg[t].len

(* A call with a time limit gives up no earlier than the limit: the ticks it *)
(* waits cover the time from the clock it read to abstime. Nor does a thread *)
(* sleep for less than nanosleep or clock_nanosleep was asked for, unless    *)
(* the ticks would not fit, when they return at once and tell of no error.  *)
Covers(ticks, time) == ticks * NANOSECONDS_PER_TICK >= time

SleepCovers(sleep, time) ==
    sleep.status = "ok" /\ Covers(UINT_MAX, time) => Covers(sleep.val, time)

NeverEarly ==
    /\ \A t \in InQueue : arg[t].ticks # Forever => Covers(arg[t].ticks, arg[t].left)
    /\ \A x \in Deadlines, now \in Clock :
         /\ SleepCovers(nanosleep(x), Nanoseconds(x))
         /\ SleepCovers(clock_nanosleep(FALSE, x, now), Nanoseconds(x))
         /\ SleepCovers(clock_nanosleep(TRUE, x, now), Nanoseconds(x) - Nanoseconds(now))
=============================================================================
