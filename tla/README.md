# RINAsense: a verification development

TLA+ models of RINAsense (`src/components`), model-checked with TLC, with proofs
checked by TLAPS. File names below are relative to `src/components`.

## 1. Inventory of the system

RINAsense is a RINA stack for small devices, written in C on POSIX threads. One
thread, the *IPCP task*, takes events from a bounded queue; everything else
(application threads, the thread of the network interface, enrollment threads)
talks to it by adding events.

| Component | State it keeps | Operations | Interacts by | What makes it correct | Modules |
|---|---|---|---|---|---|
| Shared queues (`Common/queue.c`) | list, semaphores of items and of places, recursive mutex, pool | send and receive: waiting, timed, non-blocking | called by every thread | bounded FIFO, no lost or invented item or place, timed calls return | `RsQueue`, `BoundedFifo` |
| Resource pools (`Common/rsrc.c`) | freelists, counts in use and free | alloc, free, grow, variable-size pools | with a mutex, or that of their owner | one user each, exact counts, limits kept | `Rsrc` |
| Number manager (`Common/num_mgr.c`, `bit_array.h`) | bit array, last number | allocate, release | port and connection ids, several threads | unique numbers, every call returns | `NumMgr` |
| IPC manager (`IPCP/IpcManager.c`) | instances, factories, number managers | create, find, reserve and release ports | IPCP task, API, shim | ids unique | `NumMgr`, `Shim`, `FlowRequest` |
| IPCP task (`IPCP/IPCP.c`) | event queue, timers | event loop, send event | all components | returns to its loop, never waits for itself | `Ribd`, `Shim`, `FlowRequest`, `PduPath` |
| RIB daemon (`Ribd/*`) | connection table, pending requests, mutex, objects, invoke id | incoming CDAP messages, requests, replies, wait for a reply | IPCP task, enrollment threads, event queue | one connection per port, replies reach their request, the mutex is always given back | `Ribd`, `Enrollment` |
| Enrollment (`Enrollment/*`) | data of the enrollment object, neighbors | start, inbound process, stop reply, operational status | RIB calls, thread creation | ends; succeeds only when answered | `Enrollment` |
| Flow requests (`RINA_API/RINA_API.c`) | handle with event bits, waiting packets | allocate, bind, write, read, close | event queue, condition variable | wake-ups are not lost, every request returns | `FlowRequest` |
| Flow allocator, normal IPCP | flow table, list of flows | requests, responses, binding | IPCP task, API | a connection has its flow, a reader its handle | `FlowRequest`, `PduPath` |
| EFCP and DTP (`EFCP/*`) | connections, window | create, destroy, receive PDUs | IPCP task | the left edge of the window never passes a PDU that did not come | `Efcp`, `FlowRequest` |
| RMT (`Rmt/*`) | N-1 ports | bind, receive, send by port | IPCP task | every PDU has one holder | `Shim`, `PduPath` |
| Shim and ARP (`ShimIPCP/*`) | ARP cache, table of flows, lock | register, enable, frames in and out | network thread, IPCP task, RMT | own names resolve to this node, one flow per peer, PDUs keep their peer | `Shim` |
| Network buffers, neighbors (`Common/netbuf.c`, `Enrollment/neighbor.c`) | chains of buffers, slots | new, split, append, free; add, find | owners; under a mutex | no buffer freed twice, used after it or lost | `NetBuf`, `PduPath` |
| Encoders (`SerDes/*`, `CdapProto/*`) | two pools per kind of message | encode, decode | RIB, enrollment, flow allocator | values survive, texts end, an encoding fits its buffer | `Varint`, `Pb`, `Messages`, `SerDes` |
| Names and addresses (`Common/rina_name.c`, `rina_gpha.c`) | none | make, write, compare, pad, shrink | shim, ARP, API | names round-trip, a comparison means the same name | `Names` |
| TAP interface (`NetworkInterface/linux_tap`) | flags of the link, pipe, threads | initialise, connect, disconnect, link changes, read | netlink, pipe, shim | a reader is there while the link is, and can be told to leave | `Tap` |
| POSIX layer (`FreeRTOS-Plus-POSIX`) | list of message queues, semaphore counters | `mq_*`, `sem_*`, time arithmetic, sleeping | callers of POSIX on FreeRTOS | no use after deletion, no early timeout, no lost wake-up | `Mqueue`, `Timespec`, `PosixSem` |
| Errors, lists, logging, configuration | thread-local errors | | | not modelled (section 6) | |

Hard behaviours: several threads share the queues, the number managers, the RIB
tables and the enrollment data, the shim and its ARP cache, the flow table; the
RIB mutex is held while sending into the queue whose only consumer also needs
that mutex; replies race with the threads that wait for them; timeouts race with
posts; a link goes down while its reader is being started; tables, pools and
queues fill up; some exits leave a mutex locked or a buffer to nobody.
`PROJECT.json` lists these hazards at their lines with the properties that
watch them.

## 2. What is modelled

### RsQueue (with BoundedFifo)

`Common/queue.c` at the grain of its semaphore and mutex operations: each step
is one semaphore operation or one critical section of `xMutex`. A thread goes
through the labels of `pc`: `s_lock` and `unlock` are the mutex that the
non-blocking entry points hold around the internal function, `s_place`,
`s_alloc`, `s_insert`, `s_post` the parts of `prvQueueSendToBack`, `r_*` those
of `prvQueueReceive`. `xBlock`, which the maker of a queue chooses, is chosen in
`Init`. The pool of a queue has no initial resource and grows by one, so that its
freelist is always empty between two calls and a count of the resources in use
(`uiNumInUse`) is all of it. The mutex of the pool is the (recursive) mutex of
the queue.

`BoundedFifo` is the abstract promise: a sequence with `Put` and `Get` and a
limit. `ImplementsFifo` maps its buffer to `xQueueList`.

### Rsrc

A pool made by `pxRsrcNewPool` with any of the arguments `PoolArgs`, then
`pxRsrcAlloc` and `vRsrcFree` of several threads. A call holds the mutex; inside
it every write of a list or counter is a step (`test`, `take`, `unlink`, `link`;
`remove`, `give`), so that what the mutex is for can be asked. The heap is the
finite set `Resources`: growth beyond it is `prviRsrcOOM`, which ends the program.

### NumMgr

`Common/num_mgr.c` and `bit_array.h`: the search one loop iteration per step,
and the read-modify-write of the word that holds the bit as a read and a later
store. The numbers of an instance share one 32-bit word. `reserved` records what
the callers were given. Callers only release what they hold, or numbers that
are not in use.

### Ribd and Enrollment

`Ribd` holds the tables of `Ribd_t`, the RIB mutex, the event queue (the bounded
FIFO that `RsQueue` implements) and the steps of the IPCP task on them. The
task takes one event at a time; a message is handled in one step up to the first
access that another thread can interleave with: a lock of the RIB mutex
(`add`, `lock`, `find`), a read or write without it (`object`, `deliver`, `signal`),
the send into the queue (`output`). `Enrollment` EXTENDS it with the threads of
`xEnrollmentInboundProcess`: `stage` is the message the process sends, `pc`
where it is inside the RIB call: reading its arguments from the shared object
data, waiting for the mutex, sending, looking up its pending request, checking
for an early reply, sleeping. Both RIB requests (`QueryCommand`, `QuerySync`)
and the reply (`xRibObjectReply`) are the code's, with their error exits:
table full, encoding or buffer failure, queue full after the timeout.

What the code does and a reader might not expect, all of it in the model:

- `xRibConnectionAdd` keeps the mutex when the table is full (`xRibConnectionAddFull`);
- a timeout of `xRibObjectWaitReply` returns with the mutex of the row locked;
- rows of pending requests are never freed, `xRibFreePendingResponse` has no caller;
- a release that wants a reply keeps its connection; `M_RELEASE_R` is always refused;
- `prvEnrollmentObjectStart` and `prvEnrollmentHandleOperationalStart` use a
  connection that may be NULL: the program stops (label `crashed`);
- the IPCP task's timeout of 0 waits for ever in `xRsQueueSendToBackTimed`;
- a reply with the invoke id 0 is matched with the first free row (`TaskFindPending`). The
  object is then looked up by the name in that row, which is NULL (`crashed`), unless a
  request took the row in between, which the reply then answers (`TaskFindMethod`);
- `prvEnrollmentHandleOperationalStart` answers when the neighbor is known, and nothing
  calls `pxEnrollmentCreateNeighInfo`, which would make one known.

Abstractions: a message is its opcode, port and invoke id. `M_START` stands for
a start of the enrollment object and `M_START_OPS` for one of the operational
status object; `OTHER` is a message no object has a method for. A peer's PDU
that the shim cannot queue in time is lost, which changes nothing. Message
structures can be allocated, and the code behind encoding is a choice between
success and failure (module `SerDes` looks into it).

### Shim (with Names)

`ShimIPCP.c`, `ARP826.c`, `cache.c` and, of `Rmt.c`, `normalIPCP.c` and `IPCP.c`,
what a management PDU passes on its way in and out. Two threads: `Net` reads
frames from the interface and calls `vShimHandleEthernetPacket`, `Task` is the
IPCP task. The shim's flows (`xFlows`, indexed by port) are used under `xLock`
by both; `Task` holds it for the whole of `xShimApplicationRegister` (labels
`register`, `added`, `notAdded`, `remove`, `clear` and the four of an addition),
`Net` for two separate critical sections, finding a flow (`frame`) and creating
it (`create`). The ARP cache has no lock: an addition is split into the test of a
row (`add`), its validity (`mark`), hardware address (`setHa`) and protocol
address (`setPa`); a lookup reads one row per step; freeing a row takes its
addresses (`TaskFreeRow`) and then its validity (`TaskClearRow`). `ucAge` and
`ucValid`, set and cleared one after the other, are one field `used`.

A PDU and its answer are followed by events: `from` in an event is the peer
that sent the PDU, which the program does not store; it knows only the port.
`WriteTo` is where a frame for a port leaves to. What the code does, in the model:

- `xShimApplicationRegister` tests `xARPAddApplication` with `!`, and -1, which
  means that there was no memory, passes as success (`TaskAdds`; `mapped`
  records which names did get a row);
- when the registration fails it removes the application name twice, never the
  DAF name, which cannot have a row at this exit;
- a flow whose binding is refused stays in the table (`NetBindFails`): its peer's
  later PDUs are queued with a port that is not bound, and dropped;
- without memory for the sender's address a flow for nobody is made (`Unknown`);
- ports go up to 2047 and beyond (`PORT_ID_WRONG`) while `xFlows` has 256 entries:
  the write outside it is the label `undefined`;
- an ARP request whose answer cannot be made is itself sent back (`NetRespond`);
- an ARP reply adds its target, and not its sender (`NetArpReply`); every reply
  adds a row, also when the name is there;
- a lookup meets rows that are half written: with the protocol address still
  NULL the assertion of `cache.c:212` fails (label `aborted`, debug builds), or
  rows being freed (`undefined`).

`Shim` knows a protocol address as an atom and takes two operators for it: whether
a row has the address of a request (`SameAddress`), which may be padded to the
length the requester uses, and the string an address becomes (`Text`). `MCShim`
gives them for five names and checks with `Names` (`rina_name.c`, `rina_gpha.c`,
strings as sequences of characters) that they are what the code computes for the
bytes of these names. Two facts about the functions of `Names` on every string of
at most four characters are assumptions TLC evaluates there: a name written and
read again is the same name (`NamesRoundTrip`), and a padded address matches the
name it was made of and no other (`AddressesResolve`).

Abstractions: a frame that is discarded on its way in (no memory, unknown type, not
readable) changes nothing and is not a step; memory for debug strings can be
allocated; the race of two threads for a port is `NumMgr`'s subject, here a
reservation is one step; what the RIB daemon does with a PDU is `Ribd`'s, here it
answers or not. A reply carries the own address when it is about an own
name, and only then (`NamesAssumption`): peers do not claim the names of this node, nor
give it others.

### FlowRequest (with Efcp)

`RINA_flow_alloc` on the thread of an application: the event that lets the task
bind the flow (`BindSend`), the wait for its event bit (`WaitBound`), then the work
of the flow allocator and of EFCP on the same thread and without a lock
(`NewInstance`, `FindRow`, `SetRow`, `NextHop`, `Connect`, `UpdateCep`), the timer event
and the loop that leaves in its first pass. `Connect` makes the EFCP instance visible to
the task and `UpdateCep` stores its endpoint in the flow: PDUs can come in between. Reading takes a packet in two steps under a
mutex that is not the one the task inserts under. The task binds flows, wakes
threads, takes the response of the peer (`xFlowAllocatorHandleCreateR`) and its
data (`ReceivePasses`, `InsertPacket`). `Efcp` has the one connection that can be
found and the receiving side of DTP: the data run, the left edge, duplicates. Of the PDUs
that DTP posts `got` has those the flow took and `refused` those it did not, which nothing
looks at: the edge passes both.

A flow, its handle and its allocator instance are named by the port of the
request. Two constants choose between what the code does now and what it is
written for: `AssertAborts` (the assertion of `dtp.c:148` stops every connection in
a debug build) and `AllCalled` (`pxEnrollmentCreateNeighInfo`, `xFlowAllocatorHandleCreateR`
and `xRmtAddressAdd` are there but have no caller yet; without them no neighbor is ever
known and no flow allocated). The run sets them to the second: FALSE and TRUE. Addresses, destination endpoints and the
sending side of DTP, which no caller reaches, are left out; each port is used once
(`NumMgr` is about numbers that come back).

In the model: RINA_flow_alloc returns the port whatever happened, lookups test
every row and return row 0, "clearing" an event bit sets all the others, a
connection replaces the one in the first row, write and close post events the task
has no case for.

### PduPath (with NetBuf)

The way of a PDU through seven holders, as the life of its network buffers.
`NetBuf` is `netbuf.c`: a chain is a sequence of segments with a mark and the memory
they lie in; `Mark`, `BufsOf` and `Repeated` are the rule by which `vNetBufFree`
decides who returns memory. In `PduPath` the interface thread, the task and a
reader hold one chain each, others are in the event queue or wait for a reader.
Every function on the way is an action, every refusal (`Drops`, `TaskRefuses`) is
an alternative of it. `FreeNext` is one iteration of `vNetBufFreeAll`, so that the
`pxNext` it reads after a free can be looked at. `dropped` records that an error path
forgot a chain, `ribTimeout` that `prvRibNormalOutgoing` could not post.

### Varint, Pb, Messages, SerDes

`Varint` is how `pb_encode.c` writes a number, and the three functions of `pb_decode.c`
that read or skip it. `Pb` is the rest of the protocol buffers library (with
`pb_common.c`) for the field types the messages use: tags, the
search for a descriptor that goes on from the last one, submessages, strings and
their end, required fields, merging. `Messages` is the table of descriptors
(`*.pb.h`). `SerDes` has the encoders and decoders of `SerDes/*.c` for the four kinds
of values, the creation of CDAP messages, and a small machine: a message is made,
encoded into a buffer, sent, changed on the way and decoded. What
can happen on the way is one edit of the outer or of one inner message: two fields
change places or a field of a newer version is added (after which it must mean the
same), or a field is repeated, lost, renumbered, resized, sent with a fixed number of
bytes as its wire type or cut off (after which it may be refused, but must not break
anything).

A text is an atom of `Ids` with a length, a message on the wire a sequence of fields, a
number in it its bytes. `Bytes` counts those of a message, up to the limit of the encoder's
stream, where encoding fails (`CanEncode`); where they begin in the resource is
`pvSerBuffer`, which for enrollments and flows is the square of a size. Which pools the
buffers come from is left out (`Rsrc` is about pools).
Messages in messages are the levels `Decode1` to `Decode4` and `Encode1` to `Encode4`
below the outermost one, as deep as `Flow` reaches; each level is one function along the
fields. `SerDesAssumption` says what a structure that is sent has in its members.

### Tap

`linux_tap/NetworkInterface.c`: the thread that initialises and connects, the
netlink monitor, readers, the kernel's link and messages, pipes and the byte in
them. `xNetworkInterfaceConnect` is its three steps (flags, thread,
`xIsInterfaceConnected`), the monitor parses under the lock and notifies after it,
a reader looks for its pipe when it begins to run. Pipes nobody refers to can be
given out again, which reuses descriptors as the kernel does. `unhandled` records
what the code does not deal with, and the properties ask nothing afterwards: a
change of the link between the query of the flags and the bind of the socket or
while the interface is being connected, a thread or pipe that cannot be made,
flags that cannot be read, and errors of `recv`, `poll` and `read`.

### Mqueue (with Timespec), PosixSem

`Mqueue` is `FreeRTOS_POSIX_mqueue.c`: what a call does under `xQueueListMutex` is
one step, what comes after it (allocation of the message, FreeRTOS queue, copy,
deletion of a queue) is a step each. `data` counts the buffers of messages. A thread
uses descriptors it has open, or ones that are in no list; it opens a name once.
`Timespec` is the arithmetic of `FreeRTOS_POSIX_utils.c` and of `nanosleep` and
`clock_nanosleep`, with the ticks and the largest tick as constants; the FreeRTOS
queue and the clock are external. `PosixSem` is `FreeRTOS_POSIX_semaphore.c` with its
two halves, the counter and the FreeRTOS semaphore.

## 3. Runs

| Run | Instance | Shows |
|---|---|---|
| `queue` | 2 senders, 2 receivers, 2 payloads, 2 places; blocking with calls that wait and calls with a timeout, or not blocking with the calls that hold the lock and those that do not; fairness | FIFO refinement; every stored item is announced once; the limit holds although the length is read unlocked; timed calls return. Senders meet a full queue, receivers an empty one, timeouts happen |
| `pools` | 2 threads, 5 resources, pools of 8 kinds (growing or fixed, with and without limit, variable size, refused arguments); fairness | one user each, counters exact between calls, growth bounded, the mutex comes back from every call |
| `numbers_single` | 1 thread, 4 numbers, fairness | numbers unique; the search ends when one is free |
| `rib_messages` | 3 peers, 2 connection rows, 1 process, queue of 1, every message, replies without an invoke id among them; fairness | one connection per port, also when the table overflows; the task gets back to its loop from every message, but for the two states named by `TaskHangs` and where the program crashes |
| `enroll` | 2 processes, 1 peer, 2 pending rows, queue of 2, early, late and repeated replies, replies with the invoke id 0, fairness | pending ids distinct, success only when answered, requests pending when looked up; every process ends, also without a row, a place or a reply |
| `shim_frames` | 2 peers, 2 free ports, 2 cache rows, queue of 1, 4 names, fairness | one flow per peer; PDUs and answers keep their peer while ports run out, bindings fail and the queue is full; own names resolve to this node, others and those that only begin like them do not; the reader comes back from every frame |
| `flow_requests` | 2 applications, 2 ports, 1 row, queue of 2, 1 failed allocation, 2 PDUs with numbers 0 to 2, fairness | a connection has its flow, a reader its handle, the window edge passes only PDUs that were posted, every request returns |
| `pdus` | 4 buffers, queue of 2, 3 threads | no netbuf used after it was freed, none freed twice or lost without an error, what leaves is a frame |
| `codec` | 4 kinds of messages with short, longest and too long texts, 1 edit on the way | round trip, order of fields irrelevant, texts end, readers of a varint agree, an encoding stays inside its resource |
| `tap` | 2 reader slots, 3 pipes, 2 messages waiting, fairness | readers can be told to leave; frames on a link that stays up are read |
| `mqueue` | 2 threads, 2 queues, 3 names, 3 lengths, 5 deadlines | no use after deletion, descriptors and buffers exact, copies fit, no early timeout, no short sleep |
| `sem_waiters` (violation) | 2 threads that wait, 1 that posts | a post that wakes nobody while a thread waits |

`sem_waiters` is a disagreement between the code and what it says of itself
(`PROJECT.json`, findings): `sem_timedwait` increments the value after its wait also
when a post gave the semaphore, and that post had incremented it too, so that the
value says nobody waits (`FreeRTOS_POSIX_semaphore.c:201`, against the comment at 117).

Bounds. Two threads of a kind are enough for every race between two of them,
and a third waits in the cases where two can only alternate; one or two places
or rows make "full" and "empty" reachable in a few steps. `RxBacklog` bounds how
many events are queued when a peer sends, `MaxBacklog` the length of a queue
without limit. The number of enrollment processes bounds the threads; with none
left `pthread_create` fails, as it may. `INT_MAX` is larger than any id in these
runs: the wrap of the invoke id, after which two requests can share the id 1, is
out of their reach. In `rib_messages` three peers overflow a table of two rows, which
leaves the mutex with the task, and with one place in the queue the task finds it full
when it answers and a process when it asks: each way the task can hang is reached, and
`TaskReturns` fails without either of them in `TaskHangs`. In `shim_frames` the two rows make the second registration fail
when a reply came first, two ports are enough for two flows, for a third that finds
none, and for an application that takes them away, and a queue of one makes every
sender meet it full. In `flow_requests` one row makes the second request find the
table full or overwrite the row of the first; two ports give both applications a
request, or one of them two; three sequence numbers give a gap, a duplicate and a
late PDU. Four buffers in `pdus` let a request, its response, a PDU in the queue and
one at a reader exist at once. In `tap` three pipes give the reader that ends, the one that
begins and the parameters a pipe each, and the third makes a number come back. In
`codec` the lengths are those around the arrays of 20, 40 and 512 bytes, the
numbers those around the bits where the three readers of varints differ; one edit
reaches every single change of every message; lists of neighbors end just below and just
above the 1500 bytes of their stream. The sizes of `serObjectValue_t` and of the two
messages are those of a 64 bit build. Ticks of 3 ns and 2 ticks a second in
`mqueue` make rounding, the borrow of a second and the largest tick meet in a few
values.

Deadlock is not checked where the system may stop: threads may all be idle, wait on a
full or empty queue, or have crashed. The number manager never stops and is
checked for deadlock.

Fairness. `RsQueue`, `Rsrc`: weak fairness of the steps inside a call, for each
thread; no thread need start a call. `NumMgr`: the same. `Enrollment`: weak fairness
of the IPCP task and of each process; a process that waits for a place in a full
queue also times out, which the 1000 microseconds given to
`xSendEventStructToIPCPTask` justify. Peers and failures are not fair.
`Shim`: weak fairness of the reader inside a frame and of the registration once it
has begun; the task may otherwise wait for ever for a place in the queue, which
its timeout of 0 means, and frames need not come. `FlowRequest`: the task takes
events, and an application inside RINA_flow_alloc goes on when it can; readers, peers
and what an application does next are not fair. `Tap`: the caller that connects,
the monitor and each reader run; the link, the frames and failures are not fair. A lock
is not assumed to be fair: `enroll` therefore has no peer that keeps the RIB busy for
ever. `queue` shows `TimedCallsReturn` for callers that never mix in the calls that
hold the mutex (the first disagreement below). In `rib_messages` a process that holds the
RIB mutex can wait for a place that only the task can free while the task waits for
that mutex; the process's timeout is what resolves it.

### Other disagreements

Met while modelling, in the models unless said otherwise, without a run of their own.

Queues, numbers, pools:

- `queue.c:91`, `149`–`154`: a send that finds the pool empty does not give its place
  back; `queue.h:34` gives the number of places.
- `queue.c:192` and `211`: the entry points that are said not to block compare the
  length of the list and then call the internal function with a timeout of 0,
  which waits for ever, all with `xMutex` held. Between the token and the list of
  another thread (`ReceiveTakeItem` to `ReceiveRemove`, `SendTakePlace` to
  `SendInsert`) list and semaphore disagree, so that the wait can happen; the
  thread that would end it needs the mutex.
- `num_mgr.c:77`: two threads reserve the same port.
- `num_mgr.c:71`: the search returns `UINT_MAX` on meeting the last number handed
  out, without a test of its bit, also when that number is free again
  (`AllocateProbe`; `Common/test/test_num_mgr.c:25` expects a freed number to be found).
- `num_mgr.c:70` says "We return UINT_MAX if we overflow.", but the wrap at 74
  comes after that test: with every number in use and 1 the number handed out
  last, the search goes round for ever (`Wrap`, `AllocateProbe`). Hence
  `ReturnsUnlessFull` asks for a return only while a number is free.
- `rsrc.c`: a pool that has reached its limit refuses although resources are free; a
  growing one passes its limit by up to an increment; a second free of a resource is
  only noticed by pools with a free list. Pools without a mutex are used by several
  threads (`SerDesMessage.c`); `Exclusive` is about those with one.

RIB and enrollment:

- `IPCP.c:457` against the comment at 454: the IPCP task waits for a place in the
  queue that it alone empties.
- `Ribd.c:317`, `Ribd_requests.c:185`, `191`: a reply between test and wait wakes nobody.
- `Ribd_connections.c:46`: with the connection table full `xRibConnectionAdd`
  returns with the RIB locked (`xRibConnectionAddFull`); whoever needs the RIB
  next waits for ever.
- `Ribd.c:299`: an invoke id of 0 in a reply matches a free row; the lookup of the object
  then reads a NULL name, or the reply answers the request that takes the row meanwhile.
- `Enrollment.c:142`: a second `M_START` overwrites the port and invoke id that a
  running enrollment reads at each of its messages (`ReadArguments`), so that it
  goes on with the other peer; `Enrollment_Inbound.c:71` speaks of "creating the
  local neighbors in the caller", but `pxEnrollmentCreateNeighInfo` has no caller.

Shim, names:

- `cache.c:212`: an ARP request during the registration stops the program.
- `cache.c:135`: the two threads that add rows have no common lock. When both find
  the same row free, one pair of addresses is lost or the row gets a mixed one, so that
  the name of another node gets this node's hardware address;
  `OwnNamesResolved` therefore asks nothing once two additions have overlapped
  (history variable `overlapped`), and fails without that condition.
- `vNameToStringBuf` stores up to 3 bytes past a buffer that is too small, and
  `pcNameToString` makes a string without end of a name made by `pxNameNewFromParts`;
  `xNameAssignDup` and `vNameAssignStatic` pass the process instance as the entity
  instance; `xNameAssignFromString` clears the name before it frees what it held;
  the loop of `pxDupGPA` has no lower bound. `vARPSendRequest` grows copies of the
  addresses and passes the others (`ARP826.c:294`, no caller).

Flows:

- `dtp.c:148` asserts `pxRmt`, which nobody sets (`normalIPCP.c:740`–`760`):
  `AssertAborts`.
- `FlowAllocator.c:283`–`287` keeps the address of a variable of a function that
  returns. `RINA_flow_alloc` returns the port whatever happened; `RINA_flow_write`
  inverts the result of the event, so that a netbuf that is queued is freed (426–431);
  `RINA_flow_read` never times out without packets (not in the model: the netbuf of a write).
- `dtp.c:212` and `248` do not look at whether the PDU could be posted
  (`FlowAllocator.c:407` refuses it while the flow is not allocated): the edge passes it,
  and when the peer repeats it it is dropped as a duplicate. `WindowComplete` therefore
  says posted, not delivered.
- `dtp.c` says "Expecting DRF but not present, dropping PDU" and passes it up.
- packets are removed under `mux` and inserted under `xMux` (label `undefined`).

Buffers:

- Fields of the PCI are read from the netbuf of the data after the PCI was freed
  (`Rmt.c:249`–`268`, `EFCP.c:132` and `315`, `dtp.c:197`–`202`).
- A frame or PDU that ends with its header leaves NULL as the rest (`null_du`).
- "This always free the buffer" (`ShimIPCP.c:164`): two exits do not.
- `Ribd.c:449`–`454`: the buffer of a message that could not be posted is freed, and
  freed again with its netbuf (428–430 says that the netbuf owns it).
- `xRmtSend` does nothing and returns true; the loopback of `xDtpPduSend` inverts its
  result (neither is in the model, both without an effect that is read).

Encoders:

- `SerDesMessage.c:218`–`226` lays the object name out by the length of another field: a name of 20 characters
  or more is cut, or continued by the reason; `test_SerDesMessage.c:49` expects it back.
- A result or object instance of -1 is not sent and decoded as 0. The result code
  given to `pxRibCdapMsgCreateResponse` is never stored. The address of a neighbor is
  never sent. Empty supporting DIFs are dropped, and neighbors of whom nothing is written.
  The policy of DTP is filled in, but its presence is never marked. Of the names in a flow only that of the
  process is marked present. What is absent in an enrollment, flow or neighbor is not
  initialised by the decoder (TLC's structures have it as absent; `startEarly` is never read).
- The encoder of a list of neighbors reuses one structure and keeps the names that a
  previous neighbor had (`SerDesNeighbor.c:284`): a NULL name arrives as the last one
  before it that was not NULL, and `SameNeighbors` asks for exactly this.
- `SerDesEnrollment.c:84`, `SerDesFlow.c:184`: `pxSerVal + sizeof(serObjectValue_t)` adds
  that many elements, so that the buffer begins 256 bytes behind the start of a resource
  that has room for 16 more than the stream. What the fields can hold keeps the messages
  inside (`EncodedFits`); the length of the stream would not.
- A string of the full size is copied without its end and its encoding fails; the
  buffer is then lost to the pool, but for enrollments. A decoded message whose names
  find no memory is lost too. `ListDecode` writes through NULL without memory.
- `pb_decode_varint32` drops bits 4 to 6 of a fifth byte when more bytes follow.
- Unbounded copies (`strcpy` of the policy name, 40, of the object value, 512) hold by
  the sizes of the arrays they copy from (`TextsEnd`).

Interface and POSIX layer:

- `NetworkInterface.c`: `F_SETFD` with `O_NONBLOCK` does nothing, so that a reader that
  was beaten to a frame stays in `read`; a change of the link while the interface is
  being connected is missed or starts two readers, which share their parameters;
  `vNetworkNotifyIFUp` ignores a reader that could not be started; disconnecting leaves
  the reader where it is. Not in the model: pipes are never closed, `prvLinuxTapOpen`
  returns true when the device cannot be opened, `SetDown` uses `|= ~`, the loops poll
  without waiting, and what is left in the monitor's buffer makes it loop without
  `recv`. `posix_rstime.c` computes `*pxTimeLeft * 1000` in 32 bits.
- The message queue interface shares its queue between the thread that is notified and
  `xNetworkInterfaceDisconnect` (not in the model).
- `FreeRTOS_POSIX_mqueue.c`: the last `mq_close` makes later `mq_open` of the name fail
  with EINVAL although nobody unlinked it; O_NONBLOCK is that of the thread that made the
  queue; a deadline in the past fails without a try; times that do not fit are
  ETIMEDOUT; `mq_getattr`, `mq_timedsend` and `mq_timedreceive` do not initialise the
  list that they lock. `nanosleep` and `clock_nanosleep` return 0 at once when the ticks
  do not fit. `sem_getvalue` returns the negative value its header says is zero.
- `FreeRTOS_POSIX_timer.c:168`: `timer_delete` frees a timer that is not active while
  commands for it can be queued; `timer_settime` can wait for ever for a one-shot timer
  that fired before it looks (290–294). No part of the stack creates a timer.

## 4. Proofs

TLAPS checks these for every value of the constants.

`RsQueueProofs`. `QueueInv` adds to the types how tokens, places and pool
resources are conserved, counted over the threads at each label; the capacity
alone is not inductive, since it depends on who holds a place or a resource.
Counting uses lemmas on the cardinality of the threads at a label. From it:
`TypeCorrect`, `ItemTokensExact`, `CapacityRespected`, `NoUnderflow`, and
`QueueImplementsFifo`: each step of the queue is a `Put`, a `Get` or a stutter.

`EnrollmentProofs`. `EnrollInv` has, besides the properties, what the task knows
of its message (`TaskInv`: what it delivers to a row was a reply with the row's id or
with none, `AnsweredRow`, also when the row was free as it was found) and that each
process has a row of its own request (`RowInv`). Both are needed because the task uses a
row it found after it released the mutex, and a process its row without ever locking it:
that is safe only as a pending row keeps its id. One lemma per part shows that every step keeps it;
`RowsKept` is the fact about rows they share. From it: `RibTypeCorrect`,
`ConnectionsUnique`, `RibMutualExclusion`, `EnrollmentAnswered`, `StopFound`.
They rest on `RibAssumption` only: at least one row in each table, a place in the queue;
peers may send any message with any id. `IdsDistinct` (`PendingDistinct`) has a hypothesis of its own: rows are
never given back and `get_next_invoke_id` starts again at `INT_MAX`, so it holds as long
as fewer ids are drawn than that. `IdsInv` bounds the counter by the ids drawn (`Drawn`);
each of the finitely many processes draws three at most, in order (`ProcessMoves`).

`ShimProofs`. `ShimInv` says for every port that is on its way (in the reader's
hands, in a queued event, in the task's hands) that its flow leads to the peer
the PDU came from (`FlowOf`); that ports above the last one handed out have no
flow (`PortsFresh`); and that the reader makes a flow only for a peer that
has none (`NetInv`). `FlowsKept` is the fact they share: flows are only added,
at free ports. The attribution of a queued PDU alone is not inductive, since it
says nothing of the frame about to be posted. From it: `ShimTypeCorrect`,
`PeersHaveOneFlow`, `FramesKeepPeer`, `AnswersKeepPeer`. They rest on
`ShimAssumption`, of which the table of flows being no larger than the ports
(256 entries, ports to 2047) matters: `PORT_ID_WRONG` must not be an entry.

`ShimProofs`, the interface. A link that comes up gives the parameters a new pipe, which leaves no
reader behind only because those of the last link were told when it went down
(`LinkDownTold`), also one that has not looked at its pipe yet; and that holds because,
while the interface is being connected, nothing changed that it had found
(`ConnectsUndisturbed`). From it `ReadersCanBeTold`, for any number of pipes and
readers; `unhandled` is part of the hypothesis, as in the property.

`FlowRequestProofs`. The binding a thread waited for must still be there when the
connection is made, three steps and any number of other threads' steps later: the
invariant follows a port from its event through the task (`wake`) to the bits of its
handle (`BoundFlow`) and to the storing of the endpoint, and says that a port has one thread at a time (`PortOwners`) and
that no request still to come is connected (`ConnFresh`). `AllocatedFirst` is what
makes the lookups of row 0 find a handle. From it:
`FlowTypes`, `ConnectionsHaveFlows`, `HandlesAreThere`, `WindowsAreComplete`, for any
number of applications, rows, ports and PDUs and both values of the two switches.

`CommonProofs`, pools. Within a call the lists and the counters disagree by what the call
has done so far; `PoolInv` states that difference for each label of the thread that
has the mutex (`CallOK`, `Moving`), and that free, held and passing resources are apart. From it:
`PoolTypeCorrect` (no counter below zero), `OneUserEach`, `CountersExact`, `LimitKept`.
They need a finite heap, for the cardinalities.

`CommonProofs`, numbers. `NumMgrInv` adds to the types where the loop variable can be:
`NumMgrTypeCorrect`, for any number of callers. That numbers are unique is no theorem:
two callers do get the same number, and for one caller the run is enough.

`PduPathProofs`. The rules of `netbuf.c` keep a chain in order (`InOrder`): a netbuf that is
not freed has its buffer, and netbufs that lie in one buffer are all live, since the first
to be freed gives it up. What a holder does is safe because the place a chain is at tells
which of its netbufs are live (`Shape`): of a PDU that came in only the last, of an ARP
answer the first and the last; and no place has a buffer of another (`Owned`). Lemmas say
what each operator of `NetBuf` makes of any chain in order, how a chain moves between
threads, queue and reader's list, and then one per action what it keeps. From `PduInvariant`:
`PduTypeCorrect`, `ReadsAndFreesSound`, `BuffersHaveHolders`, `FramesLeaveComplete`, for any
number of buffers and any length of the queue. They rest on `PduAssumption` only: no buffer
is `NoBuf`, and the queue has a place.

`MqueueProofs`. A call that has released the list's mutex is safe because its thread
has the queue open (`Users`), an open queue is counted (`Counted`), and only a queue
with count 0 leaves the list (`Linked`); the copy fits because what is queued is no longer
than the attribute (`Sizes`) with which both calls compared (`Requests`), and the attributes
of a linked queue never change (`AttrKept`). From it: `MqueueTypeCorrect`,
`NoQueueDeletedInUse`, `DescriptorsCounted`, `CopiesFit`. `BuffersAccounted` counts: the
messages queued are a finite set of pairs (queue, position), and one lemma each says what a
send, a receive and a deletion do to its cardinality and to that of the threads with a
buffer in hand. `NobodyIsEarly` is arithmetic: the ticks of a time cover it and one less
would not (`TicksCover`), subtracting the time of now from the deadline keeps the difference
over the borrow of a second (`Subtracted`), and what a call was given does not change while
it is in the queue (`CallersKept`). They rest on `MqueueAssumption`: a finite set of threads,
lengths and attributes that are numbers, and a clock whose nanoseconds are below a second,
as `UTILS_NanosecondsToTimespec` leaves them; and on `TimeAssumption`, by which a second is
a whole number of ticks and a tick a whole number of nanoseconds.

`SerDesProofs`. `WordsComeBack` says of each of the 2^32 words, written as signed or
not, what the run `codec` tries for a few: it is written in one to ten bytes,
`pb_skip_varint` ends after them, both decoders return the word, and only what is
negative and signed has higher bits. The digits to the base 128 are the word
(`Digits`, `GroupsOfWord`), the zeros that are not written change nothing and the five
bytes of a sign continue it (`WrittenGroups`), and the bit 0x80 is seen by no reader but to
find the end (`BytesOfWord`).
The invariant of a message on its way (`Travelled`) has the type of the wire, the one thing
the properties cannot do without: what an encoder writes of any structure is made of
tokens whose numbers are varints of words (`Encoded`, with a lemma for each message inside
a message), and what the network makes of tokens, in the message or in one inside it,
is tokens again (`Edited`). `TextsAlwaysEnd` then follows what `pb_decode` makes of any
tokens: the loop over the fields is followed by induction over their number (`RunOfMessage`,
`Along`), each tag has nothing, or one value that fits its array (`Deep`), also in the messages
inside (`Flat`), where decoding may go on from what is there, and a required field has a
value (`DeepDecoded`); the last step is the layout of each structure (`CdapStructEnds`,
`FlowEnds`, `EnrollmentEnds`). `VarintsAlwaysAgree` has the numbers nobody touched from
`WordsComeBack`.
`OrderNeverMatters` takes the place of the search out of the decoder: in a descriptor that is
in the order of its tags (`CdapRises`, `FlowRises`, `PartsRise`) the search finds what a
search of all fields would (`FoundAnywhere`), and what a field does to a message depends on
what its own tag holds, and on nothing else (`FieldLocal`). Decoding is then a fold of one
function of message and field (`StepAfter`, `Folded`) in which fields with different tags
commute, those that fail included (`Commute`); a field put behind those with no higher tag
does what it would have done at the end (`InsertedEnds`), and `SortByTag` is made of such
insertions (`SortedEnds`). They rest on
`SerDesAssumption` and `PbAssumption`: members have their types, numbers are words of 32 bits.

The type invariants of these modules are proved and no property of a run.

Only model-checked: liveness under fairness, which is outside this prover
(`TimedCallsReturn`, `ReturnsUnlessFull`, `ProcessesEnd`, `TaskReturns`,
`EveryFrameHandled`, `RequestReturns`, `MutexReturns`, `FramesAreRead`); `BitsAreHeld`,
for one caller; `OwnNamesResolved`, which supposes that peers do not claim the names of
this node and that no two additions overlap; `RoundTrip` of `SerDes`, which compares whole
structures of every kind with what comes back of them, and `EncodedFits`, which adds up
their bytes; and the two facts about `Names`, over all short strings.

## 5. How the modules fit together

`Enrollment` EXTENDS `Ribd`, `FlowRequest` EXTENDS `Efcp`, `PduPath` EXTENDS `NetBuf`,
`SerDes` EXTENDS `Messages` and `Pb`, `Pb` EXTENDS `Varint`, `Mqueue` EXTENDS `Timespec`.
`RsQueue` implements `BoundedFifo`, and the event queue of `Ribd`, `Shim`, `FlowRequest` and `PduPath` is that
bounded FIFO. `MCShim` connects `Shim` with `Names`. `Rsrc` is what `RsQueue` counts
with `uiNumInUse`; `NumMgr`
stands behind the ports of `Shim` and `FlowRequest`. Every `MC` module names the
constants of one system, its `.cfg` files choose among them.

## 6. Not modelled

- **Timers of the IPCP task** (`IPCP.c` 500–660): the ARP timer is never started, the
  timer of the flow allocator never looked at, and the comparison of their expiry is
  the wrong way round (588), so that no behaviour depends on them.
- **Code without a caller**: the sending side of EFCP and DTP and `eRinaTxEvent`,
  relaying in the RMT, asynchronous RIB queries and the loopback RIB, flow
  allocation by the shim, unregistration, `xARPResolveGPA`, `vARPCacheRefresh`, POSIX
  timers, destruction of pools.
- **Start**: what `IPCP_init` and the components' constructors do before any second
  thread runs; configuration is constants.
- **Platform input and output**: opening the TAP device, the esp32 and the message
  queue interfaces, sockets, the wrappers of threads and clocks.
- **AData** (`SerDesAData.c`): encoded and decoded like the other values, used by no
  object.
- **Errors, lists, logging**: decisions read only whether an error was returned. A pool of
  errors that runs out ends the program (`error.c`). Lists are sequences and sets.
- **Copies of buffers**: `unNetBufRead` and the I/O vectors copy the content that
  `Content` describes.
- **Wraps and widths**: the invoke id at `INT_MAX`, the 16 bit counters of pools and
  semaphores at their largest value are beyond the bounds; the width of words matters in
  `Varint`, where varints keep it.
