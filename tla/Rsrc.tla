-------------------------------- MODULE Rsrc --------------------------------
(***************************************************************************)
(* A resource pool with a mutex (Common/rsrc.c), used by several threads.    *)
(* The pool is made with any of the arguments PoolArgs; a resource is on     *)
(* the heap, in the free list or in the active list. The order of the lists  *)
(* (last in, first out), payloads, names and helpers are left out. The       *)
(* counters of 16 bits do not wrap within the bound Resources.               *)
(***************************************************************************)
EXTENDS Integers, FiniteSets

CONSTANTS
    Threads,
    Resources, \* all the memory there is: without it prviRsrcOOM aborts
    PoolArgs,  \* [size, init, incr, max] that pxRsrcNewPool is called with
    NoThread,
    NoRsrc

ASSUME RsrcAssumption ==
    /\ NoThread \notin Threads /\ NoRsrc \notin Resources
    /\ IsFiniteSet(Resources)
    /\ PoolArgs \subseteq [size : Nat, init : Nat, incr : Nat, max : Nat]

VARIABLES
    program,   \* "start", "runs" or "aborted"
    pool,      \* what prviRsrcInitPool stored
    free,      \* pxFreelist
    active,    \* xActive
    numFree, numInUse, lowWater, hiWater,
    mutex,     \* owner of pxMutex
    pc,        \* where each thread is
    rsrc,      \* pxRsrc of the call of each thread
    held       \* resources that each thread was given and has not freed

lists    == <<free, active>>
counters == <<numFree, numInUse, lowWater, hiWater>>
vars == <<program, pool, lists, counters, mutex, pc, rsrc, held>>

(* The arguments pxRsrcNewPool takes; a variable pool has no free list. *)
WellFormed(a) == a.init + a.incr > 0 /\ (a.size = 0 => a.init <= 1 /\ a.incr <= 1)

FreeOnFree == pool.size = 0 \/ (pool.incr <= 1 /\ pool.init <= 1)
Full       == pool.max > 0 /\ numInUse + numFree >= pool.max

(* Memory that is in no list and in no thread's hands. *)
Heap == Resources \ (free \cup active \cup {rsrc[t] : t \in Threads}
                       \cup UNION {held[t] : t \in Threads})

Init ==
    /\ program = "start"
    /\ pool = [size |-> 0, init |-> 0, incr |-> 0, max |-> 0]
    /\ free = {} /\ active = {}
    /\ numFree = 0 /\ numInUse = 0 /\ lowWater = 0 /\ hiWater = 0
    /\ mutex = NoThread
    /\ pc = [t \in Threads |-> "idle"]
    /\ rsrc = [t \in Threads |-> NoRsrc]
    /\ held = [t \in Threads |-> {}]

(* pxRsrcNewPool with vRsrcSetMutex, before any thread uses the pool. *)
pxRsrcNewPool ==
    /\ program = "start"
    /\ \E a \in PoolArgs, new \in SUBSET Heap :
         /\ WellFormed(a) /\ Cardinality(new) = a.init
         /\ pool' = a
         /\ free' = new /\ numFree' = a.init
         /\ lowWater' = a.init
    /\ program' = "runs"
    /\ UNCHANGED <<active, numInUse, hiWater, mutex, pc, rsrc, held>>
-----------------------------------------------------------------------------
At(t, label) == program = "runs" /\ pc[t] = label
Goto(t, label) == pc' = [pc EXCEPT ![t] = label]
Unlock == mutex' = NoThread

(* Fault: the mutex is not looked at. *)
LockNothing(t) == mutex' = t

Lock(t) == mutex = NoThread /\ mutex' = t

Alloc(t) ==
    /\ At(t, "idle")
    /\ Lock(t)
    /\ Goto(t, "test")
    /\ UNCHANGED <<program, pool, lists, counters, rsrc, held>>

(* Fault: the exit forgets the mutex. *)
RefuseLocked(t) ==
    /\ At(t, "test")
    /\ Full
    /\ Goto(t, "idle")
    /\ UNCHANGED <<program, pool, lists, counters, mutex, rsrc, held>>

(* The limit counts what is free as well: a full pool refuses although it    *)
(* may have free resources. Nor can a pool without increment grow.          *)
AllocRefused(t) ==
    /\ At(t, "test")
    /\ Full \/ (free = {} /\ pool.incr = 0)
    /\ Goto(t, "idle") /\ Unlock
    /\ UNCHANGED <<program, pool, lists, counters, rsrc, held>>

(* Fault: the pool grows also when it is full. *)
GrowAlways(t) ==
    /\ At(t, "test")
    /\ free = {} /\ pool.incr > 0
    /\ \E new \in SUBSET Heap :
         /\ Cardinality(new) = pool.incr
         /\ free' = free \cup new /\ numFree' = numFree + pool.incr
    /\ lowWater' = IF numInUse + numFree = 0 THEN pool.incr ELSE lowWater
    /\ Goto(t, "take")
    /\ UNCHANGED <<program, pool, active, numInUse, hiWater, mutex, rsrc, held>>

(* prviRsrcAdd2Pool: the free list is empty, the pool grows by its increment *)
AllocGrow(t) ==
    /\ At(t, "test")
    /\ ~Full /\ free = {} /\ pool.incr > 0
    /\ \E new \in SUBSET Heap :
         /\ Cardinality(new) = pool.incr
         /\ free' = free \cup new /\ numFree' = numFree + pool.incr
    /\ lowWater' = IF numInUse + numFree = 0 THEN pool.incr ELSE lowWater
    /\ Goto(t, "take")
    /\ UNCHANGED <<program, pool, active, numInUse, hiWater, mutex, rsrc, held>>

(* or the program ends, as nobody sets vRsrcOOMfn. *)
prviRsrcOOM(t) ==
    /\ At(t, "test")
    /\ ~Full /\ free = {} /\ pool.incr > 0
    /\ program' = "aborted"
    /\ UNCHANGED <<pool, lists, counters, mutex, pc, rsrc, held>>

(* The first of the free list is read, *)
AllocTake(t) ==
    /\ At(t, "take") \/ (At(t, "test") /\ ~Full)
    /\ \E r \in free : rsrc' = [rsrc EXCEPT ![t] = r]
    /\ Goto(t, "unlink")
    /\ UNCHANGED <<program, pool, lists, counters, mutex, held>>

(* taken off it *)
AllocUnlink(t) ==
    /\ At(t, "unlink")
    /\ free' = free \ {rsrc[t]}
    /\ numFree' = numFree - 1
    /\ lowWater' = IF numFree' < lowWater THEN numFree' ELSE lowWater
    /\ Goto(t, "link")
    /\ UNCHANGED <<program, pool, active, numInUse, hiWater, mutex, rsrc, held>>

(* and put into the active list and the caller's hands. *)
AllocLink(t) ==
    /\ At(t, "link")
    /\ active' = active \cup {rsrc[t]}
    /\ numInUse' = numInUse + 1
    /\ hiWater' = IF numInUse' > hiWater THEN numInUse' ELSE hiWater
    /\ held' = [held EXCEPT ![t] = @ \cup {rsrc[t]}]
    /\ rsrc' = [rsrc EXCEPT ![t] = NoRsrc]
    /\ Goto(t, "idle") /\ Unlock
    /\ UNCHANGED <<program, pool, free, numFree, lowWater>>
-----------------------------------------------------------------------------
(* vRsrcFree: a resource that carries the mark of the free list is a program *)
(* error; otherwise it leaves the active list                               *)
Free(t) ==
    /\ At(t, "idle")
    /\ Lock(t)
    /\ \E r \in held[t] :
         /\ rsrc' = [rsrc EXCEPT ![t] = r]
         /\ held' = [held EXCEPT ![t] = @ \ {r}]
         /\ program' = IF r \in free THEN "aborted" ELSE program
    /\ Goto(t, "remove")
    /\ UNCHANGED <<pool, lists, counters>>

FreeRemove(t) ==
    /\ At(t, "remove")
    /\ active' = active \ {rsrc[t]}
    /\ numInUse' = numInUse - 1
    /\ Goto(t, "give")
    /\ UNCHANGED <<program, pool, free, numFree, lowWater, hiWater, mutex, rsrc, held>>

(* Fault: what was freed is counted, but not put back. *)
GiveNothing(t) ==
    /\ At(t, "give")
    /\ numFree' = numFree + 1
    /\ rsrc' = [rsrc EXCEPT ![t] = NoRsrc]
    /\ Goto(t, "idle") /\ Unlock
    /\ UNCHANGED <<program, pool, lists, numInUse, lowWater, hiWater, held>>

(* and goes back to the heap or to the free list.                            *)
FreeGive(t) ==
    /\ At(t, "give")
    /\ IF FreeOnFree THEN UNCHANGED <<free, numFree>>
       ELSE free' = free \cup {rsrc[t]} /\ numFree' = numFree + 1
    /\ rsrc' = [rsrc EXCEPT ![t] = NoRsrc]
    /\ Goto(t, "idle") /\ Unlock
    /\ UNCHANGED <<program, pool, active, numInUse, lowWater, hiWater, held>>
-----------------------------------------------------------------------------
Call(t) == Alloc(t) \/ Free(t)
Step(t) == AllocRefused(t) \/ AllocGrow(t) \/ prviRsrcOOM(t) \/ AllocTake(t)
             \/ AllocUnlink(t) \/ AllocLink(t) \/ FreeRemove(t) \/ FreeGive(t)
Next == pxRsrcNewPool \/ \E t \in Threads : Call(t) \/ Step(t)

Spec     == Init /\ [][Next]_vars

(* A thread inside a call goes on; nobody has to begin one. *)
FairSpec == Spec /\ \A t \in Threads : WF_vars(Step(t))
-----------------------------------------------------------------------------
Labels == {"idle", "test", "take", "unlink", "link", "remove", "give"}

TypeOK ==
    /\ program \in {"start", "runs", "aborted"}
    /\ pool \in [size : Nat, init : Nat, incr : Nat, max : Nat]
    /\ free \subseteq Resources /\ active \subseteq Resources
    /\ numFree \in Nat /\ numInUse \in Nat /\ lowWater \in Nat /\ hiWater \in Nat
    /\ mutex \in Threads \cup {NoThread}
    /\ pc \in [Threads -> Labels]
    /\ rsrc \in [Threads -> Resources \cup {NoRsrc}]
    /\ held \in [Threads -> SUBSET Resources]

(* A resource has one user: what pxRsrcVarAlloc gave to a thread nobody else *)
(* has, and it is not in the free list, whatever the interleaving of the     *)
(* calls.                                                                   *)
Exclusive ==
    /\ \A t, u \in Threads : t # u => held[t] \cap held[u] = {}
    /\ \A t \in Threads : held[t] \cap free = {}

(* The counters that the limit is tested with are the lengths of the lists,  *)
(* and the active list is what the threads hold, whenever no call is under   *)
(* way.                                                                     *)
CountsExact ==
    mutex = NoThread =>
      /\ numFree = Cardinality(free)
      /\ numInUse = Cardinality(active)
      /\ active = UNION {held[t] : t \in Threads}

(* The limit, as far as the code keeps it: the test is made before a whole   *)
(* increment is added, so a pool ends below the limit plus its increment, or *)
(* at what it was made with.                                                *)
GrowthBounded ==
    pool.max > 0 =>
      \/ numFree + numInUse < pool.max + pool.incr
      \/ numFree + numInUse <= pool.init

(* Every exit of the two functions gives the mutex back: a pool is never     *)
(* locked for ever.                                                         *)
MutexReturns == mutex # NoThread ~> (mutex = NoThread \/ program = "aborted")
=============================================================================
