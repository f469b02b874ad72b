---------------------------- MODULE CommonProofs ----------------------------
(***************************************************************************)
(* Machine-checked facts about the parts that every other part calls: the    *)
(* resource pools (Rsrc), for any number of threads, resources and kinds of  *)
(* pools, and the number manager (NumMgr), for any number of threads and     *)
(* numbers.                                                                 *)
(*                                                                         *)
(* Pools: the thread that has the mutex holds at most one resource that is   *)
(* in no list, or in the wrong one (CallOK); the rest of the lists is as it  *)
(* should be at every moment.                                               *)
(***************************************************************************)
EXTENDS Rsrc, NumMgr, FiniteSetTheorems, TLAPS
-----------------------------------------------------------------------------
(* Only the owner of the mutex is inside a call. *)
OwnerInside == \A t \in Threads : pc[t] # "idle" <=> mutex = t

(* The resource of a call and the lists. *)
CallOK ==
    \A t \in Threads :
       /\ rsrc[t] = NoRsrc <=> pc[t] \in {"idle", "test", "take"}
       /\ pc[t] = "unlink" => rsrc[t] \in free
       /\ pc[t] \in {"link", "give"} => rsrc[t] \notin free \cup active
       /\ pc[t] = "remove" =>
            rsrc[t] \in active /\ \A u \in Threads : rsrc[t] \notin held[u]

(* What is active is held by one thread, or being freed. *)
Held ==
    /\ free \cap active = {}
    /\ \A t \in Threads : held[t] \subseteq active
    /\ \A t, u \in Threads : t # u => held[t] \cap held[u] = {}
    /\ \A r \in active : \E t \in Threads :
          r \in held[t] \/ (pc[t] = "remove" /\ rsrc[t] = r)

Counted ==
    /\ numFree = Cardinality(free)
    /\ numInUse = Cardinality(active)

(* The resource between the lists counts as well. *)
Moving == IF mutex # NoThread /\ pc[mutex] \in {"link", "give"} THEN 1 ELSE 0
Total == numFree + numInUse + Moving
Grown ==
    pool.max > 0 => Total < pool.max + pool.incr \/ Total <= pool.init

Unmade == program = "start" =>
    /\ free = {} /\ active = {} /\ mutex = NoThread
    /\ \A t \in Threads : held[t] = {}

PoolInv == /\ TypeOK /\ OwnerInside /\ CallOK /\ Held /\ Counted /\ Grown /\ Unmade
-----------------------------------------------------------------------------
LEMMA Sizes ==
    ASSUME NEW S \in SUBSET Resources
    PROVE  /\ IsFiniteSet(S) /\ Cardinality(S) \in Nat
           /\ Cardinality({}) = 0
           /\ \A x : Cardinality(S \cup {x}) =
                       IF x \in S THEN Cardinality(S) ELSE Cardinality(S) + 1
           /\ \A x : Cardinality(S \ {x}) =
                       IF x \in S THEN Cardinality(S) - 1 ELSE Cardinality(S)
<1>1. IsFiniteSet(S)
  BY RsrcAssumption, FS_Subset
<1>2. Cardinality(S) \in Nat /\ Cardinality({}) = 0
  BY <1>1, FS_CardinalityType, FS_EmptySet
<1>3. QED
  BY <1>1, <1>2, FS_AddElement, FS_RemoveElement

(* Memory that is new is in nobody's hands. *)
LEMMA HeapIsNew ==
    /\ Heap \subseteq Resources
    /\ Heap \cap (free \cup active) = {}
    /\ \A t \in Threads : rsrc[t] \notin Heap /\ held[t] \cap Heap = {}
BY DEF Heap

(* The resource a step of a call is about. *)
LEMMA InCall ==
    ASSUME TypeOK, CallOK, NEW t \in Threads, pc[t] \notin {"idle", "test", "take"}
    PROVE  rsrc[t] \in Resources /\ rsrc[t] # NoRsrc
BY RsrcAssumption DEF TypeOK, CallOK

LEMMA InitPool == Init => PoolInv
<1> SUFFICES ASSUME Init PROVE PoolInv
  OBVIOUS
<1>1. TypeOK
  BY DEF Init, TypeOK, Labels
<1>2. OwnerInside /\ CallOK /\ Held /\ Unmade
  BY RsrcAssumption DEF Init, OwnerInside, CallOK, Held, Unmade
<1>3. Counted
  BY FS_EmptySet DEF Init, Counted
<1>4. Grown
  BY DEF Init, Grown
<1>5. QED
  BY <1>1, <1>2, <1>3, <1>4 DEF PoolInv
-----------------------------------------------------------------------------
(* Only five actions and the creation of the pool change the lists. *)
LEMMA ListsKept ==
    ASSUME NEW t \in Threads,
           Alloc(t) \/ Free(t) \/ AllocRefused(t) \/ prviRsrcOOM(t) \/ AllocTake(t)
    PROVE  UNCHANGED <<pool, free, active, numFree, numInUse, lowWater, hiWater>>
BY Zenon DEF Alloc, Free, AllocRefused, prviRsrcOOM, AllocTake, lists, counters

(* The lists and their lengths change together. *)
LEMMA CountStep ==
    ASSUME PoolInv, [Next]_vars
    PROVE  /\ Counted' /\ free' \subseteq Resources /\ active' \subseteq Resources
           /\ numFree' \in Nat /\ numInUse' \in Nat
<1>1. TypeOK /\ CallOK /\ Counted /\ Unmade
  BY DEF PoolInv
<1>2. free \in SUBSET Resources /\ active \in SUBSET Resources
  BY <1>1 DEF TypeOK
<1>3. Cardinality(free) \in Nat /\ Cardinality(active) \in Nat /\ Cardinality({}) = 0
  BY <1>2, Sizes
<1>4. CASE pxRsrcNewPool
  <2>1. PICK a \in PoolArgs, new \in SUBSET Heap :
           /\ Cardinality(new) = a.init
           /\ free' = new /\ numFree' = a.init
    BY <1>4 DEF pxRsrcNewPool
  <2>2. a.init \in Nat /\ new \subseteq Resources
    BY RsrcAssumption, HeapIsNew
  <2>3. UNCHANGED <<active, numInUse>>
    BY <1>4 DEF pxRsrcNewPool
  <2>4. QED
    BY <1>1, <1>2, <1>3, <2>1, <2>2, <2>3 DEF Counted
<1>5. ASSUME NEW t \in Threads, Alloc(t) \/ Free(t) \/ AllocRefused(t) \/ prviRsrcOOM(t) \/ AllocTake(t)
      PROVE  UNCHANGED <<free, active, numFree, numInUse>>
  BY <1>5, ListsKept
<1>6. ASSUME NEW t \in Threads, AllocGrow(t)
      PROVE  /\ Counted' /\ free' \subseteq Resources /\ active' \subseteq Resources
             /\ numFree' \in Nat /\ numInUse' \in Nat
  <2>1. PICK new \in SUBSET Heap : /\ Cardinality(new) = pool.incr
                                   /\ free' = free \cup new /\ numFree' = numFree + pool.incr
    BY <1>6 DEF AllocGrow
  <2>2. free = {} /\ UNCHANGED <<active, numInUse>>
    BY <1>6 DEF AllocGrow
  <2>3. pool.incr \in Nat /\ new \subseteq Resources /\ free' = new
    BY <1>1, <2>1, <2>2, HeapIsNew DEF TypeOK
  <2>4. QED
    BY <1>1, <1>2, <1>3, <2>1, <2>2, <2>3 DEF Counted
<1>7. ASSUME NEW t \in Threads, AllocUnlink(t) \/ AllocLink(t) \/ FreeRemove(t) \/ FreeGive(t)
      PROVE  /\ Counted' /\ free' \subseteq Resources /\ active' \subseteq Resources
             /\ numFree' \in Nat /\ numInUse' \in Nat
  <2> DEFINE r == rsrc[t]
  <2>1. r \in Resources
    BY <1>1, <1>7, InCall DEF AllocUnlink, AllocLink, FreeRemove, FreeGive, At
  <2>2. /\ Cardinality(free \cup {r}) = IF r \in free THEN Cardinality(free) ELSE Cardinality(free) + 1
        /\ Cardinality(free \ {r}) = IF r \in free THEN Cardinality(free) - 1 ELSE Cardinality(free)
        /\ Cardinality(active \cup {r}) =
             IF r \in active THEN Cardinality(active) ELSE Cardinality(active) + 1
        /\ Cardinality(active \ {r}) =
             IF r \in active THEN Cardinality(active) - 1 ELSE Cardinality(active)
    BY <1>2, Sizes
  <2>3. /\ Cardinality(free \ {r}) \in Nat /\ Cardinality(active \ {r}) \in Nat
    <3>1. free \ {r} \in SUBSET Resources /\ active \ {r} \in SUBSET Resources
      BY <1>2
    <3>2. QED
      BY <3>1, Sizes
  <2>4. CASE AllocUnlink(t)
    <3>1. r \in free /\ free' = free \ {r} /\ numFree' = numFree - 1 /\ UNCHANGED <<active, numInUse>>
      BY <1>1, <2>4 DEF AllocUnlink, At, CallOK
    <3>2. QED
      BY <1>1, <1>2, <1>3, <2>2, <2>3, <3>1 DEF Counted
  <2>5. CASE AllocLink(t)
    <3>1. r \notin active /\ active' = active \cup {r} /\ numInUse' = numInUse + 1
          /\ UNCHANGED <<free, numFree>>
      BY <1>1, <2>5 DEF AllocLink, At, CallOK
    <3>2. QED
      BY <1>1, <1>2, <1>3, <2>1, <2>2, <3>1 DEF Counted
  <2>6. CASE FreeRemove(t)
    <3>1. r \in active /\ active' = active \ {r} /\ numInUse' = numInUse - 1
          /\ UNCHANGED <<free, numFree>>
      BY <1>1, <2>6 DEF FreeRemove, At, CallOK
    <3>2. QED
      BY <1>1, <1>2, <1>3, <2>2, <2>3, <3>1 DEF Counted
  <2>7. CASE FreeGive(t)
    <3>1. /\ r \notin free /\ UNCHANGED <<active, numInUse>>
          /\ \/ UNCHANGED <<free, numFree>>
             \/ free' = free \cup {r} /\ numFree' = numFree + 1
      BY <1>1, <2>7 DEF FreeGive, At, CallOK
    <3>2. CASE UNCHANGED <<free, numFree>>
      BY <1>1, <1>2, <1>3, <3>1, <3>2 DEF Counted
    <3>3. CASE free' = free \cup {r} /\ numFree' = numFree + 1
      BY <1>1, <1>2, <1>3, <2>1, <2>2, <3>1, <3>3 DEF Counted
    <3>4. QED
      BY <3>1, <3>2, <3>3
  <2>8. QED
    BY <1>7, <2>4, <2>5, <2>6, <2>7
<1>8. ASSUME UNCHANGED <<free, active, numFree, numInUse>>
      PROVE  /\ Counted' /\ free' \subseteq Resources /\ active' \subseteq Resources
             /\ numFree' \in Nat /\ numInUse' \in Nat
  BY <1>1, <1>2, <1>3, <1>8 DEF Counted
<1>9. CASE UNCHANGED vars
  BY <1>8, <1>9 DEF vars, lists, counters
<1>10. QED
  BY <1>4, <1>5, <1>6, <1>7, <1>8, <1>9 DEF Next, Call, Step

(* Where the threads are and what they have. *)
LEMMA TypeStep == ASSUME PoolInv, [Next]_vars PROVE TypeOK'
<1>1. TypeOK /\ CallOK
  BY DEF PoolInv
<1>2. /\ free' \subseteq Resources /\ active' \subseteq Resources
      /\ numFree' \in Nat /\ numInUse' \in Nat
  BY CountStep
<1> USE DEF TypeOK, Labels, At, Goto, Unlock, Lock, lists, counters
<1>3. CASE pxRsrcNewPool
  <2>1. pool' \in [size : Nat, init : Nat, incr : Nat, max : Nat] /\ lowWater' \in Nat
    BY <1>3, RsrcAssumption DEF pxRsrcNewPool
  <2>2. QED
    BY <1>1, <1>2, <1>3, <2>1 DEF pxRsrcNewPool
<1>4. ASSUME NEW t \in Threads, Alloc(t) PROVE TypeOK'
  BY <1>1, <1>2, <1>4 DEF Alloc
<1>5. ASSUME NEW t \in Threads, Free(t) PROVE TypeOK'
  BY <1>1, <1>2, <1>5 DEF Free
<1>6. ASSUME NEW t \in Threads, AllocRefused(t) PROVE TypeOK'
  BY <1>1, <1>2, <1>6 DEF AllocRefused
<1>7. ASSUME NEW t \in Threads, AllocGrow(t) PROVE TypeOK'
  <2>1. lowWater' \in Nat /\ pc' = [pc EXCEPT ![t] = "take"]
    BY <1>1, <1>7 DEF AllocGrow
  <2>2. QED
    BY <1>1, <1>2, <1>7, <2>1 DEF AllocGrow
<1>8. ASSUME NEW t \in Threads, prviRsrcOOM(t) PROVE TypeOK'
  BY <1>1, <1>2, <1>8 DEF prviRsrcOOM
<1>9. ASSUME NEW t \in Threads, AllocTake(t) PROVE TypeOK'
  BY <1>1, <1>2, <1>9 DEF AllocTake
<1>10. ASSUME NEW t \in Threads, AllocUnlink(t) PROVE TypeOK'
  BY <1>1, <1>2, <1>10 DEF AllocUnlink
<1>11. ASSUME NEW t \in Threads, AllocLink(t) PROVE TypeOK'
  BY <1>1, <1>2, <1>11, InCall DEF AllocLink
<1>12. ASSUME NEW t \in Threads, FreeRemove(t) PROVE TypeOK'
  BY <1>1, <1>2, <1>12 DEF FreeRemove
<1>13. ASSUME NEW t \in Threads, FreeGive(t) PROVE TypeOK'
  BY <1>1, <1>2, <1>13 DEF FreeGive
<1>14. CASE UNCHANGED vars
  BY <1>1, <1>14 DEF vars
<1>15. QED
  BY <1>3, <1>4, <1>5, <1>6, <1>7, <1>8, <1>9, <1>10, <1>11, <1>12, <1>13, <1>14
  DEF Next, Call, Step

(* Every exit of a call gives the mutex back. *)
LEMMA OwnerStep == ASSUME PoolInv, [Next]_vars PROVE OwnerInside'
<1>1. TypeOK /\ OwnerInside /\ Unmade
  BY DEF PoolInv
<1>2. \A t \in Threads : t # NoThread
  BY RsrcAssumption
<1> USE DEF OwnerInside, At, Goto, Unlock, Lock, lists, counters
<1>3. CASE pxRsrcNewPool
  BY <1>1, <1>3 DEF pxRsrcNewPool
<1>4. ASSUME NEW t \in Threads, Alloc(t) PROVE OwnerInside'
  BY <1>1, <1>4, <1>2 DEF TypeOK, Alloc
<1>5. ASSUME NEW t \in Threads, Free(t) PROVE OwnerInside'
  BY <1>1, <1>5, <1>2 DEF TypeOK, Free
<1>6. ASSUME NEW t \in Threads, AllocRefused(t) PROVE OwnerInside'
  BY <1>1, <1>6, <1>2 DEF TypeOK, AllocRefused
<1>7. ASSUME NEW t \in Threads, AllocGrow(t) PROVE OwnerInside'
  BY <1>1, <1>7, <1>2 DEF TypeOK, AllocGrow
<1>8. ASSUME NEW t \in Threads, prviRsrcOOM(t) PROVE OwnerInside'
  BY <1>1, <1>8, <1>2 DEF prviRsrcOOM
<1>9. ASSUME NEW t \in Threads, AllocTake(t) PROVE OwnerInside'
  BY <1>1, <1>9, <1>2 DEF TypeOK, AllocTake
<1>10. ASSUME NEW t \in Threads, AllocUnlink(t) PROVE OwnerInside'
  BY <1>1, <1>10, <1>2 DEF TypeOK, AllocUnlink
<1>11. ASSUME NEW t \in Threads, AllocLink(t) PROVE OwnerInside'
  BY <1>1, <1>11, <1>2 DEF TypeOK, AllocLink
<1>12. ASSUME NEW t \in Threads, FreeRemove(t) PROVE OwnerInside'
  BY <1>1, <1>12, <1>2 DEF TypeOK, FreeRemove
<1>13. ASSUME NEW t \in Threads, FreeGive(t) PROVE OwnerInside'
  BY <1>1, <1>13, <1>2 DEF TypeOK, FreeGive
<1>14. CASE UNCHANGED vars
  BY <1>1, <1>14 DEF vars
<1>15. QED
  BY <1>3, <1>4, <1>5, <1>6, <1>7, <1>8, <1>9, <1>10, <1>11, <1>12, <1>13, <1>14
  DEF Next, Call, Step

(* The resource of a call is where the code thinks it is. *)
LEMMA CallStep == ASSUME PoolInv, [Next]_vars PROVE CallOK'
<1>1. TypeOK /\ OwnerInside /\ CallOK /\ Held /\ Unmade
  BY DEF PoolInv
<1>2. NoRsrc \notin Resources /\ NoThread \notin Threads
  BY RsrcAssumption
<1> USE DEF TypeOK, OwnerInside, CallOK, Held, At, Goto, Unlock, Lock, lists, counters
<1>3. CASE pxRsrcNewPool
  <2>1. active = {} /\ mutex = NoThread /\ UNCHANGED <<active, pc, rsrc, held>>
    BY <1>1, <1>3 DEF pxRsrcNewPool, Unmade
  <2>2. \A t \in Threads : pc[t] = "idle"
    BY <1>1, <1>2, <2>1
  <2>3. QED
    BY <1>1, <2>1, <2>2
<1>4. ASSUME NEW t \in Threads, Alloc(t) PROVE CallOK'
  BY <1>1, <1>4, <1>2 DEF Alloc
<1>5. ASSUME NEW t \in Threads, Free(t) PROVE CallOK'
  BY <1>1, <1>5, <1>2 DEF Free
<1>6. ASSUME NEW t \in Threads, AllocRefused(t) PROVE CallOK'
  BY <1>1, <1>6, <1>2 DEF AllocRefused
<1>7. ASSUME NEW t \in Threads, AllocGrow(t) PROVE CallOK'
  BY <1>1, <1>7, <1>2 DEF AllocGrow
<1>8. ASSUME NEW t \in Threads, prviRsrcOOM(t) PROVE CallOK'
  BY <1>1, <1>8, <1>2 DEF prviRsrcOOM
<1>9. ASSUME NEW t \in Threads, AllocTake(t) PROVE CallOK'
  BY <1>1, <1>9, <1>2 DEF AllocTake
<1>10. ASSUME NEW t \in Threads, AllocUnlink(t) PROVE CallOK'
  BY <1>1, <1>10, <1>2 DEF AllocUnlink
<1>11. ASSUME NEW t \in Threads, AllocLink(t) PROVE CallOK'
  BY <1>1, <1>11, <1>2 DEF AllocLink
<1>12. ASSUME NEW t \in Threads, FreeRemove(t) PROVE CallOK'
  BY <1>1, <1>12, <1>2 DEF FreeRemove
<1>13. ASSUME NEW t \in Threads, FreeGive(t) PROVE CallOK'
  BY <1>1, <1>13, <1>2 DEF FreeGive
<1>14. CASE UNCHANGED vars
  BY <1>1, <1>14 DEF vars
<1>15. QED
  BY <1>3, <1>4, <1>5, <1>6, <1>7, <1>8, <1>9, <1>10, <1>11, <1>12, <1>13, <1>14
  DEF Next, Call, Step

(* A resource is held by one thread, or being freed by one. *)
LEMMA HeldStep == ASSUME PoolInv, [Next]_vars PROVE Held'
<1>1. TypeOK /\ OwnerInside /\ CallOK /\ Held /\ Unmade
  BY DEF PoolInv
<1>2. NoRsrc \notin Resources /\ NoThread \notin Threads
  BY RsrcAssumption
<1> USE DEF TypeOK, OwnerInside, CallOK, Held, At, Goto, Unlock, Lock, lists, counters
<1>3. CASE pxRsrcNewPool
  <2>1. active = {} /\ UNCHANGED <<active, pc, rsrc, held>>
    BY <1>1, <1>3 DEF pxRsrcNewPool, Unmade
  <2>2. QED
    BY <1>1, <2>1
<1>4. ASSUME NEW t \in Threads, Alloc(t) PROVE Held'
  BY <1>1, <1>4, <1>2 DEF Alloc
<1>5. ASSUME NEW t \in Threads, Free(t) PROVE Held'
  BY <1>1, <1>5, <1>2 DEF Free
<1>6. ASSUME NEW t \in Threads, AllocRefused(t) PROVE Held'
  BY <1>1, <1>6, <1>2 DEF AllocRefused
<1>7. ASSUME NEW t \in Threads, AllocGrow(t) PROVE Held'
  <2>1. PICK new \in SUBSET Heap : free' = free \cup new
    BY <1>7 DEF AllocGrow
  <2>2. new \cap active = {}
    BY HeapIsNew
  <2>3. UNCHANGED <<active, rsrc, held>> /\ pc[t] = "test" /\ pc' = [pc EXCEPT ![t] = "take"]
    BY <1>7 DEF AllocGrow
  <2>4. QED
    BY <1>1, <2>1, <2>2, <2>3
<1>8. ASSUME NEW t \in Threads, prviRsrcOOM(t) PROVE Held'
  BY <1>1, <1>8, <1>2 DEF prviRsrcOOM
<1>9. ASSUME NEW t \in Threads, AllocTake(t) PROVE Held'
  BY <1>1, <1>9, <1>2 DEF AllocTake
<1>10. ASSUME NEW t \in Threads, AllocUnlink(t) PROVE Held'
  BY <1>1, <1>10, <1>2 DEF AllocUnlink
<1>11. ASSUME NEW t \in Threads, AllocLink(t) PROVE Held'
  BY <1>1, <1>11, <1>2 DEF AllocLink
<1>12. ASSUME NEW t \in Threads, FreeRemove(t) PROVE Held'
  BY <1>1, <1>12, <1>2 DEF FreeRemove
<1>13. ASSUME NEW t \in Threads, FreeGive(t) PROVE Held'
  BY <1>1, <1>13, <1>2 DEF FreeGive
<1>14. CASE UNCHANGED vars
  BY <1>1, <1>14 DEF vars
<1>15. QED
  BY <1>3, <1>4, <1>5, <1>6, <1>7, <1>8, <1>9, <1>10, <1>11, <1>12, <1>13, <1>14
  DEF Next, Call, Step

(* The test of the limit comes before a whole increment. *)
LEMMA GrownStep == ASSUME PoolInv, [Next]_vars PROVE Grown'
<1>1. TypeOK /\ OwnerInside /\ Grown /\ Unmade
  BY DEF PoolInv
<1>2. /\ numFree \in Nat /\ numInUse \in Nat /\ numFree' \in Nat /\ numInUse' \in Nat
      /\ pool \in [size : Nat, init : Nat, incr : Nat, max : Nat]
  BY <1>1, CountStep DEF TypeOK
<1>3. NoThread \notin Threads
  BY RsrcAssumption
<1>4. CASE pxRsrcNewPool
  <2>1. numInUse = 0 /\ Moving' = 0
    <3>1. active = {} /\ mutex = NoThread
      BY <1>1, <1>4 DEF Unmade, pxRsrcNewPool
    <3>2. numInUse = 0
      BY <3>1, FS_EmptySet DEF PoolInv, Counted
    <3>3. mutex' = NoThread
      BY <1>4, <3>1 DEF pxRsrcNewPool
    <3>4. QED
      BY <3>2, <3>3 DEF Moving
  <2>2. numFree' = pool'.init /\ numInUse' = numInUse
    BY <1>4 DEF pxRsrcNewPool
  <2>3. pool'.init \in Nat
    BY <1>4, RsrcAssumption DEF pxRsrcNewPool
  <2>4. QED
    BY <2>1, <2>2, <2>3 DEF Grown, Total
<1>5. ASSUME NEW t \in Threads, Step(t) \/ Call(t) PROVE Grown'
  <2>1. pool' = pool
    BY <1>5 DEF Step, Call, Alloc, Free, AllocRefused, AllocGrow, prviRsrcOOM, AllocTake,
       AllocUnlink, AllocLink, FreeRemove, FreeGive
  <2> USE DEF Total
  <2>2. Total \in Nat /\ Total' \in Nat
    <3>1. Total \in Nat
      BY <1>2 DEF Moving
    <3>2. Moving' \in Nat
      BY DEF Moving
    <3>3. \A i, j, k \in Nat : i + j + k \in Nat
      OBVIOUS
    <3>4. Total' \in Nat
      BY <1>2, <3>2, <3>3
    <3>5. QED
      BY <3>1, <3>4
  <2>3. Total' <= Total \/ (~Full /\ Total' = numFree + numInUse + pool.incr)
    <3>1. CASE pc[t] = "idle"
      <4>1. CASE Alloc(t)
        <5>1. Moving' = 0
          BY <1>1, <1>3, <4>1 DEF Alloc, Goto, Lock, Moving, TypeOK
        <5>2. UNCHANGED <<numFree, numInUse>>
          BY <4>1 DEF Alloc, counters
        <5>3. QED
          BY <1>2, <2>2, <5>1, <5>2 DEF Moving
      <4>2. CASE Free(t)
        <5>1. Moving' = 0
          BY <1>1, <1>3, <4>2 DEF Free, Goto, Lock, Moving, TypeOK
        <5>2. UNCHANGED <<numFree, numInUse>>
          BY <4>2 DEF Free, counters
        <5>3. QED
          BY <1>2, <2>2, <5>1, <5>2 DEF Moving
      <4>3. QED
        BY <1>5, <3>1, <4>1, <4>2 DEF Step, Call, AllocRefused, AllocGrow, prviRsrcOOM,
           AllocTake, AllocUnlink, AllocLink, FreeRemove, FreeGive, At
    <3>2. CASE pc[t] # "idle"
      <4>1. mutex = t /\ t # NoThread /\ pc' \in [Threads -> Labels]
        BY <1>1, <1>3, <3>2, TypeStep DEF OwnerInside, TypeOK
      <4>2. Moving = IF pc[t] \in {"link", "give"} THEN 1 ELSE 0
        BY <4>1 DEF Moving
      <4>3. Moving' = IF mutex' = t /\ pc'[t] \in {"link", "give"} THEN 1 ELSE 0
        <5>1. mutex' \in {t, NoThread}
          BY <1>5, <3>2, <4>1 DEF Step, Call, Alloc, Free, AllocRefused, AllocGrow, prviRsrcOOM,
             AllocTake, AllocUnlink, AllocLink, FreeRemove, FreeGive, Unlock, At
        <5>2. QED
          BY <4>1, <5>1 DEF Moving
      <4> USE DEF At, Goto, Unlock, counters, lists, TypeOK
      <4>4. CASE AllocRefused(t) \/ prviRsrcOOM(t) \/ AllocTake(t)
        <5>1. UNCHANGED <<numFree, numInUse>>
          BY <4>4, ListsKept
        <5>2. pc[t] \in {"test", "take"} /\ pc'[t] \in {"idle", "test", "take", "unlink"}
          BY <1>1, <4>4 DEF AllocRefused, prviRsrcOOM, AllocTake
        <5>3. Moving = 0 /\ Moving' = 0
          BY <4>2, <4>3, <5>2
        <5>4. QED
          BY <1>2, <5>1, <5>3
      <4>5. CASE AllocGrow(t)
        <5>1. numFree' = numFree + pool.incr /\ numInUse' = numInUse /\ ~Full
          BY <4>5 DEF AllocGrow
        <5>2. Moving' = 0
          BY <1>1, <4>1, <4>3, <4>5 DEF AllocGrow
        <5>3. QED
          BY <1>2, <5>1, <5>2
      <4>6. CASE AllocUnlink(t)
        BY <1>1, <1>2, <4>1, <4>2, <4>3, <4>6 DEF AllocUnlink
      <4>7. CASE AllocLink(t)
        BY <1>1, <1>2, <1>3, <4>1, <4>2, <4>3, <4>7 DEF AllocLink
      <4>8. CASE FreeRemove(t)
        BY <1>1, <1>2, <4>1, <4>2, <4>3, <4>8 DEF FreeRemove
      <4>9. CASE FreeGive(t)
        <5>1. pc[t] = "give" /\ mutex' = NoThread /\ numInUse' = numInUse
          BY <4>9 DEF FreeGive
        <5>2. Moving = 1 /\ Moving' = 0
          BY <1>3, <4>1, <4>2, <4>3, <5>1
        <5>3. numFree' = numFree \/ numFree' = numFree + 1
          BY <4>9 DEF FreeGive
        <5>4. Total' <= Total
          <6>1. CASE numFree' = numFree
            BY <1>2, <5>1, <5>2, <6>1
          <6>2. CASE numFree' = numFree + 1
            BY <1>2, <5>1, <5>2, <6>2
          <6>3. QED
            BY <5>3, <6>1, <6>2
        <5>5. QED
          BY <5>4
      <4>10. QED
        BY <1>5, <3>2, <4>4, <4>5, <4>6, <4>7, <4>8, <4>9 DEF Step, Call, Alloc, Free
    <3>3. QED
      BY <3>1, <3>2
  <2>4. QED
    <3>1. CASE Total' <= Total
      BY <1>1, <1>2, <2>1, <2>2, <3>1 DEF Grown
    <3>2. CASE ~Full /\ Total' = numFree + numInUse + pool.incr
      BY <1>2, <2>1, <3>2 DEF Grown, Full
    <3>3. QED
      BY <2>3, <3>1, <3>2
<1>6. CASE UNCHANGED vars
  BY <1>1, <1>6 DEF vars, Grown, Total, Moving, counters
<1>7. QED
  BY <1>4, <1>5, <1>6 DEF Next

LEMMA UnmadeStep == ASSUME PoolInv, [Next]_vars PROVE Unmade'
<1>1. Unmade
  BY DEF PoolInv
<1>2. program' = "start" => UNCHANGED vars
  BY DEF Next, Call, Step, pxRsrcNewPool, Alloc, Free, AllocRefused, AllocGrow, prviRsrcOOM,
     AllocTake, AllocUnlink, AllocLink, FreeRemove, FreeGive, At, vars
<1>3. QED
  BY <1>1, <1>2 DEF Unmade, vars, lists
-----------------------------------------------------------------------------
(* The inductive invariant of a pool and the calls of its threads (rsrc.c). *)
THEOREM PoolInvariant == Spec => []PoolInv
<1>1. Init => PoolInv
  BY InitPool
<1>2. PoolInv /\ [Next]_vars => PoolInv'
  BY TypeStep, OwnerStep, CallStep, HeldStep, CountStep, GrownStep, UnmadeStep DEF PoolInv
<1>3. QED
  BY <1>1, <1>2, PTL DEF Spec

(* Types; in particular the counters of free and used resources never fall   *)
(* below zero.                                                              *)
THEOREM PoolTypeCorrect == Spec => []TypeOK
<1>1. PoolInv => TypeOK
  BY DEF PoolInv
<1>2. QED
  BY <1>1, PoolInvariant, PTL

(* What pxRsrcVarAlloc gave to a thread is nobody else's and not free. *)
THEOREM OneUserEach == Spec => []Exclusive
<1>1. PoolInv => Exclusive
  BY DEF PoolInv, Held, Exclusive
<1>2. QED
  BY <1>1, PoolInvariant, PTL

(* Between calls the counters are the lengths of the lists, and the active   *)
(* list is what the threads hold.                                           *)
THEOREM CountersExact == Spec => []CountsExact
<1>1. PoolInv => CountsExact
  BY RsrcAssumption DEF PoolInv, Held, Counted, OwnerInside, TypeOK, CountsExact
<1>2. QED
  BY <1>1, PoolInvariant, PTL

(* A pool ends below its limit plus one increment, or at its first size. *)
THEOREM LimitKept == Spec => []GrowthBounded
<1>1. PoolInv => GrowthBounded
  <2>1. SUFFICES ASSUME PoolInv PROVE GrowthBounded
    OBVIOUS
  <2>2. Grown /\ Moving \in {0, 1} /\ numFree \in Nat /\ numInUse \in Nat
        /\ pool \in [size : Nat, init : Nat, incr : Nat, max : Nat]
    BY <2>1 DEF PoolInv, TypeOK, Moving
  <2>3. QED
    BY <2>2 DEF Grown, Total, GrowthBounded
<1>2. QED
  BY <1>1, PoolInvariant, PTL

-----------------------------------------------------------------------------
(* The number manager: nothing is allocated at first. *)
LEMMA InitNumMgrInv == NumInit => NumMgrInv
BY NumMgrAssumption DEF NumInit, NumMgrInv, NumTypeOK, LoopRange, Numbers, numCnt

(* Each step keeps the loop variable in the array, whatever other threads do *)
(* to the array in the meantime.                                            *)
LEMMA NextNumMgrInv == NumMgrInv /\ [NumNext]_numVars => NumMgrInv'
<1> SUFFICES ASSUME NumMgrInv, [NumNext]_numVars PROVE NumMgrInv'
  OBVIOUS
<1> USE NumMgrAssumption
<1>1. ASSUME NEW t \in Callers, AllocateBegin(t)
      PROVE  NumMgrInv'
  BY <1>1 DEF AllocateBegin, NumMgrInv, NumTypeOK, LoopRange, Numbers, numCnt
<1>2. ASSUME NEW t \in Callers, AllocateProbe(t)
      PROVE  NumMgrInv'
  <2>1. Wrap(p[t]) \in Numbers
    BY <1>2 DEF AllocateProbe, NumMgrInv, NumTypeOK, LoopRange, Wrap, Numbers, numCnt
  <2>w. word' \in [Callers -> SUBSET Numbers]
    <3>1. ba \in SUBSET Numbers /\ word \in [Callers -> SUBSET Numbers]
      BY DEF NumMgrInv, NumTypeOK
    <3>2. word' = word \/ word' = [word EXCEPT ![t] = ba]
      BY <1>2 DEF AllocateProbe
    <3> HIDE DEF Numbers
    <3> QED BY <3>1, <3>2
  <2>p. p' \in [Callers -> 0 .. numCnt]
    <3>1. Wrap(p[t]) + 1 \in 0 .. numCnt /\ Wrap(p[t]) \in 0 .. numCnt
      BY <2>1 DEF Numbers, numCnt
    <3> QED BY <1>2, <3>1 DEF AllocateProbe, NumMgrInv, NumTypeOK
  <2>r. result' \in [Callers -> (0 .. numCntArg) \cup {UINT_MAX}]
    BY <1>2 DEF AllocateProbe, NumMgrInv, NumTypeOK
  <2>2. NumTypeOK'
    BY <1>2, <2>w, <2>p, <2>r DEF AllocateProbe, NumMgrInv, NumTypeOK
  <2>3. LoopRange'
    BY <1>2, <2>1 DEF AllocateProbe, NumMgrInv, NumTypeOK, LoopRange, Numbers, numCnt
  <2> QED BY <2>2, <2>3 DEF NumMgrInv
<1>3. ASSUME NEW t \in Callers, AllocateSet(t)
      PROVE  NumMgrInv'
  <2>1. p[t] \in Numbers
    BY <1>3 DEF AllocateSet, NumMgrInv, LoopRange
  <2>2. NumTypeOK'
    BY <1>3, <2>1 DEF AllocateSet, NumMgrInv, NumTypeOK, Numbers, numCnt
  <2>3. LoopRange'
    BY <1>3 DEF AllocateSet, NumMgrInv, NumTypeOK, LoopRange
  <2> QED BY <2>2, <2>3 DEF NumMgrInv
<1>4. ASSUME NEW t \in Callers, NEW n \in Numbers, ReleaseBegin(t, n)
      PROVE  NumMgrInv'
  <2>w. word' \in [Callers -> SUBSET Numbers] /\ reserved' \in [Callers -> SUBSET Numbers]
    <3>1. /\ ba \in SUBSET Numbers /\ word \in [Callers -> SUBSET Numbers]
          /\ reserved \in [Callers -> SUBSET Numbers] /\ reserved[t] \ {n} \in SUBSET Numbers
      BY DEF NumMgrInv, NumTypeOK
    <3>2. /\ word' = word \/ word' = [word EXCEPT ![t] = ba]
          /\ reserved' = reserved \/ reserved' = [reserved EXCEPT ![t] = reserved[t] \ {n}]
      BY <1>4 DEF ReleaseBegin, NumMgrInv, NumTypeOK
    <3> QED BY <3>1, <3>2
  <2>p. p' \in [Callers -> 0 .. numCnt]
    <3>1. n \in 0 .. numCnt
      BY DEF Numbers, numCnt
    <3> QED BY <1>4, <3>1 DEF ReleaseBegin, NumMgrInv, NumTypeOK
  <2>r. result' \in [Callers -> (0 .. numCntArg) \cup {UINT_MAX}]
    BY <1>4 DEF ReleaseBegin, NumMgrInv, NumTypeOK
  <2>1. NumTypeOK'
    BY <1>4, <2>w, <2>p, <2>r DEF ReleaseBegin, NumMgrInv, NumTypeOK
  <2>2. LoopRange'
    BY <1>4 DEF ReleaseBegin, NumMgrInv, NumTypeOK, LoopRange
  <2> QED BY <2>1, <2>2 DEF NumMgrInv
<1>5. ASSUME NEW t \in Callers, ReleaseClear(t)
      PROVE  NumMgrInv'
  <2>1. NumTypeOK'
    BY <1>5 DEF ReleaseClear, NumMgrInv, NumTypeOK, Numbers
  <2>2. LoopRange'
    BY <1>5 DEF ReleaseClear, NumMgrInv, NumTypeOK, LoopRange
  <2> QED BY <2>1, <2>2 DEF NumMgrInv
<1>6. CASE UNCHANGED numVars
  BY <1>6 DEF numVars, NumMgrInv, NumTypeOK, LoopRange
<1> QED BY <1>1, <1>2, <1>3, <1>4, <1>5, <1>6 DEF NumNext, Run

(* The manager never leaves its bit array, whatever the threads do. *)
THEOREM NumMgrTypeCorrect == NumSpec => []NumTypeOK
<1>1. NumMgrInv => NumTypeOK
  BY DEF NumMgrInv
<1> QED BY <1>1, InitNumMgrInv, NextNumMgrInv, PTL DEF NumSpec
=============================================================================
