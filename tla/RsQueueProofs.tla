--------------------------- MODULE RsQueueProofs ---------------------------
(***************************************************************************)
(* What holds of Common/queue.c for every set of threads, every limit and   *)
(* every mix of calls.                                                     *)
(***************************************************************************)
EXTENDS RsQueue, TLAPS, FiniteSetTheorems, SequenceTheorems

(* Counting threads gives a natural number, at least one if somebody is there. *)
LEMMA CountNat ==
    ASSUME NEW p \in [Threads -> Labels], NEW L
    PROVE  /\ Count(p, L) \in Nat
           /\ \A t \in Threads : p[t] \in L => Count(p, L) >= 1
<1> DEFINE S == {t \in Threads : p[t] \in L}
<1>1. IsFiniteSet(S) /\ Cardinality(S) \in Nat
  BY QueueAssumption, FS_Subset, FS_CardinalityType
<1>2. ASSUME NEW t \in Threads, p[t] \in L
      PROVE  Cardinality(S) >= 1
  <2>1. t \in S
    BY <1>2
  <2>2. Cardinality(S \ {t}) = Cardinality(S) - 1
    BY <1>1, <2>1, FS_RemoveElement
  <2>3. Cardinality(S \ {t}) \in Nat
    BY <1>1, FS_RemoveElement, FS_CardinalityType
  <2> QED BY <1>1, <2>2, <2>3
<1> QED BY <1>1, <1>2 DEF Count

(* How a count changes when one thread moves to another label. *)
LEMMA CountMove ==
    ASSUME NEW p \in [Threads -> Labels], NEW q \in [Threads -> Labels],
           NEW t \in Threads, \A u \in Threads : u # t => q[u] = p[u], NEW L
    PROVE  Count(q, L) =
             Count(p, L) + (IF q[t] \in L THEN 1 ELSE 0)
                         - (IF p[t] \in L THEN 1 ELSE 0)
<1> DEFINE S == {u \in Threads : p[u] \in L}
           T == {u \in Threads : q[u] \in L}
<1>1. IsFiniteSet(S) /\ Cardinality(S) \in Nat
  BY QueueAssumption, FS_Subset, FS_CardinalityType
<1>2. t \in S <=> p[t] \in L
  OBVIOUS
<1>3. CASE q[t] \in L
  <2>1. T = S \cup {t}
    BY <1>3
  <2>2. Cardinality(T) = IF t \in S THEN Cardinality(S) ELSE Cardinality(S) + 1
    BY <2>1, <1>1, FS_AddElement
  <2> QED BY <1>1, <1>2, <1>3, <2>2 DEF Count
<1>4. CASE q[t] \notin L
  <2>1. T = S \ {t}
    BY <1>4
  <2>2. Cardinality(T) = IF t \in S THEN Cardinality(S) - 1 ELSE Cardinality(S)
    BY <2>1, <1>1, FS_RemoveElement
  <2> QED BY <1>1, <1>2, <1>4, <2>2 DEF Count
<1> QED BY <1>3, <1>4

(* Nobody is at a label the initial state does not use. *)
LEMMA CountInit ==
    ASSUME NEW L, "idle" \notin L
    PROVE  Count([t \in Threads |-> "idle"], L) = 0
<1>1. {t \in Threads : [u \in Threads |-> "idle"][t] \in L} = {}
  OBVIOUS
<1> QED BY <1>1, FS_EmptySet DEF Count

LEMMA InitQueueInv == Init => QueueInv
<1> SUFFICES ASSUME Init PROVE QueueInv
  OBVIOUS
<1>1. TypeOK
  BY QueueAssumption DEF Init, TypeOK, Labels, ApiCalls, SendCalls, Statuses
<1>2. /\ Count(pc, {"r_remove"}) = 0
      /\ Count(pc, {"s_post"}) = 0
      /\ Count(pc, {"s_alloc", "s_insert", "r_post"}) = 0
      /\ Count(pc, {"s_insert", "r_post", "r_free"}) = 0
  BY CountInit DEF Init
<1> QED BY <1>1, <1>2, QueueAssumption
     DEF Init, QueueInv, ItemTokens, PlaceBudget, PoolBudget, PoolBound, Bounded

(* Every step of a thread preserves the invariant. *)
LEMMA NextQueueInv == QueueInv /\ [Next]_vars => QueueInv'
<1> SUFFICES ASSUME QueueInv, [Next]_vars PROVE QueueInv'
  OBVIOUS
<1> USE QueueAssumption
<1>0. TypeOK /\ ItemTokens /\ PlaceBudget /\ PoolBudget /\ PoolBound
  BY DEF QueueInv
<1> DEFINE R == {"r_remove"}
           P == {"s_post"}
           A == {"s_alloc", "s_insert", "r_post"}
           U == {"s_insert", "r_post", "r_free"}
<1> DEFINE Delta(t, l, L) ==
             /\ Count(pc, L) \in Nat
             /\ pc[t] \in L => Count(pc, L) >= 1
             /\ Count(pc', L) = Count(pc, L) + (IF l \in L THEN 1 ELSE 0)
                                             - (IF pc[t] \in L THEN 1 ELSE 0)
           Moved(t, l) == /\ Delta(t, l, R) /\ Delta(t, l, P)
                          /\ Delta(t, l, A) /\ Delta(t, l, U)
<1>m. ASSUME NEW t \in Threads, NEW l \in Labels, pc' = [pc EXCEPT ![t] = l]
      PROVE  Moved(t, l)
  <2>1. pc \in [Threads -> Labels]
    BY <1>0 DEF TypeOK
  <2>2. /\ pc' \in [Threads -> Labels] /\ pc'[t] = l
        /\ \A u \in Threads : u # t => pc'[u] = pc[u]
    BY <1>m, <2>1
  <2>3. ASSUME NEW L PROVE Delta(t, l, L)
    BY <2>1, <2>2, CountNat, CountMove
  <2> HIDE DEF Delta
  <2> QED BY <2>3
<1> HIDE DEF Moved
<1>t. /\ Len(xQueueList) \in Nat /\ xSemItems \in Nat
      /\ xSemPlaces \in Nat /\ uiNumInUse \in Nat
  BY <1>0 DEF TypeOK
(* Moves between labels at which a thread holds nothing. *)
<1> DEFINE Neutral == Labels \ (R \cup P \cup A \cup U)
<1>n. ASSUME NEW t \in Threads, NEW l \in Neutral, pc[t] \in Neutral,
             pc' = [pc EXCEPT ![t] = l], TypeOK',
             UNCHANGED <<xBlock, xQueueList, xSemItems, xSemPlaces, uiNumInUse>>
      PROVE  QueueInv'
  <2>1. Moved(t, l)
    <3>1. l \in Labels
      OBVIOUS
    <3> QED BY <1>m, <1>n, <3>1
  <2>2. l \notin R /\ l \notin P /\ l \notin A /\ l \notin U
    OBVIOUS
  <2>3. pc[t] \notin R /\ pc[t] \notin P /\ pc[t] \notin A /\ pc[t] \notin U
    BY <1>n
  <2>4. /\ Count(pc', R) = Count(pc, R) /\ Count(pc', P) = Count(pc, P)
        /\ Count(pc', A) = Count(pc, A) /\ Count(pc', U) = Count(pc, U)
    <3> HIDE DEF R, P, A, U
    <3> QED BY <2>1, <2>2, <2>3 DEF Moved
  <2> QED BY <1>0, <1>n, <2>4
        DEF QueueInv, ItemTokens, PlaceBudget, PoolBudget, PoolBound, Bounded
<1>1. ASSUME NEW t \in Threads, NEW c \in SendCalls, NEW v \in Items, SendBegin(t, c, v)
      PROVE  QueueInv'
  <2>1. pc[t] = "idle" /\ \E l \in {"s_lock", "s_place"} : pc' = [pc EXCEPT ![t] = l]
    BY <1>1 DEF SendBegin, Goto, Return
  <2>2. TypeOK'
    BY <1>1, <1>0, <2>1 DEF SendBegin, TypeOK, Labels, ApiCalls, Statuses
  <2>3. UNCHANGED <<xBlock, xQueueList, xSemItems, xSemPlaces, uiNumInUse>>
    BY <1>1 DEF SendBegin
  <2> QED BY <1>n, <2>1, <2>2, <2>3 DEF Labels
<1>2. ASSUME NEW t \in Threads, SendLock(t)
      PROVE  QueueInv'
  <2>1. pc[t] = "s_lock" /\ \E l \in {"s_place", "idle", "unlock"} : pc' = [pc EXCEPT ![t] = l]
    BY <1>2 DEF SendLock, Goto, Return
  <2>2. TypeOK'
    BY <1>2, <1>0, <2>1 DEF SendLock, TypeOK, Labels, ApiCalls, Statuses, Return, Goto
  <2>3. UNCHANGED <<xBlock, xQueueList, xSemItems, xSemPlaces, uiNumInUse>>
    BY <1>2 DEF SendLock
  <2> QED BY <1>n, <2>1, <2>2, <2>3 DEF Labels
<1>3. ASSUME NEW t \in Threads, SendTakePlace(t)
      PROVE  QueueInv'
  <2>1. pc[t] = "s_place" /\ \E l \in {"s_alloc"} : pc' = [pc EXCEPT ![t] = l]
    BY <1>3 DEF SendTakePlace, Goto, Return
  <2>2. PICK l \in {"s_alloc"} : pc' = [pc EXCEPT ![t] = l]
    BY <2>1
  <2>3. Moved(t, l)
    BY <1>m, <2>2 DEF Labels
  <2>4. /\ Count(pc, R) \in Nat /\ Count(pc, P) \in Nat
        /\ Count(pc, A) \in Nat /\ Count(pc, U) \in Nat
        /\ Count(pc', R) = Count(pc, R)
        /\ Count(pc', P) = Count(pc, P)
        /\ Count(pc', A) = Count(pc, A) + 1
        /\ Count(pc', U) = Count(pc, U)
    BY <2>1, <2>3 DEF Moved
  <2>5. /\ xBlock' = xBlock
        /\ xQueueList' = xQueueList
        /\ xSemItems' = xSemItems
        /\ xBlock /\ Bounded /\ xSemPlaces > 0 /\ xSemPlaces' = xSemPlaces - 1
        /\ uiNumInUse' = uiNumInUse
    BY <1>3, <1>0, <1>t DEF SendTakePlace, TypeOK, Bounded
  <2>6. TypeOK'
    BY <1>3, <1>0, <1>t, <2>1, <2>4, <2>5 DEF SendTakePlace, TypeOK, Labels, Statuses, Return
  <2>7. ItemTokens'
    BY <1>0, <1>t, <2>4, <2>5 DEF ItemTokens
  <2>8. PlaceBudget'
    BY <1>0, <1>t, <2>4, <2>5 DEF PlaceBudget, Bounded
  <2>9. PoolBudget' /\ PoolBound'
    BY <1>0, <1>t, <2>4, <2>5 DEF PoolBudget, PoolBound, Bounded
  <2> QED BY <2>6, <2>7, <2>8, <2>9 DEF QueueInv
<1>4. ASSUME NEW t \in Threads, SendTimeout(t)
      PROVE  QueueInv'
  <2>1. pc[t] = "s_place" /\ \E l \in {"idle", "unlock"} : pc' = [pc EXCEPT ![t] = l]
    BY <1>4 DEF SendTimeout, Goto, Return
  <2>2. TypeOK'
    BY <1>4, <1>0, <2>1 DEF SendTimeout, TypeOK, Labels, ApiCalls, Statuses, Return
  <2>3. UNCHANGED <<xBlock, xQueueList, xSemItems, xSemPlaces, uiNumInUse>>
    BY <1>4 DEF SendTimeout
  <2> QED BY <1>n, <2>1, <2>2, <2>3 DEF Labels
<1>c1. ASSUME NEW t \in Threads, SendCheckLength(t), ~(Bounded /\ AtMax)
      PROVE  QueueInv'
  <2>1. pc[t] = "s_place" /\ pc' = [pc EXCEPT ![t] = "s_alloc"]
    BY <1>c1 DEF SendCheckLength, Goto
  <2>2. Moved(t, "s_alloc")
    BY <1>m, <2>1 DEF Labels
  <2>3. /\ Count(pc', R) = Count(pc, R) /\ Count(pc', P) = Count(pc, P)
        /\ Count(pc', U) = Count(pc, U)
    BY <2>1, <2>2 DEF Moved
  <2>4. /\ ~(xBlock /\ Bounded)
        /\ UNCHANGED <<xBlock, xQueueList, xSemItems, xSemPlaces, uiNumInUse>>
    BY <1>c1 DEF SendCheckLength
  <2>5. TypeOK'
    BY <1>c1, <1>0, <2>1 DEF SendCheckLength, TypeOK, Labels
  <2> QED BY <1>0, <2>3, <2>4, <2>5
        DEF QueueInv, ItemTokens, PlaceBudget, PoolBudget, PoolBound, Bounded
<1>c2. ASSUME NEW t \in Threads, SendCheckLength(t), Bounded /\ AtMax
      PROVE  QueueInv'
  <2>1. pc[t] = "s_place" /\ \E l \in {"idle", "unlock"} : pc' = [pc EXCEPT ![t] = l]
    BY <1>c2 DEF SendCheckLength, Return
  <2>2. TypeOK'
    BY <1>c2, <1>0, <2>1 DEF SendCheckLength, TypeOK, Labels, Statuses, Return
  <2>3. UNCHANGED <<xBlock, xQueueList, xSemItems, xSemPlaces, uiNumInUse>>
    BY <1>c2 DEF SendCheckLength
  <2> QED BY <1>n, <2>1, <2>2, <2>3 DEF Labels
<1>5. ASSUME NEW t \in Threads, SendAlloc(t), ~(Bounded /\ uiNumInUse >= unMaxItemCount)
      PROVE  QueueInv'
  <2>1. pc[t] = "s_alloc" /\ \E l \in {"s_insert"} : pc' = [pc EXCEPT ![t] = l]
    BY <1>5 DEF SendAlloc, Goto, Return
  <2>2. PICK l \in {"s_insert"} : pc' = [pc EXCEPT ![t] = l]
    BY <2>1
  <2>3. Moved(t, l)
    BY <1>m, <2>2 DEF Labels
  <2>4. /\ Count(pc, R) \in Nat /\ Count(pc, P) \in Nat
        /\ Count(pc, A) \in Nat /\ Count(pc, U) \in Nat
        /\ Count(pc', R) = Count(pc, R)
        /\ Count(pc', P) = Count(pc, P)
        /\ Count(pc', A) = Count(pc, A)
        /\ Count(pc', U) = Count(pc, U) + 1
    BY <2>1, <2>3 DEF Moved
  <2>5. /\ xBlock' = xBlock
        /\ xQueueList' = xQueueList
        /\ xSemItems' = xSemItems
        /\ xSemPlaces' = xSemPlaces
        /\ (Bounded => uiNumInUse < unMaxItemCount) /\ uiNumInUse' = uiNumInUse + 1
    BY <1>5, <1>0, <1>t DEF SendAlloc, TypeOK, Bounded
  <2>6. TypeOK'
    BY <1>5, <1>0, <1>t, <2>1, <2>4, <2>5 DEF SendAlloc, TypeOK, Labels, Statuses, Return
  <2>7. ItemTokens'
    BY <1>0, <1>t, <2>4, <2>5 DEF ItemTokens
  <2>8. PlaceBudget'
    BY <1>0, <1>t, <2>4, <2>5 DEF PlaceBudget, Bounded
  <2>9. PoolBudget' /\ PoolBound'
    BY <1>0, <1>t, <2>4, <2>5 DEF PoolBudget, PoolBound, Bounded
  <2> QED BY <2>6, <2>7, <2>8, <2>9 DEF QueueInv
<1>6. ASSUME NEW t \in Threads, SendAlloc(t), Bounded /\ uiNumInUse >= unMaxItemCount
      PROVE  QueueInv'
  <2>1. pc[t] = "s_alloc" /\ \E l \in {"idle", "unlock"} : pc' = [pc EXCEPT ![t] = l]
    BY <1>6 DEF SendAlloc, Goto, Return
  <2>2. PICK l \in {"idle", "unlock"} : pc' = [pc EXCEPT ![t] = l]
    BY <2>1
  <2>3. Moved(t, l)
    BY <1>m, <2>2 DEF Labels
  <2>4. /\ Count(pc, R) \in Nat /\ Count(pc, P) \in Nat
        /\ Count(pc, A) \in Nat /\ Count(pc, U) \in Nat
        /\ Count(pc', R) = Count(pc, R)
        /\ Count(pc', P) = Count(pc, P)
        /\ Count(pc', A) = Count(pc, A) - 1
        /\ Count(pc, A) >= 1
        /\ Count(pc', U) = Count(pc, U)
    BY <2>1, <2>3 DEF Moved
  <2>5. /\ xBlock' = xBlock
        /\ xQueueList' = xQueueList
        /\ xSemItems' = xSemItems
        /\ xSemPlaces' = xSemPlaces
        /\ uiNumInUse' = uiNumInUse
    BY <1>6, <1>0, <1>t DEF SendAlloc, TypeOK, Bounded
  <2>6. TypeOK'
    BY <1>6, <1>0, <1>t, <2>1, <2>4, <2>5 DEF SendAlloc, TypeOK, Labels, Statuses, Return
  <2>7. ItemTokens'
    BY <1>0, <1>t, <2>4, <2>5 DEF ItemTokens
  <2>8. PlaceBudget'
    BY <1>0, <1>t, <2>4, <2>5 DEF PlaceBudget, Bounded
  <2>9. PoolBudget' /\ PoolBound'
    BY <1>0, <1>t, <2>4, <2>5 DEF PoolBudget, PoolBound, Bounded
  <2> QED BY <2>6, <2>7, <2>8, <2>9 DEF QueueInv
<1>7. ASSUME NEW t \in Threads, SendInsert(t)
      PROVE  QueueInv'
  <2>1. pc[t] = "s_insert" /\ \E l \in {"s_post"} : pc' = [pc EXCEPT ![t] = l]
    BY <1>7 DEF SendInsert, Goto, Return
  <2>2. PICK l \in {"s_post"} : pc' = [pc EXCEPT ![t] = l]
    BY <2>1
  <2>3. Moved(t, l)
    BY <1>m, <2>2 DEF Labels
  <2>4. /\ Count(pc, R) \in Nat /\ Count(pc, P) \in Nat
        /\ Count(pc, A) \in Nat /\ Count(pc, U) \in Nat
        /\ Count(pc', R) = Count(pc, R)
        /\ Count(pc', P) = Count(pc, P) + 1
        /\ Count(pc', A) = Count(pc, A) - 1
        /\ Count(pc, A) >= 1
        /\ Count(pc', U) = Count(pc, U) - 1
        /\ Count(pc, U) >= 1
    BY <2>1, <2>3 DEF Moved
  <2>5. /\ xBlock' = xBlock
        /\ xQueueList' \in Seq(Items) /\ Len(xQueueList') = Len(xQueueList) + 1
        /\ xSemItems' = xSemItems
        /\ xSemPlaces' = xSemPlaces
        /\ uiNumInUse' = uiNumInUse
    BY <1>7, <1>0, <1>t DEF SendInsert, TypeOK, Bounded
  <2>6. TypeOK'
    BY <1>7, <1>0, <1>t, <2>1, <2>4, <2>5 DEF SendInsert, TypeOK, Labels, Statuses, Return
  <2>7. ItemTokens'
    BY <1>0, <1>t, <2>4, <2>5, SMTT(60) DEF ItemTokens
  <2>8. PlaceBudget'
    BY <1>0, <1>t, <2>4, <2>5 DEF PlaceBudget, Bounded
  <2>9. PoolBudget' /\ PoolBound'
    BY <1>0, <1>t, <2>4, <2>5 DEF PoolBudget, PoolBound, Bounded
  <2> QED BY <2>6, <2>7, <2>8, <2>9 DEF QueueInv
<1>8. ASSUME NEW t \in Threads, SendPost(t)
      PROVE  QueueInv'
  <2>1. pc[t] = "s_post" /\ \E l \in {"idle", "unlock"} : pc' = [pc EXCEPT ![t] = l]
    BY <1>8 DEF SendPost, Goto, Return
  <2>2. PICK l \in {"idle", "unlock"} : pc' = [pc EXCEPT ![t] = l]
    BY <2>1
  <2>3. Moved(t, l)
    BY <1>m, <2>2 DEF Labels
  <2>4. /\ Count(pc, R) \in Nat /\ Count(pc, P) \in Nat
        /\ Count(pc, A) \in Nat /\ Count(pc, U) \in Nat
        /\ Count(pc', R) = Count(pc, R)
        /\ Count(pc', P) = Count(pc, P) - 1
        /\ Count(pc, P) >= 1
        /\ Count(pc', A) = Count(pc, A)
        /\ Count(pc', U) = Count(pc, U)
    BY <2>1, <2>3 DEF Moved
  <2>5. /\ xBlock' = xBlock
        /\ xQueueList' = xQueueList
        /\ xSemItems' = IF xBlock THEN xSemItems + 1 ELSE xSemItems
        /\ xSemPlaces' = xSemPlaces
        /\ uiNumInUse' = uiNumInUse
    BY <1>8, <1>0, <1>t DEF SendPost, TypeOK, Bounded
  <2>6. TypeOK'
    BY <1>8, <1>0, <1>t, <2>1, <2>4, <2>5 DEF SendPost, TypeOK, Labels, Statuses, Return
  <2>7. ItemTokens'
    BY <1>0, <1>t, <2>4, <2>5 DEF ItemTokens
  <2>8. PlaceBudget'
    BY <1>0, <1>t, <2>4, <2>5 DEF PlaceBudget, Bounded
  <2>9. PoolBudget' /\ PoolBound'
    BY <1>0, <1>t, <2>4, <2>5 DEF PoolBudget, PoolBound, Bounded
  <2> QED BY <2>6, <2>7, <2>8, <2>9 DEF QueueInv
<1>9. ASSUME NEW t \in Threads, NEW c \in ReceiveCalls, ReceiveBegin(t, c)
      PROVE  QueueInv'
  <2>1. pc[t] = "idle" /\ \E l \in {"r_lock", "r_item"} : pc' = [pc EXCEPT ![t] = l]
    BY <1>9 DEF ReceiveBegin, Goto, Return
  <2>2. TypeOK'
    BY <1>9, <1>0, <2>1 DEF ReceiveBegin, TypeOK, Labels, ApiCalls, Statuses
  <2>3. UNCHANGED <<xBlock, xQueueList, xSemItems, xSemPlaces, uiNumInUse>>
    BY <1>9 DEF ReceiveBegin
  <2> QED BY <1>n, <2>1, <2>2, <2>3 DEF Labels
<1>10. ASSUME NEW t \in Threads, ReceiveLock(t)
      PROVE  QueueInv'
  <2>1. pc[t] = "r_lock" /\ \E l \in {"r_item", "idle", "unlock"} : pc' = [pc EXCEPT ![t] = l]
    BY <1>10 DEF ReceiveLock, Goto, Return
  <2>2. TypeOK'
    BY <1>10, <1>0, <2>1 DEF ReceiveLock, TypeOK, Labels, ApiCalls, Statuses, Return, Goto
  <2>3. UNCHANGED <<xBlock, xQueueList, xSemItems, xSemPlaces, uiNumInUse>>
    BY <1>10 DEF ReceiveLock
  <2> QED BY <1>n, <2>1, <2>2, <2>3 DEF Labels
<1>11. ASSUME NEW t \in Threads, ReceiveTakeItem(t)
      PROVE  QueueInv'
  <2>1. pc[t] = "r_item" /\ \E l \in {"r_remove"} : pc' = [pc EXCEPT ![t] = l]
    BY <1>11 DEF ReceiveTakeItem, Goto, Return
  <2>2. PICK l \in {"r_remove"} : pc' = [pc EXCEPT ![t] = l]
    BY <2>1
  <2>3. Moved(t, l)
    BY <1>m, <2>2 DEF Labels
  <2>4. /\ Count(pc, R) \in Nat /\ Count(pc, P) \in Nat
        /\ Count(pc, A) \in Nat /\ Count(pc, U) \in Nat
        /\ Count(pc', R) = Count(pc, R) + 1
        /\ Count(pc', P) = Count(pc, P)
        /\ Count(pc', A) = Count(pc, A)
        /\ Count(pc', U) = Count(pc, U)
    BY <2>1, <2>3 DEF Moved
  <2>5. /\ xBlock' = xBlock
        /\ xQueueList' = xQueueList
        /\ (xBlock => xSemItems > 0) /\ xSemItems' = IF xBlock THEN xSemItems - 1 ELSE xSemItems
        /\ xSemPlaces' = xSemPlaces
        /\ uiNumInUse' = uiNumInUse
    BY <1>11, <1>0, <1>t DEF ReceiveTakeItem, TypeOK, Bounded
  <2>6. TypeOK'
    BY <1>11, <1>0, <1>t, <2>1, <2>4, <2>5 DEF ReceiveTakeItem, TypeOK, Labels, Statuses, Return
  <2>7. ItemTokens'
    BY <1>0, <1>t, <2>4, <2>5 DEF ItemTokens
  <2>8. PlaceBudget'
    BY <1>0, <1>t, <2>4, <2>5 DEF PlaceBudget, Bounded
  <2>9. PoolBudget' /\ PoolBound'
    BY <1>0, <1>t, <2>4, <2>5 DEF PoolBudget, PoolBound, Bounded
  <2> QED BY <2>6, <2>7, <2>8, <2>9 DEF QueueInv
<1>12. ASSUME NEW t \in Threads, ReceiveTimeout(t)
      PROVE  QueueInv'
  <2>1. pc[t] = "r_item" /\ \E l \in {"idle", "unlock"} : pc' = [pc EXCEPT ![t] = l]
    BY <1>12 DEF ReceiveTimeout, Goto, Return
  <2>2. TypeOK'
    BY <1>12, <1>0, <2>1 DEF ReceiveTimeout, TypeOK, Labels, ApiCalls, Statuses, Return
  <2>3. UNCHANGED <<xBlock, xQueueList, xSemItems, xSemPlaces, uiNumInUse>>
    BY <1>12 DEF ReceiveTimeout
  <2> QED BY <1>n, <2>1, <2>2, <2>3 DEF Labels
<1>13. ASSUME NEW t \in Threads, ReceiveRemove(t), xQueueList # <<>>
      PROVE  QueueInv'
  <2>1. pc[t] = "r_remove" /\ \E l \in {"r_post"} : pc' = [pc EXCEPT ![t] = l]
    BY <1>13 DEF ReceiveRemove, Goto, Return
  <2>2. PICK l \in {"r_post"} : pc' = [pc EXCEPT ![t] = l]
    BY <2>1
  <2>3. Moved(t, l)
    BY <1>m, <2>2 DEF Labels
  <2>4. /\ Count(pc, R) \in Nat /\ Count(pc, P) \in Nat
        /\ Count(pc, A) \in Nat /\ Count(pc, U) \in Nat
        /\ Count(pc', R) = Count(pc, R) - 1
        /\ Count(pc, R) >= 1
        /\ Count(pc', P) = Count(pc, P)
        /\ Count(pc', A) = Count(pc, A) + 1
        /\ Count(pc', U) = Count(pc, U) + 1
    BY <2>1, <2>3 DEF Moved
  <2>5. /\ xBlock' = xBlock
        /\ xQueueList' \in Seq(Items) /\ Len(xQueueList') = Len(xQueueList) - 1
        /\ xSemItems' = xSemItems
        /\ xSemPlaces' = xSemPlaces
        /\ uiNumInUse' = uiNumInUse
    <3>1. xQueueList \in Seq(Items) /\ xQueueList # <<>>
      BY <1>13, <1>0 DEF TypeOK
    <3>2. Tail(xQueueList) \in Seq(Items) /\ Len(Tail(xQueueList)) = Len(xQueueList) - 1
      BY <3>1, HeadTailProperties
    <3>3. xQueueList' = Tail(xQueueList)
          /\ UNCHANGED <<xBlock, xSemItems, xSemPlaces, uiNumInUse>>
      BY <1>13 DEF ReceiveRemove
    <3>4. QED
      BY <3>2, <3>3
  <2>6. TypeOK'
    BY SMTT(60), <1>13, <1>0, <1>t, <2>1, <2>4, <2>5 DEF ReceiveRemove, TypeOK, Labels, Statuses, Return
  <2>7. ItemTokens'
    BY SMTT(30), <1>0, <1>t, <2>4, <2>5 DEF ItemTokens
  <2>8. PlaceBudget'
    BY <1>0, <1>t, <2>4, <2>5 DEF PlaceBudget, Bounded
  <2>9. PoolBudget' /\ PoolBound'
    BY <1>0, <1>t, <2>4, <2>5 DEF PoolBudget, PoolBound, Bounded
  <2> QED BY <2>6, <2>7, <2>8, <2>9 DEF QueueInv
<1>14. ASSUME NEW t \in Threads, ReceiveRemove(t), xQueueList = <<>>
      PROVE  QueueInv'
  <2>1. pc[t] = "r_remove" /\ \E l \in {"idle", "unlock"} : pc' = [pc EXCEPT ![t] = l]
    BY <1>14 DEF ReceiveRemove, Goto, Return
  <2>2. PICK l \in {"idle", "unlock"} : pc' = [pc EXCEPT ![t] = l]
    BY <2>1
  <2>3. Moved(t, l)
    BY <1>m, <2>2 DEF Labels
  <2>4. /\ Count(pc, R) \in Nat /\ Count(pc, P) \in Nat
        /\ Count(pc, A) \in Nat /\ Count(pc, U) \in Nat
        /\ Count(pc', R) = Count(pc, R) - 1
        /\ Count(pc, R) >= 1
        /\ Count(pc', P) = Count(pc, P)
        /\ Count(pc', A) = Count(pc, A)
        /\ Count(pc', U) = Count(pc, U)
    BY <2>1, <2>3 DEF Moved
  <2>5. /\ xBlock' = xBlock
        /\ xQueueList' = xQueueList
        /\ xSemItems' = xSemItems
        /\ xSemPlaces' = xSemPlaces
        /\ uiNumInUse' = uiNumInUse
        /\ Len(xQueueList) = 0
    BY <1>14, <1>0, <1>t DEF ReceiveRemove, TypeOK, Bounded
  <2>6. TypeOK'
    BY <1>14, <1>0, <1>t, <2>1, <2>4, <2>5 DEF ReceiveRemove, TypeOK, Labels, Statuses, Return
  <2>7. ItemTokens'
    BY <1>0, <1>t, <2>4, <2>5 DEF ItemTokens
  <2>8. PlaceBudget'
    BY <1>0, <1>t, <2>4, <2>5 DEF PlaceBudget, Bounded
  <2>9. PoolBudget' /\ PoolBound'
    BY <1>0, <1>t, <2>4, <2>5 DEF PoolBudget, PoolBound, Bounded
  <2> QED BY <2>6, <2>7, <2>8, <2>9 DEF QueueInv
<1>15. ASSUME NEW t \in Threads, ReceivePost(t)
      PROVE  QueueInv'
  <2>1. pc[t] = "r_post" /\ \E l \in {"r_free"} : pc' = [pc EXCEPT ![t] = l]
    BY <1>15 DEF ReceivePost, Goto, Return
  <2>2. PICK l \in {"r_free"} : pc' = [pc EXCEPT ![t] = l]
    BY <2>1
  <2>3. Moved(t, l)
    BY <1>m, <2>2 DEF Labels
  <2>4. /\ Count(pc, R) \in Nat /\ Count(pc, P) \in Nat
        /\ Count(pc, A) \in Nat /\ Count(pc, U) \in Nat
        /\ Count(pc', R) = Count(pc, R)
        /\ Count(pc', P) = Count(pc, P)
        /\ Count(pc', A) = Count(pc, A) - 1
        /\ Count(pc, A) >= 1
        /\ Count(pc', U) = Count(pc, U)
    BY <2>1, <2>3 DEF Moved
  <2>5. /\ xBlock' = xBlock
        /\ xQueueList' = xQueueList
        /\ xSemItems' = xSemItems
        /\ xSemPlaces' = IF xBlock /\ Bounded THEN xSemPlaces + 1 ELSE xSemPlaces
        /\ uiNumInUse' = uiNumInUse
    BY <1>15, <1>0, <1>t DEF ReceivePost, TypeOK, Bounded
  <2>6. TypeOK'
    BY <1>15, <1>0, <1>t, <2>1, <2>4, <2>5 DEF ReceivePost, TypeOK, Labels, Statuses, Return
  <2>7. ItemTokens'
    BY <1>0, <1>t, <2>4, <2>5 DEF ItemTokens
  <2>8. PlaceBudget'
    BY <1>0, <1>t, <2>4, <2>5 DEF PlaceBudget, Bounded
  <2>9. PoolBudget' /\ PoolBound'
    BY <1>0, <1>t, <2>4, <2>5 DEF PoolBudget, PoolBound, Bounded
  <2> QED BY <2>6, <2>7, <2>8, <2>9 DEF QueueInv
<1>16. ASSUME NEW t \in Threads, ReceiveFree(t)
      PROVE  QueueInv'
  <2>1. pc[t] = "r_free" /\ \E l \in {"idle", "unlock"} : pc' = [pc EXCEPT ![t] = l]
    BY <1>16 DEF ReceiveFree, Goto, Return
  <2>2. PICK l \in {"idle", "unlock"} : pc' = [pc EXCEPT ![t] = l]
    BY <2>1
  <2>3. Moved(t, l)
    BY <1>m, <2>2 DEF Labels
  <2>4. /\ Count(pc, R) \in Nat /\ Count(pc, P) \in Nat
        /\ Count(pc, A) \in Nat /\ Count(pc, U) \in Nat
        /\ Count(pc', R) = Count(pc, R)
        /\ Count(pc', P) = Count(pc, P)
        /\ Count(pc', A) = Count(pc, A)
        /\ Count(pc', U) = Count(pc, U) - 1
        /\ Count(pc, U) >= 1
    BY <2>1, <2>3 DEF Moved
  <2>5. /\ xBlock' = xBlock
        /\ xQueueList' = xQueueList
        /\ xSemItems' = xSemItems
        /\ xSemPlaces' = xSemPlaces
        /\ uiNumInUse' = uiNumInUse - 1
    BY <1>16, <1>0, <1>t DEF ReceiveFree, TypeOK, Bounded
  <2>6. TypeOK'
    BY <1>16, <1>0, <1>t, <2>1, <2>4, <2>5 DEF ReceiveFree, TypeOK, Labels, Statuses, Return, PoolBudget
  <2>7. ItemTokens'
    BY <1>0, <1>t, <2>4, <2>5 DEF ItemTokens
  <2>8. PlaceBudget'
    BY <1>0, <1>t, <2>4, <2>5 DEF PlaceBudget, Bounded
  <2>9. PoolBudget' /\ PoolBound'
    BY <1>0, <1>t, <2>4, <2>5 DEF PoolBudget, PoolBound, Bounded
  <2> QED BY <2>6, <2>7, <2>8, <2>9 DEF QueueInv
<1>17. ASSUME NEW t \in Threads, Unlock(t)
      PROVE  QueueInv'
  <2>1. pc[t] = "unlock" /\ \E l \in {"idle"} : pc' = [pc EXCEPT ![t] = l]
    BY <1>17 DEF Unlock, Goto, Return
  <2>2. TypeOK'
    BY <1>17, <1>0, <2>1 DEF Unlock, TypeOK, Labels, ApiCalls, Statuses
  <2>3. UNCHANGED <<xBlock, xQueueList, xSemItems, xSemPlaces, uiNumInUse>>
    BY <1>17 DEF Unlock
  <2> QED BY <1>n, <2>1, <2>2, <2>3 DEF Labels
<1>18. CASE UNCHANGED vars
  BY <1>0, <1>18 DEF vars, QueueInv, TypeOK, ItemTokens, PlaceBudget, PoolBudget, PoolBound
<1> QED
  BY <1>1, <1>2, <1>3, <1>4, <1>5, <1>6, <1>7, <1>8, <1>9, <1>10, <1>11, <1>12, <1>13, <1>14, <1>15, <1>16, <1>17, <1>18, <1>c1, <1>c2
  DEF Next, Begin, Step, Send, Receive
-----------------------------------------------------------------------------
(* The accounting of tokens, places and pool resources holds in every state  *)
(* of the queue: no wake-up, place or item is created by any interleaving.   *)
THEOREM QueueInvariant == Spec => []QueueInv
<1>1. Init => QueueInv
  BY InitQueueInv
<1>2. QueueInv /\ [Next]_vars => QueueInv'
  BY NextQueueInv
<1> QED BY <1>1, <1>2, PTL DEF Spec

(* Types, for every instance. *)
THEOREM TypeCorrect == Spec => []TypeOK
<1>1. QueueInv => TypeOK
  BY DEF QueueInv
<1> QED BY <1>1, QueueInvariant, PTL

(* Every stored item is announced exactly once. *)
THEOREM ItemTokensExact == Spec => []ItemTokens
<1>1. QueueInv => ItemTokens
  BY DEF QueueInv
<1> QED BY <1>1, QueueInvariant, PTL

(* The queue is never longer than unMaxItemCount. *)
THEOREM CapacityRespected == Spec => []CapacityOK
<1>1. QueueInv => CapacityOK
  <2> SUFFICES ASSUME QueueInv PROVE CapacityOK
    OBVIOUS
  <2>1. Count(pc, {"s_insert", "r_post", "r_free"}) \in Nat
    BY CountNat DEF QueueInv, TypeOK
  <2> QED BY <2>1, QueueAssumption
       DEF QueueInv, TypeOK, PoolBudget, PoolBound, Bounded, CapacityOK
<1> QED BY <1>1, QueueInvariant, PTL

(* A receiver that took an item token always finds an item in the list. *)
THEOREM NoUnderflow == Spec => []TokenMeansItem
<1>1. QueueInv => TokenMeansItem
  <2> SUFFICES ASSUME QueueInv, xBlock, NEW t \in Threads, pc[t] = "r_remove"
               PROVE  xQueueList # <<>>
    BY DEF TokenMeansItem
  <2>1. /\ Count(pc, {"r_remove"}) \in Nat /\ Count(pc, {"s_post"}) \in Nat
        /\ Count(pc, {"r_remove"}) >= 1
    BY CountNat DEF QueueInv, TypeOK
  <2>2. Len(xQueueList) >= 1
    BY <2>1 DEF QueueInv, TypeOK, ItemTokens
  <2> QED BY <2>2
<1> QED BY <1>1, QueueInvariant, PTL

(* The detailed queue implements the bounded FIFO: an insertion needs a free *)
(* resource of the pool, hence a free place; all other steps stutter or      *)
(* remove the oldest item.                                                  *)
THEOREM QueueImplementsFifo == Spec => ImplementsFifo
<1>1. Init => Fifo!Init
  BY DEF Init, Fifo!Init
<1>2. QueueInv /\ [Next]_vars => [Fifo!Next]_xQueueList
  <2> SUFFICES ASSUME QueueInv, [Next]_vars PROVE [Fifo!Next]_xQueueList
    OBVIOUS
  <2>1. ASSUME NEW t \in Threads, SendInsert(t)
        PROVE  Fifo!Next
    <3>1. /\ Count(pc, {"s_insert", "r_post", "r_free"}) \in Nat
          /\ Count(pc, {"s_insert", "r_post", "r_free"}) >= 1
      BY <2>1, CountNat DEF QueueInv, TypeOK, SendInsert
    <3>2. unMaxItemCount # 0 => Len(xQueueList) < unMaxItemCount
      BY <3>1, QueueAssumption DEF QueueInv, TypeOK, PoolBudget, PoolBound, Bounded
    <3>3. pxItem[t] \in Items
      BY DEF QueueInv, TypeOK
    <3>4. Fifo!Put(pxItem[t])
      BY <2>1, <3>2 DEF SendInsert, Fifo!Put
    <3> QED BY <3>3, <3>4 DEF Fifo!Next
  <2>2. ASSUME NEW t \in Threads, ReceiveRemove(t)
        PROVE  [Fifo!Next]_xQueueList
    BY <2>2 DEF ReceiveRemove, Fifo!Next, Fifo!Get
  <2>3. ASSUME NEW t \in Threads,
               \/ Begin(t) \/ SendLock(t) \/ SendTakePlace(t) \/ SendTimeout(t)
               \/ SendCheckLength(t) \/ SendAlloc(t) \/ SendPost(t)
               \/ ReceiveLock(t) \/ ReceiveTakeItem(t) \/ ReceiveTimeout(t)
               \/ ReceivePost(t) \/ ReceiveFree(t) \/ Unlock(t)
        PROVE  UNCHANGED xQueueList
    BY <2>3 DEF Begin, SendBegin, SendLock, SendTakePlace, SendTimeout,
         SendCheckLength, SendAlloc, SendPost, ReceiveBegin, ReceiveLock,
         ReceiveTakeItem, ReceiveTimeout, ReceivePost, ReceiveFree, Unlock
  <2>4. CASE UNCHANGED vars
    BY <2>4 DEF vars
  <2> QED BY <2>1, <2>2, <2>3, <2>4 DEF Next, Step, Send, Receive
<1> QED BY <1>1, <1>2, QueueInvariant, PTL DEF Spec, ImplementsFifo, Fifo!Spec
=============================================================================
