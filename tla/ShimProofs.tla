----------------------------- MODULE ShimProofs -----------------------------
(***************************************************************************)
(* Machine-checked facts about the shim, for every number of peers, ports,  *)
(* flows and rows of the ARP cache, and about the TAP device below it.      *)
(***************************************************************************)
EXTENDS Shim, Tap, TLAPS, SequenceTheorems, WellFoundedInduction

(* A search of a table ends at the first of the rows that fit, if there is   *)
(* any (the loops of prvShimFindFlowByGHA and eARPCacheLookupGPA).          *)
LEMMA FirstFound ==
    ASSUME NEW S \in SUBSET Nat, S # {}
    PROVE  Min(S) \in S
<1> DEFINE R == OpToRel(<, Nat)
<1>1. IsWellFoundedOn(R, Nat)
  BY NatLessThanWellFounded
<1>2. \A x, y \in Nat : y < x => <<y, x>> \in R
  BY DEF OpToRel
<1> HIDE DEF R
<1>3. PICK x \in S : \A y \in S : ~ (<<y, x>> \in R)
  BY <1>1, WFMin
<1>4. ASSUME NEW y \in S PROVE x <= y
  <2>1. x \in Nat /\ y \in Nat /\ ~ (<<y, x>> \in R)
    BY <1>3
  <2>2. ~ (y < x)
    BY <1>2, <2>1, Zenon
  <2>3. QED
    BY <2>1, <2>2
<1>5. \E i \in S : \A j \in S : i <= j
  BY <1>4
<1>6. QED
  BY <1>5 DEF Min

LEMMA FirstFlow == \A S \in SUBSET Slots : S # {} => Min(S) \in S
<1>1. Slots \subseteq Nat
  BY ShimAssumption DEF Slots
<1> QED BY <1>1, FirstFound

(* Frames that reach the shim, and what each kind carries. *)
LEMMA FrameFacts ==
    ASSUME NEW f \in Frames
    PROVE  /\ f.type \in {"rina", "request", "reply"}
           /\ f.type = "rina" => f.src \in Peers
           /\ f.type = "reply" => f.key \in Names \X Macs
           /\ f # NoFrame
BY ShimAssumption DEF Frames, RinaFrame, ArpRequest, ArpReply, NoFrame

(* The events that the two threads post. *)
LEMMA EventFacts ==
    /\ EnrolledEvent \in Event
    /\ \A m \in Peers, p \in Nat : RinaRxEvent(m, p) \in Event /\ SendMgmtEvent(m, p) \in Event
BY DEF EnrolledEvent, RinaRxEvent, SendMgmtEvent, Event

(* A port is reserved: the numbers of the ports handed out never go down,    *)
(* and the new port is above them or outside the table of flows.            *)
LEMMA PortFacts ==
    ASSUME lastAllocated \in 2 .. MAX_PORT_ID
    PROVE  /\ NextPort \in Nat /\ NextPort > lastAllocated
           /\ NextPort \in Slots => NextPort <= MAX_PORT_ID
           /\ ReservePort => /\ lastAllocated' \in 2 .. MAX_PORT_ID
                             /\ lastAllocated' >= lastAllocated
                             /\ NextPort \in Slots => lastAllocated' = NextPort
BY ShimAssumption DEF NextPort, PORT_ID_WRONG, ReservePort, Slots

LEMMA InitShimInv == Init => ShimInv
<1> SUFFICES ASSUME Init PROVE ShimInv
  OBVIOUS
<1> USE DEF Init
<1>1. TypeOK
  <2>1. FlowTypes
    BY ShimAssumption DEF FlowTypes
  <2>2. QueueTypes
    BY ShimAssumption DEF QueueTypes, Queued
  <2>3. CacheTypes
    BY DEF CacheTypes, FreeRow
  <2>4. PcTypes
    BY ShimAssumption DEF PcTypes, Threads, NetLabels, TaskLabels
  <2>5. RowTypes /\ NetTypes /\ RegTypes
    BY EventFacts DEF RowTypes, NetTypes, RegTypes
  <2>6. QED
    BY <2>1, <2>2, <2>3, <2>4, <2>5 DEF TypeOK
<1>2. PortsFresh /\ OneFlowPerPeer
  BY ShimAssumption DEF PortsFresh, OneFlowPerPeer, Macs
<1>3. NetInv /\ EventsInv /\ TaskInv
  BY ShimAssumption DEF NetInv, EventsInv, TaskInv, Queued, Threads, Adding
<1>4. QED
  BY <1>1, <1>2, <1>3 DEF ShimInv


(* Every step keeps the types; where the new value of a variable is somebody *)
(* else's (a queued event, the row looked at), the rest of ShimInv is needed. *)
LEMMA TypeStep == ASSUME ShimInv, [Next]_shimVars PROVE TypeOK'
<1> USE DEF sharedVars, flowVars, cacheVars, regVars, rowVars, netVars, Goto, Queued
<1>0. TypeOK /\ NetInv /\ TaskInv
  BY DEF ShimInv
<1>t. Net \in Threads /\ Task \in Threads /\ Net # Task
  BY ShimAssumption DEF Threads
<1>p. FlowTypes /\ QueueTypes /\ CacheTypes /\ PcTypes /\ RowTypes /\ NetTypes /\ RegTypes
  BY <1>0 DEF TypeOK
<1>1. CASE AppReservePort
  BY <1>0, <1>t, <1>1, PortFacts
  DEF AppReservePort, TypeOK, FlowTypes, QueueTypes, CacheTypes, PcTypes, RowTypes,
      NetTypes, RegTypes
<1>2. CASE InterfaceUp
  BY <1>0, <1>t, <1>2
  DEF InterfaceUp, NetLabels, TypeOK, FlowTypes, QueueTypes, CacheTypes, PcTypes,
      RowTypes, NetTypes, RegTypes
<1>3. ASSUME NEW f \in Frames, NetReceive(f) PROVE TypeOK'
  BY <1>0, <1>t, <1>3
  DEF NetReceive, NetLabels, TypeOK, FlowTypes, QueueTypes, CacheTypes, PcTypes,
      RowTypes, NetTypes, RegTypes
<1>4. CASE NetFindFlow
  <2>1. xFrame.src \in Peers
    BY <1>p, <1>0, <1>4, FrameFacts DEF NetFindFlow, NetTypes, NoFrame
  <2>2. \A h : FlowsTo(h) # {} => Min(FlowsTo(h)) \in Nat
    BY <1>p, <1>0, <1>4, FirstFlow, ShimAssumption DEF FlowsTo, Slots
  <2>3. NetTypes'
    BY <1>p, <1>t, <1>4, <2>1, <2>2 DEF NetTypes, NetFindFlow, Macs
  <2>4. PcTypes'
    BY <1>p, <1>t, <1>4, <2>1, <2>2 DEF PcTypes, NetFindFlow, NetLabels
  <2>5. FlowTypes' /\ QueueTypes' /\ CacheTypes' /\ RowTypes' /\ RegTypes'
    BY <1>p, <1>4 DEF NetFindFlow, FlowTypes, QueueTypes, CacheTypes, RowTypes, RegTypes
  <2>6. QED
    BY <2>3, <2>4, <2>5 DEF TypeOK
<1>5. CASE NetCreateFails
  BY <1>0, <1>t, <1>5
  DEF NetCreateFails, NetDone, NetLabels, NoFrame, NoKey, TypeOK, FlowTypes,
      QueueTypes, CacheTypes, PcTypes, RowTypes, NetTypes, RegTypes
<1>6. CASE NetCreateFlow
  BY <1>0, <1>t, <1>6, PortFacts
  DEF NetCreateFlow, NetLabels, NetInv, TypeOK, FlowTypes, QueueTypes, CacheTypes,
      PcTypes, RowTypes, NetTypes, RegTypes
<1>7. CASE NetBind
  BY <1>0, <1>t, <1>7
  DEF NetBind, NetLabels, NetInv, FlowOf, TypeOK, FlowTypes, QueueTypes, CacheTypes,
      PcTypes, RowTypes, NetTypes, RegTypes
<1>8. CASE NetBindFails
  BY <1>0, <1>t, <1>8
  DEF NetBindFails, NetDone, NetLabels, NoFrame, NoKey, TypeOK, FlowTypes,
      QueueTypes, CacheTypes, PcTypes, RowTypes, NetTypes, RegTypes
<1>9. CASE NetPost
  <2>1. RinaRxEvent(xFrame.src, unPort) \in Event
    BY <1>p, <1>0, <1>9, EventFacts DEF NetPost, NetInv, FlowOf, NetTypes
  <2>2. QueueTypes'
    BY <1>p, <1>t, <1>9, <2>1, ShimAssumption DEF QueueTypes, NetPost, QueueFull
  <2>3. PcTypes'
    BY <1>p, <1>t, <1>9, <2>1 DEF PcTypes, NetPost, NetDone, NetLabels
  <2>4. RowTypes'
    BY <1>p, <1>t, <1>9, <2>1 DEF RowTypes, NetPost, NetDone
  <2>5. NetTypes'
    BY <1>p, <1>t, <1>9, <2>1 DEF NetTypes, NetPost, NetDone
  <2>6. FlowTypes' /\ CacheTypes' /\ RegTypes'
    BY <1>p, <1>9 DEF NetPost, NetDone, FlowTypes, CacheTypes, RegTypes
  <2>7. QED
    BY <2>2, <2>3, <2>4, <2>5, <2>6 DEF TypeOK
<1>10. CASE NetPostTimeout
  BY <1>0, <1>t, <1>10
  DEF NetPostTimeout, NetDone, NetLabels, NoFrame, NoKey, TypeOK, FlowTypes,
      QueueTypes, CacheTypes, PcTypes, RowTypes, NetTypes, RegTypes
<1>11. CASE NetArpReply
  <2>1. xFrame.key \in Names \X Macs
    BY <1>p, <1>0, <1>11, FrameFacts DEF NetArpReply, NetTypes, NoFrame
  <2>2. PcTypes'
    BY <1>p, <1>t, <1>11, <2>1
    DEF PcTypes, NetArpReply, NetDone, BeginAdd, NetLabels, Adding
  <2>3. RowTypes'
    BY <1>p, <1>t, <1>11, <2>1 DEF RowTypes, NetArpReply, NetDone, BeginAdd
  <2>4. NetTypes'
    BY <1>p, <1>t, <1>11, <2>1 DEF NetTypes, NetArpReply, NetDone, BeginAdd
  <2>5. RegTypes'
    BY <1>p, <1>t, <1>11, <2>1 DEF RegTypes, NetArpReply, NetDone, BeginAdd
  <2>6. FlowTypes' /\ QueueTypes' /\ CacheTypes'
    BY <1>p, <1>11 DEF NetArpReply, NetDone, BeginAdd, FlowTypes, QueueTypes, CacheTypes
  <2>7. QED
    BY <2>2, <2>3, <2>4, <2>5, <2>6 DEF TypeOK
<1>12. CASE NetLookup
  <2>1. PcTypes'
    BY <1>p, <1>t, <1>12 DEF PcTypes, NetLookup, LookupRow, NetLabels
  <2>2. RowTypes'
    BY <1>p, <1>t, <1>12 DEF RowTypes, NetLookup
  <2>3. NetTypes'
    BY <1>p, <1>t, <1>12 DEF NetTypes, NetLookup, CacheTypes, Rows
  <2>4. FlowTypes' /\ QueueTypes' /\ CacheTypes' /\ RegTypes'
    BY <1>p, <1>12 DEF NetLookup, FlowTypes, QueueTypes, CacheTypes, RegTypes
  <2>5. QED
    BY <2>1, <2>2, <2>3, <2>4 DEF TypeOK
<1>13. CASE NetLookupMiss
  BY <1>0, <1>t, <1>13
  DEF NetLookupMiss, NetDone, NetLabels, NoFrame, NoKey, TypeOK, FlowTypes,
      QueueTypes, CacheTypes, PcTypes, RowTypes, NetTypes, RegTypes
<1>14. CASE NetRespond
  BY <1>0, <1>t, <1>14
  DEF NetRespond, NetDone, NetLabels, NoFrame, NoKey, TypeOK, FlowTypes, QueueTypes,
      CacheTypes, PcTypes, RowTypes, NetTypes, RegTypes
<1>15. ASSUME NEW t \in Threads, CacheTest(t) PROVE TypeOK'
  <2>1. PcTypes'
    BY <1>p, <1>t, <1>15 DEF PcTypes, CacheTest, Adding
  <2>2. RowTypes'
    BY <1>p, <1>t, <1>15 DEF RowTypes, CacheTest, Rows
  <2>3. FlowTypes' /\ QueueTypes' /\ CacheTypes' /\ NetTypes' /\ RegTypes'
    BY <1>p, <1>15 DEF CacheTest, FlowTypes, QueueTypes, CacheTypes, NetTypes, RegTypes
  <2>4. QED
    BY <2>1, <2>2, <2>3 DEF TypeOK
<1>16. ASSUME NEW t \in Threads, CacheMark(t) PROVE TypeOK'
  <2>1. PcTypes'
    BY <1>p, <1>t, <1>16 DEF PcTypes, CacheMark, Adding
  <2>2. CacheTypes'
    BY <1>p, <1>t, <1>16 DEF CacheTypes, CacheMark
  <2>3. FlowTypes' /\ QueueTypes' /\ RowTypes' /\ NetTypes' /\ RegTypes'
    BY <1>p, <1>16 DEF CacheMark, FlowTypes, QueueTypes, RowTypes, NetTypes, RegTypes
  <2>4. QED
    BY <2>1, <2>2, <2>3 DEF TypeOK
<1>17. ASSUME NEW t \in Threads, CacheSetHa(t) PROVE TypeOK'
  <2>1. xKey[t][2] \in Macs \cup {None}
    BY <1>p, <1>0, <1>17 DEF RowTypes, NoKey
  <2>2. CacheTypes'
    BY <1>p, <1>t, <1>17, <2>1 DEF CacheTypes, CacheSetHa
  <2>3. PcTypes'
    BY <1>p, <1>t, <1>17, <2>1 DEF PcTypes, CacheSetHa, Adding
  <2>4. FlowTypes' /\ QueueTypes' /\ RowTypes' /\ NetTypes' /\ RegTypes'
    BY <1>p, <1>17 DEF CacheSetHa, FlowTypes, QueueTypes, RowTypes, NetTypes, RegTypes
  <2>5. QED
    BY <2>2, <2>3, <2>4 DEF TypeOK
<1>18. ASSUME NEW t \in Threads, CacheSetPa(t) PROVE TypeOK'
  <2>1. xKey[t][1] \in Names \cup {None}
    BY <1>p, <1>0, <1>18 DEF RowTypes, NoKey
  <2>2. t = Task => xKey[t][1] \in OwnNames
    BY <1>p, <1>0, <1>18 DEF CacheSetPa, TaskInv, Adding
  <2>3. CacheTypes'
    BY <1>p, <1>t, <1>18, <2>1, <2>2 DEF CacheTypes, CacheSetPa
  <2>4. PcTypes'
    BY <1>p, <1>t, <1>18, <2>1, <2>2
    DEF PcTypes, CacheSetPa, AddReturns, NetDone, Adding, NetLabels, TaskLabels,
        Threads
  <2>5. RowTypes'
    BY <1>p, <1>t, <1>18, <2>1, <2>2
    DEF RowTypes, CacheSetPa, AddReturns, NetDone, NoKey
  <2>6. NetTypes'
    BY <1>p, <1>t, <1>18, <2>1, <2>2 DEF NetTypes, CacheSetPa, AddReturns, NetDone
  <2>7. FlowTypes' /\ QueueTypes' /\ RegTypes'
    BY <1>p, <1>18 DEF CacheSetPa, AddReturns, NetDone, FlowTypes, QueueTypes, RegTypes
  <2>8. QED
    BY <2>3, <2>4, <2>5, <2>6, <2>7 DEF TypeOK
<1>19. ASSUME NEW t \in Threads, CacheFull(t) PROVE TypeOK'
  <2>1. PcTypes'
    BY <1>p, <1>t, <1>19
    DEF PcTypes, CacheFull, AddReturns, NetDone, Adding, NetLabels, TaskLabels,
        Threads
  <2>2. RowTypes'
    BY <1>p, <1>t, <1>19 DEF RowTypes, CacheFull, AddReturns, NetDone, NoKey
  <2>3. NetTypes'
    BY <1>p, <1>t, <1>19 DEF NetTypes, CacheFull, AddReturns, NetDone
  <2>4. FlowTypes' /\ QueueTypes' /\ CacheTypes' /\ RegTypes'
    BY <1>p, <1>19
    DEF CacheFull, AddReturns, NetDone, FlowTypes, QueueTypes, CacheTypes,
        RegTypes
  <2>5. QED
    BY <2>1, <2>2, <2>3, <2>4 DEF TypeOK
<1>20. CASE TaskConnect
  BY <1>0, <1>t, <1>20
  DEF TaskConnect, TaskLabels, NetLabels, TypeOK, FlowTypes, QueueTypes, CacheTypes,
      PcTypes, RowTypes, NetTypes, RegTypes
<1>21. CASE TaskEnable
  <2>1. QueueTypes'
    BY <1>p, <1>t, <1>21, EventFacts, ShimAssumption
    DEF QueueTypes, TaskEnable, TaskPost, QueueFull
  <2>2. PcTypes'
    BY <1>p, <1>t, <1>21 DEF PcTypes, TaskEnable, TaskPost, TaskDone, TaskLabels
  <2>3. RowTypes'
    BY <1>p, <1>t, <1>21 DEF RowTypes, TaskEnable, TaskPost, TaskDone
  <2>4. RegTypes'
    BY <1>p, <1>t, <1>21, EventFacts DEF RegTypes, TaskEnable, TaskPost, TaskDone
  <2>5. FlowTypes' /\ CacheTypes' /\ NetTypes'
    BY <1>p, <1>21 DEF TaskEnable, TaskPost, TaskDone, FlowTypes, CacheTypes, NetTypes
  <2>6. QED
    BY <2>1, <2>2, <2>3, <2>4, <2>5 DEF TypeOK
<1>22. CASE TaskReceive
  <2>1. Head(Queued) \in Event /\ Tail(Queued) \in Seq(Event) /\ Len(Tail(Queued)) <= unMaxItemCount
    BY <1>p, <1>0, <1>22, ShimAssumption DEF TaskReceive, QueueTypes
  <2>2. QueueTypes'
    BY <1>p, <1>t, <1>22, <2>1 DEF QueueTypes, TaskReceive
  <2>3. PcTypes'
    BY <1>p, <1>t, <1>22, <2>1 DEF PcTypes, TaskReceive, EventLabels, TaskLabels
  <2>4. RegTypes'
    BY <1>p, <1>t, <1>22, <2>1 DEF RegTypes, TaskReceive
  <2>5. FlowTypes' /\ CacheTypes' /\ RowTypes' /\ NetTypes'
    BY <1>p, <1>22 DEF TaskReceive, FlowTypes, CacheTypes, RowTypes, NetTypes
  <2>6. QED
    BY <2>2, <2>3, <2>4, <2>5 DEF TypeOK
<1>23. CASE TaskAnswer
  <2>1. SendMgmtEvent(xEvent.from, xEvent.port) \in Event
    BY <1>p, <1>0, <1>23, EventFacts DEF TaskAnswer, TaskInv, FlowOf, RegTypes, Event
  <2>2. QueueTypes'
    BY <1>p, <1>t, <1>23, <2>1, ShimAssumption
    DEF QueueTypes, TaskAnswer, TaskPost, QueueFull
  <2>3. PcTypes'
    BY <1>p, <1>t, <1>23, <2>1 DEF PcTypes, TaskAnswer, TaskPost, TaskDone, TaskLabels
  <2>4. RowTypes'
    BY <1>p, <1>t, <1>23, <2>1 DEF RowTypes, TaskAnswer, TaskPost, TaskDone
  <2>5. RegTypes'
    BY <1>p, <1>t, <1>23, <2>1, EventFacts DEF RegTypes, TaskAnswer, TaskPost, TaskDone
  <2>6. FlowTypes' /\ CacheTypes' /\ NetTypes'
    BY <1>p, <1>23 DEF TaskAnswer, TaskPost, TaskDone, FlowTypes, CacheTypes, NetTypes
  <2>7. QED
    BY <2>2, <2>3, <2>4, <2>5, <2>6 DEF TypeOK
<1>24. CASE TaskWrite
  BY <1>0, <1>t, <1>24, EventFacts
  DEF TaskWrite, TaskDone, TaskLabels, NoKey, TypeOK, FlowTypes, QueueTypes,
      CacheTypes, PcTypes, RowTypes, NetTypes, RegTypes
<1>25. CASE TaskRegister
  <2>1. <<App, Own>> \in Names \X Macs
    BY <1>p, <1>0, <1>25 DEF Names, OwnNames, Macs
  <2>2. PcTypes'
    BY <1>p, <1>t, <1>25, <2>1
    DEF PcTypes, TaskRegister, TaskAdds, BeginAdd, TaskLabels, Adding
  <2>3. RowTypes'
    BY <1>p, <1>t, <1>25, <2>1 DEF RowTypes, TaskRegister, TaskAdds, BeginAdd
  <2>4. RegTypes'
    BY <1>p, <1>t, <1>25, <2>1 DEF RegTypes, TaskRegister, TaskAdds, BeginAdd
  <2>5. FlowTypes' /\ QueueTypes' /\ CacheTypes' /\ NetTypes'
    BY <1>p, <1>25
    DEF TaskRegister, TaskAdds, BeginAdd, FlowTypes, QueueTypes, CacheTypes,
        NetTypes
  <2>6. QED
    BY <2>2, <2>3, <2>4, <2>5 DEF TypeOK
<1>26. CASE RegisterFails
  BY <1>0, <1>t, <1>26, EventFacts
  DEF RegisterFails, RegisterReturns, TaskDone, TaskLabels, NoKey, TypeOK,
      FlowTypes, QueueTypes, CacheTypes, PcTypes, RowTypes, NetTypes, RegTypes
<1>27. CASE TaskAddDaf
  <2>1. <<Daf, Own>> \in Names \X Macs
    BY <1>p, <1>0, <1>27 DEF Names, OwnNames, Macs
  <2>2. PcTypes'
    BY <1>p, <1>t, <1>27, <2>1
    DEF PcTypes, TaskAddDaf, TaskAdds, BeginAdd, TaskLabels, Adding
  <2>3. RowTypes'
    BY <1>p, <1>t, <1>27, <2>1 DEF RowTypes, TaskAddDaf, TaskAdds, BeginAdd
  <2>4. RegTypes'
    BY <1>p, <1>t, <1>27, <2>1 DEF RegTypes, TaskAddDaf, TaskAdds, BeginAdd
  <2>5. FlowTypes' /\ QueueTypes' /\ CacheTypes' /\ NetTypes'
    BY <1>p, <1>27
    DEF TaskAddDaf, TaskAdds, BeginAdd, FlowTypes, QueueTypes, CacheTypes,
        NetTypes
  <2>6. QED
    BY <2>2, <2>3, <2>4, <2>5 DEF TypeOK
<1>28. CASE TaskRegistered
  BY <1>0, <1>t, <1>28, EventFacts
  DEF TaskRegistered, RegisterReturns, TaskDone, TaskLabels, NoKey, TypeOK,
      FlowTypes, QueueTypes, CacheTypes, PcTypes, RowTypes, NetTypes, RegTypes
<1>29. CASE TaskUnregister
  BY <1>0, <1>t, <1>29
  DEF TaskUnregister, TaskLabels, TypeOK, FlowTypes, QueueTypes, CacheTypes,
      PcTypes, RowTypes, NetTypes, RegTypes
<1>30. CASE TaskSkipRow
  BY <1>0, <1>t, <1>30
  DEF TaskSkipRow, TypeOK, FlowTypes, QueueTypes, CacheTypes, PcTypes, RowTypes,
      NetTypes, RegTypes
<1>31. CASE TaskFreeRow
  BY <1>0, <1>t, <1>31
  DEF TaskFreeRow, TaskLabels, TypeOK, FlowTypes, QueueTypes, CacheTypes, PcTypes,
      RowTypes, NetTypes, RegTypes
<1>32. CASE TaskClearRow
  <2>1. CacheTypes'
    BY <1>p, <1>t, <1>32 DEF CacheTypes, TaskClearRow, FreeRow
  <2>2. PcTypes'
    BY <1>p, <1>t, <1>32 DEF PcTypes, TaskClearRow, TaskLabels
  <2>3. RowTypes'
    BY <1>p, <1>t, <1>32 DEF RowTypes, TaskClearRow
  <2>4. FlowTypes' /\ QueueTypes' /\ NetTypes' /\ RegTypes'
    BY <1>p, <1>32 DEF TaskClearRow, FlowTypes, QueueTypes, NetTypes, RegTypes
  <2>5. QED
    BY <2>1, <2>2, <2>3, <2>4 DEF TypeOK
<1>33. CASE TaskUnregistered
  BY <1>0, <1>t, <1>33, EventFacts
  DEF TaskUnregistered, RegisterReturns, TaskDone, TaskLabels, NoKey, TypeOK,
      FlowTypes, QueueTypes, CacheTypes, PcTypes, RowTypes, NetTypes, RegTypes
<1>34. CASE UNCHANGED shimVars
  BY <1>0, <1>34
  DEF shimVars, TypeOK, FlowTypes, QueueTypes, CacheTypes, PcTypes, RowTypes,
      NetTypes, RegTypes
<1>35. QED
  BY <1>t, <1>1, <1>2, <1>3, <1>4, <1>5, <1>6, <1>7, <1>8, <1>9, <1>10, <1>11, <1>12, <1>13, <1>14, <1>15, <1>16, <1>17, <1>18, <1>19, <1>20, <1>21, <1>22, <1>23, <1>24, <1>25, <1>26, <1>27, <1>28, <1>29, <1>30, <1>31, <1>32, <1>33, <1>34
  DEF Next, NetStep, TaskStep, Registering, CacheStep

(* Only two steps touch the table of flows or the ports, and four the queue. *)
LEMMA Writers ==
    ASSUME [Next]_shimVars
    PROVE  /\ NetCreateFlow \/ AppReservePort \/ UNCHANGED <<xFlows, lastAllocated>>
           /\ \/ NetPost \/ TaskEnable \/ TaskAnswer \/ TaskReceive
              \/ UNCHANGED xNetworkEventQueue
<1> USE DEF sharedVars, flowVars
<1>1. CASE UNCHANGED shimVars
  BY <1>1 DEF shimVars
<1>2. CASE AppReservePort \/ InterfaceUp \/ \E f \in Frames : NetReceive(f)
  BY <1>2 DEF AppReservePort, InterfaceUp, NetReceive
<1>3. ASSUME NEW t \in Threads, CacheStep(t)
      PROVE  UNCHANGED <<xFlows, lastAllocated, xNetworkEventQueue>>
  BY <1>3 DEF CacheStep, CacheTest, CacheMark, CacheSetHa, CacheSetPa, CacheFull
<1>4. CASE NetStep
  BY <1>3, <1>4
  DEF NetStep, Threads, NetFindFlow, NetCreateFails, NetCreateFlow, NetBind,
      NetBindFails, NetPost, NetPostTimeout, NetArpReply, NetLookup,
      NetLookupMiss, NetRespond
<1>5. CASE TaskStep
  BY <1>3, <1>5
  DEF TaskStep, Threads, Registering, TaskConnect, TaskEnable, TaskReceive, TaskAnswer,
      TaskPost, TaskWrite, TaskRegister, RegisterFails, RegisterReturns, TaskAddDaf,
      TaskRegistered, TaskUnregister, TaskSkipRow, TaskFreeRow, TaskClearRow,
      TaskUnregistered
<1>6. QED
  BY <1>1, <1>2, <1>4, <1>5 DEF Next

(* Flows are only added, at a port that was free, so that what a port stands *)
(* for never changes while a frame, an event or an answer carries it.       *)
LEMMA FlowsKept ==
    ASSUME ShimInv, [Next]_shimVars
    PROVE  /\ PortsFresh'
           /\ \A i \in Slots : xFlows[i] # None => xFlows'[i] = xFlows[i]
           /\ \A port, peer : FlowOf(port, peer) => FlowOf(port, peer)'
<1>1. TypeOK /\ FlowTypes /\ PortsFresh /\ None \notin Peers
  BY ShimAssumption DEF ShimInv, TypeOK, Macs
<1>2. /\ PortsFresh'
      /\ \A i \in Slots : xFlows[i] # None => xFlows'[i] = xFlows[i]
  <2>1. CASE NetCreateFlow
    <3>1. /\ NextPort \in Nat /\ NextPort > lastAllocated
          /\ lastAllocated' >= lastAllocated /\ lastAllocated' \in Nat
          /\ NextPort \in Slots => lastAllocated' = NextPort
      BY <1>1, <2>1, PortFacts DEF FlowTypes, NetCreateFlow
    <3>2. CASE NextPort \in Slots
      <4>1. xFlows' = [xFlows EXCEPT ![NextPort] = xHa]
        BY <2>1, <3>2 DEF NetCreateFlow
      <4>2. QED
        BY <1>1, <3>1, <3>2, <4>1, ShimAssumption DEF FlowTypes, PortsFresh, Slots
    <3>3. CASE NextPort \notin Slots
      <4>1. xFlows' = xFlows
        BY <2>1, <3>3 DEF NetCreateFlow
      <4>2. QED
        BY <1>1, <3>1, <4>1, ShimAssumption DEF FlowTypes, PortsFresh, Slots
    <3>4. QED
      BY <3>2, <3>3
  <2>2. CASE AppReservePort
    BY <1>1, <2>2, PortFacts, ShimAssumption DEF FlowTypes, AppReservePort, PortsFresh, Slots
  <2>3. CASE UNCHANGED <<xFlows, lastAllocated>>
    BY <1>1, <2>3 DEF PortsFresh
  <2>4. QED
    BY <2>1, <2>2, <2>3, Writers
<1>3. ASSUME NEW port, NEW peer, FlowOf(port, peer) PROVE FlowOf(port, peer)'
  BY <1>1, <1>2, <1>3, ShimAssumption DEF FlowOf
<1>4. QED
  BY <1>2, <1>3

(* The task does not disturb the frame that the reader handles, nor the flows. *)
LEMMA TaskKeepsNet ==
    ASSUME PcTypes, TaskStep
    PROVE  /\ UNCHANGED <<xFlows, xFrame, unPort>>
           /\ pc'[Net] \in {pc[Net], "poll", "down"}
           /\ UNCHANGED xHa \/ pc'[Net] = "respond"
<1> USE DEF netVars, Goto, sharedVars, flowVars
<1>1. Net \in Threads /\ Task \in Threads /\ Net # Task
  BY ShimAssumption DEF Threads
<1>2. CASE CacheStep(Task)
  BY <1>1, <1>2
  DEF CacheStep, CacheTest, CacheMark, CacheSetHa, CacheSetPa, CacheFull, AddReturns, PcTypes
<1>3. CASE TaskConnect \/ TaskEnable \/ TaskReceive \/ TaskAnswer \/ TaskWrite
  BY <1>1, <1>3
  DEF TaskConnect, TaskEnable, TaskReceive, TaskAnswer, TaskWrite, TaskPost, TaskDone, PcTypes
<1>4. CASE TaskRegister \/ RegisterFails \/ TaskAddDaf \/ TaskRegistered
  BY <1>1, <1>4
  DEF TaskRegister, RegisterFails, TaskAddDaf, TaskRegistered, RegisterReturns, TaskAdds,
      BeginAdd, TaskDone, PcTypes
<1>5. CASE TaskUnregister \/ TaskSkipRow \/ TaskFreeRow \/ TaskClearRow \/ TaskUnregistered
  BY <1>1, <1>5
  DEF TaskUnregister, TaskSkipRow, TaskFreeRow, TaskClearRow, TaskUnregistered,
      RegisterReturns, TaskDone, PcTypes
<1>6. QED
  BY <1>2, <1>3, <1>4, <1>5 DEF TaskStep, Registering

(* The reader does not disturb the event that the task handles. *)
LEMMA NetKeepsTask ==
    ASSUME PcTypes, RowTypes,
           NetStep \/ AppReservePort \/ InterfaceUp \/ \E f \in Frames : NetReceive(f)
    PROVE  pc'[Task] = pc[Task] /\ xKey'[Task] = xKey[Task] /\ xEvent' = xEvent
<1> USE DEF rowVars, Goto, PcTypes, RowTypes
<1>1. Net \in Threads /\ Task \in Threads /\ Net # Task
  BY ShimAssumption DEF Threads
<1>2. CASE CacheStep(Net)
  BY <1>1, <1>2
  DEF CacheStep, CacheTest, CacheMark, CacheSetHa, CacheSetPa, CacheFull, AddReturns, NetDone
<1>3. CASE AppReservePort \/ InterfaceUp \/ \E f \in Frames : NetReceive(f)
  BY <1>1, <1>3 DEF AppReservePort, InterfaceUp, NetReceive
<1>4. CASE NetFindFlow \/ NetCreateFails \/ NetCreateFlow \/ NetBind
  BY <1>1, <1>4
  DEF NetFindFlow, NetCreateFails, NetCreateFlow, NetBind, NetDone
<1>5. CASE NetBindFails \/ NetPost \/ NetPostTimeout \/ NetArpReply
  BY <1>1, <1>5
  DEF NetBindFails, NetPost, NetPostTimeout, NetArpReply, BeginAdd, NetDone
<1>6. CASE NetLookup \/ NetLookupMiss \/ NetRespond
  BY <1>1, <1>6 DEF NetLookup, NetLookupMiss, NetRespond, NetDone
<1>7. QED
  BY <1>2, <1>3, <1>4, <1>5, <1>6 DEF NetStep

(* The flow the reader is about to make is the first of its peer, and the one *)
(* it posts for is the sender's.                                            *)
LEMMA NetInvStep == ASSUME ShimInv, [Next]_shimVars PROVE NetInv'
<1>1. TypeOK /\ FlowTypes /\ PcTypes /\ NetTypes /\ NetInv
  BY DEF ShimInv, TypeOK
<1>2. Net \in Threads /\ Task \in Threads /\ Net # Task
  BY ShimAssumption DEF Threads
<1>3. \A port, peer : FlowOf(port, peer) => FlowOf(port, peer)'
  BY FlowsKept
<1>4. CASE TaskStep
  <2>1. /\ UNCHANGED <<xFlows, xFrame, unPort>>
        /\ pc'[Net] \in {pc[Net], "poll", "down"}
        /\ UNCHANGED xHa \/ pc'[Net] = "respond"
    BY <1>1, <1>4, TaskKeepsNet
  <2>2. QED
    BY <1>1, <2>1 DEF NetInv, FlowsTo, FlowOf
<1>5. CASE NetFindFlow
  <2>1. xFrame' = xFrame /\ xFrame.src \in Peers /\ xHa' \in {xFrame.src, Unknown}
    BY <1>1, <1>5, FrameFacts DEF NetFindFlow, NetTypes, NoFrame
  <2>2. xFlows' = xFlows
    BY <1>5 DEF NetFindFlow, sharedVars, flowVars
  <2>3. CASE xHa' # Unknown /\ FlowsTo(xHa') # {}
    <3>1. Min(FlowsTo(xHa')) \in FlowsTo(xHa')
      BY <2>3, FirstFlow DEF FlowsTo
    <3>2. pc'[Net] = "post" /\ unPort' \in Slots /\ xFlows[unPort'] = xFrame.src
      BY <1>1, <1>2, <1>5, <2>1, <2>3, <3>1 DEF NetFindFlow, Goto, PcTypes, FlowsTo
    <3>3. QED
      BY <2>1, <2>2, <3>2 DEF NetInv, FlowOf
  <2>4. CASE ~(xHa' # Unknown /\ FlowsTo(xHa') # {})
    <3>1. pc'[Net] = "create"
      BY <1>1, <1>2, <1>5, <2>4 DEF NetFindFlow, Goto, PcTypes
    <3>2. QED
      BY <2>1, <2>2, <2>4, <3>1 DEF NetInv, FlowsTo
  <2>5. QED
    BY <2>3, <2>4
<1>6. CASE NetCreateFlow
  <2>1. xFrame' = xFrame /\ unPort' = NextPort /\ xFrame.src \in Peers
        /\ xHa \in {xFrame.src, Unknown}
    BY <1>1, <1>6 DEF NetCreateFlow, NetInv
  <2>2. CASE NextPort \in Slots
    <3>1. pc'[Net] = "bind" /\ xFlows' = [xFlows EXCEPT ![NextPort] = xHa]
      BY <1>1, <1>2, <1>6, <2>2 DEF NetCreateFlow, Goto, PcTypes
    <3>2. FlowOf(unPort, xFrame.src)'
      BY <1>1, <2>1, <2>2, <3>1 DEF FlowOf, FlowTypes
    <3>3. QED
      BY <3>1, <3>2 DEF NetInv
  <2>3. CASE NextPort \notin Slots
    <3>1. pc'[Net] = "undefined"
      BY <1>1, <1>2, <1>6, <2>3 DEF NetCreateFlow, Goto, PcTypes
    <3>2. QED
      BY <3>1 DEF NetInv
  <2>4. QED
    BY <2>2, <2>3
<1>7. CASE NetBind
  <2>1. /\ pc[Net] = "bind" /\ pc'[Net] = "post"
        /\ xFrame' = xFrame /\ unPort' = unPort /\ xFlows' = xFlows
    BY <1>1, <1>2, <1>7 DEF NetBind, Goto, PcTypes, netVars
  <2>2. QED
    BY <1>1, <2>1 DEF NetInv, FlowOf
<1>8. CASE NetCreateFails \/ NetBindFails \/ NetPost \/ NetPostTimeout
  <2>1. pc'[Net] = "poll"
    BY <1>1, <1>2, <1>8
    DEF NetCreateFails, NetBindFails, NetPost, NetPostTimeout, NetDone, Goto,
        PcTypes
  <2>2. QED
    BY <2>1 DEF NetInv
<1>9. CASE NetArpReply \/ NetLookup \/ NetLookupMiss \/ NetRespond
  <2>1. pc'[Net] \notin {"create", "bind", "post"}
    BY <1>1, <1>2, <1>9
    DEF NetArpReply, NetLookup, LookupRow, NetLookupMiss, NetRespond,
        BeginAdd, NetDone, Goto, PcTypes
  <2>2. QED
    BY <2>1 DEF NetInv
<1>10. CASE CacheStep(Net)
  <2>1. pc'[Net] \notin {"create", "bind", "post"}
    BY <1>1, <1>2, <1>10
    DEF CacheStep, CacheTest, CacheMark, CacheSetHa, CacheSetPa, CacheFull, AddReturns,
        NetDone, Goto, PcTypes
  <2>2. QED
    BY <2>1 DEF NetInv
<1>11. CASE InterfaceUp \/ \E f \in Frames : NetReceive(f)
  <2>1. pc'[Net] \in {"poll", "frame", "lookup"}
    BY <1>1, <1>2, <1>11 DEF InterfaceUp, NetReceive, Goto, PcTypes
  <2>2. QED
    BY <2>1 DEF NetInv
<1>12. CASE AppReservePort \/ UNCHANGED shimVars
  <2>1. UNCHANGED <<pc, xFrame, xHa, unPort, xFlows>>
    BY <1>12 DEF AppReservePort, shimVars, sharedVars, flowVars, netVars
  <2>2. QED
    BY <1>1, <2>1 DEF NetInv, FlowsTo, FlowOf
<1>13. QED
  BY <1>4, <1>5, <1>6, <1>7, <1>8, <1>9, <1>10, <1>11, <1>12 DEF Next, NetStep

(* A queue that grows by an event of its sender's flow stays in order. *)
LEMMA EventsInvStep == ASSUME ShimInv, [Next]_shimVars PROVE EventsInv'
<1>1. TypeOK /\ QueueTypes /\ NetTypes /\ RegTypes /\ NetInv /\ TaskInv /\ EventsInv
  BY DEF ShimInv, TypeOK
<1>2. \A port, peer : FlowOf(port, peer) => FlowOf(port, peer)'
  BY FlowsKept
<1>3. \A ev : EventFlow(ev) => (ev.type \in {"rx", "mgmt"} => FlowOf(ev.port, ev.from)')
  BY <1>2 DEF EventFlow
<1>4. ASSUME NEW ev \in Event, xNetworkEventQueue' = Append(Queued, ev), EventFlow(ev)
      PROVE  EventsInv'
  <2>1. \A i \in DOMAIN Queued' : \/ Queued'[i] = ev
                                  \/ i \in DOMAIN Queued /\ Queued'[i] = Queued[i]
    BY <1>1, <1>4 DEF QueueTypes, Queued
  <2>2. QED
    BY <1>1, <1>3, <1>4, <2>1 DEF EventsInv, EventFlow
<1>5. CASE NetPost
  <2>1. FlowOf(unPort, xFrame.src) /\ unPort \in Nat /\ xFrame.src \in Peers
    BY <1>1, <1>5 DEF NetPost, NetInv, NetTypes, FlowOf
  <2>2. EventFlow(RinaRxEvent(xFrame.src, unPort))
    BY <2>1 DEF EventFlow, RinaRxEvent
  <2>3. QED
    BY <1>4, <1>5, <2>1, <2>2, EventFacts DEF NetPost
<1>6. CASE TaskEnable
  BY <1>4, <1>6, EventFacts DEF TaskEnable, TaskPost, EventFlow, EnrolledEvent
<1>7. CASE TaskAnswer
  <2>1. FlowOf(xEvent.port, xEvent.from) /\ xEvent.port \in Nat /\ xEvent.from \in Peers
    BY <1>1, <1>7 DEF TaskAnswer, TaskInv, RegTypes, Event, FlowOf
  <2>2. EventFlow(SendMgmtEvent(xEvent.from, xEvent.port))
    BY <2>1 DEF EventFlow, SendMgmtEvent
  <2>3. QED
    BY <1>4, <1>7, <2>1, <2>2, EventFacts DEF TaskAnswer, TaskPost
<1>8. CASE TaskReceive
  <2>1. \A i \in DOMAIN Queued' : i + 1 \in DOMAIN Queued /\ Queued'[i] = Queued[i + 1]
    BY <1>1, <1>8 DEF TaskReceive, QueueTypes, Queued
  <2>2. QED
    BY <1>1, <1>3, <2>1 DEF EventsInv, EventFlow
<1>9. CASE UNCHANGED xNetworkEventQueue
  BY <1>1, <1>3, <1>9 DEF EventsInv, EventFlow, Queued
<1>10. QED
  BY <1>5, <1>6, <1>7, <1>8, <1>9, Writers

(* What the task takes from the queue it answers and writes for the port of  *)
(* its sender.                                                             *)
LEMMA TaskInvStep == ASSUME ShimInv, [Next]_shimVars PROVE TaskInv'
<1>1. /\ TypeOK /\ PcTypes /\ RowTypes /\ QueueTypes
      /\ TaskInv /\ EventsInv
  BY DEF ShimInv, TypeOK
<1>2. Net \in Threads /\ Task \in Threads /\ Net # Task
  BY ShimAssumption DEF Threads
<1>3. \A port, peer : FlowOf(port, peer) => FlowOf(port, peer)'
  BY FlowsKept
<1>4. ASSUME pc'[Task] = pc[Task] /\ xKey'[Task] = xKey[Task] /\ xEvent' = xEvent
      PROVE  TaskInv'
  <2>1. pc'[Task] \in {"answer", "write"} => FlowOf(xEvent.port, xEvent.from)'
    <3>1. ASSUME pc'[Task] \in {"answer", "write"}
          PROVE  xEvent.port \in Slots /\ xEvent.from \in Peers
                 /\ xFlows'[xEvent.port] \in {xEvent.from, Unknown}
      <4>1. FlowOf(xEvent.port, xEvent.from)
        BY <1>1, <1>4, <3>1 DEF TaskInv
      <4>2. xFlows[xEvent.port] # None
        BY <4>1, ShimAssumption DEF FlowOf, Macs
      <4>3. QED
        BY <4>1, <4>2, FlowsKept DEF FlowOf
    <3>2. QED
      BY <1>4, <3>1 DEF FlowOf
  <2>2. QED
    BY <1>1, <1>4, <2>1 DEF TaskInv
<1>5. CASE TaskReceive
  <2>1. Queued # <<>> /\ 1 \in DOMAIN Queued /\ Head(Queued) = Queued[1]
    BY <1>1, <1>5 DEF TaskReceive, QueueTypes
  <2>2. EventFlow(Head(Queued))
    BY <1>1, <2>1 DEF EventsInv
  <2>3. xFlows' = xFlows
    BY <1>5 DEF TaskReceive, flowVars
  <2>4. PICK label \in EventLabels(Head(Queued)) :
          /\ Goto(Task, label)
          /\ xEvent' = IF label = "loop" THEN xEvent ELSE Head(Queued)
    BY <1>5 DEF TaskReceive
  <2>5. /\ label \in {"register", "write", "loop", "answer"}
        /\ label \in {"answer", "write"} => Head(Queued).type \in {"rx", "mgmt"}
    BY <2>4 DEF EventLabels
  <2>6. pc'[Task] = label
    BY <1>1, <1>2, <2>4 DEF Goto, PcTypes
  <2>7. label \in {"answer", "write"} => FlowOf(xEvent.port, xEvent.from)'
    BY <2>2, <2>3, <2>4, <2>5 DEF EventFlow, FlowOf
  <2>8. QED
    BY <2>5, <2>6, <2>7 DEF TaskInv, Adding
<1>6. CASE CacheStep(Task)
  <2>1. /\ pc[Task] \in Adding /\ pc'[Task] \in Adding \cup {"added", "notAdded"}
        /\ xKey' = xKey
    BY <1>1, <1>2, <1>6
    DEF CacheStep, CacheTest, CacheMark, CacheSetHa, CacheSetPa, CacheFull, AddReturns,
        Adding, Goto, PcTypes, rowVars
  <2>2. QED
    BY <1>1, <2>1 DEF TaskInv, Adding
<1>7. CASE TaskRegister \/ TaskAddDaf
  <2>1. pc'[Task] \in {"add", "added"} /\ xKey'[Task][1] \in OwnNames
    BY <1>1, <1>2, <1>7
    DEF TaskRegister, TaskAddDaf, TaskAdds, BeginAdd, Goto, PcTypes, RowTypes, OwnNames
  <2>2. QED
    BY <2>1 DEF TaskInv
<1>8. CASE \/ TaskConnect \/ TaskEnable \/ TaskAnswer \/ TaskWrite \/ RegisterFails
           \/ TaskRegistered \/ TaskUnregister \/ TaskFreeRow \/ TaskClearRow
           \/ TaskUnregistered
  <2>1. pc'[Task] \in {"enable", "loop", "remove", "clear"}
    BY <1>1, <1>2, <1>8
    DEF TaskConnect, TaskEnable, TaskAnswer, TaskWrite, TaskPost, RegisterFails,
        TaskRegistered, TaskUnregister, TaskFreeRow, TaskClearRow, TaskUnregistered,
        RegisterReturns, TaskDone, Goto, PcTypes
  <2>2. QED
    BY <2>1 DEF TaskInv, Adding
<1>9. CASE TaskSkipRow
  BY <1>4, <1>9 DEF TaskSkipRow
<1>10. CASE NetStep \/ AppReservePort \/ InterfaceUp \/ \E f \in Frames : NetReceive(f)
  BY <1>1, <1>4, <1>10, NetKeepsTask
<1>11. CASE UNCHANGED shimVars
  BY <1>4, <1>11 DEF shimVars, rowVars
<1>12. QED
  BY <1>5, <1>6, <1>7, <1>8, <1>9, <1>10, <1>11 DEF Next, TaskStep, Registering

(* A flow is made for a peer only when the table, searched in an earlier     *)
(* critical section, had none; only the reader makes flows.                 *)
LEMMA OneFlowStep == ASSUME ShimInv, [Next]_shimVars PROVE OneFlowPerPeer'
<1>1. TypeOK /\ FlowTypes /\ NetInv /\ OneFlowPerPeer
  BY DEF ShimInv, TypeOK
<1>2. CASE NetCreateFlow
  <2>1. pc[Net] = "create" /\ (xHa # Unknown => FlowsTo(xHa) = {})
    BY <1>1, <1>2 DEF NetCreateFlow, NetInv
  <2>2. Unknown \notin Peers
    BY ShimAssumption DEF Macs
  <2>3. CASE NextPort \in Slots
    <3>1. xFlows' = [xFlows EXCEPT ![NextPort] = xHa]
      BY <1>2, <2>3 DEF NetCreateFlow
    <3>2. QED
      BY <1>1, <2>1, <2>2, <2>3, <3>1 DEF FlowTypes, FlowsTo, OneFlowPerPeer
  <2>4. CASE NextPort \notin Slots
    BY <1>1, <1>2, <2>4 DEF NetCreateFlow, OneFlowPerPeer
  <2>5. QED
    BY <2>3, <2>4
<1>3. CASE AppReservePort \/ UNCHANGED <<xFlows, lastAllocated>>
  BY <1>1, <1>3 DEF AppReservePort, OneFlowPerPeer
<1>4. QED
  BY <1>2, <1>3, Writers
-----------------------------------------------------------------------------
(* The invariant holds in every behaviour of the shim: flows, frames, events *)
(* and answers belong together.                                            *)
THEOREM ShimInvariant == Spec => []ShimInv
<1>1. ShimInv /\ [Next]_shimVars => ShimInv'
  BY TypeStep, FlowsKept, NetInvStep, EventsInvStep, TaskInvStep, OneFlowStep DEF ShimInv
<1>2. QED
  BY InitShimInv, <1>1, PTL DEF Spec

(* Types, for every number of peers, ports, flows and cache rows: the ports   *)
(* of ShimIPCP.c:269 that are bound lie inside the table.                    *)
THEOREM ShimTypeCorrect == Spec => []TypeOK
<1>1. ShimInv => TypeOK
  BY DEF ShimInv
<1>2. QED
  BY ShimInvariant, <1>1, PTL

(* No two flows lead to the same peer, although the search for a flow and its *)
(* creation are two critical sections (ShimIPCP.c:227 and 260).              *)
THEOREM PeersHaveOneFlow == Spec => []OneFlowPerPeer
<1>1. ShimInv => OneFlowPerPeer
  BY DEF ShimInv
<1>2. QED
  BY ShimInvariant, <1>1, PTL

(* A queued PDU carries the port of its sender's flow (ShimIPCP.c:300).      *)
THEOREM FramesKeepPeer == Spec => []FramesAttributed
<1>1. ShimInv => FramesAttributed
  BY DEF ShimInv, EventsInv, EventFlow, FlowOf, FramesAttributed
<1>2. QED
  BY ShimInvariant, <1>1, PTL

(* An answer leaves for the peer that asked, through event, N-1 port and     *)
(* flow (xRmtSendPortId, xShimSDUWrite).                                    *)
THEOREM AnswersKeepPeer == Spec => []AnswerReachesSender
<1>1. ShimInv => AnswerReachesSender
  BY DEF ShimInv, TaskInv, FlowOf, AnswerReachesSender, WriteTo
<1>2. QED
  BY ShimInvariant, <1>1, PTL
-----------------------------------------------------------------------------
(* The TAP device: every reader can be told to leave, for any number of      *)
(* threads and pipes. A link that goes up starts a reader with a new pipe;   *)
(* that is sound because the readers of the last link were told when it      *)
(* went down (LinkDownTold), which in turn holds because the monitor sees    *)
(* every change after xIsInterfaceConnected was set.                        *)
AllOff == \A r \in Readers : reader[r] = "off"

(* The monitor takes the link for down, or has just seen it come up. *)
SeenDown == monitor = "up" \/ (monitor \in {"starts", "listens"} /\ ~flags)

(* Nobody reads before the interface is connected. *)
ReadersFollow ==
    /\ caller \in {"init", "check", "start"} => AllOff
    /\ connected <=> caller = "on"
    /\ caller = "init" <=> monitor = "off"

MonitorFlags == (monitor = "up" => flags) /\ (monitor = "down" => ~flags)

(* What the code deals with: the link stays as it was found until the        *)
(* interface is connected.                                                   *)
ConnectsUndisturbed ==
    ~unhandled /\ Connecting =>
       /\ monitor \in {"starts", "listens"}
       /\ caller = "start" => flags
       /\ caller = "set" /\ ~flags => AllOff

(* Readers of a link that is gone have been told, and so will be one that    *)
(* has not looked at its pipe yet.                                          *)
LinkDownTold ==
    ~unhandled /\ caller = "on" /\ SeenDown =>
       \A r \in Readers :
          /\ reader[r] \in {"poll", "read"} => pipe[r] \in told
          /\ reader[r] = "begins" => current \in told

ReaderInv ==
    /\ TapTypeOK
    /\ caller = "failed" => unhandled
    /\ monitor = "ended" => unhandled
    /\ ReadersFollow /\ MonitorFlags
    /\ ConnectsUndisturbed /\ LinkDownTold /\ NoReaderLeftBehind
-----------------------------------------------------------------------------
LEMMA InitInv == TapInit => ReaderInv
<1> SUFFICES ASSUME TapInit PROVE ReaderInv
  OBVIOUS
<1>1. TapTypeOK
  <2>1. news \in Seq(BOOLEAN) /\ Len(news) <= MaxNews
    BY TapAssumption DEF TapInit
  <2>2. pipe \in [Readers -> Pipes \cup {NoPipe}] /\ current \in Pipes \cup {NoPipe}
    BY DEF TapInit
  <2>3. QED
    BY <2>1, <2>2 DEF TapInit, TapTypeOK
<1>2. ReadersFollow /\ MonitorFlags /\ ConnectsUndisturbed
  BY DEF TapInit, ReadersFollow, AllOff, MonitorFlags, ConnectsUndisturbed, Connecting
<1>3. LinkDownTold /\ NoReaderLeftBehind
  BY DEF TapInit, LinkDownTold, SeenDown, NoReaderLeftBehind
<1>4. QED
  BY <1>1, <1>2, <1>3 DEF TapInit, ReaderInv

(* Types, with the two messages the kernel may leave waiting. *)
LEMMA TapTypeStep == ASSUME TapTypeOK, [TapNext]_vars PROVE TapTypeOK'
<1> USE DEF TapTypeOK, readVars, kernel, Unhandled
<1>1. CASE Kernel
  <2>1. CASE LinkChange
    <3>1. up' \in BOOLEAN /\ news' \in Seq(BOOLEAN) /\ Len(news') <= MaxNews
      <4>1. PICK b \in BOOLEAN : up' = b /\ (news' = news \/ news' = Append(news, b))
        BY <2>1 DEF LinkChange
      <4>2. Append(news, b) \in Seq(BOOLEAN) /\ Len(Append(news, b)) = Len(news) + 1
        BY <4>1, AppendProperties
      <4>3. Len(news) \in Nat /\ Len(news) < MaxNews
        BY <2>1, LenProperties DEF LinkChange
      <4>4. QED
        <5>1. CASE news' = news
          BY <4>1, <5>1
        <5>2. CASE news' = Append(news, b)
          BY <4>1, <4>2, <4>3, <5>2, TapAssumption
        <5>3. QED
          BY <4>1, <5>1, <5>2
    <3>2. QED
      BY <2>1, <3>1 DEF LinkChange
  <2>2. CASE FrameArrives
    BY <2>2 DEF FrameArrives
  <2>3. QED
    BY <1>1, <2>1, <2>2 DEF Kernel
<1>2. CASE Caller \/ xNetworkInterfaceDisconnect
  BY <1>2 DEF Caller, xNetworkInterfaceDisconnect, xNetworkInterfaceInitialise,
     ConnectChecks, ConnectStarts, ConnectSets, prvLinuxTapStartReadThread, StartFails, NewPipe
<1>3. CASE Monitor
  <2>1. CASE prvLinuxTapParseNewLinkMsg
    <3>1. Head(news) \in BOOLEAN /\ news' \in Seq(BOOLEAN) /\ Len(news') <= MaxNews
      <4>1. news # <<>> /\ news' = Tail(news)
        BY <2>1 DEF prvLinuxTapParseNewLinkMsg
      <4>2. Head(news) \in BOOLEAN /\ Tail(news) \in Seq(BOOLEAN) /\ Len(Tail(news)) = Len(news) - 1
        BY <4>1, HeadTailProperties
      <4>3. Len(news) \in Nat
        BY LenProperties
      <4>4. QED
        BY <4>1, <4>2, <4>3, TapAssumption
    <3>2. monitor' \in {"up", "down", "listens"}
      BY <2>1 DEF prvLinuxTapParseNewLinkMsg
    <3>3. QED
      BY <2>1, <3>1, <3>2 DEF prvLinuxTapParseNewLinkMsg
  <2>2. CASE MonitorBinds \/ vNetworkNotifyIFUp \/ vNetworkNotifyIFDown
    BY <2>2 DEF MonitorBinds, vNetworkNotifyIFUp, vNetworkNotifyIFDown,
       prvLinuxTapStartReadThread, StartFails, NewPipe
  <2>3. QED
    BY <1>3, <2>1, <2>2 DEF Monitor
<1>4. CASE Failure \/ \E r \in Readers : Reader(r)
  <2>1. CASE MonitorFails
    BY <2>1 DEF MonitorFails
  <2>2. ASSUME NEW r \in Readers, ReadFails(r) PROVE TapTypeOK'
    BY <2>2 DEF ReadFails, Moves
  <2>3. ASSUME NEW r \in Readers, Reader(r) PROVE TapTypeOK'
    <3>1. CASE ReadBegins(r)
      BY <3>1 DEF ReadBegins, Moves
    <3>2. CASE PollSeesFrame(r)
      BY <3>2 DEF PollSeesFrame, Moves
    <3>3. CASE Read(r)
      BY <3>3 DEF Read, Moves
    <3>4. CASE PollSeesByte(r)
      BY <3>4 DEF PollSeesByte, Moves
    <3>5. QED
      BY <2>3, <3>1, <3>2, <3>3, <3>4 DEF Reader
  <2>4. QED
    BY <1>4, <2>1, <2>2, <2>3 DEF Failure
<1>5. CASE UNCHANGED vars
  BY <1>5 DEF vars
<1>6. QED
  BY <1>1, <1>2, <1>3, <1>4, <1>5 DEF TapNext

(* A new reader gets a pipe no other reader polls, so that no byte that was  *)
(* written for another is taken away.                                       *)
LEMMA NewReader ==
    ASSUME TapTypeOK, NewPipe,
           \A r \in Readers : reader[r] \in {"poll", "read"} => pipe[r] \in told
    PROVE  \A r \in Readers : reader[r] \in {"poll", "read"} => pipe[r] \in told'
BY DEF NewPipe, TapTypeOK

LEMMA ReaderStep == ASSUME ReaderInv, [TapNext]_vars PROVE ReaderInv'
<1>1. TapTypeOK /\ TapTypeOK'
  BY TapTypeStep DEF ReaderInv
<1> DEFINE Rest == /\ caller = "failed" => unhandled
                   /\ monitor = "ended" => unhandled
                   /\ ReadersFollow /\ MonitorFlags
                   /\ ConnectsUndisturbed /\ LinkDownTold /\ NoReaderLeftBehind
<1>2. Rest
  BY DEF ReaderInv
<1> SUFFICES Rest'
  BY <1>1 DEF ReaderInv
<1> USE DEF ReadersFollow, AllOff, MonitorFlags, ConnectsUndisturbed, Connecting, LinkDownTold,
            SeenDown, NoReaderLeftBehind, readVars, kernel, Unhandled
<1>3. CASE Kernel
  <2>1. /\ UNCHANGED <<flags, connected, caller, monitor, current, reader, pipe, told>>
        /\ unhandled => unhandled'
    <3>1. CASE LinkChange
      BY <3>1, Zenon DEF LinkChange
    <3>2. CASE FrameArrives
      BY <3>2, Zenon DEF FrameArrives
    <3>3. QED
      BY <1>3, <3>1, <3>2 DEF Kernel
  <2>2. QED
    BY <1>2, <2>1
<1>4. CASE Caller \/ xNetworkInterfaceDisconnect
  <2>1. CASE xNetworkInterfaceInitialise
    BY <1>1, <1>2, <2>1 DEF xNetworkInterfaceInitialise, TapTypeOK
  <2>2. CASE ConnectChecks
    BY <1>1, <1>2, <2>2 DEF ConnectChecks, TapTypeOK
  <2>3. CASE ConnectStarts
    <3>1. CASE prvLinuxTapStartReadThread
      <4>1. PICK r \in Readers : reader' = [reader EXCEPT ![r] = "begins"]
        BY <3>1 DEF prvLinuxTapStartReadThread
      <4>2. \A s \in Readers : reader'[s] \in {"off", "begins"}
        BY <1>1, <1>2, <2>3, <4>1 DEF ConnectStarts, TapTypeOK
      <4>3. caller = "start" /\ (caller' = "set" \/ unhandled')
            /\ caller' \in {"set", "failed"} /\ (caller' = "failed" => unhandled')
            /\ (unhandled => unhandled') /\ UNCHANGED <<flags, connected, monitor>>
        BY <2>3 DEF ConnectStarts, StartFails
      <4>4. QED
        BY <1>2, <4>2, <4>3
    <3>2. CASE StartFails
      BY <1>1, <1>2, <2>3, <3>2 DEF ConnectStarts, StartFails, TapTypeOK
    <3>3. QED
      BY <2>3, <3>1, <3>2 DEF ConnectStarts
  <2>4. CASE ConnectSets
    BY <1>1, <1>2, <2>4 DEF ConnectSets, TapTypeOK
  <2>5. CASE xNetworkInterfaceDisconnect
    BY <1>1, <1>2, <2>5 DEF xNetworkInterfaceDisconnect, TapTypeOK
  <2>6. QED
    BY <1>4, <2>1, <2>2, <2>3, <2>4, <2>5 DEF Caller
<1>5. CASE Monitor
  <2>1. CASE MonitorBinds
    BY <1>1, <1>2, <2>1 DEF MonitorBinds, TapTypeOK
  <2>2. CASE prvLinuxTapParseNewLinkMsg
    BY <1>1, <1>2, <2>2 DEF prvLinuxTapParseNewLinkMsg, TapTypeOK
  <2>3. CASE vNetworkNotifyIFUp
    <3>1. CASE ~connected
      BY <1>1, <1>2, <2>3, <3>1 DEF vNetworkNotifyIFUp, prvLinuxTapStartReadThread, StartFails, TapTypeOK
    <3>2. CASE connected /\ prvLinuxTapStartReadThread
      <4>1. /\ monitor = "up" /\ monitor' = "listens" /\ flags /\ caller = "on"
            /\ UNCHANGED <<flags, connected, caller, pipe>> /\ (unhandled => unhandled')
        BY <1>2, <2>3, <3>2 DEF vNetworkNotifyIFUp, prvLinuxTapStartReadThread, StartFails
      <4>2. PICK r \in Readers : reader' = [reader EXCEPT ![r] = "begins"]
        BY <3>2 DEF prvLinuxTapStartReadThread
      <4>3. \A s \in Readers : reader'[s] \in {"poll", "read"} => reader[s] \in {"poll", "read"}
        BY <1>1, <4>2 DEF TapTypeOK
      <4>4. ~unhandled => \A s \in Readers : reader[s] \in {"poll", "read"} => pipe[s] \in told'
        BY <1>1, <1>2, <3>2, <4>1, NewReader DEF prvLinuxTapStartReadThread
      <4>5. QED
        BY <1>2, <4>1, <4>3, <4>4
    <3>3. CASE connected /\ StartFails
      BY <1>1, <1>2, <2>3, <3>3 DEF vNetworkNotifyIFUp, StartFails, TapTypeOK
    <3>4. QED
      BY <2>3, <3>1, <3>2, <3>3 DEF vNetworkNotifyIFUp
  <2>4. CASE vNetworkNotifyIFDown
    BY <1>1, <1>2, <2>4 DEF vNetworkNotifyIFDown, TapTypeOK
  <2>5. QED
    BY <1>5, <2>1, <2>2, <2>3, <2>4 DEF Monitor
<1>6. CASE Failure
  BY <1>1, <1>2, <1>6 DEF Failure, MonitorFails, ReadFails, Moves, TapTypeOK
<1>7. ASSUME NEW r \in Readers, Reader(r) PROVE Rest'
  <2>1. CASE ReadBegins(r)
    BY <1>1, <1>2, <2>1 DEF ReadBegins, Moves, TapTypeOK
  <2>2. CASE PollSeesFrame(r) \/ Read(r)
    BY <1>1, <1>2, <2>2 DEF PollSeesFrame, Read, Moves, TapTypeOK
  <2>3. CASE PollSeesByte(r)
    BY <1>1, <1>2, <2>3 DEF PollSeesByte, Moves, TapTypeOK
  <2>4. QED
    BY <1>7, <2>1, <2>2, <2>3 DEF Reader
<1>8. CASE UNCHANGED vars
  BY <1>2, <1>8 DEF vars
<1>9. QED
  BY <1>3, <1>4, <1>5, <1>6, <1>7, <1>8 DEF TapNext
-----------------------------------------------------------------------------
(* The invariant of the monitor and reader threads (NetworkInterface.c). *)
THEOREM TapInvariant == TapSpec => []ReaderInv
<1>1. TapInit => ReaderInv
  BY InitInv
<1>2. ReaderInv /\ [TapNext]_vars => ReaderInv'
  BY ReaderStep
<1>3. QED
  BY <1>1, <1>2, PTL DEF TapSpec

(* Types of the interface and its threads. *)
THEOREM TapTypeCorrect == TapSpec => []TapTypeOK
<1>1. ReaderInv => TapTypeOK
  BY DEF ReaderInv
<1>2. QED
  BY <1>1, TapInvariant, PTL

(* Every reader that waits can still be told to leave (vNetworkNotifyIFDown  *)
(* writes to the pipe it polls, or has written).                            *)
THEOREM ReadersCanBeTold == TapSpec => []NoReaderLeftBehind
<1>1. ReaderInv => NoReaderLeftBehind
  BY DEF ReaderInv
<1>2. QED
  BY <1>1, TapInvariant, PTL
=============================================================================
