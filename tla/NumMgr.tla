------------------------------- MODULE NumMgr -------------------------------
(***************************************************************************)
(* Common/num_mgr.c with Common/include/common/bit_array.h: the allocator   *)
(* of port ids and IPC process ids of the IPC manager.                     *)
(*                                                                         *)
(* The number manager takes no lock.  ulNumMgrAllocate is modelled one loop *)
(* iteration per step, and the read-modify-write of the 32-bit word that    *)
(* holds the bit (all numbers of a small instance share one word) as a read *)
(* and a later store, so that callers on several threads interleave as      *)
(* they do in the program: RINA_flow_alloc reserves ports on the            *)
(* application's thread while the shim does so on the network thread.      *)
(***************************************************************************)
EXTENDS Naturals, FiniteSets

CONSTANTS Callers,    \* threads that call the manager
          numCntArg,  \* argument of pxNumMgrCreate: how many numbers there are
          UINT_MAX    \* what ulNumMgrAllocate returns when it overflows

ASSUME NumMgrAssumption ==
    /\ numCntArg \in Nat \ {0}
    /\ UINT_MAX \in Nat
    /\ UINT_MAX > numCntArg + 1

VARIABLES ba,             \* the numbers whose bit is set
          lastAllocated,  \* the number handed out last
          loc,            \* where each thread is
          p,              \* the loop variable, or the number being released
          word,           \* the word of the bit array a thread has read
          result,         \* what the last call returned (TRUE = 1, FALSE = 0)
          reserved        \* ghost: numbers a thread reserved and has not released

numVars == <<ba, lastAllocated, loc, p, word, result, reserved>>

Numbers == 1 .. numCntArg
numCnt  == numCntArg + 1

(* xNumMgrInit *)
NumInit ==
    /\ ba = {}
    /\ lastAllocated = 0
    /\ loc = [t \in Callers |-> "idle"]
    /\ p = [t \in Callers |-> 0]
    /\ word = [t \in Callers |-> {}]
    /\ result = [t \in Callers |-> 0]
    /\ reserved = [t \in Callers |-> {}]
-----------------------------------------------------------------------------
AllocateBegin(t) ==
    /\ loc[t] = "idle"
    /\ p' = [p EXCEPT ![t] = lastAllocated + 1]
    /\ loc' = [loc EXCEPT ![t] = "loop"]
    /\ UNCHANGED <<ba, lastAllocated, word, result, reserved>>

(* One iteration of the for loop: the overflow test, the wrap to 1 and the   *)
(* test of the bit, in this order.                                          *)
Wrap(n) == IF n = numCnt THEN 1 ELSE n

(* Fault: the loop does not advance over a number in use. *)
AllocateStuck(t) ==
    /\ loc[t] = "loop"
    /\ Wrap(p[t]) \notin ba
    /\ p' = [p EXCEPT ![t] = Wrap(p[t])]
    /\ word' = [word EXCEPT ![t] = ba]
    /\ loc' = [loc EXCEPT ![t] = "set"]
    /\ UNCHANGED <<ba, lastAllocated, result, reserved>>

AllocateProbe(t) ==
    /\ loc[t] = "loop"
    /\ LET n == Wrap(p[t]) IN
       IF p[t] = lastAllocated
       THEN /\ result' = [result EXCEPT ![t] = UINT_MAX]
            /\ loc' = [loc EXCEPT ![t] = "idle"]
            /\ UNCHANGED <<p, word>>
       ELSE IF n \in ba
       THEN /\ p' = [p EXCEPT ![t] = n + 1]
            /\ UNCHANGED <<loc, word, result>>
       ELSE /\ p' = [p EXCEPT ![t] = n]
            /\ word' = [word EXCEPT ![t] = ba]
            /\ loc' = [loc EXCEPT ![t] = "set"]
            /\ UNCHANGED result
    /\ UNCHANGED <<ba, lastAllocated, reserved>>

(* vBitArraySetBit stores the word it read with the bit added. *)
AllocateSet(t) ==
    /\ loc[t] = "set"
    /\ ba' = word[t] \cup {p[t]}
    /\ lastAllocated' = p[t]
    /\ result' = [result EXCEPT ![t] = p[t]]
    /\ reserved' = [reserved EXCEPT ![t] = @ \cup {p[t]}]
    /\ loc' = [loc EXCEPT ![t] = "idle"]
    /\ UNCHANGED <<p, word>>

(* xNumMgrRelease, called with a number the thread holds or with one that is *)
(* not allocated at all.                                                    *)
ReleaseBegin(t, n) ==
    /\ loc[t] = "idle"
    /\ n \in reserved[t] \/ n \notin ba
    /\ IF n \in ba
       THEN /\ p' = [p EXCEPT ![t] = n]
            /\ word' = [word EXCEPT ![t] = ba]
            /\ loc' = [loc EXCEPT ![t] = "clear"]
            /\ UNCHANGED <<result, reserved>>
       ELSE /\ result' = [result EXCEPT ![t] = 0]
            /\ reserved' = [reserved EXCEPT ![t] = @ \ {n}]
            /\ UNCHANGED <<loc, p, word>>
    /\ UNCHANGED <<ba, lastAllocated>>

(* Fault: the bit is not cleared. *)
ReleaseKeep(t) ==
    /\ loc[t] = "clear"
    /\ result' = [result EXCEPT ![t] = 1]
    /\ reserved' = [reserved EXCEPT ![t] = @ \ {p[t]}]
    /\ loc' = [loc EXCEPT ![t] = "idle"]
    /\ UNCHANGED <<ba, lastAllocated, p, word>>

ReleaseClear(t) ==
    /\ loc[t] = "clear"
    /\ ba' = word[t] \ {p[t]}
    /\ result' = [result EXCEPT ![t] = 1]
    /\ reserved' = [reserved EXCEPT ![t] = @ \ {p[t]}]
    /\ loc' = [loc EXCEPT ![t] = "idle"]
    /\ UNCHANGED <<lastAllocated, p, word>>

Run(t) == AllocateProbe(t) \/ AllocateSet(t) \/ ReleaseClear(t)

NumNext == \E t \in Callers :
            \/ AllocateBegin(t)
            \/ \E n \in Numbers : ReleaseBegin(t, n)
            \/ Run(t)

NumSpec == NumInit /\ [][NumNext]_numVars

(* A thread that entered a call is scheduled again. *)
NumFairSpec == NumSpec /\ \A t \in Callers : WF_numVars(Run(t))
-----------------------------------------------------------------------------
NumTypeOK ==
    /\ ba \subseteq Numbers
    /\ lastAllocated \in 0 .. numCntArg
    /\ loc \in [Callers -> {"idle", "loop", "set", "clear"}]
    /\ p \in [Callers -> 0 .. numCnt]
    /\ word \in [Callers -> SUBSET Numbers]
    /\ result \in [Callers -> (0 .. numCntArg) \cup {UINT_MAX}]
    /\ reserved \in [Callers -> SUBSET Numbers]

SingleCaller == \A t, u \in Callers : t = u

(* As long as one thread only uses the manager, the set bits are exactly the *)
(* numbers in use: no number is handed out twice, none is lost for ever, and *)
(* the loop variable never leaves the array (num_mgr.c, ulNumMgrAllocate and *)
(* xNumMgrRelease).                                                         *)
BitsAreHeld == SingleCaller => \A t \in Callers : reserved[t] = ba

(* Where the loop variable of each thread can be. *)
LoopRange ==
    \A t \in Callers : /\ loc[t] = "loop" => p[t] \in 1 .. numCnt
                       /\ loc[t] \in {"set", "clear"} => p[t] \in Numbers

(* The inductive invariant of the proofs. *)
NumMgrInv == NumTypeOK /\ LoopRange

(* With a single caller, a call that starts while a number is free returns:  *)
(* the search does not run past it for ever.                                *)
ReturnsUnlessFull ==
    \A t \in Callers : (loc[t] = "loop" /\ ba # Numbers) ~> loc[t] = "idle"
=============================================================================
