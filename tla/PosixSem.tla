------------------------------ MODULE PosixSem ------------------------------
(***************************************************************************)
(* FreeRTOS_POSIX_semaphore.c, which posix_rssem.c puts under RsQueue_t when *)
(* the stack runs on FreeRTOS: a counter that is changed atomically, and a   *)
(* FreeRTOS semaphore in which threads wait when the counter says so.       *)
(***************************************************************************)
EXTENDS Integers, FiniteSets

CONSTANTS Threads,
          Initial,       \* value given to sem_init
          SEM_VALUE_MAX,
          MaxPosts       \* bound of the model: posts of a behaviour

VARIABLES value,     \* sem_internal_t.value
          xSemaphore, \* count of the FreeRTOS semaphore
          pc, timeout, \* where a thread is, and whether it waits with a limit
          posts

vars == <<value, xSemaphore, pc, timeout, posts>>

sem_init ==
    /\ Initial <= SEM_VALUE_MAX
    /\ value = Initial
    /\ xSemaphore = 0

Init ==
    /\ sem_init
    /\ pc = [t \in Threads |-> "idle"]
    /\ timeout = [t \in Threads |-> "never"]
    /\ posts = 0

Goto(t, label) == pc' = [pc EXCEPT ![t] = label]

(* The value before the increment decides whether a thread is woken. *)
sem_post(t) ==
    /\ pc[t] = "idle" /\ posts < MaxPosts
    /\ posts' = posts + 1
    /\ value' = value + 1
    /\ Goto(t, IF value < 0 THEN "give" ELSE "idle")
    /\ UNCHANGED <<xSemaphore, timeout>>

xSemaphoreGive(t) ==
    /\ pc[t] = "give"
    /\ xSemaphore' = IF xSemaphore < SEM_VALUE_MAX THEN xSemaphore + 1 ELSE xSemaphore
    /\ Goto(t, "idle")
    /\ UNCHANGED <<value, timeout, posts>>

(* sem_timedwait, entered by sem_wait (never), by itself (later) and by      *)
(* sem_trywait, or with a time in the past or invalid (at once).            *)
sem_timedwait(t, limit) ==
    /\ pc[t] = "idle"
    /\ value' = value - 1
    /\ timeout' = [timeout EXCEPT ![t] = limit]
    /\ Goto(t, IF value > 0 THEN "idle" ELSE "take")
    /\ UNCHANGED <<xSemaphore, posts>>

xSemaphoreTake(t) ==
    /\ pc[t] = "take" /\ xSemaphore > 0
    /\ xSemaphore' = xSemaphore - 1
    /\ Goto(t, "undo")
    /\ UNCHANGED <<value, timeout, posts>>

TakeFails(t) ==
    /\ pc[t] = "take" /\ timeout[t] # "never" /\ xSemaphore = 0
    /\ Goto(t, "undo")
    /\ UNCHANGED <<value, xSemaphore, timeout, posts>>

(* The counter is incremented whether the semaphore was taken or not. *)
Undo(t) ==
    /\ pc[t] = "undo"
    /\ value' = value + 1
    /\ Goto(t, "idle")
    /\ UNCHANGED <<xSemaphore, timeout, posts>>

Next == \E t \in Threads :
    \/ sem_post(t) \/ xSemaphoreGive(t)
    \/ \E limit \in {"never", "later", "at once"} : sem_timedwait(t, limit)
    \/ xSemaphoreTake(t) \/ TakeFails(t) \/ Undo(t)

Spec == Init /\ [][Next]_vars
-----------------------------------------------------------------------------
Waiting == {t \in Threads : pc[t] = "take"}
Giving  == {t \in Threads : pc[t] = "give"}

(* sem_post: "If previous semaphore value is equal or larger than zero,      *)
(* there is no thread waiting for this semaphore."                          *)
(* (FreeRTOS_POSIX_semaphore.c:117) None, that is, but those for whom a post *)
(* gave, or is about to give, the FreeRTOS semaphore.                       *)
NobodyWaits == value >= 0 => Cardinality(Waiting) <= xSemaphore + Cardinality(Giving)
=============================================================================
