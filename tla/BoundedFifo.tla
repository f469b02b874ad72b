---------------------------- MODULE BoundedFifo ----------------------------
(***************************************************************************)
(* What an RsQueue_t promises to the code that shares it: a first-in       *)
(* first-out buffer that never holds more than its configured number of    *)
(* items.  Capacity 0 means that the buffer is not bounded, as             *)
(* unMaxItemCount = 0 does in RsQueueParams_t.                             *)
(***************************************************************************)
EXTENDS Naturals, Sequences

CONSTANTS Items,     \* the payloads that may be stored
          Capacity   \* largest number of items, 0 for no limit

VARIABLE buffer

Init == buffer = <<>>

Put(v) ==
    /\ Capacity # 0 => Len(buffer) < Capacity
    /\ buffer' = Append(buffer, v)

Get ==
    /\ buffer # <<>>
    /\ buffer' = Tail(buffer)

Next == Get \/ \E v \in Items : Put(v)

Spec == Init /\ [][Next]_buffer
=============================================================================
