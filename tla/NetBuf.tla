------------------------------- MODULE NetBuf -------------------------------
(***************************************************************************)
(* Chains of network buffers (Common/netbuf.c). A netbuf is a segment of a   *)
(* memory buffer; splitting makes two segments of one buffer. A segment is   *)
(* freed by marking it; the memory goes back when the whole chain is freed.  *)
(* A chain is the sequence that pxFirst and pxNext make: every netbuf used   *)
(* as an entry to it is live, and the live ones have its head in pxFirst.   *)
(***************************************************************************)
EXTENDS Naturals, Sequences

CONSTANT NoBuf          \* pxBufStart is NULL

pxNetBufNew(seg, buf) == <<[seg |-> seg, freed |-> FALSE, buf |-> buf]>>

(* FOREACH_NETBUF: the netbufs that are not freed. *)
Live(c)     == {i \in DOMAIN c : ~c[i].freed}
AllFreed(c) == Live(c) = {}

(* unNetBufRead copies the live segments, in order. *)
Content(c) ==
    LET read[i \in 0 .. Len(c)] ==
          IF i = 0 THEN <<>>
          ELSE IF c[i].freed THEN read[i - 1] ELSE Append(read[i - 1], c[i].seg)
    IN  read[Len(c)]

(* xNetBufSplit, for the only live netbuf, the last. *)
xNetBufSplit(c, left, right) ==
    Append([c EXCEPT ![Len(c)].seg = left], [c[Len(c)] EXCEPT !.seg = right])

vNetBufAppend(left, right) == left \o right

(* The first part of vNetBufFree. The pointer is given up when another       *)
(* netbuf of the chain has the same.                                        *)
Mark(c, i) ==
    [c EXCEPT ![i].freed = TRUE,
              ![i].buf = IF \E j \in DOMAIN c \ {i} : c[j].buf = @ THEN NoBuf ELSE @]

(* The second part, for a chain that is all freed: freemethod is called for  *)
(* every pointer that is left.                                              *)
BufsOf(c) == {c[i].buf : i \in DOMAIN c} \ {NoBuf}
Repeated(c) ==
    \E i, j \in DOMAIN c : i # j /\ c[i].buf = c[j].buf /\ c[i].buf # NoBuf
=============================================================================
