---------------------------- MODULE PduPathProofs ----------------------------
(***************************************************************************)
(* What holds of the netbufs on the way of a PDU, for any number of buffers  *)
(* and any length of the queue. The rules of netbuf.c keep a chain in order  *)
(* (InOrder): a buffer that several netbufs share is given up by those that  *)
(* are freed until one is left. Where a chain is tells which of its netbufs  *)
(* are live (Shape), and a buffer is in one place (Owned).                   *)
(***************************************************************************)
EXTENDS PduPath, SequenceTheorems, TLAPS

(* A live netbuf has a buffer, and one that shares its buffer is live.       *)
InOrder(c) ==
    /\ c \in Seq(NetBufs)
    /\ \A i \in 1 .. Len(c) : ~c[i].freed => c[i].buf # NoBuf
    /\ \A i, j \in 1 .. Len(c) :
         i # j /\ c[i].buf = c[j].buf /\ c[i].buf # NoBuf => ~c[i].freed

(* The first k netbufs are freed, and no other. *)
FreedTo(c, k) == k \in 0 .. Len(c) - 1 /\ \A i \in 1 .. Len(c) : c[i].freed <=> i <= k

(* No netbuf is freed, and these are the segments. *)
One(c, s)          == FreedTo(c, 0) /\ Len(c) = 1 /\ c[1].seg = s
Two(c, s, t)       == FreedTo(c, 0) /\ Len(c) = 2 /\ c[1].seg = s /\ c[2].seg = t
Three(c, s, t, u)  == FreedTo(c, 0) /\ Len(c) = 3 /\ c[1].seg = s /\ c[2].seg = t /\ c[3].seg = u
Answer(c) == /\ Len(c) = 3 /\ c[1].seg = "eth" /\ c[3].seg = "arp"
             /\ ~c[1].freed /\ c[2].freed /\ ~c[3].freed

(* What the holder of a chain knows of it; n is where vNetBufFreeAll is.     *)
Shape(label, c, n) ==
    /\ label = "idle" => c = <<>>
    /\ label = "frame" => One(c, "frame")
    /\ label \in {"arp", "rina"} => Two(c, "eth", "pdu")
    /\ label = "return" => Two(c, "eth", "pdu") \/ Answer(c)
    /\ label \in {"post", "receive", "deliver", "read"} => FreedTo(c, Len(c) - 1)
    /\ label = "header" => FreedTo(c, Len(c) - 2)
    /\ label = "write" => One(c, "data")
    /\ label \in {"send", "shim"} => Two(c, "pci", "data")
    /\ label = "output" => Three(c, "eth", "pci", "data")
    /\ label = "free_all" => /\ n \in 1 .. Len(c) /\ ~c[Len(c)].freed
                             /\ \A i \in 1 .. n - 1 : c[i].freed
    /\ label # "free_all" => n = 1

EventShape(e) ==
    /\ InOrder(e.du)
    /\ IF e.type = "rx" THEN FreedTo(e.du, Len(e.du) - 1) ELSE One(e.du, "data")

Shapes ==
    /\ \A t \in Threads : InOrder(chain[t]) /\ Shape(pc[t], chain[t], next[t])
    /\ \A i \in 1 .. Len(queue) : EventShape(queue[i])
    /\ \A i \in 1 .. Len(waiting) : InOrder(waiting[i]) /\ FreedTo(waiting[i], Len(waiting[i]) - 1)

(* No two places have a buffer in common, and what they have is in use. *)
Apart == \A p, q \in Places : p # q => BufsOf(ChainAt(p)) \cap BufsOf(ChainAt(q)) = {}
Owned == Apart /\ InUse \subseteq allocated /\ (~dropped => allocated \subseteq InUse)

PduInv ==
    /\ TypeOK
    /\ program # "use_after_free"
    /\ program = "double_free" => ribTimeout
    /\ program = "runs" => Shapes /\ Owned
    /\ FramesComplete
-----------------------------------------------------------------------------
(* What the operators of netbuf.c make of a chain. *)
LEMMA NewChain ==
    ASSUME NEW s \in Segments, NEW b \in Bufs
    PROVE  LET c == pxNetBufNew(s, b)
           IN  InOrder(c) /\ One(c, s) /\ BufsOf(c) = {b}
<1> DEFINE nb == [seg |-> s, freed |-> FALSE, buf |-> b]
           c == <<nb>>
<1>1. nb \in NetBufs /\ b # NoBuf
  BY PduAssumption DEF NetBufs
<1>2. c \in Seq(NetBufs) /\ Len(c) = 1 /\ c[1] = nb /\ DOMAIN c = 1 .. 1
  BY <1>1
<1>3. nb.seg = s /\ nb.freed = FALSE /\ nb.buf = b
  OBVIOUS
<1>4. pxNetBufNew(s, b) = c
  BY DEF pxNetBufNew
<1> HIDE DEF nb, c
<1>5. InOrder(c) /\ One(c, s)
  BY <1>1, <1>2, <1>3 DEF InOrder, One, FreedTo
<1>6. BufsOf(c) = {b}
  BY <1>1, <1>2, <1>3 DEF BufsOf
<1> QED BY <1>4, <1>5, <1>6

(* The first netbuf is cut in two that share its buffer, both live.          *)
LEMMA SplitChain ==
    ASSUME NEW c, InOrder(c), Len(c) # 0, ~c[Len(c)].freed,
           NEW l \in Segments, NEW r \in Segments
    PROVE  LET d == xNetBufSplit(c, l, r)
           IN  /\ InOrder(d) /\ BufsOf(d) = BufsOf(c)
               /\ Len(d) = Len(c) + 1
               /\ \A i \in 1 .. Len(c) - 1 : d[i] = c[i]
               /\ ~d[Len(c)].freed /\ ~d[Len(c) + 1].freed
               /\ d[Len(c)].seg = l /\ d[Len(c) + 1].seg = r
<1> DEFINE n == Len(c)
           x == [c[n] EXCEPT !.seg = l]
           y == [c[n] EXCEPT !.seg = r]
           e == [c EXCEPT ![n] = x]
           d == Append(e, y)
<1>1. c \in Seq(NetBufs) /\ n \in Nat \ {0} /\ c[n] \in NetBufs
  BY DEF InOrder
<1>2. /\ x \in NetBufs /\ x.seg = l /\ x.freed = c[n].freed /\ x.buf = c[n].buf
      /\ y \in NetBufs /\ y.seg = r /\ y.freed = c[n].freed /\ y.buf = c[n].buf
  BY <1>1 DEF NetBufs
<1>3. xNetBufSplit(c, l, r) = d
  BY <1>1 DEF xNetBufSplit, NetBufs
<1> HIDE DEF x, y
<1>4. /\ e \in Seq(NetBufs) /\ Len(e) = n /\ e[n] = x
      /\ \A i \in 1 .. n - 1 : e[i] = c[i]
  BY <1>1, <1>2, ExceptSeq
<1> HIDE DEF e
<1>5. /\ d \in Seq(NetBufs) /\ Len(d) = n + 1 /\ d[n + 1] = y /\ d[n] = x
      /\ \A i \in 1 .. n - 1 : d[i] = c[i]
  BY <1>1, <1>2, <1>4, AppendProperties
<1> HIDE DEF d
<1>6. \A i \in 1 .. n : d[i].buf = c[i].buf /\ d[i].freed = c[i].freed
  BY <1>1, <1>2, <1>5
<1>7. d[n + 1].buf = c[n].buf /\ d[n + 1].freed = c[n].freed
  BY <1>2, <1>5
<1>8. DOMAIN d = 1 .. n + 1 /\ DOMAIN c = 1 .. n
  BY <1>1, <1>5
<1>9. BufsOf(d) = BufsOf(c)
  BY <1>1, <1>6, <1>7, <1>8 DEF BufsOf
<1>10. InOrder(d)
  <2>1. \A i \in 1 .. n + 1 : ~d[i].freed => d[i].buf # NoBuf
    BY <1>1, <1>6, <1>7 DEF InOrder
  <2>2. ASSUME NEW i \in 1 .. n + 1, NEW j \in 1 .. n + 1, i # j, d[i].buf = d[j].buf,
               d[i].buf # NoBuf
        PROVE  ~d[i].freed
    <3>1. CASE i = n + 1 \/ i = n
      BY <1>1, <1>6, <1>7, <3>1
    <3>2. CASE i < n
      BY <1>1, <1>6, <1>7, <2>2, <3>2 DEF InOrder
    <3> QED BY <1>1, <3>1, <3>2
  <2> QED BY <1>5, <2>1, <2>2 DEF InOrder
<1> QED BY <1>1, <1>2, <1>3, <1>5, <1>9, <1>10

(* vNetBufFree on netbuf i: the buffer stays with its name elsewhere, if any. *)
LEMMA MarkChain ==
    ASSUME NEW c, InOrder(c), NEW i \in 1 .. Len(c)
    PROVE  LET d == Mark(c, i)
           IN  /\ InOrder(d) /\ BufsOf(d) = BufsOf(c)
               /\ Len(d) = Len(c) /\ d[i].freed
               /\ \A j \in 1 .. Len(c) : d[j].seg = c[j].seg /\ (j # i => d[j] = c[j])
<1> DEFINE n == Len(c)
           shared == \E j \in DOMAIN c \ {i} : c[j].buf = c[i].buf
           b == IF shared THEN NoBuf ELSE c[i].buf
           x == [c[i] EXCEPT !.freed = TRUE, !.buf = b]
           d == [c EXCEPT ![i] = x]
<1>1. c \in Seq(NetBufs) /\ n \in Nat /\ c[i] \in NetBufs /\ DOMAIN c = 1 .. n
  BY DEF InOrder
<1>2. x \in NetBufs /\ x.seg = c[i].seg /\ x.freed = TRUE /\ x.buf = b
  BY <1>1 DEF NetBufs
<1>3. Mark(c, i) = d
  BY <1>1 DEF Mark, NetBufs
<1>b. /\ b = NoBuf \/ b = c[i].buf
      /\ b # NoBuf => \A j \in 1 .. n \ {i} : c[j].buf # b
      /\ b # c[i].buf => \E j \in 1 .. n \ {i} : c[j].buf = c[i].buf
  BY <1>1
<1> HIDE DEF x, b
<1>4. /\ d \in Seq(NetBufs) /\ Len(d) = n /\ d[i] = x
      /\ \A j \in 1 .. n : j # i => d[j] = c[j]
  BY <1>1, <1>2, ExceptSeq
<1> HIDE DEF d
<1>5. DOMAIN d = 1 .. n
  BY <1>4, <1>1
<1>6. BufsOf(d) = BufsOf(c)
  <2>1. ASSUME NEW z \in BufsOf(c) PROVE z \in BufsOf(d)
    <3>1. PICK j \in 1 .. n : z = c[j].buf /\ z # NoBuf
      BY <1>1 DEF BufsOf
    <3>2. PICK k \in 1 .. n : z = d[k].buf
      BY <1>b, <1>2, <1>4, <3>1
    <3> QED BY <1>5, <3>1, <3>2 DEF BufsOf
  <2>2. ASSUME NEW z \in BufsOf(d) PROVE z \in BufsOf(c)
    <3>1. PICK j \in 1 .. n : z = d[j].buf /\ z # NoBuf
      BY <1>5 DEF BufsOf
    <3>2. z = c[j].buf
      BY <1>b, <1>2, <1>4, <3>1
    <3> QED BY <1>1, <3>1, <3>2 DEF BufsOf
  <2> QED BY <2>1, <2>2
<1>7. InOrder(d)
  <2>1. \A j \in 1 .. n : ~d[j].freed => d[j].buf # NoBuf
    BY <1>2, <1>4 DEF InOrder
  <2>2. ASSUME NEW j \in 1 .. n, NEW k \in 1 .. n, j # k, d[j].buf = d[k].buf, d[j].buf # NoBuf
        PROVE  ~d[j].freed
    BY <1>b, <1>2, <1>4, <2>2 DEF InOrder
  <2> QED BY <1>4, <2>1, <2>2 DEF InOrder
<1> QED BY <1>2, <1>3, <1>4, <1>6, <1>7

(* Two chains without a buffer in common, one behind the other.              *)
LEMMA AppendChain ==
    ASSUME NEW c, InOrder(c), NEW d, InOrder(d), BufsOf(c) \cap BufsOf(d) = {}
    PROVE  LET e == vNetBufAppend(c, d)
           IN  /\ InOrder(e) /\ BufsOf(e) = BufsOf(c) \cup BufsOf(d)
               /\ Len(e) = Len(c) + Len(d)
               /\ \A i \in 1 .. Len(c) : e[i] = c[i]
               /\ \A i \in 1 .. Len(d) : e[Len(c) + i] = d[i]
<1> DEFINE m == Len(c)
           n == Len(d)
           e == c \o d
<1>1. c \in Seq(NetBufs) /\ d \in Seq(NetBufs) /\ m \in Nat /\ n \in Nat
  BY DEF InOrder
<1>2. /\ e \in Seq(NetBufs) /\ Len(e) = m + n
      /\ \A i \in 1 .. m : e[i] = c[i]
      /\ \A i \in 1 .. n : e[m + i] = d[i]
  BY <1>1, ConcatProperties
<1>3. DOMAIN c = 1 .. m /\ DOMAIN d = 1 .. n /\ DOMAIN e = 1 .. m + n
  BY <1>1, <1>2
<1>e. vNetBufAppend(c, d) = e
  BY DEF vNetBufAppend
<1> HIDE DEF e
<1>4. \A i \in 1 .. m + n : i \in 1 .. m \/ \E k \in 1 .. n : i = m + k
  <2>1. ASSUME NEW i \in 1 .. m + n, i \notin 1 .. m PROVE i - m \in 1 .. n /\ i = m + (i - m)
    BY <1>1, <2>1
  <2> QED BY <2>1
<1>5. BufsOf(e) = BufsOf(c) \cup BufsOf(d)
  <2>1. \A i \in 1 .. m : i \in 1 .. m + n
    BY <1>1
  <2>2. \A i \in 1 .. n : m + i \in 1 .. m + n
    BY <1>1
  <2>3. BufsOf(c) \cup BufsOf(d) \subseteq BufsOf(e)
    BY <1>2, <1>3, <2>1, <2>2 DEF BufsOf
  <2>4. ASSUME NEW i \in 1 .. m + n, e[i].buf # NoBuf
        PROVE  e[i].buf \in BufsOf(c) \cup BufsOf(d)
    <3>1. CASE i \in 1 .. m
      BY <1>2, <1>3, <2>4, <3>1 DEF BufsOf
    <3>2. CASE \E k \in 1 .. n : i = m + k
      BY <1>2, <1>3, <2>4, <3>2 DEF BufsOf
    <3> QED BY <1>4, <3>1, <3>2
  <2>5. BufsOf(e) \subseteq BufsOf(c) \cup BufsOf(d)
    BY <1>3, <2>4 DEF BufsOf
  <2> QED BY <2>3, <2>5
<1>6. InOrder(e)
  <2>1. ASSUME NEW i \in 1 .. m + n PROVE ~e[i].freed => e[i].buf # NoBuf
    BY <1>2, <1>4 DEF InOrder
  <2>2. ASSUME NEW i \in 1 .. m + n, NEW j \in 1 .. m + n, i # j, e[i].buf = e[j].buf,
               e[i].buf # NoBuf
        PROVE  ~e[i].freed
    <3>1. CASE i \in 1 .. m /\ j \in 1 .. m
      BY <1>2, <2>2, <3>1 DEF InOrder
    <3>2. CASE i \notin 1 .. m /\ j \notin 1 .. m
      <4>1. PICK k \in 1 .. n : i = m + k
        BY <1>4, <3>2
      <4>2. PICK l \in 1 .. n : j = m + l
        BY <1>4, <3>2
      <4> QED BY <1>2, <2>2, <4>1, <4>2 DEF InOrder
    <3>3. CASE i \in 1 .. m /\ j \notin 1 .. m
      <4>1. PICK l \in 1 .. n : j = m + l
        BY <1>4, <3>3
      <4> QED BY <1>2, <1>3, <2>2, <3>3, <4>1 DEF BufsOf
    <3>4. CASE i \notin 1 .. m /\ j \in 1 .. m
      <4>1. PICK k \in 1 .. n : i = m + k
        BY <1>4, <3>4
      <4> QED BY <1>2, <1>3, <2>2, <3>4, <4>1 DEF BufsOf
    <3> QED BY <3>1, <3>2, <3>3, <3>4
  <2> QED BY <1>2, <2>1, <2>2 DEF InOrder
<1> QED BY <1>2, <1>5, <1>6, <1>e

(* A chain whose netbufs are all freed names every buffer once. *)
LEMMA FreedOnce ==
    ASSUME NEW c, InOrder(c)
    PROVE  /\ AllFreed(c) <=> \A i \in 1 .. Len(c) : c[i].freed
           /\ AllFreed(c) => ~Repeated(c)
<1>1. DOMAIN c = 1 .. Len(c)
  BY DEF InOrder
<1> QED BY <1>1 DEF AllFreed, Live, Repeated, InOrder
-----------------------------------------------------------------------------
(* What is read from a chain of two or three netbufs. *)
Reads(c, s, i) == IF c[i].freed THEN s ELSE Append(s, c[i].seg)

LEMMA ContentRead ==
    ASSUME NEW c, InOrder(c), Len(c) \in {2, 3}
    PROVE  Content(c) = LET two == Reads(c, Reads(c, <<>>, 1), 2)
                        IN  IF Len(c) = 2 THEN two ELSE Reads(c, two, 3)
<1> DEFINE R(f) == [i \in 0 .. Len(c) |->
                      IF i = 0 THEN <<>>
                      ELSE IF c[i].freed THEN f[i - 1] ELSE Append(f[i - 1], c[i].seg)]
           one == Reads(c, <<>>, 1)
           two == Reads(c, one, 2)
           g == [i \in 0 .. Len(c) |-> CASE i = 0 -> <<>> [] i = 1 -> one [] i = 2 -> two
                                         [] OTHER -> Reads(c, two, 3)]
           read == CHOOSE f : f = R(f)
<1>1. g = R(g)
  <2>1. \A i \in 0 .. Len(c) : g[i] = CASE i = 0 -> <<>> [] i = 1 -> one [] i = 2 -> two
                                         [] OTHER -> Reads(c, two, 3)
    OBVIOUS
  <2>2. g[0] = <<>> /\ g[1] = one /\ g[2] = two
    <3> HIDE DEF g, one, two
    <3>1. 0 \in 0 .. Len(c) /\ 1 \in 0 .. Len(c) /\ 2 \in 0 .. Len(c)
      OBVIOUS
    <3> QED BY <2>1, <3>1
  <2>3. Len(c) = 3 => g[3] = Reads(c, two, 3)
    <3> HIDE DEF g, one, two
    <3>1. Len(c) = 3 => 3 \in 0 .. Len(c)
      OBVIOUS
    <3> QED BY <2>1, <3>1
  <2>4. ASSUME NEW i \in 0 .. Len(c)
        PROVE  g[i] = IF i = 0 THEN <<>> ELSE Reads(c, g[i - 1], i)
    <3> HIDE DEF g, one, two
    <3>0. i \in {0, 1, 2, 3} /\ (i = 3 => Len(c) = 3)
      <4>1. CASE Len(c) = 2
        BY <4>1
      <4>2. CASE Len(c) = 3
        BY <4>2
      <4> QED BY <4>1, <4>2
    <3>1. 1 - 1 = 0 /\ 2 - 1 = 1 /\ 3 - 1 = 2
      OBVIOUS
    <3>2. one = Reads(c, <<>>, 1) /\ two = Reads(c, one, 2)
      BY DEF one, two
    <3> QED BY <2>2, <2>3, <3>0, <3>1, <3>2
  <2>5. R(g) = [i \in 0 .. Len(c) |-> IF i = 0 THEN <<>> ELSE Reads(c, g[i - 1], i)]
    <3> HIDE DEF g
    <3> QED BY DEF Reads
  <2>6. g = [i \in 0 .. Len(c) |-> g[i]]
    <3> HIDE DEF one, two
    <3> QED OBVIOUS
  <2> HIDE DEF g, R
  <2> QED BY <2>4, <2>5, <2>6
<1>2. read = R(read)
  <2> HIDE DEF R, g
  <2> QED BY <1>1
<1>3. Content(c) = read[Len(c)]
  BY DEF Content
<1> HIDE DEF read
<1>4. \A i \in 0 .. Len(c) :
        read[i] = IF i = 0 THEN <<>> ELSE Reads(c, read[i - 1], i)
  BY <1>2 DEF Reads
<1>5. read[0] = <<>> /\ read[1] = Reads(c, read[0], 1) /\ read[2] = Reads(c, read[1], 2)
  <2>1. 0 \in 0 .. Len(c) /\ 1 \in 0 .. Len(c) /\ 2 \in 0 .. Len(c)
    OBVIOUS
  <2>2. 1 - 1 = 0 /\ 2 - 1 = 1
    OBVIOUS
  <2> QED BY <1>4, <2>1, <2>2
<1>6. Len(c) = 3 => read[3] = Reads(c, read[2], 3)
  <2>1. 3 - 1 = 2 /\ (Len(c) = 3 => 3 \in 0 .. Len(c))
    OBVIOUS
  <2> QED BY <1>4, <2>1
<1> QED BY <1>3, <1>5, <1>6

(* Append, one element at a time.                                           *)
LEMMA Tuples ==
    ASSUME NEW s \in Segments, NEW t \in Segments, NEW u \in Segments
    PROVE  /\ Append(<<>>, s) = <<s>> /\ Append(<<s>>, t) = <<s, t>>
           /\ Append(<<s, t>>, u) = <<s, t, u>>
<1>1. <<>> \in Seq(Segments) /\ <<s>> \in Seq(Segments) /\ <<s, t>> \in Seq(Segments)
      /\ <<s, t, u>> \in Seq(Segments)
  OBVIOUS
<1> HIDE DEF Segments
<1>2. Append(<<>>, s) = <<s>>
  BY <1>1, AppendProperties, SeqEqual
<1>3. Append(<<s>>, t) = <<s, t>>
  <2>1. Len(<<s>>) = 1 /\ Len(<<s, t>>) = 2
    OBVIOUS
  <2>2. Append(<<s>>, t) \in Seq(Segments) /\ Len(Append(<<s>>, t)) = 2
        /\ Append(<<s>>, t)[1] = s /\ Append(<<s>>, t)[2] = t
    BY <1>1, <2>1, AppendProperties
  <2>3. \A i \in 1 .. 2 : Append(<<s>>, t)[i] = <<s, t>>[i]
    BY <2>2
  <2> QED BY <1>1, <2>1, <2>2, <2>3, SeqEqual
<1>4. Append(<<s, t>>, u) = <<s, t, u>>
  <2>1. Len(<<s, t>>) = 2 /\ Len(<<s, t, u>>) = 3
    OBVIOUS
  <2>2. Append(<<s, t>>, u) \in Seq(Segments) /\ Len(Append(<<s, t>>, u)) = 3
        /\ Append(<<s, t>>, u)[1] = s /\ Append(<<s, t>>, u)[2] = t /\ Append(<<s, t>>, u)[3] = u
    BY <1>1, <2>1, AppendProperties
  <2>3. \A i \in 1 .. 3 : Append(<<s, t>>, u)[i] = <<s, t, u>>[i]
    BY <2>2
  <2> QED BY <1>1, <2>1, <2>2, <2>3, SeqEqual
<1> QED BY <1>2, <1>3, <1>4

(* What leaves is a frame. *)
LEMMA FramesSent ==
    ASSUME NEW c, InOrder(c),
           Two(c, "eth", "pdu") \/ Answer(c) \/ Three(c, "eth", "pci", "data")
    PROVE  Content(c) \in {<<"eth", "pci", "data">>, <<"eth", "arp">>, <<"eth", "pdu">>}
<1>1. Len(c) \in {2, 3} /\ c[1].seg = "eth" /\ ~c[1].freed
  BY DEF Two, Three, Answer, FreedTo
<1>2. Reads(c, <<>>, 1) = <<"eth">>
  BY <1>1, Tuples DEF Reads, Segments
<1>3. CASE Two(c, "eth", "pdu")
  <2>1. ~c[2].freed /\ c[2].seg = "pdu" /\ Len(c) = 2
    BY <1>3 DEF Two, FreedTo
  <2>2. Reads(c, <<"eth">>, 2) = <<"eth", "pdu">>
    BY <2>1, Tuples DEF Reads, Segments
  <2> QED BY <1>1, <1>2, <2>1, <2>2, ContentRead
<1>4. CASE Answer(c)
  <2>1. c[2].freed /\ ~c[3].freed /\ c[3].seg = "arp" /\ Len(c) = 3
    BY <1>4 DEF Answer
  <2>2. Reads(c, <<"eth">>, 2) = <<"eth">> /\ Reads(c, <<"eth">>, 3) = <<"eth", "arp">>
    BY <2>1, Tuples DEF Reads, Segments
  <2> QED BY <1>1, <1>2, <2>1, <2>2, ContentRead
<1>5. CASE Three(c, "eth", "pci", "data")
  <2>1. ~c[2].freed /\ c[2].seg = "pci" /\ ~c[3].freed /\ c[3].seg = "data" /\ Len(c) = 3
    BY <1>5 DEF Three, FreedTo
  <2>2. /\ Reads(c, <<"eth">>, 2) = <<"eth", "pci">>
        /\ Reads(c, <<"eth", "pci">>, 3) = <<"eth", "pci", "data">>
    BY <2>1, Tuples DEF Reads, Segments
  <2> QED BY <1>1, <1>2, <2>1, <2>2, ContentRead
<1> QED BY <1>3, <1>4, <1>5
-----------------------------------------------------------------------------
(* Places and what they have. *)
Has(p) == BufsOf(ChainAt(p))

PlaceFacts ==
    /\ \A p \in Places : \/ \E t \in Threads : p = <<t, 1>>
                         \/ \E i \in DOMAIN queue : p = <<"queue", i>>
                         \/ \E i \in DOMAIN waiting : p = <<"waiting", i>>
    /\ \A t \in Threads : <<t, 1>> \in Places /\ Has(<<t, 1>>) = BufsOf(chain[t])
    /\ \A i \in DOMAIN queue : /\ <<"queue", i>> \in Places
                               /\ Has(<<"queue", i>>) = BufsOf(queue[i].du)
    /\ \A i \in DOMAIN waiting : /\ <<"waiting", i>> \in Places
                                 /\ Has(<<"waiting", i>>) = BufsOf(waiting[i])

LEMMA PlaceKinds == PlaceFacts /\ PlaceFacts'
<1>1. "queue" \notin Threads /\ "waiting" \notin Threads
  BY DEF Threads
<1>2. \A p \in Places : \/ \E t \in Threads : p = <<t, 1>>
                        \/ \E i \in DOMAIN queue : p = <<"queue", i>>
                        \/ \E i \in DOMAIN waiting : p = <<"waiting", i>>
  BY DEF Places
<1>3. \A t \in Threads : <<t, 1>> \in Places /\ ChainAt(<<t, 1>>) = chain[t]
  BY <1>1 DEF Places, ChainAt
<1>4. \A i \in DOMAIN queue : <<"queue", i>> \in Places /\ ChainAt(<<"queue", i>>) = queue[i].du
  BY <1>1 DEF Places, ChainAt
<1>5. \A i \in DOMAIN waiting :
        <<"waiting", i>> \in Places /\ ChainAt(<<"waiting", i>>) = waiting[i]
  BY <1>1 DEF Places, ChainAt
<1>6. PlaceFacts
  BY <1>2, <1>3, <1>4, <1>5 DEF Has, PlaceFacts
<1> QED BY <1>6, PTL

(* Owned, said of what the places have.                                      *)
LEMMA OwnedHas ==
    /\ Owned <=> /\ \A p, q \in Places : p # q => Has(p) \cap Has(q) = {}
                 /\ \A p \in Places : Has(p) \subseteq allocated
                 /\ ~dropped => \A x \in allocated : \E p \in Places : x \in Has(p)
    /\ Owned' <=> /\ \A p, q \in Places' : p # q => Has(p)' \cap Has(q)' = {}
                  /\ \A p \in Places' : Has(p)' \subseteq allocated'
                  /\ ~dropped' => \A x \in allocated' : \E p \in Places' : x \in Has(p)'
<1>1. Owned <=> /\ \A p, q \in Places : p # q => Has(p) \cap Has(q) = {}
                /\ \A p \in Places : Has(p) \subseteq allocated
                /\ ~dropped => \A x \in allocated : \E p \in Places : x \in Has(p)
  BY DEF Owned, Apart, InUse, Has
<1>2. Owned' <=> /\ \A p, q \in Places' : p # q => Has(p)' \cap Has(q)' = {}
                 /\ \A p \in Places' : Has(p)' \subseteq allocated'
                 /\ ~dropped' => \A x \in allocated' : \E p \in Places' : x \in Has(p)'
  BY DEF Owned, Apart, InUse, Has
<1> QED BY <1>1, <1>2

(* A step that changes one chain in the hands of a thread. *)
LEMMA ChainStep ==
    ASSUME TypeOK, NEW t \in Threads, NEW d, chain' = [chain EXCEPT ![t] = d],
           UNCHANGED <<queue, waiting>>
    PROVE  /\ Places' = Places
           /\ Has(<<t, 1>>)' = BufsOf(d)
           /\ \A p \in Places : p # <<t, 1>> => Has(p)' = Has(p)
<1>1. Places' = Places
  BY DEF Places
<1>2. chain'[t] = d /\ \A u \in Threads : u # t => chain'[u] = chain[u]
  BY DEF TypeOK
<1>3. Has(<<t, 1>>)' = BufsOf(d)
  BY <1>2, PlaceKinds DEF PlaceFacts
<1>4. ASSUME NEW p \in Places, p # <<t, 1>> PROVE Has(p)' = Has(p)
  <2>1. CASE \E u \in Threads : p = <<u, 1>>
    <3>1. PICK u \in Threads : p = <<u, 1>>
      BY <2>1
    <3>2. u # t
      BY <1>4, <3>1
    <3> QED BY <1>2, <3>1, <3>2, PlaceKinds DEF PlaceFacts
  <2>2. CASE \E i \in DOMAIN queue : p = <<"queue", i>>
    BY <2>2, PlaceKinds DEF PlaceFacts
  <2>3. CASE \E i \in DOMAIN waiting : p = <<"waiting", i>>
    BY <2>3, PlaceKinds DEF PlaceFacts
  <2> QED BY <2>1, <2>2, <2>3, PlaceKinds DEF PlaceFacts
<1> QED BY <1>1, <1>3, <1>4

(* The chain keeps its buffers, or they are freed, or nobody has them any    *)
(* more, or it is given a new one.                                          *)
LEMMA OwnedChain ==
    ASSUME TypeOK, Owned, NEW t \in Threads, NEW d, chain' = [chain EXCEPT ![t] = d],
           UNCHANGED <<queue, waiting>>,
           \/ /\ BufsOf(d) = BufsOf(chain[t])
              /\ UNCHANGED <<allocated, dropped>>
           \/ /\ BufsOf(d) = {}
              /\ allocated' = allocated \ BufsOf(chain[t])
              /\ UNCHANGED dropped
           \/ /\ BufsOf(d) = {}
              /\ allocated \subseteq allocated' /\ dropped'
           \/ \E b : /\ b \notin allocated
                     /\ BufsOf(d) = BufsOf(chain[t]) \cup {b}
                     /\ allocated' = allocated \cup {b}
                     /\ UNCHANGED dropped
    PROVE  Owned'
<1> DEFINE h == <<t, 1>>
<1>1. /\ h \in Places /\ Has(h) = BufsOf(chain[t])
      /\ Places' = Places /\ Has(h)' = BufsOf(d)
      /\ \A p \in Places : p # h => Has(p)' = Has(p)
  BY ChainStep, PlaceKinds DEF PlaceFacts
<1>2. /\ \A p, q \in Places : p # q => Has(p) \cap Has(q) = {}
      /\ \A p \in Places : Has(p) \subseteq allocated
      /\ ~dropped => \A x \in allocated : \E p \in Places : x \in Has(p)
  BY OwnedHas
<1> HIDE DEF h
<1> SUFFICES /\ \A p, q \in Places : p # q => Has(p)' \cap Has(q)' = {}
             /\ \A p \in Places : Has(p)' \subseteq allocated'
             /\ ~dropped' => \A x \in allocated' : \E p \in Places : x \in Has(p)'
  BY <1>1, OwnedHas
<1>3. CASE BufsOf(d) = BufsOf(chain[t]) /\ UNCHANGED <<allocated, dropped>>
  <2>1. \A p \in Places : Has(p)' = Has(p)
    BY <1>1, <1>3
  <2> QED BY <1>2, <1>3, <2>1
<1>4. CASE BufsOf(d) = {} /\ allocated' = allocated \ BufsOf(chain[t]) /\ UNCHANGED dropped
  <2>1. \A p, q \in Places : p # q => Has(p)' \cap Has(q)' = {}
    BY <1>1, <1>2, <1>4
  <2>2. \A p \in Places : Has(p)' \subseteq allocated'
    BY <1>1, <1>2, <1>4
  <2>3. ~dropped' => \A x \in allocated' : \E p \in Places : x \in Has(p)'
    BY <1>1, <1>2, <1>4
  <2> QED BY <2>1, <2>2, <2>3
<1>5. CASE BufsOf(d) = {} /\ allocated \subseteq allocated' /\ dropped'
  <2>1. \A p, q \in Places : p # q => Has(p)' \cap Has(q)' = {}
    BY <1>1, <1>2, <1>5
  <2>2. \A p \in Places : Has(p)' \subseteq allocated'
    BY <1>1, <1>2, <1>5
  <2> QED BY <1>5, <2>1, <2>2
<1>6. ASSUME NEW b, b \notin allocated, BufsOf(d) = BufsOf(chain[t]) \cup {b},
             allocated' = allocated \cup {b}, UNCHANGED dropped
      PROVE  /\ \A p, q \in Places : p # q => Has(p)' \cap Has(q)' = {}
             /\ \A p \in Places : Has(p)' \subseteq allocated'
             /\ ~dropped' => \A x \in allocated' : \E p \in Places : x \in Has(p)'
  <2>0. \A p \in Places : b \notin Has(p)
    BY <1>2, <1>6
  <2>1. \A p, q \in Places : p # q => Has(p)' \cap Has(q)' = {}
    BY <1>1, <1>2, <1>6, <2>0
  <2>2. \A p \in Places : Has(p)' \subseteq allocated'
    BY <1>1, <1>2, <1>6
  <2>3. ~dropped' => \A x \in allocated' : \E p \in Places : x \in Has(p)'
    BY <1>1, <1>2, <1>6
  <2> QED BY <2>1, <2>2, <2>3
<1> QED BY <1>3, <1>4, <1>5, <1>6

(* A chain goes from one place to another; m tells where each one was.       *)
LEMMA OwnedMove ==
    ASSUME TypeOK, Owned, UNCHANGED <<allocated, dropped>>,
           NEW m \in [Places' -> Places],
           \A p \in Places' : Has(p)' = {} \/ Has(p)' = Has(m[p]),
           \A p, q \in Places' : p # q /\ m[p] = m[q] => Has(p)' = {} \/ Has(q)' = {},
           \A p \in Places : Has(p) = {} \/ \E q \in Places' : Has(q)' = Has(p)
    PROVE  Owned'
<1>1. /\ \A p, q \in Places : p # q => Has(p) \cap Has(q) = {}
      /\ \A p \in Places : Has(p) \subseteq allocated
      /\ ~dropped => \A x \in allocated : \E p \in Places : x \in Has(p)
  BY OwnedHas
<1>2. ASSUME NEW p \in Places', NEW q \in Places', p # q PROVE Has(p)' \cap Has(q)' = {}
  <2>1. CASE m[p] = m[q]
    BY <1>2, <2>1
  <2>2. CASE m[p] # m[q]
    BY <1>1, <1>2, <2>2
  <2> QED BY <2>1, <2>2
<1>3. \A p \in Places' : Has(p)' \subseteq allocated'
  BY <1>1
<1>4. ~dropped' => \A x \in allocated' : \E p \in Places' : x \in Has(p)'
  BY <1>1
<1> QED BY <1>2, <1>3, <1>4, OwnedHas

(* A thread hands its chain on, by the queue. *)
LEMMA OwnedQueuePut ==
    ASSUME TypeOK, Owned, NEW t \in Threads, chain' = [chain EXCEPT ![t] = <<>>],
           NEW y \in {"rx", "mgmt"}, queue' = Append(queue, [type |-> y, du |-> chain[t]]),
           UNCHANGED <<waiting, allocated, dropped>>
    PROVE  Owned'
<1>n. PICK n \in Nat : n = Len(queue)
  BY LenProperties DEF TypeOK
<1> DEFINE h == <<t, 1>>
           w == <<"queue", n + 1>>
           m == [p \in Places' |-> IF p = w THEN h ELSE p]
<1>0. /\ n \in Nat /\ DOMAIN queue = 1 .. n /\ DOMAIN queue' = 1 .. n + 1
      /\ \A i \in 1 .. n : queue'[i] = queue[i]
      /\ queue'[n + 1].du = chain[t]
  <2>1. queue \in Seq([type : {"rx", "mgmt"}, du : Seq(NetBufs)]) /\ [type |-> y, du |-> chain[t]] \in [type : {"rx", "mgmt"}, du : Seq(NetBufs)]
    BY DEF TypeOK
  <2> QED BY <1>n, <2>1, AppendProperties
<1>1. /\ h \in Places /\ h \in Places' /\ Has(h) = BufsOf(chain[t]) /\ Has(h)' = {}
  <2>1. BufsOf(<<>>) = {}
    BY DEF BufsOf
  <2>2. chain'[t] = <<>>
    BY DEF TypeOK
  <2> QED BY <2>1, <2>2, PlaceKinds DEF PlaceFacts
<1>2. /\ w \in Places' /\ w \notin Places /\ Has(w)' = Has(h)
  <2>1. n + 1 \in DOMAIN queue' /\ n + 1 \notin DOMAIN queue
    BY <1>0
  <2>2. w \in Places' /\ Has(w)' = BufsOf(queue'[n + 1].du)
    <3>1. \A i \in DOMAIN queue' : /\ <<"queue", i>> \in Places'
                                  /\ Has(<<"queue", i>>)' = BufsOf(queue'[i].du)
      BY PlaceKinds DEF PlaceFacts
    <3> QED BY <2>1, <3>1
  <2>3. w \notin Places
    BY <2>1 DEF Places, Threads
  <2> QED BY <1>0, <1>1, <2>2, <2>3
<1>3. ASSUME NEW p, p # h, p # w
      PROVE  /\ p \in Places <=> p \in Places'
             /\ p \in Places => Has(p)' = Has(p)
  <2>1. CASE \E u \in Threads : p = <<u, 1>>
    <3>1. PICK u \in Threads : p = <<u, 1>>
      BY <2>1
    <3>2. u # t /\ chain'[u] = chain[u]
      BY <1>3, <3>1 DEF TypeOK
    <3> QED BY <3>1, <3>2, PlaceKinds DEF PlaceFacts
  <2>2. ASSUME NEW i \in DOMAIN queue', p = <<"queue", i>>
        PROVE  p \in Places /\ p \in Places' /\ Has(p)' = Has(p)
    <3>1. i # n + 1
      BY <1>3, <2>2
    <3>2. i \in DOMAIN queue /\ queue'[i] = queue[i]
      BY <1>0, <3>1
    <3> QED BY <2>2, <3>2, PlaceKinds DEF PlaceFacts
  <2>3. CASE \E i \in DOMAIN waiting : p = <<"waiting", i>>
    BY <2>3, PlaceKinds DEF PlaceFacts
  <2>4. \A i \in DOMAIN queue : i \in DOMAIN queue'
    BY <1>0
  <2> QED BY <2>1, <2>2, <2>3, <2>4, PlaceKinds DEF PlaceFacts
<1> HIDE DEF h, w
<1>4. m \in [Places' -> Places]
  BY <1>1, <1>3
<1>5. \A p \in Places' : m[p] = IF p = w THEN h ELSE p
  OBVIOUS
<1> HIDE DEF m
<1>6. \A p \in Places' : Has(p)' = {} \/ Has(p)' = Has(m[p])
  <2>1. ASSUME NEW p \in Places', p # h, p # w PROVE Has(p)' = Has(m[p])
    BY <1>3, <1>5, <2>1
  <2>2. Has(w)' = Has(m[w])
    BY <1>2, <1>5
  <2> QED BY <1>1, <2>1, <2>2
<1>7. \A p, q \in Places' : p # q /\ m[p] = m[q] => Has(p)' = {} \/ Has(q)' = {}
  BY <1>1, <1>5
<1>8. \A p \in Places : Has(p) = {} \/ \E q \in Places' : Has(q)' = Has(p)
  <2>1. ASSUME NEW p \in Places, p # h PROVE p \in Places' /\ Has(p)' = Has(p)
    BY <1>2, <1>3, <2>1
  <2> QED BY <1>2, <2>1
<1> QED BY <1>4, <1>6, <1>7, <1>8, OwnedMove

(* A thread takes the chain at the head of the queue. *)
LEMMA OwnedQueueGet ==
    ASSUME TypeOK, Owned, NEW t \in Threads, chain[t] = <<>>, queue # <<>>,
           chain' = [chain EXCEPT ![t] = Head(queue).du],
           queue' = Tail(queue),
           UNCHANGED <<waiting, allocated, dropped>>
    PROVE  Owned'
<1> DEFINE n == Len(queue)
           h == <<t, 1>>
           w == <<"queue", 1>>
           m == [p \in Places' |-> IF p = h THEN w
                                   ELSE IF p[1] = "queue" THEN <<"queue", p[2] + 1>> ELSE p]
<1>0. /\ n \in Nat \ {0} /\ DOMAIN queue = 1 .. n /\ DOMAIN queue' = 1 .. n - 1
      /\ \A i \in 1 .. n - 1 : queue'[i] = queue[i + 1]
      /\ Head(queue) = queue[1]
  <2>1. queue \in Seq([type : {"rx", "mgmt"}, du : Seq(NetBufs)])
    BY DEF TypeOK
  <2> QED BY <2>1, HeadTailProperties, EmptySeq
<1>1. /\ h \in Places /\ h \in Places' /\ Has(h) = {}
      /\ w \in Places /\ Has(h)' = Has(w)
  <2>1. BufsOf(<<>>) = {}
    BY DEF BufsOf
  <2>2. chain'[t] = queue[1].du /\ 1 \in DOMAIN queue
    BY <1>0 DEF TypeOK
  <2> QED BY <2>1, <2>2, PlaceKinds DEF PlaceFacts
<1>2. ASSUME NEW i \in 1 .. n - 1
      PROVE  /\ <<"queue", i>> \in Places' /\ <<"queue", i + 1>> \in Places
             /\ Has(<<"queue", i>>)' = Has(<<"queue", i + 1>>)
  <2>1. i \in DOMAIN queue' /\ i + 1 \in DOMAIN queue /\ queue'[i] = queue[i + 1]
    BY <1>0
  <2> QED BY <2>1, PlaceKinds DEF PlaceFacts
<1>3. ASSUME NEW p, p # h, \/ \E u \in Threads : p = <<u, 1>>
                           \/ \E i \in DOMAIN waiting : p = <<"waiting", i>>
      PROVE  p \in Places /\ p \in Places' /\ Has(p)' = Has(p) /\ p[1] # "queue"
  <2>1. CASE \E u \in Threads : p = <<u, 1>>
    <3>1. PICK u \in Threads : p = <<u, 1>>
      BY <2>1
    <3>2. u # t /\ chain'[u] = chain[u]
      BY <1>3, <3>1 DEF TypeOK
    <3>3. p[1] # "queue"
      BY <3>1 DEF Threads
    <3> QED BY <3>1, <3>2, <3>3, PlaceKinds DEF PlaceFacts
  <2>2. CASE \E i \in DOMAIN waiting : p = <<"waiting", i>>
    <3>1. PICK i \in DOMAIN waiting : p = <<"waiting", i>>
      BY <2>2
    <3>2. p[1] # "queue"
      BY <3>1
    <3> QED BY <3>1, <3>2, PlaceKinds DEF PlaceFacts
  <2> QED BY <1>3, <2>1, <2>2
<1>4. ASSUME NEW p \in Places', p # h
      PROVE  \/ \E i \in 1 .. n - 1 : p = <<"queue", i>> /\ m[p] = <<"queue", i + 1>>
             \/ p[1] # "queue" /\ m[p] = p /\ p \in Places /\ Has(p)' = Has(p)
  <2>1. CASE \E i \in DOMAIN queue' : p = <<"queue", i>>
    BY <1>0, <1>4, <2>1
  <2>2. CASE \/ \E u \in Threads : p = <<u, 1>>
             \/ \E i \in DOMAIN waiting : p = <<"waiting", i>>
    BY <1>3, <1>4, <2>2
  <2> QED BY <2>1, <2>2, PlaceKinds DEF PlaceFacts
<1>5. m[h] = w /\ w = <<"queue", 1>> /\ h[1] # "queue" /\ w[1] = "queue"
  <2>1. t # "queue"
    BY DEF Threads
  <2> QED BY <1>1, <2>1
<1>6. \A p \in Places' : m[p] \in Places /\ Has(p)' = Has(m[p])
  <2> HIDE DEF m, h, w
  <2> QED BY <1>1, <1>2, <1>4, <1>5
<1>7. m \in [Places' -> Places]
  BY <1>6
<1>8. \A p, q \in Places' : p # q => m[p] # m[q]
  <2>1. ASSUME NEW p \in Places', NEW q \in Places', p # q, p # h, q # h
        PROVE  m[p] # m[q]
    <3>1. CASE \E i \in 1 .. n - 1 : p = <<"queue", i>> /\ m[p] = <<"queue", i + 1>>
      <4>1. PICK i \in 1 .. n - 1 : p = <<"queue", i>> /\ m[p] = <<"queue", i + 1>>
        BY <3>1
      <4>2. CASE \E j \in 1 .. n - 1 : q = <<"queue", j>> /\ m[q] = <<"queue", j + 1>>
        <5>1. PICK j \in 1 .. n - 1 : q = <<"queue", j>> /\ m[q] = <<"queue", j + 1>>
          BY <4>2
        <5>2. i + 1 # j + 1
          BY <2>1, <4>1, <5>1
        <5> HIDE DEF m
        <5> QED BY <4>1, <5>1, <5>2
      <4>3. CASE q[1] # "queue" /\ m[q] = q
        <5> HIDE DEF m
        <5> QED BY <4>1, <4>3
      <4> QED BY <1>4, <2>1, <4>2, <4>3
    <3>2. CASE p[1] # "queue" /\ m[p] = p
      <4>1. CASE \E j \in 1 .. n - 1 : q = <<"queue", j>> /\ m[q] = <<"queue", j + 1>>
        <5>1. PICK j \in 1 .. n - 1 : q = <<"queue", j>> /\ m[q] = <<"queue", j + 1>>
          BY <4>1
        <5> HIDE DEF m
        <5> QED BY <3>2, <5>1
      <4>2. CASE m[q] = q
        BY <2>1, <3>2, <4>2
      <4> QED BY <1>4, <2>1, <4>1, <4>2
    <3> QED BY <1>4, <2>1, <3>1, <3>2
  <2>2. ASSUME NEW p \in Places', p # h PROVE m[p] # w
    <3>1. CASE \E i \in 1 .. n - 1 : m[p] = <<"queue", i + 1>>
      <4>1. PICK i \in 1 .. n - 1 : m[p] = <<"queue", i + 1>>
        BY <3>1
      <4>2. i + 1 # 1
        OBVIOUS
      <4> HIDE DEF m
      <4> QED BY <4>1, <4>2
    <3>2. CASE p[1] # "queue" /\ m[p] = p
      <4> HIDE DEF m, w
      <4> QED BY <1>5, <3>2
    <3> QED BY <1>4, <2>2, <3>1, <3>2
  <2> HIDE DEF m, h, w
  <2> QED BY <1>5, <2>1, <2>2
<1>9. \A p \in Places : Has(p) = {} \/ \E q \in Places' : Has(q)' = Has(p)
  <2>1. ASSUME NEW i \in DOMAIN queue PROVE \E q \in Places' : Has(q)' = Has(<<"queue", i>>)
    <3>1. CASE i = 1
      BY <1>1, <3>1
    <3>2. CASE i # 1
      <4>1. i - 1 \in 1 .. n - 1 /\ (i - 1) + 1 = i
        BY <1>0, <3>2
      <4> QED BY <1>2, <4>1
    <3> QED BY <3>1, <3>2
  <2>2. ASSUME NEW p \in Places, \/ \E u \in Threads : p = <<u, 1>>
                                 \/ \E i \in DOMAIN waiting : p = <<"waiting", i>>
        PROVE  Has(p) = {} \/ \E q \in Places' : Has(q)' = Has(p)
    <3> HIDE DEF h
    <3> QED BY <1>1, <1>3, <2>2
  <2> QED BY <2>1, <2>2, PlaceKinds DEF PlaceFacts
<1> HIDE DEF m
<1> QED BY <1>6, <1>7, <1>8, <1>9, OwnedMove

(* A thread hands its chain on, by the waiting. *)
LEMMA OwnedWaitingPut ==
    ASSUME TypeOK, Owned, NEW t \in Threads, chain' = [chain EXCEPT ![t] = <<>>],
           waiting' = Append(waiting, chain[t]),
           UNCHANGED <<queue, allocated, dropped>>
    PROVE  Owned'
<1>n. PICK n \in Nat : n = Len(waiting)
  BY LenProperties DEF TypeOK
<1> DEFINE h == <<t, 1>>
           w == <<"waiting", n + 1>>
           m == [p \in Places' |-> IF p = w THEN h ELSE p]
<1>0. /\ n \in Nat /\ DOMAIN waiting = 1 .. n /\ DOMAIN waiting' = 1 .. n + 1
      /\ \A i \in 1 .. n : waiting'[i] = waiting[i]
      /\ waiting'[n + 1] = chain[t]
  <2>1. waiting \in Seq(Seq(NetBufs)) /\ chain[t] \in Seq(NetBufs)
    BY DEF TypeOK
  <2> QED BY <1>n, <2>1, AppendProperties
<1>1. /\ h \in Places /\ h \in Places' /\ Has(h) = BufsOf(chain[t]) /\ Has(h)' = {}
  <2>1. BufsOf(<<>>) = {}
    BY DEF BufsOf
  <2>2. chain'[t] = <<>>
    BY DEF TypeOK
  <2> QED BY <2>1, <2>2, PlaceKinds DEF PlaceFacts
<1>2. /\ w \in Places' /\ w \notin Places /\ Has(w)' = Has(h)
  <2>1. n + 1 \in DOMAIN waiting' /\ n + 1 \notin DOMAIN waiting
    BY <1>0
  <2>2. w \in Places' /\ Has(w)' = BufsOf(waiting'[n + 1])
    <3>1. \A i \in DOMAIN waiting' : /\ <<"waiting", i>> \in Places'
                                  /\ Has(<<"waiting", i>>)' = BufsOf(waiting'[i])
      BY PlaceKinds DEF PlaceFacts
    <3> QED BY <2>1, <3>1
  <2>3. w \notin Places
    BY <2>1 DEF Places, Threads
  <2> QED BY <1>0, <1>1, <2>2, <2>3
<1>3. ASSUME NEW p, p # h, p # w
      PROVE  /\ p \in Places <=> p \in Places'
             /\ p \in Places => Has(p)' = Has(p)
  <2>1. CASE \E u \in Threads : p = <<u, 1>>
    <3>1. PICK u \in Threads : p = <<u, 1>>
      BY <2>1
    <3>2. u # t /\ chain'[u] = chain[u]
      BY <1>3, <3>1 DEF TypeOK
    <3> QED BY <3>1, <3>2, PlaceKinds DEF PlaceFacts
  <2>2. ASSUME NEW i \in DOMAIN waiting', p = <<"waiting", i>>
        PROVE  p \in Places /\ p \in Places' /\ Has(p)' = Has(p)
    <3>1. i # n + 1
      BY <1>3, <2>2
    <3>2. i \in DOMAIN waiting /\ waiting'[i] = waiting[i]
      BY <1>0, <3>1
    <3> QED BY <2>2, <3>2, PlaceKinds DEF PlaceFacts
  <2>3. CASE \E i \in DOMAIN queue : p = <<"queue", i>>
    BY <2>3, PlaceKinds DEF PlaceFacts
  <2>4. \A i \in DOMAIN waiting : i \in DOMAIN waiting'
    BY <1>0
  <2> QED BY <2>1, <2>2, <2>3, <2>4, PlaceKinds DEF PlaceFacts
<1> HIDE DEF h, w
<1>4. m \in [Places' -> Places]
  BY <1>1, <1>3
<1>5. \A p \in Places' : m[p] = IF p = w THEN h ELSE p
  OBVIOUS
<1> HIDE DEF m
<1>6. \A p \in Places' : Has(p)' = {} \/ Has(p)' = Has(m[p])
  <2>1. ASSUME NEW p \in Places', p # h, p # w PROVE Has(p)' = Has(m[p])
    BY <1>3, <1>5, <2>1
  <2>2. Has(w)' = Has(m[w])
    BY <1>2, <1>5
  <2> QED BY <1>1, <2>1, <2>2
<1>7. \A p, q \in Places' : p # q /\ m[p] = m[q] => Has(p)' = {} \/ Has(q)' = {}
  BY <1>1, <1>5
<1>8. \A p \in Places : Has(p) = {} \/ \E q \in Places' : Has(q)' = Has(p)
  <2>1. ASSUME NEW p \in Places, p # h PROVE p \in Places' /\ Has(p)' = Has(p)
    BY <1>2, <1>3, <2>1
  <2> QED BY <1>2, <2>1
<1> QED BY <1>4, <1>6, <1>7, <1>8, OwnedMove

(* A thread takes the chain at the head of the waiting. *)
LEMMA OwnedWaitingGet ==
    ASSUME TypeOK, Owned, NEW t \in Threads, chain[t] = <<>>, waiting # <<>>,
           chain' = [chain EXCEPT ![t] = Head(waiting)],
           waiting' = Tail(waiting),
           UNCHANGED <<queue, allocated, dropped>>
    PROVE  Owned'
<1> DEFINE n == Len(waiting)
           h == <<t, 1>>
           w == <<"waiting", 1>>
           m == [p \in Places' |-> IF p = h THEN w
                                   ELSE IF p[1] = "waiting" THEN <<"waiting", p[2] + 1>> ELSE p]
<1>0. /\ n \in Nat \ {0} /\ DOMAIN waiting = 1 .. n /\ DOMAIN waiting' = 1 .. n - 1
      /\ \A i \in 1 .. n - 1 : waiting'[i] = waiting[i + 1]
      /\ Head(waiting) = waiting[1]
  <2>1. waiting \in Seq(Seq(NetBufs))
    BY DEF TypeOK
  <2> QED BY <2>1, HeadTailProperties, EmptySeq
<1>1. /\ h \in Places /\ h \in Places' /\ Has(h) = {}
      /\ w \in Places /\ Has(h)' = Has(w)
  <2>1. BufsOf(<<>>) = {}
    BY DEF BufsOf
  <2>2. chain'[t] = waiting[1] /\ 1 \in DOMAIN waiting
    BY <1>0 DEF TypeOK
  <2> QED BY <2>1, <2>2, PlaceKinds DEF PlaceFacts
<1>2. ASSUME NEW i \in 1 .. n - 1
      PROVE  /\ <<"waiting", i>> \in Places' /\ <<"waiting", i + 1>> \in Places
             /\ Has(<<"waiting", i>>)' = Has(<<"waiting", i + 1>>)
  <2>1. i \in DOMAIN waiting' /\ i + 1 \in DOMAIN waiting /\ waiting'[i] = waiting[i + 1]
    BY <1>0
  <2> QED BY <2>1, PlaceKinds DEF PlaceFacts
<1>3. ASSUME NEW p, p # h, \/ \E u \in Threads : p = <<u, 1>>
                           \/ \E i \in DOMAIN queue : p = <<"queue", i>>
      PROVE  p \in Places /\ p \in Places' /\ Has(p)' = Has(p) /\ p[1] # "waiting"
  <2>1. CASE \E u \in Threads : p = <<u, 1>>
    <3>1. PICK u \in Threads : p = <<u, 1>>
      BY <2>1
    <3>2. u # t /\ chain'[u] = chain[u]
      BY <1>3, <3>1 DEF TypeOK
    <3>3. p[1] # "waiting"
      BY <3>1 DEF Threads
    <3> QED BY <3>1, <3>2, <3>3, PlaceKinds DEF PlaceFacts
  <2>2. CASE \E i \in DOMAIN queue : p = <<"queue", i>>
    <3>1. PICK i \in DOMAIN queue : p = <<"queue", i>>
      BY <2>2
    <3>2. p[1] # "waiting"
      BY <3>1
    <3> QED BY <3>1, <3>2, PlaceKinds DEF PlaceFacts
  <2> QED BY <1>3, <2>1, <2>2
<1>4. ASSUME NEW p \in Places', p # h
      PROVE  \/ \E i \in 1 .. n - 1 : p = <<"waiting", i>> /\ m[p] = <<"waiting", i + 1>>
             \/ p[1] # "waiting" /\ m[p] = p /\ p \in Places /\ Has(p)' = Has(p)
  <2>1. CASE \E i \in DOMAIN waiting' : p = <<"waiting", i>>
    BY <1>0, <1>4, <2>1
  <2>2. CASE \/ \E u \in Threads : p = <<u, 1>>
             \/ \E i \in DOMAIN queue : p = <<"queue", i>>
    BY <1>3, <1>4, <2>2
  <2> QED BY <2>1, <2>2, PlaceKinds DEF PlaceFacts
<1>5. m[h] = w /\ w = <<"waiting", 1>> /\ h[1] # "waiting" /\ w[1] = "waiting"
  <2>1. t # "waiting"
    BY DEF Threads
  <2> QED BY <1>1, <2>1
<1>6. \A p \in Places' : m[p] \in Places /\ Has(p)' = Has(m[p])
  <2> HIDE DEF m, h, w
  <2> QED BY <1>1, <1>2, <1>4, <1>5
<1>7. m \in [Places' -> Places]
  BY <1>6
<1>8. \A p, q \in Places' : p # q => m[p] # m[q]
  <2>1. ASSUME NEW p \in Places', NEW q \in Places', p # q, p # h, q # h
        PROVE  m[p] # m[q]
    <3>1. CASE \E i \in 1 .. n - 1 : p = <<"waiting", i>> /\ m[p] = <<"waiting", i + 1>>
      <4>1. PICK i \in 1 .. n - 1 : p = <<"waiting", i>> /\ m[p] = <<"waiting", i + 1>>
        BY <3>1
      <4>2. CASE \E j \in 1 .. n - 1 : q = <<"waiting", j>> /\ m[q] = <<"waiting", j + 1>>
        <5>1. PICK j \in 1 .. n - 1 : q = <<"waiting", j>> /\ m[q] = <<"waiting", j + 1>>
          BY <4>2
        <5>2. i + 1 # j + 1
          BY <2>1, <4>1, <5>1
        <5> HIDE DEF m
        <5> QED BY <4>1, <5>1, <5>2
      <4>3. CASE q[1] # "waiting" /\ m[q] = q
        <5> HIDE DEF m
        <5> QED BY <4>1, <4>3
      <4> QED BY <1>4, <2>1, <4>2, <4>3
    <3>2. CASE p[1] # "waiting" /\ m[p] = p
      <4>1. CASE \E j \in 1 .. n - 1 : q = <<"waiting", j>> /\ m[q] = <<"waiting", j + 1>>
        <5>1. PICK j \in 1 .. n - 1 : q = <<"waiting", j>> /\ m[q] = <<"waiting", j + 1>>
          BY <4>1
        <5> HIDE DEF m
        <5> QED BY <3>2, <5>1
      <4>2. CASE m[q] = q
        BY <2>1, <3>2, <4>2
      <4> QED BY <1>4, <2>1, <4>1, <4>2
    <3> QED BY <1>4, <2>1, <3>1, <3>2
  <2>2. ASSUME NEW p \in Places', p # h PROVE m[p] # w
    <3>1. CASE \E i \in 1 .. n - 1 : m[p] = <<"waiting", i + 1>>
      <4>1. PICK i \in 1 .. n - 1 : m[p] = <<"waiting", i + 1>>
        BY <3>1
      <4>2. i + 1 # 1
        OBVIOUS
      <4> HIDE DEF m
      <4> QED BY <4>1, <4>2
    <3>2. CASE p[1] # "waiting" /\ m[p] = p
      <4> HIDE DEF m, w
      <4> QED BY <1>5, <3>2
    <3> QED BY <1>4, <2>2, <3>1, <3>2
  <2> HIDE DEF m, h, w
  <2> QED BY <1>5, <2>1, <2>2
<1>9. \A p \in Places : Has(p) = {} \/ \E q \in Places' : Has(q)' = Has(p)
  <2>1. ASSUME NEW i \in DOMAIN waiting PROVE \E q \in Places' : Has(q)' = Has(<<"waiting", i>>)
    <3>1. CASE i = 1
      BY <1>1, <3>1
    <3>2. CASE i # 1
      <4>1. i - 1 \in 1 .. n - 1 /\ (i - 1) + 1 = i
        BY <1>0, <3>2
      <4> QED BY <1>2, <4>1
    <3> QED BY <3>1, <3>2
  <2>2. ASSUME NEW p \in Places, \/ \E u \in Threads : p = <<u, 1>>
                                 \/ \E i \in DOMAIN queue : p = <<"queue", i>>
        PROVE  Has(p) = {} \/ \E q \in Places' : Has(q)' = Has(p)
    <3> HIDE DEF h
    <3> QED BY <1>1, <1>3, <2>2
  <2> QED BY <2>1, <2>2, PlaceKinds DEF PlaceFacts
<1> HIDE DEF m
<1> QED BY <1>6, <1>7, <1>8, <1>9, OwnedMove

(* A new buffer goes into the queue at once. *)
LEMMA OwnedNewEvent ==
    ASSUME TypeOK, Owned, NEW b \in Bufs \ allocated, NEW d \in Seq(NetBufs), BufsOf(d) = {b},
           queue' = Append(queue, [type |-> "mgmt", du |-> d]),
           allocated' = allocated \cup {b},
           UNCHANGED <<chain, waiting, dropped>>
    PROVE  Owned'
<1>n. PICK n \in Nat : n = Len(queue)
  BY LenProperties DEF TypeOK
<1> DEFINE w == <<"queue", n + 1>>
<1>1. /\ DOMAIN queue = 1 .. n /\ DOMAIN queue' = 1 .. n + 1
      /\ \A i \in 1 .. n : queue'[i] = queue[i]
      /\ queue'[n + 1].du = d
  <2>1. /\ queue \in Seq([type : {"rx", "mgmt"}, du : Seq(NetBufs)])
        /\ [type |-> "mgmt", du |-> d] \in [type : {"rx", "mgmt"}, du : Seq(NetBufs)]
    BY DEF TypeOK
  <2> QED BY <1>n, <2>1, AppendProperties
<1>2. w \in Places' /\ Has(w)' = {b}
  <2>1. n + 1 \in DOMAIN queue'
    BY <1>1
  <2> QED BY <1>1, <2>1, PlaceKinds DEF PlaceFacts
<1>3. ASSUME NEW p, p # w
      PROVE  (p \in Places <=> p \in Places') /\ (p \in Places => Has(p)' = Has(p))
  <2>1. CASE \E u \in Threads : p = <<u, 1>>
    BY <2>1, PlaceKinds DEF PlaceFacts
  <2>2. ASSUME NEW i \in DOMAIN queue', p = <<"queue", i>>
        PROVE  p \in Places /\ p \in Places' /\ Has(p)' = Has(p)
    <3>1. i # n + 1
      BY <1>3, <2>2
    <3>2. i \in DOMAIN queue /\ queue'[i] = queue[i]
      BY <1>1, <3>1
    <3> QED BY <2>2, <3>2, PlaceKinds DEF PlaceFacts
  <2>3. CASE \E i \in DOMAIN waiting : p = <<"waiting", i>>
    BY <2>3, PlaceKinds DEF PlaceFacts
  <2>4. \A i \in DOMAIN queue : i \in DOMAIN queue'
    BY <1>1
  <2> QED BY <2>1, <2>2, <2>3, <2>4, PlaceKinds DEF PlaceFacts
<1>4. w \notin Places
  <2>1. n + 1 \notin DOMAIN queue
    BY <1>1
  <2> QED BY <2>1 DEF Places, Threads
<1> HIDE DEF w
<1>5. /\ \A p, q \in Places : p # q => Has(p) \cap Has(q) = {}
      /\ \A p \in Places : Has(p) \subseteq allocated
      /\ ~dropped => \A x \in allocated : \E p \in Places : x \in Has(p)
  BY OwnedHas
<1>6. ASSUME NEW p \in Places', NEW q \in Places', p # q PROVE Has(p)' \cap Has(q)' = {}
  <2>1. CASE p # w /\ q # w
    BY <1>3, <1>5, <1>6, <2>1
  <2>2. CASE p = w
    BY <1>2, <1>3, <1>5, <1>6, <2>2
  <2>3. CASE q = w
    BY <1>2, <1>3, <1>5, <1>6, <2>3
  <2> QED BY <2>1, <2>2, <2>3
<1>7. ASSUME NEW p \in Places' PROVE Has(p)' \subseteq allocated'
  BY <1>2, <1>3, <1>5
<1>8. ~dropped' => \A x \in allocated' : \E p \in Places' : x \in Has(p)'
  <2>1. \A p \in Places : p \in Places' /\ Has(p)' = Has(p)
    BY <1>3, <1>4
  <2> QED BY <1>2, <1>5, <2>1
<1> QED BY <1>6, <1>7, <1>8, OwnedHas
-----------------------------------------------------------------------------
(* A thread goes on with a chain of the shape that belongs to its label. *)
LEMMA ThreadStep ==
    ASSUME TypeOK, Shapes, NEW t \in Threads, NEW d, NEW label \in Labels, NEW n \in Nat \ {0},
           InOrder(d), Shape(label, d, n),
           Goto(t, label), Holds(t, d), next' = [next EXCEPT ![t] = n]
    PROVE  /\ pc' \in [Threads -> Labels]
           /\ chain' \in [Threads -> Seq(NetBufs)]
           /\ next' \in [Threads -> Nat \ {0}]
           /\ \A u \in Threads : InOrder(chain'[u]) /\ Shape(pc'[u], chain'[u], next'[u])
<1>1. d \in Seq(NetBufs)
  BY DEF InOrder
<1>2. /\ pc' \in [Threads -> Labels] /\ chain' \in [Threads -> Seq(NetBufs)]
      /\ next' \in [Threads -> Nat \ {0}]
      /\ pc'[t] = label /\ chain'[t] = d /\ next'[t] = n
  BY <1>1 DEF TypeOK, Goto, Holds
<1>3. \A u \in Threads : u # t => pc'[u] = pc[u] /\ chain'[u] = chain[u] /\ next'[u] = next[u]
  BY DEF TypeOK, Goto, Holds
<1>4. ASSUME NEW u \in Threads
      PROVE  InOrder(chain'[u]) /\ Shape(pc'[u], chain'[u], next'[u])
  BY <1>2, <1>3 DEF Shapes
<1> QED BY <1>2, <1>4

(* The actions of one thread on its own chain. *)
LEMMA ChainOnly ==
    ASSUME PduInv, program = "runs", UNCHANGED <<program, queue, waiting, ribTimeout>>,
           NEW t \in Threads, NEW d, NEW label \in Labels, NEW n \in Nat \ {0},
           InOrder(d), Shape(label, d, n),
           Goto(t, label), Holds(t, d), next' = [next EXCEPT ![t] = n],
           dropped' \in BOOLEAN, allocated' \subseteq Bufs, FramesComplete',
           \/ /\ BufsOf(d) = BufsOf(chain[t])
              /\ UNCHANGED <<allocated, dropped>>
           \/ /\ BufsOf(d) = {}
              /\ allocated' = allocated \ BufsOf(chain[t])
              /\ UNCHANGED dropped
           \/ /\ BufsOf(d) = {}
              /\ allocated \subseteq allocated' /\ dropped'
           \/ \E b : /\ b \notin allocated
                     /\ BufsOf(d) = BufsOf(chain[t]) \cup {b}
                     /\ allocated' = allocated \cup {b}
                     /\ UNCHANGED dropped
    PROVE  PduInv'
<1>1. TypeOK /\ Shapes /\ Owned
  BY DEF PduInv
<1>2. /\ pc' \in [Threads -> Labels] /\ chain' \in [Threads -> Seq(NetBufs)]
      /\ next' \in [Threads -> Nat \ {0}]
      /\ \A u \in Threads : InOrder(chain'[u]) /\ Shape(pc'[u], chain'[u], next'[u])
  BY <1>1, ThreadStep
<1>3. TypeOK'
  BY <1>1, <1>2 DEF TypeOK
<1>4. Shapes'
  BY <1>1, <1>2 DEF Shapes
<1>5. Owned'
  BY <1>1, OwnedChain DEF Holds
<1> QED BY <1>3, <1>4, <1>5 DEF PduInv

(* What the label of a thread says of its chain. *)
LEMMA ChainKnown ==
    ASSUME PduInv, NEW t \in Threads, NEW label, At(t, label)
    PROVE  /\ program = "runs" /\ TypeOK /\ Shapes /\ Owned
           /\ pc[t] = label /\ InOrder(chain[t]) /\ Shape(label, chain[t], next[t])
           /\ label # "free_all" => next = [next EXCEPT ![t] = 1]
           /\ BufsOf(chain[t]) \subseteq allocated
<1>1. program = "runs" /\ TypeOK /\ Shapes /\ Owned /\ pc[t] = label
  BY DEF At, PduInv
<1>2. InOrder(chain[t]) /\ Shape(label, chain[t], next[t])
  BY <1>1 DEF Shapes
<1>3. label # "free_all" => next = [next EXCEPT ![t] = 1]
  <2>1. ASSUME label # "free_all" PROVE next[t] = 1
    BY <1>2, <2>1 DEF Shape
  <2> QED BY <1>1, <2>1 DEF TypeOK
<1>4. BufsOf(chain[t]) \subseteq allocated
  <2>1. <<t, 1>> \in Places /\ Has(<<t, 1>>) = BufsOf(chain[t])
    BY PlaceKinds DEF PlaceFacts
  <2>2. \A p \in Places : Has(p) \subseteq allocated
    BY <1>1, OwnedHas
  <2> QED BY <2>1, <2>2
<1> QED BY <1>1, <1>2, <1>3, <1>4

(* A netbuf is freed that is not the last live one. *)
LEMMA FreesOne ==
    ASSUME NEW t \in Threads, InOrder(chain[t]), BufsOf(chain[t]) \subseteq allocated,
           NEW i \in 1 .. Len(chain[t]), NEW label, vNetBufFree(t, i, label),
           NEW j \in 1 .. Len(chain[t]), j # i, ~chain[t][j].freed
    PROVE  /\ Goto(t, label) /\ Holds(t, Mark(chain[t], i))
           /\ UNCHANGED <<allocated, program>>
<1>1. ~AllFreed(Mark(chain[t], i))
  BY MarkChain, FreedOnce
<1> QED BY <1>1 DEF vNetBufFree

(* The last live netbuf is freed, and the memory of the chain. *)
LEMMA FreesLast ==
    ASSUME NEW t \in Threads, InOrder(chain[t]), BufsOf(chain[t]) \subseteq allocated,
           NEW i \in 1 .. Len(chain[t]), NEW label, vNetBufFree(t, i, label),
           \A j \in 1 .. Len(chain[t]) : j # i => chain[t][j].freed
    PROVE  /\ Goto(t, label) /\ Holds(t, <<>>)
           /\ allocated' = allocated \ BufsOf(chain[t])
           /\ UNCHANGED program
<1> DEFINE c == Mark(chain[t], i)
<1>1. InOrder(c) /\ BufsOf(c) = BufsOf(chain[t]) /\ Len(c) = Len(chain[t])
  BY MarkChain
<1>2. \A j \in 1 .. Len(chain[t]) : c[j].freed
  BY MarkChain
<1>3. AllFreed(c) /\ ~Repeated(c)
  <2> HIDE DEF c
  <2> QED BY <1>1, <1>2, FreedOnce
<1> QED BY <1>1, <1>3 DEF vNetBufFree

(* A thread without a chain has the empty one.                               *)
LEMMA EmptyChain == InOrder(<<>>) /\ BufsOf(<<>>) = {} /\ Shape("idle", <<>>, 1)
<1>1. <<>> \in Seq(NetBufs) /\ Len(<<>>) = 0
  OBVIOUS
<1>2. InOrder(<<>>)
  BY <1>1 DEF InOrder
<1>3. BufsOf(<<>>) = {}
  BY DEF BufsOf
<1> QED BY <1>2, <1>3 DEF Shape
-----------------------------------------------------------------------------
(* A step of vNetBufFreeAll; the last netbuf is freed last. *)
LEMMA FreeNextStep ==
    ASSUME PduInv, NEW t \in Threads, FreeNext(t)
    PROVE  PduInv'
<1> DEFINE c == chain[t]
           i == next[t]
<1>1. /\ program = "runs" /\ TypeOK /\ InOrder(c) /\ BufsOf(c) \subseteq allocated
      /\ i \in 1 .. Len(c) /\ ~c[Len(c)].freed /\ \A j \in 1 .. i - 1 : c[j].freed
  BY ChainKnown DEF FreeNext, Shape
<1>2. Len(c) \in Nat
  BY <1>1 DEF InOrder
<1>3. CASE i < Len(c)
  <2>1. ~AllFreed(Mark(c, i))
    <3>1. /\ InOrder(Mark(c, i)) /\ Len(Mark(c, i)) = Len(c)
          /\ Mark(c, i)[Len(c)] = c[Len(c)]
      BY <1>1, <1>2, <1>3, MarkChain
    <3>2. Len(c) \in 1 .. Len(Mark(c, i)) /\ ~Mark(c, i)[Len(c)].freed
      BY <1>1, <1>2, <3>1
    <3> QED BY <3>1, <3>2, FreedOnce
  <2>2. vNetBufFree(t, i, "free_all") /\ next' = [next EXCEPT ![t] = i + 1]
    BY <1>1, <1>3, <2>1 DEF FreeNext, TypeOK
  <2>3. Goto(t, "free_all") /\ Holds(t, Mark(c, i)) /\ UNCHANGED <<allocated, program>>
    <3>1. Len(c) \in 1 .. Len(c) /\ Len(c) # i
      BY <1>1, <1>2, <1>3
    <3> QED BY <1>1, <2>2, <3>1, FreesOne
  <2>4. InOrder(Mark(c, i)) /\ BufsOf(Mark(c, i)) = BufsOf(c)
    BY <1>1, MarkChain
  <2>5. Shape("free_all", Mark(c, i), i + 1)
    <3> DEFINE d == Mark(c, i)
    <3>1. /\ Len(d) = Len(c) /\ d[i].freed
          /\ \A j \in 1 .. Len(c) : j # i => d[j] = c[j]
      BY <1>1, MarkChain
    <3> HIDE DEF d, c, i
    <3>2. i + 1 \in 1 .. Len(d) /\ ~d[Len(d)].freed
      BY <1>1, <1>2, <1>3, <3>1
    <3>3. \A j \in 1 .. (i + 1) - 1 : d[j].freed
      BY <1>1, <1>2, <1>3, <3>1
    <3>4. Shape("free_all", d, i + 1)
      BY <3>2, <3>3 DEF Shape
    <3> QED BY <3>4 DEF d
  <2>6. UNCHANGED <<queue, waiting, ribTimeout, dropped>> /\ FramesComplete'
    BY DEF FreeNext, history, PduInv, FramesComplete
  <2>7. i + 1 \in Nat \ {0} /\ "free_all" \in Labels
    BY <1>1 DEF Labels
  <2>8. dropped' \in BOOLEAN /\ allocated' \subseteq Bufs
    BY <1>1, <2>3, <2>6 DEF TypeOK
  <2> HIDE DEF i
  <2> QED BY <1>1, <2>2, <2>3, <2>4, <2>5, <2>6, <2>7, <2>8, ChainOnly
<1>4. CASE i = Len(c)
  <2>2. vNetBufFree(t, i, "idle") /\ next' = [next EXCEPT ![t] = 1]
    BY <1>1, <1>4 DEF FreeNext, TypeOK
  <2>3. /\ Goto(t, "idle") /\ Holds(t, <<>>) /\ UNCHANGED program
        /\ allocated' = allocated \ BufsOf(c)
    <3>1. \A j \in 1 .. Len(c) : j # i => c[j].freed
      BY <1>1, <1>2, <1>4
    <3> QED BY <1>1, <2>2, <3>1, FreesLast
  <2>6. UNCHANGED <<queue, waiting, ribTimeout, dropped>> /\ FramesComplete'
    BY DEF FreeNext, history, PduInv, FramesComplete
  <2>7. 1 \in Nat \ {0} /\ "idle" \in Labels
    BY DEF Labels
  <2>8. dropped' \in BOOLEAN /\ allocated' \subseteq Bufs
    BY <1>1, <2>3, <2>6 DEF TypeOK
  <2> QED BY <1>1, <2>2, <2>3, <2>6, <2>7, <2>8, EmptyChain, ChainOnly
<1> QED BY <1>1, <1>2, <1>3, <1>4

(* A frame leaves, and its chain is freed next.                              *)
LEMMA OutputStep ==
    ASSUME PduInv, NEW t \in Threads, Output(t)
    PROVE  PduInv'
<1> DEFINE c == chain[t]
<1>1. /\ program = "runs" /\ TypeOK /\ InOrder(c)
      /\ Two(c, "eth", "pdu") \/ Answer(c) \/ Three(c, "eth", "pci", "data")
      /\ next = [next EXCEPT ![t] = 1]
  <2>1. CASE At(t, "return")
    BY <2>1, ChainKnown DEF Shape
  <2>2. CASE At(t, "output")
    BY <2>2, ChainKnown DEF Shape
  <2> QED BY <2>1, <2>2 DEF Output
<1>2. Shape("free_all", c, 1)
  <2>1. 1 \in 1 .. Len(c) /\ ~c[Len(c)].freed
    BY <1>1 DEF Two, Three, Answer, FreedTo
  <2> HIDE DEF c
  <2> QED BY <2>1 DEF Shape
<1>3. FramesComplete'
  <2>1. Content(c) \in {<<"eth", "pci", "data">>, <<"eth", "arp">>, <<"eth", "pdu">>}
    BY <1>1, FramesSent
  <2>2. sent' \in {sent, Content(c)} /\ FramesComplete
    BY DEF Output, PduInv
  <2> HIDE DEF c
  <2> QED BY <2>1, <2>2 DEF FramesComplete
<1>4. /\ UNCHANGED <<program, queue, waiting, ribTimeout, allocated, dropped>>
      /\ Goto(t, "free_all") /\ Holds(t, c) /\ next' = [next EXCEPT ![t] = 1]
  BY <1>1 DEF Output, history, Holds, TypeOK
<1>5. 1 \in Nat \ {0} /\ "free_all" \in Labels
  BY DEF Labels
<1>6. dropped' \in BOOLEAN /\ allocated' \subseteq Bufs
  BY <1>1, <1>4 DEF TypeOK
<1> QED BY <1>1, <1>2, <1>3, <1>4, <1>5, <1>6, ChainOnly
-----------------------------------------------------------------------------
(* Labels of chains that go on; what a step of one thread leaves alone. *)
LEMMA Quiet ==
    ASSUME PduInv, NEW t \in Threads, NEW label, At(t, label), label # "free_all",
           UNCHANGED <<next, queue, waiting, sent, ribTimeout>>
    PROVE  /\ program = "runs" /\ TypeOK /\ InOrder(chain[t]) /\ Shape(label, chain[t], 1)
           /\ BufsOf(chain[t]) \subseteq allocated
           /\ next' = [next EXCEPT ![t] = 1] /\ FramesComplete'
           /\ dropped \in BOOLEAN /\ allocated \subseteq Bufs /\ 1 \in Nat \ {0}
<1>1. next[t] = 1
  BY ChainKnown DEF Shape
<1> QED BY <1>1, ChainKnown DEF TypeOK, PduInv, FramesComplete

(* The program ends with a header cut off nothing, or a failed post. *)
LEMMA EndStep ==
    ASSUME PduInv, program' = "null_du" \/ (program' = "double_free" /\ ribTimeout'),
           ribTimeout' \in BOOLEAN,
           UNCHANGED <<threadVars, queue, waiting, allocated, sent, dropped>>
    PROVE  PduInv'
BY DEF PduInv, TypeOK, threadVars, FramesComplete

(* The chain in a thread's hands is forgotten. *)
LEMMA DropStep ==
    ASSUME PduInv, NEW t \in Threads, NEW label, At(t, label), label # "free_all", Drops(t),
           allocated \subseteq allocated', allocated' \subseteq Bufs,
           UNCHANGED <<program, next, queue, waiting, sent, ribTimeout>>
    PROVE  PduInv'
<1>1. /\ program = "runs" /\ next' = [next EXCEPT ![t] = 1] /\ FramesComplete'
      /\ 1 \in Nat \ {0}
  BY Quiet
<1>2. Goto(t, "idle") /\ Holds(t, <<>>) /\ dropped' = TRUE /\ "idle" \in Labels
  BY DEF Drops, Labels
<1> QED BY <1>1, <1>2, EmptyChain, ChainOnly

(* A new buffer comes to the chain of a thread. *)
LEMMA GrowStep ==
    ASSUME PduInv, NEW t \in Threads, NEW label, At(t, label), label # "free_all",
           NEW b, Fresh(b), allocated' = allocated \cup {b},
           NEW d, InOrder(d), BufsOf(d) = BufsOf(chain[t]) \cup {b},
           NEW then \in Labels, Shape(then, d, 1), Goto(t, then), Holds(t, d),
           UNCHANGED <<program, next, queue, waiting, sent, dropped, ribTimeout>>
    PROVE  PduInv'
<1>1. /\ program = "runs" /\ next' = [next EXCEPT ![t] = 1] /\ FramesComplete'
      /\ dropped' \in BOOLEAN /\ allocated \subseteq Bufs /\ 1 \in Nat \ {0}
  BY Quiet
<1>2. allocated' \subseteq Bufs /\ b \notin allocated
  BY <1>1 DEF Fresh
<1> QED BY <1>1, <1>2, ChainOnly

(* A chain is changed in place. *)
LEMMA ChangeStep ==
    ASSUME PduInv, NEW t \in Threads, NEW label, At(t, label), label # "free_all",
           NEW d, InOrder(d), BufsOf(d) = BufsOf(chain[t]),
           NEW then \in Labels, Shape(then, d, 1), Goto(t, then), Holds(t, d),
           UNCHANGED <<program, next, queue, waiting, allocated, sent, dropped, ribTimeout>>
    PROVE  PduInv'
<1>1. /\ program = "runs" /\ next' = [next EXCEPT ![t] = 1] /\ FramesComplete'
      /\ dropped' \in BOOLEAN /\ allocated' \subseteq Bufs /\ 1 \in Nat \ {0}
  BY Quiet
<1> QED BY <1>1, ChainOnly

(* The chain of a thread is freed with its last live netbuf. *)
LEMMA LastStep ==
    ASSUME PduInv, NEW t \in Threads, NEW label \in {"deliver", "read"}, At(t, label),
           vNetBufFree(t, Len(chain[t]), "idle"),
           UNCHANGED <<next, queue, waiting, sent, dropped, ribTimeout>>
    PROVE  PduInv'
<1>1. /\ program = "runs" /\ InOrder(chain[t]) /\ Shape(label, chain[t], 1)
      /\ BufsOf(chain[t]) \subseteq allocated
      /\ next' = [next EXCEPT ![t] = 1] /\ FramesComplete'
      /\ dropped' \in BOOLEAN /\ allocated \subseteq Bufs /\ 1 \in Nat \ {0}
  BY Quiet
<1>2. /\ Len(chain[t]) \in 1 .. Len(chain[t])
      /\ \A j \in 1 .. Len(chain[t]) : j # Len(chain[t]) => chain[t][j].freed
  <2>1. FreedTo(chain[t], Len(chain[t]) - 1) /\ Len(chain[t]) \in Nat
    BY <1>1 DEF Shape, InOrder
  <2> QED BY <2>1 DEF FreedTo
<1>3. /\ Goto(t, "idle") /\ Holds(t, <<>>)
      /\ allocated' = allocated \ BufsOf(chain[t])
      /\ UNCHANGED program
  BY <1>1, <1>2, FreesLast
<1>4. "idle" \in Labels /\ allocated' \subseteq Bufs
  BY <1>1, <1>3 DEF Labels
<1> QED BY <1>1, <1>3, <1>4, EmptyChain, ChainOnly
-----------------------------------------------------------------------------
(* The interface thread: reading, ARP, its answers and the event of a PDU.    *)
LEMMA NetStep == ASSUME PduInv, Net PROVE PduInv'
<1> USE DEF history
<1>t. "net" \in Threads
  BY DEF Threads
<1>1. CASE xNetworkInterfaceInput
  <2>1. PICK b \in Bufs :
          /\ Fresh(b)
          /\ allocated' = allocated \cup {b}
          /\ \/ /\ Goto("net", "frame")
                /\ Holds("net", pxNetBufNew("frame", b))
                /\ UNCHANGED dropped
             \/ Drops("net")
    BY <1>1 DEF xNetworkInterfaceInput
  <2>2. At("net", "idle") /\ UNCHANGED <<program, next, queue, waiting, sent, ribTimeout>>
    BY <1>1 DEF xNetworkInterfaceInput
  <2>3. CASE Goto("net", "frame") /\ Holds("net", pxNetBufNew("frame", b)) /\ UNCHANGED dropped
    <3> DEFINE d == pxNetBufNew("frame", b)
    <3>1. InOrder(d) /\ One(d, "frame") /\ BufsOf(d) = {b}
      BY NewChain DEF Segments
    <3>2. BufsOf(chain["net"]) = {}
      BY <1>t, <2>2, EmptyChain, ChainKnown DEF Shape
    <3> HIDE DEF d
    <3>3. Shape("frame", d, 1) /\ "frame" \in Labels /\ BufsOf(d) = BufsOf(chain["net"]) \cup {b}
      BY <3>1, <3>2 DEF Shape, Labels
    <3> QED BY <1>t, <2>1, <2>2, <2>3, <3>1, <3>3, GrowStep DEF d
  <2>4. CASE Drops("net")
    <3>1. allocated \subseteq allocated' /\ allocated' \subseteq Bufs
      BY <2>1 DEF PduInv, TypeOK
    <3> QED BY <1>t, <2>2, <2>4, <3>1, DropStep
  <2> QED BY <2>1, <2>3, <2>4
<1>2. CASE vShimHandleEthernetPacket
  <2>1. /\ At("net", "frame")
        /\ UNCHANGED <<next, queue, waiting, allocated, sent, dropped, ribTimeout>>
    BY <1>2 DEF vShimHandleEthernetPacket
  <2>2. InOrder(chain["net"]) /\ One(chain["net"], "frame")
    BY <1>t, <2>1, ChainKnown DEF Shape
  <2>3. ASSUME NEW label \in {"arp", "rina", "free_all"}, Goto("net", label),
               Holds("net", xNetBufSplit(chain["net"], "eth", "pdu")), UNCHANGED program
        PROVE  PduInv'
    <3> DEFINE d == xNetBufSplit(chain["net"], "eth", "pdu")
    <3>1. /\ InOrder(d) /\ BufsOf(d) = BufsOf(chain["net"]) /\ Len(d) = 2
          /\ ~d[1].freed /\ ~d[2].freed /\ d[1].seg = "eth" /\ d[2].seg = "pdu"
      <4>1. Len(chain["net"]) = 1 /\ ~chain["net"][1].freed
        BY <2>2 DEF One, FreedTo
      <4>2. "eth" \in Segments /\ "pdu" \in Segments
        BY DEF Segments
      <4> DEFINE c == chain["net"]
      <4>3. /\ InOrder(d) /\ BufsOf(d) = BufsOf(c) /\ Len(d) = Len(c) + 1
            /\ ~d[Len(c)].freed /\ ~d[Len(c) + 1].freed
            /\ d[Len(c)].seg = "eth" /\ d[Len(c) + 1].seg = "pdu"
        <5>1. Len(c) # 0 /\ ~c[Len(c)].freed /\ InOrder(c)
          BY <2>2, <4>1
        <5> HIDE DEF c
        <5>2. LET e == xNetBufSplit(c, "eth", "pdu")
              IN  /\ InOrder(e) /\ BufsOf(e) = BufsOf(c) /\ Len(e) = Len(c) + 1
                  /\ ~e[Len(c)].freed /\ ~e[Len(c) + 1].freed
                  /\ e[Len(c)].seg = "eth" /\ e[Len(c) + 1].seg = "pdu"
          BY <4>2, <5>1, SplitChain
        <5> QED BY <5>2 DEF c
      <4>4. Len(c) = 1 /\ 1 + 1 = 2
        BY <4>1
      <4> HIDE DEF d, c
      <4>5. /\ InOrder(d) /\ BufsOf(d) = BufsOf(c) /\ Len(d) = 2
            /\ ~d[1].freed /\ ~d[2].freed /\ d[1].seg = "eth" /\ d[2].seg = "pdu"
        BY <4>3, <4>4
      <4> QED BY <4>5 DEF c
    <3> HIDE DEF d
    <3>2. Two(d, "eth", "pdu")
      BY <3>1 DEF Two, FreedTo
    <3>3. Shape(label, d, 1) /\ label \in Labels
      BY <2>3, <3>1, <3>2 DEF Shape, Labels
    <3> QED BY <1>t, <2>1, <2>3, <3>1, <3>3, ChangeStep DEF d
  <2>4. CASE Goto("net", "free_all") /\ UNCHANGED <<chain, program>>
    <3>1. Holds("net", chain["net"])
      BY <2>4 DEF Holds, PduInv, TypeOK
    <3>2. Shape("free_all", chain["net"], 1) /\ "free_all" \in Labels
      BY <2>2 DEF One, FreedTo, Shape, Labels
    <3> QED BY <1>t, <2>1, <2>2, <2>4, <3>1, <3>2, ChangeStep
  <2>5. CASE program' = "null_du" /\ UNCHANGED <<pc, chain>>
    <3>1. UNCHANGED threadVars /\ ribTimeout' \in BOOLEAN
      BY <2>1, <2>5 DEF threadVars, PduInv, TypeOK
    <3> QED BY <2>1, <2>5, <3>1, EndStep
  <2> QED BY <1>2, <2>3, <2>4, <2>5 DEF vShimHandleEthernetPacket
<1>3. CASE eARPProcessPacket
  <2>1. /\ At("net", "arp")
        /\ UNCHANGED <<program, next, queue, waiting, sent, dropped, ribTimeout>>
    BY <1>3 DEF eARPProcessPacket
  <2>2. /\ InOrder(chain["net"]) /\ Two(chain["net"], "eth", "pdu")
        /\ BufsOf(chain["net"]) \subseteq allocated
    BY <1>t, <2>1, ChainKnown DEF Shape
  <2>3. ASSUME NEW b \in Bufs, Fresh(b), allocated' = allocated \cup {b},
               Holds("net", prvARPGetResponse(b)), Goto("net", "return")
        PROVE  PduInv'
    <3> DEFINE m == Mark(chain["net"], Len(chain["net"]))
               a == pxNetBufNew("arp", b)
               d == vNetBufAppend(m, a)
    <3>1. /\ Len(chain["net"]) = 2 /\ chain["net"][1].seg = "eth" /\ ~chain["net"][1].freed
      BY <2>2 DEF Two, FreedTo
    <3>2. /\ InOrder(m) /\ BufsOf(m) = BufsOf(chain["net"]) /\ Len(m) = 2
          /\ m[1].seg = "eth" /\ ~m[1].freed /\ m[2].freed
      <4>1. Len(chain["net"]) \in 1 .. Len(chain["net"])
        BY <3>1
      <4>2. /\ InOrder(m) /\ BufsOf(m) = BufsOf(chain["net"]) /\ Len(m) = Len(chain["net"])
            /\ m[Len(chain["net"])].freed
            /\ \A j \in 1 .. Len(chain["net"]) :
                 /\ m[j].seg = chain["net"][j].seg
                 /\ j # Len(chain["net"]) => m[j] = chain["net"][j]
        BY <2>2, <4>1, MarkChain
      <4> HIDE DEF m
      <4> QED BY <3>1, <4>2
    <3>3. InOrder(a) /\ One(a, "arp") /\ BufsOf(a) = {b}
      BY NewChain DEF Segments
    <3>4. BufsOf(m) \cap BufsOf(a) = {}
      BY <2>2, <2>3, <3>2, <3>3 DEF Fresh
    <3> HIDE DEF m, a
    <3>5. /\ InOrder(d) /\ BufsOf(d) = BufsOf(chain["net"]) \cup {b} /\ Len(d) = 3
          /\ d[1] = m[1] /\ d[2] = m[2] /\ d[3] = a[1]
      <4>1. Len(a) = 1
        BY <3>3 DEF One
      <4>2. /\ InOrder(d) /\ BufsOf(d) = BufsOf(m) \cup BufsOf(a) /\ Len(d) = Len(m) + Len(a)
            /\ \A i \in 1 .. Len(m) : d[i] = m[i]
            /\ \A i \in 1 .. Len(a) : d[Len(m) + i] = a[i]
        <5>1. InOrder(m) /\ InOrder(a)
          BY <3>2, <3>3
        <5> QED BY ONLY <3>4, <5>1, AppendChain
      <4> HIDE DEF d
      <4>3. d[1] = m[1] /\ d[2] = m[2] /\ d[2 + 1] = a[1]
        BY <3>2, <4>1, <4>2
      <4> QED BY <3>2, <3>3, <4>1, <4>2, <4>3
    <3> HIDE DEF d
    <3>6. Answer(d)
      BY <3>2, <3>3, <3>5 DEF Answer, One, FreedTo
    <3>7. Shape("return", d, 1) /\ "return" \in Labels
      BY <3>6 DEF Shape, Labels
    <3>8. Holds("net", d)
      BY <2>3 DEF prvARPGetResponse, d, m, a
    <3> QED BY <1>t, <2>1, <2>3, <3>5, <3>7, <3>8, GrowStep
  <2>4. ASSUME NEW label \in {"return", "free_all"}, Goto("net", label),
               UNCHANGED <<chain, allocated>>
        PROVE  PduInv'
    <3>1. Holds("net", chain["net"])
      BY <2>4 DEF Holds, PduInv, TypeOK
    <3>2. Shape(label, chain["net"], 1) /\ label \in Labels
      BY <2>2, <2>4 DEF Two, FreedTo, Shape, Labels
    <3> QED BY <1>t, <2>1, <2>2, <2>4, <3>1, <3>2, ChangeStep
  <2> QED BY <1>3, <2>3, <2>4 DEF eARPProcessPacket
<1>4. CASE prvShimHandleRinaFrame
  <2> DEFINE c == chain["net"]
  <2>1. /\ At("net", "rina") /\ vNetBufFree("net", 1, "post")
        /\ UNCHANGED <<next, queue, waiting, sent, dropped, ribTimeout>>
    BY <1>4 DEF prvShimHandleRinaFrame
  <2>2. /\ InOrder(c) /\ Two(c, "eth", "pdu") /\ BufsOf(c) \subseteq allocated
    BY <1>t, <2>1, ChainKnown DEF Shape
  <2>3. Len(c) = 2 /\ ~c[1].freed /\ ~c[2].freed
    BY <2>2 DEF Two, FreedTo
  <2>4. Goto("net", "post") /\ Holds("net", Mark(c, 1)) /\ UNCHANGED <<allocated, program>>
    <3>1. 1 \in 1 .. Len(c) /\ 2 \in 1 .. Len(c) /\ 2 # 1
      BY <2>3
    <3>2. \A j \in 1 .. Len(c) : j # 1 /\ ~c[j].freed =>
            /\ Goto("net", "post") /\ Holds("net", Mark(c, 1))
            /\ UNCHANGED <<allocated, program>>
      BY <1>t, <2>1, <2>2, <3>1, FreesOne
    <3> QED BY <2>3, <3>1, <3>2
  <2>5. /\ InOrder(Mark(c, 1)) /\ BufsOf(Mark(c, 1)) = BufsOf(c) /\ Len(Mark(c, 1)) = 2
        /\ Mark(c, 1)[1].freed /\ ~Mark(c, 1)[2].freed
    <3>1. 1 \in 1 .. Len(c) /\ 2 \in 1 .. Len(c)
      BY <2>3
    <3> QED BY <2>2, <2>3, <3>1, MarkChain
  <2>6. Shape("post", Mark(c, 1), 1) /\ "post" \in Labels
    <3> DEFINE d == Mark(c, 1)
    <3>1. Len(d) = 2 /\ d[1].freed /\ ~d[2].freed
      BY <2>5
    <3> HIDE DEF d
    <3>2. FreedTo(d, Len(d) - 1)
      BY <3>1, <2>5 DEF FreedTo
    <3>3. Shape("post", d, 1) /\ "post" \in Labels
      BY <3>2 DEF Shape, Labels
    <3> QED BY <3>3 DEF d
  <2> QED BY <1>t, <2>1, <2>4, <2>5, <2>6, ChangeStep
<1>5. CASE NoFlowForFrame
  <2>1. allocated \subseteq allocated' /\ allocated' \subseteq Bufs
    BY <1>5 DEF NoFlowForFrame, PduInv, TypeOK
  <2> QED BY <1>t, <1>5, <2>1, DropStep DEF NoFlowForFrame
<1>6. CASE Post
  <2>1. /\ At("net", "post")
        /\ UNCHANGED <<program, next, waiting, allocated, sent, ribTimeout>>
    BY <1>6 DEF Post
  <2>2. CASE Drops("net") /\ UNCHANGED queue
    <3>1. allocated \subseteq allocated' /\ allocated' \subseteq Bufs
      BY <2>1 DEF PduInv, TypeOK
    <3> QED BY <1>t, <2>1, <2>2, <3>1, DropStep
  <2>3. CASE /\ Len(queue) < QueueLen
             /\ queue' = Append(queue, [type |-> "rx", du |-> chain["net"]])
             /\ Goto("net", "idle") /\ Holds("net", <<>>)
             /\ UNCHANGED dropped
    <3>1. /\ TypeOK /\ Shapes /\ Owned /\ InOrder(chain["net"])
          /\ FreedTo(chain["net"], Len(chain["net"]) - 1)
      BY <1>t, <2>1, ChainKnown DEF Shape
    <3>2. next' = [next EXCEPT !["net"] = 1] /\ 1 \in Nat \ {0} /\ FramesComplete'
      BY <1>t, <2>1, <2>3, ChainKnown DEF PduInv, FramesComplete
    <3>3. /\ pc' \in [Threads -> Labels] /\ chain' \in [Threads -> Seq(NetBufs)]
          /\ next' \in [Threads -> Nat \ {0}]
          /\ \A u \in Threads : InOrder(chain'[u]) /\ Shape(pc'[u], chain'[u], next'[u])
      <4>1. "idle" \in Labels
        BY DEF Labels
      <4> QED BY <1>t, <2>3, <3>1, <3>2, <4>1, EmptyChain, ThreadStep
    <3>4. /\ queue' \in Seq([type : {"rx", "mgmt"}, du : Seq(NetBufs)])
          /\ Len(queue') <= QueueLen
          /\ \A i \in 1 .. Len(queue') : EventShape(queue'[i])
      <4> DEFINE e == [type |-> "rx", du |-> chain["net"]]
      <4>1. e \in [type : {"rx", "mgmt"}, du : Seq(NetBufs)] /\ EventShape(e)
        BY <3>1 DEF EventShape, InOrder
      <4>2. queue \in Seq([type : {"rx", "mgmt"}, du : Seq(NetBufs)]) /\ Len(queue) \in Nat
            /\ \A i \in 1 .. Len(queue) : EventShape(queue[i])
        BY <3>1, LenProperties DEF TypeOK, Shapes
      <4> HIDE DEF e
      <4>3. queue' = Append(queue, e)
        BY <2>3 DEF e
      <4>4. /\ queue' \in Seq([type : {"rx", "mgmt"}, du : Seq(NetBufs)])
            /\ Len(queue') = Len(queue) + 1 /\ queue'[Len(queue) + 1] = e
            /\ \A i \in 1 .. Len(queue) : queue'[i] = queue[i]
        BY <4>1, <4>2, <4>3, AppendProperties
      <4> QED BY <2>3, <4>1, <4>2, <4>4, PduAssumption
    <3>5. Owned'
      BY <1>t, <2>1, <2>3, <3>1, OwnedQueuePut DEF Holds
    <3>6. TypeOK' /\ Shapes'
      BY <2>1, <2>3, <3>1, <3>3, <3>4 DEF TypeOK, Shapes
    <3> QED BY <2>1, <3>2, <3>5, <3>6 DEF PduInv
  <2> QED BY <1>6, <2>2, <2>3 DEF Post
<1> QED BY <1>1, <1>2, <1>3, <1>4, <1>5, <1>6 DEF Net

(* The head of a sequence is its first element, and the rest follows it. *)
LEMMA Queued ==
    ASSUME NEW S, NEW s \in Seq(S), s # <<>>
    PROVE  /\ Head(s) \in S /\ Head(s) = s[1] /\ Len(s) \in Nat \ {0}
           /\ Tail(s) \in Seq(S) /\ Len(Tail(s)) = Len(s) - 1
           /\ \A i \in 1 .. Len(s) - 1 : Tail(s)[i] = s[i + 1]
BY HeadTailProperties, EmptySeq, LenProperties

(* The IPCP task takes the next event.                                       *)
LEMMA TaskTakesStep == ASSUME PduInv, TaskTakes PROVE PduInv'
<1> USE DEF history
<1>1. /\ At("task", "idle") /\ queue # <<>> /\ queue' = Tail(queue)
      /\ Holds("task", Head(queue).du)
      /\ Goto("task", IF Head(queue).type = "rx" THEN "receive" ELSE "write")
      /\ UNCHANGED <<program, next, waiting, allocated, sent, dropped, ribTimeout>>
  BY DEF TaskTakes
<1>t. "task" \in Threads
  BY DEF Threads
<1>2. /\ program = "runs" /\ TypeOK /\ Shapes /\ Owned /\ chain["task"] = <<>>
      /\ next' = [next EXCEPT !["task"] = 1] /\ 1 \in Nat \ {0} /\ FramesComplete'
  BY <1>1, <1>t, ChainKnown DEF Shape, PduInv, FramesComplete
<1> DEFINE E == [type : {"rx", "mgmt"}, du : Seq(NetBufs)]
<1>3. /\ Head(queue) \in E /\ Head(queue) = queue[1] /\ Len(queue) \in Nat \ {0}
      /\ Tail(queue) \in Seq(E) /\ Len(Tail(queue)) = Len(queue) - 1
      /\ \A i \in 1 .. Len(queue) - 1 : Tail(queue)[i] = queue[i + 1]
  <2>1. queue \in Seq(E)
    BY <1>2 DEF TypeOK
  <2> HIDE DEF E
  <2> QED BY <1>1, <2>1, Queued
<1> DEFINE label == IF Head(queue).type = "rx" THEN "receive" ELSE "write"
           d == Head(queue).du
<1>4. EventShape(Head(queue))
  BY <1>2, <1>3 DEF Shapes
<1>5. InOrder(d) /\ label \in Labels /\ Shape(label, d, 1)
  <2>1. InOrder(d) /\ label \in Labels
    BY <1>4 DEF EventShape, Labels
  <2>2. CASE Head(queue).type = "rx"
    <3>1. label = "receive" /\ FreedTo(d, Len(d) - 1)
      BY <1>4, <2>2 DEF EventShape
    <3> HIDE DEF label, d
    <3> QED BY <2>1, <3>1 DEF Shape
  <2>3. CASE Head(queue).type # "rx"
    <3>1. label = "write" /\ One(d, "data")
      BY <1>4, <2>3 DEF EventShape
    <3> HIDE DEF label, d
    <3> QED BY <2>1, <3>1 DEF Shape
  <2> QED BY <2>1, <2>2, <2>3
<1>6. /\ pc' \in [Threads -> Labels] /\ chain' \in [Threads -> Seq(NetBufs)]
      /\ next' \in [Threads -> Nat \ {0}]
      /\ \A u \in Threads : InOrder(chain'[u]) /\ Shape(pc'[u], chain'[u], next'[u])
  <2>1. Goto("task", label) /\ Holds("task", d)
    BY <1>1
  <2> HIDE DEF label, d
  <2> QED BY <1>t, <1>2, <1>5, <2>1, ThreadStep
<1>7. Owned'
  BY <1>1, <1>2, <1>t, OwnedQueueGet DEF Holds
<1>8. /\ queue' \in Seq(E) /\ Len(queue') <= QueueLen
      /\ \A i \in 1 .. Len(queue') : EventShape(queue'[i])
  <2>1. QueueLen \in Nat /\ Len(queue) <= QueueLen
    BY <1>2, PduAssumption DEF TypeOK
  <2>2. \A i \in 1 .. Len(queue) : EventShape(queue[i])
    BY <1>2 DEF Shapes
  <2>3. \A i \in 1 .. Len(queue) - 1 : i + 1 \in 1 .. Len(queue)
    BY <1>3
  <2> QED BY <1>1, <1>3, <2>1, <2>2, <2>3
<1>9. TypeOK' /\ Shapes'
  BY <1>1, <1>2, <1>6, <1>8 DEF TypeOK, Shapes
<1> QED BY <1>1, <1>2, <1>7, <1>9 DEF PduInv

(* A reader takes the next PDU of its flow.                                  *)
LEMMA ReadTakeStep == ASSUME PduInv, ReadTake PROVE PduInv'
<1> USE DEF history
<1>1. /\ At("app", "idle") /\ waiting # <<>> /\ waiting' = Tail(waiting)
      /\ Holds("app", Head(waiting)) /\ Goto("app", "read")
      /\ UNCHANGED <<program, next, queue, allocated, sent, dropped, ribTimeout>>
  BY DEF ReadTake
<1>t. "app" \in Threads
  BY DEF Threads
<1>2. /\ program = "runs" /\ TypeOK /\ Shapes /\ Owned /\ chain["app"] = <<>>
      /\ next' = [next EXCEPT !["app"] = 1] /\ 1 \in Nat \ {0} /\ FramesComplete'
  BY <1>1, <1>t, ChainKnown DEF Shape, PduInv, FramesComplete
<1>3. /\ Head(waiting) = waiting[1] /\ Len(waiting) \in Nat \ {0}
      /\ Tail(waiting) \in Seq(Seq(NetBufs)) /\ Len(Tail(waiting)) = Len(waiting) - 1
      /\ \A i \in 1 .. Len(waiting) - 1 : Tail(waiting)[i] = waiting[i + 1]
  <2>1. waiting \in Seq(Seq(NetBufs))
    BY <1>2 DEF TypeOK
  <2> QED BY <1>1, <2>1, Queued
<1>4. InOrder(Head(waiting)) /\ FreedTo(Head(waiting), Len(Head(waiting)) - 1)
  BY <1>2, <1>3 DEF Shapes
<1>5. "read" \in Labels /\ Shape("read", Head(waiting), 1)
  BY <1>4 DEF Shape, Labels
<1>6. /\ pc' \in [Threads -> Labels] /\ chain' \in [Threads -> Seq(NetBufs)]
      /\ next' \in [Threads -> Nat \ {0}]
      /\ \A u \in Threads : InOrder(chain'[u]) /\ Shape(pc'[u], chain'[u], next'[u])
  BY <1>t, <1>1, <1>2, <1>4, <1>5, ThreadStep
<1>7. Owned'
  BY <1>1, <1>2, <1>t, OwnedWaitingGet DEF Holds
<1>8. \A i \in 1 .. Len(waiting') :
         InOrder(waiting'[i]) /\ FreedTo(waiting'[i], Len(waiting'[i]) - 1)
  <2>1. \A i \in 1 .. Len(waiting) : InOrder(waiting[i]) /\ FreedTo(waiting[i], Len(waiting[i]) - 1)
    BY <1>2 DEF Shapes
  <2>2. \A i \in 1 .. Len(waiting) - 1 : i + 1 \in 1 .. Len(waiting)
    BY <1>3
  <2> QED BY <1>1, <1>3, <2>1, <2>2
<1>9. TypeOK' /\ Shapes'
  BY <1>1, <1>2, <1>3, <1>6, <1>8 DEF TypeOK, Shapes
<1> QED BY <1>1, <1>2, <1>7, <1>9 DEF PduInv

(* A data PDU is refused, or waits for the reader of its flow.               *)
LEMMA DtPduStep == ASSUME PduInv, xRmtProcessDtPdu PROVE PduInv'
<1> USE DEF history
<1>1. /\ At("task", "deliver") /\ waiting' = Append(waiting, chain["task"])
      /\ Goto("task", "idle") /\ Holds("task", <<>>)
      /\ UNCHANGED <<program, next, queue, allocated, sent, dropped, ribTimeout>>
  BY DEF xRmtProcessDtPdu
<1>t. "task" \in Threads
  BY DEF Threads
<1>2. /\ program = "runs" /\ TypeOK /\ Shapes /\ Owned
      /\ InOrder(chain["task"]) /\ FreedTo(chain["task"], Len(chain["task"]) - 1)
      /\ next' = [next EXCEPT !["task"] = 1] /\ 1 \in Nat \ {0} /\ FramesComplete'
  BY <1>1, <1>t, ChainKnown DEF Shape, PduInv, FramesComplete
<1>3. /\ waiting' \in Seq(Seq(NetBufs)) /\ Len(waiting') = Len(waiting) + 1 /\ Len(waiting) \in Nat
      /\ \A i \in 1 .. Len(waiting) : waiting'[i] = waiting[i]
      /\ waiting'[Len(waiting) + 1] = chain["task"]
  <2>1. waiting \in Seq(Seq(NetBufs)) /\ chain["task"] \in Seq(NetBufs)
    BY <1>2 DEF TypeOK, InOrder
  <2> QED BY <1>1, <2>1, AppendProperties, LenProperties
<1>4. "idle" \in Labels
  BY DEF Labels
<1>5. /\ pc' \in [Threads -> Labels] /\ chain' \in [Threads -> Seq(NetBufs)]
      /\ next' \in [Threads -> Nat \ {0}]
      /\ \A u \in Threads : InOrder(chain'[u]) /\ Shape(pc'[u], chain'[u], next'[u])
  BY <1>t, <1>1, <1>2, <1>4, EmptyChain, ThreadStep
<1>6. Owned'
  BY <1>1, <1>2, <1>t, OwnedWaitingPut DEF Holds
<1>7. \A i \in 1 .. Len(waiting') :
         InOrder(waiting'[i]) /\ FreedTo(waiting'[i], Len(waiting'[i]) - 1)
  <2>1. \A i \in 1 .. Len(waiting) : InOrder(waiting[i]) /\ FreedTo(waiting[i], Len(waiting[i]) - 1)
    BY <1>2 DEF Shapes
  <2>2. \A i \in 1 .. Len(waiting') : i \in 1 .. Len(waiting) \/ i = Len(waiting) + 1
    BY <1>3
  <2> QED BY <1>2, <1>3, <2>1, <2>2
<1>8. TypeOK' /\ Shapes'
  BY <1>1, <1>2, <1>3, <1>5, <1>7 DEF TypeOK, Shapes
<1> QED BY <1>1, <1>2, <1>6, <1>8 DEF PduInv

(* A header in a new buffer before a chain that is all live. *)
LEMMA EncapChain ==
    ASSUME InOrder(chain["task"]), BufsOf(chain["task"]) \subseteq allocated,
           FreedTo(chain["task"], 0), NEW s \in Segments, NEW b \in Bufs, Fresh(b)
    PROVE  LET c == chain["task"]
               d == Encap(s, b)
           IN  /\ InOrder(d) /\ BufsOf(d) = BufsOf(c) \cup {b}
               /\ Len(d) = Len(c) + 1 /\ FreedTo(d, 0) /\ d[1].seg = s
               /\ \A i \in 1 .. Len(c) : d[i + 1] = c[i]
<1> DEFINE c == chain["task"]
           a == pxNetBufNew(s, b)
           d == vNetBufAppend(a, c)
<1>1. InOrder(a) /\ One(a, s) /\ BufsOf(a) = {b}
  BY NewChain
<1>2. BufsOf(a) \cap BufsOf(c) = {}
  BY <1>1 DEF Fresh
<1>3. Len(a) = 1 /\ Len(c) \in Nat /\ a[1].seg = s /\ ~a[1].freed
      /\ \A i \in 1 .. Len(c) : ~c[i].freed
  BY <1>1 DEF One, FreedTo, InOrder
<1> HIDE DEF a, c
<1>4. /\ InOrder(d) /\ BufsOf(d) = BufsOf(a) \cup BufsOf(c) /\ Len(d) = Len(a) + Len(c)
      /\ \A i \in 1 .. Len(a) : d[i] = a[i]
      /\ \A i \in 1 .. Len(c) : d[Len(a) + i] = c[i]
  <2>1. InOrder(c)
    BY DEF c
  <2> QED BY <1>1, <1>2, <2>1, AppendChain
<1> HIDE DEF d
<1>5. /\ Len(d) = Len(c) + 1 /\ d[1] = a[1]
      /\ \A i \in 1 .. Len(c) : d[i + 1] = c[i]
  <2>1. \A i \in 1 .. Len(c) : 1 + i = i + 1
    BY <1>3
  <2> QED BY <1>3, <1>4, <2>1
<1>6. FreedTo(d, 0)
  <2>1. ASSUME NEW i \in 1 .. Len(d) PROVE ~d[i].freed
    <3>1. CASE i = 1
      BY <1>3, <1>5, <3>1
    <3>2. CASE i # 1
      <4>1. i - 1 \in 1 .. Len(c) /\ (i - 1) + 1 = i
        BY <1>3, <1>5, <3>2
      <4> QED BY <1>3, <1>5, <4>1
    <3> QED BY <3>1, <3>2
  <2> QED BY <1>3, <1>5, <2>1 DEF FreedTo
<1>7. Encap(s, b) = d
  BY DEF Encap, d, a, c
<1>8. /\ InOrder(d) /\ BufsOf(d) = BufsOf(c) \cup {b} /\ d[1].seg = s
  BY <1>1, <1>3, <1>4, <1>5
<1> QED BY <1>5, <1>6, <1>7, <1>8 DEF c
-----------------------------------------------------------------------------
(* The IPCP task, one case per action.                                       *)
LEMMA TaskStep == ASSUME PduInv, Task PROVE PduInv'
<1> USE DEF history
<1>t. "task" \in Threads
  BY DEF Threads
<1> DEFINE c == chain["task"]
<1>1. CASE TaskTakes
  BY <1>1, TaskTakesStep
<1>2. CASE xRmtReceive
  <2>1. /\ At("task", "receive")
        /\ UNCHANGED <<next, queue, waiting, allocated, sent, dropped, ribTimeout>>
    BY <1>2 DEF xRmtReceive
  <2>2. InOrder(c) /\ FreedTo(c, Len(c) - 1)
    BY <1>t, <2>1, ChainKnown DEF Shape
  <2>3. ASSUME Holds("task", xNetBufSplit(c, "pci", "data")), Goto("task", "header"),
               UNCHANGED program
        PROVE  PduInv'
    <3> DEFINE d == xNetBufSplit(c, "pci", "data")
    <3>1. /\ Len(c) \in Nat \ {0} /\ ~c[Len(c)].freed
          /\ \A i \in 1 .. Len(c) - 1 : c[i].freed
      <4>1. Len(c) \in Nat /\ Len(c) - 1 \in 0 .. Len(c) - 1
        BY <2>2 DEF InOrder, FreedTo
      <4> HIDE DEF c
      <4> QED BY <2>2, <4>1 DEF FreedTo
    <3> HIDE DEF c
    <3>2. /\ InOrder(d) /\ BufsOf(d) = BufsOf(c) /\ Len(d) = Len(c) + 1
          /\ \A i \in 1 .. Len(c) - 1 : d[i] = c[i]
          /\ ~d[Len(c)].freed /\ ~d[Len(c) + 1].freed
      BY <2>2, <3>1, SplitChain DEF Segments
    <3> HIDE DEF d
    <3>3. FreedTo(d, Len(d) - 2)
      BY <3>1, <3>2 DEF FreedTo
    <3>4. Shape("header", d, 1) /\ "header" \in Labels
      BY <3>3 DEF Shape, Labels
    <3> QED BY <1>t, <2>1, <2>3, <3>2, <3>4, ChangeStep DEF d, c
  <2>4. CASE program' = "null_du" /\ UNCHANGED <<pc, chain>>
    <3>1. UNCHANGED threadVars /\ ribTimeout' \in BOOLEAN
      BY <2>1, <2>4 DEF threadVars, PduInv, TypeOK
    <3> QED BY <2>1, <2>4, <3>1, EndStep
  <2> QED BY <1>2, <2>3, <2>4 DEF xRmtReceive
<1>3. CASE FreePci
  <2>1. /\ At("task", "header") /\ vNetBufFree("task", Len(c) - 1, "deliver")
        /\ UNCHANGED <<next, queue, waiting, sent, dropped, ribTimeout>>
    BY <1>3 DEF FreePci
  <2>2. InOrder(c) /\ FreedTo(c, Len(c) - 2) /\ BufsOf(c) \subseteq allocated
    BY <1>t, <2>1, ChainKnown DEF Shape
  <2> DEFINE n == Len(c)
             d == Mark(c, n - 1)
  <2>3. /\ n \in Nat /\ n > 1 /\ ~c[n].freed /\ \A i \in 1 .. n - 2 : c[i].freed
    <3>1. n \in Nat /\ n - 2 \in 0 .. n - 1
      BY <2>2 DEF InOrder, FreedTo
    <3> HIDE DEF c
    <3> QED BY <2>2, <3>1 DEF FreedTo
  <2>4. n - 1 \in 1 .. n /\ n \in 1 .. n /\ n # n - 1
    BY <2>3
  <2>5. /\ Goto("task", "deliver") /\ Holds("task", d) /\ UNCHANGED <<allocated, program>>
    BY <1>t, <2>1, <2>2, <2>3, <2>4, FreesOne
  <2>6. /\ InOrder(d) /\ BufsOf(d) = BufsOf(c) /\ Len(d) = n /\ d[n - 1].freed
        /\ \A j \in 1 .. n : j # n - 1 => d[j] = c[j]
    BY <2>2, <2>4, MarkChain
  <2> HIDE DEF d, c
  <2>7. FreedTo(d, Len(d) - 1)
    BY <2>3, <2>4, <2>6 DEF FreedTo
  <2>8. Shape("deliver", d, 1) /\ "deliver" \in Labels
    BY <2>7 DEF Shape, Labels
  <2> QED BY <1>t, <2>1, <2>5, <2>6, <2>8, ChangeStep DEF c
<1>4. CASE xRmtProcessMgmtPdu
  BY <1>t, <1>4, LastStep DEF xRmtProcessMgmtPdu
<1>5. CASE xRmtProcessDtPdu
  BY <1>5, DtPduStep
<1>6. CASE TaskRefuses
  <2>1. PICK label \in {"receive", "header", "deliver", "write", "send", "shim"} :
          At("task", label)
    BY <1>6 DEF TaskRefuses
  <2>2. /\ allocated \subseteq allocated' /\ allocated' \subseteq Bufs /\ label # "free_all"
        /\ Drops("task") /\ UNCHANGED <<program, next, queue, waiting, sent, ribTimeout>>
    BY <1>6 DEF TaskRefuses, PduInv, TypeOK
  <2> QED BY <1>t, <2>1, <2>2, DropStep
<1>7. CASE xNormalMgmtDuWrite
  <2>1. /\ At("task", "write") /\ UNCHANGED <<program, next, queue, waiting, sent, ribTimeout>>
    BY <1>7 DEF xNormalMgmtDuWrite
  <2>2. PICK b \in Bufs :
          /\ Fresh(b) /\ allocated' = allocated \cup {b}
          /\ \/ Holds("task", Encap("pci", b)) /\ Goto("task", "send") /\ UNCHANGED dropped
             \/ Drops("task")
    BY <1>7 DEF xNormalMgmtDuWrite
  <2>3. InOrder(c) /\ One(c, "data") /\ BufsOf(c) \subseteq allocated
    BY <1>t, <2>1, ChainKnown DEF Shape
  <2>4. ASSUME Holds("task", Encap("pci", b)), Goto("task", "send"), UNCHANGED dropped
        PROVE  PduInv'
    <3> DEFINE d == Encap("pci", b)
    <3>1. FreedTo(c, 0) /\ Len(c) = 1 /\ c[1].seg = "data"
      BY <2>3 DEF One
    <3>2. /\ InOrder(d) /\ BufsOf(d) = BufsOf(c) \cup {b}
          /\ Len(d) = Len(c) + 1 /\ FreedTo(d, 0) /\ d[1].seg = "pci"
          /\ \A i \in 1 .. Len(c) : d[i + 1] = c[i]
      BY <2>2, <2>3, <3>1, EncapChain DEF Segments
    <3> HIDE DEF d, c
    <3>3. Two(d, "pci", "data")
      BY <3>1, <3>2 DEF Two
    <3>4. Shape("send", d, 1) /\ "send" \in Labels
      BY <3>3 DEF Shape, Labels
    <3> QED BY <1>t, <2>1, <2>2, <2>4, <3>2, <3>4, GrowStep DEF d, c
  <2>5. CASE Drops("task")
    <3>1. allocated \subseteq allocated' /\ allocated' \subseteq Bufs
      BY <2>2 DEF PduInv, TypeOK
    <3> QED BY <1>t, <2>1, <2>5, <3>1, DropStep
  <2> QED BY <2>2, <2>4, <2>5
<1>8. CASE xRmtSendPortId
  <2>1. /\ At("task", "send") /\ Goto("task", "shim")
        /\ UNCHANGED <<program, chain, next, queue, waiting, allocated, sent, dropped, ribTimeout>>
    BY <1>8 DEF xRmtSendPortId
  <2>2. InOrder(c) /\ Two(c, "pci", "data") /\ TypeOK
    BY <1>t, <2>1, ChainKnown DEF Shape
  <2>3. Holds("task", c)
    BY <2>1, <2>2 DEF Holds, TypeOK
  <2>4. Shape("shim", c, 1) /\ "shim" \in Labels
    <3> HIDE DEF c
    <3> QED BY <2>2 DEF Shape, Labels
  <2> QED BY <1>t, <2>1, <2>2, <2>3, <2>4, ChangeStep
<1>9. CASE xShimSDUWrite
  <2>1. /\ At("task", "shim") /\ UNCHANGED <<program, next, queue, waiting, sent, ribTimeout>>
    BY <1>9 DEF xShimSDUWrite
  <2>2. PICK b \in Bufs :
          /\ Fresh(b) /\ allocated' = allocated \cup {b}
          /\ \/ Holds("task", Encap("eth", b)) /\ Goto("task", "output") /\ UNCHANGED dropped
             \/ Drops("task")
    BY <1>9 DEF xShimSDUWrite
  <2>3. InOrder(c) /\ Two(c, "pci", "data") /\ BufsOf(c) \subseteq allocated
    BY <1>t, <2>1, ChainKnown DEF Shape
  <2>4. ASSUME Holds("task", Encap("eth", b)), Goto("task", "output"), UNCHANGED dropped
        PROVE  PduInv'
    <3> DEFINE d == Encap("eth", b)
    <3>1. FreedTo(c, 0) /\ Len(c) = 2 /\ c[1].seg = "pci" /\ c[2].seg = "data"
      BY <2>3 DEF Two
    <3>2. /\ InOrder(d) /\ BufsOf(d) = BufsOf(c) \cup {b}
          /\ Len(d) = Len(c) + 1 /\ FreedTo(d, 0) /\ d[1].seg = "eth"
          /\ \A i \in 1 .. Len(c) : d[i + 1] = c[i]
      BY <2>2, <2>3, <3>1, EncapChain DEF Segments
    <3> HIDE DEF d, c
    <3>3. Three(d, "eth", "pci", "data")
      <4>1. d[1 + 1] = c[1] /\ d[2 + 1] = c[2]
        BY <3>1, <3>2
      <4> QED BY <3>1, <3>2, <4>1 DEF Three
    <3>4. Shape("output", d, 1) /\ "output" \in Labels
      BY <3>3 DEF Shape, Labels
    <3> QED BY <1>t, <2>1, <2>2, <2>4, <3>2, <3>4, GrowStep DEF d, c
  <2>5. CASE Drops("task")
    <3>1. allocated \subseteq allocated' /\ allocated' \subseteq Bufs
      BY <2>2 DEF PduInv, TypeOK
    <3> QED BY <1>t, <2>1, <2>5, <3>1, DropStep
  <2> QED BY <2>2, <2>4, <2>5
<1> QED BY <1>1, <1>2, <1>3, <1>4, <1>5, <1>6, <1>7, <1>8, <1>9 DEF Task

(* A thread that sends a RIB message.                                        *)
LEMMA RibStep == ASSUME PduInv, Rib PROVE PduInv'
<1> USE DEF history
<1>1. CASE prvRibNormalOutgoing
  <2>1. /\ program = "runs" /\ Len(queue) < QueueLen
        /\ UNCHANGED <<program, threadVars, waiting, sent, dropped, ribTimeout>>
    BY <1>1 DEF prvRibNormalOutgoing
  <2>2. PICK b \in Bufs :
          /\ Fresh(b) /\ allocated' = allocated \cup {b}
          /\ queue' = Append(queue, [type |-> "mgmt", du |-> pxNetBufNew("data", b)])
    BY <1>1 DEF prvRibNormalOutgoing
  <2>3. TypeOK /\ Shapes /\ Owned /\ FramesComplete'
    BY <2>1 DEF PduInv, FramesComplete
  <2> DEFINE d == pxNetBufNew("data", b)
             e == [type |-> "mgmt", du |-> d]
             E == [type : {"rx", "mgmt"}, du : Seq(NetBufs)]
  <2>4. InOrder(d) /\ One(d, "data") /\ BufsOf(d) = {b} /\ d \in Seq(NetBufs)
    BY NewChain DEF Segments, InOrder
  <2> HIDE DEF d
  <2>5. e \in E /\ EventShape(e)
    BY <2>4 DEF EventShape
  <2>6. Owned'
    <3>1. b \in Bufs \ allocated /\ UNCHANGED <<chain, waiting, dropped>>
      BY <2>1, <2>2 DEF Fresh, threadVars
    <3> QED BY <2>2, <2>3, <2>4, <3>1, OwnedNewEvent DEF d
  <2>7. /\ queue' \in Seq(E) /\ Len(queue') <= QueueLen
        /\ \A i \in 1 .. Len(queue') : EventShape(queue'[i])
    <3>1. queue \in Seq(E) /\ Len(queue) \in Nat /\ \A i \in 1 .. Len(queue) : EventShape(queue[i])
      BY <2>3, LenProperties DEF TypeOK, Shapes
    <3>2. queue' = Append(queue, e)
      BY <2>2 DEF d
    <3> HIDE DEF e, E
    <3>3. /\ queue' \in Seq(E) /\ Len(queue') = Len(queue) + 1 /\ queue'[Len(queue) + 1] = e
          /\ \A i \in 1 .. Len(queue) : queue'[i] = queue[i]
      BY <2>5, <3>1, <3>2, AppendProperties
    <3> QED BY <2>1, <2>5, <3>1, <3>3, PduAssumption
  <2>8. TypeOK'
    <3>1. allocated' \subseteq Bufs
      BY <2>2, <2>3 DEF TypeOK
    <3> QED BY <2>1, <2>3, <2>7, <3>1 DEF TypeOK, threadVars
  <2>9. Shapes'
    BY <2>1, <2>3, <2>7 DEF Shapes, threadVars
  <2> QED BY <2>1, <2>3, <2>6, <2>8, <2>9 DEF PduInv
<1>2. CASE OutgoingFails
  BY <1>2, EndStep DEF OutgoingFails
<1> QED BY <1>1, <1>2 DEF Rib

(* An application that writes and reads.                                     *)
LEMMA AppStep == ASSUME PduInv, App PROVE PduInv'
<1>1. CASE ReadTake
  BY <1>1, ReadTakeStep
<1>2. CASE ReadFree
  <2>1. "app" \in Threads
    BY DEF Threads
  <2> QED BY <1>2, <2>1, LastStep DEF ReadFree, history
<1> QED BY <1>1, <1>2 DEF App
-----------------------------------------------------------------------------
(* Nothing is allocated at first.                                            *)
LEMMA InitPduInv == Init => PduInv
<1> SUFFICES ASSUME Init PROVE PduInv
  OBVIOUS
<1>1. <<>> \in Seq([type : {"rx", "mgmt"}, du : Seq(NetBufs)]) /\ <<>> \in Seq(Seq(NetBufs))
      /\ <<>> \in Seq(NetBufs) /\ Len(<<>>) = 0
  OBVIOUS
<1>2. TypeOK
  <2>1. QueueLen \in Nat
    BY PduAssumption
  <2>2. pc \in [Threads -> Labels] /\ next \in [Threads -> Nat \ {0}]
    BY DEF Init, Labels
  <2>3. chain \in [Threads -> Seq(NetBufs)]
    BY <1>1 DEF Init
  <2>4. /\ queue \in Seq([type : {"rx", "mgmt"}, du : Seq(NetBufs)]) /\ Len(queue) <= QueueLen
        /\ waiting \in Seq(Seq(NetBufs))
    <3> HIDE DEF NetBufs
    <3> QED BY <1>1, <2>1 DEF Init
  <2> QED BY <2>2, <2>3, <2>4 DEF Init, TypeOK
<1>3. Shapes
  BY <1>1, EmptyChain DEF Init, Shapes
<1>4. Owned
  <2>1. DOMAIN queue = {} /\ DOMAIN waiting = {}
    BY <1>1 DEF Init
  <2>2. \A p \in Places : \E t \in Threads : p = <<t, 1>>
    BY <2>1 DEF Places
  <2>3. \A t \in Threads : Has(<<t, 1>>) = {}
    BY EmptyChain, PlaceKinds DEF Init, PlaceFacts
  <2> QED BY <2>2, <2>3, OwnedHas DEF Init
<1> QED BY <1>2, <1>3, <1>4 DEF Init, PduInv, FramesComplete

(* Every step of every thread.                                               *)
LEMMA NextPduInv == PduInv /\ [Next]_vars => PduInv'
<1> SUFFICES ASSUME PduInv, [Next]_vars PROVE PduInv'
  OBVIOUS
<1>1. CASE UNCHANGED vars
  <2>1. UNCHANGED <<program, pc, chain, next, queue, waiting, allocated, sent, dropped, ribTimeout>>
    BY <1>1 DEF vars, threadVars, history
  <2>2. UNCHANGED <<TypeOK, Shapes, Owned, FramesComplete>>
    BY <2>1 DEF TypeOK, Shapes, Owned, Apart, InUse, Places, ChainAt, FramesComplete
  <2> QED BY <2>1, <2>2 DEF PduInv
<1>2. CASE \E t \in Threads : FreeNext(t) \/ Output(t)
  BY <1>2, FreeNextStep, OutputStep
<1> QED BY <1>1, <1>2, NetStep, TaskStep, RibStep, AppStep DEF Next

(* Every buffer in use is in the chain of exactly one place, and what a thread *)
(* knows of its chain at each label is true.                                 *)
THEOREM PduInvariant == Spec => []PduInv
BY InitPduInv, NextPduInv, PTL DEF Spec

(* Types, for any number of buffers and any length of the queue.             *)
THEOREM PduTypeCorrect == Spec => []TypeOK
<1>1. PduInv => TypeOK
  BY DEF PduInv
<1> QED BY <1>1, PduInvariant, PTL


(* Whoever has a chain has its last netbuf. *)
LEMMA LastLives ==
    ASSUME NEW c, InOrder(c), NEW label \in Labels, NEW n, Shape(label, c, n), c # <<>>
    PROVE  Len(c) \in Live(c)
<1>1. Len(c) \in Nat /\ DOMAIN c = 1 .. Len(c)
  BY DEF InOrder
<1>2. ASSUME NEW k, FreedTo(c, k) PROVE Len(c) \in 1 .. Len(c) /\ ~c[Len(c)].freed
  BY <1>1, <1>2 DEF FreedTo
<1>3. Len(c) \in 1 .. Len(c) /\ ~c[Len(c)].freed
  <2>1. CASE label \in {"frame", "arp", "rina", "post", "receive", "deliver", "read", "header",
                        "write", "send", "shim", "output"}
    BY <1>2, <2>1 DEF Shape, One, Two, Three
  <2>2. CASE label = "return"
    BY <1>2, <2>2 DEF Shape, Two, Answer
  <2>3. CASE label = "free_all"
    BY <1>1, <2>3 DEF Shape
  <2>4. label # "idle"
    BY DEF Shape
  <2> QED BY <2>1, <2>2, <2>3, <2>4 DEF Labels
<1> QED BY <1>1, <1>3 DEF Live

LEMMA ChainsLive ==
    ASSUME PduInv, program = "runs", NEW p \in Places
    PROVE  InOrder(ChainAt(p)) /\ (ChainAt(p) # <<>> => Len(ChainAt(p)) \in Live(ChainAt(p)))
<1> DEFINE c == ChainAt(p)
<1>1. TypeOK /\ Shapes
  BY DEF PduInv
<1>2. ASSUME InOrder(c), NEW label \in Labels, NEW n, Shape(label, c, n)
      PROVE  InOrder(c) /\ (c # <<>> => Len(c) \in Live(c))
  BY <1>2, LastLives
<1>3. ASSUME InOrder(c), FreedTo(c, Len(c) - 1)
      PROVE  InOrder(c) /\ (c # <<>> => Len(c) \in Live(c))
  <2>1. Shape("read", c, 1) /\ "read" \in Labels
    BY <1>3 DEF Shape, Labels
  <2> QED BY <1>2, <1>3, <2>1
<1>4. ASSUME InOrder(c), One(c, "data")
      PROVE  InOrder(c) /\ (c # <<>> => Len(c) \in Live(c))
  <2>1. Shape("write", c, 1) /\ "write" \in Labels
    BY <1>4 DEF Shape, Labels
  <2> QED BY <1>2, <1>4, <2>1
<1>5. "queue" \notin Threads /\ "waiting" \notin Threads
  BY DEF Threads
<1>6. CASE \E t \in Threads : p = <<t, 1>>
  <2>1. PICK t \in Threads : p = <<t, 1>>
    BY <1>6
  <2>2. c = chain[t] /\ pc[t] \in Labels
    BY <1>1, <1>5, <2>1 DEF ChainAt, TypeOK
  <2>3. InOrder(c) /\ Shape(pc[t], c, next[t])
    BY <1>1, <2>2 DEF Shapes
  <2> HIDE DEF c
  <2> QED BY <1>2, <2>2, <2>3 DEF c
<1>7. CASE \E i \in DOMAIN queue : p = <<"queue", i>>
  <2>1. PICK i \in DOMAIN queue : p = <<"queue", i>>
    BY <1>7
  <2>2. c = queue[i].du
    BY <1>5, <2>1 DEF ChainAt
  <2>3. i \in 1 .. Len(queue)
    BY <1>1 DEF TypeOK
  <2>4. EventShape(queue[i])
    BY <1>1, <2>3 DEF Shapes
  <2>5. InOrder(c) /\ (FreedTo(c, Len(c) - 1) \/ One(c, "data"))
    BY <2>2, <2>4 DEF EventShape
  <2> HIDE DEF c
  <2> QED BY <1>3, <1>4, <2>5 DEF c
<1>8. CASE \E i \in DOMAIN waiting : p = <<"waiting", i>>
  <2>1. PICK i \in DOMAIN waiting : p = <<"waiting", i>>
    BY <1>8
  <2>2. c = waiting[i]
    BY <1>5, <2>1 DEF ChainAt
  <2>3. i \in 1 .. Len(waiting)
    BY <1>1 DEF TypeOK
  <2>4. InOrder(c) /\ FreedTo(c, Len(c) - 1)
    BY <1>1, <2>2, <2>3 DEF Shapes
  <2> HIDE DEF c
  <2> QED BY <1>3, <2>4 DEF c
<1> QED BY <1>6, <1>7, <1>8, PlaceKinds DEF PlaceFacts

(* The loop of vNetBufFreeAll never goes on from a netbuf that is gone, no   *)
(* buffer is freed twice but by the RIB's failed post, and the netbufs that  *)
(* a holder may read are live, with memory nobody else has.                  *)
THEOREM ReadsAndFreesSound == Spec => []NoUseAfterFree
<1>1. PduInv => NoUseAfterFree
  <2> SUFFICES ASSUME PduInv PROVE NoUseAfterFree
    OBVIOUS
  <2>1. ASSUME program = "runs", NEW p \in Places
        PROVE  LET c == ChainAt(p)
               IN  /\ \A i \in Live(c) : c[i].buf \in allocated
                   /\ c # <<>> => Len(c) \in Live(c)
                   /\ \A q \in Places \ {p} : BufsOf(c) \cap BufsOf(ChainAt(q)) = {}
    <3>1. Owned
      BY <2>1 DEF PduInv
    <3>2. /\ BufsOf(ChainAt(p)) \subseteq allocated
          /\ \A q \in Places \ {p} : BufsOf(ChainAt(p)) \cap BufsOf(ChainAt(q)) = {}
      BY <3>1, OwnedHas DEF Has
    <3> DEFINE c == ChainAt(p)
    <3>3. InOrder(c) /\ (c # <<>> => Len(c) \in Live(c))
      BY <2>1, ChainsLive
    <3> HIDE DEF c
    <3>4. ASSUME NEW i \in Live(c) PROVE c[i].buf \in BufsOf(c)
      <4>1. i \in DOMAIN c /\ DOMAIN c = 1 .. Len(c) /\ ~c[i].freed
        BY <3>3 DEF Live, InOrder
      <4>2. c[i].buf # NoBuf
        BY <3>3, <4>1 DEF InOrder
      <4> QED BY <4>1, <4>2 DEF BufsOf
    <3> QED BY <3>2, <3>3, <3>4 DEF c
  <2>2. MemoryLives
    BY <2>1 DEF MemoryLives
  <2> QED BY <2>2 DEF NoUseAfterFree, PduInv
<1> QED BY <1>1, PduInvariant, PTL

(* Until an error path forgets a chain, every buffer in use is in a chain    *)
(* that a thread, the queue or the reader's list has.                        *)
THEOREM BuffersHaveHolders == Spec => []NothingLost
<1>1. PduInv => NothingLost
  BY DEF PduInv, NothingLost, Owned
<1> QED BY <1>1, PduInvariant, PTL

(* What the interface is given is a whole frame: the netbufs that ARP and    *)
(* the encapsulations link are live and in order.                            *)
THEOREM FramesLeaveComplete == Spec => []FramesComplete
<1>1. PduInv => FramesComplete
  BY DEF PduInv
<1> QED BY <1>1, PduInvariant, PTL
=====
