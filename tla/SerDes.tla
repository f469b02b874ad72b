------------------------------- MODULE SerDes -------------------------------
(***************************************************************************)
(* What becomes of a message between two members: a structure is made        *)
(* (Ribd/CdapMessage.c), encoded (SerDes*.c over CdapProto), travels, and is *)
(* decoded. The other member may use another encoder, which orders fields    *)
(* its own way, knows more of them or repeats them, and nothing protects a   *)
(* frame: the actions of the network change the wire. Texts that are copied  *)
(* without a bound (strcpy, memcpy) are taken to fit their arrays. <<>> is a *)
(* NULL pointer or, where the code says so, memory that was never written.   *)
(***************************************************************************)
EXTENDS Messages

CONSTANTS
    Cdaps, NeighborLists, Enrollments, Flows, \* structures that are sent
    Unknowns,  \* fields that the descriptors do not have
    Numbers,   \* bytes that may be found where a number belongs
    Lengths,   \* lengths a text may be found to have
    MaxEdits,  \* bound on what happens to a message on its way
    SerValSize, CdapSize, FlowSize \* sizeof of serObjectValue_t, rina_messages_CDAPMessage
                                   \* and rina_messages_Flow

(* The structures of the code, with their pointers that may be NULL. *)
Pointers == {<<>>} \cup [1 .. 1 -> Texts]
NameTexts == [1 .. 4 -> Texts]

ASSUME SerDesAssumption ==
    /\ Cdaps \subseteq
         [version : Words, opCode : Words, invokeID : Words, result : Words, objInst : Words,
          dest : NameTexts, src : NameTexts, auth : {<<>>} \cup [1 .. 2 -> Texts],
          reason : Pointers, objClass : Pointers, objName : Pointers, objValue : Pointers]
    /\ NeighborLists \subseteq
         Seq([names : [1 .. 4 -> Pointers], difs : Seq(Texts), address : Words])
    /\ Enrollments \subseteq [address : Words, startEarly : BOOLEAN, token : Pointers]
    /\ Flows \subseteq
         [src : NameTexts, dest : NameTexts, srcPort : Words, srcAddress : Words,
          hopCount : Words, cep : [qos : Words, src : Words, dest : Words],
          qosId : Words, qosName : Texts, partial : BOOLEAN, order : BOOLEAN,
          aTimer : Words, dtcpPresent : BOOLEAN]
    /\ Unknowns \subseteq Tokens({})
    /\ Numbers \subseteq Seq(Nat) /\ Lengths \subseteq Nat
    /\ SerValSize \in Nat /\ CdapSize \in Nat /\ FlowSize \in Nat

VARIABLES
    state,     \* where the message is
    kind, source,
    wire,
    edits,     \* what has happened on the way
    received

vars == <<state, kind, source, wire, edits, received>>

Fields(k) == CASE k = "cdap" -> CDAPMessage
               [] k = "neighbors" -> Neighbors
               [] k = "enrollment" -> EnrollmentInformation
               [] k = "flow" -> Flow

Get(msg, tag, default) == IF msg[tag] = <<>> THEN default ELSE msg[tag][1]
Bool(b) == IF b THEN 1 ELSE 0

(* strncpy into an array: a text that fills it is not ended. *)
Strncpy(text, size) == IF text.len < size THEN text ELSE [text EXCEPT !.len = size]
Copied(p, size) == [i \in DOMAIN p |-> Strncpy(p[i], size)]
-----------------------------------------------------------------------------
(* CdapMessage.c. The result of a response is not stored. *)
pxRibCdapMsgCreate ==
    [version |-> 1, opCode |-> -1, invokeID |-> 1, result |-> 0, objInst |-> -1,
     dest |-> <<NoText, [id |-> "Management", len |-> 10], NoText, NoText>>,
     src  |-> <<NoText, [id |-> "Management", len |-> 10], NoText, NoText>>,
     auth |-> <<>>, reason |-> <<>>, objClass |-> <<>>, objName |-> <<>>, objValue |-> <<>>]

pxRibCdapMsgCreateRequest(class, name, inst, op, value, invokeId) ==
    [pxRibCdapMsgCreate EXCEPT !.objClass = class, !.objName = name, !.objInst = inst,
                               !.opCode = op, !.objValue = value, !.invokeID = invokeId]

pxRibCdapMsgCreateResponse(class, name, inst, op, value, reason, invokeId) ==
    [pxRibCdapMsgCreateRequest(class, name, inst, op, value, invokeId) EXCEPT !.reason = reason]

(* xSerDesMessageEncode: -1 is not sent. A name is process name, process     *)
(* instance, entity name, entity instance.                                  *)
CdapFields(m) ==
    [Empty(CDAPMessage) EXCEPT
       ![28] = <<m.version>>, ![2] = <<m.opCode>>, ![3] = <<m.invokeID>>,
       ![9] = IF m.result = -1 THEN <<>> ELSE <<m.result>>,
       ![7] = IF m.objInst = -1 THEN <<>> ELSE <<m.objInst>>,
       ![19] = <<Strncpy(m.dest[4], 20)>>, ![20] = <<Strncpy(m.dest[3], 20)>>,
       ![21] = <<Strncpy(m.dest[2], 20)>>, ![22] = <<Strncpy(m.dest[1], 20)>>,
       ![23] = <<Strncpy(m.src[4], 20)>>, ![24] = <<Strncpy(m.src[3], 20)>>,
       ![25] = <<Strncpy(m.src[2], 20)>>, ![26] = <<Strncpy(m.src[1], 20)>>,
       ![18] = IF m.auth = <<>> THEN <<>>
               ELSE <<[Empty(AuthPolicy) EXCEPT ![1] = <<m.auth[1]>>,
                                                ![2] = <<Strncpy(m.auth[2], 40)>>]>>,
       ![27] = Copied(m.reason, 20), ![5] = Copied(m.objClass, 40), ![6] = Copied(m.objName, 40),
       ![8] = [i \in DOMAIN m.objValue |-> [Empty(ObjVal) EXCEPT ![6] = <<m.objValue[i]>>]]]

(* pxSerDesMessageDecode: the array of the result reason begins in the       *)
(* middle of that of the object name and is written last.                   *)
Overlaid(name, reason) ==
    CASE name.len < 20 -> name
      [] name.len >= 20 /\ reason.len > 0 -> [id |-> "name and reason", len |-> 20 + reason.len]
      [] OTHER -> [id |-> IF name.len = 20 THEN name.id ELSE "cut", len |-> 20]

CdapStruct(c) ==
    [version |-> Get(c, 28, 0), opCode |-> Get(c, 2, 0), invokeID |-> Get(c, 3, 0),
     result |-> Get(c, 9, 0), objInst |-> Get(c, 7, 0),
     dest |-> <<Get(c, 22, NoText), Get(c, 21, NoText), Get(c, 20, NoText), Get(c, 19, NoText)>>,
     src  |-> <<Get(c, 26, NoText), Get(c, 25, NoText), Get(c, 24, NoText), Get(c, 23, NoText)>>,
     auth |-> IF c[18] = <<>> THEN <<<<NoText>>, NoText>>
              ELSE <<c[18][1][1], Get(c[18][1], 2, NoText)>>,
     objClass |-> Get(c, 5, NoText),
     objName |-> Overlaid(Get(c, 6, NoText), Get(c, 27, NoText)),
     reason |-> Get(c, 27, NoText),
     objValue |-> [i \in DOMAIN c[8] |-> Get(c[8][i], 6, NoText)]]
-----------------------------------------------------------------------------
(* pxSerDesNeighborEncodePrepare fills one message for neighbor after        *)
(* neighbor: a name that is NULL leaves that of the one before. The address  *)
(* is not sent.                                                             *)
Prepare(msg, n) ==
    [tag \in DOMAIN msg |->
       CASE tag = 6 -> n.difs
         [] tag = 5 -> <<>>
         [] OTHER -> IF n.names[tag] = <<>> THEN msg[tag] ELSE Copied(n.names[tag], 20)]

(* Fault: the message of the first neighbor is sent for each. *)
FirstOfAll(ns) ==
    [Empty(Neighbors) EXCEPT ![1] = [i \in DOMAIN ns |-> Prepare(Empty(Neighbor), ns[1])]]

NeighborsFields(ns) ==
    LET filled[i \in 0 .. Len(ns)] ==
          IF i = 0 THEN Empty(Neighbor) ELSE Prepare(filled[i - 1], ns[i])
    IN  [Empty(Neighbors) EXCEPT ![1] = [i \in DOMAIN ns |-> filled[i]]]

(* prvSerDesRinaNeighborToNeighborMessage. Without an address, or an entity  *)
(* instance, the memory is not written.                                     *)
NeighborStruct(c) ==
    [names |-> <<c[1], c[2], c[3], c[4]>>, difs |-> c[6], address |-> c[5]]

NeighborsStruct(c) == [i \in DOMAIN c[1] |-> NeighborStruct(c[1][i])]
-----------------------------------------------------------------------------
(* pxSerDesEnrollmentEncode, pxSerDesEnrollmentDecode: startEarly is not     *)
(* read, and what is absent is not written.                                 *)
EnrollmentFields(m) ==
    [Empty(EnrollmentInformation) EXCEPT
       ![3] = <<Bool(m.startEarly)>>,
       ![1] = IF m.address > 0 THEN <<m.address>> ELSE <<>>,
       ![4] = Copied(m.token, 20)]

EnrollmentStruct(c) == [address |-> c[1], token |-> c[4]]
-----------------------------------------------------------------------------
(* pxSerDesFlowEncode: of a name only the process name is marked as present, *)
(* and the policy of DTP, which is filled in, is not.                       *)
NameFields(name) == [Empty(NamingInfo) EXCEPT ![1] = <<Strncpy(name[1], 20)>>]

FlowFields(m) ==
    [Empty(Flow) EXCEPT
       ![1] = <<NameFields(m.src)>>, ![2] = <<NameFields(m.dest)>>,
       ![3] = <<m.srcPort>>, ![5] = <<m.srcAddress>>, ![17] = <<m.hopCount>>,
       ![7] = <<[Empty(ConnectionId) EXCEPT ![1] = <<m.cep.qos>>, ![2] = <<m.cep.src>>,
                                            ![3] = <<m.cep.dest>>]>>,
       ![10] = <<[Empty(QosSpec) EXCEPT ![2] = <<m.qosId>>, ![1] = <<m.qosName>>,
                                        ![8] = <<Bool(m.partial)>>, ![9] = <<Bool(m.order)>>]>>,
       ![12] = <<[Empty(DtpConfig) EXCEPT ![7] = <<m.aTimer>>, ![1] = <<Bool(m.dtcpPresent)>>]>>]

(* prvSerdesMsgDecodeFlow *)
NameStruct(c) == <<Get(c, 1, NoText), Get(c, 2, NoText), Get(c, 3, NoText), Get(c, 4, NoText)>>

FlowStruct(c) ==
    LET cep == IF c[7] = <<>> THEN Empty(ConnectionId) ELSE c[7][1]
    IN  [remoteAddress |-> c[6], dest |-> NameStruct(c[2][1]), src |-> NameStruct(c[1][1]),
         destPort |-> c[4], srcAddress |-> c[5][1], srcPort |-> c[3][1],
         cep |-> [qos |-> cep[1], src |-> cep[2], dest |-> cep[3]]]

Encode(k, m) == CASE k = "cdap" -> pb_encode(CDAPMessage, CdapFields(m))
                  [] k = "neighbors" -> pb_encode(Neighbors, NeighborsFields(m))
                  [] k = "enrollment" -> pb_encode(EnrollmentInformation, EnrollmentFields(m))
                  [] k = "flow" -> pb_encode(Flow, FlowFields(m))

Struct(k, c) == CASE k = "cdap" -> CdapStruct(c)
                  [] k = "neighbors" -> NeighborsStruct(c)
                  [] k = "enrollment" -> EnrollmentStruct(c)
                  [] k = "flow" -> FlowStruct(c)

Sources == ({"cdap"} \X Cdaps) \cup ({"neighbors"} \X NeighborLists)
             \cup ({"enrollment"} \X Enrollments) \cup ({"flow"} \X Flows)
-----------------------------------------------------------------------------
Init ==
    /\ state = "made"
    /\ \E s \in Sources : kind = s[1] /\ source = <<s[2]>>
    /\ wire = <<>> /\ edits = <<>>
    /\ received = <<>>

(* Fault: every encoder that keeps its structure and its bytes in one        *)
(* resource places them alike.                                              *)
BufferAsOthers(k) == IF k = "cdap" THEN 0 ELSE SerValSize * SerValSize

(* Where the bytes begin in the resource: the encoders of the enrollment and  *)
(* of flows add sizeof to a pointer to what has that size.                  *)
pvSerBuffer(k) == IF k \in {"enrollment", "flow"} THEN SerValSize * SerValSize ELSE 0

(* The length of the resource, and of the stream of the encoder. *)
ENROLLMENT_MSG_SIZE == 1500
ResourceSize(k) == CASE k = "cdap" -> CdapSize
                     [] k = "flow" -> FlowSize + SerValSize
                     [] OTHER -> ENROLLMENT_MSG_SIZE + SerValSize
StreamSize(k)   == CASE k = "cdap" -> CdapSize
                     [] k = "flow" -> FlowSize
                     [] OTHER -> ENROLLMENT_MSG_SIZE

CanEncode == LET r == Encode(kind, source[1]) IN r.ok /\ Bytes(r.val) <= StreamSize(kind)

(* An encoder finds no resource, a text has no end, or the stream is full. *)
EncodeFails ==
    /\ state = "made"
    /\ state' = "refused"
    /\ UNCHANGED <<kind, source, wire, edits, received>>

EncodeMessage ==
    /\ state = "made" /\ CanEncode
    /\ wire' = Encode(kind, source[1]).val
    /\ state' = "sent"
    /\ UNCHANGED <<kind, source, edits, received>>
-----------------------------------------------------------------------------
(* On the way: another order, unknown fields, a field twice, without one,    *)
(* with another number or a text of another length, a text or a message as a *)
(* fixed number of its bytes, with its end cut off; in the message or in one  *)
(* that is a field of it.                                                   *)
Edit(what, changed(_)) ==
    /\ state = "sent" /\ Len(edits) < MaxEdits
    /\ \/ wire' \in changed(wire)
       \/ \E i \in DOMAIN wire : \E w \in changed(wire[i].sub) :
             wire' = [wire EXCEPT ![i] = Msg(wire[i].tag, w)]
    /\ edits' = Append(edits, what)
    /\ UNCHANGED <<state, kind, source, received>>

Swaps(w) == {i \in 1 .. Len(w) - 1 : w[i].tag # w[i + 1].tag}
Reordered(w)  == {[w EXCEPT ![i] = w[i + 1], ![i + 1] = w[i]] : i \in Swaps(w)}
Extended(w)   == {InsertAt(w, i, t) : i \in 1 .. (IF w = <<>> THEN 0 ELSE Len(w) + 1), t \in Unknowns}
Repeated(w)   == {Append(w, w[i]) : i \in DOMAIN w}
Shortened(w)  == {RemoveAt(w, i) : i \in DOMAIN w}
Renumbered(w) == {[w EXCEPT ![i].num = n] : i \in {j \in DOMAIN w : w[j].wt = "varint"}, n \in Numbers}
Resized(w)    == {[w EXCEPT ![i].text.len = n] :
                    i \in {j \in DOMAIN w : w[j].wt = "string" /\ w[j].sub = <<>>}, n \in Lengths}
Holding(w, n) == {i \in DOMAIN w :
                    /\ w[i].wt = "string"
                    /\ n = IF w[i].sub = <<>> THEN w[i].text.len ELSE Bytes(w[i].sub)}
Retyped(w)    == {[w EXCEPT ![i].wt = "32bit"] : i \in Holding(w, 4)}
                   \cup {[w EXCEPT ![i].wt = "64bit"] : i \in Holding(w, 8)}
Truncated(w)  == {Append(SubSeq(w, 1, i - 1), [w[i] EXCEPT !.wt = "cut"]) : i \in DOMAIN w}

Reorder  == Edit("reorder", Reordered)
Extend   == Edit("extend", Extended)
Repeat   == Edit("repeat", Repeated)
Lose     == Edit("lose", Shortened)
Renumber == Edit("renumber", Renumbered)
Resize   == Edit("resize", Resized)
Retype   == Edit("retype", Retyped)
Cut      == Edit("cut", Truncated)
-----------------------------------------------------------------------------
Decoded == pb_decode(Fields(kind), wire)

Decode ==
    /\ state = "sent" /\ Decoded.ok
    /\ received' = <<Struct(kind, Decoded.val)>>
    /\ state' = "received"
    /\ UNCHANGED <<kind, source, wire, edits>>

(* The message cannot be decoded, or the memory is short. *)
DecodeFails ==
    /\ state = "sent"
    /\ state' = "refused"
    /\ UNCHANGED <<kind, source, wire, edits, received>>

Network == Reorder \/ Extend \/ Repeat \/ Lose \/ Renumber \/ Resize \/ Retype \/ Cut
Next == EncodeFails \/ EncodeMessage \/ Network \/ Decode \/ DecodeFails
Spec == Init /\ [][Next]_vars
-----------------------------------------------------------------------------
(* Other encoders of the same message. *)
Equivalent == \A i \in DOMAIN edits : edits[i] \in {"reorder", "extend"}

TextOr(p) == IF p = <<>> THEN NoText ELSE p[1]
ZeroOr(n) == IF n = -1 THEN 0 ELSE n

(* CDAP: a result or an instance of -1 comes back as 0. Of an object name of  *)
(* 20 characters or more only the beginning is kept.                        *)
SameCdap(m, r) ==
    /\ <<r.version, r.opCode, r.invokeID>> = <<m.version, m.opCode, m.invokeID>>
    /\ r.result = ZeroOr(m.result) /\ r.objInst = ZeroOr(m.objInst)
    /\ r.dest = m.dest /\ r.src = m.src
    /\ m.auth # <<>> => r.auth = <<<<m.auth[1]>>, m.auth[2]>>
    /\ r.objClass = TextOr(m.objClass) /\ r.reason = TextOr(m.reason)
    /\ IF TextOr(m.objName).len < 20 THEN r.objName = TextOr(m.objName) ELSE r.objName.len >= 20
    /\ r.objValue = m.objValue

(* Neighbors: a name that is NULL is that of the last neighbor before that    *)
(* had one, and a neighbor of whom nothing is written is left out. The rest   *)
(* comes in order, with every DIF that has a name.                          *)
NameSent(ns, i, k) ==
    LET named == {j \in 1 .. i : ns[j].names[k] # <<>>}
    IN  IF named = {} THEN <<>>
        ELSE ns[CHOOSE j \in named : \A l \in named : l <= j].names[k]

SameNeighbors(ns, rs) ==
    LET sent == [i \in DOMAIN ns |-> [names |-> [k \in 1 .. 4 |-> NameSent(ns, i, k)],
                                     difs |-> ns[i].difs]]
        written == SelectSeq(sent, LAMBDA s : s.difs # <<>> \/ \E k \in 1 .. 4 : s.names[k] # <<>>)
    IN  /\ Len(rs) = Len(written)
        /\ \A i \in DOMAIN rs :
              /\ rs[i].names = written[i].names
              /\ rs[i].difs = SelectSeq(written[i].difs, LAMBDA d : d.len > 0)

(* Flows: the process names and what the structure in memory gets from the    *)
(* message.                                                                 *)
SameFlow(m, r) ==
    /\ r.dest[1] = m.dest[1] /\ r.src[1] = m.src[1]
    /\ <<r.srcPort, r.srcAddress>> = <<m.srcPort, m.srcAddress>>
    /\ r.cep = [qos |-> <<m.cep.qos>>, src |-> <<m.cep.src>>, dest |-> <<m.cep.dest>>]

Same(k, m, r) ==
    CASE k = "cdap" -> SameCdap(m, r)
      [] k = "neighbors" -> SameNeighbors(m, r)
      [] k = "enrollment" -> r.token = m.token /\ (m.address > 0 => r.address = <<m.address>>)
      [] k = "flow" -> SameFlow(m, r)

(* A member that knows more fields or writes them in another order is        *)
(* understood: its message is decoded, and the structure that is received is  *)
(* the one that was sent, but for what Same names: the end of a long object   *)
(* name (SerDesMessage.c:221), names that are NULL and neighbors without       *)
(* anything in a list, the address of a neighbor, and of a flow all but the   *)
(* process names, addresses, ports and endpoints.                           *)
RoundTrip ==
    Equivalent =>
      /\ state = "sent" => Decoded.ok
      /\ state = "received" => Same(kind, source[1], received[1])

(* Insertion after the fields with no higher tag, so that those with the     *)
(* same tag keep their order.                                               *)
Place(w, t) ==
    CHOOSE k \in 0 .. Len(w) : /\ \A i \in 1 .. k : w[i].tag <= t.tag
                               /\ \A i \in k + 1 .. Len(w) : w[i].tag > t.tag

Insert(w, t) == InsertAt(w, Place(w, t) + 1, t)

SortByTag(w) ==
    LET sorted[n \in 0 .. Len(w)] == IF n = 0 THEN <<>> ELSE Insert(sorted[n - 1], w[n])
    IN  sorted[Len(w)]

(* pb_field_iter_find searches on from the field it is at: wherever that is, *)
(* the order of the fields on the wire decides nothing, save which of two    *)
(* with the same tag is the last.                                           *)
OrderIrrelevant ==
    state = "sent" =>
      Decoded = pb_decode(Fields(kind), SortByTag(wire))

(* No text is longer than the array it is copied to, and each has its end:   *)
(* what strcpy and strlen see of a decoded message.                         *)
TextsEnd ==
    state = "received" =>
      LET r == received[1]
      IN  /\ kind = "cdap" =>
               /\ \A i \in 1 .. 4 : r.dest[i].len < 20 /\ r.src[i].len < 20
               /\ r.objClass.len < 40 /\ r.objName.len < 40 /\ r.reason.len < 20
               /\ TextOr(r.auth[1]).len < 40 /\ r.auth[2].len < 40
               /\ r.objValue # <<>> => r.objValue[1].len <= 512
          /\ kind = "enrollment" => TextOr(r.token).len < 20
          /\ kind = "flow" => \A i \in 1 .. 4 : r.dest[i].len < 20 /\ r.src[i].len < 20

(* The three readers of a varint agree on where it ends and on its lower     *)
(* word, so that a field is the same number for whoever reads or skips it.   *)
VarintsAgree ==
    \A i \in DOMAIN wire :
      LET n == wire[i].num
      IN  /\ pb_decode_varint32(n).ok =>
               pb_decode_varint(n).ok /\ pb_decode_varint(n).val.word = pb_decode_varint32(n).val
          /\ pb_decode_varint(n).ok => pb_skip_varint(n)
          /\ edits = <<>> /\ wire[i].wt = "varint" =>
               pb_decode_varint32(n).ok /\ Len(n) \in 1 .. 10

(* What an encoder wrote lies in the resource it took, also where the bytes   *)
(* begin sizeof times sizeof behind its start, because such messages are      *)
(* short, and where only the length of the stream ends them.                *)
EncodedFits ==
    state = "sent" /\ edits = <<>> => pvSerBuffer(kind) + Bytes(wire) <= ResourceSize(kind)
=============================================================================
