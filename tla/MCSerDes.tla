------------------------------ MODULE MCSerDes ------------------------------
(* Instances of the encoders and decoders for TLC. *)
EXTENDS SerDes

AllIds ==
    {"", "message", "a.DIF", "b.DIF", "c.DIF", "1", "2", "0", "Management", "class", "name", "value",
     "reason", "PSOC_authentication-none", "peer", "other", "third", "token", "app", "long",
     "unreliable", "default", "text"}

T(id, len) == [id |-> id, len |-> len]
Dif(inst) == <<T("a.DIF", 5), T(inst, 1), T("Management", 10), NoText>>

Request(name, op, value) ==
    [pxRibCdapMsgCreateRequest(<<T("class", 12)>>, name, -1, op, value, 7)
       EXCEPT !.dest = Dif("1"), !.src = Dif("2")]
Response(reason, name) ==
    [pxRibCdapMsgCreateResponse(<<T("class", 12)>>, name, 3, 25, <<>>, reason, 7)
       EXCEPT !.dest = Dif("2"), !.src = Dif("1")]

(* Object names up to and past what the decoder can hold, a text without     *)
(* end, a source nobody set, a result that is not sent.                     *)
AllCdaps ==
    {Request(<<T("name", n)>>, 24, <<T("value", 60)>>) : n \in {0, 19, 20, 33, 40}}
    \cup {Request(<<>>, 25, <<>>), pxRibCdapMsgCreate}
    \cup {Response(<<T("reason", n)>>, <<T("name", 33)>>) : n \in {0, 5, 20}}
    \cup {[Request(<<T("name", 19)>>, 0, <<>>) EXCEPT
              !.auth = <<T("PSOC_authentication-none", 24), T("1", 1)>>, !.result = -1, !.objInst = 0]}

N(a, b, d, difs) == [names |-> <<a, b, <<>>, d>>, difs |-> difs, address |-> 3]
AllNeighborLists ==
    LET full  == N(<<T("peer", 4)>>, <<T("1", 1)>>, <<NoText>>, <<T("a.DIF", 5)>>)
        bare  == N(<<T("other", 19)>>, <<>>, <<>>, <<>>)
        empty == N(<<>>, <<>>, <<>>, <<>>)
        long  == N(<<T("peer", 21)>>, <<>>, <<>>, <<NoText, T("b.DIF", 40)>>)
    IN  {<<>>, <<full>>, <<full, bare>>, <<bare, full>>, <<empty, full, bare>>, <<long>>,
         <<N(<<T("third", 5)>>, <<>>, <<>>, <<NoText, T("b.DIF", 40), T("c.DIF", 5)>>), full>>,
         <<N(<<T("peer", 6)>>, <<>>, <<>>, <<>>), full, N(<<>>, <<T("2", 2)>>, <<>>, <<>>)>>,
         <<N(<<T("peer", 2)>>, <<>>, <<>>, <<>>), N(<<>>, <<>>, <<>>, <<T("a.DIF", 8), T("b.DIF", 4)>>)>>}
        \cup {<<N(<<T("peer", 4)>>, <<>>, <<>>, <<T("a.DIF", n), T("b.DIF", 600)>>)>> :
                n \in {600, 882, 883}}

AllEnrollments ==
    [address : {0, 15}, startEarly : BOOLEAN, token : {<<>>, <<T("token", 19)>>, <<T("token", 20)>>}]

AFlow(name) ==
    [src |-> <<T(name, 8), T("1", 1), NoText, NoText>>, dest |-> <<T("peer", 4), NoText, NoText, NoText>>,
     srcPort |-> 1, srcAddress |-> 3, hopCount |-> 4, cep |-> [qos |-> 1, src |-> 2, dest |-> 0],
     qosId |-> 1, qosName |-> T("unreliable", 10), partial |-> TRUE, order |-> FALSE,
     aTimer |-> 300, dtcpPresent |-> FALSE]
AllFlows == {AFlow("app"), [AFlow("long") EXCEPT !.dest[1] = T("peer", 20)],
             [AFlow("long") EXCEPT !.src[1] = T("long", 19), !.dest[1] = T("peer", 19),
                !.srcPort = -1, !.srcAddress = -1, !.cep = [qos |-> -1, src |-> -1, dest |-> -1],
                !.qosName = T("unreliable", 19), !.aTimer = -1]}

AllUnknowns == {Num(99, <<5>>), Txt(99, T("text", 9)), Raw(30, "32bit"), Num(40, pb_encode_varint(-5, TRUE))}
                 \cup {Raw(30, "64bit")}

(* Ends and beginnings of varints around the bits where the readers differ.  *)
AllNumbers ==
    LET long(n, b, last) == [i \in 1 .. n |-> IF i < n THEN b ELSE last]
    IN  {long(n, b, last) : n \in {1, 2, 4, 5, 6, 9, 10, 11}, b \in {128, 255, 240},
                            last \in {0, 1, 15, 16, 127}}
=============================================================================
