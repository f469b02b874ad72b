------------------------------ MODULE Messages ------------------------------
(***************************************************************************)
(* The descriptors of the messages (CdapProto/include/*.pb.h): tag, type,    *)
(* rule and, for texts, the array they are stored in.                       *)
(***************************************************************************)
EXTENDS Pb

Ints(tags)    == [i \in DOMAIN tags |-> Optional(tags[i], "int")]
Uint32s(tags) == [i \in DOMAIN tags |-> Optional(tags[i], "uint32")]
Uint64s(tags) == [i \in DOMAIN tags |-> Optional(tags[i], "uint64")]
Strs(tags, size)   == [i \in DOMAIN tags |-> Str(tags[i], size)]
Subs(tags, fields) == [i \in DOMAIN tags |-> Sub(tags[i], fields)]
Versions(tag, size) == Field(tag, "string", "repeated", size, <<>>)

(* CDAP.pb.h *)
ObjVal ==
    <<Optional(1, "int"), Optional(2, "sint32"), Optional(3, "int"), Optional(4, "sint64"),
      Str(5, 20), Field(6, "bytes", "optional", 512, <<>>),
      Optional(7, "32bit"), Optional(8, "64bit"), Optional(9, "bool")>>

AuthPolicy == <<Str(1, 40), Versions(2, 40), Ignored(3)>>

CDAPMessage ==
    <<Optional(1, "int"), Required(2, "uint32"), Optional(3, "int"), Optional(4, "uint32")>>
    \o Strs(<<5, 6>>, 40)
    \o <<Optional(7, "int"), Sub(8, ObjVal), Optional(9, "int"), Optional(10, "int"),
         Ignored(11), Sub(18, AuthPolicy)>>
    \o Strs(<<19, 20, 21, 22, 23, 24, 25, 26, 27>>, 20) \o <<Optional(28, "int")>>

(* CommonMessages.pb.h *)
AData == Ints(<<1, 2>>) \o <<Field(3, "bytes", "optional", 512, <<>>)>>

(* EnrollmentInformationMessage.pb.h *)
EnrollmentInformation ==
    <<Optional(1, "uint64"), Versions(2, 20), Optional(3, "bool"), Str(4, 20)>>

(* NeighborMessage.pb.h, NeighborArrayMessage.pb.h *)
Neighbor ==
    Strs(<<1, 2, 3, 4>>, 20) \o <<Optional(5, "uint64"), Field(6, "difs", "repeated", 0, <<>>)>>

Neighbors == <<Field(1, "neighbors", "repeated", 0, Neighbor)>>

(* ApplicationProcessNamingInfoMessage.pb.h, PolicyDescriptorMessage.pb.h,   *)
(* QoSSpecification.pb.h                                                    *)
NamingInfo == <<Field(1, "string", "required", 20, <<>>)>> \o Strs(<<2, 3, 4>>, 20)

Policy == Strs(<<1, 2, 3>>, 20) \o <<Ignored(4)>>

QosSpec ==
    <<Str(1, 20)>> \o Uint32s(<<2>>) \o Uint64s(<<3, 4>>) \o Uint32s(<<5, 6>>)
    \o <<Optional(7, "64bit"), Optional(8, "bool"), Optional(9, "bool"), Optional(10, "int")>>
    \o Uint32s(<<11, 12>>) \o <<Ignored(13), Optional(14, "bool"), Optional(15, "uint32")>>

(* ConnectionPoliciesMessage.pb.h *)
WindowBased == Uint64s(<<1, 2>>) \o Subs(<<3, 4>>, Policy)
RateBased   == Uint64s(<<1, 2>>) \o Subs(<<3, 4, 5>>, Policy)
FlowControl == <<Optional(1, "bool"), Sub(2, WindowBased), Optional(3, "bool"), Sub(4, RateBased)>>
                 \o Uint64s(<<5, 6, 7, 8, 9, 10>>) \o Subs(<<11, 12, 13, 14>>, Policy)
RtxControl  == Uint32s(<<1, 2>>) \o Subs(<<3, 4, 5, 6, 7, 8>>, Policy) \o Uint32s(<<9>>)
DtcpConfig  == <<Optional(1, "bool"), Sub(2, FlowControl), Optional(3, "bool"), Sub(4, RtxControl)>>
                 \o Subs(<<5, 6, 7>>, Policy)
DtpConfig   == <<Optional(1, "bool")>> \o Subs(<<3, 4, 5>>, Policy)
                 \o Uint64s(<<6>>) \o Uint32s(<<7>>) \o <<Sub(8, Policy)>>

(* FlowMessage.pb.h *)
ConnectionId == Uint32s(<<1, 2, 3>>)

Flow ==
    <<Field(1, "message", "required", 0, NamingInfo), Field(2, "message", "required", 0, NamingInfo),
      Required(3, "uint64"), Optional(4, "uint64"), Required(5, "uint64"), Optional(6, "uint64"),
      Field(7, "message", "repeated", 0, ConnectionId)>>
    \o Uint32s(<<8, 9>>) \o <<Sub(10, QosSpec), Sub(12, DtpConfig), Sub(13, DtcpConfig), Ignored(14)>>
    \o Uint32s(<<15, 16, 17>>)
=============================================================================
