--------------------------------- MODULE Pb ---------------------------------
(***************************************************************************)
(* The protocol buffers library of the stack (CdapProto: pb_encode.c,        *)
(* pb_decode.c, pb_common.c), as far as its messages reach it: no oneof,     *)
(* extension, pointer or packed field. A message on the wire is a sequence   *)
(* of fields; numbers in them are varints, and texts are a name and a length.*)
(* A message in memory gives for each tag the values it holds: <<>> stands   *)
(* for has_x = false or a count of 0.                                       *)
(***************************************************************************)
EXTENDS Varint, SequencesExt, FiniteSets

CONSTANT Ids  \* what a text may say

ASSUME PbAssumption == {"", "message"} \subseteq Ids
-----------------------------------------------------------------------------
(* Fields on the wire. "cut": the message ends within the field.             *)
WireTypes  == {"varint", "64bit", "string", "32bit", "cut"}
Texts      == [id : Ids, len : Nat]
NoText     == [id |-> "", len |-> 0]
Num(tag, bytes) == [tag |-> tag, wt |-> "varint", num |-> bytes, text |-> NoText, sub |-> <<>>]
Txt(tag, text)  == [tag |-> tag, wt |-> "string", num |-> <<>>, text |-> text, sub |-> <<>>]
Msg(tag, toks)  == [tag |-> tag, wt |-> "string", num |-> <<>>,
                    text |-> [id |-> "message", len |-> Len(toks)], sub |-> toks]
Raw(tag, wt)    == [tag |-> tag, wt |-> wt, num |-> <<>>, text |-> NoText, sub |-> <<>>]
Tokens(S)       == [tag : Nat, wt : WireTypes, num : Seq(Nat), text : Texts, sub : Seq(S)]

(* The end of the message within a tag, or the tag 0. *)
pb_decode_tag(t) == t.wt # "cut" /\ t.tag # 0

pb_skip_string(t) == t.wt = "string"

pb_skip_field(t) ==
    \/ t.wt \in {"64bit", "32bit"}
    \/ pb_skip_string(t)
    \/ t.wt = "varint" /\ pb_skip_varint(t.num)

(* What a callback is given: a string as a stream of its own, of any other   *)
(* field its bytes.                                                         *)
pb_make_string_substream(t) == t.wt = "string"
read_raw_value(t) == t.wt \in {"64bit", "32bit"}
                       \/ (t.wt = "varint" /\ pb_skip_varint(t.num) /\ Len(t.num) <= 10)
-----------------------------------------------------------------------------
(* Descriptors: sequences of fields in the order of their tags. size is the  *)
(* array in memory, without the count of a byte array.                      *)
Field(tag, type, rule, size, sub) ==
    [tag |-> tag, type |-> type, rule |-> rule, size |-> size, sub |-> sub]
Optional(tag, type) == Field(tag, type, "optional", 0, <<>>)
Required(tag, type) == Field(tag, type, "required", 0, <<>>)
Str(tag, size)      == Field(tag, "string", "optional", size, <<>>)
Sub(tag, fields)    == Field(tag, "message", "optional", 0, fields)
Ignored(tag)        == Field(tag, "ignored", "optional", 0, <<>>)

(* pb_message_set_to_defaults *)
Empty(fields) == [tag \in {fields[i].tag : i \in DOMAIN fields} |-> <<>>]

(* Fault: the search does not begin again. *)
FindForward(fields, pos, tag) == {i \in pos .. Len(fields) : fields[i].tag = tag}

(* pb_field_iter_find, from position pos: round to it, or up to it when the  *)
(* tag is lower. An unknown tag leaves the position alone.                  *)
pb_field_iter_find(fields, pos, tag) ==
    LET searched == IF tag < fields[pos].tag THEN 1 .. pos ELSE DOMAIN fields
    IN  {i \in searched : fields[i].tag = tag}

(* The zigzag of signed fields and the value of fixed ones, which nobody     *)
(* reads, are left out.                                                     *)
pb_dec_bool(t) ==
    IF pb_decode_varint32(t.num).ok
    THEN Ok(IF pb_decode_varint32(t.num).val # 0 THEN 1 ELSE 0) ELSE Fail

pb_dec_varint(f, t) ==
    IF pb_decode_varint(t.num).ok
         /\ (f.type \in {"uint32", "sint32"} => pb_decode_varint(t.num).val.fits)
    THEN Ok(pb_decode_varint(t.num).val.word) ELSE Fail

pb_dec_fixed == Ok(0)

(* Fault: no room is kept for the NUL. *)
NoRoomForNul(f, t) ==
    IF t.text.len <= f.size THEN Ok(t.text) ELSE Fail

pb_dec_string(f, t) ==
    IF t.text.len + 1 <= f.size THEN Ok(t.text) ELSE Fail

pb_dec_bytes(f, t) ==
    IF t.text.len <= f.size THEN Ok(t.text) ELSE Fail

(* prvSerDesNeighborDecodeCb: the bytes of the field, whatever its wire      *)
(* type, are another DIF; nothing is not.                                   *)
prvSerDesNeighborDecodeCb(t) ==
    IF t.text.len > 0 THEN <<t.text>>
    ELSE IF t.wt = "string" THEN <<>> ELSE <<[id |-> "raw bytes", len |-> 1]>>

(* decode_basic_field: the wire type must be that of the descriptor. *)
decode_basic_field(f, t) ==
    CASE f.type \in {"32bit", "64bit"} /\ t.wt = f.type -> pb_dec_fixed
      [] f.type = "bool" /\ t.wt = "varint" -> pb_dec_bool(t)
      [] f.type = "string" /\ t.wt = "string" -> pb_dec_string(f, t)
      [] f.type = "bytes" /\ t.wt = "string" -> pb_dec_bytes(f, t)
      [] f.type \in {"int", "uint32", "sint32", "uint64", "sint64"} /\ t.wt = "varint" -> pb_dec_varint(f, t)
      [] OTHER -> Fail

(* decode_static_field: where the value goes. *)
Store(msg, f, v) ==
    IF f.rule # "repeated" THEN Ok([msg EXCEPT ![f.tag] = <<v>>])
    ELSE IF msg[f.tag] = <<>> THEN Ok([msg EXCEPT ![f.tag] = <<v>>]) ELSE Fail

(* decode_callback_field: no callback, or one of SerDesNeighbor.c. part is    *)
(* what was decoded of the bytes of the field, whatever its wire type; those  *)
(* of a varint are a tag and no more. A list of neighbors is decoded one by   *)
(* one, each from its defaults.                                             *)
prvSerDesNeighborListDecodeCb(msg, f, t, part) ==
    IF t.text.len = 0 /\ t.wt = "string" THEN Ok(msg)
    ELSE IF t.wt # "varint" /\ t.sub # <<>> /\ part.ok
         THEN Ok([msg EXCEPT ![f.tag] = Append(@, part.val)]) ELSE Fail

decode_callback_field(msg, f, t, part) ==
    IF ~pb_make_string_substream(t) /\ ~read_raw_value(t) THEN Fail
    ELSE CASE f.type = "ignored" -> Ok(msg)
           [] f.type = "difs" -> Ok([msg EXCEPT ![f.tag] = @ \o prvSerDesNeighborDecodeCb(t)])
           [] f.type = "neighbors" -> prvSerDesNeighborListDecodeCb(msg, f, t, part)

(* pb_dec_submessage: a repeated one starts from its defaults, any other     *)
(* from what the message holds. A text is no message.                       *)
Before(msg, f) ==
    IF f.rule = "repeated" \/ msg[f.tag] = <<>> THEN Empty(f.sub) ELSE msg[f.tag][1]

pb_dec_submessage(t, part) ==
    IF ~pb_make_string_substream(t) \/ (t.text.len > 0 /\ t.sub = <<>>) THEN Fail ELSE part

decode_field(msg, f, t, part) ==
    IF f.type \in {"ignored", "difs", "neighbors"} THEN decode_callback_field(msg, f, t, part)
    ELSE LET r == IF f.type = "message" THEN pb_dec_submessage(t, part)
                  ELSE decode_basic_field(f, t)
         IN  IF r.ok THEN Store(msg, f, r.val) ELSE Fail

Found(fields, s, t) == CHOOSE i \in pb_field_iter_find(fields, s.pos, t.tag) : TRUE

DecodeOne(fields, s, t, part) ==
    LET f == fields[Found(fields, s, t)]
        r == decode_field(s.msg, f, t, part)
        known == pb_field_iter_find(fields, s.pos, t.tag) # {}
    IN  CASE pb_decode_tag(t) /\ ~known /\ pb_skip_field(t) -> Ok(s)
          [] pb_decode_tag(t) /\ known /\ r.ok -> Ok([msg |-> r.val, pos |-> Found(fields, s, t),
                                                    seen |-> s.seen \cup {t.tag}])
          [] OTHER -> Fail

(* pb_decode_inner, field by field. The state is the message, the position   *)
(* of the iterator and the tags of the required fields seen; messages in the *)
(* message are decoded by Inner.                                            *)
Steps(Inner(_, _, _), fields, toks, msg) ==
    LET Part(s, t) == LET f == fields[Found(fields, s, t)]
                      IN  Inner(f.sub, t.sub, Before(s.msg, f))
        Step(a, t) == IF a.ok THEN DecodeOne(fields, a.val, t, Part(a.val, t)) ELSE Fail
        run[n \in 0 .. Len(toks)] ==
          IF n = 0 THEN Ok([msg |-> msg, pos |-> 1, seen |-> {}])
          ELSE Step(run[n - 1], toks[n])
    IN  run

Complete(fields, r) ==
    IF r.ok /\ \A i \in DOMAIN fields : fields[i].rule = "required" => fields[i].tag \in r.val.seen
    THEN Ok(r.val.msg) ELSE Fail

(* Messages without messages, and up to Flow, whose DtcpConfig has a         *)
(* FlowControl, which has a WindowBased, which has a Policy.                 *)
NoInner(fields, toks, msg) == Fail
Decode1(fields, toks, msg) == Complete(fields, Steps(NoInner, fields, toks, msg)[Len(toks)])
Decode2(fields, toks, msg) == Complete(fields, Steps(Decode1, fields, toks, msg)[Len(toks)])
Decode3(fields, toks, msg) == Complete(fields, Steps(Decode2, fields, toks, msg)[Len(toks)])
Decode4(fields, toks, msg) == Complete(fields, Steps(Decode3, fields, toks, msg)[Len(toks)])
pb_decode_inner(fields, toks, msg) ==
    Complete(fields, Steps(Decode4, fields, toks, msg)[Len(toks)])

pb_decode(fields, toks) == pb_decode_inner(fields, toks, Empty(fields))
-----------------------------------------------------------------------------
pb_enc_varint(f, v) == Ok(Num(f.tag, pb_encode_varint(v, f.type = "int")))

(* A text that fills its array has no end. *)
pb_enc_string(f, v) == IF v.len < f.size THEN Ok(Txt(f.tag, v)) ELSE Fail

pb_enc_bytes(f, v) == IF v.len <= f.size THEN Ok(Txt(f.tag, v)) ELSE Fail

(* part is what was encoded of the message. *)
pb_enc_submessage(f, part) == IF part.ok THEN Ok(Msg(f.tag, part.val)) ELSE Fail

(* encode_callback_field: prvSerDesNeighborEncodeCb, one text for each DIF,  *)
(* and prvSerDesNeighborListEncodeCb, one message for each neighbor.        *)
encode_callback_field(f, v, part) ==
    IF f.type = "difs" THEN Ok(Txt(f.tag, v)) ELSE pb_enc_submessage(f, part)

encode_basic_field(f, v, part) ==
    CASE f.type = "string"  -> pb_enc_string(f, v)
      [] f.type = "bytes"   -> pb_enc_bytes(f, v)
      [] f.type = "message" -> pb_enc_submessage(f, part)
      [] OTHER -> pb_enc_varint(f, v)

EncodeOne(f, v, part) ==
    IF f.type \in {"difs", "neighbors"} THEN encode_callback_field(f, v, part)
    ELSE encode_basic_field(f, v, part)

(* encode_field: nothing when absent, each one of an array or a callback.    *)
encode_field(f, vs, parts) ==
    IF \A j \in DOMAIN vs : EncodeOne(f, vs[j], parts[j]).ok
    THEN Ok([j \in DOMAIN vs |-> EncodeOne(f, vs[j], parts[j]).val]) ELSE Fail

(* pb_encode. *)
EncodeFields(Inner(_, _), fields, msg) ==
    LET Vals(i)  == msg[fields[i].tag]
        Parts(i) == [j \in DOMAIN Vals(i) |-> Inner(fields[i].sub, Vals(i)[j])]
        field    == [i \in DOMAIN fields |-> encode_field(fields[i], Vals(i), Parts(i))]
    IN  IF \A i \in DOMAIN fields : field[i].ok
        THEN Ok(FlattenSeq([i \in DOMAIN fields |-> field[i].val])) ELSE Fail

(* The bytes of a field, and of a message: the tag, and for a string its     *)
(* length, before what they hold.                                           *)
VarintBytes(n) == Len(pb_encode_varint(n, FALSE))
StringBytes(n) == VarintBytes(n) + n
FieldBytes(t, inside) ==
    VarintBytes(8 * t.tag) + (IF t.wt = "varint" THEN Len(t.num)
                              ELSE StringBytes(IF t.sub = <<>> THEN t.text.len ELSE inside))

BytesOf(Inner(_), toks) == FoldLeft(LAMBDA n, t : n + FieldBytes(t, Inner(t.sub)), 0, toks)
NoBytes(toks) == 0
Bytes1(toks)  == BytesOf(NoBytes, toks)
Bytes2(toks)  == BytesOf(Bytes1, toks)
Bytes3(toks)  == BytesOf(Bytes2, toks)
Bytes(toks)   == BytesOf(Bytes3, toks)

NothingInside(fields, msg) == Fail
Encode1(fields, msg) == EncodeFields(NothingInside, fields, msg)
Encode2(fields, msg) == EncodeFields(Encode1, fields, msg)
Encode3(fields, msg) == EncodeFields(Encode2, fields, msg)
Encode4(fields, msg) == EncodeFields(Encode3, fields, msg)
pb_encode(fields, msg) == EncodeFields(Encode4, fields, msg)
=============================================================================
