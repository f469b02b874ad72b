------------------------------- MODULE Varint -------------------------------
(***************************************************************************)
(* The numbers of the protocol buffers library (CdapProto: pb_encode.c,      *)
(* pb_decode.c): varints, sequences of bytes that one function writes and    *)
(* three read. A word of 32 bits is the signed number with the same bits,    *)
(* and of 64 bits the lower word is kept.                                    *)
(***************************************************************************)
EXTENDS Integers, Sequences

Ok(v) == [ok |-> TRUE, val |-> v]
Fail  == [ok |-> FALSE]
Words == {w \in Int : -2147483647 - 1 <= w /\ w <= 2147483647}
-----------------------------------------------------------------------------
(* A varint: the bytes s, seven bits in each, the lowest first. *)
Group(s, i) == IF i <= Len(s) THEN s[i] % 128 ELSE 0
Top(g)      == ((g + 8) % 16) - 8
Word(s)     == Group(s, 1) + 128 * Group(s, 2) + 16384 * Group(s, 3)
                 + 2097152 * Group(s, 4) + 268435456 * Top(Group(s, 5))

(* pb_skip_varint: any number of bytes, up to the first without 0x80. *)
pb_skip_varint(s) ==
    s # <<>> /\ s[Len(s)] < 128 /\ \A i \in 1 .. Len(s) - 1 : s[i] >= 128

(* pb_decode_varint: at most ten bytes. fits: the upper word is 0. *)
pb_decode_varint(s) ==
    IF pb_skip_varint(s) /\ Len(s) <= 10
    THEN Ok([word |-> Word(s),
             fits |-> /\ Group(s, 5) < 16
                      /\ \A i \in 6 .. 9 : Group(s, i) = 0
                      /\ Group(s, 10) % 2 = 0])
    ELSE Fail

(* Fault: the bytes are not counted. *)
AnyLength(s) ==
    IF /\ pb_skip_varint(s)
       /\ Len(s) = 5 => Group(s, 5) < 16
       /\ \A i \in 6 .. Len(s) :
            \/ Group(s, i) = 0
            \/ Word(s) < 0 /\ s[i] = (IF i < 10 THEN 255 ELSE 1)
    THEN Ok(Word(s)) ELSE Fail

(* pb_decode_varint32: what does not fit must continue the sign. *)
pb_decode_varint32(s) ==
    IF /\ pb_skip_varint(s) /\ Len(s) <= 10
       /\ Len(s) = 5 => Group(s, 5) < 16
       /\ \A i \in 6 .. Len(s) :
            \/ Group(s, i) = 0
            \/ Word(s) < 0 /\ s[i] = (IF i < 10 THEN 255 ELSE 1)
    THEN Ok(Word(s)) ELSE Fail

(* The low 31 bits of a word, and its 32 bits in groups of seven. *)
Low(w)    == IF w < 0 THEN w + 2147483647 + 1 ELSE w
Groups(w) == <<Low(w) % 128, (Low(w) \div 128) % 128, (Low(w) \div 16384) % 128,
               (Low(w) \div 2097152) % 128,
               (Low(w) \div 268435456) + (IF w < 0 THEN 8 ELSE 0)>>

(* How many groups are written: the zeros at the end are not, but for one. *)
Length(w) == CHOOSE n \in 1 .. 5 : /\ \A i \in n + 1 .. 5 : Groups(w)[i] = 0
                                   /\ n > 1 => Groups(w)[n] # 0

(* A negative word that is signed is 64 bits long: the sign fills the rest. *)
Written(w, signed) ==
    IF w < 0 /\ signed
    THEN SubSeq(Groups(w), 1, 4) \o <<Groups(w)[5] + 112, 127, 127, 127, 127, 1>>
    ELSE SubSeq(Groups(w), 1, Length(w))

(* pb_encode_varint: every byte but the last has the bit 0x80. *)
pb_encode_varint(w, signed) ==
    LET g == Written(w, signed)
    IN  [i \in 1 .. Len(g) |-> IF i < Len(g) THEN g[i] + 128 ELSE g[i]]
=============================================================================
