---------------------------- MODULE SerDesProofs ----------------------------
(***************************************************************************)
(* What holds of the encoders and decoders (SerDes*.c over CdapProto) for     *)
(* every structure, every field another member may send, and any number of   *)
(* changes on the way.                                                      *)
(***************************************************************************)
EXTENDS SerDes, TLAPS, SequenceTheorems, WellFoundedInduction
-----------------------------------------------------------------------------
(* Varints. *)
(* The number of five groups of seven bits, the lowest first. *)
Value(a, b, c, d, e) == a + 128 * b + 16384 * c + 2097152 * d + 268435456 * e

(* The groups of seven bits of a number of 31 bits. *)
Sevens == 0 .. 127
Small == {n \in Nat : n <= 2147483647}
First(n)  == n % 128
Second(n) == (n \div 128) % 128
Third(n)  == (n \div 16384) % 128
Fourth(n) == (n \div 2097152) % 128
Fifth(n)  == n \div 268435456

(* The groups of a number are of seven bits, the last of three, and give it back. *)
LEMMA Digits ==
    ASSUME NEW n \in Small
    PROVE  /\ First(n) \in Sevens /\ Second(n) \in Sevens /\ Third(n) \in Sevens
           /\ Fourth(n) \in Sevens /\ Fifth(n) \in 0 .. 7
           /\ n = Value(First(n), Second(n), Third(n), Fourth(n), Fifth(n))
<1>0. n \in Nat /\ n <= 2147483647
  BY SMT DEF Small
<1> DEFINE a == n \div 128
           b == n \div 16384
           c == n \div 2097152
           h == n \div 268435456
<1>1. \A m \in Nat : /\ (m \div 128) \in Nat /\ (m % 128) \in 0 .. 127
                     /\ m = (m % 128) + 128 * (m \div 128)
  BY SMT
<1>2. /\ a \in Nat /\ b = a \div 128 /\ b \in Nat /\ c = b \div 128 /\ c \in Nat
      /\ h = c \div 128 /\ h \in Nat
  BY <1>0, SMT
<1>3. n = (n % 128) + 128 * a /\ (n % 128) \in 0 .. 127
  BY <1>0, <1>1
<1>4. a = (a % 128) + 128 * b /\ (a % 128) \in 0 .. 127
  BY <1>1, <1>2
<1>5. b = (b % 128) + 128 * c /\ (b % 128) \in 0 .. 127
  BY <1>1, <1>2
<1>6. c = (c % 128) + 128 * h /\ (c % 128) \in 0 .. 127
  BY <1>1, <1>2
<1> HIDE DEF a, b, c, h
<1>7. /\ (n % 128) \in 0 .. 127 /\ (a % 128) \in 0 .. 127 /\ (b % 128) \in 0 .. 127
      /\ (c % 128) \in 0 .. 127 /\ h \in 0 .. 7
      /\ n = (n % 128) + 128 * (a % 128) + 16384 * (b % 128) + 2097152 * (c % 128)
               + 268435456 * h
  <2> DEFINE k == n % 128
             q == a % 128
             r == b % 128
             s == c % 128
  <2>1. /\ k \in 0 .. 127 /\ q \in 0 .. 127 /\ r \in 0 .. 127 /\ s \in 0 .. 127
        /\ n = k + 128 * a /\ a = q + 128 * b /\ b = r + 128 * c /\ c = s + 128 * h
        /\ a \in Nat /\ b \in Nat /\ c \in Nat /\ h \in Nat
    BY <1>2, <1>3, <1>4, <1>5, <1>6
  <2> HIDE DEF k, q, r, s
  <2>2. n = k + 128 * q + 16384 * r + 2097152 * s + 268435456 * h
    BY <2>1, SMT
  <2>3. h \in 0 .. 7
    BY <1>0, <2>1, <2>2, SMT
  <2> QED BY <2>1, <2>2, <2>3 DEF k, q, r, s
<1> QED BY <1>7, SMT DEF a, b, c, h, First, Second, Third, Fourth, Fifth, Sevens, Value

(* The groups of a word are of seven bits, the fifth of four, and give it back. *)
LEMMA GroupsOfWord ==
    ASSUME NEW w \in Words
    PROVE  /\ Groups(w) \in Seq(Sevens) /\ Len(Groups(w)) = 5
           /\ w < 0 => Groups(w)[5] \in 8 .. 15
           /\ ~(w < 0) => Groups(w)[5] \in 0 .. 7
           /\ w = Value(Groups(w)[1], Groups(w)[2], Groups(w)[3], Groups(w)[4],
                       Top(Groups(w)[5]))
           /\ w < 0 => Top(Groups(w)[5] + 112) = Top(Groups(w)[5])
<1> DEFINE n == Low(w)
           k == First(n)
           q == Second(n)
           r == Third(n)
           s == Fourth(n)
           h == Fifth(n)
           g == h + (IF w < 0 THEN 8 ELSE 0)
<1>0. w \in Int /\ w >= -2147483648 /\ w <= 2147483647
  BY SMT DEF Words
<1>1. n \in Small /\ (w < 0 => w = n - 2147483648) /\ (~(w < 0) => w = n)
  BY <1>0, SMT DEF Low, Small
<1>2. n \in Nat
  BY <1>1, SMT DEF Small
<1>3. Groups(w) = <<k, q, r, s, g>>
  BY SMT DEF Groups, First, Second, Third, Fourth, Fifth
<1>4. w < 0 \/ ~(w < 0)
  BY <1>0, SMT
<1> HIDE DEF n
<1>5. /\ k \in Sevens /\ q \in Sevens /\ r \in Sevens /\ s \in Sevens /\ h \in 0 .. 7
      /\ n = Value(k, q, r, s, h)
  BY <1>1, Digits
<1> HIDE DEF k, q, r, s, h
<1>6. /\ w < 0 => g = h + 8
      /\ ~(w < 0) => g = h
  BY <1>0, <1>5, SMT
<1> HIDE DEF g
<1>7. /\ g \in Sevens
      /\ w < 0 => g \in 8 .. 15
      /\ ~(w < 0) => g \in 0 .. 7
  BY <1>4, <1>5, <1>6, SMT DEF Sevens
<1>8. /\ w < 0 => Top(g) = h - 8 /\ Top(g + 112) = h - 8
      /\ ~(w < 0) => Top(g) = h
  BY <1>5, <1>6, SMT DEF Top
<1>9. w = Value(k, q, r, s, Top(g))
  <2>1. CASE w < 0
    BY <2>1, <1>1, <1>2, <1>5, <1>8, SMT DEF Value, Sevens
  <2>2. CASE ~(w < 0)
    BY <2>2, <1>1, <1>2, <1>5, <1>8, SMT DEF Value, Sevens
  <2> QED BY <1>4, <2>1, <2>2
<1>10. /\ <<k, q, r, s, g>> \in Seq(Sevens) /\ Len(<<k, q, r, s, g>>) = 5
       /\ <<k, q, r, s, g>>[1] = k /\ <<k, q, r, s, g>>[2] = q /\ <<k, q, r, s, g>>[3] = r
       /\ <<k, q, r, s, g>>[4] = s /\ <<k, q, r, s, g>>[5] = g
  BY <1>5, <1>7, SMT
<1> QED BY <1>3, <1>4, <1>7, <1>8, <1>9, <1>10, Zenon

(* The groups that are written end before zeros only. *)
LEMMA LengthOfWord ==
    ASSUME NEW w \in Words
    PROVE  /\ Length(w) \in 1 .. 5
           /\ \A i \in Length(w) + 1 .. 5 : Groups(w)[i] = 0
           /\ w < 0 => Length(w) = 5
<1> DEFINE g == Groups(w)
           P(n) == /\ \A i \in n + 1 .. 5 : g[i] = 0
                   /\ n > 1 => g[n] # 0
<1>1. \E n \in 1 .. 5 : P(n)
  <2> HIDE DEF g
  <2>1. CASE g[5] # 0
    BY <2>1, SMT
  <2>2. CASE g[5] = 0 /\ g[4] # 0
    BY <2>2, SMT
  <2>3. CASE g[5] = 0 /\ g[4] = 0 /\ g[3] # 0
    BY <2>3, SMT
  <2>4. CASE g[5] = 0 /\ g[4] = 0 /\ g[3] = 0 /\ g[2] # 0
    BY <2>4, SMT
  <2>5. CASE g[5] = 0 /\ g[4] = 0 /\ g[3] = 0 /\ g[2] = 0
    BY <2>5, SMT
  <2> QED BY <2>1, <2>2, <2>3, <2>4, <2>5
<1>2. Length(w) = CHOOSE n \in 1 .. 5 : P(n)
  BY DEF Length
<1>3. Length(w) \in 1 .. 5 /\ P(Length(w))
  <2> HIDE DEF P
  <2> QED BY <1>1, <1>2
<1>4. ASSUME w < 0
      PROVE  Length(w) = 5
  <2>1. g[5] # 0
    BY <1>4, GroupsOfWord, SMT
  <2> HIDE DEF g
  <2> QED BY <1>3, <2>1, SMT
<1> QED BY <1>3, <1>4

(* Four groups followed by six. *)
LEMMA FourAndSix ==
    ASSUME NEW S, NEW f \in Seq(S), NEW e \in Seq(S), Len(f) = 4, Len(e) = 6
    PROVE  /\ f \o e \in Seq(S) /\ Len(f \o e) = 10
           /\ \A i \in 1 .. 10 : (f \o e)[i] = IF i <= 4 THEN f[i] ELSE e[i - 4]
<1> DEFINE c == f \o e
<1>1. c \in Seq(S)
  BY ConcatProperties, Zenon
<1>2. Len(c) = Len(f) + Len(e)
  BY ConcatProperties, Zenon
<1>3. \A i \in 1 .. Len(f) + Len(e) : c[i] = IF i <= Len(f) THEN f[i] ELSE e[i - Len(f)]
  BY ConcatProperties, Zenon
<1> HIDE DEF c
<1>4. Len(c) = 10 /\ \A i \in 1 .. 10 : c[i] = IF i <= 4 THEN f[i] ELSE e[i - 4]
  BY <1>2, <1>3, SMT
<1> QED BY <1>1, <1>4 DEF c

(* What is written: one to ten groups of seven bits.  Read as a number, with *)
(* zeros for the groups that are missing, they are the word.                 *)
LEMMA WrittenGroups ==
    ASSUME NEW w \in Words, NEW signed \in BOOLEAN
    PROVE  LET g == Written(w, signed)
               G(i) == IF i <= Len(g) THEN g[i] ELSE 0
           IN  /\ g \in Seq(Sevens) /\ Len(g) \in 1 .. 10
               /\ w = Value(G(1), G(2), G(3), G(4), Top(G(5)))
               /\ ~(w < 0 /\ signed) => Len(g) <= 5 /\ G(5) < 16
               /\ w < 0 /\ signed =>
                    Len(g) = 10 /\ g[10] = 1 /\ \A i \in 6 .. 9 : g[i] = 127
<1> DEFINE b == Groups(w)
           g == Written(w, signed)
           G(i) == IF i <= Len(g) THEN g[i] ELSE 0
<1>1. /\ b \in Seq(Sevens) /\ Len(b) = 5
      /\ w < 0 => b[5] \in 8 .. 15
      /\ ~(w < 0) => b[5] \in 0 .. 7
      /\ w = Value(b[1], b[2], b[3], b[4], Top(b[5]))
      /\ w < 0 => Top(b[5] + 112) = Top(b[5])
  BY GroupsOfWord
<1>2. CASE w < 0 /\ signed
  <2> DEFINE f == SubSeq(b, 1, 4)
             e == <<b[5] + 112, 127, 127, 127, 127, 1>>
  <2>1. g = f \o e
    BY <1>2 DEF Written
  <2>2. /\ f \in Seq(Sevens) /\ Len(f) = 4
        /\ f[1] = b[1] /\ f[2] = b[2] /\ f[3] = b[3] /\ f[4] = b[4]
    <3>1. \A i \in 1 .. 5 : b[i] \in Sevens
      BY <1>1, ElementOfSeq
    <3> HIDE DEF b
    <3> QED BY <3>1, SubSeqProperties, SMT
  <2>3. /\ e \in Seq(Sevens) /\ Len(e) = 6
        /\ e[1] = b[5] + 112 /\ e[6] = 1 /\ \A i \in 2 .. 5 : e[i] = 127
    <3> HIDE DEF b
    <3>1. b[5] + 112 \in Sevens
      <4>1. b[5] \in 8 .. 15
        BY <1>1, <1>2
      <4> QED BY <4>1, SMT DEF Sevens
    <3> DEFINE x == b[5] + 112
    <3>0. 127 \in Sevens /\ 1 \in Sevens
      BY DEF Sevens
    <3>2. e = <<x, 127, 127, 127, 127, 1>> /\ x \in Sevens
      BY <3>1, Zenon
    <3> HIDE DEF x, e
    <3>3. e \in Seq(Sevens) /\ Len(e) = 6
      BY <3>2, <3>0
    <3>4. e[1] = x /\ e[6] = 1 /\ \A i \in 2 .. 5 : e[i] = 127
      BY <3>2, SMT
    <3> QED BY <3>3, <3>4 DEF x
  <2> HIDE DEF b, e, f, g
  <2>4. /\ g \in Seq(Sevens) /\ Len(g) = 10
        /\ g[1] = b[1] /\ g[2] = b[2] /\ g[3] = b[3] /\ g[4] = b[4] /\ g[5] = b[5] + 112
        /\ g[10] = 1 /\ \A i \in 6 .. 9 : g[i] = 127
    <3>1. /\ g \in Seq(Sevens) /\ Len(g) = 10
          /\ \A i \in 1 .. 10 : g[i] = IF i <= 4 THEN f[i] ELSE e[i - 4]
      BY <2>1, <2>2, <2>3, FourAndSix
    <3> QED BY <2>2, <2>3, <3>1, SMT
  <2>5. G(1) = b[1] /\ G(2) = b[2] /\ G(3) = b[3] /\ G(4) = b[4] /\ G(5) = b[5] + 112
    BY <2>4, SMT
  <2> HIDE DEF G
  <2>6. w = Value(G(1), G(2), G(3), G(4), Top(G(5)))
    BY <1>1, <1>2, <2>5, Zenon
  <2>7. Len(g) \in 1 .. 10
    BY <2>4, SMT
  <2> QED BY <1>2, <2>4, <2>6, <2>7 DEF g, G
<1>3. CASE ~(w < 0 /\ signed)
  <2> DEFINE n == Length(w)
  <2>1. g = SubSeq(b, 1, n)
    BY <1>3 DEF Written
  <2>2. n \in 1 .. 5 /\ \A i \in n + 1 .. 5 : b[i] = 0
    BY LengthOfWord
  <2> HIDE DEF b, g, n
  <2>3. /\ g \in Seq(Sevens) /\ Len(g) = n /\ \A i \in 1 .. n : g[i] = b[i]
    <3>1. \A i \in 1 .. 5 : b[i] \in Sevens
      BY <1>1, ElementOfSeq
    <3> QED BY <2>1, <2>2, <3>1, SubSeqProperties, SMT
  <2>4. \A i \in 1 .. 5 : G(i) = b[i]
    BY <2>2, <2>3, SMT
  <2> HIDE DEF G
  <2>5. G(1) = b[1] /\ G(2) = b[2] /\ G(3) = b[3] /\ G(4) = b[4] /\ G(5) = b[5]
    BY <2>4, SMT
  <2>6. w = Value(G(1), G(2), G(3), G(4), Top(G(5)))
    BY <1>1, <2>5, Zenon
  <2>7. Len(g) \in 1 .. 10 /\ Len(g) <= 5 /\ G(5) < 16
    BY <1>1, <2>2, <2>3, <2>5, SMT
  <2> QED BY <1>3, <2>3, <2>6, <2>7 DEF g, G
<1> QED BY <1>2, <1>3

(* The bytes: the groups, with the bit 0x80 in all but the last. *)
LEMMA BytesOfWord ==
    ASSUME NEW w \in Words, NEW signed \in BOOLEAN
    PROVE  LET g == Written(w, signed)
               s == pb_encode_varint(w, signed)
           IN  /\ Len(s) = Len(g)
               /\ \A i \in 1 .. Len(g) : s[i] = IF i < Len(g) THEN g[i] + 128 ELSE g[i]
               /\ \A i \in 1 .. 10 : Group(s, i) = IF i <= Len(g) THEN g[i] ELSE 0
<1> DEFINE g == Written(w, signed)
           n == Len(g)
           s == pb_encode_varint(w, signed)
           F(i) == IF i < n THEN g[i] + 128 ELSE g[i]
<1>1. g \in Seq(Sevens) /\ n \in 1 .. 10
  BY WrittenGroups
<1>2. \A i \in 1 .. n : g[i] \in Sevens
  BY <1>1, ElementOfSeq
<1>3. s = [i \in 1 .. n |-> F(i)]
  BY DEF pb_encode_varint
<1> HIDE DEF g, n, s
<1>4. n \in Nat
  BY <1>1, SMT
<1>5. \A i \in 1 .. n : F(i) \in Int
  <2> SUFFICES ASSUME NEW i \in 1 .. n
               PROVE  F(i) \in Int
    OBVIOUS
  <2>1. g[i] \in Sevens
    BY <1>2
  <2>2. g[i] \in Int /\ g[i] + 128 \in Int
    BY <2>1, SMT DEF Sevens
  <2> QED BY <2>2, Zenon
<1>6. \A i \in 1 .. n : s[i] = F(i)
  BY <1>3, Zenon
<1>7. Len(s) = n
  <2> HIDE DEF F
  <2>1. s \in [1 .. n -> Int]
    BY <1>3, <1>5
  <2>2. s \in Seq(Int)
    <3>1. [1 .. n -> Int] \in {[1 .. k -> Int] : k \in Nat}
      BY <1>4
    <3>2. Seq(Int) = UNION {[1 .. k -> Int] : k \in Nat}
      BY SeqDef
    <3> QED BY <2>1, <3>1, <3>2, Zenon
  <2> DEFINE m == Len(s)
  <2>3. 1 .. m = 1 .. n /\ m \in Nat
    BY <1>3, <2>2, LenProperties, Zenon
  <2> HIDE DEF m
  <2>4. m = n
    BY <1>4, <2>3, SMT
  <2> QED BY <2>4 DEF m
<1>8. ASSUME NEW i \in 1 .. 10
      PROVE  Group(s, i) = IF i <= n THEN g[i] ELSE 0
  <2>1. CASE i <= n
    <3>1. i \in 1 .. n
      BY <1>4, <2>1, SMT
    <3>2. g[i] \in Sevens /\ (s[i] = g[i] + 128 \/ s[i] = g[i])
      BY <1>2, <1>6, <3>1
    <3>3. (s[i] % 128) = g[i]
      BY <3>2, SMT DEF Sevens
    <3> QED BY <1>7, <2>1, <3>3 DEF Group
  <2>2. CASE ~(i <= n)
    BY <1>7, <2>2 DEF Group
  <2> QED BY <2>1, <2>2
<1> QED BY <1>6, <1>7, <1>8 DEF g, s, n

(* Every word comes back from the bytes it is written in: there are one to   *)
(* ten, pb_skip_varint stops after them, both decoders find the word in its  *)
(* lower 32 bits, and what is not negative, or not signed, has no others.    *)
THEOREM WordsComeBack ==
    \A w \in Words, signed \in BOOLEAN :
       LET s == pb_encode_varint(w, signed)
       IN  /\ Len(s) \in 1 .. 10 /\ pb_skip_varint(s)
           /\ pb_decode_varint32(s) = Ok(w)
           /\ pb_decode_varint(s) = Ok([word |-> w, fits |-> ~(w < 0 /\ signed)])
<1> SUFFICES ASSUME NEW w \in Words, NEW signed \in BOOLEAN
             PROVE  LET s == pb_encode_varint(w, signed)
                    IN  /\ Len(s) \in 1 .. 10 /\ pb_skip_varint(s)
                        /\ pb_decode_varint32(s) = Ok(w)
                        /\ pb_decode_varint(s) =
                             Ok([word |-> w, fits |-> ~(w < 0 /\ signed)])
  OBVIOUS
<1> DEFINE g == Written(w, signed)
           s == pb_encode_varint(w, signed)
           n == Len(g)
           G(i) == IF i <= n THEN g[i] ELSE 0
           long == w < 0 /\ signed
<1>1. /\ g \in Seq(Sevens) /\ n \in 1 .. 10
      /\ w = Value(G(1), G(2), G(3), G(4), Top(G(5)))
      /\ ~long => n <= 5 /\ G(5) < 16
      /\ long => n = 10 /\ g[10] = 1 /\ \A i \in 6 .. 9 : g[i] = 127
  BY WrittenGroups
<1>2. /\ Len(s) = n
      /\ \A i \in 1 .. n : s[i] = IF i < n THEN g[i] + 128 ELSE g[i]
      /\ \A i \in 1 .. 10 : Group(s, i) = G(i)
  BY BytesOfWord
<1>3. \A i \in 1 .. n : g[i] \in Sevens
  BY <1>1, ElementOfSeq
<1> HIDE DEF g, s, n, G, long
<1>4. n \in 1 .. 10 /\ n <= 10 /\ n - 1 \in Int /\ n \in 1 .. n /\ ~(n < n)
  <2>1. n \in 1 .. 10
    BY <1>1
  <2> QED BY <2>1, SMT
<1>5. pb_skip_varint(s)
  <2>1. s[n] < 128
    <3>1. s[n] = g[n] /\ g[n] \in Sevens
      BY <1>2, <1>3, <1>4, Zenon
    <3> QED BY <3>1, SMT DEF Sevens
  <2>2. ASSUME NEW i \in 1 .. n - 1
        PROVE  s[i] >= 128
    <3>1. i \in 1 .. n /\ i < n
      BY <1>4, SMT
    <3>2. s[i] = g[i] + 128 /\ g[i] \in Sevens
      BY <1>2, <1>3, <3>1, Zenon
    <3> QED BY <3>2, SMT DEF Sevens
  <2>3. s # <<>>
    <3>1. n # 0
      BY <1>4, SMT
    <3> QED BY <1>2, <3>1, SMT
  <2> QED BY <1>2, <2>1, <2>2, <2>3 DEF pb_skip_varint
<1>6. Word(s) = w
  <2>1. /\ Group(s, 1) = G(1) /\ Group(s, 2) = G(2) /\ Group(s, 3) = G(3)
        /\ Group(s, 4) = G(4) /\ Group(s, 5) = G(5)
    BY <1>2, SMT
  <2>2. Word(s) = Value(Group(s, 1), Group(s, 2), Group(s, 3), Group(s, 4), Top(Group(s, 5)))
    BY SMT DEF Word, Value
  <2> QED BY <1>1, <2>1, <2>2
<1>7. Group(s, 5) = G(5)
  <2>1. 5 \in 1 .. 10
    BY SMT
  <2> QED BY <1>2, <2>1, Zenon
<1>8. ASSUME long
      PROVE  /\ n = 10 /\ w < 0
             /\ \A i \in 6 .. 10 : s[i] = IF i < 10 THEN 255 ELSE 1
             /\ Group(s, 6) = 127
  <2>1. w < 0
    BY <1>8 DEF long
  <2>2. n = 10 /\ g[10] = 1 /\ \A i \in 6 .. 9 : g[i] = 127
    BY <1>1, <1>8, Zenon
  <2>3. /\ \A i \in 1 .. 10 : s[i] = IF i < 10 THEN g[i] + 128 ELSE g[i]
        /\ \A i \in 1 .. 10 : Group(s, i) = IF i <= 10 THEN g[i] ELSE 0
    <3>1. \A i \in 1 .. 10 : s[i] = IF i < 10 THEN g[i] + 128 ELSE g[i]
      BY <1>2, <2>2
    <3>2. \A i \in 1 .. 10 : G(i) = IF i <= 10 THEN g[i] ELSE 0
      BY <2>2 DEF G
    <3> QED BY <1>2, <3>1, <3>2
  <2>4. ASSUME NEW i \in 6 .. 10
        PROVE  s[i] = IF i < 10 THEN 255 ELSE 1
    BY <2>2, <2>3, SMT
  <2>5. Group(s, 6) = 127
    BY <2>2, <2>3, SMT
  <2> QED BY <2>1, <2>2, <2>4, <2>5
<1>9. ASSUME ~long
      PROVE  n <= 5 /\ Group(s, 5) < 16 /\ \A i \in 6 .. 10 : Group(s, i) = 0
  <2>1. n <= 5 /\ G(5) < 16
    BY <1>1, <1>9, Zenon
  <2>2. ASSUME NEW i \in 6 .. 10
        PROVE  Group(s, i) = 0
    <3>1. i \in 1 .. 10 /\ ~(i <= n)
      BY <1>4, <2>1, SMT
    <3> QED BY <1>2, <3>1, Zenon DEF G
  <2> QED BY <1>7, <2>1, <2>2
<1>10. pb_decode_varint32(s) = Ok(w)
  <2>1. n = 5 => Group(s, 5) < 16
    <3>1. n = 5 => ~(n = 10)
      BY SMT
    <3> QED BY <1>8, <1>9, <3>1
  <2>2. ASSUME NEW i \in 6 .. n
        PROVE  Word(s) < 0 /\ s[i] = IF i < 10 THEN 255 ELSE 1
    <3>1. ~(n <= 5) /\ i \in 6 .. 10
      BY <1>4, SMT
    <3>2. long
      BY <1>9, <3>1, Zenon
    <3> QED BY <1>6, <1>8, <3>1, <3>2, Zenon
  <2> QED BY <1>2, <1>4, <1>5, <1>6, <2>1, <2>2 DEF pb_decode_varint32
<1>11. pb_decode_varint(s) = Ok([word |-> w, fits |-> ~long])
  <2> DEFINE fits == /\ Group(s, 5) < 16
                     /\ \A i \in 6 .. 9 : Group(s, i) = 0
                     /\ (Group(s, 10) % 2) = 0
  <2>1. fits = ~long
    <3>1. CASE long
      <4>1. 6 \in 6 .. 9 /\ 127 # 0
        BY SMT
      <4>2. Group(s, 6) # 0
        BY <1>8, <3>1, <4>1, Zenon
      <4> QED BY <3>1, <4>1, <4>2, Zenon
    <3>2. CASE ~long
      <4>1. 10 \in 6 .. 10 /\ (0 % 2) = 0 /\ \A i \in 6 .. 9 : i \in 6 .. 10
        BY SMT
      <4> QED BY <1>9, <3>2, <4>1, Zenon
    <3> QED BY <3>1, <3>2
  <2> QED BY <1>2, <1>4, <1>5, <1>6, <2>1 DEF pb_decode_varint
<1> QED BY <1>2, <1>4, <1>5, <1>10, <1>11 DEF s, long-----------------------------------------------------------------------------
(* Induction over the positions of a sequence, without an operator. *)
LEMMA Along ==
    ASSUME NEW n \in Nat, NEW G \in SUBSET (0 .. n), 0 \in G,
           \A k \in 1 .. n : k - 1 \in G => k \in G
    PROVE  G = 0 .. n
<1> SUFFICES ASSUME G # 0 .. n PROVE FALSE
  OBVIOUS
<1> DEFINE R == OpToRel(<, Nat)
           B == (0 .. n) \ G
<1>1. IsWellFoundedOn(R, Nat)
  BY NatLessThanWellFounded
<1>2. \A x, y \in Nat : y < x => <<y, x>> \in R
  BY DEF OpToRel
<1> HIDE DEF R
<1>3. B \subseteq Nat /\ B # {}
  <2>1. 0 .. n \subseteq Nat
    BY SMT
  <2> QED BY <2>1, Zenon
<1>4. PICK x \in B : \A y \in B : ~ (<<y, x>> \in R)
  BY <1>1, <1>3, WFMin, Zenon
<1>5. x \in 1 .. n /\ x - 1 \in 0 .. n /\ x \in Nat /\ x - 1 \in Nat /\ x - 1 < x
  BY <1>4, SMT
<1>6. x - 1 \notin B
  BY <1>2, <1>4, <1>5, Zenon
<1> QED BY <1>4, <1>5, <1>6

(* A function with the domain of a sequence is one. *)
LEMMA SequenceOf ==
    ASSUME NEW S, NEW n \in Nat, NEW f \in [1 .. n -> S]
    PROVE  f \in Seq(S) /\ Len(f) = n
<1>1. f \in Seq(S)
  <2>1. Seq(S) = UNION {[1 .. k -> S] : k \in Nat}
    BY SeqDef
  <2> QED BY <2>1, Zenon
<1> DEFINE m == Len(f)
<1>2. 1 .. m = 1 .. n /\ m \in Nat
  BY <1>1, LenProperties, Zenon
<1> HIDE DEF m
<1>3. m = n
  BY <1>2, SMT
<1> QED BY <1>1, <1>3 DEF m

(* FlattenSeq puts sequences end to end. *)
LEMMA Flattened ==
    ASSUME NEW S, NEW n \in Nat, NEW F \in [1 .. n -> Seq(S)]
    PROVE  FlattenSeq(F) \in Seq(S)
<1>1. Len(F) = n
  BY SequenceOf
<1>2. CASE n = 0
  <2>1. FlattenSeq(F) = F
    BY <1>1, <1>2 DEF FlattenSeq
  <2>2. F \in [1 .. n -> S]
    BY <1>2
  <2> QED BY <2>1, <2>2, SequenceOf
<1>3. CASE n # 0
  <2> DEFINE Joined(g, k) == g = [i \in 1 .. k |-> IF i = 1 THEN F[i] ELSE g[i - 1] \o F[i]]
             K == {k \in 0 .. n : \E g : Joined(g, k)}
  <2>1. 0 \in K
    <3>1. Joined([i \in 1 .. 0 |-> i], 0)
      OBVIOUS
    <3>2. \E g : Joined(g, 0)
      BY <3>1, Zenon
    <3> HIDE DEF Joined
    <3> QED BY <3>2, SMT
  <2>2. ASSUME NEW k \in 1 .. n, k - 1 \in K
        PROVE  k \in K
    <3>1. PICK g : Joined(g, k - 1)
      BY <2>2
    <3> DEFINE last == IF k = 1 THEN F[k] ELSE g[k - 1] \o F[k]
               h == [i \in 1 .. k |-> IF i = k THEN last ELSE g[i]]
    <3>2. ASSUME NEW i \in 1 .. k
          PROVE  h[i] = IF i = 1 THEN F[i] ELSE h[i - 1] \o F[i]
      <4>1. CASE i = k
        BY <4>1
      <4>2. CASE i # k
        <5>1. i \in 1 .. k - 1 /\ (i # 1 => i - 1 \in 1 .. k - 1 /\ i - 1 # k)
          BY <4>2
        <5>2. h[i] = g[i] /\ (i # 1 => h[i - 1] = g[i - 1])
          BY <5>1, <4>2
        <5>3. g[i] = IF i = 1 THEN F[i] ELSE g[i - 1] \o F[i]
          BY <3>1, <5>1, Zenon
        <5> QED BY <5>2, <5>3
      <4> QED BY <4>1, <4>2
    <3>3. h = [i \in 1 .. k |-> h[i]]
      OBVIOUS
    <3> HIDE DEF h
    <3>4. Joined(h, k)
      BY <3>2, <3>3
    <3> HIDE DEF Joined
    <3> QED BY <3>4
  <2>3. PICK g : Joined(g, n)
    <3>1. n \in K
      <4> HIDE DEF Joined
      <4>1. K = 0 .. n
        <5> HIDE DEF K
        <5>1. K \in SUBSET (0 .. n)
          BY DEF K
        <5> QED BY <2>1, <2>2, <5>1, Along
      <4> QED BY <4>1
    <3> QED BY <3>1
  <2> DEFINE flatten[i \in 1 .. Len(F)] == IF i = 1 THEN F[i] ELSE flatten[i - 1] \o F[i]
  <2>4. FlattenSeq(F) = flatten[n]
    BY <1>1, <1>3 DEF FlattenSeq
  <2>5. Joined(flatten, n)
    BY <2>3, <1>1
  <2> HIDE DEF flatten
  <2> DEFINE G == {k \in 0 .. n : k # 0 => flatten[k] \in Seq(S)}
  <2>6. \A k \in 1 .. n : k - 1 \in G => k \in G
    <3> SUFFICES ASSUME NEW k \in 1 .. n, k - 1 \in G PROVE flatten[k] \in Seq(S)
      BY SMT
    <3>1. flatten[k] = IF k = 1 THEN F[k] ELSE flatten[k - 1] \o F[k]
      BY <2>5, Zenon
    <3>2. F[k] \in Seq(S)
      OBVIOUS
    <3>3. CASE k # 1
      <4>1. flatten[k - 1] \in Seq(S)
        BY <3>3
      <4> QED BY <3>1, <3>2, <3>3, <4>1, ConcatProperties, Zenon
    <3> QED BY <3>1, <3>2, <3>3
  <2>7. n \in G
    <3>1. 0 \in G /\ G \in SUBSET (0 .. n)
      BY SMT
    <3> HIDE DEF G
    <3> QED BY <2>6, <3>1, Along
  <2> QED BY <1>3, <2>4, <2>7, Zenon
<1> QED BY <1>2, <1>3
-----------------------------------------------------------------------------
(* Decoding: one result after each field of the message, given what was      *)
(* decoded of the messages in it.                                           *)
IsRun(run, parts, fields, toks, msg) ==
    /\ run[0] = Ok([msg |-> msg, pos |-> 1, seen |-> {}])
    /\ \A k \in 1 .. Len(toks) :
         run[k] = IF run[k - 1].ok THEN DecodeOne(fields, run[k - 1].val, toks[k], parts[k])
                  ELSE Fail

IsReading(run, parts, fields, toks, msg) ==
    /\ pb_decode_inner(fields, toks, msg) = Complete(fields, run[Len(toks)])
    /\ IsRun(run, parts, fields, toks, msg)
    /\ \A k \in 1 .. Len(toks) :
         parts[k] = Decode4(fields[Found(fields, run[k - 1].val, toks[k])].sub, toks[k].sub,
                            Before(run[k - 1].val.msg, fields[Found(fields, run[k - 1].val, toks[k])]))

(* The recursive functions of both levels are such runs. *)
LEMMA RunOfMessage ==
    ASSUME NEW fields, NEW toks, NEW msg, Len(toks) \in Nat
    PROVE  \E run, parts : IsReading(run, parts, fields, toks, msg)
<1> DEFINE n == Len(toks)
           first == Ok([msg |-> msg, pos |-> 1, seen |-> {}])
           Part(s, t) == LET f == fields[Found(fields, s, t)]
                         IN  Decode4(f.sub, t.sub, Before(s.msg, f))
           Step(a, t) == IF a.ok THEN DecodeOne(fields, a.val, t, Part(a.val, t)) ELSE Fail
           Runs(g, k) == g = [i \in 0 .. k |-> IF i = 0 THEN first ELSE Step(g[i - 1], toks[i])]
           run[i \in 0 .. Len(toks)] == IF i = 0 THEN first ELSE Step(run[i - 1], toks[i])
<1>1. \E g : Runs(g, n)
  <2> HIDE DEF n, first, Step
  <2> DEFINE K == {k \in 0 .. n : \E g : Runs(g, k)}
  <2>1. 0 \in K
    <3>1. Runs([i \in 0 .. 0 |-> first], 0)
      OBVIOUS
    <3>2. \E g : Runs(g, 0)
      BY <3>1, Zenon
    <3> HIDE DEF Runs
    <3> QED BY <3>2, SMT DEF n
  <2>2. ASSUME NEW k \in 1 .. n, k - 1 \in K
        PROVE  k \in K
    <3>1. PICK g : Runs(g, k - 1)
      BY <2>2
    <3> DEFINE h == [i \in 0 .. k |-> IF i = k THEN Step(g[k - 1], toks[k]) ELSE g[i]]
    <3>2. ASSUME NEW i \in 0 .. k
          PROVE  h[i] = IF i = 0 THEN first ELSE Step(h[i - 1], toks[i])
      <4>1. k # 0 /\ k \in Nat
        BY DEF n
      <4>2. CASE i = k
        <5>1. k - 1 \in 0 .. k /\ k - 1 # k
          BY <4>1
        <5> QED BY <4>1, <4>2, <5>1
      <4>3. CASE i # k
        <5>1. i \in 0 .. k - 1 /\ (i # 0 => i - 1 \in 0 .. k /\ i - 1 # k)
          BY <4>1, <4>3
        <5>2. h[i] = g[i] /\ (i # 0 => h[i - 1] = g[i - 1])
          BY <5>1, <4>3
        <5>3. g[i] = IF i = 0 THEN first ELSE Step(g[i - 1], toks[i])
          BY <3>1, <5>1, Zenon
        <5> QED BY <5>2, <5>3
      <4> QED BY <4>2, <4>3
    <3>3. h = [i \in 0 .. k |-> h[i]]
      OBVIOUS
    <3> HIDE DEF h
    <3>4. Runs(h, k)
      BY <3>2, <3>3
    <3> HIDE DEF Runs
    <3> QED BY <3>4
  <2>3. n \in K
    <3> HIDE DEF K
    <3>1. K \in SUBSET (0 .. n) /\ n \in Nat
      BY DEF K, n
    <3> QED BY <2>1, <2>2, <3>1, Along
  <2> QED BY <2>3
<1>2. Runs(run, n)
  <2> HIDE DEF first, Step
  <2> QED BY <1>1
<1>3. pb_decode_inner(fields, toks, msg) = Complete(fields, run[n])
  BY DEF pb_decode_inner, Steps
<1> HIDE DEF run
<1>4. run[0] = first
  BY <1>2
<1>5. \A k \in 1 .. n : run[k] = Step(run[k - 1], toks[k])
  <2> HIDE DEF first, Step
  <2> QED BY <1>2
<1> DEFINE parts == [k \in 1 .. n |-> Part(run[k - 1].val, toks[k])]
<1>6. IsRun(run, parts, fields, toks, msg)
  BY <1>4, <1>5 DEF IsRun
<1>7. IsReading(run, parts, fields, toks, msg)
  BY <1>3, <1>6 DEF IsReading
<1> QED BY <1>7, Zenon

LEMMA RunInMessage ==
    ASSUME NEW fields, NEW toks, NEW msg, Len(toks) \in Nat
    PROVE  \E run, parts :
              /\ Decode4(fields, toks, msg) = Complete(fields, run[Len(toks)])
              /\ IsRun(run, parts, fields, toks, msg)
              /\ \A k \in 1 .. Len(toks) :
                   parts[k] = Decode3(fields[Found(fields, run[k - 1].val, toks[k])].sub, toks[k].sub,
                                      Before(run[k - 1].val.msg,
                                             fields[Found(fields, run[k - 1].val, toks[k])]))
<1> DEFINE n == Len(toks)
           first == Ok([msg |-> msg, pos |-> 1, seen |-> {}])
           Part(s, t) == LET f == fields[Found(fields, s, t)]
                         IN  Decode3(f.sub, t.sub, Before(s.msg, f))
           Step(a, t) == IF a.ok THEN DecodeOne(fields, a.val, t, Part(a.val, t)) ELSE Fail
           Runs(g, k) == g = [i \in 0 .. k |-> IF i = 0 THEN first ELSE Step(g[i - 1], toks[i])]
           run[i \in 0 .. Len(toks)] == IF i = 0 THEN first ELSE Step(run[i - 1], toks[i])
<1>1. \E g : Runs(g, n)
  <2> HIDE DEF n, first, Step
  <2> DEFINE K == {k \in 0 .. n : \E g : Runs(g, k)}
  <2>1. 0 \in K
    <3>1. Runs([i \in 0 .. 0 |-> first], 0)
      OBVIOUS
    <3>2. \E g : Runs(g, 0)
      BY <3>1, Zenon
    <3> HIDE DEF Runs
    <3> QED BY <3>2, SMT DEF n
  <2>2. ASSUME NEW k \in 1 .. n, k - 1 \in K
        PROVE  k \in K
    <3>1. PICK g : Runs(g, k - 1)
      BY <2>2
    <3> DEFINE h == [i \in 0 .. k |-> IF i = k THEN Step(g[k - 1], toks[k]) ELSE g[i]]
    <3>2. ASSUME NEW i \in 0 .. k
          PROVE  h[i] = IF i = 0 THEN first ELSE Step(h[i - 1], toks[i])
      <4>1. k # 0 /\ k \in Nat
        BY DEF n
      <4>2. CASE i = k
        <5>1. k - 1 \in 0 .. k /\ k - 1 # k
          BY <4>1
        <5> QED BY <4>1, <4>2, <5>1
      <4>3. CASE i # k
        <5>1. i \in 0 .. k - 1 /\ (i # 0 => i - 1 \in 0 .. k /\ i - 1 # k)
          BY <4>1, <4>3
        <5>2. h[i] = g[i] /\ (i # 0 => h[i - 1] = g[i - 1])
          BY <5>1, <4>3
        <5>3. g[i] = IF i = 0 THEN first ELSE Step(g[i - 1], toks[i])
          BY <3>1, <5>1, Zenon
        <5> QED BY <5>2, <5>3
      <4> QED BY <4>2, <4>3
    <3>3. h = [i \in 0 .. k |-> h[i]]
      OBVIOUS
    <3> HIDE DEF h
    <3>4. Runs(h, k)
      BY <3>2, <3>3
    <3> HIDE DEF Runs
    <3> QED BY <3>4
  <2>3. n \in K
    <3> HIDE DEF K
    <3>1. K \in SUBSET (0 .. n) /\ n \in Nat
      BY DEF K, n
    <3> QED BY <2>1, <2>2, <3>1, Along
  <2> QED BY <2>3
<1>2. Runs(run, n)
  <2> HIDE DEF first, Step
  <2> QED BY <1>1
<1>3. Decode4(fields, toks, msg) = Complete(fields, run[n])
  BY DEF Decode4, Steps
<1> HIDE DEF run
<1>4. run[0] = first
  BY <1>2
<1>5. \A k \in 1 .. n : run[k] = Step(run[k - 1], toks[k])
  <2> HIDE DEF first, Step
  <2> QED BY <1>2
<1> DEFINE parts == [k \in 1 .. n |-> Part(run[k - 1].val, toks[k])]
<1>6. IsRun(run, parts, fields, toks, msg)
  BY <1>4, <1>5 DEF IsRun
<1> QED BY <1>3, <1>6
-----------------------------------------------------------------------------
(* What a decoded message holds. *)
Callbacks == {"ignored", "difs", "neighbors"}
Tags(fields) == {fields[i].tag : i \in DOMAIN fields}
Sized(fields) == \A i \in DOMAIN fields : fields[i].size \in Nat
Proper(fields) == Sized(fields) /\ \E n \in Nat \ {0} : DOMAIN fields = 1 .. n

TextFits(f, v) ==
    /\ f.type = "string" => v.len \in Nat /\ v.len < f.size
    /\ f.type = "bytes" => v.len \in Nat /\ v.len <= f.size

(* Each tag has nothing, or one value that fits; callbacks do as they like. *)
Flat(fields, msg) ==
    /\ DOMAIN msg = Tags(fields)
    /\ \A tag \in Tags(fields) :
         \/ msg[tag] = <<>>
         \/ \E i \in DOMAIN fields :
              /\ fields[i].tag = tag
              /\ fields[i].type \notin Callbacks =>
                   \E v : msg[tag] = <<v>> /\ TextFits(fields[i], v)

(* The same, and in the messages of the message as well. *)
Fits(f, v) == /\ TextFits(f, v)
              /\ f.type = "message" /\ Proper(f.sub) => Flat(f.sub, v)

Deep(fields, msg) ==
    /\ DOMAIN msg = Tags(fields)
    /\ \A tag \in Tags(fields) :
         \/ msg[tag] = <<>>
         \/ \E i \in DOMAIN fields :
              /\ fields[i].tag = tag
              /\ fields[i].type \notin Callbacks =>
                   \E v : msg[tag] = <<v>> /\ Fits(fields[i], v)

(* A tag that was seen has a value. *)
Seen(fields, s) ==
    \A tag \in s.seen :
       \E i \in DOMAIN fields :
          fields[i].tag = tag /\ (fields[i].type \in Callbacks \/ s.msg[tag] # <<>>)

(* No other field has the tag of one that is a message. *)
MessagesUnique(fields) ==
    \A i, j \in DOMAIN fields :
       fields[i].type = "message" /\ fields[j].tag = fields[i].tag => fields[j] = fields[i]

(* Where a value comes from. *)
Came(f, t, part, v) ==
    /\ f.type = "string" => t.text.len + 1 <= f.size /\ v = t.text
    /\ f.type = "bytes" => t.text.len <= f.size /\ v = t.text
    /\ f.type = "message" => part.ok /\ v = part.val

LEMMA FieldDecoded ==
    ASSUME NEW msg, NEW f, NEW t, NEW part, decode_field(msg, f, t, part).ok
    PROVE  LET r == decode_field(msg, f, t, part).val
           IN  \/ /\ f.type \in Callbacks
                  /\ r = msg \/ \E v : r = [msg EXCEPT ![f.tag] = v]
               \/ /\ f.type \notin Callbacks
                  /\ \E v : r = [msg EXCEPT ![f.tag] = <<v>>] /\ Came(f, t, part, v)
<1> DEFINE r == decode_field(msg, f, t, part).val
<1>1. CASE f.type \in Callbacks
  <2>1. decode_callback_field(msg, f, t, part).ok /\ r = decode_callback_field(msg, f, t, part).val
    BY <1>1 DEF decode_field, Callbacks
  <2>2. r = msg \/ \E v : r = [msg EXCEPT ![f.tag] = v]
    <3>1. CASE f.type = "ignored"
      BY <2>1, <3>1 DEF decode_callback_field, Ok, Fail
    <3>2. CASE f.type = "difs"
      BY <2>1, <3>2 DEF decode_callback_field, Ok, Fail
    <3>3. CASE f.type = "neighbors"
      BY <2>1, <3>3 DEF decode_callback_field, prvSerDesNeighborListDecodeCb, Ok, Fail
    <3> QED BY <1>1, <3>1, <3>2, <3>3 DEF Callbacks
  <2> QED BY <1>1, <2>2
<1>2. CASE f.type \notin Callbacks
  <2> DEFINE b == IF f.type = "message" THEN pb_dec_submessage(t, part) ELSE decode_basic_field(f, t)
  <2>1. b.ok /\ Store(msg, f, b.val).ok /\ r = Store(msg, f, b.val).val
    BY <1>2 DEF decode_field, Callbacks, Fail
  <2>2. r = [msg EXCEPT ![f.tag] = <<b.val>>]
    BY <2>1 DEF Store, Ok, Fail
  <2>3. Came(f, t, part, b.val)
    <3>1. CASE f.type = "string"
      BY <2>1, <3>1 DEF Came, decode_basic_field, pb_dec_string, Ok, Fail
    <3>2. CASE f.type = "bytes"
      BY <2>1, <3>2 DEF Came, decode_basic_field, pb_dec_bytes, Ok, Fail
    <3>3. CASE f.type = "message"
      BY <2>1, <3>3 DEF Came, pb_dec_submessage, Fail
    <3> QED BY <3>1, <3>2, <3>3 DEF Came
  <2> QED BY <1>2, <2>2, <2>3
<1> QED BY <1>1, <1>2

(* One field of the wire: it is skipped, or goes where its tag says. *)
Landed(fields, s, t, part, r, i) ==
    /\ i \in DOMAIN fields /\ fields[i].tag = t.tag
    /\ r.pos = i /\ r.seen = s.seen \cup {t.tag}
    /\ \/ /\ fields[i].type \in Callbacks
          /\ r.msg = s.msg \/ \E v : r.msg = [s.msg EXCEPT ![t.tag] = v]
       \/ /\ fields[i].type \notin Callbacks
          /\ \E v : r.msg = [s.msg EXCEPT ![t.tag] = <<v>>] /\ Came(fields[i], t, part, v)

LEMMA OneDecoded ==
    ASSUME NEW fields, NEW n \in Nat, DOMAIN fields = 1 .. n,
           NEW s, s.pos \in 1 .. n, NEW t, NEW part, DecodeOne(fields, s, t, part).ok
    PROVE  LET r == DecodeOne(fields, s, t, part).val
               i == Found(fields, s, t)
           IN  r = s \/ Landed(fields, s, t, part, r, i)
<1> DEFINE r == DecodeOne(fields, s, t, part).val
           i == Found(fields, s, t)
           found == pb_field_iter_find(fields, s.pos, t.tag)
           d == decode_field(s.msg, fields[i], t, part)
<1>1. CASE found = {}
  BY <1>1 DEF DecodeOne, Ok, Fail
<1>2. CASE found # {}
  <2>1. i \in found
    BY <1>2 DEF Found
  <2>2. i \in 1 .. n /\ fields[i].tag = t.tag
    BY <2>1 DEF pb_field_iter_find
  <2> HIDE DEF i
  <2>3. d.ok /\ r = [msg |-> d.val, pos |-> i, seen |-> s.seen \cup {t.tag}]
    BY <1>2 DEF DecodeOne, Ok, Fail, i
  <2>4. r.msg = d.val /\ r.pos = i /\ r.seen = s.seen \cup {t.tag}
    BY <2>3
  <2>5. \/ /\ fields[i].type \in Callbacks
           /\ d.val = s.msg \/ \E v : d.val = [s.msg EXCEPT ![fields[i].tag] = v]
        \/ /\ fields[i].type \notin Callbacks
           /\ \E v : d.val = [s.msg EXCEPT ![fields[i].tag] = <<v>>] /\ Came(fields[i], t, part, v)
    BY <2>3, FieldDecoded
  <2> HIDE DEF r, d
  <2> QED BY <2>2, <2>4, <2>5 DEF i, r, Landed
<1> QED BY <1>1, <1>2
-----------------------------------------------------------------------------
(* Every field keeps the texts in their arrays. *)
LEMMA FlatStep ==
    ASSUME NEW fields, NEW n \in Nat, DOMAIN fields = 1 .. n, Sized(fields),
           NEW s, s.pos \in 1 .. n, Flat(fields, s.msg),
           NEW t, t.text.len \in Nat, NEW part, DecodeOne(fields, s, t, part).ok
    PROVE  LET r == DecodeOne(fields, s, t, part).val
           IN  r.pos \in 1 .. n /\ Flat(fields, r.msg)
<1> DEFINE r == DecodeOne(fields, s, t, part).val
           i == Found(fields, s, t)
<1> SUFFICES ASSUME r # s
             PROVE  r.pos \in 1 .. n /\ Flat(fields, r.msg)
  OBVIOUS
<1>0. Landed(fields, s, t, part, r, i)
  BY OneDecoded, Zenon
<1> HIDE DEF i, r
<1>1. /\ i \in 1 .. n /\ fields[i].tag = t.tag /\ r.pos = i
      /\ \/ /\ fields[i].type \in Callbacks
            /\ r.msg = s.msg \/ \E v : r.msg = [s.msg EXCEPT ![t.tag] = v]
         \/ /\ fields[i].type \notin Callbacks
            /\ \E v : r.msg = [s.msg EXCEPT ![t.tag] = <<v>>] /\ Came(fields[i], t, part, v)
  BY <1>0, Zenon DEF Landed
<1>2. CASE r.msg = s.msg
  BY <1>1, <1>2
<1>3. ASSUME NEW v, r.msg = [s.msg EXCEPT ![t.tag] = v],
             fields[i].type \notin Callbacks => \E x : v = <<x>> /\ TextFits(fields[i], x)
      PROVE  Flat(fields, r.msg)
  <2>1. DOMAIN r.msg = Tags(fields)
    BY <1>3 DEF Flat
  <2>2. r.msg[t.tag] = v
    BY <1>1, <1>3, <2>1 DEF Flat, Tags
  <2>3. \A tag \in Tags(fields) : tag # t.tag => r.msg[tag] = s.msg[tag]
    BY <1>3 DEF Flat
  <2> QED BY <1>1, <1>3, <2>1, <2>2, <2>3 DEF Flat
<1>4. ASSUME NEW v, Came(fields[i], t, part, v)
      PROVE  TextFits(fields[i], v)
  <2>1. fields[i].size \in Nat
    BY <1>1 DEF Sized
  <2> QED BY <1>4, <2>1 DEF Came, TextFits
<1> QED BY <1>1, <1>2, <1>3, <1>4

LEMMA FlatDecoded ==
    ASSUME NEW fields, Proper(fields), NEW toks, Len(toks) \in Nat,
           \A k \in 1 .. Len(toks) : toks[k].text.len \in Nat,
           NEW msg, Flat(fields, msg), Decode4(fields, toks, msg).ok
    PROVE  Flat(fields, Decode4(fields, toks, msg).val)
<1>1. PICK n \in Nat \ {0} : DOMAIN fields = 1 .. n
  BY DEF Proper
<1>2. PICK run, parts :
         /\ Decode4(fields, toks, msg) = Complete(fields, run[Len(toks)])
         /\ IsRun(run, parts, fields, toks, msg)
  BY RunInMessage
<1> DEFINE m == Len(toks)
           Good(a) == a.ok => a.val.pos \in 1 .. n /\ Flat(fields, a.val.msg)
           G == {k \in 0 .. m : Good(run[k])}
<1>3. 0 \in G
  <2>1. run[0].val.msg = msg /\ run[0].val.pos = 1
    BY <1>2 DEF IsRun, Ok
  <2> QED BY <1>1, <2>1
<1>4. ASSUME NEW k \in 1 .. m, k - 1 \in G
      PROVE  k \in G
  <2>1. run[k] = IF run[k - 1].ok THEN DecodeOne(fields, run[k - 1].val, toks[k], parts[k]) ELSE Fail
    BY <1>2 DEF IsRun
  <2>2. Good(run[k - 1])
    BY <1>4
  <2>3. CASE run[k - 1].ok /\ run[k].ok
    <3> DEFINE s == run[k - 1].val
    <3>1. s.pos \in 1 .. n /\ Flat(fields, s.msg)
      BY <2>2, <2>3
    <3>2. DecodeOne(fields, s, toks[k], parts[k]).ok /\ run[k].val = DecodeOne(fields, s, toks[k], parts[k]).val
      BY <2>1, <2>3
    <3> HIDE DEF s
    <3>3. Good(run[k])
      BY <1>1, <3>1, <3>2, FlatStep DEF Proper
    <3> QED BY <3>3
  <2>4. CASE ~(run[k - 1].ok /\ run[k].ok)
    <3>1. Good(run[k])
      BY <2>1, <2>4 DEF Fail
    <3> QED BY <3>1
  <2> QED BY <2>3, <2>4
<1>5. m \in G
  <2> HIDE DEF G
  <2>1. G \in SUBSET (0 .. m)
    BY DEF G
  <2> QED BY <1>3, <1>4, <2>1, Along
<1>6. run[m].ok /\ Decode4(fields, toks, msg).val = run[m].val.msg
  BY <1>2 DEF Complete, Ok, Fail
<1> QED BY <1>5, <1>6

(* The message within a message starts from what is there, or from nothing. *)
LEMMA EmptyFlat == \A fields : Flat(fields, Empty(fields))
BY DEF Flat, Empty, Tags

LEMMA BeforeFlat ==
    ASSUME NEW fields, MessagesUnique(fields), NEW msg, Deep(fields, msg),
           NEW i \in DOMAIN fields, fields[i].type = "message", Proper(fields[i].sub)
    PROVE  Flat(fields[i].sub, Before(msg, fields[i]))
<1> DEFINE tag == fields[i].tag
<1>1. CASE Before(msg, fields[i]) = Empty(fields[i].sub)
  BY <1>1, EmptyFlat
<1>2. CASE msg[tag] # <<>> /\ Before(msg, fields[i]) = msg[tag][1]
  <2>1. tag \in Tags(fields)
    BY DEF Tags
  <2>2. PICK j \in DOMAIN fields :
           /\ fields[j].tag = tag
           /\ fields[j].type \notin Callbacks => \E v : msg[tag] = <<v>> /\ Fits(fields[j], v)
    BY <1>2, <2>1, Zenon DEF Deep
  <2>3. fields[j] = fields[i]
    BY <2>2, Zenon DEF MessagesUnique
  <2>4. PICK v : msg[tag] = <<v>> /\ Fits(fields[i], v)
    BY <2>2, <2>3 DEF Callbacks
  <2>5. msg[tag][1] = v
    BY <2>4
  <2> QED BY <1>2, <2>4, <2>5, Zenon DEF Fits
<1> QED BY <1>1, <1>2 DEF Before

LEMMA DeepStep ==
    ASSUME NEW fields, NEW n \in Nat, DOMAIN fields = 1 .. n, Sized(fields),
           NEW s, s.pos \in 1 .. n, Deep(fields, s.msg), Seen(fields, s),
           NEW t, t.text.len \in Nat, NEW part, DecodeOne(fields, s, t, part).ok,
           LET f == fields[Found(fields, s, t)]
           IN  f.type = "message" /\ Proper(f.sub) /\ part.ok => Flat(f.sub, part.val)
    PROVE  LET r == DecodeOne(fields, s, t, part).val
           IN  r.pos \in 1 .. n /\ Deep(fields, r.msg) /\ Seen(fields, r)
<1> DEFINE r == DecodeOne(fields, s, t, part).val
           i == Found(fields, s, t)
<1> SUFFICES ASSUME r # s
             PROVE  r.pos \in 1 .. n /\ Deep(fields, r.msg) /\ Seen(fields, r)
  OBVIOUS
<1>0. Landed(fields, s, t, part, r, i)
  BY OneDecoded, Zenon
<1>f. fields[i].type = "message" /\ Proper(fields[i].sub) /\ part.ok => Flat(fields[i].sub, part.val)
  OBVIOUS
<1> HIDE DEF i, r
<1>1. /\ i \in 1 .. n /\ fields[i].tag = t.tag /\ r.pos = i /\ r.seen = s.seen \cup {t.tag}
      /\ \/ /\ fields[i].type \in Callbacks
            /\ r.msg = s.msg \/ \E v : r.msg = [s.msg EXCEPT ![t.tag] = v]
         \/ /\ fields[i].type \notin Callbacks
            /\ \E v : r.msg = [s.msg EXCEPT ![t.tag] = <<v>>] /\ Came(fields[i], t, part, v)
  BY <1>0, Zenon DEF Landed
<1>2. CASE r.msg = s.msg /\ fields[i].type \in Callbacks
  <2>1. Seen(fields, r)
    BY <1>1, <1>2 DEF Seen
  <2> QED BY <1>1, <1>2, <2>1
<1>3. ASSUME NEW v, r.msg = [s.msg EXCEPT ![t.tag] = v],
             fields[i].type \notin Callbacks => \E x : v = <<x>> /\ Fits(fields[i], x)
      PROVE  Deep(fields, r.msg) /\ Seen(fields, r)
  <2>1. DOMAIN r.msg = Tags(fields)
    BY <1>3 DEF Deep
  <2>2. r.msg[t.tag] = v
    BY <1>1, <1>3, <2>1 DEF Deep, Tags
  <2>3. \A tag \in Tags(fields) : tag # t.tag => r.msg[tag] = s.msg[tag]
    BY <1>3 DEF Deep
  <2>4. Deep(fields, r.msg)
    BY <1>1, <1>3, <2>1, <2>2, <2>3 DEF Deep
  <2>5. ASSUME NEW tag \in r.seen
        PROVE  \E k \in DOMAIN fields :
                  fields[k].tag = tag /\ (fields[k].type \in Callbacks \/ r.msg[tag] # <<>>)
    <3>1. CASE tag = t.tag
      <4>1. fields[i].type \notin Callbacks => v # <<>>
        BY <1>3
      <4> QED BY <1>1, <2>2, <3>1, <4>1
    <3>2. CASE tag # t.tag
      <4>1. PICK k \in DOMAIN fields :
              fields[k].tag = tag /\ (fields[k].type \in Callbacks \/ s.msg[tag] # <<>>)
        BY <1>1, <2>5, <3>2 DEF Seen
      <4>2. r.msg[tag] = s.msg[tag]
        BY <2>3, <3>2, <4>1 DEF Tags
      <4> QED BY <4>1, <4>2
    <3> QED BY <3>1, <3>2
  <2> QED BY <2>4, <2>5, Zenon DEF Seen
<1>4. ASSUME NEW v, Came(fields[i], t, part, v)
      PROVE  Fits(fields[i], v)
  <2>1. fields[i].size \in Nat
    BY <1>1 DEF Sized
  <2>2. TextFits(fields[i], v)
    BY <1>4, <2>1 DEF Came, TextFits
  <2> QED BY <1>4, <1>f, <2>2 DEF Came, Fits
<1> QED BY <1>1, <1>2, <1>3, <1>4

(* What pb_decode makes of any message whose texts have a length. *)
Lengthy(toks) ==
    /\ Len(toks) \in Nat
    /\ \A k \in 1 .. Len(toks) : toks[k].text.len \in Nat

LEMMA DeepDecoded ==
    ASSUME NEW fields, Proper(fields), MessagesUnique(fields),
           NEW toks, Lengthy(toks), \A k \in 1 .. Len(toks) : Lengthy(toks[k].sub),
           pb_decode(fields, toks).ok
    PROVE  LET msg == pb_decode(fields, toks).val
           IN  /\ Deep(fields, msg)
               /\ \A i \in DOMAIN fields :
                    fields[i].rule = "required" =>
                      \E j \in DOMAIN fields :
                         /\ fields[j].tag = fields[i].tag
                         /\ fields[j].type \in Callbacks \/ msg[fields[i].tag] # <<>>
<1>1. PICK n \in Nat \ {0} : DOMAIN fields = 1 .. n
  BY DEF Proper
<1> DEFINE m == Len(toks)
           decoded == pb_decode(fields, toks)
<1>0. PICK run, parts : IsReading(run, parts, fields, toks, Empty(fields))
  BY RunOfMessage DEF Lengthy
<1>2. /\ decoded = Complete(fields, run[m])
      /\ IsRun(run, parts, fields, toks, Empty(fields))
      /\ \A k \in 1 .. m :
           parts[k] = Decode4(fields[Found(fields, run[k - 1].val, toks[k])].sub, toks[k].sub,
                              Before(run[k - 1].val.msg,
                                     fields[Found(fields, run[k - 1].val, toks[k])]))
  BY <1>0, Zenon DEF IsReading, pb_decode
<1> DEFINE Good(a) == a.ok => a.val.pos \in 1 .. n /\ Deep(fields, a.val.msg) /\ Seen(fields, a.val)
           G == {k \in 0 .. m : Good(run[k])}
<1>3. 0 \in G
  <2>1. /\ run[0].val.msg = Empty(fields) /\ run[0].val.pos = 1 /\ run[0].val.seen = {}
    BY <1>2 DEF IsRun, Ok
  <2>2. Deep(fields, Empty(fields))
    BY DEF Deep, Empty, Tags
  <2>3. Seen(fields, run[0].val)
    BY <2>1 DEF Seen
  <2>4. Good(run[0])
    BY <1>1, <2>1, <2>2, <2>3
  <2> HIDE DEF Good
  <2> QED BY <2>4 DEF Lengthy
<1>4. ASSUME NEW k \in 1 .. m, k - 1 \in G
      PROVE  k \in G
  <2> DEFINE s == run[k - 1].val
             t == toks[k]
             f == fields[Found(fields, s, t)]
  <2>1. run[k] = IF run[k - 1].ok THEN DecodeOne(fields, s, t, parts[k]) ELSE Fail
    BY <1>2 DEF IsRun
  <2>2. Good(run[k - 1])
    BY <1>4
  <2>3. CASE run[k - 1].ok /\ run[k].ok
    <3>1. s.pos \in 1 .. n /\ Deep(fields, s.msg) /\ Seen(fields, s)
      BY <2>2, <2>3
    <3>2. DecodeOne(fields, s, t, parts[k]).ok /\ run[k].val = DecodeOne(fields, s, t, parts[k]).val
      BY <2>1, <2>3
    <3>3. t.text.len \in Nat /\ Lengthy(t.sub)
      BY DEF Lengthy
    <3>4. parts[k] = Decode4(f.sub, t.sub, Before(s.msg, f))
      BY <1>2
    <3> HIDE DEF s, t
    <3>5. ASSUME f.type = "message", Proper(f.sub), parts[k].ok,
                 Found(fields, s, t) \in DOMAIN fields
          PROVE  Flat(f.sub, parts[k].val)
      <4>1. Flat(f.sub, Before(s.msg, f))
        BY <3>1, <3>5, BeforeFlat
      <4> QED BY <3>3, <3>4, <3>5, <4>1, FlatDecoded DEF Lengthy
    <3>6. \/ DecodeOne(fields, s, t, parts[k]).val = s
          \/ Found(fields, s, t) \in DOMAIN fields
      BY <1>1, <3>1, <3>2, OneDecoded, Zenon DEF Landed
    <3>7. Good(run[k])
      <4>1. CASE DecodeOne(fields, s, t, parts[k]).val = s
        BY <3>1, <3>2, <4>1
      <4>2. CASE Found(fields, s, t) \in DOMAIN fields
        BY <1>1, <3>1, <3>2, <3>3, <3>5, <4>2, DeepStep DEF Proper
      <4> QED BY <3>6, <4>1, <4>2
    <3> QED BY <3>7
  <2>4. CASE ~(run[k - 1].ok /\ run[k].ok)
    <3>1. Good(run[k])
      BY <2>1, <2>4 DEF Fail
    <3> QED BY <3>1
  <2> QED BY <2>3, <2>4
<1>5. m \in G
  <2>1. G \in SUBSET (0 .. m) /\ m \in Nat
    BY DEF Lengthy
  <2> HIDE DEF G
  <2> QED BY <1>3, <1>4, <2>1, Along
<1>6. /\ run[m].ok /\ decoded.val = run[m].val.msg
      /\ \A i \in DOMAIN fields : fields[i].rule = "required" => fields[i].tag \in run[m].val.seen
  BY <1>2 DEF Complete, Ok, Fail
<1>7. Deep(fields, decoded.val) /\ Seen(fields, run[m].val)
  BY <1>5, <1>6
<1> HIDE DEF decoded
<1> QED BY <1>6, <1>7, Zenon DEF Seen, decoded
-----------------------------------------------------------------------------
(* The fields that a descriptor is made of. *)
LEMMA Described ==
    ASSUME NEW S, NEW fields \in Seq(S), fields # <<>>, \A f \in S : f.size \in Nat
    PROVE  /\ Proper(fields)
           /\ \A i \in DOMAIN fields : fields[i] \in S
           /\ \A tag \in Tags(fields) : \E f \in S : f.tag = tag
<1> DEFINE n == Len(fields)
<1>1. n \in Nat \ {0} /\ DOMAIN fields = 1 .. n
  BY EmptySeq, LenProperties
<1>2. \A i \in 1 .. n : fields[i] \in S
  BY ElementOfSeq
<1> HIDE DEF n
<1> QED BY <1>1, <1>2 DEF Proper, Sized, Tags

LEMMA Joined ==
    ASSUME NEW S, NEW a \in Seq(S), a # <<>>, NEW b \in Seq(S)
    PROVE  /\ a \o b \in Seq(S) /\ a \o b # <<>>
           /\ Tags(a) \subseteq Tags(a \o b) /\ Tags(b) \subseteq Tags(a \o b)
           /\ \A i \in DOMAIN a : i \in DOMAIN (a \o b) /\ (a \o b)[i] = a[i]
<1>1. a \o b \in Seq(S)
  BY ConcatProperties, Zenon
<1>2. Len(a \o b) = Len(a) + Len(b)
  BY ConcatProperties, Zenon
<1>3. Len(a) \in Nat \ {0} /\ Len(b) \in Nat /\ Len(<<>>) = 0
  BY EmptySeq, LenProperties
<1> DEFINE c == a \o b
<1> HIDE DEF c
<1>4. Len(c) # 0
  BY <1>2, <1>3 DEF c
<1>5. \A i \in 1 .. Len(a) + Len(b) : c[i] = IF i <= Len(a) THEN a[i] ELSE b[i - Len(a)]
  BY ConcatProperties, Zenon DEF c
<1>6. DOMAIN c = 1 .. Len(a) + Len(b) /\ DOMAIN a = 1 .. Len(a) /\ DOMAIN b = 1 .. Len(b)
  BY <1>1, <1>2, LenProperties, Zenon DEF c
<1> DEFINE m == Len(a)
           n == Len(b)
<1>7. m \in Nat /\ n \in Nat
  BY <1>3
<1>8. /\ \A i \in 1 .. m + n : c[i] = IF i <= m THEN a[i] ELSE b[i - m]
      /\ DOMAIN c = 1 .. m + n /\ DOMAIN a = 1 .. m /\ DOMAIN b = 1 .. n
  BY <1>5, <1>6
<1> HIDE DEF m, n
<1>9. ASSUME NEW i \in 1 .. m
      PROVE  i \in 1 .. m + n /\ c[i] = a[i]
  BY <1>7, <1>8
<1>10. ASSUME NEW i \in 1 .. n
       PROVE  m + i \in 1 .. m + n /\ c[m + i] = b[i]
  <2>1. m + i \in 1 .. m + n /\ ~(m + i <= m) /\ (m + i) - m = i
    BY <1>7
  <2> QED BY <1>8, <2>1
<1>11. Tags(a) \subseteq Tags(c) /\ Tags(b) \subseteq Tags(c)
  <2>1. ASSUME NEW i \in DOMAIN a PROVE a[i].tag \in Tags(c)
    <3>1. i \in DOMAIN c /\ c[i] = a[i]
      BY <1>8, <1>9
    <3> QED BY <3>1, Zenon DEF Tags
  <2>2. ASSUME NEW i \in DOMAIN b PROVE b[i].tag \in Tags(c)
    <3>1. m + i \in DOMAIN c /\ c[m + i] = b[i]
      BY <1>8, <1>10
    <3> QED BY <3>1, Zenon DEF Tags
  <2> QED BY <2>1, <2>2, Zenon DEF Tags
<1>12. \A i \in DOMAIN a : i \in DOMAIN c /\ c[i] = a[i]
  BY <1>8, <1>9
<1> QED BY <1>1, <1>3, <1>4, <1>11, <1>12, Zenon DEF c

LEMMA StrsAre ==
    ASSUME NEW S, NEW tags \in Seq(Nat), NEW size,
           \A i \in 1 .. Len(tags) : Str(tags[i], size) \in S
    PROVE  /\ Strs(tags, size) \in Seq(S)
           /\ \A i \in 1 .. Len(tags) : tags[i] \in Tags(Strs(tags, size))
<1> DEFINE n == Len(tags)
<1>1. n \in Nat /\ DOMAIN tags = 1 .. n
  BY LenProperties
<1> HIDE DEF n
<1>2. Strs(tags, size) \in [1 .. n -> S]
  BY <1>1 DEF Strs, n
<1>3. ASSUME NEW i \in 1 .. n
      PROVE  tags[i] \in Tags(Strs(tags, size))
  <2>1. i \in DOMAIN Strs(tags, size) /\ Strs(tags, size)[i].tag = tags[i]
    BY <1>1 DEF Strs, Str, Field
  <2> QED BY <2>1, Zenon DEF Tags
<1>4. Strs(tags, size) \in Seq(S)
  BY <1>1, <1>2, SequenceOf
<1> QED BY <1>3, <1>4 DEF n

CdapSet ==
    {Optional(1, "int"), Required(2, "uint32"), Optional(3, "int"), Optional(4, "uint32"),
     Str(5, 40), Str(6, 40), Optional(7, "int"), Sub(8, ObjVal), Optional(9, "int"),
     Optional(10, "int"), Ignored(11), Sub(18, AuthPolicy), Str(19, 20), Str(20, 20),
     Str(21, 20), Str(22, 20), Str(23, 20), Str(24, 20), Str(25, 20), Str(26, 20),
     Str(27, 20), Optional(28, "int")}

LEMMA CdapDescribed ==
    /\ CDAPMessage \in Seq(CdapSet) /\ CDAPMessage # <<>>
    /\ {5, 6, 8, 18, 27} \cup (19 .. 26) \subseteq Tags(CDAPMessage)
<1> DEFINE a == <<Optional(1, "int"), Required(2, "uint32"), Optional(3, "int"), Optional(4, "uint32")>>
           b == Strs(<<5, 6>>, 40)
           c == <<Optional(7, "int"), Sub(8, ObjVal), Optional(9, "int"), Optional(10, "int"),
                  Ignored(11), Sub(18, AuthPolicy)>>
           d == Strs(<<19, 20, 21, 22, 23, 24, 25, 26, 27>>, 20)
           e == <<Optional(28, "int")>>
<1>1. a \in Seq(CdapSet) /\ a # <<>>
  BY DEF CdapSet
<1>2. b \in Seq(CdapSet) /\ {5, 6} \subseteq Tags(b)
  <2>1. Str(5, 40) \in CdapSet /\ Str(6, 40) \in CdapSet
    BY DEF CdapSet
  <2> DEFINE tags == <<5, 6>>
  <2>2. tags \in Seq(Nat) /\ \A i \in 1 .. Len(tags) : tags[i] \in {5, 6}
    OBVIOUS
  <2>3. \A i \in 1 .. Len(tags) : Str(tags[i], 40) \in CdapSet
    <3> HIDE DEF tags
    <3> QED BY <2>1, <2>2, Zenon
  <2> HIDE DEF tags
  <2>4. Strs(tags, 40) \in Seq(CdapSet) /\ \A i \in 1 .. Len(tags) : tags[i] \in Tags(Strs(tags, 40))
    BY <2>2, <2>3, StrsAre
  <2>5. Len(tags) = 2 /\ tags[1] = 5 /\ tags[2] = 6
    BY DEF tags
  <2>6. 5 \in Tags(Strs(tags, 40)) /\ 6 \in Tags(Strs(tags, 40))
    BY <2>4, <2>5
  <2> QED BY <2>4, <2>6 DEF tags
<1>3. c \in Seq(CdapSet) /\ {8, 18} \subseteq Tags(c)
  <2>1. c \in Seq(CdapSet)
    BY DEF CdapSet
  <2>2. 2 \in DOMAIN c /\ c[2].tag = 8 /\ 6 \in DOMAIN c /\ c[6].tag = 18
    BY DEF Sub, Field
  <2> HIDE DEF c
  <2>3. 8 \in Tags(c) /\ 18 \in Tags(c)
    BY <2>2, Zenon DEF Tags
  <2> QED BY <2>1, <2>3
<1>4. d \in Seq(CdapSet) /\ 19 .. 27 \subseteq Tags(d)
  <2> DEFINE tags == <<19, 20, 21, 22, 23, 24, 25, 26, 27>>
  <2>1. \A i \in 19 .. 27 : Str(i, 20) \in CdapSet
    BY DEF CdapSet
  <2>2. tags \in Seq(Nat) /\ \A i \in 1 .. Len(tags) : tags[i] \in 19 .. 27
    OBVIOUS
  <2> HIDE DEF tags
  <2>3. \A i \in 1 .. Len(tags) : Str(tags[i], 20) \in CdapSet
    BY <2>1, <2>2, Zenon
  <2>4. Strs(tags, 20) \in Seq(CdapSet) /\ \A i \in 1 .. Len(tags) : tags[i] \in Tags(Strs(tags, 20))
    BY <2>2, <2>3, StrsAre
  <2>5. \A i \in 19 .. 27 : i - 18 \in 1 .. Len(tags) /\ tags[i - 18] = i
    BY DEF tags
  <2>6. 19 .. 27 \subseteq Tags(Strs(tags, 20))
    BY <2>4, <2>5
  <2> QED BY <2>4, <2>6 DEF tags
<1>5. e \in Seq(CdapSet)
  BY DEF CdapSet
<1>6. CDAPMessage = a \o b \o c \o d \o e
  BY DEF CDAPMessage
<1> HIDE DEF a, b, c, d, e
<1> DEFINE ab == a \o b
           abc == ab \o c
           abcd == abc \o d
<1>7. ab \in Seq(CdapSet) /\ ab # <<>> /\ Tags(b) \subseteq Tags(ab)
  BY <1>1, <1>2, Joined
<1> HIDE DEF ab
<1>8. abc \in Seq(CdapSet) /\ abc # <<>> /\ Tags(ab) \subseteq Tags(abc) /\ Tags(c) \subseteq Tags(abc)
  BY <1>3, <1>7, Joined
<1> HIDE DEF abc
<1>9. abcd \in Seq(CdapSet) /\ abcd # <<>> /\ Tags(abc) \subseteq Tags(abcd) /\ Tags(d) \subseteq Tags(abcd)
  BY <1>4, <1>8, Joined
<1> HIDE DEF abcd
<1>10. CDAPMessage \in Seq(CdapSet) /\ CDAPMessage # <<>> /\ Tags(abcd) \subseteq Tags(CDAPMessage)
  BY <1>5, <1>6, <1>9, Joined DEF ab, abc, abcd
<1>11. 27 \in 19 .. 27 /\ 19 .. 26 \subseteq 19 .. 27
  BY SMT
<1> QED BY <1>2, <1>3, <1>4, <1>7, <1>8, <1>9, <1>10, <1>11, Zenon

AuthSet == {Str(1, 40), Versions(2, 40), Ignored(3)}
ObjValSet == {Optional(1, "int"), Optional(2, "sint32"), Optional(3, "int"), Optional(4, "sint64"),
              Str(5, 20), Field(6, "bytes", "optional", 512, <<>>), Optional(7, "32bit"),
              Optional(8, "64bit"), Optional(9, "bool")}
EnrollmentSet == {Optional(1, "uint64"), Versions(2, 20), Optional(3, "bool"), Str(4, 20)}
NamingSet == {Field(1, "string", "required", 20, <<>>), Str(2, 20), Str(3, 20), Str(4, 20)}

LEMMA PartsDescribed ==
    /\ AuthPolicy \in Seq(AuthSet) /\ AuthPolicy # <<>> /\ {1, 2} \subseteq Tags(AuthPolicy)
    /\ ObjVal \in Seq(ObjValSet) /\ ObjVal # <<>> /\ 6 \in Tags(ObjVal)
    /\ EnrollmentInformation \in Seq(EnrollmentSet) /\ EnrollmentInformation # <<>>
    /\ 4 \in Tags(EnrollmentInformation)
    /\ NamingInfo \in Seq(NamingSet) /\ NamingInfo # <<>> /\ 1 .. 4 \subseteq Tags(NamingInfo)
<1>1. AuthPolicy \in Seq(AuthSet) /\ AuthPolicy # <<>> /\ {1, 2} \subseteq Tags(AuthPolicy)
  <2>1. AuthPolicy \in Seq(AuthSet) /\ AuthPolicy # <<>>
    BY DEF AuthPolicy, AuthSet
  <2>2. /\ 1 \in DOMAIN AuthPolicy /\ AuthPolicy[1].tag = 1
        /\ 2 \in DOMAIN AuthPolicy /\ AuthPolicy[2].tag = 2
    BY DEF AuthPolicy, Str, Versions, Field
  <2>3. 1 \in Tags(AuthPolicy) /\ 2 \in Tags(AuthPolicy)
    BY <2>2, Zenon DEF Tags
  <2> QED BY <2>1, <2>3
<1>2. ObjVal \in Seq(ObjValSet) /\ ObjVal # <<>> /\ 6 \in Tags(ObjVal)
  <2>1. ObjVal \in Seq(ObjValSet) /\ ObjVal # <<>>
    BY DEF ObjVal, ObjValSet
  <2>2. 6 \in DOMAIN ObjVal /\ ObjVal[6].tag = 6
    BY DEF ObjVal, Field
  <2> QED BY <2>1, <2>2, Zenon DEF Tags
<1>3. /\ EnrollmentInformation \in Seq(EnrollmentSet) /\ EnrollmentInformation # <<>>
      /\ 4 \in Tags(EnrollmentInformation)
  <2>1. EnrollmentInformation \in Seq(EnrollmentSet) /\ EnrollmentInformation # <<>>
    BY DEF EnrollmentInformation, EnrollmentSet
  <2>2. 4 \in DOMAIN EnrollmentInformation /\ EnrollmentInformation[4].tag = 4
    BY DEF EnrollmentInformation, Str, Field
  <2> QED BY <2>1, <2>2, Zenon DEF Tags
<1>4. NamingInfo \in Seq(NamingSet) /\ NamingInfo # <<>> /\ 1 .. 4 \subseteq Tags(NamingInfo)
  <2> DEFINE a == <<Field(1, "string", "required", 20, <<>>)>>
             b == Strs(<<2, 3, 4>>, 20)
  <2>1. a \in Seq(NamingSet) /\ a # <<>> /\ 1 \in Tags(a)
    <3>1. a \in Seq(NamingSet) /\ a # <<>>
      BY DEF NamingSet
    <3>2. 1 \in DOMAIN a /\ a[1].tag = 1
      BY DEF Field
    <3> HIDE DEF a
    <3> QED BY <3>1, <3>2, Zenon DEF Tags
  <2>2. b \in Seq(NamingSet) /\ {2, 3, 4} \subseteq Tags(b)
    <3>1. Str(2, 20) \in NamingSet /\ Str(3, 20) \in NamingSet /\ Str(4, 20) \in NamingSet
      BY DEF NamingSet
    <3> DEFINE tags == <<2, 3, 4>>
    <3>2. tags \in Seq(Nat) /\ \A i \in 1 .. Len(tags) : tags[i] \in {2, 3, 4}
      OBVIOUS
    <3>3. \A i \in 1 .. Len(tags) : Str(tags[i], 20) \in NamingSet
      <4> HIDE DEF tags
      <4> QED BY <3>1, <3>2, Zenon
    <3> HIDE DEF tags
    <3>4. Strs(tags, 20) \in Seq(NamingSet) /\ \A i \in 1 .. Len(tags) : tags[i] \in Tags(Strs(tags, 20))
      BY <3>2, <3>3, StrsAre
    <3>5. Len(tags) = 3 /\ tags[1] = 2 /\ tags[2] = 3 /\ tags[3] = 4
      BY DEF tags
    <3>6. {2, 3, 4} \subseteq Tags(Strs(tags, 20))
      BY <3>4, <3>5
    <3> QED BY <3>4, <3>6 DEF tags
  <2>3. NamingInfo = a \o b
    BY DEF NamingInfo
  <2> HIDE DEF a, b
  <2>4. /\ NamingInfo \in Seq(NamingSet) /\ NamingInfo # <<>>
        /\ Tags(a) \subseteq Tags(NamingInfo) /\ Tags(b) \subseteq Tags(NamingInfo)
    BY <2>1, <2>2, <2>3, Joined
  <2>5. 1 .. 4 = {1, 2, 3, 4}
    BY SMT
  <2> QED BY <2>1, <2>2, <2>4, <2>5, Zenon
<1> QED BY <1>1, <1>2, <1>3, <1>4

(* Lists of fields of one type. *)
LEMMA ListsAre ==
    ASSUME NEW S, NEW tags \in Seq(Nat)
    PROVE  /\ (\A i \in 1 .. Len(tags) : Optional(tags[i], "uint32") \in S) => Uint32s(tags) \in Seq(S)
           /\ (\A i \in 1 .. Len(tags) : Optional(tags[i], "uint64") \in S) => Uint64s(tags) \in Seq(S)
           /\ \A fields : (\A i \in 1 .. Len(tags) : Sub(tags[i], fields) \in S) =>
                            Subs(tags, fields) \in Seq(S)
<1> DEFINE n == Len(tags)
<1>1. n \in Nat /\ DOMAIN tags = 1 .. n
  BY LenProperties
<1> HIDE DEF n
<1>2. ASSUME \A i \in 1 .. n : Optional(tags[i], "uint32") \in S
      PROVE  Uint32s(tags) \in Seq(S)
  <2>1. Uint32s(tags) \in [1 .. n -> S]
    BY <1>1, <1>2 DEF Uint32s
  <2> QED BY <1>1, <2>1, SequenceOf
<1>3. ASSUME \A i \in 1 .. n : Optional(tags[i], "uint64") \in S
      PROVE  Uint64s(tags) \in Seq(S)
  <2>1. Uint64s(tags) \in [1 .. n -> S]
    BY <1>1, <1>3 DEF Uint64s
  <2> QED BY <1>1, <2>1, SequenceOf
<1>4. ASSUME NEW fields, \A i \in 1 .. n : Sub(tags[i], fields) \in S
      PROVE  Subs(tags, fields) \in Seq(S)
  <2>1. Subs(tags, fields) \in [1 .. n -> S]
    BY <1>1, <1>4 DEF Subs
  <2> QED BY <1>1, <2>1, SequenceOf
<1> QED BY <1>2, <1>3, <1>4 DEF n

ConnectionSet == {Optional(1, "uint32"), Optional(2, "uint32"), Optional(3, "uint32")}
DtpSet == {Optional(1, "bool"), Sub(3, Policy), Sub(4, Policy), Sub(5, Policy),
           Optional(6, "uint64"), Optional(7, "uint32"), Sub(8, Policy)}
QosSet == {Str(1, 20), Optional(2, "uint32"), Optional(3, "uint64"), Optional(4, "uint64"),
           Optional(5, "uint32"), Optional(6, "uint32"), Optional(7, "64bit"),
           Optional(8, "bool"), Optional(9, "bool"), Optional(10, "int"),
           Optional(11, "uint32"), Optional(12, "uint32"), Ignored(13),
           Optional(14, "bool"), Optional(15, "uint32")}
Names(tag) == Field(tag, "message", "required", 0, NamingInfo)
FlowSet ==
    {Names(1), Names(2), Required(3, "uint64"), Optional(4, "uint64"), Required(5, "uint64"),
     Optional(6, "uint64"), Field(7, "message", "repeated", 0, ConnectionId),
     Optional(8, "uint32"), Optional(9, "uint32"), Sub(10, QosSpec), Sub(12, DtpConfig),
     Sub(13, DtcpConfig), Ignored(14), Optional(15, "uint32"), Optional(16, "uint32"),
     Optional(17, "uint32")}

LEMMA ConnectionDescribed ==
    ConnectionId \in Seq(ConnectionSet) /\ ConnectionId # <<>>
<1> DEFINE a == Uint32s(<<1, 2, 3>>)
<1>1. a \in Seq(ConnectionSet) /\ a # <<>>
  <2> DEFINE tags == <<1, 2, 3>>
  <2>1. tags \in Seq(Nat) /\ \A i \in 1 .. Len(tags) : tags[i] \in {1, 2, 3}
    OBVIOUS
  <2>2. \A i \in {1, 2, 3} : Optional(i, "uint32") \in ConnectionSet
    BY DEF ConnectionSet
  <2>5. Uint32s(tags) # <<>>
    BY DEF Uint32s
  <2> HIDE DEF tags
  <2>3. \A i \in 1 .. Len(tags) : Optional(tags[i], "uint32") \in ConnectionSet
    BY <2>1, <2>2, Zenon
  <2>4. Uint32s(tags) \in Seq(ConnectionSet)
    BY <2>1, <2>3, ListsAre
  <2> QED BY <2>4, <2>5 DEF tags
<1> QED BY <1>1 DEF ConnectionId

LEMMA DtpDescribed ==
    DtpConfig \in Seq(DtpSet) /\ DtpConfig # <<>>
<1> DEFINE a == <<Optional(1, "bool")>>
           b == Subs(<<3, 4, 5>>, Policy)
           c == Uint64s(<<6>>)
           d == Uint32s(<<7>>)
           e == <<Sub(8, Policy)>>
<1>1. a \in Seq(DtpSet) /\ a # <<>>
  BY DEF DtpSet
<1>2. b \in Seq(DtpSet)
  <2> DEFINE tags == <<3, 4, 5>>
  <2>1. tags \in Seq(Nat) /\ \A i \in 1 .. Len(tags) : tags[i] \in {3, 4, 5}
    OBVIOUS
  <2>2. \A i \in {3, 4, 5} : Sub(i, Policy) \in DtpSet
    BY DEF DtpSet
  <2> HIDE DEF tags
  <2>3. \A i \in 1 .. Len(tags) : Sub(tags[i], Policy) \in DtpSet
    BY <2>1, <2>2, Zenon
  <2>4. Subs(tags, Policy) \in Seq(DtpSet)
    BY <2>1, <2>3, ListsAre
  <2> QED BY <2>4 DEF tags
<1>3. c \in Seq(DtpSet)
  <2> DEFINE tags == <<6>>
  <2>1. tags \in Seq(Nat) /\ \A i \in 1 .. Len(tags) : tags[i] \in {6}
    OBVIOUS
  <2>2. \A i \in {6} : Optional(i, "uint64") \in DtpSet
    BY DEF DtpSet
  <2> HIDE DEF tags
  <2>3. \A i \in 1 .. Len(tags) : Optional(tags[i], "uint64") \in DtpSet
    BY <2>1, <2>2, Zenon
  <2>4. Uint64s(tags) \in Seq(DtpSet)
    BY <2>1, <2>3, ListsAre
  <2> QED BY <2>4 DEF tags
<1>4. d \in Seq(DtpSet)
  <2> DEFINE tags == <<7>>
  <2>1. tags \in Seq(Nat) /\ \A i \in 1 .. Len(tags) : tags[i] \in {7}
    OBVIOUS
  <2>2. \A i \in {7} : Optional(i, "uint32") \in DtpSet
    BY DEF DtpSet
  <2> HIDE DEF tags
  <2>3. \A i \in 1 .. Len(tags) : Optional(tags[i], "uint32") \in DtpSet
    BY <2>1, <2>2, Zenon
  <2>4. Uint32s(tags) \in Seq(DtpSet)
    BY <2>1, <2>3, ListsAre
  <2> QED BY <2>4 DEF tags
<1>5. e \in Seq(DtpSet)
  BY DEF DtpSet
<1>6. DtpConfig = a \o b \o c \o d \o e
  BY DEF DtpConfig
<1> HIDE DEF a, b, c, d, e
<1> DEFINE ab == a \o b
<1>7. ab \in Seq(DtpSet) /\ ab # <<>>
  BY <1>1, <1>2, Joined
<1> HIDE DEF ab
<1> DEFINE abc == ab \o c
<1>8. abc \in Seq(DtpSet) /\ abc # <<>>
  BY <1>7, <1>3, Joined
<1> HIDE DEF abc
<1> DEFINE abcd == abc \o d
<1>9. abcd \in Seq(DtpSet) /\ abcd # <<>>
  BY <1>8, <1>4, Joined
<1> HIDE DEF abcd
<1> QED BY <1>9, <1>5, <1>6, Joined DEF ab, abc, abcd

LEMMA QosDescribed ==
    QosSpec \in Seq(QosSet) /\ QosSpec # <<>>
<1> DEFINE a == <<Str(1, 20)>>
           b == Uint32s(<<2>>)
           c == Uint64s(<<3, 4>>)
           d == Uint32s(<<5, 6>>)
           e == <<Optional(7, "64bit"), Optional(8, "bool"), Optional(9, "bool"), Optional(10, "int")>>
           f == Uint32s(<<11, 12>>)
           g == <<Ignored(13), Optional(14, "bool"), Optional(15, "uint32")>>
<1>1. a \in Seq(QosSet) /\ a # <<>>
  BY DEF QosSet
<1>2. b \in Seq(QosSet)
  <2> DEFINE tags == <<2>>
  <2>1. tags \in Seq(Nat) /\ \A i \in 1 .. Len(tags) : tags[i] \in {2}
    OBVIOUS
  <2>2. \A i \in {2} : Optional(i, "uint32") \in QosSet
    BY DEF QosSet
  <2> HIDE DEF tags
  <2>3. \A i \in 1 .. Len(tags) : Optional(tags[i], "uint32") \in QosSet
    BY <2>1, <2>2, Zenon
  <2>4. Uint32s(tags) \in Seq(QosSet)
    BY <2>1, <2>3, ListsAre
  <2> QED BY <2>4 DEF tags
<1>3. c \in Seq(QosSet)
  <2> DEFINE tags == <<3, 4>>
  <2>1. tags \in Seq(Nat) /\ \A i \in 1 .. Len(tags) : tags[i] \in {3, 4}
    OBVIOUS
  <2>2. \A i \in {3, 4} : Optional(i, "uint64") \in QosSet
    BY DEF QosSet
  <2> HIDE DEF tags
  <2>3. \A i \in 1 .. Len(tags) : Optional(tags[i], "uint64") \in QosSet
    BY <2>1, <2>2, Zenon
  <2>4. Uint64s(tags) \in Seq(QosSet)
    BY <2>1, <2>3, ListsAre
  <2> QED BY <2>4 DEF tags
<1>4. d \in Seq(QosSet)
  <2> DEFINE tags == <<5, 6>>
  <2>1. tags \in Seq(Nat) /\ \A i \in 1 .. Len(tags) : tags[i] \in {5, 6}
    OBVIOUS
  <2>2. \A i \in {5, 6} : Optional(i, "uint32") \in QosSet
    BY DEF QosSet
  <2> HIDE DEF tags
  <2>3. \A i \in 1 .. Len(tags) : Optional(tags[i], "uint32") \in QosSet
    BY <2>1, <2>2, Zenon
  <2>4. Uint32s(tags) \in Seq(QosSet)
    BY <2>1, <2>3, ListsAre
  <2> QED BY <2>4 DEF tags
<1>5. e \in Seq(QosSet)
  BY DEF QosSet
<1>6. f \in Seq(QosSet)
  <2> DEFINE tags == <<11, 12>>
  <2>1. tags \in Seq(Nat) /\ \A i \in 1 .. Len(tags) : tags[i] \in {11, 12}
    OBVIOUS
  <2>2. \A i \in {11, 12} : Optional(i, "uint32") \in QosSet
    BY DEF QosSet
  <2> HIDE DEF tags
  <2>3. \A i \in 1 .. Len(tags) : Optional(tags[i], "uint32") \in QosSet
    BY <2>1, <2>2, Zenon
  <2>4. Uint32s(tags) \in Seq(QosSet)
    BY <2>1, <2>3, ListsAre
  <2> QED BY <2>4 DEF tags
<1>7. g \in Seq(QosSet)
  BY DEF QosSet
<1>8. QosSpec = a \o b \o c \o d \o e \o f \o g
  BY DEF QosSpec
<1> HIDE DEF a, b, c, d, e, f, g
<1> DEFINE ab == a \o b
<1>9. ab \in Seq(QosSet) /\ ab # <<>>
  BY <1>1, <1>2, Joined
<1> HIDE DEF ab
<1> DEFINE abc == ab \o c
<1>10. abc \in Seq(QosSet) /\ abc # <<>>
  BY <1>9, <1>3, Joined
<1> HIDE DEF abc
<1> DEFINE abcd == abc \o d
<1>11. abcd \in Seq(QosSet) /\ abcd # <<>>
  BY <1>10, <1>4, Joined
<1> HIDE DEF abcd
<1> DEFINE abcde == abcd \o e
<1>12. abcde \in Seq(QosSet) /\ abcde # <<>>
  BY <1>11, <1>5, Joined
<1> HIDE DEF abcde
<1> DEFINE abcdef == abcde \o f
<1>13. abcdef \in Seq(QosSet) /\ abcdef # <<>>
  BY <1>12, <1>6, Joined
<1> HIDE DEF abcdef
<1> QED BY <1>13, <1>7, <1>8, Joined DEF ab, abc, abcd, abcde, abcdef

LEMMA FlowDescribed ==
    /\ Flow \in Seq(FlowSet) /\ Flow # <<>> /\ {1, 2} \subseteq Tags(Flow)
    /\ \A i \in {1, 2} : i \in DOMAIN Flow /\ Flow[i] = Names(i)
<1> DEFINE a == <<Names(1), Names(2), Required(3, "uint64"), Optional(4, "uint64"), Required(5, "uint64"),
                  Optional(6, "uint64"), Field(7, "message", "repeated", 0, ConnectionId)>>
           b == Uint32s(<<8, 9>>)
           c == <<Sub(10, QosSpec), Sub(12, DtpConfig), Sub(13, DtcpConfig), Ignored(14)>>
           d == Uint32s(<<15, 16, 17>>)
<1>1. a \in Seq(FlowSet) /\ a # <<>>
  BY DEF FlowSet, Names
<1>9. \A i \in {1, 2} : i \in DOMAIN a /\ a[i] = Names(i)
  OBVIOUS
<1>2. b \in Seq(FlowSet)
  <2> DEFINE tags == <<8, 9>>
  <2>1. tags \in Seq(Nat) /\ \A i \in 1 .. Len(tags) : tags[i] \in {8, 9}
    OBVIOUS
  <2>2. \A i \in {8, 9} : Optional(i, "uint32") \in FlowSet
    BY DEF FlowSet
  <2> HIDE DEF tags
  <2>3. \A i \in 1 .. Len(tags) : Optional(tags[i], "uint32") \in FlowSet
    BY <2>1, <2>2, Zenon
  <2>4. Uint32s(tags) \in Seq(FlowSet)
    BY <2>1, <2>3, ListsAre
  <2> QED BY <2>4 DEF tags
<1>3. c \in Seq(FlowSet)
  BY DEF FlowSet, Names
<1>4. d \in Seq(FlowSet)
  <2> DEFINE tags == <<15, 16, 17>>
  <2>1. tags \in Seq(Nat) /\ \A i \in 1 .. Len(tags) : tags[i] \in {15, 16, 17}
    OBVIOUS
  <2>2. \A i \in {15, 16, 17} : Optional(i, "uint32") \in FlowSet
    BY DEF FlowSet
  <2> HIDE DEF tags
  <2>3. \A i \in 1 .. Len(tags) : Optional(tags[i], "uint32") \in FlowSet
    BY <2>1, <2>2, Zenon
  <2>4. Uint32s(tags) \in Seq(FlowSet)
    BY <2>1, <2>3, ListsAre
  <2> QED BY <2>4 DEF tags
<1>5. Flow = a \o b \o c \o d
  BY Zenon DEF Flow, Names
<1> HIDE DEF a, b, c, d
<1> DEFINE ab == a \o b
<1>6. /\ ab \in Seq(FlowSet) /\ ab # <<>>
      /\ \A i \in {1, 2} : i \in DOMAIN ab /\ ab[i] = Names(i)
  BY <1>1, <1>2, <1>9, Joined
<1> HIDE DEF ab
<1> DEFINE abc == ab \o c
<1>7. /\ abc \in Seq(FlowSet) /\ abc # <<>>
      /\ \A i \in {1, 2} : i \in DOMAIN abc /\ abc[i] = Names(i)
  BY <1>6, <1>3, Joined
<1> HIDE DEF abc
<1>8. Flow = abc \o d
  BY <1>5 DEF ab, abc
<1>10. /\ Flow \in Seq(FlowSet) /\ Flow # <<>>
       /\ \A i \in {1, 2} : i \in DOMAIN Flow /\ Flow[i] = Names(i)
  BY <1>7, <1>4, <1>8, Joined
<1>11. \A i \in {1, 2} : Names(i).tag = i
  BY DEF Names, Field
<1> QED BY <1>10, <1>11, Zenon DEF Tags
-----------------------------------------------------------------------------
(* What the descriptors say of the tags that the decoders of the structures *)
(* read.                                                                    *)
LEMMA CdapTags ==
    \A f \in CdapSet :
       /\ f.size \in Nat
       /\ f.type = "message" => f.tag \in {8, 18}
       /\ f.tag \in 19 .. 27 => f.type = "string" /\ f.size = 20
       /\ f.tag \in {5, 6} => f.type = "string" /\ f.size = 40
       /\ f.tag = 8 => f = Sub(8, ObjVal)
       /\ f.tag = 18 => f = Sub(18, AuthPolicy)
BY DEF CdapSet, Optional, Required, Str, Sub, Ignored, Field

LEMMA PartTags ==
    /\ \A f \in AuthSet : f.size \in Nat /\ (f.tag \in {1, 2} => f.type = "string" /\ f.size = 40)
    /\ \A f \in ObjValSet : f.size \in Nat /\ (f.tag = 6 => f.type = "bytes" /\ f.size = 512)
    /\ \A f \in NamingSet : f.size \in Nat /\ (f.tag \in 1 .. 4 => f.type = "string" /\ f.size = 20)
    /\ \A f \in EnrollmentSet :
         f.size \in Nat /\ f.type # "message" /\ (f.tag = 4 => f.type = "string" /\ f.size = 20)
BY DEF AuthSet, ObjValSet, NamingSet, EnrollmentSet, Optional, Required, Str, Ignored, Versions, Field

LEMMA FlowTags ==
    \A f \in FlowSet :
       /\ f.size \in Nat
       /\ f.type = "message" => f.tag \in {1, 2, 7, 10, 12, 13}
       /\ f.tag \in {1, 2} => f = Names(f.tag)
       /\ f.tag = 7 => f = Field(7, "message", "repeated", 0, ConnectionId)
       /\ f.tag = 10 => f = Sub(10, QosSpec)
       /\ f.tag = 12 => f = Sub(12, DtpConfig)
       /\ f.tag = 13 => f = Sub(13, DtcpConfig)
BY DEF FlowSet, Names, Optional, Required, Sub, Ignored, Field

LEMMA Descriptors ==
    /\ Proper(CDAPMessage) /\ MessagesUnique(CDAPMessage)
    /\ Proper(Flow) /\ MessagesUnique(Flow)
    /\ Proper(EnrollmentInformation) /\ MessagesUnique(EnrollmentInformation)
    /\ Proper(AuthPolicy) /\ Proper(ObjVal) /\ Proper(NamingInfo)
<1>1. /\ Proper(CDAPMessage) /\ \A i \in DOMAIN CDAPMessage : CDAPMessage[i] \in CdapSet
  BY CdapDescribed, CdapTags, Described
<1>2. MessagesUnique(CDAPMessage)
  <2> SUFFICES ASSUME NEW f \in CdapSet, NEW g \in CdapSet, f.type = "message", g.tag = f.tag
               PROVE  g = f
    BY <1>1, Zenon DEF MessagesUnique
  <2> QED BY CdapTags
<1>3. /\ Proper(Flow) /\ \A i \in DOMAIN Flow : Flow[i] \in FlowSet
  BY FlowDescribed, FlowTags, Described
<1>4. MessagesUnique(Flow)
  <2> SUFFICES ASSUME NEW f \in FlowSet, NEW g \in FlowSet, f.type = "message", g.tag = f.tag
               PROVE  g = f
    BY <1>3, Zenon DEF MessagesUnique
  <2> QED BY FlowTags
<1>5. /\ Proper(EnrollmentInformation)
      /\ \A i \in DOMAIN EnrollmentInformation : EnrollmentInformation[i] \in EnrollmentSet
  BY PartsDescribed, PartTags, Described
<1>6. MessagesUnique(EnrollmentInformation)
  BY <1>5, PartTags, Zenon DEF MessagesUnique
<1>7. Proper(AuthPolicy)
  BY PartsDescribed, PartTags, Described
<1>8. Proper(ObjVal)
  BY PartsDescribed, PartTags, Described
<1>9. Proper(NamingInfo)
  BY PartsDescribed, PartTags, Described
<1> QED BY <1>1, <1>2, <1>3, <1>4, <1>5, <1>6, <1>7, <1>8, <1>9
-----------------------------------------------------------------------------
(* Texts of a decoded message, in the array of their field. *)
Ends(msg, tag, size) ==
    msg[tag] = <<>> \/ \E v : msg[tag] = <<v>> /\ v.len \in Nat /\ v.len < size

LEMMA FlatEnds ==
    ASSUME NEW fields, NEW msg, Flat(fields, msg), NEW tag \in Tags(fields), NEW size,
           \A i \in DOMAIN fields :
              fields[i].tag = tag => fields[i].type = "string" /\ fields[i].size = size
    PROVE  Ends(msg, tag, size)
<1>1. CASE msg[tag] = <<>>
  BY <1>1, Zenon DEF Ends
<1>2. CASE msg[tag] # <<>>
  <2>1. PICK i \in DOMAIN fields :
           /\ fields[i].tag = tag
           /\ fields[i].type \notin Callbacks => \E v : msg[tag] = <<v>> /\ TextFits(fields[i], v)
    BY <1>2, Zenon DEF Flat
  <2>2. fields[i].type = "string" /\ fields[i].size = size
    BY <2>1
  <2>3. fields[i].type \notin Callbacks
    BY <2>2 DEF Callbacks
  <2>4. PICK v : msg[tag] = <<v>> /\ TextFits(fields[i], v)
    BY <2>1, <2>3, Zenon
  <2>5. v.len \in Nat /\ v.len < size
    BY <2>2, <2>4 DEF TextFits
  <2> QED BY <2>4, <2>5, Zenon DEF Ends
<1> QED BY <1>1, <1>2

LEMMA DeepFlat ==
    ASSUME NEW fields, NEW msg, Deep(fields, msg)
    PROVE  Flat(fields, msg)
BY Zenon DEF Deep, Flat, Fits

(* A message in the message. *)
LEMMA DeepInside ==
    ASSUME NEW fields, NEW msg, Deep(fields, msg), NEW tag \in Tags(fields), NEW sub, Proper(sub),
           \A i \in DOMAIN fields :
              fields[i].tag = tag => fields[i].type = "message" /\ fields[i].sub = sub,
           msg[tag] # <<>>
    PROVE  msg[tag] = <<msg[tag][1]>> /\ Flat(sub, msg[tag][1])
<1>1. PICK i \in DOMAIN fields :
         /\ fields[i].tag = tag
         /\ fields[i].type \notin Callbacks => \E v : msg[tag] = <<v>> /\ Fits(fields[i], v)
  BY Zenon DEF Deep
<1>2. fields[i].type = "message" /\ fields[i].sub = sub /\ fields[i].type \notin Callbacks
  BY <1>1 DEF Callbacks
<1>3. PICK v : msg[tag] = <<v>> /\ Fits(fields[i], v)
  BY <1>1, <1>2, Zenon
<1>4. msg[tag][1] = v
  BY <1>3
<1> QED BY <1>2, <1>3, <1>4, Zenon DEF Fits

LEMMA GetEnds ==
    ASSUME NEW msg, NEW tag, NEW size \in Nat \ {0}, Ends(msg, tag, size)
    PROVE  /\ Get(msg, tag, NoText).len \in Nat /\ Get(msg, tag, NoText).len < size
           /\ TextOr(msg[tag]).len < size
<1>1. CASE msg[tag] = <<>>
  BY <1>1 DEF Get, TextOr, NoText
<1>2. CASE msg[tag] # <<>>
  <2>1. PICK v : msg[tag] = <<v>> /\ v.len \in Nat /\ v.len < size
    BY <1>2, Zenon DEF Ends
  <2>2. msg[tag][1] = v
    BY <2>1
  <2> QED BY <1>2, <2>1, <2>2 DEF Get, TextOr
<1> QED BY <1>1, <1>2

LEMMA CdapEnds ==
    ASSUME NEW c, Deep(CDAPMessage, c)
    PROVE  /\ \A tag \in 19 .. 27 : Ends(c, tag, 20)
           /\ \A tag \in {5, 6} : Ends(c, tag, 40)
           /\ c[18] # <<>> => Ends(c[18][1], 1, 40) /\ Ends(c[18][1], 2, 40)
<1>1. \A i \in DOMAIN CDAPMessage : CDAPMessage[i] \in CdapSet
  BY CdapDescribed, CdapTags, Described
<1>2. Flat(CDAPMessage, c)
  BY DeepFlat
<1>3. ASSUME NEW tag \in 19 .. 27 PROVE Ends(c, tag, 20)
  <2>1. tag \in Tags(CDAPMessage)
    BY CdapDescribed
  <2>2. \A i \in DOMAIN CDAPMessage :
           CDAPMessage[i].tag = tag => CDAPMessage[i].type = "string" /\ CDAPMessage[i].size = 20
    BY <1>1, CdapTags
  <2> QED BY <1>2, <2>1, <2>2, FlatEnds, Zenon
<1>4. ASSUME NEW tag \in {5, 6} PROVE Ends(c, tag, 40)
  <2>1. tag \in Tags(CDAPMessage)
    BY CdapDescribed
  <2>2. \A i \in DOMAIN CDAPMessage :
           CDAPMessage[i].tag = tag => CDAPMessage[i].type = "string" /\ CDAPMessage[i].size = 40
    BY <1>1, CdapTags
  <2> QED BY <1>2, <2>1, <2>2, FlatEnds, Zenon
<1>5. ASSUME c[18] # <<>> PROVE Ends(c[18][1], 1, 40) /\ Ends(c[18][1], 2, 40)
  <2>1. 18 \in Tags(CDAPMessage)
    BY CdapDescribed
  <2>2. Sub(18, AuthPolicy).type = "message" /\ Sub(18, AuthPolicy).sub = AuthPolicy
    BY DEF Sub, Field
  <2>3. \A i \in DOMAIN CDAPMessage :
           CDAPMessage[i].tag = 18 => CDAPMessage[i].type = "message" /\ CDAPMessage[i].sub = AuthPolicy
    BY <1>1, <2>2, CdapTags, Zenon
  <2>4. Flat(AuthPolicy, c[18][1])
    BY <1>5, <2>1, <2>3, DeepInside, Descriptors, Zenon
  <2>5. \A i \in DOMAIN AuthPolicy : AuthPolicy[i] \in AuthSet
    BY PartsDescribed, PartTags, Described
  <2>7. \A i \in DOMAIN AuthPolicy :
           AuthPolicy[i].tag \in {1, 2} => AuthPolicy[i].type = "string" /\ AuthPolicy[i].size = 40
    BY <2>5, PartTags
  <2>6. ASSUME NEW tag \in {1, 2} PROVE Ends(c[18][1], tag, 40)
    <3>1. tag \in Tags(AuthPolicy)
      BY PartsDescribed, Zenon
    <3>2. \A i \in DOMAIN AuthPolicy :
             AuthPolicy[i].tag = tag => AuthPolicy[i].type = "string" /\ AuthPolicy[i].size = 40
      BY <2>7, <2>6
    <3> QED BY <2>4, <3>1, <3>2, FlatEnds, Zenon
  <2> QED BY <2>6
<1> QED BY <1>3, <1>4, <1>5

LEMMA NoLength == NoText.len = 0
BY Zenon DEF NoText

LEMMA ValueEnds ==
    ASSUME NEW c, Deep(CDAPMessage, c), c[8] # <<>>
    PROVE  c[8] = <<c[8][1]>> /\ Get(c[8][1], 6, NoText).len <= 512
<1> DEFINE v == c[8][1]
<1>1. Sub(8, ObjVal).type = "message" /\ Sub(8, ObjVal).sub = ObjVal
  BY DEF Sub, Field
<1>2. \A i \in DOMAIN CDAPMessage : CDAPMessage[i] \in CdapSet
  BY CdapDescribed, CdapTags, Described
<1>3. \A i \in DOMAIN CDAPMessage :
         CDAPMessage[i].tag = 8 => CDAPMessage[i].type = "message" /\ CDAPMessage[i].sub = ObjVal
  BY <1>1, <1>2, CdapTags, Zenon
<1>4. 8 \in Tags(CDAPMessage)
  BY CdapDescribed
<1>5. c[8] = <<v>> /\ Flat(ObjVal, v)
  BY <1>3, <1>4, DeepInside, Descriptors, Zenon
<1> HIDE DEF v
<1>6. ASSUME v[6] = <<>> PROVE Get(v, 6, NoText).len <= 512
  BY <1>6, NoLength DEF Get
<1>7. ASSUME v[6] # <<>> PROVE Get(v, 6, NoText).len <= 512
  <2>1. 6 \in Tags(ObjVal)
    BY PartsDescribed, Zenon
  <2>2. PICK i \in DOMAIN ObjVal :
           /\ ObjVal[i].tag = 6
           /\ ObjVal[i].type \notin Callbacks => \E w : v[6] = <<w>> /\ TextFits(ObjVal[i], w)
    BY <1>5, <1>7, <2>1, Zenon DEF Flat
  <2>3. ObjVal[i] \in ObjValSet
    BY PartsDescribed, PartTags, Described
  <2>4. ObjVal[i].type = "bytes" /\ ObjVal[i].size = 512
    BY <2>2, <2>3, PartTags
  <2>5. ObjVal[i].type \notin Callbacks
    BY <2>4 DEF Callbacks
  <2>6. PICK w : v[6] = <<w>> /\ TextFits(ObjVal[i], w)
    BY <2>2, <2>5, Zenon
  <2>7. w.len <= 512
    BY <2>4, <2>6 DEF TextFits
  <2> QED BY <1>7, <2>6, <2>7 DEF Get
<1>8. Get(v, 6, NoText).len <= 512
  BY <1>6, <1>7
<1> QED BY <1>5, <1>8 DEF v

LEMMA OverlaidEnds ==
    ASSUME NEW name, NEW reason, name.len \in Nat, reason.len \in Nat, name.len < 40, reason.len < 20
    PROVE  Overlaid(name, reason).len < 40
<1>1. CASE name.len < 20
  BY <1>1 DEF Overlaid
<1>2. CASE ~(name.len < 20) /\ reason.len > 0
  BY <1>2 DEF Overlaid
<1>3. CASE ~(name.len < 20) /\ ~(reason.len > 0)
  BY <1>3 DEF Overlaid
<1> QED BY <1>1, <1>2, <1>3

(* The three structures whose texts are copied. *)
LEMMA CdapStructEnds ==
    ASSUME NEW c, Deep(CDAPMessage, c)
    PROVE  LET r == CdapStruct(c)
           IN  /\ \A i \in 1 .. 4 : r.dest[i].len < 20 /\ r.src[i].len < 20
               /\ r.objClass.len < 40 /\ r.objName.len < 40 /\ r.reason.len < 20
               /\ TextOr(r.auth[1]).len < 40 /\ r.auth[2].len < 40
               /\ r.objValue # <<>> => r.objValue[1].len <= 512
<1> DEFINE r == CdapStruct(c)
           G(tag) == Get(c, tag, NoText)
<1>8. /\ \A tag \in 19 .. 27 : Ends(c, tag, 20)
      /\ \A tag \in {5, 6} : Ends(c, tag, 40)
      /\ c[18] # <<>> => Ends(c[18][1], 1, 40) /\ Ends(c[18][1], 2, 40)
  BY CdapEnds, Zenon
<1>9. 20 \in Nat \ {0} /\ 40 \in Nat \ {0}
  OBVIOUS
<1>1. \A tag \in 19 .. 27 : G(tag).len \in Nat /\ G(tag).len < 20
  BY <1>8, <1>9, GetEnds, Zenon
<1>2. \A tag \in {5, 6} : G(tag).len \in Nat /\ G(tag).len < 40
  BY <1>8, <1>9, GetEnds, Zenon
<1>3. \A i \in 1 .. 4 : r.dest[i].len < 20 /\ r.src[i].len < 20
  <2>1. r.dest = <<G(22), G(21), G(20), G(19)>> /\ r.src = <<G(26), G(25), G(24), G(23)>>
    BY DEF CdapStruct
  <2> HIDE DEF r, G
  <2>2. /\ G(22).len < 20 /\ G(21).len < 20 /\ G(20).len < 20 /\ G(19).len < 20
        /\ G(26).len < 20 /\ G(25).len < 20 /\ G(24).len < 20 /\ G(23).len < 20
    BY <1>1
  <2> QED BY <2>1, <2>2
<1>4. r.objClass.len < 40 /\ r.reason.len < 20
  <2>1. r.objClass = G(5) /\ r.reason = G(27)
    BY DEF CdapStruct
  <2> HIDE DEF r, G
  <2> QED BY <1>1, <1>2, <2>1
<1>5. r.objName.len < 40
  <2>1. r.objName = Overlaid(G(6), G(27))
    BY DEF CdapStruct
  <2> HIDE DEF r, G
  <2>2. G(6).len \in Nat /\ G(27).len \in Nat /\ G(6).len < 40 /\ G(27).len < 20
    BY <1>1, <1>2
  <2> QED BY <2>1, <2>2, OverlaidEnds
<1>6. TextOr(r.auth[1]).len < 40 /\ r.auth[2].len < 40
  <2>1. r.auth = IF c[18] = <<>> THEN <<<<NoText>>, NoText>>
                 ELSE <<c[18][1][1], Get(c[18][1], 2, NoText)>>
    BY DEF CdapStruct
  <2>2. CASE c[18] = <<>>
    <3>1. r.auth[1] = <<NoText>> /\ r.auth[2] = NoText
      BY <2>1, <2>2
    <3>2. TextOr(<<NoText>>) = NoText
      BY DEF TextOr
    <3> QED BY <3>1, <3>2, NoLength
  <2>3. CASE c[18] # <<>>
    <3>1. r.auth[1] = c[18][1][1] /\ r.auth[2] = Get(c[18][1], 2, NoText)
      BY <2>1, <2>3
    <3>2. TextOr(c[18][1][1]).len < 40 /\ Get(c[18][1], 2, NoText).len < 40
      BY <1>8, <1>9, <2>3, GetEnds, Zenon
    <3> QED BY <3>1, <3>2
  <2> QED BY <2>2, <2>3
<1>7. r.objValue # <<>> => r.objValue[1].len <= 512
  <2>1. r.objValue = [i \in DOMAIN c[8] |-> Get(c[8][i], 6, NoText)]
    BY DEF CdapStruct
  <2>2. CASE c[8] = <<>>
    BY <2>1, <2>2
  <2>3. CASE c[8] # <<>>
    <3>1. 1 \in DOMAIN c[8]
      <4>1. c[8] = <<c[8][1]>>
        BY <2>3, ValueEnds
      <4> QED BY <4>1
    <3> QED BY <2>1, <2>3, <3>1, ValueEnds
  <2> QED BY <2>2, <2>3
<1> QED BY <1>3, <1>4, <1>5, <1>6, <1>7

LEMMA EnrollmentEnds ==
    ASSUME NEW c, Deep(EnrollmentInformation, c)
    PROVE  TextOr(EnrollmentStruct(c).token).len < 20
<1>1. \A i \in DOMAIN EnrollmentInformation : EnrollmentInformation[i] \in EnrollmentSet
  BY PartsDescribed, PartTags, Described
<1>2. \A i \in DOMAIN EnrollmentInformation :
         EnrollmentInformation[i].tag = 4 =>
           EnrollmentInformation[i].type = "string" /\ EnrollmentInformation[i].size = 20
  BY <1>1, PartTags
<1>3. 4 \in Tags(EnrollmentInformation)
  BY PartsDescribed, Zenon
<1>4. Flat(EnrollmentInformation, c)
  BY DeepFlat
<1>5. Ends(c, 4, 20)
  BY <1>2, <1>3, <1>4, FlatEnds, Zenon
<1>6. TextOr(c[4]).len < 20
  BY <1>5, GetEnds
<1> QED BY <1>6 DEF EnrollmentStruct

LEMMA NameEnds ==
    ASSUME NEW n, Flat(NamingInfo, n)
    PROVE  \A i \in 1 .. 4 : NameStruct(n)[i].len < 20
<1>1. \A i \in DOMAIN NamingInfo : NamingInfo[i] \in NamingSet
  BY PartsDescribed, PartTags, Described
<1>2. \A i \in DOMAIN NamingInfo :
         NamingInfo[i].tag \in 1 .. 4 => NamingInfo[i].type = "string" /\ NamingInfo[i].size = 20
  BY <1>1, PartTags
<1>3. ASSUME NEW tag \in 1 .. 4 PROVE Get(n, tag, NoText).len < 20
  <2>1. tag \in Tags(NamingInfo)
    BY PartsDescribed, Zenon
  <2>2. \A i \in DOMAIN NamingInfo :
           NamingInfo[i].tag = tag => NamingInfo[i].type = "string" /\ NamingInfo[i].size = 20
    BY <1>2
  <2>3. Ends(n, tag, 20)
    BY <2>1, <2>2, FlatEnds, Zenon
  <2> QED BY <2>3, GetEnds
<1> QED BY <1>3 DEF NameStruct

LEMMA FlowEnds ==
    ASSUME NEW c, Deep(Flow, c), c[1] # <<>>, c[2] # <<>>
    PROVE  \A i \in 1 .. 4 : FlowStruct(c).dest[i].len < 20 /\ FlowStruct(c).src[i].len < 20
<1>1. \A i \in DOMAIN Flow : Flow[i] \in FlowSet
  BY FlowDescribed, FlowTags, Described
<1>2. ASSUME NEW tag \in {1, 2} PROVE Flat(NamingInfo, c[tag][1])
  <2>1. Names(tag).type = "message" /\ Names(tag).sub = NamingInfo
    BY DEF Names, Field
  <2>2. \A i \in DOMAIN Flow :
           Flow[i].tag = tag => Flow[i].type = "message" /\ Flow[i].sub = NamingInfo
    BY <1>1, <2>1, FlowTags
  <2>3. tag \in Tags(Flow) /\ c[tag] # <<>>
    BY FlowDescribed
  <2> QED BY <2>2, <2>3, DeepInside, Descriptors, Zenon
<1>3. FlowStruct(c).dest = NameStruct(c[2][1]) /\ FlowStruct(c).src = NameStruct(c[1][1])
  BY DEF FlowStruct
<1> QED BY <1>2, <1>3, NameEnds
-----------------------------------------------------------------------------
(* What an encoder writes: tokens of one type, whose varints are words. *)
Sent(S) == {t \in Tokens(S) : t.wt = "varint" => \E w \in Words, signed \in BOOLEAN :
                                                    t.num = pb_encode_varint(w, signed)}

LEMMA VarintTyped ==
    ASSUME NEW w \in Words, NEW signed \in BOOLEAN
    PROVE  pb_encode_varint(w, signed) \in Seq(Nat)
<1> DEFINE g == Written(w, signed)
           s == pb_encode_varint(w, signed)
           n == Len(g)
<1>1. g \in Seq(Sevens) /\ n \in 1 .. 10
  BY WrittenGroups
<1>2. \A i \in 1 .. n : g[i] \in Sevens
  BY <1>1, ElementOfSeq
<1>3. s = [i \in 1 .. n |-> IF i < n THEN g[i] + 128 ELSE g[i]]
  BY DEF pb_encode_varint
<1> HIDE DEF g, s, n
<1>4. s \in [1 .. n -> Nat]
  <2> SUFFICES ASSUME NEW i \in 1 .. n
               PROVE  (IF i < n THEN g[i] + 128 ELSE g[i]) \in Nat
    BY <1>3, Zenon
  <2>1. g[i] \in Sevens
    BY <1>2, Zenon
  <2>2. g[i] \in Nat /\ g[i] + 128 \in Nat
    BY <2>1 DEF Sevens
  <2> QED BY <2>2, Zenon
<1>5. n \in Nat
  BY <1>1
<1>6. s \in Seq(Nat)
  BY <1>4, <1>5, SequenceOf
<1> QED BY <1>6 DEF s

LEMMA NoTextTyped == NoText \in Texts
BY Zenon, NoLength, PbAssumption DEF NoText, Texts

LEMMA TokensTyped ==
    ASSUME NEW S, NEW tag \in Nat
    PROVE  /\ \A bytes \in Seq(Nat) : Num(tag, bytes) \in Tokens(S)
           /\ \A text \in Texts : Txt(tag, text) \in Tokens(S)
           /\ \A toks \in Seq(S) : Msg(tag, toks) \in Tokens(S)
<1>1. <<>> \in Seq(S) /\ <<>> \in Seq(Nat)
  BY EmptySeq
<1>2. ASSUME NEW bytes \in Seq(Nat) PROVE Num(tag, bytes) \in Tokens(S)
  BY <1>1, NoTextTyped DEF Num, Tokens, WireTypes
<1>3. ASSUME NEW text \in Texts PROVE Txt(tag, text) \in Tokens(S)
  BY <1>1 DEF Txt, Tokens, WireTypes
<1>4. ASSUME NEW toks \in Seq(S) PROVE Msg(tag, toks) \in Tokens(S)
  <2>1. Len(toks) \in Nat
    BY LenProperties
  <2>2. [id |-> "message", len |-> Len(toks)] \in Texts
    BY <2>1, PbAssumption DEF Texts
  <2> HIDE DEF Texts
  <2> QED BY <1>1, <2>2 DEF Msg, Tokens, WireTypes
<1> QED BY <1>2, <1>3, <1>4

(* What a field is given in a structure. *)
ValueTyped(f, v, part, S) ==
    CASE f.type \in {"string", "bytes", "difs"} -> v \in Texts
      [] f.type \in {"message", "neighbors"} -> part.ok => part.val \in Seq(S)
      [] OTHER -> v \in Words

LEMMA OneTyped ==
    ASSUME NEW S, NEW f, f.tag \in Nat, NEW v, NEW part, ValueTyped(f, v, part, S),
           EncodeOne(f, v, part).ok
    PROVE  EncodeOne(f, v, part).val \in Sent(S)
<1> DEFINE r == EncodeOne(f, v, part)
<1>1. CASE f.type \in {"string", "bytes", "difs"}
  <2>1. v \in Texts
    BY <1>1 DEF ValueTyped
  <2>2. r = Ok(Txt(f.tag, v))
    BY <1>1 DEF EncodeOne, encode_callback_field, encode_basic_field, pb_enc_string, pb_enc_bytes, Fail
  <2>3. r.val = Txt(f.tag, v)
    BY <2>2 DEF Ok
  <2>4. Txt(f.tag, v) \in Tokens(S) /\ Txt(f.tag, v).wt = "string"
    BY <2>1, TokensTyped DEF Txt
  <2> QED BY <2>3, <2>4 DEF Sent
<1>2. CASE f.type \in {"message", "neighbors"}
  <2>1. r = pb_enc_submessage(f, part)
    BY <1>2 DEF EncodeOne, encode_callback_field, encode_basic_field
  <2>2. part.ok /\ r.val = Msg(f.tag, part.val)
    BY <2>1 DEF pb_enc_submessage, Ok, Fail
  <2>3. part.val \in Seq(S)
    BY <1>2, <2>2 DEF ValueTyped
  <2>4. Msg(f.tag, part.val) \in Tokens(S) /\ Msg(f.tag, part.val).wt = "string"
    BY <2>3, TokensTyped DEF Msg
  <2> QED BY <2>2, <2>4 DEF Sent
<1>3. CASE f.type \notin {"string", "bytes", "difs", "message", "neighbors"}
  <2>1. v \in Words
    BY <1>3 DEF ValueTyped
  <2>2. r = Ok(Num(f.tag, pb_encode_varint(v, f.type = "int")))
    BY <1>3 DEF EncodeOne, encode_basic_field, pb_enc_varint
  <2> DEFINE s == pb_encode_varint(v, f.type = "int")
  <2>3. r.val = Num(f.tag, s)
    BY <2>2 DEF Ok
  <2>4. (f.type = "int") \in BOOLEAN
    OBVIOUS
  <2>5. s \in Seq(Nat)
    BY <2>1, <2>4, VarintTyped, Zenon
  <2>6. \E w \in Words, signed \in BOOLEAN : s = pb_encode_varint(w, signed)
    BY <2>1, <2>4, Zenon
  <2> HIDE DEF s
  <2>7. Num(f.tag, s) \in Tokens(S) /\ Num(f.tag, s).num = s
    BY <2>5, TokensTyped DEF Num
  <2> QED BY <2>3, <2>6, <2>7, Zenon DEF Sent
<1> QED BY <1>1, <1>2, <1>3

LEMMA FieldTyped ==
    ASSUME NEW S, NEW f, f.tag \in Nat, NEW n \in Nat, NEW vs, DOMAIN vs = 1 .. n, NEW parts,
           \A j \in 1 .. n : ValueTyped(f, vs[j], parts[j], S),
           encode_field(f, vs, parts).ok
    PROVE  encode_field(f, vs, parts).val \in Seq(Sent(S))
<1> DEFINE val == [j \in 1 .. n |-> EncodeOne(f, vs[j], parts[j]).val]
<1>1. \A j \in 1 .. n : EncodeOne(f, vs[j], parts[j]).ok
  BY Zenon DEF encode_field, Fail
<1>2. encode_field(f, vs, parts).val = val
  <2>1. encode_field(f, vs, parts) = Ok([j \in DOMAIN vs |-> EncodeOne(f, vs[j], parts[j]).val])
    BY <1>1, Zenon DEF encode_field
  <2> QED BY <2>1 DEF Ok
<1>3. \A j \in 1 .. n : EncodeOne(f, vs[j], parts[j]).val \in Sent(S)
  BY <1>1, OneTyped, Zenon
<1>4. val \in [1 .. n -> Sent(S)]
  BY <1>3, Zenon
<1> HIDE DEF val
<1> QED BY <1>2, <1>4, SequenceOf

(* A message is what was written of its fields, one after the other. *)
IsWritten(fields, msg, parts, r) ==
    LET field == [i \in DOMAIN fields |-> encode_field(fields[i], msg[fields[i].tag], parts[i])]
    IN  r = IF \A i \in DOMAIN fields : field[i].ok
            THEN Ok(FlattenSeq([i \in DOMAIN fields |-> field[i].val])) ELSE Fail

LEMMA MessageTyped ==
    ASSUME NEW T, NEW fields, Proper(fields), NEW msg, NEW parts, NEW r,
           IsWritten(fields, msg, parts, r), r.ok,
           \A i \in DOMAIN fields :
              LET e == encode_field(fields[i], msg[fields[i].tag], parts[i])
              IN  e.ok => e.val \in Seq(T)
    PROVE  r.val \in Seq(T)
<1> DEFINE field == [i \in DOMAIN fields |-> encode_field(fields[i], msg[fields[i].tag], parts[i])]
           vals  == [i \in DOMAIN fields |-> field[i].val]
<1>1. r = IF \A i \in DOMAIN fields : field[i].ok THEN Ok(FlattenSeq(vals)) ELSE Fail
  BY Zenon DEF IsWritten
<1>2. \A i \in DOMAIN fields : field[i].ok => field[i].val \in Seq(T)
  BY Zenon
<1>3. PICK n \in Nat : DOMAIN fields = 1 .. n
  BY DEF Proper
<1> HIDE DEF field
<1>4. (\A i \in DOMAIN fields : field[i].ok) /\ r.val = FlattenSeq(vals)
  <2> HIDE DEF vals
  <2> QED BY <1>1 DEF Ok, Fail
<1>5. vals \in [1 .. n -> Seq(T)]
  BY <1>2, <1>3, <1>4, Zenon
<1> HIDE DEF vals
<1> QED BY <1>4, <1>5, Flattened, Zenon
-----------------------------------------------------------------------------
(* What a structure in memory holds for a field. *)
Held(f, vs) ==
    /\ f.tag \in Nat
    /\ f.type \in {"string", "bytes", "difs"} => vs \in Seq(Texts)
    /\ f.type \in {"message", "neighbors"} => \E n \in Nat : DOMAIN vs = 1 .. n
    /\ f.type \notin {"string", "bytes", "difs", "message", "neighbors"} => vs \in Seq(Words)

LEMMA HeldTyped ==
    ASSUME NEW S, NEW f, NEW vs, Held(f, vs), NEW parts,
           f.type \in {"message", "neighbors"} =>
             \A j \in DOMAIN vs : parts[j].ok => parts[j].val \in Seq(S),
           encode_field(f, vs, parts).ok
    PROVE  encode_field(f, vs, parts).val \in Seq(Sent(S))
<1>1. CASE f.type \in {"string", "bytes", "difs"}
  <2>1. PICK n \in Nat : DOMAIN vs = 1 .. n
    BY <1>1, LenProperties DEF Held
  <2>2. \A j \in 1 .. n : vs[j] \in Texts
    BY <1>1, <2>1, LenProperties, ElementOfSeq DEF Held
  <2>3. \A j \in 1 .. n : ValueTyped(f, vs[j], parts[j], S)
    BY <1>1, <2>2 DEF ValueTyped
  <2> QED BY <2>1, <2>3, FieldTyped, Zenon DEF Held
<1>2. CASE f.type \in {"message", "neighbors"}
  <2>1. PICK n \in Nat : DOMAIN vs = 1 .. n
    BY <1>2 DEF Held
  <2>2. \A j \in 1 .. n : parts[j].ok => parts[j].val \in Seq(S)
    BY <1>2, <2>1
  <2>3. \A j \in 1 .. n : ValueTyped(f, vs[j], parts[j], S)
    BY <1>2, <2>2 DEF ValueTyped
  <2> QED BY <2>1, <2>3, FieldTyped, Zenon DEF Held
<1>3. CASE f.type \notin {"string", "bytes", "difs", "message", "neighbors"}
  <2>1. PICK n \in Nat : DOMAIN vs = 1 .. n
    BY <1>3, LenProperties DEF Held
  <2>2. \A j \in 1 .. n : vs[j] \in Words
    BY <1>3, <2>1, LenProperties, ElementOfSeq DEF Held
  <2>3. \A j \in 1 .. n : ValueTyped(f, vs[j], parts[j], S)
    BY <1>3, <2>2 DEF ValueTyped
  <2> QED BY <2>1, <2>3, FieldTyped, Zenon DEF Held
<1> QED BY <1>1, <1>2, <1>3

(* The levels of messages in messages. *)
LEMMA MessageWritten ==
    ASSUME NEW S, NEW fields, Proper(fields), NEW msg,
           \A i \in DOMAIN fields : Held(fields[i], msg[fields[i].tag]),
           \A i \in DOMAIN fields :
              fields[i].type \in {"message", "neighbors"} =>
                \A j \in DOMAIN msg[fields[i].tag] :
                   LET r == Encode4(fields[i].sub, msg[fields[i].tag][j])
                   IN  r.ok => r.val \in Seq(S),
           pb_encode(fields, msg).ok
    PROVE  pb_encode(fields, msg).val \in Seq(Sent(S))
<1> DEFINE Vals(i) == msg[fields[i].tag]
           Parts(i) == [j \in DOMAIN Vals(i) |-> Encode4(fields[i].sub, Vals(i)[j])]
           parts == [i \in DOMAIN fields |-> Parts(i)]
           written == [i \in DOMAIN fields |-> encode_field(fields[i], Vals(i), Parts(i))]
           field == [i \in DOMAIN fields |-> encode_field(fields[i], Vals(i), parts[i])]
<1>1. pb_encode(fields, msg) = IF \A i \in DOMAIN fields : written[i].ok
                           THEN Ok(FlattenSeq([i \in DOMAIN fields |-> written[i].val])) ELSE Fail
  BY Zenon DEF pb_encode, EncodeFields
<1>2. \A i \in DOMAIN fields : parts[i] = Parts(i)
  BY Zenon
<1>3. written = field
  <2> HIDE DEF parts, Parts, Vals
  <2> QED BY <1>2
<1>4. IsWritten(fields, msg, parts, pb_encode(fields, msg))
  <2> HIDE DEF written, parts
  <2> QED BY <1>1, <1>3, Zenon DEF IsWritten
<1>5. ASSUME NEW i \in DOMAIN fields, encode_field(fields[i], msg[fields[i].tag], parts[i]).ok
      PROVE  encode_field(fields[i], msg[fields[i].tag], parts[i]).val \in Seq(Sent(S))
  <2>1. ASSUME fields[i].type \in {"message", "neighbors"}, NEW j \in DOMAIN msg[fields[i].tag],
               parts[i][j].ok
        PROVE  parts[i][j].val \in Seq(S)
    <3>1. parts[i][j] = Encode4(fields[i].sub, msg[fields[i].tag][j])
      BY <1>2, <2>1, Zenon
    <3> HIDE DEF parts
    <3> QED BY <2>1, <3>1, Zenon
  <2> HIDE DEF parts
  <2>2. Held(fields[i], msg[fields[i].tag])
    OBVIOUS
  <2>3. fields[i].type \in {"message", "neighbors"} =>
          \A j \in DOMAIN msg[fields[i].tag] : parts[i][j].ok => parts[i][j].val \in Seq(S)
    BY <2>1, Zenon
  <2> QED BY <1>5, <2>2, <2>3, HeldTyped, Zenon
<1> HIDE DEF parts
<1>6. \A i \in DOMAIN fields :
         LET e == encode_field(fields[i], msg[fields[i].tag], parts[i])
         IN  e.ok => e.val \in Seq(Sent(S))
  BY <1>5, Zenon
<1> QED BY <1>4, <1>6, MessageTyped, Zenon

LEMMA PartWritten ==
    ASSUME NEW S, NEW fields, Proper(fields), NEW msg,
           \A i \in DOMAIN fields : Held(fields[i], msg[fields[i].tag]),
           \A i \in DOMAIN fields :
              fields[i].type \in {"message", "neighbors"} =>
                \A j \in DOMAIN msg[fields[i].tag] :
                   LET r == Encode3(fields[i].sub, msg[fields[i].tag][j])
                   IN  r.ok => r.val \in Seq(S),
           Encode4(fields, msg).ok
    PROVE  Encode4(fields, msg).val \in Seq(Sent(S))
<1> DEFINE Vals(i) == msg[fields[i].tag]
           Parts(i) == [j \in DOMAIN Vals(i) |-> Encode3(fields[i].sub, Vals(i)[j])]
           parts == [i \in DOMAIN fields |-> Parts(i)]
           written == [i \in DOMAIN fields |-> encode_field(fields[i], Vals(i), Parts(i))]
           field == [i \in DOMAIN fields |-> encode_field(fields[i], Vals(i), parts[i])]
<1>1. Encode4(fields, msg) = IF \A i \in DOMAIN fields : written[i].ok
                           THEN Ok(FlattenSeq([i \in DOMAIN fields |-> written[i].val])) ELSE Fail
  BY Zenon DEF Encode4, EncodeFields
<1>2. \A i \in DOMAIN fields : parts[i] = Parts(i)
  BY Zenon
<1>3. written = field
  <2> HIDE DEF parts, Parts, Vals
  <2> QED BY <1>2
<1>4. IsWritten(fields, msg, parts, Encode4(fields, msg))
  <2> HIDE DEF written, parts
  <2> QED BY <1>1, <1>3, Zenon DEF IsWritten
<1>5. ASSUME NEW i \in DOMAIN fields, encode_field(fields[i], msg[fields[i].tag], parts[i]).ok
      PROVE  encode_field(fields[i], msg[fields[i].tag], parts[i]).val \in Seq(Sent(S))
  <2>1. ASSUME fields[i].type \in {"message", "neighbors"}, NEW j \in DOMAIN msg[fields[i].tag],
               parts[i][j].ok
        PROVE  parts[i][j].val \in Seq(S)
    <3>1. parts[i][j] = Encode3(fields[i].sub, msg[fields[i].tag][j])
      BY <1>2, <2>1, Zenon
    <3> HIDE DEF parts
    <3> QED BY <2>1, <3>1, Zenon
  <2> HIDE DEF parts
  <2>2. Held(fields[i], msg[fields[i].tag])
    OBVIOUS
  <2>3. fields[i].type \in {"message", "neighbors"} =>
          \A j \in DOMAIN msg[fields[i].tag] : parts[i][j].ok => parts[i][j].val \in Seq(S)
    BY <2>1, Zenon
  <2> QED BY <1>5, <2>2, <2>3, HeldTyped, Zenon
<1> HIDE DEF parts
<1>6. \A i \in DOMAIN fields :
         LET e == encode_field(fields[i], msg[fields[i].tag], parts[i])
         IN  e.ok => e.val \in Seq(Sent(S))
  BY <1>5, Zenon
<1> QED BY <1>4, <1>6, MessageTyped, Zenon
-----------------------------------------------------------------------------
(* The tokens of a message, of a message in it, and of one in that. *)
Leaf  == Tokens({})
Inner == Tokens(Leaf)
Token == Tokens(Inner)

LEMMA Wider ==
    ASSUME NEW A, NEW B, A \subseteq B
    PROVE  Seq(A) \subseteq Seq(B)
<1> SUFFICES ASSUME NEW s \in Seq(A) PROVE s \in Seq(B)
  OBVIOUS
<1> DEFINE n == Len(s)
<1>1. n \in Nat /\ s \in [1 .. n -> A]
  BY LenProperties, ElementOfSeq
<1> HIDE DEF n
<1>2. s \in [1 .. n -> B]
  BY <1>1
<1> QED BY <1>1, <1>2, SequenceOf

LEMMA SentAre == \A S : Seq(Sent(S)) \subseteq Seq(Tokens(S))
<1> TAKE S
<1>1. Sent(S) \subseteq Tokens(S)
  BY DEF Sent
<1> QED BY <1>1, Wider, Zenon

LEMMA EmptyIs ==
    \A fields : /\ DOMAIN Empty(fields) = Tags(fields)
                /\ \A tag \in Tags(fields) : Empty(fields)[tag] = <<>>
BY Zenon DEF Empty, Tags

LEMMA StrncpyTyped ==
    ASSUME NEW text \in Texts, NEW size \in Nat
    PROVE  Strncpy(text, size) \in Texts
BY DEF Strncpy, Texts

LEMMA CopiedTyped ==
    ASSUME NEW p \in Pointers, NEW size \in Nat
    PROVE  Copied(p, size) \in Seq(Texts)
<1>1. PICK n \in Nat : DOMAIN p = 1 .. n /\ \A i \in 1 .. n : p[i] \in Texts
  <2>1. CASE p = <<>>
    <3>1. DOMAIN p = 1 .. 0
      BY <2>1
    <3> QED BY <3>1
  <2>2. CASE p \in [1 .. 1 -> Texts]
    BY <2>2
  <2> QED BY <2>1, <2>2 DEF Pointers
<1>2. \A i \in 1 .. n : Strncpy(p[i], size) \in Texts
  BY <1>1, StrncpyTyped
<1>3. Copied(p, size) \in [1 .. n -> Texts]
  BY <1>1, <1>2, Zenon DEF Copied
<1> QED BY <1>3, SequenceOf, Zenon

LEMMA HeldSimply ==
    ASSUME NEW f, f.tag \in Nat, NEW vs
    PROVE  /\ vs = <<>> => Held(f, vs)
           /\ f.type \in {"string", "bytes"} /\ vs \in Seq(Texts) => Held(f, vs)
           /\ f.type \in {"int", "uint32", "uint64", "bool"} /\ vs \in Seq(Words) => Held(f, vs)
           /\ f.type = "message" /\ (\E n \in Nat : DOMAIN vs = 1 .. n) => Held(f, vs)
<1>1. ASSUME vs = <<>> PROVE Held(f, vs)
  <2>1. DOMAIN vs = 1 .. 0 /\ vs \in Seq(Texts) /\ vs \in Seq(Words)
    BY <1>1
  <2> QED BY <2>1 DEF Held
<1>2. ASSUME f.type \in {"string", "bytes"}, vs \in Seq(Texts) PROVE Held(f, vs)
  BY <1>2 DEF Held
<1>3. ASSUME f.type \in {"int", "uint32", "uint64", "bool"}, vs \in Seq(Words) PROVE Held(f, vs)
  BY <1>3 DEF Held
<1>4. ASSUME f.type = "message", \E n \in Nat : DOMAIN vs = 1 .. n PROVE Held(f, vs)
  BY <1>4 DEF Held
<1> QED BY <1>1, <1>2, <1>3, <1>4

AllHeld(fields, msg) == \A i \in DOMAIN fields : Held(fields[i], msg[fields[i].tag])
HasAt(fields, msg, tag, vs) ==
    \A i \in DOMAIN fields : fields[i].tag = tag => msg[fields[i].tag] = vs
NothingElse(fields, msg, tags) ==
    \A i \in DOMAIN fields : fields[i].tag \notin tags => msg[fields[i].tag] = <<>>

(* What the fields that are set are. *)
LEMMA KindsOfFields ==
    /\ \A f \in AuthSet :
         /\ f.tag \in Nat /\ f.size \in Nat
         /\ f.type \notin {"message", "neighbors"}
         /\ f.tag \in {1, 2} => f.type \in {"string", "bytes"}
    /\ \A f \in ObjValSet :
         /\ f.tag \in Nat /\ f.size \in Nat
         /\ f.type \notin {"message", "neighbors"}
         /\ f.tag \in {6} => f.type \in {"string", "bytes"}
    /\ \A f \in NamingSet :
         /\ f.tag \in Nat /\ f.size \in Nat
         /\ f.type \notin {"message", "neighbors"}
         /\ f.tag \in {1} => f.type \in {"string", "bytes"}
    /\ \A f \in ConnectionSet :
         /\ f.tag \in Nat /\ f.size \in Nat
         /\ f.type \notin {"message", "neighbors"}
         /\ f.tag \in {1, 2, 3} => f.type \in {"int", "uint32", "uint64", "bool"}
    /\ \A f \in QosSet :
         /\ f.tag \in Nat /\ f.size \in Nat
         /\ f.type \notin {"message", "neighbors"}
         /\ f.tag \in {1} => f.type \in {"string", "bytes"}
         /\ f.tag \in {2, 8, 9} => f.type \in {"int", "uint32", "uint64", "bool"}
    /\ \A f \in DtpSet :
         /\ f.tag \in Nat /\ f.size \in Nat
         /\ f.type # "neighbors"
         /\ f.tag \in {7, 1} => f.type \in {"int", "uint32", "uint64", "bool"}
         /\ f.tag \in {8} => f.type = "message"
    /\ \A f \in EnrollmentSet :
         /\ f.tag \in Nat /\ f.size \in Nat
         /\ f.type \notin {"message", "neighbors"}
         /\ f.tag \in {4} => f.type \in {"string", "bytes"}
         /\ f.tag \in {3, 1} => f.type \in {"int", "uint32", "uint64", "bool"}
    /\ \A f \in CdapSet :
         /\ f.tag \in Nat /\ f.size \in Nat
         /\ f.type # "neighbors"
         /\ f.tag \in {19, 20, 21, 22, 23, 24, 25, 26, 27, 5, 6} => f.type \in {"string", "bytes"}
         /\ f.tag \in {28, 2, 3, 9, 7} => f.type \in {"int", "uint32", "uint64", "bool"}
         /\ f.tag \in {18, 8} => f.type = "message"
    /\ \A f \in FlowSet :
         /\ f.tag \in Nat /\ f.size \in Nat
         /\ f.type # "neighbors"
         /\ f.tag \in {3, 5, 17} => f.type \in {"int", "uint32", "uint64", "bool"}
         /\ f.tag \in {1, 2, 7, 10, 12} => f.type = "message"
<1>1. \A f \in AuthSet :
      /\ f.tag \in Nat /\ f.size \in Nat
      /\ f.type \notin {"message", "neighbors"}
      /\ f.tag \in {1, 2} => f.type \in {"string", "bytes"}
  BY DEF AuthSet, Optional, Required, Str, Sub, Ignored, Versions, Field
<1>2. \A f \in ObjValSet :
      /\ f.tag \in Nat /\ f.size \in Nat
      /\ f.type \notin {"message", "neighbors"}
      /\ f.tag \in {6} => f.type \in {"string", "bytes"}
  BY DEF ObjValSet, Optional, Required, Str, Sub, Ignored, Versions, Field
<1>3. \A f \in NamingSet :
      /\ f.tag \in Nat /\ f.size \in Nat
      /\ f.type \notin {"message", "neighbors"}
      /\ f.tag \in {1} => f.type \in {"string", "bytes"}
  BY DEF NamingSet, Optional, Required, Str, Sub, Ignored, Versions, Field
<1>4. \A f \in ConnectionSet :
      /\ f.tag \in Nat /\ f.size \in Nat
      /\ f.type \notin {"message", "neighbors"}
      /\ f.tag \in {1, 2, 3} => f.type \in {"int", "uint32", "uint64", "bool"}
  BY DEF ConnectionSet, Optional, Required, Str, Sub, Ignored, Versions, Field
<1>5. \A f \in QosSet :
      /\ f.tag \in Nat /\ f.size \in Nat
      /\ f.type \notin {"message", "neighbors"}
      /\ f.tag \in {1} => f.type \in {"string", "bytes"}
      /\ f.tag \in {2, 8, 9} => f.type \in {"int", "uint32", "uint64", "bool"}
  BY DEF QosSet, Optional, Required, Str, Sub, Ignored, Versions, Field
<1>7. \A f \in DtpSet :
      /\ f.tag \in Nat /\ f.size \in Nat
      /\ f.type # "neighbors"
      /\ f.tag \in {7, 1} => f.type \in {"int", "uint32", "uint64", "bool"}
      /\ f.tag \in {8} => f.type = "message"
  BY DEF DtpSet, Optional, Required, Str, Sub, Ignored, Versions, Field
<1>8. \A f \in EnrollmentSet :
      /\ f.tag \in Nat /\ f.size \in Nat
      /\ f.type \notin {"message", "neighbors"}
      /\ f.tag \in {4} => f.type \in {"string", "bytes"}
      /\ f.tag \in {3, 1} => f.type \in {"int", "uint32", "uint64", "bool"}
  BY DEF EnrollmentSet, Optional, Required, Str, Sub, Ignored, Versions, Field
<1>9. \A f \in CdapSet :
      /\ f.tag \in Nat /\ f.size \in Nat
      /\ f.type # "neighbors"
      /\ f.tag \in {19, 20, 21, 22, 23, 24, 25, 26, 27, 5, 6} => f.type \in {"string", "bytes"}
      /\ f.tag \in {28, 2, 3, 9, 7} => f.type \in {"int", "uint32", "uint64", "bool"}
      /\ f.tag \in {18, 8} => f.type = "message"
  <2>1. \A f \in CdapSet : f.tag \in Nat /\ f.type # "neighbors"
    BY DEF CdapSet, Optional, Required, Str, Sub, Ignored, Versions, Field
  <2>2. \A f \in CdapSet : f.tag \in {28, 2, 3, 9, 7} => f.type \in {"int", "uint32", "uint64", "bool"}
    BY DEF CdapSet, Optional, Required, Str, Sub, Ignored, Versions, Field
  <2>3. Sub(18, AuthPolicy).type = "message" /\ Sub(8, ObjVal).type = "message"
    BY DEF Sub, Field
  <2>4. \A f \in CdapSet : f.tag \in {18, 8} => f.type = "message"
    BY <2>3, CdapTags
  <2>5. \A f \in CdapSet : f.tag \in {} => f.type = "string"
    BY CdapTags
  <2> QED BY <2>1, <2>2, <2>4, <2>5, CdapTags
<1>10. \A f \in FlowSet :
      /\ f.tag \in Nat /\ f.size \in Nat
      /\ f.type # "neighbors"
      /\ f.tag \in {3, 5, 17} => f.type \in {"int", "uint32", "uint64", "bool"}
      /\ f.tag \in {1, 2, 7, 10, 12} => f.type = "message"
  BY DEF FlowSet, Optional, Required, Str, Sub, Ignored, Versions, Field, Names
<1> QED BY <1>1, <1>2, <1>3, <1>4, <1>5, <1>7, <1>8, <1>9, <1>10

LEMMA AuthPolicyHeld ==
    ASSUME NEW v1 \in Seq(Texts), NEW v2 \in Seq(Texts)
    PROVE  LET msg == [Empty(AuthPolicy) EXCEPT ![1] = v1, ![2] = v2]
           IN  AllHeld(AuthPolicy, msg)
<1> DEFINE msg == [Empty(AuthPolicy) EXCEPT ![1] = v1, ![2] = v2]
<1> SUFFICES ASSUME NEW i \in DOMAIN AuthPolicy
             PROVE  Held(AuthPolicy[i], msg[AuthPolicy[i].tag])
  BY Zenon DEF AllHeld
<1> DEFINE f == AuthPolicy[i]
           E == Empty(AuthPolicy)
<1>1. f \in AuthSet
  BY PartsDescribed, KindsOfFields, Described
<1>2. f.tag \in Tags(AuthPolicy)
  BY Zenon DEF Tags
<1>3. f.tag \in DOMAIN E /\ E[f.tag] = <<>>
  BY <1>2, EmptyIs, Zenon
<1> DEFINE g == f.tag
<1>4. /\ msg = [E EXCEPT ![1] = v1, ![2] = v2]
      /\ g \in DOMAIN E /\ E[g] = <<>>
  BY <1>3, Zenon
<1> HIDE DEF msg, E, g
<1>5. g \in Nat
  BY <1>1, KindsOfFields, Zenon DEF g
<1>6. ASSUME g = 1 PROVE Held(f, msg[g])
  <2>1. msg[g] = v1
    BY <1>4, <1>6
  <2>2. f.type \in {"string", "bytes"}
    BY <1>1, <1>6, KindsOfFields DEF g
  <2> QED BY <1>5, <2>1, <2>2, HeldSimply, Zenon DEF g
<1>7. ASSUME g = 2 PROVE Held(f, msg[g])
  <2>1. msg[g] = v2
    BY <1>4, <1>7
  <2>2. f.type \in {"string", "bytes"}
    BY <1>1, <1>7, KindsOfFields DEF g
  <2> QED BY <1>5, <2>1, <2>2, HeldSimply, Zenon DEF g
<1>8. ASSUME g \notin {1, 2} PROVE Held(f, msg[g])
  <2>1. msg[g] = <<>>
    BY <1>4, <1>5, <1>8
  <2> QED BY <1>5, <2>1, HeldSimply, Zenon DEF g
<1> QED BY <1>6, <1>7, <1>8, Zenon DEF g, msg

LEMMA ObjValHeld ==
    ASSUME NEW v1 \in Seq(Texts)
    PROVE  LET msg == [Empty(ObjVal) EXCEPT ![6] = v1]
           IN  AllHeld(ObjVal, msg)
<1> DEFINE msg == [Empty(ObjVal) EXCEPT ![6] = v1]
<1> SUFFICES ASSUME NEW i \in DOMAIN ObjVal
             PROVE  Held(ObjVal[i], msg[ObjVal[i].tag])
  BY Zenon DEF AllHeld
<1> DEFINE f == ObjVal[i]
           E == Empty(ObjVal)
<1>1. f \in ObjValSet
  BY PartsDescribed, KindsOfFields, Described
<1>2. f.tag \in Tags(ObjVal)
  BY Zenon DEF Tags
<1>3. f.tag \in DOMAIN E /\ E[f.tag] = <<>>
  BY <1>2, EmptyIs, Zenon
<1> DEFINE g == f.tag
<1>4. /\ msg = [E EXCEPT ![6] = v1]
      /\ g \in DOMAIN E /\ E[g] = <<>>
  BY <1>3, Zenon
<1> HIDE DEF msg, E, g
<1>5. g \in Nat
  BY <1>1, KindsOfFields, Zenon DEF g
<1>6. ASSUME g = 6 PROVE Held(f, msg[g])
  <2>1. msg[g] = v1
    BY <1>4, <1>6
  <2>2. f.type \in {"string", "bytes"}
    BY <1>1, <1>6, KindsOfFields DEF g
  <2> QED BY <1>5, <2>1, <2>2, HeldSimply, Zenon DEF g
<1>7. ASSUME g \notin {6} PROVE Held(f, msg[g])
  <2>1. msg[g] = <<>>
    BY <1>4, <1>5, <1>7
  <2> QED BY <1>5, <2>1, HeldSimply, Zenon DEF g
<1> QED BY <1>6, <1>7, Zenon DEF g, msg

LEMMA NamingInfoHeld ==
    ASSUME NEW v1 \in Seq(Texts)
    PROVE  LET msg == [Empty(NamingInfo) EXCEPT ![1] = v1]
           IN  AllHeld(NamingInfo, msg)
<1> DEFINE msg == [Empty(NamingInfo) EXCEPT ![1] = v1]
<1> SUFFICES ASSUME NEW i \in DOMAIN NamingInfo
             PROVE  Held(NamingInfo[i], msg[NamingInfo[i].tag])
  BY Zenon DEF AllHeld
<1> DEFINE f == NamingInfo[i]
           E == Empty(NamingInfo)
<1>1. f \in NamingSet
  BY PartsDescribed, KindsOfFields, Described
<1>2. f.tag \in Tags(NamingInfo)
  BY Zenon DEF Tags
<1>3. f.tag \in DOMAIN E /\ E[f.tag] = <<>>
  BY <1>2, EmptyIs, Zenon
<1> DEFINE g == f.tag
<1>4. /\ msg = [E EXCEPT ![1] = v1]
      /\ g \in DOMAIN E /\ E[g] = <<>>
  BY <1>3, Zenon
<1> HIDE DEF msg, E, g
<1>5. g \in Nat
  BY <1>1, KindsOfFields, Zenon DEF g
<1>6. ASSUME g = 1 PROVE Held(f, msg[g])
  <2>1. msg[g] = v1
    BY <1>4, <1>6
  <2>2. f.type \in {"string", "bytes"}
    BY <1>1, <1>6, KindsOfFields DEF g
  <2> QED BY <1>5, <2>1, <2>2, HeldSimply, Zenon DEF g
<1>7. ASSUME g \notin {1} PROVE Held(f, msg[g])
  <2>1. msg[g] = <<>>
    BY <1>4, <1>5, <1>7
  <2> QED BY <1>5, <2>1, HeldSimply, Zenon DEF g
<1> QED BY <1>6, <1>7, Zenon DEF g, msg

LEMMA ConnectionIdHeld ==
    ASSUME NEW v1 \in Seq(Words), NEW v2 \in Seq(Words), NEW v3 \in Seq(Words)
    PROVE  LET msg == [Empty(ConnectionId) EXCEPT ![1] = v1, ![2] = v2, ![3] = v3]
           IN  AllHeld(ConnectionId, msg)
<1> DEFINE msg == [Empty(ConnectionId) EXCEPT ![1] = v1, ![2] = v2, ![3] = v3]
<1> SUFFICES ASSUME NEW i \in DOMAIN ConnectionId
             PROVE  Held(ConnectionId[i], msg[ConnectionId[i].tag])
  BY Zenon DEF AllHeld
<1> DEFINE f == ConnectionId[i]
           E == Empty(ConnectionId)
<1>1. f \in ConnectionSet
  BY ConnectionDescribed, KindsOfFields, Described
<1>2. f.tag \in Tags(ConnectionId)
  BY Zenon DEF Tags
<1>3. f.tag \in DOMAIN E /\ E[f.tag] = <<>>
  BY <1>2, EmptyIs, Zenon
<1> DEFINE g == f.tag
<1>4. /\ msg = [E EXCEPT ![1] = v1, ![2] = v2, ![3] = v3]
      /\ g \in DOMAIN E /\ E[g] = <<>>
  BY <1>3, Zenon
<1> HIDE DEF msg, E, g
<1>5. g \in Nat
  BY <1>1, KindsOfFields, Zenon DEF g
<1>6. ASSUME g = 1 PROVE Held(f, msg[g])
  <2>1. msg[g] = v1
    BY <1>4, <1>6
  <2>2. f.type \in {"int", "uint32", "uint64", "bool"}
    BY <1>1, <1>6, KindsOfFields DEF g
  <2> QED BY <1>5, <2>1, <2>2, HeldSimply, Zenon DEF g
<1>7. ASSUME g = 2 PROVE Held(f, msg[g])
  <2>1. msg[g] = v2
    BY <1>4, <1>7
  <2>2. f.type \in {"int", "uint32", "uint64", "bool"}
    BY <1>1, <1>7, KindsOfFields DEF g
  <2> QED BY <1>5, <2>1, <2>2, HeldSimply, Zenon DEF g
<1>8. ASSUME g = 3 PROVE Held(f, msg[g])
  <2>1. msg[g] = v3
    BY <1>4, <1>8
  <2>2. f.type \in {"int", "uint32", "uint64", "bool"}
    BY <1>1, <1>8, KindsOfFields DEF g
  <2> QED BY <1>5, <2>1, <2>2, HeldSimply, Zenon DEF g
<1>9. ASSUME g \notin {1, 2, 3} PROVE Held(f, msg[g])
  <2>1. msg[g] = <<>>
    BY <1>4, <1>5, <1>9
  <2> QED BY <1>5, <2>1, HeldSimply, Zenon DEF g
<1> QED BY <1>6, <1>7, <1>8, <1>9, Zenon DEF g, msg

LEMMA QosSpecHeld ==
    ASSUME NEW v1 \in Seq(Words), NEW v2 \in Seq(Texts), NEW v3 \in Seq(Words),
           NEW v4 \in Seq(Words)
    PROVE  LET msg == [Empty(QosSpec) EXCEPT ![2] = v1, ![1] = v2, ![8] = v3, ![9] = v4]
           IN  AllHeld(QosSpec, msg)
<1> DEFINE msg == [Empty(QosSpec) EXCEPT ![2] = v1, ![1] = v2, ![8] = v3, ![9] = v4]
<1> SUFFICES ASSUME NEW i \in DOMAIN QosSpec
             PROVE  Held(QosSpec[i], msg[QosSpec[i].tag])
  BY Zenon DEF AllHeld
<1> DEFINE f == QosSpec[i]
           E == Empty(QosSpec)
<1>1. f \in QosSet
  BY QosDescribed, KindsOfFields, Described
<1>2. f.tag \in Tags(QosSpec)
  BY Zenon DEF Tags
<1>3. f.tag \in DOMAIN E /\ E[f.tag] = <<>>
  BY <1>2, EmptyIs, Zenon
<1> DEFINE g == f.tag
<1>4. /\ msg = [E EXCEPT ![2] = v1, ![1] = v2, ![8] = v3, ![9] = v4]
      /\ g \in DOMAIN E /\ E[g] = <<>>
  BY <1>3, Zenon
<1> HIDE DEF msg, E, g
<1>5. g \in Nat
  BY <1>1, KindsOfFields, Zenon DEF g
<1>6. ASSUME g = 2 PROVE Held(f, msg[g])
  <2>1. msg[g] = v1
    BY <1>4, <1>6
  <2>2. f.type \in {"int", "uint32", "uint64", "bool"}
    BY <1>1, <1>6, KindsOfFields DEF g
  <2> QED BY <1>5, <2>1, <2>2, HeldSimply, Zenon DEF g
<1>7. ASSUME g = 1 PROVE Held(f, msg[g])
  <2>1. msg[g] = v2
    BY <1>4, <1>7
  <2>2. f.type \in {"string", "bytes"}
    BY <1>1, <1>7, KindsOfFields DEF g
  <2> QED BY <1>5, <2>1, <2>2, HeldSimply, Zenon DEF g
<1>8. ASSUME g = 8 PROVE Held(f, msg[g])
  <2>1. msg[g] = v3
    BY <1>4, <1>8
  <2>2. f.type \in {"int", "uint32", "uint64", "bool"}
    BY <1>1, <1>8, KindsOfFields DEF g
  <2> QED BY <1>5, <2>1, <2>2, HeldSimply, Zenon DEF g
<1>9. ASSUME g = 9 PROVE Held(f, msg[g])
  <2>1. msg[g] = v4
    BY <1>4, <1>9
  <2>2. f.type \in {"int", "uint32", "uint64", "bool"}
    BY <1>1, <1>9, KindsOfFields DEF g
  <2> QED BY <1>5, <2>1, <2>2, HeldSimply, Zenon DEF g
<1>10. ASSUME g \notin {2, 1, 8, 9} PROVE Held(f, msg[g])
  <2>1. msg[g] = <<>>
    BY <1>4, <1>5, <1>10
  <2> QED BY <1>5, <2>1, HeldSimply, Zenon DEF g
<1> QED BY <1>6, <1>7, <1>8, <1>9, <1>10, Zenon DEF g, msg

LEMMA DtpConfigHeld ==
    ASSUME NEW v1 \in Seq(Words), NEW v2 \in Seq(Words)
    PROVE  LET msg == [Empty(DtpConfig) EXCEPT ![7] = v1, ![1] = v2]
           IN  AllHeld(DtpConfig, msg) /\ NothingElse(DtpConfig, msg, {7, 1})
<1> DEFINE msg == [Empty(DtpConfig) EXCEPT ![7] = v1, ![1] = v2]
<1> SUFFICES ASSUME NEW i \in DOMAIN DtpConfig
             PROVE  LET tag == DtpConfig[i].tag
                    IN  /\ Held(DtpConfig[i], msg[tag])
                        /\ tag \notin {7, 1} => msg[tag] = <<>>
  BY Zenon DEF AllHeld, NothingElse
<1> DEFINE f == DtpConfig[i]
           E == Empty(DtpConfig)
<1>1. f \in DtpSet
  BY DtpDescribed, KindsOfFields, Described
<1>2. f.tag \in Tags(DtpConfig)
  BY Zenon DEF Tags
<1>3. f.tag \in DOMAIN E /\ E[f.tag] = <<>>
  BY <1>2, EmptyIs, Zenon
<1> DEFINE g == f.tag
<1>4. /\ msg = [E EXCEPT ![7] = v1, ![1] = v2]
      /\ g \in DOMAIN E /\ E[g] = <<>>
  BY <1>3, Zenon
<1> HIDE DEF msg, E, g
<1>5. g \in Nat
  BY <1>1, KindsOfFields, Zenon DEF g
<1>6. ASSUME g = 7 PROVE Held(f, msg[g])
  <2>1. msg[g] = v1
    BY <1>4, <1>6
  <2>2. f.type \in {"int", "uint32", "uint64", "bool"}
    BY <1>1, <1>6, KindsOfFields DEF g
  <2> QED BY <1>5, <2>1, <2>2, HeldSimply, Zenon DEF g
<1>7. ASSUME g = 1 PROVE Held(f, msg[g])
  <2>1. msg[g] = v2
    BY <1>4, <1>7
  <2>2. f.type \in {"int", "uint32", "uint64", "bool"}
    BY <1>1, <1>7, KindsOfFields DEF g
  <2> QED BY <1>5, <2>1, <2>2, HeldSimply, Zenon DEF g
<1>8. ASSUME g \notin {7, 1} PROVE Held(f, msg[g]) /\ msg[g] = <<>>
  <2>1. msg[g] = <<>>
    BY <1>4, <1>5, <1>8
  <2> QED BY <1>5, <2>1, HeldSimply, Zenon DEF g
<1> QED BY <1>6, <1>7, <1>8, Zenon DEF g, msg

LEMMA EnrollmentInformationHeld ==
    ASSUME NEW v1 \in Seq(Words), NEW v2 \in Seq(Words), NEW v3 \in Seq(Texts)
    PROVE  LET msg == [Empty(EnrollmentInformation) EXCEPT ![3] = v1, ![1] = v2, ![4] = v3]
           IN  AllHeld(EnrollmentInformation, msg)
<1> DEFINE msg == [Empty(EnrollmentInformation) EXCEPT ![3] = v1, ![1] = v2, ![4] = v3]
<1> SUFFICES ASSUME NEW i \in DOMAIN EnrollmentInformation
             PROVE  Held(EnrollmentInformation[i], msg[EnrollmentInformation[i].tag])
  BY Zenon DEF AllHeld
<1> DEFINE f == EnrollmentInformation[i]
           E == Empty(EnrollmentInformation)
<1>1. f \in EnrollmentSet
  BY PartsDescribed, KindsOfFields, Described
<1>2. f.tag \in Tags(EnrollmentInformation)
  BY Zenon DEF Tags
<1>3. f.tag \in DOMAIN E /\ E[f.tag] = <<>>
  BY <1>2, EmptyIs, Zenon
<1> DEFINE g == f.tag
<1>4. /\ msg = [E EXCEPT ![3] = v1, ![1] = v2, ![4] = v3]
      /\ g \in DOMAIN E /\ E[g] = <<>>
  BY <1>3, Zenon
<1> HIDE DEF msg, E, g
<1>5. g \in Nat
  BY <1>1, KindsOfFields, Zenon DEF g
<1>6. ASSUME g = 3 PROVE Held(f, msg[g])
  <2>1. msg[g] = v1
    BY <1>4, <1>6
  <2>2. f.type \in {"int", "uint32", "uint64", "bool"}
    BY <1>1, <1>6, KindsOfFields DEF g
  <2> QED BY <1>5, <2>1, <2>2, HeldSimply, Zenon DEF g
<1>7. ASSUME g = 1 PROVE Held(f, msg[g])
  <2>1. msg[g] = v2
    BY <1>4, <1>7
  <2>2. f.type \in {"int", "uint32", "uint64", "bool"}
    BY <1>1, <1>7, KindsOfFields DEF g
  <2> QED BY <1>5, <2>1, <2>2, HeldSimply, Zenon DEF g
<1>8. ASSUME g = 4 PROVE Held(f, msg[g])
  <2>1. msg[g] = v3
    BY <1>4, <1>8
  <2>2. f.type \in {"string", "bytes"}
    BY <1>1, <1>8, KindsOfFields DEF g
  <2> QED BY <1>5, <2>1, <2>2, HeldSimply, Zenon DEF g
<1>9. ASSUME g \notin {3, 1, 4} PROVE Held(f, msg[g])
  <2>1. msg[g] = <<>>
    BY <1>4, <1>5, <1>9
  <2> QED BY <1>5, <2>1, HeldSimply, Zenon DEF g
<1> QED BY <1>6, <1>7, <1>8, <1>9, Zenon DEF g, msg

CDAPMessageGiven(v1, v2, v3, v4, v5, v6, v7, v8, v9, v10, v11, v12, v13, v14, v15, v16, v17, v18) ==
    /\ v1 \in Seq(Words) /\ v2 \in Seq(Words) /\ v3 \in Seq(Words) /\ v4 \in Seq(Words)
    /\ v5 \in Seq(Words)
    /\ v6 \in Seq(Texts) /\ v7 \in Seq(Texts) /\ v8 \in Seq(Texts) /\ v9 \in Seq(Texts)
    /\ v10 \in Seq(Texts) /\ v11 \in Seq(Texts) /\ v12 \in Seq(Texts) /\ v13 \in Seq(Texts)
    /\ v15 \in Seq(Texts) /\ v16 \in Seq(Texts) /\ v17 \in Seq(Texts)
    /\ \E n \in Nat : DOMAIN v14 = 1 .. n
    /\ \E n \in Nat : DOMAIN v18 = 1 .. n

CDAPMessageMade(v1, v2, v3, v4, v5, v6, v7, v8, v9, v10, v11, v12, v13, v14, v15, v16, v17, v18) ==
    [Empty(CDAPMessage) EXCEPT ![28] = v1, ![2] = v2, ![3] = v3, ![9] = v4, ![7] = v5, ![19] = v6,
                     ![20] = v7, ![21] = v8, ![22] = v9, ![23] = v10, ![24] = v11,
                     ![25] = v12, ![26] = v13, ![18] = v14, ![27] = v15, ![5] = v16,
                     ![6] = v17, ![8] = v18]

LEMMA CDAPMessageHeld ==
    ASSUME NEW v1, NEW v2, NEW v3, NEW v4, NEW v5, NEW v6, NEW v7, NEW v8, NEW v9,
           NEW v10, NEW v11, NEW v12, NEW v13, NEW v14, NEW v15, NEW v16, NEW v17,
           NEW v18,
           CDAPMessageGiven(v1, v2, v3, v4, v5, v6, v7, v8, v9, v10, v11, v12, v13, v14, v15, v16, v17, v18)
    PROVE  LET msg == CDAPMessageMade(v1, v2, v3, v4, v5, v6, v7, v8, v9, v10, v11, v12, v13, v14, v15, v16, v17, v18)
           IN  /\ AllHeld(CDAPMessage, msg)
               /\ HasAt(CDAPMessage, msg, 18, v14)
               /\ HasAt(CDAPMessage, msg, 8, v18)
               /\ NothingElse(CDAPMessage, msg, {28, 2, 3, 9, 7, 19, 20, 21, 22, 23, 24, 25, 26, 18, 27, 5, 6, 8})
<1> DEFINE msg == [Empty(CDAPMessage) EXCEPT ![28] = v1, ![2] = v2, ![3] = v3, ![9] = v4, ![7] = v5,
                            ![19] = v6, ![20] = v7, ![21] = v8, ![22] = v9, ![23] = v10,
                            ![24] = v11, ![25] = v12, ![26] = v13, ![18] = v14,
                            ![27] = v15, ![5] = v16, ![6] = v17, ![8] = v18]
<1> SUFFICES ASSUME NEW i \in DOMAIN CDAPMessage
             PROVE  LET tag == CDAPMessage[i].tag
                    IN  /\ Held(CDAPMessage[i], msg[tag])
                        /\ tag = 18 => msg[tag] = v14
                        /\ tag = 8 => msg[tag] = v18
                        /\ tag \notin {28, 2, 3, 9, 7, 19, 20, 21, 22, 23, 24, 25, 26, 18, 27, 5, 6, 8} => msg[tag] = <<>>
  BY Zenon DEF CDAPMessageMade, AllHeld, HasAt, NothingElse
<1> DEFINE f == CDAPMessage[i]
           E == Empty(CDAPMessage)
<1>1. f \in CdapSet
  BY CdapDescribed, KindsOfFields, Described
<1>2. f.tag \in Tags(CDAPMessage)
  BY Zenon DEF Tags
<1>3. f.tag \in DOMAIN E /\ E[f.tag] = <<>>
  BY <1>2, EmptyIs, Zenon
<1> DEFINE g == f.tag
           a == [E EXCEPT ![28] = v1, ![2] = v2, ![3] = v3, ![9] = v4, ![7] = v5,
                        ![19] = v6]
           b == [a EXCEPT ![20] = v7, ![21] = v8, ![22] = v9, ![23] = v10, ![24] = v11,
                        ![25] = v12]
<1>a. a = [E EXCEPT ![28] = v1, ![2] = v2, ![3] = v3, ![9] = v4, ![7] = v5, ![19] = v6]
  OBVIOUS
<1>b. b = [a EXCEPT ![20] = v7, ![21] = v8, ![22] = v9, ![23] = v10, ![24] = v11,
                    ![25] = v12]
  OBVIOUS
<1>c. msg = [b EXCEPT ![26] = v13, ![18] = v14, ![27] = v15, ![5] = v16, ![6] = v17,
                      ![8] = v18]
  BY Zenon
<1>4. g \in DOMAIN E /\ E[g] = <<>>
  BY <1>3, Zenon
<1> HIDE DEF msg, E, g, a, b
<1>d. g \in DOMAIN a
  BY <1>a, <1>4
<1>e. g \in DOMAIN b
  BY <1>b, <1>d
<1>5. g \in Nat
  BY <1>1, KindsOfFields, Zenon DEF g
<1>f. g \notin {20, 21, 22, 23, 24, 25} => b[g] = a[g]
  BY <1>b, <1>d, <1>5
<1>g. g \notin {26, 18, 27, 5, 6, 8} => msg[g] = b[g]
  BY <1>c, <1>e, <1>5
<1>6. ASSUME g = 28 PROVE Held(f, msg[g])
  <2>1. msg[g] = v1
    <3>1. g \in DOMAIN a /\ a[g] = v1
      BY <1>a, <1>4, <1>6
    <3>2. g \in DOMAIN b /\ b[g] = v1
      BY <3>1, <1>f, <1>e, <1>6
    <3> QED BY <3>2, <1>g, <1>6
  <2>2. f.type \in {"int", "uint32", "uint64", "bool"}
    BY <1>1, <1>6, KindsOfFields DEF g
  <2>5. v1 \in Seq(Words)
    BY Zenon DEF CDAPMessageGiven
  <2> QED BY <1>5, <2>1, <2>2, <2>5, HeldSimply, Zenon DEF g
<1>7. ASSUME g = 2 PROVE Held(f, msg[g])
  <2>1. msg[g] = v2
    <3>1. g \in DOMAIN a /\ a[g] = v2
      BY <1>a, <1>4, <1>7
    <3>2. g \in DOMAIN b /\ b[g] = v2
      BY <3>1, <1>f, <1>e, <1>7
    <3> QED BY <3>2, <1>g, <1>7
  <2>2. f.type \in {"int", "uint32", "uint64", "bool"}
    BY <1>1, <1>7, KindsOfFields DEF g
  <2>5. v2 \in Seq(Words)
    BY Zenon DEF CDAPMessageGiven
  <2> QED BY <1>5, <2>1, <2>2, <2>5, HeldSimply, Zenon DEF g
<1>8. ASSUME g = 3 PROVE Held(f, msg[g])
  <2>1. msg[g] = v3
    <3>1. g \in DOMAIN a /\ a[g] = v3
      BY <1>a, <1>4, <1>8
    <3>2. g \in DOMAIN b /\ b[g] = v3
      BY <3>1, <1>f, <1>e, <1>8
    <3> QED BY <3>2, <1>g, <1>8
  <2>2. f.type \in {"int", "uint32", "uint64", "bool"}
    BY <1>1, <1>8, KindsOfFields DEF g
  <2>5. v3 \in Seq(Words)
    BY Zenon DEF CDAPMessageGiven
  <2> QED BY <1>5, <2>1, <2>2, <2>5, HeldSimply, Zenon DEF g
<1>9. ASSUME g = 9 PROVE Held(f, msg[g])
  <2>1. msg[g] = v4
    <3>1. g \in DOMAIN a /\ a[g] = v4
      BY <1>a, <1>4, <1>9
    <3>2. g \in DOMAIN b /\ b[g] = v4
      BY <3>1, <1>f, <1>e, <1>9
    <3> QED BY <3>2, <1>g, <1>9
  <2>2. f.type \in {"int", "uint32", "uint64", "bool"}
    BY <1>1, <1>9, KindsOfFields DEF g
  <2>5. v4 \in Seq(Words)
    BY Zenon DEF CDAPMessageGiven
  <2> QED BY <1>5, <2>1, <2>2, <2>5, HeldSimply, Zenon DEF g
<1>10. ASSUME g = 7 PROVE Held(f, msg[g])
  <2>1. msg[g] = v5
    <3>1. g \in DOMAIN a /\ a[g] = v5
      BY <1>a, <1>4, <1>10
    <3>2. g \in DOMAIN b /\ b[g] = v5
      BY <3>1, <1>f, <1>e, <1>10
    <3> QED BY <3>2, <1>g, <1>10
  <2>2. f.type \in {"int", "uint32", "uint64", "bool"}
    BY <1>1, <1>10, KindsOfFields DEF g
  <2>5. v5 \in Seq(Words)
    BY Zenon DEF CDAPMessageGiven
  <2> QED BY <1>5, <2>1, <2>2, <2>5, HeldSimply, Zenon DEF g
<1>11. ASSUME g = 19 PROVE Held(f, msg[g])
  <2>1. msg[g] = v6
    <3>1. g \in DOMAIN a /\ a[g] = v6
      BY <1>a, <1>4, <1>11
    <3>2. g \in DOMAIN b /\ b[g] = v6
      BY <3>1, <1>f, <1>e, <1>11
    <3> QED BY <3>2, <1>g, <1>11
  <2>2. f.type \in {"string", "bytes"}
    BY <1>1, <1>11, KindsOfFields DEF g
  <2>5. v6 \in Seq(Texts)
    BY Zenon DEF CDAPMessageGiven
  <2> QED BY <1>5, <2>1, <2>2, <2>5, HeldSimply, Zenon DEF g
<1>12. ASSUME g = 20 PROVE Held(f, msg[g])
  <2>1. msg[g] = v7
    <3>1. g \in DOMAIN b /\ b[g] = v7
      BY <1>d, <1>b, <1>e, <1>12
    <3> QED BY <3>1, <1>g, <1>12
  <2>2. f.type \in {"string", "bytes"}
    BY <1>1, <1>12, KindsOfFields DEF g
  <2>5. v7 \in Seq(Texts)
    BY Zenon DEF CDAPMessageGiven
  <2> QED BY <1>5, <2>1, <2>2, <2>5, HeldSimply, Zenon DEF g
<1>13. ASSUME g = 21 PROVE Held(f, msg[g])
  <2>1. msg[g] = v8
    <3>1. g \in DOMAIN b /\ b[g] = v8
      BY <1>d, <1>b, <1>e, <1>13
    <3> QED BY <3>1, <1>g, <1>13
  <2>2. f.type \in {"string", "bytes"}
    BY <1>1, <1>13, KindsOfFields DEF g
  <2>5. v8 \in Seq(Texts)
    BY Zenon DEF CDAPMessageGiven
  <2> QED BY <1>5, <2>1, <2>2, <2>5, HeldSimply, Zenon DEF g
<1>14. ASSUME g = 22 PROVE Held(f, msg[g])
  <2>1. msg[g] = v9
    <3>1. g \in DOMAIN b /\ b[g] = v9
      BY <1>d, <1>b, <1>e, <1>14
    <3> QED BY <3>1, <1>g, <1>14
  <2>2. f.type \in {"string", "bytes"}
    BY <1>1, <1>14, KindsOfFields DEF g
  <2>5. v9 \in Seq(Texts)
    BY Zenon DEF CDAPMessageGiven
  <2> QED BY <1>5, <2>1, <2>2, <2>5, HeldSimply, Zenon DEF g
<1>15. ASSUME g = 23 PROVE Held(f, msg[g])
  <2>1. msg[g] = v10
    <3>1. g \in DOMAIN b /\ b[g] = v10
      BY <1>d, <1>b, <1>e, <1>15
    <3> QED BY <3>1, <1>g, <1>15
  <2>2. f.type \in {"string", "bytes"}
    BY <1>1, <1>15, KindsOfFields DEF g
  <2>5. v10 \in Seq(Texts)
    BY Zenon DEF CDAPMessageGiven
  <2> QED BY <1>5, <2>1, <2>2, <2>5, HeldSimply, Zenon DEF g
<1>16. ASSUME g = 24 PROVE Held(f, msg[g])
  <2>1. msg[g] = v11
    <3>1. g \in DOMAIN b /\ b[g] = v11
      BY <1>d, <1>b, <1>e, <1>16
    <3> QED BY <3>1, <1>g, <1>16
  <2>2. f.type \in {"string", "bytes"}
    BY <1>1, <1>16, KindsOfFields DEF g
  <2>5. v11 \in Seq(Texts)
    BY Zenon DEF CDAPMessageGiven
  <2> QED BY <1>5, <2>1, <2>2, <2>5, HeldSimply, Zenon DEF g
<1>17. ASSUME g = 25 PROVE Held(f, msg[g])
  <2>1. msg[g] = v12
    <3>1. g \in DOMAIN b /\ b[g] = v12
      BY <1>d, <1>b, <1>e, <1>17
    <3> QED BY <3>1, <1>g, <1>17
  <2>2. f.type \in {"string", "bytes"}
    BY <1>1, <1>17, KindsOfFields DEF g
  <2>5. v12 \in Seq(Texts)
    BY Zenon DEF CDAPMessageGiven
  <2> QED BY <1>5, <2>1, <2>2, <2>5, HeldSimply, Zenon DEF g
<1>18. ASSUME g = 26 PROVE Held(f, msg[g])
  <2>1. msg[g] = v13
    BY <1>c, <1>e, <1>18
  <2>2. f.type \in {"string", "bytes"}
    BY <1>1, <1>18, KindsOfFields DEF g
  <2>5. v13 \in Seq(Texts)
    BY Zenon DEF CDAPMessageGiven
  <2> QED BY <1>5, <2>1, <2>2, <2>5, HeldSimply, Zenon DEF g
<1>19. ASSUME g = 18 PROVE Held(f, msg[g]) /\ msg[g] = v14
  <2>1. msg[g] = v14
    BY <1>c, <1>e, <1>19
  <2>2. f.type = "message"
    BY <1>1, <1>19, KindsOfFields DEF g
  <2>5. \E n \in Nat : DOMAIN v14 = 1 .. n
    BY Zenon DEF CDAPMessageGiven
  <2> QED BY <1>5, <2>1, <2>2, <2>5, HeldSimply, Zenon DEF g
<1>20. ASSUME g = 27 PROVE Held(f, msg[g])
  <2>1. msg[g] = v15
    BY <1>c, <1>e, <1>20
  <2>2. f.type \in {"string", "bytes"}
    BY <1>1, <1>20, KindsOfFields DEF g
  <2>5. v15 \in Seq(Texts)
    BY Zenon DEF CDAPMessageGiven
  <2> QED BY <1>5, <2>1, <2>2, <2>5, HeldSimply, Zenon DEF g
<1>21. ASSUME g = 5 PROVE Held(f, msg[g])
  <2>1. msg[g] = v16
    BY <1>c, <1>e, <1>21
  <2>2. f.type \in {"string", "bytes"}
    BY <1>1, <1>21, KindsOfFields DEF g
  <2>5. v16 \in Seq(Texts)
    BY Zenon DEF CDAPMessageGiven
  <2> QED BY <1>5, <2>1, <2>2, <2>5, HeldSimply, Zenon DEF g
<1>22. ASSUME g = 6 PROVE Held(f, msg[g])
  <2>1. msg[g] = v17
    BY <1>c, <1>e, <1>22
  <2>2. f.type \in {"string", "bytes"}
    BY <1>1, <1>22, KindsOfFields DEF g
  <2>5. v17 \in Seq(Texts)
    BY Zenon DEF CDAPMessageGiven
  <2> QED BY <1>5, <2>1, <2>2, <2>5, HeldSimply, Zenon DEF g
<1>23. ASSUME g = 8 PROVE Held(f, msg[g]) /\ msg[g] = v18
  <2>1. msg[g] = v18
    BY <1>c, <1>e, <1>23
  <2>2. f.type = "message"
    BY <1>1, <1>23, KindsOfFields DEF g
  <2>5. \E n \in Nat : DOMAIN v18 = 1 .. n
    BY Zenon DEF CDAPMessageGiven
  <2> QED BY <1>5, <2>1, <2>2, <2>5, HeldSimply, Zenon DEF g
<1>24. ASSUME g \notin {28, 2, 3, 9, 7, 19, 20, 21, 22, 23, 24, 25, 26, 18, 27, 5, 6, 8} PROVE Held(f, msg[g]) /\ msg[g] = <<>>
  <2>3. g \in DOMAIN a /\ a[g] = <<>>
    BY <1>a, <1>4, <1>5, <1>24
  <2>4. g \in DOMAIN b /\ b[g] = <<>>
    BY <1>b, <1>5, <1>24, <2>3
  <2>1. msg[g] = <<>>
    BY <1>c, <1>5, <1>24, <2>4
  <2> QED BY <1>5, <2>1, HeldSimply, Zenon DEF g
<1> QED BY <1>6, <1>7, <1>8, <1>9, <1>10, <1>11, <1>12, <1>13, <1>14, <1>15, <1>16, <1>17, <1>18, <1>19, <1>20, <1>21, <1>22, <1>23, <1>24, Zenon DEF g, msg

FlowGiven(v1, v2, v3, v4, v5, v6, v7, v8) ==
    /\ v3 \in Seq(Words) /\ v4 \in Seq(Words) /\ v5 \in Seq(Words)
    /\ \E n \in Nat : DOMAIN v1 = 1 .. n
    /\ \E n \in Nat : DOMAIN v2 = 1 .. n
    /\ \E n \in Nat : DOMAIN v6 = 1 .. n
    /\ \E n \in Nat : DOMAIN v7 = 1 .. n
    /\ \E n \in Nat : DOMAIN v8 = 1 .. n

FlowMade(v1, v2, v3, v4, v5, v6, v7, v8) ==
    [Empty(Flow) EXCEPT ![1] = v1, ![2] = v2, ![3] = v3, ![5] = v4, ![17] = v5, ![7] = v6,
                     ![10] = v7, ![12] = v8]

LEMMA FlowHeld ==
    ASSUME NEW v1, NEW v2, NEW v3, NEW v4, NEW v5, NEW v6, NEW v7, NEW v8,
           FlowGiven(v1, v2, v3, v4, v5, v6, v7, v8)
    PROVE  LET msg == FlowMade(v1, v2, v3, v4, v5, v6, v7, v8)
           IN  /\ AllHeld(Flow, msg)
               /\ HasAt(Flow, msg, 1, v1)
               /\ HasAt(Flow, msg, 2, v2)
               /\ HasAt(Flow, msg, 7, v6)
               /\ HasAt(Flow, msg, 10, v7)
               /\ HasAt(Flow, msg, 12, v8)
               /\ NothingElse(Flow, msg, {1, 2, 3, 5, 17, 7, 10, 12})
<1> DEFINE msg == [Empty(Flow) EXCEPT ![1] = v1, ![2] = v2, ![3] = v3, ![5] = v4, ![17] = v5,
                            ![7] = v6, ![10] = v7, ![12] = v8]
<1> SUFFICES ASSUME NEW i \in DOMAIN Flow
             PROVE  LET tag == Flow[i].tag
                    IN  /\ Held(Flow[i], msg[tag])
                        /\ tag = 1 => msg[tag] = v1
                        /\ tag = 2 => msg[tag] = v2
                        /\ tag = 7 => msg[tag] = v6
                        /\ tag = 10 => msg[tag] = v7
                        /\ tag = 12 => msg[tag] = v8
                        /\ tag \notin {1, 2, 3, 5, 17, 7, 10, 12} => msg[tag] = <<>>
  BY Zenon DEF FlowMade, AllHeld, HasAt, NothingElse
<1> DEFINE f == Flow[i]
           E == Empty(Flow)
<1>1. f \in FlowSet
  BY FlowDescribed, KindsOfFields, Described
<1>2. f.tag \in Tags(Flow)
  BY Zenon DEF Tags
<1>3. f.tag \in DOMAIN E /\ E[f.tag] = <<>>
  BY <1>2, EmptyIs, Zenon
<1> DEFINE g == f.tag
           a == [E EXCEPT ![1] = v1, ![2] = v2, ![3] = v3, ![5] = v4, ![17] = v5,
                        ![7] = v6]
<1>4. /\ a = [E EXCEPT ![1] = v1, ![2] = v2, ![3] = v3, ![5] = v4, ![17] = v5, ![7] = v6]
      /\ msg = [a EXCEPT ![10] = v7, ![12] = v8]
      /\ g \in DOMAIN E /\ E[g] = <<>>
  BY <1>3, Zenon
<1> HIDE DEF msg, E, g, a
<1>5. g \in Nat
  BY <1>1, KindsOfFields, Zenon DEF g
<1>6. ASSUME g = 1 PROVE Held(f, msg[g]) /\ msg[g] = v1
  <2>1. msg[g] = v1
    <3>1. g \in DOMAIN a /\ a[g] = v1
      BY <1>4, <1>6
    <3> QED BY <3>1, <1>4, <1>6
  <2>2. f.type = "message"
    BY <1>1, <1>6, KindsOfFields DEF g
  <2>5. \E n \in Nat : DOMAIN v1 = 1 .. n
    BY Zenon DEF FlowGiven
  <2> QED BY <1>5, <2>1, <2>2, <2>5, HeldSimply, Zenon DEF g
<1>7. ASSUME g = 2 PROVE Held(f, msg[g]) /\ msg[g] = v2
  <2>1. msg[g] = v2
    <3>1. g \in DOMAIN a /\ a[g] = v2
      BY <1>4, <1>7
    <3> QED BY <3>1, <1>4, <1>7
  <2>2. f.type = "message"
    BY <1>1, <1>7, KindsOfFields DEF g
  <2>5. \E n \in Nat : DOMAIN v2 = 1 .. n
    BY Zenon DEF FlowGiven
  <2> QED BY <1>5, <2>1, <2>2, <2>5, HeldSimply, Zenon DEF g
<1>8. ASSUME g = 3 PROVE Held(f, msg[g])
  <2>1. msg[g] = v3
    <3>1. g \in DOMAIN a /\ a[g] = v3
      BY <1>4, <1>8
    <3> QED BY <3>1, <1>4, <1>8
  <2>2. f.type \in {"int", "uint32", "uint64", "bool"}
    BY <1>1, <1>8, KindsOfFields DEF g
  <2>5. v3 \in Seq(Words)
    BY Zenon DEF FlowGiven
  <2> QED BY <1>5, <2>1, <2>2, <2>5, HeldSimply, Zenon DEF g
<1>9. ASSUME g = 5 PROVE Held(f, msg[g])
  <2>1. msg[g] = v4
    <3>1. g \in DOMAIN a /\ a[g] = v4
      BY <1>4, <1>9
    <3> QED BY <3>1, <1>4, <1>9
  <2>2. f.type \in {"int", "uint32", "uint64", "bool"}
    BY <1>1, <1>9, KindsOfFields DEF g
  <2>5. v4 \in Seq(Words)
    BY Zenon DEF FlowGiven
  <2> QED BY <1>5, <2>1, <2>2, <2>5, HeldSimply, Zenon DEF g
<1>10. ASSUME g = 17 PROVE Held(f, msg[g])
  <2>1. msg[g] = v5
    <3>1. g \in DOMAIN a /\ a[g] = v5
      BY <1>4, <1>10
    <3> QED BY <3>1, <1>4, <1>10
  <2>2. f.type \in {"int", "uint32", "uint64", "bool"}
    BY <1>1, <1>10, KindsOfFields DEF g
  <2>5. v5 \in Seq(Words)
    BY Zenon DEF FlowGiven
  <2> QED BY <1>5, <2>1, <2>2, <2>5, HeldSimply, Zenon DEF g
<1>11. ASSUME g = 7 PROVE Held(f, msg[g]) /\ msg[g] = v6
  <2>1. msg[g] = v6
    <3>1. g \in DOMAIN a /\ a[g] = v6
      BY <1>4, <1>11
    <3> QED BY <3>1, <1>4, <1>11
  <2>2. f.type = "message"
    BY <1>1, <1>11, KindsOfFields DEF g
  <2>5. \E n \in Nat : DOMAIN v6 = 1 .. n
    BY Zenon DEF FlowGiven
  <2> QED BY <1>5, <2>1, <2>2, <2>5, HeldSimply, Zenon DEF g
<1>12. ASSUME g = 10 PROVE Held(f, msg[g]) /\ msg[g] = v7
  <2>1. msg[g] = v7
    BY <1>4, <1>12
  <2>2. f.type = "message"
    BY <1>1, <1>12, KindsOfFields DEF g
  <2>5. \E n \in Nat : DOMAIN v7 = 1 .. n
    BY Zenon DEF FlowGiven
  <2> QED BY <1>5, <2>1, <2>2, <2>5, HeldSimply, Zenon DEF g
<1>13. ASSUME g = 12 PROVE Held(f, msg[g]) /\ msg[g] = v8
  <2>1. msg[g] = v8
    BY <1>4, <1>13
  <2>2. f.type = "message"
    BY <1>1, <1>13, KindsOfFields DEF g
  <2>5. \E n \in Nat : DOMAIN v8 = 1 .. n
    BY Zenon DEF FlowGiven
  <2> QED BY <1>5, <2>1, <2>2, <2>5, HeldSimply, Zenon DEF g
<1>14. ASSUME g \notin {1, 2, 3, 5, 17, 7, 10, 12} PROVE Held(f, msg[g]) /\ msg[g] = <<>>
  <2>3. g \in DOMAIN a /\ a[g] = <<>>
    BY <1>4, <1>5, <1>14
  <2>1. msg[g] = <<>>
    BY <1>4, <1>5, <1>14, <2>3
  <2> QED BY <1>5, <2>1, HeldSimply, Zenon DEF g
<1> QED BY <1>6, <1>7, <1>8, <1>9, <1>10, <1>11, <1>12, <1>13, <1>14, Zenon DEF g, msg
-----------------------------------------------------------------------------
(* What the encoder makes of the structures of the code. *)
LEMMA FlatPart ==
    ASSUME NEW fields, Proper(fields), NEW msg,
           \A i \in DOMAIN fields : fields[i].type \notin {"message", "neighbors"},
           AllHeld(fields, msg),
           Encode4(fields, msg).ok
    PROVE  Encode4(fields, msg).val \in Seq(Inner)
<1>1. Encode4(fields, msg).val \in Seq(Sent(Leaf))
  BY PartWritten, Zenon DEF AllHeld
<1> QED BY <1>1, SentAre, Zenon DEF Inner

LEMMA OneOfThem ==
    /\ \A S : \A t \in S : <<t>> \in Seq(S) /\ <<>> \in Seq(S)
    /\ \A v : DOMAIN <<v>> = 1 .. 1 /\ <<v>>[1] = v
<1>1. \A S : \A t \in S : <<t>> \in Seq(S) /\ <<>> \in Seq(S)
  OBVIOUS
<1>2. \A v : DOMAIN <<v>> = 1 .. 1 /\ <<v>>[1] = v
  OBVIOUS
<1> QED BY <1>1, <1>2

LEMMA AuthWritten ==
    ASSUME NEW a \in Texts, NEW b \in Texts,
           Encode4(AuthPolicy, [Empty(AuthPolicy) EXCEPT ![1] = <<a>>, ![2] = <<b>>]).ok
    PROVE  Encode4(AuthPolicy, [Empty(AuthPolicy) EXCEPT ![1] = <<a>>, ![2] = <<b>>]).val \in Seq(Inner)
<1> DEFINE msg == [Empty(AuthPolicy) EXCEPT ![1] = <<a>>, ![2] = <<b>>]
<1>1. <<a>> \in Seq(Texts) /\ <<b>> \in Seq(Texts)
  BY OneOfThem, Zenon
<1>2. AllHeld(AuthPolicy, msg)
  BY <1>1, AuthPolicyHeld, Zenon
<1>3. \A i \in DOMAIN AuthPolicy : AuthPolicy[i].type \notin {"message", "neighbors"}
  <2>1. \A i \in DOMAIN AuthPolicy : AuthPolicy[i] \in AuthSet
    BY PartsDescribed, KindsOfFields, Described
  <2> QED BY <2>1, KindsOfFields, Zenon
<1> HIDE DEF msg
<1> QED BY <1>2, <1>3, FlatPart, Descriptors, Zenon DEF msg

LEMMA ObjValWritten ==
    ASSUME NEW a \in Texts, Encode4(ObjVal, [Empty(ObjVal) EXCEPT ![6] = <<a>>]).ok
    PROVE  Encode4(ObjVal, [Empty(ObjVal) EXCEPT ![6] = <<a>>]).val \in Seq(Inner)
<1> DEFINE msg == [Empty(ObjVal) EXCEPT ![6] = <<a>>]
<1>1. <<a>> \in Seq(Texts)
  BY OneOfThem, Zenon
<1>2. AllHeld(ObjVal, msg)
  BY <1>1, ObjValHeld, Zenon
<1>3. \A i \in DOMAIN ObjVal : ObjVal[i].type \notin {"message", "neighbors"}
  <2>1. \A i \in DOMAIN ObjVal : ObjVal[i] \in ObjValSet
    BY PartsDescribed, KindsOfFields, Described
  <2> QED BY <2>1, KindsOfFields, Zenon
<1> HIDE DEF msg
<1> QED BY <1>2, <1>3, FlatPart, Descriptors, Zenon DEF msg

LEMMA NameWritten ==
    ASSUME NEW name \in NameTexts, Encode4(NamingInfo, NameFields(name)).ok
    PROVE  Encode4(NamingInfo, NameFields(name)).val \in Seq(Inner)
<1> DEFINE a == Strncpy(name[1], 20)
<1>1. a \in Texts
  <2>1. name[1] \in Texts /\ 20 \in Nat
    BY DEF NameTexts
  <2> QED BY <2>1, StrncpyTyped, Zenon
<1>2. <<a>> \in Seq(Texts)
  BY <1>1, OneOfThem, Zenon
<1>3. NameFields(name) = [Empty(NamingInfo) EXCEPT ![1] = <<a>>]
  BY DEF NameFields
<1> HIDE DEF a
<1>4. AllHeld(NamingInfo, NameFields(name))
  BY <1>2, <1>3, NamingInfoHeld, Zenon
<1>5. \A i \in DOMAIN NamingInfo : NamingInfo[i].type \notin {"message", "neighbors"}
  <2>1. \A i \in DOMAIN NamingInfo : NamingInfo[i] \in NamingSet
    BY PartsDescribed, KindsOfFields, Described
  <2> QED BY <2>1, KindsOfFields, Zenon
<1> QED BY <1>4, <1>5, FlatPart, Descriptors, Zenon

LEMMA ConnectionWritten ==
    ASSUME NEW a \in Words, NEW b \in Words, NEW c \in Words,
           Encode4(ConnectionId, [Empty(ConnectionId) EXCEPT ![1] = <<a>>, ![2] = <<b>>, ![3] = <<c>>]).ok
    PROVE  Encode4(ConnectionId, [Empty(ConnectionId) EXCEPT ![1] = <<a>>, ![2] = <<b>>, ![3] = <<c>>]).val
             \in Seq(Inner)
<1> DEFINE msg == [Empty(ConnectionId) EXCEPT ![1] = <<a>>, ![2] = <<b>>, ![3] = <<c>>]
<1>1. <<a>> \in Seq(Words) /\ <<b>> \in Seq(Words) /\ <<c>> \in Seq(Words)
  BY OneOfThem, Zenon
<1>2. AllHeld(ConnectionId, msg)
  BY <1>1, ConnectionIdHeld, Zenon
<1>3. Proper(ConnectionId) /\ \A i \in DOMAIN ConnectionId : ConnectionId[i] \in ConnectionSet
  BY ConnectionDescribed, KindsOfFields, Described
<1>4. \A i \in DOMAIN ConnectionId : ConnectionId[i].type \notin {"message", "neighbors"}
  BY <1>3, KindsOfFields, Zenon
<1> HIDE DEF msg
<1> QED BY <1>2, <1>3, <1>4, FlatPart, Zenon DEF msg

LEMMA QosWritten ==
    ASSUME NEW a \in Words, NEW b \in Texts, NEW c \in Words, NEW d \in Words,
           Encode4(QosSpec, [Empty(QosSpec) EXCEPT ![2] = <<a>>, ![1] = <<b>>, ![8] = <<c>>, ![9] = <<d>>]).ok
    PROVE  Encode4(QosSpec, [Empty(QosSpec) EXCEPT ![2] = <<a>>, ![1] = <<b>>, ![8] = <<c>>, ![9] = <<d>>]).val
             \in Seq(Inner)
<1> DEFINE msg == [Empty(QosSpec) EXCEPT ![2] = <<a>>, ![1] = <<b>>, ![8] = <<c>>, ![9] = <<d>>]
<1>1. <<a>> \in Seq(Words) /\ <<b>> \in Seq(Texts) /\ <<c>> \in Seq(Words) /\ <<d>> \in Seq(Words)
  BY OneOfThem, Zenon
<1>2. AllHeld(QosSpec, msg)
  BY <1>1, QosSpecHeld, Zenon
<1>3. Proper(QosSpec) /\ \A i \in DOMAIN QosSpec : QosSpec[i] \in QosSet
  BY QosDescribed, KindsOfFields, Described
<1>4. \A i \in DOMAIN QosSpec : QosSpec[i].type \notin {"message", "neighbors"}
  BY <1>3, KindsOfFields, Zenon
<1> HIDE DEF msg
<1> QED BY <1>2, <1>3, <1>4, FlatPart, Zenon DEF msg

LEMMA DtpWritten ==
    ASSUME NEW c \in Words, NEW d \in Words
    PROVE  LET msg == [Empty(DtpConfig) EXCEPT ![7] = <<c>>, ![1] = <<d>>]
           IN  Encode4(DtpConfig, msg).ok => Encode4(DtpConfig, msg).val \in Seq(Inner)
<1> DEFINE msg == [Empty(DtpConfig) EXCEPT ![7] = <<c>>, ![1] = <<d>>]
<1>1. <<c>> \in Seq(Words) /\ <<d>> \in Seq(Words)
  BY OneOfThem, Zenon
<1>2. AllHeld(DtpConfig, msg) /\ NothingElse(DtpConfig, msg, {7, 1})
  BY <1>1, DtpConfigHeld, Zenon
<1> HIDE DEF msg
<1>3. Proper(DtpConfig) /\ \A i \in DOMAIN DtpConfig : DtpConfig[i] \in DtpSet
  BY DtpDescribed, KindsOfFields, Described
<1>4. \A f \in DtpSet : f.type \in {"message", "neighbors"} => f.tag \notin {7, 1}
  BY KindsOfFields
<1>5. ASSUME NEW i \in DOMAIN DtpConfig, DtpConfig[i].type \in {"message", "neighbors"},
             NEW j \in DOMAIN msg[DtpConfig[i].tag]
      PROVE  FALSE
  <2>1. DtpConfig[i].tag \notin {7, 1}
    BY <1>3, <1>4, <1>5, Zenon
  <2>2. msg[DtpConfig[i].tag] = <<>>
    BY <1>2, <2>1 DEF NothingElse
  <2>3. j \in DOMAIN <<>>
    BY <1>5, <2>2
  <2> QED BY <2>3
<1>6. Encode4(DtpConfig, msg).ok => Encode4(DtpConfig, msg).val \in Seq(Sent(Leaf))
  BY <1>2, <1>3, <1>5, PartWritten, Zenon DEF AllHeld
<1> QED BY <1>6, SentAre, Zenon DEF msg, Inner
-----------------------------------------------------------------------------
LEMMA CdapTyped ==
    ASSUME NEW m \in Cdaps
    PROVE  /\ m.version \in Words /\ m.opCode \in Words /\ m.invokeID \in Words
           /\ m.result \in Words /\ m.objInst \in Words
           /\ \A i \in 1 .. 4 : m.dest[i] \in Texts /\ m.src[i] \in Texts
           /\ m.auth = <<>> \/ (m.auth[1] \in Texts /\ m.auth[2] \in Texts)
           /\ m.reason \in Pointers /\ m.objClass \in Pointers /\ m.objName \in Pointers
           /\ m.objValue \in Pointers
<1>1. m \in [version : Words, opCode : Words, invokeID : Words, result : Words, objInst : Words,
             dest : NameTexts, src : NameTexts, auth : {<<>>} \cup [1 .. 2 -> Texts],
             reason : Pointers, objClass : Pointers, objName : Pointers, objValue : Pointers]
  BY SerDesAssumption, Zenon
<1>2. m.dest \in NameTexts /\ m.src \in NameTexts
  BY <1>1
<1>3. \A i \in 1 .. 4 : m.dest[i] \in Texts /\ m.src[i] \in Texts
  BY <1>2 DEF NameTexts
<1>4. m.auth \in {<<>>} \cup [1 .. 2 -> Texts]
  BY <1>1
<1>5. m.auth = <<>> \/ (m.auth[1] \in Texts /\ m.auth[2] \in Texts)
  BY <1>4
<1>6. /\ m.version \in Words /\ m.opCode \in Words /\ m.invokeID \in Words
      /\ m.result \in Words /\ m.objInst \in Words
      /\ m.reason \in Pointers /\ m.objClass \in Pointers /\ m.objName \in Pointers
      /\ m.objValue \in Pointers
  BY <1>1
<1> QED BY <1>3, <1>5, <1>6

LEMMA Pointed ==
    ASSUME NEW p \in Pointers
    PROVE  \E n \in Nat : DOMAIN p = 1 .. n /\ \A i \in 1 .. n : p[i] \in Texts
<1>1. CASE p = <<>>
  <2>1. DOMAIN p = 1 .. 0
    BY <1>1
  <2> QED BY <2>1
<1>2. CASE p \in [1 .. 1 -> Texts]
  BY <1>2
<1> QED BY <1>1, <1>2 DEF Pointers

LEMMA CdapWritten ==
    ASSUME NEW m \in Cdaps, pb_encode(CDAPMessage, CdapFields(m)).ok
    PROVE  pb_encode(CDAPMessage, CdapFields(m)).val \in Seq(Sent(Inner))
<1> DEFINE auth == [Empty(AuthPolicy) EXCEPT ![1] = <<m.auth[1]>>, ![2] = <<Strncpy(m.auth[2], 40)>>]
           value(t) == [Empty(ObjVal) EXCEPT ![6] = <<t>>]
           n(x) == IF x = -1 THEN <<>> ELSE <<x>>
           T(x) == <<Strncpy(x, 20)>>
           v1 == <<m.version>>
           v2 == <<m.opCode>>
           v3 == <<m.invokeID>>
           v4 == n(m.result)
           v5 == n(m.objInst)
           v6 == T(m.dest[4])
           v7 == T(m.dest[3])
           v8 == T(m.dest[2])
           v9 == T(m.dest[1])
           v10 == T(m.src[4])
           v11 == T(m.src[3])
           v12 == T(m.src[2])
           v13 == T(m.src[1])
           v14 == IF m.auth = <<>> THEN <<>> ELSE <<auth>>
           v15 == Copied(m.reason, 20)
           v16 == Copied(m.objClass, 40)
           v17 == Copied(m.objName, 40)
           v18 == [i \in DOMAIN m.objValue |-> value(m.objValue[i])]
           msg == CDAPMessageMade(v1, v2, v3, v4, v5, v6, v7, v8, v9, v10, v11, v12, v13, v14,
                                  v15, v16, v17, v18)
<1>1. CdapFields(m) = msg
  BY Zenon DEF CdapFields, CDAPMessageMade
<1>2. v1 \in Seq(Words) /\ v2 \in Seq(Words) /\ v3 \in Seq(Words)
  BY CdapTyped, OneOfThem, Zenon
<1>3. v4 \in Seq(Words) /\ v5 \in Seq(Words)
  <2>1. \A x \in Words : n(x) \in Seq(Words)
    BY OneOfThem, Zenon
  <2> HIDE DEF n
  <2> QED BY <2>1, CdapTyped, Zenon
<1>4. /\ v6 \in Seq(Texts) /\ v7 \in Seq(Texts) /\ v8 \in Seq(Texts) /\ v9 \in Seq(Texts)
      /\ v10 \in Seq(Texts) /\ v11 \in Seq(Texts) /\ v12 \in Seq(Texts) /\ v13 \in Seq(Texts)
  <2>1. 20 \in Nat
    OBVIOUS
  <2>2. \A x \in Texts : T(x) \in Seq(Texts)
    BY <2>1, OneOfThem, StrncpyTyped, Zenon
  <2> HIDE DEF T
  <2>3. \A i \in 1 .. 4 : T(m.dest[i]) \in Seq(Texts) /\ T(m.src[i]) \in Seq(Texts)
    BY <2>2, CdapTyped, Zenon
  <2>4. 1 \in 1 .. 4 /\ 2 \in 1 .. 4 /\ 3 \in 1 .. 4 /\ 4 \in 1 .. 4
    OBVIOUS
  <2> QED BY <2>3, <2>4, Zenon
<1>5. v15 \in Seq(Texts) /\ v16 \in Seq(Texts) /\ v17 \in Seq(Texts)
  <2>1. 20 \in Nat /\ 40 \in Nat
    OBVIOUS
  <2> QED BY <2>1, CdapTyped, CopiedTyped, Zenon
<1>6. /\ \E k \in Nat : DOMAIN v14 = 1 .. k
      /\ \A j \in DOMAIN v14 : v14[j] = auth /\ m.auth[1] \in Texts /\ m.auth[2] \in Texts
  <2> HIDE DEF auth
  <2>1. CASE m.auth = <<>>
    <3>1. v14 = <<>>
      BY <2>1
    <3>2. DOMAIN v14 = 1 .. 0 /\ 0 \in Nat
      BY <3>1
    <3>3. \A j \in DOMAIN v14 : FALSE
      BY <3>2
    <3> HIDE DEF v14
    <3> QED BY <3>2, <3>3, Zenon
  <2>2. CASE m.auth # <<>>
    <3>1. v14 = <<auth>>
      BY <2>2
    <3>2. DOMAIN v14 = 1 .. 1 /\ 1 \in Nat /\ v14[1] = auth
      BY <3>1
    <3>3. m.auth[1] \in Texts /\ m.auth[2] \in Texts
      BY <2>2, CdapTyped, Zenon
    <3>4. \A j \in DOMAIN v14 : j = 1
      BY <3>2
    <3> HIDE DEF v14
    <3> QED BY <3>2, <3>3, <3>4, Zenon
  <2> QED BY <2>1, <2>2, Zenon
<1>7. /\ \E k \in Nat : DOMAIN v18 = 1 .. k
      /\ \A j \in DOMAIN v18 : \E t \in Texts : v18[j] = value(t)
  <2> HIDE DEF value
  <2>1. PICK k \in Nat : DOMAIN m.objValue = 1 .. k /\ \A i \in 1 .. k : m.objValue[i] \in Texts
    BY CdapTyped, Pointed, Zenon
  <2> QED BY <2>1, Zenon
<1>8. /\ AllHeld(CDAPMessage, msg) /\ HasAt(CDAPMessage, msg, 18, v14)
      /\ HasAt(CDAPMessage, msg, 8, v18)
  <2>1. (\E k \in Nat : DOMAIN v14 = 1 .. k) /\ (\E k \in Nat : DOMAIN v18 = 1 .. k)
    BY <1>6, <1>7, Zenon
  <2> HIDE DEF v1, v2, v3, v4, v5, v6, v7, v8, v9, v10, v11, v12, v13, v14, v15, v16, v17, v18
  <2>2. CDAPMessageGiven(v1, v2, v3, v4, v5, v6, v7, v8, v9, v10, v11, v12, v13, v14, v15, v16, v17, v18)
    BY <1>2, <1>3, <1>4, <1>5, <2>1, Zenon DEF CDAPMessageGiven
  <2> QED BY <2>2, CDAPMessageHeld, Zenon
<1>9. \A i \in DOMAIN CDAPMessage : CDAPMessage[i] \in CdapSet
  BY CdapDescribed, CdapTags, Described
<1>10. ASSUME Encode4(AuthPolicy, auth).ok, m.auth[1] \in Texts, m.auth[2] \in Texts
       PROVE  Encode4(AuthPolicy, auth).val \in Seq(Inner)
  <2>1. 40 \in Nat
    OBVIOUS
  <2>2. Strncpy(m.auth[2], 40) \in Texts
    BY <1>10, <2>1, StrncpyTyped, Zenon
  <2> QED BY <1>10, <2>2, AuthWritten, Zenon
<1>11. \A t \in Texts : Encode4(ObjVal, value(t)).ok => Encode4(ObjVal, value(t)).val \in Seq(Inner)
  BY ObjValWritten, Zenon
<1>12. Sub(8, ObjVal).sub = ObjVal /\ Sub(18, AuthPolicy).sub = AuthPolicy
  BY DEF Sub, Field
<1> HIDE DEF msg, v14, v18, auth, value
<1>13. ASSUME NEW i \in DOMAIN CDAPMessage, CDAPMessage[i].type \in {"message", "neighbors"},
              NEW j \in DOMAIN msg[CDAPMessage[i].tag]
       PROVE  LET r == Encode4(CDAPMessage[i].sub, msg[CDAPMessage[i].tag][j])
              IN  r.ok => r.val \in Seq(Inner)
  <2>1. CDAPMessage[i].type = "message"
    BY <1>9, <1>13, KindsOfFields
  <2>2. CDAPMessage[i].tag \in {8, 18}
    BY <1>9, <2>1, CdapTags, Zenon
  <2>3. CASE CDAPMessage[i].tag = 18
    <3>1. CDAPMessage[i].sub = AuthPolicy
      BY <1>9, <1>12, <2>3, CdapTags, Zenon
    <3>2. msg[CDAPMessage[i].tag] = v14
      BY <1>8, <2>3, Zenon DEF HasAt
    <3>3. j \in DOMAIN v14
      BY <3>2
    <3>4. v14[j] = auth /\ m.auth[1] \in Texts /\ m.auth[2] \in Texts
      BY <1>6, <3>3, Zenon
    <3> QED BY <1>10, <3>1, <3>2, <3>4, Zenon
  <2>4. CASE CDAPMessage[i].tag = 8
    <3>1. CDAPMessage[i].sub = ObjVal
      BY <1>9, <1>12, <2>4, CdapTags, Zenon
    <3>2. msg[CDAPMessage[i].tag] = v18
      BY <1>8, <2>4, Zenon DEF HasAt
    <3>3. j \in DOMAIN v18
      BY <3>2
    <3>4. \E t \in Texts : v18[j] = value(t)
      BY <1>7, <3>3, Zenon
    <3> QED BY <1>11, <3>1, <3>2, <3>4, Zenon
  <2> QED BY <2>2, <2>3, <2>4
<1>14. Proper(CDAPMessage) /\ pb_encode(CDAPMessage, msg).ok
  BY <1>1, Descriptors, Zenon
<1>15. \A i \in DOMAIN CDAPMessage : Held(CDAPMessage[i], msg[CDAPMessage[i].tag])
  BY <1>8, Zenon DEF AllHeld
<1>16. pb_encode(CDAPMessage, msg).val \in Seq(Sent(Inner))
  BY <1>13, <1>14, <1>15, MessageWritten, Zenon
<1> QED BY <1>1, <1>16, Zenon

LEMMA BoolTyped == \A b : Bool(b) \in Words
BY DEF Bool, Words

LEMMA EnrollmentWritten ==
    ASSUME NEW m \in Enrollments, pb_encode(EnrollmentInformation, EnrollmentFields(m)).ok
    PROVE  pb_encode(EnrollmentInformation, EnrollmentFields(m)).val \in Seq(Sent(Inner))
<1> DEFINE v1 == <<Bool(m.startEarly)>>
           v2 == IF m.address > 0 THEN <<m.address>> ELSE <<>>
           v3 == Copied(m.token, 20)
           msg == EnrollmentFields(m)
<1>1. m \in [address : Words, startEarly : BOOLEAN, token : Pointers]
  BY SerDesAssumption, Zenon
<1>2. m.address \in Words /\ m.token \in Pointers
  BY <1>1
<1>3. v1 \in Seq(Words)
  BY BoolTyped, OneOfThem, Zenon
<1>4. v2 \in Seq(Words)
  BY <1>2, OneOfThem, Zenon
<1>5. v3 \in Seq(Texts)
  <2>1. 20 \in Nat
    OBVIOUS
  <2> QED BY <1>2, <2>1, CopiedTyped, Zenon
<1>6. msg = [Empty(EnrollmentInformation) EXCEPT ![3] = v1, ![1] = v2, ![4] = v3]
  BY Zenon DEF EnrollmentFields
<1> HIDE DEF v1, v2, v3, msg
<1>7. AllHeld(EnrollmentInformation, msg)
  BY <1>3, <1>4, <1>5, <1>6, EnrollmentInformationHeld, Zenon
<1>8. \A i \in DOMAIN EnrollmentInformation :
         EnrollmentInformation[i].type \notin {"message", "neighbors"}
  <2>1. \A i \in DOMAIN EnrollmentInformation : EnrollmentInformation[i] \in EnrollmentSet
    BY PartsDescribed, KindsOfFields, Described
  <2> QED BY <2>1, KindsOfFields, Zenon
<1>9. Proper(EnrollmentInformation) /\ pb_encode(EnrollmentInformation, msg).ok
  BY Descriptors, Zenon DEF msg
<1>10. pb_encode(EnrollmentInformation, msg).val \in Seq(Sent(Inner))
  BY <1>7, <1>8, <1>9, MessageWritten, Zenon DEF AllHeld
<1> QED BY <1>10 DEF msg

LEMMA FlowTyped ==
    ASSUME NEW m \in Flows
    PROVE  /\ m.src \in NameTexts /\ m.dest \in NameTexts
           /\ m.srcPort \in Words /\ m.srcAddress \in Words /\ m.hopCount \in Words
           /\ m.cep.qos \in Words /\ m.cep.src \in Words /\ m.cep.dest \in Words
           /\ m.qosId \in Words /\ m.qosName \in Texts
           /\ m.aTimer \in Words
<1>1. m \in [src : NameTexts, dest : NameTexts, srcPort : Words, srcAddress : Words,
             hopCount : Words, cep : [qos : Words, src : Words, dest : Words],
             qosId : Words, qosName : Texts, partial : BOOLEAN, order : BOOLEAN,
             aTimer : Words, dtcpPresent : BOOLEAN]
  BY SerDesAssumption, Zenon
<1>2. m.cep \in [qos : Words, src : Words, dest : Words]
  BY <1>1
<1>3. m.cep.qos \in Words /\ m.cep.src \in Words /\ m.cep.dest \in Words
  BY <1>2
<1>4. /\ m.src \in NameTexts /\ m.dest \in NameTexts
      /\ m.srcPort \in Words /\ m.srcAddress \in Words /\ m.hopCount \in Words
      /\ m.qosId \in Words /\ m.qosName \in Texts
      /\ m.aTimer \in Words
  BY <1>1
<1> QED BY <1>3, <1>4

(* The part of a field that holds one message. *)
Made(fields, v) == Encode4(fields, v).ok => Encode4(fields, v).val \in Seq(Inner)

LEMMA OnePart ==
    ASSUME NEW fields, NEW v, Made(fields, v), NEW j \in DOMAIN <<v>>
    PROVE  Made(fields, <<v>>[j])
<1>1. j = 1
  OBVIOUS
<1>2. <<v>>[j] = v
  BY <1>1
<1> QED BY <1>2

LEMMA FlowWritten ==
    ASSUME NEW m \in Flows, pb_encode(Flow, FlowFields(m)).ok
    PROVE  pb_encode(Flow, FlowFields(m)).val \in Seq(Sent(Inner))
<1> DEFINE src == NameFields(m.src)
           dest == NameFields(m.dest)
           cep == [Empty(ConnectionId) EXCEPT ![1] = <<m.cep.qos>>, ![2] = <<m.cep.src>>,
                                              ![3] = <<m.cep.dest>>]
           qos == [Empty(QosSpec) EXCEPT ![2] = <<m.qosId>>, ![1] = <<m.qosName>>,
                                         ![8] = <<Bool(m.partial)>>, ![9] = <<Bool(m.order)>>]
           dtp == [Empty(DtpConfig) EXCEPT ![7] = <<m.aTimer>>, ![1] = <<Bool(m.dtcpPresent)>>]
           v1 == <<src>>
           v2 == <<dest>>
           v3 == <<m.srcPort>>
           v4 == <<m.srcAddress>>
           v5 == <<m.hopCount>>
           v6 == <<cep>>
           v7 == <<qos>>
           v8 == <<dtp>>
           msg == FlowMade(v1, v2, v3, v4, v5, v6, v7, v8)
<1>1. FlowFields(m) = msg
  BY Zenon DEF FlowFields, FlowMade
<1>2. v3 \in Seq(Words) /\ v4 \in Seq(Words) /\ v5 \in Seq(Words)
  BY FlowTyped, OneOfThem, Zenon
<1>3. Made(NamingInfo, src) /\ Made(NamingInfo, dest)
  BY FlowTyped, NameWritten, Zenon DEF Made
<1>4. Made(ConnectionId, cep)
  BY FlowTyped, ConnectionWritten, Zenon DEF Made
<1>5. Made(QosSpec, qos)
  BY FlowTyped, BoolTyped, QosWritten, Zenon DEF Made
<1>6. Made(DtpConfig, dtp)
  BY FlowTyped, BoolTyped, DtpWritten, Zenon DEF Made
<1> HIDE DEF src, dest, cep, qos, dtp
<1>7. FlowGiven(v1, v2, v3, v4, v5, v6, v7, v8)
  <2>1. \A v : \E n \in Nat : DOMAIN <<v>> = 1 .. n
    <3>1. 1 \in Nat
      OBVIOUS
    <3> QED BY <3>1, OneOfThem, Zenon
  <2> QED BY <1>2, <2>1, Zenon DEF FlowGiven
<1>8. /\ AllHeld(Flow, msg)
      /\ HasAt(Flow, msg, 1, v1) /\ HasAt(Flow, msg, 2, v2) /\ HasAt(Flow, msg, 7, v6)
      /\ HasAt(Flow, msg, 10, v7) /\ HasAt(Flow, msg, 12, v8)
      /\ NothingElse(Flow, msg, {1, 2, 3, 5, 17, 7, 10, 12})
  <2> HIDE DEF v1, v2, v3, v4, v5, v6, v7, v8
  <2> QED BY <1>7, FlowHeld, Zenon
<1>9. Proper(Flow) /\ \A i \in DOMAIN Flow : Flow[i] \in FlowSet
  BY FlowDescribed, FlowTags, Described
<1>10. /\ Names(1).sub = NamingInfo /\ Names(2).sub = NamingInfo
       /\ Field(7, "message", "repeated", 0, ConnectionId).sub = ConnectionId
       /\ Sub(10, QosSpec).sub = QosSpec /\ Sub(12, DtpConfig).sub = DtpConfig
  BY DEF Names, Sub, Field
<1> HIDE DEF msg
<1>11. ASSUME NEW i \in DOMAIN Flow, Flow[i].type \in {"message", "neighbors"},
              NEW j \in DOMAIN msg[Flow[i].tag]
       PROVE  Made(Flow[i].sub, msg[Flow[i].tag][j])
  <2>1. Flow[i].type = "message"
    BY <1>9, <1>11, KindsOfFields
  <2>2. Flow[i].tag \in {1, 2, 7, 10, 12, 13}
    BY <1>9, <2>1, FlowTags, Zenon
  <2>3. CASE Flow[i].tag = 1
    <3>1. Flow[i].sub = NamingInfo
      BY <1>9, <1>10, <2>3, FlowTags
    <3>2. msg[Flow[i].tag] = v1
      BY <1>8, <2>3, Zenon DEF HasAt
    <3> QED BY <1>3, <1>11, <3>1, <3>2, OnePart, Zenon
  <2>4. CASE Flow[i].tag = 2
    <3>1. Flow[i].sub = NamingInfo
      BY <1>9, <1>10, <2>4, FlowTags
    <3>2. msg[Flow[i].tag] = v2
      BY <1>8, <2>4, Zenon DEF HasAt
    <3> QED BY <1>3, <1>11, <3>1, <3>2, OnePart, Zenon
  <2>5. CASE Flow[i].tag = 7
    <3>1. Flow[i].sub = ConnectionId
      BY <1>9, <1>10, <2>5, FlowTags, Zenon
    <3>2. msg[Flow[i].tag] = v6
      BY <1>8, <2>5, Zenon DEF HasAt
    <3> QED BY <1>4, <1>11, <3>1, <3>2, OnePart, Zenon
  <2>6. CASE Flow[i].tag = 10
    <3>1. Flow[i].sub = QosSpec
      BY <1>9, <1>10, <2>6, FlowTags, Zenon
    <3>2. msg[Flow[i].tag] = v7
      BY <1>8, <2>6, Zenon DEF HasAt
    <3> QED BY <1>5, <1>11, <3>1, <3>2, OnePart, Zenon
  <2>7. CASE Flow[i].tag = 12
    <3>1. Flow[i].sub = DtpConfig
      BY <1>9, <1>10, <2>7, FlowTags, Zenon
    <3>2. msg[Flow[i].tag] = v8
      BY <1>8, <2>7, Zenon DEF HasAt
    <3> QED BY <1>6, <1>11, <3>1, <3>2, OnePart, Zenon
  <2>8. CASE Flow[i].tag = 13
    <3>1. Flow[i].tag \notin {1, 2, 3, 5, 17, 7, 10, 12}
      BY <2>8
    <3>2. msg[Flow[i].tag] = <<>>
      BY <1>8, <3>1, Zenon DEF NothingElse
    <3>3. j \in DOMAIN <<>>
      BY <1>11, <3>2
    <3> QED BY <3>3
  <2> QED BY <2>2, <2>3, <2>4, <2>5, <2>6, <2>7, <2>8
<1>12. pb_encode(Flow, msg).ok
  BY <1>1, Zenon
<1>13. \A i \in DOMAIN Flow : Held(Flow[i], msg[Flow[i].tag])
  BY <1>8, Zenon DEF AllHeld
<1>14. \A i \in DOMAIN Flow :
          Flow[i].type \in {"message", "neighbors"} =>
            \A j \in DOMAIN msg[Flow[i].tag] :
               LET r == Encode4(Flow[i].sub, msg[Flow[i].tag][j])
               IN  r.ok => r.val \in Seq(Inner)
  BY <1>11, Zenon DEF Made
<1>15. pb_encode(Flow, msg).val \in Seq(Sent(Inner))
  BY <1>9, <1>12, <1>13, <1>14, MessageWritten, Zenon
<1> QED BY <1>1, <1>15, Zenon

(* A list of neighbors: each is made of the one before. *)
NeighborSet == {Str(1, 20), Str(2, 20), Str(3, 20), Str(4, 20), Optional(5, "uint64"),
                Field(6, "difs", "repeated", 0, <<>>)}
Filled == {g \in [Tags(Neighbor) -> Seq(Texts)] : \A tag \in Tags(Neighbor) : tag = 5 => g[tag] = <<>>}

LEMMA NeighborDescribed ==
    /\ Neighbor \in Seq(NeighborSet) /\ Neighbor # <<>>
    /\ \A f \in NeighborSet : /\ f.tag \in 1 .. 6 /\ f.size \in Nat
                              /\ f.type \notin {"message", "neighbors"}
                              /\ f.tag # 5 => f.type \in {"string", "difs"}
                              /\ f.tag = 5 => f.type = "uint64"
<1> DEFINE a == Strs(<<1, 2, 3, 4>>, 20)
           b == <<Optional(5, "uint64"), Field(6, "difs", "repeated", 0, <<>>)>>
<1>1. a \in Seq(NeighborSet) /\ a # <<>>
  <2> DEFINE tags == <<1, 2, 3, 4>>
  <2>1. tags \in Seq(Nat) /\ \A i \in 1 .. Len(tags) : tags[i] \in {1, 2, 3, 4}
    OBVIOUS
  <2>2. \A i \in {1, 2, 3, 4} : Str(i, 20) \in NeighborSet
    BY DEF NeighborSet
  <2>3. Strs(tags, 20) # <<>>
    BY DEF Strs
  <2> HIDE DEF tags
  <2>4. \A i \in 1 .. Len(tags) : Str(tags[i], 20) \in NeighborSet
    BY <2>1, <2>2, Zenon
  <2>5. Strs(tags, 20) \in Seq(NeighborSet)
    BY <2>1, <2>4, StrsAre
  <2> QED BY <2>3, <2>5 DEF tags
<1>2. b \in Seq(NeighborSet)
  BY DEF NeighborSet
<1>3. Neighbor = a \o b
  BY DEF Neighbor
<1>4. \A f \in NeighborSet : /\ f.tag \in 1 .. 6 /\ f.size \in Nat
                             /\ f.type \notin {"message", "neighbors"}
                             /\ f.tag # 5 => f.type \in {"string", "difs"}
                             /\ f.tag = 5 => f.type = "uint64"
  BY DEF NeighborSet, Str, Optional, Field
<1> HIDE DEF a, b
<1> QED BY <1>1, <1>2, <1>3, <1>4, Joined

LEMMA Prepared ==
    ASSUME NEW g \in Filled, NEW n \in [names : [1 .. 4 -> Pointers], difs : Seq(Texts), address : Words]
    PROVE  Prepare(g, n) \in Filled
<1> DEFINE r == Prepare(g, n)
<1>1. DOMAIN g = Tags(Neighbor) /\ \A tag \in Tags(Neighbor) : g[tag] \in Seq(Texts)
  BY DEF Filled
<1>2. r = [tag \in Tags(Neighbor) |->
             CASE tag = 6 -> n.difs
               [] tag = 5 -> <<>>
               [] OTHER -> IF n.names[tag] = <<>> THEN g[tag] ELSE Copied(n.names[tag], 20)]
  BY <1>1, Zenon DEF Prepare
<1>3. \A tag \in Tags(Neighbor) : tag \in 1 .. 6
  <2>1. \A tag \in Tags(Neighbor) : \E f \in NeighborSet : f.tag = tag
    BY NeighborDescribed, Described
  <2>2. \A f \in NeighborSet : f.tag \in 1 .. 6
    BY NeighborDescribed, Zenon
  <2> QED BY <2>1, <2>2
<1>4. n.difs \in Seq(Texts) /\ n.names \in [1 .. 4 -> Pointers]
  OBVIOUS
<1>5. <<>> \in Seq(Texts)
  BY EmptySeq
<1> HIDE DEF r
<1>6. ASSUME NEW tag \in Tags(Neighbor)
      PROVE  r[tag] \in Seq(Texts) /\ (tag = 5 => r[tag] = <<>>)
  <2>1. CASE tag = 6
    BY <1>2, <1>4, <2>1
  <2>2. CASE tag = 5
    BY <1>2, <1>5, <2>2
  <2>3. CASE tag \notin {5, 6}
    <3>1. tag \in 1 .. 4
      BY <1>3, <2>3
    <3>2. n.names[tag] \in Pointers /\ 20 \in Nat
      BY <1>4, <3>1
    <3>3. Copied(n.names[tag], 20) \in Seq(Texts)
      BY <3>2, CopiedTyped, Zenon
    <3>4. r[tag] = IF n.names[tag] = <<>> THEN g[tag] ELSE Copied(n.names[tag], 20)
      BY <1>2, <2>3
    <3> QED BY <1>1, <2>3, <3>3, <3>4
  <2> QED BY <2>1, <2>2, <2>3
<1>7. r \in [Tags(Neighbor) -> Seq(Texts)]
  <2>1. \A tag \in Tags(Neighbor) : r[tag] \in Seq(Texts)
    BY <1>6
  <2>2. DOMAIN r = Tags(Neighbor) /\ r = [tag \in Tags(Neighbor) |-> r[tag]]
    BY <1>2
  <2> QED BY <2>1, <2>2, Zenon
<1>8. r \in Filled
  BY <1>6, <1>7, Zenon DEF Filled
<1> QED BY <1>8 DEF r

LEMMA ListFilled ==
    ASSUME NEW ns \in Seq([names : [1 .. 4 -> Pointers], difs : Seq(Texts), address : Words])
    PROVE  \E run : /\ \A k \in 1 .. Len(ns) : run[k] \in Filled
                    /\ NeighborsFields(ns) = [Empty(Neighbors) EXCEPT ![1] = [i \in DOMAIN ns |-> run[i]]]
<1> DEFINE n == Len(ns)
           first == Empty(Neighbor)
           Runs(g, k) == g = [i \in 0 .. k |-> IF i = 0 THEN first ELSE Prepare(g[i - 1], ns[i])]
           run[i \in 0 .. Len(ns)] == IF i = 0 THEN first ELSE Prepare(run[i - 1], ns[i])
<1>0. n \in Nat
  BY LenProperties
<1>1. \E g : Runs(g, n)
  <2> HIDE DEF n, first
  <2> DEFINE K == {k \in 0 .. n : \E g : Runs(g, k)}
  <2>1. 0 \in K
    <3>1. Runs([i \in 0 .. 0 |-> first], 0)
      OBVIOUS
    <3>2. \E g : Runs(g, 0)
      BY <3>1, Zenon
    <3> HIDE DEF Runs
    <3> QED BY <1>0, <3>2, SMT
  <2>2. ASSUME NEW k \in 1 .. n, k - 1 \in K
        PROVE  k \in K
    <3>1. PICK g : Runs(g, k - 1)
      BY <2>2
    <3> DEFINE h == [i \in 0 .. k |-> IF i = k THEN Prepare(g[k - 1], ns[k]) ELSE g[i]]
    <3>2. ASSUME NEW i \in 0 .. k
          PROVE  h[i] = IF i = 0 THEN first ELSE Prepare(h[i - 1], ns[i])
      <4>1. k # 0 /\ k \in Nat
        BY <1>0
      <4>2. CASE i = k
        <5>1. k - 1 \in 0 .. k /\ k - 1 # k
          BY <4>1
        <5> QED BY <4>1, <4>2, <5>1
      <4>3. CASE i # k
        <5>1. i \in 0 .. k - 1 /\ (i # 0 => i - 1 \in 0 .. k /\ i - 1 # k)
          BY <4>1, <4>3
        <5>2. h[i] = g[i] /\ (i # 0 => h[i - 1] = g[i - 1])
          BY <5>1, <4>3
        <5>3. g[i] = IF i = 0 THEN first ELSE Prepare(g[i - 1], ns[i])
          BY <3>1, <5>1, Zenon
        <5> QED BY <5>2, <5>3
      <4> QED BY <4>2, <4>3
    <3>3. h = [i \in 0 .. k |-> h[i]]
      OBVIOUS
    <3> HIDE DEF h
    <3>4. Runs(h, k)
      BY <3>2, <3>3
    <3> HIDE DEF Runs
    <3> QED BY <3>4
  <2>3. n \in K
    <3> HIDE DEF K
    <3>1. K \in SUBSET (0 .. n) /\ n \in Nat
      BY <1>0 DEF K
    <3>2. K = 0 .. n
      BY <2>1, <2>2, <3>1, Along, Zenon
    <3>3. n \in 0 .. n
      BY <1>0
    <3> QED BY <3>2, <3>3
  <2> QED BY <2>3
<1>2. Runs(run, n)
  <2> HIDE DEF first
  <2> QED BY <1>1
<1>3. NeighborsFields(ns) = [Empty(Neighbors) EXCEPT ![1] = [i \in DOMAIN ns |-> run[i]]]
  BY Zenon DEF NeighborsFields
<1> HIDE DEF run
<1>4. run[0] = first /\ \A k \in 1 .. n : run[k] = Prepare(run[k - 1], ns[k])
  <2> HIDE DEF first, n
  <2>1. 0 \in 0 .. n /\ \A k \in 1 .. n : k \in 0 .. n /\ k # 0
    BY <1>0
  <2> QED BY <1>2, <2>1
<1> HIDE DEF n
<1>5. first \in Filled
  <2>1. first \in [Tags(Neighbor) -> Seq(Texts)]
    <3>1. <<>> \in Seq(Texts)
      BY EmptySeq
    <3>2. first = [tag \in Tags(Neighbor) |-> <<>>]
      BY Zenon DEF Empty, Tags
    <3> QED BY <3>1, <3>2, Zenon
  <2> QED BY <2>1, EmptyIs, Zenon DEF Filled
<1> HIDE DEF first
<1> DEFINE G == {k \in 0 .. n : run[k] \in Filled}
<1>6. 0 \in G
  BY <1>0, <1>4, <1>5
<1>7. ASSUME NEW k \in 1 .. n, k - 1 \in G
      PROVE  k \in G
  <2>1. ns[k] \in [names : [1 .. 4 -> Pointers], difs : Seq(Texts), address : Words]
    BY ElementOfSeq, Zenon DEF n
  <2>2. run[k - 1] \in Filled
    BY <1>7
  <2>3. run[k] \in Filled
    BY <1>4, <2>1, <2>2, Prepared, Zenon
  <2> QED BY <1>0, <2>3
<1>8. G = 0 .. n
  <2>1. G \in SUBSET (0 .. n)
    OBVIOUS
  <2> HIDE DEF G
  <2> QED BY <1>0, <1>6, <1>7, <2>1, Along
<1>9. \A k \in 1 .. n : run[k] \in Filled
  BY <1>0, <1>8
<1> QED BY <1>3, <1>9, Zenon DEF n

LEMMA NeighborWritten ==
    ASSUME NEW g \in Filled, Encode4(Neighbor, g).ok
    PROVE  Encode4(Neighbor, g).val \in Seq(Inner)
<1>1. Proper(Neighbor) /\ \A i \in DOMAIN Neighbor : Neighbor[i] \in NeighborSet
  BY NeighborDescribed, Described
<1>2. \A i \in DOMAIN Neighbor : Neighbor[i].type \notin {"message", "neighbors"}
  BY <1>1, NeighborDescribed, Zenon
<1>3. ASSUME NEW i \in DOMAIN Neighbor PROVE Held(Neighbor[i], g[Neighbor[i].tag])
  <2> DEFINE f == Neighbor[i]
             vs == g[f.tag]
  <2>1. f.tag \in Tags(Neighbor)
    BY Zenon DEF Tags
  <2>2. vs \in Seq(Texts) /\ (f.tag = 5 => vs = <<>>)
    BY <2>1 DEF Filled
  <2>3. f.tag \in Nat /\ (f.tag # 5 => f.type \in {"string", "difs"}) /\ (f.tag = 5 => f.type = "uint64")
    BY <1>1, NeighborDescribed
  <2> HIDE DEF f, vs
  <2>4. CASE f.tag = 5
    BY <2>2, <2>3, <2>4, HeldSimply, Zenon DEF f, vs
  <2>5. CASE f.tag # 5
    <3>1. f.type \in {"string", "difs"}
      BY <2>3, <2>5
    <3>2. Held(f, vs)
      BY <2>2, <2>3, <3>1 DEF Held
    <3> QED BY <3>2 DEF f, vs
  <2> QED BY <2>4, <2>5
<1>4. AllHeld(Neighbor, g)
  BY <1>3, Zenon DEF AllHeld
<1> QED BY <1>1, <1>2, <1>4, FlatPart, Zenon

LEMMA NeighborsWritten ==
    ASSUME NEW ns \in NeighborLists, pb_encode(Neighbors, NeighborsFields(ns)).ok
    PROVE  pb_encode(Neighbors, NeighborsFields(ns)).val \in Seq(Sent(Inner))
<1> DEFINE msg == NeighborsFields(ns)
           N == Field(1, "neighbors", "repeated", 0, Neighbor)
<1>1. ns \in Seq([names : [1 .. 4 -> Pointers], difs : Seq(Texts), address : Words])
  BY SerDesAssumption, Zenon
<1>2. PICK run : /\ \A k \in 1 .. Len(ns) : run[k] \in Filled
                 /\ msg = [Empty(Neighbors) EXCEPT ![1] = [i \in DOMAIN ns |-> run[i]]]
  BY <1>1, ListFilled, Zenon
<1>3. DOMAIN ns = 1 .. Len(ns) /\ Len(ns) \in Nat
  BY <1>1, LenProperties
<1>4. Neighbors = <<N>>
  BY DEF Neighbors
<1>5. N.tag = 1 /\ N.type = "neighbors" /\ N.sub = Neighbor /\ N.size = 0
  BY DEF Field
<1> HIDE DEF N
<1>6. DOMAIN Neighbors = 1 .. 1 /\ Neighbors[1] = N
  BY <1>4, OneOfThem, Zenon
<1>7. Proper(Neighbors)
  <2>1. Neighbors[1].size \in Nat /\ 1 \in Nat \ {0}
    BY <1>5, <1>6
  <2>2. \A i \in DOMAIN Neighbors : i = 1
    BY <1>6
  <2> QED BY <1>6, <2>1, <2>2, Zenon DEF Proper, Sized
<1>8. msg[1] = [i \in 1 .. Len(ns) |-> run[i]]
  <2>1. 1 \in Tags(Neighbors)
    <3>1. 1 \in DOMAIN Neighbors /\ Neighbors[1].tag = 1
      BY <1>5, <1>6
    <3> QED BY <3>1, Zenon DEF Tags
  <2>2. 1 \in DOMAIN Empty(Neighbors)
    BY <2>1, EmptyIs, Zenon
  <2> HIDE DEF msg
  <2> QED BY <1>2, <1>3, <2>2
<1>9. DOMAIN msg[1] = 1 .. Len(ns) /\ \A k \in 1 .. Len(ns) : msg[1][k] \in Filled
  BY <1>2, <1>8
<1> HIDE DEF msg
<1>10. ASSUME NEW i \in DOMAIN Neighbors
       PROVE  /\ Held(Neighbors[i], msg[Neighbors[i].tag])
              /\ \A j \in DOMAIN msg[Neighbors[i].tag] :
                   LET r == Encode4(Neighbors[i].sub, msg[Neighbors[i].tag][j])
                   IN  r.ok => r.val \in Seq(Inner)
  <2>1. Neighbors[i] = N
    BY <1>6
  <2>2. Held(N, msg[1])
    <3>1. \E n \in Nat : DOMAIN msg[1] = 1 .. n
      BY <1>3, <1>9, Zenon
    <3>2. N.tag \in Nat /\ N.type = "neighbors"
      BY <1>5
    <3> QED BY <3>1, <3>2 DEF Held
  <2>3. \A j \in DOMAIN msg[1] : Encode4(Neighbor, msg[1][j]).ok => Encode4(Neighbor, msg[1][j]).val \in Seq(Inner)
    BY <1>9, NeighborWritten, Zenon
  <2> QED BY <1>5, <2>1, <2>2, <2>3, Zenon
<1>11. pb_encode(Neighbors, msg).ok
  BY DEF msg
<1>12. pb_encode(Neighbors, msg).val \in Seq(Sent(Inner))
  BY <1>7, <1>10, <1>11, MessageWritten, Zenon
<1> QED BY <1>12 DEF msg
-----------------------------------------------------------------------------
(* What an encoder writes of a structure that is sent. *)
LEMMA Encoded ==
    ASSUME NEW k, NEW m, <<k, m>> \in Sources, Encode(k, m).ok
    PROVE  Encode(k, m).val \in Seq(Sent(Inner))
<1>1. CASE k = "cdap" /\ m \in Cdaps
  <2>1. Encode(k, m) = pb_encode(CDAPMessage, CdapFields(m))
    BY <1>1 DEF Encode
  <2> QED BY <1>1, <2>1, CdapWritten
<1>2. CASE k = "neighbors" /\ m \in NeighborLists
  <2>1. Encode(k, m) = pb_encode(Neighbors, NeighborsFields(m))
    BY <1>2 DEF Encode
  <2> QED BY <1>2, <2>1, NeighborsWritten
<1>3. CASE k = "enrollment" /\ m \in Enrollments
  <2>1. Encode(k, m) = pb_encode(EnrollmentInformation, EnrollmentFields(m))
    BY <1>3 DEF Encode
  <2> QED BY <1>3, <2>1, EnrollmentWritten
<1>4. CASE k = "flow" /\ m \in Flows
  <2>1. Encode(k, m) = pb_encode(Flow, FlowFields(m))
    BY <1>4 DEF Encode
  <2> QED BY <1>4, <2>1, FlowWritten
<1> QED BY <1>1, <1>2, <1>3, <1>4 DEF Sources

(* The pieces that the network puts together. *)
LEMMA PieceTyped ==
    ASSUME NEW A, NEW w \in Seq(A), NEW i \in 1 .. Len(w) + 1
    PROVE  /\ SubSeq(w, 1, i - 1) \in Seq(A)
           /\ SubSeq(w, i, Len(w)) \in Seq(A)
           /\ SubSeq(w, i + 1, Len(w)) \in Seq(A)
<1> DEFINE n == Len(w)
<1>1. n \in Nat /\ \A j \in 1 .. n : w[j] \in A
  BY LenProperties, ElementOfSeq
<1> HIDE DEF n
<1>2. i \in Int /\ n \in Int /\ i - 1 \in Int /\ i + 1 \in Int /\ 1 \in Int
  BY <1>1 DEF n
<1>3. (\A j \in 1 .. i - 1 : w[j] \in A) /\ (\A j \in i .. n : w[j] \in A)
        /\ (\A j \in i + 1 .. n : w[j] \in A)
  BY <1>1 DEF n
<1>4. SubSeq(w, 1, i - 1) \in Seq(A)
  BY <1>2, <1>3, SubSeqProperties, Zenon
<1>5. SubSeq(w, i, n) \in Seq(A)
  BY <1>2, <1>3, SubSeqProperties, Zenon
<1>6. SubSeq(w, i + 1, n) \in Seq(A)
  BY <1>2, <1>3, SubSeqProperties, Zenon
<1> QED BY <1>4, <1>5, <1>6 DEF n

LEMMA SomeTyped ==
    ASSUME NEW A, NEW w \in Seq(A), NEW i \in DOMAIN w
    PROVE  /\ i \in 1 .. Len(w) /\ i \in 1 .. Len(w) + 1
           /\ w[i] \in A
           /\ \A t \in A : [w EXCEPT ![i] = t] \in Seq(A)
<1> DEFINE n == Len(w)
<1>1. n \in Nat /\ DOMAIN w = 1 .. n /\ w \in [1 .. n -> A]
  BY LenProperties, ElementOfSeq
<1> HIDE DEF n
<1>2. ASSUME NEW t \in A PROVE [w EXCEPT ![i] = t] \in [1 .. n -> A]
  BY <1>1
<1>3. \A t \in A : [w EXCEPT ![i] = t] \in Seq(A)
  BY <1>1, <1>2, SequenceOf
<1>4. i \in 1 .. n /\ i \in 1 .. n + 1 /\ w[i] \in A
  BY <1>1
<1> QED BY <1>3, <1>4 DEF n

(* A part of a token may be another one. *)
LEMMA PartsOfTokens ==
    ASSUME NEW S, NEW t \in Tokens(S)
    PROVE  /\ \A num \in Seq(Nat) : [t EXCEPT !.num = num] \in Tokens(S)
           /\ \A n \in Nat : [t EXCEPT !.text.len = n] \in Tokens(S)
           /\ \A wt \in WireTypes : [t EXCEPT !.wt = wt] \in Tokens(S)
<1>1. ASSUME NEW num \in Seq(Nat) PROVE [t EXCEPT !.num = num] \in Tokens(S)
  BY DEF Tokens
<1>2. ASSUME NEW n \in Nat PROVE [t EXCEPT !.text.len = n] \in Tokens(S)
  <2>1. t.text \in Texts
    BY DEF Tokens
  <2>2. [t.text EXCEPT !.len = n] \in Texts
    BY <2>1 DEF Texts
  <2>3. [t EXCEPT !.text.len = n] = [t EXCEPT !.text = [t.text EXCEPT !.len = n]]
    BY Zenon
  <2> DEFINE x == [t.text EXCEPT !.len = n]
  <2> HIDE DEF x, Texts
  <2>4. [t EXCEPT !.text = x] \in Tokens(S)
    BY <2>2 DEF x, Tokens
  <2> QED BY <2>3, <2>4 DEF x
<1>3. ASSUME NEW wt \in WireTypes PROVE [t EXCEPT !.wt = wt] \in Tokens(S)
  BY DEF Tokens
<1> QED BY <1>1, <1>2, <1>3

(* Whatever the network does to tokens, they are tokens. *)
LEMMA Edited ==
    ASSUME NEW S, NEW w \in Seq(Tokens(S))
    PROVE  /\ Reordered(w) \subseteq Seq(Tokens(S))
           /\ Extended(w) \subseteq Seq(Tokens(S))
           /\ Repeated(w) \subseteq Seq(Tokens(S))
           /\ Shortened(w) \subseteq Seq(Tokens(S))
           /\ Renumbered(w) \subseteq Seq(Tokens(S))
           /\ Resized(w) \subseteq Seq(Tokens(S))
           /\ Retyped(w) \subseteq Seq(Tokens(S))
           /\ Truncated(w) \subseteq Seq(Tokens(S))
<1> DEFINE A == Tokens(S)
<1>1. w \in Seq(A)
  OBVIOUS
<1>2. \A i \in DOMAIN w : /\ i \in 1 .. Len(w) /\ i \in 1 .. Len(w) + 1
                          /\ w[i] \in A
                          /\ \A t \in A : [w EXCEPT ![i] = t] \in Seq(A)
  BY <1>1, SomeTyped
<1>3. \A i \in 1 .. Len(w) + 1 : /\ SubSeq(w, 1, i - 1) \in Seq(A)
                                 /\ SubSeq(w, i, Len(w)) \in Seq(A)
                                 /\ SubSeq(w, i + 1, Len(w)) \in Seq(A)
  BY <1>1, PieceTyped
<1>4. \A t \in A : <<t>> \in Seq(A)
  <2> SUFFICES ASSUME NEW t \in A PROVE <<t>> \in Seq(A)
    OBVIOUS
  <2> HIDE DEF A
  <2> QED OBVIOUS
<1>5. DOMAIN w = 1 .. Len(w) /\ Len(w) \in Nat
  BY <1>1, LenProperties
<1>6. \A t \in A : /\ \A num \in Seq(Nat) : [t EXCEPT !.num = num] \in A
                   /\ \A n \in Nat : [t EXCEPT !.text.len = n] \in A
                   /\ \A wt \in {"cut", "32bit", "64bit"} : [t EXCEPT !.wt = wt] \in A
  <2>1. {"cut", "32bit", "64bit"} \subseteq WireTypes
    BY DEF WireTypes
  <2> QED BY <2>1, PartsOfTokens, Zenon
<1>7. Unknowns \subseteq A
  <2>1. Tokens({}) \subseteq Tokens(S)
    <3>1. Seq({}) \subseteq Seq(S)
      BY Wider
    <3> HIDE DEF A
    <3> QED BY <3>1 DEF Tokens
  <2> QED BY <2>1, SerDesAssumption
<1> HIDE DEF A
<1>8. Reordered(w) \subseteq Seq(A)
  <2> SUFFICES ASSUME NEW i \in Swaps(w)
               PROVE  [w EXCEPT ![i] = w[i + 1], ![i + 1] = w[i]] \in Seq(A)
    BY DEF Reordered
  <2>1. i \in DOMAIN w /\ i + 1 \in DOMAIN w
    BY <1>5 DEF Swaps
  <2>2. w[i] \in A /\ w[i + 1] \in A
    BY <1>2, <2>1
  <2> DEFINE x == [w EXCEPT ![i] = w[i + 1]]
  <2>3. x \in Seq(A) /\ DOMAIN x = DOMAIN w
    BY <1>2, <2>1, <2>2
  <2>4. [w EXCEPT ![i] = w[i + 1], ![i + 1] = w[i]] = [x EXCEPT ![i + 1] = w[i]]
    BY Zenon
  <2> HIDE DEF x
  <2>5. [x EXCEPT ![i + 1] = w[i]] \in Seq(A)
    BY <2>1, <2>2, <2>3, SomeTyped
  <2> QED BY <2>4, <2>5
<1>9. Extended(w) \subseteq Seq(A)
  <2> SUFFICES ASSUME NEW i \in 1 .. (IF w = <<>> THEN 0 ELSE Len(w) + 1), NEW t \in Unknowns
               PROVE  InsertAt(w, i, t) \in Seq(A)
    BY SMT DEF Extended
  <2>1. i \in 1 .. Len(w) + 1
    BY <1>5
  <2>2. SubSeq(w, 1, i - 1) \in Seq(A) /\ SubSeq(w, i, Len(w)) \in Seq(A)
    BY <1>3, <2>1
  <2>3. <<t>> \in Seq(A)
    BY <1>4, <1>7
  <2>4. SubSeq(w, 1, i - 1) \o <<t>> \in Seq(A)
    BY <2>2, <2>3, ConcatProperties, Zenon
  <2>5. SubSeq(w, 1, i - 1) \o <<t>> \o SubSeq(w, i, Len(w)) \in Seq(A)
    BY <2>2, <2>4, ConcatProperties, Zenon
  <2> QED BY <2>5, Zenon DEF InsertAt
<1>10. Repeated(w) \subseteq Seq(A)
  <2> SUFFICES ASSUME NEW i \in DOMAIN w PROVE Append(w, w[i]) \in Seq(A)
    BY Zenon DEF Repeated
  <2> QED BY <1>1, <1>2, AppendProperties, Zenon
<1>11. Shortened(w) \subseteq Seq(A)
  <2> SUFFICES ASSUME NEW i \in DOMAIN w PROVE RemoveAt(w, i) \in Seq(A)
    BY Zenon DEF Shortened
  <2>1. SubSeq(w, 1, i - 1) \in Seq(A) /\ SubSeq(w, i + 1, Len(w)) \in Seq(A)
    BY <1>2, <1>3
  <2> QED BY <2>1, ConcatProperties, Zenon DEF RemoveAt
<1>12. Renumbered(w) \subseteq Seq(A)
  <2> SUFFICES ASSUME NEW i \in DOMAIN w, NEW n \in Numbers PROVE [w EXCEPT ![i].num = n] \in Seq(A)
    BY SMT DEF Renumbered
  <2>1. [w[i] EXCEPT !.num = n] \in A
    BY <1>2, <1>6, SerDesAssumption
  <2>2. [w EXCEPT ![i].num = n] = [w EXCEPT ![i] = [w[i] EXCEPT !.num = n]]
    BY Zenon
  <2> QED BY <1>2, <2>1, <2>2
<1>13. Resized(w) \subseteq Seq(A)
  <2> DEFINE X(i, n) == [w EXCEPT ![i].text.len = n]
             D == {j \in DOMAIN w : w[j].wt = "string" /\ w[j].sub = <<>>}
  <2>0. Resized(w) = {X(i, n) : i \in D, n \in Lengths} /\ D \subseteq DOMAIN w
    <3>1. Resized(w) = {X(i, n) : i \in D, n \in Lengths}
      BY DEF Resized
    <3>2. D \subseteq DOMAIN w
      OBVIOUS
    <3> QED BY <3>1, <3>2
  <2> SUFFICES ASSUME NEW i \in DOMAIN w, NEW n \in Lengths PROVE X(i, n) \in Seq(A)
    <3> HIDE DEF X, D
    <3> QED BY <2>0, SMT
  <2>1. [w[i] EXCEPT !.text.len = n] \in A
    BY <1>2, <1>6, SerDesAssumption
  <2>2. [w EXCEPT ![i].text.len = n] = [w EXCEPT ![i] = [w[i] EXCEPT !.text.len = n]]
    BY Zenon
  <2> QED BY <1>2, <2>1, <2>2
<1>14. Truncated(w) \subseteq Seq(A)
  <2> SUFFICES ASSUME NEW i \in DOMAIN w
               PROVE  Append(SubSeq(w, 1, i - 1), [w[i] EXCEPT !.wt = "cut"]) \in Seq(A)
    BY Zenon DEF Truncated
  <2>1. SubSeq(w, 1, i - 1) \in Seq(A)
    BY <1>2, <1>3
  <2>2. [w[i] EXCEPT !.wt = "cut"] \in A
    BY <1>2, <1>6
  <2> QED BY <2>1, <2>2, AppendProperties, Zenon
<1>15. Retyped(w) \subseteq Seq(A)
  <2>1. ASSUME NEW i \in DOMAIN w, NEW wt \in {"32bit", "64bit"}
        PROVE  [w EXCEPT ![i].wt = wt] \in Seq(A)
    <3>1. [w[i] EXCEPT !.wt = wt] \in A
      BY <1>2, <1>6, <2>1
    <3>2. [w EXCEPT ![i].wt = wt] = [w EXCEPT ![i] = [w[i] EXCEPT !.wt = wt]]
      BY Zenon
    <3> QED BY <1>2, <3>1, <3>2, Zenon
  <2>2. \A n : Holding(w, n) \subseteq DOMAIN w
    BY DEF Holding
  <2>3. \A i \in Holding(w, 4) : [w EXCEPT ![i].wt = "32bit"] \in Seq(A)
    BY <2>1, <2>2
  <2>4. \A i \in Holding(w, 8) : [w EXCEPT ![i].wt = "64bit"] \in Seq(A)
    BY <2>1, <2>2
  <2> QED BY <2>3, <2>4, Zenon DEF Retyped
<1> QED BY <1>8, <1>9, <1>10, <1>11, <1>12, <1>13, <1>14, <1>15 DEF A
-----------------------------------------------------------------------------
(* The inductive invariant: what was made is one of the structures, what     *)
(* travels is made of tokens and, before the network touches it, of those an *)
(* encoder writes; and what was received was decoded from it.                *)
Changes == {"reorder", "extend", "repeat", "lose", "renumber", "resize", "retype", "cut"}
Origin  == source = <<source[1]>> /\ <<kind, source[1]>> \in Sources
Carried == /\ wire \in Seq(Token) /\ edits \in Seq(Changes)
           /\ edits = <<>> => wire \in Seq(Sent(Inner))
Arrived == state = "received" => Decoded.ok /\ received = <<Struct(kind, Decoded.val)>>
Stages  == state \in {"made", "sent", "received", "refused"}
IInv    == Origin /\ Carried /\ Arrived /\ Stages

LEMMA InitIInv == Init => IInv
<1> SUFFICES ASSUME Init PROVE IInv
  OBVIOUS
<1>1. PICK s \in Sources : kind = s[1] /\ source = <<s[2]>>
  BY Zenon DEF Init
<1>2. Origin
  <2>1. s = <<s[1], s[2]>>
    BY DEF Sources
  <2> QED BY <1>1, <2>1 DEF Origin
<1>3. Carried
  <2>1. wire = <<>> /\ edits = <<>>
    BY DEF Init
  <2>2. <<>> \in Seq(Token) /\ <<>> \in Seq(Changes) /\ <<>> \in Seq(Sent(Inner))
    BY EmptySeq
  <2> QED BY <2>1, <2>2 DEF Carried
<1>4. state = "made"
  BY DEF Init
<1>5. Arrived /\ Stages
  BY <1>4 DEF Arrived, Stages
<1> QED BY <1>2, <1>3, <1>5 DEF IInv

(* What the network leaves alone: every invariant but that of the wire. *)
LEMMA EditKeeps ==
    ASSUME IInv, state = "sent", wire' \in Seq(Token), NEW what \in Changes, edits' = Append(edits, what),
           UNCHANGED <<state, kind, source, received>>
    PROVE  IInv'
<1>1. Origin'
  BY DEF IInv, Origin
<1>2. edits' \in Seq(Changes) /\ edits' # <<>>
  <2>1. edits \in Seq(Changes)
    BY DEF IInv, Carried
  <2> QED BY <2>1, AppendProperties, Zenon
<1>3. Carried'
  BY <1>2 DEF Carried
<1>4. state' = "sent"
  OBVIOUS
<1>5. (Arrived /\ Stages)'
  BY <1>4 DEF Arrived, Stages
<1> QED BY <1>1, <1>3, <1>5 DEF IInv

(* Whatever may become of tokens on their way, they are tokens. *)
Changed(w) == Reordered(w) \cup Extended(w) \cup Repeated(w) \cup Shortened(w)
                \cup Renumbered(w) \cup Resized(w) \cup Retyped(w) \cup Truncated(w)

LEMMA NetworkTyped ==
    ASSUME NEW S, NEW w \in Seq(Tokens(S))
    PROVE  Changed(w) \subseteq Seq(Tokens(S))
<1>1. /\ Reordered(w) \subseteq Seq(Tokens(S)) /\ Extended(w) \subseteq Seq(Tokens(S))
      /\ Repeated(w) \subseteq Seq(Tokens(S)) /\ Shortened(w) \subseteq Seq(Tokens(S))
      /\ Renumbered(w) \subseteq Seq(Tokens(S)) /\ Resized(w) \subseteq Seq(Tokens(S))
      /\ Retyped(w) \subseteq Seq(Tokens(S)) /\ Truncated(w) \subseteq Seq(Tokens(S))
  BY Edited
<1> QED BY <1>1, Zenon DEF Changed

(* A message in the message may be changed as well as the message. *)
LEMMA SubTyped ==
    ASSUME wire \in Seq(Token), NEW i \in DOMAIN wire
    PROVE  /\ wire[i].sub \in Seq(Inner)
           /\ \A w \in Seq(Inner) : [wire EXCEPT ![i] = Msg(wire[i].tag, w)] \in Seq(Token)
<1>1. /\ wire[i] \in Token
      /\ \A t \in Token : [wire EXCEPT ![i] = t] \in Seq(Token)
  BY SomeTyped
<1>2. wire[i].tag \in Nat /\ wire[i].sub \in Seq(Inner)
  BY <1>1 DEF Token, Tokens
<1>3. \A w \in Seq(Inner) : Msg(wire[i].tag, w) \in Token
  BY <1>2, TokensTyped, Zenon DEF Token
<1> QED BY <1>1, <1>2, <1>3, Zenon

LEMMA NetworkKeeps ==
    ASSUME IInv, Network
    PROVE  IInv'
<1>1. /\ state = "sent"
      /\ \E what \in Changes : edits' = Append(edits, what)
      /\ UNCHANGED <<state, kind, source, received>>
  BY DEF Network, Reorder, Extend, Repeat, Lose, Renumber, Resize, Retype, Cut, Edit, Changes
<1>2. \/ wire' \in Changed(wire)
      \/ \E i \in DOMAIN wire : \E w \in Changed(wire[i].sub) :
            wire' = [wire EXCEPT ![i] = Msg(wire[i].tag, w)]
  BY Zenon DEF Changed, Network, Reorder, Extend, Repeat, Lose, Renumber, Resize, Retype, Cut, Edit
<1>3. wire \in Seq(Token)
  BY DEF IInv, Carried
<1>4. wire' \in Seq(Token)
  <2>1. CASE wire' \in Changed(wire)
    BY <1>3, <2>1, NetworkTyped, Zenon DEF Token
  <2>2. ASSUME NEW i \in DOMAIN wire, NEW w \in Changed(wire[i].sub),
               wire' = [wire EXCEPT ![i] = Msg(wire[i].tag, w)]
        PROVE  wire' \in Seq(Token)
    <3>1. wire[i].sub \in Seq(Inner)
      BY <1>3, SubTyped
    <3>2. w \in Seq(Inner)
      BY <3>1, NetworkTyped, Zenon DEF Inner
    <3>3. [wire EXCEPT ![i] = Msg(wire[i].tag, w)] \in Seq(Token)
      BY <1>3, <3>2, SubTyped, Zenon
    <3> QED BY <2>2, <3>3, Zenon
  <2> QED BY <1>2, <2>1, <2>2, Zenon
<1> QED BY <1>1, <1>4, EditKeeps, Zenon

LEMMA NextIInv == IInv /\ [Next]_vars => IInv'
<1> SUFFICES ASSUME IInv, [Next]_vars PROVE IInv'
  OBVIOUS
<1>1. CASE EncodeFails \/ DecodeFails
  <2>1. state' = "refused" /\ UNCHANGED <<kind, source, wire, edits, received>>
    BY <1>1 DEF EncodeFails, DecodeFails
  <2>2. Origin' /\ Carried'
    BY <2>1 DEF IInv, Origin, Carried
  <2>3. (Arrived /\ Stages)'
    BY <2>1 DEF Arrived, Stages
  <2> QED BY <2>2, <2>3 DEF IInv
<1>2. CASE EncodeMessage
  <2>1. /\ state' = "sent"
        /\ Encode(kind, source[1]).ok /\ wire' = Encode(kind, source[1]).val
        /\ UNCHANGED <<kind, source, edits, received>>
    BY <1>2, Zenon DEF EncodeMessage, CanEncode
  <2>2. Origin'
    BY <2>1 DEF IInv, Origin
  <2>3. wire' \in Seq(Sent(Inner))
    <3>1. <<kind, source[1]>> \in Sources
      BY DEF IInv, Origin
    <3> QED BY <2>1, <3>1, Encoded
  <2>4. wire' \in Seq(Token)
    BY <2>3, SentAre, Zenon DEF Token
  <2>5. Carried'
    BY <2>1, <2>3, <2>4 DEF IInv, Carried
  <2>6. (Arrived /\ Stages)'
    BY <2>1 DEF Arrived, Stages
  <2> QED BY <2>2, <2>5, <2>6 DEF IInv
<1>3. CASE Network
  BY <1>3, NetworkKeeps
<1>4. CASE Decode
  <2>1. /\ state' = "received"
        /\ Decoded.ok /\ received' = <<Struct(kind, Decoded.val)>>
        /\ UNCHANGED <<kind, source, wire, edits>>
    BY <1>4 DEF Decode
  <2>2. Origin' /\ Carried'
    BY <2>1 DEF IInv, Origin, Carried
  <2>3. Arrived'
    BY <2>1 DEF Arrived, Decoded
  <2>4. Stages'
    BY <2>1 DEF Stages
  <2> QED BY <2>2, <2>3, <2>4 DEF IInv
<1>5. CASE UNCHANGED vars
  <2>1. Origin' /\ Carried'
    BY <1>5 DEF vars, IInv, Origin, Carried
  <2>2. (Arrived /\ Stages)'
    BY <1>5 DEF vars, IInv, Arrived, Stages, Decoded
  <2> QED BY <2>1, <2>2 DEF IInv
<1> QED BY <1>1, <1>2, <1>3, <1>4, <1>5 DEF Next

(* Each message is on one stage of its way, is made of tokens as the decoder *)
(* reads them, and is decoded from what arrived: the invariant the rest       *)
(* follows from.                                                            *)
THEOREM Travelled == Spec => []IInv
<1> QED BY InitIInv, NextIInv, PTL DEF Spec
-----------------------------------------------------------------------------
(* Every text of a token has a length. *)
LEMMA TokensLengthy ==
    \A S : \A w \in Seq(Tokens(S)) : Lengthy(w) /\ \A k \in 1 .. Len(w) : w[k].sub \in Seq(S)
<1> SUFFICES ASSUME NEW S, NEW w \in Seq(Tokens(S))
             PROVE  Lengthy(w) /\ \A k \in 1 .. Len(w) : w[k].sub \in Seq(S)
  OBVIOUS
<1>1. Len(w) \in Nat /\ \A k \in 1 .. Len(w) : w[k] \in Tokens(S)
  BY LenProperties, ElementOfSeq
<1>2. \A t \in Tokens(S) : t.text.len \in Nat /\ t.sub \in Seq(S)
  BY DEF Tokens, Texts
<1> QED BY <1>1, <1>2, Zenon DEF Lengthy

LEMMA FlowHasNames ==
    ASSUME NEW w, Lengthy(w), \A k \in 1 .. Len(w) : Lengthy(w[k].sub), pb_decode(Flow, w).ok
    PROVE  pb_decode(Flow, w).val[1] # <<>> /\ pb_decode(Flow, w).val[2] # <<>>
<1> DEFINE msg == pb_decode(Flow, w).val
<1>1. \A i \in DOMAIN Flow :
         Flow[i].rule = "required" =>
           \E j \in DOMAIN Flow : /\ Flow[j].tag = Flow[i].tag
                                  /\ Flow[j].type \in Callbacks \/ msg[Flow[i].tag] # <<>>
  BY Descriptors, DeepDecoded, Zenon
<1> HIDE DEF msg
<1>2. MessagesUnique(Flow)
  BY Descriptors
<1>3. ASSUME NEW i \in {1, 2} PROVE msg[i] # <<>>
  <2>1. i \in DOMAIN Flow /\ Flow[i] = Names(i)
    BY FlowDescribed
  <2>2. Flow[i].rule = "required" /\ Flow[i].tag = i /\ Flow[i].type = "message"
    BY <2>1 DEF Names, Field
  <2>3. PICK j \in DOMAIN Flow : /\ Flow[j].tag = i
                                 /\ Flow[j].type \in Callbacks \/ msg[i] # <<>>
    BY <1>1, <2>1, <2>2
  <2>4. Flow[j] = Flow[i]
    BY <1>2, <2>1, <2>2, <2>3 DEF MessagesUnique
  <2>5. Flow[j].type \notin Callbacks
    BY <2>2, <2>4 DEF Callbacks
  <2> QED BY <2>3, <2>5
<1> QED BY <1>3 DEF msg

LEMMA TextsEndInv == IInv => TextsEnd
<1> SUFFICES ASSUME IInv, state = "received" PROVE TextsEnd
  BY DEF TextsEnd
<1> DEFINE c == Decoded.val
<1>1. Decoded.ok /\ received[1] = Struct(kind, c)
  BY DEF IInv, Arrived
<1>2. Lengthy(wire) /\ \A k \in 1 .. Len(wire) : Lengthy(wire[k].sub)
  <2>1. wire \in Seq(Tokens(Inner))
    BY DEF IInv, Carried, Token
  <2>2. Lengthy(wire) /\ \A k \in 1 .. Len(wire) : wire[k].sub \in Seq(Tokens(Leaf))
    BY <2>1, TokensLengthy, Zenon DEF Inner
  <2> QED BY <2>2, TokensLengthy, Zenon
<1> DEFINE r == received[1]
<1>3. ASSUME kind = "cdap"
      PROVE  /\ \A i \in 1 .. 4 : r.dest[i].len < 20 /\ r.src[i].len < 20
             /\ r.objClass.len < 40 /\ r.objName.len < 40 /\ r.reason.len < 20
             /\ TextOr(r.auth[1]).len < 40 /\ r.auth[2].len < 40
             /\ r.objValue # <<>> => r.objValue[1].len <= 512
  <2>1. Decoded = pb_decode(CDAPMessage, wire) /\ r = CdapStruct(c)
    BY <1>1, <1>3 DEF Decoded, Fields, Struct
  <2>2. Deep(CDAPMessage, c)
    BY <1>1, <1>2, <2>1, Descriptors, DeepDecoded, Zenon
  <2> HIDE DEF c, r
  <2> QED BY <2>1, <2>2, CdapStructEnds, Zenon
<1>4. ASSUME kind = "enrollment"
      PROVE  TextOr(r.token).len < 20
  <2>1. Decoded = pb_decode(EnrollmentInformation, wire) /\ r = EnrollmentStruct(c)
    BY <1>1, <1>4 DEF Decoded, Fields, Struct
  <2>2. Deep(EnrollmentInformation, c)
    BY <1>1, <1>2, <2>1, Descriptors, DeepDecoded, Zenon
  <2> HIDE DEF c, r
  <2> QED BY <2>1, <2>2, EnrollmentEnds, Zenon
<1>5. ASSUME kind = "flow"
      PROVE  \A i \in 1 .. 4 : r.dest[i].len < 20 /\ r.src[i].len < 20
  <2>1. Decoded = pb_decode(Flow, wire) /\ r = FlowStruct(c)
    BY <1>1, <1>5 DEF Decoded, Fields, Struct
  <2>2. Deep(Flow, c)
    BY <1>1, <1>2, <2>1, Descriptors, DeepDecoded, Zenon
  <2>3. c[1] # <<>> /\ c[2] # <<>>
    BY <1>1, <1>2, <2>1, FlowHasNames, Zenon
  <2> HIDE DEF c, r
  <2> QED BY <2>1, <2>2, <2>3, FlowEnds, Zenon
<1> QED BY <1>3, <1>4, <1>5, Zenon DEF TextsEnd

LEMMA VarintsAgreeInv == IInv => VarintsAgree
<1> SUFFICES ASSUME IInv, NEW i \in DOMAIN wire
             PROVE  LET n == wire[i].num
                    IN  /\ pb_decode_varint32(n).ok =>
                             /\ pb_decode_varint(n).ok
                             /\ pb_decode_varint(n).val.word = pb_decode_varint32(n).val
                        /\ pb_decode_varint(n).ok => pb_skip_varint(n)
                        /\ edits = <<>> /\ wire[i].wt = "varint" =>
                             pb_decode_varint32(n).ok /\ Len(n) \in 1 .. 10
  BY Zenon DEF VarintsAgree
<1> DEFINE n == wire[i].num
<1>1. pb_decode_varint(n).ok => pb_skip_varint(n)
  BY DEF pb_decode_varint, Fail
<1>2. ASSUME pb_decode_varint32(n).ok
      PROVE  pb_decode_varint(n).ok /\ pb_decode_varint(n).val.word = pb_decode_varint32(n).val
  <2>1. pb_skip_varint(n) /\ Len(n) <= 10 /\ pb_decode_varint32(n) = Ok(Word(n))
    BY <1>2 DEF pb_decode_varint32, Fail
  <2>2. pb_decode_varint(n).ok /\ pb_decode_varint(n).val.word = Word(n)
    BY <2>1 DEF pb_decode_varint, Ok
  <2> QED BY <2>1, <2>2 DEF Ok
<1>3. ASSUME edits = <<>>, wire[i].wt = "varint"
      PROVE  pb_decode_varint32(n).ok /\ Len(n) \in 1 .. 10
  <2>1. wire[i] \in Sent(Inner)
    <3>1. wire \in Seq(Sent(Inner))
      BY <1>3 DEF IInv, Carried
    <3> QED BY <3>1, SomeTyped
  <2>2. PICK w \in Words, signed \in BOOLEAN : n = pb_encode_varint(w, signed)
    BY <1>3, <2>1, Zenon DEF Sent
  <2> HIDE DEF n
  <2>3. Len(n) \in 1 .. 10 /\ pb_decode_varint32(n) = Ok(w)
    BY <2>2, WordsComeBack, Zenon
  <2> QED BY <2>3 DEF Ok
<1> QED BY <1>1, <1>2, <1>3, Zenon

(* Whatever the network makes of a message, no text of the structure it is    *)
(* decoded to is longer than the array it is copied to, the overlapping       *)
(* arrays of the object name and the result reason included.                *)
THEOREM TextsAlwaysEnd == Spec => []TextsEnd
<1> QED BY Travelled, TextsEndInv, PTL

(* pb_skip_varint, pb_decode_varint and pb_decode_varint32 agree about every  *)
(* number on the wire, and each number that was not touched is read by all.  *)
THEOREM VarintsAlwaysAgree == Spec => []VarintsAgree
<1> QED BY Travelled, VarintsAgreeInv, PTL
-----------------------------------------------------------------------------
(* The order of the fields. What a field of the wire does to a message       *)
(* depends on what its own tag holds, and on nothing else.                  *)
Within(f, t, msg) == Decode4(f.sub, t.sub, Before(msg, f))
Only(f, v)        == [tag \in {f.tag} |-> v]
Effect(f, t, v)   ==
    LET r == decode_field(Only(f, v), f, t, Within(f, t, Only(f, v)))
    IN  IF r.ok THEN Ok(r.val[f.tag]) ELSE Fail

IsMsg(fields, msg) == msg = [tag \in Tags(fields) |-> msg[tag]]

LEMMA StoreLocal ==
    ASSUME NEW f, NEW x, NEW msg, msg = [tag \in DOMAIN msg |-> msg[tag]], f.tag \in DOMAIN msg
    PROVE  LET r == Store(Only(f, msg[f.tag]), f, x)
           IN  Store(msg, f, x) = IF r.ok THEN Ok([msg EXCEPT ![f.tag] = r.val[f.tag]]) ELSE Fail
<1> DEFINE m == Only(f, msg[f.tag])
<1>1. m[f.tag] = msg[f.tag] /\ [m EXCEPT ![f.tag] = <<x>>][f.tag] = <<x>>
  BY DEF Only
<1> HIDE DEF m
<1>2. CASE f.rule # "repeated" \/ msg[f.tag] = <<>>
  <2>1. Store(msg, f, x) = Ok([msg EXCEPT ![f.tag] = <<x>>])
    BY <1>2 DEF Store
  <2>2. Store(m, f, x) = Ok([m EXCEPT ![f.tag] = <<x>>])
    BY <1>1, <1>2 DEF Store
  <2>3. Store(m, f, x).ok /\ Store(m, f, x).val[f.tag] = <<x>>
    BY <1>1, <2>2 DEF Ok
  <2> QED BY <2>1, <2>3 DEF m
<1>3. CASE ~(f.rule # "repeated" \/ msg[f.tag] = <<>>)
  <2>1. Store(msg, f, x) = Fail /\ Store(m, f, x) = Fail
    BY <1>1, <1>3 DEF Store
  <2> QED BY <2>1 DEF m, Fail
<1> QED BY <1>2, <1>3

LEMMA CallbackLocal ==
    ASSUME NEW f, f.type \in Callbacks, NEW t, NEW part,
           NEW msg, msg = [tag \in DOMAIN msg |-> msg[tag]], f.tag \in DOMAIN msg
    PROVE  LET r == decode_callback_field(Only(f, msg[f.tag]), f, t, part)
           IN  decode_callback_field(msg, f, t, part) =
                 IF r.ok THEN Ok([msg EXCEPT ![f.tag] = r.val[f.tag]]) ELSE Fail
<1> DEFINE m == Only(f, msg[f.tag])
<1>1. m[f.tag] = msg[f.tag] /\ \A x : [m EXCEPT ![f.tag] = x][f.tag] = x
  BY DEF Only
<1>2. msg = [msg EXCEPT ![f.tag] = msg[f.tag]]
  OBVIOUS
<1> HIDE DEF m
<1>3. CASE ~pb_make_string_substream(t) /\ ~read_raw_value(t)
  BY <1>3 DEF decode_callback_field, Fail, m
<1>4. CASE (pb_make_string_substream(t) \/ read_raw_value(t)) /\ f.type = "ignored"
  <2>1. decode_callback_field(msg, f, t, part) = Ok(msg) /\ decode_callback_field(m, f, t, part) = Ok(m)
    BY <1>4 DEF decode_callback_field
  <2>2. decode_callback_field(m, f, t, part).ok /\ decode_callback_field(m, f, t, part).val[f.tag] = msg[f.tag]
    BY <1>1, <2>1 DEF Ok
  <2> QED BY <1>2, <2>1, <2>2 DEF m
<1>5. CASE (pb_make_string_substream(t) \/ read_raw_value(t)) /\ f.type = "difs"
  <2> DEFINE x == msg[f.tag] \o prvSerDesNeighborDecodeCb(t)
  <2>1. /\ decode_callback_field(msg, f, t, part) = Ok([msg EXCEPT ![f.tag] = x])
        /\ decode_callback_field(m, f, t, part) = Ok([m EXCEPT ![f.tag] = x])
    BY <1>1, <1>5 DEF decode_callback_field
  <2> HIDE DEF x
  <2>2. decode_callback_field(m, f, t, part).ok /\ decode_callback_field(m, f, t, part).val[f.tag] = x
    BY <1>1, <2>1 DEF Ok
  <2> QED BY <2>1, <2>2 DEF m
<1>6. CASE (pb_make_string_substream(t) \/ read_raw_value(t)) /\ f.type = "neighbors"
  <2>0. /\ decode_callback_field(msg, f, t, part) = prvSerDesNeighborListDecodeCb(msg, f, t, part)
        /\ decode_callback_field(m, f, t, part) = prvSerDesNeighborListDecodeCb(m, f, t, part)
    BY <1>6 DEF decode_callback_field
  <2>1. CASE t.text.len = 0 /\ t.wt = "string"
    <3>1. decode_callback_field(msg, f, t, part) = Ok(msg) /\ decode_callback_field(m, f, t, part) = Ok(m)
      BY <2>0, <2>1 DEF prvSerDesNeighborListDecodeCb
    <3>2. decode_callback_field(m, f, t, part).ok /\ decode_callback_field(m, f, t, part).val[f.tag] = msg[f.tag]
      BY <1>1, <3>1 DEF Ok
    <3> QED BY <1>2, <3>1, <3>2 DEF m
  <2>2. CASE ~(t.text.len = 0 /\ t.wt = "string") /\ t.wt # "varint" /\ t.sub # <<>> /\ part.ok
    <3> DEFINE x == Append(msg[f.tag], part.val)
    <3>1. /\ decode_callback_field(msg, f, t, part) = Ok([msg EXCEPT ![f.tag] = x])
          /\ decode_callback_field(m, f, t, part) = Ok([m EXCEPT ![f.tag] = x])
      BY <1>1, <2>0, <2>2 DEF prvSerDesNeighborListDecodeCb
    <3> HIDE DEF x
    <3>2. decode_callback_field(m, f, t, part).ok /\ decode_callback_field(m, f, t, part).val[f.tag] = x
      BY <1>1, <3>1 DEF Ok
    <3> QED BY <3>1, <3>2 DEF m
  <2>3. CASE ~(t.text.len = 0 /\ t.wt = "string") /\ ~(t.wt # "varint" /\ t.sub # <<>> /\ part.ok)
    <3>1. decode_callback_field(msg, f, t, part) = Fail /\ decode_callback_field(m, f, t, part) = Fail
      BY <2>0, <2>3 DEF prvSerDesNeighborListDecodeCb
    <3> QED BY <3>1 DEF m, Fail
  <2> QED BY <2>1, <2>2, <2>3
<1> QED BY <1>3, <1>4, <1>5, <1>6 DEF Callbacks

LEMMA FieldLocal ==
    ASSUME NEW f, NEW t, NEW msg, msg = [tag \in DOMAIN msg |-> msg[tag]], f.tag \in DOMAIN msg
    PROVE  LET e == Effect(f, t, msg[f.tag])
           IN  decode_field(msg, f, t, Within(f, t, msg)) =
                 IF e.ok THEN Ok([msg EXCEPT ![f.tag] = e.val]) ELSE Fail
<1> DEFINE m == Only(f, msg[f.tag])
           p == Within(f, t, msg)
           r == decode_field(m, f, t, p)
<1>1. Within(f, t, m) = p
  <2>1. m[f.tag] = msg[f.tag]
    BY DEF Only
  <2> HIDE DEF m
  <2>2. Before(m, f) = Before(msg, f)
    BY <2>1 DEF Before
  <2> QED BY <2>2, Zenon DEF Within
<1>2. decode_field(msg, f, t, p) = IF r.ok THEN Ok([msg EXCEPT ![f.tag] = r.val[f.tag]]) ELSE Fail
  <2>1. CASE f.type \in Callbacks
    <3>1. /\ decode_field(msg, f, t, p) = decode_callback_field(msg, f, t, p)
          /\ r = decode_callback_field(m, f, t, p)
      BY <2>1 DEF decode_field, Callbacks
    <3> HIDE DEF r, p
    <3> QED BY <2>1, <3>1, CallbackLocal
  <2>2. CASE f.type \notin Callbacks
    <3> DEFINE b == IF f.type = "message" THEN pb_dec_submessage(t, p) ELSE decode_basic_field(f, t)
    <3>1. /\ decode_field(msg, f, t, p) = IF b.ok THEN Store(msg, f, b.val) ELSE Fail
          /\ r = IF b.ok THEN Store(m, f, b.val) ELSE Fail
      BY <2>2 DEF decode_field, Callbacks
    <3> HIDE DEF b, r, p
    <3>2. CASE b.ok
      BY <3>1, <3>2, StoreLocal
    <3>3. CASE ~b.ok
      BY <3>1, <3>3 DEF Fail
    <3> QED BY <3>2, <3>3
  <2> QED BY <2>1, <2>2
<1>3. Effect(f, t, msg[f.tag]) = IF r.ok THEN Ok(r.val[f.tag]) ELSE Fail
  BY <1>1, Zenon DEF Effect
<1> DEFINE e == Effect(f, t, msg[f.tag])
<1>4. r.ok => e.ok /\ e.val = r.val[f.tag]
  <2> HIDE DEF r, e
  <2> QED BY <1>3 DEF Ok, e
<1>5. ~r.ok => ~e.ok
  <2> HIDE DEF r, e
  <2> QED BY <1>3 DEF Fail, e
<1> HIDE DEF r, e
<1>6. decode_field(msg, f, t, p) = IF e.ok THEN Ok([msg EXCEPT ![f.tag] = e.val]) ELSE Fail
  BY <1>2, <1>4, <1>5, Zenon
<1> QED BY <1>6 DEF e

(* What is left of a result without the place the search went on from.       *)
Content(a) == IF a.ok THEN [ok |-> TRUE, msg |-> a.val.msg, seen |-> a.val.seen] ELSE Fail

(* The fields of a message come in the order of their tags.                  *)
Ascending(fields) == \A i, j \in DOMAIN fields : i < j => fields[i].tag < fields[j].tag

Meant(fields, t) == {i \in DOMAIN fields : fields[i].tag = t.tag}
Chosen(fields, t) == fields[CHOOSE i \in Meant(fields, t) : TRUE]
Skips(fields, t) == pb_decode_tag(t) /\ Meant(fields, t) = {} /\ pb_skip_field(t)
Sets(fields, t)  == pb_decode_tag(t) /\ Meant(fields, t) # {}
Gives(fields, c, t) == Effect(Chosen(fields, t), t, c.msg[t.tag])

After(fields, c, t) ==
    IF c.ok /\ Skips(fields, t) THEN c
    ELSE IF c.ok /\ Sets(fields, t) /\ Gives(fields, c, t).ok
         THEN [ok |-> TRUE, msg |-> [c.msg EXCEPT ![t.tag] = Gives(fields, c, t).val],
               seen |-> c.seen \cup {t.tag}]
         ELSE Fail

(* The search from any field finds what a search of all would. *)
LEMMA FoundAnywhere ==
    ASSUME NEW fields, NEW n \in Nat, DOMAIN fields = 1 .. n, Ascending(fields),
           \A i \in 1 .. n : fields[i].tag \in Nat,
           NEW s, s.pos \in 1 .. n, NEW t, t.tag \in Nat
    PROVE  /\ pb_field_iter_find(fields, s.pos, t.tag) = Meant(fields, t)
           /\ Found(fields, s, t) = CHOOSE i \in Meant(fields, t) : TRUE
<1>1. pb_field_iter_find(fields, s.pos, t.tag) = Meant(fields, t)
  <2> DEFINE pos == s.pos
  <2>1. pos \in 1 .. n
    OBVIOUS
  <2> HIDE DEF pos
  <2>2. CASE ~(t.tag < fields[pos].tag)
    BY <2>2, Zenon DEF pb_field_iter_find, Meant, pos
  <2>3. CASE t.tag < fields[pos].tag
    <3>1. pb_field_iter_find(fields, pos, t.tag) = {i \in 1 .. pos : fields[i].tag = t.tag}
      BY <2>3, Zenon DEF pb_field_iter_find
    <3>2. ASSUME NEW i \in DOMAIN fields, fields[i].tag = t.tag PROVE i \in 1 .. pos
      <4>1. i # pos /\ i \in 1 .. n
        BY <2>3, <3>2
      <4>2. ~(pos < i)
        <5>1. pos < i => fields[pos].tag < fields[i].tag
          BY <2>1, <4>1 DEF Ascending
        <5> QED BY <2>1, <2>3, <3>2, <5>1
      <4> QED BY <2>1, <4>1, <4>2
    <3>3. \A i \in 1 .. pos : i \in DOMAIN fields
      BY <2>1
    <3>4. {i \in 1 .. pos : fields[i].tag = t.tag} = Meant(fields, t)
      BY <3>2, <3>3 DEF Meant
    <3> QED BY <3>1, <3>4 DEF pos
  <2> QED BY <2>2, <2>3
<1> QED BY <1>1, Zenon DEF Found

LEMMA StepAfter ==
    ASSUME NEW fields, NEW n \in Nat, DOMAIN fields = 1 .. n, Ascending(fields),
           \A i \in 1 .. n : fields[i].tag \in Nat,
           NEW s, s.pos \in 1 .. n, IsMsg(fields, s.msg), NEW t, t.tag \in Nat, NEW part,
           part = Within(fields[Found(fields, s, t)], t, s.msg)
    PROVE  LET r == DecodeOne(fields, s, t, part)
           IN  /\ Content(r) = After(fields, Content(Ok(s)), t)
               /\ r.ok => r.val.pos \in 1 .. n /\ IsMsg(fields, r.val.msg)
<1> DEFINE r == DecodeOne(fields, s, t, part)
           c == Content(Ok(s))
           f == fields[Found(fields, s, t)]
           e == Effect(f, t, s.msg[t.tag])
<1>1. c.ok /\ c.msg = s.msg /\ c.seen = s.seen
  BY DEF Content, Ok
<1>2. /\ pb_field_iter_find(fields, s.pos, t.tag) = Meant(fields, t)
      /\ Found(fields, s, t) = CHOOSE i \in Meant(fields, t) : TRUE
  BY FoundAnywhere
<1>3. CASE ~pb_decode_tag(t)
  <2>1. r = Fail
    BY <1>3 DEF DecodeOne
  <2>2. After(fields, c, t) = Fail
    BY <1>3 DEF After, Skips, Sets
  <2> QED BY <2>1, <2>2 DEF Content, Fail
<1>4. CASE pb_decode_tag(t) /\ Meant(fields, t) = {} /\ ~pb_skip_field(t)
  <2>1. r = Fail
    BY <1>2, <1>4 DEF DecodeOne
  <2>2. After(fields, c, t) = Fail
    BY <1>4 DEF After, Skips, Sets
  <2> QED BY <2>1, <2>2 DEF Content, Fail
<1>5. CASE pb_decode_tag(t) /\ Meant(fields, t) = {} /\ pb_skip_field(t)
  <2>1. r = Ok(s)
    BY <1>2, <1>5 DEF DecodeOne
  <2>2. After(fields, c, t) = c
    BY <1>1, <1>5 DEF After, Skips
  <2> QED BY <2>1, <2>2 DEF Ok
<1>6. CASE pb_decode_tag(t) /\ Meant(fields, t) # {}
  <2>1. Found(fields, s, t) \in Meant(fields, t)
    BY <1>2, <1>6
  <2>2. Found(fields, s, t) \in 1 .. n /\ f.tag = t.tag
    BY <2>1 DEF Meant
  <2>3. t.tag \in Tags(fields) /\ DOMAIN s.msg = Tags(fields)
    BY <2>2 DEF Tags, IsMsg
  <2>4. decode_field(s.msg, f, t, part) = IF e.ok THEN Ok([s.msg EXCEPT ![f.tag] = e.val]) ELSE Fail
    <3>1. s.msg = [tag \in DOMAIN s.msg |-> s.msg[tag]]
      BY <2>3 DEF IsMsg
    <3> HIDE DEF f
    <3> QED BY <2>2, <2>3, <3>1, FieldLocal DEF f
  <2>5. Gives(fields, c, t) = e
    BY <1>1, <1>2, Zenon DEF Gives, Chosen
  <2>6. Sets(fields, t) /\ ~Skips(fields, t)
    BY <1>6 DEF Sets, Skips
  <2>7. CASE e.ok
    <3> DEFINE msg == [s.msg EXCEPT ![t.tag] = e.val]
               v == [msg |-> msg, pos |-> Found(fields, s, t), seen |-> s.seen \cup {t.tag}]
    <3>1. decode_field(s.msg, f, t, part) = Ok(msg)
      <4> HIDE DEF e, f
      <4> QED BY <2>2, <2>4, <2>7
    <3>2. r = Ok(v)
      <4> DEFINE d == decode_field(s.msg, f, t, part)
      <4> HIDE DEF e, msg
      <4>1. d.ok /\ d.val = msg
        BY <3>1 DEF Ok
      <4> HIDE DEF d
      <4>2. r = Ok([msg |-> d.val, pos |-> Found(fields, s, t), seen |-> s.seen \cup {t.tag}])
        BY <1>2, <1>6, <4>1 DEF DecodeOne, d
      <4> QED BY <4>1, <4>2
    <3>3. After(fields, c, t) = [ok |-> TRUE, msg |-> msg, seen |-> s.seen \cup {t.tag}]
      <4> HIDE DEF e, c
      <4> QED BY <1>1, <2>5, <2>6, <2>7 DEF After
    <3>4. IsMsg(fields, msg)
      <4> HIDE DEF e
      <4>1. DOMAIN msg = Tags(fields)
        BY <2>3
      <4>2. msg = [tag \in DOMAIN msg |-> msg[tag]]
        OBVIOUS
      <4> HIDE DEF msg
      <4> QED BY <4>1, <4>2, Zenon DEF IsMsg
    <3> HIDE DEF msg, r
    <3>5. r.ok /\ r.val.msg = msg /\ r.val.seen = s.seen \cup {t.tag} /\ r.val.pos = Found(fields, s, t)
      BY <3>2 DEF Ok
    <3>6. Content(r) = [ok |-> TRUE, msg |-> msg, seen |-> s.seen \cup {t.tag}]
      BY <3>5 DEF Content
    <3> QED BY <2>2, <3>3, <3>4, <3>5, <3>6 DEF r
  <2>8. CASE ~e.ok
    <3>1. decode_field(s.msg, f, t, part) = Fail
      <4> HIDE DEF e, f
      <4> QED BY <2>4, <2>8
    <3>2. r = Fail
      BY <1>2, <1>6, <3>1 DEF DecodeOne, Fail
    <3>3. After(fields, c, t) = Fail
      <4> HIDE DEF e, c
      <4> QED BY <2>5, <2>6, <2>8 DEF After
    <3> QED BY <3>2, <3>3 DEF Content, Fail
  <2> QED BY <2>7, <2>8
<1> QED BY <1>3, <1>4, <1>5, <1>6

(* Fields with different tags do not disturb each other. *)
LEMMA Commute ==
    ASSUME NEW fields, NEW c, c.ok => IsMsg(fields, c.msg), ~c.ok => c = Fail,
           NEW x, NEW y, x.tag # y.tag
    PROVE  After(fields, After(fields, c, x), y) = After(fields, After(fields, c, y), x)
<1> DEFINE A(d, t) == After(fields, d, t)
<1>1. \A t : A(Fail, t) = Fail
  BY DEF After, Fail
<1>2. ASSUME NEW d, NEW t PROVE ~A(d, t).ok => A(d, t) = Fail
  BY <1>2 DEF After, Fail
<1>3. CASE ~c.ok
  BY <1>1, <1>3
<1>4. ASSUME c.ok, NEW t, ~Skips(fields, t), ~Sets(fields, t)
      PROVE  \A d : A(d, t) = Fail
  BY <1>4 DEF After
<1>5. ASSUME NEW t, Skips(fields, t), NEW d, NEW u
      PROVE  A(A(d, u), t) = A(d, u)
  <2>1. CASE A(d, u).ok
    BY <1>5, <2>1 DEF After
  <2>2. CASE ~A(d, u).ok
    BY <1>1, <1>2, <2>2, Zenon
  <2> QED BY <2>1, <2>2
<1>6. ASSUME NEW t, Skips(fields, t), c.ok PROVE A(c, t) = c
  BY <1>6 DEF After
<1>7. CASE c.ok /\ Sets(fields, x) /\ Sets(fields, y)
  <2> DEFINE ex == Gives(fields, c, x)
             ey == Gives(fields, c, y)
             Put(d, t, e) == [ok |-> TRUE, msg |-> [d.msg EXCEPT ![t.tag] = e.val], seen |-> d.seen \cup {t.tag}]
  <2>1. /\ x.tag \in Tags(fields) /\ y.tag \in Tags(fields) /\ DOMAIN c.msg = Tags(fields)
        /\ ~Skips(fields, x) /\ ~Skips(fields, y)
    BY <1>7 DEF Sets, Skips, Meant, Tags, IsMsg
  <2>2. ASSUME NEW t, Sets(fields, t), ~Skips(fields, t), NEW d, d.ok
        PROVE  A(d, t) = IF Gives(fields, d, t).ok THEN Put(d, t, Gives(fields, d, t)) ELSE Fail
    BY <2>2, Zenon DEF After
  <2>3. ASSUME NEW t, NEW u, t.tag # u.tag, u.tag \in Tags(fields), NEW e
        PROVE  Gives(fields, Put(c, t, e), u) = Gives(fields, c, u)
    <3>1. Put(c, t, e).msg[u.tag] = c.msg[u.tag]
      BY <2>1, <2>3
    <3> HIDE DEF Put
    <3> QED BY <3>1, Zenon DEF Gives
  <2>4. Put(Put(c, x, ex), y, ey) = Put(Put(c, y, ey), x, ex)
    <3> HIDE DEF ex, ey
    <3>1. [[c.msg EXCEPT ![x.tag] = ex.val] EXCEPT ![y.tag] = ey.val]
            = [[c.msg EXCEPT ![y.tag] = ey.val] EXCEPT ![x.tag] = ex.val]
      OBVIOUS
    <3>2. (c.seen \cup {x.tag}) \cup {y.tag} = (c.seen \cup {y.tag}) \cup {x.tag}
      OBVIOUS
    <3> QED BY <3>1, <3>2
  <2>5. \A d, t, e : Put(d, t, e).ok
    OBVIOUS
  <2>6. A(c, x) = (IF ex.ok THEN Put(c, x, ex) ELSE Fail) /\ A(c, y) = (IF ey.ok THEN Put(c, y, ey) ELSE Fail)
    BY <1>7, <2>1, <2>2
  <2>7. A(Put(c, x, ex), y) = IF ey.ok THEN Put(Put(c, x, ex), y, ey) ELSE Fail
    <3>1. Gives(fields, Put(c, x, ex), y) = ey
      BY <2>1, <2>3
    <3> HIDE DEF Put, ex, ey, A
    <3> QED BY <1>7, <2>1, <2>2, <2>5, <3>1
  <2>8. A(Put(c, y, ey), x) = IF ex.ok THEN Put(Put(c, y, ey), x, ex) ELSE Fail
    <3>1. Gives(fields, Put(c, y, ey), x) = ex
      BY <2>1, <2>3
    <3> HIDE DEF Put, ex, ey, A
    <3> QED BY <1>7, <2>1, <2>2, <2>5, <3>1
  <2> HIDE DEF A, Put, ex, ey
  <2>9. A(A(c, x), y) = A(A(c, y), x)
    BY <1>1, <2>4, <2>6, <2>7, <2>8
  <2> QED BY <2>9 DEF A
<1>8. CASE c.ok /\ ~Skips(fields, x) /\ ~Sets(fields, x)
  <2>1. \A d : A(d, x) = Fail
    BY <1>4, <1>8
  <2> QED BY <1>1, <2>1
<1>9. CASE c.ok /\ ~Skips(fields, y) /\ ~Sets(fields, y)
  <2>1. \A d : A(d, y) = Fail
    BY <1>4, <1>9
  <2> QED BY <1>1, <2>1
<1>10. CASE c.ok /\ Skips(fields, x)
  <2>1. A(c, x) = c /\ A(A(c, y), x) = A(c, y)
    BY <1>5, <1>6, <1>10
  <2> QED BY <2>1
<1>11. CASE c.ok /\ Skips(fields, y)
  <2>1. A(c, y) = c /\ A(A(c, x), y) = A(c, x)
    BY <1>5, <1>6, <1>11
  <2> QED BY <2>1
<1> QED BY <1>3, <1>7, <1>8, <1>9, <1>10, <1>11

-----------------------------------------------------------------------------
(* A message decoded field by field is what its fields do one after another. *)
IsFold(c, fields, w) ==
    /\ c[0] = [ok |-> TRUE, msg |-> Empty(fields), seen |-> {}]
    /\ \A k \in 1 .. Len(w) : c[k] = After(fields, c[k - 1], w[k])

EndsAt(fields, w, d) == \E c : IsFold(c, fields, w) /\ c[Len(w)] = d

Steady(fields, d) == IF d.ok THEN IsMsg(fields, d.msg) ELSE d = Fail

Ended(fields, d) ==
    IF d.ok /\ \A i \in DOMAIN fields : fields[i].rule = "required" => fields[i].tag \in d.seen
    THEN Ok(d.msg) ELSE Fail

Ordered(fields) ==
    /\ \E n \in Nat \ {0} : DOMAIN fields = 1 .. n
    /\ Ascending(fields)
    /\ \A i \in DOMAIN fields : fields[i].tag \in Nat

LEMMA AfterSteady ==
    ASSUME NEW fields, NEW d, Steady(fields, d), NEW t
    PROVE  Steady(fields, After(fields, d, t))
<1> DEFINE a == After(fields, d, t)
<1>1. CASE d.ok /\ Skips(fields, t)
  <2>1. a = d
    BY <1>1 DEF After
  <2> QED BY <2>1
<1>2. CASE d.ok /\ ~Skips(fields, t) /\ Sets(fields, t) /\ Gives(fields, d, t).ok
  <2> DEFINE v == Gives(fields, d, t).val
             msg == [d.msg EXCEPT ![t.tag] = v]
  <2>1. a = [ok |-> TRUE, msg |-> msg, seen |-> d.seen \cup {t.tag}]
    <3> HIDE DEF msg
    <3> QED BY <1>2 DEF After, msg
  <2>2. a.ok /\ a.msg = msg
    <3> HIDE DEF msg, a
    <3> QED BY <2>1
  <2>3. IsMsg(fields, msg)
    <3> HIDE DEF v
    <3>1. DOMAIN d.msg = Tags(fields)
      BY <1>2 DEF IsMsg, Steady
    <3>2. DOMAIN msg = Tags(fields) /\ msg = [tag \in DOMAIN msg |-> msg[tag]]
      BY <3>1
    <3> HIDE DEF msg
    <3> QED BY <3>2, Zenon DEF IsMsg
  <2> HIDE DEF a, msg
  <2>4. Steady(fields, a)
    BY <2>2, <2>3 DEF Steady
  <2> QED BY <2>4 DEF a
<1>3. CASE ~(d.ok /\ Skips(fields, t)) /\ ~(d.ok /\ Sets(fields, t) /\ Gives(fields, d, t).ok)
  <2>1. a = Fail
    BY <1>3, Zenon DEF After
  <2>2. ~Fail.ok
    BY DEF Fail
  <2> HIDE DEF a
  <2>3. Steady(fields, a)
    BY <2>1, <2>2 DEF Steady
  <2> QED BY <2>3 DEF a
<1> QED BY <1>1, <1>2, <1>3

LEMMA FoldSteady ==
    ASSUME NEW fields, NEW T, NEW w \in Seq(T), NEW c, IsFold(c, fields, w)
    PROVE  \A k \in 0 .. Len(w) : Steady(fields, c[k])
<1> DEFINE n == Len(w)
           G == {k \in 0 .. n : Steady(fields, c[k])}
<1>0. n \in Nat
  BY LenProperties
<1>1. /\ c[0] = [ok |-> TRUE, msg |-> Empty(fields), seen |-> {}]
      /\ \A k \in 1 .. n : c[k] = After(fields, c[k - 1], w[k])
  BY Zenon DEF IsFold
<1> HIDE DEF n
<1>2. 0 \in G
  <2>1. IsMsg(fields, Empty(fields))
    BY DEF IsMsg, Empty, Tags
  <2>2. Steady(fields, c[0])
    BY <1>1, <2>1 DEF Steady
  <2> QED BY <1>0, <2>2
<1>3. ASSUME NEW k \in 1 .. n, k - 1 \in G
      PROVE  k \in G
  <2>1. Steady(fields, c[k - 1])
    BY <1>3
  <2>2. Steady(fields, c[k])
    BY <1>1, <2>1, AfterSteady, Zenon
  <2> QED BY <1>0, <2>2
<1>4. G = 0 .. n
  <2>1. G \in SUBSET (0 .. n)
    OBVIOUS
  <2> HIDE DEF G
  <2> QED BY <1>0, <1>2, <1>3, <2>1, Along
<1> QED BY <1>4 DEF n

LEMMA EndsOnce ==
    ASSUME NEW fields, NEW T, NEW w \in Seq(T), NEW d, NEW e,
           EndsAt(fields, w, d), EndsAt(fields, w, e)
    PROVE  d = e
<1> DEFINE n == Len(w)
<1>0. n \in Nat
  BY LenProperties
<1>1. PICK x : IsFold(x, fields, w) /\ x[n] = d
  BY Zenon DEF EndsAt
<1>2. PICK y : IsFold(y, fields, w) /\ y[n] = e
  BY Zenon DEF EndsAt
<1> DEFINE G == {k \in 0 .. n : x[k] = y[k]}
<1>3. /\ x[0] = y[0]
      /\ \A k \in 1 .. n : x[k] = After(fields, x[k - 1], w[k]) /\ y[k] = After(fields, y[k - 1], w[k])
  BY <1>1, <1>2, Zenon DEF IsFold
<1> HIDE DEF n
<1>4. 0 \in G
  BY <1>0, <1>3
<1>5. ASSUME NEW k \in 1 .. n, k - 1 \in G
      PROVE  k \in G
  <2>1. x[k - 1] = y[k - 1]
    BY <1>5
  <2>2. x[k] = y[k]
    BY <1>3, <2>1, Zenon
  <2> QED BY <1>0, <2>2
<1>6. G = 0 .. n
  <2>1. G \in SUBSET (0 .. n)
    OBVIOUS
  <2> HIDE DEF G
  <2> QED BY <1>0, <1>4, <1>5, <2>1, Along
<1>7. n \in G
  <2> HIDE DEF G
  <2> QED BY <1>0, <1>6
<1> QED BY <1>1, <1>2, <1>7

(* The decoder folds the fields. *)
LEMMA Folded ==
    ASSUME NEW fields, Ordered(fields), NEW T, \A t \in T : t.tag \in Nat, NEW w \in Seq(T)
    PROVE  \E d : EndsAt(fields, w, d) /\ pb_decode(fields, w) = Ended(fields, d)
<1> DEFINE m == Len(w)
<1>0. m \in Nat /\ \A k \in 1 .. m : w[k].tag \in Nat
  <2>1. \A k \in 1 .. Len(w) : w[k] \in T
    BY ElementOfSeq
  <2> QED BY <2>1, LenProperties
<1>1. PICK n \in Nat \ {0} : DOMAIN fields = 1 .. n
  BY DEF Ordered
<1>2. PICK run, parts : IsReading(run, parts, fields, w, Empty(fields))
  BY <1>0, RunOfMessage
<1>3. /\ run[0] = Ok([msg |-> Empty(fields), pos |-> 1, seen |-> {}])
      /\ \A k \in 1 .. m : run[k] = IF run[k - 1].ok THEN DecodeOne(fields, run[k - 1].val, w[k], parts[k])
                                    ELSE Fail
  BY <1>2, Zenon DEF IsReading, IsRun
<1>4. \A k \in 1 .. m : parts[k] = Within(fields[Found(fields, run[k - 1].val, w[k])], w[k], run[k - 1].val.msg)
  BY <1>2, Zenon DEF IsReading, Within
<1> DEFINE Good(a) == a.ok => a.val.pos \in 1 .. n /\ IsMsg(fields, a.val.msg)
           Fine(a) == IF a.ok THEN a = Ok(a.val) ELSE a = Fail
           c == [k \in 0 .. m |-> Content(run[k])]
           first == [ok |-> TRUE, msg |-> Empty(fields), seen |-> {}]
           G == {k \in 0 .. m : Good(run[k])}
<1>5. Good(run[0]) /\ Content(run[0]) = first
  <2>1. IsMsg(fields, Empty(fields))
    BY DEF IsMsg, Empty, Tags
  <2>2. run[0].ok /\ run[0].val.pos = 1 /\ run[0].val.msg = Empty(fields) /\ run[0].val.seen = {}
    BY <1>3 DEF Ok
  <2> QED BY <1>1, <2>1, <2>2 DEF Content
<1>6. ASSUME NEW k \in 1 .. m, Good(run[k - 1])
      PROVE  Good(run[k]) /\ Content(run[k]) = After(fields, Content(run[k - 1]), w[k])
  <2>1. CASE run[k - 1].ok
    <3> DEFINE s == run[k - 1].val
               t == w[k]
               part == parts[k]
    <3>1. s.pos \in 1 .. n /\ IsMsg(fields, s.msg)
      BY <1>6, <2>1
    <3>2. run[k] = DecodeOne(fields, s, t, part) /\ part = Within(fields[Found(fields, s, t)], t, s.msg)
      BY <1>3, <1>4, <2>1
    <3>3. t.tag \in Nat
      BY <1>0
    <3>4. Content(run[k - 1]) = Content(Ok(s))
      <4>1. Ok(s).ok /\ Ok(s).val = s
        BY DEF Ok
      <4> QED BY <2>1, <4>1 DEF Content
    <3> HIDE DEF s, t, part
    <3>5. n \in Nat /\ Ascending(fields) /\ \A i \in 1 .. n : fields[i].tag \in Nat
      BY <1>1 DEF Ordered
    <3>6. /\ Content(DecodeOne(fields, s, t, part)) = After(fields, Content(Ok(s)), t)
          /\ Good(DecodeOne(fields, s, t, part))
      <4>1. part = Within(fields[Found(fields, s, t)], t, s.msg)
        BY <3>2
      <4> HIDE DEF Good
      <4>2. /\ Content(DecodeOne(fields, s, t, part)) = After(fields, Content(Ok(s)), t)
            /\ DecodeOne(fields, s, t, part).ok
                 => /\ DecodeOne(fields, s, t, part).val.pos \in 1 .. n
                    /\ IsMsg(fields, DecodeOne(fields, s, t, part).val.msg)
        BY <1>1, <3>1, <3>3, <3>5, <4>1, StepAfter
      <4> QED BY <4>2 DEF Good
    <3> QED BY <3>2, <3>4, <3>6 DEF t
  <2>2. CASE ~run[k - 1].ok
    <3>1. run[k] = Fail /\ ~Fail.ok
      BY <1>3, <2>2 DEF Fail
    <3>2. Content(run[k]) = Fail /\ Content(run[k - 1]) = Fail
      BY <2>2, <3>1 DEF Content
    <3>3. After(fields, Fail, w[k]) = Fail
      BY <3>1, Zenon DEF After
    <3> QED BY <3>1, <3>2, <3>3
  <2> QED BY <2>1, <2>2
<1>7. G = 0 .. m
  <2> HIDE DEF Good, m
  <2>1. G \in SUBSET (0 .. m) /\ 0 \in G
    BY <1>0, <1>5
  <2>2. ASSUME NEW k \in 1 .. m, k - 1 \in G PROVE k \in G
    <3>1. Good(run[k - 1])
      BY <2>2
    <3>2. Good(run[k])
      BY <1>6, <3>1, Zenon
    <3> QED BY <1>0, <3>2
  <2> HIDE DEF G
  <2> QED BY <1>0, <2>1, <2>2, Along
<1>8. IsFold(c, fields, w)
  <2> HIDE DEF Good, m
  <2>1. c[0] = first /\ 0 \in 0 .. m
    BY <1>0, <1>5
  <2>2. ASSUME NEW k \in 1 .. m PROVE c[k] = After(fields, c[k - 1], w[k])
    <3>1. k \in 0 .. m /\ k - 1 \in 0 .. m
      BY <1>0
    <3>2. Good(run[k - 1])
      BY <1>7, <3>1
    <3>3. Content(run[k]) = After(fields, Content(run[k - 1]), w[k])
      BY <1>6, <3>2, Zenon
    <3> QED BY <3>1, <3>3
  <2> HIDE DEF c, first
  <2>3. c[0] = first /\ \A k \in 1 .. m : c[k] = After(fields, c[k - 1], w[k])
    BY <2>1, <2>2
  <2> QED BY <2>3, Zenon DEF IsFold, m, first
<1>9. Ended(fields, Content(run[m])) = Complete(fields, run[m])
  <2> DEFINE a == run[m]
             All(seen) == \A i \in DOMAIN fields : fields[i].rule = "required" => fields[i].tag \in seen
  <2> HIDE DEF a
  <2>1. CASE a.ok
    <3>1. Content(a).ok /\ Content(a).msg = a.val.msg /\ Content(a).seen = a.val.seen
      BY <2>1 DEF Content
    <3>2. Complete(fields, a) = IF All(a.val.seen) THEN Ok(a.val.msg) ELSE Fail
      BY <2>1, Zenon DEF Complete
    <3>3. Ended(fields, Content(a)) = IF All(a.val.seen) THEN Ok(a.val.msg) ELSE Fail
      BY <3>1, Zenon DEF Ended
    <3> QED BY <3>2, <3>3 DEF a
  <2>2. CASE ~a.ok
    <3>1. ~Content(a).ok
      BY <2>2 DEF Content, Fail
    <3>2. Complete(fields, a) = Fail
      BY <2>2, Zenon DEF Complete
    <3>3. Ended(fields, Content(a)) = Fail
      BY <3>1, Zenon DEF Ended
    <3> QED BY <3>2, <3>3 DEF a
  <2> QED BY <2>1, <2>2
<1>10. c[m] = Content(run[m])
  <2> HIDE DEF m
  <2> QED BY <1>0
<1>11. pb_decode(fields, w) = Complete(fields, run[m])
  BY <1>2, Zenon DEF IsReading, pb_decode
<1> HIDE DEF c
<1>12. EndsAt(fields, w, Content(run[m]))
  BY <1>8, <1>10, Zenon DEF EndsAt
<1> QED BY <1>9, <1>11, <1>12, Zenon

(* InsertAt puts an element between two parts of a sequence. *)
IsInsertion(b, a, t, p) ==
    /\ Len(b) = Len(a) + 1
    /\ \A k \in 1 .. p : b[k] = a[k]
    /\ b[p + 1] = t
    /\ \A k \in p + 2 .. Len(a) + 1 : b[k] = a[k - 1]

LEMMA Inserted ==
    ASSUME NEW T, NEW a \in Seq(T), NEW t \in T, NEW p \in 0 .. Len(a)
    PROVE  InsertAt(a, p + 1, t) \in Seq(T) /\ IsInsertion(InsertAt(a, p + 1, t), a, t, p)
<1> DEFINE n == Len(a)
           x == SubSeq(a, 1, p)
           y == SubSeq(a, p + 1, n)
           xt == x \o <<t>>
           b == InsertAt(a, p + 1, t)
<1>0. n \in Nat /\ p \in 0 .. n
  BY LenProperties
<1>1. x \in Seq(T) /\ Len(x) = p /\ \A k \in 1 .. p : x[k] = a[k]
  <2>1. /\ SubSeq(a, 1, p) \in Seq(T)
        /\ Len(SubSeq(a, 1, p)) = IF 1 <= p THEN p - 1 + 1 ELSE 0
        /\ \A i \in 1 .. p - 1 + 1 : SubSeq(a, 1, p)[i] = a[1 + i - 1]
    <3>1. /\ 1 \in 1 .. Len(a) + 1 /\ p \in 1 - 1 .. Len(a)
      BY <1>0
    <3> QED BY <3>1, SubSeqProperties
  <2>2. Len(x) = p
    BY <1>0, <2>1
  <2>3. \A k \in 1 .. p : k \in 1 .. p - 1 + 1 /\ 1 + k - 1 = k
    BY <1>0
  <2> QED BY <2>1, <2>2, <2>3
<1>2. y \in Seq(T) /\ Len(y) = n - p /\ \A k \in 1 .. n - p : y[k] = a[p + k]
  <2>1. /\ SubSeq(a, p + 1, n) \in Seq(T)
        /\ Len(SubSeq(a, p + 1, n)) = IF p + 1 <= n THEN n - (p + 1) + 1 ELSE 0
        /\ \A i \in 1 .. n - (p + 1) + 1 : SubSeq(a, p + 1, n)[i] = a[(p + 1) + i - 1]
    <3>1. /\ p + 1 \in 1 .. Len(a) + 1 /\ n \in (p + 1) - 1 .. Len(a)
      BY <1>0
    <3> QED BY <3>1, SubSeqProperties
  <2>2. Len(y) = n - p
    BY <1>0, <2>1
  <2>3. \A k \in 1 .. n - p : k \in 1 .. n - (p + 1) + 1 /\ (p + 1) + k - 1 = p + k
    BY <1>0
  <2> QED BY <2>1, <2>2, <2>3
<1>3. b = xt \o y
  <2>1. (p + 1) - 1 = p
    BY <1>0
  <2>2. InsertAt(a, p + 1, t) = SubSeq(a, 1, (p + 1) - 1) \o <<t>> \o SubSeq(a, p + 1, Len(a))
    BY Zenon DEF InsertAt
  <2> QED BY <2>1, <2>2
<1>4. <<t>> \in Seq(T) /\ Len(<<t>>) = 1 /\ <<t>>[1] = t
  OBVIOUS
<1> DEFINE o == <<t>>
<1> HIDE DEF n, x, y, xt, b, o
<1>5. xt \in Seq(T) /\ Len(xt) = p + 1 /\ xt[p + 1] = t /\ \A k \in 1 .. p : xt[k] = a[k]
  <2>1. /\ x \o o \in Seq(T) /\ Len(x \o o) = Len(x) + Len(o)
        /\ \A i \in 1 .. Len(x) + Len(o) : (x \o o)[i] = IF i <= Len(x) THEN x[i] ELSE o[i - Len(x)]
    BY <1>1, <1>4, ConcatProperties, Zenon DEF o
  <2>2. xt = x \o o
    BY DEF xt, o
  <2>3. Len(o) = 1 /\ o[1] = t
    BY <1>4 DEF o
  <2>4. /\ xt \in Seq(T) /\ Len(xt) = p + 1
        /\ \A i \in 1 .. p + 1 : xt[i] = IF i <= p THEN x[i] ELSE o[i - p]
    BY <1>1, <2>1, <2>2, <2>3
  <2>5. /\ p + 1 \in 1 .. p + 1 /\ ~(p + 1 <= p) /\ (p + 1) - p = 1
        /\ \A k \in 1 .. p : k \in 1 .. p + 1 /\ k <= p
    BY <1>0
  <2> QED BY <1>1, <2>3, <2>4, <2>5
<1>6. /\ b \in Seq(T) /\ Len(b) = p + 1 + (n - p)
      /\ \A i \in 1 .. p + 1 + (n - p) : b[i] = IF i <= p + 1 THEN xt[i] ELSE y[i - (p + 1)]
  <2>1. /\ xt \o y \in Seq(T) /\ Len(xt \o y) = Len(xt) + Len(y)
        /\ \A i \in 1 .. Len(xt) + Len(y) : (xt \o y)[i] = IF i <= Len(xt) THEN xt[i] ELSE y[i - Len(xt)]
    BY <1>2, <1>5, ConcatProperties, Zenon
  <2> QED BY <1>2, <1>3, <1>5, <2>1
<1>7. p + 1 + (n - p) = n + 1
  BY <1>0
<1>8. \A k \in 1 .. p : b[k] = a[k]
  <2>1. \A k \in 1 .. p : k \in 1 .. p + 1 + (n - p) /\ k <= p + 1
    BY <1>0
  <2> QED BY <1>5, <1>6, <2>1
<1>9. b[p + 1] = t
  <2>1. p + 1 \in 1 .. p + 1 + (n - p) /\ p + 1 <= p + 1
    BY <1>0
  <2> QED BY <1>5, <1>6, <2>1
<1>10. ASSUME NEW k \in p + 2 .. n + 1 PROVE b[k] = a[k - 1]
  <2>1. /\ k \in 1 .. p + 1 + (n - p) /\ ~(k <= p + 1)
        /\ k - (p + 1) \in 1 .. n - p /\ p + (k - (p + 1)) = k - 1
    BY <1>0
  <2>2. b[k] = y[k - (p + 1)]
    BY <1>6, <2>1, Zenon
  <2> QED BY <1>2, <2>1, <2>2
<1> QED BY <1>6, <1>7, <1>8, <1>9, <1>10 DEF b, n, IsInsertion

(* The fields in the order of their tags, and the place of one more. *)
InOrder(a) == \A i, j \in 1 .. Len(a) : i < j => a[i].tag <= a[j].tag

IsPlace(a, t, k) == /\ \A i \in 1 .. k : a[i].tag <= t.tag
                    /\ \A i \in k + 1 .. Len(a) : a[i].tag > t.tag

LEMMA Placed ==
    ASSUME NEW T, \A t \in T : t.tag \in Nat, NEW a \in Seq(T), InOrder(a), NEW t \in T
    PROVE  Place(a, t) \in 0 .. Len(a) /\ IsPlace(a, t, Place(a, t))
<1> DEFINE n == Len(a)
           G == {k \in 0 .. n : /\ \A i \in 1 .. k : a[i].tag <= t.tag}
<1>0. n \in Nat /\ \A i \in 1 .. n : a[i].tag \in Nat
  <2>1. \A k \in 1 .. Len(a) : a[k] \in T
    BY ElementOfSeq
  <2> QED BY <2>1, LenProperties
<1>1. t.tag \in Nat
  OBVIOUS
<1>2. \A i, j \in 1 .. n : i < j => a[i].tag <= a[j].tag
  BY Zenon DEF InOrder
<1>3. Place(a, t) = CHOOSE k \in 0 .. n : IsPlace(a, t, k)
  BY Zenon DEF Place, IsPlace
<1> HIDE DEF n
<1>4. \E k \in 0 .. n : /\ \A i \in 1 .. k : a[i].tag <= t.tag
                        /\ \A i \in k + 1 .. n : a[i].tag > t.tag
  <2>1. SUFFICES ASSUME ~ \E k \in 0 .. n : /\ \A i \in 1 .. k : a[i].tag <= t.tag
                                            /\ \A i \in k + 1 .. n : a[i].tag > t.tag
                 PROVE  FALSE
    OBVIOUS
  <2>2. 0 \in G
    BY <1>0
  <2>3. ASSUME NEW k \in 1 .. n, k - 1 \in G PROVE k \in G
    <3>1. k - 1 \in 0 .. n /\ \A i \in 1 .. k - 1 : a[i].tag <= t.tag
      BY <2>3
    <3>2. PICK j \in (k - 1) + 1 .. n : ~(a[j].tag > t.tag)
      BY <2>1, <3>1
    <3>3. j \in 1 .. n /\ k \in 1 .. n /\ (k = j \/ k < j)
      BY <1>0
    <3>4. a[k].tag <= a[j].tag
      BY <1>0, <1>2, <3>3
    <3>5. a[k].tag <= t.tag
      BY <1>0, <1>1, <3>2, <3>3, <3>4
    <3>6. \A i \in 1 .. k : i \in 1 .. k - 1 \/ i = k
      BY <1>0
    <3> QED BY <1>0, <3>1, <3>5, <3>6
  <2>4. G = 0 .. n
    <3>1. G \in SUBSET (0 .. n)
      OBVIOUS
    <3> HIDE DEF G
    <3> QED BY <1>0, <2>2, <2>3, <3>1, Along
  <2>5. n \in G
    <3> HIDE DEF G
    <3> QED BY <1>0, <2>4
  <2>6. \A i \in 1 .. n : a[i].tag <= t.tag
    BY <2>5
  <2>7. n \in 0 .. n /\ n + 1 .. n = {}
    BY <1>0
  <2> QED BY <2>1, <2>6, <2>7
<1>5. \E k \in 0 .. n : IsPlace(a, t, k)
  BY <1>4, Zenon DEF IsPlace, n
<1> QED BY <1>3, <1>5, Zenon DEF n

(* The insertion keeps the order. *)
LEMMA InsertedInOrder ==
    ASSUME NEW T, \A t \in T : t.tag \in Nat, NEW a \in Seq(T), InOrder(a), NEW t \in T
    PROVE  Insert(a, t) \in Seq(T) /\ InOrder(Insert(a, t))
<1> DEFINE n == Len(a)
           p == Place(a, t)
           b == Insert(a, t)
<1>0. n \in Nat /\ (\A i \in 1 .. n : a[i].tag \in Nat) /\ t.tag \in Nat
  <2>1. \A k \in 1 .. Len(a) : a[k] \in T
    BY ElementOfSeq
  <2> QED BY <2>1, LenProperties
<1>1. p \in 0 .. n /\ IsPlace(a, t, p)
  BY Placed, Zenon
<1>2. /\ b \in Seq(T) /\ Len(b) = n + 1
      /\ \A k \in 1 .. p : b[k] = a[k]
      /\ b[p + 1] = t
      /\ \A k \in p + 2 .. n + 1 : b[k] = a[k - 1]
  <2>1. b = InsertAt(a, p + 1, t)
    BY Zenon DEF Insert
  <2> HIDE DEF p, b
  <2>2. b \in Seq(T) /\ IsInsertion(b, a, t, p)
    BY <1>1, <2>1, Inserted
  <2> QED BY <2>2, Zenon DEF IsInsertion
<1>3. \A i, j \in 1 .. n : i < j => a[i].tag <= a[j].tag
  BY Zenon DEF InOrder
<1>4. (\A i \in 1 .. p : a[i].tag <= t.tag) /\ (\A i \in p + 1 .. n : a[i].tag > t.tag)
  BY <1>1, Zenon DEF IsPlace
<1> HIDE DEF n, p, b
<1>5. ASSUME NEW i \in 1 .. n + 1, NEW j \in 1 .. n + 1, i < j
      PROVE  b[i].tag <= b[j].tag
  <2>1. p \in Nat /\ i \in Nat /\ j \in Nat /\ p <= n
    BY <1>0, <1>1
  <2>2. CASE j <= p
    <3>1. i \in 1 .. p /\ j \in 1 .. p /\ i \in 1 .. n /\ j \in 1 .. n
      BY <1>0, <1>5, <2>1, <2>2
    <3> QED BY <1>2, <1>3, <1>5, <3>1
  <2>3. CASE i <= p /\ j = p + 1
    <3>1. i \in 1 .. p
      BY <2>1, <2>3
    <3> QED BY <1>2, <1>4, <2>3, <3>1
  <2>4. CASE i <= p /\ j > p + 1
    <3>1. i \in 1 .. p /\ j \in p + 2 .. n + 1 /\ i \in 1 .. n /\ j - 1 \in 1 .. n /\ i < j - 1
      BY <1>0, <2>1, <2>4
    <3>2. b[i] = a[i] /\ b[j] = a[j - 1] /\ a[i].tag <= a[j - 1].tag
      BY <1>2, <1>3, <3>1
    <3> QED BY <3>2
  <2>5. CASE i = p + 1
    <3>1. j \in p + 2 .. n + 1 /\ j - 1 \in p + 1 .. n /\ j - 1 \in 1 .. n
      BY <1>0, <1>5, <2>1, <2>5
    <3>2. b[i] = t /\ b[j] = a[j - 1] /\ a[j - 1].tag > t.tag /\ a[j - 1].tag \in Nat
      BY <1>0, <1>2, <1>4, <2>5, <3>1
    <3> QED BY <1>0, <3>2
  <2>6. CASE i > p + 1
    <3>1. i \in p + 2 .. n + 1 /\ j \in p + 2 .. n + 1 /\ i - 1 \in 1 .. n /\ j - 1 \in 1 .. n /\ i - 1 < j - 1
      BY <1>0, <1>5, <2>1, <2>6
    <3>2. b[i] = a[i - 1] /\ b[j] = a[j - 1] /\ a[i - 1].tag <= a[j - 1].tag
      BY <1>2, <1>3, <3>1
    <3> QED BY <3>2
  <2> QED BY <1>5, <2>1, <2>2, <2>3, <2>4, <2>5, <2>6
<1>6. \A i, j \in 1 .. Len(b) : i < j => b[i].tag <= b[j].tag
  BY <1>2, <1>5
<1>7. InOrder(b)
  BY <1>6, Zenon DEF InOrder
<1> QED BY <1>2, <1>7 DEF b

(* The field put in its place does what it would have done at the end. *)
LEMMA InsertedEnds ==
    ASSUME NEW fields, NEW T, \A t \in T : t.tag \in Nat,
           NEW a \in Seq(T), InOrder(a), NEW t \in T, NEW d, EndsAt(fields, a, d)
    PROVE  EndsAt(fields, Insert(a, t), After(fields, d, t))
<1> DEFINE n == Len(a)
           p == Place(a, t)
           b == Insert(a, t)
<1>0. n \in Nat /\ (\A i \in 1 .. n : a[i].tag \in Nat) /\ t.tag \in Nat
  <2>1. \A k \in 1 .. Len(a) : a[k] \in T
    BY ElementOfSeq
  <2> QED BY <2>1, LenProperties
<1>1. p \in 0 .. n /\ IsPlace(a, t, p)
  BY Placed, Zenon
<1>2. /\ Len(b) = n + 1
      /\ \A k \in 1 .. p : b[k] = a[k]
      /\ b[p + 1] = t
      /\ \A k \in p + 2 .. n + 1 : b[k] = a[k - 1]
  <2>1. b = InsertAt(a, p + 1, t)
    BY Zenon DEF Insert
  <2> HIDE DEF p, b
  <2>2. IsInsertion(b, a, t, p)
    BY <1>1, <2>1, Inserted
  <2> QED BY <2>2, Zenon DEF IsInsertion
<1>3. PICK c : IsFold(c, fields, a) /\ c[n] = d
  BY Zenon DEF EndsAt
<1>4. /\ c[0] = [ok |-> TRUE, msg |-> Empty(fields), seen |-> {}]
      /\ \A k \in 1 .. n : c[k] = After(fields, c[k - 1], a[k])
  BY <1>3, Zenon DEF IsFold
<1>5. \A k \in 0 .. n : Steady(fields, c[k])
  BY <1>3, FoldSteady, Zenon
<1>6. \A i \in p + 1 .. n : a[i].tag > t.tag
  BY <1>1, Zenon DEF IsPlace
<1> DEFINE e == [k \in 0 .. n + 1 |-> IF k <= p THEN c[k] ELSE After(fields, c[k - 1], t)]
<1> HIDE DEF n, p, b
<1>7. e[0] = c[0] /\ e[n + 1] = After(fields, d, t)
  <2>1. /\ 0 \in 0 .. n + 1 /\ 0 <= p
        /\ n + 1 \in 0 .. n + 1 /\ ~(n + 1 <= p) /\ (n + 1) - 1 = n
    BY <1>0, <1>1
  <2> QED BY <1>3, <2>1 DEF n
<1>8. ASSUME NEW k \in 1 .. n + 1
      PROVE  e[k] = After(fields, e[k - 1], b[k])
  <2>1. k \in 0 .. n + 1 /\ k - 1 \in 0 .. n + 1 /\ p \in Nat /\ k \in Nat
    BY <1>0, <1>1
  <2>2. CASE k <= p
    <3>1. k - 1 <= p /\ k \in 1 .. p /\ k \in 1 .. n
      BY <1>0, <1>1, <2>1, <2>2
    <3>2. e[k] = c[k] /\ e[k - 1] = c[k - 1] /\ b[k] = a[k]
      BY <1>2, <2>1, <2>2, <3>1
    <3>3. c[k] = After(fields, c[k - 1], a[k])
      BY <1>4, <3>1
    <3> HIDE DEF e
    <3> QED BY <3>2, <3>3
  <2>3. CASE k = p + 1
    <3>1. ~(k <= p) /\ k - 1 <= p
      BY <2>1, <2>3
    <3>2. e[k] = After(fields, c[k - 1], t) /\ e[k - 1] = c[k - 1] /\ b[k] = t
      BY <1>2, <2>1, <2>3, <3>1
    <3> HIDE DEF e
    <3> QED BY <3>2
  <2>4. CASE k > p + 1
    <3>1. ~(k <= p) /\ ~(k - 1 <= p) /\ k \in p + 2 .. n + 1 /\ k - 1 \in p + 1 .. n /\ k - 1 \in 1 .. n
      BY <1>0, <1>1, <2>1, <2>4
    <3> DEFINE j == k - 1
               u == a[j]
               q == c[j - 1]
    <3>2. e[k] = After(fields, c[j], t) /\ e[k - 1] = After(fields, q, t) /\ b[k] = u
      BY <1>2, <2>1, <3>1
    <3>3. c[j] = After(fields, q, u)
      BY <1>4, <3>1
    <3>4. u.tag # t.tag
      <4>1. u.tag > t.tag /\ u.tag \in Nat
        BY <1>0, <1>6, <3>1
      <4> HIDE DEF u
      <4> QED BY <1>0, <4>1
    <3>5. Steady(fields, q)
      <4>1. j - 1 \in 0 .. n
        BY <1>0, <3>1
      <4> QED BY <1>5, <4>1
    <3> HIDE DEF e, u, q, j
    <3>6. (q.ok => IsMsg(fields, q.msg)) /\ (~q.ok => q = Fail)
      BY <3>5 DEF Steady
    <3>7. After(fields, After(fields, q, u), t) = After(fields, After(fields, q, t), u)
      BY <3>4, <3>6, Commute
    <3> QED BY <3>2, <3>3, <3>7
  <2> QED BY <2>1, <2>2, <2>3, <2>4
<1> HIDE DEF e
<1>9. IsFold(e, fields, b)
  BY <1>2, <1>4, <1>7, <1>8, Zenon DEF IsFold
<1>10. EndsAt(fields, b, After(fields, d, t))
  BY <1>2, <1>7, <1>9, Zenon DEF EndsAt
<1> QED BY <1>10 DEF b

(* The recursive function of SortByTag. *)
IsSorting(s, w) == s[0] = <<>> /\ \A k \in 1 .. Len(w) : s[k] = Insert(s[k - 1], w[k])

LEMMA Sorting ==
    ASSUME NEW w, Len(w) \in Nat
    PROVE  \E s : IsSorting(s, w) /\ SortByTag(w) = s[Len(w)]
<1> DEFINE n == Len(w)
           Runs(g, k) == g = [i \in 0 .. k |-> IF i = 0 THEN <<>> ELSE Insert(g[i - 1], w[i])]
           sorted[i \in 0 .. Len(w)] == IF i = 0 THEN <<>> ELSE Insert(sorted[i - 1], w[i])
<1>1. \E g : Runs(g, n)
  <2> HIDE DEF n
  <2> DEFINE K == {k \in 0 .. n : \E g : Runs(g, k)}
  <2>1. 0 \in K
    <3>1. Runs([i \in 0 .. 0 |-> <<>>], 0)
      OBVIOUS
    <3>2. \E g : Runs(g, 0)
      BY <3>1, Zenon
    <3> HIDE DEF Runs
    <3> QED BY <3>2, SMT DEF n
  <2>2. ASSUME NEW k \in 1 .. n, k - 1 \in K
        PROVE  k \in K
    <3>1. PICK g : Runs(g, k - 1)
      BY <2>2
    <3> DEFINE h == [i \in 0 .. k |-> IF i = k THEN Insert(g[k - 1], w[k]) ELSE g[i]]
    <3>2. ASSUME NEW i \in 0 .. k
          PROVE  h[i] = IF i = 0 THEN <<>> ELSE Insert(h[i - 1], w[i])
      <4>1. k # 0 /\ k \in Nat
        BY DEF n
      <4>2. CASE i = k
        <5>1. k - 1 \in 0 .. k /\ k - 1 # k
          BY <4>1
        <5> QED BY <4>1, <4>2, <5>1
      <4>3. CASE i # k
        <5>1. i \in 0 .. k - 1 /\ (i # 0 => i - 1 \in 0 .. k /\ i - 1 # k)
          BY <4>1, <4>3
        <5>2. h[i] = g[i] /\ (i # 0 => h[i - 1] = g[i - 1])
          BY <5>1, <4>3
        <5>3. g[i] = IF i = 0 THEN <<>> ELSE Insert(g[i - 1], w[i])
          BY <3>1, <5>1, Zenon
        <5> QED BY <5>2, <5>3
      <4> QED BY <4>2, <4>3
    <3>3. h = [i \in 0 .. k |-> h[i]]
      OBVIOUS
    <3> HIDE DEF h
    <3>4. Runs(h, k)
      BY <3>2, <3>3
    <3> HIDE DEF Runs
    <3> QED BY <3>4
  <2>3. n \in K
    <3> HIDE DEF K
    <3>1. K \in SUBSET (0 .. n) /\ n \in Nat
      BY DEF K, n
    <3> QED BY <2>1, <2>2, <3>1, Along
  <2> QED BY <2>3
<1>2. Runs(sorted, n)
  BY <1>1
<1>3. SortByTag(w) = sorted[n]
  BY Zenon DEF SortByTag
<1> HIDE DEF sorted
<1>4. sorted[0] = <<>> /\ \A k \in 1 .. n : sorted[k] = Insert(sorted[k - 1], w[k])
  <2> HIDE DEF n
  <2>1. n \in Nat
    BY DEF n
  <2>2. 0 \in 0 .. n /\ \A k \in 1 .. n : k \in 0 .. n /\ k # 0
    BY <2>1
  <2> QED BY <1>2, <2>2
<1>5. IsSorting(sorted, w)
  BY <1>4, Zenon DEF IsSorting
<1> QED BY <1>3, <1>5, Zenon

(* Sorted by their tags the fields end where they ended as they came. *)
LEMMA SortedEnds ==
    ASSUME NEW fields, NEW T, \A t \in T : t.tag \in Nat, NEW w \in Seq(T), NEW d, EndsAt(fields, w, d)
    PROVE  SortByTag(w) \in Seq(T) /\ EndsAt(fields, SortByTag(w), d)
<1> DEFINE n == Len(w)
<1>0. n \in Nat /\ \A k \in 1 .. n : w[k] \in T
  BY LenProperties, ElementOfSeq
<1>1. PICK c : IsFold(c, fields, w) /\ c[n] = d
  BY Zenon DEF EndsAt
<1>2. PICK s : IsSorting(s, w) /\ SortByTag(w) = s[n]
  BY <1>0, Sorting
<1>3. /\ c[0] = [ok |-> TRUE, msg |-> Empty(fields), seen |-> {}]
      /\ \A k \in 1 .. n : c[k] = After(fields, c[k - 1], w[k])
  BY <1>1, Zenon DEF IsFold
<1>4. s[0] = <<>> /\ \A k \in 1 .. n : s[k] = Insert(s[k - 1], w[k])
  BY <1>2, Zenon DEF IsSorting
<1> HIDE DEF n
<1> DEFINE Good(k) == s[k] \in Seq(T) /\ InOrder(s[k]) /\ EndsAt(fields, s[k], c[k])
           G == {k \in 0 .. n : Good(k)}
<1>5. Good(0)
  <2>1. <<>> \in Seq(T) /\ Len(<<>>) = 0
    BY EmptySeq
  <2>2. 1 .. 0 = {}
    BY SMT
  <2>3. InOrder(<<>>)
    BY <2>1, <2>2 DEF InOrder
  <2>4. IsFold([k \in {0} |-> c[0]], fields, <<>>) /\ [k \in {0} |-> c[0]][0] = c[0]
    BY <1>3, <2>1, <2>2 DEF IsFold
  <2>5. EndsAt(fields, <<>>, c[0])
    BY <2>1, <2>4, Zenon DEF EndsAt
  <2> QED BY <1>4, <2>1, <2>3, <2>5
<1>6. ASSUME NEW k \in 1 .. n, Good(k - 1)
      PROVE  Good(k)
  <2> DEFINE a == s[k - 1]
             t == w[k]
  <2>1. a \in Seq(T) /\ InOrder(a) /\ EndsAt(fields, a, c[k - 1]) /\ t \in T
    BY <1>0, <1>6
  <2>2. s[k] = Insert(a, t) /\ c[k] = After(fields, c[k - 1], t)
    BY <1>3, <1>4
  <2> HIDE DEF a, t
  <2>3. Insert(a, t) \in Seq(T) /\ InOrder(Insert(a, t))
    BY <2>1, InsertedInOrder, Zenon
  <2>4. EndsAt(fields, Insert(a, t), After(fields, c[k - 1], t))
    BY <2>1, InsertedEnds, Zenon
  <2> QED BY <2>2, <2>3, <2>4
<1> HIDE DEF Good
<1>7. G = 0 .. n
  <2>1. 0 \in G /\ G \in SUBSET (0 .. n)
    BY <1>0, <1>5
  <2>2. ASSUME NEW k \in 1 .. n, k - 1 \in G PROVE k \in G
    <3>1. Good(k - 1)
      BY <2>2
    <3>2. Good(k)
      BY <1>6, <3>1, Zenon
    <3> QED BY <1>0, <3>2
  <2> HIDE DEF G
  <2> QED BY <1>0, <2>1, <2>2, Along
<1>8. Good(n)
  BY <1>0, <1>7
<1> QED BY <1>1, <1>2, <1>8 DEF Good, n

LEMMA SortedDecodes ==
    ASSUME NEW fields, Ordered(fields), NEW T, \A t \in T : t.tag \in Nat, NEW w \in Seq(T)
    PROVE  pb_decode(fields, w) = pb_decode(fields, SortByTag(w))
<1> DEFINE v == SortByTag(w)
<1>1. PICK d : EndsAt(fields, w, d) /\ pb_decode(fields, w) = Ended(fields, d)
  BY Folded, Zenon
<1>2. v \in Seq(T) /\ EndsAt(fields, v, d)
  BY <1>1, SortedEnds, Zenon
<1> HIDE DEF v
<1>3. PICK e : EndsAt(fields, v, e) /\ pb_decode(fields, v) = Ended(fields, e)
  BY <1>2, Folded, Zenon
<1>4. d = e
  BY <1>2, <1>3, EndsOnce, Zenon
<1> QED BY <1>1, <1>3, <1>4 DEF v
-----------------------------------------------------------------------------
(* The fields of the four messages are in the order of their tags.           *)
Rising(fields, lo, hi) == Ascending(fields) /\ \A i \in DOMAIN fields : fields[i].tag \in lo .. hi

LEMMA RisingAs ==
    ASSUME NEW fields, NEW tags, NEW lo, NEW hi, DOMAIN fields = DOMAIN tags,
           \A i \in DOMAIN tags : fields[i].tag = tags[i] /\ tags[i] \in lo .. hi,
           \A i, j \in DOMAIN tags : i < j => tags[i] < tags[j]
    PROVE  Rising(fields, lo, hi)
BY DEF Rising, Ascending

LEMMA RisingOn ==
    ASSUME NEW S, NEW a \in Seq(S), NEW b \in Seq(S), NEW lo \in Nat, NEW mid \in Nat, NEW hi \in Nat,
           lo <= mid, mid < hi, Rising(a, lo, mid), Rising(b, mid + 1, hi)
    PROVE  a \o b \in Seq(S) /\ Rising(a \o b, lo, hi)
<1> DEFINE m == Len(a)
           n == Len(b)
           c == a \o b
<1>1. m \in Nat /\ n \in Nat /\ DOMAIN a = 1 .. m /\ DOMAIN b = 1 .. n
  BY LenProperties
<1>2. /\ c \in Seq(S) /\ Len(c) = m + n
      /\ \A i \in 1 .. m + n : c[i] = IF i <= m THEN a[i] ELSE b[i - m]
  BY ConcatProperties, Zenon
<1>3. DOMAIN c = 1 .. m + n
  BY <1>2, LenProperties
<1>4. /\ \A i \in 1 .. m : a[i].tag \in lo .. mid
      /\ \A i, j \in 1 .. m : i < j => a[i].tag < a[j].tag
      /\ \A i \in 1 .. n : b[i].tag \in mid + 1 .. hi
      /\ \A i, j \in 1 .. n : i < j => b[i].tag < b[j].tag
  BY <1>1, Zenon DEF Rising, Ascending
<1> HIDE DEF m, n, c
<1>5. ASSUME NEW i \in 1 .. m PROVE i \in 1 .. m + n /\ c[i] = a[i]
  BY <1>1, <1>2
<1>6. ASSUME NEW i \in 1 .. m + n, i \notin 1 .. m
      PROVE  i - m \in 1 .. n /\ c[i] = b[i - m]
  BY <1>1, <1>2, <1>6
<1>7. ASSUME NEW i \in 1 .. m + n PROVE c[i].tag \in lo .. hi
  <2>1. CASE i \in 1 .. m
    BY <1>4, <1>5, <2>1
  <2>2. CASE i \notin 1 .. m
    <3>1. c[i].tag \in mid + 1 .. hi
      BY <1>4, <1>6, <2>2
    <3> QED BY <3>1
  <2> QED BY <2>1, <2>2
<1>8. ASSUME NEW i \in 1 .. m + n, NEW j \in 1 .. m + n, i < j PROVE c[i].tag < c[j].tag
  <2>1. CASE j \in 1 .. m
    <3>1. i \in 1 .. m
      BY <1>1, <1>8, <2>1
    <3> QED BY <1>4, <1>5, <1>8, <2>1, <3>1
  <2>2. CASE i \in 1 .. m /\ j \notin 1 .. m
    <3>1. c[i].tag \in lo .. mid /\ c[j].tag \in mid + 1 .. hi
      BY <1>4, <1>5, <1>6, <2>2
    <3> QED BY <3>1
  <2>3. CASE i \notin 1 .. m
    <3>1. j \notin 1 .. m
      BY <1>1, <1>8, <2>3
    <3>2. i - m \in 1 .. n /\ j - m \in 1 .. n /\ c[i] = b[i - m] /\ c[j] = b[j - m]
      BY <1>6, <2>3, <3>1
    <3>3. i - m < j - m
      BY <1>1, <1>8
    <3> QED BY <1>4, <3>2, <3>3
  <2> QED BY <2>1, <2>2, <2>3
<1>9. Rising(c, lo, hi)
  BY <1>3, <1>7, <1>8 DEF Rising, Ascending
<1> QED BY <1>2, <1>9 DEF c

LEMMA RisingIsOrdered ==
    ASSUME NEW S, NEW fields \in Seq(S), fields # <<>>, NEW lo \in Nat, NEW hi \in Nat, Rising(fields, lo, hi)
    PROVE  Ordered(fields)
<1>1. Len(fields) \in Nat \ {0} /\ DOMAIN fields = 1 .. Len(fields)
  BY EmptySeq, LenProperties
<1>2. \A i \in DOMAIN fields : fields[i].tag \in Nat
  BY DEF Rising
<1> QED BY <1>1, <1>2 DEF Ordered, Rising

LEMMA StrsRise ==
    ASSUME NEW S, NEW tags \in Seq(Nat), NEW size, NEW lo, NEW hi,
           \A i \in DOMAIN tags : tags[i] \in lo .. hi /\ Str(tags[i], size) \in S,
           \A i, j \in DOMAIN tags : i < j => tags[i] < tags[j]
    PROVE  Strs(tags, size) \in Seq(S) /\ Rising(Strs(tags, size), lo, hi)
<1>1. DOMAIN tags = 1 .. Len(tags)
  BY LenProperties
<1>2. Strs(tags, size) \in Seq(S)
  BY <1>1, StrsAre
<1>3. DOMAIN Strs(tags, size) = DOMAIN tags /\ \A i \in DOMAIN tags : Strs(tags, size)[i].tag = tags[i]
  BY DEF Strs, Str, Field
<1>4. Rising(Strs(tags, size), lo, hi)
  BY <1>3, RisingAs
<1> QED BY <1>2, <1>4

LEMMA ListsRise ==
    ASSUME NEW S, NEW tags \in Seq(Nat), NEW lo, NEW hi,
           \A i \in DOMAIN tags : tags[i] \in lo .. hi /\ Optional(tags[i], "uint32") \in S,
           \A i, j \in DOMAIN tags : i < j => tags[i] < tags[j]
    PROVE  Uint32s(tags) \in Seq(S) /\ Rising(Uint32s(tags), lo, hi)
<1>1. DOMAIN tags = 1 .. Len(tags)
  BY LenProperties
<1>2. Uint32s(tags) \in Seq(S)
  BY <1>1, ListsAre
<1>3. DOMAIN Uint32s(tags) = DOMAIN tags /\ \A i \in DOMAIN tags : Uint32s(tags)[i].tag = tags[i]
  BY DEF Uint32s, Optional, Field
<1>4. Rising(Uint32s(tags), lo, hi)
  BY <1>3, RisingAs
<1> QED BY <1>2, <1>4

LEMMA CdapRises == Ordered(CDAPMessage)
<1> DEFINE a == <<Optional(1, "int"), Required(2, "uint32"), Optional(3, "int"), Optional(4, "uint32")>>
           b == Strs(<<5, 6>>, 40)
           c == <<Optional(7, "int"), Sub(8, ObjVal), Optional(9, "int"), Optional(10, "int"),
                  Ignored(11), Sub(18, AuthPolicy)>>
           d == Strs(<<19, 20, 21, 22, 23, 24, 25, 26, 27>>, 20)
           e == <<Optional(28, "int")>>
<1>1. a \in Seq(CdapSet) /\ Rising(a, 1, 4)
  <2> DEFINE tags == <<1, 2, 3, 4>>
  <2>1. a \in Seq(CdapSet)
    BY DEF CdapSet
  <2>2. DOMAIN a = DOMAIN tags /\ \A i \in DOMAIN tags : a[i].tag = tags[i]
    <3>1. DOMAIN a = 1 .. 4 /\ DOMAIN tags = 1 .. 4
      OBVIOUS
    <3>2. a[1].tag = 1 /\ a[2].tag = 2 /\ a[3].tag = 3 /\ a[4].tag = 4
      BY DEF Optional, Required, Field
    <3>3. tags[1] = 1 /\ tags[2] = 2 /\ tags[3] = 3 /\ tags[4] = 4
      OBVIOUS
    <3> HIDE DEF a, tags
    <3> QED BY <3>1, <3>2, <3>3
  <2>3. /\ \A i \in DOMAIN tags : tags[i] \in 1 .. 4
        /\ \A i, j \in DOMAIN tags : i < j => tags[i] < tags[j]
    OBVIOUS
  <2> HIDE DEF a, tags
  <2> QED BY <2>1, <2>2, <2>3, RisingAs
<1>2. b \in Seq(CdapSet) /\ Rising(b, 5, 6)
  <2> DEFINE tags == <<5, 6>>
  <2>1. \A i \in 5 .. 6 : Str(i, 40) \in CdapSet
    BY DEF CdapSet
  <2>2. tags \in Seq(Nat) /\ (\A i \in DOMAIN tags : tags[i] \in 5 .. 6)
        /\ (\A i, j \in DOMAIN tags : i < j => tags[i] < tags[j])
    OBVIOUS
  <2> HIDE DEF tags
  <2>3. Strs(tags, 40) \in Seq(CdapSet) /\ Rising(Strs(tags, 40), 5, 6)
    BY <2>1, <2>2, StrsRise
  <2> QED BY <2>3 DEF tags
<1>3. c \in Seq(CdapSet) /\ Rising(c, 7, 18)
  <2> DEFINE tags == <<7, 8, 9, 10, 11, 18>>
  <2>1. c \in Seq(CdapSet)
    BY DEF CdapSet
  <2>2. DOMAIN c = DOMAIN tags /\ \A i \in DOMAIN tags : c[i].tag = tags[i]
    BY DEF Optional, Sub, Ignored, Field
  <2>3. /\ \A i \in DOMAIN tags : tags[i] \in 7 .. 18
        /\ \A i, j \in DOMAIN tags : i < j => tags[i] < tags[j]
    OBVIOUS
  <2> HIDE DEF c, tags
  <2> QED BY <2>1, <2>2, <2>3, RisingAs
<1>4. d \in Seq(CdapSet) /\ Rising(d, 19, 27)
  <2> DEFINE tags == <<19, 20, 21, 22, 23, 24, 25, 26, 27>>
  <2>1. \A i \in 19 .. 27 : Str(i, 20) \in CdapSet
    BY DEF CdapSet
  <2>2. tags \in Seq(Nat) /\ \A i \in DOMAIN tags : i \in 1 .. 9 /\ tags[i] = i + 18
    OBVIOUS
  <2> HIDE DEF tags
  <2>3. ASSUME NEW i \in DOMAIN tags
        PROVE  /\ tags[i] \in 19 .. 27
               /\ \A j \in DOMAIN tags : i < j => tags[i] < tags[j]
    <3>1. i \in 1 .. 9 /\ tags[i] = i + 18
      BY <2>2
    <3>2. ASSUME NEW j \in DOMAIN tags, i < j PROVE tags[i] < tags[j]
      <4>1. j \in 1 .. 9 /\ tags[j] = j + 18
        BY <2>2
      <4> QED BY <3>1, <3>2, <4>1
    <3> QED BY <3>1, <3>2
  <2>4. Strs(tags, 20) \in Seq(CdapSet) /\ Rising(Strs(tags, 20), 19, 27)
    BY <2>1, <2>2, <2>3, StrsRise
  <2> QED BY <2>4 DEF tags
<1>5. e \in Seq(CdapSet) /\ Rising(e, 28, 28)
  <2>1. e \in Seq(CdapSet)
    BY DEF CdapSet
  <2>2. DOMAIN e = {1} /\ e[1].tag = 28
    BY DEF Optional, Field
  <2> HIDE DEF e
  <2> QED BY <2>1, <2>2 DEF Rising, Ascending
<1>6. CDAPMessage = a \o b \o c \o d \o e
  BY DEF CDAPMessage
<1> HIDE DEF a, b, c, d, e
<1> DEFINE ab == a \o b
           abc == ab \o c
           abcd == abc \o d
<1>7. ab \in Seq(CdapSet) /\ Rising(ab, 1, 6)
  BY <1>1, <1>2, RisingOn
<1> HIDE DEF ab
<1>8. abc \in Seq(CdapSet) /\ Rising(abc, 1, 18)
  BY <1>3, <1>7, RisingOn
<1> HIDE DEF abc
<1>9. abcd \in Seq(CdapSet) /\ Rising(abcd, 1, 27)
  BY <1>4, <1>8, RisingOn
<1> HIDE DEF abcd
<1>10. CDAPMessage = abcd \o e
  BY <1>6 DEF ab, abc, abcd
<1>11. Rising(CDAPMessage, 1, 28)
  BY <1>5, <1>9, <1>10, RisingOn
<1> QED BY <1>11, CdapDescribed, RisingIsOrdered

LEMMA FlowRises == Ordered(Flow)
<1> DEFINE a == <<Names(1), Names(2), Required(3, "uint64"), Optional(4, "uint64"), Required(5, "uint64"),
                  Optional(6, "uint64"), Field(7, "message", "repeated", 0, ConnectionId)>>
           b == Uint32s(<<8, 9>>)
           c == <<Sub(10, QosSpec), Sub(12, DtpConfig), Sub(13, DtcpConfig), Ignored(14)>>
           d == Uint32s(<<15, 16, 17>>)
<1>1. a \in Seq(FlowSet) /\ Rising(a, 1, 7)
  <2> DEFINE tags == <<1, 2, 3, 4, 5, 6, 7>>
  <2>1. a \in Seq(FlowSet)
    BY DEF FlowSet, Names
  <2>2. DOMAIN a = DOMAIN tags /\ \A i \in DOMAIN tags : a[i].tag = tags[i]
    BY DEF Names, Optional, Required, Field
  <2>3. /\ \A i \in DOMAIN tags : tags[i] \in 1 .. 7
        /\ \A i, j \in DOMAIN tags : i < j => tags[i] < tags[j]
    OBVIOUS
  <2> HIDE DEF a, tags
  <2> QED BY <2>1, <2>2, <2>3, RisingAs
<1>2. b \in Seq(FlowSet) /\ Rising(b, 8, 9)
  <2> DEFINE tags == <<8, 9>>
  <2>1. \A i \in 8 .. 9 : Optional(i, "uint32") \in FlowSet
    BY DEF FlowSet
  <2>2. tags \in Seq(Nat) /\ (\A i \in DOMAIN tags : tags[i] \in 8 .. 9)
        /\ (\A i, j \in DOMAIN tags : i < j => tags[i] < tags[j])
    OBVIOUS
  <2> HIDE DEF tags
  <2>3. Uint32s(tags) \in Seq(FlowSet) /\ Rising(Uint32s(tags), 8, 9)
    BY <2>1, <2>2, ListsRise
  <2> QED BY <2>3 DEF tags
<1>3. c \in Seq(FlowSet) /\ Rising(c, 10, 14)
  <2> DEFINE tags == <<10, 12, 13, 14>>
  <2>1. c \in Seq(FlowSet)
    BY DEF FlowSet, Names
  <2>2. DOMAIN c = DOMAIN tags /\ \A i \in DOMAIN tags : c[i].tag = tags[i]
    BY DEF Sub, Ignored, Field
  <2>3. /\ \A i \in DOMAIN tags : tags[i] \in 10 .. 14
        /\ \A i, j \in DOMAIN tags : i < j => tags[i] < tags[j]
    OBVIOUS
  <2> HIDE DEF c, tags
  <2> QED BY <2>1, <2>2, <2>3, RisingAs
<1>4. d \in Seq(FlowSet) /\ Rising(d, 15, 17)
  <2> DEFINE tags == <<15, 16, 17>>
  <2>1. \A i \in 15 .. 17 : Optional(i, "uint32") \in FlowSet
    BY DEF FlowSet
  <2>2. tags \in Seq(Nat) /\ (\A i \in DOMAIN tags : tags[i] \in 15 .. 17)
        /\ (\A i, j \in DOMAIN tags : i < j => tags[i] < tags[j])
    OBVIOUS
  <2> HIDE DEF tags
  <2>3. Uint32s(tags) \in Seq(FlowSet) /\ Rising(Uint32s(tags), 15, 17)
    BY <2>1, <2>2, ListsRise
  <2> QED BY <2>3 DEF tags
<1>5. Flow = a \o b \o c \o d
  BY Zenon DEF Flow, Names
<1> HIDE DEF a, b, c, d
<1> DEFINE ab == a \o b
           abc == ab \o c
<1>6. ab \in Seq(FlowSet) /\ Rising(ab, 1, 9)
  BY <1>1, <1>2, RisingOn
<1> HIDE DEF ab
<1>7. abc \in Seq(FlowSet) /\ Rising(abc, 1, 14)
  BY <1>3, <1>6, RisingOn
<1> HIDE DEF abc
<1>8. Flow = abc \o d
  BY <1>5 DEF ab, abc
<1>9. Rising(Flow, 1, 17)
  BY <1>4, <1>7, <1>8, RisingOn
<1> QED BY <1>9, FlowDescribed, RisingIsOrdered

LEMMA PartsRise == Ordered(EnrollmentInformation) /\ Ordered(Neighbors)
<1>1. Ordered(EnrollmentInformation)
  <2> DEFINE fields == EnrollmentInformation
             tags == <<1, 2, 3, 4>>
  <2>1. DOMAIN fields = DOMAIN tags /\ \A i \in DOMAIN tags : fields[i].tag = tags[i]
    BY DEF EnrollmentInformation, Optional, Versions, Str, Field
  <2>2. /\ \A i \in DOMAIN tags : tags[i] \in 1 .. 4
        /\ \A i, j \in DOMAIN tags : i < j => tags[i] < tags[j]
    OBVIOUS
  <2> HIDE DEF fields, tags
  <2>3. Rising(fields, 1, 4)
    BY <2>1, <2>2, RisingAs
  <2> QED BY <2>3, PartsDescribed, RisingIsOrdered DEF fields
<1>2. Ordered(Neighbors)
  <2> DEFINE N == Field(1, "neighbors", "repeated", 0, Neighbor)
             fields == <<N>>
  <2>1. fields \in Seq({N}) /\ fields # <<>> /\ DOMAIN fields = {1} /\ fields[1] = N
    OBVIOUS
  <2>2. N.tag = 1
    BY DEF Field
  <2>3. Neighbors = fields
    BY DEF Neighbors
  <2> HIDE DEF fields, N
  <2>4. Rising(fields, 1, 1)
    BY <2>1, <2>2 DEF Rising, Ascending
  <2> QED BY <2>1, <2>3, <2>4, RisingIsOrdered
<1> QED BY <1>1, <1>2

LEMMA OrderIrrelevantInv == IInv => OrderIrrelevant
<1> SUFFICES ASSUME IInv
             PROVE  pb_decode(Fields(kind), wire) = pb_decode(Fields(kind), SortByTag(wire))
  BY DEF OrderIrrelevant, Decoded
<1>1. kind \in {"cdap", "neighbors", "enrollment", "flow"}
  BY DEF IInv, Origin, Sources
<1>2. Ordered(Fields(kind))
  BY <1>1, CdapRises, FlowRises, PartsRise DEF Fields
<1>3. wire \in Seq(Token)
  BY DEF IInv, Carried
<1>4. \A t \in Token : t.tag \in Nat
  BY DEF Token, Tokens
<1> QED BY <1>2, <1>3, <1>4, SortedDecodes

(* pb_field_iter_find searches on from the field it is at and turns back at  *)
(* the end: whatever the network makes of a message, and however the fields  *)
(* on the wire are ordered, pb_decode makes the same of them, as long as     *)
(* those with the same tag keep their order.                                *)
THEOREM OrderNeverMatters == Spec => []OrderIrrelevant
<1> QED BY Travelled, OrderIrrelevantInv, PTL
=============================================================================
