------------------------------- MODULE Names -------------------------------
(***************************************************************************)
(* Common/rina_name.c and Common/rina_gpha.c: names as the strings of the    *)
(* configuration, as four parts, and as the protocol addresses of ARP, which *)
(* are padded on the wire. A string is a sequence of characters without its  *)
(* NUL. A name is [part, post]: post is the length of the string kept right  *)
(* behind the structure, 0 if there is none.                                *)
(***************************************************************************)
EXTENDS Integers, Sequences, SequencesExt

CONSTANTS NameChars,      \* characters of names, CFG_DELIMITER among them
          CFG_DELIMITER,
          MaxString,      \* bound of the model: length of a string
          MaxPadding      \* bound of the model: padding of an address on the wire

NUL == "NUL"

Strings == UNION {[1 .. n -> NameChars] : n \in 0 .. MaxString}

(* The position of the next delimiter, or of the end of the string. *)
NextDelimiter(s, from) ==
    Min({i \in from .. Len(s) : s[i] = CFG_DELIMITER} \cup {Len(s) + 1})

(* Without two delimiters a string is bad. The entity instance is what is    *)
(* left: nothing if there is no third one.                                  *)
prvBreakdownNameString(s) ==
    LET c1 == NextDelimiter(s, 1)
        c2 == NextDelimiter(s, c1 + 1)
        c3 == NextDelimiter(s, c2 + 1)
    IN  IF c2 > Len(s) THEN <<>>
        ELSE <<SubSeq(s, 1, c1 - 1), SubSeq(s, c1 + 1, c2 - 1), SubSeq(s, c2 + 1, c3 - 1),
               SubSeq(s, c3 + 1, Len(s))>>

pxNameNewFromString(s) == [part |-> prvBreakdownNameString(s),
                           post |-> IF prvBreakdownNameString(s) = <<>> THEN 0 ELSE Len(s)]
xNameAssignFromString(s) == [pxNameNewFromString(s) EXCEPT !.post = 0]

(* The separators are not counted. *)
pxNameNewFromParts(part) == [part |-> part, post |-> Len(FlattenSeq(part))]
xNameAssignFromPartsDup(part) == [part |-> part, post |-> 0]

(* The process instance is also given as entity instance. *)
xNameAssignDup(name) ==
    xNameAssignFromPartsDup([name.part EXCEPT ![4] = name.part[2]])

(* The bytes that the loop over the parts stores in a buffer: size - 1 is    *)
(* compared with the characters of the parts, not with the delimiters.       *)
vNameToStringBuf(name, size) ==
    LET chars(i)  == IF i = 0 THEN 0 ELSE Len(FlattenSeq(SubSeq(name.part, 1, i)))
        copied(i) == Min({chars(i), size - 1})
        piece(i)  == SubSeq(name.part[i], 1, copied(i) - copied(i - 1))
                       \o <<IF i = 4 THEN NUL ELSE CFG_DELIMITER>>
        last      == Min({i \in 1 .. 3 : copied(i) = size - 1} \cup {4})
        out       == FlattenSeq([i \in 1 .. last |-> piece(i)])
    IN  IF copied(4) = size - 1 THEN [out EXCEPT ![size] = NUL] ELSE out

(* What strlen and strcpy see. *)
strlen(bytes) == Cardinality({n \in DOMAIN bytes : \A i \in 1 .. n : bytes[i] # NUL})
UpToNul(bytes) == SubSeq(bytes, 1, strlen(bytes))

(* With a string behind the structure its bytes are copied and their NULs    *)
(* become delimiters, but for the last one.                                 *)
pcNameToString(name) ==
    LET behind == name.part[1] \o <<CFG_DELIMITER>> \o name.part[2] \o <<CFG_DELIMITER>>
                    \o name.part[3] \o <<CFG_DELIMITER>> \o name.part[4]
    IN  IF name.post = 0
        THEN UpToNul(vNameToStringBuf(name, Len(FlattenSeq(name.part)) + 4))
        ELSE SubSeq(behind, 1, name.post)
-----------------------------------------------------------------------------
(* A gpa_t is its bytes; xIsGPAOK. *)
xIsGPAOK(gpa) == gpa # <<>>
pxCreateGPA(bytes) == bytes

(* The NUL of the string is a byte of the address. *)
pxNameToGPA(name) == pxCreateGPA(Append(pcNameToString(name), NUL))

xGPAGrow(gpa, length) ==
    gpa \o [i \in 1 .. length - Len(gpa) |-> NUL]

xGPAShrink(gpa) == UpToNul(gpa)

(* pxDupGPA with nDoShrink: the padding at the end. *)
pxDupGPA(gpa) == SubSeq(gpa, 1, Max({i \in DOMAIN gpa : gpa[i] # NUL} \cup {0}))

prvGetActualAddressLength(gpa) == strlen(gpa)

xGPACmp(gpa1, gpa2) ==
    LET n == prvGetActualAddressLength(gpa1)
    IN  /\ xIsGPAOK(gpa1) /\ xIsGPAOK(gpa2)
        /\ n = prvGetActualAddressLength(gpa2)
        /\ SubSeq(gpa1, 1, n) = SubSeq(gpa2, 1, n)

xGPAAddressToString(gpa) == UpToNul(gpa)

(* xARPCacheAdd keeps a shrunk copy; prvARPExtractRequestData shrinks what a *)
(* request holds; prvARPGetResponse pads to the length of the request.       *)
Extracted(wire) == xGPAShrink(pxCreateGPA(wire))
Responded(gpa, length) == SubSeq(xGPAGrow(gpa, length), 1, length)
Found(registered, wire) == xGPACmp(pxDupGPA(pxNameToGPA(registered)), Extracted(wire))
-----------------------------------------------------------------------------
WellFormed == {s \in Strings : prvBreakdownNameString(s) # <<>>}
Delimiters(s) == Cardinality({i \in DOMAIN s : s[i] = CFG_DELIMITER})

(* A name given as a string (RINA_flow_alloc, the configuration) is written  *)
(* as that string, with the third delimiter it may lack; and what is written *)
(* is read as the same parts, whatever functions made the name.              *)
NamesRoundTrip ==
    \A s \in WellFormed :
      LET name == xNameAssignFromString(s)
          text == IF Delimiters(s) = 2 THEN Append(s, CFG_DELIMITER) ELSE s
      IN  /\ pcNameToString(name) = text
          /\ pcNameToString(pxNameNewFromString(s)) \in {s, text}
          /\ prvBreakdownNameString(text) = name.part
          /\ LET dup == xNameAssignDup(name)
             IN  prvBreakdownNameString(pcNameToString(dup)) = dup.part

(* An ARP request finds the name another node registered if it asks for that *)
(* name, and for no other one, however the address is padded on the way; and *)
(* the node that asked finds its own name in the answer.                     *)
AddressesResolve ==
    \A s, r \in WellFormed, padding \in 0 .. MaxPadding :
      LET registered == xNameAssignFromString(s)
          asked      == xNameAssignFromString(r)
          length     == Len(pxNameToGPA(asked)) + padding
          wire       == xGPAGrow(pxNameToGPA(asked), length)
      IN  /\ Found(registered, wire) <=> pcNameToString(registered) = pcNameToString(asked)
          /\ Found(registered, wire) =>
               xGPACmp(Extracted(Responded(Extracted(wire), length)), pxNameToGPA(asked))
=============================================================================
