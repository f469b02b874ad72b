------------------------------- MODULE MCShim -------------------------------
(***************************************************************************)
(* Instances of the shim for TLC. The protocol addresses are those that      *)
(* Names makes of strings: the two names of this node, one that begins like  *)
(* the first, and the first as a request pads it.                           *)
(***************************************************************************)
EXTENDS Shim, Names

Registered(s) == pxDupGPA(pxNameToGPA(xNameAssignFromString(s)))

Bytes(pa) ==
    CASE pa = "app"    -> <<"a", "/", "b", "/", "/">>
      [] pa = "padded" -> <<"a", "/", "b", "/", "/", NUL, NUL>>
      [] pa = "daf"    -> <<"a", "/", "/", "b", "/">>
      [] pa = "other"  -> <<"a", "/", "b", "/", "/", "b">>

ASSUME /\ Bytes("app") = Registered(<<"a", "/", "b", "/">>)
       /\ Bytes("padded") = xGPAGrow(Bytes("app"), Len(Bytes("other")) + 1)
       /\ Bytes("daf") = Registered(<<"a", "/", "/", "b">>)
       /\ Bytes("other") = Registered(<<"a", "/", "b", "/", "/", "b">>)

(* The comparison and the string of an address, spelt out for these names.   *)
Matches(row, wire) == row = (IF wire = "padded" THEN "app" ELSE wire)
TextOf(pa) == IF pa = "padded" THEN "app" ELSE pa
ASSUME \A v, w \in Names :
         /\ v # "padded" => (Matches(v, w) <=> xGPACmp(Bytes(v), Extracted(Bytes(w))))
         /\ TextOf(v) = TextOf(w) <=> xGPAAddressToString(Bytes(v)) = xGPAAddressToString(Bytes(w))

(* Replies tell of another node. *)
HonestReplies == {<<"other", "m1">>}

(* What Names says of every short string. *)
ASSUME NamesRoundTrip
ASSUME AddressesResolve
=============================================================================
