---------------------------- MODULE AduCodecProofs ----------------------------
(***************************************************************************)
(* Proofs about AduCodec, for messages of every length and whatever lies   *)
(* behind the strings the daemon reads.                                    *)
(***************************************************************************)
EXTENDS AduCodec, TLAPS

(* Base64: a text of 4k, 4k + 2 or 4k + 3 characters, padded to full groups. *)
LEMMA Base64Shape ==
    ASSUME NEW n \in Nat \ {0}
    PROVE  /\ Chars(n) \in Nat \ {0} /\ Chars(n) % 4 # 1
           /\ Pads(n) \in 0 .. 2
<1>1. PICK k \in Nat, r \in 0 .. 2 : n = 3 * k + r
  <2>1. n = 3 * (n \div 3) + (n % 3) /\ n \div 3 \in Nat /\ n % 3 \in 0 .. 2
    OBVIOUS
  <2>2. QED
    BY <2>1
<1>2. Chars(n) = 4 * k + (IF r = 0 THEN 0 ELSE r + 1)
  BY <1>1 DEF Chars
<1>3. Pads(n) \in 0 .. 2
  BY DEF Pads
<1>4. QED
  BY <1>1, <1>2, <1>3

(* As long as the core is the text that was sent, it is found and decoded,   *)
(* behind a length byte or not.                                              *)
LEMMA WholeCoreDecodes ==
    ASSUME NEW n \in Nat \ {0}, NEW w \in Text,
           w.chars = Chars(n), w.pads > 0 \/ w.stray = 0
    PROVE  Decode(w, n) = {"original"}
<1>1. CoreLength(w) = Chars(n)
  BY DEF CoreLength, Text
<1>2. QED
  BY <1>1, Base64Shape DEF Decode, Offsets

(* The texts that leave the sender's side: the ADU, or the ADU with a length *)
(* byte that cost it its last character.                                     *)
Sent ==
    \/ route = {} /\ wire = ADU(size)
    \/ route = {"send"} /\ \E len \in Nat : wire = Framed(ADU(size), len)

Appended ==
    \E w \in Text, stray \in 0 .. MaxStray, over \in 0 .. MaxStray :
        /\ wire = [w EXCEPT !.stray = stray, !.tail = over + 1]
        /\ \/ route = {"receive"} /\ w = ADU(size)
           \/ route = {"send", "receive"} /\ \E len \in Nat : w = Framed(ADU(size), len)

CodecInv ==
    /\ place = "sender" => route = {} /\ wire = ADU(size)
    /\ place = "datagram" => route = {"udp"} /\ wire = ADU(size)
    /\ place \in {"bundle", "stream"} => Sent
    /\ place = "bp_socket" => Appended
    /\ PadsPayForLegs

----------------------------------------------------------------------------
LEMMA ADUType == ASSUME NEW n \in Nat \ {0} PROVE ADU(n) \in Text
BY Base64Shape DEF ADU, Text

LEMMA FramedType ==
    ASSUME NEW n \in Nat \ {0}, NEW len
    PROVE  /\ Framed(ADU(n), len) \in Text
           /\ Framed(ADU(n), len).stray = 0 /\ Framed(ADU(n), len).tail = 0
           /\ Framed(ADU(n), len).prefix # "none"
           /\ Pads(n) > 0 => /\ Framed(ADU(n), len).chars = Chars(n)
                             /\ Framed(ADU(n), len).pads = Pads(n) - 1
<1>1. /\ Chars(n) \in Nat \ {0} /\ Pads(n) \in 0 .. 2
      /\ LengthByte(len) \in {"text", "other"}
  BY Base64Shape DEF LengthByte
<1>2. Framed(ADU(n), len) =
        [prefix |-> LengthByte(len),
         chars |-> IF Pads(n) = 0 THEN Chars(n) - 1 ELSE Chars(n),
         pads |-> IF Pads(n) = 0 THEN 0 ELSE Pads(n) - 1,
         stray |-> 0, tail |-> 0]
  BY DEF Framed, ADU
<1>3. QED
  BY <1>1, <1>2 DEF Text

(* Appending the bytes of the heap keeps a text one.                         *)
LEMMA AppendedType ==
    ASSUME NEW w \in Text, NEW stray \in Nat, NEW tail \in Nat
    PROVE  LET t == [w EXCEPT !.stray = stray, !.tail = tail]
           IN  /\ t \in Text /\ t.prefix = w.prefix /\ t.chars = w.chars
               /\ t.pads = w.pads /\ t.stray = stray /\ t.tail = tail
BY DEF Text

(* The text of a place is one of the few that its way can have made of the   *)
(* ADU.                                                                      *)
LEMMA CodecInvariant == Spec => [](TypeOK /\ CodecInv)
<1>1. Init => TypeOK /\ CodecInv
  <2>1. SUFFICES ASSUME Init PROVE TypeOK /\ CodecInv
    OBVIOUS
  <2>2. wire \in Text
    BY <2>1, ADUType, SizesAssumption DEF Init
  <2>3. QED
    BY <2>1, <2>2 DEF Init, TypeOK, Places, Outcomes, CodecInv, PadsPayForLegs
<1>2. TypeOK /\ CodecInv /\ [Next]_vars => TypeOK' /\ CodecInv'
  <2>1. SUFFICES ASSUME TypeOK, CodecInv, [Next]_vars PROVE TypeOK' /\ CodecInv'
    OBVIOUS
  <2>2. size \in Nat \ {0} /\ wire \in Text /\ ADU(size) \in Text
    BY <2>1, SizesAssumption, ADUType DEF TypeOK
  <2>3. ASSUME NEW n \in Sizes, SerializeMessage(n) PROVE TypeOK' /\ CodecInv'
    <3>1. wire' \in Text
      BY <2>3, ADUType, SizesAssumption DEF SerializeMessage
    <3>2. QED
      BY <2>3, <3>1 DEF SerializeMessage, TypeOK, Places, Outcomes, CodecInv, PadsPayForLegs
  <2>4. CASE SendDirect
    BY <2>1, <2>4 DEF SendDirect, TypeOK, Places, CodecInv, PadsPayForLegs, Sent
  <2>5. CASE BridgeOut
    BY <2>1, <2>5 DEF BridgeOut, TypeOK, Places, CodecInv, PadsPayForLegs, Sent
  <2>6. CASE BridgeIn
    BY <2>1, <2>6 DEF BridgeIn, TypeOK, Places, CodecInv, PadsPayForLegs, Sent
  <2>7. ASSUME NEW over \in 0 .. MaxStray, SendLeg(over) PROVE TypeOK' /\ CodecInv'
    <3>1. /\ place = "sender" /\ wire = ADU(size) /\ size' = size /\ route' = {"send"}
      BY <2>1, <2>7 DEF SendLeg, CodecInv
    <3>2. CASE Length(wire) + over > SdrStringMax
      <4>1. place' = "done" /\ outcome' = "lost" /\ wire' = wire
        BY <2>7, <3>2 DEF SendLeg
      <4>2. ~ Fits'
        <5>1. Length(ADU(size)) \in Nat
          BY <2>2 DEF Length, Text
        <5>2. Length(ADU(size)) + MaxStray > 255
          BY <3>1, <3>2, <5>1, StrayAssumption DEF SdrStringMax
        <5>3. QED
          BY <3>1, <5>1, <5>2, StrayAssumption DEF Fits, SdrStringMax
      <4>3. QED
        BY <2>1, <2>2, <3>1, <4>1, <4>2
           DEF TypeOK, Places, Outcomes, CodecInv, PadsPayForLegs
    <3>3. CASE ~ (Length(wire) + over > SdrStringMax)
      <4>1. /\ place' = "bundle" /\ outcome' = outcome
            /\ wire' = Framed(ADU(size), Length(wire) + over)
        BY <2>7, <3>1, <3>3 DEF SendLeg
      <4>2. wire' \in Text
        BY <2>2, <4>1, FramedType
      <4>3. Sent'
        <5>1. Length(wire) + over \in Nat
          BY <2>2, StrayAssumption DEF Length, Text
        <5>2. QED
          BY <3>1, <4>1, <5>1 DEF Sent
      <4>4. QED
        BY <2>1, <3>1, <4>1, <4>2, <4>3 DEF TypeOK, Places, CodecInv, PadsPayForLegs
    <3>4. QED
      BY <3>2, <3>3
  <2>8. ASSUME NEW stray \in 0 .. MaxStray, NEW over \in 0 .. MaxStray, ReceiveLeg(stray, over)
        PROVE  TypeOK' /\ CodecInv'
    <3>1. /\ place = "bundle" /\ place' = "bp_socket" /\ size' = size /\ outcome' = outcome
          /\ route' = route \cup {"receive"}
          /\ wire' = [wire EXCEPT !.stray = stray, !.tail = over + 1]
      BY <2>8 DEF ReceiveLeg
    <3>2. wire' \in Text
      <4>1. stray \in Nat /\ over + 1 \in Nat
        BY StrayAssumption
      <4>2. QED
        BY <2>2, <3>1, <4>1, AppendedType
    <3>3. Sent
      BY <2>1, <3>1 DEF CodecInv
    <3>4. Appended'
      BY <2>2, <3>1, <3>3 DEF Appended, Sent
    <3>5. QED
      BY <2>1, <3>1, <3>2, <3>4 DEF TypeOK, Places, CodecInv, PadsPayForLegs
  <2>9. CASE Receive
    <3>1. PadsPayForLegs'
      <4>1. SUFFICES ASSUME Fits, Pads(size) >= Legs PROVE outcome' = "original"
        BY <2>9 DEF PadsPayForLegs, Receive, Fits, Legs
      <4>2. Decode(ADU(size), size) = {"original"}
        BY <2>2, WholeCoreDecodes DEF ADU
      <4>3. CASE place = "datagram"
        <5>1. wire = ADU(size) /\ Length(wire) <= BufferSize
          BY <2>1, <4>1, <4>3 DEF CodecInv, Fits
        <5>2. Truncated(wire) = ADU(size)
          BY <5>1 DEF Truncated
        <5>3. QED
          BY <2>9, <4>2, <4>3, <5>2 DEF Receive
      <4>4. CASE place = "stream"
        <5>1. Decode(wire, size) = {"original"}
          <6>1. CASE wire = ADU(size)
            BY <4>2, <6>1
          <6>2. ASSUME NEW len \in Nat, route = {"send"}, wire = Framed(ADU(size), len)
                PROVE  Decode(wire, size) = {"original"}
            <7>1. Pads(size) > 0
              BY <2>2, <4>1, <6>2, Base64Shape DEF Legs
            <7>2. QED
              BY <2>2, <6>2, <7>1, FramedType, WholeCoreDecodes
          <6>3. QED
            BY <2>1, <4>4, <6>1, <6>2 DEF CodecInv, Sent
        <5>2. QED
          BY <2>9, <4>4, <5>1 DEF Receive
      <4>5. CASE place = "bp_socket"
        <5>1. PICK w \in Text, stray \in 0 .. MaxStray, over \in 0 .. MaxStray :
                 /\ wire = [w EXCEPT !.stray = stray, !.tail = over + 1]
                 /\ \/ route = {"receive"} /\ w = ADU(size)
                    \/ route = {"send", "receive"} /\ \E len \in Nat : w = Framed(ADU(size), len)
          BY <2>1, <4>5 DEF CodecInv, Appended
        <5>2. /\ wire.prefix = w.prefix /\ wire.chars = w.chars
              /\ wire.pads = w.pads /\ wire.tail = over + 1
          BY <5>1 DEF Text
        <5>3. /\ w.chars = Chars(size) /\ w.pads > 0
              /\ w.chars + w.pads <= Chars(size) + Pads(size)
          <6>1. CASE route = {"receive"} /\ w = ADU(size)
            BY <2>2, <4>1, <6>1, Base64Shape DEF Legs, ADU
          <6>2. ASSUME NEW len \in Nat, route = {"send", "receive"}, w = Framed(ADU(size), len)
                PROVE  /\ w.chars = Chars(size) /\ w.pads > 0
                       /\ w.chars + w.pads <= Chars(size) + Pads(size)
            <7>1. Pads(size) >= 2 /\ Pads(size) \in Nat /\ Chars(size) \in Nat
              BY <2>2, <4>1, <6>2, Base64Shape DEF Legs
            <7>2. w.chars = Chars(size) /\ w.pads = Pads(size) - 1
              BY <2>2, <6>2, <7>1, FramedType
            <7>3. QED
              BY <7>1, <7>2
          <6>3. QED
            BY <5>1, <6>1, <6>2
        <5>4. Length(wire) \in Nat /\ Length(wire) <= BufferSize
          <6>1. Chars(size) + Pads(size) + MaxStray + 2 <= BufferSize
            <7>1. Length(ADU(size)) = Chars(size) + Pads(size)
              BY <2>2, Base64Shape DEF Length, ADU
            <7>2. Length(ADU(size)) + MaxStray + 2 <= BufferSize
              BY <4>1, <5>1 DEF Fits
            <7>3. QED
              BY <7>1, <7>2
          <6>2. /\ w.chars \in Nat /\ w.pads \in Nat /\ over <= MaxStray /\ over \in Nat
                /\ Chars(size) \in Nat /\ Pads(size) \in Nat
            BY <2>2, <5>1, StrayAssumption, Base64Shape DEF Text
          <6>3. QED
            BY <5>2, <5>3, <6>1, <6>2, StrayAssumption DEF Length, BufferSize
        <5>5. Decode(wire, size) = {"original"}
          BY <2>2, <5>2, <5>3, WholeCoreDecodes
        <5>6. outcome' \in Decode(wire, size)
          BY <2>9, <4>5, <5>4 DEF Receive, BufferSize
        <5>7. QED
          BY <5>5, <5>6
      <4>6. QED
        BY <2>9, <4>3, <4>4, <4>5 DEF Receive
    <3>2. TypeOK'
      BY <2>1, <2>9 DEF Receive, TypeOK, Places, Outcomes, Decode
    <3>3. QED
      BY <2>9, <3>1, <3>2 DEF Receive, CodecInv
  <2>10. CASE UNCHANGED vars
    BY <2>1, <2>10 DEF vars, TypeOK, CodecInv, PadsPayForLegs, Fits, Legs, Sent, Appended
  <2>11. QED
    BY <2>1, <2>3, <2>4, <2>5, <2>6, <2>7, <2>8, <2>9, <2>10 DEF Next
<1>3. QED
  BY <1>1, <1>2, PTL DEF Spec

(* Every variable of every reachable state holds a value of its type.        *)
THEOREM TypeCorrect == Spec => []TypeOK
BY CodecInvariant, PTL

(* One pad per bp-socket leg is enough for a message of any length within    *)
(* the limits of its way, whatever lies behind the strings in the heap.      *)
THEOREM OnePadPerLeg == Spec => []PadsPayForLegs
<1>1. CodecInv => PadsPayForLegs
  BY DEF CodecInv
<1>2. QED
  BY <1>1, CodecInvariant, PTL

----------------------------------------------------------------------------
(* How far the guarantee reaches *)

(* A text that lost characters and was given none is not decoded, and one     *)
(* that was given none is not decoded to anything else.                       *)
LEMMA NothingAddedNothingAltered ==
    ASSUME NEW n \in Nat \ {0}, NEW w \in Text,
           w.chars <= Chars(n), w.pads > 0 \/ w.stray = 0
    PROVE  /\ Decode(w, n) \subseteq {"rejected", "original"}
           /\ w.chars < Chars(n) => Decode(w, n) = {"rejected"}
<1>1. CoreLength(w) = w.chars /\ w.chars \in Nat /\ Chars(n) \in Nat
  BY Base64Shape DEF CoreLength, Text
<1>2. QED
  BY <1>1 DEF Decode, Offsets

LEMMA FramedChars ==
    ASSUME NEW n \in Nat \ {0}, NEW len
    PROVE  /\ Framed(ADU(n), len).chars <= Chars(n)
           /\ Pads(n) = 0 => Framed(ADU(n), len).chars < Chars(n)
           /\ Framed(ADU(n), len).pads = 0 => Pads(n) < 2
<1>1. Chars(n) \in Nat \ {0} /\ Pads(n) \in 0 .. 2
  BY Base64Shape
<1>2. /\ Framed(ADU(n), len).chars = IF Pads(n) = 0 THEN Chars(n) - 1 ELSE Chars(n)
      /\ Framed(ADU(n), len).pads = IF Pads(n) = 0 THEN 0 ELSE Pads(n) - 1
  BY DEF Framed, ADU
<1>3. QED
  BY <1>1, <1>2

(* Truncating a datagram adds nothing to it. *)
LEMMA TruncatedADU ==
    ASSUME NEW n \in Nat \ {0}
    PROVE  /\ Truncated(ADU(n)) \in Text /\ Truncated(ADU(n)).chars <= Chars(n)
           /\ Truncated(ADU(n)).stray = 0
<1>1. Chars(n) \in Nat \ {0} /\ Pads(n) \in 0 .. 2
  BY Base64Shape
<1>2. CASE Length(ADU(n)) <= BufferSize
  BY <1>1, <1>2, ADUType DEF Truncated, ADU
<1>3. CASE ~ (Length(ADU(n)) <= BufferSize)
  <2> DEFINE c == IF Chars(n) <= BufferSize THEN Chars(n) ELSE BufferSize
             q == IF Chars(n) <= BufferSize THEN BufferSize - Chars(n) ELSE 0
  <2>1. Truncated(ADU(n)) = [prefix |-> "none", chars |-> c, pads |-> q, stray |-> 0, tail |-> 0]
    BY <1>3 DEF Truncated, ADU
  <2>2. Length(ADU(n)) = Chars(n) + Pads(n)
    BY <1>1 DEF Length, ADU
  <2>3. c \in Nat /\ c <= Chars(n) /\ q \in 0 .. 2
    BY <1>1, <1>3, <2>2 DEF BufferSize
  <2> HIDE DEF c, q
  <2>4. QED
    BY <2>1, <2>3 DEF Text
<1>4. QED
  BY <1>2, <1>3

(* The outcome is open until the ADU was read or lost, and stays with the     *)
(* text that was read.                                                        *)
Extent ==
    /\ place # "done" => outcome = "pending"
    /\ AlteredByTheHeap
    /\ SendLegEatsPadless

(* What a receive task makes of the texts of a place.                         *)
LEMMA DecodedExtent ==
    ASSUME TypeOK, CodecInv, Receive
    PROVE  /\ outcome' = "altered" =>
                 "receive" \in route /\ Pads(size) < Legs /\ wire.stray > 0
           /\ "send" \in route /\ Pads(size) = 0 /\ wire.stray = 0 =>
                 outcome' \in {"rejected", "lost"}
<1>1. size \in Nat \ {0} /\ wire \in Text /\ ADU(size) \in Text
  BY SizesAssumption, ADUType DEF TypeOK
<1>2. CASE place = "datagram"
  <2>1. route = {"udp"} /\ outcome' \in Decode(Truncated(ADU(size)), size)
    BY <1>2 DEF Receive, CodecInv
  <2>2. Decode(Truncated(ADU(size)), size) \subseteq {"rejected", "original"}
    BY <1>1, TruncatedADU, NothingAddedNothingAltered
  <2>3. QED
    BY <2>1, <2>2
<1>3. CASE place = "stream"
  <2>1. Sent /\ outcome' \in Decode(wire, size)
    BY <1>3 DEF Receive, CodecInv
  <2>2. CASE route = {} /\ wire = ADU(size)
    <3>1. Decode(wire, size) = {"original"}
      BY <1>1, <2>2, WholeCoreDecodes DEF ADU
    <3>2. QED
      BY <2>1, <2>2, <3>1
  <2>3. ASSUME NEW len \in Nat, route = {"send"}, wire = Framed(ADU(size), len)
        PROVE  /\ outcome' # "altered"
               /\ Pads(size) = 0 => outcome' = "rejected"
    <3>1. wire.chars <= Chars(size) /\ wire.stray = 0 /\ (Pads(size) = 0 => wire.chars < Chars(size))
      BY <1>1, <2>3, FramedChars, FramedType
    <3>2. /\ Decode(wire, size) \subseteq {"rejected", "original"}
          /\ wire.chars < Chars(size) => Decode(wire, size) = {"rejected"}
      BY <1>1, <3>1, NothingAddedNothingAltered
    <3>3. QED
      BY <2>1, <3>1, <3>2
  <2>4. QED
    BY <2>1, <2>2, <2>3 DEF Sent
<1>4. CASE place = "bp_socket"
  <2>1. outcome' = "lost" \/ outcome' \in Decode(wire, size)
    BY <1>4 DEF Receive
  <2>2. PICK w \in Text, stray \in 0 .. MaxStray, over \in 0 .. MaxStray :
           /\ wire = [w EXCEPT !.stray = stray, !.tail = over + 1]
           /\ \/ route = {"receive"} /\ w = ADU(size)
              \/ route = {"send", "receive"} /\ \E len \in Nat : w = Framed(ADU(size), len)
    BY <1>4 DEF CodecInv, Appended
  <2>3. wire.chars = w.chars /\ wire.pads = w.pads /\ wire.stray \in Nat /\ wire.pads \in Nat
    BY <1>1, <2>2 DEF Text
  <2>4. /\ w.chars <= Chars(size) /\ "receive" \in route
        /\ w.pads = 0 => Pads(size) < Legs
        /\ "send" \in route /\ Pads(size) = 0 => w.chars < Chars(size)
    <3>1. CASE route = {"receive"} /\ w = ADU(size)
      <4>1. w.chars = Chars(size) /\ w.pads = Pads(size) /\ Legs = 1
        BY <3>1 DEF ADU, Legs
      <4>2. Chars(size) \in Nat
        BY <1>1, Base64Shape
      <4>3. QED
        BY <3>1, <4>1, <4>2
    <3>2. ASSUME NEW len \in Nat, route = {"send", "receive"}, w = Framed(ADU(size), len)
          PROVE  /\ w.chars <= Chars(size) /\ "receive" \in route
                 /\ w.pads = 0 => Pads(size) < Legs
                 /\ Pads(size) = 0 => w.chars < Chars(size)
      <4>1. Legs = 2
        BY <3>2 DEF Legs
      <4>2. QED
        BY <1>1, <3>2, <4>1, FramedChars
    <3>3. QED
      BY <2>2, <3>1, <3>2
  <2>5. wire.pads > 0 \/ wire.stray = 0 =>
          /\ Decode(wire, size) \subseteq {"rejected", "original"}
          /\ wire.chars < Chars(size) => Decode(wire, size) = {"rejected"}
    BY <1>1, <2>3, <2>4, NothingAddedNothingAltered
  <2>6. QED
    BY <2>1, <2>3, <2>4, <2>5
<1>5. QED
  BY <1>2, <1>3, <1>4 DEF Receive

LEMMA ExtentInvariant == Spec => [](TypeOK /\ CodecInv /\ Extent)
<1>1. Init => Extent
  BY DEF Init, Extent, AlteredByTheHeap, SendLegEatsPadless
<1>2. TypeOK /\ CodecInv /\ Extent /\ [Next]_vars => Extent'
  <2> SUFFICES ASSUME TypeOK, CodecInv, Extent, [Next]_vars PROVE Extent'
    OBVIOUS
  <2> USE DEF Extent, AlteredByTheHeap, SendLegEatsPadless
  <2>1. ASSUME NEW n \in Sizes, SerializeMessage(n) PROVE Extent'
    BY <2>1 DEF SerializeMessage
  <2>2. CASE SendDirect \/ BridgeOut \/ BridgeIn
    BY <2>2 DEF SendDirect, BridgeOut, BridgeIn
  <2>3. ASSUME NEW over \in 0 .. MaxStray, SendLeg(over) PROVE Extent'
    BY <2>3 DEF SendLeg
  <2>4. ASSUME NEW stray \in 0 .. MaxStray, NEW over \in 0 .. MaxStray, ReceiveLeg(stray, over)
        PROVE  Extent'
    BY <2>4 DEF ReceiveLeg
  <2>5. CASE Receive
    <3>1. UNCHANGED <<size, wire, route>> /\ place' = "done" /\ Legs' = Legs
      BY <2>5 DEF Receive, Legs
    <3>2. QED
      BY <2>5, <3>1, DecodedExtent
  <2>6. CASE UNCHANGED vars
    BY <2>6 DEF vars, Legs
  <2>7. QED
    BY <2>1, <2>2, <2>3, <2>4, <2>5, <2>6 DEF Next
<1>3. QED
  BY <1>1, <1>2, CodecInvariant, PTL DEF Spec

(* No message of any length is taken for another one on its way, unless a     *)
(* receive leg appended base64 characters to an ADU with too few pads: not by *)
(* a truncated datagram, a lost pad or a length byte (decode_proto_tolerant). *)
THEOREM OnlyTheHeapAlters == Spec => []AlteredByTheHeap
<1>1. Extent => AlteredByTheHeap
  BY DEF Extent
<1>2. QED
  BY <1>1, ExtentInvariant, PTL

(* A text has no pad exactly when the protobuf fills its last group. *)
LEMMA PadlessSizes == \A n \in Nat : Pads(n) = 0 <=> n % 3 = 0
BY DEF Pads

(* The extent of what SurvivesLegs gets wrong: a message whose protobuf is a  *)
(* multiple of three bytes long does not cross a send leg, whatever its size, *)
(* unless the heap behind a receive leg happens to make up for the character  *)
(* it lost (bp-socket/daemon/ion.c:15).                                       *)
THEOREM PadlessNeverCross == Spec => []SendLegEatsPadless
<1>1. Extent => SendLegEatsPadless
  BY DEF Extent
<1>2. QED
  BY <1>1, ExtentInvariant, PTL
=============================================================================
