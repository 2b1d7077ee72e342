------------------------------- MODULE AduCodec -------------------------------
(***************************************************************************)
(* The way of one message from serialize_message to deserialize_message    *)
(* (src/src/utils/proto.rs), over UDP, TCP, or a bundle that enters and    *)
(* leaves the DTN through a bp-socket leg or through the AAP2 bridge.      *)
(*                                                                         *)
(* The ADU is the base64 text of the protobuf: chars significant           *)
(* characters, then 0 to 2 pads.  The bp-socket legs treat it as a C       *)
(* string.  The send leg puts a length byte before it and, the length      *)
(* being unchanged, loses its last character; the receive leg appends      *)
(* bytes of the heap up to the first NUL.  Only the position of a byte     *)
(* and whether it is a base64 character matter, so a text is a record of   *)
(* counts.                                                                 *)
(***************************************************************************)
EXTENDS Naturals

CONSTANTS
    Sizes,          \* bound: lengths in bytes of the protobuf messages
    MaxStray        \* bound: bytes read beyond the end of a C string

ASSUME SizesAssumption == Sizes \subseteq Nat \ {0}
ASSUME StrayAssumption == MaxStray \in Nat

SdrStringMax == 255     \* ION's longest SDR string
BufferSize == 1024      \* the listener's read buffer

(* prefix: the length byte and whether it happens to be a base64 character; *)
(* stray: the base64 characters that follow the ADU directly; tail: all the *)
(* bytes that follow it.                                                    *)
Text ==
    [prefix : {"none", "text", "other"}, chars : Nat, pads : 0 .. 2,
     stray : Nat, tail : Nat]

Places == {"idle", "sender", "bundle", "bp_socket", "datagram", "stream", "done"}
Outcomes == {"pending", "original", "altered", "rejected", "lost"}

VARIABLES
    size,           \* length of the protobuf of the current message
    place,          \* where its ADU is
    wire,           \* the text there
    route,          \* the lossy parts of its way so far
    outcome

vars == <<size, place, wire, route, outcome>>

----------------------------------------------------------------------------
Chars(n) == (4 * n + 2) \div 3
(* Mutant: a pad for every byte missing to the next group, even to a full one. *)
PadsUpToThree(n) == 3 - (n % 3)

Pads(n) == (3 - (n % 3)) % 3

ADU(n) == [prefix |-> "none", chars |-> Chars(n), pads |-> Pads(n),
           stray |-> 0, tail |-> 0]

Length(w) == (IF w.prefix = "none" THEN 0 ELSE 1) + w.chars + w.pads + w.tail

(* The ASCII codes of the characters that decode_adu_base64 takes in, but   *)
(* for the pad, which ends the core.                                        *)
Base64Codes == {43} \cup 47 .. 57 \cup 65 .. 90 \cup 97 .. 122

LengthByte(len) == IF len \in Base64Codes THEN "text" ELSE "other"

(* sdr_string_create stores the string after its length, and the ZCO is     *)
(* given the length the payload had without that byte.                      *)
Framed(w, len) ==
    [prefix |-> LengthByte(len),
     chars |-> IF w.pads = 0 THEN w.chars - 1 ELSE w.chars,
     pads |-> IF w.pads = 0 THEN 0 ELSE w.pads - 1,
     stray |-> w.stray, tail |-> w.tail]

(* A datagram longer than the buffer loses its end. *)
Truncated(w) ==
    IF Length(w) <= BufferSize THEN w
    ELSE [w EXCEPT !.chars = IF @ <= BufferSize THEN @ ELSE BufferSize,
                   !.pads = IF w.chars <= BufferSize THEN BufferSize - w.chars ELSE 0]

(* The core: the characters up to the first pad or foreign byte.            *)
CoreLength(w) == w.chars + (IF w.pads = 0 THEN w.stray ELSE 0)

DecodedLength(core) == (3 * core) \div 4

(* Mutant: no attempt behind a length byte. *)
FirstOffset == {0}

Offsets == {0, 1}

(* decode_proto_tolerant for a message of n bytes.  The attempt that counts *)
(* is the one that starts behind the length byte, if there is one: a text   *)
(* whose characters are shifted does not parse.  The content is the last    *)
(* field of the message, so one that is cut short or followed by a single   *)
(* byte does not parse either; two foreign bytes may be taken for a field.  *)
Decode(w, n) ==
    LET start == IF w.prefix = "none" THEN 0 ELSE 1
        core == CoreLength(w)
    IN  IF start \notin Offsets \/ core = 0 \/ core % 4 = 1 THEN {"rejected"}
        ELSE IF core < Chars(n) THEN {"rejected"}
        ELSE IF core = Chars(n) /\ w.chars = Chars(n) THEN {"original"}
        ELSE IF DecodedLength(core) = n + 1 THEN {"rejected"}
        ELSE {"rejected", "original", "altered"}

----------------------------------------------------------------------------
Init ==
    /\ size \in Sizes /\ place = "idle" /\ wire = ADU(size)
    /\ route = {} /\ outcome = "pending"

SerializeMessage(n) ==
    /\ place \in {"idle", "done"}
    /\ size' = n /\ place' = "sender" /\ wire' = ADU(n)
    /\ route' = {} /\ outcome' = "pending"

(* An endpoint of type Udp, or Tcp to the peer itself.                      *)
SendDirect ==
    /\ place = "sender"
    /\ \/ place' = "datagram" /\ route' = route \cup {"udp"}
       \/ place' = "stream" /\ UNCHANGED route
    /\ UNCHANGED <<size, wire, outcome>>

(* The bridge reads the TCP stream to its end and sends the bytes as they   *)
(* are, as it does with the bundles it forwards.                            *)
BridgeOut ==
    /\ place = "sender" /\ place' = "bundle"
    /\ UNCHANGED <<size, wire, route, outcome>>

BridgeIn ==
    /\ place = "bundle" /\ place' = "stream"
    /\ UNCHANGED <<size, wire, route, outcome>>

(* bp_sendmsg hands the bytes to the daemon, without a NUL at the end:      *)
(* over bytes behind them count as part of the string.                      *)
SendLeg(over) ==
    LET len == Length(wire) + over
    IN  /\ place = "sender"
        /\ route' = route \cup {"send"}
        /\ IF len > SdrStringMax
           THEN place' = "done" /\ outcome' = "lost" /\ UNCHANGED wire
           ELSE place' = "bundle" /\ wire' = Framed(wire, len) /\ UNCHANGED outcome
        /\ UNCHANGED size

(* bp_recv_once returns the payload without a NUL at the end, and           *)
(* nla_put_string sends what is there up to the first NUL, included.        *)
ReceiveLeg(stray, over) ==
    /\ place = "bundle" /\ stray <= over
    /\ place' = "bp_socket" /\ route' = route \cup {"receive"}
    /\ wire' = [wire EXCEPT !.stray = stray, !.tail = over + 1]
    /\ UNCHANGED <<size, outcome>>

(* A listener reads the ADU and a receive task decodes it.  bp_recvmsg      *)
(* refuses what does not fit the buffer (EMSGSIZE).                         *)
Receive ==
    /\ place \in {"bp_socket", "datagram", "stream"}
    /\ outcome' \in
          IF place = "bp_socket" /\ Length(wire) > BufferSize THEN {"lost"}
          ELSE Decode(IF place = "datagram" THEN Truncated(wire) ELSE wire, size)
    /\ place' = "done"
    /\ UNCHANGED <<size, wire, route>>

Next ==
    \/ \E n \in Sizes : SerializeMessage(n)
    \/ SendDirect \/ BridgeOut \/ BridgeIn \/ Receive
    \/ \E over \in 0 .. MaxStray :
          SendLeg(over) \/ \E stray \in 0 .. MaxStray : ReceiveLeg(stray, over)

Spec == Init /\ [][Next]_vars

----------------------------------------------------------------------------
(* Every variable holds a value of its type. *)
TypeOK ==
    /\ size \in Sizes /\ place \in Places /\ wire \in Text
    /\ route \subseteq {"udp", "send", "receive"} /\ outcome \in Outcomes

(* A message short enough for the limits of its way. *)
Fits ==
    /\ "send" \in route => Length(ADU(size)) + MaxStray <= SdrStringMax
    /\ "udp" \in route => Length(ADU(size)) <= BufferSize
    /\ "receive" \in route => Length(ADU(size)) + MaxStray + 2 <= BufferSize

Legs == (IF "send" \in route THEN 1 ELSE 0) + (IF "receive" \in route THEN 1 ELSE 0)

(* The tolerance of proto.rs:42-44 is worth one pad per leg: an ADU that    *)
(* fits and has at least as many pads as it meets bp-socket legs is decoded *)
(* to the very message that was sent, whatever the heap holds, and whether  *)
(* or not the length byte looks like a part of the text.  On UDP, on TCP    *)
(* and through the bridge no pad is needed.                                 *)
PadsPayForLegs ==
    place = "done" /\ Fits /\ Pads(size) >= Legs => outcome = "original"

(* With fewer pads than legs it is the heap that decides, and only where    *)
(* the receive leg let it: a message is never taken for another one unless  *)
(* base64 characters happen to follow its ADU.                              *)
AlteredByTheHeap ==
    outcome = "altered" =>
        "receive" \in route /\ Pads(size) < Legs /\ wire.stray > 0

(* How far SurvivesLegs is from the truth: without a pad and without such   *)
(* luck no message crosses a send leg, whatever its size.                   *)
SendLegEatsPadless ==
    (place = "done" /\ "send" \in route /\ Pads(size) = 0 /\ wire.stray = 0) =>
        outcome \in {"rejected", "lost"}

(* proto.rs:32-33 has the ADU "survive the C-string handling on the         *)
(* bp-socket legs".  This does not hold: without a pad to lose the send leg *)
(* takes a character of the text.                                           *)
SurvivesLegs ==
    place = "done" /\ Fits => outcome = "original"
=============================================================================
