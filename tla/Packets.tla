------------------------------- MODULE Packets -------------------------------
(***************************************************************************)
(* internal/mqtt and the parsers and builders of internal/packet: what the *)
(* broker makes of the bytes of a connection, and which bytes it writes.   *)
(*                                                                         *)
(* A byte is a number.  Base, Digits and Byte are 128, 4 and 256 in the    *)
(* code; small values bring the limits within reach.  The first byte of a  *)
(* packet and the flags of CONNECT keep their bits.  A parser reads the    *)
(* body of a packet from an offset, CurrentPtr, and yields an outcome: a   *)
(* value with the next offset, an error, or the panic of the Go runtime    *)
(* for a slice that is out of range.                                       *)
(***************************************************************************)
EXTENDS Naturals, Sequences, FiniteSetsExt

CONSTANTS
    Base,          \* values of a digit of the remaining length
    Digits,        \* digits of the remaining length at most
    Byte,          \* values of a byte of a 16-bit number
    ProtocolName   \* the bytes of "MQTT"

ASSUME PacketsAssumption ==
    /\ Base \in Nat /\ Base > 2
    /\ Digits \in Nat \ {0}
    /\ Byte = 2 * Base
    /\ ProtocolName \in Seq(Nat) /\ Len(ProtocolName) < Byte * Byte

PacketType ==
    [CONNECT |-> 1, CONNACK |-> 2, PUBLISH |-> 3, PUBACK |-> 4, PUBREC |-> 5, PUBREL |-> 6,
     PUBCOMP |-> 7, SUBSCRIBE |-> 8, SUBACK |-> 9, UNSUBSCRIBE |-> 10, UNSUBACK |-> 11,
     PINGREQ |-> 12, PINGRESP |-> 13, DISCONNECT |-> 14]

ConnectRespType ==
    [Accepted |-> 0, UnacceptableProtocol |-> 1, IdentifierRejected |-> 2,
     ServerUnavailable |-> 3]

SubscribeState == [SuccessQos0 |-> 0, Failure |-> 128]

Bit(n, i) == (n \div 2^i) % 2 = 1
Bits(n, i) == (n \div 2^i) % 4       \* the two-bit field from bit i

UInt16ToByte(n) == <<(n \div Byte) % Byte, n % Byte>>
Uint16(b)       == Byte * b[1] + b[2]
-----------------------------------------------------------------------------
(***************************************************************************)
(* The remaining length.                                                   *)
(***************************************************************************)
\* Base to the power of k, the weight of digit k+1; what is within the limit has
\* a remaining length.
Power[k \in 0..Digits] == IF k = 0 THEN 1 ELSE Base * Power[k-1]
Limit == Power[Digits] - 1

\* What the first digits of s are worth, marked or not.
Worth(s) ==
    LET value[k \in 0..Min({Digits, Len(s)})] ==
            IF k = 0 THEN 0 ELSE value[k-1] + (s[k] % Base) * Power[k-1]
    IN  value

\* Mutant: the last digit that fits carries no mark that more would follow.
EncodeUnmarked(x) ==
    [i \in 1..Cardinality({k \in 0..Digits - 1 : x \div Power[k] > 0}) |->
        (x \div Power[i-1]) % Base]

\* The loop ends at 0 or after Digits digits, and writes no digit for 0.
EncodeRemainingLength(x) ==
    [i \in 1..Cardinality({k \in 0..Digits - 1 : x \div Power[k] > 0}) |->
        ((x \div Power[i-1]) % Base) + (IF x \div Power[i] > 0 THEN Base ELSE 0)]

Waiting   == [is |-> "waiting"]
Error     == [is |-> "error", resp |-> <<>>]
Panic     == [is |-> "panic"]
Got(v, p) == [is |-> "ok", value |-> v, ptr |-> p]
Fine(r)   == r.is = "ok"

More(b) == Bit(b \div Base, 0)

DecodeRemainingLength(s) ==
    LET last == {k \in 1..Min({Digits, Len(s)}) : ~More(s[k])}
        n    == Min(last)
    IN  CASE last # {} -> Got(Worth(s)[n], n)
          [] last = {} /\ Len(s) >= Digits -> Error
          [] last = {} /\ Len(s) < Digits -> Waiting

\* Mutant: only PUBLISH may carry flags.
FlagsOfPublish(type) == IF type = PacketType.PUBLISH THEN 0..15 ELSE {0}

\* The flags a type may carry; types outside the table carry none.
allowedFlags(type) ==
    CASE type = PacketType.PUBLISH -> 0..15
      [] type \in {PacketType.PUBREL, PacketType.SUBSCRIBE, PacketType.UNSUBSCRIBE} -> {0, 2}
      [] OTHER -> {0}

ValidateFlags(type, flags) == flags \in allowedFlags(type)

(***************************************************************************)
(* ReadPacket on the bytes that have come: io.ReadFull waits for the rest. *)
(***************************************************************************)
Packet(s, start, end) ==
    IF ValidateFlags(s[1] \div 16, s[1] % 16)
    THEN Got([type |-> s[1] \div 16, flags |-> s[1] % 16,
              body |-> SubSeq(s, start + 1, end)], end)
    ELSE Error

ReadPacket(s) ==
    IF s = <<>> THEN Waiting
    ELSE LET length == DecodeRemainingLength(Tail(s)) IN
         IF ~Fine(length) THEN length
         ELSE LET start == 1 + length.ptr IN
              IF Len(s) < start + length.value THEN Waiting
              ELSE Packet(s, start, start + length.value)
-----------------------------------------------------------------------------
(***************************************************************************)
(* Fields of a body, from offset p.                                        *)
(***************************************************************************)
Slice(b, lo, hi) == IF hi <= Len(b) THEN Got(SubSeq(b, lo + 1, hi), hi) ELSE Panic

\* What follows an outcome that is fine.
Then(r, Next(_)) == IF Fine(r) THEN Next(r.ptr) ELSE r

readPacketByte(b, p) == IF p >= Len(b) THEN Error ELSE Got(b[p+1], p + 1)

readPacketBytes(b, p, n) ==
    IF n <= 0 \/ p >= Len(b) \/ p + n > Len(b) THEN Error ELSE Slice(b, p, p + n)

readPacketResumeByte(b, p) == readPacketBytes(b, p, Len(b) - p)

readPacketPayload(b, p) ==
    IF p + 1 >= Len(b) THEN Error
    ELSE Then(Slice(b, p, p + 2), LAMBDA q :
              LET end == q + Uint16(SubSeq(b, p + 1, q)) IN
              IF end > Len(b) THEN Error ELSE Slice(b, q, end))

\* A field that is there if a flag is set.
Optional(flag, b, p) == IF flag THEN readPacketPayload(b, p) ELSE Got(<<>>, p)
-----------------------------------------------------------------------------
(***************************************************************************)
(* CONNECT.  Some errors bring a CONNACK with them.                        *)
(***************************************************************************)
NewConnectAckPacket(sessionStatus, code) ==
    <<16 * PacketType.CONNACK, 2,
      IF code = ConnectRespType.Accepted /\ sessionStatus THEN 1 ELSE 0, code>>

Refused(code) == [is |-> "error", resp |-> NewConnectAckPacket(FALSE, code)]

\* Mutant: the bits of user name and password are exchanged.
FlagsExchanged(f) ==
    [UsernameFlag |-> Bit(f, 6), PasswordFlag |-> Bit(f, 7), RemainFlag |-> Bit(f, 5),
     QoSLevel |-> Bits(f, 3), WillMessageFlag |-> Bit(f, 2), CleanSession |-> Bit(f, 1)]

ConnectPacketFlag(f) ==
    [UsernameFlag |-> Bit(f, 7), PasswordFlag |-> Bit(f, 6), RemainFlag |-> Bit(f, 5),
     QoSLevel |-> Bits(f, 3), WillMessageFlag |-> Bit(f, 2), CleanSession |-> Bit(f, 1)]

\* The fields in their order, each after the outcome of the one before.
ConnectVersion(b, name) ==
    Then(name, LAMBDA p : IF name.value # ProtocolName THEN Error ELSE readPacketByte(b, p))

ConnectFlags(b, version) ==
    Then(version, LAMBDA p :
         IF version.value # 4 THEN Refused(ConnectRespType.UnacceptableProtocol)
         ELSE readPacketByte(b, p))

ConnectKeepAlive(b, flags, flag) ==
    Then(flags, LAMBDA p :
         IF ~flag.WillMessageFlag /\ (flag.RemainFlag \/ flag.QoSLevel # 0) THEN Error
         ELSE readPacketBytes(b, p, 2))

ConnectIdentifier(b, alive) == Then(alive, LAMBDA p : readPacketPayload(b, p))

ConnectTopic(b, id, flag) ==
    Then(id, LAMBDA p :
         IF id.value = <<>> THEN Refused(ConnectRespType.IdentifierRejected)
         ELSE Optional(flag.WillMessageFlag, b, p))

ConnectField(b, before, there) == Then(before, LAMBDA p : Optional(there, b, p))

ParseConnectPacket(b) ==
    LET name    == readPacketPayload(b, 0)
        version == ConnectVersion(b, name)
        flags   == ConnectFlags(b, version)
        flag    == ConnectPacketFlag(flags.value)
        alive   == ConnectKeepAlive(b, flags, flag)
        id      == ConnectIdentifier(b, alive)
        topic   == ConnectTopic(b, id, flag)
        content == ConnectField(b, topic, flag.WillMessageFlag)
        user    == ConnectField(b, content, flag.UsernameFlag)
        pass    == ConnectField(b, user, flag.PasswordFlag)
    IN  Then(pass, LAMBDA p :
             Got([ClientIdentifier |-> id.value, CleanSession |-> flag.CleanSession,
                  KeepAlive |-> Uint16(alive.value), WillMessageTopic |-> topic.value,
                  WillMessageContent |-> content.value, UsernamePayload |-> user.value,
                  PasswordPayload |-> pass.value], p))
-----------------------------------------------------------------------------
(***************************************************************************)
(* PUBLISH.  A payload of length 0 is nil.                                 *)
(***************************************************************************)
ParsePublishPacket(flags, b) ==
    LET qos   == Bits(flags, 1)
        topic == readPacketPayload(b, 0)
        id    == Then(topic, LAMBDA p : IF qos > 0 THEN readPacketBytes(b, p, 2)
                                        ELSE Got(<<0, 0>>, p))
        data  == Then(id, LAMBDA p : IF p < Len(b) THEN readPacketResumeByte(b, p)
                                     ELSE Got(<<>>, p))
    IN  IF (qos = 0 /\ Bit(flags, 3)) \/ qos = 3 THEN Error
        ELSE Then(data, LAMBDA p :
                  Got([qos |-> qos, topic |-> topic.value, id |-> Uint16(id.value),
                       payload |-> data.value], p))

NewPublishPacket(qos, topic, id, payload) ==
    LET body == UInt16ToByte(Len(topic)) \o topic
                \o (IF qos > 0 THEN UInt16ToByte(id) ELSE <<>>) \o payload
    IN  <<16 * PacketType.PUBLISH + 2 * qos>> \o EncodeRemainingLength(Len(body)) \o body

\* PUBACK and PUBREC, and with a state SUBACK and UNSUBACK.
Ack(type, id, state) ==
    LET body == UInt16ToByte(id) \o state
    IN  <<16 * type>> \o EncodeRemainingLength(Len(body)) \o body

NewPubAckPacket(id) == Ack(PacketType.PUBACK, id, <<>>)
NewPubRecPacket(id) == Ack(PacketType.PUBREC, id, <<>>)
-----------------------------------------------------------------------------
(***************************************************************************)
(* SUBSCRIBE and UNSUBSCRIBE: an identifier, and filters up to the end.    *)
(***************************************************************************)
\* Mutants: the low bit of the byte; any QoS but 0 taken for 2.
GrantedLowBit(b) == b % 2
GrantedAny(b) == IF b > 0 THEN 2 ELSE 0

\* qos & 0x02
GrantedQoS(b) == 2 * ((b \div 2) % 2)

\* A turn of the loop over the entries, each read by Entry, until the end.
Turn(b, before, Entry(_)) ==
    Then(before, LAMBDA p :
         IF p >= Len(b) THEN before
         ELSE LET e == Entry(p) IN
              Then(e, LAMBDA q : Got(Append(before.value, e.value), q)))

Entries(b, Entry(_)) ==
    LET id == readPacketBytes(b, 0, 2)
        after[i \in 0..Len(b)] == IF i = 0 THEN Then(id, LAMBDA p : Got(<<>>, p))
                                  ELSE Turn(b, after[i-1], Entry)
        all == after[Len(b)]
    IN  Then(all, LAMBDA p : Got([id |-> Uint16(id.value), subscriptions |-> all.value], p))

SubscribeEntry(b, p) ==
    LET filter == readPacketPayload(b, p)
        qos    == Then(filter, LAMBDA q : readPacketByte(b, q))
    IN  Then(qos, LAMBDA q : Got([topic |-> filter.value, qos |-> GrantedQoS(qos.value)], q))

ParseSubscribePacket(b)   == Entries(b, LAMBDA p : SubscribeEntry(b, p))
ParseUnSubscribePacket(b) == Entries(b, LAMBDA p : readPacketPayload(b, p))

NewSubAckPacket(id, state)   == Ack(PacketType.SUBACK, id, <<state>>)
NewUnSubAckPacket(id, state) == Ack(PacketType.UNSUBACK, id, <<state>>)
NewPingRespPacket            == <<16 * PacketType.PINGRESP, 0>>
=============================================================================
