-------------------------------- MODULE Wire --------------------------------
(***************************************************************************)
(* The other end of a connection, by the MQTT specification and not by the *)
(* code of the broker: the bytes a client writes for a packet, and what it *)
(* makes of the bytes the broker writes.                                   *)
(***************************************************************************)
EXTENDS Packets, SequencesExt
-----------------------------------------------------------------------------
(***************************************************************************)
(* What clients write.                                                     *)
(***************************************************************************)
\* The shortest numeral of n: lowest digit first, Base marks all but the last.
Numeral == [n \in 0..Limit |->
    CHOOSE d \in UNION {[1..k -> 0..Byte - 1] : k \in 1..Digits} :
        /\ \A i \in 1..Len(d) : d[i] >= Base <=> i < Len(d)
        /\ Len(d) > 1 => d[Len(d)] > 0
        /\ Worth(d)[Len(d)] = n]

Two(n)         == <<n \div Byte, n % Byte>>
Field(b)       == Two(Len(b)) \o b
When(flag, b)  == IF flag THEN b ELSE <<>>
Flag(flag, n)  == IF flag THEN n ELSE 0

Frame(type, flags, body) == <<16 * type + flags>> \o Numeral[Len(body)] \o body

ConnectBody(g, id) ==
    Field(ProtocolName)
    \o <<4, Flag(g.user # <<>>, 128) + Flag(g.password # <<>>, 64)
            + Flag(g.topic # <<>>, 4) + Flag(g.clean, 2)>>
    \o Two(g.keepAlive) \o Field(id)
    \o When(g.topic # <<>>, Field(g.topic) \o Field(g.content))
    \o When(g.user # <<>>, Field(g.user)) \o When(g.password # <<>>, Field(g.password))

\* What the parser is to find in it.
Claim(g, id) ==
    [ClientIdentifier |-> id, CleanSession |-> g.clean, KeepAlive |-> g.keepAlive,
     WillMessageTopic |-> g.topic, WillMessageContent |-> g.content,
     UsernamePayload |-> g.user, PasswordPayload |-> g.password]

PublishBody(p, qos, id) == Field(p.topic) \o When(qos > 0, Two(id)) \o p.payload

PublishFrame(p) == Frame(PacketType.PUBLISH, 2 * p.qos + Flag(p.dup, 8), PublishBody(p, p.qos, p.id))

SubscribeBody(filters) ==
    Two(1) \o FlattenSeq([i \in DOMAIN filters |-> Field(filters[i].topic) \o <<filters[i].qos>>])

UnSubscribeBody(filters) ==
    Two(1) \o FlattenSeq([i \in DOMAIN filters |-> Field(filters[i])])
-----------------------------------------------------------------------------
(***************************************************************************)
(* A reader of the broker's bytes.  It knows a length by its numeral, and  *)
(* gives up where the bytes are no packet.                                 *)
(***************************************************************************)
Torn == [type |-> 0, flags |-> 0, body |-> <<>>]

\* s has x from offset p on.
Holds(s, p, x) == p + Len(x) <= Len(s) /\ \A i \in 1..Len(x) : s[p+i] = x[i]

\* The lengths of a packet that may lie at offset p: one at most.
LengthsAt(s, p) ==
    {n \in 0..Limit : /\ p + 1 + Len(Numeral[n]) + n <= Len(s)
                      /\ Holds(s, p + 1, Numeral[n])}

\* A turn of the reader: the packet at offset p, kept if it is of these types.
Keep(packets, packet, types) == IF packet.type \in types THEN Append(packets, packet) ELSE packets

ReadNext(s, before, types) ==
    LET p       == before.ptr
        lengths == LengthsAt(s, p)
        n       == CHOOSE m \in lengths : TRUE
        q       == p + 1 + Len(Numeral[n])
        packet  == [type |-> s[p+1] \div 16, flags |-> s[p+1] % 16, body |-> SubSeq(s, q + 1, q + n)]
    IN  CASE p = Len(s)                   -> before
          [] p # Len(s) /\ lengths = {}   -> Got(Keep(before.value, Torn, types), Len(s))
          [] p # Len(s) /\ lengths # {}   -> Got(Keep(before.value, packet, types), q + n)

PacketsIn(s, types) ==
    LET after[i \in 0..Len(s)] == IF i = 0 THEN Got(<<>>, 0) ELSE ReadNext(s, after[i-1], types)
    IN  after[Len(s)].value
=============================================================================
