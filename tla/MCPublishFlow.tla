---------------------------- MODULE MCPublishFlow ----------------------------
EXTENDS PublishFlowProps

Zeros(n) == [i \in 1..n |-> 1]

MCClient == {<<1>>, <<3>>}
MCProtocolName == <<5>>

\* Everything at once, and two halves: a will and a password, a user name.
Full     == [clean |-> TRUE, keepAlive |-> 7, topic |-> <<2>>, content |-> <<4>>,
             user |-> <<1>>, password |-> <<5>>]
Passing  == [Full EXCEPT !.user = <<>>]
Lasting  == [clean |-> FALSE, keepAlive |-> 0, topic |-> <<>>, content |-> <<>>,
             user |-> <<1>>, password |-> <<>>]

MCGreeting == [c \in MCClient |-> IF c = <<1>> THEN Passing ELSE Lasting]

\* Payloads: none, one byte, and as many as the longest packet holds.
Topic == <<2>>
Pub(q, d, i, n) == [qos |-> q, dup |-> d, topic |-> Topic, id |-> i, payload |-> Zeros(n)]

MCPublication ==
    {Pub(0, FALSE, 0, 0), Pub(0, FALSE, 0, Limit - 3),
     Pub(1, FALSE, 8, 1), [Pub(1, FALSE, 8, 1) EXCEPT !.topic = <<>>],
     Pub(2, TRUE, 13, Limit - 5)}

MCSubscription ==
    {<<[topic |-> Topic, qos |-> 2]>>,
     <<[topic |-> <<>>, qos |-> 0], [topic |-> Topic, qos |-> 1]>>}

MCWithdrawal == {<<Topic>>}

\* The service switches a device on.
MCSwitch == {Pub(0, FALSE, 0, 2)}

\* Every prefix of a body that is not itself a body.
Cut(body, n) == {SubSeq(body, 1, k) : k \in 0..n}

MCBadGreeting ==
    LET full  == ConnectBody(Full, <<1>>)
        plain == ConnectBody(Lasting, <<1>>)
    IN  Cut(full, Len(full) - 1)
        \cup {[plain EXCEPT ![3] = 4],              \* another protocol
              [plain EXCEPT ![4] = 5],              \* another version
              [plain EXCEPT ![5] = 8 + 128],              \* a QoS without a will
              ConnectBody(Lasting, <<>>)}             \* no identifier

MCGarbage ==
    {Frame(PacketType.PUBLISH, 2, body) : body \in Cut(PublishBody(Pub(1, FALSE, 8, 1), 1, 8), 4)}
    \cup {Frame(PacketType.SUBSCRIBE, 2, body) :
             body \in Cut(SubscribeBody(<<[topic |-> Topic, qos |-> 1]>>), 5) \ {Two(1)}}
    \cup {Frame(PacketType.UNSUBSCRIBE, 2, body) : body \in Cut(UnSubscribeBody(<<Topic>>), 4) \ {Two(1)}}
    \cup {Frame(PacketType.PUBLISH, f, PublishBody(Pub(1, FALSE, 8, 1), 1, 8)) : f \in {6, 8}}
    \cup {Frame(PacketType.PINGREQ, 1, <<>>),          \* a flag it may not have
          <<16 * PacketType.PUBLISH, Base, Base, Base>>,       \* a length without end
          <<16 * PacketType.PUBLISH, 2, 0>>}                   \* the rest does not come
=============================================================================
