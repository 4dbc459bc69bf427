----------------------------- MODULE PublishFlow -----------------------------
(***************************************************************************)
(* The way of a publication from the bytes of its publisher to the bytes   *)
(* of its subscribers: handlePacket of internal/server, the handlers of    *)
(* internal/packet and SendMessage.                                        *)
(*                                                                         *)
(* Every client has one connection and one handler.  ConnectionHandler     *)
(* models several connections of a client and waiting writes,              *)
(* SubscriptionTree the matching, SessionStore the saving of a session and *)
(* PacketID the identifiers.  Here a filter has no wildcards, a SUBSCRIBE  *)
(* is one step, a save succeeds or fails, and an identifier manager counts *)
(* up.  What becomes of a node of the topic tree that is outdated, or that *)
(* two handlers change at one time, is left open (Outdated).  A            *)
(* publication is handled step by step.                                    *)
(***************************************************************************)
EXTENDS Wire

CONSTANTS
    Client,        \* clients, each the bytes of its identifier
    Greeting,      \* client -> its CONNECT packet, without the identifier
    Publication,   \* PUBLISH packets
    Subscription,  \* SUBSCRIBE packets, each the sequence of its filters
    Withdrawal,    \* UNSUBSCRIBE packets, likewise
    Switch,        \* what the gRPC service publishes to a device
    BadGreeting,   \* bodies of a CONNECT that are to be refused
    Garbage,       \* bytes that get a connected client cut off
    MaxPackets,    \* bound on the packets sent, and the silences, after CONNECT
    MaxMishaps     \* bound on failing database calls and outdated nodes

\* The name of the gRPC service, which is the identifier of no client.
Service == <<>>

IsText(b) == b \in Seq(Nat) /\ Len(b) < Byte * Byte

IsPublication(p) ==
    /\ p.qos \in 0..2 /\ p.dup \in BOOLEAN /\ (p.dup => p.qos > 0)
    /\ p.id \in IF p.qos > 0 THEN 1..Byte * Byte - 1 ELSE {0}
    /\ IsText(p.topic) /\ p.payload \in Seq(Nat)
    /\ Len(PublishBody(p, p.qos, p.id)) <= Limit

\* A packet that the broker handles without an error.
Sound(f) ==
    \/ f.type = PacketType.PUBLISH /\ Fine(ParsePublishPacket(f.flags, f.body))
    \/ f.type = PacketType.SUBSCRIBE /\ Fine(ParseSubscribePacket(f.body))
    \/ f.type = PacketType.UNSUBSCRIBE /\ Fine(ParseUnSubscribePacket(f.body))
    \/ f.type \in {PacketType.PINGREQ, PacketType.DISCONNECT}

\* The acknowledgements and the answer to CONNECT fit.
ASSUME LimitAssumption == Limit >= 3

ASSUME ClientAssumption == \A c \in Client : IsText(c) /\ c # Service

ASSUME GreetingAssumption ==
    \A c \in Client : LET g == Greeting[c] IN
        /\ g.clean \in BOOLEAN /\ g.keepAlive \in 0..Byte * Byte - 1
        /\ \A b \in {g.topic, g.content, g.user, g.password} : IsText(b)
        /\ g.topic = <<>> => g.content = <<>>
        /\ Len(ConnectBody(g, c)) <= Limit

ASSUME PublicationAssumption ==
    /\ \A p \in Publication \cup Switch : IsPublication(p)
    /\ \A p \in Switch : p.qos = 0

ASSUME FilterAssumption ==
    /\ \A filters \in Subscription :
          /\ filters \in Seq([topic : Seq(Nat), qos : Nat])
          /\ \A i \in DOMAIN filters : IsText(filters[i].topic)
          /\ Len(SubscribeBody(filters)) <= Limit
    /\ \A filters \in Withdrawal :
          /\ filters \in Seq(Seq(Nat))
          /\ \A i \in DOMAIN filters : IsText(filters[i])
          /\ Len(UnSubscribeBody(filters)) <= Limit

ASSUME RefusalAssumption ==
    /\ \A b \in BadGreeting : b \in Seq(Nat) /\ Len(b) <= Limit /\ ~Fine(ParseConnectPacket(b))
    /\ \A b \in Garbage : b \in Seq(Nat) /\ (Fine(ReadPacket(b)) => ~Sound(ReadPacket(b).value))

ASSUME BoundAssumption == MaxPackets \in Nat /\ MaxMishaps \in Nat

VARIABLES
    inbox,           \* client -> bytes it has sent and its handler has not read
    outbox,          \* client -> bytes written to it
    th,              \* client -> its handler
    connections,     \* the clients in the connection map
    tree,            \* subscriptions, as the documents of the topic tree hold them
    seen,            \* subscriptions that a cached node or a document has ever held
    PendingPublish,  \* client -> <<identifier, topic>> pairs in its session
    stored,          \* client -> the pairs as they were saved last
    currentID,       \* the counters of the identifier managers, the last one is in use
    manager,         \* client -> the manager its handler was given, 0 if none
    crashed,         \* a panic has ended the process: "no", "nil", "slice"
    spent,           \* the bounds used up
    claims,          \* history: client -> what its CONNECT said
    sent,            \* history: client, or gRPC service -> publications it has sent
    asked,           \* history: subscriptions with the QoS asked for
    copies,          \* history: client -> copies of publications written to it
    behaved          \* history: clients that have given no cause to be cut off

history  == <<claims, sent, asked, behaved>>
sessions == <<tree, seen, PendingPublish, stored>>
numbers  == <<currentID, manager>>
output   == <<outbox, copies>>
broker   == <<th, connections, output, sessions, numbers, crashed>>
vars     == <<inbox, broker, spent, history>>

NoPub == [qos |-> 0, topic |-> <<>>, id |-> 0, payload |-> <<>>]
Start == [pc |-> "first", info |-> <<>>, read |-> 0, pub |-> NoPub,
          todo |-> {}, cur |-> {}, id |-> 0]

Init ==
    /\ inbox = [c \in Client |-> <<>>]
    /\ outbox = [c \in Client |-> <<>>]
    /\ th = [c \in Client |-> Start]
    /\ connections = {}
    /\ tree = {}
    /\ seen = {}
    /\ PendingPublish = [c \in Client |-> {}]
    /\ stored = [c \in Client |-> {}]
    /\ currentID = <<>>
    /\ manager = [c \in Client |-> 0]
    /\ crashed = "no"
    /\ spent = [packets |-> 0, errors |-> 0, outdated |-> 0]
    /\ claims = [c \in Client |-> <<>>]
    /\ sent = [c \in Client \cup {Service} |-> <<>>]
    /\ asked = {}
    /\ copies = [c \in Client |-> <<>>]
    /\ behaved = Client
-----------------------------------------------------------------------------
Alive == crashed = "no"

Write(c, bytes) == inbox' = [inbox EXCEPT ![c] = @ \o bytes]

\* No handler is at work.
Calm == \A c \in Client : th[c].pc \in {"first", "read", "closed"} /\ inbox[c] = <<>>

\* A client sends nothing before the answer to its CONNECT.  A bad CONNECT, which
\* ends the process, is sent before anything else.
Hello(c) ==
    /\ th[c].pc = "first" /\ inbox[c] = <<>> /\ Alive
    /\ \A d \in Client : th[d].pc = "first" => d \in behaved
    /\ \/ /\ Write(c, Frame(PacketType.CONNECT, 0, ConnectBody(Greeting[c], c)))
          /\ claims' = [claims EXCEPT ![c] = Claim(Greeting[c], c)]
          /\ UNCHANGED behaved
       \/ /\ Calm /\ \A d \in Client : th[d].pc = "first"
          /\ \E body \in BadGreeting : Write(c, Frame(PacketType.CONNECT, 0, body))
          /\ behaved' = behaved \ {c}
          /\ UNCHANGED claims
    /\ UNCHANGED <<broker, spent, sent, asked>>

\* What a client does after CONNECT, to fall silent included, is counted.
Counted ==
    /\ spent.packets < MaxPackets
    /\ spent' = [spent EXCEPT !.packets = @ + 1]

\* All clients are connected before the first of them goes on.  Who has sent what
\* ends its connection sends nothing more: nobody would read it.
Transmit(c, bytes) ==
    /\ Alive /\ th[c].pc # "closed" /\ c \in behaved
    /\ \A d \in Client : th[d].pc # "first"
    /\ Counted
    /\ Write(c, bytes)
    /\ UNCHANGED <<broker, claims>>

Post(c) ==
    \E p \in Publication :
        /\ Transmit(c, PublishFrame(p))
        /\ sent' = [sent EXCEPT ![c] = Append(@,
              [pub |-> p, due |-> {e.client : e \in {f \in tree : f.topic = p.topic}}])]
        /\ UNCHANGED <<asked, behaved>>

Ask(c) ==
    /\ \/ \E filters \in Subscription :
             /\ Transmit(c, Frame(PacketType.SUBSCRIBE, 2, SubscribeBody(filters)))
             /\ asked' = asked \cup {[client |-> c, topic |-> f.topic, qos |-> f.qos] :
                                         f \in ToSet(filters)}
       \/ \E filters \in Withdrawal :
             /\ Transmit(c, Frame(PacketType.UNSUBSCRIBE, 2, UnSubscribeBody(filters)))
             /\ UNCHANGED asked
       \/ Transmit(c, Frame(PacketType.PINGREQ, 0, <<>>)) /\ UNCHANGED asked
    /\ UNCHANGED <<sent, behaved>>

\* DISCONNECT or an acknowledgement; or, before anything else, bytes that are no
\* packet, whose effect on the others is the same.
Misbehave(c) ==
    /\ \/ \E type \in {PacketType.DISCONNECT, PacketType.PUBREC} :
             Transmit(c, Frame(type, 0, When(type = PacketType.PUBREC, Two(1))))
       \/ spent.packets = 0 /\ \E bytes \in Garbage : Transmit(c, bytes)
    /\ behaved' = behaved \ {c}
    /\ UNCHANGED <<sent, asked>>
-----------------------------------------------------------------------------
(***************************************************************************)
(* The handler: one packet is read, parsed and handled, then the next.     *)
(***************************************************************************)
At(c, label) == Alive /\ th[c].pc = label
Goto(c, label) == th' = [th EXCEPT ![c].pc = label]

\* The packet that has arrived, if it is whole and of one of these types.
Arrived(c, types) ==
    LET r == ReadPacket(inbox[c]) IN
    IF Fine(r) /\ r.value.type \in types THEN {r} ELSE {}

Consume(c, r) == inbox' = [inbox EXCEPT ![c] = SubSeq(@, r.ptr + 1, Len(@))]

Reply(c, bytes) ==
    /\ outbox' = [outbox EXCEPT ![c] = @ \o bytes]
    /\ UNCHANGED copies

\* The end of handlePacket and the deferred function after it.
Close(c) ==
    /\ inbox' = [inbox EXCEPT ![c] = <<>>]
    /\ th' = [th EXCEPT ![c] = [Start EXCEPT !.pc = "closed", !.info = th[c].info,
                                             !.read = th[c].read]]
    /\ connections' = connections \ {c}

Dies(how) ==
    /\ crashed' = how
    /\ UNCHANGED <<inbox, th, connections, output, sessions, spent>>

\* An outcome of a parser that is no value.
Fails(c, r) ==
    /\ \/ r.is = "error" /\ Close(c) /\ UNCHANGED <<output, sessions, crashed, spent>>
       \/ r.is = "panic" /\ Dies("slice")

DatabaseError ==
    /\ spent.errors + spent.outdated < MaxMishaps
    /\ spent' = [spent EXCEPT !.errors = @ + 1]

(***************************************************************************)
(* A call comes upon a node of the topic tree that is not as it was saved  *)
(* last: the entry under "_id" outlives a save, a node read before a save  *)
(* is cached after it, and two handlers create one node or save it one     *)
(* after the other.                                                        *)
(***************************************************************************)
Outdated ==
    /\ spent.errors + spent.outdated < MaxMishaps
    /\ spent' = [spent EXCEPT !.outdated = @ + 1]

\* A node has one subscription of a client, whatever version of it is read.
Single(T) == \A e, f \in T : e.client = f.client /\ e.topic = f.topic => e = f

\* To save such a node loses subscriptions, of any client, or brings them back.
SaveOutdated(new) ==
    /\ Outdated
    /\ tree' \in {T \in SUBSET (seen \cup new) : Single(T)}

\* A publication whose subscriptions are yet to be looked up.
Ahead(p, n) == n > th[p].read \/ (n = th[p].read /\ th[p].pc \in {"save", "match"})

\* Whose subscription is gone from the tree is no longer due what is ahead.
Release ==
    sent' = [p \in DOMAIN sent |-> [n \in DOMAIN sent[p] |->
        IF p # Service /\ Ahead(p, n)
        THEN [sent[p][n] EXCEPT !.due = @ \ {e.client : e \in
                 {f \in tree \ tree' : f.topic = sent[p][n].pub.topic}}]
        ELSE sent[p][n]]]

\* A temporary session is saved in memory only.
Save(c, pending) ==
    stored' = IF th[c].info.CleanSession THEN stored ELSE [stored EXCEPT ![c] = pending]

(***************************************************************************)
(* handleFirstPacket.  Whatever goes wrong leaves the session nil, and the *)
(* deferred function dies of it.                                           *)
(***************************************************************************)
FirstPacket(c) ==
    /\ At(c, "first")
    /\ \E r \in Arrived(c, {PacketType.CONNECT}) :
          LET info == ParseConnectPacket(r.value.body) IN
          \/ /\ Fine(info)
             /\ Consume(c, r)
             /\ th' = [th EXCEPT ![c].pc = "read", ![c].info = info.value]
             /\ connections' = connections \cup {c}
             /\ Reply(c, NewConnectAckPacket(TRUE, ConnectRespType.Accepted))
             /\ UNCHANGED <<crashed, spent>>
          \/ /\ Fine(info) /\ DatabaseError
             /\ Reply(c, NewConnectAckPacket(FALSE, ConnectRespType.ServerUnavailable))
             /\ crashed' = "nil"
             /\ UNCHANGED <<inbox, th, connections>>
          \/ /\ info.is = "error"
             /\ Reply(c, info.resp)
             /\ crashed' = "nil"
             /\ UNCHANGED <<inbox, th, connections, spent>>
          \/ info.is = "panic" /\ Dies("slice")
    /\ UNCHANGED <<sessions, numbers, history>>

\* ReadPacket fails: the bytes are no packet, or the rest of one does not come.
ReadError(c) ==
    /\ At(c, "read")
    /\ \/ ReadPacket(inbox[c]).is = "error" /\ UNCHANGED <<behaved, spent>>
       \/ ReadPacket(inbox[c]) = Waiting /\ Counted /\ behaved' = behaved \ {c}
    /\ Close(c)
    /\ UNCHANGED <<output, sessions, numbers, crashed, claims, sent, asked>>

(***************************************************************************)
(* SUBSCRIBE.  A filter the client has in the tree keeps its QoS there, of *)
(* two equal filters in one packet the first is inserted; an insertion     *)
(* that fails is only logged.                                              *)
(***************************************************************************)
Entry(c, subs, topic) ==
    LET first == CHOOSE i \in DOMAIN subs :
                     subs[i].topic = topic /\ \A j \in 1..i-1 : subs[j].topic # topic
    IN  [client |-> c, topic |-> topic, qos |-> subs[first].qos]

InsertAll(c, subs) ==
    LET has == {e.topic : e \in {f \in tree : f.client = c}}
    IN  tree \cup {Entry(c, subs, topic) : topic \in {s.topic : s \in ToSet(subs)} \ has}

\* What an insertion may leave in a node, in the database or not.
Requested(c, subs) == {[client |-> c, topic |-> s.topic, qos |-> s.qos] : s \in ToSet(subs)}

Subscribe(c) ==
    /\ At(c, "read")
    /\ \E r \in Arrived(c, {PacketType.SUBSCRIBE}) :
          LET req  == ParseSubscribePacket(r.value.body)
              subs == req.value.subscriptions
          IN  \/ /\ Fine(req)
                 /\ Consume(c, r)
                 /\ \/ tree' = InsertAll(c, subs) /\ UNCHANGED spent
                    \/ /\ DatabaseError
                       /\ \E i \in DOMAIN subs : tree' = InsertAll(c, RemoveAt(subs, i))
                    \/ SaveOutdated(Requested(c, subs))
                 /\ seen' = seen \cup Requested(c, subs)
                 /\ Release
                 /\ Save(c, PendingPublish[c])
                 /\ Reply(c, NewSubAckPacket(req.value.id, SubscribeState.SuccessQos0))
                 /\ UNCHANGED <<th, connections, crashed, PendingPublish>>
              \/ /\ Fine(req) /\ DatabaseError      \* the session is not saved
                 /\ Consume(c, r)
                 /\ tree' = InsertAll(c, subs)
                 /\ seen' = seen \cup Requested(c, subs)
                 /\ Reply(c, NewSubAckPacket(req.value.id, SubscribeState.Failure))
                 /\ UNCHANGED <<th, connections, crashed, PendingPublish, stored, sent>>
              \/ Fails(c, req) /\ UNCHANGED sent
    /\ UNCHANGED <<numbers, claims, asked, behaved>>

\* A deletion that fails leaves one filter in the tree, and nobody asks.
DeleteSubscriptions(c, topics) ==
    LET without(gone) == {e \in tree : e.client # c \/ e.topic \notin gone}
    IN  \/ tree' = without(topics) /\ UNCHANGED spent
        \/ DatabaseError /\ \E t \in topics : tree' = without(topics \ {t})
        \/ SaveOutdated({})

Unsubscribe(c) ==
    /\ At(c, "read")
    /\ \E r \in Arrived(c, {PacketType.UNSUBSCRIBE}) :
          LET req == ParseUnSubscribePacket(r.value.body) IN
          \/ /\ Fine(req)
             /\ Consume(c, r)
             /\ DeleteSubscriptions(c, ToSet(req.value.subscriptions))
             /\ Reply(c, NewUnSubAckPacket(req.value.id, SubscribeState.SuccessQos0))
             /\ Release
             /\ UNCHANGED <<th, connections, crashed, seen, PendingPublish, stored>>
          \/ Fails(c, req) /\ UNCHANGED sent
    /\ UNCHANGED <<numbers, claims, asked, behaved>>

PingReq(c) ==
    /\ At(c, "read")
    /\ \E r \in Arrived(c, {PacketType.PINGREQ}) : Consume(c, r)
    /\ Reply(c, NewPingRespPacket)
    /\ UNCHANGED <<th, connections, sessions, numbers, crashed, spent, history>>

\* A temporary session takes its subscriptions along, a lasting one is saved.
Disconnect(c) ==
    /\ At(c, "read") /\ Arrived(c, {PacketType.DISCONNECT}) # {}
    /\ \/ /\ th[c].info.CleanSession
          /\ DeleteSubscriptions(c, {e.topic : e \in {f \in tree : f.client = c}})
          /\ Release
          /\ UNCHANGED stored
       \/ /\ ~th[c].info.CleanSession
          /\ \/ Save(c, PendingPublish[c]) /\ UNCHANGED spent
             \/ DatabaseError /\ UNCHANGED stored
          /\ UNCHANGED <<tree, sent>>
    /\ Close(c)
    /\ UNCHANGED <<output, seen, PendingPublish, numbers, crashed, claims, asked, behaved>>

Supported == {"PUBLISH", "SUBSCRIBE", "UNSUBSCRIBE", "PINGREQ", "DISCONNECT"}

\* Anything else ends the connection, acknowledgements included.
Unsupported(c) ==
    /\ At(c, "read") /\ Arrived(c, 0..15 \ {PacketType[n] : n \in Supported}) # {}
    /\ Close(c)
    /\ UNCHANGED <<output, sessions, numbers, crashed, spent, history>>
-----------------------------------------------------------------------------
(***************************************************************************)
(* PUBLISH.                                                                *)
(***************************************************************************)
\* session.PendingPublish[id] = topic
Pend(pending, p) == {e \in pending : e[1] # p.id} \cup {<<p.id, p.topic>>}

\* Where a publication goes next; without a payload it goes no further.
Handle(c, p, label) ==
    th' = [th EXCEPT ![c].read = @ + 1,
                     ![c].pub = IF p.payload = <<>> THEN NoPub ELSE p,
                     ![c].pc = IF p.payload = <<>> THEN "read" ELSE label]

\* Mutant: the publication is handed on without a record in the session.
PublishUnrecorded(c) ==
    /\ At(c, "read")
    /\ \E r \in Arrived(c, {PacketType.PUBLISH}) :
          LET p == ParsePublishPacket(r.value.flags, r.value.body) IN
          \/ /\ Fine(p)
             /\ Consume(c, r)
             /\ Handle(c, p.value, "match")
             /\ UNCHANGED <<connections, output, sessions, crashed, spent>>
          \/ Fails(c, p)
    /\ UNCHANGED <<numbers, history>>

Publish(c) ==
    /\ At(c, "read")
    /\ \E r \in Arrived(c, {PacketType.PUBLISH}) :
          LET p == ParsePublishPacket(r.value.flags, r.value.body) IN
          \/ /\ Fine(p)
             /\ Consume(c, r)
             /\ \/ /\ p.value.qos > 0 /\ p.value.payload # <<>>
                   /\ PendingPublish' = [PendingPublish EXCEPT ![c] = Pend(@, p.value)]
                   /\ Handle(c, p.value, "save")
                \/ /\ p.value.qos = 0 \/ p.value.payload = <<>>
                   /\ Handle(c, p.value, "match")
                   /\ UNCHANGED PendingPublish
             /\ UNCHANGED <<connections, output, tree, seen, stored, crashed, spent>>
          \/ Fails(c, p)
    /\ UNCHANGED <<numbers, history>>

\* The result of session.Save is not looked at.
SaveSession(c) ==
    /\ At(c, "save")
    /\ \/ Save(c, PendingPublish[c]) /\ UNCHANGED spent
       \/ DatabaseError /\ UNCHANGED stored
    /\ Goto(c, "match")
    /\ UNCHANGED <<inbox, connections, output, tree, seen, PendingPublish, numbers, crashed, history>>

\* Who has a subscription to the topic, and was not reported, gets nothing.
Miss(c, found) == sent' = [sent EXCEPT ![c][th[c].read].due = @ \cap {e.client : e \in found}]

(***************************************************************************)
(* A first node that cannot be read counts as missing.  The result of      *)
(* another one, if it cannot be read or an outdated link leads nowhere, is *)
(* nil, and the process dies of it.                                        *)
(***************************************************************************)
MatchTopic(c) ==
    LET Report(found) == th' = [th EXCEPT ![c].pc = "route", ![c].todo = found]
        To(entries)   == {e \in entries : e.topic = th[c].pub.topic}
    IN  /\ At(c, "match")
        /\ \/ Report(To(tree)) /\ UNCHANGED <<spent, sent, crashed>>
           \/ /\ Outdated
              /\ \E found \in SUBSET To(seen) : Single(found) /\ Report(found) /\ Miss(c, found)
              /\ UNCHANGED crashed
           \/ DatabaseError /\ Report({}) /\ UNCHANGED <<sent, crashed>>
           \/ /\ DatabaseError \/ Outdated
              /\ crashed' = "nil" /\ UNCHANGED <<th, sent>>
        /\ UNCHANGED <<inbox, connections, output, sessions, numbers, claims, asked, behaved>>

(***************************************************************************)
(* The loop over the subscriptions.  A copy for a subscription with QoS    *)
(* gets an identifier, unless the publication has QoS 0.  What             *)
(* HandlePublishPacket returns, the acknowledgement for the publisher, its *)
(* caller drops.                                                           *)
(***************************************************************************)
Number(c) ==
    LET label(e) == IF e.qos > 0 /\ th[c].pub.qos > 0
                    THEN IF currentID = <<>> THEN "create" ELSE "return"
                    ELSE "deliver"
    IN  /\ At(c, "route")
        /\ \/ /\ th[c].todo = {}
              /\ th' = [th EXCEPT ![c].pc = "read", ![c].pub = NoPub]
           \/ \E e \in th[c].todo : th' = [th EXCEPT ![c].pc = label(e), ![c].cur = {e}]
        /\ UNCHANGED <<inbox, connections, output, sessions, numbers, crashed, spent, history>>

\* NewPacketIDManager does not lock: whoever has found none makes one, and reads
\* again which one is in use before it returns.
Create(c) ==
    /\ At(c, "create")
    /\ currentID' = Append(currentID, 1)
    /\ Goto(c, "return")
    /\ UNCHANGED manager

Return(c) ==
    /\ At(c, "return")
    /\ manager' = [manager EXCEPT ![c] = Len(currentID)]
    /\ Goto(c, "number")
    /\ UNCHANGED currentID

\* Mutant: the counter stays.
NextIDAgain(c) ==
    /\ At(c, "number")
    /\ manager' = [manager EXCEPT ![c] = 0]
    /\ th' = [th EXCEPT ![c].pc = "deliver", ![c].id = currentID[manager[c]]]
    /\ UNCHANGED currentID

NextID(c) ==
    /\ At(c, "number")
    /\ currentID' = [currentID EXCEPT ![manager[c]] = @ + 1]
    /\ manager' = [manager EXCEPT ![c] = 0]
    /\ th' = [th EXCEPT ![c].pc = "deliver", ![c].id = currentID[manager[c]]]

\* One of the three steps to an identifier for a copy.
Numbering(c) ==
    /\ Create(c) \/ Return(c) \/ NextID(c)
    /\ UNCHANGED <<inbox, connections, output, sessions, crashed, spent, history>>

\* SendMessage to client k; it is nil when there is no connection.  A copy is
\* named after its sender and the count of what that has sent.
SendMessage(k, from, nth, pub, qos, id) ==
    \/ /\ k \in connections
       /\ outbox' = [outbox EXCEPT ![k] = @ \o NewPublishPacket(qos, pub.topic, id, pub.payload)]
       /\ copies' = [copies EXCEPT ![k] = Append(@, [from |-> from, nth |-> nth, qos |-> qos, id |-> id])]
    \/ k \notin connections /\ UNCHANGED output

Copy(c, e) == SendMessage(e.client, c, th[c].read, th[c].pub, e.qos, th[c].id)

\* Mutants: a subscription that was served stays in the loop; the loop ends with
\* the first subscription.
DeliverAgain(c) ==
    /\ At(c, "deliver")
    /\ \E e \in th[c].cur :
          /\ Copy(c, e)
          /\ th' = [th EXCEPT ![c].pc = "route", ![c].cur = {}, ![c].id = 0]
    /\ UNCHANGED <<inbox, connections, sessions, numbers, crashed, spent, history>>

DeliverFirst(c) ==
    /\ At(c, "deliver")
    /\ \E e \in th[c].cur :
          /\ Copy(c, e)
          /\ th' = [th EXCEPT ![c].pc = "route", ![c].cur = {}, ![c].id = 0, ![c].todo = {}]
    /\ UNCHANGED <<inbox, connections, sessions, numbers, crashed, spent, history>>

Deliver(c) ==
    /\ At(c, "deliver")
    /\ \E e \in th[c].cur :
          /\ Copy(c, e)
          /\ th' = [th EXCEPT ![c].pc = "route", ![c].cur = {}, ![c].id = 0, ![c].todo = @ \ {e}]
    /\ UNCHANGED <<inbox, connections, sessions, numbers, crashed, spent, history>>

(***************************************************************************)
(* SetDevicesState of the gRPC service: a message with QoS 0 straight to   *)
(* the connection of one client, among what the handlers write to it.      *)
(***************************************************************************)
SetDevicesState(k) ==
    /\ Alive /\ \A d \in Client : th[d].pc # "first"
    /\ Counted
    /\ \E p \in Switch :
          /\ SendMessage(k, Service, Len(sent[Service]) + 1, p, 0, 0)
          /\ sent' = [sent EXCEPT ![Service] = Append(@, [pub |-> p, due |-> {k}])]
    /\ UNCHANGED <<inbox, th, connections, sessions, numbers, crashed, claims, asked, behaved>>
-----------------------------------------------------------------------------
Peer(c) == Hello(c) \/ Post(c) \/ Ask(c) \/ Misbehave(c)

Handler(c) ==
    \/ FirstPacket(c) \/ ReadError(c) \/ Subscribe(c) \/ Unsubscribe(c) \/ PingReq(c)
    \/ Disconnect(c) \/ Unsupported(c) \/ Publish(c) \/ SaveSession(c) \/ MatchTopic(c)
    \/ Number(c) \/ Numbering(c) \/ Deliver(c)

\* The process is gone, or no handler has anything left to read.
Rest == /\ \/ ~Alive
           \/ \A c \in Client :
                 th[c].pc = "closed" \/ (th[c].pc = "read" /\ ReadPacket(inbox[c]) = Waiting)
        /\ UNCHANGED vars

Next == \/ \E c \in Client : Peer(c) \/ Handler(c) \/ SetDevicesState(c)
        \/ Rest

Spec == Init /\ [][Next]_vars
=============================================================================
