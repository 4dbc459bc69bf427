------------------------- MODULE PublishFlow_proofs -------------------------
(***************************************************************************)
(* Proofs about the way of a publication, for any clients, packets and     *)
(* failures.                                                               *)
(*                                                                         *)
(* The order of the copies comes first (IInv), then their identifiers      *)
(* (Idents); they hold whatever the parsers make of the bytes.  For the    *)
(* rest, the codec's                                                       *)
(* theorems of Wire_proofs say that a handler finds in its inbox what its  *)
(* client has sent (Reading).  It follows what is in work (Working), and   *)
(* from that, one by one, the record of a publication (Recorded), the way  *)
(* to all its subscribers (Reaching) and the bytes that they get           *)
(* (Streams).                                                              *)
(***************************************************************************)
EXTENDS PublishFlowProps, Wire_proofs

(***************************************************************************)
(* A handler loops over subscriptions only while it routes, over one for   *)
(* each client, serves one of them from its choice on, and has an          *)
(* identifier only while it delivers.                                      *)
(***************************************************************************)
Looping == {"route", "create", "return", "number", "deliver"}

Stage(t) ==
    /\ t = [pc |-> t.pc, info |-> t.info, read |-> t.read, pub |-> t.pub,
            todo |-> t.todo, cur |-> t.cur, id |-> t.id]
    /\ t.read \in Nat /\ t.id \in Nat
    /\ t.pc \notin Looping => t.todo = {}
    /\ t.pc \notin Looping \ {"route"} => t.cur = {}
    /\ t.pc # "deliver" => t.id = 0
    /\ t.cur \subseteq t.todo
    /\ \A e, f \in t.todo : e.client = f.client => e = f

(***************************************************************************)
(* A copy that was written to d is of an earlier publication of its sender *)
(* than the one in work, or of that one, which then has passed d.          *)
(***************************************************************************)
Passed(k, d) ==
    \/ k.from = Service /\ k.nth <= Len(sent[Service])
    \/ /\ k.from \in Client
       /\ \/ k.nth < th[k.from].read
          \/ /\ k.nth = th[k.from].read
             /\ th[k.from].pc \notin {"save", "match"}
             /\ \A e \in th[k.from].todo : e.client # d

Handlers ==
    /\ DOMAIN th = Client /\ \A c \in Client : Stage(th[c])
    /\ connections \subseteq Client /\ Single(tree)
    /\ Service \in DOMAIN sent /\ sent[Service] \in Seq(ToSet(sent[Service]))

Written ==
    /\ DOMAIN copies = Client
    /\ \A d \in Client : /\ copies[d] \in Seq(ToSet(copies[d]))
                         /\ \A k \in ToSet(copies[d]) : k.nth \in Nat /\ Passed(k, d)

Order == Handlers /\ Written /\ InOrderOnce

\* A handler that is about to take an identifier has been given a manager.
Counters ==
    /\ currentID \in Seq(Nat \ {0}) /\ DOMAIN manager = Client
    /\ \A c \in Client :
          /\ th[c].pc = "return" => currentID # <<>>
          /\ manager[c] \in IF th[c].pc = "number" THEN 1..Len(currentID) ELSE {0}

\* The counter of the one manager, also before that is made.
Counter == IF currentID = <<>> THEN 1 ELSE currentID[1]

\* Identifiers given to copies are below the counter and given once.
Given ==
    /\ \A c \in Client : th[c].id < Counter
    /\ \A c, d \in Client : th[c].id = th[d].id /\ th[c].id # 0 => c = d
    /\ \A d \in Client : \A k \in ToSet(copies[d]) :
          /\ k.id \in Nat /\ k.id < Counter
          /\ k.id # 0 => \A c \in Client : th[c].id # k.id

IInv == Handlers /\ Written /\ InOrderOnce /\ Counters /\ (OneManager => Given /\ Apart)

\* What the service has sent stays.
ServiceKept == sent'[Service] = sent[Service] /\ DOMAIN sent' = DOMAIN sent
-----------------------------------------------------------------------------
(***************************************************************************)
(* A sequence that is appended to.                                         *)
(***************************************************************************)
LEMMA Appended ==
    ASSUME NEW s, s \in Seq(ToSet(s)), NEW x, NEW r, r = Append(s, x)
    PROVE  /\ r \in Seq(ToSet(r)) /\ ToSet(r) = ToSet(s) \cup {x}
           /\ Len(s) \in Nat /\ Len(r) = Len(s) + 1
           /\ DOMAIN s = 1..Len(s) /\ DOMAIN r = 1..Len(s) + 1
           /\ r[Len(s) + 1] = x /\ \A i \in DOMAIN s : r[i] = s[i]
<1> DEFINE S == ToSet(s) \cup {x}
<1>1. s \in Seq(S) /\ x \in S
      OBVIOUS
<1> HIDE DEF S
<1>2. /\ r \in Seq(S) /\ Len(r) = Len(s) + 1 /\ r[Len(s) + 1] = x
      /\ \A i \in 1..Len(s) : r[i] = s[i]
      BY <1>1, AppendProperties
<1>3. /\ Len(s) \in Nat /\ DOMAIN s = 1..Len(s) /\ DOMAIN r = 1..Len(s) + 1
      BY <1>1, <1>2
<1>4. ToSet(r) = ToSet(s) \cup {x}
  <2>1. \A i \in 1..Len(s) + 1 : i \in 1..Len(s) \/ i = Len(s) + 1
        BY <1>3
  <2>2. 1..Len(s) \subseteq 1..Len(s) + 1 /\ Len(s) + 1 \in 1..Len(s) + 1
        BY <1>3
  <2> QED
      BY <1>2, <1>3, <2>1, <2>2 DEF ToSet
<1> QED
    BY <1>2, <1>3, <1>4 DEF S

LEMMA Initially == Init => IInv
<1> SUFFICES ASSUME Init PROVE IInv
    OBVIOUS
<1>1. Stage(Start)
      BY DEF Stage, Start, Looping
<1>2. /\ DOMAIN th = Client /\ \A c \in Client : th[c] = Start
      /\ DOMAIN copies = Client /\ \A c \in Client : copies[c] = <<>>
      /\ Service \in DOMAIN sent /\ sent[Service] = <<>>
      /\ connections = {} /\ tree = {}
      /\ currentID = <<>> /\ manager = [c \in Client |-> 0]
      BY DEF Init
<1>3. <<>> \in Seq(ToSet(<<>>)) /\ DOMAIN <<>> = {} /\ ToSet(<<>>) = {}
      BY DEF ToSet
<1>4. Handlers
      BY <1>1, <1>2, <1>3 DEF Handlers, Single
<1>5. Written
      BY <1>2, <1>3 DEF Written
<1>6. InOrderOnce /\ Apart
      BY <1>2, <1>3 DEF InOrderOnce, Apart
<1>7. Start.pc = "first" /\ Start.id = 0
      BY DEF Start
<1>8. Counters /\ Given
      BY <1>2, <1>3, <1>7 DEF Counters, Given, Counter
<1> QED
    BY <1>4, <1>5, <1>6, <1>8 DEF IInv
-----------------------------------------------------------------------------
(***************************************************************************)
(* Steps that write no copy.                                               *)
(***************************************************************************)
LEMMA Step ==
    ASSUME IInv, NEW c \in Client, NEW t, th' = [th EXCEPT ![c] = t], Stage(t),
           \/ t.read = th[c].read + 1
           \/ t.read = th[c].read /\ th[c].pc \in {"save", "match"}
           \/ t.read = th[c].read /\ t.pc \notin {"save", "match"} /\ t.todo \subseteq th[c].todo,
           Single(tree'), connections' \subseteq Client, UNCHANGED copies, ServiceKept
    PROVE  Order'
<1>1. /\ DOMAIN th' = Client /\ th'[c] = t /\ \A d \in Client \ {c} : th'[d] = th[d]
      BY DEF IInv, Handlers
<1>2. \A d \in Client : Stage(th[d])'
      BY <1>1 DEF IInv, Handlers, Stage
<1>3. Handlers'
      BY <1>1, <1>2 DEF IInv, Handlers, ServiceKept
<1>4. ASSUME NEW d \in Client, NEW k \in ToSet(copies[d]) PROVE Passed(k, d)'
  <2>1. Passed(k, d) /\ k.nth \in Nat
        BY <1>4 DEF IInv, Written
  <2>2. CASE k.from = c
    <3>1. th[c].read \in Nat
          BY DEF IInv, Handlers, Stage
    <3> QED
        BY <1>1, <2>1, <2>2, <3>1, ClientAssumption DEF Passed
  <2>3. CASE k.from # c
        BY <1>1, <2>1, <2>3 DEF Passed, ServiceKept
  <2> QED
      BY <2>2, <2>3
<1>5. Written'
      BY <1>4 DEF IInv, Written
<1>6. InOrderOnce'
      BY DEF IInv, InOrderOnce
<1> QED
    BY <1>3, <1>5, <1>6 DEF Order

LEMMA Still ==
    ASSUME IInv, UNCHANGED <<th, copies>>, Single(tree'), connections' \subseteq Client, ServiceKept
    PROVE  Order'
<1>1. Handlers'
      BY DEF IInv, Handlers, Stage, ServiceKept
<1>2. \A d \in Client : \A k \in ToSet(copies[d]) : Passed(k, d)'
      BY DEF IInv, Written, Passed, ServiceKept
<1>3. Written' /\ InOrderOnce'
      BY <1>2 DEF IInv, Written, InOrderOnce
<1> QED
    BY <1>1, <1>3 DEF Order

\* What the properties record of publications are the clients they are due.
LEMMA Steady ==
    ASSUME IInv
    PROVE  /\ UNCHANGED sent => ServiceKept
           /\ Release => ServiceKept
           /\ \A c \in Client : \A found : Miss(c, found) => ServiceKept
           /\ Single(tree) /\ connections \subseteq Client
<1>1. Single(tree) /\ connections \subseteq Client
      BY DEF IInv, Handlers
<1>2. UNCHANGED sent => ServiceKept
      BY DEF ServiceKept
<1>3. ASSUME Release PROVE ServiceKept
  <2>1. PICK s : s = sent[Service]
        OBVIOUS
  <2>2. s \in Seq(ToSet(s)) /\ Service \in DOMAIN sent
        BY <2>1 DEF IInv, Handlers
  <2>3. DOMAIN sent' = DOMAIN sent /\ sent'[Service] = [n \in DOMAIN s |-> s[n]]
        BY <1>3, <2>1, <2>2 DEF Release
  <2> QED
      BY <2>1, <2>2, <2>3 DEF ServiceKept
<1>4. ASSUME NEW c \in Client, NEW found, Miss(c, found) PROVE ServiceKept
  <2>1. PICK x : sent' = [sent EXCEPT ![c] = x]
    <3>1. PICK i : i = th[c].read
          OBVIOUS
    <3>2. PICK D : D = {e.client : e \in found}
          OBVIOUS
    <3>3. PICK x : x = [sent[c] EXCEPT ![i].due = @ \cap D]
          OBVIOUS
    <3>4. sent' = [sent EXCEPT ![c] = x]
          BY <1>4, <3>1, <3>2, <3>3 DEF Miss
    <3> QED
        BY <3>4
  <2> QED
      BY <2>1, ClientAssumption DEF ServiceKept
<1> QED
    BY <1>1, <1>2, <1>3, <1>4

\* The fields of handler c when it is in state pc.
LEMMA Locals ==
    ASSUME IInv, NEW c \in Client, NEW s, s = th[c]
    PROVE  /\ Stage(s) /\ s.read \in Nat /\ s.id \in Nat /\ DOMAIN th = Client
           /\ s.pc \notin Looping => s.todo = {}
           /\ s.pc \notin Looping \ {"route"} => s.cur = {}
           /\ s.pc # "deliver" => s.id = 0
           /\ Single(tree) /\ connections \subseteq Client
BY DEF IInv, Handlers, Stage

LEMMA Ended ==
    ASSUME NEW x, NEW n
    PROVE  [Start EXCEPT !.pc = "closed", !.info = x, !.read = n]
           = [pc |-> "closed", info |-> x, read |-> n, pub |-> NoPub, todo |-> {}, cur |-> {}, id |-> 0]
<1>1. PICK p : p = NoPub
      OBVIOUS
<1>2. PICK u : u = [pc |-> "first", info |-> <<>>, read |-> 0, pub |-> p, todo |-> {}, cur |-> {}, id |-> 0]
      OBVIOUS
<1>3. PICK v : v = [u EXCEPT !.pc = "closed"]
      OBVIOUS
<1>4. PICK w : w = [v EXCEPT !.info = x]
      OBVIOUS
<1>5. v = [pc |-> "closed", info |-> <<>>, read |-> 0, pub |-> p, todo |-> {}, cur |-> {}, id |-> 0]
      BY <1>2, <1>3
<1>6. w = [pc |-> "closed", info |-> x, read |-> 0, pub |-> p, todo |-> {}, cur |-> {}, id |-> 0]
      BY <1>4, <1>5
<1>7. [w EXCEPT !.read = n]
      = [pc |-> "closed", info |-> x, read |-> n, pub |-> p, todo |-> {}, cur |-> {}, id |-> 0]
      BY <1>6
<1>8. u = Start
      BY <1>1, <1>2 DEF Start
<1>9. [u EXCEPT !.pc = "closed", !.info = x, !.read = n] = [w EXCEPT !.read = n]
      BY <1>2, <1>3, <1>4
<1> QED
    BY <1>1, <1>7, <1>8, <1>9

LEMMA Closing ==
    ASSUME IInv, NEW c \in Client, Close(c), Single(tree'), UNCHANGED copies, ServiceKept
    PROVE  Order'
<1> DEFINE t == [Start EXCEPT !.pc = "closed", !.info = th[c].info, !.read = th[c].read]
<1>1. th' = [th EXCEPT ![c] = t] /\ connections' = connections \ {c}
      BY DEF Close
<1>2. /\ t = [pc |-> "closed", info |-> th[c].info, read |-> th[c].read, pub |-> NoPub,
              todo |-> {}, cur |-> {}, id |-> 0]
      BY Ended
<1> HIDE DEF t
<1>3. th[c].read \in Nat /\ connections \subseteq Client
      BY DEF IInv, Handlers, Stage
<1>4. Stage(t) /\ t.todo = {} /\ t.read = th[c].read /\ t.pc = "closed"
      BY <1>2, <1>3 DEF Stage, Looping
<1> QED
    BY <1>1, <1>3, <1>4, Step

LEMMA Failing ==
    ASSUME IInv, NEW c \in Client, NEW r, Fails(c, r), UNCHANGED sent
    PROVE  Order'
<1>1. Single(tree) /\ ServiceKept /\ connections \subseteq Client
      BY Steady
<1>2. CASE Close(c) /\ UNCHANGED <<output, sessions>>
      BY <1>1, <1>2, Closing DEF output, sessions
<1>3. CASE UNCHANGED <<th, connections, output, sessions>>
      BY <1>1, <1>3, Still DEF output, sessions
<1> QED
    BY <1>2, <1>3 DEF Fails, Dies
-----------------------------------------------------------------------------
(***************************************************************************)
(* What clients send, and the packets other than PUBLISH.                  *)
(***************************************************************************)
LEMMA PeerStep ==
    ASSUME IInv, NEW c \in Client, Peer(c)
    PROVE  Order'
<1>1. UNCHANGED broker
      BY DEF Peer, Hello, Post, Ask, Misbehave, Transmit
<1>2. UNCHANGED <<th, connections, tree, copies>>
      BY <1>1 DEF broker, output, sessions
<1>3. sent' = sent \/ \E x : sent' = [sent EXCEPT ![c] = x]
  <2>1. Hello(c) \/ Ask(c) \/ Misbehave(c) => sent' = sent
        BY DEF Hello, Ask, Misbehave
  <2>2. Post(c) => \E x : sent' = [sent EXCEPT ![c] = x]
        BY DEF Post
  <2> QED
      BY <2>1, <2>2 DEF Peer
<1>4. sent'[Service] = sent[Service] /\ DOMAIN sent' = DOMAIN sent
  <2>1. Service # c /\ Service \in DOMAIN sent
        BY ClientAssumption DEF IInv, Handlers
  <2>2. ASSUME NEW x, sent' = [sent EXCEPT ![c] = x]
        PROVE  sent'[Service] = sent[Service] /\ DOMAIN sent' = DOMAIN sent
        BY <2>1, <2>2
  <2> QED
      BY <1>3, <2>2
<1> QED
    BY <1>2, <1>4, Steady, Still DEF ServiceKept

LEMMA FirstPacketStep ==
    ASSUME IInv, NEW c \in Client, FirstPacket(c)
    PROVE  Order'
<1>1. UNCHANGED <<tree, sent>> /\ th[c].pc = "first"
      BY DEF FirstPacket, At, sessions, history
<1>2. \/ /\ \E x : th' = [th EXCEPT ![c].pc = "read", ![c].info = x]
         /\ connections' = connections \cup {c} /\ copies' = copies
      \/ UNCHANGED <<th, connections, copies>>
      BY DEF FirstPacket, Reply, Dies, output
<1>3. ASSUME NEW x, th' = [th EXCEPT ![c].pc = "read", ![c].info = x],
             connections' = connections \cup {c}, copies' = copies
      PROVE  Order'
  <2>1. PICK s : s = th[c]
        OBVIOUS
  <2>2. Stage(s) /\ s.read \in Nat /\ s.todo = {} /\ s.cur = {} /\ s.id = 0
        BY <1>1, <2>1, Locals DEF Looping
  <2>3. PICK u : u = [s EXCEPT !.pc = "read"]
        OBVIOUS
  <2>4. PICK t : t = [u EXCEPT !.info = x]
        OBVIOUS
  <2>5. c \in DOMAIN th
        BY DEF IInv, Handlers
  <2>6. th' = [th EXCEPT ![c] = t]
        BY <1>3, <2>1, <2>3, <2>4, <2>5
  <2>7. /\ u = [pc |-> "read", info |-> s.info, read |-> s.read, pub |-> s.pub,
                todo |-> {}, cur |-> {}, id |-> 0]
        BY <2>2, <2>3 DEF Stage
  <2>8. /\ t = [pc |-> "read", info |-> x, read |-> s.read, pub |-> s.pub,
                todo |-> {}, cur |-> {}, id |-> 0]
        BY <2>4, <2>7
  <2>9. Stage(t) /\ t.todo = {} /\ t.read = th[c].read /\ t.pc = "read"
        BY <2>1, <2>2, <2>8 DEF Stage, Looping
  <2>10. connections' \subseteq Client /\ Single(tree')
        BY <1>1, <1>3 DEF IInv, Handlers
  <2> QED
      BY <1>1, <1>3, <2>6, <2>9, <2>10, Steady, Step
<1>4. CASE UNCHANGED <<th, connections, copies>>
      BY <1>1, <1>4, Steady, Still
<1> QED
    BY <1>2, <1>3, <1>4

LEMMA EndStep ==
    ASSUME IInv, NEW c \in Client, ReadError(c) \/ Unsupported(c) \/ PingReq(c)
    PROVE  Order'
<1>1. UNCHANGED <<tree, copies, sent>>
      BY DEF ReadError, Unsupported, PingReq, Reply, output, sessions, history
<1>2. Close(c) \/ UNCHANGED <<th, connections>>
      BY DEF ReadError, Unsupported, PingReq
<1> QED
    BY <1>1, <1>2, Closing, Still, Steady

LEMMA InsertAllSingle ==
    ASSUME Single(tree), NEW c, NEW subs
    PROVE  Single(InsertAll(c, subs))
<1> DEFINE has == {e.topic : e \in {f \in tree : f.client = c}}
           new == {Entry(c, subs, topic) : topic \in {s.topic : s \in ToSet(subs)} \ has}
<1>1. InsertAll(c, subs) = tree \cup new
      BY DEF InsertAll
<1>2. \A topic : Entry(c, subs, topic).client = c /\ Entry(c, subs, topic).topic = topic
      BY DEF Entry
<1>3. \A e \in new : /\ e.client = c /\ e.topic \notin has /\ e = Entry(c, subs, e.topic)
      BY <1>2
<1>4. \A e \in tree : e.client = c => e.topic \in has
      OBVIOUS
<1> HIDE DEF has, new
<1>5. Single(tree \cup new)
      BY <1>3, <1>4 DEF Single
<1> QED
    BY <1>1, <1>5

LEMMA DeleteSingle ==
    ASSUME Single(tree), NEW c, NEW topics, DeleteSubscriptions(c, topics)
    PROVE  Single(tree')
<1>1. tree' \subseteq tree \/ SaveOutdated({})
      BY DEF DeleteSubscriptions
<1> QED
    BY <1>1 DEF Single, SaveOutdated

LEMMA SubscribeStep ==
    ASSUME IInv, NEW c \in Client, Subscribe(c)
    PROVE  Order'
<1>1. \/ /\ \/ \E subs : tree' = InsertAll(c, subs)
            \/ \E new : SaveOutdated(new)
         /\ UNCHANGED <<th, connections, copies>>
         /\ Release \/ UNCHANGED sent
      \/ \E r : Fails(c, r) /\ UNCHANGED sent
      BY DEF Subscribe, Reply
<1>2. (\E subs : tree' = InsertAll(c, subs)) \/ (\E new : SaveOutdated(new)) => Single(tree')
      BY InsertAllSingle, Steady DEF SaveOutdated
<1> QED
    BY <1>1, <1>2, Steady, Still, Failing

LEMMA UnsubscribeStep ==
    ASSUME IInv, NEW c \in Client, Unsubscribe(c)
    PROVE  Order'
<1>1. \/ /\ \E topics : DeleteSubscriptions(c, topics)
         /\ Release /\ UNCHANGED <<th, connections, copies>>
      \/ \E r : Fails(c, r) /\ UNCHANGED sent
      BY DEF Unsubscribe, Reply
<1> QED
    BY <1>1, DeleteSingle, Steady, Still, Failing

LEMMA DisconnectStep ==
    ASSUME IInv, NEW c \in Client, Disconnect(c)
    PROVE  Order'
<1>1. UNCHANGED copies /\ Close(c) /\ ServiceKept
      BY Steady DEF Disconnect, output
<1>2. Single(tree')
  <2>1. (\E topics : DeleteSubscriptions(c, topics)) \/ UNCHANGED tree
        BY DEF Disconnect
  <2> QED
      BY <2>1, DeleteSingle, Steady
<1> QED
    BY <1>1, <1>2, Closing
-----------------------------------------------------------------------------
(***************************************************************************)
(* PUBLISH.                                                                *)
(***************************************************************************)
LEMMA PublishStep ==
    ASSUME IInv, NEW c \in Client, Publish(c)
    PROVE  Order'
<1>1. UNCHANGED sent /\ th[c].pc = "read"
      BY DEF Publish, At, history
<1>2. \/ /\ \E p : Handle(c, p, "save") \/ Handle(c, p, "match")
         /\ UNCHANGED <<connections, tree, copies>>
      \/ \E r : Fails(c, r)
      BY DEF Publish, output
<1>3. ASSUME NEW p, NEW label \in {"save", "match"}, Handle(c, p, label),
             UNCHANGED <<connections, tree, copies>>
      PROVE  Order'
  <2>1. PICK q : q = IF p.payload = <<>> THEN NoPub ELSE p
        OBVIOUS
  <2>2. PICK l : l = IF p.payload = <<>> THEN "read" ELSE label
        OBVIOUS
  <2>3. th' = [th EXCEPT ![c].read = @ + 1, ![c].pub = q, ![c].pc = l]
        BY <1>3, <2>1, <2>2 DEF Handle
  <2>4. PICK s : s = th[c]
        OBVIOUS
  <2>5. Stage(s) /\ s.read \in Nat /\ s.todo = {} /\ s.cur = {} /\ s.id = 0
        BY <1>1, <2>4, Locals DEF Looping
  <2>6. PICK u : u = [s EXCEPT !.read = @ + 1]
        OBVIOUS
  <2>7. PICK v : v = [u EXCEPT !.pub = q]
        OBVIOUS
  <2>8. PICK t : t = [v EXCEPT !.pc = l]
        OBVIOUS
  <2>9. c \in DOMAIN th
        BY DEF IInv, Handlers
  <2>10. th' = [th EXCEPT ![c] = t]
        BY <2>3, <2>4, <2>6, <2>7, <2>8, <2>9
  <2>11. u = [pc |-> s.pc, info |-> s.info, read |-> s.read + 1, pub |-> s.pub,
              todo |-> {}, cur |-> {}, id |-> 0]
        BY <2>5, <2>6 DEF Stage
  <2>12. v = [pc |-> s.pc, info |-> s.info, read |-> s.read + 1, pub |-> q,
              todo |-> {}, cur |-> {}, id |-> 0]
        BY <2>7, <2>11
  <2>13. t = [pc |-> l, info |-> s.info, read |-> s.read + 1, pub |-> q,
              todo |-> {}, cur |-> {}, id |-> 0]
        BY <2>8, <2>12
  <2>14. Stage(t) /\ t.read = th[c].read + 1
        BY <2>4, <2>5, <2>13 DEF Stage, Looping
  <2>15. Single(tree') /\ connections' \subseteq Client
        BY <1>3 DEF IInv, Handlers
  <2> QED
      BY <1>1, <1>3, <2>10, <2>14, <2>15, Steady, Step
<1>4. Single(tree)
      BY DEF IInv, Handlers
<1> QED
    BY <1>1, <1>2, <1>3, Failing

LEMMA SaveSessionStep ==
    ASSUME IInv, NEW c \in Client, SaveSession(c)
    PROVE  Order'
<1>1. /\ UNCHANGED <<connections, tree, copies, sent>>
      /\ th[c].pc = "save" /\ th' = [th EXCEPT ![c].pc = "match"]
      BY DEF SaveSession, At, Goto, output, history
<1>2. c \in DOMAIN th /\ Single(tree') /\ connections' \subseteq Client
      BY <1>1 DEF IInv, Handlers
<1>3. PICK s : s = th[c]
      OBVIOUS
<1>4. Stage(s) /\ s.read \in Nat /\ s.todo = {} /\ s.cur = {} /\ s.id = 0
      BY <1>1, <1>3, Locals DEF Looping
<1>5. PICK t : t = [s EXCEPT !.pc = "match"]
      OBVIOUS
<1>6. th' = [th EXCEPT ![c] = t]
      BY <1>1, <1>2, <1>3, <1>5
<1>7. t = [pc |-> "match", info |-> s.info, read |-> s.read, pub |-> s.pub,
           todo |-> {}, cur |-> {}, id |-> 0]
      BY <1>4, <1>5 DEF Stage
<1>8. Stage(t) /\ t.read = th[c].read
      BY <1>3, <1>4, <1>7 DEF Stage, Looping
<1> QED
    BY <1>1, <1>2, <1>6, <1>8, Steady, Step

\* What is found has one subscription of a client, outdated or not.
LEMMA MatchTopicStep ==
    ASSUME IInv, NEW c \in Client, MatchTopic(c)
    PROVE  Order'
<1>1. /\ UNCHANGED <<connections, tree, copies>> /\ th[c].pc = "match" /\ ServiceKept
      /\ Single(tree') /\ connections' \subseteq Client
  <2>1. UNCHANGED <<connections, tree, copies>> /\ th[c].pc = "match"
        BY DEF MatchTopic, At, output, sessions
  <2>2. UNCHANGED sent \/ \E found : Miss(c, found)
        BY DEF MatchTopic
  <2> QED
      BY <2>1, <2>2, Steady
<1>2. c \in DOMAIN th
      BY DEF IInv, Handlers
<1>3. PICK s : s = th[c]
      OBVIOUS
<1>4. Stage(s) /\ s.read \in Nat /\ s.todo = {} /\ s.cur = {} /\ s.id = 0
      BY <1>1, <1>3, Locals DEF Looping
<1>5. PICK u : u = [s EXCEPT !.pc = "route"]
      OBVIOUS
<1>6. u = [pc |-> "route", info |-> s.info, read |-> s.read, pub |-> s.pub,
           todo |-> {}, cur |-> {}, id |-> 0]
      BY <1>4, <1>5 DEF Stage
<1>7. ASSUME NEW T, \A e, f \in T : e.client = f.client => e = f,
             th' = [th EXCEPT ![c].pc = "route", ![c].todo = T]
      PROVE  Order'
  <2>1. PICK t : t = [u EXCEPT !.todo = T]
        OBVIOUS
  <2>2. th' = [th EXCEPT ![c] = t]
        BY <1>2, <1>3, <1>5, <1>7, <2>1
  <2>3. t = [pc |-> "route", info |-> s.info, read |-> s.read, pub |-> s.pub,
             todo |-> T, cur |-> {}, id |-> 0]
        BY <1>6, <2>1
  <2>4. Stage(t) /\ t.read = th[c].read
        BY <1>3, <1>4, <1>7, <2>3 DEF Stage, Looping
  <2> QED
      BY <1>1, <1>2, <2>2, <2>4, Step
<1>8. \/ \E T : /\ \A e, f \in T : e.client = f.client => e = f
                /\ th' = [th EXCEPT ![c].pc = "route", ![c].todo = T]
      \/ UNCHANGED th
  <2>1. Single(tree)
        BY Steady
  <2>2. PICK x : x = th[c].pub.topic
        OBVIOUS
  <2>3. \A e, f \in {e \in tree : e.topic = x} : e.client = f.client => e = f
        BY <2>1 DEF Single
  <2>4. ASSUME NEW found, found \subseteq {e \in seen : e.topic = x}, Single(found)
        PROVE  \A e, f \in found : e.client = f.client => e = f
        BY <2>4 DEF Single
  <2>5. \/ th' = [th EXCEPT ![c].pc = "route", ![c].todo = {e \in tree : e.topic = x}]
        \/ \E found : /\ found \subseteq {e \in seen : e.topic = x} /\ Single(found)
                      /\ th' = [th EXCEPT ![c].pc = "route", ![c].todo = found]
        \/ th' = [th EXCEPT ![c].pc = "route", ![c].todo = {}]
        \/ UNCHANGED th
        BY <2>2 DEF MatchTopic
  <2>6. \A e, f \in {} : e.client = f.client => e = f
        OBVIOUS
  <2> QED
      BY <2>3, <2>4, <2>5, <2>6
<1>9. CASE UNCHANGED th
      BY <1>1, <1>9, Still
<1> QED
    BY <1>7, <1>8, <1>9

\* The loop ends, or the subscription to be served next is chosen.
LEMMA NumberStep ==
    ASSUME IInv, NEW c \in Client, Number(c)
    PROVE  Order'
<1>1. UNCHANGED <<connections, tree, copies, sent>> /\ th[c].pc = "route"
      BY DEF Number, At, output, sessions, history
<1>2. /\ c \in DOMAIN th /\ Single(tree') /\ connections' \subseteq Client
      BY <1>1 DEF IInv, Handlers
<1>3. PICK s : s = th[c]
      OBVIOUS
<1>4. Stage(s) /\ s.read \in Nat /\ s.cur = {} /\ s.id = 0
      BY <1>1, <1>3, Locals
<1>5. CASE s.todo = {} /\ th' = [th EXCEPT ![c].pc = "read", ![c].pub = NoPub]
  <2>1. PICK p : p = NoPub
        OBVIOUS
  <2>2. PICK u : u = [s EXCEPT !.pc = "read"]
        OBVIOUS
  <2>3. PICK t : t = [u EXCEPT !.pub = p]
        OBVIOUS
  <2>4. th' = [th EXCEPT ![c].pc = "read", ![c].pub = p]
        BY <1>5, <2>1
  <2>5. th' = [th EXCEPT ![c] = t]
        BY <1>2, <1>3, <2>2, <2>3, <2>4
  <2>6. u = [pc |-> "read", info |-> s.info, read |-> s.read, pub |-> s.pub,
             todo |-> {}, cur |-> {}, id |-> 0]
        BY <1>4, <1>5, <2>2 DEF Stage
  <2>7. t = [pc |-> "read", info |-> s.info, read |-> s.read, pub |-> p,
             todo |-> {}, cur |-> {}, id |-> 0]
        BY <2>3, <2>6
  <2>8. Stage(t) /\ t.read = th[c].read /\ t.pc = "read" /\ t.todo \subseteq th[c].todo
        BY <1>3, <1>4, <2>7 DEF Stage, Looping
  <2> QED
      BY <1>1, <1>2, <2>5, <2>8, Steady, Step
<1>6. ASSUME NEW e \in s.todo, NEW x \in {"create", "return", "deliver"},
             th' = [th EXCEPT ![c].pc = x, ![c].cur = {e}]
      PROVE  Order'
  <2>1. PICK u : u = [s EXCEPT !.pc = x]
        OBVIOUS
  <2>2. PICK t : t = [u EXCEPT !.cur = {e}]
        OBVIOUS
  <2>3. th' = [th EXCEPT ![c] = t]
        BY <1>2, <1>3, <1>6, <2>1, <2>2
  <2>4. u = [pc |-> x, info |-> s.info, read |-> s.read, pub |-> s.pub,
             todo |-> s.todo, cur |-> {}, id |-> 0]
        BY <1>4, <2>1 DEF Stage
  <2>5. t = [pc |-> x, info |-> s.info, read |-> s.read, pub |-> s.pub,
             todo |-> s.todo, cur |-> {e}, id |-> 0]
        BY <2>2, <2>4
  <2>6. \A f, g \in s.todo : f.client = g.client => f = g
        BY <1>4 DEF Stage
  <2>7. x \in Looping \ {"route"} /\ x \notin {"save", "match"}
        BY DEF Looping
  <2>8. /\ Stage(t) /\ t.read = th[c].read /\ t.pc = x /\ t.todo \subseteq th[c].todo
        BY <1>3, <1>4, <2>5, <2>6, <2>7, SMTT(30) DEF Stage
  <2> QED
      BY <1>1, <1>2, <2>3, <2>7, <2>8, Steady, Step
<1>7. \/ s.todo = {} /\ th' = [th EXCEPT ![c].pc = "read", ![c].pub = NoPub]
      \/ \E e \in s.todo : \E x \in {"create", "return", "deliver"} :
            th' = [th EXCEPT ![c].pc = x, ![c].cur = {e}]
      BY <1>3 DEF Number
<1> QED
    BY <1>5, <1>6, <1>7

\* On the way to an identifier the loop stays as it is.
LEMMA NumberingStep ==
    ASSUME IInv, NEW c \in Client, Numbering(c)
    PROVE  Order'
<1>1. UNCHANGED <<connections, tree, copies, sent>> /\ th[c].pc \in Looping \ {"route", "deliver"}
      BY DEF Numbering, Create, Return, NextID, At, output, sessions, history, Looping
<1>2. /\ c \in DOMAIN th /\ Single(tree') /\ connections' \subseteq Client
      BY <1>1 DEF IInv, Handlers
<1>3. PICK s : s = th[c]
      OBVIOUS
<1>4. Stage(s) /\ s.read \in Nat /\ s.id = 0
      BY <1>1, <1>3, Locals
<1>5. ASSUME NEW n \in Nat, th' = [th EXCEPT ![c].pc = "deliver", ![c].id = n]
      PROVE  Order'
  <2>1. PICK u : u = [s EXCEPT !.pc = "deliver"]
        OBVIOUS
  <2>2. PICK t : t = [u EXCEPT !.id = n]
        OBVIOUS
  <2>3. th' = [th EXCEPT ![c] = t]
        BY <1>2, <1>3, <1>5, <2>1, <2>2
  <2>4. u = [pc |-> "deliver", info |-> s.info, read |-> s.read, pub |-> s.pub,
             todo |-> s.todo, cur |-> s.cur, id |-> 0]
        BY <1>4, <2>1 DEF Stage
  <2>5. t = [pc |-> "deliver", info |-> s.info, read |-> s.read, pub |-> s.pub,
             todo |-> s.todo, cur |-> s.cur, id |-> n]
        BY <2>2, <2>4
  <2>6. s.cur \subseteq s.todo /\ \A f, g \in s.todo : f.client = g.client => f = g
        BY <1>4 DEF Stage
  <2>7. "deliver" \in Looping \ {"route"}
        BY DEF Looping
  <2>8. /\ Stage(t) /\ t.read = th[c].read /\ t.pc = "deliver" /\ t.todo \subseteq th[c].todo
        BY <1>3, <1>4, <1>5, <2>5, <2>6, <2>7, SMTT(30) DEF Stage
  <2> QED
      BY <1>1, <1>2, <2>3, <2>7, <2>8, Steady, Step
<1>6. CASE Create(c) \/ Return(c)
  <2>1. PICK x \in {"return", "number"} : Goto(c, x)
        BY <1>6 DEF Create, Return
  <2>2. PICK u : u = [s EXCEPT !.pc = x]
        OBVIOUS
  <2>3. u = [pc |-> x, info |-> s.info, read |-> s.read, pub |-> s.pub,
             todo |-> s.todo, cur |-> s.cur, id |-> 0]
        BY <1>4, <2>2 DEF Stage
  <2>4. u = [u EXCEPT !.id = 0]
        BY <2>3
  <2>5. th' = [th EXCEPT ![c] = u]
        BY <1>2, <1>3, <2>1, <2>2 DEF Goto
  <2>6. s.cur \subseteq s.todo /\ \A f, g \in s.todo : f.client = g.client => f = g
        BY <1>4 DEF Stage
  <2>7. x \in Looping \ {"route"} /\ x \notin {"save", "match"}
        BY DEF Looping
  <2>8. /\ Stage(u) /\ u.read = th[c].read /\ u.pc = x /\ u.todo \subseteq th[c].todo
        BY <1>3, <1>4, <2>3, <2>6, <2>7, SMTT(30) DEF Stage
  <2> QED
      BY <1>1, <1>2, <2>5, <2>7, <2>8, Steady, Step
<1>7. CASE NextID(c)
  <2>1. manager[c] \in 1..Len(currentID) /\ currentID \in Seq(Nat \ {0})
        BY <1>7 DEF IInv, Counters, NextID, At
  <2>2. PICK n \in Nat : n = currentID[manager[c]]
        BY <2>1
  <2>3. th' = [th EXCEPT ![c].pc = "deliver", ![c].id = n]
        BY <1>7, <2>2 DEF NextID
  <2> QED
      BY <1>5, <2>3
<1> QED
    BY <1>6, <1>7 DEF Numbering
-----------------------------------------------------------------------------
(***************************************************************************)
(* A copy is written to client k: a later one of its sender than all that  *)
(* client has from it.                                                     *)
(***************************************************************************)
LEMMA Lengthened ==
    ASSUME NEW s, s \in Seq(ToSet(s)), NEW x, NEW r, r = Append(s, x)
    PROVE  /\ r \in Seq(ToSet(r)) /\ \A y \in ToSet(r) : y \in ToSet(s) \/ y = x
           /\ Len(s) \in Nat /\ DOMAIN s = 1..Len(s) /\ DOMAIN r = 1..Len(s) + 1
           /\ \A i \in DOMAIN r : \/ i \in DOMAIN s /\ r[i] = s[i] /\ s[i] \in ToSet(s)
                                  \/ i = Len(s) + 1 /\ r[i] = x
<1>1. /\ r \in Seq(ToSet(r)) /\ Len(s) \in Nat
      /\ DOMAIN s = 1..Len(s) /\ DOMAIN r = 1..Len(s) + 1
      /\ r[Len(s) + 1] = x /\ \A i \in DOMAIN s : r[i] = s[i]
  <2>1. r \in Seq(ToSet(r))
        BY Appended
  <2>2. Len(s) \in Nat /\ DOMAIN s = 1..Len(s) /\ DOMAIN r = 1..Len(s) + 1
        BY Appended
  <2>3. r[Len(s) + 1] = x /\ \A i \in DOMAIN s : r[i] = s[i]
        BY Appended
  <2> QED
      BY <2>1, <2>2, <2>3
<1>2. \A i \in 1..Len(s) + 1 : i \in 1..Len(s) \/ i = Len(s) + 1
      BY <1>1
<1>3. \A i \in DOMAIN s : s[i] \in ToSet(s)
      BY DEF ToSet
<1>4. \A y \in ToSet(r) : y \in ToSet(s) \/ y = x
      BY <1>1, <1>2 DEF ToSet
<1>5. \A i \in DOMAIN r : \/ i \in DOMAIN s /\ r[i] = s[i] /\ s[i] \in ToSet(s)
                          \/ i = Len(s) + 1 /\ r[i] = x
      BY <1>1, <1>2, <1>3
<1> QED
    BY <1>1, <1>4, <1>5

LEMMA Writing ==
    ASSUME IInv, NEW k \in Client, NEW x, x.nth \in Nat,
           copies' = [copies EXCEPT ![k] = Append(@, x)],
           Handlers', Passed(x, k)',
           \A d \in Client : \A y \in ToSet(copies[d]) : Passed(y, d)',
           \A y \in ToSet(copies[k]) : y.from = x.from => y.nth < x.nth
    PROVE  Order'
<1>1. PICK s : s = copies[k]
      OBVIOUS
<1>2. PICK r : r = copies'[k]
      OBVIOUS
<1>3. /\ DOMAIN copies' = Client /\ copies'[k] = r
      /\ \A d \in Client \ {k} : copies'[d] = copies[d]
      /\ s \in Seq(ToSet(s)) /\ r = Append(s, x)
      BY <1>1, <1>2 DEF IInv, Written
<1>5. /\ r \in Seq(ToSet(r)) /\ \A y \in ToSet(r) : y \in ToSet(s) \/ y = x
      /\ Len(s) \in Nat /\ DOMAIN s = 1..Len(s) /\ DOMAIN r = 1..Len(s) + 1
      /\ \A i \in DOMAIN r : \/ i \in DOMAIN s /\ r[i] = s[i] /\ s[i] \in ToSet(s)
                             \/ i = Len(s) + 1 /\ r[i] = x
      BY <1>3, Lengthened
<1>6. \A i \in DOMAIN r : (i \in DOMAIN s /\ r[i] = s[i] /\ s[i] \in ToSet(s)) \/ (i = Len(s) + 1 /\ r[i] = x)
      BY <1>5
<1>7. Written'
  <2>1. ASSUME NEW d \in Client, NEW y \in ToSet(copies'[d])
        PROVE  y.nth \in Nat /\ Passed(y, d)'
    <3>1. y \in ToSet(copies[d]) \/ (y = x /\ d = k)
          BY <1>1, <1>3, <1>5, <2>1
    <3>2. CASE y \in ToSet(copies[d])
          BY <3>2 DEF IInv, Written
    <3>3. CASE y = x /\ d = k
          BY <3>3
    <3> QED
        BY <3>1, <3>2, <3>3
  <2>2. \A d \in Client : copies'[d] \in Seq(ToSet(copies'[d]))
        BY <1>3, <1>5 DEF IInv, Written
  <2> QED
      BY <1>3, <2>1, <2>2 DEF Written
<1>9. InOrderOnce'
  <2>1. ASSUME NEW i \in DOMAIN r, NEW j \in DOMAIN r, i < j, r[i].from = r[j].from
        PROVE  r[i].nth < r[j].nth
    <3>1. i \in DOMAIN s /\ r[i] = s[i] /\ s[i] \in ToSet(s)
          BY <1>5, <1>6, <2>1
    <3>2. CASE j \in DOMAIN s
      <4>1. \A m, n \in DOMAIN s : m < n /\ s[m].from = s[n].from => s[m].nth < s[n].nth
            BY <1>1 DEF IInv, InOrderOnce
      <4>2. r[j] = s[j]
            BY <1>5, <1>6, <3>2
      <4> QED
          BY <2>1, <3>1, <3>2, <4>1, <4>2
    <3>3. CASE r[j] = x
          BY <1>1, <2>1, <3>1, <3>3
    <3> QED
        BY <1>6, <3>2, <3>3
  <2>2. \A d \in Client \ {k} : \A i, j \in DOMAIN copies'[d] :
           i < j /\ copies'[d][i].from = copies'[d][j].from => copies'[d][i].nth < copies'[d][j].nth
        BY <1>3 DEF IInv, InOrderOnce
  <2> QED
      BY <1>3, <2>1, <2>2 DEF InOrderOnce
<1> QED
    BY <1>7, <1>9 DEF Order

\* The subscriptions in work are of different clients: to the one that is
\* served now the publication has not been written.
LEMMA DeliverStep ==
    ASSUME IInv, NEW c \in Client, Deliver(c)
    PROVE  Order'
<1>1. UNCHANGED <<connections, tree, sent>> /\ th[c].pc = "deliver"
      BY DEF Deliver, At, sessions, history
<1>2. /\ c \in DOMAIN th /\ Single(tree') /\ connections' \subseteq Client
      BY <1>1 DEF IInv, Handlers
<1>3. PICK s : s = th[c]
      OBVIOUS
<1>4. /\ Stage(s) /\ s.read \in Nat /\ s.id \in Nat /\ s.cur \subseteq s.todo
      /\ \A f, g \in s.todo : f.client = g.client => f = g
      BY <1>3, Locals DEF Stage
<1>5. PICK e \in s.cur :
         /\ Copy(c, e)
         /\ th' = [th EXCEPT ![c].pc = "route", ![c].cur = {}, ![c].id = 0, ![c].todo = @ \ {e}]
      BY <1>3 DEF Deliver
<1>6. PICK u : u = [s EXCEPT !.pc = "route"]
      OBVIOUS
<1>7. PICK v : v = [u EXCEPT !.cur = {}]
      OBVIOUS
<1>8. PICK w : w = [v EXCEPT !.id = 0]
      OBVIOUS
<1>9. PICK t : t = [w EXCEPT !.todo = @ \ {e}]
      OBVIOUS
<1>10. th' = [th EXCEPT ![c] = t]
       BY <1>2, <1>3, <1>5, <1>6, <1>7, <1>8, <1>9
<1>11. u = [pc |-> "route", info |-> s.info, read |-> s.read, pub |-> s.pub,
            todo |-> s.todo, cur |-> s.cur, id |-> s.id]
       BY <1>4, <1>6 DEF Stage
<1>12. v = [pc |-> "route", info |-> s.info, read |-> s.read, pub |-> s.pub,
            todo |-> s.todo, cur |-> {}, id |-> s.id]
       BY <1>7, <1>11
<1>13. w = [pc |-> "route", info |-> s.info, read |-> s.read, pub |-> s.pub,
            todo |-> s.todo, cur |-> {}, id |-> 0]
       BY <1>8, <1>12
<1>14. t = [pc |-> "route", info |-> s.info, read |-> s.read, pub |-> s.pub,
            todo |-> s.todo \ {e}, cur |-> {}, id |-> 0]
       BY <1>9, <1>13
<1>15. Stage(t) /\ t.read = s.read /\ t.pc = "route" /\ t.todo = s.todo \ {e}
       BY <1>4, <1>14 DEF Stage, Looping
<1>16. CASE UNCHANGED copies
       BY <1>1, <1>2, <1>3, <1>10, <1>15, <1>16, Steady, Step
<1>17. ASSUME NEW x, e.client \in connections,
              x.from = c, x.nth = s.read,
              copies' = [copies EXCEPT ![e.client] = Append(@, x)]
       PROVE  Order'
  <2> DEFINE k == e.client
  <2>1. k \in Client
        BY <1>17 DEF IInv, Handlers
  <2>2. /\ DOMAIN th' = Client /\ th'[c] = t /\ \A d \in Client \ {c} : th'[d] = th[d]
        BY <1>10 DEF IInv, Handlers
  <2>3. Handlers'
    <3>1. \A d \in Client : Stage(th'[d])
          BY <1>15, <2>2 DEF IInv, Handlers
    <3> QED
        BY <1>1, <1>2, <2>2, <3>1 DEF IInv, Handlers
  <2>4. Passed(x, k)'
    <3>1. \A f \in t.todo : f.client # k
          BY <1>4, <1>5, <1>15
    <3> QED
        BY <1>15, <1>17, <2>2, <3>1 DEF Passed
  <2>5. ASSUME NEW d \in Client, NEW y \in ToSet(copies[d]) PROVE Passed(y, d)'
    <3>1. Passed(y, d)
          BY <2>5 DEF IInv, Written
    <3>2. CASE y.from = c
          BY <1>1, <1>3, <1>15, <2>2, <3>1, <3>2, ClientAssumption DEF Passed
    <3>3. CASE y.from # c
          BY <1>1, <2>2, <3>1, <3>3 DEF Passed
    <3> QED
        BY <3>2, <3>3
  <2>9. ASSUME NEW y \in ToSet(copies[k]), y.from = x.from PROVE y.nth < x.nth
    <3>1. Passed(y, k)
          BY <2>1, <2>9 DEF IInv, Written
    <3>2. e \in th[c].todo
          BY <1>3, <1>4, <1>5
    <3> QED
        BY <1>3, <1>17, <2>9, <3>1, <3>2, ClientAssumption DEF Passed
  <2>10. x.nth \in Nat
         BY <1>3, <1>4, <1>17
  <2> HIDE DEF k
  <2>11. copies' = [copies EXCEPT ![k] = Append(@, x)]
         BY <1>17 DEF k
  <2> QED
      BY <1>1, <2>1, <2>3, <2>4, <2>5, <2>9, <2>10, <2>11, Writing
<1>18. \/ UNCHANGED copies
       \/ /\ e.client \in connections
          /\ \E x : /\ x.from = c /\ x.nth = s.read
                    /\ copies' = [copies EXCEPT ![e.client] = Append(@, x)]
  <2>1. PICK x : x = [from |-> c, nth |-> s.read, qos |-> e.qos, id |-> s.id]
        OBVIOUS
  <2>2. x.from = c /\ x.nth = s.read
        BY <2>1
  <2>3. \/ UNCHANGED copies
        \/ /\ e.client \in connections
           /\ copies' = [copies EXCEPT ![e.client] = Append(@, x)]
        BY <1>3, <1>5, <2>1 DEF Copy, SendMessage, output
  <2> QED
      BY <2>2, <2>3
<1> QED
    BY <1>16, <1>17, <1>18

\* The service counts what it publishes itself.
LEMMA SetDevicesStateStep ==
    ASSUME IInv, NEW k \in Client, SetDevicesState(k)
    PROVE  Order'
<1>1. UNCHANGED <<th, connections, tree>>
      BY DEF SetDevicesState, sessions
<1>2. PICK z : sent' = [sent EXCEPT ![Service] = Append(@, z)]
      BY DEF SetDevicesState
<1>3. PICK s : s = sent[Service]
      OBVIOUS
<1>4. PICK r : r = Append(s, z)
      OBVIOUS
<1>5. s \in Seq(ToSet(s)) /\ Service \in DOMAIN sent
      BY <1>3 DEF IInv, Handlers
<1>6. sent'[Service] = r /\ Service \in DOMAIN sent'
      BY <1>2, <1>3, <1>4, <1>5
<1>7. r \in Seq(ToSet(r)) /\ Len(s) \in Nat /\ Len(r) = Len(s) + 1
      BY <1>4, <1>5, Appended
<1>8. Handlers'
      BY <1>1, <1>6, <1>7 DEF IInv, Handlers, Stage, Single
<1>9. ASSUME NEW d \in Client, NEW y \in ToSet(copies[d]) PROVE Passed(y, d)'
  <2>1. Passed(y, d) /\ y.nth \in Nat
        BY <1>9 DEF IInv, Written
  <2> QED
      BY <1>1, <1>3, <1>6, <1>7, <2>1 DEF Passed
<1>10. CASE UNCHANGED copies
  <2>1. Written'
        BY <1>9, <1>10 DEF IInv, Written
  <2>2. InOrderOnce'
        BY <1>10 DEF IInv, InOrderOnce
  <2> QED
      BY <1>8, <2>1, <2>2 DEF Order
<1>11. ASSUME NEW x, x.from = Service, x.nth = Len(s) + 1,
              copies' = [copies EXCEPT ![k] = Append(@, x)]
       PROVE  Order'
  <2>1. x.nth \in Nat
        BY <1>7, <1>11
  <2>2. Passed(x, k)'
        BY <1>6, <1>7, <1>11 DEF Passed
  <2>3. ASSUME NEW y \in ToSet(copies[k]), y.from = x.from PROVE y.nth < x.nth
    <3>1. Passed(y, k) /\ y.nth \in Nat
          BY <2>3 DEF IInv, Written
    <3> QED
        BY <1>3, <1>7, <1>11, <2>3, <3>1, ClientAssumption DEF Passed
  <2> QED
      BY <1>1, <1>8, <1>9, <1>11, <2>1, <2>2, <2>3, Writing
<1>12. \/ UNCHANGED copies
       \/ \E x : /\ x.from = Service /\ x.nth = Len(s) + 1
                 /\ copies' = [copies EXCEPT ![k] = Append(@, x)]
  <2>1. PICK x : x = [from |-> Service, nth |-> Len(s) + 1, qos |-> 0, id |-> 0]
        OBVIOUS
  <2>2. x.from = Service /\ x.nth = Len(s) + 1
        BY <2>1
  <2>3. UNCHANGED copies \/ copies' = [copies EXCEPT ![k] = Append(@, x)]
        BY <1>3, <2>1 DEF SetDevicesState, SendMessage, output
  <2> QED
      BY <2>2, <2>3
<1> QED
    BY <1>10, <1>11, <1>12
-----------------------------------------------------------------------------
(***************************************************************************)
(* How a step of the broker changes the handler that takes it.             *)
(***************************************************************************)

\* A handler, field by field.
Thread(x, i, r, p, T, C, n) ==
    [pc |-> x, info |-> i, read |-> r, pub |-> p, todo |-> T, cur |-> C, id |-> n]

\* Handler c becomes t, the others stay as they are.
Turned(c, t) == DOMAIN th' = Client /\ th'[c] = t /\ \A d \in Client \ {c} : th'[d] = th[d]

\* A handler is the record of its fields.
LEMMA ThreadIs ==
    ASSUME IInv, NEW c \in Client, NEW s, s = th[c]
    PROVE  /\ s = Thread(s.pc, s.info, s.read, s.pub, s.todo, s.cur, s.id) /\ DOMAIN th = Client
           /\ s.read \in Nat
BY DEF IInv, Handlers, Stage, Thread

\* The fields of such a record.
LEMMA ThreadFields ==
    ASSUME NEW x, NEW i, NEW r, NEW p, NEW T, NEW C, NEW n, NEW t, t = Thread(x, i, r, p, T, C, n)
    PROVE  t.pc = x /\ t.info = i /\ t.read = r /\ t.pub = p /\ t.todo = T /\ t.cur = C /\ t.id = n
BY DEF Thread

\* An assignment to th[c] is such a step.
LEMMA TurnedIs ==
    ASSUME DOMAIN th = Client, NEW c \in Client, NEW t, th' = [th EXCEPT ![c] = t]
    PROVE  Turned(c, t)
BY DEF Turned

\* The handshake is over.
LEMMA OpenThread ==
    ASSUME IInv, NEW c \in Client, NEW s, s = th[c], NEW x,
           th' = [th EXCEPT ![c].pc = "read", ![c].info = x]
    PROVE  Turned(c, Thread("read", x, s.read, s.pub, s.todo, s.cur, s.id))
<1>1. /\ s = [pc |-> s.pc, info |-> s.info, read |-> s.read, pub |-> s.pub, todo |-> s.todo,
              cur |-> s.cur, id |-> s.id]
      /\ DOMAIN th = Client
  BY ThreadIs DEF Thread
<1>2. PICK u : u = [s EXCEPT !.pc = "read"]
  OBVIOUS
<1>3. PICK t : t = [u EXCEPT !.info = x]
  OBVIOUS
<1>4. th' = [th EXCEPT ![c] = t]
  BY <1>1, <1>2, <1>3
<1>5. u = [pc |-> "read", info |-> s.info, read |-> s.read, pub |-> s.pub, todo |-> s.todo,
           cur |-> s.cur, id |-> s.id]
  BY <1>1, <1>2
<1>6. t = [pc |-> "read", info |-> x, read |-> s.read, pub |-> s.pub, todo |-> s.todo,
           cur |-> s.cur, id |-> s.id]
  BY <1>3, <1>5
<1>7. t = Thread("read", x, s.read, s.pub, s.todo, s.cur, s.id)
  BY <1>6 DEF Thread
<1> QED BY <1>1, <1>4, <1>7, TurnedIs

\* A publication is taken up, or, without a payload, is done with.
LEMMA HandleThread ==
    ASSUME IInv, NEW c \in Client, NEW s, s = th[c], NEW p, NEW label, Handle(c, p, label)
    PROVE  \/ /\ p.payload = <<>>
              /\ Turned(c, Thread("read", s.info, s.read + 1, NoPub, s.todo, s.cur, s.id))
           \/ /\ p.payload # <<>>
              /\ Turned(c, Thread(label, s.info, s.read + 1, p, s.todo, s.cur, s.id))
<1>1. /\ s = [pc |-> s.pc, info |-> s.info, read |-> s.read, pub |-> s.pub, todo |-> s.todo,
              cur |-> s.cur, id |-> s.id]
      /\ DOMAIN th = Client
  BY ThreadIs DEF Thread
<1>2. PICK q : q = IF p.payload = <<>> THEN NoPub ELSE p
  OBVIOUS
<1>3. PICK l : l = IF p.payload = <<>> THEN "read" ELSE label
  OBVIOUS
<1>4. th' = [th EXCEPT ![c].read = @ + 1, ![c].pub = q, ![c].pc = l]
  BY <1>2, <1>3 DEF Handle
<1>5. PICK u : u = [s EXCEPT !.read = @ + 1]
  OBVIOUS
<1>6. PICK v : v = [u EXCEPT !.pub = q]
  OBVIOUS
<1>7. PICK t : t = [v EXCEPT !.pc = l]
  OBVIOUS
<1>8. th' = [th EXCEPT ![c] = t]
  BY <1>1, <1>4, <1>5, <1>6, <1>7
<1>9. u = [pc |-> s.pc, info |-> s.info, read |-> s.read + 1, pub |-> s.pub, todo |-> s.todo,
           cur |-> s.cur, id |-> s.id]
  BY <1>1, <1>5
<1>10. v = [pc |-> s.pc, info |-> s.info, read |-> s.read + 1, pub |-> q, todo |-> s.todo,
            cur |-> s.cur, id |-> s.id]
  BY <1>6, <1>9
<1>11. t = [pc |-> l, info |-> s.info, read |-> s.read + 1, pub |-> q, todo |-> s.todo,
            cur |-> s.cur, id |-> s.id]
  BY <1>7, <1>10
<1>12. t = Thread(l, s.info, s.read + 1, q, s.todo, s.cur, s.id)
  BY <1>11 DEF Thread
<1>13. Turned(c, Thread(l, s.info, s.read + 1, q, s.todo, s.cur, s.id))
  BY <1>1, <1>8, <1>12, TurnedIs
<1> QED BY <1>2, <1>3, <1>13

\* Only the label changes.
LEMMA GotoThread ==
    ASSUME IInv, NEW c \in Client, NEW s, s = th[c], NEW label, Goto(c, label)
    PROVE  Turned(c, Thread(label, s.info, s.read, s.pub, s.todo, s.cur, s.id))
<1>1. /\ s = [pc |-> s.pc, info |-> s.info, read |-> s.read, pub |-> s.pub, todo |-> s.todo,
              cur |-> s.cur, id |-> s.id]
      /\ DOMAIN th = Client
  BY ThreadIs DEF Thread
<1>2. PICK t : t = [s EXCEPT !.pc = label]
  OBVIOUS
<1>3. th' = [th EXCEPT ![c] = t]
  BY <1>1, <1>2 DEF Goto
<1>4. t = Thread(label, s.info, s.read, s.pub, s.todo, s.cur, s.id)
  BY <1>1, <1>2 DEF Thread
<1> QED BY <1>1, <1>3, <1>4, TurnedIs

\* The subscriptions to be served are found.
LEMMA MatchThread ==
    ASSUME IInv, NEW c \in Client, NEW s, s = th[c], NEW T,
           th' = [th EXCEPT ![c].pc = "route", ![c].todo = T]
    PROVE  Turned(c, Thread("route", s.info, s.read, s.pub, T, s.cur, s.id))
<1>1. /\ s = [pc |-> s.pc, info |-> s.info, read |-> s.read, pub |-> s.pub, todo |-> s.todo,
              cur |-> s.cur, id |-> s.id]
      /\ DOMAIN th = Client
  BY ThreadIs DEF Thread
<1>2. PICK u : u = [s EXCEPT !.pc = "route"]
  OBVIOUS
<1>3. PICK t : t = [u EXCEPT !.todo = T]
  OBVIOUS
<1>4. th' = [th EXCEPT ![c] = t]
  BY <1>1, <1>2, <1>3
<1>5. u = [pc |-> "route", info |-> s.info, read |-> s.read, pub |-> s.pub, todo |-> s.todo,
           cur |-> s.cur, id |-> s.id]
  BY <1>1, <1>2
<1>6. t = Thread("route", s.info, s.read, s.pub, T, s.cur, s.id)
  BY <1>3, <1>5 DEF Thread
<1> QED BY <1>1, <1>4, <1>6, TurnedIs

\* The loop over the subscriptions ends.
LEMMA DoneThread ==
    ASSUME IInv, NEW c \in Client, NEW s, s = th[c],
           th' = [th EXCEPT ![c].pc = "read", ![c].pub = NoPub]
    PROVE  Turned(c, Thread("read", s.info, s.read, NoPub, s.todo, s.cur, s.id))
<1>1. /\ s = [pc |-> s.pc, info |-> s.info, read |-> s.read, pub |-> s.pub, todo |-> s.todo,
              cur |-> s.cur, id |-> s.id]
      /\ DOMAIN th = Client
  BY ThreadIs DEF Thread
<1>2. PICK p : p = NoPub
  OBVIOUS
<1>3. PICK u : u = [s EXCEPT !.pc = "read"]
  OBVIOUS
<1>4. PICK t : t = [u EXCEPT !.pub = p]
  OBVIOUS
<1>5. th' = [th EXCEPT ![c] = t]
  BY <1>1, <1>2, <1>3, <1>4
<1>6. u = [pc |-> "read", info |-> s.info, read |-> s.read, pub |-> s.pub, todo |-> s.todo,
           cur |-> s.cur, id |-> s.id]
  BY <1>1, <1>3
<1>7. t = Thread("read", s.info, s.read, p, s.todo, s.cur, s.id)
  BY <1>4, <1>6 DEF Thread
<1> QED BY <1>1, <1>2, <1>5, <1>7, TurnedIs

\* The next subscription is chosen.
LEMMA NumberThread ==
    ASSUME IInv, NEW c \in Client, NEW s, s = th[c], NEW x, NEW C,
           th' = [th EXCEPT ![c].pc = x, ![c].cur = C]
    PROVE  Turned(c, Thread(x, s.info, s.read, s.pub, s.todo, C, s.id))
<1>1. /\ s = [pc |-> s.pc, info |-> s.info, read |-> s.read, pub |-> s.pub, todo |-> s.todo,
              cur |-> s.cur, id |-> s.id]
      /\ DOMAIN th = Client
  BY ThreadIs DEF Thread
<1>2. PICK u : u = [s EXCEPT !.pc = x]
  OBVIOUS
<1>3. PICK t : t = [u EXCEPT !.cur = C]
  OBVIOUS
<1>4. th' = [th EXCEPT ![c] = t]
  BY <1>1, <1>2, <1>3
<1>5. u = [pc |-> x, info |-> s.info, read |-> s.read, pub |-> s.pub, todo |-> s.todo,
           cur |-> s.cur, id |-> s.id]
  BY <1>1, <1>2
<1>6. t = Thread(x, s.info, s.read, s.pub, s.todo, C, s.id)
  BY <1>3, <1>5 DEF Thread
<1> QED BY <1>1, <1>4, <1>6, TurnedIs

\* An identifier for the copy is taken.
LEMMA IdThread ==
    ASSUME IInv, NEW c \in Client, NEW s, s = th[c], NEW n,
           th' = [th EXCEPT ![c].pc = "deliver", ![c].id = n]
    PROVE  Turned(c, Thread("deliver", s.info, s.read, s.pub, s.todo, s.cur, n))
<1>1. /\ s = [pc |-> s.pc, info |-> s.info, read |-> s.read, pub |-> s.pub, todo |-> s.todo,
              cur |-> s.cur, id |-> s.id]
      /\ DOMAIN th = Client
  BY ThreadIs DEF Thread
<1>2. PICK u : u = [s EXCEPT !.pc = "deliver"]
  OBVIOUS
<1>3. PICK t : t = [u EXCEPT !.id = n]
  OBVIOUS
<1>4. th' = [th EXCEPT ![c] = t]
  BY <1>1, <1>2, <1>3
<1>5. u = [pc |-> "deliver", info |-> s.info, read |-> s.read, pub |-> s.pub, todo |-> s.todo,
           cur |-> s.cur, id |-> s.id]
  BY <1>1, <1>2
<1>6. t = Thread("deliver", s.info, s.read, s.pub, s.todo, s.cur, n)
  BY <1>3, <1>5 DEF Thread
<1> QED BY <1>1, <1>4, <1>6, TurnedIs

\* The subscription has been served.
LEMMA DeliverThread ==
    ASSUME IInv, NEW c \in Client, NEW s, s = th[c], NEW e,
           th' = [th EXCEPT ![c].pc = "route", ![c].cur = {}, ![c].id = 0, ![c].todo = @ \ {e}]
    PROVE  Turned(c, Thread("route", s.info, s.read, s.pub, s.todo \ {e}, {}, 0))
<1>1. /\ s = [pc |-> s.pc, info |-> s.info, read |-> s.read, pub |-> s.pub, todo |-> s.todo,
              cur |-> s.cur, id |-> s.id]
      /\ DOMAIN th = Client
  BY ThreadIs DEF Thread
<1>2. PICK u : u = [s EXCEPT !.pc = "route"]
  OBVIOUS
<1>3. PICK v : v = [u EXCEPT !.cur = {}]
  OBVIOUS
<1>4. PICK w : w = [v EXCEPT !.id = 0]
  OBVIOUS
<1>5. PICK t : t = [w EXCEPT !.todo = @ \ {e}]
  OBVIOUS
<1>6. th' = [th EXCEPT ![c] = t]
  BY <1>1, <1>2, <1>3, <1>4, <1>5
<1>7. u = [pc |-> "route", info |-> s.info, read |-> s.read, pub |-> s.pub, todo |-> s.todo,
           cur |-> s.cur, id |-> s.id]
  BY <1>1, <1>2
<1>8. v = [pc |-> "route", info |-> s.info, read |-> s.read, pub |-> s.pub, todo |-> s.todo,
           cur |-> {}, id |-> s.id]
  BY <1>3, <1>7
<1>9. w = [pc |-> "route", info |-> s.info, read |-> s.read, pub |-> s.pub, todo |-> s.todo,
           cur |-> {}, id |-> 0]
  BY <1>4, <1>8
<1>10. t = Thread("route", s.info, s.read, s.pub, s.todo \ {e}, {}, 0)
  BY <1>5, <1>9 DEF Thread
<1> QED BY <1>1, <1>6, <1>10, TurnedIs

\* The connection ends; what was read stays counted.
LEMMA CloseThread ==
    ASSUME IInv, NEW c \in Client, NEW s, s = th[c], Close(c)
    PROVE  /\ Turned(c, Thread("closed", s.info, s.read, NoPub, {}, {}, 0))
           /\ connections' = connections \ {c} /\ inbox' = [inbox EXCEPT ![c] = <<>>]
<1>1. DOMAIN th = Client
  BY ThreadIs
<1> DEFINE t == [Start EXCEPT !.pc = "closed", !.info = s.info, !.read = s.read]
<1>2. t = Thread("closed", s.info, s.read, NoPub, {}, {}, 0)
  BY Ended DEF Thread
<1>3. th' = [th EXCEPT ![c] = t] /\ connections' = connections \ {c} /\ inbox' = [inbox EXCEPT ![c] = <<>>]
  BY DEF Close
<1> HIDE DEF t
<1> QED BY <1>1, <1>2, <1>3, TurnedIs
-----------------------------------------------------------------------------
(***************************************************************************)
(* The identifiers.  Only a handler that makes a manager, is given one or  *)
(* takes an identifier touches them.                                       *)
(***************************************************************************)
Identified == Counters /\ (OneManager => Given /\ Apart)

\* The counter of the one manager is never 0, nor was it.
LEMMA CounterIs ==
    ASSUME IInv
    PROVE  /\ Counter \in Nat \ {0} /\ Len(currentID) \in Nat /\ currentID \in Seq(Nat \ {0})
           /\ \A n \in 1..Len(currentID) : currentID[n] \in Nat \ {0}
           /\ currentID = <<>> <=> Len(currentID) = 0
           /\ currentID # <<>> => Counter = currentID[1]
<1>1. currentID \in Seq(Nat \ {0})
  BY DEF IInv, Counters
<1>2. Len(currentID) \in Nat /\ \A n \in 1..Len(currentID) : currentID[n] \in Nat \ {0}
  BY <1>1
<1>3. currentID = <<>> <=> Len(currentID) = 0
  BY <1>1, EmptySeq
<1>4. currentID # <<>> => 1 \in 1..Len(currentID)
  BY <1>2, <1>3
<1> QED BY <1>1, <1>2, <1>3, <1>4 DEF Counter

\* Nothing is numbered and nothing is written.
LEMMA Unnumbered ==
    ASSUME IInv, UNCHANGED <<numbers, copies>>,
           \A d \in Client : /\ th'[d].id \in {0, th[d].id}
                             /\ th'[d].pc = "number" <=> th[d].pc = "number"
                             /\ th'[d].pc = "return" => th[d].pc = "return" \/ currentID # <<>>
    PROVE  Identified'
<1>1. UNCHANGED <<currentID, manager>>
  BY DEF numbers
<1>2. Counters'
  BY <1>1 DEF IInv, Counters
<1>3. Counter' = Counter /\ OneManager' = OneManager /\ Apart' = Apart
  BY <1>1 DEF Counter, OneManager, Apart
<1>4. ASSUME OneManager PROVE Given'
  <2>1. Given /\ Counter \in Nat \ {0}
    BY <1>4, CounterIs DEF IInv
  <2>2. \A d \in Client : th[d].id \in Nat
    BY DEF IInv, Handlers, Stage
  <2>3. \A d \in Client : th'[d].id < Counter'
    BY <1>3, <2>1, <2>2 DEF Given
  <2>4. \A c, d \in Client : th'[c].id = th'[d].id /\ th'[c].id # 0 => c = d
    BY <2>1 DEF Given
  <2>5. \A d \in Client : \A k \in ToSet(copies'[d]) :
           /\ k.id \in Nat /\ k.id < Counter'
           /\ k.id # 0 => \A c \in Client : th'[c].id # k.id
    BY <1>3, <2>1 DEF Given
  <2> QED BY <2>3, <2>4, <2>5 DEF Given
<1> QED BY <1>2, <1>3, <1>4 DEF Identified, IInv

\* A copy is written, with no identifier or with that of a handler which then
\* has none any more.
LEMMA CopyNumbers ==
    ASSUME IInv, UNCHANGED numbers, NEW k \in Client, NEW x,
           copies' = [copies EXCEPT ![k] = Append(@, x)],
           \A d \in Client : /\ th'[d].id \in {0, th[d].id}
                             /\ th'[d].pc = "number" <=> th[d].pc = "number"
                             /\ th'[d].pc = "return" => th[d].pc = "return",
           x.id = 0 \/ \E c \in Client : x.id = th[c].id /\ th'[c].id = 0
    PROVE  Identified'
<1>1. UNCHANGED <<currentID, manager>>
  BY DEF numbers
<1>2. Counters'
  BY <1>1 DEF IInv, Counters
<1>3. Counter' = Counter /\ OneManager' = OneManager
  BY <1>1 DEF Counter, OneManager
<1>4. PICK s : s = copies[k]
  OBVIOUS
<1>5. PICK r : r = copies'[k]
  OBVIOUS
<1>6. /\ \A d \in Client \ {k} : copies'[d] = copies[d]
      /\ s \in Seq(ToSet(s)) /\ r = Append(s, x)
  BY <1>4, <1>5 DEF IInv, Written
<1>7. /\ r \in Seq(ToSet(r)) /\ \A y \in ToSet(r) : y \in ToSet(s) \/ y = x
      /\ Len(s) \in Nat /\ DOMAIN s = 1..Len(s) /\ DOMAIN r = 1..Len(s) + 1
      /\ \A i \in DOMAIN r : \/ i \in DOMAIN s /\ r[i] = s[i] /\ s[i] \in ToSet(s)
                             \/ i = Len(s) + 1 /\ r[i] = x
  <2>1. s \in Seq(ToSet(s)) /\ r = Append(s, x)
    BY <1>6
  <2>2. r \in Seq(ToSet(r)) /\ \A y \in ToSet(r) : y \in ToSet(s) \/ y = x
    BY ONLY <2>1, Lengthened
  <2>3. Len(s) \in Nat /\ DOMAIN s = 1..Len(s) /\ DOMAIN r = 1..Len(s) + 1
    BY ONLY <2>1, Lengthened
  <2>4. \A i \in DOMAIN r : \/ i \in DOMAIN s /\ r[i] = s[i] /\ s[i] \in ToSet(s)
                            \/ i = Len(s) + 1 /\ r[i] = x
    BY ONLY <2>1, Lengthened
  <2> QED BY <2>2, <2>3, <2>4
<1>8. ASSUME OneManager PROVE Given' /\ Apart'
  <2>1. Given /\ Apart /\ Counter \in Nat \ {0}
    BY <1>8, CounterIs DEF IInv
  <2>2. \A d \in Client : th[d].id \in Nat
    BY DEF IInv, Handlers, Stage
  <2>3. \A d \in Client : th'[d].id < Counter'
    BY <1>3, <2>1, <2>2 DEF Given
  <2>4. \A c, d \in Client : th'[c].id = th'[d].id /\ th'[c].id # 0 => c = d
    BY <2>1 DEF Given
  <2>5. /\ x.id \in Nat /\ x.id < Counter
        /\ x.id # 0 => \A d \in Client : th'[d].id # x.id
        /\ x.id # 0 => \A d \in Client : \A y \in ToSet(copies[d]) : y.id # x.id
    BY <2>1, <2>2 DEF Given
  <2>6. ASSUME NEW d \in Client, NEW y \in ToSet(copies'[d])
        PROVE  /\ y.id \in Nat /\ y.id < Counter'
               /\ y.id # 0 => \A c \in Client : th'[c].id # y.id
    <3>1. y \in ToSet(copies[d]) \/ y = x
      BY <1>4, <1>5, <1>6, <1>7, <2>6
    <3>2. CASE y \in ToSet(copies[d])
      BY <1>3, <2>1, <3>2 DEF Given
    <3>3. CASE y = x
      BY <1>3, <2>5, <3>3
    <3> QED BY <3>1, <3>2, <3>3
  <2>7. Given'
    BY <2>3, <2>4, <2>6 DEF Given
  <2>8. ASSUME NEW d \in Client, NEW j \in DOMAIN copies'[d]
        PROVE  \/ /\ j \in DOMAIN copies[d] /\ copies'[d][j] = copies[d][j]
                  /\ copies[d][j] \in ToSet(copies[d])
               \/ d = k /\ j = Len(s) + 1 /\ copies'[d][j] = x
    <3>1. CASE d = k
      BY <1>4, <1>5, <1>7, <2>8, <3>1
    <3>2. CASE d # k
      BY <1>6, <2>8, <3>2 DEF ToSet
    <3> QED BY <3>1, <3>2
  <2>9. ASSUME NEW c \in Client, NEW d \in Client,
               NEW i \in DOMAIN copies'[c], NEW j \in DOMAIN copies'[d],
               copies'[c][i].id = copies'[d][j].id, copies'[c][i].id # 0
        PROVE  c = d /\ i = j
    <3>1. CASE copies'[c][i] = x /\ c = k /\ i = Len(s) + 1
      BY <2>5, <2>8, <2>9, <3>1
    <3>2. CASE copies'[d][j] = x /\ d = k /\ j = Len(s) + 1
      BY <2>5, <2>8, <2>9, <3>2
    <3>3. CASE /\ i \in DOMAIN copies[c] /\ copies'[c][i] = copies[c][i]
               /\ j \in DOMAIN copies[d] /\ copies'[d][j] = copies[d][j]
      BY <2>1, <2>9, <3>3 DEF Apart
    <3> QED BY <2>8, <3>1, <3>2, <3>3
  <2>10. Apart'
    BY <2>9 DEF Apart
  <2> QED BY <2>7, <2>10
<1> QED BY <1>2, <1>3, <1>8 DEF Identified

\* Handler c turns, with no identifier.
LEMMA TurnedNumbers ==
    ASSUME IInv, NEW c \in Client, NEW t, Turned(c, t), UNCHANGED <<numbers, copies>>,
           t.id = 0, t.pc # "number", th[c].pc # "number", t.pc = "return" => currentID # <<>>
    PROVE  Identified'
<1>1. \A d \in Client : /\ th'[d].id \in {0, th[d].id}
                        /\ th'[d].pc = "number" <=> th[d].pc = "number"
                        /\ th'[d].pc = "return" => th[d].pc = "return" \/ currentID # <<>>
  BY DEF Turned
<1> QED BY <1>1, Unnumbered

\* No handler turns.
LEMMA StillNumbers ==
    ASSUME IInv, UNCHANGED <<th, numbers, copies>>
    PROVE  Identified'
BY Unnumbered

\* What a handler does between its first packet and a publication.
LEMMA ReadNumbers ==
    ASSUME IInv, NEW c \in Client, th[c].pc \in {"first", "read"}, UNCHANGED <<numbers, copies>>,
           \/ UNCHANGED th
           \/ Close(c)
           \/ \E p, l : Handle(c, p, l) /\ l \in {"save", "match"}
           \/ \E x : th' = [th EXCEPT ![c].pc = "read", ![c].info = x]
    PROVE  Identified'
<1>1. PICK s : s = th[c]
  OBVIOUS
<1>2. s.id = 0 /\ s.pc \in {"first", "read"}
  BY <1>1, Locals
<1>3. CASE UNCHANGED th
  BY <1>3, StillNumbers
<1>4. CASE Close(c)
  <2>0. Turned(c, Thread("closed", s.info, s.read, NoPub, {}, {}, 0))
    BY <1>1, <1>4, CloseThread
  <2>1. PICK t : t = Thread("closed", s.info, s.read, NoPub, {}, {}, 0)
    OBVIOUS
  <2>2. Turned(c, t) /\ t.id = 0 /\ t.pc = "closed"
    BY <1>1, <1>4, <2>0, <2>1, ThreadFields
  <2> QED BY <1>1, <1>2, <2>2, TurnedNumbers
<1>5. ASSUME NEW p, NEW l \in {"save", "match"}, Handle(c, p, l) PROVE Identified'
  <2>1. PICK q : q \in {NoPub, p} /\ \E x \in {"read", l} :
                    Turned(c, Thread(x, s.info, s.read + 1, q, s.todo, s.cur, s.id))
    BY <1>1, <1>5, HandleThread
  <2>2. PICK x \in {"read", l} : Turned(c, Thread(x, s.info, s.read + 1, q, s.todo, s.cur, s.id))
    BY <2>1
  <2>3. PICK t : t = Thread(x, s.info, s.read + 1, q, s.todo, s.cur, s.id)
    OBVIOUS
  <2>4. t.id = 0 /\ t.pc = x
    BY <1>2, <2>3, ThreadFields
  <2> QED BY <1>1, <1>2, <2>2, <2>3, <2>4, TurnedNumbers
<1>6. ASSUME NEW x, th' = [th EXCEPT ![c].pc = "read", ![c].info = x] PROVE Identified'
  <2>0. Turned(c, Thread("read", x, s.read, s.pub, s.todo, s.cur, s.id))
    BY <1>1, <1>2, <1>6, OpenThread
  <2>1. PICK t : t = Thread("read", x, s.read, s.pub, s.todo, s.cur, s.id)
    OBVIOUS
  <2>2. Turned(c, t) /\ t.id = 0 /\ t.pc = "read"
    BY <1>1, <1>2, <1>6, <2>0, <2>1, ThreadFields
  <2> QED BY <1>1, <1>2, <2>2, TurnedNumbers
<1> QED BY <1>3, <1>4, <1>5, <1>6

\* The steps of a publication before its first copy is numbered.
LEMMA WorkNumbers ==
    ASSUME IInv, NEW c \in Client, SaveSession(c) \/ MatchTopic(c) \/ Number(c)
    PROVE  Identified'
<1>1. PICK s : s = th[c]
  OBVIOUS
<1>2. UNCHANGED <<numbers, copies>> /\ s.pc \in {"save", "match", "route"} /\ s.id = 0
  <2>1. UNCHANGED <<numbers, copies>> /\ s.pc \in {"save", "match", "route"}
    BY <1>1 DEF SaveSession, MatchTopic, Number, At, output
  <2> QED BY <1>1, <2>1, Locals
<1>3. ASSUME NEW t, Turned(c, t), t.id = 0, t.pc # "number", t.pc = "return" => currentID # <<>>
      PROVE  Identified'
  BY <1>1, <1>2, <1>3, TurnedNumbers
<1>4. CASE SaveSession(c)
  <2>0. Turned(c, Thread("match", s.info, s.read, s.pub, s.todo, s.cur, s.id))
    BY <1>1, <1>2, <1>4, GotoThread DEF SaveSession
  <2>1. PICK t : t = Thread("match", s.info, s.read, s.pub, s.todo, s.cur, s.id)
    OBVIOUS
  <2>2. Turned(c, t) /\ t.id = 0 /\ t.pc = "match"
    BY <1>1, <1>2, <1>4, <2>0, <2>1, ThreadFields DEF SaveSession
  <2> QED BY <1>3, <2>2
<1>5. CASE MatchTopic(c)
  <2>1. UNCHANGED th \/ \E T : th' = [th EXCEPT ![c].pc = "route", ![c].todo = T]
    BY <1>5 DEF MatchTopic
  <2>2. ASSUME NEW T, th' = [th EXCEPT ![c].pc = "route", ![c].todo = T] PROVE Identified'
    <3>0. Turned(c, Thread("route", s.info, s.read, s.pub, T, s.cur, s.id))
      BY <1>1, <1>2, <2>2, MatchThread
    <3>1. PICK t : t = Thread("route", s.info, s.read, s.pub, T, s.cur, s.id)
      OBVIOUS
    <3>2. Turned(c, t) /\ t.id = 0 /\ t.pc = "route"
      BY <1>1, <1>2, <2>2, <3>0, <3>1, ThreadFields
    <3> QED BY <1>3, <3>2
  <2> QED BY <1>2, <2>1, <2>2, StillNumbers
<1>6. CASE Number(c)
  <2>1. \/ th' = [th EXCEPT ![c].pc = "read", ![c].pub = NoPub]
        \/ \E C : \E x \in {"create", "return", "deliver"} :
              th' = [th EXCEPT ![c].pc = x, ![c].cur = C] /\ (x = "return" => currentID # <<>>)
    BY <1>6 DEF Number
  <2>2. CASE th' = [th EXCEPT ![c].pc = "read", ![c].pub = NoPub]
    <3>0. Turned(c, Thread("read", s.info, s.read, NoPub, s.todo, s.cur, s.id))
      BY <1>1, <1>2, <2>2, DoneThread
    <3>1. PICK t : t = Thread("read", s.info, s.read, NoPub, s.todo, s.cur, s.id)
      OBVIOUS
    <3>2. Turned(c, t) /\ t.id = 0 /\ t.pc = "read"
      BY <1>1, <1>2, <2>2, <3>0, <3>1, ThreadFields
    <3> QED BY <1>3, <3>2
  <2>3. ASSUME NEW C, NEW x \in {"create", "return", "deliver"},
               th' = [th EXCEPT ![c].pc = x, ![c].cur = C], x = "return" => currentID # <<>>
        PROVE  Identified'
    <3>0. Turned(c, Thread(x, s.info, s.read, s.pub, s.todo, C, s.id))
      BY <1>1, <1>2, <2>3, NumberThread
    <3>1. PICK t : t = Thread(x, s.info, s.read, s.pub, s.todo, C, s.id)
      OBVIOUS
    <3>2. Turned(c, t) /\ t.id = 0 /\ t.pc = x
      BY <1>1, <1>2, <2>3, <3>0, <3>1, ThreadFields
    <3> QED BY <1>3, <2>3, <3>2
  <2> QED BY <2>1, <2>2, <2>3
<1> QED BY <1>4, <1>5, <1>6

\* What handler c becomes on its way to an identifier, which is not 0.
LEMMA NumberingThread ==
    ASSUME IInv, NEW c \in Client, Numbering(c), NEW s, s = th[c]
    PROVE  /\ s.pc \in {"create", "return", "number"} /\ s.id = 0
           /\ \E x \in {"return", "number", "deliver"}, n \in Nat :
                 /\ Turned(c, Thread(x, s.info, s.read, s.pub, s.todo, s.cur, n))
                 /\ IF x = "deliver" THEN n # 0 ELSE n = 0
<1>1. s.pc \in {"create", "return", "number"}
  BY DEF Numbering, Create, Return, NextID, At
<1>2. s.id = 0
  BY <1>1, Locals
<1>3. CASE Create(c) \/ Return(c)
  <2>1. PICK x \in {"return", "number"} : Goto(c, x)
    BY <1>3 DEF Create, Return
  <2>2. Turned(c, Thread(x, s.info, s.read, s.pub, s.todo, s.cur, 0))
    BY <1>2, <2>1, GotoThread
  <2> QED BY <1>1, <1>2, <2>2
<1>4. CASE NextID(c)
  <2>1. manager[c] \in 1..Len(currentID)
    BY <1>4 DEF IInv, Counters, NextID, At
  <2>2. PICK n : n = currentID[manager[c]]
    OBVIOUS
  <2>3. n \in Nat /\ n # 0
    BY <2>1, <2>2, CounterIs
  <2>4. th' = [th EXCEPT ![c].pc = "deliver", ![c].id = n]
    BY <1>4, <2>2 DEF NextID
  <2>5. Turned(c, Thread("deliver", s.info, s.read, s.pub, s.todo, s.cur, n))
    BY <2>4, IdThread
  <2> QED BY <1>1, <1>2, <2>3, <2>5
<1> QED BY <1>1, <1>2, <1>3, <1>4 DEF Numbering

\* A manager is made: it is the only one when there was none before.
LEMMA CreateNumbers ==
    ASSUME IInv, NEW c \in Client, Create(c), UNCHANGED copies
    PROVE  Identified'
<1>1. PICK s : s = th[c]
  OBVIOUS
<1>0. Turned(c, Thread("return", s.info, s.read, s.pub, s.todo, s.cur, s.id))
  BY <1>1, GotoThread DEF Create, At
<1>2. PICK t : t = Thread("return", s.info, s.read, s.pub, s.todo, s.cur, s.id)
  OBVIOUS
<1>3. /\ Turned(c, t) /\ t.id = s.id /\ t.pc = "return" /\ s.pc = "create"
      /\ currentID' = Append(currentID, 1) /\ manager' = manager
  BY <1>1, <1>0, <1>2, ThreadFields DEF Create, At
<1>4. /\ currentID' \in Seq(Nat \ {0}) /\ Len(currentID') = Len(currentID) + 1
      /\ Len(currentID) \in Nat /\ currentID' # <<>>
  BY <1>3, CounterIs, AppendProperties
<1>5. \A d \in Client : th'[d].id = th[d].id /\ (th'[d].pc = "number" <=> th[d].pc = "number")
  BY <1>1, <1>3 DEF Turned
<1>6. Counters'
  BY <1>3, <1>4, <1>5 DEF IInv, Counters
<1>7. ASSUME OneManager' PROVE Given' /\ Apart'
  <2>1. currentID = <<>> /\ OneManager
    BY <1>4, <1>7, CounterIs DEF OneManager
  <2>2. currentID'[1] = 1
    BY <1>3, <2>1
  <2>3. Counter' = Counter
    BY <1>4, <2>1, <2>2 DEF Counter
  <2> QED BY <1>5, <2>1, <2>3 DEF IInv, Given, Apart
<1> QED BY <1>6, <1>7 DEF Identified

\* A manager is given to the handler.
LEMMA ReturnNumbers ==
    ASSUME IInv, NEW c \in Client, Return(c), UNCHANGED copies
    PROVE  Identified'
<1>1. PICK s : s = th[c]
  OBVIOUS
<1>0. Turned(c, Thread("number", s.info, s.read, s.pub, s.todo, s.cur, s.id))
  BY <1>1, GotoThread DEF Return, At
<1>2. PICK t : t = Thread("number", s.info, s.read, s.pub, s.todo, s.cur, s.id)
  OBVIOUS
<1>3. /\ Turned(c, t) /\ t.id = s.id /\ t.pc = "number" /\ s.pc = "return"
      /\ currentID' = currentID /\ manager' = [manager EXCEPT ![c] = Len(currentID)]
  BY <1>1, <1>0, <1>2, ThreadFields DEF Return, At
<1>4. \A d \in Client : th'[d].id = th[d].id
  BY <1>1, <1>3 DEF Turned
<1>5. Len(currentID) \in 1..Len(currentID) /\ currentID # <<>>
  BY <1>1, <1>3, CounterIs DEF IInv, Counters
<1>6. Counters'
  <2>1. /\ DOMAIN manager' = Client /\ manager'[c] = Len(currentID) /\ th'[c].pc = "number"
        /\ \A d \in Client \ {c} : manager'[d] = manager[d] /\ th'[d] = th[d]
    BY <1>3 DEF IInv, Counters, Turned
  <2> QED BY <1>3, <1>5, <2>1 DEF IInv, Counters
<1>7. Counter' = Counter /\ OneManager' = OneManager
  BY <1>3 DEF Counter, OneManager
<1>8. OneManager => Given' /\ Apart'
  BY <1>4, <1>7 DEF IInv, Given, Apart
<1> QED BY <1>6, <1>7, <1>8 DEF Identified

\* An identifier is taken, which nobody else has had from this manager.
LEMMA NextIDNumbers ==
    ASSUME IInv, NEW c \in Client, NextID(c), UNCHANGED copies
    PROVE  Identified'
<1>1. PICK m : m = manager[c]
  OBVIOUS
<1>2. PICK n : n = currentID[m]
  OBVIOUS
<1>3. PICK s : s = th[c]
  OBVIOUS
<1>4. PICK t : t = Thread("deliver", s.info, s.read, s.pub, s.todo, s.cur, n)
  OBVIOUS
<1>5. /\ currentID' = [currentID EXCEPT ![m] = n + 1] /\ manager' = [manager EXCEPT ![c] = 0]
      /\ th' = [th EXCEPT ![c].pc = "deliver", ![c].id = n] /\ s.pc = "number"
  BY <1>1, <1>2, <1>3 DEF NextID, At
<1>6. Turned(c, t) /\ t.id = n /\ t.pc = "deliver"
  <2>1. Turned(c, Thread("deliver", s.info, s.read, s.pub, s.todo, s.cur, n))
    BY <1>3, <1>5, IdThread
  <2> QED BY <1>4, <2>1, ThreadFields
<1>7. m \in 1..Len(currentID) /\ n \in Nat \ {0}
  BY <1>1, <1>2, <1>3, <1>5, CounterIs DEF IInv, Counters
<1>8. /\ currentID' \in Seq(Nat \ {0}) /\ Len(currentID') = Len(currentID)
      /\ currentID' # <<>> /\ currentID # <<>>
      /\ currentID'[m] = n + 1
  <2>1. /\ currentID \in Seq(Nat \ {0}) /\ Len(currentID) \in Nat
        /\ currentID = <<>> <=> Len(currentID) = 0
    BY CounterIs
  <2>2. n + 1 \in Nat \ {0}
    BY <1>7
  <2>3. currentID' \in Seq(Nat \ {0}) /\ Len(currentID') = Len(currentID) /\ currentID'[m] = n + 1
    BY <1>5, <1>7, <2>1, <2>2
  <2>4. Len(currentID) # 0
    BY <1>7, <2>1
  <2>5. currentID' # <<>>
    BY <2>3, <2>4, EmptySeq
  <2> QED BY <2>1, <2>3, <2>4, <2>5
<1>9. Counters'
  <2>1. /\ DOMAIN manager' = Client /\ manager'[c] = 0 /\ th'[c].pc = "deliver"
        /\ \A d \in Client \ {c} : manager'[d] = manager[d] /\ th'[d] = th[d]
    BY <1>5, <1>6 DEF IInv, Counters, Turned
  <2> QED BY <1>8, <2>1 DEF IInv, Counters
<1>10. OneManager' = OneManager
  BY <1>8 DEF OneManager
<1>11. ASSUME OneManager PROVE Given' /\ Apart'
  <2>1. m = 1 /\ Counter = n /\ Counter' = n + 1
    <3>1. Len(currentID) \in Nat /\ Len(currentID) <= 1
      BY <1>11, CounterIs DEF OneManager
    <3>2. m = 1
      BY <1>7, <3>1
    <3> QED BY <1>2, <1>8, <3>2 DEF Counter
  <2>2. Given /\ Apart /\ th'[c].id = n /\ \A d \in Client \ {c} : th'[d] = th[d]
    BY <1>6, <1>11 DEF IInv, Turned
  <2>3. \A d \in Client : th[d].id \in Nat /\ th[d].id < n
    BY <2>1, <2>2 DEF IInv, Handlers, Stage, Given
  <2>4. \A d \in Client : th'[d].id < n + 1
    BY <1>7, <2>2, <2>3
  <2>5. \A d, e \in Client : th'[d].id = th'[e].id /\ th'[d].id # 0 => d = e
    BY <1>7, <2>2, <2>3 DEF Given
  <2>6. \A d \in Client : \A k \in ToSet(copies[d]) :
           /\ k.id \in Nat /\ k.id < n + 1 /\ k.id # n
           /\ k.id # 0 => \A e \in Client : th'[e].id # k.id
    BY <1>7, <2>1, <2>2, <2>3 DEF Given
  <2>7. Given'
    BY <2>1, <2>4, <2>5, <2>6 DEF Given
  <2> QED BY <2>2, <2>7 DEF Apart
<1> QED BY <1>9, <1>10, <1>11 DEF Identified

\* A copy takes the identifier along.
LEMMA DeliverNumbers ==
    ASSUME IInv, NEW c \in Client, Deliver(c)
    PROVE  Identified'
<1>1. PICK s : s = th[c]
  OBVIOUS
<1>2. UNCHANGED numbers /\ s.pc = "deliver" /\ connections \subseteq Client
  BY <1>1 DEF Deliver, At, IInv, Handlers
<1>3. PICK e : /\ Copy(c, e)
               /\ th' = [th EXCEPT ![c].pc = "route", ![c].cur = {}, ![c].id = 0, ![c].todo = @ \ {e}]
  BY DEF Deliver
<1>0. Turned(c, Thread("route", s.info, s.read, s.pub, s.todo \ {e}, {}, 0))
  BY <1>1, <1>3, DeliverThread
<1>4. PICK t : t = Thread("route", s.info, s.read, s.pub, s.todo \ {e}, {}, 0)
  OBVIOUS
<1>5. Turned(c, t) /\ t.id = 0 /\ t.pc = "route"
  BY <1>1, <1>3, <1>0, <1>4, ThreadFields
<1>6. CASE UNCHANGED copies
  BY <1>1, <1>2, <1>5, <1>6, TurnedNumbers
<1>7. ASSUME NEW k \in Client, NEW x, x.id = s.id, copies' = [copies EXCEPT ![k] = Append(@, x)]
      PROVE  Identified'
  <2>1. \A d \in Client : /\ th'[d].id \in {0, th[d].id}
                          /\ th'[d].pc = "number" <=> th[d].pc = "number"
                          /\ th'[d].pc = "return" => th[d].pc = "return"
    BY <1>1, <1>2, <1>5 DEF Turned
  <2>2. x.id = th[c].id /\ th'[c].id = 0
    BY <1>1, <1>5, <1>7 DEF Turned
  <2> QED BY <1>2, <1>7, <2>1, <2>2, CopyNumbers
<1>8. \/ UNCHANGED copies
      \/ \E k \in Client : \E x : x.id = s.id /\ copies' = [copies EXCEPT ![k] = Append(@, x)]
  <2>1. PICK x : x = [from |-> c, nth |-> s.read, qos |-> e.qos, id |-> s.id]
    OBVIOUS
  <2>2. x.id = s.id
    BY <2>1
  <2>3. \/ UNCHANGED copies
        \/ e.client \in connections /\ copies' = [copies EXCEPT ![e.client] = Append(@, x)]
    BY <1>1, <1>3, <2>1 DEF Copy, SendMessage, output
  <2> QED BY <1>2, <2>2, <2>3
<1> QED BY <1>6, <1>7, <1>8

\* A message of the service has no identifier.
LEMMA ServiceNumbers ==
    ASSUME IInv, NEW k \in Client, SetDevicesState(k)
    PROVE  Identified'
<1>1. UNCHANGED <<th, numbers>>
  BY DEF SetDevicesState
<1>2. PICK x : x = [from |-> Service, nth |-> Len(sent[Service]) + 1, qos |-> 0, id |-> 0]
  OBVIOUS
<1>3. x.id = 0
  BY <1>2
<1>4. UNCHANGED copies \/ copies' = [copies EXCEPT ![k] = Append(@, x)]
  BY <1>2 DEF SetDevicesState, SendMessage, output
<1> QED BY <1>1, <1>3, <1>4, StillNumbers, CopyNumbers

\* The packets before a publication.
LEMMA PacketNumbers ==
    ASSUME IInv, NEW c \in Client,
           \/ FirstPacket(c) \/ ReadError(c) \/ Subscribe(c) \/ Unsubscribe(c) \/ PingReq(c)
           \/ Disconnect(c) \/ Unsupported(c) \/ Publish(c)
    PROVE  Identified'
<1>1. CASE FirstPacket(c)
  <2>1. UNCHANGED <<numbers, copies>> /\ th[c].pc = "first"
    BY <1>1 DEF FirstPacket, At, Reply, Dies, output
  <2>2. UNCHANGED th \/ \E x : th' = [th EXCEPT ![c].pc = "read", ![c].info = x]
    BY <1>1 DEF FirstPacket, Dies
  <2> QED BY <2>1, <2>2, ReadNumbers
<1>2. CASE ReadError(c) \/ Unsupported(c) \/ PingReq(c)
  <2>1. UNCHANGED <<numbers, copies>> /\ th[c].pc = "read"
    BY <1>2 DEF ReadError, Unsupported, PingReq, At, Reply, output
  <2>2. UNCHANGED th \/ Close(c)
    BY <1>2 DEF ReadError, Unsupported, PingReq
  <2> QED BY <2>1, <2>2, ReadNumbers
<1>3. CASE Disconnect(c)
  <2>1. UNCHANGED <<numbers, copies>> /\ th[c].pc = "read" /\ Close(c)
    BY <1>3 DEF Disconnect, At, output
  <2> QED BY <2>1, ReadNumbers
<1>4. CASE Subscribe(c) \/ Unsubscribe(c)
  <2>1. UNCHANGED numbers /\ th[c].pc = "read"
    BY <1>4 DEF Subscribe, Unsubscribe, At
  <2>2. UNCHANGED <<th, copies>> \/ \E r : Fails(c, r)
    BY <1>4 DEF Subscribe, Unsubscribe, Reply
  <2>3. \A r : Fails(c, r) => UNCHANGED copies /\ (UNCHANGED th \/ Close(c))
    BY DEF Fails, Dies, output
  <2> QED BY <2>1, <2>2, <2>3, ReadNumbers
<1>5. CASE Publish(c)
  <2>1. UNCHANGED numbers /\ th[c].pc = "read"
    BY <1>5 DEF Publish, At
  <2>2. \/ UNCHANGED copies /\ \E p, l : Handle(c, p, l) /\ l \in {"save", "match"}
        \/ \E r : Fails(c, r)
    BY <1>5 DEF Publish, output
  <2>3. \A r : Fails(c, r) => UNCHANGED copies /\ (UNCHANGED th \/ Close(c))
    BY DEF Fails, Dies, output
  <2> QED BY <2>1, <2>2, <2>3, ReadNumbers
<1> QED BY <1>1, <1>2, <1>3, <1>4, <1>5

\* Every step of a handler.
LEMMA HandlerStep ==
    ASSUME IInv, NEW c \in Client, Handler(c)
    PROVE  IInv'
<1>1. Order'
  BY FirstPacketStep, EndStep, SubscribeStep, UnsubscribeStep, DisconnectStep, PublishStep,
     SaveSessionStep, MatchTopicStep, NumberStep, NumberingStep, DeliverStep DEF Handler
<1>2. Identified'
  <2>1. Numbering(c) => Identified'
    BY CreateNumbers, ReturnNumbers, NextIDNumbers DEF Numbering, output
  <2> QED BY <2>1, PacketNumbers, WorkNumbers, DeliverNumbers DEF Handler
<1> QED BY <1>1, <1>2 DEF IInv, Order, Identified

LEMMA NextStep ==
    ASSUME IInv, [Next]_vars
    PROVE  IInv'
<1>1. ASSUME UNCHANGED vars PROVE IInv'
  <2>1. Order'
    BY <1>1, Still, Steady DEF vars, broker, output, sessions, history
  <2>2. Identified'
    BY <1>1, StillNumbers DEF vars, broker, output
  <2> QED BY <2>1, <2>2 DEF IInv, Order, Identified
<1>2. ASSUME NEW c \in Client, Peer(c) PROVE IInv'
  <2>1. UNCHANGED broker
    BY <1>2 DEF Peer, Hello, Post, Ask, Misbehave, Transmit
  <2>2. Identified'
    BY <2>1, StillNumbers DEF broker, output
  <2> QED BY <1>2, <2>2, PeerStep DEF IInv, Order, Identified
<1>3. ASSUME NEW k \in Client, SetDevicesState(k) PROVE IInv'
  BY <1>3, SetDevicesStateStep, ServiceNumbers DEF IInv, Order, Identified
<1>4. Rest => UNCHANGED vars
  BY DEF Rest
<1> QED BY <1>1, <1>2, <1>3, <1>4, HandlerStep DEF Next

(***************************************************************************)
(* The inductive invariant.                                                *)
(***************************************************************************)
THEOREM Invariant == Spec => []IInv
<1> QED
    BY Initially, NextStep, PTL DEF Spec

(***************************************************************************)
(* A subscriber gets the publications of one publisher, a client or the    *)
(* gRPC service, in the order in which they were sent and none of them     *)
(* twice, for any number of publishers whose handlers work at once, any    *)
(* subscriptions that come and go meanwhile, any failing database call and *)
(* any outdated node of the topic tree.                                    *)
(***************************************************************************)
THEOREM InOrder == Spec => []InOrderOnce
<1>1. IInv => InOrderOnce
      BY DEF IInv
<1> QED
    BY <1>1, Invariant, PTL

(***************************************************************************)
(* No two copies carry one identifier, whichever handlers took them from   *)
(* the counter and however late they write the copies, as long as one      *)
(* identifier manager was made and its counter does not come around.  Two  *)
(* handlers that number their first copies at one time may make two        *)
(* managers, which give out the same identifiers.                          *)
(***************************************************************************)
THEOREM CopiesApart == Spec => [](OneManager => Apart)
<1>1. IInv => (OneManager => Apart)
      BY DEF IInv
<1> QED
    BY <1>1, Invariant, PTL
-----------------------------------------------------------------------------
(***************************************************************************)
(* What a step of one handler leaves alone: the state of the others, the   *)
(* history of what was asked for, the bounds.                              *)
(***************************************************************************)

\* g is f, except at c perhaps.
Only(f, g, c) == DOMAIN g = DOMAIN f /\ \A d \in DOMAIN f \ {c} : g[d] = f[d]

\* Nothing changes, or an assignment to c is made.
LEMMA OnlyIs ==
    /\ \A f, c : Only(f, f, c)
    /\ \A f, c, x : Only(f, [f EXCEPT ![c] = x], c)
BY DEF Only

\* The bounds that are left.
Budget == {b \in [packets : 0..MaxPackets, errors : Nat, outdated : Nat] :
              b.errors + b.outdated <= MaxMishaps}

\* What a step may have used up.
Spends ==
    /\ spent'.packets \in {spent.packets, spent.packets + 1}
    /\ spent'.errors \in {spent.errors, spent.errors + 1}
    /\ spent' \in Budget

\* The ways to go about the bounds: nothing, a database error, an outdated node,
\* a packet or silence.
LEMMA Spending ==
    ASSUME spent \in Budget
    PROVE  /\ UNCHANGED spent => Spends
           /\ DatabaseError => Spends /\ spent'.errors > 0
           /\ Outdated => Spends /\ spent'.errors = spent.errors
           /\ Counted => Spends /\ spent'.errors = spent.errors
<1>1. PICK p \in 0..MaxPackets, e \in Nat, o \in Nat :
         spent = [packets |-> p, errors |-> e, outdated |-> o] /\ e + o <= MaxMishaps
  BY DEF Budget
<1>2. MaxPackets \in Nat /\ MaxMishaps \in Nat
  BY BoundAssumption
<1>3. UNCHANGED spent => Spends
  BY <1>1 DEF Spends
<1>4. ASSUME DatabaseError PROVE Spends /\ spent'.errors > 0
  <2>1. e + o < MaxMishaps /\ spent' = [packets |-> p, errors |-> e + 1, outdated |-> o]
    BY <1>1, <1>4 DEF DatabaseError
  <2>2. spent'.packets = spent.packets /\ spent'.errors = e + 1 /\ spent' \in Budget
    BY <1>1, <1>2, <2>1 DEF Budget
  <2> QED BY <1>1, <2>2 DEF Spends
<1>5. ASSUME Outdated PROVE Spends /\ spent'.errors = spent.errors
  <2>1. e + o < MaxMishaps /\ spent' = [packets |-> p, errors |-> e, outdated |-> o + 1]
    BY <1>1, <1>5 DEF Outdated
  <2>2. spent'.packets = spent.packets /\ spent'.errors = spent.errors /\ spent' \in Budget
    BY <1>1, <1>2, <2>1 DEF Budget
  <2> QED BY <1>1, <2>2 DEF Spends
<1>6. ASSUME Counted PROVE Spends /\ spent'.errors = spent.errors
  <2>1. p < MaxPackets /\ spent' = [packets |-> p + 1, errors |-> e, outdated |-> o]
    BY <1>1, <1>6 DEF Counted
  <2>2. spent'.packets = p + 1 /\ spent'.errors = spent.errors /\ spent' \in Budget
    BY <1>1, <1>2, <2>1 DEF Budget
  <2> QED BY <1>1, <2>2 DEF Spends
<1> QED BY <1>3, <1>4, <1>5, <1>6

\* What any step of handler c leaves alone.
HandlerLeaves(c) ==
    /\ Only(inbox, inbox', c) /\ Only(PendingPublish, PendingPublish', c)
    /\ Only(stored, stored', c) /\ Only(th, th', c)
    /\ DOMAIN outbox' = DOMAIN outbox
    /\ UNCHANGED <<claims, asked>> /\ behaved' \subseteq behaved
    /\ Spends /\ crashed = "no" /\ crashed' \in {"no", "nil", "slice"}
    /\ sent' = sent \/ Release \/ \E found : Miss(c, found)
    /\ connections' \in {connections, connections \cup {c}, connections \ {c}}

\* The others are left alone when handler c turns.
LEMMA TurnedOnly ==
    ASSUME IInv, NEW c \in Client, NEW t, Turned(c, t)
    PROVE  Only(th, th', c)
BY ThreadIs DEF Turned, Only

\* Close touches the handler, the inbox and the connection of c.
LEMMA CloseKeeps ==
    ASSUME IInv, NEW c \in Client, Close(c)
    PROVE  /\ Only(inbox, inbox', c) /\ Only(th, th', c)
           /\ connections' = connections \ {c}
<1>1. /\ Turned(c, Thread("closed", th[c].info, th[c].read, NoPub, {}, {}, 0))
      /\ connections' = connections \ {c} /\ inbox' = [inbox EXCEPT ![c] = <<>>]
  BY CloseThread
<1>2. Only(inbox, inbox', c)
  BY <1>1, OnlyIs
<1>3. Only(th, th', c)
  BY <1>1, TurnedOnly
<1> QED BY <1>1, <1>2, <1>3

\* Consume touches the inbox of c.
LEMMA ConsumeKeeps ==
    ASSUME NEW c, NEW r, Consume(c, r)
    PROVE  Only(inbox, inbox', c)
BY OnlyIs DEF Consume

\* What does not change is left alone.
LEMMA Unchanging ==
    ASSUME NEW c
    PROVE  /\ UNCHANGED inbox => Only(inbox, inbox', c)
           /\ UNCHANGED th => Only(th, th', c)
           /\ UNCHANGED stored => Only(stored, stored', c)
           /\ UNCHANGED PendingPublish => Only(PendingPublish, PendingPublish', c)
           /\ UNCHANGED output => DOMAIN outbox' = DOMAIN outbox
           /\ UNCHANGED sessions => UNCHANGED <<tree, seen, PendingPublish, stored>>
BY OnlyIs DEF output, sessions

\* Save touches the session of c.
LEMMA SaveKeeps ==
    ASSUME NEW c \in Client, NEW p, Save(c, p)
    PROVE  Only(stored, stored', c)
BY OnlyIs DEF Save

\* SendMessage writes to a client that is there.
LEMMA SendKeeps ==
    ASSUME NEW k, NEW from, NEW nth, NEW pub, NEW qos, NEW id, SendMessage(k, from, nth, pub, qos, id)
    PROVE  DOMAIN outbox' = DOMAIN outbox
BY DEF SendMessage, output

\* A parser that fails touches nothing but what Close does, and the process.
LEMMA FailsKeeps ==
    ASSUME IInv, NEW c \in Client, NEW r, Fails(c, r), crashed = "no"
    PROVE  /\ Only(inbox, inbox', c) /\ Only(th, th', c)
           /\ UNCHANGED <<output, sessions, spent>> /\ crashed' \in {"no", "slice"}
           /\ connections' \in {connections, connections \ {c}}
BY CloseKeeps, Unchanging DEF Fails, Dies

\* Every step of handler c leaves the others alone.
LEMMA HandlerKeeps ==
    ASSUME IInv, spent \in Budget, NEW c \in Client, Handler(c)
    PROVE  HandlerLeaves(c)
<1> USE Spending
<1>1. CASE FirstPacket(c)
  <2>1. /\ crashed = "no" /\ UNCHANGED <<PendingPublish, stored, claims, asked, behaved, sent>>
    BY <1>1 DEF FirstPacket, At, Alive, sessions, history
  <2>2. /\ DOMAIN outbox' = DOMAIN outbox /\ crashed' \in {"no", "nil", "slice"}
        /\ connections' \in {connections, connections \cup {c}}
        /\ UNCHANGED spent \/ DatabaseError
        /\ inbox' = inbox \/ \E r : Consume(c, r)
        /\ th' = th \/ \E x : th' = [th EXCEPT ![c].pc = "read", ![c].info = x]
    BY <1>1, <2>1 DEF FirstPacket, Reply, Dies, output
  <2>3. Only(th, th', c)
    <3>1. th' = th => Only(th, th', c)
      BY OnlyIs
    <3>2. ASSUME NEW x, th' = [th EXCEPT ![c].pc = "read", ![c].info = x] PROVE Only(th, th', c)
      BY <3>2, OpenThread, TurnedOnly
    <3> QED BY <2>2, <3>1, <3>2
  <2>4. Only(inbox, inbox', c)
    BY <2>2, ConsumeKeeps, Unchanging
  <2>5. Only(PendingPublish, PendingPublish', c) /\ Only(stored, stored', c)
    BY <2>1, Unchanging
  <2> QED BY <2>1, <2>2, <2>3, <2>4, <2>5 DEF HandlerLeaves
<1>2. CASE ReadError(c)
  <2>1. /\ crashed = "no" /\ UNCHANGED <<output, sessions, crashed, claims, sent, asked>>
        /\ Close(c) /\ (UNCHANGED spent \/ Counted)
    BY <1>2 DEF ReadError, At, Alive
  <2>2. behaved' \subseteq behaved
    BY <1>2 DEF ReadError
  <2>3. Spends
    BY <2>1
  <2>4. Only(inbox, inbox', c) /\ Only(th, th', c) /\ connections' = connections \ {c}
    BY <2>1, CloseKeeps
  <2> QED BY <2>1, <2>2, <2>3, <2>4, Unchanging DEF HandlerLeaves
<1>3. CASE Subscribe(c)
  <2>1. /\ crashed = "no" /\ UNCHANGED <<claims, asked, behaved>>
    BY <1>3, Zenon DEF Subscribe, At, Alive
  <2>2. \/ /\ \E r : Consume(c, r)
           /\ UNCHANGED spent \/ DatabaseError \/ Outdated
           /\ DOMAIN outbox' = DOMAIN outbox
           /\ Release \/ UNCHANGED sent
           /\ UNCHANGED <<th, connections, crashed, PendingPublish>>
           /\ UNCHANGED stored \/ Save(c, PendingPublish[c])
        \/ \E r : Fails(c, r) /\ UNCHANGED sent
    BY <1>3 DEF Subscribe, Reply, SaveOutdated
  <2>3. CASE /\ \E r : Consume(c, r)
             /\ UNCHANGED spent \/ DatabaseError \/ Outdated
             /\ DOMAIN outbox' = DOMAIN outbox
             /\ Release \/ UNCHANGED sent
             /\ UNCHANGED <<th, connections, crashed, PendingPublish>>
             /\ UNCHANGED stored \/ Save(c, PendingPublish[c])
    <3>1. Only(inbox, inbox', c)
      BY <2>3, ConsumeKeeps
    <3>2. Only(stored, stored', c) /\ Only(PendingPublish, PendingPublish', c) /\ Only(th, th', c)
      BY <2>3, SaveKeeps, Unchanging
    <3>3. Spends
      BY <2>3
    <3> QED BY <2>1, <2>3, <3>1, <3>2, <3>3 DEF HandlerLeaves
  <2>4. CASE \E r : Fails(c, r) /\ UNCHANGED sent
    BY <2>1, <2>4, FailsKeeps, Unchanging DEF HandlerLeaves
  <2> QED BY <2>2, <2>3, <2>4
<1>4. CASE Unsubscribe(c)
  <2>1. /\ crashed = "no" /\ UNCHANGED <<claims, asked, behaved>>
    BY <1>4, Zenon DEF Unsubscribe, At, Alive
  <2>2. \/ /\ \E r : Consume(c, r)
           /\ UNCHANGED spent \/ DatabaseError \/ Outdated
           /\ DOMAIN outbox' = DOMAIN outbox
           /\ Release
           /\ UNCHANGED <<th, connections, crashed, PendingPublish, stored>>
        \/ \E r : Fails(c, r) /\ UNCHANGED sent
    BY <1>4 DEF Unsubscribe, Reply, DeleteSubscriptions, SaveOutdated
  <2>3. CASE /\ \E r : Consume(c, r)
             /\ UNCHANGED spent \/ DatabaseError \/ Outdated
             /\ DOMAIN outbox' = DOMAIN outbox
             /\ Release
             /\ UNCHANGED <<th, connections, crashed, PendingPublish, stored>>
    <3>1. Only(inbox, inbox', c)
      BY <2>3, ConsumeKeeps
    <3>2. Only(stored, stored', c) /\ Only(PendingPublish, PendingPublish', c) /\ Only(th, th', c)
      BY <2>3, Unchanging
    <3>3. Spends
      BY <2>3
    <3> QED BY <2>1, <2>3, <3>1, <3>2, <3>3 DEF HandlerLeaves
  <2>4. CASE \E r : Fails(c, r) /\ UNCHANGED sent
    BY <2>1, <2>4, FailsKeeps, Unchanging DEF HandlerLeaves
  <2> QED BY <2>2, <2>3, <2>4
<1>5. CASE PingReq(c)
  <2>1. /\ crashed = "no" /\ UNCHANGED <<th, connections, sessions, crashed, spent, claims, asked, behaved, sent>>
        /\ DOMAIN outbox' = DOMAIN outbox /\ \E r : Consume(c, r)
    BY <1>5 DEF PingReq, At, Alive, Reply, history
  <2>2. Only(inbox, inbox', c)
    BY <2>1, ConsumeKeeps
  <2> QED BY <2>1, <2>2, Unchanging DEF HandlerLeaves
<1>6. CASE Disconnect(c)
  <2>1. /\ crashed = "no" /\ UNCHANGED <<claims, asked, behaved, crashed, output, PendingPublish>>
        /\ Close(c) /\ (UNCHANGED stored \/ Save(c, PendingPublish[c]))
        /\ UNCHANGED spent \/ DatabaseError \/ Outdated
        /\ Release \/ UNCHANGED sent
    BY <1>6 DEF Disconnect, At, Alive, DeleteSubscriptions, SaveOutdated
  <2>2. Only(stored, stored', c) /\ Only(PendingPublish, PendingPublish', c) /\ DOMAIN outbox' = DOMAIN outbox
    BY <2>1, SaveKeeps, Unchanging
  <2>3. Spends
    BY <2>1
  <2>4. Only(inbox, inbox', c) /\ Only(th, th', c) /\ connections' = connections \ {c}
    BY <2>1, CloseKeeps
  <2> QED BY <2>1, <2>2, <2>3, <2>4 DEF HandlerLeaves
<1>7. CASE Unsupported(c)
  BY <1>7, CloseKeeps, Unchanging DEF HandlerLeaves, Unsupported, At, Alive, output, sessions, history
<1>8. CASE Publish(c)
  <2>1. /\ crashed = "no" /\ UNCHANGED <<claims, asked, behaved, sent>>
    BY <1>8 DEF Publish, At, Alive, history
  <2>2. \/ /\ \E r : Consume(c, r)
           /\ \E p : Handle(c, p, "save") \/ Handle(c, p, "match")
           /\ UNCHANGED PendingPublish \/ \E x : PendingPublish' = [PendingPublish EXCEPT ![c] = Pend(@, x)]
           /\ UNCHANGED <<connections, output, tree, seen, stored, crashed, spent>>
        \/ \E r : Fails(c, r)
    BY <1>8 DEF Publish
  <2>3. CASE /\ \E r : Consume(c, r)
             /\ \E p : Handle(c, p, "save") \/ Handle(c, p, "match")
             /\ UNCHANGED PendingPublish \/ \E x : PendingPublish' = [PendingPublish EXCEPT ![c] = Pend(@, x)]
             /\ UNCHANGED <<connections, output, tree, seen, stored, crashed, spent>>
    <3>1. Only(th, th', c)
      BY <2>3, HandleThread, TurnedOnly
    <3>2. Only(inbox, inbox', c)
      BY <2>3, ConsumeKeeps
    <3>3. Only(PendingPublish, PendingPublish', c)
      <4>1. UNCHANGED PendingPublish => Only(PendingPublish, PendingPublish', c)
        BY OnlyIs
      <4>2. ASSUME NEW x, PendingPublish' = [PendingPublish EXCEPT ![c] = Pend(@, x)]
            PROVE  Only(PendingPublish, PendingPublish', c)
        <5>1. PendingPublish' = [PendingPublish EXCEPT ![c] = Pend(PendingPublish[c], x)]
          BY <4>2
        <5> QED BY <5>1, OnlyIs
      <4> QED BY <2>3, <4>1, <4>2
    <3>4. Only(stored, stored', c) /\ DOMAIN outbox' = DOMAIN outbox /\ Spends
      BY <2>3, Unchanging
    <3> QED BY <2>1, <2>3, <3>1, <3>2, <3>3, <3>4 DEF HandlerLeaves
  <2>4. CASE \E r : Fails(c, r)
    BY <2>1, <2>4, FailsKeeps, Unchanging DEF HandlerLeaves
  <2> QED BY <2>2, <2>3, <2>4
<1>9. CASE SaveSession(c)
  <2>1. Only(th, th', c) /\ UNCHANGED <<claims, asked, behaved, sent>>
    BY <1>9, GotoThread, TurnedOnly DEF SaveSession, history
  <2>2. Only(stored, stored', c)
    <3>1. Save(c, PendingPublish[c]) \/ UNCHANGED stored
      BY <1>9 DEF SaveSession
    <3> QED BY <3>1, SaveKeeps, Unchanging
  <2> QED BY <1>9, <2>1, <2>2, Unchanging DEF HandlerLeaves, SaveSession, At, Alive, output
<1>10. CASE MatchTopic(c)
  <2>1. /\ crashed = "no" /\ crashed' \in {"no", "nil", "slice"}
        /\ UNCHANGED <<inbox, connections, output, sessions, claims, asked, behaved>>
        /\ UNCHANGED spent \/ DatabaseError \/ Outdated
        /\ UNCHANGED sent \/ \E found : Miss(c, found)
    BY <1>10 DEF MatchTopic, At, Alive
  <2>2. UNCHANGED th \/ \E T : th' = [th EXCEPT ![c].pc = "route", ![c].todo = T]
    BY <1>10 DEF MatchTopic
  <2>3. Only(th, th', c)
    BY <2>2, MatchThread, TurnedOnly, Unchanging
  <2>4. Spends
    BY <2>1
  <2> QED BY <2>1, <2>3, <2>4, Unchanging DEF HandlerLeaves
<1>11. CASE Number(c)
  <2>1. \/ th' = [th EXCEPT ![c].pc = "read", ![c].pub = NoPub]
        \/ \E C, x : th' = [th EXCEPT ![c].pc = x, ![c].cur = C]
    BY <1>11 DEF Number
  <2>2. Only(th, th', c)
    BY <2>1, DoneThread, NumberThread, TurnedOnly
  <2> QED BY <1>11, <2>2, Unchanging DEF HandlerLeaves, Number, At, Alive, output, sessions, history
<1>13. CASE Numbering(c)
  <2>1. /\ UNCHANGED <<inbox, connections, output, sessions, crashed, spent, claims, asked, behaved, sent>>
        /\ crashed = "no"
    BY <1>13 DEF Numbering, Create, Return, NextID, At, Alive, history
  <2>2. Only(th, th', c)
    BY <1>13, NumberingThread, TurnedOnly
  <2> QED BY <2>1, <2>2, Unchanging DEF HandlerLeaves
<1>12. CASE Deliver(c)
  <2>1. PICK e : /\ Copy(c, e)
                 /\ th' = [th EXCEPT ![c].pc = "route", ![c].cur = {}, ![c].id = 0, ![c].todo = @ \ {e}]
    BY <1>12 DEF Deliver
  <2>2. Only(th, th', c)
    BY <2>1, DeliverThread, TurnedOnly
  <2>3. DOMAIN outbox' = DOMAIN outbox
    BY <2>1, SendKeeps DEF Copy
  <2> QED BY <1>12, <2>2, <2>3, Unchanging DEF HandlerLeaves, Deliver, At, Alive, sessions, history
<1> QED BY <1>1, <1>2, <1>3, <1>4, <1>5, <1>6, <1>7, <1>8, <1>9, <1>10, <1>11, <1>12, <1>13 DEF Handler
-----------------------------------------------------------------------------
(***************************************************************************)
(* The variables are functions over the clients, and what has been sent    *)
(* stays sent, whatever step is taken.                                     *)
(***************************************************************************)

\* What is recorded of a publication of P.
Posts(P) == [pub : P, due : SUBSET Client]

\* The variables are functions over the clients, and what has been sent is a sequence.
Shape ==
    /\ DOMAIN inbox = Client /\ DOMAIN outbox = Client /\ DOMAIN PendingPublish = Client
    /\ DOMAIN stored = Client /\ DOMAIN claims = Client /\ DOMAIN sent = Client \cup {Service}
    /\ \A p \in Client : sent[p] \in Seq(Posts(Publication))
    /\ sent[Service] \in Seq(Posts(Switch))
    /\ \A e \in tree \cup seen : e.client \in Client
    /\ spent \in Budget /\ behaved \subseteq Client /\ crashed \in {"no", "nil", "slice"}

\* What p has sent stays sent.
Extends(p) ==
    /\ Len(sent[p]) \in Nat /\ Len(sent'[p]) \in Nat /\ Len(sent[p]) <= Len(sent'[p])
    /\ \A n \in 1..Len(sent[p]) : sent'[p][n].pub = sent[p][n].pub

\* What any step of client c leaves alone.
PeerLeaves(c) ==
    /\ UNCHANGED broker /\ Only(inbox, inbox', c) /\ Only(claims, claims', c)
    /\ asked \subseteq asked' /\ behaved' \subseteq behaved /\ Spends /\ spent'.errors = spent.errors
    /\ crashed = "no"
    /\ \/ sent' = sent
       \/ \E p \in Publication : \E due :
             /\ due = {e.client : e \in {f \in tree : f.topic = p.topic}}
             /\ sent' = [sent EXCEPT ![c] = Append(sent[c], [pub |-> p, due |-> due])]
             /\ \A d \in Client : th[d].pc # "first"

\* A client writes to its own connection.
LEMMA WriteKeeps ==
    ASSUME NEW c, NEW b, Write(c, b)
    PROVE  Only(inbox, inbox', c)
BY OnlyIs DEF Write

\* So does Transmit, and the broker does not move.
LEMMA TransmitKeeps ==
    ASSUME spent \in Budget, NEW c, NEW b, Transmit(c, b)
    PROVE  /\ UNCHANGED broker /\ Only(inbox, inbox', c) /\ Only(claims, claims', c)
           /\ Spends /\ spent'.errors = spent.errors
           /\ crashed = "no" /\ th[c].pc # "closed" /\ c \in behaved /\ Write(c, b)
           /\ \A d \in Client : th[d].pc # "first"
BY WriteKeeps, Spending, OnlyIs DEF Transmit, Alive

\* Every step of a client leaves the broker and the other clients alone.
LEMMA PeerKeeps ==
    ASSUME spent \in Budget, NEW c \in Client, Peer(c)
    PROVE  PeerLeaves(c)
<1>1. CASE Hello(c)
  <2>1. UNCHANGED <<broker, spent, sent, asked>> /\ crashed = "no" /\ \E b : Write(c, b)
    BY <1>1 DEF Hello, Alive
  <2>2. /\ claims' = claims \/ claims' = [claims EXCEPT ![c] = Claim(Greeting[c], c)]
        /\ behaved' \subseteq behaved
    BY <1>1 DEF Hello
  <2>3. Only(inbox, inbox', c) /\ Only(claims, claims', c)
    BY <2>1, <2>2, WriteKeeps, OnlyIs
  <2>4. Spends
    BY <2>1, Spending
  <2> QED BY <2>1, <2>2, <2>3, <2>4 DEF PeerLeaves
<1>2. CASE Post(c)
  <2>1. PICK p \in Publication :
           /\ Transmit(c, PublishFrame(p))
           /\ sent' = [sent EXCEPT ![c] = Append(@,
                 [pub |-> p, due |-> {e.client : e \in {f \in tree : f.topic = p.topic}}])]
    BY <1>2 DEF Post
  <2>2. PICK due : due = {e.client : e \in {f \in tree : f.topic = p.topic}}
    OBVIOUS
  <2>3. sent' = [sent EXCEPT ![c] = Append(sent[c], [pub |-> p, due |-> due])]
    BY <2>1, <2>2
  <2>4. UNCHANGED <<asked, behaved>>
    BY <1>2 DEF Post
  <2> QED BY <2>1, <2>2, <2>3, <2>4, TransmitKeeps DEF PeerLeaves
<1>3. CASE Ask(c)
  <2>1. UNCHANGED <<sent, behaved>> /\ asked \subseteq asked' /\ \E b : Transmit(c, b)
    BY <1>3 DEF Ask
  <2> QED BY <2>1, TransmitKeeps DEF PeerLeaves
<1>4. CASE Misbehave(c)
  <2>1. UNCHANGED <<sent, asked>> /\ behaved' \subseteq behaved /\ \E b : Transmit(c, b)
    BY <1>4 DEF Misbehave
  <2> QED BY <2>1, TransmitKeeps DEF PeerLeaves
<1> QED BY <1>1, <1>2, <1>3, <1>4 DEF Peer

\* What SetDevicesState leaves alone.
ServiceLeaves(k) ==
    /\ UNCHANGED <<inbox, th, connections, sessions, numbers, crashed, claims, asked, behaved>>
    /\ DOMAIN outbox' = DOMAIN outbox /\ Spends /\ spent'.errors = spent.errors /\ crashed = "no"
    /\ \A d \in Client : th[d].pc # "first"
    /\ \E p \in Switch :
          /\ SendMessage(k, Service, Len(sent[Service]) + 1, p, 0, 0)
          /\ sent' = [sent EXCEPT ![Service] = Append(sent[Service], [pub |-> p, due |-> {k}])]

\* SetDevicesState leaves the handlers and the sessions alone.
LEMMA ServiceKeeps ==
    ASSUME spent \in Budget, NEW k \in Client, SetDevicesState(k)
    PROVE  ServiceLeaves(k)
<1>1. PICK p \in Switch :
         /\ SendMessage(k, Service, Len(sent[Service]) + 1, p, 0, 0)
         /\ sent' = [sent EXCEPT ![Service] = Append(@, [pub |-> p, due |-> {k}])]
  BY DEF SetDevicesState
<1>2. /\ UNCHANGED <<inbox, th, connections, sessions, numbers, crashed, claims, asked, behaved>>
      /\ Counted /\ crashed = "no"
      /\ \A d \in Client : th[d].pc # "first"
  BY DEF SetDevicesState, Alive
<1>3. DOMAIN outbox' = DOMAIN outbox
  BY <1>1, SendKeeps
<1>4. Spends /\ spent'.errors = spent.errors
  BY <1>2, Spending
<1> QED BY <1>1, <1>2, <1>3, <1>4 DEF ServiceLeaves

\* A sequence that is appended to.
LEMMA Grown ==
    ASSUME NEW V, NEW s \in Seq(V), NEW x \in V, NEW r, r = Append(s, x)
    PROVE  /\ r \in Seq(V) /\ Len(r) = Len(s) + 1 /\ Len(s) \in Nat /\ r[Len(s) + 1] = x
           /\ \A n \in 1..Len(s) : r[n] = s[n]
BY AppendProperties

\* The record of a publication.
LEMMA PostIs ==
    ASSUME NEW P, NEW p \in P, NEW due, due \subseteq Client
    PROVE  /\ [pub |-> p, due |-> due] \in Posts(P)
           /\ [pub |-> p, due |-> due].pub = p /\ [pub |-> p, due |-> due].due = due
BY DEF Posts

\* Release touches nothing but due.
LEMMA Released ==
    ASSUME Shape, Release, NEW p \in Client
    PROVE  /\ DOMAIN sent' = DOMAIN sent /\ sent'[Service] = sent[Service]
           /\ sent'[p] \in Seq(Posts(Publication)) /\ Len(sent'[p]) = Len(sent[p])
           /\ \A n \in 1..Len(sent[p]) :
                 /\ sent'[p][n].pub = sent[p][n].pub
                 /\ Ahead(p, n) => sent'[p][n].due = sent[p][n].due \ {e.client : e \in
                       {f \in tree \ tree' : f.topic = sent[p][n].pub.topic}}
                 /\ ~Ahead(p, n) => sent'[p][n].due = sent[p][n].due
<1>1. /\ sent[p] \in Seq(Posts(Publication)) /\ DOMAIN sent = Client \cup {Service}
      /\ sent[Service] \in Seq(Posts(Switch)) /\ p # Service
  BY ClientAssumption DEF Shape
<1>2. PICK s : s = sent[p]
  OBVIOUS
<1>3. PICK m : m = Len(s)
  OBVIOUS
<1>4. m \in Nat /\ DOMAIN s = 1..m /\ \A n \in 1..m : s[n] \in Posts(Publication)
  BY <1>1, <1>2, <1>3
<1> DEFINE gone(n) == {e.client : e \in {f \in tree \ tree' : f.topic = sent[p][n].pub.topic}}
           r == [n \in 1..m |-> IF Ahead(p, n) THEN [s[n] EXCEPT !.due = @ \ gone(n)] ELSE s[n]]
<1>5. sent'[p] = r
  <2>1. p \in DOMAIN sent
    BY <1>1
  <2>2. sent'[p] = [n \in DOMAIN sent[p] |->
           IF p # Service /\ Ahead(p, n)
           THEN [sent[p][n] EXCEPT !.due = @ \ {e.client : e \in
                    {f \in tree \ tree' : f.topic = sent[p][n].pub.topic}}]
           ELSE sent[p][n]]
    BY <2>1 DEF Release
  <2> QED BY <1>1, <1>2, <1>4, <2>2
<1>6. sent'[Service] = sent[Service] /\ DOMAIN sent' = DOMAIN sent
  <2>1. DOMAIN sent' = DOMAIN sent
    BY DEF Release
  <2>2. Service \in DOMAIN sent
    BY <1>1
  <2>3. sent'[Service] = [n \in DOMAIN sent[Service] |-> sent[Service][n]]
    BY <2>2 DEF Release
  <2>4. [n \in DOMAIN sent[Service] |-> sent[Service][n]] = sent[Service]
    BY <1>1
  <2> QED BY <2>1, <2>3, <2>4
<1>7. ASSUME NEW n \in 1..m
      PROVE  /\ r[n] \in Posts(Publication) /\ r[n].pub = s[n].pub
             /\ Ahead(p, n) => r[n].due = s[n].due \ gone(n)
             /\ ~Ahead(p, n) => r[n].due = s[n].due
  <2>1. s[n] = [pub |-> s[n].pub, due |-> s[n].due] /\ s[n].pub \in Publication /\ s[n].due \subseteq Client
    BY <1>4 DEF Posts
  <2>2. PICK g : g = gone(n)
    OBVIOUS
  <2>3. CASE Ahead(p, n)
    <3>1. r[n] = [s[n] EXCEPT !.due = @ \ g]
      BY <2>2, <2>3
    <3>2. r[n] = [pub |-> s[n].pub, due |-> s[n].due \ g]
      BY <2>1, <3>1
    <3> QED BY <2>1, <2>2, <2>3, <3>2 DEF Posts
  <2>4. CASE ~Ahead(p, n)
    BY <1>4, <2>4
  <2> QED BY <2>3, <2>4
<1>8. r \in Seq(Posts(Publication)) /\ Len(r) = m
  <2>1. r \in [1..m -> Posts(Publication)]
    BY <1>7
  <2> HIDE DEF r
  <2> QED BY <1>4, <2>1
<1> HIDE DEF r
<1> QED BY <1>2, <1>3, <1>5, <1>6, <1>7, <1>8

\* So does Miss, and of one publication only.
LEMMA Missed ==
    ASSUME Shape, NEW c \in Client, NEW found, Miss(c, found), NEW p \in Client
    PROVE  /\ DOMAIN sent' = DOMAIN sent /\ sent'[Service] = sent[Service]
           /\ sent'[p] \in Seq(Posts(Publication)) /\ Len(sent'[p]) = Len(sent[p])
           /\ \A n \in 1..Len(sent[p]) :
                 /\ sent'[p][n].pub = sent[p][n].pub
                 /\ IF p = c /\ n = th[c].read
                    THEN sent'[p][n].due = sent[p][n].due \cap {e.client : e \in found}
                    ELSE sent'[p][n].due = sent[p][n].due
<1>1. /\ sent[c] \in Seq(Posts(Publication)) /\ DOMAIN sent = Client \cup {Service}
      /\ sent[p] \in Seq(Posts(Publication)) /\ c # Service
  BY ClientAssumption DEF Shape
<1>2. PICK s, i, D : s = sent[c] /\ i = th[c].read /\ D = {e.client : e \in found}
  OBVIOUS
<1>3. PICK x : x = [s[i] EXCEPT !.due = @ \cap D]
  OBVIOUS
<1>4. PICK r : r = [s EXCEPT ![i] = x]
  OBVIOUS
<1>5. sent' = [sent EXCEPT ![c] = r]
  BY <1>2, <1>3, <1>4 DEF Miss
<1>6. /\ DOMAIN sent' = DOMAIN sent /\ sent'[Service] = sent[Service] /\ sent'[c] = r
      /\ \A d \in Client \ {c} : sent'[d] = sent[d]
  BY <1>1, <1>5
<1>7. PICK m : m = Len(s)
  OBVIOUS
<1>8. m \in Nat /\ DOMAIN s = 1..m /\ \A n \in 1..m : s[n] \in Posts(Publication)
  BY <1>1, <1>2, <1>7
<1>9. ASSUME NEW n \in 1..m
      PROVE  /\ r[n] \in Posts(Publication) /\ r[n].pub = s[n].pub
             /\ IF n = i THEN r[n].due = s[n].due \cap D ELSE r[n].due = s[n].due
  <2>1. s[n] = [pub |-> s[n].pub, due |-> s[n].due] /\ s[n].pub \in Publication /\ s[n].due \subseteq Client
    BY <1>8 DEF Posts
  <2>2. CASE n = i
    <3>1. r[n] = x /\ x = [pub |-> s[n].pub, due |-> s[n].due \cap D]
      BY <1>3, <1>4, <1>8, <2>1, <2>2
    <3> QED BY <2>1, <2>2, <3>1 DEF Posts
  <2>3. CASE n # i
    BY <1>4, <1>8, <2>3
  <2> QED BY <2>2, <2>3
<1>10. r \in Seq(Posts(Publication)) /\ Len(r) = m
  <2>1. r \in [1..m -> Posts(Publication)]
    BY <1>4, <1>8, <1>9
  <2> QED BY <1>8, <2>1
<1>11. CASE p = c
  BY <1>2, <1>6, <1>7, <1>9, <1>10, <1>11
<1>12. CASE p # c
  BY <1>1, <1>6, <1>12
<1> QED BY <1>11, <1>12

\* The tree after a step of a handler: what is new there is for its client.
TreeMoves(c) == \A e \in tree' \cup seen' : e \in tree \cup seen \/ e.client = c

\* What a subscription may leave is for its client.
LEMMA RequestedIs ==
    ASSUME NEW c, NEW subs
    PROVE  \A e \in Requested(c, subs) \cup InsertAll(c, subs) : e \in tree \/ e.client = c
BY DEF Requested, InsertAll, Entry

\* A step of a handler takes subscriptions out, inserts some or brings some back.
LEMMA HandlerTree ==
    ASSUME NEW c, Handler(c)
    PROVE  TreeMoves(c)
<1>1. CASE Subscribe(c)
  <2>1. \/ /\ \/ \E subs : tree' = InsertAll(c, subs)
              \/ \E subs : tree' \subseteq seen \cup Requested(c, subs)
           /\ \E subs : seen' = seen \cup Requested(c, subs)
        \/ UNCHANGED <<tree, seen>>
    BY <1>1 DEF Subscribe, SaveOutdated, Fails, Dies, sessions
  <2>2. CASE UNCHANGED <<tree, seen>>
    BY <2>2 DEF TreeMoves
  <2>3. CASE /\ \/ \E subs : tree' = InsertAll(c, subs)
                \/ \E subs : tree' \subseteq seen \cup Requested(c, subs)
             /\ \E subs : seen' = seen \cup Requested(c, subs)
    <3>1. \A e \in seen' : e \in tree \cup seen \/ e.client = c
      BY <2>3, RequestedIs
    <3>2. \A e \in tree' : e \in tree \cup seen \/ e.client = c
      BY <2>3, RequestedIs
    <3> QED BY <3>1, <3>2 DEF TreeMoves
  <2> QED BY <2>1, <2>2, <2>3
<1>2. CASE Unsubscribe(c)
  BY <1>2 DEF Unsubscribe, DeleteSubscriptions, SaveOutdated, Fails, Dies, sessions, TreeMoves
<1>3. CASE Disconnect(c)
  BY <1>3 DEF Disconnect, DeleteSubscriptions, SaveOutdated, TreeMoves
<1>4. CASE Publish(c)
  BY <1>4 DEF Publish, Fails, Dies, sessions, TreeMoves
<1>5. CASE FirstPacket(c) \/ ReadError(c) \/ PingReq(c) \/ Unsupported(c)
  BY <1>5 DEF FirstPacket, ReadError, PingReq, Unsupported, sessions, TreeMoves
<1>6. CASE SaveSession(c) \/ MatchTopic(c) \/ Number(c) \/ Numbering(c) \/ Deliver(c)
  BY <1>6 DEF SaveSession, MatchTopic, Number, Numbering, Deliver, sessions, TreeMoves
<1> QED BY <1>1, <1>2, <1>3, <1>4, <1>5, <1>6 DEF Handler

\* What is inserted is for the client that asks; what is there stays.
LEMMA InsertAllIs ==
    ASSUME NEW c, NEW subs
    PROVE  /\ tree \subseteq InsertAll(c, subs)
           /\ \A e \in InsertAll(c, subs) :
                 e \in tree \/ \E topic \in {s.topic : s \in ToSet(subs)} : e = Entry(c, subs, topic)
           /\ \A topic : Entry(c, subs, topic).client = c /\ Entry(c, subs, topic).topic = topic
BY DEF InsertAll, Entry

\* It is so at first.
LEMMA ShapeInit == Init => Shape
<1> SUFFICES ASSUME Init PROVE Shape
  OBVIOUS
<1>1. spent \in Budget
  BY BoundAssumption DEF Init, Budget
<1>2. \A c \in Client \cup {Service} : sent[c] = <<>>
  BY DEF Init
<1>3. \A V : <<>> \in Seq(V)
  OBVIOUS
<1>4. /\ DOMAIN inbox = Client /\ DOMAIN outbox = Client /\ DOMAIN PendingPublish = Client
      /\ DOMAIN stored = Client /\ DOMAIN claims = Client /\ DOMAIN sent = Client \cup {Service}
      /\ tree = {} /\ seen = {} /\ behaved = Client /\ crashed = "no"
  BY DEF Init
<1> QED BY <1>1, <1>2, <1>3, <1>4 DEF Shape

\* And after every step; and what has been sent stays sent.
LEMMA ShapeStep ==
    ASSUME IInv, Shape, [Next]_vars
    PROVE  Shape' /\ \A p \in Client \cup {Service} : Extends(p)
<1>1. \A p \in Client \cup {Service} : Len(sent[p]) \in Nat
  BY DEF Shape
<1>2. CASE UNCHANGED vars
  <2>1. UNCHANGED <<inbox, outbox, PendingPublish, stored, claims, sent, tree, seen, spent, behaved, crashed>>
    BY <1>2 DEF vars, broker, output, sessions, history
  <2>2. Shape'
    BY <2>1 DEF Shape, Posts, Budget
  <2>3. \A p \in Client \cup {Service} : Extends(p)
    BY <1>1, <2>1 DEF Extends
  <2> QED BY <2>2, <2>3
<1>3. ASSUME NEW c \in Client, Handler(c) PROVE Shape' /\ \A p \in Client \cup {Service} : Extends(p)
  <2>1. HandlerLeaves(c) /\ TreeMoves(c)
    BY <1>3, HandlerKeeps, HandlerTree DEF Shape
  <2>2. \A e \in tree' \cup seen' : e.client \in Client
    BY <2>1 DEF TreeMoves, Shape
  <2>3. /\ DOMAIN sent' = Client \cup {Service} /\ sent'[Service] \in Seq(Posts(Switch))
        /\ \A p \in Client : sent'[p] \in Seq(Posts(Publication))
        /\ \A p \in Client \cup {Service} : Extends(p)
    <3>1. CASE sent' = sent
      BY <1>1, <3>1 DEF Shape, Extends
    <3>2. CASE Release
      <4>1. CASE Client = {}
        BY <4>1
      <4>2. DOMAIN sent' = DOMAIN sent /\ sent'[Service] = sent[Service]
        BY <3>2, Released
      <4>3. \A p \in Client : /\ sent'[p] \in Seq(Posts(Publication)) /\ Len(sent'[p]) = Len(sent[p])
                              /\ \A n \in 1..Len(sent[p]) : sent'[p][n].pub = sent[p][n].pub
        BY <3>2, Released
      <4>4. \A p \in Client \cup {Service} : Extends(p)
        BY <1>1, <4>2, <4>3 DEF Extends
      <4> QED BY <4>2, <4>3, <4>4 DEF Shape
    <3>3. ASSUME NEW found, Miss(c, found)
          PROVE  /\ DOMAIN sent' = Client \cup {Service} /\ sent'[Service] \in Seq(Posts(Switch))
                 /\ \A p \in Client : sent'[p] \in Seq(Posts(Publication))
                 /\ \A p \in Client \cup {Service} : Extends(p)
      <4>1. DOMAIN sent' = DOMAIN sent /\ sent'[Service] = sent[Service]
        BY <3>3, Missed
      <4>2. \A p \in Client : /\ sent'[p] \in Seq(Posts(Publication)) /\ Len(sent'[p]) = Len(sent[p])
                              /\ \A n \in 1..Len(sent[p]) : sent'[p][n].pub = sent[p][n].pub
        BY <3>3, Missed
      <4>3. \A p \in Client \cup {Service} : Extends(p)
        BY <1>1, <4>1, <4>2 DEF Extends
      <4> QED BY <4>1, <4>2, <4>3 DEF Shape
    <3> QED BY <2>1, <3>1, <3>2, <3>3 DEF HandlerLeaves
  <2>4. Shape'
    <3>1. /\ DOMAIN inbox' = Client /\ DOMAIN outbox' = Client /\ DOMAIN PendingPublish' = Client
          /\ DOMAIN stored' = Client /\ DOMAIN claims' = Client
      BY <2>1 DEF HandlerLeaves, Only, Shape
    <3>2. spent' \in Budget /\ behaved' \subseteq Client /\ crashed' \in {"no", "nil", "slice"}
      BY <2>1 DEF HandlerLeaves, Spends, Shape
    <3> QED BY <2>2, <2>3, <3>1, <3>2 DEF Shape, Posts, Budget
  <2> QED BY <2>3, <2>4
<1>4. ASSUME NEW c \in Client, Peer(c) PROVE Shape' /\ \A p \in Client \cup {Service} : Extends(p)
  <2>1. PeerLeaves(c)
    BY <1>4, PeerKeeps DEF Shape
  <2>2. UNCHANGED <<outbox, PendingPublish, stored, tree, seen, crashed>> /\ c # Service
    BY <2>1, ClientAssumption DEF PeerLeaves, broker, output, sessions
  <2>3. /\ DOMAIN sent' = Client \cup {Service} /\ sent'[Service] \in Seq(Posts(Switch))
        /\ \A p \in Client : sent'[p] \in Seq(Posts(Publication))
        /\ \A p \in Client \cup {Service} : Extends(p)
    <3>1. CASE sent' = sent
      BY <1>1, <3>1 DEF Shape, Extends
    <3>2. ASSUME NEW p \in Publication, NEW due, due = {e.client : e \in {f \in tree : f.topic = p.topic}},
                 sent' = [sent EXCEPT ![c] = Append(sent[c], [pub |-> p, due |-> due])]
          PROVE  /\ DOMAIN sent' = Client \cup {Service} /\ sent'[Service] \in Seq(Posts(Switch))
                 /\ \A q \in Client : sent'[q] \in Seq(Posts(Publication))
                 /\ \A q \in Client \cup {Service} : Extends(q)
      <4>1. due \subseteq Client
        BY <3>2 DEF Shape
      <4>2. PICK x : x = [pub |-> p, due |-> due]
        OBVIOUS
      <4>3. x \in Posts(Publication)
        BY <4>1, <4>2, PostIs
      <4>4. PICK r : r = Append(sent[c], x)
        OBVIOUS
      <4>5. /\ sent'[c] = r /\ DOMAIN sent' = DOMAIN sent
            /\ \A q \in (Client \cup {Service}) \ {c} : sent'[q] = sent[q]
        BY <3>2, <4>2, <4>4 DEF Shape
      <4>6. /\ r \in Seq(Posts(Publication)) /\ Len(r) = Len(sent[c]) + 1
            /\ \A n \in 1..Len(sent[c]) : r[n] = sent[c][n]
        BY <4>3, <4>4, Grown DEF Shape
      <4>7. Extends(c)
        BY <1>1, <4>5, <4>6 DEF Extends
      <4>8. \A q \in (Client \cup {Service}) \ {c} : Extends(q)
        BY <1>1, <4>5 DEF Extends
      <4> QED BY <2>2, <4>5, <4>6, <4>7, <4>8 DEF Shape
    <3> QED BY <2>1, <3>1, <3>2 DEF PeerLeaves
  <2>4. Shape'
    <3>1. /\ DOMAIN inbox' = Client /\ DOMAIN outbox' = Client /\ DOMAIN PendingPublish' = Client
          /\ DOMAIN stored' = Client /\ DOMAIN claims' = Client
          /\ \A e \in tree' \cup seen' : e.client \in Client
      BY <2>1, <2>2 DEF PeerLeaves, Only, Shape
    <3>2. spent' \in Budget /\ behaved' \subseteq Client /\ crashed' \in {"no", "nil", "slice"}
      BY <2>1, <2>2 DEF PeerLeaves, Spends, Shape
    <3> QED BY <2>3, <3>1, <3>2 DEF Shape, Posts, Budget
  <2> QED BY <2>3, <2>4
<1>5. ASSUME NEW k \in Client, SetDevicesState(k) PROVE Shape' /\ \A p \in Client \cup {Service} : Extends(p)
  <2>1. ServiceLeaves(k)
    BY <1>5, ServiceKeeps DEF Shape
  <2>2. PICK p \in Switch : sent' = [sent EXCEPT ![Service] = Append(sent[Service], [pub |-> p, due |-> {k}])]
    BY <2>1 DEF ServiceLeaves
  <2>3. PICK x : x = [pub |-> p, due |-> {k}]
    OBVIOUS
  <2>4. x \in Posts(Switch)
    BY <2>3, PostIs
  <2>5. PICK r : r = Append(sent[Service], x)
    OBVIOUS
  <2>6. /\ sent'[Service] = r /\ DOMAIN sent' = DOMAIN sent /\ Service \notin Client
        /\ \A q \in Client : sent'[q] = sent[q]
    BY <2>2, <2>3, <2>5, ClientAssumption DEF Shape
  <2>7. /\ r \in Seq(Posts(Switch)) /\ Len(r) = Len(sent[Service]) + 1
        /\ \A n \in 1..Len(sent[Service]) : r[n] = sent[Service][n]
    BY <2>4, <2>5, Grown DEF Shape
  <2>8. Extends(Service)
    BY <1>1, <2>6, <2>7 DEF Extends
  <2>9. \A q \in Client : Extends(q)
    BY <1>1, <2>6 DEF Extends
  <2>10. UNCHANGED <<inbox, PendingPublish, stored, tree, seen, claims, behaved, crashed>> /\ DOMAIN outbox' = Client
         /\ spent' \in Budget
    BY <2>1 DEF ServiceLeaves, sessions, Shape, Spends
  <2>11. Shape'
    BY <2>6, <2>7, <2>10 DEF Shape, Posts, Budget
  <2> QED BY <2>8, <2>9, <2>11
<1>6. Rest => UNCHANGED vars
  BY DEF Rest
<1> QED BY <1>2, <1>3, <1>4, <1>5, <1>6 DEF Next

\* In every reachable state the variables are functions over the clients, and what is
\* recorded of a publication is one of those that clients or the gRPC service send. The other
\* theorems rest on it.
THEOREM ShapeHolds == Spec => []Shape
<1>1. IInv /\ Shape /\ [Next]_vars => Shape'
  BY ShapeStep
<1> QED BY <1>1, ShapeInit, Invariant, PTL DEF Spec
-----------------------------------------------------------------------------
(***************************************************************************)
(* The packets that clients send, as ReadPacket and the parsers find them. *)
(* The theorems about the codec come in here and nowhere else: what a      *)
(* client has put into a packet is what the parser takes out.              *)
(***************************************************************************)

\* A publication as its handler has it.
Bare(p) == [qos |-> p.qos, topic |-> p.topic, id |-> p.id, payload |-> p.payload]

\* The packets of a client.
PacketOf(p)          == PacketWith(PacketType.PUBLISH, 2 * p.qos + Flag(p.dup, 8), PublishBody(p, p.qos, p.id))
SubscribeOf(filters) == PacketWith(PacketType.SUBSCRIBE, 2, SubscribeBody(filters))
UnSubscribeOf(filters) == PacketWith(PacketType.UNSUBSCRIBE, 2, UnSubscribeBody(filters))
Ping                 == PacketWith(PacketType.PINGREQ, 0, <<>>)

\* A packet a client frames and the broker accepts.
Proper(k) == k \in Fitting /\ ValidateFlags(k.type, k.flags)

\* The types of packets by their numbers in packet_types.go.
LEMMA Types ==
    /\ PacketType.CONNECT = 1 /\ PacketType.PUBLISH = 3 /\ PacketType.SUBSCRIBE = 8
    /\ PacketType.UNSUBSCRIBE = 10 /\ PacketType.PINGREQ = 12 /\ PacketType.DISCONNECT = 14
    /\ PacketType.PUBREC = 5
BY DEF PacketType

\* A packet that fits, with flags that are valid.
LEMMA ProperWith ==
    ASSUME NEW type \in 0..15, NEW flags \in 0..15, NEW body \in Seq(Nat), Len(body) <= Limit,
           ValidateFlags(type, flags)
    PROVE  Proper(PacketWith(type, flags, body))
<1>1. PICK k : k = PacketWith(type, flags, body)
  OBVIOUS
<1>2. k \in Fitting
  BY <1>1, PacketFits
<1>3. k.type = type /\ k.flags = flags
  BY <1>1, PacketFields
<1> QED BY <1>1, <1>2, <1>3 DEF Proper

\* PUBLISH is framed as such a packet, and ParsePublishPacket finds in it what the publisher
\* has put there.
LEMMA PublishPacket ==
    ASSUME NEW p \in Publication \cup Switch
    PROVE  /\ Proper(PacketOf(p)) /\ PublishFrame(p) = Framed(PacketOf(p))
           /\ PacketOf(p).type = PacketType.PUBLISH
           /\ \E q : ParsePublishPacket(PacketOf(p).flags, PacketOf(p).body) = Got(Bare(p), q)
<1>1. IsPublication(p)
  BY PublicationAssumption
<1>2. PICK qos \in 0..2, dup \in BOOLEAN, topic \in Seq(Nat), payload \in Seq(Nat), id \in Nat :
         qos = p.qos /\ dup = p.dup /\ topic = p.topic /\ payload = p.payload /\ id = p.id
  <2>1. p.id \in Nat
    <3>1. Byte \in Nat /\ Byte * Byte \in Nat
      BY PacketsAssumption
    <3> QED BY <1>1, <3>1 DEF IsPublication
  <2> QED BY <1>1, <2>1 DEF IsPublication, IsText
<1>3. (dup => qos > 0) /\ (qos = 0 => id = 0)
  BY <1>1, <1>2 DEF IsPublication
<1>4. PICK f : f = 2 * qos + Flag(dup, 8)
  OBVIOUS
<1>5. f \in 0..15
  BY <1>4, PublishFlags
<1>6. PICK b : b = PublishBody(p, qos, id)
  OBVIOUS
<1>7. b \in Seq(Nat) /\ Len(b) <= Limit
  <2>1. PICK A, B : A = Field(topic) /\ B = When(qos > 0, Two(id))
    OBVIOUS
  <2>2. b = A \o B \o payload /\ qos \in Nat
    BY <1>2, <1>6, <2>1 DEF PublishBody
  <2>3. PublishLaid(b, A, B, payload, qos)
    BY <2>1, <2>2, PublishBodyIs
  <2> QED BY <1>1, <1>2, <1>6, <2>3 DEF PublishLaid, IsPublication
<1>8. PICK t \in 0..15 : t = PacketType.PUBLISH
  BY Types
<1>9. ValidateFlags(t, f)
  BY <1>5, <1>8 DEF ValidateFlags, allowedFlags, PacketType
<1>10. PICK k : k = PacketWith(t, f, b)
  OBVIOUS
<1>11. PacketOf(p) = k
  BY <1>2, <1>4, <1>6, <1>8, <1>10 DEF PacketOf
<1>19. Proper(k)
  BY <1>5, <1>7, <1>9, <1>10, ProperWith
<1>12. Framed(k) = Frame(t, f, b) /\ k.type = t /\ k.flags = f /\ k.body = b
  BY <1>10, PacketFields
<1>13. PublishFrame(p) = Frame(t, f, b)
  BY <1>2, <1>4, <1>6, <1>8 DEF PublishFrame
<1>14. PICK x : x = [qos |-> qos, dup |-> dup, topic |-> topic, id |-> id, payload |-> payload]
  OBVIOUS
<1>15. PublishBody(x, qos, id) = b
  <2>1. x.topic = p.topic /\ x.payload = p.payload
    BY <1>2, <1>14
  <2> QED BY <1>6, <2>1 DEF PublishBody
<1>16. PICK q : ParsePublishPacket(2 * qos + Flag(dup, 8), PublishBody(x, qos, id))
                = Got([qos |-> qos, topic |-> topic, id |-> id, payload |-> payload], q)
  BY <1>3, <1>14, PublishBodyRead
<1>17. Bare(p) = [qos |-> qos, topic |-> topic, id |-> id, payload |-> payload]
  BY <1>2 DEF Bare
<1>18. ParsePublishPacket(f, b) = Got(Bare(p), q)
  BY <1>4, <1>15, <1>16, <1>17
<1> QED BY <1>8, <1>11, <1>12, <1>13, <1>18, <1>19

\* So is SUBSCRIBE; ParseSubscribePacket finds the filters with the QoS that is granted.
LEMMA SubscribePacket ==
    ASSUME NEW filters \in Subscription
    PROVE  /\ Proper(SubscribeOf(filters))
           /\ Frame(PacketType.SUBSCRIBE, 2, SubscribeBody(filters)) = Framed(SubscribeOf(filters))
           /\ SubscribeOf(filters).type = PacketType.SUBSCRIBE
           /\ \E q : ParseSubscribePacket(SubscribeOf(filters).body)
                     = Got([id |-> 1, subscriptions |-> Granted(filters)], q)
<1>1. filters \in Seq([topic : Seq(Nat), qos : Nat]) /\ Len(SubscribeBody(filters)) <= Limit
  BY FilterAssumption
<1>2. PICK b, q : b = SubscribeBody(filters) /\ q = Len(b)
  OBVIOUS
<1>3. b \in Seq(Nat) /\ ParseSubscribePacket(b) = Got([id |-> 1, subscriptions |-> Granted(filters)], q)
  BY <1>1, <1>2, SubscribeBodyRead
<1>4. PICK t \in 0..15 : t = PacketType.SUBSCRIBE
  BY Types
<1>5. PICK f \in 0..15 : f = 2
  OBVIOUS
<1>6. ValidateFlags(t, f)
  BY <1>4, <1>5 DEF ValidateFlags, allowedFlags, PacketType
<1>7. PICK k : k = PacketWith(t, f, b)
  OBVIOUS
<1>8. SubscribeOf(filters) = k
  BY <1>2, <1>4, <1>5, <1>7 DEF SubscribeOf
<1>9. Proper(k)
  BY <1>1, <1>2, <1>3, <1>6, <1>7, ProperWith
<1>10. Framed(k) = Frame(t, f, b) /\ k.type = t /\ k.body = b
  BY <1>7, PacketFields
<1> QED BY <1>2, <1>3, <1>4, <1>5, <1>8, <1>9, <1>10

\* So is UNSUBSCRIBE, with its filters.
LEMMA UnSubscribePacket ==
    ASSUME NEW filters \in Withdrawal
    PROVE  /\ Proper(UnSubscribeOf(filters))
           /\ Frame(PacketType.UNSUBSCRIBE, 2, UnSubscribeBody(filters)) = Framed(UnSubscribeOf(filters))
           /\ UnSubscribeOf(filters).type = PacketType.UNSUBSCRIBE
           /\ \E q : ParseUnSubscribePacket(UnSubscribeOf(filters).body)
                     = Got([id |-> 1, subscriptions |-> filters], q)
<1>1. filters \in Seq(Seq(Nat)) /\ Len(UnSubscribeBody(filters)) <= Limit
  BY FilterAssumption
<1>2. PICK b, q : b = UnSubscribeBody(filters) /\ q = Len(b)
  OBVIOUS
<1>3. b \in Seq(Nat) /\ ParseUnSubscribePacket(b) = Got([id |-> 1, subscriptions |-> filters], q)
  BY <1>1, <1>2, UnSubscribeBodyRead
<1>4. PICK t \in 0..15 : t = PacketType.UNSUBSCRIBE
  BY Types
<1>5. PICK f \in 0..15 : f = 2
  OBVIOUS
<1>6. ValidateFlags(t, f)
  BY <1>4, <1>5 DEF ValidateFlags, allowedFlags, PacketType
<1>7. PICK k : k = PacketWith(t, f, b)
  OBVIOUS
<1>8. UnSubscribeOf(filters) = k
  BY <1>2, <1>4, <1>5, <1>7 DEF UnSubscribeOf
<1>9. Proper(k)
  BY <1>1, <1>2, <1>3, <1>6, <1>7, ProperWith
<1>10. Framed(k) = Frame(t, f, b) /\ k.type = t /\ k.body = b
  BY <1>7, PacketFields
<1> QED BY <1>2, <1>3, <1>4, <1>5, <1>8, <1>9, <1>10

\* So is any packet without flags.
LEMMA PlainPacket ==
    ASSUME NEW type \in 0..15, type \notin {PacketType.PUBLISH, PacketType.PUBREL, PacketType.SUBSCRIBE,
                                            PacketType.UNSUBSCRIBE},
           NEW body \in Seq(Nat), Len(body) <= Limit, NEW k, k = PacketWith(type, 0, body)
    PROVE  /\ Proper(k) /\ Frame(type, 0, body) = Framed(k)
           /\ k.type = type /\ k.body = body
<1>1. PICK f \in 0..15 : f = 0
  OBVIOUS
<1>2. ValidateFlags(type, f)
  BY <1>1 DEF ValidateFlags, allowedFlags
<1>3. k = PacketWith(type, f, body)
  BY <1>1
<1>4. Proper(k)
  BY <1>2, <1>3, ProperWith
<1>5. Framed(k) = Frame(type, f, body) /\ k.type = type /\ k.body = body
  BY <1>3, PacketFields
<1> QED BY <1>1, <1>4, <1>5

\* So is PINGREQ.
LEMMA PingPacket ==
    /\ Proper(Ping) /\ Frame(PacketType.PINGREQ, 0, <<>>) = Framed(Ping) /\ Ping.type = PacketType.PINGREQ
<1>1. PICK t \in 0..15 : t = PacketType.PINGREQ
  BY Types
<1>2. t \notin {PacketType.PUBLISH, PacketType.PUBREL, PacketType.SUBSCRIBE, PacketType.UNSUBSCRIBE}
  BY <1>1 DEF PacketType
<1>3. PICK b : b = <<>>
  OBVIOUS
<1>4. b \in Seq(Nat) /\ Len(b) = 0 /\ Limit \in Nat
  BY <1>3, PowerFacts
<1>5. Len(b) <= Limit
  BY <1>4
<1>6. PICK k : k = PacketWith(t, 0, b)
  OBVIOUS
<1>7. Proper(k) /\ Frame(t, 0, b) = Framed(k) /\ k.type = t
  BY <1>2, <1>4, <1>5, <1>6, PlainPacket, ZenonT(30)
<1>8. Ping = k
  BY <1>1, <1>3, <1>6 DEF Ping
<1> QED BY <1>1, <1>3, <1>7, <1>8

(***************************************************************************)
(* What a client has sent and its handler has not read.                    *)
(***************************************************************************)
\* The requests of c whose filters are among those asked for.
Requests(c, A) ==
    {SubscribeOf(filters) : filters \in
        {g \in Subscription : \A e \in ToSet(g) : [client |-> c, topic |-> e.topic, qos |-> e.qos] \in A}}
    \cup {UnSubscribeOf(filters) : filters \in Withdrawal} \cup {Ping}

\* ps are the publications S from number a+1 on to the last, and requests among R.
QueuedAt(ps, a, S, R, nth) ==
    /\ nth \in [0..Len(ps) -> Nat] /\ nth[0] = a /\ nth[Len(ps)] = Len(S)
    /\ \A i \in 1..Len(ps) :
          /\ Proper(ps[i])
          /\ \/ /\ nth[i] = nth[i-1] + 1 /\ nth[i] <= Len(S)
                /\ ps[i] = PacketOf(S[nth[i]].pub)
             \/ nth[i] = nth[i-1] /\ ps[i] \in R

\* With some way of counting.
Queued(ps, a, S, R) == \E nth : QueuedAt(ps, a, S, R, nth)

\* Bytes that end the connection.
Bad(t) ==
    /\ t \in Seq(Nat)
    /\ Fine(ReadPacket(t)) => \/ ReadPacket(t).value.type = PacketType.DISCONNECT
                              \/ ~Sound(ReadPacket(t).value)

\* The bytes s are the packets ps, then t.  Who behaves has sent nothing else.
BacklogAs(s, a, S, R, b, ps, t) ==
    Frames(s, ps, t) /\ Queued(ps, a, S, R) /\ (b => t = <<>>) /\ Bad(t)

\* The bytes s are what is left of S once a publications of it were read.
Backlog(s, a, S, R, b) ==
    /\ a \in 0..Len(S) /\ Len(S) \in Nat
    /\ \E ps, t : BacklogAs(s, a, S, R, b, ps, t)

\* ReadPacket waits for the first byte.
LEMMA NothingRead == ~Fine(ReadPacket(<<>>)) /\ ReadPacket(<<>>).is = "waiting"
BY DEF ReadPacket, Waiting, Fine

\* No bytes at all end a connection, when no more come.
LEMMA NothingBad == Bad(<<>>)
BY NothingRead DEF Bad

\* Nothing was sent, nothing is left.
LEMMA BacklogNone ==
    ASSUME NEW S, S = <<>>, NEW R, NEW b
    PROVE  Backlog(<<>>, 0, S, R, b)
<1>1. PICK o : o = 0
  OBVIOUS
<1>2. PICK e : e = <<>>
  OBVIOUS
<1>3. e \in Seq(Nat) /\ Len(e) = o /\ o \in Nat /\ 1..o = {} /\ o \in 0..o
  BY <1>1, <1>2
<1>4. Frames(e, e, e)
  BY <1>2, <1>3, FramesNone
<1> DEFINE nth == [i \in 0..0 |-> o]
<1>5. nth \in [0..o -> Nat] /\ nth[0] = o /\ nth[o] = o
  BY <1>1
<1> HIDE DEF nth
<1>6. QueuedAt(e, o, e, R, nth)
  BY <1>3, <1>5 DEF QueuedAt
<1>7. BacklogAs(e, o, e, R, b, e, e)
  BY <1>2, <1>4, <1>6, NothingBad DEF BacklogAs, Queued
<1>8. Backlog(e, o, e, R, b)
  BY <1>3, <1>7 DEF Backlog
<1> QED BY <1>1, <1>2, <1>8

\* A backlog depends on the publications alone, and more requests may have been made.
LEMMA BacklogSame ==
    ASSUME NEW s, NEW a, NEW S, NEW R, NEW b, Backlog(s, a, S, R, b),
           NEW S2, Len(S2) = Len(S), \A n \in 1..Len(S) : S2[n].pub = S[n].pub,
           NEW R2, R \subseteq R2, NEW b2, b2 => b
    PROVE  Backlog(s, a, S2, R2, b2)
<1>1. PICK ps, t : BacklogAs(s, a, S, R, b, ps, t)
  BY DEF Backlog
<1>2. PICK nth : QueuedAt(ps, a, S, R, nth)
  BY <1>1 DEF BacklogAs, Queued
<1>3. PICK l, m : l = Len(ps) /\ m = Len(S)
  OBVIOUS
<1>4. l \in Nat /\ m \in Nat
  BY <1>1, <1>3 DEF BacklogAs, Backlog, Frames, FramesAt
<1>5. ASSUME NEW i \in 1..l
      PROVE  /\ Proper(ps[i])
             /\ \/ /\ nth[i] = nth[i-1] + 1 /\ nth[i] <= m
                   /\ ps[i] = PacketOf(S2[nth[i]].pub)
                \/ nth[i] = nth[i-1] /\ ps[i] \in R2
  <2>1. /\ Proper(ps[i])
        /\ \/ /\ nth[i] = nth[i-1] + 1 /\ nth[i] <= m
              /\ ps[i] = PacketOf(S[nth[i]].pub)
           \/ nth[i] = nth[i-1] /\ ps[i] \in R
    BY <1>2, <1>3 DEF QueuedAt
  <2>2. nth[i-1] \in Nat
    <3>1. i - 1 \in 0..l
      BY <1>4
    <3> QED BY <1>2, <1>3, <3>1 DEF QueuedAt
  <2>3. CASE nth[i] = nth[i-1] + 1 /\ nth[i] <= m /\ ps[i] = PacketOf(S[nth[i]].pub)
    <3>1. nth[i] \in 1..m
      BY <1>4, <2>2, <2>3
    <3>2. S2[nth[i]].pub = S[nth[i]].pub
      BY <1>3, <3>1
    <3> QED BY <2>1, <2>3, <3>2
  <2> QED BY <2>1, <2>3
<1>6. QueuedAt(ps, a, S2, R2, nth)
  BY <1>2, <1>3, <1>5 DEF QueuedAt
<1>7. BacklogAs(s, a, S2, R2, b2, ps, t)
  BY <1>1, <1>6 DEF BacklogAs, Queued
<1> QED BY <1>7 DEF Backlog

\* A packet that is queued behind others.
LEMMA QueuedMore ==
    ASSUME NEW ps \in Seq(Fitting), NEW a, NEW S, NEW R, NEW nth, QueuedAt(ps, a, S, R, nth),
           NEW k, Proper(k), NEW S2, NEW m, m = Len(S), m \in Nat, \A n \in 1..m : S2[n].pub = S[n].pub,
           \/ Len(S2) = m + 1 /\ k = PacketOf(S2[m + 1].pub)
           \/ Len(S2) = m /\ k \in R
    PROVE  Queued(Append(ps, k), a, S2, R)
<1>1. PICK qs : qs = Append(ps, k)
  OBVIOUS
<1>2. PICK l : l = Len(ps)
  OBVIOUS
<1>3. /\ l \in Nat /\ Len(qs) = l + 1 /\ qs[l + 1] = k /\ \A i \in 1..l : qs[i] = ps[i]
  <2>1. k \in Fitting
    BY DEF Proper
  <2> QED BY <1>1, <1>2, <2>1, Longest
<1>4. PICK j : j = Len(S2)
  OBVIOUS
<1>5. j \in Nat /\ (j = m \/ j = m + 1)
  BY <1>4
<1> DEFINE r == [i \in 0..l+1 |-> IF i <= l THEN nth[i] ELSE j]
<1>6. nth \in [0..l -> Nat] /\ nth[0] = a /\ nth[l] = m
  BY <1>2 DEF QueuedAt
<1>7. r \in [0..l+1 -> Nat]
  BY <1>3, <1>5, <1>6
<1>8. r[0] = a /\ r[l+1] = j /\ \A i \in 0..l : r[i] = nth[i]
  BY <1>3, <1>6
<1> HIDE DEF r
<1>9. ASSUME NEW i \in 1..l+1
      PROVE  /\ Proper(qs[i])
             /\ \/ r[i] = r[i-1] + 1 /\ r[i] <= j /\ qs[i] = PacketOf(S2[r[i]].pub)
                \/ r[i] = r[i-1] /\ qs[i] \in R
  <2>1. CASE i = l + 1
    <3>1. i - 1 = l /\ l \in 0..l
      BY <1>3, <2>1
    <3>2. r[i] = j /\ r[i-1] = m /\ qs[i] = k
      BY <1>3, <1>6, <1>8, <2>1, <3>1
    <3>3. CASE j = m + 1 /\ k = PacketOf(S2[m + 1].pub)
      BY <1>5, <3>2, <3>3
    <3>4. CASE j = m /\ k \in R
      BY <3>2, <3>4
    <3> QED BY <1>4, <3>3, <3>4
  <2>2. CASE i # l + 1
    <3>1. i \in 1..l /\ i - 1 \in 0..l /\ i \in 0..l
      BY <1>3, <2>2
    <3>2. r[i] = nth[i] /\ r[i-1] = nth[i-1] /\ qs[i] = ps[i] /\ nth[i-1] \in Nat
      BY <1>3, <1>6, <1>8, <3>1
    <3>3. /\ Proper(ps[i])
          /\ \/ nth[i] = nth[i-1] + 1 /\ nth[i] <= m /\ ps[i] = PacketOf(S[nth[i]].pub)
             \/ nth[i] = nth[i-1] /\ ps[i] \in R
      BY <1>2, <3>1 DEF QueuedAt
    <3>4. CASE nth[i] = nth[i-1] + 1 /\ nth[i] <= m /\ ps[i] = PacketOf(S[nth[i]].pub)
      <4>1. nth[i] \in 1..m /\ nth[i] <= j
        BY <1>5, <3>2, <3>4
      <4>2. S2[nth[i]].pub = S[nth[i]].pub
        BY <4>1
      <4> QED BY <3>2, <3>3, <3>4, <4>1, <4>2
    <3> QED BY <3>2, <3>3, <3>4
  <2> QED BY <2>1, <2>2
<1>10. QueuedAt(qs, a, S2, R, r)
  BY <1>3, <1>4, <1>7, <1>8, <1>9 DEF QueuedAt
<1> QED BY <1>1, <1>10 DEF Queued

\* A client sends one more packet.
LEMMA BacklogMore ==
    ASSUME NEW s, NEW a, NEW S, NEW R, Backlog(s, a, S, R, TRUE),
           NEW k, Proper(k), NEW S2, NEW m, m = Len(S), \A n \in 1..m : S2[n].pub = S[n].pub,
           \/ Len(S2) = m + 1 /\ k = PacketOf(S2[m + 1].pub)
           \/ Len(S2) = m /\ k \in R
    PROVE  Backlog(s \o Framed(k), a, S2, R, TRUE)
<1>1. PICK ps, t : BacklogAs(s, a, S, R, TRUE, ps, t)
  BY DEF Backlog
<1>2. PICK nth : QueuedAt(ps, a, S, R, nth)
  BY <1>1 DEF BacklogAs, Queued
<1>3. Frames(s, ps, <<>>) /\ ps \in Seq(Fitting) /\ m \in Nat /\ a \in 0..m
  BY <1>1 DEF BacklogAs, Backlog, Frames, FramesAt
<1>4. PICK qs : qs = Append(ps, k)
  OBVIOUS
<1>5. Queued(qs, a, S2, R)
  BY <1>2, <1>3, <1>4, QueuedMore
<1>6. PICK r : r = s \o Framed(k)
  OBVIOUS
<1>7. Frames(r, qs, <<>>)
  BY <1>3, <1>4, <1>6, FramesMore DEF Proper
<1>8. BacklogAs(r, a, S2, R, TRUE, qs, <<>>)
  BY <1>5, <1>7, NothingBad DEF BacklogAs
<1>9. Len(S2) \in Nat /\ a \in 0..Len(S2)
  <2>1. PICK j : j = Len(S2)
    OBVIOUS
  <2>2. j = m \/ j = m + 1
    BY <2>1
  <2> QED BY <1>3, <2>1, <2>2
<1> QED BY <1>6, <1>8, <1>9 DEF Backlog

\* A client sends what ends its connection.
LEMMA BacklogBad ==
    ASSUME NEW s, NEW a, NEW S, NEW R, Backlog(s, a, S, R, TRUE), NEW t, Bad(t)
    PROVE  Backlog(s \o t, a, S, R, FALSE)
<1>1. PICK ps, e : BacklogAs(s, a, S, R, TRUE, ps, e)
  BY DEF Backlog
<1>2. Frames(s, ps, <<>>) /\ t \in Seq(Nat)
  BY <1>1 DEF BacklogAs, Bad
<1>3. Frames(s \o t, ps, t)
  BY <1>2, FramesTail
<1>4. BacklogAs(s \o t, a, S, R, FALSE, ps, t)
  BY <1>1, <1>3 DEF BacklogAs
<1> QED BY <1>4 DEF Backlog
-----------------------------------------------------------------------------
(***************************************************************************)
(* What ReadPacket takes from the front of that, and what it leaves.       *)
(***************************************************************************)

\* The tail of a sequence.
LEMMA Shorter ==
    ASSUME NEW V, NEW ps \in Seq(V), ps # <<>>, NEW l, l = Len(ps), NEW qs, qs = Tail(ps)
    PROVE  /\ l \in Nat \ {0} /\ qs \in Seq(V) /\ Len(qs) = l - 1
           /\ \A i \in 1..l-1 : qs[i] = ps[i+1]
<1>1. l \in Nat \ {0}
  BY EmptySeq
<1>2. qs \in Seq(V) /\ Len(qs) = l - 1
  BY HeadTailProperties
<1>3. \A i \in 1..l-1 : qs[i] = ps[i+1]
  BY <1>2, HeadTailProperties
<1> QED BY <1>1, <1>2, <1>3

\* The first packet is taken.
LEMMA QueuedTail ==
    ASSUME NEW ps \in Seq(Fitting), ps # <<>>, NEW a, NEW S, NEW R, NEW nth, QueuedAt(ps, a, S, R, nth)
    PROVE  Queued(Tail(ps), nth[1], S, R)
<1>1. PICK qs, l : qs = Tail(ps) /\ l = Len(ps)
  OBVIOUS
<1>2. l \in Nat \ {0} /\ qs \in Seq(Fitting) /\ Len(qs) = l - 1 /\ \A i \in 1..l-1 : qs[i] = ps[i+1]
  BY <1>1, Shorter
<1>3. nth \in [0..l -> Nat] /\ nth[l] = Len(S)
  BY <1>1 DEF QueuedAt
<1> DEFINE r == [i \in 0..l-1 |-> nth[i+1]]
<1>4. r \in [0..l-1 -> Nat] /\ \A i \in 0..l-1 : r[i] = nth[i+1]
  BY <1>2, <1>3
<1> HIDE DEF r
<1>5. r[0] = nth[1] /\ r[l-1] = Len(S)
  <2>1. 0 \in 0..l-1 /\ l - 1 \in 0..l-1 /\ (l - 1) + 1 = l
    BY <1>2
  <2> QED BY <1>3, <1>4, <2>1
<1>6. ASSUME NEW i \in 1..l-1
      PROVE  /\ Proper(qs[i])
             /\ \/ r[i] = r[i-1] + 1 /\ r[i] <= Len(S) /\ qs[i] = PacketOf(S[r[i]].pub)
                \/ r[i] = r[i-1] /\ qs[i] \in R
  <2>1. PICK j \in 1..l : j = i + 1
    BY <1>2
  <2>2. i \in 0..l-1 /\ i - 1 \in 0..l-1 /\ (i - 1) + 1 = i /\ j - 1 = i
    BY <1>2, <2>1
  <2>3. qs[i] = ps[j] /\ r[i] = nth[j] /\ r[i-1] = nth[j-1]
    BY <1>2, <1>4, <2>1, <2>2
  <2>4. /\ Proper(ps[j])
        /\ \/ nth[j] = nth[j-1] + 1 /\ nth[j] <= Len(S) /\ ps[j] = PacketOf(S[nth[j]].pub)
           \/ nth[j] = nth[j-1] /\ ps[j] \in R
    BY <1>1 DEF QueuedAt
  <2> QED BY <2>3, <2>4
<1>7. QueuedAt(qs, nth[1], S, R, r)
  BY <1>2, <1>4, <1>5, <1>6 DEF QueuedAt
<1> QED BY <1>1, <1>7 DEF Queued

\* What ReadPacket finds in a backlog.
HeadIs(r, rest, a, S, R, b) ==
    \/ /\ a + 1 \in 1..Len(S) /\ r.value = PacketOf(S[a + 1].pub)
       /\ Backlog(rest, a + 1, S, R, b)
    \/ r.value \in R /\ Backlog(rest, a, S, R, b)
    \/ ~b /\ (r.value.type = PacketType.DISCONNECT \/ ~Sound(r.value))

\* A packet that ReadPacket finds is the next publication, a request, or one that ends the
\* connection; the rest is a backlog.
LEMMA BacklogHead ==
    ASSUME NEW s, NEW a, NEW S, NEW R, NEW b, Backlog(s, a, S, R, b),
           NEW r, r = ReadPacket(s), Fine(r), NEW rest, rest = SubSeq(s, r.ptr + 1, Len(s))
    PROVE  HeadIs(r, rest, a, S, R, b)
<1>1. PICK ps, t : BacklogAs(s, a, S, R, b, ps, t)
  BY DEF Backlog
<1>2. Frames(s, ps, t) /\ ps \in Seq(Fitting) /\ Bad(t) /\ (b => t = <<>>)
  BY <1>1 DEF BacklogAs, Frames, FramesAt
<1>3. CASE ps = <<>>
  <2>1. s = t
    BY <1>2, <1>3, FramesOnly
  <2>2. t # <<>>
    BY <2>1, NothingRead
  <2> QED BY <1>2, <2>1, <2>2 DEF Bad, HeadIs
<1>4. CASE ps # <<>>
  <2>1. PICK nth : QueuedAt(ps, a, S, R, nth)
    BY <1>1 DEF BacklogAs, Queued
  <2>2. PICK k : k = ps[1]
    OBVIOUS
  <2>3. PICK l, m : l = Len(ps) /\ m = Len(S)
    OBVIOUS
  <2>4. l \in Nat \ {0} /\ m \in Nat /\ a \in 0..m
    BY <1>2, <1>4, <2>3, Shorter DEF Backlog
  <2>5. /\ Proper(k)
        /\ \/ nth[1] = a + 1 /\ nth[1] <= m /\ k = PacketOf(S[nth[1]].pub)
           \/ nth[1] = a /\ k \in R
    <3>1. 1 \in 1..l /\ 1 - 1 = 0
      BY <2>4
    <3>2. nth[0] = a
      BY <2>1 DEF QueuedAt
    <3>3. /\ Proper(ps[1])
          /\ \/ nth[1] = nth[1-1] + 1 /\ nth[1] <= Len(S) /\ ps[1] = PacketOf(S[nth[1]].pub)
             \/ nth[1] = nth[1-1] /\ ps[1] \in R
      BY <2>1, <2>3, <3>1 DEF QueuedAt
    <3> QED BY <2>2, <2>3, <3>1, <3>2, <3>3
  <2>6. PICK n : n = Len(Framed(k))
    OBVIOUS
  <2>7. r = Got(k, n) /\ Frames(SubSeq(s, n + 1, Len(s)), Tail(ps), t)
    <3>1. ValidateFlags(k.type, k.flags)
      BY <2>5 DEF Proper
    <3> QED BY <1>2, <1>4, <2>2, <2>6, <3>1, FramesRead
  <2>8. r.value = k /\ r.ptr = n
    BY <2>7, GotIs
  <2>9. Queued(Tail(ps), nth[1], S, R)
    BY <1>2, <1>4, <2>1, QueuedTail
  <2>10. BacklogAs(rest, nth[1], S, R, b, Tail(ps), t)
    BY <1>2, <2>7, <2>8, <2>9 DEF BacklogAs
  <2>11. nth[1] \in 0..m
    BY <2>4, <2>5
  <2>12. Backlog(rest, nth[1], S, R, b)
    BY <2>3, <2>4, <2>10, <2>11 DEF Backlog
  <2>13. CASE nth[1] = a + 1 /\ nth[1] <= m /\ k = PacketOf(S[nth[1]].pub)
    <3>1. a + 1 \in 1..m
      BY <2>4, <2>13
    <3> QED BY <2>3, <2>8, <2>12, <2>13, <3>1 DEF HeadIs
  <2>14. CASE nth[1] = a /\ k \in R
    BY <2>8, <2>12, <2>14 DEF HeadIs
  <2> QED BY <2>5, <2>13, <2>14
<1> QED BY <1>3, <1>4

\* ReadPacket fails only on the bytes of a client that does not behave.
LEMMA BacklogError ==
    ASSUME NEW s, NEW a, NEW S, NEW R, NEW b, Backlog(s, a, S, R, b), ReadPacket(s).is = "error"
    PROVE  ~b
<1>1. PICK ps, t : BacklogAs(s, a, S, R, b, ps, t)
  BY DEF Backlog
<1>2. Frames(s, ps, t) /\ ps \in Seq(Fitting) /\ (b => t = <<>>)
  BY <1>1 DEF BacklogAs, Frames, FramesAt
<1>3. CASE ps = <<>>
  <2>1. s = t
    BY <1>2, <1>3, FramesOnly
  <2>2. t # <<>>
    BY <2>1, NothingRead
  <2> QED BY <1>2, <2>2
<1>4. CASE ps # <<>>
  <2>1. PICK nth : QueuedAt(ps, a, S, R, nth)
    BY <1>1 DEF BacklogAs, Queued
  <2>2. PICK k, n : k = ps[1] /\ n = Len(Framed(k))
    OBVIOUS
  <2>3. PICK l : l = Len(ps)
    OBVIOUS
  <2>4. 1 \in 1..l
    BY <1>2, <1>4, <2>3, Shorter
  <2>5. ValidateFlags(k.type, k.flags)
    BY <2>1, <2>2, <2>3, <2>4 DEF QueuedAt, Proper
  <2>6. ReadPacket(s) = Got(k, n)
    BY <1>2, <1>4, <2>2, <2>5, FramesRead
  <2> QED BY <2>6, GotIs
<1> QED BY <1>3, <1>4
-----------------------------------------------------------------------------
(***************************************************************************)
(* The handler is in step with its client. It follows what each packet     *)
(* that arrives must be.                                                   *)
(***************************************************************************)

\* CONNECT as a client means it, and one that is to be refused.
HelloOf(c) == PacketWith(PacketType.CONNECT, 0, ConnectBody(Greeting[c], c))
Wrong(body) == PacketWith(PacketType.CONNECT, 0, body)

\* Before the handshake.
Begins(c) ==
    /\ th[c].read = 0 /\ sent[c] = <<>>
    /\ \/ inbox[c] = <<>>
       \/ claims[c] = Claim(Greeting[c], c) /\ inbox[c] = Framed(HelloOf(c))
       \/ \E body \in BadGreeting : inbox[c] = Framed(Wrong(body))

\* Where a handler can be.
Labels == {"first", "read", "save", "match", "route", "create", "return", "number", "deliver", "closed"}

\* What c has sent and its handler has not read.
Pending(c) == Backlog(inbox[c], th[c].read, sent[c], Requests(c, asked), c \in behaved)

\* Handler c is in step with its client: before the handshake, while it is connected, and at
\* the end, which a client that behaves does not come to.
ReadingOf(c) ==
    /\ th[c].pc \in Labels /\ th[c].read \in 0..Len(sent[c])
    /\ c \in connections <=> th[c].pc \notin {"first", "closed"}
    /\ th[c].pc = "first" => Begins(c)
    /\ th[c].pc \notin {"first", "closed"} => Pending(c) /\ th[c].info = claims[c]
    /\ th[c].pc = "closed" => c \notin behaved

\* All are, and no parser has read beyond the end of a body.
Reading == crashed # "slice" /\ \A c \in Client : ReadingOf(c)

\* What is left in the inbox of c behind the packet r.
Remainder(c, r) == SubSeq(inbox[c], r.ptr + 1, Len(inbox[c]))

\* What has arrived is what ReadPacket finds.
LEMMA ArrivedIs ==
    ASSUME NEW c, NEW types, NEW r \in Arrived(c, types)
    PROVE  r = ReadPacket(inbox[c]) /\ Fine(r) /\ r.value.type \in types
BY DEF Arrived

\* It is the head of the backlog.
LEMMA ArrivedHead ==
    ASSUME NEW c, th[c].pc = "read", ReadingOf(c), NEW types, NEW r \in Arrived(c, types)
    PROVE  HeadIs(r, Remainder(c, r), th[c].read, sent[c], Requests(c, asked), c \in behaved)
<1>1. r = ReadPacket(inbox[c]) /\ Fine(r)
  BY ArrivedIs
<1>2. Backlog(inbox[c], th[c].read, sent[c], Requests(c, asked), c \in behaved)
  BY DEF ReadingOf, Pending
<1>3. PICK rest : rest = SubSeq(inbox[c], r.ptr + 1, Len(inbox[c]))
  OBVIOUS
<1>4. HeadIs(r, rest, th[c].read, sent[c], Requests(c, asked), c \in behaved)
  BY <1>1, <1>2, <1>3, BacklogHead
<1> QED BY <1>3, <1>4 DEF Remainder

\* Its body is bytes.
LEMMA ArrivedBody ==
    ASSUME NEW c, th[c].pc = "read", ReadingOf(c), NEW types, NEW r \in Arrived(c, types)
    PROVE  r.value.body \in Seq(Nat) /\ r.value.flags \in Nat
<1>1. r = ReadPacket(inbox[c]) /\ Fine(r)
  BY ArrivedIs
<1>2. inbox[c] \in Seq(Nat)
  BY DEF ReadingOf, Pending, Backlog, BacklogAs, Frames, FramesAt
<1> QED BY <1>1, <1>2, PacketYields

\* A request is SUBSCRIBE, UNSUBSCRIBE or PINGREQ.
LEMMA RequestTypes ==
    ASSUME NEW c, NEW A, NEW k \in Requests(c, A)
    PROVE  /\ Proper(k) /\ k.type \in {PacketType.SUBSCRIBE, PacketType.UNSUBSCRIBE, PacketType.PINGREQ}
           /\ k.type = PacketType.SUBSCRIBE =>
                 \E filters \in Subscription :
                    /\ k = SubscribeOf(filters)
                    /\ \A e \in ToSet(filters) : [client |-> c, topic |-> e.topic, qos |-> e.qos] \in A
           /\ k.type = PacketType.UNSUBSCRIBE => \E filters \in Withdrawal : k = UnSubscribeOf(filters)
<1>1. PacketType.SUBSCRIBE # PacketType.UNSUBSCRIBE /\ PacketType.SUBSCRIBE # PacketType.PINGREQ
      /\ PacketType.UNSUBSCRIBE # PacketType.PINGREQ
  BY Types
<1>2. CASE \E filters \in Subscription :
              /\ k = SubscribeOf(filters)
              /\ \A e \in ToSet(filters) : [client |-> c, topic |-> e.topic, qos |-> e.qos] \in A
  BY <1>1, <1>2, SubscribePacket
<1>3. CASE \E filters \in Withdrawal : k = UnSubscribeOf(filters)
  BY <1>1, <1>3, UnSubscribePacket
<1>4. CASE k = Ping
  BY <1>1, <1>4, PingPacket
<1> QED BY <1>2, <1>3, <1>4 DEF Requests

\* What c has sent is one of the publications.
LEMMA PublicationOf ==
    ASSUME Shape, NEW c \in Client, NEW n \in 1..Len(sent[c])
    PROVE  sent[c][n].pub \in Publication /\ sent[c][n] \in Posts(Publication)
<1>1. sent[c] \in Seq(Posts(Publication))
  BY DEF Shape
<1>2. sent[c][n] \in Posts(Publication)
  BY <1>1
<1> QED BY <1>2 DEF Posts

\* What the handler finds in its inbox, by the type of the packet.
PublishFinds(c, r) ==
    \/ \E n \in 1..Len(sent[c]) :
          /\ n = th[c].read + 1
          /\ \E q : ParsePublishPacket(r.value.flags, r.value.body) = Got(Bare(sent[c][n].pub), q)
          /\ Backlog(Remainder(c, r), n, sent[c], Requests(c, asked), c \in behaved)
    \/ c \notin behaved /\ ~Fine(ParsePublishPacket(r.value.flags, r.value.body))

\* The rest, when the packet was no publication.
Stays(c, r) == Backlog(Remainder(c, r), th[c].read, sent[c], Requests(c, asked), c \in behaved)

\* Filters that were asked for, or a packet that does not parse.
SubscribeFinds(c, r) ==
    \/ /\ \E filters \in Subscription : \E q :
             /\ \A e \in ToSet(filters) : [client |-> c, topic |-> e.topic, qos |-> e.qos] \in asked
             /\ ParseSubscribePacket(r.value.body) = Got([id |-> 1, subscriptions |-> Granted(filters)], q)
       /\ Stays(c, r)
    \/ c \notin behaved /\ ~Fine(ParseSubscribePacket(r.value.body))

\* Filters, or a packet that does not parse.
UnsubscribeFinds(c, r) ==
    \/ /\ \E filters \in Withdrawal : \E q :
             ParseUnSubscribePacket(r.value.body) = Got([id |-> 1, subscriptions |-> filters], q)
       /\ Stays(c, r)
    \/ c \notin behaved /\ ~Fine(ParseUnSubscribePacket(r.value.body))

\* The handler finds in PUBLISH the next publication of its client, or, if that does not
\* behave, none.
LEMMA PublishFound ==
    ASSUME Shape, NEW c \in Client, th[c].pc = "read", ReadingOf(c), NEW r \in Arrived(c, {PacketType.PUBLISH})
    PROVE  PublishFinds(c, r)
<1>1. HeadIs(r, Remainder(c, r), th[c].read, sent[c], Requests(c, asked), c \in behaved)
  BY ArrivedHead
<1>2. r.value.type = PacketType.PUBLISH
  BY ArrivedIs
<1>3. PacketType.PUBLISH \notin {PacketType.SUBSCRIBE, PacketType.UNSUBSCRIBE, PacketType.PINGREQ, PacketType.DISCONNECT}
  BY Types
<1>4. r.value \notin Requests(c, asked)
  BY <1>2, <1>3, RequestTypes
<1>5. ASSUME NEW n \in 1..Len(sent[c]), n = th[c].read + 1, r.value = PacketOf(sent[c][n].pub),
             Backlog(Remainder(c, r), n, sent[c], Requests(c, asked), c \in behaved)
      PROVE  PublishFinds(c, r)
  <2>1. sent[c][n].pub \in Publication \cup Switch
    BY PublicationOf
  <2>2. PICK q : ParsePublishPacket(r.value.flags, r.value.body) = Got(Bare(sent[c][n].pub), q)
    BY <1>5, <2>1, PublishPacket
  <2> QED BY <1>5, <2>2 DEF PublishFinds
<1>6. ASSUME c \notin behaved, ~Sound(r.value) PROVE PublishFinds(c, r)
  BY <1>2, <1>6 DEF PublishFinds, Sound
<1> QED BY <1>1, <1>2, <1>3, <1>4, <1>5, <1>6 DEF HeadIs

\* A publication is sent as PUBLISH.
LEMMA PublicationIs ==
    ASSUME Shape, NEW c \in Client, NEW n, n + 1 \in 1..Len(sent[c]), NEW k, k = PacketOf(sent[c][n + 1].pub)
    PROVE  k.type = PacketType.PUBLISH
<1>1. PICK m \in 1..Len(sent[c]) : m = n + 1
  OBVIOUS
<1>2. sent[c][m].pub \in Publication \cup Switch
  BY PublicationOf
<1> QED BY <1>1, <1>2, PublishPacket

\* The handler finds in SUBSCRIBE filters that its client has asked for, or that client does
\* not behave.
LEMMA SubscribeFound ==
    ASSUME Shape, NEW c \in Client, th[c].pc = "read", ReadingOf(c), NEW r \in Arrived(c, {PacketType.SUBSCRIBE})
    PROVE  SubscribeFinds(c, r)
<1>1. HeadIs(r, Remainder(c, r), th[c].read, sent[c], Requests(c, asked), c \in behaved)
  BY ArrivedHead
<1>2. r.value.type = PacketType.SUBSCRIBE
  BY ArrivedIs
<1>3. PacketType.SUBSCRIBE \notin {PacketType.PUBLISH, PacketType.DISCONNECT}
  BY Types
<1>4. CASE r.value \in Requests(c, asked) /\ Stays(c, r)
  <2>1. PICK filters \in Subscription :
           /\ r.value = SubscribeOf(filters)
           /\ \A e \in ToSet(filters) : [client |-> c, topic |-> e.topic, qos |-> e.qos] \in asked
    BY <1>2, <1>4, RequestTypes
  <2>2. PICK q : ParseSubscribePacket(r.value.body) = Got([id |-> 1, subscriptions |-> Granted(filters)], q)
    BY <2>1, SubscribePacket
  <2> QED BY <1>4, <2>1, <2>2 DEF SubscribeFinds
<1>5. CASE c \notin behaved /\ ~Sound(r.value)
  BY <1>2, <1>5 DEF SubscribeFinds, Sound
<1> QED BY <1>1, <1>2, <1>3, <1>4, <1>5, PublicationIs DEF HeadIs, Stays

\* The handler finds filters in UNSUBSCRIBE, or its client does not behave.
LEMMA UnsubscribeFound ==
    ASSUME Shape, NEW c \in Client, th[c].pc = "read", ReadingOf(c), NEW r \in Arrived(c, {PacketType.UNSUBSCRIBE})
    PROVE  UnsubscribeFinds(c, r)
<1>1. HeadIs(r, Remainder(c, r), th[c].read, sent[c], Requests(c, asked), c \in behaved)
  BY ArrivedHead
<1>2. r.value.type = PacketType.UNSUBSCRIBE
  BY ArrivedIs
<1>3. PacketType.UNSUBSCRIBE \notin {PacketType.PUBLISH, PacketType.DISCONNECT}
  BY Types
<1>4. CASE r.value \in Requests(c, asked) /\ Stays(c, r)
  <2>1. PICK filters \in Withdrawal : r.value = UnSubscribeOf(filters)
    BY <1>2, <1>4, RequestTypes
  <2>2. PICK q : ParseUnSubscribePacket(r.value.body) = Got([id |-> 1, subscriptions |-> filters], q)
    BY <2>1, UnSubscribePacket
  <2> QED BY <1>4, <2>1, <2>2 DEF UnsubscribeFinds
<1>5. CASE c \notin behaved /\ ~Sound(r.value)
  BY <1>2, <1>5 DEF UnsubscribeFinds, Sound
<1> QED BY <1>1, <1>2, <1>3, <1>4, <1>5, PublicationIs DEF HeadIs, Stays

\* PINGREQ has nothing to be found in it.
LEMMA PingFound ==
    ASSUME Shape, NEW c \in Client, th[c].pc = "read", ReadingOf(c), NEW r \in Arrived(c, {PacketType.PINGREQ})
    PROVE  Stays(c, r)
<1>1. HeadIs(r, Remainder(c, r), th[c].read, sent[c], Requests(c, asked), c \in behaved)
  BY ArrivedHead
<1>2. r.value.type = PacketType.PINGREQ
  BY ArrivedIs
<1>3. PacketType.PINGREQ \notin {PacketType.PUBLISH, PacketType.DISCONNECT}
  BY Types
<1>4. Sound(r.value)
  BY <1>2 DEF Sound
<1> QED BY <1>1, <1>2, <1>3, <1>4, PublicationIs DEF HeadIs, Stays

\* DISCONNECT, an acknowledgement or any other packet comes from a client that does not
\* behave.
LEMMA EndFound ==
    ASSUME Shape, NEW c \in Client, th[c].pc = "read", ReadingOf(c),
           Arrived(c, {PacketType.DISCONNECT}) # {} \/ Arrived(c, 0..15 \ {PacketType[n] : n \in Supported}) # {}
    PROVE  c \notin behaved
<1>1. PICK types : \E r \in Arrived(c, types) : types \cap {PacketType.PUBLISH, PacketType.SUBSCRIBE,
                                                        PacketType.UNSUBSCRIBE, PacketType.PINGREQ} = {}
  <2>1. PacketType.DISCONNECT \notin {PacketType.PUBLISH, PacketType.SUBSCRIBE, PacketType.UNSUBSCRIBE, PacketType.PINGREQ}
    BY Types
  <2>2. {PacketType.PUBLISH, PacketType.SUBSCRIBE, PacketType.UNSUBSCRIBE, PacketType.PINGREQ}
        \subseteq {PacketType[n] : n \in Supported}
    BY DEF Supported, PacketType
  <2>3. CASE Arrived(c, {PacketType.DISCONNECT}) # {}
    BY <2>1, <2>3
  <2>4. CASE Arrived(c, 0..15 \ {PacketType[n] : n \in Supported}) # {}
    <3>1. PICK X : X = {PacketType[n] : n \in Supported}
      OBVIOUS
    <3>2. Arrived(c, 0..15 \ X) # {}
      BY <2>4, <3>1
    <3>3. (0..15 \ X) \cap {PacketType.PUBLISH, PacketType.SUBSCRIBE, PacketType.UNSUBSCRIBE, PacketType.PINGREQ} = {}
      BY <2>2, <3>1
    <3>4. PICK T : T = 0..15 \ X
      OBVIOUS
    <3> QED BY <3>2, <3>3, <3>4
  <2> QED BY <2>3, <2>4
<1>4. PICK r \in Arrived(c, types) : types \cap {PacketType.PUBLISH, PacketType.SUBSCRIBE,
                                              PacketType.UNSUBSCRIBE, PacketType.PINGREQ} = {}
  BY <1>1
<1>2. HeadIs(r, Remainder(c, r), th[c].read, sent[c], Requests(c, asked), c \in behaved)
  BY ArrivedHead
<1>3. r.value.type \notin {PacketType.PUBLISH, PacketType.SUBSCRIBE, PacketType.UNSUBSCRIBE, PacketType.PINGREQ}
  BY <1>4, ArrivedIs
<1> QED BY <1>2, <1>3, PublicationIs, RequestTypes DEF HeadIs
-----------------------------------------------------------------------------
(***************************************************************************)
(* The handler stays in step: the handshake.                               *)
(***************************************************************************)

\* A connected handler is at one of these.
Busy == Labels \ {"first", "closed"}

\* The more was asked for, the more requests there can be.
LEMMA RequestsGrow ==
    ASSUME NEW c, NEW A, NEW A2, A \subseteq A2
    PROVE  Requests(c, A) \subseteq Requests(c, A2)
BY DEF Requests

\* A step that does not concern d leaves handler d in step.
LEMMA ReadingStays ==
    ASSUME Shape, Shape', NEW d \in Client, ReadingOf(d), th'[d] = th[d], inbox'[d] = inbox[d],
           claims'[d] = claims[d], Len(sent'[d]) = Len(sent[d]),
           \A n \in 1..Len(sent[d]) : sent'[d][n].pub = sent[d][n].pub,
           asked \subseteq asked', behaved' \subseteq behaved, d \in connections' <=> d \in connections
    PROVE  ReadingOf(d)'
<1>1. th[d].pc = "first" => Begins(d)'
  <2> SUFFICES ASSUME th[d].pc = "first" PROVE Begins(d)'
    OBVIOUS
  <2>1. Begins(d)
    BY DEF ReadingOf
  <2>2. sent'[d] = <<>>
    <3>1. sent'[d] \in Seq(Posts(Publication)') /\ Len(sent'[d]) = 0
      BY <2>1 DEF Shape, Begins
    <3> QED BY <3>1, EmptySeq
  <2> QED BY <2>1, <2>2 DEF Begins, HelloOf, Wrong
<1>2. th[d].pc \in Busy => Pending(d)'
  <2> SUFFICES ASSUME th[d].pc \in Busy PROVE Pending(d)'
    OBVIOUS
  <2>1. Backlog(inbox[d], th[d].read, sent[d], Requests(d, asked), d \in behaved)
    BY DEF ReadingOf, Pending, Busy
  <2>2. Requests(d, asked) \subseteq Requests(d, asked')
    BY RequestsGrow
  <2>3. d \in behaved' => d \in behaved
    OBVIOUS
  <2>4. PICK S2, R2 : S2 = sent'[d] /\ R2 = Requests(d, asked')
    OBVIOUS
  <2>5. Backlog(inbox[d], th[d].read, S2, R2, d \in behaved')
    BY <2>1, <2>2, <2>3, <2>4, BacklogSame
  <2>6. Pending(d)' <=> Backlog(inbox[d], th[d].read, S2, R2, d \in behaved')
    BY <2>4 DEF Pending
  <2> QED BY <2>5, <2>6
<1> QED BY <1>1, <1>2 DEF ReadingOf, Busy

\* A handler that is connected is in step when the rest is a backlog.
LEMMA ReadingTook ==
    ASSUME NEW c \in Client, NEW t, Turned(c, t), t.pc \in Busy, t.info = claims'[c], c \in connections',
           NEW s, s = inbox'[c], NEW S, S = sent'[c], NEW A, A = asked', NEW b, b <=> c \in behaved',
           Backlog(s, t.read, S, Requests(c, A), b)
    PROVE  ReadingOf(c)'
<1>1. th'[c] = t
  BY DEF Turned
<1>2. t.read \in 0..Len(S)
  BY DEF Backlog
<1>3. Backlog(s, t.read, S, Requests(c, A), c \in behaved') <=> Pending(c)'
  BY <1>1 DEF Pending
<1>4. Backlog(s, t.read, S, Requests(c, A), c \in behaved')
  <2>1. PICK R, b2 : R = Requests(c, A) /\ b2 = (c \in behaved')
    OBVIOUS
  <2>2. Backlog(s, t.read, S, R, b)
    BY <2>1
  <2>3. b2 => b
    BY <2>1
  <2>4. Backlog(s, t.read, S, R, b2)
    BY <2>2, <2>3, BacklogSame
  <2> QED BY <2>1, <2>4
<1> QED BY <1>1, <1>2, <1>3, <1>4 DEF ReadingOf, Busy

\* A handler that ends the connection of a client that does not behave is in step.
LEMMA ReadingClosed ==
    ASSUME IInv, NEW c \in Client, ReadingOf(c), Close(c), Len(sent'[c]) = Len(sent[c]), c \notin behaved'
    PROVE  ReadingOf(c)'
<1>1. /\ Turned(c, Thread("closed", th[c].info, th[c].read, NoPub, {}, {}, 0))
      /\ connections' = connections \ {c}
  BY CloseThread
<1>2. th'[c].pc = "closed" /\ th'[c].read = th[c].read
  BY <1>1, ThreadFields DEF Turned
<1> QED BY <1>1, <1>2 DEF ReadingOf, Labels

\* The handshake finds what the client claims; a CONNECT that is refused ends the process,
\* but not by a read beyond its end.
LEMMA HandshakeReads ==
    ASSUME IInv, Shape, NEW c \in Client, ReadingOf(c), FirstPacket(c), Shape'
    PROVE  ReadingOf(c)' /\ crashed' # "slice"
<1>0. PICK r \in Arrived(c, {PacketType.CONNECT}) : \E info :
         /\ info = ParseConnectPacket(r.value.body)
         /\ \/ /\ Fine(info)
               /\ Consume(c, r)
               /\ th' = [th EXCEPT ![c].pc = "read", ![c].info = info.value]
               /\ connections' = connections \cup {c}
               /\ UNCHANGED crashed
            \/ crashed' = "nil" /\ UNCHANGED <<inbox, th, connections>>
            \/ info.is = "panic"
  BY DEF FirstPacket
<1>1. PICK info :
         /\ info = ParseConnectPacket(r.value.body)
         /\ \/ /\ Fine(info)
               /\ Consume(c, r)
               /\ th' = [th EXCEPT ![c].pc = "read", ![c].info = info.value]
               /\ connections' = connections \cup {c}
               /\ UNCHANGED crashed
            \/ crashed' = "nil" /\ UNCHANGED <<inbox, th, connections>>
            \/ info.is = "panic"
  BY <1>0
<1>2. th[c].pc = "first" /\ crashed = "no" /\ UNCHANGED <<claims, sent, asked, behaved>>
  BY DEF FirstPacket, At, Alive, history
<1>3. Begins(c)
  BY <1>2 DEF ReadingOf
<1>4. r = ReadPacket(inbox[c]) /\ Fine(r) /\ inbox[c] # <<>>
  BY ArrivedIs, NothingRead
<1>5. PICK t \in 0..15 : t = PacketType.CONNECT
  BY Types
<1>6. t \notin {PacketType.PUBLISH, PacketType.PUBREL, PacketType.SUBSCRIBE, PacketType.UNSUBSCRIBE}
  BY <1>5 DEF PacketType
<1>7. ASSUME NEW b \in Seq(Nat), Len(b) <= Limit, NEW k, k = PacketWith(PacketType.CONNECT, 0, b),
             inbox[c] = Framed(k)
      PROVE  r.value.body = b /\ SubSeq(inbox[c], r.ptr + 1, Len(inbox[c])) = <<>>
  <2>1. Proper(k) /\ k.body = b
    BY <1>5, <1>6, <1>7, PlainPacket, ZenonT(60)
  <2>2. PICK s : s = inbox[c]
    OBVIOUS
  <2>3. ReadPacket(s) = Got(k, Len(s)) /\ SubSeq(s, Len(s) + 1, Len(s)) = <<>>
    BY <1>7, <2>1, <2>2, WholePacket DEF Proper
  <2>4. r.value = k /\ r.ptr = Len(s)
    BY <1>4, <2>2, <2>3, GotIs
  <2> QED BY <2>1, <2>2, <2>3, <2>4
<1>8. PICK g : g = Greeting[c]
  OBVIOUS
<1>9. /\ g.clean \in BOOLEAN /\ g.keepAlive \in Nat /\ g.topic \in Seq(Nat) /\ g.content \in Seq(Nat)
      /\ g.user \in Seq(Nat) /\ g.password \in Seq(Nat) /\ (g.topic = <<>> => g.content = <<>>)
      /\ Len(ConnectBody(g, c)) <= Limit /\ c \in Seq(Nat) /\ c # <<>>
  <2>1. Byte \in Nat /\ Byte * Byte \in Nat
    BY PacketsAssumption
  <2> QED BY <1>8, <2>1, GreetingAssumption, ClientAssumption DEF IsText, Service
<1>10. CASE claims[c] = Claim(Greeting[c], c) /\ inbox[c] = Framed(HelloOf(c))
  <2>1. PICK b : b = ConnectBody(g, c)
    OBVIOUS
  <2>2. b \in Seq(Nat) /\ Len(b) <= Limit
    BY <1>9, <2>1, ConnectBodyIs
  <2>3. r.value.body = b /\ SubSeq(inbox[c], r.ptr + 1, Len(inbox[c])) = <<>>
    BY <1>7, <1>8, <1>10, <2>1, <2>2 DEF HelloOf
  <2>4. PICK q : info = Got(Claim(g, c), q)
    BY <1>1, <1>9, <2>1, <2>3, ConnectBodyRead, SMTT(30)
  <2>5. Fine(info) /\ info.value = claims[c] /\ info.is # "panic"
    BY <1>8, <1>10, <2>4, GotIs
  <2>6. CASE /\ Consume(c, r)
             /\ th' = [th EXCEPT ![c].pc = "read", ![c].info = info.value]
             /\ connections' = connections \cup {c}
             /\ UNCHANGED crashed
    <3>1. PICK x : x = claims[c]
      OBVIOUS
    <3>2. PICK u : u = Thread("read", x, th[c].read, th[c].pub, th[c].todo, th[c].cur, th[c].id)
      OBVIOUS
    <3>3. Turned(c, u)
      BY <2>5, <2>6, <3>1, <3>2, OpenThread
    <3>4. u.pc = "read" /\ u.info = x /\ u.read = th[c].read
      BY <3>2, ThreadFields
    <3>5. inbox'[c] = <<>>
      BY <2>3, <2>6 DEF Consume, Shape
    <3>6. u.read = 0 /\ sent'[c] = <<>>
      BY <1>2, <1>3, <3>4 DEF Begins
    <3>7. PICK R, b2 : R = Requests(c, asked') /\ (b2 <=> c \in behaved')
      OBVIOUS
    <3>8. Backlog(<<>>, 0, <<>>, R, b2)
      BY BacklogNone
    <3>9. ReadingOf(c)'
      BY <1>2, <2>6, <3>1, <3>3, <3>4, <3>5, <3>6, <3>7, <3>8, ReadingTook DEF Busy, Labels
    <3> QED BY <1>2, <2>6, <3>9
  <2>7. CASE crashed' = "nil" /\ UNCHANGED <<inbox, th, connections>>
    BY <1>2, <2>7, ReadingStays
  <2> QED BY <1>1, <2>5, <2>6, <2>7
<1>11. CASE \E body \in BadGreeting : inbox[c] = Framed(Wrong(body))
  <2>1. PICK b \in BadGreeting : inbox[c] = Framed(Wrong(b))
    BY <1>11
  <2>2. b \in Seq(Nat) /\ Len(b) <= Limit /\ ~Fine(ParseConnectPacket(b))
    BY RefusalAssumption
  <2>3. r.value.body = b
    BY <1>7, <2>1, <2>2 DEF Wrong
  <2>4. ~Fine(info) /\ info.is # "panic"
    BY <1>1, <2>2, <2>3, ConnectNeverPanics
  <2>5. crashed' = "nil" /\ UNCHANGED <<inbox, th, connections>>
    BY <1>1, <2>4
  <2> QED BY <1>2, <2>5, ReadingStays
<1> QED BY <1>3, <1>4, <1>10, <1>11 DEF Begins
-----------------------------------------------------------------------------
(***************************************************************************)
(* The handler stays in step: the packets after the handshake.             *)
(***************************************************************************)

\* A packet that is not a publication is taken from the inbox.
LEMMA ReadingTaken ==
    ASSUME IInv, Shape, NEW c \in Client, ReadingOf(c), th[c].pc = "read", NEW r, Consume(c, r), Stays(c, r),
           UNCHANGED <<th, connections, claims, asked, behaved>>, Len(sent'[c]) = Len(sent[c]),
           \A n \in 1..Len(sent[c]) : sent'[c][n].pub = sent[c][n].pub
    PROVE  ReadingOf(c)'
<1>1. PICK rest, S, R, b, t : /\ rest = Remainder(c, r) /\ S = sent'[c] /\ R = Requests(c, asked')
                              /\ (b <=> c \in behaved') /\ t = th[c]
  OBVIOUS
<1>2. Backlog(Remainder(c, r), th[c].read, sent[c], R, c \in behaved)
  BY <1>1 DEF Stays
<1>3. b => c \in behaved
  BY <1>1
<1>4. Backlog(rest, t.read, S, R, b)
  <2>1. PICK x, S1, b1 : x = th[c].read /\ S1 = sent[c] /\ (b1 <=> c \in behaved)
    OBVIOUS
  <2>2. Backlog(rest, x, S1, R, b1)
    BY <1>1, <1>2, <2>1
  <2>3. Backlog(rest, x, S, R, b)
    BY <1>1, <1>3, <2>1, <2>2, BacklogSame
  <2> QED BY <1>1, <2>1, <2>3
<1>5. inbox'[c] = rest
  BY <1>1 DEF Consume, Shape, Remainder
<1>6. Turned(c, t)
  BY <1>1, ThreadIs DEF Turned
<1>7. t.pc \in Busy /\ t.info = claims'[c] /\ c \in connections'
  BY <1>1 DEF ReadingOf, Busy, Labels
<1>8. Backlog(rest, t.read, S, Requests(c, asked'), b)
  BY <1>1, <1>4
<1> QED BY <1>1, <1>5, <1>6, <1>7, <1>8, ReadingTook

\* The handler goes on with a publication.
LEMMA ReadingWorks ==
    ASSUME NEW c \in Client, ReadingOf(c), th[c].pc \in Busy, NEW t, Turned(c, t), t.pc \in Busy,
           t.info = th[c].info, t.read = th[c].read,
           UNCHANGED <<inbox, connections, claims, asked, behaved>>, Len(sent'[c]) = Len(sent[c]),
           \A n \in 1..Len(sent[c]) : sent'[c][n].pub = sent[c][n].pub
    PROVE  ReadingOf(c)'
<1>1. PICK s, S, b : s = inbox'[c] /\ S = sent'[c] /\ (b <=> c \in behaved')
  OBVIOUS
<1>2. Backlog(s, t.read, S, Requests(c, asked'), b)
  <2>1. Backlog(inbox[c], t.read, sent[c], Requests(c, asked), c \in behaved)
    BY DEF ReadingOf, Pending, Busy
  <2>2. PICK x, S1, R, b1 : x = t.read /\ S1 = sent[c] /\ R = Requests(c, asked) /\ (b1 <=> c \in behaved)
    OBVIOUS
  <2>3. Backlog(s, x, S1, R, b1) /\ (b => b1)
    BY <1>1, <2>1, <2>2
  <2>4. Backlog(s, x, S, R, b)
    BY <1>1, <2>2, <2>3, BacklogSame
  <2> QED BY <2>2, <2>4
<1>3. t.info = claims'[c] /\ c \in connections'
  BY DEF ReadingOf, Busy
<1> QED BY <1>1, <1>2, <1>3, ReadingTook

\* The steps of a publication do not touch the inbox.
LEMMA WorkReads ==
    ASSUME IInv, Shape, NEW c \in Client, ReadingOf(c),
           SaveSession(c) \/ MatchTopic(c) \/ Number(c) \/ Numbering(c) \/ Deliver(c)
    PROVE  ReadingOf(c)' /\ crashed' \in {crashed, "nil"}
<1>1. /\ UNCHANGED <<inbox, connections, claims, asked, behaved>> /\ th[c].pc \in Busy
      /\ crashed' \in {crashed, "nil"} /\ (UNCHANGED sent \/ \E found : Miss(c, found))
  <2>1. CASE SaveSession(c) \/ Number(c) \/ Deliver(c)
    BY <2>1 DEF SaveSession, Number, Deliver, At, history, Busy, Labels
  <2>2. CASE Numbering(c)
    BY <2>2 DEF Numbering, Create, Return, NextID, At, history, Busy, Labels
  <2>3. CASE MatchTopic(c)
    BY <2>3 DEF MatchTopic, At, Busy, Labels
  <2> QED BY <2>1, <2>2, <2>3
<1>2. PICK s : s = th[c]
  OBVIOUS
<1> DEFINE Goes == \E t : Turned(c, t) /\ t.pc \in Busy /\ t.info = s.info /\ t.read = s.read
<1>3. Goes
  <2>1. ASSUME NEW x \in Busy, NEW p, NEW T, NEW C, NEW n,
               Turned(c, Thread(x, s.info, s.read, p, T, C, n))
        PROVE  Goes
    <3>1. PICK t : t = Thread(x, s.info, s.read, p, T, C, n)
      OBVIOUS
    <3>2. t.pc = x /\ t.info = s.info /\ t.read = s.read
      BY <3>1, ThreadFields
    <3> QED BY <2>1, <3>1, <3>2
  <2> HIDE DEF Goes
  <2>2. {"read", "match", "route", "create", "return", "number", "deliver"} \subseteq Busy
    BY DEF Busy, Labels
  <2>3. CASE SaveSession(c)
    <3>1. Goto(c, "match")
      BY <2>3 DEF SaveSession
    <3>2. Turned(c, Thread("match", s.info, s.read, s.pub, s.todo, s.cur, s.id))
      BY <1>2, <3>1, GotoThread
    <3> QED BY <2>1, <2>2, <3>2
  <2>4. CASE MatchTopic(c)
    <3>1. \/ \E T : th' = [th EXCEPT ![c].pc = "route", ![c].todo = T]
          \/ UNCHANGED th
      BY <2>4 DEF MatchTopic
    <3>2. ASSUME NEW T, th' = [th EXCEPT ![c].pc = "route", ![c].todo = T] PROVE Goes
      <4>1. Turned(c, Thread("route", s.info, s.read, s.pub, T, s.cur, s.id))
        BY <1>2, <3>2, MatchThread
      <4> QED BY <2>1, <2>2, <4>1
    <3>3. CASE UNCHANGED th
      <4>1. Turned(c, s)
        BY <1>2, <3>3, ThreadIs DEF Turned
      <4> QED BY <1>1, <1>2, <4>1 DEF Goes
    <3> QED BY <3>1, <3>2, <3>3
  <2>5. CASE Number(c)
    <3>1. \/ th' = [th EXCEPT ![c].pc = "read", ![c].pub = NoPub]
          \/ \E x \in {"create", "return", "deliver"}, C \in {{e} : e \in th[c].todo} :
                th' = [th EXCEPT ![c].pc = x, ![c].cur = C]
      BY <2>5 DEF Number
    <3>2. CASE th' = [th EXCEPT ![c].pc = "read", ![c].pub = NoPub]
      <4>1. Turned(c, Thread("read", s.info, s.read, NoPub, s.todo, s.cur, s.id))
        BY <1>2, <3>2, DoneThread
      <4> QED BY <2>1, <2>2, <4>1
    <3>3. ASSUME NEW x \in {"create", "return", "deliver"}, NEW C, th' = [th EXCEPT ![c].pc = x, ![c].cur = C]
          PROVE  Goes
      <4>1. Turned(c, Thread(x, s.info, s.read, s.pub, s.todo, C, s.id))
        BY <1>2, <3>3, NumberThread
      <4> QED BY <2>1, <2>2, <4>1
    <3> QED BY <3>1, <3>2, <3>3
  <2>6. CASE Numbering(c)
    <3>1. PICK x \in {"return", "number", "deliver"}, n \in Nat :
             Turned(c, Thread(x, s.info, s.read, s.pub, s.todo, s.cur, n))
      BY <1>2, <2>6, NumberingThread
    <3> QED BY <2>1, <2>2, <3>1
  <2>7. CASE Deliver(c)
    <3>1. PICK e : th' = [th EXCEPT ![c].pc = "route", ![c].cur = {}, ![c].id = 0, ![c].todo = @ \ {e}]
      BY <2>7 DEF Deliver
    <3>2. Turned(c, Thread("route", s.info, s.read, s.pub, s.todo \ {e}, {}, 0))
      BY <1>2, <3>1, DeliverThread
    <3> QED BY <2>1, <2>2, <3>2
  <2> QED BY <2>3, <2>4, <2>5, <2>6, <2>7
<1>4. Len(sent'[c]) = Len(sent[c]) /\ \A n \in 1..Len(sent[c]) : sent'[c][n].pub = sent[c][n].pub
  <2>1. ASSUME NEW found, Miss(c, found)
        PROVE  Len(sent'[c]) = Len(sent[c]) /\ \A n \in 1..Len(sent[c]) : sent'[c][n].pub = sent[c][n].pub
    BY <2>1, Missed
  <2> QED BY <1>1, <2>1
<1>5. ReadingOf(c)'
  BY <1>1, <1>2, <1>3, <1>4, ReadingWorks
<1> QED BY <1>1, <1>5

\* A packet that does not parse ends the connection.
LEMMA FailReads ==
    ASSUME IInv, NEW c \in Client, ReadingOf(c), NEW r, Fails(c, r), r.is # "panic", c \notin behaved,
           UNCHANGED <<sent, behaved>>
    PROVE  ReadingOf(c)' /\ UNCHANGED crashed
<1>1. Close(c) /\ UNCHANGED crashed
  BY DEF Fails
<1> QED BY <1>1, ReadingClosed

\* PUBLISH is the next publication, and is counted.
LEMMA PublishReads ==
    ASSUME IInv, Shape, NEW c \in Client, ReadingOf(c), Publish(c)
    PROVE  ReadingOf(c)' /\ UNCHANGED crashed
<1>0. PICK r \in Arrived(c, {PacketType.PUBLISH}) : \E p :
         /\ p = ParsePublishPacket(r.value.flags, r.value.body)
         /\ \/ /\ Fine(p) /\ Consume(c, r)
               /\ Handle(c, p.value, "save") \/ Handle(c, p.value, "match")
               /\ UNCHANGED <<connections, crashed>>
            \/ Fails(c, p)
  BY DEF Publish
<1>1. PICK p :
         /\ p = ParsePublishPacket(r.value.flags, r.value.body)
         /\ \/ /\ Fine(p) /\ Consume(c, r)
               /\ Handle(c, p.value, "save") \/ Handle(c, p.value, "match")
               /\ UNCHANGED <<connections, crashed>>
            \/ Fails(c, p)
  BY <1>0
<1>2. th[c].pc = "read" /\ UNCHANGED <<claims, sent, asked, behaved>>
  BY DEF Publish, At, history
<1>3. PublishFinds(c, r)
  BY <1>2, PublishFound
<1>4. p.is # "panic"
  BY <1>1, <1>2, ArrivedBody, PublishNeverPanics
<1>5. CASE c \notin behaved /\ ~Fine(p)
  BY <1>1, <1>2, <1>4, <1>5, FailReads
<1>6. ASSUME NEW n \in 1..Len(sent[c]), n = th[c].read + 1, NEW v, NEW q, p = Got(v, q),
             Backlog(Remainder(c, r), n, sent[c], Requests(c, asked), c \in behaved)
      PROVE  ReadingOf(c)' /\ UNCHANGED crashed
  <2>1. p.is = "ok"
    BY <1>6, GotIs
  <2>2. /\ Consume(c, r) /\ UNCHANGED <<connections, crashed>>
        /\ Handle(c, p.value, "save") \/ Handle(c, p.value, "match")
    BY <1>1, <2>1 DEF Fails
  <2>3. PICK s : s = th[c]
    OBVIOUS
  <2>4. \E t : Turned(c, t) /\ t.pc \in Busy /\ t.info = s.info /\ t.read = n
    <3>1. \E label \in {"save", "match"} : Handle(c, p.value, label)
      BY <2>2
    <3>2. PICK label \in {"save", "match"} : Handle(c, p.value, label)
      BY <3>1
    <3>3. "read" \in Busy /\ label \in Busy
      BY DEF Busy, Labels
    <3>4. PICK m : m = s.read + 1
      OBVIOUS
    <3>5. m = n
      BY <1>6, <2>3, <3>4
    <3>6. ASSUME NEW y \in Busy, NEW x, Turned(c, Thread(y, s.info, m, x, s.todo, s.cur, s.id))
          PROVE  \E t : Turned(c, t) /\ t.pc \in Busy /\ t.info = s.info /\ t.read = n
      <4>1. PICK t : t = Thread(y, s.info, m, x, s.todo, s.cur, s.id)
        OBVIOUS
      <4>2. Turned(c, t)
        BY <3>6, <4>1
      <4>3. t.pc = y /\ t.info = s.info /\ t.read = m
        BY <4>1, ThreadFields
      <4> QED BY <3>5, <4>2, <4>3
    <3>7. \/ Turned(c, Thread("read", s.info, s.read + 1, NoPub, s.todo, s.cur, s.id))
          \/ Turned(c, Thread(label, s.info, s.read + 1, p.value, s.todo, s.cur, s.id))
      BY <2>3, <3>2, HandleThread
    <3> QED BY <3>3, <3>4, <3>6, <3>7
  <2>5. PICK t : Turned(c, t) /\ t.pc \in Busy /\ t.info = s.info /\ t.read = n
    BY <2>4
  <2>7. PICK rest, S, b : rest = Remainder(c, r) /\ S = sent'[c] /\ (b <=> c \in behaved')
    OBVIOUS
  <2>8. inbox'[c] = rest
    BY <2>2, <2>7 DEF Consume, Shape, Remainder
  <2>9. t.info = claims'[c] /\ c \in connections'
    BY <1>2, <2>2, <2>3, <2>5 DEF ReadingOf
  <2>10. Backlog(rest, t.read, S, Requests(c, asked'), b)
    BY <1>2, <1>6, <2>5, <2>7
  <2>11. ReadingOf(c)'
    BY <2>5, <2>7, <2>8, <2>9, <2>10, ReadingTook
  <2> QED BY <2>2, <2>11
<1> QED BY <1>1, <1>3, <1>5, <1>6 DEF PublishFinds

\* SUBSCRIBE keeps the handler in step.
LEMMA SubscribeReads ==
    ASSUME IInv, Shape, NEW c \in Client, ReadingOf(c), Subscribe(c)
    PROVE  ReadingOf(c)' /\ UNCHANGED crashed
<1>0. PICK r \in Arrived(c, {PacketType.SUBSCRIBE}) : \E req :
         /\ req = ParseSubscribePacket(r.value.body)
         /\ \/ Fine(req) /\ Consume(c, r) /\ (Release \/ UNCHANGED sent) /\ UNCHANGED <<th, connections, crashed>>
            \/ Fails(c, req) /\ UNCHANGED sent
  BY DEF Subscribe
<1>1. PICK req :
         /\ req = ParseSubscribePacket(r.value.body)
         /\ \/ Fine(req) /\ Consume(c, r) /\ (Release \/ UNCHANGED sent) /\ UNCHANGED <<th, connections, crashed>>
            \/ Fails(c, req) /\ UNCHANGED sent
  BY <1>0
<1>2. th[c].pc = "read" /\ UNCHANGED <<claims, asked, behaved>>
  BY DEF Subscribe, At
<1>3. SubscribeFinds(c, r)
  BY <1>2, SubscribeFound
<1>4. req.is # "panic"
  BY <1>1, <1>2, ArrivedBody, SubscribeNeverPanics
<1>5. CASE c \notin behaved /\ ~Fine(req)
  BY <1>1, <1>2, <1>4, <1>5, FailReads
<1>6. ASSUME NEW v, NEW q, req = Got(v, q), Stays(c, r) PROVE ReadingOf(c)' /\ UNCHANGED crashed
  <2>1. req.is = "ok"
    BY <1>6, GotIs
  <2>2. Consume(c, r) /\ (Release \/ UNCHANGED sent) /\ UNCHANGED <<th, connections, crashed>>
    BY <1>1, <2>1 DEF Fails
  <2>3. Len(sent'[c]) = Len(sent[c]) /\ \A n \in 1..Len(sent[c]) : sent'[c][n].pub = sent[c][n].pub
    BY <2>2, Released
  <2> QED BY <1>2, <1>6, <2>2, <2>3, ReadingTaken
<1> QED BY <1>1, <1>3, <1>5, <1>6 DEF SubscribeFinds

\* So does UNSUBSCRIBE.
LEMMA UnsubscribeReads ==
    ASSUME IInv, Shape, NEW c \in Client, ReadingOf(c), Unsubscribe(c)
    PROVE  ReadingOf(c)' /\ UNCHANGED crashed
<1>0. PICK r \in Arrived(c, {PacketType.UNSUBSCRIBE}) : \E req :
         /\ req = ParseUnSubscribePacket(r.value.body)
         /\ \/ Fine(req) /\ Consume(c, r) /\ Release /\ UNCHANGED <<th, connections, crashed>>
            \/ Fails(c, req) /\ UNCHANGED sent
  BY DEF Unsubscribe
<1>1. PICK req :
         /\ req = ParseUnSubscribePacket(r.value.body)
         /\ \/ Fine(req) /\ Consume(c, r) /\ Release /\ UNCHANGED <<th, connections, crashed>>
            \/ Fails(c, req) /\ UNCHANGED sent
  BY <1>0
<1>2. th[c].pc = "read" /\ UNCHANGED <<claims, asked, behaved>>
  BY DEF Unsubscribe, At
<1>3. UnsubscribeFinds(c, r)
  BY <1>2, UnsubscribeFound
<1>4. req.is # "panic"
  BY <1>1, <1>2, ArrivedBody, UnSubscribeNeverPanics
<1>5. CASE c \notin behaved /\ ~Fine(req)
  BY <1>1, <1>2, <1>4, <1>5, FailReads
<1>6. ASSUME NEW v, NEW q, req = Got(v, q), Stays(c, r) PROVE ReadingOf(c)' /\ UNCHANGED crashed
  <2>1. req.is = "ok"
    BY <1>6, GotIs
  <2>2. Consume(c, r) /\ Release /\ UNCHANGED <<th, connections, crashed>>
    BY <1>1, <2>1 DEF Fails
  <2>3. Len(sent'[c]) = Len(sent[c]) /\ \A n \in 1..Len(sent[c]) : sent'[c][n].pub = sent[c][n].pub
    BY <2>2, Released
  <2> QED BY <1>2, <1>6, <2>2, <2>3, ReadingTaken
<1> QED BY <1>1, <1>3, <1>5, <1>6 DEF UnsubscribeFinds

\* So does every step of the handler.
LEMMA HandlerReads ==
    ASSUME IInv, Shape, Shape', NEW c \in Client, ReadingOf(c), Handler(c), crashed # "slice"
    PROVE  ReadingOf(c)' /\ crashed' # "slice"
<1>1. CASE FirstPacket(c)
  BY <1>1, HandshakeReads
<1>2. CASE ReadError(c)
  <2>1. Close(c) /\ UNCHANGED <<sent, crashed>> /\ th[c].pc = "read"
    BY <1>2 DEF ReadError, At
  <2>2. c \notin behaved'
    <3>1. CASE ReadPacket(inbox[c]).is = "error" /\ UNCHANGED behaved
      <4>1. Backlog(inbox[c], th[c].read, sent[c], Requests(c, asked), c \in behaved)
        BY <2>1 DEF ReadingOf, Pending
      <4> QED BY <3>1, <4>1, BacklogError
    <3> QED BY <1>2, <3>1 DEF ReadError
  <2> QED BY <2>1, <2>2, ReadingClosed
<1>3. CASE Subscribe(c)
  BY <1>3, SubscribeReads
<1>4. CASE Unsubscribe(c)
  BY <1>4, UnsubscribeReads
<1>5. CASE PingReq(c)
  <2>1. PICK r \in Arrived(c, {PacketType.PINGREQ}) : Consume(c, r)
    BY <1>5 DEF PingReq
  <2>2. th[c].pc = "read" /\ UNCHANGED <<th, connections, crashed, claims, sent, asked, behaved>>
    BY <1>5 DEF PingReq, At, history
  <2>3. Stays(c, r)
    BY <2>2, PingFound
  <2> QED BY <2>1, <2>2, <2>3, ReadingTaken
<1>6. CASE Disconnect(c) \/ Unsupported(c)
  <2>1. Close(c) /\ (Release \/ UNCHANGED sent) /\ UNCHANGED <<crashed, behaved>> /\ th[c].pc = "read"
    BY <1>6 DEF Disconnect, Unsupported, At, history
  <2>2. c \notin behaved
    BY <1>6, <2>1, EndFound DEF Disconnect, Unsupported
  <2>3. Len(sent'[c]) = Len(sent[c])
    BY <2>1, Released
  <2> QED BY <2>1, <2>2, <2>3, ReadingClosed
<1>7. CASE Publish(c)
  BY <1>7, PublishReads
<1>8. CASE SaveSession(c) \/ MatchTopic(c) \/ Number(c) \/ Numbering(c) \/ Deliver(c)
  BY <1>8, WorkReads
<1> QED BY <1>1, <1>2, <1>3, <1>4, <1>5, <1>6, <1>7, <1>8 DEF Handler
-----------------------------------------------------------------------------
(***************************************************************************)
(* The handler stays in step: what clients send. The handshake finds what  *)
(* the client has put there, and no handler closes on a client that        *)
(* behaves.                                                                *)
(***************************************************************************)

\* A client writes to its connection.
LEMMA ReadingSent ==
    ASSUME IInv, NEW c \in Client, ReadingOf(c), th[c].pc \in Busy, UNCHANGED <<th, connections, claims>>,
           NEW s, s = inbox'[c], NEW S, S = sent'[c], NEW A, A = asked', NEW b, b <=> c \in behaved',
           Backlog(s, th[c].read, S, Requests(c, A), b)
    PROVE  ReadingOf(c)'
<1>1. PICK t : t = th[c]
  OBVIOUS
<1>2. Turned(c, t)
  BY <1>1, ThreadIs DEF Turned
<1>3. t.info = claims'[c] /\ c \in connections'
  BY <1>1 DEF ReadingOf, Busy
<1>4. Backlog(s, t.read, S, Requests(c, A), b)
  BY <1>1
<1> QED BY <1>1, <1>2, <1>3, <1>4, ReadingTook

\* While a client behaves its backlog is whole packets.
LEMMA PendingIs ==
    ASSUME NEW c, ReadingOf(c), th[c].pc \in Busy, c \in behaved
    PROVE  Backlog(inbox[c], th[c].read, sent[c], Requests(c, asked), TRUE)
<1>1. Backlog(inbox[c], th[c].read, sent[c], Requests(c, asked), c \in behaved)
  BY DEF ReadingOf, Pending, Busy
<1> QED BY <1>1, BacklogSame

\* Who transmits is connected and has behaved.
LEMMA TransmitFinds ==
    ASSUME IInv, Shape, NEW c \in Client, ReadingOf(c), NEW b, Transmit(c, b)
    PROVE  /\ th[c].pc \in Busy /\ c \in behaved /\ UNCHANGED <<th, connections, claims, crashed>>
           /\ inbox'[c] = inbox[c] \o b
           /\ Backlog(inbox[c], th[c].read, sent[c], Requests(c, asked), TRUE)
<1>1. th[c].pc \in Busy /\ c \in behaved /\ UNCHANGED <<th, connections, claims, crashed>>
  BY DEF Transmit, ReadingOf, Busy, broker
<1>2. inbox'[c] = inbox[c] \o b
  BY DEF Transmit, Write, Shape
<1> QED BY <1>1, <1>2, PendingIs

\* CONNECT is the first that a client sends.
LEMMA HelloReads ==
    ASSUME Shape, Shape', NEW c \in Client, ReadingOf(c), Hello(c)
    PROVE  ReadingOf(c)'
<1>1. /\ th[c].pc = "first" /\ inbox[c] = <<>> /\ th' = th /\ connections' = connections /\ sent' = sent
  BY DEF Hello, broker
<1>2. Begins(c)
  BY <1>1 DEF ReadingOf
<1>3. PICK t \in 0..15 : t = PacketType.CONNECT
  BY Types
<1>4. t \notin {PacketType.PUBLISH, PacketType.PUBREL, PacketType.SUBSCRIBE, PacketType.UNSUBSCRIBE}
  BY <1>3 DEF PacketType
<1>5. ASSUME NEW b \in Seq(Nat), Len(b) <= Limit, Write(c, Frame(PacketType.CONNECT, 0, b))
      PROVE  inbox'[c] = Framed(PacketWith(PacketType.CONNECT, 0, b))
  <2>1. PICK k : k = PacketWith(t, 0, b)
    OBVIOUS
  <2>2. Proper(k) /\ Frame(t, 0, b) = Framed(k)
    BY <1>4, <1>5, <2>1, PlainPacket
  <2>3. Framed(k) \in Seq(Nat)
    BY <2>2, WholePacket DEF Proper
  <2>4. PICK f : f = Framed(k)
    OBVIOUS
  <2>5. inbox'[c] = <<>> \o f
    BY <1>1, <1>3, <1>5, <2>2, <2>4 DEF Write, Shape
  <2>6. <<>> \o f = f
    BY <2>3, <2>4
  <2> QED BY <1>3, <2>1, <2>4, <2>5, <2>6
<1>6. PICK g : g = Greeting[c]
  OBVIOUS
<1>7. /\ g.clean \in BOOLEAN /\ g.keepAlive \in Nat /\ g.topic \in Seq(Nat) /\ g.content \in Seq(Nat)
      /\ g.user \in Seq(Nat) /\ g.password \in Seq(Nat) /\ (g.topic = <<>> => g.content = <<>>)
      /\ Len(ConnectBody(g, c)) <= Limit /\ c \in Seq(Nat) /\ c # <<>>
  <2>1. \A n \in 0..Byte * Byte - 1 : n \in Nat
    BY PacketsAssumption
  <2> QED BY <1>6, <2>1, GreetingAssumption, ClientAssumption DEF IsText, Service
<1>8. CASE /\ Write(c, Frame(PacketType.CONNECT, 0, ConnectBody(Greeting[c], c)))
           /\ claims' = [claims EXCEPT ![c] = Claim(Greeting[c], c)]
  <2>1. PICK b : b = ConnectBody(g, c)
    OBVIOUS
  <2>2. b \in Seq(Nat) /\ Len(b) <= Limit
    BY <1>7, <2>1, ConnectBodyIs
  <2>3. inbox'[c] = Framed(HelloOf(c))
    BY <1>5, <1>6, <1>8, <2>1, <2>2 DEF HelloOf
  <2>4. claims'[c] = Claim(Greeting[c], c)
    BY <1>8 DEF Shape
  <2>5. Begins(c)'
    BY <1>1, <1>2, <2>3, <2>4 DEF Begins, HelloOf
  <2> QED BY <1>1, <2>5 DEF ReadingOf
<1>9. CASE \E body \in BadGreeting : Write(c, Frame(PacketType.CONNECT, 0, body))
  <2>1. PICK b \in BadGreeting : Write(c, Frame(PacketType.CONNECT, 0, b))
    BY <1>9
  <2>2. b \in Seq(Nat) /\ Len(b) <= Limit
    BY RefusalAssumption
  <2>3. inbox'[c] = Framed(Wrong(b))
    BY <1>5, <2>1, <2>2 DEF Wrong
  <2>4. Begins(c)'
    BY <1>1, <1>2, <2>3 DEF Begins, Wrong
  <2> QED BY <1>1, <2>4 DEF ReadingOf
<1> QED BY <1>8, <1>9 DEF Hello

\* A publication is queued.
LEMMA PostReads ==
    ASSUME IInv, Shape, Shape', NEW c \in Client, ReadingOf(c), Post(c)
    PROVE  ReadingOf(c)'
<1>1. PICK p \in Publication :
         /\ Transmit(c, PublishFrame(p))
         /\ sent' = [sent EXCEPT ![c] = Append(@,
               [pub |-> p, due |-> {e.client : e \in {f \in tree : f.topic = p.topic}}])]
         /\ UNCHANGED <<asked, behaved>>
  BY DEF Post
<1>2. PICK x : x = [pub |-> p, due |-> {e.client : e \in {f \in tree : f.topic = p.topic}}]
  OBVIOUS
<1>3. sent'[c] = Append(sent[c], x)
  BY <1>1, <1>2 DEF Shape
<1>4. x \in Posts(Publication) /\ x.pub = p
  <2>1. PICK due : due = {e.client : e \in {f \in tree : f.topic = p.topic}}
    OBVIOUS
  <2>2. due \subseteq Client
    BY <2>1 DEF Shape
  <2> QED BY <1>2, <2>1, <2>2, PostIs
<1>5. PICK S, m, S2 : S = sent[c] /\ m = Len(S) /\ S2 = sent'[c]
  OBVIOUS
<1>6. S \in Seq(Posts(Publication)) /\ S2 = Append(S, x)
  BY <1>3, <1>5 DEF Shape
<1>7. m \in Nat /\ Len(S2) = m + 1 /\ S2[m + 1] = x /\ \A n \in 1..m : S2[n] = S[n]
  BY <1>4, <1>5, <1>6, Grown
<1>8. PICK k : k = PacketOf(p)
  OBVIOUS
<1>9. Proper(k) /\ PublishFrame(p) = Framed(k)
  BY <1>8, PublishPacket
<1>10. k = PacketOf(S2[m + 1].pub) /\ \A n \in 1..m : S2[n].pub = S[n].pub
  BY <1>4, <1>7, <1>8
<1>11. PICK s, a, R : s = inbox[c] /\ a = th[c].read /\ R = Requests(c, asked)
  OBVIOUS
<1>12. /\ th[c].pc \in Busy /\ c \in behaved /\ UNCHANGED <<th, connections, claims, crashed>>
       /\ inbox'[c] = s \o Framed(k)
  BY <1>1, <1>9, <1>11, TransmitFinds
<1>13. Backlog(s, a, S, R, TRUE)
  BY <1>1, <1>5, <1>11, TransmitFinds
<1>14. Backlog(s \o Framed(k), a, S2, R, TRUE)
  <2>1. m = Len(S) /\ Proper(k) /\ m \in Nat /\ \A n \in 1..m : S2[n].pub = S[n].pub
    BY <1>5, <1>7, <1>9, <1>10
  <2>2. \/ Len(S2) = m + 1 /\ k = PacketOf(S2[m + 1].pub)
        \/ Len(S2) = m /\ k \in R
    BY <1>7, <1>10
  <2> QED BY ONLY <1>13, <2>1, <2>2, BacklogMore
<1>15. PICK s2 : s2 = s \o Framed(k)
  OBVIOUS
<1>16. TRUE <=> c \in behaved'
  BY <1>1, <1>12
<1>17. Backlog(s2, th[c].read, S2, Requests(c, asked), TRUE)
  BY <1>11, <1>14, <1>15
<1> QED BY <1>1, <1>5, <1>12, <1>15, <1>16, <1>17, ReadingSent

\* A request is queued.
LEMMA AskReads ==
    ASSUME IInv, Shape, Shape', NEW c \in Client, ReadingOf(c), Ask(c)
    PROVE  ReadingOf(c)'
<1>1. UNCHANGED <<sent, behaved>>
  BY DEF Ask
<1>2. asked \subseteq asked' /\
      \E k \in Requests(c, asked') : Proper(k) /\ Transmit(c, Framed(k))
  <2>1. ASSUME NEW filters \in Subscription, Transmit(c, Frame(PacketType.SUBSCRIBE, 2, SubscribeBody(filters))),
               asked' = asked \cup {[client |-> c, topic |-> f.topic, qos |-> f.qos] : f \in ToSet(filters)}
        PROVE  asked \subseteq asked' /\ \E k \in Requests(c, asked') : Proper(k) /\ Transmit(c, Framed(k))
    <3>1. PICK k : k = SubscribeOf(filters)
      OBVIOUS
    <3>2. k \in Requests(c, asked')
      BY <2>1, <3>1 DEF Requests
    <3>3. Proper(k) /\ Frame(PacketType.SUBSCRIBE, 2, SubscribeBody(filters)) = Framed(k)
      BY <3>1, SubscribePacket
    <3> QED BY <2>1, <3>2, <3>3
  <2>2. ASSUME NEW filters \in Withdrawal, UNCHANGED asked,
               Transmit(c, Frame(PacketType.UNSUBSCRIBE, 2, UnSubscribeBody(filters)))
        PROVE  asked \subseteq asked' /\ \E k \in Requests(c, asked') : Proper(k) /\ Transmit(c, Framed(k))
    <3>1. PICK k : k = UnSubscribeOf(filters)
      OBVIOUS
    <3>2. k \in Requests(c, asked')
      BY <3>1 DEF Requests
    <3>3. Proper(k) /\ Frame(PacketType.UNSUBSCRIBE, 2, UnSubscribeBody(filters)) = Framed(k)
      BY <3>1, UnSubscribePacket
    <3> QED BY <2>2, <3>2, <3>3
  <2>3. ASSUME UNCHANGED asked, Transmit(c, Frame(PacketType.PINGREQ, 0, <<>>))
        PROVE  asked \subseteq asked' /\ \E k \in Requests(c, asked') : Proper(k) /\ Transmit(c, Framed(k))
    <3>1. Ping \in Requests(c, asked')
      BY DEF Requests
    <3> QED BY <2>3, <3>1, PingPacket
  <2> QED BY <2>1, <2>2, <2>3 DEF Ask
<1>3. PICK k \in Requests(c, asked') : Proper(k) /\ Transmit(c, Framed(k))
  BY <1>2
<1>4. PICK s, a, S, R, R2, m : /\ s = inbox[c] /\ a = th[c].read /\ S = sent[c] /\ R = Requests(c, asked)
                               /\ R2 = Requests(c, asked') /\ m = Len(S)
  OBVIOUS
<1>5. /\ th[c].pc \in Busy /\ c \in behaved /\ UNCHANGED <<th, connections, claims, crashed>>
      /\ inbox'[c] = s \o Framed(k)
  BY <1>3, <1>4, TransmitFinds
<1>6. Backlog(s, a, S, R, TRUE)
  BY <1>3, <1>4, TransmitFinds
<1>7. R \subseteq R2
  BY <1>2, <1>4, RequestsGrow
<1>8. Backlog(s, a, S, R2, TRUE)
  BY <1>6, <1>7, BacklogSame
<1>9. m \in Nat
  BY <1>4, <1>6 DEF Backlog
<1>10. Backlog(s \o Framed(k), a, S, R2, TRUE)
  BY <1>3, <1>4, <1>8, <1>9, BacklogMore
<1>11. PICK s2 : s2 = s \o Framed(k)
  OBVIOUS
<1>12. TRUE <=> c \in behaved'
  BY <1>1, <1>5
<1>13. Backlog(s2, th[c].read, S, Requests(c, asked'), TRUE)
  BY <1>4, <1>10, <1>11
<1> QED BY <1>1, <1>4, <1>5, <1>11, <1>12, <1>13, ReadingSent

\* Garbage ends the connection.
LEMMA GarbageBad ==
    ASSUME NEW t \in Garbage
    PROVE  Bad(t)
BY RefusalAssumption DEF Bad

\* So do DISCONNECT and an acknowledgement.
LEMMA EndBad ==
    ASSUME NEW type \in {PacketType.DISCONNECT, PacketType.PUBREC}
    PROVE  Bad(Frame(type, 0, When(type = PacketType.PUBREC, Two(1))))
<1>1. PICK b : b = When(type = PacketType.PUBREC, Two(1))
  OBVIOUS
<1>2. b \in Seq(Nat) /\ Len(b) <= Limit
  <2>1. 1 \in Nat /\ 1 < Byte * Byte
    BY PacketsAssumption
  <2>2. Two(1) \in Seq(Nat) /\ Len(Two(1)) = 2
    BY <2>1, SixteenBits
  <2>3. Limit \in Nat /\ 2 <= Limit
    BY PowerFacts, LimitAssumption
  <2>4. CASE b = Two(1)
    BY <2>2, <2>3, <2>4
  <2>5. CASE b = <<>>
    BY <2>3, <2>5, EmptySeq
  <2> QED BY <1>1, <2>4, <2>5 DEF When
<1>3. type \in 0..15 /\ type \notin {PacketType.PUBLISH, PacketType.PUBREL, PacketType.SUBSCRIBE,
                                      PacketType.UNSUBSCRIBE, PacketType.PINGREQ}
  BY DEF PacketType
<1>4. PICK k : k = PacketWith(type, 0, b)
  OBVIOUS
<1>5. Proper(k) /\ Frame(type, 0, b) = Framed(k) /\ k.type = type
  BY <1>2, <1>3, <1>4, PlainPacket, ZenonT(30)
<1>6. PICK s : s = Framed(k)
  OBVIOUS
<1>7. s \in Seq(Nat) /\ ReadPacket(s) = Got(k, Len(s))
  BY <1>5, <1>6, WholePacket DEF Proper
<1>8. ReadPacket(s).value = k
  BY <1>7, GotIs
<1>9. type = PacketType.DISCONNECT \/ ~Sound(k)
  BY <1>3, <1>5 DEF Sound
<1> QED BY <1>1, <1>5, <1>6, <1>7, <1>8, <1>9 DEF Bad

\* Whoever sends these does not behave any more.
LEMMA MisbehaveReads ==
    ASSUME IInv, Shape, Shape', NEW c \in Client, ReadingOf(c), Misbehave(c)
    PROVE  ReadingOf(c)'
<1>1. UNCHANGED <<sent, asked>> /\ c \notin behaved'
  BY DEF Misbehave
<1>2. PICK t : Bad(t) /\ Transmit(c, t)
  BY EndBad, GarbageBad DEF Misbehave
<1>3. PICK s, a, S, R : s = inbox[c] /\ a = th[c].read /\ S = sent[c] /\ R = Requests(c, asked)
  OBVIOUS
<1>4. /\ th[c].pc \in Busy /\ UNCHANGED <<th, connections, claims, crashed>> /\ inbox'[c] = s \o t
  BY <1>2, <1>3, TransmitFinds
<1>5. Backlog(s, a, S, R, TRUE)
  BY <1>2, <1>3, TransmitFinds
<1>6. Backlog(s \o t, a, S, R, FALSE)
  BY <1>2, <1>5, BacklogBad
<1>7. PICK s2 : s2 = s \o t
  OBVIOUS
<1>8. FALSE <=> c \in behaved'
  BY <1>1
<1>9. Backlog(s2, th[c].read, S, Requests(c, asked'), FALSE)
  BY <1>1, <1>3, <1>6, <1>7
<1> QED BY <1>1, <1>3, <1>4, <1>7, <1>8, <1>9, ReadingSent

\* Every step of a client keeps its handler in step.
LEMMA PeerReads ==
    ASSUME IInv, Shape, Shape', NEW c \in Client, ReadingOf(c), Peer(c)
    PROVE  ReadingOf(c)'
BY HelloReads, PostReads, AskReads, MisbehaveReads DEF Peer

\* It is so at first.
LEMMA ReadingInit == Init => Reading
<1> SUFFICES ASSUME Init PROVE Reading
  OBVIOUS
<1>1. crashed # "slice"
  BY DEF Init
<1>2. ASSUME NEW c \in Client PROVE ReadingOf(c)
  <2>1. /\ th[c] = Start /\ sent[c] = <<>> /\ inbox[c] = <<>> /\ c \notin connections
    BY DEF Init
  <2>2. th[c].pc = "first" /\ th[c].read = 0
    BY <2>1 DEF Start
  <2>3. Begins(c)
    BY <2>1, <2>2 DEF Begins
  <2> QED BY <2>1, <2>2, <2>3 DEF ReadingOf, Labels
<1> QED BY <1>1, <1>2 DEF Reading

\* A step of client c as another client sees it.
LEMMA OthersRead ==
    ASSUME IInv, Shape, Shape', Reading, NEW d \in Client, th'[d] = th[d], inbox'[d] = inbox[d],
           claims'[d] = claims[d], asked \subseteq asked', behaved' \subseteq behaved,
           d \in connections' <=> d \in connections, Extends(d),
           Len(sent'[d]) = Len(sent[d])
    PROVE  ReadingOf(d)'
<1>1. ReadingOf(d)
  BY DEF Reading
<1>2. \A n \in 1..Len(sent[d]) : sent'[d][n].pub = sent[d][n].pub
  BY DEF Extends
<1> QED BY <1>1, <1>2, ReadingStays

\* And after every step.
LEMMA ReadingStep ==
    ASSUME IInv, Shape, Reading, [Next]_vars
    PROVE  Reading'
<1>1. Shape' /\ \A p \in Client \cup {Service} : Extends(p)
  BY ShapeStep
<1>2. CASE UNCHANGED vars
  <2>1. /\ UNCHANGED <<inbox, th, connections, crashed, claims, sent, asked, behaved>>
    BY <1>2 DEF vars, broker, history
  <2>2. ASSUME NEW d \in Client PROVE ReadingOf(d)'
    BY <1>1, <2>1, OthersRead
  <2> QED BY <2>1, <2>2 DEF Reading
<1>3. ASSUME NEW c \in Client, Handler(c) PROVE Reading'
  <2>1. HandlerLeaves(c)
    BY <1>3, HandlerKeeps DEF Shape
  <2>2. ReadingOf(c) /\ crashed # "slice"
    BY DEF Reading
  <2>3. ReadingOf(c)' /\ crashed' # "slice"
    BY <1>1, <1>3, <2>2, HandlerReads
  <2>4. ASSUME NEW d \in Client \ {c} PROVE ReadingOf(d)'
    <3>1. th'[d] = th[d] /\ inbox'[d] = inbox[d]
      BY <2>1 DEF HandlerLeaves, Only, IInv, Handlers, Shape
    <3>2. /\ claims' = claims /\ asked' = asked /\ behaved' \subseteq behaved
          /\ d \in connections' <=> d \in connections
      BY <2>1 DEF HandlerLeaves
    <3>3. Len(sent'[d]) = Len(sent[d])
      <4>1. ASSUME NEW found, Miss(c, found) PROVE Len(sent'[d]) = Len(sent[d])
        BY <4>1, Missed
      <4> QED BY <2>1, <4>1, Released DEF HandlerLeaves
    <3> QED BY <1>1, <3>1, <3>2, <3>3, OthersRead
  <2> QED BY <2>3, <2>4 DEF Reading
<1>4. ASSUME NEW c \in Client, Peer(c) PROVE Reading'
  <2>1. PeerLeaves(c)
    BY <1>4, PeerKeeps DEF Shape
  <2>2. ReadingOf(c)'
    BY <1>1, <1>4, PeerReads DEF Reading
  <2>3. ASSUME NEW d \in Client \ {c} PROVE ReadingOf(d)'
    <3>1. th'[d] = th[d] /\ inbox'[d] = inbox[d] /\ claims'[d] = claims[d]
      BY <2>1 DEF PeerLeaves, Only, IInv, Handlers, Shape, broker
    <3>2. /\ asked \subseteq asked' /\ behaved' \subseteq behaved
          /\ d \in connections' <=> d \in connections
      BY <2>1 DEF PeerLeaves, broker
    <3>3. Len(sent'[d]) = Len(sent[d])
      BY <2>1 DEF PeerLeaves, Shape
    <3> QED BY <1>1, <3>1, <3>2, <3>3, OthersRead
  <2>4. crashed' # "slice"
    BY <2>1 DEF PeerLeaves, broker, Reading
  <2> QED BY <2>2, <2>3, <2>4 DEF Reading
<1>5. ASSUME NEW k \in Client, SetDevicesState(k) PROVE Reading'
  <2>1. ServiceLeaves(k)
    BY <1>5, ServiceKeeps DEF Shape
  <2>2. UNCHANGED <<inbox, th, connections, crashed, claims, asked, behaved>>
    BY <2>1 DEF ServiceLeaves
  <2>3. \A d \in Client : sent'[d] = sent[d]
    BY <2>1, ClientAssumption DEF ServiceLeaves, Shape
  <2>4. ASSUME NEW d \in Client PROVE ReadingOf(d)'
    BY <1>1, <2>2, <2>3, OthersRead
  <2> QED BY <2>2, <2>4 DEF Reading
<1> QED BY <1>2, <1>3, <1>4, <1>5 DEF Next, Rest

\* In every reachable state each handler of handlePacket is in step with its client: its
\* inbox holds, packet by packet, the publications that it has not read yet, and who ends a
\* connection has given cause.
THEOREM ReadingHolds == Spec => []Reading
<1>1. IInv /\ Shape /\ Reading /\ [Next]_vars => Reading'
  BY ReadingStep
<1> QED BY <1>1, ReadingInit, ShapeHolds, Invariant, PTL DEF Spec

\* In every reachable state a handler that is connected has found in CONNECT what its client
\* has put there: ParseConnectPacket reads every combination of the optional fields.
THEOREM ConnectsRead == Spec => []ConnectRead
<1>1. IInv /\ Reading => ConnectRead
  BY DEF Reading, ReadingOf, ConnectRead, IInv, Handlers
<1> QED BY <1>1, ReadingHolds, Invariant, PTL

\* In every reachable state the handler of a client that sends packets the broker supports, as
\* the protocol lays them out, has not closed its connection, and no parser has read beyond
\* the end of a body. The end of the whole process by a nil dereference is not counted.
THEOREM BehavedStays == Spec => []BehavedStay
<1>1. Shape /\ Reading => BehavedStay
  BY DEF Shape, Reading, ReadingOf, BehavedStay
<1> QED BY <1>1, ReadingHolds, ShapeHolds, PTL
-----------------------------------------------------------------------------
(***************************************************************************)
(* Subscriptions in the tree are those that clients have asked for, with   *)
(* no higher QoS.                                                          *)
(***************************************************************************)

\* A subscription that its client has asked for.
Backed(e) ==
    /\ e.client \in Client /\ e.qos \in {0, 2}
    /\ e.qos > 0 => \E a \in asked : a.client = e.client /\ a.topic = e.topic /\ a.qos >= e.qos

\* A granted QoS is 0 or 2, and 2 only to whom asks for 2 at least.
LEMMA GrantedIs ==
    ASSUME NEW q \in Nat
    PROVE  GrantedQoS(q) \in {0, 2} /\ (GrantedQoS(q) > 0 => q >= 2)
<1>1. PICK h : h = q \div 2
  OBVIOUS
<1>2. h \in Nat /\ q = 2 * h + (q % 2)
  BY <1>1
<1>3. PICK b \in Nat : b = h % 2
  BY <1>2
<1>4. b \in {0, 1} /\ (b = 1 => h >= 1)
  BY <1>2, <1>3
<1>5. GrantedQoS(q) = 2 * b
  BY <1>1, <1>3 DEF GrantedQoS
<1> QED BY <1>2, <1>4, <1>5

\* Filters that c has asked for, as they are granted.
Wanted(c, subs) ==
    /\ subs \in Seq(Subscribed)
    /\ \A i \in 1..Len(subs) : Backed([client |-> c, topic |-> subs[i].topic, qos |-> subs[i].qos])

\* What ParseSubscribePacket grants was asked for.
LEMMA GrantedWanted ==
    ASSUME NEW c \in Client, NEW filters \in Subscription,
           \A e \in ToSet(filters) : [client |-> c, topic |-> e.topic, qos |-> e.qos] \in asked
    PROVE  Wanted(c, Granted(filters))
<1>1. filters \in Seq([topic : Seq(Nat), qos : Nat])
  BY FilterAssumption
<1>2. PICK subs, l : subs = Granted(filters) /\ l = Len(filters)
  OBVIOUS
<1>3. l \in Nat
  BY <1>1, <1>2
<1>4. subs = [i \in 1..l |-> [topic |-> filters[i].topic, qos |-> GrantedQoS(filters[i].qos)]]
  BY <1>2 DEF Granted
<1>5. ASSUME NEW i \in 1..l
      PROVE  /\ subs[i] \in Subscribed
             /\ Backed([client |-> c, topic |-> subs[i].topic, qos |-> subs[i].qos])
  <2>1. PICK f : f = filters[i]
    OBVIOUS
  <2>2. f \in [topic : Seq(Nat), qos : Nat] /\ f \in ToSet(filters)
    <3>1. DOMAIN filters = 1..l
      BY <1>1, <1>2
    <3>2. f \in ToSet(filters)
      BY <2>1, <3>1 DEF ToSet
    <3>3. PICK V : V = [topic : Seq(Nat), qos : Nat]
      OBVIOUS
    <3>4. filters \in Seq(V)
      BY <1>1, <3>3
    <3>5. f \in V
      BY <1>2, <2>1, <3>4
    <3> QED BY <3>2, <3>3, <3>5
  <2>3. PICK g, q : g = GrantedQoS(f.qos) /\ q = f.qos
    OBVIOUS
  <2>4. q \in Nat /\ f.topic \in Seq(Nat)
    BY <2>2, <2>3
  <2>5. g \in {0, 2} /\ (g > 0 => q >= 2)
    BY <2>3, <2>4, GrantedIs
  <2>6. subs[i] = [topic |-> f.topic, qos |-> g]
    BY <1>4, <2>1, <2>3
  <2>7. subs[i].topic = f.topic /\ subs[i].qos = g
    BY <2>6
  <2>8. subs[i] \in Subscribed
    BY <2>4, <2>5, <2>6 DEF Subscribed
  <2>9. PICK e : e = [client |-> c, topic |-> f.topic, qos |-> g]
    OBVIOUS
  <2>10. PICK a : a = [client |-> c, topic |-> f.topic, qos |-> q]
    OBVIOUS
  <2>11. a \in asked
    BY <2>2, <2>3, <2>10
  <2>12. a.client = c /\ a.topic = f.topic /\ a.qos = q
    BY <2>10
  <2>13. e.client = c /\ e.topic = f.topic /\ e.qos = g
    BY <2>9
  <2>14. g > 0 => q >= g
    BY <2>4, <2>5
  <2>15. Backed(e)
    BY <2>5, <2>11, <2>12, <2>13, <2>14 DEF Backed
  <2> QED BY <2>7, <2>8, <2>9, <2>15
<1>6. subs \in Seq(Subscribed) /\ Len(subs) = l
  <2>1. DOMAIN subs = 1..l /\ \A i \in 1..l : subs[i] \in Subscribed
    BY <1>4, <1>5
  <2>2. subs \in [1..l -> Subscribed]
    BY <1>4, <2>1
  <2>3. subs \in Seq(Subscribed)
    BY <1>3, <2>2, IsASeq
  <2> QED BY <1>3, <2>1, <2>3
<1> QED BY <1>2, <1>5, <1>6 DEF Wanted

\* So was what an insertion that fails leaves.
LEMMA LessWanted ==
    ASSUME NEW c, NEW subs, Wanted(c, subs), NEW i \in DOMAIN subs
    PROVE  Wanted(c, RemoveAt(subs, i))
<1>1. PICK l : l = Len(subs)
  OBVIOUS
<1>2. l \in Nat /\ i \in 1..l /\ subs \in Seq(Subscribed)
  BY <1>1 DEF Wanted
<1>3. PICK x, y : x = SubSeq(subs, 1, i-1) /\ y = SubSeq(subs, i+1, l)
  OBVIOUS
<1>4. /\ x \in Seq(Subscribed) /\ Len(x) = i - 1 /\ \A j \in 1..i-1 : x[j] = subs[j]
      /\ y \in Seq(Subscribed) /\ Len(y) = l - i /\ \A j \in 1..l-i : y[j] = subs[i + j]
  <2>1. /\ x \in Seq(Subscribed) /\ Len(x) = i - 1 /\ \A j \in 1..i-1 : x[j] = subs[1 + j - 1]
    <3>1. \A j \in 1..i-1 : j \in DOMAIN subs
      BY <1>2
    <3> QED BY <1>1, <1>2, <1>3, <3>1, SubSeqProperties
  <2>2. /\ y \in Seq(Subscribed) /\ Len(y) = l - i /\ \A j \in 1..l-i : y[j] = subs[i + 1 + j - 1]
    BY <1>1, <1>2, <1>3, SubSeqProperties
  <2> QED BY <1>2, <2>1, <2>2, SMTT(30)
<1>5. PICK r : r = x \o y
  OBVIOUS
<1>6. /\ r \in Seq(Subscribed) /\ Len(r) = l - 1
      /\ \A j \in 1..i-1 : r[j] = x[j]
      /\ \A j \in 1..l-1 : j > i - 1 => r[j] = y[j - (i - 1)]
  <2>1. /\ r \in Seq(Subscribed) /\ Len(r) = Len(x) + Len(y)
        /\ \A j \in 1..Len(x) + Len(y) : r[j] = IF j <= Len(x) THEN x[j] ELSE y[j - Len(x)]
    BY <1>4, <1>5, ConcatProperties
  <2>2. PICK a \in Nat : a = Len(x) /\ a = i - 1 /\ a + Len(y) = l - 1 /\ a <= l - 1
    BY <1>2, <1>4
  <2>3. \A j \in 1..l-1 : r[j] = IF j <= a THEN x[j] ELSE y[j - a]
    BY <2>1, <2>2
  <2>4. \A j \in 1..a : j \in 1..l-1 /\ j <= a
    BY <1>2, <2>2
  <2>5. \A j \in 1..l-1 : j > a => ~(j <= a)
    BY <1>2, <2>2
  <2> QED BY <2>1, <2>2, <2>3, <2>4, <2>5
<1>7. ASSUME NEW j \in 1..l-1 PROVE \E k \in 1..l : r[j] = subs[k]
  <2>1. CASE j \in 1..i-1
    <3>1. j \in 1..l
      BY <1>2, <2>1
    <3>2. r[j] = subs[j]
      BY ONLY <1>4, <1>6, <2>1
    <3> QED BY ONLY <3>1, <3>2
  <2>2. CASE j > i - 1
    <3>1. PICK m : m = j - (i - 1)
      OBVIOUS
    <3>2. m \in 1..l-i /\ i + m \in 1..l
      BY <1>2, <2>2, <3>1
    <3> QED BY <1>4, <1>6, <2>2, <3>1, <3>2
  <2> QED BY <1>2, <2>1, <2>2
<1>8. RemoveAt(subs, i) = r
  BY <1>1, <1>3, <1>5 DEF RemoveAt
<1> QED BY <1>1, <1>6, <1>7, <1>8 DEF Wanted

\* What is inserted was asked for.
LEMMA EntryWanted ==
    ASSUME NEW c, NEW subs, Wanted(c, subs), NEW topic \in {s.topic : s \in ToSet(subs)}
    PROVE  Backed(Entry(c, subs, topic))
<1>1. PICK l : l = Len(subs)
  OBVIOUS
<1>2. l \in Nat /\ DOMAIN subs = 1..l
  BY <1>1 DEF Wanted
<1> DEFINE T == {i \in 1..l : subs[i].topic = topic}
           Is(i) == subs[i].topic = topic /\ \A j \in 1..i-1 : subs[j].topic # topic
<1>3. T # {} /\ T \subseteq Nat
  BY <1>2 DEF ToSet
<1>4. PICK n \in T : \A m \in T : n <= m
  BY <1>3, Least
<1>5. n \in DOMAIN subs /\ Is(n)
  BY <1>2, <1>4
<1>6. PICK first : first = CHOOSE i \in DOMAIN subs : Is(i)
  OBVIOUS
<1>7. first \in DOMAIN subs /\ Is(first)
  BY <1>5, <1>6
<1>8. Entry(c, subs, topic) = [client |-> c, topic |-> topic, qos |-> subs[first].qos]
  BY <1>6 DEF Entry
<1>9. subs[first].topic = topic
  BY <1>7
<1> HIDE DEF Is, T
<1> QED BY <1>1, <1>2, <1>7, <1>8, <1>9 DEF Wanted

\* So was what an insertion leaves in a node.
LEMMA RequestedWanted ==
    ASSUME NEW c, NEW subs, Wanted(c, subs)
    PROVE  \A e \in Requested(c, subs) : Backed(e)
<1>1. PICK l : l = Len(subs)
  OBVIOUS
<1>2. DOMAIN subs = 1..l
  BY <1>1 DEF Wanted
<1>3. ASSUME NEW e \in Requested(c, subs) PROVE Backed(e)
  <2>1. PICK i \in 1..l : e = [client |-> c, topic |-> subs[i].topic, qos |-> subs[i].qos]
    BY <1>2 DEF Requested, ToSet
  <2> QED BY <1>1, <2>1 DEF Wanted
<1> QED BY <1>3

\* The tree of a SUBSCRIBE.
LEMMA TreeBacked ==
    ASSUME NEW c, NEW subs, Wanted(c, subs)
    PROVE  tree \subseteq InsertAll(c, subs) /\ \A e \in InsertAll(c, subs) \ tree : Backed(e)
BY InsertAllIs, EntryWanted
-----------------------------------------------------------------------------
(***************************************************************************)
(* What a step of a handler comes to. Most steps settle something between  *)
(* the handler and its own client; five are steps of a publication. The    *)
(* proofs about copies go by these and not by the actions.                 *)
(***************************************************************************)

\* What a client may be told: nothing, or a packet that is no publication.
Told(c) ==
    /\ UNCHANGED copies
    /\ \/ UNCHANGED outbox
       \/ outbox' = [outbox EXCEPT ![c] = @ \o <<>>]
       \/ \E k \in Fitting : /\ k.type \notin {Torn.type, PacketType.PUBLISH}
                             /\ outbox' = [outbox EXCEPT ![c] = @ \o Framed(k)]

\* The handler of c takes part in no publication.
Settled(s, t) ==
    /\ t.read = s.read /\ t.pub \in {s.pub, NoPub} /\ t.todo = {} /\ t.cur = {} /\ t.id = 0
    /\ \/ s.pc = "first" /\ t.pc \in {"first", "read"}
       \/ s.pc = "read" /\ t.pc \in {"read", "closed"} /\ t.info = s.info

\* Handler c settles something with its client.
Settles(c) ==
    /\ \E t : Turned(c, t) /\ Settled(th[c], t)
    /\ Told(c) /\ UNCHANGED <<PendingPublish, asked>>
    /\ UNCHANGED stored \/ Save(c, PendingPublish[c])
    /\ \/ connections' \subseteq connections
       \/ th[c].pc = "first" /\ connections' = connections \cup {c}
    /\ \A e \in tree' \cup seen' : e \in tree \cup seen \/ Backed(e)
    /\ (tree \subseteq tree' /\ sent' = sent) \/ Release

\* The handler of c takes its next publication.
Takes(c) ==
    /\ \E n \in 1..Len(sent[c]) : \E p :
          /\ th[c].pc = "read" /\ n = th[c].read + 1 /\ p = Bare(sent[c][n].pub)
          /\ \/ /\ p.payload = <<>> /\ UNCHANGED PendingPublish
                /\ Turned(c, Thread("read", th[c].info, n, NoPub, {}, {}, 0))
             \/ /\ p.payload # <<>> /\ p.qos = 0 /\ UNCHANGED PendingPublish
                /\ Turned(c, Thread("match", th[c].info, n, p, {}, {}, 0))
             \/ /\ p.payload # <<>> /\ p.qos > 0
                /\ PendingPublish' = [PendingPublish EXCEPT ![c] = Pend(@, p)]
                /\ Turned(c, Thread("save", th[c].info, n, p, {}, {}, 0))
    /\ UNCHANGED <<connections, output, tree, seen, stored, spent, sent, asked>>

\* The handler of c has its publication matched: exactly, after a call that failed, or with
\* outdated nodes.
Matches(c, T) ==
    /\ th[c].pc = "match" /\ T \subseteq {e \in tree \cup seen : e.topic = th[c].pub.topic}
    /\ Turned(c, Thread("route", th[c].info, th[c].read, th[c].pub, T, {}, 0))
    /\ \/ T = {e \in tree : e.topic = th[c].pub.topic} /\ UNCHANGED sent
       \/ spent'.errors # 0 /\ UNCHANGED sent
       \/ Miss(c, T)

\* Or the process ends.
Breaks(c) == th[c].pc = "match" /\ UNCHANGED <<th, sent>>

\* A handler that is not at a publication has no subscriptions to serve.
LEMMA StageOf ==
    ASSUME IInv, NEW c \in Client, NEW s, s = th[c]
    PROVE  /\ s.pc \notin {"route", "create", "return", "number", "deliver"} => s.todo = {}
           /\ s.pc \notin {"create", "return", "number", "deliver"} => s.cur = {}
           /\ s.pc # "deliver" => s.id = 0
           /\ s.read \in Nat /\ s.id \in Nat /\ s.cur \subseteq s.todo
           /\ Turned(c, s) <=> (DOMAIN th' = Client /\ th'[c] = s /\ \A d \in Client \ {c} : th'[d] = th[d])
<1>1. /\ s.pc \notin {"route", "create", "return", "number", "deliver"} => s.todo = {}
      /\ s.pc \notin {"create", "return", "number", "deliver"} => s.cur = {}
      /\ s.pc # "deliver" => s.id = 0
      /\ s.read \in Nat /\ s.id \in Nat /\ s.cur \subseteq s.todo
  <2>1. Stage(s)
    BY DEF IInv, Handlers
  <2> QED BY ONLY <2>1 DEF Stage, Looping
<1>2. Turned(c, s) <=> (DOMAIN th' = Client /\ th'[c] = s /\ \A d \in Client \ {c} : th'[d] = th[d])
  BY Zenon DEF Turned
<1> QED BY <1>1, <1>2

\* That is what MatchTopic does.
LEMMA MatchDoes ==
    ASSUME IInv, Shape, NEW c \in Client, MatchTopic(c)
    PROVE  /\ Breaks(c) \/ \E T : Matches(c, T)
           /\ UNCHANGED <<connections, output, tree, seen, PendingPublish, stored, asked>>
<1>1. th[c].pc = "match" /\ UNCHANGED <<connections, output, tree, seen, PendingPublish, stored, asked>>
  BY DEF MatchTopic, At, sessions
<1>2. PICK s : s = th[c]
  OBVIOUS
<1>3. s.cur = {} /\ s.id = 0
  BY <1>1, <1>2, StageOf
<1> DEFINE To(entries) == {e \in entries : e.topic = s.pub.topic}
           Report(found) == th' = [th EXCEPT ![c].pc = "route", ![c].todo = found]
<1>4. \/ Report(To(tree)) /\ UNCHANGED sent
      \/ \E found \in SUBSET To(seen) : Report(found) /\ Miss(c, found)
      \/ DatabaseError /\ Report({}) /\ UNCHANGED sent
      \/ UNCHANGED <<th, sent>>
  BY <1>2 DEF MatchTopic
<1>5. ASSUME NEW T, T \subseteq To(tree \cup seen), Report(T),
             \/ T = To(tree) /\ UNCHANGED sent
             \/ DatabaseError /\ UNCHANGED sent
             \/ Miss(c, T)
      PROVE  Matches(c, T)
  <2>1. Turned(c, Thread("route", s.info, s.read, s.pub, T, s.cur, s.id))
    BY <1>2, <1>5, MatchThread
  <2>2. Turned(c, Thread("route", th[c].info, th[c].read, th[c].pub, T, {}, 0))
    BY <1>2, <1>3, <2>1
  <2>3. DatabaseError => spent'.errors # 0
    <3>1. ASSUME DatabaseError PROVE spent'.errors # 0
      <4>1. spent'.errors > 0
        BY <3>1, Spending DEF Shape
      <4> QED BY <4>1
    <3> QED BY <3>1
  <2> QED BY <1>1, <1>2, <1>5, <2>2, <2>3 DEF Matches
<1>6. To(tree) \subseteq To(tree \cup seen) /\ \A found \in SUBSET To(seen) : found \subseteq To(tree \cup seen)
  OBVIOUS
<1> HIDE DEF To, Report
<1>7. UNCHANGED <<th, sent>> => Breaks(c)
  BY <1>1 DEF Breaks
<1>8. Breaks(c) \/ \E T : Matches(c, T)
  BY <1>4, <1>5, <1>6, <1>7
<1> QED BY <1>1, <1>8

\* Nothing is written.
LEMMA ToldNothing ==
    ASSUME NEW c, UNCHANGED output
    PROVE  Told(c)
BY DEF output, Told

\* An answer is a packet that is no publication.
LEMMA ToldReply ==
    ASSUME NEW c, NEW b, Reply(c, b), NEW k \in Fitting, k.type \notin {Torn.type, PacketType.PUBLISH},
           b = Framed(k)
    PROVE  Told(c)
BY DEF Reply, Told

\* The thread after a step that leaves it alone, or ends the connection.
LEMMA SettledSame ==
    ASSUME IInv, NEW c \in Client, th[c].pc \in {"first", "read"}, UNCHANGED th
    PROVE  \E t : Turned(c, t) /\ Settled(th[c], t)
<1>1. PICK s : s = th[c]
  OBVIOUS
<1>2. Turned(c, s)
  BY <1>1, ThreadIs DEF Turned
<1>3. s.pc \in {"first", "read"}
  BY <1>1
<1>4. s.todo = {} /\ s.cur = {} /\ s.id = 0
  BY <1>1, <1>3, StageOf
<1>5. Settled(s, s)
  BY <1>3, <1>4 DEF Settled
<1> QED BY <1>1, <1>2, <1>5

\* The handler closes the connection.
LEMMA SettledClosed ==
    ASSUME IInv, NEW c \in Client, th[c].pc = "read", Close(c)
    PROVE  /\ \E t : Turned(c, t) /\ Settled(th[c], t)
           /\ c \notin connections' /\ connections' \subseteq connections
<1>1. PICK s, t : s = th[c] /\ t = Thread("closed", s.info, s.read, NoPub, {}, {}, 0)
  OBVIOUS
<1>2. Turned(c, t) /\ connections' = connections \ {c}
  BY <1>1, CloseThread
<1>3. /\ t.pc = "closed" /\ t.info = s.info /\ t.read = s.read /\ t.pub = NoPub /\ t.todo = {}
      /\ t.cur = {} /\ t.id = 0
  BY <1>1, ThreadFields
<1>4. Settled(s, t)
  BY <1>1, <1>3 DEF Settled
<1> QED BY <1>1, <1>2, <1>4

\* A step that leaves the sessions alone.
LEMMA SettlesBy ==
    ASSUME NEW c, \E t : Turned(c, t) /\ Settled(th[c], t), Told(c),
           UNCHANGED <<tree, seen, PendingPublish, stored, sent, asked>>,
           \/ connections' \subseteq connections
           \/ th[c].pc = "first" /\ connections' = connections \cup {c}
    PROVE  Settles(c)
<1>1. tree \subseteq tree' /\ \A e \in tree' \cup seen' : e \in tree \cup seen
  OBVIOUS
<1> QED BY <1>1 DEF Settles

\* A packet that does not parse.
LEMMA FailSettles ==
    ASSUME IInv, NEW c \in Client, th[c].pc = "read", NEW r, Fails(c, r), UNCHANGED <<sent, asked>>
    PROVE  Settles(c)
<1>1. UNCHANGED <<output, tree, seen, PendingPublish, stored>>
  BY DEF Fails, Dies, sessions
<1>2. \/ Close(c)
      \/ UNCHANGED <<th, connections>>
  BY DEF Fails, Dies
<1>3. \E t : Turned(c, t) /\ Settled(th[c], t)
  BY <1>2, SettledSame, SettledClosed
<1>4. connections' \subseteq connections
  BY <1>2, SettledClosed
<1>5. Told(c)
  BY <1>1, ToldNothing
<1> QED BY <1>1, <1>3, <1>4, <1>5, SettlesBy

\* CONNECT fits.
LEMMA GreetingBody ==
    ASSUME NEW c \in Client
    PROVE  ConnectBody(Greeting[c], c) \in Seq(Nat) /\ Len(ConnectBody(Greeting[c], c)) <= Limit
<1>1. PICK g : g = Greeting[c]
  OBVIOUS
<1>2. /\ g.clean \in BOOLEAN /\ g.keepAlive \in Nat /\ g.topic \in Seq(Nat) /\ g.content \in Seq(Nat)
      /\ g.user \in Seq(Nat) /\ g.password \in Seq(Nat) /\ Len(ConnectBody(g, c)) <= Limit /\ c \in Seq(Nat)
  <2>1. \A n \in 0..Byte * Byte - 1 : n \in Nat
    BY PacketsAssumption
  <2> QED BY <1>1, <2>1, GreetingAssumption, ClientAssumption DEF IsText
<1>3. PICK b : b = ConnectBody(g, c)
  OBVIOUS
<1>4. b \in Seq(Nat)
  BY <1>2, <1>3, ConnectBodyIs
<1> QED BY <1>1, <1>2, <1>3, <1>4

\* What arrives before the handshake is bytes.
LEMMA HandshakeBytes ==
    ASSUME NEW c \in Client, ReadingOf(c), th[c].pc = "first"
    PROVE  inbox[c] \in Seq(Nat)
<1>1. Begins(c)
  BY DEF ReadingOf
<1>2. PICK t \in 0..15 : t = PacketType.CONNECT
  BY Types
<1>3. t \notin {PacketType.PUBLISH, PacketType.PUBREL, PacketType.SUBSCRIBE, PacketType.UNSUBSCRIBE}
  BY <1>2 DEF PacketType
<1>4. ASSUME NEW b \in Seq(Nat), Len(b) <= Limit, inbox[c] = Framed(PacketWith(PacketType.CONNECT, 0, b))
      PROVE  inbox[c] \in Seq(Nat)
  <2>1. PICK k : k = PacketWith(t, 0, b)
    OBVIOUS
  <2>2. Proper(k)
    BY <1>3, <1>4, <2>1, PlainPacket
  <2>3. Framed(k) \in Seq(Nat)
    BY <2>2, WholePacket DEF Proper
  <2> QED BY <1>2, <1>4, <2>1, <2>3
<1>5. CASE inbox[c] = Framed(HelloOf(c))
  BY <1>4, <1>5, GreetingBody DEF HelloOf
<1>6. CASE \E body \in BadGreeting : inbox[c] = Framed(Wrong(body))
  BY <1>4, <1>6, RefusalAssumption DEF Wrong
<1>7. CASE inbox[c] = <<>>
  BY <1>7
<1> QED BY <1>1, <1>5, <1>6, <1>7 DEF Begins

\* The handshake settles.
LEMMA HandshakeSettles ==
    ASSUME IInv, NEW c \in Client, ReadingOf(c), FirstPacket(c)
    PROVE  Settles(c)
<1>0. PICK r \in Arrived(c, {PacketType.CONNECT}) : \E info :
         /\ info = ParseConnectPacket(r.value.body)
         /\ \/ /\ th' = [th EXCEPT ![c].pc = "read", ![c].info = info.value]
               /\ connections' = connections \cup {c}
               /\ Reply(c, NewConnectAckPacket(TRUE, ConnectRespType.Accepted))
            \/ /\ Reply(c, NewConnectAckPacket(FALSE, ConnectRespType.ServerUnavailable))
               /\ UNCHANGED <<th, connections>>
            \/ /\ info.is = "error" /\ Reply(c, info.resp)
               /\ UNCHANGED <<th, connections>>
            \/ Dies("slice")
  BY DEF FirstPacket
<1>1. PICK info :
         /\ info = ParseConnectPacket(r.value.body)
         /\ \/ /\ th' = [th EXCEPT ![c].pc = "read", ![c].info = info.value]
               /\ connections' = connections \cup {c}
               /\ Reply(c, NewConnectAckPacket(TRUE, ConnectRespType.Accepted))
            \/ /\ Reply(c, NewConnectAckPacket(FALSE, ConnectRespType.ServerUnavailable))
               /\ UNCHANGED <<th, connections>>
            \/ /\ info.is = "error" /\ Reply(c, info.resp)
               /\ UNCHANGED <<th, connections>>
            \/ Dies("slice")
  BY <1>0
<1>2. th[c].pc = "first" /\ UNCHANGED <<tree, seen, PendingPublish, stored, sent, asked>>
  BY DEF FirstPacket, At, sessions, history
<1>3. \A code \in Nat, status \in BOOLEAN :
         \E k \in Fitting : k.type = PacketType.CONNACK /\ NewConnectAckPacket(status, code) = Framed(k)
  BY ConnackFramed, LimitAssumption
<1>4. PacketType.CONNACK \notin {Torn.type, PacketType.PUBLISH}
  BY DEF PacketType, Torn
<1>5. ASSUME NEW code \in Nat, NEW status \in BOOLEAN, Reply(c, NewConnectAckPacket(status, code))
      PROVE  Told(c)
  BY <1>3, <1>4, <1>5, ToldReply
<1>6. /\ ConnectRespType.Accepted \in Nat /\ ConnectRespType.ServerUnavailable \in Nat
      /\ ConnectRespType.UnacceptableProtocol \in Nat /\ ConnectRespType.IdentifierRejected \in Nat
  BY DEF ConnectRespType
<1>7. Told(c)
  <2>1. CASE Reply(c, NewConnectAckPacket(TRUE, ConnectRespType.Accepted))
    BY <1>5, <1>6, <2>1
  <2>2. CASE Reply(c, NewConnectAckPacket(FALSE, ConnectRespType.ServerUnavailable))
    BY <1>5, <1>6, <2>2
  <2>3. CASE info.is = "error" /\ Reply(c, info.resp)
    <3>1. r.value.body \in Seq(Nat)
      <4>1. inbox[c] \in Seq(Nat)
        BY <1>2, HandshakeBytes
      <4> QED BY <4>1, ArrivedIs, PacketYields
    <3>2. info.resp \in Answers
      BY <1>1, <2>3, <3>1, ConnectNeverPanics
    <3>3. CASE info.resp = <<>>
      BY <2>3, <3>3 DEF Reply, Told
    <3>4. CASE \E code \in Refusals : info.resp = NewConnectAckPacket(FALSE, code)
      BY <1>5, <1>6, <2>3, <3>4 DEF Refusals
    <3> QED BY <3>2, <3>3, <3>4 DEF Answers
  <2>4. CASE Dies("slice")
    BY <2>4, ToldNothing DEF Dies
  <2> QED BY <1>1, <2>1, <2>2, <2>3, <2>4
<1>8. PICK s : s = th[c]
  OBVIOUS
<1>9. s.todo = {} /\ s.cur = {} /\ s.id = 0
  BY <1>2, <1>8, StageOf
<1>10. CASE /\ th' = [th EXCEPT ![c].pc = "read", ![c].info = info.value]
            /\ connections' = connections \cup {c}
  <2>1. PICK x, t : x = info.value /\ t = Thread("read", x, s.read, s.pub, s.todo, s.cur, s.id)
    OBVIOUS
  <2>2. Turned(c, t)
    BY <1>8, <1>10, <2>1, OpenThread
  <2>3. t.pc = "read" /\ t.read = s.read /\ t.pub = s.pub /\ t.todo = s.todo /\ t.cur = s.cur /\ t.id = s.id
    BY <2>1, ThreadFields
  <2>4. Settled(s, t)
    BY <1>2, <1>8, <1>9, <2>3 DEF Settled
  <2>5. \E u : Turned(c, u) /\ Settled(th[c], u)
    BY <1>8, <2>2, <2>4
  <2> QED BY <1>2, <1>7, <1>10, <2>5, SettlesBy
<1>11. CASE UNCHANGED <<th, connections>>
  <2>1. \E u : Turned(c, u) /\ Settled(th[c], u)
    BY <1>2, <1>11, SettledSame
  <2> QED BY <1>2, <1>7, <1>11, <2>1, SettlesBy
<1> QED BY <1>1, <1>10, <1>11 DEF Dies
-----------------------------------------------------------------------------
(***************************************************************************)
(* What a step of a handler comes to: requests and publications.           *)
(***************************************************************************)

\* The acknowledgement of a request.
LEMMA AckTold ==
    ASSUME NEW c, NEW type \in {PacketType.SUBACK, PacketType.UNSUBACK}, NEW id \in Nat, NEW state \in Nat,
           NEW b, b = Ack(type, id, <<state>>), Reply(c, b)
    PROVE  Told(c)
<1>1. type \in 0..15 /\ type \notin {Torn.type, PacketType.PUBLISH}
  BY DEF PacketType, Torn
<1>2. PICK s : s = <<state>>
  OBVIOUS
<1>3. s \in Seq(Nat) /\ Len(s) <= 1
  BY <1>2
<1>4. PICK k \in Fitting : k.type = type /\ Ack(type, id, s) = Framed(k)
  BY <1>1, <1>3, AckFramed, LimitAssumption
<1> QED BY <1>1, <1>2, <1>4, ToldReply

\* What a SUBSCRIBE does to the tree.
Inserted(c, subs) ==
    /\ \/ tree' = InsertAll(c, subs)
       \/ \E i \in DOMAIN subs : tree' = InsertAll(c, RemoveAt(subs, i))
       \/ tree' \subseteq seen \cup Requested(c, subs)
    /\ seen' = seen \cup Requested(c, subs)
    /\ Release \/ (tree' = InsertAll(c, subs) /\ sent' = sent)

\* SUBSCRIBE settles: what it inserts was asked for, and it is answered with SUBACK.
LEMMA SubscribeSettles ==
    ASSUME IInv, Shape, NEW c \in Client, ReadingOf(c), Subscribe(c)
    PROVE  Settles(c)
<1>0. PICK r \in Arrived(c, {PacketType.SUBSCRIBE}) : \E req, subs :
         /\ req = ParseSubscribePacket(r.value.body) /\ subs = req.value.subscriptions
         /\ \/ /\ Fine(req) /\ UNCHANGED <<th, connections, PendingPublish>>
               /\ Inserted(c, subs)
               /\ UNCHANGED stored \/ Save(c, PendingPublish[c])
               /\ \E state \in {SubscribeState.SuccessQos0, SubscribeState.Failure} :
                     Reply(c, NewSubAckPacket(req.value.id, state))
            \/ Fails(c, req) /\ UNCHANGED sent
  BY DEF Subscribe, Inserted, SaveOutdated
<1>1. PICK req, subs :
         /\ req = ParseSubscribePacket(r.value.body) /\ subs = req.value.subscriptions
         /\ \/ /\ Fine(req) /\ UNCHANGED <<th, connections, PendingPublish>>
               /\ Inserted(c, subs)
               /\ UNCHANGED stored \/ Save(c, PendingPublish[c])
               /\ \E state \in {SubscribeState.SuccessQos0, SubscribeState.Failure} :
                     Reply(c, NewSubAckPacket(req.value.id, state))
            \/ Fails(c, req) /\ UNCHANGED sent
  BY <1>0
<1>2. th[c].pc = "read" /\ UNCHANGED asked
  BY DEF Subscribe, At
<1>3. SubscribeFinds(c, r)
  BY <1>2, SubscribeFound
<1>4. CASE Fails(c, req) /\ UNCHANGED sent
  BY <1>2, <1>4, FailSettles
<1>5. ASSUME Fine(req), UNCHANGED <<th, connections, PendingPublish>>, Inserted(c, subs),
             UNCHANGED stored \/ Save(c, PendingPublish[c]),
             \E state \in {SubscribeState.SuccessQos0, SubscribeState.Failure} :
                Reply(c, NewSubAckPacket(req.value.id, state))
      PROVE  Settles(c)
  <2>0. PICK filters \in Subscription : \E q :
           /\ \A e \in ToSet(filters) : [client |-> c, topic |-> e.topic, qos |-> e.qos] \in asked
           /\ req = Got([id |-> 1, subscriptions |-> Granted(filters)], q)
    BY <1>1, <1>3, <1>5 DEF SubscribeFinds
  <2>1. PICK q :
           /\ \A e \in ToSet(filters) : [client |-> c, topic |-> e.topic, qos |-> e.qos] \in asked
           /\ req = Got([id |-> 1, subscriptions |-> Granted(filters)], q)
    BY <2>0
  <2>2. PICK v : v = [id |-> 1, subscriptions |-> Granted(filters)]
    OBVIOUS
  <2>3. req.value = v /\ v.id = 1 /\ v.subscriptions = Granted(filters)
    BY <2>1, <2>2, GotIs
  <2>4. Wanted(c, subs)
    BY <1>1, <2>1, <2>3, GrantedWanted
  <2>5. \A e \in tree' \cup seen' : e \in tree \cup seen \/ Backed(e)
    <3>1. \A e \in Requested(c, subs) : Backed(e)
      BY <2>4, RequestedWanted
    <3>2. CASE tree' = InsertAll(c, subs)
      BY <1>5, <2>4, <3>1, <3>2, TreeBacked DEF Inserted
    <3>3. CASE \E i \in DOMAIN subs : tree' = InsertAll(c, RemoveAt(subs, i))
      <4>1. PICK i \in DOMAIN subs : tree' = InsertAll(c, RemoveAt(subs, i))
        BY <3>3
      <4>2. PICK less : less = RemoveAt(subs, i)
        OBVIOUS
      <4>3. Wanted(c, less)
        BY <2>4, <4>2, LessWanted
      <4>4. tree' = InsertAll(c, less)
        BY <4>1, <4>2
      <4>5. \A e \in tree' \ tree : Backed(e)
        BY <4>3, <4>4, TreeBacked
      <4> QED BY <1>5, <3>1, <4>5 DEF Inserted
    <3>4. CASE tree' \subseteq seen \cup Requested(c, subs)
      BY <1>5, <3>1, <3>4 DEF Inserted
    <3> QED BY <1>5, <3>2, <3>3, <3>4 DEF Inserted
  <2>6. Told(c)
    <3>1. PICK state \in {SubscribeState.SuccessQos0, SubscribeState.Failure} :
             Reply(c, NewSubAckPacket(req.value.id, state))
      BY <1>5
    <3>2. state \in Nat
      BY DEF SubscribeState
    <3>3. PICK id \in Nat : id = req.value.id
      BY <2>3
    <3>4. PICK b : b = Ack(PacketType.SUBACK, id, <<state>>)
      OBVIOUS
    <3>5. Reply(c, b)
      BY <3>1, <3>3, <3>4 DEF NewSubAckPacket
    <3> QED BY <3>2, <3>4, <3>5, AckTold
  <2>7. \E t : Turned(c, t) /\ Settled(th[c], t)
    BY <1>2, <1>5, SettledSame
  <2>8. (tree \subseteq tree' /\ sent' = sent) \/ Release
    BY <1>5, InsertAllIs DEF Inserted
  <2> QED BY <1>2, <1>5, <2>5, <2>6, <2>7, <2>8 DEF Settles
<1> QED BY <1>1, <1>4, <1>5

\* UNSUBSCRIBE settles: whose subscription is gone is released.
LEMMA UnsubscribeSettles ==
    ASSUME IInv, Shape, NEW c \in Client, ReadingOf(c), Unsubscribe(c)
    PROVE  Settles(c)
<1>0. PICK r \in Arrived(c, {PacketType.UNSUBSCRIBE}) : \E req :
         /\ req = ParseUnSubscribePacket(r.value.body)
         /\ \/ /\ Fine(req) /\ UNCHANGED <<th, connections, seen, PendingPublish, stored>> /\ Release
               /\ DeleteSubscriptions(c, ToSet(req.value.subscriptions))
               /\ Reply(c, NewUnSubAckPacket(req.value.id, SubscribeState.SuccessQos0))
            \/ Fails(c, req) /\ UNCHANGED sent
  BY DEF Unsubscribe
<1>1. PICK req :
         /\ req = ParseUnSubscribePacket(r.value.body)
         /\ \/ /\ Fine(req) /\ UNCHANGED <<th, connections, seen, PendingPublish, stored>> /\ Release
               /\ DeleteSubscriptions(c, ToSet(req.value.subscriptions))
               /\ Reply(c, NewUnSubAckPacket(req.value.id, SubscribeState.SuccessQos0))
            \/ Fails(c, req) /\ UNCHANGED sent
  BY <1>0
<1>2. th[c].pc = "read" /\ UNCHANGED asked
  BY DEF Unsubscribe, At
<1>3. UnsubscribeFinds(c, r)
  BY <1>2, UnsubscribeFound
<1>4. CASE Fails(c, req) /\ UNCHANGED sent
  BY <1>2, <1>4, FailSettles
<1>5. ASSUME Fine(req), UNCHANGED <<th, connections, seen, PendingPublish, stored>>, Release,
             DeleteSubscriptions(c, ToSet(req.value.subscriptions)),
             Reply(c, NewUnSubAckPacket(req.value.id, SubscribeState.SuccessQos0))
      PROVE  Settles(c)
  <2>0. PICK filters \in Withdrawal : \E q : req = Got([id |-> 1, subscriptions |-> filters], q)
    BY <1>1, <1>3, <1>5 DEF UnsubscribeFinds
  <2>1. PICK q : req = Got([id |-> 1, subscriptions |-> filters], q)
    BY <2>0
  <2>2. PICK v : v = [id |-> 1, subscriptions |-> filters]
    OBVIOUS
  <2>3. req.value = v /\ v.id = 1
    BY <2>1, <2>2, GotIs
  <2>4. \A e \in tree' \cup seen' : e \in tree \cup seen
    BY <1>5 DEF DeleteSubscriptions, SaveOutdated
  <2>5. Told(c)
    <3>1. PICK id \in Nat, state \in Nat : id = req.value.id /\ state = SubscribeState.SuccessQos0
      BY <2>3 DEF SubscribeState
    <3>2. PICK b : b = Ack(PacketType.UNSUBACK, id, <<state>>)
      OBVIOUS
    <3>3. Reply(c, b)
      BY <1>5, <3>1, <3>2 DEF NewUnSubAckPacket
    <3> QED BY <3>2, <3>3, AckTold
  <2>6. \E t : Turned(c, t) /\ Settled(th[c], t)
    BY <1>2, <1>5, SettledSame
  <2> QED BY <1>2, <1>5, <2>4, <2>5, <2>6 DEF Settles
<1> QED BY <1>1, <1>4, <1>5

\* PINGREQ settles.
LEMMA PingSettles ==
    ASSUME IInv, NEW c \in Client, PingReq(c)
    PROVE  Settles(c)
<1>1. /\ th[c].pc = "read" /\ Reply(c, NewPingRespPacket)
      /\ UNCHANGED <<th, connections, tree, seen, PendingPublish, stored, sent, asked>>
  BY DEF PingReq, At, sessions, history
<1>2. PICK k \in Fitting : k.type = PacketType.PINGRESP /\ NewPingRespPacket = Framed(k)
  BY PingFramed, LimitAssumption
<1>3. k.type \notin {Torn.type, PacketType.PUBLISH}
  BY <1>2 DEF PacketType, Torn
<1>4. Told(c)
  BY <1>1, <1>2, <1>3, ToldReply
<1>5. \E t : Turned(c, t) /\ Settled(th[c], t)
  BY <1>1, SettledSame
<1> QED BY <1>1, <1>4, <1>5, SettlesBy

\* So does every end of a connection.
LEMMA EndSettles ==
    ASSUME IInv, NEW c \in Client, ReadError(c) \/ Disconnect(c) \/ Unsupported(c)
    PROVE  Settles(c)
<1>1. th[c].pc = "read" /\ Close(c) /\ UNCHANGED <<output, seen, PendingPublish, asked>>
  BY DEF ReadError, Disconnect, Unsupported, At, sessions, history
<1>2. /\ \E t : Turned(c, t) /\ Settled(th[c], t)
      /\ c \notin connections' /\ connections' \subseteq connections
  BY <1>1, SettledClosed
<1>3. Told(c)
  BY <1>1, ToldNothing
<1>4. CASE ReadError(c) \/ Unsupported(c)
  <2>1. UNCHANGED <<tree, stored, sent>>
    BY <1>4 DEF ReadError, Unsupported, sessions, history
  <2> QED BY <1>1, <1>2, <1>3, <2>1, SettlesBy
<1>5. CASE Disconnect(c)
  <2>1. UNCHANGED stored \/ Save(c, PendingPublish[c])
    BY <1>5 DEF Disconnect
  <2>2. Release \/ UNCHANGED <<tree, sent>>
    BY <1>5 DEF Disconnect
  <2>3. \A e \in tree' \cup seen' : e \in tree \cup seen
    BY <1>1, <1>5 DEF Disconnect, DeleteSubscriptions, SaveOutdated
  <2>4. (tree \subseteq tree' /\ sent' = sent) \/ Release
    BY <2>2
  <2> QED BY <1>1, <1>2, <1>3, <2>1, <2>3, <2>4 DEF Settles
<1> QED BY <1>4, <1>5

\* PUBLISH is taken, or does not parse.
LEMMA PublishTakes ==
    ASSUME IInv, Shape, NEW c \in Client, ReadingOf(c), Publish(c)
    PROVE  Settles(c) \/ Takes(c)
<1>0. PICK r \in Arrived(c, {PacketType.PUBLISH}) : \E p :
         /\ p = ParsePublishPacket(r.value.flags, r.value.body)
         /\ \/ /\ Fine(p) /\ UNCHANGED <<connections, output, tree, seen, stored, spent>>
               /\ \/ /\ p.value.qos > 0 /\ p.value.payload # <<>>
                     /\ PendingPublish' = [PendingPublish EXCEPT ![c] = Pend(@, p.value)]
                     /\ Handle(c, p.value, "save")
                  \/ /\ p.value.qos = 0 \/ p.value.payload = <<>>
                     /\ Handle(c, p.value, "match") /\ UNCHANGED PendingPublish
            \/ Fails(c, p)
  BY DEF Publish
<1>1. PICK p :
         /\ p = ParsePublishPacket(r.value.flags, r.value.body)
         /\ \/ /\ Fine(p) /\ UNCHANGED <<connections, output, tree, seen, stored, spent>>
               /\ \/ /\ p.value.qos > 0 /\ p.value.payload # <<>>
                     /\ PendingPublish' = [PendingPublish EXCEPT ![c] = Pend(@, p.value)]
                     /\ Handle(c, p.value, "save")
                  \/ /\ p.value.qos = 0 \/ p.value.payload = <<>>
                     /\ Handle(c, p.value, "match") /\ UNCHANGED PendingPublish
            \/ Fails(c, p)
  BY <1>0
<1>2. th[c].pc = "read" /\ UNCHANGED <<sent, asked>>
  BY DEF Publish, At, history
<1>3. PublishFinds(c, r)
  BY <1>2, PublishFound
<1>4. CASE Fails(c, p)
  BY <1>2, <1>4, FailSettles
<1>5. CASE /\ Fine(p) /\ UNCHANGED <<connections, output, tree, seen, stored, spent>>
           /\ \/ /\ p.value.qos > 0 /\ p.value.payload # <<>>
                 /\ PendingPublish' = [PendingPublish EXCEPT ![c] = Pend(@, p.value)]
                 /\ Handle(c, p.value, "save")
              \/ /\ p.value.qos = 0 \/ p.value.payload = <<>>
                 /\ Handle(c, p.value, "match") /\ UNCHANGED PendingPublish
  <2>1. PICK n \in 1..Len(sent[c]) : /\ n = th[c].read + 1
                                     /\ \E q : p = Got(Bare(sent[c][n].pub), q)
    BY <1>1, <1>3, <1>5 DEF PublishFinds
  <2>2. PICK v : v = Bare(sent[c][n].pub)
    OBVIOUS
  <2>3. p.value = v
    BY <2>1, <2>2, GotIs
  <2>4. PICK s : s = th[c]
    OBVIOUS
  <2>5. s.todo = {} /\ s.cur = {} /\ s.id = 0
    BY <1>2, <2>4, StageOf
  <2>6. ASSUME NEW label, Handle(c, v, label)
        PROVE  \/ v.payload = <<>> /\ Turned(c, Thread("read", th[c].info, n, NoPub, {}, {}, 0))
               \/ v.payload # <<>> /\ Turned(c, Thread(label, th[c].info, n, v, {}, {}, 0))
    <3>1. \/ /\ v.payload = <<>>
             /\ Turned(c, Thread("read", s.info, s.read + 1, NoPub, s.todo, s.cur, s.id))
          \/ /\ v.payload # <<>>
             /\ Turned(c, Thread(label, s.info, s.read + 1, v, s.todo, s.cur, s.id))
      BY <2>4, <2>6, HandleThread
    <3>2. PICK m : m = s.read + 1
      OBVIOUS
    <3>3. m = n
      BY <2>1, <2>4, <3>2
    <3> QED BY <2>4, <2>5, <3>1, <3>2, <3>3
  <2>7. CASE /\ v.qos > 0 /\ v.payload # <<>>
             /\ PendingPublish' = [PendingPublish EXCEPT ![c] = Pend(@, v)]
             /\ Handle(c, v, "save")
    <3>1. Turned(c, Thread("save", th[c].info, n, v, {}, {}, 0))
      <4>1. PICK label : label = "save"
        OBVIOUS
      <4>2. v.payload # <<>> /\ Handle(c, v, label)
        BY ONLY <2>7, <4>1
      <4> QED BY ONLY <2>6, <4>1, <4>2
    <3>2. Takes(c)
      BY <1>2, <1>5, <2>1, <2>2, <2>7, <3>1, Zenon DEF Takes
    <3> QED BY <3>2
  <2>8. CASE (v.qos = 0 \/ v.payload = <<>>) /\ Handle(c, v, "match") /\ UNCHANGED PendingPublish
    <3>1. \/ v.payload = <<>> /\ Turned(c, Thread("read", th[c].info, n, NoPub, {}, {}, 0))
          \/ v.payload # <<>> /\ Turned(c, Thread("match", th[c].info, n, v, {}, {}, 0))
      <4>1. PICK label : label = "match"
        OBVIOUS
      <4>2. Handle(c, v, label)
        BY ONLY <2>8, <4>1
      <4> QED BY ONLY <2>6, <4>1, <4>2
    <3>2. Takes(c)
      BY <1>2, <1>5, <2>1, <2>2, <2>8, <3>1, Zenon DEF Takes
    <3> QED BY <3>2
  <2> QED BY <1>5, <2>3, <2>7, <2>8
<1> QED BY <1>1, <1>4, <1>5

\* What a step of a handler comes to.
LEMMA HandlerDoes ==
    ASSUME IInv, Shape, NEW c \in Client, ReadingOf(c), Handler(c)
    PROVE  \/ Settles(c) \/ Takes(c)
           \/ SaveSession(c) \/ MatchTopic(c) \/ Number(c) \/ Numbering(c) \/ Deliver(c)
<1>1. CASE FirstPacket(c)
  BY <1>1, HandshakeSettles
<1>2. CASE ReadError(c) \/ Disconnect(c) \/ Unsupported(c)
  BY <1>2, EndSettles
<1>3. CASE Subscribe(c)
  BY <1>3, SubscribeSettles
<1>4. CASE Unsubscribe(c)
  BY <1>4, UnsubscribeSettles
<1>5. CASE PingReq(c)
  BY <1>5, PingSettles
<1>6. CASE Publish(c)
  BY <1>6, PublishTakes
<1> QED BY <1>1, <1>2, <1>3, <1>4, <1>5, <1>6 DEF Handler
-----------------------------------------------------------------------------
(***************************************************************************)
(* The publication in work is the one that was sent last of those read,    *)
(* and copies are of publications that were sent.                          *)
(***************************************************************************)

\* A handler is at a publication.
Works == {"save", "match", "route", "create", "return", "number", "deliver"}
\* What a session may have on record.
Record == (1..Byte * Byte - 1) \X {p.topic : p \in Publication}

\* What handler c, being t, has in work.
ThreadOK(c, t) ==
    /\ t.pc \in Works => /\ t.read \in 1..Len(sent[c]) /\ t.pub = Bare(sent[c][t.read].pub)
                         /\ t.pub.payload # <<>>
    /\ t.pc \notin Works => t.pub = NoPub
    /\ \A e \in t.todo : Backed(e) /\ e.topic = t.pub.topic
    /\ t.pc = "deliver" /\ t.id = 0 => \A e \in t.cur : ~(e.qos > 0 /\ t.pub.qos > 0)

\* What handler c has, and what is on record for c.
WorkOf(c) == ThreadOK(c, th[c]) /\ PendingPublish[c] \subseteq Record /\ stored[c] \subseteq Record

\* Copy k that was written to d is of a publication that was sent, with no more QoS than d
\* has asked for.
Genuine(k, d) ==
    /\ k.from \in Client \cup {Service} /\ k.nth \in 1..Len(sent[k.from]) /\ k.qos \in {0, 2}
    /\ k.from = Service => k.qos = 0
    /\ k.from \in Client => Original(k).payload # <<>>
    /\ k.qos > 0 => \E a \in asked : a.client = d /\ a.topic = Original(k).topic /\ a.qos >= k.qos
    /\ k.qos > 0 /\ Original(k).qos > 0 => k.id # 0

\* All copies that were written to d are.
CopiesOf(d) == \A k \in ToSet(copies[d]) : Genuine(k, d)

\* What is in work, in the tree and among the copies is what clients have sent and asked for.
Working == (\A e \in tree \cup seen : Backed(e)) /\ \A c \in Client : WorkOf(c) /\ CopiesOf(c)

\* What was asked for stays so.
LEMMA BackedStays ==
    ASSUME NEW e, Backed(e), asked \subseteq asked'
    PROVE  Backed(e)'
BY DEF Backed

\* What was sent stays sent, and the publication in work stays that.
LEMMA ThreadStays ==
    ASSUME NEW c, NEW t, ThreadOK(c, t), asked \subseteq asked', Extends(c)
    PROVE  ThreadOK(c, t)'
<1>1. \A n \in 1..Len(sent[c]) : n \in 1..Len(sent'[c]) /\ sent'[c][n].pub = sent[c][n].pub
  BY DEF Extends
<1>2. t.pc \in Works => /\ t.read \in 1..Len(sent'[c]) /\ t.pub = Bare(sent'[c][t.read].pub)
                        /\ t.pub.payload # <<>>
  BY <1>1 DEF ThreadOK
<1>3. \A e \in t.todo : Backed(e)' /\ e.topic = t.pub.topic
  BY BackedStays DEF ThreadOK
<1> QED BY <1>2, <1>3 DEF ThreadOK

\* A copy stays genuine.
LEMMA GenuineStays ==
    ASSUME NEW k, NEW d, Genuine(k, d), asked \subseteq asked', \A p \in Client \cup {Service} : Extends(p)
    PROVE  Genuine(k, d)'
<1>0. PICK p \in Client \cup {Service} : \E n : p = k.from /\ n = k.nth
  BY DEF Genuine
<1>1. PICK n : p = k.from /\ n = k.nth
  BY <1>0
<1>2. n \in 1..Len(sent[p])
  BY <1>1 DEF Genuine
<1>3. n \in 1..Len(sent'[p]) /\ sent'[p][n].pub = sent[p][n].pub
  BY <1>2 DEF Extends
<1>4. Original(k)' = Original(k)
  BY <1>1, <1>3 DEF Original
<1> QED BY <1>1, <1>3, <1>4 DEF Genuine

\* Another's step.
LEMMA WorkStays ==
    ASSUME NEW c, WorkOf(c), asked \subseteq asked', Extends(c), th'[c] = th[c],
           PendingPublish'[c] = PendingPublish[c], stored'[c] = stored[c]
    PROVE  WorkOf(c)'
<1>1. PICK t : t = th[c]
  OBVIOUS
<1>2. ThreadOK(c, t)'
  BY <1>1, ThreadStays DEF WorkOf
<1>3. ThreadOK(c, t)' <=> ThreadOK(c, th[c])'
  BY <1>1 DEF ThreadOK
<1> QED BY <1>2, <1>3 DEF WorkOf, Record

\* A step of the handler itself.
LEMMA WorkTurned ==
    ASSUME NEW c, NEW t, Turned(c, t), ThreadOK(c, t), asked \subseteq asked', Extends(c),
           PendingPublish'[c] \subseteq Record, stored'[c] \subseteq Record
    PROVE  WorkOf(c)'
<1>1. th'[c] = t /\ ThreadOK(c, t)'
  BY ThreadStays DEF Turned
<1>2. ThreadOK(c, t)' <=> ThreadOK(c, th[c])'
  BY <1>1 DEF ThreadOK
<1> QED BY <1>1, <1>2 DEF WorkOf, Record

\* What SendMessage adds to the copies.
LEMMA SentTo ==
    ASSUME IInv, NEW k \in Client, NEW from, NEW nth, NEW pub, NEW qos, NEW id,
           SendMessage(k, from, nth, pub, qos, id),
           NEW x, x = [from |-> from, nth |-> nth, qos |-> qos, id |-> id]
    PROVE  /\ x.from = from /\ x.nth = nth /\ x.qos = qos /\ x.id = id
           /\ \A d \in Client : \A y \in ToSet(copies'[d]) : y \in ToSet(copies[d]) \/ (d = k /\ y = x)
           /\ \A d \in Client : ToSet(copies[d]) \subseteq ToSet(copies'[d])
           /\ k \in connections => x \in ToSet(copies'[k])
<1>1. x.from = from /\ x.nth = nth /\ x.qos = qos /\ x.id = id
  OBVIOUS
<1>2. CASE k \in connections
  <2>1. copies' = [copies EXCEPT ![k] = Append(copies[k], x)]
    BY <1>2 DEF SendMessage
  <2>2. PICK s, r : s = copies[k] /\ r = Append(s, x)
    OBVIOUS
  <2>3. s \in Seq(ToSet(s)) /\ DOMAIN copies = Client
    BY <2>2 DEF IInv, Written
  <2>4. ToSet(r) = ToSet(s) \cup {x}
    BY ONLY <2>2, <2>3, Appended
  <2>5. copies'[k] = r /\ \A d \in Client \ {k} : copies'[d] = copies[d]
    BY <2>1, <2>2, <2>3
  <2>6. PICK S, R : S = ToSet(s) /\ R = ToSet(r)
    OBVIOUS
  <2>7. ToSet(copies[k]) = S /\ ToSet(copies'[k]) = R /\ R = S \cup {x}
    BY <2>2, <2>4, <2>5, <2>6
  <2>8. \A d \in Client \ {k} : ToSet(copies'[d]) = ToSet(copies[d])
    BY <2>5
  <2> QED BY <1>1, <2>7, <2>8
<1>3. CASE k \notin connections
  <2>1. copies' = copies
    BY <1>3 DEF SendMessage, output
  <2> QED BY <1>1, <1>3, <2>1
<1> QED BY <1>2, <1>3

\* A session is saved as it is.
LEMMA SavedRecord ==
    ASSUME Shape, NEW c \in Client, WorkOf(c), UNCHANGED stored \/ Save(c, PendingPublish[c])
    PROVE  stored'[c] \subseteq Record
BY DEF WorkOf, Save, Shape

\* A handler that settles something has nothing in work after it.
LEMMA SettlesWorks ==
    ASSUME IInv, Shape, Working, NEW c \in Client, Settles(c), Extends(c)
    PROVE  WorkOf(c)'
<1>1. PICK t : Turned(c, t) /\ Settled(th[c], t)
  BY DEF Settles
<1>2. PICK s : s = th[c]
  OBVIOUS
<1>3. ThreadOK(c, s) /\ WorkOf(c)
  BY <1>2 DEF Working, WorkOf
<1>4. t.pc \notin Works /\ s.pc \notin Works /\ t.pub \in {s.pub, NoPub} /\ t.todo = {} /\ t.cur = {}
  BY <1>1, <1>2 DEF Settled, Works
<1>5. ThreadOK(c, t)
  BY <1>3, <1>4 DEF ThreadOK
<1>6. stored'[c] \subseteq Record
  BY <1>3, SavedRecord DEF Settles
<1>7. PendingPublish'[c] \subseteq Record /\ asked' = asked
  BY <1>3 DEF Settles, WorkOf
<1> QED BY <1>1, <1>5, <1>6, <1>7, WorkTurned

\* A handler that takes a publication has the one that was sent next.
LEMMA TakesWorks ==
    ASSUME IInv, Shape, Working, NEW c \in Client, Takes(c), Extends(c)
    PROVE  WorkOf(c)'
<1>0. PICK n \in 1..Len(sent[c]) : \E p :
         /\ p = Bare(sent[c][n].pub)
         /\ \/ /\ UNCHANGED PendingPublish
               /\ Turned(c, Thread("read", th[c].info, n, NoPub, {}, {}, 0))
            \/ /\ p.payload # <<>> /\ UNCHANGED PendingPublish
               /\ Turned(c, Thread("match", th[c].info, n, p, {}, {}, 0))
            \/ /\ p.payload # <<>> /\ p.qos > 0
               /\ PendingPublish' = [PendingPublish EXCEPT ![c] = Pend(@, p)]
               /\ Turned(c, Thread("save", th[c].info, n, p, {}, {}, 0))
  BY DEF Takes
<1>1. PICK p :
         /\ p = Bare(sent[c][n].pub)
         /\ \/ /\ UNCHANGED PendingPublish
               /\ Turned(c, Thread("read", th[c].info, n, NoPub, {}, {}, 0))
            \/ /\ p.payload # <<>> /\ UNCHANGED PendingPublish
               /\ Turned(c, Thread("match", th[c].info, n, p, {}, {}, 0))
            \/ /\ p.payload # <<>> /\ p.qos > 0
               /\ PendingPublish' = [PendingPublish EXCEPT ![c] = Pend(@, p)]
               /\ Turned(c, Thread("save", th[c].info, n, p, {}, {}, 0))
  BY <1>0
<1>2. WorkOf(c) /\ stored'[c] \subseteq Record /\ asked \subseteq asked'
  BY DEF Working, WorkOf, Takes
<1>3. \E t : Turned(c, t) /\ ThreadOK(c, t)
  <2>1. CASE Turned(c, Thread("read", th[c].info, n, NoPub, {}, {}, 0))
    <3>1. PICK t, i : t = Thread("read", i, n, NoPub, {}, {}, 0) /\ i = th[c].info
      OBVIOUS
    <3>2. t.pc = "read" /\ t.pub = NoPub /\ t.todo = {} /\ t.cur = {}
      BY <3>1, ThreadFields
    <3>3. ThreadOK(c, t)
      BY <3>2 DEF ThreadOK, Works
    <3> QED BY <2>1, <3>1, <3>3
  <2>2. ASSUME NEW label \in Works, p.payload # <<>>, Turned(c, Thread(label, th[c].info, n, p, {}, {}, 0))
        PROVE  \E t : Turned(c, t) /\ ThreadOK(c, t)
    <3>1. PICK t, i : t = Thread(label, i, n, p, {}, {}, 0) /\ i = th[c].info
      OBVIOUS
    <3>2. t.pc = label /\ t.read = n /\ t.pub = p /\ t.todo = {} /\ t.cur = {}
      BY <3>1, ThreadFields
    <3>3. ThreadOK(c, t)
      BY <1>1, <2>2, <3>2 DEF ThreadOK
    <3> QED BY <2>2, <3>1, <3>3
  <2>3. "match" \in Works /\ "save" \in Works
    BY DEF Works
  <2> QED BY <1>1, <2>1, <2>2, <2>3
<1>4. PendingPublish'[c] \subseteq Record
  <2>1. CASE UNCHANGED PendingPublish
    BY <1>2, <2>1 DEF WorkOf
  <2>2. CASE p.qos > 0 /\ PendingPublish' = [PendingPublish EXCEPT ![c] = Pend(@, p)]
    <3>1. PICK x : x = sent[c][n].pub
      OBVIOUS
    <3>2. x \in Publication
      BY <3>1, PublicationOf
    <3>3. p.qos = x.qos /\ p.id = x.id /\ p.topic = x.topic
      BY <1>1, <3>1 DEF Bare
    <3>4. p.id \in 1..Byte * Byte - 1
      BY <2>2, <3>2, <3>3, PublicationAssumption DEF IsPublication
    <3>5. <<p.id, p.topic>> \in Record
      BY <3>2, <3>3, <3>4 DEF Record
    <3>6. PendingPublish'[c] = Pend(PendingPublish[c], p)
      BY <2>2 DEF Shape
    <3> QED BY <1>2, <3>5, <3>6 DEF WorkOf, Pend
  <2> QED BY <1>1, <2>1, <2>2
<1>5. PICK t : Turned(c, t) /\ ThreadOK(c, t)
  BY <1>3
<1> QED BY <1>2, <1>4, <1>5, WorkTurned, SMTT(30)

\* The session is saved.
LEMMA SaveWorks ==
    ASSUME IInv, Shape, Working, NEW c \in Client, SaveSession(c), Extends(c)
    PROVE  WorkOf(c)'
<1>1. /\ th[c].pc = "save" /\ Goto(c, "match") /\ UNCHANGED <<PendingPublish, asked>>
      /\ UNCHANGED stored \/ Save(c, PendingPublish[c])
  BY DEF SaveSession, At, history
<1>2. PICK s : s = th[c]
  OBVIOUS
<1>3. PICK t : t = Thread("match", s.info, s.read, s.pub, s.todo, s.cur, s.id)
  OBVIOUS
<1>4. Turned(c, t)
  BY <1>1, <1>2, <1>3, GotoThread
<1>5. t.pc = "match" /\ t.read = s.read /\ t.pub = s.pub /\ t.todo = s.todo /\ t.cur = s.cur /\ t.id = s.id
  BY <1>3, ThreadFields
<1>6. WorkOf(c) /\ ThreadOK(c, s)
  BY <1>2 DEF Working, WorkOf
<1>7. ThreadOK(c, t)
  BY <1>1, <1>2, <1>5, <1>6 DEF ThreadOK, Works
<1>8. stored'[c] \subseteq Record
  BY <1>1, <1>6, SavedRecord
<1>9. PendingPublish'[c] \subseteq Record
  BY <1>1, <1>6 DEF WorkOf
<1> QED BY <1>1, <1>4, <1>7, <1>8, <1>9, WorkTurned

\* The subscriptions found are to the topic of the publication.
LEMMA MatchWorks ==
    ASSUME IInv, Shape, Working, NEW c \in Client, MatchTopic(c), Extends(c)
    PROVE  WorkOf(c)'
<1>1. /\ UNCHANGED <<PendingPublish, stored, asked>>
      /\ Breaks(c) \/ \E T : Matches(c, T)
  BY MatchDoes
<1>2. PICK s : s = th[c]
  OBVIOUS
<1>3. WorkOf(c) /\ ThreadOK(c, s) /\ \A e \in tree \cup seen : Backed(e)
  BY <1>2 DEF Working, WorkOf
<1>4. PendingPublish'[c] \subseteq Record /\ stored'[c] \subseteq Record
  BY <1>1, <1>3 DEF WorkOf
<1>5. CASE Breaks(c)
  <2>1. th'[c] = th[c]
    BY <1>5 DEF Breaks
  <2> QED BY <1>1, <1>3, <2>1, WorkStays
<1>6. ASSUME NEW T, Matches(c, T) PROVE WorkOf(c)'
  <2>1. PICK t : t = Thread("route", s.info, s.read, s.pub, T, {}, 0)
    OBVIOUS
  <2>2. Turned(c, t) /\ s.pc = "match" /\ T \subseteq {e \in tree \cup seen : e.topic = s.pub.topic}
    BY <1>2, <1>6, <2>1 DEF Matches
  <2>3. t.pc = "route" /\ t.read = s.read /\ t.pub = s.pub /\ t.todo = T /\ t.cur = {}
    BY <2>1, ThreadFields
  <2>4. ThreadOK(c, t)
    BY <1>3, <2>2, <2>3 DEF ThreadOK, Works
  <2> QED BY <1>1, <1>4, <2>2, <2>4, WorkTurned
<1> QED BY <1>1, <1>5, <1>6

\* A subscription is served next, or none is left; without a QoS it needs no identifier.
LEMMA NumberWorks ==
    ASSUME IInv, Shape, Working, NEW c \in Client, Number(c), Extends(c)
    PROVE  WorkOf(c)'
<1>1. th[c].pc = "route" /\ UNCHANGED <<PendingPublish, stored, asked>>
  BY DEF Number, At, sessions, history
<1>2. PICK s : s = th[c]
  OBVIOUS
<1>3. WorkOf(c) /\ ThreadOK(c, s)
  BY <1>2 DEF Working, WorkOf
<1>4. \E t : Turned(c, t) /\ ThreadOK(c, t)
  <2>1. CASE s.todo = {} /\ th' = [th EXCEPT ![c].pc = "read", ![c].pub = NoPub]
    <3>1. PICK t : t = Thread("read", s.info, s.read, NoPub, s.todo, s.cur, s.id)
      OBVIOUS
    <3>2. Turned(c, t)
      BY <1>2, <2>1, <3>1, DoneThread
    <3>3. t.pc = "read" /\ t.pub = NoPub /\ t.todo = s.todo /\ t.cur = s.cur
      BY <3>1, ThreadFields
    <3>4. ThreadOK(c, t)
      BY <2>1, <3>3 DEF ThreadOK, Works
    <3> QED BY <3>2, <3>4
  <2>2. ASSUME NEW e \in s.todo, NEW x \in {"create", "return", "deliver"},
               x = "deliver" => ~(e.qos > 0 /\ s.pub.qos > 0),
               th' = [th EXCEPT ![c].pc = x, ![c].cur = {e}]
        PROVE  \E t : Turned(c, t) /\ ThreadOK(c, t)
    <3>1. PICK C : C = {e}
      OBVIOUS
    <3>2. PICK t : t = Thread(x, s.info, s.read, s.pub, s.todo, C, s.id)
      OBVIOUS
    <3>3. Turned(c, t)
      BY <1>2, <2>2, <3>1, <3>2, NumberThread
    <3>4. t.pc = x /\ t.read = s.read /\ t.pub = s.pub /\ t.todo = s.todo /\ t.cur = C
      BY <3>2, ThreadFields
    <3>5. ThreadOK(c, t)
      BY <1>1, <1>2, <1>3, <2>2, <3>1, <3>4 DEF ThreadOK, Works
    <3> QED BY <3>3, <3>5
  <2>3. CASE \E e \in s.todo : \E x \in {"create", "return", "deliver"} :
                /\ x = "deliver" => ~(e.qos > 0 /\ s.pub.qos > 0)
                /\ th' = [th EXCEPT ![c].pc = x, ![c].cur = {e}]
    BY <2>2, <2>3
  <2>4. \/ s.todo = {} /\ th' = [th EXCEPT ![c].pc = "read", ![c].pub = NoPub]
        \/ \E e \in s.todo : \E x \in {"create", "return", "deliver"} :
              /\ x = "deliver" => ~(e.qos > 0 /\ s.pub.qos > 0)
              /\ th' = [th EXCEPT ![c].pc = x, ![c].cur = {e}]
    BY <1>2, SMTT(30) DEF Number
  <2> QED BY <2>1, <2>3, <2>4
<1>5. PICK t : Turned(c, t) /\ ThreadOK(c, t)
  BY <1>4
<1>6. PendingPublish'[c] \subseteq Record /\ stored'[c] \subseteq Record
  BY <1>1, <1>3 DEF WorkOf
<1> QED BY <1>1, <1>5, <1>6, WorkTurned

\* An identifier is not 0.
LEMMA NumberingWorks ==
    ASSUME IInv, Shape, Working, NEW c \in Client, Numbering(c), Extends(c)
    PROVE  WorkOf(c)'
<1>1. UNCHANGED <<PendingPublish, stored, asked>>
  BY DEF Numbering, sessions, history
<1>2. PICK s : s = th[c]
  OBVIOUS
<1>3. WorkOf(c) /\ ThreadOK(c, s) /\ s.pc \in {"create", "return", "number"}
  BY <1>2, NumberingThread DEF Working, WorkOf
<1>4. PICK x \in {"return", "number", "deliver"}, n \in Nat :
         /\ Turned(c, Thread(x, s.info, s.read, s.pub, s.todo, s.cur, n))
         /\ IF x = "deliver" THEN n # 0 ELSE n = 0
  BY <1>2, NumberingThread
<1>5. PICK t : t = Thread(x, s.info, s.read, s.pub, s.todo, s.cur, n)
  OBVIOUS
<1>6. t.pc = x /\ t.read = s.read /\ t.pub = s.pub /\ t.todo = s.todo /\ t.cur = s.cur /\ t.id = n
  BY <1>5, ThreadFields
<1>7. ThreadOK(c, t)
  BY <1>3, <1>4, <1>6 DEF ThreadOK, Works
<1>8. PendingPublish'[c] \subseteq Record /\ stored'[c] \subseteq Record
  BY <1>1, <1>3 DEF WorkOf
<1> QED BY <1>1, <1>4, <1>5, <1>7, <1>8, WorkTurned

\* What is left to be served is less.
LEMMA DeliverWorks ==
    ASSUME IInv, Shape, Working, NEW c \in Client, Deliver(c), Extends(c)
    PROVE  WorkOf(c)'
<1>1. PICK e \in th[c].cur :
         th' = [th EXCEPT ![c].pc = "route", ![c].cur = {}, ![c].id = 0, ![c].todo = @ \ {e}]
  BY DEF Deliver
<1>2. th[c].pc = "deliver" /\ UNCHANGED <<PendingPublish, stored, asked>>
  BY DEF Deliver, At, sessions, history
<1>3. PICK s : s = th[c]
  OBVIOUS
<1>4. WorkOf(c) /\ ThreadOK(c, s)
  BY <1>3 DEF Working, WorkOf
<1>5. PICK T : T = s.todo \ {e}
  OBVIOUS
<1>6. PICK t : t = Thread("route", s.info, s.read, s.pub, T, {}, 0)
  OBVIOUS
<1>7. Turned(c, t)
  BY <1>1, <1>3, <1>5, <1>6, DeliverThread
<1>8. t.pc = "route" /\ t.read = s.read /\ t.pub = s.pub /\ t.todo = T /\ t.cur = {}
  BY <1>6, ThreadFields
<1>9. ThreadOK(c, t)
  BY <1>2, <1>3, <1>4, <1>5, <1>8 DEF ThreadOK, Works
<1>10. PendingPublish'[c] \subseteq Record /\ stored'[c] \subseteq Record
  BY <1>2, <1>4 DEF WorkOf
<1> QED BY <1>2, <1>7, <1>9, <1>10, WorkTurned
-----------------------------------------------------------------------------
(***************************************************************************)
(* Copies are genuine: types, the QoS and the identifiers.                 *)
(***************************************************************************)

\* Deliver hands over a copy of the publication in work.
DeliverIs(c, e, x) ==
    /\ e \in th[c].cur /\ th[c].pc = "deliver" /\ e.client \in Client
    /\ SendMessage(e.client, c, th[c].read, th[c].pub, e.qos, th[c].id)
    /\ x = [from |-> c, nth |-> th[c].read, qos |-> e.qos, id |-> th[c].id]
    /\ th' = [th EXCEPT ![c].pc = "route", ![c].cur = {}, ![c].id = 0, ![c].todo = @ \ {e}]
    /\ UNCHANGED <<connections, tree, PendingPublish, stored, sent, asked, spent>>

\* That is what Deliver does.
LEMMA DeliverDoes ==
    ASSUME IInv, Working, NEW c \in Client, Deliver(c)
    PROVE  \E e, x : DeliverIs(c, e, x)
<1>1. PICK e \in th[c].cur :
         /\ Copy(c, e)
         /\ th' = [th EXCEPT ![c].pc = "route", ![c].cur = {}, ![c].id = 0, ![c].todo = @ \ {e}]
  BY DEF Deliver
<1>2. e \in th[c].todo
  BY <1>1, StageOf
<1>3. e.client \in Client
  BY <1>2 DEF Working, WorkOf, ThreadOK, Backed
<1>4. th[c].pc = "deliver" /\ UNCHANGED <<connections, tree, PendingPublish, stored, sent, asked, spent>>
  BY DEF Deliver, At, sessions, history
<1>5. PICK x : x = [from |-> c, nth |-> th[c].read, qos |-> e.qos, id |-> th[c].id]
  OBVIOUS
<1> QED BY <1>1, <1>3, <1>4, <1>5 DEF DeliverIs, Copy

\* The copy is genuine.
LEMMA DeliverGenuine ==
    ASSUME IInv, Shape, Working, NEW c \in Client, NEW e, NEW x, DeliverIs(c, e, x)
    PROVE  Genuine(x, e.client) /\ x.from = c /\ x.nth = th[c].read /\ x.qos = e.qos /\ x.id = th[c].id
<1>1. PICK s, d : s = th[c] /\ d = e.client
  OBVIOUS
<1>2. e \in s.todo /\ e \in s.cur /\ s.pc = "deliver"
  BY <1>1, StageOf DEF DeliverIs
<1>3. ThreadOK(c, s)
  BY <1>1 DEF Working, WorkOf
<1>4. PICK n \in 1..Len(sent[c]) : n = s.read
  BY <1>2, <1>3 DEF ThreadOK, Works
<1>5. PICK p : p = sent[c][n].pub
  OBVIOUS
<1>6. s.pub = Bare(p) /\ s.pub.payload # <<>>
  BY <1>2, <1>3, <1>4, <1>5 DEF ThreadOK, Works
<1>7. s.pub.qos = p.qos /\ s.pub.topic = p.topic /\ s.pub.payload = p.payload
  BY <1>6 DEF Bare
<1>8. x.from = c /\ x.nth = n /\ x.qos = e.qos /\ x.id = s.id
  BY <1>1, <1>4 DEF DeliverIs
<1>9. Original(x) = p
  BY <1>5, <1>8 DEF Original
<1>10. Backed(e) /\ e.topic = p.topic /\ (e.qos > 0 /\ p.qos > 0 => s.id # 0)
  BY <1>2, <1>3, <1>7 DEF ThreadOK
<1>11. c # Service
  BY ClientAssumption
<1>12. Genuine(x, d)
  BY <1>1, <1>4, <1>6, <1>7, <1>8, <1>9, <1>10, <1>11 DEF Genuine, Backed
<1> QED BY <1>1, <1>4, <1>8, <1>12

\* So is what the gRPC service sends.
ServiceIs(k, p, x) ==
    /\ p \in Switch /\ x = [from |-> Service, nth |-> Len(sent[Service]) + 1, qos |-> 0, id |-> 0]
    /\ SendMessage(k, Service, Len(sent[Service]) + 1, p, 0, 0)
    /\ sent'[Service] = Append(sent[Service], [pub |-> p, due |-> {k}])
    /\ \A c \in Client : sent'[c] = sent[c]
    /\ \A d \in Client : th[d].pc # "first"

\* That is what SetDevicesState does.
LEMMA ServiceDoes ==
    ASSUME Shape, NEW k, ServiceLeaves(k)
    PROVE  \E p, x : ServiceIs(k, p, x)
<1>1. PICK p \in Switch :
         /\ SendMessage(k, Service, Len(sent[Service]) + 1, p, 0, 0)
         /\ sent' = [sent EXCEPT ![Service] = Append(sent[Service], [pub |-> p, due |-> {k}])]
  BY DEF ServiceLeaves
<1>2. /\ sent'[Service] = Append(sent[Service], [pub |-> p, due |-> {k}])
      /\ \A c \in Client : sent'[c] = sent[c]
  BY <1>1, ClientAssumption DEF Shape
<1>3. PICK x : x = [from |-> Service, nth |-> Len(sent[Service]) + 1, qos |-> 0, id |-> 0]
  OBVIOUS
<1> QED BY <1>1, <1>2, <1>3 DEF ServiceIs, ServiceLeaves

\* The copy is genuine.
LEMMA ServiceGenuine ==
    ASSUME Shape, NEW k \in Client, NEW p, NEW x, ServiceIs(k, p, x)
    PROVE  /\ Genuine(x, k)' /\ x.from = Service /\ x.nth = Len(sent[Service]) + 1 /\ x.qos = 0 /\ x.id = 0
           /\ sent'[Service][x.nth].pub = p
<1>1. PICK s, y, r, n : /\ s = sent[Service] /\ y = [pub |-> p, due |-> {k}] /\ r = Append(s, y)
                        /\ n = Len(s) + 1
  OBVIOUS
<1>2. s \in Seq(Posts(Switch)) /\ p \in Switch
  BY <1>1 DEF Shape, ServiceIs
<1>3. y \in Posts(Switch) /\ y.pub = p
  BY <1>1, <1>2, PostIs
<1>4. Len(r) = n /\ n \in Nat /\ n >= 1 /\ r[n] = y
  BY <1>1, <1>2, <1>3, Grown
<1>5. sent'[Service] = r
  BY <1>1 DEF ServiceIs
<1>6. x.from = Service /\ x.nth = n /\ x.qos = 0 /\ x.id = 0
  BY <1>1 DEF ServiceIs
<1>7. Service \notin Client
  BY ClientAssumption
<1>8. Genuine(x, k)'
  BY <1>4, <1>5, <1>6, <1>7 DEF Genuine
<1> QED BY <1>1, <1>3, <1>4, <1>5, <1>6, <1>8

\* Where the copies are then.
Handed(k, x) ==
    /\ \A d \in Client : \A y \in ToSet(copies'[d]) : y \in ToSet(copies[d]) \/ (d = k /\ y = x)
    /\ \A d \in Client : ToSet(copies[d]) \subseteq ToSet(copies'[d])
    /\ k \in connections => x \in ToSet(copies'[k])

\* SendMessage hands over one copy, to whom is connected.
LEMMA HandedBy ==
    ASSUME IInv, NEW k \in Client, NEW from, NEW nth, NEW pub, NEW qos, NEW id,
           SendMessage(k, from, nth, pub, qos, id),
           NEW x, x = [from |-> from, nth |-> nth, qos |-> qos, id |-> id]
    PROVE  Handed(k, x)
BY SentTo DEF Handed

\* Deliver does.
LEMMA DeliverHands ==
    ASSUME IInv, NEW c, NEW e, NEW x, DeliverIs(c, e, x)
    PROVE  Handed(e.client, x)
<1>0. PICK k \in Client : \E nth, pub, qos, id :
         k = e.client /\ nth = th[c].read /\ pub = th[c].pub /\ qos = e.qos /\ id = th[c].id
  BY DEF DeliverIs
<1>1. PICK nth, pub, qos, id :
         k = e.client /\ nth = th[c].read /\ pub = th[c].pub /\ qos = e.qos /\ id = th[c].id
  BY <1>0
<1>2. SendMessage(k, c, nth, pub, qos, id) /\ x = [from |-> c, nth |-> nth, qos |-> qos, id |-> id]
  BY <1>1 DEF DeliverIs
<1>3. Handed(k, x)
  BY <1>2, HandedBy
<1> QED BY <1>1, <1>3

\* SetDevicesState does.
LEMMA ServiceHands ==
    ASSUME IInv, NEW k \in Client, NEW p, NEW x, ServiceIs(k, p, x)
    PROVE  Handed(k, x)
<1>1. PICK nth, zero : nth = Len(sent[Service]) + 1 /\ zero = 0
  OBVIOUS
<1>2. SendMessage(k, Service, nth, p, zero, zero)
      /\ x = [from |-> Service, nth |-> nth, qos |-> zero, id |-> zero]
  BY <1>1 DEF ServiceIs
<1> QED BY <1>2, HandedBy

\* It is so at first.
LEMMA WorkingInit == Init => Working
<1> SUFFICES ASSUME Init PROVE Working
  OBVIOUS
<1>1. tree = {} /\ seen = {}
  BY DEF Init
<1>2. ASSUME NEW c \in Client PROVE WorkOf(c) /\ CopiesOf(c)
  <2>1. th[c] = Start /\ PendingPublish[c] = {} /\ stored[c] = {} /\ copies[c] = <<>>
    BY <1>2 DEF Init
  <2>2. ThreadOK(c, th[c])
    BY <2>1 DEF ThreadOK, Start, Works
  <2>3. ToSet(copies[c]) = {}
    BY <2>1 DEF ToSet
  <2> QED BY <2>1, <2>2, <2>3 DEF WorkOf, CopiesOf
<1> QED BY <1>1, <1>2 DEF Working

\* And after every step of a handler.
LEMMA WorkingHandler ==
    ASSUME IInv, Shape, Reading, Working, NEW c \in Client, Handler(c),
           \A p \in Client \cup {Service} : Extends(p)
    PROVE  Working'
<1>1. HandlerLeaves(c)
  BY HandlerKeeps DEF Shape
<1>2. ReadingOf(c)
  BY DEF Reading
<1>3. \/ Settles(c) \/ Takes(c) \/ SaveSession(c) \/ MatchTopic(c) \/ Number(c) \/ Numbering(c)
      \/ Deliver(c)
  BY <1>2, HandlerDoes
<1>4. asked' = asked
  BY <1>1 DEF HandlerLeaves
<1>5. WorkOf(c)'
  BY <1>3, SettlesWorks, TakesWorks, SaveWorks, MatchWorks, NumberWorks, NumberingWorks, DeliverWorks
<1>6. ASSUME NEW d \in Client \ {c} PROVE WorkOf(d)'
  <2>1. th'[d] = th[d] /\ PendingPublish'[d] = PendingPublish[d] /\ stored'[d] = stored[d]
    BY <1>1 DEF HandlerLeaves, Only, IInv, Handlers, Shape
  <2> QED BY <1>4, <2>1, WorkStays DEF Working
<1>7. \A e \in tree' \cup seen' : Backed(e)'
  <2>1. UNCHANGED <<tree, seen>> \/ Settles(c)
    BY <1>3 DEF Takes, SaveSession, MatchTopic, Number, Numbering, Deliver, sessions
  <2>2. \A e \in tree' \cup seen' : Backed(e)
    BY <2>1 DEF Working, Settles
  <2> QED BY <1>4, <2>2, BackedStays, SMTT(30)
<1>8. ASSUME NEW d \in Client PROVE CopiesOf(d)'
  <2>1. CASE copies' = copies
    BY <1>4, <2>1, GenuineStays DEF Working, CopiesOf
  <2>2. CASE Deliver(c)
    <3>1. PICK e, x : DeliverIs(c, e, x)
      BY <2>2, DeliverDoes
    <3>2. Genuine(x, e.client)
      BY <3>1, DeliverGenuine
    <3>3. \A y \in ToSet(copies'[d]) : y \in ToSet(copies[d]) \/ (d = e.client /\ y = x)
      BY <3>1, DeliverHands DEF Handed
    <3>4. \A y \in ToSet(copies'[d]) : Genuine(y, d)
      BY <3>2, <3>3, SMTT(30) DEF Working, CopiesOf
    <3> QED BY <1>4, <3>4, GenuineStays DEF CopiesOf
  <2>3. copies' = copies \/ Deliver(c)
    BY <1>3 DEF Settles, Told, Takes, SaveSession, MatchTopic, Number, Numbering, output
  <2> QED BY <2>1, <2>2, <2>3
<1> QED BY <1>5, <1>6, <1>7, <1>8 DEF Working

\* And after every step.
LEMMA WorkingStep ==
    ASSUME IInv, Shape, Reading, Working, [Next]_vars
    PROVE  Working'
<1>1. \A p \in Client \cup {Service} : Extends(p)
  BY ShapeStep
<1>2. ASSUME asked \subseteq asked', UNCHANGED <<th, tree, seen, PendingPublish, stored>>
      PROVE  (\A e \in tree' \cup seen' : Backed(e)') /\ \A c \in Client : WorkOf(c)'
  BY <1>1, <1>2, BackedStays, WorkStays DEF Working
<1>3. ASSUME asked \subseteq asked', UNCHANGED copies
      PROVE  \A c \in Client : CopiesOf(c)'
  BY <1>1, <1>3, GenuineStays DEF Working, CopiesOf
<1>4. CASE UNCHANGED vars
  BY <1>2, <1>3, <1>4 DEF vars, broker, output, sessions, history, Working
<1>5. ASSUME NEW c \in Client, Handler(c) PROVE Working'
  BY <1>1, <1>5, WorkingHandler
<1>6. ASSUME NEW c \in Client, Peer(c) PROVE Working'
  <2>1. PeerLeaves(c)
    BY <1>6, PeerKeeps DEF Shape
  <2>2. asked \subseteq asked' /\ UNCHANGED <<th, tree, seen, PendingPublish, stored, copies>>
    BY <2>1 DEF PeerLeaves, broker, output, sessions
  <2> QED BY <1>2, <1>3, <2>2 DEF Working
<1>7. ASSUME NEW k \in Client, SetDevicesState(k) PROVE Working'
  <2>1. ServiceLeaves(k)
    BY <1>7, ServiceKeeps DEF Shape
  <2>2. UNCHANGED <<th, tree, seen, PendingPublish, stored, asked>>
    BY <2>1 DEF ServiceLeaves, sessions
  <2>3. PICK p, x : ServiceIs(k, p, x)
    BY <2>1, ServiceDoes
  <2>4. Genuine(x, k)'
    BY <2>3, ServiceGenuine
  <2>5. ASSUME NEW d \in Client PROVE CopiesOf(d)'
    <3>1. \A y \in ToSet(copies'[d]) : y \in ToSet(copies[d]) \/ (d = k /\ y = x)
      BY <2>3, ServiceHands DEF Handed
    <3>2. \A y \in ToSet(copies[d]) : Genuine(y, d)'
      BY <1>1, <2>2, GenuineStays DEF Working, CopiesOf
    <3> QED BY <2>4, <3>1, <3>2 DEF CopiesOf
  <2> QED BY <1>2, <2>2, <2>5 DEF Working
<1> QED BY <1>4, <1>5, <1>6, <1>7 DEF Next, Rest

\* In every reachable state the publication that a handler has in work is the one its client
\* sent as the last of those read, and every copy that was written is of a publication that
\* was sent, to a subscriber that has asked for it.
THEOREM WorkingHolds == Spec => []Working
<1>1. IInv /\ Shape /\ Reading /\ Working /\ [Next]_vars => Working'
  BY WorkingStep
<1> QED BY <1>1, WorkingInit, ReadingHolds, ShapeHolds, Invariant, PTL DEF Spec

\* Type correctness, in every reachable state; with it that the connection map has the
\* clients whose handler is neither before the handshake nor at the end, and that the
\* subscriptions a handler serves are to the topic of its publication.
THEOREM TypesOK == Spec => []TypeOK
<1>1. IInv /\ Shape /\ Reading /\ Working => TypeOK
  <2> SUFFICES ASSUME IInv, Shape, Reading, Working PROVE TypeOK
    OBVIOUS
  <2>1. /\ connections \subseteq Client /\ behaved \subseteq Client /\ currentID \in Seq(Nat \ {0})
        /\ crashed \in {"no", "nil", "slice"} /\ spent \in Budget
    BY DEF IInv, Handlers, Counters, Shape
  <2>2. \A e \in tree \cup seen : e.client \in Client /\ e.qos \in {0, 2}
    BY DEF Working, Backed
  <2>3. ASSUME NEW c \in Client
        PROVE  /\ th[c].pc \in {"first", "read", "closed"} \cup AtWork
               /\ c \in connections <=> th[c].pc \notin {"first", "closed"}
               /\ IsPub(th[c].pub)
               /\ th[c].pc \in AtWork => th[c].pub.payload # <<>>
               /\ manager[c] \in IF th[c].pc = "number" THEN DOMAIN currentID ELSE {0}
               /\ th[c].cur \subseteq th[c].todo
               /\ \A e \in th[c].todo : e.topic = th[c].pub.topic
               /\ th[c].read \in 0..Len(sent[c])
               /\ stored[c] \in SUBSET ((1..Byte * Byte - 1) \X {e.topic : e \in Publication})
    <3>1. ReadingOf(c) /\ WorkOf(c) /\ ThreadOK(c, th[c])
      BY DEF Reading, Working, WorkOf
    <3>2. IsPub(th[c].pub)
      <4>1. CASE th[c].pc \in Works
        <5>1. PICK n \in 1..Len(sent[c]) : n = th[c].read
          BY <3>1, <4>1 DEF ThreadOK
        <5>2. PICK p : p = sent[c][n].pub
          OBVIOUS
        <5>3. IsPublication(p) /\ th[c].pub = Bare(p)
          BY <3>1, <4>1, <5>1, <5>2, PublicationOf, PublicationAssumption DEF ThreadOK
        <5>4. p.qos \in 0..2 /\ p.id \in 0..Byte * Byte - 1
          BY <5>3, PacketsAssumption DEF IsPublication
        <5> QED BY <5>3, <5>4 DEF IsPub, Bare, NoPub
      <4>2. CASE th[c].pc \notin Works
        <5>1. th[c].pub = NoPub
          BY <3>1, <4>2 DEF ThreadOK
        <5>2. 0 \in 0..Byte * Byte - 1
          <6>1. Byte \in Nat \ {0} /\ Byte > 1
            BY PacketsAssumption
          <6> QED BY <6>1
        <5>3. NoPub.qos = 0 /\ NoPub.id = 0
          BY DEF NoPub
        <5> QED BY <5>1, <5>2, <5>3 DEF IsPub
      <4> QED BY <4>1, <4>2
    <3>3. /\ th[c].cur \subseteq th[c].todo
          /\ manager[c] \in IF th[c].pc = "number" THEN DOMAIN currentID ELSE {0}
      <4>1. th[c].cur \subseteq th[c].todo
        BY DEF IInv, Handlers, Stage
      <4>2. DOMAIN currentID = 1..Len(currentID)
        BY <2>1
      <4> QED BY <4>1, <4>2 DEF IInv, Counters
    <3>4. Labels = {"first", "read", "closed"} \cup AtWork /\ Works = AtWork
      BY DEF Labels, Works, AtWork
    <3> QED BY <3>1, <3>2, <3>3, <3>4 DEF ReadingOf, WorkOf, ThreadOK, Record
  <2> QED BY <2>1, <2>2, <2>3 DEF TypeOK, Budget
<1> QED BY <1>1, WorkingHolds, ReadingHolds, ShapeHolds, Invariant, PTL

\* In every reachable state no copy that HandlePublishPacket has written has a higher QoS
\* than its subscriber has asked for, whatever the byte in SUBSCRIBE was.
THEOREM AsAsked == Spec => []QoSAsAsked
<1>1. IInv /\ Working => QoSAsAsked
  <2> SUFFICES ASSUME IInv, Working, NEW c \in Client, NEW i \in DOMAIN copies[c], NEW k, k = copies[c][i], k.qos > 0
               PROVE  \E a \in asked : a.client = c /\ a.topic = Original(k).topic /\ a.qos >= k.qos
    BY DEF QoSAsAsked
  <2>1. k \in ToSet(copies[c])
    BY DEF ToSet
  <2> QED BY <2>1 DEF Working, CopiesOf, Genuine
<1> QED BY <1>1, WorkingHolds, Invariant, PTL

\* In every reachable state a copy with QoS 2 of a publication with a QoS has an identifier
\* other than 0, however many identifier managers a racing creation has made, and no two copies
\* have the same one as long as it has made one.
THEOREM CopiesNumbered == Spec => []NumberedApart
<1>1. IInv /\ Working => Numbered
  <2> SUFFICES ASSUME IInv, Working PROVE Numbered
    OBVIOUS
  <2>1. ASSUME NEW c \in Client, NEW i \in DOMAIN copies[c], NEW k, k = copies[c][i],
               k.qos > 0, Original(k).qos > 0
        PROVE  k.id # 0
    <3>1. k \in ToSet(copies[c])
      BY <2>1 DEF ToSet
    <3> QED BY <2>1, <3>1 DEF Working, CopiesOf, Genuine
  <2> QED BY <2>1 DEF Numbered
<1>2. Numbered /\ (OneManager => Apart) => NumberedApart
  BY DEF NumberedApart
<1> QED BY <1>1, <1>2, CopiesApart, WorkingHolds, Invariant, PTL
-----------------------------------------------------------------------------
(***************************************************************************)
(* A publication is on record from when its handler goes on to its         *)
(* subscribers.                                                            *)
(***************************************************************************)

\* What a session must have on record.
Weighty(p) == p.qos > 0 /\ p.payload # <<>>

\* Among pairs there is what PUBLISH number n of c has put there, or what a later one with
\* its identifier has, up to the last.
RecordedIn(c, n, last, pairs) ==
    \E m \in n..last : LET later == sent[c][m].pub IN
        later.id = sent[c][n].pub.id /\ <<later.id, later.topic>> \in pairs

\* Handler c, being t, with P in its session and D in the database after E errors.
RecordFor(c, t, P, D, E) ==
    \A n \in 1..t.read : Weighty(sent[c][n].pub) =>
        /\ RecordedIn(c, n, t.read, P)
        /\ E = 0 /\ ~t.info.CleanSession /\ (n < t.read \/ t.pc # "save") => RecordedIn(c, n, t.read, D)

\* The record is kept for c.
RecordOf(c) == RecordFor(c, th[c], PendingPublish[c], stored[c], spent.errors)
Recorded == \A c \in Client : RecordOf(c)

\* The record depends on the count and the errors alone.
LEMMA RecordSame ==
    ASSUME NEW c, NEW s, NEW P, NEW D, NEW E, RecordFor(c, s, P, D, E), s.pc # "save",
           NEW t, t.read = s.read, t.info = s.info, NEW E2, E2 = 0 => E = 0
    PROVE  RecordFor(c, t, P, D, E2)
BY DEF RecordFor

\* After a save the database has what the session has.
LEMMA RecordSaved ==
    ASSUME NEW c, NEW s, NEW P, NEW D, NEW E, RecordFor(c, s, P, D, E), NEW t, t.read = s.read, NEW E2
    PROVE  RecordFor(c, t, P, P, E2)
BY DEF RecordFor

\* After an error, and for a temporary session, the database need not have it.
LEMMA RecordFree ==
    ASSUME NEW c, NEW s, NEW P, NEW D, NEW E, RecordFor(c, s, P, D, E), NEW t, t.read = s.read,
           NEW E2, E2 # 0 \/ t.info.CleanSession
    PROVE  RecordFor(c, t, P, D, E2)
BY DEF RecordFor

\* What has been sent grows.
LEMMA RecordStays ==
    ASSUME NEW c, NEW t, NEW P, NEW D, NEW E, RecordFor(c, t, P, D, E), Extends(c), t.read \in 0..Len(sent[c])
    PROVE  RecordFor(c, t, P, D, E)'
<1>1. /\ Len(sent[c]) \in Nat /\ t.read \in Nat
      /\ \A n \in 1..t.read : sent'[c][n].pub = sent[c][n].pub
  BY DEF Extends
<1>2. ASSUME NEW n \in 1..t.read, NEW X, RecordedIn(c, n, t.read, X) PROVE RecordedIn(c, n, t.read, X)'
  <2>1. PICK m \in n..t.read : LET later == sent[c][m].pub IN
           later.id = sent[c][n].pub.id /\ <<later.id, later.topic>> \in X
    BY <1>2 DEF RecordedIn
  <2>2. m \in 1..t.read
    BY <1>1
  <2>3. sent'[c][m].pub = sent[c][m].pub /\ sent'[c][n].pub = sent[c][n].pub
    BY <1>1, <2>2
  <2> QED BY <2>1, <2>3 DEF RecordedIn
<1>3. \A n \in 1..t.read : sent'[c][n].pub = sent[c][n].pub
  BY <1>1
<1>4. ASSUME NEW n \in 1..t.read, Weighty(sent'[c][n].pub)
      PROVE  /\ RecordedIn(c, n, t.read, P)'
             /\ E = 0 /\ ~t.info.CleanSession /\ (n < t.read \/ t.pc # "save") => RecordedIn(c, n, t.read, D)'
  <2>1. Weighty(sent[c][n].pub)
    BY <1>3, <1>4
  <2> QED BY <1>2, <2>1 DEF RecordFor
<1> QED BY <1>4 DEF RecordFor, Weighty

\* A step of the handler itself.
LEMMA RecordTurned ==
    ASSUME NEW c, NEW t, Turned(c, t), Extends(c), t.read \in 0..Len(sent[c]), NEW P, NEW D, NEW E,
           P = PendingPublish'[c], D = stored'[c], E = spent'.errors, RecordFor(c, t, P, D, E)
    PROVE  RecordOf(c)'
<1>1. RecordFor(c, t, P, D, E)'
  BY RecordStays
<1>2. th'[c] = t
  BY DEF Turned
<1>3. RecordFor(c, t, P, D, E)' <=> RecordOf(c)'
  BY <1>2 DEF RecordFor, RecordedIn, RecordOf, Weighty
<1> QED BY <1>1, <1>3

\* Another's.
LEMMA RecordKept ==
    ASSUME NEW c, RecordOf(c), Extends(c), th[c].read \in 0..Len(sent[c]), th'[c] = th[c],
           PendingPublish'[c] = PendingPublish[c], stored'[c] = stored[c],
           spent'.errors = 0 => spent.errors = 0
    PROVE  RecordOf(c)'
<1>1. PICK t, P, D, E, F : /\ t = th[c] /\ P = PendingPublish[c] /\ D = stored[c] /\ E = spent.errors
                           /\ F = spent'.errors
  OBVIOUS
<1>2. RecordFor(c, t, P, D, E)
  BY <1>1 DEF RecordOf
<1>3. RecordFor(c, t, P, D, F)
  BY <1>1, <1>2 DEF RecordFor
<1>4. RecordFor(c, t, P, D, F)'
  BY <1>1, <1>3, RecordStays
<1>5. RecordFor(c, t, P, D, F)' <=> RecordOf(c)'
  BY <1>1 DEF RecordFor, RecordedIn, RecordOf, Weighty
<1> QED BY <1>4, <1>5

\* Later publications may replace the record.
LEMMA RecordMore ==
    ASSUME NEW c, NEW n \in Nat, NEW last \in Nat, NEW pairs, RecordedIn(c, n, last, pairs), NEW next, next = last + 1
    PROVE  RecordedIn(c, n, next, pairs)
<1>1. \A m \in n..last : m \in n..next
  OBVIOUS
<1> QED BY <1>1 DEF RecordedIn

\* The next publication.
LEMMA RecordTaken ==
    ASSUME NEW c, NEW s, NEW P, NEW D, NEW E, RecordFor(c, s, P, D, E), s.read \in Nat, s.pc # "save",
           NEW t, NEW next, next = s.read + 1, t.read = next, t.info = s.info,
           NEW p, p = sent[c][next].pub, NEW Q,
           \/ ~Weighty(p) /\ Q = P
           \/ t.pc = "save" /\ Q = Pend(P, p)
    PROVE  RecordFor(c, t, Q, D, E)
<1>1. ASSUME NEW n \in 1..next, Weighty(sent[c][n].pub)
      PROVE  /\ RecordedIn(c, n, next, Q)
             /\ E = 0 /\ ~t.info.CleanSession /\ (n < next \/ t.pc # "save") => RecordedIn(c, n, next, D)
  <2>1. CASE n = next
    <3>1. t.pc = "save" /\ Q = Pend(P, p)
      BY <1>1, <2>1
    <3>2. RecordedIn(c, n, next, Q)
      <4>1. next \in n..next
        BY <2>1
      <4>2. <<p.id, p.topic>> \in Q
        BY <3>1 DEF Pend
      <4> QED BY <2>1, <4>1, <4>2 DEF RecordedIn
    <3> QED BY <2>1, <3>1, <3>2
  <2>2. CASE n # next
    <3>1. n \in 1..s.read /\ n \in Nat /\ s.read \in Nat
      BY <2>2
    <3>2. /\ RecordedIn(c, n, s.read, P)
          /\ E = 0 /\ ~t.info.CleanSession => RecordedIn(c, n, s.read, D)
      BY <1>1, <3>1 DEF RecordFor
    <3>3. /\ RecordedIn(c, n, next, P)
          /\ E = 0 /\ ~t.info.CleanSession => RecordedIn(c, n, next, D)
      BY <3>1, <3>2, RecordMore
    <3>4. RecordedIn(c, n, next, Q)
      <4>1. CASE Q = P
        BY <3>3, <4>1
      <4>2. CASE Q = Pend(P, p)
        <5>1. PICK m \in n..next : LET later == sent[c][m].pub IN
                 later.id = sent[c][n].pub.id /\ <<later.id, later.topic>> \in P
          BY <3>3 DEF RecordedIn
        <5>2. PICK later : later = sent[c][m].pub
          OBVIOUS
        <5>3. CASE later.id = p.id
          <6>1. next \in n..next
            BY <3>1
          <6>2. <<p.id, p.topic>> \in Q
            BY <4>2 DEF Pend
          <6> QED BY <5>1, <5>2, <5>3, <6>1, <6>2 DEF RecordedIn
        <5>4. CASE later.id # p.id
          <6>1. PICK e : e = <<later.id, later.topic>>
            OBVIOUS
          <6>2. e \in P /\ e[1] = later.id
            BY <5>1, <5>2, <6>1
          <6>3. e \in Q
            BY <4>2, <5>4, <6>2 DEF Pend
          <6> QED BY <5>1, <5>2, <6>1, <6>3 DEF RecordedIn
        <5> QED BY <5>3, <5>4
      <4> QED BY <4>1, <4>2
    <3> QED BY <3>3, <3>4
  <2> QED BY <2>1, <2>2
<1> QED BY <1>1 DEF RecordFor
-----------------------------------------------------------------------------
(***************************************************************************)
(* The record under the steps that settle something, and when a            *)
(* publication is taken.                                                   *)
(***************************************************************************)

\* Errors are only added.
LEMMA ErrorsCount ==
    ASSUME Shape, Spends
    PROVE  spent'.errors = 0 => spent.errors = 0
<1>1. PICK e : e = spent.errors
  OBVIOUS
<1>2. e \in Nat /\ spent'.errors \in {e, e + 1}
  BY <1>1, BoundAssumption DEF Shape, Spends, Budget
<1> QED BY <1>1, <1>2

\* What saving the session of c leaves in the database.
LEMMA SavedIs ==
    ASSUME Shape, NEW c \in Client, UNCHANGED stored \/ Save(c, PendingPublish[c])
    PROVE  stored'[c] = stored[c] \/ stored'[c] = PendingPublish[c]
BY DEF Save, Shape

\* What a handler settles does not touch the record, but may save it.
LEMMA SettlesRecord ==
    ASSUME IInv, Shape, NEW c \in Client, RecordOf(c), ReadingOf(c), Settles(c), Extends(c), Spends
    PROVE  RecordOf(c)'
<1>1. PICK t : Turned(c, t) /\ Settled(th[c], t)
  BY DEF Settles
<1>2. PICK s, P, D, E, X, F : /\ s = th[c] /\ P = PendingPublish[c] /\ D = stored[c] /\ E = spent.errors
                              /\ X = stored'[c] /\ F = spent'.errors
  OBVIOUS
<1>3. RecordFor(c, s, P, D, E) /\ (F = 0 => E = 0)
  BY <1>2, ErrorsCount DEF RecordOf
<1>4. t.read = s.read /\ s.read \in 0..Len(sent[c]) /\ t.read \in 0..Len(sent[c])
  BY <1>1, <1>2 DEF Settled, ReadingOf
<1>5. X = D \/ X = P
  BY <1>2, SavedIs DEF Settles
<1>6. RecordFor(c, t, P, X, F)
  <2>1. CASE s.pc = "first"
    <3>1. t.read = 0
      BY <1>2, <1>4, <2>1 DEF ReadingOf, Begins
    <3> QED BY <3>1 DEF RecordFor
  <2>2. CASE s.pc = "read"
    <3>1. s.pc # "save" /\ t.info = s.info
      BY <1>1, <1>2, <2>2 DEF Settled
    <3>2. CASE X = D
      BY <1>3, <1>4, <3>1, <3>2, RecordSame
    <3>3. CASE X = P
      <4>1. RecordFor(c, t, P, P, F)
        BY <1>3, <1>4, RecordSaved
      <4> QED BY <3>3, <4>1
    <3> QED BY <1>5, <3>2, <3>3
  <2> QED BY <1>1, <1>2, <2>1, <2>2 DEF Settled
<1>7. P = PendingPublish'[c] /\ X = stored'[c] /\ F = spent'.errors
  BY <1>2, SMTT(30) DEF Settles
<1> QED BY <1>1, <1>4, <1>6, <1>7, RecordTurned

\* A publication goes on record when it is taken.
LEMMA TakesRecord ==
    ASSUME IInv, Shape, NEW c \in Client, RecordOf(c), Takes(c), Extends(c)
    PROVE  RecordOf(c)'
<1>0. PICK n \in 1..Len(sent[c]) : \E p :
         /\ th[c].pc = "read" /\ n = th[c].read + 1 /\ p = Bare(sent[c][n].pub)
         /\ \/ /\ p.payload = <<>> /\ UNCHANGED PendingPublish
               /\ Turned(c, Thread("read", th[c].info, n, NoPub, {}, {}, 0))
            \/ /\ p.payload # <<>> /\ p.qos = 0 /\ UNCHANGED PendingPublish
               /\ Turned(c, Thread("match", th[c].info, n, p, {}, {}, 0))
            \/ /\ p.payload # <<>> /\ p.qos > 0
               /\ PendingPublish' = [PendingPublish EXCEPT ![c] = Pend(@, p)]
               /\ Turned(c, Thread("save", th[c].info, n, p, {}, {}, 0))
  BY DEF Takes
<1>1. PICK p :
         /\ th[c].pc = "read" /\ n = th[c].read + 1 /\ p = Bare(sent[c][n].pub)
         /\ \/ /\ p.payload = <<>> /\ UNCHANGED PendingPublish
               /\ Turned(c, Thread("read", th[c].info, n, NoPub, {}, {}, 0))
            \/ /\ p.payload # <<>> /\ p.qos = 0 /\ UNCHANGED PendingPublish
               /\ Turned(c, Thread("match", th[c].info, n, p, {}, {}, 0))
            \/ /\ p.payload # <<>> /\ p.qos > 0
               /\ PendingPublish' = [PendingPublish EXCEPT ![c] = Pend(@, p)]
               /\ Turned(c, Thread("save", th[c].info, n, p, {}, {}, 0))
  BY <1>0
<1>2. PICK s, P, D, E, x, i : /\ s = th[c] /\ P = PendingPublish[c] /\ D = stored[c] /\ E = spent.errors
                              /\ x = sent[c][n].pub /\ i = th[c].info
  OBVIOUS
<1>3. RecordFor(c, s, P, D, E) /\ D = stored'[c] /\ E = spent'.errors
  BY <1>2 DEF RecordOf, Takes
<1>4. s.read \in Nat /\ s.pc # "save" /\ i = s.info /\ n = s.read + 1 /\ n \in 0..Len(sent[c])
  <2>1. s.read \in Nat
    BY <1>2, StageOf
  <2>2. PICK l \in Nat : l = Len(sent[c])
    BY DEF Extends
  <2>3. n \in 1..l
    BY <2>2
  <2>4. s.pc # "save" /\ i = s.info /\ n = s.read + 1
    BY <1>1, <1>2
  <2>5. n \in 0..l
    BY <2>2, <2>3
  <2> QED BY <2>1, <2>2, <2>4, <2>5
<1>5. x \in Publication
  BY <1>2, PublicationOf
<1>6. p.qos = x.qos /\ p.id = x.id /\ p.topic = x.topic /\ p.payload = x.payload /\ x.qos \in Nat
  <2>1. p = Bare(x)
    BY <1>1, <1>2
  <2>2. x.qos \in 0..2
    BY <1>5, PublicationAssumption DEF IsPublication
  <2> QED BY <2>1, <2>2 DEF Bare
<1>7. \A Q : Pend(Q, p) = Pend(Q, x)
  BY <1>6 DEF Pend
<1>8. ASSUME NEW label, NEW q, NEW Q, Q = PendingPublish'[c], Turned(c, Thread(label, i, n, q, {}, {}, 0)),
             \/ ~Weighty(x) /\ Q = P
             \/ label = "save" /\ Q = Pend(P, x)
      PROVE  RecordOf(c)'
  <2>1. PICK t : t = Thread(label, i, n, q, {}, {}, 0)
    OBVIOUS
  <2>2. t.pc = label /\ t.info = s.info /\ t.read = n
    BY <1>4, <2>1, ThreadFields
  <2>3. \/ ~Weighty(x) /\ Q = P
        \/ t.pc = "save" /\ Q = Pend(P, x)
    BY <1>8, <2>2
  <2>4. RecordFor(c, t, Q, D, E)
    BY <1>2, <1>3, <1>4, <2>2, <2>3, RecordTaken
  <2>5. t.read \in 0..Len(sent[c]) /\ Turned(c, t)
    BY <1>4, <1>8, <2>1, <2>2
  <2> QED BY <1>3, <1>8, <2>4, <2>5, RecordTurned
<1>9. PICK Q : Q = PendingPublish'[c]
  OBVIOUS
<1>10. CASE (p.payload = <<>> \/ p.qos = 0) /\ UNCHANGED PendingPublish
  <2>1. ~Weighty(x) /\ Q = P
    BY <1>2, <1>6, <1>9, <1>10 DEF Weighty
  <2>2. \/ Turned(c, Thread("read", i, n, NoPub, {}, {}, 0))
        \/ Turned(c, Thread("match", i, n, p, {}, {}, 0))
    <3>1. \/ Turned(c, Thread("read", th[c].info, n, NoPub, {}, {}, 0))
          \/ Turned(c, Thread("match", th[c].info, n, p, {}, {}, 0))
          \/ p.payload # <<>> /\ p.qos > 0
      BY ONLY <1>1
    <3>2. ~(p.payload # <<>> /\ p.qos > 0)
      BY <1>6, <1>10
    <3>3. th[c].info = i
      BY <1>2
    <3> QED BY ONLY <3>1, <3>2, <3>3
  <2> QED BY <1>8, <1>9, <2>1, <2>2
<1>11. CASE /\ PendingPublish' = [PendingPublish EXCEPT ![c] = Pend(@, p)]
            /\ Turned(c, Thread("save", i, n, p, {}, {}, 0))
  <2>1. PendingPublish'[c] = Pend(PendingPublish[c], p)
    BY <1>11 DEF Shape
  <2>2. Q = Pend(P, x)
    BY <1>2, <1>7, <1>9, <2>1
  <2>3. PICK label : label = "save"
    OBVIOUS
  <2> QED BY <1>8, <1>9, <1>11, <2>2, <2>3
<1> QED BY <1>1, <1>2, <1>10, <1>11, SMTT(30)
-----------------------------------------------------------------------------
(***************************************************************************)
(* The record under the steps of a publication.                            *)
(***************************************************************************)

\* What the steps behind the saving leave of the thread.
LEMMA WorkThread ==
    ASSUME IInv, Shape, NEW c \in Client, MatchTopic(c) \/ Number(c) \/ Numbering(c) \/ Deliver(c)
    PROVE  /\ \E t : Turned(c, t) /\ t.read = th[c].read /\ t.info = th[c].info /\ t.pc # "first"
           /\ th[c].pc # "save" /\ UNCHANGED <<PendingPublish, stored>>
<1>1. PICK s : s = th[c]
  OBVIOUS
<1>2. /\ th[c].pc \in {"match", "route", "create", "return", "number", "deliver"}
      /\ UNCHANGED <<PendingPublish, stored>>
  BY DEF MatchTopic, Number, Numbering, Create, Return, NextID, Deliver, At, sessions
<1> DEFINE Goes == \E t : Turned(c, t) /\ t.read = s.read /\ t.info = s.info /\ t.pc # "first"
<1>3. ASSUME NEW x \in {"read", "route", "create", "return", "number", "deliver"},
             NEW p, NEW T, NEW C, NEW n, Turned(c, Thread(x, s.info, s.read, p, T, C, n))
      PROVE  Goes
  <2>1. PICK t : t = Thread(x, s.info, s.read, p, T, C, n)
    OBVIOUS
  <2>2. t.read = s.read /\ t.info = s.info /\ t.pc = x
    BY <2>1, ThreadFields
  <2> QED BY <1>3, <2>1, <2>2
<1>4. ASSUME UNCHANGED th PROVE Goes
  <2>1. Turned(c, s)
    BY <1>1, <1>4, ThreadIs DEF Turned
  <2> QED BY <1>1, <1>2, <2>1
<1> HIDE DEF Goes
<1>5. ASSUME MatchTopic(c) PROVE Goes
  <2>1. Breaks(c) \/ \E T : Matches(c, T)
    BY <1>5, MatchDoes
  <2> QED BY <1>1, <1>3, <1>4, <2>1 DEF Breaks, Matches
<1>6. ASSUME Number(c) PROVE Goes
  <2>1. CASE th' = [th EXCEPT ![c].pc = "read", ![c].pub = NoPub]
    <3>1. Turned(c, Thread("read", s.info, s.read, NoPub, s.todo, s.cur, s.id))
      BY <1>1, <2>1, DoneThread
    <3> QED BY <1>3, <3>1
  <2>2. ASSUME NEW x \in {"create", "return", "deliver"}, NEW C, th' = [th EXCEPT ![c].pc = x, ![c].cur = C]
        PROVE  Goes
    <3>1. Turned(c, Thread(x, s.info, s.read, s.pub, s.todo, C, s.id))
      BY <1>1, <2>2, NumberThread
    <3> QED BY <1>3, <3>1
  <2>3. \/ th' = [th EXCEPT ![c].pc = "read", ![c].pub = NoPub]
        \/ \E x \in {"create", "return", "deliver"}, C \in {{e} : e \in th[c].todo} :
              th' = [th EXCEPT ![c].pc = x, ![c].cur = C]
    BY <1>6 DEF Number
  <2> QED BY <2>1, <2>2, <2>3
<1>7. ASSUME Numbering(c) PROVE Goes
  <2>1. PICK x \in {"return", "number", "deliver"}, n \in Nat :
           Turned(c, Thread(x, s.info, s.read, s.pub, s.todo, s.cur, n))
    BY <1>1, <1>7, NumberingThread
  <2> QED BY <1>3, <2>1
<1>8. ASSUME Deliver(c) PROVE Goes
  <2>1. PICK e : th' = [th EXCEPT ![c].pc = "route", ![c].cur = {}, ![c].id = 0, ![c].todo = @ \ {e}]
    BY <1>8 DEF Deliver
  <2>2. Turned(c, Thread("route", s.info, s.read, s.pub, s.todo \ {e}, {}, 0))
    BY <1>1, <2>1, DeliverThread
  <2> QED BY <1>3, <2>2
<1>9. Goes
  BY <1>5, <1>6, <1>7, <1>8
<1> QED BY <1>1, <1>2, <1>9 DEF Goes

\* The steps behind the saving leave the record alone.
LEMMA WorkRecord ==
    ASSUME IInv, Shape, NEW c \in Client, RecordOf(c), ReadingOf(c), Extends(c), Spends,
           MatchTopic(c) \/ Number(c) \/ Numbering(c) \/ Deliver(c)
    PROVE  RecordOf(c)'
<1>1. PICK t : Turned(c, t) /\ t.read = th[c].read /\ t.info = th[c].info
  BY WorkThread
<1>2. PICK s, P, D, E, F : /\ s = th[c] /\ P = PendingPublish[c] /\ D = stored[c] /\ E = spent.errors
                           /\ F = spent'.errors
  OBVIOUS
<1>3. RecordFor(c, s, P, D, E) /\ (F = 0 => E = 0)
  BY <1>2, ErrorsCount DEF RecordOf
<1>4. s.pc # "save" /\ P = PendingPublish'[c] /\ D = stored'[c]
  BY <1>2, WorkThread
<1>5. RecordFor(c, t, P, D, F)
  BY <1>1, <1>2, <1>3, <1>4, RecordSame
<1>6. t.read \in 0..Len(sent[c])
  BY <1>1 DEF ReadingOf
<1> QED BY <1>1, <1>2, <1>4, <1>5, <1>6, RecordTurned

\* SaveSession saves it, or fails.
LEMMA SaveRecord ==
    ASSUME IInv, Shape, NEW c \in Client, RecordOf(c), ReadingOf(c), Extends(c), SaveSession(c)
    PROVE  RecordOf(c)'
<1>1. /\ th[c].pc = "save" /\ Goto(c, "match") /\ UNCHANGED PendingPublish
      /\ \/ Save(c, PendingPublish[c]) /\ UNCHANGED spent
         \/ DatabaseError /\ UNCHANGED stored
  BY DEF SaveSession, At
<1>2. PICK s, P, D, E, X, F : /\ s = th[c] /\ P = PendingPublish[c] /\ D = stored[c] /\ E = spent.errors
                              /\ X = stored'[c] /\ F = spent'.errors
  OBVIOUS
<1>3. RecordFor(c, s, P, D, E) /\ s.read \in 0..Len(sent[c]) /\ P = PendingPublish'[c]
  BY <1>1, <1>2 DEF RecordOf, ReadingOf
<1>4. PICK t : t = Thread("match", s.info, s.read, s.pub, s.todo, s.cur, s.id)
  OBVIOUS
<1>5. Turned(c, t)
  BY <1>1, <1>2, <1>4, GotoThread
<1>6. t.read = s.read /\ t.info = s.info
  BY <1>4, ThreadFields
<1>7. CASE DatabaseError /\ UNCHANGED stored
  <2>1. F # 0
    <3>1. spent'.errors > 0
      BY <1>7, Spending DEF Shape
    <3> QED BY <1>2, <3>1
  <2>2. RecordFor(c, t, P, D, F)
    BY <1>3, <1>6, <2>1, RecordFree
  <2>3. D = stored'[c]
    BY <1>2, <1>7
  <2> QED BY <1>2, <1>3, <1>5, <1>6, <2>2, <2>3, RecordTurned
<1>8. CASE Save(c, PendingPublish[c])
  <2>1. CASE s.info.CleanSession
    <3>1. X = D
      BY <1>2, <1>8, <2>1 DEF Save
    <3>2. RecordFor(c, t, P, X, F)
      BY <1>3, <1>6, <2>1, <3>1, RecordFree
    <3> QED BY <1>2, <1>3, <1>5, <1>6, <3>2, RecordTurned
  <2>2. CASE ~s.info.CleanSession
    <3>1. X = P
      BY <1>2, <1>8, <2>2 DEF Save, Shape
    <3>2. RecordFor(c, t, P, X, F)
      BY <1>3, <1>6, <3>1, RecordSaved
    <3> QED BY <1>2, <1>3, <1>5, <1>6, <3>2, RecordTurned
  <2> QED BY <2>1, <2>2
<1> QED BY <1>1, <1>7, <1>8

\* It is so at first.
LEMMA RecordedInit == Init => Recorded
<1>1. ASSUME Init, NEW c \in Client PROVE th[c].read = 0
  BY <1>1 DEF Init, Start
<1> QED BY <1>1 DEF Recorded, RecordOf, RecordFor

\* And after every step.
LEMMA RecordedStep ==
    ASSUME IInv, Shape, Reading, Recorded, [Next]_vars
    PROVE  Recorded'
<1>1. \A p \in Client : Extends(p)
  BY ShapeStep
<1>2. ASSUME NEW c \in Client, th'[c] = th[c], PendingPublish'[c] = PendingPublish[c],
             stored'[c] = stored[c], spent'.errors = 0 => spent.errors = 0
      PROVE  RecordOf(c)'
  <2>1. RecordOf(c) /\ th[c].read \in 0..Len(sent[c]) /\ Extends(c)
    BY <1>1 DEF Recorded, Reading, ReadingOf
  <2> QED BY <1>2, <2>1, RecordKept
<1>3. ASSUME UNCHANGED <<th, PendingPublish, stored>>, spent'.errors = 0 => spent.errors = 0
      PROVE  Recorded'
  BY <1>2, <1>3 DEF Recorded
<1>4. CASE UNCHANGED vars
  BY <1>3, <1>4 DEF vars, broker, sessions
<1>5. ASSUME NEW c \in Client, Handler(c) PROVE Recorded'
  <2>1. HandlerLeaves(c)
    BY <1>5, HandlerKeeps DEF Shape
  <2>2. Spends /\ (spent'.errors = 0 => spent.errors = 0)
    BY <2>1, ErrorsCount DEF HandlerLeaves
  <2>3. ReadingOf(c) /\ RecordOf(c) /\ Extends(c)
    BY <1>1 DEF Reading, Recorded
  <2>4. \/ Settles(c) \/ Takes(c) \/ SaveSession(c) \/ MatchTopic(c) \/ Number(c) \/ Numbering(c)
        \/ Deliver(c)
    BY <1>5, <2>3, HandlerDoes
  <2>5. RecordOf(c)'
    BY <2>2, <2>3, <2>4, SettlesRecord, TakesRecord, SaveRecord, WorkRecord
  <2>6. ASSUME NEW d \in Client \ {c} PROVE RecordOf(d)'
    <3>1. th'[d] = th[d] /\ PendingPublish'[d] = PendingPublish[d] /\ stored'[d] = stored[d]
      BY <2>1 DEF HandlerLeaves, Only, IInv, Handlers, Shape
    <3> QED BY <1>2, <2>2, <3>1
  <2> QED BY <2>5, <2>6 DEF Recorded
<1>6. ASSUME NEW c \in Client, Peer(c) PROVE Recorded'
  <2>1. PeerLeaves(c)
    BY <1>6, PeerKeeps DEF Shape
  <2> QED BY <1>3, <2>1 DEF PeerLeaves, broker, sessions
<1>7. ASSUME NEW k \in Client, SetDevicesState(k) PROVE Recorded'
  <2>1. ServiceLeaves(k)
    BY <1>7, ServiceKeeps DEF Shape
  <2> QED BY <1>3, <2>1 DEF ServiceLeaves, sessions
<1> QED BY <1>4, <1>5, <1>6, <1>7 DEF Next, Rest

\* In every reachable state a publication with QoS 1 or 2 that its handler has taken is on
\* record in the session, and, once session.Save is behind it, in the database, unless the
\* session is temporary or a call failed.
THEOREM RecordedHolds == Spec => []Recorded
<1>1. IInv /\ Shape /\ Reading /\ Recorded /\ [Next]_vars => Recorded'
  BY RecordedStep
<1> QED BY <1>1, RecordedInit, ReadingHolds, ShapeHolds, Invariant, PTL DEF Spec

\* In every reachable state a publication with QoS 1 or 2 of which a copy was written is on
\* record in the session of its publisher, and in the database, unless the session is
\* temporary or a call failed.
THEOREM OnRecordFirst == Spec => []RecordedFirst
<1>1. IInv /\ Shape /\ Working /\ Recorded => RecordedFirst
  <2> SUFFICES ASSUME IInv, Shape, Working, Recorded, NEW c \in Client, NEW i \in DOMAIN copies[c],
                      NEW k, k = copies[c][i], Original(k).qos > 0
               PROVE  /\ OnRecord(k, PendingPublish[k.from])
                      /\ OnRecord(k, stored[k.from]) \/ spent.errors > 0 \/ th[k.from].info.CleanSession
    BY DEF RecordedFirst
  <2>1. k \in ToSet(copies[c])
    BY DEF ToSet
  <2>2. Genuine(k, c) /\ Passed(k, c) /\ k.nth \in Nat
    BY <2>1 DEF Working, CopiesOf, IInv, Written
  <2>3. k.from \in Client
    <3>1. CASE k.from = Service
      <4>1. PICK x : x = sent[Service][k.nth]
        OBVIOUS
      <4>2. x \in Posts(Switch)
        BY <2>2, <3>1, <4>1 DEF Genuine, Shape
      <4>3. x.pub.qos = 0
        BY <4>2, PublicationAssumption DEF Posts
      <4> QED BY <3>1, <4>1, <4>3 DEF Original
    <3> QED BY <2>2, <3>1 DEF Genuine
  <2>0. PICK f \in Client, n \in Nat : \E s, last : f = k.from /\ n = k.nth /\ s = th[f] /\ last = s.read
    BY <2>2, <2>3
  <2>4. PICK s, last : f = k.from /\ n = k.nth /\ s = th[f] /\ last = s.read
    BY <2>0
  <2>5. last \in Nat /\ n \in 1..Len(sent[f])
    BY <2>2, <2>4, StageOf DEF Genuine
  <2>6. n <= last /\ (n < last \/ s.pc # "save")
    BY <2>2, <2>4, <2>5, ClientAssumption DEF Passed
  <2>7. n \in 1..last
    BY ONLY <2>5, <2>6
  <2>8. Weighty(sent[f][n].pub)
    <3>1. Original(k).qos > 0 /\ Original(k).payload # <<>>
      BY <2>2, <2>3 DEF Genuine
    <3>2. Original(k) = sent[f][n].pub
      BY ONLY <2>4 DEF Original
    <3> QED BY ONLY <3>1, <3>2 DEF Weighty
  <2>9. PICK P, D, E : P = PendingPublish[f] /\ D = stored[f] /\ E = spent.errors
    OBVIOUS
  <2>10. RecordFor(f, s, P, D, E)
    <3>1. RecordOf(f)
      BY DEF Recorded
    <3> QED BY ONLY <2>4, <2>9, <3>1 DEF RecordOf
  <2>11. /\ RecordedIn(f, n, last, P)
         /\ E = 0 /\ ~s.info.CleanSession => RecordedIn(f, n, last, D)
    BY ONLY <2>4, <2>6, <2>7, <2>8, <2>10 DEF RecordFor
  <2>12. \A X : RecordedIn(f, n, last, X) => OnRecord(k, X)
    BY ONLY <2>4, Zenon DEF RecordedIn, OnRecord, Original
  <2>13. E = 0 \/ E > 0
    BY <2>9 DEF Shape, Budget
  <2> QED BY <2>4, <2>9, <2>11, <2>12, <2>13
<1> QED BY <1>1, RecordedHolds, WorkingHolds, ShapeHolds, Invariant, PTL
-----------------------------------------------------------------------------
(***************************************************************************)
(* Nobody is lost on the way: a subscriber that a publication is due is    *)
(* found in the tree as long as the subscriptions are to be looked up,     *)
(* then among those to be served, and then has its copy.                   *)
(***************************************************************************)

\* Nobody sends before the last handshake.
Early == (\E c \in Client : th[c].pc = "first") => \A p \in Client : sent[p] = <<>>

\* The subscriptions to publication n are yet to be looked up by its handler t.
AheadOf(t, n) == n > t.read \/ (n = t.read /\ t.pc \in {"save", "match"})

\* c gets, or has got, publication n of p, whose handler is t, with the subscriptions T
\* and the copies K of c.
Due(c, topic, p, n, t, T, K) ==
    \/ AheadOf(t, n) /\ \E e \in T : e.client = c /\ e.topic = topic
    \/ n = t.read /\ \E e \in t.todo : e.client = c
    \/ n <= t.read /\ \E k \in K : k.from = p /\ k.nth = n

\* In the present state.
DueIn(c, p, n) == Due(c, sent[p][n].pub.topic, p, n, th[p], tree, ToSet(copies[c]))

\* Every publication of p is on its way to whom it is due.
ReachOf(p) ==
    \A n \in 1..Len(sent[p]) : sent[p][n].pub.payload # <<>> =>
        \A c \in sent[p][n].due \cap connections : DueIn(c, p, n)

\* So are those of all clients, unless a database call failed.
Reaching == Early /\ (spent.errors = 0 => \A p \in Client : ReachOf(p))

\* AheadOf is Ahead of the handler as it is.
LEMMA AheadIs ==
    ASSUME NEW p, NEW n
    PROVE  AheadOf(th[p], n) <=> Ahead(p, n)
BY DEF AheadOf, Ahead

\* More subscriptions to the topic and more copies make no difference.
LEMMA DueMore ==
    ASSUME NEW c, NEW topic, NEW p, NEW n, NEW t, NEW T, NEW K, Due(c, topic, p, n, t, T, K), NEW U, NEW L,
           AheadOf(t, n) => \A e \in T : e.client = c /\ e.topic = topic => e \in U, K \subseteq L
    PROVE  Due(c, topic, p, n, t, U, L)
BY DEF Due

\* A handler that turns from s to t loses sight of nobody.
Onward(c, topic, p, n, s, t, T, K) == Due(c, topic, p, n, s, T, K) => Due(c, topic, p, n, t, T, K)

\* A handler that settles something has no publication in work.
LEMMA SettlesOnward ==
    ASSUME NEW c, NEW topic, NEW p, NEW n, NEW s, NEW t, NEW T, NEW K, Settled(s, t), s.todo = {}
    PROVE  Onward(c, topic, p, n, s, t, T, K)
<1>1. t.read = s.read /\ s.pc \notin {"save", "match"}
  BY DEF Settled
<1>2. AheadOf(s, n) => AheadOf(t, n)
  BY <1>1 DEF AheadOf
<1> QED BY <1>1, <1>2 DEF Onward, Due

\* A publication that is taken is still ahead of the look-up.
LEMMA TakesOnward ==
    ASSUME NEW c, NEW topic, NEW p, NEW n \in Nat, NEW s, NEW t, NEW T, NEW K, s.read \in Nat,
           s.pc = "read", s.todo = {}, t.read = s.read + 1, n = t.read => t.pc \in {"save", "match"}
    PROVE  Onward(c, topic, p, n, s, t, T, K)
<1>1. PICK r \in Nat : r = s.read /\ t.read = r + 1
  OBVIOUS
<1>2. AheadOf(s, n) => n > r
  BY <1>1 DEF AheadOf
<1>3. AheadOf(s, n) => AheadOf(t, n)
  BY <1>1, <1>2 DEF AheadOf
<1>4. n <= r => n <= r + 1
  OBVIOUS
<1> QED BY <1>1, <1>3, <1>4 DEF Onward, Due

\* Still so once the session is saved.
LEMMA SaveOnward ==
    ASSUME NEW c, NEW topic, NEW p, NEW n, NEW s, NEW t, NEW T, NEW K,
           t.read = s.read, t.todo = s.todo, t.pc = "match"
    PROVE  Onward(c, topic, p, n, s, t, T, K)
BY DEF Onward, Due, AheadOf

\* Who was in the tree is among those to be served.
LEMMA MatchOnward ==
    ASSUME NEW c, NEW topic, NEW p, NEW n, NEW s, NEW t, NEW T, NEW K, s.todo = {},
           t.read = s.read, n = t.read => t.todo = {e \in T : e.topic = topic}
    PROVE  Onward(c, topic, p, n, s, t, T, K)
<1>1. CASE n = t.read
  <2>1. \A e \in T : e.topic = topic => e \in t.todo
    BY <1>1
  <2> QED BY <1>1, <2>1 DEF Onward, Due
<1>2. CASE n # t.read
  BY <1>2 DEF Onward, Due, AheadOf
<1> QED BY <1>1, <1>2

\* Of those that the search has found no one is lost.
LEMMA FoundOnward ==
    ASSUME NEW c, NEW topic, NEW p, NEW n, NEW s, NEW t, NEW T, NEW K,
           n = t.read, \E e \in t.todo : e.client = c
    PROVE  Onward(c, topic, p, n, s, t, T, K)
BY DEF Onward, Due

\* And stays there while an identifier is taken.
LEMMA NumberOnward ==
    ASSUME NEW c, NEW topic, NEW p, NEW n, NEW s, NEW t, NEW T, NEW K,
           s.pc \notin {"save", "match"}, t.read = s.read, t.todo = s.todo
    PROVE  Onward(c, topic, p, n, s, t, T, K)
BY DEF Onward, Due, AheadOf

\* And has a copy once it has been served.
LEMMA DeliverOnward ==
    ASSUME NEW c, NEW topic, NEW p, NEW n, NEW s, NEW t, NEW T, NEW K, NEW e, s.read \in Nat,
           s.pc = "deliver", t.read = s.read, t.todo = s.todo \ {e},
           e.client = c => \E k \in K : k.from = p /\ k.nth = s.read
    PROVE  Onward(c, topic, p, n, s, t, T, K)
<1>1. AheadOf(s, n) => AheadOf(t, n)
  BY DEF AheadOf
<1>2. CASE n = s.read /\ e.client = c
  BY <1>2 DEF Onward, Due
<1>3. CASE ~(n = s.read /\ e.client = c)
  <2>1. n = s.read => \A f \in s.todo : f.client = c => f \in t.todo
    BY <1>3
  <2> QED BY <1>1, <2>1 DEF Onward, Due
<1> QED BY <1>2, <1>3
-----------------------------------------------------------------------------
(***************************************************************************)
(* The handler of the publisher loses nobody.                              *)
(***************************************************************************)

\* The step of the publisher's own handler.
Advances(c, p, n) ==
    \A topic : topic = sent[p][n].pub.topic => Onward(c, topic, p, n, th[p], th'[p], tree', ToSet(copies'[c]))

\* Settles loses nobody.
LEMMA SettlesAdvances ==
    ASSUME IInv, NEW p \in Client, Settles(p), NEW c, NEW n
    PROVE  Advances(c, p, n)
<1>1. PICK s, t : s = th[p] /\ t = th'[p]
  OBVIOUS
<1>2. Settled(s, t)
  BY <1>1 DEF Settles, Turned
<1>3. s.todo = {}
  BY <1>1, <1>2, StageOf DEF Settled
<1>4. \A topic, T, K : Onward(c, topic, p, n, s, t, T, K)
  BY <1>2, <1>3, SettlesOnward
<1> QED BY <1>1, <1>4 DEF Advances

\* Takes loses nobody.
LEMMA TakesAdvances ==
    ASSUME IInv, Shape, NEW p \in Client, Takes(p), NEW c, NEW n \in 1..Len(sent[p]), sent[p][n].pub.payload # <<>>
    PROVE  Advances(c, p, n)
<1>0. PICK m \in 1..Len(sent[p]) : \E x :
         /\ th[p].pc = "read" /\ m = th[p].read + 1 /\ x = Bare(sent[p][m].pub)
         /\ \/ /\ x.payload = <<>>
               /\ Turned(p, Thread("read", th[p].info, m, NoPub, {}, {}, 0))
            \/ Turned(p, Thread("match", th[p].info, m, x, {}, {}, 0))
            \/ Turned(p, Thread("save", th[p].info, m, x, {}, {}, 0))
  BY DEF Takes
<1>1. PICK x :
         /\ th[p].pc = "read" /\ m = th[p].read + 1 /\ x = Bare(sent[p][m].pub)
         /\ \/ /\ x.payload = <<>>
               /\ Turned(p, Thread("read", th[p].info, m, NoPub, {}, {}, 0))
            \/ Turned(p, Thread("match", th[p].info, m, x, {}, {}, 0))
            \/ Turned(p, Thread("save", th[p].info, m, x, {}, {}, 0))
  BY <1>0
<1>2. PICK s, t, i : s = th[p] /\ t = th'[p] /\ i = th[p].info
  OBVIOUS
<1>3. s.pc = "read" /\ s.todo = {} /\ s.read \in Nat /\ m = s.read + 1
  BY <1>1, <1>2, StageOf
<1>4. x.payload = sent[p][m].pub.payload
  BY <1>1 DEF Bare
<1>5. \/ x.payload = <<>> /\ t = Thread("read", i, m, NoPub, {}, {}, 0)
      \/ t = Thread("match", i, m, x, {}, {}, 0)
      \/ t = Thread("save", i, m, x, {}, {}, 0)
  BY <1>1, <1>2 DEF Turned
<1>6. t.read = m /\ (t.pc \in {"save", "match"} \/ x.payload = <<>>)
  BY <1>5 DEF Thread
<1>7. n = t.read => t.pc \in {"save", "match"}
  BY <1>4, <1>6
<1>8. n \in Nat /\ t.read = s.read + 1
  BY <1>3, <1>6
<1>9. \A topic, T, K : Onward(c, topic, p, n, s, t, T, K)
  BY <1>3, <1>7, <1>8, TakesOnward
<1> QED BY <1>2, <1>9, SMTT(30) DEF Advances

\* SaveSession loses nobody.
LEMMA SaveAdvances ==
    ASSUME IInv, NEW p \in Client, SaveSession(p), NEW c, NEW n
    PROVE  Advances(c, p, n)
<1>1. PICK s, t : s = th[p] /\ t = th'[p]
  OBVIOUS
<1>2. t = Thread("match", s.info, s.read, s.pub, s.todo, s.cur, s.id)
  BY <1>1, GotoThread DEF SaveSession, Turned
<1>3. t.read = s.read /\ t.todo = s.todo /\ t.pc = "match"
  BY <1>2 DEF Thread
<1>4. \A topic, T, K : Onward(c, topic, p, n, s, t, T, K)
  BY <1>3, SaveOnward
<1> QED BY <1>1, <1>4 DEF Advances

\* MatchTopic loses nobody to whom the publication is still due, unless the database fails.
LEMMA MatchAdvances ==
    ASSUME IInv, Shape, Working, NEW p \in Client, MatchTopic(p), spent'.errors = 0,
           NEW n \in 1..Len(sent[p]), NEW c \in sent'[p][n].due
    PROVE  Advances(c, p, n)
<1>1. PICK s, t : s = th[p] /\ t = th'[p]
  OBVIOUS
<1>2. tree' = tree /\ s.pc = "match" /\ (Breaks(p) \/ \E T : Matches(p, T))
  BY <1>1, MatchDoes DEF Matches, Breaks
<1>3. CASE Breaks(p)
  BY <1>3 DEF Breaks, Advances, Onward, Due, AheadOf
<1>4. ASSUME NEW T, Matches(p, T) PROVE Advances(c, p, n)
  <2>1. t = Thread("route", s.info, s.read, s.pub, T, {}, 0)
    BY <1>1, <1>4 DEF Matches, Turned
  <2>2. t.read = s.read /\ t.todo = T
    BY <2>1, ThreadFields
  <2>3. ThreadOK(p, s) /\ s.todo = {}
    BY <1>1, <1>2, StageOf DEF Working, WorkOf
  <2>4. T = {e \in tree : e.topic = s.pub.topic} \/ Miss(p, T)
    BY <1>1, <1>4 DEF Matches
  <2>5. ASSUME NEW topic, topic = sent[p][n].pub.topic, NEW K
        PROVE  Onward(c, topic, p, n, s, t, tree, K)
    <3>1. CASE n # s.read
      BY <2>2, <2>3, <3>1, MatchOnward
    <3>2. CASE n = s.read /\ Miss(p, T)
      <4>1. sent'[p][n].due = sent[p][n].due \cap {e.client : e \in T}
        BY <1>1, <3>2, Missed
      <4>2. \E e \in t.todo : e.client = c
        BY <2>2, <4>1
      <4> QED BY <2>2, <3>2, <4>2, FoundOnward
    <3>3. CASE n = s.read /\ T = {e \in tree : e.topic = s.pub.topic}
      <4>1. s.pub = Bare(sent[p][n].pub)
        BY <1>2, <2>3, <3>3 DEF ThreadOK, Works
      <4>2. s.pub.topic = topic
        BY <2>5, <4>1 DEF Bare
      <4>3. t.todo = {e \in tree : e.topic = topic}
        BY <2>2, <3>3, <4>2
      <4> QED BY <2>2, <2>3, <4>3, MatchOnward
    <3> QED BY <2>4, <3>1, <3>2, <3>3
  <2> QED BY <1>1, <1>2, <2>5 DEF Advances
<1> QED BY <1>2, <1>3, <1>4

\* Number and Numbering lose nobody: the loop ends only when nobody is left.
LEMMA NumberAdvances ==
    ASSUME IInv, NEW p \in Client, Number(p) \/ Numbering(p), NEW c, NEW n
    PROVE  Advances(c, p, n)
<1>1. PICK s, t : s = th[p] /\ t = th'[p]
  OBVIOUS
<1>2. s.pc \in {"route", "create", "return", "number"}
  BY <1>1 DEF Number, Numbering, Create, Return, NextID, At
<1>3. ASSUME NEW x, NEW q, NEW C, NEW m, Turned(p, Thread(x, s.info, s.read, q, s.todo, C, m))
      PROVE  Advances(c, p, n)
  <2>1. t = Thread(x, s.info, s.read, q, s.todo, C, m)
    BY <1>1, <1>3 DEF Turned
  <2>2. t.read = s.read /\ t.todo = s.todo
    BY <2>1, ThreadFields
  <2>3. \A topic, T, K : Onward(c, topic, p, n, s, t, T, K)
    BY <1>2, <2>2, NumberOnward
  <2> QED BY <1>1, <2>3 DEF Advances
<1>4. CASE th' = [th EXCEPT ![p].pc = "read", ![p].pub = NoPub]
  <2>1. Turned(p, Thread("read", s.info, s.read, NoPub, s.todo, s.cur, s.id))
    BY <1>1, <1>4, DoneThread
  <2> QED BY <1>3, <2>1
<1>5. ASSUME NEW x, NEW C, th' = [th EXCEPT ![p].pc = x, ![p].cur = C]
      PROVE  Advances(c, p, n)
  <2>1. Turned(p, Thread(x, s.info, s.read, s.pub, s.todo, C, s.id))
    BY <1>1, <1>5, NumberThread
  <2> QED BY <1>3, <2>1
<1>6. CASE Number(p)
  <2>1. \/ th' = [th EXCEPT ![p].pc = "read", ![p].pub = NoPub]
        \/ \E x, C : th' = [th EXCEPT ![p].pc = x, ![p].cur = C]
    BY <1>6 DEF Number
  <2> QED BY <1>4, <1>5, <2>1
<1>7. CASE Numbering(p)
  <2>1. \E x, m : Turned(p, Thread(x, s.info, s.read, s.pub, s.todo, s.cur, m))
    BY <1>1, <1>7, NumberingThread
  <2> QED BY <1>3, <2>1
<1> QED BY <1>6, <1>7

\* Deliver loses nobody that is connected.
LEMMA DeliverAdvances ==
    ASSUME IInv, Shape, Working, NEW p \in Client, Deliver(p), NEW c \in connections', NEW n
    PROVE  Advances(c, p, n)
<1>1. PICK s, t : s = th[p] /\ t = th'[p]
  OBVIOUS
<1>2. PICK e, x : DeliverIs(p, e, x)
  BY DeliverDoes
<1>3. /\ th' = [th EXCEPT ![p].pc = "route", ![p].cur = {}, ![p].id = 0, ![p].todo = @ \ {e}]
      /\ connections' = connections /\ s.pc = "deliver"
  BY <1>1, <1>2 DEF DeliverIs
<1>4. t = Thread("route", s.info, s.read, s.pub, s.todo \ {e}, {}, 0)
  <2>1. Turned(p, Thread("route", s.info, s.read, s.pub, s.todo \ {e}, {}, 0))
    BY <1>1, <1>3, DeliverThread
  <2> QED BY <1>1, <2>1 DEF Turned
<1>5. t.read = s.read /\ t.todo = s.todo \ {e} /\ s.read \in Nat
  <2>1. PICK T : T = s.todo \ {e}
    OBVIOUS
  <2>2. t.read = s.read /\ t.todo = T
    BY <1>4, <2>1 DEF Thread
  <2> QED BY <1>1, <2>1, <2>2, StageOf
<1>6. x.from = p /\ x.nth = s.read
  BY <1>1, <1>2, DeliverGenuine
<1>7. PICK K : K = ToSet(copies'[c])
  OBVIOUS
<1>8. e.client = c => x \in K
  BY <1>2, <1>3, <1>7, DeliverHands DEF Handed
<1>9. e.client = c => \E k \in K : k.from = p /\ k.nth = s.read
  BY <1>6, <1>8
<1>10. \A topic, T : Onward(c, topic, p, n, s, t, T, K)
  BY <1>3, <1>5, <1>9, DeliverOnward
<1> QED BY <1>1, <1>7, <1>10 DEF Advances
-----------------------------------------------------------------------------
(***************************************************************************)
(* Nor do the other handlers, but for a subscriber that unsubscribes or    *)
(* goes, and is due nothing any more.                                      *)
(***************************************************************************)

\* A step of a handler takes nobody from those that a publication is due but for whom it
\* is due no longer.
LEMMA DueBefore ==
    ASSUME Shape, NEW d \in Client, HandlerLeaves(d), NEW p \in Client, NEW n \in 1..Len(sent[p])
    PROVE  /\ sent'[p][n].due \subseteq sent[p][n].due /\ sent'[p][n].pub = sent[p][n].pub
           /\ Len(sent'[p]) = Len(sent[p])
<1>1. CASE sent' = sent
  BY <1>1
<1>2. CASE Release
  BY <1>2, Released
<1>3. ASSUME NEW found, Miss(d, found)
      PROVE  /\ sent'[p][n].due \subseteq sent[p][n].due /\ sent'[p][n].pub = sent[p][n].pub
             /\ Len(sent'[p]) = Len(sent[p])
  <2>1. sent'[p][n].due \in {sent[p][n].due, sent[p][n].due \cap {e.client : e \in found}}
    BY <1>3, Missed
  <2> QED BY <1>3, <2>1, Missed
<1> QED BY <1>1, <1>2, <1>3 DEF HandlerLeaves

\* Once a publication was sent nobody connects any more.
LEMMA ConnectedBefore ==
    ASSUME IInv, Shape, Reading, Early, NEW d \in Client, Handler(d), NEW p \in Client, NEW n \in 1..Len(sent[p])
    PROVE  connections' \subseteq connections
<1>1. ReadingOf(d)
  BY DEF Reading
<1>2. \/ Settles(d) \/ Takes(d)
      \/ SaveSession(d) \/ MatchTopic(d) \/ Number(d) \/ Numbering(d) \/ Deliver(d)
  BY <1>1, HandlerDoes
<1>3. sent[p] # <<>>
  <2>1. Len(sent[p]) # 0
    <3>1. PICK l : l = Len(sent[p])
      OBVIOUS
    <3>2. n \in 1..l
      BY <3>1
    <3> QED BY <3>1, <3>2
  <2> QED BY <2>1
<1>4. th[d].pc # "first"
  BY <1>3 DEF Early
<1>5. CASE Settles(d)
  BY ONLY <1>4, <1>5 DEF Settles
<1>6. CASE Takes(d) \/ SaveSession(d) \/ MatchTopic(d) \/ Number(d) \/ Numbering(d) \/ Deliver(d)
  BY <1>6 DEF Takes, SaveSession, MatchTopic, Number, Numbering, Deliver
<1> QED BY <1>2, <1>5, <1>6

\* The subscription of a client that is due a publication and stays connected is still there.
LEMMA TreeBefore ==
    ASSUME IInv, Shape, Reading, NEW d \in Client, Handler(d), NEW p \in Client, NEW n \in 1..Len(sent[p]),
           NEW c \in sent'[p][n].due, c \in connections', Ahead(p, n), NEW e \in tree,
           e.client = c, e.topic = sent[p][n].pub.topic
    PROVE  e \in tree'
<1>1. ReadingOf(d)
  BY DEF Reading
<1>2. \/ Settles(d) \/ Takes(d)
      \/ SaveSession(d) \/ MatchTopic(d) \/ Number(d) \/ Numbering(d) \/ Deliver(d)
  BY ONLY <1>1, IInv, Shape, Handler(d), d \in Client, HandlerDoes
<1>3. CASE Takes(d) \/ SaveSession(d) \/ MatchTopic(d) \/ Number(d) \/ Numbering(d) \/ Deliver(d)
  BY <1>3 DEF Takes, SaveSession, MatchTopic, Number, Numbering, Deliver, sessions
<1>4. CASE Settles(d)
  <2>1. SUFFICES ASSUME e \notin tree' PROVE FALSE
    OBVIOUS
  <2>3. Release
    BY <1>4, <2>1 DEF Settles
  <2>4. sent'[p][n].due = sent[p][n].due \ {f.client : f \in
                             {f \in tree \ tree' : f.topic = sent[p][n].pub.topic}}
    BY <2>3, Released
  <2>5. c \in {f.client : f \in {f \in tree \ tree' : f.topic = sent[p][n].pub.topic}}
    BY <2>1
  <2> QED BY <2>4, <2>5
<1> QED BY <1>2, <1>3, <1>4

\* Copies that were written stay written.
LEMMA CopiesBefore ==
    ASSUME IInv, Shape, Reading, Working, NEW d \in Client, Handler(d), NEW c \in Client
    PROVE  ToSet(copies[c]) \subseteq ToSet(copies'[c])
<1>1. ReadingOf(d)
  BY DEF Reading
<1>2. \/ Settles(d) \/ Takes(d)
      \/ SaveSession(d) \/ MatchTopic(d) \/ Number(d) \/ Numbering(d) \/ Deliver(d)
  BY <1>1, HandlerDoes
<1>3. CASE Deliver(d)
  BY <1>3, DeliverDoes, DeliverHands DEF Handed
<1>4. CASE Settles(d) \/ Takes(d) \/ SaveSession(d) \/ MatchTopic(d) \/ Number(d) \/ Numbering(d)
  <2>1. copies' = copies
    BY <1>4 DEF Settles, Told, Takes, SaveSession, MatchTopic, Number, Numbering, output
  <2> QED BY <2>1, SMTT(30)
<1> QED BY <1>2, <1>3, <1>4

\* The handler of the publisher loses nobody that is connected.
LEMMA HandlerAdvances ==
    ASSUME IInv, Shape, Reading, Working, NEW p \in Client, Handler(p), spent'.errors = 0,
           NEW n \in 1..Len(sent[p]), NEW c \in sent'[p][n].due \cap connections',
           sent[p][n].pub.payload # <<>>
    PROVE  Advances(c, p, n)
<1>1. ReadingOf(p)
  BY DEF Reading
<1>2. \/ Settles(p) \/ Takes(p)
      \/ SaveSession(p) \/ MatchTopic(p) \/ Number(p) \/ Numbering(p) \/ Deliver(p)
  BY <1>1, HandlerDoes
<1> QED BY <1>2, SettlesAdvances, TakesAdvances, SaveAdvances, MatchAdvances, NumberAdvances, DeliverAdvances

\* No handler loses anybody.
LEMMA HandlerReaches ==
    ASSUME IInv, Shape, Reading, Working, Reaching, NEW d \in Client, Handler(d), spent'.errors = 0,
           NEW p \in Client
    PROVE  ReachOf(p)'
<1>1. HandlerLeaves(d)
  BY HandlerKeeps DEF Shape
<1>2. ReachOf(p) /\ Early
  BY <1>1, ErrorsCount DEF Reaching, HandlerLeaves
<1>3. ASSUME NEW n \in 1..Len(sent'[p]), sent'[p][n].pub.payload # <<>>, NEW c \in sent'[p][n].due \cap connections'
      PROVE  DueIn(c, p, n)'
  <2>1. n \in 1..Len(sent[p])
    <3>1. CASE sent' = sent
      BY <3>1
    <3>2. CASE Release
      BY <3>2, Released
    <3>3. ASSUME NEW found, Miss(d, found) PROVE n \in 1..Len(sent[p])
      BY <3>3, Missed
    <3> QED BY <1>1, <3>1, <3>2, <3>3 DEF HandlerLeaves
  <2>2. sent'[p][n].due \subseteq sent[p][n].due /\ sent'[p][n].pub = sent[p][n].pub
    BY <1>1, <2>1, DueBefore
  <2>3. connections' \subseteq connections /\ connections \subseteq Client
    BY <1>2, <2>1, ConnectedBefore DEF IInv, Handlers
  <2>4. c \in sent[p][n].due \cap connections /\ c \in Client /\ sent[p][n].pub.payload # <<>>
    BY <1>3, <2>2, <2>3
  <2>5. PICK topic, s, t, K, L : /\ topic = sent[p][n].pub.topic /\ s = th[p] /\ t = th'[p]
                                 /\ K = ToSet(copies[c]) /\ L = ToSet(copies'[c])
    OBVIOUS
  <2>6. Due(c, topic, p, n, s, tree, K)
    BY <1>2, <2>1, <2>4, <2>5 DEF ReachOf, DueIn
  <2>7. AheadOf(s, n) => \A e \in tree : e.client = c /\ e.topic = topic => e \in tree'
    BY <1>3, <2>1, <2>5, AheadIs, TreeBefore
  <2>8. K \subseteq L
    BY <2>4, <2>5, CopiesBefore
  <2>9. Due(c, topic, p, n, s, tree', L)
    BY <2>6, <2>7, <2>8, DueMore
  <2>10. Due(c, topic, p, n, t, tree', L)
    <3>1. CASE p = d
      <4>1. Advances(c, p, n)
        BY <1>3, <2>1, <2>4, <3>1, HandlerAdvances
      <4>2. Onward(c, topic, p, n, s, t, tree', L)
        BY <2>5, <4>1 DEF Advances
      <4> QED BY <2>9, <4>2 DEF Onward
    <3>2. CASE p # d
      <4>1. t = s
        BY <1>1, <2>5, <3>2 DEF HandlerLeaves, Only, IInv, Handlers
      <4> QED BY <2>9, <4>1
    <3> QED BY <3>1, <3>2
  <2>11. topic = sent'[p][n].pub.topic
    BY <2>2, <2>5
  <2> QED BY <2>5, <2>10, <2>11 DEF DueIn, Due, AheadOf
<1> QED BY <1>3 DEF ReachOf
-----------------------------------------------------------------------------
(***************************************************************************)
(* Every subscriber is reached.                                            *)
(***************************************************************************)

\* It is so at first.
LEMMA ReachingInit == Init => Reaching
<1>1. ASSUME Init, NEW p \in Client PROVE sent[p] = <<>>
  BY <1>1 DEF Init
<1>2. ASSUME Init, NEW p \in Client PROVE ReachOf(p)
  <2>1. Len(sent[p]) = 0
    BY <1>1, <1>2
  <2> QED BY <2>1 DEF ReachOf
<1> QED BY <1>1, <1>2 DEF Reaching, Early

\* Nothing that concerns the subscribers of p happens, but copies are written.
LEMMA ReachSame ==
    ASSUME NEW p \in Client, ReachOf(p), sent'[p] = sent[p], UNCHANGED <<connections, th, tree>>,
           \A c \in connections : ToSet(copies[c]) \subseteq ToSet(copies'[c])
    PROVE  ReachOf(p)'
<1>1. ASSUME NEW n \in 1..Len(sent'[p]), sent'[p][n].pub.payload # <<>>, NEW c \in sent'[p][n].due \cap connections'
      PROVE  DueIn(c, p, n)'
  <2>1. PICK topic, s, K, L : /\ topic = sent[p][n].pub.topic /\ s = th[p]
                              /\ K = ToSet(copies[c]) /\ L = ToSet(copies'[c])
    OBVIOUS
  <2>2. Due(c, topic, p, n, s, tree, K) /\ K \subseteq L
    BY <1>1, <2>1 DEF ReachOf, DueIn
  <2>3. Due(c, topic, p, n, s, tree', L)
    BY <2>2, DueMore
  <2>4. topic = sent'[p][n].pub.topic /\ s = th'[p]
    BY <2>1
  <2> QED BY <2>1, <2>3, <2>4 DEF DueIn, Due, AheadOf
<1> QED BY <1>1 DEF ReachOf

\* A publication is due to whom it has subscribed.
LEMMA PeerReaches ==
    ASSUME IInv, Shape, Reading, NEW c \in Client, PeerLeaves(c), NEW p \in Client, ReachOf(p)
    PROVE  ReachOf(p)'
<1>1. UNCHANGED <<connections, th, tree, copies>>
  BY DEF PeerLeaves, broker, output, sessions
<1>2. CASE sent' = sent
  BY <1>1, <1>2, ReachSame
<1>3. ASSUME NEW x \in Publication, NEW due, due = {e.client : e \in {f \in tree : f.topic = x.topic}},
             sent' = [sent EXCEPT ![c] = Append(sent[c], [pub |-> x, due |-> due])]
      PROVE  ReachOf(p)'
  <2>1. CASE p # c
    <3>1. sent'[p] = sent[p]
      BY <1>3, <2>1 DEF Shape
    <3> QED BY <1>1, <3>1, ReachSame
  <2>2. CASE p = c
    <3>1. PICK y, r, l : y = [pub |-> x, due |-> due] /\ r = Append(sent[p], y) /\ l = Len(sent[p])
      OBVIOUS
    <3>2. due \subseteq Client
      BY <1>3 DEF Shape
    <3>3. y \in Posts(Publication) /\ y.pub = x /\ y.due = due
      BY <3>1, <3>2, PostIs
    <3>4. sent'[p] = r
      BY <1>3, <2>2, <3>1 DEF Shape
    <3>5. Len(r) = l + 1 /\ l \in Nat /\ r[l + 1] = y /\ \A n \in 1..l : r[n] = sent[p][n]
      BY <3>1, <3>3, Grown DEF Shape
    <3>6. PICK s, m : s = th[p] /\ m = l + 1
      OBVIOUS
    <3>7. m > s.read
      <4>1. s.read \in 0..l
        BY <3>1, <3>6 DEF Reading, ReadingOf
      <4> QED BY <3>5, <3>6, <4>1
    <3>8. ASSUME NEW n \in 1..m, r[n].pub.payload # <<>>, NEW d \in r[n].due \cap connections
          PROVE  Due(d, r[n].pub.topic, p, n, s, tree, ToSet(copies[d]))
      <4>1. CASE n = m
        <5>1. \E e \in tree : e.client = d /\ e.topic = x.topic
          BY <1>3, <3>3, <3>5, <3>6, <3>8, <4>1
        <5> QED BY <3>3, <3>5, <3>6, <3>7, <4>1, <5>1 DEF Due, AheadOf
      <4>2. CASE n # m
        <5>1. n \in 1..l
          BY <3>5, <3>6, <4>2
        <5>2. r[n] = sent[p][n]
          BY <3>5, <5>1
        <5> QED BY <3>1, <3>6, <3>8, <5>1, <5>2 DEF ReachOf, DueIn
      <4> QED BY <4>1, <4>2
    <3>9. Len(sent'[p]) = m /\ s = th'[p]
      BY <1>1, <3>4, <3>5, <3>6
    <3>10. ReachOf(p)' <=> \A n \in 1..Len(sent'[p]) : sent'[p][n].pub.payload # <<>> =>
              \A d \in sent'[p][n].due \cap connections' :
                 Due(d, sent'[p][n].pub.topic, p, n, th'[p], tree', ToSet(copies'[d]))
      BY DEF ReachOf, DueIn, Due, AheadOf
    <3> QED BY <1>1, <3>4, <3>8, <3>9, <3>10
  <2> QED BY <2>1, <2>2
<1> QED BY <1>2, <1>3 DEF PeerLeaves

\* And after every step.
LEMMA ReachingStep ==
    ASSUME IInv, Shape, Reading, Working, Reaching, [Next]_vars
    PROVE  Reaching'
<1>1. CASE UNCHANGED vars
  <2>1. UNCHANGED <<connections, th, tree, copies, sent, spent>>
    BY <1>1 DEF vars, broker, output, sessions, history
  <2>2. Early'
    BY <2>1 DEF Reaching, Early
  <2>3. ASSUME spent'.errors = 0, NEW p \in Client PROVE ReachOf(p)'
    BY <2>1, <2>3, ReachSame DEF Reaching
  <2> QED BY <2>2, <2>3 DEF Reaching
<1>2. ASSUME NEW c \in Client, Handler(c) PROVE Reaching'
  <2>1. HandlerLeaves(c)
    BY <1>2, HandlerKeeps DEF Shape
  <2>2. Early'
    <3>1. ASSUME NEW d \in Client, th'[d].pc = "first" PROVE th[d].pc = "first"
      <4>1. CASE d = c
        <5>1. ReadingOf(c)
          BY DEF Reading
        <5>2. \/ Settles(c) \/ Takes(c)
              \/ SaveSession(c) \/ MatchTopic(c) \/ Number(c) \/ Numbering(c) \/ Deliver(c)
          BY <1>2, <5>1, HandlerDoes
        <5>3. CASE Settles(c)
          BY <3>1, <4>1, <5>3 DEF Settles, Settled, Turned
        <5>4. CASE Takes(c)
          <6>1. \E x \in {"read", "match", "save"} : \E i, n, q : th'[c] = Thread(x, i, n, q, {}, {}, 0)
            BY <5>4 DEF Takes, Turned
          <6> QED BY <3>1, <4>1, <6>1, ThreadFields, SMTT(30)
        <5>5. CASE SaveSession(c) \/ MatchTopic(c) \/ Number(c) \/ Numbering(c) \/ Deliver(c)
          <6>1. CASE SaveSession(c)
            <7>1. PICK t, u : t = th[c] /\ u = th'[c]
              OBVIOUS
            <7>2. u = Thread("match", t.info, t.read, t.pub, t.todo, t.cur, t.id)
              BY <6>1, <7>1, GotoThread DEF SaveSession, Turned
            <7> QED BY <3>1, <4>1, <7>1, <7>2, ThreadFields
          <6>2. CASE MatchTopic(c) \/ Number(c) \/ Numbering(c) \/ Deliver(c)
            BY <3>1, <4>1, <6>2, WorkThread DEF Turned
          <6> QED BY <5>5, <6>1, <6>2
        <5> QED BY <5>2, <5>3, <5>4, <5>5
      <4>2. CASE d # c
        BY <2>1, <3>1, <4>2 DEF HandlerLeaves, Only, IInv, Handlers
      <4> QED BY <4>1, <4>2
    <3>2. ASSUME NEW p \in Client, sent[p] = <<>> PROVE sent'[p] = <<>>
      <4>1. CASE sent' = sent
        BY <3>2, <4>1
      <4>2. CASE Release
        <5>1. PICK r : r = sent'[p]
          OBVIOUS
        <5>2. r \in Seq(Posts(Publication)) /\ Len(r) = 0
          BY <3>2, <4>2, <5>1, Released
        <5> QED BY <5>1, <5>2
      <4>3. ASSUME NEW found, Miss(c, found) PROVE sent'[p] = <<>>
        <5>1. PICK r : r = sent'[p]
          OBVIOUS
        <5>2. r \in Seq(Posts(Publication)) /\ Len(r) = 0
          BY <3>2, <4>3, <5>1, Missed
        <5> QED BY <5>1, <5>2
      <4> QED BY <2>1, <4>1, <4>2, <4>3 DEF HandlerLeaves
    <3> QED BY <3>1, <3>2 DEF Reaching, Early
  <2>3. ASSUME spent'.errors = 0, NEW p \in Client PROVE ReachOf(p)'
    BY <1>2, <2>3, HandlerReaches
  <2> QED BY <2>2, <2>3 DEF Reaching
<1>3. ASSUME NEW c \in Client, Peer(c) PROVE Reaching'
  <2>1. PeerLeaves(c)
    BY <1>3, PeerKeeps DEF Shape
  <2>2. th' = th /\ spent'.errors = spent.errors /\ (sent' = sent \/ \A d \in Client : th[d].pc # "first")
    BY <2>1 DEF PeerLeaves, broker
  <2>3. Early'
    BY <2>2 DEF Reaching, Early
  <2>4. ASSUME spent'.errors = 0, NEW p \in Client PROVE ReachOf(p)'
    BY <2>1, <2>2, <2>4, PeerReaches DEF Reaching
  <2> QED BY <2>3, <2>4 DEF Reaching
<1>4. ASSUME NEW k \in Client, SetDevicesState(k) PROVE Reaching'
  <2>1. ServiceLeaves(k)
    BY <1>4, ServiceKeeps DEF Shape
  <2>2. /\ UNCHANGED <<connections, th, tree>> /\ spent'.errors = spent.errors
        /\ \A d \in Client : th[d].pc # "first"
    BY <2>1 DEF ServiceLeaves, sessions
  <2>3. PICK x, y : ServiceIs(k, x, y)
    BY <2>1, ServiceDoes
  <2>4. \A p \in Client : sent'[p] = sent[p]
    BY <2>3 DEF ServiceIs
  <2>5. \A c \in Client : ToSet(copies[c]) \subseteq ToSet(copies'[c])
    BY <2>3, ServiceHands DEF Handed
  <2>6. Early'
    BY <2>2 DEF Early
  <2>7. ASSUME spent'.errors = 0, NEW p \in Client PROVE ReachOf(p)'
    <3>1. connections \subseteq Client /\ ReachOf(p)
      BY <2>2, <2>7 DEF IInv, Handlers, Reaching
    <3> QED BY <2>2, <2>4, <2>5, <3>1, ReachSame
  <2> QED BY <2>6, <2>7 DEF Reaching
<1> QED BY <1>1, <1>2, <1>3, <1>4 DEF Next, Rest

\* In every reachable state, as long as no database call has failed, a client that is
\* connected and due a publication has a subscription in the tree, is among those its handler
\* has yet to serve, or has a copy of it. Whose subscription the save of an outdated node has
\* lost (Release), or an outdated cache entry has hidden from the match (Miss), is due nothing.
THEOREM ReachingHolds == Spec => []Reaching
<1>1. IInv /\ Shape /\ Reading /\ Working /\ Reaching /\ [Next]_vars => Reaching'
  BY ReachingStep
<1> QED BY <1>1, ReachingInit, WorkingHolds, ReadingHolds, ShapeHolds, Invariant, PTL DEF Spec

\* In every reachable state a publication that was handled has reached every client that was
\* subscribed from when it was sent until its subscribers were looked up and is connected,
\* unless it has no payload, a database call failed, or an outdated node of the topic tree has
\* lost the subscription or hidden it from the match. So nothing else on the way, and no other
\* handler, loses a subscriber.
THEOREM SubscribersReached == Spec => []ReachesSubscribers
<1>1. IInv /\ Shape /\ Reading /\ Reaching => ReachesSubscribers
  <2> SUFFICES ASSUME IInv, Shape, Reading, Reaching, spent.errors = 0, NEW p \in Client, NEW n \in 1..th[p].read,
                      n < th[p].read \/ th[p].pc \in {"read", "closed"}, sent[p][n].pub.payload # <<>>,
                      NEW c \in sent[p][n].due \cap connections
               PROVE  \E i \in DOMAIN copies[c] : copies[c][i].from = p /\ copies[c][i].nth = n
    BY DEF ReachesSubscribers
  <2>1. PICK s, l, m : s = th[p] /\ l = Len(sent[p]) /\ m = s.read
    OBVIOUS
  <2>2. m \in 0..l /\ l \in Nat /\ n \in 1..m
    BY <2>1 DEF Reading, ReadingOf, Shape
  <2>3. n \in 1..l /\ n <= m
    BY <2>2
  <2>4. ReachOf(p)
    BY DEF Reaching
  <2>5. DueIn(c, p, n)
    BY <2>1, <2>3, <2>4 DEF ReachOf
  <2>6. ~AheadOf(s, n)
    BY <2>1, <2>2, <2>3 DEF AheadOf
  <2>7. n = m => s.todo = {}
    <3>1. n = m => s.pc \in {"read", "closed"}
      BY <2>1, <2>2
    <3> QED BY <2>1, <3>1, StageOf
  <2>8. \E k \in ToSet(copies[c]) : k.from = p /\ k.nth = n
    BY <2>1, <2>5, <2>6, <2>7 DEF DueIn, Due
  <2> QED BY <2>8 DEF ToSet
<1> QED BY <1>1, ReachingHolds, ReadingHolds, ShapeHolds, Invariant, PTL
-----------------------------------------------------------------------------
(***************************************************************************)
(* The bytes that were written to a client are a sequence of whole         *)
(* packets, and the publications among them are the copies in order.       *)
(***************************************************************************)

\* The packet that is copy k, and what is to be found among what was written to d.
Image(k) == PacketWith(PacketType.PUBLISH, 2 * k.qos, PublishBody(Original(k), k.qos, k.id))
Expected(d) == [i \in DOMAIN copies[d] |-> Image(copies[d][i])]

\* The types that are looked for: PUBLISH, and what is no packet.
Watched == {Torn.type, PacketType.PUBLISH}

\* So it is with what was written to d, unless a copy was too long.
StreamOf(d) == (\A k \in ToSet(copies[d]) : ~TooLong(k)) => Stream(outbox[d], Watched, Expected(d))
\* So it is with all.
Streams == \A d \in Client : StreamOf(d)

\* What was sent stays what it was.
LEMMA OriginalStays ==
    ASSUME NEW k, NEW d, Genuine(k, d), \A p \in Client \cup {Service} : Extends(p)
    PROVE  Original(k)' = Original(k)
<1>0. PICK p \in Client \cup {Service} : \E n : p = k.from /\ n = k.nth
  BY DEF Genuine
<1>1. PICK n : p = k.from /\ n = k.nth
  BY <1>0
<1>2. n \in 1..Len(sent[p])
  BY <1>1 DEF Genuine
<1>3. sent'[p][n].pub = sent[p][n].pub
  BY <1>2 DEF Extends
<1> QED BY <1>1, <1>3 DEF Original

\* So does the packet.
LEMMA ImageStays ==
    ASSUME NEW k, Original(k)' = Original(k)
    PROVE  Image(k)' = Image(k) /\ (TooLong(k)' <=> TooLong(k))
BY DEF Image, TooLong

\* The copies that were there.
LEMMA CopyOf ==
    ASSUME IInv, NEW d \in Client
    PROVE  /\ copies[d] \in Seq(ToSet(copies[d])) /\ Len(copies[d]) \in Nat
           /\ DOMAIN copies[d] = 1..Len(copies[d])
           /\ \A i \in 1..Len(copies[d]) : copies[d][i] \in ToSet(copies[d])
<1>1. PICK s, S : s = copies[d] /\ S = ToSet(s)
  OBVIOUS
<1>2. s \in Seq(S)
  BY <1>1 DEF IInv, Written
<1>3. \A i \in 1..Len(s) : s[i] \in S
  BY <1>2, SMTT(30)
<1> QED BY <1>1, <1>2, <1>3

\* What was written to d is as it was.
LEMMA StreamsSame ==
    ASSUME IInv, NEW d \in Client, StreamOf(d), CopiesOf(d), \A p \in Client \cup {Service} : Extends(p),
           copies'[d] = copies[d],
           Stream(outbox[d], Watched, Expected(d)) => Stream(outbox'[d], Watched, Expected(d))
    PROVE  StreamOf(d)'
<1>1. \A k \in ToSet(copies[d]) : Original(k)' = Original(k)
  BY OriginalStays DEF CopiesOf
<1>2. \A k \in ToSet(copies[d]) : Image(k)' = Image(k) /\ (TooLong(k)' <=> TooLong(k))
  BY <1>1, ImageStays
<1>3. Expected(d)' = Expected(d)
  <2>1. ASSUME NEW i \in DOMAIN copies[d] PROVE Image(copies[d][i])' = Image(copies[d][i])
    <3>1. PICK k : k = copies[d][i]
      OBVIOUS
    <3>2. k \in ToSet(copies[d])
      BY <3>1, CopyOf
    <3>3. k = copies'[d][i]
      BY <3>1
    <3>4. Image(k)' = Image(copies[d][i])'
      BY <3>3 DEF Image, Original
    <3> QED BY <1>2, <3>1, <3>2, <3>4
  <2>2. Expected(d)' = [i \in DOMAIN copies'[d] |-> Image(copies[d][i])']
    BY DEF Expected
  <2> QED BY <2>1, <2>2 DEF Expected
<1>4. ASSUME \A k \in ToSet(copies'[d]) : ~TooLong(k)' PROVE Stream(outbox'[d], Watched, Expected(d)')
  <2>1. \A k \in ToSet(copies[d]) : ~TooLong(k)
    BY <1>2, <1>4
  <2> QED BY <1>3, <2>1 DEF StreamOf
<1> QED BY <1>4 DEF StreamOf, Expected, Watched, Image, TooLong, Original
-----------------------------------------------------------------------------
(***************************************************************************)
(* The stream under what a client is told, and what it is when a           *)
(* publication is written.                                                 *)
(***************************************************************************)

\* A stream is bytes, and what is not watched for makes no difference.
LEMMA StreamQuiet ==
    ASSUME NEW s, NEW x, Stream(s, Watched, x)
    PROVE  /\ s \o <<>> = s
           /\ \A k \in Fitting : k.type \notin Watched => Stream(s \o Framed(k), Watched, x)
<1>1. s \in Seq(Nat)
  BY DEF Stream, Frames, FramesAt
<1>2. ASSUME NEW k \in Fitting, k.type \notin Watched PROVE Stream(s \o Framed(k), Watched, x)
  <2>1. Keep(x, k, Watched) = x
    BY <1>2 DEF Keep
  <2>2. Stream(s \o Framed(k), Watched, Keep(x, k, Watched))
    BY StreamMore
  <2> QED BY <2>1, <2>2
<1> QED BY <1>1, <1>2

\* An answer is no publication and breaks no packet.
LEMMA ToldStreams ==
    ASSUME IInv, Shape, NEW c \in Client, Told(c), NEW d \in Client, StreamOf(d), CopiesOf(d),
           \A p \in Client \cup {Service} : Extends(p)
    PROVE  StreamOf(d)'
<1>1. PICK s, r, x : s = outbox[d] /\ r = outbox'[d] /\ x = Expected(d)
  OBVIOUS
<1>2. \/ r = s
      \/ r = s \o <<>>
      \/ \E k \in Fitting : k.type \notin Watched /\ r = s \o Framed(k)
  <2>1. CASE UNCHANGED outbox
    BY <1>1, <2>1
  <2>2. CASE outbox' = [outbox EXCEPT ![c] = @ \o <<>>]
    BY <1>1, <2>2 DEF Shape
  <2>3. ASSUME NEW k \in Fitting, k.type \notin {Torn.type, PacketType.PUBLISH},
               outbox' = [outbox EXCEPT ![c] = @ \o Framed(k)]
        PROVE  r = s \/ (k.type \notin Watched /\ r = s \o Framed(k))
    <3>1. PICK b : b = Framed(k)
      OBVIOUS
    <3>2. outbox' = [outbox EXCEPT ![c] = outbox[c] \o b]
      BY <2>3, <3>1
    <3>3. r = s \/ r = s \o b
      BY <1>1, <3>2 DEF Shape
    <3> QED BY <2>3, <3>1, <3>3 DEF Watched
  <2> QED BY <2>1, <2>2, <2>3 DEF Told
<1>3. Stream(s, Watched, x) => Stream(r, Watched, x)
  BY <1>2, StreamQuiet
<1>4. copies'[d] = copies[d]
  BY DEF Told
<1> QED BY <1>1, <1>3, <1>4, StreamsSame

\* A publication is written: p has the topic and the payload of what copy x is of.
WrittenTo(d, p, x) ==
    /\ IsText(p.topic) /\ p.payload \in Seq(Nat) /\ x.qos \in {0, 2} /\ x.id \in Nat
    /\ copies'[d] = Append(copies[d], x)
    /\ outbox'[d] = outbox[d] \o NewPublishPacket(x.qos, p.topic, x.id, p.payload)
    /\ sent'[x.from][x.nth].pub.topic = p.topic /\ sent'[x.from][x.nth].pub.payload = p.payload

\* The packet is the one expected.
LEMMA WrittenFramed ==
    ASSUME NEW d, NEW p, NEW x, WrittenTo(d, p, x), ~TooLong(x)'
    PROVE  /\ Image(x)' \in Fitting /\ Image(x)'.type = PacketType.PUBLISH
           /\ outbox'[d] = outbox[d] \o Framed(Image(x)')
<1>1. PICK o, qos, id : o = Original(x)' /\ qos = x.qos /\ id = x.id
  OBVIOUS
<1>2. o.topic = p.topic /\ o.payload = p.payload /\ qos \in {0, 2} /\ id \in Nat
  BY <1>1 DEF WrittenTo, Original
<1>3. PICK body : body = PublishBody(p, qos, id)
  OBVIOUS
<1>4. PublishBody(o, qos, id) = body
  BY <1>2, <1>3 DEF PublishBody
<1>5. TooLong(x)' <=> (id >= Byte * Byte \/ Len(body) > Limit)
  <2>1. TooLong(x)' <=> (id >= Byte * Byte \/ Len(PublishBody(o, qos, id)) > Limit)
    BY <1>1 DEF TooLong
  <2> QED BY <1>4, <2>1
<1>6. PICK k : k = PacketWith(PacketType.PUBLISH, 2 * qos, body)
  OBVIOUS
<1>7. Image(x)' = k
  <2>1. Image(x)' = PacketWith(PacketType.PUBLISH, 2 * qos, PublishBody(o, qos, id))
    BY <1>1 DEF Image
  <2> QED BY <1>4, <1>6, <2>1
<1>8. id < Byte * Byte /\ Len(body) <= Limit
  <2>1. PICK A, B : A = Field(p.topic) /\ B = When(qos > 0, Two(id))
    OBVIOUS
  <2>2. body = A \o B \o p.payload
    BY <1>3, <2>1 DEF PublishBody
  <2>3. p.topic \in Seq(Nat) /\ p.payload \in Seq(Nat) /\ qos \in Nat
    BY <1>2 DEF WrittenTo, IsText
  <2>4. PublishLaid(body, A, B, p.payload, qos)
    <3>1. PICK u, v : u = p.topic /\ v = p.payload
      OBVIOUS
    <3>2. A = Field(u) /\ B = When(qos > 0, Two(id)) /\ body = A \o B \o v
      BY <2>1, <2>2, <3>1
    <3>3. u \in Seq(Nat) /\ v \in Seq(Nat) /\ qos \in Nat /\ id \in Nat
      BY <1>2, <2>3, <3>1
    <3>4. PublishLaid(body, A, B, v, qos)
      BY ONLY <3>2, <3>3, PublishBodyIs
    <3> QED BY <3>1, <3>4
  <2>5. body \in Seq(Nat)
    BY <2>4 DEF PublishLaid
  <2>6. PICK n, l, b : n = Len(body) /\ l = Limit /\ b = Byte * Byte
    OBVIOUS
  <2>7. n \in Nat /\ l \in Nat /\ b \in Nat
    BY <2>5, <2>6, PacketsAssumption, PowerFacts
  <2> QED BY <1>2, <1>5, <2>6, <2>7
<1>9. k \in Fitting /\ NewPublishPacket(qos, p.topic, id, p.payload) = Framed(k)
  <2>1. p.topic \in Seq(Nat) /\ p.payload \in Seq(Nat) /\ Len(p.topic) < Byte * Byte
    BY DEF WrittenTo, IsText
  <2> QED BY <1>2, <1>3, <1>6, <1>8, <2>1, PublishFramed
<1>10. k.type = PacketType.PUBLISH
  BY <1>6, PacketFields
<1>11. outbox'[d] = outbox[d] \o NewPublishPacket(qos, p.topic, id, p.payload)
  BY <1>1 DEF WrittenTo
<1> QED BY <1>7, <1>9, <1>10, <1>11
-----------------------------------------------------------------------------
(***************************************************************************)
(* The stream when a publication is written.                               *)
(***************************************************************************)

\* What is expected is one publication more.
LEMMA WrittenExpected ==
    ASSUME IInv, NEW d \in Client, NEW p, NEW x, WrittenTo(d, p, x),
           \A k \in ToSet(copies[d]) : Image(k)' = Image(k)
    PROVE  Expected(d)' = Append(Expected(d), Image(x)')
<1>1. PICK s, r, l, y : s = copies[d] /\ r = copies'[d] /\ l = Len(s) /\ y = Image(x)'
  OBVIOUS
<1>2. r = Append(s, x) /\ s \in Seq(ToSet(s))
  BY <1>1, CopyOf DEF WrittenTo
<1>3. /\ l \in Nat /\ DOMAIN s = 1..l /\ DOMAIN r = 1..l+1
      /\ r[l+1] = x /\ \A i \in 1..l : r[i] = s[i]
  BY ONLY <1>1, <1>2, Appended
<1>4. PICK S : S = ToSet(s)
  OBVIOUS
<1>5. \A i \in 1..l : s[i] \in S
  BY <1>3, <1>4 DEF ToSet
<1> DEFINE V == {Image(k) : k \in S} \cup {y}
<1>6. PICK E, F, G : E = Expected(d) /\ F = Expected(d)' /\ G = Append(E, y)
  OBVIOUS
<1>7. E = [i \in 1..l |-> Image(s[i])]
  BY <1>1, <1>3, <1>6 DEF Expected
<1>8. DOMAIN F = 1..l+1 /\ F[l+1] = y /\ \A i \in 1..l : F[i] = Image(s[i])
  <2>1. F = [i \in DOMAIN copies'[d] |-> Image(copies[d][i])']
    BY <1>6 DEF Expected
  <2>2. DOMAIN F = 1..l+1
    BY <1>1, <1>3, <2>1
  <2>3. F[l+1] = y
    <3>1. l + 1 \in DOMAIN copies'[d] /\ copies'[d][l+1] = x
      BY <1>1, <1>3
    <3>2. F[l+1] = Image(copies[d][l+1])'
      BY <2>1, <3>1
    <3>3. Image(copies[d][l+1])' = Image(x)'
      BY <3>1 DEF Image, Original
    <3> QED BY <1>1, <3>2, <3>3
  <2>4. ASSUME NEW i \in 1..l PROVE F[i] = Image(s[i])
    <3>1. PICK k : k = s[i]
      OBVIOUS
    <3>2. k \in ToSet(copies[d]) /\ copies'[d][i] = k /\ i \in DOMAIN copies'[d]
      BY <1>1, <1>3, <1>4, <1>5, <3>1
    <3>3. F[i] = Image(copies[d][i])'
      BY <2>1, <3>2
    <3>4. Image(copies[d][i])' = Image(k)'
      BY <3>2 DEF Image, Original
    <3> QED BY <3>1, <3>2, <3>3, <3>4
  <2> QED BY <2>2, <2>3, <2>4
<1>9. \A i \in 1..l : Image(s[i]) \in V
  BY <1>5
<1>10. y \in V
  OBVIOUS
<1> HIDE DEF V
<1>11. E \in Seq(V) /\ Len(E) = l
  <2>1. E \in [1..l -> V]
    BY <1>7, <1>9
  <2> QED BY <1>3, <2>1, IsASeq
<1>12. PICK m : m = l + 1
  OBVIOUS
<1>13. G \in Seq(V) /\ Len(G) = m /\ G[m] = y /\ \A i \in 1..l : G[i] = E[i]
  BY <1>6, <1>10, <1>11, <1>12, Grown
<1>14. F \in Seq(V) /\ Len(F) = m
  <2>1. F = [i \in 1..m |-> F[i]]
    BY <1>6, <1>8, <1>12 DEF Expected
  <2>2. \A i \in 1..m : F[i] \in V
    BY <1>3, <1>8, <1>9, <1>10, <1>12
  <2>3. F \in [1..m -> V]
    BY <2>1, <2>2
  <2> QED BY <1>3, <1>12, <2>3, IsASeq
<1>15. \A i \in 1..m : F[i] = G[i]
  BY <1>3, <1>7, <1>8, <1>12, <1>13
<1>16. F = G
  BY <1>13, <1>14, <1>15, SeqEqual, SMTT(30)
<1> QED BY <1>1, <1>6, <1>16

\* And it is found, behind those before.
LEMMA WrittenStreams ==
    ASSUME IInv, NEW d \in Client, StreamOf(d), CopiesOf(d), \A p \in Client \cup {Service} : Extends(p),
           NEW p, NEW x, WrittenTo(d, p, x)
    PROVE  StreamOf(d)'
<1>1. \A k \in ToSet(copies[d]) : Original(k)' = Original(k)
  BY OriginalStays DEF CopiesOf
<1>2. \A k \in ToSet(copies[d]) : Image(k)' = Image(k) /\ (TooLong(k)' <=> TooLong(k))
  BY <1>1, ImageStays
<1>3. PICK s, r, b, E, y : /\ s = copies[d] /\ r = copies'[d] /\ b = outbox[d] /\ E = Expected(d)
                           /\ y = Image(x)'
  OBVIOUS
<1>4. r = Append(s, x) /\ s \in Seq(ToSet(s))
  BY <1>3, CopyOf DEF WrittenTo
<1>5. ToSet(r) = ToSet(s) \cup {x}
  BY ONLY <1>4, Appended
<1>6. ASSUME \A k \in ToSet(copies'[d]) : ~TooLong(k)' PROVE Stream(outbox'[d], Watched, Expected(d)')
  <2>1. ~TooLong(x)' /\ \A k \in ToSet(copies[d]) : ~TooLong(k)
    BY <1>2, <1>3, <1>5, <1>6
  <2>2. Stream(b, Watched, E)
    BY <1>3, <2>1 DEF StreamOf
  <2>3. y \in Fitting /\ y.type = PacketType.PUBLISH /\ outbox'[d] = b \o Framed(y)
    BY <1>3, <2>1, WrittenFramed
  <2>4. Keep(E, y, Watched) = Append(E, y)
    BY <2>3 DEF Keep, Watched
  <2>5. Stream(b \o Framed(y), Watched, Append(E, y))
    BY <2>2, <2>3, <2>4, StreamMore
  <2>6. Expected(d)' = Append(E, y)
    BY <1>2, <1>3, WrittenExpected
  <2> QED BY <2>3, <2>5, <2>6
<1> QED BY <1>6 DEF StreamOf, Expected, Watched, Image, TooLong, Original
-----------------------------------------------------------------------------
(***************************************************************************)
(* The stream under the steps of the handlers and of the gRPC service.     *)
(***************************************************************************)

\* SendMessage writes that, to a client that is connected.
LEMMA SentWritten ==
    ASSUME IInv, Shape, NEW k \in Client, NEW from, NEW nth, NEW pub, NEW qos \in {0, 2}, NEW id \in Nat,
           SendMessage(k, from, nth, pub, qos, id),
           NEW x, x = [from |-> from, nth |-> nth, qos |-> qos, id |-> id],
           IsText(pub.topic), pub.payload \in Seq(Nat),
           sent'[from][nth].pub.topic = pub.topic, sent'[from][nth].pub.payload = pub.payload,
           NEW d \in Client
    PROVE  (copies'[d] = copies[d] /\ outbox'[d] = outbox[d]) \/ WrittenTo(d, pub, x)
<1>1. CASE k \notin connections
  BY <1>1 DEF SendMessage, output
<1>2. CASE k \in connections
  <2>1. PICK b : b = NewPublishPacket(qos, pub.topic, id, pub.payload)
    OBVIOUS
  <2>2. /\ outbox' = [outbox EXCEPT ![k] = outbox[k] \o b]
        /\ copies' = [copies EXCEPT ![k] = Append(copies[k], x)]
    BY <1>2, <2>1 DEF SendMessage
  <2>3. DOMAIN outbox = Client /\ DOMAIN copies = Client
    BY DEF Shape, IInv, Written
  <2>4. CASE d # k
    BY <2>2, <2>3, <2>4
  <2>5. CASE d = k
    <3>1. outbox'[d] = outbox[d] \o b /\ copies'[d] = Append(copies[d], x)
      BY <2>2, <2>3, <2>5
    <3>2. x.from = from /\ x.nth = nth /\ x.qos = qos /\ x.id = id
      OBVIOUS
    <3> QED BY <2>1, <3>1, <3>2 DEF WrittenTo
  <2> QED BY <2>4, <2>5
<1> QED BY <1>1, <1>2

\* Deliver keeps every stream in step.
LEMMA DeliverStreams ==
    ASSUME IInv, Shape, Working, NEW c \in Client, NEW e, NEW x, DeliverIs(c, e, x), NEW d \in Client,
           StreamOf(d), \A p \in Client \cup {Service} : Extends(p)
    PROVE  StreamOf(d)'
<1>1. PICK s, nth, pub, qos, id, k : /\ s = th[c] /\ nth = s.read /\ pub = s.pub /\ qos = e.qos /\ id = s.id
                                     /\ k = e.client
  OBVIOUS
<1>2. /\ e \in s.cur /\ e \in s.todo /\ s.pc = "deliver" /\ k \in Client /\ sent' = sent /\ id \in Nat
      /\ SendMessage(k, c, nth, pub, qos, id) /\ x = [from |-> c, nth |-> nth, qos |-> qos, id |-> id]
  BY <1>1, StageOf DEF DeliverIs
<1>3. ThreadOK(c, s)
  BY <1>1 DEF Working, WorkOf
<1>4. qos \in {0, 2}
  BY <1>1, <1>2, <1>3 DEF ThreadOK, Backed
<1>5. nth \in 1..Len(sent[c]) /\ pub = Bare(sent[c][nth].pub)
  BY <1>1, <1>2, <1>3 DEF ThreadOK, Works
<1>6. PICK p : p = sent[c][nth].pub
  OBVIOUS
<1>7. IsPublication(p)
  BY <1>5, <1>6, PublicationOf, PublicationAssumption
<1>8. pub.topic = p.topic /\ pub.payload = p.payload
  BY <1>5, <1>6 DEF Bare
<1>9. IsText(pub.topic) /\ pub.payload \in Seq(Nat)
  BY <1>7, <1>8 DEF IsPublication
<1>10. sent'[c][nth].pub.topic = pub.topic /\ sent'[c][nth].pub.payload = pub.payload
  BY <1>2, <1>6, <1>8
<1>11. (copies'[d] = copies[d] /\ outbox'[d] = outbox[d]) \/ WrittenTo(d, pub, x)
  BY <1>2, <1>4, <1>9, <1>10, SentWritten
<1>12. CopiesOf(d)
  BY DEF Working
<1> QED BY <1>11, <1>12, StreamsSame, WrittenStreams

\* So does SetDevicesState.
LEMMA ServiceStreams ==
    ASSUME IInv, Shape, Working, NEW k \in Client, NEW p, NEW x, ServiceIs(k, p, x), NEW d \in Client,
           StreamOf(d), \A q \in Client \cup {Service} : Extends(q)
    PROVE  StreamOf(d)'
<1>1. PICK nth, z : z = 0 /\ nth = Len(sent[Service]) + 1
  OBVIOUS
<1>2. /\ p \in Switch /\ z \in Nat /\ z \in {0, 2} /\ SendMessage(k, Service, nth, p, z, z)
      /\ x = [from |-> Service, nth |-> nth, qos |-> z, id |-> z]
  BY <1>1 DEF ServiceIs
<1>3. IsText(p.topic) /\ p.payload \in Seq(Nat)
  BY <1>2, PublicationAssumption DEF IsPublication
<1>4. sent'[Service][nth].pub = p
  BY <1>1, ServiceGenuine
<1>5. sent'[Service][nth].pub.topic = p.topic /\ sent'[Service][nth].pub.payload = p.payload
  BY <1>4
<1>6. (copies'[d] = copies[d] /\ outbox'[d] = outbox[d]) \/ WrittenTo(d, p, x)
  BY <1>2, <1>3, <1>5, SentWritten
<1>7. CopiesOf(d)
  BY DEF Working
<1> QED BY <1>6, <1>7, StreamsSame, WrittenStreams

\* It is so at first.
LEMMA StreamsInit == Init => Streams
<1>1. ASSUME Init, NEW d \in Client PROVE StreamOf(d)
  <2>1. copies[d] = <<>> /\ outbox[d] = <<>>
    BY <1>1 DEF Init
  <2>2. DOMAIN copies[d] = {}
    BY <2>1
  <2>3. Expected(d) = <<>>
    BY <2>2 DEF Expected
  <2> QED BY <2>1, <2>3, StreamNone DEF StreamOf
<1> QED BY <1>1 DEF Streams

\* And after every step.
LEMMA StreamsStep ==
    ASSUME IInv, Shape, Reading, Working, Streams, [Next]_vars
    PROVE  Streams'
<1>1. \A p \in Client \cup {Service} : Extends(p)
  BY ShapeStep
<1>2. \A d \in Client : StreamOf(d) /\ CopiesOf(d)
  BY DEF Streams, Working
<1>3. ASSUME UNCHANGED <<outbox, copies>> PROVE Streams'
  BY <1>1, <1>2, <1>3, StreamsSame DEF Streams
<1>4. CASE UNCHANGED vars
  BY <1>3, <1>4 DEF vars, broker, output
<1>5. ASSUME NEW c \in Client, Handler(c) PROVE Streams'
  <2>1. ReadingOf(c)
    BY DEF Reading
  <2>2. \/ Settles(c) \/ Takes(c) \/ SaveSession(c) \/ MatchTopic(c) \/ Number(c) \/ Numbering(c) \/ Deliver(c)
    BY <1>5, <2>1, HandlerDoes
  <2>3. CASE Settles(c)
    BY <1>1, <1>2, <2>3, ToldStreams, SMTT(30) DEF Settles, Streams
  <2>4. CASE Takes(c) \/ SaveSession(c) \/ MatchTopic(c) \/ Number(c) \/ Numbering(c)
    BY <1>3, <2>4 DEF Takes, SaveSession, MatchTopic, Number, Numbering, output
  <2>5. CASE Deliver(c)
    <3>1. PICK e, x : DeliverIs(c, e, x)
      BY <2>5, DeliverDoes
    <3> QED BY <1>1, <1>2, <3>1, DeliverStreams DEF Streams
  <2> QED BY <2>2, <2>3, <2>4, <2>5
<1>6. ASSUME NEW c \in Client, Peer(c) PROVE Streams'
  <2>1. PeerLeaves(c)
    BY <1>6, PeerKeeps DEF Shape
  <2> QED BY <1>3, <2>1 DEF PeerLeaves, broker, output
<1>7. ASSUME NEW k \in Client, SetDevicesState(k) PROVE Streams'
  <2>1. ServiceLeaves(k)
    BY <1>7, ServiceKeeps DEF Shape
  <2>2. PICK p, x : ServiceIs(k, p, x)
    BY <2>1, ServiceDoes
  <2> QED BY <1>1, <1>2, <2>2, ServiceStreams DEF Streams
<1> QED BY <1>4, <1>5, <1>6, <1>7 DEF Next, Rest

\* In every reachable state what was written to a client by its own handler, by the handlers
\* of others and by the gRPC service is a sequence of whole packets, of which those that are
\* PUBLISH are its copies in order.
THEOREM StreamsHold == Spec => []Streams
<1>1. IInv /\ Shape /\ Reading /\ Working /\ Streams /\ [Next]_vars => Streams'
  BY StreamsStep
<1> QED BY <1>1, StreamsInit, WorkingHolds, ReadingHolds, ShapeHolds, Invariant, PTL DEF Spec

\* In every reachable state a subscriber that reads what SendMessage has written to its
\* connection gets whole packets, and among them the copies of what publishers sent, in the
\* order in which they were written, with the topic, the payload, the QoS and the identifier,
\* unless one was too long for the protocol.
THEOREM StreamsKept == Spec => []StreamsInStep
<1>1. IInv /\ Streams => StreamsInStep
  <2> SUFFICES ASSUME IInv, Streams, NEW c \in Client, \A i \in DOMAIN copies[c] : ~TooLong(copies[c][i])
               PROVE  PacketsIn(outbox[c], {Torn.type, PacketType.PUBLISH})
                      = [i \in DOMAIN copies[c] |->
                            LET k == copies[c][i] IN
                            [type |-> PacketType.PUBLISH, flags |-> 2 * k.qos,
                             body |-> PublishBody(Original(k), k.qos, k.id)]]
    BY DEF StreamsInStep
  <2>1. \A k \in ToSet(copies[c]) : ~TooLong(k)
    BY DEF ToSet
  <2>2. Stream(outbox[c], Watched, Expected(c))
    BY <2>1 DEF Streams, StreamOf
  <2>3. PacketsIn(outbox[c], Watched) = Expected(c)
    BY <2>2, StreamFound
  <2> QED BY <2>3 DEF Watched, Expected, Image, PacketWith
<1> QED BY <1>1, StreamsHold, Invariant, PTL
=============================================================================
