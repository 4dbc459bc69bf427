-------------------------- MODULE PublishFlowProps --------------------------
(***************************************************************************)
(* What publishers and subscribers may rely on, and what they may not.     *)
(***************************************************************************)
EXTENDS PublishFlow

\* Where a handler has a publication in work.
AtWork == {"save", "match", "route", "create", "return", "number", "deliver"}

IsPub(p) == DOMAIN p = DOMAIN NoPub /\ p.qos \in 0..2 /\ p.id \in 0..Byte * Byte - 1

(***************************************************************************)
(* Types.  A handler that takes part in publishing has a publication with  *)
(* a payload, and a copy on its way is for a subscription to its topic.    *)
(***************************************************************************)
TypeOK ==
    /\ connections \subseteq Client /\ behaved \subseteq Client
    /\ \A c \in Client :
          /\ th[c].pc \in {"first", "read", "closed"} \cup AtWork
          /\ c \in connections <=> th[c].pc \notin {"first", "closed"}
          /\ IsPub(th[c].pub)
          /\ th[c].pc \in AtWork => th[c].pub.payload # <<>>
          /\ manager[c] \in IF th[c].pc = "number" THEN DOMAIN currentID ELSE {0}
          /\ th[c].cur \subseteq th[c].todo
          /\ \A e \in th[c].todo : e.topic = th[c].pub.topic
          /\ th[c].read \in 0..Len(sent[c])
          /\ stored[c] \in SUBSET ((1..Byte * Byte - 1) \X {e.topic : e \in Publication})
    /\ \A e \in tree \cup seen : e.client \in Client /\ e.qos \in {0, 2}
    /\ currentID \in Seq(Nat \ {0})
    /\ crashed \in {"no", "nil", "slice"}
    /\ spent.errors \in Nat /\ spent.outdated \in Nat
    /\ spent.errors + spent.outdated <= MaxMishaps /\ spent.packets \in 0..MaxPackets

Original(k) == sent[k.from][k.nth].pub

\* The two bytes of an identifier may not fit into a packet of greatest size, and
\* an identifier that has outgrown two bytes is cut.
TooLong(k) == k.id >= Byte * Byte \/ Len(PublishBody(Original(k), k.qos, k.id)) > Limit

(***************************************************************************)
(* What a subscriber reads from its connection is a sequence of whole      *)
(* packets, and the publications among them are, in the order in which     *)
(* they were written, copies of what publishers sent: topic, payload, the  *)
(* QoS of the subscription, the identifier if there is one.  The exception *)
(* is a connection to which a publication was written that an identifier   *)
(* has made longer than the protocol allows; it never comes into step      *)
(* again.                                                                  *)
(***************************************************************************)
StreamsInStep ==
    \A c \in Client :
        (\A i \in DOMAIN copies[c] : ~TooLong(copies[c][i])) =>
            PacketsIn(outbox[c], {Torn.type, PacketType.PUBLISH})
            = [i \in DOMAIN copies[c] |->
                  LET k == copies[c][i] IN
                  [type |-> PacketType.PUBLISH, flags |-> 2 * k.qos,
                   body |-> PublishBody(Original(k), k.qos, k.id)]]

(***************************************************************************)
(* A subscriber gets the publications of one publisher in the order in     *)
(* which they were sent, and none of them twice, whatever the handlers of  *)
(* other publishers write in between.  Filters have no wildcards here, and *)
(* the list of a node is read in one piece: a list that is shortened in    *)
(* place, without a lock, while a match copies it is left out.             *)
(***************************************************************************)
InOrderOnce ==
    \A c \in Client : \A i, j \in DOMAIN copies[c] :
        i < j /\ copies[c][i].from = copies[c][j].from => copies[c][i].nth < copies[c][j].nth

(***************************************************************************)
(* No copy has a higher QoS than its subscriber asked for, whatever the    *)
(* byte in SUBSCRIBE was.                                                  *)
(***************************************************************************)
QoSAsAsked ==
    \A c \in Client : \A i \in DOMAIN copies[c] :
        LET k == copies[c][i] IN
        k.qos > 0 => \E a \in asked : /\ a.client = c /\ a.topic = Original(k).topic
                                      /\ a.qos >= k.qos

(***************************************************************************)
(* No copy with QoS 2 carries identifier 0, and no two carry the same, as  *)
(* long as one identifier manager was made.  Two handlers that number the  *)
(* first copies at one time may make two, and each gives out 1 (Regular of *)
(* PacketID).  A publication with QoS 0 goes out with QoS 2 and identifier *)
(* 0, and the counter of a manager does not come round here.               *)
(***************************************************************************)
OneManager == Len(currentID) <= 1

Apart ==
    \A c, d \in Client : \A i \in DOMAIN copies[c], j \in DOMAIN copies[d] :
        copies[c][i].id = copies[d][j].id /\ copies[c][i].id # 0 => c = d /\ i = j

Numbered ==
    \A c \in Client : \A i \in DOMAIN copies[c] :
        LET k == copies[c][i] IN k.qos > 0 /\ Original(k).qos > 0 => k.id # 0

NumberedApart == Numbered /\ (OneManager => Apart)

(***************************************************************************)
(* A publication with QoS 1 or 2 is on record in the session of its        *)
(* publisher before anybody gets it, and in the database, too, unless the  *)
(* session is temporary or a call failed.  Nothing takes the record out    *)
(* again, but a later publication with the same identifier replaces it.    *)
(***************************************************************************)
OnRecord(k, pairs) ==
    \E n \in k.nth..th[k.from].read :
        LET later == sent[k.from][n].pub IN
        later.id = Original(k).id /\ <<later.id, later.topic>> \in pairs

RecordedFirst ==
    \A c \in Client : \A i \in DOMAIN copies[c] :
        LET k == copies[c][i] IN
        Original(k).qos > 0 =>
            /\ OnRecord(k, PendingPublish[k.from])
            /\ OnRecord(k, stored[k.from]) \/ spent.errors > 0 \/ th[k.from].info.CleanSession

(***************************************************************************)
(* Once a publication was handled, every client that is still connected    *)
(* and was subscribed from when it was sent until its subscribers were     *)
(* looked up (due) has got it, unless it has no payload.  Who is not due:  *)
(* whose subscription was withdrawn, or lost when an outdated node was     *)
(* saved or two handlers saved one node (Release), and from whom an        *)
(* outdated cache entry has hidden the publication (Miss); the run         *)
(* tree_stale_match shows such an entry.  No database call has failed.     *)
(***************************************************************************)
ReachesSubscribers ==
    spent.errors = 0 =>
        \A p \in Client : \A n \in 1..th[p].read :
            /\ n < th[p].read \/ th[p].pc \in {"read", "closed"}
            /\ sent[p][n].pub.payload # <<>>
            => \A c \in sent[p][n].due \cap connections :
                  \E i \in DOMAIN copies[c] : copies[c][i].from = p /\ copies[c][i].nth = n

(***************************************************************************)
(* The handshake finds in a CONNECT what the client has put there, with    *)
(* any combination of its optional fields.                                 *)
(***************************************************************************)
ConnectRead == \A c \in connections : th[c].info = claims[c]

(***************************************************************************)
(* The handler of a client that sends packets the broker supports, as the  *)
(* protocol lays them out, does not close its connection; and no packet,   *)
(* right or wrong, makes a parser read beyond the end of its body.  A nil  *)
(* dereference, after the bad CONNECT of another client or a call that     *)
(* fails, ends the process and all its connections: that is no close by a  *)
(* handler and is not counted.                                             *)
(***************************************************************************)
BehavedStay == crashed # "slice" /\ \A c \in behaved : th[c].pc # "closed"

(***************************************************************************)
(* The publisher is sent the acknowledgement that HandlePublishPacket      *)
(* returns for it.                                                         *)
(***************************************************************************)
Answered ==
    \A c \in connections : th[c].pc = "read" =>
        \A n \in 1..th[c].read :
            LET p == sent[c][n].pub IN
            p.qos > 0 /\ p.payload # <<>> =>
                [type |-> IF p.qos = 1 THEN PacketType.PUBACK ELSE PacketType.PUBREC,
                 flags |-> 0, body |-> Two(p.id)]
                \in ToSet(PacketsIn(outbox[c], {PacketType.PUBACK, PacketType.PUBREC}))
=============================================================================
