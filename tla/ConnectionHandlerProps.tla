----------------------- MODULE ConnectionHandlerProps -----------------------
(***************************************************************************)
(* What the accept loop, the handlers and the connection map are to        *)
(* guarantee.                                                              *)
(***************************************************************************)
EXTENDS ConnectionHandler

PeerState == {"absent", "open", "stalled", "silent", "gone"}
Location  == {"none", "dialed", "accepted", "first", "refuse", "connack",
              "register", "read", "pong", "ack", "route", "deliver", "remove",
              "close", "release", "done"}

(***************************************************************************)
(* Types, and what is between two statements of one handler: a handler     *)
(* that registers has its session, one that writes has looked somebody up. *)
(***************************************************************************)
TypeOK ==
    /\ peer \in [Conn -> PeerState]
    /\ inbox \in [Conn -> 0..MaxInbox]
    /\ pc \in [Conn -> Location]
    /\ session \in [Conn -> Client \cup {NoClient}]
    /\ keepAlive \in [Conn -> BOOLEAN]
    /\ todo \in [Conn -> SUBSET Client]
    /\ target \in [Conn -> Conn \cup {NoConn}]
    /\ registry \in [Client -> Conn \cup {NoConn}]
    /\ sem \in 0..MaxConns
    /\ crashed \in BOOLEAN
    /\ overlapped \subseteq Client
    /\ \A c \in Conn : /\ pc[c] = "register" => ~Nil(c)
                       /\ pc[c] = "deliver" => target[c] # NoConn

(***************************************************************************)
(* sem counts the handlers: it is taken before the goroutine is started    *)
(* and given back on every way out of it, so at most MaxConns run.         *)
(***************************************************************************)
PermitsMatch == sem = Cardinality({c \in Conn : Running(c)})

(***************************************************************************)
(* The map leads only to connections whose handler has yet to remove them, *)
(* and to the connection of the very client: RemoveConnection comes before *)
(* Close, whatever other connections of the client come and go.            *)
(***************************************************************************)
NoDeadEntry ==
    \A k \in Client : registry[k] # NoConn =>
        /\ InLoop(registry[k]) \/ pc[registry[k]] = "remove"
        /\ session[registry[k]] = k

(***************************************************************************)
(* A client that never had two handlers at one time can be reached from    *)
(* its registration to its removal, however often it reconnected.          *)
(***************************************************************************)
ReachableAlone ==
    \A c \in Conn : InLoop(c) /\ ~Nil(c) /\ session[c] \notin overlapped =>
        registry[session[c]] = c

(***************************************************************************)
(* The process survives as long as every first packet is a good CONNECT    *)
(* that arrives in time and the session can be saved.                      *)
(***************************************************************************)
CrashNeedsBadStart ==
    crashed => Allowed \cap {"garbage", "lateFirst", "database"} # {}

(***************************************************************************)
(* Only a handler of the client makes the client unreachable, and only as  *)
(* it ends: no other step takes an entry away.                             *)
(***************************************************************************)
EntryLostByOwnEnd ==
    [][\A k \in Client : registry[k] # NoConn /\ registry'[k] = NoConn =>
          \E c \in Conn : session[c] = k /\ pc[c] = "remove" /\ pc'[c] = "close"]_vars

(***************************************************************************)
(* A handler whose peer went silent or is gone finishes, or the process    *)
(* ends, unless the silent peer asked for no keep alive: every wait in a   *)
(* read ends by the deadline, and every other step of a handler goes on.   *)
(***************************************************************************)
Ended(c) == crashed \/ pc[c] = "done"

EndsWhenQuiet ==
    \A c \in Conn :
        Running(c) /\ peer[c] \in {"silent", "gone"}
            ~> Ended(c) \/ (peer[c] = "silent" /\ ~keepAlive[c])

(***************************************************************************)
(* Without the condition that no peer stalls: the connection of a peer     *)
(* that is gone is closed in the end (connection_handler.go:163).          *)
(***************************************************************************)
GoneIsClosed ==
    \A c \in Conn : Running(c) /\ peer[c] = "gone" ~> crashed \/ Closed(c)

(***************************************************************************)
(* A message sent to a client that has a connection registered and being   *)
(* served finds one (message_sender.go:22).                                *)
(***************************************************************************)
Reachable ==
    \A c \in Conn : InLoop(c) /\ ~Nil(c) =>
        registry[session[c]] # NoConn
=============================================================================
