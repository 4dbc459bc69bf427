-------------------------- MODULE ConnectionHandler --------------------------
(***************************************************************************)
(* internal/server and internal/connection: the accept loop with its       *)
(* semaphore, one handler goroutine per TCP connection, and the map from   *)
(* client identifiers to connections through which messages are routed.    *)
(*                                                                         *)
(* A packet is what its handling does to the connection; which clients a   *)
(* publication goes to is the answer of the subscription tree, here any    *)
(* set.  A read that waits can time out whenever its deadline is armed.    *)
(***************************************************************************)
EXTENDS Naturals, FiniteSets

CONSTANTS
    Conn,        \* the TCP connections that are ever dialled
    Client,      \* client identifiers
    NoConn,      \* no entry in the map
    NoClient,    \* the nil clientSession
    MaxConns,    \* capacity of sem, 10000 in the code
    MaxInbox,    \* bound on the packets a peer sends ahead of the handler
    Allowed      \* the mishaps of this instance, a subset of Mishap

Mishap == {"garbage",     \* a first packet that is no CONNECT or a bad one
           "lateFirst",   \* the peer hangs up or times out before its CONNECT
           "database",    \* the session cannot be saved
           "stall",       \* the peer stops reading and its window is full
           "noKeepAlive"} \* a CONNECT with keep alive 0

ASSUME ConnectionAssumption ==
    /\ IsFiniteSet(Conn)
    /\ NoConn \notin Conn /\ NoClient \notin Client
    /\ MaxConns \in Nat \ {0} /\ MaxInbox \in Nat \ {0}
    /\ Allowed \subseteq Mishap

VARIABLES
    peer,        \* connection -> what its peer does
    inbox,       \* connection -> packets sent and not yet read
    pc,          \* connection -> where its handler, or the accept loop, is
    session,     \* connection -> the client of c.clientSession
    keepAlive,   \* connection -> c.keepAlive is not zero
    todo,        \* connection -> clients its publication has still to go to
    target,      \* connection -> the connection SendMessage has looked up
    registry,    \* ConnectionManager.connections
    sem,         \* tokens in the channel
    crashed,     \* a goroutine has panicked and the process is gone
    overlapped   \* history: clients with two handlers at the same time

peers   == <<peer, inbox>>
locals  == <<session, keepAlive, todo, target>>
globals == <<registry, sem, crashed, overlapped>>
vars    == <<peers, pc, locals, globals>>

Init ==
    /\ peer = [c \in Conn |-> "absent"]
    /\ inbox = [c \in Conn |-> 0]
    /\ pc = [c \in Conn |-> "none"]
    /\ session = [c \in Conn |-> NoClient]
    /\ keepAlive = [c \in Conn |-> TRUE]
    /\ todo = [c \in Conn |-> {}]
    /\ target = [c \in Conn |-> NoConn]
    /\ registry = [k \in Client |-> NoConn]
    /\ sem = 0
    /\ crashed = FALSE
    /\ overlapped = {}

\* A goroutine goes on, as long as the process is there.
Goto(c, where) == ~crashed /\ pc' = [pc EXCEPT ![c] = where]

\* The loop of handlePacket; from the CONNECT to RemoveConnection; after Close.
InLoop(c)  == pc[c] \in {"read", "pong", "ack", "route", "deliver"}
Owning(c)  == InLoop(c) \/ pc[c] \in {"connack", "register", "remove"}
Closed(c)  == pc[c] \in {"release", "done"}
Running(c) == pc[c] \notin {"none", "dialed", "accepted", "done"}
-----------------------------------------------------------------------------
(***************************************************************************)
(* The peers, over which the broker has no power.                          *)
(***************************************************************************)
Dial(c) ==
    /\ pc[c] = "none"
    /\ peer' = [peer EXCEPT ![c] = "open"]
    /\ Goto(c, "dialed")
    /\ UNCHANGED <<inbox, locals, globals>>

Transmit(c) ==
    /\ ~crashed
    /\ peer[c] \in {"open", "stalled"} /\ inbox[c] < MaxInbox
    /\ inbox' = [inbox EXCEPT ![c] = @ + 1]
    /\ UNCHANGED <<peer, pc, locals, globals>>

\* The CONNECT is on its way or handled, unless this instance has late peers.
Punctual(c) ==
    \/ "lateFirst" \in Allowed
    \/ inbox[c] > 0
    \/ pc[c] \notin {"dialed", "accepted", "first"}

\* Silent peers send nothing any more, stalled ones read nothing any more.
Change(c) ==
    /\ ~crashed
    /\ \E p \in {"stalled", "silent", "gone"} :
          /\ peer[c] = "open" \/ (p = "gone" /\ peer[c] \in {"stalled", "silent"})
          /\ p = "stalled" => "stall" \in Allowed
          /\ p \in {"silent", "gone"} => Punctual(c)
          /\ peer' = [peer EXCEPT ![c] = p]
    /\ UNCHANGED <<inbox, pc, locals, globals>>
-----------------------------------------------------------------------------
(***************************************************************************)
(* StartServer: the loop holds one accepted connection until sem has room. *)
(***************************************************************************)
Accept(c) ==
    /\ pc[c] = "dialed"
    /\ \A d \in Conn : pc[d] # "accepted"
    /\ Goto(c, "accepted")
    /\ UNCHANGED <<peers, locals, globals>>

\* Mutant: the handler starts whether sem has room or not.
AcquireAnyway(c) ==
    /\ pc[c] = "accepted"
    /\ sem' = sem + 1
    /\ Goto(c, "first")
    /\ UNCHANGED <<peers, locals, registry, crashed, overlapped>>

Acquire(c) ==
    /\ pc[c] = "accepted" /\ sem < MaxConns
    /\ sem' = sem + 1
    /\ Goto(c, "first")
    /\ UNCHANGED <<peers, locals, registry, crashed, overlapped>>
-----------------------------------------------------------------------------
(***************************************************************************)
(* Reading.  A deadline of one minute guards the first packet; after it    *)
(* the keep alive interval, if there is one, guards each read.             *)
(***************************************************************************)
\* Mutant: only the first read has a deadline.
ArmedOnce(c) == pc[c] = "first"

Armed(c) == \/ pc[c] = "first"
            \/ pc[c] = "read" /\ keepAlive[c]

ReadError(c) ==
    /\ pc[c] \in {"first", "read"}
    /\ peer[c] = "gone" \/ Armed(c)
    /\ pc[c] = "first" => "lateFirst" \in Allowed
    /\ Goto(c, "remove")
    /\ UNCHANGED <<peers, locals, globals>>

Received(c) == inbox[c] > 0 /\ inbox' = [inbox EXCEPT ![c] = @ - 1]

(***************************************************************************)
(* handleFirstPacket.  A packet that is no CONNECT returns the nil error   *)
(* of the read, and the handler goes on without a session.                 *)
(***************************************************************************)
FirstPacketRejected(c) ==
    /\ pc[c] = "first" /\ Received(c)
    /\ \/ "garbage" \in Allowed /\ \E to \in {"read", "remove", "refuse"} : Goto(c, to)
       \/ "database" \in Allowed /\ Goto(c, "refuse")
    /\ UNCHANGED <<peer, locals, globals>>

\* Mutant: the session that was found is not handed to the handler.
ConnectForgets(c) ==
    /\ pc[c] = "first" /\ Received(c)
    /\ Goto(c, "read")
    /\ UNCHANGED <<peer, locals, globals>>

\* HandlerConnectPacket finds or makes the session of the client.
Connect(c) ==
    /\ pc[c] = "first" /\ Received(c)
    /\ \E k \in Client :
          /\ session' = [session EXCEPT ![c] = k]
          /\ overlapped' = IF \E d \in Conn : Owning(d) /\ session[d] = k
                           THEN overlapped \cup {k} ELSE overlapped
    /\ Goto(c, "connack")
    /\ UNCHANGED <<peer, keepAlive, todo, target, registry, sem, crashed>>

\* Mutant: the connections without keep alive are not registered.
RegisterGuarded(c) ==
    /\ pc[c] = "register"
    /\ \E ka \in IF "noKeepAlive" \in Allowed THEN BOOLEAN ELSE {TRUE} :
          /\ keepAlive' = [keepAlive EXCEPT ![c] = ka]
          /\ registry' = IF ka THEN [registry EXCEPT ![session[c]] = c] ELSE registry
    /\ Goto(c, "read")
    /\ UNCHANGED <<peers, session, todo, target, sem, crashed, overlapped>>

\* AddConnection replaces the entry of an earlier connection of the client.
Register(c) ==
    /\ pc[c] = "register"
    /\ registry' = [registry EXCEPT ![session[c]] = c]
    /\ \E ka \in IF "noKeepAlive" \in Allowed THEN BOOLEAN ELSE {TRUE} :
          keepAlive' = [keepAlive EXCEPT ![c] = ka]
    /\ Goto(c, "read")
    /\ UNCHANGED <<peers, session, todo, target, sem, crashed, overlapped>>
-----------------------------------------------------------------------------
(***************************************************************************)
(* Writing.  A write has no deadline: it waits for a stalled peer.         *)
(***************************************************************************)
Succeeds(d) == ~Closed(d) /\ peer[d] # "stalled"
Fails(d)    == Closed(d) \/ peer[d] = "gone"

\* The answers to the own peer, and where each outcome of the write leads.
Reply(c) ==
    /\ \E step \in {[at |-> "refuse",  ok |-> "remove",   err |-> "remove"],
                    [at |-> "connack", ok |-> "register", err |-> "remove"],
                    [at |-> "pong",    ok |-> "read",     err |-> "read"],
                    [at |-> "ack",     ok |-> "read",     err |-> "remove"]} :
          /\ pc[c] = step.at
          /\ \/ Succeeds(c) /\ Goto(c, step.ok)
             \/ Fails(c) /\ Goto(c, step.err)
    /\ UNCHANGED <<peers, locals, globals>>

Panic == ~crashed /\ crashed' = TRUE /\ UNCHANGED <<pc, registry, sem, overlapped>>
Nil(c) == session[c] = NoClient
-----------------------------------------------------------------------------
(***************************************************************************)
(* handlePacket, by what a packet does: it ends the connection, is only    *)
(* answered, uses the session and is answered, or is routed to clients.    *)
(***************************************************************************)
EndingPacket(c) ==
    /\ pc[c] = "read" /\ Received(c)
    /\ \/ Goto(c, "remove") /\ UNCHANGED globals      \* malformed, CONNECT, unknown
       \/ Nil(c) /\ Panic                             \* DISCONNECT
    /\ UNCHANGED <<peer, locals>>

AnsweredPacket(c) ==
    /\ pc[c] = "read" /\ Received(c)
    /\ \/ Goto(c, "pong") /\ UNCHANGED globals        \* PINGREQ
       \/ Goto(c, "ack") /\ UNCHANGED globals
          \* SUBSCRIBE, UNSUBSCRIBE; without a session UNSUBSCRIBE from nothing
       \/ Nil(c) /\ Panic
    /\ UNCHANGED <<peer, locals>>

\* PUBLISH: QoS 1 and 2 use the session first; a zero payload goes to nobody.
Publish(c) ==
    /\ pc[c] = "read" /\ Received(c)
    /\ \/ /\ Nil(c) /\ Panic
          /\ UNCHANGED todo
       \/ /\ Goto(c, "route")
          /\ \E K \in SUBSET Client : todo' = [todo EXCEPT ![c] = K]
          /\ UNCHANGED globals
    /\ UNCHANGED <<peer, session, keepAlive, target>>

\* SendMessage: the lookup, and later the write to what was found.
Route(c) ==
    /\ pc[c] = "route"
    /\ \/ /\ todo[c] = {}
          /\ Goto(c, "read")
          /\ UNCHANGED <<todo, target>>
       \/ \E k \in todo[c] :
             /\ todo' = [todo EXCEPT ![c] = @ \ {k}]
             /\ target' = [target EXCEPT ![c] = registry[k]]
             /\ Goto(c, IF registry[k] = NoConn THEN "route" ELSE "deliver")
    /\ UNCHANGED <<peers, session, keepAlive, globals>>

\* Mutant: a write that fails takes the entry out of the map.
DeliverEvicts(c) ==
    /\ pc[c] = "deliver"
    /\ \/ Succeeds(target[c]) /\ UNCHANGED registry
       \/ /\ Fails(target[c])
          /\ registry' = [k \in Client |-> IF registry[k] = target[c] THEN NoConn ELSE registry[k]]
    /\ target' = [target EXCEPT ![c] = NoConn]
    /\ Goto(c, "route")
    /\ UNCHANGED <<peers, session, keepAlive, todo, sem, crashed, overlapped>>

Deliver(c) ==
    /\ pc[c] = "deliver"
    /\ Succeeds(target[c]) \/ Fails(target[c])
    /\ target' = [target EXCEPT ![c] = NoConn]
    /\ Goto(c, "route")
    /\ UNCHANGED <<peers, session, keepAlive, todo, globals>>
-----------------------------------------------------------------------------
(***************************************************************************)
(* The deferred function of handleConnection, then the release of sem.     *)
(***************************************************************************)
\* Mutant: the deferred function closes and forgets the entry in the map.
RemoveForgotten(c) ==
    /\ pc[c] = "remove"
    /\ \/ Nil(c) /\ Panic
       \/ ~Nil(c) /\ Goto(c, "close") /\ UNCHANGED globals
    /\ UNCHANGED <<peers, locals>>

Remove(c) ==
    /\ pc[c] = "remove"
    /\ \/ Nil(c) /\ Panic
       \/ /\ ~Nil(c)
          /\ registry' = [registry EXCEPT ![session[c]] = NoConn]
          /\ Goto(c, "close")
          /\ UNCHANGED <<sem, crashed, overlapped>>
    /\ UNCHANGED <<peers, locals>>

Close(c) ==
    /\ pc[c] = "close"
    /\ Goto(c, "release")
    /\ UNCHANGED <<peers, locals, globals>>

\* Mutant: the token stays in the channel.
ReleaseForgotten(c) ==
    /\ pc[c] = "release"
    /\ Goto(c, "done")
    /\ UNCHANGED <<peers, locals, globals>>

Release(c) ==
    /\ pc[c] = "release"
    /\ sem' = sem - 1
    /\ Goto(c, "done")
    /\ UNCHANGED <<peers, locals, registry, crashed, overlapped>>
-----------------------------------------------------------------------------
Peer(c) == Dial(c) \/ Transmit(c) \/ Change(c)

Handler(c) ==
    \/ ReadError(c) \/ FirstPacketRejected(c) \/ Connect(c) \/ Register(c)
    \/ Reply(c) \/ EndingPacket(c) \/ AnsweredPacket(c) \/ Publish(c)
    \/ Route(c) \/ Deliver(c) \/ Remove(c) \/ Close(c) \/ Release(c)

\* The process is gone, or every peer is and its connection is finished.
Rest == /\ \/ crashed
           \/ \A c \in Conn : peer[c] = "gone" /\ pc[c] = "done"
        /\ UNCHANGED vars

Next == \/ \E c \in Conn : Peer(c) \/ Accept(c) \/ Acquire(c) \/ Handler(c)
        \/ Rest

\* Goroutines that can run do run; the peers owe nothing.
Fairness == \A c \in Conn : /\ WF_vars(Handler(c))
                            /\ WF_vars(Accept(c) \/ Acquire(c))

Spec     == Init /\ [][Next]_vars
FairSpec == Spec /\ Fairness
=============================================================================
