---------------------- MODULE ConnectionHandler_proofs ----------------------
(***************************************************************************)
(* Proofs about the handlers and the connection map, for any number of     *)
(* connections, clients and permits, and whatever mishaps are allowed.     *)
(***************************************************************************)
EXTENDS ConnectionHandlerProps, FiniteSetTheorems, TLAPS

\* Where the session is still nil.
Before(c) == pc[c] \in {"none", "dialed", "accepted", "first", "refuse"}

BadStart == Allowed \cap {"garbage", "lateFirst", "database"} # {}

\* A handler has its session from Connect on, or it started badly.
Sessions ==
    \A c \in Conn : /\ Before(c) => Nil(c)
                    /\ pc[c] \in {"connack", "register"} => ~Nil(c)
                    /\ pc[c] = "refuse" \/ (Owning(c) /\ Nil(c)) => BadStart

\* Two handlers of one client at one time are remembered.
Owners ==
    \A c, d \in Conn : Owning(c) /\ Owning(d) /\ c # d /\ session[c] = session[d] =>
        session[c] \in overlapped \cup {NoClient}

IInv == /\ TypeOK /\ PermitsMatch
        /\ NoDeadEntry /\ ReachableAlone /\ CrashNeedsBadStart
        /\ Sessions /\ Owners

RunningSet == {c \in Conn : Running(c)}
-----------------------------------------------------------------------------
LEMMA InitInv == Init => IInv
<1> SUFFICES ASSUME Init PROVE IInv
  OBVIOUS
<1> USE ConnectionAssumption DEF Init
<1>1. TypeOK
  <2>1. inbox \in [Conn -> 0..MaxInbox] /\ sem \in 0..MaxConns
    BY SMT
  <2>2. crashed \in BOOLEAN /\ keepAlive \in [Conn -> BOOLEAN]
    BY Zenon
  <2> QED
    BY <2>1, <2>2 DEF TypeOK, PeerState, Location
<1>2. PermitsMatch
  <2>1. {c \in Conn : Running(c)} = {}
    BY DEF Running
  <2> QED
    BY <2>1, FS_EmptySet DEF PermitsMatch
<1>3. NoDeadEntry /\ ReachableAlone /\ CrashNeedsBadStart
  BY DEF NoDeadEntry, ReachableAlone, CrashNeedsBadStart, InLoop
<1>4. Sessions /\ Owners
  BY DEF Sessions, Owners, Owning, InLoop, Before, Nil
<1> QED
  BY <1>1, <1>2, <1>3, <1>4 DEF IInv
-----------------------------------------------------------------------------
(***************************************************************************)
(* The permits: a step that neither starts nor ends a handler leaves the   *)
(* set of them and the semaphore as they are.                              *)
(***************************************************************************)
LEMMA PermitsUnchanged ==
    ASSUME PermitsMatch, UNCHANGED sem,
           \A c \in Conn : Running(c)' <=> Running(c)
    PROVE  PermitsMatch'
<1>1. {c \in Conn : Running(c)}' = {c \in Conn : Running(c)}
  OBVIOUS
<1> QED
  BY <1>1 DEF PermitsMatch

LEMMA AcquirePermit ==
    ASSUME IInv, NEW c \in Conn, Acquire(c)
    PROVE  PermitsMatch' /\ sem' \in 0..MaxConns
<1> USE ConnectionAssumption
<1>1. /\ pc \in [Conn -> Location] /\ pc[c] = "accepted"
      /\ pc' = [pc EXCEPT ![c] = "first"]
      /\ sem \in 0..MaxConns /\ sem < MaxConns /\ sem' = sem + 1
  BY DEF Acquire, Goto, IInv, TypeOK
<1>2. RunningSet' = RunningSet \cup {c} /\ c \notin RunningSet
  BY <1>1 DEF RunningSet, Running
<1>3. IsFiniteSet(RunningSet)
  BY FS_Subset DEF RunningSet
<1>4. Cardinality(RunningSet') = Cardinality(RunningSet) + 1
  BY <1>2, <1>3, FS_AddElement
<1>5. PermitsMatch'
  BY <1>1, <1>4 DEF PermitsMatch, RunningSet, IInv
<1> QED
  BY <1>1, <1>5

LEMMA ReleasePermit ==
    ASSUME IInv, NEW c \in Conn, Release(c)
    PROVE  PermitsMatch' /\ sem' \in 0..MaxConns
<1> USE ConnectionAssumption
<1>1. /\ pc \in [Conn -> Location] /\ pc[c] = "release"
      /\ pc' = [pc EXCEPT ![c] = "done"]
      /\ sem \in 0..MaxConns /\ sem' = sem - 1
  BY DEF Release, Goto, IInv, TypeOK
<1>2. RunningSet' = RunningSet \ {c} /\ c \in RunningSet
  BY <1>1 DEF RunningSet, Running
<1>3. IsFiniteSet(RunningSet)
  BY FS_Subset DEF RunningSet
<1>4. Cardinality(RunningSet') = Cardinality(RunningSet) - 1
  BY <1>2, <1>3, FS_RemoveElement
<1>5. Cardinality(RunningSet) \in Nat /\ Cardinality(RunningSet) # 0
  BY <1>2, <1>3, FS_CardinalityType, FS_EmptySet
<1>6. sem = Cardinality(RunningSet)
  BY DEF PermitsMatch, RunningSet, IInv
<1>7. sem' \in 0..MaxConns
  BY <1>1, <1>5, <1>6
<1>8. PermitsMatch'
  BY <1>1, <1>4, <1>6 DEF PermitsMatch, RunningSet
<1> QED
  BY <1>7, <1>8
-----------------------------------------------------------------------------
(***************************************************************************)
(* What every step but four leaves alone: it moves one handler between two *)
(* places at which the map owes it the same.                               *)
(***************************************************************************)
LEMMA MoveInv ==
    ASSUME IInv, NEW c \in Conn, NEW to \in Location,
           pc' = [pc EXCEPT ![c] = to],
           UNCHANGED <<session, registry, overlapped, sem, crashed>>,
           Running(c) <=> to \notin {"none", "dialed", "accepted", "done"},
           \/ Before(c) /\ to \in {"none", "dialed", "accepted", "first"}
           \/ Before(c) /\ to \in {"refuse", "read", "remove"} /\ BadStart
           \/ pc[c] = "connack" /\ to \in {"register", "remove"}
           \/ InLoop(c) /\ to \in {"read", "pong", "ack", "route", "deliver", "remove"}
           \/ pc[c] = "close" /\ to = "release"
    PROVE  /\ PermitsMatch' /\ NoDeadEntry' /\ ReachableAlone'
           /\ CrashNeedsBadStart' /\ Sessions' /\ Owners'
<1> USE DEF IInv, TypeOK, Location
<1>1. PermitsMatch'
  BY PermitsUnchanged DEF Running
<1>2. NoDeadEntry'
  BY DEF NoDeadEntry, InLoop, Before, Sessions, Nil
<1>3. ReachableAlone'
  BY DEF ReachableAlone, InLoop, Before, Sessions, Nil
<1>4. CrashNeedsBadStart'
  BY DEF CrashNeedsBadStart
<1>5. Sessions'
  BY DEF Sessions, InLoop, Owning, Before, Nil, BadStart
<1>6. Owners'
  BY DEF Owners, InLoop, Owning, Before, Sessions, Nil
<1> QED
  BY <1>1, <1>2, <1>3, <1>4, <1>5, <1>6

Safe == /\ PermitsMatch /\ NoDeadEntry /\ ReachableAlone
        /\ CrashNeedsBadStart /\ Sessions /\ Owners

(***************************************************************************)
(* The four other steps: the session is found, the entry is made and taken *)
(* away, and a handler without a session panics.                           *)
(***************************************************************************)
LEMMA ConnectSafe ==
    ASSUME IInv, NEW c \in Conn, Connect(c)
    PROVE  Safe'
<1> USE ConnectionAssumption DEF IInv, TypeOK, Location
<1>1. PICK k \in Client :
          /\ session' = [session EXCEPT ![c] = k]
          /\ overlapped' = IF \E d \in Conn : Owning(d) /\ session[d] = k
                           THEN overlapped \cup {k} ELSE overlapped
  BY DEF Connect
<1>2. /\ pc[c] = "first" /\ pc' = [pc EXCEPT ![c] = "connack"]
      /\ UNCHANGED <<registry, sem, crashed>>
  BY DEF Connect, Goto
<1>3. overlapped \subseteq overlapped'
  BY <1>1
<1>4. PermitsMatch'
  BY <1>2, PermitsUnchanged DEF Running
<1>5. NoDeadEntry'
  BY <1>1, <1>2 DEF NoDeadEntry, InLoop
<1>6. ReachableAlone'
  BY <1>1, <1>2, <1>3 DEF ReachableAlone, InLoop, Nil
<1>7. CrashNeedsBadStart'
  BY <1>2 DEF CrashNeedsBadStart
<1>8. Sessions'
  BY <1>1, <1>2 DEF Sessions, InLoop, Owning, Before, Nil, BadStart
<1>9. Owners'
  <2> SUFFICES ASSUME NEW d \in Conn, NEW e \in Conn, Owning(d)', Owning(e)',
                      d # e, session'[d] = session'[e], session'[d] # NoClient
               PROVE  session'[d] \in overlapped'
    BY DEF Owners
  <2>1. CASE d = c
    BY <2>1, <1>1, <1>2 DEF Owning, InLoop
  <2>2. CASE e = c
    BY <2>2, <1>1, <1>2 DEF Owning, InLoop
  <2>3. CASE d # c /\ e # c
    BY <2>3, <1>1, <1>2, <1>3 DEF Owners, Owning, InLoop
  <2> QED
    BY <2>1, <2>2, <2>3
<1> QED
  BY <1>4, <1>5, <1>6, <1>7, <1>8, <1>9 DEF Safe

LEMMA RegisterSafe ==
    ASSUME IInv, NEW c \in Conn, Register(c)
    PROVE  Safe'
<1> USE ConnectionAssumption DEF IInv, TypeOK, Location
<1>1. /\ pc[c] = "register" /\ pc' = [pc EXCEPT ![c] = "read"]
      /\ registry' = [registry EXCEPT ![session[c]] = c]
      /\ UNCHANGED <<session, sem, crashed, overlapped>>
  BY DEF Register, Goto
<1>2. session[c] \in Client
  BY <1>1 DEF Nil
<1>3. PermitsMatch'
  BY <1>1, PermitsUnchanged DEF Running
<1>4. NoDeadEntry'
  BY <1>1, <1>2 DEF NoDeadEntry, InLoop
<1>5. ReachableAlone'
  <2> SUFFICES ASSUME NEW d \in Conn, InLoop(d)', ~Nil(d)', session'[d] \notin overlapped'
               PROVE  registry'[session'[d]] = d
    BY DEF ReachableAlone
  <2>1. CASE d = c
    BY <2>1, <1>1, <1>2
  <2>2. CASE d # c
    <3>1. InLoop(d) /\ session[d] \in Client /\ registry[session[d]] = d
      BY <2>2, <1>1 DEF ReachableAlone, InLoop, Nil
    <3>2. session[d] # session[c]
      BY <2>2, <3>1, <1>1, <1>2 DEF Owners, Owning, Nil
    <3> QED
      BY <3>1, <3>2, <1>1
  <2> QED
    BY <2>1, <2>2
<1>6. CrashNeedsBadStart'
  BY <1>1 DEF CrashNeedsBadStart
<1>7. Sessions'
  BY <1>1 DEF Sessions, InLoop, Owning, Before, Nil, BadStart
<1>8. Owners'
  BY <1>1 DEF Owners, Owning, InLoop
<1> QED
  BY <1>3, <1>4, <1>5, <1>6, <1>7, <1>8 DEF Safe

LEMMA RemoveSafe ==
    ASSUME IInv, NEW c \in Conn, Remove(c), ~Nil(c)
    PROVE  Safe'
<1> USE ConnectionAssumption DEF IInv, TypeOK, Location
<1>1. /\ pc[c] = "remove" /\ pc' = [pc EXCEPT ![c] = "close"]
      /\ registry' = [registry EXCEPT ![session[c]] = NoConn]
      /\ session[c] \in Client
      /\ UNCHANGED <<session, sem, crashed, overlapped>>
  <2>1. session[c] \in Client
    BY DEF Nil
  <2> QED
    BY <2>1 DEF Remove, Goto, locals
<1>2. PermitsMatch'
  BY <1>1, PermitsUnchanged DEF Running
<1>3. NoDeadEntry'
  BY <1>1 DEF NoDeadEntry, InLoop
<1>4. ReachableAlone'
  <2> SUFFICES ASSUME NEW d \in Conn, InLoop(d)', ~Nil(d)', session'[d] \notin overlapped'
               PROVE  registry'[session'[d]] = d
    BY DEF ReachableAlone
  <2>1. /\ d # c /\ InLoop(d)
        /\ session[d] \in Client /\ registry[session[d]] = d
    BY <1>1 DEF ReachableAlone, InLoop, Nil
  <2>2. session[d] # session[c]
    BY <2>1, <1>1 DEF Owners, Owning, Nil
  <2> QED
    BY <2>1, <2>2, <1>1
<1>5. CrashNeedsBadStart'
  BY <1>1 DEF CrashNeedsBadStart
<1>6. Sessions'
  BY <1>1 DEF Sessions, InLoop, Owning, Before, Nil, BadStart
<1>7. Owners'
  BY <1>1 DEF Owners, Owning, InLoop
<1> QED
  BY <1>2, <1>3, <1>4, <1>5, <1>6, <1>7 DEF Safe

LEMMA PanicSafe ==
    ASSUME IInv, NEW c \in Conn, Owning(c), Nil(c), Panic, UNCHANGED session
    PROVE  Safe'
<1>1. CrashNeedsBadStart'
  BY DEF CrashNeedsBadStart, IInv, Sessions, BadStart
<1>2. PermitsMatch'
  BY PermitsUnchanged DEF Panic, Running, IInv
<1>3. NoDeadEntry' /\ ReachableAlone' /\ Sessions' /\ Owners'
  BY DEF Panic, IInv, NoDeadEntry, ReachableAlone, Sessions, Owners,
         InLoop, Owning, Before, Nil, BadStart
<1> QED
  BY <1>1, <1>2, <1>3 DEF Safe

\* A permit is taken or given back: the rest is as in MoveInv.
LEMMA PermitSafe ==
    ASSUME IInv, NEW c \in Conn, Acquire(c) \/ Release(c)
    PROVE  Safe' /\ sem' \in 0..MaxConns
<1> USE DEF IInv, TypeOK, Location
<1>1. /\ \/ pc[c] = "accepted" /\ pc' = [pc EXCEPT ![c] = "first"]
         \/ pc[c] = "release" /\ pc' = [pc EXCEPT ![c] = "done"]
      /\ UNCHANGED <<session, registry, crashed, overlapped>>
  BY DEF Acquire, Release, Goto, locals
<1>2. NoDeadEntry' /\ ReachableAlone' /\ CrashNeedsBadStart'
  BY <1>1 DEF NoDeadEntry, ReachableAlone, CrashNeedsBadStart, InLoop, Nil
<1>3. Sessions' /\ Owners'
  BY <1>1 DEF Sessions, Owners, InLoop, Owning, Before, Nil, BadStart
<1> QED
  BY <1>2, <1>3, AcquirePermit, ReleasePermit DEF Safe


(***************************************************************************)
(* The steps of the peers and of the accept loop.                          *)
(***************************************************************************)
LEMMA PeerStep ==
    ASSUME IInv, NEW c \in Conn, Peer(c) \/ Accept(c)
    PROVE  TypeOK' /\ Safe'
<1> USE ConnectionAssumption DEF IInv, Location, PeerState
<1>1. CASE Dial(c)
  <2>1. /\ pc[c] = "none" /\ pc' = [pc EXCEPT ![c] = "dialed"]
        /\ peer' = [peer EXCEPT ![c] = "open"]
        /\ UNCHANGED <<inbox, locals, globals>>
    BY <1>1 DEF Dial, Goto
  <2>2. TypeOK'
    BY <2>1 DEF TypeOK, locals, globals, Nil
  <2>3. Safe'
    BY <2>1, MoveInv DEF Safe, TypeOK, locals, globals, Before, Running
  <2> QED
    BY <2>2, <2>3
<1>2. CASE Transmit(c)
  <2>1. /\ inbox' = [inbox EXCEPT ![c] = @ + 1] /\ inbox[c] < MaxInbox
        /\ UNCHANGED <<peer, pc, locals, globals>>
    BY <1>2 DEF Transmit
  <2>2. inbox' \in [Conn -> 0..MaxInbox]
    BY <2>1 DEF TypeOK
  <2>3. TypeOK'
    BY <2>1, <2>2 DEF TypeOK, locals, globals, Nil
  <2>4. Safe'
    BY <2>1 DEF Safe, locals, globals, PermitsMatch, NoDeadEntry, ReachableAlone,
       CrashNeedsBadStart, Sessions, Owners, Running, InLoop, Owning, Before, Nil
  <2> QED
    BY <2>3, <2>4
<1>3. CASE Change(c)
  <2>1. PICK p \in {"stalled", "silent", "gone"} : peer' = [peer EXCEPT ![c] = p]
    BY <1>3 DEF Change
  <2>2. UNCHANGED <<inbox, pc, locals, globals>>
    BY <1>3 DEF Change
  <2>3. TypeOK'
    BY <2>1, <2>2 DEF TypeOK, locals, globals, Nil
  <2>4. Safe'
    BY <2>2 DEF Safe, locals, globals, PermitsMatch, NoDeadEntry, ReachableAlone,
       CrashNeedsBadStart, Sessions, Owners, Running, InLoop, Owning, Before, Nil
  <2> QED
    BY <2>3, <2>4
<1>4. CASE Accept(c)
  <2>1. /\ pc[c] = "dialed" /\ pc' = [pc EXCEPT ![c] = "accepted"]
        /\ UNCHANGED <<peers, locals, globals>>
    BY <1>4 DEF Accept, Goto
  <2>2. TypeOK'
    BY <2>1 DEF TypeOK, peers, locals, globals, Nil
  <2>3. Safe'
    BY <2>1, MoveInv DEF Safe, TypeOK, locals, globals, Before, Running
  <2> QED
    BY <2>2, <2>3
<1> QED
  BY <1>1, <1>2, <1>3, <1>4 DEF Peer

\* A packet taken from the inbox leaves it within its bound.
LEMMA ReceivedType ==
    ASSUME IInv, NEW c \in Conn, Received(c)
    PROVE  inbox' \in [Conn -> 0..MaxInbox]
BY ConnectionAssumption DEF Received, IInv, TypeOK

(***************************************************************************)
(* The steps in which a handler reads.                                     *)
(***************************************************************************)
LEMMA ReadStep ==
    ASSUME IInv, NEW c \in Conn,
           \/ ReadError(c) \/ FirstPacketRejected(c) \/ Connect(c)
           \/ EndingPacket(c) \/ AnsweredPacket(c) \/ Publish(c)
    PROVE  TypeOK' /\ Safe'
<1> USE ConnectionAssumption DEF IInv, Location
<1>1. CASE ReadError(c)
  <2>1. /\ pc[c] = "read" \/ (pc[c] = "first" /\ BadStart)
        /\ pc' = [pc EXCEPT ![c] = "remove"]
        /\ UNCHANGED <<peers, locals, globals>>
    BY <1>1 DEF ReadError, Goto, BadStart
  <2>2. TypeOK'
    BY <2>1 DEF TypeOK, peers, locals, globals, Nil
  <2>3. Safe'
    BY <2>1, MoveInv DEF Safe, TypeOK, locals, globals, Before, InLoop, Running
  <2> QED
    BY <2>2, <2>3
<1>2. CASE FirstPacketRejected(c)
  <2>1. PICK to \in {"read", "remove", "refuse"} : pc' = [pc EXCEPT ![c] = to]
    BY <1>2 DEF FirstPacketRejected, Goto
  <2>2. /\ pc[c] = "first" /\ BadStart /\ inbox' \in [Conn -> 0..MaxInbox]
        /\ UNCHANGED <<peer, locals, globals>>
    BY <1>2, ReceivedType DEF FirstPacketRejected, BadStart
  <2>3. TypeOK'
    BY <2>1, <2>2 DEF TypeOK, locals, globals, Nil
  <2>4. Safe'
    BY <2>1, <2>2, MoveInv DEF Safe, TypeOK, locals, globals, Before, Running
  <2> QED
    BY <2>3, <2>4
<1>3. CASE Connect(c)
  <2>1. PICK k \in Client :
            /\ session' = [session EXCEPT ![c] = k]
            /\ overlapped' = IF \E d \in Conn : Owning(d) /\ session[d] = k
                             THEN overlapped \cup {k} ELSE overlapped
    BY <1>3 DEF Connect
  <2>2. /\ pc' = [pc EXCEPT ![c] = "connack"] /\ inbox' \in [Conn -> 0..MaxInbox]
        /\ UNCHANGED <<peer, keepAlive, todo, target, registry, sem, crashed>>
    BY <1>3, ReceivedType DEF Connect, Goto
  <2>3. overlapped' \subseteq Client
    BY <2>1 DEF TypeOK
  <2>4. TypeOK'
    BY <2>1, <2>2, <2>3 DEF TypeOK, Nil
  <2> QED
    BY <1>3, <2>4, ConnectSafe
<1>4. CASE EndingPacket(c) \/ AnsweredPacket(c)
  <2>1. /\ pc[c] = "read" /\ inbox' \in [Conn -> 0..MaxInbox]
        /\ UNCHANGED <<peer, locals>>
    BY <1>4, ReceivedType DEF EndingPacket, AnsweredPacket
  <2>2. CASE Nil(c) /\ Panic
    <3>1. TypeOK'
      BY <2>1, <2>2 DEF TypeOK, Panic, locals, Nil
    <3>2. Owning(c) /\ UNCHANGED session
      BY <2>1 DEF Owning, InLoop, locals
    <3> QED
      BY <2>2, <3>1, <3>2, PanicSafe
  <2>3. CASE UNCHANGED globals /\ \E to \in {"remove", "pong", "ack"} : Goto(c, to)
    <3>1. PICK to \in {"remove", "pong", "ack"} : pc' = [pc EXCEPT ![c] = to]
      BY <2>3 DEF Goto
    <3>2. TypeOK'
      BY <2>1, <2>3, <3>1 DEF TypeOK, locals, globals, Nil
    <3>3. Safe'
      BY <2>1, <2>3, <3>1, MoveInv DEF Safe, TypeOK, locals, globals, InLoop, Running
    <3> QED
      BY <3>2, <3>3
  <2> QED
    BY <1>4, <2>2, <2>3 DEF EndingPacket, AnsweredPacket
<1>5. CASE Publish(c)
  <2>1. /\ pc[c] = "read" /\ inbox' \in [Conn -> 0..MaxInbox]
        /\ UNCHANGED <<peer, session, keepAlive, target>>
    BY <1>5, ReceivedType DEF Publish
  <2>2. CASE Nil(c) /\ Panic /\ UNCHANGED todo
    <3>1. TypeOK'
      BY <2>1, <2>2 DEF TypeOK, Panic, Nil
    <3>2. Owning(c)
      BY <2>1 DEF Owning, InLoop
    <3> QED
      BY <2>1, <2>2, <3>1, <3>2, PanicSafe
  <2>3. CASE /\ Goto(c, "route") /\ UNCHANGED globals
             /\ \E K \in SUBSET Client : todo' = [todo EXCEPT ![c] = K]
    <3>1. pc' = [pc EXCEPT ![c] = "route"] /\ todo' \in [Conn -> SUBSET Client]
      BY <2>3 DEF Goto, TypeOK
    <3>2. TypeOK'
      BY <2>1, <2>3, <3>1 DEF TypeOK, globals, Nil
    <3>3. Safe'
      BY <2>1, <2>3, <3>1, MoveInv DEF Safe, TypeOK, globals, InLoop, Running
    <3> QED
      BY <3>2, <3>3
  <2> QED
    BY <1>5, <2>2, <2>3 DEF Publish
<1> QED
  BY <1>1, <1>2, <1>3, <1>4, <1>5

(***************************************************************************)
(* The steps in which a handler registers, writes, routes or ends.         *)
(***************************************************************************)
LEMMA WriteStep ==
    ASSUME IInv, NEW c \in Conn,
           Register(c) \/ Reply(c) \/ Route(c) \/ Deliver(c)
    PROVE  TypeOK' /\ Safe'
<1> USE ConnectionAssumption DEF IInv, Location
<1>1. CASE Register(c)
  <2>1. /\ pc[c] = "register" /\ pc' = [pc EXCEPT ![c] = "read"]
        /\ registry' = [registry EXCEPT ![session[c]] = c]
        /\ UNCHANGED <<peers, session, todo, target, sem, crashed, overlapped>>
    BY <1>1 DEF Register, Goto
  <2>2. keepAlive' \in [Conn -> BOOLEAN]
    <3>1. PICK ka \in BOOLEAN : keepAlive' = [keepAlive EXCEPT ![c] = ka]
      BY <1>1 DEF Register
    <3> QED
      BY <3>1 DEF TypeOK
  <2>3. TypeOK'
    BY <2>1, <2>2 DEF TypeOK, peers, Nil
  <2> QED
    BY <1>1, <2>3, RegisterSafe
<1>2. CASE Reply(c)
  <2>1. /\ \/ pc[c] = "refuse" /\ pc' = [pc EXCEPT ![c] = "remove"]
           \/ /\ pc[c] = "connack"
              /\ \E to \in {"register", "remove"} : pc' = [pc EXCEPT ![c] = to]
           \/ /\ pc[c] \in {"pong", "ack"}
              /\ \E to \in {"read", "remove"} : pc' = [pc EXCEPT ![c] = to]
        /\ UNCHANGED <<peers, locals, globals>>
    BY <1>2 DEF Reply, Goto
  <2>2. PICK to \in {"read", "register", "remove"} : pc' = [pc EXCEPT ![c] = to]
    BY <2>1
  <2>3. TypeOK'
    BY <2>1 DEF TypeOK, Sessions, peers, locals, globals, Nil
  <2>4. pc[c] = "refuse" => BadStart
    BY DEF Sessions
  <2>5. Safe'
    BY <2>1, <2>2, <2>4, MoveInv
       DEF Safe, TypeOK, locals, globals, Before, InLoop, Running
  <2> QED
    BY <2>3, <2>5
<1>3. CASE Route(c)
  <2>1. /\ pc[c] = "route" /\ UNCHANGED <<peers, session, keepAlive, globals>>
    BY <1>3 DEF Route
  <2>2. CASE Goto(c, "read") /\ UNCHANGED <<todo, target>>
    <3>1. pc' = [pc EXCEPT ![c] = "read"]
      BY <2>2 DEF Goto
    <3>2. TypeOK'
      BY <2>1, <2>2, <3>1 DEF TypeOK, peers, globals, Nil
    <3>3. Safe'
      BY <2>1, <3>1, MoveInv DEF Safe, TypeOK, globals, InLoop, Running
    <3> QED
      BY <3>2, <3>3
  <2>3. CASE \E k \in todo[c] :
                /\ todo' = [todo EXCEPT ![c] = @ \ {k}]
                /\ target' = [target EXCEPT ![c] = registry[k]]
                /\ Goto(c, IF registry[k] = NoConn THEN "route" ELSE "deliver")
    <3>1. PICK k \in todo[c] :
                /\ todo' = [todo EXCEPT ![c] = @ \ {k}]
                /\ target' = [target EXCEPT ![c] = registry[k]]
                /\ pc' = [pc EXCEPT ![c] = IF registry[k] = NoConn
                                           THEN "route" ELSE "deliver"]
      BY <2>3 DEF Goto
    <3>2. k \in Client /\ registry[k] \in Conn \cup {NoConn}
      BY DEF TypeOK
    <3>3. TypeOK'
      BY <2>1, <3>1, <3>2 DEF TypeOK, peers, globals, Nil
    <3>4. Safe'
      BY <2>1, <3>1, MoveInv DEF Safe, TypeOK, globals, InLoop, Running
    <3> QED
      BY <3>3, <3>4
  <2> QED
    BY <1>3, <2>2, <2>3 DEF Route
<1>4. CASE Deliver(c)
  <2>1. /\ pc[c] = "deliver" /\ pc' = [pc EXCEPT ![c] = "route"]
        /\ target' = [target EXCEPT ![c] = NoConn]
        /\ UNCHANGED <<peers, session, keepAlive, todo, globals>>
    BY <1>4 DEF Deliver, Goto
  <2>2. TypeOK'
    BY <2>1 DEF TypeOK, peers, globals, Nil
  <2>3. Safe'
    BY <2>1, MoveInv DEF Safe, TypeOK, globals, InLoop, Running
  <2> QED
    BY <2>2, <2>3
<1> QED
  BY <1>1, <1>2, <1>3, <1>4

LEMMA EndStep ==
    ASSUME IInv, NEW c \in Conn,
           Remove(c) \/ Close(c) \/ Release(c) \/ Acquire(c)
    PROVE  TypeOK' /\ Safe'
<1> USE ConnectionAssumption DEF IInv, Location
<1>1. CASE Remove(c)
  <2>1. pc[c] = "remove" /\ UNCHANGED <<peers, locals>>
    BY <1>1 DEF Remove
  <2>2. CASE Nil(c)
    <3>1. Panic
      BY <1>1, <2>2 DEF Remove
    <3>2. TypeOK'
      BY <2>1, <3>1 DEF TypeOK, Panic, peers, locals, Nil
    <3>3. Owning(c) /\ UNCHANGED session
      BY <2>1 DEF Owning, locals
    <3> QED
      BY <2>2, <3>1, <3>2, <3>3, PanicSafe
  <2>3. CASE ~Nil(c)
    <3>1. /\ pc' = [pc EXCEPT ![c] = "close"]
          /\ registry' = [registry EXCEPT ![session[c]] = NoConn]
          /\ UNCHANGED <<sem, crashed, overlapped>>
      BY <1>1, <2>3 DEF Remove, Goto
    <3>2. TypeOK'
      BY <2>1, <3>1 DEF TypeOK, peers, locals, Nil
    <3> QED
      BY <1>1, <2>3, <3>2, RemoveSafe
  <2> QED
    BY <2>2, <2>3
<1>2. CASE Close(c)
  <2>1. /\ pc[c] = "close" /\ pc' = [pc EXCEPT ![c] = "release"]
        /\ UNCHANGED <<peers, locals, globals>>
    BY <1>2 DEF Close, Goto
  <2>2. TypeOK'
    BY <2>1 DEF TypeOK, peers, locals, globals, Nil
  <2>3. Safe'
    BY <2>1, MoveInv DEF Safe, TypeOK, locals, globals, Running
  <2> QED
    BY <2>2, <2>3
<1>3. CASE Acquire(c) \/ Release(c)
  <2>1. /\ \E to \in {"first", "done"} : pc' = [pc EXCEPT ![c] = to]
        /\ UNCHANGED <<peers, locals, registry, crashed, overlapped>>
    BY <1>3 DEF Acquire, Release, Goto
  <2>2. TypeOK'
    BY <1>3, <2>1, PermitSafe DEF TypeOK, peers, locals, Nil
  <2> QED
    BY <1>3, <2>2, PermitSafe
<1> QED
  BY <1>1, <1>2, <1>3
-----------------------------------------------------------------------------
LEMMA NextInv == IInv /\ [Next]_vars => IInv'
<1> SUFFICES ASSUME IInv, [Next]_vars PROVE TypeOK' /\ Safe'
  BY DEF IInv, Safe
<1>1. CASE UNCHANGED vars
  BY <1>1 DEF vars, peers, locals, globals, IInv, TypeOK, Safe, PermitsMatch,
     NoDeadEntry, ReachableAlone, CrashNeedsBadStart, Sessions, Owners,
     Running, InLoop, Owning, Before, Nil
<1>2. CASE \E c \in Conn : Peer(c) \/ Accept(c) \/ Acquire(c) \/ Handler(c)
  BY <1>2, PeerStep, ReadStep, WriteStep, EndStep DEF Handler
<1> QED
  BY <1>1, <1>2 DEF Next, Rest

LEMMA Invariant == Spec => []IInv
BY InitInv, NextInv, PTL DEF Spec

(***************************************************************************)
(* Types are kept, whatever the peers do and wherever a handler panics.    *)
(***************************************************************************)
THEOREM TypeCorrect == Spec => []TypeOK
BY Invariant, PTL DEF IInv

(***************************************************************************)
(* sem holds one token for each handler that runs, so never more than      *)
(* MaxConns handlers run.                                                  *)
(***************************************************************************)
THEOREM PermitsMatchHolds == Spec => []PermitsMatch
BY Invariant, PTL DEF IInv

(***************************************************************************)
(* GetConnection never finds a connection that RemoveConnection has passed *)
(* by, nor one of another client.                                          *)
(***************************************************************************)
THEOREM NoDeadEntryHolds == Spec => []NoDeadEntry
BY Invariant, PTL DEF IInv

(***************************************************************************)
(* A client without simultaneous handlers stays reachable through          *)
(* SendMessage while its handler is in its loop.                           *)
(***************************************************************************)
THEOREM ReachableAloneHolds == Spec => []ReachableAlone
BY Invariant, PTL DEF IInv

(***************************************************************************)
(* A panic of the deferred function needs a bad first packet, a late one   *)
(* or a session that cannot be saved.                                      *)
(***************************************************************************)
THEOREM CrashNeedsBadStartHolds == Spec => []CrashNeedsBadStart
BY Invariant, PTL DEF IInv

(***************************************************************************)
(* An entry of the map is taken away only by RemoveConnection, called by a *)
(* handler of the very client as it ends.                                  *)
(***************************************************************************)
THEOREM EntryLostByOwnEndHolds == Spec => EntryLostByOwnEnd
<1> DEFINE Lost == \A k \in Client :
              registry[k] # NoConn /\ registry'[k] = NoConn =>
                  \E c \in Conn : session[c] = k /\ pc[c] = "remove" /\ pc'[c] = "close"
<1>1. IInv /\ [Next]_vars => [Lost]_vars
  <2> SUFFICES ASSUME IInv, NEW c \in Conn,
                      Peer(c) \/ Accept(c) \/ Acquire(c) \/ Handler(c)
               PROVE  Lost
    BY DEF Next, Rest
  <2> USE ConnectionAssumption
  <2>1. CASE UNCHANGED registry
    BY <2>1
  <2>2. CASE Register(c)
    BY <2>2 DEF Register, IInv, TypeOK, Nil
  <2>3. CASE Remove(c) /\ ~Nil(c)
    <3>1. /\ registry' = [registry EXCEPT ![session[c]] = NoConn]
          /\ pc[c] = "remove" /\ pc' = [pc EXCEPT ![c] = "close"]
      BY <2>3 DEF Remove, Goto
    <3> QED
      BY <3>1 DEF IInv, TypeOK
  <2>4. Peer(c) \/ Accept(c) \/ Acquire(c) => UNCHANGED registry
    BY DEF Peer, Dial, Transmit, Change, Accept, Acquire, globals
  <2>5. Handler(c) => \/ UNCHANGED registry \/ Register(c) \/ (Remove(c) /\ ~Nil(c))
    BY DEF Handler, ReadError, FirstPacketRejected, Connect, Reply, EndingPacket,
       AnsweredPacket, Publish, Route, Deliver, Remove, Close, Release, Panic, globals
  <2> QED
    BY <2>1, <2>2, <2>3, <2>4, <2>5
<1> QED
  BY <1>1, Invariant, PTL DEF Spec, EntryLostByOwnEnd
=============================================================================
