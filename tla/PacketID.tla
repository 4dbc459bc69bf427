------------------------------ MODULE PacketID ------------------------------
(***************************************************************************)
(* internal/database/packet_id.go: the identifiers of the QoS 1 and 2      *)
(* messages sent to subscribers, handed out by one manager for the whole   *)
(* process.  Its methods lock its mutex and are one step each; the lazy    *)
(* creation in NewPacketIDManager takes no lock and is three steps.        *)
(***************************************************************************)
EXTENDS Naturals, Sequences

CONSTANTS
    Worker,       \* goroutines that publish or handle acknowledgements
    MaxID,        \* the largest value of an uint16 counter, 65535 in the code
    MaxFresh      \* bound on the identifiers taken from the counter

ASSUME PacketIDAssumption == MaxID \in Nat \ {0} /\ MaxFresh \in Nat

VARIABLES
    PacketManager,  \* the package variable: index of a manager, 0 for nil
    managers,       \* the managers created, each with currentID and released
    pc,             \* worker -> where in NewPacketIDManager and its method it is
    call,           \* worker -> the method called, and its argument
    mine,           \* worker -> the manager that NewPacketIDManager returned
    outstanding,    \* history: identifier -> messages in flight that carry it
    fresh           \* history: identifiers taken from a counter

vars == <<PacketManager, managers, pc, call, mine, outstanding, fresh>>

Width   == MaxID + 1      \* the counter is modulo 2^16
Manager == [currentID : 1..MaxID, released : SUBSET (1..MaxID)]
Call    == [op : {"NextID", "ReleaseID"}, id : 0..MaxID]
NoCall  == [op |-> "NextID", id |-> 0]

Init ==
    /\ PacketManager = 0
    /\ managers = <<>>
    /\ pc = [w \in Worker |-> "idle"]
    /\ call = [w \in Worker |-> NoCall]
    /\ mine = [w \in Worker |-> 0]
    /\ outstanding = [id \in 0..MaxID |-> 0]
    /\ fresh = 0
-----------------------------------------------------------------------------
\* A message with QoS 1 or 2 is about to be sent.
Send(w) ==
    /\ pc[w] = "idle"
    /\ fresh < MaxFresh
    /\ call' = [call EXCEPT ![w] = NoCall]
    /\ pc' = [pc EXCEPT ![w] = "check"]
    /\ UNCHANGED <<PacketManager, managers, mine, outstanding, fresh>>

\* An acknowledgement ends one message in flight.
Acknowledge(w) ==
    /\ pc[w] = "idle"
    /\ \E id \in 0..MaxID :
          /\ outstanding[id] > 0
          /\ outstanding' = [outstanding EXCEPT ![id] = @ - 1]
          /\ call' = [call EXCEPT ![w] = [op |-> "ReleaseID", id |-> id]]
    /\ pc' = [pc EXCEPT ![w] = "check"]
    /\ UNCHANGED <<PacketManager, managers, mine, fresh>>

(***************************************************************************)
(* NewPacketIDManager: the test for nil, the creation, the second read.    *)
(***************************************************************************)
Check(w) ==
    /\ pc[w] = "check"
    /\ pc' = [pc EXCEPT ![w] = IF PacketManager = 0 THEN "create" ELSE "return"]
    /\ UNCHANGED <<PacketManager, managers, call, mine, outstanding, fresh>>

Create(w) ==
    /\ pc[w] = "create"
    /\ managers' = Append(managers, [currentID |-> 1, released |-> {}])
    /\ PacketManager' = Len(managers')
    /\ pc' = [pc EXCEPT ![w] = "return"]
    /\ UNCHANGED <<call, mine, outstanding, fresh>>

Return(w) ==
    /\ pc[w] = "return"
    /\ mine' = [mine EXCEPT ![w] = PacketManager]
    /\ pc' = [pc EXCEPT ![w] = "method"]
    /\ UNCHANGED <<PacketManager, managers, call, outstanding, fresh>>

\* Mutants: no overflow branch; the limit taken for the first value again.
SuccessorWraps(id) == (id + 1) % Width
SuccessorShort(id) == IF id + 1 = MaxID THEN 1 ELSE id + 1

\* m.currentID++, and 1 instead of 0.
Successor(id) == IF (id + 1) % Width = 0 THEN 1 ELSE (id + 1) % Width

\* The call is over and its locals are gone.
Done(w) ==
    /\ pc' = [pc EXCEPT ![w] = "idle"]
    /\ call' = [call EXCEPT ![w] = NoCall]
    /\ mine' = [mine EXCEPT ![w] = 0]

\* The range over the map returns any released identifier, if there is one.
NextID(w) ==
    LET m == managers[mine[w]] IN
    /\ pc[w] = "method" /\ call[w].op = "NextID"
    /\ \/ \E id \in m.released :
            /\ managers' = [managers EXCEPT ![mine[w]].released = @ \ {id}]
            /\ outstanding' = [outstanding EXCEPT ![id] = @ + 1]
            /\ UNCHANGED fresh
       \/ /\ m.released = {}
          /\ managers' = [managers EXCEPT ![mine[w]].currentID = Successor(@)]
          /\ outstanding' = [outstanding EXCEPT ![m.currentID] = @ + 1]
          /\ fresh' = fresh + 1
    /\ Done(w)
    /\ UNCHANGED PacketManager

\* Mutant: the identifier comes back to the pool one too high.
ReleaseNext(w) ==
    /\ pc[w] = "method" /\ call[w].op = "ReleaseID"
    /\ managers' = [managers EXCEPT ![mine[w]].released = @ \cup {Successor(call[w].id)}]
    /\ Done(w)
    /\ UNCHANGED <<PacketManager, outstanding, fresh>>

ReleaseID(w) ==
    /\ pc[w] = "method" /\ call[w].op = "ReleaseID"
    /\ managers' = [managers EXCEPT ![mine[w]].released = @ \cup {call[w].id}]
    /\ Done(w)
    /\ UNCHANGED <<PacketManager, outstanding, fresh>>

\* Nobody publishes and nothing is acknowledged.
Rest == (\A w \in Worker : pc[w] = "idle") /\ UNCHANGED vars

Next == \/ \E w \in Worker : \/ Send(w) \/ Acknowledge(w)
                             \/ Check(w) \/ Create(w) \/ Return(w)
                             \/ NextID(w) \/ ReleaseID(w)
        \/ Rest

Spec == Init /\ [][Next]_vars
-----------------------------------------------------------------------------
(***************************************************************************)
(* Types.  The counter of a manager is never 0, for which NextID has its   *)
(* overflow branch, and a method is called on a manager that exists.       *)
(***************************************************************************)
TypeOK ==
    /\ managers \in Seq(Manager)
    /\ PacketManager \in 0..Len(managers)
    /\ pc \in [Worker -> {"idle", "check", "create", "return", "method"}]
    /\ call \in [Worker -> Call]
    /\ mine \in [Worker -> 0..Len(managers)]
    /\ \A w \in Worker : /\ pc[w] = "return" => PacketManager # 0
                         /\ pc[w] = "method" => mine[w] # 0
    /\ outstanding \in [0..MaxID -> Nat]
    /\ fresh \in Nat

(***************************************************************************)
(* No message is sent with packet identifier 0, whatever wraps around and  *)
(* however many managers a race has made: NextID skips 0 on overflow and   *)
(* ReleaseID is never given 0.                                             *)
(***************************************************************************)
NeverZero == outstanding[0] = 0

(***************************************************************************)
(* As long as one manager was made and the counter has not come round, an  *)
(* identifier is carried by at most one message in flight: releases and    *)
(* reuses on the way do not count.                                         *)
(***************************************************************************)
Regular == Len(managers) <= 1 /\ fresh <= MaxID

UniqueInFlight == Regular => \A id \in 0..MaxID : outstanding[id] <= 1

(***************************************************************************)
(* Under the same two conditions every step is one of the abstract pool: a *)
(* message sent takes an identifier that is not in use, an acknowledgement *)
(* gives its identifier back.                                              *)
(***************************************************************************)
Pool == INSTANCE IdPool WITH ID <- 1..MaxID,
                             inUse <- {id \in 0..MaxID : outstanding[id] > 0}

PoolStep == Pool!Take \/ Pool!GiveBack \/ UNCHANGED outstanding

ImplementsPool == [][Regular' => PoolStep]_vars
=============================================================================
