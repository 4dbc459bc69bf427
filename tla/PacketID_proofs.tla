--------------------------- MODULE PacketID_proofs ---------------------------
(***************************************************************************)
(* Proofs about PacketID, for every set of goroutines and every width of   *)
(* the counter.                                                            *)
(***************************************************************************)
EXTENDS PacketID, SequenceTheorems, TLAPS

Pending(w) == call[w].op = "ReleaseID"

(***************************************************************************)
(* TypeOK is not inductive alone: ReleaseID puts its argument among the    *)
(* released identifiers, so the argument must not be 0, which follows from *)
(* no message in flight carrying 0.                                        *)
(***************************************************************************)
TypeInv ==
    /\ TypeOK
    /\ NeverZero
    /\ \A w \in Worker : Pending(w) => call[w].id # 0

(***************************************************************************)
(* Where each identifier up to the counter is, while the pool is regular:  *)
(* in flight, on its way back in one ReleaseID call, or released.          *)
(***************************************************************************)
Ledger ==
    /\ Len(managers) = 0 => fresh = 0
    /\ Len(managers) = 1 =>
         /\ fresh < MaxID => managers[1].currentID = fresh + 1
         /\ \A id \in managers[1].released : id <= fresh /\ outstanding[id] = 0
         /\ \A w \in Worker : Pending(w) => call[w].id \notin managers[1].released
    /\ \A id \in 0..MaxID : /\ outstanding[id] <= 1
                            /\ outstanding[id] > 0 => id <= fresh
    /\ \A w \in Worker : Pending(w) => /\ call[w].id <= fresh
                                       /\ outstanding[call[w].id] = 0
    /\ \A v, w \in Worker :
          Pending(v) /\ Pending(w) /\ v # w => call[v].id # call[w].id

IInv == TypeInv /\ (Regular => Ledger)
-----------------------------------------------------------------------------
LEMMA SuccessorInRange ==
  ASSUME NEW id \in 1..MaxID
  PROVE  /\ Successor(id) \in 1..MaxID
         /\ id < MaxID => Successor(id) = id + 1
<1>1. CASE id = MaxID
  <2>1. id + 1 = Width
    BY <1>1 DEF Width
  <2>2. Width \in Nat \ {0}
    BY PacketIDAssumption DEF Width
  <2>3. (id + 1) % Width = 0
    BY <2>1, <2>2
  <2>4. Successor(id) = 1
    BY <2>3 DEF Successor
  <2> QED BY <2>4, <1>1, PacketIDAssumption
<1>2. CASE id < MaxID
  <2>1. id + 1 \in 0..MaxID /\ Width = MaxID + 1
    BY <1>2, PacketIDAssumption DEF Width
  <2>2. (id + 1) % Width = id + 1
    BY <2>1, PacketIDAssumption
  <2>3. Successor(id) = id + 1
    BY <2>2, PacketIDAssumption DEF Successor
  <2> QED BY <2>3, <1>2, PacketIDAssumption
<1> QED BY <1>1, <1>2, PacketIDAssumption

LEMMA ManagerAt ==
  ASSUME managers \in Seq(Manager), NEW i \in 1..Len(managers)
  PROVE  /\ managers[i] \in Manager
         /\ managers[i].currentID \in 1..MaxID
         /\ managers[i].released \subseteq 1..MaxID
<1>1. managers[i] \in Manager
  BY ElementOfSeq
<1> QED BY <1>1 DEF Manager

LEMMA ReplaceManager ==
  ASSUME managers \in Seq(Manager), NEW i \in 1..Len(managers), NEW m \in Manager
  PROVE  LET s == [managers EXCEPT ![i] = m]
         IN  s \in Seq(Manager) /\ Len(s) = Len(managers)
  BY ExceptSeq

LEMMA TypeInit == Init => TypeInv
  BY PacketIDAssumption, EmptySeq
     DEF Init, TypeInv, TypeOK, NeverZero, Pending, NoCall, Call, Manager

LEMMA TypeNext == TypeInv /\ [Next]_vars => TypeInv'
<1> SUFFICES ASSUME TypeInv, [Next]_vars PROVE TypeInv'
  OBVIOUS
<1> USE PacketIDAssumption
<1>1. ASSUME NEW w \in Worker, Send(w) PROVE TypeInv'
  BY <1>1 DEF Send, TypeInv, TypeOK, NeverZero, Pending, NoCall, Call
<1>2. ASSUME NEW w \in Worker, Acknowledge(w) PROVE TypeInv'
  BY <1>2 DEF Acknowledge, TypeInv, TypeOK, NeverZero, Pending, Call
<1>3. ASSUME NEW w \in Worker, Check(w) PROVE TypeInv'
  BY <1>3 DEF Check, TypeInv, TypeOK, NeverZero, Pending
<1>4. ASSUME NEW w \in Worker, Create(w) PROVE TypeInv'
  <2>1. [currentID |-> 1, released |-> {}] \in Manager
    BY DEF Manager
  <2>2. managers' \in Seq(Manager) /\ Len(managers') = Len(managers) + 1
    BY <1>4, <2>1 DEF Create, TypeInv, TypeOK
  <2>3. Len(managers) \in Nat
    BY DEF TypeInv, TypeOK
  <2> QED BY <1>4, <2>2, <2>3 DEF Create, TypeInv, TypeOK, NeverZero, Pending
<1>5. ASSUME NEW w \in Worker, Return(w) PROVE TypeInv'
  BY <1>5 DEF Return, TypeInv, TypeOK, NeverZero, Pending
<1>6. ASSUME NEW w \in Worker, NextID(w) PROVE TypeInv'
  <2> DEFINE m == managers[mine[w]]
  <2>1. mine[w] \in 1..Len(managers) /\ m \in Manager
    BY <1>6 DEF NextID, TypeInv, TypeOK
  <2>2. PICK id \in 1..MaxID :
          /\ \/ managers' = [managers EXCEPT ![mine[w]].released = @ \ {id}]
             \/ managers' = [managers EXCEPT ![mine[w]].currentID = Successor(@)]
          /\ outstanding' = [outstanding EXCEPT ![id] = @ + 1]
    BY <1>6, <2>1 DEF NextID, Manager
  <2>3. [m EXCEPT !.currentID = Successor(@)] \in Manager
    BY <2>1, SuccessorInRange DEF Manager
  <2>4. [m EXCEPT !.released = @ \ {id}] \in Manager
    BY <2>1 DEF Manager
  <2>5. managers' \in Seq(Manager) /\ Len(managers') = Len(managers)
    <3>1. managers' = [managers EXCEPT ![mine[w]] = [m EXCEPT !.released = @ \ {id}]]
          \/ managers' = [managers EXCEPT ![mine[w]] = [m EXCEPT !.currentID = Successor(@)]]
      BY <2>2
    <3>2. \E n \in Manager : managers' = [managers EXCEPT ![mine[w]] = n]
      BY <3>1, <2>3, <2>4, Zenon
    <3> QED BY <3>2, <2>1, ReplaceManager DEF TypeInv, TypeOK
  <2>6. outstanding' \in [0..MaxID -> Nat] /\ NeverZero'
    BY <2>2 DEF TypeInv, TypeOK, NeverZero
  <2>7. fresh' \in Nat
    BY <1>6 DEF NextID, TypeInv, TypeOK
  <2>8. call' \in [Worker -> Call] /\ \A v \in Worker : Pending(v)' => call'[v].id # 0
    BY <1>6 DEF NextID, Done, NoCall, Call, Pending, TypeInv, TypeOK
  <2> QED BY <1>6, <2>5, <2>6, <2>7, <2>8 DEF NextID, Done, TypeInv, TypeOK
<1>7. ASSUME NEW w \in Worker, ReleaseID(w) PROVE TypeInv'
  <2> DEFINE m == managers[mine[w]]
  <2>1. mine[w] \in 1..Len(managers) /\ m \in Manager /\ call[w].id \in 1..MaxID
    BY <1>7 DEF ReleaseID, TypeInv, TypeOK, Pending, Call
  <2>2. [m EXCEPT !.released = @ \cup {call[w].id}] \in Manager
    BY <2>1 DEF Manager
  <2>3. managers' \in Seq(Manager) /\ Len(managers') = Len(managers)
    BY <1>7, <2>1, <2>2 DEF ReleaseID, TypeInv, TypeOK
  <2>4. call' \in [Worker -> Call] /\ \A v \in Worker : Pending(v)' => call'[v].id # 0
    BY <1>7 DEF ReleaseID, Done, NoCall, Call, Pending, TypeInv, TypeOK
  <2> QED BY <1>7, <2>3, <2>4 DEF ReleaseID, Done, TypeInv, TypeOK, NeverZero
<1>8. CASE UNCHANGED vars
  BY <1>8 DEF vars, TypeInv, TypeOK, NeverZero, Pending
<1> QED BY <1>1, <1>2, <1>3, <1>4, <1>5, <1>6, <1>7, <1>8 DEF Next, Rest

LEMMA LedgerNext == IInv /\ [Next]_vars => (Regular => Ledger)'
<1> SUFFICES ASSUME IInv, [Next]_vars, Regular' PROVE Ledger'
  OBVIOUS
<1> USE PacketIDAssumption
<1>1. TypeInv /\ TypeOK /\ TypeInv' /\ TypeOK'
  BY TypeNext DEF IInv, TypeInv
<1>11. /\ Len(managers) \in Nat /\ Len(managers') \in Nat
       /\ fresh \in Nat /\ fresh' \in Nat
       /\ \A w \in Worker : call[w].id \in 0..MaxID
  BY <1>1 DEF TypeOK, Call
<1>2. Regular /\ Ledger
  <2>1. Len(managers) <= Len(managers') /\ fresh <= fresh'
    <3>1. ASSUME NEW w \in Worker, NextID(w) \/ ReleaseID(w)
          PROVE  Len(managers) <= Len(managers') /\ fresh <= fresh'
      <4>1. DOMAIN managers' = DOMAIN managers
        BY <3>1 DEF NextID, ReleaseID
      <4>2. Len(managers') = Len(managers)
        BY <4>1, <1>1 DEF TypeOK
      <4> QED BY <3>1, <4>2, <1>1 DEF NextID, ReleaseID, TypeOK
    <3>2. ASSUME NEW w \in Worker, Create(w)
          PROVE  Len(managers) <= Len(managers') /\ fresh <= fresh'
      BY <3>2, <1>1 DEF Create, TypeOK
    <3> QED BY <3>1, <3>2, <1>1
            DEF Next, Rest, vars, Send, Acknowledge, Check, Return, TypeOK
  <2> QED BY <2>1, <1>11 DEF IInv, Regular
<1>3. ASSUME NEW w \in Worker, Send(w) PROVE Ledger'
  <2>1. ~Pending(w)' /\ \A v \in Worker : v # w => call'[v] = call[v]
    BY <1>1, <1>3 DEF Send, Pending, NoCall, TypeOK
  <2>2. \A v \in Worker : Pending(v)' => v # w /\ Pending(v) /\ call'[v] = call[v]
    BY <2>1 DEF Pending
  <2>3. UNCHANGED <<managers, outstanding, fresh>>
    BY <1>3 DEF Send
  <2> QED BY <1>2, <2>2, <2>3 DEF Ledger
<1>4. ASSUME NEW w \in Worker, Acknowledge(w) PROVE Ledger'
  <2>1. PICK id \in 0..MaxID :
          /\ outstanding[id] > 0
          /\ outstanding' = [outstanding EXCEPT ![id] = @ - 1]
          /\ call' = [call EXCEPT ![w] = [op |-> "ReleaseID", id |-> id]]
    BY <1>4 DEF Acknowledge
  <2>2. outstanding[id] = 1 /\ id <= fresh
    BY <2>1, <1>1, <1>2 DEF Ledger, TypeOK
  <2>3. outstanding'[id] = 0 /\ \A j \in 0..MaxID : j # id => outstanding'[j] = outstanding[j]
    BY <2>1, <2>2, <1>1 DEF TypeOK
  <2>4. \A v \in Worker : Pending(v) => call[v].id # id
    BY <2>2, <1>2 DEF Ledger
  <2>5. call'[w].id = id /\ \A v \in Worker : v # w => call'[v] = call[v]
    BY <2>1, <1>1 DEF TypeOK
  <2>6. Len(managers) = 1 => /\ id \notin managers[1].released
                             /\ \A j \in managers[1].released : j <= fresh /\ outstanding'[j] = 0
    <3> SUFFICES ASSUME Len(managers) = 1
                 PROVE  /\ id \notin managers[1].released
                        /\ \A j \in managers[1].released : j <= fresh /\ outstanding'[j] = 0
      OBVIOUS
    <3>1. managers[1].released \subseteq 1..MaxID
      BY <1>1, ManagerAt DEF TypeOK
    <3> QED BY <3>1, <2>2, <2>3, <1>2 DEF Ledger
  <2>7. \A v \in Worker : v # w /\ Pending(v)' => Pending(v)
    BY <2>5 DEF Pending
  <2>8. \A v \in Worker : Pending(v)' => /\ call'[v].id <= fresh
                                         /\ outstanding'[call'[v].id] = 0
    BY <2>2, <2>3, <2>4, <2>5, <2>7, <1>2, <1>11 DEF Ledger
  <2>9. \A u, v \in Worker :
           Pending(u)' /\ Pending(v)' /\ u # v => call'[u].id # call'[v].id
    BY <2>4, <2>5, <2>7, <1>2 DEF Ledger
  <2>10. \A j \in 0..MaxID : outstanding'[j] <= 1 /\ (outstanding'[j] > 0 => j <= fresh)
    BY <2>2, <2>3, <1>2 DEF Ledger
  <2>11. Len(managers) = 1 => \A v \in Worker : Pending(v)' => call'[v].id \notin managers[1].released
    BY <2>5, <2>6, <2>7, <1>2 DEF Ledger
  <2>12. managers' = managers /\ fresh' = fresh
    BY <1>4 DEF Acknowledge
  <2> QED BY <2>6, <2>8, <2>9, <2>10, <2>11, <2>12, <1>2 DEF Ledger
<1>5. ASSUME NEW w \in Worker, Check(w) \/ Return(w) PROVE Ledger'
  BY <1>1, <1>2, <1>5 DEF Check, Return, Ledger, Pending
<1>6. ASSUME NEW w \in Worker, Create(w) PROVE Ledger'
  <2>1. Len(managers) = 0 /\ Len(managers') = 1
    BY <1>1, <1>6 DEF Create, Regular, TypeOK
  <2>2. managers'[1] = [currentID |-> 1, released |-> {}]
    BY <1>1, <1>6, <2>1 DEF Create, TypeOK
  <2> QED BY <1>1, <1>2, <1>6, <2>1, <2>2 DEF Create, Ledger, Pending
<1>7. ASSUME NEW w \in Worker, pc[w] = "method"
      PROVE  mine[w] = 1 /\ Len(managers) = 1 /\ managers[1] \in Manager
  <2>1. mine[w] \in 1..Len(managers)
    BY <1>1, <1>7 DEF TypeOK
  <2>2. mine[w] = 1 /\ Len(managers) = 1
    <3>1. \A i, n \in Nat : 1 <= i /\ i <= n /\ n <= 1 => i = 1 /\ n = 1
      OBVIOUS
    <3>2. Len(managers) \in Nat /\ Len(managers) <= 1
      BY <1>2, <1>11 DEF Regular
    <3>3. mine[w] \in Nat /\ 1 <= mine[w] /\ mine[w] <= Len(managers)
      BY <2>1, <3>2
    <3> QED BY <3>1, <3>2, <3>3
  <2>3. managers \in Seq(Manager) /\ 1 \in 1..Len(managers)
    BY <2>2, <1>1 DEF TypeOK
  <2> QED BY <2>2, <2>3, ManagerAt
<1>8. ASSUME NEW w \in Worker, NextID(w) PROVE Ledger'
  <2>1. mine[w] = 1 /\ Len(managers) = 1 /\ managers[1] \in Manager
    BY <1>7, <1>8 DEF NextID
  <2>2. Len(managers') = 1
    <3>1. DOMAIN managers' = DOMAIN managers
      BY <1>8 DEF NextID
    <3> QED BY <3>1, <2>1, <1>1 DEF TypeOK
  <2>3. /\ \A v \in Worker : Pending(v)' => Pending(v) /\ call'[v] = call[v]
    BY <1>1, <1>8 DEF NextID, Done, Pending, NoCall, TypeOK
  <2>4. ASSUME NEW id \in managers[1].released,
               managers' = [managers EXCEPT ![1].released = @ \ {id}],
               outstanding' = [outstanding EXCEPT ![id] = @ + 1],
               fresh' = fresh
        PROVE  Ledger'
    <3>1. id \in 1..MaxID /\ id <= fresh /\ outstanding[id] = 0
      BY <2>1, <1>2 DEF Ledger, Manager
    <3>2. managers'[1].released = managers[1].released \ {id}
          /\ managers'[1].currentID = managers[1].currentID
      BY <2>1, <2>4, <1>1 DEF Manager, TypeOK
    <3>3. \A v \in Worker : Pending(v) => call[v].id # id
      BY <2>1, <2>4, <1>2 DEF Ledger
    <3>4. outstanding'[id] = 1 /\ \A j \in 0..MaxID : j # id => outstanding'[j] = outstanding[j]
      BY <3>1, <2>4, <1>1 DEF TypeOK
    <3>5. \A j \in managers'[1].released : j <= fresh' /\ outstanding'[j] = 0
      BY <3>2, <3>4, <2>1, <2>4, <1>2 DEF Ledger, Manager
    <3>6. \A v \in Worker : Pending(v)' => outstanding'[call'[v].id] = 0
      BY <2>3, <3>3, <3>4, <1>1, <1>2, SMTT(40) DEF Ledger, TypeOK, Call
    <3> QED BY <2>1, <2>2, <2>3, <2>4, <3>1, <3>2, <3>4, <3>5, <3>6, <1>1, <1>2
            DEF Ledger, TypeOK
  <2>5. ASSUME managers[1].released = {},
               managers' = [managers EXCEPT ![1].currentID = Successor(@)],
               outstanding' = [outstanding EXCEPT ![managers[1].currentID] = @ + 1],
               fresh' = fresh + 1
        PROVE  Ledger'
    <3> DEFINE id == managers[1].currentID
    <3>1. fresh < MaxID /\ id = fresh + 1 /\ id \in 1..MaxID
      BY <2>1, <2>5, <1>1, <1>2 DEF Ledger, Regular, TypeOK, Manager
    <3>2. managers'[1].released = {} /\ managers'[1].currentID = Successor(id)
      BY <2>1, <2>5, <1>1 DEF Manager, TypeOK
    <3>3. fresh' < MaxID => managers'[1].currentID = fresh' + 1
      BY <3>1, <3>2, <2>5, <1>1, SuccessorInRange DEF TypeOK
    <3>4. outstanding[id] = 0
      BY <3>1, <1>1, <1>2, SMTT(40) DEF Ledger, TypeOK
    <3>5. outstanding'[id] = 1 /\ \A j \in 0..MaxID : j # id => outstanding'[j] = outstanding[j]
      BY <3>1, <3>4, <2>5, <1>1 DEF TypeOK
    <3>6. \A v \in Worker : Pending(v) => call[v].id # id
      BY <3>1, <1>2, <1>11 DEF Ledger
    <3>7. \A v \in Worker : Pending(v)' => outstanding'[call'[v].id] = 0
      BY <2>3, <3>5, <3>6, <1>2, <1>11, SMTT(40) DEF Ledger
    <3>8. \A v \in Worker : Pending(v)' => call'[v].id <= fresh'
      BY <2>3, <2>5, <1>1, <1>2, SMTT(40) DEF Ledger, TypeOK, Call
    <3>9. \A j \in 0..MaxID : outstanding'[j] <= 1 /\ (outstanding'[j] > 0 => j <= fresh')
      BY <3>1, <3>5, <2>5, <1>1, <1>2, SMTT(40) DEF Ledger, TypeOK
    <3> QED BY <2>2, <2>3, <3>2, <3>3, <3>7, <3>8, <3>9, <1>2 DEF Ledger
  <2> QED BY <2>1, <2>4, <2>5, <1>8 DEF NextID
<1>9. ASSUME NEW w \in Worker, ReleaseID(w) PROVE Ledger'
  <2>1. mine[w] = 1 /\ Len(managers) = 1 /\ managers[1] \in Manager
    BY <1>7, <1>9 DEF ReleaseID
  <2>2. Len(managers') = 1
    <3>1. DOMAIN managers' = DOMAIN managers
      BY <1>9 DEF ReleaseID
    <3> QED BY <3>1, <2>1, <1>1 DEF TypeOK
  <2>3. /\ managers'[1].released = managers[1].released \cup {call[w].id}
        /\ managers'[1].currentID = managers[1].currentID
    BY <2>1, <1>1, <1>9 DEF ReleaseID, Manager, TypeOK
  <2>4. \A v \in Worker : Pending(v)' => v # w /\ Pending(v) /\ call'[v] = call[v]
    BY <1>1, <1>9 DEF ReleaseID, Done, Pending, NoCall, TypeOK
  <2>5. Pending(w)
    BY <1>9 DEF ReleaseID, Pending
  <2>6. \A v \in Worker : Pending(v)' => call'[v].id \notin managers'[1].released
    BY <2>1, <2>3, <2>4, <2>5, <1>2 DEF Ledger
  <2>7. \A j \in managers'[1].released : j <= fresh' /\ outstanding'[j] = 0
    BY <2>1, <2>3, <2>5, <1>2, <1>9 DEF Ledger, ReleaseID
  <2> QED BY <2>1, <2>2, <2>3, <2>4, <2>6, <2>7, <1>2, <1>9 DEF Ledger, ReleaseID
<1>10. CASE UNCHANGED vars
  BY <1>2, <1>10 DEF vars, Ledger, Pending
<1> QED BY <1>3, <1>4, <1>5, <1>6, <1>8, <1>9, <1>10 DEF Next, Rest

LEMMA IInvInductive == /\ Init => IInv
                       /\ IInv /\ [Next]_vars => IInv'
<1>1. Init => Ledger
  BY PacketIDAssumption DEF Init, Ledger, Pending, NoCall
<1> QED BY <1>1, TypeInit, TypeNext, LedgerNext DEF IInv

LEMMA IInvInvariant == Spec => []IInv
  BY IInvInductive, PTL DEF Spec
-----------------------------------------------------------------------------
\* The variables of NewPacketIDManager and the two methods keep their types.
THEOREM TypeCorrect == Spec => []TypeOK
<1>1. IInv => TypeOK
  BY DEF IInv, TypeInv
<1> QED BY <1>1, IInvInvariant, PTL

(***************************************************************************)
(* Identifier 0 is never on a message, for every width of the counter and  *)
(* however many goroutines race to create the manager.                     *)
(***************************************************************************)
THEOREM NeverZeroHolds == Spec => []NeverZero
<1>1. IInv => NeverZero
  BY DEF IInv, TypeInv
<1> QED BY <1>1, IInvInvariant, PTL

(***************************************************************************)
(* With one manager, and until the counter has handed out its MaxID        *)
(* identifiers, no identifier is on two messages in flight.                *)
(***************************************************************************)
THEOREM UniqueInFlightHolds == Spec => []UniqueInFlight
<1>1. IInv => UniqueInFlight
  BY DEF IInv, UniqueInFlight, Ledger
<1> QED BY <1>1, IInvInvariant, PTL

(***************************************************************************)
(* Under the same conditions NextID takes an identifier that is not in use *)
(* and an acknowledgement gives back one that is: every step is a step of  *)
(* the abstract pool, or changes nothing that it sees.                     *)
(***************************************************************************)
THEOREM ImplementsPoolHolds == Spec => ImplementsPool
<1> DEFINE inUse == {id \in 0..MaxID : outstanding[id] > 0}
<1>1. ASSUME IInv, IInv', [Next]_vars, Regular' PROVE PoolStep
  <2>1. TypeOK /\ outstanding[0] = 0 /\ Ledger'
    BY <1>1 DEF IInv, TypeInv, NeverZero
  <2>2. ASSUME NEW w \in Worker, Acknowledge(w) PROVE Pool!GiveBack
    <3>1. PICK id \in 0..MaxID : /\ outstanding[id] > 0
                                 /\ outstanding' = [outstanding EXCEPT ![id] = @ - 1]
                                 /\ call'[w] = [op |-> "ReleaseID", id |-> id]
      BY <2>1, <2>2 DEF Acknowledge, TypeOK
    <3>2. outstanding'[id] = 0
      BY <3>1, <2>1 DEF Ledger, Pending
    <3>3. inUse' = inUse \ {id}
      BY <3>1, <3>2, <2>1 DEF TypeOK
    <3>4. id \in inUse
      BY <3>1
    <3> QED BY <3>3, <3>4 DEF Pool!GiveBack
  <2>3. ASSUME NEW w \in Worker, NextID(w) PROVE Pool!Take
    <3>1. mine[w] \in 1..Len(managers)
      BY <2>1, <2>3 DEF NextID, TypeOK
    <3>2. PICK id \in 1..MaxID : outstanding' = [outstanding EXCEPT ![id] = @ + 1]
      BY <2>1, <2>3, <3>1, ManagerAt DEF NextID, TypeOK
    <3>3. outstanding[id] = 0
      BY <3>2, <2>1 DEF Ledger, TypeOK
    <3>4. inUse' = inUse \cup {id}
      BY <3>2, <3>3, <2>1 DEF TypeOK
    <3>5. id \in 1..MaxID \ inUse
      BY <3>3
    <3> QED BY <3>4, <3>5 DEF Pool!Take
  <2> QED BY <1>1, <2>2, <2>3
          DEF Next, Rest, vars, Send, Check, Create, Return, ReleaseID, PoolStep
<1>2. IInv /\ IInv' /\ [Next]_vars => [Regular' => PoolStep]_vars
  BY <1>1
<1> QED BY <1>2, IInvInvariant, PTL DEF Spec, ImplementsPool
=============================================================================
