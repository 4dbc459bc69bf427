------------------------ MODULE SessionStore_proofs ------------------------
(***************************************************************************)
(* Proofs about the sessions, for any number of clients, connections,      *)
(* filters, failing calls and restarts, whatever clients use connections   *)
(* they have left.                                                         *)
(***************************************************************************)
EXTENDS SessionStoreProps, TLAPS

Early == {"lookup", "lookupCache", "find", "fill", "create"}
Drops == {"dropMap", "dropCache", "dropDoc"}
Saves == {"save", "encode", "write", "recache", "saved", "unsaved"}

HandlerState ==
    [pc : Labels, client : Client \cup {NoClient}, clean : BOOLEAN, obj : Conn \cup {Nil},
     request : SUBSET Topic, todo : SUBSET Topic, cur : SUBSET Topic, buf : SUBSET Topic,
     ret : {"create", "created", "suback", "loop", "done"}]

Types ==
    /\ sessions \in [Client -> Conn \cup {Nil}] /\ cache \in [Client -> Conn \cup {Nil}]
    /\ docs \in [Client -> [stored : BOOLEAN, subs : SUBSET Topic]]
    /\ \A k \in Client : ~docs[k].stored => docs[k].subs = {}
    /\ heap \in [Conn -> Session]
    /\ tree \subseteq Client \X Topic /\ kept \subseteq Client \X Topic
    /\ th \in [Conn -> HandlerState]
    /\ up \in BOOLEAN
    /\ spent \in [errors : Nat, restarts : Nat, packets : Nat]
    /\ superseded \subseteq Conn /\ unsettled \subseteq Client

(***************************************************************************)
(* What goes with the place a handler is at.  temp says of its object that *)
(* it is a temporary session.                                              *)
(***************************************************************************)
PlaceOK(t, temp) ==
    /\ t.pc \in {"ready", "done"} => t.obj = Nil /\ t.ret = "loop" /\ t.cur = {}
    /\ t.pc \notin {"ready", "done"} => t.client \in Client
    /\ t.pc \in Early => t.obj = Nil /\ t.ret = "create" /\ t.cur = {} /\ (t.pc # "create" => ~t.clean)
    /\ t.pc \in Drops => \/ t.ret = "create" /\ t.obj = Nil /\ t.cur = {} /\ t.clean
                         \/ t.ret = "done" /\ t.obj # Nil /\ temp
    /\ t.pc \in Holding => t.obj # Nil
    /\ t.pc \in Saves \ {"save", "saved"} => ~temp
    /\ t.pc \in Saves => t.ret \in {"created", "suback", "loop", "done"}
    /\ t.pc \in Saves /\ t.ret = "done" => ~temp
    /\ t.pc \in Saves /\ t.ret # "suback" => t.cur = {}
    /\ t.pc \in {"insert", "record"} => t.ret = "suback"
    /\ t.pc \in {"delete", "forget", "loop"} => t.ret = "loop"
    /\ t.pc = "loop" => t.cur = {}
    /\ t.pc = "clear" => t.ret = "done" /\ temp

Places == \A c \in Conn : PlaceOK(th[c], Mine(c).temp)

(***************************************************************************)
(* Whatever refers to an object, the map, the cache or a handler, does so  *)
(* for one and the same client, and to none that is yet to be allocated.   *)
(***************************************************************************)
Refers(k, o) == \/ sessions[k] = o \/ cache[k] = o
                \/ \E c \in Conn : th[c].obj = o /\ K(c) = k

Kinds == \A k \in Client : /\ sessions[k] # Nil => heap[sessions[k]].temp
                           /\ cache[k] # Nil => ~heap[cache[k]].temp
Owned == \A o \in Conn : \A j, k \in Client : Refers(j, o) /\ Refers(k, o) => j = k
Fresh == \A c \in Conn : th[c].pc # "done" /\ th[c].obj = Nil =>
                            \A k \in Client : ~Refers(k, c)

(***************************************************************************)
(* A client has one handler that no later connection has superseded, and,  *)
(* unless it is unsettled, the others wait for a packet.                   *)
(***************************************************************************)
Sole == \A c, d \in Conn \ superseded : Live(c) /\ Live(d) /\ K(c) = K(d) => c = d
Left == \A c \in superseded : /\ th[c].pc # "ready"
                              /\ Live(c) /\ K(c) \notin unsettled => th[c].pc = "loop"

(***************************************************************************)
(* What the stores hold for a client that is settled.  held says that its  *)
(* handler works on a session.                                             *)
(***************************************************************************)
Kept(k)  == {t \in Topic : <<k, t>> \in kept}
Faultless == spent.errors = 0
Held(k)   == \E c \in Current(k) : th[c].pc \in Holding

StoresOK(k, held) ==
    /\ Kept(k) # {} => docs[k].stored
    /\ Kept(k) \subseteq docs[k].subs
    /\ cache[k] # Nil => Kept(k) \subseteq heap[cache[k]].subs
    /\ sessions[k] # Nil => cache[k] = Nil
    /\ Faultless =>
          /\ Kept(k) \subseteq Routed(k)
          /\ sessions[k] # Nil => ~docs[k].stored
          /\ cache[k] # Nil /\ ~held =>
                /\ heap[cache[k]].subs \subseteq docs[k].subs
                /\ (docs[k].subs \ heap[cache[k]].subs) \cap Routed(k) = {}

(***************************************************************************)
(* What its handler, in state t, knows.                                    *)
(***************************************************************************)
Object(t) == heap[t.obj]

SeekerOK(t, k) ==
    /\ t.pc \in Drops \cup {"create"} => Kept(k) = {}
    /\ t.pc \in {"dropDoc", "find", "fill", "create"} => cache[k] = Nil
    /\ t.pc \in {"dropCache", "dropDoc", "lookupCache", "find", "fill", "create"} => sessions[k] = Nil
    /\ t.pc = "fill" => docs[k].stored /\ t.buf = docs[k].subs
    /\ Faultless /\ t.pc = "create" => ~docs[k].stored
    /\ t.pc \in Drops /\ t.ret = "done" =>
          /\ t.pc = "dropMap" /\ sessions[k] = t.obj /\ cache[k] = Nil
          /\ Faultless => ~docs[k].stored /\ (Object(t).subs \cup t.cur) \cap Routed(k) = {}

\* The subscriptions in its session and those it was asked for.
AskedOK(t, k) ==
    /\ t.pc \in {"delete", "forget"} => Kept(k) \cap (t.todo \cup t.cur) = {}
    /\ t.ret = "suback" =>
          /\ t.request \subseteq Object(t).subs
                \cup (IF t.pc \in {"insert", "record"} THEN t.todo ELSE {})
                \cup (IF t.pc = "record" THEN t.cur ELSE {})
          /\ t.pc # "record" => t.cur \subseteq Object(t).subs
    /\ Faultless =>
          /\ t.pc # "unsaved"
          /\ t.ret = "suback" =>
                t.request \ (IF t.pc \in {"insert", "record"} THEN t.todo ELSE {}) \subseteq Routed(k)
          /\ t.pc = "record" => t.cur \subseteq Routed(k)
          /\ t.pc \in {"delete", "forget"} => t.cur \cap Routed(k) = {}

TemporaryOK(t, k) ==
    /\ Kept(k) = {} /\ cache[k] = Nil
    /\ sessions[k] = t.obj \/ (sessions[k] = Nil /\ t.pc = "save" /\ t.ret = "created")
    /\ Faultless =>
          /\ ~docs[k].stored
          /\ t.pc = "clear" => (t.cur \cup (Object(t).subs \ t.todo)) \cap Routed(k) = {}

LastingOK(t, k) ==
    /\ Kept(k) \subseteq Object(t).subs
    /\ cache[k] \in {Nil, t.obj} /\ sessions[k] = Nil
    /\ t.pc = "write" => t.buf = Object(t).subs
    /\ t.pc \in {"recache", "saved"} => docs[k] = [stored |-> TRUE, subs |-> Object(t).subs]
    /\ Faultless =>
          /\ Object(t).subs \ docs[k].subs \subseteq Routed(k)
          /\ (docs[k].subs \ Object(t).subs) \cap Routed(k) \subseteq
                (IF t.pc = "record" THEN t.cur ELSE {})
          /\ t.ret # "suback" => Object(t).subs \subseteq docs[k].subs

HandlerOK(t, k) ==
    IF t.pc \in Holding
    THEN AskedOK(t, k) /\ IF Object(t).temp THEN TemporaryOK(t, k) ELSE LastingOK(t, k)
    ELSE SeekerOK(t, k)

Settled(k) == StoresOK(k, Held(k)) /\ \A c \in Current(k) : HandlerOK(th[c], k)

(***************************************************************************)
(* What is recorded for a client whose handler is in state t, and what a   *)
(* step of that handler from s to t does not set apart.                    *)
(***************************************************************************)
Subs(o)     == IF o = Nil THEN {} ELSE heap[o].subs
Known(t, k) == docs[k].subs \cup Subs(sessions[k]) \cup Subs(cache[k]) \cup Subs(t.obj) \cup t.cur

Together(s, t, k) ==
    Faultless' =>
        /\ s.ret = "create" \/ Routed(k)' \ Known(t, k)' \subseteq Routed(k) \ Known(s, k)
        /\ s.pc = "delete" \/ docs'[k].subs \ Routed(k)' \subseteq docs[k].subs \ Routed(k)

IInv ==
    /\ Types /\ Places /\ Kinds /\ Owned /\ Fresh /\ Sole /\ Left
    /\ \A k \in Client \ unsettled : Settled(k)
-----------------------------------------------------------------------------
USE SessionAssumption

LEMMA LabelsAre ==
    Labels = {"save", "encode", "write", "recache", "saved", "unsaved", "insert", "record",
              "delete", "forget", "clear", "loop", "ready", "done", "dropMap", "dropCache",
              "dropDoc", "lookup", "lookupCache", "find", "fill", "create"}
BY DEF Labels, Holding

LEMMA Initially == Init => IInv
<1> SUFFICES ASSUME Init PROVE IInv
    OBVIOUS
<1> USE DEF Init, Ready
<1>1. Ready \in HandlerState
      BY LabelsAre DEF HandlerState
<1>2. Types
      BY <1>1 DEF Types, NoDoc, Blank, Session
<1>3. \A c \in Conn : th[c] = Ready
      OBVIOUS
<1>4. Places
      BY <1>3 DEF Places, PlaceOK, Early, Drops, Holding, Saves
<1>5. \A k \in Client, o \in Conn : ~Refers(k, o)
      BY <1>3 DEF Refers
<1>6. Kinds /\ Owned /\ Fresh
      BY <1>5 DEF Kinds, Owned, Fresh
<1>7. Sole /\ Left
      BY <1>3 DEF Sole, Left, Live
<1>8. ASSUME NEW k \in Client PROVE Settled(k)
  <2>1. Current(k) = {}
        BY <1>3 DEF Current, Others, Live
  <2>2. Kept(k) = {} /\ Routed(k) = {} /\ sessions[k] = Nil /\ cache[k] = Nil
        BY DEF Kept, Routed
  <2> QED
      BY <2>1, <2>2 DEF Settled, StoresOK
<1> QED
    BY <1>2, <1>4, <1>6, <1>7, <1>8 DEF IInv
-----------------------------------------------------------------------------
(***************************************************************************)
(* A step of handler c that leaves it in state t, seen from the others: it *)
(* touches what belongs to its own client and refers to no other objects   *)
(* than that client has, or to a new one.                                  *)
(***************************************************************************)
Unborn(c) == th[c].pc # "done" /\ th[c].obj = Nil

Touches(c, t) ==
    /\ t \in HandlerState /\ th' = [th EXCEPT ![c] = t]
    /\ t = Done \/ (t.pc \notin {"ready", "done"} /\ t.client = K(c))
    /\ superseded' = superseded
    /\ unsettled \subseteq unsettled' /\ unsettled' \subseteq unsettled \cup {K(c)}
    /\ Faultless' => Faultless
    /\ \A j \in Client \ {K(c)} : /\ sessions'[j] = sessions[j] /\ cache'[j] = cache[j]
                                  /\ docs'[j] = docs[j]
                                  /\ Kept(j)' = Kept(j) /\ Routed(j)' = Routed(j)

Allocates(c, t) ==
    LET mine == {sessions[K(c)], cache[K(c)], th[c].obj, Nil}
                \cup (IF Unborn(c) /\ t.obj = c THEN {c} ELSE {})
    IN  /\ {sessions'[K(c)], cache'[K(c)], t.obj} \subseteq mine
        /\ \A o \in Conn : \/ heap'[o] = heap[o]
                           \/ o = c /\ Unborn(c)
                           \/ o = th[c].obj /\ heap'[o].temp = heap[o].temp
        /\ t.obj = Nil /\ t.pc # "done" => Unborn(c)

LEMMA Bystanders ==
    ASSUME IInv, NEW c \in Conn, NEW t, Live(c), Touches(c, t), Allocates(c, t)
    PROVE  /\ Owned' /\ Fresh' /\ Sole'
           /\ \A d \in Conn \ {c} : /\ th'[d] = th[d]
                                    /\ th[d].obj # Nil => heap'[th[d].obj].temp = heap[th[d].obj].temp
           /\ \A k \in Client \ {K(c)}, o \in Conn : Refers(k, o) => heap'[o] = heap[o]
<1>1. K(c) \in Client /\ th \in [Conn -> HandlerState] /\ th'[c] = t
      /\ \A d \in Conn \ {c} : th'[d] = th[d]
      BY DEF IInv, Types, Places, PlaceOK, Live, K, Touches
<1>2. ASSUME NEW k \in Client, NEW o \in Conn, Refers(k, o)', ~Refers(k, o)
      PROVE  k = K(c) /\ o = c /\ Unborn(c) /\ t.obj = c
  <2>1. k = K(c)
    <3> SUFFICES ASSUME k # K(c) PROVE FALSE
        OBVIOUS
    <3>1. sessions'[k] = sessions[k] /\ cache'[k] = cache[k]
          BY DEF Touches
    <3>2. PICK d \in Conn : th'[d].obj = o /\ th'[d].client = k
          BY <1>2, <3>1 DEF Refers, K
    <3>3. d = c
          BY <1>1, <1>2, <3>2 DEF Refers, K
    <3>4. t.obj = o /\ t.client = k
          BY <1>1, <3>2, <3>3
    <3> QED
        BY <3>4 DEF Touches, Done, Ready
  <2>2. o \in {sessions'[k], cache'[k], t.obj} \/ \E d \in Conn \ {c} : th[d].obj = o /\ K(d) = k
        BY <1>1, <1>2 DEF Refers, K
  <2>3. o \notin {sessions[k], cache[k], th[c].obj, Nil}
        BY <1>2, <2>1 DEF Refers
  <2>4. o \in {sessions'[k], cache'[k], t.obj}
        BY <1>2, <2>2 DEF Refers
  <2> QED
      BY <2>1, <2>3, <2>4 DEF Allocates
<1>3. Owned'
  <2> SUFFICES ASSUME NEW o \in Conn, NEW j \in Client, NEW k \in Client, Refers(j, o)', Refers(k, o)'
               PROVE  j = k
      BY DEF Owned
  <2>1. CASE Refers(j, o) /\ Refers(k, o)
        BY <2>1 DEF IInv, Owned
  <2>2. CASE ~Refers(j, o) \/ ~Refers(k, o)
    <3>1. o = c /\ Unborn(c)
          BY <1>2, <2>2
    <3>2. ~Refers(j, o) /\ ~Refers(k, o)
          BY <3>1 DEF IInv, Fresh, Unborn
    <3> QED
        BY <1>2, <3>2
  <2> QED
      BY <2>1, <2>2
<1>4. Fresh'
  <2> SUFFICES ASSUME NEW d \in Conn, th'[d].pc # "done", th'[d].obj = Nil,
                      NEW k \in Client, Refers(k, d)'
               PROVE  FALSE
      BY DEF Fresh
  <2>1. CASE d = c
    <3>1. t.pc # "done" /\ t.obj = Nil
          BY <1>1, <2>1
    <3>2. Unborn(c)
          BY <3>1 DEF Allocates
    <3>3. t.obj # c
          BY <3>1
    <3> QED
        BY <1>2, <2>1, <3>2, <3>3 DEF IInv, Fresh, Unborn
  <2>2. CASE d # c
        BY <1>1, <1>2, <2>2 DEF IInv, Fresh
  <2> QED
      BY <2>1, <2>2
<1>5. Sole'
  <2>1. Live(c)' => K(c)' = K(c)
        BY <1>1 DEF Live, K, Touches, Done, Ready
  <2>2. \A d \in Conn \ {c} : (Live(d)' <=> Live(d)) /\ K(d)' = K(d)
        BY <1>1 DEF Live, K
  <2> QED
      BY <2>1, <2>2 DEF IInv, Sole, Touches
<1>6. ASSUME NEW d \in Conn \ {c}, th[d].obj # Nil
      PROVE  heap'[th[d].obj].temp = heap[th[d].obj].temp
  <2>1. th[d].obj \in Conn
        BY <1>1, <1>6 DEF HandlerState
  <2>2. Unborn(c) => th[d].obj # c
    <3>1. th[d].obj # Nil => K(d) \in Client
          BY DEF IInv, Places, PlaceOK, K
    <3> QED
        BY <1>6, <3>1 DEF IInv, Fresh, Unborn, Refers
  <2> QED
      BY <2>1, <2>2 DEF Allocates
<1>7. ASSUME NEW k \in Client \ {K(c)}, NEW o \in Conn, Refers(k, o)
      PROVE  heap'[o] = heap[o]
  <2>1. ~(o = c /\ Unborn(c))
        BY <1>7 DEF IInv, Fresh, Unborn
  <2>2. o # th[c].obj
        BY <1>1, <1>7 DEF IInv, Owned, Refers
  <2> QED
      BY <2>1, <2>2 DEF Allocates
<1> QED
    BY <1>1, <1>3, <1>4, <1>5, <1>6, <1>7

LEMMA HandlerFrame ==
    ASSUME NEW k \in Client, NEW t, PlaceOK(t, Object(t).temp), HandlerOK(t, k),
           t.obj # Nil => heap'[t.obj] = heap[t.obj],
           sessions'[k] = sessions[k], cache'[k] = cache[k], docs'[k] = docs[k],
           Kept(k)' = Kept(k), Routed(k)' = Routed(k), Faultless' => Faultless
    PROVE  HandlerOK(t, k)'
<1>1. t.obj # Nil => Object(t)' = Object(t)
      BY DEF Object
<1>2. CASE t.pc \in Holding
  <2>1. Object(t)' = Object(t)
        BY <1>1, <1>2 DEF PlaceOK
  <2>2. AskedOK(t, k)'
        BY <1>2, <2>1 DEF HandlerOK, AskedOK
  <2>3. Object(t).temp => TemporaryOK(t, k)'
        BY <1>2, <2>1 DEF HandlerOK, TemporaryOK
  <2>4. ~Object(t).temp => LastingOK(t, k)'
        BY <1>2, <2>1 DEF HandlerOK, LastingOK
  <2> QED
      BY <1>2, <2>1, <2>2, <2>3, <2>4 DEF HandlerOK
<1>3. CASE t.pc \notin Holding
  <2>1. t.pc \in Drops /\ t.ret = "done" => Object(t)' = Object(t)
        BY <1>1 DEF PlaceOK
  <2>2. SeekerOK(t, k)'
        BY <1>3, <2>1 DEF HandlerOK, SeekerOK
  <2> QED
      BY <1>3, <2>2 DEF HandlerOK
<1> QED
    BY <1>2, <1>3

LEMMA StoresFrame ==
    ASSUME NEW k \in Client, NEW held, StoresOK(k, held),
           cache[k] # Nil => heap'[cache[k]] = heap[cache[k]],
           sessions'[k] = sessions[k], cache'[k] = cache[k], docs'[k] = docs[k],
           Kept(k)' = Kept(k), Routed(k)' = Routed(k), Faultless' => Faultless
    PROVE  StoresOK(k, held)'
BY DEF StoresOK

\* All there is to know about a step of handler c, of client k, from s to t.
Moves(c, k, s, t) ==
    /\ Live(c) /\ k \in Client /\ Touches(c, t) /\ Allocates(c, t)
    /\ c \in superseded /\ k \notin unsettled' => t = Done /\ UNCHANGED <<stores, kept>>
    /\ c \notin superseded /\ k \notin unsettled' => Together(s, t, k)

(***************************************************************************)
(* Such a step preserves the invariant if it does for its own client.      *)
(***************************************************************************)
LEMMA Step ==
    ASSUME IInv, NEW c \in Conn, NEW k \in Client, k = K(c), NEW t, Live(c),
           Touches(c, t), Allocates(c, t), Types',
           PlaceOK(t, heap'[t.obj].temp),
           sessions'[k] # Nil => heap'[sessions'[k]].temp,
           cache'[k] # Nil => ~heap'[cache'[k]].temp,
           c \in superseded /\ k \notin unsettled' => t = Done /\ UNCHANGED <<stores, kept>>,
           c \notin superseded /\ k \notin unsettled' =>
               StoresOK(k, t.pc \in Holding)' /\ (t.pc # "done" => HandlerOK(t, k)')
    PROVE  IInv'
<1>1. /\ th \in [Conn -> HandlerState] /\ th'[c] = t /\ \A d \in Conn \ {c} : th'[d] = th[d]
      /\ superseded' = superseded /\ unsettled \subseteq unsettled'
      BY DEF IInv, Types, Touches
<1>2. Places'
  <2>1. PlaceOK(th[c], Mine(c).temp)'
        BY <1>1 DEF Mine
  <2>2. ASSUME NEW d \in Conn \ {c} PROVE PlaceOK(th[d], Mine(d).temp)'
    <3>1. PlaceOK(th[d], Mine(d).temp) /\ th'[d] = th[d]
          BY <1>1 DEF IInv, Places
    <3>2. th[d].obj # Nil => Mine(d).temp' = Mine(d).temp
          BY <3>1, Bystanders DEF Mine
    <3>3. th[d].obj = Nil \/ th[d].obj # Nil
          OBVIOUS
    <3>4. CASE th[d].obj # Nil
          BY <3>1, <3>2, <3>4
    <3>5. CASE th[d].obj = Nil
          BY <3>1, <3>5 DEF PlaceOK, Holding, Saves
    <3> QED
        BY <3>4, <3>5
  <2> QED
      BY <2>1, <2>2 DEF Places
<1>3. Kinds'
  <2> SUFFICES ASSUME NEW j \in Client
               PROVE /\ sessions'[j] # Nil => heap'[sessions'[j]].temp
                     /\ cache'[j] # Nil => ~heap'[cache'[j]].temp
      BY DEF Kinds
  <2>1. CASE j = k
        BY <2>1
  <2>2. CASE j # k
    <3>1. sessions'[j] = sessions[j] /\ cache'[j] = cache[j]
          BY <2>2 DEF Touches
    <3>2. sessions[j] # Nil => sessions[j] \in Conn /\ Refers(j, sessions[j])
          BY DEF IInv, Types, Refers
    <3>3. cache[j] # Nil => cache[j] \in Conn /\ Refers(j, cache[j])
          BY DEF IInv, Types, Refers
    <3>4. \A o \in Conn : Refers(j, o) => heap'[o] = heap[o]
          BY <2>2, Bystanders
    <3> QED
        BY <3>1, <3>2, <3>3, <3>4 DEF IInv, Kinds
  <2> QED
      BY <2>1, <2>2
<1>4. Owned' /\ Fresh' /\ Sole'
      BY Bystanders
<1>5. Left'
  <2>1. c \in superseded /\ k \notin unsettled' => t.pc = "done"
        BY DEF Done, Ready
  <2>2. ASSUME NEW d \in superseded, d # c
        PROVE (th[d].pc # "ready" /\ (Live(d) /\ K(d) \notin unsettled => th[d].pc = "loop"))'
    <3>1. d \in Conn /\ th'[d] = th[d]
          BY <1>1, <2>2 DEF IInv, Types
    <3> QED
        BY <1>1, <3>1 DEF IInv, Left, Live, K
  <2>3. c \in superseded => th'[c].pc # "ready"
        BY <1>1 DEF Touches, Done, Ready
  <2>4. Live(c)' => K(c)' = k
        BY <1>1 DEF Live, K, Touches, Done, Ready
  <2> QED
      BY <1>1, <2>1, <2>2, <2>3, <2>4 DEF Left, Live
<1>6. ASSUME NEW j \in Client \ unsettled' PROVE Settled(j)'
  <2>1. j \notin unsettled /\ Settled(j)
        BY <1>1 DEF IInv
  <2>2. \A d \in Conn \ {c} : d \in Current(j)' <=> d \in Current(j)
        BY <1>1 DEF Current, Others, Live, K
  <2>3. CASE j # k \/ c \in superseded
    <3>1. c \notin Current(j)' /\ c \notin Current(j)
          BY <1>1, <2>3 DEF Current, Others, Live, K, Touches, Done, Ready
    <3>2. Current(j)' = Current(j)
          BY <2>2, <3>1 DEF Current, Others
    <3>3. /\ sessions'[j] = sessions[j] /\ cache'[j] = cache[j] /\ docs'[j] = docs[j]
          /\ Kept(j)' = Kept(j) /\ Routed(j)' = Routed(j) /\ (Faultless' => Faultless)
          BY <2>3 DEF Touches, stores, Kept, Routed
    <3>4. \A o \in Conn : Refers(j, o) => heap'[o] = heap[o]
          BY <2>3, Bystanders DEF stores
    <3>5. StoresOK(j, Held(j))'
      <4>1. cache[j] # Nil => heap'[cache[j]] = heap[cache[j]]
            BY <3>4 DEF IInv, Types, Refers
      <4>2. Held(j)' = Held(j)
            BY <1>1, <3>1, <3>2 DEF Held, Current, Others
      <4> HIDE DEF Held
      <4>3. PICK h : h = Held(j)
            OBVIOUS
      <4>4. StoresOK(j, h)
            BY <2>1, <4>3 DEF Settled
      <4>5. StoresOK(j, h)'
            BY <3>3, <4>1, <4>4, StoresFrame
      <4> QED
          BY <4>2, <4>3, <4>5 DEF StoresOK
    <3>6. ASSUME NEW d \in Current(j) PROVE HandlerOK(th[d], j)'
      <4>1. d \in Conn /\ K(d) = j /\ th'[d] = th[d] /\ PlaceOK(th[d], Mine(d).temp)
            BY <1>1, <3>1 DEF Current, Others, IInv, Places
      <4>2. th[d].obj # Nil => heap'[th[d].obj] = heap[th[d].obj]
            BY <1>1, <3>4, <4>1 DEF Refers, HandlerState
      <4>3. PICK s : s = th[d]
            OBVIOUS
      <4>4. HandlerOK(s, j) /\ PlaceOK(s, Object(s).temp) /\ (s.obj # Nil => heap'[s.obj] = heap[s.obj])
            BY <2>1, <4>1, <4>2, <4>3 DEF Settled, Mine, Object
      <4>5. HandlerOK(s, j)'
            BY <3>3, <4>4, HandlerFrame
      <4> QED
          BY <4>1, <4>3, <4>5 DEF HandlerOK, SeekerOK, AskedOK, TemporaryOK, LastingOK, Object
    <3> QED
        BY <3>2, <3>5, <3>6 DEF Settled
  <2>4. CASE j = k /\ c \notin superseded
    <3>1. StoresOK(j, t.pc \in Holding)' /\ (t.pc # "done" => HandlerOK(t, j)')
          BY <2>4
    <3>2. c \in Current(j)
          BY <2>4 DEF Current, Others
    <3>3. \A d \in Current(j) : d = c
          BY <2>4, <3>2 DEF IInv, Sole, Current, Others
    <3>4. \A d \in Current(j)' : d = c /\ t.pc # "done"
          BY <1>1, <2>2, <3>3 DEF Current, Others, Live
    <3>5. t.pc # "done" => c \in Current(j)'
          BY <1>1, <2>4 DEF Current, Others, Live, K, Touches, Done, Ready
    <3>6. Held(j)' <=> t.pc \in Holding
          BY <1>1, <3>4, <3>5 DEF Held, Holding
    <3>7. StoresOK(j, Held(j))'
          BY <3>1, <3>6 DEF StoresOK
    <3>8. t.pc # "done" => HandlerOK(th[c], j)'
          BY <1>1, <3>1 DEF HandlerOK, SeekerOK, AskedOK, TemporaryOK, LastingOK, Object
    <3> QED
        BY <3>4, <3>7, <3>8 DEF Settled
  <2> QED
      BY <2>3, <2>4
<1> QED
    BY <1>2, <1>3, <1>4, <1>5, <1>6 DEF IInv
-----------------------------------------------------------------------------
(***************************************************************************)
(* The ways in which a step changes the locals of its handler.             *)
(***************************************************************************)
Becomes(c, t) == /\ th' = [th EXCEPT ![c] = t] /\ th'[c] = t /\ t \in HandlerState

LEMMA Gone ==
    ASSUME Types, NEW c \in Conn, End(c)
    PROVE  Becomes(c, Done) /\ Done.pc = "done" /\ Done.obj = Nil /\ Done.client = NoClient
           /\ Done.ret = "loop" /\ Done.cur = {}
BY LabelsAre DEF Types, End, Becomes, HandlerState, Done, Ready

LEMMA Moved ==
    ASSUME Types, NEW c \in Conn, NEW label \in Labels, Goto(c, label)
    PROVE  LET t == th'[c]  s == th[c] IN
           /\ Becomes(c, t) /\ t.pc = label /\ t.client = s.client /\ t.clean = s.clean
           /\ t.obj = s.obj /\ t.request = s.request /\ t.todo = s.todo /\ t.cur = s.cur
           /\ t.buf = s.buf /\ t.ret = s.ret
<1>1. th \in [Conn -> HandlerState]
      BY DEF Types
<1>2. th' = [th EXCEPT ![c].pc = label]
      BY DEF Goto
<1> QED
    BY <1>1, <1>2 DEF Becomes, HandlerState

Buffers(c, B, label) == th' = [th EXCEPT ![c].buf = B, ![c].pc = label]

LEMMA Buffered ==
    ASSUME Types, NEW c \in Conn, NEW label \in Labels, NEW B \in SUBSET Topic, Buffers(c, B, label)
    PROVE  LET t == th'[c]  s == th[c] IN
           /\ Becomes(c, t) /\ t.pc = label /\ t.client = s.client /\ t.clean = s.clean
           /\ t.obj = s.obj /\ t.request = s.request /\ t.todo = s.todo /\ t.cur = s.cur
           /\ t.buf = B /\ t.ret = s.ret
<1>1. th \in [Conn -> HandlerState]
      BY DEF Types
<1> QED
    BY <1>1 DEF Becomes, HandlerState, Buffers

LEMMA Begun ==
    ASSUME Types, NEW c \in Conn, NEW label \in Labels, NEW T \in SUBSET Topic,
           NEW ret \in {"create", "created", "suback", "loop", "done"}, Begin(c, label, T, ret)
    PROVE  LET t == th'[c]  s == th[c] IN
           /\ Becomes(c, t) /\ t.pc = label /\ t.client = s.client /\ t.clean = s.clean
           /\ t.obj = s.obj /\ t.request = T /\ t.todo = T /\ t.cur = s.cur
           /\ t.buf = s.buf /\ t.ret = ret
<1>1. th \in [Conn -> HandlerState]
      BY DEF Types
<1>2. th' = [th EXCEPT ![c].pc = label, ![c].request = T, ![c].todo = T, ![c].ret = ret]
      BY DEF Begin
<1>3. /\ DOMAIN th' = Conn /\ \A d \in Conn \ {c} : th'[d] = th[d]
      /\ th'[c] = [th[c] EXCEPT !.pc = label, !.request = T, !.todo = T, !.ret = ret]
      BY <1>1, <1>2
<1>4. th' = [th EXCEPT ![c] = th'[c]]
      BY <1>1, <1>2, <1>3
<1>5. th'[c] \in HandlerState
      BY <1>1, <1>3 DEF HandlerState
<1>6. /\ th'[c].pc = label /\ th'[c].request = T /\ th'[c].todo = T /\ th'[c].ret = ret
      /\ th'[c].client = th[c].client /\ th'[c].clean = th[c].clean /\ th'[c].obj = th[c].obj
      /\ th'[c].cur = th[c].cur /\ th'[c].buf = th[c].buf
      BY <1>1, <1>3 DEF HandlerState
<1> QED
    BY <1>4, <1>5, <1>6 DEF Becomes

Makes(c, o) == th' = [th EXCEPT ![c].obj = o, ![c].pc = "save", ![c].ret = "created"]

LEMMA Made ==
    ASSUME Types, NEW c \in Conn, NEW o \in Conn, Makes(c, o)
    PROVE  LET t == th'[c]  s == th[c] IN
           /\ Becomes(c, t) /\ t.pc = "save" /\ t.client = s.client /\ t.clean = s.clean
           /\ t.obj = o /\ t.request = s.request /\ t.todo = s.todo /\ t.cur = s.cur
           /\ t.buf = s.buf /\ t.ret = "created"
<1>1. th \in [Conn -> HandlerState]
      BY DEF Types
<1>2. th' = [th EXCEPT ![c].obj = o, ![c].pc = "save", ![c].ret = "created"]
      BY DEF Makes
<1>3. /\ DOMAIN th' = Conn /\ \A d \in Conn \ {c} : th'[d] = th[d]
      /\ th'[c] = [th[c] EXCEPT !.obj = o, !.pc = "save", !.ret = "created"]
      BY <1>1, <1>2
<1>4. th' = [th EXCEPT ![c] = th'[c]]
      BY <1>1, <1>2, <1>3
<1>5. th'[c] \in HandlerState
      BY <1>1, <1>3, LabelsAre DEF HandlerState
<1>6. /\ th'[c].pc = "save" /\ th'[c].ret = "created" /\ th'[c].obj = o
      /\ th'[c].client = th[c].client /\ th'[c].clean = th[c].clean
      /\ th'[c].request = th[c].request /\ th'[c].todo = th[c].todo
      /\ th'[c].cur = th[c].cur /\ th'[c].buf = th[c].buf
      BY <1>1, <1>3 DEF HandlerState
<1> QED
    BY <1>4, <1>5, <1>6 DEF Becomes

LEMMA Taken ==
    ASSUME Types, NEW c \in Conn, NEW label \in Labels, NEW f \in th[c].todo, Take(c, f, label)
    PROVE  LET t == th'[c]  s == th[c] IN
           /\ Becomes(c, t) /\ t.pc = label /\ t.client = s.client /\ t.clean = s.clean
           /\ t.obj = s.obj /\ t.request = s.request /\ t.todo = s.todo \ {f} /\ t.cur = {f}
           /\ t.buf = s.buf /\ t.ret = s.ret
<1>1. th \in [Conn -> HandlerState] /\ f \in Topic
      BY DEF Types, HandlerState
<1>2. th' = [th EXCEPT ![c].pc = label, ![c].todo = @ \ {f}, ![c].cur = {f}]
      BY DEF Take
<1> QED
    BY <1>1, <1>2 DEF Becomes, HandlerState

LEMMA Looped ==
    ASSUME Types, NEW c \in Conn, NEW o \in Conn, Loop(c, o)
    PROVE  LET t == th'[c]  s == th[c] IN
           /\ Becomes(c, t) /\ t.pc = "loop" /\ t.client = s.client /\ t.obj = o
           /\ t.request = {} /\ t.todo = {} /\ t.cur = {} /\ t.buf = {} /\ t.ret = "loop"
<1>1. th \in [Conn -> HandlerState]
      BY DEF Types
<1>2. th' = [th EXCEPT ![c] = [Ready EXCEPT !.pc = "loop", !.obj = o, !.client = th[c].client]]
      BY DEF Loop
<1>3. th'[c] = [Ready EXCEPT !.pc = "loop", !.obj = o, !.client = th[c].client]
      BY <1>1, <1>2
<1>4. th[c].client \in Client \cup {NoClient}
      BY <1>1 DEF HandlerState
<1> QED
    BY <1>1, <1>2, <1>3, <1>4, LabelsAre DEF Becomes, HandlerState, Ready
-----------------------------------------------------------------------------
(***************************************************************************)
(* What is known when handler c of client k takes a step in state s.       *)
(***************************************************************************)
LEMMA AtWork ==
    ASSUME IInv, NEW c \in Conn, NEW k, NEW s, k = K(c), s = th[c], s.pc \notin {"ready", "done"}
    PROVE  /\ s \in HandlerState /\ Live(c) /\ k \in Client /\ k = s.client
           /\ PlaceOK(s, Object(s).temp)
           /\ c \in superseded /\ s.pc # "loop" => k \in unsettled
<1>1. s \in HandlerState /\ Live(c)
      BY DEF IInv, Types, Live
<1>2. PlaceOK(s, Object(s).temp)
      BY DEF IInv, Places, Mine, Object
<1>3. k \in Client /\ k = s.client
      BY <1>2 DEF PlaceOK, K
<1>4. c \in superseded /\ s.pc # "loop" => k \in unsettled
      BY <1>1 DEF IInv, Left
<1> QED
    BY <1>1, <1>2, <1>3, <1>4

LEMMA Settles ==
    ASSUME IInv, NEW c \in Conn \ superseded, NEW k \in Client \ unsettled, NEW s,
           k = K(c), s = th[c], s.pc \notin {"ready", "done"}
    PROVE  HandlerOK(s, k) /\ StoresOK(k, s.pc \in Holding)
<1>1. Settled(k) /\ c \in Current(k)
      BY DEF IInv, Current, Others, Live
<1>2. HandlerOK(s, k)
      BY <1>1 DEF Settled
<1>3. Held(k) <=> s.pc \in Holding
      BY <1>1 DEF IInv, Sole, Held, Current, Others
<1>4. StoresOK(k, s.pc \in Holding)
      BY <1>1, <1>3 DEF Settled, StoresOK
<1> QED
    BY <1>2, <1>4

LEMMA Seeking ==
    ASSUME IInv, NEW c \in Conn, NEW k, NEW s, k = K(c), s = th[c],
           s.pc \notin Holding \cup {"ready", "done"}
    PROVE  c \notin superseded /\ k \notin unsettled => StoresOK(k, FALSE) /\ SeekerOK(s, k)
<1> SUFFICES ASSUME c \notin superseded, k \notin unsettled
             PROVE  StoresOK(k, FALSE) /\ SeekerOK(s, k)
    OBVIOUS
<1>1. k \in Client
      BY AtWork
<1>2. HandlerOK(s, k) /\ StoresOK(k, s.pc \in Holding)
      BY <1>1, Settles
<1> QED
    BY <1>2 DEF HandlerOK, StoresOK

LEMMA Working ==
    ASSUME IInv, NEW c \in Conn, NEW k, NEW s, k = K(c), s = th[c], s.pc \in Holding
    PROVE  /\ s.obj \in Conn /\ s.obj # Nil /\ Object(s) \in Session
           /\ c \notin superseded /\ k \notin unsettled =>
                  /\ StoresOK(k, TRUE) /\ AskedOK(s, k)
                  /\ IF Object(s).temp THEN TemporaryOK(s, k) ELSE LastingOK(s, k)
<1>1. s.pc \notin {"ready", "done"}
      BY DEF Holding
<1>2. s \in HandlerState /\ k \in Client /\ PlaceOK(s, Object(s).temp)
      BY <1>1, AtWork
<1>3. s.obj \in Conn /\ s.obj # Nil /\ Object(s) \in Session
      BY <1>2 DEF PlaceOK, HandlerState, Object, IInv, Types
<1>4. ASSUME c \notin superseded, k \notin unsettled
      PROVE  /\ StoresOK(k, TRUE) /\ AskedOK(s, k)
             /\ IF Object(s).temp THEN TemporaryOK(s, k) ELSE LastingOK(s, k)
  <2>1. HandlerOK(s, k) /\ StoresOK(k, s.pc \in Holding)
        BY <1>1, <1>2, <1>4, Settles
  <2> QED
      BY <2>1 DEF HandlerOK, StoresOK
<1> QED
    BY <1>3, <1>4

\* A handler that waits for a packet keeps nothing from the stores.
LEMMA Waiting ==
    ASSUME NEW k \in Client, NEW s, StoresOK(k, TRUE), s.ret # "suback",
           Faultless => s.pc \notin {"record", "unsaved"},
           IF Object(s).temp THEN TemporaryOK(s, k) ELSE LastingOK(s, k)
    PROVE  StoresOK(k, FALSE)
<1>1. Object(s).temp => cache[k] = Nil
      BY DEF TemporaryOK
<1>2. ~Object(s).temp /\ cache[k] # Nil /\ Faultless =>
          /\ heap[cache[k]].subs \subseteq docs[k].subs
          /\ (docs[k].subs \ heap[cache[k]].subs) \cap Routed(k) = {}
      BY DEF LastingOK, Object
<1> QED
    BY <1>1, <1>2 DEF StoresOK

LEMMA KnownIs ==
    ASSUME NEW k \in Client, NEW s, s.obj # Nil,
           IF Object(s).temp THEN TemporaryOK(s, k) ELSE LastingOK(s, k)
    PROVE  Known(s, k) = docs[k].subs \cup Object(s).subs \cup s.cur
BY DEF Known, Subs, TemporaryOK, LastingOK, Object

LEMMA Remains ==
    ASSUME NEW k \in Client, NEW s, NEW t, s.obj # Nil, t.obj # Nil,
           IF Object(s).temp THEN TemporaryOK(s, k) ELSE LastingOK(s, k),
           Faultless' => Routed(k)' \ (docs'[k].subs \cup Object(t)'.subs \cup t.cur)
                             \subseteq Routed(k) \ (docs[k].subs \cup Object(s).subs \cup s.cur),
           Faultless' => \/ s.pc = "delete"
                         \/ docs'[k].subs \ Routed(k)' \subseteq docs[k].subs \ Routed(k)
    PROVE  Together(s, t, k)
<1>1. Known(s, k) = docs[k].subs \cup Object(s).subs \cup s.cur
      BY KnownIs
<1>2. docs'[k].subs \cup Object(t)'.subs \cup t.cur \subseteq Known(t, k)'
      BY DEF Known, Subs, Object
<1> QED
    BY <1>1, <1>2 DEF Together
-----------------------------------------------------------------------------
(***************************************************************************)
(* The steps of a handler, one by one.                                     *)
(***************************************************************************)
LEMMA DropMapStep ==
    ASSUME IInv, NEW c \in Conn, NEW k, NEW s, NEW t, k = K(c), s = th[c], t = th'[c], DropMap(c)
    PROVE  IInv' /\ Moves(c, k, s, t)
<1>1. up /\ s.pc = "dropMap" /\ s.pc \notin Holding /\ Types
      BY DEF DropMap, At, IInv, Holding
<1>2. /\ s \in HandlerState /\ s.pc = "dropMap" /\ Live(c) /\ k \in Client /\ k = s.client
      /\ PlaceOK(s, Object(s).temp)
      /\ c \in superseded => k \in unsettled
      /\ c \notin superseded /\ k \notin unsettled => StoresOK(k, FALSE) /\ SeekerOK(s, k)
      BY <1>1, AtWork, Seeking
<1>3. /\ sessions' = [sessions EXCEPT ![k] = Nil]
      /\ UNCHANGED <<cache, docs, heap, tree, up, spent, kept, superseded, unsettled>>
      BY DEF DropMap, history
<1>4. /\ Becomes(c, t)
      /\ \/ /\ \/ t.pc = "dropCache" /\ sessions[k] = Nil
               \/ t.pc = "create" /\ s.ret = "create" /\ sessions[k] # Nil
            /\ t.client = k /\ t.clean = s.clean /\ t.obj = s.obj
            /\ t.cur = s.cur /\ t.ret = s.ret
         \/ t = Done /\ t.pc = "done" /\ t.obj = Nil /\ t.cur = {} /\ t.ret = "loop" /\ s.ret = "done"
  <2>1. CASE Goto(c, "dropCache") /\ sessions[k] = Nil
        BY <1>1, <1>2, <2>1, Moved, LabelsAre
  <2>2. CASE Goto(c, "create") /\ s.ret = "create" /\ sessions[k] # Nil
        BY <1>1, <1>2, <2>2, Moved, LabelsAre
  <2>3. CASE End(c) /\ s.ret = "done"
        BY <1>1, <2>3, Gone DEF Becomes
  <2> QED
      BY <2>1, <2>2, <2>3 DEF DropMap, Resume
<1>5. Types'
      BY <1>1, <1>2, <1>3, <1>4 DEF Types, Becomes
<1>6. Touches(c, t)
      BY <1>1, <1>2, <1>3, <1>4 DEF Types, Touches, Becomes, Kept, Routed, Faultless
<1>7. Allocates(c, t)
      BY <1>1, <1>2, <1>3, <1>4 DEF Types, Allocates, PlaceOK, Unborn, Drops
<1>8. PlaceOK(t, heap'[t.obj].temp)
      BY <1>2, <1>3, <1>4 DEF PlaceOK, Object, Early, Drops, Saves, Holding
<1>9. /\ sessions'[k] # Nil => heap'[sessions'[k]].temp
      /\ cache'[k] # Nil => ~heap'[cache'[k]].temp
      BY <1>1, <1>2, <1>3 DEF IInv, Types, Kinds
<1>10. ASSUME c \notin superseded, k \notin unsettled'
       PROVE /\ StoresOK(k, t.pc \in Holding)' /\ (t.pc # "done" => HandlerOK(t, k)')
             /\ Together(s, t, k)
  <2>1. /\ StoresOK(k, FALSE) /\ SeekerOK(s, k)
        /\ sessions'[k] = Nil /\ UNCHANGED <<cache[k], docs[k], heap, Kept(k), Routed(k), Faultless>>
        BY <1>1, <1>2, <1>3, <1>10 DEF Kept, Routed, Faultless, Types
  <2>2. StoresOK(k, t.pc \in Holding)'
        BY <1>4, <2>1 DEF StoresOK, Holding
  <2>3. t.pc # "done" => HandlerOK(t, k)'
        BY <1>2, <1>4, <2>1 DEF HandlerOK, SeekerOK, StoresOK, Holding, Drops, PlaceOK, Object
  <2>4. CASE s.ret = "create"
        BY <2>1, <2>2, <2>3, <2>4, <1>1 DEF Together
  <2>5. CASE s.ret = "done"
    <3>1. Faultless => Known(s, k) \cap Routed(k) = {}
          BY <1>1, <1>2, <2>1, <2>5 DEF SeekerOK, Drops, Known, Subs, Object, Types
    <3>2. Together(s, t, k)
          BY <1>1, <2>1, <3>1 DEF Together
    <3> QED
        BY <2>2, <2>3, <3>2
  <2> QED
      BY <1>1, <1>2, <2>4, <2>5 DEF PlaceOK, Drops
<1> QED
    BY <1>1, <1>2, <1>3, <1>5, <1>6, <1>7, <1>8, <1>9, <1>10, Step DEF Moves
LEMMA DropCacheStep ==
    ASSUME IInv, NEW c \in Conn, NEW k, NEW s, NEW t, k = K(c), s = th[c], t = th'[c], DropCache(c)
    PROVE  IInv' /\ Moves(c, k, s, t)
<1>1. up /\ s.pc = "dropCache" /\ s.pc \notin Holding /\ Types
      BY DEF DropCache, At, IInv, Holding
<1>2. /\ s \in HandlerState /\ s.pc = "dropCache" /\ Live(c) /\ k \in Client /\ k = s.client
      /\ PlaceOK(s, Object(s).temp)
      /\ c \in superseded => k \in unsettled
      /\ c \notin superseded /\ k \notin unsettled => StoresOK(k, FALSE) /\ SeekerOK(s, k)
      BY <1>1, AtWork, Seeking
<1>3. /\ cache' = [cache EXCEPT ![k] = Nil]
      /\ UNCHANGED <<sessions, docs, heap, tree, up, spent, kept, superseded, unsettled>>
      BY DEF DropCache, history
<1>4. /\ Becomes(c, t) /\ t.pc = "dropDoc"
      /\ t.client = k /\ t.clean = s.clean /\ t.obj = s.obj /\ t.request = s.request
      /\ t.todo = s.todo /\ t.cur = s.cur /\ t.buf = s.buf /\ t.ret = s.ret
      BY <1>1, <1>2, Moved, LabelsAre DEF DropCache
<1>5. Types'
      BY <1>1, <1>2, <1>3, <1>4 DEF Types, Becomes
<1>6. Touches(c, t)
      BY <1>1, <1>2, <1>3, <1>4 DEF Types, Touches, Becomes, Kept, Routed, Faultless
<1>7. Allocates(c, t)
      BY <1>1, <1>2, <1>3, <1>4 DEF Types, Allocates, PlaceOK, Unborn, Early, Drops
<1>8. PlaceOK(t, heap'[t.obj].temp)
      BY <1>2, <1>3, <1>4 DEF PlaceOK, Object, Early, Drops, Saves, Holding
<1>9. /\ sessions'[k] # Nil => heap'[sessions'[k]].temp
      /\ cache'[k] # Nil => ~heap'[cache'[k]].temp
      BY <1>1, <1>2, <1>3 DEF IInv, Types, Kinds
<1>10. ASSUME c \notin superseded, k \notin unsettled'
       PROVE /\ StoresOK(k, t.pc \in Holding)' /\ (t.pc # "done" => HandlerOK(t, k)')
             /\ Together(s, t, k)
  <2>1. /\ StoresOK(k, FALSE) /\ SeekerOK(s, k)
        /\ cache'[k] = Nil /\ UNCHANGED <<sessions[k], docs[k], heap, Kept(k), Routed(k), Faultless>>
        BY <1>1, <1>2, <1>3, <1>10 DEF Kept, Routed, Faultless, Types
  <2>2. StoresOK(k, t.pc \in Holding)'
        BY <1>4, <2>1 DEF StoresOK, Holding
  <2>3. t.pc # "done" => HandlerOK(t, k)'
        BY <1>2, <1>4, <2>1 DEF HandlerOK, SeekerOK, Holding, Drops, Object
  <2>9. Together(s, t, k)
        BY <1>1, <1>2, <2>1 DEF Together, PlaceOK, SeekerOK, Drops
  <2> QED
      BY <2>2, <2>3, <2>9
<1> QED
    BY <1>1, <1>2, <1>3, <1>5, <1>6, <1>7, <1>8, <1>9, <1>10, Step DEF Moves

LEMMA DropDocStep ==
    ASSUME IInv, NEW c \in Conn, NEW k, NEW s, NEW t, k = K(c), s = th[c], t = th'[c], DropDoc(c)
    PROVE  IInv' /\ Moves(c, k, s, t)
<1>1. up /\ s.pc = "dropDoc" /\ s.pc \notin Holding /\ Types
      BY DEF DropDoc, At, IInv, Holding
<1>2. /\ s \in HandlerState /\ s.pc = "dropDoc" /\ Live(c) /\ k \in Client /\ k = s.client
      /\ PlaceOK(s, Object(s).temp)
      /\ c \in superseded => k \in unsettled
      /\ c \notin superseded /\ k \notin unsettled => StoresOK(k, FALSE) /\ SeekerOK(s, k)
      BY <1>1, AtWork, Seeking
<1>3. /\ docs' = [docs EXCEPT ![k] = NoDoc] \/ docs' = docs
      /\ \/ docs' = [docs EXCEPT ![k] = NoDoc] /\ spent' = spent
         \/ spent' = [spent EXCEPT !.errors = @ + 1]
      /\ UNCHANGED <<sessions, cache, heap, tree, up, kept, superseded, unsettled>>
      BY DEF DropDoc, DatabaseError, history
<1>4. /\ Becomes(c, t)
      /\ \/ /\ t.pc = "create" /\ s.ret = "create"
            /\ t.client = k /\ t.clean = s.clean /\ t.obj = s.obj
            /\ t.cur = s.cur /\ t.ret = s.ret
         \/ /\ t = Done /\ t.pc = "done" /\ t.obj = Nil /\ t.cur = {} /\ t.ret = "loop"
            /\ s.ret = "done"
  <2>1. CASE Goto(c, "create") /\ s.ret = "create"
        BY <1>1, <1>2, <2>1, Moved, LabelsAre
  <2>2. CASE End(c) /\ s.ret = "done"
        BY <1>1, <2>2, Gone DEF Becomes
  <2> QED
      BY <2>1, <2>2 DEF DropDoc, Resume
<1>5. Types'
  <2>1. /\ docs' \in [Client -> [stored : BOOLEAN, subs : SUBSET Topic]]
        /\ \A j \in Client : ~docs'[j].stored => docs'[j].subs = {}
    <3>1. CASE docs' = docs
          BY <1>1, <3>1 DEF Types
    <3>2. CASE docs' = [docs EXCEPT ![k] = NoDoc]
          BY <1>1, <1>2, <3>2 DEF Types, NoDoc
    <3> QED
        BY <1>3, <3>1, <3>2
  <2>2. spent' \in [errors : Nat, restarts : Nat, packets : Nat]
        BY <1>1, <1>3 DEF Types
  <2> QED
      BY <1>1, <1>3, <1>4, <2>1, <2>2 DEF Types, Becomes
<1>6. Touches(c, t)
      BY <1>1, <1>2, <1>3, <1>4 DEF Types, Touches, Becomes, Kept, Routed, Faultless
<1>7. Allocates(c, t)
      BY <1>1, <1>2, <1>3, <1>4 DEF Types, Allocates, PlaceOK, Unborn, Early, Drops
<1>8. PlaceOK(t, heap'[t.obj].temp)
      BY <1>2, <1>3, <1>4 DEF PlaceOK, Object, Early, Drops, Saves, Holding
<1>9. /\ sessions'[k] # Nil => heap'[sessions'[k]].temp
      /\ cache'[k] # Nil => ~heap'[cache'[k]].temp
      BY <1>1, <1>2, <1>3 DEF IInv, Types, Kinds
<1>10. ASSUME c \notin superseded, k \notin unsettled'
       PROVE /\ StoresOK(k, t.pc \in Holding)' /\ (t.pc # "done" => HandlerOK(t, k)')
             /\ Together(s, t, k)
  <2>1. /\ StoresOK(k, FALSE) /\ SeekerOK(s, k)
        /\ UNCHANGED <<sessions[k], cache[k], heap, Kept(k), Routed(k)>>
        /\ docs'[k] = NoDoc \/ docs'[k] = docs[k]
        BY <1>1, <1>2, <1>3, <1>10 DEF Kept, Routed, Types
  <2>4. Faultless' => Faultless /\ docs'[k] = NoDoc
        BY <1>1, <1>2, <1>3 DEF Faultless, Types
  <2>5. Kept(k) = {} /\ cache[k] = Nil /\ sessions[k] = Nil
        BY <1>2, <2>1 DEF SeekerOK, Drops
  <2>2. StoresOK(k, t.pc \in Holding)'
        BY <1>4, <2>1, <2>4, <2>5 DEF StoresOK, Holding
  <2>3. t.pc # "done" => HandlerOK(t, k)'
        BY <1>2, <1>4, <2>1, <2>4, <2>5 DEF HandlerOK, SeekerOK, Holding, Drops, Object, NoDoc
  <2>9. Together(s, t, k)
        BY <1>1, <1>2, <2>1, <2>4 DEF Together, PlaceOK, SeekerOK, Drops, NoDoc
  <2> QED
      BY <2>2, <2>3, <2>9
<1> QED
    BY <1>1, <1>2, <1>3, <1>5, <1>6, <1>7, <1>8, <1>9, <1>10, Step DEF Moves

LEMMA LookupStep ==
    ASSUME IInv, NEW c \in Conn, NEW k, NEW s, NEW t, k = K(c), s = th[c], t = th'[c], Lookup(c)
    PROVE  IInv' /\ Moves(c, k, s, t)
<1>1. up /\ s.pc = "lookup" /\ s.pc \notin Holding /\ Types
      BY DEF Lookup, At, IInv, Holding
<1>2. /\ s \in HandlerState /\ s.pc = "lookup" /\ Live(c) /\ k \in Client /\ k = s.client
      /\ PlaceOK(s, Object(s).temp)
      /\ c \in superseded => k \in unsettled
      /\ c \notin superseded /\ k \notin unsettled => StoresOK(k, FALSE) /\ SeekerOK(s, k)
      BY <1>1, AtWork, Seeking
<1>3. /\ sessions[k] # Nil => unsettled' = unsettled \cup {k}
      /\ sessions[k] = Nil => unsettled' = unsettled
      /\ UNCHANGED <<sessions, cache, docs, heap, tree, up, spent, kept, superseded>>
      BY DEF Lookup, stores
<1>4. /\ Becomes(c, t) /\ t.client = k /\ t.cur = {}
      /\ \/ t.pc = "loop" /\ t.obj = sessions[k] /\ t.ret = "loop" /\ sessions[k] \in Conn
         \/ t.pc = "lookupCache" /\ sessions[k] = Nil /\ t.obj = Nil /\ t.ret = "create" /\ ~t.clean
  <2>1. CASE Loop(c, sessions[k]) /\ sessions[k] # Nil
    <3>1. sessions[k] \in Conn
          BY <1>1, <1>2, <2>1 DEF Types
    <3> QED
        BY <1>1, <1>2, <2>1, <3>1, Looped
  <2>2. CASE Goto(c, "lookupCache") /\ sessions[k] = Nil
        BY <1>1, <1>2, <2>2, Moved, LabelsAre DEF PlaceOK, Early
  <2> QED
      BY <2>1, <2>2 DEF Lookup
<1>5. Types'
      BY <1>1, <1>2, <1>3, <1>4 DEF Types, Becomes
<1>6. Touches(c, t)
      BY <1>1, <1>2, <1>3, <1>4 DEF Types, Touches, Becomes, Kept, Routed, Faultless
<1>7. Allocates(c, t)
      BY <1>1, <1>2, <1>3, <1>4 DEF Types, Allocates, PlaceOK, Unborn, Early, Drops
<1>8. PlaceOK(t, heap'[t.obj].temp)
      BY <1>1, <1>2, <1>3, <1>4 DEF PlaceOK, Early, Drops, Saves, Holding, SessionAssumption
<1>9. /\ sessions'[k] # Nil => heap'[sessions'[k]].temp
      /\ cache'[k] # Nil => ~heap'[cache'[k]].temp
      BY <1>1, <1>2, <1>3 DEF IInv, Types, Kinds
<1>10. ASSUME c \notin superseded, k \notin unsettled'
       PROVE /\ StoresOK(k, t.pc \in Holding)' /\ (t.pc # "done" => HandlerOK(t, k)')
             /\ Together(s, t, k)
  <2>1. /\ StoresOK(k, FALSE) /\ SeekerOK(s, k) /\ sessions[k] = Nil /\ t.pc = "lookupCache"
        /\ UNCHANGED <<sessions[k], cache[k], docs[k], heap, Kept(k), Routed(k), Faultless>>
        BY <1>1, <1>2, <1>3, <1>4, <1>10 DEF Kept, Routed, Faultless, Types
  <2>2. StoresOK(k, t.pc \in Holding)'
        BY <2>1 DEF StoresOK, Holding
  <2>3. t.pc # "done" => HandlerOK(t, k)'
        BY <2>1 DEF HandlerOK, SeekerOK, Holding, Drops
  <2>9. Together(s, t, k)
        BY <1>1, <1>2, <1>3, <2>1 DEF Together, PlaceOK, Early
  <2> QED
      BY <2>2, <2>3, <2>9
<1> QED
    BY <1>1, <1>2, <1>3, <1>5, <1>6, <1>7, <1>8, <1>9, <1>10, Step DEF Moves

LEMMA LookupCacheStep ==
    ASSUME IInv, NEW c \in Conn, NEW k, NEW s, NEW t, k = K(c), s = th[c], t = th'[c], LookupCache(c)
    PROVE  IInv' /\ Moves(c, k, s, t)
<1>1. up /\ s.pc = "lookupCache" /\ s.pc \notin Holding /\ Types
      BY DEF LookupCache, At, IInv, Holding
<1>2. /\ s \in HandlerState /\ s.pc = "lookupCache" /\ Live(c) /\ k \in Client /\ k = s.client
      /\ PlaceOK(s, Object(s).temp)
      /\ c \in superseded => k \in unsettled
      /\ c \notin superseded /\ k \notin unsettled => StoresOK(k, FALSE) /\ SeekerOK(s, k)
      BY <1>1, AtWork, Seeking
<1>3. UNCHANGED <<sessions, cache, docs, heap, tree, up, spent, kept, superseded, unsettled>>
      BY DEF LookupCache, stores, history
<1>4. /\ Becomes(c, t) /\ t.client = k /\ t.cur = {}
      /\ \/ t.pc = "loop" /\ t.obj = cache[k] /\ t.ret = "loop" /\ cache[k] \in Conn
         \/ t.pc = "find" /\ cache[k] = Nil /\ t.obj = Nil /\ t.ret = "create" /\ ~t.clean
  <2>1. CASE Loop(c, cache[k]) /\ cache[k] # Nil
    <3>1. cache[k] \in Conn
          BY <1>1, <1>2, <2>1 DEF Types
    <3> QED
        BY <1>1, <1>2, <2>1, <3>1, Looped
  <2>2. CASE Goto(c, "find") /\ cache[k] = Nil
        BY <1>1, <1>2, <2>2, Moved, LabelsAre DEF PlaceOK, Early
  <2> QED
      BY <2>1, <2>2 DEF LookupCache
<1>5. Types'
      BY <1>1, <1>2, <1>3, <1>4 DEF Types, Becomes
<1>6. Touches(c, t)
      BY <1>1, <1>2, <1>3, <1>4 DEF Types, Touches, Becomes, Kept, Routed, Faultless
<1>7. Allocates(c, t)
      BY <1>1, <1>2, <1>3, <1>4 DEF Types, Allocates, PlaceOK, Unborn, Early, Drops
<1>8. PlaceOK(t, heap'[t.obj].temp)
      BY <1>1, <1>2, <1>3, <1>4 DEF PlaceOK, Early, Drops, Saves, Holding, SessionAssumption
<1>9. /\ sessions'[k] # Nil => heap'[sessions'[k]].temp
      /\ cache'[k] # Nil => ~heap'[cache'[k]].temp
      BY <1>1, <1>2, <1>3 DEF IInv, Types, Kinds
<1>10. ASSUME c \notin superseded, k \notin unsettled'
       PROVE /\ StoresOK(k, t.pc \in Holding)' /\ (t.pc # "done" => HandlerOK(t, k)')
             /\ Together(s, t, k)
  <2>1. /\ StoresOK(k, FALSE) /\ SeekerOK(s, k) /\ sessions[k] = Nil
        /\ UNCHANGED <<sessions[k], cache[k], docs[k], heap, Kept(k), Routed(k), Faultless>>
        BY <1>1, <1>2, <1>3, <1>10 DEF Kept, Routed, Faultless, Types, SeekerOK
  <2>2. StoresOK(k, t.pc \in Holding)'
        BY <2>1 DEF StoresOK
  <2>3. ASSUME t.pc # "done" PROVE HandlerOK(t, k)'
    <3>1. CASE t.pc = "find"
      <4>1. SeekerOK(t, k)'
            BY <1>4, <2>1, <3>1 DEF SeekerOK, Drops
      <4> QED
          BY <3>1, <4>1 DEF HandlerOK, Holding
    <3>2. CASE t.pc = "loop"
      <4>1. t.obj = cache[k] /\ cache[k] # Nil /\ t.ret = "loop" /\ t.cur = {} /\ Object(t)' = heap[cache[k]]
            BY <1>4, <2>1, <3>2 DEF Object, SessionAssumption
      <4>2. ~Object(t)'.temp
            BY <1>2, <4>1 DEF IInv, Kinds
      <4>3. AskedOK(t, k)'
            BY <2>1, <3>2, <4>1 DEF AskedOK
      <4>4. LastingOK(t, k)'
            BY <2>1, <3>2, <4>1 DEF LastingOK, StoresOK
      <4> QED
          BY <3>2, <4>2, <4>3, <4>4 DEF HandlerOK, Holding
    <3> QED
        BY <1>4, <3>1, <3>2
  <2>9. Together(s, t, k)
        BY <1>1, <1>2, <1>3, <2>1 DEF Together, PlaceOK, Early
  <2> QED
      BY <2>2, <2>3, <2>9
<1> QED
    BY <1>1, <1>2, <1>3, <1>5, <1>6, <1>7, <1>8, <1>9, <1>10, Step DEF Moves

LEMMA FindStep ==
    ASSUME IInv, NEW c \in Conn, NEW k, NEW s, NEW t, k = K(c), s = th[c], t = th'[c], Find(c)
    PROVE  IInv' /\ Moves(c, k, s, t)
<1>1. up /\ s.pc = "find" /\ s.pc \notin Holding /\ Types
      BY DEF Find, At, IInv, Holding
<1>2. /\ s \in HandlerState /\ s.pc = "find" /\ Live(c) /\ k \in Client /\ k = s.client
      /\ PlaceOK(s, Object(s).temp)
      /\ c \in superseded => k \in unsettled
      /\ c \notin superseded /\ k \notin unsettled => StoresOK(k, FALSE) /\ SeekerOK(s, k)
      BY <1>1, AtWork, Seeking
<1>3. /\ k \notin unsettled' => unsettled' = unsettled /\ spent' = spent
      /\ unsettled' = unsettled \/ unsettled' = unsettled \cup {k}
      /\ spent' = spent \/ spent' = [spent EXCEPT !.errors = @ + 1]
      /\ UNCHANGED <<sessions, cache, docs, heap, tree, up, kept, superseded>>
      BY DEF Find, DatabaseError, stores
<1>4. /\ Becomes(c, t) /\ t.client = k /\ t.obj = Nil /\ t.cur = {} /\ t.ret = "create"
      /\ \/ /\ t.pc = "fill" /\ docs[k].stored /\ t.buf = docs[k].subs /\ ~t.clean
         \/ t.pc = "create" /\ (k \notin unsettled' => ~docs[k].stored)
  <2>0. s.obj = Nil /\ s.cur = {} /\ s.ret = "create" /\ ~s.clean
        BY <1>2 DEF PlaceOK, Early
  <2>1. CASE docs[k].stored /\ Buffers(c, docs[k].subs, "fill")
    <3>1. docs[k].subs \in SUBSET Topic
          BY <1>1, <1>2 DEF Types
    <3> QED
        BY <1>1, <1>2, <2>0, <2>1, <3>1, Buffered, LabelsAre
  <2>2. CASE Goto(c, "create") /\ (k \notin unsettled' => ~docs[k].stored)
        BY <1>1, <1>2, <2>0, <2>2, Moved, LabelsAre
  <2> QED
      BY <2>1, <2>2 DEF Find, Buffers
<1>5. Types'
  <2>1. spent' \in [errors : Nat, restarts : Nat, packets : Nat]
        BY <1>1, <1>3 DEF Types
  <2> QED
      BY <1>1, <1>2, <1>3, <1>4, <2>1 DEF Types, Becomes
<1>6. Touches(c, t)
      BY <1>1, <1>2, <1>3, <1>4 DEF Types, Touches, Becomes, Kept, Routed, Faultless
<1>7. Allocates(c, t)
      BY <1>1, <1>2, <1>3, <1>4 DEF Types, Allocates, PlaceOK, Unborn, Early, Drops
<1>8. PlaceOK(t, heap'[t.obj].temp)
      BY <1>2, <1>4 DEF PlaceOK, Early, Drops, Saves, Holding
<1>9. /\ sessions'[k] # Nil => heap'[sessions'[k]].temp
      /\ cache'[k] # Nil => ~heap'[cache'[k]].temp
      BY <1>1, <1>2, <1>3 DEF IInv, Types, Kinds
<1>10. ASSUME c \notin superseded, k \notin unsettled'
       PROVE /\ StoresOK(k, t.pc \in Holding)' /\ (t.pc # "done" => HandlerOK(t, k)')
             /\ Together(s, t, k)
  <2>1. /\ StoresOK(k, FALSE) /\ SeekerOK(s, k) /\ sessions[k] = Nil /\ cache[k] = Nil
        /\ UNCHANGED <<sessions[k], cache[k], docs[k], heap, Kept(k), Routed(k), Faultless>>
        BY <1>1, <1>2, <1>3, <1>10 DEF Kept, Routed, Faultless, Types, SeekerOK
  <2>2. StoresOK(k, t.pc \in Holding)'
        BY <2>1 DEF StoresOK
  <2>4. SeekerOK(t, k)'
        BY <1>4, <1>10, <2>1 DEF SeekerOK, StoresOK, Drops
  <2>3. t.pc # "done" => HandlerOK(t, k)'
        BY <1>4, <2>4 DEF HandlerOK, Holding
  <2>9. Together(s, t, k)
        BY <1>1, <1>2, <1>3, <2>1 DEF Together, PlaceOK, Early
  <2> QED
      BY <2>2, <2>3, <2>9
<1> QED
    BY <1>1, <1>2, <1>3, <1>5, <1>6, <1>7, <1>8, <1>9, <1>10, Step DEF Moves

LEMMA FillStep ==
    ASSUME IInv, NEW c \in Conn, NEW k, NEW s, NEW t, k = K(c), s = th[c], t = th'[c], Fill(c)
    PROVE  IInv' /\ Moves(c, k, s, t)
<1>1. up /\ s.pc = "fill" /\ s.pc \notin Holding /\ Types
      BY DEF Fill, At, IInv, Holding
<1>2. /\ s \in HandlerState /\ s.pc = "fill" /\ Live(c) /\ k \in Client /\ k = s.client
      /\ PlaceOK(s, Object(s).temp)
      /\ c \in superseded => k \in unsettled
      /\ c \notin superseded /\ k \notin unsettled => StoresOK(k, FALSE) /\ SeekerOK(s, k)
      BY <1>1, AtWork, Seeking
<1>3. /\ heap' = [heap EXCEPT ![c] = [temp |-> FALSE, subs |-> s.buf]]
      /\ cache' = [cache EXCEPT ![k] = c]
      /\ UNCHANGED <<sessions, docs, tree, up, spent, kept, superseded, unsettled>>
      BY DEF Fill, history
<1>4. /\ Becomes(c, t) /\ t.pc = "loop" /\ t.client = k /\ t.obj = c /\ t.cur = {} /\ t.ret = "loop"
      /\ s.buf \in SUBSET Topic /\ Unborn(c) /\ c # Nil
  <2>1. s.buf \in SUBSET Topic
        BY <1>2 DEF HandlerState
  <2>2. Unborn(c)
        BY <1>2 DEF Unborn, PlaceOK, Early
  <2> QED
      BY <1>1, <1>2, <2>1, <2>2, Looped DEF Fill, SessionAssumption
<1>5. Types'
  <2>1. heap' \in [Conn -> Session]
        BY <1>1, <1>3, <1>4 DEF Types, Session
  <2> QED
      BY <1>1, <1>2, <1>3, <1>4, <2>1 DEF Types, Becomes
<1>6. Touches(c, t)
      BY <1>1, <1>2, <1>3, <1>4 DEF Types, Touches, Becomes, Kept, Routed, Faultless
<1>7. Allocates(c, t)
  <2>1. sessions'[k] = sessions[k] /\ cache'[k] \in {cache[k], c} /\ t.obj = c
        BY <1>1, <1>2, <1>3, <1>4 DEF Types
  <2>2. \A o \in Conn : heap'[o] = heap[o] \/ o = c
        BY <1>1, <1>3 DEF Types
  <2> QED
      BY <1>4, <2>1, <2>2 DEF Allocates
<1>8. PlaceOK(t, heap'[t.obj].temp)
      BY <1>1, <1>2, <1>3, <1>4 DEF PlaceOK, Early, Drops, Saves, Holding
<1>9. /\ sessions'[k] # Nil => heap'[sessions'[k]].temp
      /\ cache'[k] # Nil => ~heap'[cache'[k]].temp
  <2>1. sessions[k] # c
        BY <1>2, <1>4 DEF IInv, Fresh, Refers, Unborn
  <2>2. heap'[c].temp = FALSE /\ cache'[k] = c /\ \A o \in Conn \ {c} : heap'[o] = heap[o]
        BY <1>1, <1>2, <1>3 DEF Types
  <2> QED
      BY <1>1, <1>2, <1>3, <2>1, <2>2 DEF IInv, Types, Kinds
<1>10. ASSUME c \notin superseded, k \notin unsettled'
       PROVE /\ StoresOK(k, t.pc \in Holding)' /\ (t.pc # "done" => HandlerOK(t, k)')
             /\ Together(s, t, k)
  <2>1. /\ StoresOK(k, FALSE) /\ sessions[k] = Nil /\ docs[k].stored /\ s.buf = docs[k].subs
        /\ UNCHANGED <<sessions[k], docs[k], Kept(k), Routed(k), Faultless>>
        /\ cache'[k] = c /\ heap'[c] = [temp |-> FALSE, subs |-> s.buf]
        BY <1>1, <1>2, <1>3, <1>10 DEF Kept, Routed, Faultless, Types, SeekerOK
  <2>5. heap'[c].subs = docs[k].subs /\ ~heap'[c].temp /\ Object(t)' = heap'[c]
        BY <1>4, <2>1 DEF Object
  <2>2. StoresOK(k, t.pc \in Holding)'
        BY <1>4, <2>1, <2>5 DEF StoresOK, Holding
  <2>4. AskedOK(t, k)' /\ LastingOK(t, k)'
        BY <1>4, <2>1, <2>5 DEF AskedOK, LastingOK, StoresOK
  <2>3. t.pc # "done" => HandlerOK(t, k)'
        BY <1>4, <2>4, <2>5 DEF HandlerOK, Holding
  <2>9. Together(s, t, k)
        BY <1>1, <1>2, <1>3, <2>1 DEF Together, PlaceOK, Early
  <2> QED
      BY <2>2, <2>3, <2>9
<1> QED
    BY <1>1, <1>2, <1>3, <1>5, <1>6, <1>7, <1>8, <1>9, <1>10, Step DEF Moves

LEMMA CreateStep ==
    ASSUME IInv, NEW c \in Conn, NEW k, NEW s, NEW t, k = K(c), s = th[c], t = th'[c], Create(c)
    PROVE  IInv' /\ Moves(c, k, s, t)
<1>1. up /\ s.pc = "create" /\ s.pc \notin Holding /\ Types
      BY DEF Create, At, IInv, Holding
<1>2. /\ s \in HandlerState /\ s.pc = "create" /\ Live(c) /\ k \in Client /\ k = s.client
      /\ PlaceOK(s, Object(s).temp)
      /\ c \in superseded => k \in unsettled
      /\ c \notin superseded /\ k \notin unsettled => StoresOK(k, FALSE) /\ SeekerOK(s, k)
      BY <1>1, AtWork, Seeking
<1>3. /\ heap' = [heap EXCEPT ![c] = [temp |-> s.clean, subs |-> {}]]
      /\ UNCHANGED <<sessions, cache, docs, tree, up, spent, kept, superseded, unsettled>>
      BY DEF Create, history
<1>4. /\ Becomes(c, t) /\ t.pc = "save" /\ t.client = k /\ t.obj = c /\ t.cur = {} /\ t.ret = "created"
      /\ s.clean \in BOOLEAN /\ Unborn(c) /\ c # Nil
  <2>1. s.clean \in BOOLEAN
        BY <1>2 DEF HandlerState
  <2>2. Unborn(c) /\ s.cur = {}
        BY <1>2 DEF Unborn, PlaceOK, Early
  <2>3. Makes(c, c)
        BY DEF Create, Makes
  <2> QED
      BY <1>1, <1>2, <2>1, <2>2, <2>3, Made DEF SessionAssumption
<1>5. Types'
  <2>1. heap' \in [Conn -> Session]
        BY <1>1, <1>3, <1>4 DEF Types, Session
  <2> QED
      BY <1>1, <1>2, <1>3, <1>4, <2>1 DEF Types, Becomes
<1>6. Touches(c, t)
      BY <1>1, <1>2, <1>3, <1>4 DEF Types, Touches, Becomes, Kept, Routed, Faultless
<1>7. Allocates(c, t)
  <2>1. sessions'[k] = sessions[k] /\ cache'[k] \in {cache[k], c} /\ t.obj = c
        BY <1>1, <1>2, <1>3, <1>4 DEF Types
  <2>2. \A o \in Conn : heap'[o] = heap[o] \/ o = c
        BY <1>1, <1>3 DEF Types
  <2> QED
      BY <1>4, <2>1, <2>2 DEF Allocates
<1>8. PlaceOK(t, heap'[t.obj].temp)
      BY <1>1, <1>2, <1>3, <1>4 DEF PlaceOK, Early, Drops, Saves, Holding
<1>9. /\ sessions'[k] # Nil => heap'[sessions'[k]].temp
      /\ cache'[k] # Nil => ~heap'[cache'[k]].temp
  <2>1. sessions[k] # c /\ cache[k] # c
        BY <1>2, <1>4 DEF IInv, Fresh, Refers, Unborn
  <2>2. \A o \in Conn \ {c} : heap'[o] = heap[o]
        BY <1>1, <1>2, <1>3 DEF Types
  <2> QED
      BY <1>1, <1>2, <1>3, <2>1, <2>2 DEF IInv, Types, Kinds
<1>10. ASSUME c \notin superseded, k \notin unsettled'
       PROVE /\ StoresOK(k, t.pc \in Holding)' /\ (t.pc # "done" => HandlerOK(t, k)')
             /\ Together(s, t, k)
  <2>1. /\ StoresOK(k, FALSE) /\ sessions[k] = Nil /\ cache[k] = Nil /\ Kept(k) = {}
        /\ Faultless => ~docs[k].stored
        /\ ~docs[k].stored => docs[k].subs = {}
        /\ UNCHANGED <<sessions[k], cache[k], docs[k], Kept(k), Routed(k), Faultless>>
        /\ heap'[c] = [temp |-> s.clean, subs |-> {}]
        BY <1>1, <1>2, <1>3, <1>10 DEF Kept, Routed, Faultless, Types, SeekerOK
  <2>5. heap'[c].subs = {} /\ Object(t)' = heap'[c]
        BY <1>4, <2>1 DEF Object
  <2>2. StoresOK(k, t.pc \in Holding)'
        BY <1>4, <2>1 DEF StoresOK
  <2>4. AskedOK(t, k)' /\ LastingOK(t, k)' /\ TemporaryOK(t, k)'
        BY <1>4, <2>1, <2>5 DEF AskedOK, LastingOK, TemporaryOK
  <2>3. t.pc # "done" => HandlerOK(t, k)'
        BY <1>4, <2>4 DEF HandlerOK, Holding
  <2>9. Together(s, t, k)
        BY <1>1, <1>2, <1>3, <2>1 DEF Together, PlaceOK, Early
  <2> QED
      BY <2>2, <2>3, <2>9
<1> QED
    BY <1>1, <1>2, <1>3, <1>5, <1>6, <1>7, <1>8, <1>9, <1>10, Step DEF Moves

LEMMA SaveStep ==
    ASSUME IInv, NEW c \in Conn, NEW k, NEW s, NEW t, k = K(c), s = th[c], t = th'[c], Save(c)
    PROVE  IInv' /\ Moves(c, k, s, t)
<1>1. up /\ s.pc = "save" /\ s.pc \in Holding /\ Types
      BY DEF Save, At, IInv, Holding
<1>2. /\ s \in HandlerState /\ s.pc = "save" /\ Live(c) /\ k \in Client /\ k = s.client
      /\ PlaceOK(s, Object(s).temp)
      /\ s.obj \in Conn /\ s.obj # Nil /\ Object(s) \in Session
      /\ c \in superseded => k \in unsettled
      /\ c \notin superseded /\ k \notin unsettled =>
            /\ StoresOK(k, TRUE) /\ AskedOK(s, k)
            /\ IF Object(s).temp THEN TemporaryOK(s, k) ELSE LastingOK(s, k)
      BY <1>1, AtWork, Working
<1>3. /\ \/ Object(s).temp /\ sessions' = [sessions EXCEPT ![k] = s.obj] /\ cache' = cache
         \/ ~Object(s).temp /\ cache' = [cache EXCEPT ![k] = Nil] /\ sessions' = sessions
      /\ UNCHANGED <<docs, heap, tree, up, spent, kept, superseded, unsettled>>
      BY DEF Save, history, Mine, Object
<1>4. /\ Becomes(c, t)
      /\ t.pc = IF Object(s).temp THEN "saved" ELSE "encode"
      /\ t.client = k /\ t.clean = s.clean /\ t.obj = s.obj /\ t.request = s.request
      /\ t.todo = s.todo /\ t.cur = s.cur /\ t.buf = s.buf /\ t.ret = s.ret
  <2>1. CASE Goto(c, "saved") /\ Object(s).temp
        BY <1>1, <1>2, <2>1, Moved, LabelsAre
  <2>2. CASE Goto(c, "encode") /\ ~Object(s).temp
        BY <1>1, <1>2, <2>2, Moved, LabelsAre
  <2> QED
      BY <2>1, <2>2 DEF Save, Mine, Object
<1>5. Types'
      BY <1>1, <1>2, <1>3, <1>4 DEF Types, Becomes
<1>6. Touches(c, t)
      BY <1>1, <1>2, <1>3, <1>4 DEF Types, Touches, Becomes, Kept, Routed, Faultless
<1>7. Allocates(c, t)
      BY <1>1, <1>2, <1>3, <1>4 DEF Types, Allocates, PlaceOK, Unborn, Early, Drops
<1>8. PlaceOK(t, heap'[t.obj].temp)
      BY <1>2, <1>3, <1>4 DEF PlaceOK, Object, Early, Drops, Saves, Holding
<1>9. /\ sessions'[k] # Nil => heap'[sessions'[k]].temp
      /\ cache'[k] # Nil => ~heap'[cache'[k]].temp
      BY <1>1, <1>2, <1>3 DEF IInv, Types, Kinds, Object
<1>10. ASSUME c \notin superseded, k \notin unsettled'
       PROVE /\ StoresOK(k, t.pc \in Holding)' /\ (t.pc # "done" => HandlerOK(t, k)')
             /\ Together(s, t, k)
  <2>1. /\ StoresOK(k, TRUE) /\ AskedOK(s, k)
        /\ IF Object(s).temp THEN TemporaryOK(s, k) ELSE LastingOK(s, k)
        /\ UNCHANGED <<docs[k], heap, Kept(k), Routed(k), Faultless>> /\ Object(t)' = Object(s)
        BY <1>1, <1>2, <1>3, <1>4, <1>10 DEF Kept, Routed, Faultless, Types, Object
  <2>4. AskedOK(t, k)'
        BY <1>2, <1>4, <2>1 DEF AskedOK
  <2>5. ASSUME Object(s).temp
        PROVE  StoresOK(k, t.pc \in Holding)' /\ HandlerOK(t, k)'
    <3>1. sessions'[k] = s.obj /\ cache'[k] = cache[k] /\ t.pc = "saved"
          BY <1>1, <1>2, <1>3, <1>4, <2>5 DEF Types
    <3>2. StoresOK(k, t.pc \in Holding)'
          BY <2>1, <2>5, <3>1 DEF StoresOK, TemporaryOK, Holding
    <3>3. TemporaryOK(t, k)'
          BY <1>2, <1>4, <2>1, <2>5, <3>1 DEF TemporaryOK
    <3> QED
        BY <2>1, <2>4, <2>5, <3>1, <3>2, <3>3 DEF HandlerOK, Holding
  <2>6. ASSUME ~Object(s).temp
        PROVE  StoresOK(k, t.pc \in Holding)' /\ HandlerOK(t, k)'
    <3>1. sessions'[k] = sessions[k] /\ cache'[k] = Nil /\ t.pc = "encode"
          BY <1>1, <1>2, <1>3, <1>4, <2>6 DEF Types
    <3>2. StoresOK(k, t.pc \in Holding)'
          BY <2>1, <2>6, <3>1 DEF StoresOK, LastingOK, Holding
    <3>3. LastingOK(t, k)'
          BY <1>2, <1>4, <2>1, <2>6, <3>1 DEF LastingOK
    <3> QED
        BY <2>1, <2>4, <2>6, <3>1, <3>2, <3>3 DEF HandlerOK, Holding
  <2>10. Faultless' => Routed(k)' \ (docs'[k].subs \cup Object(t)'.subs \cup t.cur)
                           \subseteq Routed(k) \ (docs[k].subs \cup Object(s).subs \cup s.cur)
         BY <1>1, <1>2, <1>4, <2>1
  <2>11. Faultless' => \/ s.pc = "delete"
                       \/ docs'[k].subs \ Routed(k)' \subseteq docs[k].subs \ Routed(k)
         BY <1>1, <1>2, <1>4, <2>1
  <2>9. Together(s, t, k)
        BY <1>2, <1>4, <2>1, <2>10, <2>11, Remains
  <2> QED
      BY <2>5, <2>6, <2>9
<1> QED
    BY <1>1, <1>2, <1>3, <1>5, <1>6, <1>7, <1>8, <1>9, <1>10, Step DEF Moves

LEMMA EncodeStep ==
    ASSUME IInv, NEW c \in Conn, NEW k, NEW s, NEW t, k = K(c), s = th[c], t = th'[c], Encode(c)
    PROVE  IInv' /\ Moves(c, k, s, t)
<1>1. up /\ s.pc = "encode" /\ s.pc \in Holding /\ Types
      BY DEF Encode, At, IInv, Holding
<1>2. /\ s \in HandlerState /\ s.pc = "encode" /\ Live(c) /\ k \in Client /\ k = s.client
      /\ PlaceOK(s, Object(s).temp)
      /\ s.obj \in Conn /\ s.obj # Nil /\ Object(s) \in Session
      /\ c \in superseded => k \in unsettled
      /\ c \notin superseded /\ k \notin unsettled =>
            /\ StoresOK(k, TRUE) /\ AskedOK(s, k)
            /\ IF Object(s).temp THEN TemporaryOK(s, k) ELSE LastingOK(s, k)
      BY <1>1, AtWork, Working
<1>3. UNCHANGED <<sessions, cache, docs, heap, tree, up, spent, kept, superseded, unsettled>>
      BY DEF Encode, stores, history
<1>4. /\ Becomes(c, t) /\ t.pc = "write" /\ t.client = k /\ t.clean = s.clean /\ t.obj = s.obj
      /\ t.request = s.request /\ t.todo = s.todo /\ t.cur = s.cur
      /\ t.buf = Object(s).subs /\ t.ret = s.ret
  <2>1. Buffers(c, Object(s).subs, "write") /\ Object(s).subs \in SUBSET Topic
        BY <1>2 DEF Encode, Buffers, Mine, Object, Session
  <2> QED
      BY <1>1, <1>2, <2>1, Buffered, LabelsAre
<1>5. Types'
      BY <1>1, <1>2, <1>3, <1>4 DEF Types, Becomes
<1>6. Touches(c, t)
      BY <1>1, <1>2, <1>3, <1>4 DEF Types, Touches, Becomes, Kept, Routed, Faultless
<1>7. Allocates(c, t)
      BY <1>1, <1>2, <1>3, <1>4 DEF Types, Allocates, PlaceOK, Unborn, Early, Drops
<1>8. PlaceOK(t, heap'[t.obj].temp)
      BY <1>2, <1>3, <1>4 DEF PlaceOK, Object, Early, Drops, Saves, Holding
<1>9. /\ sessions'[k] # Nil => heap'[sessions'[k]].temp
      /\ cache'[k] # Nil => ~heap'[cache'[k]].temp
      BY <1>1, <1>2, <1>3 DEF IInv, Types, Kinds
<1>10. ASSUME c \notin superseded, k \notin unsettled'
       PROVE /\ StoresOK(k, t.pc \in Holding)' /\ (t.pc # "done" => HandlerOK(t, k)')
             /\ Together(s, t, k)
  <2>1. /\ StoresOK(k, TRUE) /\ AskedOK(s, k) /\ LastingOK(s, k) /\ ~Object(s).temp
        /\ UNCHANGED <<sessions[k], cache[k], docs[k], heap, Kept(k), Routed(k), Faultless>>
        /\ Object(t)' = Object(s)
        BY <1>1, <1>2, <1>3, <1>4, <1>10 DEF Kept, Routed, Faultless, Types, Object, PlaceOK, Saves
  <2>2. StoresOK(k, t.pc \in Holding)'
        BY <1>4, <2>1 DEF StoresOK, Holding
  <2>4. AskedOK(t, k)' /\ LastingOK(t, k)'
        BY <1>1, <1>4, <2>1 DEF AskedOK, LastingOK
  <2>3. t.pc # "done" => HandlerOK(t, k)'
        BY <1>4, <2>1, <2>4 DEF HandlerOK, Holding
  <2>10. Faultless' => Routed(k)' \ (docs'[k].subs \cup Object(t)'.subs \cup t.cur)
                           \subseteq Routed(k) \ (docs[k].subs \cup Object(s).subs \cup s.cur)
         BY <1>1, <1>2, <1>4, <2>1
  <2>11. Faultless' => \/ s.pc = "delete"
                       \/ docs'[k].subs \ Routed(k)' \subseteq docs[k].subs \ Routed(k)
         BY <1>1, <1>2, <1>4, <2>1
  <2>9. Together(s, t, k)
        BY <1>2, <1>4, <2>1, <2>10, <2>11, Remains
  <2> QED
      BY <2>2, <2>3, <2>9
<1> QED
    BY <1>1, <1>2, <1>3, <1>5, <1>6, <1>7, <1>8, <1>9, <1>10, Step DEF Moves

LEMMA ReplaceOneStep ==
    ASSUME IInv, NEW c \in Conn, NEW k, NEW s, NEW t, k = K(c), s = th[c], t = th'[c], ReplaceOne(c)
    PROVE  IInv' /\ Moves(c, k, s, t)
<1>1. up /\ s.pc = "write" /\ s.pc \in Holding /\ Types
      BY DEF ReplaceOne, At, IInv, Holding
<1>2. /\ s \in HandlerState /\ s.pc = "write" /\ Live(c) /\ k \in Client /\ k = s.client
      /\ PlaceOK(s, Object(s).temp)
      /\ s.obj \in Conn /\ s.obj # Nil /\ Object(s) \in Session
      /\ c \in superseded => k \in unsettled
      /\ c \notin superseded /\ k \notin unsettled =>
            /\ StoresOK(k, TRUE) /\ AskedOK(s, k)
            /\ IF Object(s).temp THEN TemporaryOK(s, k) ELSE LastingOK(s, k)
      BY <1>1, AtWork, Working
<1>3. /\ docs' = [docs EXCEPT ![k] = [stored |-> TRUE, subs |-> s.buf]]
      /\ UNCHANGED <<sessions, cache, heap, tree, up, spent, kept, superseded, unsettled>>
      BY DEF ReplaceOne, history
<1>4. /\ Becomes(c, t) /\ t.pc = "recache" /\ t.client = k /\ t.clean = s.clean /\ t.obj = s.obj
      /\ t.request = s.request /\ t.todo = s.todo /\ t.cur = s.cur
      /\ t.buf = {} /\ t.ret = s.ret /\ s.buf \in SUBSET Topic
  <2>1. Buffers(c, {}, "recache") /\ s.buf \in SUBSET Topic
        BY <1>1, <1>2 DEF ReplaceOne, Buffers, HandlerState, Types
  <2> QED
      BY <1>1, <1>2, <2>1, Buffered, LabelsAre
<1>5. Types'
  <2>1. /\ docs' \in [Client -> [stored : BOOLEAN, subs : SUBSET Topic]]
        /\ \A j \in Client : ~docs'[j].stored => docs'[j].subs = {}
    <3>1. CASE docs' = docs
          BY <1>1, <3>1 DEF Types
    <3>2. CASE docs' = [docs EXCEPT ![k] = [stored |-> TRUE, subs |-> s.buf]]
          BY <1>1, <1>2, <1>4, <3>2 DEF Types
    <3> QED
        BY <1>3, <3>1, <3>2
  <2>2. spent' \in [errors : Nat, restarts : Nat, packets : Nat]
        BY <1>1, <1>3 DEF Types
  <2> QED
      BY <1>1, <1>3, <1>4, <2>1, <2>2 DEF Types, Becomes
<1>6. Touches(c, t)
      BY <1>1, <1>2, <1>3, <1>4 DEF Types, Touches, Becomes, Kept, Routed, Faultless
<1>7. Allocates(c, t)
      BY <1>1, <1>2, <1>3, <1>4 DEF Types, Allocates, PlaceOK, Unborn, Early, Drops
<1>8. PlaceOK(t, heap'[t.obj].temp)
      BY <1>2, <1>3, <1>4 DEF PlaceOK, Object, Early, Drops, Saves, Holding
<1>9. /\ sessions'[k] # Nil => heap'[sessions'[k]].temp
      /\ cache'[k] # Nil => ~heap'[cache'[k]].temp
      BY <1>1, <1>2, <1>3 DEF IInv, Types, Kinds
<1>10. ASSUME c \notin superseded, k \notin unsettled'
       PROVE /\ StoresOK(k, t.pc \in Holding)' /\ (t.pc # "done" => HandlerOK(t, k)')
             /\ Together(s, t, k)
  <2>1. /\ StoresOK(k, TRUE) /\ AskedOK(s, k) /\ LastingOK(s, k) /\ ~Object(s).temp
        /\ UNCHANGED <<sessions[k], cache[k], heap, Kept(k), Routed(k), Faultless>>
        /\ Object(t)' = Object(s) /\ docs'[k] = [stored |-> TRUE, subs |-> s.buf]
        BY <1>1, <1>2, <1>3, <1>4, <1>10 DEF Kept, Routed, Faultless, Types, Object, PlaceOK, Saves
  <2>5. docs'[k] = [stored |-> TRUE, subs |-> Object(s).subs]
        BY <1>1, <2>1 DEF LastingOK
  <2>6. docs'[k].stored /\ docs'[k].subs = Object(s).subs
        BY <2>5
  <2>2. StoresOK(k, t.pc \in Holding)'
        BY <1>2, <1>4, <2>1, <2>6 DEF StoresOK, LastingOK, Holding
  <2>4. AskedOK(t, k)' /\ LastingOK(t, k)'
        BY <1>1, <1>4, <2>1, <2>5, <2>6 DEF AskedOK, LastingOK
  <2>3. t.pc # "done" => HandlerOK(t, k)'
        BY <1>4, <2>1, <2>4 DEF HandlerOK, Holding
  <2>10. Faultless' => Routed(k)' \ (docs'[k].subs \cup Object(t)'.subs \cup t.cur)
                           \subseteq Routed(k) \ (docs[k].subs \cup Object(s).subs \cup s.cur)
         BY <1>1, <1>2, <1>4, <2>1, <2>6 DEF LastingOK
  <2>11. Faultless' => \/ s.pc = "delete"
                       \/ docs'[k].subs \ Routed(k)' \subseteq docs[k].subs \ Routed(k)
         BY <1>1, <1>2, <1>4, <2>1, <2>6 DEF LastingOK
  <2>9. Together(s, t, k)
        BY <1>2, <1>4, <2>1, <2>10, <2>11, Remains
  <2> QED
      BY <2>2, <2>3, <2>9
<1> QED
    BY <1>1, <1>2, <1>3, <1>5, <1>6, <1>7, <1>8, <1>9, <1>10, Step DEF Moves

LEMMA ReplaceFailsStep ==
    ASSUME IInv, NEW c \in Conn, NEW k, NEW s, NEW t, k = K(c), s = th[c], t = th'[c], ReplaceFails(c)
    PROVE  IInv' /\ Moves(c, k, s, t)
<1>1. up /\ s.pc = "write" /\ s.pc \in Holding /\ Types
      BY DEF ReplaceFails, At, IInv, Holding
<1>2. /\ s \in HandlerState /\ s.pc = "write" /\ Live(c) /\ k \in Client /\ k = s.client
      /\ PlaceOK(s, Object(s).temp)
      /\ s.obj \in Conn /\ s.obj # Nil /\ Object(s) \in Session
      /\ c \in superseded => k \in unsettled
      /\ c \notin superseded /\ k \notin unsettled =>
            /\ StoresOK(k, TRUE) /\ AskedOK(s, k)
            /\ IF Object(s).temp THEN TemporaryOK(s, k) ELSE LastingOK(s, k)
      BY <1>1, AtWork, Working
<1>3. /\ docs' = [docs EXCEPT ![k] = [stored |-> TRUE, subs |-> s.buf]] \/ docs' = docs
      /\ spent' = [spent EXCEPT !.errors = @ + 1]
      /\ UNCHANGED <<sessions, cache, heap, tree, up, kept, superseded, unsettled>>
      BY DEF ReplaceFails, DatabaseError, history
<1>4. /\ Becomes(c, t) /\ t.pc = "unsaved" /\ t.client = k /\ t.clean = s.clean /\ t.obj = s.obj
      /\ t.request = s.request /\ t.todo = s.todo /\ t.cur = s.cur
      /\ t.buf = {} /\ t.ret = s.ret /\ s.buf \in SUBSET Topic
  <2>1. Buffers(c, {}, "unsaved") /\ s.buf \in SUBSET Topic
        BY <1>1, <1>2 DEF ReplaceFails, Buffers, HandlerState, Types
  <2> QED
      BY <1>1, <1>2, <2>1, Buffered, LabelsAre
<1>5. Types'
  <2>1. /\ docs' \in [Client -> [stored : BOOLEAN, subs : SUBSET Topic]]
        /\ \A j \in Client : ~docs'[j].stored => docs'[j].subs = {}
    <3>1. CASE docs' = docs
          BY <1>1, <3>1 DEF Types
    <3>2. CASE docs' = [docs EXCEPT ![k] = [stored |-> TRUE, subs |-> s.buf]]
          BY <1>1, <1>2, <1>4, <3>2 DEF Types
    <3> QED
        BY <1>3, <3>1, <3>2
  <2>2. spent' \in [errors : Nat, restarts : Nat, packets : Nat]
        BY <1>1, <1>3 DEF Types
  <2> QED
      BY <1>1, <1>3, <1>4, <2>1, <2>2 DEF Types, Becomes
<1>6. Touches(c, t)
      BY <1>1, <1>2, <1>3, <1>4 DEF Types, Touches, Becomes, Kept, Routed, Faultless
<1>7. Allocates(c, t)
      BY <1>1, <1>2, <1>3, <1>4 DEF Types, Allocates, PlaceOK, Unborn, Early, Drops
<1>8. PlaceOK(t, heap'[t.obj].temp)
      BY <1>2, <1>3, <1>4 DEF PlaceOK, Object, Early, Drops, Saves, Holding
<1>9. /\ sessions'[k] # Nil => heap'[sessions'[k]].temp
      /\ cache'[k] # Nil => ~heap'[cache'[k]].temp
      BY <1>1, <1>2, <1>3 DEF IInv, Types, Kinds
<1>10. ASSUME c \notin superseded, k \notin unsettled'
       PROVE /\ StoresOK(k, t.pc \in Holding)' /\ (t.pc # "done" => HandlerOK(t, k)')
             /\ Together(s, t, k)
  <2>1. /\ StoresOK(k, TRUE) /\ AskedOK(s, k) /\ LastingOK(s, k) /\ ~Object(s).temp
        /\ UNCHANGED <<sessions[k], cache[k], heap, Kept(k), Routed(k)>>
        /\ Object(t)' = Object(s)
        /\ docs'[k] = [stored |-> TRUE, subs |-> s.buf] \/ docs'[k] = docs[k]
        BY <1>1, <1>2, <1>3, <1>4, <1>10 DEF Kept, Routed, Faultless, Types, Object, PlaceOK, Saves
  <2>6. ~Faultless'
        BY <1>1, <1>3 DEF Faultless, Types
  <2>5. docs'[k] = docs[k] \/ (docs'[k].stored /\ docs'[k].subs = Object(s).subs)
        BY <1>1, <2>1 DEF LastingOK
  <2>2. StoresOK(k, t.pc \in Holding)'
        BY <1>2, <1>4, <2>1, <2>5, <2>6 DEF StoresOK, LastingOK, Holding
  <2>4. AskedOK(t, k)' /\ LastingOK(t, k)'
        BY <1>1, <1>4, <2>1, <2>6 DEF AskedOK, LastingOK
  <2>3. t.pc # "done" => HandlerOK(t, k)'
        BY <1>4, <2>1, <2>4 DEF HandlerOK, Holding
  <2>9. Together(s, t, k)
        BY <2>6 DEF Together
  <2> QED
      BY <2>2, <2>3, <2>9
<1> QED
    BY <1>1, <1>2, <1>3, <1>5, <1>6, <1>7, <1>8, <1>9, <1>10, Step DEF Moves

LEMMA RecacheStep ==
    ASSUME IInv, NEW c \in Conn, NEW k, NEW s, NEW t, k = K(c), s = th[c], t = th'[c], Recache(c)
    PROVE  IInv' /\ Moves(c, k, s, t)
<1>1. up /\ s.pc = "recache" /\ s.pc \in Holding /\ Types
      BY DEF Recache, At, IInv, Holding
<1>2. /\ s \in HandlerState /\ s.pc = "recache" /\ Live(c) /\ k \in Client /\ k = s.client
      /\ PlaceOK(s, Object(s).temp)
      /\ s.obj \in Conn /\ s.obj # Nil /\ Object(s) \in Session
      /\ c \in superseded => k \in unsettled
      /\ c \notin superseded /\ k \notin unsettled =>
            /\ StoresOK(k, TRUE) /\ AskedOK(s, k)
            /\ IF Object(s).temp THEN TemporaryOK(s, k) ELSE LastingOK(s, k)
      BY <1>1, AtWork, Working
<1>3. /\ cache' = [cache EXCEPT ![k] = s.obj]
      /\ UNCHANGED <<sessions, docs, heap, tree, up, spent, kept, superseded, unsettled>>
      BY DEF Recache, history
<1>4. /\ Becomes(c, t) /\ t.pc = "saved"
      /\ t.client = k /\ t.clean = s.clean /\ t.obj = s.obj /\ t.request = s.request
      /\ t.todo = s.todo /\ t.cur = s.cur /\ t.buf = s.buf /\ t.ret = s.ret
      BY <1>1, <1>2, Moved, LabelsAre DEF Recache
<1>5. Types'
      BY <1>1, <1>2, <1>3, <1>4 DEF Types, Becomes
<1>6. Touches(c, t)
      BY <1>1, <1>2, <1>3, <1>4 DEF Types, Touches, Becomes, Kept, Routed, Faultless
<1>7. Allocates(c, t)
      BY <1>1, <1>2, <1>3, <1>4 DEF Types, Allocates, PlaceOK, Unborn, Early, Drops
<1>8. PlaceOK(t, heap'[t.obj].temp)
      BY <1>2, <1>3, <1>4 DEF PlaceOK, Object, Early, Drops, Saves, Holding
<1>9. /\ sessions'[k] # Nil => heap'[sessions'[k]].temp
      /\ cache'[k] # Nil => ~heap'[cache'[k]].temp
      BY <1>1, <1>2, <1>3 DEF IInv, Types, Kinds, PlaceOK, Saves, Object
<1>10. ASSUME c \notin superseded, k \notin unsettled'
       PROVE /\ StoresOK(k, t.pc \in Holding)' /\ (t.pc # "done" => HandlerOK(t, k)')
             /\ Together(s, t, k)
  <2>1. /\ StoresOK(k, TRUE) /\ AskedOK(s, k) /\ LastingOK(s, k) /\ ~Object(s).temp
        /\ UNCHANGED <<sessions[k], docs[k], heap, Kept(k), Routed(k), Faultless>>
        /\ Object(t)' = Object(s) /\ cache'[k] = s.obj
        BY <1>1, <1>2, <1>3, <1>4, <1>10 DEF Kept, Routed, Faultless, Types, Object, PlaceOK, Saves
  <2>2. StoresOK(k, t.pc \in Holding)'
        BY <1>2, <1>4, <2>1 DEF StoresOK, LastingOK, Holding, Object
  <2>4. AskedOK(t, k)' /\ LastingOK(t, k)'
        BY <1>1, <1>4, <2>1 DEF AskedOK, LastingOK
  <2>3. t.pc # "done" => HandlerOK(t, k)'
        BY <1>4, <2>1, <2>4 DEF HandlerOK, Holding
  <2>10. Faultless' => Routed(k)' \ (docs'[k].subs \cup Object(t)'.subs \cup t.cur)
                           \subseteq Routed(k) \ (docs[k].subs \cup Object(s).subs \cup s.cur)
         BY <1>1, <1>2, <1>4, <2>1
  <2>11. Faultless' => \/ s.pc = "delete"
                       \/ docs'[k].subs \ Routed(k)' \subseteq docs[k].subs \ Routed(k)
         BY <1>1, <1>2, <1>4, <2>1
  <2>9. Together(s, t, k)
        BY <1>2, <1>4, <2>1, <2>10, <2>11, Remains
  <2> QED
      BY <2>2, <2>3, <2>9
<1> QED
    BY <1>1, <1>2, <1>3, <1>5, <1>6, <1>7, <1>8, <1>9, <1>10, Step DEF Moves

LEMMA SubscribeStep ==
    ASSUME IInv, NEW c \in Conn, NEW k, NEW s, NEW t, k = K(c), s = th[c], t = th'[c], Subscribe(c)
    PROVE  IInv' /\ Moves(c, k, s, t)
<1>1. up /\ s.pc = "loop" /\ s.pc \in Holding /\ Types
      BY DEF Subscribe, Packet, At, IInv, Holding
<1>2. /\ s \in HandlerState /\ s.pc = "loop" /\ Live(c) /\ k \in Client /\ k = s.client
      /\ PlaceOK(s, Object(s).temp)
      /\ s.obj \in Conn /\ s.obj # Nil /\ Object(s) \in Session
      /\ c \notin superseded /\ k \notin unsettled =>
            /\ StoresOK(k, TRUE) /\ AskedOK(s, k)
            /\ IF Object(s).temp THEN TemporaryOK(s, k) ELSE LastingOK(s, k)
      BY <1>1, AtWork, Working
<1>3. /\ spent' = [spent EXCEPT !.packets = @ + 1]
      /\ unsettled' = IF c \in superseded THEN unsettled \cup {k} ELSE unsettled
      /\ UNCHANGED <<sessions, cache, docs, heap, tree, up, kept, superseded>>
      BY DEF Subscribe, Packet, Intrudes, stores
<1>4. /\ Becomes(c, t) /\ t.pc = "insert" /\ t.client = k /\ t.obj = s.obj
      /\ t.cur = {} /\ t.ret = "suback" /\ t.todo = t.request /\ s.cur = {} /\ s.ret = "loop"
  <2>1. PICK T \in SUBSET Topic : Begin(c, "insert", T, "suback")
        BY DEF Subscribe, Requests
  <2>2. s.cur = {} /\ s.ret = "loop"
        BY <1>1, <1>2 DEF PlaceOK
  <2> QED
      BY <1>1, <1>2, <2>1, <2>2, Begun, LabelsAre
<1>5. Types'
  <2>1. spent' \in [errors : Nat, restarts : Nat, packets : Nat] /\ unsettled' \subseteq Client
        BY <1>1, <1>2, <1>3 DEF Types
  <2> QED
      BY <1>1, <1>2, <1>3, <1>4, <2>1 DEF Types, Becomes
<1>6. Touches(c, t)
  <2>1. (Faultless' <=> Faultless) /\ unsettled \subseteq unsettled' /\ unsettled' \subseteq unsettled \cup {k}
        BY <1>1, <1>3 DEF Types, Faultless
  <2> QED
      BY <1>1, <1>2, <1>3, <1>4, <2>1 DEF Types, Touches, Becomes, Kept, Routed
<1>7. Allocates(c, t)
      BY <1>1, <1>2, <1>3, <1>4 DEF Types, Allocates, PlaceOK, Unborn, Early, Drops
<1>8. PlaceOK(t, heap'[t.obj].temp)
      BY <1>2, <1>3, <1>4 DEF PlaceOK, Object, Early, Drops, Saves, Holding
<1>9. /\ sessions'[k] # Nil => heap'[sessions'[k]].temp
      /\ cache'[k] # Nil => ~heap'[cache'[k]].temp
      BY <1>1, <1>2, <1>3 DEF IInv, Types, Kinds
<1>10. ASSUME c \notin superseded, k \notin unsettled'
       PROVE /\ StoresOK(k, t.pc \in Holding)' /\ (t.pc # "done" => HandlerOK(t, k)')
             /\ Together(s, t, k)
  <2>1. /\ StoresOK(k, TRUE) /\ AskedOK(s, k)
        /\ IF Object(s).temp THEN TemporaryOK(s, k) ELSE LastingOK(s, k)
        /\ UNCHANGED <<sessions[k], cache[k], docs[k], heap, Kept(k), Routed(k)>>
        /\ Object(t)' = Object(s)
        BY <1>1, <1>2, <1>3, <1>4, <1>10 DEF Kept, Routed, Types, Object
  <2>6. Faultless' <=> Faultless
        BY <1>1, <1>3 DEF Faultless, Types
  <2>2. StoresOK(k, t.pc \in Holding)'
        BY <1>4, <2>1, <2>6 DEF StoresOK, Holding
  <2>4. AskedOK(t, k)'
        BY <1>4, <2>1, <2>6 DEF AskedOK
  <2>5. IF Object(s).temp THEN TemporaryOK(t, k)' ELSE LastingOK(t, k)'
        BY <1>1, <1>4, <2>1, <2>6 DEF TemporaryOK, LastingOK
  <2>3. t.pc # "done" => HandlerOK(t, k)'
        BY <1>4, <2>1, <2>4, <2>5 DEF HandlerOK, Holding
  <2>10. Faultless' => Routed(k)' \ (docs'[k].subs \cup Object(t)'.subs \cup t.cur)
                           \subseteq Routed(k) \ (docs[k].subs \cup Object(s).subs \cup s.cur)
         BY <1>1, <1>2, <1>4, <2>1
  <2>11. Faultless' => \/ s.pc = "delete"
                       \/ docs'[k].subs \ Routed(k)' \subseteq docs[k].subs \ Routed(k)
         BY <1>1, <1>2, <1>4, <2>1
  <2>9. Together(s, t, k)
        BY <1>2, <1>4, <2>1, <2>10, <2>11, Remains
  <2> QED
      BY <2>2, <2>3, <2>9
<1>11. c \in superseded /\ k \notin unsettled' => t = Done /\ UNCHANGED <<stores, kept>>
      BY <1>3
<1> QED
    BY <1>1, <1>2, <1>3, <1>5, <1>6, <1>7, <1>8, <1>9, <1>10, <1>11, Step DEF Moves

LEMMA PublishStep ==
    ASSUME IInv, NEW c \in Conn, NEW k, NEW s, NEW t, k = K(c), s = th[c], t = th'[c], Publish(c)
    PROVE  IInv' /\ Moves(c, k, s, t)
<1>1. up /\ s.pc = "loop" /\ s.pc \in Holding /\ Types
      BY DEF Publish, Packet, At, IInv, Holding
<1>2. /\ s \in HandlerState /\ s.pc = "loop" /\ Live(c) /\ k \in Client /\ k = s.client
      /\ PlaceOK(s, Object(s).temp)
      /\ s.obj \in Conn /\ s.obj # Nil /\ Object(s) \in Session
      /\ c \notin superseded /\ k \notin unsettled =>
            /\ StoresOK(k, TRUE) /\ AskedOK(s, k)
            /\ IF Object(s).temp THEN TemporaryOK(s, k) ELSE LastingOK(s, k)
      BY <1>1, AtWork, Working
<1>3. /\ spent' = [spent EXCEPT !.packets = @ + 1]
      /\ unsettled' = IF c \in superseded THEN unsettled \cup {k} ELSE unsettled
      /\ UNCHANGED <<sessions, cache, docs, heap, tree, up, kept, superseded>>
      BY DEF Publish, Packet, Intrudes, stores
<1>4. /\ Becomes(c, t) /\ t.pc = "save" /\ t.client = k /\ t.obj = s.obj
      /\ t.cur = {} /\ t.ret = "loop" /\ t.todo = t.request /\ s.cur = {} /\ s.ret = "loop"
  <2>1. Begin(c, "save", {}, "loop")
        BY DEF Publish
  <2>2. s.cur = {} /\ s.ret = "loop"
        BY <1>1, <1>2 DEF PlaceOK
  <2> QED
      BY <1>1, <1>2, <2>1, <2>2, Begun, LabelsAre
<1>5. Types'
  <2>1. spent' \in [errors : Nat, restarts : Nat, packets : Nat] /\ unsettled' \subseteq Client
        BY <1>1, <1>2, <1>3 DEF Types
  <2> QED
      BY <1>1, <1>2, <1>3, <1>4, <2>1 DEF Types, Becomes
<1>6. Touches(c, t)
  <2>1. (Faultless' <=> Faultless) /\ unsettled \subseteq unsettled' /\ unsettled' \subseteq unsettled \cup {k}
        BY <1>1, <1>3 DEF Types, Faultless
  <2> QED
      BY <1>1, <1>2, <1>3, <1>4, <2>1 DEF Types, Touches, Becomes, Kept, Routed
<1>7. Allocates(c, t)
      BY <1>1, <1>2, <1>3, <1>4 DEF Types, Allocates, PlaceOK, Unborn, Early, Drops
<1>8. PlaceOK(t, heap'[t.obj].temp)
      BY <1>2, <1>3, <1>4 DEF PlaceOK, Object, Early, Drops, Saves, Holding
<1>9. /\ sessions'[k] # Nil => heap'[sessions'[k]].temp
      /\ cache'[k] # Nil => ~heap'[cache'[k]].temp
      BY <1>1, <1>2, <1>3 DEF IInv, Types, Kinds
<1>10. ASSUME c \notin superseded, k \notin unsettled'
       PROVE /\ StoresOK(k, t.pc \in Holding)' /\ (t.pc # "done" => HandlerOK(t, k)')
             /\ Together(s, t, k)
  <2>1. /\ StoresOK(k, TRUE) /\ AskedOK(s, k)
        /\ IF Object(s).temp THEN TemporaryOK(s, k) ELSE LastingOK(s, k)
        /\ UNCHANGED <<sessions[k], cache[k], docs[k], heap, Kept(k), Routed(k)>>
        /\ Object(t)' = Object(s)
        BY <1>1, <1>2, <1>3, <1>4, <1>10 DEF Kept, Routed, Types, Object
  <2>6. Faultless' <=> Faultless
        BY <1>1, <1>3 DEF Faultless, Types
  <2>2. StoresOK(k, t.pc \in Holding)'
        BY <1>4, <2>1, <2>6 DEF StoresOK, Holding
  <2>4. AskedOK(t, k)'
        BY <1>4, <2>1, <2>6 DEF AskedOK
  <2>5. IF Object(s).temp THEN TemporaryOK(t, k)' ELSE LastingOK(t, k)'
        BY <1>1, <1>4, <2>1, <2>6 DEF TemporaryOK, LastingOK
  <2>3. t.pc # "done" => HandlerOK(t, k)'
        BY <1>4, <2>1, <2>4, <2>5 DEF HandlerOK, Holding
  <2>10. Faultless' => Routed(k)' \ (docs'[k].subs \cup Object(t)'.subs \cup t.cur)
                           \subseteq Routed(k) \ (docs[k].subs \cup Object(s).subs \cup s.cur)
         BY <1>1, <1>2, <1>4, <2>1
  <2>11. Faultless' => \/ s.pc = "delete"
                       \/ docs'[k].subs \ Routed(k)' \subseteq docs[k].subs \ Routed(k)
         BY <1>1, <1>2, <1>4, <2>1
  <2>9. Together(s, t, k)
        BY <1>2, <1>4, <2>1, <2>10, <2>11, Remains
  <2> QED
      BY <2>2, <2>3, <2>9
<1>11. c \in superseded /\ k \notin unsettled' => t = Done /\ UNCHANGED <<stores, kept>>
      BY <1>3
<1> QED
    BY <1>1, <1>2, <1>3, <1>5, <1>6, <1>7, <1>8, <1>9, <1>10, <1>11, Step DEF Moves

LEMMA InsertStep ==
    ASSUME IInv, NEW c \in Conn, NEW k, NEW s, NEW t, k = K(c), s = th[c], t = th'[c], Insert(c)
    PROVE  IInv' /\ Moves(c, k, s, t)
<1>1. up /\ s.pc = "insert" /\ s.pc \in Holding /\ Types
      BY DEF Insert, At, IInv, Holding
<1>2. /\ s \in HandlerState /\ s.pc = "insert" /\ Live(c) /\ k \in Client /\ k = s.client
      /\ PlaceOK(s, Object(s).temp)
      /\ s.obj \in Conn /\ s.obj # Nil /\ Object(s) \in Session
      /\ c \in superseded => k \in unsettled
      /\ c \notin superseded /\ k \notin unsettled =>
            /\ StoresOK(k, TRUE) /\ AskedOK(s, k)
            /\ IF Object(s).temp THEN TemporaryOK(s, k) ELSE LastingOK(s, k)
      BY <1>1, AtWork, Working
<1>3. /\ tree \subseteq tree' /\ tree' \subseteq tree \cup ({k} \X s.todo)
      /\ spent' = spent \/ spent' = [spent EXCEPT !.errors = @ + 1]
      /\ UNCHANGED <<sessions, cache, docs, heap, up, kept, superseded, unsettled>>
      BY DEF Insert, Pairs, DatabaseError, history
<1>4. /\ Becomes(c, t) /\ t.client = k /\ t.obj = s.obj /\ t.request = s.request
      /\ s.ret = "suback" /\ t.ret = "suback" /\ s.todo \in SUBSET Topic
      /\ \/ t.pc = "save" /\ s.todo = {} /\ t.cur = s.cur /\ tree' = tree
         \/ /\ t.pc = "record" /\ t.cur \subseteq s.todo /\ t.todo = s.todo \ t.cur
            /\ \/ tree' = tree \cup ({k} \X t.cur)
               \/ tree' = tree /\ spent' = [spent EXCEPT !.errors = @ + 1]
  <2>1. s.ret = "suback" /\ s.todo \in SUBSET Topic
        BY <1>1, <1>2 DEF PlaceOK, HandlerState
  <2>2. CASE s.todo = {} /\ Goto(c, "save") /\ tree' = tree
        BY <1>1, <1>2, <2>1, <2>2, Moved, LabelsAre
  <2>3. ASSUME NEW f \in s.todo, Take(c, f, "record"),
               \/ tree' = tree \cup Pairs(c, {f})
               \/ tree' = tree /\ spent' = [spent EXCEPT !.errors = @ + 1]
        PROVE  /\ Becomes(c, t) /\ t.client = k /\ t.obj = s.obj /\ t.request = s.request
               /\ t.ret = "suback"
               /\ t.pc = "record" /\ t.cur \subseteq s.todo /\ t.todo = s.todo \ t.cur
               /\ \/ tree' = tree \cup ({k} \X t.cur)
                  \/ tree' = tree /\ spent' = [spent EXCEPT !.errors = @ + 1]
    <3>1. "record" \in Labels
          BY LabelsAre
    <3> QED
        BY <1>1, <1>2, <2>1, <2>3, <3>1, Taken DEF Pairs
  <2> QED
      BY <2>1, <2>2, <2>3 DEF Insert, DatabaseError
<1>5. Types'
  <2>1. tree' \subseteq Client \X Topic /\ spent' \in [errors : Nat, restarts : Nat, packets : Nat]
        BY <1>1, <1>2, <1>3, <1>4 DEF Types
  <2> QED
      BY <1>1, <1>2, <1>3, <1>4, <2>1 DEF Types, Becomes
<1>6. Touches(c, t)
  <2>1. Faultless' => Faultless
        BY <1>1, <1>3 DEF Types, Faultless
  <2>2. \A j \in Client \ {k} : Routed(j)' = Routed(j)
        BY <1>1, <1>2, <1>3 DEF Routed, Types
  <2> QED
      BY <1>1, <1>2, <1>3, <1>4, <2>1, <2>2 DEF Types, Touches, Becomes, Kept
<1>7. Allocates(c, t)
      BY <1>1, <1>2, <1>3, <1>4 DEF Types, Allocates, PlaceOK, Unborn, Early, Drops
<1>8. PlaceOK(t, heap'[t.obj].temp)
      BY <1>2, <1>3, <1>4 DEF PlaceOK, Object, Early, Drops, Saves, Holding
<1>9. /\ sessions'[k] # Nil => heap'[sessions'[k]].temp
      /\ cache'[k] # Nil => ~heap'[cache'[k]].temp
      BY <1>1, <1>2, <1>3 DEF IInv, Types, Kinds
<1>10. ASSUME c \notin superseded, k \notin unsettled'
       PROVE /\ StoresOK(k, t.pc \in Holding)' /\ (t.pc # "done" => HandlerOK(t, k)')
             /\ Together(s, t, k)
  <2>1. /\ StoresOK(k, TRUE) /\ AskedOK(s, k)
        /\ IF Object(s).temp THEN TemporaryOK(s, k) ELSE LastingOK(s, k)
        /\ UNCHANGED <<sessions[k], cache[k], docs[k], heap, Kept(k)>> /\ Routed(k) \subseteq Routed(k)'
        /\ Object(t)' = Object(s)
        BY <1>1, <1>2, <1>3, <1>4, <1>10 DEF Kept, Routed, Types, Object
  <2>6. Faultless' => Faultless /\ Routed(k)' = Routed(k) \cup (IF t.pc = "record" THEN t.cur ELSE {})
        BY <1>1, <1>2, <1>3, <1>4 DEF Faultless, Types, Routed
  <2>2. StoresOK(k, t.pc \in Holding)'
        BY <1>4, <2>1, <2>6 DEF StoresOK, Holding
  <2>4. AskedOK(t, k)'
        BY <1>1, <1>4, <2>1, <2>6 DEF AskedOK
  <2>5. IF Object(s).temp THEN TemporaryOK(t, k)' ELSE LastingOK(t, k)'
        BY <1>1, <1>4, <2>1, <2>6 DEF TemporaryOK, LastingOK
  <2>3. t.pc # "done" => HandlerOK(t, k)'
        BY <1>4, <2>1, <2>4, <2>5 DEF HandlerOK, Holding
  <2>10. Faultless' => Routed(k)' \ (docs'[k].subs \cup Object(t)'.subs \cup t.cur)
                           \subseteq Routed(k) \ (docs[k].subs \cup Object(s).subs \cup s.cur)
         BY <1>1, <1>2, <1>4, <2>1, <2>6 DEF AskedOK
  <2>11. Faultless' => \/ s.pc = "delete"
                       \/ docs'[k].subs \ Routed(k)' \subseteq docs[k].subs \ Routed(k)
         BY <1>1, <1>2, <1>4, <2>1, <2>6
  <2>9. Together(s, t, k)
        BY <1>2, <1>4, <2>1, <2>10, <2>11, Remains
  <2> QED
      BY <2>2, <2>3, <2>9
<1> QED
    BY <1>1, <1>2, <1>3, <1>5, <1>6, <1>7, <1>8, <1>9, <1>10, Step DEF Moves

LEMMA RecordStep ==
    ASSUME IInv, NEW c \in Conn, NEW k, NEW s, NEW t, k = K(c), s = th[c], t = th'[c], Record(c)
    PROVE  IInv' /\ Moves(c, k, s, t)
<1>1. up /\ s.pc = "record" /\ s.pc \in Holding /\ Types
      BY DEF Record, At, IInv, Holding
<1>2. /\ s \in HandlerState /\ s.pc = "record" /\ Live(c) /\ k \in Client /\ k = s.client
      /\ PlaceOK(s, Object(s).temp)
      /\ s.obj \in Conn /\ s.obj # Nil /\ Object(s) \in Session
      /\ c \in superseded => k \in unsettled
      /\ c \notin superseded /\ k \notin unsettled =>
            /\ StoresOK(k, TRUE) /\ AskedOK(s, k)
            /\ IF Object(s).temp THEN TemporaryOK(s, k) ELSE LastingOK(s, k)
      BY <1>1, AtWork, Working
<1>3. /\ heap' = [heap EXCEPT ![s.obj].subs = @ \cup s.cur]
      /\ UNCHANGED <<sessions, cache, docs, tree, up, spent, kept, superseded, unsettled>>
      BY DEF Record, history
<1>4. /\ Becomes(c, t) /\ t.pc = "insert"
      /\ t.client = k /\ t.clean = s.clean /\ t.obj = s.obj /\ t.request = s.request
      /\ t.todo = s.todo /\ t.cur = s.cur /\ t.buf = s.buf /\ t.ret = s.ret
      /\ s.cur \in SUBSET Topic
      BY <1>1, <1>2, Moved, LabelsAre DEF Record, HandlerState
<1>5. Types'
  <2>1. heap' \in [Conn -> Session]
        BY <1>1, <1>2, <1>3 DEF Types, Session, HandlerState, Object
  <2> QED
      BY <1>1, <1>2, <1>3, <1>4, <2>1 DEF Types, Becomes
<1>6. Touches(c, t)
      BY <1>1, <1>2, <1>3, <1>4 DEF Types, Touches, Becomes, Kept, Routed, Faultless
<1>7. Allocates(c, t)
  <2>1. \A o \in Conn : heap'[o] = heap[o] \/ (o = s.obj /\ heap'[o].temp = heap[o].temp)
        BY <1>1, <1>2, <1>3 DEF Types, Session
  <2> QED
      BY <1>1, <1>2, <1>3, <1>4, <2>1 DEF Types, Allocates
<1>8. PlaceOK(t, heap'[t.obj].temp)
  <2>1. heap'[t.obj].temp = Object(s).temp
        BY <1>1, <1>2, <1>3, <1>4 DEF Types, Session, Object
  <2> QED
      BY <1>2, <1>4, <2>1 DEF PlaceOK, Early, Drops, Saves, Holding
<1>9. /\ sessions'[k] # Nil => heap'[sessions'[k]].temp
      /\ cache'[k] # Nil => ~heap'[cache'[k]].temp
  <2>1. \A o \in Conn : heap'[o].temp = heap[o].temp
        BY <1>1, <1>2, <1>3 DEF Types, Session
  <2> QED
      BY <1>1, <1>2, <1>3, <2>1 DEF IInv, Types, Kinds
<1>10. ASSUME c \notin superseded, k \notin unsettled'
       PROVE /\ StoresOK(k, t.pc \in Holding)' /\ (t.pc # "done" => HandlerOK(t, k)')
             /\ Together(s, t, k)
  <2>1. /\ StoresOK(k, TRUE) /\ AskedOK(s, k)
        /\ IF Object(s).temp THEN TemporaryOK(s, k) ELSE LastingOK(s, k)
        /\ UNCHANGED <<sessions[k], cache[k], docs[k], Kept(k), Routed(k), Faultless>>
        BY <1>1, <1>2, <1>3, <1>4, <1>10 DEF Kept, Routed, Faultless, Types
  <2>6. /\ heap'[s.obj].subs = Object(s).subs \cup s.cur /\ heap'[s.obj].temp = Object(s).temp
        /\ Object(t)' = heap'[s.obj]
        BY <1>1, <1>2, <1>3, <1>4 DEF Types, Session, Object
  <2>7. /\ Object(t).subs' = Object(s).subs \cup s.cur /\ Object(t).temp' = Object(s).temp
        /\ cache[k] # Nil => cache[k] = s.obj /\ heap'[cache[k]].subs = Object(s).subs \cup s.cur
        BY <1>2, <2>1, <2>6 DEF TemporaryOK, LastingOK
  <2>2. StoresOK(k, t.pc \in Holding)'
        BY <1>1, <1>2, <1>4, <2>1, <2>7 DEF StoresOK, Holding, Object, AskedOK
  <2>4. AskedOK(t, k)'
        BY <1>1, <1>2, <1>4, <2>1, <2>7 DEF AskedOK, PlaceOK
  <2>5. IF Object(s).temp THEN TemporaryOK(t, k)' ELSE LastingOK(t, k)'
        BY <1>1, <1>2, <1>4, <2>1, <2>7 DEF TemporaryOK, LastingOK, AskedOK, PlaceOK
  <2>3. t.pc # "done" => HandlerOK(t, k)'
        BY <1>4, <2>1, <2>4, <2>5, <2>7 DEF HandlerOK, Holding
  <2>10. Faultless' => Routed(k)' \ (docs'[k].subs \cup Object(t)'.subs \cup t.cur)
                           \subseteq Routed(k) \ (docs[k].subs \cup Object(s).subs \cup s.cur)
         BY <1>1, <1>2, <1>4, <2>1, <2>7
  <2>11. Faultless' => \/ s.pc = "delete"
                       \/ docs'[k].subs \ Routed(k)' \subseteq docs[k].subs \ Routed(k)
         BY <1>1, <1>2, <1>4, <2>1
  <2>9. Together(s, t, k)
        BY <1>2, <1>4, <2>1, <2>10, <2>11, Remains
  <2> QED
      BY <2>2, <2>3, <2>9
<1> QED
    BY <1>1, <1>2, <1>3, <1>5, <1>6, <1>7, <1>8, <1>9, <1>10, Step DEF Moves

LEMMA ForgetStep ==
    ASSUME IInv, NEW c \in Conn, NEW k, NEW s, NEW t, k = K(c), s = th[c], t = th'[c], Forget(c)
    PROVE  IInv' /\ Moves(c, k, s, t)
<1>1. up /\ s.pc = "forget" /\ s.pc \in Holding /\ Types
      BY DEF Forget, At, IInv, Holding
<1>2. /\ s \in HandlerState /\ s.pc = "forget" /\ Live(c) /\ k \in Client /\ k = s.client
      /\ PlaceOK(s, Object(s).temp)
      /\ s.obj \in Conn /\ s.obj # Nil /\ Object(s) \in Session
      /\ c \in superseded => k \in unsettled
      /\ c \notin superseded /\ k \notin unsettled =>
            /\ StoresOK(k, TRUE) /\ AskedOK(s, k)
            /\ IF Object(s).temp THEN TemporaryOK(s, k) ELSE LastingOK(s, k)
      BY <1>1, AtWork, Working
<1>3. /\ heap' = [heap EXCEPT ![s.obj].subs = @ \ s.cur]
      /\ UNCHANGED <<sessions, cache, docs, tree, up, spent, kept, superseded, unsettled>>
      BY DEF Forget, history
<1>4. /\ Becomes(c, t) /\ t.pc = "delete"
      /\ t.client = k /\ t.clean = s.clean /\ t.obj = s.obj /\ t.request = s.request
      /\ t.todo = s.todo /\ t.cur = s.cur /\ t.buf = s.buf /\ t.ret = s.ret
      /\ s.cur \in SUBSET Topic
      BY <1>1, <1>2, Moved, LabelsAre DEF Forget, HandlerState
<1>5. Types'
  <2>1. heap' \in [Conn -> Session]
        BY <1>1, <1>2, <1>3 DEF Types, Session, HandlerState, Object
  <2> QED
      BY <1>1, <1>2, <1>3, <1>4, <2>1 DEF Types, Becomes
<1>6. Touches(c, t)
      BY <1>1, <1>2, <1>3, <1>4 DEF Types, Touches, Becomes, Kept, Routed, Faultless
<1>7. Allocates(c, t)
  <2>1. \A o \in Conn : heap'[o] = heap[o] \/ (o = s.obj /\ heap'[o].temp = heap[o].temp)
        BY <1>1, <1>2, <1>3 DEF Types, Session
  <2> QED
      BY <1>1, <1>2, <1>3, <1>4, <2>1 DEF Types, Allocates
<1>8. PlaceOK(t, heap'[t.obj].temp)
  <2>1. heap'[t.obj].temp = Object(s).temp
        BY <1>1, <1>2, <1>3, <1>4 DEF Types, Session, Object
  <2> QED
      BY <1>2, <1>4, <2>1 DEF PlaceOK, Early, Drops, Saves, Holding
<1>9. /\ sessions'[k] # Nil => heap'[sessions'[k]].temp
      /\ cache'[k] # Nil => ~heap'[cache'[k]].temp
  <2>1. \A o \in Conn : heap'[o].temp = heap[o].temp
        BY <1>1, <1>2, <1>3 DEF Types, Session
  <2> QED
      BY <1>1, <1>2, <1>3, <2>1 DEF IInv, Types, Kinds
<1>10. ASSUME c \notin superseded, k \notin unsettled'
       PROVE /\ StoresOK(k, t.pc \in Holding)' /\ (t.pc # "done" => HandlerOK(t, k)')
             /\ Together(s, t, k)
  <2>1. /\ StoresOK(k, TRUE) /\ AskedOK(s, k)
        /\ IF Object(s).temp THEN TemporaryOK(s, k) ELSE LastingOK(s, k)
        /\ UNCHANGED <<sessions[k], cache[k], docs[k], Kept(k), Routed(k), Faultless>>
        BY <1>1, <1>2, <1>3, <1>4, <1>10 DEF Kept, Routed, Faultless, Types
  <2>6. /\ heap'[s.obj].subs = Object(s).subs \ s.cur /\ heap'[s.obj].temp = Object(s).temp
        /\ Object(t)' = heap'[s.obj]
        BY <1>1, <1>2, <1>3, <1>4 DEF Types, Session, Object
  <2>7. /\ Object(t).subs' = Object(s).subs \ s.cur /\ Object(t).temp' = Object(s).temp
        /\ cache[k] # Nil => cache[k] = s.obj /\ heap'[cache[k]].subs = Object(s).subs \ s.cur
        BY <1>2, <2>1, <2>6 DEF TemporaryOK, LastingOK
  <2>2. StoresOK(k, t.pc \in Holding)'
        BY <1>1, <1>2, <1>4, <2>1, <2>7 DEF StoresOK, Holding, Object, AskedOK
  <2>4. AskedOK(t, k)'
        BY <1>1, <1>2, <1>4, <2>1, <2>7 DEF AskedOK, PlaceOK
  <2>5. IF Object(s).temp THEN TemporaryOK(t, k)' ELSE LastingOK(t, k)'
        BY <1>1, <1>2, <1>4, <2>1, <2>7 DEF TemporaryOK, LastingOK, AskedOK, PlaceOK
  <2>3. t.pc # "done" => HandlerOK(t, k)'
        BY <1>4, <2>1, <2>4, <2>5, <2>7 DEF HandlerOK, Holding
  <2>10. Faultless' => Routed(k)' \ (docs'[k].subs \cup Object(t)'.subs \cup t.cur)
                           \subseteq Routed(k) \ (docs[k].subs \cup Object(s).subs \cup s.cur)
         BY <1>1, <1>2, <1>4, <2>1, <2>6, <2>7 DEF AskedOK
  <2>11. Faultless' => \/ s.pc = "delete"
                       \/ docs'[k].subs \ Routed(k)' \subseteq docs[k].subs \ Routed(k)
         BY <1>1, <1>2, <1>4, <2>1
  <2>9. Together(s, t, k)
        BY <1>2, <1>4, <2>1, <2>10, <2>11, Remains
  <2> QED
      BY <2>2, <2>3, <2>9
<1> QED
    BY <1>1, <1>2, <1>3, <1>5, <1>6, <1>7, <1>8, <1>9, <1>10, Step DEF Moves

LEMMA UnsubscribeStep ==
    ASSUME IInv, NEW c \in Conn, NEW k, NEW s, NEW t, k = K(c), s = th[c], t = th'[c], Unsubscribe(c)
    PROVE  IInv' /\ Moves(c, k, s, t)
<1>1. up /\ s.pc = "loop" /\ s.pc \in Holding /\ Types
      BY DEF Unsubscribe, Packet, At, IInv, Holding
<1>2. /\ s \in HandlerState /\ s.pc = "loop" /\ Live(c) /\ k \in Client /\ k = s.client
      /\ PlaceOK(s, Object(s).temp)
      /\ s.obj \in Conn /\ s.obj # Nil /\ Object(s) \in Session
      /\ c \notin superseded /\ k \notin unsettled =>
            /\ StoresOK(k, TRUE) /\ AskedOK(s, k)
            /\ IF Object(s).temp THEN TemporaryOK(s, k) ELSE LastingOK(s, k)
      BY <1>1, AtWork, Working
<1>3. /\ spent' = [spent EXCEPT !.packets = @ + 1]
      /\ unsettled' = IF c \in superseded THEN unsettled \cup {k} ELSE unsettled
      /\ \E T \in Requests : Begin(c, "delete", T, "loop") /\ kept' = kept \ Pairs(c, T)
      /\ UNCHANGED <<sessions, cache, docs, heap, tree, up, superseded>>
      BY DEF Unsubscribe, Packet, Intrudes, stores
<1>4. /\ Becomes(c, t) /\ t.pc = "delete" /\ t.client = k /\ t.obj = s.obj
      /\ t.cur = {} /\ t.ret = "loop" /\ s.cur = {} /\ s.ret = "loop"
      /\ kept' = kept \ ({k} \X t.todo)
  <2>1. PICK T \in SUBSET Topic : Begin(c, "delete", T, "loop") /\ kept' = kept \ Pairs(c, T)
        BY <1>3 DEF Requests
  <2>2. s.cur = {} /\ s.ret = "loop"
        BY <1>1, <1>2 DEF PlaceOK
  <2>3. "delete" \in Labels
        BY LabelsAre
  <2> QED
      BY <1>1, <1>2, <2>1, <2>2, <2>3, Begun DEF Pairs
<1>5. Types'
  <2>1. spent' \in [errors : Nat, restarts : Nat, packets : Nat] /\ unsettled' \subseteq Client
        /\ kept' \subseteq Client \X Topic
        BY <1>1, <1>2, <1>3, <1>4 DEF Types
  <2> QED
      BY <1>1, <1>2, <1>3, <1>4, <2>1 DEF Types, Becomes
<1>6. Touches(c, t)
  <2>1. (Faultless' <=> Faultless) /\ unsettled \subseteq unsettled' /\ unsettled' \subseteq unsettled \cup {k}
        BY <1>1, <1>3 DEF Types, Faultless
  <2>2. \A j \in Client \ {k} : Kept(j)' = Kept(j)
        BY <1>1, <1>2, <1>4 DEF Kept
  <2> QED
      BY <1>1, <1>2, <1>3, <1>4, <2>1, <2>2 DEF Types, Touches, Becomes, Routed
<1>7. Allocates(c, t)
      BY <1>1, <1>2, <1>3, <1>4 DEF Types, Allocates, PlaceOK, Unborn, Early, Drops
<1>8. PlaceOK(t, heap'[t.obj].temp)
      BY <1>2, <1>3, <1>4 DEF PlaceOK, Object, Early, Drops, Saves, Holding
<1>9. /\ sessions'[k] # Nil => heap'[sessions'[k]].temp
      /\ cache'[k] # Nil => ~heap'[cache'[k]].temp
      BY <1>1, <1>2, <1>3 DEF IInv, Types, Kinds
<1>10. ASSUME c \notin superseded, k \notin unsettled'
       PROVE /\ StoresOK(k, t.pc \in Holding)' /\ (t.pc # "done" => HandlerOK(t, k)')
             /\ Together(s, t, k)
  <2>1. /\ StoresOK(k, TRUE) /\ AskedOK(s, k)
        /\ IF Object(s).temp THEN TemporaryOK(s, k) ELSE LastingOK(s, k)
        /\ UNCHANGED <<sessions[k], cache[k], docs[k], heap, Routed(k)>>
        /\ Object(t)' = Object(s)
        BY <1>1, <1>2, <1>3, <1>4, <1>10 DEF Routed, Types, Object
  <2>6. Faultless' <=> Faultless
        BY <1>1, <1>3 DEF Faultless, Types
  <2>7. Kept(k)' = Kept(k) \ t.todo
        BY <1>1, <1>2, <1>4 DEF Kept
  <2>2. StoresOK(k, t.pc \in Holding)'
        BY <1>4, <2>1, <2>6, <2>7 DEF StoresOK, Holding
  <2>4. AskedOK(t, k)'
        BY <1>4, <2>1, <2>6, <2>7 DEF AskedOK
  <2>5. IF Object(s).temp THEN TemporaryOK(t, k)' ELSE LastingOK(t, k)'
        BY <1>1, <1>4, <2>1, <2>6, <2>7 DEF TemporaryOK, LastingOK
  <2>3. t.pc # "done" => HandlerOK(t, k)'
        BY <1>4, <2>1, <2>4, <2>5 DEF HandlerOK, Holding
  <2>10. Faultless' => Routed(k)' \ (docs'[k].subs \cup Object(t)'.subs \cup t.cur)
                           \subseteq Routed(k) \ (docs[k].subs \cup Object(s).subs \cup s.cur)
         BY <1>1, <1>2, <1>4, <2>1
  <2>11. Faultless' => \/ s.pc = "delete"
                       \/ docs'[k].subs \ Routed(k)' \subseteq docs[k].subs \ Routed(k)
         BY <1>1, <1>2, <1>4, <2>1
  <2>9. Together(s, t, k)
        BY <1>2, <1>4, <2>1, <2>10, <2>11, Remains
  <2> QED
      BY <2>2, <2>3, <2>9
<1>11. c \in superseded /\ k \notin unsettled' => t = Done /\ UNCHANGED <<stores, kept>>
      BY <1>3
<1> QED
    BY <1>1, <1>2, <1>3, <1>5, <1>6, <1>7, <1>8, <1>9, <1>10, <1>11, Step DEF Moves

LEMMA DeleteStep ==
    ASSUME IInv, NEW c \in Conn, NEW k, NEW s, NEW t, k = K(c), s = th[c], t = th'[c], Delete(c)
    PROVE  IInv' /\ Moves(c, k, s, t)
<1>1. up /\ s.pc = "delete" /\ s.pc \in Holding /\ Types
      BY DEF Delete, At, IInv, Holding
<1>2. /\ s \in HandlerState /\ s.pc = "delete" /\ Live(c) /\ k \in Client /\ k = s.client
      /\ PlaceOK(s, Object(s).temp)
      /\ s.obj \in Conn /\ s.obj # Nil /\ Object(s) \in Session
      /\ c \in superseded => k \in unsettled
      /\ c \notin superseded /\ k \notin unsettled =>
            /\ StoresOK(k, TRUE) /\ AskedOK(s, k)
            /\ IF Object(s).temp THEN TemporaryOK(s, k) ELSE LastingOK(s, k)
      BY <1>1, AtWork, Working
<1>3. /\ tree' \subseteq tree /\ tree \ ({k} \X s.todo) \subseteq tree'
      /\ spent' = spent \/ spent' = [spent EXCEPT !.errors = @ + 1]
      /\ UNCHANGED <<sessions, cache, docs, heap, up, kept, superseded, unsettled>>
      BY DEF Delete, Withdraw, Pairs, DatabaseError, history
<1>4. /\ Becomes(c, t) /\ t.client = k /\ t.obj = s.obj /\ t.ret = "loop" /\ s.ret = "loop"
      /\ s.todo \in SUBSET Topic
      /\ \/ t.pc = "loop" /\ t.cur = {} /\ tree' = tree /\ spent' = spent
         \/ /\ t.pc = "forget" /\ t.cur \subseteq s.todo /\ t.todo = s.todo \ t.cur
            /\ \/ tree' = tree \ ({k} \X t.cur)
               \/ tree' = tree /\ spent' = [spent EXCEPT !.errors = @ + 1]
  <2>1. s.ret = "loop" /\ s.todo \in SUBSET Topic
        BY <1>1, <1>2 DEF PlaceOK, HandlerState
  <2>2. CASE s.todo = {} /\ Loop(c, s.obj) /\ tree' = tree /\ spent' = spent
        BY <1>1, <1>2, <2>1, <2>2, Looped
  <2>3. ASSUME NEW f \in s.todo, Take(c, f, "forget"), Withdraw(c, f)
        PROVE  /\ Becomes(c, t) /\ t.client = k /\ t.obj = s.obj /\ t.ret = s.ret
               /\ t.pc = "forget" /\ t.cur \subseteq s.todo /\ t.todo = s.todo \ t.cur
               /\ \/ tree' = tree \ ({k} \X t.cur)
                  \/ tree' = tree /\ spent' = [spent EXCEPT !.errors = @ + 1]
    <3>1. "forget" \in Labels
          BY LabelsAre
    <3> QED
        BY <1>1, <1>2, <2>3, <3>1, Taken DEF Pairs, Withdraw, DatabaseError
  <2> QED
      BY <2>1, <2>2, <2>3 DEF Delete
<1>5. Types'
  <2>1. tree' \subseteq Client \X Topic /\ spent' \in [errors : Nat, restarts : Nat, packets : Nat]
        BY <1>1, <1>2, <1>3, <1>4 DEF Types
  <2> QED
      BY <1>1, <1>2, <1>3, <1>4, <2>1 DEF Types, Becomes
<1>6. Touches(c, t)
  <2>1. Faultless' => Faultless
        BY <1>1, <1>3 DEF Types, Faultless
  <2>2. \A j \in Client \ {k} : Routed(j)' = Routed(j)
        BY <1>1, <1>2, <1>3 DEF Routed, Types
  <2> QED
      BY <1>1, <1>2, <1>3, <1>4, <2>1, <2>2 DEF Types, Touches, Becomes, Kept
<1>7. Allocates(c, t)
      BY <1>1, <1>2, <1>3, <1>4 DEF Types, Allocates, PlaceOK, Unborn, Early, Drops
<1>8. PlaceOK(t, heap'[t.obj].temp)
      BY <1>2, <1>3, <1>4 DEF PlaceOK, Object, Early, Drops, Saves, Holding
<1>9. /\ sessions'[k] # Nil => heap'[sessions'[k]].temp
      /\ cache'[k] # Nil => ~heap'[cache'[k]].temp
      BY <1>1, <1>2, <1>3 DEF IInv, Types, Kinds
<1>10. ASSUME c \notin superseded, k \notin unsettled'
       PROVE /\ StoresOK(k, t.pc \in Holding)' /\ (t.pc # "done" => HandlerOK(t, k)')
             /\ Together(s, t, k)
  <2>1. /\ StoresOK(k, TRUE) /\ AskedOK(s, k)
        /\ IF Object(s).temp THEN TemporaryOK(s, k) ELSE LastingOK(s, k)
        /\ UNCHANGED <<sessions[k], cache[k], docs[k], heap, Kept(k)>>
        /\ Object(t)' = Object(s)
        BY <1>1, <1>2, <1>3, <1>4, <1>10 DEF Kept, Types, Object
  <2>6. /\ Faultless' => Faultless /\ (t.pc = "forget" => Routed(k)' = Routed(k) \ t.cur)
        /\ t.pc # "forget" => Routed(k)' = Routed(k)
        BY <1>1, <1>2, <1>3, <1>4 DEF Faultless, Types, Routed
  <2>7. Kept(k) \cap t.cur = {}
        BY <1>1, <1>4, <2>1 DEF AskedOK
  <2>2. StoresOK(k, t.pc \in Holding)'
        BY <1>4, <2>1, <2>6, <2>7 DEF StoresOK, Holding
  <2>4. AskedOK(t, k)'
        BY <1>1, <1>4, <2>1, <2>6, <2>7 DEF AskedOK
  <2>5. IF Object(s).temp THEN TemporaryOK(t, k)' ELSE LastingOK(t, k)'
        BY <1>1, <1>4, <2>1, <2>6 DEF TemporaryOK, LastingOK
  <2>3. t.pc # "done" => HandlerOK(t, k)'
        BY <1>4, <2>1, <2>4, <2>5 DEF HandlerOK, Holding
  <2>10. Faultless' => Routed(k)' \ (docs'[k].subs \cup Object(t)'.subs \cup t.cur)
                           \subseteq Routed(k) \ (docs[k].subs \cup Object(s).subs \cup s.cur)
         BY <1>1, <1>2, <1>4, <2>1, <2>6 DEF AskedOK
  <2>11. Faultless' => \/ s.pc = "delete"
                       \/ docs'[k].subs \ Routed(k)' \subseteq docs[k].subs \ Routed(k)
         BY <1>1, <1>2, <1>4, <2>1
  <2>9. Together(s, t, k)
        BY <1>2, <1>4, <2>1, <2>10, <2>11, Remains
  <2> QED
      BY <2>2, <2>3, <2>9
<1> QED
    BY <1>1, <1>2, <1>3, <1>5, <1>6, <1>7, <1>8, <1>9, <1>10, Step DEF Moves

LEMMA ClearStep ==
    ASSUME IInv, NEW c \in Conn, NEW k, NEW s, NEW t, k = K(c), s = th[c], t = th'[c], Clear(c)
    PROVE  IInv' /\ Moves(c, k, s, t)
<1>1. up /\ s.pc = "clear" /\ s.pc \in Holding /\ Types
      BY DEF Clear, At, IInv, Holding
<1>2. /\ s \in HandlerState /\ s.pc = "clear" /\ Live(c) /\ k \in Client /\ k = s.client
      /\ PlaceOK(s, Object(s).temp)
      /\ s.obj \in Conn /\ s.obj # Nil /\ Object(s) \in Session
      /\ c \in superseded => k \in unsettled
      /\ c \notin superseded /\ k \notin unsettled =>
            /\ StoresOK(k, TRUE) /\ AskedOK(s, k)
            /\ IF Object(s).temp THEN TemporaryOK(s, k) ELSE LastingOK(s, k)
      BY <1>1, AtWork, Working
<1>3. /\ tree' \subseteq tree /\ tree \ ({k} \X s.todo) \subseteq tree'
      /\ spent' = spent \/ spent' = [spent EXCEPT !.errors = @ + 1]
      /\ UNCHANGED <<sessions, cache, docs, heap, up, kept, superseded, unsettled>>
      BY DEF Clear, Withdraw, Pairs, DatabaseError, history
<1>4. /\ Becomes(c, t) /\ t.client = k /\ t.obj = s.obj /\ t.ret = "done" /\ s.ret = "done"
      /\ s.todo \in SUBSET Topic
      /\ \/ t.pc = "dropMap" /\ t.cur = s.cur /\ s.todo = {} /\ tree' = tree /\ spent' = spent
         \/ /\ t.pc = "clear" /\ t.cur \subseteq s.todo /\ t.todo = s.todo \ t.cur
            /\ \/ tree' = tree \ ({k} \X t.cur)
               \/ tree' = tree /\ spent' = [spent EXCEPT !.errors = @ + 1]
  <2>1. s.ret = "done" /\ s.todo \in SUBSET Topic
        BY <1>1, <1>2 DEF PlaceOK, HandlerState
  <2>2. CASE s.todo = {} /\ Goto(c, "dropMap") /\ tree' = tree /\ spent' = spent
        BY <1>1, <1>2, <2>1, <2>2, Moved, LabelsAre
  <2>3. ASSUME NEW f \in s.todo, Take(c, f, "clear"), Withdraw(c, f)
        PROVE  /\ Becomes(c, t) /\ t.client = k /\ t.obj = s.obj /\ t.ret = s.ret
               /\ t.pc = "clear" /\ t.cur \subseteq s.todo /\ t.todo = s.todo \ t.cur
               /\ \/ tree' = tree \ ({k} \X t.cur)
                  \/ tree' = tree /\ spent' = [spent EXCEPT !.errors = @ + 1]
    <3>1. "clear" \in Labels
          BY LabelsAre
    <3> QED
        BY <1>1, <1>2, <2>3, <3>1, Taken DEF Pairs, Withdraw, DatabaseError
  <2> QED
      BY <2>1, <2>2, <2>3 DEF Clear
<1>5. Types'
  <2>1. tree' \subseteq Client \X Topic /\ spent' \in [errors : Nat, restarts : Nat, packets : Nat]
        BY <1>1, <1>2, <1>3, <1>4 DEF Types
  <2> QED
      BY <1>1, <1>2, <1>3, <1>4, <2>1 DEF Types, Becomes
<1>6. Touches(c, t)
  <2>1. Faultless' => Faultless
        BY <1>1, <1>3 DEF Types, Faultless
  <2>2. \A j \in Client \ {k} : Routed(j)' = Routed(j)
        BY <1>1, <1>2, <1>3 DEF Routed, Types
  <2> QED
      BY <1>1, <1>2, <1>3, <1>4, <2>1, <2>2 DEF Types, Touches, Becomes, Kept
<1>7. Allocates(c, t)
      BY <1>1, <1>2, <1>3, <1>4 DEF Types, Allocates, PlaceOK, Unborn, Early, Drops
<1>8. PlaceOK(t, heap'[t.obj].temp)
      BY <1>2, <1>3, <1>4 DEF PlaceOK, Object, Early, Drops, Saves, Holding
<1>9. /\ sessions'[k] # Nil => heap'[sessions'[k]].temp
      /\ cache'[k] # Nil => ~heap'[cache'[k]].temp
      BY <1>1, <1>2, <1>3 DEF IInv, Types, Kinds
<1>10. ASSUME c \notin superseded, k \notin unsettled'
       PROVE /\ StoresOK(k, t.pc \in Holding)' /\ (t.pc # "done" => HandlerOK(t, k)')
             /\ Together(s, t, k)
  <2>1. /\ StoresOK(k, TRUE) /\ AskedOK(s, k) /\ TemporaryOK(s, k) /\ Object(s).temp
        /\ UNCHANGED <<sessions[k], cache[k], docs[k], heap, Kept(k)>>
        /\ Object(t)' = Object(s)
        BY <1>1, <1>2, <1>3, <1>4, <1>10 DEF Kept, Types, Object, PlaceOK
  <2>6. /\ Faultless' => Faultless /\ (t.pc = "clear" => Routed(k)' = Routed(k) \ t.cur)
        /\ t.pc # "clear" => Routed(k)' = Routed(k)
        BY <1>1, <1>2, <1>3, <1>4 DEF Faultless, Types, Routed
  <2>7. Kept(k) = {} /\ cache[k] = Nil
        BY <2>1 DEF TemporaryOK
  <2>2. StoresOK(k, t.pc \in Holding)'
        BY <1>4, <2>1, <2>6, <2>7 DEF StoresOK
  <2>4. ASSUME t.pc = "clear" PROVE HandlerOK(t, k)'
    <3>1. AskedOK(t, k)'
          BY <1>4, <2>1, <2>6, <2>4 DEF AskedOK
    <3>2. TemporaryOK(t, k)'
          BY <1>1, <1>4, <2>1, <2>6, <2>4 DEF TemporaryOK
    <3> QED
        BY <2>1, <2>2, <2>4, <3>1, <3>2 DEF HandlerOK, Holding
  <2>5. ASSUME t.pc = "dropMap" PROVE HandlerOK(t, k)'
    <3>1. SeekerOK(t, k)'
          BY <1>1, <1>4, <2>1, <2>5, <2>6, <2>7 DEF SeekerOK, TemporaryOK, Drops
    <3> QED
        BY <2>2, <2>5, <3>1 DEF HandlerOK, Holding
  <2>10. Faultless' => Routed(k)' \ (docs'[k].subs \cup Object(t)'.subs \cup t.cur)
                           \subseteq Routed(k) \ (docs[k].subs \cup Object(s).subs \cup s.cur)
         BY <1>1, <1>2, <1>4, <2>1, <2>6 DEF TemporaryOK
  <2>11. Faultless' => \/ s.pc = "delete"
                       \/ docs'[k].subs \ Routed(k)' \subseteq docs[k].subs \ Routed(k)
         BY <1>1, <1>2, <1>4, <2>1, <2>6 DEF TemporaryOK, Types
  <2>9. Together(s, t, k)
        BY <1>2, <1>4, <2>1, <2>10, <2>11, Remains
  <2> QED
      BY <1>4, <2>2, <2>4, <2>5, <2>9
<1> QED
    BY <1>1, <1>2, <1>3, <1>5, <1>6, <1>7, <1>8, <1>9, <1>10, Step DEF Moves

LEMMA DisconnectStep ==
    ASSUME IInv, NEW c \in Conn, NEW k, NEW s, NEW t, k = K(c), s = th[c], t = th'[c], Disconnect(c)
    PROVE  IInv' /\ Moves(c, k, s, t)
<1>1. up /\ s.pc = "loop" /\ s.pc \in Holding /\ Types
      BY DEF Disconnect, At, IInv, Holding
<1>2. /\ s \in HandlerState /\ s.pc = "loop" /\ Live(c) /\ k \in Client /\ k = s.client
      /\ PlaceOK(s, Object(s).temp)
      /\ s.obj \in Conn /\ s.obj # Nil /\ Object(s) \in Session
      /\ c \notin superseded /\ k \notin unsettled =>
            /\ StoresOK(k, TRUE) /\ AskedOK(s, k)
            /\ IF Object(s).temp THEN TemporaryOK(s, k) ELSE LastingOK(s, k)
      BY <1>1, AtWork, Working
<1>3. /\ unsettled' = IF c \in superseded THEN unsettled \cup {k} ELSE unsettled
      /\ UNCHANGED <<sessions, cache, docs, heap, tree, up, spent, kept, superseded>>
      BY DEF Disconnect, Intrudes, stores
<1>4. /\ Becomes(c, t) /\ t.client = k /\ t.obj = s.obj /\ t.cur = {} /\ t.ret = "done" /\ s.cur = {} /\ s.ret = "loop"
      /\ \/ t.pc = "clear" /\ Object(s).temp /\ t.todo = Object(s).subs
         \/ t.pc = "save" /\ ~Object(s).temp
  <2>1. s.cur = {} /\ s.ret = "loop" /\ Object(s).subs \in SUBSET Topic
        BY <1>1, <1>2 DEF PlaceOK, Session
  <2>2. CASE Begin(c, "clear", Object(s).subs, "done") /\ Object(s).temp
        BY <1>1, <1>2, <2>1, <2>2, Begun, LabelsAre
  <2>3. CASE Begin(c, "save", {}, "done") /\ ~Object(s).temp
        BY <1>1, <1>2, <2>1, <2>3, Begun, LabelsAre
  <2> QED
      BY <2>1, <2>2, <2>3 DEF Disconnect, Mine, Object
<1>5. Types'
  <2>1. unsettled' \subseteq Client
        BY <1>1, <1>2, <1>3 DEF Types
  <2> QED
      BY <1>1, <1>2, <1>3, <1>4, <2>1 DEF Types, Becomes
<1>6. Touches(c, t)
  <2>1. unsettled \subseteq unsettled' /\ unsettled' \subseteq unsettled \cup {k}
        BY <1>3
  <2> QED
      BY <1>1, <1>2, <1>3, <1>4, <2>1 DEF Types, Touches, Becomes, Kept, Routed, Faultless
<1>7. Allocates(c, t)
      BY <1>1, <1>2, <1>3, <1>4 DEF Types, Allocates, PlaceOK, Unborn, Early, Drops
<1>8. PlaceOK(t, heap'[t.obj].temp)
      BY <1>2, <1>3, <1>4 DEF PlaceOK, Object, Early, Drops, Saves, Holding
<1>9. /\ sessions'[k] # Nil => heap'[sessions'[k]].temp
      /\ cache'[k] # Nil => ~heap'[cache'[k]].temp
      BY <1>1, <1>2, <1>3 DEF IInv, Types, Kinds
<1>10. ASSUME c \notin superseded, k \notin unsettled'
       PROVE /\ StoresOK(k, t.pc \in Holding)' /\ (t.pc # "done" => HandlerOK(t, k)')
             /\ Together(s, t, k)
  <2>1. /\ StoresOK(k, TRUE) /\ AskedOK(s, k)
        /\ IF Object(s).temp THEN TemporaryOK(s, k) ELSE LastingOK(s, k)
        /\ UNCHANGED <<sessions[k], cache[k], docs[k], heap, Kept(k), Routed(k), Faultless>>
        /\ Object(t)' = Object(s)
        BY <1>1, <1>2, <1>3, <1>4, <1>10 DEF Kept, Routed, Faultless, Types, Object
  <2>2. StoresOK(k, t.pc \in Holding)'
        BY <1>4, <2>1 DEF StoresOK, Holding
  <2>4. AskedOK(t, k)'
        BY <1>4, <2>1 DEF AskedOK
  <2>5. IF Object(s).temp THEN TemporaryOK(t, k)' ELSE LastingOK(t, k)'
        BY <1>1, <1>4, <2>1 DEF TemporaryOK, LastingOK
  <2>3. t.pc # "done" => HandlerOK(t, k)'
        BY <1>4, <2>1, <2>4, <2>5 DEF HandlerOK, Holding
  <2>10. Faultless' => Routed(k)' \ (docs'[k].subs \cup Object(t)'.subs \cup t.cur)
                           \subseteq Routed(k) \ (docs[k].subs \cup Object(s).subs \cup s.cur)
         BY <1>1, <1>2, <1>4, <2>1
  <2>11. Faultless' => \/ s.pc = "delete"
                       \/ docs'[k].subs \ Routed(k)' \subseteq docs[k].subs \ Routed(k)
         BY <1>1, <1>2, <1>4, <2>1
  <2>9. Together(s, t, k)
        BY <1>2, <1>4, <2>1, <2>10, <2>11, Remains
  <2> QED
      BY <2>2, <2>3, <2>9
<1>11. c \in superseded /\ k \notin unsettled' => t = Done /\ UNCHANGED <<stores, kept>>
      BY <1>3
<1> QED
    BY <1>1, <1>2, <1>3, <1>5, <1>6, <1>7, <1>8, <1>9, <1>10, <1>11, Step DEF Moves

LEMMA HangupStep ==
    ASSUME IInv, NEW c \in Conn, NEW k, NEW s, NEW t, k = K(c), s = th[c], t = th'[c], Hangup(c)
    PROVE  IInv' /\ Moves(c, k, s, t)
<1>1. up /\ s.pc = "loop" /\ s.pc \in Holding /\ Types
      BY DEF Hangup, At, IInv, Holding
<1>2. /\ s \in HandlerState /\ s.pc = "loop" /\ Live(c) /\ k \in Client /\ k = s.client
      /\ PlaceOK(s, Object(s).temp)
      /\ s.obj \in Conn /\ s.obj # Nil /\ Object(s) \in Session
      /\ c \notin superseded /\ k \notin unsettled =>
            /\ StoresOK(k, TRUE) /\ AskedOK(s, k)
            /\ IF Object(s).temp THEN TemporaryOK(s, k) ELSE LastingOK(s, k)
      BY <1>1, AtWork, Working
<1>3. UNCHANGED <<sessions, cache, docs, heap, tree, up, spent, kept, superseded, unsettled>>
      BY DEF Hangup, stores, history
<1>4. /\ Becomes(c, t) /\ t = Done /\ t.pc = "done" /\ t.obj = Nil /\ t.cur = {} /\ t.ret = "loop"
      BY <1>1, Gone DEF Hangup, Becomes
<1>5. Types'
      BY <1>1, <1>2, <1>3, <1>4 DEF Types, Becomes
<1>6. Touches(c, t)
      BY <1>1, <1>2, <1>3, <1>4 DEF Types, Touches, Becomes, Kept, Routed, Faultless
<1>7. Allocates(c, t)
      BY <1>1, <1>2, <1>3, <1>4 DEF Types, Allocates, PlaceOK, Unborn, Early, Drops
<1>8. PlaceOK(t, heap'[t.obj].temp)
      BY <1>2, <1>3, <1>4 DEF PlaceOK, Object, Early, Drops, Saves, Holding
<1>9. /\ sessions'[k] # Nil => heap'[sessions'[k]].temp
      /\ cache'[k] # Nil => ~heap'[cache'[k]].temp
      BY <1>1, <1>2, <1>3 DEF IInv, Types, Kinds
<1>10. ASSUME c \notin superseded, k \notin unsettled'
       PROVE /\ StoresOK(k, t.pc \in Holding)' /\ (t.pc # "done" => HandlerOK(t, k)')
             /\ Together(s, t, k)
  <2>1. /\ StoresOK(k, TRUE) /\ AskedOK(s, k)
        /\ IF Object(s).temp THEN TemporaryOK(s, k) ELSE LastingOK(s, k)
        /\ UNCHANGED <<sessions[k], cache[k], docs[k], heap, Kept(k), Routed(k), Faultless>>
        BY <1>1, <1>2, <1>3, <1>4, <1>10 DEF Kept, Routed, Faultless, Types, Object
  <2>4. s.ret = "loop"
        BY <1>1, <1>2 DEF PlaceOK
  <2>5. StoresOK(k, FALSE)
        BY <1>1, <1>2, <2>1, <2>4, Waiting
  <2>2. StoresOK(k, t.pc \in Holding)'
        BY <1>4, <2>1, <2>5 DEF StoresOK, Holding
  <2>3. t.pc # "done" => HandlerOK(t, k)'
        BY <1>4
  <2>8. Known(s, k) = docs[k].subs \cup Object(s).subs \cup s.cur
        BY <1>2, <2>1, KnownIs
  <2>9. Together(s, t, k)
        BY <1>1, <1>2, <1>4, <2>1, <2>8, <2>4 DEF Together, Known, Subs, Object, TemporaryOK, LastingOK, PlaceOK
  <2> QED
      BY <2>2, <2>3, <2>9
<1>11. c \in superseded /\ k \notin unsettled' => t = Done /\ UNCHANGED <<stores, kept>>
      BY <1>3, <1>4 DEF stores
<1> QED
    BY <1>1, <1>2, <1>3, <1>5, <1>6, <1>7, <1>8, <1>9, <1>10, <1>11, Step DEF Moves

-----------------------------------------------------------------------------
(***************************************************************************)
(* The end of the process, the answer that may cause it, and CONNECT.      *)
(***************************************************************************)
LEMMA Stopped ==
    ASSUME IInv, Stop, UNCHANGED <<docs, tree, spent, kept, superseded, unsettled>>
    PROVE  IInv'
<1> USE DEF Stop
<1>1. Types
      BY DEF IInv
<1>2. \A c \in Conn : /\ th'[c] \in HandlerState /\ th'[c].pc \in {"ready", "done"}
                      /\ th'[c].obj = Nil /\ th'[c].ret = "loop" /\ th'[c].cur = {}
                      /\ th[c].pc # "ready" => th'[c].pc # "ready"
  <2> TAKE c \in Conn
  <2>1. CASE Live(c)
    <3>1. Done \in HandlerState /\ Done.pc = "done" /\ Done.obj = Nil /\ Done.ret = "loop" /\ Done.cur = {}
          BY LabelsAre DEF HandlerState, Done, Ready
    <3> QED
        BY <2>1, <3>1
  <2>2. CASE ~Live(c)
    <3>1. th'[c] = th[c] /\ th[c].pc \in {"ready", "done"} /\ PlaceOK(th[c], Mine(c).temp)
          BY <2>2 DEF Live, IInv, Places
    <3> QED
        BY <1>1, <3>1 DEF PlaceOK, Types
  <2> QED
      BY <2>1, <2>2
<1>3. Types'
      BY <1>1, <1>2 DEF Types, Blank, Session
<1>4. Places'
      BY <1>2 DEF Places, PlaceOK, Early, Drops, Holding, Saves
<1>5. \A k \in Client, o \in Conn : ~Refers(k, o)'
      BY <1>2 DEF Refers, SessionAssumption
<1>6. Kinds' /\ Owned' /\ Fresh'
      BY <1>5 DEF Kinds, Owned, Fresh
<1>7. \A c \in Conn : ~Live(c)'
      BY <1>2 DEF Live
<1>8. Sole' /\ Left'
      BY <1>1, <1>2, <1>7 DEF Sole, Left, IInv, Types
<1>9. ASSUME NEW k \in Client \ unsettled' PROVE Settled(k)'
  <2>1. Settled(k)
        BY <1>9 DEF IInv
  <2>2. Current(k)' = {} /\ sessions'[k] = Nil /\ cache'[k] = Nil
        BY <1>7 DEF Current, Others
  <2>3. UNCHANGED <<docs[k], Kept(k), Routed(k), Faultless>>
        BY DEF Kept, Routed, Faultless
  <2> QED
      BY <2>1, <2>2, <2>3 DEF Settled, StoresOK
<1> QED
    BY <1>3, <1>4, <1>6, <1>8, <1>9 DEF IInv

LEMMA AnswerStep ==
    ASSUME IInv, NEW c \in Conn, NEW k, NEW s, NEW t, k = K(c), s = th[c], t = th'[c], Answer(c)
    PROVE  IInv' /\ (up' => Moves(c, k, s, t))
<1>1. up /\ s.pc \in {"saved", "unsaved"} /\ s.pc \in Holding /\ Types
      BY DEF Answer, At, IInv, Holding
<1>2. /\ s \in HandlerState /\ Live(c) /\ k \in Client /\ k = s.client
      /\ PlaceOK(s, Object(s).temp)
      /\ s.obj \in Conn /\ s.obj # Nil /\ Object(s) \in Session
      /\ c \in superseded => k \in unsettled
      /\ c \notin superseded /\ k \notin unsettled =>
            /\ StoresOK(k, TRUE) /\ AskedOK(s, k)
            /\ IF Object(s).temp THEN TemporaryOK(s, k) ELSE LastingOK(s, k)
      BY <1>1, AtWork, Working
<1>3. CASE Stop /\ UNCHANGED kept
      BY <1>3, Stopped DEF Answer, Stop
<1>4. CASE ~(Stop /\ UNCHANGED kept)
  <2>1. /\ UNCHANGED <<sessions, cache, docs, heap, tree, up, spent, superseded, unsettled>>
        /\ \/ s.ret = "done" /\ End(c)
           \/ s.ret # "done" /\ Loop(c, s.obj)
        BY <1>4 DEF Answer
  <2>2. \/ /\ kept' = kept \cup ({k} \X s.request)
           /\ s.ret = "suback" /\ s.pc = "saved" /\ ~Object(s).temp /\ c \notin superseded
        \/ kept' = kept
        BY <1>4 DEF Answer, Pairs, Mine, Object
  <2>3. /\ Becomes(c, t) /\ t.cur = {} /\ t.ret = "loop"
        /\ \/ t.pc = "loop" /\ t.client = k /\ t.obj = s.obj /\ s.ret # "done"
           \/ t = Done /\ t.pc = "done" /\ t.obj = Nil /\ s.ret = "done"
    <3>1. CASE s.ret = "done" /\ End(c)
          BY <1>1, <3>1, Gone DEF Becomes
    <3>2. CASE s.ret # "done" /\ Loop(c, s.obj)
          BY <1>1, <1>2, <3>2, Looped
    <3> QED
        BY <2>1, <3>1, <3>2
  <2>4. s.request \in SUBSET Topic
        BY <1>2 DEF HandlerState
  <2>5. Types'
    <3>1. kept' \subseteq Client \X Topic
          BY <1>1, <1>2, <2>2, <2>4 DEF Types
    <3> QED
        BY <1>1, <2>1, <2>3, <3>1 DEF Types, Becomes
  <2>6. Touches(c, t)
    <3>1. \A j \in Client \ {k} : Kept(j)' = Kept(j)
          BY <2>2 DEF Kept
    <3> QED
        BY <1>1, <1>2, <2>1, <2>3, <3>1 DEF Types, Touches, Becomes, Routed, Faultless
  <2>7. Allocates(c, t)
        BY <1>1, <1>2, <2>1, <2>3 DEF Types, Allocates
  <2>8. PlaceOK(t, heap'[t.obj].temp)
        BY <1>2, <2>1, <2>3 DEF PlaceOK, Object, Early, Drops, Saves, Holding
  <2>9. /\ sessions'[k] # Nil => heap'[sessions'[k]].temp
        /\ cache'[k] # Nil => ~heap'[cache'[k]].temp
        BY <1>1, <1>2, <2>1 DEF IInv, Types, Kinds
  <2>10. ASSUME c \notin superseded, k \notin unsettled'
         PROVE /\ StoresOK(k, t.pc \in Holding)' /\ (t.pc # "done" => HandlerOK(t, k)')
               /\ Together(s, t, k)
    <3>1. /\ StoresOK(k, TRUE) /\ AskedOK(s, k)
          /\ IF Object(s).temp THEN TemporaryOK(s, k) ELSE LastingOK(s, k)
          /\ UNCHANGED <<sessions[k], cache[k], docs[k], heap, Routed(k), Faultless>>
          BY <1>1, <1>2, <2>1, <2>10 DEF Routed, Faultless, Types
    <3>5. Known(s, k) = docs[k].subs \cup Object(s).subs \cup s.cur
          BY <1>2, <3>1, KnownIs
    <3>6. Faultless => /\ s.cur \subseteq Object(s).subs
                       /\ s.ret = "done" => ~Object(s).temp /\ Object(s).subs \subseteq docs[k].subs
          BY <1>1, <1>2, <3>1 DEF AskedOK, LastingOK, PlaceOK, Saves
    <3>7. Together(s, t, k)
      <4>1. CASE t.pc = "loop"
        <5>1. Faultless' => Routed(k)' \ (docs'[k].subs \cup Object(t)'.subs \cup t.cur)
                                \subseteq Routed(k) \ (docs[k].subs \cup Object(s).subs \cup s.cur)
              BY <2>1, <2>3, <3>1, <3>6, <4>1 DEF Object
        <5>2. Faultless' => docs'[k].subs \ Routed(k)' \subseteq docs[k].subs \ Routed(k)
              BY <3>1
        <5> QED
            BY <1>2, <2>3, <3>1, <4>1, <5>1, <5>2, Remains
      <4>2. CASE t.pc = "done"
        <5>1. s.ret = "done"
              BY <2>3, <4>2
        <5>2. docs[k].subs \subseteq Known(t, k)'
              BY <3>1 DEF Known
        <5> QED
            BY <3>1, <3>5, <3>6, <5>1, <5>2 DEF Together
      <4> QED
          BY <2>3, <4>1, <4>2
    <3>2. CASE t.pc = "done"
      <4>1. StoresOK(k, FALSE)
            BY <1>1, <2>3, <3>1, <3>2, Waiting, <1>2 DEF AskedOK
      <4>2. Kept(k)' = Kept(k)
            BY <2>2, <2>3, <3>2 DEF Kept
      <4> QED
          BY <3>7, <3>1, <3>2, <4>1, <4>2 DEF StoresOK, Holding
    <3>3. CASE t.pc = "loop" /\ Object(s).temp
      <4>1. Kept(k)' = Kept(k) /\ Object(t)' = Object(s)
            BY <2>2, <2>1, <2>3, <3>3 DEF Kept, Object
      <4>2. StoresOK(k, t.pc \in Holding)'
            BY <3>1, <3>3, <4>1 DEF StoresOK, Holding
      <4>3. AskedOK(t, k)' /\ TemporaryOK(t, k)'
            BY <1>1, <2>3, <3>1, <3>3, <4>1 DEF AskedOK, TemporaryOK
      <4> QED
          BY <3>7, <3>3, <4>1, <4>2, <4>3 DEF HandlerOK, Holding
    <3>4. CASE t.pc = "loop" /\ ~Object(s).temp
      <4>1. Object(t)' = Object(s) /\ t.obj = s.obj
            BY <2>1, <2>3, <3>4 DEF Object
      <4>2. Kept(k) \subseteq Kept(k)' /\ Kept(k)' \subseteq Object(s).subs
            BY <1>2, <2>2, <2>4, <3>1, <3>4 DEF Kept, LastingOK, AskedOK
      <4>3. /\ Kept(k)' # {} => docs[k].stored
            /\ Kept(k)' \subseteq docs[k].subs
            /\ Faultless => Kept(k)' \subseteq Routed(k)
        <5>1. CASE kept' = kept
              BY <3>1, <5>1 DEF StoresOK, Kept
        <5>2. CASE kept' # kept
          <6>1. s.pc = "saved" /\ s.ret = "suback" /\ Kept(k)' = Kept(k) \cup s.request
                BY <2>2, <2>4, <5>2 DEF Kept
          <6>2. docs[k].stored /\ docs[k].subs = Object(s).subs
                BY <3>1, <3>4, <6>1 DEF LastingOK
          <6> QED
              BY <3>1, <4>2, <6>1, <6>2 DEF StoresOK, AskedOK
        <5> QED
            BY <5>1, <5>2
      <4>4. StoresOK(k, t.pc \in Holding)'
            BY <3>1, <3>4, <4>2, <4>3 DEF StoresOK, LastingOK, Holding, Object
      <4>5. Faultless => s.pc = "saved" /\ docs[k].subs = Object(s).subs
            BY <1>1, <3>1, <3>4 DEF AskedOK, LastingOK
      <4>6. AskedOK(t, k)' /\ LastingOK(t, k)'
            BY <2>3, <3>1, <3>4, <4>1, <4>2, <4>5 DEF AskedOK, LastingOK
      <4> QED
          BY <3>7, <3>4, <4>1, <4>4, <4>6 DEF HandlerOK, Holding
    <3> QED
        BY <2>3, <3>2, <3>3, <3>4
  <2>11. c \in superseded /\ k \notin unsettled' => t = Done /\ UNCHANGED <<stores, kept>>
         BY <1>2, <2>1
  <2> QED
      BY <1>1, <1>2, <2>5, <2>6, <2>7, <2>8, <2>9, <2>10, <2>11, Step DEF Moves
<1> QED
    BY <1>3, <1>4

LEMMA ConnectStep ==
    ASSUME IInv, NEW c \in Conn, Connect(c)
    PROVE  IInv'
<1>1. th[c].pc = "ready" /\ th[c] \in HandlerState /\ th[c].obj = Nil /\ th[c].ret = "loop"
      /\ th[c].cur = {} /\ Types /\ th \in [Conn -> HandlerState]
      BY DEF Connect, At, IInv, Types, Places, PlaceOK
<1>2. PICK k \in Client, clean \in BOOLEAN :
          /\ th' = [th EXCEPT ![c].client = k, ![c].clean = clean,
                              ![c].pc = IF clean THEN "dropMap" ELSE "lookup",
                              ![c].ret = "create"]
          /\ superseded' = superseded \cup Others(k)
          /\ unsettled' = unsettled \cup {K(d) : d \in {e \in Others(k) : Busy(e)}}
          /\ kept' = IF clean THEN {x \in kept : x[1] # k} ELSE kept
      BY DEF Connect
<1>3. UNCHANGED <<sessions, cache, docs, heap, tree, up, spent>>
      BY DEF Connect, stores
<1>4. /\ DOMAIN th' = Conn /\ \A d \in Conn \ {c} : th'[d] = th[d]
      /\ th'[c] = [th[c] EXCEPT !.client = k, !.clean = clean,
                                !.pc = IF clean THEN "dropMap" ELSE "lookup", !.ret = "create"]
      BY <1>1, <1>2
<1>5. PICK t : t = th'[c]
      OBVIOUS
<1>6. /\ t.client = k /\ t.clean = clean /\ t.pc = (IF clean THEN "dropMap" ELSE "lookup")
      /\ t.ret = "create" /\ t.obj = Nil /\ t.cur = {}
      BY <1>1, <1>4, <1>5 DEF HandlerState
<1>7. t \in HandlerState
      BY <1>1, <1>4, <1>5, LabelsAre DEF HandlerState
<1>8. th' = [th EXCEPT ![c] = t]
      BY <1>1, <1>2, <1>4, <1>5
<1>9. \A d \in Conn : th'[d].obj = th[d].obj
      BY <1>1, <1>4, <1>5, <1>6
<1>10. /\ c \notin Others(k) /\ c \notin superseded /\ Live(c)' /\ K(c)' = k
       /\ \A d \in Conn \ {c} : (Live(d)' <=> Live(d)) /\ K(d)' = K(d)
       BY <1>1, <1>4, <1>5, <1>6 DEF Live, K, Others, IInv, Left
<1>11. /\ superseded' = superseded \cup Others(k) /\ Others(k) \subseteq Conn
       /\ unsettled \subseteq unsettled' /\ unsettled' \subseteq unsettled \cup {k}
       /\ k \notin unsettled' => \A d \in Others(k) : th[d].pc = "loop"
       BY <1>2 DEF Others, Busy
<1>12. /\ kept' \subseteq kept /\ (clean => Kept(k)' = {})
       /\ ~clean => Kept(k)' = Kept(k)
       /\ \A j \in Client \ {k} : Kept(j)' = Kept(j)
       BY <1>1, <1>2 DEF Kept
<1>13. Types'
       BY <1>1, <1>3, <1>7, <1>8, <1>11, <1>12 DEF Types
<1>14. Places'
  <2>1. PlaceOK(t, heap'[t.obj].temp)
        BY <1>6 DEF PlaceOK, Early, Drops, Holding, Saves
  <2>2. \A d \in Conn \ {c} : PlaceOK(th[d], heap[th[d].obj].temp)
        BY DEF IInv, Places, Mine
  <2> QED
      BY <1>3, <1>4, <1>5, <2>1, <2>2 DEF Places, Mine
<1>15. \A j \in Client, o \in Conn : Refers(j, o)' => Refers(j, o)
  <2>1. \A d \in Conn, o \in Conn : th'[d].obj = o => d # c
        BY <1>5, <1>6 DEF SessionAssumption
  <2> QED
      BY <1>3, <1>4, <2>1 DEF Refers, K
<1>16. Kinds' /\ Owned' /\ Fresh'
  <2>1. Kinds'
        BY <1>3 DEF IInv, Kinds
  <2>2. Owned'
        BY <1>15 DEF IInv, Owned
  <2>3. ASSUME NEW d \in Conn, th'[d].pc # "done", th'[d].obj = Nil
        PROVE  th[d].pc # "done" /\ th[d].obj = Nil
        BY <1>1, <1>4, <1>9, <2>3
  <2> QED
      BY <1>15, <2>1, <2>2, <2>3 DEF IInv, Fresh
<1>17. Sole'
  <2> SUFFICES ASSUME NEW d \in Conn, NEW e \in Conn, d \notin superseded', e \notin superseded',
                      Live(d)', Live(e)', K(d)' = K(e)'
               PROVE  d = e
      BY DEF Sole
  <2>1. \A b \in Conn \ {c} : Live(b)' /\ K(b)' = k => b \in superseded'
        BY <1>10, <1>11 DEF Others
  <2>2. CASE d # c /\ e # c
        BY <1>10, <1>11, <2>2 DEF IInv, Sole
  <2>3. CASE d = c \/ e = c
        BY <1>10, <2>1, <2>3
  <2> QED
      BY <2>2, <2>3
<1>18. Left'
  <2> SUFFICES ASSUME NEW d \in superseded'
               PROVE /\ th'[d].pc # "ready"
                     /\ Live(d)' /\ K(d)' \notin unsettled' => th'[d].pc = "loop"
      BY DEF Left
  <2>1. d \in Conn /\ d # c /\ th'[d] = th[d]
        BY <1>1, <1>4, <1>10, <1>11 DEF Types
  <2>2. CASE d \in superseded
        BY <1>10, <1>11, <2>1, <2>2 DEF IInv, Left
  <2>3. CASE d \in Others(k)
        BY <1>10, <1>11, <2>1, <2>3 DEF Others, Live
  <2> QED
      BY <1>11, <2>2, <2>3
<1>19. /\ \A j \in Client : UNCHANGED <<sessions[j], cache[j], docs[j], Routed(j)>>
       /\ Faultless' = Faultless
       BY <1>3 DEF Routed, Faultless
<1>20. ASSUME NEW j \in Client \ unsettled', j # k
       PROVE  Settled(j)'
  <2>1. Settled(j) /\ Kept(j)' = Kept(j)
        BY <1>11, <1>12, <1>20 DEF IInv
  <2>2. Current(j)' = Current(j) /\ \A d \in Current(j) : d \in Conn \ {c} /\ th'[d] = th[d]
        BY <1>1, <1>4, <1>10, <1>11, <1>20 DEF Current, Others, Live
  <2>3. Held(j)' = Held(j)
        BY <2>2 DEF Held
  <2>4. StoresOK(j, Held(j))'
        BY <1>3, <1>19, <2>1, <2>3 DEF Settled, StoresOK
  <2>5. ASSUME NEW d \in Current(j) PROVE HandlerOK(th[d], j)'
        BY <1>3, <1>19, <2>1, <2>2, <2>5
           DEF Settled, HandlerOK, SeekerOK, AskedOK, TemporaryOK, LastingOK, Object
  <2> QED
      BY <2>2, <2>4, <2>5 DEF Settled
<1>21. ASSUME k \notin unsettled'
       PROVE  Settled(k)'
  <2>1. Settled(k) /\ \A d \in Current(k) : th[d].pc = "loop"
        BY <1>11, <1>21 DEF IInv, Current
  <2>2. Current(k)' = {c}
        BY <1>10, <1>11 DEF Current, Others
  <2>3. StoresOK(k, FALSE)
    <3>1. CASE ~Held(k)
          BY <2>1, <3>1 DEF Settled, StoresOK
    <3>2. CASE Held(k)
      <4>1. PICK d \in Current(k) : th[d].pc = "loop"
            BY <2>1, <3>2 DEF Held
      <4>2. PICK s : s = th[d]
            OBVIOUS
      <4>3. HandlerOK(s, k) /\ s.ret = "loop" /\ s.pc = "loop"
            BY <2>1, <4>1, <4>2 DEF Settled, IInv, Places, PlaceOK, Current, Others
      <4>4. StoresOK(k, TRUE)
            BY <2>1, <3>2 DEF Settled, StoresOK
      <4> QED
          BY <4>3, <4>4, Waiting DEF HandlerOK, Holding
    <3> QED
        BY <3>1, <3>2
  <2>4. Held(k)' = FALSE
        BY <1>5, <1>6, <2>2 DEF Held, Holding
  <2>5. Kept(k)' \subseteq Kept(k)
        BY <1>12
  <2>6. StoresOK(k, Held(k))'
        BY <1>3, <1>19, <2>3, <2>4, <2>5 DEF StoresOK
  <2>7. HandlerOK(th[c], k)'
        BY <1>5, <1>6, <1>12 DEF HandlerOK, SeekerOK, Holding, Drops
  <2> QED
      BY <2>2, <2>6, <2>7 DEF Settled
<1> QED
    BY <1>13, <1>14, <1>16, <1>17, <1>18, <1>20, <1>21 DEF IInv

(***************************************************************************)
(* The steps that leave the handlers alone.                                *)
(***************************************************************************)
LEMMA Still ==
    ASSUME IInv, UNCHANGED <<sessions, docs, heap, tree, th, kept, superseded, unsettled>>,
           Faultless' = Faultless, Types', \A k \in Client : cache'[k] \in {cache[k], Nil}
    PROVE  IInv'
<1>1. Places' /\ Sole' /\ Left'
      BY DEF IInv, Places, Sole, Left, Mine, Live, K
<1>2. \A k \in Client, o \in Conn : Refers(k, o)' => Refers(k, o)
      BY DEF Refers, K, SessionAssumption
<1>3. Kinds' /\ Owned' /\ Fresh'
      BY <1>2 DEF IInv, Kinds, Owned, Fresh
<1>4. ASSUME NEW k \in Client \ unsettled PROVE Settled(k)'
  <2>1. Settled(k) /\ Current(k)' = Current(k) /\ Held(k)' = Held(k)
        BY DEF IInv, Current, Others, Live, K, Held
  <2>2. UNCHANGED <<sessions[k], docs[k], Kept(k), Routed(k)>> /\ cache'[k] \in {cache[k], Nil}
        BY DEF Kept, Routed
  <2>3. StoresOK(k, Held(k))'
        BY <2>1, <2>2 DEF Settled, StoresOK
  <2>4. ASSUME NEW d \in Current(k) PROVE HandlerOK(th[d], k)'
        BY <2>1, <2>2, <2>4
           DEF Settled, HandlerOK, SeekerOK, AskedOK, TemporaryOK, LastingOK, Object
  <2> QED
      BY <2>1, <2>3, <2>4 DEF Settled
<1> QED
    BY <1>1, <1>3, <1>4 DEF IInv

LEMMA EvictStep ==
    ASSUME IInv, NEW k \in Client, Evict(k)
    PROVE  IInv'
<1>1. /\ UNCHANGED <<sessions, docs, heap, tree, th, up, spent, kept, superseded, unsettled>>
      /\ cache' = [cache EXCEPT ![k] = Nil]
      BY DEF Evict, history
<1>2. Types' /\ \A j \in Client : cache'[j] \in {cache[j], Nil}
      BY <1>1 DEF IInv, Types
<1> QED
    BY <1>1, <1>2, Still DEF Faultless

LEMMA RestartStep ==
    ASSUME IInv, Restart
    PROVE  IInv'
<1>1. UNCHANGED <<sessions, cache, docs, heap, tree, th, kept, superseded, unsettled>>
      BY DEF Restart, stores, history
<1>2. spent' \in [errors : Nat, restarts : Nat, packets : Nat] /\ spent'.errors = spent.errors
      BY DEF Restart, IInv, Types
<1>3. Types'
      BY <1>1, <1>2 DEF Restart, IInv, Types
<1> QED
    BY <1>1, <1>2, <1>3, Still DEF Faultless

LEMMA Unchanged ==
    ASSUME IInv, UNCHANGED vars
    PROVE  IInv'
<1>1. UNCHANGED <<sessions, cache, docs, heap, tree, th, up, spent, kept, superseded, unsettled>>
      BY DEF vars, stores, history
<1>2. Types'
      BY <1>1 DEF IInv, Types
<1> QED
    BY <1>1, <1>2, Still DEF Faultless
-----------------------------------------------------------------------------
(***************************************************************************)
(* All steps together.                                                     *)
(***************************************************************************)
LEMMA HandlerStep ==
    ASSUME IInv, NEW c \in Conn, NEW k, NEW s, NEW t, k = K(c), s = th[c], t = th'[c],
           Handler(c), ~Connect(c)
    PROVE  IInv' /\ (up' => Moves(c, k, s, t))
<1>1. CASE DropMap(c) \/ DropCache(c) \/ DropDoc(c)
      BY <1>1, DropMapStep, DropCacheStep, DropDocStep
<1>2. CASE Lookup(c) \/ LookupCache(c) \/ Find(c) \/ Fill(c) \/ Create(c)
      BY <1>2, LookupStep, LookupCacheStep, FindStep, FillStep, CreateStep
<1>3. CASE Save(c) \/ Encode(c) \/ ReplaceOne(c) \/ ReplaceFails(c) \/ Recache(c) \/ Answer(c)
      BY <1>3, SaveStep, EncodeStep, ReplaceOneStep, ReplaceFailsStep,
           RecacheStep, AnswerStep
<1>4. CASE Subscribe(c) \/ Insert(c) \/ Record(c)
      BY <1>4, SubscribeStep, InsertStep, RecordStep
<1>5. CASE Unsubscribe(c) \/ Delete(c) \/ Forget(c) \/ Publish(c)
      BY <1>5, UnsubscribeStep, DeleteStep, ForgetStep, PublishStep
<1>6. CASE Disconnect(c) \/ Clear(c) \/ Hangup(c)
      BY <1>6, DisconnectStep, ClearStep, HangupStep
<1> QED
    BY <1>1, <1>2, <1>3, <1>4, <1>5, <1>6 DEF Handler

LEMMA NextStep ==
    ASSUME IInv, [Next]_vars
    PROVE  IInv'
<1>1. ASSUME NEW c \in Conn, Handler(c) PROVE IInv'
  <2>1. PICK k, s, t : k = K(c) /\ s = th[c] /\ t = th'[c]
        OBVIOUS
  <2> QED
      BY <1>1, <2>1, HandlerStep, ConnectStep
<1>2. ASSUME NEW k \in Client, Evict(k) PROVE IInv'
      BY <1>2, EvictStep
<1>3. CASE Kill
  <2>1. UNCHANGED <<docs, tree, spent, kept, superseded, unsettled>> /\ Stop
        BY <1>3 DEF Kill, history
  <2> QED
      BY <2>1, Stopped
<1>4. CASE Restart
      BY <1>4, RestartStep
<1>5. CASE Rest \/ UNCHANGED vars
      BY <1>5, Unchanged DEF Rest
<1> QED
    BY <1>1, <1>2, <1>3, <1>4, <1>5 DEF Next

THEOREM Invariant == Spec => []IInv
<1>1. Init => IInv
      BY Initially
<1>2. IInv /\ [Next]_vars => IInv'
      BY NextStep
<1> QED
    BY <1>1, <1>2, PTL DEF Spec
-----------------------------------------------------------------------------
(***************************************************************************)
(* Types: what the map and the cache refer to is of the right kind, and a  *)
(* handler in the loop has a session and a client.                         *)
(***************************************************************************)
THEOREM TypeCorrect == Spec => []TypeOK
<1>1. IInv => TypeOK
  <2> SUFFICES ASSUME IInv PROVE TypeOK
      OBVIOUS
  <2>1. Types /\ Kinds
        BY DEF IInv
  <2>2. ASSUME NEW c \in Conn PROVE IsHandler(th[c])
    <3>1. th[c] \in HandlerState /\ PlaceOK(th[c], Mine(c).temp)
          BY <2>1 DEF Types, IInv, Places
    <3> QED
        BY <3>1 DEF IsHandler, HandlerState, PlaceOK
  <2> QED
      BY <2>1, <2>2 DEF TypeOK, Types, Kinds
<1> QED
    BY <1>1, Invariant, PTL

(***************************************************************************)
(* A subscription that SUBACK acknowledged for a lasting session and that  *)
(* was not withdrawn is in the stored session, however many handlers,      *)
(* evictions, failing saves and restarts there are.                        *)
(***************************************************************************)
THEOREM AcknowledgedIsStored == Spec => []KeptIsStored
<1>1. IInv => KeptIsStored
  <2> SUFFICES ASSUME IInv, NEW x \in kept, x[1] \notin unsettled
               PROVE  docs[x[1]].stored /\ x[2] \in docs[x[1]].subs
      BY DEF KeptIsStored
  <2>1. x[1] \in Client /\ x[2] \in Topic /\ x = <<x[1], x[2]>>
        BY DEF IInv, Types
  <2>2. x[2] \in Kept(x[1])
        BY <2>1 DEF Kept
  <2> QED
      BY <2>1, <2>2 DEF IInv, Settled, StoresOK
<1> QED
    BY <1>1, Invariant, PTL

(***************************************************************************)
(* Without failing database calls it is in the topic tree as well, so that *)
(* the client's messages reach it.                                         *)
(***************************************************************************)
THEOREM AcknowledgedIsRouted == Spec => []KeptIsRouted
<1>1. IInv => KeptIsRouted
  <2> SUFFICES ASSUME IInv, spent.errors = 0, NEW x \in kept, x[1] \notin unsettled
               PROVE  x \in tree
      BY DEF KeptIsRouted
  <2>1. x[1] \in Client /\ x[2] \in Topic /\ x = <<x[1], x[2]>>
        BY DEF IInv, Types
  <2>2. x[2] \in Kept(x[1])
        BY <2>1 DEF Kept
  <2>3. x[2] \in Routed(x[1])
        BY <2>1, <2>2 DEF IInv, Settled, StoresOK, Faultless
  <2> QED
      BY <2>1, <2>3 DEF Routed
<1> QED
    BY <1>1, Invariant, PTL

(***************************************************************************)
(* A client has not both a temporary session in the map and a stored one,  *)
(* so that DeleteSession may stop at the map.                              *)
(***************************************************************************)
THEOREM OneKindOfSession == Spec => []OneSession
<1>1. IInv => OneSession
      BY DEF IInv, Settled, StoresOK, Faultless, OneSession
<1> QED
    BY <1>1, Invariant, PTL

(***************************************************************************)
(* What the cache holds for a client is the object its handler works on.   *)
(***************************************************************************)
THEOREM CacheHoldsCurrent == Spec => []CacheIsCurrent
<1>1. IInv => CacheIsCurrent
  <2> SUFFICES ASSUME IInv, NEW c \in Conn \ superseded, th[c].pc \in Holding, K(c) \notin unsettled
               PROVE  cache[K(c)] \in {Nil, th[c].obj}
      BY DEF CacheIsCurrent
  <2>1. PICK k, s : k = K(c) /\ s = th[c]
        OBVIOUS
  <2>2. k \in Client /\ s.pc \notin {"ready", "done"}
        BY <2>1, AtWork DEF Holding
  <2>3. IF Object(s).temp THEN TemporaryOK(s, k) ELSE LastingOK(s, k)
        BY <2>1, Working
  <2> QED
      BY <2>1, <2>3 DEF TemporaryOK, LastingOK
<1> QED
    BY <1>1, Invariant, PTL

(***************************************************************************)
(* When a temporary session ends with DISCONNECT, its subscriptions are    *)
(* out of the topic tree.                                                  *)
(***************************************************************************)
LEMMA EndOfTemporary ==
    ASSUME IInv, [Next]_vars, NEW c \in Conn, Ends(c), Mine(c).temp,
           K(c) \notin unsettled, spent.errors = 0
    PROVE  \A f \in Mine(c).subs : <<K(c), f>> \notin tree'
<1>1. PICK k, s, t : k = K(c) /\ s = th[c] /\ t = th'[c]
      OBVIOUS
<1>2. s.ret = "done" /\ t.pc = "done" /\ up' /\ Object(s).temp
      BY <1>1 DEF Ends, Mine, Object
<1>3. s.pc \in Drops \cup {"clear"} /\ PlaceOK(s, Object(s).temp) /\ s \in HandlerState
  <2>1. s \in HandlerState /\ PlaceOK(s, Object(s).temp)
        BY <1>1 DEF IInv, Types, Places, Mine, Object
  <2>2. s.pc \in Labels
        BY <2>1 DEF HandlerState
  <2> QED
      BY <1>2, <2>1, <2>2, LabelsAre DEF PlaceOK, Drops, Saves, Early
<1>4. /\ k \in Client /\ c \notin superseded
      /\ s.pc \in Drops => StoresOK(k, FALSE) /\ SeekerOK(s, k)
  <2>1. s.pc \notin {"ready", "done", "loop"} /\ (s.pc \in Drops => s.pc \notin Holding)
        BY <1>3 DEF Drops, Holding
  <2>2. k \in Client /\ c \notin superseded
        BY <1>1, <2>1, AtWork
  <2> QED
      BY <1>1, <2>1, <2>2, Seeking
<1>5. DropMap(c) \/ DropCache(c) \/ DropDoc(c) \/ Clear(c)
  <2>1. \A d \in Conn \ {c} : ~Handler(d)
    <3> SUFFICES ASSUME NEW d \in Conn \ {c}, Handler(d) PROVE th'[c] = th[c]
        BY <1>1, <1>2, <1>3 DEF Drops
    <3>1. CASE Connect(d)
      <4>1. th \in [Conn -> HandlerState]
            BY DEF IInv, Types
      <4> QED
          BY <3>1, <4>1 DEF Connect
    <3>2. CASE ~Connect(d)
      <4>1. PICK j, e, f : j = K(d) /\ e = th[d] /\ f = th'[d]
            OBVIOUS
      <4>2. Touches(d, f)
            BY <1>2, <3>2, <4>1, HandlerStep DEF Moves
      <4> QED
          BY <4>2 DEF Touches, IInv, Types
    <3> QED
        BY <3>1, <3>2
  <2>2. Handler(c)
    <3>1. th' # th
          BY <1>1, <1>2, <1>3 DEF Drops
    <3> QED
        BY <1>2, <2>1, <3>1 DEF Next, Evict, Kill, Stop, Restart, Rest, vars, history, stores
  <2> QED
      BY <1>1, <1>3, <2>2 DEF Handler, At, Packet, Drops, Connect, Lookup, LookupCache, Find, Fill,
         Create, Save, Encode, ReplaceOne, ReplaceFails, Recache, Answer, Subscribe, Insert, Record,
         Unsubscribe, Delete, Forget, Publish, Disconnect, Hangup
<1>6. ~Clear(c)
  <2> SUFFICES ASSUME Clear(c) PROVE t.pc # "done"
      BY <1>2
  <2>1. Types
        BY DEF IInv
  <2>2. CASE Goto(c, "dropMap")
        BY <1>1, <2>1, <2>2, Moved, LabelsAre
  <2>3. ASSUME NEW f \in s.todo, Take(c, f, "clear") PROVE t.pc # "done"
        BY <1>1, <2>1, <2>3, Taken, LabelsAre
  <2> QED
      BY <1>1, <2>2, <2>3 DEF Clear
<1>7. tree' = tree /\ s.pc \in Drops
      BY <1>1, <1>5, <1>6 DEF DropMap, DropCache, DropDoc, Drops, At
<1>8. Object(s).subs \cap Routed(k) = {} /\ Object(s).subs \subseteq Topic
  <2>1. s.obj \in Conn
        BY <1>2, <1>3, <1>7 DEF PlaceOK, HandlerState
  <2>2. Object(s).subs \subseteq Topic
        BY <2>1 DEF IInv, Types, Object, Session
  <2> QED
      BY <1>2, <1>4, <1>7, <2>2 DEF SeekerOK, Faultless
<1> QED
    BY <1>1, <1>7, <1>8 DEF Routed, Mine, Object

THEOREM DisconnectClears == Spec => DisconnectCleans
<1>1. IInv /\ [Next]_vars => [Cleaned]_vars
      BY EndOfTemporary DEF Cleaned
<1> QED
    BY <1>1, Invariant, PTL DEF Spec, DisconnectCleans

-----------------------------------------------------------------------------
(***************************************************************************)
(* What is recorded for a client that has one current handler, or none.    *)
(***************************************************************************)
LEMMA RecordedIs ==
    ASSUME NEW k \in Client, NEW c \in Conn, NEW t
    PROVE  /\ Current(k) = {c} /\ t = th[c] => Recorded(k) = Known(t, k)
           /\ Current(k) = {} /\ t.obj = Nil /\ t.cur = {} => Recorded(k) = Known(t, k)
BY DEF Recorded, Objects, Known, Subs

\* The same of the state after a step.
LEMMA RecordedThen ==
    ASSUME NEW k \in Client, NEW c \in Conn, NEW t
    PROVE  /\ Current(k)' = {c} /\ t = th'[c] => Recorded(k)' = Known(t, k)'
           /\ Current(k)' = {} /\ t.obj = Nil /\ t.cur = {} => Recorded(k)' = Known(t, k)'
BY DEF Recorded, Objects, Known, Subs

\* A step that changes nothing of a client sets nothing apart.
LEMMA CausedFrame ==
    ASSUME NEW k \in Client, Current(k)' = Current(k),
           \A d \in Current(k) : th'[d] = th[d], \A o \in Objects(k) : heap'[o] = heap[o],
           sessions'[k] = sessions[k], cache'[k] = cache[k], docs'[k] = docs[k],
           Routed(k)' = Routed(k)
    PROVE  Caused(k)
<1>1. Objects(k)' = Objects(k)
      BY DEF Objects
<1>2. Recorded(k)' = Recorded(k)
      BY <1>1 DEF Recorded
<1> QED
    BY <1>2 DEF Caused, Orphans, Ghosts

LEMMA ObjectsRefer ==
    ASSUME IInv, NEW k \in Client, NEW o \in Objects(k)
    PROVE  o \in Conn /\ Refers(k, o)
BY DEF IInv, Types, Objects, Current, Others, Refers, HandlerState

(***************************************************************************)
(* One step sets the topic tree and what is recorded apart for the causes  *)
(* the property names.                                                     *)
(***************************************************************************)
LEMMA CausedByHandler ==
    ASSUME IInv, NEW c \in Conn, Handler(c), ~Connect(c), up', Faultless',
           NEW j \in Client \ unsettled'
    PROVE  Caused(j)
<1>1. PICK k, s, t : k = K(c) /\ s = th[c] /\ t = th'[c]
      OBVIOUS
<1>2. Moves(c, k, s, t)
      BY <1>1, HandlerStep
<1>3. /\ Live(c) /\ k \in Client /\ Touches(c, t) /\ Allocates(c, t)
      /\ \A d \in Conn \ {c} : th'[d] = th[d]
      BY <1>1, <1>2, Bystanders DEF Moves
<1>4. Live(c)' => K(c)' = k
      BY <1>1, <1>3 DEF Live, K, Touches, Done, Ready
<1>5. \A d \in Conn \ {c} : d \in Current(j)' <=> d \in Current(j)
      BY <1>3 DEF Current, Others, Live, K, Touches
<1>6. CASE j # k \/ c \in superseded
  <2>1. c \notin Current(j) /\ c \notin Current(j)'
        BY <1>1, <1>3, <1>4, <1>6 DEF Current, Others, Touches
  <2>2. Current(j)' = Current(j) /\ \A d \in Current(j) : th'[d] = th[d]
        BY <1>3, <1>5, <2>1 DEF Current, Others
  <2>3. /\ sessions'[j] = sessions[j] /\ cache'[j] = cache[j] /\ docs'[j] = docs[j]
        /\ Routed(j)' = Routed(j)
    <3>1. CASE j # k
          BY <1>1, <1>3, <3>1 DEF Touches
    <3>2. CASE j = k
          BY <1>2, <1>6, <3>2 DEF Moves, stores, Routed
    <3> QED
        BY <3>1, <3>2
  <2>4. \A o \in Objects(j) : heap'[o] = heap[o]
    <3>1. CASE j # k
          BY <1>1, <1>3, <3>1, Bystanders, ObjectsRefer
    <3>2. CASE j = k
          BY <1>2, <1>6, <3>2 DEF Moves, stores
    <3> QED
        BY <3>1, <3>2
  <2> QED
      BY <2>2, <2>3, <2>4, CausedFrame
<1>7. CASE j = k /\ c \notin superseded
  <2>1. Current(k) = {c}
        BY <1>1, <1>3, <1>7 DEF IInv, Sole, Current, Others
  <2>2. Recorded(k) = Known(s, k)
        BY <1>1, <1>3, <2>1, RecordedIs
  <2>3. Recorded(k)' = Known(t, k)'
    <3>1. Current(k)' \subseteq {c}
          BY <1>5, <1>7, <2>1 DEF Current, Others
    <3>2. CASE t = Done
      <4>1. t.obj = Nil /\ t.cur = {} /\ ~Live(c)'
            BY <1>1, <3>2 DEF Done, Ready, Live
      <4>2. Current(k)' = {}
            BY <3>1, <4>1 DEF Current, Others
      <4> QED
          BY <1>3, <4>1, <4>2, RecordedThen
    <3>3. CASE t # Done
      <4>1. Live(c)' /\ K(c)' = k /\ c \notin superseded'
            BY <1>1, <1>3, <1>7, <3>3 DEF Touches, Live, K
      <4>2. Current(k)' = {c}
            BY <3>1, <4>1 DEF Current, Others
      <4> QED
          BY <1>1, <1>3, <4>2, RecordedThen
    <3> QED
        BY <3>2, <3>3
  <2>4. /\ s.ret = "create" \/ Routed(k)' \ Known(t, k)' \subseteq Routed(k) \ Known(s, k)
        /\ s.pc = "delete" \/ docs'[k].subs \ Routed(k)' \subseteq docs[k].subs \ Routed(k)
        BY <1>2, <1>7 DEF Moves, Together
  <2>5. /\ s.ret = "create" \/ Orphans(k)' \subseteq Orphans(k)
        /\ s.pc = "delete" \/ Ghosts(k)' \subseteq Ghosts(k)
        BY <2>2, <2>3, <2>4 DEF Orphans, Ghosts
  <2> QED
      BY <1>1, <1>7, <2>1, <2>5 DEF Caused
<1> QED
    BY <1>6, <1>7

\* What the handler that leaves its place to a new one knew is still recorded.
LEMMA CausedByConnect ==
    ASSUME IInv, NEW c \in Conn, Connect(c), Faultless', NEW j \in Client \ unsettled'
    PROVE  Caused(j)
<1>1. PICK k \in Client, clean \in BOOLEAN :
          /\ th' = [th EXCEPT ![c].client = k, ![c].clean = clean,
                              ![c].pc = IF clean THEN "dropMap" ELSE "lookup",
                              ![c].ret = "create"]
          /\ superseded' = superseded \cup Others(k)
          /\ unsettled' = unsettled \cup {K(d) : d \in {e \in Others(k) : Busy(e)}}
      BY DEF Connect
<1>2. /\ UNCHANGED <<sessions, cache, docs, heap, tree, spent>> /\ th[c].pc = "ready"
      /\ th \in [Conn -> HandlerState] /\ th[c].obj = Nil /\ th[c].cur = {}
      BY DEF Connect, At, stores, IInv, Types, Places, PlaceOK
<1>3. \A d \in Conn \ {c} : th'[d] = th[d]
      BY <1>1, <1>2
<1>4. PICK t : t = th'[c]
      OBVIOUS
<1>5. t.client = k /\ t.pc \notin {"ready", "done"} /\ t.obj = Nil /\ t.cur = {}
      BY <1>1, <1>2, <1>4 DEF HandlerState
<1>6. /\ c \notin Others(k) /\ c \notin superseded /\ Live(c)' /\ K(c)' = k
      /\ ~Live(c) /\ \A d \in Conn \ {c} : (Live(d)' <=> Live(d)) /\ K(d)' = K(d)
      BY <1>2, <1>3, <1>4, <1>5 DEF Live, K, Others, IInv, Left
<1>7. Routed(j)' = Routed(j) /\ j \notin unsettled /\ Faultless
      BY <1>1, <1>2 DEF Routed, Faultless
<1>8. CASE j # k
  <2>1. Current(j)' = Current(j) /\ \A d \in Current(j) : th'[d] = th[d]
        BY <1>1, <1>3, <1>6, <1>8 DEF Current, Others
  <2> QED
      BY <1>2, <1>7, <2>1, CausedFrame
<1>9. CASE j = k
  <2>1. Current(k)' = {c} /\ \A d \in Current(k) : th[d].pc = "loop"
        BY <1>1, <1>6, <1>9 DEF Current, Others, Busy
  <2>2. Recorded(k)' = docs[k].subs \cup Subs(sessions[k]) \cup Subs(cache[k])
    <3>1. Recorded(k)' = Known(t, k)'
          BY <1>4, <2>1, RecordedThen
    <3> QED
        BY <1>2, <1>5, <3>1 DEF Known, Subs
  <2>3. Recorded(k) \subseteq docs[k].subs \cup Subs(sessions[k]) \cup Subs(cache[k])
    <3>1. CASE Current(k) = {}
          BY <3>1 DEF Recorded, Objects, Subs
    <3>2. ASSUME NEW d \in Current(k)
          PROVE  Recorded(k) \subseteq docs[k].subs \cup Subs(sessions[k]) \cup Subs(cache[k])
      <4>1. PICK s : s = th[d]
            OBVIOUS
      <4>2. d \in Conn \ superseded /\ K(d) = k /\ s.pc = "loop"
            BY <2>1, <4>1 DEF Current, Others
      <4>3. Current(k) = {d}
            BY DEF IInv, Sole, Current, Others
      <4>4. Recorded(k) = Known(s, k)
            BY <4>1, <4>2, <4>3, RecordedIs
      <4>5. /\ s.obj # Nil /\ s.ret = "loop" /\ s.cur = {}
            /\ IF Object(s).temp THEN TemporaryOK(s, k) ELSE LastingOK(s, k)
        <5>1. s.pc \in Holding /\ s.pc \notin {"ready", "done"}
              BY <4>2 DEF Holding
        <5>2. PlaceOK(s, Object(s).temp)
              BY <4>1, <4>2, <5>1, AtWork
        <5> QED
            BY <1>7, <1>9, <4>1, <4>2, <5>1, <5>2, Working DEF PlaceOK
      <4>6. Object(s).subs \subseteq docs[k].subs \cup Subs(sessions[k])
            BY <1>7, <4>2, <4>5 DEF TemporaryOK, LastingOK, Object, Subs
      <4>7. Subs(s.obj) = Object(s).subs
            BY <4>5 DEF Subs, Object
      <4> QED
          BY <4>4, <4>5, <4>6, <4>7 DEF Known
    <3> QED
        BY <3>1, <3>2
  <2> QED
      BY <1>2, <1>7, <1>9, <2>2, <2>3 DEF Caused, Orphans, Ghosts
<1> QED
    BY <1>8, <1>9

\* What an evicted object records its handler works on, or is stored.
LEMMA CausedByEvict ==
    ASSUME IInv, NEW k \in Client, Evict(k), Faultless', NEW j \in Client \ unsettled'
    PROVE  Caused(j)
<1>1. /\ UNCHANGED <<sessions, docs, heap, tree, th, spent, superseded, unsettled>>
      /\ cache' = [cache EXCEPT ![k] = Nil] /\ cache \in [Client -> Conn \cup {Nil}]
      BY DEF Evict, history, IInv, Types
<1>2. Current(j)' = Current(j) /\ Routed(j)' = Routed(j) /\ Faultless
      BY <1>1 DEF Current, Others, Live, K, Routed, Faultless
<1>3. CASE j # k
      BY <1>1, <1>2, <1>3, CausedFrame
<1>4. CASE j = k
  <2>1. Recorded(k) \subseteq Recorded(k)' \cup Subs(cache[k]) /\ docs[k].subs \subseteq Recorded(k)'
        BY <1>1, <1>2, <1>4 DEF Recorded, Objects, Subs
  <2>2. Subs(cache[k]) \subseteq Recorded(k)'
    <3> SUFFICES ASSUME cache[k] # Nil PROVE heap[cache[k]].subs \subseteq Recorded(k)'
        BY DEF Subs
    <3>1. Settled(k)
          BY <1>1, <1>4 DEF IInv
    <3>2. CASE ~Held(k)
          BY <1>2, <2>1, <3>1, <3>2 DEF Settled, StoresOK
    <3>3. ASSUME NEW d \in Current(k), th[d].pc \in Holding
          PROVE  heap[cache[k]].subs \subseteq Recorded(k)'
      <4>1. HandlerOK(th[d], k)
            BY <3>1 DEF Settled
      <4>2. cache[k] = th[d].obj
            BY <3>3, <4>1 DEF HandlerOK, TemporaryOK, LastingOK
      <4> QED
          BY <1>1, <1>2, <1>4, <4>2 DEF Recorded, Objects
    <3> QED
        BY <3>2, <3>3 DEF Held
  <2> QED
      BY <1>1, <1>2, <1>4, <2>1, <2>2 DEF Caused, Orphans, Ghosts
<1> QED
    BY <1>3, <1>4

(***************************************************************************)
(* As long as the database does not fail and the process lives, nothing    *)
(* but a clean CONNECT leaves subscriptions in the tree that no session    *)
(* records, and nothing but UNSUBSCRIBE takes from the tree what the       *)
(* stored session records.                                                 *)
(***************************************************************************)
THEOREM DivergenceCaused == Spec => DivergenceHasCause
<1>1. IInv /\ [Next]_vars => [AllCaused]_vars
  <2> SUFFICES ASSUME IInv, [Next]_vars, up', Faultless', NEW k \in Client \ unsettled'
               PROVE  Caused(k)
      BY DEF AllCaused, Faultless
  <2>1. ASSUME NEW c \in Conn, Handler(c) PROVE Caused(k)
        BY <2>1, CausedByHandler, CausedByConnect
  <2>2. ASSUME NEW j \in Client, Evict(j) PROVE Caused(k)
        BY <2>2, CausedByEvict
  <2>3. ~Kill
        BY DEF Kill, Stop
  <2>4. CASE Restart \/ Rest \/ UNCHANGED vars
    <3>1. UNCHANGED <<sessions, cache, docs, heap, tree, th, superseded, unsettled>>
          BY <2>4 DEF Restart, Rest, vars, stores, history
    <3>2. Current(k)' = Current(k) /\ Routed(k)' = Routed(k)
          BY <3>1 DEF Current, Others, Live, K, Routed
    <3> QED
        BY <3>1, <3>2, CausedFrame
  <2> QED
      BY <2>1, <2>2, <2>3, <2>4 DEF Next
<1> QED
    BY <1>1, Invariant, PTL DEF Spec, DivergenceHasCause
=============================================================================
