---------------------------- MODULE SessionStore ----------------------------
(***************************************************************************)
(* The sessions of internal/database (database_store.go, session_data.go)  *)
(* and the packet handlers that change them.  A session object lives in    *)
(* the map of temporary sessions, in the LRU cache, or only in the hands   *)
(* of handlers; several handlers may hold one object, and several objects  *)
(* may stand for one client.  Lasting sessions are stored in a collection. *)
(*                                                                         *)
(* One step is one access to the map or the cache, one database call, or   *)
(* one access to an object.  Of the topic tree, which SubscriptionTree     *)
(* models, this module keeps the set of subscriptions in it: an insertion  *)
(* or deletion is one step.  The pending messages of a session are left    *)
(* out; its subscriptions are what the handlers must not lose.             *)
(***************************************************************************)
EXTENDS Naturals, FiniteSets

CONSTANTS
    Conn,          \* connections, each served by one handler
    Client,        \* client identifiers
    NoClient,      \* the client of a handler that has none yet
    Nil,           \* the nil pointer, a missing entry
    Topic,         \* topic filters
    Contended,     \* clients that may use a connection they have left
    MaxErrors,     \* bound on failing database calls
    MaxRestarts,   \* bound on restarts of the process
    MaxPackets     \* bound on the packets that change a session

ASSUME SessionAssumption ==
    /\ NoClient \notin Client /\ Nil \notin Conn
    /\ Contended \subseteq Client
    /\ MaxErrors \in Nat /\ MaxRestarts \in Nat /\ MaxPackets \in Nat

VARIABLES
    sessions,    \* DBStore.sessions: client -> object
    cache,       \* DBStore.sessionCache: client -> object
    docs,        \* the sessions collection: client -> stored session
    heap,        \* object -> session; an object has the name of its allocator
    tree,        \* <<client, topic>> pairs in the topic tree
    th,          \* connection -> its handler
    up,          \* the process is running
    spent,       \* the bounds used up
    kept,        \* history: subscriptions of lasting sessions, acknowledged to
                 \* a client on its latest connection
    superseded,  \* history: handlers whose client has connected once more
    unsettled    \* history: clients with two handlers at work, a session that
                 \* could not be read, or a leftover temporary session

stores  == <<sessions, cache, docs, heap, tree>>
history == <<kept, superseded, unsettled>>
vars    == <<stores, th, up, spent, history>>

Session == [temp : BOOLEAN, subs : SUBSET Topic]
NoDoc   == [stored |-> FALSE, subs |-> {}]
Blank   == [temp |-> FALSE, subs |-> {}]

Ready == [pc |-> "ready", client |-> NoClient, clean |-> FALSE, obj |-> Nil,
          request |-> {}, todo |-> {}, cur |-> {}, buf |-> {}, ret |-> "loop"]

Init ==
    /\ sessions = [k \in Client |-> Nil]
    /\ cache = [k \in Client |-> Nil]
    /\ docs = [k \in Client |-> NoDoc]
    /\ heap = [c \in Conn |-> Blank]
    /\ tree = {}
    /\ th = [c \in Conn |-> Ready]
    /\ up = TRUE
    /\ spent = [errors |-> 0, restarts |-> 0, packets |-> 0]
    /\ kept = {} /\ superseded = {} /\ unsettled = {}

At(c, label) == up /\ th[c].pc = label
Live(c)      == th[c].pc \notin {"ready", "done"}
Goto(c, label) == th' = [th EXCEPT ![c].pc = label]

\* Back in the loop of handlePacket with a session, or at the end of it.
Done == [Ready EXCEPT !.pc = "done"]
Loop(c, obj) == th' = [th EXCEPT ![c] = [Ready EXCEPT !.pc = "loop", !.obj = obj,
                                                     !.client = th[c].client]]
End(c) == th' = [th EXCEPT ![c] = Done]

\* Where DeleteSession returns to: HandlerConnectPacket or HandleDisconnectPacket.
Resume(c) == \/ th[c].ret = "create" /\ Goto(c, "create")
             \/ th[c].ret = "done" /\ End(c)

\* What handler c works on: its client, its object, the session in it.
K(c)    == th[c].client
Mine(c) == heap[th[c].obj]
Pairs(c, T) == {K(c)} \X T

\* The process ends, and its memory and its connections with it.
Stop ==
    /\ up' = FALSE
    /\ sessions' = [k \in Client |-> Nil]
    /\ cache' = [k \in Client |-> Nil]
    /\ heap' = [c \in Conn |-> Blank]
    /\ th' = [c \in Conn |-> IF Live(c) THEN Done ELSE th[c]]

DatabaseError ==
    /\ spent.errors < MaxErrors
    /\ spent' = [spent EXCEPT !.errors = @ + 1]
-----------------------------------------------------------------------------
(***************************************************************************)
(* HandlerConnectPacket.  A clean CONNECT deletes the session first, any   *)
(* other looks for it; whoever finds none creates one and saves it.        *)
(***************************************************************************)
Busy(c) == Live(c) /\ th[c].pc # "loop"
Others(k) == {d \in Conn : Live(d) /\ K(d) = k}

Connect(c) ==
    /\ At(c, "ready")
    /\ \E k \in Client, clean \in BOOLEAN :
          /\ \A d \in Others(k) : Busy(d) => k \in Contended
          /\ th' = [th EXCEPT ![c].client = k, ![c].clean = clean,
                              ![c].pc = IF clean THEN "dropMap" ELSE "lookup",
                              ![c].ret = "create"]
          /\ superseded' = superseded \cup Others(k)
          /\ unsettled' = unsettled \cup {K(d) : d \in {e \in Others(k) : Busy(e)}}
          /\ kept' = IF clean THEN {s \in kept : s[1] # k} ELSE kept
    /\ UNCHANGED <<stores, up, spent>>

(***************************************************************************)
(* DeleteSession.  A temporary session in the map is all it deletes.       *)
(***************************************************************************)
\* Mutant: the collection is reached for temporary sessions only.
DropMapInverted(c) ==
    /\ At(c, "dropMap")
    /\ sessions' = [sessions EXCEPT ![K(c)] = Nil]
    /\ \/ sessions[K(c)] # Nil /\ Goto(c, "dropCache")
       \/ sessions[K(c)] = Nil /\ Resume(c)
    /\ UNCHANGED <<cache, docs, heap, tree, up, spent, history>>

DropMap(c) ==
    /\ At(c, "dropMap")
    /\ sessions' = [sessions EXCEPT ![K(c)] = Nil]
    /\ \/ sessions[K(c)] # Nil /\ Resume(c)
       \/ sessions[K(c)] = Nil /\ Goto(c, "dropCache")
    /\ UNCHANGED <<cache, docs, heap, tree, up, spent, history>>

\* Mutant: the cached session outlives the stored one.
DropCacheForgotten(c) ==
    /\ At(c, "dropCache")
    /\ Goto(c, "dropDoc")
    /\ UNCHANGED <<stores, up, spent, history>>

DropCache(c) ==
    /\ At(c, "dropCache")
    /\ cache' = [cache EXCEPT ![K(c)] = Nil]
    /\ Goto(c, "dropDoc")
    /\ UNCHANGED <<sessions, docs, heap, tree, up, spent, history>>

\* An error, before or after the deletion, is logged; nobody asks for the result.
DropDoc(c) ==
    /\ At(c, "dropDoc")
    /\ \/ docs' = [docs EXCEPT ![K(c)] = NoDoc] /\ UNCHANGED spent
       \/ docs' = [docs EXCEPT ![K(c)] = NoDoc] /\ DatabaseError
       \/ DatabaseError /\ UNCHANGED docs
    /\ Resume(c)
    /\ UNCHANGED <<sessions, cache, heap, tree, up, history>>

(***************************************************************************)
(* GetSession: the map, the cache, the collection.                         *)
(***************************************************************************)
Lookup(c) ==
    /\ At(c, "lookup")
    /\ \/ /\ sessions[K(c)] # Nil
          /\ Loop(c, sessions[K(c)])
          /\ unsettled' = unsettled \cup {K(c)}
       \/ /\ sessions[K(c)] = Nil
          /\ Goto(c, "lookupCache")
          /\ UNCHANGED unsettled
    /\ UNCHANGED <<stores, up, spent, kept, superseded>>

LookupCache(c) ==
    /\ At(c, "lookupCache")
    /\ \/ cache[K(c)] # Nil /\ Loop(c, cache[K(c)])
       \/ cache[K(c)] = Nil /\ Goto(c, "find")
    /\ UNCHANGED <<stores, up, spent, history>>

\* An error is answered like a missing document.
Find(c) ==
    /\ At(c, "find")
    /\ \/ /\ docs[K(c)].stored
          /\ th' = [th EXCEPT ![c].buf = docs[K(c)].subs, ![c].pc = "fill"]
          /\ UNCHANGED <<spent, unsettled>>
       \/ /\ ~docs[K(c)].stored
          /\ Goto(c, "create")
          /\ UNCHANGED <<spent, unsettled>>
       \/ /\ DatabaseError
          /\ Goto(c, "create")
          /\ unsettled' = unsettled \cup {K(c)}
    /\ UNCHANGED <<stores, up, kept, superseded>>

Fill(c) ==
    /\ At(c, "fill")
    /\ heap' = [heap EXCEPT ![c] = [temp |-> FALSE, subs |-> th[c].buf]]
    /\ cache' = [cache EXCEPT ![K(c)] = c]
    /\ Loop(c, c)
    /\ UNCHANGED <<sessions, docs, tree, up, spent, history>>

Create(c) ==
    /\ At(c, "create")
    /\ heap' = [heap EXCEPT ![c] = [temp |-> th[c].clean, subs |-> {}]]
    /\ th' = [th EXCEPT ![c].obj = c, ![c].pc = "save", ![c].ret = "created"]
    /\ UNCHANGED <<sessions, cache, docs, tree, up, spent, history>>
-----------------------------------------------------------------------------
(***************************************************************************)
(* SaveSession: a temporary session is put into the map; a lasting one is  *)
(* taken out of the cache, encoded, written, and put into the cache again. *)
(***************************************************************************)
\* Mutant: every session is put into the map first.
SaveInMap(c) ==
    /\ At(c, "save")
    /\ sessions' = [sessions EXCEPT ![K(c)] = th[c].obj]
    /\ \/ Mine(c).temp /\ Goto(c, "saved") /\ UNCHANGED cache
       \/ ~Mine(c).temp /\ Goto(c, "encode") /\ cache' = [cache EXCEPT ![K(c)] = Nil]
    /\ UNCHANGED <<docs, heap, tree, up, spent, history>>

Save(c) ==
    /\ At(c, "save")
    /\ \/ /\ Mine(c).temp
          /\ sessions' = [sessions EXCEPT ![K(c)] = th[c].obj]
          /\ Goto(c, "saved")
          /\ UNCHANGED cache
       \/ /\ ~Mine(c).temp
          /\ cache' = [cache EXCEPT ![K(c)] = Nil]
          /\ Goto(c, "encode")
          /\ UNCHANGED sessions
    /\ UNCHANGED <<docs, heap, tree, up, spent, history>>

Encode(c) ==
    /\ At(c, "encode")
    /\ th' = [th EXCEPT ![c].buf = Mine(c).subs, ![c].pc = "write"]
    /\ UNCHANGED <<stores, up, spent, history>>

ReplaceOne(c) ==
    /\ At(c, "write")
    /\ docs' = [docs EXCEPT ![K(c)] = [stored |-> TRUE, subs |-> th[c].buf]]
    /\ th' = [th EXCEPT ![c].buf = {}, ![c].pc = "recache"]
    /\ UNCHANGED <<sessions, cache, heap, tree, up, spent, history>>

\* The call fails, after it was carried out or before.
ReplaceFails(c) ==
    /\ At(c, "write")
    /\ DatabaseError
    /\ \/ docs' = [docs EXCEPT ![K(c)] = [stored |-> TRUE, subs |-> th[c].buf]]
       \/ UNCHANGED docs
    /\ th' = [th EXCEPT ![c].buf = {}, ![c].pc = "unsaved"]
    /\ UNCHANGED <<sessions, cache, heap, tree, up, history>>

Recache(c) ==
    /\ At(c, "recache")
    /\ cache' = [cache EXCEPT ![K(c)] = th[c].obj]
    /\ Goto(c, "saved")
    /\ UNCHANGED <<sessions, docs, heap, tree, up, spent, history>>

\* What the caller makes of the result: the answer to CONNECT, whose failure
\* ends in the nil dereference of the deferred function, SUBACK, or nothing.
Answer(c) ==
    /\ At(c, "saved") \/ At(c, "unsaved")
    /\ \/ /\ th[c].ret = "created" /\ th[c].pc = "unsaved"
          /\ Stop
          /\ UNCHANGED kept
       \/ /\ ~(th[c].ret = "created" /\ th[c].pc = "unsaved")
          /\ kept' = IF th[c].ret = "suback" /\ th[c].pc = "saved"
                        /\ ~Mine(c).temp /\ c \notin superseded
                     THEN kept \cup Pairs(c, th[c].request) ELSE kept
          /\ \/ th[c].ret = "done" /\ End(c)
             \/ th[c].ret # "done" /\ Loop(c, th[c].obj)
          /\ UNCHANGED <<sessions, cache, heap, up>>
    /\ UNCHANGED <<docs, tree, spent, superseded, unsettled>>
-----------------------------------------------------------------------------
(***************************************************************************)
(* The packets that change a session.                                      *)
(***************************************************************************)
\* A client that goes on using a connection it has left.
Intrudes(c) ==
    /\ c \in superseded => K(c) \in Contended
    /\ unsettled' = IF c \in superseded THEN unsettled \cup {K(c)} ELSE unsettled

Packet(c) ==
    /\ At(c, "loop") /\ spent.packets < MaxPackets
    /\ spent' = [spent EXCEPT !.packets = @ + 1]
    /\ Intrudes(c)

Begin(c, label, T, ret) ==
    th' = [th EXCEPT ![c].pc = label, ![c].request = T, ![c].todo = T, ![c].ret = ret]

\* The next filter of the packet, in any order.
Take(c, t, label) ==
    th' = [th EXCEPT ![c].pc = label, ![c].todo = @ \ {t}, ![c].cur = {t}]

Requests == SUBSET Topic \ {{}}

Subscribe(c) ==
    /\ Packet(c)
    /\ \E T \in Requests : Begin(c, "insert", T, "suback")
    /\ UNCHANGED <<stores, up, kept, superseded>>

\* AddSubscription: an insertion that fails is logged and recorded all the same.
Insert(c) ==
    /\ At(c, "insert")
    /\ \/ /\ th[c].todo = {}
          /\ Goto(c, "save")
          /\ UNCHANGED <<tree, spent>>
       \/ \E t \in th[c].todo :
             /\ Take(c, t, "record")
             /\ \/ tree' = tree \cup Pairs(c, {t}) /\ UNCHANGED spent
                \/ DatabaseError /\ UNCHANGED tree
    /\ UNCHANGED <<sessions, cache, docs, heap, up, history>>

\* Mutant: the session keeps the filter it was asked for last.
RecordLast(c) ==
    /\ At(c, "record")
    /\ heap' = [heap EXCEPT ![th[c].obj].subs = th[c].cur]
    /\ Goto(c, "insert")
    /\ UNCHANGED <<sessions, cache, docs, tree, up, spent, history>>

Record(c) ==
    /\ At(c, "record")
    /\ heap' = [heap EXCEPT ![th[c].obj].subs = @ \cup th[c].cur]
    /\ Goto(c, "insert")
    /\ UNCHANGED <<sessions, cache, docs, tree, up, spent, history>>

\* UNSUBSCRIBE does not save the session.
Unsubscribe(c) ==
    /\ Packet(c)
    /\ \E T \in Requests :
          /\ Begin(c, "delete", T, "loop")
          /\ kept' = kept \ Pairs(c, T)
    /\ UNCHANGED <<stores, up, superseded>>

\* DeleteSubscription takes the filter out of the tree, or fails unnoticed.
Withdraw(c, t) ==
    \/ tree' = tree \ Pairs(c, {t}) /\ UNCHANGED spent
    \/ DatabaseError /\ UNCHANGED tree

\* Mutant: whatever filter is named, all of them are withdrawn.
DeleteAll(c) ==
    /\ At(c, "delete")
    /\ \/ /\ th[c].todo = {}
          /\ Loop(c, th[c].obj)
          /\ UNCHANGED <<tree, spent>>
       \/ \E t \in th[c].todo :
             /\ Take(c, t, "forget")
             /\ tree' = tree \ Pairs(c, Topic) /\ UNCHANGED spent
    /\ UNCHANGED <<sessions, cache, docs, heap, up, history>>

\* Mutant: the session loses the subscription, the tree keeps it.
DeleteNothing(c) ==
    /\ At(c, "delete")
    /\ \/ th[c].todo = {} /\ Loop(c, th[c].obj)
       \/ \E t \in th[c].todo : Take(c, t, "forget")
    /\ UNCHANGED <<stores, up, spent, history>>

Delete(c) ==
    /\ At(c, "delete")
    /\ \/ /\ th[c].todo = {}
          /\ Loop(c, th[c].obj)
          /\ UNCHANGED <<tree, spent>>
       \/ \E t \in th[c].todo : Take(c, t, "forget") /\ Withdraw(c, t)
    /\ UNCHANGED <<sessions, cache, docs, heap, up, history>>

Forget(c) ==
    /\ At(c, "forget")
    /\ heap' = [heap EXCEPT ![th[c].obj].subs = @ \ th[c].cur]
    /\ Goto(c, "delete")
    /\ UNCHANGED <<sessions, cache, docs, tree, up, spent, history>>

\* PUBLISH with QoS 1 or 2 saves the session and ignores the result.
Publish(c) ==
    /\ Packet(c)
    /\ Begin(c, "save", {}, "loop")
    /\ UNCHANGED <<stores, up, kept, superseded>>

\* HandleDisconnectPacket.
Disconnect(c) ==
    /\ At(c, "loop") /\ Intrudes(c)
    /\ \/ Mine(c).temp /\ Begin(c, "clear", Mine(c).subs, "done")
       \/ ~Mine(c).temp /\ Begin(c, "save", {}, "done")
    /\ UNCHANGED <<stores, up, spent, kept, superseded>>

\* Mutant: the session is deleted first, and its subscriptions are not.
ClearNothing(c) ==
    /\ At(c, "clear")
    /\ Goto(c, "dropMap")
    /\ UNCHANGED <<stores, up, spent, history>>

\* RemoveAllSubscriptions, over the map of subscriptions as it was.
Clear(c) ==
    /\ At(c, "clear")
    /\ \/ /\ th[c].todo = {}
          /\ Goto(c, "dropMap")
          /\ UNCHANGED <<tree, spent>>
       \/ \E t \in th[c].todo : Take(c, t, "clear") /\ Withdraw(c, t)
    /\ UNCHANGED <<sessions, cache, docs, heap, up, history>>

\* Every other way out of handlePacket leaves the session where it is.
Hangup(c) ==
    /\ At(c, "loop")
    /\ End(c)
    /\ UNCHANGED <<stores, up, spent, history>>
-----------------------------------------------------------------------------
(***************************************************************************)
(* The LRU cache and the process.                                          *)
(***************************************************************************)
Evict(k) ==
    /\ up /\ cache[k] # Nil
    /\ cache' = [cache EXCEPT ![k] = Nil]
    /\ UNCHANGED <<sessions, docs, heap, tree, th, up, spent, history>>

\* The process dies.  Go's runtime ends it, too, when it sees two handlers use
\* one map (sessions, Subscriptions) and one of them write it.
Kill ==
    /\ up /\ spent.restarts < MaxRestarts
    /\ Stop
    /\ UNCHANGED <<docs, tree, spent, history>>

\* The next process, with what NewDatabaseStore makes and what was stored.
Restart ==
    /\ ~up /\ spent.restarts < MaxRestarts
    /\ spent' = [spent EXCEPT !.restarts = @ + 1]
    /\ up' = TRUE
    /\ UNCHANGED <<stores, th, history>>

\* The process is down for good, or every connection has ended.
Rest == /\ \/ ~up
           \/ \A c \in Conn : th[c].pc = "done"
        /\ UNCHANGED vars
-----------------------------------------------------------------------------
Handler(c) ==
    \/ Connect(c) \/ DropMap(c) \/ DropCache(c) \/ DropDoc(c)
    \/ Lookup(c) \/ LookupCache(c) \/ Find(c) \/ Fill(c) \/ Create(c)
    \/ Save(c) \/ Encode(c) \/ ReplaceOne(c) \/ ReplaceFails(c) \/ Recache(c)
    \/ Answer(c) \/ Subscribe(c) \/ Insert(c) \/ Record(c)
    \/ Unsubscribe(c) \/ Delete(c) \/ Forget(c) \/ Publish(c)
    \/ Disconnect(c) \/ Clear(c) \/ Hangup(c)

Next == \/ \E c \in Conn : Handler(c)
        \/ \E k \in Client : Evict(k)
        \/ Kill \/ Restart \/ Rest

Spec == Init /\ [][Next]_vars
=============================================================================
