-------------------------- MODULE SubscriptionTree --------------------------
(***************************************************************************)
(* The topic tree of internal/database/subscription_tree.go: a MongoDB     *)
(* document per node, a process-wide LRU cache of decoded nodes, and the   *)
(* connection goroutines that insert, delete and match subscriptions with  *)
(* no lock around any of it.                                               *)
(*                                                                         *)
(* One step is one cache access, one database call, or one access to a     *)
(* node in memory; between two steps any other goroutine may run.          *)
(***************************************************************************)
EXTENDS Topics, FiniteSets, Bags

CONSTANTS
    Client,        \* client identifiers
    QoS,           \* QoS levels a subscription may ask for
    Mutators,      \* goroutines that serve SUBSCRIBE and UNSUBSCRIBE
    Matchers,      \* goroutines that serve PUBLISH
    Filters,       \* filters that are subscribed to
    Drops,         \* filters that are unsubscribed from
    Publishes,     \* topics that are published to
    Slot,          \* names for the node objects of one path alive at a time
    MaxRequests,   \* bound on requests
    MaxErrors,     \* bound on failing database calls
    MaxRestarts    \* bound on restarts of the process

Worker == Mutators \cup Matchers

ASSUME TreeAssumption ==
    /\ Filters \subseteq Path \ {<<>>}
    /\ Drops \subseteq Path \ {<<>>}
    /\ Publishes \subseteq Seq(Level) \ {<<>>}
    /\ Slot \subseteq Nat \ {0}
    /\ MaxRequests \in Nat /\ MaxErrors \in Nat /\ MaxRestarts \in Nat

VARIABLES
    docs,      \* the subscriptions collection: path -> stored node
    minted,    \* path -> number of ObjectIDs created for it
    heap,      \* the node objects alive in memory: reference -> node
    cache,     \* topicCache: key -> reference
    th,        \* worker -> the call it is executing and its locals
    status,    \* "up", "panic" (nil dereference), "fault" (data race), "down"
    asked,     \* history: every subscription ever requested
    acked,     \* history: subscriptions whose last request was an accepted insert
    spent      \* the bounds used up, and whether a save was refused

vars == <<docs, minted, heap, cache, th, status, asked, acked, spent>>
-----------------------------------------------------------------------------
(***************************************************************************)
(* Data.  An ObjectID is named by the path it was created for and a serial *)
(* number; a pointer by the path of the node it points to and a slot.      *)
(* The subscriber slices are bags: their order decides nothing, the number *)
(* of equal entries is the number of copies delivered.                     *)
(***************************************************************************)
Sub  == [client : Client, topic : Path, qos : QoS]
ID   == [path : Path, n : Nat]
Ref  == [path : Path, slot : Slot]
Key  == [by : {"path", "_id"}, path : Path, n : Nat]
NoID == [path |-> <<>>, n |-> 0]
Nil  == [path |-> <<>>, slot |-> 0]

PathKey(p) == [by |-> "path", path |-> p, n |-> 0]
IdKey(id)  == [by |-> "_id", path |-> id.path, n |-> id.n]

NewNode(n) == [n |-> n, children |-> <<>>, plus |-> NoID,
               hash |-> EmptyBag, terminals |-> EmptyBag]

Equal(s, t)    == s.client = t.client /\ s.topic = t.topic
Holds(bag, s)  == \E t \in DOMAIN bag : Equal(s, t)
With(bag, s)   == bag (+) SetToBag({s})
\* Mutants: DeleteFunc's result dropped, so the entry is zeroed and stays; the
\* predicate inverted.
ExceptZeroed(bag, s)   == [t \in DOMAIN bag |-> IF Equal(s, t) THEN 0 ELSE bag[t]]
ExceptInverted(bag, s) == [t \in {u \in DOMAIN bag : Equal(s, u)} |-> bag[t]]
Except(bag, s) == [t \in {u \in DOMAIN bag : ~Equal(s, u)} |-> bag[t]]

\* Mutant: an ordinary child is linked in the "+" field.
PutAsPlus(node, upd) ==
    CASE upd.field \in {"child", "plus"} -> [node EXCEPT !.plus = upd.id]
      [] upd.field = "hash"      -> [node EXCEPT !.hash = upd.subs]
      [] upd.field = "terminals" -> [node EXCEPT !.terminals = upd.subs]

\* A pending assignment to one field of a node.
Put(node, upd) ==
    CASE upd.field = "child" ->
           [node EXCEPT !.children =
               [l \in DOMAIN @ \cup {upd.level} |->
                   IF l = upd.level THEN upd.id ELSE @[l]]]
      [] upd.field = "plus"      -> [node EXCEPT !.plus = upd.id]
      [] upd.field = "hash"      -> [node EXCEPT !.hash = upd.subs]
      [] upd.field = "terminals" -> [node EXCEPT !.terminals = upd.subs]

NoUpdate == [field |-> "none"]
NoSub    == [client |-> "none", topic |-> <<>>, qos |-> 0]

Idle == [pc |-> "idle", op |-> "none", sub |-> NoSub, lvl |-> 0,
         key |-> PathKey(<<>>), ret |-> "idle", cur |-> Nil, par |-> Nil,
         tgt |-> Nil, upd |-> NoUpdate, buf |-> NewNode(0),
         queue |-> <<>>, next |-> <<>>, got |-> EmptyBag, stale |-> FALSE]

\* The topic of the current call: a filter, or the topic published to.
Topic(w) == th[w].sub.topic

At(w, label) == status = "up" /\ th[w].pc = label

(***************************************************************************)
(* Go's collector: an object nothing refers to any more is gone.           *)
(***************************************************************************)
Elements(q) == {q[i] : i \in 1..Len(q)}
Held(t) == {t.cur, t.par, t.tgt} \cup Elements(t.queue) \cup Elements(t.next)
Live == {cache[k] : k \in DOMAIN cache} \cup UNION {Held(th[w]) : w \in Worker}
Collect(h) == heap' = [r \in DOMAIN h \cap Live' |-> h[r]]

FreeSlots(p) == {i \in Slot : [path |-> p, slot |-> i] \notin DOMAIN heap}
NewRef(p)    == [path |-> p, slot |-> CHOOSE i \in FreeSlots(p) : TRUE]
Allocate(r, node) ==
    Collect([q \in DOMAIN heap \cup {r} |-> IF q = r THEN node ELSE heap[q]])

Uncached(p) == [k \in DOMAIN cache \ {PathKey(p)} |-> cache[k]]

\* A step that changes nothing but the locals of w.
Local(w, t) ==
    /\ th' = [th EXCEPT ![w] = t]
    /\ UNCHANGED <<docs, minted, cache, status, asked, acked, spent>>
    /\ Collect(heap)

Goto(w, label) == Local(w, [th[w] EXCEPT !.pc = label])

\* Look a key up and resume at label ret.
Get(w, t, k, ret) ==
    Local(w, [t EXCEPT !.key = k, !.cur = Nil, !.pc = "lookup", !.ret = ret])

\* Assign to a field of node r, save the node, and resume at label ret.
Assign(w, r, upd, ret) ==
    Local(w, [th[w] EXCEPT !.tgt = r, !.upd = upd, !.pc = "store", !.ret = ret])

Init ==
    /\ docs = <<>> /\ minted = [p \in {} |-> 0]
    /\ heap = <<>> /\ cache = <<>>
    /\ th = [w \in Worker |-> Idle]
    /\ status = "up"
    /\ asked = {} /\ acked = {}
    /\ spent = [requests |-> 0, errors |-> 0, restarts |-> 0, refused |-> FALSE]
-----------------------------------------------------------------------------
(***************************************************************************)
(* getNodeByPath and getNodeByID: the same three steps under two kinds of  *)
(* key.  The caller resumes at th[w].ret with the node, or Nil, in cur.    *)
(***************************************************************************)
CacheHit(w) ==
    LET k == th[w].key IN
    /\ At(w, "lookup")
    /\ k \in DOMAIN cache
    /\ Local(w, [th[w] EXCEPT !.cur = cache[k], !.pc = th[w].ret,
                              !.stale = @ \/ k.path \notin DOMAIN docs
                                          \/ heap[cache[k]] # docs[k.path]])

CacheMiss(w) ==
    /\ At(w, "lookup")
    /\ th[w].key \notin DOMAIN cache
    /\ Goto(w, "find")

Stored(k) == /\ k.path \in DOMAIN docs
             /\ k.by = "_id" => docs[k.path].n = k.n

FindOne(w) ==
    LET k == th[w].key
        r == NewRef(k.path) IN
    /\ At(w, "find")
    /\ Stored(k)
    /\ FreeSlots(k.path) # {}
    /\ th' = [th EXCEPT ![w].cur = r, ![w].pc = "fill"]
    /\ UNCHANGED <<docs, minted, cache, status, asked, acked, spent>>
    /\ Allocate(r, docs[k.path])

\* Only getOrCreateNode, on the insert path, creates what is missing.
FindNothing(w) ==
    /\ At(w, "find")
    /\ \/ ~Stored(th[w].key) /\ UNCHANGED spent
       \/ /\ spent.errors < MaxErrors      \* timeout or network error
          /\ spent' = [spent EXCEPT !.errors = @ + 1]
    /\ th' = [th EXCEPT ![w].pc = IF th[w].op = "insert" THEN "create"
                                                         ELSE th[w].ret]
    /\ UNCHANGED <<docs, minted, cache, status, asked, acked>>
    /\ Collect(heap)

Fill(w) ==
    LET k == th[w].key IN
    /\ At(w, "fill")
    /\ cache' = [j \in DOMAIN cache \cup {k} |->
                    IF j = k THEN th[w].cur ELSE cache[j]]
    /\ th' = [th EXCEPT ![w].pc = th[w].ret]
    /\ UNCHANGED <<docs, minted, status, asked, acked, spent>>
    /\ Collect(heap)

\* Mutant: createNode without its save.
CreateUnsaved(w) ==
    LET p == th[w].key.path
        n == IF p \in DOMAIN minted THEN minted[p] + 1 ELSE 1
        r == NewRef(p) IN
    /\ At(w, "create")
    /\ FreeSlots(p) # {}
    /\ minted' = [q \in DOMAIN minted \cup {p} |-> IF q = p THEN n ELSE minted[q]]
    /\ th' = [th EXCEPT ![w].cur = r, ![w].pc = th[w].ret]
    /\ UNCHANGED <<docs, cache, status, asked, acked, spent>>
    /\ Allocate(r, NewNode(n))

\* createNode up to the database call of its save; the object is still private.
Create(w) ==
    LET p == th[w].key.path
        n == IF p \in DOMAIN minted THEN minted[p] + 1 ELSE 1
        r == NewRef(p) IN
    /\ At(w, "create")
    /\ FreeSlots(p) # {}
    /\ minted' = [q \in DOMAIN minted \cup {p} |-> IF q = p THEN n ELSE minted[q]]
    /\ cache' = Uncached(p)
    /\ th' = [th EXCEPT ![w].cur = r, ![w].tgt = r, ![w].buf = NewNode(n),
                        ![w].pc = "replace"]
    /\ UNCHANGED <<docs, status, asked, acked, spent>>
    /\ Allocate(r, NewNode(n))
-----------------------------------------------------------------------------
(***************************************************************************)
(* save: the assignment to the node, the removal of its path from the      *)
(* cache and the encoding of the node, then ReplaceOne by _id with upsert  *)
(* under the unique index on path.  Errors are logged and dropped.         *)
(***************************************************************************)
Store(w) ==
    LET r    == th[w].tgt
        node == Put(heap[r], th[w].upd) IN
    /\ At(w, "store")
    /\ cache' = Uncached(r.path)
    /\ th' = [th EXCEPT ![w].pc = "replace", ![w].buf = node, ![w].upd = NoUpdate]
    /\ UNCHANGED <<docs, minted, status, asked, acked, spent>>
    /\ Collect([heap EXCEPT ![r] = node])

Unique(p, node) == p \in DOMAIN docs => docs[p].n = node.n
\* Mutant: inserted when missing, not replaced when present.
WrittenOnce(p, node) == [q \in DOMAIN docs \cup {p} |->
                            IF q \in DOMAIN docs THEN docs[q] ELSE node]
Written(p, node) == [q \in DOMAIN docs \cup {p} |-> IF q = p THEN node ELSE docs[q]]

Saved(w) ==
    /\ th' = [th EXCEPT ![w].pc = th[w].ret, ![w].tgt = Nil, ![w].buf = NewNode(0)]
    /\ UNCHANGED <<minted, cache, status, asked, acked>>
    /\ Collect(heap)

ReplaceOne(w) ==
    LET p == th[w].tgt.path IN
    /\ At(w, "replace")
    /\ Unique(p, th[w].buf)
    /\ docs' = Written(p, th[w].buf)
    /\ Saved(w) /\ UNCHANGED spent

DuplicatePath(w) ==
    /\ At(w, "replace")
    /\ ~Unique(th[w].tgt.path, th[w].buf)
    /\ spent' = [spent EXCEPT !.refused = TRUE]
    /\ Saved(w) /\ UNCHANGED docs

\* A failed call; the server may have applied it and only the answer is lost.
ReplaceFails(w) ==
    LET p == th[w].tgt.path IN
    /\ At(w, "replace")
    /\ spent.errors < MaxErrors
    /\ spent' = [spent EXCEPT !.errors = @ + 1]
    /\ \/ UNCHANGED docs
       \/ Unique(p, th[w].buf) /\ docs' = Written(p, th[w].buf)
    /\ Saved(w)
-----------------------------------------------------------------------------
(***************************************************************************)
(* InsertSubscription                                                      *)
(***************************************************************************)
Begin(w, op, s, p, ret) ==
    /\ At(w, "idle")
    /\ spent.requests < MaxRequests
    /\ spent' = [spent EXCEPT !.requests = @ + 1]
    /\ th' = [th EXCEPT ![w] = [Idle EXCEPT !.pc = "lookup", !.op = op, !.sub = s,
                                            !.lvl = 1, !.key = PathKey(p),
                                            !.ret = ret]]
    /\ UNCHANGED <<docs, minted, heap, cache, status>>

Subscribe(w) ==
    \E c \in Client, f \in Filters, q \in QoS :
        LET s == [client |-> c, topic |-> f, qos |-> q] IN
        /\ Begin(w, "insert", s, Prefix(f, 1), "level")
        /\ asked' = asked \cup {s}
        /\ UNCHANGED acked

\* The body of the loop between getOrCreateNode and the terminal subscription.
LinkLevel(w) ==
    LET f      == Topic(w)
        i      == th[w].lvl
        parent == heap[th[w].par]
        id     == [path |-> th[w].cur.path, n |-> heap[th[w].cur].n] IN
    /\ At(w, "level")
    /\ \/ i = 1 /\ Goto(w, "leaf")
       \/ /\ i > 1 /\ f[i] = "+"
          /\ Assign(w, th[w].par, [field |-> "plus", id |-> id], "leaf")
       \/ i > 1 /\ f[i] = "#" /\ i # Len(f) /\ Goto(w, "rejected")
       \/ /\ i > 1 /\ f[i] = "#" /\ i = Len(f)
          /\ Assign(w, th[w].par,
                    [field |-> "hash", subs |-> With(parent.hash, th[w].sub)], "done")
       \/ i > 1 /\ f[i] \in Level \cap DOMAIN parent.children /\ Goto(w, "leaf")
       \/ /\ i > 1 /\ f[i] \in Level \ DOMAIN parent.children
          /\ Assign(w, th[w].par,
                    [field |-> "child", level |-> f[i], id |-> id], "leaf")

AddTerminal(w) ==
    LET bag   == heap[th[w].cur].terminals
        isNew == th[w].lvl = Len(Topic(w)) /\ ~Holds(bag, th[w].sub) IN
    /\ At(w, "leaf")
    /\ \/ ~isNew /\ Goto(w, "next")
       \/ /\ isNew
          /\ Assign(w, th[w].cur,
                    [field |-> "terminals", subs |-> With(bag, th[w].sub)], "next")

\* Mutant: the loop index is not advanced.
NextLevelStuck(w) ==
    /\ At(w, "next")
    /\ Get(w, [th[w] EXCEPT !.par = th[w].cur],
           PathKey(Prefix(Topic(w), th[w].lvl)), "level")

NextLevel(w) ==
    LET i == th[w].lvl + 1 IN
    /\ At(w, "next")
    /\ \/ i > Len(Topic(w)) /\ Goto(w, "done")
       \/ /\ i <= Len(Topic(w))
          /\ Get(w, [th[w] EXCEPT !.par = th[w].cur, !.lvl = i],
                 PathKey(Prefix(Topic(w), i)), "level")

(***************************************************************************)
(* DeleteSubscription                                                      *)
(***************************************************************************)
Unsubscribe(w) ==
    \E c \in Client, f \in Drops, q \in QoS :
        LET s == [client |-> c, topic |-> f, qos |-> q] IN
        /\ Begin(w, "delete", s, IF HasHash(f) THEN Parent(f) ELSE f, "remove")
        /\ acked' = {t \in acked : ~Equal(s, t)}
        /\ UNCHANGED asked

RemoveTerminal(w) ==
    LET s    == th[w].sub
        node == heap[th[w].cur] IN
    /\ At(w, "remove")
    /\ \/ th[w].cur = Nil /\ Goto(w, "rejected")
       \/ /\ th[w].cur # Nil /\ HasHash(s.topic)
          /\ Assign(w, th[w].cur,
                    [field |-> "hash", subs |-> Except(node.hash, s)], "done")
       \/ /\ th[w].cur # Nil /\ ~HasHash(s.topic)
          /\ Assign(w, th[w].cur,
                    [field |-> "terminals", subs |-> Except(node.terminals, s)],
                    "done")
-----------------------------------------------------------------------------
(***************************************************************************)
(* MatchTopic: breadth first, one level of the published topic at a time.  *)
(***************************************************************************)
Publish(w) ==
    \E t \in Publishes :
        /\ Begin(w, "match", [NoSub EXCEPT !.topic = t], Prefix(t, 1), "root")
        /\ UNCHANGED <<asked, acked>>

Queued(r) == IF r = Nil THEN <<>> ELSE <<r>>

Root(w) ==
    /\ At(w, "root")
    /\ Get(w, [th[w] EXCEPT !.queue = Queued(th[w].cur)],
           PathKey(<<"+">>), "rootPlus")

\* Mutant: the root "+" node is looked up and not queued.
RootPlusIgnored(w) ==
    At(w, "rootPlus") /\ Local(w, [th[w] EXCEPT !.cur = Nil, !.pc = "visit"])

RootPlus(w) ==
    /\ At(w, "rootPlus")
    /\ Local(w, [th[w] EXCEPT !.queue = Queued(th[w].cur) \o @, !.cur = Nil,
                              !.pc = "visit"])

\* The node the loop is at; Nil when getNodeByID found none.
Front(w)  == th[w].queue[1]
Deeper(w) == th[w].lvl < Len(Topic(w))

\* Steps 1 and 2 of the loop body: the "#" subscriptions, the exact child.
VisitNode(w) ==
    LET node    == heap[Front(w)]
        l       == Topic(w)[th[w].lvl + 1]
        visited == [th[w] EXCEPT !.got = @ (+) node.hash] IN
    /\ At(w, "visit") /\ Deeper(w) /\ th[w].queue # <<>> /\ Front(w) # Nil
    /\ \/ /\ l \in DOMAIN node.children
          /\ Get(w, visited, IdKey(node.children[l]), "child")
       \/ /\ l \notin DOMAIN node.children
          /\ Local(w, [visited EXCEPT !.pc = "plus"])

ExactChild(w) ==
    /\ At(w, "child")
    /\ Local(w, [th[w] EXCEPT !.next = Append(@, th[w].cur), !.cur = Nil,
                              !.pc = "plus"])

\* Step 3: the "+" child.
VisitPlus(w) ==
    LET id == heap[Front(w)].plus IN
    /\ At(w, "plus")
    /\ \/ id # NoID /\ Get(w, th[w], IdKey(id), "plusChild")
       \/ /\ id = NoID
          /\ Local(w, [th[w] EXCEPT !.queue = Tail(@), !.pc = "visit"])

PlusChild(w) ==
    /\ At(w, "plusChild")
    /\ Local(w, [th[w] EXCEPT !.next = Append(@, th[w].cur), !.cur = Nil,
                              !.queue = Tail(@), !.pc = "visit"])

\* Step 4, with the early exit when no node is left.
Descend(w) ==
    /\ At(w, "visit") /\ Deeper(w) /\ th[w].queue = <<>>
    /\ Local(w, [th[w] EXCEPT !.queue = th[w].next, !.next = <<>>, !.lvl = @ + 1,
                              !.pc = IF th[w].next = <<>> THEN "done" ELSE "visit"])

\* Step 5: one node's terminals per step.
CollectTerminals(w) ==
    /\ At(w, "visit") /\ ~Deeper(w)
    /\ \/ th[w].queue = <<>> /\ Goto(w, "done")
       \/ /\ th[w].queue # <<>> /\ Front(w) # Nil
          /\ Local(w, [th[w] EXCEPT !.got = @ (+) heap[Front(w)].terminals,
                                    !.queue = Tail(@)])

\* A nil node is dereferenced: node.WildcardHash or node.Terminals.
NilNode(w) ==
    /\ At(w, "visit") /\ th[w].queue # <<>> /\ Front(w) = Nil
    /\ status' = "panic"
    /\ UNCHANGED <<docs, minted, heap, cache, th, asked, acked, spent>>
-----------------------------------------------------------------------------
Return(w) ==
    /\ \/ /\ At(w, "done")
          /\ acked' = IF th[w].op = "insert"
                      THEN {t \in acked : ~Equal(th[w].sub, t)} \cup {th[w].sub}
                      ELSE acked
       \/ At(w, "rejected") /\ UNCHANGED acked
    /\ th' = [th EXCEPT ![w] = Idle]
    /\ UNCHANGED <<docs, minted, cache, status, asked, spent>>
    /\ Collect(heap)

\* The LRU drops an entry when it is full or the entry is an hour old.
Evict ==
    /\ status = "up"
    /\ \E k \in DOMAIN cache : cache' = [j \in DOMAIN cache \ {k} |-> cache[j]]
    /\ UNCHANGED <<docs, minted, th, status, asked, acked, spent>>
    /\ Collect(heap)

(***************************************************************************)
(* Two goroutines about to access one field of one node, one of them to    *)
(* write it: a data race.  Besides the outcomes of either order, the Go    *)
(* runtime may abort the process (concurrent map access, torn slice).      *)
(***************************************************************************)
Fields == {"child", "plus", "hash", "terminals"}

Touches(w) ==
    LET t == th[w] IN
    CASE t.pc = "store"  -> {t.tgt} \X Fields
      [] t.pc = "level" /\ Topic(w)[t.lvl] # "+"
                         -> {<<t.par, IF Topic(w)[t.lvl] = "#" THEN "hash" ELSE "child">>}
      [] t.pc = "leaf"   -> {<<t.cur, "terminals">>}
      [] t.pc = "remove" -> {<<t.cur, IF HasHash(Topic(w)) THEN "hash" ELSE "terminals">>}
      [] t.pc = "visit" /\ t.queue # <<>>
                         -> {Front(w)} \X (IF Deeper(w) THEN {"hash", "child"}
                                                        ELSE {"terminals"})
      [] t.pc = "plus"   -> {<<Front(w), "plus">>}
      [] OTHER           -> {}

RaceFault ==
    /\ status = "up"
    /\ \E v, w \in Worker : /\ v # w /\ th[v].pc = "store"
                            /\ <<th[v].tgt, th[v].upd.field>> \in Touches(w)
    /\ status' = "fault"
    /\ UNCHANGED <<docs, minted, heap, cache, th, asked, acked, spent>>

Kill ==
    /\ status = "up" /\ spent.restarts < MaxRestarts
    /\ status' = "down"
    /\ UNCHANGED <<docs, minted, heap, cache, th, asked, acked, spent>>

\* Only the collection survives the process.
Restart ==
    /\ status # "up" /\ spent.restarts < MaxRestarts
    /\ spent' = [spent EXCEPT !.restarts = @ + 1]
    /\ status' = "up"
    /\ th' = [w \in Worker |-> Idle]
    /\ heap' = <<>> /\ cache' = <<>>
    /\ UNCHANGED <<docs, minted, asked, acked>>

\* No request is in progress, or the process is not running.
Rest ==
    /\ status # "up" \/ \A w \in Worker : th[w].pc = "idle"
    /\ UNCHANGED vars

Fetch(w)  == \/ CacheHit(w) \/ CacheMiss(w) \/ FindOne(w) \/ FindNothing(w)
             \/ Fill(w) \/ Create(w)
Save(w)   == \/ Store(w) \/ ReplaceOne(w) \/ DuplicatePath(w)
             \/ ReplaceFails(w)
Insert(w) == LinkLevel(w) \/ AddTerminal(w) \/ NextLevel(w)
Match(w)  == \/ Root(w) \/ RootPlus(w) \/ VisitNode(w) \/ ExactChild(w)
             \/ VisitPlus(w) \/ PlusChild(w) \/ Descend(w)
             \/ CollectTerminals(w) \/ NilNode(w)
Run(w)    == Fetch(w) \/ Save(w) \/ Insert(w) \/ RemoveTerminal(w) \/ Match(w)
             \/ Return(w)

Next ==
    \/ \E w \in Worker : Run(w)
    \/ \E w \in Mutators : Subscribe(w) \/ Unsubscribe(w)
    \/ \E w \in Matchers : Publish(w)
    \/ Evict \/ RaceFault \/ Kill \/ Restart \/ Rest

\* A goroutine that can run is run; a database call ends by OperationTimeout.
Fairness == \A w \in Worker : WF_vars(Run(w))

Spec == Init /\ [][Next]_vars /\ Fairness
=============================================================================
