------------------------ MODULE SubscriptionTreeProps ------------------------
(***************************************************************************)
(* What the topic tree of SubscriptionTree promises, and under which       *)
(* conditions.                                                             *)
(***************************************************************************)
EXTENDS SubscriptionTree

(***************************************************************************)
(* Types.  Every document and every object is a node; every reference held *)
(* by the cache or by a goroutine is to a live object.                     *)
(***************************************************************************)
IsBag(b, S)  == DOMAIN b \subseteq S /\ \A s \in DOMAIN b : b[s] \in Nat \ {0}
IsNode(node) ==
    /\ DOMAIN node = {"n", "children", "plus", "hash", "terminals"}
    /\ node.n \in Nat
    /\ DOMAIN node.children \subseteq Level
    /\ \A l \in DOMAIN node.children : node.children[l] \in ID
    /\ node.plus \in ID
    /\ IsBag(node.hash, Sub) /\ IsBag(node.terminals, Sub)

TypeOK ==
    /\ \A p \in DOMAIN docs : p \in Path /\ IsNode(docs[p])
    /\ \A p \in DOMAIN minted : p \in Path /\ minted[p] \in Nat
    /\ \A r \in DOMAIN heap : r \in Ref /\ IsNode(heap[r])
    /\ \A k \in DOMAIN cache : k \in Key
    /\ Live \subseteq DOMAIN heap \cup {Nil}
    /\ status \in {"up", "panic", "fault", "down"}
    /\ asked \subseteq Sub /\ acked \subseteq asked

(***************************************************************************)
(* MatchTopic never reports a subscription whose filter does not cover the *)
(* published topic, nor one nobody asked for: whatever goroutines run at   *)
(* the same time, database calls fail, entries are stale or the process    *)
(* restarts.                                                               *)
(***************************************************************************)
MatchSound ==
    \A w \in Worker : th[w].op = "match" =>
        \A s \in DOMAIN th[w].got : s \in asked /\ Covers(s.topic, Topic(w))

(***************************************************************************)
(* A link from a node to a child, stored, cached or held by a goroutine,   *)
(* leads to the path one level further down and to no other.               *)
(***************************************************************************)
LinksOf(p, node) ==
    /\ \A l \in DOMAIN node.children : node.children[l].path = Append(p, l)
    /\ node.plus # NoID => node.plus.path = Append(p, "+")

LinksWellFormed ==
    /\ \A p \in DOMAIN docs : LinksOf(p, docs[p])
    /\ \A r \in DOMAIN heap : LinksOf(r.path, heap[r])

(***************************************************************************)
(* A link that is stored or held leads to a stored document, as long as no *)
(* database call failed and no save was refused, which is the lot of the   *)
(* second of two goroutines that create a node: createNode saves the child *)
(* before its parent names it.  Without it MatchTopic dereferences the nil *)
(* that getNodeByID returns, and the process goes down.                    *)
(***************************************************************************)
Exists(id) == id.path \in DOMAIN docs /\ docs[id.path].n = id.n

LinksResolve == spent.errors = 0 /\ ~spent.refused =>
    /\ status # "panic"
    /\ \A node \in {docs[p] : p \in DOMAIN docs} \cup {heap[r] : r \in DOMAIN heap} :
          /\ \A l \in DOMAIN node.children : Exists(node.children[l])
          /\ node.plus # NoID => Exists(node.plus)

(***************************************************************************)
(* An accepted subscription that was not withdrawn is stored, and the path *)
(* from the root to it is linked, so that a match with a cold cache finds  *)
(* it.                                                                     *)
(***************************************************************************)
Linked(p, q) ==       \* q is a child of p
    LET id == [path |-> q, n |-> docs[q].n] IN
    IF Last(q) = "+" THEN docs[p].plus = id
    ELSE Last(q) \in DOMAIN docs[p].children /\ docs[p].children[Last(q)] = id

Reachable(p) ==
    /\ \A i \in 1..Len(p) : Prefix(p, i) \in DOMAIN docs
    /\ \A i \in 2..Len(p) : Linked(Prefix(p, i - 1), Prefix(p, i))

InTree(s) ==
    IF Last(s.topic) = "#" /\ Len(s.topic) > 1
    THEN Reachable(Parent(s.topic)) /\ Holds(docs[Parent(s.topic)].hash, s)
    ELSE Reachable(s.topic) /\ Holds(docs[s.topic].terminals, s)

StoredSubs == UNION {DOMAIN docs[p].hash \cup DOMAIN docs[p].terminals : p \in DOMAIN docs}

Withdrawing(s) == \E w \in Worker : th[w].op = "delete" /\ Equal(th[w].sub, s)

AcceptedInTree == \A s \in acked : InTree(s)

(***************************************************************************)
(* With one goroutine, a match that met no outdated cache entry reports    *)
(* exactly the subscriptions in the tree that cover the topic, each        *)
(* without a "#" once, whatever wildcards it has.  A filter "#" alone is   *)
(* never reported: MatchTopic starts at the first level and at "+" only.   *)
(***************************************************************************)
Answered(w) == At(w, "done") /\ th[w].op = "match"

MatchExact ==
    \A w \in Worker : Answered(w) /\ ~th[w].stale =>
        /\ DOMAIN th[w].got =
             {s \in StoredSubs : /\ InTree(s) /\ s.topic # <<"#">>
                                 /\ Covers(s.topic, Topic(w))}
        /\ \A s \in DOMAIN th[w].got : Last(s.topic) # "#" => th[w].got[s] = 1

\* MatchTopic reports every accepted subscription that covers the topic.
MatchComplete ==
    \A w \in Worker : Answered(w) =>
        {s \in acked : Covers(s.topic, Topic(w))} \subseteq DOMAIN th[w].got

(***************************************************************************)
(* A stored subscription disappears only in a step of a goroutine that is  *)
(* deleting it: saving a node never overwrites somebody else's entry.      *)
(***************************************************************************)
NoCollateralLoss ==
    [][\A s \in StoredSubs \ StoredSubs' : Withdrawing(s)]_docs

(***************************************************************************)
(* With one goroutine and no failing call, InsertSubscription and          *)
(* DeleteSubscription implement the book of SubscriptionBook: a match can  *)
(* find every stored subscription, an entry is made in one step and once,  *)
(* acceptance is reported for a listed one only, and a save strikes none   *)
(* but what a running deletion withdraws, and that everywhere in the tree. *)
(***************************************************************************)
Requests == [client : Client, topic : Filters \cup Drops, qos : QoS]
Findable == {s \in StoredSubs : InTree(s)}
Leaving  == {th[w].sub : w \in {v \in Worker : th[v].op = "delete"}}

Book == INSTANCE SubscriptionBook
        WITH Sub <- Requests, book <- Findable, leaving <- Leaving

ImplementsBook == Book!Spec

(***************************************************************************)
(* Every request that was begun ends, or the process goes down.            *)
(***************************************************************************)
RequestsEnd ==
    \A w \in Worker : (th[w].pc # "idle") ~> (th[w].pc = "idle" \/ status # "up")
=============================================================================
