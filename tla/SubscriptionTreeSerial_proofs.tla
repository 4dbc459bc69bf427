------------------- MODULE SubscriptionTreeSerial_proofs --------------------
(***************************************************************************)
(* What the topic tree promises to a single goroutine, for every set of    *)
(* clients and filters, any number of requests and restarts and any        *)
(* eviction, when no database call fails: an accepted subscription is      *)
(* stored and linked until it is withdrawn, and no save loses another; a   *)
(* match that met no outdated cache entry finds exactly the stored         *)
(* subscriptions that cover its topic; and the tree implements, step by    *)
(* step, the book of SubscriptionBook.                                     *)
(***************************************************************************)
EXTENDS SubscriptionTree_proofs

Alone == (\A v, w \in Worker : v = w) /\ MaxErrors = 0

(***************************************************************************)
(* The object r is what is stored at its path.  Insertions and deletions   *)
(* look nodes up by path, and save drops that entry of the cache, so they  *)
(* work on such objects only; the entries by _id may be outdated.          *)
(***************************************************************************)
InSync(r, d, h) == r.path \in DOMAIN d /\ h[r] = d[r.path]

(***************************************************************************)
(* The first j levels of filter f are stored, each linked to the next.     *)
(***************************************************************************)
LinkedIn(node, l, id) ==
    IF l = "+" THEN node.plus = id
    ELSE l \in DOMAIN node.children /\ node.children[l] = id

IdOf(p, d) == [path |-> p, n |-> d[p].n]

Chain(f, j, d) ==
    /\ \A i \in 1..j : Prefix(f, i) \in DOMAIN d
    /\ \A i \in 2..j : LinkedIn(d[Prefix(f, i - 1)], f[i], IdOf(Prefix(f, i), d))

Given(s, d) ==
    IF Last(s.topic) = "#" /\ Len(s.topic) > 1
    THEN Chain(s.topic, Len(s.topic) - 1, d) /\ Holds(d[Parent(s.topic)].hash, s)
    ELSE Chain(s.topic, Len(s.topic), d) /\ Holds(d[s.topic].terminals, s)

(***************************************************************************)
(* What the save of a goroutine with locals u leaves of the node it        *)
(* replaces: everything but the subscription it withdraws.                 *)
(***************************************************************************)
Withdraws(u, t) == u.op = "delete" /\ Equal(u.sub, t)

Keeps(u, old, new) ==
    /\ new.n = old.n
    /\ \A l \in DOMAIN old.children : /\ l \in DOMAIN new.children
                                      /\ new.children[l] = old.children[l]
    /\ old.plus # NoID => new.plus = old.plus
    /\ \A t \in DOMAIN old.hash : t \in DOMAIN new.hash \/ Withdraws(u, t)
    /\ \A t \in DOMAIN old.terminals : t \in DOMAIN new.terminals \/ Withdraws(u, t)

DocsKeep(u, d, e) == \A p \in DOMAIN d : p \in DOMAIN e /\ Keeps(u, d[p], e[p])

(***************************************************************************)
(* What the node an insertion is saving will add to the tree: the link to  *)
(* its level, the entry at the last level, or the "#" entry above it.      *)
(***************************************************************************)
Promise(u, node, d) ==
    LET f == u.sub.topic IN
    \/ /\ u.ret = "leaf" /\ u.tgt = u.par /\ u.lvl > 1 /\ f[u.lvl] # "#"
       /\ LinkedIn(node, f[u.lvl], IdOf(u.cur.path, d))
    \/ /\ u.ret = "next" /\ u.tgt = u.cur /\ u.lvl = Len(f)
       /\ Holds(node.terminals, u.sub)
    \/ /\ u.ret = "done" /\ u.tgt = u.par /\ u.lvl > 1 /\ u.lvl = Len(f) /\ f[u.lvl] = "#"
       /\ Holds(node.hash, u.sub)

SaveOK(u, d, h, c) ==
    /\ u.pc = "store" => Keeps(u, d[u.tgt.path], Put(h[u.tgt], u.upd))
    /\ u.pc = "replace" => /\ h[u.tgt] = u.buf /\ PathKey(u.tgt.path) \notin DOMAIN c
                           /\ u.ret # "level" => /\ u.tgt.path \in DOMAIN d
                                                 /\ Keeps(u, d[u.tgt.path], u.buf)

\* The level u is at is linked.
LinkedUp(u) == u.pc \in {"leaf", "next"} \/ (u.pc \in InSave /\ u.ret = "next")

Settled(u, r, d, h) == InSync(r, d, h) \/ (u.pc = "replace" /\ u.tgt = r)

InsertSerial(u, d, h) ==
    LET f == u.sub.topic IN
    /\ u.key = PathKey(u.key.path)
    /\ u.lvl > 1 => Settled(u, u.par, d, h)
    /\ u.pc \notin {"lookup", "find", "create"} => Settled(u, u.cur, d, h)
    /\ u.pc = "create" \/ (u.pc = "replace" /\ u.ret = "level") => u.key.path \notin DOMAIN d
    /\ u.pc = "replace" /\ u.ret = "level" => u.tgt = u.cur
    /\ u.pc = "store" => Promise(u, Put(h[u.tgt], u.upd), d)
    /\ u.pc = "replace" /\ u.ret # "level" => Promise(u, u.buf, d)
    /\ u.pc # "rejected" => Chain(f, u.lvl - 1, d)
    /\ LinkedUp(u) => Chain(f, u.lvl, d) /\ (u.lvl = Len(f) /\ u.lvl > 1 => f[u.lvl] # "#")
    /\ u.pc = "next" /\ u.lvl = Len(f) => Holds(d[f].terminals, u.sub)
    /\ u.pc = "done" => Given(u.sub, d)

DeleteSerial(u, d, h, A) ==
    /\ u.key = PathKey(u.key.path)
    /\ u.cur # Nil => Settled(u, u.cur, d, h)
    /\ u.pc \in InSave => u.tgt = u.cur
    /\ \A t \in A : ~Equal(u.sub, t)

ThreadSerial(u, d, h, c, A) ==
    /\ SaveOK(u, d, h, c)
    /\ u.op = "insert" => InsertSerial(u, d, h)
    /\ u.op = "delete" => DeleteSerial(u, d, h, A)
    /\ u.pc = "fill" => InSync(u.cur, d, h)

CacheSerial(c, d, h) == \A p : PathKey(p) \in DOMAIN c => InSync(c[PathKey(p)], d, h)

AckedSerial(A, d) == \A s \in A : s.topic \in Path \ {<<>>} /\ Given(s, d)

SInv ==
    /\ Unharmed
    /\ CacheSerial(cache, docs, heap)
    /\ \A w \in Worker : ThreadSerial(th[w], docs, heap, cache, acked)
    /\ AckedSerial(acked, docs)
-----------------------------------------------------------------------------
LEMMA KeepsItself ==
  ASSUME NEW u, NEW d
  PROVE  (\A node : Keeps(u, node, node)) /\ DocsKeep(u, d, d)
  BY DEF Keeps, DocsKeep

LEMMA ChainKept ==
  ASSUME NEW u, NEW d, NEW e, DocsKeep(u, d, e), NEW f \in Path, NEW j \in 0..Len(f),
         Chain(f, j, d)
  PROVE  Chain(f, j, e)
<1>1. \A i \in 1..j : Prefix(f, i) \in DOMAIN e
  BY DEF Chain, DocsKeep
<1>2. ASSUME NEW i \in 2..j
      PROVE  LinkedIn(e[Prefix(f, i - 1)], f[i], IdOf(Prefix(f, i), e))
  <2>1. i \in 1..j /\ i - 1 \in 1..j /\ i \in 1..Len(f)
    OBVIOUS
  <2> DEFINE p == Prefix(f, i - 1)
             q == Prefix(f, i)
  <2>2. q \in Seq(Token) /\ Len(q) = i
    BY <2>1, PrefixFacts DEF Path
  <2>3. q # <<>>
    BY <2>1, <2>2
  <2>4. /\ p \in DOMAIN d /\ q \in DOMAIN d /\ LinkedIn(d[p], f[i], IdOf(q, d))
        /\ Keeps(u, d[p], e[p]) /\ Keeps(u, d[q], e[q])
    BY <2>1 DEF Chain, DocsKeep
  <2> HIDE DEF p, q
  <2>5. IdOf(q, e) = IdOf(q, d) /\ IdOf(q, d) # NoID
    BY <2>3, <2>4 DEF IdOf, Keeps, NoID
  <2>6. LinkedIn(e[p], f[i], IdOf(q, e))
    BY <2>4, <2>5 DEF LinkedIn, Keeps
  <2> QED BY <2>6 DEF p, q
<1> QED BY <1>1, <1>2 DEF Chain

LEMMA LengthFacts ==
  ASSUME NEW f \in Path \ {<<>>}
  PROVE  /\ Len(f) \in 1..Len(f) /\ Len(f) \in 0..Len(f) /\ Len(f) - 1 \in 0..Len(f)
         /\ Last(f) = f[Len(f)] /\ Prefix(f, Len(f)) = f
         /\ Len(f) > 1 => /\ Len(f) - 1 \in 1..Len(f)
                          /\ Parent(f) = Prefix(f, Len(f) - 1)
<1>1. Len(f) \in Nat \ {0}
  BY EmptySeq DEF Path
<1>2. Prefix(f, Len(f)) = f /\ (Len(f) > 1 => Parent(f) = Prefix(f, Len(f) - 1))
  BY PrefixAll, ParentFacts DEF Path
<1> QED BY <1>1, <1>2 DEF Last

LEMMA GivenKept ==
  ASSUME NEW u, NEW d, NEW e, DocsKeep(u, d, e), NEW s, s.topic \in Path \ {<<>>},
         ~Withdraws(u, s), Given(s, d)
  PROVE  Given(s, e)
<1> DEFINE f == s.topic
           p == Parent(f)
<1>1. \A t : Withdraws(u, t) => ~Equal(s, t)
  BY DEF Withdraws, Equal
<1>2. CASE Last(f) = "#" /\ Len(f) > 1
  <2>1. Chain(f, Len(f) - 1, d) /\ Holds(d[p].hash, s)
    BY <1>2 DEF Given
  <2>2. Chain(f, Len(f) - 1, e)
    BY <2>1, LengthFacts, ChainKept
  <2>3. p \in DOMAIN d
    <3>1. Len(f) - 1 \in 1..(Len(f) - 1) /\ p = Prefix(f, Len(f) - 1)
      BY <1>2, LengthFacts
    <3> QED BY <3>1, <2>1 DEF Chain
  <2>4. Holds(e[p].hash, s)
    <3>1. PICK t \in DOMAIN d[p].hash : Equal(s, t)
      BY <2>1 DEF Holds
    <3>2. Keeps(u, d[p], e[p])
      BY <2>3 DEF DocsKeep
    <3>3. t \in DOMAIN e[p].hash
      BY <1>1, <3>1, <3>2 DEF Keeps
    <3> QED BY <3>1, <3>3 DEF Holds
  <2> QED BY <1>2, <2>2, <2>4 DEF Given
<1>3. CASE ~(Last(f) = "#" /\ Len(f) > 1)
  <2>1. Chain(f, Len(f), d) /\ Holds(d[f].terminals, s)
    BY <1>3 DEF Given
  <2>2. Chain(f, Len(f), e)
    BY <2>1, LengthFacts, ChainKept
  <2>3. f \in DOMAIN d
    BY <2>1, LengthFacts DEF Chain
  <2>4. Holds(e[f].terminals, s)
    <3>1. PICK t \in DOMAIN d[f].terminals : Equal(s, t)
      BY <2>1 DEF Holds
    <3>2. Keeps(u, d[f], e[f])
      BY <2>3 DEF DocsKeep
    <3>3. t \in DOMAIN e[f].terminals
      BY <1>1, <3>1, <3>2 DEF Keeps
    <3> QED BY <3>1, <3>3 DEF Holds
  <2> QED BY <1>3, <2>2, <2>4 DEF Given
<1> QED BY <1>2, <1>3

\* Given is the definition of InTree, read along the filter.
LEMMA GivenInTree ==
  ASSUME NEW s, s.topic \in Path \ {<<>>}, Given(s, docs)
  PROVE  InTree(s)
<1> DEFINE f == s.topic
<1>1. ASSUME NEW j \in 1..Len(f), Chain(f, j, docs) PROVE Reachable(Prefix(f, j))
  <2> DEFINE p == Prefix(f, j)
  <2>1. Len(p) = j /\ p \in Seq(Token) /\ \A i \in 1..j : p[i] = f[i]
    BY PrefixFacts DEF Path
  <2>2. ASSUME NEW i \in 1..j PROVE Prefix(p, i) = Prefix(f, i) /\ Last(Prefix(f, i)) = f[i]
    <3>1. /\ Prefix(p, i) \in Seq(Token) /\ Len(Prefix(p, i)) = i
          /\ \A x \in 1..i : Prefix(p, i)[x] = p[x]
      BY <2>1, PrefixFacts
    <3>2. /\ Prefix(f, i) \in Seq(Token) /\ Len(Prefix(f, i)) = i
          /\ \A x \in 1..i : Prefix(f, i)[x] = f[x]
      BY PrefixFacts DEF Path
    <3>3. \A x \in 1..i : Prefix(p, i)[x] = Prefix(f, i)[x]
      BY <2>1, <3>1, <3>2
    <3>4. Prefix(p, i) = Prefix(f, i)
      BY <3>1, <3>2, <3>3, SeqEqual
    <3> QED BY <3>2, <3>4 DEF Last
  <2> HIDE DEF p
  <2>3. \A i \in 1..Len(p) : Prefix(p, i) \in DOMAIN docs
    BY <1>1, <2>1, <2>2 DEF Chain
  <2>4. \A i \in 2..Len(p) : Linked(Prefix(p, i - 1), Prefix(p, i))
    <3> TAKE i \in 2..Len(p)
    <3>1. i \in 1..j /\ i - 1 \in 1..j /\ i \in 2..j
      BY <2>1
    <3>2. LinkedIn(docs[Prefix(f, i - 1)], f[i], IdOf(Prefix(f, i), docs))
      BY <1>1, <3>1 DEF Chain
    <3>3. /\ Prefix(p, i) = Prefix(f, i) /\ Prefix(p, i - 1) = Prefix(f, i - 1)
          /\ Last(Prefix(f, i)) = f[i]
      BY <3>1, <2>2
    <3> QED BY <3>2, <3>3 DEF Linked, LinkedIn, IdOf
  <2>5. Reachable(p)
    BY <2>3, <2>4 DEF Reachable
  <2> QED BY <2>5 DEF p
<1>2. CASE Last(f) = "#" /\ Len(f) > 1
  BY <1>1, <1>2, LengthFacts DEF Given, InTree
<1>3. CASE ~(Last(f) = "#" /\ Len(f) > 1)
  BY <1>1, <1>3, LengthFacts DEF Given, InTree
<1> QED BY <1>2, <1>3
-----------------------------------------------------------------------------
LEMMA SCarry ==
  ASSUME NEW t, NEW A, NEW B, NEW d, NEW c, NEW h, NEW g, ThreadOK(t, B),
         \A r \in {t.cur, t.par, t.tgt} \ {Nil} : g[r] = h[r],
         ThreadSerial(t, d, h, c, A)
  PROVE  ThreadSerial(t, d, g, c, A)
<1>1. \A r \in {t.cur, t.par, t.tgt} \ {Nil} : Settled(t, r, d, h) => Settled(t, r, d, g)
  BY DEF Settled, InSync
<1>2. t.pc \in InSave => t.tgt # Nil /\ g[t.tgt] = h[t.tgt]
  BY DEF ThreadOK
<1>3. SaveOK(t, d, g, c)
  BY <1>2 DEF ThreadSerial, SaveOK, InSave
<1>4. t.op = "insert" => InsertSerial(t, d, g)
  <2> SUFFICES ASSUME t.op = "insert" PROVE InsertSerial(t, d, g)
    OBVIOUS
  <2>1. InsertOK(t, B) /\ InsertSerial(t, d, h)
    BY DEF ThreadOK, ThreadSerial
  <2>2. t.lvl > 1 => Settled(t, t.par, d, g)
    BY <2>1, <1>1 DEF InsertOK, InsertSerial
  <2>3. t.pc \notin {"lookup", "find", "create"} => Settled(t, t.cur, d, g)
    BY <2>1, <1>1 DEF InsertOK, InsertSerial
  <2>4. t.pc = "store" => Promise(t, Put(g[t.tgt], t.upd), d)
    BY <2>1, <1>2 DEF InsertSerial, InSave
  <2> QED BY <2>1, <2>2, <2>3, <2>4 DEF InsertSerial
<1>5. t.op = "delete" => DeleteSerial(t, d, g, A)
  BY <1>1 DEF ThreadSerial, DeleteSerial
<1>6. t.pc = "fill" => InSync(t.cur, d, g)
  BY DEF ThreadSerial, ThreadOK, InSync
<1> QED BY <1>3, <1>4, <1>5, <1>6 DEF ThreadSerial

(***************************************************************************)
(* A step of the only goroutine w that leaves it with the locals t and     *)
(* memory with the objects h, before the collector.                        *)
(***************************************************************************)
LEMMA SStep ==
  ASSUME Alone, IInv, IInv', NEW w \in Worker, NEW t, NEW h,
         th' = [th EXCEPT ![w] = t],
         DOMAIN heap' \subseteq DOMAIN h, \A r \in DOMAIN heap' : heap'[r] = h[r],
         Unharmed', CacheSerial(cache', docs', h),
         ThreadSerial(t, docs', h, cache', acked'), AckedSerial(acked', docs')
  PROVE  SInv'
<1>1. \A v \in Worker : th'[v] = t
  BY DEF Alone, IInv
<1>2. ThreadOK(t, asked') /\ Held(t) \subseteq DOMAIN heap' \cup {Nil}
  BY <1>1 DEF IInv
<1>3. \A r \in {t.cur, t.par, t.tgt} \ {Nil} : heap'[r] = h[r]
  BY <1>2 DEF Held
<1>4. ThreadSerial(t, docs', heap', cache', acked')
  BY <1>2, <1>3, SCarry
<1>5. CacheSerial(cache', docs', heap')
  <2>1. \A k \in DOMAIN cache' : cache'[k] \in DOMAIN heap'
    BY DEF IInv, MemoryOK
  <2> QED BY <2>1 DEF CacheSerial, InSync
<1> QED BY <1>1, <1>4, <1>5 DEF SInv

\* The same where neither the collection nor the cache changes.
LEMMA SLocal ==
  ASSUME Alone, IInv, IInv', SInv, NEW w \in Worker, NEW t, Local(w, t),
         ThreadSerial(t, docs, heap, cache, acked)
  PROVE  SInv'
<1>1. /\ th' = [th EXCEPT ![w] = t] /\ docs' = docs /\ cache' = cache /\ acked' = acked
      /\ spent' = spent
      /\ heap' = [r \in DOMAIN heap \cap Live' |-> heap[r]]
  BY DEF Local, Collect
<1>2. DOMAIN heap' \subseteq DOMAIN heap /\ \A r \in DOMAIN heap' : heap'[r] = heap[r]
  BY <1>1
<1>3. /\ Unharmed' /\ CacheSerial(cache', docs', heap) /\ AckedSerial(acked', docs')
      /\ ThreadSerial(t, docs', heap, cache', acked')
  BY <1>1 DEF SInv, Unharmed
<1> QED BY <1>1, <1>2, <1>3, SStep

LEMMA HitSerial ==
  ASSUME Alone, IInv, IInv', SInv, NEW w \in Worker, CacheHit(w)
  PROVE  SInv'
<1> DEFINE u == th[w]
           b == u.stale \/ u.key.path \notin DOMAIN docs
                \/ heap[cache[u.key]] # docs[u.key.path]
           t == [u EXCEPT !.cur = cache[u.key], !.pc = u.ret, !.stale = b]
<1>1. u.pc = "lookup" /\ u.key \in DOMAIN cache /\ Local(w, t)
  BY DEF CacheHit, At
<1>2. ThreadOK(u, asked) /\ ThreadSerial(u, docs, heap, cache, acked)
  BY DEF IInv, SInv
<1>3. Differ(t, u, {"cur", "pc", "stale"}) /\ t.cur = cache[u.key] /\ t.pc = u.ret
  BY <1>2 DEF ThreadOK, Differ, Idle
<1> HIDE DEF t
<1>4. u.key = PathKey(u.key.path) => InSync(t.cur, docs, heap)
  BY <1>1, <1>3 DEF SInv, CacheSerial
<1>5. t.pc \notin {"store", "replace"} \cup InLookup
  BY <1>1, <1>2, <1>3 DEF ThreadOK, InsertOK, DeleteOK, MatchOK, InLookup, InSave
<1>6. u.op = "insert" => InsertSerial(t, docs, heap)
  <2> SUFFICES ASSUME u.op = "insert" PROVE InsertSerial(t, docs, heap)
    OBVIOUS
  <2>1. InsertSerial(u, docs, heap) /\ u.ret = "level"
    BY <1>1, <1>2 DEF ThreadOK, InsertOK, ThreadSerial, InLookup
  <2> QED BY <2>1, <1>1, <1>3, <1>4 DEF InsertSerial, Settled, LinkedUp, Differ, Idle, InSave
<1>7. u.op = "delete" => DeleteSerial(t, docs, heap, acked)
  BY <1>1, <1>2, <1>3, <1>4, <1>5 DEF ThreadSerial, DeleteSerial, Settled, Differ, Idle, InSave
<1>8. ThreadSerial(t, docs, heap, cache, acked)
  BY <1>3, <1>5, <1>6, <1>7 DEF ThreadSerial, SaveOK, Differ, Idle, InLookup
<1> QED BY <1>1, <1>8, SLocal

LEMMA MissSerial ==
  ASSUME Alone, IInv, IInv', SInv, NEW w \in Worker, CacheMiss(w)
  PROVE  SInv'
<1> DEFINE u == th[w]
           t == [u EXCEPT !.pc = "find"]
<1>1. u.pc = "lookup" /\ Local(w, t)
  BY DEF CacheMiss, At, Goto
<1>2. ThreadOK(u, asked) /\ ThreadSerial(u, docs, heap, cache, acked)
  BY DEF IInv, SInv
<1>3. Differ(t, u, {"pc"}) /\ t.pc = "find"
  BY <1>2 DEF ThreadOK, Differ, Idle
<1> HIDE DEF t
<1>4. u.op = "insert" => InsertSerial(t, docs, heap)
  BY <1>1, <1>2, <1>3 DEF ThreadSerial, InsertSerial, Settled, LinkedUp, Differ, Idle, InSave
<1>5. u.op = "delete" => DeleteSerial(t, docs, heap, acked)
  BY <1>1, <1>2, <1>3 DEF ThreadSerial, DeleteSerial, Settled, Differ, Idle, InSave
<1>6. ThreadSerial(t, docs, heap, cache, acked)
  BY <1>3, <1>4, <1>5 DEF ThreadSerial, SaveOK, Differ, Idle
<1> QED BY <1>1, <1>6, SLocal

LEMMA FindOneSerial ==
  ASSUME Alone, IInv, IInv', SInv, NEW w \in Worker, FindOne(w)
  PROVE  SInv'
<1> DEFINE u == th[w]
           k == u.key
           r == NewRef(k.path)
           t == [u EXCEPT !.cur = r, !.pc = "fill"]
           h == [q \in DOMAIN heap \cup {r} |-> IF q = r THEN docs[k.path] ELSE heap[q]]
<1>1. /\ u.pc = "find" /\ Stored(k) /\ FreeSlots(k.path) # {}
      /\ cache' = cache /\ docs' = docs /\ acked' = acked /\ spent' = spent
      /\ th' = [th EXCEPT ![w] = t]
      /\ heap' = [q \in DOMAIN h \cap Live' |-> h[q]]
  BY DEF FindOne, At, Allocate, Collect
<1>2. /\ ThreadOK(u, asked) /\ Held(u) \subseteq DOMAIN heap \cup {Nil}
      /\ ThreadSerial(u, docs, heap, cache, acked)
  BY DEF IInv, SInv
<1>3. Differ(t, u, {"cur", "pc"}) /\ t.cur = r /\ t.pc = "fill"
  BY <1>2 DEF ThreadOK, Differ, Idle
<1>4. r \notin DOMAIN heap /\ r.path = k.path
  BY <1>1 DEF NewRef, FreeSlots
<1>5. /\ DOMAIN h = DOMAIN heap \cup {r} /\ h[r] = docs[k.path]
      /\ \A q \in DOMAIN heap : q \in DOMAIN h /\ h[q] = heap[q]
  BY <1>4
<1>6. DOMAIN heap' \subseteq DOMAIN h /\ \A q \in DOMAIN heap' : heap'[q] = h[q]
  BY <1>1
<1> HIDE DEF t, h, r
<1>7. InSync(r, docs, h)
  BY <1>1, <1>4, <1>5 DEF InSync, Stored
<1>8. CacheSerial(cache, docs, h)
  BY <1>5 DEF SInv, CacheSerial, InSync, IInv, MemoryOK
<1>9. u.op = "insert" => InsertSerial(t, docs, h)
  <2> SUFFICES ASSUME u.op = "insert" PROVE InsertSerial(t, docs, h)
    OBVIOUS
  <2>1. InsertSerial(u, docs, heap) /\ u.ret = "level" /\ InsertOK(u, asked)
    BY <1>1, <1>2 DEF ThreadOK, InsertOK, ThreadSerial, InLookup
  <2>2. u.lvl > 1 => InSync(u.par, docs, h)
    <3>1. u.lvl > 1 => u.par \in DOMAIN heap
      BY <2>1, <1>2 DEF InsertOK, Held
    <3> QED BY <3>1, <2>1, <1>1, <1>5 DEF InsertSerial, Settled, InSync
  <2> QED BY <2>1, <2>2, <1>1, <1>3, <1>7 DEF InsertSerial, Settled, LinkedUp, Differ, Idle, InSave
<1>10. u.op = "delete" => DeleteSerial(t, docs, h, acked)
  BY <1>1, <1>2, <1>3, <1>7 DEF ThreadSerial, DeleteSerial, Settled, Differ, Idle, InSave
<1>11. ThreadSerial(t, docs, h, cache, acked)
  BY <1>3, <1>7, <1>9, <1>10 DEF ThreadSerial, SaveOK, Differ, Idle
<1>12. Unharmed' /\ AckedSerial(acked, docs)
  BY <1>1 DEF SInv, Unharmed
<1> QED BY <1>1, <1>6, <1>8, <1>11, <1>12, SStep

\* No call fails, so what is not found is not there.
LEMMA FindNothingSerial ==
  ASSUME Alone, IInv, IInv', SInv, NEW w \in Worker, FindNothing(w)
  PROVE  SInv'
<1> DEFINE u == th[w]
           l == IF u.op = "insert" THEN "create" ELSE u.ret
           t == [u EXCEPT !.pc = l]
<1>1. /\ u.pc = "find" /\ ~Stored(u.key)
      /\ cache' = cache /\ docs' = docs /\ acked' = acked /\ spent' = spent
      /\ th' = [th EXCEPT ![w] = t]
      /\ heap' = [q \in DOMAIN heap \cap Live' |-> heap[q]]
  BY DEF FindNothing, At, Collect, SInv, Unharmed, Alone
<1>2. ThreadOK(u, asked) /\ ThreadSerial(u, docs, heap, cache, acked)
  BY DEF IInv, SInv
<1>3. Differ(t, u, {"pc"}) /\ t.pc = l
  BY <1>2 DEF ThreadOK, Differ, Idle
<1>4. DOMAIN heap' \subseteq DOMAIN heap /\ \A q \in DOMAIN heap' : heap'[q] = heap[q]
  BY <1>1
<1> HIDE DEF t
<1>5. t.pc \notin {"store", "replace", "fill"}
  BY <1>1, <1>2, <1>3 DEF ThreadOK, InsertOK, DeleteOK, MatchOK, InLookup, InSave
<1>6. u.op = "insert" => InsertSerial(t, docs, heap)
  <2> SUFFICES ASSUME u.op = "insert" PROVE InsertSerial(t, docs, heap)
    OBVIOUS
  <2>1. InsertSerial(u, docs, heap)
    BY <1>2 DEF ThreadSerial
  <2>2. u.key.path \notin DOMAIN docs
    BY <2>1, <1>1 DEF InsertSerial, Stored, PathKey
  <2> QED BY <2>1, <2>2, <1>1, <1>3 DEF InsertSerial, Settled, LinkedUp, Differ, Idle, InSave
<1>7. u.op = "delete" => DeleteSerial(t, docs, heap, acked)
  BY <1>1, <1>2, <1>3, <1>5 DEF ThreadSerial, DeleteSerial, Settled, Differ, Idle, InSave
<1>8. ThreadSerial(t, docs, heap, cache, acked)
  BY <1>3, <1>5, <1>6, <1>7 DEF ThreadSerial, SaveOK, Differ, Idle
<1>9. Unharmed' /\ AckedSerial(acked, docs) /\ CacheSerial(cache, docs, heap)
  BY <1>1 DEF SInv, Unharmed
<1> QED BY <1>1, <1>4, <1>8, <1>9, SStep

LEMMA FillSerial ==
  ASSUME Alone, IInv, IInv', SInv, NEW w \in Worker, Fill(w)
  PROVE  SInv'
<1> DEFINE u == th[w]
           t == [u EXCEPT !.pc = u.ret]
<1>1. /\ u.pc = "fill" /\ docs' = docs /\ acked' = acked /\ spent' = spent
      /\ th' = [th EXCEPT ![w] = t]
      /\ cache' = [j \in DOMAIN cache \cup {u.key} |->
                      IF j = u.key THEN u.cur ELSE cache[j]]
      /\ heap' = [q \in DOMAIN heap \cap Live' |-> heap[q]]
  BY DEF Fill, At, Collect
<1>2. ThreadOK(u, asked) /\ ThreadSerial(u, docs, heap, cache, acked)
  BY DEF IInv, SInv
<1>3. Differ(t, u, {"pc"}) /\ t.pc = u.ret
  BY <1>2 DEF ThreadOK, Differ, Idle
<1>4. DOMAIN heap' \subseteq DOMAIN heap /\ \A q \in DOMAIN heap' : heap'[q] = heap[q]
  BY <1>1
<1> HIDE DEF t
<1>5. t.pc \notin {"store", "replace"} \cup InLookup
  BY <1>1, <1>2, <1>3 DEF ThreadOK, InsertOK, DeleteOK, MatchOK, InLookup, InSave
<1>6. CacheSerial(cache', docs, heap)
  BY <1>1, <1>2 DEF SInv, CacheSerial, ThreadSerial
<1>7. u.op = "insert" => InsertSerial(t, docs, heap)
  <2> SUFFICES ASSUME u.op = "insert" PROVE InsertSerial(t, docs, heap)
    OBVIOUS
  <2>1. InsertSerial(u, docs, heap) /\ u.ret = "level"
    BY <1>1, <1>2 DEF ThreadOK, InsertOK, ThreadSerial, InLookup
  <2> QED BY <2>1, <1>1, <1>3 DEF InsertSerial, Settled, LinkedUp, Differ, Idle, InSave
<1>8. u.op = "delete" => DeleteSerial(t, docs, heap, acked)
  BY <1>1, <1>2, <1>3, <1>5 DEF ThreadSerial, DeleteSerial, Settled, Differ, Idle, InSave
<1>9. ThreadSerial(t, docs, heap, cache', acked)
  BY <1>3, <1>5, <1>7, <1>8 DEF ThreadSerial, SaveOK, Differ, Idle, InLookup
<1>10. Unharmed' /\ AckedSerial(acked, docs)
  BY <1>1 DEF SInv, Unharmed
<1> QED BY <1>1, <1>4, <1>6, <1>9, <1>10, SStep

LEMMA CreateSerial ==
  ASSUME Alone, IInv, IInv', SInv, NEW w \in Worker, Create(w)
  PROVE  SInv'
<1> DEFINE u == th[w]
           p == u.key.path
           n == IF p \in DOMAIN minted THEN minted[p] + 1 ELSE 1
           r == NewRef(p)
           t == [u EXCEPT !.cur = r, !.tgt = r, !.buf = NewNode(n), !.pc = "replace"]
           h == [q \in DOMAIN heap \cup {r} |-> IF q = r THEN NewNode(n) ELSE heap[q]]
<1>1. /\ u.pc = "create" /\ FreeSlots(p) # {}
      /\ docs' = docs /\ acked' = acked /\ spent' = spent
      /\ cache' = [k \in DOMAIN cache \ {PathKey(p)} |-> cache[k]]
      /\ th' = [th EXCEPT ![w] = t]
      /\ heap' = [q \in DOMAIN h \cap Live' |-> h[q]]
  BY DEF Create, At, Allocate, Collect, Uncached
<1>2. /\ ThreadOK(u, asked) /\ Held(u) \subseteq DOMAIN heap \cup {Nil}
      /\ ThreadSerial(u, docs, heap, cache, acked)
  BY DEF IInv, SInv
<1>3. /\ Differ(t, u, {"cur", "tgt", "buf", "pc"})
      /\ t.cur = r /\ t.tgt = r /\ t.buf = NewNode(n) /\ t.pc = "replace"
  BY <1>2 DEF ThreadOK, Differ, Idle
<1>4. r \notin DOMAIN heap /\ r.path = p
  BY <1>1 DEF NewRef, FreeSlots
<1>5. /\ DOMAIN h = DOMAIN heap \cup {r} /\ h[r] = NewNode(n)
      /\ \A q \in DOMAIN heap : q \in DOMAIN h /\ h[q] = heap[q]
  BY <1>4
<1>6. DOMAIN heap' \subseteq DOMAIN h /\ \A q \in DOMAIN heap' : heap'[q] = h[q]
  BY <1>1
<1> HIDE DEF t, h, r, n
<1>7. CacheSerial(cache', docs, h)
  BY <1>1, <1>5 DEF SInv, CacheSerial, InSync, IInv, MemoryOK
<1>8. /\ u.op = "insert" /\ u.ret = "level" /\ InsertOK(u, asked)
      /\ InsertSerial(u, docs, heap)
  BY <1>1, <1>2 DEF ThreadOK, InsertOK, DeleteOK, MatchOK, InLookup, InSave, ThreadSerial
<1>9. InsertSerial(t, docs, h)
  <2>1. u.lvl > 1 => InSync(u.par, docs, h)
    <3>1. u.lvl > 1 => u.par \in DOMAIN heap
      BY <1>8, <1>2 DEF InsertOK, Held
    <3> QED BY <3>1, <1>8, <1>1, <1>5 DEF InsertSerial, Settled, InSync
  <2> QED BY <2>1, <1>1, <1>3, <1>8 DEF InsertSerial, Settled, LinkedUp, Differ, Idle, InSave
<1>10. SaveOK(t, docs, h, cache')
  BY <1>1, <1>3, <1>4, <1>5, <1>8 DEF SaveOK, Differ, Idle
<1>11. ThreadSerial(t, docs, h, cache', acked)
  BY <1>3, <1>8, <1>9, <1>10 DEF ThreadSerial, Differ, Idle
<1>12. Unharmed' /\ AckedSerial(acked, docs)
  BY <1>1 DEF SInv, Unharmed
<1> QED BY <1>1, <1>6, <1>7, <1>11, <1>12, SStep
-----------------------------------------------------------------------------
(***************************************************************************)
(* Saving a node.                                                          *)
(***************************************************************************)
LEMMA StoreSerial ==
  ASSUME Alone, IInv, IInv', SInv, AllResolve, NEW w \in Worker, Store(w)
  PROVE  SInv'
<1> DEFINE u == th[w]
           r == u.tgt
           node == Put(heap[r], u.upd)
           t == [u EXCEPT !.pc = "replace", !.buf = node, !.upd = NoUpdate]
           h == [heap EXCEPT ![r] = node]
<1>1. /\ u.pc = "store" /\ docs' = docs /\ acked' = acked /\ spent' = spent
      /\ cache' = [k \in DOMAIN cache \ {PathKey(r.path)} |-> cache[k]]
      /\ th' = [th EXCEPT ![w] = t]
      /\ heap' = [q \in DOMAIN h \cap Live' |-> h[q]]
  BY DEF Store, At, Collect, Uncached
<1>2. /\ ThreadOK(u, asked) /\ Held(u) \subseteq DOMAIN heap \cup {Nil}
      /\ ThreadSerial(u, docs, heap, cache, acked) /\ u.ret # "level"
  BY <1>1 DEF IInv, SInv, AllResolve, ThreadResolves
<1>3. Differ(t, u, {"pc", "buf", "upd"}) /\ t.pc = "replace" /\ t.buf = node
  BY <1>2 DEF ThreadOK, Differ, Idle
<1>4. r \in DOMAIN heap
  BY <1>1, <1>2 DEF ThreadOK, Held, InSave
<1>5. /\ u.op \in {"insert", "delete"}
      /\ u.op = "insert" => /\ InsertSerial(u, docs, heap)
                            /\ Promise(u, node, docs) /\ u.cur # Nil
                            /\ u.lvl > 1 => u.par # Nil
  BY <1>1, <1>2 DEF ThreadOK, MatchOK, InsertOK, InLookup, InSave, ThreadSerial, InsertSerial
<1>6. InSync(r, docs, heap) /\ Keeps(u, docs[r.path], node)
  <2>1. Keeps(u, docs[r.path], node)
    BY <1>1, <1>2 DEF ThreadSerial, SaveOK
  <2>2. CASE u.op = "insert"
    BY <2>2, <2>1, <1>1, <1>5 DEF Promise, InsertSerial, Settled
  <2>3. CASE u.op = "delete"
    BY <2>1, <2>3, <1>1, <1>2 DEF ThreadSerial, DeleteSerial, Settled, InSave, ThreadOK
  <2> QED BY <2>2, <2>3, <1>5
<1>7. DOMAIN heap' \subseteq DOMAIN h /\ \A q \in DOMAIN heap' : heap'[q] = h[q]
  BY <1>1
<1> HIDE DEF node
<1>8. DOMAIN h = DOMAIN heap /\ h[r] = node /\ \A q \in DOMAIN heap \ {r} : h[q] = heap[q]
  BY <1>4
<1> HIDE DEF t, h
<1>9. CacheSerial(cache', docs, h)
  <2>1. ASSUME NEW p, PathKey(p) \in DOMAIN cache' PROVE InSync(cache'[PathKey(p)], docs, h)
    <3> DEFINE q == cache[PathKey(p)]
    <3>1. /\ PathKey(p) \in DOMAIN cache /\ p # r.path
          /\ cache'[PathKey(p)] = q
      BY <1>1, <2>1
    <3>2. q \in DOMAIN heap /\ q.path = p
      BY <3>1 DEF IInv, MemoryOK, PathKey
    <3>3. InSync(q, docs, heap)
      BY <3>1 DEF SInv, CacheSerial
    <3>4. h[q] = heap[q]
      BY <3>1, <3>2, <1>8
    <3> QED BY <3>1, <3>3, <3>4 DEF InSync
  <2> QED BY <2>1 DEF CacheSerial
<1>10. \A q \in DOMAIN heap : InSync(q, docs, heap) => Settled(t, q, docs, h)
  BY <1>3, <1>8 DEF Settled, InSync, Differ, Idle
<1>11. SaveOK(t, docs, h, cache')
  <2>1. PathKey(t.tgt.path) \notin DOMAIN cache'
    BY <1>1, <1>3 DEF Differ, Idle
  <2>2. Keeps(t, docs[t.tgt.path], t.buf) /\ t.tgt.path \in DOMAIN docs
    BY <1>3, <1>6 DEF Differ, Idle, Keeps, Withdraws, InSync
  <2>3. h[t.tgt] = t.buf
    BY <1>3, <1>8 DEF Differ, Idle
  <2> QED BY <2>1, <2>2, <2>3, <1>3 DEF SaveOK
<1>12. u.op = "insert" => InsertSerial(t, docs, h)
  <2> SUFFICES ASSUME u.op = "insert" PROVE InsertSerial(t, docs, h)
    OBVIOUS
  <2>1. /\ InsertSerial(u, docs, heap) /\ Promise(u, node, docs)
        /\ u.cur # Nil /\ (u.lvl > 1 => u.par # Nil)
    BY <1>5
  <2>2. u.cur \in DOMAIN heap /\ (u.lvl > 1 => u.par \in DOMAIN heap)
    BY <2>1, <1>2 DEF Held
  <2>3. InSync(u.cur, docs, heap) /\ (u.lvl > 1 => InSync(u.par, docs, heap))
    BY <2>1, <1>1 DEF InsertSerial, Settled
  <2>4. Settled(t, t.cur, docs, h) /\ (t.lvl > 1 => Settled(t, t.par, docs, h))
    BY <2>2, <2>3, <1>3, <1>10 DEF Differ, Idle
  <2>5. Promise(t, t.buf, docs)
    BY <2>1, <1>3 DEF Promise, Differ, Idle
  <2> QED BY <2>1, <2>4, <2>5, <1>1, <1>2, <1>3 DEF InsertSerial, LinkedUp, Differ, Idle, InSave
<1>13. u.op = "delete" => DeleteSerial(t, docs, h, acked)
  <2> SUFFICES ASSUME u.op = "delete" PROVE DeleteSerial(t, docs, h, acked)
    OBVIOUS
  <2>1. DeleteSerial(u, docs, heap, acked) /\ t.tgt = t.cur
    BY <1>1, <1>2, <1>3 DEF ThreadSerial, DeleteSerial, InSave, Differ, Idle
  <2> QED BY <2>1, <1>3 DEF DeleteSerial, Settled, Differ, Idle
<1>14. ThreadSerial(t, docs, h, cache', acked)
  BY <1>3, <1>11, <1>12, <1>13 DEF ThreadSerial, Differ, Idle
<1>15. Unharmed' /\ AckedSerial(acked, docs)
  BY <1>1 DEF SInv, Unharmed
<1> QED BY <1>1, <1>7, <1>9, <1>14, <1>15, SStep

(***************************************************************************)
(* What ReplaceOne does to the collection, and that it is never refused.   *)
(***************************************************************************)
LEMMA WrittenKeeps ==
  ASSUME IInv, SInv, NEW w \in Worker, th[w].pc = "replace"
  PROVE  LET u == th[w]
             p == u.tgt.path
             e == Written(p, u.buf)
         IN  /\ Unique(p, u.buf) /\ DocsKeep(u, docs, e)
             /\ DOMAIN e = DOMAIN docs \cup {p} /\ e[p] = u.buf
             /\ \A q \in DOMAIN docs \ {p} : e[q] = docs[q]
<1> DEFINE u == th[w]
           p == u.tgt.path
           e == Written(p, u.buf)
<1>1. /\ ThreadOK(u, asked) /\ ThreadSerial(u, docs, heap, cache, acked)
  BY DEF IInv, SInv
<1>2. \/ p \notin DOMAIN docs
      \/ Keeps(u, docs[p], u.buf)
  <2>1. CASE u.ret # "level"
    BY <1>1, <2>1 DEF ThreadSerial, SaveOK
  <2>2. CASE u.ret = "level"
    <3>1. u.op = "insert"
      BY <1>1, <2>2 DEF ThreadOK, DeleteOK, MatchOK, InLookup, InSave
    <3>2. u.tgt = u.cur /\ u.key.path \notin DOMAIN docs /\ u.cur # Nil
      BY <3>1, <2>2, <1>1 DEF ThreadSerial, InsertSerial, ThreadOK, InsertOK, InSave
    <3> QED BY <3>2, <1>1 DEF ThreadOK
  <2> QED BY <2>1, <2>2
<1>3. /\ DOMAIN e = DOMAIN docs \cup {p} /\ e[p] = u.buf
      /\ \A q \in DOMAIN docs \ {p} : e[q] = docs[q]
  BY DEF Written
<1> HIDE DEF e
<1>4. DocsKeep(u, docs, e)
  BY <1>2, <1>3, KeepsItself DEF DocsKeep
<1>5. Unique(p, u.buf)
  BY <1>2 DEF Unique, Keeps
<1> QED BY <1>3, <1>4, <1>5 DEF e

LEMMA ReplaceSerial ==
  ASSUME Alone, IInv, IInv', SInv, NEW w \in Worker, ReplaceOne(w)
  PROVE  SInv'
<1> DEFINE u == th[w]
           p == u.tgt.path
           f == u.sub.topic
           t == [u EXCEPT !.pc = u.ret, !.tgt = Nil, !.buf = NewNode(0)]
<1>1. /\ u.pc = "replace" /\ cache' = cache /\ acked' = acked /\ spent' = spent
      /\ docs' = Written(p, u.buf)
      /\ th' = [th EXCEPT ![w] = t]
      /\ heap' = [q \in DOMAIN heap \cap Live' |-> heap[q]]
  BY DEF ReplaceOne, Saved, At, Collect
<1>2. /\ ThreadOK(u, asked) /\ ThreadSerial(u, docs, heap, cache, acked)
  BY DEF IInv, SInv
<1>3. Differ(t, u, {"pc", "tgt", "buf"}) /\ t.pc = u.ret /\ t.tgt = Nil
  BY <1>2 DEF ThreadOK, Differ, Idle
<1>4. DOMAIN heap' \subseteq DOMAIN heap /\ \A q \in DOMAIN heap' : heap'[q] = heap[q]
  BY <1>1
<1> HIDE DEF t
<1>5. /\ DocsKeep(u, docs, docs')
      /\ DOMAIN docs' = DOMAIN docs \cup {p} /\ docs'[p] = u.buf
      /\ \A q \in DOMAIN docs \ {p} : docs'[q] = docs[q]
  BY <1>1, WrittenKeeps
<1>6. heap[u.tgt] = u.buf /\ PathKey(p) \notin DOMAIN cache
  BY <1>1, <1>2 DEF ThreadSerial, SaveOK
<1>7. InSync(u.tgt, docs', heap)
  BY <1>5, <1>6 DEF InSync
<1>8. \A q : q.path # p /\ InSync(q, docs, heap) => InSync(q, docs', heap)
  BY <1>5 DEF InSync
<1>9. CacheSerial(cache, docs', heap)
  <2> SUFFICES ASSUME NEW q, PathKey(q) \in DOMAIN cache
               PROVE  InSync(cache[PathKey(q)], docs', heap)
    BY DEF CacheSerial
  <2>1. cache[PathKey(q)].path = q /\ q # p
    BY <1>6 DEF IInv, MemoryOK, PathKey
  <2> QED BY <2>1, <1>8 DEF SInv, CacheSerial
<1>10. AckedSerial(acked, docs')
  <2> SUFFICES ASSUME NEW s \in acked PROVE s.topic \in Path \ {<<>>} /\ Given(s, docs')
    BY DEF AckedSerial
  <2>1. s.topic \in Path \ {<<>>} /\ Given(s, docs)
    BY DEF SInv, AckedSerial
  <2>2. ~Withdraws(u, s)
    BY <1>2 DEF ThreadSerial, DeleteSerial, Withdraws
  <2> QED BY <2>1, <2>2, <1>5, GivenKept
<1>11. u.op = "insert" => InsertSerial(t, docs', heap)
  <2> SUFFICES ASSUME u.op = "insert" PROVE InsertSerial(t, docs', heap)
    OBVIOUS
  <2>1. InsertSerial(u, docs, heap) /\ InsertOK(u, asked) /\ f \in Path \ {<<>>}
    <3>1. InsertSerial(u, docs, heap) /\ InsertOK(u, asked)
      BY <1>2 DEF ThreadOK, ThreadSerial
    <3>2. Len(<<>>) = 0
      OBVIOUS
    <3> QED BY <3>1, <3>2 DEF InsertOK
  <2>2. /\ u.cur # Nil /\ u.cur.path = Prefix(f, u.lvl) /\ u.lvl \in 1..Len(f)
        /\ u.lvl > 1 => u.par.path = Prefix(f, u.lvl - 1)
    BY <2>1, <1>1, <1>2 DEF InsertOK, ThreadOK
  <2>3. u.lvl > 1 => u.par.path # u.cur.path
    <3>1. u.lvl > 1 => /\ u.lvl - 1 \in 1..Len(f)
                       /\ Len(Prefix(f, u.lvl - 1)) = u.lvl - 1
      BY <2>1, <2>2, PrefixFacts DEF Path
    <3>2. Len(Prefix(f, u.lvl)) = u.lvl
      BY <2>1, <2>2, PrefixFacts DEF Path
    <3> QED BY <2>2, <3>1, <3>2
  <2>4. \/ u.ret = "level" /\ u.tgt = u.cur
        \/ u.ret # "level" /\ Promise(u, u.buf, docs)
    BY <2>1, <1>1 DEF InsertSerial
  <2>5. u.tgt = u.cur \/ (u.lvl > 1 /\ u.tgt = u.par)
    BY <2>4 DEF Promise
  <2>6. InSync(u.cur, docs', heap) /\ (u.lvl > 1 => InSync(u.par, docs', heap))
    BY <2>1, <2>3, <2>5, <1>1, <1>7, <1>8 DEF InsertSerial, Settled
  <2>7. Chain(f, u.lvl - 1, docs')
    <3>1. u.lvl - 1 \in 0..Len(f) /\ Chain(f, u.lvl - 1, docs)
      BY <2>1, <2>2, <1>1 DEF InsertSerial
    <3> QED BY <3>1, <2>1, <1>5, ChainKept
  <2>8. CASE u.ret = "level"
    BY <2>1, <2>6, <2>7, <2>8, <1>3 DEF InsertSerial, Settled, LinkedUp, Differ, Idle, InSave
  <2>9. CASE u.ret = "leaf" /\ Promise(u, u.buf, docs)
    <3>1. /\ u.tgt = u.par /\ u.lvl > 1 /\ f[u.lvl] # "#"
          /\ LinkedIn(u.buf, f[u.lvl], IdOf(u.cur.path, docs))
      BY <2>9 DEF Promise
    <3>2. u.cur.path \in DOMAIN docs
      BY <2>1, <2>3, <3>1, <1>1 DEF InsertSerial, Settled, InSync
    <3>3. IdOf(u.cur.path, docs') = IdOf(u.cur.path, docs) /\ u.cur.path \in DOMAIN docs'
      BY <3>2, <1>5 DEF IdOf, DocsKeep, Keeps
    <3>4. LinkedIn(docs'[Prefix(f, u.lvl - 1)], f[u.lvl], IdOf(Prefix(f, u.lvl), docs'))
      BY <3>1, <3>3, <2>2, <1>5
    <3>5. \A i \in 1..u.lvl : i \in 1..(u.lvl - 1) \/ i = u.lvl
      BY <2>2
    <3>6. \A i \in 2..u.lvl : i \in 2..(u.lvl - 1) \/ i = u.lvl
      BY <2>2
    <3>7. Chain(f, u.lvl, docs')
      BY <3>3, <3>4, <3>5, <3>6, <2>2, <2>7 DEF Chain
    <3> QED BY <3>1, <3>7, <2>1, <2>6, <2>7, <2>9, <1>3
            DEF InsertSerial, Settled, LinkedUp, Differ, Idle, InSave
  <2>10. CASE u.ret = "next" /\ Promise(u, u.buf, docs)
    <3>1. u.tgt = u.cur /\ u.lvl = Len(f) /\ Holds(u.buf.terminals, u.sub)
      BY <2>10 DEF Promise
    <3>2. p = f
      BY <3>1, <2>1, <2>2, LengthFacts
    <3>3. Holds(docs'[f].terminals, u.sub)
      BY <3>1, <3>2, <1>5
    <3>4. Chain(f, u.lvl, docs) /\ (u.lvl > 1 => f[u.lvl] # "#")
      BY <3>1, <2>1, <2>10, <1>1 DEF InsertSerial, LinkedUp, InSave
    <3>5. Chain(f, u.lvl, docs')
      <4>1. u.lvl \in 0..Len(f)
        BY <2>2
      <4> QED BY <4>1, <3>4, <2>1, <1>5, ChainKept
    <3> QED BY <3>3, <3>4, <3>5, <2>1, <2>6, <2>7, <2>10, <1>3
            DEF InsertSerial, Settled, LinkedUp, Differ, Idle, InSave
  <2>11. CASE u.ret = "done" /\ Promise(u, u.buf, docs)
    <3>1. /\ u.tgt = u.par /\ u.lvl > 1 /\ u.lvl = Len(f) /\ f[u.lvl] = "#"
          /\ Holds(u.buf.hash, u.sub)
      BY <2>11 DEF Promise
    <3>2. p = Parent(f) /\ Last(f) = "#"
      BY <3>1, <2>1, <2>2, LengthFacts
    <3>3. Given(u.sub, docs')
      BY <3>1, <3>2, <2>7, <1>5 DEF Given
    <3> QED BY <3>3, <2>1, <2>6, <2>7, <2>11, <1>3
            DEF InsertSerial, Settled, LinkedUp, Differ, Idle, InSave
  <2> QED BY <2>4, <2>8, <2>9, <2>10, <2>11 DEF Promise
<1>12. u.op = "delete" => DeleteSerial(t, docs', heap, acked)
  <2> SUFFICES ASSUME u.op = "delete" PROVE DeleteSerial(t, docs', heap, acked)
    OBVIOUS
  <2>1. DeleteSerial(u, docs, heap, acked) /\ u.tgt = u.cur /\ u.ret = "done"
    BY <1>1, <1>2 DEF ThreadSerial, DeleteSerial, InSave, ThreadOK, DeleteOK
  <2> QED BY <2>1, <1>3, <1>7 DEF DeleteSerial, Settled, Differ, Idle, InSave
<1>13. u.ret \notin {"store", "replace", "fill"}
  BY <1>1, <1>2 DEF ThreadOK, InsertOK, DeleteOK, MatchOK, InLookup, InSave
<1>14. ThreadSerial(t, docs', heap, cache, acked)
  BY <1>3, <1>11, <1>12, <1>13 DEF ThreadSerial, SaveOK, Differ, Idle
<1>15. Unharmed'
  BY <1>1 DEF SInv, Unharmed
<1> QED BY <1>1, <1>4, <1>9, <1>10, <1>14, <1>15, SStep

\* No call fails and no save is refused.
LEMMA NoFailure ==
  ASSUME Alone, IInv, SInv, NEW w \in Worker
  PROVE  ~DuplicatePath(w) /\ ~ReplaceFails(w)
<1>1. ~DuplicatePath(w)
  BY WrittenKeeps DEF DuplicatePath, At
<1>2. ~ReplaceFails(w)
  BY DEF ReplaceFails, SInv, Unharmed, Alone
<1> QED BY <1>1, <1>2
-----------------------------------------------------------------------------
(***************************************************************************)
(* Beginning a request.                                                    *)
(***************************************************************************)
LEMMA BeginSerial ==
  ASSUME Alone, IInv, IInv', SInv, Counted, NEW w \in Worker,
         NEW op, NEW s, NEW p, NEW ret, Begin(w, op, s, p, ret),
         acked' \subseteq acked, op = "delete" => \A t \in acked' : ~Equal(s, t)
  PROVE  SInv'
<1> DEFINE t == [Idle EXCEPT !.pc = "lookup", !.op = op, !.sub = s, !.lvl = 1,
                             !.key = PathKey(p), !.ret = ret]
<1>1. /\ th' = [th EXCEPT ![w] = t]
      /\ heap' = heap /\ cache' = cache /\ docs' = docs
      /\ spent' = [spent EXCEPT !.requests = @ + 1]
  BY DEF Begin
<1>2. /\ t.pc = "lookup" /\ t.lvl = 1 /\ t.key = PathKey(p) /\ t.cur = Nil /\ t.sub = s
      /\ t.op = op
  BY DEF Idle
<1> HIDE DEF t
<1>3. t.key = PathKey(t.key.path)
  BY <1>2 DEF PathKey
<1>4. Chain(t.sub.topic, t.lvl - 1, docs)
  BY <1>2 DEF Chain
<1>5. ThreadSerial(t, docs, heap, cache, acked')
  BY <1>2, <1>3, <1>4
     DEF ThreadSerial, SaveOK, InsertSerial, DeleteSerial, LinkedUp, Settled, InSave
<1>6. Unharmed'
  BY <1>1 DEF Counted, SInv, Unharmed
<1>7. AckedSerial(acked', docs) /\ CacheSerial(cache, docs, heap)
  BY DEF SInv, AckedSerial
<1> QED BY <1>1, <1>5, <1>6, <1>7, SStep

LEMMA RequestSerial ==
  ASSUME Alone, IInv, IInv', SInv, Counted, NEW w \in Worker,
         Subscribe(w) \/ Unsubscribe(w) \/ Publish(w)
  PROVE  SInv'
<1>1. CASE Subscribe(w)
  <2>1. PICK c \in Client, f \in Filters, q \in QoS :
           LET s == [client |-> c, topic |-> f, qos |-> q]
           IN  Begin(w, "insert", s, Prefix(f, 1), "level") /\ acked' = acked
    BY <1>1 DEF Subscribe
  <2> QED BY <2>1, BeginSerial
<1>2. CASE Unsubscribe(w)
  <2>1. PICK c \in Client, f \in Drops, q \in QoS :
           LET s == [client |-> c, topic |-> f, qos |-> q]
           IN  /\ Begin(w, "delete", s, IF HasHash(f) THEN Parent(f) ELSE f, "remove")
               /\ acked' = {t \in acked : ~Equal(s, t)}
    BY <1>2 DEF Unsubscribe
  <2> QED BY <2>1, BeginSerial
<1>3. CASE Publish(w)
  <2>1. PICK t \in Publishes :
           /\ Begin(w, "match", [NoSub EXCEPT !.topic = t], Prefix(t, 1), "root")
           /\ acked' = acked
    BY <1>3 DEF Publish
  <2> QED BY <2>1, BeginSerial
<1> QED BY <1>1, <1>2, <1>3
-----------------------------------------------------------------------------
(***************************************************************************)
(* Going on with an insertion or a deletion.                               *)
(***************************************************************************)
LEMMA IdIs ==
  ASSUME NEW id \in ID, NEW d, In(id, d)
  PROVE  id = IdOf(id.path, d)
  BY DEF ID, In, IdOf

\* A link of a node in step with the collection is to the child's own _id.
LEMMA LinkIs ==
  ASSUME IInv, AllResolve, NEW r \in DOMAIN heap
  PROVE  /\ \A l \in DOMAIN heap[r].children :
               heap[r].children[l] = IdOf(Append(r.path, l), docs)
         /\ heap[r].plus # NoID => heap[r].plus = IdOf(Append(r.path, "+"), docs)
<1>1. NodeOK(r.path, heap[r], asked) /\ Resolves(heap[r], docs)
  BY DEF IInv, MemoryOK, AllResolve, MemoryResolves
<1> QED BY <1>1, IdIs DEF NodeOK, Resolves

LEMMA ChainLonger ==
  ASSUME NEW f, NEW i \in Nat \ {0}, NEW d, Chain(f, i - 1, d), Prefix(f, i) \in DOMAIN d,
         i > 1 => LinkedIn(d[Prefix(f, i - 1)], f[i], IdOf(Prefix(f, i), d))
  PROVE  Chain(f, i, d)
<1>1. \A j \in 1..i : j \in 1..(i - 1) \/ j = i
  OBVIOUS
<1>2. \A j \in 2..i : j \in 2..(i - 1) \/ (j = i /\ i > 1)
  OBVIOUS
<1> QED BY <1>1, <1>2 DEF Chain

(***************************************************************************)
(* What each of the four assignments makes of a node.                      *)
(***************************************************************************)
LEMMA PutLink ==
  ASSUME NEW u, NEW p, NEW node, NEW A, NodeOK(p, node, A), NEW l, NEW id
  PROVE  /\ LET m == Put(node, [field |-> "plus", id |-> id])
            IN  /\ node.plus \in {NoID, id} => Keeps(u, node, m)
                /\ LinkedIn(m, "+", id)
         /\ LET m == Put(node, [field |-> "child", level |-> l, id |-> id])
            IN  l \in Level \ DOMAIN node.children =>
                   Keeps(u, node, m) /\ LinkedIn(m, l, id)
<1>1. LET m == Put(node, [field |-> "plus", id |-> id])
      IN  /\ node.plus \in {NoID, id} => Keeps(u, node, m)
          /\ LinkedIn(m, "+", id)
  <2> DEFINE m == Put(node, [field |-> "plus", id |-> id])
  <2>1. m = [node EXCEPT !.plus = id]
    BY DEF Put
  <2>2. /\ m.n = node.n /\ m.children = node.children /\ m.plus = id
        /\ m.hash = node.hash /\ m.terminals = node.terminals
    BY <2>1 DEF NodeOK
  <2> HIDE DEF m
  <2>3. (node.plus \in {NoID, id} => Keeps(u, node, m)) /\ LinkedIn(m, "+", id)
    BY <2>2 DEF Keeps, LinkedIn
  <2> QED BY <2>3 DEF m
<1>2. ASSUME l \in Level \ DOMAIN node.children
      PROVE  LET m == Put(node, [field |-> "child", level |-> l, id |-> id])
             IN  Keeps(u, node, m) /\ LinkedIn(m, l, id)
  <2> DEFINE m == Put(node, [field |-> "child", level |-> l, id |-> id])
             c == [k \in DOMAIN node.children \cup {l} |->
                      IF k = l THEN id ELSE node.children[k]]
  <2>1. m = [node EXCEPT !.children = c]
    BY DEF Put
  <2>2. /\ m.n = node.n /\ m.children = c /\ m.plus = node.plus
        /\ m.hash = node.hash /\ m.terminals = node.terminals
    BY <2>1 DEF NodeOK
  <2>3. /\ l \in DOMAIN c /\ c[l] = id /\ l # "+"
        /\ \A k \in DOMAIN node.children : k \in DOMAIN c /\ c[k] = node.children[k]
    BY <1>2, LevelAssumption
  <2> HIDE DEF m, c
  <2>4. Keeps(u, node, m) /\ LinkedIn(m, l, id)
    BY <2>2, <2>3 DEF Keeps, LinkedIn
  <2> QED BY <2>4 DEF m
<1> QED BY <1>1, <1>2

LEMMA PutSubs ==
  ASSUME NEW u, NEW p, NEW node, NEW A, NodeOK(p, node, A), NEW bag
  PROVE  /\ LET m == Put(node, [field |-> "hash", subs |-> bag])
            IN  /\ m.hash = bag
                /\ (\A t \in DOMAIN node.hash : t \in DOMAIN bag \/ Withdraws(u, t))
                   => Keeps(u, node, m)
         /\ LET m == Put(node, [field |-> "terminals", subs |-> bag])
            IN  /\ m.terminals = bag
                /\ (\A t \in DOMAIN node.terminals : t \in DOMAIN bag \/ Withdraws(u, t))
                   => Keeps(u, node, m)
<1>1. LET m == Put(node, [field |-> "hash", subs |-> bag])
      IN  /\ m.hash = bag
          /\ (\A t \in DOMAIN node.hash : t \in DOMAIN bag \/ Withdraws(u, t))
             => Keeps(u, node, m)
  <2> DEFINE m == Put(node, [field |-> "hash", subs |-> bag])
  <2>1. m = [node EXCEPT !.hash = bag]
    BY DEF Put
  <2>2. /\ m.n = node.n /\ m.children = node.children /\ m.plus = node.plus
        /\ m.hash = bag /\ m.terminals = node.terminals
    BY <2>1 DEF NodeOK
  <2> HIDE DEF m
  <2>3. /\ m.hash = bag
        /\ (\A t \in DOMAIN node.hash : t \in DOMAIN bag \/ Withdraws(u, t))
           => Keeps(u, node, m)
    BY <2>2 DEF Keeps
  <2> QED BY <2>3 DEF m
<1>2. LET m == Put(node, [field |-> "terminals", subs |-> bag])
      IN  /\ m.terminals = bag
          /\ (\A t \in DOMAIN node.terminals : t \in DOMAIN bag \/ Withdraws(u, t))
             => Keeps(u, node, m)
  <2> DEFINE m == Put(node, [field |-> "terminals", subs |-> bag])
  <2>1. m = [node EXCEPT !.terminals = bag]
    BY DEF Put
  <2>2. /\ m.n = node.n /\ m.children = node.children /\ m.plus = node.plus
        /\ m.hash = node.hash /\ m.terminals = bag
    BY <2>1 DEF NodeOK
  <2> HIDE DEF m
  <2>3. /\ m.terminals = bag
        /\ (\A t \in DOMAIN node.terminals : t \in DOMAIN bag \/ Withdraws(u, t))
           => Keeps(u, node, m)
    BY <2>2 DEF Keeps
  <2> QED BY <2>3 DEF m
<1> QED BY <1>1, <1>2

\* What an insertion knows between two lookups.
LEMMA InsertKnows ==
  ASSUME IInv, SInv, NEW w \in Worker, th[w].pc \in {"level", "leaf", "next"}
  PROVE  LET u == th[w]
             f == u.sub.topic
         IN  /\ u.op = "insert" /\ DOMAIN u = DOMAIN Idle
             /\ f \in Path /\ f # <<>> /\ u.lvl \in 1..Len(f) /\ f[u.lvl] \in Token
             /\ u.cur.path = Prefix(f, u.lvl) /\ u.cur \in DOMAIN heap
             /\ InSync(u.cur, docs, heap)
             /\ u.lvl > 1 => /\ u.par \in DOMAIN heap /\ u.par.path = Prefix(f, u.lvl - 1)
                             /\ InSync(u.par, docs, heap)
                             /\ u.cur.path = Append(u.par.path, f[u.lvl])
             /\ InsertSerial(u, docs, heap)
<1> DEFINE u == th[w]
           f == u.sub.topic
<1>1. u.op = "insert" /\ InsertOK(u, asked) /\ DOMAIN u = DOMAIN Idle
  <2>1. ThreadOK(u, asked)
    BY DEF IInv
  <2> QED BY <2>1 DEF ThreadOK, DeleteOK, MatchOK, InLookup, InSave
<1>2. InsertSerial(u, docs, heap)
  BY <1>1 DEF SInv, ThreadSerial
<1>3. InSync(u.cur, docs, heap) /\ (u.lvl > 1 => InSync(u.par, docs, heap))
  BY <1>2 DEF InsertSerial, Settled
<1>4. f \in Path /\ u.lvl \in 1..Len(f) /\ (u.lvl > 1 => u.par.path = Prefix(f, u.lvl - 1))
  BY <1>1 DEF InsertOK
<1>5. f # <<>>
  BY <1>4
<1> QED BY <1>1, <1>2, <1>3, <1>4, <1>5, InsertFacts

LEMMA GotoSerial ==
  ASSUME Alone, IInv, IInv', SInv, NEW w \in Worker, NEW l, Goto(w, l),
         th[w].op = "insert", th[w].pc \in {"level", "leaf", "next"},
         l \in {"leaf", "next", "done", "rejected"},
         l \in {"leaf", "next"} => /\ Chain(th[w].sub.topic, th[w].lvl, docs)
                                   /\ th[w].lvl = Len(th[w].sub.topic) /\ th[w].lvl > 1 =>
                                         th[w].sub.topic[th[w].lvl] # "#",
         l = "next" /\ th[w].lvl = Len(th[w].sub.topic) =>
            Holds(docs[th[w].sub.topic].terminals, th[w].sub),
         l = "done" => Given(th[w].sub, docs)
  PROVE  SInv'
<1> DEFINE u == th[w]
           t == [u EXCEPT !.pc = l]
<1>1. Local(w, t)
  BY DEF Goto
<1>2. DOMAIN u = DOMAIN Idle /\ InsertSerial(u, docs, heap)
  BY InsertKnows
<1>3. Differ(t, u, {"pc"}) /\ t.pc = l
  BY <1>2 DEF Differ, Idle
<1> HIDE DEF t
<1>4. InsertSerial(t, docs, heap)
  BY <1>2, <1>3 DEF InsertSerial, Settled, LinkedUp, Differ, Idle, InSave
<1>5. ThreadSerial(t, docs, heap, cache, acked)
  BY <1>3, <1>4 DEF ThreadSerial, SaveOK, Differ, Idle
<1> QED BY <1>1, <1>5, SLocal

LEMMA AssignSerial ==
  ASSUME Alone, IInv, IInv', SInv, NEW w \in Worker, NEW r, NEW upd, NEW l,
         Assign(w, r, upd, l),
         th[w].op = "insert", th[w].pc \in {"level", "leaf"}, l \in {"leaf", "next", "done"},
         InSync(r, docs, heap), Keeps(th[w], heap[r], Put(heap[r], upd)),
         \/ /\ l = "leaf" /\ r = th[w].par /\ th[w].lvl > 1
            /\ th[w].sub.topic[th[w].lvl] # "#"
            /\ LinkedIn(Put(heap[r], upd), th[w].sub.topic[th[w].lvl],
                        IdOf(th[w].cur.path, docs))
         \/ /\ l = "next" /\ r = th[w].cur /\ th[w].lvl = Len(th[w].sub.topic)
            /\ th[w].pc = "leaf" /\ Holds(Put(heap[r], upd).terminals, th[w].sub)
         \/ /\ l = "done" /\ r = th[w].par /\ th[w].lvl > 1
            /\ th[w].lvl = Len(th[w].sub.topic) /\ th[w].sub.topic[th[w].lvl] = "#"
            /\ Holds(Put(heap[r], upd).hash, th[w].sub)
  PROVE  SInv'
<1> DEFINE u == th[w]
           t == [u EXCEPT !.tgt = r, !.upd = upd, !.pc = "store", !.ret = l]
           node == Put(heap[r], upd)
<1>1. Local(w, t)
  BY DEF Assign
<1>2. DOMAIN u = DOMAIN Idle /\ InsertSerial(u, docs, heap)
  BY InsertKnows
<1>3. /\ Differ(t, u, {"tgt", "upd", "pc", "ret"})
      /\ t.tgt = r /\ t.upd = upd /\ t.pc = "store" /\ t.ret = l
  BY <1>2 DEF Differ, Idle
<1> HIDE DEF t, node
<1>4. /\ t.op = "insert" /\ t.sub = u.sub /\ t.lvl = u.lvl /\ t.cur = u.cur
      /\ t.par = u.par /\ t.key = u.key
  BY <1>3 DEF Differ, Idle
<1>5. Promise(t, node, docs)
  BY <1>3, <1>4 DEF Promise, node
<1>6. Keeps(t, docs[r.path], node)
  BY <1>4 DEF Keeps, Withdraws, InSync, node
<1>7. SaveOK(t, docs, heap, cache)
  BY <1>3, <1>6 DEF SaveOK, node
<1>8. InsertSerial(t, docs, heap)
  BY <1>2, <1>3, <1>4, <1>5 DEF InsertSerial, Settled, LinkedUp, InSave, node
<1>9. ThreadSerial(t, docs, heap, cache, acked)
  BY <1>3, <1>4, <1>7, <1>8 DEF ThreadSerial
<1> QED BY <1>1, <1>9, SLocal

LEMMA LinkSerial ==
  ASSUME Alone, IInv, IInv', SInv, AllResolve, NEW w \in Worker, LinkLevel(w)
  PROVE  SInv'
<1> DEFINE u == th[w]
           f == u.sub.topic
           i == u.lvl
           id == [path |-> u.cur.path, n |-> heap[u.cur].n]
           node == heap[u.par]
<1>1. u.pc = "level"
  BY DEF LinkLevel, At
<1>2. /\ u.op = "insert" /\ f \in Path /\ i \in 1..Len(f) /\ f[i] \in Token
      /\ u.cur.path = Prefix(f, i) /\ InSync(u.cur, docs, heap)
      /\ i > 1 => /\ u.par \in DOMAIN heap /\ u.par.path = Prefix(f, i - 1)
                  /\ InSync(u.par, docs, heap) /\ u.cur.path = Append(u.par.path, f[i])
      /\ InsertSerial(u, docs, heap)
  BY <1>1, InsertKnows
<1>3. /\ id = IdOf(u.cur.path, docs) /\ Prefix(f, i) \in DOMAIN docs
      /\ i > 1 => node = docs[Prefix(f, i - 1)] /\ NodeOK(u.par.path, node, asked)
  BY <1>2 DEF IdOf, InSync, IInv, MemoryOK
<1>4. Chain(f, i - 1, docs)
  BY <1>1, <1>2 DEF InsertSerial
<1>5. i > 1 => /\ node.plus # NoID => node.plus = IdOf(Append(u.par.path, "+"), docs)
               /\ \A l \in DOMAIN node.children :
                     node.children[l] = IdOf(Append(u.par.path, l), docs)
  BY <1>2, LinkIs
<1>6. CASE i = 1 /\ Goto(w, "leaf")
  <2>1. Chain(f, i, docs)
    BY <1>2, <1>3, <1>4, <1>6, ChainLonger
  <2> QED BY <2>1, <1>1, <1>2, <1>6, GotoSerial
<1>7. CASE i > 1 /\ f[i] = "+" /\ Assign(w, u.par, [field |-> "plus", id |-> id], "leaf")
  <2> DEFINE m == Put(node, [field |-> "plus", id |-> id])
  <2>1. node.plus \in {NoID, id}
    BY <1>2, <1>3, <1>5, <1>7
  <2>2. Keeps(u, node, m) /\ LinkedIn(m, "+", id)
    BY <2>1, <1>3, <1>7, PutLink
  <2> HIDE DEF m, id
  <2>3. LinkedIn(m, f[i], IdOf(u.cur.path, docs)) /\ f[i] # "#"
    BY <2>2, <1>3, <1>7
  <2> QED BY <2>2, <2>3, <1>1, <1>2, <1>7, AssignSerial DEF m
<1>8. CASE i > 1 /\ f[i] = "#" /\ i # Len(f) /\ Goto(w, "rejected")
  BY <1>1, <1>2, <1>8, GotoSerial
<1>9. CASE /\ i > 1 /\ f[i] = "#" /\ i = Len(f)
           /\ Assign(w, u.par, [field |-> "hash", subs |-> With(node.hash, u.sub)], "done")
  <2> DEFINE upd == [field |-> "hash", subs |-> With(node.hash, u.sub)]
  <2>1. DOMAIN With(node.hash, u.sub) = DOMAIN node.hash \cup {u.sub}
    BY BagFacts
  <2>2. Keeps(u, node, Put(node, upd)) /\ Put(node, upd).hash = With(node.hash, u.sub)
    <3> DEFINE bag == With(node.hash, u.sub)
    <3>1. NodeOK(u.par.path, node, asked) /\ \A t \in DOMAIN node.hash : t \in DOMAIN bag
      BY <2>1, <1>3, <1>9
    <3> HIDE DEF bag, node
    <3>2. LET m == Put(node, [field |-> "hash", subs |-> bag])
          IN  Keeps(u, node, m) /\ m.hash = bag
      BY <3>1, PutSubs
    <3> QED BY <3>2 DEF bag
  <2>3. Holds(Put(node, upd).hash, u.sub)
    BY <2>1, <2>2 DEF Holds, Equal
  <2> QED BY <2>2, <2>3, <1>1, <1>2, <1>9, AssignSerial
<1>10. CASE i > 1 /\ f[i] \in Level \cap DOMAIN node.children /\ Goto(w, "leaf")
  <2>1. f[i] # "+" /\ f[i] # "#"
    BY <1>10, LevelAssumption
  <2>2. LinkedIn(docs[Prefix(f, i - 1)], f[i], IdOf(Prefix(f, i), docs))
    BY <2>1, <1>2, <1>3, <1>5, <1>10 DEF LinkedIn
  <2>3. Chain(f, i, docs)
    BY <2>2, <1>2, <1>3, <1>4, ChainLonger
  <2> QED BY <2>1, <2>3, <1>1, <1>2, <1>10, GotoSerial
<1>11. CASE /\ i > 1 /\ f[i] \in Level \ DOMAIN node.children
            /\ Assign(w, u.par, [field |-> "child", level |-> f[i], id |-> id], "leaf")
  <2> DEFINE m == Put(node, [field |-> "child", level |-> f[i], id |-> id])
  <2>1. Keeps(u, node, m) /\ LinkedIn(m, f[i], id)
    BY <1>3, <1>11, PutLink
  <2> HIDE DEF m, id
  <2>2. LinkedIn(m, f[i], IdOf(u.cur.path, docs)) /\ f[i] # "#"
    BY <2>1, <1>3, <1>11, LevelAssumption
  <2> QED BY <2>1, <2>2, <1>1, <1>2, <1>11, AssignSerial DEF m
<1> QED BY <1>6, <1>7, <1>8, <1>9, <1>10, <1>11 DEF LinkLevel, Topic

LEMMA TerminalSerial ==
  ASSUME Alone, IInv, IInv', SInv, NEW w \in Worker, AddTerminal(w)
  PROVE  SInv'
<1> DEFINE u == th[w]
           f == u.sub.topic
           node == heap[u.cur]
           upd == [field |-> "terminals", subs |-> With(node.terminals, u.sub)]
<1>1. u.pc = "leaf"
  BY DEF AddTerminal, At
<1>2. /\ u.op = "insert" /\ f \in Path /\ f # <<>> /\ u.lvl \in 1..Len(f)
      /\ u.cur.path = Prefix(f, u.lvl) /\ u.cur \in DOMAIN heap
      /\ InSync(u.cur, docs, heap) /\ InsertSerial(u, docs, heap)
  BY <1>1, InsertKnows
<1>3. /\ Chain(f, u.lvl, docs) /\ (u.lvl = Len(f) /\ u.lvl > 1 => f[u.lvl] # "#")
      /\ NodeOK(u.cur.path, node, asked)
      /\ u.lvl = Len(f) => node = docs[f]
  <2>1. Prefix(f, Len(f)) = f
    BY <1>2, LengthFacts
  <2> QED BY <2>1, <1>1, <1>2 DEF InsertSerial, LinkedUp, InSync, IInv, MemoryOK
<1>4. CASE ~(u.lvl = Len(f) /\ ~Holds(node.terminals, u.sub)) /\ Goto(w, "next")
  BY <1>1, <1>2, <1>3, <1>4, GotoSerial
<1>5. CASE u.lvl = Len(f) /\ Assign(w, u.cur, upd, "next")
  <2>1. DOMAIN With(node.terminals, u.sub) = DOMAIN node.terminals \cup {u.sub}
    BY BagFacts
  <2>2. /\ Keeps(u, node, Put(node, upd))
        /\ Put(node, upd).terminals = With(node.terminals, u.sub)
    <3> DEFINE bag == With(node.terminals, u.sub)
    <3>1. /\ NodeOK(u.cur.path, node, asked)
          /\ \A t \in DOMAIN node.terminals : t \in DOMAIN bag
      BY <2>1, <1>3
    <3> HIDE DEF bag, node
    <3>2. LET m == Put(node, [field |-> "terminals", subs |-> bag])
          IN  Keeps(u, node, m) /\ m.terminals = bag
      BY <3>1, PutSubs
    <3> QED BY <3>2 DEF bag
  <2>3. Holds(Put(node, upd).terminals, u.sub)
    BY <2>1, <2>2 DEF Holds, Equal
  <2> QED BY <2>2, <2>3, <1>1, <1>2, <1>5, AssignSerial
<1> QED BY <1>4, <1>5 DEF AddTerminal, Topic

LEMMA NextLevelSerial ==
  ASSUME Alone, IInv, IInv', SInv, NEW w \in Worker, NextLevel(w)
  PROVE  SInv'
<1> DEFINE u == th[w]
           f == u.sub.topic
           i == u.lvl + 1
           k == PathKey(Prefix(f, i))
           v == [u EXCEPT !.par = u.cur, !.lvl = i]
           t == [v EXCEPT !.key = k, !.cur = Nil, !.pc = "lookup", !.ret = "level"]
<1>1. u.pc = "next"
  BY DEF NextLevel, At
<1>2. /\ u.op = "insert" /\ DOMAIN u = DOMAIN Idle /\ f \in Path /\ f # <<>>
      /\ u.lvl \in 1..Len(f) /\ InSync(u.cur, docs, heap) /\ InsertSerial(u, docs, heap)
  BY <1>1, InsertKnows
<1>3. Chain(f, u.lvl, docs) /\ (u.lvl = Len(f) /\ u.lvl > 1 => f[u.lvl] # "#")
  BY <1>1, <1>2 DEF InsertSerial, LinkedUp
<1>4. CASE i > Len(f) /\ Goto(w, "done")
  <2>1. u.lvl = Len(f)
    BY <1>2, <1>4
  <2>2. Holds(docs[f].terminals, u.sub)
    BY <2>1, <1>1, <1>2 DEF InsertSerial
  <2>3. ~(Last(f) = "#" /\ Len(f) > 1)
    BY <2>1, <1>3 DEF Last
  <2>4. Given(u.sub, docs)
    BY <2>1, <2>2, <2>3, <1>3 DEF Given
  <2> QED BY <2>4, <1>1, <1>2, <1>4, GotoSerial
<1>5. CASE i <= Len(f) /\ Local(w, t)
  <2>1. /\ Differ(t, u, {"par", "lvl", "key", "cur", "pc", "ret"})
        /\ t.par = u.cur /\ t.lvl = i /\ t.key = k /\ t.cur = Nil
        /\ t.pc = "lookup" /\ t.ret = "level"
    BY <1>2 DEF Differ, Idle
  <2>2. t.key = PathKey(t.key.path)
    BY <2>1 DEF PathKey
  <2>3. t.lvl - 1 = u.lvl
    BY <2>1, <1>2
  <2> HIDE DEF t
  <2>4. InsertSerial(t, docs, heap)
    BY <2>1, <2>2, <2>3, <1>2, <1>3
       DEF InsertSerial, Settled, LinkedUp, Differ, Idle, InSave
  <2>5. ThreadSerial(t, docs, heap, cache, acked)
    BY <2>1, <2>4, <1>2 DEF ThreadSerial, SaveOK, Differ, Idle
  <2> QED BY <2>5, <1>5, SLocal
<1> QED BY <1>4, <1>5 DEF NextLevel, Topic, Get

LEMMA RemoveSerial ==
  ASSUME Alone, IInv, IInv', SInv, NEW w \in Worker, RemoveTerminal(w)
  PROVE  SInv'
<1> DEFINE u == th[w]
           node == heap[u.cur]
<1>1. /\ u.pc = "remove" /\ u.op = "delete" /\ DOMAIN u = DOMAIN Idle
      /\ Held(u) \subseteq DOMAIN heap \cup {Nil}
      /\ DeleteSerial(u, docs, heap, acked)
  <2>1. /\ ThreadOK(u, asked) /\ Held(u) \subseteq DOMAIN heap \cup {Nil}
        /\ ThreadSerial(u, docs, heap, cache, acked)
    BY DEF IInv, SInv
  <2> QED BY <2>1 DEF RemoveTerminal, At, ThreadOK, InsertOK, MatchOK, InLookup, InSave,
                      ThreadSerial
<1>2. CASE u.cur = Nil /\ Goto(w, "rejected")
  <2> DEFINE t == [u EXCEPT !.pc = "rejected"]
  <2>1. Local(w, t)
    BY <1>2 DEF Goto
  <2>2. Differ(t, u, {"pc"}) /\ t.pc = "rejected"
    BY <1>1 DEF Differ, Idle
  <2> HIDE DEF t
  <2>3. ThreadSerial(t, docs, heap, cache, acked)
    BY <2>2, <1>1, <1>2
       DEF ThreadSerial, SaveOK, DeleteSerial, Settled, Differ, Idle, InSave
  <2> QED BY <2>1, <2>3, SLocal
<1>3. ASSUME u.cur # Nil,
             NEW upd, Assign(w, u.cur, upd, "done"), Keeps(u, node, Put(node, upd))
      PROVE  SInv'
  <2> DEFINE t == [u EXCEPT !.tgt = u.cur, !.upd = upd, !.pc = "store", !.ret = "done"]
  <2>1. Local(w, t)
    BY <1>3 DEF Assign
  <2>2. /\ Differ(t, u, {"tgt", "upd", "pc", "ret"})
        /\ t.tgt = u.cur /\ t.upd = upd /\ t.pc = "store" /\ t.ret = "done"
    BY <1>1 DEF Differ, Idle
  <2> HIDE DEF t
  <2>3. /\ t.op = "delete" /\ t.sub = u.sub /\ t.cur = u.cur /\ t.key = u.key
    BY <2>2, <1>1 DEF Differ, Idle
  <2>4. InSync(u.cur, docs, heap)
    BY <1>1, <1>3 DEF DeleteSerial, Settled
  <2>5. SaveOK(t, docs, heap, cache)
    BY <2>2, <2>3, <2>4, <1>1, <1>3 DEF SaveOK, Keeps, Withdraws, InSync
  <2>6. DeleteSerial(t, docs, heap, acked)
    BY <2>2, <2>3, <2>4, <1>1 DEF DeleteSerial, Settled
  <2>7. ThreadSerial(t, docs, heap, cache, acked)
    BY <2>2, <2>3, <2>5, <2>6 DEF ThreadSerial
  <2> QED BY <2>1, <2>7, SLocal
<1>4. ASSUME u.cur # Nil PROVE NodeOK(u.cur.path, node, asked)
  BY <1>1, <1>4 DEF Held, IInv, MemoryOK
<1>5. \A bag : \A t \in DOMAIN bag : t \in DOMAIN Except(bag, u.sub) \/ Withdraws(u, t)
  BY <1>1 DEF Except, Withdraws
<1>6. CASE u.cur # Nil /\ Assign(w, u.cur, [field |-> "hash",
                                subs |-> Except(node.hash, u.sub)], "done")
  <2>1. Keeps(u, node, Put(node, [field |-> "hash", subs |-> Except(node.hash, u.sub)]))
    BY <1>4, <1>5, <1>6, PutSubs
  <2> QED BY <2>1, <1>3, <1>6
<1>7. CASE u.cur # Nil /\ Assign(w, u.cur, [field |-> "terminals",
                                subs |-> Except(node.terminals, u.sub)], "done")
  <2>1. Keeps(u, node, Put(node, [field |-> "terminals",
                                  subs |-> Except(node.terminals, u.sub)]))
    BY <1>4, <1>5, <1>7, PutSubs
  <2> QED BY <2>1, <1>3, <1>7
<1> QED BY <1>2, <1>6, <1>7 DEF RemoveTerminal
-----------------------------------------------------------------------------
(***************************************************************************)
(* A match changes nothing but what the goroutine holds.                   *)
(***************************************************************************)
LEMMA MatchLocal ==
  ASSUME Alone, IInv, IInv', SInv, NEW w \in Worker, NEW t, Local(w, t),
         t.op = "match", t.pc \notin {"store", "replace", "fill"}
  PROVE  SInv'
<1>1. ThreadSerial(t, docs, heap, cache, acked)
  BY DEF ThreadSerial, SaveOK
<1> QED BY <1>1, SLocal

LEMMA MatchSerial ==
  ASSUME Alone, IInv, IInv', SInv, AllResolve, NEW w \in Worker, Match(w)
  PROVE  SInv'
<1> DEFINE u == th[w]
           l == Topic(w)[u.lvl + 1]
           n == heap[Front(w)]
           v == [u EXCEPT !.got = @ (+) n.hash]
<1>1. u.pc \in {"root", "rootPlus", "visit", "child", "plus", "plusChild"}
  BY DEF Match, Root, RootPlus, VisitNode, ExactChild, VisitPlus, PlusChild, Descend,
         CollectTerminals, NilNode, At
<1>2. u.op = "match" /\ DOMAIN u = DOMAIN Idle
  BY <1>1, MatchFacts DEF ThreadOK
<1>3. \A x, k, ret : DOMAIN x = DOMAIN Idle /\ x.op = "match" /\ Get(w, x, k, ret) => SInv'
  <2> SUFFICES ASSUME NEW x, NEW k, NEW ret, DOMAIN x = DOMAIN Idle, x.op = "match",
                      Get(w, x, k, ret)
               PROVE  SInv'
    OBVIOUS
  <2> DEFINE t == [x EXCEPT !.key = k, !.cur = Nil, !.pc = "lookup", !.ret = ret]
  <2>1. Local(w, t)
    BY DEF Get
  <2>2. t.op = "match" /\ t.pc = "lookup"
    BY DEF Idle
  <2> HIDE DEF t
  <2> QED BY <2>1, <2>2, MatchLocal
<1>4. CASE Root(w)
  <2> DEFINE x == [u EXCEPT !.queue = Queued(u.cur)]
  <2>1. DOMAIN x = DOMAIN Idle /\ x.op = "match" /\ Get(w, x, PathKey(<<"+">>), "rootPlus")
    BY <1>2, <1>4 DEF Root, Idle
  <2> HIDE DEF x
  <2> QED BY <2>1, <1>3
<1>5. CASE RootPlus(w)
  <2> DEFINE t == [u EXCEPT !.queue = Queued(u.cur) \o @, !.cur = Nil, !.pc = "visit"]
  <2>1. Local(w, t) /\ t.op = "match" /\ t.pc = "visit"
    BY <1>2, <1>5 DEF RootPlus, Idle
  <2> HIDE DEF t
  <2> QED BY <2>1, MatchLocal
<1>6. CASE VisitNode(w)
  <2>1. DOMAIN v = DOMAIN Idle /\ v.op = "match"
    BY <1>2 DEF Idle
  <2>2. CASE Get(w, v, IdKey(n.children[l]), "child")
    BY <2>1, <2>2, <1>3
  <2>3. CASE Local(w, [v EXCEPT !.pc = "plus"])
    <3> DEFINE t == [v EXCEPT !.pc = "plus"]
    <3>1. Local(w, t) /\ t.op = "match" /\ t.pc = "plus"
      BY <2>1, <2>3 DEF Idle
    <3> HIDE DEF t
    <3> QED BY <3>1, MatchLocal
  <2> QED BY <2>2, <2>3, <1>6 DEF VisitNode
<1>7. CASE ExactChild(w)
  <2> DEFINE t == [u EXCEPT !.next = Append(@, u.cur), !.cur = Nil, !.pc = "plus"]
  <2>1. Local(w, t) /\ t.op = "match" /\ t.pc = "plus"
    BY <1>2, <1>7 DEF ExactChild, Idle
  <2> HIDE DEF t
  <2> QED BY <2>1, MatchLocal
<1>8. CASE VisitPlus(w)
  <2>1. CASE Get(w, u, IdKey(n.plus), "plusChild")
    BY <2>1, <1>2, <1>3
  <2>2. CASE Local(w, [u EXCEPT !.queue = Tail(@), !.pc = "visit"])
    <3> DEFINE t == [u EXCEPT !.queue = Tail(@), !.pc = "visit"]
    <3>1. Local(w, t) /\ t.op = "match" /\ t.pc = "visit"
      BY <1>2, <2>2 DEF Idle
    <3> HIDE DEF t
    <3> QED BY <3>1, MatchLocal
  <2> QED BY <2>1, <2>2, <1>8 DEF VisitPlus
<1>9. CASE PlusChild(w)
  <2> DEFINE t == [u EXCEPT !.next = Append(@, u.cur), !.cur = Nil, !.queue = Tail(@),
                            !.pc = "visit"]
  <2>1. Local(w, t) /\ t.op = "match" /\ t.pc = "visit"
    BY <1>2, <1>9 DEF PlusChild, Idle
  <2> HIDE DEF t
  <2> QED BY <2>1, MatchLocal
<1>10. CASE Descend(w)
  <2> DEFINE t == [u EXCEPT !.queue = u.next, !.next = <<>>, !.lvl = @ + 1,
                            !.pc = IF u.next = <<>> THEN "done" ELSE "visit"]
  <2>1. Local(w, t) /\ t.op = "match" /\ t.pc \in {"done", "visit"}
    BY <1>2, <1>10 DEF Descend, Idle
  <2> HIDE DEF t
  <2> QED BY <2>1, MatchLocal
<1>11. CASE CollectTerminals(w)
  <2>1. CASE Goto(w, "done")
    <3> DEFINE t == [u EXCEPT !.pc = "done"]
    <3>1. Local(w, t) /\ t.op = "match" /\ t.pc = "done"
      BY <1>2, <2>1 DEF Goto, Idle
    <3> HIDE DEF t
    <3> QED BY <3>1, MatchLocal
  <2>2. CASE u.pc = "visit" /\ Local(w, [u EXCEPT !.got = @ (+) n.terminals,
                                                  !.queue = Tail(@)])
    <3> DEFINE t == [u EXCEPT !.got = @ (+) n.terminals, !.queue = Tail(@)]
    <3>1. Local(w, t) /\ t.op = "match" /\ t.pc = "visit"
      BY <1>2, <2>2 DEF Idle
    <3> HIDE DEF t
    <3> QED BY <3>1, MatchLocal
  <2> QED BY <2>1, <2>2, <1>11 DEF CollectTerminals, At
<1> QED BY <1>4, <1>5, <1>6, <1>7, <1>8, <1>9, <1>10, <1>11, NoNilNode DEF Match
-----------------------------------------------------------------------------
LEMMA IdleSerial ==
  ASSUME NEW A, NEW d, NEW c, NEW h
  PROVE  ThreadSerial(Idle, d, h, c, A)
  BY DEF ThreadSerial, SaveOK, Idle

LEMMA ReturnSerial ==
  ASSUME Alone, IInv, IInv', SInv, NEW w \in Worker, Return(w)
  PROVE  SInv'
<1> DEFINE u == th[w]
<1>1. /\ th' = [th EXCEPT ![w] = Idle] /\ cache' = cache /\ docs' = docs /\ spent' = spent
      /\ heap' = [q \in DOMAIN heap \cap Live' |-> heap[q]]
      /\ \/ acked' = acked
         \/ /\ u.pc = "done" /\ u.op = "insert"
            /\ acked' = {t \in acked : ~Equal(u.sub, t)} \cup {u.sub}
  BY DEF Return, Collect, At
<1>2. DOMAIN heap' \subseteq DOMAIN heap /\ \A q \in DOMAIN heap' : heap'[q] = heap[q]
  BY <1>1
<1>3. AckedSerial(acked, docs)
  BY DEF SInv
<1>4. u.pc = "done" /\ u.op = "insert" => u.sub.topic \in Path \ {<<>>} /\ Given(u.sub, docs)
  <2> SUFFICES ASSUME u.pc = "done", u.op = "insert"
               PROVE  u.sub.topic \in Path \ {<<>>} /\ Given(u.sub, docs)
    OBVIOUS
  <2>1. InsertOK(u, asked) /\ InsertSerial(u, docs, heap)
    BY DEF IInv, ThreadOK, SInv, ThreadSerial
  <2>2. Len(<<>>) = 0
    OBVIOUS
  <2> QED BY <2>1, <2>2 DEF InsertOK, InsertSerial
<1>5. AckedSerial(acked', docs)
  BY <1>1, <1>3, <1>4 DEF AckedSerial
<1>6. Unharmed' /\ CacheSerial(cache, docs, heap)
  BY <1>1 DEF SInv, Unharmed
<1> QED BY <1>1, <1>2, <1>5, <1>6, IdleSerial, SStep

LEMMA EvictSerial ==
  ASSUME IInv, IInv', SInv, Evict
  PROVE  SInv'
<1>1. /\ th' = th /\ docs' = docs /\ acked' = acked /\ spent' = spent
      /\ DOMAIN cache' \subseteq DOMAIN cache /\ \A k \in DOMAIN cache' : cache'[k] = cache[k]
      /\ heap' = [q \in DOMAIN heap \cap Live' |-> heap[q]]
  BY DEF Evict, Collect
<1>2. ASSUME NEW v \in Worker PROVE ThreadSerial(th[v], docs, heap', cache', acked)
  <2>1. ThreadSerial(th[v], docs, heap, cache', acked)
    BY <1>1 DEF SInv, ThreadSerial, SaveOK
  <2>2. ThreadOK(th[v], asked') /\ Held(th[v]) \subseteq DOMAIN heap' \cup {Nil}
    BY <1>1 DEF IInv
  <2>3. \A r \in {th[v].cur, th[v].par, th[v].tgt} \ {Nil} : heap'[r] = heap[r]
    BY <2>2, <1>1 DEF Held
  <2> QED BY <2>1, <2>2, <2>3, SCarry
<1>3. CacheSerial(cache', docs, heap')
  <2>1. \A k \in DOMAIN cache' : cache'[k] \in DOMAIN heap'
    BY DEF IInv, MemoryOK
  <2> QED BY <2>1, <1>1 DEF SInv, CacheSerial, InSync
<1> QED BY <1>1, <1>2, <1>3 DEF SInv, Unharmed

LEMMA RestartSerial ==
  ASSUME SInv, Counted, Restart
  PROVE  SInv'
<1>1. /\ th' = [w \in Worker |-> Idle] /\ cache' = <<>> /\ docs' = docs /\ acked' = acked
      /\ spent' = [spent EXCEPT !.restarts = @ + 1]
  BY DEF Restart
<1>2. DOMAIN <<>> = {}
  OBVIOUS
<1>3. CacheSerial(cache', docs', heap')
  BY <1>1, <1>2 DEF CacheSerial
<1>4. Unharmed'
  BY <1>1 DEF Counted, SInv, Unharmed
<1> QED BY <1>1, <1>3, <1>4, IdleSerial DEF SInv

LEMMA SInvInit == Init => SInv
<1> SUFFICES ASSUME Init PROVE SInv
  OBVIOUS
<1>1. th = [w \in Worker |-> Idle] /\ cache = <<>> /\ acked = {}
  BY DEF Init
<1>2. DOMAIN <<>> = {}
  OBVIOUS
<1>3. CacheSerial(cache, docs, heap) /\ AckedSerial(acked, docs)
  BY <1>1, <1>2 DEF CacheSerial, AckedSerial
<1>4. Unharmed
  BY DEF Init, Unharmed
<1> QED BY <1>1, <1>3, <1>4, IdleSerial DEF SInv

LEMMA SInvNext ==
  ASSUME Alone
  PROVE  IInv /\ IInv' /\ LInv /\ SInv /\ [Next]_vars => SInv'
<1> SUFFICES ASSUME IInv, IInv', LInv, SInv, [Next]_vars PROVE SInv'
  OBVIOUS
<1>1. AllResolve /\ Counted
  BY DEF LInv, SInv
<1>2. ASSUME NEW w \in Worker, Fetch(w) PROVE SInv'
  BY <1>1, <1>2, HitSerial, MissSerial, FindOneSerial, FindNothingSerial, FillSerial,
     CreateSerial DEF Fetch
<1>3. ASSUME NEW w \in Worker, Save(w) PROVE SInv'
  BY <1>1, <1>3, StoreSerial, ReplaceSerial, NoFailure DEF Save
<1>4. ASSUME NEW w \in Worker, Insert(w) PROVE SInv'
  BY <1>1, <1>4, LinkSerial, TerminalSerial, NextLevelSerial DEF Insert
<1>5. ASSUME NEW w \in Worker, Run(w) PROVE SInv'
  BY <1>1, <1>2, <1>3, <1>4, <1>5, RemoveSerial, MatchSerial, ReturnSerial DEF Run
<1>6. ASSUME NEW w \in Worker, Subscribe(w) \/ Unsubscribe(w) \/ Publish(w) PROVE SInv'
  BY <1>1, <1>6, RequestSerial
<1>7. CASE RaceFault \/ Kill
  BY <1>7 DEF RaceFault, Kill, SInv, Unharmed
<1>8. CASE Rest \/ UNCHANGED vars
  BY <1>8 DEF Rest, vars, SInv, Unharmed
<1> QED BY <1>1, <1>5, <1>6, <1>7, <1>8, EvictSerial, RestartSerial DEF Next, Worker

LEMMA SInvInvariant ==
  ASSUME Alone
  PROVE  Spec => [](IInv /\ LInv /\ SInv)
  BY IInvInvariant, LInvInit, LInvNext, SInvInit, SInvNext, PTL DEF Spec
-----------------------------------------------------------------------------
(***************************************************************************)
(* With one goroutine and no failing database call, InsertSubscription     *)
(* keeps its word: every subscription it accepted is stored and the path   *)
(* from the root to it linked until DeleteSubscription withdraws it, over  *)
(* any number of requests, restarts and evictions, whatever filters share  *)
(* the path and whatever outdated nodes MatchTopic put in the cache.       *)
(***************************************************************************)
THEOREM AcceptedInTreeHolds ==
  ASSUME Alone
  PROVE  Spec => []AcceptedInTree
<1>1. SInv => AcceptedInTree
  BY GivenInTree DEF SInv, AckedSerial, AcceptedInTree
<1> QED BY <1>1, SInvInvariant, PTL

(***************************************************************************)
(* With one goroutine and no failing database call, save loses nothing:    *)
(* an entry disappears from the collection only in the ReplaceOne of the   *)
(* DeleteSubscription that withdraws it.                                   *)
(***************************************************************************)
THEOREM NoCollateralLossHolds ==
  ASSUME Alone
  PROVE  Spec => NoCollateralLoss
<1>1. ASSUME IInv, SInv, [Next]_vars, docs' # docs
      PROVE  \A s \in StoredSubs \ StoredSubs' : Withdrawing(s)
  <2>1. PICK w \in Worker : ReplaceOne(w)
    <3>1. ASSUME NEW w \in Worker, Fetch(w) PROVE docs' = docs
      BY <3>1 DEF Fetch, CacheHit, CacheMiss, FindOne, FindNothing, Fill, Create,
                  Goto, Local
    <3>2. ASSUME NEW w \in Worker, Insert(w) \/ RemoveTerminal(w) \/ Return(w)
          PROVE  docs' = docs
      BY <3>2 DEF Insert, LinkLevel, AddTerminal, NextLevel, RemoveTerminal, Return,
                  Goto, Get, Assign, Local
    <3>3. ASSUME NEW w \in Worker, Match(w) PROVE docs' = docs
      BY <3>3 DEF Match, Root, RootPlus, VisitNode, ExactChild, VisitPlus, PlusChild,
                  Descend, CollectTerminals, NilNode, Goto, Get, Local
    <3>4. ASSUME NEW w, Subscribe(w) \/ Unsubscribe(w) \/ Publish(w) PROVE docs' = docs
      BY <3>4 DEF Subscribe, Unsubscribe, Publish, Begin
    <3>5. CASE Evict \/ RaceFault \/ Kill \/ Restart \/ Rest \/ UNCHANGED vars
      BY <3>5, <1>1 DEF Evict, RaceFault, Kill, Restart, Rest, vars
    <3>6. ASSUME NEW w \in Worker, Save(w) PROVE docs' = docs \/ ReplaceOne(w)
      BY <3>6, <1>1, NoFailure DEF Save, Store
    <3> QED BY <1>1, <3>1, <3>2, <3>3, <3>4, <3>5, <3>6 DEF Next, Run
  <2> DEFINE u == th[w]
  <2>2. DocsKeep(u, docs, docs')
    BY <2>1, <1>1, WrittenKeeps DEF ReplaceOne, At
  <2> TAKE s \in StoredSubs \ StoredSubs'
  <2>3. PICK p \in DOMAIN docs : s \in DOMAIN docs[p].hash \cup DOMAIN docs[p].terminals
    BY DEF StoredSubs
  <2>4. p \in DOMAIN docs' /\ s \notin DOMAIN docs'[p].hash \cup DOMAIN docs'[p].terminals
    BY <2>2 DEF DocsKeep, StoredSubs
  <2>5. Withdraws(u, s)
    BY <2>2, <2>3, <2>4 DEF DocsKeep, Keeps
  <2> QED BY <2>5 DEF Withdraws, Withdrawing
<1>2. IInv /\ SInv /\ [Next]_vars =>
         [\A s \in StoredSubs \ StoredSubs' : Withdrawing(s)]_docs
  BY <1>1
<1> QED BY <1>2, SInvInvariant, PTL DEF Spec, NoCollateralLoss
-----------------------------------------------------------------------------
(***************************************************************************)
(* What a match has to visit.  Fit is the set of paths of n levels that    *)
(* fit the topic t and hang on the root, Below those of them whose parent  *)
(* is in P, Collected what MatchTopic has gathered when it has gone        *)
(* through the levels before n and, of level n, the nodes in P.            *)
(***************************************************************************)
Fit(n, t, d) == {p \in DOMAIN d : Chain(p, n, d) /\ Fits(p, t, n)}

Below(P, n, t, d) == {p \in Fit(n, t, d) : Parent(p) \in P}

Hashes(P, d) == UNION {DOMAIN d[p].hash : p \in P}
Terms(P, d)  == UNION {DOMAIN d[p].terminals : p \in P}

Above(n, t, d) == UNION {Fit(i, t, d) : i \in 1..(n - 1)}

Collected(n, P, t, d) ==
    Hashes(Above(n, t, d), d) \cup (IF n < Len(t) THEN Hashes(P, d) ELSE Terms(P, d))

\* Every link of the collection is to the _id of the child.
LinksCurrent(d) ==
    \A p \in DOMAIN d :
        /\ p \in Path
        /\ \A l \in DOMAIN d[p].children : /\ Append(p, l) \in DOMAIN d
                                           /\ d[p].children[l] = IdOf(Append(p, l), d)
        /\ d[p].plus # NoID => /\ Append(p, "+") \in DOMAIN d
                               /\ d[p].plus = IdOf(Append(p, "+"), d)

LEMMA DocLinks ==
  ASSUME IInv, AllResolve
  PROVE  LinksCurrent(docs)
<1>1. ASSUME NEW p \in DOMAIN docs
      PROVE  p \in Path /\ NodeOK(p, docs[p], asked) /\ Resolves(docs[p], docs)
  BY DEF IInv, DocsOK, AllResolve, DocsResolve
<1>2. ASSUME NEW p \in DOMAIN docs, NEW l \in DOMAIN docs[p].children
      PROVE  /\ Append(p, l) \in DOMAIN docs
             /\ docs[p].children[l] = IdOf(Append(p, l), docs)
  <2> DEFINE id == docs[p].children[l]
  <2>1. id \in ID /\ id.path = Append(p, l) /\ In(id, docs)
    BY <1>1 DEF NodeOK, Resolves
  <2> HIDE DEF id
  <2>2. id = IdOf(id.path, docs)
    BY <2>1, IdIs
  <2> QED BY <2>1, <2>2 DEF id, In
<1>3. ASSUME NEW p \in DOMAIN docs, docs[p].plus # NoID
      PROVE  /\ Append(p, "+") \in DOMAIN docs
             /\ docs[p].plus = IdOf(Append(p, "+"), docs)
  <2> DEFINE id == docs[p].plus
  <2>1. id \in ID /\ id.path = Append(p, "+") /\ In(id, docs)
    BY <1>1, <1>3 DEF NodeOK, Resolves
  <2> HIDE DEF id
  <2>2. id = IdOf(id.path, docs)
    BY <2>1, IdIs
  <2> QED BY <2>1, <2>2 DEF id, In
<1> QED BY <1>1, <1>2, <1>3 DEF LinksCurrent

LEMMA PrefixOfPrefix ==
  ASSUME NEW f \in Path, NEW j \in 1..Len(f), NEW i \in 1..j
  PROVE  Prefix(Prefix(f, j), i) = Prefix(f, i)
<1> DEFINE p == Prefix(f, j)
<1>1. p \in Seq(Token) /\ Len(p) = j /\ \A x \in 1..j : p[x] = f[x]
  BY PrefixFacts DEF Path
<1> HIDE DEF p
<1>2. /\ Prefix(p, i) \in Seq(Token) /\ Len(Prefix(p, i)) = i
      /\ \A x \in 1..i : Prefix(p, i)[x] = p[x]
  BY <1>1, PrefixFacts
<1>3. /\ Prefix(f, i) \in Seq(Token) /\ Len(Prefix(f, i)) = i
      /\ \A x \in 1..i : Prefix(f, i)[x] = f[x]
  BY PrefixFacts DEF Path
<1>4. \A x \in 1..i : Prefix(p, i)[x] = Prefix(f, i)[x]
  BY <1>1, <1>2, <1>3
<1>5. Prefix(p, i) = Prefix(f, i)
  BY <1>2, <1>3, <1>4, SeqEqual
<1> QED BY <1>5 DEF p

LEMMA ChainPrefix ==
  ASSUME NEW f \in Path, NEW j \in 1..Len(f), NEW d
  PROVE  Chain(Prefix(f, j), j, d) <=> Chain(f, j, d)
<1> DEFINE p == Prefix(f, j)
<1>1. \A i \in 1..j : Prefix(p, i) = Prefix(f, i) /\ p[i] = f[i]
  BY PrefixOfPrefix, PrefixFacts DEF Path
<1>2. \A i \in 2..j : i \in 1..j /\ i - 1 \in 1..j
  OBVIOUS
<1> HIDE DEF p
<1>3. Chain(p, j, d) <=> Chain(f, j, d)
  BY <1>1, <1>2 DEF Chain
<1> QED BY <1>3 DEF p

(***************************************************************************)
(* Which paths of level 1 fit, and how those of the next level are found.  *)
(***************************************************************************)
LEMMA FitRoot ==
  ASSUME NEW d, LinksCurrent(d), NEW t \in Seq(Level), t # <<>>
  PROVE  Fit(1, t, d) = {Prefix(t, 1), <<"+">>} \cap DOMAIN d
<1>1. Len(t) \in Nat \ {0} /\ 1 \in 1..Len(t) /\ 1 \in 1..1 /\ Len(<<>>) = 0
  BY EmptySeq
<1>2. /\ Prefix(t, 1) \in Seq(Level) /\ Len(Prefix(t, 1)) = 1 /\ Prefix(t, 1)[1] = t[1]
  <2> DEFINE i == 1
  <2>1. i \in 1..Len(t) /\ i \in 1..i
    BY <1>1
  <2> HIDE DEF i
  <2>2. /\ Prefix(t, i) \in Seq(Level) /\ Len(Prefix(t, i)) = i /\ Prefix(t, i)[i] = t[i]
    BY <2>1, PrefixFacts
  <2> QED BY <2>2 DEF i
<1>3. /\ <<"+">> \in Path /\ Len(<<"+">>) = 1 /\ <<"+">>[1] = "+"
  BY DEF Path, Token
<1>4. ASSUME NEW p \in DOMAIN d, Len(p) = 1
      PROVE  /\ Chain(p, 1, d) /\ p \in Path
             /\ (p[1] = "+" \/ p[1] = t[1]) <=> Fits(p, t, 1)
  <2>1. p \in Path /\ p # <<>>
    BY <1>1, <1>4 DEF LinksCurrent
  <2>2. Prefix(p, 1) = p
    BY <2>1, <1>4, PrefixAll DEF Path
  <2>3. Chain(p, 1, d)
    BY <2>2 DEF Chain
  <2>4. \A i \in 1..1 : i = 1
    OBVIOUS
  <2>5. LevelwiseMatch(p, t) <=> (p[1] = "+" \/ p[1] = t[1])
    BY <2>4, <1>4 DEF LevelwiseMatch
  <2> QED BY <2>1, <2>3, <2>5, <1>1, <1>4 DEF Fits
<1>5. ASSUME NEW p \in Path, Len(p) = 1, p[1] = "+" PROVE p = <<"+">>
  BY <1>3, <1>5, SeqEqual DEF Path
<1>6. Prefix(t, 1) \in Path
  <2>1. t \in Seq(Token) /\ 1 \in 1..Len(t)
    BY <1>1 DEF Token
  <2> QED BY <2>1, PrefixFacts DEF Path
<1>7. ASSUME NEW p \in Path, Len(p) = 1, p[1] = t[1] PROVE p = Prefix(t, 1)
  BY <1>2, <1>6, <1>7, SeqEqual DEF Path
<1>8. Fit(1, t, d) \subseteq {Prefix(t, 1), <<"+">>} \cap DOMAIN d
  BY <1>4, <1>5, <1>7 DEF Fit, Fits
<1>9. {Prefix(t, 1), <<"+">>} \cap DOMAIN d \subseteq Fit(1, t, d)
  BY <1>2, <1>3, <1>4 DEF Fit
<1> QED BY <1>8, <1>9

LEMMA FitParent ==
  ASSUME NEW d, LinksCurrent(d), NEW t \in Seq(Level), NEW n \in Nat \ {0},
         NEW p \in Fit(n + 1, t, d)
  PROVE  /\ p \in Path /\ n < Len(t) /\ p = Append(Parent(p), Last(p))
         /\ Parent(p) \in Fit(n, t, d) /\ Last(p) \in {"+", t[n + 1]}
         /\ LinkedIn(d[Parent(p)], Last(p), IdOf(p, d))
<1>1. /\ p \in Path /\ Len(p) = n + 1 /\ n + 1 <= Len(t) /\ Chain(p, n + 1, d)
      /\ \A i \in 1..(n + 1) : p[i] = "+" \/ p[i] = t[i]
  BY DEF Fit, Fits, LevelwiseMatch, LinksCurrent
<1>2. p # <<>> /\ n \in 1..Len(p) /\ n + 1 \in 1..Len(p) /\ n + 1 \in 2..(n + 1)
      /\ (n + 1) - 1 = n
  BY <1>1, EmptySeq
<1>3. p = Append(Parent(p), Last(p)) /\ Parent(p) = Prefix(p, n) /\ Prefix(p, n + 1) = p
      /\ Last(p) = p[n + 1]
  BY <1>1, <1>2, ParentFacts, PrefixAll DEF Path, Last
<1>4. Chain(p, n, d) /\ Prefix(p, n) \in DOMAIN d
  BY <1>1, <1>2 DEF Chain
<1>5. Chain(Prefix(p, n), n, d)
  BY <1>1, <1>2, <1>4, ChainPrefix
<1>6. Fits(Prefix(p, n), t, n)
  <2>1. Len(Prefix(p, n)) = n /\ \A i \in 1..n : Prefix(p, n)[i] = p[i]
    BY <1>1, <1>2, PrefixFacts DEF Path
  <2>2. \A i \in 1..n : p[i] = "+" \/ p[i] = t[i]
    BY <1>1
  <2>3. n <= Len(t)
    BY <1>1
  <2> QED BY <2>1, <2>2, <2>3 DEF Fits, LevelwiseMatch
<1>7. LinkedIn(d[Prefix(p, n)], p[n + 1], IdOf(p, d))
  <2>1. LinkedIn(d[Prefix(p, (n + 1) - 1)], p[n + 1], IdOf(Prefix(p, n + 1), d))
    BY <1>1, <1>2 DEF Chain
  <2> QED BY <2>1, <1>2, <1>3
<1>8. Last(p) \in {"+", t[n + 1]} /\ n < Len(t)
  BY <1>1, <1>2, <1>3
<1> QED BY <1>1, <1>3, <1>4, <1>5, <1>6, <1>7, <1>8 DEF Fit

LEMMA FitChild ==
  ASSUME NEW d, LinksCurrent(d), NEW t \in Seq(Level), NEW n \in Nat \ {0}, n < Len(t),
         NEW r \in Fit(n, t, d)
  PROVE  /\ Append(r, t[n + 1]) \in Fit(n + 1, t, d) <=> t[n + 1] \in DOMAIN d[r].children
         /\ Append(r, "+") \in Fit(n + 1, t, d) <=> d[r].plus # NoID
<1>1. r \in Path /\ Fits(r, t, n) /\ Len(r) = n /\ Chain(r, n, d) /\ r \in DOMAIN d
  BY DEF Fit, Fits, LinksCurrent
<1>2. n + 1 \in 1..Len(t) /\ t[n + 1] \in Level
  <2>1. n + 1 \in 1..Len(t)
    OBVIOUS
  <2> QED BY <2>1, ElementOfSeq
<1>3. t[n + 1] \in Token /\ "+" \in Token /\ t[n + 1] # "+"
  BY <1>2, LevelAssumption DEF Token
<1>4. ASSUME NEW l \in {"+", t[n + 1]}
      PROVE  /\ Append(r, l) \in Path /\ Append(r, l) # <<>>
             /\ Parent(Append(r, l)) = r /\ Last(Append(r, l)) = l
             /\ Append(r, l) \in Fit(n + 1, t, d) <=>
                   Append(r, l) \in DOMAIN d /\ LinkedIn(d[r], l, IdOf(Append(r, l), d))
  <2> DEFINE q == Append(r, l)
  <2>1. l \in Token
    BY <1>3
  <2>2. q \in Path /\ Fits(q, t, n + 1)
    BY <2>1, <1>1, FitsDeeper
  <2>3. q # <<>> /\ Len(q) = n + 1 /\ Parent(q) = r /\ Last(q) = l
    BY <2>1, <1>1, ParentAppend DEF Path
  <2> HIDE DEF q
  <2>4. q \in Fit(n + 1, t, d) => q \in DOMAIN d /\ LinkedIn(d[r], l, IdOf(q, d))
    BY <2>3, FitParent DEF Fit
  <2>5. ASSUME q \in DOMAIN d, LinkedIn(d[r], l, IdOf(q, d))
        PROVE  q \in Fit(n + 1, t, d)
    <3>1. n \in 1..Len(q) /\ n + 1 \in Nat \ {0} /\ (n + 1) - 1 = n /\ Len(q) > 1
          /\ q[n + 1] = l
      BY <2>3 DEF Last
    <3>2. Prefix(q, n) = r /\ Prefix(q, n + 1) = q
      BY <2>2, <2>3, <3>1, LengthFacts
    <3>3. Chain(q, n, d)
      BY <3>1, <3>2, <2>2, <1>1, ChainPrefix
    <3>4. LinkedIn(d[Prefix(q, (n + 1) - 1)], q[n + 1], IdOf(Prefix(q, n + 1), d))
      BY <3>1, <3>2, <2>5
    <3>5. Chain(q, (n + 1) - 1, d) /\ Prefix(q, n + 1) \in DOMAIN d
      BY <3>1, <3>2, <3>3, <2>5
    <3> HIDE DEF q
    <3>6. Chain(q, n + 1, d)
      BY <3>1, <3>4, <3>5, ChainLonger
    <3> QED BY <3>6, <2>2, <2>5 DEF Fit
  <2> QED BY <2>2, <2>3, <2>4, <2>5 DEF q
<1>5. Append(r, t[n + 1]) \in Fit(n + 1, t, d) <=> t[n + 1] \in DOMAIN d[r].children
  BY <1>1, <1>3, <1>4 DEF LinkedIn, LinksCurrent
<1>6. IdOf(Append(r, "+"), d) # NoID
  BY <1>4 DEF IdOf, NoID
<1>7. Append(r, "+") \in Fit(n + 1, t, d) <=> d[r].plus # NoID
  BY <1>1, <1>4, <1>6 DEF LinkedIn, LinksCurrent
<1> QED BY <1>5, <1>7

LEMMA FitPrefix ==
  ASSUME NEW d, LinksCurrent(d), NEW t \in Seq(Level), NEW n \in Nat \ {0},
         NEW p \in Fit(n, t, d), NEW j \in 1..n
  PROVE  Prefix(p, j) \in Fit(j, t, d)
<1>1. /\ p \in Path /\ Len(p) = n /\ n <= Len(t) /\ Chain(p, n, d)
      /\ \A i \in 1..n : p[i] = "+" \/ p[i] = t[i]
  BY DEF Fit, Fits, LevelwiseMatch, LinksCurrent
<1>2. j \in 1..Len(p) /\ j \in Nat /\ j <= Len(t)
  BY <1>1
<1>3. Chain(p, j, d) /\ Prefix(p, j) \in DOMAIN d
  BY <1>1 DEF Chain
<1>4. Chain(Prefix(p, j), j, d)
  BY <1>1, <1>2, <1>3, ChainPrefix
<1>5. Len(Prefix(p, j)) = j /\ \A i \in 1..j : Prefix(p, j)[i] = p[i]
  BY <1>1, <1>2, PrefixFacts DEF Path
<1>6. \A i \in 1..j : p[i] = "+" \/ p[i] = t[i]
  BY <1>1
<1> QED BY <1>2, <1>3, <1>4, <1>5, <1>6 DEF Fit, Fits, LevelwiseMatch

(***************************************************************************)
(* The two sets after one more node, and after the last node of a level.   *)
(***************************************************************************)
LEMMA BelowOne ==
  ASSUME NEW d, LinksCurrent(d), NEW t \in Seq(Level), NEW n \in Nat \ {0}, n < Len(t),
         NEW r \in Fit(n, t, d), NEW P
  PROVE  Below(P \cup {r}, n + 1, t, d)
         = Below(P, n + 1, t, d)
           \cup ({Append(r, t[n + 1])} \cap Fit(n + 1, t, d))
           \cup ({Append(r, "+")} \cap Fit(n + 1, t, d))
<1>1. r \in Seq(Token)
  BY DEF Fit, LinksCurrent, Path
<1>2. t[n + 1] \in Token /\ "+" \in Token
  <2>1. n + 1 \in 1..Len(t)
    OBVIOUS
  <2>2. t[n + 1] \in Level
    BY <2>1, ElementOfSeq
  <2> QED BY <2>2 DEF Token
<1>3. Parent(Append(r, t[n + 1])) = r /\ Parent(Append(r, "+")) = r
  BY <1>1, <1>2, ParentAppend
<1>4. ASSUME NEW p \in Fit(n + 1, t, d), Parent(p) = r
      PROVE  p \in {Append(r, t[n + 1]), Append(r, "+")}
  BY <1>4, FitParent
<1> QED BY <1>3, <1>4 DEF Below

LEMMA BelowAll ==
  ASSUME NEW d, LinksCurrent(d), NEW t \in Seq(Level), NEW n \in Nat \ {0}
  PROVE  /\ Below(Fit(n, t, d), n + 1, t, d) = Fit(n + 1, t, d)
         /\ Below({}, n, t, d) = {}
  BY FitParent DEF Below

LEMMA CollectedStart ==
  ASSUME NEW t, NEW d
  PROVE  Collected(1, {}, t, d) = {}
<1>1. Above(1, t, d) = {}
  BY DEF Above
<1>2. Hashes({}, d) = {} /\ Terms({}, d) = {}
  BY DEF Hashes, Terms
<1> QED BY <1>1, <1>2 DEF Collected

LEMMA CollectedNext ==
  ASSUME NEW n \in Nat \ {0}, NEW t, n < Len(t), NEW d
  PROVE  Collected(n + 1, {}, t, d) = Collected(n, Fit(n, t, d), t, d)
<1>1. Above(n + 1, t, d) = Above(n, t, d) \cup Fit(n, t, d)
  <2>1. \A i : i \in 1..((n + 1) - 1) <=> i \in 1..(n - 1) \/ i = n
    OBVIOUS
  <2> QED BY <2>1 DEF Above
<1>2. Hashes({}, d) = {} /\ Terms({}, d) = {}
  BY DEF Hashes, Terms
<1>3. Hashes(Above(n, t, d) \cup Fit(n, t, d), d)
      = Hashes(Above(n, t, d), d) \cup Hashes(Fit(n, t, d), d)
  BY DEF Hashes
<1> QED BY <1>1, <1>2, <1>3 DEF Collected

LEMMA CollectedEnd ==
  ASSUME NEW d, LinksCurrent(d), NEW t \in Seq(Level), NEW n \in Nat \ {0}, n <= Len(t),
         Fit(n, t, d) = {}
  PROVE  Collected(n, {}, t, d) = Collected(Len(t), Fit(Len(t), t, d), t, d)
<1>1. Len(t) \in Nat
  OBVIOUS
<1>2. ASSUME NEW i \in Nat \ {0}, n <= i PROVE Fit(i, t, d) = {}
  <2>1. n \in 1..i
    BY <1>2
  <2> QED BY <1>2, <2>1, FitPrefix
<1>3. Fit(Len(t), t, d) = {}
  BY <1>1, <1>2
<1>4. Above(n, t, d) = Above(Len(t), t, d)
  <2>1. \A i \in 1..(n - 1) : i \in 1..(Len(t) - 1)
    BY <1>1
  <2>2. \A i \in 1..(Len(t) - 1) : i \in 1..(n - 1) \/ Fit(i, t, d) = {}
    BY <1>1, <1>2
  <2> QED BY <2>1, <2>2 DEF Above
<1>5. Hashes({}, d) = {} /\ Terms({}, d) = {}
  BY DEF Hashes, Terms
<1> QED BY <1>3, <1>4, <1>5 DEF Collected

(***************************************************************************)
(* The paths in a queue of nodes.                                          *)
(***************************************************************************)
Paths(q) == {r.path : r \in Elements(q)}

Once(q) == \A i, j \in 1..Len(q) : q[i].path = q[j].path => i = j

LEMMA QueueAppend ==
  ASSUME NEW S, NEW q \in Seq(S), NEW x \in S
  PROVE  /\ Elements(Append(q, x)) = Elements(q) \cup {x}
         /\ Paths(Append(q, x)) = Paths(q) \cup {x.path}
         /\ Once(q) /\ x.path \notin Paths(q) => Once(Append(q, x))
<1> DEFINE a == Append(q, x)
<1>1. Len(q) \in Nat /\ Paths(q) = {q[i].path : i \in 1..Len(q)}
  BY DEF Paths, Elements
<1>2. /\ Len(a) = Len(q) + 1 /\ a[Len(q) + 1] = x
      /\ \A i \in 1..Len(q) : a[i] = q[i]
  BY AppendProperties
<1>3. Elements(a) = Elements(q) \cup {x}
  BY ElementsFacts
<1> HIDE DEF a
<1>4. \A i \in 1..Len(a) : i \in 1..Len(q) \/ i = Len(q) + 1
  BY <1>1, <1>2
<1>5. Once(q) /\ x.path \notin Paths(q) => Once(a)
  BY <1>1, <1>2, <1>4 DEF Once
<1>6. Paths(a) = Paths(q) \cup {x.path}
  BY <1>3 DEF Paths
<1> QED BY <1>3, <1>5, <1>6 DEF a

LEMMA QueuePrepend ==
  ASSUME NEW S, NEW q \in Seq(S), NEW x \in S
  PROVE  /\ Paths(<<x>> \o q) = {x.path} \cup Paths(q)
         /\ Once(q) /\ x.path \notin Paths(q) => Once(<<x>> \o q)
<1> DEFINE a == <<x>> \o q
<1>1. Len(q) \in Nat /\ Paths(q) = {q[i].path : i \in 1..Len(q)}
  BY DEF Paths, Elements
<1>2. /\ Len(a) = Len(q) + 1 /\ a[1] = x
      /\ \A i \in 1..Len(q) : a[i + 1] = q[i]
  OBVIOUS
<1>3. Elements(a) = {x} \cup Elements(q)
  BY ConcatElements
<1> HIDE DEF a
<1>4. \A i \in 1..Len(a) : i = 1 \/ (i - 1 \in 1..Len(q) /\ a[i] = q[i - 1])
  <2>1. \A i \in 1..Len(a) : i = 1 \/ (i - 1 \in 1..Len(q) /\ (i - 1) + 1 = i)
    BY <1>1, <1>2
  <2> QED BY <2>1, <1>2
<1>5. Once(q) /\ x.path \notin Paths(q) => Once(a)
  <2> SUFFICES ASSUME Once(q), x.path \notin Paths(q),
                      NEW i \in 1..Len(a), NEW j \in 1..Len(a), a[i].path = a[j].path
               PROVE  i = j
    BY DEF Once
  <2>1. i = 1 \/ j = 1 => i = j
    BY <1>1, <1>2, <1>4
  <2>2. i # 1 /\ j # 1 => i - 1 = j - 1
    BY <1>4 DEF Once
  <2> QED BY <2>1, <2>2, <1>1, <1>2
<1>6. Paths(a) = {x.path} \cup Paths(q)
  BY <1>3 DEF Paths
<1> QED BY <1>5, <1>6 DEF a

LEMMA QueueFacts ==
  ASSUME NEW S, NEW q \in Seq(S)
  PROVE  /\ Paths(<<>>) = {} /\ Once(<<>>)
         /\ q # <<>> => /\ q[1].path \in Paths(q)
                        /\ Once(q) => /\ Once(Tail(q))
                                      /\ Paths(Tail(q)) = Paths(q) \ {q[1].path}
<1>1. Paths(<<>>) = {} /\ Once(<<>>)
  <2>1. Elements(<<>>) = {} /\ Len(<<>>) = 0
    BY EmptySeq DEF Elements
  <2> QED BY <2>1 DEF Paths, Once
<1>2. Len(q) \in Nat /\ Paths(q) = {q[i].path : i \in 1..Len(q)}
  BY DEF Paths, Elements
<1>3. ASSUME q # <<>>
      PROVE  /\ q[1].path \in Paths(q)
             /\ Once(q) => /\ Once(Tail(q))
                           /\ Paths(Tail(q)) = Paths(q) \ {q[1].path}
  <2> DEFINE a == Tail(q)
  <2>1. /\ Len(q) \in Nat \ {0} /\ Len(a) = Len(q) - 1
        /\ \A i \in 1..Len(a) : a[i] = q[i + 1]
    BY <1>3, EmptySeq, HeadTailProperties
  <2> HIDE DEF a
  <2>2. Paths(a) = {a[i].path : i \in 1..Len(a)}
    BY DEF Paths, Elements
  <2>3. 1 \in 1..Len(q) /\ \A i \in 1..Len(a) : i + 1 \in 1..Len(q) /\ i + 1 # 1
    BY <2>1
  <2>4. \A i \in 1..Len(q) : i = 1 \/ (i - 1 \in 1..Len(a) /\ q[i] = a[i - 1])
    <3>1. \A i \in 1..Len(q) : i = 1 \/ (i - 1 \in 1..Len(a) /\ (i - 1) + 1 = i)
      BY <2>1
    <3> QED BY <3>1, <2>1
  <2>5. q[1].path \in Paths(q)
    BY <1>2, <2>3
  <2>6. Once(q) => Once(a)
    <3> SUFFICES ASSUME Once(q),
                        NEW i \in 1..Len(a), NEW j \in 1..Len(a), a[i].path = a[j].path
                 PROVE  i = j
      BY DEF Once
    <3>1. i + 1 = j + 1
      BY <2>1, <2>3 DEF Once
    <3> QED BY <3>1
  <2>7. Once(q) => Paths(a) = Paths(q) \ {q[1].path}
    <3> SUFFICES ASSUME Once(q) PROVE Paths(a) = Paths(q) \ {q[1].path}
      OBVIOUS
    <3>1. \A i \in 1..Len(a) : a[i].path \in Paths(q) /\ a[i].path # q[1].path
      BY <1>2, <2>1, <2>3 DEF Once
    <3>2. \A i \in 1..Len(q) : q[i].path = q[1].path \/ q[i].path \in Paths(a)
      BY <2>2, <2>4
    <3> QED BY <1>2, <2>2, <3>1, <3>2
  <2> QED BY <2>5, <2>6, <2>7 DEF a
<1> QED BY <1>1, <1>3

-----------------------------------------------------------------------------
(***************************************************************************)
(* No subscription is twice in one slice of terminals, and the node of a   *)
(* filter that ends in "#" has none, unless the filter is "#" itself.      *)
(***************************************************************************)
Tidy(p, bag) == \A s \in DOMAIN bag : bag[s] = 1 /\ (Len(p) = 1 \/ Last(p) # "#")

ThreadTidy(u) ==
    /\ u.pc = "store" /\ u.upd.field = "terminals" => Tidy(u.tgt.path, u.upd.subs)
    /\ u.pc = "replace" => Tidy(u.tgt.path, u.buf.terminals)

DocsTidy(d)   == \A p \in DOMAIN d : Tidy(p, d[p].terminals)
MemoryTidy(h) == \A r \in DOMAIN h : Tidy(r.path, h[r].terminals)

(***************************************************************************)
(* What a match that met no outdated entry knows at label l: which nodes   *)
(* of its level are still in the queue, that it has collected what the     *)
(* others hold, and that the next queue has the children of those.         *)
(***************************************************************************)
Unvisited == {"root", "rootPlus"}
Visiting  == {"child", "plus", "plusChild"}

Search(l, u, d) ==
    LET t == u.sub.topic
        n == u.lvl
        r == u.queue[1].path
        F == Fit(n, t, d) \ Paths(u.queue)
    IN
    /\ Once(u.queue) /\ Once(u.next)
    /\ \A s \in DOMAIN u.got : Last(s.topic) # "#" => u.got[s] = 1
    /\ l \in Unvisited => u.next = <<>> /\ DOMAIN u.got = {}
    /\ l = "root" => u.queue = <<>> /\ u.key = PathKey(Prefix(t, 1))
    /\ l = "rootPlus" => /\ u.key = PathKey(<<"+">>)
                         /\ Paths(u.queue) = {Prefix(t, 1)} \cap DOMAIN d
    /\ l \in Visiting \cup {"visit"} => Paths(u.queue) \subseteq Fit(n, t, d)
    /\ l = "visit" => DOMAIN u.got = Collected(n, F, t, d)
    /\ l \in Visiting => DOMAIN u.got = Collected(n, F \cup {r}, t, d)
    /\ l \in {"visit", "child"} => Paths(u.next) = Below(F, n + 1, t, d)
    /\ l \in {"plus", "plusChild"} =>
          Paths(u.next) = Below(F, n + 1, t, d)
                          \cup ({Append(r, t[n + 1])} \cap Fit(n + 1, t, d))
    /\ l = "child" => /\ u.key.path = Append(r, t[n + 1])
                      /\ u.key.path \in Fit(n + 1, t, d)
    /\ l = "plusChild" => /\ u.key.path = Append(r, "+")
                          /\ u.key.path \in Fit(n + 1, t, d)
    /\ l = "done" => DOMAIN u.got = Collected(Len(t), Fit(Len(t), t, d), t, d)

Exact(u, d, h) ==
    /\ \A x \in Held(u) \ {Nil} : InSync(x, d, h)
    /\ u.pc \in Unvisited /\ u.cur = Nil => u.key.path \notin DOMAIN d
    /\ Search(Label(u), u, d)

ThreadExact(u, d, h) == u.op = "match" /\ ~u.stale => Exact(u, d, h)

EInv ==
    /\ DocsTidy(docs) /\ MemoryTidy(heap)
    /\ \A w \in Worker : ThreadTidy(th[w]) /\ ThreadExact(th[w], docs, heap)
-----------------------------------------------------------------------------
LEMMA XCarry ==
  ASSUME NEW u, NEW d, NEW h, NEW g, Held(u) \subseteq DOMAIN g \cup {Nil},
         \A r \in DOMAIN g : g[r] = h[r], ThreadExact(u, d, h)
  PROVE  ThreadExact(u, d, g)
<1>1. \A x \in Held(u) \ {Nil} : InSync(x, d, h) => InSync(x, d, g)
  BY DEF InSync
<1> QED BY <1>1 DEF ThreadExact, Exact

\* A step of the only goroutine that leaves memory with h, before the collector.
LEMMA EStep ==
  ASSUME Alone, IInv, IInv', NEW w \in Worker, NEW t, NEW h,
         th' = [th EXCEPT ![w] = t],
         DOMAIN heap' \subseteq DOMAIN h, \A r \in DOMAIN heap' : heap'[r] = h[r],
         DocsTidy(docs'), MemoryTidy(h), ThreadTidy(t), ThreadExact(t, docs', h)
  PROVE  EInv'
<1>1. \A v \in Worker : th'[v] = t
  BY DEF Alone, IInv
<1>2. Held(t) \subseteq DOMAIN heap' \cup {Nil}
  BY <1>1 DEF IInv
<1>3. ThreadExact(t, docs', heap')
  BY <1>2, XCarry
<1>4. MemoryTidy(heap')
  BY DEF MemoryTidy
<1> QED BY <1>1, <1>3, <1>4 DEF EInv

LEMMA ELocal ==
  ASSUME Alone, IInv, IInv', EInv, NEW w \in Worker, NEW t, Local(w, t),
         ThreadTidy(t), ThreadExact(t, docs, heap)
  PROVE  EInv'
<1>1. /\ th' = [th EXCEPT ![w] = t] /\ docs' = docs
      /\ heap' = [r \in DOMAIN heap \cap Live' |-> heap[r]]
  BY DEF Local, Collect
<1>2. DOMAIN heap' \subseteq DOMAIN heap /\ \A r \in DOMAIN heap' : heap'[r] = heap[r]
  BY <1>1
<1>3. DocsTidy(docs') /\ MemoryTidy(heap) /\ ThreadExact(t, docs', heap)
  BY <1>1 DEF EInv
<1> QED BY <1>1, <1>2, <1>3, EStep

\* The search of t is that of u where only the node just found is another.
LEMMA SameSearch ==
  ASSUME NEW t, NEW u, NEW d, Differ(t, u, {"cur", "pc", "stale"}), Label(t) = Label(u),
         Search(Label(u), u, d)
  PROVE  Search(Label(t), t, d)
<1>1. /\ t.sub = u.sub /\ t.lvl = u.lvl /\ t.queue = u.queue /\ t.next = u.next
      /\ t.got = u.got /\ t.key = u.key
  BY DEF Differ, Idle
<1> QED BY <1>1 DEF Search

LEMMA HitExact ==
  ASSUME Alone, IInv, IInv', EInv, NEW w \in Worker, CacheHit(w)
  PROVE  EInv'
<1> DEFINE u == th[w]
           b == u.stale \/ u.key.path \notin DOMAIN docs
                \/ heap[cache[u.key]] # docs[u.key.path]
           t == [u EXCEPT !.cur = cache[u.key], !.pc = u.ret, !.stale = b]
<1>1. u.pc = "lookup" /\ u.key \in DOMAIN cache /\ Local(w, t)
  BY DEF CacheHit, At
<1>2. ThreadOK(u, asked) /\ ThreadExact(u, docs, heap)
  BY DEF IInv, EInv
<1>3. /\ Differ(t, u, {"cur", "pc", "stale"})
      /\ t.cur = cache[u.key] /\ t.pc = u.ret /\ t.stale = b
  BY <1>2 DEF ThreadOK, Differ, Idle
<1> HIDE DEF t
<1>4. t.pc \notin {"store", "replace"} \cup InLookup
  BY <1>1, <1>2, <1>3 DEF ThreadOK, InsertOK, DeleteOK, MatchOK, InLookup, InSave
<1>5. t.cur \in DOMAIN heap /\ t.cur.path = u.key.path /\ t.cur # Nil
  BY <1>1, <1>3, TreeAssumption DEF IInv, MemoryOK, Ref, Nil
<1>6. ThreadExact(t, docs, heap)
  <2> SUFFICES ASSUME t.op = "match", ~t.stale PROVE Exact(t, docs, heap)
    BY DEF ThreadExact
  <2>1. u.op = "match" /\ ~u.stale /\ InSync(t.cur, docs, heap)
    BY <1>3, <1>5 DEF Differ, Idle, InSync
  <2>2. Exact(u, docs, heap)
    BY <2>1, <1>2 DEF ThreadExact
  <2>3. \A x \in Held(t) \ {Nil} : InSync(x, docs, heap)
    BY <2>1, <2>2, <1>3 DEF Exact, Held, Differ, Idle
  <2>4. Label(t) = Label(u)
    BY <1>1, <1>3, <1>4 DEF Label, InLookup
  <2> QED BY <2>2, <2>3, <2>4, <1>3, <1>5, SameSearch DEF Exact
<1>7. ThreadTidy(t)
  BY <1>4 DEF ThreadTidy
<1> QED BY <1>1, <1>6, <1>7, ELocal

LEMMA MissExact ==
  ASSUME Alone, IInv, IInv', EInv, NEW w \in Worker, CacheMiss(w)
  PROVE  EInv'
<1> DEFINE u == th[w]
           t == [u EXCEPT !.pc = "find"]
<1>1. u.pc = "lookup" /\ Local(w, t)
  BY DEF CacheMiss, At, Goto
<1>2. ThreadOK(u, asked) /\ ThreadExact(u, docs, heap)
  BY DEF IInv, EInv
<1>3. Differ(t, u, {"pc"}) /\ t.pc = "find"
  BY <1>2 DEF ThreadOK, Differ, Idle
<1> HIDE DEF t
<1>4. ThreadExact(t, docs, heap)
  <2> SUFFICES ASSUME t.op = "match", ~t.stale PROVE Exact(t, docs, heap)
    BY DEF ThreadExact
  <2>1. Exact(u, docs, heap)
    BY <1>2, <1>3 DEF ThreadExact, Differ, Idle
  <2>2. Differ(t, u, {"cur", "pc", "stale"}) /\ Held(t) = Held(u) /\ Label(t) = Label(u)
    BY <1>1, <1>3 DEF Differ, Idle, Held, Label, InLookup
  <2> QED BY <2>1, <2>2, <1>3, SameSearch DEF Exact, Unvisited
<1>5. ThreadTidy(t)
  BY <1>3 DEF ThreadTidy
<1> QED BY <1>1, <1>4, <1>5, ELocal

LEMMA FindOneExact ==
  ASSUME Alone, IInv, IInv', EInv, NEW w \in Worker, FindOne(w)
  PROVE  EInv'
<1> DEFINE u == th[w]
           k == u.key
           r == NewRef(k.path)
           t == [u EXCEPT !.cur = r, !.pc = "fill"]
           h == [q \in DOMAIN heap \cup {r} |-> IF q = r THEN docs[k.path] ELSE heap[q]]
<1>1. /\ u.pc = "find" /\ Stored(k) /\ FreeSlots(k.path) # {} /\ docs' = docs
      /\ th' = [th EXCEPT ![w] = t]
      /\ heap' = [q \in DOMAIN h \cap Live' |-> h[q]]
  BY DEF FindOne, At, Allocate, Collect
<1>2. /\ ThreadOK(u, asked) /\ Held(u) \subseteq DOMAIN heap \cup {Nil}
      /\ ThreadExact(u, docs, heap)
  BY DEF IInv, EInv
<1>3. Differ(t, u, {"cur", "pc"}) /\ t.cur = r /\ t.pc = "fill"
  BY <1>2 DEF ThreadOK, Differ, Idle
<1>4. r \notin DOMAIN heap /\ r.path = k.path
  BY <1>1 DEF NewRef, FreeSlots
<1>5. /\ DOMAIN h = DOMAIN heap \cup {r} /\ h[r] = docs[k.path]
      /\ \A q \in DOMAIN heap : q \in DOMAIN h /\ h[q] = heap[q]
  BY <1>4
<1>6. DOMAIN heap' \subseteq DOMAIN h /\ \A q \in DOMAIN heap' : heap'[q] = h[q]
  BY <1>1
<1> HIDE DEF t, h, r
<1>7. InSync(r, docs, h)
  BY <1>1, <1>4, <1>5 DEF InSync, Stored
<1>8. DocsTidy(docs') /\ MemoryTidy(h)
  BY <1>1, <1>4, <1>5 DEF EInv, DocsTidy, MemoryTidy, Stored
<1>9. ThreadExact(t, docs', h)
  <2> SUFFICES ASSUME t.op = "match", ~t.stale PROVE Exact(t, docs, h)
    BY <1>1 DEF ThreadExact
  <2>1. Exact(u, docs, heap)
    BY <1>2, <1>3 DEF ThreadExact, Differ, Idle
  <2>2. Differ(t, u, {"cur", "pc", "stale"}) /\ Label(t) = Label(u)
    BY <1>1, <1>3 DEF Differ, Idle, Label, InLookup
  <2>3. \A x \in Held(t) \ {Nil} : x = r \/ (x \in DOMAIN heap /\ InSync(x, docs, heap))
    BY <2>1, <1>2, <1>3 DEF Exact, Held, Differ, Idle
  <2>4. \A x \in Held(t) \ {Nil} : InSync(x, docs, h)
    BY <2>3, <1>5, <1>7 DEF InSync
  <2> QED BY <2>1, <2>2, <2>4, <1>3, SameSearch DEF Exact, Unvisited
<1>10. ThreadTidy(t)
  BY <1>3 DEF ThreadTidy
<1> QED BY <1>1, <1>6, <1>8, <1>9, <1>10, EStep

\* No call fails, so a root node that is not found is not there.
LEMMA FindNothingExact ==
  ASSUME Alone, IInv, IInv', SInv, EInv, NEW w \in Worker, FindNothing(w)
  PROVE  EInv'
<1> DEFINE u == th[w]
           l == IF u.op = "insert" THEN "create" ELSE u.ret
           t == [u EXCEPT !.pc = l]
<1>1. /\ u.pc = "find" /\ ~Stored(u.key) /\ docs' = docs
      /\ th' = [th EXCEPT ![w] = t]
      /\ heap' = [q \in DOMAIN heap \cap Live' |-> heap[q]]
  BY DEF FindNothing, At, Collect, SInv, Unharmed, Alone
<1>2. ThreadOK(u, asked) /\ ThreadExact(u, docs, heap)
  BY DEF IInv, EInv
<1>3. Differ(t, u, {"pc"}) /\ t.pc = l
  BY <1>2 DEF ThreadOK, Differ, Idle
<1>4. DOMAIN heap' \subseteq DOMAIN heap /\ \A q \in DOMAIN heap' : heap'[q] = heap[q]
  BY <1>1
<1> HIDE DEF t
<1>5. t.pc \notin {"store", "replace"}
  BY <1>1, <1>2, <1>3 DEF ThreadOK, InsertOK, DeleteOK, MatchOK, InLookup, InSave
<1>6. ThreadExact(t, docs, heap)
  <2> SUFFICES ASSUME t.op = "match", ~t.stale PROVE Exact(t, docs, heap)
    BY DEF ThreadExact
  <2>1. Exact(u, docs, heap) /\ MatchOK(u, asked) /\ t.pc = u.ret
    BY <1>2, <1>3 DEF ThreadExact, Differ, Idle, ThreadOK
  <2>2. Differ(t, u, {"cur", "pc", "stale"}) /\ Held(t) = Held(u)
    BY <1>3 DEF Differ, Idle, Held
  <2>3. u.ret \in {"root", "rootPlus", "child", "plusChild"} /\ Label(u) = u.ret
        /\ Label(t) = Label(u)
    BY <2>1, <1>1 DEF MatchOK, Label, InLookup
  <2>4. t.pc \in Unvisited => t.key.path \notin DOMAIN docs
    <3> SUFFICES ASSUME t.pc \in Unvisited PROVE u.key.path \notin DOMAIN docs
      BY <1>3 DEF Differ, Idle
    <3>1. u.key.by = "path"
      BY <2>1, <2>3 DEF Exact, Search, Unvisited, PathKey
    <3> QED BY <3>1, <1>1 DEF Stored
  <2> QED BY <2>1, <2>2, <2>3, <2>4, SameSearch DEF Exact
<1>7. ThreadTidy(t)
  BY <1>5 DEF ThreadTidy
<1>8. DocsTidy(docs') /\ MemoryTidy(heap)
  BY <1>1 DEF EInv
<1> QED BY <1>1, <1>4, <1>6, <1>7, <1>8, EStep

LEMMA FillExact ==
  ASSUME Alone, IInv, IInv', EInv, NEW w \in Worker, Fill(w)
  PROVE  EInv'
<1> DEFINE u == th[w]
           t == [u EXCEPT !.pc = u.ret]
<1>1. /\ u.pc = "fill" /\ docs' = docs
      /\ th' = [th EXCEPT ![w] = t]
      /\ heap' = [q \in DOMAIN heap \cap Live' |-> heap[q]]
  BY DEF Fill, At, Collect
<1>2. ThreadOK(u, asked) /\ ThreadExact(u, docs, heap)
  BY DEF IInv, EInv
<1>3. Differ(t, u, {"pc"}) /\ t.pc = u.ret
  BY <1>2 DEF ThreadOK, Differ, Idle
<1>4. DOMAIN heap' \subseteq DOMAIN heap /\ \A q \in DOMAIN heap' : heap'[q] = heap[q]
  BY <1>1
<1> HIDE DEF t
<1>5. t.pc \notin {"store", "replace"} \cup InLookup
  BY <1>1, <1>2, <1>3 DEF ThreadOK, InsertOK, DeleteOK, MatchOK, InLookup, InSave
<1>6. ThreadExact(t, docs, heap)
  <2> SUFFICES ASSUME t.op = "match", ~t.stale PROVE Exact(t, docs, heap)
    BY DEF ThreadExact
  <2>1. Exact(u, docs, heap)
    BY <1>2, <1>3 DEF ThreadExact, Differ, Idle
  <2>2. Differ(t, u, {"cur", "pc", "stale"}) /\ Held(t) = Held(u) /\ t.cur # Nil
    BY <1>1, <1>2, <1>3 DEF Differ, Idle, Held, ThreadOK
  <2>3. Label(t) = Label(u)
    BY <1>1, <1>3, <1>5 DEF Label, InLookup
  <2> QED BY <2>1, <2>2, <2>3, SameSearch DEF Exact
<1>7. ThreadTidy(t)
  BY <1>5 DEF ThreadTidy
<1>8. DocsTidy(docs') /\ MemoryTidy(heap)
  BY <1>1 DEF EInv
<1> QED BY <1>1, <1>4, <1>6, <1>7, <1>8, EStep
-----------------------------------------------------------------------------
(***************************************************************************)
(* Steps outside a match: what they leave in the slices of terminals.      *)
(***************************************************************************)
LEMMA TidyFacts ==
  ASSUME NEW p, NEW bag, Tidy(p, bag), NEW s
  PROVE  /\ Tidy(p, Except(bag, s))
         /\ ~Holds(bag, s) /\ (Len(p) = 1 \/ Last(p) # "#") => Tidy(p, With(bag, s))
<1>1. Tidy(p, Except(bag, s))
  BY DEF Tidy, Except
<1>2. ASSUME ~Holds(bag, s), Len(p) = 1 \/ Last(p) # "#" PROVE Tidy(p, With(bag, s))
  <2> DEFINE c == SetToBag({s})
             d == With(bag, s)
  <2>1. DOMAIN c = {s} /\ c[s] = 1
    BY DEF SetToBag
  <2>2. d = [t \in DOMAIN bag \cup DOMAIN c |-> (IF t \in DOMAIN bag THEN bag[t] ELSE 0)
                                              + (IF t \in DOMAIN c THEN c[t] ELSE 0)]
    BY DEF With, (+)
  <2>3. s \notin DOMAIN bag
    BY <1>2 DEF Holds, Equal
  <2> HIDE DEF c, d
  <2>4. \A t \in DOMAIN d : d[t] = 1
    BY <2>1, <2>2, <2>3 DEF Tidy
  <2>5. Tidy(p, d)
    BY <2>4, <1>2 DEF Tidy
  <2> QED BY <2>5 DEF d
<1> QED BY <1>1, <1>2

LEMMA PutTerminals ==
  ASSUME NEW p, NEW node, NEW upd, NEW A, NodeOK(p, node, A), UpdOK(p, upd, A)
  PROVE  Put(node, upd).terminals = IF upd.field = "terminals" THEN upd.subs
                                                               ELSE node.terminals
<1>1. CASE upd.field = "terminals"
  <2>1. Put(node, upd) = [node EXCEPT !.terminals = upd.subs]
    BY <1>1 DEF Put
  <2> QED BY <2>1, <1>1 DEF NodeOK
<1>2. CASE upd.field = "hash"
  <2>1. Put(node, upd) = [node EXCEPT !.hash = upd.subs]
    BY <1>2 DEF Put
  <2> QED BY <2>1, <1>2 DEF NodeOK
<1>3. CASE upd.field = "plus"
  <2>1. Put(node, upd) = [node EXCEPT !.plus = upd.id]
    BY <1>3 DEF Put
  <2> QED BY <2>1, <1>3 DEF NodeOK
<1>4. CASE upd.field = "child"
  <2> DEFINE c == [l \in DOMAIN node.children \cup {upd.level} |->
                      IF l = upd.level THEN upd.id ELSE node.children[l]]
  <2>1. Put(node, upd) = [node EXCEPT !.children = c]
    BY <1>4 DEF Put
  <2> HIDE DEF c
  <2> QED BY <2>1, <1>4 DEF NodeOK
<1> QED BY <1>1, <1>2, <1>3, <1>4 DEF UpdOK

LEMMA CreateExact ==
  ASSUME Alone, IInv, IInv', EInv, NEW w \in Worker, Create(w)
  PROVE  EInv'
<1> DEFINE u == th[w]
           p == u.key.path
           n == IF p \in DOMAIN minted THEN minted[p] + 1 ELSE 1
           r == NewRef(p)
           t == [u EXCEPT !.cur = r, !.tgt = r, !.buf = NewNode(n), !.pc = "replace"]
           h == [q \in DOMAIN heap \cup {r} |-> IF q = r THEN NewNode(n) ELSE heap[q]]
<1>1. /\ u.pc = "create" /\ docs' = docs
      /\ th' = [th EXCEPT ![w] = t]
      /\ heap' = [q \in DOMAIN h \cap Live' |-> h[q]]
  BY DEF Create, At, Allocate, Collect
<1>2. ThreadOK(u, asked)
  BY DEF IInv
<1>3. /\ Differ(t, u, {"cur", "tgt", "buf", "pc"})
      /\ t.tgt = r /\ t.buf = NewNode(n) /\ t.pc = "replace"
  BY <1>2 DEF ThreadOK, Differ, Idle
<1>4. /\ DOMAIN h = DOMAIN heap \cup {r} /\ h[r] = NewNode(n)
      /\ \A q \in DOMAIN heap \ {r} : h[q] = heap[q]
  OBVIOUS
<1>5. DOMAIN heap' \subseteq DOMAIN h /\ \A q \in DOMAIN heap' : heap'[q] = h[q]
  BY <1>1
<1>6. \A q : Tidy(q, NewNode(n).terminals)
  BY BagFacts DEF Tidy, NewNode
<1> HIDE DEF t, h, r, n
<1>7. MemoryTidy(h) /\ DocsTidy(docs')
  BY <1>1, <1>4, <1>6 DEF EInv, MemoryTidy
<1>8. ThreadTidy(t)
  BY <1>3, <1>6 DEF ThreadTidy
<1>9. ThreadExact(t, docs', h)
  BY <1>1, <1>2, <1>3 DEF ThreadExact, ThreadOK, MatchOK, InLookup, Differ, Idle
<1> QED BY <1>1, <1>5, <1>7, <1>8, <1>9, EStep

LEMMA StoreExact ==
  ASSUME Alone, IInv, IInv', EInv, NEW w \in Worker, Store(w)
  PROVE  EInv'
<1> DEFINE u == th[w]
           r == u.tgt
           node == Put(heap[r], u.upd)
           t == [u EXCEPT !.pc = "replace", !.buf = node, !.upd = NoUpdate]
           h == [heap EXCEPT ![r] = node]
<1>1. /\ u.pc = "store" /\ docs' = docs
      /\ th' = [th EXCEPT ![w] = t]
      /\ heap' = [q \in DOMAIN h \cap Live' |-> h[q]]
  BY DEF Store, At, Collect
<1>2. /\ ThreadOK(u, asked) /\ Held(u) \subseteq DOMAIN heap \cup {Nil} /\ ThreadTidy(u)
  BY DEF IInv, EInv
<1>3. Differ(t, u, {"pc", "buf", "upd"}) /\ t.pc = "replace" /\ t.buf = node
  BY <1>2 DEF ThreadOK, Differ, Idle
<1>4. r \in DOMAIN heap /\ UpdOK(r.path, u.upd, asked) /\ NodeOK(r.path, heap[r], asked)
  BY <1>1, <1>2 DEF ThreadOK, Held, InSave, IInv, MemoryOK
<1>5. Tidy(r.path, node.terminals)
  BY <1>1, <1>2, <1>4, PutTerminals DEF ThreadTidy, EInv, MemoryTidy
<1>6. DOMAIN heap' \subseteq DOMAIN h /\ \A q \in DOMAIN heap' : heap'[q] = h[q]
  BY <1>1
<1> HIDE DEF node
<1>7. DOMAIN h = DOMAIN heap /\ h[r] = node /\ \A q \in DOMAIN heap \ {r} : h[q] = heap[q]
  BY <1>4
<1> HIDE DEF t, h
<1>8. MemoryTidy(h) /\ DocsTidy(docs')
  BY <1>1, <1>5, <1>7 DEF EInv, MemoryTidy
<1>9. ThreadTidy(t)
  BY <1>3, <1>5 DEF ThreadTidy, Differ, Idle
<1>10. ThreadExact(t, docs', h)
  BY <1>1, <1>2, <1>3 DEF ThreadExact, ThreadOK, MatchOK, InLookup, Differ, Idle
<1> QED BY <1>1, <1>6, <1>8, <1>9, <1>10, EStep

LEMMA ReplaceExact ==
  ASSUME Alone, IInv, IInv', SInv, EInv, NEW w \in Worker, ReplaceOne(w)
  PROVE  EInv'
<1> DEFINE u == th[w]
           p == u.tgt.path
           t == [u EXCEPT !.pc = u.ret, !.tgt = Nil, !.buf = NewNode(0)]
<1>1. /\ u.pc = "replace" /\ docs' = Written(p, u.buf)
      /\ th' = [th EXCEPT ![w] = t]
      /\ heap' = [q \in DOMAIN heap \cap Live' |-> heap[q]]
  BY DEF ReplaceOne, Saved, At, Collect
<1>2. ThreadOK(u, asked) /\ ThreadTidy(u)
  BY DEF IInv, EInv
<1>3. Differ(t, u, {"pc", "tgt", "buf"}) /\ t.pc = u.ret
  BY <1>2 DEF ThreadOK, Differ, Idle
<1>4. DOMAIN heap' \subseteq DOMAIN heap /\ \A q \in DOMAIN heap' : heap'[q] = heap[q]
  BY <1>1
<1> HIDE DEF t
<1>5. /\ DOMAIN docs' = DOMAIN docs \cup {p} /\ docs'[p] = u.buf
      /\ \A q \in DOMAIN docs \ {p} : docs'[q] = docs[q]
  BY <1>1, WrittenKeeps
<1>6. DocsTidy(docs') /\ MemoryTidy(heap)
  BY <1>1, <1>2, <1>5 DEF EInv, DocsTidy, ThreadTidy
<1>7. u.op # "match" /\ u.ret \notin {"store", "replace"}
  BY <1>1, <1>2 DEF ThreadOK, InsertOK, DeleteOK, MatchOK, InLookup, InSave
<1>8. ThreadTidy(t) /\ ThreadExact(t, docs', heap)
  BY <1>3, <1>7 DEF ThreadTidy, ThreadExact, Differ, Idle
<1> QED BY <1>1, <1>4, <1>6, <1>8, EStep

LEMMA GotoExact ==
  ASSUME Alone, IInv, IInv', EInv, NEW w \in Worker, NEW l, Goto(w, l),
         th[w].op # "match", l \notin {"store", "replace"}
  PROVE  EInv'
<1> DEFINE u == th[w]
           t == [u EXCEPT !.pc = l]
<1>1. Local(w, t) /\ DOMAIN u = DOMAIN Idle
  BY DEF Goto, IInv, ThreadOK
<1>2. t.op = u.op /\ t.pc = l
  BY <1>1 DEF Idle
<1> HIDE DEF t
<1>3. ThreadTidy(t) /\ ThreadExact(t, docs, heap)
  BY <1>2 DEF ThreadTidy, ThreadExact
<1> QED BY <1>1, <1>3, ELocal

LEMMA AssignExact ==
  ASSUME Alone, IInv, IInv', EInv, NEW w \in Worker, NEW r, NEW upd, NEW l,
         Assign(w, r, upd, l), th[w].op # "match",
         upd.field = "terminals" => Tidy(r.path, upd.subs)
  PROVE  EInv'
<1> DEFINE u == th[w]
           t == [u EXCEPT !.tgt = r, !.upd = upd, !.pc = "store", !.ret = l]
<1>1. Local(w, t) /\ DOMAIN u = DOMAIN Idle
  BY DEF Assign, IInv, ThreadOK
<1>2. t.op = u.op /\ t.pc = "store" /\ t.upd = upd /\ t.tgt = r
  BY <1>1 DEF Idle
<1> HIDE DEF t
<1>3. ThreadTidy(t) /\ ThreadExact(t, docs, heap)
  BY <1>2 DEF ThreadTidy, ThreadExact
<1> QED BY <1>1, <1>3, ELocal

LEMMA InsertExact ==
  ASSUME Alone, IInv, IInv', SInv, EInv, NEW w \in Worker, Insert(w)
  PROVE  EInv'
<1> DEFINE u == th[w]
           f == u.sub.topic
<1>1. u.pc \in {"level", "leaf", "next"}
  BY DEF Insert, LinkLevel, AddTerminal, NextLevel, At
<1>2. /\ u.op = "insert" /\ DOMAIN u = DOMAIN Idle
      /\ f \in Path /\ f # <<>> /\ u.lvl \in 1..Len(f)
      /\ u.cur.path = Prefix(f, u.lvl) /\ u.cur \in DOMAIN heap
      /\ InsertSerial(u, docs, heap)
  BY <1>1, InsertKnows
<1>3. CASE LinkLevel(w)
  <2>1. PICK l, upd, r : /\ l \notin {"store", "replace"} /\ upd.field # "terminals"
                         /\ Goto(w, l) \/ Assign(w, r, upd, l)
    <3> DEFINE id == [path |-> u.cur.path, n |-> heap[u.cur].n]
    <3>1. CASE Goto(w, "leaf") \/ Goto(w, "rejected")
      <4>1. NoUpdate.field # "terminals"
        BY DEF NoUpdate
      <4> QED BY <4>1, <3>1
    <3>2. CASE Assign(w, u.par, [field |-> "plus", id |-> id], "leaf")
      BY <3>2
    <3>3. CASE Assign(w, u.par, [field |-> "hash",
                                 subs |-> With(heap[u.par].hash, u.sub)], "done")
      BY <3>3
    <3>4. CASE Assign(w, u.par, [field |-> "child", level |-> f[u.lvl], id |-> id], "leaf")
      BY <3>4
    <3> QED BY <3>1, <3>2, <3>3, <3>4, <1>3 DEF LinkLevel, Topic
  <2>2. CASE Goto(w, l)
    BY <2>1, <2>2, <1>2, GotoExact
  <2>3. CASE Assign(w, r, upd, l)
    BY <2>1, <2>3, <1>2, AssignExact
  <2> QED BY <2>1, <2>2, <2>3
<1>4. CASE AddTerminal(w)
  <2> DEFINE bag == heap[u.cur].terminals
             upd == [field |-> "terminals", subs |-> With(bag, u.sub)]
  <2>1. CASE Goto(w, "next")
    BY <2>1, <1>2, GotoExact
  <2>2. CASE u.lvl = Len(f) /\ ~Holds(bag, u.sub) /\ Assign(w, u.cur, upd, "next")
    <3>1. u.pc = "leaf"
      BY <1>4 DEF AddTerminal, At
    <3>2. u.lvl > 1 => f[u.lvl] # "#"
      BY <3>1, <2>2, <1>2 DEF InsertSerial, LinkedUp
    <3>3. u.cur.path = f
      BY <2>2, <1>2, LengthFacts
    <3>4. Len(f) = 1 \/ Last(f) # "#"
      <4>1. u.lvl = Len(f)
        BY <2>2
      <4>2. Len(f) \in Nat /\ Len(f) \in 1..Len(f)
        BY <1>2, <4>1 DEF Path
      <4>3. \A m \in Nat : m \in 1..m => m = 1 \/ m > 1
        OBVIOUS
      <4>4. Len(f) = 1 \/ Len(f) > 1
        BY <4>2, <4>3
      <4> QED BY <3>2, <4>1, <4>4 DEF Last
    <3>5. Tidy(u.cur.path, bag)
      BY <1>2 DEF EInv, MemoryTidy
    <3>6. Tidy(u.cur.path, With(bag, u.sub))
      BY <3>3, <3>4, <3>5, <2>2, TidyFacts
    <3> QED BY <3>6, <2>2, <1>2, AssignExact
  <2> QED BY <2>1, <2>2, <1>4 DEF AddTerminal, Topic
<1>5. CASE NextLevel(w)
  <2> DEFINE i == u.lvl + 1
             k == PathKey(Prefix(f, i))
             v == [u EXCEPT !.par = u.cur, !.lvl = i]
             t == [v EXCEPT !.key = k, !.cur = Nil, !.pc = "lookup", !.ret = "level"]
  <2>1. CASE Goto(w, "done")
    BY <2>1, <1>2, GotoExact
  <2>2. CASE Local(w, t)
    <3>1. t.op = "insert" /\ t.pc = "lookup"
      BY <1>2 DEF Idle
    <3> HIDE DEF t
    <3>2. ThreadTidy(t) /\ ThreadExact(t, docs, heap)
      BY <3>1 DEF ThreadTidy, ThreadExact
    <3> QED BY <3>2, <2>2, ELocal
  <2> QED BY <2>1, <2>2, <1>5 DEF NextLevel, Topic, Get
<1> QED BY <1>3, <1>4, <1>5 DEF Insert

LEMMA RemoveExact ==
  ASSUME Alone, IInv, IInv', EInv, NEW w \in Worker, RemoveTerminal(w)
  PROVE  EInv'
<1> DEFINE u == th[w]
           node == heap[u.cur]
<1>1. u.op # "match" /\ Held(u) \subseteq DOMAIN heap \cup {Nil}
  <2>1. ThreadOK(u, asked) /\ Held(u) \subseteq DOMAIN heap \cup {Nil} /\ u.pc = "remove"
    BY DEF IInv, RemoveTerminal, At
  <2> QED BY <2>1 DEF ThreadOK, MatchOK, InLookup
<1>2. CASE Goto(w, "rejected")
  BY <1>1, <1>2, GotoExact
<1>3. CASE Assign(w, u.cur, [field |-> "hash", subs |-> Except(node.hash, u.sub)], "done")
  BY <1>1, <1>3, AssignExact
<1>4. CASE u.cur # Nil /\ Assign(w, u.cur, [field |-> "terminals",
                                subs |-> Except(node.terminals, u.sub)], "done")
  <2>1. Tidy(u.cur.path, node.terminals)
    BY <1>1, <1>4 DEF Held, EInv, MemoryTidy
  <2>2. Tidy(u.cur.path, Except(node.terminals, u.sub))
    BY <2>1, TidyFacts
  <2> QED BY <2>2, <1>1, <1>4, AssignExact
<1> QED BY <1>2, <1>3, <1>4 DEF RemoveTerminal
-----------------------------------------------------------------------------
(***************************************************************************)
(* The steps of a match.                                                   *)
(***************************************************************************)
LEMMA MatchKeeps ==
  ASSUME Alone, IInv, IInv', EInv, NEW w \in Worker, NEW t, Local(w, t),
         th[w].op = "match", th[w].stale = t.stale,
         t.pc \notin InSave \cup Unvisited, Held(t) \subseteq Held(th[w]) \cup {Nil},
         Exact(th[w], docs, heap) => Search(Label(t), t, docs)
  PROVE  EInv'
<1>1. ThreadExact(th[w], docs, heap)
  BY DEF EInv
<1>2. ThreadExact(t, docs, heap)
  BY <1>1 DEF ThreadExact, Exact
<1>3. ThreadTidy(t)
  BY DEF ThreadTidy, InSave
<1> QED BY <1>2, <1>3, ELocal

\* The node the loop is at.
LEMMA FrontExact ==
  ASSUME IInv, AllResolve, NEW w \in Worker,
         th[w].pc \in {"visit", "child", "plus", "plusChild"}, th[w].queue # <<>>,
         Exact(th[w], docs, heap)
  PROVE  LET u == th[w]
             t == u.sub.topic
             n == u.lvl
             r == u.queue[1]
             p == r.path
             F == Fit(n, t, docs) \ Paths(u.queue)
         IN  /\ r # Nil /\ heap[r] = docs[p] /\ NodeOK(p, heap[r], asked)
             /\ r \in DOMAIN heap
             /\ p \in Path /\ p \in Fit(n, t, docs) /\ p \notin F
             /\ n \in Nat \ {0} /\ n <= Len(t) /\ t \in Seq(Level) /\ LinksCurrent(docs)
             /\ u.queue \in Seq(Ref \cup {Nil}) /\ Once(Tail(u.queue))
             /\ Paths(Tail(u.queue)) \subseteq Fit(n, t, docs)
             /\ Fit(n, t, docs) \ Paths(Tail(u.queue)) = F \cup {p}
<1> DEFINE u == th[w]
           t == u.sub.topic
           n == u.lvl
           r == u.queue[1]
           p == r.path
           F == Fit(n, t, docs) \ Paths(u.queue)
<1>1. /\ u.op = "match" /\ MatchOK(u, asked) /\ u.queue \in Seq(Ref \cup {Nil})
      /\ t \in Seq(Level) /\ n \in 1..Len(t)
  BY MatchFacts
<1>2. r # Nil /\ r \in Elements(u.queue)
  <2>1. r \in Elements(u.queue)
    BY <1>1, ElementsFacts
  <2>2. MatchResolves(u, docs)
    BY <1>1 DEF AllResolve, ThreadResolves
  <2> QED BY <2>1, <2>2 DEF MatchResolves
<1>3. r \in DOMAIN heap /\ NodeOK(p, heap[r], asked) /\ p \in Path
  BY <1>2, FrontFacts DEF Front
<1>4. heap[r] = docs[p] /\ p \in DOMAIN docs
  <2>1. r \in Held(u) \ {Nil}
    BY <1>2 DEF Held
  <2> QED BY <2>1 DEF Exact, InSync
<1>5. Search(u.pc, u, docs)
  BY DEF Exact, Label, InLookup
<1>6. Once(u.queue) /\ Paths(u.queue) \subseteq Fit(n, t, docs)
  BY <1>5 DEF Search, Visiting
<1>7. /\ p \in Paths(u.queue) /\ Once(Tail(u.queue))
      /\ Paths(Tail(u.queue)) = Paths(u.queue) \ {p}
  BY <1>1, <1>6, QueueFacts
<1>8. n \in Nat \ {0} /\ n <= Len(t)
  BY <1>1
<1>9. LinksCurrent(docs)
  BY DocLinks
<1> HIDE DEF u, t, n, r, p
<1>10. p \in Fit(n, t, docs) /\ p \notin F
  BY <1>6, <1>7
<1>11. Fit(n, t, docs) \ Paths(Tail(u.queue)) = F \cup {p}
  BY <1>6, <1>7
<1>12. Paths(Tail(u.queue)) \subseteq Fit(n, t, docs)
  BY <1>6, <1>7
<1> HIDE DEF F
<1>13. /\ r # Nil /\ heap[r] = docs[p] /\ NodeOK(p, heap[r], asked)
       /\ r \in DOMAIN heap
       /\ p \in Path /\ p \in Fit(n, t, docs) /\ p \notin F
       /\ n \in Nat \ {0} /\ n <= Len(t) /\ t \in Seq(Level) /\ LinksCurrent(docs)
       /\ u.queue \in Seq(Ref \cup {Nil}) /\ Once(Tail(u.queue))
       /\ Paths(Tail(u.queue)) \subseteq Fit(n, t, docs)
       /\ Fit(n, t, docs) \ Paths(Tail(u.queue)) = F \cup {p}
  BY <1>1, <1>2, <1>3, <1>4, <1>7, <1>8, <1>9, <1>10, <1>11, <1>12
<1> QED BY <1>13 DEF u, t, n, r, p, F

\* Its children on the next level.
LEMMA ChildrenExact ==
  ASSUME NEW d, LinksCurrent(d), NEW t \in Seq(Level), NEW n \in Nat \ {0}, n < Len(t),
         NEW p \in Fit(n, t, d), NEW F, p \notin F
  PROVE  /\ Append(p, t[n + 1]) \notin Below(F, n + 1, t, d)
         /\ Append(p, "+") \notin Below(F, n + 1, t, d)
         /\ Append(p, t[n + 1]) # Append(p, "+")
<1>1. t[n + 1] \in Level
  <2>1. n + 1 \in 1..Len(t)
    OBVIOUS
  <2> QED BY <2>1, ElementOfSeq
<1>2. t[n + 1] \in Token /\ "+" \in Token /\ t[n + 1] # "+"
  BY <1>1, LevelAssumption DEF Token
<1>3. p \in Seq(Token)
  BY DEF Fit, LinksCurrent, Path
<1>4. /\ Parent(Append(p, t[n + 1])) = p /\ Last(Append(p, t[n + 1])) = t[n + 1]
      /\ Parent(Append(p, "+")) = p /\ Last(Append(p, "+")) = "+"
  BY <1>2, <1>3, ParentAppend
<1> QED BY <1>2, <1>4 DEF Below

LEMMA EmptyQueue == Elements(<<>>) = {} /\ Paths(<<>>) = {} /\ Once(<<>>)
  BY EmptySeq DEF Elements, Paths, Once

LEMMA QueuedFacts ==
  ASSUME NEW S, NEW r \in S
  PROVE  /\ Queued(r) \in Seq(S) /\ Once(Queued(r))
         /\ Paths(Queued(r)) = IF r = Nil THEN {} ELSE {r.path}
<1> DEFINE e == <<>>
           q == <<r>>
<1>1. e \in Seq(S) /\ q \in Seq(S)
  BY EmptySeq
<1>2. Paths(e) = {} /\ Once(e)
  BY <1>1, QueueFacts
<1>3. Paths(q) = {r.path}
  <2>1. Elements(q) = {r}
    BY <1>1, ConcatElements
  <2> HIDE DEF q
  <2> QED BY <2>1 DEF Paths
<1>4. Once(q)
  <2>1. Len(q) = 1 /\ \A i, j \in 1..1 : i = j
    OBVIOUS
  <2> HIDE DEF q
  <2> QED BY <2>1 DEF Once
<1> QED BY <1>1, <1>2, <1>3, <1>4 DEF Queued

LEMMA RootExact ==
  ASSUME Alone, IInv, IInv', AllResolve, EInv, NEW w \in Worker, Root(w)
  PROVE  EInv'
<1> DEFINE u == th[w]
           k == PathKey(<<"+">>)
           q == Queued(u.cur)
           v == [u EXCEPT !.queue = q]
           t == [v EXCEPT !.key = k, !.cur = Nil, !.pc = "lookup", !.ret = "rootPlus"]
<1>1. u.pc = "root" /\ Local(w, t)
  BY DEF Root, At, Get
<1>2. /\ ThreadOK(u, asked) /\ MatchOK(u, asked) /\ u.op = "match" /\ u.cur \in Ref \cup {Nil}
      /\ u.next \in Seq(Ref \cup {Nil}) /\ u.lvl \in 1..Len(u.sub.topic)
  BY <1>1, MatchFacts
<1>3. /\ Differ(t, u, {"queue", "key", "cur", "pc", "ret"})
      /\ t.queue = q /\ t.cur = Nil /\ t.pc = "lookup" /\ t.ret = "rootPlus" /\ t.key = k
  BY <1>2 DEF ThreadOK, Differ, Idle
<1>4. Elements(q) \subseteq {u.cur} \ {Nil}
  <2>1. CASE u.cur = Nil
    BY <2>1, EmptySeq, ElementsFacts DEF Queued
  <2>2. CASE u.cur # Nil
    <3>1. q = <<u.cur>> /\ <<>> \in Seq(Ref \cup {Nil})
      BY <2>2, EmptySeq DEF Queued
    <3>2. Elements(<<u.cur>>) = {u.cur}
      BY <3>1, <1>2, ConcatElements
    <3> QED BY <3>1, <3>2, <2>2
  <2> QED BY <2>1, <2>2
<1>5. Once(q) /\ Paths(q) = IF u.cur = Nil THEN {} ELSE {u.cur.path}
  BY <1>2, QueuedFacts
<1> HIDE DEF t, q
<1>6. Held(t) \subseteq Held(u) \cup {Nil}
  BY <1>3, <1>4 DEF Differ, Idle, Held
<1>7. ASSUME Exact(u, docs, heap) PROVE Search(Label(t), t, docs)
  <2>1. Search("root", u, docs)
    BY <1>1, <1>7 DEF Exact, Label, InLookup
  <2>2. /\ Once(u.next) /\ u.next = <<>> /\ DOMAIN u.got = {}
        /\ u.key = PathKey(Prefix(u.sub.topic, 1))
    BY <2>1 DEF Search, Unvisited
  <2>3. u.key.path = Prefix(u.sub.topic, 1)
    BY <2>2 DEF PathKey
  <2>4. u.cur = Nil => u.key.path \notin DOMAIN docs
    BY <1>1, <1>7 DEF Exact, Unvisited
  <2>5. u.cur # Nil => u.cur.path = u.key.path /\ u.cur.path \in DOMAIN docs
    BY <1>2, <1>7 DEF ThreadOK, Exact, Held, InSync
  <2>6. Paths(q) = {Prefix(u.sub.topic, 1)} \cap DOMAIN docs
    BY <1>5, <2>3, <2>4, <2>5
  <2>7. /\ t.sub = u.sub /\ t.next = u.next /\ t.got = u.got /\ Label(t) = "rootPlus"
    BY <1>3 DEF Differ, Idle, Label, InLookup
  <2> QED BY <1>3, <1>5, <2>2, <2>6, <2>7 DEF Search, Visiting
<1>8. u.stale = t.stale /\ t.pc \notin InSave \cup Unvisited
  BY <1>3 DEF Differ, Idle, InSave, Unvisited
<1> QED BY <1>1, <1>2, <1>6, <1>7, <1>8, MatchKeeps

LEMMA RootPlusExact ==
  ASSUME Alone, IInv, IInv', AllResolve, EInv, NEW w \in Worker, RootPlus(w)
  PROVE  EInv'
<1> DEFINE u == th[w]
           x == u.sub.topic
           q == Queued(u.cur) \o u.queue
           t == [u EXCEPT !.queue = q, !.cur = Nil, !.pc = "visit"]
<1>1. u.pc = "rootPlus" /\ Local(w, t)
  BY DEF RootPlus, At
<1>2. /\ ThreadOK(u, asked) /\ MatchOK(u, asked) /\ u.op = "match" /\ u.cur \in Ref \cup {Nil}
      /\ u.queue \in Seq(Ref \cup {Nil}) /\ x \in Seq(Level) /\ x # <<>>
  BY <1>1, MatchFacts
<1>3. u.lvl = 1
  BY <1>1, <1>2 DEF MatchOK, Label, InLookup
<1>4. Differ(t, u, {"queue", "cur", "pc"}) /\ t.queue = q /\ t.cur = Nil /\ t.pc = "visit"
  BY <1>2 DEF ThreadOK, Differ, Idle
<1>6. /\ Elements(q) \subseteq ({u.cur} \ {Nil}) \cup Elements(u.queue)
      /\ Paths(q) = Paths(u.queue) \cup (IF u.cur = Nil THEN {} ELSE {u.cur.path})
      /\ Once(u.queue) /\ (u.cur # Nil => u.cur.path \notin Paths(u.queue)) => Once(q)
  <2>1. CASE u.cur = Nil
    <3>1. q = u.queue
      BY <2>1, <1>2 DEF Queued
    <3> QED BY <2>1, <3>1
  <2>2. CASE u.cur # Nil
    <3>1. q = <<u.cur>> \o u.queue
      BY <2>2 DEF Queued
    <3> HIDE DEF q
    <3> QED BY <2>2, <3>1, <1>2, ConcatElements, QueuePrepend
  <2> QED BY <2>1, <2>2
<1> HIDE DEF t, q
<1>7. Held(t) \subseteq Held(u) \cup {Nil}
  BY <1>4, <1>6 DEF Differ, Idle, Held
<1>8. ASSUME Exact(u, docs, heap) PROVE Search(Label(t), t, docs)
  <2>1. Search("rootPlus", u, docs)
    BY <1>1, <1>8 DEF Exact, Label, InLookup
  <2>2. /\ Once(u.queue) /\ Once(u.next) /\ u.next = <<>> /\ DOMAIN u.got = {}
        /\ u.key = PathKey(<<"+">>)
        /\ Paths(u.queue) = {Prefix(x, 1)} \cap DOMAIN docs
    BY <2>1 DEF Search, Unvisited
  <2>3. u.key.path = <<"+">>
    BY <2>2 DEF PathKey
  <2>4. u.cur = Nil => <<"+">> \notin DOMAIN docs
    BY <1>1, <1>8, <2>3 DEF Exact, Unvisited
  <2>5. u.cur # Nil => u.cur.path = <<"+">> /\ <<"+">> \in DOMAIN docs
    BY <1>2, <1>8, <2>3 DEF ThreadOK, Exact, Held, InSync
  <2>6. LinksCurrent(docs)
    BY DocLinks
  <2>7. Fit(1, x, docs) = {Prefix(x, 1), <<"+">>} \cap DOMAIN docs
    BY <2>6, <1>2, FitRoot
  <2>8. Paths(q) = Fit(1, x, docs)
    BY <1>6, <2>2, <2>4, <2>5, <2>7
  <2>9. Prefix(x, 1) # <<"+">>
    <3> DEFINE i == 1
    <3>1. i \in 1..Len(x) /\ i \in 1..i
      BY <1>2, EmptySeq
    <3> HIDE DEF i
    <3>2. Prefix(x, i)[i] = x[i] /\ x[i] \in Level
      BY <3>1, <1>2, PrefixFacts, ElementOfSeq
    <3>3. Prefix(x, 1)[1] \in Level
      BY <3>2 DEF i
    <3>4. <<"+">>[1] = "+"
      OBVIOUS
    <3> QED BY <3>3, <3>4, LevelAssumption
  <2>10. Once(q)
    BY <1>6, <2>2, <2>5, <2>9
  <2>11. Fit(1, x, docs) \ Paths(q) = {}
    BY <2>8
  <2>12. Collected(1, {}, x, docs) = {}
    BY CollectedStart
  <2>13. Below({}, 1 + 1, x, docs) = {} /\ Paths(<<>>) = {}
    BY QueueFacts, EmptySeq DEF Below, Fit, Paths, Elements
  <2>14. /\ t.sub = u.sub /\ t.next = u.next /\ t.got = u.got /\ Label(t) = "visit"
         /\ t.lvl = 1
    BY <1>3, <1>4 DEF Differ, Idle, Label, InLookup
  <2> HIDE DEF x
  <2> QED BY <1>4, <2>2, <2>8, <2>10, <2>11, <2>12, <2>13, <2>14
          DEF Search, Visiting, Unvisited, x
<1>9. u.stale = t.stale /\ t.pc \notin InSave \cup Unvisited
  BY <1>4 DEF Differ, Idle, InSave, Unvisited
<1> QED BY <1>1, <1>2, <1>7, <1>8, <1>9, MatchKeeps

\* A bag that gains the entries of another, where no entry is in both.
LEMMA CountFacts ==
  ASSUME NEW b, NEW c, NEW s \in DOMAIN (b (+) c)
  PROVE  /\ s \notin DOMAIN c /\ b[s] = 1 => (b (+) c)[s] = 1
         /\ s \notin DOMAIN b /\ c[s] = 1 => (b (+) c)[s] = 1
<1> DEFINE e == b (+) c
<1>1. e = [x \in DOMAIN b \cup DOMAIN c |-> (IF x \in DOMAIN b THEN b[x] ELSE 0)
                                          + (IF x \in DOMAIN c THEN c[x] ELSE 0)]
  BY DEF (+)
<1>2. s \in DOMAIN e
  OBVIOUS
<1> HIDE DEF e
<1>3. e[s] = (IF s \in DOMAIN b THEN b[s] ELSE 0) + (IF s \in DOMAIN c THEN c[s] ELSE 0)
  BY <1>1, <1>2
<1>4. s \in DOMAIN b \/ s \in DOMAIN c
  BY <1>1, <1>2
<1>5. /\ s \notin DOMAIN c /\ b[s] = 1 => e[s] = 1
      /\ s \notin DOMAIN b /\ c[s] = 1 => e[s] = 1
  BY <1>3, <1>4
<1> QED BY <1>5 DEF e

LEMMA VisitExact ==
  ASSUME Alone, IInv, IInv', AllResolve, EInv, NEW w \in Worker, VisitNode(w)
  PROVE  EInv'
<1> DEFINE u == th[w]
           x == u.sub.topic
           n == u.lvl
           r == u.queue[1]
           p == r.path
           F == Fit(n, x, docs) \ Paths(u.queue)
           l == x[n + 1]
           k == IdKey(heap[r].children[l])
           g == u.got (+) heap[r].hash
           v == [u EXCEPT !.got = g]
           t1 == [v EXCEPT !.key = k, !.cur = Nil, !.pc = "lookup", !.ret = "child"]
           t2 == [v EXCEPT !.pc = "plus"]
<1>1. u.pc = "visit" /\ u.queue # <<>> /\ n < Len(x)
  BY DEF VisitNode, At, Deeper, Topic
<1>2. ThreadOK(u, asked) /\ u.op = "match"
  BY <1>1, MatchFacts
<1>3. ASSUME Exact(u, docs, heap)
      PROVE  /\ Once(u.queue) /\ Once(u.next)
             /\ Paths(u.queue) \subseteq Fit(n, x, docs)
             /\ Paths(u.next) = Below(F, n + 1, x, docs)
             /\ DOMAIN g = Collected(n, F \cup {p}, x, docs)
             /\ \A s \in DOMAIN g : Last(s.topic) # "#" => g[s] = 1
             /\ Append(p, l) \in Fit(n + 1, x, docs) <=> l \in DOMAIN heap[r].children
             /\ l \in DOMAIN heap[r].children => k.path = Append(p, l)
  <2>1. Search("visit", u, docs)
    BY <1>1, <1>3 DEF Exact, Label, InLookup
  <2>2. /\ Once(u.queue) /\ Once(u.next)
        /\ Paths(u.queue) \subseteq Fit(n, x, docs)
        /\ Paths(u.next) = Below(F, n + 1, x, docs)
        /\ DOMAIN u.got = Collected(n, F, x, docs)
        /\ \A s \in DOMAIN u.got : Last(s.topic) # "#" => u.got[s] = 1
    BY <2>1 DEF Search
  <2>3. /\ heap[r] = docs[p] /\ NodeOK(p, heap[r], asked) /\ p \in Path
        /\ p \in Fit(n, x, docs) /\ n \in Nat \ {0} /\ x \in Seq(Level)
        /\ LinksCurrent(docs)
    BY <1>1, <1>3, FrontExact
  <2>4. Append(p, l) \in Fit(n + 1, x, docs) <=> l \in DOMAIN heap[r].children
    BY <1>1, <2>3, FitChild
  <2>5. l \in DOMAIN heap[r].children => k.path = Append(p, l)
    <3> HIDE DEF r, p, l
    <3> QED BY <2>3 DEF NodeOK, IdKey
  <2>6. \A s \in DOMAIN heap[r].hash : Last(s.topic) = "#"
    <3> HIDE DEF r, p
    <3>1. Last(Append(p, "#")) = "#"
      BY <2>3, ParentAppend DEF Path, Token
    <3> QED BY <2>3, <3>1 DEF NodeOK, SubsOK
  <2>7. DOMAIN g = DOMAIN u.got \cup DOMAIN heap[r].hash
    <3> HIDE DEF u, r
    <3> QED BY DEF (+)
  <2>8. Collected(n, F \cup {p}, x, docs) = Collected(n, F, x, docs) \cup DOMAIN docs[p].hash
    <3> HIDE DEF n, F, p, x
    <3>1. n < Len(x)
      BY <1>1
    <3>2. Hashes(F \cup {p}, docs) = Hashes(F, docs) \cup DOMAIN docs[p].hash
      BY DEF Hashes
    <3> QED BY <3>1, <3>2 DEF Collected
  <2>9. \A s \in DOMAIN g : Last(s.topic) # "#" => g[s] = 1
    <3> SUFFICES ASSUME NEW s \in DOMAIN g, Last(s.topic) # "#" PROVE g[s] = 1
      OBVIOUS
    <3>1. s \notin DOMAIN heap[r].hash /\ u.got[s] = 1
      BY <2>2, <2>6, <2>7
    <3> QED BY <3>1, CountFacts
  <2> HIDE DEF u, x, n, r, p, F, l, k, g
  <2> QED BY <2>2, <2>3, <2>4, <2>5, <2>7, <2>8, <2>9
<1>4. CASE l \in DOMAIN heap[r].children /\ Local(w, t1)
  <2>1. /\ Differ(t1, u, {"got", "key", "cur", "pc", "ret"})
        /\ t1.got = g /\ t1.key = k /\ t1.cur = Nil /\ t1.pc = "lookup" /\ t1.ret = "child"
    BY <1>2 DEF ThreadOK, Differ, Idle
  <2> HIDE DEF t1, k, g
  <2>2. Held(t1) \subseteq Held(u) \cup {Nil}
    BY <2>1 DEF Differ, Idle, Held
  <2>3. /\ t1.sub = u.sub /\ t1.lvl = u.lvl /\ t1.queue = u.queue /\ t1.next = u.next
        /\ t1.stale = u.stale /\ Label(t1) = "child"
    BY <2>1 DEF Differ, Idle, Label, InLookup
  <2>4. ASSUME Exact(u, docs, heap) PROVE Search("child", t1, docs)
    BY <1>3, <1>4, <2>1, <2>3, <2>4 DEF Search, Unvisited, Visiting
  <2>5. t1.pc \notin InSave \cup Unvisited
    BY <2>1 DEF InSave, Unvisited
  <2> QED BY <2>2, <2>3, <2>4, <2>5, <1>2, <1>4, MatchKeeps
<1>5. CASE l \notin DOMAIN heap[r].children /\ Local(w, t2)
  <2>1. Differ(t2, u, {"got", "pc"}) /\ t2.got = g /\ t2.pc = "plus"
    BY <1>2 DEF ThreadOK, Differ, Idle
  <2> HIDE DEF t2, g
  <2>2. Held(t2) \subseteq Held(u) \cup {Nil}
    BY <2>1 DEF Differ, Idle, Held
  <2>3. /\ t2.sub = u.sub /\ t2.lvl = u.lvl /\ t2.queue = u.queue /\ t2.next = u.next
        /\ t2.stale = u.stale /\ Label(t2) = "plus"
    BY <2>1 DEF Differ, Idle, Label, InLookup
  <2>4. ASSUME Exact(u, docs, heap) PROVE Search("plus", t2, docs)
    <3>1. {Append(p, l)} \cap Fit(n + 1, x, docs) = {}
      BY <1>3, <1>5, <2>4
    <3> QED BY <1>3, <2>1, <2>3, <2>4, <3>1 DEF Search, Unvisited, Visiting
  <2>5. t2.pc \notin InSave \cup Unvisited
    BY <2>1 DEF InSave, Unvisited
  <2> QED BY <2>2, <2>3, <2>4, <2>5, <1>2, <1>5, MatchKeeps
<1> QED BY <1>4, <1>5 DEF VisitNode, Topic, Get, Front

LEMMA ExactChildExact ==
  ASSUME Alone, IInv, IInv', AllResolve, EInv, NEW w \in Worker, ExactChild(w)
  PROVE  EInv'
<1> DEFINE u == th[w]
           x == u.sub.topic
           n == u.lvl
           p == u.queue[1].path
           F == Fit(n, x, docs) \ Paths(u.queue)
           q == Append(u.next, u.cur)
           t == [u EXCEPT !.next = q, !.cur = Nil, !.pc = "plus"]
<1>1. u.pc = "child" /\ Local(w, t)
  BY DEF ExactChild, At
<1>2. /\ ThreadOK(u, asked) /\ MatchOK(u, asked) /\ u.op = "match"
      /\ u.next \in Seq(Ref \cup {Nil}) /\ u.cur \in Ref \cup {Nil}
  BY <1>1, MatchFacts
<1>3. /\ u.queue # <<>> /\ n < Len(x) /\ u.cur # Nil /\ u.cur.path = u.key.path
  <2>1. MatchResolves(u, docs)
    BY <1>2 DEF AllResolve, ThreadResolves
  <2> QED BY <2>1, <1>1, <1>2 DEF MatchOK, MatchResolves, ThreadOK, Label, InLookup
<1>4. Differ(t, u, {"next", "cur", "pc"}) /\ t.next = q /\ t.cur = Nil /\ t.pc = "plus"
  BY <1>2 DEF ThreadOK, Differ, Idle
<1>5. /\ Elements(q) = Elements(u.next) \cup {u.cur}
      /\ Paths(q) = Paths(u.next) \cup {u.cur.path}
      /\ Once(u.next) /\ u.cur.path \notin Paths(u.next) => Once(q)
  BY <1>2, QueueAppend
<1>6. ASSUME Exact(u, docs, heap)
      PROVE  /\ Once(u.queue) /\ Once(q)
             /\ \A s \in DOMAIN u.got : Last(s.topic) # "#" => u.got[s] = 1
             /\ Paths(u.queue) \subseteq Fit(n, x, docs)
             /\ DOMAIN u.got = Collected(n, F \cup {p}, x, docs)
             /\ Paths(q) = Below(F, n + 1, x, docs)
                           \cup ({Append(p, x[n + 1])} \cap Fit(n + 1, x, docs))
  <2>1. Search("child", u, docs)
    BY <1>1, <1>6 DEF Exact, Label, InLookup
  <2>2. /\ Once(u.queue) /\ Once(u.next)
        /\ \A s \in DOMAIN u.got : Last(s.topic) # "#" => u.got[s] = 1
        /\ Paths(u.queue) \subseteq Fit(n, x, docs)
        /\ DOMAIN u.got = Collected(n, F \cup {p}, x, docs)
        /\ Paths(u.next) = Below(F, n + 1, x, docs)
        /\ u.cur.path = Append(p, x[n + 1]) /\ u.cur.path \in Fit(n + 1, x, docs)
    BY <2>1, <1>3 DEF Search, Visiting
  <2>3. /\ p \in Fit(n, x, docs) /\ p \notin F /\ n \in Nat \ {0} /\ x \in Seq(Level)
        /\ LinksCurrent(docs)
    BY <1>1, <1>3, <1>6, FrontExact
  <2> HIDE DEF p, F, n, x, q
  <2>4. Append(p, x[n + 1]) \notin Below(F, n + 1, x, docs)
    BY <1>3, <2>3, ChildrenExact
  <2> QED BY <1>5, <2>2, <2>4
<1> HIDE DEF t, q
<1>7. Held(t) \subseteq Held(u) \cup {Nil}
  BY <1>4, <1>5 DEF Differ, Idle, Held
<1>8. /\ t.sub = u.sub /\ t.lvl = u.lvl /\ t.queue = u.queue /\ t.got = u.got
      /\ t.stale = u.stale /\ Label(t) = "plus"
  BY <1>4 DEF Differ, Idle, Label, InLookup
<1>9. ASSUME Exact(u, docs, heap) PROVE Search("plus", t, docs)
  BY <1>4, <1>6, <1>8, <1>9 DEF Search, Unvisited, Visiting
<1>10. t.pc \notin InSave \cup Unvisited
  BY <1>4 DEF InSave, Unvisited
<1> QED BY <1>1, <1>2, <1>7, <1>8, <1>9, <1>10, MatchKeeps

LEMMA VisitPlusExact ==
  ASSUME Alone, IInv, IInv', AllResolve, EInv, NEW w \in Worker, VisitPlus(w)
  PROVE  EInv'
<1> DEFINE u == th[w]
           x == u.sub.topic
           n == u.lvl
           r == u.queue[1]
           p == r.path
           F == Fit(n, x, docs) \ Paths(u.queue)
           k == IdKey(heap[r].plus)
           q == Tail(u.queue)
           t1 == [u EXCEPT !.key = k, !.cur = Nil, !.pc = "lookup", !.ret = "plusChild"]
           t2 == [u EXCEPT !.queue = q, !.pc = "visit"]
<1>1. u.pc = "plus"
  BY DEF VisitPlus, At
<1>2. /\ ThreadOK(u, asked) /\ MatchOK(u, asked) /\ u.op = "match"
      /\ u.queue \in Seq(Ref \cup {Nil})
  BY <1>1, MatchFacts
<1>3. u.queue # <<>> /\ n < Len(x)
  BY <1>1, <1>2 DEF MatchOK, Label, InLookup
<1>4. ASSUME Exact(u, docs, heap)
      PROVE  /\ Once(u.queue) /\ Once(u.next) /\ Once(q)
             /\ \A s \in DOMAIN u.got : Last(s.topic) # "#" => u.got[s] = 1
             /\ Paths(u.queue) \subseteq Fit(n, x, docs) /\ Paths(q) \subseteq Fit(n, x, docs)
             /\ DOMAIN u.got = Collected(n, F \cup {p}, x, docs)
             /\ Paths(u.next) = Below(F, n + 1, x, docs)
                                \cup ({Append(p, x[n + 1])} \cap Fit(n + 1, x, docs))
             /\ Fit(n, x, docs) \ Paths(q) = F \cup {p}
             /\ Append(p, "+") \in Fit(n + 1, x, docs) <=> heap[r].plus # NoID
             /\ heap[r].plus # NoID => k.path = Append(p, "+")
             /\ Below(F \cup {p}, n + 1, x, docs)
                = Below(F, n + 1, x, docs)
                  \cup ({Append(p, x[n + 1])} \cap Fit(n + 1, x, docs))
                  \cup ({Append(p, "+")} \cap Fit(n + 1, x, docs))
  <2>1. Search("plus", u, docs)
    BY <1>1, <1>4 DEF Exact, Label, InLookup
  <2>2. /\ Once(u.queue) /\ Once(u.next)
        /\ \A s \in DOMAIN u.got : Last(s.topic) # "#" => u.got[s] = 1
        /\ Paths(u.queue) \subseteq Fit(n, x, docs)
        /\ DOMAIN u.got = Collected(n, F \cup {p}, x, docs)
        /\ Paths(u.next) = Below(F, n + 1, x, docs)
                           \cup ({Append(p, x[n + 1])} \cap Fit(n + 1, x, docs))
    BY <2>1 DEF Search, Visiting
  <2>3. /\ p \in Fit(n, x, docs) /\ n \in Nat \ {0} /\ x \in Seq(Level)
        /\ LinksCurrent(docs) /\ heap[r] = docs[p] /\ NodeOK(p, heap[r], asked)
        /\ Once(q) /\ Paths(q) \subseteq Fit(n, x, docs)
        /\ Fit(n, x, docs) \ Paths(q) = F \cup {p}
    BY <1>1, <1>3, <1>4, FrontExact
  <2>4. heap[r].plus # NoID => k.path = Append(p, "+")
    <3> HIDE DEF r, p
    <3> QED BY <2>3 DEF NodeOK, IdKey
  <2> HIDE DEF r, p, F, n, x, q, k
  <2>5. Append(p, "+") \in Fit(n + 1, x, docs) <=> heap[r].plus # NoID
    BY <1>3, <2>3, FitChild
  <2>6. Below(F \cup {p}, n + 1, x, docs)
        = Below(F, n + 1, x, docs)
          \cup ({Append(p, x[n + 1])} \cap Fit(n + 1, x, docs))
          \cup ({Append(p, "+")} \cap Fit(n + 1, x, docs))
    BY <1>3, <2>3, BelowOne
  <2> QED BY <2>2, <2>3, <2>4, <2>5, <2>6
<1>5. CASE heap[r].plus # NoID /\ Local(w, t1)
  <2>1. /\ Differ(t1, u, {"key", "cur", "pc", "ret"})
        /\ t1.key = k /\ t1.cur = Nil /\ t1.pc = "lookup" /\ t1.ret = "plusChild"
    BY <1>2 DEF ThreadOK, Differ, Idle
  <2> HIDE DEF t1, k
  <2>2. Held(t1) \subseteq Held(u) \cup {Nil}
    BY <2>1 DEF Differ, Idle, Held
  <2>3. /\ t1.sub = u.sub /\ t1.lvl = u.lvl /\ t1.queue = u.queue /\ t1.next = u.next
        /\ t1.got = u.got /\ t1.stale = u.stale /\ Label(t1) = "plusChild"
    BY <2>1 DEF Differ, Idle, Label, InLookup
  <2>4. ASSUME Exact(u, docs, heap) PROVE Search("plusChild", t1, docs)
    BY <1>4, <1>5, <2>1, <2>3, <2>4 DEF Search, Unvisited, Visiting
  <2>5. t1.pc \notin InSave \cup Unvisited
    BY <2>1 DEF InSave, Unvisited
  <2> QED BY <2>2, <2>3, <2>4, <2>5, <1>2, <1>5, MatchKeeps
<1>6. CASE heap[r].plus = NoID /\ Local(w, t2)
  <2>1. Differ(t2, u, {"queue", "pc"}) /\ t2.queue = q /\ t2.pc = "visit"
    BY <1>2 DEF ThreadOK, Differ, Idle
  <2>2. Elements(q) \subseteq Elements(u.queue)
    BY <1>2, <1>3, ElementsFacts
  <2> HIDE DEF t2, q
  <2>3. Held(t2) \subseteq Held(u) \cup {Nil}
    BY <2>1, <2>2 DEF Differ, Idle, Held
  <2>4. /\ t2.sub = u.sub /\ t2.lvl = u.lvl /\ t2.next = u.next
        /\ t2.got = u.got /\ t2.stale = u.stale /\ Label(t2) = "visit"
    BY <2>1 DEF Differ, Idle, Label, InLookup
  <2>5. ASSUME Exact(u, docs, heap) PROVE Search("visit", t2, docs)
    <3>1. Paths(u.next) = Below(F \cup {p}, n + 1, x, docs)
      BY <1>4, <1>6, <2>5
    <3> QED BY <1>4, <2>1, <2>4, <2>5, <3>1 DEF Search, Unvisited, Visiting
  <2>6. t2.pc \notin InSave \cup Unvisited
    BY <2>1 DEF InSave, Unvisited
  <2> QED BY <2>3, <2>4, <2>5, <2>6, <1>2, <1>6, MatchKeeps
<1> QED BY <1>5, <1>6 DEF VisitPlus, Get, Front

LEMMA PlusChildExact ==
  ASSUME Alone, IInv, IInv', AllResolve, EInv, NEW w \in Worker, PlusChild(w)
  PROVE  EInv'
<1> DEFINE u == th[w]
           x == u.sub.topic
           n == u.lvl
           p == u.queue[1].path
           F == Fit(n, x, docs) \ Paths(u.queue)
           q == Tail(u.queue)
           m == Append(u.next, u.cur)
           t == [u EXCEPT !.next = m, !.cur = Nil, !.queue = q, !.pc = "visit"]
<1>1. u.pc = "plusChild" /\ Local(w, t)
  BY DEF PlusChild, At
<1>2. /\ ThreadOK(u, asked) /\ MatchOK(u, asked) /\ u.op = "match"
      /\ u.queue \in Seq(Ref \cup {Nil})
      /\ u.next \in Seq(Ref \cup {Nil}) /\ u.cur \in Ref \cup {Nil}
  BY <1>1, MatchFacts
<1>3. /\ u.queue # <<>> /\ n < Len(x) /\ u.cur # Nil /\ u.cur.path = u.key.path
  <2>1. MatchResolves(u, docs)
    BY <1>2 DEF AllResolve, ThreadResolves
  <2> QED BY <2>1, <1>1, <1>2 DEF MatchOK, MatchResolves, ThreadOK, Label, InLookup
<1>4. /\ Differ(t, u, {"next", "cur", "queue", "pc"})
      /\ t.next = m /\ t.cur = Nil /\ t.queue = q /\ t.pc = "visit"
  BY <1>2 DEF ThreadOK, Differ, Idle
<1>5. /\ Elements(m) = Elements(u.next) \cup {u.cur}
      /\ Paths(m) = Paths(u.next) \cup {u.cur.path}
      /\ Once(u.next) /\ u.cur.path \notin Paths(u.next) => Once(m)
  BY <1>2, QueueAppend
<1>6. Elements(q) \subseteq Elements(u.queue)
  BY <1>2, <1>3, ElementsFacts
<1>7. ASSUME Exact(u, docs, heap)
      PROVE  /\ Once(q) /\ Once(m)
             /\ \A s \in DOMAIN u.got : Last(s.topic) # "#" => u.got[s] = 1
             /\ Paths(q) \subseteq Fit(n, x, docs)
             /\ DOMAIN u.got = Collected(n, F \cup {p}, x, docs)
             /\ Fit(n, x, docs) \ Paths(q) = F \cup {p}
             /\ Paths(m) = Below(F \cup {p}, n + 1, x, docs)
  <2>1. Search("plusChild", u, docs)
    BY <1>1, <1>7 DEF Exact, Label, InLookup
  <2>2. /\ Once(u.next)
        /\ \A s \in DOMAIN u.got : Last(s.topic) # "#" => u.got[s] = 1
        /\ DOMAIN u.got = Collected(n, F \cup {p}, x, docs)
        /\ Paths(u.next) = Below(F, n + 1, x, docs)
                           \cup ({Append(p, x[n + 1])} \cap Fit(n + 1, x, docs))
        /\ u.cur.path = Append(p, "+") /\ u.cur.path \in Fit(n + 1, x, docs)
    BY <2>1, <1>3 DEF Search, Visiting
  <2>3. /\ p \in Fit(n, x, docs) /\ p \notin F /\ n \in Nat \ {0} /\ x \in Seq(Level)
        /\ LinksCurrent(docs) /\ Once(q) /\ Paths(q) \subseteq Fit(n, x, docs)
        /\ Fit(n, x, docs) \ Paths(q) = F \cup {p}
    BY <1>1, <1>3, <1>7, FrontExact
  <2> HIDE DEF p, F, n, x, q, m
  <2>4. /\ Append(p, "+") \notin Below(F, n + 1, x, docs)
        /\ Append(p, x[n + 1]) # Append(p, "+")
    BY <1>3, <2>3, ChildrenExact
  <2>5. Below(F \cup {p}, n + 1, x, docs)
        = Below(F, n + 1, x, docs)
          \cup ({Append(p, x[n + 1])} \cap Fit(n + 1, x, docs))
          \cup ({Append(p, "+")} \cap Fit(n + 1, x, docs))
    BY <1>3, <2>3, BelowOne
  <2>6. Paths(m) = Below(F \cup {p}, n + 1, x, docs)
    BY <1>5, <2>2, <2>5
  <2>7. Once(m)
    BY <1>5, <2>2, <2>4
  <2> QED BY <2>2, <2>3, <2>6, <2>7
<1> HIDE DEF t, q, m
<1>8. Held(t) \subseteq Held(u) \cup {Nil}
  BY <1>4, <1>5, <1>6 DEF Differ, Idle, Held
<1>9. /\ t.sub = u.sub /\ t.lvl = u.lvl /\ t.got = u.got
      /\ t.stale = u.stale /\ Label(t) = "visit"
  BY <1>4 DEF Differ, Idle, Label, InLookup
<1>10. ASSUME Exact(u, docs, heap) PROVE Search("visit", t, docs)
  BY <1>4, <1>7, <1>9, <1>10 DEF Search, Unvisited, Visiting
<1>11. t.pc \notin InSave \cup Unvisited
  BY <1>4 DEF InSave, Unvisited
<1> QED BY <1>1, <1>2, <1>8, <1>9, <1>10, <1>11, MatchKeeps

LEMMA DescendExact ==
  ASSUME Alone, IInv, IInv', AllResolve, EInv, NEW w \in Worker, Descend(w)
  PROVE  EInv'
<1> DEFINE u == th[w]
           x == u.sub.topic
           n == u.lvl
           l == IF u.next = <<>> THEN "done" ELSE "visit"
           t == [u EXCEPT !.queue = u.next, !.next = <<>>, !.lvl = n + 1, !.pc = l]
<1>1. u.pc = "visit" /\ u.queue = <<>> /\ n < Len(x) /\ Local(w, t)
  BY DEF Descend, At, Deeper, Topic
<1>2. /\ ThreadOK(u, asked) /\ u.op = "match"
      /\ x \in Seq(Level) /\ n \in 1..Len(x)
  BY <1>1, MatchFacts
<1>3. /\ Differ(t, u, {"queue", "next", "lvl", "pc"})
      /\ t.queue = u.next /\ t.next = <<>> /\ t.lvl = n + 1 /\ t.pc = l
  BY <1>2 DEF ThreadOK, Differ, Idle
<1>4. Elements(<<>>) = {} /\ Paths(<<>>) = {} /\ Once(<<>>)
  BY EmptyQueue
<1> HIDE DEF t
<1>5. Held(t) \subseteq Held(u) \cup {Nil}
  BY <1>3, <1>4 DEF Differ, Idle, Held
<1>6. /\ t.sub = u.sub /\ t.got = u.got /\ t.stale = u.stale /\ Label(t) = l
  BY <1>3 DEF Differ, Idle, Label, InLookup
<1>7. ASSUME Exact(u, docs, heap) PROVE Search(l, t, docs)
  <2>1. Search("visit", u, docs)
    BY <1>1, <1>7 DEF Exact, Label, InLookup
  <2>2. Fit(n, x, docs) \ Paths(u.queue) = Fit(n, x, docs)
    BY <1>1, <1>4
  <2>3. /\ Once(u.next)
        /\ \A s \in DOMAIN u.got : Last(s.topic) # "#" => u.got[s] = 1
        /\ DOMAIN u.got = Collected(n, Fit(n, x, docs), x, docs)
        /\ Paths(u.next) = Below(Fit(n, x, docs), n + 1, x, docs)
    BY <2>1, <2>2 DEF Search
  <2>4. n \in Nat \ {0} /\ n + 1 \in Nat \ {0} /\ n + 1 <= Len(x) /\ LinksCurrent(docs)
    BY <1>1, <1>2, DocLinks
  <2> HIDE DEF x, n
  <2>5. Paths(u.next) = Fit(n + 1, x, docs)
    BY <2>3, <2>4, <1>2, BelowAll
  <2>6. DOMAIN u.got = Collected(n + 1, {}, x, docs)
    BY <2>3, <2>4, <1>1, CollectedNext
  <2>7. Below({}, (n + 1) + 1, x, docs) = {}
    BY <2>4, <1>2, BelowAll
  <2>8. u.next = <<>> => DOMAIN u.got = Collected(Len(x), Fit(Len(x), x, docs), x, docs)
    <3> SUFFICES ASSUME u.next = <<>>
                 PROVE  DOMAIN u.got = Collected(Len(x), Fit(Len(x), x, docs), x, docs)
      OBVIOUS
    <3>1. Fit(n + 1, x, docs) = {}
      BY <2>5, <1>4
    <3> QED BY <3>1, <2>4, <2>6, <1>2, CollectedEnd
  <2>9. t.sub.topic = x
    BY <1>6 DEF x
  <2>10. Fit(n + 1, x, docs) \ Paths(t.queue) = {}
    BY <1>3, <2>5
  <2>11. CASE u.next = <<>>
    BY <2>11, <1>3, <1>4, <1>6, <2>3, <2>8, <2>9 DEF Search, Unvisited, Visiting
  <2>12. CASE u.next # <<>>
    BY <2>12, <1>3, <1>4, <1>6, <2>3, <2>5, <2>6, <2>7, <2>9, <2>10
       DEF Search, Unvisited, Visiting
  <2> QED BY <2>11, <2>12
<1>8. t.pc \notin InSave \cup Unvisited
  BY <1>3 DEF InSave, Unvisited
<1> QED BY <1>1, <1>2, <1>5, <1>6, <1>7, <1>8, MatchKeeps

LEMMA CollectExact ==
  ASSUME Alone, IInv, IInv', AllResolve, EInv, NEW w \in Worker, CollectTerminals(w)
  PROVE  EInv'
<1> DEFINE u == th[w]
           x == u.sub.topic
           n == u.lvl
           r == u.queue[1]
           p == r.path
           F == Fit(n, x, docs) \ Paths(u.queue)
           q == Tail(u.queue)
           g == u.got (+) heap[r].terminals
           t1 == [u EXCEPT !.pc = "done"]
           t2 == [u EXCEPT !.got = g, !.queue = q]
<1>1. u.pc = "visit" /\ ~(n < Len(x))
  BY DEF CollectTerminals, At, Deeper, Topic
<1>2. /\ ThreadOK(u, asked) /\ u.op = "match" /\ u.queue \in Seq(Ref \cup {Nil})
      /\ x \in Seq(Level) /\ n \in 1..Len(x)
  BY <1>1, MatchFacts
<1>3. n = Len(x)
  BY <1>1, <1>2
<1>4. ASSUME Exact(u, docs, heap)
      PROVE  /\ Once(u.queue) /\ Once(u.next)
             /\ \A s \in DOMAIN u.got : Last(s.topic) # "#" => u.got[s] = 1
             /\ DOMAIN u.got = Collected(n, F, x, docs)
             /\ Paths(u.next) = {} /\ Below(F \cup {p}, n + 1, x, docs) = {}
  <2>1. Search("visit", u, docs)
    BY <1>1, <1>4 DEF Exact, Label, InLookup
  <2>2. /\ Once(u.queue) /\ Once(u.next)
        /\ \A s \in DOMAIN u.got : Last(s.topic) # "#" => u.got[s] = 1
        /\ DOMAIN u.got = Collected(n, F, x, docs)
        /\ Paths(u.next) = Below(F, n + 1, x, docs)
    BY <2>1 DEF Search
  <2>3. ~(n + 1 <= Len(x))
    BY <1>2, <1>3
  <2> HIDE DEF F, n, x, p
  <2>4. Below(F, n + 1, x, docs) = {} /\ Below(F \cup {p}, n + 1, x, docs) = {}
    BY <2>3 DEF Below, Fit, Fits
  <2> QED BY <2>2, <2>4
<1>5. CASE u.queue = <<>> /\ Local(w, t1)
  <2>1. Differ(t1, u, {"pc"}) /\ t1.pc = "done"
    BY <1>2 DEF ThreadOK, Differ, Idle
  <2> HIDE DEF t1
  <2>2. Held(t1) \subseteq Held(u) \cup {Nil}
    BY <2>1 DEF Differ, Idle, Held
  <2>3. /\ t1.sub = u.sub /\ t1.lvl = u.lvl /\ t1.queue = u.queue /\ t1.next = u.next
        /\ t1.got = u.got /\ t1.stale = u.stale /\ Label(t1) = "done"
    BY <2>1 DEF Differ, Idle, Label, InLookup
  <2>4. ASSUME Exact(u, docs, heap) PROVE Search("done", t1, docs)
    <3>1. Paths(u.queue) = {}
      BY <1>5, QueueFacts, EmptySeq
    <3>2. DOMAIN u.got = Collected(Len(x), Fit(Len(x), x, docs), x, docs)
      BY <1>3, <1>4, <2>4, <3>1
    <3> QED BY <1>4, <2>3, <2>4, <3>2 DEF Search, Unvisited, Visiting
  <2>5. t1.pc \notin InSave \cup Unvisited
    BY <2>1 DEF InSave, Unvisited
  <2> QED BY <2>2, <2>3, <2>4, <2>5, <1>2, <1>5, MatchKeeps
<1>6. CASE u.queue # <<>> /\ Local(w, t2)
  <2>1. Differ(t2, u, {"got", "queue"}) /\ t2.got = g /\ t2.queue = q /\ t2.pc = "visit"
    BY <1>1, <1>2 DEF ThreadOK, Differ, Idle
  <2>2. Elements(q) \subseteq Elements(u.queue)
    BY <1>2, <1>6, ElementsFacts
  <2> HIDE DEF t2
  <2>3. Held(t2) \subseteq Held(u) \cup {Nil}
    BY <2>1, <2>2 DEF Differ, Idle, Held
  <2>4. /\ t2.sub = u.sub /\ t2.lvl = u.lvl /\ t2.next = u.next
        /\ t2.stale = u.stale /\ Label(t2) = "visit"
    BY <2>1 DEF Differ, Idle, Label, InLookup
  <2>5. ASSUME Exact(u, docs, heap) PROVE Search("visit", t2, docs)
    <3>1. /\ p \in Fit(n, x, docs) /\ p \notin F /\ heap[r] = docs[p]
          /\ NodeOK(p, heap[r], asked) /\ p \in Path /\ r \in DOMAIN heap
          /\ Once(q) /\ Paths(q) \subseteq Fit(n, x, docs)
          /\ Fit(n, x, docs) \ Paths(q) = F \cup {p}
      BY <1>1, <1>6, <2>5, FrontExact
    <3>2. DOMAIN g = DOMAIN u.got \cup DOMAIN heap[r].terminals
      <4> HIDE DEF u, r
      <4> QED BY DEF (+)
    <3>3. DOMAIN g = Collected(n, F \cup {p}, x, docs)
      <4>1. Collected(n, F \cup {p}, x, docs)
            = Collected(n, F, x, docs) \cup DOMAIN docs[p].terminals
        <5> HIDE DEF n, F, p, x
        <5>1. ~(n < Len(x))
          BY <1>1
        <5>2. Terms(F \cup {p}, docs) = Terms(F, docs) \cup DOMAIN docs[p].terminals
          BY DEF Terms
        <5> QED BY <5>1, <5>2 DEF Collected
      <4> QED BY <1>4, <2>5, <3>1, <3>2, <4>1
    <3>4. ASSUME NEW s \in DOMAIN heap[r].terminals, Last(s.topic) # "#"
          PROVE  s \notin DOMAIN u.got /\ heap[r].terminals[s] = 1
      <4>1. s.topic = p
        <5> HIDE DEF p, r
        <5> QED BY <3>1, <3>4 DEF NodeOK, SubsOK
      <4>2. ASSUME NEW y \in DOMAIN docs
            PROVE  s \notin DOMAIN docs[y].hash
                   /\ (s \in DOMAIN docs[y].terminals => s.topic = y)
        <5>1. y \in Path /\ NodeOK(y, docs[y], asked)
          BY DEF IInv, DocsOK
        <5>2. Last(Append(y, "#")) = "#"
          BY <5>1, ParentAppend DEF Path, Token
        <5> QED BY <5>1, <5>2, <3>4 DEF NodeOK, SubsOK
      <4>3. s \notin Hashes(Above(n, x, docs), docs) /\ s \notin Terms(F, docs)
        <5> HIDE DEF p
        <5>1. \A i : Fit(i, x, docs) \subseteq DOMAIN docs
          BY DEF Fit
        <5>2. s \notin Hashes(Above(n, x, docs), docs)
          BY <5>1, <4>2 DEF Hashes, Above
        <5>3. s \notin Terms(F, docs)
          BY <5>1, <4>1, <4>2, <3>1 DEF Terms
        <5> QED BY <5>2, <5>3
      <4>4. Collected(n, F, x, docs)
            = Hashes(Above(n, x, docs), docs) \cup Terms(F, docs)
        BY <1>1 DEF Collected
      <4>5. Tidy(p, heap[r].terminals)
        BY <3>1 DEF EInv, MemoryTidy
      <4> QED BY <4>3, <4>4, <4>5, <1>4, <2>5, <3>4 DEF Tidy
    <3>5. \A s \in DOMAIN g : Last(s.topic) # "#" => g[s] = 1
      <4> SUFFICES ASSUME NEW s \in DOMAIN g, Last(s.topic) # "#" PROVE g[s] = 1
        OBVIOUS
      <4>1. CASE s \in DOMAIN heap[r].terminals
        BY <4>1, <3>4, CountFacts
      <4>2. CASE s \notin DOMAIN heap[r].terminals
        <5>1. u.got[s] = 1
          BY <4>2, <3>2, <1>4, <2>5
        <5> QED BY <5>1, <4>2, CountFacts
      <4> QED BY <4>1, <4>2
    <3> HIDE DEF g, q
    <3> QED BY <1>4, <2>1, <2>4, <2>5, <3>1, <3>3, <3>5 DEF Search, Unvisited, Visiting
  <2>6. t2.pc \notin InSave \cup Unvisited
    BY <2>1 DEF InSave, Unvisited
  <2> QED BY <2>3, <2>4, <2>5, <2>6, <1>2, <1>6, MatchKeeps
<1> QED BY <1>5, <1>6 DEF CollectTerminals, Goto, Front
-----------------------------------------------------------------------------
LEMMA IdleExact ==
  ASSUME NEW d, NEW h
  PROVE  ThreadTidy(Idle) /\ ThreadExact(Idle, d, h)
  BY DEF ThreadTidy, ThreadExact, Idle

LEMMA RequestExact ==
  ASSUME Alone, IInv, IInv', EInv, NEW w \in Worker,
         Subscribe(w) \/ Unsubscribe(w) \/ Publish(w)
  PROVE  EInv'
<1>1. PICK op, s, p, ret : /\ Begin(w, op, s, p, ret)
                           /\ \/ op # "match"
                              \/ op = "match" /\ ret = "root" /\ p = Prefix(s.topic, 1)
  <2>1. CASE Subscribe(w)
    BY <2>1 DEF Subscribe
  <2>2. CASE Unsubscribe(w)
    BY <2>2 DEF Unsubscribe
  <2>3. CASE Publish(w)
    <3>1. PICK x \in Publishes : Begin(w, "match", [NoSub EXCEPT !.topic = x],
                                       Prefix(x, 1), "root")
      BY <2>3 DEF Publish
    <3>2. [NoSub EXCEPT !.topic = x].topic = x
      BY DEF NoSub
    <3> QED BY <3>1, <3>2
  <2> QED BY <2>1, <2>2, <2>3
<1> DEFINE t == [Idle EXCEPT !.pc = "lookup", !.op = op, !.sub = s, !.lvl = 1,
                             !.key = PathKey(p), !.ret = ret]
<1>2. th' = [th EXCEPT ![w] = t] /\ docs' = docs /\ heap' = heap
  BY <1>1 DEF Begin
<1>3. /\ t.pc = "lookup" /\ t.op = op /\ t.sub = s /\ t.key = PathKey(p) /\ t.ret = ret
      /\ t.queue = <<>> /\ t.next = <<>> /\ t.got = EmptyBag
      /\ t.cur = Nil /\ t.par = Nil /\ t.tgt = Nil
  BY DEF Idle
<1> HIDE DEF t
<1>4. DOMAIN EmptyBag = {}
  BY BagFacts
<1>5. ThreadExact(t, docs, heap)
  <2> SUFFICES ASSUME t.op = "match" PROVE Exact(t, docs, heap)
    BY DEF ThreadExact
  <2>1. ret = "root" /\ p = Prefix(s.topic, 1)
    BY <1>1, <1>3
  <2>2. Held(t) = {Nil}
    BY <1>3, EmptyQueue DEF Held
  <2>3. Label(t) = "root"
    BY <1>3, <2>1 DEF Label, InLookup
  <2>4. Search("root", t, docs)
    BY <1>3, <1>4, <2>1, EmptyQueue DEF Search, Unvisited, Visiting
  <2> QED BY <1>3, <2>2, <2>3, <2>4 DEF Exact, Unvisited
<1>6. ThreadTidy(t)
  BY <1>3 DEF ThreadTidy
<1>7. DocsTidy(docs') /\ MemoryTidy(heap)
  BY <1>2 DEF EInv
<1>8. DOMAIN heap' \subseteq DOMAIN heap /\ \A r \in DOMAIN heap' : heap'[r] = heap[r]
  BY <1>2
<1> QED BY <1>2, <1>5, <1>6, <1>7, <1>8, EStep

LEMMA ReturnExact ==
  ASSUME Alone, IInv, IInv', EInv, NEW w \in Worker, Return(w)
  PROVE  EInv'
<1>1. /\ th' = [th EXCEPT ![w] = Idle] /\ docs' = docs
      /\ heap' = [q \in DOMAIN heap \cap Live' |-> heap[q]]
  BY DEF Return, Collect
<1>2. DOMAIN heap' \subseteq DOMAIN heap /\ \A q \in DOMAIN heap' : heap'[q] = heap[q]
  BY <1>1
<1>3. DocsTidy(docs') /\ MemoryTidy(heap)
  BY <1>1 DEF EInv
<1> QED BY <1>1, <1>2, <1>3, IdleExact, EStep

LEMMA EvictExact ==
  ASSUME IInv, IInv', EInv, Evict
  PROVE  EInv'
<1>1. /\ th' = th /\ docs' = docs
      /\ heap' = [q \in DOMAIN heap \cap Live' |-> heap[q]]
  BY DEF Evict, Collect
<1>2. DOMAIN heap' \subseteq DOMAIN heap /\ \A q \in DOMAIN heap' : heap'[q] = heap[q]
  BY <1>1
<1>3. ASSUME NEW v \in Worker PROVE ThreadExact(th[v], docs, heap')
  <2>1. Held(th[v]) \subseteq DOMAIN heap' \cup {Nil}
    BY <1>1 DEF IInv
  <2> QED BY <2>1, <1>2, XCarry DEF EInv
<1>4. DocsTidy(docs') /\ MemoryTidy(heap')
  BY <1>1, <1>2 DEF EInv, MemoryTidy
<1> QED BY <1>1, <1>3, <1>4 DEF EInv

LEMMA RestartExact ==
  ASSUME EInv, Restart
  PROVE  EInv'
<1>1. th' = [w \in Worker |-> Idle] /\ heap' = <<>> /\ docs' = docs
  BY DEF Restart
<1>2. DOMAIN <<>> = {}
  OBVIOUS
<1>3. DocsTidy(docs') /\ MemoryTidy(heap')
  BY <1>1, <1>2 DEF EInv, MemoryTidy
<1> QED BY <1>1, <1>3, IdleExact DEF EInv

LEMMA EInvInit == Init => EInv
<1> SUFFICES ASSUME Init PROVE EInv
  OBVIOUS
<1>1. th = [w \in Worker |-> Idle] /\ heap = <<>> /\ docs = <<>>
  BY DEF Init
<1>2. DOMAIN <<>> = {}
  OBVIOUS
<1>3. DocsTidy(docs) /\ MemoryTidy(heap)
  BY <1>1, <1>2 DEF DocsTidy, MemoryTidy
<1> QED BY <1>1, <1>3, IdleExact DEF EInv

LEMMA EInvNext ==
  ASSUME Alone
  PROVE  IInv /\ IInv' /\ LInv /\ SInv /\ EInv /\ [Next]_vars => EInv'
<1> SUFFICES ASSUME IInv, IInv', LInv, SInv, EInv, [Next]_vars PROVE EInv'
  OBVIOUS
<1>1. AllResolve /\ Counted
  BY DEF LInv, SInv
<1>2. ASSUME NEW w \in Worker, Fetch(w) PROVE EInv'
  BY <1>1, <1>2, HitExact, MissExact, FindOneExact, FindNothingExact, FillExact,
     CreateExact DEF Fetch
<1>3. ASSUME NEW w \in Worker, Save(w) PROVE EInv'
  BY <1>1, <1>3, StoreExact, ReplaceExact, NoFailure DEF Save
<1>4. ASSUME NEW w \in Worker, Match(w) PROVE EInv'
  BY <1>1, <1>4, RootExact, RootPlusExact, VisitExact, ExactChildExact, VisitPlusExact,
     PlusChildExact, DescendExact, CollectExact, NoNilNode DEF Match
<1>5. ASSUME NEW w \in Worker, Run(w) PROVE EInv'
  BY <1>1, <1>2, <1>3, <1>4, <1>5, InsertExact, RemoveExact, ReturnExact DEF Run
<1>6. ASSUME NEW w \in Worker, Subscribe(w) \/ Unsubscribe(w) \/ Publish(w) PROVE EInv'
  BY <1>6, RequestExact
<1>7. CASE RaceFault \/ Kill
  BY <1>7 DEF RaceFault, Kill, EInv
<1>8. CASE Rest \/ UNCHANGED vars
  BY <1>8 DEF Rest, vars, EInv
<1> QED BY <1>1, <1>5, <1>6, <1>7, <1>8, EvictExact, RestartExact DEF Next, Worker

LEMMA EInvInvariant ==
  ASSUME Alone
  PROVE  Spec => [](IInv /\ LInv /\ SInv /\ EInv)
  BY IInvInvariant, LInvInit, LInvNext, SInvInit, SInvNext, EInvInit, EInvNext, PTL DEF Spec
-----------------------------------------------------------------------------
(***************************************************************************)
(* The nodes that a search must visit hold what a match must report.       *)
(***************************************************************************)
\* Reachable is the definition of Chain, read from the node.
LEMMA ReachableChain ==
  ASSUME NEW q \in Path, Reachable(q)
  PROVE  Chain(q, Len(q), docs)
<1>1. \A i \in 1..Len(q) : Prefix(q, i) \in DOMAIN docs
  BY DEF Reachable
<1>2. ASSUME NEW i \in 2..Len(q)
      PROVE  LinkedIn(docs[Prefix(q, i - 1)], q[i], IdOf(Prefix(q, i), docs))
  <2>1. i \in 1..Len(q)
    OBVIOUS
  <2>2. i \in 1..i /\ Len(Prefix(q, i)) = i /\ \A j \in 1..i : Prefix(q, i)[j] = q[j]
    BY <2>1, PrefixFacts DEF Path
  <2>3. Last(Prefix(q, i)) = q[i]
    BY <2>2 DEF Last
  <2>4. Linked(Prefix(q, i - 1), Prefix(q, i))
    BY DEF Reachable
  <2> QED BY <2>3, <2>4 DEF Linked, LinkedIn, IdOf
<1> QED BY <1>1, <1>2 DEF Chain

LEMMA HashReported ==
  ASSUME IInv, LinksCurrent(docs), NEW t \in Seq(Level), NEW n \in 1..(Len(t) - 1),
         NEW p \in Fit(n, t, docs), NEW s \in DOMAIN docs[p].hash
  PROVE  s \in StoredSubs /\ InTree(s) /\ s.topic # <<"#">> /\ Covers(s.topic, t)
<1>1. /\ p \in Path /\ p \in DOMAIN docs /\ Len(p) = n /\ Chain(p, n, docs)
      /\ Fits(p, t, n) /\ n \in Nat /\ n < Len(t) /\ n >= 1
  BY DEF Fit, Fits, LinksCurrent
<1>2. s.topic = Append(p, "#")
  BY <1>1 DEF IInv, DocsOK, NodeOK, SubsOK
<1> DEFINE f == s.topic
<1>3. /\ f \in Path /\ f # <<>> /\ Len(f) = n + 1 /\ Last(f) = "#" /\ Parent(f) = p
  BY <1>1, <1>2, ParentAppend DEF Path, Token
<1>4. Len(f) > 1 /\ Len(f) - 1 = n /\ n \in 1..Len(f)
  BY <1>1, <1>3
<1>5. Prefix(f, n) = p
  BY <1>3, <1>4, LengthFacts
<1>6. Covers(f, t)
  BY <1>1, <1>2, HashCovers
<1>7. Len(<<"#">>) = 1
  OBVIOUS
<1>8. s \in StoredSubs
  BY <1>1 DEF StoredSubs
<1> HIDE DEF f
<1>9. Chain(f, n, docs)
  BY <1>1, <1>3, <1>4, <1>5, ChainPrefix
<1>10. Holds(docs[p].hash, s)
  BY DEF Holds, Equal
<1>11. f \in Path \ {<<>>} /\ f = s.topic
  BY <1>3 DEF f
<1>12. Given(s, docs)
  BY <1>3, <1>4, <1>9, <1>10, <1>11 DEF Given
<1>13. InTree(s)
  BY <1>11, <1>12, GivenInTree
<1>14. f # <<"#">>
  BY <1>4, <1>7
<1>15. Covers(s.topic, t) /\ s.topic # <<"#">>
  BY <1>6, <1>14 DEF f
<1> QED BY <1>8, <1>13, <1>15

LEMMA TerminalReported ==
  ASSUME IInv, LinksCurrent(docs), NEW t \in Seq(Level), t # <<>>,
         NEW p \in Fit(Len(t), t, docs), NEW s \in DOMAIN docs[p].terminals
  PROVE  s \in StoredSubs /\ InTree(s) /\ s.topic # <<"#">> /\ Covers(s.topic, t)
<1>1. /\ p \in Path /\ p \in DOMAIN docs /\ Len(p) = Len(t) /\ Chain(p, Len(t), docs)
      /\ Fits(p, t, Len(t))
  BY DEF Fit, Fits, LinksCurrent
<1>2. s.topic = p
  BY <1>1 DEF IInv, DocsOK, NodeOK, SubsOK
<1>3. Covers(p, t)
  BY <1>1, TerminalCovers
<1>4. Len(t) \in 1..Len(t) /\ p # <<>>
  BY <1>1, EmptySeq
<1>5. Last(p) = "+" \/ Last(p) \in Level
  BY <1>1, <1>4, ElementOfSeq DEF Fits, LevelwiseMatch, Last
<1>6. Last(p) # "#"
  BY <1>5, LevelAssumption
<1>7. Last(<<"#">>) = "#"
  BY DEF Last
<1>8. Holds(docs[p].terminals, s)
  BY DEF Holds, Equal
<1>9. Given(s, docs)
  BY <1>1, <1>2, <1>6, <1>8 DEF Given
<1>10. InTree(s)
  BY <1>1, <1>2, <1>4, <1>9, GivenInTree
<1>11. s \in StoredSubs
  BY <1>1 DEF StoredSubs
<1> QED BY <1>2, <1>3, <1>6, <1>7, <1>10, <1>11

LEMMA HashSearched ==
  ASSUME IInv, NEW t \in Seq(Level), NEW q \in DOMAIN docs, NEW s \in DOMAIN docs[q].hash,
         InTree(s), s.topic # <<"#">>, Covers(s.topic, t)
  PROVE  Len(q) \in 1..(Len(t) - 1) /\ q \in Fit(Len(q), t, docs)
<1>1. q \in Path /\ s.topic = Append(q, "#")
  BY DEF IInv, DocsOK, NodeOK, SubsOK
<1> DEFINE f == s.topic
<1>2. /\ f # <<>> /\ Len(f) = Len(q) + 1 /\ Last(f) = "#" /\ Parent(f) = q
  BY <1>1, ParentAppend DEF Path, Token
<1>3. q # <<>>
  <2>1. Append(<<>>, "#") = <<"#">>
    OBVIOUS
  <2> QED BY <2>1, <1>1
<1>4. Len(q) \in Nat \ {0} /\ Len(t) \in Nat
  BY <1>1, <1>3, EmptySeq DEF Path
<1>5. Len(t) >= Len(f) /\ LevelwiseMatch(q, t)
  BY <1>2 DEF Covers
<1> HIDE DEF f
<1>6. Len(f) > 1 /\ f = s.topic
  BY <1>2, <1>4 DEF f
<1>7. Reachable(q)
  BY <1>2, <1>6 DEF InTree
<1>8. Chain(q, Len(q), docs)
  BY <1>1, <1>7, ReachableChain
<1>9. Len(q) \in 1..(Len(t) - 1) /\ Len(q) <= Len(t)
  BY <1>2, <1>4, <1>5
<1> QED BY <1>5, <1>8, <1>9 DEF Fit, Fits

LEMMA TerminalSearched ==
  ASSUME IInv, DocsTidy(docs), NEW t \in Seq(Level), t # <<>>, NEW q \in DOMAIN docs,
         NEW s \in DOMAIN docs[q].terminals,
         InTree(s), s.topic # <<"#">>, Covers(s.topic, t)
  PROVE  q \in Fit(Len(t), t, docs)
<1>1. q \in Path /\ s.topic = q
  BY DEF IInv, DocsOK, NodeOK, SubsOK
<1>2. Len(t) \in Nat \ {0} /\ Len(q) \in Nat
  BY <1>1, EmptySeq DEF Path
<1>3. q # <<>>
  BY <1>1, <1>2 DEF Covers
<1>4. Last(q) # "#"
  <2> SUFFICES ASSUME Last(q) = "#" PROVE FALSE
    OBVIOUS
  <2>1. Len(q) = 1
    BY DEF DocsTidy, Tidy
  <2>2. <<"#">> \in Path /\ Len(<<"#">>) = 1 /\ <<"#">>[1] = "#"
    BY DEF Path, Token
  <2>3. q[1] = "#"
    BY <2>1 DEF Last
  <2>4. q = <<"#">>
    BY <1>1, <2>1, <2>2, <2>3, SeqEqual DEF Path
  <2> QED BY <1>1, <2>4
<1>5. Len(t) = Len(q) /\ LevelwiseMatch(q, t)
  BY <1>1, <1>4 DEF Covers
<1>6. Reachable(q)
  BY <1>1, <1>4 DEF InTree
<1>7. Chain(q, Len(q), docs)
  BY <1>1, <1>6, ReachableChain
<1> QED BY <1>2, <1>5, <1>7 DEF Fit, Fits

(***************************************************************************)
(* With one goroutine, whatever clients, filters and topics there are and  *)
(* whatever the cache evicts, MatchTopic reports exactly the stored        *)
(* subscriptions that cover the topic, provided it met no outdated cache   *)
(* entry; of those that do not end in "#" each once.                       *)
(***************************************************************************)
THEOREM MatchExactHolds ==
  ASSUME Alone
  PROVE  Spec => []MatchExact
<1>1. ASSUME IInv, LInv, SInv, EInv, NEW w \in Worker, Answered(w), ~th[w].stale
      PROVE  /\ DOMAIN th[w].got = {s \in StoredSubs : /\ InTree(s) /\ s.topic # <<"#">>
                                                       /\ Covers(s.topic, Topic(w))}
             /\ \A s \in DOMAIN th[w].got : Last(s.topic) # "#" => th[w].got[s] = 1
  <2> DEFINE u == th[w]
             t == u.sub.topic
             n == Len(t)
             M == {s \in StoredSubs : /\ InTree(s) /\ s.topic # <<"#">> /\ Covers(s.topic, t)}
  <2>1. u.pc = "done" /\ u.op = "match"
    BY <1>1 DEF Answered, At
  <2>2. ThreadOK(u, asked)
    BY <1>1 DEF IInv
  <2>3. t \in Seq(Level) /\ t # <<>>
    <3>1. MatchOK(u, asked)
      BY <2>1, <2>2 DEF ThreadOK
    <3> QED BY <3>1, EmptySeq DEF MatchOK
  <2>4. LinksCurrent(docs)
    <3>1. AllResolve
      BY <1>1 DEF LInv, SInv
    <3> QED BY <1>1, <3>1, DocLinks
  <2>5. Search("done", u, docs)
    <3>1. Exact(u, docs, heap) /\ Label(u) = "done"
      BY <1>1, <2>1 DEF EInv, ThreadExact, Label, InLookup
    <3> QED BY <3>1 DEF Exact
  <2>6. /\ DOMAIN u.got = Collected(n, Fit(n, t, docs), t, docs)
        /\ \A s \in DOMAIN u.got : Last(s.topic) # "#" => u.got[s] = 1
    BY <2>5 DEF Search
  <2>7. Collected(n, Fit(n, t, docs), t, docs)
        = Hashes(Above(n, t, docs), docs) \cup Terms(Fit(n, t, docs), docs)
    <3>1. ~(n < n)
      BY <2>3
    <3> QED BY <3>1 DEF Collected
  <2> HIDE DEF t
  <2>8. ASSUME NEW s \in Hashes(Above(n, t, docs), docs) PROVE s \in M
    <3>1. PICK i \in 1..(n - 1) : \E p \in Fit(i, t, docs) : s \in DOMAIN docs[p].hash
      BY <2>8 DEF Hashes, Above
    <3> QED BY <1>1, <2>3, <2>4, <3>1, HashReported
  <2>9. ASSUME NEW s \in Terms(Fit(n, t, docs), docs) PROVE s \in M
    <3>1. PICK p \in Fit(n, t, docs) : s \in DOMAIN docs[p].terminals
      BY <2>9 DEF Terms
    <3> QED BY <1>1, <2>3, <2>4, <3>1, TerminalReported
  <2>10. ASSUME NEW s \in M
         PROVE  s \in Hashes(Above(n, t, docs), docs) \cup Terms(Fit(n, t, docs), docs)
    <3>1. PICK q \in DOMAIN docs : s \in DOMAIN docs[q].hash \cup DOMAIN docs[q].terminals
      BY DEF StoredSubs
    <3>2. CASE s \in DOMAIN docs[q].hash
      <4>1. Len(q) \in 1..(n - 1) /\ q \in Fit(Len(q), t, docs)
        BY <1>1, <2>3, <3>2, HashSearched
      <4> QED BY <3>2, <4>1 DEF Hashes, Above
    <3>3. CASE s \in DOMAIN docs[q].terminals
      <4>1. q \in Fit(n, t, docs)
        BY <1>1, <2>3, <3>3, TerminalSearched DEF EInv
      <4> QED BY <3>3, <4>1 DEF Terms
    <3> QED BY <3>1, <3>2, <3>3
  <2>11. DOMAIN u.got = M
    BY <2>6, <2>7, <2>8, <2>9, <2>10
  <2> QED BY <2>6, <2>11 DEF t, Topic
<1>2. IInv /\ LInv /\ SInv /\ EInv => MatchExact
  BY <1>1 DEF MatchExact
<1> QED BY <1>2, EInvInvariant, PTL
-----------------------------------------------------------------------------
(***************************************************************************)
(* The book.  That the tree implements SubscriptionBook rests on BInv: a   *)
(* node that holds a subscription is chained to the root, and so is the    *)
(* node that a save is about to give one to; a save adds one subscription, *)
(* takes those of one client and filter, or changes none.                  *)
(***************************************************************************)

(***************************************************************************)
(* The subscriptions a node holds, and what the save of an op for s that   *)
(* goes on at label l makes of them: the same ones, s besides, or none of  *)
(* the client and filter of s.                                             *)
(***************************************************************************)
Entries(node) == DOMAIN node.hash \cup DOMAIN node.terminals

Edits(op, s, l, old, new) ==
    \/ Entries(new) = Entries(old)
    \/ /\ op = "insert" /\ l \in {"next", "done"}
       /\ Entries(new) = Entries(old) \cup {s}
       /\ Book!Repeatable(s) \/ \A t \in Entries(old) : ~Equal(s, t)
    \/ op = "delete" /\ Entries(new) = {t \in Entries(old) : ~Equal(s, t)}

StoreBook(u, d) ==
    u.pc = "store" =>
       Edits(u.op, u.sub, u.ret, d[u.tgt.path], Put(d[u.tgt.path], u.upd))

ReplaceBook(u, d) ==
    u.pc = "replace" => IF u.ret = "level" THEN Entries(u.buf) = {}
                        ELSE Edits(u.op, u.sub, u.ret, d[u.tgt.path], u.buf)

ThreadBook(u, d) ==
    /\ u.op \in {"insert", "delete"} => u.sub \in Requests
    /\ u.op = "delete" => u.key.path = IF HasHash(u.sub.topic) THEN Parent(u.sub.topic)
                                                               ELSE u.sub.topic
    /\ StoreBook(u, d) /\ ReplaceBook(u, d)

\* Every node that holds a subscription is linked to the root.
Rooted(d) ==
    /\ <<>> \notin DOMAIN d
    /\ \A p \in DOMAIN d : Entries(d[p]) # {} => Chain(p, Len(p), d)

BInv == Rooted(docs) /\ \A w \in Worker : ThreadBook(th[w], docs)

\* A step that touches neither the collection nor what w was called for.
Calm(w) ==
    /\ docs' = docs /\ acked' = acked
    /\ th'[w].op = th[w].op /\ th'[w].sub = th[w].sub
    /\ th[w].op = "delete" => th'[w].key.path = th[w].key.path
-----------------------------------------------------------------------------
LEMMA CalmBook ==
  ASSUME Alone, IInv, BInv, NEW w \in Worker, Calm(w),
         StoreBook(th'[w], docs), ReplaceBook(th'[w], docs)
  PROVE  BInv' /\ Calm(w)
<1>1. ThreadBook(th'[w], docs)
  BY DEF BInv, ThreadBook, Calm
<1>2. \A v \in Worker : v = w
  BY DEF Alone
<1>3. Rooted(docs') /\ ThreadBook(th'[w], docs')
  BY <1>1 DEF BInv, Calm
<1> QED BY <1>2, <1>3 DEF BInv

\* A lookup, a match or a step to another label of the same call.
LEMMA FetchCalm ==
  ASSUME IInv, NEW w \in Worker, Fetch(w)
  PROVE  Calm(w) /\ StoreBook(th'[w], docs) /\ ReplaceBook(th'[w], docs)
<1> DEFINE u == th[w]
<1>1. ThreadOK(u, asked) /\ DOMAIN u = DOMAIN Idle
  BY DEF IInv, ThreadOK
<1>2. u.pc \in InLookup => u.ret \notin InSave
  BY <1>1 DEF ThreadOK, InsertOK, DeleteOK, MatchOK, InLookup, InSave
<1>3. ASSUME NEW t, DOMAIN t = DOMAIN Idle, th' = [th EXCEPT ![w] = t],
             t.op = u.op, t.sub = u.sub, t.key = u.key, docs' = docs, acked' = acked,
             t.pc \notin InSave \/ (t.pc = "replace" /\ t.ret = "level" /\ Entries(t.buf) = {})
      PROVE  Calm(w) /\ StoreBook(th'[w], docs) /\ ReplaceBook(th'[w], docs)
  <2>1. th'[w] = t
    BY <1>3 DEF IInv
  <2> QED BY <2>1, <1>3 DEF Calm, StoreBook, ReplaceBook, InSave
<1>4. CASE CacheHit(w)
  <2> DEFINE b == u.stale \/ u.key.path \notin DOMAIN docs
                  \/ heap[cache[u.key]] # docs[u.key.path]
             t == [u EXCEPT !.cur = cache[u.key], !.pc = u.ret, !.stale = b]
  <2>1. /\ u.pc = "lookup" /\ th' = [th EXCEPT ![w] = t] /\ docs' = docs /\ acked' = acked
    BY <1>4 DEF CacheHit, At, Local
  <2>2. /\ DOMAIN t = DOMAIN Idle /\ t.op = u.op /\ t.sub = u.sub /\ t.key = u.key
        /\ t.pc = u.ret
    BY <1>1 DEF Idle
  <2> HIDE DEF t
  <2> QED BY <2>1, <2>2, <1>2, <1>3 DEF InLookup, InSave
<1>5. CASE CacheMiss(w)
  <2> DEFINE t == [u EXCEPT !.pc = "find"]
  <2>1. th' = [th EXCEPT ![w] = t] /\ docs' = docs /\ acked' = acked
    BY <1>5 DEF CacheMiss, Goto, Local
  <2>2. /\ DOMAIN t = DOMAIN Idle /\ t.op = u.op /\ t.sub = u.sub /\ t.key = u.key
        /\ t.pc = "find"
    BY <1>1 DEF Idle
  <2> HIDE DEF t
  <2> QED BY <2>1, <2>2, <1>3 DEF InSave
<1>6. CASE FindOne(w)
  <2> DEFINE r == NewRef(u.key.path)
             t == [u EXCEPT !.cur = r, !.pc = "fill"]
  <2>1. th' = [th EXCEPT ![w] = t] /\ docs' = docs /\ acked' = acked
    BY <1>6 DEF FindOne
  <2> HIDE DEF r
  <2>2. /\ DOMAIN t = DOMAIN Idle /\ t.op = u.op /\ t.sub = u.sub /\ t.key = u.key
        /\ t.pc = "fill"
    BY <1>1 DEF Idle
  <2> HIDE DEF t
  <2> QED BY <2>1, <2>2, <1>3 DEF InSave
<1>7. CASE FindNothing(w)
  <2> DEFINE l == IF u.op = "insert" THEN "create" ELSE u.ret
             t == [u EXCEPT !.pc = l]
  <2>1. u.pc = "find" /\ th' = [th EXCEPT ![w] = t] /\ docs' = docs /\ acked' = acked
    BY <1>7 DEF FindNothing, At
  <2>2. l \notin InSave
    BY <2>1, <1>2 DEF InLookup, InSave
  <2> HIDE DEF l
  <2>3. /\ DOMAIN t = DOMAIN Idle /\ t.op = u.op /\ t.sub = u.sub /\ t.key = u.key
        /\ t.pc = l
    BY <1>1 DEF Idle
  <2> HIDE DEF t
  <2> QED BY <2>1, <2>2, <2>3, <1>3 DEF InSave
<1>8. CASE Fill(w)
  <2> DEFINE t == [u EXCEPT !.pc = u.ret]
  <2>1. u.pc = "fill" /\ th' = [th EXCEPT ![w] = t] /\ docs' = docs /\ acked' = acked
    BY <1>8 DEF Fill, At
  <2>2. /\ DOMAIN t = DOMAIN Idle /\ t.op = u.op /\ t.sub = u.sub /\ t.key = u.key
        /\ t.pc = u.ret
    BY <1>1 DEF Idle
  <2> HIDE DEF t
  <2> QED BY <2>1, <2>2, <1>2, <1>3 DEF InLookup, InSave
<1>9. CASE Create(w)
  <2> DEFINE p == u.key.path
             n == IF p \in DOMAIN minted THEN minted[p] + 1 ELSE 1
             r == NewRef(p)
             t == [u EXCEPT !.cur = r, !.tgt = r, !.buf = NewNode(n), !.pc = "replace"]
  <2>1. u.pc = "create" /\ th' = [th EXCEPT ![w] = t] /\ docs' = docs /\ acked' = acked
    BY <1>9 DEF Create, At
  <2>2. u.ret = "level"
    BY <2>1, <1>1 DEF ThreadOK, InsertOK, DeleteOK, MatchOK, InLookup, InSave
  <2> HIDE DEF r, n
  <2>3. /\ DOMAIN t = DOMAIN Idle /\ t.op = u.op /\ t.sub = u.sub /\ t.key = u.key
        /\ t.pc = "replace" /\ t.ret = u.ret /\ t.buf = NewNode(n)
    BY <1>1 DEF Idle
  <2>4. Entries(NewNode(n)) = {}
    BY BagFacts DEF Entries, NewNode
  <2> HIDE DEF t
  <2> QED BY <2>1, <2>2, <2>3, <2>4, <1>3
<1> QED BY <1>4, <1>5, <1>6, <1>7, <1>8, <1>9 DEF Fetch

LEMMA FetchBook ==
  ASSUME Alone, IInv, BInv, NEW w \in Worker, Fetch(w)
  PROVE  BInv' /\ Calm(w)
  BY FetchCalm, CalmBook

LEMMA MatchCalm ==
  ASSUME IInv, NEW w \in Worker, Match(w), ~NilNode(w)
  PROVE  Calm(w) /\ th[w].op = "match"
<1> DEFINE u == th[w]
           l == Topic(w)[u.lvl + 1]
           n == heap[Front(w)]
           v == [u EXCEPT !.got = @ (+) n.hash]
<1>1. u.pc \in {"root", "rootPlus", "visit", "child", "plus", "plusChild"}
  BY DEF Match, Root, RootPlus, VisitNode, ExactChild, VisitPlus, PlusChild, Descend,
         CollectTerminals, NilNode, At
<1>2. u.op = "match" /\ DOMAIN u = DOMAIN Idle
  BY <1>1, MatchFacts DEF ThreadOK
<1>3. ASSUME NEW t, t.op = u.op, t.sub = u.sub, Local(w, t)
      PROVE  Calm(w) /\ u.op = "match"
  <2>1. th'[w] = t /\ docs' = docs /\ acked' = acked
    BY <1>3 DEF IInv, Local
  <2> QED BY <2>1, <1>2, <1>3 DEF Calm
<1>4. ASSUME NEW x, NEW k, NEW ret, DOMAIN x = DOMAIN Idle, x.op = u.op, x.sub = u.sub,
             Get(w, x, k, ret)
      PROVE  Calm(w) /\ u.op = "match"
  <2> DEFINE t == [x EXCEPT !.key = k, !.cur = Nil, !.pc = "lookup", !.ret = ret]
  <2>1. Local(w, t)
    BY <1>4 DEF Get
  <2>2. t.op = u.op /\ t.sub = u.sub
    BY <1>4 DEF Idle
  <2> HIDE DEF t
  <2> QED BY <2>1, <2>2, <1>3
<1>5. CASE Root(w)
  <2> DEFINE x == [u EXCEPT !.queue = Queued(u.cur)]
  <2>1. /\ DOMAIN x = DOMAIN Idle /\ x.op = u.op /\ x.sub = u.sub
        /\ Get(w, x, PathKey(<<"+">>), "rootPlus")
    BY <1>2, <1>5 DEF Root, Idle
  <2> HIDE DEF x
  <2> QED BY <2>1, <1>4
<1>6. CASE RootPlus(w)
  <2> DEFINE t == [u EXCEPT !.queue = Queued(u.cur) \o @, !.cur = Nil, !.pc = "visit"]
  <2>1. Local(w, t) /\ t.op = u.op /\ t.sub = u.sub
    BY <1>2, <1>6 DEF RootPlus, Idle
  <2> HIDE DEF t
  <2> QED BY <2>1, <1>3
<1>7. CASE VisitNode(w)
  <2>1. DOMAIN v = DOMAIN Idle /\ v.op = u.op /\ v.sub = u.sub
    BY <1>2 DEF Idle
  <2>2. CASE Get(w, v, IdKey(n.children[l]), "child")
    BY <2>1, <2>2, <1>4
  <2>3. CASE Local(w, [v EXCEPT !.pc = "plus"])
    <3> DEFINE t == [v EXCEPT !.pc = "plus"]
    <3>1. Local(w, t) /\ t.op = u.op /\ t.sub = u.sub
      BY <2>1, <2>3 DEF Idle
    <3> HIDE DEF t
    <3> QED BY <3>1, <1>3
  <2> QED BY <2>2, <2>3, <1>7 DEF VisitNode
<1>8. CASE ExactChild(w)
  <2> DEFINE t == [u EXCEPT !.next = Append(@, u.cur), !.cur = Nil, !.pc = "plus"]
  <2>1. Local(w, t) /\ t.op = u.op /\ t.sub = u.sub
    BY <1>2, <1>8 DEF ExactChild, Idle
  <2> HIDE DEF t
  <2> QED BY <2>1, <1>3
<1>9. CASE VisitPlus(w)
  <2>1. CASE Get(w, u, IdKey(n.plus), "plusChild")
    BY <2>1, <1>2, <1>4
  <2>2. CASE Local(w, [u EXCEPT !.queue = Tail(@), !.pc = "visit"])
    <3> DEFINE t == [u EXCEPT !.queue = Tail(@), !.pc = "visit"]
    <3>1. Local(w, t) /\ t.op = u.op /\ t.sub = u.sub
      BY <1>2, <2>2 DEF Idle
    <3> HIDE DEF t
    <3> QED BY <3>1, <1>3
  <2> QED BY <2>1, <2>2, <1>9 DEF VisitPlus
<1>10. CASE PlusChild(w)
  <2> DEFINE t == [u EXCEPT !.next = Append(@, u.cur), !.cur = Nil, !.queue = Tail(@),
                            !.pc = "visit"]
  <2>1. Local(w, t) /\ t.op = u.op /\ t.sub = u.sub
    BY <1>2, <1>10 DEF PlusChild, Idle
  <2> HIDE DEF t
  <2> QED BY <2>1, <1>3
<1>11. CASE Descend(w)
  <2> DEFINE t == [u EXCEPT !.queue = u.next, !.next = <<>>, !.lvl = @ + 1,
                            !.pc = IF u.next = <<>> THEN "done" ELSE "visit"]
  <2>1. Local(w, t) /\ t.op = u.op /\ t.sub = u.sub
    BY <1>2, <1>11 DEF Descend, Idle
  <2> HIDE DEF t
  <2> QED BY <2>1, <1>3
<1>12. CASE CollectTerminals(w)
  <2>1. CASE Goto(w, "done")
    <3> DEFINE t == [u EXCEPT !.pc = "done"]
    <3>1. Local(w, t) /\ t.op = u.op /\ t.sub = u.sub
      BY <1>2, <2>1 DEF Goto, Idle
    <3> HIDE DEF t
    <3> QED BY <3>1, <1>3
  <2>2. CASE Local(w, [u EXCEPT !.got = @ (+) n.terminals, !.queue = Tail(@)])
    <3> DEFINE t == [u EXCEPT !.got = @ (+) n.terminals, !.queue = Tail(@)]
    <3>1. Local(w, t) /\ t.op = u.op /\ t.sub = u.sub
      BY <1>2, <2>2 DEF Idle
    <3> HIDE DEF t
    <3> QED BY <3>1, <1>3
  <2> QED BY <2>1, <2>2, <1>12 DEF CollectTerminals
<1> QED BY <1>2, <1>5, <1>6, <1>7, <1>8, <1>9, <1>10, <1>11, <1>12 DEF Match

LEMMA MatchBook ==
  ASSUME Alone, IInv, IInv', BInv, NEW w \in Worker, Match(w), ~NilNode(w)
  PROVE  BInv' /\ Calm(w)
<1>1. Calm(w) /\ th[w].op = "match"
  BY MatchCalm
<1>2. ThreadOK(th'[w], asked')
  BY DEF IInv
<1>3. th'[w].pc \notin {"store", "replace"}
  BY <1>1, <1>2 DEF Calm, ThreadOK, MatchOK, InLookup
<1> QED BY <1>1, <1>3, CalmBook DEF StoreBook, ReplaceBook
-----------------------------------------------------------------------------
LEMMA PutEntries ==
  ASSUME NEW p, NEW node, NEW upd, NEW A, NodeOK(p, node, A)
  PROVE  /\ upd.field \in {"plus", "child"} => Entries(Put(node, upd)) = Entries(node)
         /\ upd.field = "hash" =>
               Entries(Put(node, upd)) = DOMAIN upd.subs \cup DOMAIN node.terminals
         /\ upd.field = "terminals" =>
               Entries(Put(node, upd)) = DOMAIN node.hash \cup DOMAIN upd.subs
<1> DEFINE m == Put(node, upd)
<1>1. DOMAIN node = {"n", "children", "plus", "hash", "terminals"}
  BY DEF NodeOK
<1>2. ASSUME upd.field = "plus" PROVE m.hash = node.hash /\ m.terminals = node.terminals
  <2>1. m = [node EXCEPT !.plus = upd.id]
    BY <1>2 DEF Put
  <2> QED BY <2>1, <1>1
<1>3. ASSUME upd.field = "child" PROVE m.hash = node.hash /\ m.terminals = node.terminals
  <2> DEFINE c == [l \in DOMAIN node.children \cup {upd.level} |->
                      IF l = upd.level THEN upd.id ELSE node.children[l]]
  <2>1. m = [node EXCEPT !.children = c]
    BY <1>3 DEF Put
  <2> HIDE DEF c, m
  <2> QED BY <2>1, <1>1
<1>4. ASSUME upd.field = "hash" PROVE m.hash = upd.subs /\ m.terminals = node.terminals
  <2>1. m = [node EXCEPT !.hash = upd.subs]
    BY <1>4 DEF Put
  <2> QED BY <2>1, <1>1
<1>5. ASSUME upd.field = "terminals" PROVE m.hash = node.hash /\ m.terminals = upd.subs
  <2>1. m = [node EXCEPT !.terminals = upd.subs]
    BY <1>5 DEF Put
  <2> QED BY <2>1, <1>1
<1> HIDE DEF m
<1>6. /\ upd.field \in {"plus", "child"} => Entries(m) = Entries(node)
      /\ upd.field = "hash" => Entries(m) = DOMAIN upd.subs \cup DOMAIN node.terminals
      /\ upd.field = "terminals" => Entries(m) = DOMAIN node.hash \cup DOMAIN upd.subs
  BY <1>2, <1>3, <1>4, <1>5 DEF Entries
<1> QED BY <1>6 DEF m

\* Filter and entries: those of a node have its path, or its path and "#".
LEMMA EntryTopic ==
  ASSUME NEW p \in Path, NEW node, NEW A, NodeOK(p, node, A)
  PROVE  /\ \A s \in DOMAIN node.terminals : s.topic = p
         /\ \A s \in DOMAIN node.hash : s.topic = Append(p, "#")
         /\ Append(p, "#") # p
<1>1. Len(Append(p, "#")) = Len(p) + 1 /\ Len(p) \in Nat
  BY ParentAppend DEF Path, Token
<1>2. Append(p, "#") # p
  BY <1>1
<1> QED BY <1>2 DEF NodeOK, SubsOK

LEMMA GotoBook ==
  ASSUME Alone, IInv, BInv, NEW w \in Worker, NEW l, Goto(w, l), l \notin InSave
  PROVE  BInv' /\ Calm(w)
<1> DEFINE u == th[w]
           t == [u EXCEPT !.pc = l]
<1>1. th'[w] = t /\ docs' = docs /\ acked' = acked /\ DOMAIN u = DOMAIN Idle
  BY DEF Goto, Local, IInv, ThreadOK
<1>2. t.op = u.op /\ t.sub = u.sub /\ t.key = u.key /\ t.pc = l
  BY <1>1 DEF Idle
<1> HIDE DEF t
<1>3. Calm(w) /\ StoreBook(th'[w], docs) /\ ReplaceBook(th'[w], docs)
  BY <1>1, <1>2 DEF Calm, StoreBook, ReplaceBook, InSave
<1> QED BY <1>3, CalmBook

LEMMA AssignBook ==
  ASSUME Alone, IInv, BInv, NEW w \in Worker, NEW r, NEW upd, NEW l,
         Assign(w, r, upd, l), InSync(r, docs, heap),
         Edits(th[w].op, th[w].sub, l, heap[r], Put(heap[r], upd))
  PROVE  BInv' /\ Calm(w)
<1> DEFINE u == th[w]
           t == [u EXCEPT !.tgt = r, !.upd = upd, !.pc = "store", !.ret = l]
<1>1. th'[w] = t /\ docs' = docs /\ acked' = acked /\ DOMAIN u = DOMAIN Idle
  BY DEF Assign, Local, IInv, ThreadOK
<1>2. /\ t.op = u.op /\ t.sub = u.sub /\ t.key = u.key /\ t.pc = "store"
      /\ t.tgt = r /\ t.upd = upd /\ t.ret = l
  BY <1>1 DEF Idle
<1> HIDE DEF t
<1>3. Calm(w) /\ StoreBook(th'[w], docs) /\ ReplaceBook(th'[w], docs)
  BY <1>1, <1>2 DEF Calm, StoreBook, ReplaceBook, InSync
<1> QED BY <1>3, CalmBook

LEMMA LinkBook ==
  ASSUME Alone, IInv, SInv, BInv, NEW w \in Worker, LinkLevel(w)
  PROVE  BInv' /\ Calm(w)
<1> DEFINE u == th[w]
           f == u.sub.topic
           i == u.lvl
           r == u.par
           node == heap[r]
           id == [path |-> u.cur.path, n |-> heap[u.cur].n]
<1>1. u.pc = "level"
  BY DEF LinkLevel, At
<1>2. /\ u.op = "insert" /\ f \in Path /\ i \in 1..Len(f)
      /\ i > 1 => r \in DOMAIN heap /\ InSync(r, docs, heap)
  BY <1>1, InsertKnows
<1>3. i > 1 => NodeOK(r.path, node, asked)
  BY <1>2 DEF IInv, MemoryOK
<1>4. CASE Goto(w, "leaf") \/ Goto(w, "rejected")
  BY <1>4, GotoBook DEF InSave
<1>5. ASSUME i > 1, NEW upd, upd.field \in {"plus", "child"}, Assign(w, r, upd, "leaf")
      PROVE  BInv' /\ Calm(w)
  <2>1. Entries(Put(node, upd)) = Entries(node)
    BY <1>3, <1>5, PutEntries
  <2>2. Edits(u.op, u.sub, "leaf", node, Put(node, upd))
    BY <2>1 DEF Edits
  <2> QED BY <2>2, <1>2, <1>5, AssignBook
<1>6. CASE i > 1 /\ Assign(w, r, [field |-> "plus", id |-> id], "leaf")
  BY <1>5, <1>6
<1>7. CASE i > 1 /\ Assign(w, r, [field |-> "child", level |-> f[i], id |-> id], "leaf")
  BY <1>5, <1>7
<1>8. CASE /\ i > 1 /\ f[i] = "#" /\ i = Len(f)
           /\ Assign(w, r, [field |-> "hash", subs |-> With(node.hash, u.sub)], "done")
  <2> DEFINE bag == With(node.hash, u.sub)
             upd == [field |-> "hash", subs |-> bag]
  <2>1. DOMAIN bag = DOMAIN node.hash \cup {u.sub}
    BY BagFacts
  <2> HIDE DEF bag
  <2>2. Entries(Put(node, upd)) = DOMAIN bag \cup DOMAIN node.terminals
    BY <1>3, <1>8, PutEntries
  <2>3. Entries(Put(node, upd)) = Entries(node) \cup {u.sub}
    BY <2>1, <2>2 DEF Entries
  <2>4. Book!Repeatable(u.sub)
    BY <1>8 DEF Book!Repeatable
  <2>5. Edits(u.op, u.sub, "done", node, Put(node, upd))
    BY <2>3, <2>4, <1>2 DEF Edits
  <2> QED BY <2>5, <1>2, <1>8, AssignBook DEF bag
<1> QED BY <1>4, <1>6, <1>7, <1>8 DEF LinkLevel, Topic

LEMMA TerminalBook ==
  ASSUME Alone, IInv, SInv, BInv, NEW w \in Worker, AddTerminal(w)
  PROVE  BInv' /\ Calm(w)
<1> DEFINE u == th[w]
           f == u.sub.topic
           r == u.cur
           node == heap[r]
           bag == With(node.terminals, u.sub)
           upd == [field |-> "terminals", subs |-> bag]
<1>1. u.pc = "leaf"
  BY DEF AddTerminal, At
<1>2. /\ u.op = "insert" /\ f \in Path \ {<<>>} /\ r.path = Prefix(f, u.lvl)
      /\ r \in DOMAIN heap /\ InSync(r, docs, heap)
  BY <1>1, InsertKnows
<1>3. NodeOK(r.path, node, asked)
  BY <1>2 DEF IInv, MemoryOK
<1>4. CASE Goto(w, "next")
  BY <1>4, GotoBook DEF InSave
<1>5. CASE u.lvl = Len(f) /\ ~Holds(node.terminals, u.sub) /\ Assign(w, r, upd, "next")
  <2>1. DOMAIN bag = DOMAIN node.terminals \cup {u.sub}
    BY BagFacts
  <2> HIDE DEF bag
  <2>2. Entries(Put(node, upd)) = DOMAIN node.hash \cup DOMAIN bag
    BY <1>3, PutEntries
  <2>3. Entries(Put(node, upd)) = Entries(node) \cup {u.sub}
    BY <2>1, <2>2 DEF Entries
  <2>4. r.path = f
    BY <1>2, <1>5, LengthFacts
  <2>5. \A t \in Entries(node) : ~Equal(u.sub, t)
    <3>1. \A t \in DOMAIN node.hash : t.topic # f
      BY <2>4, <1>2, <1>3, EntryTopic
    <3> QED BY <3>1, <1>5 DEF Entries, Holds, Equal
  <2>6. Edits(u.op, u.sub, "next", node, Put(node, upd))
    BY <2>3, <2>5, <1>2 DEF Edits
  <2> QED BY <2>6, <1>2, <1>5, AssignBook DEF bag
<1> QED BY <1>4, <1>5 DEF AddTerminal, Topic

LEMMA NextLevelBook ==
  ASSUME Alone, IInv, SInv, BInv, NEW w \in Worker, NextLevel(w)
  PROVE  BInv' /\ Calm(w)
<1> DEFINE u == th[w]
           i == u.lvl + 1
           k == PathKey(Prefix(u.sub.topic, i))
           v == [u EXCEPT !.par = u.cur, !.lvl = i]
           t == [v EXCEPT !.key = k, !.cur = Nil, !.pc = "lookup", !.ret = "level"]
<1>1. u.op = "insert" /\ DOMAIN u = DOMAIN Idle
  BY InsertKnows DEF NextLevel, At
<1>2. CASE Goto(w, "done")
  BY <1>2, GotoBook DEF InSave
<1>3. CASE Local(w, t)
  <2>1. th'[w] = t /\ docs' = docs /\ acked' = acked
    BY <1>3 DEF Local, IInv
  <2>2. t.op = u.op /\ t.sub = u.sub /\ t.pc = "lookup"
    BY <1>1 DEF Idle
  <2> HIDE DEF t
  <2>3. Calm(w) /\ StoreBook(th'[w], docs) /\ ReplaceBook(th'[w], docs)
    BY <2>1, <2>2, <1>1 DEF Calm, StoreBook, ReplaceBook
  <2> QED BY <2>3, CalmBook
<1> QED BY <1>2, <1>3 DEF NextLevel, Topic, Get

\* A deletion looks in one slice of one node; the other holds other filters.
LEMMA RemoveBook ==
  ASSUME Alone, IInv, SInv, BInv, NEW w \in Worker, RemoveTerminal(w)
  PROVE  BInv' /\ Calm(w)
<1> DEFINE u == th[w]
           f == u.sub.topic
           r == u.cur
           node == heap[r]
<1>1. /\ u.pc = "remove" /\ u.op = "delete" /\ (r = Nil \/ r.path = u.key.path)
      /\ Held(u) \subseteq DOMAIN heap \cup {Nil}
      /\ DeleteSerial(u, docs, heap, acked)
  <2>1. /\ ThreadOK(u, asked) /\ Held(u) \subseteq DOMAIN heap \cup {Nil}
        /\ ThreadSerial(u, docs, heap, cache, acked)
    BY DEF IInv, SInv
  <2> QED BY <2>1 DEF RemoveTerminal, At, ThreadOK, InsertOK, MatchOK, InLookup, InSave,
                      ThreadSerial
<1>2. /\ f \in Path \ {<<>>}
      /\ u.key.path = IF HasHash(f) THEN Parent(f) ELSE f
  <2>1. ThreadBook(u, docs)
    BY DEF BInv
  <2>2. u.sub \in Requests
    BY <2>1, <1>1 DEF ThreadBook
  <2> QED BY <2>1, <2>2, <1>1, TreeAssumption DEF ThreadBook, Requests
<1>3. CASE Goto(w, "rejected")
  BY <1>3, GotoBook DEF InSave
<1>4. ASSUME r # Nil
      PROVE  /\ r.path \in Path /\ NodeOK(r.path, node, asked) /\ InSync(r, docs, heap)
             /\ r.path = IF HasHash(f) THEN Parent(f) ELSE f
  <2>1. r \in DOMAIN heap
    BY <1>1, <1>4 DEF Held
  <2>2. InSync(r, docs, heap)
    BY <1>1, <1>4 DEF DeleteSerial, Settled
  <2> QED BY <2>1, <2>2, <1>1, <1>2, <1>4 DEF IInv, MemoryOK, Ref
<1>5. CASE /\ r # Nil /\ HasHash(f)
           /\ Assign(w, r, [field |-> "hash", subs |-> Except(node.hash, u.sub)], "done")
  <2> DEFINE bag == Except(node.hash, u.sub)
             upd == [field |-> "hash", subs |-> bag]
  <2>1. DOMAIN bag = {t \in DOMAIN node.hash : ~Equal(u.sub, t)}
    BY DEF Except
  <2> HIDE DEF bag
  <2>2. Entries(Put(node, upd)) = DOMAIN bag \cup DOMAIN node.terminals
    BY <1>4, <1>5, PutEntries
  <2>3. \A t \in DOMAIN node.terminals : ~Equal(u.sub, t)
    <3>1. r.path # f
      <4>1. Len(f) \in Nat \ {0} /\ Len(Parent(f)) = Len(f) - 1
        BY <1>2, EmptySeq, SubSeqProperties DEF Path, Parent
      <4> QED BY <4>1, <1>4, <1>5
    <3> QED BY <3>1, <1>4, <1>5, EntryTopic DEF Equal
  <2>4. Entries(Put(node, upd)) = {t \in Entries(node) : ~Equal(u.sub, t)}
    BY <2>1, <2>2, <2>3 DEF Entries
  <2>5. Edits(u.op, u.sub, "done", node, Put(node, upd))
    BY <2>4, <1>1 DEF Edits
  <2> QED BY <2>5, <1>4, <1>5, AssignBook DEF bag
<1>6. CASE /\ r # Nil /\ ~HasHash(f)
           /\ Assign(w, r, [field |-> "terminals", subs |-> Except(node.terminals, u.sub)],
                     "done")
  <2> DEFINE bag == Except(node.terminals, u.sub)
             upd == [field |-> "terminals", subs |-> bag]
  <2>1. DOMAIN bag = {t \in DOMAIN node.terminals : ~Equal(u.sub, t)}
    BY DEF Except
  <2> HIDE DEF bag
  <2>2. Entries(Put(node, upd)) = DOMAIN node.hash \cup DOMAIN bag
    BY <1>4, <1>6, PutEntries
  <2>3. \A t \in DOMAIN node.hash : ~Equal(u.sub, t)
    BY <1>4, <1>6, EntryTopic DEF Equal
  <2>4. Entries(Put(node, upd)) = {t \in Entries(node) : ~Equal(u.sub, t)}
    BY <2>1, <2>2, <2>3 DEF Entries
  <2>5. Edits(u.op, u.sub, "done", node, Put(node, upd))
    BY <2>4, <1>1 DEF Edits
  <2> QED BY <2>5, <1>4, <1>6, AssignBook DEF bag
<1> QED BY <1>3, <1>5, <1>6 DEF RemoveTerminal

LEMMA StoreBookStep ==
  ASSUME Alone, IInv, SInv, AllResolve, BInv, NEW w \in Worker, Store(w)
  PROVE  BInv' /\ Calm(w)
<1> DEFINE u == th[w]
           r == u.tgt
           node == Put(heap[r], u.upd)
           t == [u EXCEPT !.pc = "replace", !.buf = node, !.upd = NoUpdate]
<1>1. u.pc = "store" /\ docs' = docs /\ acked' = acked /\ th' = [th EXCEPT ![w] = t]
  BY DEF Store, At
<1>2. /\ ThreadOK(u, asked) /\ ThreadSerial(u, docs, heap, cache, acked) /\ u.ret # "level"
      /\ StoreBook(u, docs)
  BY <1>1 DEF IInv, SInv, AllResolve, ThreadResolves, BInv, ThreadBook
<1>3. InSync(r, docs, heap)
  <2>1. CASE u.op = "insert"
    BY <2>1, <1>1, <1>2 DEF ThreadSerial, InsertSerial, Promise, Settled
  <2>2. CASE u.op = "delete"
    BY <2>2, <1>1, <1>2 DEF ThreadSerial, DeleteSerial, Settled, InSave, ThreadOK
  <2> QED BY <2>1, <2>2, <1>1, <1>2 DEF ThreadOK, MatchOK, InLookup
<1>4. Edits(u.op, u.sub, u.ret, docs[r.path], node)
  BY <1>1, <1>2, <1>3 DEF StoreBook, InSync
<1> HIDE DEF node
<1>5. th'[w] = t /\ DOMAIN u = DOMAIN Idle
  BY <1>1, <1>2 DEF IInv, ThreadOK
<1>6. /\ t.op = u.op /\ t.sub = u.sub /\ t.key = u.key /\ t.pc = "replace"
      /\ t.tgt = r /\ t.buf = node /\ t.ret = u.ret
  BY <1>5 DEF Idle
<1> HIDE DEF t
<1>7. Calm(w) /\ StoreBook(th'[w], docs) /\ ReplaceBook(th'[w], docs)
  BY <1>1, <1>2, <1>4, <1>5, <1>6 DEF Calm, StoreBook, ReplaceBook
<1> QED BY <1>7, CalmBook
-----------------------------------------------------------------------------
(***************************************************************************)
(* The entries for one filter are all at one node.                         *)
(***************************************************************************)
LEMMA OneNode ==
  ASSUME NEW d, NEW A, DocsOK(d, A), DocsTidy(d), <<>> \notin DOMAIN d,
         NEW p \in DOMAIN d, NEW q \in DOMAIN d,
         NEW s \in Entries(d[p]), NEW t \in Entries(d[q]), s.topic = t.topic
  PROVE  p = q
<1>1. p \in Path /\ q \in Path /\ NodeOK(p, d[p], A) /\ NodeOK(q, d[q], A)
  BY DEF DocsOK
<1>2. /\ s \in DOMAIN d[p].terminals => s.topic = p
      /\ s \in DOMAIN d[p].hash => s.topic = Append(p, "#")
      /\ t \in DOMAIN d[q].terminals => t.topic = q
      /\ t \in DOMAIN d[q].hash => t.topic = Append(q, "#")
  BY <1>1, EntryTopic
<1>3. \A x \in DOMAIN d : Len(Append(x, "#")) # 1 /\ Last(Append(x, "#")) = "#"
                          /\ Parent(Append(x, "#")) = x
  <2> TAKE x \in DOMAIN d
  <2>1. x \in Seq(Token) /\ x # <<>>
    BY DEF DocsOK, Path
  <2>2. Len(x) \in Nat \ {0}
    BY <2>1, EmptySeq
  <2>3. /\ Len(Append(x, "#")) = Len(x) + 1 /\ Last(Append(x, "#")) = "#"
        /\ Parent(Append(x, "#")) = x
    BY <2>1, ParentAppend DEF Token
  <2> QED BY <2>2, <2>3
<1>4. s \in DOMAIN d[p].terminals => Len(p) = 1 \/ Last(p) # "#"
  BY DEF DocsTidy, Tidy
<1>5. t \in DOMAIN d[q].terminals => Len(q) = 1 \/ Last(q) # "#"
  BY DEF DocsTidy, Tidy
<1>6. CASE s \in DOMAIN d[p].terminals /\ t \in DOMAIN d[q].terminals
  BY <1>2, <1>6
<1>7. CASE s \in DOMAIN d[p].hash /\ t \in DOMAIN d[q].hash
  <2>1. Append(p, "#") = Append(q, "#")
    BY <1>2, <1>7
  <2>2. Parent(Append(p, "#")) = p /\ Parent(Append(q, "#")) = q
    BY <1>3
  <2> QED BY <2>1, <2>2
<1>8. CASE s \in DOMAIN d[p].terminals /\ t \in DOMAIN d[q].hash
  <2>1. p = Append(q, "#")
    BY <1>2, <1>8
  <2> QED BY <2>1, <1>3, <1>4, <1>8
<1>9. CASE s \in DOMAIN d[p].hash /\ t \in DOMAIN d[q].terminals
  <2>1. q = Append(p, "#")
    BY <1>2, <1>9
  <2> QED BY <2>1, <1>3, <1>5, <1>9
<1> QED BY <1>6, <1>7, <1>8, <1>9 DEF Entries

LEMMA ReplaceEdits ==
  ASSUME Alone, IInv, SInv, BInv, NEW w \in Worker, ReplaceOne(w)
  PROVE  LET u == th[w]
             p == u.tgt.path
         IN  /\ p # <<>> /\ DOMAIN docs' = DOMAIN docs \cup {p}
             /\ \A q \in DOMAIN docs \ {p} : docs'[q] = docs[q]
             /\ \/ p \notin DOMAIN docs /\ Entries(docs'[p]) = {}
                \/ p \in DOMAIN docs /\ Edits(u.op, u.sub, u.ret, docs[p], docs'[p])
<1> DEFINE u == th[w]
           p == u.tgt.path
<1>1. u.pc = "replace" /\ docs' = Written(p, u.buf)
  BY DEF ReplaceOne, At
<1>2. /\ ThreadOK(u, asked) /\ ThreadSerial(u, docs, heap, cache, acked)
      /\ ReplaceBook(u, docs) /\ <<>> \notin DOMAIN docs
  BY DEF IInv, SInv, BInv, ThreadBook, Rooted
<1>3. /\ DOMAIN docs' = DOMAIN docs \cup {p} /\ docs'[p] = u.buf
      /\ \A q \in DOMAIN docs \ {p} : docs'[q] = docs[q]
  BY <1>1 DEF Written
<1>4. CASE u.ret # "level"
  <2>1. p \in DOMAIN docs
    BY <1>1, <1>2, <1>4 DEF ThreadSerial, SaveOK
  <2> QED BY <2>1, <1>1, <1>2, <1>3, <1>4 DEF ReplaceBook
<1>5. CASE u.ret = "level"
  <2>1. u.op = "insert" /\ InsertOK(u, asked)
    BY <1>1, <1>2, <1>5 DEF ThreadOK, DeleteOK, MatchOK, InLookup, InSave
  <2>2. p = u.key.path /\ p \notin DOMAIN docs
    BY <2>1, <1>1, <1>2, <1>5 DEF ThreadSerial, InsertSerial, ThreadOK, InSave
  <2>3. p # <<>>
    <3>1. u.sub.topic \in Seq(Token) /\ u.lvl \in 1..Len(u.sub.topic)
      BY <2>1 DEF InsertOK, Path
    <3>2. Len(p) = u.lvl
      BY <2>1, <2>2, <3>1, PrefixFacts DEF InsertOK
    <3>3. Len(<<>>) = 0
      OBVIOUS
    <3> QED BY <3>1, <3>2, <3>3
  <2> QED BY <2>2, <2>3, <1>1, <1>2, <1>3, <1>5 DEF ReplaceBook
<1> QED BY <1>4, <1>5

LEMMA ReplaceRooted ==
  ASSUME Alone, IInv, IInv', SInv, SInv', BInv, NEW w \in Worker, ReplaceOne(w)
  PROVE  Rooted(docs')
<1> DEFINE u == th[w]
           p == u.tgt.path
           f == u.sub.topic
           t == [u EXCEPT !.pc = u.ret, !.tgt = Nil, !.buf = NewNode(0)]
<1>1. /\ p # <<>> /\ DOMAIN docs' = DOMAIN docs \cup {p}
      /\ \A q \in DOMAIN docs \ {p} : docs'[q] = docs[q]
      /\ \/ p \notin DOMAIN docs /\ Entries(docs'[p]) = {}
         \/ p \in DOMAIN docs /\ Edits(u.op, u.sub, u.ret, docs[p], docs'[p])
  BY ReplaceEdits
<1>2. u.pc = "replace" /\ docs' = Written(p, u.buf) /\ th' = [th EXCEPT ![w] = t]
  BY DEF ReplaceOne, Saved, At
<1>3. DocsKeep(u, docs, docs')
  BY <1>2, WrittenKeeps
<1>4. Rooted(docs) /\ ThreadOK(u, asked) /\ ThreadSerial(u, docs, heap, cache, acked)
  BY DEF BInv, IInv, SInv
<1>5. ASSUME NEW q \in DOMAIN docs, Entries(docs[q]) # {} PROVE Chain(q, Len(q), docs')
  <2>1. q \in Path /\ Len(q) \in 0..Len(q) /\ Chain(q, Len(q), docs)
    BY <1>4, <1>5, LengthFacts DEF Rooted, IInv, DocsOK
  <2> QED BY <2>1, <1>3, ChainKept
<1>6. ASSUME u.op = "insert", u.ret \in {"next", "done"} PROVE Chain(p, Len(p), docs')
  <2>1. /\ Differ(t, u, {"pc", "tgt", "buf"}) /\ t.pc = u.ret
    BY <1>4 DEF ThreadOK, Differ, Idle
  <2>2. th'[w] = t
    BY <1>2 DEF IInv
  <2> HIDE DEF t
  <2>3. /\ t.op = "insert" /\ t.sub = u.sub /\ t.lvl = u.lvl /\ t.pc = u.ret
    BY <2>1, <1>6 DEF Differ, Idle
  <2>4. InsertSerial(t, docs', heap')
    BY <2>2, <2>3 DEF SInv, ThreadSerial
  <2>5. /\ InsertOK(u, asked) /\ Promise(u, u.buf, docs)
    BY <1>2, <1>4, <1>6 DEF ThreadOK, ThreadSerial, InsertSerial
  <2>6. f \in Path \ {<<>>} /\ u.lvl \in 1..Len(f) /\ u.cur.path = Prefix(f, u.lvl)
    <3>1. u.cur.path = u.key.path
      BY <2>5, <1>2, <1>4 DEF ThreadOK, InsertOK
    <3>2. Len(<<>>) = 0
      OBVIOUS
    <3> QED BY <2>5, <3>1, <3>2 DEF InsertOK
  <2>7. CASE u.ret = "next"
    <3>1. p = f /\ u.lvl = Len(f)
      BY <2>5, <2>6, <2>7, LengthFacts DEF Promise
    <3>2. Chain(f, u.lvl, docs')
      BY <2>3, <2>4, <2>7 DEF InsertSerial, LinkedUp
    <3> QED BY <3>1, <3>2
  <2>8. CASE u.ret = "done"
    <3> DEFINE j == u.lvl - 1
    <3>1. /\ p = Prefix(f, j) /\ j \in 1..Len(f)
      BY <2>5, <2>6, <2>8 DEF Promise, InsertOK
    <3>2. Chain(f, j, docs')
      BY <2>3, <2>4, <2>8 DEF InsertSerial
    <3> HIDE DEF j
    <3>3. Len(p) = j
      <4>1. f \in Seq(Token)
        BY <2>6 DEF Path
      <4> QED BY <4>1, <3>1, PrefixFacts
    <3> QED BY <2>6, <3>1, <3>2, <3>3, ChainPrefix
  <2> QED BY <1>6, <2>7, <2>8
<1>7. ASSUME NEW q \in DOMAIN docs', Entries(docs'[q]) # {} PROVE Chain(q, Len(q), docs')
  <2>1. CASE q # p
    BY <2>1, <1>1, <1>5, <1>7
  <2>2. CASE q = p
    <3>1. p \in DOMAIN docs /\ Edits(u.op, u.sub, u.ret, docs[p], docs'[p])
      BY <2>2, <1>1, <1>7
    <3> QED BY <2>2, <3>1, <1>5, <1>6, <1>7 DEF Edits
  <2> QED BY <2>1, <2>2
<1>8. <<>> \notin DOMAIN docs'
  BY <1>1, <1>4 DEF Rooted
<1> QED BY <1>7, <1>8 DEF Rooted

LEMMA ReplaceBookStep ==
  ASSUME Alone, IInv, IInv', SInv, SInv', BInv, NEW w \in Worker, ReplaceOne(w)
  PROVE  /\ BInv' /\ acked' = acked
         /\ th'[w].op = th[w].op /\ th'[w].sub = th[w].sub
<1> DEFINE u == th[w]
           t == [u EXCEPT !.pc = u.ret, !.tgt = Nil, !.buf = NewNode(0)]
<1>1. u.pc = "replace" /\ acked' = acked /\ th' = [th EXCEPT ![w] = t]
  BY DEF ReplaceOne, Saved, At
<1>2. ThreadOK(u, asked) /\ ThreadBook(u, docs) /\ th'[w] = t
  BY <1>1 DEF IInv, BInv
<1>3. /\ t.op = u.op /\ t.sub = u.sub /\ t.key = u.key /\ t.pc = u.ret
  BY <1>2 DEF ThreadOK, Idle
<1> HIDE DEF t
<1>4. t.pc \notin {"store", "replace"}
  BY <1>1, <1>2, <1>3 DEF ThreadOK, InsertOK, DeleteOK, MatchOK, InLookup, InSave
<1>5. ThreadBook(t, docs')
  BY <1>2, <1>3, <1>4 DEF ThreadBook, StoreBook, ReplaceBook
<1>6. \A v \in Worker : v = w
  BY DEF Alone
<1> QED BY <1>1, <1>2, <1>3, <1>5, <1>6, ReplaceRooted DEF BInv
-----------------------------------------------------------------------------
LEMMA IdleBook ==
  ASSUME NEW d
  PROVE  ThreadBook(Idle, d)
  BY DEF ThreadBook, StoreBook, ReplaceBook, Idle

LEMMA RequestBook ==
  ASSUME Alone, IInv, BInv, NEW w \in Worker,
         Subscribe(w) \/ Unsubscribe(w) \/ Publish(w)
  PROVE  BInv'
<1>1. PICK op, s, p, ret :
         /\ Begin(w, op, s, p, ret)
         /\ op \in {"insert", "delete"} => s \in Requests
         /\ op = "delete" => p = IF HasHash(s.topic) THEN Parent(s.topic) ELSE s.topic
  <2>1. CASE Subscribe(w)
    <3>1. PICK c \in Client, f \in Filters, q \in QoS :
             Begin(w, "insert", [client |-> c, topic |-> f, qos |-> q], Prefix(f, 1), "level")
      BY <2>1 DEF Subscribe
    <3>2. [client |-> c, topic |-> f, qos |-> q] \in Requests
      BY DEF Requests
    <3> QED BY <3>1, <3>2
  <2>2. CASE Unsubscribe(w)
    <3>1. PICK c \in Client, f \in Drops, q \in QoS :
             Begin(w, "delete", [client |-> c, topic |-> f, qos |-> q],
                   IF HasHash(f) THEN Parent(f) ELSE f, "remove")
      BY <2>2 DEF Unsubscribe
    <3>2. [client |-> c, topic |-> f, qos |-> q] \in Requests
      BY DEF Requests
    <3> QED BY <3>1, <3>2
  <2>3. CASE Publish(w)
    BY <2>3 DEF Publish
  <2> QED BY <2>1, <2>2, <2>3
<1> DEFINE t == [Idle EXCEPT !.pc = "lookup", !.op = op, !.sub = s, !.lvl = 1,
                             !.key = PathKey(p), !.ret = ret]
<1>2. th' = [th EXCEPT ![w] = t] /\ docs' = docs
  BY <1>1 DEF Begin
<1>3. t.pc = "lookup" /\ t.op = op /\ t.sub = s /\ t.key.path = p
  BY DEF Idle, PathKey
<1>4. th'[w] = t
  BY <1>2 DEF IInv
<1> HIDE DEF t
<1>5. ThreadBook(t, docs)
  BY <1>1, <1>3 DEF ThreadBook, StoreBook, ReplaceBook
<1>6. \A v \in Worker : v = w
  BY DEF Alone
<1> QED BY <1>2, <1>4, <1>5, <1>6 DEF BInv

LEMMA BInvInit == Init => BInv
<1> SUFFICES ASSUME Init PROVE BInv
  OBVIOUS
<1>1. th = [w \in Worker |-> Idle] /\ docs = <<>>
  BY DEF Init
<1>2. DOMAIN <<>> = {}
  OBVIOUS
<1> QED BY <1>1, <1>2, IdleBook DEF BInv, Rooted

LEMMA BInvNext ==
  ASSUME Alone
  PROVE  IInv /\ IInv' /\ LInv /\ SInv /\ SInv' /\ BInv /\ [Next]_vars => BInv'
<1> SUFFICES ASSUME IInv, IInv', LInv, SInv, SInv', BInv, [Next]_vars PROVE BInv'
  OBVIOUS
<1>1. AllResolve
  BY DEF LInv, SInv
<1>2. ASSUME NEW w \in Worker, Save(w) PROVE BInv'
  BY <1>1, <1>2, StoreBookStep, ReplaceBookStep, NoFailure DEF Save
<1>3. ASSUME NEW w \in Worker, Insert(w) PROVE BInv'
  BY <1>3, LinkBook, TerminalBook, NextLevelBook DEF Insert
<1>4. ASSUME NEW w \in Worker, Match(w) PROVE BInv'
  BY <1>1, <1>4, MatchBook, NoNilNode
<1>5. ASSUME NEW w \in Worker, Return(w) PROVE BInv'
  <2>1. th' = [th EXCEPT ![w] = Idle] /\ docs' = docs
    BY <1>5 DEF Return
  <2> QED BY <2>1, IdleBook DEF IInv, BInv
<1>6. ASSUME NEW w \in Worker, Run(w) PROVE BInv'
  BY <1>2, <1>3, <1>4, <1>5, <1>6, FetchBook, RemoveBook DEF Run
<1>7. ASSUME NEW w \in Worker, Subscribe(w) \/ Unsubscribe(w) \/ Publish(w) PROVE BInv'
  BY <1>7, RequestBook
<1>8. CASE Evict \/ RaceFault \/ Kill \/ Rest \/ UNCHANGED vars
  BY <1>8 DEF Evict, RaceFault, Kill, Rest, vars, BInv
<1>9. CASE Restart
  BY <1>9, IdleBook DEF Restart, BInv
<1> QED BY <1>6, <1>7, <1>8, <1>9 DEF Next, Worker
-----------------------------------------------------------------------------
\* A match can find every subscription that is stored.
AllFound == Findable = StoredSubs

LEMMA RootedFound == IInv /\ EInv /\ BInv => AllFound
<1> SUFFICES ASSUME IInv, EInv, BInv PROVE AllFound
  OBVIOUS
<1>1. ASSUME NEW p \in DOMAIN docs, NEW s \in Entries(docs[p]) PROVE InTree(s)
  <2>1. /\ p \in Path \ {<<>>} /\ NodeOK(p, docs[p], asked) /\ Chain(p, Len(p), docs)
        /\ \A x \in DOMAIN docs[p].terminals : Len(p) = 1 \/ Last(p) # "#"
    BY DEF IInv, DocsOK, EInv, DocsTidy, Tidy, BInv, Rooted
  <2>2. CASE s \in DOMAIN docs[p].terminals
    <3>0. s.topic = p
      BY <2>1, <2>2, EntryTopic
    <3>1. s.topic = p /\ ~(Last(p) = "#" /\ Len(p) > 1)
      <4>1. Len(p) = 1 => ~(Len(p) > 1)
        OBVIOUS
      <4> QED BY <2>1, <2>2, <3>0, <4>1, Zenon
    <3>2. Holds(docs[p].terminals, s)
      BY <2>2 DEF Holds, Equal
    <3>3. Given(s, docs)
      BY <2>1, <3>1, <3>2 DEF Given
    <3> QED BY <2>1, <3>1, <3>3, GivenInTree
  <2>3. CASE s \in DOMAIN docs[p].hash
    <3> DEFINE f == Append(p, "#")
               j == Len(p)
    <3>1. s.topic = f
      BY <2>1, <2>3, EntryTopic
    <3>2. /\ f \in Seq(Token) /\ f # <<>> /\ Len(f) = j + 1 /\ Last(f) = "#" /\ Parent(f) = p
      BY <2>1, ParentAppend DEF Path, Token
    <3>3. j \in Nat \ {0}
      BY <2>1, EmptySeq DEF Path
    <3> HIDE DEF f
    <3>4. Prefix(f, j) = p /\ j \in 1..Len(f)
      BY <3>2, <3>3 DEF Prefix, Parent
    <3>5. Chain(Prefix(f, j), j, docs)
      BY <2>1, <3>4
    <3>6. Chain(f, j, docs)
      BY <3>2, <3>4, <3>5, ChainPrefix DEF Path
    <3>7. Holds(docs[p].hash, s)
      BY <2>3 DEF Holds, Equal
    <3>8. Len(f) > 1 /\ Len(f) - 1 = j
      BY <3>2, <3>3
    <3>9. Given(s, docs)
      BY <3>1, <3>2, <3>6, <3>7, <3>8 DEF Given
    <3>10. s.topic \in Path \ {<<>>}
      BY <3>1, <3>2 DEF Path
    <3> QED BY <3>9, <3>10, GivenInTree
  <2> QED BY <2>2, <2>3 DEF Entries
<1> QED BY <1>1 DEF AllFound, Findable, StoredSubs, Entries

\* What a save adds to the stored subscriptions, or takes from them.
LEMMA ReplaceStored ==
  ASSUME Alone, IInv, IInv', SInv, EInv, EInv', BInv, BInv', NEW w \in Worker,
         ReplaceOne(w)
  PROVE  LET u == th[w]
         IN  \/ StoredSubs' = StoredSubs
             \/ /\ u.op = "insert" /\ StoredSubs' = StoredSubs \cup {u.sub}
                /\ Book!Repeatable(u.sub) \/ \A t \in StoredSubs : ~Equal(u.sub, t)
             \/ /\ u.op = "delete"
                /\ StoredSubs' = {t \in StoredSubs : ~Equal(u.sub, t)}
<1> DEFINE u == th[w]
           p == u.tgt.path
<1>1. /\ p # <<>> /\ DOMAIN docs' = DOMAIN docs \cup {p}
      /\ \A q \in DOMAIN docs \ {p} : docs'[q] = docs[q]
      /\ \/ p \notin DOMAIN docs /\ Entries(docs'[p]) = {}
         \/ p \in DOMAIN docs /\ Edits(u.op, u.sub, u.ret, docs[p], docs'[p])
  BY ReplaceEdits
<1>2. /\ DocsOK(docs, asked) /\ DocsTidy(docs) /\ <<>> \notin DOMAIN docs
      /\ DocsOK(docs', asked') /\ DocsTidy(docs') /\ <<>> \notin DOMAIN docs'
  BY DEF IInv, EInv, BInv, Rooted
<1>3. /\ StoredSubs = UNION {Entries(docs[q]) : q \in DOMAIN docs}
      /\ StoredSubs' = UNION {Entries(docs'[q]) : q \in DOMAIN docs'}
  BY DEF StoredSubs, Entries
<1>4. CASE p \notin DOMAIN docs /\ Entries(docs'[p]) = {}
  <2>1. StoredSubs' = StoredSubs
    BY <1>1, <1>3, <1>4
  <2> QED BY <2>1
<1>5. CASE p \in DOMAIN docs /\ Entries(docs'[p]) = Entries(docs[p])
  <2>1. StoredSubs' = StoredSubs
    BY <1>1, <1>3, <1>5
  <2> QED BY <2>1
<1>6. CASE /\ p \in DOMAIN docs /\ u.op = "insert"
           /\ Entries(docs'[p]) = Entries(docs[p]) \cup {u.sub}
           /\ Book!Repeatable(u.sub) \/ \A t \in Entries(docs[p]) : ~Equal(u.sub, t)
  <2>1. StoredSubs' = StoredSubs \cup {u.sub}
    BY <1>1, <1>3, <1>6
  <2>2. ASSUME ~Book!Repeatable(u.sub), NEW t \in StoredSubs, Equal(u.sub, t) PROVE FALSE
    <3>1. PICK q \in DOMAIN docs : t \in Entries(docs[q])
      BY <1>3
    <3>2. q # p
      BY <2>2, <3>1, <1>6
    <3>3. /\ q \in DOMAIN docs' /\ p \in DOMAIN docs' /\ t \in Entries(docs'[q])
          /\ u.sub \in Entries(docs'[p]) /\ u.sub.topic = t.topic
      BY <2>2, <3>1, <3>2, <1>1, <1>6 DEF Equal
    <3> HIDE DEF u, p
    <3>4. p = q
      BY <3>3, <1>2, OneNode
    <3> QED BY <3>2, <3>4
  <2> QED BY <2>1, <2>2, <1>6
<1>7. CASE /\ p \in DOMAIN docs /\ u.op = "delete"
           /\ Entries(docs'[p]) = {t \in Entries(docs[p]) : ~Equal(u.sub, t)}
  <2>1. CASE \A t \in Entries(docs[p]) : ~Equal(u.sub, t)
    <3>1. Entries(docs'[p]) = Entries(docs[p])
      BY <2>1, <1>7
    <3> QED BY <3>1, <1>5, <1>7
  <2>2. ASSUME NEW s \in Entries(docs[p]), Equal(u.sub, s)
        PROVE  StoredSubs' = {t \in StoredSubs : ~Equal(u.sub, t)}
    <3>1. ASSUME NEW q \in DOMAIN docs, NEW t \in Entries(docs[q]), Equal(u.sub, t)
          PROVE  q = p
      <4>1. s.topic = t.topic
        BY <2>2, <3>1 DEF Equal
      <4> HIDE DEF u, p
      <4> QED BY <4>1, <1>2, <1>7, OneNode
    <3>2. DOMAIN docs' = DOMAIN docs
      BY <1>1, <1>7
    <3>3. \A q \in DOMAIN docs :
             Entries(docs'[q]) = {t \in Entries(docs[q]) : ~Equal(u.sub, t)}
      BY <1>1, <1>7, <3>1
    <3> HIDE DEF u, p
    <3> QED BY <3>2, <3>3, <1>3
  <2> QED BY <2>1, <2>2, <1>7
<1> QED BY <1>1, <1>4, <1>5, <1>6, <1>7 DEF Edits

LEMMA BookStep ==
  ASSUME Alone, IInv, IInv', LInv, SInv, SInv', EInv, EInv', BInv, BInv',
         AllFound, AllFound', [Next]_vars
  PROVE  [Book!Next]_(Book!vars)
<1>1. AllResolve
  BY DEF LInv, SInv
<1>2. Findable = StoredSubs /\ Findable' = StoredSubs'
  BY DEF AllFound
<1>3. docs' = docs => Findable' = Findable
  BY <1>2 DEF StoredSubs
<1>4. ASSUME NEW w \in Worker
      PROVE  /\ Leaving = IF th[w].op = "delete" THEN {th[w].sub} ELSE {}
             /\ Leaving' = IF th'[w].op = "delete" THEN {th'[w].sub} ELSE {}
  <2>1. \A v \in Worker : v = w
    BY DEF Alone
  <2> QED BY <2>1 DEF Leaving
<1>5. ASSUME NEW w \in Worker, Calm(w) PROVE UNCHANGED Book!vars
  BY <1>3, <1>4, <1>5 DEF Calm, Book!vars
<1>6. ASSUME docs' = docs, acked' = acked, Leaving' \subseteq Leaving PROVE Book!Next
  BY <1>3, <1>6 DEF Book!Next, Book!Finish
<1>7. ASSUME NEW w \in Worker, Fetch(w) \/ Store(w) \/ Insert(w) \/ RemoveTerminal(w)
                               \/ Match(w)
      PROVE  Calm(w)
  BY <1>1, <1>7, FetchBook, StoreBookStep, LinkBook, TerminalBook, NextLevelBook,
     RemoveBook, MatchBook, NoNilNode DEF Insert
<1>8. ASSUME NEW w \in Worker, ReplaceOne(w) PROVE [Book!Next]_(Book!vars)
  <2> DEFINE u == th[w]
  <2>1. acked' = acked /\ Leaving' = Leaving
    BY <1>4, <1>8, ReplaceBookStep
  <2>2. ThreadOK(u, asked) /\ ThreadBook(u, docs) /\ ThreadSerial(u, docs, heap, cache, acked)
    BY DEF IInv, BInv, SInv
  <2>3. CASE StoredSubs' = StoredSubs
    BY <2>1, <2>3, <1>2 DEF Book!vars
  <2>4. CASE /\ u.op = "insert" /\ StoredSubs' = StoredSubs \cup {u.sub}
             /\ Book!Repeatable(u.sub) \/ \A t \in StoredSubs : ~Equal(u.sub, t)
    <3>1. u.sub \in Requests
      BY <2>2, <2>4 DEF ThreadBook
    <3>2. Book!Repeatable(u.sub) \/ ~Book!Listed(u.sub)
      BY <2>4, <1>2 DEF Book!Listed, Book!Same, Equal
    <3>3. Book!Enter(u.sub)
      BY <2>1, <2>4, <3>2, <1>2 DEF Book!Enter
    <3> QED BY <3>1, <3>3 DEF Book!Next
  <2>5. CASE /\ u.op = "delete"
             /\ StoredSubs' = {t \in StoredSubs : ~Equal(u.sub, t)}
    <3>1. u.sub \in Requests /\ u.sub \in Leaving
      BY <2>2, <2>5, <1>4 DEF ThreadBook
    <3>2. \A t \in acked : ~Book!Same(u.sub, t)
      BY <2>2, <2>5 DEF ThreadSerial, DeleteSerial, Book!Same, Equal
    <3>3. Findable' = Book!Without(Findable, u.sub)
      BY <2>5, <1>2 DEF Book!Without, Book!Same, Equal
    <3>4. Book!Strike(u.sub)
      BY <2>1, <3>1, <3>2, <3>3 DEF Book!Strike
    <3> QED BY <3>1, <3>4 DEF Book!Next
  <2> QED BY <1>8, <2>3, <2>4, <2>5, ReplaceStored
<1>9. ASSUME NEW w \in Worker, Unsubscribe(w) PROVE Book!Next
  <2>1. PICK c \in Client, f \in Drops, q \in QoS :
           LET s == [client |-> c, topic |-> f, qos |-> q]
           IN  /\ Begin(w, "delete", s, IF HasHash(f) THEN Parent(f) ELSE f, "remove")
               /\ acked' = {t \in acked : ~Equal(s, t)}
    BY <1>9 DEF Unsubscribe
  <2> DEFINE s == [client |-> c, topic |-> f, qos |-> q]
             p == IF HasHash(f) THEN Parent(f) ELSE f
             t == [Idle EXCEPT !.pc = "lookup", !.op = "delete", !.sub = s, !.lvl = 1,
                               !.key = PathKey(p), !.ret = "remove"]
  <2>2. s \in Requests
    BY DEF Requests
  <2>3. /\ docs' = docs /\ acked' = {x \in acked : ~Equal(s, x)}
        /\ th' = [th EXCEPT ![w] = t] /\ th[w].pc = "idle"
    BY <2>1 DEF Begin, At
  <2> HIDE DEF s, p
  <2>4. t.op = "delete" /\ t.sub = s
    BY DEF Idle
  <2> HIDE DEF t
  <2>5. th'[w] = t /\ th[w].op # "delete"
    BY <2>3 DEF IInv, ThreadOK, DeleteOK, InLookup, InSave
  <2>6. Leaving' = Leaving \cup {s}
    BY <1>4, <2>4, <2>5
  <2>7. Book!Withdraw(s)
    BY <1>3, <2>3, <2>6 DEF Book!Withdraw, Book!Without, Book!Same, Equal
  <2> QED BY <2>2, <2>7 DEF Book!Next
<1>10. ASSUME NEW w \in Worker, Subscribe(w) \/ Publish(w) PROVE Book!Next
  <2>1. PICK op, s, p, ret : op # "delete" /\ Begin(w, op, s, p, ret) /\ acked' = acked
    BY <1>10 DEF Subscribe, Publish
  <2> DEFINE t == [Idle EXCEPT !.pc = "lookup", !.op = op, !.sub = s, !.lvl = 1,
                               !.key = PathKey(p), !.ret = ret]
  <2>2. docs' = docs /\ th' = [th EXCEPT ![w] = t]
    BY <2>1 DEF Begin
  <2>3. t.op = op
    BY DEF Idle
  <2> HIDE DEF t
  <2>4. th'[w].op # "delete"
    BY <2>1, <2>2, <2>3 DEF IInv
  <2> QED BY <2>1, <2>2, <2>4, <1>4, <1>6
<1>11. ASSUME NEW w \in Worker, Return(w) PROVE Book!Next
  <2> DEFINE u == th[w]
  <2>1. /\ th' = [th EXCEPT ![w] = Idle] /\ docs' = docs
        /\ \/ acked' = acked
           \/ /\ u.pc = "done" /\ u.op = "insert"
              /\ acked' = {t \in acked : ~Equal(u.sub, t)} \cup {u.sub}
    BY <1>11 DEF Return, At
  <2>2. th'[w] = Idle /\ Idle.op # "delete"
    BY <2>1 DEF IInv, Idle
  <2>3. Leaving' = {}
    BY <2>2, <1>4
  <2>4. CASE acked' = acked
    BY <2>1, <2>3, <2>4, <1>6
  <2>5. CASE /\ u.pc = "done" /\ u.op = "insert"
             /\ acked' = {t \in acked : ~Equal(u.sub, t)} \cup {u.sub}
    <3>1. /\ InsertOK(u, asked) /\ Given(u.sub, docs) /\ u.sub \in Requests
      BY <2>5 DEF IInv, ThreadOK, SInv, ThreadSerial, InsertSerial, BInv, ThreadBook
    <3> DEFINE f == u.sub.topic
    <3>2. f \in Path \ {<<>>}
      <4>1. Len(<<>>) = 0
        OBVIOUS
      <4> QED BY <3>1, <4>1 DEF InsertOK
    <3>3. PICK p \in DOMAIN docs : Holds(docs[p].hash, u.sub) \/ Holds(docs[p].terminals, u.sub)
      <4>1. CASE Last(f) = "#" /\ Len(f) > 1
        <5>1. /\ Chain(f, Len(f) - 1, docs) /\ Holds(docs[Parent(f)].hash, u.sub)
          BY <3>1, <4>1 DEF Given
        <5>2. Len(f) - 1 \in 1..(Len(f) - 1) /\ Parent(f) = Prefix(f, Len(f) - 1)
          BY <3>2, <4>1, LengthFacts
        <5> QED BY <5>1, <5>2 DEF Chain
      <4>2. CASE ~(Last(f) = "#" /\ Len(f) > 1)
        <5>1. Chain(f, Len(f), docs) /\ Holds(docs[f].terminals, u.sub)
          BY <3>1, <4>2 DEF Given
        <5> QED BY <3>2, <5>1, LengthFacts DEF Chain
      <4> QED BY <4>1, <4>2
    <3>4. Book!Listed(u.sub)
      BY <3>3, <1>2 DEF Holds, StoredSubs, Book!Listed, Book!Same, Equal
    <3>5. Leaving' = Leaving
      BY <2>3, <2>5, <1>4
    <3>6. acked' = Book!Without(acked, u.sub) \cup {u.sub}
      BY <2>5 DEF Book!Without, Book!Same, Equal
    <3>7. Book!Accept(u.sub)
      BY <1>3, <2>1, <3>4, <3>5, <3>6 DEF Book!Accept
    <3> QED BY <3>1, <3>7 DEF Book!Next
  <2> QED BY <2>1, <2>4, <2>5
<1>12. CASE Evict \/ RaceFault \/ Kill \/ Rest \/ UNCHANGED vars
  <2>1. docs' = docs /\ acked' = acked /\ th' = th
    BY <1>12 DEF Evict, RaceFault, Kill, Rest, vars
  <2>2. Leaving' = Leaving
    BY <2>1 DEF Leaving
  <2> QED BY <1>3, <2>1, <2>2 DEF Book!vars
<1>13. CASE Restart
  <2>1. docs' = docs /\ acked' = acked /\ th' = [w \in Worker |-> Idle]
    BY <1>13 DEF Restart
  <2>2. Leaving' = {}
    BY <2>1 DEF Leaving, Idle
  <2> QED BY <2>1, <2>2, <1>6
<1>14. ASSUME NEW w \in Worker, Run(w) PROVE [Book!Next]_(Book!vars)
  BY <1>5, <1>7, <1>8, <1>11, <1>14, NoFailure DEF Run, Save
<1> QED BY <1>9, <1>10, <1>12, <1>13, <1>14 DEF Next, Worker

(***************************************************************************)
(* With one goroutine and no failing database call, for all clients and    *)
(* filters and over any requests, restarts and evictions, the tree, its    *)
(* cache and the steps of its two calls implement the book.                *)
(***************************************************************************)
THEOREM ImplementsBookHolds ==
  ASSUME Alone
  PROVE  Spec => ImplementsBook
<1>1. Init => Book!Init
  <2> SUFFICES ASSUME Init PROVE Book!Init
    OBVIOUS
  <2>1. docs = <<>> /\ acked = {} /\ th = [w \in Worker |-> Idle]
    BY DEF Init
  <2>2. DOMAIN <<>> = {}
    OBVIOUS
  <2>3. StoredSubs = {}
    BY <2>1, <2>2 DEF StoredSubs
  <2>4. Leaving = {}
    BY <2>1 DEF Leaving, Idle
  <2> QED BY <2>1, <2>3, <2>4 DEF Book!Init, Findable
<1>2. IInv /\ IInv' /\ LInv /\ SInv /\ SInv' /\ BInv /\ [Next]_vars => BInv'
  BY BInvNext
<1>3. /\ IInv /\ IInv' /\ LInv /\ SInv /\ SInv' /\ EInv /\ EInv' /\ BInv /\ BInv'
      /\ AllFound /\ AllFound' /\ [Next]_vars
      => [Book!Next]_(Book!vars)
  BY BookStep
<1>4. Spec => [](IInv /\ LInv /\ SInv /\ EInv)
  BY EInvInvariant
<1> QED BY <1>1, <1>2, <1>3, <1>4, BInvInit, RootedFound, PTL
        DEF Spec, ImplementsBook, Book!Spec
=============================================================================
