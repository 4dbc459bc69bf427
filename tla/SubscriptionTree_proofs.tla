----------------------- MODULE SubscriptionTree_proofs -----------------------
(***************************************************************************)
(* Proofs about SubscriptionTree, for every set of clients, filters and    *)
(* goroutines and any number of requests, failures and restarts:           *)
(* MatchTopic reports nothing it should not, and links lead where their    *)
(* names say.  As long as no database call failed and no save was refused  *)
(* for a duplicate path, they lead to a stored document.                   *)
(***************************************************************************)
EXTENDS SubscriptionTreeProps, SequenceTheorems, TLAPS

(***************************************************************************)
(* What a node of path p holds, whether it is a document, an object in     *)
(* memory or an encoded copy on its way to the database.  A is the set of  *)
(* subscriptions asked for so far.                                         *)
(***************************************************************************)
SubsOK(bag, topic, A) ==
    \A s \in DOMAIN bag : s \in A /\ s.topic = topic /\ bag[s] \in Nat \ {0}

NodeOK(p, node, A) ==
    /\ DOMAIN node = {"n", "children", "plus", "hash", "terminals"}
    /\ node.n \in Nat
    /\ \A l \in DOMAIN node.children : /\ l \in Level /\ node.children[l] \in ID
                                       /\ node.children[l].path = Append(p, l)
    /\ node.plus \in ID
    /\ node.plus = NoID \/ node.plus.path = Append(p, "+")
    /\ SubsOK(node.hash, Append(p, "#"), A)
    /\ SubsOK(node.terminals, p, A)

UpdOK(p, upd, A) ==
    \/ /\ upd.field = "child" /\ upd.level \in Level /\ upd.id \in ID
       /\ upd.id.path = Append(p, upd.level)
    \/ upd.field = "plus" /\ upd.id \in ID /\ upd.id.path = Append(p, "+")
    \/ upd.field = "hash" /\ SubsOK(upd.subs, Append(p, "#"), A)
    \/ upd.field = "terminals" /\ SubsOK(upd.subs, p, A)

(***************************************************************************)
(* What a goroutine knows at each point of its call.  Label is where it    *)
(* goes on once the lookup it is in has returned.                          *)
(***************************************************************************)
InLookup == {"lookup", "find", "fill", "create"}
InSave   == {"store", "replace"}
Label(t) == IF t.pc \in InLookup THEN t.ret ELSE t.pc

InsertOK(t, A) ==
    LET f == t.sub.topic IN
    /\ t.sub \in A /\ f \in Path
    /\ t.lvl \in 1..Len(f)
    /\ t.key.path = Prefix(f, t.lvl)
    /\ t.pc \in {"lookup", "find", "create"} \/ t.cur # Nil
    /\ t.lvl > 1 => t.par # Nil /\ t.par.path = Prefix(f, t.lvl - 1)
    /\ t.pc \in InLookup \cup InSave \cup {"level", "leaf", "next", "done", "rejected"}
    /\ t.pc \in InLookup => t.ret = "level"
    /\ t.pc \in InSave => t.ret \in {"level", "leaf", "next", "done"}

DeleteOK(t) ==
    /\ t.pc \in (InLookup \ {"create"}) \cup InSave \cup {"remove", "done", "rejected"}
    /\ t.pc \in InLookup => t.ret = "remove"
    /\ t.pc \in InSave => t.ret = "done"

\* A node of path p may hold the subscriptions for the first n levels of t.
Fits(p, t, n) == n <= Len(t) /\ Len(p) = n /\ LevelwiseMatch(p, t)

MatchOK(t, A) ==
    LET topic == t.sub.topic IN
    /\ topic \in Seq(Level)
    /\ t.lvl \in 1..Len(topic)
    /\ \A r \in Elements(t.queue) : r # Nil => Fits(r.path, topic, t.lvl)
    /\ \A r \in Elements(t.next) : r # Nil => Fits(r.path, topic, t.lvl + 1)
    /\ t.next # <<>> => t.lvl < Len(topic)
    /\ \A s \in DOMAIN t.got : s \in A /\ Covers(s.topic, topic)
    /\ t.pc \in (InLookup \ {"create"})
                \cup {"root", "rootPlus", "visit", "child", "plus", "plusChild", "done"}
    /\ t.pc \in InLookup => t.ret \in {"root", "rootPlus", "child", "plusChild"}
    /\ Label(t) \in {"root", "rootPlus"} => t.lvl = 1 /\ Fits(t.key.path, topic, 1)
    /\ Label(t) \in {"child", "plusChild"} => Fits(t.key.path, topic, t.lvl + 1)
    /\ Label(t) \in {"child", "plus", "plusChild"} =>
           t.lvl < Len(topic) /\ t.queue # <<>> /\ t.queue[1] # Nil

ThreadOK(t, A) ==
    /\ DOMAIN t = DOMAIN Idle
    /\ t.queue \in Seq(Ref \cup {Nil}) /\ t.next \in Seq(Ref \cup {Nil})
    /\ t.key \in Key
    /\ t.cur = Nil \/ t.cur.path = t.key.path
    /\ t.pc \in {"lookup", "find", "create"} => t.cur = Nil
    /\ t.pc = "fill" => t.cur # Nil
    /\ t.pc \in InSave => t.tgt # Nil
    /\ t.pc = "store" => UpdOK(t.tgt.path, t.upd, A)
    /\ t.pc = "replace" => NodeOK(t.tgt.path, t.buf, A)
    /\ \/ t.op = "none" /\ t.pc = "idle"
       \/ t.op = "insert" /\ InsertOK(t, A)
       \/ t.op = "delete" /\ DeleteOK(t)
       \/ t.op = "match" /\ MatchOK(t, A)

MemoryOK(h, c, A) ==
    /\ \A r \in DOMAIN h : r \in Ref /\ NodeOK(r.path, h[r], A)
    /\ \A k \in DOMAIN c : k \in Key /\ c[k] \in DOMAIN h /\ c[k].path = k.path

DocsOK(d, A) == \A p \in DOMAIN d : p \in Path /\ NodeOK(p, d[p], A)

MintedOK(m) == \A p \in DOMAIN m : p \in Path /\ m[p] \in Nat

IInv ==
    /\ DOMAIN th = Worker
    /\ \A w \in Worker : /\ ThreadOK(th[w], asked)
                         /\ Held(th[w]) \subseteq DOMAIN heap \cup {Nil}
    /\ MemoryOK(heap, cache, asked)
    /\ DocsOK(docs, asked)
    /\ MintedOK(minted)
-----------------------------------------------------------------------------
(***************************************************************************)
(* Facts about paths, queues and bags.                                     *)
(***************************************************************************)
LEMMA PrefixFacts ==
  ASSUME NEW S, NEW f \in Seq(S), NEW i \in 1..Len(f)
  PROVE  /\ Prefix(f, i) \in Seq(S) /\ Len(Prefix(f, i)) = i
         /\ \A j \in 1..i : Prefix(f, i)[j] = f[j]
         /\ i > 1 => Prefix(f, i) = Append(Prefix(f, i - 1), f[i])
<1>1. /\ Prefix(f, i) \in Seq(S) /\ Len(Prefix(f, i)) = i
      /\ \A j \in 1..i : Prefix(f, i)[j] = f[j]
  BY SubSeqProperties DEF Prefix
<1>2. ASSUME i > 1 PROVE Prefix(f, i) = Append(Prefix(f, i - 1), f[i])
  <2>1. /\ Prefix(f, i - 1) \in Seq(S) /\ Len(Prefix(f, i - 1)) = i - 1
        /\ \A j \in 1..(i - 1) : Prefix(f, i - 1)[j] = f[j]
    BY <1>2, SubSeqProperties DEF Prefix
  <2> DEFINE q == Append(Prefix(f, i - 1), f[i])
  <2>2. f[i] \in S
    OBVIOUS
  <2>3. q \in Seq(S) /\ Len(q) = i /\ \A j \in 1..i : q[j] = f[j]
    BY <2>1, <2>2
  <2> HIDE DEF q
  <2>4. Prefix(f, i) = q
    BY <1>1, <2>3, SeqEqual
  <2> QED BY <2>4 DEF q
<1> QED BY <1>1, <1>2

LEMMA PrefixAll ==
  ASSUME NEW S, NEW f \in Seq(S), f # <<>>
  PROVE  Prefix(f, Len(f)) = f
<1>1. Len(f) \in 1..Len(f)
  BY EmptySeq
<1>2. /\ Prefix(f, Len(f)) \in Seq(S) /\ Len(Prefix(f, Len(f))) = Len(f)
      /\ \A j \in 1..Len(f) : Prefix(f, Len(f))[j] = f[j]
  BY <1>1, PrefixFacts
<1> QED BY <1>2, SeqEqual

LEMMA ParentFacts ==
  ASSUME NEW S, NEW f \in Seq(S), f # <<>>
  PROVE  /\ Parent(f) \in Seq(S) /\ f = Append(Parent(f), Last(f))
         /\ Len(f) > 1 => Parent(f) = Prefix(f, Len(f) - 1)
<1>1. Len(f) \in Nat \ {0}
  BY EmptySeq
<1>2. /\ Parent(f) \in Seq(S) /\ Len(Parent(f)) = Len(f) - 1
      /\ \A j \in 1..(Len(f) - 1) : Parent(f)[j] = f[j]
  <2> DEFINE n == Len(f) - 1
  <2>1. n \in Nat /\ \A i \in 1..n : f[i] \in S
    BY <1>1, ElementOfSeq
  <2> HIDE DEF n
  <2>2. /\ SubSeq(f, 1, n) \in Seq(S)
        /\ Len(SubSeq(f, 1, n)) = IF 1 <= n THEN n - 1 + 1 ELSE 0
        /\ \A i \in 1..(n - 1 + 1) : SubSeq(f, 1, n)[i] = f[1 + i - 1]
    BY <2>1, SubSeqProperties
  <2>3. /\ Len(SubSeq(f, 1, n)) = n
        /\ \A i \in 1..n : SubSeq(f, 1, n)[i] = f[i]
    BY <2>1, <2>2
  <2> QED BY <2>2, <2>3 DEF n, Parent
<1> DEFINE q == Append(Parent(f), Last(f))
<1>3. Last(f) \in S
  BY <1>1 DEF Last
<1>4. q \in Seq(S) /\ Len(q) = Len(f) /\ \A j \in 1..Len(f) : q[j] = f[j]
  BY <1>1, <1>2, <1>3 DEF Last
<1> HIDE DEF q
<1>5. f = q
  BY <1>4, SeqEqual
<1> QED BY <1>2, <1>5 DEF q, Parent, Prefix

LEMMA ParentAppend ==
  ASSUME NEW S, NEW p \in Seq(S), NEW l \in S
  PROVE  /\ Append(p, l) \in Seq(S) /\ Append(p, l) # <<>>
         /\ Len(Append(p, l)) = Len(p) + 1
         /\ Last(Append(p, l)) = l /\ Parent(Append(p, l)) = p
         /\ \A i \in 1..Len(p) : Append(p, l)[i] = p[i]
<1> DEFINE q == Append(p, l)
<1>1. /\ q \in Seq(S) /\ Len(q) = Len(p) + 1 /\ q[Len(p) + 1] = l
      /\ \A i \in 1..Len(p) : q[i] = p[i]
  BY AppendProperties
<1>2. q # <<>>
  BY <1>1, EmptySeq
<1>3. /\ Parent(q) \in Seq(S) /\ Len(Parent(q)) = Len(p)
      /\ \A i \in 1..Len(p) : Parent(q)[i] = q[i]
  BY <1>1, SubSeqProperties DEF Parent
<1>4. Parent(q) = p
  BY <1>1, <1>3, SeqEqual
<1> QED BY <1>1, <1>2, <1>4 DEF Last

LEMMA ElementsFacts ==
  ASSUME NEW S, NEW q \in Seq(S)
  PROVE  /\ Elements(q) \subseteq S
         /\ Elements(<<>>) = {}
         /\ q # <<>> => /\ q[1] \in Elements(q) /\ q[1] \in S
                        /\ Tail(q) \in Seq(S) /\ Elements(Tail(q)) \subseteq Elements(q)
         /\ \A x \in S : /\ Append(q, x) \in Seq(S)
                         /\ Elements(Append(q, x)) = Elements(q) \cup {x}
<1>1. Elements(q) \subseteq S /\ Elements(<<>>) = {}
  BY ElementOfSeq, EmptySeq DEF Elements
<1>2. ASSUME q # <<>>
      PROVE /\ q[1] \in Elements(q) /\ q[1] \in S
            /\ Tail(q) \in Seq(S) /\ Elements(Tail(q)) \subseteq Elements(q)
  <2>1. Len(q) \in Nat \ {0} /\ 1 \in 1..Len(q)
    BY <1>2, EmptySeq
  <2>2. /\ Tail(q) \in Seq(S) /\ Len(Tail(q)) = Len(q) - 1
        /\ \A i \in 1..(Len(q) - 1) : Tail(q)[i] = q[i + 1]
    BY <1>2, HeadTailProperties
  <2>3. \A i \in 1..(Len(q) - 1) : i + 1 \in 1..Len(q)
    BY <2>1
  <2>4. q[1] \in Elements(q) /\ q[1] \in S
    BY <2>1, ElementOfSeq DEF Elements
  <2>5. Elements(Tail(q)) \subseteq Elements(q)
    BY <2>2, <2>3 DEF Elements
  <2> QED BY <2>2, <2>4, <2>5
<1>3. ASSUME NEW x \in S
      PROVE  Append(q, x) \in Seq(S) /\ Elements(Append(q, x)) = Elements(q) \cup {x}
  <2>1. /\ Append(q, x) \in Seq(S) /\ Len(Append(q, x)) = Len(q) + 1
        /\ Append(q, x)[Len(q) + 1] = x
        /\ \A i \in 1..Len(q) : Append(q, x)[i] = q[i]
    BY AppendProperties
  <2>2. Len(q) \in Nat /\ 1..(Len(q) + 1) = 1..Len(q) \cup {Len(q) + 1}
    OBVIOUS
  <2> QED BY <2>1, <2>2 DEF Elements
<1> QED BY <1>1, <1>2, <1>3

LEMMA ConcatElements ==
  ASSUME NEW S, NEW q \in Seq(S), NEW x \in S
  PROVE  /\ <<x>> \in Seq(S) /\ Elements(<<x>>) = {x}
         /\ <<x>> \o q \in Seq(S) /\ Elements(<<x>> \o q) = {x} \cup Elements(q)
<1>1. <<x>> \in Seq(S) /\ Len(<<x>>) = 1 /\ <<x>>[1] = x
  OBVIOUS
<1>2. Elements(<<x>>) = {x}
  BY <1>1 DEF Elements
<1>3. /\ <<x>> \o q \in Seq(S) /\ Len(<<x>> \o q) = 1 + Len(q)
      /\ (<<x>> \o q)[1] = x
      /\ \A i \in 1..Len(q) : (<<x>> \o q)[i + 1] = q[i]
  BY <1>1
<1>4. \A j \in 1..(1 + Len(q)) : j = 1 \/ \E i \in 1..Len(q) : j = i + 1
  <2>1. \A j \in 1..(1 + Len(q)) : j = 1 \/ (j - 1 \in 1..Len(q) /\ j = (j - 1) + 1)
    OBVIOUS
  <2> QED BY <2>1
<1>5. \A i \in 1..Len(q) : i + 1 \in 1..(1 + Len(q))
  OBVIOUS
<1>6. 1 \in 1..(1 + Len(q))
  OBVIOUS
<1>7. Elements(<<x>> \o q) = {x} \cup Elements(q)
  <2> DEFINE r == <<x>> \o q
  <2>1. /\ Len(r) = 1 + Len(q) /\ r[1] = x
        /\ \A i \in 1..Len(q) : r[i + 1] = q[i]
    BY <1>3
  <2> HIDE DEF r
  <2>2. \A j \in 1..Len(r) : r[j] \in {x} \cup Elements(q)
    BY <2>1, <1>4 DEF Elements
  <2>3. x \in Elements(r)
    BY <2>1, <1>6 DEF Elements
  <2>4. \A i \in 1..Len(q) : q[i] \in Elements(r)
    BY <2>1, <1>5 DEF Elements
  <2>5. Elements(r) = {x} \cup Elements(q)
    BY <2>2, <2>3, <2>4 DEF Elements
  <2> QED BY <2>5 DEF r
<1> QED BY <1>1, <1>2, <1>3, <1>7

LEMMA BagFacts ==
  ASSUME NEW b, NEW c, NEW s
  PROVE  /\ DOMAIN (b (+) c) = DOMAIN b \cup DOMAIN c
         /\ DOMAIN With(b, s) = DOMAIN b \cup {s}
         /\ DOMAIN Except(b, s) \subseteq DOMAIN b
         /\ DOMAIN EmptyBag = {}
  BY DEF (+), With, SetToBag, Except, EmptyBag

LEMMA SubsFacts ==
  ASSUME NEW bag, NEW topic, NEW A, NEW s, SubsOK(bag, topic, A)
  PROVE  /\ s \in A /\ s.topic = topic => SubsOK(With(bag, s), topic, A)
         /\ SubsOK(Except(bag, s), topic, A)
<1>1. ASSUME s \in A, s.topic = topic PROVE SubsOK(With(bag, s), topic, A)
  <2> DEFINE c == SetToBag({s})
             d == With(bag, s)
  <2>1. DOMAIN c = {s} /\ c[s] = 1
    BY DEF SetToBag
  <2>2. d = [t \in DOMAIN bag \cup DOMAIN c |-> (IF t \in DOMAIN bag THEN bag[t] ELSE 0)
                                              + (IF t \in DOMAIN c THEN c[t] ELSE 0)]
    BY DEF With, (+)
  <2> HIDE DEF c, d
  <2>3. \A t \in DOMAIN d : t \in A /\ t.topic = topic /\ d[t] \in Nat \ {0}
    BY <1>1, <2>1, <2>2 DEF SubsOK
  <2>4. SubsOK(d, topic, A)
    BY <2>3 DEF SubsOK
  <2> QED BY <2>4 DEF d
<1>2. SubsOK(Except(bag, s), topic, A)
  BY DEF SubsOK, Except
<1> QED BY <1>1, <1>2

LEMMA KeyFacts ==
  /\ \A p \in Path : PathKey(p) \in Key /\ PathKey(p).path = p
  /\ \A id \in ID : IdKey(id) \in Key /\ IdKey(id).path = id.path
  /\ \A k \in Key : k.path \in Path
  /\ <<>> \in Path /\ NoID \in ID
<1>1. <<>> \in Path
  BY EmptySeq DEF Path
<1> QED BY <1>1 DEF PathKey, IdKey, Key, ID, NoID

LEMMA IdleOK ==
  ASSUME NEW A
  PROVE  ThreadOK(Idle, A)
<1>1. <<>> \in Seq(Ref \cup {Nil})
  BY EmptySeq
<1>2. PathKey(<<>>) \in Key
  BY KeyFacts
<1> QED BY <1>1, <1>2 DEF Idle, ThreadOK, InSave
-----------------------------------------------------------------------------
LEMMA Monotone ==
  ASSUME NEW A, NEW B, A \subseteq B
  PROVE  /\ \A p, node : NodeOK(p, node, A) => NodeOK(p, node, B)
         /\ \A t : ThreadOK(t, A) => ThreadOK(t, B)
<1>1. \A bag, topic : SubsOK(bag, topic, A) => SubsOK(bag, topic, B)
  BY DEF SubsOK
<1>2. \A p, node : NodeOK(p, node, A) => NodeOK(p, node, B)
  BY <1>1 DEF NodeOK
<1>3. \A p, upd : UpdOK(p, upd, A) => UpdOK(p, upd, B)
  BY <1>1 DEF UpdOK
<1>4. \A t : InsertOK(t, A) => InsertOK(t, B)
  BY DEF InsertOK
<1>5. \A t : MatchOK(t, A) => MatchOK(t, B)
  <2> TAKE t
  <2> SUFFICES ASSUME MatchOK(t, A) PROVE MatchOK(t, B)
    OBVIOUS
  <2>1. \A s \in DOMAIN t.got : s \in B /\ Covers(s.topic, t.sub.topic)
    BY DEF MatchOK
  <2> QED BY <2>1 DEF MatchOK
<1>6. \A t : ThreadOK(t, A) => ThreadOK(t, B)
  BY <1>2, <1>3, <1>4, <1>5 DEF ThreadOK
<1> QED BY <1>2, <1>6

(***************************************************************************)
(* A step of goroutine w that leaves it with the locals t and memory with  *)
(* the objects h, before the collector, preserves the invariant.           *)
(***************************************************************************)
LEMMA Step ==
  ASSUME IInv, NEW w \in Worker, NEW t, NEW h,
         asked \subseteq asked',
         th' = [th EXCEPT ![w] = t],
         heap' = [r \in DOMAIN h \cap Live' |-> h[r]],
         DOMAIN heap \subseteq DOMAIN h,
         ThreadOK(t, asked'), Held(t) \subseteq DOMAIN h \cup {Nil},
         MemoryOK(h, cache', asked'), DocsOK(docs', asked'),
         minted' = minted \/ MintedOK(minted')
  PROVE  IInv'
<1>1. DOMAIN th' = Worker /\ th'[w] = t /\ \A v \in Worker \ {w} : th'[v] = th[v]
  BY DEF IInv
<1>2. \A v \in Worker : /\ ThreadOK(th'[v], asked')
                       /\ Held(th'[v]) \subseteq DOMAIN h \cup {Nil}
  BY <1>1, Monotone DEF IInv
<1>3. \A v \in Worker : Held(th'[v]) \subseteq Live'
  BY DEF Live
<1>4. DOMAIN heap' = DOMAIN h \cap Live' /\ \A r \in DOMAIN heap' : heap'[r] = h[r]
  OBVIOUS
<1>5. \A v \in Worker : Held(th'[v]) \subseteq DOMAIN heap' \cup {Nil}
  BY <1>2, <1>3, <1>4
<1>6. \A k \in DOMAIN cache' : cache'[k] \in Live'
  BY DEF Live
<1>7. MemoryOK(heap', cache', asked')
  BY <1>4, <1>6 DEF MemoryOK
<1> QED BY <1>1, <1>2, <1>5, <1>7 DEF IInv

LEMMA LocalStep ==
  ASSUME IInv, NEW w \in Worker, NEW t, Local(w, t),
         ThreadOK(t, asked), Held(t) \subseteq DOMAIN heap \cup {Nil}
  PROVE  IInv'
<1>1. /\ asked' = asked /\ cache' = cache /\ docs' = docs /\ minted' = minted
      /\ th' = [th EXCEPT ![w] = t]
      /\ heap' = [r \in DOMAIN heap \cap Live' |-> heap[r]]
  BY DEF Local, Collect
<1>2. MemoryOK(heap, cache, asked) /\ DocsOK(docs, asked)
  BY DEF IInv
<1> QED BY <1>1, <1>2, Step

\* t is u with other values in the fields F only.
Differ(t, u, F) == /\ DOMAIN t = DOMAIN Idle
                   /\ \A x \in DOMAIN Idle \ F : t[x] = u[x]

LEMMA HitStep ==
  ASSUME IInv, NEW w \in Worker, CacheHit(w)
  PROVE  IInv'
<1> DEFINE u == th[w]
           b == u.stale \/ u.key.path \notin DOMAIN docs
                \/ heap[cache[u.key]] # docs[u.key.path]
           t == [u EXCEPT !.cur = cache[u.key], !.pc = u.ret, !.stale = b]
<1>1. u.pc = "lookup" /\ u.key \in DOMAIN cache /\ Local(w, t)
  BY DEF CacheHit, At
<1>2. ThreadOK(u, asked) /\ Held(u) \subseteq DOMAIN heap \cup {Nil}
  BY DEF IInv
<1>3. Differ(t, u, {"cur", "pc", "stale"}) /\ t.cur = cache[u.key] /\ t.pc = u.ret
  BY <1>2 DEF ThreadOK, Differ, Idle
<1> HIDE DEF t
<1>4. t.cur \in DOMAIN heap /\ t.cur.path = u.key.path /\ t.cur # Nil
  BY <1>1, <1>3, TreeAssumption DEF IInv, MemoryOK, Ref, Nil
<1>5. ThreadOK(t, asked)
  <2>1. CASE u.op = "insert"
    <3>1. InsertOK(t, asked) /\ t.pc \notin InSave
      BY <1>1, <1>2, <1>3, <1>4, <2>1 DEF Differ, Idle, ThreadOK, InsertOK, Label, InLookup, InSave
    <3> QED BY <1>1, <1>2, <1>3, <1>4, <2>1, <3>1 DEF Differ, Idle, ThreadOK, InsertOK, InLookup
  <2>2. CASE u.op = "delete"
    <3>1. DeleteOK(t) /\ t.pc \notin InSave
      BY <1>1, <1>2, <1>3, <1>4, <2>2 DEF Differ, Idle, ThreadOK, DeleteOK, Label, InLookup, InSave
    <3> QED BY <1>1, <1>2, <1>3, <1>4, <2>2, <3>1 DEF Differ, Idle, ThreadOK, DeleteOK, InLookup
  <2>3. CASE u.op = "match"
    <3>1. MatchOK(t, asked) /\ t.pc \notin InSave
      BY <1>1, <1>2, <1>3, <1>4, <2>3 DEF Differ, Idle, ThreadOK, MatchOK, Label, InLookup, InSave
    <3> QED BY <1>1, <1>2, <1>3, <1>4, <2>3, <3>1 DEF Differ, Idle, ThreadOK, MatchOK, InLookup
  <2> QED BY <1>1, <1>2, <2>1, <2>2, <2>3 DEF ThreadOK
<1>6. Held(t) \subseteq DOMAIN heap \cup {Nil}
  BY <1>2, <1>3, <1>4 DEF Differ, Idle, Held
<1> QED BY <1>1, <1>5, <1>6, LocalStep

LEMMA MissStep ==
  ASSUME IInv, NEW w \in Worker, CacheMiss(w)
  PROVE  IInv'
<1> DEFINE u == th[w]
           t == [u EXCEPT !.pc = "find"]
<1>1. u.pc = "lookup" /\ Local(w, t)
  BY DEF CacheMiss, At, Goto
<1>2. ThreadOK(u, asked) /\ Held(u) \subseteq DOMAIN heap \cup {Nil}
  BY DEF IInv
<1>3. Differ(t, u, {"pc"}) /\ t.pc = "find"
  BY <1>2 DEF ThreadOK, Differ, Idle
<1> HIDE DEF t
<1>4. ThreadOK(t, asked)
  <2>1. CASE u.op = "insert"
    <3>1. InsertOK(t, asked) /\ t.pc \notin InSave
      BY <1>1, <1>2, <1>3, <2>1 DEF Differ, Idle, ThreadOK, InsertOK, Label, InLookup, InSave
    <3> QED BY <1>1, <1>2, <1>3, <2>1, <3>1 DEF Differ, Idle, ThreadOK, InsertOK, InLookup
  <2>2. CASE u.op = "delete"
    <3>1. DeleteOK(t) /\ t.pc \notin InSave
      BY <1>1, <1>2, <1>3, <2>2 DEF Differ, Idle, ThreadOK, DeleteOK, Label, InLookup, InSave
    <3> QED BY <1>1, <1>2, <1>3, <2>2, <3>1 DEF Differ, Idle, ThreadOK, DeleteOK, InLookup
  <2>3. CASE u.op = "match"
    <3>1. MatchOK(t, asked) /\ t.pc \notin InSave
      BY <1>1, <1>2, <1>3, <2>3 DEF Differ, Idle, ThreadOK, MatchOK, Label, InLookup, InSave
    <3> QED BY <1>1, <1>2, <1>3, <2>3, <3>1 DEF Differ, Idle, ThreadOK, MatchOK, InLookup
  <2> QED BY <1>1, <1>2, <2>1, <2>2, <2>3 DEF ThreadOK
<1>5. Held(t) \subseteq DOMAIN heap \cup {Nil}
  BY <1>2, <1>3 DEF Differ, Idle, Held
<1> QED BY <1>1, <1>4, <1>5, LocalStep

LEMMA FindOneStep ==
  ASSUME IInv, NEW w \in Worker, FindOne(w)
  PROVE  IInv'
<1> DEFINE u == th[w]
           k == u.key
           r == NewRef(k.path)
           t == [u EXCEPT !.cur = r, !.pc = "fill"]
           h == [q \in DOMAIN heap \cup {r} |-> IF q = r THEN docs[k.path] ELSE heap[q]]
<1>1. /\ u.pc = "find" /\ Stored(k) /\ FreeSlots(k.path) # {}
      /\ cache' = cache /\ docs' = docs /\ asked' = asked /\ minted' = minted
      /\ heap' = [q \in DOMAIN h \cap Live' |-> h[q]]
  BY DEF FindOne, At, Allocate, Collect
<1>2. ThreadOK(u, asked) /\ Held(u) \subseteq DOMAIN heap \cup {Nil}
  BY DEF IInv
<1>3. th' = [th EXCEPT ![w] = t]
  BY DEF FindOne
<1>4. Differ(t, u, {"cur", "pc"}) /\ t.cur = r /\ t.pc = "fill"
  BY <1>2 DEF ThreadOK, Differ, Idle
<1>5. r \in Ref /\ r.path = k.path /\ r # Nil
  <2>1. k.path \in Path
    BY <1>2, KeyFacts DEF ThreadOK
  <2> QED BY <2>1, <1>1, TreeAssumption DEF NewRef, FreeSlots, Ref, Nil
<1>6. MemoryOK(h, cache, asked)
  <2>1. NodeOK(r.path, docs[k.path], asked)
    BY <1>1, <1>5 DEF IInv, DocsOK, Stored
  <2>2. \A q \in DOMAIN h : q \in Ref /\ NodeOK(q.path, h[q], asked)
    BY <2>1, <1>5 DEF IInv, MemoryOK
  <2> QED BY <2>2 DEF IInv, MemoryOK
<1>7. DOMAIN h = DOMAIN heap \cup {r}
  OBVIOUS
<1> HIDE DEF t, h
<1>8. ThreadOK(t, asked)
  <2>1. CASE u.op = "insert"
    <3>1. InsertOK(t, asked) /\ t.pc \notin InSave
      BY <1>1, <1>2, <1>4, <1>5, <2>1 DEF Differ, Idle, ThreadOK, InsertOK, Label, InLookup, InSave
    <3> QED BY <1>1, <1>2, <1>4, <1>5, <2>1, <3>1 DEF Differ, Idle, ThreadOK, InsertOK, InLookup
  <2>2. CASE u.op = "delete"
    <3>1. DeleteOK(t) /\ t.pc \notin InSave
      BY <1>1, <1>2, <1>4, <1>5, <2>2 DEF Differ, Idle, ThreadOK, DeleteOK, Label, InLookup, InSave
    <3> QED BY <1>1, <1>2, <1>4, <1>5, <2>2, <3>1 DEF Differ, Idle, ThreadOK, DeleteOK, InLookup
  <2>3. CASE u.op = "match"
    <3>1. MatchOK(t, asked) /\ t.pc \notin InSave
      BY <1>1, <1>2, <1>4, <1>5, <2>3 DEF Differ, Idle, ThreadOK, MatchOK, Label, InLookup, InSave
    <3> QED BY <1>1, <1>2, <1>4, <1>5, <2>3, <3>1 DEF Differ, Idle, ThreadOK, MatchOK, InLookup
  <2> QED BY <1>1, <1>2, <2>1, <2>2, <2>3 DEF ThreadOK
<1>9. Held(t) \subseteq DOMAIN h \cup {Nil}
  BY <1>2, <1>4, <1>7 DEF Differ, Idle, Held
<1>10. DocsOK(docs, asked)
  BY DEF IInv
<1> QED BY <1>1, <1>3, <1>6, <1>7, <1>8, <1>9, <1>10, Step

LEMMA FindNothingStep ==
  ASSUME IInv, NEW w \in Worker, FindNothing(w)
  PROVE  IInv'
<1> DEFINE u == th[w]
           l == IF u.op = "insert" THEN "create" ELSE u.ret
           t == [u EXCEPT !.pc = l]
<1>1. /\ u.pc = "find" /\ cache' = cache /\ docs' = docs /\ asked' = asked
      /\ minted' = minted
      /\ heap' = [q \in DOMAIN heap \cap Live' |-> heap[q]]
  BY DEF FindNothing, At, Collect
<1>2. ThreadOK(u, asked) /\ Held(u) \subseteq DOMAIN heap \cup {Nil}
  BY DEF IInv
<1>3. th' = [th EXCEPT ![w] = t]
  BY DEF FindNothing
<1>4. Differ(t, u, {"pc"}) /\ t.pc = l
  BY <1>2 DEF ThreadOK, Differ, Idle
<1> HIDE DEF t
<1>5. ThreadOK(t, asked)
  <2>1. CASE u.op = "insert"
    <3>1. InsertOK(t, asked) /\ t.pc \notin InSave
      BY <1>1, <1>2, <1>4, <2>1 DEF Differ, Idle, ThreadOK, InsertOK, Label, InLookup, InSave
    <3> QED BY <1>1, <1>2, <1>4, <2>1, <3>1 DEF Differ, Idle, ThreadOK, InsertOK, InLookup
  <2>2. CASE u.op = "delete"
    <3>1. DeleteOK(t) /\ t.pc \notin InSave
      BY <1>1, <1>2, <1>4, <2>2 DEF Differ, Idle, ThreadOK, DeleteOK, Label, InLookup, InSave
    <3> QED BY <1>1, <1>2, <1>4, <2>2, <3>1 DEF Differ, Idle, ThreadOK, DeleteOK, InLookup
  <2>3. CASE u.op = "match"
    <3>1. MatchOK(t, asked) /\ t.pc \notin InSave
      BY <1>1, <1>2, <1>4, <2>3 DEF Differ, Idle, ThreadOK, MatchOK, Label, InLookup, InSave
    <3> QED BY <1>1, <1>2, <1>4, <2>3, <3>1 DEF Differ, Idle, ThreadOK, MatchOK, InLookup
  <2> QED BY <1>1, <1>2, <2>1, <2>2, <2>3 DEF ThreadOK
<1>6. Held(t) \subseteq DOMAIN heap \cup {Nil}
  BY <1>2, <1>4 DEF Differ, Idle, Held
<1>7. MemoryOK(heap, cache, asked) /\ DocsOK(docs, asked)
  BY DEF IInv
<1> QED BY <1>1, <1>3, <1>5, <1>6, <1>7, Step

LEMMA FillStep ==
  ASSUME IInv, NEW w \in Worker, Fill(w)
  PROVE  IInv'
<1> DEFINE u == th[w]
           t == [u EXCEPT !.pc = u.ret]
<1>1. /\ u.pc = "fill" /\ docs' = docs /\ asked' = asked /\ minted' = minted
      /\ cache' = [j \in DOMAIN cache \cup {u.key} |->
                      IF j = u.key THEN u.cur ELSE cache[j]]
      /\ heap' = [q \in DOMAIN heap \cap Live' |-> heap[q]]
  BY DEF Fill, At, Collect
<1>2. ThreadOK(u, asked) /\ Held(u) \subseteq DOMAIN heap \cup {Nil}
  BY DEF IInv
<1>3. th' = [th EXCEPT ![w] = t]
  BY DEF Fill
<1>4. Differ(t, u, {"pc"}) /\ t.pc = u.ret
  BY <1>2 DEF ThreadOK, Differ, Idle
<1> HIDE DEF t
<1>5. ThreadOK(t, asked)
  <2>1. CASE u.op = "insert"
    <3>1. InsertOK(t, asked) /\ t.pc \notin InSave
      BY <1>1, <1>2, <1>4, <2>1 DEF Differ, Idle, ThreadOK, InsertOK, Label, InLookup, InSave
    <3> QED BY <1>1, <1>2, <1>4, <2>1, <3>1 DEF Differ, Idle, ThreadOK, InsertOK, InLookup
  <2>2. CASE u.op = "delete"
    <3>1. DeleteOK(t) /\ t.pc \notin InSave
      BY <1>1, <1>2, <1>4, <2>2 DEF Differ, Idle, ThreadOK, DeleteOK, Label, InLookup, InSave
    <3> QED BY <1>1, <1>2, <1>4, <2>2, <3>1 DEF Differ, Idle, ThreadOK, DeleteOK, InLookup
  <2>3. CASE u.op = "match"
    <3>1. MatchOK(t, asked) /\ t.pc \notin InSave
      BY <1>1, <1>2, <1>4, <2>3 DEF Differ, Idle, ThreadOK, MatchOK, Label, InLookup, InSave
    <3> QED BY <1>1, <1>2, <1>4, <2>3, <3>1 DEF Differ, Idle, ThreadOK, MatchOK, InLookup
  <2> QED BY <1>1, <1>2, <2>1, <2>2, <2>3 DEF ThreadOK
<1>6. Held(t) \subseteq DOMAIN heap \cup {Nil}
  BY <1>2, <1>4 DEF Differ, Idle, Held
<1>7. u.cur \in DOMAIN heap /\ u.cur.path = u.key.path /\ u.key \in Key
  BY <1>1, <1>2 DEF ThreadOK, Held
<1>8. MemoryOK(heap, cache', asked) /\ DocsOK(docs, asked)
  BY <1>1, <1>7 DEF IInv, MemoryOK
<1> QED BY <1>1, <1>3, <1>5, <1>6, <1>8, Step

LEMMA NewNodeOK ==
  ASSUME NEW p, NEW n \in Nat, NEW A
  PROVE  NodeOK(p, NewNode(n), A)
<1>1. DOMAIN EmptyBag = {}
  BY BagFacts, ZenonT(30)
<1>2. DOMAIN <<>> = {}
  OBVIOUS
<1> QED BY <1>1, <1>2, KeyFacts DEF NodeOK, NewNode, SubsOK

LEMMA CreateStep ==
  ASSUME IInv, NEW w \in Worker, Create(w)
  PROVE  IInv'
<1> DEFINE u == th[w]
           p == u.key.path
           n == IF p \in DOMAIN minted THEN minted[p] + 1 ELSE 1
           r == NewRef(p)
           t == [u EXCEPT !.cur = r, !.tgt = r, !.buf = NewNode(n), !.pc = "replace"]
           h == [q \in DOMAIN heap \cup {r} |-> IF q = r THEN NewNode(n) ELSE heap[q]]
<1>1. /\ u.pc = "create" /\ FreeSlots(p) # {} /\ docs' = docs /\ asked' = asked
      /\ minted' = [q \in DOMAIN minted \cup {p} |-> IF q = p THEN n ELSE minted[q]]
      /\ cache' = [k \in DOMAIN cache \ {PathKey(p)} |-> cache[k]]
      /\ heap' = [q \in DOMAIN h \cap Live' |-> h[q]]
  BY DEF Create, At, Allocate, Collect, Uncached
<1>2. ThreadOK(u, asked) /\ Held(u) \subseteq DOMAIN heap \cup {Nil}
  BY DEF IInv
<1>3. th' = [th EXCEPT ![w] = t]
  BY DEF Create
<1>4. /\ Differ(t, u, {"cur", "tgt", "buf", "pc"})
      /\ t.cur = r /\ t.tgt = r /\ t.buf = NewNode(n) /\ t.pc = "replace"
  BY <1>2 DEF ThreadOK, Differ, Idle
<1>5. r \in Ref /\ r.path = p /\ r # Nil
  <2>1. p \in Path
    BY <1>2, KeyFacts DEF ThreadOK
  <2> QED BY <2>1, <1>1, TreeAssumption DEF NewRef, FreeSlots, Ref, Nil
<1>6. n \in Nat
  BY DEF IInv, MintedOK
<1>7. p \in Path /\ MintedOK(minted')
  BY <1>1, <1>2, <1>6, KeyFacts DEF IInv, MintedOK, ThreadOK
<1>8. MemoryOK(h, cache', asked)
  <2>1. \A q \in DOMAIN h : q \in Ref /\ NodeOK(q.path, h[q], asked)
    BY <1>5, <1>6, NewNodeOK DEF IInv, MemoryOK
  <2> QED BY <2>1, <1>1 DEF IInv, MemoryOK
<1>9. DOMAIN h = DOMAIN heap \cup {r}
  OBVIOUS
<1>10. NodeOK(p, NewNode(n), asked)
  BY <1>6, NewNodeOK
<1> HIDE DEF t, h, n
<1>11. ThreadOK(t, asked)
  BY <1>1, <1>2, <1>4, <1>5, <1>10
     DEF Differ, Idle, ThreadOK, InsertOK, DeleteOK, MatchOK, Label, InLookup, InSave
<1>12. Held(t) \subseteq DOMAIN h \cup {Nil}
  BY <1>2, <1>4, <1>9 DEF Differ, Idle, Held
<1>13. DocsOK(docs, asked)
  BY DEF IInv
<1> QED BY <1>1, <1>3, <1>8, <1>9, <1>11, <1>12, <1>13, <1>7, Step

(***************************************************************************)
(* The assignment that save follows keeps the node well formed.            *)
(***************************************************************************)
LEMMA PutOK ==
  ASSUME NEW p, NEW node, NEW upd, NEW A, NodeOK(p, node, A), UpdOK(p, upd, A)
  PROVE  NodeOK(p, Put(node, upd), A)
<1> DEFINE m == Put(node, upd)
<1>1. CASE upd.field = "child"
  <2> DEFINE c == [l \in DOMAIN node.children \cup {upd.level} |->
                     IF l = upd.level THEN upd.id ELSE node.children[l]]
  <2>1. m = [node EXCEPT !.children = c]
    BY <1>1 DEF Put
  <2>2. /\ DOMAIN m = DOMAIN node /\ m.children = c /\ m.plus = node.plus /\ m.n = node.n
        /\ m.hash = node.hash /\ m.terminals = node.terminals
    BY <2>1 DEF NodeOK
  <2>3. upd.level \in Level /\ upd.id \in ID /\ upd.id.path = Append(p, upd.level)
    BY <1>1 DEF UpdOK
  <2>4. \A l \in DOMAIN c : l \in Level /\ c[l] \in ID /\ c[l].path = Append(p, l)
    BY <2>3 DEF NodeOK
  <2> HIDE DEF m, c
  <2>5. NodeOK(p, m, A)
    BY <2>2, <2>4 DEF NodeOK
  <2> QED BY <2>5 DEF m
<1>2. CASE upd.field = "plus"
  <2>1. m = [node EXCEPT !.plus = upd.id]
    BY <1>2 DEF Put
  <2> QED BY <2>1, <1>2 DEF NodeOK, UpdOK
<1>3. CASE upd.field = "hash"
  <2>1. m = [node EXCEPT !.hash = upd.subs]
    BY <1>3 DEF Put
  <2> QED BY <2>1, <1>3 DEF NodeOK, UpdOK
<1>4. CASE upd.field = "terminals"
  <2>1. m = [node EXCEPT !.terminals = upd.subs]
    BY <1>4 DEF Put
  <2> QED BY <2>1, <1>4 DEF NodeOK, UpdOK
<1> QED BY <1>1, <1>2, <1>3, <1>4 DEF UpdOK

LEMMA StoreStep ==
  ASSUME IInv, NEW w \in Worker, Store(w)
  PROVE  IInv'
<1> DEFINE u == th[w]
           r == u.tgt
           node == Put(heap[r], u.upd)
           t == [u EXCEPT !.pc = "replace", !.buf = node, !.upd = NoUpdate]
           h == [heap EXCEPT ![r] = node]
<1>1. /\ u.pc = "store" /\ docs' = docs /\ asked' = asked /\ minted' = minted
      /\ cache' = [k \in DOMAIN cache \ {PathKey(r.path)} |-> cache[k]]
      /\ heap' = [q \in DOMAIN h \cap Live' |-> h[q]]
  BY DEF Store, At, Collect, Uncached
<1>2. ThreadOK(u, asked) /\ Held(u) \subseteq DOMAIN heap \cup {Nil}
  BY DEF IInv
<1>3. th' = [th EXCEPT ![w] = t]
  BY DEF Store
<1>4. Differ(t, u, {"pc", "buf", "upd"}) /\ t.pc = "replace" /\ t.buf = node
  BY <1>2 DEF ThreadOK, Differ, Idle
<1>5. r \in DOMAIN heap /\ UpdOK(r.path, u.upd, asked) /\ NodeOK(r.path, heap[r], asked)
  BY <1>1, <1>2 DEF ThreadOK, Held, InSave, IInv, MemoryOK
<1>6. NodeOK(r.path, node, asked)
  BY <1>5, PutOK
<1> HIDE DEF node
<1>7. DOMAIN h = DOMAIN heap /\ h[r] = node /\ \A q \in DOMAIN heap \ {r} : h[q] = heap[q]
  BY <1>5
<1> HIDE DEF t, h
<1>8. MemoryOK(h, cache', asked)
  BY <1>1, <1>6, <1>7 DEF IInv, MemoryOK
<1>9. ThreadOK(t, asked)
  BY <1>1, <1>2, <1>4, <1>6
     DEF Differ, Idle, ThreadOK, InsertOK, DeleteOK, MatchOK, Label, InLookup, InSave
<1>10. Held(t) \subseteq DOMAIN h \cup {Nil}
  BY <1>2, <1>4, <1>7 DEF Differ, Idle, Held
<1>11. DocsOK(docs, asked)
  BY DEF IInv
<1> QED BY <1>1, <1>3, <1>7, <1>8, <1>9, <1>10, <1>11, Step

\* ReplaceOne, DuplicatePath and ReplaceFails: the call is over, one way or another.
LEMMA ReplaceStep ==
  ASSUME IInv, NEW w \in Worker, ReplaceOne(w) \/ DuplicatePath(w) \/ ReplaceFails(w)
  PROVE  IInv'
<1> DEFINE u == th[w]
           t == [u EXCEPT !.pc = u.ret, !.tgt = Nil, !.buf = NewNode(0)]
<1>1. /\ u.pc = "replace" /\ cache' = cache /\ asked' = asked /\ minted' = minted
      /\ docs' = docs \/ docs' = Written(u.tgt.path, u.buf)
      /\ heap' = [q \in DOMAIN heap \cap Live' |-> heap[q]]
  BY DEF ReplaceOne, DuplicatePath, ReplaceFails, Saved, At, Collect
<1>2. ThreadOK(u, asked) /\ Held(u) \subseteq DOMAIN heap \cup {Nil}
  BY DEF IInv
<1>3. th' = [th EXCEPT ![w] = t]
  BY DEF ReplaceOne, DuplicatePath, ReplaceFails, Saved
<1>4. Differ(t, u, {"pc", "tgt", "buf"}) /\ t.pc = u.ret /\ t.tgt = Nil
  BY <1>2 DEF ThreadOK, Differ, Idle
<1>5. DocsOK(docs', asked)
  <2>1. NodeOK(u.tgt.path, u.buf, asked) /\ u.tgt # Nil
    BY <1>1, <1>2 DEF ThreadOK, InSave
  <2>2. u.tgt.path \in Path
    BY <2>1, <1>2 DEF Held, IInv, MemoryOK, Ref
  <2> QED BY <2>1, <2>2, <1>1 DEF DocsOK, Written, IInv
<1> HIDE DEF t
<1>6. ThreadOK(t, asked)
  BY <1>1, <1>2, <1>4
     DEF Differ, Idle, ThreadOK, InsertOK, DeleteOK, MatchOK, Label, InLookup, InSave
<1>7. Held(t) \subseteq DOMAIN heap \cup {Nil}
  BY <1>2, <1>4 DEF Differ, Idle, Held
<1>8. MemoryOK(heap, cache, asked)
  BY DEF IInv
<1> QED BY <1>1, <1>3, <1>5, <1>6, <1>7, <1>8, Step
-----------------------------------------------------------------------------
LEMMA BeginStep ==
  ASSUME IInv, NEW w \in Worker, NEW op, NEW s, NEW p, NEW ret, Begin(w, op, s, p, ret),
         asked \subseteq asked', p \in Path,
         \/ op = "insert" /\ ret = "level" /\ s \in asked' /\ s.topic \in Path \ {<<>>}
            /\ p = Prefix(s.topic, 1)
         \/ op = "delete" /\ ret = "remove"
         \/ op = "match" /\ ret = "root" /\ s.topic \in Seq(Level) \ {<<>>}
            /\ p = Prefix(s.topic, 1)
  PROVE  IInv'
<1> DEFINE t == [Idle EXCEPT !.pc = "lookup", !.op = op, !.sub = s, !.lvl = 1,
                             !.key = PathKey(p), !.ret = ret]
<1>1. /\ th' = [th EXCEPT ![w] = t]
      /\ heap' = heap /\ cache' = cache /\ docs' = docs /\ minted' = minted
  BY DEF Begin
<1>2. /\ Differ(t, Idle, {"pc", "op", "sub", "lvl", "key", "ret"})
      /\ t.pc = "lookup" /\ t.op = op /\ t.sub = s /\ t.lvl = 1
      /\ t.key \in Key /\ t.key.path = p /\ t.ret = ret
  BY KeyFacts DEF Differ, Idle
<1>3. /\ t.cur = Nil /\ t.par = Nil /\ t.tgt = Nil /\ t.queue = <<>> /\ t.next = <<>>
      /\ DOMAIN t.got = {}
  BY <1>2, BagFacts DEF Differ, Idle
<1>4. op \in {"insert", "match"} => 1 \in 1..Len(s.topic)
  <2>1. Seq(Level) \subseteq Path
    BY DEF Path, Token
  <2>2. s.topic \in Path \ {<<>>} => Len(s.topic) \in Nat \ {0}
    BY EmptySeq DEF Path
  <2> QED BY <2>1, <2>2
<1>5. op = "match" => Fits(p, s.topic, 1)
  <2> SUFFICES ASSUME op = "match" PROVE Fits(p, s.topic, 1)
    OBVIOUS
  <2>1. s.topic \in Seq(Level) /\ 1 \in 1..Len(s.topic) /\ p = Prefix(s.topic, 1)
    BY <1>4
  <2>2. Len(p) = 1 /\ \A j \in 1..1 : p[j] = s.topic[j]
    BY <2>1, PrefixFacts
  <2> QED BY <2>1, <2>2 DEF Fits, LevelwiseMatch
<1>6. <<>> \in Seq(Ref \cup {Nil}) /\ Elements(<<>>) = {}
  BY ElementsFacts, EmptySeq
<1> HIDE DEF t
<1>7. op = "match" => MatchOK(t, asked')
  BY <1>2, <1>3, <1>4, <1>5, <1>6 DEF MatchOK, Label, InLookup, InSave
<1>8. op = "insert" => InsertOK(t, asked')
  BY <1>2, <1>3, <1>4 DEF InsertOK, InLookup, InSave
<1>9. op = "delete" => DeleteOK(t)
  BY <1>2 DEF DeleteOK, InLookup, InSave
<1>10. ThreadOK(t, asked')
  BY <1>2, <1>3, <1>6, <1>7, <1>8, <1>9 DEF Differ, ThreadOK, InSave
<1>11. Held(t) \subseteq {Nil}
  BY <1>3, <1>6 DEF Held
<1>12. DOMAIN th' = Worker /\ th'[w] = t /\ \A v \in Worker \ {w} : th'[v] = th[v]
  BY <1>1 DEF IInv
<1>13. \A v \in Worker : /\ ThreadOK(th'[v], asked')
                        /\ Held(th'[v]) \subseteq DOMAIN heap \cup {Nil}
  BY <1>10, <1>11, <1>12, Monotone DEF IInv
<1>14. MemoryOK(heap, cache, asked') /\ DocsOK(docs, asked')
  BY Monotone DEF IInv, MemoryOK, DocsOK
<1> QED BY <1>1, <1>12, <1>13, <1>14 DEF IInv

LEMMA SubscribeStep ==
  ASSUME IInv, NEW w \in Worker, Subscribe(w)
  PROVE  IInv'
<1>1. PICK c \in Client, f \in Filters, q \in QoS :
        LET s == [client |-> c, topic |-> f, qos |-> q] IN
        Begin(w, "insert", s, Prefix(f, 1), "level") /\ asked' = asked \cup {s}
  BY DEF Subscribe
<1> DEFINE s == [client |-> c, topic |-> f, qos |-> q]
<1>2. f \in Path \ {<<>>} /\ 1 \in 1..Len(f)
  BY TreeAssumption, EmptySeq DEF Path
<1>3. Prefix(f, 1) \in Path
  BY <1>2, PrefixFacts DEF Path
<1>4. s \in asked' /\ asked \subseteq asked' /\ s.topic = f
  BY <1>1
<1> QED BY <1>1, <1>2, <1>3, <1>4, BeginStep

LEMMA UnsubscribeStep ==
  ASSUME IInv, NEW w \in Worker, Unsubscribe(w)
  PROVE  IInv'
<1>1. PICK c \in Client, f \in Drops, q \in QoS :
        LET s == [client |-> c, topic |-> f, qos |-> q] IN
        /\ Begin(w, "delete", s, IF HasHash(f) THEN Parent(f) ELSE f, "remove")
        /\ asked' = asked
  BY DEF Unsubscribe
<1>2. f \in Path /\ Parent(f) \in Path
  BY TreeAssumption, ParentFacts DEF Path
<1> QED BY <1>1, <1>2, BeginStep

LEMMA PublishStep ==
  ASSUME IInv, NEW w \in Worker, Publish(w)
  PROVE  IInv'
<1>1. PICK t \in Publishes :
        Begin(w, "match", [NoSub EXCEPT !.topic = t], Prefix(t, 1), "root") /\ asked' = asked
  BY DEF Publish
<1>2. t \in Seq(Level) \ {<<>>} /\ 1 \in 1..Len(t)
  BY TreeAssumption, EmptySeq
<1>3. Prefix(t, 1) \in Path
  <2>1. Prefix(t, 1) \in Seq(Level)
    BY <1>2, PrefixFacts
  <2> QED BY <2>1 DEF Path, Token
<1>4. [NoSub EXCEPT !.topic = t].topic = t
  BY DEF NoSub
<1> QED BY <1>1, <1>2, <1>3, <1>4, BeginStep
-----------------------------------------------------------------------------
(***************************************************************************)
(* The three ways in which an insertion or a deletion goes on.             *)
(***************************************************************************)
LEMMA GotoStep ==
  ASSUME IInv, NEW w \in Worker, NEW l, Goto(w, l),
         \/ th[w].op = "insert" /\ th[w].pc \in {"level", "leaf", "next"}
            /\ l \in {"leaf", "next", "done", "rejected"}
         \/ th[w].op = "delete" /\ th[w].pc = "remove" /\ l = "rejected"
  PROVE  IInv'
<1> DEFINE u == th[w]
           t == [u EXCEPT !.pc = l]
<1>1. Local(w, t)
  BY DEF Goto
<1>2. ThreadOK(u, asked) /\ Held(u) \subseteq DOMAIN heap \cup {Nil}
  BY DEF IInv
<1>3. Differ(t, u, {"pc"}) /\ t.pc = l
  BY <1>2 DEF ThreadOK, Differ, Idle
<1> HIDE DEF t
<1>4. ThreadOK(t, asked)
  BY <1>2, <1>3 DEF Differ, Idle, ThreadOK, InsertOK, DeleteOK, InLookup, InSave
<1>5. Held(t) \subseteq DOMAIN heap \cup {Nil}
  BY <1>2, <1>3 DEF Differ, Idle, Held
<1> QED BY <1>1, <1>4, <1>5, LocalStep

LEMMA AssignStep ==
  ASSUME IInv, NEW w \in Worker, NEW r, NEW upd, NEW l, Assign(w, r, upd, l),
         r \in {th[w].cur, th[w].par}, r # Nil, UpdOK(r.path, upd, asked),
         \/ th[w].op = "insert" /\ th[w].pc \in {"level", "leaf"}
            /\ l \in {"leaf", "next", "done"}
         \/ th[w].op = "delete" /\ th[w].pc = "remove" /\ l = "done"
  PROVE  IInv'
<1> DEFINE u == th[w]
           t == [u EXCEPT !.tgt = r, !.upd = upd, !.pc = "store", !.ret = l]
<1>1. Local(w, t)
  BY DEF Assign
<1>2. ThreadOK(u, asked) /\ Held(u) \subseteq DOMAIN heap \cup {Nil}
  BY DEF IInv
<1>3. /\ Differ(t, u, {"tgt", "upd", "pc", "ret"})
      /\ t.tgt = r /\ t.upd = upd /\ t.pc = "store" /\ t.ret = l
  BY <1>2 DEF ThreadOK, Differ, Idle
<1> HIDE DEF t
<1>4. ThreadOK(t, asked)
  BY <1>2, <1>3 DEF Differ, Idle, ThreadOK, InsertOK, DeleteOK, InLookup, InSave
<1>5. Held(t) \subseteq DOMAIN heap \cup {Nil}
  BY <1>2, <1>3 DEF Differ, Idle, Held
<1> QED BY <1>1, <1>4, <1>5, LocalStep

\* What an insertion knows of its own nodes at the level it is at.
LEMMA InsertFacts ==
  ASSUME IInv, NEW w \in Worker, th[w].op = "insert",
         th[w].pc \in {"level", "leaf", "next"}
  PROVE  LET u == th[w]
             f == u.sub.topic
         IN  /\ f \in Path /\ u.lvl \in 1..Len(f) /\ f[u.lvl] \in Token /\ u.sub \in asked
             /\ u.cur \in DOMAIN heap /\ u.cur # Nil /\ u.cur.path = Prefix(f, u.lvl)
             /\ [path |-> u.cur.path, n |-> heap[u.cur].n] \in ID
             /\ u.lvl > 1 => /\ u.par \in DOMAIN heap /\ u.par # Nil
                             /\ u.cur.path = Append(u.par.path, f[u.lvl])
<1> DEFINE u == th[w]
           f == u.sub.topic
<1>1. ThreadOK(u, asked) /\ InsertOK(u, asked) /\ Held(u) \subseteq DOMAIN heap \cup {Nil}
  BY DEF IInv, ThreadOK
<1>2. f \in Path /\ u.lvl \in 1..Len(f) /\ u.sub \in asked
      /\ u.cur # Nil /\ u.cur.path = Prefix(f, u.lvl)
  BY <1>1 DEF ThreadOK, InsertOK
<1>3. f[u.lvl] \in Token
  BY <1>2, ElementOfSeq DEF Path
<1>4. u.cur \in DOMAIN heap
  BY <1>1, <1>2 DEF Held
<1>5. [path |-> u.cur.path, n |-> heap[u.cur].n] \in ID
  BY <1>4 DEF IInv, MemoryOK, NodeOK, Ref, ID
<1>6. u.lvl > 1 => /\ u.par \in DOMAIN heap /\ u.par # Nil
                   /\ u.cur.path = Append(u.par.path, f[u.lvl])
  <2>1. u.lvl > 1 => Prefix(f, u.lvl) = Append(Prefix(f, u.lvl - 1), f[u.lvl])
    BY <1>2, PrefixFacts DEF Path
  <2> QED BY <2>1, <1>1, <1>2 DEF InsertOK, Held
<1> QED BY <1>2, <1>3, <1>4, <1>6, <1>5

LEMMA LinkStep ==
  ASSUME IInv, NEW w \in Worker, LinkLevel(w)
  PROVE  IInv'
<1> DEFINE u == th[w]
           f == u.sub.topic
           i == u.lvl
           id == [path |-> u.cur.path, n |-> heap[u.cur].n]
<1>1. u.pc = "level" /\ u.op = "insert"
  <2>1. ThreadOK(u, asked)
    BY DEF IInv
  <2> QED BY <2>1 DEF LinkLevel, At, ThreadOK, DeleteOK, MatchOK, InLookup, InSave
<1>2. /\ f \in Path /\ i \in 1..Len(f) /\ f[i] \in Token /\ u.sub \in asked
      /\ u.cur.path = Prefix(f, i) /\ id \in ID
      /\ i > 1 => /\ u.par \in DOMAIN heap /\ u.par # Nil
                  /\ u.cur.path = Append(u.par.path, f[i])
  BY <1>1, InsertFacts
<1>3. CASE i = 1 /\ Goto(w, "leaf")
  BY <1>1, <1>3, GotoStep
<1>4. CASE i > 1 /\ f[i] = "+" /\ Assign(w, u.par, [field |-> "plus", id |-> id], "leaf")
  <2>1. UpdOK(u.par.path, [field |-> "plus", id |-> id], asked)
    BY <1>2, <1>4 DEF UpdOK
  <2> QED BY <2>1, <1>1, <1>2, <1>4, AssignStep
<1>5. CASE i > 1 /\ f[i] = "#" /\ i # Len(f) /\ Goto(w, "rejected")
  BY <1>1, <1>5, GotoStep
<1>6. CASE /\ i > 1 /\ f[i] = "#" /\ i = Len(f)
           /\ Assign(w, u.par, [field |-> "hash",
                                subs |-> With(heap[u.par].hash, u.sub)], "done")
  <2> DEFINE upd == [field |-> "hash", subs |-> With(heap[u.par].hash, u.sub)]
  <2>1. f # <<>> /\ Prefix(f, Len(f)) = f
    BY <1>2, PrefixAll, EmptySeq DEF Path
  <2>2. f = Append(u.par.path, "#")
    BY <2>1, <1>2, <1>6
  <2>3. NodeOK(u.par.path, heap[u.par], asked)
    BY <1>2, <1>6 DEF IInv, MemoryOK
  <2>4. SubsOK(With(heap[u.par].hash, u.sub), Append(u.par.path, "#"), asked)
    <3>1. SubsOK(heap[u.par].hash, Append(u.par.path, "#"), asked)
      BY <2>3 DEF NodeOK
    <3> QED BY <3>1, <2>2, <1>2, SubsFacts
  <2>5. UpdOK(u.par.path, upd, asked)
    BY <2>4 DEF UpdOK
  <2> QED BY <2>5, <1>1, <1>2, <1>6, AssignStep
<1>7. CASE i > 1 /\ f[i] \in Level \cap DOMAIN heap[u.par].children /\ Goto(w, "leaf")
  BY <1>1, <1>7, GotoStep
<1>8. CASE /\ i > 1 /\ f[i] \in Level \ DOMAIN heap[u.par].children
           /\ Assign(w, u.par, [field |-> "child", level |-> f[i], id |-> id], "leaf")
  <2>1. UpdOK(u.par.path, [field |-> "child", level |-> f[i], id |-> id], asked)
    BY <1>2, <1>8 DEF UpdOK
  <2> QED BY <2>1, <1>1, <1>2, <1>8, AssignStep
<1> QED BY <1>3, <1>4, <1>5, <1>6, <1>7, <1>8 DEF LinkLevel, Topic

LEMMA TerminalStep ==
  ASSUME IInv, NEW w \in Worker, AddTerminal(w)
  PROVE  IInv'
<1> DEFINE u == th[w]
           f == u.sub.topic
           upd == [field |-> "terminals", subs |-> With(heap[u.cur].terminals, u.sub)]
<1>1. u.pc = "leaf" /\ u.op = "insert"
  <2>1. ThreadOK(u, asked)
    BY DEF IInv
  <2> QED BY <2>1 DEF AddTerminal, At, ThreadOK, DeleteOK, MatchOK, InLookup, InSave
<1>2. /\ f \in Path /\ u.lvl \in 1..Len(f) /\ u.sub \in asked
      /\ u.cur \in DOMAIN heap /\ u.cur # Nil /\ u.cur.path = Prefix(f, u.lvl)
  BY <1>1, InsertFacts
<1>3. CASE Goto(w, "next")
  BY <1>1, <1>3, GotoStep
<1>4. CASE u.lvl = Len(f) /\ Assign(w, u.cur, upd, "next")
  <2>1. f # <<>> /\ Prefix(f, Len(f)) = f
    BY <1>2, PrefixAll, EmptySeq DEF Path
  <2>2. u.cur.path = f
    BY <2>1, <1>2, <1>4
  <2>3. NodeOK(f, heap[u.cur], asked)
    BY <2>2, <1>2 DEF IInv, MemoryOK
  <2>4. SubsOK(With(heap[u.cur].terminals, u.sub), f, asked)
    <3>1. SubsOK(heap[u.cur].terminals, f, asked)
      BY <2>3 DEF NodeOK
    <3> QED BY <3>1, <1>2, SubsFacts
  <2>5. UpdOK(u.cur.path, upd, asked)
    BY <2>2, <2>4 DEF UpdOK
  <2> QED BY <2>5, <1>1, <1>2, <1>4, AssignStep
<1> QED BY <1>3, <1>4 DEF AddTerminal, Topic

LEMMA NextLevelStep ==
  ASSUME IInv, NEW w \in Worker, NextLevel(w)
  PROVE  IInv'
<1> DEFINE u == th[w]
           f == u.sub.topic
           i == u.lvl + 1
           k == PathKey(Prefix(f, i))
           v == [u EXCEPT !.par = u.cur, !.lvl = i]
           t == [v EXCEPT !.key = k, !.cur = Nil, !.pc = "lookup", !.ret = "level"]
<1>1. u.pc = "next" /\ u.op = "insert" /\ ThreadOK(u, asked)
      /\ Held(u) \subseteq DOMAIN heap \cup {Nil}
  <2>1. ThreadOK(u, asked) /\ Held(u) \subseteq DOMAIN heap \cup {Nil}
    BY DEF IInv
  <2> QED BY <2>1 DEF NextLevel, At, ThreadOK, DeleteOK, MatchOK, InLookup, InSave
<1>2. CASE Goto(w, "done")
  BY <1>1, <1>2, GotoStep
<1>3. CASE i <= Len(f) /\ Local(w, t)
  <2>1. /\ f \in Path /\ u.lvl \in 1..Len(f) /\ u.sub \in asked
        /\ u.cur # Nil /\ u.cur.path = Prefix(f, u.lvl)
    BY <1>1, InsertFacts
  <2>2. i \in 1..Len(f) /\ i - 1 = u.lvl
    BY <2>1, <1>3
  <2>3. Prefix(f, i) \in Path
    BY <2>1, <2>2, PrefixFacts DEF Path
  <2>4. /\ Differ(t, u, {"par", "lvl", "key", "cur", "pc", "ret"})
        /\ t.par = u.cur /\ t.lvl = i /\ t.key = k /\ t.cur = Nil
        /\ t.pc = "lookup" /\ t.ret = "level"
    BY <1>1 DEF ThreadOK, Differ, Idle
  <2>5. k \in Key /\ k.path = Prefix(f, i)
    BY <2>3, KeyFacts
  <2> HIDE DEF t, k
  <2>6. ThreadOK(t, asked)
    BY <1>1, <2>1, <2>2, <2>5, <2>4 DEF Differ, Idle, ThreadOK, InsertOK, InLookup, InSave
  <2>7. Held(t) \subseteq DOMAIN heap \cup {Nil}
    BY <1>1, <2>4 DEF Differ, Idle, Held
  <2> QED BY <2>6, <2>7, <1>3, LocalStep
<1> QED BY <1>2, <1>3 DEF NextLevel, Topic, Get

LEMMA RemoveStep ==
  ASSUME IInv, NEW w \in Worker, RemoveTerminal(w)
  PROVE  IInv'
<1> DEFINE u == th[w]
           node == heap[u.cur]
<1>1. u.pc = "remove" /\ u.op = "delete" /\ Held(u) \subseteq DOMAIN heap \cup {Nil}
  <2>1. ThreadOK(u, asked) /\ Held(u) \subseteq DOMAIN heap \cup {Nil}
    BY DEF IInv
  <2> QED BY <2>1 DEF RemoveTerminal, At, ThreadOK, InsertOK, MatchOK, InLookup, InSave
<1>2. CASE Goto(w, "rejected")
  BY <1>1, <1>2, GotoStep
<1>3. ASSUME u.cur # Nil PROVE NodeOK(u.cur.path, node, asked)
  BY <1>1, <1>3 DEF Held, IInv, MemoryOK
<1>4. CASE u.cur # Nil /\ Assign(w, u.cur, [field |-> "hash",
                                subs |-> Except(node.hash, u.sub)], "done")
  <2>1. UpdOK(u.cur.path, [field |-> "hash", subs |-> Except(node.hash, u.sub)], asked)
    BY <1>3, <1>4, SubsFacts DEF UpdOK, NodeOK
  <2> QED BY <2>1, <1>1, <1>4, AssignStep
<1>5. CASE u.cur # Nil /\ Assign(w, u.cur, [field |-> "terminals",
                                subs |-> Except(node.terminals, u.sub)], "done")
  <2>1. UpdOK(u.cur.path, [field |-> "terminals",
                           subs |-> Except(node.terminals, u.sub)], asked)
    BY <1>3, <1>5, SubsFacts DEF UpdOK, NodeOK
  <2> QED BY <2>1, <1>1, <1>5, AssignStep
<1> QED BY <1>2, <1>4, <1>5 DEF RemoveTerminal
-----------------------------------------------------------------------------
(***************************************************************************)
(* Matching: a node that fits the first n levels leads to nodes that fit   *)
(* n + 1, and what it holds covers the topic.                              *)
(***************************************************************************)
LEMMA FitsDeeper ==
  ASSUME NEW topic \in Seq(Level), NEW p \in Path, NEW n \in Nat, Fits(p, topic, n),
         n < Len(topic), NEW l \in Token, l = "+" \/ l = topic[n + 1]
  PROVE  Append(p, l) \in Path /\ Fits(Append(p, l), topic, n + 1)
<1> DEFINE q == Append(p, l)
<1>1. /\ q \in Path /\ Len(q) = n + 1 /\ q[n + 1] = l
      /\ \A i \in 1..n : q[i] = p[i]
  BY AppendProperties DEF Path, Fits
<1>2. \A i \in 1..n : p[i] = "+" \/ p[i] = topic[i]
  BY DEF Fits, LevelwiseMatch
<1>3. \A i \in 1..(n + 1) : q[i] = "+" \/ q[i] = topic[i]
  <2>1. \A i \in 1..(n + 1) : i \in 1..n \/ i = n + 1
    OBVIOUS
  <2> HIDE DEF q
  <2> QED BY <2>1, <1>1, <1>2
<1> HIDE DEF q
<1>4. Fits(q, topic, n + 1)
  BY <1>1, <1>3 DEF Fits, LevelwiseMatch
<1> QED BY <1>1, <1>4 DEF q

LEMMA HashCovers ==
  ASSUME NEW topic \in Seq(Level), NEW p \in Path, NEW n \in Nat, Fits(p, topic, n),
         n < Len(topic)
  PROVE  Covers(Append(p, "#"), topic)
<1> DEFINE q == Append(p, "#")
<1>1. q # <<>> /\ Last(q) = "#" /\ Parent(q) = p /\ Len(q) = n + 1
  BY ParentAppend DEF Path, Token, Fits
<1> HIDE DEF q
<1>2. Covers(q, topic)
  BY <1>1 DEF Covers, Fits
<1> QED BY <1>2 DEF q

LEMMA TerminalCovers ==
  ASSUME NEW topic \in Seq(Level), topic # <<>>, NEW p \in Path, Fits(p, topic, Len(topic))
  PROVE  Covers(p, topic)
<1>1. Len(topic) \in 1..Len(topic) /\ Len(p) = Len(topic)
  BY EmptySeq DEF Fits
<1>2. Last(p) = "+" \/ Last(p) \in Level
  BY <1>1, ElementOfSeq DEF Fits, LevelwiseMatch, Last
<1>3. Last(p) # "#"
  BY <1>2, LevelAssumption
<1> QED BY <1>1, <1>3 DEF Covers, Fits

\* What a match knows at each of its labels.
LEMMA MatchFacts ==
  ASSUME IInv, NEW w \in Worker,
         th[w].pc \in {"root", "rootPlus", "visit", "child", "plus", "plusChild"}
  PROVE  LET u == th[w]
         IN  /\ u.op = "match" /\ ThreadOK(u, asked) /\ MatchOK(u, asked)
             /\ Held(u) \subseteq DOMAIN heap \cup {Nil}
             /\ u.queue \in Seq(Ref \cup {Nil}) /\ u.next \in Seq(Ref \cup {Nil})
             /\ u.cur \in Ref \cup {Nil} /\ Nil \in Ref \cup {Nil}
             /\ u.sub.topic \in Seq(Level) /\ u.sub.topic # <<>>
             /\ u.lvl \in 1..Len(u.sub.topic)
<1> DEFINE u == th[w]
<1>1. ThreadOK(u, asked) /\ Held(u) \subseteq DOMAIN heap \cup {Nil}
  BY DEF IInv
<1>2. u.op = "match" /\ MatchOK(u, asked)
  BY <1>1 DEF ThreadOK, InsertOK, DeleteOK, InLookup, InSave
<1>3. u.cur \in Ref \cup {Nil}
  BY <1>1 DEF Held, IInv, MemoryOK
<1> QED BY <1>1, <1>2, <1>3, EmptySeq DEF MatchOK, ThreadOK

\* The node at the front of the queue.
LEMMA FrontFacts ==
  ASSUME IInv, NEW w \in Worker,
         th[w].pc \in {"root", "rootPlus", "visit", "child", "plus", "plusChild"},
         th[w].queue # <<>>, Front(w) # Nil
  PROVE  LET r == Front(w) IN
         /\ r \in DOMAIN heap /\ r.path \in Path
         /\ Fits(r.path, th[w].sub.topic, th[w].lvl)
         /\ NodeOK(r.path, heap[r], asked)
<1>1. Front(w) \in Elements(th[w].queue)
  BY MatchFacts, ElementsFacts DEF Front
<1>2. Front(w) \in DOMAIN heap
  BY <1>1, MatchFacts DEF Held
<1>3. Fits(Front(w).path, th[w].sub.topic, th[w].lvl)
  BY <1>1, MatchFacts DEF MatchOK
<1> QED BY <1>2, <1>3 DEF IInv, MemoryOK, Ref

LEMMA RootStep ==
  ASSUME IInv, NEW w \in Worker, Root(w)
  PROVE  IInv'
<1> DEFINE u == th[w]
           k == PathKey(<<"+">>)
           q == Queued(u.cur)
           v == [u EXCEPT !.queue = q]
           t == [v EXCEPT !.key = k, !.cur = Nil, !.pc = "lookup", !.ret = "rootPlus"]
<1>1. u.pc = "root" /\ Local(w, t)
  BY DEF Root, At, Get
<1>2. /\ ThreadOK(u, asked) /\ MatchOK(u, asked) /\ u.op = "match"
      /\ Held(u) \subseteq DOMAIN heap \cup {Nil}
      /\ u.cur \in Ref \cup {Nil} /\ u.sub.topic \in Seq(Level) /\ u.lvl \in 1..Len(u.sub.topic)
  BY <1>1, MatchFacts
<1>3. /\ Differ(t, u, {"queue", "key", "cur", "pc", "ret"})
      /\ t.queue = q /\ t.key = k /\ t.cur = Nil
      /\ t.pc = "lookup" /\ t.ret = "rootPlus"
  BY <1>2 DEF ThreadOK, Differ, Idle
<1>4. q \in Seq(Ref \cup {Nil}) /\ Elements(q) \subseteq {u.cur} \ {Nil}
  <2>1. CASE u.cur = Nil
    BY <2>1, EmptySeq, ElementsFacts DEF Queued
  <2>2. CASE u.cur # Nil
    <3>1. q = <<u.cur>>
      BY <2>2 DEF Queued
    <3>2. <<>> \in Seq(Ref \cup {Nil})
      BY EmptySeq
    <3>3. <<u.cur>> \in Seq(Ref \cup {Nil}) /\ Elements(<<u.cur>>) = {u.cur}
      BY <3>2, <1>2, ConcatElements
    <3> QED BY <3>1, <3>3, <2>2
  <2> QED BY <2>1, <2>2
<1>5. u.lvl = 1 /\ Fits(u.key.path, u.sub.topic, 1) /\ (u.cur # Nil => u.cur.path = u.key.path)
  BY <1>1, <1>2 DEF MatchOK, Label, ThreadOK, InLookup
<1>6. k \in Key /\ k.path = <<"+">> /\ Fits(<<"+">>, u.sub.topic, 1)
  <2>1. <<"+">> \in Path /\ Len(<<"+">>) = 1 /\ <<"+">>[1] = "+"
    BY DEF Path, Token
  <2>2. k \in Key /\ k.path = <<"+">>
    BY <2>1, KeyFacts
  <2> QED BY <2>1, <2>2, <1>2 DEF Fits, LevelwiseMatch
<1> HIDE DEF t, q, k
<1>7. MatchOK(t, asked)
  <2>1. /\ t.sub = u.sub /\ t.lvl = u.lvl /\ t.next = u.next /\ t.got = u.got
        /\ t.queue = q /\ t.key.path = <<"+">> /\ t.pc = "lookup" /\ t.ret = "rootPlus"
    BY <1>3, <1>6 DEF Differ, Idle
  <2>2. \A r \in Elements(q) : r # Nil => Fits(r.path, u.sub.topic, 1)
    BY <1>4, <1>5
  <2> QED BY <2>1, <2>2, <1>2, <1>5, <1>6, SMTT(20) DEF MatchOK, Label, InLookup
<1>8. ThreadOK(t, asked)
  BY <1>2, <1>3, <1>4, <1>6, <1>7 DEF Differ, Idle, ThreadOK, InSave
<1>9. Held(t) \subseteq DOMAIN heap \cup {Nil}
  BY <1>2, <1>3, <1>4 DEF Differ, Idle, Held
<1> QED BY <1>1, <1>8, <1>9, LocalStep

LEMMA RootPlusStep ==
  ASSUME IInv, NEW w \in Worker, RootPlus(w)
  PROVE  IInv'
<1> DEFINE u == th[w]
           q == Queued(u.cur) \o u.queue
           t == [u EXCEPT !.queue = q, !.cur = Nil, !.pc = "visit"]
<1>1. u.pc = "rootPlus" /\ Local(w, t)
  BY DEF RootPlus, At
<1>2. /\ ThreadOK(u, asked) /\ MatchOK(u, asked) /\ u.op = "match"
      /\ Held(u) \subseteq DOMAIN heap \cup {Nil}
      /\ u.queue \in Seq(Ref \cup {Nil}) /\ u.cur \in Ref \cup {Nil}
  BY <1>1, MatchFacts
<1>3. /\ Differ(t, u, {"queue", "cur", "pc"})
      /\ t.queue = q /\ t.cur = Nil /\ t.pc = "visit"
  BY <1>2 DEF ThreadOK, Differ, Idle
<1>4. q \in Seq(Ref \cup {Nil}) /\ Elements(q) \subseteq ({u.cur} \ {Nil}) \cup Elements(u.queue)
  <2>1. CASE u.cur = Nil
    <3>1. q = u.queue
      BY <2>1, <1>2 DEF Queued
    <3> QED BY <3>1, <1>2
  <2>2. CASE u.cur # Nil
    BY <2>2, <1>2, ConcatElements DEF Queued
  <2> QED BY <2>1, <2>2
<1>5. u.lvl = 1 /\ Fits(u.key.path, u.sub.topic, 1) /\ (u.cur # Nil => u.cur.path = u.key.path)
  BY <1>1, <1>2 DEF MatchOK, Label, ThreadOK, InLookup
<1> HIDE DEF t, q
<1>6. MatchOK(t, asked)
  BY <1>2, <1>3, <1>4, <1>5 DEF Differ, Idle, MatchOK, Label, InLookup
<1>7. ThreadOK(t, asked)
  BY <1>2, <1>3, <1>4, <1>6 DEF Differ, Idle, ThreadOK, InSave
<1>8. Held(t) \subseteq DOMAIN heap \cup {Nil}
  BY <1>2, <1>3, <1>4 DEF Differ, Idle, Held
<1> QED BY <1>1, <1>7, <1>8, LocalStep

LEMMA VisitStep ==
  ASSUME IInv, NEW w \in Worker, VisitNode(w)
  PROVE  IInv'
<1> DEFINE u == th[w]
           topic == u.sub.topic
           r == Front(w)
           l == topic[u.lvl + 1]
           g == u.got (+) heap[r].hash
           v == [u EXCEPT !.got = g]
           k == IdKey(heap[r].children[l])
           t1 == [v EXCEPT !.key = k, !.cur = Nil, !.pc = "lookup", !.ret = "child"]
           t2 == [v EXCEPT !.pc = "plus"]
<1>1. u.pc = "visit" /\ u.lvl < Len(topic) /\ u.queue # <<>> /\ r # Nil
  BY DEF VisitNode, At, Deeper, Topic
<1>2. /\ ThreadOK(u, asked) /\ MatchOK(u, asked) /\ u.op = "match"
      /\ Held(u) \subseteq DOMAIN heap \cup {Nil}
      /\ topic \in Seq(Level) /\ u.lvl \in 1..Len(topic)
  BY <1>1, MatchFacts
<1>3. r.path \in Path /\ Fits(r.path, topic, u.lvl) /\ NodeOK(r.path, heap[r], asked)
  BY <1>1, FrontFacts
<1>4. \A s \in DOMAIN g : s \in asked /\ Covers(s.topic, topic)
  <2>1. Covers(Append(r.path, "#"), topic)
    BY <1>1, <1>2, <1>3, HashCovers
  <2>2. \A s \in DOMAIN heap[r].hash : s \in asked /\ Covers(s.topic, topic)
    BY <2>1, <1>3 DEF NodeOK, SubsOK
  <2>3. DOMAIN g = DOMAIN u.got \cup DOMAIN heap[r].hash
    BY BagFacts, ZenonT(30)
  <2> QED BY <2>2, <2>3, <1>2 DEF MatchOK
<1>5. r = u.queue[1]
  BY DEF Front
<1>6. CASE l \in DOMAIN heap[r].children /\ Local(w, t1)
  <2>1. /\ Differ(t1, u, {"got", "key", "cur", "pc", "ret"})
        /\ t1.got = g /\ t1.key = k /\ t1.cur = Nil /\ t1.pc = "lookup" /\ t1.ret = "child"
    BY <1>2 DEF ThreadOK, Differ, Idle
  <2>2. k \in Key /\ k.path = Append(r.path, l) /\ l \in Token
    BY <1>3, <1>6, KeyFacts DEF NodeOK, Token
  <2>3. k.path \in Path /\ Fits(k.path, topic, u.lvl + 1)
    <3>1. u.lvl \in Nat /\ l = topic[u.lvl + 1]
      BY <1>2
    <3> HIDE DEF k, l, r, topic
    <3>2. Append(r.path, l) \in Path /\ Fits(Append(r.path, l), topic, u.lvl + 1)
      BY <3>1, <2>2, <1>1, <1>2, <1>3, FitsDeeper
    <3> QED BY <3>2, <2>2
  <2> HIDE DEF t1, g, k, r
  <2>4. MatchOK(t1, asked)
    BY <2>1, <2>3, <1>1, <1>2, <1>4, <1>5 DEF Differ, Idle, MatchOK, Label, InLookup
  <2>5. ThreadOK(t1, asked)
    BY <2>1, <2>2, <2>4, <1>2 DEF Differ, Idle, ThreadOK, InSave
  <2>6. Held(t1) \subseteq DOMAIN heap \cup {Nil}
    BY <2>1, <1>2 DEF Differ, Idle, Held
  <2> QED BY <2>5, <2>6, <1>6, LocalStep
<1>7. CASE Local(w, t2)
  <2>1. Differ(t2, u, {"got", "pc"}) /\ t2.got = g /\ t2.pc = "plus"
    BY <1>2 DEF ThreadOK, Differ, Idle
  <2> HIDE DEF t2, g, r
  <2>2. MatchOK(t2, asked)
    BY <2>1, <1>1, <1>2, <1>4, <1>5 DEF Differ, Idle, MatchOK, Label, InLookup
  <2>3. ThreadOK(t2, asked)
    BY <2>1, <2>2, <1>1, <1>2 DEF Differ, Idle, ThreadOK, InSave
  <2>4. Held(t2) \subseteq DOMAIN heap \cup {Nil}
    BY <2>1, <1>2 DEF Differ, Idle, Held
  <2> QED BY <2>3, <2>4, <1>7, LocalStep
<1> QED BY <1>6, <1>7 DEF VisitNode, Topic, Get

LEMMA ChildStep ==
  ASSUME IInv, NEW w \in Worker, ExactChild(w) \/ PlusChild(w)
  PROVE  IInv'
<1> DEFINE u == th[w]
           n == Append(u.next, u.cur)
           t1 == [u EXCEPT !.next = n, !.cur = Nil, !.pc = "plus"]
           t2 == [u EXCEPT !.next = n, !.cur = Nil, !.queue = Tail(u.queue), !.pc = "visit"]
<1>1. \/ u.pc = "child" /\ Local(w, t1)
      \/ u.pc = "plusChild" /\ Local(w, t2)
  BY DEF ExactChild, PlusChild, At
<1>2. /\ ThreadOK(u, asked) /\ MatchOK(u, asked) /\ u.op = "match"
      /\ Held(u) \subseteq DOMAIN heap \cup {Nil}
      /\ u.queue \in Seq(Ref \cup {Nil}) /\ u.next \in Seq(Ref \cup {Nil})
      /\ u.cur \in Ref \cup {Nil}
  BY <1>1, MatchFacts
<1>3. /\ u.lvl < Len(u.sub.topic) /\ u.queue # <<>> /\ u.queue[1] # Nil
      /\ Fits(u.key.path, u.sub.topic, u.lvl + 1)
      /\ u.cur # Nil => u.cur.path = u.key.path
  BY <1>1, <1>2 DEF MatchOK, Label, ThreadOK, InLookup
<1>4. n \in Seq(Ref \cup {Nil}) /\ Elements(n) = Elements(u.next) \cup {u.cur}
  BY <1>2, ElementsFacts
<1>5. Tail(u.queue) \in Seq(Ref \cup {Nil}) /\ Elements(Tail(u.queue)) \subseteq Elements(u.queue)
  BY <1>2, <1>3, ElementsFacts
<1>6. \A r \in Elements(n) : r # Nil => Fits(r.path, u.sub.topic, u.lvl + 1)
  BY <1>2, <1>3, <1>4 DEF MatchOK
<1>7. CASE u.pc = "child" /\ Local(w, t1)
  <2>1. /\ Differ(t1, u, {"next", "cur", "pc"})
        /\ t1.next = n /\ t1.cur = Nil /\ t1.pc = "plus"
    BY <1>2 DEF ThreadOK, Differ, Idle
  <2> HIDE DEF t1, n
  <2>2. MatchOK(t1, asked)
    BY <2>1, <1>2, <1>3, <1>6 DEF Differ, Idle, MatchOK, Label, InLookup
  <2>3. ThreadOK(t1, asked)
    BY <2>1, <2>2, <1>2, <1>4 DEF Differ, Idle, ThreadOK, InSave
  <2>4. Held(t1) \subseteq DOMAIN heap \cup {Nil}
    BY <2>1, <1>2, <1>4 DEF Differ, Idle, Held
  <2> QED BY <2>3, <2>4, <1>7, LocalStep
<1>8. CASE u.pc = "plusChild" /\ Local(w, t2)
  <2>1. /\ Differ(t2, u, {"next", "cur", "queue", "pc"})
        /\ t2.next = n /\ t2.cur = Nil /\ t2.queue = Tail(u.queue) /\ t2.pc = "visit"
    BY <1>2 DEF ThreadOK, Differ, Idle
  <2> HIDE DEF t2, n
  <2>2. MatchOK(t2, asked)
    BY <2>1, <1>2, <1>3, <1>5, <1>6 DEF Differ, Idle, MatchOK, Label, InLookup
  <2>3. ThreadOK(t2, asked)
    BY <2>1, <2>2, <1>2, <1>4, <1>5 DEF Differ, Idle, ThreadOK, InSave
  <2>4. Held(t2) \subseteq DOMAIN heap \cup {Nil}
    BY <2>1, <1>2, <1>4, <1>5 DEF Differ, Idle, Held
  <2> QED BY <2>3, <2>4, <1>8, LocalStep
<1> QED BY <1>1, <1>7, <1>8

LEMMA VisitPlusStep ==
  ASSUME IInv, NEW w \in Worker, VisitPlus(w)
  PROVE  IInv'
<1> DEFINE u == th[w]
           topic == u.sub.topic
           r == Front(w)
           k == IdKey(heap[r].plus)
           t1 == [u EXCEPT !.key = k, !.cur = Nil, !.pc = "lookup", !.ret = "plusChild"]
           t2 == [u EXCEPT !.queue = Tail(u.queue), !.pc = "visit"]
<1>1. u.pc = "plus"
  BY DEF VisitPlus, At
<1>2. /\ ThreadOK(u, asked) /\ MatchOK(u, asked) /\ u.op = "match"
      /\ Held(u) \subseteq DOMAIN heap \cup {Nil}
      /\ u.queue \in Seq(Ref \cup {Nil}) /\ topic \in Seq(Level) /\ u.lvl \in 1..Len(topic)
  BY <1>1, MatchFacts
<1>3. u.lvl < Len(topic) /\ u.queue # <<>> /\ u.queue[1] # Nil /\ r = u.queue[1]
  BY <1>1, <1>2 DEF MatchOK, Label, InLookup, Front
<1>4. r.path \in Path /\ Fits(r.path, topic, u.lvl) /\ NodeOK(r.path, heap[r], asked)
  BY <1>1, <1>3, FrontFacts
<1>5. CASE heap[r].plus # NoID /\ Local(w, t1)
  <2>1. /\ Differ(t1, u, {"key", "cur", "pc", "ret"})
        /\ t1.key = k /\ t1.cur = Nil /\ t1.pc = "lookup" /\ t1.ret = "plusChild"
    BY <1>2 DEF ThreadOK, Differ, Idle
  <2>2. k \in Key /\ k.path = Append(r.path, "+") /\ "+" \in Token
    BY <1>4, <1>5, KeyFacts DEF NodeOK, Token
  <2> HIDE DEF t1, k, r
  <2>3. k.path \in Path /\ Fits(k.path, topic, u.lvl + 1)
    <3>1. u.lvl \in Nat /\ "+" \in {"+", topic[u.lvl + 1]}
      BY <1>2
    <3> HIDE DEF topic
    <3>2. Append(r.path, "+") \in Path /\ Fits(Append(r.path, "+"), topic, u.lvl + 1)
      BY <3>1, <2>2, <1>2, <1>3, <1>4, FitsDeeper
    <3> QED BY <3>2, <2>2
  <2>4. MatchOK(t1, asked)
    BY <2>1, <2>3, <1>2, <1>3 DEF Differ, Idle, MatchOK, Label, InLookup
  <2>5. ThreadOK(t1, asked)
    BY <2>1, <2>2, <2>4, <1>2 DEF Differ, Idle, ThreadOK, InSave
  <2>6. Held(t1) \subseteq DOMAIN heap \cup {Nil}
    BY <2>1, <1>2 DEF Differ, Idle, Held
  <2> QED BY <2>5, <2>6, <1>5, LocalStep
<1>6. CASE Local(w, t2)
  <2>1. Differ(t2, u, {"queue", "pc"}) /\ t2.queue = Tail(u.queue) /\ t2.pc = "visit"
    BY <1>2 DEF ThreadOK, Differ, Idle
  <2>2. Tail(u.queue) \in Seq(Ref \cup {Nil}) /\ Elements(Tail(u.queue)) \subseteq Elements(u.queue)
    BY <1>2, <1>3, ElementsFacts
  <2> HIDE DEF t2
  <2>3. MatchOK(t2, asked)
    BY <2>1, <2>2, <1>2 DEF Differ, Idle, MatchOK, Label, InLookup
  <2>4. ThreadOK(t2, asked)
    BY <2>1, <2>2, <2>3, <1>1, <1>2 DEF Differ, Idle, ThreadOK, InSave
  <2>5. Held(t2) \subseteq DOMAIN heap \cup {Nil}
    BY <2>1, <2>2, <1>2 DEF Differ, Idle, Held
  <2> QED BY <2>4, <2>5, <1>6, LocalStep
<1> QED BY <1>5, <1>6 DEF VisitPlus, Get

LEMMA DescendStep ==
  ASSUME IInv, NEW w \in Worker, Descend(w)
  PROVE  IInv'
<1> DEFINE u == th[w]
           l == IF u.next = <<>> THEN "done" ELSE "visit"
           t == [u EXCEPT !.queue = u.next, !.next = <<>>, !.lvl = u.lvl + 1, !.pc = l]
<1>1. u.pc = "visit" /\ u.lvl < Len(u.sub.topic) /\ u.queue = <<>> /\ Local(w, t)
  BY DEF Descend, At, Deeper, Topic
<1>2. /\ ThreadOK(u, asked) /\ MatchOK(u, asked) /\ u.op = "match"
      /\ Held(u) \subseteq DOMAIN heap \cup {Nil}
      /\ u.next \in Seq(Ref \cup {Nil}) /\ u.lvl \in 1..Len(u.sub.topic)
  BY <1>1, MatchFacts
<1>3. /\ Differ(t, u, {"queue", "next", "lvl", "pc"})
      /\ t.queue = u.next /\ t.next = <<>> /\ t.lvl = u.lvl + 1 /\ t.pc = l
  BY <1>2 DEF ThreadOK, Differ, Idle
<1>4. <<>> \in Seq(Ref \cup {Nil}) /\ Elements(<<>>) = {}
  BY <1>2, ElementsFacts, EmptySeq
<1>5. u.lvl + 1 \in 1..Len(u.sub.topic)
  BY <1>1, <1>2
<1> HIDE DEF t
<1>6. MatchOK(t, asked)
  BY <1>2, <1>3, <1>4, <1>5 DEF Differ, Idle, MatchOK, Label, InLookup
<1>7. ThreadOK(t, asked)
  BY <1>2, <1>3, <1>4, <1>6 DEF Differ, Idle, ThreadOK, InSave
<1>8. Held(t) \subseteq DOMAIN heap \cup {Nil}
  BY <1>2, <1>3, <1>4 DEF Differ, Idle, Held
<1> QED BY <1>1, <1>7, <1>8, LocalStep

LEMMA CollectStep ==
  ASSUME IInv, NEW w \in Worker, CollectTerminals(w)
  PROVE  IInv'
<1> DEFINE u == th[w]
           topic == u.sub.topic
           r == Front(w)
           g == u.got (+) heap[r].terminals
           t1 == [u EXCEPT !.pc = "done"]
           t2 == [u EXCEPT !.got = g, !.queue = Tail(u.queue)]
<1>1. u.pc = "visit" /\ ~(u.lvl < Len(topic))
  BY DEF CollectTerminals, At, Deeper, Topic
<1>2. /\ ThreadOK(u, asked) /\ MatchOK(u, asked) /\ u.op = "match"
      /\ Held(u) \subseteq DOMAIN heap \cup {Nil} /\ u.queue \in Seq(Ref \cup {Nil})
      /\ topic \in Seq(Level) /\ topic # <<>> /\ u.lvl \in 1..Len(topic)
  BY <1>1, MatchFacts
<1>3. CASE Local(w, t1)
  <2>1. Differ(t1, u, {"pc"}) /\ t1.pc = "done"
    BY <1>2 DEF ThreadOK, Differ, Idle
  <2> HIDE DEF t1
  <2>2. MatchOK(t1, asked)
    BY <2>1, <1>2 DEF Differ, Idle, MatchOK, Label, InLookup
  <2>3. ThreadOK(t1, asked)
    BY <2>1, <2>2, <1>1, <1>2 DEF Differ, Idle, ThreadOK, InSave
  <2>4. Held(t1) \subseteq DOMAIN heap \cup {Nil}
    BY <2>1, <1>2 DEF Differ, Idle, Held
  <2> QED BY <2>3, <2>4, <1>3, LocalStep
<1>4. CASE u.queue # <<>> /\ r # Nil /\ Local(w, t2)
  <2>1. r.path \in Path /\ Fits(r.path, topic, u.lvl) /\ NodeOK(r.path, heap[r], asked)
    BY <1>1, <1>4, FrontFacts
  <2>2. Covers(r.path, topic)
    <3>1. u.lvl = Len(topic)
      BY <1>1, <1>2
    <3> QED BY <3>1, <2>1, <1>2, TerminalCovers
  <2>3. \A s \in DOMAIN g : s \in asked /\ Covers(s.topic, topic)
    <3>1. DOMAIN g = DOMAIN u.got \cup DOMAIN heap[r].terminals
      BY BagFacts, ZenonT(30)
    <3> QED BY <3>1, <2>1, <2>2, <1>2 DEF NodeOK, SubsOK, MatchOK
  <2>4. /\ Differ(t2, u, {"got", "queue"}) /\ t2.got = g /\ t2.queue = Tail(u.queue)
    BY <1>2 DEF ThreadOK, Differ, Idle
  <2>5. Tail(u.queue) \in Seq(Ref \cup {Nil}) /\ Elements(Tail(u.queue)) \subseteq Elements(u.queue)
    BY <1>2, <1>4, ElementsFacts
  <2> HIDE DEF t2, g
  <2>6. MatchOK(t2, asked)
    BY <2>3, <2>4, <2>5, <1>1, <1>2 DEF Differ, Idle, MatchOK, Label, InLookup
  <2>7. ThreadOK(t2, asked)
    BY <2>4, <2>5, <2>6, <1>1, <1>2 DEF Differ, Idle, ThreadOK, InSave
  <2>8. Held(t2) \subseteq DOMAIN heap \cup {Nil}
    BY <2>4, <2>5, <1>2 DEF Differ, Idle, Held
  <2> QED BY <2>7, <2>8, <1>4, LocalStep
<1> QED BY <1>3, <1>4 DEF CollectTerminals, Goto
-----------------------------------------------------------------------------
LEMMA ReturnStep ==
  ASSUME IInv, NEW w \in Worker, Return(w)
  PROVE  IInv'
<1>1. /\ th' = [th EXCEPT ![w] = Idle] /\ cache' = cache /\ docs' = docs /\ asked' = asked
      /\ minted' = minted
      /\ heap' = [q \in DOMAIN heap \cap Live' |-> heap[q]]
  BY DEF Return, Collect
<1>2. <<>> \in Seq(Ref \cup {Nil}) /\ Elements(<<>>) = {}
  BY ElementsFacts, EmptySeq
<1>3. ThreadOK(Idle, asked)
  BY IdleOK
<1>4. Held(Idle) \subseteq DOMAIN heap \cup {Nil}
  BY <1>2 DEF Idle, Held
<1>5. MemoryOK(heap, cache, asked) /\ DocsOK(docs, asked)
  BY DEF IInv
<1> QED BY <1>1, <1>3, <1>4, <1>5, Step

LEMMA EvictStep ==
  ASSUME IInv, Evict
  PROVE  IInv'
<1>1. /\ th' = th /\ docs' = docs /\ asked' = asked /\ minted' = minted
      /\ \E k \in DOMAIN cache : cache' = [j \in DOMAIN cache \ {k} |-> cache[j]]
      /\ heap' = [q \in DOMAIN heap \cap Live' |-> heap[q]]
  BY DEF Evict, Collect
<1>2. \A v \in Worker : Held(th'[v]) \subseteq DOMAIN heap' \cup {Nil}
  BY <1>1 DEF IInv, Live
<1>3. \A k \in DOMAIN cache' : cache'[k] \in DOMAIN heap' /\ cache'[k].path = k.path
  BY <1>1 DEF IInv, MemoryOK, Live
<1>4. MemoryOK(heap', cache', asked)
  BY <1>1, <1>3 DEF IInv, MemoryOK
<1> QED BY <1>1, <1>2, <1>4 DEF IInv

LEMMA RestartStep ==
  ASSUME IInv, Restart
  PROVE  IInv'
<1>1. /\ th' = [w \in Worker |-> Idle] /\ heap' = <<>> /\ cache' = <<>>
      /\ docs' = docs /\ asked' = asked /\ minted' = minted
  BY DEF Restart
<1>2. <<>> \in Seq(Ref \cup {Nil}) /\ Elements(<<>>) = {}
  BY ElementsFacts, EmptySeq
<1>3. ThreadOK(Idle, asked)
  BY IdleOK
<1>4. Held(Idle) \subseteq {Nil}
  BY <1>2 DEF Idle, Held
<1>5. DOMAIN <<>> = {}
  OBVIOUS
<1>6. MemoryOK(heap', cache', asked')
  BY <1>1, <1>5 DEF MemoryOK
<1> QED BY <1>1, <1>3, <1>4, <1>6 DEF IInv

LEMMA IInvInit == Init => IInv
<1> SUFFICES ASSUME Init PROVE IInv
  OBVIOUS
<1>1. /\ th = [w \in Worker |-> Idle] /\ heap = <<>> /\ cache = <<>> /\ docs = <<>>
      /\ minted = [p \in {} |-> 0]
  BY DEF Init
<1>2. <<>> \in Seq(Ref \cup {Nil}) /\ Elements(<<>>) = {}
  BY ElementsFacts, EmptySeq
<1>3. ThreadOK(Idle, asked)
  BY IdleOK
<1>4. Held(Idle) \subseteq {Nil}
  BY <1>2 DEF Idle, Held
<1>5. DOMAIN <<>> = {}
  OBVIOUS
<1>6. MemoryOK(heap, cache, asked) /\ DocsOK(docs, asked) /\ MintedOK(minted)
  BY <1>1, <1>5 DEF MemoryOK, DocsOK, MintedOK
<1> QED BY <1>1, <1>3, <1>4, <1>6 DEF IInv

LEMMA IInvNext == IInv /\ [Next]_vars => IInv'
<1> SUFFICES ASSUME IInv, [Next]_vars PROVE IInv'
  OBVIOUS
<1>1. ASSUME NEW w \in Worker, Fetch(w) PROVE IInv'
  BY <1>1, HitStep, MissStep, FindOneStep, FindNothingStep, FillStep, CreateStep DEF Fetch
<1>2. ASSUME NEW w \in Worker, Save(w) PROVE IInv'
  BY <1>2, StoreStep, ReplaceStep DEF Save
<1>3. ASSUME NEW w \in Worker, Insert(w) PROVE IInv'
  BY <1>3, LinkStep, TerminalStep, NextLevelStep DEF Insert
<1>4. ASSUME NEW w \in Worker, NilNode(w) PROVE IInv'
  BY <1>4 DEF NilNode, IInv, MemoryOK, DocsOK, MintedOK
<1>5. ASSUME NEW w \in Worker, Match(w) PROVE IInv'
  BY <1>4, <1>5, RootStep, RootPlusStep, VisitStep, ChildStep, VisitPlusStep,
     DescendStep, CollectStep DEF Match
<1>6. ASSUME NEW w \in Worker, Run(w) PROVE IInv'
  BY <1>1, <1>2, <1>3, <1>5, <1>6, RemoveStep, ReturnStep DEF Run
<1>7. ASSUME NEW w \in Mutators, Subscribe(w) \/ Unsubscribe(w) PROVE IInv'
  BY <1>7, SubscribeStep, UnsubscribeStep DEF Worker
<1>8. ASSUME NEW w \in Matchers, Publish(w) PROVE IInv'
  BY <1>8, PublishStep DEF Worker
<1>9. CASE RaceFault \/ Kill
  BY <1>9 DEF RaceFault, Kill, IInv, MemoryOK, DocsOK, MintedOK
<1>10. CASE Rest \/ UNCHANGED vars
  BY <1>10 DEF Rest, vars, IInv, MemoryOK, DocsOK, MintedOK
<1> QED BY <1>6, <1>7, <1>8, <1>9, <1>10, EvictStep, RestartStep DEF Next

LEMMA IInvInvariant == Spec => []IInv
  BY IInvInit, IInvNext, PTL DEF Spec
-----------------------------------------------------------------------------
(***************************************************************************)
(* A message is handed only to subscriptions that somebody asked for and   *)
(* whose filter covers its topic, however the goroutines interleave,       *)
(* whatever database calls fail, however old the cached nodes are and      *)
(* through any number of restarts.                                         *)
(***************************************************************************)
THEOREM MatchSoundHolds == Spec => []MatchSound
<1>1. IInv => MatchSound
  BY DEF IInv, ThreadOK, InsertOK, DeleteOK, MatchOK, MatchSound, Topic
<1> QED BY <1>1, IInvInvariant, PTL

(***************************************************************************)
(* Under the same circumstances a link of any stored or cached node leads  *)
(* to the path one level further down that its name says.                  *)
(***************************************************************************)
THEOREM LinksWellFormedHolds == Spec => []LinksWellFormed
<1>1. IInv => LinksWellFormed
  BY DEF IInv, MemoryOK, DocsOK, MintedOK, NodeOK, LinksWellFormed, LinksOf
<1> QED BY <1>1, IInvInvariant, PTL

(***************************************************************************)
(* The histories and the state of the process.                             *)
(***************************************************************************)
HInv == /\ status \in {"up", "panic", "fault", "down"}
        /\ asked \subseteq Sub /\ acked \subseteq asked

LEMMA HInvNext ==
  ASSUME IInv, HInv, [Next]_vars
  PROVE  HInv'
<1> DEFINE Same == status' = status /\ asked' = asked /\ acked' = acked
<1>1. ASSUME NEW w \in Worker, Fetch(w) PROVE Same
  BY <1>1 DEF Fetch, CacheHit, CacheMiss, FindOne, FindNothing, Fill, Create, Goto, Local
<1>2. ASSUME NEW w \in Worker, Save(w) PROVE Same
  BY <1>2 DEF Save, Store, ReplaceOne, DuplicatePath, ReplaceFails, Saved
<1>3. ASSUME NEW w \in Worker, Insert(w) \/ RemoveTerminal(w) PROVE Same
  BY <1>3 DEF Insert, LinkLevel, AddTerminal, NextLevel, RemoveTerminal, Goto, Get, Assign, Local
<1>4. ASSUME NEW w \in Worker, Match(w) PROVE HInv'
  BY <1>4 DEF Match, Root, RootPlus, VisitNode, ExactChild, VisitPlus, PlusChild,
              Descend, CollectTerminals, NilNode, Goto, Get, Local, HInv
<1>5. ASSUME NEW w \in Worker, Return(w) PROVE HInv'
  <2>1. th[w].op = "insert" => th[w].sub \in asked
    BY DEF IInv, ThreadOK, InsertOK
  <2> QED BY <2>1, <1>5 DEF Return, HInv
<1>6. ASSUME NEW w \in Mutators, Subscribe(w) PROVE HInv'
  <2>1. PICK c \in Client, f \in Filters, q \in QoS :
          asked' = asked \cup {[client |-> c, topic |-> f, qos |-> q]}
    BY <1>6 DEF Subscribe
  <2>2. [client |-> c, topic |-> f, qos |-> q] \in Sub
    BY TreeAssumption DEF Sub
  <2>3. status' = status /\ acked' = acked
    BY <1>6 DEF Subscribe, Begin
  <2> QED BY <2>1, <2>2, <2>3 DEF HInv
<1>7. ASSUME NEW w \in Mutators, Unsubscribe(w) PROVE HInv'
  BY <1>7 DEF Unsubscribe, Begin, HInv
<1>8. ASSUME NEW w \in Matchers, Publish(w) PROVE HInv'
  BY <1>8 DEF Publish, Begin, HInv
<1>9. CASE Evict \/ RaceFault \/ Kill \/ Restart \/ Rest \/ UNCHANGED vars
  BY <1>9 DEF Evict, RaceFault, Kill, Restart, Rest, vars, HInv
<1> QED BY <1>1, <1>2, <1>3, <1>4, <1>5, <1>6, <1>7, <1>8, <1>9 DEF Next, Run, HInv

(***************************************************************************)
(* Types: every document and every object in memory is a node, and every   *)
(* reference that the cache or a goroutine holds is to a live object.      *)
(***************************************************************************)
THEOREM TreeTyped == Spec => []TypeOK
<1>1. Init => HInv
  BY DEF Init, HInv
<1>2. IInv /\ HInv => TypeOK
  <2> SUFFICES ASSUME IInv, HInv PROVE TypeOK
    OBVIOUS
  <2>1. \A p, node : NodeOK(p, node, asked) => IsNode(node)
    BY DEF NodeOK, IsNode, SubsOK, IsBag, HInv
  <2>2. Live \subseteq DOMAIN heap \cup {Nil}
    BY DEF IInv, MemoryOK, Live
  <2> QED BY <2>1, <2>2 DEF IInv, MemoryOK, DocsOK, MintedOK, HInv, TypeOK
<1> QED BY <1>1, <1>2, IInvInvariant, HInvNext, PTL DEF Spec
-----------------------------------------------------------------------------
(***************************************************************************)
(* The collection d only grows and a document keeps its _id, so that an id *)
(* once found in it stays found.                                           *)
(***************************************************************************)
In(id, d)     == id.path \in DOMAIN d /\ d[id.path].n = id.n
Grows(d, e)   == \A p \in DOMAIN d : p \in DOMAIN e /\ e[p].n = d[p].n
Named(r, d, h) == r.path \in DOMAIN d /\ d[r.path].n = h[r].n

Resolves(node, d) ==
    /\ \A l \in DOMAIN node.children : In(node.children[l], d)
    /\ node.plus # NoID => In(node.plus, d)

(***************************************************************************)
(* Every object a goroutine holds has the _id of the document at its path, *)
(* except the one createNode is about to save; what is about to be written *)
(* resolves; and a child that MatchTopic looks up by _id is there.         *)
(***************************************************************************)
Creating(t) == t.pc = "replace" /\ t.ret = "level"

MatchResolves(t, d) ==
    /\ Nil \notin Elements(t.queue) \cup Elements(t.next)
    /\ Label(t) \in {"child", "plusChild"} =>
          IF t.pc \in InLookup THEN t.key.by = "_id" /\ In(t.key, d) ELSE t.cur # Nil

ThreadResolves(t, d, h) ==
    /\ \A r \in Held(t) \ {Nil} : Named(r, d, h) \/ (Creating(t) /\ r = t.cur)
    /\ t.pc = "store" => /\ t.ret # "level"
                         /\ t.upd.field \in {"child", "plus"} => In(t.upd.id, d)
    /\ t.pc = "replace" => /\ Resolves(t.buf, d) /\ t.buf.n = h[t.tgt].n
                           /\ Creating(t) => t.tgt = t.cur
    /\ t.op = "match" => MatchResolves(t, d)

MemoryResolves(d, h, c) ==
    /\ \A r \in DOMAIN h : Resolves(h[r], d)
    /\ \A k \in DOMAIN c : Named(c[k], d, h)

DocsResolve(d) == \A p \in DOMAIN d : Resolves(d[p], d)

Unharmed == spent.errors = 0 /\ ~spent.refused

AllResolve ==
    /\ status # "panic"
    /\ \A w \in Worker : ThreadResolves(th[w], docs, heap)
    /\ MemoryResolves(docs, heap, cache)
    /\ DocsResolve(docs)

Counted == spent \in [requests : Nat, errors : Nat, restarts : Nat, refused : BOOLEAN]

LInv == Counted /\ (Unharmed => AllResolve)
-----------------------------------------------------------------------------
LEMMA GrowsFacts ==
  ASSUME NEW d, NEW e, Grows(d, e)
  PROVE  /\ \A id : In(id, d) => In(id, e)
         /\ \A node : Resolves(node, d) => Resolves(node, e)
         /\ \A t : MatchResolves(t, d) => MatchResolves(t, e)
<1>1. \A id : In(id, d) => In(id, e)
  BY DEF In, Grows
<1>2. \A node : Resolves(node, d) => Resolves(node, e)
  BY <1>1 DEF Resolves
<1>3. \A t : MatchResolves(t, d) => MatchResolves(t, e)
  BY <1>1 DEF MatchResolves
<1> QED BY <1>1, <1>2, <1>3

\* A goroutine whose locals do not change while memory and collection do.
LEMMA Carry ==
  ASSUME NEW d, NEW e, Grows(d, e), NEW h, NEW g, NEW t,
         Held(t) \subseteq DOMAIN h \cup {Nil}, Held(t) \subseteq DOMAIN g \cup {Nil},
         \A r \in DOMAIN h \cap DOMAIN g : g[r].n = h[r].n,
         t.pc = "replace" => t.tgt # Nil,
         ThreadResolves(t, d, h)
  PROVE  ThreadResolves(t, e, g)
<1>1. \A r \in Held(t) \ {Nil} : g[r].n = h[r].n
  OBVIOUS
<1>2. \A r \in Held(t) \ {Nil} : Named(r, d, h) => Named(r, e, g)
  BY <1>1 DEF Named, Grows
<1>3. t.pc = "replace" => t.tgt \in Held(t) \ {Nil}
  BY DEF Held
<1>4. t.pc = "replace" => Resolves(t.buf, e) /\ t.buf.n = g[t.tgt].n
  BY <1>1, <1>3, GrowsFacts DEF ThreadResolves
<1>5. t.pc = "store" /\ t.upd.field \in {"child", "plus"} => In(t.upd.id, e)
  BY GrowsFacts DEF ThreadResolves
<1>6. t.op = "match" => MatchResolves(t, e)
  BY GrowsFacts DEF ThreadResolves
<1> QED BY <1>2, <1>4, <1>5, <1>6 DEF ThreadResolves

(***************************************************************************)
(* A step that leaves memory with the objects h, before the collector.     *)
(***************************************************************************)
LEMMA LStep ==
  ASSUME IInv, IInv', AllResolve, NEW h,
         DOMAIN heap' \subseteq DOMAIN h, \A r \in DOMAIN heap' : heap'[r] = h[r],
         \A r \in DOMAIN heap : r \in DOMAIN h /\ h[r].n = heap[r].n,
         Grows(docs, docs'), status' # "panic",
         \A v \in Worker : \/ th'[v] = th[v]
                           \/ /\ ThreadResolves(th'[v], docs', h)
                              /\ Held(th'[v]) \subseteq DOMAIN h \cup {Nil},
         MemoryResolves(docs', h, cache'), DocsResolve(docs')
  PROVE  AllResolve'
<1>1. ASSUME NEW v \in Worker PROVE ThreadResolves(th'[v], docs', heap')
  <2>1. /\ Held(th'[v]) \subseteq DOMAIN heap' \cup {Nil}
        /\ th'[v].pc = "replace" => th'[v].tgt # Nil
    BY DEF IInv, ThreadOK, InSave
  <2>2. CASE th'[v] = th[v]
    <3>1. Held(th[v]) \subseteq DOMAIN heap \cup {Nil} /\ ThreadResolves(th[v], docs, heap)
      BY DEF IInv, AllResolve
    <3>2. \A r \in DOMAIN heap \cap DOMAIN heap' : heap'[r].n = heap[r].n
      OBVIOUS
    <3> QED BY <2>1, <2>2, <3>1, <3>2, Carry
  <2>3. CASE /\ ThreadResolves(th'[v], docs', h)
             /\ Held(th'[v]) \subseteq DOMAIN h \cup {Nil}
    <3>1. Grows(docs', docs')
      BY DEF Grows
    <3>2. \A r \in DOMAIN h \cap DOMAIN heap' : heap'[r].n = h[r].n
      OBVIOUS
    <3> QED BY <2>1, <2>3, <3>1, <3>2, Carry
  <2> QED BY <2>2, <2>3
<1>2. MemoryResolves(docs', heap', cache')
  <2>1. \A k \in DOMAIN cache' : cache'[k] \in DOMAIN heap'
    BY DEF IInv, MemoryOK
  <2> QED BY <2>1 DEF MemoryResolves, Named
<1> QED BY <1>1, <1>2 DEF AllResolve

LEMMA LLocal ==
  ASSUME IInv, IInv', AllResolve, NEW w \in Worker, NEW t, Local(w, t),
         ThreadResolves(t, docs, heap)
  PROVE  AllResolve'
<1>1. /\ th' = [th EXCEPT ![w] = t] /\ docs' = docs /\ cache' = cache /\ status' = status
      /\ heap' = [r \in DOMAIN heap \cap Live' |-> heap[r]]
  BY DEF Local, Collect
<1>2. DOMAIN th = Worker /\ Held(th'[w]) \subseteq DOMAIN heap' \cup {Nil} /\ th'[w] = t
  BY <1>1 DEF IInv
<1>3. \A v \in Worker : \/ th'[v] = th[v]
                        \/ /\ ThreadResolves(th'[v], docs', heap)
                           /\ Held(th'[v]) \subseteq DOMAIN heap \cup {Nil}
  BY <1>1, <1>2
<1>4. Grows(docs, docs') /\ MemoryResolves(docs', heap, cache') /\ DocsResolve(docs')
      /\ status' # "panic"
  BY <1>1 DEF Grows, AllResolve
<1> QED BY <1>1, <1>3, <1>4, LStep
-----------------------------------------------------------------------------
(***************************************************************************)
(* Looking a node up.                                                      *)
(***************************************************************************)
LEMMA HitLinks ==
  ASSUME IInv, IInv', AllResolve, NEW w \in Worker, CacheHit(w)
  PROVE  AllResolve'
<1> DEFINE u == th[w]
           b == u.stale \/ u.key.path \notin DOMAIN docs
                \/ heap[cache[u.key]] # docs[u.key.path]
           t == [u EXCEPT !.cur = cache[u.key], !.pc = u.ret, !.stale = b]
<1>1. u.pc = "lookup" /\ u.key \in DOMAIN cache /\ Local(w, t)
  BY DEF CacheHit, At
<1>2. ThreadOK(u, asked) /\ ThreadResolves(u, docs, heap)
  BY DEF IInv, AllResolve
<1>3. Differ(t, u, {"cur", "pc", "stale"}) /\ t.cur = cache[u.key] /\ t.pc = u.ret
  BY <1>2 DEF ThreadOK, Differ, Idle
<1>4. Named(t.cur, docs, heap) /\ t.cur # Nil
  BY <1>1, <1>3, TreeAssumption DEF IInv, MemoryOK, Ref, Nil, AllResolve, MemoryResolves
<1> HIDE DEF t
<1>5. t.pc \notin {"store", "replace"} \cup InLookup
  BY <1>1, <1>2, <1>3 DEF ThreadOK, InsertOK, DeleteOK, MatchOK, InLookup, InSave
<1>6. t.op = "match" => MatchResolves(t, docs)
  BY <1>2, <1>3, <1>4, <1>5 DEF Differ, Idle, ThreadResolves, MatchResolves
<1>7. ThreadResolves(t, docs, heap)
  BY <1>1, <1>2, <1>3, <1>4, <1>5, <1>6 DEF Differ, Idle, ThreadResolves, Creating, Held
<1> QED BY <1>1, <1>7, LLocal

LEMMA MissLinks ==
  ASSUME IInv, IInv', AllResolve, NEW w \in Worker, CacheMiss(w)
  PROVE  AllResolve'
<1> DEFINE u == th[w]
           t == [u EXCEPT !.pc = "find"]
<1>1. u.pc = "lookup" /\ Local(w, t)
  BY DEF CacheMiss, At, Goto
<1>2. ThreadOK(u, asked) /\ ThreadResolves(u, docs, heap)
  BY DEF IInv, AllResolve
<1>3. Differ(t, u, {"pc"}) /\ t.pc = "find"
  BY <1>2 DEF ThreadOK, Differ, Idle
<1> HIDE DEF t
<1>4. t.op = "match" => MatchResolves(t, docs)
  BY <1>1, <1>2, <1>3 DEF Differ, Idle, ThreadResolves, MatchResolves, Label, InLookup
<1>5. ThreadResolves(t, docs, heap)
  BY <1>1, <1>2, <1>3, <1>4 DEF Differ, Idle, ThreadResolves, Creating, Held
<1> QED BY <1>1, <1>5, LLocal

\* A step of w alone, to be combined with the memory h it leaves.
LEMMA LWorker ==
  ASSUME IInv, IInv', AllResolve, NEW w \in Worker, NEW t, NEW h,
         th' = [th EXCEPT ![w] = t],
         heap' = [r \in DOMAIN h \cap Live' |-> h[r]],
         \A r \in DOMAIN heap : r \in DOMAIN h /\ h[r].n = heap[r].n,
         Grows(docs, docs'), status' = status,
         ThreadResolves(t, docs', h),
         MemoryResolves(docs', h, cache'), DocsResolve(docs')
  PROVE  AllResolve'
<1>1. DOMAIN heap' \subseteq DOMAIN h /\ \A r \in DOMAIN heap' : heap'[r] = h[r]
  OBVIOUS
<1>2. DOMAIN th = Worker /\ Held(th'[w]) \subseteq DOMAIN h \cup {Nil} /\ th'[w] = t
  BY <1>1 DEF IInv
<1>3. \A v \in Worker : \/ th'[v] = th[v]
                        \/ /\ ThreadResolves(th'[v], docs', h)
                           /\ Held(th'[v]) \subseteq DOMAIN h \cup {Nil}
  BY <1>2
<1>4. status' # "panic"
  BY DEF AllResolve
<1> QED BY <1>1, <1>3, <1>4, LStep

LEMMA FindOneLinks ==
  ASSUME IInv, IInv', AllResolve, NEW w \in Worker, FindOne(w)
  PROVE  AllResolve'
<1> DEFINE u == th[w]
           k == u.key
           r == NewRef(k.path)
           t == [u EXCEPT !.cur = r, !.pc = "fill"]
           h == [q \in DOMAIN heap \cup {r} |-> IF q = r THEN docs[k.path] ELSE heap[q]]
<1>1. /\ u.pc = "find" /\ Stored(k) /\ FreeSlots(k.path) # {}
      /\ cache' = cache /\ docs' = docs /\ status' = status
      /\ th' = [th EXCEPT ![w] = t]
      /\ heap' = [q \in DOMAIN h \cap Live' |-> h[q]]
  BY DEF FindOne, At, Allocate, Collect
<1>2. /\ ThreadOK(u, asked) /\ Held(u) \subseteq DOMAIN heap \cup {Nil}
      /\ ThreadResolves(u, docs, heap)
  BY DEF IInv, AllResolve
<1>3. Differ(t, u, {"cur", "pc"}) /\ t.cur = r /\ t.pc = "fill"
  BY <1>2 DEF ThreadOK, Differ, Idle
<1>4. r \notin DOMAIN heap /\ r.path = k.path
  BY <1>1 DEF NewRef, FreeSlots
<1>5. /\ DOMAIN h = DOMAIN heap \cup {r} /\ h[r] = docs[k.path]
      /\ \A q \in DOMAIN heap : q \in DOMAIN h /\ h[q] = heap[q]
  BY <1>4
<1> HIDE DEF t, h, r
<1>6. Named(r, docs, h) /\ Resolves(h[r], docs)
  BY <1>1, <1>4, <1>5 DEF Stored, Named, AllResolve, DocsResolve
<1>7. MemoryResolves(docs, h, cache)
  BY <1>5, <1>6 DEF AllResolve, MemoryResolves, Named, IInv, MemoryOK
<1>8. t.op = "match" => MatchResolves(t, docs)
  BY <1>1, <1>2, <1>3 DEF Differ, Idle, ThreadResolves, MatchResolves, Label, InLookup
<1>9. ThreadResolves(t, docs, h)
  <2>1. \A q \in Held(u) \ {Nil} : Named(q, docs, h)
    BY <1>1, <1>2, <1>5 DEF ThreadResolves, Creating, Named
  <2> QED BY <2>1, <1>1, <1>3, <1>6, <1>8 DEF Differ, Idle, ThreadResolves, Creating, Held
<1>10. DocsResolve(docs) /\ Grows(docs, docs)
  BY DEF AllResolve, Grows
<1> QED BY <1>1, <1>5, <1>7, <1>9, <1>10, LWorker

LEMMA FindNothingLinks ==
  ASSUME IInv, IInv', AllResolve, NEW w \in Worker, FindNothing(w), ~Stored(th[w].key)
  PROVE  AllResolve'
<1> DEFINE u == th[w]
           l == IF u.op = "insert" THEN "create" ELSE u.ret
           t == [u EXCEPT !.pc = l]
<1>1. /\ u.pc = "find" /\ cache' = cache /\ docs' = docs /\ status' = status
      /\ th' = [th EXCEPT ![w] = t]
      /\ heap' = [q \in DOMAIN heap \cap Live' |-> heap[q]]
  BY DEF FindNothing, At, Collect
<1>2. ThreadOK(u, asked) /\ ThreadResolves(u, docs, heap)
  BY DEF IInv, AllResolve
<1>3. Differ(t, u, {"pc"}) /\ t.pc = l
  BY <1>2 DEF ThreadOK, Differ, Idle
<1> HIDE DEF t
<1>4. t.pc \notin {"store", "replace"}
  BY <1>1, <1>2, <1>3 DEF ThreadOK, InsertOK, DeleteOK, MatchOK, InLookup, InSave
<1>5. u.op = "match" => u.ret \notin {"child", "plusChild"}
  BY <1>1, <1>2 DEF ThreadResolves, MatchResolves, Label, InLookup, In, Stored
<1>6. t.op = "match" => MatchResolves(t, docs)
  <2>1. u.op = "match" => u.ret \in {"root", "rootPlus"}
    BY <1>1, <1>2, <1>5 DEF ThreadOK, MatchOK, InLookup
  <2> QED BY <2>1, <1>2, <1>3 DEF Differ, Idle, ThreadResolves, MatchResolves, Label, InLookup
<1>7. ThreadResolves(t, docs, heap)
  BY <1>1, <1>2, <1>3, <1>4, <1>6 DEF Differ, Idle, ThreadResolves, Creating, Held
<1>8. /\ DocsResolve(docs) /\ Grows(docs, docs) /\ MemoryResolves(docs, heap, cache)
  BY DEF AllResolve, Grows
<1> QED BY <1>1, <1>7, <1>8, LWorker

LEMMA FillLinks ==
  ASSUME IInv, IInv', AllResolve, NEW w \in Worker, Fill(w)
  PROVE  AllResolve'
<1> DEFINE u == th[w]
           t == [u EXCEPT !.pc = u.ret]
<1>1. /\ u.pc = "fill" /\ docs' = docs /\ status' = status
      /\ th' = [th EXCEPT ![w] = t]
      /\ cache' = [j \in DOMAIN cache \cup {u.key} |->
                      IF j = u.key THEN u.cur ELSE cache[j]]
      /\ heap' = [q \in DOMAIN heap \cap Live' |-> heap[q]]
  BY DEF Fill, At, Collect
<1>2. ThreadOK(u, asked) /\ ThreadResolves(u, docs, heap)
  BY DEF IInv, AllResolve
<1>3. Differ(t, u, {"pc"}) /\ t.pc = u.ret
  BY <1>2 DEF ThreadOK, Differ, Idle
<1> HIDE DEF t
<1>4. t.pc \notin {"store", "replace"} \cup InLookup /\ u.cur # Nil
  BY <1>1, <1>2, <1>3 DEF ThreadOK, InsertOK, DeleteOK, MatchOK, InLookup, InSave
<1>5. t.op = "match" => MatchResolves(t, docs)
  BY <1>2, <1>3, <1>4 DEF Differ, Idle, ThreadResolves, MatchResolves
<1>6. ThreadResolves(t, docs, heap)
  BY <1>1, <1>2, <1>3, <1>4, <1>5 DEF Differ, Idle, ThreadResolves, Creating, Held
<1>7. Named(u.cur, docs, heap)
  BY <1>1, <1>2, <1>4 DEF ThreadResolves, Creating, Held
<1>8. MemoryResolves(docs, heap, cache')
  BY <1>1, <1>7 DEF AllResolve, MemoryResolves
<1>9. DocsResolve(docs) /\ Grows(docs, docs)
  BY DEF AllResolve, Grows
<1> QED BY <1>1, <1>6, <1>8, <1>9, LWorker

LEMMA NewNodeResolves ==
  ASSUME NEW n, NEW d
  PROVE  Resolves(NewNode(n), d) /\ NewNode(n).n = n
<1>1. DOMAIN <<>> = {}
  OBVIOUS
<1> QED BY <1>1 DEF Resolves, NewNode

LEMMA CreateLinks ==
  ASSUME IInv, IInv', AllResolve, NEW w \in Worker, Create(w)
  PROVE  AllResolve'
<1> DEFINE u == th[w]
           p == u.key.path
           n == IF p \in DOMAIN minted THEN minted[p] + 1 ELSE 1
           r == NewRef(p)
           t == [u EXCEPT !.cur = r, !.tgt = r, !.buf = NewNode(n), !.pc = "replace"]
           h == [q \in DOMAIN heap \cup {r} |-> IF q = r THEN NewNode(n) ELSE heap[q]]
<1>1. /\ u.pc = "create" /\ FreeSlots(p) # {} /\ docs' = docs /\ status' = status
      /\ cache' = [k \in DOMAIN cache \ {PathKey(p)} |-> cache[k]]
      /\ th' = [th EXCEPT ![w] = t]
      /\ heap' = [q \in DOMAIN h \cap Live' |-> h[q]]
  BY DEF Create, At, Allocate, Collect, Uncached
<1>2. /\ ThreadOK(u, asked) /\ Held(u) \subseteq DOMAIN heap \cup {Nil}
      /\ ThreadResolves(u, docs, heap)
  BY DEF IInv, AllResolve
<1>3. /\ Differ(t, u, {"cur", "tgt", "buf", "pc"})
      /\ t.cur = r /\ t.tgt = r /\ t.buf = NewNode(n) /\ t.pc = "replace"
  BY <1>2 DEF ThreadOK, Differ, Idle
<1>4. r \notin DOMAIN heap
  BY <1>1 DEF NewRef, FreeSlots
<1>5. /\ DOMAIN h = DOMAIN heap \cup {r} /\ h[r] = NewNode(n)
      /\ \A q \in DOMAIN heap : q \in DOMAIN h /\ h[q] = heap[q]
  BY <1>4
<1>6. Resolves(NewNode(n), docs) /\ NewNode(n).n = n
  BY NewNodeResolves
<1>7. u.op = "insert" /\ u.ret = "level"
  BY <1>1, <1>2 DEF ThreadOK, InsertOK, DeleteOK, MatchOK, InLookup, InSave
<1> HIDE DEF t, h, n, r
<1>8. MemoryResolves(docs, h, cache')
  BY <1>1, <1>5, <1>6 DEF AllResolve, MemoryResolves, Named, IInv, MemoryOK
<1>9. ThreadResolves(t, docs, h)
  <2>1. \A q \in Held(u) \ {Nil} : Named(q, docs, h)
    BY <1>1, <1>2, <1>5 DEF ThreadResolves, Creating, Named
  <2> QED BY <2>1, <1>3, <1>5, <1>6, <1>7 DEF Differ, Idle, ThreadResolves, Creating, Held
<1>10. DocsResolve(docs) /\ Grows(docs, docs)
  BY DEF AllResolve, Grows
<1> QED BY <1>1, <1>5, <1>8, <1>9, <1>10, LWorker
-----------------------------------------------------------------------------
(***************************************************************************)
(* Saving a node.                                                          *)
(***************************************************************************)
LEMMA PutResolves ==
  ASSUME NEW p, NEW node, NEW upd, NEW A, NEW d, NodeOK(p, node, A), UpdOK(p, upd, A),
         Resolves(node, d), upd.field \in {"child", "plus"} => In(upd.id, d)
  PROVE  Resolves(Put(node, upd), d) /\ Put(node, upd).n = node.n
<1> DEFINE m == Put(node, upd)
<1>1. CASE upd.field = "child"
  <2> DEFINE c == [l \in DOMAIN node.children \cup {upd.level} |->
                     IF l = upd.level THEN upd.id ELSE node.children[l]]
  <2>1. m = [node EXCEPT !.children = c]
    BY <1>1 DEF Put
  <2>2. m.n = node.n /\ m.children = c /\ m.plus = node.plus
    BY <2>1 DEF NodeOK
  <2>3. \A l \in DOMAIN c : In(c[l], d)
    BY <1>1 DEF Resolves
  <2> HIDE DEF m, c
  <2>4. Resolves(m, d) /\ m.n = node.n
    BY <2>2, <2>3 DEF Resolves
  <2> QED BY <2>4 DEF m
<1>2. CASE upd.field = "plus"
  <2>1. m = [node EXCEPT !.plus = upd.id]
    BY <1>2 DEF Put
  <2> QED BY <2>1, <1>2 DEF NodeOK, Resolves
<1>3. CASE upd.field = "hash"
  <2>1. m = [node EXCEPT !.hash = upd.subs]
    BY <1>3 DEF Put
  <2> QED BY <2>1 DEF NodeOK, Resolves
<1>4. CASE upd.field = "terminals"
  <2>1. m = [node EXCEPT !.terminals = upd.subs]
    BY <1>4 DEF Put
  <2> QED BY <2>1 DEF NodeOK, Resolves
<1> QED BY <1>1, <1>2, <1>3, <1>4 DEF UpdOK

LEMMA StoreLinks ==
  ASSUME IInv, IInv', AllResolve, NEW w \in Worker, Store(w)
  PROVE  AllResolve'
<1> DEFINE u == th[w]
           r == u.tgt
           node == Put(heap[r], u.upd)
           t == [u EXCEPT !.pc = "replace", !.buf = node, !.upd = NoUpdate]
           h == [heap EXCEPT ![r] = node]
<1>1. /\ u.pc = "store" /\ docs' = docs /\ status' = status
      /\ cache' = [k \in DOMAIN cache \ {PathKey(r.path)} |-> cache[k]]
      /\ th' = [th EXCEPT ![w] = t]
      /\ heap' = [q \in DOMAIN h \cap Live' |-> h[q]]
  BY DEF Store, At, Collect, Uncached
<1>2. /\ ThreadOK(u, asked) /\ Held(u) \subseteq DOMAIN heap \cup {Nil}
      /\ ThreadResolves(u, docs, heap)
  BY DEF IInv, AllResolve
<1>3. Differ(t, u, {"pc", "buf", "upd"}) /\ t.pc = "replace" /\ t.buf = node
  BY <1>2 DEF ThreadOK, Differ, Idle
<1>4. r \in DOMAIN heap /\ UpdOK(r.path, u.upd, asked) /\ NodeOK(r.path, heap[r], asked)
  BY <1>1, <1>2 DEF ThreadOK, Held, InSave, IInv, MemoryOK
<1>5. /\ Resolves(heap[r], docs) /\ u.ret # "level"
      /\ u.upd.field \in {"child", "plus"} => In(u.upd.id, docs)
  BY <1>1, <1>2, <1>4 DEF AllResolve, MemoryResolves, ThreadResolves
<1>6. Resolves(node, docs) /\ node.n = heap[r].n
  BY <1>4, <1>5, PutResolves
<1> HIDE DEF node
<1>7. DOMAIN h = DOMAIN heap /\ h[r] = node /\ \A q \in DOMAIN heap \ {r} : h[q] = heap[q]
  BY <1>4
<1> HIDE DEF t, h
<1>8. \A q \in DOMAIN heap : q \in DOMAIN h /\ h[q].n = heap[q].n
  BY <1>6, <1>7
<1>9. MemoryResolves(docs, h, cache')
  <2>1. \A q \in DOMAIN h : Resolves(h[q], docs)
    BY <1>6, <1>7 DEF AllResolve, MemoryResolves
  <2>2. \A k \in DOMAIN cache : Named(cache[k], docs, h)
    BY <1>8 DEF AllResolve, MemoryResolves, Named, IInv, MemoryOK
  <2> QED BY <2>1, <2>2, <1>1 DEF MemoryResolves
<1>10. ThreadResolves(t, docs, h)
  <2>1. \A q \in Held(u) \ {Nil} : Named(q, docs, h)
    BY <1>1, <1>2, <1>8 DEF ThreadResolves, Creating, Named
  <2>2. u.op # "match"
    BY <1>1, <1>2 DEF ThreadOK, MatchOK, InLookup
  <2> QED BY <2>1, <2>2, <1>3, <1>5, <1>6, <1>7
          DEF Differ, Idle, ThreadResolves, Creating, Held
<1>11. DocsResolve(docs) /\ Grows(docs, docs)
  BY DEF AllResolve, Grows
<1> QED BY <1>1, <1>8, <1>9, <1>10, <1>11, LWorker

LEMMA ReplaceLinks ==
  ASSUME IInv, IInv', AllResolve, NEW w \in Worker, ReplaceOne(w)
  PROVE  AllResolve'
<1> DEFINE u == th[w]
           p == u.tgt.path
           t == [u EXCEPT !.pc = u.ret, !.tgt = Nil, !.buf = NewNode(0)]
<1>1. /\ u.pc = "replace" /\ cache' = cache /\ status' = status
      /\ Unique(p, u.buf) /\ docs' = Written(p, u.buf)
      /\ th' = [th EXCEPT ![w] = t]
      /\ heap' = [q \in DOMAIN heap \cap Live' |-> heap[q]]
  BY DEF ReplaceOne, Saved, At, Collect
<1>2. /\ ThreadOK(u, asked) /\ Held(u) \subseteq DOMAIN heap \cup {Nil}
      /\ ThreadResolves(u, docs, heap)
  BY DEF IInv, AllResolve
<1>3. Differ(t, u, {"pc", "tgt", "buf"}) /\ t.pc = u.ret /\ t.tgt = Nil
  BY <1>2 DEF ThreadOK, Differ, Idle
<1> HIDE DEF t
<1>4. /\ DOMAIN docs' = DOMAIN docs \cup {p} /\ docs'[p] = u.buf
      /\ \A q \in DOMAIN docs \ {p} : docs'[q] = docs[q]
  BY <1>1 DEF Written
<1>5. Grows(docs, docs')
  BY <1>1, <1>4 DEF Grows, Unique
<1>6. Resolves(u.buf, docs) /\ u.buf.n = heap[u.tgt].n
  BY <1>1, <1>2 DEF ThreadResolves
<1>7. DocsResolve(docs')
  BY <1>4, <1>5, <1>6, GrowsFacts DEF DocsResolve, AllResolve
<1>8. \A r : Named(r, docs, heap) => Named(r, docs', heap)
  BY <1>5 DEF Named, Grows
<1>9. MemoryResolves(docs', heap, cache')
  BY <1>1, <1>5, <1>8, GrowsFacts DEF MemoryResolves, AllResolve
<1>10. \A r \in Held(u) \ {Nil} : Named(r, docs', heap)
  <2>1. Named(u.tgt, docs', heap)
    BY <1>4, <1>6 DEF Named
  <2> QED BY <2>1, <1>1, <1>2, <1>8 DEF ThreadResolves, Creating
<1>11. u.op # "match" /\ u.ret \notin {"store", "replace"}
  BY <1>1, <1>2 DEF ThreadOK, InsertOK, DeleteOK, MatchOK, InLookup, InSave
<1>12. ThreadResolves(t, docs', heap)
  BY <1>3, <1>10, <1>11 DEF Differ, Idle, ThreadResolves, Creating, Held
<1> QED BY <1>1, <1>5, <1>7, <1>9, <1>12, LWorker
-----------------------------------------------------------------------------
(***************************************************************************)
(* Beginning a request, and the three ways in which an insertion or a      *)
(* deletion goes on.                                                       *)
(***************************************************************************)
LEMMA BeginLinks ==
  ASSUME IInv, IInv', AllResolve, NEW w \in Worker, NEW op, NEW s, NEW p, NEW ret,
         Begin(w, op, s, p, ret), ret \in {"level", "remove", "root"}
  PROVE  AllResolve'
<1> DEFINE t == [Idle EXCEPT !.pc = "lookup", !.op = op, !.sub = s, !.lvl = 1,
                             !.key = PathKey(p), !.ret = ret]
<1>1. /\ th' = [th EXCEPT ![w] = t]
      /\ heap' = heap /\ cache' = cache /\ docs' = docs /\ status' = status
  BY DEF Begin
<1>2. Differ(t, Idle, {"pc", "op", "sub", "lvl", "key", "ret"}) /\ t.pc = "lookup" /\ t.ret = ret
  BY DEF Differ, Idle
<1>3. Elements(<<>>) = {}
  BY EmptySeq DEF Elements
<1> HIDE DEF t
<1>4. Held(t) = {Nil} /\ Nil \notin Elements(t.queue) \cup Elements(t.next)
  BY <1>2, <1>3 DEF Differ, Idle, Held
<1>5. ThreadResolves(t, docs, heap)
  BY <1>2, <1>4 DEF ThreadResolves, MatchResolves, Label, InLookup
<1>6. DOMAIN th = Worker /\ th'[w] = t
  BY <1>1 DEF IInv
<1>7. \A v \in Worker : \/ th'[v] = th[v]
                        \/ /\ ThreadResolves(th'[v], docs', heap)
                           /\ Held(th'[v]) \subseteq DOMAIN heap \cup {Nil}
  BY <1>1, <1>4, <1>5, <1>6
<1>8. Grows(docs, docs') /\ MemoryResolves(docs', heap, cache') /\ DocsResolve(docs')
      /\ status' # "panic"
  BY <1>1 DEF Grows, AllResolve
<1> QED BY <1>1, <1>7, <1>8, LStep

LEMMA GotoLinks ==
  ASSUME IInv, IInv', AllResolve, NEW w \in Worker, NEW l, Goto(w, l),
         th[w].op \in {"insert", "delete"}, th[w].pc \notin InSave, l \notin InSave
  PROVE  AllResolve'
<1> DEFINE u == th[w]
           t == [u EXCEPT !.pc = l]
<1>1. Local(w, t)
  BY DEF Goto
<1>2. ThreadOK(u, asked) /\ ThreadResolves(u, docs, heap)
  BY DEF IInv, AllResolve
<1>3. Differ(t, u, {"pc"}) /\ t.pc = l
  BY <1>2 DEF ThreadOK, Differ, Idle
<1> HIDE DEF t
<1>4. ThreadResolves(t, docs, heap)
  BY <1>2, <1>3 DEF Differ, Idle, ThreadResolves, Creating, Held, InSave
<1> QED BY <1>1, <1>4, LLocal

LEMMA AssignLinks ==
  ASSUME IInv, IInv', AllResolve, NEW w \in Worker, NEW r, NEW upd, NEW l,
         Assign(w, r, upd, l),
         th[w].op \in {"insert", "delete"}, th[w].pc \notin InSave, l # "level",
         r \in {th[w].cur, th[w].par},
         upd.field \in {"child", "plus"} => In(upd.id, docs)
  PROVE  AllResolve'
<1> DEFINE u == th[w]
           t == [u EXCEPT !.tgt = r, !.upd = upd, !.pc = "store", !.ret = l]
<1>1. Local(w, t)
  BY DEF Assign
<1>2. ThreadOK(u, asked) /\ ThreadResolves(u, docs, heap)
  BY DEF IInv, AllResolve
<1>3. /\ Differ(t, u, {"tgt", "upd", "pc", "ret"})
      /\ t.tgt = r /\ t.upd = upd /\ t.pc = "store" /\ t.ret = l
  BY <1>2 DEF ThreadOK, Differ, Idle
<1> HIDE DEF t
<1>4. Held(t) \subseteq Held(u)
  BY <1>3 DEF Differ, Idle, Held
<1>5. ThreadResolves(t, docs, heap)
  BY <1>2, <1>3, <1>4 DEF Differ, Idle, ThreadResolves, Creating, InSave
<1> QED BY <1>1, <1>5, LLocal

LEMMA LinkLinks ==
  ASSUME IInv, IInv', AllResolve, NEW w \in Worker, LinkLevel(w)
  PROVE  AllResolve'
<1> DEFINE u == th[w]
           f == u.sub.topic
           i == u.lvl
           id == [path |-> u.cur.path, n |-> heap[u.cur].n]
<1>1. u.pc = "level" /\ u.op = "insert"
  <2>1. ThreadOK(u, asked)
    BY DEF IInv
  <2> QED BY <2>1 DEF LinkLevel, At, ThreadOK, DeleteOK, MatchOK, InLookup, InSave
<1>2. u.cur # Nil
  BY <1>1, InsertFacts
<1>3. In(id, docs)
  <2>1. Named(u.cur, docs, heap)
    BY <1>1, <1>2 DEF AllResolve, ThreadResolves, Creating, Held
  <2> QED BY <2>1 DEF Named, In
<1>4. CASE Goto(w, "leaf") \/ Goto(w, "rejected")
  BY <1>1, <1>4, GotoLinks DEF InSave
<1>5. CASE Assign(w, u.par, [field |-> "plus", id |-> id], "leaf")
  BY <1>1, <1>3, <1>5, AssignLinks DEF InSave
<1>6. CASE Assign(w, u.par, [field |-> "hash", subs |-> With(heap[u.par].hash, u.sub)], "done")
  BY <1>1, <1>6, AssignLinks DEF InSave
<1>7. CASE Assign(w, u.par, [field |-> "child", level |-> f[i], id |-> id], "leaf")
  BY <1>1, <1>3, <1>7, AssignLinks DEF InSave
<1> QED BY <1>4, <1>5, <1>6, <1>7 DEF LinkLevel, Topic

LEMMA TerminalLinks ==
  ASSUME IInv, IInv', AllResolve, NEW w \in Worker, AddTerminal(w)
  PROVE  AllResolve'
<1> DEFINE u == th[w]
           upd == [field |-> "terminals", subs |-> With(heap[u.cur].terminals, u.sub)]
<1>1. u.pc = "leaf" /\ u.op = "insert"
  <2>1. ThreadOK(u, asked)
    BY DEF IInv
  <2> QED BY <2>1 DEF AddTerminal, At, ThreadOK, DeleteOK, MatchOK, InLookup, InSave
<1>2. CASE Goto(w, "next")
  BY <1>1, <1>2, GotoLinks DEF InSave
<1>3. CASE Assign(w, u.cur, upd, "next")
  BY <1>1, <1>3, AssignLinks DEF InSave
<1> QED BY <1>2, <1>3 DEF AddTerminal

LEMMA NextLevelLinks ==
  ASSUME IInv, IInv', AllResolve, NEW w \in Worker, NextLevel(w)
  PROVE  AllResolve'
<1> DEFINE u == th[w]
           i == u.lvl + 1
           k == PathKey(Prefix(u.sub.topic, i))
           v == [u EXCEPT !.par = u.cur, !.lvl = i]
           t == [v EXCEPT !.key = k, !.cur = Nil, !.pc = "lookup", !.ret = "level"]
<1>1. u.pc = "next" /\ u.op = "insert" /\ ThreadOK(u, asked)
      /\ ThreadResolves(u, docs, heap)
  <2>1. ThreadOK(u, asked) /\ ThreadResolves(u, docs, heap)
    BY DEF IInv, AllResolve
  <2> QED BY <2>1 DEF NextLevel, At, ThreadOK, DeleteOK, MatchOK, InLookup, InSave
<1>2. CASE Goto(w, "done")
  BY <1>1, <1>2, GotoLinks DEF InSave
<1>3. CASE Local(w, t)
  <2>1. /\ Differ(t, u, {"par", "lvl", "key", "cur", "pc", "ret"})
        /\ t.par = u.cur /\ t.cur = Nil /\ t.pc = "lookup"
    BY <1>1 DEF ThreadOK, Differ, Idle
  <2> HIDE DEF t
  <2>2. ThreadResolves(t, docs, heap)
    BY <1>1, <2>1 DEF Differ, Idle, ThreadResolves, Creating, Held
  <2> QED BY <2>2, <1>3, LLocal
<1> QED BY <1>2, <1>3 DEF NextLevel, Topic, Get

LEMMA RemoveLinks ==
  ASSUME IInv, IInv', AllResolve, NEW w \in Worker, RemoveTerminal(w)
  PROVE  AllResolve'
<1> DEFINE u == th[w]
           node == heap[u.cur]
<1>1. u.pc = "remove" /\ u.op = "delete"
  <2>1. ThreadOK(u, asked)
    BY DEF IInv
  <2> QED BY <2>1 DEF RemoveTerminal, At, ThreadOK, InsertOK, MatchOK, InLookup, InSave
<1>2. CASE Goto(w, "rejected")
  BY <1>1, <1>2, GotoLinks DEF InSave
<1>3. CASE Assign(w, u.cur, [field |-> "hash", subs |-> Except(node.hash, u.sub)], "done")
  BY <1>1, <1>3, AssignLinks DEF InSave
<1>4. CASE Assign(w, u.cur,
                  [field |-> "terminals", subs |-> Except(node.terminals, u.sub)], "done")
  BY <1>1, <1>4, AssignLinks DEF InSave
<1> QED BY <1>2, <1>3, <1>4 DEF RemoveTerminal
-----------------------------------------------------------------------------
(***************************************************************************)
(* Matching.                                                               *)
(***************************************************************************)
\* A match holds no node but those in the queues and the one just found.
LEMMA MatchLinks ==
  ASSUME IInv, IInv', AllResolve, NEW w \in Worker, NEW t, Local(w, t),
         th[w].pc \in {"root", "rootPlus", "visit", "child", "plus", "plusChild"},
         Held(t) \subseteq Held(th[w]) \cup {Nil}, t.pc \notin InSave,
         MatchResolves(t, docs)
  PROVE  AllResolve'
<1>1. ThreadResolves(th[w], docs, heap)
  BY DEF AllResolve
<1>2. \A r \in Held(t) \ {Nil} : Named(r, docs, heap)
  BY <1>1 DEF ThreadResolves, Creating
<1>3. ThreadResolves(t, docs, heap)
  BY <1>2 DEF ThreadResolves, InSave
<1> QED BY <1>3, LLocal

LEMMA RootLinks ==
  ASSUME IInv, IInv', AllResolve, NEW w \in Worker, Root(w)
  PROVE  AllResolve'
<1> DEFINE u == th[w]
           k == PathKey(<<"+">>)
           q == Queued(u.cur)
           v == [u EXCEPT !.queue = q]
           t == [v EXCEPT !.key = k, !.cur = Nil, !.pc = "lookup", !.ret = "rootPlus"]
<1>1. u.pc = "root" /\ Local(w, t)
  BY DEF Root, At, Get
<1>2. /\ ThreadOK(u, asked) /\ u.op = "match" /\ u.cur \in Ref \cup {Nil}
      /\ u.next \in Seq(Ref \cup {Nil}) /\ MatchResolves(u, docs)
  BY <1>1, MatchFacts DEF AllResolve, ThreadResolves
<1>3. /\ Differ(t, u, {"queue", "key", "cur", "pc", "ret"})
      /\ t.queue = q /\ t.cur = Nil /\ t.pc = "lookup" /\ t.ret = "rootPlus"
  BY <1>2 DEF ThreadOK, Differ, Idle
<1>4. Elements(q) \subseteq {u.cur} \ {Nil}
  <2>1. CASE u.cur = Nil
    BY <2>1, EmptySeq, ElementsFacts DEF Queued
  <2>2. CASE u.cur # Nil
    <3>1. q = <<u.cur>> /\ <<>> \in Seq(Ref \cup {Nil})
      BY <2>2, EmptySeq DEF Queued
    <3>2. Elements(<<u.cur>>) = {u.cur}
      BY <3>1, <1>2, ConcatElements
    <3> QED BY <3>1, <3>2, <2>2
  <2> QED BY <2>1, <2>2
<1> HIDE DEF t, q
<1>5. Held(t) \subseteq Held(u) \cup {Nil}
  BY <1>3, <1>4 DEF Differ, Idle, Held
<1>6. MatchResolves(t, docs)
  BY <1>2, <1>3, <1>4 DEF Differ, Idle, MatchResolves, Label, InLookup
<1> QED BY <1>1, <1>3, <1>5, <1>6, MatchLinks DEF InSave

LEMMA RootPlusLinks ==
  ASSUME IInv, IInv', AllResolve, NEW w \in Worker, RootPlus(w)
  PROVE  AllResolve'
<1> DEFINE u == th[w]
           q == Queued(u.cur) \o u.queue
           t == [u EXCEPT !.queue = q, !.cur = Nil, !.pc = "visit"]
<1>1. u.pc = "rootPlus" /\ Local(w, t)
  BY DEF RootPlus, At
<1>2. /\ ThreadOK(u, asked) /\ u.op = "match" /\ u.cur \in Ref \cup {Nil}
      /\ u.queue \in Seq(Ref \cup {Nil}) /\ MatchResolves(u, docs)
  BY <1>1, MatchFacts DEF AllResolve, ThreadResolves
<1>3. Differ(t, u, {"queue", "cur", "pc"}) /\ t.queue = q /\ t.cur = Nil /\ t.pc = "visit"
  BY <1>2 DEF ThreadOK, Differ, Idle
<1>4. Elements(q) \subseteq ({u.cur} \ {Nil}) \cup Elements(u.queue)
  <2>1. CASE u.cur = Nil
    <3>1. q = u.queue
      BY <2>1, <1>2 DEF Queued
    <3> QED BY <3>1
  <2>2. CASE u.cur # Nil
    BY <2>2, <1>2, ConcatElements DEF Queued
  <2> QED BY <2>1, <2>2
<1> HIDE DEF t, q
<1>5. Held(t) \subseteq Held(u) \cup {Nil}
  BY <1>3, <1>4 DEF Differ, Idle, Held
<1>6. MatchResolves(t, docs)
  BY <1>2, <1>3, <1>4 DEF Differ, Idle, MatchResolves, Label, InLookup
<1> QED BY <1>1, <1>3, <1>5, <1>6, MatchLinks DEF InSave

LEMMA VisitLinks ==
  ASSUME IInv, IInv', AllResolve, NEW w \in Worker, VisitNode(w)
  PROVE  AllResolve'
<1> DEFINE u == th[w]
           r == Front(w)
           l == u.sub.topic[u.lvl + 1]
           k == IdKey(heap[r].children[l])
           g == u.got (+) heap[r].hash
           v == [u EXCEPT !.got = g]
           t1 == [v EXCEPT !.key = k, !.cur = Nil, !.pc = "lookup", !.ret = "child"]
           t2 == [v EXCEPT !.pc = "plus"]
<1>1. u.pc = "visit" /\ u.queue # <<>> /\ r # Nil
  BY DEF VisitNode, At
<1>2. ThreadOK(u, asked) /\ u.op = "match" /\ MatchResolves(u, docs)
  BY <1>1, MatchFacts DEF AllResolve, ThreadResolves
<1>3. Resolves(heap[r], docs)
  <2>1. r \in DOMAIN heap
    BY <1>1, FrontFacts
  <2> QED BY <2>1 DEF AllResolve, MemoryResolves
<1>4. CASE l \in DOMAIN heap[r].children /\ Local(w, t1)
  <2>1. /\ Differ(t1, u, {"got", "key", "cur", "pc", "ret"})
        /\ t1.key = k /\ t1.cur = Nil /\ t1.pc = "lookup" /\ t1.ret = "child"
    BY <1>2 DEF ThreadOK, Differ, Idle
  <2>2. k.by = "_id" /\ In(k, docs)
    BY <1>3, <1>4 DEF Resolves, In, IdKey
  <2> HIDE DEF t1, k
  <2>3. Held(t1) \subseteq Held(u) \cup {Nil}
    BY <2>1 DEF Differ, Idle, Held
  <2>4. MatchResolves(t1, docs)
    BY <2>1, <2>2, <1>2 DEF Differ, Idle, MatchResolves, Label, InLookup
  <2> QED BY <2>1, <2>3, <2>4, <1>1, <1>4, MatchLinks DEF InSave
<1>5. CASE Local(w, t2)
  <2>1. Differ(t2, u, {"got", "pc"}) /\ t2.pc = "plus"
    BY <1>2 DEF ThreadOK, Differ, Idle
  <2> HIDE DEF t2
  <2>2. Held(t2) \subseteq Held(u) \cup {Nil}
    BY <2>1 DEF Differ, Idle, Held
  <2>3. MatchResolves(t2, docs)
    BY <2>1, <1>2 DEF Differ, Idle, MatchResolves, Label, InLookup
  <2> QED BY <2>1, <2>2, <2>3, <1>1, <1>5, MatchLinks DEF InSave
<1> QED BY <1>4, <1>5 DEF VisitNode, Topic, Get

LEMMA ChildLinks ==
  ASSUME IInv, IInv', AllResolve, NEW w \in Worker, ExactChild(w) \/ PlusChild(w)
  PROVE  AllResolve'
<1> DEFINE u == th[w]
           n == Append(u.next, u.cur)
           t1 == [u EXCEPT !.next = n, !.cur = Nil, !.pc = "plus"]
           t2 == [u EXCEPT !.next = n, !.cur = Nil, !.queue = Tail(u.queue), !.pc = "visit"]
<1>1. \/ u.pc = "child" /\ Local(w, t1)
      \/ u.pc = "plusChild" /\ Local(w, t2)
  BY DEF ExactChild, PlusChild, At
<1>2. /\ ThreadOK(u, asked) /\ MatchOK(u, asked) /\ u.op = "match"
      /\ u.queue \in Seq(Ref \cup {Nil}) /\ u.next \in Seq(Ref \cup {Nil})
      /\ u.cur \in Ref \cup {Nil} /\ MatchResolves(u, docs)
  BY <1>1, MatchFacts DEF AllResolve, ThreadResolves
<1>3. u.cur # Nil /\ u.queue # <<>>
  BY <1>1, <1>2 DEF MatchResolves, MatchOK, Label, InLookup
<1>4. Elements(n) = Elements(u.next) \cup {u.cur}
  BY <1>2, ElementsFacts
<1>5. Elements(Tail(u.queue)) \subseteq Elements(u.queue)
  BY <1>2, <1>3, ElementsFacts
<1>6. CASE u.pc = "child" /\ Local(w, t1)
  <2>1. Differ(t1, u, {"next", "cur", "pc"}) /\ t1.next = n /\ t1.cur = Nil /\ t1.pc = "plus"
    BY <1>2 DEF ThreadOK, Differ, Idle
  <2> HIDE DEF t1, n
  <2>2. Held(t1) \subseteq Held(u) \cup {Nil}
    BY <2>1, <1>4 DEF Differ, Idle, Held
  <2>3. MatchResolves(t1, docs)
    BY <2>1, <1>2, <1>3, <1>4 DEF Differ, Idle, MatchResolves, Label, InLookup
  <2> QED BY <2>1, <2>2, <2>3, <1>6, MatchLinks DEF InSave
<1>7. CASE u.pc = "plusChild" /\ Local(w, t2)
  <2>1. /\ Differ(t2, u, {"next", "cur", "queue", "pc"})
        /\ t2.next = n /\ t2.cur = Nil /\ t2.queue = Tail(u.queue) /\ t2.pc = "visit"
    BY <1>2 DEF ThreadOK, Differ, Idle
  <2> HIDE DEF t2, n
  <2>2. Held(t2) \subseteq Held(u) \cup {Nil}
    BY <2>1, <1>4, <1>5 DEF Differ, Idle, Held
  <2>3. MatchResolves(t2, docs)
    BY <2>1, <1>2, <1>3, <1>4, <1>5 DEF Differ, Idle, MatchResolves, Label, InLookup
  <2> QED BY <2>1, <2>2, <2>3, <1>7, MatchLinks DEF InSave
<1> QED BY <1>1, <1>6, <1>7

LEMMA VisitPlusLinks ==
  ASSUME IInv, IInv', AllResolve, NEW w \in Worker, VisitPlus(w)
  PROVE  AllResolve'
<1> DEFINE u == th[w]
           r == Front(w)
           k == IdKey(heap[r].plus)
           t1 == [u EXCEPT !.key = k, !.cur = Nil, !.pc = "lookup", !.ret = "plusChild"]
           t2 == [u EXCEPT !.queue = Tail(u.queue), !.pc = "visit"]
<1>1. u.pc = "plus"
  BY DEF VisitPlus, At
<1>2. /\ ThreadOK(u, asked) /\ MatchOK(u, asked) /\ u.op = "match"
      /\ u.queue \in Seq(Ref \cup {Nil}) /\ MatchResolves(u, docs)
  BY <1>1, MatchFacts DEF AllResolve, ThreadResolves
<1>3. u.queue # <<>> /\ r # Nil
  BY <1>1, <1>2 DEF MatchOK, Label, InLookup, Front
<1>4. Resolves(heap[r], docs)
  <2>1. r \in DOMAIN heap
    BY <1>1, <1>3, FrontFacts
  <2> QED BY <2>1 DEF AllResolve, MemoryResolves
<1>5. CASE heap[r].plus # NoID /\ Local(w, t1)
  <2>1. /\ Differ(t1, u, {"key", "cur", "pc", "ret"})
        /\ t1.key = k /\ t1.cur = Nil /\ t1.pc = "lookup" /\ t1.ret = "plusChild"
    BY <1>2 DEF ThreadOK, Differ, Idle
  <2>2. k.by = "_id" /\ In(k, docs)
    BY <1>4, <1>5 DEF Resolves, In, IdKey
  <2> HIDE DEF t1, k
  <2>3. Held(t1) \subseteq Held(u) \cup {Nil}
    BY <2>1 DEF Differ, Idle, Held
  <2>4. MatchResolves(t1, docs)
    BY <2>1, <2>2, <1>2 DEF Differ, Idle, MatchResolves, Label, InLookup
  <2> QED BY <2>1, <2>3, <2>4, <1>1, <1>5, MatchLinks DEF InSave
<1>6. CASE Local(w, t2)
  <2>1. Differ(t2, u, {"queue", "pc"}) /\ t2.queue = Tail(u.queue) /\ t2.pc = "visit"
    BY <1>2 DEF ThreadOK, Differ, Idle
  <2>2. Elements(Tail(u.queue)) \subseteq Elements(u.queue)
    BY <1>2, <1>3, ElementsFacts
  <2> HIDE DEF t2
  <2>3. Held(t2) \subseteq Held(u) \cup {Nil}
    BY <2>1, <2>2 DEF Differ, Idle, Held
  <2>4. MatchResolves(t2, docs)
    BY <2>1, <2>2, <1>2 DEF Differ, Idle, MatchResolves, Label, InLookup
  <2> QED BY <2>1, <2>3, <2>4, <1>1, <1>6, MatchLinks DEF InSave
<1> QED BY <1>5, <1>6 DEF VisitPlus, Get

LEMMA DescendLinks ==
  ASSUME IInv, IInv', AllResolve, NEW w \in Worker, Descend(w)
  PROVE  AllResolve'
<1> DEFINE u == th[w]
           l == IF u.next = <<>> THEN "done" ELSE "visit"
           t == [u EXCEPT !.queue = u.next, !.next = <<>>, !.lvl = u.lvl + 1, !.pc = l]
<1>1. u.pc = "visit" /\ Local(w, t)
  BY DEF Descend, At
<1>2. ThreadOK(u, asked) /\ u.op = "match" /\ MatchResolves(u, docs)
  BY <1>1, MatchFacts DEF AllResolve, ThreadResolves
<1>3. /\ Differ(t, u, {"queue", "next", "lvl", "pc"})
      /\ t.queue = u.next /\ t.next = <<>> /\ t.pc = l
  BY <1>2 DEF ThreadOK, Differ, Idle
<1>4. Elements(<<>>) = {}
  BY EmptySeq DEF Elements
<1> HIDE DEF t
<1>5. Held(t) \subseteq Held(u) \cup {Nil}
  BY <1>3, <1>4 DEF Differ, Idle, Held
<1>6. MatchResolves(t, docs)
  BY <1>2, <1>3, <1>4 DEF Differ, Idle, MatchResolves, Label, InLookup
<1> QED BY <1>1, <1>3, <1>5, <1>6, MatchLinks DEF InSave

LEMMA CollectLinks ==
  ASSUME IInv, IInv', AllResolve, NEW w \in Worker, CollectTerminals(w)
  PROVE  AllResolve'
<1> DEFINE u == th[w]
           g == u.got (+) heap[Front(w)].terminals
           t1 == [u EXCEPT !.pc = "done"]
           t2 == [u EXCEPT !.got = g, !.queue = Tail(u.queue)]
<1>1. u.pc = "visit"
  BY DEF CollectTerminals, At
<1>2. /\ ThreadOK(u, asked) /\ u.op = "match" /\ u.queue \in Seq(Ref \cup {Nil})
      /\ MatchResolves(u, docs)
  BY <1>1, MatchFacts DEF AllResolve, ThreadResolves
<1>3. CASE Local(w, t1)
  <2>1. Differ(t1, u, {"pc"}) /\ t1.pc = "done"
    BY <1>2 DEF ThreadOK, Differ, Idle
  <2> HIDE DEF t1
  <2>2. Held(t1) \subseteq Held(u) \cup {Nil}
    BY <2>1 DEF Differ, Idle, Held
  <2>3. MatchResolves(t1, docs)
    BY <2>1, <1>2 DEF Differ, Idle, MatchResolves, Label, InLookup
  <2> QED BY <2>1, <2>2, <2>3, <1>1, <1>3, MatchLinks DEF InSave
<1>4. CASE u.queue # <<>> /\ Local(w, t2)
  <2>1. Differ(t2, u, {"got", "queue"}) /\ t2.queue = Tail(u.queue)
    BY <1>2 DEF ThreadOK, Differ, Idle
  <2>2. Elements(Tail(u.queue)) \subseteq Elements(u.queue)
    BY <1>2, <1>4, ElementsFacts
  <2> HIDE DEF t2
  <2>3. Held(t2) \subseteq Held(u) \cup {Nil}
    BY <2>1, <2>2 DEF Differ, Idle, Held
  <2>4. MatchResolves(t2, docs)
    BY <2>1, <2>2, <1>1, <1>2 DEF Differ, Idle, MatchResolves, Label, InLookup
  <2>5. t2.pc = "visit"
    BY <2>1, <1>1 DEF Differ, Idle
  <2> QED BY <2>3, <2>4, <2>5, <1>1, <1>4, MatchLinks DEF InSave
<1> QED BY <1>3, <1>4 DEF CollectTerminals, Goto

\* The dereference of nil cannot happen.
LEMMA NoNilNode ==
  ASSUME IInv, AllResolve, NEW w \in Worker, NilNode(w)
  PROVE  FALSE
<1>1. th[w].pc = "visit" /\ th[w].queue # <<>> /\ Front(w) = Nil
  BY DEF NilNode, At
<1>2. Nil \in Elements(th[w].queue)
  BY <1>1, MatchFacts, ElementsFacts DEF Front
<1>3. th[w].op = "match"
  BY <1>1, MatchFacts
<1> QED BY <1>2, <1>3 DEF AllResolve, ThreadResolves, MatchResolves
-----------------------------------------------------------------------------
LEMMA IdleResolves ==
  ASSUME NEW d, NEW h
  PROVE  ThreadResolves(Idle, d, h) /\ Held(Idle) = {Nil}
<1>1. Elements(<<>>) = {}
  BY EmptySeq DEF Elements
<1> QED BY <1>1 DEF ThreadResolves, Idle, Held

LEMMA ReturnLinks ==
  ASSUME IInv, IInv', AllResolve, NEW w \in Worker, Return(w)
  PROVE  AllResolve'
<1>1. /\ th' = [th EXCEPT ![w] = Idle] /\ cache' = cache /\ docs' = docs /\ status' = status
      /\ heap' = [q \in DOMAIN heap \cap Live' |-> heap[q]]
  BY DEF Return, Collect
<1>2. DocsResolve(docs) /\ Grows(docs, docs) /\ MemoryResolves(docs, heap, cache)
  BY DEF AllResolve, Grows
<1> QED BY <1>1, <1>2, IdleResolves, LWorker

LEMMA EvictLinks ==
  ASSUME IInv, IInv', AllResolve, Evict
  PROVE  AllResolve'
<1>1. /\ th' = th /\ docs' = docs /\ status' = status
      /\ \E k \in DOMAIN cache : cache' = [j \in DOMAIN cache \ {k} |-> cache[j]]
      /\ heap' = [q \in DOMAIN heap \cap Live' |-> heap[q]]
  BY DEF Evict, Collect
<1>2. DocsResolve(docs) /\ Grows(docs, docs) /\ MemoryResolves(docs, heap, cache')
  BY <1>1 DEF AllResolve, Grows, MemoryResolves
<1> QED BY <1>1, <1>2, LStep DEF AllResolve

LEMMA RestartLinks ==
  ASSUME AllResolve, Restart
  PROVE  AllResolve'
<1>1. /\ th' = [w \in Worker |-> Idle] /\ heap' = <<>> /\ cache' = <<>>
      /\ docs' = docs /\ status' = "up"
  BY DEF Restart
<1>2. DOMAIN <<>> = {}
  OBVIOUS
<1>3. MemoryResolves(docs', heap', cache')
  BY <1>1, <1>2 DEF MemoryResolves
<1> QED BY <1>1, <1>3, IdleResolves DEF AllResolve

LEMMA LInvInit == Init => LInv
<1> SUFFICES ASSUME Init PROVE LInv
  OBVIOUS
<1>1. /\ th = [w \in Worker |-> Idle] /\ heap = <<>> /\ cache = <<>> /\ docs = <<>>
      /\ status = "up"
  BY DEF Init
<1>2. DOMAIN <<>> = {}
  OBVIOUS
<1>3. MemoryResolves(docs, heap, cache) /\ DocsResolve(docs)
  BY <1>1, <1>2 DEF MemoryResolves, DocsResolve
<1>4. Counted
  BY DEF Init, Counted
<1> QED BY <1>1, <1>3, <1>4, IdleResolves DEF LInv, AllResolve

(***************************************************************************)
(* Failures and refusals are counted and never forgotten.                  *)
(***************************************************************************)
LEMMA CountedNext ==
  ASSUME Counted, [Next]_vars
  PROVE  Counted' /\ (Unharmed' => Unharmed)
<1> DEFINE Up == \/ spent' = spent
                 \/ spent' = [spent EXCEPT !.errors = spent.errors + 1]
                 \/ spent' = [spent EXCEPT !.requests = spent.requests + 1]
                 \/ spent' = [spent EXCEPT !.restarts = spent.restarts + 1]
                 \/ spent' = [spent EXCEPT !.refused = TRUE]
<1>1. Up
  <2>1. ASSUME NEW w \in Worker, Fetch(w) PROVE Up
    BY <2>1 DEF Fetch, CacheHit, CacheMiss, FindOne, FindNothing, Fill, Create, Goto, Local
  <2>2. ASSUME NEW w \in Worker, Save(w) PROVE Up
    BY <2>2 DEF Save, Store, ReplaceOne, DuplicatePath, ReplaceFails
  <2>3. ASSUME NEW w \in Worker, Insert(w) \/ RemoveTerminal(w) \/ Return(w) PROVE Up
    BY <2>3 DEF Insert, LinkLevel, AddTerminal, NextLevel, RemoveTerminal, Return,
                Goto, Get, Assign, Local
  <2>4. ASSUME NEW w \in Worker, Match(w) PROVE Up
    BY <2>4 DEF Match, Root, RootPlus, VisitNode, ExactChild, VisitPlus, PlusChild,
                Descend, CollectTerminals, NilNode, Goto, Get, Local
  <2>5. ASSUME NEW w, Subscribe(w) \/ Unsubscribe(w) \/ Publish(w) PROVE Up
    BY <2>5 DEF Subscribe, Unsubscribe, Publish, Begin
  <2>6. CASE Evict \/ RaceFault \/ Kill \/ Restart \/ Rest \/ UNCHANGED vars
    BY <2>6 DEF Evict, RaceFault, Kill, Restart, Rest, vars
  <2> QED BY <2>1, <2>2, <2>3, <2>4, <2>5, <2>6 DEF Next, Run
<1>2. spent' \in [requests : Nat, errors : Nat, restarts : Nat, refused : BOOLEAN]
  <2>1. /\ DOMAIN spent = {"requests", "errors", "restarts", "refused"}
        /\ spent.requests \in Nat /\ spent.errors \in Nat /\ spent.restarts \in Nat
        /\ spent.requests + 1 \in Nat /\ spent.errors + 1 \in Nat
        /\ spent.restarts + 1 \in Nat
    BY DEF Counted
  <2> QED BY <2>1, <1>1, Zenon DEF Counted
<1>4. spent'.errors = 0 => spent.errors = 0
  BY <1>1 DEF Counted
<1>3. spent'.refused = spent.refused \/ spent'.refused = TRUE
  BY <1>1 DEF Counted
<1> QED BY <1>2, <1>3, <1>4 DEF Counted, Unharmed

LEMMA LInvNext == IInv /\ IInv' /\ LInv /\ [Next]_vars => LInv'
<1> SUFFICES ASSUME IInv, IInv', LInv, [Next]_vars, Unharmed' PROVE AllResolve'
  BY CountedNext DEF LInv
<1>1. AllResolve /\ Counted
  BY CountedNext DEF LInv
<1>2. ASSUME NEW w \in Worker, FindNothing(w) PROVE ~Stored(th[w].key)
  BY <1>1, <1>2 DEF FindNothing, Unharmed, Counted
<1>3. ASSUME NEW w \in Worker, Fetch(w) PROVE AllResolve'
  BY <1>1, <1>2, <1>3, HitLinks, MissLinks, FindOneLinks, FindNothingLinks, FillLinks,
     CreateLinks DEF Fetch
<1>4. ASSUME NEW w \in Worker PROVE ~DuplicatePath(w) /\ ~ReplaceFails(w)
  BY <1>1 DEF DuplicatePath, ReplaceFails, Unharmed, Counted
<1>5. ASSUME NEW w \in Worker, Save(w) PROVE AllResolve'
  BY <1>1, <1>4, <1>5, StoreLinks, ReplaceLinks DEF Save
<1>6. ASSUME NEW w \in Worker, Insert(w) PROVE AllResolve'
  BY <1>1, <1>6, LinkLinks, TerminalLinks, NextLevelLinks DEF Insert
<1>7. ASSUME NEW w \in Worker, Match(w) PROVE AllResolve'
  BY <1>1, <1>7, RootLinks, RootPlusLinks, VisitLinks, ChildLinks, VisitPlusLinks,
     DescendLinks, CollectLinks, NoNilNode DEF Match
<1>8. ASSUME NEW w \in Worker, Run(w) PROVE AllResolve'
  BY <1>1, <1>3, <1>5, <1>6, <1>7, <1>8, RemoveLinks, ReturnLinks DEF Run
<1>9. ASSUME NEW w \in Worker, Subscribe(w) \/ Unsubscribe(w) \/ Publish(w)
      PROVE  AllResolve'
  BY <1>1, <1>9, BeginLinks DEF Subscribe, Unsubscribe, Publish
<1>10. CASE RaceFault \/ Kill
  BY <1>1, <1>10 DEF RaceFault, Kill, AllResolve
<1>11. CASE Rest \/ UNCHANGED vars
  BY <1>1, <1>11 DEF Rest, vars, AllResolve
<1> QED BY <1>1, <1>8, <1>9, <1>10, <1>11, EvictLinks, RestartLinks DEF Next, Worker

(***************************************************************************)
(* As long as every database call went through and no save was refused, a  *)
(* link that is stored or held leads to a stored document and MatchTopic   *)
(* does not dereference nil, however the goroutines interleave and however *)
(* old the cached nodes are.                                               *)
(***************************************************************************)
THEOREM LinksResolveHolds == Spec => []LinksResolve
<1>1. LInv => LinksResolve
  BY DEF LInv, Unharmed, AllResolve, MemoryResolves, DocsResolve, Resolves, In,
         LinksResolve, Exists
<1> QED BY <1>1, IInvInvariant, LInvInit, LInvNext, PTL DEF Spec
=============================================================================
