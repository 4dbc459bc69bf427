------------------------- MODULE SessionStoreProps -------------------------
(***************************************************************************)
(* What a client may rely on once its session was saved, and under which   *)
(* conditions.                                                             *)
(***************************************************************************)
EXTENDS SessionStore

(***************************************************************************)
(* Types.  An object in the map is a temporary session of that client, one *)
(* in the cache a lasting session, and a handler in the loop has a session *)
(* of its own client.                                                      *)
(***************************************************************************)
Holding == {"save", "encode", "write", "recache", "saved", "unsaved", "insert",
            "record", "delete", "forget", "clear", "loop"}
Labels == Holding \cup {"ready", "done", "dropMap", "dropCache", "dropDoc", "lookup",
                     "lookupCache", "find", "fill", "create"}

IsHandler(t) ==
    /\ t.pc \in Labels
    /\ t.client \in Client \cup {NoClient} /\ t.clean \in BOOLEAN
    /\ t.obj \in Conn \cup {Nil} /\ t.pc \in Holding => t.obj \in Conn
    /\ t.pc \notin {"ready", "done"} => t.client \in Client
    /\ {t.request, t.todo, t.cur, t.buf} \subseteq SUBSET Topic
    /\ t.ret \in {"create", "created", "suback", "loop", "done"}

TypeOK ==
    /\ \A k \in Client : /\ sessions[k] # Nil => heap[sessions[k]].temp
                         /\ cache[k] # Nil => ~heap[cache[k]].temp
    /\ docs \in [Client -> [stored : BOOLEAN, subs : SUBSET Topic]]
    /\ heap \in [Conn -> Session]
    /\ tree \subseteq Client \X Topic /\ kept \subseteq Client \X Topic
    /\ \A c \in Conn : IsHandler(th[c])
    /\ up \in BOOLEAN
    /\ superseded \subseteq Conn /\ unsettled \subseteq Client

(***************************************************************************)
(* A subscription that a lasting session has acknowledged and that was not *)
(* withdrawn is in the stored session, through reconnections, evictions,   *)
(* failing saves, restarts and takeovers of a connection, unless the       *)
(* client used a connection it had left or its session could not be read.  *)
(***************************************************************************)
KeptIsStored ==
    \A s \in kept : s[1] \notin unsettled => docs[s[1]].stored /\ s[2] \in docs[s[1]].subs

(***************************************************************************)
(* Such a subscription is in the topic tree too, as long as no database    *)
(* call failed: the end of a temporary session of the same client, before  *)
(* or after, does not take it away.                                        *)
(***************************************************************************)
KeptIsRouted ==
    spent.errors = 0 => \A s \in kept : s[1] \notin unsettled => s \in tree

(***************************************************************************)
(* A client has not both a temporary session in the map and a stored one:  *)
(* that DeleteSession stops at the map loses nothing, as long as deletions *)
(* succeed and the client has one handler at a time.                       *)
(***************************************************************************)
OneSession ==
    spent.errors = 0 =>
        \A k \in Client \ unsettled : ~(sessions[k] # Nil /\ docs[k].stored)

(***************************************************************************)
(* What the cache holds for a client is the object its handler works on,   *)
(* so that a reconnecting client goes on with what its last handler left   *)
(* and not with an older copy.                                             *)
(***************************************************************************)
CacheIsCurrent ==
    \A c \in Conn \ superseded : th[c].pc \in Holding /\ K(c) \notin unsettled =>
        cache[K(c)] \in {Nil, th[c].obj}

(***************************************************************************)
(* When a temporary session ends with DISCONNECT, nothing more is routed   *)
(* to it: its subscriptions are out of the tree when the handler ends.     *)
(***************************************************************************)
Ends(c) == th[c].ret = "done" /\ th'[c].pc = "done" /\ up'

Cleaned ==
    \A c \in Conn :
        Ends(c) /\ Mine(c).temp /\ K(c) \notin unsettled /\ spent.errors = 0
            => \A t \in Mine(c).subs : <<K(c), t>> \notin tree'

DisconnectCleans == [][Cleaned]_vars

(***************************************************************************)
(* The tree routes to a client only what some session of it records, and   *)
(* what its stored session records is in the tree.  In the absence of      *)
(* database errors three things alone set them apart: the end of the       *)
(* process, a clean CONNECT, which deletes the session and not its         *)
(* subscriptions, and UNSUBSCRIBE, which does not save the session.        *)
(***************************************************************************)
Current(k) == Others(k) \ superseded
Objects(k) == ({sessions[k], cache[k]} \cup {th[c].obj : c \in Current(k)}) \ {Nil}

Recorded(k) == docs[k].subs \cup (UNION {heap[o].subs : o \in Objects(k)})
               \cup (UNION {th[c].cur : c \in Current(k)})

Routed(k)  == {t \in Topic : <<k, t>> \in tree}
Orphans(k) == Routed(k) \ Recorded(k)
Ghosts(k)  == docs[k].subs \ Routed(k)

Caused(k) ==
    /\ Orphans(k)' \subseteq Orphans(k) \/ \E c \in Current(k) : th[c].ret = "create"
    /\ Ghosts(k)' \subseteq Ghosts(k) \/ \E c \in Current(k) : th[c].pc = "delete"

AllCaused == spent.errors' = 0 /\ up' => \A k \in Client \ unsettled' : Caused(k)

DivergenceHasCause == [][AllCaused]_vars
=============================================================================
