-------------------------- MODULE SubscriptionBook --------------------------
(***************************************************************************)
(* What InsertSubscription and DeleteSubscription of                       *)
(* internal/database/subscription_tree.go promise together: a book of who  *)
(* is subscribed to which filter with which QoS.                           *)
(***************************************************************************)
EXTENDS Naturals, Sequences

CONSTANT Sub           \* the subscriptions that clients ask for

VARIABLES
    book,              \* the subscriptions a match can find
    leaving,           \* those that a running DeleteSubscription withdraws
    acked              \* those that were accepted and not withdrawn since

vars == <<book, leaving, acked>>

Same(s, t)    == s.client = t.client /\ s.topic = t.topic
Without(B, s) == {t \in B : ~Same(s, t)}
Listed(s)     == \E t \in book : Same(s, t)

\* The slice of "#" subscriptions is appended to without a look at it, so a
\* client may be in it with several QoS; any other filter keeps the first.
Repeatable(s) == Len(s.topic) > 1 /\ s.topic[Len(s.topic)] = "#"

Init == book = {} /\ leaving = {} /\ acked = {}

\* An insertion writes its entry; later it reports that it did.
Enter(s) ==
    /\ Repeatable(s) \/ ~Listed(s)
    /\ book' = book \cup {s}
    /\ UNCHANGED <<leaving, acked>>

Accept(s) ==
    /\ Listed(s)
    /\ acked' = Without(acked, s) \cup {s}
    /\ UNCHANGED <<book, leaving>>

\* A deletion begins; it strikes the entries of the client and the filter.
Withdraw(s) ==
    /\ acked' = Without(acked, s)
    /\ leaving' = leaving \cup {s}
    /\ UNCHANGED book

Strike(s) ==
    /\ s \in leaving
    /\ \A t \in acked : ~Same(s, t)
    /\ book' = Without(book, s)
    /\ UNCHANGED <<leaving, acked>>

\* It returns, found something to strike or not, or dies with the process.
Finish ==
    /\ leaving' \subseteq leaving
    /\ UNCHANGED <<book, acked>>

Next == \/ \E s \in Sub : Enter(s) \/ Accept(s) \/ Withdraw(s) \/ Strike(s)
        \/ Finish

Spec == Init /\ [][Next]_vars
=============================================================================
