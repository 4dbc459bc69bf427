------------------------------- MODULE Topics -------------------------------
(***************************************************************************)
(* Topic names and topic filters, split at "/" as MatchTopic,              *)
(* InsertSubscription and DeleteSubscription split them.  A topic is the   *)
(* sequence of its levels, so joining the first i levels is SubSeq.  An    *)
(* empty level is not a member of Level: "a//b" is out of the model.       *)
(***************************************************************************)
EXTENDS Naturals, Sequences

CONSTANT Level           \* the ordinary topic levels, e.g. {"a", "b"}

ASSUME LevelAssumption == "+" \notin Level /\ "#" \notin Level

Token == Level \cup {"+", "#"}
Path  == Seq(Token)

Last(p)      == p[Len(p)]
Prefix(p, i) == SubSeq(p, 1, i)
Parent(p)    == SubSeq(p, 1, Len(p) - 1)

\* slices.Contains(levels, "#")
HasHash(f) == \E i \in 1..Len(f) : f[i] = "#"

(***************************************************************************)
(* What a subscription to filter f promises: "+" stands for one level, a   *)
(* final "#" for one or more levels below its parent.                      *)
(***************************************************************************)
LevelwiseMatch(f, t) == \A i \in 1..Len(f) : f[i] = "+" \/ f[i] = t[i]

Covers(f, t) ==
    IF f # <<>> /\ Last(f) = "#"
    THEN Len(t) >= Len(f) /\ LevelwiseMatch(Parent(f), t)
    ELSE Len(t) = Len(f) /\ LevelwiseMatch(f, t)
=============================================================================
