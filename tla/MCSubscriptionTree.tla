------------------------- MODULE MCSubscriptionTree -------------------------
EXTENDS SubscriptionTreeProps, TLC

AB     == <<"a", "b">>
APlus  == <<"a", "+">>
PlusB  == <<"+", "b">>
AHash  == <<"a", "#">>
HashB  == <<"a", "#", "b">>

SerialFilters == {AB, APlus, AHash, <<"#">>, PlusB, HashB}
SerialTopics  == {AB, <<"a">>}
RaceFilters   == {AB, APlus}
RaceTopics    == {AB, <<"a", "a">>}
JustAB        == {AB}
NoFilters     == {}

Symmetry == Permutations(Client)
=============================================================================
