--------------------------- MODULE MCSubscriptions ---------------------------
(* Filters of up to two levels, with two that differ in a wildcard only at  *)
(* each level and one that shares its node with another; topics of up to    *)
(* three levels, and one that holds a wildcard, which publishes may.        *)
EXTENDS Subscriptions, TLC

CONSTANTS c1, c2

SomeFilters == {<<"a">>, <<"+">>, <<"#">>, <<"a", "b">>, <<"a", "+">>, <<"a", "#">>,
                <<"+", "b">>, <<"+", "#">>}
SomeMalformed == {<<"a", "#", "b">>, <<"x+">>}
SomeTopics == {<<"a">>, <<"b">>, <<"a", "a">>, <<"a", "b">>, <<"b", "b">>,
               <<"a", "b", "a">>, <<"a", "+">>}
SomeSubscribers == {[client_id |-> c1], [client_id |-> c2]}
Symmetry == Permutations({c1, c2})
==============================================================================
