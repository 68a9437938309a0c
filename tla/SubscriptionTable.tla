-------------------------- MODULE SubscriptionTable --------------------------
(* What the trie promises its callers: a table of subscriptions.  It holds  *)
(* for each filter, on its own, how many times each subscriber subscribed.  *)
(* The calls are visible: called names the last one with its arguments, so  *)
(* what implements the table has to do for each call what that call asks    *)
(* for, and can neither ignore it nor do the work of another.               *)
EXTENDS Integers, Sequences

CONSTANTS
    Filters,        \* valid filters
    Malformed,      \* other filters that a client may name to unsubscribe
    Subscribers     \* records with the client_id of a subscriber

VARIABLES table, called

TableInit ==
    /\ table = [f \in Filters |-> [s \in Subscribers |-> 0]]
    /\ called = [op |-> "none"]

Subscribe(f, s) ==
    /\ called' = [op |-> "add", filter |-> f, subscriber |-> s]
    /\ table' = [table EXCEPT ![f][s] = @ + 1]

(* All subscriptions of a client to a filter end together. *)
Drop(row, client_id) ==
    [s \in Subscribers |-> IF s.client_id = client_id THEN 0 ELSE row[s]]

Unsubscribe(f, client_id) ==
    /\ called' = [op |-> "remove", filter |-> f, client_id |-> client_id]
    /\ table' = [table EXCEPT ![f] = Drop(@, client_id)]

(* A malformed filter f is not refused.  It is read up to its first "#", so *)
(* "a/#/b" ends the subscriptions of the client to "a/#"; without a "#" it  *)
(* stands for no filter.                                                    *)
ReadAs(f, g) ==
    /\ g[Len(g)] = "#"
    /\ Len(g) <= Len(f)
    /\ g = SubSeq(f, 1, Len(g))

UnsubscribeMalformed(f, client_id) ==
    /\ called' = [op |-> "remove", filter |-> f, client_id |-> client_id]
    /\ table' = [g \in Filters |-> IF ReadAs(f, g) THEN Drop(table[g], client_id)
                                                   ELSE table[g]]

Purge(client_id) ==
    /\ called' = [op |-> "remove_all_for_client", client_id |-> client_id]
    /\ table' = [f \in Filters |-> Drop(table[f], client_id)]

ClientIdsOf == {s.client_id : s \in Subscribers}

TableNext ==
    \/ \E f \in Filters, s \in Subscribers : Subscribe(f, s)
    \/ \E f \in Filters, c \in ClientIdsOf : Unsubscribe(f, c)
    \/ \E f \in Malformed, c \in ClientIdsOf : UnsubscribeMalformed(f, c)
    \/ \E c \in ClientIdsOf : Purge(c)

TableSpec == TableInit /\ [][TableNext]_<<table, called>>
==============================================================================
