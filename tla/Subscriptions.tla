---------------------------- MODULE Subscriptions ----------------------------
(* The trie over its lifetime: any sequence of the calls the broker makes   *)
(* on it under its RwLock, and the table of subscriptions it implements.    *)
EXTENDS TopicTree

CONSTANTS
    Filters,        \* the valid filters that clients subscribe to
    Malformed,      \* what else they send in an UNSUBSCRIBE, which
                    \* Broker::handle_unsubscribe does not validate
    Topics,         \* topics of publishes
    Subscribers,    \* subscribers, records with a client_id
    MaxEntries      \* bound on the subscriptions held at a time

ASSUME SubscriptionsAssumption ==
    /\ \A f \in Filters : f \in Seq(STRING) /\ f # <<>> /\ ValidFilter(f)
    /\ \A f \in Malformed : f \in Seq(STRING) /\ f # <<>> /\ ~ValidFilter(f)
    /\ \A t \in Topics : t \in Seq(STRING) /\ t # <<>>

VARIABLES
    tree,
    called          \* history: the last call made, with its arguments

treeVars == <<tree, called>>

ClientIds == {s.client_id : s \in Subscribers}

(* How many times s is subscribed to f, for the refinement. *)
Copies(f, s) == Count(Vector(tree, Place(f)), s)

Entries == MapThenSumSet(LAMBDA path : BagCardinality(tree[path].subs)
                                         + BagCardinality(tree[path].multi),
                         DOMAIN tree)

TreeInit == tree = EmptyTree /\ called = [op |-> "none"]

AddSubscriber(f, s) ==
    /\ Entries < MaxEntries
    /\ tree' = Add(tree, f, s)
    /\ called' = [op |-> "add", filter |-> f, subscriber |-> s]

RemoveSubscriber(f, c) ==
    /\ tree' = Remove(tree, {f}, c)
    /\ called' = [op |-> "remove", filter |-> f, client_id |-> c]

RemoveClient(c) ==
    /\ tree' = RemoveAllForClient(tree, c)
    /\ called' = [op |-> "remove_all_for_client", client_id |-> c]

TreeNext ==
    \/ \E f \in Filters, s \in Subscribers : AddSubscriber(f, s)
    \/ \E f \in Filters \cup Malformed, c \in ClientIds : RemoveSubscriber(f, c)
    \/ \E c \in ClientIds : RemoveClient(c)

TreeSpec == TreeInit /\ [][TreeNext]_treeVars

------------------------------------------------------------------------------
(* The paths are prefix-closed, "#" is no node, and a vector holds only     *)
(* subscribers, each a positive number of times.                            *)
TreeTypeOK ==
    /\ <<>> \in DOMAIN tree
    /\ \A path \in DOMAIN tree :
           /\ Prefixes(path) \subseteq DOMAIN tree
           /\ \A i \in DOMAIN path : path[i] # "#"
    /\ \A place \in Places(tree) :
           LET vector == Vector(tree, place)
           IN /\ DOMAIN vector \subseteq Subscribers
              /\ \A s \in DOMAIN vector : vector[s] \in Nat \ {0}

(* matches_recursive reaches exactly the nodes that Visited describes.      *)
WalkIsVisited ==
    \A topic \in Topics : Walk(tree, topic) = Visited(tree, topic)

(* No subscription is overlooked: matches returns each subscription to a    *)
(* filter that matches the topic, as often as it was made.                  *)
FindsEveryMatch ==
    \A topic \in Topics : \A f \in Filters :
        FilterMatches(f, topic) => Elements(tree, Place(f)) \subseteq Matches(tree, topic)

(* "matches(topic): Encuentra todos los suscriptores que matchean un topico"*)
(* (ARCHITECTURE.md:113), and "+" is a "single-level wildcard"              *)
(* (docker_description.md:45), but every node on the way contributes its    *)
(* subscribers.  What matches returns is therefore told by the prefixes of  *)
(* the topic: the subscriptions, each as often as it was made, to the       *)
(* filters that match the topic or a proper prefix of it, the empty one     *)
(* included for "#".                                                        *)
FindsPrefixMatches ==
    \A topic \in Topics :
        Matches(tree, topic) =
            UNION {Elements(tree, Place(f)) :
                f \in {f \in Filters : \E t \in Prefixes(topic) : FilterMatches(f, t)}}

(* The trie is the table, and each call on it the table's operation with    *)
(* the arguments of the call: add and remove change the row of their own    *)
(* filter, for their own subscriber or client, and no other; a remove does  *)
(* remove; remove_all_for_client empties every row of its client and of no  *)
(* other.  "remove(filter, client_id): Elimina suscriptor especifico"       *)
(* (ARCHITECTURE.md:114) has one exception, which the table states: what    *)
(* follows a "#" is not looked at, so that an UNSUBSCRIBE from the          *)
(* malformed "a/#/b" ends the subscription to "a/#".                        *)
Table == INSTANCE SubscriptionTable
             WITH table <- [f \in Filters |-> [s \in Subscribers |-> Copies(f, s)]]
ImplementsTable == Table!TableSpec

==============================================================================
