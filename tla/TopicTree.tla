----------------------------- MODULE TopicTree -------------------------------
(* The trie of subscriptions (src/broker/subscriptions.rs) as a value, with *)
(* one operator for each of its methods.                                    *)
(*                                                                          *)
(* A topic or a filter is the sequence of its levels, what split('/')       *)
(* returns.  The trie is a function from the paths of its nodes, a          *)
(* prefix-closed set, to the two vectors of subscribers of a node.  The     *)
(* step to the child single_wildcard is the level "+"; no entry of the map  *)
(* children has that key, nor "#".  A vector is the bag of its elements:    *)
(* it may hold a subscriber twice, and its order is left out.               *)
EXTENDS Integers, Sequences, FiniteSetsExt, Bags

Wildcards == {"+", "#"}

(* "x#" and "x+" stand for the levels that hold a wildcard character next   *)
(* to other characters.                                                     *)
HasHash(level) == level \in {"#", "x#"}
HasPlus(level) == level \in {"+", "x+"}

(* is_valid_topic_filter *)
ValidFilter(filter) ==
    /\ filter # <<"">>
    /\ \A i \in DOMAIN filter :
           /\ HasHash(filter[i]) => filter[i] = "#" /\ i = Len(filter)
           /\ HasPlus(filter[i]) => filter[i] = "+"

------------------------------------------------------------------------------
Node == [subs |-> EmptyBag, multi |-> EmptyBag]
EmptyTree == [path \in {<<>>} |-> Node]

Prefixes(path) == {SubSeq(path, 1, n) : n \in 0 .. Len(path)}

(* The first "#" of a filter, where add and remove stop: what follows is    *)
(* not looked at.                                                           *)
HashAt(filter) ==
    CHOOSE n \in 1 .. Len(filter) + 1 :
        /\ n <= Len(filter) => filter[n] = "#"
        /\ \A i \in 1 .. n - 1 : filter[i] # "#"
Multi(filter) == HashAt(filter) <= Len(filter)
NodeOf(filter) == SubSeq(filter, 1, HashAt(filter) - 1)

(* Where add and remove put the subscribers of a filter: one of the two     *)
(* vectors of a node, the second for a "#".                                 *)
Place(filter) == <<NodeOf(filter), Multi(filter)>>

Vector(tree, place) ==
    IF place[1] \notin DOMAIN tree THEN EmptyBag
    ELSE IF place[2] THEN tree[place[1]].multi ELSE tree[place[1]].subs

Places(tree) == (DOMAIN tree) \X BOOLEAN

(* How many copies of a subscriber a vector holds. *)
Count(vector, s) == IF s \in DOMAIN vector THEN vector[s] ELSE 0

(* Mutant: the "#" is the name of a level like any other. *)
AddHashAsLevel(tree, filter, subscriber) ==
    LET Pushed(bag, place) ==
            IF place = <<filter, FALSE>> THEN bag (+) SetToBag({subscriber}) ELSE bag
    IN [path \in DOMAIN tree \cup Prefixes(filter) |->
           [subs |-> Pushed(Vector(tree, <<path, FALSE>>), <<path, FALSE>>),
            multi |-> Pushed(Vector(tree, <<path, TRUE>>), <<path, TRUE>>)]]

Add(tree, filter, subscriber) ==
    LET Pushed(bag, place) ==
            IF place = Place(filter) THEN bag (+) SetToBag({subscriber}) ELSE bag
    IN [path \in DOMAIN tree \cup Prefixes(NodeOf(filter)) |->
           [subs |-> Pushed(Vector(tree, <<path, FALSE>>), <<path, FALSE>>),
            multi |-> Pushed(Vector(tree, <<path, TRUE>>), <<path, TRUE>>)]]

(* Vec::retain(|s| s.client_id != client_id) *)
Retain(bag, client_id) ==
    [s \in {s \in DOMAIN bag : s.client_id # client_id} |-> bag[s]]

(* Mutant: the whole node goes, with the client's other filter there. *)
RemoveFromNodes(tree, filters, client_id) ==
    [path \in DOMAIN tree |->
        IF path \notin {NodeOf(f) : f \in filters}
        THEN tree[path]
        ELSE [subs |-> Retain(tree[path].subs, client_id),
              multi |-> Retain(tree[path].multi, client_id)]]

(* One call of remove for each of the filters; their order makes no         *)
(* difference.  Nodes stay in the trie when their last subscriber goes.     *)
Remove(tree, filters, client_id) ==
    LET Left(bag, place) ==
            IF place \in {Place(f) : f \in filters} THEN Retain(bag, client_id) ELSE bag
    IN [path \in DOMAIN tree |->
           [subs |-> Left(tree[path].subs, <<path, FALSE>>),
            multi |-> Left(tree[path].multi, <<path, TRUE>>)]]

(* Mutant: the recursion does not enter single_wildcard. *)
RemoveAllButWildcard(tree, client_id) ==
    [path \in DOMAIN tree |->
        IF "+" \in {path[i] : i \in DOMAIN path}
        THEN tree[path]
        ELSE [subs |-> Retain(tree[path].subs, client_id),
              multi |-> Retain(tree[path].multi, client_id)]]

RemoveAllForClient(tree, client_id) ==
    [path \in DOMAIN tree |-> [subs |-> Retain(tree[path].subs, client_id),
                               multi |-> Retain(tree[path].multi, client_id)]]

------------------------------------------------------------------------------
(* The keys under which matches_recursive looks for a child, at a level of  *)
(* the topic.                                                               *)
Keys(level) == {"+"} \cup ({level} \ Wildcards)

(* Mutant: the depth is compared too early, so the last level is not read. *)
VisitedTooShort(tree, topic) ==
    {path \in DOMAIN tree :
        /\ Len(path) < Len(topic)
        /\ \A i \in DOMAIN path : path[i] \in Keys(topic[i])}

(* Mutant: the exact child is taken only where there is no single_wildcard. *)
VisitedWildcardFirst(tree, topic) ==
    {path \in DOMAIN tree :
        /\ Len(path) <= Len(topic)
        /\ \A i \in DOMAIN path :
               path[i] = IF SubSeq(path, 1, i - 1) \o <<"+">> \in DOMAIN tree
                         THEN "+" ELSE topic[i]}

(* The nodes matches_recursive visits: all the ancestors of a node are in   *)
(* the trie, so it reaches a node if each step of the way is one of the two *)
(* that the level of the topic allows.                                      *)
Visited(tree, topic) ==
    {path \in DOMAIN tree :
        /\ Len(path) <= Len(topic)
        /\ \A i \in DOMAIN path : path[i] \in Keys(topic[i])}

(* The elements of a vector told apart: the copies of a subscriber are      *)
(* numbered.  An element of the result of matches has the place it is from. *)
Elements(tree, place) ==
    LET vector == Vector(tree, place)
    IN UNION {[place : {place}, subscriber : {s}, copy : 1 .. vector[s]] :
                s \in DOMAIN vector}

(* Mutant: the subscribers of a "#" are left out at the end of the topic. *)
MatchesShort(tree, topic) ==
    UNION {Elements(tree, place) :
        place \in {p \in Visited(tree, topic) \X BOOLEAN : p[2] => Len(p[1]) < Len(topic)}}

(* What matches returns: both vectors of each node visited, also where the  *)
(* topic has further levels.                                                *)
Matches(tree, topic) ==
    UNION {Elements(tree, place) : place \in Visited(tree, topic) \X BOOLEAN}

(* The recursion itself, from the node at path down: the nodes it visits.   *)
Walk(tree, topic) ==
    LET visit[path \in DOMAIN tree] ==
            LET next == {path \o <<key>> : key \in Keys(topic[Len(path) + 1])}
            IN {path} \cup IF Len(path) >= Len(topic) THEN {}
                           ELSE UNION {visit[p] : p \in next \cap DOMAIN tree}
    IN visit[<<>>]

------------------------------------------------------------------------------
(* What a filter means (MQTT 3.1.1, 4.7): a "+" is any one level and a "#"  *)
(* any number of levels, none included.                                     *)
LevelsMatch(filter, topic, n) ==
    \A i \in 1 .. n : filter[i] \in {"+", topic[i]}

FilterMatches(filter, topic) ==
    IF filter[Len(filter)] = "#"
    THEN /\ Len(filter) - 1 <= Len(topic)
         /\ LevelsMatch(filter, topic, Len(filter) - 1)
    ELSE /\ Len(filter) = Len(topic)
         /\ LevelsMatch(filter, topic, Len(filter))
==============================================================================
