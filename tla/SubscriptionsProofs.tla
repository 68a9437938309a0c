------------------------- MODULE SubscriptionsProofs -------------------------
(* The trie of Subscriptions.tla, for all filters, topics and subscribers:  *)
(* its shape, that it implements the table of subscriptions, and what       *)
(* matches finds in it.                                                     *)
EXTENDS Subscriptions, TopicTreeProofs

(* A vector that is not empty belongs to a filter somebody subscribed to:   *)
(* what remove does with a malformed filter never makes one.                *)
OnlyFiltersHold ==
    \A place \in Places(tree) :
        DOMAIN Vector(tree, place) # {} => \E f \in Filters : Place(f) = place

TreeInv ==
    /\ DOMAIN tree \subseteq Seq(STRING)
    /\ TreeTypeOK
    /\ OnlyFiltersHold

LEMMA FiltersAreValid ==
    ASSUME NEW f \in Filters
    PROVE  Filter(f)
PROOF BY SubscriptionsAssumption DEF Filter

LEMMA TopicsAreNames ==
    ASSUME NEW topic \in Topics
    PROVE  topic \in Seq(STRING)
PROOF BY SubscriptionsAssumption

------------------------------------------------------------------------------
(* The invariant, one lemma per operation. *)
LEMMA AddKeepsTree ==
    ASSUME TreeInv, NEW f \in Filters, NEW s \in Subscribers, AddSubscriber(f, s)
    PROVE  TreeInv'
PROOF
<1> USE FiltersAreValid
<1>1. tree' = Add(tree, f, s)
  BY DEF AddSubscriber
<1>2. NodeOf(f) \in Seq(STRING) /\ \A i \in DOMAIN NodeOf(f) : NodeOf(f)[i] # "#"
  <2>1. NodeOf(f) \in Seq(STRING) /\ \A i \in 1 .. Len(NodeOf(f)) : NodeOf(f)[i] # "#"
    BY PlaceOfFilter
  <2> QED BY <2>1
<1>3. DOMAIN tree' = DOMAIN tree \cup Prefixes(NodeOf(f))
  BY <1>1 DEF Add
<1>4. ASSUME NEW path \in DOMAIN tree'
      PROVE  /\ path \in Seq(STRING)
             /\ Prefixes(path) \subseteq DOMAIN tree'
             /\ \A i \in DOMAIN path : path[i] # "#"
  <2>1. CASE path \in DOMAIN tree
    BY <1>3, <2>1 DEF TreeInv, TreeTypeOK
  <2>2. CASE path \in Prefixes(NodeOf(f))
    BY <1>2, <1>3, <2>2, PrefixesOfPrefix
  <2> QED BY <1>3, <2>1, <2>2
<1>5. ASSUME NEW place \in Places(tree')
      PROVE  LET vector == Vector(tree', place)
             IN /\ DOMAIN vector \subseteq Subscribers
                /\ \A u \in DOMAIN vector : vector[u] \in Nat \ {0}
                /\ DOMAIN vector # {} => \E g \in Filters : Place(g) = place
  <2>1. PICK path \in DOMAIN tree', multi \in BOOLEAN : place = <<path, multi>>
    BY DEF Places
  <2> DEFINE old == Vector(tree, place)
  <2>2. /\ DOMAIN old \subseteq Subscribers
        /\ \A u \in DOMAIN old : old[u] \in Nat \ {0}
        /\ DOMAIN old # {} => \E g \in Filters : Place(g) = place
    <3>1. CASE path \in DOMAIN tree
      BY <2>1, <3>1 DEF TreeInv, TreeTypeOK, OnlyFiltersHold, Places
    <3>2. CASE path \notin DOMAIN tree
      BY <2>1, <3>2, VectorOfNoNode
    <3> QED BY <3>1, <3>2
  <2>3. Vector(tree', place) = IF place = Place(f) THEN old (+) SetToBag({s}) ELSE old
    BY <1>1, <2>1, VectorOfAdd
  <2> HIDE DEF old
  <2>4. CASE place = Place(f)
    <3>1. Vector(tree', place) = old (+) SetToBag({s})
      BY <2>3, <2>4
    <3>2. /\ DOMAIN Vector(tree', place) = DOMAIN old \cup {s}
          /\ \A u \in DOMAIN Vector(tree', place) : Vector(tree', place)[u] \in Nat \ {0}
      BY <2>2, <3>1, Pushing
    <3> QED BY <2>2, <2>4, <3>2
  <2>5. CASE place # Place(f)
    BY <2>2, <2>3, <2>5
  <2> QED BY <2>4, <2>5
<1>6. <<>> \in DOMAIN tree'
  BY <1>3 DEF TreeInv, TreeTypeOK
<1> QED BY <1>4, <1>5, <1>6 DEF TreeInv, TreeTypeOK, OnlyFiltersHold

(* A removal keeps the nodes, and each vector loses elements or nothing. *)
LEMMA RemovalKeepsTree ==
    ASSUME TreeInv, NEW c, DOMAIN tree' = DOMAIN tree,
           \A path \in DOMAIN tree : \A multi \in BOOLEAN :
               LET place == <<path, multi>>
               IN \/ Vector(tree', place) = Retain(Vector(tree, place), c)
                  \/ Vector(tree', place) = Vector(tree, place)
    PROVE  TreeInv'
PROOF
<1>1. ASSUME NEW place \in Places(tree')
      PROVE  LET vector == Vector(tree', place)
             IN /\ DOMAIN vector \subseteq Subscribers
                /\ \A u \in DOMAIN vector : vector[u] \in Nat \ {0}
                /\ DOMAIN vector # {} => \E g \in Filters : Place(g) = place
  <2> DEFINE old == Vector(tree, place)
  <2>1. /\ DOMAIN old \subseteq Subscribers
        /\ \A u \in DOMAIN old : old[u] \in Nat \ {0}
        /\ DOMAIN old # {} => \E g \in Filters : Place(g) = place
    BY DEF TreeInv, TreeTypeOK, OnlyFiltersHold, Places
  <2>2. Vector(tree', place) = Retain(old, c) \/ Vector(tree', place) = old
    <3>1. PICK path \in DOMAIN tree, multi \in BOOLEAN : place = <<path, multi>>
      BY DEF Places
    <3> QED BY <3>1
  <2> HIDE DEF old
  <2>3. CASE Vector(tree', place) = Retain(old, c)
    <3>1. /\ DOMAIN Vector(tree', place) \subseteq DOMAIN old
          /\ \A u \in DOMAIN Vector(tree', place) : Vector(tree', place)[u] \in Nat \ {0}
      <4>1. /\ DOMAIN Retain(old, c) = {u \in DOMAIN old : u.client_id # c}
            /\ \A u \in DOMAIN Retain(old, c) : Retain(old, c)[u] \in Nat \ {0}
        BY <2>1, Retaining
      <4> QED BY <2>3, <4>1
    <3> QED BY <2>1, <3>1
  <2>4. CASE Vector(tree', place) = old
    BY <2>1, <2>4
  <2> QED BY <2>2, <2>3, <2>4
<1> QED BY <1>1 DEF TreeInv, TreeTypeOK, OnlyFiltersHold

LEMMA RemoveKeepsTree ==
    ASSUME TreeInv, NEW f, NEW c, RemoveSubscriber(f, c)
    PROVE  TreeInv'
PROOF
<1>1. tree' = Remove(tree, {f}, c)
  BY DEF RemoveSubscriber
<1>2. DOMAIN tree' = DOMAIN tree
  BY <1>1 DEF Remove
<1>3. ASSUME NEW path \in DOMAIN tree, NEW multi \in BOOLEAN
      PROVE  LET place == <<path, multi>>
             IN \/ Vector(tree', place) = Retain(Vector(tree, place), c)
                \/ Vector(tree', place) = Vector(tree, place)
  BY <1>1, VectorOfRemove
<1> QED BY <1>2, <1>3, RemovalKeepsTree

LEMMA RemoveAllKeepsTree ==
    ASSUME TreeInv, NEW c, RemoveClient(c)
    PROVE  TreeInv'
PROOF
<1>1. tree' = RemoveAllForClient(tree, c)
  BY DEF RemoveClient
<1>2. DOMAIN tree' = DOMAIN tree
  BY <1>1 DEF RemoveAllForClient
<1>3. ASSUME NEW path \in DOMAIN tree, NEW multi \in BOOLEAN
      PROVE  Vector(tree', <<path, multi>>) = Retain(Vector(tree, <<path, multi>>), c)
  BY <1>1, VectorOfRemoveAll
<1> QED BY <1>2, <1>3, RemovalKeepsTree

LEMMA TreeInvStep == TreeInv /\ [TreeNext]_treeVars => TreeInv'
PROOF
<1> SUFFICES ASSUME TreeInv, [TreeNext]_treeVars
             PROVE  TreeInv'
  OBVIOUS
<1>1. CASE UNCHANGED treeVars
  BY <1>1 DEF treeVars, TreeInv, TreeTypeOK, OnlyFiltersHold
<1>2. CASE TreeNext
  BY <1>2, AddKeepsTree, RemoveKeepsTree, RemoveAllKeepsTree DEF TreeNext
<1> QED BY <1>1, <1>2

LEMMA TreeInvInit == TreeInit => TreeInv
PROOF
<1> SUFFICES ASSUME TreeInit
             PROVE  TreeInv
  OBVIOUS
<1>1. DOMAIN tree = {<<>>}
  BY DEF TreeInit, EmptyTree
<1>2. Prefixes(<<>>) = {<<>>}
  <2>1. Len(<<>>) = 0 /\ SubSeq(<<>>, 1, 0) = <<>>
    OBVIOUS
  <2>2. 0 .. 0 = {0}
    OBVIOUS
  <2> QED BY <2>1, <2>2 DEF Prefixes
<1>3. \A place : DOMAIN Vector(tree, place) = {}
  BY VectorOfEmptyTree DEF TreeInit
<1> QED BY <1>1, <1>2, <1>3 DEF TreeInv, TreeTypeOK, OnlyFiltersHold

LEMMA TreeInvHolds == TreeSpec => []TreeInv
PROOF BY TreeInvInit, TreeInvStep, PTL DEF TreeSpec

(* Whatever is added and removed, the trie keeps its shape. *)
THEOREM TreeTypeCorrect == TreeSpec => []TreeTypeOK
PROOF
<1>1. TreeInv => TreeTypeOK
  BY DEF TreeInv
<1> QED BY <1>1, TreeInvHolds, PTL

------------------------------------------------------------------------------
(* A vector whose elements are matched belongs to one of the filters.       *)
LEMMA HeldByAFilter ==
    ASSUME TreeInv, NEW place, DOMAIN Vector(tree, place) # {}, place \in Places(tree)
    PROVE  \E f \in Filters : Place(f) = place
PROOF BY DEF TreeInv, OnlyFiltersHold

LEMMA NoElements ==
    ASSUME NEW place, DOMAIN Vector(tree, place) = {}
    PROVE  Elements(tree, place) = {}
PROOF BY DEF Elements

(* matches returns the subscriptions of a filter exactly when the filter    *)
(* matches a prefix of the topic.                                           *)
LEMMA PlaceVisited ==
    ASSUME NEW f \in Filters, NEW topic \in Topics
    PROVE  Place(f) \in Visited(tree, topic) \X BOOLEAN <=>
               /\ NodeOf(f) \in DOMAIN tree
               /\ \E t \in Prefixes(topic) : FilterMatches(f, t)
PROOF
<1>1. Multi(f) \in BOOLEAN
  BY FiltersAreValid, PlaceOfFilter
<1>2. Place(f) \in Visited(tree, topic) \X BOOLEAN <=> NodeOf(f) \in Visited(tree, topic)
  BY <1>1 DEF Place
<1> QED BY <1>2, FiltersAreValid, TopicsAreNames, VisitedNode

LEMMA PrefixesAreFound ==
    ASSUME TreeInv, NEW topic \in Topics
    PROVE  Matches(tree, topic) =
               UNION {Elements(tree, Place(f)) :
                   f \in {f \in Filters : \E t \in Prefixes(topic) : FilterMatches(f, t)}}
PROOF
<1> DEFINE matching == {f \in Filters : \E t \in Prefixes(topic) : FilterMatches(f, t)}
           visited == Visited(tree, topic) \X BOOLEAN
<1>1. ASSUME NEW place \in visited, NEW e \in Elements(tree, place)
      PROVE  \E f \in matching : e \in Elements(tree, Place(f))
  <2>1. place \in Places(tree)
    BY DEF Places, Visited
  <2>2. PICK f \in Filters : Place(f) = place
    BY <2>1, HeldByAFilter, NoElements
  <2>3. f \in matching
    BY <2>2, PlaceVisited
  <2> QED BY <2>2, <2>3
<1>2. ASSUME NEW f \in matching, NEW e \in Elements(tree, Place(f))
      PROVE  Place(f) \in visited
  <2>1. NodeOf(f) \in DOMAIN tree
    BY NoElements, VectorOfNoNode DEF Place
  <2> QED BY <2>1, PlaceVisited
<1> HIDE DEF matching, visited
<1>3. Matches(tree, topic) = UNION {Elements(tree, place) : place \in visited}
  BY DEF Matches, visited
<1>4. Matches(tree, topic) = UNION {Elements(tree, Place(f)) : f \in matching}
  BY <1>1, <1>2, <1>3
<1> QED BY <1>4 DEF matching

(* What matches returns, for any topic and after any calls: the             *)
(* subscriptions to the filters that match a prefix of the topic, each as   *)
(* often as it was made.                                                    *)
THEOREM MatchesArePrefixMatches == TreeSpec => []FindsPrefixMatches
PROOF
<1>1. TreeInv => FindsPrefixMatches
  BY PrefixesAreFound DEF FindsPrefixMatches
<1> QED BY <1>1, TreeInvHolds, PTL

(* matches_recursive visits what Visited says, in every trie the calls      *)
(* build: on them FindsPrefixMatches and FindsEveryMatch rest.              *)
THEOREM WalkVisitsNodes == TreeSpec => []WalkIsVisited
PROOF
<1>1. TreeInv => WalkIsVisited
  BY TopicsAreNames, WalkVisits DEF TreeInv, TreeTypeOK, WalkIsVisited
<1> QED BY <1>1, TreeInvHolds, PTL

(* And so no subscription that should get a publish is overlooked. *)
THEOREM NoMatchOverlooked == TreeSpec => []FindsEveryMatch
PROOF
<1>1. ASSUME TreeInv, NEW topic \in Topics, NEW f \in Filters, FilterMatches(f, topic)
      PROVE  Elements(tree, Place(f)) \subseteq Matches(tree, topic)
  <2>1. \E t \in Prefixes(topic) : FilterMatches(f, t)
    BY <1>1, FiltersAreValid, TopicsAreNames, VisitedNode
  <2> QED BY <1>1, <2>1, PrefixesAreFound
<1>2. TreeInv => FindsEveryMatch
  BY <1>1 DEF FindsEveryMatch
<1> QED BY <1>2, TreeInvHolds, PTL

------------------------------------------------------------------------------
(* The copies of each subscription, after each operation. *)
LEMMA CountsAre ==
    ASSUME TreeInv, NEW f \in Filters
    PROVE  LET vector == Vector(tree, Place(f))
           IN \A s \in DOMAIN vector : vector[s] \in Nat \ {0}
PROOF
<1>1. Place(f) = <<NodeOf(f), Multi(f)>> /\ Multi(f) \in BOOLEAN
  BY FiltersAreValid, PlaceOfFilter DEF Place
<1>2. CASE NodeOf(f) \in DOMAIN tree
  BY <1>1, <1>2 DEF TreeInv, TreeTypeOK, Places
<1>3. CASE NodeOf(f) \notin DOMAIN tree
  BY <1>1, <1>3, VectorOfNoNode
<1> QED BY <1>2, <1>3

LEMMA AddCounts ==
    ASSUME TreeInv, NEW f \in Filters, NEW s, AddSubscriber(f, s), NEW g \in Filters, NEW u
    PROVE  Copies(g, u)' = IF g = f /\ u = s THEN Copies(g, u) + 1 ELSE Copies(g, u)
PROOF
<1>1. Place(g) = <<NodeOf(g), Multi(g)>> /\ Multi(g) \in BOOLEAN
  BY FiltersAreValid, PlaceOfFilter DEF Place
<1>2. Place(g) = Place(f) <=> g = f
  BY FiltersAreValid, PlacesDiffer
<1>3. Vector(tree', Place(g)) = IF g = f THEN Vector(tree, Place(g)) (+) SetToBag({s})
                                         ELSE Vector(tree, Place(g))
  BY <1>1, <1>2, FiltersAreValid, VectorOfAdd DEF AddSubscriber
<1>4. \A x \in DOMAIN Vector(tree, Place(g)) : Vector(tree, Place(g))[x] \in Nat \ {0}
  BY CountsAre
<1>5. CASE g = f
  <2>1. Count(Vector(tree, Place(g)) (+) SetToBag({s}), u) =
            IF u = s THEN Count(Vector(tree, Place(g)), u) + 1
                     ELSE Count(Vector(tree, Place(g)), u)
    BY <1>4, Pushing
  <2> QED BY <1>3, <1>5, <2>1 DEF Copies
<1>6. CASE g # f
  BY <1>3, <1>6 DEF Copies
<1> QED BY <1>5, <1>6

LEMMA RetainCounts ==
    ASSUME TreeInv, NEW g \in Filters, NEW c, NEW u,
           Vector(tree', Place(g)) = Retain(Vector(tree, Place(g)), c)
    PROVE  Copies(g, u)' = IF u.client_id = c THEN 0 ELSE Copies(g, u)
PROOF
<1>1. \A x \in DOMAIN Vector(tree, Place(g)) : Vector(tree, Place(g))[x] \in Nat \ {0}
  BY CountsAre
<1>2. Count(Retain(Vector(tree, Place(g)), c), u) =
          IF u.client_id = c THEN 0 ELSE Count(Vector(tree, Place(g)), u)
  BY <1>1, Retaining
<1> QED BY <1>2 DEF Copies

LEMMA RemoveCounts ==
    ASSUME TreeInv, NEW f, NEW c, RemoveSubscriber(f, c), NEW g \in Filters, NEW u
    PROVE  Copies(g, u)' = IF Place(g) = Place(f) /\ u.client_id = c
                           THEN 0 ELSE Copies(g, u)
PROOF
<1>1. Place(g) = <<NodeOf(g), Multi(g)>> /\ Multi(g) \in BOOLEAN
  BY FiltersAreValid, PlaceOfFilter DEF Place
<1>2. Vector(tree', Place(g)) = IF Place(g) = Place(f)
                                THEN Retain(Vector(tree, Place(g)), c)
                                ELSE Vector(tree, Place(g))
  BY <1>1, VectorOfRemove DEF RemoveSubscriber
<1>3. CASE Place(g) = Place(f)
  BY <1>2, <1>3, RetainCounts
<1>4. CASE Place(g) # Place(f)
  BY <1>2, <1>4 DEF Copies
<1> QED BY <1>3, <1>4

LEMMA RemoveAllCounts ==
    ASSUME TreeInv, NEW c, RemoveClient(c), NEW g \in Filters, NEW u
    PROVE  Copies(g, u)' = IF u.client_id = c THEN 0 ELSE Copies(g, u)
PROOF
<1>1. Place(g) = <<NodeOf(g), Multi(g)>> /\ Multi(g) \in BOOLEAN
  BY FiltersAreValid, PlaceOfFilter DEF Place
<1>2. Vector(tree', Place(g)) = Retain(Vector(tree, Place(g)), c)
  BY <1>1, VectorOfRemoveAll DEF RemoveClient
<1> QED BY <1>2, RetainCounts

------------------------------------------------------------------------------
(* Where add and remove stop in a filter, valid or not: at its first "#". *)
LEMMA FirstHash ==
    ASSUME NEW f \in Seq(STRING)
    PROVE  /\ HashAt(f) \in 1 .. Len(f) + 1
           /\ HashAt(f) <= Len(f) => f[HashAt(f)] = "#"
           /\ \A i \in 1 .. HashAt(f) - 1 : f[i] # "#"
PROOF
<1> DEFINE T == {n \in 1 .. Len(f) + 1 : n <= Len(f) => f[n] = "#"}
<1>1. T \in SUBSET Nat /\ Len(f) + 1 \in T
  OBVIOUS
<1>2. PICK n \in T : \A m \in T : n <= m
  BY <1>1, LeastNumber
<1>3. n \in 1 .. Len(f) + 1 /\ (n <= Len(f) => f[n] = "#")
  OBVIOUS
<1>4. \A i \in 1 .. n - 1 : f[i] # "#"
  <2> SUFFICES ASSUME NEW i \in 1 .. n - 1, f[i] = "#"
               PROVE  FALSE
    OBVIOUS
  <2>1. i \in T
    BY <1>3
  <2> QED BY <1>2, <1>3, <2>1
<1> QED BY <1>3, <1>4 DEF HashAt

(* The place of a malformed filter is that of the valid filter it is read   *)
(* as, and of no other.                                                     *)
LEMMA MalformedPlace ==
    ASSUME NEW f \in Malformed, NEW g \in Filters
    PROVE  Place(g) = Place(f) <=> Table!ReadAs(f, g)
PROOF
<1>1. /\ f \in Seq(STRING) /\ Len(f) \in Nat
      /\ g \in Seq(STRING) /\ Len(g) \in Nat \ {0}
      /\ f # g
  BY SubscriptionsAssumption
<1>2. /\ HashAt(f) \in 1 .. Len(f) + 1
      /\ HashAt(f) <= Len(f) => f[HashAt(f)] = "#"
      /\ \A i \in 1 .. HashAt(f) - 1 : f[i] # "#"
  BY <1>1, FirstHash
<1>3. /\ \A i \in 1 .. Len(g) - 1 : g[i] # "#"
      /\ HashAt(g) = IF g[Len(g)] = "#" THEN Len(g) ELSE Len(g) + 1
  BY FiltersAreValid, HashIsLast
<1>4. ASSUME Table!ReadAs(f, g)
      PROVE  Place(g) = Place(f)
  <2>1. g[Len(g)] = "#" /\ Len(g) <= Len(f) /\ g = SubSeq(f, 1, Len(g))
    BY <1>4 DEF Table!ReadAs
  <2>2. \A i \in 1 .. Len(g) : g[i] = f[i]
    BY <1>1, <2>1
  <2>3. HashAt(f) = Len(g)
    BY <1>1, <1>2, <1>3, <2>1, <2>2
  <2>4. SubSeq(g, 1, Len(g) - 1) = SubSeq(f, 1, Len(g) - 1)
    BY <1>1, <2>1, <2>2
  <2> QED BY <1>1, <1>3, <2>1, <2>3, <2>4 DEF Place, NodeOf, Multi
<1>5. ASSUME Place(g) = Place(f)
      PROVE  Table!ReadAs(f, g)
  <2>1. /\ SubSeq(g, 1, HashAt(g) - 1) = SubSeq(f, 1, HashAt(f) - 1)
        /\ HashAt(g) <= Len(g) <=> HashAt(f) <= Len(f)
    BY <1>5 DEF Place, NodeOf, Multi
  <2>2. CASE g[Len(g)] # "#"
    <3>1. HashAt(g) = Len(g) + 1 /\ HashAt(f) = Len(f) + 1
      BY <1>1, <1>2, <1>3, <2>1, <2>2
    <3>2. SubSeq(g, 1, Len(g)) = g /\ SubSeq(f, 1, Len(f)) = f
      BY <1>1
    <3>3. SubSeq(g, 1, Len(g)) = SubSeq(f, 1, Len(f))
      BY <1>1, <2>1, <3>1
    <3> QED BY <1>1, <3>2, <3>3
  <2>3. CASE g[Len(g)] = "#"
    <3>1. HashAt(g) = Len(g) /\ HashAt(f) <= Len(f)
      BY <1>1, <1>3, <2>1, <2>3
    <3>2. Len(SubSeq(g, 1, HashAt(g) - 1)) = HashAt(g) - 1
      BY <1>1, <3>1
    <3>3. Len(SubSeq(f, 1, HashAt(f) - 1)) = HashAt(f) - 1
      BY <1>1, <1>2, <3>1
    <3>4. HashAt(f) = Len(g)
      BY <1>1, <1>2, <2>1, <3>1, <3>2, <3>3
    <3>5. \A i \in 1 .. Len(g) - 1 : g[i] = f[i]
      <4> TAKE i \in 1 .. Len(g) - 1
      <4>1. SubSeq(g, 1, Len(g) - 1)[i] = g[i] /\ SubSeq(f, 1, Len(g) - 1)[i] = f[i]
        BY <1>1, <3>1, <3>4
      <4> QED BY <2>1, <3>1, <3>4, <4>1
    <3>6. g[Len(g)] = f[Len(g)]
      BY <1>2, <2>3, <3>1, <3>4
    <3>7. \A i \in 1 .. Len(g) : g[i] = SubSeq(f, 1, Len(g))[i]
      BY <1>1, <3>1, <3>4, <3>5, <3>6
    <3>8. SubSeq(f, 1, Len(g)) \in Seq(STRING) /\ Len(SubSeq(f, 1, Len(g))) = Len(g)
      BY <1>1, <3>1, <3>4
    <3> QED BY <1>1, <2>3, <3>1, <3>4, <3>7, <3>8, SeqEqual DEF Table!ReadAs
  <2> QED BY <2>2, <2>3
<1> QED BY <1>4, <1>5

------------------------------------------------------------------------------
(* Each call on the trie is the same call on the table. *)
Rows == [f \in Filters |-> [s \in Subscribers |-> Copies(f, s)]]

LEMMA AddIsSubscribe ==
    ASSUME TreeInv, NEW f \in Filters, NEW s \in Subscribers, AddSubscriber(f, s)
    PROVE  Table!Subscribe(f, s)
PROOF
<1>1. Rows' = [g \in Filters |-> [u \in Subscribers |->
                   IF g = f /\ u = s THEN Copies(g, u) + 1 ELSE Copies(g, u)]]
  BY AddCounts DEF Rows
<1>2. Rows' = [Rows EXCEPT ![f][s] = @ + 1]
  BY <1>1 DEF Rows
<1>3. called' = [op |-> "add", filter |-> f, subscriber |-> s]
  BY DEF AddSubscriber
<1> QED BY <1>2, <1>3 DEF Table!Subscribe, Rows

LEMMA RemoveIsUnsubscribe ==
    ASSUME TreeInv, NEW f \in Filters, NEW c, RemoveSubscriber(f, c)
    PROVE  Table!Unsubscribe(f, c)
PROOF
<1>1. \A g \in Filters : Place(g) = Place(f) <=> g = f
  BY FiltersAreValid, PlacesDiffer
<1>2. Rows' = [g \in Filters |-> [u \in Subscribers |->
                   IF g = f /\ u.client_id = c THEN 0 ELSE Copies(g, u)]]
  BY <1>1, RemoveCounts DEF Rows
<1>3. Rows' = [Rows EXCEPT ![f] = Table!Drop(@, c)]
  BY <1>2 DEF Rows, Table!Drop
<1>4. called' = [op |-> "remove", filter |-> f, client_id |-> c]
  BY DEF RemoveSubscriber
<1> QED BY <1>3, <1>4 DEF Table!Unsubscribe, Rows

LEMMA RemoveMalformedIsUnsubscribe ==
    ASSUME TreeInv, NEW f \in Malformed, NEW c, RemoveSubscriber(f, c)
    PROVE  Table!UnsubscribeMalformed(f, c)
PROOF
<1>1. \A g \in Filters : Place(g) = Place(f) <=> Table!ReadAs(f, g)
  BY MalformedPlace
<1>2. Rows' = [g \in Filters |-> [u \in Subscribers |->
                   IF Table!ReadAs(f, g) /\ u.client_id = c THEN 0 ELSE Copies(g, u)]]
  BY <1>1, RemoveCounts DEF Rows
<1>3. Rows' = [g \in Filters |-> IF Table!ReadAs(f, g) THEN Table!Drop(Rows[g], c)
                                                      ELSE Rows[g]]
  BY <1>2 DEF Rows, Table!Drop
<1>4. called' = [op |-> "remove", filter |-> f, client_id |-> c]
  BY DEF RemoveSubscriber
<1> QED BY <1>3, <1>4 DEF Table!UnsubscribeMalformed, Rows

LEMMA RemoveAllIsPurge ==
    ASSUME TreeInv, NEW c, RemoveClient(c)
    PROVE  Table!Purge(c)
PROOF
<1>1. Rows' = [f \in Filters |-> Table!Drop(Rows[f], c)]
  BY RemoveAllCounts DEF Rows, Table!Drop
<1>2. called' = [op |-> "remove_all_for_client", client_id |-> c]
  BY DEF RemoveClient
<1> QED BY <1>1, <1>2 DEF Table!Purge, Rows

LEMMA TreeStepIsTableStep ==
    TreeInv /\ [TreeNext]_treeVars => [Table!TableNext]_<<Rows, called>>
PROOF
<1> SUFFICES ASSUME TreeInv, [TreeNext]_treeVars
             PROVE  Table!TableNext \/ UNCHANGED <<Rows, called>>
  OBVIOUS
<1>1. ASSUME NEW f \in Filters, NEW s \in Subscribers, AddSubscriber(f, s)
      PROVE  Table!TableNext
  BY <1>1, AddIsSubscribe DEF Table!TableNext
<1>2. ASSUME NEW f \in Filters, NEW c \in ClientIds, RemoveSubscriber(f, c)
      PROVE  Table!TableNext
  BY <1>2, RemoveIsUnsubscribe DEF Table!TableNext, Table!ClientIdsOf, ClientIds
<1>3. ASSUME NEW f \in Malformed, NEW c \in ClientIds, RemoveSubscriber(f, c)
      PROVE  Table!TableNext
  BY <1>3, RemoveMalformedIsUnsubscribe
     DEF Table!TableNext, Table!ClientIdsOf, ClientIds
<1>4. ASSUME NEW c \in ClientIds, RemoveClient(c)
      PROVE  Table!TableNext
  BY <1>4, RemoveAllIsPurge DEF Table!TableNext, Table!ClientIdsOf, ClientIds
<1>5. CASE UNCHANGED treeVars
  BY <1>5 DEF treeVars, Rows, Copies
<1> QED BY <1>1, <1>2, <1>3, <1>4, <1>5 DEF TreeNext

(* The trie implements the table of subscriptions.  Each call does to the   *)
(* row of its own filter what it asks for: an add puts one subscription     *)
(* there, a remove takes those of its client away, and neither touches      *)
(* another row; remove_all_for_client empties every row of its client.  A   *)
(* remove with a malformed filter takes the row that the filter is read as, *)
(* if there is one.                                                         *)
THEOREM TrieImplementsTable == TreeSpec => ImplementsTable
PROOF
<1>1. TreeInit => Table!TableInit
  BY VectorOfEmptyTree DEF TreeInit, Table!TableInit, Copies, Count
<1>2. TreeInv /\ [TreeNext]_treeVars => [Table!TableNext]_<<Rows, called>>
  BY TreeStepIsTableStep
<1> QED BY <1>1, <1>2, TreeInvHolds, PTL DEF TreeSpec, ImplementsTable, Table!TableSpec, Rows
==============================================================================
