--------------------------- MODULE TopicTreeProofs ---------------------------
(* Lemmas about the trie: where a filter is put, what each method does to a *)
(* vector, which nodes a topic visits, and that the recursion of matches    *)
(* visits those.                                                            *)
EXTENDS TopicTree, SequenceTheorems, WellFoundedInduction, TLAPS

Filter(f) == f \in Seq(STRING) \ {<<>>} /\ ValidFilter(f)

(* In a valid filter, only the last level can be the "#". *)
LEMMA HashIsLast ==
    ASSUME NEW f, Filter(f)
    PROVE  /\ Len(f) \in Nat \ {0}
           /\ \A i \in 1 .. Len(f) - 1 : f[i] # "#"
           /\ HashAt(f) = IF f[Len(f)] = "#" THEN Len(f) ELSE Len(f) + 1
PROOF
<1>1. Len(f) \in Nat \ {0}
  BY DEF Filter
<1>2. \A i \in 1 .. Len(f) : f[i] = "#" => i = Len(f)
  <2>1. \A i \in DOMAIN f : f[i] = "#" => i = Len(f)
    BY DEF Filter, ValidFilter, HasHash
  <2>2. DOMAIN f = 1 .. Len(f)
    BY DEF Filter
  <2> QED BY <2>1, <2>2
<1> DEFINE last == IF f[Len(f)] = "#" THEN Len(f) ELSE Len(f) + 1
           First(n) == /\ n <= Len(f) => f[n] = "#"
                       /\ \A i \in 1 .. n - 1 : f[i] # "#"
<1>3. last \in 1 .. Len(f) + 1 /\ First(last)
  <2>1. CASE f[Len(f)] = "#"
    BY <1>1, <1>2, <2>1
  <2>2. CASE f[Len(f)] # "#"
    <3>1. last = Len(f) + 1
      BY <2>2
    <3>2. \A i \in 1 .. Len(f) : f[i] # "#"
      BY <1>1, <1>2, <2>2
    <3> QED BY <1>1, <3>1, <3>2
  <2> QED BY <2>1, <2>2
<1>4. ASSUME NEW n \in 1 .. Len(f) + 1, First(n)
      PROVE  n = last
  <2>1. CASE n <= Len(f)
    BY <1>1, <1>2, <1>4, <2>1
  <2>2. CASE n = Len(f) + 1
    <3>1. f[Len(f)] # "#"
      BY <1>1, <1>4, <2>2
    <3> QED BY <2>2, <3>1
  <2> QED BY <1>1, <2>1, <2>2
<1>5. HashAt(f) = CHOOSE n \in 1 .. Len(f) + 1 : First(n)
  BY DEF HashAt
<1> HIDE DEF First, last
<1>6. HashAt(f) = last
  BY <1>3, <1>4, <1>5
<1> QED BY <1>1, <1>2, <1>6 DEF last

(* The two forms of a valid filter: with and without a "#" at the end. *)
LEMMA PlaceOfFilter ==
    ASSUME NEW f, Filter(f)
    PROVE  /\ Multi(f) \in BOOLEAN
           /\ Multi(f) <=> f[Len(f)] = "#"
           /\ NodeOf(f) \in Seq(STRING)
           /\ Len(NodeOf(f)) = IF Multi(f) THEN Len(f) - 1 ELSE Len(f)
           /\ \A i \in 1 .. Len(NodeOf(f)) : NodeOf(f)[i] = f[i] /\ f[i] # "#"
PROOF
<1>1. f \in Seq(STRING)
  BY DEF Filter
<1>2. CASE f[Len(f)] = "#"
  <2>1. HashAt(f) - 1 = Len(f) - 1
    BY <1>2, HashIsLast
  <2> QED BY <1>1, <1>2, <2>1, HashIsLast DEF Multi, NodeOf
<1>3. CASE f[Len(f)] # "#"
  <2>1. HashAt(f) - 1 = Len(f) /\ Multi(f) = FALSE
    BY <1>3, HashIsLast DEF Multi
  <2>2. NodeOf(f) = f
    BY <1>1, <2>1 DEF NodeOf
  <2>3. \A i \in 1 .. Len(f) : f[i] # "#"
    BY <1>3, HashIsLast
  <2> QED BY <1>1, <1>3, <2>1, <2>2, <2>3
<1> QED BY <1>2, <1>3

(* No two valid filters share a vector. *)
LEMMA PlacesDiffer ==
    ASSUME NEW f, Filter(f), NEW g, Filter(g), Place(f) = Place(g)
    PROVE  f = g
PROOF
<1>1. NodeOf(f) = NodeOf(g) /\ Multi(f) = Multi(g)
  BY DEF Place
<1>2. f \in Seq(STRING) /\ g \in Seq(STRING) /\ Len(f) \in Nat /\ Len(g) \in Nat
  BY DEF Filter
<1>3. Len(f) = Len(g)
  BY <1>1, <1>2, PlaceOfFilter
<1>4. \A i \in 1 .. Len(f) : f[i] = g[i]
  BY <1>1, <1>2, <1>3, PlaceOfFilter
<1> QED BY <1>2, <1>3, <1>4, SeqEqual

------------------------------------------------------------------------------
(* What the methods do to a vector.  That of a node which is not there is   *)
(* empty.                                                                   *)
LEMMA VectorOfAdd ==
    ASSUME NEW tree, NEW f, Filter(f), NEW s, NEW path, NEW multi \in BOOLEAN
    PROVE  LET place == <<path, multi>>
           IN Vector(Add(tree, f, s), place) =
                  IF place = Place(f) THEN Vector(tree, place) (+) SetToBag({s})
                                      ELSE Vector(tree, place)
PROOF
<1> DEFINE paths == DOMAIN tree \cup Prefixes(NodeOf(f))
           place == <<path, multi>>
           Pushed(bag, p) == IF p = Place(f) THEN bag (+) SetToBag({s}) ELSE bag
<1>1. NodeOf(f) \in paths
  <2>1. NodeOf(f) \in Seq(STRING)
    BY PlaceOfFilter
  <2>2. NodeOf(f) = SubSeq(NodeOf(f), 1, Len(NodeOf(f))) /\ Len(NodeOf(f)) \in 0 .. Len(NodeOf(f))
    BY <2>1
  <2> QED BY <2>2 DEF Prefixes
<1>2. Add(tree, f, s) =
          [p \in paths |->
              [subs |-> Pushed(Vector(tree, <<p, FALSE>>), <<p, FALSE>>),
               multi |-> Pushed(Vector(tree, <<p, TRUE>>), <<p, TRUE>>)]]
  BY DEF Add
<1> HIDE DEF paths, Pushed
<1>3. CASE path \in paths
  <2>1. /\ path \in DOMAIN Add(tree, f, s)
        /\ Add(tree, f, s)[path].subs = Pushed(Vector(tree, <<path, FALSE>>), <<path, FALSE>>)
        /\ Add(tree, f, s)[path].multi = Pushed(Vector(tree, <<path, TRUE>>), <<path, TRUE>>)
    BY <1>2, <1>3
  <2>2. CASE multi = TRUE
    <3>1. Vector(Add(tree, f, s), place) = Add(tree, f, s)[path].multi
      BY <2>1, <2>2 DEF Vector
    <3> QED BY <2>1, <2>2, <3>1 DEF Pushed
  <2>3. CASE multi = FALSE
    <3>1. Vector(Add(tree, f, s), place) = Add(tree, f, s)[path].subs
      BY <2>1, <2>3 DEF Vector
    <3> QED BY <2>1, <2>3, <3>1 DEF Pushed
  <2> QED BY <2>2, <2>3
<1>4. CASE path \notin paths
  <2>1. place # Place(f)
    BY <1>1, <1>4 DEF Place
  <2>2. Vector(Add(tree, f, s), place) = EmptyBag /\ Vector(tree, place) = EmptyBag
    BY <1>2, <1>4 DEF Vector, paths
  <2> QED BY <2>1, <2>2
<1> QED BY <1>3, <1>4

LEMMA RetainEmpty == \A c : Retain(EmptyBag, c) = EmptyBag
PROOF BY DEF Retain, EmptyBag, SetToBag

LEMMA VectorOfRemove ==
    ASSUME NEW tree, NEW filters, NEW c, NEW path, NEW multi \in BOOLEAN
    PROVE  LET place == <<path, multi>>
           IN Vector(Remove(tree, filters, c), place) =
                  IF place \in {Place(f) : f \in filters} THEN Retain(Vector(tree, place), c)
                                                          ELSE Vector(tree, place)
PROOF
<1> DEFINE place == <<path, multi>>
           places == {Place(f) : f \in filters}
           Left(bag, p) == IF p \in places THEN Retain(bag, c) ELSE bag
<1>1. Remove(tree, filters, c) =
          [p \in DOMAIN tree |-> [subs |-> Left(tree[p].subs, <<p, FALSE>>),
                                  multi |-> Left(tree[p].multi, <<p, TRUE>>)]]
  BY DEF Remove
<1> HIDE DEF places, Left
<1>2. CASE path \in DOMAIN tree
  <2>1. /\ path \in DOMAIN Remove(tree, filters, c)
        /\ Remove(tree, filters, c)[path].subs = Left(tree[path].subs, <<path, FALSE>>)
        /\ Remove(tree, filters, c)[path].multi = Left(tree[path].multi, <<path, TRUE>>)
    BY <1>1, <1>2
  <2>2. CASE multi = TRUE
    <3>1. /\ Vector(Remove(tree, filters, c), place) = Remove(tree, filters, c)[path].multi
          /\ Vector(tree, place) = tree[path].multi
      BY <1>2, <2>1, <2>2 DEF Vector
    <3> QED BY <2>1, <2>2, <3>1 DEF Left, places
  <2>3. CASE multi = FALSE
    <3>1. /\ Vector(Remove(tree, filters, c), place) = Remove(tree, filters, c)[path].subs
          /\ Vector(tree, place) = tree[path].subs
      BY <1>2, <2>1, <2>3 DEF Vector
    <3> QED BY <2>1, <2>3, <3>1 DEF Left, places
  <2> QED BY <2>2, <2>3
<1>3. CASE path \notin DOMAIN tree
  <2>1. Vector(Remove(tree, filters, c), place) = EmptyBag /\ Vector(tree, place) = EmptyBag
    BY <1>1, <1>3 DEF Vector
  <2> QED BY <2>1, RetainEmpty
<1> QED BY <1>2, <1>3

LEMMA VectorOfRemoveAll ==
    ASSUME NEW tree, NEW c, NEW path, NEW multi \in BOOLEAN
    PROVE  Vector(RemoveAllForClient(tree, c), <<path, multi>>) =
               Retain(Vector(tree, <<path, multi>>), c)
PROOF
<1>1. CASE path \in DOMAIN tree
  BY <1>1 DEF RemoveAllForClient, Vector
<1>2. CASE path \notin DOMAIN tree
  BY <1>2, RetainEmpty DEF RemoveAllForClient, Vector
<1> QED BY <1>1, <1>2

(* What a push and a retain do to the copies of a subscriber in a vector. *)
LEMMA Pushing ==
    ASSUME NEW bag, \A x \in DOMAIN bag : bag[x] \in Nat \ {0}, NEW s
    PROVE  LET pushed == bag (+) SetToBag({s})
           IN /\ DOMAIN pushed = DOMAIN bag \cup {s}
              /\ \A x \in DOMAIN pushed : pushed[x] \in Nat \ {0}
              /\ \A x : Count(pushed, x) = IF x = s THEN Count(bag, x) + 1
                                                  ELSE Count(bag, x)
PROOF
<1> DEFINE pushed == bag (+) SetToBag({s})
<1>1. /\ DOMAIN pushed = DOMAIN bag \cup {s}
      /\ \A x \in DOMAIN bag \cup {s} :
             pushed[x] = Count(bag, x) + (IF x = s THEN 1 ELSE 0)
  BY DEF SetToBag, Count, (+)
<1> HIDE DEF pushed
<1>2. \A x : Count(bag, x) \in Nat /\ (x \in DOMAIN bag => Count(bag, x) # 0)
  BY DEF Count
<1>3. \A x \in DOMAIN pushed : pushed[x] \in Nat \ {0}
  BY <1>1, <1>2
<1>4. \A x : Count(pushed, x) = IF x = s THEN Count(bag, x) + 1 ELSE Count(bag, x)
  BY <1>1, <1>2 DEF Count
<1> QED BY <1>1, <1>3, <1>4 DEF pushed

LEMMA Retaining ==
    ASSUME NEW bag, \A x \in DOMAIN bag : bag[x] \in Nat \ {0}, NEW c
    PROVE  LET kept == Retain(bag, c)
           IN /\ DOMAIN kept = {x \in DOMAIN bag : x.client_id # c}
              /\ \A x \in DOMAIN kept : kept[x] \in Nat \ {0}
              /\ \A x : Count(kept, x) = IF x.client_id = c THEN 0 ELSE Count(bag, x)
PROOF BY DEF Retain, Count

(* Only nodes have vectors, and the trie begins without subscribers. *)
LEMMA VectorOfNoNode ==
    ASSUME NEW tree, NEW path, path \notin DOMAIN tree, NEW multi
    PROVE  DOMAIN Vector(tree, <<path, multi>>) = {}
PROOF BY DEF Vector, EmptyBag, SetToBag

LEMMA VectorOfEmptyTree ==
    ASSUME NEW place
    PROVE  DOMAIN Vector(EmptyTree, place) = {}
PROOF BY DEF Vector, EmptyTree, Node, EmptyBag, SetToBag

(* The paths that an add creates. *)
LEMMA PrefixesOfPrefix ==
    ASSUME NEW path \in Seq(STRING), NEW p \in Prefixes(path)
    PROVE  /\ p \in Seq(STRING)
           /\ Prefixes(p) \subseteq Prefixes(path)
           /\ \A i \in DOMAIN p : i \in DOMAIN path /\ p[i] = path[i]
PROOF
<1>1. PICK n \in 0 .. Len(path) : p = SubSeq(path, 1, n)
  BY DEF Prefixes
<1>2. /\ p \in Seq(STRING) /\ Len(p) = n /\ Len(path) \in Nat
      /\ DOMAIN p = 1 .. n /\ DOMAIN path = 1 .. Len(path)
      /\ \A i \in 1 .. n : p[i] = path[i]
  BY <1>1
<1>3. ASSUME NEW q \in Prefixes(p)
      PROVE  q \in Prefixes(path)
  <2>1. PICK k \in 0 .. n : q = SubSeq(p, 1, k)
    BY <1>2 DEF Prefixes
  <2>2. k \in 0 .. Len(path)
    BY <1>2
  <2>3. SubSeq(p, 1, k) = SubSeq(path, 1, k)
    BY <1>1, <1>2, <2>2
  <2> QED BY <2>1, <2>2, <2>3 DEF Prefixes
<1> QED BY <1>2, <1>3

------------------------------------------------------------------------------
(* Whether the walk enters a node is told by the name of the node alone:    *)
(* for a valid filter, that some prefix of the topic matches it.            *)
LEMMA VisitedPath ==
    ASSUME NEW f, Filter(f), NEW topic \in Seq(STRING)
    PROVE  (/\ Len(NodeOf(f)) <= Len(topic)
            /\ \A i \in DOMAIN NodeOf(f) : NodeOf(f)[i] \in Keys(topic[i]))
           <=> \E t \in Prefixes(topic) : FilterMatches(f, t)
PROOF
<1> DEFINE n == Len(NodeOf(f))
<1>1. n \in Nat /\ Len(f) \in Nat \ {0} /\ Len(topic) \in Nat /\ DOMAIN NodeOf(f) = 1 .. n
  BY HashIsLast, PlaceOfFilter
<1>2. (f[Len(f)] = "#" /\ n = Len(f) - 1) \/ (f[Len(f)] # "#" /\ n = Len(f))
  BY PlaceOfFilter
<1>3. \A i \in 1 .. n : f[i] # "#" /\ NodeOf(f)[i] = f[i]
  BY PlaceOfFilter
<1>4. ASSUME n <= Len(topic), \A i \in 1 .. n : f[i] \in Keys(topic[i])
      PROVE  \E t \in Prefixes(topic) : FilterMatches(f, t)
  <2> DEFINE t == SubSeq(topic, 1, n)
  <2>1. t \in Prefixes(topic)
    <3>1. n \in 0 .. Len(topic)
      BY <1>1, <1>4
    <3> HIDE DEF n
    <3> QED BY <3>1 DEF Prefixes
  <2>2. Len(t) = n /\ \A i \in 1 .. n : t[i] = topic[i]
    BY <1>1, <1>4
  <2>3. \A i \in 1 .. n : f[i] \in {"+", t[i]}
    BY <1>4, <2>2 DEF Keys, Wildcards
  <2>4. FilterMatches(f, t)
    BY <1>1, <1>2, <2>2, <2>3 DEF FilterMatches, LevelsMatch
  <2> QED BY <2>1, <2>4
<1>5. ASSUME NEW t \in Prefixes(topic), FilterMatches(f, t)
      PROVE  n <= Len(topic) /\ \A i \in 1 .. n : f[i] \in Keys(topic[i])
  <2>1. PICK k \in 0 .. Len(topic) : t = SubSeq(topic, 1, k)
    BY DEF Prefixes
  <2>2. Len(t) = k /\ \A i \in 1 .. k : t[i] = topic[i]
    BY <1>1, <2>1
  <2>3. n <= k /\ \A i \in 1 .. n : f[i] \in {"+", t[i]}
    BY <1>1, <1>2, <1>5, <2>2 DEF FilterMatches, LevelsMatch
  <2> QED BY <1>1, <1>3, <2>2, <2>3 DEF Keys, Wildcards
<1> HIDE DEF n
<1>6. (\A i \in DOMAIN NodeOf(f) : NodeOf(f)[i] \in Keys(topic[i]))
          <=> \A i \in 1 .. n : f[i] \in Keys(topic[i])
  BY <1>1, <1>3
<1> QED BY <1>4, <1>5, <1>6 DEF n

(* A node that is in the trie is visited for the topics of which a prefix   *)
(* matches the filter; in particular, for those that match it.              *)
LEMMA VisitedNode ==
    ASSUME NEW tree, NEW f, Filter(f), NEW topic \in Seq(STRING)
    PROVE  /\ NodeOf(f) \in Visited(tree, topic) <=>
                  /\ NodeOf(f) \in DOMAIN tree
                  /\ \E t \in Prefixes(topic) : FilterMatches(f, t)
           /\ FilterMatches(f, topic) => \E t \in Prefixes(topic) : FilterMatches(f, t)
PROOF
<1>1. topic \in Prefixes(topic)
  BY DEF Prefixes
<1> QED BY <1>1, VisitedPath DEF Visited

------------------------------------------------------------------------------
(* A trie of the subscribers S.  A method keeps it one, and what matches    *)
(* returns are S too.                                                       *)
TreeOf(tree, S) ==
    /\ DOMAIN tree \subseteq Seq(STRING)
    /\ \A place \in Places(tree) :
           LET vector == Vector(tree, place)
           IN /\ DOMAIN vector \subseteq S
              /\ \A s \in DOMAIN vector : vector[s] \in Nat \ {0}

LEMMA TreeOfVectors ==
    ASSUME NEW tree, NEW S, TreeOf(tree, S), NEW path, NEW multi \in BOOLEAN
    PROVE  LET vector == Vector(tree, <<path, multi>>)
           IN /\ DOMAIN vector \subseteq S
              /\ \A s \in DOMAIN vector : vector[s] \in Nat \ {0}
PROOF
<1>1. CASE path \in DOMAIN tree
  BY <1>1 DEF TreeOf, Places
<1>2. CASE path \notin DOMAIN tree
  BY <1>2, VectorOfNoNode
<1> QED BY <1>1, <1>2

LEMMA EmptyTreeOf == \A S : TreeOf(EmptyTree, S)
PROOF
<1>1. \A place : DOMAIN Vector(EmptyTree, place) = {}
  BY VectorOfEmptyTree
<1>2. DOMAIN EmptyTree \subseteq Seq(STRING)
  BY DEF EmptyTree
<1> QED BY <1>1, <1>2 DEF TreeOf

LEMMA AddTreeOf ==
    ASSUME NEW tree, NEW S, TreeOf(tree, S), NEW f, Filter(f), NEW s \in S
    PROVE  TreeOf(Add(tree, f, s), S)
PROOF
<1> DEFINE new == Add(tree, f, s)
<1>1. DOMAIN new = DOMAIN tree \cup Prefixes(NodeOf(f))
  BY DEF Add
<1>2. DOMAIN new \subseteq Seq(STRING)
  BY <1>1, PlaceOfFilter, PrefixesOfPrefix DEF TreeOf
<1>3. ASSUME NEW path \in DOMAIN new, NEW multi \in BOOLEAN
      PROVE  /\ DOMAIN Vector(new, <<path, multi>>) \subseteq S
             /\ \A u \in DOMAIN Vector(new, <<path, multi>>) :
                    Vector(new, <<path, multi>>)[u] \in Nat \ {0}
  <2> DEFINE old == Vector(tree, <<path, multi>>)
  <2>1. /\ DOMAIN old \subseteq S
        /\ \A u \in DOMAIN old : old[u] \in Nat \ {0}
    BY TreeOfVectors
  <2>2. Vector(new, <<path, multi>>) = IF <<path, multi>> = Place(f)
                                       THEN old (+) SetToBag({s}) ELSE old
    BY VectorOfAdd
  <2> HIDE DEF old, new
  <2>3. /\ DOMAIN (old (+) SetToBag({s})) = DOMAIN old \cup {s}
        /\ \A u \in DOMAIN (old (+) SetToBag({s})) :
               (old (+) SetToBag({s}))[u] \in Nat \ {0}
    BY <2>1, Pushing
  <2> QED BY <2>1, <2>2, <2>3
<1> HIDE DEF new
<1>4. TreeOf(new, S)
  BY <1>2, <1>3 DEF TreeOf, Places
<1> QED BY <1>4 DEF new

LEMMA KeptTreeOf ==
    ASSUME NEW tree, NEW S, TreeOf(tree, S), NEW new, DOMAIN new = DOMAIN tree, NEW c,
           \A path \in DOMAIN tree : \A multi \in BOOLEAN :
               LET place == <<path, multi>>
               IN \/ Vector(new, place) = Retain(Vector(tree, place), c)
                  \/ Vector(new, place) = Vector(tree, place)
    PROVE  TreeOf(new, S)
PROOF
<1>1. ASSUME NEW path \in DOMAIN new, NEW multi \in BOOLEAN
      PROVE  /\ DOMAIN Vector(new, <<path, multi>>) \subseteq S
             /\ \A u \in DOMAIN Vector(new, <<path, multi>>) :
                    Vector(new, <<path, multi>>)[u] \in Nat \ {0}
  <2> DEFINE old == Vector(tree, <<path, multi>>)
  <2>1. /\ DOMAIN old \subseteq S
        /\ \A u \in DOMAIN old : old[u] \in Nat \ {0}
    BY TreeOfVectors
  <2>2. Vector(new, <<path, multi>>) = Retain(old, c) \/ Vector(new, <<path, multi>>) = old
    OBVIOUS
  <2> HIDE DEF old
  <2>3. /\ DOMAIN Retain(old, c) = {u \in DOMAIN old : u.client_id # c}
        /\ \A u \in DOMAIN Retain(old, c) : Retain(old, c)[u] \in Nat \ {0}
    BY <2>1, Retaining
  <2>4. DOMAIN Retain(old, c) \subseteq DOMAIN old
    BY <2>3
  <2> QED BY <2>1, <2>2, <2>3, <2>4
<1> QED BY <1>1 DEF TreeOf, Places

LEMMA RemoveTreeOf ==
    ASSUME NEW tree, NEW S, TreeOf(tree, S), NEW filters, NEW c
    PROVE  TreeOf(Remove(tree, filters, c), S)
PROOF
<1> DEFINE new == Remove(tree, filters, c)
<1>1. DOMAIN new = DOMAIN tree
  BY DEF Remove
<1>2. ASSUME NEW path \in DOMAIN tree, NEW multi \in BOOLEAN
      PROVE  LET place == <<path, multi>>
             IN \/ Vector(new, place) = Retain(Vector(tree, place), c)
                \/ Vector(new, place) = Vector(tree, place)
  BY VectorOfRemove
<1> HIDE DEF new
<1>3. TreeOf(new, S)
  BY <1>1, <1>2, KeptTreeOf
<1> QED BY <1>3 DEF new

LEMMA RemoveAllTreeOf ==
    ASSUME NEW tree, NEW S, TreeOf(tree, S), NEW c
    PROVE  TreeOf(RemoveAllForClient(tree, c), S)
PROOF
<1> DEFINE new == RemoveAllForClient(tree, c)
<1>1. DOMAIN new = DOMAIN tree
  BY DEF RemoveAllForClient
<1>2. ASSUME NEW path \in DOMAIN tree, NEW multi \in BOOLEAN
      PROVE  Vector(new, <<path, multi>>) = Retain(Vector(tree, <<path, multi>>), c)
  BY VectorOfRemoveAll
<1> HIDE DEF new
<1>3. TreeOf(new, S)
  BY <1>1, <1>2, KeptTreeOf
<1> QED BY <1>3 DEF new

LEMMA MatchesOf ==
    ASSUME NEW tree, NEW S, TreeOf(tree, S), NEW topic, NEW e \in Matches(tree, topic)
    PROVE  e \in [place : Seq(STRING) \X BOOLEAN, subscriber : S, copy : Nat]
PROOF
<1>1. PICK place \in Visited(tree, topic) \X BOOLEAN : e \in Elements(tree, place)
  BY DEF Matches
<1>2. place \in Places(tree) /\ place \in Seq(STRING) \X BOOLEAN
  BY DEF Visited, Places, TreeOf
<1>3. PICK s \in DOMAIN Vector(tree, place) :
          e \in [place : {place}, subscriber : {s}, copy : 1 .. Vector(tree, place)[s]]
  BY <1>1 DEF Elements
<1>4. s \in S /\ Vector(tree, place)[s] \in Nat
  BY <1>2 DEF TreeOf
<1> QED BY <1>2, <1>3, <1>4

(* The subscribers at a place, after each method. *)
Holders(tree, path, multi) == DOMAIN Vector(tree, <<path, multi>>)

LEMMA HoldersAfterAdd ==
    ASSUME NEW tree, NEW f, Filter(f), NEW s, NEW path, NEW multi \in BOOLEAN
    PROVE  /\ Holders(tree, path, multi) \subseteq Holders(Add(tree, f, s), path, multi)
           /\ Holders(Add(tree, f, s), path, multi) \subseteq Holders(tree, path, multi) \cup {s}
           /\ <<path, multi>> = Place(f) => s \in Holders(Add(tree, f, s), path, multi)
PROOF
<1> DEFINE place == <<path, multi>>
<1>1. \A bag : DOMAIN (bag (+) SetToBag({s})) = DOMAIN bag \cup {s}
  BY DEF SetToBag, (+)
<1>2. Vector(Add(tree, f, s), place) = IF place = Place(f)
                                       THEN Vector(tree, place) (+) SetToBag({s})
                                       ELSE Vector(tree, place)
  BY VectorOfAdd
<1> HIDE DEF place
<1>3. CASE place = Place(f)
  <2>1. DOMAIN Vector(Add(tree, f, s), place) = DOMAIN Vector(tree, place) \cup {s}
    BY <1>1, <1>2, <1>3
  <2> QED BY <2>1 DEF Holders, place
<1>4. CASE place # Place(f)
  <2>1. Vector(Add(tree, f, s), place) = Vector(tree, place)
    BY <1>2, <1>4
  <2> QED BY <1>4, <2>1 DEF Holders, place
<1> QED BY <1>3, <1>4

LEMMA HoldersAfterRemove ==
    ASSUME NEW tree, NEW filters, NEW c, NEW path, NEW multi \in BOOLEAN
    PROVE  /\ Holders(Remove(tree, filters, c), path, multi) \subseteq Holders(tree, path, multi)
           /\ \A s \in Holders(tree, path, multi) :
                  s.client_id # c => s \in Holders(Remove(tree, filters, c), path, multi)
           /\ <<path, multi>> \notin {Place(f) : f \in filters} =>
                  Holders(Remove(tree, filters, c), path, multi) = Holders(tree, path, multi)
PROOF
<1> DEFINE place == <<path, multi>>
           places == {Place(f) : f \in filters}
<1>1. \A bag : DOMAIN Retain(bag, c) = {s \in DOMAIN bag : s.client_id # c}
  BY DEF Retain
<1>2. Vector(Remove(tree, filters, c), place) = IF place \in places
                                                THEN Retain(Vector(tree, place), c)
                                                ELSE Vector(tree, place)
  BY VectorOfRemove
<1> HIDE DEF place, places
<1>3. CASE place \in places
  <2>1. DOMAIN Vector(Remove(tree, filters, c), place) =
            {s \in DOMAIN Vector(tree, place) : s.client_id # c}
    BY <1>1, <1>2, <1>3
  <2> QED BY <1>3, <2>1 DEF Holders, place, places
<1>4. CASE place \notin places
  <2>1. Vector(Remove(tree, filters, c), place) = Vector(tree, place)
    BY <1>2, <1>4
  <2> QED BY <2>1 DEF Holders, place
<1> QED BY <1>3, <1>4

LEMMA HoldersAfterRemoveAll ==
    ASSUME NEW tree, NEW c, NEW path, NEW multi \in BOOLEAN
    PROVE  Holders(RemoveAllForClient(tree, c), path, multi) =
               {s \in Holders(tree, path, multi) : s.client_id # c}
PROOF
<1>1. \A bag : DOMAIN Retain(bag, c) = {s \in DOMAIN bag : s.client_id # c}
  BY DEF Retain
<1>2. Vector(RemoveAllForClient(tree, c), <<path, multi>>) =
          Retain(Vector(tree, <<path, multi>>), c)
  BY VectorOfRemoveAll
<1> QED BY <1>1, <1>2 DEF Holders

------------------------------------------------------------------------------
(* The recursion of matches visits the nodes that Visited describes.        *)

(* A set of numbers has a least element: an induction over data, as the     *)
(* proofs below use it.                                                     *)
LEMMA LeastNumber ==
    ASSUME NEW T \in SUBSET Nat, T # {}
    PROVE  \E n \in T : \A m \in T : n <= m
PROOF
<1> DEFINE less == {p \in Nat \X Nat : p[1] < p[2]}
<1>1. IsWellFoundedOn(less, Nat)
  <2>1. IsWellFoundedOn(OpToRel(<, Nat), Nat)
    BY NatLessThanWellFounded
  <2> QED BY <2>1 DEF OpToRel
<1>2. \A x, y \in Nat : <<y, x>> \in less <=> y < x
  OBVIOUS
<1> HIDE DEF less
<1>3. PICK x \in T : \A y \in T : ~(<<y, x>> \in less)
  BY <1>1, WFMin
<1>4. ASSUME NEW y \in T
      PROVE  x <= y
  <2>1. ~(y < x)
    BY <1>2, <1>3
  <2> QED BY <2>1
<1> QED BY <1>4

(* One call of the recursion, at the node path, given what the calls for    *)
(* its children return.                                                     *)
Turn(tree, topic, visit, path) ==
    {path} \cup IF Len(path) >= Len(topic) THEN {}
                ELSE UNION {visit[p] : p \in {path \o <<key>> : key \in Keys(topic[Len(path) + 1])}
                                             \cap DOMAIN tree}

LEMMA WalkUnfolded ==
    ASSUME NEW tree, NEW topic
    PROVE  Walk(tree, topic) =
               (CHOOSE v : v = [path \in DOMAIN tree |-> Turn(tree, topic, v, path)])[<<>>]
PROOF BY DEF Walk, Turn

(* What it visits from path down. *)
Downwards(tree, topic, path) ==
    {q \in DOMAIN tree :
        /\ path \in Prefixes(q)
        /\ q # path => Len(q) <= Len(topic)
        /\ \A i \in Len(path) + 1 .. Len(q) : q[i] \in Keys(topic[i])}

LEMMA Extending ==
    ASSUME NEW path \in Seq(STRING), NEW key, NEW q \in Seq(STRING),
           path \o <<key>> \in Prefixes(q)
    PROVE  /\ path \in Prefixes(q)
           /\ Len(q) > Len(path)
           /\ q[Len(path) + 1] = key
PROOF
<1> DEFINE n == Len(path)
           p == path \o <<key>>
<1>1. PICK k \in 0 .. Len(q) : p = SubSeq(q, 1, k)
  BY DEF Prefixes
<1>2. n \in Nat /\ Len(q) \in Nat /\ DOMAIN path = 1 .. n
  OBVIOUS
<1>3. Len(p) = n + 1 /\ p[n + 1] = key /\ \A i \in 1 .. n : p[i] = path[i]
  OBVIOUS
<1>4. Len(SubSeq(q, 1, k)) = k /\ \A i \in 1 .. k : SubSeq(q, 1, k)[i] = q[i]
  BY <1>2
<1> HIDE DEF p
<1>5. k = n + 1 /\ q[n + 1] = key /\ \A i \in 1 .. n : path[i] = q[i]
  BY <1>1, <1>2, <1>3, <1>4
<1>6. path = SubSeq(q, 1, n)
  BY <1>2, <1>5
<1>7. n \in 0 .. Len(q)
  BY <1>2, <1>5
<1>8. path \in Prefixes(q)
  BY <1>6, <1>7 DEF Prefixes
<1>9. Len(q) > n
  BY <1>2, <1>5
<1> QED BY <1>5, <1>8, <1>9

LEMMA Descending ==
    ASSUME NEW q \in Seq(STRING), NEW path \in Prefixes(q), q # path
    PROVE  /\ Len(path) < Len(q)
           /\ SubSeq(q, 1, Len(path) + 1) = path \o <<q[Len(path) + 1]>>
           /\ SubSeq(q, 1, Len(path) + 1) \in Prefixes(q)
PROOF
<1>1. PICK k \in 0 .. Len(q) : path = SubSeq(q, 1, k)
  BY DEF Prefixes
<1>2. Len(path) = k /\ Len(q) \in Nat /\ path \in Seq(STRING)
  BY <1>1
<1>3. k # Len(q)
  <2>1. SubSeq(q, 1, Len(q)) = q
    OBVIOUS
  <2> QED BY <1>1, <2>1
<1>4. k + 1 \in 0 .. Len(q) /\ k \in Nat
  BY <1>2, <1>3
<1>5. SubSeq(q, 1, k + 1) = SubSeq(q, 1, k) \o <<q[k + 1]>>
  BY <1>4
<1> QED BY <1>1, <1>2, <1>4, <1>5 DEF Prefixes

LEMMA DownwardsIsTurn ==
    ASSUME NEW tree, NEW topic \in Seq(STRING), DOMAIN tree \subseteq Seq(STRING),
           \A path \in DOMAIN tree : Prefixes(path) \subseteq DOMAIN tree,
           NEW visit, NEW path \in DOMAIN tree,
           \A key : path \o <<key>> \in DOMAIN tree /\ Len(path) < Len(topic) =>
               visit[path \o <<key>>] = Downwards(tree, topic, path \o <<key>>)
    PROVE  Turn(tree, topic, visit, path) = Downwards(tree, topic, path)
PROOF
<1> DEFINE n == Len(path)
           next == {path \o <<key>> : key \in Keys(topic[n + 1])} \cap DOMAIN tree
<1>1. path \in Seq(STRING) /\ n \in Nat /\ Len(topic) \in Nat
  OBVIOUS
<1>2. path \in Downwards(tree, topic, path)
  <2>1. path \in Prefixes(path)
    BY <1>1 DEF Prefixes
  <2>2. n + 1 .. n = {}
    BY <1>1
  <2> QED BY <2>1, <2>2 DEF Downwards
<1>3. ASSUME NEW q \in Downwards(tree, topic, path), q # path
      PROVE  n < Len(topic) /\ \E p \in next : q \in Downwards(tree, topic, p)
  <2>1. /\ q \in DOMAIN tree /\ q \in Seq(STRING) /\ path \in Prefixes(q)
        /\ Len(q) <= Len(topic) /\ Len(q) \in Nat
        /\ \A i \in n + 1 .. Len(q) : q[i] \in Keys(topic[i])
    BY <1>3 DEF Downwards
  <2> DEFINE p == SubSeq(q, 1, n + 1)
  <2>2. n < Len(q) /\ p = path \o <<q[n + 1]>> /\ p \in Prefixes(q)
    BY <1>3, <2>1, Descending
  <2>3. Len(p) = n + 1
    BY <1>1, <2>1, <2>2
  <2> HIDE DEF p
  <2>4. q[n + 1] \in Keys(topic[n + 1])
    BY <1>1, <2>1, <2>2
  <2>5. p \in next
    BY <2>1, <2>2, <2>4
  <2>6. \A i \in Len(p) + 1 .. Len(q) : q[i] \in Keys(topic[i])
    BY <1>1, <2>1, <2>3
  <2>7. q \in Downwards(tree, topic, p)
    BY <2>1, <2>2, <2>6 DEF Downwards
  <2>8. n < Len(topic)
    BY <1>1, <2>1, <2>2
  <2> QED BY <2>5, <2>7, <2>8
<1>4. ASSUME n < Len(topic), NEW p \in next, NEW q \in Downwards(tree, topic, p)
      PROVE  q \in Downwards(tree, topic, path)
  <2>1. PICK key \in Keys(topic[n + 1]) : p = path \o <<key>>
    OBVIOUS
  <2>2. q \in DOMAIN tree /\ q \in Seq(STRING) /\ p \in Prefixes(q) /\ Len(q) \in Nat
    BY DEF Downwards
  <2>3. path \in Prefixes(q) /\ Len(q) > n /\ q[n + 1] = key
    BY <1>1, <2>1, <2>2, Extending
  <2>4. Len(p) = n + 1
    BY <1>1, <2>1
  <2>5. Len(q) <= Len(topic)
    BY <1>1, <1>4, <2>2, <2>4 DEF Downwards
  <2>6. \A i \in n + 2 .. Len(q) : q[i] \in Keys(topic[i])
    <3>1. n + 2 = Len(p) + 1
      BY <1>1, <2>4
    <3> QED BY <3>1 DEF Downwards
  <2>7. \A i \in n + 1 .. Len(q) : q[i] \in Keys(topic[i])
    BY <1>1, <2>2, <2>3, <2>6
  <2> QED BY <2>2, <2>3, <2>5, <2>7 DEF Downwards
<1>5. \A p \in next : n < Len(topic) => visit[p] = Downwards(tree, topic, p)
  OBVIOUS
<1>6. Turn(tree, topic, visit, path) =
          {path} \cup IF n >= Len(topic) THEN {} ELSE UNION {visit[p] : p \in next}
  BY DEF Turn
<1> HIDE DEF n, next
<1>7. CASE n >= Len(topic)
  <2>1. ~(n < Len(topic))
    BY <1>1, <1>7
  <2>2. Turn(tree, topic, visit, path) = {path}
    BY <1>6, <1>7
  <2> QED BY <1>2, <1>3, <2>1, <2>2
<1>8. CASE n < Len(topic)
  <2>1. ~(n >= Len(topic))
    BY <1>1, <1>8
  <2>2. Turn(tree, topic, visit, path) = {path} \cup UNION {visit[p] : p \in next}
    BY <1>6, <2>1
  <2>3. UNION {visit[p] : p \in next} = UNION {Downwards(tree, topic, p) : p \in next}
    BY <1>5, <1>8
  <2> QED BY <1>2, <1>3, <1>4, <1>8, <2>2, <2>3
<1> QED BY <1>1, <1>7, <1>8

(* The recursion has one solution, by induction from the leaves: its        *)
(* definition says no more than that it solves the equation.                *)
LEMMA OneSolution ==
    ASSUME NEW tree, NEW topic \in Seq(STRING), DOMAIN tree \subseteq Seq(STRING),
           \A path \in DOMAIN tree : Prefixes(path) \subseteq DOMAIN tree,
           NEW visit, visit = [path \in DOMAIN tree |-> Turn(tree, topic, visit, path)],
           NEW start \in DOMAIN tree
    PROVE  visit[start] = Downwards(tree, topic, start)
PROOF
<1> DEFINE Right(path) == visit[path] = Downwards(tree, topic, path)
           wrong == {n \in Nat : \E path \in DOMAIN tree :
                        ~Right(path) /\ Len(path) + n = Len(topic)}
<1>1. \A path \in DOMAIN tree : path \in Seq(STRING) /\ Len(path) \in Nat
  OBVIOUS
<1>2. Len(topic) \in Nat
  OBVIOUS
<1>3. ASSUME NEW path \in DOMAIN tree,
             \A key : path \o <<key>> \in DOMAIN tree /\ Len(path) < Len(topic) =>
                          Right(path \o <<key>>)
      PROVE  Right(path)
  <2>1. Turn(tree, topic, visit, path) = Downwards(tree, topic, path)
    BY <1>3, DownwardsIsTurn
  <2>2. visit[path] = Turn(tree, topic, visit, path)
    OBVIOUS
  <2> QED BY <2>1, <2>2
<1> HIDE DEF Right
<1>4. ASSUME NEW path \in DOMAIN tree, Len(path) >= Len(topic)
      PROVE  Right(path)
  <2>1. ~(Len(path) < Len(topic))
    BY <1>1, <1>2, <1>4
  <2> QED BY <1>3, <2>1
<1>5. wrong = {}
  <2> SUFFICES ASSUME wrong # {}
               PROVE  FALSE
    OBVIOUS
  <2>1. PICK n \in wrong : \A m \in wrong : n <= m
    BY LeastNumber
  <2>2. PICK path \in DOMAIN tree : ~Right(path) /\ Len(path) + n = Len(topic)
    OBVIOUS
  <2>3. ASSUME NEW key, path \o <<key>> \in DOMAIN tree, Len(path) < Len(topic)
        PROVE  Right(path \o <<key>>)
    <3> DEFINE p == path \o <<key>>
    <3>1. Len(p) = Len(path) + 1
      BY <1>1
    <3>2. n - 1 \in Nat /\ Len(p) + (n - 1) = Len(topic)
      <4>1. n \in Nat /\ Len(path) \in Nat
        BY <1>1
      <4>2. Len(path) + n = Len(topic) /\ Len(path) < Len(topic)
        BY <2>2, <2>3
      <4> HIDE DEF p, wrong
      <4>3. n - 1 \in Nat
        BY <1>2, <4>1, <4>2
      <4>4. \A l, m, t \in Nat : m = l + 1 /\ l + n = t => m + (n - 1) = t
        BY <4>1
      <4>5. Len(p) \in Nat
        BY <3>1, <4>1
      <4> QED BY <1>2, <3>1, <4>1, <4>2, <4>3, <4>4, <4>5
    <3>3. ~(n <= n - 1)
      OBVIOUS
    <3>4. n - 1 \notin wrong
      BY <2>1, <3>3
    <3> HIDE DEF p
    <3>5. p \in DOMAIN tree
      BY <2>3 DEF p
    <3>6. Right(p)
      BY <3>2, <3>4, <3>5
    <3> QED BY <3>6 DEF p
  <2> QED BY <1>3, <2>2, <2>3
<1>6. Right(start)
  <2>1. CASE Len(start) >= Len(topic)
    BY <1>4, <2>1
  <2>2. CASE Len(start) < Len(topic)
    <3>1. Len(topic) - Len(start) \in Nat /\ Len(start) + (Len(topic) - Len(start)) = Len(topic)
      BY <1>1, <1>2, <2>2
    <3>2. Len(topic) - Len(start) \notin wrong
      BY <1>5
    <3> QED BY <3>1, <3>2
  <2> QED BY <1>1, <1>2, <2>1, <2>2
<1> QED BY <1>6 DEF Right

(* And a solution there is, so the recursion visits what Visited says. *)
LEMMA WalkVisits ==
    ASSUME NEW tree, NEW topic \in Seq(STRING), DOMAIN tree \subseteq Seq(STRING),
           <<>> \in DOMAIN tree,
           \A path \in DOMAIN tree : Prefixes(path) \subseteq DOMAIN tree
    PROVE  Walk(tree, topic) = Visited(tree, topic)
PROOF
<1> DEFINE Solves(v) == v = [path \in DOMAIN tree |-> Turn(tree, topic, v, path)]
           down == [path \in DOMAIN tree |-> Downwards(tree, topic, path)]
           visit == CHOOSE v : Solves(v)
<1>1. Solves(down)
  <2>1. ASSUME NEW path \in DOMAIN tree
        PROVE  Turn(tree, topic, down, path) = Downwards(tree, topic, path)
    <3>1. \A key : path \o <<key>> \in DOMAIN tree =>
              down[path \o <<key>>] = Downwards(tree, topic, path \o <<key>>)
      OBVIOUS
    <3> HIDE DEF down
    <3> QED BY <3>1, DownwardsIsTurn
  <2>2. [path \in DOMAIN tree |-> Turn(tree, topic, down, path)] =
            [path \in DOMAIN tree |-> Downwards(tree, topic, path)]
    BY <2>1
  <2> QED BY <2>2
<1>2. Walk(tree, topic) = visit[<<>>]
  BY WalkUnfolded
<1> HIDE DEF down
<1>3. Solves(visit)
  <2> HIDE DEF Solves
  <2> QED BY <1>1
<1> HIDE DEF visit
<1>4. visit[<<>>] = Downwards(tree, topic, <<>>)
  BY <1>3, OneSolution
<1>5. ASSUME NEW q \in DOMAIN tree
      PROVE  q \in Downwards(tree, topic, <<>>) <=> q \in Visited(tree, topic)
  <2>1. q \in Seq(STRING) /\ Len(q) \in Nat /\ DOMAIN q = 1 .. Len(q) /\ Len(topic) \in Nat
    OBVIOUS
  <2>2. <<>> \in Prefixes(q) /\ Len(<<>>) + 1 = 1
    <3>1. 0 \in 0 .. Len(q) /\ SubSeq(q, 1, 0) = <<>>
      BY <2>1
    <3> QED BY <3>1 DEF Prefixes
  <2>3. q = <<>> => Len(q) <= Len(topic)
    BY <2>1
  <2> QED BY <2>1, <2>2, <2>3 DEF Downwards, Visited
<1> QED BY <1>2, <1>4, <1>5 DEF Downwards, Visited
==============================================================================
