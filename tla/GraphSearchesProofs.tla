------------------------ MODULE GraphSearchesProofs ------------------------
(***************************************************************************)
(* What is proved of the two programs that search an adjacency_list, for   *)
(* any roads, costs and pairs.                                             *)
(*                                                                         *)
(* journey_to_moon: the search goes through one country at a time, so the  *)
(* counts are those of whole countries; the astronauts that are left are   *)
(* countries of one; and each pass of the sum adds the pairs of one        *)
(* country and those after it, no product having wrapped.  Each entry of   *)
(* the queue has come along a path of its own, and the paths are counted.  *)
(*                                                                         *)
(* roads_and_libraries: each component costs a library and a road for      *)
(* every city but one; and no other choice of roads costs less, since some *)
(* of the roads form a forest that joins what all of them do.              *)
(***************************************************************************)
EXTENDS GraphSearches, FiniteSetTheorems, SequenceTheorems, WellFoundedInduction, TLAPS

LEMMA OneRuns ==
    ASSUME [Next]_vars
    PROVE  /\ program' = program
           /\ program = "roads" => Roads!Next \/ UNCHANGED Roads!vars
           /\ program = "moon" => Moon!Next \/ UNCHANGED Moon!vars
<1>1. CASE UNCHANGED vars
  BY <1>1 DEF vars, roadsOnly, moonOnly, Roads!vars, Roads!args, Moon!vars, Moon!args
<1>2. CASE Next
  BY <1>2 DEF Next
<1> QED
  BY <1>1, <1>2

LEMMA OneStarts ==
    ASSUME Init
    PROVE  (program = "roads" => Roads!Init) /\ (program = "moon" => Moon!Init)
BY DEF Init

LEMMA SameCardinality ==
    /\ \A S : Moon!Cardinality(S) = Cardinality(S)
    /\ \A S : Roads!Cardinality(S) = Cardinality(S)
BY DEF Moon!Cardinality, Roads!Cardinality, Cardinality

----------------------------------------------------------------------------
\* Connectivity, as AdjacencyList has it for both programs.

Closed(S, E) == \A e \in E : e[1] \in S <=> e[2] \in S

Connected(V, E, x) == { y \in V : \A S \in SUBSET V : (Closed(S, E) /\ x \in S) => y \in S }

LEMMA SameComponent ==
    /\ \A V, E, x : Moon!Component(V, E, x) = Connected(V, E, x)
    /\ \A V, E, x : Roads!Component(V, E, x) = Connected(V, E, x)
BY DEF Moon!Component, Roads!Component, Moon!ClosedUnder, Roads!ClosedUnder, Connected, Closed

LEMMA ConnectedIsClosed ==
    ASSUME NEW V, NEW E, E \subseteq V \X V, NEW x \in V
    PROVE  x \in Connected(V, E, x) /\ Connected(V, E, x) \subseteq V /\ Closed(Connected(V, E, x), E)
<1>1. x \in Connected(V, E, x) /\ Connected(V, E, x) \subseteq V
  BY DEF Connected
<1>2. ASSUME NEW e \in E PROVE e[1] \in Connected(V, E, x) <=> e[2] \in Connected(V, E, x)
  <2>1. e[1] \in V /\ e[2] \in V
    OBVIOUS
  <2>2. \A S \in SUBSET V : Closed(S, E) => (e[1] \in S <=> e[2] \in S)
    BY DEF Closed
  <2> QED
    BY <2>1, <2>2 DEF Connected
<1> QED
  BY <1>1, <1>2 DEF Closed

LEMMA ConnectedIsLeast ==
    ASSUME NEW V, NEW E, NEW S \in SUBSET V, Closed(S, E), NEW x \in S
    PROVE  Connected(V, E, x) \subseteq S
BY DEF Connected

LEMMA RestIsClosed ==
    ASSUME NEW V, NEW E, E \subseteq V \X V, NEW S, Closed(S, E)
    PROVE  Closed(V \ S, E)
<1>1. \A e \in E : e[1] \in V /\ e[2] \in V
  OBVIOUS
<1> QED
  BY <1>1 DEF Closed

LEMMA ConnectedIsShared ==
    ASSUME NEW V, NEW E, E \subseteq V \X V, NEW x \in V, NEW y \in Connected(V, E, x)
    PROVE  Connected(V, E, y) = Connected(V, E, x)
<1>1. y \in V
  BY DEF Connected
<1>2. Connected(V, E, y) \subseteq Connected(V, E, x)
  BY ConnectedIsClosed, ConnectedIsLeast
<1>3. x \in Connected(V, E, y)
  <2> SUFFICES ASSUME x \notin Connected(V, E, y) PROVE FALSE
    OBVIOUS
  <2>1. Closed(Connected(V, E, y), E) /\ y \in Connected(V, E, y)
    BY <1>1, ConnectedIsClosed
  <2>2. Closed(V \ Connected(V, E, y), E) /\ x \in V \ Connected(V, E, y)
    BY <2>1, RestIsClosed
  <2>3. y \in V \ Connected(V, E, y)
    BY <2>2 DEF Connected
  <2> QED
    BY <2>1, <2>3
<1>4. Connected(V, E, x) \subseteq Connected(V, E, y)
  BY <1>1, <1>3, ConnectedIsClosed, ConnectedIsLeast
<1> QED
  BY <1>2, <1>4

----------------------------------------------------------------------------
\* class adjacency_list

Neighbors(e, x) == IF x \in DOMAIN e THEN e[x] ELSE {}

LEMMA SameNeighbors ==
    /\ \A e, x : Moon!NeighborsOf(e, x) = Neighbors(e, x)
    /\ \A e, x : Roads!NeighborsOf(e, x) = Neighbors(e, x)
BY DEF Moon!NeighborsOf, Roads!NeighborsOf, Neighbors

Inserted(e, x, y) == [z \in DOMAIN e \cup {x} |-> IF z = x THEN Neighbors(e, x) \cup {y} ELSE e[z]]

LEMMA InsertedOne ==
    ASSUME NEW e, NEW a, NEW b
    PROVE  /\ DOMAIN Inserted(e, a, b) = DOMAIN e \cup {a}
           /\ \A x, y : y \in Neighbors(Inserted(e, a, b), x) <=> y \in Neighbors(e, x) \/ (x = a /\ y = b)
<1>1. DOMAIN Inserted(e, a, b) = DOMAIN e \cup {a}
  BY DEF Inserted
<1>2. ASSUME NEW x PROVE Neighbors(Inserted(e, a, b), x) = IF x = a THEN Neighbors(e, a) \cup {b} ELSE Neighbors(e, x)
  BY DEF Inserted, Neighbors
<1> QED
  BY <1>1, <1>2

Entered(e, a, b) == Inserted(Inserted(e, a, b), b, a)

LEMMA SameInsert ==
    /\ \A e, a, b : Moon!InsertBoth(e, a, b) = Entered(e, a, b)
    /\ \A e, a, b : Roads!InsertBoth(e, a, b) = Entered(e, a, b)
<1>1. \A e, a, b : Moon!Insert(e, a, b) = Inserted(e, a, b)
  BY SameNeighbors DEF Moon!Insert, Inserted
<1>2. \A e, a, b : Roads!Insert(e, a, b) = Inserted(e, a, b)
  BY SameNeighbors DEF Roads!Insert, Inserted
<1>3. \A e, a, b : Moon!InsertBoth(e, a, b) = Entered(e, a, b)
  BY <1>1 DEF Moon!InsertBoth, Entered
<1>4. \A e, a, b : Roads!InsertBoth(e, a, b) = Entered(e, a, b)
  BY <1>2 DEF Roads!InsertBoth, Entered
<1> QED
  BY <1>3, <1>4

LEMMA EnteredBoth ==
    ASSUME NEW e, NEW a, NEW b
    PROVE  /\ \A x : x \in DOMAIN Entered(e, a, b) <=> x \in DOMAIN e \/ x = a \/ x = b
           /\ \A x, y : y \in Neighbors(Entered(e, a, b), x) <=> y \in Neighbors(e, x) \/ (x = a /\ y = b) \/ (x = b /\ y = a)
<1> DEFINE one == Inserted(e, a, b)
<1>1. /\ DOMAIN one = DOMAIN e \cup {a}
      /\ \A x, y : y \in Neighbors(one, x) <=> y \in Neighbors(e, x) \/ (x = a /\ y = b)
  BY InsertedOne
<1>2. Entered(e, a, b) = Inserted(one, b, a)
  BY DEF Entered
<1> HIDE DEF one
<1>3. /\ DOMAIN Entered(e, a, b) = DOMAIN one \cup {b}
      /\ \A x, y : y \in Neighbors(Entered(e, a, b), x) <=> y \in Neighbors(one, x) \/ (x = b /\ y = a)
  BY <1>2, InsertedOne
<1>5. \A x : x \in DOMAIN Entered(e, a, b) <=> x \in DOMAIN e \/ x = a \/ x = b
  BY <1>1, <1>3
<1>6. \A x, y : y \in Neighbors(Entered(e, a, b), x) <=> y \in Neighbors(e, x) \/ (x = a /\ y = b) \/ (x = b /\ y = a)
  BY <1>1, <1>3
<1> QED
  BY <1>5, <1>6

\* What a walk over a set lists.
LEMMA WalkLists ==
    ASSUME NEW S, IsFiniteSet(S), NEW w \in Moon!Walks(S) \cup Roads!Walks(S)
    PROVE  /\ w \in Seq(S) /\ { w[k] : k \in 1..Len(w) } = S
           /\ \A j, k \in 1..Len(w) : w[j] = w[k] => j = k
<1> DEFINE d == Cardinality(S)
<1>1. d \in Nat /\ IsFiniteSet(1..d) /\ Cardinality(1..d) = d
  BY FS_CardinalityType, FS_Interval
<1>2. w \in [1..d -> S] /\ \A j, k \in 1..d : j # k => w[j] # w[k]
  BY SameCardinality DEF Moon!Walks, Roads!Walks, Moon!SetToSeqs, Roads!SetToSeqs
<1>3. w \in Seq(S) /\ Len(w) = d
  BY <1>1, <1>2
<1> DEFINE T == { w[k] : k \in 1..d }
<1>4. T \in SUBSET S
  BY <1>2
<1>5. w \in Injection(1..d, T)
  BY <1>2 DEF Injection, IsInjective
<1>6. IsFiniteSet(T) /\ Cardinality(T) <= d
  BY <1>4, FS_Subset
<1>7. Cardinality(1..d) <= Cardinality(T)
  BY <1>5, <1>6, FS_Injection
<1>8. Cardinality(T) = d
  BY <1>1, <1>6, <1>7, FS_CardinalityType
<1> HIDE DEF T
<1>9. T = S
  BY <1>4, <1>8, FS_Subset
<1>10. \A j, k \in 1..Len(w) : w[j] = w[k] => j = k
  BY <1>2, <1>3
<1> QED
  BY <1>3, <1>9, <1>10 DEF T

----------------------------------------------------------------------------
\* Lists.

Items(q) == { q[k] : k \in 1..Len(q) }

LEMMA ListPopped ==
    ASSUME NEW S, NEW q \in Seq(S), q # <<>>
    PROVE  /\ Head(q) \in S /\ Tail(q) \in Seq(S)
           /\ Items(q) = {Head(q)} \cup Items(Tail(q))
<1>1. /\ Len(q) \in Nat /\ Len(q) >= 1 /\ Head(q) = q[1] /\ Tail(q) \in Seq(S) /\ Len(Tail(q)) = Len(q) - 1
      /\ \A k \in 1..(Len(q) - 1) : Tail(q)[k] = q[k + 1]
  OBVIOUS
<1>2. 1 \in 1..Len(q) /\ Head(q) \in S
  BY <1>1
<1>3. \A k \in 1..(Len(q) - 1) : k + 1 \in 1..Len(q)
  BY <1>1
<1>4. \A k \in 1..Len(q) : k = 1 \/ (k - 1 \in 1..(Len(q) - 1) /\ q[k] = Tail(q)[k - 1])
  BY <1>1
<1>5. Items(q) = {q[1]} \cup Items(Tail(q))
  BY <1>1, <1>2, <1>3, <1>4 DEF Items
<1> QED
  BY <1>1, <1>2, <1>5

LEMMA ListJoined ==
    ASSUME NEW S, NEW p \in Seq(S), NEW q \in Seq(S)
    PROVE  p \o q \in Seq(S) /\ Items(p \o q) = Items(p) \cup Items(q)
<1> DEFINE r == p \o q
<1>1. /\ Len(p) \in Nat /\ Len(q) \in Nat /\ r \in Seq(S) /\ Len(r) = Len(p) + Len(q)
      /\ \A k \in 1..Len(r) : r[k] = IF k <= Len(p) THEN p[k] ELSE q[k - Len(p)]
  OBVIOUS
<1> HIDE DEF r
<1>2. \A k \in 1..Len(p) : k \in 1..Len(r) /\ r[k] = p[k]
  BY <1>1
<1>3. \A k \in 1..Len(q) : k + Len(p) \in 1..Len(r) /\ r[k + Len(p)] = q[k]
  <2> SUFFICES ASSUME NEW k \in 1..Len(q) PROVE k + Len(p) \in 1..Len(r) /\ r[k + Len(p)] = q[k]
    OBVIOUS
  <2>1. k + Len(p) \in 1..Len(r) /\ ~(k + Len(p) <= Len(p)) /\ (k + Len(p)) - Len(p) = k
    BY <1>1
  <2> QED
    BY <1>1, <2>1
<1>4. \A k \in 1..Len(r) : k \in 1..Len(p) \/ (k - Len(p) \in 1..Len(q) /\ r[k] = q[k - Len(p)])
  BY <1>1
<1>5. Items(p) \subseteq Items(r)
  BY <1>2 DEF Items
<1>6. Items(q) \subseteq Items(r)
  BY <1>3 DEF Items
<1>7. Items(r) \subseteq Items(p) \cup Items(q)
  BY <1>1, <1>2, <1>4 DEF Items
<1> QED
  BY <1>1, <1>5, <1>6, <1>7 DEF r

----------------------------------------------------------------------------
\* journey_to_moon.cc

Astronauts == Moon!Nodes

Linked == Moon!Compatriots

Country(x) == Connected(Astronauts, Linked, x)

PairOf(k) == {a_pairs[k][1], a_pairs[k][2]}

MoonArgs == n \in Nat /\ a_pairs \in Seq(Astronauts \X Astronauts)

\* The adjacency list holds the pairs entered so far.
PairsFilled ==
    /\ filled \in 0..Len(a_pairs)
    /\ DOMAIN edges \subseteq Astronauts
    /\ \A x, y : y \in Neighbors(edges, x) <=> \E k \in 1..filled : PairOf(k) = {x, y}
    /\ \A x \in DOMAIN edges : Neighbors(edges, x) # {}

\* The first d entries of cs are the sizes of the countries of S, one each.
Tallied(cs, d, S) ==
    \E f \in [1..d -> SUBSET Astronauts] :
        /\ \A j, k \in 1..d : f[j] = f[k] => j = k
        /\ { f[k] : k \in 1..d } = { Country(x) : x \in S }
        /\ \A k \in 1..d : cs[k] = Cardinality(f[k])

\* Every node that has been reached belongs to the country of s, and what is
\* next to a visited one has been reached.
Searching(unw, vis, que, cs, old, s) ==
    LET new  == vis \ old
        seen == new \cup { que[k] : k \in 1..Len(que) }
    IN  /\ s \in seen /\ seen \subseteq Country(s)
        /\ \A x \in new : Neighbors(edges, x) \subseteq seen
        /\ cs # <<>> /\ cs[Len(cs)] = Cardinality(new)
        /\ Tallied(cs, Len(cs) - 1, old)
        /\ DOMAIN edges \ unw \subseteq old \cup {s}

Walking(unw, vis, que, cs) ==
    \/ /\ que = <<>> /\ Closed(vis, Linked) /\ Tallied(cs, Len(cs), vis)
       /\ DOMAIN edges \ unw \subseteq vis
    \/ \E old \in SUBSET vis, s \in Astronauts :
           /\ que # <<>> /\ Closed(old, Linked) /\ s \notin old
           /\ Searching(unw, vis, que, cs, old, s)

MoonInv ==
    /\ MoonArgs /\ PairsFilled
    /\ visited \subseteq Astronauts /\ queue \in Seq(Astronauts)
    /\ pc \in {"fill", "walk"} => countries \in Seq(Nat)
    /\ pc \in {"fill", "walk", "sum", "done", "undefined"}
    /\ pc = "fill" => visited = {} /\ queue = <<>> /\ countries = <<>>
    /\ pc # "fill" => filled = Len(a_pairs)
    /\ pc = "walk" => unwalked \subseteq DOMAIN edges /\ Walking(unwalked, visited, queue, countries)

LEMMA MoonFinite == MoonArgs => IsFiniteSet(Astronauts)
BY FS_Interval DEF MoonArgs, Astronauts, Moon!Nodes

LEMMA LinkedIsIn == Linked \subseteq Astronauts \X Astronauts
BY DEF Linked, Moon!Compatriots, Astronauts

\* Once all pairs are entered, neighbours are linked.
LEMMA NeighborsLinked ==
    ASSUME MoonArgs, PairsFilled, filled = Len(a_pairs)
    PROVE  \A x, y : y \in Neighbors(edges, x) => /\ x \in Astronauts /\ y \in Astronauts
                                                 /\ <<x, y>> \in Linked
<1> SUFFICES ASSUME NEW x, NEW y, y \in Neighbors(edges, x)
             PROVE  x \in Astronauts /\ y \in Astronauts /\ <<x, y>> \in Linked
  OBVIOUS
<1>1. PICK k \in 1..Len(a_pairs) : PairOf(k) = {x, y}
  BY DEF PairsFilled
<1>2. a_pairs \in Seq(Astronauts \X Astronauts) /\ DOMAIN a_pairs = 1..Len(a_pairs)
  BY DEF MoonArgs
<1>3. a_pairs[k] \in Astronauts \X Astronauts
  BY <1>1, <1>2
<1>4. x \in PairOf(k) /\ y \in PairOf(k)
  BY <1>1
<1>5. x \in Astronauts /\ y \in Astronauts
  BY <1>3, <1>4 DEF PairOf
<1>6. <<x, y>> \in Linked
  BY <1>1, <1>2, <1>5 DEF Linked, Moon!Compatriots, PairOf, Astronauts
<1> QED
  BY <1>5, <1>6

LEMMA LinkedNeighbors ==
    ASSUME MoonArgs, PairsFilled, filled = Len(a_pairs)
    PROVE  \A e \in Linked : /\ e[1] \in Astronauts /\ e[2] \in Astronauts
                             /\ e[2] \in Neighbors(edges, e[1]) /\ e[1] \in Neighbors(edges, e[2])
<1> SUFFICES ASSUME NEW e \in Linked
             PROVE  /\ e[1] \in Astronauts /\ e[2] \in Astronauts
                    /\ e[2] \in Neighbors(edges, e[1]) /\ e[1] \in Neighbors(edges, e[2])
  OBVIOUS
<1>1. DOMAIN a_pairs = 1..Len(a_pairs)
  BY DEF MoonArgs
<1>2. /\ e[1] \in Astronauts /\ e[2] \in Astronauts
      /\ \E k \in 1..Len(a_pairs) : PairOf(k) = {e[1], e[2]}
  BY <1>1 DEF Linked, Moon!Compatriots, PairOf, Astronauts
<1>3. {e[1], e[2]} = {e[2], e[1]}
  OBVIOUS
<1>4. e[2] \in Neighbors(edges, e[1])
  BY <1>2 DEF PairsFilled
<1>5. e[1] \in Neighbors(edges, e[2])
  BY <1>2, <1>3 DEF PairsFilled
<1> QED
  BY <1>2, <1>4, <1>5

LEMMA ClosedUnderNeighbors ==
    ASSUME MoonArgs, PairsFilled, filled = Len(a_pairs), NEW S,
           \A x \in S : Neighbors(edges, x) \subseteq S
    PROVE  Closed(S, Linked)
BY LinkedNeighbors DEF Closed

LEMMA NeighborsStay ==
    ASSUME MoonArgs, PairsFilled, filled = Len(a_pairs), NEW S, Closed(S, Linked), NEW x \in S
    PROVE  Neighbors(edges, x) \subseteq S
<1> SUFFICES ASSUME NEW y \in Neighbors(edges, x) PROVE y \in S
  OBVIOUS
<1>1. <<x, y>> \in Linked
  BY NeighborsLinked
<1> QED
  BY <1>1 DEF Closed

LEMMA CountryIs ==
    ASSUME NEW x \in Astronauts
    PROVE  /\ x \in Country(x) /\ Country(x) \subseteq Astronauts /\ Closed(Country(x), Linked)
           /\ \A y \in Country(x) : Country(y) = Country(x)
BY LinkedIsIn, ConnectedIsClosed, ConnectedIsShared DEF Country

LEMMA MoonTables ==
    ASSUME UNCHANGED <<n, a_pairs>>
    PROVE  /\ Astronauts' = Astronauts /\ Linked' = Linked /\ MoonArgs' = MoonArgs
           /\ \A x : Country(x)' = Country(x)
           /\ \A k : PairOf(k)' = PairOf(k)
           /\ \A cs, d, S : Tallied(cs, d, S)' = Tallied(cs, d, S)
<1>1. Astronauts' = Astronauts
  BY DEF Astronauts, Moon!Nodes
<1>2. Linked' = Linked
  BY <1>1 DEF Linked, Moon!Compatriots, Astronauts
<1>3. \A x : Country(x)' = Country(x)
  BY <1>1, <1>2 DEF Country, Connected, Closed
<1>4. \A cs, d, S : Tallied(cs, d, S)' = Tallied(cs, d, S)
  <2> SUFFICES ASSUME NEW cs, NEW d, NEW S PROVE Tallied(cs, d, S)' = Tallied(cs, d, S)
    OBVIOUS
  <2>1. { Country(x) : x \in S }' = { Country(x) : x \in S }
    BY <1>3
  <2> QED
    BY <1>1, <2>1 DEF Tallied
<1>5. \A k : PairOf(k)' = PairOf(k)
  BY DEF PairOf
<1>6. MoonArgs' = MoonArgs
  BY <1>1 DEF MoonArgs
<1> QED
  BY <1>1, <1>2, <1>3, <1>4, <1>5, <1>6

\* The search of a country is over when the queue is empty.
LEMMA SearchOver ==
    ASSUME MoonArgs, PairsFilled, filled = Len(a_pairs),
           NEW unw, NEW vis, vis \subseteq Astronauts, NEW cs \in Seq(Nat),
           NEW old \in SUBSET vis, NEW s \in Astronauts, Closed(old, Linked), s \notin old,
           Searching(unw, vis, <<>>, cs, old, s)
    PROVE  /\ Closed(vis, Linked) /\ Tallied(cs, Len(cs), vis)
           /\ DOMAIN edges \ unw \subseteq vis
<1> DEFINE new == vis \ old
<1> DEFINE d == Len(cs)
<1>1. /\ s \in new /\ new \subseteq Country(s) /\ \A x \in new : Neighbors(edges, x) \subseteq new
      /\ cs # <<>> /\ cs[d] = Cardinality(new) /\ Tallied(cs, d - 1, old)
      /\ DOMAIN edges \ unw \subseteq old \cup {s}
  <2>1. { <<>>[k] : k \in 1..Len(<<>>) } = {}
    OBVIOUS
  <2> QED
    BY <2>1 DEF Searching
<1>2. d \in Nat /\ d - 1 \in Nat /\ d \in 1..d
  BY <1>1
<1>3. Closed(new, Linked)
  BY <1>1, ClosedUnderNeighbors
<1>4. Country(s) = new
  <2>1. Country(s) \subseteq new
    BY <1>1, <1>3, ConnectedIsLeast DEF Country
  <2> QED
    BY <1>1, <2>1
<1>5. Closed(vis, Linked)
  BY <1>3 DEF Closed
<1>6. \A x \in new : Country(x) = Country(s)
  BY <1>4, CountryIs
<1>7. { Country(x) : x \in vis } = { Country(x) : x \in old } \cup {new}
  BY <1>1, <1>4, <1>6
<1>8. new \notin { Country(x) : x \in old }
  <2> SUFFICES ASSUME NEW x \in old, Country(x) = new PROVE FALSE
    OBVIOUS
  <2>1. x \in Astronauts /\ x \notin new
    OBVIOUS
  <2> QED
    BY <2>1, CountryIs
<1>9. PICK f \in [1..(d - 1) -> SUBSET Astronauts] :
        /\ \A j, k \in 1..(d - 1) : f[j] = f[k] => j = k
        /\ { f[k] : k \in 1..(d - 1) } = { Country(x) : x \in old }
        /\ \A k \in 1..(d - 1) : cs[k] = Cardinality(f[k])
  BY <1>1 DEF Tallied
<1> DEFINE g == [k \in 1..d |-> IF k = d THEN new ELSE f[k]]
<1> HIDE DEF new, d
<1>10. /\ g \in [1..d -> SUBSET Astronauts] /\ g[d] = new
       /\ \A k \in 1..(d - 1) : g[k] = f[k] /\ k # d
       /\ \A k \in 1..d : k = d \/ k \in 1..(d - 1)
  <2>1. \A k \in 1..d : k = d \/ k \in 1..(d - 1)
    BY <1>2
  <2>2. \A k \in 1..(d - 1) : k \in 1..d /\ k # d
    BY <1>2
  <2>3. new \in SUBSET Astronauts
    BY DEF new
  <2> QED
    BY <1>2, <2>1, <2>2, <2>3
<1> HIDE DEF g
<1>11. \A j, k \in 1..d : g[j] = g[k] => j = k
  BY <1>8, <1>9, <1>10
<1>12. { g[k] : k \in 1..d } = { Country(x) : x \in vis }
  <2>1. { g[k] : k \in 1..d } = { f[k] : k \in 1..(d - 1) } \cup {new}
    <3>1. \A k \in 1..(d - 1) : k \in 1..d
      BY <1>2
    <3> QED
      BY <1>2, <1>10, <3>1
  <2> QED
    BY <1>7, <1>9, <2>1
<1>13. \A k \in 1..d : cs[k] = Cardinality(g[k])
  BY <1>1, <1>9, <1>10
<1>14. Tallied(cs, d, vis)
  BY <1>10, <1>11, <1>12, <1>13 DEF Tallied
<1>15. DOMAIN edges \ unw \subseteq vis
  BY <1>1 DEF new
<1> QED
  BY <1>5, <1>14, <1>15 DEF d

LEMMA MoonInit == Moon!Init => MoonInv
<1> SUFFICES ASSUME Moon!Init PROVE MoonInv
  OBVIOUS
<1>1. PICK in \in Pairs : n = in.n /\ a_pairs = in.pairs
  BY DEF Moon!Init
<1>2. MoonArgs
  BY <1>1, InputsAssumption DEF Moon!InputsOK, MoonArgs, Astronauts, Moon!Nodes
<1>3. /\ edges = [x \in {} |-> {}] /\ filled = 0 /\ visited = {} /\ queue = <<>> /\ countries = <<>>
      /\ pc = "fill"
  BY DEF Moon!Init, Moon!NoEdges
<1>4. PairsFilled
  <2>1. Len(a_pairs) \in Nat /\ DOMAIN edges = {} /\ \A x : Neighbors(edges, x) = {}
    BY <1>2, <1>3 DEF MoonArgs, Neighbors
  <2> QED
    BY <1>3, <2>1 DEF PairsFilled
<1> QED
  BY <1>2, <1>3, <1>4 DEF MoonInv

LEMMA FillStep == ASSUME MoonInv, Moon!FillEdge PROVE MoonInv'
<1>1. /\ pc = "fill" /\ filled < Len(a_pairs) /\ filled' = filled + 1
      /\ edges' = Moon!InsertBoth(edges, a_pairs[filled + 1][1], a_pairs[filled + 1][2])
      /\ UNCHANGED <<n, a_pairs, ndebug, unwalked, visited, countries, queue, n_pairs, i, pc>>
  BY DEF Moon!FillEdge, Moon!args
<1>2. MoonArgs /\ PairsFilled
  BY DEF MoonInv
<1>3. filled \in Nat /\ Len(a_pairs) \in Nat /\ filled + 1 \in 1..Len(a_pairs) /\ filled + 1 \in 0..Len(a_pairs)
  BY <1>1, <1>2 DEF MoonArgs, PairsFilled
<1> DEFINE a == a_pairs[filled + 1][1]
<1> DEFINE b == a_pairs[filled + 1][2]
<1>4. a \in Astronauts /\ b \in Astronauts
  <2> DEFINE e == a_pairs[filled + 1]
  <2>1. e \in Astronauts \X Astronauts
    BY <1>2, <1>3, ElementOfSeq DEF MoonArgs
  <2> HIDE DEF e
  <2>2. e[1] \in Astronauts /\ e[2] \in Astronauts
    BY <2>1
  <2> QED
    BY <2>2 DEF e
<1>5. /\ DOMAIN edges' = DOMAIN edges \cup {a, b}
      /\ \A x, y : y \in Neighbors(edges', x) <=> y \in Neighbors(edges, x) \/ {x, y} = {a, b}
  <2>1. edges' = Entered(edges, a, b)
    BY <1>1, SameInsert
  <2> HIDE DEF a, b
  <2>2. /\ \A x : x \in DOMAIN edges' <=> x \in DOMAIN edges \/ x = a \/ x = b
        /\ \A x, y : y \in Neighbors(edges', x) <=> y \in Neighbors(edges, x) \/ (x = a /\ y = b) \/ (x = b /\ y = a)
    BY <2>1, EnteredBoth
  <2>3. \A x, y : {x, y} = {a, b} <=> (x = a /\ y = b) \/ (x = b /\ y = a)
    OBVIOUS
  <2> QED
    BY <2>2, <2>3
<1>6. PairOf(filled + 1) = {a, b}
  BY DEF PairOf
<1> HIDE DEF a, b
<1>7. \A x, y : y \in Neighbors(edges', x) <=> \E k \in 1..(filled + 1) : PairOf(k) = {x, y}
  <2>1. \A k : k \in 1..(filled + 1) <=> k \in 1..filled \/ k = filled + 1
    BY <1>3
  <2>2. \A x, y : y \in Neighbors(edges, x) <=> \E k \in 1..filled : PairOf(k) = {x, y}
    BY <1>2 DEF PairsFilled
  <2>3. \A x, y : {x, y} = {a, b} <=> PairOf(filled + 1) = {x, y}
    BY <1>6
  <2> SUFFICES ASSUME NEW x, NEW y
               PROVE  y \in Neighbors(edges', x) <=> \E k \in 1..(filled + 1) : PairOf(k) = {x, y}
    OBVIOUS
  <2>4. y \in Neighbors(edges', x) <=> (\E k \in 1..filled : PairOf(k) = {x, y}) \/ PairOf(filled + 1) = {x, y}
    BY <1>5, <2>2, <2>3
  <2> QED
    BY <2>1, <2>4
<1>8. \A x \in DOMAIN edges' : Neighbors(edges', x) # {}
  <2> SUFFICES ASSUME NEW x \in DOMAIN edges' PROVE \E y : y \in Neighbors(edges', x)
    OBVIOUS
  <2>1. CASE x \in DOMAIN edges
    BY <1>2, <1>5, <2>1 DEF PairsFilled
  <2>2. CASE x = a
    BY <1>5, <2>2
  <2>3. CASE x = b
    <3>1. {b, a} = {a, b}
      OBVIOUS
    <3> QED
      BY <1>5, <2>3, <3>1
  <2> QED
    BY <1>5, <2>1, <2>2, <2>3
<1>9. PairsFilled'
  <2>1. \A k : PairOf(k)' = PairOf(k)
    BY <1>1, MoonTables
  <2>2. Astronauts' = Astronauts
    BY <1>1, MoonTables
  <2>3. DOMAIN edges' \subseteq Astronauts
    BY <1>2, <1>4, <1>5 DEF PairsFilled
  <2> QED
    BY <1>1, <1>3, <1>7, <1>8, <2>1, <2>2, <2>3 DEF PairsFilled
<1> QED
  BY <1>1, <1>2, <1>9, MoonTables DEF MoonInv

\* What a step in the walk leaves alone.
LEMMA WalkTables ==
    ASSUME MoonInv, UNCHANGED <<n, a_pairs, edges, filled>>
    PROVE  /\ MoonArgs' /\ PairsFilled' /\ Astronauts' = Astronauts /\ Linked' = Linked
           /\ \A cs, d, S : Tallied(cs, d, S)' = Tallied(cs, d, S)
           /\ \A x : Country(x)' = Country(x)
<1>1. MoonArgs /\ PairsFilled
  BY DEF MoonInv
<1>2. PairsFilled' = PairsFilled
  <2>1. Astronauts' = Astronauts /\ \A k : PairOf(k)' = PairOf(k)
    BY MoonTables
  <2>2. \A x : Neighbors(edges, x)' = Neighbors(edges, x)
    BY DEF Neighbors
  <2> QED
    BY <2>1, <2>2 DEF PairsFilled
<1> QED
  BY <1>1, <1>2, MoonTables

\* Where the walk stands after a step, in terms of the tables before it.
LEMMA WalkGoes ==
    ASSUME MoonInv, UNCHANGED <<n, a_pairs, edges, filled>>, filled = Len(a_pairs),
           visited' \subseteq Astronauts, queue' \in Seq(Astronauts),
           pc' \in {"walk", "sum", "done", "undefined"},
           pc' = "walk" => countries' \in Seq(Nat) /\ unwalked' \subseteq DOMAIN edges /\ Walking(unwalked', visited', queue', countries')
    PROVE  MoonInv'
<1>1. MoonArgs' /\ PairsFilled' /\ Astronauts' = Astronauts /\ Linked' = Linked
  BY WalkTables
<1>2. \A x : Country(x)' = Country(x) /\ Neighbors(edges, x)' = Neighbors(edges, x)
  BY WalkTables DEF Neighbors
<1>3. \A cs, d, S : Tallied(cs, d, S)' = Tallied(cs, d, S)
  BY WalkTables
<1>4. ASSUME NEW unw, NEW vis, NEW que, NEW cs, NEW old, NEW s
      PROVE  Searching(unw, vis, que, cs, old, s)' = Searching(unw, vis, que, cs, old, s)
  BY <1>2, <1>3 DEF Searching
<1>5. ASSUME NEW unw, NEW vis, NEW que, NEW cs
      PROVE  Walking(unw, vis, que, cs)' = Walking(unw, vis, que, cs)
  BY <1>1, <1>3, <1>4 DEF Walking
<1>6. pc' = "walk" => Walking(unwalked, visited, queue, countries)'
  BY <1>5
<1> QED
  BY <1>1, <1>6 DEF MoonInv

LEMMA EndsOfWalk ==
    ASSUME MoonInv, Moon!StartWalk \/ Moon!AddSingles \/ Moon!SumProducts \/ Moon!ReadOutside \/ Moon!Return
    PROVE  MoonInv'
<1>1. MoonArgs /\ PairsFilled /\ visited \subseteq Astronauts /\ queue \in Seq(Astronauts)
  BY DEF MoonInv
<1>2. CASE Moon!StartWalk
  <2>1. /\ pc = "fill" /\ filled = Len(a_pairs) /\ unwalked' = DOMAIN edges /\ pc' = "walk"
        /\ UNCHANGED <<n, a_pairs, edges, filled, visited, countries, queue>>
    BY <1>2 DEF Moon!StartWalk, Moon!args
  <2>2. visited = {} /\ queue = <<>> /\ countries = <<>>
    BY <2>1 DEF MoonInv
  <2>3. Closed({}, Linked) /\ Tallied(<<>>, 0, {})
    <3>1. Closed({}, Linked)
      BY DEF Closed
    <3>2. 1..0 = {}
      OBVIOUS
    <3> DEFINE f == [k \in 1..0 |-> {}]
    <3>3. f \in [1..0 -> SUBSET Astronauts] /\ { f[k] : k \in 1..0 } = { Country(x) : x \in {} }
      BY <3>2
    <3> HIDE DEF f
    <3>4. Tallied(<<>>, 0, {})
      BY <3>2, <3>3 DEF Tallied
    <3> QED
      BY <3>1, <3>4
  <2>4. Walking(unwalked', visited', queue', countries')
    <3>1. Len(<<>>) = 0
      OBVIOUS
    <3> QED
      BY <2>1, <2>2, <2>3, <3>1 DEF Walking
  <2>5. <<>> \in Seq(Nat)
    OBVIOUS
  <2> QED
    BY <1>1, <2>1, <2>2, <2>4, <2>5, WalkGoes
<1>3. CASE Moon!AddSingles
  <2>1. /\ pc = "walk" /\ pc' = "sum" /\ queue = <<>>
        /\ UNCHANGED <<n, a_pairs, edges, filled, visited, queue>>
    BY <1>3 DEF Moon!AddSingles, Moon!args
  <2>2. filled = Len(a_pairs)
    BY <2>1 DEF MoonInv
  <2> QED
    BY <1>1, <2>1, <2>2, WalkGoes
<1>4. CASE Moon!SumProducts \/ Moon!ReadOutside \/ Moon!Return
  <2>1. /\ pc = "sum" /\ pc' \in {"sum", "undefined", "done"}
        /\ UNCHANGED <<n, a_pairs, edges, filled, visited, queue, countries>>
    BY <1>4 DEF Moon!SumProducts, Moon!ReadOutside, Moon!Return, Moon!args
  <2>2. filled = Len(a_pairs)
    BY <2>1 DEF MoonInv
  <2> QED
    BY <1>1, <2>1, <2>2, WalkGoes
<1> QED
  BY <1>2, <1>3, <1>4

LEMMA WalkNow ==
    ASSUME MoonInv, pc = "walk"
    PROVE  /\ MoonArgs /\ PairsFilled /\ filled = Len(a_pairs) /\ visited \subseteq Astronauts
           /\ queue \in Seq(Astronauts) /\ countries \in Seq(Nat) /\ unwalked \subseteq DOMAIN edges
           /\ DOMAIN edges \subseteq Astronauts /\ Walking(unwalked, visited, queue, countries)
BY DEF MoonInv, PairsFilled

LEMMA SkipStep == ASSUME MoonInv, Moon!SkipVisited PROVE MoonInv'
<1>1. /\ pc = "walk" /\ queue = <<>> /\ UNCHANGED <<n, a_pairs, edges, filled, visited, countries, queue, pc>>
  BY DEF Moon!SkipVisited, Moon!args
<1>2. PICK node \in unwalked : node \in visited /\ unwalked' = unwalked \ {node}
  BY DEF Moon!SkipVisited
<1>3. Closed(visited, Linked) /\ Tallied(countries, Len(countries), visited) /\ DOMAIN edges \ unwalked \subseteq visited
  BY <1>1, WalkNow DEF Walking
<1>4. Walking(unwalked', visited', queue', countries')
  BY <1>1, <1>2, <1>3 DEF Walking
<1> QED
  BY <1>1, <1>2, <1>4, WalkNow, WalkGoes

LEMMA CountryStarts == ASSUME MoonInv, Moon!NewCountry PROVE MoonInv'
<1>1. /\ pc = "walk" /\ queue = <<>> /\ countries' = Append(countries, 0)
      /\ UNCHANGED <<n, a_pairs, edges, filled, visited, pc>>
  BY DEF Moon!NewCountry, Moon!args
<1>2. PICK s \in unwalked : s \notin visited /\ unwalked' = unwalked \ {s} /\ queue' = <<s>>
  BY DEF Moon!NewCountry
<1>3. Closed(visited, Linked) /\ Tallied(countries, Len(countries), visited) /\ DOMAIN edges \ unwalked \subseteq visited
  BY <1>1, WalkNow DEF Walking
<1>4. s \in Astronauts /\ queue' \in Seq(Astronauts) /\ queue' # <<>> /\ { queue'[k] : k \in 1..Len(queue') } = {s}
  BY <1>1, <1>2, WalkNow
<1> DEFINE d == Len(countries)
<1>5. /\ d \in Nat /\ countries' \in Seq(Nat) /\ Len(countries') = d + 1 /\ countries' # <<>>
      /\ countries'[d + 1] = 0 /\ \A k \in 1..d : countries'[k] = countries[k]
      /\ Len(countries') - 1 = d
  BY <1>1, WalkNow
<1>6. Tallied(countries', d, visited)
  BY <1>3, <1>5 DEF Tallied
<1> HIDE DEF d
<1>7. Searching(unwalked', visited', queue', countries', visited, s)
  <2>1. s \in Country(s)
    BY <1>4, CountryIs
  <2>2. Cardinality(visited \ visited) = 0
    <3>1. visited \ visited = {}
      OBVIOUS
    <3> QED
      BY <3>1, FS_EmptySet
  <2>3. DOMAIN edges \ unwalked' \subseteq visited \cup {s}
    BY <1>2, <1>3
  <2>4. (visited \ visited) \cup { queue'[k] : k \in 1..Len(queue') } = {s}
    BY <1>4
  <2>5. \A x \in visited \ visited : FALSE
    OBVIOUS
  <2> QED
    BY <1>1, <1>5, <1>6, <2>1, <2>2, <2>3, <2>4, <2>5 DEF Searching
<1>8. Walking(unwalked', visited', queue', countries')
  BY <1>1, <1>2, <1>3, <1>4, <1>7 DEF Walking
<1> QED
  BY <1>1, <1>2, <1>4, <1>5, <1>8, WalkNow, WalkGoes

\* The head of the queue is visited, and its neighbours are behind it.
LEMMA SearchStep == ASSUME MoonInv, Moon!Search PROVE MoonInv'
<1> DEFINE cur == Head(queue)
<1> DEFINE vis == visited \cup {cur}
<1>1. /\ pc = "walk" /\ queue # <<>> /\ visited' = vis
      /\ countries' = IF cur \in visited THEN countries
                                         ELSE [countries EXCEPT ![Len(countries)] = @ + 1]
      /\ UNCHANGED <<n, a_pairs, edges, filled, unwalked, pc>>
  BY DEF Moon!Search, Moon!args
<1>2. PICK w \in Moon!Walks(Moon!NeighborsOf(edges, cur) \ vis) : queue' = Tail(queue) \o w
  BY DEF Moon!Search
<1>3. /\ MoonArgs /\ PairsFilled /\ filled = Len(a_pairs) /\ visited \subseteq Astronauts
      /\ queue \in Seq(Astronauts) /\ countries \in Seq(Nat) /\ unwalked \subseteq DOMAIN edges
  BY <1>1, WalkNow
<1>4. PICK old \in SUBSET visited, s \in Astronauts :
        /\ Closed(old, Linked) /\ s \notin old
        /\ Searching(unwalked, visited, queue, countries, old, s)
  BY <1>1, WalkNow DEF Walking
<1> DEFINE new == visited \ old
<1> DEFINE seen == new \cup Items(queue)
<1> DEFINE last == Len(countries)
<1>5. /\ s \in seen /\ seen \subseteq Country(s)
      /\ \A x \in new : Neighbors(edges, x) \subseteq seen
      /\ countries # <<>> /\ countries[last] = Cardinality(new)
      /\ Tallied(countries, last - 1, old)
      /\ DOMAIN edges \ unwalked \subseteq old \cup {s}
  BY <1>4 DEF Searching, Items
<1>6. cur \in Astronauts /\ Tail(queue) \in Seq(Astronauts) /\ Items(queue) = {cur} \cup Items(Tail(queue))
  BY <1>1, <1>3, ListPopped
<1>7. cur \in seen /\ cur \in Country(s) /\ Country(s) \subseteq Astronauts /\ Closed(Country(s), Linked)
  BY <1>5, <1>6, CountryIs
<1>8. Neighbors(edges, cur) \subseteq Country(s)
  BY <1>3, <1>7, NeighborsStay
<1> DEFINE next == Neighbors(edges, cur) \ vis
<1>9. w \in Seq(Astronauts) /\ Items(w) = next
  <2>1. IsFiniteSet(next)
    <3>1. next \subseteq Astronauts /\ IsFiniteSet(Astronauts)
      BY <1>3, <1>7, <1>8, MoonFinite
    <3> QED
      BY <3>1, FS_Subset
  <2>2. w \in Moon!Walks(next) /\ next \subseteq Astronauts
    BY <1>2, <1>7, <1>8, SameNeighbors
  <2> HIDE DEF next
  <2>3. w \in Seq(next) /\ { w[k] : k \in 1..Len(w) } = next
    BY <2>1, <2>2, WalkLists
  <2> QED
    BY <2>2, <2>3 DEF Items
<1>10. queue' \in Seq(Astronauts) /\ Items(queue') = Items(Tail(queue)) \cup next
  <2>1. queue' \in Seq(Astronauts) /\ Items(queue') = Items(Tail(queue)) \cup Items(w)
    <3>1. queue' = Tail(queue) \o w /\ Tail(queue) \in Seq(Astronauts) /\ w \in Seq(Astronauts)
      BY <1>2, <1>6, <1>9
    <3> DEFINE t == Tail(queue)
    <3> HIDE DEF next, t
    <3>2. t \in Seq(Astronauts) /\ w \in Seq(Astronauts)
      BY <3>1 DEF t
    <3>3. t \o w \in Seq(Astronauts) /\ Items(t \o w) = Items(t) \cup Items(w)
      BY <3>2, ListJoined
    <3> QED
      BY <3>1, <3>3 DEF t
  <2> QED
    BY <1>9, <2>1
<1>11. Country(s) \cap old = {}
  <2> SUFFICES ASSUME NEW x \in Country(s), x \in old PROVE FALSE
    OBVIOUS
  <2>1. Country(s) = Country(x)
    BY CountryIs
  <2>2. Country(x) \subseteq old
    BY <1>3, <1>4, ConnectedIsLeast DEF Country
  <2> QED
    BY <1>4, <2>1, <2>2, CountryIs
<1> DEFINE newer == vis \ old
<1>12. newer = new \cup {cur} /\ newer \subseteq Astronauts
  BY <1>3, <1>6, <1>7, <1>11
<1>13. /\ s \in newer \cup Items(queue') /\ newer \cup Items(queue') \subseteq Country(s)
       /\ \A x \in newer : Neighbors(edges, x) \subseteq newer \cup Items(queue')
  <2>1. newer \cup Items(queue') = new \cup {cur} \cup Items(Tail(queue)) \cup next
    BY <1>10, <1>12
  <2>2. seen \subseteq newer \cup Items(queue')
    BY <1>6, <2>1
  <2>3. newer \cup Items(queue') \subseteq Country(s)
    BY <1>5, <1>6, <1>7, <1>8, <2>1
  <2>4. Neighbors(edges, cur) \subseteq newer \cup Items(queue')
    BY <1>8, <1>11, <2>1
  <2> QED
    BY <1>5, <1>12, <2>2, <2>3, <2>4
<1>14. /\ last \in Nat /\ last >= 1 /\ last \in 1..last /\ last - 1 \in Nat
       /\ \A k \in 1..(last - 1) : k \in 1..last /\ k # last
  BY <1>3, <1>5
<1> HIDE DEF cur, vis, next, last
<1>15. /\ countries' \in Seq(Nat) /\ countries' # <<>> /\ Len(countries') = last
       /\ countries'[last] = Cardinality(newer)
       /\ \A k \in 1..(last - 1) : countries'[k] = countries[k]
  <2>1. CASE cur \in visited
    <3>1. newer = new
      BY <1>12, <2>1 DEF vis
    <3> QED
      BY <1>1, <1>3, <1>5, <2>1, <3>1 DEF last
  <2>2. CASE cur \notin visited
    <3>1. IsFiniteSet(new)
      BY <1>3, MoonFinite, FS_Subset
    <3>2. Cardinality(newer) = Cardinality(new) + 1 /\ Cardinality(new) \in Nat
      BY <1>12, <2>2, <3>1, FS_AddElement, FS_CardinalityType
    <3>3. countries' = [countries EXCEPT ![last] = countries[last] + 1]
      BY <1>1, <2>2 DEF last
    <3>4. countries' \in Seq(Nat) /\ Len(countries') = last /\ last \in DOMAIN countries
      <4>1. DOMAIN countries = 1..last /\ last \in DOMAIN countries /\ countries[last] + 1 \in Nat
        <5>1. DOMAIN countries = 1..Len(countries)
          BY <1>3
        <5>2. countries[last] + 1 \in Nat
          BY <1>5, <3>2
        <5> QED
          BY <1>14, <5>1, <5>2 DEF last
      <4>2. DOMAIN countries' = 1..last /\ \A k \in 1..last : countries'[k] \in Nat
        <5>1. \A k \in 1..last : countries[k] \in Nat
          BY <1>3, <4>1
        <5> QED
          BY <3>3, <4>1, <5>1
      <4>3. Len(countries') = last /\ countries' \in Seq(Nat)
        BY <1>3, <3>3, <4>1 DEF last
      <4> QED
        BY <4>1, <4>3
    <3> HIDE DEF newer, new
    <3> QED
      BY <1>3, <1>5, <1>14, <3>2, <3>3, <3>4
  <2> QED
    BY <2>1, <2>2
<1>16. Tallied(countries', last - 1, old)
  <2>1. PICK f \in [1..(last - 1) -> SUBSET Astronauts] :
          /\ \A j, k \in 1..(last - 1) : f[j] = f[k] => j = k
          /\ { f[k] : k \in 1..(last - 1) } = { Country(x) : x \in old }
          /\ \A k \in 1..(last - 1) : countries[k] = Cardinality(f[k])
    BY <1>5 DEF Tallied
  <2>2. \A k \in 1..(last - 1) : countries'[k] = Cardinality(f[k])
    BY <1>15, <2>1
  <2> QED
    BY <2>1, <2>2 DEF Tallied
<1>17. Searching(unwalked', visited', queue', countries', old, s)
  BY <1>1, <1>5, <1>13, <1>15, <1>16 DEF Searching, Items
<1>18. vis \subseteq Astronauts /\ old \in SUBSET vis
  BY <1>3, <1>6 DEF vis
<1>19. Walking(unwalked', visited', queue', countries')
  <2>1. CASE queue' # <<>>
    <3>1. old \in SUBSET visited'
      BY <1>1, <1>18
    <3> QED
      BY <1>4, <1>17, <2>1, <3>1 DEF Walking
  <2>2. CASE queue' = <<>>
    <3>1. Searching(unwalked', vis, <<>>, countries', old, s)
      BY <1>1, <1>17, <2>2
    <3>2. /\ Closed(vis, Linked) /\ Tallied(countries', Len(countries'), vis)
          /\ DOMAIN edges \ unwalked' \subseteq vis
      BY <1>3, <1>4, <1>15, <1>18, <3>1, SearchOver
    <3> QED
      BY <1>1, <2>2, <3>2 DEF Walking
  <2> QED
    BY <2>1, <2>2
<1> QED
  BY <1>1, <1>3, <1>10, <1>15, <1>18, <1>19, WalkGoes

LEMMA MoonStutter == ASSUME MoonInv, UNCHANGED Moon!vars PROVE MoonInv'
<1>1. UNCHANGED <<n, a_pairs, edges, filled, unwalked, visited, countries, queue, pc>>
  BY DEF Moon!vars, Moon!args
<1>2. CASE pc = "fill"
  BY <1>1, <1>2, WalkTables DEF MoonInv
<1>3. CASE pc # "fill"
  <2>1. filled = Len(a_pairs) /\ visited \subseteq Astronauts /\ queue \in Seq(Astronauts)
        /\ pc \in {"walk", "sum", "done", "undefined"}
    BY <1>3 DEF MoonInv
  <2>2. pc = "walk" => /\ countries \in Seq(Nat) /\ unwalked \subseteq DOMAIN edges
                       /\ Walking(unwalked, visited, queue, countries)
    BY WalkNow
  <2> QED
    BY <1>1, <2>1, <2>2, WalkGoes
<1> QED
  BY <1>2, <1>3

LEMMA MoonNext == ASSUME MoonInv, Moon!Next PROVE MoonInv'
<1>1. CASE Moon!FillEdge
  BY <1>1, FillStep
<1>2. CASE Moon!StartWalk \/ Moon!AddSingles \/ Moon!SumProducts \/ Moon!ReadOutside \/ Moon!Return
  BY <1>2, EndsOfWalk
<1>3. CASE Moon!SkipVisited
  BY <1>3, SkipStep
<1>4. CASE Moon!NewCountry
  BY <1>4, CountryStarts
<1>5. CASE Moon!Search
  BY <1>5, SearchStep
<1>6. CASE Moon!Finished
  BY <1>6, MoonStutter DEF Moon!Finished
<1> QED
  BY <1>1, <1>2, <1>3, <1>4, <1>5, <1>6 DEF Moon!Next

CountedOnce(cs, d, S) ==
    /\ d = Cardinality({ Country(x) : x \in S })
    /\ \A m : Cardinality({ k \in 1..d : cs[k] = m })
                = Cardinality({ C \in { Country(x) : x \in S } : Cardinality(C) = m })

\* The tally counts every country once, whatever its size.
LEMMA TallyCounts ==
    ASSUME MoonArgs, NEW cs, NEW d \in Nat, NEW S \in SUBSET Astronauts, Tallied(cs, d, S)
    PROVE  CountedOnce(cs, d, S)
<1> DEFINE found == { Country(x) : x \in S }
<1>1. PICK f \in [1..d -> SUBSET Astronauts] :
        /\ \A j, k \in 1..d : f[j] = f[k] => j = k
        /\ { f[k] : k \in 1..d } = found
        /\ \A k \in 1..d : cs[k] = Cardinality(f[k])
  BY DEF Tallied
<1> HIDE DEF found
<1>2. IsFiniteSet(1..d) /\ Cardinality(1..d) = d
  BY FS_Interval
<1>3. ASSUME NEW K \in SUBSET (1..d), NEW T, T = { f[k] : k \in K }
      PROVE  Cardinality(K) = Cardinality(T)
  <2> DEFINE g == [k \in K |-> f[k]]
  <2>1. g \in Bijection(K, T)
    <3>1. g \in [K -> T] /\ \A j, k \in K : g[j] = g[k] => j = k
      BY <1>1, <1>3
    <3>2. \A t \in T : \E k \in K : g[k] = t
      BY <1>3
    <3> HIDE DEF g
    <3> QED
      BY <3>1, <3>2 DEF Bijection, Injection, IsInjective, Surjection
  <2> HIDE DEF g
  <2>2. IsFiniteSet(K)
    BY <1>2, FS_Subset
  <2> QED
    BY <2>1, <2>2, FS_Bijection, Zenon DEF ExistsBijection
<1>4. d = Cardinality(found)
  BY <1>1, <1>2, <1>3
<1>5. ASSUME NEW m
      PROVE  Cardinality({ k \in 1..d : cs[k] = m }) = Cardinality({ C \in found : Cardinality(C) = m })
  <2> DEFINE K == { k \in 1..d : cs[k] = m }
  <2> DEFINE T == { C \in found : Cardinality(C) = m }
  <2>1. T = { f[k] : k \in K }
    BY <1>1
  <2>2. K \in SUBSET (1..d)
    OBVIOUS
  <2> HIDE DEF K, T
  <2>3. Cardinality(K) = Cardinality(T)
    BY <1>3, <2>1, <2>2
  <2> QED
    BY <2>3 DEF K, T
<1> QED
  BY <1>4, <1>5 DEF found, CountedOnce

LEMMA MoonWhole == ASSUME MoonInv PROVE Moon!CountriesAreWhole
<1> SUFFICES ASSUME pc = "walk", queue = <<>>
             PROVE  LET found == { Moon!CountryOf(x) : x \in visited }
                    IN  /\ UNION found = visited
                        /\ Len(countries) = Moon!Cardinality(found)
                        /\ \A m \in 1..n : Moon!Cardinality({ k \in DOMAIN countries : countries[k] = m })
                                             = Moon!Cardinality({ C \in found : Moon!Cardinality(C) = m })
  BY DEF Moon!CountriesAreWhole
<1>1. \A x : Moon!CountryOf(x) = Country(x)
  BY SameComponent DEF Moon!CountryOf, Country, Astronauts, Linked
<1>2. /\ MoonArgs /\ visited \in SUBSET Astronauts /\ DOMAIN countries = 1..Len(countries) /\ Len(countries) \in Nat
      /\ Closed(visited, Linked) /\ Tallied(countries, Len(countries), visited)
  BY WalkNow DEF Walking
<1> DEFINE found == { Country(x) : x \in visited }
<1>3. UNION found = visited
  <2>1. \A x \in visited : x \in Country(x) /\ Country(x) \subseteq visited
    BY <1>2, CountryIs, ConnectedIsLeast DEF Country
  <2> QED
    BY <2>1
<1>4. /\ Len(countries) = Cardinality(found)
      /\ \A m : Cardinality({ k \in 1..Len(countries) : countries[k] = m }) = Cardinality({ C \in found : Cardinality(C) = m })
  <2>1. CountedOnce(countries, Len(countries), visited)
    BY <1>2, TallyCounts
  <2> QED
    BY <2>1 DEF CountedOnce
<1>5. { Moon!CountryOf(x) : x \in visited } = found
  BY <1>1
<1> HIDE DEF found
<1>6. \A m : { C \in found : Moon!Cardinality(C) = m } = { C \in found : Cardinality(C) = m }
  BY SameCardinality
<1> QED
  BY <1>2, <1>3, <1>4, <1>5, <1>6, SameCardinality

\* journey_to_moon.cc: whatever the order of the map and of the sets, when no
\* search is under way the counts are those of the countries met, one each.
THEOREM CountriesRight == Spec => []CountriesAreWhole
<1> DEFINE Inv == program \in {"roads", "moon"} /\ (program = "moon" => MoonInv)
<1>1. Init => Inv
  BY OneStarts, MoonInit DEF Init
<1>2. Inv /\ [Next]_vars => Inv'
  <2> SUFFICES ASSUME Inv, [Next]_vars PROVE Inv'
    OBVIOUS
  <2>1. program' = program /\ (program = "moon" => Moon!Next \/ UNCHANGED Moon!vars)
    BY OneRuns
  <2>2. program = "moon" => MoonInv'
    BY <2>1, MoonNext, MoonStutter
  <2> QED
    BY <2>1, <2>2
<1>3. Inv => CountriesAreWhole
  BY MoonWhole DEF CountriesAreWhole
<1> QED
  BY <1>1, <1>2, <1>3, PTL DEF Spec

----------------------------------------------------------------------------
\* Numbers and finite sets.

LEMMA Smaller ==
    ASSUME NEW x \in Nat, NEW y \in Nat, x < y PROVE <<x, y>> \in OpToRel(<, Nat)
BY DEF OpToRel

LEMMA Least ==
    ASSUME NEW T, T \subseteq Nat, T # {} PROVE \E x \in T : \A y \in T : x <= y
<1>1. PICK x \in T : \A y \in T : ~ (<<y, x>> \in OpToRel(<, Nat))
  BY NatLessThanWellFounded, WFMin
<1>2. ASSUME NEW y \in T PROVE x <= y
  <2>1. ~(y < x)
    BY <1>1, Smaller
  <2> QED
    BY <2>1
<1> QED
  BY <1>1, <1>2

LEMMA Induction ==
    ASSUME NEW T, 0 \in T, \A m \in Nat : m \in T => m + 1 \in T PROVE Nat \subseteq T
<1> SUFFICES ASSUME Nat \ T # {} PROVE FALSE
  OBVIOUS
<1>1. PICK x \in Nat \ T : \A y \in Nat \ T : x <= y
  BY Least
<1>2. x # 0 /\ x - 1 \in Nat /\ x - 1 \in T
  BY <1>1
<1> QED
  BY <1>1, <1>2

\* What holds of the empty set, and of each set with one more element, holds of S.
LEMMA SetInduction ==
    ASSUME NEW S, IsFiniteSet(S), NEW P, {} \in P,
           \A U \in SUBSET S, x \in S : (U \in P /\ x \notin U) => U \cup {x} \in P
    PROVE  S \in P
<1> DEFINE T == { k \in Nat : \A U \in SUBSET S : Cardinality(U) = k => U \in P }
<1>1. \A U \in SUBSET S : IsFiniteSet(U) /\ Cardinality(U) \in Nat
  BY FS_Subset, FS_CardinalityType
<1>2. 0 \in T
  BY <1>1, FS_EmptySet
<1>3. ASSUME NEW k \in Nat, k \in T PROVE k + 1 \in T
  <2> SUFFICES ASSUME NEW U \in SUBSET S, Cardinality(U) = k + 1 PROVE U \in P
    OBVIOUS
  <2>1. PICK x \in U : TRUE
    <3> SUFFICES ASSUME U = {} PROVE FALSE
      OBVIOUS
    <3>1. Cardinality(U) = 0 /\ k + 1 # 0
      BY FS_EmptySet
    <3> QED
      BY <3>1
  <2>2. IsFiniteSet(U)
    BY <1>1
  <2>3. Cardinality(U \ {x}) = Cardinality(U) - 1
    BY <2>1, <2>2, FS_RemoveElement
  <2>4. (k + 1) - 1 = k
    OBVIOUS
  <2>5. U \ {x} \in SUBSET S /\ U \ {x} \in P
    BY <1>3, <2>3, <2>4
  <2>6. (U \ {x}) \cup {x} = U /\ x \in S /\ x \notin U \ {x}
    BY <2>1
  <2> QED
    BY <2>5, <2>6
<1> HIDE DEF T
<1>4. Nat \subseteq T
  BY <1>2, <1>3, Induction
<1>5. Cardinality(S) \in T /\ S \in SUBSET S
  BY <1>1, <1>4
<1> QED
  BY <1>5 DEF T

----------------------------------------------------------------------------
\* Components, as edges are added one by one.

Comps(V, E) == { Connected(V, E, x) : x \in V }

\* More edges connect more.
LEMMA ConnectedGrows ==
    ASSUME NEW V, NEW D, NEW E, E \subseteq V \X V, D \subseteq E, NEW x \in V
    PROVE  Connected(V, D, x) \subseteq Connected(V, E, x)
<1>1. x \in Connected(V, E, x) /\ Connected(V, E, x) \in SUBSET V /\ Closed(Connected(V, E, x), E)
  BY ConnectedIsClosed
<1>2. Closed(Connected(V, E, x), D)
  BY <1>1 DEF Closed
<1> QED
  BY <1>1, <1>2, ConnectedIsLeast

Joined(D, a, b) == D \cup {<<a, b>>, <<b, a>>}

\* An edge from a to b makes one component of theirs and leaves the others.
LEMMA EdgeJoins ==
    ASSUME NEW V, NEW D, D \subseteq V \X V, NEW a \in V, NEW b \in V,
           NEW z \in V
    PROVE  Connected(V, Joined(D, a, b), z) =
             IF z \in Connected(V, D, a) \cup Connected(V, D, b)
             THEN Connected(V, D, a) \cup Connected(V, D, b) ELSE Connected(V, D, z)
<1> DEFINE A == Connected(V, D, a)
<1> DEFINE B == Connected(V, D, b)
<1> DEFINE J == A \cup B
<1> DEFINE E == Joined(D, a, b)
<1>1. E \subseteq V \X V /\ D \subseteq E
  BY DEF Joined
<1>2. a \in A /\ b \in B /\ A \subseteq V /\ B \subseteq V /\ Closed(A, D) /\ Closed(B, D)
  BY ConnectedIsClosed
<1>3. ASSUME NEW S PROVE Closed(S, E) <=> Closed(S, D) /\ (a \in S <=> b \in S)
  <2>1. \A e : e \in E <=> e \in D \/ e = <<a, b>> \/ e = <<b, a>>
    BY DEF Joined
  <2>2. <<a, b>>[1] = a /\ <<a, b>>[2] = b /\ <<b, a>>[1] = b /\ <<b, a>>[2] = a
    OBVIOUS
  <2>3. ASSUME Closed(S, E) PROVE Closed(S, D) /\ (a \in S <=> b \in S)
    BY <2>1, <2>2, <2>3 DEF Closed
  <2>4. ASSUME Closed(S, D), a \in S <=> b \in S PROVE Closed(S, E)
    BY <2>1, <2>2, <2>4 DEF Closed
  <2> QED
    BY <2>3, <2>4
<1>4. Closed(J, E) /\ J \in SUBSET V
  <2>1. Closed(J, D)
    BY <1>2 DEF Closed
  <2> QED
    BY <1>2, <1>3, <2>1
<1> DEFINE C == Connected(V, E, z)
<1>5. z \in C /\ C \in SUBSET V /\ Closed(C, E) /\ Closed(C, D) /\ (a \in C <=> b \in C)
  BY <1>1, <1>3, ConnectedIsClosed
<1>6. ASSUME z \in J PROVE C = J
  <2>1. C \subseteq J
    BY <1>4, <1>6, ConnectedIsLeast
  <2>2. ASSUME a \in C PROVE A \subseteq C
    BY <1>5, <2>2, ConnectedIsLeast
  <2>3. ASSUME b \in C PROVE B \subseteq C
    BY <1>5, <2>3, ConnectedIsLeast
  <2>4. a \in C \/ b \in C
    <3>1. Connected(V, D, z) \subseteq C
      BY <1>5, ConnectedIsLeast
    <3>2. CASE z \in A
      <4>1. Connected(V, D, z) = A
        BY <3>2, ConnectedIsShared
      <4> QED
        BY <1>2, <3>1, <4>1
    <3>3. CASE z \in B
      <4>1. Connected(V, D, z) = B
        BY <3>3, ConnectedIsShared
      <4> QED
        BY <1>2, <3>1, <4>1
    <3> QED
      BY <1>6, <3>2, <3>3
  <2> QED
    BY <1>5, <2>1, <2>2, <2>3, <2>4
<1>7. ASSUME z \notin J PROVE C = Connected(V, D, z)
  <2> DEFINE Z == Connected(V, D, z)
  <2>1. z \in Z /\ Z \in SUBSET V /\ Closed(Z, D)
    BY ConnectedIsClosed
  <2>2. a \notin Z
    <3> SUFFICES ASSUME a \in Z PROVE FALSE
      OBVIOUS
    <3>1. A = Z
      BY ConnectedIsShared
    <3> QED
      BY <1>7, <2>1, <3>1
  <2>3. b \notin Z
    <3> SUFFICES ASSUME b \in Z PROVE FALSE
      OBVIOUS
    <3>1. B = Z
      BY ConnectedIsShared
    <3> QED
      BY <1>7, <2>1, <3>1
  <2>4. C \subseteq Z
    BY <1>3, <2>1, <2>2, <2>3, ConnectedIsLeast
  <2>5. Z \subseteq C
    BY <1>1, ConnectedGrows
  <2> QED
    BY <2>4, <2>5
<1> QED
  BY <1>6, <1>7

LEMMA CompsFinite ==
    ASSUME NEW V, IsFiniteSet(V), NEW E
    PROVE  /\ IsFiniteSet(Comps(V, E)) /\ Cardinality(Comps(V, E)) \in Nat
           /\ Cardinality(Comps(V, E)) <= Cardinality(V)
<1> DEFINE f == [x \in V |-> Connected(V, E, x)]
<1>1. f \in Surjection(V, Comps(V, E))
  BY DEF Surjection, Comps
<1> HIDE DEF f
<1> QED
  BY <1>1, FS_Surjection, FS_CardinalityType

\* The components say what is connected with what.
LEMMA CompsSay ==
    ASSUME NEW V, NEW D, D \subseteq V \X V, NEW E, E \subseteq V \X V, Comps(V, D) = Comps(V, E), NEW x \in V
    PROVE  Connected(V, D, x) = Connected(V, E, x)
<1>1. PICK y \in V : Connected(V, E, y) = Connected(V, D, x)
  BY DEF Comps
<1>2. x \in Connected(V, E, y)
  BY <1>1, ConnectedIsClosed
<1> QED
  BY <1>1, <1>2, ConnectedIsShared

\* An edge within a component changes nothing, one between two makes them one.
LEMMA JoinCounts ==
    ASSUME NEW V, IsFiniteSet(V), NEW D, D \subseteq V \X V, NEW a \in V, NEW b \in V
    PROVE  IF Connected(V, D, a) = Connected(V, D, b)
           THEN Comps(V, Joined(D, a, b)) = Comps(V, D)
           ELSE /\ Comps(V, Joined(D, a, b)) = (Comps(V, D) \ {Connected(V, D, a), Connected(V, D, b)})
                                   \cup {Connected(V, D, a) \cup Connected(V, D, b)}
                /\ Cardinality(Comps(V, Joined(D, a, b))) + 1 = Cardinality(Comps(V, D))
<1> DEFINE A == Connected(V, D, a)
<1> DEFINE B == Connected(V, D, b)
<1> DEFINE J == A \cup B
<1> DEFINE E == Joined(D, a, b)
<1>1. \A z \in V : Connected(V, E, z) = IF z \in J THEN J ELSE Connected(V, D, z)
  BY EdgeJoins
<1>2. a \in A /\ b \in B /\ A \subseteq V /\ B \subseteq V /\ A \in Comps(V, D) /\ B \in Comps(V, D)
  BY ConnectedIsClosed DEF Comps
<1>3. \A z \in V : /\ z \in A => Connected(V, D, z) = A
                   /\ z \in B => Connected(V, D, z) = B
                   /\ z \in Connected(V, D, z)
  BY ConnectedIsShared, ConnectedIsClosed
<1> HIDE DEF A, B, E
<1>4. CASE A = B
  <2>1. \A z \in V : Connected(V, E, z) = Connected(V, D, z)
    BY <1>1, <1>3, <1>4
  <2> QED
    BY <1>4, <2>1 DEF Comps, A, B, E
<1>5. CASE A # B
  <2>1. Comps(V, E) = (Comps(V, D) \ {A, B}) \cup {J}
    <3>1. ASSUME NEW C \in Comps(V, E) PROVE C \in (Comps(V, D) \ {A, B}) \cup {J}
      <4>1. PICK z \in V : C = Connected(V, E, z)
        BY DEF Comps
      <4>2. CASE z \in J
        BY <1>1, <4>1, <4>2
      <4>3. CASE z \notin J
        <5>1. C = Connected(V, D, z) /\ C # A /\ C # B
          BY <1>1, <1>3, <4>1, <4>3
        <5> QED
          BY <5>1 DEF Comps
      <4> QED
        BY <4>2, <4>3
    <3>2. J \in Comps(V, E)
      BY <1>1, <1>2 DEF Comps
    <3>3. ASSUME NEW C \in Comps(V, D), C # A, C # B PROVE C \in Comps(V, E)
      <4>1. PICK z \in V : C = Connected(V, D, z)
        BY DEF Comps
      <4>2. z \notin J
        BY <1>3, <3>3, <4>1
      <4> QED
        BY <1>1, <4>1, <4>2 DEF Comps
    <3> QED
      BY <3>1, <3>2, <3>3
  <2>2. J \notin Comps(V, D) \ {A, B}
    <3> SUFFICES ASSUME J \in Comps(V, D) PROVE FALSE
      <4>1. J \in Comps(V, D) \ {A, B} => J \in Comps(V, D)
        OBVIOUS
      <4> QED
        BY <4>1
    <3>1. PICK z \in V : J = Connected(V, D, z)
      BY DEF Comps
    <3>2. A = J /\ B = J
      BY <1>2, <3>1, ConnectedIsShared DEF A, B
    <3> QED
      BY <1>5, <3>2
  <2> DEFINE K == Comps(V, D)
  <2>3. IsFiniteSet(K) /\ Cardinality(K) \in Nat
    BY CompsFinite
  <2> HIDE DEF K
  <2>4. IsFiniteSet(K \ {A}) /\ Cardinality(K \ {A}) = Cardinality(K) - 1
    BY <1>2, <2>3, FS_RemoveElement DEF K
  <2>5. (K \ {A}) \ {B} = K \ {A, B} /\ B \in K \ {A}
    BY <1>2, <1>5 DEF K
  <2>6. IsFiniteSet(K \ {A, B}) /\ Cardinality(K \ {A, B}) = Cardinality(K \ {A}) - 1
    BY <2>4, <2>5, FS_RemoveElement
  <2>7. J \notin K \ {A, B}
    BY <2>2 DEF K
  <2> HIDE DEF J
  <2>8. Cardinality((K \ {A, B}) \cup {J}) = Cardinality(K \ {A, B}) + 1
    BY <2>6, <2>7, FS_AddElement
  <2>9. Cardinality(Comps(V, E)) + 1 = Cardinality(Comps(V, D))
    <3>1. Cardinality(Comps(V, E)) = (Cardinality(K) - 1 - 1) + 1
      BY <2>1, <2>4, <2>6, <2>8 DEF K
    <3> QED
      BY <2>3, <3>1 DEF K
  <2> QED
    BY <1>5, <2>1, <2>9 DEF A, B, J, E
<1> QED
  BY <1>4, <1>5

----------------------------------------------------------------------------
\* Roads are sets of the one or two nodes that they join.

Links(V) == { {e[1], e[2]} : e \in V \X V }

Edges(V, R) == { e \in V \X V : {e[1], e[2]} \in R }

Road(a, b) == {a, b}

LEMMA RoadAdds ==
    ASSUME NEW V, NEW R, NEW a \in V, NEW b \in V
    PROVE  Edges(V, R \cup {Road(a, b)}) = Joined(Edges(V, R), a, b)
<1> DEFINE r == Road(a, b)
<1>1. ASSUME NEW x \in V, NEW y \in V
      PROVE  {x, y} = r <=> <<x, y>> \in {<<a, b>>, <<b, a>>}
  BY DEF Road
<1> HIDE DEF r
<1>2. <<a, b>> \in V \X V /\ <<b, a>> \in V \X V
  OBVIOUS
<1>3. ASSUME NEW e \in V \X V
      PROVE  e \in Edges(V, R \cup {r}) <=> e \in Edges(V, R) \cup {<<a, b>>, <<b, a>>}
  <2>1. PICK x \in V, y \in V : e = <<x, y>>
    OBVIOUS
  <2>2. e[1] = x /\ e[2] = y
    BY <2>1
  <2>3. e \in Edges(V, R \cup {r}) <=> {x, y} \in R \/ {x, y} = r
    BY <2>2 DEF Edges
  <2>4. e \in Edges(V, R) <=> {x, y} \in R
    BY <2>2 DEF Edges
  <2> QED
    BY <1>1, <2>1, <2>3, <2>4
<1>4. Edges(V, R \cup {r}) \subseteq V \X V /\ Edges(V, R) \subseteq V \X V
  BY DEF Edges
<1>5. Edges(V, R \cup {r}) = Edges(V, R) \cup {<<a, b>>, <<b, a>>}
  BY <1>2, <1>3, <1>4
<1> QED
  BY <1>5 DEF r, Joined

Groups(V, R) == Comps(V, Edges(V, R))

LEMMA EdgesAreIn == \A V, R : Edges(V, R) \subseteq V \X V
BY DEF Edges

\* Without a road each node is a component.
LEMMA NoRoads ==
    ASSUME NEW V, IsFiniteSet(V)
    PROVE  Cardinality(Groups(V, {})) = Cardinality(V)
<1>1. Edges(V, {}) = {}
  BY DEF Edges
<1>2. ASSUME NEW x \in V PROVE Connected(V, {}, x) = {x}
  <2>1. Closed({x}, {}) /\ {x} \in SUBSET V
    BY DEF Closed
  <2>2. Connected(V, {}, x) \subseteq {x}
    BY <2>1, ConnectedIsLeast
  <2>3. x \in Connected(V, {}, x)
    BY DEF Connected
  <2> QED
    BY <2>2, <2>3
<1> DEFINE T == Groups(V, {})
<1> DEFINE f == [x \in V |-> {x}]
<1>3. T = { {x} : x \in V }
  BY <1>1, <1>2 DEF Groups, Comps
<1>4. f \in Bijection(V, T)
  <2>1. f \in [V -> T] /\ (\A x, y \in V : f[x] = f[y] => x = y) /\ (\A t \in T : \E x \in V : f[x] = t)
    BY <1>3
  <2> HIDE DEF f, T
  <2> QED
    BY <2>1 DEF Bijection, Injection, IsInjective, Surjection
<1> HIDE DEF f, T
<1>5. Cardinality(T) = Cardinality(V)
  BY <1>4, FS_Bijection, Zenon DEF ExistsBijection
<1> QED
  BY <1>5 DEF T

\* Some of the roads connect all that the roads connect, without a road too many.
Forest(V, R) ==
    \E F \in SUBSET R :
        /\ IsFiniteSet(F) /\ Groups(V, F) = Groups(V, R)
        /\ Cardinality(F) + Cardinality(Groups(V, R)) = Cardinality(V)

LEMMA ForestGrows ==
    ASSUME NEW V, IsFiniteSet(V), NEW R, Forest(V, R), NEW r \in Links(V), r \notin R
    PROVE  Forest(V, R \cup {r})
<1>1. PICK a \in V, b \in V : r = Road(a, b)
  BY DEF Links, Road
<1>2. PICK F \in SUBSET R :
        /\ IsFiniteSet(F) /\ Groups(V, F) = Groups(V, R)
        /\ Cardinality(F) + Cardinality(Groups(V, R)) = Cardinality(V)
  BY DEF Forest
<1> DEFINE D == Edges(V, R)
<1> DEFINE E == Edges(V, F)
<1> DEFINE A == Connected(V, D, a)
<1> DEFINE B == Connected(V, D, b)
<1>3. D \subseteq V \X V /\ E \subseteq V \X V
  BY EdgesAreIn
<1>4. Connected(V, E, a) = A /\ Connected(V, E, b) = B
  BY <1>2, <1>3, CompsSay DEF Groups
<1>5. Edges(V, R \cup {r}) = Joined(D, a, b) /\ Edges(V, F \cup {r}) = Joined(E, a, b)
  BY <1>1, RoadAdds
<1> HIDE DEF D, E
<1>6. CASE A = B
  <2>1. Comps(V, Joined(D, a, b)) = Comps(V, D)
    BY <1>3, <1>6, JoinCounts
  <2>2. Groups(V, R \cup {r}) = Groups(V, R)
    BY <1>5, <2>1 DEF Groups, D
  <2>3. F \in SUBSET (R \cup {r})
    OBVIOUS
  <2> QED
    BY <1>2, <2>2, <2>3 DEF Forest
<1>7. CASE A # B
  <2>1. /\ Comps(V, Joined(D, a, b)) = (Comps(V, D) \ {A, B}) \cup {A \cup B}
        /\ Cardinality(Comps(V, Joined(D, a, b))) + 1 = Cardinality(Comps(V, D))
    BY <1>3, <1>7, JoinCounts
  <2>2. Comps(V, Joined(E, a, b)) = (Comps(V, E) \ {A, B}) \cup {A \cup B}
    <3> DEFINE AE == Connected(V, E, a)
    <3> DEFINE BE == Connected(V, E, b)
    <3>1. AE # BE
      BY <1>4, <1>7
    <3>2. Comps(V, Joined(E, a, b)) = (Comps(V, E) \ {AE, BE}) \cup {AE \cup BE}
      BY <1>3, <3>1, JoinCounts
    <3> QED
      BY <1>4, <3>2
  <2>3. Groups(V, F \cup {r}) = Groups(V, R \cup {r})
    BY <1>2, <1>5, <2>1, <2>2 DEF Groups, D, E
  <2>4. Cardinality(Groups(V, R \cup {r})) + 1 = Cardinality(Groups(V, R))
    BY <1>5, <2>1 DEF Groups, D
  <2>5. IsFiniteSet(F \cup {r}) /\ Cardinality(F \cup {r}) = Cardinality(F) + 1
    BY <1>2, FS_AddElement
  <2>6. /\ Cardinality(F) \in Nat /\ Cardinality(Groups(V, R)) \in Nat
        /\ Cardinality(Groups(V, R \cup {r})) \in Nat /\ Cardinality(V) \in Nat
    BY <1>2, CompsFinite, FS_CardinalityType DEF Groups
  <2>7. Cardinality(F \cup {r}) + Cardinality(Groups(V, R \cup {r})) = Cardinality(V)
    BY <1>2, <2>4, <2>5, <2>6
  <2>8. F \cup {r} \in SUBSET (R \cup {r})
    OBVIOUS
  <2> QED
    BY <2>3, <2>5, <2>7, <2>8 DEF Forest
<1> QED
  BY <1>6, <1>7

LEMMA ForestExists ==
    ASSUME NEW V, IsFiniteSet(V), NEW R, R \subseteq Links(V), IsFiniteSet(R)
    PROVE  Forest(V, R)
<1> DEFINE P == { Q \in SUBSET R : Forest(V, Q) }
<1>1. {} \in P
  <2>1. Cardinality({}) + Cardinality(Groups(V, {})) = Cardinality(V)
    BY NoRoads, FS_EmptySet, FS_CardinalityType
  <2> QED
    BY <2>1, FS_EmptySet DEF Forest
<1>2. ASSUME NEW Q \in SUBSET R, NEW r \in R, Q \in P, r \notin Q PROVE Q \cup {r} \in P
  BY <1>2, ForestGrows
<1> HIDE DEF P
<1>3. R \in P
  BY <1>1, <1>2, SetInduction
<1> QED
  BY <1>3 DEF P

\* More roads leave fewer groups.
LEMMA GroupsShrink ==
    ASSUME NEW V, IsFiniteSet(V), NEW Q, NEW R, Q \subseteq R
    PROVE  Cardinality(Groups(V, R)) <= Cardinality(Groups(V, Q))
<1> DEFINE D == Edges(V, Q)
<1> DEFINE E == Edges(V, R)
<1>1. D \subseteq V \X V /\ E \subseteq V \X V /\ D \subseteq E
  BY DEF Edges
<1> HIDE DEF D, E
<1> DEFINE f == [C \in Comps(V, D) |-> Connected(V, E, CHOOSE x \in C : TRUE)]
<1>2. f \in Surjection(Comps(V, D), Comps(V, E))
  <2>1. ASSUME NEW C \in Comps(V, D) PROVE (CHOOSE x \in C : TRUE) \in C /\ C \subseteq V
    <3>1. PICK x \in V : C = Connected(V, D, x)
      BY DEF Comps
    <3>2. x \in C /\ C \subseteq V
      BY <1>1, <3>1, ConnectedIsClosed
    <3> QED
      BY <3>2
  <2>2. f \in [Comps(V, D) -> Comps(V, E)]
    BY <2>1 DEF Comps
  <2>3. ASSUME NEW T \in Comps(V, E) PROVE \E C \in Comps(V, D) : f[C] = T
    <3>1. PICK x \in V : T = Connected(V, E, x)
      BY DEF Comps
    <3> DEFINE C == Connected(V, D, x)
    <3> DEFINE y == CHOOSE z \in C : TRUE
    <3>2. C \in Comps(V, D)
      BY DEF Comps
    <3>3. y \in C /\ f[C] = Connected(V, E, y)
      BY <2>1, <3>2
    <3>4. C \subseteq Connected(V, E, x)
      BY <1>1, ConnectedGrows
    <3> HIDE DEF C, y
    <3>5. Connected(V, E, y) = T
      BY <1>1, <3>1, <3>3, <3>4, ConnectedIsShared
    <3> QED
      BY <3>2, <3>3, <3>5
  <2> HIDE DEF f
  <2> QED
    BY <2>2, <2>3 DEF Surjection
<1> HIDE DEF f
<1>3. Cardinality(Comps(V, E)) <= Cardinality(Comps(V, D))
  BY <1>2, CompsFinite, FS_Surjection
<1> QED
  BY <1>3 DEF Groups, D, E

\* So few roads leave so many groups.
LEMMA RoadsNeeded ==
    ASSUME NEW V, IsFiniteSet(V), NEW R, R \subseteq Links(V), IsFiniteSet(R)
    PROVE  /\ Cardinality(R) \in Nat /\ Cardinality(Groups(V, R)) \in Nat /\ Cardinality(V) \in Nat
           /\ Cardinality(R) + Cardinality(Groups(V, R)) >= Cardinality(V)
           /\ Cardinality(Groups(V, R)) <= Cardinality(V)
<1>1. PICK F \in SUBSET R :
        /\ IsFiniteSet(F) /\ Groups(V, F) = Groups(V, R)
        /\ Cardinality(F) + Cardinality(Groups(V, R)) = Cardinality(V)
  BY ForestExists DEF Forest
<1>2. Cardinality(F) <= Cardinality(R)
  BY FS_Subset
<1>3. /\ Cardinality(F) \in Nat /\ Cardinality(R) \in Nat /\ Cardinality(V) \in Nat
      /\ Cardinality(Groups(V, R)) \in Nat /\ Cardinality(Groups(V, R)) <= Cardinality(V)
  BY <1>1, CompsFinite, FS_CardinalityType DEF Groups
<1> QED
  BY <1>1, <1>2, <1>3

LEMMA Product ==
    ASSUME NEW a \in Nat, NEW b \in Nat, NEW c \in Nat, b <= c
    PROVE  a * b \in Nat /\ a * c \in Nat /\ a * b <= a * c
OBVIOUS

\* The code's choice between a library in each group and one in each city.
LeastCost(lib, road, groups, m) ==
    LET forest == lib * groups + road * (m - groups)
    IN  IF forest < lib * m THEN forest ELSE lib * m

\* No number of groups between the two costs less.
LEMMA LeastIsLeast ==
    ASSUME NEW lib \in Nat, NEW road \in Nat, NEW m \in Nat, NEW g \in Nat, NEW k \in Nat, NEW q \in Nat,
           g <= k, k <= m, q + k >= m
    PROVE  LeastCost(lib, road, g, m) <= lib * k + road * q
<1> DEFINE a == m - k
<1> DEFINE b == k - g
<1>1. a \in Nat /\ b \in Nat /\ a <= q /\ m = k + a /\ k = g + b
  OBVIOUS
<1> HIDE DEF a, b
<1>2. road * a <= road * q /\ lib * a \in Nat /\ road * a \in Nat
  BY <1>1, Product
<1>3. CASE lib <= road
  <2>1. a * lib <= a * road
    BY <1>1, <1>3, Product
  <2>2. lib * m = lib * k + lib * a /\ a * lib = lib * a /\ a * road = road * a
    BY <1>1
  <2>3. lib * m <= lib * k + road * q /\ lib * m \in Nat
    BY <1>1, <1>2, <2>1, <2>2
  <2> QED
    BY <2>3 DEF LeastCost
<1>4. CASE road < lib
  <2>1. b * road <= b * lib
    BY <1>1, <1>4, Product
  <2>2. /\ m - g = b + a
        /\ road * (b + a) = road * b + road * a
        /\ lib * k = lib * g + lib * b
        /\ b * road = road * b /\ b * lib = lib * b
    BY <1>1
  <2>3. lib * g + road * (m - g) <= lib * k + road * q
    BY <1>1, <1>2, <2>1, <2>2
  <2>4. LeastCost(lib, road, g, m) <= lib * g + road * (m - g)
    BY <2>2, <1>1 DEF LeastCost
  <2> QED
    BY <1>1, <1>2, <2>2, <2>3, <2>4 DEF LeastCost
<1> QED
  BY <1>3, <1>4

LEMMA CheapestRoads ==
    ASSUME NEW V, IsFiniteSet(V), NEW R, R \subseteq Links(V), IsFiniteSet(R),
           NEW lib \in Nat, NEW road \in Nat
    PROVE  LET least == LeastCost(lib, road, Cardinality(Groups(V, R)), Cardinality(V))
               cost(Q) == lib * Cardinality(Groups(V, Q)) + road * Cardinality(Q)
           IN  /\ \E Q \in SUBSET R : least = cost(Q)
               /\ \A Q \in SUBSET R : least <= cost(Q)
<1> DEFINE g == Cardinality(Groups(V, R))
<1> DEFINE m == Cardinality(V)
<1> DEFINE cost(Q) == lib * Cardinality(Groups(V, Q)) + road * Cardinality(Q)
<1>1. PICK F \in SUBSET R :
        /\ IsFiniteSet(F) /\ Groups(V, F) = Groups(V, R)
        /\ Cardinality(F) + g = m
  BY ForestExists DEF Forest
<1>2. g \in Nat /\ m \in Nat /\ Cardinality(F) \in Nat
  BY <1>1, RoadsNeeded, FS_CardinalityType
<1>3. cost(F) = lib * g + road * (m - g)
  <2>1. Cardinality(F) = m - g
    BY <1>1, <1>2
  <2> QED
    BY <1>1, <2>1
<1>4. cost({}) = lib * m
  <2>1. Cardinality(Groups(V, {})) = m /\ Cardinality({}) = 0
    BY NoRoads, FS_EmptySet
  <2>2. cost({}) = lib * m + road * 0
    BY <2>1
  <2>3. road * 0 = 0 /\ lib * m \in Nat
    BY <1>2
  <2> QED
    BY <2>2, <2>3
<1>5. \E Q \in SUBSET R : LeastCost(lib, road, g, m) = cost(Q)
  <2>1. {} \in SUBSET R /\ F \in SUBSET R
    OBVIOUS
  <2>2. LeastCost(lib, road, g, m) = cost(F) \/ LeastCost(lib, road, g, m) = cost({})
    BY <1>3, <1>4 DEF LeastCost
  <2> HIDE DEF cost
  <2> QED
    BY <2>1, <2>2
<1>6. ASSUME NEW Q \in SUBSET R PROVE LeastCost(lib, road, g, m) <= cost(Q)
  <2> DEFINE k == Cardinality(Groups(V, Q))
  <2> DEFINE q == Cardinality(Q)
  <2>1. IsFiniteSet(Q) /\ Q \subseteq Links(V)
    BY FS_Subset
  <2>2. q \in Nat /\ k \in Nat /\ q + k >= m /\ k <= m
    BY <2>1, RoadsNeeded
  <2>3. g <= k
    BY GroupsShrink
  <2> HIDE DEF g, m, k, q
  <2>4. LeastCost(lib, road, g, m) <= lib * k + road * q
    BY <1>2, <2>2, <2>3, LeastIsLeast
  <2> QED
    BY <2>4 DEF k, q
<1> HIDE DEF cost
<1> QED
  BY <1>5, <1>6 DEF cost

----------------------------------------------------------------------------
\* roads_and_libraries.cc

Towns == Roads!Nodes

Given == Roads!Roads

Net == Edges(Towns, Given)

Group(x) == Connected(Towns, Net, x)

RoadsArgs ==
    /\ n \in Nat /\ c_lib \in Nat /\ c_road \in Nat
    /\ cities \in Seq((1..n) \X (1..n))

RoadOf(k) == Road(cities[k][1] - 1, cities[k][2] - 1)

\* The adjacency list holds the roads entered so far.
RoadsFilled ==
    /\ filled \in 0..Len(cities)
    /\ \A x, y : y \in Neighbors(edges, x) <=> \E k \in 1..filled : RoadOf(k) = Road(x, y)

Apart(q) == \A j, k \in 1..Len(q) : q[j] = q[k] => j = k

\* The groups of old are charged, that of s is under search: all that has been
\* reached of it is in conn, and waits in the queue or has its neighbours there.
Charging(unv, conn, que, tot, old, s) ==
    LET groups == Cardinality({ Group(x) : x \in old }) + 1
    IN  /\ Closed(old, Net) /\ conn \cap old = {}
        /\ s \in conn /\ conn \subseteq Group(s)
        /\ que \in Seq(conn) /\ Apart(que)
        /\ unv = Towns \ (old \cup (conn \ Items(que)))
        /\ \A x \in conn \ Items(que) : Neighbors(edges, x) \subseteq conn
        /\ tot = c_lib * groups + c_road * (Cardinality(old) + Cardinality(conn) - groups)

\* Before the search the city 0 is in the queue, whether it exists or not.
Searched(unv, conn, que, tot) ==
    \/ n = 0 /\ tot \in Nat
    \/ unv = Towns /\ conn = {} /\ que = <<0>> /\ tot = 0
    \/ \E old \in SUBSET Towns, s \in Towns : Charging(unv, conn, que, tot, old, s)

RoadsInv ==
    /\ RoadsArgs /\ RoadsFilled /\ unvisited \subseteq Towns
    /\ pc \in {"fill", "search", "done"}
    /\ pc = "fill" => unvisited = Towns /\ connected = {} /\ queue = <<0>> /\ total = 0
    /\ pc # "fill" => filled = Len(cities)
    /\ pc = "search" => Searched(unvisited, connected, queue, total)
    /\ pc = "done" => result = LeastCost(c_lib, c_road, Cardinality(Groups(Towns, Given)), n)

LEMMA TownsFinite == n \in Nat => IsFiniteSet(Towns) /\ Cardinality(Towns) = n
BY FS_Interval DEF Towns, Roads!Nodes

LEMMA GivenRoads ==
    ASSUME RoadsArgs
    PROVE  /\ \A k \in 1..Len(cities) : cities[k][1] - 1 \in Towns /\ cities[k][2] - 1 \in Towns
           /\ Given = { RoadOf(k) : k \in 1..Len(cities) }
           /\ IsFiniteSet(Given) /\ Given \subseteq Links(Towns)
           /\ \A x, y : <<x, y>> \in Net <=> x \in Towns /\ y \in Towns /\ \E k \in 1..Len(cities) : RoadOf(k) = Road(x, y)
<1>1. Len(cities) \in Nat /\ DOMAIN cities = 1..Len(cities) /\ n \in Nat
  BY DEF RoadsArgs
<1>2. ASSUME NEW k \in 1..Len(cities)
      PROVE  cities[k][1] - 1 \in Towns /\ cities[k][2] - 1 \in Towns
  <2> DEFINE e == cities[k]
  <2>1. e \in (1..n) \X (1..n)
    BY ElementOfSeq DEF RoadsArgs
  <2> HIDE DEF e
  <2>2. e[1] \in 1..n /\ e[2] \in 1..n
    BY <2>1
  <2>3. e[1] - 1 \in 0..(n - 1) /\ e[2] - 1 \in 0..(n - 1)
    BY <1>1, <2>2
  <2> QED
    BY <2>3 DEF e, Towns, Roads!Nodes
<1>3. Given = { RoadOf(k) : k \in 1..Len(cities) }
  BY <1>1 DEF Given, Roads!Roads, RoadOf, Road
<1>4. IsFiniteSet(Given)
  <2> DEFINE f == [k \in 1..Len(cities) |-> RoadOf(k)]
  <2>1. f \in Surjection(1..Len(cities), Given)
    BY <1>3 DEF Surjection
  <2> HIDE DEF f
  <2> QED
    BY <1>1, <2>1, FS_Interval, FS_Surjection
<1>5. Given \subseteq Links(Towns)
  <2> SUFFICES ASSUME NEW k \in 1..Len(cities) PROVE RoadOf(k) \in Links(Towns)
    BY <1>3
  <2> DEFINE a == cities[k][1] - 1
  <2> DEFINE b == cities[k][2] - 1
  <2>1. a \in Towns /\ b \in Towns /\ RoadOf(k) = Road(a, b)
    BY <1>2 DEF RoadOf
  <2> HIDE DEF a, b
  <2>2. <<a, b>> \in Towns \X Towns /\ <<a, b>>[1] = a /\ <<a, b>>[2] = b
    BY <2>1
  <2> QED
    BY <2>1, <2>2 DEF Links, Road
<1>6. ASSUME NEW x, NEW y
      PROVE  <<x, y>> \in Net <=> x \in Towns /\ y \in Towns /\ \E k \in 1..Len(cities) : RoadOf(k) = Road(x, y)
  <2>1. <<x, y>> \in Net <=> x \in Towns /\ y \in Towns /\ Road(x, y) \in Given
    BY DEF Net, Edges, Road
  <2> QED
    BY <1>3, <2>1
<1> QED
  BY <1>2, <1>3, <1>4, <1>5, <1>6

LEMMA RoadsTables ==
    ASSUME UNCHANGED <<n, c_lib, c_road, cities>>
    PROVE  /\ Towns' = Towns /\ Given' = Given /\ Net' = Net /\ RoadsArgs' = RoadsArgs
           /\ \A x : Group(x)' = Group(x)
           /\ \A k : RoadOf(k)' = RoadOf(k)
<1>1. Towns' = Towns /\ Given' = Given
  BY DEF Towns, Given, Roads!Nodes, Roads!Roads
<1>2. Net' = Net
  BY <1>1 DEF Net, Edges
<1>3. \A x : Group(x)' = Group(x)
  BY <1>1, <1>2 DEF Group, Connected, Closed
<1>4. (\A k : RoadOf(k)' = RoadOf(k)) /\ RoadsArgs' = RoadsArgs
  BY DEF RoadOf, RoadsArgs
<1> QED
  BY <1>1, <1>2, <1>3, <1>4

LEMMA RoadsInit == Roads!Init => RoadsInv
<1> SUFFICES ASSUME Roads!Init PROVE RoadsInv
  OBVIOUS
<1>1. PICK in \in RoadMaps, c \in Costs : n = in.n /\ cities = in.cities /\ c_lib = c[1] /\ c_road = c[2]
  BY DEF Roads!Init
<1>2. RoadsArgs
  <2>1. c \in Nat \X Nat /\ in.n \in Nat /\ in.cities \in Seq((1..in.n) \X (1..in.n))
    BY InputsAssumption DEF Roads!InputsOK
  <2> QED
    BY <1>1, <2>1 DEF RoadsArgs
<1>3. /\ edges = [x \in {} |-> {}] /\ filled = 0 /\ unvisited = Towns /\ total = 0 /\ connected = {}
      /\ queue = <<0>> /\ pc = "fill"
  BY DEF Roads!Init, Roads!NoEdges, Towns
<1>4. RoadsFilled
  <2>1. Len(cities) \in Nat /\ \A x : Neighbors(edges, x) = {}
    BY <1>2, <1>3 DEF RoadsArgs, Neighbors
  <2> QED
    BY <1>3, <2>1 DEF RoadsFilled
<1> QED
  BY <1>2, <1>3, <1>4 DEF RoadsInv

LEMMA RoadEnters == ASSUME RoadsInv, Roads!FillEdge PROVE RoadsInv'
<1>1. /\ pc = "fill" /\ filled < Len(cities) /\ filled' = filled + 1
      /\ edges' = Roads!InsertBoth(edges, cities[filled + 1][1] - 1, cities[filled + 1][2] - 1)
      /\ UNCHANGED <<n, c_lib, c_road, cities, unvisited, total, connected, queue, pc, result>>
  BY DEF Roads!FillEdge, Roads!args
<1>2. RoadsArgs /\ RoadsFilled
  BY DEF RoadsInv
<1>3. filled \in Nat /\ Len(cities) \in Nat /\ filled + 1 \in 0..Len(cities)
  BY <1>1, <1>2 DEF RoadsArgs, RoadsFilled
<1> DEFINE a == cities[filled + 1][1] - 1
<1> DEFINE b == cities[filled + 1][2] - 1
<1>4. edges' = Entered(edges, a, b) /\ RoadOf(filled + 1) = Road(a, b)
  BY <1>1, SameInsert DEF RoadOf
<1> HIDE DEF a, b
<1>5. \A x, y : y \in Neighbors(edges', x) <=> y \in Neighbors(edges, x) \/ Road(a, b) = Road(x, y)
  <2>1. \A x, y : y \in Neighbors(edges', x) <=> y \in Neighbors(edges, x) \/ (x = a /\ y = b) \/ (x = b /\ y = a)
    BY <1>4, EnteredBoth
  <2>2. \A x, y : Road(a, b) = Road(x, y) <=> (x = a /\ y = b) \/ (x = b /\ y = a)
    BY DEF Road
  <2> QED
    BY <2>1, <2>2
<1>6. \A x, y : y \in Neighbors(edges', x) <=> \E k \in 1..(filled + 1) : RoadOf(k) = Road(x, y)
  <2>1. \A k : k \in 1..(filled + 1) <=> k \in 1..filled \/ k = filled + 1
    BY <1>3
  <2> QED
    BY <1>2, <1>4, <1>5, <2>1 DEF RoadsFilled
<1>7. RoadsFilled'
  <2>1. \A k : RoadOf(k)' = RoadOf(k)
    BY <1>1, RoadsTables
  <2> QED
    BY <1>1, <1>3, <1>6, <2>1 DEF RoadsFilled
<1> QED
  BY <1>1, <1>2, <1>7, RoadsTables DEF RoadsInv

\* What a step of the search leaves alone, and where it stands after it in
\* terms of the tables before it.
LEMMA RoadsGoes ==
    ASSUME RoadsInv, UNCHANGED <<n, c_lib, c_road, cities, edges, filled>>, filled = Len(cities),
           unvisited' \subseteq Towns,
           pc' \in {"search", "done"},
           pc' = "search" => Searched(unvisited', connected', queue', total'),
           pc' = "done" => result' = LeastCost(c_lib, c_road, Cardinality(Groups(Towns, Given)), n)
    PROVE  RoadsInv'
<1>1. /\ Towns' = Towns /\ Given' = Given /\ Net' = Net /\ RoadsArgs'
      /\ \A x : Group(x)' = Group(x)
  BY RoadsTables DEF RoadsInv
<1>2. \A k : RoadOf(k)' = RoadOf(k)
  BY RoadsTables
<1>3. \A x : Neighbors(edges, x)' = Neighbors(edges, x)
  BY DEF Neighbors
<1>4. RoadsFilled'
  BY <1>2, <1>3 DEF RoadsInv, RoadsFilled
<1>5. ASSUME NEW unv, NEW conn, NEW que, NEW tot, NEW old, NEW s
      PROVE  Charging(unv, conn, que, tot, old, s)' = Charging(unv, conn, que, tot, old, s)
  <2>1. { Group(x) : x \in old }' = { Group(x) : x \in old }
    BY <1>1
  <2> QED
    BY <1>1, <1>3, <2>1 DEF Charging
<1>6. ASSUME NEW unv, NEW conn, NEW que, NEW tot
      PROVE  Searched(unv, conn, que, tot)' = Searched(unv, conn, que, tot)
  BY <1>1, <1>5 DEF Searched
<1>7. pc' = "search" => Searched(unvisited, connected, queue, total)'
  BY <1>6
<1>8. Groups(Towns, Given)' = Groups(Towns, Given)
  BY <1>1 DEF Groups, Comps, Edges, Connected, Closed
<1>9. pc' = "done" => result' = LeastCost(c_lib, c_road, Cardinality(Groups(Towns, Given)), n)'
  BY <1>8
<1> QED
  BY <1>1, <1>4, <1>7, <1>9 DEF RoadsInv

LEMMA RoadsStutter == ASSUME RoadsInv, UNCHANGED Roads!vars PROVE RoadsInv'
<1>1. UNCHANGED <<n, c_lib, c_road, cities, edges, filled, unvisited, total, connected, queue, pc, result>>
  BY DEF Roads!vars, Roads!args
<1>2. CASE pc = "fill"
  <2>1. RoadsArgs' /\ Towns' = Towns
    BY <1>1, RoadsTables DEF RoadsInv
  <2>2. (\A k : RoadOf(k)' = RoadOf(k)) /\ \A x : Neighbors(edges, x)' = Neighbors(edges, x)
    BY <1>1, RoadsTables DEF Neighbors
  <2>3. RoadsFilled'
    BY <1>1, <2>2 DEF RoadsInv, RoadsFilled
  <2> QED
    BY <1>1, <1>2, <2>1, <2>3 DEF RoadsInv
<1>3. CASE pc # "fill"
  <2>1. /\ filled = Len(cities) /\ unvisited \subseteq Towns /\ pc \in {"search", "done"}
        /\ pc = "search" => Searched(unvisited, connected, queue, total)
        /\ pc = "done" => result = LeastCost(c_lib, c_road, Cardinality(Groups(Towns, Given)), n)
    BY <1>3 DEF RoadsInv
  <2>2. Searched(unvisited', connected', queue', total') = Searched(unvisited, connected, queue, total)
    BY <1>1
  <2> QED
    BY <1>1, <2>1, <2>2, RoadsGoes
<1> QED
  BY <1>2, <1>3

LEMMA SearchStarts == ASSUME RoadsInv, Roads!StartSearch PROVE RoadsInv'
<1>1. /\ pc = "fill" /\ filled = Len(cities) /\ pc' = "search"
      /\ UNCHANGED <<n, c_lib, c_road, cities, edges, filled, unvisited, total, connected, queue>>
  BY DEF Roads!StartSearch, Roads!args
<1>2. unvisited = Towns /\ connected = {} /\ queue = <<0>> /\ total = 0
  BY <1>1 DEF RoadsInv
<1>3. Searched(unvisited', connected', queue', total')
  BY <1>1, <1>2 DEF Searched
<1> QED
  BY <1>1, <1>2, <1>3, RoadsGoes

LEMMA RoadNeighbors ==
    ASSUME RoadsArgs, RoadsFilled, filled = Len(cities)
    PROVE  /\ \A x, y : y \in Neighbors(edges, x) <=> <<x, y>> \in Net
           /\ \A x, y : <<x, y>> \in Net => <<y, x>> \in Net
           /\ Net \subseteq Towns \X Towns
<1>1. /\ \A k \in 1..Len(cities) : cities[k][1] - 1 \in Towns /\ cities[k][2] - 1 \in Towns
      /\ \A x, y : <<x, y>> \in Net <=> x \in Towns /\ y \in Towns /\ \E k \in 1..Len(cities) : RoadOf(k) = Road(x, y)
  BY GivenRoads
<1>2. ASSUME NEW x, NEW y, NEW k \in 1..Len(cities), RoadOf(k) = Road(x, y) PROVE x \in Towns /\ y \in Towns
  <2>1. x \in RoadOf(k) /\ y \in RoadOf(k)
    BY <1>2 DEF Road
  <2> QED
    BY <1>1, <2>1 DEF RoadOf, Road
<1>3. \A x, y : Road(x, y) = Road(y, x)
  BY DEF Road
<1>4. \A x, y : y \in Neighbors(edges, x) <=> \E k \in 1..Len(cities) : RoadOf(k) = Road(x, y)
  BY DEF RoadsFilled
<1>5. \A x, y : y \in Neighbors(edges, x) <=> <<x, y>> \in Net
  BY <1>1, <1>2, <1>4
<1>6. ASSUME NEW x, NEW y, <<x, y>> \in Net PROVE <<y, x>> \in Net
  <2>1. Road(x, y) = Road(y, x)
    BY <1>3
  <2>2. x \in Towns /\ y \in Towns /\ \E k \in 1..Len(cities) : RoadOf(k) = Road(y, x)
    BY <1>1, <1>6, <2>1
  <2> QED
    BY <1>1, <2>2
<1> QED
  BY <1>5, <1>6, EdgesAreIn DEF Net

LEMMA GroupIs ==
    ASSUME NEW x \in Towns
    PROVE  /\ x \in Group(x) /\ Group(x) \subseteq Towns /\ Closed(Group(x), Net)
           /\ \A y \in Group(x) : Group(y) = Group(x)
BY EdgesAreIn, ConnectedIsClosed, ConnectedIsShared DEF Group, Net

\* A town outside a closed set has none of its group in the set.
LEMMA GroupOutside ==
    ASSUME NEW S \in SUBSET Towns, Closed(S, Net), NEW x \in Towns, x \notin S
    PROVE  Group(x) \cap S = {}
<1> SUFFICES ASSUME NEW y \in Group(x), y \in S PROVE FALSE
  OBVIOUS
<1>1. Group(y) = Group(x)
  BY GroupIs
<1>2. Group(y) \subseteq S
  BY ConnectedIsLeast DEF Group
<1> QED
  BY <1>1, <1>2, GroupIs

LEMMA RoadsStay ==
    ASSUME RoadsArgs, RoadsFilled, filled = Len(cities), NEW S, Closed(S, Net), NEW x \in S
    PROVE  Neighbors(edges, x) \subseteq S
<1> SUFFICES ASSUME NEW y \in Neighbors(edges, x) PROVE y \in S
  OBVIOUS
<1>1. <<x, y>> \in Net
  BY RoadNeighbors
<1> QED
  BY <1>1 DEF Closed

LEMMA ClosedUnderRoads ==
    ASSUME RoadsArgs, RoadsFilled, filled = Len(cities), NEW S, \A x \in S : Neighbors(edges, x) \subseteq S
    PROVE  Closed(S, Net)
<1> SUFFICES ASSUME NEW e \in Net PROVE e[1] \in S <=> e[2] \in S
  BY DEF Closed
<1>1. PICK x \in Towns, y \in Towns : e = <<x, y>>
  BY RoadNeighbors
<1>2. e[1] = x /\ e[2] = y
  BY <1>1
<1>3. y \in Neighbors(edges, x) /\ x \in Neighbors(edges, y)
  BY <1>1, RoadNeighbors
<1> QED
  BY <1>2, <1>3

LEMMA ApartPopped ==
    ASSUME NEW S, NEW q \in Seq(S), q # <<>>, Apart(q)
    PROVE  Apart(Tail(q)) /\ Head(q) \notin Items(Tail(q))
<1>1. /\ Len(q) \in Nat /\ Len(q) >= 1 /\ Head(q) = q[1] /\ Len(Tail(q)) = Len(q) - 1
      /\ \A k \in 1..(Len(q) - 1) : Tail(q)[k] = q[k + 1]
  OBVIOUS
<1>2. 1 \in 1..Len(q) /\ \A k \in 1..(Len(q) - 1) : k \in Nat /\ k >= 1 /\ k + 1 \in 1..Len(q) /\ k + 1 # 1
  BY <1>1
<1>3. Apart(Tail(q))
  <2> SUFFICES ASSUME NEW j \in 1..(Len(q) - 1), NEW k \in 1..(Len(q) - 1), q[j + 1] = q[k + 1] PROVE j = k
    BY <1>1 DEF Apart
  <2>1. j + 1 = k + 1
    BY <1>2 DEF Apart
  <2> QED
    BY <1>2, <2>1
<1>4. Head(q) \notin Items(Tail(q))
  <2> SUFFICES ASSUME NEW k \in 1..(Len(q) - 1), q[1] = q[k + 1] PROVE FALSE
    BY <1>1 DEF Items
  <2> QED
    BY <1>2 DEF Apart
<1> QED
  BY <1>3, <1>4

LEMMA ApartJoined ==
    ASSUME NEW S, NEW p \in Seq(S), NEW q \in Seq(S), Apart(p), Apart(q), Items(p) \cap Items(q) = {}
    PROVE  Apart(p \o q)
<1> DEFINE r == p \o q
<1>1. /\ Len(p) \in Nat /\ Len(q) \in Nat /\ Len(r) = Len(p) + Len(q)
      /\ \A k \in 1..Len(r) : r[k] = IF k <= Len(p) THEN p[k] ELSE q[k - Len(p)]
  OBVIOUS
<1> HIDE DEF r
<1>2. \A k \in 1..Len(r) : \/ k \in 1..Len(p) /\ r[k] = p[k] /\ r[k] \in Items(p)
                           \/ k - Len(p) \in 1..Len(q) /\ r[k] = q[k - Len(p)] /\ r[k] \in Items(q)
  <2> SUFFICES ASSUME NEW k \in 1..Len(r)
               PROVE  \/ k \in 1..Len(p) /\ r[k] = p[k] /\ r[k] \in Items(p)
                      \/ k - Len(p) \in 1..Len(q) /\ r[k] = q[k - Len(p)] /\ r[k] \in Items(q)
    OBVIOUS
  <2>1. k \in 1..Len(p) \/ k - Len(p) \in 1..Len(q)
    BY <1>1
  <2>2. CASE k \in 1..Len(p)
    BY <1>1, <2>2 DEF Items
  <2>3. CASE k - Len(p) \in 1..Len(q)
    <3>1. r[k] = q[k - Len(p)]
      BY <1>1, <2>3
    <3> QED
      BY <2>3, <3>1 DEF Items
  <2> QED
    BY <2>1, <2>2, <2>3
<1>3. ASSUME NEW j \in 1..Len(r), NEW k \in 1..Len(r), r[j] = r[k] PROVE j = k
  <2>1. j \in Int /\ k \in Int
    BY <1>1
  <2>2. CASE j \in 1..Len(p) /\ r[j] = p[j] /\ r[j] \in Items(p)
    <3>1. k \in 1..Len(p) /\ r[k] = p[k]
      BY <1>2, <1>3, <2>2
    <3> QED
      BY <1>3, <2>2, <3>1 DEF Apart
  <2>3. CASE j - Len(p) \in 1..Len(q) /\ r[j] = q[j - Len(p)] /\ r[j] \in Items(q)
    <3>1. k - Len(p) \in 1..Len(q) /\ r[k] = q[k - Len(p)]
      BY <1>2, <1>3, <2>3
    <3>2. j - Len(p) = k - Len(p)
      BY <1>3, <2>3, <3>1 DEF Apart
    <3> QED
      BY <1>1, <2>1, <3>2
  <2> QED
    BY <1>2, <2>2, <2>3
<1> QED
  BY <1>3 DEF Apart, r

\* Visiting a town adds to its component what is next to it and was not found.
LEMMA TownVisited ==
    ASSUME RoadsArgs, RoadsFilled, filled = Len(cities),
           NEW old \in SUBSET Towns, NEW s \in Towns, Closed(old, Net), s \notin old,
           NEW comp, s \in comp, comp \subseteq Group(s),
           NEW root \in comp, NEW rest \in Seq(comp), Apart(rest), root \notin Items(rest),
           NEW unv, unv = Towns \ (old \cup (comp \ Items(rest))),
           \A x \in comp \ Items(rest) : x # root => Neighbors(edges, x) \subseteq comp,
           NEW found, \A y : y \in found <=> y \in Neighbors(edges, root) /\ y \in unv /\ y \notin comp,
           NEW w \in Roads!Walks(found),
           NEW groups \in Nat, groups = Cardinality({ Group(x) : x \in old }) + 1,
           NEW tot, tot = c_lib * groups + c_road * (Cardinality(old) + Cardinality(comp) - groups)
    PROVE  /\ Cardinality(found) \in Nat
           /\ Charging(unv, comp \cup found, rest \o w, tot + c_road * Cardinality(found), old, s)
<1>1. /\ s \in Group(s) /\ Group(s) \subseteq Towns /\ Closed(Group(s), Net) /\ Group(s) \cap old = {}
  BY GroupIs, GroupOutside
<1>2. Neighbors(edges, root) \subseteq Group(s)
  BY <1>1, RoadsStay
<1>3. found = Neighbors(edges, root) \ comp /\ found \subseteq Group(s) /\ found \cap comp = {}
  BY <1>1, <1>2
<1>4. IsFiniteSet(Towns)
  BY TownsFinite DEF RoadsArgs
<1>5. /\ IsFiniteSet(found) /\ IsFiniteSet(comp) /\ IsFiniteSet(old)
  BY <1>1, <1>3, <1>4, FS_Subset
<1>6. /\ Cardinality(found) \in Nat /\ Cardinality(comp) \in Nat /\ Cardinality(old) \in Nat
      /\ Cardinality(comp \cup found) = Cardinality(comp) + Cardinality(found)
  <2>1. Cardinality(comp \cap found) = 0
    <3>1. comp \cap found = {}
      BY <1>3
    <3> QED
      BY <3>1, FS_EmptySet
  <2>2. /\ Cardinality(found) \in Nat /\ Cardinality(comp) \in Nat /\ Cardinality(old) \in Nat
    BY <1>5, FS_CardinalityType
  <2>3. Cardinality(comp \cup found) = Cardinality(comp) + Cardinality(found) - Cardinality(comp \cap found)
    BY <1>5, FS_Union
  <2> QED
    BY <2>1, <2>2, <2>3
<1>7. w \in Seq(found) /\ Items(w) = found /\ Apart(w)
  <2>1. /\ w \in Seq(found) /\ { w[k] : k \in 1..Len(w) } = found
        /\ \A j, k \in 1..Len(w) : w[j] = w[k] => j = k
    BY <1>5, WalkLists
  <2> QED
    BY <2>1 DEF Items, Apart
<1> DEFINE conn == comp \cup found
<1> DEFINE que == rest \o w
<1>8. Items(rest) \subseteq comp
  BY DEF Items
<1>9. que \in Seq(conn) /\ Items(que) = Items(rest) \cup found /\ Apart(que)
  <2>1. rest \in Seq(conn) /\ w \in Seq(conn)
    BY <1>7
  <2>2. Items(rest) \cap Items(w) = {}
    BY <1>3, <1>7, <1>8
  <2> HIDE DEF conn
  <2> QED
    BY <1>7, <2>1, <2>2, ListJoined, ApartJoined
<1>10. conn \ Items(que) = comp \ Items(rest)
  BY <1>3, <1>9
<1>11. \A x \in conn \ Items(que) : Neighbors(edges, x) \subseteq conn
  <2> SUFFICES ASSUME NEW x \in comp \ Items(rest) PROVE Neighbors(edges, x) \subseteq conn
    BY <1>10
  <2>1. CASE x = root
    BY <1>3, <2>1
  <2>2. CASE x # root
    BY <2>2
  <2> QED
    BY <2>1, <2>2
<1>12. tot + c_road * Cardinality(found) = c_lib * groups + c_road * (Cardinality(old) + Cardinality(conn) - groups)
  <2> DEFINE f == Cardinality(found)
  <2> DEFINE o == Cardinality(old)
  <2> DEFINE c == Cardinality(comp)
  <2>1. f \in Nat /\ o \in Nat /\ c \in Nat /\ c_road \in Nat /\ c_lib \in Nat
    BY <1>6 DEF RoadsArgs
  <2>2. Cardinality(conn) = c + f /\ tot = c_lib * groups + c_road * (o + c - groups)
    BY <1>6
  <2> HIDE DEF f, o, c
  <2>3. c_road * (o + (c + f) - groups) = c_road * (o + c - groups) + c_road * f
    <3> DEFINE d == o + c - groups
    <3>1. d \in Int /\ o + (c + f) - groups = d + f
      BY <2>1
    <3> HIDE DEF d
    <3>2. c_road * (d + f) = c_road * d + c_road * f
      BY <2>1, <3>1
    <3> QED
      BY <3>1, <3>2 DEF d
  <2>4. c_road * (o + c - groups) \in Int /\ c_road * f \in Int /\ c_lib * groups \in Int
    BY <2>1
  <2>5. tot + c_road * f = c_lib * groups + c_road * (o + (c + f) - groups)
    BY <2>2, <2>3, <2>4
  <2> QED
    BY <2>2, <2>5 DEF f, o
<1>13. /\ conn \cap old = {} /\ s \in conn /\ conn \subseteq Group(s)
       /\ unv = Towns \ (old \cup (conn \ Items(que)))
  BY <1>1, <1>3, <1>10
<1> HIDE DEF conn, que
<1>14. Charging(unv, conn, que, tot + c_road * Cardinality(found), old, s)
  BY <1>9, <1>11, <1>12, <1>13 DEF Charging
<1> QED
  BY <1>6, <1>14 DEF conn, que

GroupsOf(S) == { Group(x) : x \in S }

\* The towns of S are all the groups charged so far.
Charged(unv, tot, S) ==
    /\ S \in SUBSET Towns /\ Closed(S, Net) /\ unv = Towns \ S
    /\ Cardinality(S) \in Nat /\ Cardinality(GroupsOf(S)) \in Nat
    /\ tot = c_lib * Cardinality(GroupsOf(S)) + c_road * (Cardinality(S) - Cardinality(GroupsOf(S)))

\* A component is complete when the queue is empty.
LEMMA GroupCharged ==
    ASSUME RoadsArgs, RoadsFilled, filled = Len(cities),
           NEW unv, NEW conn, NEW tot, NEW old \in SUBSET Towns, NEW s \in Towns,
           Charging(unv, conn, <<>>, tot, old, s)
    PROVE  Charged(unv, tot, old \cup conn)
<1> DEFINE before == { Group(x) : x \in old }
<1> DEFINE groups == Cardinality(before) + 1
<1>1. Items(<<>>) = {}
  BY DEF Items
<1>2. /\ Closed(old, Net) /\ conn \cap old = {} /\ s \in conn /\ conn \subseteq Group(s)
      /\ unv = Towns \ (old \cup conn) /\ \A x \in conn : Neighbors(edges, x) \subseteq conn
      /\ tot = c_lib * groups + c_road * (Cardinality(old) + Cardinality(conn) - groups)
  <2>1. conn \ Items(<<>>) = conn
    BY <1>1
  <2> QED
    BY <2>1 DEF Charging
<1>3. conn \subseteq Towns /\ Closed(conn, Net)
  BY <1>2, GroupIs, ClosedUnderRoads
<1>4. conn = Group(s)
  <2>1. Group(s) \subseteq conn
    BY <1>2, <1>3, ConnectedIsLeast DEF Group
  <2> QED
    BY <1>2, <2>1
<1>5. Closed(old \cup conn, Net)
  BY <1>2, <1>3 DEF Closed
<1>6. GroupsOf(old \cup conn) = before \cup {conn}
  <2>1. \A x \in conn : Group(x) = conn
    BY <1>4, GroupIs
  <2> QED
    BY <1>2, <2>1 DEF GroupsOf
<1>7. conn \notin before
  <2> SUFFICES ASSUME NEW x \in old, Group(x) = conn PROVE FALSE
    OBVIOUS
  <2> QED
    BY <1>2, GroupIs
<1>8. IsFiniteSet(old) /\ IsFiniteSet(conn)
  BY <1>3, TownsFinite, FS_Subset DEF RoadsArgs
<1>9. IsFiniteSet(before)
  <2> DEFINE f == [x \in old |-> Group(x)]
  <2>1. f \in Surjection(old, before)
    BY DEF Surjection
  <2> HIDE DEF f, before
  <2> QED
    BY <1>8, <2>1, FS_Surjection
<1> HIDE DEF before
<1>10. Cardinality(before) \in Nat /\ Cardinality(before \cup {conn}) = Cardinality(before) + 1
  BY <1>7, <1>9, FS_AddElement, FS_CardinalityType
<1>11. Cardinality(old) \in Nat /\ Cardinality(conn) \in Nat /\ Cardinality(old \cup conn) = Cardinality(old) + Cardinality(conn)
  <2>1. Cardinality(old \cap conn) = 0
    <3>1. old \cap conn = {}
      BY <1>2
    <3> QED
      BY <3>1, FS_EmptySet
  <2>2. Cardinality(old) \in Nat /\ Cardinality(conn) \in Nat
    BY <1>8, FS_CardinalityType
  <2>3. Cardinality(old \cup conn) = Cardinality(old) + Cardinality(conn) - Cardinality(old \cap conn)
    BY <1>8, FS_Union
  <2> QED
    BY <2>1, <2>2, <2>3
<1>12. /\ tot = c_lib * Cardinality(before \cup {conn})
                 + c_road * (Cardinality(old \cup conn) - Cardinality(before \cup {conn}))
       /\ Cardinality(before \cup {conn}) \in Nat /\ Cardinality(old \cup conn) \in Nat
  BY <1>2, <1>10, <1>11
<1> QED
  BY <1>2, <1>3, <1>5, <1>6, <1>12 DEF Charged

\* What a visit does, with found for the neighbours that it adds.
LEMMA VisitDoes ==
    ASSUME NEW root, NEW rest, Roads!Visit(root, rest)
    PROVE  \E found, w :
               LET comp == IF root \in connected THEN connected ELSE {root}
                   library == IF root \in connected THEN 0 ELSE c_lib
               IN  /\ \A y : y \in found <=> y \in Neighbors(edges, root) /\ y \in unvisited' /\ y \notin comp
                   /\ w \in Roads!Walks(found) /\ queue' = rest \o w
                   /\ connected' = comp \cup found
                   /\ total' = total + library + c_road * Cardinality(found)
                   /\ unvisited' = unvisited \ {root}
                   /\ UNCHANGED <<n, c_lib, c_road, cities, edges, filled, pc, result>>
<1> DEFINE comp == IF root \in connected THEN connected ELSE {root}
<1> DEFINE library == IF root \in connected THEN 0 ELSE c_lib
<1> DEFINE found == Roads!Discovered(root, comp)
<1>1. \A y : y \in found <=> y \in Neighbors(edges, root) /\ y \in unvisited' /\ y \notin comp
  BY SameNeighbors DEF Roads!Discovered, Roads!ContainsEdge
<1>2. /\ unvisited' = unvisited \ {root}
      /\ UNCHANGED <<n, c_lib, c_road, cities, edges, filled, pc, result>>
  BY DEF Roads!Visit, Roads!args
<1>3. /\ connected' = comp \cup found
      /\ total' = total + library + c_road * Cardinality(found)
      /\ \E w \in Roads!Walks(found) : queue' = rest \o w
  <2>1. Roads!Cardinality(found) = Cardinality(found)
    BY SameCardinality
  <2>2. CASE root \in connected
    BY <2>1, <2>2 DEF Roads!Visit
  <2>3. CASE root \notin connected
    BY <2>1, <2>3 DEF Roads!Visit
  <2> QED
    BY <2>2, <2>3
<1> HIDE DEF found
<1> QED
  BY <1>1, <1>2, <1>3

LEMMA SearchNow ==
    ASSUME RoadsInv, pc = "search"
    PROVE  /\ RoadsArgs /\ RoadsFilled /\ filled = Len(cities) /\ unvisited \subseteq Towns
           /\ Searched(unvisited, connected, queue, total)
           /\ n \in Nat /\ c_lib \in Nat /\ c_road \in Nat
BY DEF RoadsInv, RoadsArgs

\* Without a town no road is found.
LEMMA NoTowns ==
    ASSUME RoadsInv, pc = "search", n = 0, NEW root, NEW rest, Roads!Visit(root, rest)
    PROVE  RoadsInv'
<1>1. PICK found, w :
        LET comp == IF root \in connected THEN connected ELSE {root}
            library == IF root \in connected THEN 0 ELSE c_lib
        IN  /\ \A y : y \in found <=> y \in Neighbors(edges, root) /\ y \in unvisited' /\ y \notin comp
            /\ w \in Roads!Walks(found) /\ queue' = rest \o w
            /\ connected' = comp \cup found
            /\ total' = total + library + c_road * Cardinality(found)
            /\ unvisited' = unvisited \ {root}
            /\ UNCHANGED <<n, c_lib, c_road, cities, edges, filled, pc, result>>
  BY VisitDoes
<1>2. Towns = {}
  BY DEF Towns, Roads!Nodes
<1>3. found = {} /\ unvisited' \subseteq Towns
  BY <1>1, <1>2, SearchNow
<1>4. Cardinality(found) = 0
  BY <1>3, FS_EmptySet
<1>5. total \in Nat
  <2>1. total \in Nat \/ total = 0
    BY <1>2, SearchNow DEF Searched
  <2> QED
    BY <2>1
<1>6. total' \in Nat
  BY <1>1, <1>4, <1>5, SearchNow
<1>7. Searched(unvisited', connected', queue', total')
  BY <1>6 DEF Searched
<1> QED
  BY <1>1, <1>3, <1>7, SearchNow, RoadsGoes

\* A city leaves the queue: the first one of all, or one of the component.
LEMMA QueuedVisited == ASSUME RoadsInv, Roads!VisitQueued PROVE RoadsInv'
<1> DEFINE root == Head(queue)
<1> DEFINE rest == Tail(queue)
<1>1. pc = "search" /\ queue # <<>> /\ Roads!Visit(root, rest)
  BY DEF Roads!VisitQueued
<1>2. PICK found, w :
        LET comp == IF root \in connected THEN connected ELSE {root}
            library == IF root \in connected THEN 0 ELSE c_lib
        IN  /\ \A y : y \in found <=> y \in Neighbors(edges, root) /\ y \in unvisited' /\ y \notin comp
            /\ w \in Roads!Walks(found) /\ queue' = rest \o w
            /\ connected' = comp \cup found
            /\ total' = total + library + c_road * Cardinality(found)
            /\ unvisited' = unvisited \ {root}
            /\ UNCHANGED <<n, c_lib, c_road, cities, edges, filled, pc, result>>
  <2> HIDE DEF root, rest
  <2> QED
    BY <1>1, VisitDoes
<1>3. /\ RoadsArgs /\ RoadsFilled /\ filled = Len(cities) /\ unvisited \subseteq Towns
      /\ n \in Nat /\ c_lib \in Nat /\ c_road \in Nat
  BY <1>1, SearchNow
<1>4. CASE n = 0
  BY <1>1, <1>4, NoTowns
<1>5. CASE n # 0 /\ unvisited = Towns /\ connected = {} /\ queue = <<0>> /\ total = 0
  <2>1. root = 0 /\ rest = <<>> /\ Items(<<>>) = {} /\ Apart(<<>>) /\ <<>> \in Seq({0})
    BY <1>5 DEF Items, Apart
  <2>2. 0 \in Towns /\ 0 \in Group(0)
    <3>1. 0 \in Towns
      BY <1>3, <1>5 DEF Towns, Roads!Nodes
    <3> QED
      BY <3>1, GroupIs
  <2>3. connected' = {0} \cup found /\ total' = c_lib + c_road * Cardinality(found) /\ queue' = <<>> \o w
    BY <1>2, <1>3, <1>5, <2>1
  <2>4. unvisited' = Towns \ ({} \cup ({0} \ Items(<<>>)))
    BY <1>2, <1>5, <2>1
  <2>5. Cardinality({ Group(x) : x \in {} }) + 1 = 1 /\ Cardinality({}) = 0 /\ Cardinality({0}) = 1
    <3>1. { Group(x) : x \in {} } = {}
      OBVIOUS
    <3>2. Cardinality({ Group(x) : x \in {} }) = 0 /\ Cardinality({}) = 0
      BY <3>1, FS_EmptySet
    <3>3. Cardinality({0}) = 1
      BY FS_Singleton
    <3> QED
      BY <3>2, <3>3
  <2>6. c_lib = c_lib * 1 + c_road * (Cardinality({}) + Cardinality({0}) - 1)
    BY <1>3, <2>5
  <2>7. Closed({}, Net) /\ {} \in SUBSET Towns
    BY DEF Closed
  <2>8. \A y : y \in found <=> y \in Neighbors(edges, 0) /\ y \in unvisited' /\ y \notin {0}
    BY <1>2, <1>5, <2>1
  <2>9. Charging(unvisited', {0} \cup found, <<>> \o w, c_lib + c_road * Cardinality(found), {}, 0)
    BY <1>2, <1>3, <2>1, <2>2, <2>4, <2>5, <2>6, <2>7, <2>8, TownVisited
  <2>10. Searched(unvisited', connected', queue', total')
    BY <2>2, <2>3, <2>7, <2>9 DEF Searched
  <2> QED
    BY <1>1, <1>2, <1>3, <2>10, RoadsGoes
<1>6. ASSUME NEW old \in SUBSET Towns, NEW s \in Towns, Charging(unvisited, connected, queue, total, old, s)
      PROVE  RoadsInv'
  <2> DEFINE groups == Cardinality({ Group(x) : x \in old }) + 1
  <2>1. /\ Closed(old, Net) /\ connected \cap old = {} /\ s \in connected /\ connected \subseteq Group(s)
        /\ queue \in Seq(connected) /\ Apart(queue)
        /\ unvisited = Towns \ (old \cup (connected \ Items(queue)))
        /\ \A x \in connected \ Items(queue) : Neighbors(edges, x) \subseteq connected
        /\ total = c_lib * groups + c_road * (Cardinality(old) + Cardinality(connected) - groups)
    BY <1>6 DEF Charging
  <2>2. /\ root \in connected /\ rest \in Seq(connected) /\ Items(queue) = {root} \cup Items(rest)
        /\ Apart(rest) /\ root \notin Items(rest)
    BY <1>1, <2>1, ListPopped, ApartPopped
  <2>3. groups \in Nat
    <3>1. IsFiniteSet({ Group(x) : x \in old })
      <4> DEFINE f == [x \in old |-> Group(x)]
      <4>1. f \in Surjection(old, { Group(x) : x \in old })
        BY DEF Surjection
      <4>2. IsFiniteSet(old)
        BY <1>3, TownsFinite, FS_Subset
      <4> HIDE DEF f
      <4> QED
        BY <4>1, <4>2, FS_Surjection
    <3>2. Cardinality({ Group(x) : x \in old }) \in Nat
      BY <3>1, FS_CardinalityType
    <3> QED
      BY <3>2
  <2>4. total \in Int /\ c_road * Cardinality(found) = c_road * Cardinality(found)
    <3>1. Cardinality(old) \in Nat /\ Cardinality(connected) \in Nat
      <4>1. Group(s) \subseteq Towns
        BY GroupIs
      <4>2. IsFiniteSet(old) /\ IsFiniteSet(connected)
        BY <1>3, <2>1, <4>1, TownsFinite, FS_Subset
      <4> QED
        BY <4>2, FS_CardinalityType
    <3> QED
      BY <1>3, <2>1, <2>3, <3>1
  <2>5. /\ \A y : y \in found <=> y \in Neighbors(edges, root) /\ y \in unvisited' /\ y \notin connected
        /\ w \in Roads!Walks(found) /\ queue' = rest \o w /\ connected' = connected \cup found
        /\ total' = total + 0 + c_road * Cardinality(found) /\ unvisited' = unvisited \ {root}
        /\ UNCHANGED <<n, c_lib, c_road, cities, edges, filled, pc>>
    <3> HIDE DEF root, rest
    <3> QED
      BY <1>2, <2>2
  <2>6. unvisited' = Towns \ (old \cup (connected \ Items(rest)))
    BY <2>1, <2>2, <2>5
  <2>7. s \notin old /\ \A x \in connected \ Items(rest) : x # root => Neighbors(edges, x) \subseteq connected
    BY <2>1, <2>2
  <2>8. total + 0 = total
    BY <2>4
  <2> HIDE DEF root, rest, groups
  <2>9. Charging(unvisited', connected \cup found, rest \o w, total + c_road * Cardinality(found), old, s)
    BY <1>3, <2>1, <2>2, <2>3, <2>5, <2>6, <2>7, TownVisited DEF groups
  <2>10. Charging(unvisited', connected', queue', total', old, s)
    BY <2>5, <2>8, <2>9
  <2>11. Searched(unvisited', connected', queue', total')
    BY <2>10 DEF Searched
  <2> QED
    BY <1>1, <1>3, <2>5, <2>11, RoadsGoes
<1>7. CASE n # 0
  BY <1>1, <1>5, <1>6, <1>7, SearchNow DEF Searched
<1> QED
  BY <1>4, <1>7

\* With the queue empty a city that is left starts the next component.
LEMMA UnvisitedVisited == ASSUME RoadsInv, Roads!VisitUnvisited PROVE RoadsInv'
<1>1. PICK root \in unvisited : pc = "search" /\ queue = <<>> /\ Roads!Visit(root, <<>>)
  BY DEF Roads!VisitUnvisited
<1>2. PICK found, w :
        LET comp == IF root \in connected THEN connected ELSE {root}
            library == IF root \in connected THEN 0 ELSE c_lib
        IN  /\ \A y : y \in found <=> y \in Neighbors(edges, root) /\ y \in unvisited' /\ y \notin comp
            /\ w \in Roads!Walks(found) /\ queue' = <<>> \o w
            /\ connected' = comp \cup found
            /\ total' = total + library + c_road * Cardinality(found)
            /\ unvisited' = unvisited \ {root}
            /\ UNCHANGED <<n, c_lib, c_road, cities, edges, filled, pc, result>>
  BY <1>1, VisitDoes
<1>3. /\ RoadsArgs /\ RoadsFilled /\ filled = Len(cities) /\ unvisited \subseteq Towns
      /\ n \in Nat /\ c_lib \in Nat /\ c_road \in Nat
  BY <1>1, SearchNow
<1>4. root \in Towns /\ n # 0
  <2>1. root \in Towns
    BY <1>3
  <2> QED
    BY <2>1 DEF Towns, Roads!Nodes
<1>5. PICK before \in SUBSET Towns, t \in Towns : Charging(unvisited, connected, <<>>, total, before, t)
  BY <1>1, <1>4, SearchNow DEF Searched
<1> DEFINE old == before \cup connected
<1> DEFINE charged == Cardinality({ Group(x) : x \in old })
<1>6. /\ old \in SUBSET Towns /\ Closed(old, Net) /\ unvisited = Towns \ old
      /\ Cardinality(old) \in Nat /\ charged \in Nat
      /\ total = c_lib * charged + c_road * (Cardinality(old) - charged)
  <2>1. Charged(unvisited, total, old)
    BY <1>3, <1>5, GroupCharged
  <2> HIDE DEF old
  <2> QED
    BY <2>1 DEF Charged, GroupsOf
<1>7. root \notin old /\ root \notin connected /\ root \in Group(root)
  BY <1>4, <1>6, GroupIs
<1> HIDE DEF old
<1>8. /\ \A y : y \in found <=> y \in Neighbors(edges, root) /\ y \in unvisited' /\ y \notin {root}
      /\ w \in Roads!Walks(found) /\ queue' = <<>> \o w /\ connected' = {root} \cup found
      /\ total' = total + c_lib + c_road * Cardinality(found) /\ unvisited' = unvisited \ {root}
      /\ UNCHANGED <<n, c_lib, c_road, cities, edges, filled, pc>>
  BY <1>2, <1>7
<1>9. Items(<<>>) = {} /\ Apart(<<>>) /\ <<>> \in Seq({root})
  BY DEF Items, Apart
<1>10. unvisited' = Towns \ (old \cup ({root} \ Items(<<>>)))
  BY <1>6, <1>8, <1>9
<1>11. /\ charged + 1 \in Nat
       /\ total + c_lib = c_lib * (charged + 1) + c_road * (Cardinality(old) + Cardinality({root}) - (charged + 1))
  <2> DEFINE o == Cardinality(old)
  <2>1. Cardinality({root}) = 1
    BY FS_Singleton
  <2> HIDE DEF charged, o
  <2>2. o \in Nat /\ charged \in Nat /\ total = c_lib * charged + c_road * (o - charged)
    BY <1>6 DEF o, charged
  <2>3. o + 1 - (charged + 1) = o - charged /\ c_lib * (charged + 1) = c_lib * charged + c_lib
    BY <1>3, <2>2
  <2>4. c_lib * charged \in Int /\ c_road * (o - charged) \in Int
    BY <1>3, <2>2
  <2>5. total + c_lib = c_lib * (charged + 1) + c_road * (o + 1 - (charged + 1))
    BY <1>3, <2>2, <2>3, <2>4
  <2> QED
    BY <2>1, <2>2, <2>5 DEF o
<1>12. Charging(unvisited', {root} \cup found, <<>> \o w, total + c_lib + c_road * Cardinality(found), old, root)
  <2>1. \A x \in {root} \ Items(<<>>) : x # root => Neighbors(edges, x) \subseteq {root}
    OBVIOUS
  <2>2. root \notin Items(<<>>) /\ {root} \subseteq Group(root)
    BY <1>7, <1>9
  <2> QED
    BY <1>3, <1>4, <1>6, <1>7, <1>8, <1>9, <1>10, <1>11, <2>1, <2>2, TownVisited
<1>13. Charging(unvisited', connected', queue', total', old, root)
  BY <1>8, <1>12
<1>14. Searched(unvisited', connected', queue', total')
  BY <1>4, <1>6, <1>13 DEF Searched
<1> QED
  BY <1>1, <1>3, <1>8, <1>14, RoadsGoes

LEMMA CostReturned == ASSUME RoadsInv, Roads!Return PROVE RoadsInv'
<1>1. /\ pc = "search" /\ queue = <<>> /\ unvisited = {} /\ pc' = "done"
      /\ result' = IF total < c_lib * n THEN total ELSE c_lib * n
      /\ UNCHANGED <<n, c_lib, c_road, cities, edges, filled, unvisited, total, connected, queue>>
  BY DEF Roads!Return, Roads!args
<1>2. /\ RoadsArgs /\ RoadsFilled /\ filled = Len(cities) /\ n \in Nat /\ c_lib \in Nat /\ c_road \in Nat
  BY <1>1, SearchNow
<1>3. IsFiniteSet(Towns) /\ Cardinality(Towns) = n
  BY <1>2, TownsFinite
<1> DEFINE g == Cardinality(Groups(Towns, Given))
<1>4. result' = LeastCost(c_lib, c_road, g, n)
  <2>1. CASE n = 0
    <3>1. g = 0
      <4>1. g \in Nat /\ g <= 0
        BY <1>3, <2>1, CompsFinite DEF Groups
      <4> QED
        BY <4>1
    <3>2. total \in Nat
      <4>1. Towns = {}
        BY <2>1 DEF Towns, Roads!Nodes
      <4>2. total \in Nat \/ total = 0
        BY <1>1, <4>1, SearchNow DEF Searched
      <4> QED
        BY <4>2
    <3> HIDE DEF g
    <3>3. c_lib * n = 0 /\ c_lib * g + c_road * (n - g) = 0 /\ ~ (total < 0) /\ ~ (0 < 0)
      BY <1>2, <2>1, <3>1, <3>2
    <3> QED
      BY <1>1, <3>3 DEF LeastCost
  <2>2. CASE n # 0
    <3>1. PICK before \in SUBSET Towns, t \in Towns : Charging(unvisited, connected, <<>>, total, before, t)
      BY <1>1, <2>2, SearchNow DEF Searched
    <3> DEFINE old == before \cup connected
    <3> HIDE DEF old
    <3>2. /\ old \in SUBSET Towns /\ unvisited = Towns \ old
          /\ total = c_lib * Cardinality(GroupsOf(old))
                     + c_road * (Cardinality(old) - Cardinality(GroupsOf(old)))
      <4>1. Charged(unvisited, total, old)
        BY <1>2, <3>1, GroupCharged DEF old
      <4> QED
        BY <4>1 DEF Charged
    <3>3. old = Towns
      BY <1>1, <3>2
    <3>4. GroupsOf(Towns) = Groups(Towns, Given)
      BY DEF GroupsOf, Groups, Comps, Group, Net
    <3>5. total = c_lib * g + c_road * (n - g)
      BY <1>3, <3>2, <3>3, <3>4
    <3> HIDE DEF g
    <3> QED
      BY <1>1, <3>5 DEF LeastCost
  <2> QED
    BY <2>1, <2>2
<1> HIDE DEF g
<1>5. unvisited' \subseteq Towns
  BY <1>1
<1> QED
  BY <1>1, <1>2, <1>4, <1>5, RoadsGoes DEF g

LEMMA RoadsNext == ASSUME RoadsInv, Roads!Next PROVE RoadsInv'
<1>1. CASE Roads!Finished
  BY <1>1, RoadsStutter DEF Roads!Finished
<1> QED
  BY <1>1, RoadEnters, SearchStarts, QueuedVisited, UnvisitedVisited, CostReturned DEF Roads!Next

LEMMA RoadsCheapest == ASSUME RoadsInv PROVE Roads!ResultIsCheapest
<1> SUFFICES ASSUME pc = "done"
             PROVE  /\ \E R \in SUBSET Given : result = Roads!CostOf(R)
                    /\ \A R \in SUBSET Given : result <= Roads!CostOf(R)
  BY DEF Roads!ResultIsCheapest, Given
<1>1. /\ RoadsArgs /\ n \in Nat /\ c_lib \in Nat /\ c_road \in Nat
      /\ result = LeastCost(c_lib, c_road, Cardinality(Groups(Towns, Given)), n)
  BY DEF RoadsInv, RoadsArgs
<1>2. IsFiniteSet(Towns) /\ Cardinality(Towns) = n /\ IsFiniteSet(Given) /\ Given \subseteq Links(Towns)
  BY <1>1, TownsFinite, GivenRoads
<1> DEFINE cost(R) == c_lib * Cardinality(Groups(Towns, R)) + c_road * Cardinality(R)
<1>3. ASSUME NEW R PROVE Roads!CostOf(R) = cost(R)
  <2>1. Roads!PairsOf(R) = Edges(Towns, R)
    BY DEF Roads!PairsOf, Edges, Towns
  <2>2. Roads!Components(Towns, Edges(Towns, R)) = Groups(Towns, R)
    BY SameComponent DEF Roads!Components, Groups, Comps
  <2> QED
    BY <2>1, <2>2, SameCardinality DEF Roads!CostOf, Towns
<1>4. /\ \E Q \in SUBSET Given : result = cost(Q)
      /\ \A Q \in SUBSET Given : result <= cost(Q)
  BY <1>1, <1>2, CheapestRoads
<1> HIDE DEF cost
<1> QED
  BY <1>3, <1>4

\* roads_and_libraries.cc: whatever the roads, the costs and the order in which
\* the sets are walked, no choice of roads to build costs less than the answer.
THEOREM CheapestPlan == Spec => []ResultIsCheapest
<1> DEFINE Inv == program \in {"roads", "moon"} /\ (program = "roads" => RoadsInv)
<1>1. Init => Inv
  BY OneStarts, RoadsInit DEF Init
<1>2. Inv /\ [Next]_vars => Inv'
  <2> SUFFICES ASSUME Inv, [Next]_vars PROVE Inv'
    OBVIOUS
  <2>1. program' = program /\ (program = "roads" => Roads!Next \/ UNCHANGED Roads!vars)
    BY OneRuns
  <2>2. program = "roads" => RoadsInv'
    BY <2>1, RoadsNext, RoadsStutter
  <2> QED
    BY <2>1, <2>2
<1>3. Inv => ResultIsCheapest
  BY RoadsCheapest DEF ResultIsCheapest
<1> QED
  BY <1>1, <1>2, <1>3, PTL DEF Spec

----------------------------------------------------------------------------
\* The sum of journey_to_moon.

\* A sum over a function, by what it is for each part of its domain.
LEMMA SumIs ==
    ASSUME NEW f, IsFiniteSet(DOMAIN f), NEW h \in [SUBSET DOMAIN f -> Nat], h[{}] = 0,
           \A s \in SUBSET DOMAIN f : \A x \in s : h[s] = f[x] + h[s \ {x}]
    PROVE  Moon!SumFunction(f) = h[DOMAIN f]
<1> DEFINE S == DOMAIN f
<1> DEFINE pick(s) == CHOOSE x \in s : TRUE
<1> DEFINE sums(g) == [s \in SUBSET S |-> IF s = {} THEN 0 ELSE f[pick(s)] + g[s \ {pick(s)}]]
<1> DEFINE iter == CHOOSE g : g = sums(g)
<1>1. Moon!SumFunction(f) = iter[S]
  BY DEF Moon!SumFunction, Moon!SumFunctionOnSet, Moon!FoldFunctionOnSet, Moon!MapThenFoldSet
<1>2. \A s : s # {} => pick(s) \in s
  OBVIOUS
<1> HIDE DEF pick
<1>3. h = sums(h)
  <2>1. \A s \in SUBSET S : h[s] = IF s = {} THEN 0 ELSE f[pick(s)] + h[s \ {pick(s)}]
    BY <1>2
  <2>2. h = [s \in SUBSET S |-> h[s]]
    OBVIOUS
  <2> QED
    BY <2>1, <2>2
<1>4. iter = sums(iter)
  <2> HIDE DEF sums
  <2> QED
    BY <1>3
<1> HIDE DEF iter
<1>5. \A s \in SUBSET S : iter[s] = IF s = {} THEN 0 ELSE f[pick(s)] + iter[s \ {pick(s)}]
  BY <1>4
<1> DEFINE T == { k \in Nat : \A s \in SUBSET S : Cardinality(s) = k => iter[s] = h[s] }
<1>6. \A s \in SUBSET S : IsFiniteSet(s) /\ Cardinality(s) \in Nat
  BY FS_Subset, FS_CardinalityType
<1>7. 0 \in T
  <2>1. \A s \in SUBSET S : Cardinality(s) = 0 => s = {}
    BY <1>6, FS_EmptySet
  <2> QED
    BY <1>5, <2>1
<1>8. ASSUME NEW k \in Nat, k \in T PROVE k + 1 \in T
  <2> SUFFICES ASSUME NEW s \in SUBSET S, Cardinality(s) = k + 1 PROVE iter[s] = h[s]
    OBVIOUS
  <2>1. s # {}
    <3>1. k + 1 # 0
      OBVIOUS
    <3> QED
      BY <3>1, FS_EmptySet
  <2> DEFINE x == pick(s)
  <2>2. x \in s
    BY <1>2, <2>1
  <2>3. Cardinality(s \ {x}) = Cardinality(s) - 1 /\ s \ {x} \in SUBSET S
    BY <1>6, <2>2, FS_RemoveElement
  <2>4. Cardinality(s \ {x}) = k
    BY <2>3
  <2>5. iter[s \ {x}] = h[s \ {x}]
    BY <1>8, <2>3, <2>4
  <2> QED
    BY <1>5, <2>1, <2>2, <2>5
<1> HIDE DEF T
<1>9. Nat \subseteq T
  BY <1>7, <1>8, Induction
<1>10. Cardinality(S) \in T /\ S \in SUBSET S
  BY <1>6, <1>9
<1> QED
  BY <1>1, <1>10 DEF T

Union(C, s) == UNION { C[k] : k \in s }

\* The sum of the sizes of sets that have no element in common is the size of
\* their union.
LEMMA SumIsUnion ==
    ASSUME NEW f, IsFiniteSet(DOMAIN f), NEW C, NEW W, IsFiniteSet(W),
           \A k \in DOMAIN f : C[k] \in SUBSET W /\ f[k] = Cardinality(C[k]),
           \A j, k \in DOMAIN f : j # k => C[j] \cap C[k] = {}
    PROVE  Moon!SumFunction(f) = Cardinality(Union(C, DOMAIN f))
<1> DEFINE S == DOMAIN f
<1> DEFINE h == [s \in SUBSET S |-> Cardinality(Union(C, s))]
<1>1. \A s \in SUBSET S : Union(C, s) \subseteq W
  BY DEF Union
<1>2. \A s \in SUBSET S : IsFiniteSet(Union(C, s)) /\ Cardinality(Union(C, s)) \in Nat
  BY <1>1, FS_Subset, FS_CardinalityType
<1>3. h \in [SUBSET S -> Nat]
  BY <1>2
<1>4. h[{}] = 0
  <2>1. Union(C, {}) = {}
    BY DEF Union
  <2> QED
    BY <2>1, FS_EmptySet
<1>5. ASSUME NEW s \in SUBSET S, NEW x \in s PROVE h[s] = f[x] + h[s \ {x}]
  <2> DEFINE r == s \ {x}
  <2>1. Union(C, s) = C[x] \cup Union(C, r)
    BY DEF Union
  <2>2. C[x] \cap Union(C, r) = {}
    BY DEF Union
  <2>3. IsFiniteSet(C[x]) /\ IsFiniteSet(Union(C, r)) /\ r \in SUBSET S
    BY <1>2, FS_Subset
  <2> HIDE DEF r
  <2>4. Cardinality(C[x] \cap Union(C, r)) = 0
    BY <2>2, FS_EmptySet
  <2>5. Cardinality(C[x]) \in Nat /\ Cardinality(Union(C, r)) \in Nat
    BY <2>3, FS_CardinalityType
  <2>6. Cardinality(C[x] \cup Union(C, r)) = Cardinality(C[x]) + Cardinality(Union(C, r)) - Cardinality(C[x] \cap Union(C, r))
    BY <2>3, FS_Union
  <2>7. Cardinality(C[x] \cup Union(C, r)) = Cardinality(C[x]) + Cardinality(Union(C, r))
    BY <2>4, <2>5, <2>6
  <2>8. h[s] = Cardinality(Union(C, s)) /\ h[r] = Cardinality(Union(C, r)) /\ f[x] = Cardinality(C[x])
    BY <2>3
  <2> HIDE DEF h
  <2> QED
    BY <2>1, <2>7, <2>8 DEF r
<1>6. h[S] = Cardinality(Union(C, S))
  OBVIOUS
<1> HIDE DEF h
<1>7. Moon!SumFunction(f) = h[DOMAIN f]
  BY <1>3, <1>4, <1>5, SumIs
<1> QED
  BY <1>6, <1>7

LEMMA Counting == \A m \in Nat : IsFiniteSet(1..m) /\ Cardinality(1..m) = m
BY FS_Interval

LEMMA MoonSize == MoonArgs => n \in Nat /\ IsFiniteSet(Astronauts) /\ Cardinality(Astronauts) = n
<1> SUFFICES ASSUME n \in Nat PROVE IsFiniteSet(Astronauts) /\ Cardinality(Astronauts) = n
  BY DEF MoonArgs
<1> QED
  BY FS_Interval DEF Astronauts, Moon!Nodes

\* The entries of cs are the sizes of all the countries, those of f.
Sizes(cs, f) ==
    /\ f \in [1..Len(cs) -> SUBSET Astronauts]
    /\ \A j, k \in 1..Len(cs) : f[j] = f[k] => j = k
    /\ { f[k] : k \in 1..Len(cs) } = { Country(x) : x \in Astronauts }
    /\ \A k \in 1..Len(cs) : cs[k] = Cardinality(f[k])

LEMMA SizesApart ==
    ASSUME MoonArgs, NEW cs \in Seq(Nat), NEW f, Sizes(cs, f)
    PROVE  /\ \A k \in 1..Len(cs) : /\ f[k] \in SUBSET Astronauts /\ IsFiniteSet(f[k]) /\ cs[k] = Cardinality(f[k])
                                    /\ \A x \in f[k] : Country(x) = f[k]
           /\ \A j, k \in 1..Len(cs) : j # k => f[j] \cap f[k] = {}
           /\ \A x \in Astronauts : \E k \in 1..Len(cs) : x \in f[k]
           /\ Len(cs) <= n /\ (n # 0 => Len(cs) # 0)
<1> DEFINE d == Len(cs)
<1> DEFINE All == { Country(x) : x \in Astronauts }
<1>1. /\ \A k \in 1..d : f[k] \in SUBSET Astronauts /\ cs[k] = Cardinality(f[k]) /\ f[k] \in All
      /\ \A j, k \in 1..d : f[j] = f[k] => j = k
      /\ \A C \in All : \E k \in 1..d : f[k] = C
      /\ f \in [1..d -> All]
  BY DEF Sizes
<1>2. d \in Nat /\ IsFiniteSet(1..d) /\ Cardinality(1..d) = d /\ n \in Nat
  BY Counting, MoonSize
<1>3. IsFiniteSet(Astronauts) /\ Cardinality(Astronauts) = n
  BY MoonSize
<1>4. \A k \in 1..d : \A x \in f[k] : Country(x) = f[k]
  <2> SUFFICES ASSUME NEW k \in 1..d, NEW x \in f[k] PROVE Country(x) = f[k]
    OBVIOUS
  <2>1. PICK y \in Astronauts : f[k] = Country(y)
    BY <1>1
  <2> QED
    BY <2>1, CountryIs
<1>5. \A x \in Astronauts : \E k \in 1..d : x \in f[k]
  <2> SUFFICES ASSUME NEW x \in Astronauts PROVE \E k \in 1..d : x \in f[k]
    OBVIOUS
  <2>1. PICK k \in 1..d : f[k] = Country(x)
    BY <1>1
  <2> QED
    BY <2>1, CountryIs
<1>6. \A j, k \in 1..d : j # k => f[j] \cap f[k] = {}
  <2> SUFFICES ASSUME NEW j \in 1..d, NEW k \in 1..d, NEW x \in f[j], x \in f[k] PROVE j = k
    OBVIOUS
  <2>1. f[j] = f[k]
    BY <1>4
  <2> QED
    BY <1>1, <2>1
<1>7. d <= n
  <2> DEFINE g == [x \in Astronauts |-> Country(x)]
  <2>1. g \in Surjection(Astronauts, All)
    BY DEF Surjection
  <2>2. f \in Injection(1..d, All)
    BY <1>1 DEF Injection, IsInjective
  <2> HIDE DEF g, All, d
  <2>3. IsFiniteSet(All) /\ Cardinality(All) <= n
    BY <1>3, <2>1, FS_Surjection
  <2>4. d <= Cardinality(All)
    BY <1>2, <2>2, <2>3, FS_Injection
  <2> QED
    BY <1>2, <2>3, <2>4, FS_CardinalityType
<1>8. n # 0 => d # 0
  <2> SUFFICES ASSUME n # 0, d = 0 PROVE FALSE
    OBVIOUS
  <2>1. 0 \in Astronauts
    BY <1>2 DEF Astronauts, Moon!Nodes
  <2>2. PICK k \in 1..d : 0 \in f[k]
    BY <1>5, <2>1
  <2> HIDE DEF d
  <2>3. k \in 1..0
    BY <2>2
  <2> QED
    BY <2>3
<1>9. \A k \in 1..d : IsFiniteSet(f[k])
  BY <1>1, <1>3, FS_Subset
<1> QED
  BY <1>1, <1>4, <1>5, <1>6, <1>7, <1>8, <1>9

LEMMA Concatenated ==
    ASSUME NEW S, NEW p \in Seq(S), NEW q \in Seq(S)
    PROVE  /\ p \o q \in Seq(S) /\ Len(p \o q) = Len(p) + Len(q)
           /\ \A k \in 1..(Len(p) + Len(q)) : (p \o q)[k] = IF k <= Len(p) THEN p[k] ELSE q[k - Len(p)]
OBVIOUS

\* Those that no pair mentions are countries of their own, and as many as the
\* entries that are added.
LEMMA SinglesAdded ==
    ASSUME MoonInv, Moon!AddSingles
    PROVE  countries' \in Seq(Nat) /\ \E f : Sizes(countries', f)
<1> DEFINE d == Len(countries)
<1> DEFINE left == Astronauts \ visited
<1>1. /\ pc = "walk" /\ queue = <<>> /\ unwalked = {}
      /\ countries' = countries \o [k \in 1..(n - Moon!SumFunction(countries)) |-> 1]
  BY DEF Moon!AddSingles
<1>2. /\ MoonArgs /\ PairsFilled /\ filled = Len(a_pairs) /\ visited \subseteq Astronauts
      /\ countries \in Seq(Nat) /\ DOMAIN countries = 1..d /\ d \in Nat /\ n \in Nat
  BY <1>1, WalkNow DEF MoonArgs
<1>3. Closed(visited, Linked) /\ Tallied(countries, d, visited) /\ DOMAIN edges \subseteq visited
  BY <1>1, WalkNow DEF Walking
<1>4. PICK f \in [1..d -> SUBSET Astronauts] :
        /\ \A j, k \in 1..d : f[j] = f[k] => j = k
        /\ { f[k] : k \in 1..d } = { Country(x) : x \in visited }
        /\ \A k \in 1..d : countries[k] = Cardinality(f[k])
  BY <1>3 DEF Tallied
<1>5. /\ \A x \in visited : x \in Country(x) /\ Country(x) \subseteq visited
      /\ \A x \in visited : \E k \in 1..d : f[k] = Country(x)
      /\ \A k \in 1..d : \E x \in visited : f[k] = Country(x)
  <2>1. \A x \in visited : x \in Country(x) /\ Country(x) \subseteq visited
    BY <1>2, <1>3, CountryIs, ConnectedIsLeast DEF Country
  <2>2. \A k \in 1..d : f[k] \in { Country(x) : x \in visited }
    BY <1>4
  <2>3. \A x \in visited : Country(x) \in { f[k] : k \in 1..d }
    BY <1>4
  <2> QED
    BY <2>1, <2>2, <2>3
<1>6. IsFiniteSet(Astronauts) /\ Cardinality(Astronauts) = n
  BY <1>2, MoonSize
<1>7. Moon!SumFunction(countries) = Cardinality(visited)
  <2>1. Union(f, 1..d) = visited
    <3>1. \A x \in visited : \E k \in 1..d : x \in f[k]
      BY <1>5
    <3>2. \A k \in 1..d : f[k] \subseteq visited
      BY <1>5
    <3> QED
      BY <3>1, <3>2 DEF Union
  <2>2. \A j, k \in 1..d : j # k => f[j] \cap f[k] = {}
    <3> SUFFICES ASSUME NEW j \in 1..d, NEW k \in 1..d, NEW x \in f[j], x \in f[k] PROVE j = k
      OBVIOUS
    <3>1. PICK y \in visited, z \in visited : f[j] = Country(y) /\ f[k] = Country(z)
      BY <1>5
    <3>2. y \in Astronauts /\ z \in Astronauts
      BY <1>2
    <3>3. Country(x) = f[j] /\ Country(x) = f[k]
      BY <3>1, <3>2, CountryIs
    <3> QED
      BY <1>4, <3>3
  <2>3. \A k \in 1..d : f[k] \in SUBSET Astronauts /\ countries[k] = Cardinality(f[k])
    BY <1>4
  <2>4. IsFiniteSet(1..d)
    BY <1>2, FS_Interval
  <2> HIDE DEF d
  <2> QED
    BY <1>2, <1>6, <2>1, <2>2, <2>3, <2>4, SumIsUnion
<1>8. /\ IsFiniteSet(left) /\ IsFiniteSet(visited) /\ Cardinality(left) \in Nat /\ Cardinality(visited) \in Nat
      /\ Cardinality(left) = n - Cardinality(visited)
  <2>1. IsFiniteSet(left) /\ IsFiniteSet(visited)
    BY <1>2, <1>6, FS_Subset
  <2>2. left \cup visited = Astronauts /\ left \cap visited = {}
    BY <1>2
  <2>3. Cardinality(left) \in Nat /\ Cardinality(visited) \in Nat /\ Cardinality(left \cap visited) = 0
    BY <2>1, <2>2, FS_CardinalityType, FS_EmptySet
  <2>4. Cardinality(left \cup visited) = Cardinality(left) + Cardinality(visited) - Cardinality(left \cap visited)
    BY <2>1, FS_Union
  <2>5. n = Cardinality(left) + Cardinality(visited) - 0
    BY <1>6, <2>2, <2>3, <2>4
  <2> QED
    BY <2>1, <2>3, <2>5
<1> DEFINE m == Cardinality(left)
<1>9. countries' = countries \o [k \in 1..m |-> 1]
  BY <1>1, <1>7, <1>8
<1>10. PICK h \in [1..m -> left] : (\A j, k \in 1..m : h[j] = h[k] => j = k) /\ \A x \in left : \E k \in 1..m : h[k] = x
  <2>1. IsFiniteSet(1..m) /\ Cardinality(1..m) = m
    BY <1>8, FS_Interval
  <2> HIDE DEF m, left
  <2>2. ExistsBijection(1..m, left)
    BY <1>8, <2>1, FS_SameCardinalityBij DEF m
  <2> QED
    BY <2>2 DEF ExistsBijection, Bijection, Injection, IsInjective, Surjection
<1>11. \A x \in left : Country(x) = {x}
  <2> SUFFICES ASSUME NEW x \in left PROVE Country(x) = {x}
    OBVIOUS
  <2>1. Neighbors(edges, x) = {}
    BY <1>3 DEF Neighbors
  <2>2. Closed({x}, Linked)
    BY <1>2, <2>1, ClosedUnderNeighbors
  <2>3. Country(x) \subseteq {x} /\ x \in Country(x)
    BY <2>2, CountryIs, ConnectedIsLeast DEF Country
  <2> QED
    BY <2>3
<1> DEFINE g == [k \in 1..(d + m) |-> IF k <= d THEN f[k] ELSE {h[k - d]}]
<1> HIDE DEF d, m, left
<1>12. d \in Nat /\ m \in Nat
  BY <1>2, <1>8 DEF m
<1>13. /\ countries' \in Seq(Nat) /\ Len(countries') = d + m
       /\ \A k \in 1..(d + m) : countries'[k] = IF k <= d THEN countries[k] ELSE 1
  <2> DEFINE ones == [k \in 1..m |-> 1]
  <2>1. ones \in Seq(Nat) /\ Len(ones) = m /\ \A k \in 1..m : ones[k] = 1
    BY <1>12
  <2> HIDE DEF ones
  <2>2. countries' = countries \o ones
    BY <1>9 DEF ones
  <2>3. /\ countries \o ones \in Seq(Nat) /\ Len(countries \o ones) = Len(countries) + Len(ones)
        /\ \A k \in 1..(Len(countries) + Len(ones)) :
              (countries \o ones)[k] = IF k <= Len(countries) THEN countries[k] ELSE ones[k - Len(countries)]
    BY <1>2, <2>1, Concatenated
  <2>4. \A k \in 1..(d + m) : k > d => k - d \in 1..m
    BY <1>12
  <2> QED
    BY <1>12, <2>1, <2>2, <2>3, <2>4 DEF d
<1>14. \A k \in 1..(d + m) : \/ k \in 1..d /\ k <= d /\ g[k] = f[k]
                             \/ k - d \in 1..m /\ k > d /\ g[k] = {h[k - d]}
  BY <1>12
<1>15. /\ \A k \in 1..d : k \in 1..(d + m) /\ k <= d /\ g[k] = f[k]
       /\ \A k \in 1..m : k + d \in 1..(d + m) /\ k + d > d /\ g[k + d] = {h[k]}
  BY <1>12
<1> HIDE DEF g
<1>16. \A k \in 1..(d + m) : k \in 1..d => g[k] \subseteq visited
  BY <1>5, <1>15
<1>17. \A k \in 1..m : h[k] \in left /\ h[k] \notin visited /\ h[k] \in Astronauts
  BY <1>10 DEF left
<1>18. g \in [1..(d + m) -> SUBSET Astronauts]
  <2>1. \A k \in 1..(d + m) : g[k] \in SUBSET Astronauts
    BY <1>4, <1>14, <1>17
  <2> QED
    BY <2>1 DEF g
<1>19. ASSUME NEW j \in 1..(d + m), NEW k \in 1..(d + m), g[j] = g[k] PROVE j = k
  <2>1. CASE j \in 1..d /\ k \in 1..d
    BY <1>4, <1>15, <1>19, <2>1
  <2>2. CASE j - d \in 1..m /\ k - d \in 1..m /\ g[j] = {h[j - d]} /\ g[k] = {h[k - d]}
    <3>1. h[j - d] = h[k - d]
      BY <1>19, <2>2
    <3>2. j - d = k - d
      BY <1>10, <2>2, <3>1
    <3> QED
      BY <1>12, <3>2
  <2>3. ASSUME NEW a \in {j, k}, NEW b \in {j, k}, a \in 1..d, b - d \in 1..m, g[b] = {h[b - d]} PROVE FALSE
    <3>1. h[b - d] \in g[b] /\ g[b] = g[a]
      BY <1>19, <2>3
    <3>2. g[a] \subseteq visited
      BY <1>5, <1>15, <2>3
    <3> QED
      BY <1>17, <2>3, <3>1, <3>2
  <2> QED
    BY <1>14, <2>1, <2>2, <2>3
<1>20. { g[k] : k \in 1..(d + m) } = { Country(x) : x \in Astronauts }
  <2>1. ASSUME NEW k \in 1..(d + m) PROVE \E x \in Astronauts : g[k] = Country(x)
    <3>1. CASE k \in 1..d
      BY <1>2, <1>5, <1>15, <3>1
    <3>2. CASE k - d \in 1..m /\ g[k] = {h[k - d]}
      BY <1>11, <1>17, <3>2
    <3> QED
      BY <1>14, <3>1, <3>2
  <2>2. ASSUME NEW x \in Astronauts PROVE \E k \in 1..(d + m) : g[k] = Country(x)
    <3>1. CASE x \in visited
      BY <1>5, <1>15, <3>1
    <3>2. CASE x \notin visited
      <4>1. x \in left
        BY <3>2 DEF left
      <4>2. PICK k \in 1..m : h[k] = x
        BY <1>10, <4>1
      <4> QED
        BY <1>11, <1>15, <4>1, <4>2
    <3> QED
      BY <3>1, <3>2
  <2> QED
    BY <2>1, <2>2
<1>21. \A k \in 1..(d + m) : countries'[k] = Cardinality(g[k])
  <2> SUFFICES ASSUME NEW k \in 1..(d + m) PROVE countries'[k] = Cardinality(g[k])
    OBVIOUS
  <2>1. CASE k \in 1..d /\ k <= d /\ g[k] = f[k]
    BY <1>4, <1>13, <2>1
  <2>2. CASE k - d \in 1..m /\ k > d /\ g[k] = {h[k - d]}
    <3>1. Cardinality(g[k]) = 1
      BY <2>2, FS_Singleton
    <3>2. countries'[k] = 1
      BY <1>12, <1>13, <2>2
    <3> QED
      BY <3>1, <3>2
  <2> QED
    BY <1>14, <2>1, <2>2
<1>22. Sizes(countries', g)
  BY <1>13, <1>18, <1>19, <1>20, <1>21 DEF Sizes
<1> QED
  BY <1>13, <1>22

\* Two countries among n astronauts: the product of their sizes does not wrap.
LEMMA ProductFits ==
    ASSUME NEW x \in Nat, NEW y \in Nat, NEW m \in Nat, NEW w \in Nat \ {0}, x + y <= m, m * m < 4 * w
    PROVE  (x * y) % w = x * y
<1>1. (x + y) * (x + y) <= m * m
  <2> DEFINE t == x + y
  <2>1. t \in Nat /\ t <= m
    OBVIOUS
  <2> HIDE DEF t
  <2>2. t * t <= t * m /\ m * t <= m * m
    BY <2>1, Product
  <2>3. t * m = m * t /\ t * t \in Nat /\ m * t \in Nat /\ m * m \in Nat
    BY <2>1
  <2>4. t * t <= m * m
    BY <2>2, <2>3
  <2> QED
    BY <2>4 DEF t
<1>2. 4 * (x * y) <= (x + y) * (x + y)
  <2> DEFINE q == x - y
  <2>1. q \in Int /\ q * q >= 0
    OBVIOUS
  <2>2. (x + y) * (x + y) = q * q + 4 * (x * y)
    OBVIOUS
  <2>3. x * y \in Nat
    OBVIOUS
  <2> HIDE DEF q
  <2> QED
    BY <2>1, <2>2, <2>3
<1>3. x * y \in Nat /\ m * m \in Nat /\ (x + y) * (x + y) \in Nat
  OBVIOUS
<1>4. x * y < w
  BY <1>1, <1>2, <1>3
<1> QED
  BY <1>3, <1>4

\* The pairs of which the first is of one of the first m countries and the
\* second of one that comes after it.
Chosen(f, d, m) ==
    { p \in Astronauts \X Astronauts : \E a \in 1..m, b \in 1..d : a < b /\ p[1] \in f[a] /\ p[2] \in f[b] }

LEMMA ChosenGrows ==
    ASSUME MoonArgs, n * n < 4 * Word, countries \in Seq(Nat), NEW f, Sizes(countries, f), NEW m \in Nat
    PROVE  /\ Cardinality(Chosen(f, Len(countries), m)) \in Nat
           /\ Cardinality(Chosen(f, Len(countries), m + 1))
                = Cardinality(Chosen(f, Len(countries), m))
                  + Moon!SumFunction([j \in ((m + 1) + 1)..Len(countries) |-> Moon!Product(m + 1, j)])
<1> DEFINE d == Len(countries)
<1> DEFINE a == m + 1
<1> DEFINE s == [j \in (a + 1)..d |-> Moon!Product(a, j)]
<1> DEFINE C == [j \in (a + 1)..d |-> f[a] \X f[j]]
<1> DEFINE W == Astronauts \X Astronauts
<1>1. /\ \A k \in 1..d : f[k] \in SUBSET Astronauts /\ IsFiniteSet(f[k]) /\ countries[k] = Cardinality(f[k])
      /\ \A j, k \in 1..d : j # k => f[j] \cap f[k] = {}
  BY SizesApart
<1>2. d \in Nat /\ a \in Nat /\ n \in Nat /\ IsFiniteSet(Astronauts) /\ Cardinality(Astronauts) = n /\ IsFiniteSet(W)
  BY MoonSize, FS_Product
<1>3. Word \in Nat \ {0}
  BY InputsAssumption DEF Moon!InputsOK
<1> HIDE DEF W
<1>4. \A j \in (a + 1)..d : j \in 1..d /\ a \in 1..d /\ a < j /\ a # j
  BY <1>2
<1>5. ASSUME NEW j \in (a + 1)..d PROVE C[j] \in SUBSET W /\ s[j] = Cardinality(C[j])
  <2>1. C[j] = f[a] \X f[j] /\ s[j] = (countries[a] * countries[j]) % Word
    BY DEF Moon!Product
  <2> HIDE DEF C, s
  <2>2. /\ f[a] \in SUBSET Astronauts /\ IsFiniteSet(f[a]) /\ countries[a] = Cardinality(f[a])
        /\ f[j] \in SUBSET Astronauts /\ IsFiniteSet(f[j]) /\ countries[j] = Cardinality(f[j])
        /\ f[a] \cap f[j] = {}
    BY <1>1, <1>4
  <2> DEFINE A == f[a]
  <2> DEFINE B == f[j]
  <2>3. /\ A \in SUBSET Astronauts /\ IsFiniteSet(A) /\ B \in SUBSET Astronauts /\ IsFiniteSet(B) /\ A \cap B = {}
        /\ s[j] = (Cardinality(A) * Cardinality(B)) % Word /\ C[j] = A \X B
    BY <2>1, <2>2
  <2> HIDE DEF A, B, a
  <2>4. Cardinality(A) \in Nat /\ Cardinality(B) \in Nat /\ Cardinality(A \cap B) = 0
    BY <2>3, FS_CardinalityType, FS_EmptySet
  <2>5. Cardinality(A \cup B) = Cardinality(A) + Cardinality(B) - Cardinality(A \cap B)
    BY <2>3, FS_Union
  <2>6. Cardinality(A \cup B) <= n
    <3>1. A \cup B \subseteq Astronauts
      BY <2>3
    <3> QED
      BY <1>2, <3>1, FS_Subset
  <2>7. Cardinality(A) + Cardinality(B) <= n
    BY <2>4, <2>5, <2>6
  <2>8. s[j] = Cardinality(A) * Cardinality(B)
    <3> DEFINE x == Cardinality(A)
    <3> DEFINE y == Cardinality(B)
    <3>1. x \in Nat /\ y \in Nat /\ x + y <= n /\ n \in Nat /\ s[j] = (x * y) % Word
      BY <1>2, <2>3, <2>4, <2>7
    <3> HIDE DEF x, y
    <3>2. (x * y) % Word = x * y
      BY <1>3, <3>1, ProductFits
    <3> QED
      BY <3>1, <3>2 DEF x, y
  <2>9. Cardinality(A \X B) = Cardinality(A) * Cardinality(B)
    BY <2>3, FS_Product
  <2>10. C[j] \in SUBSET W
    BY <2>3 DEF W
  <2> QED
    BY <2>3, <2>8, <2>9, <2>10
<1>6. ASSUME NEW j \in (a + 1)..d, NEW k \in (a + 1)..d, j # k PROVE C[j] \cap C[k] = {}
  <2>1. f[j] \cap f[k] = {}
    BY <1>1, <1>4, <1>6
  <2> QED
    BY <2>1
<1>7. DOMAIN s = (a + 1)..d /\ IsFiniteSet((a + 1)..d)
  BY <1>2, FS_Interval
<1> DEFINE new == Union(C, (a + 1)..d)
<1> DEFINE old == Chosen(f, d, m)
<1>8. new \subseteq W /\ IsFiniteSet(new) /\ old \subseteq W /\ IsFiniteSet(old)
  <2>1. new \subseteq W
    BY <1>5 DEF Union
  <2>2. old \subseteq W
    BY DEF Chosen, W
  <2> QED
    BY <1>2, <2>1, <2>2, FS_Subset
<1>9. \A p : p \in new <=> \E j \in (a + 1)..d : p \in f[a] \X f[j]
  BY DEF Union
<1>10. Moon!SumFunction(s) = Cardinality(new)
  <2> HIDE DEF s, C, a, d
  <2> QED
    BY <1>2, <1>5, <1>6, <1>7, SumIsUnion
<1> HIDE DEF s, new
<1>11. Chosen(f, d, a) = old \cup new
  <2>1. ASSUME NEW p \in new PROVE p \in Chosen(f, d, a)
    <3>1. PICK j \in (a + 1)..d : p \in f[a] \X f[j]
      BY <1>9, <2>1
    <3>2. p[1] \in f[a] /\ p[2] \in f[j] /\ j \in 1..d /\ a < j /\ a \in 1..a /\ p \in Astronauts \X Astronauts
      BY <1>1, <1>2, <1>4, <3>1
    <3> QED
      BY <3>2 DEF Chosen
  <2>2. ASSUME NEW p \in old PROVE p \in Chosen(f, d, a)
    <3>1. \A k \in 1..m : k \in 1..a
      BY <1>2
    <3> HIDE DEF a
    <3> QED
      BY <2>2, <3>1 DEF Chosen
  <2>3. ASSUME NEW p \in Chosen(f, d, a), p \notin old PROVE p \in new
    <3>1. PICK k \in 1..a, b \in 1..d : k < b /\ p[1] \in f[k] /\ p[2] \in f[b]
      BY <2>3 DEF Chosen
    <3>2. p \in Astronauts \X Astronauts
      BY <2>3 DEF Chosen
    <3>3. k \notin 1..m
      BY <2>3, <3>1, <3>2 DEF Chosen
    <3>4. k = a /\ b \in (a + 1)..d
      BY <1>2, <3>1, <3>3
    <3>5. p \in f[a] \X f[b]
      BY <3>1, <3>2, <3>4
    <3> QED
      BY <1>9, <3>4, <3>5
  <2> QED
    BY <2>1, <2>2, <2>3
<1>12. old \cap new = {}
  <2> SUFFICES ASSUME NEW p \in old, p \in new PROVE FALSE
    OBVIOUS
  <2>1. PICK k \in 1..m, b \in 1..d : k < b /\ p[1] \in f[k] /\ p[2] \in f[b]
    BY DEF Chosen
  <2>2. PICK j \in (a + 1)..d : p \in f[a] \X f[j]
    BY <1>9
  <2>3. p[1] \in f[a] /\ a \in 1..d
    BY <1>4, <2>2
  <2>4. k # a /\ k \in 1..d
    BY <1>2, <2>1
  <2> QED
    BY <1>1, <2>1, <2>3, <2>4
<1> HIDE DEF old
<1>13. Cardinality(old \cup new) = Cardinality(old) + Cardinality(new) /\ Cardinality(old) \in Nat
  <2>1. Cardinality(old \cap new) = 0
    BY <1>12, FS_EmptySet
  <2>2. Cardinality(old) \in Nat /\ Cardinality(new) \in Nat
    BY <1>8, FS_CardinalityType
  <2>3. Cardinality(old \cup new) = Cardinality(old) + Cardinality(new) - Cardinality(old \cap new)
    BY <1>8, FS_Union
  <2> QED
    BY <2>1, <2>2, <2>3
<1> QED
  BY <1>10, <1>11, <1>13 DEF old, s

\* What the first m passes of the outer loop have added up.
Summed(cs, np, m) ==
    \E f : Sizes(cs, f) /\ np = Cardinality(Chosen(f, Len(cs), m))

Bounded == n * n < 4 * Word /\ n < SizeWord

SumInv ==
    /\ Bounded
    /\ pc \in {"fill", "walk"} => n_pairs = 0 /\ i = 0
    /\ pc \in {"sum", "done", "undefined"} =>
          i \in Nat /\ countries \in Seq(Nat) /\ Summed(countries, n_pairs, i)
    /\ pc = "done" => i = Moon!LastOuter
    /\ pc = "undefined" => n = 0 /\ ~ndebug

LEMMA SumInit == Moon!Init => SumInv
<1> SUFFICES ASSUME Moon!Init PROVE SumInv
  OBVIOUS
<1>1. PICK in \in Pairs : n = in.n
  BY DEF Moon!Init
<1>2. n_pairs = 0 /\ i = 0 /\ pc = "fill"
  BY DEF Moon!Init
<1>3. Bounded
  BY <1>1, InputsAssumption DEF Moon!InputsOK, Bounded
<1> QED
  BY <1>2, <1>3 DEF SumInv

LEMMA SumGoes ==
    ASSUME SumInv, UNCHANGED <<n, a_pairs>>,
           pc' \in {"sum", "done", "undefined"},
           i' \in Nat, countries' \in Seq(Nat), Summed(countries', n_pairs', i'),
           pc' = "done" => i' = Moon!LastOuter',
           pc' = "undefined" => n = 0 /\ ~ndebug'
    PROVE  SumInv'
<1>1. Astronauts' = Astronauts /\ \A x : Country(x)' = Country(x)
  BY MoonTables
<1>2. \A cs, f : Sizes(cs, f)' = Sizes(cs, f)
  <2>1. { Country(x) : x \in Astronauts }' = { Country(x) : x \in Astronauts }
    BY <1>1
  <2> QED
    BY <1>1, <2>1 DEF Sizes
<1>3. \A f, d, m : Chosen(f, d, m)' = Chosen(f, d, m)
  BY <1>1 DEF Chosen
<1>4. \A cs, np, m : Summed(cs, np, m)' = Summed(cs, np, m)
  BY <1>2, <1>3 DEF Summed
<1>5. Summed(countries, n_pairs, i)'
  BY <1>4
<1>6. Bounded'
  BY DEF Bounded, SumInv
<1> QED
  BY <1>5, <1>6 DEF SumInv

LEMMA SumStutter ==
    ASSUME SumInv, UNCHANGED <<n, a_pairs, ndebug, countries, n_pairs, i, pc>> PROVE SumInv'
<1>1. CASE pc \in {"sum", "done", "undefined"}
  <2>1. i \in Nat /\ countries \in Seq(Nat) /\ Summed(countries, n_pairs, i)
    BY <1>1 DEF SumInv
  <2>2. Summed(countries', n_pairs', i') = Summed(countries, n_pairs, i)
    OBVIOUS
  <2>3. Moon!LastOuter' = Moon!LastOuter
    BY DEF Moon!LastOuter
  <2> QED
    BY <1>1, <2>1, <2>2, <2>3, SumGoes DEF SumInv
<1>2. CASE pc \notin {"sum", "done", "undefined"}
  BY <1>2 DEF SumInv, Bounded
<1> QED
  BY <1>1, <1>2

LEMMA BeforeSum ==
    ASSUME SumInv,
           Moon!FillEdge \/ Moon!StartWalk \/ Moon!SkipVisited \/ Moon!NewCountry \/ Moon!Search
    PROVE  SumInv'
<1>1. pc \in {"fill", "walk"} /\ pc' \in {"fill", "walk"} /\ UNCHANGED <<n, n_pairs, i>>
  <2>1. CASE Moon!FillEdge
    BY <2>1 DEF Moon!FillEdge, Moon!args
  <2>2. CASE Moon!StartWalk
    BY <2>2 DEF Moon!StartWalk, Moon!args
  <2>3. CASE Moon!SkipVisited
    BY <2>3 DEF Moon!SkipVisited, Moon!args
  <2>4. CASE Moon!NewCountry
    BY <2>4 DEF Moon!NewCountry, Moon!args
  <2>5. CASE Moon!Search
    BY <2>5 DEF Moon!Search, Moon!args
  <2> QED
    BY <2>1, <2>2, <2>3, <2>4, <2>5
<1> QED
  BY <1>1 DEF SumInv, Bounded

LEMMA SumStarts == ASSUME MoonInv, SumInv, Moon!AddSingles PROVE SumInv'
<1>1. pc = "walk" /\ pc' = "sum" /\ UNCHANGED <<n, a_pairs, n_pairs, i>>
  BY DEF Moon!AddSingles, Moon!args
<1>2. n_pairs = 0 /\ i = 0
  BY <1>1 DEF SumInv
<1>3. countries' \in Seq(Nat) /\ \E f : Sizes(countries', f)
  BY SinglesAdded
<1>4. PICK f : Sizes(countries', f)
  BY <1>3
<1>5. Cardinality(Chosen(f, Len(countries'), 0)) = 0
  <2>1. 1..0 = {}
    OBVIOUS
  <2>2. Chosen(f, Len(countries'), 0) = {}
    BY <2>1 DEF Chosen
  <2> QED
    BY <2>2, FS_EmptySet
<1>6. Summed(countries', n_pairs', i')
  BY <1>1, <1>2, <1>4, <1>5 DEF Summed
<1> QED
  BY <1>1, <1>2, <1>3, <1>6, SumGoes

\* The outer loop stops one before the last country, or never for want of one.
LEMMA OuterEnds ==
    ASSUME MoonInv, SumInv, pc \in {"sum", "done", "undefined"}
    PROVE  /\ n # 0 => Len(countries) # 0 /\ Moon!LastOuter = Len(countries) - 1
           /\ n = 0 => Len(countries) = 0
<1>1. MoonArgs /\ countries \in Seq(Nat) /\ n \in Nat /\ Len(countries) \in Nat /\ n < SizeWord /\ SizeWord \in Nat
  BY InputsAssumption DEF MoonInv, SumInv, Bounded, MoonArgs, Moon!InputsOK
<1>2. PICK f : Sizes(countries, f)
  BY DEF SumInv, Summed
<1>3. Len(countries) <= n /\ (n # 0 => Len(countries) # 0)
  BY <1>1, <1>2, SizesApart
<1>4. ASSUME n # 0 PROVE Moon!LastOuter = Len(countries) - 1
  <2> DEFINE d == Len(countries)
  <2>1. d \in Nat /\ d # 0 /\ d < SizeWord
    BY <1>1, <1>3, <1>4
  <2> HIDE DEF d
  <2>2. (d - 1) % SizeWord = d - 1
    BY <1>1, <2>1
  <2> QED
    BY <2>2 DEF d, Moon!LastOuter
<1> QED
  BY <1>1, <1>3, <1>4

LEMMA SumStep == ASSUME MoonInv, SumInv, Moon!SumProducts PROVE SumInv'
<1>1. /\ pc = "sum" /\ i' = i + 1
      /\ n_pairs' = n_pairs + Moon!SumFunction([j \in ((i + 1) + 1)..Len(countries) |-> Moon!Product(i + 1, j)])
      /\ UNCHANGED <<n, a_pairs, countries, pc>>
  BY DEF Moon!SumProducts, Moon!args, Moon!Product
<1>2. i \in Nat /\ countries \in Seq(Nat) /\ MoonArgs /\ n * n < 4 * Word
  BY <1>1 DEF SumInv, Bounded, MoonInv
<1>3. PICK f : Sizes(countries, f) /\ n_pairs = Cardinality(Chosen(f, Len(countries), i))
  BY <1>1 DEF SumInv, Summed
<1>4. n_pairs' = Cardinality(Chosen(f, Len(countries), i + 1))
  BY <1>1, <1>2, <1>3, ChosenGrows
<1>5. Summed(countries', n_pairs', i')
  BY <1>1, <1>3, <1>4 DEF Summed
<1> QED
  BY <1>1, <1>2, <1>5, SumGoes

LEMMA SumEnds == ASSUME MoonInv, SumInv, Moon!Return \/ Moon!ReadOutside PROVE SumInv'
<1>1. pc = "sum" /\ UNCHANGED <<n, a_pairs, ndebug, countries, n_pairs, i>>
  BY DEF Moon!Return, Moon!ReadOutside, Moon!args
<1>2. i \in Nat /\ countries \in Seq(Nat) /\ Summed(countries', n_pairs', i')
  <2>1. Summed(countries', n_pairs', i') = Summed(countries, n_pairs, i)
    BY <1>1
  <2> QED
    BY <1>1, <2>1 DEF SumInv
<1>3. CASE Moon!Return
  <2>1. pc' = "done" /\ i = Moon!LastOuter /\ Moon!LastOuter' = Moon!LastOuter
    BY <1>1, <1>3 DEF Moon!Return, Moon!LastOuter
  <2> QED
    BY <1>1, <1>2, <2>1, SumGoes
<1>4. CASE Moon!ReadOutside
  <2>1. pc' = "undefined" /\ i < Moon!LastOuter /\ ~ndebug /\ i >= Len(countries)
    BY <1>4 DEF Moon!ReadOutside
  <2>2. n = 0
    <3>1. Len(countries) \in Nat
      BY <1>2
    <3>2. n # 0 => Moon!LastOuter = Len(countries) - 1
      BY <1>1, OuterEnds
    <3> QED
      BY <1>2, <2>1, <3>1, <3>2
  <2> QED
    BY <1>1, <1>2, <2>1, <2>2, SumGoes
<1> QED
  BY <1>3, <1>4

LEMMA SumNext == ASSUME MoonInv, SumInv, Moon!Next PROVE SumInv'
<1>1. CASE Moon!Finished
  BY <1>1, SumStutter DEF Moon!Finished, Moon!vars, Moon!args
<1> QED
  BY <1>1, BeforeSum, SumStarts, SumStep, SumEnds DEF Moon!Next

Strangers == { p \in Astronauts \X Astronauts : p[1] < p[2] /\ p[2] \notin Country(p[1]) }

Turned(p) == <<p[2], p[1]>>

\* Two astronauts of different countries are chosen once, in one order or the
\* other.
LEMMA ChosenOnce ==
    ASSUME MoonArgs, NEW cs \in Seq(Nat), NEW f, Sizes(cs, f), NEW m \in Nat,
           n # 0 => m = Len(cs) - 1, n = 0 => Len(cs) = 0
    PROVE  Cardinality(Chosen(f, Len(cs), m)) = Cardinality(Strangers)
<1> DEFINE d == Len(cs)
<1> DEFINE all == Chosen(f, d, m)
<1> DEFINE g == [p \in all |-> IF p[1] < p[2] THEN p ELSE Turned(p)]
<1>1. /\ \A k \in 1..d : f[k] \in SUBSET Astronauts /\ \A x \in f[k] : Country(x) = f[k]
      /\ \A j, k \in 1..d : j # k => f[j] \cap f[k] = {}
      /\ \A x \in Astronauts : \E k \in 1..d : x \in f[k]
  BY SizesApart
<1>2. d \in Nat /\ n \in Nat /\ IsFiniteSet(Astronauts) /\ Astronauts \subseteq Nat
  <2>1. Astronauts \subseteq Nat
    BY DEF Astronauts, Moon!Nodes
  <2> QED
    BY <2>1, MoonSize
<1>3. \A a, b \in 1..d : a < b => a \in 1..m
  BY <1>2
<1> HIDE DEF d
<1>4. \A a \in 1..m : a \in Nat /\ a >= 1
  OBVIOUS
<1>5. ASSUME NEW x \in Astronauts, NEW y \in Astronauts
      PROVE  <<x, y>> \in all <=> \E a \in 1..d, b \in 1..d : a < b /\ x \in f[a] /\ y \in f[b]
  <2>1. \A a \in 1..m, b \in 1..d : a < b => a \in 1..d
    BY <1>2, <1>4
  <2> QED
    BY <1>3, <2>1 DEF Chosen, d
<1> HIDE DEF all
<1>6. all \subseteq Astronauts \X Astronauts
  BY DEF all, Chosen
<1>7. ASSUME NEW x \in Astronauts, NEW y \in Astronauts, <<x, y>> \in all
      PROVE  /\ x \in Nat /\ y \in Nat /\ x # y /\ <<y, x>> \notin all
             /\ y \notin Country(x) /\ x \notin Country(y)
  <2>1. PICK a \in 1..d, b \in 1..d : a < b /\ x \in f[a] /\ y \in f[b]
    BY <1>5, <1>7
  <2>2. a \in Int /\ b \in Int /\ a # b /\ f[a] \cap f[b] = {} /\ Country(x) = f[a] /\ Country(y) = f[b]
    BY <1>1, <1>2, <2>1
  <2>3. <<y, x>> \notin all
    <3> SUFFICES ASSUME <<y, x>> \in all PROVE FALSE
      OBVIOUS
    <3>1. PICK j \in 1..d, k \in 1..d : j < k /\ y \in f[j] /\ x \in f[k]
      BY <1>5
    <3>2. j = b /\ k = a
      BY <1>1, <2>1, <3>1
    <3>3. j \in Int /\ k \in Int
      OBVIOUS
    <3> QED
      BY <2>1, <2>2, <3>1, <3>2, <3>3
  <2> QED
    BY <1>2, <2>1, <2>2, <2>3
<1>8. ASSUME NEW x \in Astronauts, NEW y \in Astronauts, y \notin Country(x)
      PROVE  <<x, y>> \in all \/ <<y, x>> \in all
  <2>1. PICK a \in 1..d, b \in 1..d : x \in f[a] /\ y \in f[b]
    BY <1>1
  <2>2. a # b /\ a \in Int /\ b \in Int
    BY <1>1, <1>8, <2>1
  <2>3. a < b \/ b < a
    BY <2>2
  <2> QED
    BY <1>5, <2>1, <2>3
<1>9. \A p \in all : \E x \in Astronauts, y \in Astronauts : p = <<x, y>> /\ p[1] = x /\ p[2] = y /\ Turned(p) = <<y, x>>
  <2> SUFFICES ASSUME NEW p \in all
               PROVE  \E x \in Astronauts, y \in Astronauts : p = <<x, y>> /\ p[1] = x /\ p[2] = y /\ Turned(p) = <<y, x>>
    OBVIOUS
  <2>1. PICK x \in Astronauts, y \in Astronauts : p = <<x, y>>
    BY <1>6
  <2> QED
    BY <2>1 DEF Turned
<1>10. \A x, y \in Astronauts : <<x, y>> \in Strangers <=> x < y /\ y \notin Country(x)
  BY DEF Strangers
<1>11. ASSUME NEW p \in all PROVE g[p] \in Strangers
  <2>1. PICK x \in Astronauts, y \in Astronauts : p = <<x, y>> /\ p[1] = x /\ p[2] = y /\ Turned(p) = <<y, x>>
    BY <1>9
  <2>2. x \in Nat /\ y \in Nat /\ x # y /\ y \notin Country(x) /\ x \notin Country(y)
    BY <1>7, <2>1
  <2>3. g[p] = IF x < y THEN <<x, y>> ELSE <<y, x>>
    BY <2>1
  <2> HIDE DEF g
  <2> QED
    BY <1>10, <2>2, <2>3
<1>12. ASSUME NEW p \in all, NEW q \in all, g[p] = g[q] PROVE p = q
  <2>1. PICK x \in Astronauts, y \in Astronauts : p = <<x, y>> /\ p[1] = x /\ p[2] = y /\ Turned(p) = <<y, x>>
    BY <1>9
  <2>2. PICK z \in Astronauts, w \in Astronauts : q = <<z, w>> /\ q[1] = z /\ q[2] = w /\ Turned(q) = <<w, z>>
    BY <1>9
  <2>3. (g[p] = <<x, y>> \/ g[p] = <<y, x>>) /\ (g[q] = <<z, w>> \/ g[q] = <<w, z>>)
    BY <2>1, <2>2
  <2> HIDE DEF g
  <2>4. <<y, x>> \notin all /\ <<w, z>> \notin all
    BY <1>7, <2>1, <2>2
  <2>5. (x = z /\ y = w) \/ (x = w /\ y = z)
    <3>1. \A a, b, c, e : <<a, b>> = <<c, e>> => a = c /\ b = e
      OBVIOUS
    <3> QED
      BY <1>12, <2>3, <3>1
  <2> QED
    BY <2>1, <2>2, <2>4, <2>5
<1>13. ASSUME NEW s \in Strangers PROVE \E p \in all : g[p] = s
  <2>1. PICK x \in Astronauts, y \in Astronauts : s = <<x, y>>
    BY DEF Strangers
  <2>2. x < y /\ y \notin Country(x) /\ x \in Nat /\ y \in Nat
    BY <1>2, <1>10, <2>1
  <2>3. CASE <<x, y>> \in all
    <3>1. g[<<x, y>>] = <<x, y>>
      BY <2>2, <2>3
    <3> QED
      BY <2>1, <2>3, <3>1
  <2>4. CASE <<y, x>> \in all
    <3>1. g[<<y, x>>] = <<x, y>>
      BY <2>2, <2>4 DEF Turned
    <3> QED
      BY <2>1, <2>4, <3>1
  <2> QED
    BY <1>8, <2>2, <2>3, <2>4
<1>14. g \in Bijection(all, Strangers)
  <2>1. g \in [all -> Strangers]
    <3>1. \A p \in all : g[p] \in Strangers
      BY <1>11
    <3>2. g = [p \in all |-> g[p]]
      OBVIOUS
    <3> HIDE DEF g
    <3> QED
      BY <3>1, <3>2
  <2> HIDE DEF g
  <2> QED
    BY <1>12, <1>13, <2>1 DEF Bijection, Injection, IsInjective, Surjection
<1> HIDE DEF g
<1>15. IsFiniteSet(all)
  BY <1>2, <1>6, FS_Product, FS_Subset
<1>16. Cardinality(all) = Cardinality(Strangers)
  BY <1>14, <1>15, FS_Bijection, Zenon DEF ExistsBijection
<1> QED
  BY <1>16 DEF all, d

LEMMA MoonCounts == ASSUME MoonInv, SumInv PROVE Moon!ResultIsPairCount
<1>1. Moon!Cardinality({ p \in Moon!Nodes \X Moon!Nodes : p[1] < p[2] /\ p[2] \notin Moon!CountryOf(p[1]) })
        = Cardinality(Strangers)
  <2>1. \A x : Moon!CountryOf(x) = Country(x)
    BY SameComponent DEF Moon!CountryOf, Country, Astronauts, Linked
  <2>2. { p \in Moon!Nodes \X Moon!Nodes : p[1] < p[2] /\ p[2] \notin Moon!CountryOf(p[1]) } = Strangers
    BY <2>1 DEF Strangers, Astronauts
  <2> QED
    BY <2>2, SameCardinality
<1>2. ASSUME pc = "done" PROVE n_pairs = Cardinality(Strangers)
  <2>1. /\ MoonArgs /\ countries \in Seq(Nat) /\ i \in Nat /\ i = Moon!LastOuter
        /\ Summed(countries, n_pairs, i)
    BY <1>2 DEF MoonInv, SumInv
  <2>2. PICK f : Sizes(countries, f) /\ n_pairs = Cardinality(Chosen(f, Len(countries), i))
    BY <2>1 DEF Summed
  <2>3. (n # 0 => i = Len(countries) - 1) /\ (n = 0 => Len(countries) = 0)
    BY <1>2, <2>1, OuterEnds
  <2> QED
    BY <2>1, <2>2, <2>3, ChosenOnce
<1>3. pc = "undefined" => n = 0 /\ ~ndebug
  BY DEF SumInv
<1> QED
  BY <1>1, <1>2, <1>3 DEF Moon!ResultIsPairCount

\* journey_to_moon.cc: the sum of the products is the number of pairs of
\* astronauts that are not compatriots, no product and no index having wrapped,
\* and the vector of countries is left only by a debug build without astronaut.
THEOREM PairsRight == Spec => []ResultIsPairCount
<1> DEFINE Inv == program \in {"roads", "moon"} /\ (program = "moon" => MoonInv /\ SumInv)
<1>1. Init => Inv
  BY OneStarts, MoonInit, SumInit DEF Init
<1>2. Inv /\ [Next]_vars => Inv'
  <2> SUFFICES ASSUME Inv, [Next]_vars PROVE Inv'
    OBVIOUS
  <2>1. program' = program /\ (program = "moon" => Moon!Next \/ UNCHANGED Moon!vars)
    BY OneRuns
  <2>2. program = "moon" => MoonInv' /\ SumInv'
    <3>1. UNCHANGED Moon!vars => UNCHANGED <<n, a_pairs, ndebug, countries, n_pairs, i, pc>>
      BY DEF Moon!vars, Moon!args
    <3> QED
      BY <2>1, <3>1, MoonNext, MoonStutter, SumNext, SumStutter
  <2> QED
    BY <2>1, <2>2
<1>3. Inv => ResultIsPairCount
  BY MoonCounts DEF ResultIsPairCount
<1> QED
  BY <1>1, <1>2, <1>3, PTL DEF Spec

----------------------------------------------------------------------------
\* The queue of journey_to_moon.

\* A sum of bounds on the sizes of sets bounds the size of their union.
LEMMA SumCovers ==
    ASSUME NEW f, IsFiniteSet(DOMAIN f), NEW C,
           \A k \in DOMAIN f : f[k] \in Nat /\ IsFiniteSet(C[k]) /\ Cardinality(C[k]) <= f[k]
    PROVE  /\ Moon!SumFunction(f) \in Nat
           /\ IsFiniteSet(Union(C, DOMAIN f)) /\ Cardinality(Union(C, DOMAIN f)) <= Moon!SumFunction(f)
<1> DEFINE S == DOMAIN f
<1> DEFINE D == [k \in S |-> {k} \X (1..f[k])]
<1> DEFINE W == UNION { D[k] : k \in S }
<1>1. \A k \in S : IsFiniteSet(D[k]) /\ Cardinality(D[k]) = f[k]
  <2> SUFFICES ASSUME NEW k \in S PROVE IsFiniteSet(D[k]) /\ Cardinality(D[k]) = f[k]
    OBVIOUS
  <2>1. IsFiniteSet({k}) /\ Cardinality({k}) = 1 /\ IsFiniteSet(1..f[k]) /\ Cardinality(1..f[k]) = f[k]
    BY FS_Singleton, Counting
  <2>2. IsFiniteSet({k} \X (1..f[k])) /\ Cardinality({k} \X (1..f[k])) = 1 * f[k]
    BY <2>1, FS_Product
  <2>3. 1 * f[k] = f[k] /\ D[k] = {k} \X (1..f[k])
    OBVIOUS
  <2> QED
    BY <2>2, <2>3
<1>2. IsFiniteSet(W)
  <2> DEFINE T == { D[k] : k \in S }
  <2> DEFINE g == [k \in S |-> D[k]]
  <2>1. g \in Surjection(S, T)
    BY DEF Surjection
  <2>2. \A t \in T : IsFiniteSet(t)
    BY <1>1
  <2> HIDE DEF T, g, D
  <2>3. IsFiniteSet(T)
    BY <2>1, FS_Surjection
  <2>4. IsFiniteSet(UNION T)
    BY <2>2, <2>3, FS_UNION
  <2> QED
    BY <2>4 DEF T
<1>3. \A j, k \in S : j # k => D[j] \cap D[k] = {}
  OBVIOUS
<1>4. \A k \in S : D[k] \in SUBSET W
  OBVIOUS
<1> HIDE DEF D, W
<1>5. Moon!SumFunction(f) = Cardinality(Union(D, S))
  <2>1. \A k \in DOMAIN f : D[k] \in SUBSET W /\ f[k] = Cardinality(D[k])
    BY <1>1, <1>4
  <2> QED
    BY <1>2, <1>3, <2>1, SumIsUnion
<1>6. \A U \in SUBSET S : IsFiniteSet(Union(D, U)) /\ Cardinality(Union(D, U)) \in Nat
  <2> SUFFICES ASSUME NEW U \in SUBSET S PROVE IsFiniteSet(Union(D, U)) /\ Cardinality(Union(D, U)) \in Nat
    OBVIOUS
  <2>1. Union(D, U) \in SUBSET W
    BY <1>4 DEF Union
  <2> QED
    BY <1>2, <2>1, FS_Subset, FS_CardinalityType
<1> DEFINE P == { U \in SUBSET S : IsFiniteSet(Union(C, U)) /\ Cardinality(Union(C, U)) <= Cardinality(Union(D, U)) }
<1>7. {} \in P
  <2>1. Union(C, {}) = {} /\ Union(D, {}) = {} /\ {} \in SUBSET S
    BY DEF Union
  <2>2. Cardinality({}) = 0 /\ IsFiniteSet({}) /\ 0 <= 0
    BY FS_EmptySet
  <2> QED
    BY <2>1, <2>2
<1>8. ASSUME NEW U \in SUBSET S, NEW x \in S, U \in P, x \notin U PROVE U \cup {x} \in P
  <2> DEFINE V == U \cup {x}
  <2>1. Union(C, V) = Union(C, U) \cup C[x] /\ Union(D, V) = Union(D, U) \cup D[x]
    BY DEF Union
  <2>2. Union(D, U) \cap D[x] = {}
    BY <1>3, <1>8 DEF Union
  <2>3. /\ IsFiniteSet(Union(C, U)) /\ Cardinality(Union(C, U)) <= Cardinality(Union(D, U))
        /\ IsFiniteSet(C[x]) /\ Cardinality(C[x]) <= f[x] /\ f[x] \in Nat
        /\ IsFiniteSet(Union(D, U)) /\ IsFiniteSet(D[x]) /\ Cardinality(D[x]) = f[x] /\ V \in SUBSET S
    BY <1>1, <1>6, <1>8
  <2> HIDE DEF V, P
  <2>4. /\ Cardinality(Union(D, V)) = Cardinality(Union(D, U)) + f[x] - Cardinality(Union(D, U) \cap D[x])
        /\ Cardinality(Union(D, U) \cap D[x]) = 0
    BY <2>1, <2>2, <2>3, FS_Union, FS_EmptySet
  <2>5. /\ IsFiniteSet(Union(C, V))
        /\ Cardinality(Union(C, V)) = Cardinality(Union(C, U)) + Cardinality(C[x]) - Cardinality(Union(C, U) \cap C[x])
    BY <2>1, <2>3, FS_Union
  <2>6. Cardinality(Union(C, U) \cap C[x]) \in Nat
    BY <2>3, FS_Intersection, FS_CardinalityType
  <2>7. Cardinality(Union(C, U)) \in Nat /\ Cardinality(Union(D, U)) \in Nat /\ Cardinality(C[x]) \in Nat
    BY <2>3, FS_CardinalityType
  <2>8. Cardinality(Union(C, V)) <= Cardinality(Union(D, V))
    BY <2>3, <2>4, <2>5, <2>6, <2>7
  <2> QED
    BY <2>3, <2>5, <2>8 DEF P, V
<1> HIDE DEF P
<1>9. S \in P
  BY <1>7, <1>8, SetInduction
<1> QED
  BY <1>5, <1>6, <1>9 DEF P

\* The paths from s to y of SimplePaths, counted from y on: one stage of paths.
Onward(s, h) ==
    [rest \in SUBSET Astronauts |->
        [y \in Astronauts |->
            IF y = s THEN 1
            ELSE Moon!SumFunction([z \in Moon!NeighborsOf(edges, y) \cap rest |-> h[rest \ {z}][z]])]]

LEMMA OnwardIsTable ==
    ASSUME NEW s, NEW h
    PROVE  Onward(s, h) = [rest \in SUBSET Astronauts |-> Onward(s, h)[rest]]
<1> DEFINE stage(rest) ==
      [y \in Astronauts |->
          IF y = s THEN 1
          ELSE Moon!SumFunction([z \in Moon!NeighborsOf(edges, y) \cap rest |-> h[rest \ {z}][z]])]
<1>1. Onward(s, h) = [rest \in SUBSET Astronauts |-> stage(rest)]
  BY DEF Onward
<1> HIDE DEF stage
<1> QED
  BY <1>1

\* What a stage says of rest depends on the sets with one element less.
LEMMA OnwardLooks ==
    ASSUME NEW s, NEW g, NEW h, NEW rest \in SUBSET Astronauts,
           \A z \in rest : g[rest \ {z}] = h[rest \ {z}]
    PROVE  Onward(s, g)[rest] = Onward(s, h)[rest]
<1>1. ASSUME NEW y
      PROVE  [z \in Moon!NeighborsOf(edges, y) \cap rest |-> g[rest \ {z}][z]]
                = [z \in Moon!NeighborsOf(edges, y) \cap rest |-> h[rest \ {z}][z]]
  OBVIOUS
<1>2. [y \in Astronauts |->
          IF y = s THEN 1
          ELSE Moon!SumFunction([z \in Moon!NeighborsOf(edges, y) \cap rest |-> g[rest \ {z}][z]])]
      = [y \in Astronauts |->
          IF y = s THEN 1
          ELSE Moon!SumFunction([z \in Moon!NeighborsOf(edges, y) \cap rest |-> h[rest \ {z}][z]])]
  BY <1>1
<1> QED
  BY <1>2 DEF Onward

\* The recursion has a solution: stage after stage, for sets with more elements.
LEMMA OnwardEnds ==
    ASSUME MoonArgs, NEW s
    PROVE  \E h : h = Onward(s, h)
<1> DEFINE Good(h, m) ==
      /\ h = [rest \in SUBSET Astronauts |-> h[rest]]
      /\ \A rest \in SUBSET Astronauts : Cardinality(rest) < m => h[rest] = Onward(s, h)[rest]
<1> DEFINE T == { m \in Nat : \E h : Good(h, m) }
<1>1. \A rest \in SUBSET Astronauts : IsFiniteSet(rest) /\ Cardinality(rest) \in Nat /\ Cardinality(rest) <= n
  BY MoonSize, FS_Subset, FS_CardinalityType
<1>2. 0 \in T
  <2> DEFINE h == [rest \in SUBSET Astronauts |-> 0]
  <2>1. h = [rest \in SUBSET Astronauts |-> h[rest]]
    OBVIOUS
  <2>2. \A rest \in SUBSET Astronauts : ~(Cardinality(rest) < 0)
    BY <1>1
  <2> HIDE DEF h
  <2>3. Good(h, 0)
    BY <2>1, <2>2
  <2> QED
    BY <2>3
<1>3. ASSUME NEW m \in Nat, m \in T PROVE m + 1 \in T
  <2>1. PICK h : Good(h, m)
    BY <1>3
  <2> DEFINE g == Onward(s, h)
  <2>2. g = [rest \in SUBSET Astronauts |-> g[rest]]
    BY OnwardIsTable
  <2> HIDE DEF g
  <2>3. ASSUME NEW rest \in SUBSET Astronauts, Cardinality(rest) < m + 1
        PROVE  g[rest] = Onward(s, g)[rest]
    <3>1. ASSUME NEW z \in rest PROVE h[rest \ {z}] = g[rest \ {z}]
      <4>1. Cardinality(rest \ {z}) = Cardinality(rest) - 1 /\ rest \ {z} \in SUBSET Astronauts
        BY <1>1, FS_RemoveElement
      <4>2. Cardinality(rest \ {z}) < m
        BY <1>1, <2>3, <4>1
      <4> QED
        BY <2>1, <4>1, <4>2 DEF g
    <3>2. Onward(s, h)[rest] = Onward(s, g)[rest]
      BY <3>1, OnwardLooks
    <3> QED
      BY <3>2 DEF g
  <2>4. \E e : Good(e, m + 1)
    BY <2>2, <2>3
  <2> HIDE DEF Good
  <2> QED
    BY <2>4
<1> HIDE DEF T
<1>4. n + 1 \in T
  <2>1. n \in Nat /\ n + 1 \in Nat
    BY DEF MoonArgs
  <2> QED
    BY <1>2, <1>3, <2>1, Induction
<1>5. PICK h : Good(h, n + 1)
  BY <1>4 DEF T
<1>6. \A rest \in SUBSET Astronauts : Cardinality(rest) < n + 1
  BY <1>1 DEF MoonArgs
<1>7. \A rest \in SUBSET Astronauts : h[rest] = Onward(s, h)[rest]
  BY <1>5, <1>6
<1> DEFINE o == Onward(s, h)
<1>8. h = [rest \in SUBSET Astronauts |-> h[rest]] /\ o = [rest \in SUBSET Astronauts |-> o[rest]]
  BY <1>5, OnwardIsTable
<1>9. \A rest \in SUBSET Astronauts : h[rest] = o[rest]
  BY <1>7
<1> HIDE DEF o, Good
<1>10. h = o
  BY <1>8, <1>9
<1> QED
  BY <1>10 DEF o

LEMMA SimplePathsAre ==
    ASSUME MoonArgs, NEW s, NEW x \in Astronauts
    PROVE  \E g : g = Onward(s, g) /\ Moon!SimplePaths(s, x) = g[Astronauts \ {x}][x]
<1> DEFINE g == CHOOSE g : g = Onward(s, g)
<1>1. \E h : h = Onward(s, h)
  BY OnwardEnds
<1>2. g = Onward(s, g)
  BY <1>1, Zenon
<1>3. Moon!SimplePaths(s, x) = g[Astronauts \ {x}][x]
  BY Zenon DEF Moon!SimplePaths, Onward, Astronauts
<1> QED
  BY <1>2, <1>3
\* The paths from s to y that meet no astronaut twice, nor leave rest before y.
Trails(s, y, rest) ==
    { p \in Seq(Astronauts) :
        /\ p # <<>> /\ p[1] = s /\ p[Len(p)] = y
        /\ \A k \in 1..(Len(p) - 1) : p[k] \in Neighbors(edges, p[k + 1]) /\ p[k] \in rest
        /\ \A j, k \in 1..Len(p) : p[j] = p[k] => j = k }

\* What the last astronaut but one of a path may add to the count.
Before(h, y, rest) == [z \in Neighbors(edges, y) \cap rest |-> h[rest \ {z}][z]]

LEMMA OnwardIs ==
    ASSUME NEW s, NEW h, h = Onward(s, h), NEW rest \in SUBSET Astronauts, NEW y \in Astronauts
    PROVE  /\ y = s => h[rest][y] = 1
           /\ y # s => h[rest][y] = Moon!SumFunction(Before(h, y, rest))
<1> DEFINE cell(r, x) ==
      IF x = s THEN 1
      ELSE Moon!SumFunction([z \in Moon!NeighborsOf(edges, x) \cap r |-> h[r \ {z}][z]])
<1>1. Onward(s, h) = [r \in SUBSET Astronauts |-> [x \in Astronauts |-> cell(r, x)]]
  BY DEF Onward
<1>2. /\ y = s => cell(rest, y) = 1
      /\ y # s => cell(rest, y) = Moon!SumFunction(Before(h, y, rest))
  BY SameNeighbors DEF Before
<1> HIDE DEF cell
<1>3. Onward(s, h)[rest][y] = cell(rest, y)
  BY <1>1
<1> QED
  BY <1>2, <1>3

\* The astronaut before the last of a path is a neighbour, and the path to it is one of those counted for it.
Longer(s, z, rest, y) == { Append(q, y) : q \in Trails(s, z, rest \ {z}) }

LEMMA TrailEnds ==
    ASSUME NEW s, NEW y \in Astronauts, NEW rest \in SUBSET Astronauts, NEW p \in Trails(s, y, rest)
    PROVE  /\ y = s => p = <<s>>
           /\ y # s => \E z \in Neighbors(edges, y) \cap rest : p \in Longer(s, z, rest, y)
<1> DEFINE d == Len(p)
<1>1. /\ p \in Seq(Astronauts) /\ p # <<>> /\ p[1] = s /\ p[d] = y
      /\ \A k \in 1..(d - 1) : p[k] \in Neighbors(edges, p[k + 1]) /\ p[k] \in rest
      /\ \A j, k \in 1..d : p[j] = p[k] => j = k
  BY DEF Trails
<1>2. d \in Nat /\ d >= 1 /\ 1 \in 1..d /\ d \in 1..d
  BY <1>1
<1> HIDE DEF d
<1>3. CASE y = s
  <2>1. d = 1
    BY <1>1, <1>2, <1>3
  <2> QED
    BY <1>1, <1>3, <2>1 DEF d
<1>4. CASE y # s
  <2>1. d # 1
    BY <1>1, <1>4
  <2> DEFINE z == p[d - 1]
  <2> DEFINE q == [k \in 1..(d - 1) |-> p[k]]
  <2>2. d - 1 \in 1..(d - 1) /\ d - 1 \in 1..d /\ (d - 1) + 1 = d
    BY <1>2, <2>1
  <2>3. z \in Neighbors(edges, y) \cap rest
    BY <1>1, <2>2
  <2>4. q \in Seq(Astronauts) /\ Len(q) = d - 1 /\ \A k \in 1..(d - 1) : q[k] = p[k]
    <3>1. d - 1 \in Nat /\ \A k \in 1..(d - 1) : k \in 1..Len(p) /\ p[k] \in Astronauts
      BY <1>1, <1>2 DEF d
    <3> QED
      BY <3>1
  <2>5. p = Append(q, y)
    <3> HIDE DEF q
    <3>1. Append(q, y) \in Seq(Astronauts) /\ Len(Append(q, y)) = d
      BY <2>2, <2>4, <1>2
    <3>2. \A k \in 1..d : p[k] = Append(q, y)[k]
      <4> SUFFICES ASSUME NEW k \in 1..d PROVE p[k] = Append(q, y)[k]
        OBVIOUS
      <4>1. k \in 1..(d - 1) \/ k = d
        BY <1>2
      <4>2. Append(q, y)[k] = IF k <= d - 1 THEN q[k] ELSE y
        BY <1>2, <2>4
      <4> QED
        BY <1>1, <1>2, <2>4, <4>1, <4>2
    <3> QED
      BY <1>1, <3>1, <3>2 DEF d
  <2>6. q \in Trails(s, z, rest \ {z})
    <3>1. q # <<>> /\ q[1] = s /\ q[Len(q)] = z
      <4>1. 1 \in 1..(d - 1)
        BY <1>2, <2>1
      <4> HIDE DEF q
      <4> QED
        BY <1>1, <1>2, <2>1, <2>2, <2>4, <4>1
    <3> HIDE DEF q
    <3>2. ASSUME NEW k \in 1..(Len(q) - 1)
          PROVE  q[k] \in Neighbors(edges, q[k + 1]) /\ q[k] \in rest \ {z}
      <4>1. k \in 1..(d - 1) /\ k + 1 \in 1..(d - 1) /\ k \in 1..d /\ k # d - 1
        BY <1>2, <2>4
      <4>2. p[k] # z
        BY <1>1, <2>2, <4>1
      <4> QED
        BY <1>1, <2>4, <4>1, <4>2
    <3>3. \A j, k \in 1..Len(q) : q[j] = q[k] => j = k
      <4>1. \A k \in 1..Len(q) : k \in 1..d /\ q[k] = p[k]
        BY <1>2, <2>4
      <4> QED
        BY <1>1, <4>1
    <3> HIDE DEF z
    <3> QED
      BY <2>4, <3>1, <3>2, <3>3 DEF Trails
  <2> QED
    BY <1>4, <2>3, <2>5, <2>6 DEF Longer
<1> QED
  BY <1>3, <1>4

\* The recursion counts the paths, one before the last astronaut after the other.
LEMMA TrailsCounted ==
    ASSUME MoonArgs, NEW s, NEW h, h = Onward(s, h)
    PROVE  \A rest \in SUBSET Astronauts, y \in Astronauts :
              /\ h[rest][y] \in Nat /\ IsFiniteSet(Trails(s, y, rest))
              /\ Cardinality(Trails(s, y, rest)) <= h[rest][y]
<1> DEFINE Within(rest, y) ==
      /\ h[rest][y] \in Nat /\ IsFiniteSet(Trails(s, y, rest))
      /\ Cardinality(Trails(s, y, rest)) <= h[rest][y]
<1> DEFINE T == { m \in Nat : \A rest \in SUBSET Astronauts, y \in Astronauts :
                                  Cardinality(rest) < m => Within(rest, y) }
<1>1. \A rest \in SUBSET Astronauts : IsFiniteSet(rest) /\ Cardinality(rest) \in Nat
  BY MoonSize, FS_Subset, FS_CardinalityType
<1>2. 0 \in T
  <2>1. \A rest \in SUBSET Astronauts : ~(Cardinality(rest) < 0)
    BY <1>1
  <2> QED
    BY <2>1
<1> HIDE DEF T, Within
<1>6. \A rest \in SUBSET Astronauts, y \in Astronauts :
          /\ y = s => h[rest][y] = 1
          /\ y # s => h[rest][y] = Moon!SumFunction(Before(h, y, rest))
  BY OnwardIs
<1>7. \A rest \in SUBSET Astronauts, y \in Astronauts : \A p \in Trails(s, y, rest) :
          /\ y = s => p = <<s>>
          /\ y # s => \E z \in Neighbors(edges, y) \cap rest : p \in Longer(s, z, rest, y)
  BY TrailEnds
<1> USE DEF T, Within
<1>3. ASSUME NEW m \in Nat, m \in T PROVE m + 1 \in T
  <2> SUFFICES ASSUME NEW rest \in SUBSET Astronauts, NEW y \in Astronauts, Cardinality(rest) < m + 1
               PROVE  Within(rest, y)
    OBVIOUS
  <2>1. CASE y = s
    <3> DEFINE one == {<<s>>}
    <3>1. Trails(s, y, rest) \in SUBSET one
      BY <2>1, <1>7
    <3>2. IsFiniteSet(one) /\ Cardinality(one) = 1
      BY FS_Singleton
    <3> HIDE DEF one
    <3>3. IsFiniteSet(Trails(s, y, rest)) /\ Cardinality(Trails(s, y, rest)) <= 1
      BY <3>1, <3>2, FS_Subset
    <3>4. h[rest][y] = 1
      BY <2>1, <1>6
    <3> QED
      BY <3>3, <3>4
  <2>2. CASE y # s
    <3> DEFINE S == Neighbors(edges, y) \cap rest
    <3> DEFINE f == Before(h, y, rest)
    <3> DEFINE before(z) == Trails(s, z, rest \ {z})
    <3> DEFINE C == [z \in S |-> Longer(s, z, rest, y)]
    <3>1. h[rest][y] = Moon!SumFunction(f)
      BY <2>2, <1>6
    <3>2. S \in SUBSET rest /\ S \subseteq Astronauts /\ IsFiniteSet(S) /\ DOMAIN f = S
      BY <1>1, FS_Subset DEF Before
    <3>3. ASSUME NEW z \in S
          PROVE  f[z] \in Nat /\ IsFiniteSet(C[z]) /\ Cardinality(C[z]) <= f[z]
      <4>1. /\ z \in Astronauts /\ rest \ {z} \in SUBSET Astronauts
            /\ Cardinality(rest \ {z}) = Cardinality(rest) - 1 /\ Cardinality(rest \ {z}) < m
        <5>1. z \in rest
          OBVIOUS
        <5>2. Cardinality(rest \ {z}) = Cardinality(rest) - 1
          BY <1>1, <5>1, FS_RemoveElement
        <5> QED
          BY <1>1, <5>1, <5>2
      <4>2. Within(rest \ {z}, z)
        BY <1>3, <4>1
      <4>3. f[z] = h[rest \ {z}][z] /\ C[z] = { Append(q, y) : q \in before(z) }
        BY DEF Before, Longer
      <4> DEFINE g == [q \in before(z) |-> Append(q, y)]
      <4>4. g \in Surjection(before(z), C[z])
        BY <4>3 DEF Surjection
      <4>5. f[z] \in Nat /\ IsFiniteSet(before(z)) /\ Cardinality(before(z)) <= f[z]
        BY <4>2, <4>3
      <4> HIDE DEF g, C, before, f, S
      <4>6. IsFiniteSet(C[z]) /\ Cardinality(C[z]) <= Cardinality(before(z))
        BY <4>4, <4>5, FS_Surjection
      <4> QED
        BY <4>5, <4>6, FS_CardinalityType
    <3>4. Trails(s, y, rest) \subseteq Union(C, S)
      <4> SUFFICES ASSUME NEW p \in Trails(s, y, rest) PROVE p \in Union(C, S)
        OBVIOUS
      <4>2. PICK z \in S : p \in Longer(s, z, rest, y)
        BY <2>2, <1>7
      <4>3. p \in C[z]
        BY <4>2
      <4> HIDE DEF C, S
      <4> QED
        BY <4>3 DEF Union
    <3> HIDE DEF C, f, S
    <3>5. /\ Moon!SumFunction(f) \in Nat
          /\ IsFiniteSet(Union(C, S)) /\ Cardinality(Union(C, S)) <= Moon!SumFunction(f)
      BY <3>2, <3>3, SumCovers
    <3>6. IsFiniteSet(Trails(s, y, rest)) /\ Cardinality(Trails(s, y, rest)) <= Cardinality(Union(C, S))
      BY <3>4, <3>5, FS_Subset
    <3> QED
      BY <3>1, <3>5, <3>6, FS_CardinalityType
  <2> QED
    BY <2>1, <2>2
<1> HIDE DEF T
<1>4. Nat \subseteq T
  BY <1>2, <1>3, Induction
<1> SUFFICES ASSUME NEW rest \in SUBSET Astronauts, NEW y \in Astronauts PROVE Within(rest, y)
  OBVIOUS
<1>5. Cardinality(rest) + 1 \in T /\ Cardinality(rest) < Cardinality(rest) + 1
  BY <1>1, <1>4
<1> HIDE DEF Within
<1> QED
  BY <1>5 DEF T

\* p is q, or q goes on from where p ends.
StartsWith(q, p) == Len(p) <= Len(q) /\ \A k \in 1..Len(p) : p[k] = q[k]

\* Every entry has come along a path of its own through visited astronauts,
\* and no path is the start of another.
CameAlong(ps, s, que, vis) ==
    /\ \A k \in 1..Len(que) : ps[k] \in Trails(s, que[k], vis)
    /\ \A j, k \in 1..Len(que) : StartsWith(ps[k], ps[j]) => j = k

QueueInv ==
    (pc = "walk" /\ queue # <<>>) =>
        \E s \in Astronauts : s \in DOMAIN edges \ unwalked /\ \E ps : CameAlong(ps, s, queue, visited)

\* A path to the head goes on to the neighbours that have not been visited.
LEMMA TrailGoesOn ==
    ASSUME NEW s \in Astronauts, NEW vis \in SUBSET Astronauts, NEW x \in Astronauts, NEW p \in Trails(s, x, vis),
           NEW y \in Astronauts, y \notin vis, y # x, x \in Neighbors(edges, y)
    PROVE  Append(p, y) \in Trails(s, y, vis \cup {x})
<1> DEFINE d == Len(p)
<1> DEFINE q == Append(p, y)
<1>1. /\ p \in Seq(Astronauts) /\ p # <<>> /\ p[1] = s /\ p[d] = x
      /\ \A k \in 1..(d - 1) : p[k] \in Neighbors(edges, p[k + 1]) /\ p[k] \in vis
      /\ \A j, k \in 1..d : p[j] = p[k] => j = k
  BY DEF Trails
<1>2. /\ d \in Nat /\ d >= 1 /\ q \in Seq(Astronauts) /\ Len(q) = d + 1 /\ q # <<>>
      /\ q[d + 1] = y /\ \A k \in 1..d : q[k] = p[k]
  BY <1>1
<1> HIDE DEF d, q
<1>3. \A k \in 1..d : p[k] \in vis \cup {x} /\ p[k] # y
  <2>1. \A k \in 1..d : k \in 1..(d - 1) \/ k = d
    BY <1>2
  <2> QED
    BY <1>1, <2>1
<1>4. ASSUME NEW k \in 1..(Len(q) - 1)
      PROVE  q[k] \in Neighbors(edges, q[k + 1]) /\ q[k] \in vis \cup {x}
  <2>1. k \in 1..d
    BY <1>2
  <2>2. CASE k = d
    BY <1>1, <1>2, <1>3, <2>1, <2>2
  <2>3. CASE k # d
    <3>1. k \in 1..(d - 1) /\ k + 1 \in 1..d
      BY <1>2, <2>1, <2>3
    <3> QED
      BY <1>1, <1>2, <1>3, <2>1, <3>1
  <2> QED
    BY <2>2, <2>3
<1>5. ASSUME NEW j \in 1..Len(q), NEW k \in 1..Len(q), q[j] = q[k] PROVE j = k
  <2>1. (j \in 1..d \/ j = d + 1) /\ (k \in 1..d \/ k = d + 1)
    BY <1>2
  <2> QED
    BY <1>1, <1>2, <1>3, <1>5, <2>1
<1>6. q[1] = s /\ q[Len(q)] = y
  BY <1>1, <1>2
<1>7. q \in Trails(s, y, vis \cup {x})
  BY <1>2, <1>4, <1>5, <1>6 DEF Trails
<1> QED
  BY <1>7 DEF q

LEMMA TrailsGrow ==
    ASSUME NEW s, NEW y, NEW vis, NEW more, NEW p \in Trails(s, y, vis)
    PROVE  p \in Trails(s, y, vis \cup more)
BY DEF Trails

\* A path that is not the start of q, nor q of it, stays so when it goes on.
LEMMA StaysApart ==
    ASSUME NEW S, NEW p \in Seq(S), NEW q \in Seq(S), NEW y \in S,
           ~StartsWith(p, q), ~StartsWith(q, p)
    PROVE  ~StartsWith(Append(p, y), q) /\ ~StartsWith(q, Append(p, y))
<1> DEFINE r == Append(p, y)
<1>1. /\ Len(p) \in Nat /\ Len(q) \in Nat /\ Len(r) = Len(p) + 1
      /\ \A k \in 1..Len(p) : k \in 1..Len(r) /\ r[k] = p[k]
  OBVIOUS
<1> HIDE DEF r
<1>2. ASSUME StartsWith(q, r) PROVE FALSE
  <2>1. Len(p) <= Len(q) /\ \A k \in 1..Len(p) : p[k] = q[k]
    BY <1>1, <1>2 DEF StartsWith
  <2> QED
    BY <2>1 DEF StartsWith
<1>3. ASSUME StartsWith(r, q) PROVE FALSE
  <2>1. CASE Len(q) <= Len(p)
    <3>1. \A k \in 1..Len(q) : k \in 1..Len(p) /\ q[k] = p[k]
      BY <1>1, <1>3, <2>1 DEF StartsWith
    <3> QED
      BY <2>1, <3>1 DEF StartsWith
  <2>2. CASE Len(q) > Len(p)
    <3>1. Len(p) <= Len(q) /\ \A k \in 1..Len(p) : k \in 1..Len(q) /\ p[k] = q[k]
      BY <1>1, <1>3, <2>2 DEF StartsWith
    <3> QED
      BY <3>1 DEF StartsWith
  <2> QED
    BY <1>1, <2>1, <2>2
<1> QED
  BY <1>2, <1>3 DEF r

\* The paths of the queue once the head has left it and its neighbours w are behind.
LEMMA QueueGoesOn ==
    ASSUME NEW s \in Astronauts, NEW vis \in SUBSET Astronauts, NEW que \in Seq(Astronauts), que # <<>>,
           NEW ps, CameAlong(ps, s, que, vis), NEW w \in Seq(Astronauts),
           \A k \in 1..Len(w) : w[k] \notin vis \cup {Head(que)} /\ Head(que) \in Neighbors(edges, w[k]),
           \A j, k \in 1..Len(w) : w[j] = w[k] => j = k
    PROVE  \E qs : CameAlong(qs, s, Tail(que) \o w, vis \cup {Head(que)})
<1> DEFINE l == Len(que) - 1
<1> DEFINE m == Len(w)
<1> DEFINE new == Tail(que) \o w
<1> DEFINE cur == Head(que)
<1> DEFINE ext(k) == Append(ps[1], w[k])
<1> DEFINE qs == [k \in 1..(l + m) |-> IF k <= l THEN ps[k + 1] ELSE ext(k - l)]
<1>1. /\ l \in Nat /\ m \in Nat /\ Len(new) = l + m /\ cur = que[1] /\ cur \in Astronauts /\ 1..Len(que) = 1..(l + 1)
      /\ \A k \in 1..(l + m) : new[k] = IF k <= l THEN que[k + 1] ELSE w[k - l]
  <2>1. Tail(que) \in Seq(Astronauts) /\ Len(Tail(que)) = l /\ l \in Nat
        /\ \A k \in 1..l : Tail(que)[k] = que[k + 1]
    OBVIOUS
  <2>2. m \in Nat /\ Len(new) = l + m /\ \A k \in 1..(l + m) : new[k] = IF k <= l THEN Tail(que)[k] ELSE w[k - l]
    BY <2>1
  <2>3. cur = que[1] /\ cur \in Astronauts /\ 1..Len(que) = 1..(l + 1)
    BY <2>1
  <2> HIDE DEF l, m, new, cur
  <2>4. \A k \in 1..(l + m) : k <= l => k \in 1..l
    BY <2>1, <2>2
  <2> QED
    BY <2>1, <2>2, <2>3, <2>4
<1>2. \A k \in 1..(l + m) : \/ k <= l /\ k + 1 \in 1..(l + 1) /\ k + 1 # 1
                            \/ ~(k <= l) /\ k - l \in 1..m
  BY <1>1
<1>3. /\ \A k \in 1..(l + 1) : ps[k] \in Trails(s, que[k], vis)
      /\ \A j, k \in 1..(l + 1) : StartsWith(ps[k], ps[j]) => j = k
  BY <1>1 DEF CameAlong
<1>4. /\ \A k \in 1..m : w[k] \in Astronauts /\ w[k] \notin vis /\ w[k] # cur /\ cur \in Neighbors(edges, w[k])
      /\ \A j, k \in 1..m : w[j] = w[k] => j = k
  OBVIOUS
<1>5. \A k \in 1..(l + 1) : ps[k] \in Seq(Astronauts)
  BY <1>3 DEF Trails
<1>6. 1 \in 1..(l + 1)
  BY <1>1
<1>7. \A k \in 1..(l + m) : qs[k] = IF k <= l THEN ps[k + 1] ELSE ext(k - l)
  OBVIOUS
<1> HIDE DEF qs, new, cur, l, m
<1>8. \A k \in 1..m : ext(k) \in Trails(s, w[k], vis \cup {cur})
  <2> SUFFICES ASSUME NEW k \in 1..m PROVE ext(k) \in Trails(s, w[k], vis \cup {cur})
    OBVIOUS
  <2> DEFINE y == w[k]
  <2> DEFINE p == ps[1]
  <2>1. p \in Trails(s, cur, vis) /\ y \in Astronauts /\ y \notin vis /\ y # cur /\ cur \in Neighbors(edges, y)
    BY <1>1, <1>3, <1>4, <1>6
  <2> HIDE DEF y, p
  <2>2. Append(p, y) \in Trails(s, y, vis \cup {cur})
    BY <1>1, <2>1, TrailGoesOn
  <2> QED
    BY <2>2 DEF y, p
<1>9. ASSUME NEW k \in 1..(l + m) PROVE qs[k] \in Trails(s, new[k], vis \cup {cur})
  <2>1. CASE k <= l
    <3>1. ps[k + 1] \in Trails(s, new[k], vis)
      BY <1>1, <1>2, <1>3, <2>1
    <3> QED
      BY <1>7, <2>1, <3>1, TrailsGrow
  <2>2. CASE ~(k <= l)
    BY <1>1, <1>2, <1>7, <1>8, <2>2
  <2> QED
    BY <2>1, <2>2
<1>10. \A j \in 1..(l + 1), k \in 1..m : j # 1 => ~StartsWith(ps[j], ext(k)) /\ ~StartsWith(ext(k), ps[j])
  <2> SUFFICES ASSUME NEW j \in 1..(l + 1), NEW k \in 1..m, j # 1
               PROVE  ~StartsWith(ps[j], ext(k)) /\ ~StartsWith(ext(k), ps[j])
    OBVIOUS
  <2> DEFINE p == ps[1]
  <2> DEFINE q == ps[j]
  <2>1. p \in Seq(Astronauts) /\ q \in Seq(Astronauts) /\ w[k] \in Astronauts /\ ~StartsWith(p, q) /\ ~StartsWith(q, p)
    BY <1>3, <1>4, <1>5, <1>6
  <2> HIDE DEF p, q
  <2>2. ~StartsWith(Append(p, w[k]), q) /\ ~StartsWith(q, Append(p, w[k]))
    BY <2>1, StaysApart
  <2> QED
    BY <2>2 DEF p, q
<1>11. \A j, k \in 1..m : StartsWith(ext(k), ext(j)) => j = k
  <2> SUFFICES ASSUME NEW j \in 1..m, NEW k \in 1..m, StartsWith(ext(k), ext(j)) PROVE j = k
    OBVIOUS
  <2> DEFINE p == ps[1]
  <2>1. p \in Seq(Astronauts) /\ w[j] \in Astronauts /\ w[k] \in Astronauts
    BY <1>4, <1>5, <1>6
  <2>2. StartsWith(Append(p, w[k]), Append(p, w[j]))
    OBVIOUS
  <2> HIDE DEF p
  <2>3. /\ Len(Append(p, w[j])) = Len(p) + 1 /\ Len(p) + 1 \in 1..(Len(p) + 1)
        /\ Append(p, w[j])[Len(p) + 1] = w[j] /\ Append(p, w[k])[Len(p) + 1] = w[k]
    BY <2>1
  <2>4. w[j] = w[k]
    BY <2>2, <2>3 DEF StartsWith
  <2> QED
    BY <1>4, <2>4
<1> HIDE DEF ext
<1>12. ASSUME NEW j \in 1..(l + m), NEW k \in 1..(l + m), StartsWith(qs[k], qs[j]) PROVE j = k
  <2>1. CASE j <= l /\ k <= l
    <3>1. j + 1 = k + 1
      BY <1>2, <1>3, <1>7, <1>12, <2>1
    <3> QED
      BY <1>1, <3>1
  <2>2. CASE j <= l /\ ~(k <= l)
    BY <1>2, <1>7, <1>10, <1>12, <2>2
  <2>3. CASE ~(j <= l) /\ k <= l
    BY <1>2, <1>7, <1>10, <1>12, <2>3
  <2>4. CASE ~(j <= l) /\ ~(k <= l)
    <3>1. j - l = k - l
      BY <1>2, <1>7, <1>11, <1>12, <2>4
    <3> QED
      BY <1>1, <3>1
  <2> QED
    BY <2>1, <2>2, <2>3, <2>4
<1>13. CameAlong(qs, s, new, vis \cup {cur})
  BY <1>1, <1>9, <1>12 DEF CameAlong
<1> QED
  BY <1>13 DEF new, cur

LEMMA TrailsStay ==
    ASSUME UNCHANGED <<n, edges>>
    PROVE  \A ps, s, que, vis : CameAlong(ps, s, que, vis)' = CameAlong(ps, s, que, vis)
<1>1. Astronauts' = Astronauts /\ \A x : Neighbors(edges, x)' = Neighbors(edges, x)
  BY DEF Astronauts, Moon!Nodes, Neighbors
<1>2. \A s, y, rest : Trails(s, y, rest)' = Trails(s, y, rest)
  BY <1>1 DEF Trails
<1>3. \A p, q : StartsWith(p, q)' = StartsWith(p, q)
  BY DEF StartsWith
<1> QED
  BY <1>2, <1>3 DEF CameAlong

LEMMA QueueStays ==
    ASSUME QueueInv, UNCHANGED <<n, edges, queue, visited, unwalked, pc>>
    PROVE  QueueInv'
<1>1. Astronauts' = Astronauts
  BY DEF Astronauts, Moon!Nodes
<1>2. \A ps, s : CameAlong(ps, s, queue, visited)' = CameAlong(ps, s, queue, visited)
  BY TrailsStay
<1> QED
  BY <1>1, <1>2 DEF QueueInv

LEMMA QueueEmpty == ASSUME pc' # "walk" \/ queue' = <<>> PROVE QueueInv'
BY DEF QueueInv

LEMMA QueueStarts == ASSUME MoonInv, Moon!NewCountry PROVE QueueInv'
<1>1. pc = "walk" /\ UNCHANGED <<n, edges, visited, pc>>
  BY DEF Moon!NewCountry, Moon!args
<1>2. PICK s \in unwalked : queue' = <<s>> /\ unwalked' = unwalked \ {s}
  BY DEF Moon!NewCountry
<1>3. s \in Astronauts /\ s \in DOMAIN edges
  BY <1>1, WalkNow
<1> DEFINE ps == <<<<s>>>>
<1>4. ps[1] = <<s>> /\ <<s>> \in Seq(Astronauts) /\ Len(<<s>>) = 1 /\ <<s>>[1] = s /\ <<s>> # <<>>
  BY <1>3
<1> HIDE DEF ps
<1>5. <<s>> \in Trails(s, s, visited)
  BY <1>4 DEF Trails
<1>6. CameAlong(ps, s, <<s>>, visited)
  BY <1>4, <1>5 DEF CameAlong
<1>7. CameAlong(ps, s, queue, visited)'
  <2>1. CameAlong(ps, s, queue', visited')
    BY <1>1, <1>2, <1>6
  <2> QED
    BY <1>1, <2>1, TrailsStay
<1>8. s \in Astronauts' /\ s \in (DOMAIN edges \ unwalked)'
  BY <1>1, <1>2, <1>3 DEF Astronauts, Moon!Nodes
<1> QED
  BY <1>7, <1>8 DEF QueueInv

LEMMA QueueSearches == ASSUME MoonInv, QueueInv, Moon!Search PROVE QueueInv'
<1> DEFINE cur == Head(queue)
<1> DEFINE vis == visited \cup {cur}
<1> DEFINE next == Neighbors(edges, cur) \ vis
<1>1. pc = "walk" /\ queue # <<>> /\ visited' = vis /\ UNCHANGED <<n, edges, unwalked, pc>>
  BY DEF Moon!Search, Moon!args
<1>2. PICK w \in Moon!Walks(Moon!NeighborsOf(edges, cur) \ vis) : queue' = Tail(queue) \o w
  BY DEF Moon!Search
<1>3. /\ MoonArgs /\ PairsFilled /\ filled = Len(a_pairs) /\ visited \subseteq Astronauts
      /\ queue \in Seq(Astronauts)
  BY <1>1, WalkNow
<1>4. cur \in Astronauts
  BY <1>1, <1>3, ListPopped
<1>5. \A y \in next : y \in Astronauts /\ y \notin vis /\ cur \in Neighbors(edges, y)
  <2> SUFFICES ASSUME NEW y \in next PROVE y \in Astronauts /\ y \notin vis /\ cur \in Neighbors(edges, y)
    OBVIOUS
  <2> HIDE DEF cur
  <2>1. y \in Astronauts /\ \E k \in 1..filled : PairOf(k) = {cur, y}
    BY <1>3, NeighborsLinked DEF PairsFilled
  <2>2. {cur, y} = {y, cur}
    OBVIOUS
  <2> QED
    BY <1>3, <2>1, <2>2 DEF PairsFilled
<1>6. IsFiniteSet(next)
  <2>1. next \in SUBSET Astronauts /\ IsFiniteSet(Astronauts)
    BY <1>3, <1>5, MoonFinite
  <2> HIDE DEF next
  <2> QED
    BY <2>1, FS_Subset
<1>7. w \in Moon!Walks(next)
  BY <1>2, SameNeighbors
<1> HIDE DEF next
<1>8. /\ w \in Seq(next) /\ { w[k] : k \in 1..Len(w) } = next
      /\ \A j, k \in 1..Len(w) : w[j] = w[k] => j = k
  BY <1>6, <1>7, WalkLists
<1>9. /\ w \in Seq(Astronauts)
      /\ \A k \in 1..Len(w) : w[k] \notin visited \cup {Head(queue)} /\ Head(queue) \in Neighbors(edges, w[k])
  BY <1>5, <1>8
<1>10. PICK s \in Astronauts : s \in DOMAIN edges \ unwalked /\ \E ps : CameAlong(ps, s, queue, visited)
  BY <1>1 DEF QueueInv
<1>11. PICK ps : CameAlong(ps, s, queue, visited)
  BY <1>10
<1>12. \E qs : CameAlong(qs, s, Tail(queue) \o w, visited \cup {Head(queue)})
  BY <1>1, <1>3, <1>8, <1>9, <1>11, QueueGoesOn
<1>13. PICK qs : CameAlong(qs, s, Tail(queue) \o w, visited \cup {Head(queue)})
  BY <1>12
<1>14. CameAlong(qs, s, queue, visited)'
  <2>1. CameAlong(qs, s, queue', visited')
    BY <1>1, <1>2, <1>13
  <2> QED
    BY <1>1, <2>1, TrailsStay
<1>15. s \in Astronauts' /\ s \in (DOMAIN edges \ unwalked)'
  BY <1>1, <1>10 DEF Astronauts, Moon!Nodes
<1> QED
  BY <1>14, <1>15 DEF QueueInv

LEMMA QueueNext ==
    ASSUME MoonInv, QueueInv, Moon!Next \/ UNCHANGED Moon!vars
    PROVE  QueueInv'
<1>1. CASE Moon!FillEdge
  BY <1>1, QueueEmpty DEF Moon!FillEdge
<1>2. CASE Moon!StartWalk
  <2>1. pc = "fill" /\ queue' = queue
    BY <1>2 DEF Moon!StartWalk
  <2>2. queue' = <<>>
    BY <2>1 DEF MoonInv
  <2> QED
    BY <2>2, QueueEmpty
<1>3. CASE Moon!SkipVisited
  BY <1>3, QueueEmpty DEF Moon!SkipVisited
<1>4. CASE Moon!NewCountry
  BY <1>4, QueueStarts
<1>5. CASE Moon!Search
  BY <1>5, QueueSearches
<1>6. CASE Moon!AddSingles \/ Moon!SumProducts \/ Moon!ReadOutside \/ Moon!Return
  <2>1. pc' # "walk"
    BY <1>6 DEF Moon!AddSingles, Moon!SumProducts, Moon!ReadOutside, Moon!Return
  <2> QED
    BY <2>1, QueueEmpty
<1>7. CASE Moon!Finished \/ UNCHANGED Moon!vars
  <2>1. UNCHANGED <<n, edges, queue, visited, unwalked, pc>>
    BY <1>7 DEF Moon!Finished, Moon!vars, Moon!args
  <2> QED
    BY <2>1, QueueStays
<1> QED
  BY <1>1, <1>2, <1>3, <1>4, <1>5, <1>6, <1>7 DEF Moon!Next

\* The copies of a node in the queue have come along different paths.
LEMMA CopiesCounted ==
    ASSUME MoonArgs, NEW s \in Astronauts, NEW ps, NEW que \in Seq(Astronauts), NEW vis \in SUBSET Astronauts,
           CameAlong(ps, s, que, vis), NEW x \in Astronauts
    PROVE  Cardinality({ k \in 1..Len(que) : que[k] = x }) <= Moon!SimplePaths(s, x)
<1> DEFINE K == { k \in 1..Len(que) : que[k] = x }
<1> DEFINE rest == Astronauts \ {x}
<1> DEFINE T == Trails(s, x, rest)
<1>1. \A k \in K : ps[k] \in T
  <2> SUFFICES ASSUME NEW k \in K PROVE ps[k] \in T
    OBVIOUS
  <2> DEFINE p == ps[k]
  <2>1. p \in Trails(s, x, vis)
    BY DEF CameAlong
  <2> HIDE DEF p
  <2>2. ASSUME NEW j \in 1..(Len(p) - 1) PROVE p[j] \in rest
    <3>1. /\ p \in Seq(Astronauts) /\ p # <<>> /\ p[Len(p)] = x /\ p[j] \in vis
          /\ \A a, b \in 1..Len(p) : p[a] = p[b] => a = b
      BY <2>1 DEF Trails
    <3>2. j \in 1..Len(p) /\ Len(p) \in 1..Len(p) /\ j # Len(p)
      BY <3>1
    <3>3. p[j] # x
      BY <3>1, <3>2
    <3> QED
      BY <3>1, <3>3
  <2> HIDE DEF rest
  <2>3. p \in T
    BY <2>1, <2>2 DEF Trails
  <2> QED
    BY <2>3 DEF p
<1>2. \A j, k \in K : ps[j] = ps[k] => j = k
  <2>1. \A k \in 1..Len(que) : Len(ps[k]) \in Nat
    BY DEF CameAlong, Trails
  <2>2. \A k \in 1..Len(que) : StartsWith(ps[k], ps[k])
    BY <2>1 DEF StartsWith
  <2> QED
    BY <2>2 DEF CameAlong
<1> DEFINE f == [k \in K |-> ps[k]]
<1>3. f \in Injection(K, T)
  <2> HIDE DEF T, K
  <2> QED
    BY <1>1, <1>2 DEF Injection, IsInjective
<1> HIDE DEF f, K
<1>4. PICK g : g = Onward(s, g) /\ Moon!SimplePaths(s, x) = g[rest][x]
  BY SimplePathsAre
<1>5. rest \in SUBSET Astronauts
  OBVIOUS
<1> HIDE DEF rest
<1>6. g[rest][x] \in Nat /\ IsFiniteSet(T) /\ Cardinality(T) <= g[rest][x]
  BY <1>4, <1>5, TrailsCounted
<1> HIDE DEF T
<1>7. IsFiniteSet(K) /\ Cardinality(K) <= Cardinality(T)
  BY <1>3, <1>6, FS_Injection
<1>8. Cardinality(K) <= g[rest][x]
  BY <1>6, <1>7, FS_CardinalityType
<1> QED
  BY <1>4, <1>8 DEF K

LEMMA MoonQueue == ASSUME MoonInv, QueueInv PROVE Moon!QueueBounded
<1> SUFFICES ASSUME pc = "walk", queue # <<>>
             PROVE  \E s \in DOMAIN edges \ unwalked : \A x \in Moon!ToSet(queue) :
                       Moon!Cardinality({ k \in DOMAIN queue : queue[k] = x }) <= Moon!SimplePaths(s, x)
  BY DEF Moon!QueueBounded
<1>1. MoonArgs /\ queue \in Seq(Astronauts) /\ visited \in SUBSET Astronauts
  BY WalkNow
<1>2. DOMAIN queue = 1..Len(queue) /\ \A x \in Moon!ToSet(queue) : \E k \in 1..Len(queue) : x = queue[k]
  BY <1>1 DEF Moon!ToSet
<1>3. PICK s \in Astronauts : s \in DOMAIN edges \ unwalked /\ \E ps : CameAlong(ps, s, queue, visited)
  BY DEF QueueInv
<1>4. PICK ps : CameAlong(ps, s, queue, visited)
  BY <1>3
<1>5. ASSUME NEW x \in Moon!ToSet(queue)
      PROVE  Moon!Cardinality({ k \in DOMAIN queue : queue[k] = x }) <= Moon!SimplePaths(s, x)
  <2>1. x \in Astronauts
    BY <1>1, <1>2
  <2>2. Cardinality({ k \in 1..Len(queue) : queue[k] = x }) <= Moon!SimplePaths(s, x)
    BY <1>1, <1>4, <2>1, CopiesCounted
  <2>3. { k \in DOMAIN queue : queue[k] = x } = { k \in 1..Len(queue) : queue[k] = x }
    BY <1>2
  <2> QED
    BY <2>2, <2>3, SameCardinality
<1> QED
  BY <1>3, <1>5

\* A node of journey_to_moon.cc may wait in the queue several times, since it
\* is marked only when it leaves; but its copies are never more than the simple
\* paths to it from the node the search began with.
THEOREM QueueIsBounded == Spec => []QueueBounded
<1> DEFINE Inv == program \in {"roads", "moon"} /\ (program = "moon" => MoonInv /\ QueueInv)
<1>1. Init => Inv
  <2>1. Moon!Init => QueueInv
    BY DEF Moon!Init, QueueInv
  <2> QED
    BY <2>1, OneStarts, MoonInit DEF Init
<1>2. Inv /\ [Next]_vars => Inv'
  <2> SUFFICES ASSUME Inv, [Next]_vars PROVE Inv'
    OBVIOUS
  <2>1. program' = program /\ (program = "moon" => Moon!Next \/ UNCHANGED Moon!vars)
    BY OneRuns
  <2>2. program = "moon" => MoonInv' /\ QueueInv'
    BY <2>1, MoonNext, MoonStutter, QueueNext
  <2> QED
    BY <2>1, <2>2
<1>3. Inv => QueueBounded
  BY MoonQueue DEF QueueBounded
<1> QED
  BY <1>1, <1>2, <1>3, PTL DEF Spec
============================================================================
