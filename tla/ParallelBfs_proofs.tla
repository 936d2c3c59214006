------------------------- MODULE ParallelBfs_proofs -------------------------
(***************************************************************************)
(* Proofs about ParallelBfs for any graph, also one with distances of      *)
(* INFINITE and more, searched by mappers that know the source (Rooted):   *)
(* after k rounds exactly the nodes at k are gray, and what is written out *)
(* are the distances.                                                      *)
(***************************************************************************)
EXTENDS ParallelBfs, WellOrder

\* A node as a table or a record has it.
NodeType == [list : SUBSET Nodes, distance : 0 .. INFINITE, color : {WHITE, GRAY, BLACK}]

\* TypeOK, with the types of what the jobs hand on and of the input.
Typed ==
    /\ TypeOK
    /\ edges \subseteq Nodes \X Nodes
    /\ emitted \subseteq [key : Nodes, node : NodeType]

\* dist is the distance in the graph; the input does not change.
InputInv == dist \in [Nodes -> {NoPath} \cup 0 .. MaxEdges] /\ IsDistance(dist, edges)

\* The line of n after k rounds.
Level(node, n, k) ==
    IF Reached(n) /\ dist[n] <= k
    THEN /\ node.distance = Shown(dist[n])
         /\ node.color = IF k = 0 THEN WHITE ELSE IF dist[n] < k THEN BLACK ELSE GRAY
         /\ node.list = Neighbours(n)
    ELSE node = IF Neighbours(n) = {} THEN NoNode ELSE Node(Neighbours(n), INFINITE, WHITE)

\* Within a round: what is emitted comes from the lines mapped, what is written
\* from the keys reduced, and the counter is 0 as long as none of these is gray.
RoundInv ==
    /\ phase = "parse" =>
        /\ mapped = {} /\ emitted = {} /\ reduced = {} /\ next = NoNodes
        /\ gray = 0 /\ round = 0
    /\ phase = "map" => reduced = {}
    /\ phase = "reduce" => mapped = Lines(table)
    /\ phase \in {"map", "reduce"} =>
        /\ mapped \subseteq Lines(table)
        /\ emitted = UNION {Emits(n) : n \in mapped}
        /\ \A n \in reduced : Values(n) # {}
        /\ \A n \in Nodes : next[n] = IF n \in reduced THEN Combined(Values(n)) ELSE NoNode
        /\ gray = 0 => \A n \in reduced : Darkest(Values(n)) # GRAY

\* Between rounds: the table is that of the level, and without a gray node when the
\* rounds are over.
LevelInv ==
    /\ phase \in {"map", "reduce", "output"} /\ Rooted =>
        \A n \in Nodes : Level(table[n], n, round)
    /\ phase = "output" => round > 0 /\ \A n \in Nodes : table[n].color # GRAY

BfsInv == Typed /\ InputInv /\ RoundInv /\ LevelInv /\ OutputIsDistance
-----------------------------------------------------------------------------
(* Operators *)

\* What the reducer keeps of the values of a key is one of theirs.
LEMMA LeastIs ==
    ASSUME NEW V, V \subseteq NodeType, NEW v \in V, \A w \in V : v.distance <= w.distance
    PROVE  Least(V) = v.distance
<1>1. \A w \in V : w.distance \in Int
  BY BfsAssumption DEF NodeType
<1>2. \A d \in {w.distance : w \in V} : (\A w \in V : d <= w.distance) => d = v.distance
  BY <1>1
<1>3. v.distance \in {w.distance : w \in V} /\ \A w \in V : v.distance <= w.distance
  OBVIOUS
<1> QED
  BY <1>2, <1>3 DEF Least

LEMMA DarkestIs ==
    ASSUME NEW V, V \subseteq NodeType, NEW v \in V, \A w \in V : w.color <= v.color
    PROVE  Darkest(V) = v.color
<1>1. \A w \in V : w.color \in Int
  BY DEF NodeType, WHITE, GRAY, BLACK
<1>2. \A c \in {w.color : w \in V} : (\A w \in V : w.color <= c) => c = v.color
  BY <1>1
<1>3. v.color \in {w.color : w \in V} /\ \A w \in V : w.color <= v.color
  OBVIOUS
<1> QED
  BY <1>2, <1>3 DEF Darkest

LEMMA CombinedType ==
    ASSUME NEW V, V \subseteq NodeType, V # {}
    PROVE  Combined(V) \in NodeType
<1>1. \E v \in V : \A w \in V : v.distance <= w.distance
  <2>1. {v.distance : v \in V} \subseteq Nat /\ {v.distance : v \in V} # {}
    BY BfsAssumption DEF NodeType
  <2>2. PICK d \in {v.distance : v \in V} : \A e \in {v.distance : v \in V} : d <= e
    BY <2>1, LeastNatural
  <2> QED
    BY <2>2
<1>2. Least(V) \in 0 .. INFINITE
  BY <1>1, LeastIs DEF NodeType
<1>3. \E v \in V : \A w \in V : w.color <= v.color
  <2>1. CASE \E v \in V : v.color = BLACK
    BY <2>1 DEF NodeType, WHITE, GRAY, BLACK
  <2>2. CASE (\A v \in V : v.color # BLACK) /\ \E v \in V : v.color = GRAY
    BY <2>2 DEF NodeType, WHITE, GRAY, BLACK
  <2>3. CASE \A v \in V : v.color = WHITE
    BY <2>3 DEF WHITE
  <2> QED
    BY <2>1, <2>2, <2>3 DEF NodeType
<1>4. Darkest(V) \in {WHITE, GRAY, BLACK}
  BY <1>3, DarkestIs DEF NodeType
<1>5. UNION {v.list : v \in V} \subseteq Nodes
  BY DEF NodeType
<1> QED
  BY <1>2, <1>4, <1>5 DEF Combined, Node, NodeType

\* A line of the table is a node, and so is each record a mapper makes of it.
LEMMA LineType ==
    ASSUME table \in TableType, NEW n \in Lines(table)
    PROVE  n \in Nodes /\ table[n] \in NodeType
  BY DEF TableType, Lines, NodeType

LEMMA EmitsType ==
    ASSUME table \in TableType, NEW n \in Lines(table)
    PROVE  Emits(n) \subseteq [key : Nodes, node : NodeType]
<1>1. n \in Nodes /\ table[n] \in NodeType
  BY LineType
<1>2. Node(table[n].list, table[n].distance, BLACK) \in NodeType
  BY <1>1 DEF NodeType, Node
<1>3. OneFurther(table[n].distance) \in 0 .. INFINITE
  BY <1>1, BfsAssumption DEF NodeType, OneFurther
<1>4. Node({}, OneFurther(table[n].distance), GRAY) \in NodeType
  BY <1>3 DEF NodeType, Node
<1>5. table[n].list \subseteq Nodes
  BY <1>1 DEF NodeType
<1> QED
  BY <1>1, <1>2, <1>4, <1>5 DEF Emits, Record

LEMMA ValuesType ==
    ASSUME Typed, NEW n
    PROVE  Values(n) \subseteq NodeType
  BY DEF Typed, Values

\* What is shown of a distance: never more than INFINITE, in the order of the distances,
\* and one further with the next node.
LEMMA ShownIs ==
    ASSUME NEW d \in Nat
    PROVE  /\ Shown(d) \in 0 .. INFINITE
           /\ OneFurther(Shown(d)) = Shown(d + 1)
           /\ \A e \in Nat : d <= e => Shown(d) <= Shown(e)
  BY BfsAssumption DEF Shown, OneFurther

-----------------------------------------------------------------------------
(* Types *)

LEMMA InitTyped == Init => Typed
<1> SUFFICES ASSUME Init PROVE Typed
  OBVIOUS
<1>1. NoNodes \in TableType
  BY DEF NoNodes, TableType
<1> QED
  BY <1>1 DEF Init, Typed, TypeOK

LEMMA StepTyped ==
    ASSUME Typed, [Next]_vars
    PROVE  Typed'
<1> USE DEF Typed
<1>0. NoNodes \in TableType
  BY DEF NoNodes, TableType
<1>1. CASE input_parsing
  <2>1. table' \in TableType
    BY <1>1, BfsAssumption DEF input_parsing, TableType, Node, Neighbours
  <2> QED
    BY <1>1, <2>1 DEF input_parsing, TypeOK
<1>2. ASSUME NEW n \in Nodes, Map(n) PROVE Typed'
  <2>1. n \in Lines(table) /\ table \in TableType
    BY <1>2 DEF Map, TypeOK
  <2>2. emitted' \subseteq [key : Nodes, node : NodeType]
    BY <1>2, <2>1, EmitsType DEF Map
  <2> QED
    BY <1>2, <2>2 DEF Map, TypeOK
<1>3. ASSUME NEW n \in Nodes, Reduce(n) PROVE Typed'
  <2>1. Combined(Values(n)) \in NodeType
    BY <1>3, ValuesType, CombinedType DEF Reduce
  <2>2. next' \in TableType
    BY <1>3, <2>1 DEF Reduce, TypeOK, TableType, NodeType
  <2>3. gray' \in Nat
    BY <1>3 DEF Reduce, TypeOK
  <2> QED
    BY <1>3, <2>2, <2>3 DEF Reduce, TypeOK
<1>4. CASE Shuffle
  BY <1>4 DEF Shuffle, TypeOK
<1>5. CASE iteration
  BY <1>5, <1>0 DEF iteration, TypeOK
<1>6. CASE Output
  BY <1>6 DEF Output, TypeOK
<1>7. CASE UNCHANGED vars
  BY <1>7 DEF vars, TypeOK
<1> QED
  BY <1>1, <1>2, <1>3, <1>4, <1>5, <1>6, <1>7 DEF Next

-----------------------------------------------------------------------------
(* Within a round *)

LEMMA InitRound == Init => RoundInv
  BY DEF Init, RoundInv

LEMMA StepRound ==
    ASSUME Typed, RoundInv, [Next]_vars
    PROVE  RoundInv'
<1> USE DEF RoundInv
<1>1. CASE input_parsing
  <2>1. \A n \in Nodes : next'[n] = NoNode
    BY <1>1 DEF input_parsing, NoNodes
  <2>2. emitted' = {} /\ mapped' = {} /\ reduced' = {} /\ phase' = "map" /\ gray' = 0
    BY <1>1 DEF input_parsing
  <2> QED
    BY <2>1, <2>2
<1>2. ASSUME NEW n \in Nodes, Map(n) PROVE RoundInv'
  <2>1. phase = "map" /\ phase' = "map" /\ reduced = {} /\ n \in Lines(table)
    BY <1>2 DEF Map
  <2>2. /\ table' = table /\ next' = next /\ reduced' = reduced
        /\ mapped' = mapped \cup {n} /\ emitted' = emitted \cup Emits(n) /\ seen' = seen
    BY <1>2 DEF Map
  <2>3. Lines(table)' = Lines(table) /\ \A m : Emits(m)' = Emits(m)
    BY <2>2 DEF Lines, Emits
  <2>4. emitted' = UNION {Emits(m) : m \in mapped'}
    BY <2>1, <2>2
  <2>5. emitted' = UNION {Emits(m)' : m \in mapped'}
    BY <2>3, <2>4
  <2> QED
    BY <2>1, <2>2, <2>3, <2>5
<1>3. ASSUME NEW n \in Nodes, Reduce(n) PROVE RoundInv'
  <2>1. /\ phase = "reduce" /\ phase' = "reduce" /\ Values(n) # {} /\ n \notin reduced
        /\ next' = [next EXCEPT ![n] = Combined(Values(n))]
        /\ gray' = IF Darkest(Values(n)) = GRAY THEN gray + 1 ELSE gray
        /\ reduced' = reduced \cup {n}
    BY <1>3 DEF Reduce
  <2>2. table' = table /\ emitted' = emitted /\ mapped' = mapped /\ seen' = seen
    BY <1>3 DEF Reduce
  <2>3. Lines(table)' = Lines(table) /\ \A m : Emits(m)' = Emits(m) /\ Values(m)' = Values(m)
    BY <2>2 DEF Lines, Emits, Values
  <2>4. emitted' = UNION {Emits(m)' : m \in mapped'}
    BY <2>1, <2>2, <2>3
  <2>5. \A m \in Nodes : next'[m] = IF m \in reduced' THEN Combined(Values(m)') ELSE NoNode
    <3>1. DOMAIN next = Nodes
      BY DEF Typed, TypeOK, TableType
    <3> QED
      BY <2>1, <2>3, <3>1
  <2>6. gray' = 0 => \A m \in reduced' : Darkest(Values(m)') # GRAY
    <3>1. gray \in Nat
      BY DEF Typed, TypeOK
    <3>2. gray' = 0 => gray = 0 /\ Darkest(Values(n)) # GRAY
      BY <2>1, <3>1
    <3> QED
      BY <2>1, <2>3, <3>2
  <2> QED
    BY <2>1, <2>2, <2>3, <2>4, <2>5, <2>6
<1>4. CASE Shuffle
  <2>1. \A m : Lines(table)' = Lines(table) /\ Emits(m)' = Emits(m) /\ Values(m)' = Values(m)
    BY <1>4 DEF Shuffle, Lines, Emits, Values
  <2> QED
    BY <1>4, <2>1 DEF Shuffle
<1>5. CASE iteration
  <2>1. /\ emitted' = {} /\ mapped' = {} /\ reduced' = {}
        /\ \A n \in Nodes : next'[n] = NoNode
        /\ phase' \in {"map", "output"}
    BY <1>5 DEF iteration, NoNodes
  <2> QED
    BY <2>1
<1>6. CASE Output
  BY <1>6 DEF Output
<1>7. CASE UNCHANGED vars
  <2>1. \A m : Lines(table)' = Lines(table) /\ Emits(m)' = Emits(m) /\ Values(m)' = Values(m)
    BY <1>7 DEF vars, Lines, Emits, Values
  <2> QED
    BY <1>7, <2>1 DEF vars
<1> QED
  BY <1>1, <1>2, <1>3, <1>4, <1>5, <1>6, <1>7 DEF Next

-----------------------------------------------------------------------------
(* From one round to the next *)

\* A mapper paints the neighbours of these.
Paints(m) == m \in Lines(table) /\ (m = seen \/ table[m].color = GRAY)

\* A key's values are its own line, black where the mapper painted it, and a gray record
\* from each painter that has it as a neighbour.
LEMMA ValuesAre ==
    ASSUME Typed, RoundInv, phase = "reduce", NEW n \in Nodes, NEW v
    PROVE  v \in Values(n) <=>
             \/ n \in Lines(table) /\ ~ Paints(n) /\ v = table[n]
             \/ Paints(n) /\ v = Node(table[n].list, table[n].distance, BLACK)
             \/ \E m \in Lines(table) : /\ Paints(m) /\ n \in table[m].list
                                        /\ v = Node({}, OneFurther(table[m].distance), GRAY)
<1>1. v \in Values(n) <=> \E m \in Lines(table) : Record(n, v) \in Emits(m)
  <2>1. emitted = UNION {Emits(m) : m \in Lines(table)}
    BY DEF RoundInv
  <2>2. \A r \in emitted : r = Record(r.key, r.node)
    BY DEF Typed, Record
  <2>3. v \in Values(n) <=> Record(n, v) \in emitted
    BY <2>2 DEF Values, Record
  <2> QED
    BY <2>1, <2>3
<1>2. \A m \in Lines(table) : Record(n, v) \in Emits(m) <=>
        \/ m = n /\ ~ Paints(m) /\ v = table[n]
        \/ m = n /\ Paints(m) /\ v = Node(table[n].list, table[n].distance, BLACK)
        \/ Paints(m) /\ n \in table[m].list /\ v = Node({}, OneFurther(table[m].distance), GRAY)
  <2> TAKE m \in Lines(table)
  <2>1. \A k, w : Record(n, v) = Record(k, w) <=> k = n /\ v = w
    BY DEF Record
  <2>2. CASE Paints(m)
    <3>1. Emits(m) = {Record(m, Node(table[m].list, table[m].distance, BLACK))}
            \cup {Record(k, Node({}, OneFurther(table[m].distance), GRAY)) : k \in table[m].list}
      BY <2>2 DEF Paints, Emits
    <3> QED
      BY <2>1, <2>2, <3>1
  <2>3. CASE ~ Paints(m)
    <3>1. Emits(m) = {Record(m, table[m])}
      BY <2>3 DEF Paints, Emits
    <3> QED
      BY <2>1, <2>3, <3>1
  <2> QED
    BY <2>2, <2>3
<1>3. Paints(n) => n \in Lines(table)
  BY DEF Paints
<1> QED
  BY <1>1, <1>2, <1>3

\* The source and the nodes of the frontier are the ones that paint, with their distance.
LEMMA PaintersAre ==
    ASSUME Typed, InputInv, LevelInv, phase \in {"map", "reduce"}, Rooted, NEW m \in Nodes
    PROVE  /\ Paints(m) <=> m = Source \/ (round > 0 /\ dist[m] = round)
           /\ Paints(m) => /\ Reached(m) /\ dist[m] <= round
                           /\ table[m].distance = Shown(dist[m])
                           /\ table[m].list = Neighbours(m)
<1>1. Level(table[m], m, round)
  BY DEF LevelInv
<1>2. dist[m] \in Int /\ dist[m] >= -1 /\ (Reached(m) <=> dist[m] \in Nat) /\ round \in Nat
  BY BfsAssumption DEF InputInv, Typed, TypeOK, Reached, NoPath
<1>3. dist[m] = 0 <=> m = Source
  BY DEF InputInv, IsDistance
<1>4. seen = Source
  BY DEF Rooted
<1>5. CASE Reached(m) /\ dist[m] <= round
  <2>1. /\ table[m].distance = Shown(dist[m]) /\ table[m].list = Neighbours(m)
        /\ table[m].color = IF round = 0 THEN WHITE ELSE IF dist[m] < round THEN BLACK ELSE GRAY
    BY <1>1, <1>5 DEF Level
  <2>2. m \in Lines(table)
    BY <1>2, <1>5, <2>1 DEF Lines, NoNode, WHITE, BLACK, GRAY
  <2>3. Paints(m) <=> m = Source \/ table[m].color = GRAY
    BY <1>4, <2>2 DEF Paints
  <2>4. table[m].color = GRAY <=> round > 0 /\ dist[m] = round
    BY <1>2, <1>5, <2>1 DEF WHITE, BLACK, GRAY
  <2> QED
    BY <1>5, <2>1, <2>3, <2>4
<1>6. CASE ~ (Reached(m) /\ dist[m] <= round)
  <2>1. m # Source
    BY <1>2, <1>3, <1>6
  <2>2. table[m].color # GRAY
    BY <1>1, <1>6 DEF Level, NoNode, Node, WHITE, GRAY
  <2>3. ~ Paints(m)
    BY <1>4, <2>1, <2>2 DEF Paints
  <2> QED
    BY <1>2, <1>6, <2>1, <2>3
<1> QED
  BY <1>5, <1>6

\* What the reducers write is the next level.
LEMMA NextLevel ==
    ASSUME Typed, InputInv, RoundInv, LevelInv, phase = "reduce", Rooted,
           \A n \in Nodes : Values(n) # {} => n \in reduced,
           NEW n \in Nodes
    PROVE  Level(next[n], n, round + 1)
<1> DEFINE V == Values(n)
           k == round
           own == Node(table[n].list, table[n].distance, BLACK)
           Far(v) == \E m \in Nodes : /\ Paints(m) /\ n \in Neighbours(m)
                                      /\ v = Node({}, Shown(dist[m] + 1), GRAY)
<1>1. /\ k \in Nat /\ INFINITE \in Nat \ {0}
      /\ \A m \in Nodes : dist[m] \in Int /\ dist[m] >= -1 /\ (Reached(m) <=> dist[m] \in Nat)
  BY BfsAssumption DEF InputInv, Typed, TypeOK, Reached, NoPath
<1>2. V \subseteq NodeType
  BY ValuesType
<1>3. next[n] = IF V = {} THEN NoNode ELSE Combined(V)
  BY DEF RoundInv
<1>4. Level(table[n], n, k)
  BY DEF LevelInv
<1>5. \A m \in Nodes : Paints(m) <=> m = Source \/ (k > 0 /\ dist[m] = k)
  BY PaintersAre
<1>6. \A m \in Nodes : Paints(m) =>
        Reached(m) /\ dist[m] <= k /\ table[m].distance = Shown(dist[m]) /\ table[m].list = Neighbours(m)
  BY PaintersAre
<1>7. \A m \in Nodes : Paints(m) => OneFurther(table[m].distance) = Shown(dist[m] + 1)
  BY <1>1, <1>6, ShownIs
<1>8. \A v : v \in V <=> \/ n \in Lines(table) /\ ~ Paints(n) /\ v = table[n]
                         \/ Paints(n) /\ v = own
                         \/ Far(v)
  <2> TAKE v
  <2>1. (\E m \in Lines(table) : /\ Paints(m) /\ n \in table[m].list
                                 /\ v = Node({}, OneFurther(table[m].distance), GRAY)) <=> Far(v)
    BY <1>6, <1>7 DEF Paints, Lines
  <2> QED
    BY <2>1, ValuesAre
<1>9. \A m \in Nodes : Paints(m) /\ n \in Neighbours(m) => Reached(n) /\ dist[n] <= dist[m] + 1
  BY <1>6 DEF InputInv, IsDistance, Neighbours, Reached
<1>10. \A m \in Nodes : dist[m] = 0 <=> m = Source
  BY DEF InputInv, IsDistance
<1>11. \A v : Far(v) => v.list = {} /\ v.color = GRAY /\ v.distance >= Shown(dist[n])
  <2> SUFFICES ASSUME NEW m \in Nodes, Paints(m), n \in Neighbours(m)
               PROVE  Shown(dist[m] + 1) >= Shown(dist[n])
    BY DEF Node
  <2>1. dist[n] \in Nat /\ dist[m] + 1 \in Nat /\ dist[n] <= dist[m] + 1
    BY <1>1, <1>6, <1>9
  <2>2. Shown(dist[n]) <= Shown(dist[m] + 1) /\ Shown(dist[n]) \in Int /\ Shown(dist[m] + 1) \in Int
    BY <2>1, ShownIs
  <2> QED
    BY <2>2
<1>12. CASE Reached(n) /\ dist[n] <= k
  <2>1. /\ table[n].distance = Shown(dist[n]) /\ table[n].list = Neighbours(n)
        /\ table[n].color = IF k = 0 THEN WHITE ELSE IF dist[n] < k THEN BLACK ELSE GRAY
    BY <1>4, <1>12 DEF Level
  <2>2. n \in Lines(table)
    BY <1>1, <1>12, <2>1 DEF Lines, NoNode, WHITE, BLACK, GRAY
  <2>3. ~ Paints(n) => table[n].color = BLACK
    BY <1>1, <1>5, <1>10, <1>12, <2>1
  <2> DEFINE mine == IF Paints(n) THEN own ELSE table[n]
  <2>4. mine.distance = Shown(dist[n]) /\ mine.list = Neighbours(n) /\ mine.color = BLACK
    BY <2>1, <2>3 DEF Node
  <2>5. \A v : v \in V <=> v = mine \/ Far(v)
    BY <1>8, <2>2
  <2> HIDE DEF V, mine, Far
  <2>6. \A v \in V : mine.distance <= v.distance /\ v.color <= mine.color /\ v.list \subseteq mine.list
    BY <1>1, <1>11, <1>12, <2>4, <2>5, ShownIs, SMTT(30) DEF BLACK, GRAY
  <2>7. mine \in V
    BY <2>5
  <2>8. Least(V) = Shown(dist[n]) /\ Darkest(V) = BLACK
    BY <1>2, <2>4, <2>6, <2>7, LeastIs, DarkestIs
  <2>9. UNION {v.list : v \in V} = Neighbours(n)
    BY <2>4, <2>6, <2>7
  <2>10. next[n] = Node(Neighbours(n), Shown(dist[n]), BLACK)
    BY <1>3, <2>7, <2>8, <2>9 DEF Combined
  <2> QED
    BY <1>1, <1>12, <2>10 DEF Level, Node
<1>13. CASE dist[n] = k + 1
  <2>1. table[n] = IF Neighbours(n) = {} THEN NoNode ELSE Node(Neighbours(n), INFINITE, WHITE)
    BY <1>1, <1>4, <1>13 DEF Level
  <2>2. ~ Paints(n)
    BY <1>1, <1>5, <1>10, <1>13
  <2>3. PICK u \in Nodes : <<u, n>> \in edges /\ Reached(u) /\ dist[n] = dist[u] + 1
    BY <1>1, <1>10, <1>13, SMTT(30) DEF InputInv, IsDistance, Reached, NoPath
  <2>4. Paints(u) /\ n \in Neighbours(u) /\ dist[u] = k
    BY <1>1, <1>5, <1>10, <1>13, <2>3 DEF Neighbours
  <2> DEFINE near == Node({}, Shown(dist[u] + 1), GRAY)
  <2>5. near \in V /\ near.distance = Shown(k + 1) /\ near.color = GRAY
    BY <1>8, <2>4 DEF Node
  <2>6. \A v \in V : v = table[n] \/ Far(v)
    BY <1>8, <2>2
  <2>7. n \in Lines(table) =>
          table[n].list = Neighbours(n) /\ table[n].distance = INFINITE /\ table[n].color = WHITE
    BY <2>1 DEF Lines, Node
  <2>8. n \notin Lines(table) => Neighbours(n) = {} /\ table[n] = NoNode
    BY <2>1 DEF Lines, Node, NoNode, WHITE
  <2>9. \A v \in V : near.distance <= v.distance /\ v.color <= near.color
    <3> TAKE v \in V
    <3>0. Shown(k + 1) \in Int /\ Shown(k + 1) <= INFINITE
      BY <1>1, ShownIs
    <3>1. CASE Far(v)
      BY <1>1, <1>11, <1>13, <2>5, <3>0, <3>1 DEF GRAY
    <3>2. CASE n \in Lines(table) /\ v = table[n]
      BY <1>1, <2>5, <2>7, <3>0, <3>2 DEF GRAY, WHITE
    <3> QED
      BY <1>8, <2>2, <3>1, <3>2
  <2>10. UNION {v.list : v \in V} = Neighbours(n)
    <3>1. \A v \in V : v.list \in {{}, Neighbours(n)}
      BY <1>8, <1>11, <2>2, <2>7
    <3>2. CASE n \in Lines(table)
      BY <1>8, <2>2, <2>7, <3>1, <3>2
    <3>3. CASE n \notin Lines(table)
      BY <2>8, <3>1, <3>3
    <3> QED
      BY <3>2, <3>3
  <2> HIDE DEF V, near
  <2>11. Least(V) = Shown(k + 1) /\ Darkest(V) = GRAY
    BY <1>2, <2>5, <2>9, LeastIs, DarkestIs
  <2>12. next[n] = Node(Neighbours(n), Shown(k + 1), GRAY)
    BY <1>3, <2>5, <2>10, <2>11 DEF Combined
  <2> QED
    BY <1>1, <1>13, <2>12 DEF Level, Node
<1>14. CASE ~ (Reached(n) /\ dist[n] <= k + 1)
  <2>1. table[n] = IF Neighbours(n) = {} THEN NoNode ELSE Node(Neighbours(n), INFINITE, WHITE)
    BY <1>1, <1>4, <1>14 DEF Level
  <2>2. ~ Paints(n)
    BY <1>1, <1>6, <1>14
  <2>3. \A v : ~ Far(v)
    BY <1>1, <1>6, <1>9, <1>14
  <2>4. \A v : v \in V <=> n \in Lines(table) /\ v = table[n]
    BY <1>8, <2>2, <2>3
  <2>5. CASE Neighbours(n) = {}
    <3>1. V = {}
      BY <2>1, <2>4, <2>5 DEF Lines
    <3> QED
      BY <1>3, <1>14, <2>5, <3>1 DEF Level
  <2>6. CASE Neighbours(n) # {}
    <3>1. table[n] = Node(Neighbours(n), INFINITE, WHITE)
      BY <2>1, <2>6
    <3>2. n \in Lines(table)
      BY <3>1 DEF Lines, Node, NoNode, WHITE
    <3>3. V = {table[n]}
      BY <2>4, <3>2
    <3> HIDE DEF V
    <3>4. table[n].distance \in Int /\ table[n].color \in Int
      BY <1>1, <3>1 DEF Node, WHITE
    <3>5. Least(V) = table[n].distance /\ Darkest(V) = table[n].color
      BY <1>2, <3>3, <3>4, LeastIs, DarkestIs
    <3>6. Combined(V) = Node(Neighbours(n), INFINITE, WHITE)
      BY <3>1, <3>3, <3>5 DEF Combined, Node
    <3> QED
      BY <1>3, <1>14, <2>6, <3>3, <3>6 DEF Level
  <2> QED
    BY <2>5, <2>6
<1> QED
  BY <1>1, <1>12, <1>13, <1>14

-----------------------------------------------------------------------------
(* Between rounds *)

\* Without a gray node left nothing is farther than the rounds that were done.
LEMMA AllReached ==
    ASSUME Typed, InputInv, LevelInv, Rooted, phase = "output", NEW n \in Nodes, Reached(n)
    PROVE  dist[n] < round /\ table[n].color = BLACK /\ table[n].distance = Shown(dist[n])
<1>1. /\ round \in Nat /\ round > 0
      /\ \A m \in Nodes : dist[m] \in Int /\ (Reached(m) <=> dist[m] \in Nat)
  BY BfsAssumption DEF LevelInv, InputInv, Typed, TypeOK, Reached, NoPath
<1>2. \A m \in Nodes : Level(table[m], m, round) /\ table[m].color # GRAY
  BY DEF LevelInv
<1>3. \A m \in Nodes : dist[m] # round
  BY <1>1, <1>2 DEF Level
<1>4. \A m \in Nodes : Reached(m) => dist[m] < round
  <2> DEFINE S == {dist[m] : m \in {l \in Nodes : Reached(l) /\ ~ (dist[l] < round)}}
  <2> SUFFICES ASSUME S # {} PROVE FALSE
    OBVIOUS
  <2>1. S \subseteq Nat
    BY <1>1
  <2>2. PICK d \in S : \A e \in S : d <= e
    BY <2>1, LeastNatural
  <2>3. PICK m \in Nodes : d = dist[m] /\ Reached(m) /\ ~ (dist[m] < round)
    BY <2>2
  <2>4. m # Source
    BY <1>1, <2>3 DEF InputInv, IsDistance
  <2>5. PICK u \in Nodes : Reached(u) /\ dist[m] = dist[u] + 1
    BY <2>3, <2>4 DEF InputInv, IsDistance, Reached
  <2>6. dist[u] \notin S
    BY <1>1, <2>2, <2>3, <2>5
  <2>7. dist[u] < round
    BY <2>5, <2>6
  <2> QED
    BY <1>1, <1>3, <2>3, <2>5, <2>7
<1> QED
  BY <1>1, <1>2, <1>4 DEF Level

LEMMA InitLevel == Init => LevelInv /\ InputInv /\ OutputIsDistance
  BY DEF Init, LevelInv, InputInv, OutputIsDistance

LEMMA StepLevel ==
    ASSUME BfsInv, [Next]_vars
    PROVE  LevelInv' /\ InputInv' /\ OutputIsDistance'
<1> USE DEF BfsInv
<1>1. /\ edges' = edges /\ dist' = dist /\ seen' = seen
      /\ Rooted' = Rooted /\ \A n : Neighbours(n)' = Neighbours(n)
  BY DEF Next, vars, input_parsing, Map, Reduce, Shuffle, iteration, Output, Rooted, Neighbours
<1>2. InputInv'
  BY <1>1 DEF InputInv, IsDistance
<1>3. \A n : Reached(n)' = Reached(n)
  BY <1>1 DEF Reached
<1>4. ASSUME table' = table, round' = round, phase' = "output" => phase = "output",
             phase' \in {"map", "reduce"} => phase \in {"map", "reduce"}
      PROVE  LevelInv'
  <2>1. \A n \in Nodes : Level(table[n], n, round)' = Level(table[n], n, round)
    BY <1>1, <1>3, <1>4 DEF Level
  <2> QED
    BY <1>1, <1>4, <2>1 DEF LevelInv
<1>5. ASSUME phase' # "done" PROVE OutputIsDistance'
  BY <1>5 DEF OutputIsDistance
<1>6. CASE input_parsing
  <2>1. phase' = "map" /\ round' = 0
    BY <1>6 DEF input_parsing, RoundInv
  <2>2. ASSUME Rooted, NEW n \in Nodes PROVE Level(table[n], n, round)'
    <3>1. /\ dist[n] \in Int /\ (Reached(n) <=> dist[n] \in Nat) /\ (dist[n] = 0 <=> n = Source)
          /\ Shown(0) = 0
      BY BfsAssumption DEF InputInv, IsDistance, Reached, NoPath, Shown
    <3>2. table'[n] = IF Neighbours(n) = {} THEN NoNode
                      ELSE Node(Neighbours(n), IF n = Source THEN 0 ELSE INFINITE, WHITE)
      BY <1>6 DEF input_parsing
    <3>3. Neighbours(Source) # {}
      BY <2>2 DEF Rooted
    <3> QED
      BY <1>1, <1>3, <2>1, <3>1, <3>2, <3>3 DEF Level, Node
  <2> QED
    BY <1>1, <1>2, <1>5, <2>1, <2>2 DEF LevelInv
<1>7. ASSUME NEW n \in Nodes, Map(n) \/ Reduce(n) PROVE LevelInv' /\ OutputIsDistance'
  <2>1. table' = table /\ round' = round /\ phase' = phase /\ phase \in {"map", "reduce"}
    BY <1>7 DEF Map, Reduce
  <2> QED
    BY <1>4, <1>5, <2>1
<1>8. CASE Shuffle
  BY <1>2, <1>4, <1>5, <1>8 DEF Shuffle
<1>9. CASE iteration
  <2>1. /\ phase = "reduce" /\ \A n \in Nodes : Values(n) # {} => n \in reduced
        /\ table' = next /\ round' = IF round <= MaxEdges THEN round + 1 ELSE round
        /\ phase' = IF gray # 0 THEN "map" ELSE "output"
    BY <1>9 DEF iteration, GoesOn
  <2>2. Rooted => \A n \in Nodes : Level(table[n], n, round)'
    <3> SUFFICES ASSUME Rooted, NEW n \in Nodes PROVE Level(table[n], n, round)'
      OBVIOUS
    <3>1. Level(next[n], n, round + 1)
      BY <2>1, NextLevel
    <3>2. Reached(n) => dist[n] <= MaxEdges
      BY DEF InputInv, Reached
    <3>3. dist[n] \in Int /\ round \in Nat /\ MaxEdges \in Nat
      BY BfsAssumption DEF InputInv, NoPath, Typed, TypeOK
    <3>4. Level(next[n], n, round')
      BY <2>1, <3>1, <3>2, <3>3 DEF Level
    <3> QED
      BY <1>1, <1>3, <2>1, <3>4 DEF Level
  <2>3. phase' = "output" => \A n \in Nodes : table'[n].color # GRAY
    <3> SUFFICES ASSUME gray = 0, NEW n \in Nodes PROVE next[n].color # GRAY
      BY <2>1
    <3>1. CASE n \in reduced
      <4>1. next[n] = Combined(Values(n)) /\ Darkest(Values(n)) # GRAY
        BY <2>1, <3>1 DEF RoundInv
      <4> QED
        BY <4>1 DEF Combined, Node
    <3>2. CASE n \notin reduced
      BY <2>1, <3>2 DEF RoundInv, NoNode, GRAY
    <3> QED
      BY <3>1, <3>2
  <2>4. round' > 0
    BY <2>1, BfsAssumption DEF Typed, TypeOK
  <2> QED
    BY <1>1, <1>2, <1>5, <2>1, <2>2, <2>3, <2>4 DEF LevelInv
<1>10. CASE Output
  <2>1. /\ phase = "output" /\ phase' = "done"
        /\ result' = {<<n, table[n].distance>> : n \in {m \in Nodes : table[m].color = BLACK}}
    BY <1>10 DEF Output
  <2>2. ASSUME Rooted PROVE result' = {<<n, Shown(dist[n])>> : n \in {m \in Nodes : Reached(m)}}
    <3>1. \A n \in Nodes : Reached(n) =>
            table[n].color = BLACK /\ table[n].distance = Shown(dist[n])
      BY <2>1, <2>2, AllReached
    <3>2. \A n \in Nodes : ~ Reached(n) => table[n].color # BLACK
      <4> SUFFICES ASSUME NEW n \in Nodes, ~ Reached(n) PROVE table[n].color # BLACK
        OBVIOUS
      <4>1. Level(table[n], n, round)
        BY <2>1, <2>2 DEF LevelInv
      <4> QED
        BY <4>1 DEF Level, NoNode, Node, WHITE, BLACK
    <3>3. {m \in Nodes : table[m].color = BLACK} = {m \in Nodes : Reached(m)}
      BY <3>1, <3>2
    <3> QED
      BY <2>1, <3>1, <3>3
  <2> QED
    BY <1>1, <1>2, <1>3, <2>1, <2>2 DEF LevelInv, OutputIsDistance
<1>11. CASE UNCHANGED vars
  <2>1. OutputIsDistance'
    BY <1>1, <1>3, <1>11 DEF vars, OutputIsDistance
  <2> QED
    BY <1>2, <1>4, <1>11, <2>1 DEF vars
<1> QED
  BY <1>2, <1>6, <1>7, <1>8, <1>9, <1>10, <1>11 DEF Next

-----------------------------------------------------------------------------
(* The theorems *)

THEOREM BfsInvariant == Spec => []BfsInv
<1>1. Init => BfsInv
  BY InitTyped, InitRound, InitLevel DEF BfsInv
<1>2. BfsInv /\ [Next]_vars => BfsInv'
  BY StepTyped, StepRound, StepLevel DEF BfsInv
<1> QED
  BY <1>1, <1>2, PTL DEF Spec

\* Every table a round reads or writes holds nodes of the graph with a distance and a
\* color, whatever the order of its tasks.
THEOREM TablesHoldNodes == Spec => []TypeOK
<1>1. BfsInv => TypeOK
  BY DEF BfsInv, Typed
<1> QED
  BY <1>1, BfsInvariant, PTL

\* For mappers that know the source, and any graph in which it has a line: after k
\* rounds the nodes nearer than k are black, those at k gray, each with
\* its list and its distance, cut at INFINITE, and the others as the parser left them.
THEOREM RoundsGoByLevel == Spec => []FrontierIsLevel
<1>1. BfsInv => FrontierIsLevel
  BY DEF BfsInv, LevelInv, Level, FrontierIsLevel
<1> QED
  BY <1>1, BfsInvariant, PTL

\* For the same mappers and graphs: what the last job writes are the nodes a path leads
\* to, each with its distance, cut at INFINITE.
THEOREM BfsIsCorrect == Spec => []OutputIsDistance
<1>1. BfsInv => OutputIsDistance
  BY DEF BfsInv
<1> QED
  BY <1>1, BfsInvariant, PTL
=============================================================================
