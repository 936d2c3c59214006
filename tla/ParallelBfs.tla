---------------------------- MODULE ParallelBfs ----------------------------
(***************************************************************************)
(* ParallelBfs.java: breadth-first search as a chain of MapReduce jobs.    *)
(* Every round reads a table of nodes, maps each line of it by itself, in  *)
(* any order, and reduces the records of each key, in any order; the driver*)
(* starts rounds until one has counted no gray node.                       *)
(*                                                                         *)
(* The mappers compare with the static field sourceNode, which the parser's*)
(* reducer has set in its own JVM: seen is the value they find there.      *)
(***************************************************************************)
EXTENDS Integers, FiniteSets

CONSTANTS
    Nodes,     \* node numbers
    Source,    \* the argument sourceNode
    Default,   \* what a static int is in a JVM that has not set it
    INFINITE,  \* the distance 100000, which stands for none
    MaxEdges   \* bound: lines of the input

ASSUME BfsAssumption ==
    /\ Source \in Nodes
    /\ INFINITE \in Nat \ {0}
    /\ MaxEdges \in Nat

VARIABLES
    edges,    \* the input: lines "start end"
    dist,     \* history: the distances of the nodes in that graph, however large
    seen,     \* sourceNode in the mappers' JVM
    phase,    \* "parse", "map", "reduce", "output", "done"
    table,    \* the nodes in the file adjacentList
    emitted,  \* records of the mappers of this round
    mapped,   \* lines of the table that are mapped
    reduced,  \* keys that are reduced
    next,     \* the table the reducers write
    gray,     \* GrayCounter.COUNT of this round
    round,    \* counted up to MaxEdges + 1
    result    \* the lines of the output

vars == <<edges, dist, seen, phase, table, emitted, mapped, reduced, next, gray, round, result>>

WHITE == 0  \* getColorIndex
GRAY == 1
BLACK == 2

\* A Node; list is empty for the list of one -1.
Node(list, distance, color) == [list |-> list, distance |-> distance, color |-> color]
NoNode == [list |-> {}, distance |-> INFINITE, color |-> -1]
NoNodes == [n \in Nodes |-> NoNode]
Lines(t) == {n \in Nodes : t[n] # NoNode}

Neighbours(n) == {m \in Nodes : <<n, m>> \in edges}

NoPath == -1

\* The distances: 0 at the source, one more than at some predecessor and at most one
\* more than at any, NoPath where no path leads.
IsDistance(D, E) ==
    /\ \A n \in Nodes : D[n] = 0 <=> n = Source
    /\ \A u, v \in Nodes : <<u, v>> \in E /\ D[u] # NoPath => D[v] # NoPath /\ D[v] <= D[u] + 1
    /\ \A v \in Nodes \ {Source} : D[v] # NoPath =>
        \E u \in Nodes : <<u, v>> \in E /\ D[u] # NoPath /\ D[v] = D[u] + 1

Init ==
    /\ edges \in SUBSET (Nodes \X Nodes)
    /\ Cardinality(edges) <= MaxEdges
    /\ dist \in [Nodes -> {NoPath} \cup 0 .. MaxEdges] /\ IsDistance(dist, edges)
    /\ seen \in {Source, Default}
    /\ phase = "parse"
    /\ table = NoNodes /\ next = NoNodes
    /\ emitted = {} /\ mapped = {} /\ reduced = {}
    /\ gray = 0 /\ round = 0 /\ result = {}

\* Map_parser, Reduce_parser: one node for each start of an edge.
input_parsing ==
    /\ phase = "parse"
    /\ table' = [n \in Nodes |->
           IF Neighbours(n) = {} THEN NoNode
           ELSE Node(Neighbours(n), IF n = Source THEN 0 ELSE INFINITE, WHITE)]
    /\ phase' = "map"
    /\ UNCHANGED <<edges, dist, seen, emitted, mapped, reduced, next, gray, round, result>>

Record(n, node) == [key |-> n, node |-> node]

\* Plausible bug: a node that stays unreached is made nearer with every round.
OneFurtherAlways(d) == d + 1

OneFurther(d) == IF d = INFINITE THEN INFINITE ELSE d + 1

\* Map_Iteration: the source is painted gray in every round; a gray node becomes black
\* and its neighbours gray.
Emits(n) ==
    LET N == table[n] IN
    IF n # seen /\ N.color # GRAY THEN {Record(n, N)}
    ELSE {Record(n, Node(N.list, N.distance, BLACK))}
           \cup {Record(m, Node({}, OneFurther(N.distance), GRAY)) : m \in N.list}

Map(n) ==
    /\ phase = "map" /\ n \in Lines(table) \ mapped
    /\ emitted' = emitted \cup Emits(n)
    /\ mapped' = mapped \cup {n}
    /\ UNCHANGED <<edges, dist, seen, phase, table, reduced, next, gray, round, result>>

Shuffle ==
    /\ phase = "map" /\ mapped = Lines(table)
    /\ phase' = "reduce"
    /\ UNCHANGED <<edges, dist, seen, table, emitted, mapped, reduced, next, gray, round, result>>

\* The nodes that the values of a key say it is.
Values(n) == {r.node : r \in {q \in emitted : q.key = n}}

\* Plausible bug: the lightest color is kept.
DarkestReversed(V) == CHOOSE c \in {v.color : v \in V} : \A v \in V : c <= v.color

Darkest(V) == CHOOSE c \in {v.color : v \in V} : \A v \in V : v.color <= c
Least(V) == CHOOSE d \in {v.distance : v \in V} : \A v \in V : d <= v.distance

\* Reduce_Iteration: the list of the one that has one, the least distance, the darkest color.
Combined(V) == Node(UNION {v.list : v \in V}, Least(V), Darkest(V))

\* Plausible bug: the counter is incremented for the records, before they are combined.
ReduceCountsRecords(n) ==
    /\ phase = "reduce" /\ Values(n) # {} /\ n \notin reduced
    /\ next' = [next EXCEPT ![n] = Combined(Values(n))]
    /\ gray' = gray + Cardinality({v \in Values(n) : v.color = GRAY})
    /\ reduced' = reduced \cup {n}
    /\ UNCHANGED <<edges, dist, seen, phase, table, emitted, mapped, round, result>>

Reduce(n) ==
    /\ phase = "reduce" /\ Values(n) # {} /\ n \notin reduced
    /\ next' = [next EXCEPT ![n] = Combined(Values(n))]
    /\ gray' = IF Darkest(Values(n)) = GRAY THEN gray + 1 ELSE gray
    /\ reduced' = reduced \cup {n}
    /\ UNCHANGED <<edges, dist, seen, phase, table, emitted, mapped, round, result>>

\* Plausible bug: main stops one round early, when at most one gray node is left.
GoesOnEarly(count) == count > 1

GoesOn(count) == count # 0

\* main: the output of a round is the input of the next one; the counter is a job's.
iteration ==
    /\ phase = "reduce" /\ \A n \in Nodes : Values(n) # {} => n \in reduced
    /\ table' = next /\ next' = NoNodes
    /\ emitted' = {} /\ mapped' = {} /\ reduced' = {} /\ gray' = 0
    /\ round' = IF round <= MaxEdges THEN round + 1 ELSE round
    /\ phase' = IF GoesOn(gray) THEN "map" ELSE "output"
    /\ UNCHANGED <<edges, dist, seen, result>>

\* Map_output, Reduce_output: the black nodes.
Output ==
    /\ phase = "output"
    /\ result' = {<<n, table[n].distance>> : n \in {m \in Nodes : table[m].color = BLACK}}
    /\ phase' = "done"
    /\ UNCHANGED <<edges, dist, seen, table, emitted, mapped, reduced, next, gray, round>>

Next ==
    \/ input_parsing
    \/ \E n \in Nodes : Map(n) \/ Reduce(n)
    \/ Shuffle \/ iteration \/ Output

Spec == Init /\ [][Next]_vars

\* The framework runs every task it has.
FairSpec == Spec /\ WF_vars(Next)

-----------------------------------------------------------------------------
(* Properties *)

TableType == [Nodes -> [list : SUBSET Nodes, distance : 0 .. INFINITE, color : {WHITE, GRAY, BLACK}]
                        \cup {NoNode}]

\* The tables hold nodes; the counter counts at most the keys reduced.
TypeOK ==
    /\ phase \in {"parse", "map", "reduce", "output", "done"}
    /\ table \in TableType /\ next \in TableType
    /\ mapped \subseteq Nodes /\ reduced \subseteq Nodes
    /\ gray \in Nat /\ round \in Nat

\* The mappers know the source, and the source has a line of its own. The first holds
\* where the parser's reducer has run in the mappers' JVM (Hadoop's local runner) or
\* the source is node 0; mappers in JVMs of their own, as on a cluster, start from
\* node 0 at distance INFINITE, and what is put out is wrong.
Rooted == seen = Source /\ Neighbours(Source) # {}

Reached(n) == dist[n] # NoPath

\* A distance as the search can show it.
Shown(d) == IF d < INFINITE THEN d ELSE INFINITE

\* When the mappers know the source: whatever the order of the tasks, after k rounds
\* the nodes nearer than k are black, those at k are gray, all of them with their
\* distance as far as INFINITE, and the others white or absent.
FrontierIsLevel ==
    Rooted /\ phase \in {"map", "reduce", "output"} => \A n \in Nodes :
        IF Reached(n) /\ dist[n] <= round
        THEN /\ table[n].distance = Shown(dist[n])
             /\ table[n].color = IF round = 0 THEN WHITE ELSE IF dist[n] < round THEN BLACK ELSE GRAY
             /\ table[n].list = Neighbours(n)
        ELSE table[n] = IF Neighbours(n) = {} THEN NoNode ELSE Node(Neighbours(n), INFINITE, WHITE)

\* When the mappers know the source: what is written out are the nodes a path from it
\* leads to, each with the length of a shortest one, or with INFINITE where that is
\* INFINITE or more.
OutputIsDistance ==
    Rooted /\ phase = "done" => result = {<<n, Shown(dist[n])>> : n \in {m \in Nodes : Reached(m)}}

\* The rounds come to an end, though the source is painted gray in each of them, and
\* also when the mappers take another node for the source.
Terminates == <>(phase = "done")
=============================================================================
