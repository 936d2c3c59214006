------------------------------- MODULE Router -------------------------------
(***************************************************************************)
(* The distance-vector routers of router.c.  Each router handles one       *)
(* message at a time, under its mutex, so a handler is one action; the     *)
(* messages of a connection between two routers arrive in the order in     *)
(* which they were sent.  An agent (an operator's program) changes link    *)
(* costs (UPDATE) and then tells routers to send their vectors (DV).       *)
(***************************************************************************)
EXTENDS Integers, Sequences, FiniteSetsExt

CONSTANTS
    Routers,     \* the routers, numbered as in the location file
    TC,          \* TC[r][n]: cost of the link r -> n in the topology file, or None
    Weights,     \* link costs the agent may send
    Disconnect,  \* the weight that means no link: 1000
    Cap,         \* a path cost no path may reach: 1000*10
    MaxUpdates   \* bound: the agent sends this many UPDATEs

None == -1

\* The topology has no link of a router to itself and none that costs too much.
ASSUME RouterAssumption ==
    /\ Routers \subseteq Nat /\ IsFiniteSet(Routers)
    /\ TC \in [Routers -> [Routers -> (Nat \ {0}) \cup {None}]]
    /\ \A r, n \in Routers : TC[r][n] < Cap
    /\ \A r \in Routers : TC[r][r] = None
    /\ Weights \subseteq Nat \ {0}
    /\ Disconnect \in Nat \ {0}
    /\ Cap \in Nat \ {0}
    /\ MaxUpdates \in Nat

VARIABLES
    linkCost,       \* linkCost[r][n]: router_set[n].linkCost at router r
    DVTable,        \* DVTable[r][n][d]: what r knows of the distance from n to d
    routing_table,  \* routing_table[r][d]: next hop and cost; NoRoute: available[d] = 0
    connected,      \* connected[r]: the routers r has a connection to
    wire,           \* wire[r][n]: sent by r over that connection, not yet read by n
    owed,           \* routers whose links the agent has set and not yet told to notify
    updates         \* UPDATEs sent

vars == <<linkCost, DVTable, routing_table, connected, wire, owed, updates>>

DVMSG(row) == [type |-> "DVMSG", row |-> row]
CLOSE == [type |-> "CLOSE"]
NoRoute == [nextHop |-> None, pathCost |-> None]

-----------------------------------------------------------------------------
(* min_DV and recompute, at a router r with these links and this table *)

\* Plausible bug: -1 is taken for a cost.
ViaUnchecked(r, link, table, d) == Routers \ {r}

\* Neighbours that know a path to d.
Via(r, link, table, d) ==
    {n \in Routers \ {r} : link[n] # None /\ table[n][d] # None}

PathCost(link, table, n, d) == link[n] + table[n][d]

\* The least cost to d over a neighbour; None when there is no neighbour or the
\* cost is too large.
min_DV(r, link, table, d) ==
    LET costs == {PathCost(link, table, n, d) : n \in Via(r, link, table, d)} IN
    IF costs = {} \/ Min(costs) >= Cap THEN None ELSE Min(costs)

\* The first neighbour, by index, that offers it.
NextHop(r, link, table, d) ==
    Min({n \in Via(r, link, table, d) :
            PathCost(link, table, n, d) = min_DV(r, link, table, d)})

\* The row recompute() leaves in DVTable[ownIndex].
NewRow(r, link, table) ==
    [d \in Routers |-> IF d = r THEN table[r][r] ELSE min_DV(r, link, table, d)]

\* Plausible bug: the routing table is written only on the first change.
NewRoutesOnce(r, link, table) ==
    LET row == NewRow(r, link, table) IN
    [d \in Routers |-> IF routing_table[r][d] = NoRoute /\ row[d] # table[r][d] /\ row[d] # None
                       THEN [nextHop |-> NextHop(r, link, table, d), pathCost |-> row[d]]
                       ELSE routing_table[r][d]]

\* The routing table is written where the row changed, unless to None.
NewRoutes(r, link, table) ==
    LET row == NewRow(r, link, table) IN
    [d \in Routers |-> IF row[d] # table[r][d] /\ row[d] # None
                       THEN [nextHop |-> NextHop(r, link, table, d), pathCost |-> row[d]]
                       ELSE routing_table[r][d]]

\* Plausible bug: the routing table follows, the distance table does not.
RecomputeRoutesOnly(r, link, table) ==
    /\ DVTable' = [DVTable EXCEPT ![r] = table]
    /\ routing_table' = [routing_table EXCEPT ![r] = NewRoutes(r, link, table)]

recompute(r, link, table) ==
    /\ DVTable' = [DVTable EXCEPT ![r] = [table EXCEPT ![r] = NewRow(r, link, table)]]
    /\ routing_table' = [routing_table EXCEPT ![r] = NewRoutes(r, link, table)]

-----------------------------------------------------------------------------
Init ==
    /\ linkCost = TC
    /\ DVTable = [r \in Routers |-> [n \in Routers |-> [d \in Routers |->
                    IF n = d THEN 0 ELSE IF n = r THEN TC[r][d] ELSE None]]]
    /\ routing_table = [r \in Routers |-> [d \in Routers |->
                    IF TC[r][d] = None THEN NoRoute
                    ELSE [nextHop |-> d, pathCost |-> TC[r][d]]]]
    /\ connected = [r \in Routers |-> {}]
    /\ wire = [r \in Routers |-> [n \in Routers |-> <<>>]]
    /\ owed = Routers
    /\ updates = 0

Neighbours(r) == {n \in Routers : linkCost[r][n] # None}

\* Plausible bug: a connection just made is not used until the next time.
dv_func_OldConnections(r, row, before) ==
    /\ connected' = [connected EXCEPT ![r] = Neighbours(r)]
    /\ wire' = [before EXCEPT ![r] = [n \in Routers |->
                  IF n \notin connected[r] THEN @[n]
                  ELSE Append(@[n], IF n \in Neighbours(r) THEN DVMSG(row) ELSE CLOSE)]]

\* dv_func and connection at router r, whose row is row, with before on the
\* wires: connect to new neighbours, CLOSE the connections to former ones, send
\* the row to the others.
dv_func(r, row, before) ==
    /\ connected' = [connected EXCEPT ![r] = Neighbours(r)]
    /\ wire' = [before EXCEPT ![r] = [n \in Routers |->
                  IF n \in Neighbours(r) THEN Append(@[n], DVMSG(row))
                  ELSE IF n \in connected[r] THEN Append(@[n], CLOSE)
                  ELSE @[n]]]

\* The agent's DV command.
Notify(r) ==
    /\ r \in owed
    /\ dv_func(r, DVTable[r][r], wire)
    /\ owed' = owed \ {r}
    /\ UNCHANGED <<linkCost, DVTable, routing_table, updates>>

\* The agent's UPDATE: recompute, but do not propagate.  The agent restores a
\* link only once what was sent over its old connection has been read.
Update(r, n, weight) ==
    LET link == [linkCost[r] EXCEPT ![n] = IF weight = Disconnect THEN None ELSE weight] IN
    /\ updates < MaxUpdates
    /\ n # r
    /\ link # linkCost[r]
    /\ linkCost[r][n] = None => wire[r][n] = <<>>
    /\ linkCost' = [linkCost EXCEPT ![r] = link]
    /\ recompute(r, link, DVTable[r])
    /\ owed' = owed \cup {r}
    /\ updates' = updates + 1
    /\ UNCHANGED <<connected, wire>>

\* Plausible bug: a router that learns keeps it to itself.
NotifyNobody(r, row, table, read) == wire' = read /\ UNCHANGED connected

\* if (recompute()) dv_func(): notify when the own row changed.
NotifyIfChanged(r, row, table, read) ==
    \/ row # table[r] /\ dv_func(r, row, read)
    \/ row = table[r] /\ wire' = read /\ UNCHANGED connected

\* routing: r stores the row n sent, recomputes, and notifies if that changed
\* its own row.
Routing(r, n) ==
    LET table == [DVTable[r] EXCEPT ![n] = Head(wire[n][r]).row]
        row == NewRow(r, linkCost[r], table)
        read == [wire EXCEPT ![n][r] = Tail(@)] IN
    /\ wire[n][r] # <<>>
    /\ Head(wire[n][r]).type = "DVMSG"
    /\ recompute(r, linkCost[r], table)
    /\ NotifyIfChanged(r, row, table, read)
    /\ UNCHANGED <<linkCost, owed, updates>>

\* The thread that serves the connection ends.
Close(r, n) ==
    /\ wire[n][r] # <<>>
    /\ Head(wire[n][r]).type = "CLOSE"
    /\ wire' = [wire EXCEPT ![n][r] = Tail(@)]
    /\ UNCHANGED <<linkCost, DVTable, routing_table, connected, owed, updates>>

Next ==
    \E r \in Routers :
        \/ Notify(r)
        \/ \E n \in Routers, weight \in Weights : Update(r, n, weight)
        \/ \E n \in Routers : Routing(r, n) \/ Close(r, n)

Spec == Init /\ [][Next]_vars

\* Messages are read, and the agent tells every router whose links it has set.
\* It need not set any.
Fairness ==
    \A r \in Routers :
        /\ WF_vars(Notify(r))
        /\ \A n \in Routers : WF_vars(Routing(r, n)) /\ WF_vars(Close(r, n))

FairSpec == Spec /\ Fairness

-----------------------------------------------------------------------------
(***************************************************************************)
(* What the distances should be: the least cost of a simple path.          *)
(***************************************************************************)
SimplePaths(a, d) ==
    {p \in UNION {[1 .. k -> Routers] : k \in 2 .. Cardinality(Routers)} :
        /\ p[1] = a /\ p[Len(p)] = d
        /\ \A i, j \in DOMAIN p : p[i] = p[j] => i = j}

Usable(p) == \A i \in 1 .. Len(p) - 1 : linkCost[p[i]][p[i + 1]] # None

Cost(p) ==
    LET sum[i \in 1 .. Len(p)] ==
            IF i = 1 THEN 0 ELSE sum[i - 1] + linkCost[p[i - 1]][p[i]]
    IN  sum[Len(p)]

Distance(a, d) ==
    LET costs == {Cost(p) : p \in {q \in SimplePaths(a, d) : Usable(q)}} IN
    IF costs = {} \/ Min(costs) >= Cap THEN None ELSE Min(costs)

\* Routers hear only from those who have a link to them.
LinksAreMutual ==
    \A r, n \in Routers : linkCost[r][n] = None <=> linkCost[n][r] = None

DistancesExact ==
    \A r \in Routers, d \in Routers : r # d => DVTable[r][r][d] = Distance(r, d)

-----------------------------------------------------------------------------
Costs == Nat \cup {None}
Rows == [Routers -> Costs]

TypeOK ==
    /\ linkCost \in [Routers -> [Routers -> (Nat \ {0}) \cup {None}]]
    /\ DVTable \in [Routers -> [Routers -> Rows]]
    /\ routing_table \in [Routers -> [Routers ->
            [nextHop : Routers \cup {None}, pathCost : Costs]]]
    /\ connected \in [Routers -> SUBSET Routers]
    /\ wire \in [Routers -> [Routers -> Seq([type : {"DVMSG"}, row : Rows] \cup {CLOSE})]]
    /\ owed \subseteq Routers
    /\ updates \in 0 .. MaxUpdates

\* Every router's own row is the minimum over its neighbours' rows as it knows
\* them, whatever order updates and vectors arrived in.
OwnRowIsMinimum ==
    \A r, d \in Routers : d # r =>
        DVTable[r][r][d] = min_DV(r, linkCost[r], DVTable[r], d)

\* As long as a router knows a path to d, its routing table shows that cost.
RouteCostIsDistance ==
    \A r, d \in Routers : d # r /\ DVTable[r][r][d] # None =>
        routing_table[r][d].pathCost = DVTable[r][r][d]

\* When no vector is on its way and the agent has notified every router it
\* changed, all the distances are exact.
QuietMeansExact ==
    /\ owed = {}
    /\ \A r, n \in Routers : wire[r][n] = <<>>
    /\ LinksAreMutual
    => DistancesExact

\* After the last update the routers agree on exact distances and keep them:
\* counting up over a link that is gone ends at the cap.
Converges == <>[](LinksAreMutual => DistancesExact)
=============================================================================
