--------------------------- MODULE Router_proofs ---------------------------
(***************************************************************************)
(* Proofs about Router for any number of routers, any topology and any     *)
(* number of updates: a router's own row is the minimum over what it knows *)
(* of its neighbours, and its routing table shows the costs of that row.   *)
(***************************************************************************)
EXTENDS Router, WellOrder, FiniteSetTheorems, SequenceTheorems

\* The keys of the tables of a router.
Tables ==
    /\ DOMAIN linkCost = Routers
    /\ DOMAIN DVTable = Routers
    /\ DOMAIN routing_table = Routers
    /\ DOMAIN connected = Routers
    /\ DOMAIN wire = Routers
    /\ \A r \in Routers : /\ DOMAIN linkCost[r] = Routers
                          /\ DOMAIN DVTable[r] = Routers
                          /\ DOMAIN routing_table[r] = Routers
                          /\ DOMAIN wire[r] = Routers

\* A router is not its own neighbour and gets no vector from itself.
NoSelfLink ==
    \A r \in Routers : /\ linkCost[r][r] = None
                       /\ r \notin connected[r]
                       /\ wire[r][r] = <<>>

RowInv == Tables /\ NoSelfLink /\ OwnRowIsMinimum /\ RouteCostIsDistance

-----------------------------------------------------------------------------
\* What a router computes does not depend on its own row.
LEMMA OwnRowUnused ==
    ASSUME NEW r, NEW link, NEW table, NEW other, NEW d,
           \A n \in Routers \ {r} : other[n] = table[n]
    PROVE  min_DV(r, link, other, d) = min_DV(r, link, table, d)
<1>1. Via(r, link, other, d) = Via(r, link, table, d)
  BY DEF Via
<1>2. \A n \in Via(r, link, table, d) :
        PathCost(link, other, n, d) = PathCost(link, table, n, d)
  BY DEF Via, PathCost
<1>3. {PathCost(link, other, n, d) : n \in Via(r, link, other, d)}
        = {PathCost(link, table, n, d) : n \in Via(r, link, table, d)}
  BY <1>1, <1>2
<1> QED
  BY <1>3 DEF min_DV

\* The least element of a set of one number.
LEMMA MinOfOne == ASSUME NEW x \in Int PROVE Min({x}) = x
  BY DEF Min

-----------------------------------------------------------------------------
\* Both handlers that change a distance table end in recompute(): after it the
\* router's row is the minimum, and its routes have the costs of that row.
LEMMA RecomputeMakesMinimum ==
    ASSUME NEW r \in Routers, NEW link, NEW table,
           RowInv,
           DOMAIN table = Routers,
           table[r] = DVTable[r][r],
           recompute(r, link, table)
    PROVE  /\ \A d \in Routers \ {r} :
                DVTable'[r][r][d] = min_DV(r, link, DVTable'[r], d)
           /\ \A d \in Routers \ {r} : DVTable'[r][r][d] # None =>
                routing_table'[r][d].pathCost = DVTable'[r][r][d]
           /\ \A n \in Routers \ {r} : DVTable'[n] = DVTable[n]
           /\ \A n \in Routers \ {r} : routing_table'[n] = routing_table[n]
           /\ DOMAIN DVTable' = Routers /\ DOMAIN routing_table' = Routers
           /\ DOMAIN DVTable'[r] = Routers /\ DOMAIN routing_table'[r] = Routers
<1> DEFINE row == NewRow(r, link, table)
<1>1. DVTable' = [DVTable EXCEPT ![r] = [table EXCEPT ![r] = row]]
      /\ DVTable'[r] = [table EXCEPT ![r] = row]
      /\ DVTable'[r][r] = row
  BY DEF recompute, RowInv, Tables
<1>2. routing_table'[r] = NewRoutes(r, link, table)
      /\ routing_table' = [routing_table EXCEPT ![r] = NewRoutes(r, link, table)]
  BY DEF recompute, RowInv, Tables
<1>3. \A d \in Routers \ {r} : row[d] = min_DV(r, link, table, d)
  BY DEF NewRow
<1>4. \A d \in Routers \ {r} : DVTable'[r][r][d] = min_DV(r, link, DVTable'[r], d)
  <2> TAKE d \in Routers \ {r}
  <2>1. \A n \in Routers \ {r} : DVTable'[r][n] = table[n]
    BY <1>1
  <2>2. min_DV(r, link, DVTable'[r], d) = min_DV(r, link, table, d)
    BY <2>1, OwnRowUnused
  <2> QED
    BY <1>1, <1>3, <2>2
<1>5. ASSUME NEW d \in Routers \ {r}, row[d] # None
      PROVE  routing_table'[r][d].pathCost = row[d]
  <2>1. CASE row[d] # table[r][d]
    BY <2>1, <1>2, <1>5 DEF NewRoutes
  <2>2. CASE row[d] = table[r][d]
    <3>1. routing_table'[r][d] = routing_table[r][d]
      BY <2>2, <1>2 DEF NewRoutes
    <3>2. DVTable[r][r][d] # None
      BY <2>2, <1>5
    <3>3. routing_table[r][d].pathCost = DVTable[r][r][d]
      BY <3>2 DEF RowInv, RouteCostIsDistance
    <3> QED
      BY <2>2, <3>1, <3>3
  <2> QED
    BY <2>1, <2>2
<1>6. /\ \A n \in Routers \ {r} : DVTable'[n] = DVTable[n]
      /\ \A n \in Routers \ {r} : routing_table'[n] = routing_table[n]
  BY <1>1, <1>2 DEF RowInv, Tables
<1>7. /\ DOMAIN DVTable' = Routers /\ DOMAIN routing_table' = Routers
      /\ DOMAIN DVTable'[r] = Routers /\ DOMAIN routing_table'[r] = Routers
  BY <1>1, <1>2 DEF RowInv, Tables, NewRoutes
<1> QED
  BY <1>1, <1>4, <1>5, <1>6, <1>7

\* Sending or closing touches no wire of a router to itself.
LEMMA SendingKeepsWires ==
    ASSUME RowInv, NEW r \in Routers, NEW row, NEW before,
           DOMAIN before = Routers,
           \A n \in Routers : DOMAIN before[n] = Routers /\ before[n][n] = <<>>,
           dv_func(r, row, before)
    PROVE  /\ DOMAIN connected' = Routers /\ DOMAIN wire' = Routers
           /\ \A n \in Routers : /\ DOMAIN wire'[n] = Routers
                                 /\ wire'[n][n] = <<>>
                                 /\ n \notin connected'[n]
<1>1. r \notin Neighbours(r) /\ r \notin connected[r]
  BY DEF RowInv, NoSelfLink, Neighbours
<1>2. /\ connected' = [connected EXCEPT ![r] = Neighbours(r)]
      /\ wire' = [before EXCEPT ![r] = [n \in Routers |->
                    IF n \in Neighbours(r) THEN Append(before[r][n], DVMSG(row))
                    ELSE IF n \in connected[r] THEN Append(before[r][n], CLOSE)
                    ELSE before[r][n]]]
  BY DEF dv_func
<1> QED
  BY <1>1, <1>2 DEF RowInv, Tables, NoSelfLink

-----------------------------------------------------------------------------
LEMMA RowInit == Init => RowInv
<1> SUFFICES ASSUME Init
             PROVE  RowInv
  OBVIOUS
<1>1. Tables /\ NoSelfLink
  BY RouterAssumption DEF Init, Tables, NoSelfLink
<1>2. RouteCostIsDistance
  BY RouterAssumption DEF Init, RouteCostIsDistance, NoRoute
<1>3. ASSUME NEW r \in Routers, NEW d \in Routers, d # r
      PROVE  DVTable[r][r][d] = min_DV(r, linkCost[r], DVTable[r], d)
  <2> DEFINE via == Via(r, linkCost[r], DVTable[r], d)
             costs == {PathCost(linkCost[r], DVTable[r], n, d) : n \in via}
  <2>1. \A n \in Routers \ {r} : DVTable[r][n][d] = IF n = d THEN 0 ELSE None
    BY DEF Init
  <2>2. DVTable[r][r][d] = TC[r][d] /\ linkCost[r] = TC[r]
    BY <1>3 DEF Init
  <2>3. CASE TC[r][d] = None
    <3>1. via = {}
      BY <2>1, <2>2, <2>3 DEF Via, None
    <3>2. costs = {}
      BY <3>1
    <3> QED
      BY <2>2, <2>3, <3>2 DEF min_DV
  <2>4. CASE TC[r][d] # None
    <3>1. via = {d}
      BY <1>3, <2>1, <2>2, <2>4 DEF Via, None
    <3>2. TC[r][d] \in Nat /\ TC[r][d] < Cap /\ Cap \in Nat
      BY <2>4, RouterAssumption
    <3>3. PathCost(linkCost[r], DVTable[r], d, d) = TC[r][d]
      BY <1>3, <2>1, <2>2, <3>2 DEF PathCost
    <3>4. costs = {TC[r][d]}
      BY <3>1, <3>3
    <3>5. Min(costs) = TC[r][d]
      BY <3>2, <3>4, MinOfOne
    <3>6. ~ (costs = {} \/ Min(costs) >= Cap)
      BY <3>2, <3>4, <3>5
    <3> QED
      BY <2>2, <3>5, <3>6 DEF min_DV
  <2> QED
    BY <2>3, <2>4
<1>4. OwnRowIsMinimum
  BY <1>3 DEF OwnRowIsMinimum
<1> QED
  BY <1>1, <1>2, <1>4 DEF RowInv

LEMMA RowStep == RowInv /\ [Next]_vars => RowInv'
<1> SUFFICES ASSUME RowInv, [Next]_vars
             PROVE  RowInv'
  OBVIOUS
<1>1. ASSUME NEW r \in Routers, Notify(r)
      PROVE  RowInv'
  <2>1. dv_func(r, DVTable[r][r], wire)
        /\ UNCHANGED <<linkCost, DVTable, routing_table>>
    BY <1>1 DEF Notify
  <2>2. DOMAIN wire = Routers
        /\ \A n \in Routers : DOMAIN wire[n] = Routers /\ wire[n][n] = <<>>
    BY DEF RowInv, Tables, NoSelfLink
  <2>3. /\ DOMAIN connected' = Routers /\ DOMAIN wire' = Routers
        /\ \A n \in Routers : /\ DOMAIN wire'[n] = Routers
                              /\ wire'[n][n] = <<>>
                              /\ n \notin connected'[n]
    BY <2>1, <2>2, SendingKeepsWires
  <2>4. Tables' /\ NoSelfLink'
    BY <2>1, <2>3 DEF RowInv, Tables, NoSelfLink
  <2>5. OwnRowIsMinimum' /\ RouteCostIsDistance'
    BY <2>1 DEF RowInv, OwnRowIsMinimum, RouteCostIsDistance, min_DV, Via, PathCost
  <2> QED
    BY <2>4, <2>5 DEF RowInv
<1>2. ASSUME NEW r \in Routers, NEW n \in Routers, NEW weight \in Weights,
             Update(r, n, weight)
      PROVE  RowInv'
  <2> DEFINE cost == IF weight = Disconnect THEN None ELSE weight
             link == [linkCost[r] EXCEPT ![n] = cost]
  <2>1. /\ n # r
        /\ linkCost' = [linkCost EXCEPT ![r] = link]
        /\ recompute(r, link, DVTable[r])
        /\ UNCHANGED <<connected, wire>>
    BY <1>2 DEF Update
  <2>2. /\ DOMAIN linkCost' = Routers
        /\ linkCost'[r] = link
        /\ \A q \in Routers \ {r} : linkCost'[q] = linkCost[q]
        /\ DOMAIN link = Routers /\ link[r] = None
    BY <2>1 DEF RowInv, Tables, NoSelfLink
  <2>3. DOMAIN DVTable[r] = Routers
    BY DEF RowInv, Tables
  <2> HIDE DEF link
  <2>4. /\ \A d \in Routers \ {r} :
             DVTable'[r][r][d] = min_DV(r, link, DVTable'[r], d)
        /\ \A d \in Routers \ {r} : DVTable'[r][r][d] # None =>
             routing_table'[r][d].pathCost = DVTable'[r][r][d]
        /\ \A q \in Routers \ {r} : DVTable'[q] = DVTable[q]
        /\ \A q \in Routers \ {r} : routing_table'[q] = routing_table[q]
        /\ DOMAIN DVTable' = Routers /\ DOMAIN routing_table' = Routers
        /\ DOMAIN DVTable'[r] = Routers /\ DOMAIN routing_table'[r] = Routers
    BY <2>1, <2>3, RecomputeMakesMinimum
  <2>5. Tables' /\ NoSelfLink'
    BY <2>1, <2>2, <2>4 DEF RowInv, Tables, NoSelfLink
  <2>6. OwnRowIsMinimum'
    <3>1. ASSUME NEW q \in Routers, NEW d \in Routers, d # q
          PROVE  DVTable'[q][q][d] = min_DV(q, linkCost'[q], DVTable'[q], d)
      BY <2>2, <2>4, <3>1 DEF RowInv, OwnRowIsMinimum
    <3> QED
      BY <3>1 DEF OwnRowIsMinimum
  <2>7. RouteCostIsDistance'
    BY <2>4 DEF RowInv, RouteCostIsDistance
  <2> QED
    BY <2>5, <2>6, <2>7 DEF RowInv
<1>3. ASSUME NEW r \in Routers, NEW n \in Routers, Routing(r, n)
      PROVE  RowInv'
  <2> DEFINE table == [DVTable[r] EXCEPT ![n] = Head(wire[n][r]).row]
             row == NewRow(r, linkCost[r], table)
             read == [wire EXCEPT ![n][r] = Tail(wire[n][r])]
  <2>1. /\ wire[n][r] # <<>>
        /\ recompute(r, linkCost[r], table)
        /\ NotifyIfChanged(r, row, table, read)
        /\ UNCHANGED linkCost
    BY <1>3 DEF Routing
  <2>2. n # r
    BY <2>1 DEF RowInv, NoSelfLink
  <2>3. DOMAIN table = Routers /\ table[r] = DVTable[r][r]
    BY <2>2 DEF RowInv, Tables
  <2>4. DOMAIN read = Routers
        /\ \A q \in Routers : DOMAIN read[q] = Routers /\ read[q][q] = <<>>
    BY <2>2 DEF RowInv, Tables, NoSelfLink
  <2> HIDE DEF table, row, read
  <2>5. /\ \A d \in Routers \ {r} :
             DVTable'[r][r][d] = min_DV(r, linkCost[r], DVTable'[r], d)
        /\ \A d \in Routers \ {r} : DVTable'[r][r][d] # None =>
             routing_table'[r][d].pathCost = DVTable'[r][r][d]
        /\ \A q \in Routers \ {r} : DVTable'[q] = DVTable[q]
        /\ \A q \in Routers \ {r} : routing_table'[q] = routing_table[q]
        /\ DOMAIN DVTable' = Routers /\ DOMAIN routing_table' = Routers
        /\ DOMAIN DVTable'[r] = Routers /\ DOMAIN routing_table'[r] = Routers
    BY <2>1, <2>3, RecomputeMakesMinimum
  <2>6. /\ DOMAIN connected' = Routers /\ DOMAIN wire' = Routers
        /\ \A q \in Routers : /\ DOMAIN wire'[q] = Routers
                              /\ wire'[q][q] = <<>>
                              /\ q \notin connected'[q]
    <3>1. CASE dv_func(r, row, read)
      BY <3>1, <2>4, SendingKeepsWires
    <3>2. CASE wire' = read /\ UNCHANGED connected
      BY <3>2, <2>4 DEF RowInv, Tables, NoSelfLink
    <3> QED
      BY <2>1, <3>1, <3>2 DEF NotifyIfChanged
  <2>7. Tables' /\ NoSelfLink'
    BY <2>1, <2>5, <2>6 DEF RowInv, Tables, NoSelfLink
  <2>8. OwnRowIsMinimum'
    <3>1. ASSUME NEW q \in Routers, NEW d \in Routers, d # q
          PROVE  DVTable'[q][q][d] = min_DV(q, linkCost'[q], DVTable'[q], d)
      BY <2>1, <2>5, <3>1 DEF RowInv, OwnRowIsMinimum
    <3> QED
      BY <3>1 DEF OwnRowIsMinimum
  <2>9. RouteCostIsDistance'
    BY <2>5 DEF RowInv, RouteCostIsDistance
  <2> QED
    BY <2>7, <2>8, <2>9 DEF RowInv
<1>4. ASSUME NEW r \in Routers, NEW n \in Routers, Close(r, n)
      PROVE  RowInv'
  <2>1. /\ wire[n][r] # <<>>
        /\ wire' = [wire EXCEPT ![n][r] = Tail(@)]
        /\ UNCHANGED <<linkCost, DVTable, routing_table, connected>>
    BY <1>4 DEF Close
  <2>2. n # r
    BY <2>1 DEF RowInv, NoSelfLink
  <2>3. Tables' /\ NoSelfLink'
    BY <2>1, <2>2 DEF RowInv, Tables, NoSelfLink
  <2>4. OwnRowIsMinimum' /\ RouteCostIsDistance'
    BY <2>1 DEF RowInv, OwnRowIsMinimum, RouteCostIsDistance
  <2> QED
    BY <2>3, <2>4 DEF RowInv
<1>5. CASE UNCHANGED vars
  BY <1>5 DEF vars, RowInv, Tables, NoSelfLink, OwnRowIsMinimum, RouteCostIsDistance
<1> QED
  BY <1>1, <1>2, <1>3, <1>4, <1>5 DEF Next

-----------------------------------------------------------------------------
LEMMA RowInvariant == Spec => []RowInv
  BY RowInit, RowStep, PTL DEF Spec

\* Whatever order updates and vectors come in, after each of them a router's
\* own row is the minimum over its links and its neighbours' rows.
THEOREM RowsAreMinimal == Spec => []OwnRowIsMinimum
<1>1. RowInv => OwnRowIsMinimum
  BY DEF RowInv
<1> QED
  BY <1>1, RowInvariant, PTL

\* The routing table, written only on changes, does not fall behind the distance
\* table where that has a path.
THEOREM RoutesShowDistances == Spec => []RouteCostIsDistance
<1>1. RowInv => RouteCostIsDistance
  BY DEF RowInv
<1> QED
  BY <1>1, RowInvariant, PTL

-----------------------------------------------------------------------------
(* Types *)

LinkType == [Routers -> (Nat \ {0}) \cup {None}]
RouteType == [Routers -> [nextHop : Routers \cup {None}, pathCost : Costs]]
MessageType == [type : {"DVMSG"}, row : Rows] \cup {CLOSE}

\* The least of some numbers is one of them.
LEMMA MinIsLeast ==
    ASSUME NEW S, S \subseteq Nat, S # {}
    PROVE  Min(S) \in S /\ \A x \in S : Min(S) <= x
  BY LeastNatural DEF Min

\* A path cost is a number over a neighbour that knows a path, and over no other.
LEMMA PathCostType ==
    ASSUME NEW r, NEW link \in LinkType, NEW table \in [Routers -> Rows], NEW d \in Routers,
           NEW n \in Via(r, link, table, d)
    PROVE  n \in Routers /\ PathCost(link, table, n, d) \in Nat
  BY DEF Via, LinkType, Rows, Costs, None, PathCost

LEMMA MinDVType ==
    ASSUME NEW r, NEW link \in LinkType, NEW table \in [Routers -> Rows], NEW d \in Routers
    PROVE  /\ min_DV(r, link, table, d) \in Costs
           /\ min_DV(r, link, table, d) # None => NextHop(r, link, table, d) \in Routers
<1> DEFINE via == Via(r, link, table, d)
           costs == {PathCost(link, table, n, d) : n \in via}
<1>1. costs \subseteq Nat
  BY PathCostType
<1>2. min_DV(r, link, table, d) # None =>
        costs # {} /\ min_DV(r, link, table, d) = Min(costs)
  BY DEF min_DV
<1>3. costs # {} => Min(costs) \in costs
  BY <1>1, MinIsLeast
<1>4. min_DV(r, link, table, d) \in Costs
  BY <1>1, <1>2, <1>3 DEF Costs
<1>5. ASSUME min_DV(r, link, table, d) # None
      PROVE  NextHop(r, link, table, d) \in Routers
  <2> DEFINE hops == {n \in via : PathCost(link, table, n, d) = min_DV(r, link, table, d)}
  <2>1. hops # {}
    BY <1>2, <1>3, <1>5
  <2>2. hops \subseteq Routers /\ hops \subseteq Nat
    BY RouterAssumption DEF Via
  <2>3. Min(hops) \in hops
    BY <2>1, <2>2, MinIsLeast
  <2> QED
    BY <2>2, <2>3 DEF NextHop
<1> QED
  BY <1>4, <1>5

LEMMA RecomputeTypes ==
    ASSUME TypeOK, NEW r \in Routers, NEW link \in LinkType, NEW table \in [Routers -> Rows],
           recompute(r, link, table)
    PROVE  /\ NewRow(r, link, table) \in Rows
           /\ DVTable' \in [Routers -> [Routers -> Rows]]
           /\ routing_table' \in [Routers -> RouteType]
<1>1. NewRow(r, link, table) \in Rows
  <2>1. table[r][r] \in Costs
    BY DEF Rows
  <2> QED
    BY <2>1, MinDVType DEF NewRow, Rows
<1>2. NewRoutes(r, link, table) \in RouteType
  <2> DEFINE row == NewRow(r, link, table)
  <2>1. ASSUME NEW d \in Routers, row[d] # table[r][d], row[d] # None
        PROVE  [nextHop |-> NextHop(r, link, table, d), pathCost |-> row[d]]
                 \in [nextHop : Routers \cup {None}, pathCost : Costs]
    <3>1. d # r /\ row[d] = min_DV(r, link, table, d)
      BY <2>1 DEF NewRow
    <3> QED
      BY <2>1, <3>1, MinDVType
  <2>2. \A d \in Routers : routing_table[r][d] \in [nextHop : Routers \cup {None}, pathCost : Costs]
    BY DEF TypeOK
  <2> QED
    BY <2>1, <2>2 DEF NewRoutes, RouteType
<1>3. DVTable' = [DVTable EXCEPT ![r] = [table EXCEPT ![r] = NewRow(r, link, table)]]
      /\ routing_table' = [routing_table EXCEPT ![r] = NewRoutes(r, link, table)]
  BY DEF recompute
<1>4. [table EXCEPT ![r] = NewRow(r, link, table)] \in [Routers -> Rows]
  BY <1>1
<1>5. DVTable \in [Routers -> [Routers -> Rows]] /\ routing_table \in [Routers -> RouteType]
  BY DEF TypeOK, RouteType
<1> QED
  BY <1>1, <1>2, <1>3, <1>4, <1>5

LEMMA SendingTypes ==
    ASSUME TypeOK, NEW r \in Routers, NEW row \in Rows,
           NEW before \in [Routers -> [Routers -> Seq(MessageType)]],
           dv_func(r, row, before)
    PROVE  /\ connected' \in [Routers -> SUBSET Routers]
           /\ wire' \in [Routers -> [Routers -> Seq(MessageType)]]
<1>1. DVMSG(row) \in MessageType /\ CLOSE \in MessageType
  BY DEF DVMSG, MessageType
<1>2. Neighbours(r) \subseteq Routers
  BY DEF Neighbours
<1> DEFINE sent == [n \in Routers |->
                      IF n \in Neighbours(r) THEN Append(before[r][n], DVMSG(row))
                      ELSE IF n \in connected[r] THEN Append(before[r][n], CLOSE)
                      ELSE before[r][n]]
<1>3. sent \in [Routers -> Seq(MessageType)]
  <2>1. ASSUME NEW n \in Routers, NEW message \in MessageType
        PROVE  before[r][n] \in Seq(MessageType) /\ Append(before[r][n], message) \in Seq(MessageType)
    OBVIOUS
  <2> QED
    BY <1>1, <2>1
<1>4. connected' = [connected EXCEPT ![r] = Neighbours(r)] /\ wire' = [before EXCEPT ![r] = sent]
  BY DEF dv_func
<1> HIDE DEF sent
<1> QED
  BY <1>2, <1>3, <1>4 DEF TypeOK

LEMMA InitTypes == Init => TypeOK
<1> SUFFICES ASSUME Init PROVE TypeOK
  OBVIOUS
<1>1. \A r, d \in Routers : TC[r][d] \in (Nat \ {0}) \cup {None}
  BY RouterAssumption
<1>2. DVTable \in [Routers -> [Routers -> Rows]]
  BY <1>1 DEF Init, Rows, Costs
<1>3. routing_table \in [Routers -> [Routers -> [nextHop : Routers \cup {None}, pathCost : Costs]]]
  BY <1>1 DEF Init, Costs, NoRoute
<1> QED
  BY <1>2, <1>3, RouterAssumption DEF Init, TypeOK

LEMMA StepTypes == TypeOK /\ [Next]_vars => TypeOK'
<1> SUFFICES ASSUME TypeOK, [Next]_vars PROVE TypeOK'
  OBVIOUS
<1>1. /\ linkCost \in [Routers -> LinkType] /\ DVTable \in [Routers -> [Routers -> Rows]]
      /\ routing_table \in [Routers -> RouteType]
      /\ connected \in [Routers -> SUBSET Routers]
      /\ wire \in [Routers -> [Routers -> Seq(MessageType)]]
      /\ owed \subseteq Routers /\ updates \in 0 .. MaxUpdates /\ MaxUpdates \in Nat
  BY RouterAssumption DEF TypeOK, LinkType, RouteType, MessageType
<1>2. /\ linkCost' \in [Routers -> LinkType] /\ DVTable' \in [Routers -> [Routers -> Rows]]
      /\ routing_table' \in [Routers -> RouteType]
      /\ connected' \in [Routers -> SUBSET Routers]
      /\ wire' \in [Routers -> [Routers -> Seq(MessageType)]]
      /\ owed' \subseteq Routers /\ updates' \in 0 .. MaxUpdates
      => TypeOK'
  BY DEF TypeOK, LinkType, RouteType, MessageType
<1>3. ASSUME NEW r \in Routers, Notify(r) PROVE TypeOK'
  <2>1. dv_func(r, DVTable[r][r], wire) /\ DVTable[r][r] \in Rows
    BY <1>1, <1>3 DEF Notify
  <2>2. connected' \in [Routers -> SUBSET Routers]
        /\ wire' \in [Routers -> [Routers -> Seq(MessageType)]]
    BY <1>1, <2>1, SendingTypes
  <2> QED
    BY <1>1, <1>2, <1>3, <2>2 DEF Notify
<1>4. ASSUME NEW r \in Routers, NEW n \in Routers, NEW weight \in Weights, Update(r, n, weight)
      PROVE  TypeOK'
  <2> DEFINE link == [linkCost[r] EXCEPT ![n] = IF weight = Disconnect THEN None ELSE weight]
  <2>1. link \in LinkType
    BY <1>1, RouterAssumption DEF LinkType
  <2>2. /\ linkCost' = [linkCost EXCEPT ![r] = link] /\ recompute(r, link, DVTable[r])
        /\ updates < MaxUpdates /\ updates' = updates + 1 /\ owed' = owed \cup {r}
        /\ UNCHANGED <<connected, wire>>
    BY <1>4 DEF Update
  <2> HIDE DEF link
  <2>3. DVTable' \in [Routers -> [Routers -> Rows]] /\ routing_table' \in [Routers -> RouteType]
    BY <1>1, <2>1, <2>2, RecomputeTypes
  <2>4. linkCost' \in [Routers -> LinkType]
    BY <1>1, <2>1, <2>2
  <2> QED
    BY <1>1, <1>2, <2>2, <2>3, <2>4
<1>5. ASSUME NEW r \in Routers, NEW n \in Routers, Routing(r, n) PROVE TypeOK'
  <2> DEFINE table == [DVTable[r] EXCEPT ![n] = Head(wire[n][r]).row]
             read == [wire EXCEPT ![n][r] = Tail(@)]
  <2>1. wire[n][r] # <<>> /\ wire[n][r] \in Seq(MessageType) /\ Head(wire[n][r]).type = "DVMSG"
    BY <1>1, <1>5 DEF Routing
  <2>2. Head(wire[n][r]) \in MessageType /\ Tail(wire[n][r]) \in Seq(MessageType)
    BY <2>1
  <2>3. Head(wire[n][r]).row \in Rows
    BY <2>1, <2>2 DEF MessageType, CLOSE
  <2>4. table \in [Routers -> Rows]
    BY <1>1, <2>3
  <2>5. read \in [Routers -> [Routers -> Seq(MessageType)]]
    BY <1>1, <2>2
  <2>6. /\ recompute(r, linkCost[r], table)
        /\ NotifyIfChanged(r, NewRow(r, linkCost[r], table), table, read)
        /\ UNCHANGED <<linkCost, owed, updates>>
    BY <1>5 DEF Routing
  <2> HIDE DEF table, read
  <2>7. /\ NewRow(r, linkCost[r], table) \in Rows
        /\ DVTable' \in [Routers -> [Routers -> Rows]] /\ routing_table' \in [Routers -> RouteType]
    BY <1>1, <2>4, <2>6, RecomputeTypes
  <2>8. connected' \in [Routers -> SUBSET Routers]
        /\ wire' \in [Routers -> [Routers -> Seq(MessageType)]]
    BY <1>1, <2>5, <2>6, <2>7, SendingTypes DEF NotifyIfChanged
  <2> QED
    BY <1>1, <1>2, <2>6, <2>7, <2>8
<1>6. ASSUME NEW r \in Routers, NEW n \in Routers, Close(r, n) PROVE TypeOK'
  <2>1. wire[n][r] # <<>> /\ wire[n][r] \in Seq(MessageType)
    BY <1>1, <1>6 DEF Close
  <2>2. Tail(wire[n][r]) \in Seq(MessageType)
    BY <2>1
  <2>3. wire' = [wire EXCEPT ![n] = [wire[n] EXCEPT ![r] = Tail(wire[n][r])]]
    BY <1>1, <1>6 DEF Close
  <2>4. wire' \in [Routers -> [Routers -> Seq(MessageType)]]
    <3>1. [wire[n] EXCEPT ![r] = Tail(wire[n][r])] \in [Routers -> Seq(MessageType)]
      BY <1>1, <2>2
    <3> QED
      BY <1>1, <2>3, <3>1
  <2>5. UNCHANGED <<linkCost, DVTable, routing_table, connected, owed, updates>>
    BY <1>6 DEF Close
  <2> QED
    BY <1>1, <1>2, <2>4, <2>5
<1>7. CASE UNCHANGED vars
  BY <1>7 DEF vars, TypeOK
<1> QED
  BY <1>3, <1>4, <1>5, <1>6, <1>7 DEF Next

\* Links, distances, routes and messages are of the kind the code gives them: no cost is
\* a number but a sum of costs, no route leads over what is no router.
THEOREM RouterTypes == Spec => []TypeOK
  BY InitTypes, StepTypes, PTL DEF Spec

-----------------------------------------------------------------------------
(* What a router knows of its neighbours *)

\* A router is at no distance from itself.
OwnDistance == \A r \in Routers : DVTable[r][r][r] = 0

\* A router that the agent has told to notify since it last set a link of it: the last
\* vector on the way to a neighbour is its row, and when none is, the neighbour has that row.
Heard ==
    \A n, r \in Routers : n \notin owed /\ r \in Neighbours(n) =>
        /\ wire[n][r] = <<>> => DVTable[r][n] = DVTable[n][n]
        /\ wire[n][r] # <<>> => wire[n][r][Len(wire[n][r])] = DVMSG(DVTable[n][n])

HeardInv == TypeOK /\ RowInv /\ OwnDistance /\ Heard

\* The last element of a sequence of which one was added or taken.
LEMMA LastOfAppend ==
    ASSUME NEW S, NEW s \in Seq(S), NEW e \in S
    PROVE  Append(s, e) # <<>> /\ Append(s, e)[Len(Append(s, e))] = e
  OBVIOUS

LEMMA LastOfTail ==
    ASSUME NEW S, NEW s \in Seq(S), s # <<>>
    PROVE  /\ Tail(s) = <<>> => s[Len(s)] = Head(s)
           /\ Tail(s) # <<>> => Tail(s)[Len(Tail(s))] = s[Len(s)]
<1> DEFINE t == Tail(s)
<1>1. Len(s) \in Nat \ {0} /\ Len(t) = Len(s) - 1 /\ t \in Seq(S)
  BY EmptySeq, HeadTailProperties
<1>2. \A i \in 1 .. Len(t) : t[i] = s[i + 1]
  OBVIOUS
<1>3. Head(s) = s[1]
  OBVIOUS
<1> HIDE DEF t
<1>4. t = <<>> <=> Len(t) = 0
  BY <1>1, EmptySeq
<1>5. t = <<>> => s[Len(s)] = Head(s)
  BY <1>1, <1>3, <1>4
<1>6. t # <<>> => t[Len(t)] = s[Len(s)]
  BY <1>1, <1>2, <1>4
<1> QED
  BY <1>5, <1>6 DEF t

LEMMA InitHeard == Init => OwnDistance /\ Heard
  BY DEF Init, OwnDistance, Heard

\* What is written on the wires of the sender, and what is left alone.
LEMMA SendingTells ==
    ASSUME TypeOK, NEW q \in Routers, NEW row \in Rows,
           NEW before \in [Routers -> [Routers -> Seq(MessageType)]],
           dv_func(q, row, before)
    PROVE  /\ \A n \in Routers \ {q} : wire'[n] = before[n]
           /\ \A r \in Neighbours(q) :
                wire'[q][r] # <<>> /\ wire'[q][r][Len(wire'[q][r])] = DVMSG(row)
<1> DEFINE sent == [n \in Routers |->
                      IF n \in Neighbours(q) THEN Append(before[q][n], DVMSG(row))
                      ELSE IF n \in connected[q] THEN Append(before[q][n], CLOSE)
                      ELSE before[q][n]]
<1>1. wire' = [before EXCEPT ![q] = sent]
  BY DEF dv_func
<1>2. \A r \in Neighbours(q) : wire'[q][r] = Append(before[q][r], DVMSG(row))
  BY <1>1 DEF Neighbours
<1>3. DVMSG(row) \in MessageType
  BY DEF DVMSG, MessageType
<1>4. \A r \in Neighbours(q) : before[q][r] \in Seq(MessageType)
  BY DEF Neighbours
<1>5. \A r \in Neighbours(q) :
        wire'[q][r] # <<>> /\ wire'[q][r][Len(wire'[q][r])] = DVMSG(row)
  BY <1>2, <1>3, <1>4, LastOfAppend
<1>6. \A n \in Routers \ {q} : wire'[n] = before[n]
  BY <1>1
<1> QED
  BY <1>5, <1>6

LEMMA StepHeard ==
    ASSUME HeardInv, [Next]_vars
    PROVE  OwnDistance' /\ Heard'
<1>1. /\ linkCost \in [Routers -> LinkType] /\ DVTable \in [Routers -> [Routers -> Rows]]
      /\ wire \in [Routers -> [Routers -> Seq(MessageType)]]
  BY DEF HeardInv, TypeOK, LinkType, MessageType
<1>2. RowInv /\ TypeOK /\ TypeOK'
  BY StepTypes DEF HeardInv
<1>3. \A n \in Routers : wire[n][n] = <<>> /\ n \notin Neighbours(n)
  BY <1>2 DEF RowInv, NoSelfLink, Neighbours
<1>4. ASSUME NEW n \in Routers, NEW r \in Routers, n \notin owed, r \in Neighbours(n)
      PROVE  /\ n # r
             /\ wire[n][r] = <<>> => DVTable[r][n] = DVTable[n][n]
             /\ wire[n][r] # <<>> => wire[n][r][Len(wire[n][r])] = DVMSG(DVTable[n][n])
  BY <1>3, <1>4 DEF HeardInv, Heard
<1>5. ASSUME NEW q \in Routers, Notify(q) PROVE OwnDistance' /\ Heard'
  <2>1. /\ dv_func(q, DVTable[q][q], wire) /\ DVTable[q][q] \in Rows
        /\ owed' = owed \ {q} /\ UNCHANGED <<linkCost, DVTable>>
    BY <1>1, <1>5 DEF Notify
  <2>2. /\ \A n \in Routers \ {q} : wire'[n] = wire[n]
        /\ \A r \in Neighbours(q) :
             wire'[q][r] # <<>> /\ wire'[q][r][Len(wire'[q][r])] = DVMSG(DVTable[q][q])
    BY <1>1, <1>2, <2>1, SendingTells
  <2>3. \A n \in Routers : Neighbours(n)' = Neighbours(n)
    BY <2>1 DEF Neighbours
  <2> QED
    BY <2>1, <2>2, <2>3 DEF HeardInv, OwnDistance, Heard
<1>6. ASSUME NEW q \in Routers, NEW m \in Routers, NEW weight \in Weights, Update(q, m, weight)
      PROVE  OwnDistance' /\ Heard'
  <2> DEFINE link == [linkCost[q] EXCEPT ![m] = IF weight = Disconnect THEN None ELSE weight]
             row == NewRow(q, link, DVTable[q])
  <2>1. /\ linkCost' = [linkCost EXCEPT ![q] = link] /\ owed' = owed \cup {q} /\ wire' = wire
        /\ DVTable' = [DVTable EXCEPT ![q] = [DVTable[q] EXCEPT ![q] = row]]
    BY <1>6 DEF Update, recompute
  <2>2. row[q] = DVTable[q][q][q]
    BY DEF NewRow
  <2> HIDE DEF link, row
  <2>3. OwnDistance'
    BY <1>1, <2>1, <2>2 DEF HeardInv, OwnDistance
  <2>4. ASSUME NEW n \in Routers, NEW r \in Routers, n \notin owed', r \in Neighbours(n)'
        PROVE  /\ wire'[n][r] = <<>> => DVTable'[r][n] = DVTable'[n][n]
               /\ wire'[n][r] # <<>> => wire'[n][r][Len(wire'[n][r])] = DVMSG(DVTable'[n][n])
    <3>1. n # q /\ n \notin owed
      BY <2>1, <2>4
    <3>2. r \in Neighbours(n)
      BY <1>1, <2>1, <2>4, <3>1 DEF Neighbours
    <3>3. DVTable'[r][n] = DVTable[r][n] /\ DVTable'[n][n] = DVTable[n][n]
      BY <1>1, <2>1, <3>1
    <3> QED
      BY <1>4, <2>1, <3>1, <3>2, <3>3
  <2> QED
    BY <2>3, <2>4 DEF Heard
<1>7. ASSUME NEW q \in Routers, NEW m \in Routers, Routing(q, m) PROVE OwnDistance' /\ Heard'
  <2> DEFINE table == [DVTable[q] EXCEPT ![m] = Head(wire[m][q]).row]
             row == NewRow(q, linkCost[q], table)
             read == [wire EXCEPT ![m] = [wire[m] EXCEPT ![q] = Tail(wire[m][q])]]
  <2>1. /\ wire[m][q] # <<>> /\ Head(wire[m][q]).type = "DVMSG"
        /\ DVTable' = [DVTable EXCEPT ![q] = [table EXCEPT ![q] = row]]
        /\ UNCHANGED <<linkCost, owed>>
    BY <1>7 DEF Routing, recompute
  <2>2. NotifyIfChanged(q, row, table, read)
    BY <1>1, <1>7 DEF Routing
  <2>3. m # q
    BY <1>3, <2>1
  <2>4. Head(wire[m][q]) \in MessageType /\ Tail(wire[m][q]) \in Seq(MessageType)
    BY <1>1, <2>1
  <2>5. table \in [Routers -> Rows] /\ table[q] = DVTable[q][q]
    BY <1>1, <2>1, <2>3, <2>4 DEF MessageType, CLOSE
  <2>6. row[q] = DVTable[q][q][q]
    BY <2>5 DEF NewRow
  <2>7. \A n \in Routers \ {m} : table[n] = DVTable[q][n]
    BY <1>1
  <2>8. row \in Rows
    BY <1>1, <2>5, MinDVType DEF NewRow, Rows
  <2>9. [wire[m] EXCEPT ![q] = Tail(wire[m][q])] \in [Routers -> Seq(MessageType)]
    BY <1>1, <2>4
  <2>10. /\ read \in [Routers -> [Routers -> Seq(MessageType)]]
         /\ \A n \in Routers \ {m} : read[n] = wire[n]
         /\ read[m][q] = Tail(wire[m][q]) /\ \A r \in Routers \ {q} : read[m][r] = wire[m][r]
    BY <1>1, <2>9
  <2>11. table[m] = Head(wire[m][q]).row
    BY <1>1
  <2>12. \A n \in Routers : Neighbours(n)' = Neighbours(n)
    BY <2>1 DEF Neighbours
  <2> HIDE DEF table, row, read
  <2>13. /\ DVTable'[q][q] = row /\ \A n \in Routers \ {q} : DVTable'[q][n] = table[n]
         /\ \A r \in Routers \ {q} : DVTable'[r] = DVTable[r]
    BY <1>1, <2>1, <2>5
  <2>14. OwnDistance'
    BY <2>6, <2>13 DEF HeardInv, OwnDistance
  <2>15. /\ \A n \in Routers \ {q} : wire'[n] = read[n]
         /\ \/ \A r \in Neighbours(q) :
                 wire'[q][r] # <<>> /\ wire'[q][r][Len(wire'[q][r])] = DVMSG(row)
            \/ row = DVTable[q][q] /\ wire'[q] = wire[q]
    <3>1. CASE dv_func(q, row, read)
      BY <1>2, <2>8, <2>10, <3>1, SendingTells
    <3>2. CASE row = table[q] /\ wire' = read
      BY <2>3, <2>5, <2>10, <3>2
    <3> QED
      BY <2>2, <3>1, <3>2 DEF NotifyIfChanged
  <2>16. ASSUME NEW n \in Routers, NEW r \in Routers, n \notin owed', r \in Neighbours(n)'
         PROVE  /\ wire'[n][r] = <<>> => DVTable'[r][n] = DVTable'[n][n]
                /\ wire'[n][r] # <<>> => wire'[n][r][Len(wire'[n][r])] = DVMSG(DVTable'[n][n])
    <3>1. n \notin owed /\ r \in Neighbours(n) /\ r # n
      BY <1>3, <2>1, <2>12, <2>16
    <3>2. CASE n = q
      BY <1>4, <2>13, <2>15, <3>1, <3>2
    <3>3. CASE n = m /\ r = q
      <4>1. wire[m][q][Len(wire[m][q])] = DVMSG(DVTable[m][m])
        BY <1>4, <2>1, <3>1, <3>3
      <4>2. wire'[m][q] = Tail(wire[m][q]) /\ DVTable'[m][m] = DVTable[m][m]
            /\ DVTable'[q][m] = Head(wire[m][q]).row
        BY <2>3, <2>10, <2>11, <2>13, <2>15
      <4>3. wire[m][q] \in Seq(MessageType)
        BY <1>1
      <4> QED
        BY <2>1, <3>3, <4>1, <4>2, <4>3, LastOfTail DEF DVMSG
    <3>4. CASE n = m /\ r # q
      <4>1. DVTable'[r][m] = DVTable[r][m] /\ DVTable'[m][m] = DVTable[m][m]
        BY <2>3, <2>13, <3>4
      <4>2. wire'[m][r] = wire[m][r]
        BY <2>3, <2>10, <2>15, <3>4
      <4> QED
        BY <1>4, <3>1, <3>4, <4>1, <4>2
    <3>5. CASE n # m /\ n # q
      <4>1. DVTable'[r][n] = DVTable[r][n] /\ DVTable'[n][n] = DVTable[n][n]
        BY <2>7, <2>13, <3>5
      <4>2. wire'[n] = wire[n]
        BY <2>10, <2>15, <3>5
      <4> QED
        BY <1>4, <3>1, <4>1, <4>2
    <3> QED
      BY <3>2, <3>3, <3>4, <3>5
  <2> QED
    BY <2>14, <2>16 DEF Heard
<1>8. ASSUME NEW q \in Routers, NEW m \in Routers, Close(q, m) PROVE OwnDistance' /\ Heard'
  <2>1. /\ wire[m][q] # <<>> /\ Head(wire[m][q]).type = "CLOSE"
        /\ wire' = [wire EXCEPT ![m] = [wire[m] EXCEPT ![q] = Tail(wire[m][q])]]
        /\ UNCHANGED <<linkCost, DVTable, owed>>
    BY <1>1, <1>8 DEF Close
  <2>2. \A n \in Routers : Neighbours(n)' = Neighbours(n)
    BY <2>1 DEF Neighbours
  <2>3. wire'[m][q] = Tail(wire[m][q])
        /\ \A n, r \in Routers : n # m \/ r # q => wire'[n][r] = wire[n][r]
    BY <1>1, <2>1
  <2>4. wire[m][q] \in Seq(MessageType)
    BY <1>1
  <2>5. ASSUME NEW n \in Routers, NEW r \in Routers, n \notin owed', r \in Neighbours(n)'
        PROVE  /\ wire'[n][r] = <<>> => DVTable'[r][n] = DVTable'[n][n]
               /\ wire'[n][r] # <<>> => wire'[n][r][Len(wire'[n][r])] = DVMSG(DVTable'[n][n])
    <3>1. n \notin owed /\ r \in Neighbours(n)
      BY <2>1, <2>2, <2>5
    <3>2. CASE n = m /\ r = q
      <4>1. wire[m][q][Len(wire[m][q])] = DVMSG(DVTable[m][m])
        BY <1>4, <2>1, <3>1, <3>2
      <4>2. wire[m][q][Len(wire[m][q])] # Head(wire[m][q])
        BY <2>1, <4>1 DEF DVMSG
      <4> QED
        BY <2>1, <2>3, <2>4, <3>2, <4>1, <4>2, LastOfTail
    <3>3. CASE n # m \/ r # q
      BY <1>4, <2>1, <2>3, <3>1, <3>3
    <3> QED
      BY <3>2, <3>3
  <2> QED
    BY <2>1, <2>5 DEF HeardInv, OwnDistance, Heard
<1>9. CASE UNCHANGED vars
  BY <1>9 DEF vars, HeardInv, OwnDistance, Heard, Neighbours
<1> QED
  BY <1>5, <1>6, <1>7, <1>8, <1>9 DEF Next

LEMMA HeardInvariant == Spec => []HeardInv
<1>1. Init => HeardInv
  BY InitTypes, RowInit, InitHeard DEF HeardInv
<1>2. HeardInv /\ [Next]_vars => HeardInv'
  BY StepTypes, RowStep, StepHeard DEF HeardInv
<1> QED
  BY <1>1, <1>2, PTL DEF Spec

-----------------------------------------------------------------------------
(* Quiet routers have exact distances *)

Quiet == owed = {} /\ (\A r, n \in Routers : wire[r][n] = <<>>) /\ LinksAreMutual

\* The distances that quiet routers have to d satisfy the equation of Bellman and Ford,
\* as far as costs stay below the cap.
LEMMA QuietRows ==
    ASSUME HeardInv, Quiet, NEW d \in Routers
    PROVE  /\ DVTable[d][d][d] = 0
           /\ \A a \in Routers : DVTable[a][a][d] \in Costs
           /\ \A a, n \in Routers :
                /\ linkCost[a][n] \in (Nat \ {0}) \cup {None}
                /\ linkCost[a][a] = None
           /\ \A a, n \in Routers :
                /\ a # d /\ linkCost[a][n] # None /\ DVTable[n][n][d] # None
                /\ linkCost[a][n] + DVTable[n][n][d] < Cap
                => DVTable[a][a][d] # None /\ DVTable[a][a][d] <= linkCost[a][n] + DVTable[n][n][d]
           /\ \A a \in Routers : a # d /\ DVTable[a][a][d] # None =>
                /\ DVTable[a][a][d] < Cap
                /\ \E n \in Routers :
                     /\ linkCost[a][n] # None /\ DVTable[n][n][d] # None
                     /\ DVTable[a][a][d] = linkCost[a][n] + DVTable[n][n][d]
<1>1. /\ linkCost \in [Routers -> LinkType] /\ DVTable \in [Routers -> [Routers -> Rows]]
      /\ Cap \in Nat
  BY RouterAssumption DEF HeardInv, TypeOK, LinkType
<1>2. DVTable[d][d][d] = 0
  BY DEF HeardInv, OwnDistance
<1>3. \A a, n \in Routers : DVTable[a][n][d] \in Costs
  BY <1>1 DEF Rows
<1>4. \A a, n \in Routers : linkCost[a][n] \in (Nat \ {0}) \cup {None} /\ linkCost[a][a] = None
  BY <1>1 DEF LinkType, HeardInv, RowInv, NoSelfLink
<1>5. ASSUME NEW a \in Routers, NEW n \in Routers, linkCost[a][n] # None
      PROVE  n # a /\ DVTable[a][n] = DVTable[n][n]
  <2>1. linkCost[n][a] # None
    BY <1>5 DEF Quiet, LinksAreMutual
  <2> QED
    BY <1>4, <1>5, <2>1 DEF Quiet, HeardInv, Heard, Neighbours
<1>6. ASSUME NEW a \in Routers, a # d
      PROVE  /\ \A n \in Routers :
                  /\ linkCost[a][n] # None /\ DVTable[n][n][d] # None
                  /\ linkCost[a][n] + DVTable[n][n][d] < Cap
                  => DVTable[a][a][d] # None
                     /\ DVTable[a][a][d] <= linkCost[a][n] + DVTable[n][n][d]
             /\ DVTable[a][a][d] # None =>
                  /\ DVTable[a][a][d] < Cap
                  /\ \E n \in Routers :
                       /\ linkCost[a][n] # None /\ DVTable[n][n][d] # None
                       /\ DVTable[a][a][d] = linkCost[a][n] + DVTable[n][n][d]
  <2> DEFINE via == Via(a, linkCost[a], DVTable[a], d)
             costs == {PathCost(linkCost[a], DVTable[a], n, d) : n \in via}
  <2>1. \A n \in Routers : n \in via <=> linkCost[a][n] # None /\ DVTable[n][n][d] # None
    BY <1>4, <1>5 DEF Via
  <2>2. \A n \in via : /\ n \in Routers
                       /\ PathCost(linkCost[a], DVTable[a], n, d) = linkCost[a][n] + DVTable[n][n][d]
    BY <1>5 DEF Via, PathCost
  <2>3. costs \subseteq Nat
    BY <1>1, PathCostType
  <2>4. DVTable[a][a][d] = IF costs = {} \/ Min(costs) >= Cap THEN None ELSE Min(costs)
    BY <1>6 DEF HeardInv, RowInv, OwnRowIsMinimum, min_DV
  <2>5. costs # {} => Min(costs) \in costs /\ \A c \in costs : Min(costs) <= c
    BY <2>3, MinIsLeast
  <2>6. ASSUME NEW n \in Routers, linkCost[a][n] # None, DVTable[n][n][d] # None,
               linkCost[a][n] + DVTable[n][n][d] < Cap
        PROVE  DVTable[a][a][d] # None
               /\ DVTable[a][a][d] <= linkCost[a][n] + DVTable[n][n][d]
    <3>1. linkCost[a][n] + DVTable[n][n][d] \in costs
      BY <2>1, <2>2, <2>6
    <3> DEFINE c == linkCost[a][n] + DVTable[n][n][d]
    <3> HIDE DEF c, costs
    <3>2. c \in costs /\ c < Cap
      BY <2>6, <3>1 DEF c
    <3>3. Min(costs) <= c /\ Min(costs) \in Nat /\ c \in Nat
      BY <2>3, <2>5, <3>2
    <3>4. DVTable[a][a][d] = Min(costs)
      BY <1>1, <2>4, <3>2, <3>3
    <3> QED
      BY <3>3, <3>4 DEF None, c
  <2>7. ASSUME DVTable[a][a][d] # None
        PROVE  /\ DVTable[a][a][d] < Cap
               /\ \E n \in Routers :
                    /\ linkCost[a][n] # None /\ DVTable[n][n][d] # None
                    /\ DVTable[a][a][d] = linkCost[a][n] + DVTable[n][n][d]
    <3>1. costs # {} /\ ~ (Min(costs) >= Cap) /\ DVTable[a][a][d] = Min(costs)
      BY <2>4, <2>7
    <3>2. Min(costs) \in costs
      BY <2>5, <3>1
    <3>3. PICK n \in via : Min(costs) = PathCost(linkCost[a], DVTable[a], n, d)
      BY <3>2
    <3>4. DVTable[a][a][d] < Cap
      <4>1. Min(costs) \in Nat
        BY <2>3, <3>2
      <4> HIDE DEF costs
      <4> QED
        BY <1>1, <3>1, <4>1
    <3> QED
      BY <2>1, <2>2, <3>1, <3>3, <3>4
  <2> QED
    BY <2>6, <2>7
<1> QED
  BY <1>2, <1>3, <1>4, <1>6

\* The costs of the parts of a path, one link longer each.
Sums(p, s) ==
    /\ s[1] = 0
    /\ \A i \in 1 .. Len(p) - 1 : s[i + 1] = s[i] + linkCost[p[i]][p[i + 1]]

LEMMA PathIsSequence ==
    ASSUME NEW a, NEW d, NEW p \in SimplePaths(a, d)
    PROVE  /\ p \in Seq(Routers) /\ Len(p) \in Nat /\ Len(p) >= 2
           /\ DOMAIN p = 1 .. Len(p) /\ \A i \in 1 .. Len(p) : p[i] \in Routers
           /\ p[1] = a /\ p[Len(p)] = d
           /\ \A i, j \in 1 .. Len(p) : p[i] = p[j] => i = j
<1>1. PICK k \in 2 .. Cardinality(Routers) : p \in [1 .. k -> Routers]
  BY DEF SimplePaths
<1>2. Cardinality(Routers) \in Nat
  BY RouterAssumption, FS_CardinalityType
<1>3. k \in Nat /\ k >= 2
  BY <1>1, <1>2
<1>4. p \in Seq(Routers)
  BY <1>1, <1>3, SeqDef
<1>5. DOMAIN p = 1 .. Len(p) /\ Len(p) \in Nat
  BY <1>4, LenProperties
<1>6. Len(p) = k
  BY <1>1, <1>3, <1>5
<1>7. p[1] = a /\ p[Len(p)] = d /\ \A i, j \in DOMAIN p : p[i] = p[j] => i = j
  BY DEF SimplePaths
<1> QED
  BY <1>1, <1>3, <1>4, <1>5, <1>6, <1>7

\* The recursive definition of Cost has a value.
LEMMA CostIsSum ==
    ASSUME TypeOK, NEW a, NEW d, NEW p \in SimplePaths(a, d), Usable(p)
    PROVE  \E s \in [1 .. Len(p) -> Nat] : Sums(p, s) /\ Cost(p) = s[Len(p)]
<1>1. /\ Len(p) \in Nat /\ Len(p) >= 2 /\ \A i \in 1 .. Len(p) : p[i] \in Routers
  BY PathIsSequence
<1>2. \A i \in 1 .. Len(p) - 1 : linkCost[p[i]][p[i + 1]] \in Nat
  BY <1>1 DEF Usable, TypeOK
<1> DEFINE Good(f, k) == /\ f \in [1 .. k -> Nat]
                         /\ \A i \in 1 .. k : f[i] = IF i = 1 THEN 0
                                                     ELSE f[i - 1] + linkCost[p[i - 1]][p[i]]
           G == {k \in Nat : k <= Len(p) => \E f : Good(f, k)}
<1>3. Good([i \in 1 .. 0 |-> 0], 0)
  OBVIOUS
<1>4. ASSUME NEW k \in Nat, NEW f, Good(f, k), k + 1 <= Len(p)
      PROVE  \E g : Good(g, k + 1)
  <2> DEFINE e == IF k = 0 THEN 0 ELSE f[k] + linkCost[p[k]][p[k + 1]]
             g == [i \in 1 .. k + 1 |-> IF i = k + 1 THEN e ELSE f[i]]
  <2>1. e \in Nat
    BY <1>1, <1>2, <1>4
  <2>2. g \in [1 .. k + 1 -> Nat]
    BY <1>4, <2>1
  <2>3. \A i \in 1 .. k : g[i] = f[i]
    OBVIOUS
  <2>4. g[k + 1] = e
    OBVIOUS
  <2> HIDE DEF g
  <2>5. ASSUME NEW i \in 1 .. k + 1
        PROVE  g[i] = IF i = 1 THEN 0 ELSE g[i - 1] + linkCost[p[i - 1]][p[i]]
    <3>1. CASE i \in 1 .. k
      BY <1>4, <2>3, <3>1
    <3>2. CASE i = k + 1
      BY <2>3, <2>4, <3>2
    <3> QED
      BY <3>1, <3>2
  <2> QED
    BY <2>2, <2>5
<1> HIDE DEF Good
<1>5. 0 \in G
  BY <1>3
<1>6. \A k \in Nat : k \in G => k + 1 \in G
  BY <1>1, <1>4
<1> HIDE DEF G
<1>7. Nat \subseteq G
  BY <1>5, <1>6, FromZeroOn
<1>8. PICK f : Good(f, Len(p))
  BY <1>1, <1>7 DEF G
<1> DEFINE sum[i \in 1 .. Len(p)] == IF i = 1 THEN 0 ELSE sum[i - 1] + linkCost[p[i - 1]][p[i]]
<1>9. f = [i \in 1 .. Len(p) |-> IF i = 1 THEN 0 ELSE f[i - 1] + linkCost[p[i - 1]][p[i]]]
  BY <1>8 DEF Good
<1>10. sum = [i \in 1 .. Len(p) |-> IF i = 1 THEN 0 ELSE sum[i - 1] + linkCost[p[i - 1]][p[i]]]
  BY <1>9
<1>11. Cost(p) = sum[Len(p)]
  BY DEF Cost
<1> HIDE DEF sum
<1>12. Sums(p, sum)
  BY <1>1, <1>10 DEF Sums
<1>13. sum \in [1 .. Len(p) -> Nat]
  <2> DEFINE N == {k \in Nat : k + 1 <= Len(p) => sum[k + 1] \in Nat}
  <2>1. 0 \in N
    BY <1>12 DEF Sums
  <2>2. ASSUME NEW k \in Nat, k \in N PROVE k + 1 \in N
    <3> SUFFICES ASSUME k + 2 <= Len(p) PROVE sum[k + 2] \in Nat
      OBVIOUS
    <3>1. k + 1 \in 1 .. Len(p) - 1
      BY <1>1
    <3>2. sum[(k + 1) + 1] = sum[k + 1] + linkCost[p[k + 1]][p[(k + 1) + 1]]
      BY <1>12, <3>1 DEF Sums
    <3>3. linkCost[p[k + 1]][p[(k + 1) + 1]] \in Nat
      BY <1>2, <3>1
    <3>4. sum[k + 1] \in Nat
      BY <1>1, <2>2
    <3> QED
      BY <3>2, <3>3, <3>4
  <2> HIDE DEF N
  <2>3. Nat \subseteq N
    BY <2>1, <2>2, FromZeroOn
  <2>4. \A i \in 1 .. Len(p) : sum[i] \in Nat
    <3> SUFFICES ASSUME NEW i \in 1 .. Len(p) PROVE sum[i] \in Nat
      OBVIOUS
    <3>1. i - 1 \in N /\ (i - 1) + 1 = i
      BY <2>3
    <3> QED
      BY <1>1, <3>1 DEF N
  <2> QED
    BY <1>10, <2>4
<1> QED
  BY <1>11, <1>12, <1>13

\* No usable path is cheaper than what a router has.
LEMMA PathsCostNoLess ==
    ASSUME HeardInv, Quiet, NEW d \in Routers, NEW a \in Routers,
           NEW p \in SimplePaths(a, d), Usable(p), Cost(p) < Cap
    PROVE  DVTable[a][a][d] # None /\ DVTable[a][a][d] <= Cost(p)
<1> DEFINE D(q) == DVTable[q][q][d]
           L == Len(p)
<1>1. /\ L \in Nat /\ L >= 2 /\ \A i \in 1 .. L : p[i] \in Routers
      /\ p[1] = a /\ p[L] = d /\ \A i, j \in 1 .. L : p[i] = p[j] => i = j
  BY PathIsSequence
<1>2. PICK s \in [1 .. L -> Nat] : Sums(p, s) /\ Cost(p) = s[L]
  BY CostIsSum DEF HeardInv
<1>3. /\ D(d) = 0 /\ \A q \in Routers : D(q) \in Costs
      /\ \A q, n \in Routers : linkCost[q][n] \in (Nat \ {0}) \cup {None}
      /\ \A q, n \in Routers :
           q # d /\ linkCost[q][n] # None /\ D(n) # None /\ linkCost[q][n] + D(n) < Cap
           => D(q) # None /\ D(q) <= linkCost[q][n] + D(n)
  BY QuietRows
<1>4. Cap \in Nat
  BY RouterAssumption
<1> HIDE DEF D
<1> DEFINE G == {k \in Nat : k < L => D(p[L - k]) # None /\ D(p[L - k]) + s[L - k] <= s[L]}
<1>5. 0 \in G
  BY <1>1, <1>2, <1>3 DEF None
<1>6. ASSUME NEW k \in Nat, k \in G PROVE k + 1 \in G
  <2> DEFINE i == L - (k + 1)
  <2> SUFFICES ASSUME k + 1 < L PROVE D(p[i]) # None /\ D(p[i]) + s[i] <= s[L]
    OBVIOUS
  <2>1. i \in 1 .. L - 1 /\ i \in 1 .. L /\ i + 1 \in 1 .. L /\ i + 1 = L - k
    BY <1>1
  <2> HIDE DEF i
  <2>2. D(p[i + 1]) # None /\ D(p[i + 1]) + s[i + 1] <= s[L]
    BY <1>1, <1>6, <2>1
  <2>3. s[i + 1] = s[i] + linkCost[p[i]][p[i + 1]]
    BY <1>2, <2>1 DEF Sums
  <2>4. linkCost[p[i]][p[i + 1]] # None
    BY <2>1 DEF Usable
  <2>5. p[i] # d
    BY <1>1, <2>1
  <2>6. p[i] \in Routers /\ p[i + 1] \in Routers /\ s[i] \in Nat /\ s[i + 1] \in Nat /\ s[L] \in Nat
    BY <1>1, <1>2, <2>1
  <2>7. D(p[i + 1]) \in Nat /\ linkCost[p[i]][p[i + 1]] \in Nat
    BY <1>3, <2>2, <2>4, <2>6 DEF Costs
  <2>8. linkCost[p[i]][p[i + 1]] + D(p[i + 1]) + s[i] <= s[L]
    BY <2>2, <2>3, <2>6, <2>7
  <2>9. linkCost[p[i]][p[i + 1]] + D(p[i + 1]) < Cap
    BY <1>2, <1>4, <2>6, <2>7, <2>8
  <2>10. D(p[i]) # None /\ D(p[i]) <= linkCost[p[i]][p[i + 1]] + D(p[i + 1])
    BY <1>3, <2>2, <2>4, <2>5, <2>6, <2>9
  <2>11. D(p[i]) \in Nat
    BY <1>3, <2>6, <2>10 DEF Costs
  <2> QED
    BY <2>6, <2>7, <2>8, <2>10, <2>11, SMTT(30)
<1> HIDE DEF G
<1>7. L - 1 \in G
  BY <1>1, <1>5, <1>6, FromZeroOn
<1>8. D(p[1]) # None /\ D(p[1]) + s[1] <= s[L]
  BY <1>1, <1>7 DEF G
<1>9. D(a) \in Nat
  BY <1>1, <1>3, <1>8 DEF Costs
<1> QED
  BY <1>1, <1>2, <1>8, <1>9 DEF Sums, D

\* A path along which the distances to d go down by exactly the costs of its links.
Tight(p, d) ==
    /\ p \in Seq(Routers) /\ p # <<>> /\ p[Len(p)] = d
    /\ \A i \in 1 .. Len(p) : DVTable[p[i]][p[i]][d] # None
    /\ \A i \in 1 .. Len(p) - 1 :
         /\ linkCost[p[i]][p[i + 1]] # None
         /\ DVTable[p[i]][p[i]][d] = linkCost[p[i]][p[i + 1]] + DVTable[p[i + 1]][p[i + 1]][d]

\* From every router with a distance to d there is one: the least distance without one
\* would be the distance of a router whose neighbour on the way is nearer.
LEMMA TightPaths ==
    ASSUME HeardInv, Quiet, NEW d \in Routers, NEW a \in Routers, DVTable[a][a][d] # None
    PROVE  \E p : Tight(p, d) /\ p[1] = a
<1> DEFINE D(q) == DVTable[q][q][d]
           Reached(q) == \E p : Tight(p, d) /\ p[1] = q
           S == {D(q) : q \in {r \in Routers : D(r) # None /\ ~ Reached(r)}}
<1>1. /\ D(d) = 0 /\ \A q \in Routers : D(q) \in Costs
      /\ \A q, n \in Routers : linkCost[q][n] \in (Nat \ {0}) \cup {None}
      /\ \A q \in Routers : q # d /\ D(q) # None =>
           \E n \in Routers : linkCost[q][n] # None /\ D(n) # None /\ D(q) = linkCost[q][n] + D(n)
  BY QuietRows
<1>2. Reached(d)
  <2>1. <<d>> \in Seq(Routers) /\ Len(<<d>>) = 1 /\ <<d>>[1] = d /\ <<d>> # <<>>
    OBVIOUS
  <2>2. Tight(<<d>>, d)
    BY <1>1, <2>1 DEF Tight, None
  <2> QED
    BY <2>1, <2>2
<1>3. ASSUME NEW q \in Routers, NEW n \in Routers, Reached(n), D(q) # None,
             linkCost[q][n] # None, D(q) = linkCost[q][n] + D(n)
      PROVE  Reached(q)
  <2>1. PICK t : Tight(t, d) /\ t[1] = n
    BY <1>3
  <2> DEFINE p == <<q>> \o t
  <2>2. t \in Seq(Routers) /\ t # <<>> /\ Len(t) \in Nat \ {0}
    BY <2>1, EmptySeq DEF Tight
  <2>3. <<q>> \in Seq(Routers) /\ Len(<<q>>) = 1 /\ <<q>>[1] = q
    OBVIOUS
  <2>4. /\ p \in Seq(Routers) /\ Len(p) = Len(t) + 1
        /\ \A i \in 1 .. Len(p) : p[i] = IF i = 1 THEN q ELSE t[i - 1]
    BY <2>2, <2>3, ConcatProperties
  <2> HIDE DEF p
  <2>5. p # <<>> /\ p[1] = q /\ p[Len(p)] = d
    BY <2>1, <2>2, <2>4, EmptySeq DEF Tight
  <2>6. ASSUME NEW i \in 1 .. Len(p) PROVE D(p[i]) # None
    <3>1. CASE i = 1
      BY <1>3, <2>5, <3>1
    <3>2. CASE i # 1
      <4>1. i - 1 \in 1 .. Len(t) /\ p[i] = t[i - 1]
        BY <2>2, <2>4, <3>2
      <4> QED
        BY <2>1, <4>1 DEF Tight
    <3> QED
      BY <3>1, <3>2
  <2>7. ASSUME NEW i \in 1 .. Len(p) - 1
        PROVE  linkCost[p[i]][p[i + 1]] # None /\ D(p[i]) = linkCost[p[i]][p[i + 1]] + D(p[i + 1])
    <3>1. CASE i = 1
      <4>1. p[1] = q /\ p[2] = n
        BY <2>1, <2>2, <2>4
      <4> QED
        BY <1>3, <3>1, <4>1
    <3>2. CASE i # 1
      <4>1. i - 1 \in 1 .. Len(t) - 1 /\ p[i] = t[i - 1] /\ p[i + 1] = t[(i - 1) + 1]
        BY <2>2, <2>4, <3>2
      <4> QED
        BY <2>1, <4>1 DEF Tight
    <3> QED
      BY <3>1, <3>2
  <2>8. Tight(p, d)
    BY <2>4, <2>5, <2>6, <2>7 DEF Tight
  <2> QED
    BY <2>5, <2>8
<1> HIDE DEF Reached
<1>4. ASSUME S # {} PROVE FALSE
  <2>1. S \subseteq Nat
    BY <1>1 DEF Costs
  <2>2. PICK v \in S : \A u \in S : v <= u
    BY <1>4, <2>1, LeastNatural
  <2>3. PICK q \in Routers : v = D(q) /\ D(q) # None /\ ~ Reached(q)
    BY <2>2
  <2>4. q # d
    BY <1>2, <2>3
  <2>5. PICK n \in Routers : linkCost[q][n] # None /\ D(n) # None /\ D(q) = linkCost[q][n] + D(n)
    BY <1>1, <2>3, <2>4
  <2>6. D(n) \in Nat /\ D(n) < D(q)
    BY <1>1, <2>5 DEF Costs
  <2>7. D(n) \notin S
    <3> SUFFICES ASSUME D(n) \in S PROVE FALSE
      OBVIOUS
    <3>1. D(q) <= D(n) /\ D(q) \in Nat
      BY <2>1, <2>2, <2>3
    <3> HIDE DEF D
    <3> QED
      BY <2>6, <3>1
  <2>8. Reached(n)
    BY <2>5, <2>7
  <2> QED
    BY <1>3, <2>3, <2>5, <2>8
<1>5. Reached(a)
  BY <1>4
<1> QED
  BY <1>5 DEF Reached

\* Its distances fall, so it meets no router twice, and its cost is the first of them.
LEMMA TightIsSimple ==
    ASSUME HeardInv, Quiet, NEW d \in Routers, NEW a \in Routers \ {d}, NEW p,
           Tight(p, d), p[1] = a
    PROVE  p \in SimplePaths(a, d) /\ Usable(p) /\ Cost(p) = DVTable[a][a][d]
<1> DEFINE D(q) == DVTable[q][q][d]
           L == Len(p)
<1>1. /\ D(d) = 0 /\ \A q \in Routers : D(q) \in Costs
      /\ \A q, n \in Routers : linkCost[q][n] \in (Nat \ {0}) \cup {None}
  BY QuietRows
<1>2. p \in Seq(Routers) /\ L \in Nat \ {0} /\ p \in [1 .. L -> Routers] /\ p[L] = d
  BY EmptySeq, LenProperties DEF Tight
<1>3. L >= 2
  BY <1>2
<1>4. \A i \in 1 .. L : p[i] \in Routers /\ D(p[i]) \in Nat
  BY <1>1, <1>2 DEF Tight, Costs
<1>5. \A i \in 1 .. L - 1 :
        /\ linkCost[p[i]][p[i + 1]] \in Nat \ {0}
        /\ D(p[i]) = linkCost[p[i]][p[i + 1]] + D(p[i + 1])
  <2> SUFFICES ASSUME NEW i \in 1 .. L - 1
               PROVE  /\ linkCost[p[i]][p[i + 1]] \in Nat \ {0}
                      /\ D(p[i]) = linkCost[p[i]][p[i + 1]] + D(p[i + 1])
    OBVIOUS
  <2>1. i \in 1 .. L /\ i + 1 \in 1 .. L
    BY <1>2
  <2> QED
    BY <1>1, <1>4, <2>1 DEF Tight
<1>6. Usable(p)
  BY <1>5 DEF Usable, None
<1> HIDE DEF D
<1>7. ASSUME NEW i \in 1 .. L, NEW j \in 1 .. L, i < j PROVE D(p[j]) < D(p[i])
  <2> DEFINE G == {k \in Nat : i + 1 + k <= L => D(p[i + 1 + k]) < D(p[i])}
  <2>1. i \in 1 .. L - 1 /\ i + 1 \in 1 .. L /\ i \in Nat
    BY <1>2, <1>7
  <2>2. 0 \in G
    <3>1. D(p[i + 1]) < D(p[i])
      <4>1. /\ D(p[i]) = linkCost[p[i]][p[i + 1]] + D(p[i + 1])
            /\ linkCost[p[i]][p[i + 1]] \in Nat \ {0} /\ D(p[i + 1]) \in Nat
        BY <1>4, <1>5, <2>1
      <4> QED
        BY <4>1
    <3>2. i + 1 + 0 = i + 1
      BY <2>1
    <3> QED
      BY <3>1, <3>2
  <2>3. ASSUME NEW k \in Nat, k \in G PROVE k + 1 \in G
    <3> DEFINE m == i + 1 + k
    <3> SUFFICES ASSUME m + 1 <= L PROVE D(p[m + 1]) < D(p[i])
      BY <2>1
    <3>1. m \in 1 .. L - 1 /\ m \in 1 .. L /\ m + 1 \in 1 .. L /\ m <= L
      BY <1>2, <2>1
    <3>2. D(p[m]) < D(p[i])
      BY <2>3, <3>1
    <3> HIDE DEF m, G
    <3>3. /\ D(p[m]) = linkCost[p[m]][p[m + 1]] + D(p[m + 1])
          /\ linkCost[p[m]][p[m + 1]] \in Nat \ {0} /\ D(p[m + 1]) \in Nat
          /\ D(p[m]) \in Nat /\ D(p[i]) \in Nat
      BY <1>4, <1>5, <3>1
    <3> QED
      BY <3>2, <3>3
  <2> HIDE DEF G
  <2>4. j - i - 1 \in G
    BY <1>2, <1>7, <2>2, <2>3, FromZeroOn
  <2>5. i + 1 + (j - i - 1) = j
    BY <1>2, <1>7
  <2> QED
    BY <1>2, <2>4, <2>5 DEF G
<1>8. \A i, j \in 1 .. L : p[i] = p[j] => i = j
  <2> SUFFICES ASSUME NEW i \in 1 .. L, NEW j \in 1 .. L, i < j PROVE p[i] # p[j]
    BY <1>2
  <2>1. D(p[j]) < D(p[i]) /\ D(p[i]) \in Nat
    BY <1>4, <1>7
  <2> QED
    BY <2>1
<1>9. L <= Cardinality(Routers)
  <2>1. p \in Injection(1 .. L, Routers)
    BY <1>2, <1>8 DEF Injection, IsInjective
  <2>2. Cardinality(1 .. L) <= Cardinality(Routers)
    BY <2>1, FS_Injection, RouterAssumption
  <2>3. Cardinality(1 .. L) = L
    BY <1>2, FS_Interval
  <2> QED
    BY <2>2, <2>3
<1>10. p \in SimplePaths(a, d)
  <2>1. L \in 2 .. Cardinality(Routers)
    BY <1>2, <1>3, <1>9, RouterAssumption, FS_CardinalityType
  <2>2. DOMAIN p = 1 .. L
    BY <1>2
  <2> QED
    BY <1>2, <1>8, <2>1, <2>2 DEF SimplePaths
<1>11. PICK s \in [1 .. L -> Nat] : Sums(p, s) /\ Cost(p) = s[L]
  BY <1>6, <1>10, CostIsSum DEF HeardInv
<1> DEFINE H == {k \in Nat : k + 1 <= L => s[k + 1] + D(p[k + 1]) = D(a)}
<1>12. 0 \in H
  BY <1>2, <1>4, <1>11 DEF Sums
<1>13. ASSUME NEW k \in Nat, k \in H PROVE k + 1 \in H
  <2> DEFINE i == k + 1
  <2> SUFFICES ASSUME i + 1 <= L PROVE s[i + 1] + D(p[i + 1]) = D(a)
    OBVIOUS
  <2>1. i \in 1 .. L - 1 /\ i \in 1 .. L /\ i + 1 \in 1 .. L /\ i <= L
    BY <1>2
  <2>2. s[i] + D(p[i]) = D(a)
    BY <1>13, <2>1
  <2> HIDE DEF i, H
  <2>3. /\ D(p[i]) = linkCost[p[i]][p[i + 1]] + D(p[i + 1])
        /\ linkCost[p[i]][p[i + 1]] \in Nat \ {0} /\ D(p[i + 1]) \in Nat
        /\ s[i] \in Nat /\ s[i + 1] = s[i] + linkCost[p[i]][p[i + 1]]
    BY <1>4, <1>5, <1>11, <2>1 DEF Sums
  <2> QED
    BY <2>2, <2>3
<1> HIDE DEF H
<1>14. L - 1 \in H
  BY <1>2, <1>12, <1>13, FromZeroOn
<1>15. s[L] + D(p[L]) = D(a)
  BY <1>2, <1>14 DEF H
<1>16. s[L] \in Nat /\ s[L] + 0 = D(a)
  BY <1>1, <1>2, <1>11, <1>15
<1> QED
  BY <1>6, <1>10, <1>11, <1>16 DEF D

LEMMA QuietIsExact ==
    ASSUME HeardInv, Quiet
    PROVE  DistancesExact
<1> SUFFICES ASSUME NEW r \in Routers, NEW d \in Routers, r # d
             PROVE  DVTable[r][r][d] = Distance(r, d)
  BY DEF DistancesExact
<1> DEFINE costs == {Cost(p) : p \in {q \in SimplePaths(r, d) : Usable(q)}}
           D == DVTable[r][r][d]
<1>1. Distance(r, d) = IF costs = {} \/ Min(costs) >= Cap THEN None ELSE Min(costs)
  BY DEF Distance
<1>2. costs \subseteq Nat
  <2> SUFFICES ASSUME NEW p \in SimplePaths(r, d), Usable(p) PROVE Cost(p) \in Nat
    OBVIOUS
  <2>1. PICK s \in [1 .. Len(p) -> Nat] : Cost(p) = s[Len(p)]
    BY CostIsSum DEF HeardInv
  <2>2. Len(p) \in 1 .. Len(p)
    BY PathIsSequence
  <2> QED
    BY <2>1, <2>2
<1>3. \A c \in costs : c < Cap => D # None /\ D <= c
  BY PathsCostNoLess
<1>4. D # None => D \in costs /\ D < Cap /\ D \in Nat
  <2> SUFFICES ASSUME D # None PROVE D \in costs /\ D < Cap /\ D \in Nat
    OBVIOUS
  <2>1. PICK p : Tight(p, d) /\ p[1] = r
    BY TightPaths
  <2>2. p \in SimplePaths(r, d) /\ Usable(p) /\ Cost(p) = D
    BY <2>1, TightIsSimple
  <2>3. D < Cap
    BY QuietRows
  <2> QED
    BY <1>2, <2>2, <2>3
<1>5. costs # {} => Min(costs) \in costs /\ \A c \in costs : Min(costs) <= c
  BY <1>2, MinIsLeast
<1>6. Cap \in Nat
  BY RouterAssumption
<1> HIDE DEF costs, D
<1>7. CASE D = None
  <2>1. costs # {} => Min(costs) \in Nat /\ ~ (Min(costs) < Cap)
    BY <1>2, <1>3, <1>5, <1>7
  <2> QED
    BY <1>1, <1>6, <1>7, <2>1 DEF D
<1>8. CASE D # None
  <2>1. D \in costs /\ D < Cap /\ D \in Nat
    BY <1>4, <1>8
  <2>2. Min(costs) \in costs /\ Min(costs) <= D /\ Min(costs) \in Nat
    BY <1>2, <1>5, <2>1
  <2>3. Min(costs) < Cap
    BY <1>6, <2>1, <2>2
  <2>4. D <= Min(costs)
    BY <1>3, <2>2, <2>3
  <2>5. Min(costs) = D
    BY <2>1, <2>2, <2>4
  <2> QED
    BY <1>1, <1>6, <2>1, <2>3, <2>5 DEF D
<1> QED
  BY <1>7, <1>8

\* When no vector is on its way and the agent has told all whose links it set, every
\* router has the least costs of the paths there are, for any topology and any updates.
THEOREM QuietRoutersAreExact == Spec => []QuietMeansExact
<1>1. HeardInv => QuietMeansExact
  BY QuietIsExact DEF Quiet, QuietMeansExact
<1> QED
  BY <1>1, HeardInvariant, PTL
=============================================================================
