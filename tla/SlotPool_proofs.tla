-------------------------- MODULE SlotPool_proofs --------------------------
(***************************************************************************)
(* Proofs about SlotPool for any number of clients, slots and any backlog: *)
(* the safety properties the run checks, and that the servers implement    *)
(* Admission.                                                              *)
(***************************************************************************)
EXTENDS SlotPool, FiniteSetTheorems, TLAPS

(***************************************************************************)
(* The inductive invariant.                                                *)
(***************************************************************************)

\* The connection main has accepted and not yet given to a worker.
InHand(c) == main \in {"find", "spawn"} /\ client_sd = c

\* What each connection's peer state says of where the connection is.
PeerInv ==
    /\ \A i \in DOMAIN backlog : peer[backlog[i]] = "queued"
    /\ \A c \in Conns : peer[c] \in {"away", "queued"} => ~ Live(c) /\ ~ InHand(c)
    /\ \A c \in Conns : InHand(c) => ~ Live(c)
    /\ main \in {"find", "spawn"} => client_sd \in Conns

\* The backlog holds a connection once.
BacklogInv == \A i, j \in DOMAIN backlog : backlog[i] = backlog[j] => i = j

\* The slot main has reserved and not yet filled in.
Reserved(s) == main = "spawn" /\ ind = s

\* A slot is taken exactly if main has reserved it or a worker lives on it.
TableInv ==
    /\ \A c \in Conns : Live(c) => slot[c] \in Taken /\ ~ Reserved(slot[c])
    /\ \A s \in Taken : Reserved(s) \/ \E c \in Conns : Live(c) /\ slot[c] = s
    /\ main = "spawn" => ind \in Taken

\* What main knows of m where it stands.
MainInv ==
    /\ main \in {"woken", "accept", "find"} => m < MAX
    /\ main = "wait" => m >= MAX

IInv ==
    /\ TypeOK
    /\ PeerInv
    /\ BacklogInv
    /\ TableInv
    /\ OwnEntry
    /\ VacancyCounted
    /\ MainInv

-----------------------------------------------------------------------------
(***************************************************************************)
(* Sequences and slots.                                                    *)
(***************************************************************************)

\* A backlog that is not empty has a head in Conns, which is its first element.
LEMMA BacklogHead ==
    ASSUME NEW q \in Seq(Conns), q # <<>>
    PROVE  /\ Head(q) \in Conns /\ Tail(q) \in Seq(Conns)
           /\ 1 \in DOMAIN q /\ Head(q) = q[1]
           /\ \A i \in DOMAIN Tail(q) : i + 1 \in DOMAIN q /\ Tail(q)[i] = q[i + 1]
OBVIOUS

\* Positions of a backlog are positive numbers.
LEMMA BacklogDomain ==
    ASSUME NEW q \in Seq(Conns)
    PROVE  DOMAIN q = 1 .. Len(q) /\ Len(q) \in Nat
OBVIOUS

\* The elements of a backlog after one more connection arrived.
LEMMA BacklogAppend ==
    ASSUME NEW q \in Seq(Conns), NEW c \in Conns
    PROVE  /\ Append(q, c) \in Seq(Conns)
           /\ \A i \in DOMAIN Append(q, c) :
                Append(q, c)[i] = IF i = Len(q) + 1 THEN c ELSE q[i]
           /\ \A i \in DOMAIN Append(q, c) : i = Len(q) + 1 \/ i \in DOMAIN q
OBVIOUS

\* There are at most MAX slots taken, and MAX of them only if none is vacant.
LEMMA TakenBound ==
    /\ IsFiniteSet(Taken)
    /\ Cardinality(Taken) \in Nat
    /\ Cardinality(Taken) <= MAX
    /\ Cardinality(Taken) = MAX => Vacant = {}
    /\ Cardinality(Taken) < MAX => Vacant # {}
<1>1. IsFiniteSet(Slots) /\ Cardinality(Slots) = MAX
  BY FS_Interval, SlotPoolAssumption DEF Slots
<1>2. Taken \in SUBSET Slots
  BY DEF Taken
<1>3. IsFiniteSet(Taken) /\ Cardinality(Taken) <= MAX
      /\ (Cardinality(Taken) = MAX => Slots = Taken)
  BY <1>1, <1>2, FS_Subset
<1>4. Cardinality(Taken) \in Nat
  BY <1>3, FS_CardinalityType
<1>5. Vacant = {} => Taken = Slots
  BY <1>2 DEF Vacant
<1> QED
  BY <1>1, <1>3, <1>4, <1>5, SlotPoolAssumption DEF Vacant

-----------------------------------------------------------------------------
(***************************************************************************)
(* Typing is inductive by itself.                                          *)
(***************************************************************************)

LEMMA TypeInit == Init => TypeOK
  BY SlotPoolAssumption DEF Init, TypeOK, Slots, MainStates, PeerStates, WorkerStates

LEMMA TypeStep == TypeOK /\ [Next]_vars => TypeOK'
<1> SUFFICES ASSUME TypeOK, [Next]_vars
             PROVE  TypeOK'
  OBVIOUS
<1> USE DEF TypeOK, MainStates, PeerStates, WorkerStates
<1>1. CASE CheckVacancy
  BY <1>1 DEF CheckVacancy
<1>2. CASE Resume
  BY <1>2 DEF Resume
<1>3. CASE Accept
  <2>1. Head(backlog) \in Conns /\ Tail(backlog) \in Seq(Conns)
    BY <1>3, BacklogHead DEF Accept
  <2> QED
    BY <1>3, <2>1 DEF Accept
<1>4. CASE FindVacancy
  BY <1>4 DEF FindVacancy, Reserve, Vacant
<1>5. CASE Spawn
  BY <1>5 DEF Spawn
<1>6. CASE \E c \in Conns : Connect(c)
  BY <1>6, BacklogAppend DEF Connect
<1>7. CASE \E c \in Conns : ClientClose(c)
  BY <1>7 DEF ClientClose
<1>8. CASE \E c \in Conns : Release(c)
  BY <1>8 DEF Release, Signal
<1>9. CASE UNCHANGED vars
  BY <1>9 DEF vars
<1> QED
  BY <1>1, <1>2, <1>3, <1>4, <1>5, <1>6, <1>7, <1>8, <1>9 DEF Next

\* Every variable keeps its type.
THEOREM Typing == Spec => []TypeOK
<1>1. Init => TypeOK
  BY TypeInit
<1>2. TypeOK /\ [Next]_vars => TypeOK'
  BY TypeStep
<1> QED
  BY <1>1, <1>2, PTL DEF Spec

-----------------------------------------------------------------------------
(***************************************************************************)
(* Where connections are: the backlog, main's hand, or a worker.           *)
(***************************************************************************)

LEMMA PeerStep ==
    TypeOK /\ PeerInv /\ BacklogInv /\ OwnEntry /\ [Next]_vars => PeerInv' /\ BacklogInv'
<1> SUFFICES ASSUME TypeOK, PeerInv, BacklogInv, OwnEntry, [Next]_vars
             PROVE  PeerInv' /\ BacklogInv'
  OBVIOUS
<1> USE DEF TypeOK, PeerInv, BacklogInv, InHand, Live
<1>1. CASE CheckVacancy
  BY <1>1 DEF CheckVacancy
<1>2. CASE Resume
  BY <1>2 DEF Resume
<1>3. CASE Accept
  <2>1. /\ backlog \in Seq(Conns) /\ backlog # <<>>
        /\ main' = "find" /\ client_sd' = Head(backlog) /\ backlog' = Tail(backlog)
        /\ peer' = [peer EXCEPT ![Head(backlog)] = "open"]
        /\ worker' = worker
    BY <1>3 DEF Accept
  <2>2. /\ Head(backlog) \in Conns /\ Head(backlog) = backlog[1]
        /\ 1 \in DOMAIN backlog
        /\ \A i \in DOMAIN Tail(backlog) :
             i + 1 \in DOMAIN backlog /\ Tail(backlog)[i] = backlog[i + 1]
    BY <2>1, BacklogHead
  <2>3. \A i \in DOMAIN backlog' : backlog'[i] # Head(backlog)
    BY <2>1, <2>2, BacklogDomain
  <2>4. BacklogInv'
    BY <2>1, <2>2, BacklogDomain
  <2>5. \A i \in DOMAIN backlog' : peer'[backlog'[i]] = "queued"
    BY <2>1, <2>2, <2>3, BacklogDomain
  <2>6. peer[Head(backlog)] = "queued"
    BY <2>2
  <2> QED
    BY <2>1, <2>2, <2>4, <2>5, <2>6
<1>4. CASE FindVacancy
  BY <1>4 DEF FindVacancy
<1>5. CASE Spawn
  BY <1>5 DEF Spawn
<1>6. ASSUME NEW c \in Conns, Connect(c)
      PROVE  PeerInv' /\ BacklogInv'
  <2>1. \A i \in DOMAIN backlog : backlog[i] # c
    BY <1>6 DEF Connect
  <2>2. /\ DOMAIN backlog' = DOMAIN backlog \cup {Len(backlog) + 1}
        /\ Len(backlog) + 1 \notin DOMAIN backlog
        /\ \A i \in DOMAIN backlog' :
             backlog'[i] = IF i = Len(backlog) + 1 THEN c ELSE backlog[i]
    BY <1>6 DEF Connect
  <2>3. BacklogInv'
    BY <2>1, <2>2
  <2> QED
    BY <1>6, <2>2, <2>3 DEF Connect
<1>7. ASSUME NEW c \in Conns, ClientClose(c)
      PROVE  PeerInv' /\ BacklogInv'
  <2>1. args[slot[c]] = c /\ peer' = [peer EXCEPT ![c] = "closed"]
    BY <1>7 DEF ClientClose, OwnEntry
  <2> QED
    BY <1>7, <2>1 DEF ClientClose
<1>8. ASSUME NEW c \in Conns, Release(c)
      PROVE  PeerInv' /\ BacklogInv'
  <2>1. main' \in {"find", "spawn"} <=> main \in {"find", "spawn"}
    BY <1>8 DEF Release, Signal
  <2> QED
    BY <1>8, <2>1 DEF Release
<1>9. CASE UNCHANGED vars
  BY <1>9 DEF vars
<1> QED
  BY <1>1, <1>2, <1>3, <1>4, <1>5, <1>6, <1>7, <1>8, <1>9 DEF Next

-----------------------------------------------------------------------------
(***************************************************************************)
(* The table, its entries and its counter.                                 *)
(***************************************************************************)

\* Workers live on different slots, and none lives on a reserved one.
LEMMA DistinctSlots ==
    ASSUME OwnEntry, NEW c \in Conns, NEW d \in Conns, Live(c), Live(d), c # d
    PROVE  slot[c] # slot[d]
BY DEF OwnEntry

LEMMA TableStep ==
    IInv /\ [Next]_vars => TableInv' /\ OwnEntry' /\ VacancyCounted' /\ MainInv'
<1> SUFFICES ASSUME IInv, [Next]_vars
             PROVE  TableInv' /\ OwnEntry' /\ VacancyCounted' /\ MainInv'
  OBVIOUS
<1> USE DEF IInv, TypeOK
<1>0. m \in Nat /\ m <= MAX /\ IsFiniteSet(Taken) /\ MAX \in Nat
  BY TakenBound, SlotPoolAssumption DEF VacancyCounted
<1>10. ASSUME UNCHANGED <<m, available, args, worker, slot>>,
             ~ main = "spawn", ~ main' = "spawn"
      PROVE  TableInv' /\ OwnEntry' /\ VacancyCounted'
  BY <1>10 DEF TableInv, OwnEntry, VacancyCounted, Taken, Live, Reserved
<1>1. CASE CheckVacancy
  BY <1>0, <1>1, <1>10 DEF CheckVacancy, MainInv
<1>2. CASE Resume
  BY <1>0, <1>2, <1>10 DEF Resume, MainInv
<1>3. CASE Accept
  BY <1>0, <1>3, <1>10 DEF Accept, MainInv
<1>4. CASE FindVacancy
  <2>1. Vacant # {}
    BY <1>4, TakenBound DEF FindVacancy, MainInv, VacancyCounted
  <2>2. PICK s \in Vacant : Reserve(s)
    BY <1>4, <2>1 DEF FindVacancy
  <2>3. s \in Slots /\ s \notin Taken
    BY <2>2 DEF Vacant
  <2>4. Taken' = Taken \cup {s}
    BY <2>2, <2>3 DEF Reserve, Taken
  <2>5. Cardinality(Taken') = Cardinality(Taken) + 1
    BY <1>0, <2>3, <2>4, FS_AddElement
  <2>6. VacancyCounted'
    BY <2>2, <2>5 DEF Reserve, VacancyCounted
  <2>7. main' = "spawn" /\ ind' = s /\ UNCHANGED <<args, worker, slot>>
    BY <1>4, <2>2 DEF FindVacancy, Reserve
  <2>8. TableInv'
    BY <1>4, <2>3, <2>4, <2>7 DEF TableInv, Reserved, Live, FindVacancy
  <2> QED
    BY <2>6, <2>7, <2>8 DEF OwnEntry, Live, MainInv
<1>5. CASE Spawn
  <2>1. /\ main = "spawn" /\ main' = "check" /\ client_sd \in Conns
        /\ ~ Live(client_sd) /\ ind \in Taken /\ m' = m
        /\ args' = [args EXCEPT ![ind] = client_sd]
        /\ worker' = [worker EXCEPT ![client_sd] = "serving"]
        /\ slot' = [slot EXCEPT ![client_sd] = ind]
    BY <1>5 DEF Spawn, PeerInv, InHand, TableInv
  <2>2. Taken' = Taken
    BY <1>5, <2>1 DEF Spawn, Taken
  <2>3. \A c \in Conns : Live(c)' <=> Live(c) \/ c = client_sd
    BY <2>1 DEF Live
  <2>4. \A c \in Conns : Live(c) => slot'[c] = slot[c] /\ slot[c] # ind
    BY <2>1 DEF TableInv, Reserved
  <2>5. slot'[client_sd] = ind
    BY <2>1
  <2>6. TableInv'
    BY <2>1, <2>2, <2>3, <2>4, <2>5 DEF TableInv, Reserved
  <2>7. OwnEntry'
    BY <2>1, <2>3, <2>4, <2>5 DEF OwnEntry
  <2> QED
    BY <2>1, <2>2, <2>6, <2>7 DEF VacancyCounted, MainInv
<1>6. CASE \E c \in Conns : Connect(c)
  BY <1>6 DEF Connect, TableInv, OwnEntry, VacancyCounted, MainInv, Taken, Live, Reserved
<1>7. CASE \E c \in Conns : ClientClose(c)
  BY <1>7 DEF ClientClose, TableInv, OwnEntry, VacancyCounted, MainInv, Taken, Live, Reserved
<1>8. ASSUME NEW c \in Conns, Release(c)
      PROVE  TableInv' /\ OwnEntry' /\ VacancyCounted' /\ MainInv'
  <2>1. /\ Live(c) /\ slot[c] \in Taken /\ ~ Reserved(slot[c])
        /\ available' = [available EXCEPT ![slot[c]] = 0]
        /\ worker' = [worker EXCEPT ![c] = "none"]
        /\ m' = m - 1
        /\ UNCHANGED <<ind, args, slot>>
    BY <1>8 DEF Release, TableInv, Live
  <2>2. Taken' = Taken \ {slot[c]}
    BY <2>1 DEF Taken
  <2>3. VacancyCounted'
    BY <1>0, <2>1, <2>2, FS_RemoveElement DEF VacancyCounted
  <2>4. \A d \in Conns : Live(d)' <=> Live(d) /\ d # c
    BY <2>1 DEF Live
  <2>5. \A d \in Conns : Live(d) /\ d # c => slot[d] # slot[c]
    BY <2>1, DistinctSlots
  <2>6. main' = IF main = "wait" THEN "woken" ELSE main
    BY <1>8 DEF Release, Signal, MainInv
  <2>7. \A s \in Slots : Reserved(s)' <=> Reserved(s)
    BY <2>1, <2>6 DEF Reserved
  <2>8. Taken \subseteq Slots
    BY DEF Taken
  <2>9. TableInv'
    <3>1. \A d \in Conns : Live(d)' => (slot[d] \in Taken /\ ~ Reserved(slot[d]))'
      BY <2>1, <2>2, <2>4, <2>5, <2>6 DEF TableInv, Reserved
    <3>2. \A s \in Taken' : (Reserved(s) \/ \E d \in Conns : Live(d) /\ slot[d] = s)'
      BY <2>1, <2>2, <2>4, <2>7, <2>8 DEF TableInv
    <3>3. main' = "spawn" => ind' \in Taken'
      BY <2>1, <2>2, <2>6 DEF TableInv, Reserved
    <3> QED
      BY <3>1, <3>2, <3>3 DEF TableInv
  <2>10. MainInv'
    BY <1>0, <2>1, <2>6 DEF MainInv
  <2> QED
    BY <2>1, <2>3, <2>4, <2>9, <2>10 DEF OwnEntry
<1>9. CASE UNCHANGED vars
  BY <1>9 DEF vars, TableInv, OwnEntry, VacancyCounted, MainInv, Taken, Live, Reserved
<1> QED
  BY <1>1, <1>2, <1>3, <1>4, <1>5, <1>6, <1>7, <1>8, <1>9 DEF Next

-----------------------------------------------------------------------------
LEMMA IInvInit == Init => IInv
<1> SUFFICES ASSUME Init
             PROVE  IInv
  OBVIOUS
<1>1. TypeOK
  BY TypeInit
<1>2. Taken = {}
  BY DEF Init, Taken
<1>3. VacancyCounted
  BY <1>2, FS_EmptySet DEF Init, VacancyCounted
<1> QED
  BY <1>1, <1>2, <1>3 DEF Init, IInv, PeerInv, BacklogInv, TableInv, OwnEntry, MainInv,
                         InHand, Live, Reserved

LEMMA IInvStep == IInv /\ [Next]_vars => IInv'
  BY TypeStep, PeerStep, TableStep DEF IInv

LEMMA Invariance == Spec => []IInv
  BY IInvInit, IInvStep, PTL DEF Spec

LEMMA IInvSafe == IInv => AcceptHasVacancy /\ NoLostWakeup
<1> SUFFICES ASSUME IInv
             PROVE  AcceptHasVacancy /\ NoLostWakeup
  OBVIOUS
<1>1. AcceptHasVacancy
  BY TakenBound DEF IInv, AcceptHasVacancy, MainInv, VacancyCounted
<1>2. ASSUME main = "wait"
      PROVE  m >= MAX /\ \E c \in Conns : Live(c)
  <2>1. m >= MAX
    BY <1>2 DEF IInv, MainInv
  <2>2. Taken # {}
    BY <2>1, FS_EmptySet, SlotPoolAssumption DEF IInv, VacancyCounted
  <2> QED
    BY <1>2, <2>1, <2>2 DEF IInv, TableInv, Reserved
<1> QED
  BY <1>1, <1>2 DEF NoLostWakeup

\* Each worker finds its own connection in the entry it points to.
THEOREM EntriesAreOwn == Spec => []OwnEntry
  BY Invariance, PTL DEF IInv

\* m is the number of slots taken, in every state between two mutex sections.
THEOREM CounterIsExact == Spec => []VacancyCounted
  BY Invariance, PTL DEF IInv

\* Whenever main accepts a connection there is a slot for it.
THEOREM VacancyFound == Spec => []AcceptHasVacancy
  BY Invariance, IInvSafe, PTL

\* Whenever main waits somebody will wake it.
THEOREM WakeupNotLost == Spec => []NoLostWakeup
  BY Invariance, IInvSafe, PTL

-----------------------------------------------------------------------------
(***************************************************************************)
(* SlotPool implements Admission.                                          *)
(***************************************************************************)

\* A slot shows a session to Admission exactly if a worker lives on it.
LEMMA SessionIsWorker ==
    ASSUME IInv
    PROVE  \A s \in Slots : sessions[s] # NoConn =>
             \E c \in Conns : Live(c) /\ slot[c] = s /\ sessions[s] = c
<1> SUFFICES ASSUME NEW s \in Slots, sessions[s] # NoConn
             PROVE  \E c \in Conns : Live(c) /\ slot[c] = s /\ sessions[s] = c
  OBVIOUS
<1>1. s \in Taken /\ ~ Reserved(s) /\ sessions[s] = args[s]
  BY DEF sessions, Vacant, Reserved
<1>2. PICK c \in Conns : Live(c) /\ slot[c] = s
  BY <1>1 DEF IInv, TableInv
<1> QED
  BY <1>1, <1>2 DEF IInv, OwnEntry

\* While main does not change hands, what Admission sees of the table depends
\* on available, args and the reserved slot only.
LEMMA SessionsUnchanged ==
    ASSUME UNCHANGED <<available, args>>, \A s \in Slots : Reserved(s)' <=> Reserved(s)
    PROVE  sessions' = sessions
BY DEF sessions, Vacant, Taken, Reserved

LEMMA AdmissionInit == Init => A!Init
  BY DEF Init, A!Init, waiting, sessions, Vacant, Taken

LEMMA AdmissionStep == IInv /\ [Next]_vars => [A!Next]_(A!vars)
<1> SUFFICES ASSUME IInv, [Next]_vars
             PROVE  [A!Next]_(A!vars)
  OBVIOUS
<1> USE DEF IInv, TypeOK
<1>1. CASE CheckVacancy
  <2>1. waiting' = waiting
    BY <1>1 DEF CheckVacancy, waiting
  <2>2. sessions' = sessions
    BY <1>1, SessionsUnchanged DEF CheckVacancy, Reserved
  <2> QED
    BY <2>1, <2>2 DEF A!vars
<1>2. CASE Resume
  <2>1. waiting' = waiting
    BY <1>2 DEF Resume, waiting
  <2>2. sessions' = sessions
    BY <1>2, SessionsUnchanged DEF Resume, Reserved
  <2> QED
    BY <2>1, <2>2 DEF A!vars
<1>3. CASE Accept
  <2>1. <<Head(backlog)>> \o Tail(backlog) = backlog /\ <<>> \o backlog = backlog
    BY <1>3 DEF Accept
  <2>2. waiting = <<>> \o backlog /\ waiting' = <<Head(backlog)>> \o Tail(backlog)
    BY <1>3 DEF Accept, waiting
  <2>3. waiting' = waiting
    BY <2>1, <2>2
  <2>4. sessions' = sessions
    BY <1>3, SessionsUnchanged DEF Accept, Reserved
  <2> QED
    BY <2>3, <2>4 DEF A!vars
<1>4. CASE FindVacancy
  <2>1. Vacant # {}
    BY <1>4, TakenBound DEF FindVacancy, MainInv, VacancyCounted
  <2>2. PICK s \in Vacant : Reserve(s)
    BY <1>4, <2>1 DEF FindVacancy
  <2>3. waiting' = waiting
    BY <1>4 DEF FindVacancy, waiting
  <2>4. Vacant' = Vacant \ {s}
    BY <2>2 DEF Reserve, Vacant, Taken
  <2>5. main = "find" /\ main' = "spawn" /\ ind' = s /\ args' = args
    BY <1>4, <2>2 DEF FindVacancy, Reserve
  <2>6. sessions' = sessions
    BY <2>4, <2>5 DEF sessions
  <2> QED
    BY <2>3, <2>6 DEF A!vars
<1>5. CASE Spawn
  <2>1. /\ main = "spawn" /\ main' = "check" /\ client_sd \in Conns
        /\ ind \in Taken /\ ind \in Slots
        /\ available' = [available EXCEPT ![ind] = 1]
        /\ args' = [args EXCEPT ![ind] = client_sd]
        /\ backlog' = backlog
    BY <1>5 DEF Spawn, PeerInv, TableInv
  <2>2. Vacant' = Vacant /\ ind \notin Vacant
    BY <2>1 DEF Vacant, Taken
  <2>3. waiting = <<client_sd>> \o backlog /\ waiting' = <<>> \o backlog
    BY <2>1 DEF waiting
  <2>4. waiting # <<>> /\ Head(waiting) = client_sd /\ Tail(waiting) = waiting'
    BY <2>1, <2>3
  <2>5. sessions[ind] = NoConn
    BY <2>1 DEF sessions
  <2>6. sessions' = [sessions EXCEPT ![ind] = client_sd]
    BY <2>1, <2>2 DEF sessions
  <2>7. A!Admit(ind)
    BY <2>4, <2>5, <2>6 DEF A!Admit
  <2> QED
    BY <2>1, <2>7 DEF A!Next
<1>6. ASSUME NEW c \in Conns, Connect(c)
      PROVE  [A!Next]_(A!vars)
  <2>1. waiting' = Append(waiting, c)
    <3>1. CASE main \in {"find", "spawn"}
      <4>1. client_sd \in Conns
        BY <3>1 DEF PeerInv
      <4>2. waiting = <<client_sd>> \o backlog
            /\ waiting' = <<client_sd>> \o Append(backlog, c)
        BY <1>6, <3>1 DEF Connect, waiting
      <4> QED
        BY <4>1, <4>2
    <3>2. CASE main \notin {"find", "spawn"}
      <4>1. waiting = <<>> \o backlog /\ waiting' = <<>> \o Append(backlog, c)
        BY <1>6, <3>2 DEF Connect, waiting
      <4> QED
        BY <4>1
    <3> QED
      BY <3>1, <3>2
  <2>2. sessions' = sessions
    BY <1>6, SessionsUnchanged DEF Connect, Reserved
  <2>3. ~ A!Waits(c)
    <3>1. \A i \in DOMAIN backlog : backlog[i] # c
      BY <1>6 DEF Connect, PeerInv
    <3>2. main \in {"find", "spawn"} => client_sd \in Conns /\ client_sd # c
      BY <1>6 DEF Connect, PeerInv, InHand
    <3>3. CASE main \in {"find", "spawn"}
      <4>1. waiting = <<client_sd>> \o backlog
        BY <3>3 DEF waiting
      <4>2. \A i \in DOMAIN waiting : waiting[i] # c
        BY <3>1, <3>2, <3>3, <4>1
      <4> QED
        BY <4>2 DEF A!Waits
    <3>4. CASE main \notin {"find", "spawn"}
      <4>1. waiting = backlog
        BY <3>4 DEF waiting
      <4> QED
        BY <3>1, <4>1 DEF A!Waits
    <3> QED
      BY <3>3, <3>4
  <2>4. \A s \in Slots : sessions[s] # c
    <3>1. ~ Live(c) /\ c # NoConn
      BY <1>6, SlotPoolAssumption DEF Connect
    <3> QED
      BY <3>1, SessionIsWorker
  <2> QED
    BY <2>1, <2>2, <2>3, <2>4 DEF A!Next, A!Arrive
<1>7. CASE \E c \in Conns : ClientClose(c)
  <2>1. waiting' = waiting
    BY <1>7 DEF ClientClose, waiting
  <2>2. sessions' = sessions
    BY <1>7, SessionsUnchanged DEF ClientClose, Reserved
  <2> QED
    BY <2>1, <2>2 DEF A!vars
<1>8. ASSUME NEW c \in Conns, Release(c)
      PROVE  [A!Next]_(A!vars)
  <2>1. /\ Live(c) /\ slot[c] \in Taken /\ ~ Reserved(slot[c])
        /\ available' = [available EXCEPT ![slot[c]] = 0]
        /\ UNCHANGED <<ind, args, slot, backlog, client_sd>>
    BY <1>8 DEF Release, TableInv, Live
  <2>2. main' = IF main = "wait" THEN "woken" ELSE main
    BY <1>8 DEF Release, Signal, MainInv
  <2>3. waiting' = waiting
    BY <2>1, <2>2 DEF waiting
  <2>4. Vacant' = Vacant \cup {slot[c]}
    BY <2>1 DEF Vacant, Taken
  <2>5. sessions' = [sessions EXCEPT ![slot[c]] = NoConn]
    BY <2>1, <2>2, <2>4 DEF sessions, Reserved
  <2>6. sessions[slot[c]] = c /\ c # NoConn
    BY <2>1, SlotPoolAssumption DEF sessions, Reserved, OwnEntry, Vacant
  <2>7. A!Leave(slot[c])
    BY <2>3, <2>5, <2>6 DEF A!Leave
  <2> QED
    BY <2>7 DEF A!Next
<1>9. CASE UNCHANGED vars
  <2>1. waiting' = waiting /\ sessions' = sessions
    BY <1>9, SessionsUnchanged DEF vars, waiting, Reserved
  <2> QED
    BY <2>1 DEF A!vars
<1> QED
  BY <1>1, <1>2, <1>3, <1>4, <1>5, <1>6, <1>7, <1>8, <1>9 DEF Next

\* The accept loop with its mutex, condition variable and counters implements
\* first-come-first-served admission to exclusive slots.
THEOREM PoolImplementsAdmission == Spec => Implements
<1>1. Init => A!Init
  BY AdmissionInit
<1>2. IInv /\ [Next]_vars => [A!Next]_(A!vars)
  BY AdmissionStep
<1> QED
  BY <1>1, <1>2, Invariance, PTL DEF Spec, A!Spec, Implements
=============================================================================
