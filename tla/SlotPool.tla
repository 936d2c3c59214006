------------------------------ MODULE SlotPool ------------------------------
(***************************************************************************)
(* The accept loop and the table of worker slots that myproxy.c, router.c  *)
(* and myftpserver.c share, line for line.  One main thread accepts        *)
(* connections and starts a worker for each; MAX workers run at most, each *)
(* on an entry of args[] that main fills in and the worker keeps reading   *)
(* through a pointer until it exits.                                       *)
(*                                                                         *)
(* Every mutex section of these threads is short and never blocks, so it   *)
(* is one action.  A handler that holds the same mutex (the proxy's cache) *)
(* only delays these actions and changes nothing they read.  A worker is   *)
(* named by the connection it was started for.                             *)
(***************************************************************************)
EXTENDS Integers, Sequences, FiniteSets

CONSTANTS
    Conns,   \* the clients' connections
    NoConn,  \* not a connection
    MAX,     \* the number of slots
    Backlog  \* listen(sd, 10)

ASSUME SlotPoolAssumption ==
    /\ NoConn \notin Conns
    /\ MAX \in Nat \ {0}
    /\ Backlog \in Nat \ {0}

Slots == 0 .. MAX - 1

VARIABLES
    m,          \* number of workers, as the code counts them
    available,  \* available[s] = 1: slot s is TAKEN (the code's convention)
    ind,        \* the slot main chose last
    args,       \* args[s]: the client_sd main stored in slot s
    main,       \* where the main thread is
    client_sd,  \* main's local variable: the socket it accepted last
    backlog,    \* completed connections the kernel holds for accept()
    peer,       \* the state of each connection
    worker,     \* the state of each connection's worker
    slot        \* the slot each worker points to

vars == <<m, available, ind, args, main, client_sd, backlog, peer, worker, slot>>

MainStates == {"check", "wait", "woken", "accept", "find", "spawn"}
PeerStates == {"away", "queued", "open", "closed"}
WorkerStates == {"none", "serving", "leaving"}

Taken == {s \in Slots : available[s] = 1}
Vacant == Slots \ Taken
Live(c) == worker[c] # "none"

-----------------------------------------------------------------------------
Init ==
    /\ m = 0
    /\ available = [s \in Slots |-> 0]
    /\ ind = 0
    /\ args = [s \in Slots |-> NoConn]
    /\ main = "check"
    /\ client_sd = NoConn
    /\ backlog = <<>>
    /\ peer = [c \in Conns |-> "away"]
    /\ worker = [c \in Conns |-> "none"]
    /\ slot = [c \in Conns |-> 0]

\* A client's connect() completes in the kernel before main accepts it.
Connect(c) ==
    /\ peer[c] = "away"
    /\ ~ Live(c)
    /\ Len(backlog) < Backlog
    /\ backlog' = Append(backlog, c)
    /\ peer' = [peer EXCEPT ![c] = "queued"]
    /\ UNCHANGED <<m, available, ind, args, main, client_sd, worker, slot>>

\* Plausible bug: m > MAX.
CheckVacancyOffByOne ==
    /\ main = "check"
    /\ main' = IF m > MAX THEN "wait" ELSE "accept"
    /\ UNCHANGED <<m, available, ind, args, client_sd, backlog, peer, worker, slot>>

\* if (m >= MAX) pthread_cond_wait(&full, &mutex): an if, not a while.
CheckVacancy ==
    /\ main = "check"
    /\ main' = IF m >= MAX THEN "wait" ELSE "accept"
    /\ UNCHANGED <<m, available, ind, args, client_sd, backlog, peer, worker, slot>>

\* pthread_cond_wait returns with the mutex, which main then releases.
Resume ==
    /\ main = "woken"
    /\ main' = "accept"
    /\ UNCHANGED <<m, available, ind, args, client_sd, backlog, peer, worker, slot>>

Accept ==
    /\ main = "accept"
    /\ backlog # <<>>
    /\ client_sd' = Head(backlog)
    /\ backlog' = Tail(backlog)
    /\ peer' = [peer EXCEPT ![Head(backlog)] = "open"]
    /\ main' = "find"
    /\ UNCHANGED <<m, available, ind, args, worker, slot>>

\* Plausible bug: the slot is reserved but not counted.
ReserveUncounted(s) ==
    /\ ind' = s
    /\ available' = [available EXCEPT ![s] = 1]
    /\ UNCHANGED m

\* Plausible bug: the slots are numbered from 1.
ReserveFromOne(s) ==
    /\ ind' = s + 1
    /\ available' = [available EXCEPT ![s] = 1]
    /\ m' = m + 1

Reserve(s) ==
    /\ ind' = s
    /\ available' = [available EXCEPT ![s] = 1]
    /\ m' = m + 1

\* The first slot with available[i] == 0; when there is none, ind keeps the
\* value the previous connection left in it.
FindVacancy ==
    /\ main = "find"
    /\ \/ \E s \in Vacant : (\A r \in Vacant : s <= r) /\ Reserve(s)
       \/ Vacant = {} /\ UNCHANGED <<ind, available, m>>
    /\ main' = "spawn"
    /\ UNCHANGED <<args, client_sd, backlog, peer, worker, slot>>

\* The second mutex section of the loop: fill in args[ind], start the worker.
Spawn ==
    /\ main = "spawn"
    /\ available' = [available EXCEPT ![ind] = 1]
    /\ args' = [args EXCEPT ![ind] = client_sd]
    /\ worker' = [worker EXCEPT ![client_sd] = "serving"]
    /\ slot' = [slot EXCEPT ![client_sd] = ind]
    /\ main' = "check"
    /\ UNCHANGED <<m, ind, client_sd, backlog, peer>>

-----------------------------------------------------------------------------
\* Plausible bug: the slot is vacated with the socket, before the worker is done.
ClientCloseVacates(c) ==
    /\ worker[c] = "serving"
    /\ peer' = [peer EXCEPT ![args[slot[c]]] = "closed"]
    /\ worker' = [worker EXCEPT ![c] = "leaving"]
    /\ available' = [available EXCEPT ![slot[c]] = 0]
    /\ UNCHANGED <<m, ind, args, main, client_sd, backlog, slot>>

\* The client hangs up and serviceHandler ends; client_close() takes the socket
\* from the slot, not from the thread.
ClientClose(c) ==
    /\ worker[c] = "serving"
    /\ peer' = [peer EXCEPT ![args[slot[c]]] = "closed"]
    /\ worker' = [worker EXCEPT ![c] = "leaving"]
    /\ UNCHANGED <<m, available, ind, args, main, client_sd, backlog, slot>>

\* Plausible bug: m is taken down before it is compared with MAX.
SignalLate == main' = IF m - 1 >= MAX /\ main = "wait" THEN "woken" ELSE main

\* if (m >= MAX) pthread_cond_signal(&full): no effect unless main waits.
Signal == main' = IF m >= MAX /\ main = "wait" THEN "woken" ELSE main

\* Plausible bug: the worker vacates the slot main has chosen last, ind, and not the one
\* in its entry.
ReleaseMainsIndex(c) ==
    /\ worker[c] = "leaving"
    /\ available' = [available EXCEPT ![ind] = 0]
    /\ Signal
    /\ m' = m - 1
    /\ worker' = [worker EXCEPT ![c] = "none"]
    /\ peer' = [peer EXCEPT ![c] = IF @ = "closed" THEN "away" ELSE @]
    /\ UNCHANGED <<ind, args, client_sd, backlog, slot>>

\* The end of client(): vacate the slot, signal if the table was full, count.
Release(c) ==
    /\ worker[c] = "leaving"
    /\ available' = [available EXCEPT ![slot[c]] = 0]
    /\ Signal
    /\ m' = m - 1
    /\ worker' = [worker EXCEPT ![c] = "none"]
    /\ peer' = [peer EXCEPT ![c] = IF @ = "closed" THEN "away" ELSE @]
    /\ UNCHANGED <<ind, args, client_sd, backlog, slot>>

-----------------------------------------------------------------------------
Next ==
    \/ CheckVacancy \/ Resume
    \/ Accept \/ FindVacancy \/ Spawn
    \/ \E c \in Conns : Connect(c) \/ ClientClose(c) \/ Release(c)

Spec == Init /\ [][Next]_vars

\* Main is scheduled, and every session ends: its client quits or hangs up.
\* Clients need not come back, so Connect has no fairness.
Fairness ==
    /\ WF_vars(CheckVacancy) /\ WF_vars(Resume) /\ WF_vars(Accept)
    /\ WF_vars(FindVacancy) /\ WF_vars(Spawn)
    /\ \A c \in Conns : WF_vars(ClientClose(c)) /\ WF_vars(Release(c))

FairSpec == Spec /\ Fairness

-----------------------------------------------------------------------------
\* The type invariant.  m is an integer: only the properties below keep it
\* from going under zero.
TypeOK ==
    /\ m \in Int
    /\ available \in [Slots -> {0, 1}]
    /\ ind \in Slots
    /\ args \in [Slots -> Conns \cup {NoConn}]
    /\ main \in MainStates
    /\ client_sd \in Conns \cup {NoConn}
    /\ backlog \in Seq(Conns)
    /\ peer \in [Conns -> PeerStates]
    /\ worker \in [Conns -> WorkerStates]
    /\ slot \in [Conns -> Slots]

\* A worker reads args[slot] through a pointer for its whole life: in
\* serviceHandler, in client_close and for the index it vacates at the end.
\* Until then the entry holds its own connection, whatever main accepts.
OwnEntry == \A c \in Conns : Live(c) => args[slot[c]] = c

\* The counter and the table never disagree.  They change in two mutex sections
\* of main and one of the worker, and m alone decides whether main may accept.
VacancyCounted == m = Cardinality(Taken)

\* Between the test of m and the search for a vacancy main releases the mutex
\* and blocks in accept(), and the search has no branch for a full table:
\* there is always a vacancy to find.
AcceptHasVacancy == main \in {"accept", "find"} => Vacant # {}

\* While main waits for the condition some worker has still to vacate its slot,
\* and it will find m >= MAX when it does: the wakeup is not lost.
NoLostWakeup == main = "wait" => m >= MAX /\ \E c \in Conns : Live(c)

\* Every connection the kernel completed is served in the end: main is never left
\* waiting, however workers leave while it checks, waits, wakes up or accepts.
Served == \A c \in Conns : peer[c] = "queued" ~> worker[c] = "serving"

\* The servers implement Admission: the connection main has in its hand is
\* still the first of the queue, and a slot main has reserved but not yet
\* filled in is still free.
waiting == (IF main \in {"find", "spawn"} THEN <<client_sd>> ELSE <<>>) \o backlog

sessions ==
    [s \in Slots |-> IF s \in Vacant \/ (main = "spawn" /\ ind = s)
                     THEN NoConn ELSE args[s]]

A == INSTANCE Admission WITH queue <- waiting, table <- sessions

\* Connections are admitted in the order of their arrival, each to a free slot.
Implements == A!Spec
=============================================================================
