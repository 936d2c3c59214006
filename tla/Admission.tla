----------------------------- MODULE Admission -----------------------------
(***************************************************************************)
(* What the accept loop of the three servers promises, without its mutex,  *)
(* condition variable or counters: connections are admitted in the order   *)
(* in which they arrived, each into a slot that nobody uses, and a slot    *)
(* holds one session from its admission until it ends.  SlotPool           *)
(* implements this specification.                                          *)
(***************************************************************************)
EXTENDS Sequences

CONSTANTS
    Conns,   \* the clients' connections
    NoConn,  \* the content of a free slot
    Slots    \* the places for sessions

VARIABLES
    queue,   \* the connections that wait, oldest first
    table    \* table[s]: the connection slot s serves

vars == <<queue, table>>

Init ==
    /\ queue = <<>>
    /\ table = [s \in Slots |-> NoConn]

Waits(c) == \E i \in DOMAIN queue : queue[i] = c

Arrive(c) ==
    /\ ~ Waits(c)
    /\ \A s \in Slots : table[s] # c
    /\ queue' = Append(queue, c)
    /\ UNCHANGED table

Admit(s) ==
    /\ queue # <<>>
    /\ table[s] = NoConn
    /\ table' = [table EXCEPT ![s] = Head(queue)]
    /\ queue' = Tail(queue)

Leave(s) ==
    /\ table[s] # NoConn
    /\ table' = [table EXCEPT ![s] = NoConn]
    /\ UNCHANGED queue

Next ==
    \/ \E c \in Conns : Arrive(c)
    \/ \E s \in Slots : Admit(s) \/ Leave(s)

Spec == Init /\ [][Next]_vars
=============================================================================
