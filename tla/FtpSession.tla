----------------------------- MODULE FtpSession -----------------------------
(***************************************************************************)
(* myftpserver.c's sessions and the myftpclient.c processes that talk to   *)
(* them.  A connection is two streams of units, a unit being what a recv   *)
(* of sizeof(struct message_s) takes: a header, or as much of the payload. *)
(* A client sends the header first, and then what belongs to it: the sends *)
(* of a password or a name are one unit (what counts is whether the last   *)
(* byte is there), the loop that sends a file sends any part at a time.    *)
(* The bytes of a file come in blocks, a recv of the client may find any   *)
(* part of them.                                                           *)
(*                                                                         *)
(* Users type commands at the prompts of the clients and kill clients that *)
(* wait or send.  exit(0) or a SIGPIPE in one thread of the server ends    *)
(* them all: on a file operation that fails, or an error of a connection.  *)
(***************************************************************************)
EXTENDS Naturals, Sequences, FiniteSets

CONSTANTS
    Clients,      \* the client processes
    NoDir,        \* those of them that cannot create files in filedir/
    Names,        \* file names
    Slots,        \* MAX: sessions at a time
    Block,        \* THROUGHPUT, in units
    Faults,       \* calls of the server that the system may refuse
    MaxConns,     \* bound: connections ever opened
    MaxLength,    \* bound: units in a file that is put
    MaxCommands,  \* bound: commands after authentication, per client
    None          \* no client, no file

Kinds == {"OPEN_CONN_REQUEST", "OPEN_CONN_REPLY", "AUTH_REQUEST", "AUTH_REPLY", "LIST_REQUEST",
          "LIST_REPLY", "GET_REQUEST", "GET_REPLY", "PUT_REQUEST", "PUT_REPLY", "FILE_DATA",
          "QUIT_REQUEST", "QUIT_REPLY"}

\* What a payload is: whether a password is right, a file name, or a listing.
Things == BOOLEAN \cup Names \cup SUBSET Names

Units ==
    [type : Kinds, status : BOOLEAN, size : Nat]
    \cup [type : {"payload"}, what : Things]
    \cup [type : {"file"}, by : Clients \cup {None}, at : Nat]

ASSUME FtpAssumption ==
    /\ NoDir \subseteq Clients /\ None \notin Clients \cup Names /\ None \notin Seq(Units)
    /\ Slots \in Nat \ {0} /\ Block \in Nat \ {0}
    /\ MaxConns \in Nat /\ MaxLength \in Nat /\ MaxCommands \in Nat

Conns == 1 .. MaxConns

VARIABLES
    client,    \* client[c]: the state of fsm_control, what it waits for, its transfer,
               \* and how many units of what it sends it has still to send
    local,     \* local[c]: the file the last get of c created, or None
    owner,     \* owner[k]: the client process that opened connection k
    toServer,  \* toServer[k]: what the client sends and the server has not received;
               \* its last Unsent(k) units are not sent yet
    toClient,  \* toClient[k]: sent and not yet received
    worker,    \* worker[k]: the server's thread for k
    file,      \* file[n]: the units of filedir/n at the server, or None
    serving,   \* the server process runs
    reset      \* connections on which the client's kernel has answered with a reset

vars == <<client, local, owner, toServer, toClient, worker, file, serving, reset>>
clientVars == <<client, local, owner>>

Header(type, status, size) == [type |-> type, status |-> status, size |-> size]
Payload(what) == [type |-> "payload", what |-> what]
FileUnit(c, i) == [type |-> "file", by |-> c, at |-> i]
IsHeader(u) == u.type \notin {"payload", "file"}

Idle(at) == [at |-> at, name |-> None, size |-> 0, offset |-> 0]
AtPrompt(x, state) ==
    [x EXCEPT !.state = state, !.want = "nothing",
              !.name = None, !.size = 0, !.got = <<>>, !.last = 0]

Init ==
    /\ client = [c \in Clients |-> [state |-> "IDLE", fd |-> 0, want |-> "nothing", left |-> MaxCommands,
                                    name |-> None, size |-> 0, got |-> <<>>, last |-> 0,
                                    unsent |-> 0]]
    /\ local = [c \in Clients |-> None]
    /\ owner = [k \in Conns |-> None]
    /\ toServer = [k \in Conns |-> <<>>]
    /\ toClient = [k \in Conns |-> <<>>]
    /\ worker = [k \in Conns |-> Idle("none")]
    /\ file = [n \in Names |-> None]
    /\ serving = TRUE
    /\ reset = {}

Gone(c) == client[c].state = "Gone"
PeerGone(k) == owner[k] # None /\ Gone(owner[k])
Active(k) == worker[k].at \notin {"none", "queue", "closed"}

Unsent(k) == IF owner[k] # None /\ client[owner[k]].fd = k THEN client[owner[k]].unsent ELSE 0

-----------------------------------------------------------------------------
(* The client *)

Prompt(c, state) == client[c].want = "nothing" /\ client[c].state = state

\* A request: the header is sent, the payload follows; the client then blocks until
\* the reply.
Request(c, type, payload, want, name, cost) ==
    /\ client[c].left >= cost
    /\ toServer' = [toServer EXCEPT ![client[c].fd] =
                        @ \o <<Header(type, TRUE, Len(payload))>> \o payload]
    /\ client' = [client EXCEPT ![c].want = want, ![c].name = name, ![c].left = @ - cost,
                                    ![c].unsent = Len(payload)]
    /\ UNCHANGED <<local, owner, toClient, worker, file, serving, reset>>

\* open: the connection is made before the server accepts it, then the request is sent.
open_conn(c) ==
    \E k \in Conns :
        /\ Prompt(c, "IDLE")
        /\ owner[k] = None /\ \A j \in 1 .. k - 1 : owner[j] # None
        /\ owner' = [owner EXCEPT ![k] = c]
        /\ worker' = [worker EXCEPT ![k].at = "queue"]
        /\ toServer' = [toServer EXCEPT ![k] = <<Header("OPEN_CONN_REQUEST", TRUE, 0)>>]
        /\ client' = [client EXCEPT ![c].fd = k, ![c].want = "OPEN_CONN_REPLY",
                                        ![c].unsent = 1]
        /\ UNCHANGED <<local, toClient, file, serving, reset>>

auth_conn(c) ==
    \E right \in BOOLEAN :
        /\ Prompt(c, "IS_AUTH")
        /\ Request(c, "AUTH_REQUEST", <<Payload(right)>>, "AUTH_REPLY", None, 0)

Command(c, type, payload, want, name) ==
    Prompt(c, "IS_MAIN") /\ Request(c, type, payload, want, name, 1)

list_file(c) == Command(c, "LIST_REQUEST", <<>>, "LIST_REPLY", None)
download(c) == \E n \in Names : Command(c, "GET_REQUEST", <<Payload(n)>>, "GET_REPLY", n)
upload(c) == \E n \in Names : Command(c, "PUT_REQUEST", <<Payload(n)>>, "PUT_REPLY", n)
quit(c) == Command(c, "QUIT_REQUEST", <<>>, "QUIT_REPLY", None)

\* The process ends and its sockets are closed, also those that fd has left
\* behind.  A socket that is closed with data unread resets its connection.
Leave(c, unread) ==
    /\ client' = [client EXCEPT ![c] = [AtPrompt(client[c], "Gone") EXCEPT !.left = 0]]
    /\ reset' = reset \cup {k \in Conns : owner[k] = c /\ unread[k] # <<>>}
    /\ toClient' = [k \in Conns |-> IF owner[k] = c THEN <<>> ELSE toClient[k]]
    /\ UNCHANGED <<local, owner, toServer, worker, file, serving>>

\* exit at the prompt, and a signal while the client waits or sends; what it has not
\* sent yet never arrives.
Exit(c) == ~ Gone(c) /\ Leave(c, toClient)

\* recv: the next unit of the connection, or nothing when the server has closed it.
Arrived(c) == toClient[client[c].fd]
Closed(c) == Arrived(c) = <<>> /\ (~ serving \/ worker[client[c].fd].at = "closed")
Accepted(c, status) ==
    /\ Arrived(c) # <<>>
    /\ Head(Arrived(c)).type = client[c].want
    /\ status => Head(Arrived(c)).status

\* A reply is received: on success the client is in state good and waits for next,
\* otherwise it is in state bad and at its prompt.
Reply(c, want, status, good, next, bad) ==
    /\ client[c].want = want /\ client[c].unsent = 0
    /\ Arrived(c) # <<>> \/ Closed(c)
    /\ toClient' = [toClient EXCEPT ![client[c].fd] = IF @ = <<>> THEN @ ELSE Tail(@)]
    /\ client' = [client EXCEPT
           ![c] = IF Accepted(c, status)
                  THEN [@ EXCEPT !.state = good, !.want = next,
                                 !.size = IF next = "data" THEN Head(Arrived(c)).size ELSE 0,
                                 !.got = <<>>, !.last = 0]
                  ELSE AtPrompt(client[c], bad)]

Same == UNCHANGED <<owner, toServer, worker, file, serving, reset>>

OpenReply(c) ==
    Reply(c, "OPEN_CONN_REPLY", TRUE, "IS_AUTH", "nothing", "IDLE") /\ Same /\ UNCHANGED local

\* A rejected client forgets the connection but does not close it.
AuthReply(c) ==
    Reply(c, "AUTH_REPLY", TRUE, "IS_MAIN", "nothing", "IDLE") /\ Same /\ UNCHANGED local

ListReply(c) ==
    Reply(c, "LIST_REPLY", FALSE, "IS_MAIN", "data", "IS_MAIN") /\ Same /\ UNCHANGED local

\* Plausible bug: the status of the reply is not looked at.
GetReplyUnchecked(c) ==
    Reply(c, "GET_REPLY", FALSE, "IS_MAIN", "FILE_DATA", "IS_MAIN") /\ Same /\ UNCHANGED local

GetReply(c) ==
    Reply(c, "GET_REPLY", TRUE, "IS_MAIN", "FILE_DATA", "IS_MAIN") /\ Same /\ UNCHANGED local

\* The file is created, or emptied, before its data are received; a client that
\* cannot do so leaves them in the stream.
FileData(c) ==
    /\ Reply(c, "FILE_DATA", FALSE, "IS_MAIN", IF c \in NoDir THEN "nothing" ELSE "data", "IS_MAIN")
    /\ local' = [local EXCEPT ![c] =
                     IF Accepted(c, FALSE) /\ c \notin NoDir THEN <<>> ELSE @]
    /\ Same

PutReply(c) ==
    Reply(c, "PUT_REPLY", FALSE, "IS_MAIN", "header", "IS_MAIN") /\ Same /\ UNCHANGED local

\* quit ends the process as exit does, but only on the right reply.
QuitReply(c) ==
    IF client[c].want = "QUIT_REPLY" /\ Accepted(c, FALSE)
    THEN Leave(c, [toClient EXCEPT ![client[c].fd] = Tail(@)])
    ELSE Reply(c, "QUIT_REPLY", FALSE, "Gone", "nothing", "IS_MAIN") /\ Same /\ UNCHANGED local

\* dataReceiver: one recv takes what has arrived, up to the size still wanted.
Receive(c) ==
    /\ client[c].want = "data"
    /\ \E n \in 1 .. client[c].size - Len(client[c].got) :
        /\ n <= Len(Arrived(c))
        /\ client' = [client EXCEPT
               ![c].got = @ \o SubSeq(Arrived(c), 1, n), ![c].last = n]
        /\ toClient' = [toClient EXCEPT ![client[c].fd] = SubSeq(@, n + 1, Len(@))]
    /\ UNCHANGED local /\ Same

\* What dataReceiver returns is the length of its last recv, and the data are
\* written only when that is the whole payload.  (A listing is only printed.)
Received(c) ==
    /\ client[c].want = "data"
    /\ Len(client[c].got) = client[c].size
    /\ client' = [client EXCEPT ![c].want = "nothing"]
    /\ local' = [local EXCEPT ![c] =
           IF client[c].name # None /\ client[c].last = client[c].size THEN client[c].got ELSE @]
    /\ UNCHANGED toClient /\ Same

\* Plausible bug: the length announced is an index of the last unit.
UploadHeaderShort(c) ==
    \E n \in 0 .. MaxLength :
        /\ client[c].want = "header"
        /\ toServer' = [toServer EXCEPT ![client[c].fd] =
               @ \o <<Header("FILE_DATA", TRUE, IF n = 0 THEN 0 ELSE n - 1)>>
                 \o [i \in 1 .. n |-> FileUnit(c, i)]]
        /\ client' = [client EXCEPT ![c] =
               IF n = 0 THEN AtPrompt(client[c], client[c].state)
               ELSE [@ EXCEPT !.want = "sending", !.unsent = n]]
        /\ UNCHANGED <<local, owner, toClient, worker, file, serving, reset>>

\* upload: the header announces the length of the file, the file follows.
UploadHeader(c) ==
    \E n \in 0 .. MaxLength :
        /\ client[c].want = "header"
        /\ toServer' = [toServer EXCEPT ![client[c].fd] =
               @ \o <<Header("FILE_DATA", TRUE, n)>> \o [i \in 1 .. n |-> FileUnit(c, i)]]
        /\ client' = [client EXCEPT ![c] =
               IF n = 0 THEN AtPrompt(client[c], client[c].state)
               ELSE [@ EXCEPT !.want = "sending", !.unsent = n]]
        /\ UNCHANGED <<local, owner, toClient, worker, file, serving, reset>>

\* send: units that belong to the header sent before, one or more.  The upload is over
\* with the last of them.
SendRest(c) ==
    /\ ~ Gone(c)
    /\ \E n \in 1 .. client[c].unsent :
        LET x == [client[c] EXCEPT !.unsent = @ - n] IN
        client' = [client EXCEPT
            ![c] = IF x.want = "sending" /\ x.unsent = 0 THEN AtPrompt(x, x.state) ELSE x]
    /\ UNCHANGED <<local, toClient>> /\ Same

Client(c) ==
    \/ OpenReply(c) \/ AuthReply(c) \/ ListReply(c) \/ GetReply(c) \/ FileData(c)
    \/ PutReply(c) \/ QuitReply(c) \/ Receive(c) \/ Received(c)
    \/ UploadHeader(c) \/ SendRest(c)

\* Nothing more is typed when the server has ended.
User(c) ==
    /\ serving
    /\ \/ open_conn(c) \/ auth_conn(c) \/ list_file(c) \/ download(c) \/ upload(c) \/ quit(c)
       \/ Exit(c)

-----------------------------------------------------------------------------
(* The server *)

At(k, at) == serving /\ worker[k].at = at
Goto(k, at) == worker' = [worker EXCEPT ![k] = Idle(at)]

\* exit(0): every session ends.
Down ==
    /\ serving' = FALSE
    /\ toServer' = [k \in Conns |-> <<>>]
    /\ UNCHANGED <<client, local, owner, toClient, worker, file, reset>>

\* A system call on account of connection k fails after units were sent to its client:
\* exit(0) as well.
Fail(k, call, units) ==
    /\ call \in Faults
    /\ serving' = FALSE
    /\ toServer' = [j \in Conns |-> <<>>]
    /\ toClient' = [toClient EXCEPT ![k] = IF PeerGone(k) THEN @ ELSE @ \o units]
    /\ Goto(k, "failed")
    /\ UNCHANGED <<clientVars, file, reset>>

\* recv on a connection, which waits for n units: they are there, or never will be.
Has(k, n) == Len(toServer[k]) >= n + Unsent(k)
Ended(k, n) == ~ Has(k, n) /\ PeerGone(k)

\* Plausible bug: the end of a connection is taken for an error.
RecvErrorAtEnd(k, n) == Ended(k, n) /\ Down

\* The process exits on the error a reset leaves behind.
RecvError(k, n) == Ended(k, n) /\ k \in reset /\ Down

\* send: to a client that has gone the first one is answered with a reset, and
\* one after that with SIGPIPE.
Send(k, units) ==
    /\ toClient' = [toClient EXCEPT ![k] = IF PeerGone(k) THEN @ ELSE @ \o units]
    /\ reset' = IF PeerGone(k) THEN reset \cup {k} ELSE reset
    /\ UNCHANGED serving
SendError(k) == k \in reset /\ Down

\* Units taken from the connection: a header, or a message with its payload.
Take(k, n) == toServer' = [toServer EXCEPT ![k] = SubSeq(@, n + 1, Len(@))]

\* accept and pthread_create.
Accept(k) ==
    /\ At(k, "queue")
    /\ Cardinality({j \in Conns : Active(j)}) < Slots
    /\ \/ /\ Goto(k, "connection")
          /\ UNCHANGED <<clientVars, toServer, toClient, file, serving, reset>>
       \/ Fail(k, "accept", <<>>)

Message(k, type) == Has(k, 1) /\ Head(toServer[k]).type = type

\* The password file is opened when the reply has been sent.
connection(k) ==
    LET reply == <<Header("OPEN_CONN_REPLY", TRUE, 0)>> IN
    /\ At(k, "connection")
    /\ \/ /\ Message(k, "OPEN_CONN_REQUEST")
          /\ \/ /\ Take(k, 1) /\ Goto(k, "authentication") /\ Send(k, reply)
                /\ UNCHANGED <<clientVars, file>>
             \/ SendError(k) \/ Fail(k, "fopen", reply)
       \/ Has(k, 1) /\ ~ Message(k, "OPEN_CONN_REQUEST") /\ Down
       \/ Ended(k, 1) /\ Down

\* A failed authentication is repeated; anything but an AUTH_REQUEST ends the server.
authentication(k) ==
    /\ At(k, "authentication")
    /\ \/ /\ Message(k, "AUTH_REQUEST") /\ Has(k, 2)
          /\ \/ /\ Take(k, 2)
                /\ Goto(k, IF toServer[k][2].what THEN "service" ELSE "authentication")
                /\ Send(k, <<Header("AUTH_REPLY", toServer[k][2].what, 0)>>)
                /\ UNCHANGED <<clientVars, file>>
             \/ SendError(k)
       \/ Has(k, 1) /\ ~ Message(k, "AUTH_REQUEST") /\ Down
       \/ Ended(k, 1) /\ Down
       \/ RecvError(k, 2)

Requested(k, type) == At(k, "service") /\ Message(k, type)

listFile(k) ==
    /\ Requested(k, "LIST_REQUEST")
    /\ \/ /\ Take(k, 1)
          /\ Send(k, <<Header("LIST_REPLY", TRUE, 1), Payload({n \in Names : file[n] # None})>>)
          /\ UNCHANGED <<clientVars, worker, file>>
       \/ SendError(k)

\* Plausible bug: the data follow a refusal too.
beDownloadAnyway(k) ==
    LET n == toServer[k][2].what
        f == IF file[n] = None THEN <<>> ELSE file[n] IN
    /\ Requested(k, "GET_REQUEST") /\ Has(k, 2)
    /\ Take(k, 2)
    /\ Send(k, <<Header("GET_REPLY", file[n] # None, 0), Header("FILE_DATA", TRUE, Len(f))>>)
    /\ worker' = [worker EXCEPT ![k] = [at |-> "download", name |-> n,
                                       size |-> Len(f), offset |-> 0]]
    /\ UNCHANGED <<clientVars, file>>

\* GET: a file that is not there or cannot be opened is refused; the size that is
\* announced is the one the file has now.
beDownload(k) ==
    LET n == toServer[k][2].what
        yes == Header("GET_REPLY", TRUE, 0) IN
    /\ Requested(k, "GET_REQUEST")
    /\ \/ /\ Has(k, 2)
          /\ \/ /\ file[n] = None \/ "open" \in Faults
                /\ Take(k, 2) /\ Send(k, <<Header("GET_REPLY", FALSE, 0)>>)
                /\ UNCHANGED <<clientVars, worker, file>>
             \/ /\ file[n] # None
                /\ Take(k, 2) /\ Send(k, <<yes, Header("FILE_DATA", TRUE, Len(file[n]))>>)
                /\ worker' = [worker EXCEPT ![k] = [at |-> "download", name |-> n,
                                                   size |-> Len(file[n]), offset |-> 0]]
                /\ UNCHANGED <<clientVars, file>>
             \/ file[n] # None /\ Fail(k, "fstat", <<yes>>)
             \/ SendError(k)
       \/ RecvError(k, 2)

Smaller(a, b) == IF a < b THEN a ELSE b

\* Plausible bug: the last block is a whole one too.
NextBlockWhole(k) == Block

NextBlock(k) == Smaller(Block, worker[k].size - worker[k].offset)

Progress(k) ==
    IF worker[k].offset + NextBlock(k) = worker[k].size THEN Goto(k, "service")
    ELSE worker' = [worker EXCEPT ![k].offset = @ + NextBlock(k)]

\* A block is read at the file's offset and sent, at full length also when the
\* read has found less.
DownloadBlock(k) ==
    LET f == file[worker[k].name] IN
    /\ At(k, "download")
    /\ \/ /\ Progress(k)
          /\ Send(k, [i \in 1 .. NextBlock(k) |->
                         IF worker[k].offset + i \in 1 .. Len(f) THEN f[worker[k].offset + i]
                         ELSE FileUnit(None, 0)])
          /\ UNCHANGED <<clientVars, toServer, file>>
       \/ SendError(k) \/ Fail(k, "read", <<>>)

\* Plausible bug: the file is opened with O_TRUNC.
beUploadTruncates(k) ==
    LET n == toServer[k][2].what IN
    /\ Requested(k, "PUT_REQUEST") /\ Has(k, 2)
    /\ Take(k, 2)
    /\ file' = [file EXCEPT ![n] = <<>>]
    /\ worker' = [worker EXCEPT ![k] = [at |-> "upload", name |-> n, size |-> 0, offset |-> 0]]
    /\ Send(k, <<Header("PUT_REPLY", TRUE, 0)>>)
    /\ UNCHANGED clientVars

\* PUT: the file is created when it is not there, and otherwise overwritten.
beUpload(k) ==
    LET n == toServer[k][2].what IN
    /\ Requested(k, "PUT_REQUEST")
    /\ \/ /\ Has(k, 2)
          /\ \/ /\ Take(k, 2)
                /\ file' = [file EXCEPT ![n] = IF @ = None THEN <<>> ELSE @]
                /\ worker' = [worker EXCEPT ![k] = [at |-> "upload", name |-> n,
                                                   size |-> 0, offset |-> 0]]
                /\ Send(k, <<Header("PUT_REPLY", TRUE, 0)>>)
                /\ UNCHANGED clientVars
             \/ SendError(k) \/ Fail(k, "open", <<>>)
       \/ RecvError(k, 2)

\* The header of the data is not looked at, except for its length; at the end of
\* the connection the length is 0.
UploadSize(k) ==
    /\ At(k, "upload")
    /\ \/ /\ Has(k, 1)
          /\ Take(k, 1)
          /\ IF Head(toServer[k]).size = 0 THEN Goto(k, "service")
             ELSE worker' = [worker EXCEPT ![k].size = Head(toServer[k]).size, ![k].at = "blocks"]
          /\ UNCHANGED <<clientVars, toClient, file, serving, reset>>
       \/ /\ Ended(k, 1)
          /\ Goto(k, "service")
          /\ UNCHANGED <<clientVars, toServer, toClient, file, serving, reset>>
       \/ RecvError(k, 1)

\* Units data written into f from offset on.
Overwrite(f, offset, data) ==
    [i \in 1 .. offset + Len(data) |-> IF i > offset THEN data[i - offset]
                                      ELSE IF i <= Len(f) THEN f[i] ELSE FileUnit(None, 0)]
    \o SubSeq(f, offset + Len(data) + 1, Len(f))

UploadBlock(k) ==
    /\ At(k, "blocks")
    /\ \/ /\ Has(k, NextBlock(k))
          /\ \/ /\ Take(k, NextBlock(k))
                /\ file' = [file EXCEPT ![worker[k].name] =
                       Overwrite(@, worker[k].offset, SubSeq(toServer[k], 1, NextBlock(k)))]
                /\ Progress(k)
                /\ UNCHANGED <<clientVars, toClient, serving, reset>>
             \/ Fail(k, "write", <<>>)
       \/ RecvError(k, NextBlock(k))

\* Plausible bug: an error does not end the session, which goes on receiving.
ClosedByQuitOnly(k) ==
    /\ Requested(k, "QUIT_REQUEST")
    /\ Take(k, 1)
    /\ Send(k, <<Header("QUIT_REPLY", TRUE, 0)>>)
    /\ Goto(k, "closed")
    /\ UNCHANGED <<clientVars, file>>

\* client_close: after QUIT, a message of another kind, or the end of the connection.
client_close(k) ==
    /\ At(k, "service")
    /\ \/ /\ \/ Ended(k, 1) /\ UNCHANGED toServer
             \/ /\ Has(k, 1) /\ Take(k, 1)
                /\ Head(toServer[k]).type \notin {"LIST_REQUEST", "GET_REQUEST", "PUT_REQUEST"}
          /\ Send(k, <<Header("QUIT_REPLY", TRUE, 0)>>)
          /\ Goto(k, "closed")
          /\ UNCHANGED <<clientVars, file>>
       \/ RecvError(k, 1) \/ (Requested(k, "QUIT_REQUEST") /\ SendError(k))

Worker(k) ==
    \/ Accept(k) \/ connection(k) \/ authentication(k) \/ listFile(k) \/ beDownload(k)
    \/ DownloadBlock(k) \/ beUpload(k) \/ UploadSize(k) \/ UploadBlock(k) \/ client_close(k)

Next ==
    \/ \E c \in Clients : Client(c) \/ User(c)
    \/ \E k \in Conns : Worker(k)

Spec == Init /\ [][Next]_vars

\* The server's threads are scheduled, and so are the clients; users need not type.
FairSpec ==
    /\ Spec
    /\ \A c \in Clients : WF_vars(Client(c))
    /\ \A k \in Conns : WF_vars(Worker(k))

-----------------------------------------------------------------------------
(* Properties *)

Waits == {"nothing", "data", "header", "sending", "OPEN_CONN_REPLY", "AUTH_REPLY", "LIST_REPLY",
          "GET_REPLY", "FILE_DATA", "PUT_REPLY", "QUIT_REPLY"}

\* The states of the processes; no transfer goes past its length.
TypeOK ==
    /\ \A c \in Clients :
        /\ client[c].state \in {"IDLE", "IS_AUTH", "IS_MAIN", "Gone"}
        /\ client[c].want \in Waits
        /\ client[c].fd \in {0} \cup Conns
        /\ Len(client[c].got) <= client[c].size
        /\ client[c].unsent \in Nat
    /\ owner \in [Conns -> Clients \cup {None}]
    /\ \A k \in Conns :
        /\ worker[k].at \in {"none", "queue", "connection", "authentication", "service", "download",
                             "upload", "blocks", "closed", "failed"}
        /\ worker[k].offset <= worker[k].size
    /\ serving \in BOOLEAN /\ reset \subseteq Conns

\* Whatever the clients do, also those that have lost step, the server finds a header
\* where it reads one, the request that belongs to the state of the session in
\* connection() and authentication(), whose exit(0) it therefore never reaches on a
\* message, and payload where dataReceiver reads it.
ServerInStep ==
    serving => \A k \in Conns : toServer[k] # <<>> =>
        /\ worker[k].at \in {"service", "upload"} => IsHeader(Head(toServer[k]))
        /\ worker[k].at = "connection" => Head(toServer[k]).type = "OPEN_CONN_REQUEST"
        /\ worker[k].at = "authentication" => Head(toServer[k]).type = "AUTH_REQUEST"
        /\ worker[k].at = "blocks" =>
            \A i \in 1 .. Smaller(Len(toServer[k]), worker[k].size - worker[k].offset) :
                ~ IsHeader(toServer[k][i])

\* The server ends, for everybody, only on account of a call the system has refused (a
\* file that cannot be read, as with "get .", or written or created, a connection that
\* cannot be accepted), or of a client that left before it was authenticated on all its
\* connections, or left data unread or unsent replies behind: never because a message
\* is not the one the server expects, or breaks off in the middle.
ServerEndsFor ==
    ~ serving => \E k \in Conns :
        \/ worker[k].at = "failed"
        \/ PeerGone(k) /\ (worker[k].at \in {"connection", "authentication"} \/ k \in reset)

\* A client that can store what it gets finds the reply to its request, or nothing yet,
\* where it reads a reply: sessions do not disturb each other.
ReplyMatches ==
    \A c \in Clients \ NoDir : ~ Gone(c) /\ client[c].fd # 0 /\ Arrived(c) # <<>> =>
        IF client[c].want = "data" THEN ~ IsHeader(Head(Arrived(c)))
        ELSE Head(Arrived(c)).type = client[c].want

\* Files never shrink under a download that has announced their size: what a get
\* receives are units that were put, each at its place, though puts of other clients
\* overwrite the file meanwhile.
UnitsInPlace ==
    \A c \in Clients : \A i \in 1 .. Len(client[c].got) :
        LET u == client[c].got[i] IN u.type = "file" => u.at = i /\ u.by # None

\* The client was killed between two sends of one message.
LeftSending(k) == PeerGone(k) /\ Unsent(k) > 0

\* The slots of clients that have left are given back, unless they left in the middle of
\* a message: dataReceiver then waits for the rest, for ever.
Vacates(k) == Active(k) /\ PeerGone(k) /\ ~ LeftSending(k)
SlotsReturn == (\E k \in Conns : Vacates(k)) ~> (~ serving \/ \A k \in Conns : ~ Vacates(k))

\* A client in step whose connection has a worker gets its answer, or the server ends.
Answered ==
    \A c \in Clients \ NoDir :
        (client[c].want # "nothing" /\ Active(client[c].fd)) ~> (client[c].want = "nothing" \/ ~ serving)

\* "data received bytes != payload bytes" means that the download was cut short.
DownloadComplete ==
    \A c \in Clients \ NoDir :
        client[c].want = "nothing" /\ client[c].name # None /\ client[c].size > 0
            /\ Len(client[c].got) = client[c].size
        => local[c] = client[c].got
=============================================================================
