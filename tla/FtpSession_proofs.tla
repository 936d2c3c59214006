-------------------------- MODULE FtpSession_proofs --------------------------
(***************************************************************************)
(* For any number of clients, connections and files of any length:         *)
(* sessions stay in step, the server ends only for the reasons stated, and *)
(* what is received is what was put.                                       *)
(*                                                                         *)
(* The argument.  What a client sends is framed: a header and as much      *)
(* payload as it announces.  A server that takes a whole message at a time *)
(* therefore finds headers where it reads headers, also from a client that *)
(* has lost step.  A client in step has at most one request under way, and *)
(* what comes back on its connection is a beginning of the answer to it.   *)
(* Units that are still unsent are the last of the stream, behind a header *)
(* that has been sent; a server that waits for them makes no step.         *)
(***************************************************************************)
EXTENDS FtpSession, SequenceTheorems, TLAPS

ClientStates ==
    [state : {"IDLE", "IS_AUTH", "IS_MAIN", "Gone"}, fd : {0} \cup Conns, want : Waits, left : Nat,
     name : Names \cup {None}, size : Nat, got : Seq(Units), last : Nat, unsent : Nat]
Places == {"none", "queue", "connection", "authentication", "service", "download", "upload",
           "blocks", "closed", "failed"}
WorkerStates == [at : Places, name : Names \cup {None}, size : Nat, offset : Nat]

TypeInv ==
    /\ client \in [Clients -> ClientStates]
    /\ owner \in [Conns -> Clients \cup {None}]
    /\ toServer \in [Conns -> Seq(Units)]
    /\ toClient \in [Conns -> Seq(Units)]
    /\ worker \in [Conns -> WorkerStates]
    /\ file \in [Names -> Seq(Units) \cup {None}]
    /\ serving \in BOOLEAN
    /\ reset \subseteq Conns

\* A unit that is not a header, and if it is of a file, of the place it is at.
InPlace(u, i) == ~ IsHeader(u) /\ (u.type = "file" => u.at = i /\ u.by # None)

\* What each client knows of itself.
StateFor(want) ==
    CASE want = "OPEN_CONN_REPLY" -> "IDLE" [] want = "AUTH_REPLY" -> "IS_AUTH" [] OTHER -> "IS_MAIN"
ClientInv(c) ==
    LET x == client[c] IN
    /\ x.fd # 0 => owner[x.fd] = c
    /\ x.unsent > 0 => x.fd # 0
    /\ x.want # "nothing" \/ x.state \in {"IS_AUTH", "IS_MAIN"} => x.fd # 0
    /\ x.want # "nothing" => x.state = StateFor(x.want)
    /\ x.want = "header" => x.got = <<>>
    /\ Len(x.got) <= x.size
    /\ \A i \in 1 .. Len(x.got) : InPlace(x.got[i], i)

FileInv(n) == file[n] # None => \A i \in 1 .. Len(file[n]) : InPlace(file[n][i], i)

\* The file a worker is at is there, as long as it was when its length was taken.
WorkerInv(k) ==
    LET w == worker[k] IN
    /\ w.at \in {"download", "upload", "blocks"} => w.name \in Names /\ file[w.name] # None
    /\ w.at = "download" =>
        w.size <= Len(file[w.name]) /\ w.offset <= w.size /\ (w.size = 0 \/ w.offset < w.size)
    /\ w.at = "blocks" => w.offset <= Len(file[w.name]) /\ w.offset < w.size
    /\ w.at \notin {"download", "blocks"} => w.offset = 0 /\ w.size = 0

\* The messages of a stream of which the first o units are the end of one, from unit
\* off of its payload on.
Frames(s) ==
    \A i \in 1 .. Len(s) : IsHeader(s[i]) =>
        /\ \A j \in 1 .. Len(s) : i < j /\ j <= i + s[i].size => InPlace(s[j], j - i)
        /\ i + s[i].size < Len(s) => IsHeader(s[i + s[i].size + 1])

Framed(s, o, off) ==
    /\ \A j \in 1 .. Len(s) : j <= o => InPlace(s[j], off + j)
    /\ o < Len(s) => IsHeader(s[o + 1])
    /\ Frames(s)

\* The requests carry what they need, and come after authentication.
Loaded(s) ==
    \A i \in 1 .. Len(s) :
        /\ s[i].type \notin {"OPEN_CONN_REQUEST", "AUTH_REQUEST"}
        /\ s[i].type \in {"GET_REQUEST", "PUT_REQUEST"} =>
            s[i].size = 1 /\ i + 1 <= Len(s) /\ s[i + 1].type = "payload" /\ s[i + 1].what \in Names
        /\ s[i].type \in {"LIST_REQUEST", "QUIT_REQUEST"} => s[i].size = 0

\* The last message lacks m units of its payload: all of them, or none.
LacksLast(s, m) ==
    \A i \in 1 .. Len(s) : IsHeader(s[i]) /\ i + s[i].size >= Len(s) =>
        i + s[i].size = Len(s) + m /\ (m > 0 => i = Len(s))

Lacks(s, o, off, m) ==
    /\ LacksLast(s, m)
    /\ o >= Len(s) => o = Len(s) + m /\ (m > 0 => s = <<>> /\ off = 0)

\* What worker w still wants of a payload.
Owed(w) == IF w.at = "blocks" THEN w.size - w.offset ELSE 0
Offset(w) == IF w.at = "blocks" THEN w.offset ELSE 0

Main == {"service", "download", "upload", "blocks", "closed"}
Serves(w) == w.at \in Main \ {"closed"}

\* In what follows c is the owner of a connection, x its client's state, w the
\* connection's worker, s and t what is on its way to the server and to the client.

\* The stream to the server, of any client.
Sent(x, w, s) ==
    Serves(w) =>
        /\ Framed(s, Owed(w), Offset(w))
        /\ Loaded(s)
        /\ x.state # "Gone" => Lacks(s, Owed(w), Offset(w), 0)

\* How far a session has come.
OneHeader(s, type) == Len(s) = 1 /\ s[1].type = type
AuthMessage(s) ==
    /\ Len(s) = 2 /\ s[1].type = "AUTH_REQUEST" /\ s[1].size = 1
    /\ s[2].type = "payload" /\ s[2].what \in BOOLEAN

Opening(k, x, s, t) ==
    /\ OneHeader(s, "OPEN_CONN_REQUEST")
    /\ x.state = "Gone" \/ (x.fd = k /\ x.want = "OPEN_CONN_REPLY" /\ t = <<>>)

Authenticating(k, x, s, t) ==
    /\ s = <<>> \/ AuthMessage(s)
    /\ \/ x.state = "Gone"
       \/ x.fd # k /\ s = <<>>
       \/ x.fd = k /\ x.state = "IDLE" /\ x.want = "OPEN_CONN_REPLY" /\ s = <<>>
            /\ OneHeader(t, "OPEN_CONN_REPLY") /\ t[1].status
       \/ x.fd = k /\ x.state \in {"IDLE", "IS_AUTH"} /\ x.want = "nothing" /\ s = <<>> /\ t = <<>>
       \/ x.fd = k /\ x.want = "AUTH_REPLY" /\ s # <<>> /\ t = <<>>
       \/ x.fd = k /\ x.want = "AUTH_REPLY" /\ s = <<>> /\ OneHeader(t, "AUTH_REPLY") /\ ~ t[1].status

Authenticated(k, x, w, s, t) ==
    \/ x.state = "Gone"
    \/ x.fd = k /\ x.state = "IS_MAIN"
    \/ /\ x.fd = k /\ x.want = "AUTH_REPLY" /\ w.at = "service" /\ s = <<>>
       /\ OneHeader(t, "AUTH_REPLY") /\ t[1].status

Phase(k, c, x, w, s, t) ==
    /\ w.at # "failed"
    /\ w.at = "none" <=> c = None
    /\ w.at = "none" => s = <<>> /\ t = <<>>
    /\ w.at \in {"queue", "connection"} => Opening(k, x, s, t)
    /\ w.at = "authentication" => Authenticating(k, x, s, t)
    /\ w.at \in Main => Authenticated(k, x, w, s, t)

\* What has come back to a client in step: a beginning of the answer it waits for.
Begun(t, i, n) == Len(t) <= i + n /\ \A j \in 1 .. Len(t) : j > i => InPlace(t[j], j - i)

Answers(x, t) ==
    /\ x.want \in {"nothing", "header", "sending"} => t = <<>>
    /\ x.want \in {"OPEN_CONN_REPLY", "AUTH_REPLY", "PUT_REPLY", "QUIT_REPLY"} =>
        t = <<>> \/ OneHeader(t, x.want)
    /\ x.want = "LIST_REPLY" =>
        \/ t = <<>>
        \/ Len(t) = 2 /\ t[1].type = "LIST_REPLY" /\ t[1].size = 1 /\ InPlace(t[2], 1)
    /\ x.want = "GET_REPLY" =>
        \/ t = <<>>
        \/ OneHeader(t, "GET_REPLY")
        \/ /\ Len(t) >= 2 /\ t[1].type = "GET_REPLY" /\ t[1].status
           /\ t[2].type = "FILE_DATA" /\ Begun(t, 2, t[2].size)
    /\ x.want = "FILE_DATA" =>
        t = <<>> \/ (Len(t) >= 1 /\ t[1].type = "FILE_DATA" /\ Begun(t, 1, t[1].size))
    /\ x.want = "data" =>
        Len(x.got) + Len(t) <= x.size /\ \A j \in 1 .. Len(t) : InPlace(t[j], Len(x.got) + j)

\* What a client that has lost step may take for data: a listing.
Listings(t) ==
    \A i \in 1 .. Len(t) : t[i].type = "LIST_REPLY" =>
        t[i].size = 1 /\ i + 1 <= Len(t) /\ t[i + 1].type = "payload"
Stray(k, x, t) ==
    /\ Listings(t)
    /\ x.fd = k /\ x.want = "data" =>
        x.size = 1 /\ (Len(x.got) = 0 => Len(t) >= 1 /\ t[1].type = "payload")

Answer(type) ==
    CASE type = "LIST_REQUEST" -> "LIST_REPLY"
      [] type = "GET_REQUEST" -> "GET_REPLY"
      [] type = "PUT_REQUEST" -> "PUT_REPLY"
      [] OTHER -> "QUIT_REPLY"

\* What a client in step has under way.
OneRequest(x, w, s, t) ==
    \A i \in 1 .. Len(s) : IsHeader(s[i]) =>
        IF s[i].type = "FILE_DATA" THEN i = 1 /\ w.at = "upload"
        ELSE x.want = Answer(s[i].type) /\ t = <<>> /\ i + s[i].size = Len(s)
Put(x, t) == x.want = "header" \/ (x.want = "PUT_REPLY" /\ t # <<>>)
Uploads(x, w, s, t) ==
    /\ w.at = "upload" => IF s = <<>> THEN Put(x, t) ELSE s[1].type = "FILE_DATA"
    /\ Put(x, t) => w.at = "upload" /\ s = <<>>
Downloads(x, w, t) ==
    w.at = "download" /\ w.size > 0 =>
        \/ x.want = "GET_REPLY" /\ Len(t) = 2 + w.offset /\ t[1].status /\ t[2].size = w.size
        \/ x.want = "FILE_DATA" /\ Len(t) = 1 + w.offset /\ t[1].size = w.size
        \/ x.want = "data" /\ Len(x.got) + Len(t) = w.offset /\ x.size = w.size
Step(x, w, s, t) ==
    Serves(w) => OneRequest(x, w, s, t) /\ Uploads(x, w, s, t) /\ Downloads(x, w, t)

SentInv(k) == serving => Sent(client[owner[k]], worker[k], toServer[k])
PhaseInv(k) ==
    serving => Phase(k, owner[k], client[owner[k]], worker[k], toServer[k], toClient[k])
ArrivedInv(c) ==
    c \notin NoDir /\ ~ Gone(c) /\ client[c].fd # 0 => Answers(client[c], toClient[client[c].fd])
StrayInv(k) ==
    owner[k] \in NoDir /\ ~ Gone(owner[k]) => Stray(k, client[owner[k]], toClient[k])
StepInv(k) ==
    serving /\ owner[k] \in Clients \ NoDir /\ ~ Gone(owner[k]) =>
        Step(client[owner[k]], worker[k], toServer[k], toClient[k])

\* The server ends for a reason.
EndInv ==
    /\ \A k \in reset : PeerGone(k)
    /\ ServerEndsFor

FtpInv ==
    /\ TypeInv
    /\ \A c \in Clients : ClientInv(c) /\ ArrivedInv(c)
    /\ \A n \in Names : FileInv(n)
    /\ \A k \in Conns : WorkerInv(k) /\ SentInv(k) /\ PhaseInv(k) /\ StrayInv(k) /\ StepInv(k)
    /\ EndInv
-----------------------------------------------------------------------------
(* Units *)

LEMMA HeaderUnit ==
    ASSUME NEW type \in Kinds, NEW status \in BOOLEAN, NEW size \in Nat
    PROVE  LET h == Header(type, status, size) IN
           h \in Units /\ IsHeader(h) /\ h.type = type /\ h.status = status /\ h.size = size
<1>1. type \notin {"payload", "file"}
  BY DEF Kinds
<1> QED
  BY <1>1 DEF Header, Units, IsHeader

LEMMA PayloadUnit ==
    ASSUME NEW what \in Things
    PROVE  LET p == Payload(what) IN
           p \in Units /\ ~ IsHeader(p) /\ p.type = "payload" /\ p.what = what
BY DEF Payload, Units, IsHeader

LEMMA FileUnitUnit ==
    ASSUME NEW c \in Clients \cup {None}, NEW i \in Nat
    PROVE  LET u == FileUnit(c, i) IN
           u \in Units /\ ~ IsHeader(u) /\ u.type = "file" /\ u.at = i /\ u.by = c
BY DEF FileUnit, Units, IsHeader

LEMMA HeaderSize ==
    ASSUME NEW u \in Units, IsHeader(u)
    PROVE  u.size \in Nat /\ u.type \in Kinds /\ u.status \in BOOLEAN
BY DEF Units, IsHeader

-----------------------------------------------------------------------------
(* Messages *)

Rest(s, n) == SubSeq(s, n + 1, Len(s))

LEMMA RestOf ==
    ASSUME NEW S, NEW s \in Seq(S), NEW n \in 0 .. Len(s)
    PROVE  /\ Rest(s, n) \in Seq(S) /\ Len(Rest(s, n)) = Len(s) - n
           /\ \A j \in 1 .. Len(s) - n : Rest(s, n)[j] = s[j + n] /\ j + n \in 1 .. Len(s)
BY DEF Rest

LEMMA RestFrames ==
    ASSUME NEW s \in Seq(Units), NEW n \in 0 .. Len(s), Frames(s)
    PROVE  Frames(Rest(s, n))
<1> DEFINE r == Rest(s, n)
<1>1. Len(r) = Len(s) - n /\ n \in Nat /\ Len(s) \in Nat /\ r \in Seq(Units)
  BY RestOf
<1>2. \A j \in 1 .. Len(r) : r[j] = s[j + n] /\ j + n \in 1 .. Len(s)
  BY RestOf
<1> HIDE DEF r
<1> SUFFICES ASSUME NEW i \in 1 .. Len(r), IsHeader(r[i])
             PROVE  /\ \A j \in 1 .. Len(r) : i < j /\ j <= i + r[i].size => InPlace(r[j], j - i)
                    /\ i + r[i].size < Len(r) => IsHeader(r[i + r[i].size + 1])
  BY DEF Frames, r
<1>3. i + n \in 1 .. Len(s) /\ r[i] = s[i + n]
  BY <1>2
<1>4. r[i] \in Units
  BY <1>1
<1>5. PICK z \in Nat : z = r[i].size
  BY <1>4, HeaderSize
<1>6. /\ \A j \in 1 .. Len(s) : i + n < j /\ j <= (i + n) + z => InPlace(s[j], j - (i + n))
      /\ (i + n) + z < Len(s) => IsHeader(s[(i + n) + z + 1])
  BY <1>3, <1>5 DEF Frames
<1>7. ASSUME NEW j \in 1 .. Len(r), i < j, j <= i + z PROVE InPlace(r[j], j - i)
  <2>1. i + n < j + n /\ j + n <= (i + n) + z /\ (j + n) - (i + n) = j - i
    BY <1>1, <1>7
  <2>2. r[j] = s[j + n] /\ j + n \in 1 .. Len(s)
    BY <1>2
  <2>3. InPlace(s[j + n], (j + n) - (i + n))
    BY <1>6, <2>1, <2>2
  <2> QED
    BY <2>1, <2>2, <2>3
<1>8. ASSUME i + z < Len(r) PROVE IsHeader(r[i + z + 1])
  <2>1. i + z + 1 \in 1 .. Len(r) /\ (i + z + 1) + n = (i + n) + z + 1 /\ (i + n) + z < Len(s)
    BY <1>1, <1>8
  <2>2. r[i + z + 1] = s[(i + z + 1) + n]
    BY <1>2, <2>1
  <2> QED
    BY <1>6, <2>1, <2>2
<1> QED
  BY <1>5, <1>7, <1>8

LEMMA RestLacks ==
    ASSUME NEW s \in Seq(Units), NEW n \in 0 .. Len(s), NEW m \in Nat, LacksLast(s, m)
    PROVE  LacksLast(Rest(s, n), m)
<1> DEFINE r == Rest(s, n)
<1>1. Len(r) = Len(s) - n /\ n \in Nat /\ Len(s) \in Nat /\ r \in Seq(Units)
  BY RestOf
<1>2. \A j \in 1 .. Len(r) : r[j] = s[j + n] /\ j + n \in 1 .. Len(s)
  BY RestOf
<1> HIDE DEF r
<1> SUFFICES ASSUME NEW i \in 1 .. Len(r), IsHeader(r[i]), i + r[i].size >= Len(r)
             PROVE  i + r[i].size = Len(r) + m /\ (m > 0 => i = Len(r))
  BY DEF LacksLast, r
<1>3. i + n \in 1 .. Len(s) /\ r[i] = s[i + n]
  BY <1>2
<1>4. r[i] \in Units
  BY <1>1
<1>5. PICK z \in Nat : z = r[i].size
  BY <1>4, HeaderSize
<1>6. (i + n) + z >= Len(s) => (i + n) + z = Len(s) + m /\ (m > 0 => i + n = Len(s))
  BY <1>3, <1>5 DEF LacksLast
<1>7. i + z >= Len(r)
  BY <1>5
<1>8. i + z = Len(r) + m /\ (m > 0 => i = Len(r))
  BY <1>1, <1>6, <1>7
<1> QED
  BY <1>5, <1>8

\* Part of the payload is taken.
LEMMA TakePayload ==
    ASSUME NEW s \in Seq(Units), NEW o \in Nat, NEW off \in Nat, NEW n \in Nat,
           n <= o, n <= Len(s), Framed(s, o, off)
    PROVE  Framed(Rest(s, n), o - n, off + n)
<1> DEFINE r == Rest(s, n)
<1>1. n \in 0 .. Len(s) /\ Len(s) \in Nat
  OBVIOUS
<1>2. Frames(r)
  BY <1>1, RestFrames DEF Framed
<1>3. Len(r) = Len(s) - n /\ \A j \in 1 .. Len(r) : r[j] = s[j + n] /\ j + n \in 1 .. Len(s)
  BY <1>1, RestOf
<1> HIDE DEF r
<1>4. ASSUME NEW j \in 1 .. Len(r), j <= o - n PROVE InPlace(r[j], (off + n) + j)
  <2>1. j + n <= o /\ off + (j + n) = (off + n) + j
    BY <1>1, <1>3, <1>4
  <2>2. r[j] = s[j + n] /\ j + n \in 1 .. Len(s)
    BY <1>3
  <2>3. InPlace(s[j + n], off + (j + n))
    BY <2>1, <2>2 DEF Framed
  <2> QED
    BY <2>1, <2>2, <2>3
<1>5. ASSUME o - n < Len(r) PROVE IsHeader(r[o - n + 1])
  <2>1. o < Len(s) /\ o - n + 1 \in 1 .. Len(r) /\ (o - n + 1) + n = o + 1
    BY <1>1, <1>3, <1>5
  <2>2. IsHeader(s[o + 1])
    BY <2>1 DEF Framed
  <2>3. r[o - n + 1] = s[(o - n + 1) + n]
    BY <1>3, <2>1
  <2> QED
    BY <2>1, <2>2, <2>3
<1> QED
  BY <1>2, <1>4, <1>5 DEF Framed, r

LEMMA LacksPayload ==
    ASSUME NEW s \in Seq(Units), NEW o \in Nat, NEW off \in Nat, NEW n \in Nat \ {0}, NEW m \in Nat,
           n <= o, n <= Len(s), Lacks(s, o, off, m)
    PROVE  Lacks(Rest(s, n), o - n, off + n, m)
<1> DEFINE r == Rest(s, n)
<1>1. n \in 0 .. Len(s) /\ Len(s) \in Nat /\ s # <<>>
  OBVIOUS
<1>2. LacksLast(r, m)
  BY <1>1, RestLacks DEF Lacks
<1>3. Len(r) = Len(s) - n
  BY <1>1, RestOf
<1> HIDE DEF r
<1>4. ASSUME o - n >= Len(r)
      PROVE  o - n = Len(r) + m /\ ~ (m > 0)
  <2>1. o >= Len(s)
    BY <1>1, <1>3, <1>4
  <2> QED
    BY <1>1, <1>3, <2>1 DEF Lacks
<1> QED
  BY <1>2, <1>4 DEF Lacks, r

\* A header is taken: its payload comes next.
LEMMA TakeHeader ==
    ASSUME NEW s \in Seq(Units), s # <<>>, Framed(s, 0, 0)
    PROVE  IsHeader(s[1]) /\ s[1].size \in Nat /\ Framed(Rest(s, 1), s[1].size, 0)
<1> DEFINE r == Rest(s, 1)
<1>1. Len(s) \in Nat /\ Len(s) >= 1 /\ 1 \in 0 .. Len(s) /\ 1 \in 1 .. Len(s)
  OBVIOUS
<1>2. Frames(r)
  BY <1>1, RestFrames DEF Framed
<1>3. Len(r) = Len(s) - 1 /\ \A j \in 1 .. Len(r) : r[j] = s[j + 1] /\ j + 1 \in 1 .. Len(s)
  BY <1>1, RestOf
<1> HIDE DEF r
<1>4. IsHeader(s[1])
  BY <1>1 DEF Framed
<1>5. PICK z \in Nat : z = s[1].size
  BY <1>1, <1>4, HeaderSize
<1>6. /\ \A j \in 1 .. Len(s) : 1 < j /\ j <= 1 + z => InPlace(s[j], j - 1)
      /\ 1 + z < Len(s) => IsHeader(s[1 + z + 1])
  BY <1>1, <1>4, <1>5 DEF Framed, Frames
<1>7. ASSUME NEW j \in 1 .. Len(r), j <= z PROVE InPlace(r[j], 0 + j)
  <2>1. 1 < j + 1 /\ j + 1 <= 1 + z /\ (j + 1) - 1 = 0 + j
    BY <1>7
  <2>2. r[j] = s[j + 1] /\ j + 1 \in 1 .. Len(s)
    BY <1>3
  <2>3. InPlace(s[j + 1], (j + 1) - 1)
    BY <1>6, <2>1, <2>2
  <2> QED
    BY <2>1, <2>2, <2>3
<1>8. ASSUME z < Len(r) PROVE IsHeader(r[z + 1])
  <2>1. 1 + z < Len(s) /\ z + 1 \in 1 .. Len(r) /\ (z + 1) + 1 = 1 + z + 1
    BY <1>1, <1>3, <1>8
  <2>2. r[z + 1] = s[(z + 1) + 1]
    BY <1>3, <2>1
  <2> QED
    BY <1>6, <2>1, <2>2
<1>9. Framed(r, z, 0)
  BY <1>2, <1>7, <1>8 DEF Framed
<1> QED
  BY <1>4, <1>5, <1>9 DEF r

LEMMA LacksHeader ==
    ASSUME NEW s \in Seq(Units), s # <<>>, IsHeader(s[1]), NEW m \in Nat, Lacks(s, 0, 0, m)
    PROVE  Lacks(Rest(s, 1), s[1].size, 0, m)
<1> DEFINE r == Rest(s, 1)
<1>1. Len(s) \in Nat /\ Len(s) >= 1 /\ 1 \in 0 .. Len(s) /\ 1 \in 1 .. Len(s)
  OBVIOUS
<1>2. LacksLast(r, m)
  BY <1>1, RestLacks DEF Lacks
<1>3. Len(r) = Len(s) - 1 /\ r \in Seq(Units)
  BY <1>1, RestOf
<1> HIDE DEF r
<1>4. PICK z \in Nat : z = s[1].size
  BY <1>1, HeaderSize
<1>5. 1 + z >= Len(s) => 1 + z = Len(s) + m /\ (m > 0 => 1 = Len(s))
  BY <1>1, <1>4 DEF Lacks, LacksLast
<1>6. ASSUME z >= Len(r)
      PROVE  z = Len(r) + m /\ (m > 0 => r = <<>> /\ 0 = 0)
  <2>1. 1 + z = Len(s) + m /\ (m > 0 => 1 = Len(s))
    BY <1>1, <1>3, <1>5, <1>6
  <2>2. m > 0 => Len(r) = 0
    BY <1>1, <1>3, <2>1
  <2>3. z = Len(r) + m
    BY <1>1, <1>3, <2>1
  <2> QED
    BY <1>3, <2>2, <2>3
<1>7. Lacks(r, z, 0, m)
  BY <1>2, <1>6 DEF Lacks
<1> QED
  BY <1>4, <1>7 DEF r

LEMMA JoinOf ==
    ASSUME NEW S, NEW s \in Seq(S), NEW p \in Seq(S)
    PROVE  /\ s \o p \in Seq(S) /\ Len(s \o p) = Len(s) + Len(p)
           /\ \A j \in 1 .. Len(s) : (s \o p)[j] = s[j]
           /\ \A j \in 1 .. Len(p) : (s \o p)[Len(s) + j] = p[j]
           /\ \A j \in 1 .. Len(s) + Len(p) : j \in 1 .. Len(s) \/ j - Len(s) \in 1 .. Len(p)
OBVIOUS

LEMMA JoinThree ==
    ASSUME NEW S, NEW s \in Seq(S), NEW t \in Seq(S), NEW p \in Seq(S)
    PROVE  s \o t \o p = s \o (t \o p)
BY ConcatAssociative

\* The payload that was announced follows.
LEMMA AppendPayload ==
    ASSUME NEW s \in Seq(Units), NEW o \in Nat, NEW off \in Nat, NEW p \in Seq(Units),
           Framed(s, o, off), Lacks(s, o, off, Len(p)), \A j \in 1 .. Len(p) : InPlace(p[j], j)
    PROVE  Framed(s \o p, o, off) /\ Lacks(s \o p, o, off, 0)
<1> DEFINE q == s \o p
           L == Len(s)
           n == Len(p)
<1>1. /\ q \in Seq(Units) /\ Len(q) = L + n /\ L \in Nat /\ n \in Nat
      /\ \A j \in 1 .. L : q[j] = s[j]
      /\ \A j \in 1 .. Len(q) : j \in 1 .. L \/ (j > L /\ j - L \in 1 .. n)
  BY JoinOf
<1>2. \A j \in 1 .. Len(q) : j > L => j - L \in 1 .. n /\ q[j] = p[j - L]
  <2> SUFFICES ASSUME NEW j \in 1 .. Len(q), j > L PROVE j - L \in 1 .. n /\ q[j] = p[j - L]
    OBVIOUS
  <2>1. j - L \in 1 .. n /\ L + (j - L) = j
    BY <1>1
  <2>2. q[L + (j - L)] = p[j - L]
    BY <2>1, JoinOf
  <2> QED
    BY <2>1, <2>2
<1>3. \A j \in 1 .. Len(q) : IsHeader(q[j]) => j \in 1 .. L /\ q[j] = s[j]
  BY <1>1, <1>2 DEF InPlace
<1>4. /\ Frames(s) /\ LacksLast(s, n)
      /\ \A j \in 1 .. L : j <= o => InPlace(s[j], off + j)
      /\ o < L => IsHeader(s[o + 1])
      /\ o >= L => o = L + n /\ (n > 0 => s = <<>> /\ off = 0)
  BY DEF Framed, Lacks
<1> HIDE DEF q
<1>5. ASSUME NEW i \in 1 .. Len(q), IsHeader(q[i])
      PROVE  /\ \A j \in 1 .. Len(q) : i < j /\ j <= i + q[i].size => InPlace(q[j], j - i)
             /\ i + q[i].size < Len(q) => IsHeader(q[i + q[i].size + 1])
             /\ i + q[i].size >= Len(q) => i + q[i].size = Len(q)
  <2>1. i \in 1 .. L /\ q[i] = s[i] /\ IsHeader(s[i]) /\ s[i] \in Units
    BY <1>3, <1>5
  <2>2. PICK z \in Nat : z = q[i].size
    BY <2>1, HeaderSize
  <2>3. /\ \A j \in 1 .. L : i < j /\ j <= i + z => InPlace(s[j], j - i)
        /\ i + z < L => IsHeader(s[i + z + 1])
        /\ i + z >= L => i + z = L + n /\ (n > 0 => i = L)
    BY <1>4, <2>1, <2>2 DEF Frames, LacksLast
  <2>4. ASSUME NEW j \in 1 .. Len(q), i < j, j <= i + z PROVE InPlace(q[j], j - i)
    <3>1. CASE j \in 1 .. L
      BY <1>1, <2>3, <2>4, <3>1
    <3>2. CASE j > L
      <4>1. i + z >= L /\ j - L \in 1 .. n /\ q[j] = p[j - L]
        BY <1>1, <1>2, <2>4, <3>2
      <4>2. i = L
        BY <1>1, <2>3, <4>1
      <4> QED
        BY <4>1, <4>2
    <3> QED
      BY <1>1, <3>1, <3>2
  <2>5. ASSUME i + z < Len(q) PROVE IsHeader(q[i + z + 1])
    <3>1. i + z < L
      BY <1>1, <2>3, <2>5
    <3>2. i + z + 1 \in 1 .. L
      BY <1>1, <3>1
    <3> QED
      BY <1>1, <2>3, <3>1, <3>2
  <2>6. i + z >= Len(q) => i + z = Len(q)
    BY <1>1, <2>3
  <2> QED
    BY <2>2, <2>4, <2>5, <2>6
<1>6. ASSUME NEW j \in 1 .. Len(q), j <= o PROVE InPlace(q[j], off + j)
  <2>1. CASE j \in 1 .. L
    BY <1>1, <1>4, <1>6, <2>1
  <2>2. CASE j > L
    <3>1. o >= L /\ n > 0
      BY <1>1, <1>6, <2>2
    <3>2. L = 0 /\ off = 0
      BY <1>4, <3>1
    <3>3. j \in 1 .. n /\ q[j] = p[j] /\ off + j = j
      BY <1>1, <1>2, <2>2, <3>2
    <3> QED
      BY <3>3
  <2> QED
    BY <1>1, <2>1, <2>2
<1>7. ASSUME o < Len(q) PROVE IsHeader(q[o + 1])
  <2>1. o < L
    BY <1>1, <1>4, <1>7
  <2>2. o + 1 \in 1 .. L
    BY <1>1, <2>1
  <2> QED
    BY <1>1, <1>4, <2>1, <2>2
<1>8. o >= Len(q) => o = Len(q) + 0
  BY <1>1, <1>4
<1>9. Framed(q, o, off)
  BY <1>5, <1>6, <1>7 DEF Framed, Frames
<1>10. LacksLast(q, 0)
  BY <1>1, <1>5 DEF LacksLast
<1>11. Lacks(q, o, off, 0)
  BY <1>8, <1>10 DEF Lacks
<1> QED
  BY <1>9, <1>11 DEF q

\* A header follows whose payload, of n units, is still to come.
LEMMA AppendHeader ==
    ASSUME NEW s \in Seq(Units), NEW o \in Nat, NEW off \in Nat, NEW h \in Units, IsHeader(h),
           Framed(s, o, off), Lacks(s, o, off, 0)
    PROVE  Framed(Append(s, h), o, off) /\ Lacks(Append(s, h), o, off, h.size)
<1> DEFINE q == Append(s, h)
           L == Len(s)
<1>1. /\ q \in Seq(Units) /\ Len(q) = L + 1 /\ L \in Nat /\ q[L + 1] = h
      /\ \A j \in 1 .. L : q[j] = s[j]
      /\ \A j \in 1 .. Len(q) : j \in 1 .. L \/ j = L + 1
  OBVIOUS
<1>2. /\ Frames(s) /\ LacksLast(s, 0)
      /\ \A j \in 1 .. L : j <= o => InPlace(s[j], off + j)
      /\ o < L => IsHeader(s[o + 1])
      /\ o >= L => o = L
  BY DEF Framed, Lacks
<1>3. PICK n \in Nat : n = h.size
  BY HeaderSize
<1> HIDE DEF q
<1>4. ASSUME NEW i \in 1 .. Len(q), IsHeader(q[i])
      PROVE  /\ \A j \in 1 .. Len(q) : i < j /\ j <= i + q[i].size => InPlace(q[j], j - i)
             /\ i + q[i].size < Len(q) => IsHeader(q[i + q[i].size + 1])
             /\ i + q[i].size >= Len(q) => i + q[i].size = Len(q) + n /\ (n > 0 => i = Len(q))
  <2>1. CASE i = L + 1
    <3>1. q[i].size = n
      BY <1>1, <1>3, <2>1
    <3>2. ~ \E j \in 1 .. Len(q) : i < j
      BY <1>1, <2>1
    <3>3. ~ (i + n < Len(q)) /\ i = Len(q)
      BY <1>1, <2>1
    <3> QED
      BY <3>1, <3>2, <3>3
  <2>2. CASE i \in 1 .. L
    <3>1. q[i] = s[i] /\ IsHeader(s[i]) /\ s[i] \in Units
      BY <1>1, <1>4, <2>2
    <3>2. PICK z \in Nat : z = q[i].size
      BY <3>1, HeaderSize
    <3>3. /\ \A j \in 1 .. L : i < j /\ j <= i + z => InPlace(s[j], j - i)
          /\ i + z < L => IsHeader(s[i + z + 1])
          /\ i + z >= L => i + z = L
      BY <1>2, <2>2, <3>1, <3>2 DEF Frames, LacksLast
    <3>4. ASSUME NEW j \in 1 .. Len(q), i < j, j <= i + z PROVE InPlace(q[j], j - i)
      <4>1. i + z <= L
        BY <1>1, <3>3
      <4>2. j \in 1 .. L
        BY <1>1, <3>4, <4>1
      <4> QED
        BY <1>1, <3>3, <3>4, <4>2
    <3>5. ASSUME i + z < Len(q) PROVE IsHeader(q[i + z + 1])
      <4>1. CASE i + z < L
        <5>1. i + z + 1 \in 1 .. L
          BY <1>1, <4>1
        <5> QED
          BY <1>1, <3>3, <4>1, <5>1
      <4>2. CASE i + z = L
        BY <1>1, <4>2
      <4> QED
        BY <1>1, <3>5, <4>1, <4>2
    <3>6. ~ (i + z >= Len(q))
      BY <1>1, <3>3
    <3> QED
      BY <3>2, <3>4, <3>5, <3>6
  <2> QED
    BY <1>1, <2>1, <2>2
<1>5. ASSUME NEW j \in 1 .. Len(q), j <= o PROVE InPlace(q[j], off + j)
  <2>1. o <= L
    BY <1>1, <1>2
  <2>2. j \in 1 .. L
    BY <1>1, <1>5, <2>1
  <2> QED
    BY <1>1, <1>2, <1>5, <2>2
<1>6. IsHeader(q[o + 1])
  <2>1. CASE o < L
    <3>1. o + 1 \in 1 .. L
      BY <1>1, <2>1
    <3> QED
      BY <1>1, <1>2, <2>1, <3>1
  <2>2. CASE o = L
    BY <1>1, <2>2
  <2> QED
    BY <1>1, <1>2, <2>1, <2>2
<1>7. ~ (o >= Len(q))
  BY <1>1, <1>2
<1>8. Framed(q, o, off)
  BY <1>4, <1>5, <1>6 DEF Framed, Frames
<1>9. LacksLast(q, n)
  BY <1>4 DEF LacksLast
<1>10. Lacks(q, o, off, n)
  BY <1>7, <1>9 DEF Lacks
<1> QED
  BY <1>3, <1>8, <1>10 DEF q

LEMMA RestLoaded ==
    ASSUME NEW s \in Seq(Units), NEW n \in 0 .. Len(s), Loaded(s)
    PROVE  Loaded(Rest(s, n))
<1> DEFINE r == Rest(s, n)
<1>1. Len(r) = Len(s) - n /\ n \in Nat /\ Len(s) \in Nat
  BY RestOf
<1>2. \A j \in 1 .. Len(r) : r[j] = s[j + n] /\ j + n \in 1 .. Len(s)
  BY RestOf
<1> HIDE DEF r
<1> SUFFICES ASSUME NEW i \in 1 .. Len(r)
             PROVE  /\ r[i].type \notin {"OPEN_CONN_REQUEST", "AUTH_REQUEST"}
                    /\ r[i].type \in {"GET_REQUEST", "PUT_REQUEST"} =>
                        /\ r[i].size = 1 /\ i + 1 <= Len(r)
                        /\ r[i + 1].type = "payload" /\ r[i + 1].what \in Names
                    /\ r[i].type \in {"LIST_REQUEST", "QUIT_REQUEST"} => r[i].size = 0
  BY DEF Loaded, r
<1>3. r[i] = s[i + n] /\ i + n \in 1 .. Len(s)
  BY <1>2
<1>4. ASSUME r[i].type \in {"GET_REQUEST", "PUT_REQUEST"}
      PROVE  i + 1 \in 1 .. Len(r) /\ r[i + 1] = s[(i + n) + 1]
  <2>1. (i + n) + 1 <= Len(s)
    BY <1>3, <1>4 DEF Loaded
  <2>2. i + 1 \in 1 .. Len(r) /\ (i + 1) + n = (i + n) + 1
    BY <1>1, <2>1
  <2> QED
    BY <1>2, <2>2
<1> QED
  BY <1>3, <1>4 DEF Loaded

LEMMA JoinLoaded ==
    ASSUME NEW s \in Seq(Units), NEW p \in Seq(Units), Loaded(s), Loaded(p)
    PROVE  Loaded(s \o p)
<1> DEFINE q == s \o p
           L == Len(s)
<1>1. Len(q) = L + Len(p) /\ L \in Nat /\ Len(p) \in Nat
  BY JoinOf
<1>2. \A j \in 1 .. L : q[j] = s[j]
  BY JoinOf
<1>3. \A j \in 1 .. Len(p) : q[L + j] = p[j]
  BY JoinOf
<1> HIDE DEF q
<1> SUFFICES ASSUME NEW i \in 1 .. Len(q)
             PROVE  /\ q[i].type \notin {"OPEN_CONN_REQUEST", "AUTH_REQUEST"}
                    /\ q[i].type \in {"GET_REQUEST", "PUT_REQUEST"} =>
                        /\ q[i].size = 1 /\ i + 1 <= Len(q)
                        /\ q[i + 1].type = "payload" /\ q[i + 1].what \in Names
                    /\ q[i].type \in {"LIST_REQUEST", "QUIT_REQUEST"} => q[i].size = 0
  BY DEF Loaded, q
<1>4. CASE i \in 1 .. L
  <2>1. q[i] = s[i]
    BY <1>2, <1>4
  <2>2. ASSUME q[i].type \in {"GET_REQUEST", "PUT_REQUEST"}
        PROVE  i + 1 \in 1 .. L /\ i + 1 <= Len(q) /\ q[i + 1] = s[i + 1]
    <3>1. i + 1 <= L
      BY <1>4, <2>1, <2>2 DEF Loaded
    <3>2. i + 1 \in 1 .. L /\ i + 1 <= Len(q)
      BY <1>1, <3>1
    <3> QED
      BY <1>2, <3>2
  <2> QED
    BY <1>4, <2>1, <2>2 DEF Loaded
<1>5. CASE i > L
  <2>1. PICK j \in 1 .. Len(p) : i = L + j
    <3>1. i - L \in 1 .. Len(p) /\ i = L + (i - L)
      BY <1>1, <1>5
    <3> QED
      BY <3>1
  <2>2. q[i] = p[j]
    BY <1>3, <2>1
  <2>3. ASSUME q[i].type \in {"GET_REQUEST", "PUT_REQUEST"}
        PROVE  i + 1 <= Len(q) /\ q[i + 1] = p[j + 1]
    <3>1. j + 1 <= Len(p)
      BY <2>2, <2>3 DEF Loaded
    <3>2. j + 1 \in 1 .. Len(p) /\ i + 1 <= Len(q) /\ i + 1 = L + (j + 1)
      BY <1>1, <2>1, <3>1
    <3>3. q[L + (j + 1)] = p[j + 1]
      BY <1>3, <3>2
    <3> QED
      BY <3>2, <3>3
  <2> QED
    BY <2>2, <2>3 DEF Loaded
<1> QED
  BY <1>1, <1>4, <1>5

\* A whole request follows.
Requests == {"LIST_REQUEST", "GET_REQUEST", "PUT_REQUEST", "QUIT_REQUEST"}
Carries(type, p) ==
    IF type \in {"GET_REQUEST", "PUT_REQUEST"} THEN \E n \in Names : p = <<Payload(n)>> ELSE p = <<>>

RequestAdded(s, q, type) ==
    /\ \A i \in 1 .. Len(q) : IsHeader(q[i]) =>
        \/ i \in 1 .. Len(s) /\ q[i] = s[i]
        \/ q[i].type = type /\ i + q[i].size = Len(q)
    /\ q # <<>> /\ IF s = <<>> THEN q[1].type = type ELSE q[1] = s[1]

LEMMA AppendRequest ==
    ASSUME NEW s \in Seq(Units), NEW o \in Nat, NEW off \in Nat,
           Framed(s, o, off), Lacks(s, o, off, 0), Loaded(s),
           NEW type \in Requests, NEW p, Carries(type, p)
    PROVE  LET q == s \o <<Header(type, TRUE, Len(p))>> \o p IN
           /\ q \in Seq(Units) /\ Framed(q, o, off) /\ Lacks(q, o, off, 0) /\ Loaded(q)
           /\ RequestAdded(s, q, type)
<1> DEFINE h == Header(type, TRUE, Len(p))
           r == Append(s, h)
           q == r \o p
           L == Len(s)
<1>1. /\ p \in Seq(Units) /\ Len(p) = IF type \in {"GET_REQUEST", "PUT_REQUEST"} THEN 1 ELSE 0
      /\ \A j \in 1 .. Len(p) :
          p[j] \in Units /\ ~ IsHeader(p[j]) /\ p[j].type = "payload" /\ p[j].what \in Names
  <2>1. CASE type \in {"GET_REQUEST", "PUT_REQUEST"}
    <3>1. PICK n \in Names : p = <<Payload(n)>>
      BY <2>1 DEF Carries
    <3>2. n \in Things
      BY DEF Things
    <3>3. Payload(n) \in Units /\ ~ IsHeader(Payload(n)) /\ Payload(n).type = "payload" /\ Payload(n).what = n
      BY <3>2, PayloadUnit
    <3> QED
      BY <2>1, <3>1, <3>3
  <2>2. CASE type \notin {"GET_REQUEST", "PUT_REQUEST"}
    BY <2>2 DEF Carries
  <2> QED
    BY <2>1, <2>2
<1>2. h \in Units /\ IsHeader(h) /\ h.type = type /\ h.size = Len(p)
  <2>1. type \in Kinds
    BY DEF Requests, Kinds
  <2>2. Len(p) \in Nat
    BY <1>1
  <2>3. TRUE \in BOOLEAN
    OBVIOUS
  <2> HIDE DEF q
  <2> QED
    BY <2>1, <2>2, <2>3, HeaderUnit, ZenonT(40)
<1> HIDE DEF h
<1>3. /\ r \in Seq(Units) /\ Len(r) = L + 1 /\ r[L + 1] = h /\ L \in Nat
      /\ \A j \in 1 .. L : r[j] = s[j]
  BY <1>2
<1>4. s \o <<h>> \o p = q
  BY <1>2
<1>5. Framed(r, o, off) /\ Lacks(r, o, off, Len(p))
  BY <1>2, AppendHeader
<1> HIDE DEF r
<1>6. \A j \in 1 .. Len(p) : InPlace(p[j], j)
  BY <1>1 DEF InPlace
<1>7. q \in Seq(Units) /\ Framed(q, o, off) /\ Lacks(q, o, off, 0)
  BY <1>1, <1>3, <1>5, <1>6, AppendPayload, JoinOf
<1>8. <<h>> \o p \in Seq(Units) /\ Loaded(<<h>> \o p)
  <2>1. /\ <<h>> \o p \in Seq(Units) /\ Len(<<h>> \o p) = 1 + Len(p) /\ (<<h>> \o p)[1] = h
        /\ \A j \in 1 .. Len(p) : (<<h>> \o p)[1 + j] = p[j]
    <3>1. <<h>> \in Seq(Units) /\ Len(<<h>>) = 1 /\ <<h>>[1] = h /\ 1 \in 1 .. 1
      BY <1>2
    <3> HIDE DEF q
    <3> QED
      BY <1>1, <3>1, JoinOf, SMTT(30)
  <2>2. Len(p) \in {0, 1}
    BY <1>1
  <2>3. CASE Len(p) = 0
    BY <1>1, <1>2, <2>1, <2>3 DEF Loaded, Requests
  <2>4. CASE Len(p) = 1
    <3>1. 1 \in 1 .. Len(p) /\ 1 + 1 = 2
      BY <2>4
    <3>2. (<<h>> \o p)[2] = p[1] /\ p[1].type = "payload" /\ p[1].what \in Names
      BY <1>1, <2>1, <3>1
    <3> QED
      BY <1>1, <1>2, <2>1, <2>4, <3>2 DEF Loaded, Requests
  <2> QED
    BY <2>2, <2>3, <2>4
<1>9. s \o (<<h>> \o p) = q
  <2>1. s \in Seq(Units) /\ <<h>> \in Seq(Units) /\ p \in Seq(Units)
    BY <1>1, <1>2
  <2> DEFINE t == <<h>>
  <2>2. t \in Seq(Units)
    BY <2>1
  <2> HIDE DEF t
  <2>3. s \o t \o p = s \o (t \o p)
    BY ONLY <2>1, <2>2, JoinThree
  <2> QED
    BY ONLY <1>4, <2>3 DEF t
<1>10. Loaded(q)
  BY <1>8, <1>9, JoinLoaded
<1>11. /\ Len(q) = L + 1 + Len(p) /\ \A j \in 1 .. L + 1 : q[j] = r[j]
       /\ \A j \in 1 .. Len(p) : q[(L + 1) + j] = p[j]
  <2>1. r \in Seq(Units) /\ p \in Seq(Units)
    BY <1>1, <1>3
  <2>2. /\ Len(r \o p) = Len(r) + Len(p)
        /\ \A j \in 1 .. Len(r) : (r \o p)[j] = r[j]
        /\ \A j \in 1 .. Len(p) : (r \o p)[Len(r) + j] = p[j]
    BY ONLY <2>1, JoinOf
  <2>3. Len(r) = L + 1
    BY <1>3
  <2> QED
    BY ONLY <2>2, <2>3, Zenon DEF q
<1> HIDE DEF q
<1>12. ASSUME NEW i \in 1 .. Len(q), IsHeader(q[i])
       PROVE  \/ i \in 1 .. L /\ q[i] = s[i]
              \/ q[i].type = type /\ i + q[i].size = Len(q)
  <2>1. CASE i \in 1 .. L
    BY <1>3, <1>11, <2>1
  <2>2. CASE i = L + 1
    <3>1. q[i] = h
      BY <1>3, <1>11, <2>2
    <3> QED
      BY <1>1, <1>2, <1>3, <1>11, <2>2, <3>1
  <2>3. CASE i > L + 1
    <3>1. i - (L + 1) \in 1 .. Len(p) /\ (L + 1) + (i - (L + 1)) = i
      BY <1>1, <1>3, <1>11, <2>3
    <3>2. q[i] = p[i - (L + 1)]
      BY <1>11, <3>1
    <3> QED
      BY <1>1, <1>12, <3>1, <3>2
  <2> QED
    BY <1>3, <2>1, <2>2, <2>3
<1>13. IF s = <<>> THEN q # <<>> /\ q[1].type = type ELSE q # <<>> /\ q[1] = s[1]
  <2>1. Len(q) >= 1 /\ q # <<>>
    BY <1>1, <1>3, <1>7, <1>11
  <2>2. s = <<>> => q[1] = h
    BY <1>3, <1>11
  <2>3. s # <<>> => q[1] = s[1]
    <3> SUFFICES ASSUME s # <<>> PROVE q[1] = s[1]
      OBVIOUS
    <3>1. 1 \in 1 .. L /\ 1 \in 1 .. L + 1
      BY <1>3
    <3> QED
      BY <1>3, <1>11, <3>1
  <2> QED
    BY <1>2, <2>1, <2>2, <2>3
<1> QED
  BY <1>4, <1>7, <1>10, <1>12, <1>13 DEF h, RequestAdded
-----------------------------------------------------------------------------
(* Steps are local *)

\* Once a client is in IS_MAIN its connection is, too.
LEMMA InMain ==
    ASSUME FtpInv, NEW c \in Clients, client[c].state = "IS_MAIN"
    PROVE  LET k == client[c].fd IN
           /\ k \in Conns /\ owner[k] = c /\ c # None /\ ~ Gone(c)
           /\ serving => worker[k].at \in Main
<1> DEFINE k == client[c].fd
<1>1. client[c] \in ClientStates /\ ClientInv(c) /\ c # None
  BY FtpAssumption DEF FtpInv, TypeInv
<1>2. k \in Conns /\ owner[k] = c
  BY <1>1 DEF ClientInv, ClientStates
<1>3. worker[k].at \in Places
  BY <1>2 DEF FtpInv, TypeInv, WorkerStates
<1>4. client[c].want # "OPEN_CONN_REPLY" /\ client[c].want # "AUTH_REPLY"
  BY <1>1 DEF ClientInv, StateFor
<1>5. serving => Phase(k, c, client[c], worker[k], toServer[k], toClient[k])
  BY <1>2 DEF FtpInv, PhaseInv
<1>6. Phase(k, c, client[c], worker[k], toServer[k], toClient[k]) => worker[k].at \in Main
  BY <1>1, <1>3, <1>4 DEF Phase, Opening, Authenticating, Places, Main
<1> QED
  BY <1>1, <1>2, <1>5, <1>6 DEF Gone

\* A step of a client on its connection.
LEMMA ClientMoves ==
    ASSUME FtpInv, TypeInv', NEW c \in Clients, NEW k \in Conns, client[c].fd = k, ~ Gone(c),
           NEW x, client' = [client EXCEPT ![c] = x], x.fd = k, x.state # "Gone",
           \A j \in Conns \ {k} : toServer'[j] = toServer[j] /\ toClient'[j] = toClient[j],
           UNCHANGED <<owner, worker, file, serving, reset>>,
           ClientInv(c)', ArrivedInv(c)', SentInv(k)', PhaseInv(k)', StrayInv(k)', StepInv(k)'
    PROVE  FtpInv'
<1>1. owner[k] = c /\ c # None /\ client'[c] = x /\ \A d \in Clients \ {c} : client'[d] = client[d]
  <2>1. client \in [Clients -> ClientStates] /\ ClientInv(c) /\ k # 0
    BY DEF FtpInv, TypeInv, Conns
  <2>2. owner[k] = c
    BY <2>1 DEF ClientInv
  <2> QED
    BY <2>1, <2>2, FtpAssumption
<1>2. ASSUME NEW d \in Clients \ {c} PROVE ClientInv(d)' /\ ArrivedInv(d)'
  <2>1. client'[d] = client[d] /\ ClientInv(d) /\ ArrivedInv(d) /\ client[d] \in ClientStates
    BY <1>1 DEF FtpInv, TypeInv
  <2>2. client[d].fd # 0 => client[d].fd \in Conns \ {k}
    BY <1>1, <2>1 DEF ClientInv, ClientStates
  <2>3. ClientInv(d)'
    BY <2>1 DEF ClientInv
  <2>4. ArrivedInv(d)'
    BY <2>1, <2>2 DEF ArrivedInv, Gone
  <2> QED
    BY <2>3, <2>4
<1>3. \A d \in Clients : Gone(d)' <=> Gone(d)
  BY <1>1 DEF Gone
<1>4. \A j \in Conns : PeerGone(j)' <=> PeerGone(j)
  <2>1. \A j \in Conns : owner[j] \in Clients \cup {None}
    BY DEF FtpInv, TypeInv
  <2> QED
    BY <1>3, <2>1 DEF PeerGone
<1>5. ASSUME NEW j \in Conns \ {k} PROVE SentInv(j)' /\ PhaseInv(j)' /\ StrayInv(j)' /\ StepInv(j)'
  <2>1. /\ toServer'[j] = toServer[j] /\ toClient'[j] = toClient[j]
        /\ owner[j] \in Clients \cup {None} /\ worker[j].at \in Places
        /\ owner' = owner /\ worker' = worker /\ serving' = serving
    BY DEF FtpInv, TypeInv, WorkerStates
  <2>2. SentInv(j) /\ PhaseInv(j) /\ StrayInv(j) /\ StepInv(j)
    BY DEF FtpInv
  <2>3. CASE owner[j] \in Clients \ {c}
    <3>1. client'[owner[j]] = client[owner[j]]
      BY <1>1, <2>3
    <3> QED
      BY <2>1, <2>2, <3>1 DEF SentInv, PhaseInv, StrayInv, StepInv, Gone
  <2>4. CASE owner[j] = c
    <3> DEFINE y == client[c]
               w == worker[j]
               s == toServer[j]
               t == toClient[j]
    <3>1. y.fd # j /\ x.fd # j /\ y.state # "Gone" /\ client'[owner'[j]] = x
      BY <1>1, <2>1, <2>4 DEF Gone
    <3>2. serving => Phase(j, c, y, w, s, t)
      BY <2>2, <2>4 DEF PhaseInv
    <3>3. serving => w.at = "authentication" /\ s = <<>>
      <4> HIDE DEF y, w, s, t
      <4>1. w.at \in Places
        BY <2>1 DEF w
      <4> QED
        BY <1>1, <3>1, <3>2, <4>1 DEF Phase, Opening, Authenticating, Authenticated, Places, Main
    <3>4. Phase(j, c, x, w, s, t) \/ ~ serving
      <4> HIDE DEF y, w, s, t
      <4> QED
        BY <1>1, <3>1, <3>3 DEF Phase, Authenticating, Main
    <3>5. PhaseInv(j)'
      BY <2>1, <2>4, <3>1, <3>4 DEF PhaseInv
    <3>6. SentInv(j)' /\ StepInv(j)'
      BY <2>1, <3>3 DEF SentInv, StepInv, Sent, Step, Serves, Main
    <3>7. StrayInv(j)'
      <4>1. c \in NoDir => Listings(t)
        BY <2>2, <2>4, <3>1 DEF StrayInv, Stray, Gone
      <4> QED
        BY <2>1, <2>4, <3>1, <4>1 DEF StrayInv, Stray, Gone
    <3> QED
      BY <3>5, <3>6, <3>7
  <2>5. CASE owner[j] = None
    <3>1. None \notin NoDir /\ None \notin Clients
      BY FtpAssumption
    <3>2. serving => Phase(j, None, client[None], worker[j], toServer[j], toClient[j])
      BY <2>2, <2>5 DEF PhaseInv
    <3>3. serving => worker[j].at = "none" /\ toServer[j] = <<>> /\ toClient[j] = <<>>
      BY <3>2 DEF Phase
    <3>4. SentInv(j)' /\ StepInv(j)' /\ StrayInv(j)'
      BY <2>1, <2>5, <3>1, <3>3 DEF SentInv, StepInv, StrayInv, Sent, Serves, Main
    <3>5. PhaseInv(j)'
      BY <2>1, <2>5, <3>3 DEF PhaseInv, Phase, Main
    <3> QED
      BY <3>4, <3>5
  <2> QED
    BY <2>1, <2>3, <2>4, <2>5
<1>6. ASSUME NEW j \in Conns PROVE WorkerInv(j)'
  <2>1. WorkerInv(j)
    BY DEF FtpInv
  <2> QED
    BY <2>1 DEF WorkerInv
<1>7. ASSUME NEW n \in Names PROVE FileInv(n)'
  <2>1. FileInv(n)
    BY DEF FtpInv
  <2> QED
    BY <2>1 DEF FileInv
<1>8. EndInv'
  <2>1. EndInv /\ reset \subseteq Conns
    BY DEF FtpInv, TypeInv
  <2> QED
    BY <1>4, <2>1 DEF EndInv, ServerEndsFor
<1> QED
  BY <1>2, <1>5, <1>6, <1>7, <1>8 DEF FtpInv

\* A step of the server on one connection.
LEMMA WorkerMoves ==
    ASSUME FtpInv, TypeInv', NEW k \in Conns, serving, serving', UNCHANGED clientVars,
           \A j \in Conns \ {k} : /\ toServer'[j] = toServer[j] /\ toClient'[j] = toClient[j]
                                  /\ worker'[j] = worker[j],
           \A n \in Names : file[n] # None => file'[n] # None /\ Len(file'[n]) >= Len(file[n]),
           \A n \in Names : FileInv(n)',
           \A j \in reset' : j \in reset \/ (j = k /\ PeerGone(k)),
           WorkerInv(k)', SentInv(k)', PhaseInv(k)', StrayInv(k)', StepInv(k)',
           \A c \in Clients : client[c].fd = k /\ owner[k] = c => ArrivedInv(c)'
    PROVE  FtpInv'
<1>1. client' = client /\ owner' = owner
  BY DEF clientVars
<1>2. ASSUME NEW d \in Clients PROVE ClientInv(d)' /\ ArrivedInv(d)'
  <2>1. ClientInv(d) /\ ArrivedInv(d) /\ client[d] \in ClientStates
    BY DEF FtpInv, TypeInv
  <2>2. ClientInv(d)'
    BY <1>1, <2>1 DEF ClientInv
  <2>3. CASE client[d].fd = k
    <3>1. k # 0
      BY DEF Conns
    <3>2. owner[k] = d
      BY <2>1, <2>3, <3>1 DEF ClientInv
    <3> QED
      BY <2>2, <2>3, <3>2
  <2>4. CASE client[d].fd # k
    <3>1. client[d].fd # 0 => client[d].fd \in Conns \ {k}
      BY <2>1, <2>4 DEF ClientStates
    <3>2. client[d].fd # 0 => toClient'[client[d].fd] = toClient[client[d].fd]
      BY <3>1
    <3>3. ArrivedInv(d)'
      BY <1>1, <2>1, <3>2 DEF ArrivedInv, Gone
    <3> QED
      BY <2>2, <3>3
  <2> QED
    BY <2>2, <2>3, <2>4
<1>3. ASSUME NEW j \in Conns \ {k}
      PROVE WorkerInv(j)' /\ SentInv(j)' /\ PhaseInv(j)' /\ StrayInv(j)' /\ StepInv(j)'
  <2>1. /\ toServer'[j] = toServer[j] /\ toClient'[j] = toClient[j] /\ worker'[j] = worker[j]
        /\ WorkerInv(j) /\ SentInv(j) /\ PhaseInv(j) /\ StrayInv(j) /\ StepInv(j)
        /\ worker[j] \in WorkerStates
    BY DEF FtpInv, TypeInv
  <2>2. SentInv(j)' /\ PhaseInv(j)'
    BY <1>1, <2>1 DEF SentInv, PhaseInv
  <2>3. StrayInv(j)' /\ StepInv(j)'
    BY <1>1, <2>1 DEF StrayInv, StepInv, Gone
  <2>4. WorkerInv(j)'
    <3> DEFINE n == worker[j].name
    <3>1. CASE worker[j].at \in {"download", "upload", "blocks"}
      <4>1. n \in Names /\ file[n] # None
        BY <2>1, <3>1 DEF WorkerInv
      <4>2. file'[n] # None /\ Len(file'[n]) >= Len(file[n])
        BY <4>1
      <4>3. file[n] \in Seq(Units) /\ file'[n] \in Seq(Units)
        BY <4>1, <4>2 DEF FtpInv, TypeInv
      <4>4. Len(file[n]) \in Nat /\ Len(file'[n]) \in Nat
        BY <4>3
      <4>5. worker[j].size \in Nat /\ worker[j].offset \in Nat
        BY <2>1 DEF WorkerStates
      <4> QED
        BY <2>1, <4>1, <4>2, <4>4, <4>5 DEF WorkerInv
    <3>2. CASE worker[j].at \notin {"download", "upload", "blocks"}
      BY <2>1, <3>2 DEF WorkerInv
    <3> QED
      BY <3>1, <3>2
  <2> QED
    BY <2>2, <2>3, <2>4
<1>4. EndInv'
  <2>1. \A j \in reset' : PeerGone(j)'
    BY <1>1 DEF FtpInv, EndInv, PeerGone, Gone
  <2> QED
    BY <2>1 DEF EndInv, ServerEndsFor
<1> QED
  BY <1>2, <1>3, <1>4 DEF FtpInv

\* The server ends.
LEMMA DownMoves ==
    ASSUME FtpInv, Down, NEW k \in Conns, PeerGone(k),
           worker[k].at \in {"connection", "authentication"} \/ k \in reset
    PROVE  FtpInv'
<1>1. /\ serving' = FALSE /\ toServer' = [j \in Conns |-> <<>>]
      /\ client' = client /\ owner' = owner /\ toClient' = toClient /\ worker' = worker
      /\ file' = file /\ reset' = reset
  BY DEF Down
<1>2. TypeInv'
  <2>1. TypeInv
    BY DEF FtpInv
  <2>2. toServer' \in [Conns -> Seq(Units)]
    BY <1>1
  <2> QED
    BY <1>1, <2>1, <2>2 DEF TypeInv
<1>3. ASSUME NEW d \in Clients PROVE ClientInv(d)' /\ ArrivedInv(d)'
  BY <1>1 DEF FtpInv, ClientInv, ArrivedInv, Gone
<1>4. \A n \in Names : FileInv(n)'
  BY <1>1 DEF FtpInv, FileInv
<1>5. ASSUME NEW j \in Conns PROVE WorkerInv(j)' /\ StrayInv(j)'
  BY <1>1 DEF FtpInv, WorkerInv, StrayInv, Gone
<1>6. ASSUME NEW j \in Conns PROVE SentInv(j)' /\ PhaseInv(j)' /\ StepInv(j)'
  BY <1>1 DEF SentInv, PhaseInv, StepInv
<1>7. EndInv'
  BY <1>1 DEF FtpInv, EndInv, ServerEndsFor, PeerGone, Gone
<1> QED
  BY <1>2, <1>3, <1>4, <1>5, <1>6, <1>7 DEF FtpInv
-----------------------------------------------------------------------------
(* The beginning, and the steps at the prompt *)

LEMMA Starts ==
    ASSUME Init
    PROVE  FtpInv
<1>1. TypeInv
  <2>1. client \in [Clients -> ClientStates]
    <3>1. MaxCommands \in Nat /\ "IDLE" \in {"IDLE", "IS_AUTH", "IS_MAIN", "Gone"} /\ "nothing" \in Waits
      BY FtpAssumption DEF Waits
    <3>2. <<>> \in Seq(Units)
      OBVIOUS
    <3> QED
      BY <3>1, <3>2 DEF Init, ClientStates
  <2>2. worker \in [Conns -> WorkerStates]
    BY DEF Init, Idle, WorkerStates, Places
  <2>3. toServer \in [Conns -> Seq(Units)] /\ toClient \in [Conns -> Seq(Units)]
    <3>1. <<>> \in Seq(Units)
      OBVIOUS
    <3> QED
      BY <3>1 DEF Init
  <2>4. owner \in [Conns -> Clients \cup {None}]
    BY DEF Init
  <2>5. file \in [Names -> Seq(Units) \cup {None}]
    BY DEF Init
  <2>6. serving \in BOOLEAN /\ reset \subseteq Conns
    BY DEF Init
  <2> QED
    BY <2>1, <2>2, <2>3, <2>4, <2>5, <2>6 DEF TypeInv
<1>2. ASSUME NEW c \in Clients PROVE ClientInv(c) /\ ArrivedInv(c)
  <2>1. /\ client[c].fd = 0 /\ client[c].want = "nothing" /\ client[c].state = "IDLE"
        /\ client[c].got = <<>> /\ client[c].size = 0 /\ ~ (client[c].unsent > 0)
    BY DEF Init
  <2>2. Len(<<>>) <= 0 /\ \A i \in 1 .. Len(<<>>) : FALSE
    OBVIOUS
  <2>3. Len(client[c].got) <= client[c].size /\ \A i \in 1 .. Len(client[c].got) : FALSE
    BY <2>1, <2>2, Zenon
  <2> QED
    BY <2>1, <2>3 DEF ClientInv, ArrivedInv
<1>3. ASSUME NEW n \in Names PROVE FileInv(n)
  BY DEF Init, FileInv
<1>4. ASSUME NEW k \in Conns
      PROVE WorkerInv(k) /\ SentInv(k) /\ PhaseInv(k) /\ StrayInv(k) /\ StepInv(k)
  <2>1. /\ owner[k] = None /\ toServer[k] = <<>> /\ toClient[k] = <<>> /\ worker[k].at = "none"
        /\ worker[k].size = 0 /\ worker[k].offset = 0
    BY DEF Init, Idle
  <2>2. None \notin Clients /\ None \notin NoDir
    BY FtpAssumption
  <2>3. WorkerInv(k) /\ SentInv(k)
    BY <2>1 DEF WorkerInv, SentInv, Sent, Serves, Main
  <2>4. PhaseInv(k)
    BY <2>1 DEF PhaseInv, Phase, Main
  <2>5. StrayInv(k) /\ StepInv(k)
    BY <2>1, <2>2 DEF StrayInv, StepInv
  <2> QED
    BY <2>3, <2>4, <2>5
<1>5. EndInv
  BY DEF Init, EndInv, ServerEndsFor
<1> QED
  BY <1>1, <1>2, <1>3, <1>4, <1>5 DEF FtpInv

\* A client ends.
LEMMA LeaveMoves ==
    ASSUME FtpInv, NEW c \in Clients, NEW unread, Leave(c, unread)
    PROVE  FtpInv'
<1> DEFINE x == [AtPrompt(client[c], "Gone") EXCEPT !.left = 0]
<1>1. /\ client' = [client EXCEPT ![c] = x]
      /\ reset' = reset \cup {k \in Conns : owner[k] = c /\ unread[k] # <<>>}
      /\ toClient' = [k \in Conns |-> IF owner[k] = c THEN <<>> ELSE toClient[k]]
      /\ owner' = owner /\ toServer' = toServer /\ worker' = worker /\ file' = file
      /\ serving' = serving
  BY DEF Leave
<1>2. TypeInv /\ client[c] \in ClientStates /\ c # None
  BY FtpAssumption DEF FtpInv, TypeInv
<1>3. /\ x \in ClientStates /\ x.state = "Gone" /\ x.want = "nothing" /\ x.got = <<>> /\ x.size = 0
      /\ x.fd = client[c].fd /\ x.unsent = client[c].unsent
  <2>1. /\ "Gone" \in {"IDLE", "IS_AUTH", "IS_MAIN", "Gone"} /\ "nothing" \in Waits /\ <<>> \in Seq(Units)
        /\ None \in Names \cup {None} /\ 0 \in Nat
    BY DEF Waits
  <2> QED
    BY <1>2, <2>1 DEF AtPrompt, ClientStates
<1> HIDE DEF x
<1>4. client'[c] = x /\ \A d \in Clients \ {c} : client'[d] = client[d]
  BY <1>1, <1>2 DEF TypeInv
<1>5. TypeInv'
  <2>1. client' \in [Clients -> ClientStates]
    BY <1>1, <1>2, <1>3 DEF TypeInv
  <2>2. toClient' \in [Conns -> Seq(Units)]
    BY <1>1, <1>2 DEF TypeInv
  <2>3. reset' \subseteq Conns
    BY <1>1, <1>2 DEF TypeInv
  <2> QED
    BY <1>1, <1>2, <2>1, <2>2, <2>3 DEF TypeInv
<1>6. ASSUME NEW d \in Clients PROVE ClientInv(d)' /\ ArrivedInv(d)'
  <2>1. ClientInv(d) /\ ArrivedInv(d) /\ client[d] \in ClientStates
    BY <1>2 DEF FtpInv, TypeInv
  <2>2. CASE d = c
    <3>1. client'[d].fd # 0 => owner'[client'[d].fd] = d
      BY <1>1, <1>3, <1>4, <2>1, <2>2 DEF ClientInv
    <3>2. Len(x.got) <= x.size /\ \A i \in 1 .. Len(x.got) : FALSE
      <4>1. Len(<<>>) <= 0 /\ \A i \in 1 .. Len(<<>>) : FALSE
        OBVIOUS
      <4> QED
        BY <1>3, <4>1, Zenon
    <3> QED
      BY <1>3, <1>4, <2>1, <2>2, <3>1, <3>2 DEF ClientInv, ArrivedInv, Gone
  <2>3. CASE d # c
    <3>1. client'[d] = client[d]
      BY <1>4, <2>3
    <3>2. client[d].fd # 0 => toClient'[client[d].fd] = toClient[client[d].fd]
      <4> SUFFICES ASSUME client[d].fd # 0 PROVE toClient'[client[d].fd] = toClient[client[d].fd]
        OBVIOUS
      <4>1. client[d].fd \in Conns /\ owner[client[d].fd] # c
        BY <2>1, <2>3 DEF ClientInv, ClientStates
      <4> QED
        BY <1>1, <4>1
    <3>3. ClientInv(d)'
      BY <1>1, <2>1, <3>1 DEF ClientInv
    <3>4. ArrivedInv(d)'
      BY <2>1, <3>1, <3>2 DEF ArrivedInv, Gone
    <3> QED
      BY <3>3, <3>4
  <2> QED
    BY <2>2, <2>3
<1>7. \A n \in Names : FileInv(n)'
  BY <1>1 DEF FtpInv, FileInv
<1>8. ASSUME NEW k \in Conns
      PROVE WorkerInv(k)' /\ SentInv(k)' /\ PhaseInv(k)' /\ StrayInv(k)' /\ StepInv(k)'
  <2>1. /\ WorkerInv(k) /\ SentInv(k) /\ PhaseInv(k) /\ StrayInv(k) /\ StepInv(k)
        /\ owner[k] \in Clients \cup {None}
    BY DEF FtpInv, TypeInv
  <2>2. WorkerInv(k)'
    BY <1>1, <2>1 DEF WorkerInv
  <2>3. CASE owner[k] = c
    <3>1. client'[owner'[k]] = x /\ toClient'[k] = <<>>
      BY <1>1, <1>4, <2>3
    <3>2. serving => Phase(k, c, client[c], worker[k], toServer[k], toClient[k])
      BY <2>1, <2>3 DEF PhaseInv
    <3>3. serving => Phase(k, c, x, worker[k], toServer[k], <<>>)
      BY <1>2, <1>3, <3>2 DEF Phase, Opening, Authenticating, Authenticated
    <3>4. PhaseInv(k)'
      BY <1>1, <2>3, <3>1, <3>3 DEF PhaseInv
    <3>5. serving => Sent(x, worker[k], toServer[k])
      BY <1>3, <2>1, <2>3 DEF SentInv, Sent
    <3>6. SentInv(k)'
      BY <1>1, <3>1, <3>5 DEF SentInv
    <3>7. StrayInv(k)' /\ StepInv(k)'
      BY <1>1, <1>3, <3>1 DEF StrayInv, StepInv, Gone
    <3> QED
      BY <2>2, <3>4, <3>6, <3>7
  <2>4. CASE owner[k] \in Clients \ {c}
    <3>1. client'[owner'[k]] = client[owner[k]] /\ toClient'[k] = toClient[k]
      BY <1>1, <1>4, <2>4
    <3>2. SentInv(k)' /\ PhaseInv(k)' /\ StrayInv(k)' /\ StepInv(k)'
      BY <1>1, <2>1, <3>1 DEF SentInv, PhaseInv, StrayInv, StepInv, Gone
    <3> QED
      BY <2>2, <3>2
  <2>5. CASE owner[k] = None
    <3>1. serving => worker[k].at = "none" /\ toServer[k] = <<>> /\ toClient[k] = <<>>
      BY <2>1, <2>5 DEF PhaseInv, Phase
    <3>2. None \notin Clients /\ None \notin NoDir /\ toClient'[k] = toClient[k]
      BY <1>1, <1>2, <2>5, FtpAssumption
    <3>3. PhaseInv(k)' /\ SentInv(k)'
      BY <1>1, <2>5, <3>1, <3>2 DEF PhaseInv, Phase, SentInv, Sent, Serves, Main
    <3>4. StrayInv(k)' /\ StepInv(k)'
      BY <1>1, <2>5, <3>2 DEF StrayInv, StepInv
    <3> QED
      BY <2>2, <3>3, <3>4
  <2> QED
    BY <2>1, <2>3, <2>4, <2>5
<1>9. EndInv'
  <2>1. \A k \in Conns : owner[k] \in Clients \cup {None}
    BY <1>2 DEF TypeInv
  <2>2. \A k \in Conns : PeerGone(k) => PeerGone(k)'
    BY <1>1, <1>3, <1>4, <2>1 DEF PeerGone, Gone
  <2>3. \A k \in Conns : owner[k] = c => PeerGone(k)'
    BY <1>1, <1>2, <1>3, <1>4 DEF PeerGone, Gone
  <2>4. EndInv /\ reset \subseteq Conns
    BY <1>2 DEF FtpInv, TypeInv
  <2>5. \A k \in reset' : PeerGone(k)'
    BY <1>1, <2>2, <2>3, <2>4 DEF EndInv
  <2>6. ServerEndsFor'
    BY <1>1, <2>2, <2>4 DEF EndInv, ServerEndsFor
  <2> QED
    BY <2>5, <2>6 DEF EndInv
<1> QED
  BY <1>5, <1>6, <1>7, <1>8, <1>9 DEF FtpInv

LEMMA OpenConn ==
    ASSUME FtpInv, serving, NEW c \in Clients, open_conn(c)
    PROVE  FtpInv'
<1>1. PICK k \in Conns :
        /\ client[c].want = "nothing" /\ client[c].state = "IDLE" /\ owner[k] = None
        /\ owner' = [owner EXCEPT ![k] = c]
        /\ worker' = [worker EXCEPT ![k].at = "queue"]
        /\ toServer' = [toServer EXCEPT ![k] = <<Header("OPEN_CONN_REQUEST", TRUE, 0)>>]
        /\ client' = [client EXCEPT ![c].fd = k, ![c].want = "OPEN_CONN_REPLY",
                                    ![c].unsent = 1]
        /\ UNCHANGED <<local, toClient, file, serving, reset>>
  BY DEF open_conn, Prompt
<1>2. TypeInv /\ client[c] \in ClientStates /\ c # None /\ worker[k] \in WorkerStates
  BY FtpAssumption DEF FtpInv, TypeInv
<1> DEFINE h == Header("OPEN_CONN_REQUEST", TRUE, 0)
           x == [client[c] EXCEPT !.fd = k, !.want = "OPEN_CONN_REPLY", !.unsent = 1]
           w == [worker[k] EXCEPT !.at = "queue"]
<1>3. h \in Units /\ h.type = "OPEN_CONN_REQUEST"
  <2>1. "OPEN_CONN_REQUEST" \in Kinds /\ TRUE \in BOOLEAN /\ 0 \in Nat
    BY DEF Kinds
  <2> QED
    BY <2>1, HeaderUnit
<1>4. /\ x \in ClientStates /\ x.state = "IDLE" /\ x.want = "OPEN_CONN_REPLY" /\ x.fd = k
      /\ x.got = client[c].got /\ x.size = client[c].size
  BY <1>1, <1>2 DEF ClientStates, Waits
<1>5. /\ w \in WorkerStates /\ w.at = "queue" /\ w.size = worker[k].size
      /\ w.offset = worker[k].offset
  BY <1>2 DEF WorkerStates, Places
<1>6. /\ client' = [client EXCEPT ![c] = x] /\ worker' = [worker EXCEPT ![k] = w]
      /\ toServer' = [toServer EXCEPT ![k] = <<h>>]
      /\ toClient' = toClient /\ file' = file /\ serving' = serving /\ reset' = reset
  BY <1>1, <1>2 DEF TypeInv
<1> HIDE DEF h, x, w
<1>7. /\ client'[c] = x /\ \A d \in Clients \ {c} : client'[d] = client[d]
      /\ worker'[k] = w /\ owner'[k] = c /\ toServer'[k] = <<h>>
      /\ \A j \in Conns \ {k} : worker'[j] = worker[j] /\ owner'[j] = owner[j] /\ toServer'[j] = toServer[j]
  BY <1>1, <1>2, <1>6 DEF TypeInv
<1>8. /\ WorkerInv(k) /\ worker[k].at = "none" /\ toClient[k] = <<>>
  <2>1. WorkerInv(k) /\ PhaseInv(k)
    BY DEF FtpInv
  <2>2. Phase(k, None, client[None], worker[k], toServer[k], toClient[k])
    BY <1>1, <2>1 DEF PhaseInv
  <2> QED
    BY <2>1, <2>2 DEF Phase
<1>9. TypeInv'
  <2>1. client' \in [Clients -> ClientStates]
    BY <1>2, <1>4, <1>6 DEF TypeInv
  <2>2. toServer' \in [Conns -> Seq(Units)]
    BY <1>2, <1>3, <1>6 DEF TypeInv
  <2>3. worker' \in [Conns -> WorkerStates]
    BY <1>2, <1>5, <1>6 DEF TypeInv
  <2>4. owner' \in [Conns -> Clients \cup {None}]
    BY <1>1, <1>2 DEF TypeInv
  <2> QED
    BY <1>2, <1>6, <2>1, <2>2, <2>3, <2>4 DEF TypeInv
<1>10. ASSUME NEW d \in Clients PROVE ClientInv(d)' /\ ArrivedInv(d)'
  <2>1. ClientInv(d) /\ ArrivedInv(d) /\ client[d] \in ClientStates
    BY <1>2 DEF FtpInv, TypeInv
  <2>2. CASE d = c
    <3>1. ClientInv(d)'
      <4>1. /\ Len(client[c].got) <= client[c].size
            /\ \A i \in 1 .. Len(client[c].got) : InPlace(client[c].got[i], i)
        BY <2>1, <2>2 DEF ClientInv
      <4>2. k # 0
        BY DEF Conns
      <4> QED
        BY <1>4, <1>7, <2>2, <4>1, <4>2 DEF ClientInv, StateFor
    <3>2. Answers(x, toClient[k])
      BY <1>4, <1>8 DEF Answers
    <3>3. ArrivedInv(d)'
      BY <1>4, <1>6, <1>7, <2>2, <3>2 DEF ArrivedInv
    <3> QED
      BY <3>1, <3>3
  <2>3. CASE d # c
    <3>1. client'[d] = client[d]
      BY <1>7, <2>3
    <3>2. client[d].fd # 0 => owner'[client[d].fd] = owner[client[d].fd]
      <4>1. client[d].fd # 0 => client[d].fd \in Conns /\ owner[client[d].fd] # None
        BY <2>1, FtpAssumption DEF ClientInv, ClientStates
      <4> QED
        BY <1>1, <1>7, <4>1
    <3>3. ClientInv(d)'
      BY <2>1, <3>1, <3>2 DEF ClientInv
    <3>4. ArrivedInv(d)'
      BY <1>6, <2>1, <3>1 DEF ArrivedInv, Gone
    <3> QED
      BY <3>3, <3>4
  <2> QED
    BY <2>2, <2>3
<1>11. \A n \in Names : FileInv(n)'
  BY <1>6 DEF FtpInv, FileInv
<1>12. WorkerInv(k)' /\ SentInv(k)' /\ PhaseInv(k)' /\ StrayInv(k)' /\ StepInv(k)'
  <2>1. WorkerInv(k)'
    BY <1>5, <1>7, <1>8 DEF WorkerInv
  <2>2. Phase(k, c, x, w, <<h>>, <<>>)
    BY <1>2, <1>3, <1>4, <1>5 DEF Phase, Opening, OneHeader, Main
  <2>3. PhaseInv(k)'
    BY <1>6, <1>7, <1>8, <2>2 DEF PhaseInv
  <2>4. SentInv(k)' /\ StepInv(k)'
    BY <1>5, <1>7 DEF SentInv, StepInv, Sent, Step, Serves, Main
  <2>5. Stray(k, x, <<>>)
    BY <1>4 DEF Stray, Listings
  <2>6. StrayInv(k)'
    BY <1>6, <1>7, <1>8, <2>5 DEF StrayInv
  <2> QED
    BY <2>1, <2>3, <2>4, <2>6
<1>13. ASSUME NEW j \in Conns \ {k}
       PROVE WorkerInv(j)' /\ SentInv(j)' /\ PhaseInv(j)' /\ StrayInv(j)' /\ StepInv(j)'
  <2>1. /\ toServer'[j] = toServer[j] /\ toClient'[j] = toClient[j] /\ owner'[j] = owner[j]
        /\ worker'[j] = worker[j] /\ serving' = serving
        /\ owner[j] \in Clients \cup {None} /\ worker[j].at \in Places
    BY <1>2, <1>6, <1>7 DEF TypeInv, WorkerStates
  <2>2. WorkerInv(j) /\ SentInv(j) /\ PhaseInv(j) /\ StrayInv(j) /\ StepInv(j)
    BY DEF FtpInv
  <2>3. WorkerInv(j)'
    BY <1>6, <2>1, <2>2 DEF WorkerInv
  <2>4. CASE owner[j] \in Clients \ {c}
    <3>1. client'[owner[j]] = client[owner[j]]
      BY <1>7, <2>4
    <3>2. SentInv(j)' /\ PhaseInv(j)' /\ StrayInv(j)' /\ StepInv(j)'
      BY <2>1, <2>2, <3>1 DEF SentInv, PhaseInv, StrayInv, StepInv, Gone
    <3> QED
      BY <2>3, <3>2
  <2>5. CASE owner[j] = c
    <3> DEFINE y == client[c]
               v == worker[j]
               s == toServer[j]
               t == toClient[j]
    <3>1. y.state = "IDLE" /\ y.want = "nothing" /\ x.fd # j /\ client'[owner'[j]] = x
      BY <1>1, <1>4, <1>7, <2>1, <2>5
    <3>2. Phase(j, c, y, v, s, t)
      BY <2>2, <2>5 DEF PhaseInv
    <3>3. v.at = "authentication" /\ s = <<>>
      <4> HIDE DEF y, v, s, t
      <4>1. v.at \in Places
        BY <2>1 DEF v
      <4> QED
        BY <1>2, <3>1, <3>2, <4>1 DEF Phase, Opening, Authenticating, Authenticated, Places, Main
    <3>4. Phase(j, c, x, v, s, t)
      <4> HIDE DEF y, v, s, t
      <4> QED
        BY <1>2, <3>1, <3>3 DEF Phase, Authenticating, Main
    <3>5. PhaseInv(j)'
      BY <2>1, <2>5, <3>1, <3>4 DEF PhaseInv
    <3>6. SentInv(j)' /\ StepInv(j)'
      BY <2>1, <3>3 DEF SentInv, StepInv, Sent, Step, Serves, Main
    <3>7. StrayInv(j)'
      <4>1. c \in NoDir => Listings(t)
        BY <2>2, <2>5, <3>1 DEF StrayInv, Stray, Gone
      <4> QED
        BY <2>1, <2>5, <3>1, <4>1 DEF StrayInv, Stray, Gone
    <3> QED
      BY <2>3, <3>5, <3>6, <3>7
  <2>6. CASE owner[j] = None
    <3>1. None \notin NoDir /\ None \notin Clients
      BY FtpAssumption
    <3>2. worker[j].at = "none" /\ toServer[j] = <<>> /\ toClient[j] = <<>>
      BY <2>2, <2>6 DEF PhaseInv, Phase
    <3>3. PhaseInv(j)' /\ SentInv(j)'
      BY <2>1, <2>6, <3>2 DEF PhaseInv, Phase, SentInv, Sent, Serves, Main
    <3>4. StrayInv(j)' /\ StepInv(j)'
      BY <2>1, <2>6, <3>1 DEF StrayInv, StepInv
    <3> QED
      BY <2>3, <3>3, <3>4
  <2> QED
    BY <2>1, <2>4, <2>5, <2>6
<1>14. EndInv'
  <2>1. EndInv /\ reset \subseteq Conns /\ \A j \in Conns : owner[j] \in Clients \cup {None}
    BY <1>2 DEF FtpInv, TypeInv
  <2>2. \A d \in Clients : Gone(d) => Gone(d)'
    BY <1>1, <1>7 DEF Gone
  <2>3. \A j \in reset : j # k /\ owner'[j] = owner[j] /\ owner[j] \in Clients /\ Gone(owner[j])
    BY <1>1, <1>7, <2>1 DEF EndInv, PeerGone
  <2>4. \A j \in reset' : PeerGone(j)'
    BY <1>6, <2>2, <2>3, FtpAssumption DEF PeerGone
  <2> QED
    BY <1>6, <2>4 DEF EndInv, ServerEndsFor
<1> QED
  BY <1>9, <1>10, <1>11, <1>12, <1>13, <1>14 DEF FtpInv
-----------------------------------------------------------------------------
(* What an authenticated client receives *)

LEMMA MainFacts ==
    ASSUME FtpInv, NEW c \in Clients, client[c].state = "IS_MAIN"
    PROVE  LET k == client[c].fd
               y == client[c]
               w == worker[k]
               s == toServer[k]
               t == toClient[k] IN
           /\ TypeInv /\ k \in Conns /\ owner[k] = c /\ c # None /\ ~ Gone(c)
           /\ y \in ClientStates /\ w \in WorkerStates /\ s \in Seq(Units) /\ t \in Seq(Units)
           /\ ClientInv(c) /\ WorkerInv(k)
           /\ serving => w.at \in Main /\ Sent(y, w, s)
           /\ c \in NoDir => Stray(k, y, t)
           /\ c \notin NoDir => Answers(y, t) /\ (serving => Step(y, w, s, t))
<1> DEFINE k == client[c].fd
<1>1. /\ k \in Conns /\ owner[k] = c /\ c # None /\ ~ Gone(c) /\ k # 0
      /\ serving => worker[k].at \in Main
  BY InMain DEF Conns
<1>2. TypeInv /\ ClientInv(c) /\ ArrivedInv(c)
  BY DEF FtpInv
<1>3. SentInv(k) /\ StrayInv(k) /\ StepInv(k) /\ WorkerInv(k)
  BY <1>1 DEF FtpInv
<1>4. serving => Sent(client[c], worker[k], toServer[k])
  BY <1>1, <1>3 DEF SentInv
<1>5. c \in NoDir => Stray(k, client[c], toClient[k])
  BY <1>1, <1>3 DEF StrayInv
<1>6. c \notin NoDir => Answers(client[c], toClient[k])
  BY <1>1, <1>2 DEF ArrivedInv
<1>7. c \notin NoDir /\ serving => Step(client[c], worker[k], toServer[k], toClient[k])
  BY <1>1, <1>3 DEF StepInv
<1>8. /\ client[c] \in ClientStates /\ worker[k] \in WorkerStates
      /\ toServer[k] \in Seq(Units) /\ toClient[k] \in Seq(Units)
  BY <1>1, <1>2 DEF TypeInv
<1> QED
  BY <1>1, <1>2, <1>3, <1>4, <1>5, <1>6, <1>7, <1>8

LEMMA MainMoves ==
    ASSUME FtpInv, NEW c \in Clients, client[c].state = "IS_MAIN",
           NEW k, k = client[c].fd,
           NEW x \in ClientStates, client' = [client EXCEPT ![c] = x],
           x.fd = k, x.state = "IS_MAIN",
           NEW s \in Seq(Units), toServer' = [toServer EXCEPT ![k] = s],
           NEW t \in Seq(Units), toClient' = [toClient EXCEPT ![k] = t],
           UNCHANGED <<owner, worker, file, serving, reset>>,
           x.want \notin {"OPEN_CONN_REPLY", "AUTH_REPLY"}, x.want = "header" => x.got = <<>>,
           Len(x.got) <= x.size, \A i \in 1 .. Len(x.got) : InPlace(x.got[i], i),
           serving => Sent(x, worker[k], s),
           c \in NoDir => Stray(k, x, t),
           c \notin NoDir => Answers(x, t) /\ (serving => Step(x, worker[k], s, t))
    PROVE  FtpInv'
<1>1. /\ TypeInv /\ k \in Conns /\ owner[k] = c /\ c # None /\ ~ Gone(c)
      /\ serving => worker[k].at \in Main
  BY MainFacts
<1>2. /\ client'[c] = x /\ toServer'[k] = s /\ toClient'[k] = t
      /\ \A j \in Conns \ {k} : toServer'[j] = toServer[j] /\ toClient'[j] = toClient[j]
  BY <1>1 DEF TypeInv
<1>3. TypeInv'
  <2>1. client' \in [Clients -> ClientStates]
    BY <1>1 DEF TypeInv
  <2>2. toServer' \in [Conns -> Seq(Units)]
    BY <1>1 DEF TypeInv
  <2>3. toClient' \in [Conns -> Seq(Units)]
    BY <1>1 DEF TypeInv
  <2> QED
    BY <1>1, <2>1, <2>2, <2>3 DEF TypeInv
<1>4. ClientInv(c)'
  <2>1. x.want # "nothing" => x.state = StateFor(x.want)
    BY DEF StateFor
  <2>2. x.fd # 0 /\ owner'[x.fd] = c
    BY <1>1 DEF Conns
  <2> QED
    BY <1>2, <2>1, <2>2 DEF ClientInv
<1>5. ArrivedInv(c)'
  BY <1>2 DEF ArrivedInv
<1>6. SentInv(k)' /\ StrayInv(k)' /\ StepInv(k)'
  BY <1>1, <1>2 DEF SentInv, StrayInv, StepInv
<1>7. PhaseInv(k)'
  <2>1. serving => Phase(k, c, x, worker[k], s, t)
    BY <1>1 DEF Phase, Authenticated, Main
  <2> QED
    BY <1>1, <1>2, <2>1 DEF PhaseInv
<1> QED
  BY <1>1, <1>2, <1>3, <1>4, <1>5, <1>6, <1>7, ClientMoves

LEMMA NoUnits ==
    /\ <<>> \in Seq(Units) /\ Len(<<>>) = 0 /\ \A i \in 1 .. Len(<<>>) : FALSE
    /\ \A q \in Seq(Units) : Len(q) = 0 => q = <<>>
OBVIOUS

LEMMA TailOf ==
    ASSUME NEW t \in Seq(Units), t # <<>>
    PROVE  /\ Tail(t) \in Seq(Units) /\ Len(Tail(t)) = Len(t) - 1 /\ Len(t) \in Nat /\ Len(t) >= 1
           /\ t[1] \in Units /\ Head(t) = t[1]
           /\ \A j \in 1 .. Len(t) - 1 : Tail(t)[j] = t[j + 1] /\ j + 1 \in 1 .. Len(t)
OBVIOUS

LEMMA TailListings ==
    ASSUME NEW t \in Seq(Units), t # <<>>, Listings(t)
    PROVE  Listings(Tail(t))
<1>1. /\ Len(Tail(t)) = Len(t) - 1 /\ Len(t) \in Nat
      /\ \A j \in 1 .. Len(t) - 1 : Tail(t)[j] = t[j + 1] /\ j + 1 \in 1 .. Len(t)
  BY TailOf
<1> SUFFICES ASSUME NEW i \in 1 .. Len(Tail(t)), Tail(t)[i].type = "LIST_REPLY"
             PROVE  /\ Tail(t)[i].size = 1 /\ i + 1 <= Len(Tail(t))
                    /\ Tail(t)[i + 1].type = "payload"
  BY DEF Listings
<1>2. Tail(t)[i] = t[i + 1] /\ i + 1 \in 1 .. Len(t)
  BY <1>1
<1>3. t[i + 1].size = 1 /\ (i + 1) + 1 <= Len(t) /\ t[(i + 1) + 1].type = "payload"
  BY <1>2 DEF Listings
<1>4. i + 1 \in 1 .. Len(t) - 1
  BY <1>1, <1>3
<1>5. Tail(t)[i + 1] = t[(i + 1) + 1]
  BY <1>1, <1>4
<1> QED
  BY <1>1, <1>2, <1>3, <1>4, <1>5

\* The reply is not the one that is waited for, or a refusal, or will not come.
LEMMA Refused ==
    ASSUME FtpInv, NEW c \in Clients, client[c].state = "IS_MAIN",
           NEW k, k = client[c].fd,
           toClient[k] # <<>> \/ ~ serving \/ worker[k].at = "closed",
           client' = [client EXCEPT ![c] = AtPrompt(client[c], "IS_MAIN")],
           toClient' = [toClient EXCEPT ![k] = IF @ = <<>> THEN @ ELSE Tail(@)],
           Same,
           c \notin NoDir /\ toClient[k] # <<>> =>
               client[c].want = "GET_REPLY" /\ Len(toClient[k]) = 1
    PROVE  FtpInv'
<1> DEFINE y == client[c]
           w == worker[k]
           s == toServer[k]
           t == toClient[k]
           x == AtPrompt(y, "IS_MAIN")
           u == IF t = <<>> THEN t ELSE Tail(t)
<1>1. /\ TypeInv /\ k \in Conns /\ y \in ClientStates /\ w \in WorkerStates
      /\ s \in Seq(Units) /\ t \in Seq(Units)
      /\ serving => w.at \in Main /\ Sent(y, w, s)
      /\ c \in NoDir => Stray(k, y, t)
      /\ c \notin NoDir => Answers(y, t) /\ (serving => Step(y, w, s, t))
  BY MainFacts
<1>2. /\ x \in ClientStates /\ x.state = "IS_MAIN" /\ x.want = "nothing" /\ x.got = <<>> /\ x.size = 0
      /\ x.fd = k
  <2>1. "nothing" \in Waits /\ <<>> \in Seq(Units) /\ None \in Names \cup {None} /\ 0 \in Nat
    BY DEF Waits
  <2> QED
    BY <1>1, <2>1 DEF AtPrompt, ClientStates
<1>3. u \in Seq(Units)
  BY <1>1, TailOf
<1>4. /\ client' = [client EXCEPT ![c] = x] /\ toClient' = [toClient EXCEPT ![k] = u]
      /\ toServer' = [toServer EXCEPT ![k] = s]
      /\ UNCHANGED <<owner, worker, file, serving, reset>>
  BY <1>1 DEF Same, TypeInv
<1>5. t # <<>> \/ ~ serving \/ w.at = "closed"
  OBVIOUS
<1>6. c \notin NoDir /\ t # <<>> => y.want = "GET_REPLY" /\ Len(t) = 1
  OBVIOUS
<1>7. y.state = "IS_MAIN"
  OBVIOUS
<1> HIDE DEF y, w, s, t, x
<1>8. Len(x.got) <= x.size /\ \A i \in 1 .. Len(x.got) : FALSE
  <2>1. Len(<<>>) <= 0 /\ \A i \in 1 .. Len(<<>>) : FALSE
    OBVIOUS
  <2> QED
    BY <1>2, <2>1, Zenon
<1>9. serving => Sent(x, w, s)
  BY <1>1, <1>7 DEF Sent
<1>10. c \in NoDir => Stray(k, x, u)
  <2>1. c \in NoDir => Listings(u)
    BY <1>1, TailListings DEF Stray
  <2> QED
    BY <1>2, <2>1 DEF Stray
<1>11. c \notin NoDir => u = <<>>
  <2>1. CASE t = <<>>
    BY <2>1
  <2>2. CASE t # <<>>
    <3> SUFFICES ASSUME c \notin NoDir PROVE Tail(t) = <<>>
      BY <2>2
    <3>1. Len(Tail(t)) = Len(t) - 1 /\ Len(t) = 1 /\ Tail(t) \in Seq(Units)
      BY <1>1, <1>6, <2>2, TailOf
    <3> QED
      <4>1. Len(Tail(t)) = 0
        BY ONLY <3>1
      <4> QED
        BY <3>1, <4>1, NoUnits, Zenon
  <2> QED
    BY <2>1, <2>2
<1>12. c \notin NoDir => Answers(x, u)
  BY <1>2, <1>11 DEF Answers
<1>13. c \notin NoDir /\ serving => Step(x, w, s, u)
  <2>1. CASE t = <<>>
    BY <1>5, <2>1 DEF Step, Serves
  <2>2. CASE t # <<>>
    <3> SUFFICES ASSUME c \notin NoDir, serving, Serves(w) PROVE Step(x, w, s, u)
      BY DEF Step
    <3>1. OneRequest(y, w, s, t) /\ Uploads(y, w, s, t) /\ Downloads(y, w, t)
      BY <1>1 DEF Step
    <3>2. y.want = "GET_REPLY" /\ Len(t) = 1
      BY <1>6, <2>2
    <3>3. OneRequest(x, w, s, u)
      BY <2>2, <3>1 DEF OneRequest
    <3>4. Uploads(x, w, s, u)
      BY <1>2, <3>1, <3>2 DEF Uploads, Put
    <3>5. Downloads(x, w, u)
      <4>1. w.offset \in Nat
        BY <1>1 DEF WorkerStates
      <4>2. ~ (Len(t) = 2 + w.offset)
        BY <3>2, <4>1
      <4> QED
        BY <3>1, <3>2, <4>2 DEF Downloads
    <3> QED
      BY <3>3, <3>4, <3>5 DEF Step
  <2> QED
    BY <2>1, <2>2
<1>14. x.want \notin {"OPEN_CONN_REPLY", "AUTH_REPLY"} /\ (x.want = "header" => x.got = <<>>)
  BY <1>2
<1>15. s \in Seq(Units) /\ client[c].state = "IS_MAIN" /\ k = client[c].fd
  BY <1>1
<1>16. /\ serving => Sent(x, worker[k], s)
       /\ c \notin NoDir => Answers(x, u) /\ (serving => Step(x, worker[k], s, u))
  BY <1>9, <1>12, <1>13 DEF w
<1>17. /\ FtpInv /\ c \in Clients
       /\ \A i \in 1 .. Len(x.got) : InPlace(x.got[i], i)
  BY <1>8
<1> HIDE DEF u
<1> QED
  BY ONLY <1>2, <1>3, <1>4, <1>8, <1>10, <1>14, <1>15, <1>16, <1>17, MainMoves

\* The reply is accepted; what the client waits for next.
Follow == {"nothing", "data", "FILE_DATA", "header"}
LEMMA Granted ==
    ASSUME FtpInv, NEW c \in Clients, client[c].state = "IS_MAIN",
           NEW k, k = client[c].fd, toClient[k] # <<>>,
           NEW want \in Follow, NEW n \in Nat,
           NEW x, x = [client[c] EXCEPT !.want = want, !.size = n, !.got = <<>>, !.last = 0],
           client' = [client EXCEPT ![c] = x],
           toClient' = [toClient EXCEPT ![k] = Tail(@)],
           Same,
           c \in NoDir /\ want = "data" =>
               n = 1 /\ Len(toClient[k]) >= 2 /\ toClient[k][2].type = "payload",
           c \notin NoDir => Answers(x, Tail(toClient[k])),
           c \notin NoDir /\ serving /\ Serves(worker[k]) =>
               /\ Uploads(x, worker[k], toServer[k], Tail(toClient[k]))
               /\ Downloads(x, worker[k], Tail(toClient[k]))
    PROVE  FtpInv'
<1> DEFINE y == client[c]
           w == worker[k]
           s == toServer[k]
           t == toClient[k]
           u == Tail(t)
<1>1. /\ TypeInv /\ k \in Conns /\ y \in ClientStates /\ w \in WorkerStates
      /\ s \in Seq(Units) /\ t \in Seq(Units)
      /\ serving => w.at \in Main /\ Sent(y, w, s)
      /\ c \in NoDir => Stray(k, y, t)
      /\ c \notin NoDir => Answers(y, t) /\ (serving => Step(y, w, s, t))
  BY MainFacts
<1>2. /\ x \in ClientStates /\ x.state = "IS_MAIN" /\ x.want = want /\ x.got = <<>> /\ x.size = n
      /\ x.fd = k
  <2>1. want \in Waits
    BY DEF Follow, Waits
  <2>2. <<>> \in Seq(Units) /\ 0 \in Nat
    BY ONLY NoUnits
  <2> QED
    BY <1>1, <2>1, <2>2 DEF ClientStates
<1>3. /\ u \in Seq(Units) /\ Len(u) = Len(t) - 1 /\ Len(t) \in Nat
      /\ \A j \in 1 .. Len(t) - 1 : u[j] = t[j + 1]
  BY <1>1, TailOf
<1>4. /\ client' = [client EXCEPT ![c] = x] /\ toClient' = [toClient EXCEPT ![k] = u]
      /\ toServer' = [toServer EXCEPT ![k] = s]
      /\ UNCHANGED <<owner, worker, file, serving, reset>>
  BY <1>1 DEF Same, TypeInv
<1>5. /\ t # <<>> /\ y.state = "IS_MAIN"
      /\ c \in NoDir /\ want = "data" => n = 1 /\ Len(t) >= 2 /\ t[2].type = "payload"
      /\ c \notin NoDir => Answers(x, u)
      /\ c \notin NoDir /\ serving /\ Serves(w) => Uploads(x, w, s, u) /\ Downloads(x, w, u)
  OBVIOUS
<1>6. s \in Seq(Units) /\ client[c].state = "IS_MAIN" /\ k = client[c].fd
  BY <1>1
<1> HIDE DEF y, w, s, t, u
<1>7. Len(x.got) <= x.size /\ \A i \in 1 .. Len(x.got) : FALSE
  <2>1. Len(<<>>) <= n /\ \A i \in 1 .. Len(<<>>) : FALSE
    <3>1. 0 <= n
      OBVIOUS
    <3> QED
      BY <3>1, NoUnits, Zenon
  <2> QED
    BY <1>2, <2>1, Zenon
<1>8. serving => Sent(x, w, s)
  BY <1>1, <1>5 DEF Sent
<1>9. c \in NoDir => Stray(k, x, u)
  <2>1. c \in NoDir => Listings(u)
    BY <1>1, <1>5, TailListings DEF Stray, u
  <2>2. c \in NoDir /\ want = "data" => n = 1 /\ Len(u) >= 1 /\ u[1].type = "payload"
    <3> SUFFICES ASSUME c \in NoDir, want = "data" PROVE Len(u) >= 1 /\ u[1].type = "payload"
      BY <1>5
    <3>1. 1 \in 1 .. Len(t) - 1 /\ 1 + 1 = 2 /\ Len(u) >= 1
      BY <1>3, <1>5
    <3> QED
      BY <1>3, <1>5, <3>1
  <2> QED
    BY <1>2, <2>1, <2>2 DEF Stray
<1>10. c \notin NoDir /\ serving => Step(x, w, s, u)
  <2> SUFFICES ASSUME c \notin NoDir, serving, Serves(w) PROVE OneRequest(x, w, s, u)
    BY <1>5 DEF Step
  <2>1. OneRequest(y, w, s, t)
    BY <1>1 DEF Step
  <2> QED
    BY <1>5, <2>1 DEF OneRequest
<1>11. x.want \notin {"OPEN_CONN_REPLY", "AUTH_REPLY"} /\ (x.want = "header" => x.got = <<>>)
  BY <1>2 DEF Follow
<1>12. /\ serving => Sent(x, worker[k], s)
       /\ c \notin NoDir => Answers(x, u) /\ (serving => Step(x, worker[k], s, u))
  BY <1>5, <1>8, <1>10 DEF w
<1>13. /\ FtpInv /\ c \in Clients
       /\ \A i \in 1 .. Len(x.got) : InPlace(x.got[i], i)
  BY <1>7
<1> QED
  BY ONLY <1>2, <1>3, <1>4, <1>6, <1>7, <1>9, <1>11, <1>12, <1>13, MainMoves

\* What a client waits for tells its state.
LEMMA WantsInMain ==
    ASSUME FtpInv, NEW c \in Clients,
           client[c].want \notin {"nothing", "OPEN_CONN_REPLY", "AUTH_REPLY"}
    PROVE  client[c].state = "IS_MAIN"
<1>1. ClientInv(c)
  BY DEF FtpInv
<1> QED
  BY <1>1 DEF ClientInv, StateFor

LEMMA ListArrives ==
    ASSUME NEW x, NEW u, x.want = "data", x.size = 1, Len(x.got) = 0, Len(u) = 1, InPlace(u[1], 1)
    PROVE  Answers(x, u)
<1>1. Len(x.got) + Len(u) <= x.size
  OBVIOUS
<1>2. ASSUME NEW j \in 1 .. Len(u) PROVE InPlace(u[j], Len(x.got) + j)
  <2>1. j = 1 /\ Len(x.got) + j = 1
    OBVIOUS
  <2> QED
    BY <2>1
<1> QED
  BY <1>1, <1>2 DEF Answers

LEMMA ListReplied ==
    ASSUME FtpInv, NEW c \in Clients, ListReply(c)
    PROVE  FtpInv'
<1> DEFINE k == client[c].fd
           y == client[c]
           w == worker[k]
           s == toServer[k]
           t == toClient[k]
<1>1. Reply(c, "LIST_REPLY", FALSE, "IS_MAIN", "data", "IS_MAIN") /\ Same
  BY DEF ListReply
<1>2. y.want = "LIST_REPLY" /\ y.state = "IS_MAIN"
  BY <1>1, WantsInMain DEF Reply
<1>3. /\ TypeInv /\ k \in Conns /\ y \in ClientStates /\ w \in WorkerStates /\ t \in Seq(Units)
      /\ c \in NoDir => Stray(k, y, t)
      /\ c \notin NoDir => Answers(y, t) /\ (serving => Step(y, w, s, t))
  BY <1>2, MainFacts
<1>4. c \notin NoDir /\ t # <<>> =>
        Len(t) = 2 /\ t[1].type = "LIST_REPLY" /\ t[1].size = 1 /\ InPlace(t[2], 1)
  BY <1>2, <1>3 DEF Answers
<1>5. CASE t # <<>> /\ Head(t).type = "LIST_REPLY"
  <2>1. Len(t) \in Nat /\ Len(t) >= 1 /\ t[1] \in Units /\ Head(t) = t[1]
    BY <1>3, <1>5, TailOf
  <2>2. IsHeader(t[1])
    BY <1>5, <2>1 DEF IsHeader
  <2>3. t[1].size \in Nat
    BY <2>1, <2>2, HeaderSize
  <2> DEFINE x == [y EXCEPT !.want = "data", !.size = t[1].size, !.got = <<>>, !.last = 0]
  <2>4. client' = [client EXCEPT ![c] = x] /\ toClient' = [toClient EXCEPT ![k] = Tail(@)]
    <3>1. Accepted(c, FALSE)
      BY <1>2, <1>5 DEF Accepted, Arrived
    <3>2. client' = [client EXCEPT ![c] = [@ EXCEPT !.state = "IS_MAIN", !.want = "data",
                                                   !.size = Head(t).size, !.got = <<>>, !.last = 0]]
      BY <1>1, <3>1 DEF Reply, Arrived
    <3>3. toClient' = [toClient EXCEPT ![k] = IF @ = <<>> THEN @ ELSE Tail(@)]
      BY <1>1 DEF Reply
    <3> QED
      BY <1>2, <1>3, <1>5, <2>1, <3>2, <3>3 DEF TypeInv, ClientStates
  <2>5. x.want = "data" /\ x.size = t[1].size /\ x.got = <<>>
    BY <1>3 DEF ClientStates
  <2>6. c \in NoDir => t[1].size = 1 /\ Len(t) >= 2 /\ t[2].type = "payload"
    <3>1. 1 \in 1 .. Len(t) /\ 1 + 1 = 2
      BY <2>1
    <3> QED
      BY <1>3, <1>5, <2>1, <3>1 DEF Stray, Listings
  <2>7. c \notin NoDir => Answers(x, Tail(t))
    <3> SUFFICES ASSUME c \notin NoDir PROVE Answers(x, Tail(t))
      OBVIOUS
    <3>1. Len(Tail(t)) = 1 /\ Tail(t)[1] = t[2] /\ InPlace(t[2], 1) /\ x.size = 1 /\ Len(x.got) = 0
      <4>1. 1 \in 1 .. Len(t) - 1 /\ 1 + 1 = 2 /\ Len(t) - 1 = 1
        BY <1>4, <1>5
      <4>2. Len(x.got) = 0
        BY <2>5, NoUnits, Zenon
      <4> QED
        BY <1>3, <1>4, <1>5, <2>5, <4>1, <4>2, TailOf
    <3> HIDE DEF x, t
    <3> QED
      BY <2>5, <3>1, ListArrives
  <2>8. c \notin NoDir /\ serving /\ Serves(w) => Uploads(x, w, s, Tail(t)) /\ Downloads(x, w, Tail(t))
    <3> SUFFICES ASSUME c \notin NoDir, serving, Serves(w)
                 PROVE  Uploads(x, w, s, Tail(t)) /\ Downloads(x, w, Tail(t))
      OBVIOUS
    <3>1. Uploads(y, w, s, t) /\ Downloads(y, w, t)
      BY <1>3 DEF Step
    <3> HIDE DEF x, y, w, s, t
    <3>2. Uploads(x, w, s, Tail(t))
      BY <1>2, <2>5, <3>1 DEF Uploads, Put
    <3>3. Downloads(x, w, Tail(t))
      BY <1>2, <3>1 DEF Downloads
    <3> QED
      BY <3>2, <3>3
  <2>9. "data" \in Follow /\ Same /\ t # <<>>
    BY <1>1, <1>2, <1>5 DEF Follow
  <2> QED
    BY <1>2, <2>3, <2>4, <2>6, <2>7, <2>8, <2>9, Granted
<1>6. CASE ~ (t # <<>> /\ Head(t).type = "LIST_REPLY")
  <2>1. /\ client' = [client EXCEPT ![c] = AtPrompt(y, "IS_MAIN")]
        /\ toClient' = [toClient EXCEPT ![k] = IF @ = <<>> THEN @ ELSE Tail(@)]
        /\ t # <<>> \/ ~ serving \/ w.at = "closed"
    <3>1. ~ Accepted(c, FALSE)
      BY <1>2, <1>6 DEF Accepted, Arrived
    <3> QED
      BY <1>1, <3>1 DEF Reply, Closed, Arrived
  <2>2. c \notin NoDir => t = <<>>
    BY <1>3, <1>4, <1>6, TailOf
  <2> QED
    BY <1>1, <1>2, <2>1, <2>2, Refused
<1> QED
  BY <1>5, <1>6

LEMMA GetReplied ==
    ASSUME FtpInv, NEW c \in Clients, GetReply(c)
    PROVE  FtpInv'
<1> DEFINE k == client[c].fd
           y == client[c]
           w == worker[k]
           s == toServer[k]
           t == toClient[k]
<1>1. Reply(c, "GET_REPLY", TRUE, "IS_MAIN", "FILE_DATA", "IS_MAIN") /\ Same
  BY DEF GetReply
<1>2. y.want = "GET_REPLY" /\ y.state = "IS_MAIN"
  BY <1>1, WantsInMain DEF Reply
<1>3. /\ TypeInv /\ k \in Conns /\ y \in ClientStates /\ w \in WorkerStates /\ t \in Seq(Units)
      /\ c \notin NoDir => Answers(y, t) /\ (serving => Step(y, w, s, t))
  BY <1>2, MainFacts
<1>4. c \notin NoDir =>
        \/ t = <<>>
        \/ OneHeader(t, "GET_REPLY")
        \/ /\ Len(t) >= 2 /\ t[1].type = "GET_REPLY" /\ t[1].status
           /\ t[2].type = "FILE_DATA" /\ Begun(t, 2, t[2].size)
  BY <1>2, <1>3 DEF Answers
<1>5. t # <<>> => Len(t) \in Nat /\ Len(t) >= 1 /\ Head(t) = t[1]
  BY <1>3, TailOf
<1>6. CASE Accepted(c, TRUE)
  <2>1. t # <<>> /\ Head(t).type = "GET_REPLY" /\ Head(t).status
    BY <1>2, <1>6 DEF Accepted, Arrived
  <2> DEFINE x == [y EXCEPT !.want = "FILE_DATA", !.size = 0, !.got = <<>>, !.last = 0]
  <2>2. client' = [client EXCEPT ![c] = x] /\ toClient' = [toClient EXCEPT ![k] = Tail(@)]
    <3>1. client' = [client EXCEPT ![c] = [@ EXCEPT !.state = "IS_MAIN", !.want = "FILE_DATA",
                                                   !.size = 0, !.got = <<>>, !.last = 0]]
      BY <1>1, <1>6 DEF Reply, Arrived
    <3>2. toClient' = [toClient EXCEPT ![k] = IF @ = <<>> THEN @ ELSE Tail(@)]
      BY <1>1 DEF Reply
    <3> QED
      BY <1>2, <1>3, <2>1, <3>1, <3>2 DEF TypeInv, ClientStates
  <2>3. x.want = "FILE_DATA"
    BY <1>3 DEF ClientStates
  <2>4. c \notin NoDir /\ ~ OneHeader(t, "GET_REPLY") =>
          /\ Len(t) >= 2 /\ t[2].type = "FILE_DATA" /\ Begun(t, 2, t[2].size)
          /\ Tail(t) \in Seq(Units) /\ Len(Tail(t)) = Len(t) - 1 /\ Len(t) \in Nat
          /\ \A j \in 1 .. Len(t) - 1 : Tail(t)[j] = t[j + 1] /\ j + 1 \in 1 .. Len(t)
    BY <1>3, <1>4, <2>1, TailOf
  <2>5. ASSUME c \notin NoDir, ~ OneHeader(t, "GET_REPLY")
        PROVE  Tail(t)[1] = t[2] /\ t[2].size \in Nat /\ Len(Tail(t)) >= 1
    <3>1. 1 \in 1 .. Len(t) - 1 /\ 1 + 1 = 2 /\ 2 \in 1 .. Len(t) /\ Len(t) - 1 >= 1
      BY <2>4, <2>5
    <3>2. t[2] \in Units /\ IsHeader(t[2])
      BY <1>3, <2>4, <2>5, <3>1 DEF IsHeader
    <3> QED
      BY <2>4, <2>5, <3>1, <3>2, HeaderSize
  <2>6. c \notin NoDir => Answers(x, Tail(t))
    <3> SUFFICES ASSUME c \notin NoDir, Tail(t) # <<>> PROVE Answers(x, Tail(t))
      BY <2>3 DEF Answers
    <3>0. ~ OneHeader(t, "GET_REPLY")
      <4>1. Tail(t) \in Seq(Units) /\ Len(Tail(t)) = Len(t) - 1
        BY <1>3, <2>1, TailOf
      <4>2. ASSUME Len(t) = 1 PROVE Len(Tail(t)) = 0
        BY <4>1, <4>2
      <4> QED
        BY <4>1, <4>2, NoUnits DEF OneHeader
    <3> DEFINE u == Tail(t)
               n == t[2].size
    <3>1. Len(u) = Len(t) - 1 /\ Len(t) \in Nat /\ n \in Nat /\ Len(t) <= 2 + n
      BY <2>4, <2>5, <3>0 DEF Begun
    <3> HIDE DEF n
    <3>2. Len(u) <= 1 + n
      BY <3>1
    <3>3. ASSUME NEW j \in 1 .. Len(u), j > 1 PROVE InPlace(u[j], j - 1)
      <4>1. j + 1 \in 1 .. Len(t) /\ j + 1 > 2 /\ (j + 1) - 2 = j - 1 /\ j \in 1 .. Len(t) - 1
        BY <3>1, <3>3
      <4>2. u[j] = t[j + 1]
        BY <2>4, <3>0, <4>1
      <4>3. InPlace(t[j + 1], (j + 1) - 2)
        BY <2>4, <3>0, <4>1 DEF Begun
      <4> QED
        BY <4>1, <4>2, <4>3
    <3>4. Begun(u, 1, t[2].size)
      BY <3>2, <3>3 DEF Begun, n
    <3> QED
      BY <2>3, <2>4, <2>5, <3>0, <3>4 DEF Answers
  <2>7. c \notin NoDir /\ serving /\ Serves(w) => Uploads(x, w, s, Tail(t)) /\ Downloads(x, w, Tail(t))
    <3> SUFFICES ASSUME c \notin NoDir, serving, Serves(w)
                 PROVE  Uploads(x, w, s, Tail(t)) /\ Downloads(x, w, Tail(t))
      OBVIOUS
    <3>1. Uploads(y, w, s, t) /\ Downloads(y, w, t)
      BY <1>3 DEF Step
    <3>2. w.offset \in Nat
      BY <1>3 DEF WorkerStates
    <3>3. OneHeader(t, "GET_REPLY") \/
            (Len(Tail(t)) = Len(t) - 1 /\ Len(t) \in Nat /\ Tail(t)[1] = t[2])
      BY <2>4, <2>5
    <3> HIDE DEF x, y, w, s, t
    <3>4. Uploads(x, w, s, Tail(t))
      BY <1>2, <2>3, <3>1 DEF Uploads, Put
    <3>5. Len(t) = 2 + w.offset => Len(Tail(t)) = 1 + w.offset /\ Tail(t)[1] = t[2]
      BY <3>2, <3>3 DEF OneHeader
    <3>6. Downloads(x, w, Tail(t))
      BY <1>2, <2>3, <3>1, <3>5 DEF Downloads
    <3> QED
      BY <3>4, <3>6
  <2>8. "FILE_DATA" \in Follow /\ Same /\ t # <<>> /\ 0 \in Nat
    BY <1>1, <1>2, <2>1 DEF Follow
  <2> QED
    BY <1>2, <2>2, <2>6, <2>7, <2>8, Granted
<1>7. CASE ~ Accepted(c, TRUE)
  <2>1. /\ client' = [client EXCEPT ![c] = AtPrompt(y, "IS_MAIN")]
        /\ toClient' = [toClient EXCEPT ![k] = IF @ = <<>> THEN @ ELSE Tail(@)]
        /\ t # <<>> \/ ~ serving \/ w.at = "closed"
    BY <1>1, <1>7 DEF Reply, Closed, Arrived
  <2>2. c \notin NoDir /\ t # <<>> => Len(t) = 1
    BY <1>2, <1>4, <1>5, <1>7 DEF Accepted, Arrived, OneHeader
  <2> QED
    BY <1>1, <1>2, <2>1, <2>2, Refused
<1> QED
  BY <1>6, <1>7

LEMMA FileAnnounced ==
    ASSUME FtpInv, NEW c \in Clients, FileData(c)
    PROVE  FtpInv'
<1> DEFINE k == client[c].fd
           y == client[c]
           w == worker[k]
           s == toServer[k]
           t == toClient[k]
           then == IF c \in NoDir THEN "nothing" ELSE "data"
<1>1. Reply(c, "FILE_DATA", FALSE, "IS_MAIN", then, "IS_MAIN") /\ Same
  BY DEF FileData
<1> HIDE DEF then
<1>2. y.want = "FILE_DATA" /\ y.state = "IS_MAIN"
  BY <1>1, WantsInMain DEF Reply
<1>3. /\ TypeInv /\ k \in Conns /\ y \in ClientStates /\ w \in WorkerStates /\ t \in Seq(Units)
      /\ c \notin NoDir => Answers(y, t) /\ (serving => Step(y, w, s, t))
  BY <1>2, MainFacts
<1>4. c \notin NoDir /\ t # <<>> => Len(t) >= 1 /\ t[1].type = "FILE_DATA" /\ Begun(t, 1, t[1].size)
  BY <1>2, <1>3 DEF Answers
<1>5. t # <<>> => Len(t) \in Nat /\ Len(t) >= 1 /\ Head(t) = t[1] /\ t[1] \in Units
  BY <1>3, TailOf
<1>6. CASE Accepted(c, FALSE)
  <2>1. t # <<>> /\ t[1].type = "FILE_DATA"
    BY <1>2, <1>5, <1>6 DEF Accepted, Arrived
  <2>2. IsHeader(t[1])
    BY <2>1 DEF IsHeader
  <2>3. t[1].size \in Nat
    BY <1>5, <2>1, <2>2, HeaderSize
  <2> DEFINE n == IF then = "data" THEN t[1].size ELSE 0
             x == [y EXCEPT !.want = then, !.size = n, !.got = <<>>, !.last = 0]
  <2>4. client' = [client EXCEPT ![c] = x] /\ toClient' = [toClient EXCEPT ![k] = Tail(@)]
    <3>1. client' = [client EXCEPT ![c] = [@ EXCEPT !.state = "IS_MAIN", !.want = then,
                                                   !.size = n, !.got = <<>>, !.last = 0]]
      BY <1>1, <1>5, <1>6, <2>1 DEF Reply, Arrived
    <3>2. toClient' = [toClient EXCEPT ![k] = IF @ = <<>> THEN @ ELSE Tail(@)]
      BY <1>1 DEF Reply
    <3> QED
      BY <1>2, <1>3, <2>1, <3>1, <3>2 DEF TypeInv, ClientStates
  <2>5. x.want = then /\ x.size = n /\ x.got = <<>>
    BY <1>3 DEF ClientStates
  <2>6. n \in Nat
    BY <2>3
  <2>7. c \notin NoDir => then = "data" /\ n = t[1].size /\ Len(x.got) = 0
    BY <2>5, NoUnits, Zenon DEF then
  <2>8. c \notin NoDir => Answers(x, Tail(t))
    <3> SUFFICES ASSUME c \notin NoDir PROVE Answers(x, Tail(t))
      OBVIOUS
    <3> DEFINE u == Tail(t)
    <3>1. /\ u \in Seq(Units) /\ Len(u) = Len(t) - 1 /\ Len(t) \in Nat /\ Len(t) >= 1
          /\ \A j \in 1 .. Len(t) - 1 : u[j] = t[j + 1] /\ j + 1 \in 1 .. Len(t)
      BY <1>3, <2>1, TailOf
    <3>2. Len(t) <= 1 + n /\ x.want = "data" /\ x.size = n /\ Len(x.got) = 0
      BY <1>4, <2>1, <2>5, <2>7 DEF Begun
    <3>3. \A j \in 1 .. Len(t) : j > 1 => InPlace(t[j], j - 1)
      BY <1>4, <2>1 DEF Begun
    <3> HIDE DEF n, x, u, t
    <3>4. Len(x.got) + Len(u) <= x.size
      BY <2>6, <3>1, <3>2
    <3>5. ASSUME NEW j \in 1 .. Len(u) PROVE InPlace(u[j], Len(x.got) + j)
      <4>1. j + 1 \in 1 .. Len(t) /\ j + 1 > 1 /\ (j + 1) - 1 = Len(x.got) + j /\ j \in 1 .. Len(t) - 1
        BY <3>1, <3>2, <3>5
      <4>2. u[j] = t[j + 1]
        BY <3>1, <4>1
      <4>3. InPlace(t[j + 1], (j + 1) - 1)
        BY <3>3, <4>1
      <4> QED
        BY <4>1, <4>2, <4>3
    <3>6. Answers(x, u)
      BY <3>2, <3>4, <3>5 DEF Answers
    <3> QED
      BY <3>6 DEF u
  <2>9. c \notin NoDir /\ serving /\ Serves(w) => Uploads(x, w, s, Tail(t)) /\ Downloads(x, w, Tail(t))
    <3> SUFFICES ASSUME c \notin NoDir, serving, Serves(w)
                 PROVE  Uploads(x, w, s, Tail(t)) /\ Downloads(x, w, Tail(t))
      OBVIOUS
    <3>1. Uploads(y, w, s, t) /\ Downloads(y, w, t)
      BY <1>3 DEF Step
    <3>2. w.offset \in Nat
      BY <1>3 DEF WorkerStates
    <3>3. /\ Len(Tail(t)) = Len(t) - 1 /\ Len(t) \in Nat /\ x.want = "data" /\ x.size = t[1].size
          /\ Len(x.got) = 0
      BY <1>3, <2>1, <2>5, <2>7, TailOf
    <3> HIDE DEF x, y, w, s, t
    <3>4. Uploads(x, w, s, Tail(t))
      BY <1>2, <3>1, <3>3 DEF Uploads, Put
    <3>5. Len(t) = 1 + w.offset => Len(x.got) + Len(Tail(t)) = w.offset
      BY <3>2, <3>3
    <3>6. Downloads(x, w, Tail(t))
      BY <1>2, <3>1, <3>3, <3>5 DEF Downloads
    <3> QED
      BY <3>4, <3>6
  <2>10. then \in Follow /\ Same /\ ~ (c \in NoDir /\ then = "data")
    BY <1>1, <1>2 DEF Follow, then
  <2> HIDE DEF n
  <2> QED
    BY <1>2, <2>1, <2>4, <2>6, <2>8, <2>9, <2>10, Granted
<1>7. CASE ~ Accepted(c, FALSE)
  <2>1. /\ client' = [client EXCEPT ![c] = AtPrompt(y, "IS_MAIN")]
        /\ toClient' = [toClient EXCEPT ![k] = IF @ = <<>> THEN @ ELSE Tail(@)]
        /\ t # <<>> \/ ~ serving \/ w.at = "closed"
    BY <1>1, <1>7 DEF Reply, Closed, Arrived
  <2>2. c \in NoDir \/ t = <<>>
    BY <1>2, <1>4, <1>5, <1>7 DEF Accepted, Arrived
  <2> QED
    BY <1>1, <1>2, <2>1, <2>2, Refused
<1> QED
  BY <1>6, <1>7

LEMMA PutReplied ==
    ASSUME FtpInv, NEW c \in Clients, PutReply(c)
    PROVE  FtpInv'
<1> DEFINE k == client[c].fd
           y == client[c]
           w == worker[k]
           s == toServer[k]
           t == toClient[k]
<1>1. Reply(c, "PUT_REPLY", FALSE, "IS_MAIN", "header", "IS_MAIN") /\ Same
  BY DEF PutReply
<1>2. y.want = "PUT_REPLY" /\ y.state = "IS_MAIN"
  BY <1>1, WantsInMain DEF Reply
<1>3. /\ TypeInv /\ k \in Conns /\ y \in ClientStates /\ w \in WorkerStates /\ t \in Seq(Units)
      /\ c \notin NoDir => Answers(y, t) /\ (serving => Step(y, w, s, t))
  BY <1>2, MainFacts
<1>4. c \notin NoDir => t = <<>> \/ OneHeader(t, "PUT_REPLY")
  BY <1>2, <1>3 DEF Answers
<1>5. t # <<>> => Len(t) \in Nat /\ Len(t) >= 1 /\ Head(t) = t[1]
  BY <1>3, TailOf
<1>6. CASE Accepted(c, FALSE)
  <2>1. t # <<>> /\ Head(t).type = "PUT_REPLY"
    BY <1>2, <1>6 DEF Accepted, Arrived
  <2> DEFINE x == [y EXCEPT !.want = "header", !.size = 0, !.got = <<>>, !.last = 0]
  <2>2. client' = [client EXCEPT ![c] = x] /\ toClient' = [toClient EXCEPT ![k] = Tail(@)]
    <3>1. client' = [client EXCEPT ![c] = [@ EXCEPT !.state = "IS_MAIN", !.want = "header",
                                                   !.size = 0, !.got = <<>>, !.last = 0]]
      BY <1>1, <1>6 DEF Reply, Arrived
    <3>2. toClient' = [toClient EXCEPT ![k] = IF @ = <<>> THEN @ ELSE Tail(@)]
      BY <1>1 DEF Reply
    <3> QED
      BY <1>2, <1>3, <2>1, <3>1, <3>2 DEF TypeInv, ClientStates
  <2>3. x.want = "header"
    BY <1>3 DEF ClientStates
  <2>4. c \notin NoDir => Tail(t) = <<>>
    <3> SUFFICES ASSUME c \notin NoDir PROVE Tail(t) = <<>>
      OBVIOUS
    <3>1. Len(Tail(t)) = Len(t) - 1 /\ Tail(t) \in Seq(Units) /\ Len(t) = 1
      BY <1>3, <1>4, <2>1, TailOf DEF OneHeader
    <3>2. Len(Tail(t)) = 0
      BY ONLY <3>1
    <3> QED
      BY <3>1, <3>2, NoUnits, Zenon
  <2>5. c \notin NoDir => Answers(x, Tail(t))
    <3> HIDE DEF x, t
    <3> QED
      BY <2>3, <2>4 DEF Answers
  <2>6. c \notin NoDir /\ serving /\ Serves(w) => Uploads(x, w, s, Tail(t)) /\ Downloads(x, w, Tail(t))
    <3> SUFFICES ASSUME c \notin NoDir, serving, Serves(w)
                 PROVE  Uploads(x, w, s, Tail(t)) /\ Downloads(x, w, Tail(t))
      OBVIOUS
    <3>1. Uploads(y, w, s, t) /\ Downloads(y, w, t)
      BY <1>3 DEF Step
    <3> HIDE DEF x, y, w, s, t
    <3>2. w.at = "upload" /\ s = <<>>
      BY <1>2, <2>1, <3>1 DEF Uploads, Put
    <3> QED
      BY <2>3, <3>2 DEF Uploads, Downloads, Put
  <2>7. "header" \in Follow /\ Same /\ t # <<>> /\ 0 \in Nat
    BY <1>1, <1>2, <2>1 DEF Follow
  <2> QED
    BY <1>2, <2>2, <2>5, <2>6, <2>7, Granted
<1>7. CASE ~ Accepted(c, FALSE)
  <2>1. /\ client' = [client EXCEPT ![c] = AtPrompt(y, "IS_MAIN")]
        /\ toClient' = [toClient EXCEPT ![k] = IF @ = <<>> THEN @ ELSE Tail(@)]
        /\ t # <<>> \/ ~ serving \/ w.at = "closed"
    BY <1>1, <1>7 DEF Reply, Closed, Arrived
  <2>2. c \notin NoDir => t = <<>>
    BY <1>2, <1>4, <1>5, <1>7 DEF Accepted, Arrived, OneHeader
  <2> QED
    BY <1>1, <1>2, <2>1, <2>2, Refused
<1> QED
  BY <1>6, <1>7

LEMMA QuitReplied ==
    ASSUME FtpInv, NEW c \in Clients, QuitReply(c)
    PROVE  FtpInv'
<1> DEFINE k == client[c].fd
           y == client[c]
           w == worker[k]
           t == toClient[k]
<1>1. CASE client[c].want = "QUIT_REPLY" /\ Accepted(c, FALSE)
  BY <1>1, LeaveMoves DEF QuitReply
<1>2. CASE ~ (client[c].want = "QUIT_REPLY" /\ Accepted(c, FALSE))
  <2>1. Reply(c, "QUIT_REPLY", FALSE, "Gone", "nothing", "IS_MAIN") /\ Same
    BY <1>2 DEF QuitReply
  <2>2. y.want = "QUIT_REPLY" /\ y.state = "IS_MAIN" /\ ~ Accepted(c, FALSE)
    BY <1>2, <2>1, WantsInMain DEF Reply
  <2>3. t \in Seq(Units) /\ (c \notin NoDir => Answers(y, t))
    BY <2>2, MainFacts
  <2>4. /\ client' = [client EXCEPT ![c] = AtPrompt(y, "IS_MAIN")]
        /\ toClient' = [toClient EXCEPT ![k] = IF @ = <<>> THEN @ ELSE Tail(@)]
        /\ t # <<>> \/ ~ serving \/ w.at = "closed"
    BY <2>1, <2>2 DEF Reply, Closed, Arrived
  <2>5. c \notin NoDir => t = <<>>
    <3>1. t # <<>> => Head(t) = t[1]
      BY <2>3, TailOf
    <3> QED
      BY <2>2, <2>3, <3>1 DEF Answers, Accepted, Arrived, OneHeader
  <2> QED
    BY <2>1, <2>2, <2>4, <2>5, Refused
<1> QED
  BY <1>1, <1>2

\* Data that arrive in place, and those that stay.
LEMMA DataTaken ==
    ASSUME NEW got \in Seq(Units), NEW t \in Seq(Units), NEW n \in Nat, n <= Len(t),
           \A i \in 1 .. Len(got) : InPlace(got[i], i),
           \A j \in 1 .. n : InPlace(t[j], Len(got) + j)
    PROVE  LET g == got \o SubSeq(t, 1, n) IN
           /\ g \in Seq(Units) /\ Len(g) = Len(got) + n
           /\ \A i \in 1 .. Len(g) : InPlace(g[i], i)
<1> DEFINE p == SubSeq(t, 1, n)
           g == got \o p
<1>1. p \in Seq(Units) /\ Len(p) = n /\ \A j \in 1 .. n : p[j] = t[j]
  OBVIOUS
<1> HIDE DEF p
<1>2. /\ g \in Seq(Units) /\ Len(g) = Len(got) + n /\ Len(got) \in Nat
      /\ \A j \in 1 .. Len(got) : g[j] = got[j]
      /\ \A j \in 1 .. n : g[Len(got) + j] = p[j]
  <2>1. /\ g \in Seq(Units) /\ Len(g) = Len(got) + Len(p)
        /\ \A j \in 1 .. Len(got) : g[j] = got[j]
        /\ \A j \in 1 .. Len(p) : g[Len(got) + j] = p[j]
    <3>1. got \in Seq(Units) /\ p \in Seq(Units)
      BY <1>1
    <3> QED
      BY ONLY <3>1, JoinOf DEF g
  <2>2. Len(got) \in Nat
    OBVIOUS
  <2> HIDE DEF g
  <2> QED
    BY <1>1, <2>1, <2>2
<1> HIDE DEF g
<1>3. ASSUME NEW i \in 1 .. Len(g) PROVE InPlace(g[i], i)
  <2>1. CASE i \in 1 .. Len(got)
    BY <1>2, <2>1
  <2>2. CASE i > Len(got)
    <3>1. PICK j \in 1 .. n : i = Len(got) + j
      <4>1. i - Len(got) \in 1 .. n /\ i = Len(got) + (i - Len(got))
        BY <1>2, <2>2
      <4> QED
        BY <4>1
    <3>2. g[i] = t[j]
      BY <1>1, <1>2, <3>1
    <3> QED
      BY <3>1, <3>2
  <2> QED
    BY <1>2, <2>1, <2>2
<1> QED
  BY <1>2, <1>3 DEF g, p

LEMMA RestListings ==
    ASSUME NEW t \in Seq(Units), NEW n \in 0 .. Len(t), Listings(t)
    PROVE  Listings(Rest(t, n))
<1> DEFINE r == Rest(t, n)
<1>1. Len(r) = Len(t) - n /\ n \in Nat /\ Len(t) \in Nat
  BY RestOf
<1>2. \A j \in 1 .. Len(r) : r[j] = t[j + n] /\ j + n \in 1 .. Len(t)
  BY RestOf
<1> HIDE DEF r
<1> SUFFICES ASSUME NEW i \in 1 .. Len(r), r[i].type = "LIST_REPLY"
             PROVE  r[i].size = 1 /\ i + 1 <= Len(r) /\ r[i + 1].type = "payload"
  BY DEF Listings, r
<1>3. r[i] = t[i + n] /\ i + n \in 1 .. Len(t)
  BY <1>2
<1>4. t[i + n].size = 1 /\ (i + n) + 1 <= Len(t) /\ t[(i + n) + 1].type = "payload"
  BY <1>3 DEF Listings
<1>5. i + 1 \in 1 .. Len(r) /\ (i + 1) + n = (i + n) + 1
  BY <1>1, <1>4
<1> QED
  BY <1>1, <1>2, <1>3, <1>4, <1>5

LEMMA DataReceived ==
    ASSUME FtpInv, NEW c \in Clients, Receive(c)
    PROVE  FtpInv'
<1> DEFINE k == client[c].fd
           y == client[c]
           w == worker[k]
           s == toServer[k]
           t == toClient[k]
<1>1. y.want = "data" /\ y.state = "IS_MAIN" /\ Same
  BY WantsInMain DEF Receive
<1>2. /\ TypeInv /\ k \in Conns /\ y \in ClientStates /\ w \in WorkerStates /\ t \in Seq(Units)
      /\ s \in Seq(Units) /\ ClientInv(c)
      /\ serving => w.at \in Main /\ Sent(y, w, s)
      /\ c \in NoDir => Stray(k, y, t)
      /\ c \notin NoDir => Answers(y, t) /\ (serving => Step(y, w, s, t))
  BY <1>1, MainFacts
<1>3. PICK n \in 1 .. y.size - Len(y.got) :
        /\ n <= Len(t)
        /\ client' = [client EXCEPT ![c].got = @ \o SubSeq(t, 1, n), ![c].last = n]
        /\ toClient' = [toClient EXCEPT ![k] = SubSeq(@, n + 1, Len(@))]
  BY DEF Receive, Arrived
<1> DEFINE g == y.got \o SubSeq(t, 1, n)
           x == [y EXCEPT !.got = g, !.last = n]
           u == Rest(t, n)
<1>4. y.got \in Seq(Units) /\ y.size \in Nat /\ Len(y.got) \in Nat /\ y.name \in Names \cup {None}
  BY <1>2 DEF ClientStates
<1>5. n \in Nat /\ n >= 1 /\ Len(y.got) + n <= y.size /\ Len(t) \in Nat /\ n \in 0 .. Len(t)
  <2> HIDE DEF y, t
  <2>1. Len(t) \in Nat
    BY <1>2
  <2> QED
    BY <1>3, <1>4, <2>1
<1>6. \A i \in 1 .. Len(y.got) : InPlace(y.got[i], i)
  BY <1>2 DEF ClientInv
<1>7. \A j \in 1 .. n : InPlace(t[j], Len(y.got) + j)
  <2> SUFFICES ASSUME NEW j \in 1 .. n PROVE InPlace(t[j], Len(y.got) + j)
    OBVIOUS
  <2>1. CASE c \notin NoDir
    <3>1. j \in 1 .. Len(t)
      <4> HIDE DEF y, t
      <4> QED
        BY <1>5
    <3> QED
      BY <1>1, <1>2, <2>1, <3>1 DEF Answers
  <2>2. CASE c \in NoDir
    <3>1. y.size = 1 /\ (Len(y.got) = 0 => t[1].type = "payload")
      BY <1>1, <1>2, <2>2 DEF Stray
    <3> HIDE DEF y, t
    <3>2. Len(y.got) = 0 /\ j = 1 /\ Len(y.got) + j = 1
      BY <1>4, <1>5, <3>1
    <3>3. t[1].type = "payload"
      BY <3>1, <3>2
    <3>4. InPlace(t[1], 1)
      BY <3>3 DEF InPlace, IsHeader
    <3> QED
      BY <3>2, <3>4
  <2> QED
    BY <2>1, <2>2
<1>8. g \in Seq(Units) /\ Len(g) = Len(y.got) + n /\ \A i \in 1 .. Len(g) : InPlace(g[i], i)
  <2> HIDE DEF y, t
  <2> QED
    BY <1>2, <1>4, <1>5, <1>6, <1>7, DataTaken
<1>9. /\ u \in Seq(Units) /\ Len(u) = Len(t) - n
      /\ \A j \in 1 .. Len(t) - n : u[j] = t[j + n] /\ j + n \in 1 .. Len(t)
  <2> HIDE DEF y, t
  <2> QED
    BY <1>2, <1>5, RestOf
<1> HIDE DEF g
<1>10. /\ x \in ClientStates /\ x.want = "data" /\ x.state = "IS_MAIN" /\ x.fd = k /\ x.size = y.size
       /\ x.got = g
  BY <1>1, <1>2, <1>5, <1>8 DEF ClientStates
<1>11. /\ client' = [client EXCEPT ![c] = x] /\ toClient' = [toClient EXCEPT ![k] = u]
       /\ toServer' = [toServer EXCEPT ![k] = s]
       /\ UNCHANGED <<owner, worker, file, serving, reset>>
  <2>1. client' = [client EXCEPT ![c] = x]
    BY <1>2, <1>3 DEF TypeInv, ClientStates, g
  <2>2. toClient' = [toClient EXCEPT ![k] = u]
    BY <1>2, <1>3 DEF TypeInv, Rest
  <2>3. toServer' = [toServer EXCEPT ![k] = s]
    BY <1>1, <1>2 DEF TypeInv, Same
  <2> QED
    BY <1>1, <2>1, <2>2, <2>3 DEF Same
<1>12. FtpInv /\ c \in Clients /\ k = client[c].fd /\ client[c].state = "IS_MAIN" /\ worker[k] = w
  BY <1>1
<1> HIDE DEF y, w, s, t, x, u, k
<1>13. Len(x.got) <= x.size /\ \A i \in 1 .. Len(x.got) : InPlace(x.got[i], i)
  BY <1>5, <1>8, <1>10
<1>14. serving => Sent(x, w, s)
  BY <1>1, <1>2, <1>10 DEF Sent
<1>15. c \in NoDir => Stray(k, x, u)
  <2> SUFFICES ASSUME c \in NoDir PROVE Stray(k, x, u)
    OBVIOUS
  <2>1. (Listings(t) /\ y.size = 1) \/ y.fd # k
    BY <1>1, <1>2 DEF Stray
  <2>2. y.fd = k
    BY DEF k, y
  <2>3. Listings(u)
    BY <1>2, <1>5, <2>1, <2>2, RestListings DEF u
  <2>4. Len(x.got) # 0
    BY <1>4, <1>5, <1>8, <1>10
  <2> QED
    BY <1>10, <2>1, <2>2, <2>3, <2>4 DEF Stray
<1>16. c \notin NoDir => Answers(x, u)
  <2> SUFFICES ASSUME c \notin NoDir PROVE Answers(x, u)
    OBVIOUS
  <2>1. /\ Len(y.got) + Len(t) <= y.size
        /\ \A j \in 1 .. Len(t) : InPlace(t[j], Len(y.got) + j)
    BY <1>1, <1>2 DEF Answers
  <2>2. Len(x.got) + Len(u) <= x.size
    <3>1. Len(x.got) = Len(y.got) + n /\ Len(u) = Len(t) - n /\ x.size = y.size
      BY <1>8, <1>9, <1>10
    <3>2. Len(y.got) \in Nat /\ Len(t) \in Nat /\ n \in Nat
      BY <1>4, <1>5
    <3>3. Len(y.got) + Len(t) <= y.size
      BY <2>1
    <3>4. Len(x.got) + Len(u) = Len(y.got) + Len(t)
      BY ONLY <3>1, <3>2
    <3> QED
      BY <3>1, <3>3, <3>4
  <2>3. ASSUME NEW j \in 1 .. Len(u) PROVE InPlace(u[j], Len(x.got) + j)
    <3>1. j \in 1 .. Len(t) - n /\ j + n \in 1 .. Len(t)
      BY <1>9
    <3>2. Len(x.got) = Len(y.got) + n
      BY <1>8, <1>10
    <3>3. Len(y.got) + (j + n) = Len(x.got) + j
      <4>1. j \in Nat /\ n \in Nat /\ Len(y.got) \in Nat
        BY <1>4, <1>5
      <4>2. \A a \in Nat, b \in Nat, d \in Nat : a + (b + d) = (a + d) + b
        BY ONLY TRUE
      <4>3. Len(y.got) + (j + n) = (Len(y.got) + n) + j
        BY <4>1, <4>2, Zenon
      <4> QED
        BY <3>2, <4>3, Zenon
    <3>4. InPlace(t[j + n], Len(y.got) + (j + n)) /\ u[j] = t[j + n]
      BY <1>9, <2>1, <3>1
    <3> QED
      BY <3>3, <3>4
  <2> QED
    BY <1>10, <2>2, <2>3 DEF Answers
<1>17. c \notin NoDir /\ serving => Step(x, w, s, u)
  <2> SUFFICES ASSUME c \notin NoDir, serving, Serves(w) PROVE Step(x, w, s, u)
    BY DEF Step
  <2>1. OneRequest(y, w, s, t) /\ Uploads(y, w, s, t) /\ Downloads(y, w, t)
    BY <1>2 DEF Step
  <2>2. t # <<>>
    BY <1>5
  <2>3. OneRequest(x, w, s, u)
    BY <2>1, <2>2 DEF OneRequest
  <2>4. Uploads(x, w, s, u)
    BY <1>1, <1>10, <2>1 DEF Uploads, Put
  <2>5. Len(x.got) + Len(u) = Len(y.got) + Len(t)
    <3>1. Len(x.got) = Len(y.got) + n /\ Len(u) = Len(t) - n
      BY <1>8, <1>9, <1>10
    <3>2. Len(y.got) \in Nat /\ Len(t) \in Nat /\ n \in Nat
      BY <1>4, <1>5
    <3> QED
      BY ONLY <3>1, <3>2
  <2>6. Downloads(x, w, u)
    BY <1>1, <1>10, <2>1, <2>5 DEF Downloads
  <2> QED
    BY <2>3, <2>4, <2>6 DEF Step
<1>18. x.want \notin {"OPEN_CONN_REPLY", "AUTH_REPLY"} /\ (x.want = "header" => x.got = <<>>)
  BY <1>10
<1> QED
  BY ONLY <1>2, <1>9, <1>10, <1>11, <1>12, <1>13, <1>14, <1>15, <1>16, <1>17, <1>18, MainMoves

LEMMA PayloadReceived ==
    ASSUME FtpInv, NEW c \in Clients, Received(c)
    PROVE  FtpInv'
<1> DEFINE k == client[c].fd
           y == client[c]
           w == worker[k]
           s == toServer[k]
           t == toClient[k]
           x == [y EXCEPT !.want = "nothing"]
<1>1. /\ y.want = "data" /\ y.state = "IS_MAIN" /\ Len(y.got) = y.size
      /\ client' = [client EXCEPT ![c].want = "nothing"] /\ toClient' = toClient /\ Same
  BY WantsInMain DEF Received
<1>2. /\ TypeInv /\ k \in Conns /\ y \in ClientStates /\ w \in WorkerStates /\ t \in Seq(Units)
      /\ s \in Seq(Units) /\ ClientInv(c) /\ WorkerInv(k)
      /\ serving => w.at \in Main /\ Sent(y, w, s)
      /\ c \in NoDir => Stray(k, y, t)
      /\ c \notin NoDir => Answers(y, t) /\ (serving => Step(y, w, s, t))
  BY <1>1, MainFacts
<1>3. /\ x \in ClientStates /\ x.want = "nothing" /\ x.state = "IS_MAIN" /\ x.fd = k /\ x.size = y.size
      /\ x.got = y.got
  <2>1. "nothing" \in Waits
    BY DEF Waits
  <2> QED
    BY <1>1, <1>2, <2>1 DEF ClientStates
<1>4. /\ client' = [client EXCEPT ![c] = x] /\ toClient' = [toClient EXCEPT ![k] = t]
      /\ toServer' = [toServer EXCEPT ![k] = s]
      /\ UNCHANGED <<owner, worker, file, serving, reset>>
  BY <1>1, <1>2 DEF TypeInv, Same
<1>5. Len(x.got) <= x.size /\ \A i \in 1 .. Len(x.got) : InPlace(x.got[i], i)
  BY <1>2, <1>3 DEF ClientInv
<1>6. FtpInv /\ c \in Clients /\ k = client[c].fd /\ client[c].state = "IS_MAIN" /\ worker[k] = w
  BY <1>1
<1>7. w.at = "download" => w.size = 0 \/ w.offset < w.size
  BY <1>2 DEF WorkerInv
<1>8. y.got \in Seq(Units) /\ y.size \in Nat /\ w.size \in Nat /\ w.offset \in Nat
  BY <1>2 DEF ClientStates, WorkerStates
<1> HIDE DEF y, w, s, t, x, k
<1>9. Len(y.got) \in Nat /\ Len(t) \in Nat
  BY <1>2, <1>8
<1>10. serving => Sent(x, w, s)
  BY <1>1, <1>2, <1>3 DEF Sent
<1>11. c \in NoDir => Stray(k, x, t)
  BY <1>2, <1>3 DEF Stray
<1>12. c \notin NoDir => t = <<>>
  <2> SUFFICES ASSUME c \notin NoDir PROVE t = <<>>
    OBVIOUS
  <2>1. Len(y.got) + Len(t) <= y.size
    BY <1>1, <1>2 DEF Answers
  <2>2. Len(t) = 0
    BY <1>1, <1>8, <1>9, <2>1
  <2> QED
    BY <1>2, <2>2
<1>13. c \notin NoDir => Answers(x, t)
  BY <1>3, <1>12 DEF Answers
<1>14. c \notin NoDir /\ serving => Step(x, w, s, t)
  <2> SUFFICES ASSUME c \notin NoDir, serving, Serves(w) PROVE Step(x, w, s, t)
    BY DEF Step
  <2>1. OneRequest(y, w, s, t) /\ Uploads(y, w, s, t) /\ Downloads(y, w, t)
    BY <1>2 DEF Step
  <2>2. OneRequest(x, w, s, t)
    BY <1>1, <2>1 DEF OneRequest, Answer
  <2>3. Uploads(x, w, s, t)
    BY <1>1, <1>3, <2>1 DEF Uploads, Put
  <2>4. Downloads(x, w, t)
    <3>1. ASSUME w.at = "download", w.size > 0 PROVE FALSE
      <4>1. Len(y.got) + Len(t) = w.offset /\ y.size = w.size /\ w.offset < w.size
        BY <1>1, <1>7, <1>8, <2>1, <3>1 DEF Downloads
      <4> QED
        BY <1>1, <1>8, <1>9, <4>1
    <3> QED
      BY <3>1 DEF Downloads
  <2> QED
    BY <2>2, <2>3, <2>4 DEF Step
<1>15. x.want \notin {"OPEN_CONN_REPLY", "AUTH_REPLY"} /\ (x.want = "header" => x.got = <<>>)
  BY <1>3
<1> QED
  BY ONLY <1>2, <1>3, <1>4, <1>5, <1>6, <1>10, <1>11, <1>13, <1>14, <1>15, MainMoves
-----------------------------------------------------------------------------
(* What an authenticated client sends *)

LEMMA Owing ==
    ASSUME FtpInv, NEW k \in Conns
    PROVE  /\ Owed(worker[k]) \in Nat /\ Offset(worker[k]) \in Nat
           /\ worker[k].at # "blocks" => Owed(worker[k]) = 0 /\ Offset(worker[k]) = 0
<1>1. worker[k] \in WorkerStates /\ WorkerInv(k)
  BY DEF FtpInv, TypeInv
<1>2. worker[k].size \in Nat /\ worker[k].offset \in Nat
  BY <1>1 DEF WorkerStates
<1>3. worker[k].at = "blocks" => worker[k].offset < worker[k].size
  BY <1>1 DEF WorkerInv
<1> QED
  BY <1>2, <1>3 DEF Owed, Offset

LEMMA AppendLoaded ==
    ASSUME NEW s \in Seq(Units), NEW h \in Units, h.type = "FILE_DATA", Loaded(s)
    PROVE  Loaded(Append(s, h))
<1>1. <<h>> \in Seq(Units) /\ Len(<<h>>) = 1 /\ <<h>>[1] = h /\ s \o <<h>> = Append(s, h)
  OBVIOUS
<1>2. Loaded(<<h>>)
  BY <1>1 DEF Loaded
<1> QED
  BY <1>1, <1>2, JoinLoaded

LEMMA FileUnits ==
    ASSUME NEW c \in Clients, NEW n \in Nat
    PROVE  LET p == [i \in 1 .. n |-> FileUnit(c, i)] IN
           /\ p \in Seq(Units) /\ Len(p) = n
           /\ \A i \in 1 .. Len(p) : p[i] = FileUnit(c, i) /\ InPlace(p[i], i) /\ p[i].type = "file"
<1> DEFINE p == [i \in 1 .. n |-> FileUnit(c, i)]
<1>1. \A i \in 1 .. n : FileUnit(c, i) \in Units
  BY FileUnitUnit
<1>2. p \in Seq(Units) /\ Len(p) = n /\ \A i \in 1 .. Len(p) : p[i] = FileUnit(c, i)
  BY <1>1
<1>3. \A i \in 1 .. n : InPlace(FileUnit(c, i), i) /\ FileUnit(c, i).type = "file"
  BY FtpAssumption, FileUnitUnit DEF InPlace
<1> HIDE DEF p
<1> QED
  BY <1>2, <1>3 DEF p

\* The header and the file that is being sent after it.
LEMMA HeaderSent ==
    ASSUME FtpInv, NEW c \in Clients, UploadHeader(c)
    PROVE  FtpInv'
<1> DEFINE k == client[c].fd
           y == client[c]
           w == worker[k]
           s == toServer[k]
           t == toClient[k]
<1>1. PICK n \in 0 .. MaxLength :
        /\ y.want = "header"
        /\ toServer' = [toServer EXCEPT ![k] = @ \o <<Header("FILE_DATA", TRUE, n)>>
                                                 \o [i \in 1 .. n |-> FileUnit(c, i)]]
        /\ client' = [client EXCEPT ![c] = IF n = 0 THEN AtPrompt(y, y.state)
                                           ELSE [y EXCEPT !.want = "sending", !.unsent = n]]
        /\ UNCHANGED <<local, owner, toClient, worker, file, serving, reset>>
  <2>1. client \in [Clients -> ClientStates]
    BY DEF FtpInv, TypeInv
  <2> QED
    BY <2>1 DEF UploadHeader
<1>2. y.state = "IS_MAIN"
  BY <1>1, WantsInMain
<1>3. /\ TypeInv /\ k \in Conns /\ y \in ClientStates /\ w \in WorkerStates /\ t \in Seq(Units)
      /\ s \in Seq(Units) /\ ClientInv(c)
      /\ serving => w.at \in Main /\ Sent(y, w, s)
      /\ c \in NoDir => Stray(k, y, t)
      /\ c \notin NoDir => Answers(y, t) /\ (serving => Step(y, w, s, t))
  BY <1>2, MainFacts
<1>4. n \in Nat
  BY <1>1, FtpAssumption
<1> DEFINE h == Header("FILE_DATA", TRUE, n)
           p == [i \in 1 .. n |-> FileUnit(c, i)]
           x == IF n = 0 THEN AtPrompt(y, y.state) ELSE [y EXCEPT !.want = "sending", !.unsent = n]
           r == s \o <<h>> \o p
<1>5. h \in Units /\ IsHeader(h) /\ h.type = "FILE_DATA" /\ h.size = n
  <2>1. "FILE_DATA" \in Kinds /\ TRUE \in BOOLEAN
    BY DEF Kinds
  <2> QED
    BY <1>4, <2>1, HeaderUnit
<1>6. /\ p \in Seq(Units) /\ Len(p) = n
      /\ \A i \in 1 .. Len(p) : InPlace(p[i], i) /\ p[i].type = "file"
  BY <1>4, FileUnits
<1> HIDE DEF h, p
<1>7. y.got = <<>> /\ Len(y.got) <= y.size
  BY <1>1, <1>3 DEF ClientInv
<1>8. /\ x \in ClientStates /\ x.want \in {"nothing", "sending"} /\ x.state = "IS_MAIN" /\ x.fd = k
      /\ x.got = <<>> /\ Len(x.got) <= x.size
  <2>1. /\ "sending" \in Waits /\ "nothing" \in Waits /\ <<>> \in Seq(Units)
        /\ None \in Names \cup {None} /\ 0 \in Nat
    BY DEF Waits
  <2>2. CASE n = 0
    <3>1. /\ x \in ClientStates /\ x.want = "nothing" /\ x.state = "IS_MAIN" /\ x.fd = k
          /\ x.got = <<>> /\ x.size = 0
      BY <1>2, <1>3, <2>1, <2>2 DEF AtPrompt, ClientStates
    <3>2. Len(<<>>) <= 0
      OBVIOUS
    <3> HIDE DEF x
    <3> QED
      BY <3>1, <3>2, Zenon
  <2>3. CASE n # 0
    <3>1. /\ x \in ClientStates /\ x.want = "sending" /\ x.state = "IS_MAIN" /\ x.fd = k
          /\ x.got = y.got /\ x.size = y.size
      BY <1>2, <1>3, <1>4, <2>1, <2>3 DEF ClientStates
    <3> HIDE DEF x, y
    <3> QED
      BY <1>7, <3>1, Zenon
  <2> QED
    BY <2>2, <2>3
<1>9. /\ client' = [client EXCEPT ![c] = x] /\ toServer' = [toServer EXCEPT ![k] = r]
      /\ toClient' = [toClient EXCEPT ![k] = t]
      /\ UNCHANGED <<owner, worker, file, serving, reset>>
  <2>1. toServer' = [toServer EXCEPT ![k] = r]
    BY <1>1, <1>3 DEF TypeInv, h, p
  <2> QED
    BY <1>1, <1>3, <2>1 DEF TypeInv
<1>10. /\ FtpInv /\ c \in Clients /\ k = client[c].fd /\ client[c].state = "IS_MAIN" /\ worker[k] = w
       /\ y.want = "header" /\ y.state # "Gone"
  BY <1>1, <1>2
<1>11. /\ Owed(w) \in Nat /\ Offset(w) \in Nat
  BY <1>3, Owing
<1> HIDE DEF y, w, s, t, x, k
<1>12. \A i \in 1 .. Len(x.got) : InPlace(x.got[i], i)
  BY <1>8, NoUnits
<1> DEFINE q == Append(s, h)
<1>13. /\ q \in Seq(Units) /\ Len(q) = Len(s) + 1 /\ Len(s) \in Nat /\ q[Len(s) + 1] = h
       /\ \A i \in 1 .. Len(s) : q[i] = s[i]
       /\ r = q \o p
  BY <1>3, <1>5
<1>14. /\ r \in Seq(Units) /\ Len(r) = Len(s) + 1 + n
       /\ \A i \in 1 .. Len(s) + 1 : r[i] = q[i]
       /\ \A i \in 1 .. Len(p) : r[(Len(s) + 1) + i] = p[i]
  <2>1. q \in Seq(Units) /\ p \in Seq(Units)
    BY <1>6, <1>13
  <2>2. /\ q \o p \in Seq(Units) /\ Len(q \o p) = Len(q) + Len(p)
        /\ \A j \in 1 .. Len(q) : (q \o p)[j] = q[j]
        /\ \A j \in 1 .. Len(p) : (q \o p)[Len(q) + j] = p[j]
    BY ONLY <2>1, JoinOf
  <2> HIDE DEF q, r
  <2> QED
    BY <1>6, <1>13, <2>2
<1> HIDE DEF r, q
<1>15. serving => Sent(x, w, r)
  <2> SUFFICES ASSUME serving, Serves(w) PROVE Sent(x, w, r)
    BY DEF Sent
  <2>1. Framed(s, Owed(w), Offset(w)) /\ Loaded(s) /\ Lacks(s, Owed(w), Offset(w), 0)
    BY <1>3, <1>10 DEF Sent
  <2>2. Framed(q, Owed(w), Offset(w)) /\ Lacks(q, Owed(w), Offset(w), Len(p))
    BY <1>3, <1>5, <1>6, <1>11, <2>1, AppendHeader DEF q
  <2>3. Framed(r, Owed(w), Offset(w)) /\ Lacks(r, Owed(w), Offset(w), 0)
    BY <1>6, <1>11, <1>13, <2>2, AppendPayload
  <2>4. Loaded(q)
    BY <1>3, <1>5, <2>1, AppendLoaded DEF q
  <2>5. Loaded(p)
    BY <1>6 DEF Loaded
  <2>6. Loaded(r)
    BY <1>6, <1>13, <2>4, <2>5, JoinLoaded
  <2> QED
    BY <2>3, <2>6 DEF Sent
<1>16. c \in NoDir => Stray(k, x, t)
  BY <1>3, <1>8 DEF Stray
<1>17. c \notin NoDir => Answers(x, t)
  BY <1>3, <1>8, <1>10 DEF Answers
<1>18. c \notin NoDir /\ serving => Step(x, w, r, t)
  <2> SUFFICES ASSUME c \notin NoDir, serving, Serves(w) PROVE Step(x, w, r, t)
    BY DEF Step
  <2>1. Uploads(y, w, s, t)
    BY <1>3 DEF Step
  <2>2. w.at = "upload" /\ s = <<>>
    BY <1>10, <2>1 DEF Uploads, Put
  <2>3. Len(r) = 1 + n /\ r[1] = h /\ \A i \in 1 .. Len(p) : r[1 + i] = p[i]
    <3>1. Len(s) = 0
      BY <2>2, NoUnits
    <3>2. Len(s) + 1 = 1 /\ 1 \in 1 .. Len(s) + 1
      BY ONLY <3>1
    <3>3. r[1] = h
      BY <1>13, <1>14, <3>2
    <3>4. \A i \in 1 .. Len(p) : r[1 + i] = p[i]
      BY <1>14, <3>2
    <3>5. Len(r) = 1 + n
      BY <1>14, <3>2
    <3> QED
      BY <3>3, <3>4, <3>5
  <2>4. ASSUME NEW i \in 1 .. Len(r), IsHeader(r[i]) PROVE i = 1
    <3> SUFFICES ASSUME i # 1 PROVE FALSE
      OBVIOUS
    <3>1. i - 1 \in 1 .. Len(p) /\ 1 + (i - 1) = i
      BY <1>4, <1>6, <2>3
    <3>2. r[i] = p[i - 1]
      BY <2>3, <3>1
    <3> QED
      BY <1>6, <2>4, <3>1, <3>2 DEF InPlace
  <2>5. OneRequest(x, w, r, t)
    BY <1>5, <2>2, <2>3, <2>4 DEF OneRequest
  <2>6. Uploads(x, w, r, t)
    <3>1. r # <<>>
      BY <1>4, <2>3, NoUnits
    <3> QED
      BY <1>5, <1>8, <2>2, <2>3, <3>1 DEF Uploads, Put
  <2>7. Downloads(x, w, t)
    BY <2>2 DEF Downloads
  <2> QED
    BY <2>5, <2>6, <2>7 DEF Step
<1>19. x.want \notin {"OPEN_CONN_REPLY", "AUTH_REPLY"} /\ (x.want = "header" => x.got = <<>>)
  BY <1>8
<1> QED
  BY ONLY <1>3, <1>8, <1>9, <1>10, <1>12, <1>14, <1>15, <1>16, <1>17, <1>18, <1>19, MainMoves

\* More of what a client has begun to send is on its way: the streams are as they were.
LEMMA MoreSent ==
    ASSUME FtpInv, NEW c \in Clients, SendRest(c)
    PROVE  FtpInv'
<1> DEFINE y == client[c]
<1>1. PICK n \in 1 .. y.unsent :
        client' = [client EXCEPT ![c] =
            LET x == [y EXCEPT !.unsent = y.unsent - n] IN
            IF x.want = "sending" /\ x.unsent = 0 THEN AtPrompt(x, x.state) ELSE x]
  <2>1. client \in [Clients -> ClientStates]
    BY DEF FtpInv, TypeInv
  <2> QED
    BY <2>1 DEF SendRest
<1> DEFINE z == [y EXCEPT !.unsent = y.unsent - n]
           x == IF z.want = "sending" /\ z.unsent = 0 THEN AtPrompt(z, z.state) ELSE z
<1>2. /\ client' = [client EXCEPT ![c] = x] /\ ~ Gone(c) /\ toClient' = toClient
      /\ UNCHANGED <<owner, toServer, worker, file, serving, reset>>
  BY <1>1 DEF SendRest, Same
<1>3. /\ TypeInv /\ y \in ClientStates /\ ClientInv(c) /\ ArrivedInv(c) /\ y.unsent \in Nat
      /\ y.unsent > 0 => y.fd \in Conns
  BY DEF FtpInv, TypeInv, ClientStates, ClientInv
<1>4. y.unsent - n \in Nat /\ y.unsent > 0
  <2>1. y.unsent \in Nat
    BY <1>3
  <2> HIDE DEF y
  <2> QED
    BY <1>1, <2>1
<1>5. /\ z \in ClientStates /\ z.state = y.state /\ z.fd = y.fd /\ z.want = y.want /\ z.got = y.got
      /\ z.size = y.size /\ y.state # "Gone"
  BY <1>2, <1>3, <1>4 DEF ClientStates, Gone
<1>6. PICK k \in Conns : k = y.fd /\ owner[k] = c /\ k # 0
  BY <1>3, <1>4 DEF ClientInv, Conns
<1> DEFINE w == worker[k]
           s == toServer[k]
           t == toClient[k]
<1>7. CASE x = z
  <2>1. client'[c] = z
    BY <1>2, <1>3, <1>7 DEF TypeInv
  <2>2. TypeInv'
    <3>1. client' \in [Clients -> ClientStates]
      BY <1>2, <1>3, <1>5, <1>7 DEF TypeInv
    <3> QED
      BY <1>2, <1>3, <3>1 DEF TypeInv
  <2>3. Gone(c)' <=> Gone(c)
    BY <1>5, <2>1 DEF Gone
  <2> HIDE DEF z, x
  <2>4. ClientInv(c)'
    BY <1>2, <1>3, <1>5, <2>1 DEF ClientInv
  <2>5. ArrivedInv(c)'
    BY <1>2, <1>3, <1>5, <2>1, <2>3 DEF ArrivedInv, Answers
  <2>6. SentInv(k) /\ PhaseInv(k) /\ StrayInv(k) /\ StepInv(k)
    BY <1>6 DEF FtpInv
  <2>7. owner' = owner /\ worker' = worker /\ toServer' = toServer /\ toClient' = toClient
        /\ serving' = serving
    BY <1>2
  <2>8. SentInv(k)'
    BY <1>5, <1>6, <2>1, <2>6, <2>7 DEF SentInv, Sent
  <2>9. PhaseInv(k)'
    <3>1. serving => Phase(k, c, y, w, s, t)
      BY <1>6, <2>6 DEF PhaseInv
    <3> HIDE DEF y, w, s, t
    <3>2. serving => Phase(k, c, z, w, s, t)
      BY <1>5, <1>6, <3>1 DEF Phase, Opening, Authenticating, Authenticated
    <3> QED
      BY <1>6, <2>1, <2>7, <3>2 DEF PhaseInv, w, s, t
  <2>10. StrayInv(k)'
    BY <1>5, <1>6, <2>1, <2>3, <2>6, <2>7 DEF StrayInv, Stray
  <2>11. StepInv(k)'
    <3>1. serving /\ c \notin NoDir => Step(y, w, s, t)
      BY <1>2, <1>6, <2>6 DEF StepInv
    <3> HIDE DEF y, w, s, t
    <3>2. serving /\ c \notin NoDir => Step(z, w, s, t)
      BY <1>5, <3>1 DEF Step, OneRequest, Uploads, Put, Downloads
    <3> QED
      BY <1>6, <2>1, <2>7, <3>2 DEF StepInv, w, s, t
  <2>12. z.fd = k /\ z.state # "Gone" /\ client' = [client EXCEPT ![c] = z]
    BY <1>2, <1>5, <1>6, <1>7
  <2>13. client[c].fd = k
    BY <1>6
  <2> HIDE DEF y
  <2> QED
    BY <1>2, <1>6, <2>2, <2>4, <2>5, <2>8, <2>9, <2>10, <2>11, <2>12, <2>13, ClientMoves
<1>8. CASE x # z
  <2>1. x = AtPrompt(z, z.state) /\ y.want = "sending"
    BY <1>5, <1>8
  <2>2. y.state = "IS_MAIN"
    BY <2>1, WantsInMain
  <2>3. /\ w \in WorkerStates /\ s \in Seq(Units) /\ t \in Seq(Units)
        /\ serving => Sent(y, w, s)
        /\ c \in NoDir => Stray(k, y, t)
        /\ c \notin NoDir => Answers(y, t) /\ (serving => Step(y, w, s, t))
    BY <1>6, <2>2, MainFacts
  <2>4. /\ x \in ClientStates /\ x.want = "nothing" /\ x.state = "IS_MAIN" /\ x.fd = k /\ x.size = 0
        /\ x.got = <<>>
    <3>1. "nothing" \in Waits /\ <<>> \in Seq(Units) /\ None \in Names \cup {None} /\ 0 \in Nat
      BY DEF Waits
    <3> HIDE DEF z, x
    <3> QED
      BY <1>5, <1>6, <2>1, <2>2, <3>1 DEF AtPrompt, ClientStates
  <2>5. /\ client' = [client EXCEPT ![c] = x] /\ toServer' = [toServer EXCEPT ![k] = s]
        /\ toClient' = [toClient EXCEPT ![k] = t]
        /\ UNCHANGED <<owner, worker, file, serving, reset>>
    BY <1>2, <1>3 DEF TypeInv
  <2>6. client[c].state = "IS_MAIN" /\ worker[k] = w /\ k = client[c].fd
    BY <1>6, <2>2
  <2> HIDE DEF y, w, s, t, x, z
  <2>7. Len(x.got) <= x.size /\ \A i \in 1 .. Len(x.got) : InPlace(x.got[i], i)
    <3>1. Len(<<>>) <= 0 /\ \A i \in 1 .. Len(<<>>) : FALSE
      OBVIOUS
    <3> QED
      BY <2>4, <3>1, Zenon
  <2>8. serving => Sent(x, w, s)
    BY <2>2, <2>3 DEF Sent
  <2>9. c \in NoDir => Stray(k, x, t)
    BY <2>3, <2>4 DEF Stray
  <2>10. c \notin NoDir => Answers(x, t)
    BY <2>1, <2>3, <2>4 DEF Answers
  <2>11. c \notin NoDir /\ serving => Step(x, w, s, t)
    <3> SUFFICES ASSUME c \notin NoDir, serving, Serves(w) PROVE Step(x, w, s, t)
      BY DEF Step
    <3>1. OneRequest(y, w, s, t) /\ Uploads(y, w, s, t) /\ Downloads(y, w, t)
      BY <2>3 DEF Step
    <3>2. OneRequest(x, w, s, t)
      BY <2>1, <3>1 DEF OneRequest, Answer
    <3>3. Uploads(x, w, s, t)
      BY <2>1, <2>4, <3>1 DEF Uploads, Put
    <3>4. Downloads(x, w, t)
      BY <2>1, <3>1 DEF Downloads
    <3> QED
      BY <3>2, <3>3, <3>4 DEF Step
  <2>12. x.want \notin {"OPEN_CONN_REPLY", "AUTH_REPLY"} /\ (x.want = "header" => x.got = <<>>)
    BY <2>4
  <2>13. FtpInv /\ c \in Clients
    OBVIOUS
  <2> QED
    BY ONLY <1>6, <2>3, <2>4, <2>5, <2>6, <2>7, <2>8, <2>9, <2>10, <2>11, <2>12, <2>13, MainMoves
<1> QED
  BY <1>7, <1>8

LEMMA Commanded ==
    ASSUME FtpInv, NEW c \in Clients, NEW type \in Requests,
           NEW p, Carries(type, p),
           NEW name \in Names \cup {None}, Command(c, type, p, Answer(type), name)
    PROVE  FtpInv'
<1> DEFINE k == client[c].fd
           y == client[c]
           w == worker[k]
           s == toServer[k]
           t == toClient[k]
           want == Answer(type)
           x == [y EXCEPT !.want = want, !.name = name, !.left = @ - 1, !.unsent = Len(p)]
           r == s \o <<Header(type, TRUE, Len(p))>> \o p
<1>1. /\ y.want = "nothing" /\ y.state = "IS_MAIN" /\ y.left >= 1
      /\ toServer' = [toServer EXCEPT ![k] = @ \o <<Header(type, TRUE, Len(p))>> \o p]
      /\ client' = [client EXCEPT ![c].want = want, ![c].name = name, ![c].left = @ - 1,
                                 ![c].unsent = Len(p)]
      /\ UNCHANGED <<local, owner, toClient, worker, file, serving, reset>>
  BY DEF Command, Prompt, Request
<1>2. /\ TypeInv /\ k \in Conns /\ y \in ClientStates /\ w \in WorkerStates /\ t \in Seq(Units)
      /\ s \in Seq(Units) /\ ClientInv(c)
      /\ serving => w.at \in Main /\ Sent(y, w, s)
      /\ c \in NoDir => Stray(k, y, t)
      /\ c \notin NoDir => Answers(y, t) /\ (serving => Step(y, w, s, t))
  BY <1>1, MainFacts
<1>3. want \in {"LIST_REPLY", "GET_REPLY", "PUT_REPLY", "QUIT_REPLY"}
  BY DEF Requests, Answer
<1> HIDE DEF want
<1>4. /\ x \in ClientStates /\ x.want = want /\ x.state = "IS_MAIN" /\ x.fd = k /\ x.size = y.size
      /\ x.got = y.got
  <2>1. want \in Waits
    BY <1>3 DEF Waits
  <2>2. y.left \in Nat
    BY <1>2 DEF ClientStates
  <2>3. y.left - 1 \in Nat
    <3> HIDE DEF y
    <3> QED
      BY <1>1, <2>2
  <2>4. Len(p) \in Nat
    BY DEF Carries
  <2> QED
    BY <1>1, <1>2, <2>1, <2>3, <2>4 DEF ClientStates
<1>5. /\ client' = [client EXCEPT ![c] = x] /\ toServer' = [toServer EXCEPT ![k] = r]
      /\ toClient' = [toClient EXCEPT ![k] = t]
      /\ UNCHANGED <<owner, worker, file, serving, reset>>
  <2>1. client' = [client EXCEPT ![c] = x]
    BY <1>1, <1>2 DEF TypeInv, ClientStates
  <2>2. toServer' = [toServer EXCEPT ![k] = r] /\ toClient' = [toClient EXCEPT ![k] = t]
    BY <1>1, <1>2 DEF TypeInv
  <2> QED
    BY <1>1, <2>1, <2>2
<1>6. Len(x.got) <= x.size /\ \A i \in 1 .. Len(x.got) : InPlace(x.got[i], i)
  BY <1>2, <1>4 DEF ClientInv
<1>7. /\ FtpInv /\ c \in Clients /\ k = client[c].fd /\ client[c].state = "IS_MAIN" /\ worker[k] = w
  BY <1>1
<1>8. /\ Owed(w) \in Nat /\ Offset(w) \in Nat
  BY <1>2, Owing
<1> HIDE DEF y, w, s, t, x, k
<1>9. serving /\ Serves(w) =>
        /\ Framed(s, Owed(w), Offset(w)) /\ Lacks(s, Owed(w), Offset(w), 0) /\ Loaded(s)
  BY <1>1, <1>2 DEF Sent
<1>10. /\ r \in Seq(Units)
       /\ serving /\ Serves(w) =>
            /\ Framed(r, Owed(w), Offset(w)) /\ Lacks(r, Owed(w), Offset(w), 0) /\ Loaded(r)
            /\ RequestAdded(s, r, type)
  <2>1. r \in Seq(Units)
    <3>1. p \in Seq(Units)
      <4>1. CASE type \in {"GET_REQUEST", "PUT_REQUEST"}
        <5>1. PICK n \in Names : p = <<Payload(n)>>
          BY <4>1 DEF Carries
        <5>2. Payload(n) \in Units
          BY PayloadUnit DEF Things
        <5> QED
          BY <5>1, <5>2
      <4>2. CASE type \notin {"GET_REQUEST", "PUT_REQUEST"}
        BY <4>2, NoUnits DEF Carries
      <4> QED
        BY <4>1, <4>2
    <3>2. Header(type, TRUE, Len(p)) \in Units
      <4>1. type \in Kinds /\ TRUE \in BOOLEAN
        BY DEF Requests, Kinds
      <4>2. Len(p) \in Nat
        BY <3>1
      <4> QED
        BY <4>1, <4>2, HeaderUnit
    <3> DEFINE h == Header(type, TRUE, Len(p))
    <3> HIDE DEF h
    <3>3. h \in Units /\ r = s \o <<h>> \o p
      BY <3>2 DEF h
    <3> HIDE DEF r
    <3> QED
      BY <1>2, <3>1, <3>3
  <2>2. /\ type \in Requests /\ Carries(type, p)
        /\ s \in Seq(Units) /\ Owed(w) \in Nat /\ Offset(w) \in Nat
    BY <1>2, <1>8
  <2> SUFFICES ASSUME serving, Serves(w)
               PROVE  /\ Framed(r, Owed(w), Offset(w)) /\ Lacks(r, Owed(w), Offset(w), 0) /\ Loaded(r)
                      /\ RequestAdded(s, r, type)
    BY <2>1
  <2>3. Framed(s, Owed(w), Offset(w)) /\ Lacks(s, Owed(w), Offset(w), 0) /\ Loaded(s)
    BY <1>9
  <2> QED
    BY <2>2, <2>3, AppendRequest DEF r
<1> HIDE DEF r
<1>11. serving => Sent(x, w, r)
  BY <1>10 DEF Sent
<1>12. c \in NoDir => Stray(k, x, t)
  BY <1>2, <1>3, <1>4 DEF Stray
<1>13. c \notin NoDir => t = <<>>
  BY <1>1, <1>2 DEF Answers
<1>14. c \notin NoDir => Answers(x, t)
  BY <1>3, <1>4, <1>13 DEF Answers
<1>15. c \notin NoDir /\ serving => Step(x, w, r, t)
  <2> SUFFICES ASSUME c \notin NoDir, serving, Serves(w) PROVE Step(x, w, r, t)
    BY DEF Step
  <2>1. OneRequest(y, w, s, t) /\ Uploads(y, w, s, t) /\ Downloads(y, w, t)
    BY <1>2 DEF Step
  <2>2. type # "FILE_DATA"
    BY DEF Requests
  <2>3. ASSUME NEW i \in 1 .. Len(r), IsHeader(r[i])
        PROVE  IF r[i].type = "FILE_DATA" THEN i = 1 /\ w.at = "upload"
               ELSE x.want = Answer(r[i].type) /\ t = <<>> /\ i + r[i].size = Len(r)
    <3>1. CASE i \in 1 .. Len(s) /\ r[i] = s[i]
      BY <1>1, <2>1, <2>3, <3>1 DEF OneRequest, Answer
    <3>2. CASE r[i].type = type /\ i + r[i].size = Len(r)
      BY <1>4, <1>13, <2>2, <3>2 DEF want
    <3> QED
      BY <1>10, <2>3, <3>1, <3>2 DEF RequestAdded
  <2>4. OneRequest(x, w, r, t)
    BY <2>3 DEF OneRequest
  <2>5. Uploads(x, w, r, t)
    <3>1. w.at = "upload" => s # <<>> /\ s[1].type = "FILE_DATA"
      BY <1>1, <2>1 DEF Uploads, Put
    <3>2. s # <<>> => r # <<>> /\ r[1] = s[1]
      BY <1>10 DEF RequestAdded
    <3>3. ~ Put(x, t)
      BY <1>3, <1>4, <1>13 DEF Put
    <3> QED
      BY <3>1, <3>2, <3>3 DEF Uploads
  <2>6. Downloads(x, w, t)
    BY <1>1, <2>1 DEF Downloads
  <2> QED
    BY <2>4, <2>5, <2>6 DEF Step
<1>16. x.want \notin {"OPEN_CONN_REPLY", "AUTH_REPLY"} /\ (x.want = "header" => x.got = <<>>)
  BY <1>3, <1>4
<1> QED
  BY ONLY <1>2, <1>4, <1>5, <1>6, <1>7, <1>10, <1>11, <1>12, <1>14, <1>15, <1>16, MainMoves
-----------------------------------------------------------------------------
(* A client before it is authenticated *)

LEMMA EarlyFacts ==
    ASSUME FtpInv, NEW c \in Clients, ~ Gone(c), client[c].fd # 0
    PROVE  LET k == client[c].fd
               y == client[c]
               w == worker[k]
               s == toServer[k]
               t == toClient[k] IN
           /\ TypeInv /\ k \in Conns /\ owner[k] = c /\ c # None
           /\ y \in ClientStates /\ w \in WorkerStates /\ s \in Seq(Units) /\ t \in Seq(Units)
           /\ ClientInv(c)
           /\ serving => Phase(k, c, y, w, s, t) /\ Sent(y, w, s)
           /\ c \in NoDir => Stray(k, y, t)
           /\ c \notin NoDir => Answers(y, t) /\ (serving => Step(y, w, s, t))
<1> DEFINE k == client[c].fd
<1>1. TypeInv /\ ClientInv(c) /\ ArrivedInv(c) /\ c # None
  BY FtpAssumption DEF FtpInv
<1>2. client[c] \in ClientStates /\ k \in Conns /\ owner[k] = c
  BY <1>1 DEF TypeInv, ClientStates, ClientInv
<1>3. SentInv(k) /\ StrayInv(k) /\ StepInv(k) /\ PhaseInv(k)
  BY <1>2 DEF FtpInv
<1>4. serving => Sent(client[c], worker[k], toServer[k])
  BY <1>2, <1>3 DEF SentInv
<1>5. c \in NoDir => Stray(k, client[c], toClient[k])
  BY <1>2, <1>3 DEF StrayInv
<1>6. c \notin NoDir => Answers(client[c], toClient[k])
  BY <1>1 DEF ArrivedInv
<1>7. c \notin NoDir /\ serving => Step(client[c], worker[k], toServer[k], toClient[k])
  BY <1>2, <1>3 DEF StepInv
<1>8. serving => Phase(k, c, client[c], worker[k], toServer[k], toClient[k])
  BY <1>2, <1>3 DEF PhaseInv
<1>9. worker[k] \in WorkerStates /\ toServer[k] \in Seq(Units) /\ toClient[k] \in Seq(Units)
  BY <1>1, <1>2 DEF TypeInv
<1> QED
  BY <1>1, <1>2, <1>4, <1>5, <1>6, <1>7, <1>8, <1>9

LEMMA EarlyMoves ==
    ASSUME FtpInv, NEW c \in Clients, ~ Gone(c), client[c].fd # 0,
           NEW k, k = client[c].fd,
           NEW x \in ClientStates, client' = [client EXCEPT ![c] = x],
           x.fd = k, x.state # "Gone", x.want # "nothing" => x.state = StateFor(x.want),
           x.want # "header", x.got = <<>> \/ (x.got = client[c].got /\ x.size = client[c].size),
           NEW s \in Seq(Units), toServer' = [toServer EXCEPT ![k] = s],
           NEW t \in Seq(Units), toClient' = [toClient EXCEPT ![k] = t],
           UNCHANGED <<owner, worker, file, serving, reset>>,
           serving => Phase(k, c, x, worker[k], s, t) /\ Sent(x, worker[k], s),
           c \in NoDir => Stray(k, x, t),
           c \notin NoDir => Answers(x, t) /\ (serving => Step(x, worker[k], s, t))
    PROVE  FtpInv'
<1>1. TypeInv /\ k \in Conns /\ owner[k] = c /\ c # None /\ ClientInv(c)
  BY EarlyFacts
<1>2. /\ client'[c] = x /\ toServer'[k] = s /\ toClient'[k] = t
      /\ \A j \in Conns \ {k} : toServer'[j] = toServer[j] /\ toClient'[j] = toClient[j]
  BY <1>1 DEF TypeInv
<1>3. TypeInv'
  <2>1. client' \in [Clients -> ClientStates]
    BY <1>1 DEF TypeInv
  <2>2. toServer' \in [Conns -> Seq(Units)]
    BY <1>1 DEF TypeInv
  <2>3. toClient' \in [Conns -> Seq(Units)]
    BY <1>1 DEF TypeInv
  <2> QED
    BY <1>1, <2>1, <2>2, <2>3 DEF TypeInv
<1>4. ClientInv(c)'
  <2>1. x.fd # 0 /\ owner'[x.fd] = c
    BY <1>1 DEF Conns
  <2>2. Len(x.got) <= x.size /\ \A i \in 1 .. Len(x.got) : InPlace(x.got[i], i)
    <3>1. CASE x.got = client[c].got /\ x.size = client[c].size
      BY <1>1, <3>1 DEF ClientInv
    <3>2. CASE x.got = <<>>
      <4>1. x.size \in Nat
        BY DEF ClientStates
      <4>2. 0 <= x.size
        BY <4>1
      <4> QED
        BY <3>2, <4>2, NoUnits, Zenon
    <3> QED
      BY <3>1, <3>2
  <2> QED
    BY <1>2, <2>1, <2>2 DEF ClientInv
<1>5. ArrivedInv(c)'
  BY <1>2 DEF ArrivedInv
<1>6. SentInv(k)' /\ StrayInv(k)' /\ StepInv(k)'
  BY <1>1, <1>2 DEF SentInv, StrayInv, StepInv
<1>7. PhaseInv(k)'
  BY <1>1, <1>2 DEF PhaseInv
<1> QED
  BY <1>1, <1>2, <1>3, <1>4, <1>5, <1>6, <1>7, ClientMoves

\* One header, and nothing after it, is taken.
LEMMA TakesAll ==
    ASSUME NEW t \in Seq(Units), NEW type, t = <<>> \/ OneHeader(t, type)
    PROVE  (IF t = <<>> THEN t ELSE Tail(t)) = <<>>
<1>1. CASE t = <<>>
  BY <1>1
<1>2. CASE t # <<>>
  <2>1. Tail(t) \in Seq(Units) /\ Len(Tail(t)) = Len(t) - 1 /\ Len(t) = 1
    BY <1>2, TailOf DEF OneHeader
  <2>2. Len(Tail(t)) = 0
    BY ONLY <2>1
  <2> QED
    BY <1>2, <2>1, <2>2, NoUnits, Zenon
<1> QED
  BY <1>1, <1>2

\* The two replies before IS_MAIN: client state x after the reply.
Replied(c, x, want, good) ==
    LET k == client[c].fd
        y == client[c]
        t == toClient[k]
        u == IF t = <<>> THEN t ELSE Tail(t) IN
    /\ y.want = want /\ k # 0 /\ ~ Gone(c) /\ y.state = StateFor(want)
    /\ t # <<>> \/ ~ serving \/ worker[k].at = "closed"
    /\ client' = [client EXCEPT ![c] = x]
    /\ x.fd = k /\ x.want = "nothing" /\ x.got = <<>>
    /\ x.state = IF t # <<>> /\ t[1].type = want /\ t[1].status THEN good ELSE "IDLE"
    /\ toClient' = [toClient EXCEPT ![k] = u] /\ u \in Seq(Units)

LEMMA EarlyReply ==
    ASSUME FtpInv, NEW c \in Clients, NEW good \in {"IS_AUTH", "IS_MAIN"}, NEW want \in Waits,
           want \in {"OPEN_CONN_REPLY", "AUTH_REPLY"}, Reply(c, want, TRUE, good, "nothing", "IDLE")
    PROVE  \E x \in ClientStates : Replied(c, x, want, good)
<1> DEFINE k == client[c].fd
           y == client[c]
           t == toClient[k]
           yes == [y EXCEPT !.state = good, !.want = "nothing", !.size = 0, !.got = <<>>, !.last = 0]
           no == AtPrompt(y, "IDLE")
<1>1. y.want = want /\ y \in ClientStates /\ ClientInv(c) /\ TypeInv
  BY DEF Reply, FtpInv, TypeInv
<1>2. k # 0 /\ y.state = StateFor(want) /\ ~ Gone(c)
  BY <1>1 DEF ClientInv, StateFor, Gone
<1>3. k \in Conns /\ t \in Seq(Units)
  BY <1>1, <1>2 DEF ClientStates, TypeInv
<1>4. t # <<>> => Head(t) = t[1]
  BY <1>3, TailOf
<1>5. Accepted(c, TRUE) <=> t # <<>> /\ t[1].type = want /\ t[1].status
  BY <1>1, <1>4 DEF Accepted, Arrived
<1>6. client' = [client EXCEPT ![c] = IF Accepted(c, TRUE) THEN yes ELSE no]
  BY <1>1 DEF Reply, TypeInv
<1>8. "nothing" \in Waits /\ <<>> \in Seq(Units) /\ None \in Names \cup {None} /\ 0 \in Nat
  BY DEF Waits
<1>9. yes \in ClientStates /\ yes.fd = k /\ yes.want = "nothing" /\ yes.got = <<>> /\ yes.state = good
  BY <1>1, <1>8 DEF ClientStates
<1>10. no \in ClientStates /\ no.fd = k /\ no.want = "nothing" /\ no.got = <<>> /\ no.state = "IDLE"
  BY <1>1, <1>8 DEF ClientStates, AtPrompt
<1>11. /\ toClient' = [toClient EXCEPT ![k] = IF t = <<>> THEN t ELSE Tail(t)]
       /\ t # <<>> \/ ~ serving \/ worker[k].at = "closed"
  BY <1>1, <1>3 DEF Reply, Closed, Arrived, TypeInv
<1>12. (IF t = <<>> THEN t ELSE Tail(t)) \in Seq(Units)
  BY <1>3, TailOf
<1> HIDE DEF yes, no, k, y, t
<1> DEFINE x == IF t # <<>> /\ t[1].type = want /\ t[1].status THEN yes ELSE no
<1>13. /\ x \in ClientStates /\ client' = [client EXCEPT ![c] = x]
       /\ x.fd = k /\ x.want = "nothing" /\ x.got = <<>>
       /\ x.state = IF t # <<>> /\ t[1].type = want /\ t[1].status THEN good ELSE "IDLE"
  <2>1. CASE t # <<>> /\ t[1].type = want /\ t[1].status
    <3>1. x = yes /\ client' = [client EXCEPT ![c] = yes]
      BY <1>5, <1>6, <2>1, Zenon
    <3> HIDE DEF x
    <3> QED
      BY <1>9, <2>1, <3>1, Zenon
  <2>2. CASE ~ (t # <<>> /\ t[1].type = want /\ t[1].status)
    <3>1. x = no /\ client' = [client EXCEPT ![c] = no]
      BY <1>5, <1>6, <2>2, Zenon
    <3> HIDE DEF x
    <3> QED
      BY <1>10, <2>2, <3>1, Zenon
  <2> QED
    BY <2>1, <2>2
<1> HIDE DEF x
<1> QED
  BY <1>1, <1>2, <1>11, <1>12, <1>13, Zenon DEF k, y, t, Replied

LEMMA Opened ==
    ASSUME FtpInv, NEW c \in Clients, OpenReply(c)
    PROVE  FtpInv'
<1> DEFINE k == client[c].fd
           y == client[c]
           w == worker[k]
           s == toServer[k]
           t == toClient[k]
           u == IF t = <<>> THEN t ELSE Tail(t)
<1>0. PICK x \in ClientStates : Replied(c, x, "OPEN_CONN_REPLY", "IS_AUTH")
  <2>1. Reply(c, "OPEN_CONN_REPLY", TRUE, "IS_AUTH", "nothing", "IDLE") /\ "OPEN_CONN_REPLY" \in Waits
    BY DEF OpenReply, Waits
  <2> QED
    BY <2>1, EarlyReply
<1>1. /\ y.want = "OPEN_CONN_REPLY" /\ k # 0 /\ ~ Gone(c) /\ y.state = "IDLE"
      /\ t # <<>> \/ ~ serving \/ w.at = "closed"
      /\ x.fd = k /\ x.want = "nothing" /\ x.got = <<>>
  <2>1. y.state = StateFor("OPEN_CONN_REPLY")
    BY <1>0 DEF Replied
  <2> QED
    BY <1>0, <2>1 DEF Replied, StateFor
<1>a. x.state = IF t # <<>> /\ t[1].type = "OPEN_CONN_REPLY" /\ t[1].status THEN "IS_AUTH" ELSE "IDLE"
  BY <1>0, Zenon DEF Replied
<1>b. client' = [client EXCEPT ![c] = x] /\ toClient' = [toClient EXCEPT ![k] = u] /\ u \in Seq(Units)
  BY <1>0 DEF Replied
<1>2. /\ TypeInv /\ k \in Conns /\ w \in WorkerStates /\ c # None
      /\ s \in Seq(Units) /\ t \in Seq(Units)
      /\ serving => Phase(k, c, y, w, s, t)
      /\ c \in NoDir => Stray(k, y, t)
      /\ c \notin NoDir => Answers(y, t)
  BY <1>1, EarlyFacts
<1>3. toServer' = [toServer EXCEPT ![k] = s] /\ UNCHANGED <<owner, worker, file, serving, reset>>
  BY <1>2 DEF OpenReply, Same, TypeInv
<1>4. w.at \in Places
  BY <1>2 DEF WorkerStates
<1>5. c \in Clients /\ FtpInv /\ y.state # "Gone" /\ y.fd = k
  BY <1>1
<1> HIDE DEF y, w, s, t, k, u
<1>6. serving => w.at = "authentication" /\ s = <<>> /\ OneHeader(t, "OPEN_CONN_REPLY") /\ t[1].status
  <2> SUFFICES ASSUME serving
               PROVE  w.at = "authentication" /\ s = <<>> /\ OneHeader(t, "OPEN_CONN_REPLY") /\ t[1].status
    OBVIOUS
  <2>1. ~ Opening(k, y, s, t) \/ w.at = "closed"
    BY <1>1, <1>5 DEF Opening
  <2>2. ~ Authenticated(k, y, w, s, t)
    BY <1>1, <1>5 DEF Authenticated
  <2>3. w.at = "authentication" /\ Authenticating(k, y, s, t)
    BY <1>2, <1>4, <2>1, <2>2 DEF Phase, Places, Main
  <2> QED
    BY <1>1, <1>5, <2>3, Zenon DEF Authenticating
<1>7. c \notin NoDir \/ serving => u = <<>>
  <2>1. c \notin NoDir \/ serving => t = <<>> \/ OneHeader(t, "OPEN_CONN_REPLY")
    BY <1>1, <1>2, <1>6 DEF Answers
  <2> QED
    BY <1>2, <2>1, TakesAll DEF u
<1>8. serving => Phase(k, c, x, w, s, u)
  <2>1. x.state \in {"IDLE", "IS_AUTH"}
    BY <1>a
  <2> QED
    BY <1>1, <1>2, <1>6, <1>7, <2>1 DEF Phase, Authenticating, Main
<1>9. serving => Sent(x, w, s) /\ Step(x, w, s, u)
  BY <1>6 DEF Sent, Step, Serves, Main
<1>10. c \in NoDir => Stray(k, x, u)
  <2>1. c \in NoDir => Listings(u)
    BY <1>2, TailListings DEF Stray, u
  <2> QED
    BY <1>1, <2>1 DEF Stray
<1>11. c \notin NoDir => Answers(x, u)
  BY <1>1, <1>7 DEF Answers
<1>12. x.state # "Gone" /\ x.want # "header"
  BY <1>1, <1>a
<1>13. /\ worker[k] = w /\ k = client[c].fd /\ client[c].fd # 0 /\ ~ Gone(c)
       /\ x.fd = k /\ x.want = "nothing" /\ x.got = <<>> /\ x \in ClientStates
  BY <1>1 DEF w, k
<1>15. /\ x.want # "nothing" => x.state = StateFor(x.want)
       /\ x.got = <<>> \/ (x.got = client[c].got /\ x.size = client[c].size)
  BY <1>1
<1> QED
  BY ONLY <1>2, <1>3, <1>5, <1>8, <1>9, <1>10, <1>11, <1>12, <1>13, <1>15, <1>b, EarlyMoves

LEMMA Authorized ==
    ASSUME FtpInv, NEW c \in Clients, AuthReply(c)
    PROVE  FtpInv'
<1> DEFINE k == client[c].fd
           y == client[c]
           w == worker[k]
           s == toServer[k]
           t == toClient[k]
           u == IF t = <<>> THEN t ELSE Tail(t)
<1>0. PICK x \in ClientStates : Replied(c, x, "AUTH_REPLY", "IS_MAIN")
  <2>1. Reply(c, "AUTH_REPLY", TRUE, "IS_MAIN", "nothing", "IDLE") /\ "AUTH_REPLY" \in Waits
    BY DEF AuthReply, Waits
  <2> QED
    BY <2>1, EarlyReply
<1>1. /\ y.want = "AUTH_REPLY" /\ k # 0 /\ ~ Gone(c) /\ y.state = "IS_AUTH"
      /\ t # <<>> \/ ~ serving \/ w.at = "closed"
      /\ x.fd = k /\ x.want = "nothing" /\ x.got = <<>>
  <2>1. y.state = StateFor("AUTH_REPLY")
    BY <1>0 DEF Replied
  <2> QED
    BY <1>0, <2>1 DEF Replied, StateFor
<1>a. x.state = IF t # <<>> /\ t[1].type = "AUTH_REPLY" /\ t[1].status THEN "IS_MAIN" ELSE "IDLE"
  BY <1>0, Zenon DEF Replied
<1>b. client' = [client EXCEPT ![c] = x] /\ toClient' = [toClient EXCEPT ![k] = u] /\ u \in Seq(Units)
  BY <1>0 DEF Replied
<1>2. /\ TypeInv /\ k \in Conns /\ w \in WorkerStates /\ c # None
      /\ s \in Seq(Units) /\ t \in Seq(Units)
      /\ serving => Phase(k, c, y, w, s, t) /\ Sent(y, w, s)
      /\ c \in NoDir => Stray(k, y, t)
      /\ c \notin NoDir => Answers(y, t)
  BY <1>1, EarlyFacts
<1>3. toServer' = [toServer EXCEPT ![k] = s] /\ UNCHANGED <<owner, worker, file, serving, reset>>
  BY <1>2 DEF AuthReply, Same, TypeInv
<1>4. w.at \in Places
  BY <1>2 DEF WorkerStates
<1>5. c \in Clients /\ FtpInv /\ y.state # "Gone" /\ y.fd = k
  BY <1>1
<1> HIDE DEF y, w, s, t, k, u
<1>6. serving => /\ s = <<>> /\ OneHeader(t, "AUTH_REPLY")
                 /\ \/ w.at = "authentication" /\ ~ t[1].status
                    \/ w.at = "service" /\ t[1].status
  <2> SUFFICES ASSUME serving
               PROVE  /\ s = <<>> /\ OneHeader(t, "AUTH_REPLY")
                      /\ \/ w.at = "authentication" /\ ~ t[1].status
                         \/ w.at = "service" /\ t[1].status
    OBVIOUS
  <2>1. ~ Opening(k, y, s, t)
    BY <1>1, <1>5 DEF Opening
  <2>2. \/ w.at = "authentication" /\ Authenticating(k, y, s, t)
        \/ w.at \in Main /\ Authenticated(k, y, w, s, t)
    BY <1>2, <1>4, <2>1 DEF Phase, Places, Main
  <2>3. CASE w.at = "authentication" /\ Authenticating(k, y, s, t)
    <3>1. t # <<>>
      BY <1>1, <2>3
    <3>2. y.want # "OPEN_CONN_REPLY" /\ y.want # "nothing"
      BY <1>1
    <3> QED
      BY <1>1, <1>5, <2>3, <3>1, <3>2, Zenon DEF Authenticating
  <2>4. CASE w.at \in Main /\ Authenticated(k, y, w, s, t)
    <3>1. y.state # "IS_MAIN"
      BY <1>1
    <3> QED
      BY <1>5, <2>4, <3>1, Zenon DEF Authenticated
  <2> QED
    BY <2>2, <2>3, <2>4
<1>7. c \notin NoDir \/ serving => u = <<>>
  <2>1. c \notin NoDir \/ serving => t = <<>> \/ OneHeader(t, "AUTH_REPLY")
    BY <1>1, <1>2, <1>6 DEF Answers
  <2> QED
    BY <1>2, <2>1, TakesAll DEF u
<1>8. serving => Phase(k, c, x, w, s, u)
  <2> SUFFICES ASSUME serving PROVE Phase(k, c, x, w, s, u)
    OBVIOUS
  <2>1. t # <<>> /\ t[1].type = "AUTH_REPLY"
    <3>1. OneHeader(t, "AUTH_REPLY")
      BY <1>6, Zenon
    <3> QED
      BY ONLY <3>1, NoUnits DEF OneHeader
  <2>2. CASE w.at = "authentication" /\ ~ t[1].status
    <3>1. x.state = "IDLE"
      BY <1>a, <2>2, Zenon
    <3> QED
      BY <1>1, <1>2, <1>6, <1>7, <2>2, <3>1 DEF Phase, Authenticating, Main
  <2>3. CASE w.at = "service" /\ t[1].status
    <3>1. x.state = "IS_MAIN"
      BY <1>a, <2>1, <2>3, Zenon
    <3> QED
      BY <1>1, <1>2, <2>3, <3>1 DEF Phase, Authenticated, Main
  <2> QED
    BY <1>6, <2>2, <2>3
<1>9. serving => Sent(x, w, s)
  BY <1>2, <1>5 DEF Sent
<1>10. serving => Step(x, w, s, u)
  <2>1. serving => OneRequest(x, w, s, u)
    BY <1>6, NoUnits, Zenon DEF OneRequest
  <2>2. serving => Uploads(x, w, s, u) /\ Downloads(x, w, u)
    BY <1>1, <1>6 DEF Uploads, Put, Downloads
  <2> QED
    BY <2>1, <2>2 DEF Step
<1>11. c \in NoDir => Stray(k, x, u)
  <2>1. c \in NoDir => Listings(u)
    BY <1>2, TailListings DEF Stray, u
  <2> QED
    BY <1>1, <2>1 DEF Stray
<1>12. c \notin NoDir => Answers(x, u)
  BY <1>1, <1>7 DEF Answers
<1>13. x.state # "Gone" /\ x.want # "header"
  BY <1>1, <1>a
<1>14. /\ worker[k] = w /\ k = client[c].fd /\ client[c].fd # 0 /\ ~ Gone(c)
       /\ x.fd = k /\ x.want = "nothing" /\ x.got = <<>> /\ x \in ClientStates
  BY <1>1 DEF w, k
<1>15. /\ x.want # "nothing" => x.state = StateFor(x.want)
       /\ x.got = <<>> \/ (x.got = client[c].got /\ x.size = client[c].size)
  BY <1>1
<1> QED
  BY ONLY <1>2, <1>3, <1>5, <1>8, <1>9, <1>10, <1>11, <1>12, <1>13, <1>14, <1>15, <1>b, EarlyMoves

LEMMA TwoUnits ==
    ASSUME NEW h \in Units, NEW p \in Units
    PROVE  LET q == <<>> \o <<h>> \o <<p>> IN
           q \in Seq(Units) /\ Len(q) = 2 /\ q[1] = h /\ q[2] = p /\ q # <<>>
<1> DEFINE r == <<>> \o <<h>>
           z == <<p>>
           q == r \o z
<1>1. <<h>> \in Seq(Units) /\ Len(<<h>>) = 1 /\ <<h>>[1] = h
  OBVIOUS
<1>2. r = <<h>>
  BY <1>1
<1>3. z \in Seq(Units) /\ Len(z) = 1 /\ z[1] = p
  OBVIOUS
<1> HIDE DEF r, z
<1>4. r \in Seq(Units) /\ Len(r) = 1 /\ r[1] = h
  BY <1>1, <1>2
<1>5. /\ q \in Seq(Units) /\ Len(q) = Len(r) + Len(z)
      /\ \A j \in 1 .. Len(r) : q[j] = r[j]
      /\ \A j \in 1 .. Len(z) : q[Len(r) + j] = z[j]
  BY ONLY <1>3, <1>4, JoinOf
<1> HIDE DEF q
<1>6. 1 \in 1 .. Len(r) /\ 1 \in 1 .. Len(z) /\ Len(r) + 1 = 2 /\ Len(r) + Len(z) = 2
  BY <1>3, <1>4
<1>7. Len(q) = 2 /\ q[1] = h /\ q[2] = p
  BY <1>3, <1>4, <1>5, <1>6
<1>8. q # <<>>
  BY <1>7, NoUnits
<1> QED
  BY <1>5, <1>7, <1>8 DEF q, r, z

LEMMA AuthRequested ==
    ASSUME FtpInv, serving, NEW c \in Clients, auth_conn(c)
    PROVE  FtpInv'
<1> DEFINE k == client[c].fd
           y == client[c]
           w == worker[k]
           s == toServer[k]
           t == toClient[k]
<1>1. PICK right \in BOOLEAN :
        /\ y.want = "nothing" /\ y.state = "IS_AUTH"
        /\ toServer' = [toServer EXCEPT ![k] =
                            @ \o <<Header("AUTH_REQUEST", TRUE, Len(<<Payload(right)>>))>>
                              \o <<Payload(right)>>]
        /\ client' = [client EXCEPT ![c].want = "AUTH_REPLY", ![c].name = None, ![c].left = @ - 0,
                                 ![c].unsent = Len(<<Payload(right)>>)]
        /\ UNCHANGED <<local, owner, toClient, worker, file, serving, reset>>
  BY DEF auth_conn, Prompt, Request
<1> DEFINE h == Header("AUTH_REQUEST", TRUE, 1)
           p == Payload(right)
           q == <<>> \o <<h>> \o <<p>>
           x == [y EXCEPT !.want = "AUTH_REPLY", !.name = None, !.unsent = 1]
<1>2. k # 0 /\ ~ Gone(c)
  BY <1>1 DEF FtpInv, ClientInv, Gone
<1>3. /\ TypeInv /\ k \in Conns /\ y \in ClientStates /\ w \in WorkerStates /\ c # None
      /\ s \in Seq(Units) /\ t \in Seq(Units)
      /\ Phase(k, c, y, w, s, t)
  BY <1>2, EarlyFacts
<1>4. w.at \in Places
  BY <1>3 DEF WorkerStates
<1>5. w.at = "authentication" /\ s = <<>> /\ t = <<>>
  <2>1. y.state = "IS_AUTH" /\ y.want = "nothing" /\ y.fd = k
    BY <1>1
  <2> HIDE DEF y, w, s, t
  <2> QED
    BY <1>3, <1>4, <2>1 DEF Phase, Opening, Authenticating, Authenticated, Places, Main
<1>6. h \in Units /\ h.type = "AUTH_REQUEST" /\ h.size = 1
  <2>1. "AUTH_REQUEST" \in Kinds /\ TRUE \in BOOLEAN /\ 1 \in Nat
    BY DEF Kinds
  <2> QED
    BY ONLY <2>1, HeaderUnit, ZenonT(40) DEF h
<1>7. p \in Units /\ p.type = "payload" /\ p.what = right
  <2>1. right \in Things
    BY DEF Things
  <2> QED
    BY <2>1, PayloadUnit
<1> HIDE DEF h, p
<1>8. q \in Seq(Units) /\ Len(q) = 2 /\ q[1] = h /\ q[2] = p /\ q # <<>>
  BY <1>6, <1>7, TwoUnits
<1>9. toServer' = [toServer EXCEPT ![k] = q] /\ toClient' = [toClient EXCEPT ![k] = t]
  <2>1. Len(<<p>>) = 1
    OBVIOUS
  <2>2. s \o <<h>> \o <<p>> = q
    BY <1>5
  <2>3. toServer' = [toServer EXCEPT ![k] = s \o <<h>> \o <<p>>]
    BY <1>1, <2>1, Zenon DEF h, p
  <2> QED
    BY <1>1, <1>3, <2>2, <2>3 DEF TypeInv
<1>10. AuthMessage(q)
  BY <1>6, <1>7, <1>8 DEF AuthMessage
<1>11. /\ x \in ClientStates /\ x.want = "AUTH_REPLY" /\ x.state = "IS_AUTH" /\ x.fd = k
       /\ x.got = y.got /\ x.size = y.size
  <2>1. "AUTH_REPLY" \in Waits /\ None \in Names \cup {None}
    BY DEF Waits
  <2> QED
    BY <1>1, <1>3, <2>1 DEF ClientStates
<1>12. client' = [client EXCEPT ![c] = x] /\ UNCHANGED <<owner, worker, file, serving, reset>>
  <2>1. y.left \in Nat
    BY <1>3 DEF ClientStates
  <2>2. y.left - 0 = y.left
    BY <2>1
  <2>3. client' = [client EXCEPT ![c] = [y EXCEPT !.want = "AUTH_REPLY", !.name = None,
                                                 !.left = y.left - 0, !.unsent = 1]]
    BY <1>1, <1>3 DEF TypeInv, ClientStates
  <2>4. [y EXCEPT !.want = "AUTH_REPLY", !.name = None, !.left = y.left, !.unsent = 1] = x
    BY <1>3 DEF ClientStates
  <2> QED
    BY <1>1, <2>2, <2>3, <2>4
<1>13. worker[k] = w /\ k = client[c].fd /\ FtpInv /\ c \in Clients /\ x.state = StateFor(x.want)
  BY <1>11 DEF StateFor
<1>14. x.got = <<>> \/ (x.got = client[c].got /\ x.size = client[c].size)
  BY <1>11
<1> HIDE DEF y, w, s, t, x, k, q
<1>15. Phase(k, c, x, w, q, t)
  BY <1>3, <1>5, <1>8, <1>10, <1>11 DEF Phase, Authenticating, Main
<1>16. Sent(x, w, q) /\ Step(x, w, q, t)
  BY <1>5 DEF Sent, Step, Serves, Main
<1>17. Stray(k, x, t)
  <2>1. Listings(t)
    BY <1>5, NoUnits, Zenon DEF Listings
  <2> QED
    BY <1>11, <2>1 DEF Stray
<1>18. Answers(x, t)
  BY <1>5, <1>11 DEF Answers
<1>19. x.state # "Gone" /\ x.want # "header"
  BY <1>11
<1> QED
  BY ONLY <1>2, <1>3, <1>8, <1>9, <1>11, <1>12, <1>13, <1>14, <1>15, <1>16, <1>17, <1>18, <1>19, EarlyMoves
-----------------------------------------------------------------------------
(* Every step of a client *)

LEMMA ClientSteps ==
    ASSUME FtpInv, NEW c \in Clients, Client(c)
    PROVE  FtpInv'
<1>1. CASE OpenReply(c)
  BY <1>1, Opened
<1>2. CASE AuthReply(c)
  BY <1>2, Authorized
<1>3. CASE ListReply(c)
  BY <1>3, ListReplied
<1>4. CASE GetReply(c)
  BY <1>4, GetReplied
<1>5. CASE FileData(c)
  BY <1>5, FileAnnounced
<1>6. CASE PutReply(c)
  BY <1>6, PutReplied
<1>7. CASE QuitReply(c)
  BY <1>7, QuitReplied
<1>8. CASE Receive(c)
  BY <1>8, DataReceived
<1>9. CASE Received(c)
  BY <1>9, PayloadReceived
<1>10. CASE UploadHeader(c)
  BY <1>10, HeaderSent
<1>11. CASE SendRest(c)
  BY <1>11, MoreSent
<1> QED
  BY <1>1, <1>2, <1>3, <1>4, <1>5, <1>6, <1>7, <1>8, <1>9, <1>10, <1>11 DEF Client

LEMMA UserSteps ==
    ASSUME FtpInv, NEW c \in Clients, User(c)
    PROVE  FtpInv'
<1>1. serving
  BY DEF User
<1>2. CASE open_conn(c)
  BY <1>1, <1>2, OpenConn
<1>3. CASE auth_conn(c)
  BY <1>1, <1>3, AuthRequested
<1>4. CASE list_file(c)
  <2>1. Command(c, "LIST_REQUEST", <<>>, Answer("LIST_REQUEST"), None)
    BY <1>4 DEF list_file, Answer
  <2>2. "LIST_REQUEST" \in Requests /\ Carries("LIST_REQUEST", <<>>) /\ None \in Names \cup {None}
    BY DEF Requests, Carries
  <2> QED
    BY <2>1, <2>2, Commanded
<1>5. CASE download(c)
  <2>1. PICK n \in Names : Command(c, "GET_REQUEST", <<Payload(n)>>, Answer("GET_REQUEST"), n)
    BY <1>5 DEF download, Answer
  <2>2. "GET_REQUEST" \in Requests /\ Carries("GET_REQUEST", <<Payload(n)>>) /\ n \in Names \cup {None}
    BY DEF Requests, Carries
  <2> QED
    BY <2>1, <2>2, Commanded
<1>6. CASE upload(c)
  <2>1. PICK n \in Names : Command(c, "PUT_REQUEST", <<Payload(n)>>, Answer("PUT_REQUEST"), n)
    BY <1>6 DEF upload, Answer
  <2>2. "PUT_REQUEST" \in Requests /\ Carries("PUT_REQUEST", <<Payload(n)>>) /\ n \in Names \cup {None}
    BY DEF Requests, Carries
  <2> QED
    BY <2>1, <2>2, Commanded
<1>7. CASE quit(c)
  <2>1. Command(c, "QUIT_REQUEST", <<>>, Answer("QUIT_REQUEST"), None)
    BY <1>7 DEF quit, Answer
  <2>2. "QUIT_REQUEST" \in Requests /\ Carries("QUIT_REQUEST", <<>>) /\ None \in Names \cup {None}
    BY DEF Requests, Carries
  <2> QED
    BY <2>1, <2>2, Commanded
<1>8. CASE Exit(c)
  BY <1>8, LeaveMoves DEF Exit
<1> QED
  BY <1>2, <1>3, <1>4, <1>5, <1>6, <1>7, <1>8 DEF User

-----------------------------------------------------------------------------
(* The server *)

LEMMA ServerFacts ==
    ASSUME FtpInv, serving, NEW k \in Conns, worker[k].at # "none"
    PROVE  LET c == owner[k]
               y == client[c]
               w == worker[k]
               s == toServer[k]
               t == toClient[k] IN
           /\ c \in Clients /\ c # None /\ (PeerGone(k) <=> y.state = "Gone")
           /\ TypeInv /\ y \in ClientStates /\ w \in WorkerStates /\ w.at \in Places
           /\ s \in Seq(Units) /\ t \in Seq(Units)
           /\ ClientInv(c) /\ WorkerInv(k)
           /\ Sent(y, w, s) /\ Phase(k, c, y, w, s, t)
           /\ y.state # "Gone" /\ c \in NoDir => Stray(k, y, t)
           /\ y.state # "Gone" /\ c \notin NoDir => Step(y, w, s, t)
           /\ y.state # "Gone" /\ c \notin NoDir /\ y.fd = k => Answers(y, t)
<1> DEFINE c == owner[k]
<1>1. TypeInv /\ WorkerInv(k) /\ SentInv(k) /\ PhaseInv(k) /\ StrayInv(k) /\ StepInv(k)
  BY DEF FtpInv
<1>2. /\ worker[k] \in WorkerStates /\ toServer[k] \in Seq(Units) /\ toClient[k] \in Seq(Units)
      /\ c \in Clients \cup {None}
  BY <1>1 DEF TypeInv
<1>3. worker[k].at \in Places
  BY <1>2 DEF WorkerStates
<1>4. Sent(client[c], worker[k], toServer[k])
  BY <1>1 DEF SentInv
<1>5. Phase(k, c, client[c], worker[k], toServer[k], toClient[k])
  BY <1>1 DEF PhaseInv
<1>6. c # None
  BY <1>5 DEF Phase
<1>7. c \in Clients /\ client[c] \in ClientStates /\ ClientInv(c) /\ ArrivedInv(c) /\ k # 0
  BY <1>1, <1>2, <1>6 DEF FtpInv, TypeInv, Conns
<1>8. client[c].state # "Gone" /\ c \in NoDir => Stray(k, client[c], toClient[k])
  BY <1>1 DEF StrayInv, Gone
<1>9. client[c].state # "Gone" /\ c \notin NoDir => Step(client[c], worker[k], toServer[k], toClient[k])
  BY <1>1, <1>7 DEF StepInv, Gone
<1>10. client[c].state # "Gone" /\ c \notin NoDir /\ client[c].fd = k => Answers(client[c], toClient[k])
  BY <1>7 DEF ArrivedInv, Gone
<1>11. PeerGone(k) <=> client[c].state = "Gone"
  BY <1>6 DEF PeerGone, Gone
<1> QED
  BY <1>1, <1>2, <1>3, <1>4, <1>5, <1>6, <1>7, <1>8, <1>9, <1>10, <1>11

FilesGrow ==
    /\ file' \in [Names -> Seq(Units) \cup {None}]
    /\ \A n \in Names : file[n] # None => file'[n] # None /\ Len(file'[n]) >= Len(file[n])
    /\ \A n \in Names : FileInv(n)'

LEMMA FilesKept ==
    ASSUME FtpInv, UNCHANGED file
    PROVE  FilesGrow
<1>1. file \in [Names -> Seq(Units) \cup {None}] /\ \A n \in Names : FileInv(n)
  BY DEF FtpInv, TypeInv
<1>2. \A n \in Names : FileInv(n)'
  BY <1>1 DEF FileInv
<1>3. \A n \in Names : file[n] # None => Len(file'[n]) >= Len(file[n])
  <2> SUFFICES ASSUME NEW n \in Names, file[n] # None PROVE Len(file[n]) >= Len(file[n])
    OBVIOUS
  <2>1. Len(file[n]) \in Nat
    BY <1>1
  <2> QED
    BY <2>1
<1> QED
  BY <1>1, <1>2, <1>3 DEF FilesGrow

Resets(k) == \A j \in reset' : j \in reset \/ (j = k /\ PeerGone(k))

LEMMA ServerMoves ==
    ASSUME FtpInv, serving, NEW k \in Conns, worker[k].at # "none",
           NEW w \in WorkerStates, worker' = [worker EXCEPT ![k] = w], w.at # "none",
           NEW s \in Seq(Units), toServer' = [toServer EXCEPT ![k] = s],
           NEW t \in Seq(Units), toClient' = [toClient EXCEPT ![k] = t],
           UNCHANGED <<clientVars, serving>>, FilesGrow, Resets(k), WorkerInv(k)',
           NEW c, c = owner[k], NEW y, y = client[c],
           Sent(y, w, s), Phase(k, c, y, w, s, t),
           y.state # "Gone" /\ c \in NoDir => Stray(k, y, t),
           y.state # "Gone" /\ c \notin NoDir => Step(y, w, s, t),
           y.state # "Gone" /\ c \notin NoDir /\ y.fd = k => Answers(y, t)
    PROVE  FtpInv'
<1>1. TypeInv /\ c \in Clients /\ c # None
  BY ServerFacts
<1>2. /\ worker'[k] = w /\ toServer'[k] = s /\ toClient'[k] = t
      /\ client' = client /\ owner' = owner /\ serving' = serving
      /\ \A j \in Conns \ {k} : /\ toServer'[j] = toServer[j] /\ toClient'[j] = toClient[j]
                                /\ worker'[j] = worker[j]
  BY <1>1 DEF TypeInv, clientVars
<1>3. TypeInv'
  <2>1. worker' \in [Conns -> WorkerStates]
    BY <1>1 DEF TypeInv
  <2>2. toServer' \in [Conns -> Seq(Units)]
    BY <1>1 DEF TypeInv
  <2>3. toClient' \in [Conns -> Seq(Units)]
    BY <1>1 DEF TypeInv
  <2>4. reset' \subseteq Conns
    BY <1>1 DEF TypeInv, Resets
  <2> QED
    BY <1>1, <1>2, <2>1, <2>2, <2>3, <2>4 DEF TypeInv, FilesGrow
<1>4. SentInv(k)' /\ PhaseInv(k)'
  BY <1>2 DEF SentInv, PhaseInv
<1>5. StrayInv(k)' /\ StepInv(k)'
  BY <1>1, <1>2 DEF StrayInv, StepInv, Gone
<1>6. ASSUME NEW d \in Clients, client[d].fd = k, owner[k] = d
      PROVE  ArrivedInv(d)'
  BY <1>1, <1>2, <1>6 DEF ArrivedInv, Gone
<1> QED
  BY <1>2, <1>3, <1>4, <1>5, <1>6, WorkerMoves DEF FilesGrow, Resets, clientVars

\* What a send leaves on the way to client y.
Reached(y, t, units) == IF y.state = "Gone" THEN t ELSE t \o units

LEMMA Sends ==
    ASSUME FtpInv, serving, NEW k \in Conns, worker[k].at # "none", NEW p \in Seq(Units), Send(k, p)
    PROVE  LET u == Reached(client[owner[k]], toClient[k], p) IN
           /\ toClient' = [toClient EXCEPT ![k] = u] /\ u \in Seq(Units)
           /\ Resets(k) /\ UNCHANGED serving
<1>1. /\ TypeInv /\ (PeerGone(k) <=> client[owner[k]].state = "Gone")
      /\ toClient[k] \in Seq(Units)
  BY ServerFacts
<1>2. toClient[k] \o p \in Seq(Units)
  BY <1>1
<1>3. Resets(k) /\ UNCHANGED serving
  BY <1>1 DEF Send, Resets
<1>4. toClient' = [toClient EXCEPT ![k] = IF PeerGone(k) THEN @ ELSE @ \o p]
  BY DEF Send
<1> QED
  BY <1>1, <1>2, <1>3, <1>4 DEF Reached, TypeInv

\* The server ends on account of a client that has gone.
LEMMA Ends ==
    ASSUME FtpInv, NEW k \in Conns
    PROVE  /\ Down /\ k \in reset => FtpInv'
           /\ \A n : Down /\ Ended(k, n) /\ worker[k].at \in {"connection", "authentication"} => FtpInv'
<1>1. k \in reset => PeerGone(k)
  BY DEF FtpInv, EndInv
<1>2. \A n : Ended(k, n) => PeerGone(k)
  BY DEF Ended
<1> QED
  BY <1>1, <1>2, DownMoves

\* recv: what is there.
LEMMA Had ==
    ASSUME FtpInv, NEW k \in Conns, NEW n \in Nat, Has(k, n)
    PROVE  /\ toServer[k] \in Seq(Units) /\ Len(toServer[k]) >= n
           /\ n >= 1 => toServer[k] # <<>>
<1>1. toServer[k] \in Seq(Units) /\ Len(toServer[k]) \in Nat
  BY DEF FtpInv, TypeInv
<1>2. Unsent(k) \in Nat
  <2>1. owner[k] # None => client[owner[k]] \in ClientStates
    BY DEF FtpInv, TypeInv
  <2> QED
    BY <2>1 DEF Unsent, ClientStates
<1>3. Len(toServer[k]) >= n + Unsent(k)
  BY DEF Has
<1>4. Len(toServer[k]) >= n
  BY ONLY n \in Nat, <1>1, <1>2, <1>3
<1>5. ASSUME n >= 1, toServer[k] = <<>> PROVE FALSE
  <2>1. Len(toServer[k]) = 0
    BY <1>5, NoUnits, Zenon
  <2> QED
    BY ONLY n \in Nat, <1>4, <1>5, <2>1
<1> QED
  BY <1>1, <1>4, <1>5
-----------------------------------------------------------------------------
(* A session until it is authenticated *)

LEMMA IdleWorker ==
    ASSUME NEW at \in Places
    PROVE  Idle(at) \in WorkerStates /\ Idle(at).at = at /\ Idle(at).offset = 0 /\ Idle(at).size = 0
BY DEF Idle, WorkerStates

LEMMA IdleInv ==
    ASSUME NEW k \in Conns, NEW w, worker'[k] = w, w.offset = 0, w.size = 0,
           w.at \notin {"download", "upload", "blocks"}
    PROVE  WorkerInv(k)'
BY DEF WorkerInv

LEMMA OneUnit ==
    ASSUME NEW h \in Units
    PROVE  <<h>> \in Seq(Units) /\ Len(<<h>>) = 1 /\ <<h>>[1] = h /\ <<>> \o <<h>> = <<h>>
<1>1. <<h>> \in Seq(Units) /\ Len(<<h>>) = 1 /\ <<h>>[1] = h
  OBVIOUS
<1>2. <<>> \o <<h>> = <<h>>
  BY <1>1
<1> QED
  BY <1>1, <1>2

LEMMA AllTaken ==
    ASSUME NEW s \in Seq(Units)
    PROVE  Rest(s, Len(s)) = <<>>
<1>1. Len(s) \in 0 .. Len(s) /\ Len(s) - Len(s) = 0
  OBVIOUS
<1>2. Rest(s, Len(s)) \in Seq(Units) /\ Len(Rest(s, Len(s))) = 0
  BY <1>1, RestOf
<1> QED
  BY <1>2, NoUnits

LEMMA Nothing ==
    /\ Framed(<<>>, 0, 0) /\ Loaded(<<>>) /\ Lacks(<<>>, 0, 0, 0) /\ Listings(<<>>)
    /\ \A x, w, t : OneRequest(x, w, <<>>, t)
<1>1. Len(<<>>) = 0 /\ (\A i \in 1 .. Len(<<>>) : FALSE) /\ ~ (0 < Len(<<>>)) /\ 0 = Len(<<>>) + 0
  BY NoUnits
<1>2. Framed(<<>>, 0, 0) /\ Loaded(<<>>) /\ Listings(<<>>)
  BY <1>1, Zenon DEF Framed, Frames, Loaded, Listings
<1>3. Lacks(<<>>, 0, 0, 0)
  <2>1. LacksLast(<<>>, 0)
    BY <1>1, Zenon DEF LacksLast
  <2>2. ~ (0 > 0)
    OBVIOUS
  <2> QED
    BY <1>1, <2>1, <2>2, Zenon DEF Lacks
<1>4. \A x, w, t : OneRequest(x, w, <<>>, t)
  BY <1>1, Zenon DEF OneRequest
<1> QED
  BY <1>2, <1>3, <1>4

\* A stray client that is sent something still has what it takes for data.
LEMMA JoinListings ==
    ASSUME NEW t \in Seq(Units), NEW p \in Seq(Units), Listings(t), Listings(p)
    PROVE  Listings(t \o p)
<1> DEFINE q == t \o p
           L == Len(t)
<1>1. Len(q) = L + Len(p) /\ L \in Nat /\ Len(p) \in Nat
  BY JoinOf
<1>2. \A j \in 1 .. L : q[j] = t[j]
  BY JoinOf
<1>3. \A j \in 1 .. Len(p) : q[L + j] = p[j]
  BY JoinOf
<1> HIDE DEF q
<1> SUFFICES ASSUME NEW i \in 1 .. Len(q), q[i].type = "LIST_REPLY"
             PROVE  q[i].size = 1 /\ i + 1 <= Len(q) /\ q[i + 1].type = "payload"
  BY DEF Listings, q
<1>4. CASE i \in 1 .. L
  <2>1. q[i] = t[i]
    BY <1>2, <1>4
  <2>2. t[i].size = 1 /\ i + 1 <= L /\ t[i + 1].type = "payload"
    BY <1>4, <2>1 DEF Listings
  <2>3. i + 1 \in 1 .. L /\ i + 1 <= Len(q)
    BY <1>1, <1>4, <2>2
  <2> QED
    BY <1>2, <2>1, <2>2, <2>3
<1>5. CASE i > L
  <2>1. PICK j \in 1 .. Len(p) : i = L + j
    <3>1. i - L \in 1 .. Len(p) /\ i = L + (i - L)
      BY <1>1, <1>5
    <3> QED
      BY <3>1
  <2>2. q[i] = p[j]
    BY <1>3, <2>1
  <2>3. p[j].size = 1 /\ j + 1 <= Len(p) /\ p[j + 1].type = "payload"
    BY <2>2 DEF Listings
  <2>4. j + 1 \in 1 .. Len(p) /\ i + 1 <= Len(q) /\ i + 1 = L + (j + 1)
    BY <1>1, <2>1, <2>3
  <2>5. q[L + (j + 1)] = p[j + 1]
    BY <1>3, <2>4
  <2> QED
    BY <2>2, <2>3, <2>4, <2>5
<1> QED
  BY <1>1, <1>4, <1>5

LEMMA StrayMore ==
    ASSUME NEW k, NEW y, NEW t \in Seq(Units), NEW p \in Seq(Units), Stray(k, y, t), Listings(p)
    PROVE  Stray(k, y, t \o p)
<1>1. Listings(t \o p)
  BY JoinListings DEF Stray
<1>2. ASSUME Len(t) >= 1, t[1].type = "payload"
      PROVE  Len(t \o p) >= 1 /\ (t \o p)[1].type = "payload"
  <2> DEFINE q == t \o p
  <2>1. Len(q) = Len(t) + Len(p) /\ Len(t) \in Nat /\ Len(p) \in Nat /\ \A j \in 1 .. Len(t) : q[j] = t[j]
    BY JoinOf
  <2> HIDE DEF q
  <2>2. 1 \in 1 .. Len(t) /\ Len(q) >= 1
    BY <1>2, <2>1
  <2> QED
    BY <1>2, <2>1, <2>2 DEF q
<1> QED
  BY <1>1, <1>2 DEF Stray

\* The server ends on account of a call the system refuses, after p was sent.
LEMMA FailMoves ==
    ASSUME FtpInv, serving, NEW k \in Conns, worker[k].at # "none", NEW call,
           NEW p \in Seq(Units), Listings(p), Fail(k, call, p),
           NEW c, c = owner[k], NEW y, y = client[c],
           y.state # "Gone" /\ c \notin NoDir /\ y.fd = k => Answers(y, toClient[k] \o p)
    PROVE  FtpInv'
<1> DEFINE t == toClient[k]
           u == Reached(y, t, p)
           v == Idle("failed")
<1>1. /\ TypeInv /\ t \in Seq(Units) /\ c \in Clients /\ c # None /\ (PeerGone(k) <=> y.state = "Gone")
      /\ y.state # "Gone" /\ c \in NoDir => Stray(k, y, t)
  BY ServerFacts
<1>2. v \in WorkerStates /\ v.at = "failed" /\ v.offset = 0 /\ v.size = 0
  BY IdleWorker DEF Places
<1>3. /\ serving' = FALSE /\ toServer' = [j \in Conns |-> <<>>]
      /\ toClient' = [toClient EXCEPT ![k] = u] /\ worker' = [worker EXCEPT ![k] = v]
      /\ client' = client /\ owner' = owner /\ file' = file /\ reset' = reset
  BY <1>1 DEF Fail, Goto, Reached, TypeInv, clientVars
<1> HIDE DEF v
<1>4. u \in Seq(Units)
  <2>1. t \o p \in Seq(Units)
    BY <1>1
  <2> QED
    BY <1>1, <2>1 DEF Reached
<1>5. y.state # "Gone" => u = t \o p
  BY DEF Reached
<1> HIDE DEF u
<1>6. TypeInv'
  <2>1. worker' \in [Conns -> WorkerStates]
    BY <1>1, <1>2, <1>3 DEF TypeInv
  <2>2. toServer' \in [Conns -> Seq(Units)]
    BY <1>3
  <2>3. toClient' \in [Conns -> Seq(Units)]
    BY <1>1, <1>3, <1>4 DEF TypeInv
  <2> QED
    BY <1>1, <1>3, <2>1, <2>2, <2>3 DEF TypeInv
<1>7. /\ worker'[k] = v /\ toClient'[k] = u
      /\ \A j \in Conns \ {k} : worker'[j] = worker[j] /\ toClient'[j] = toClient[j]
  BY <1>1, <1>3 DEF TypeInv
<1>8. ASSUME NEW d \in Clients PROVE ClientInv(d)' /\ ArrivedInv(d)'
  <2>1. ClientInv(d) /\ ArrivedInv(d) /\ client[d] \in ClientStates
    BY DEF FtpInv, TypeInv
  <2>2. ClientInv(d)'
    BY <1>3, <2>1 DEF ClientInv
  <2>3. CASE client[d].fd = k
    <3>1. d = c
      BY <2>1, <2>3 DEF ClientInv, Conns
    <3>2. d \notin NoDir /\ y.state # "Gone" => Answers(y, u)
      BY <1>5, <2>3, <3>1
    <3>3. ArrivedInv(d)'
      BY <1>3, <1>7, <2>3, <3>1, <3>2 DEF ArrivedInv, Gone
    <3> QED
      BY <2>2, <3>3
  <2>4. CASE client[d].fd # k
    <3>1. client[d].fd # 0 => client[d].fd \in Conns \ {k}
      BY <2>1, <2>4 DEF ClientStates
    <3>2. client[d].fd # 0 => toClient'[client[d].fd] = toClient[client[d].fd]
      BY <1>7, <3>1
    <3>3. ArrivedInv(d)'
      BY <1>3, <2>1, <3>2 DEF ArrivedInv, Gone
    <3> QED
      BY <2>2, <3>3
  <2> QED
    BY <2>3, <2>4
<1>9. \A n \in Names : FileInv(n)'
  BY <1>3 DEF FtpInv, FileInv
<1>10. ASSUME NEW j \in Conns PROVE WorkerInv(j)' /\ StrayInv(j)'
  <2>1. WorkerInv(j) /\ StrayInv(j)
    BY DEF FtpInv
  <2>2. CASE j = k
    <3>1. WorkerInv(k)'
      BY <1>2, <1>7, IdleInv
    <3>2. y.state # "Gone" /\ c \in NoDir => Stray(k, y, u)
      BY <1>1, <1>5, StrayMore
    <3>3. StrayInv(k)'
      BY <1>3, <1>7, <3>2 DEF StrayInv, Gone
    <3> QED
      BY <2>2, <3>1, <3>3
  <2>3. CASE j # k
    <3>1. WorkerInv(j)'
      BY <1>3, <1>7, <2>1, <2>3 DEF WorkerInv
    <3>2. StrayInv(j)'
      BY <1>3, <1>7, <2>1, <2>3 DEF StrayInv, Gone
    <3> QED
      BY <3>1, <3>2
  <2> QED
    BY <2>2, <2>3
<1>11. \A j \in Conns : SentInv(j)' /\ PhaseInv(j)' /\ StepInv(j)'
  BY <1>3 DEF SentInv, PhaseInv, StepInv
<1>12. EndInv'
  <2>1. \A j \in reset' : PeerGone(j)'
    BY <1>3 DEF FtpInv, EndInv, PeerGone, Gone
  <2>2. ServerEndsFor'
    BY <1>2, <1>7 DEF ServerEndsFor
  <2> QED
    BY <2>1, <2>2 DEF EndInv
<1> QED
  BY <1>6, <1>8, <1>9, <1>10, <1>11, <1>12 DEF FtpInv

LEMMA FailsSilently ==
    ASSUME FtpInv, serving, NEW k \in Conns, worker[k].at # "none", NEW call, Fail(k, call, <<>>)
    PROVE  FtpInv'
<1> DEFINE c == owner[k]
           y == client[c]
           t == toClient[k]
           e == <<>>
<1>1. /\ t \in Seq(Units)
      /\ y.state # "Gone" /\ c \notin NoDir /\ y.fd = k => Answers(y, t)
  BY ServerFacts
<1>2. t \o e = t /\ e \in Seq(Units)
  BY <1>1
<1>3. Listings(e)
  BY Nothing
<1>4. serving /\ worker[k].at # "none" /\ Fail(k, call, e) /\ c = owner[k] /\ y = client[c]
  OBVIOUS
<1> HIDE DEF c, y, t, e
<1>5. y.state # "Gone" /\ c \notin NoDir /\ y.fd = k => Answers(y, toClient[k] \o e)
  BY <1>1, <1>2 DEF t
<1> QED
  BY <1>2, <1>3, <1>4, <1>5, FailMoves

LEMMA Accepts ==
    ASSUME FtpInv, NEW k \in Conns, Accept(k)
    PROVE  FtpInv'
<1> DEFINE c == owner[k]
           y == client[c]
           w == worker[k]
           s == toServer[k]
           t == toClient[k]
           v == Idle("connection")
<1>1. /\ serving /\ w.at = "queue"
      /\ \/ /\ worker' = [worker EXCEPT ![k] = v]
            /\ UNCHANGED <<clientVars, toServer, toClient, file, serving, reset>>
         \/ Fail(k, "accept", <<>>)
  BY DEF Accept, At, Goto
<1> SUFFICES ASSUME worker' = [worker EXCEPT ![k] = v],
                    UNCHANGED <<clientVars, toServer, toClient, file, serving, reset>>
             PROVE  FtpInv'
  BY <1>1, FailsSilently
<1>2. /\ TypeInv /\ s \in Seq(Units) /\ t \in Seq(Units) /\ Phase(k, c, y, w, s, t) /\ c # None
      /\ y.state # "Gone" /\ c \in NoDir => Stray(k, y, t)
      /\ y.state # "Gone" /\ c \notin NoDir /\ y.fd = k => Answers(y, t)
  BY <1>1, ServerFacts
<1>3. v \in WorkerStates /\ v.at = "connection" /\ v.offset = 0 /\ v.size = 0
  BY IdleWorker DEF Places
<1>4. worker'[k] = v /\ toServer' = [toServer EXCEPT ![k] = s] /\ toClient' = [toClient EXCEPT ![k] = t]
  BY <1>1, <1>2 DEF TypeInv
<1> HIDE DEF v
<1>5. FilesGrow /\ Resets(k) /\ WorkerInv(k)'
  BY <1>1, <1>3, <1>4, FilesKept, IdleInv DEF Resets
<1>6. Phase(k, c, y, v, s, t)
  BY <1>1, <1>2, <1>3 DEF Phase, Main
<1>7. Sent(y, v, s) /\ Step(y, v, s, t)
  BY <1>3 DEF Sent, Step, Serves, Main
<1>8. serving /\ worker[k].at # "none" /\ c = owner[k] /\ y = client[c] /\ v.at # "none"
  BY <1>1, <1>3
<1>9. FtpInv /\ k \in Conns /\ UNCHANGED <<clientVars, serving>> /\ worker' = [worker EXCEPT ![k] = v]
  BY <1>1
<1> HIDE DEF c, y, w, s, t
<1> QED
  BY ONLY <1>2, <1>3, <1>4, <1>5, <1>6, <1>7, <1>8, <1>9, ServerMoves

LEMMA Connects ==
    ASSUME FtpInv, NEW k \in Conns, connection(k)
    PROVE  FtpInv'
<1> DEFINE c == owner[k]
           y == client[c]
           w == worker[k]
           s == toServer[k]
           t == toClient[k]
           v == Idle("authentication")
           h == Header("OPEN_CONN_REPLY", TRUE, 0)
           p == <<h>>
           u == Reached(y, t, p)
<1>1. serving /\ w.at = "connection"
  BY DEF connection, At
<1>2. /\ TypeInv /\ s \in Seq(Units) /\ t \in Seq(Units) /\ Phase(k, c, y, w, s, t) /\ c # None
      /\ y.state # "Gone" /\ c \in NoDir => Stray(k, y, t)
      /\ ClientInv(c)
  BY <1>1, ServerFacts
<1>3. OneHeader(s, "OPEN_CONN_REQUEST") /\ s # <<>> /\ Head(s) = s[1]
  <2>1. Opening(k, y, s, t)
    BY <1>1, <1>2 DEF Phase
  <2>2. OneHeader(s, "OPEN_CONN_REQUEST")
    BY <2>1 DEF Opening
  <2>3. s # <<>>
    BY <2>2, NoUnits DEF OneHeader
  <2> QED
    BY <1>2, <2>2, <2>3, TailOf
<1>4. CASE Down /\ (Ended(k, 1) \/ k \in reset)
  BY <1>1, <1>4, Ends
<1>5. CASE \/ Take(k, 1) /\ Goto(k, "authentication") /\ Send(k, p) /\ UNCHANGED <<clientVars, file>>
           \/ Fail(k, "fopen", p)
  <2>1. h \in Units /\ h.type = "OPEN_CONN_REPLY" /\ h.status = TRUE
    <3>1. "OPEN_CONN_REPLY" \in Kinds /\ TRUE \in BOOLEAN /\ 0 \in Nat
      BY DEF Kinds
    <3> QED
      BY <3>1, HeaderUnit
  <2> HIDE DEF h
  <2>2. p \in Seq(Units) /\ Len(p) = 1 /\ p[1] = h /\ <<>> \o p = p
    BY <2>1, OneUnit
  <2> HIDE DEF p
  <2>10. y.state # "Gone" => t = <<>> /\ y.fd = k /\ y.want = "OPEN_CONN_REPLY" /\ y.state = "IDLE"
    <3>1. Opening(k, y, s, t)
      BY <1>1, <1>2 DEF Phase
    <3>2. y.want = "OPEN_CONN_REPLY" => y.state = "IDLE"
      BY <1>2 DEF ClientInv, StateFor
    <3> QED
      BY <3>1, <3>2 DEF Opening
  <2>11. y.state # "Gone" => u = p
    BY <2>2, <2>10 DEF u, Reached
  <2>12. OneHeader(p, "OPEN_CONN_REPLY") /\ p[1].status
    <3>1. p[1].status
      BY <2>1, <2>2, Zenon
    <3> QED
      BY <2>1, <2>2, <3>1 DEF OneHeader
  <2>15. y.state # "Gone" /\ c \in NoDir => Stray(k, y, u)
    <3>1. Listings(p)
      BY <2>1, <2>2 DEF Listings
    <3> QED
      BY <2>10, <2>11, <3>1 DEF Stray
  <2>16. y.state # "Gone" /\ c \notin NoDir /\ y.fd = k => Answers(y, u)
    BY <2>10, <2>11, <2>12 DEF Answers
  <2> SUFFICES ASSUME Take(k, 1), Goto(k, "authentication"), Send(k, p), UNCHANGED <<clientVars, file>>
               PROVE  FtpInv'
    <3> SUFFICES ASSUME Fail(k, "fopen", p) PROVE FtpInv'
      BY <1>5
    <3>1. y.state # "Gone" /\ c \notin NoDir /\ y.fd = k => Answers(y, t \o p)
      BY <2>16 DEF Reached
    <3>2. Listings(p)
      BY <2>1, <2>2 DEF Listings
    <3>3. worker[k].at # "none" /\ c = owner[k] /\ y = client[c]
      BY <1>1
    <3> HIDE DEF c, y
    <3> QED
      BY <1>1, <2>2, <3>1, <3>2, <3>3, FailMoves
  <2>3. toClient' = [toClient EXCEPT ![k] = u] /\ u \in Seq(Units) /\ Resets(k) /\ UNCHANGED serving
    BY <1>1, <2>2, Sends
  <2>4. toServer' = [toServer EXCEPT ![k] = <<>>]
    <3>1. Len(s) = 1
      BY <1>3 DEF OneHeader
    <3>2. toServer' = [toServer EXCEPT ![k] = Rest(s, 1)]
      BY <1>2 DEF Take, TypeInv, Rest
    <3> QED
      BY <1>2, <3>1, <3>2, AllTaken
  <2>5. v \in WorkerStates /\ v.at = "authentication" /\ v.offset = 0 /\ v.size = 0
    BY IdleWorker DEF Places
  <2>6. worker' = [worker EXCEPT ![k] = v] /\ worker'[k] = v
    BY <1>2 DEF Goto, TypeInv
  <2> HIDE DEF v
  <2>7. FilesGrow /\ WorkerInv(k)'
    BY <2>5, <2>6, FilesKept, IdleInv
  <2>8. serving /\ worker[k].at # "none" /\ c = owner[k] /\ y = client[c] /\ v.at # "none"
    BY <1>1, <2>5
  <2>9. FtpInv /\ k \in Conns /\ UNCHANGED <<clientVars, serving>> /\ <<>> \in Seq(Units)
    BY <2>3
  <2> HIDE DEF c, y, w, s, t, u
  <2>13. Phase(k, c, y, v, <<>>, u)
    <3>1. Authenticating(k, y, <<>>, u)
      BY <2>10, <2>11, <2>12, Zenon DEF Authenticating
    <3> QED
      BY <1>2, <2>5, <3>1 DEF Phase, Main
  <2>14. Sent(y, v, <<>>) /\ Step(y, v, <<>>, u)
    BY <2>5 DEF Sent, Step, Serves, Main
  <2> QED
    BY ONLY <2>3, <2>4, <2>5, <2>6, <2>7, <2>8, <2>9, <2>13, <2>14, <2>15, <2>16, ServerMoves
<1> QED
  BY <1>3, <1>4, <1>5 DEF connection, SendError, OneHeader, Message

LEMMA Authenticates ==
    ASSUME FtpInv, NEW k \in Conns, authentication(k)
    PROVE  FtpInv'
<1> DEFINE c == owner[k]
           y == client[c]
           w == worker[k]
           s == toServer[k]
           t == toClient[k]
           right == s[2].what
           v == Idle(IF right THEN "service" ELSE "authentication")
           h == Header("AUTH_REPLY", right, 0)
           p == <<h>>
           u == Reached(y, t, p)
<1>1. serving /\ w.at = "authentication"
  BY DEF authentication, At
<1>2. /\ TypeInv /\ s \in Seq(Units) /\ t \in Seq(Units) /\ Phase(k, c, y, w, s, t) /\ c # None
      /\ y.state # "Gone" /\ c \in NoDir => Stray(k, y, t)
      /\ ClientInv(c)
  BY <1>1, ServerFacts
<1>3. Authenticating(k, y, s, t)
  BY <1>1, <1>2 DEF Phase
<1>4. s # <<>> => Head(s) = s[1] /\ AuthMessage(s)
  BY <1>2, <1>3, TailOf DEF Authenticating
<1>5. CASE Down /\ (Ended(k, 1) \/ k \in reset)
  BY <1>1, <1>5, Ends
<1>6. CASE /\ s # <<>> /\ Take(k, 2)
           /\ Goto(k, IF right THEN "service" ELSE "authentication") /\ Send(k, p)
           /\ UNCHANGED <<clientVars, file>>
  <2>1. right \in BOOLEAN
    BY <1>4, <1>6 DEF AuthMessage
  <2>2. h \in Units /\ h.type = "AUTH_REPLY" /\ h.status = right
    <3>1. "AUTH_REPLY" \in Kinds /\ 0 \in Nat
      BY DEF Kinds
    <3> QED
      BY <2>1, <3>1, HeaderUnit
  <2> HIDE DEF h
  <2>3. p \in Seq(Units) /\ Len(p) = 1 /\ p[1] = h /\ <<>> \o p = p
    BY <2>2, OneUnit
  <2> HIDE DEF p
  <2>4. toClient' = [toClient EXCEPT ![k] = u] /\ u \in Seq(Units) /\ Resets(k) /\ UNCHANGED serving
    BY <1>1, <1>6, <2>3, Sends
  <2>5. toServer' = [toServer EXCEPT ![k] = <<>>]
    <3>1. Len(s) = 2
      BY <1>4, <1>6 DEF AuthMessage
    <3>2. toServer' = [toServer EXCEPT ![k] = Rest(s, 2)]
      BY <1>2, <1>6 DEF Take, TypeInv, Rest
    <3> QED
      BY <1>2, <3>1, <3>2, AllTaken
  <2>6. /\ v \in WorkerStates /\ v.at \in {"service", "authentication"} /\ v.offset = 0 /\ v.size = 0
        /\ right => v.at = "service"
        /\ ~ right => v.at = "authentication"
    <3>1. CASE right
      <4>1. v = Idle("service")
        BY <3>1, Zenon
      <4>2. "service" \in Places
        BY DEF Places
      <4> HIDE DEF v
      <4> QED
        BY <3>1, <4>1, <4>2, IdleWorker, Zenon
    <3>2. CASE ~ right
      <4>1. v = Idle("authentication")
        BY <3>2, Zenon
      <4>2. "authentication" \in Places
        BY DEF Places
      <4> HIDE DEF v
      <4> QED
        BY <3>2, <4>1, <4>2, IdleWorker, Zenon
    <3> QED
      BY <2>1, <3>1, <3>2, Zenon
  <2>7. worker' = [worker EXCEPT ![k] = v] /\ worker'[k] = v
    BY <1>2, <1>6 DEF Goto, TypeInv
  <2> HIDE DEF v
  <2>8. v.at \notin {"download", "upload", "blocks", "none", "queue", "connection"}
    BY <2>6
  <2>9. FilesGrow /\ WorkerInv(k)'
    BY <1>6, <2>6, <2>7, <2>8, FilesKept, IdleInv
  <2>10. serving /\ worker[k].at # "none" /\ c = owner[k] /\ y = client[c] /\ v.at # "none"
    BY <1>1, <2>8
  <2>11. FtpInv /\ k \in Conns /\ UNCHANGED <<clientVars, serving>> /\ <<>> \in Seq(Units)
    BY <1>6, <2>4
  <2>12. y.state # "Gone" => t = <<>> /\ y.fd = k /\ y.want = "AUTH_REPLY"
    <3> HIDE DEF c, y, w, s, t
    <3> QED
      BY <1>3, <1>6, Zenon DEF Authenticating
  <2> HIDE DEF c, y, w, s, t, u
  <2>13. y.state # "Gone" => u = p
    BY <2>3, <2>12 DEF u, Reached
  <2>14. OneHeader(p, "AUTH_REPLY") /\ (p[1].status <=> right)
    <3>1. p[1].status <=> right
      BY <2>2, <2>3, Zenon
    <3> QED
      BY <2>2, <2>3, <3>1 DEF OneHeader
  <2> HIDE DEF right
  <2>15. Phase(k, c, y, v, <<>>, u)
    <3>1. CASE right
      <4>1. v.at = "service" /\ p[1].status
        BY <2>6, <2>14, <3>1, Zenon
      <4>2. Authenticated(k, y, v, <<>>, u)
        BY <2>12, <2>13, <2>14, <4>1, Zenon DEF Authenticated
      <4> QED
        BY <1>2, <4>1, <4>2 DEF Phase, Main
    <3>2. CASE ~ right
      <4>1. v.at = "authentication" /\ ~ p[1].status
        BY <2>6, <2>14, <3>2, Zenon
      <4>2. Authenticating(k, y, <<>>, u)
        BY <2>12, <2>13, <2>14, <4>1, Zenon DEF Authenticating
      <4> QED
        BY <1>2, <4>1, <4>2 DEF Phase, Main
    <3> QED
      BY <3>1, <3>2
  <2>16. Sent(y, v, <<>>)
    <3>1. Owed(v) = 0 /\ Offset(v) = 0
      BY <2>8 DEF Owed, Offset
    <3>2. y.state # "Gone" => 0 = 0
      BY <2>12
    <3> QED
      BY <3>1, <3>2, Nothing DEF Sent
  <2>17. y.state # "Gone" => Step(y, v, <<>>, u)
    <3>1. y.state # "Gone" => Uploads(y, v, <<>>, u) /\ Downloads(y, v, u)
      BY <2>8, <2>12 DEF Uploads, Put, Downloads
    <3> QED
      BY <3>1, Nothing DEF Step
  <2>18. y.state # "Gone" /\ c \in NoDir => Stray(k, y, u)
    <3>1. Listings(p)
      BY <2>2, <2>3 DEF Listings
    <3> QED
      BY <2>12, <2>13, <3>1 DEF Stray
  <2>19. y.state # "Gone" /\ c \notin NoDir /\ y.fd = k => Answers(y, u)
    <3> SUFFICES ASSUME y.state # "Gone" PROVE Answers(y, u)
      OBVIOUS
    <3>1. OneHeader(u, "AUTH_REPLY") /\ y.want = "AUTH_REPLY"
      BY <2>12, <2>13, <2>14
    <3> QED
      BY <3>1 DEF Answers
  <2> QED
    BY ONLY <2>4, <2>5, <2>6, <2>7, <2>9, <2>10, <2>11, <2>15, <2>16, <2>17, <2>18, <2>19, ServerMoves
<1>7. Has(k, 1) \/ Has(k, 2) => s # <<>>
  BY Had
<1> QED
  BY <1>4, <1>5, <1>6, <1>7 DEF authentication, SendError, RecvError, AuthMessage, Message
-----------------------------------------------------------------------------
(* Requests *)

\* Units of a message with its payload.
Taken(type) == IF type \in {"GET_REQUEST", "PUT_REQUEST"} THEN 2 ELSE 1

LEMMA RequestTaken ==
    ASSUME NEW s \in Seq(Units), s # <<>>, NEW type \in Requests, s[1].type = type,
           Framed(s, 0, 0), Loaded(s)
    PROVE  LET n == Taken(type)
               r == Rest(s, n) IN
           /\ IsHeader(s[1]) /\ s[1].size = n - 1 /\ n \in 1 .. Len(s)
           /\ r \in Seq(Units) /\ Framed(r, 0, 0) /\ Loaded(r)
           /\ \A m \in Nat : Lacks(s, 0, 0, m) => Lacks(r, 0, 0, m)
           /\ n = 2 => s[2].what \in Names
           /\ n = Len(s) => r = <<>>
<1> DEFINE n == Taken(type)
           r == Rest(s, n)
<1>1. Len(s) \in Nat /\ Len(s) >= 1 /\ 1 \in 1 .. Len(s) /\ 0 < Len(s)
  OBVIOUS
<1>2. IsHeader(s[1])
  BY <1>1 DEF Framed
<1>3. /\ n \in {1, 2} /\ s[1].size = n - 1
      /\ n = 2 => 1 + 1 <= Len(s) /\ s[2].what \in Names
  <2>1. CASE type \in {"GET_REQUEST", "PUT_REQUEST"}
    BY <1>1, <2>1 DEF Loaded, Taken
  <2>2. CASE type \in {"LIST_REQUEST", "QUIT_REQUEST"}
    BY <1>1, <2>2 DEF Loaded, Taken
  <2> QED
    BY <2>1, <2>2 DEF Requests
<1> HIDE DEF n
<1>4. n \in 0 .. Len(s) /\ n \in 1 .. Len(s) /\ n \in Nat
  BY <1>1, <1>3
<1>5. /\ r \in Seq(Units) /\ Len(r) = Len(s) - n
      /\ \A j \in 1 .. Len(s) - n : r[j] = s[j + n] /\ j + n \in 1 .. Len(s)
  BY <1>4, RestOf
<1>6. Frames(r) /\ Loaded(r)
  BY <1>4, RestFrames, RestLoaded DEF Framed
<1>7. \A m \in Nat : Lacks(s, 0, 0, m) => LacksLast(r, m) /\ LacksLast(s, m)
  BY <1>4, RestLacks DEF Lacks
<1>8. n = Len(s) => r = <<>>
  BY <1>1, <1>5, NoUnits
<1> HIDE DEF r
<1>9. ASSUME 0 < Len(r) PROVE IsHeader(r[0 + 1])
  <2>1. 1 \in 1 .. Len(s) - n /\ 1 + (n - 1) < Len(s) /\ 1 + (n - 1) + 1 = 1 + n /\ 0 + 1 = 1
    BY <1>1, <1>4, <1>5, <1>9
  <2>2. IsHeader(s[1 + (n - 1) + 1])
    BY <1>1, <1>2, <1>3, <2>1 DEF Framed, Frames
  <2> QED
    BY <1>5, <2>1, <2>2
<1>10. Framed(r, 0, 0)
  <2>1. \A j \in 1 .. Len(r) : ~ (j <= 0)
    BY <1>1, <1>4, <1>5
  <2> QED
    BY <1>6, <1>9, <2>1 DEF Framed
<1>11. ASSUME NEW m \in Nat, Lacks(s, 0, 0, m) PROVE Lacks(r, 0, 0, m)
  <2>1. LacksLast(r, m) /\ LacksLast(s, m)
    BY <1>7, <1>11
  <2>2. ASSUME 0 >= Len(r) PROVE 0 = Len(r) + m /\ ~ (m > 0)
    <3>a. Len(r) = Len(s) - n
      BY <1>5
    <3>b. 0 >= Len(s) - n
      BY <2>2, <3>a
    <3>c. n = Len(s) /\ 1 + (n - 1) >= Len(s)
      BY ONLY <1>1, <1>4, <3>b
    <3>1. 1 + (n - 1) >= Len(s) /\ Len(r) = 0 /\ n = Len(s)
      BY ONLY <1>1, <3>a, <3>c
    <3>2. 1 + (n - 1) = Len(s) + m
      BY <1>1, <1>2, <1>3, <2>1, <3>1 DEF LacksLast
    <3> QED
      BY <1>1, <1>4, <3>1, <3>2
  <2> QED
    BY <2>1, <2>2 DEF Lacks
<1> QED
  BY <1>2, <1>3, <1>4, <1>5, <1>6, <1>8, <1>10, <1>11 DEF r, n

\* The request is taken, the worker goes on as v, and p is sent.
LEMMA RequestServed ==
    ASSUME FtpInv, serving, NEW k \in Conns, worker[k].at = "service",
           NEW type \in Requests, toServer[k] # <<>>, toServer[k][1].type = type, Take(k, Taken(type)),
           NEW p \in Seq(Units), Send(k, p), Listings(p),
           NEW v \in WorkerStates, worker' = [worker EXCEPT ![k] = v],
           v.at \in {"service", "download", "upload"},
           UNCHANGED clientVars, FilesGrow, WorkerInv(k)',
           \A x \in ClientStates : x.want = Answer(type) =>
               Answers(x, p) /\ Uploads(x, v, <<>>, p) /\ Downloads(x, v, p)
    PROVE  FtpInv'
<1> DEFINE c == owner[k]
           y == client[c]
           w == worker[k]
           s == toServer[k]
           t == toClient[k]
           r == Rest(s, Taken(type))
           u == Reached(y, t, p)
<1>1. /\ TypeInv /\ s \in Seq(Units) /\ t \in Seq(Units) /\ Phase(k, c, y, w, s, t) /\ c # None
      /\ y \in ClientStates
      /\ Sent(y, w, s)
      /\ y.state # "Gone" /\ c \in NoDir => Stray(k, y, t)
      /\ y.state # "Gone" /\ c \notin NoDir => Step(y, w, s, t)
  BY ServerFacts
<1>2. toClient' = [toClient EXCEPT ![k] = u] /\ u \in Seq(Units) /\ Resets(k) /\ UNCHANGED serving
  BY Sends
<1>3. toServer' = [toServer EXCEPT ![k] = r]
  BY <1>1 DEF Take, TypeInv, Rest
<1>4. w.at = "service" /\ s # <<>> /\ s[1].type = type
  OBVIOUS
<1>5. \A x \in ClientStates : x.want = Answer(type) =>
        Answers(x, p) /\ Uploads(x, v, <<>>, p) /\ Downloads(x, v, p)
  OBVIOUS
<1>6. /\ FtpInv /\ k \in Conns /\ UNCHANGED <<clientVars, serving>> /\ FilesGrow /\ WorkerInv(k)'
      /\ serving /\ worker[k].at # "none" /\ c = owner[k] /\ y = client[c] /\ v.at # "none"
      /\ worker' = [worker EXCEPT ![k] = v] /\ v \in WorkerStates
  BY <1>2
<1>7. v.at \in {"service", "download", "upload"} /\ type \in Requests /\ p \in Seq(Units) /\ Listings(p)
  OBVIOUS
<1> HIDE DEF c, y, w, s, t, r, u
<1>8. Owed(w) = 0 /\ Offset(w) = 0 /\ Owed(v) = 0 /\ Offset(v) = 0 /\ Serves(w) /\ v.at \in Main
  BY ONLY <1>4, <1>7 DEF Owed, Offset, Serves, Main
<1>9. Framed(s, 0, 0) /\ Loaded(s) /\ (y.state # "Gone" => Lacks(s, 0, 0, 0))
  BY ONLY <1>1, <1>8 DEF Sent
<1>10. /\ IsHeader(s[1]) /\ s[1].size = Taken(type) - 1 /\ Taken(type) \in 1 .. Len(s)
       /\ r \in Seq(Units) /\ Framed(r, 0, 0) /\ Loaded(r)
       /\ \A m \in Nat : Lacks(s, 0, 0, m) => Lacks(r, 0, 0, m)
       /\ Taken(type) = Len(s) => r = <<>>
  BY ONLY <1>1, <1>4, <1>7, <1>9, RequestTaken DEF r
<1>11. 0 \in Nat
  BY ONLY <1>1
<1>12. Sent(y, v, r)
  BY ONLY <1>8, <1>9, <1>10, <1>11 DEF Sent
<1>13. y.state # "Gone" => y.fd = k /\ y.state = "IS_MAIN"
  <2>1. Authenticated(k, y, w, s, t)
    BY ONLY <1>1, <1>4 DEF Phase, Main
  <2> QED
    BY ONLY <1>4, <2>1, Zenon DEF Authenticated
<1>14. Phase(k, c, y, v, r, u)
  <2>1. Authenticated(k, y, v, r, u)
    BY ONLY <1>13, Zenon DEF Authenticated
  <2> QED
    BY ONLY <1>1, <1>7, <2>1 DEF Phase, Main
<1>15. y.state # "Gone" /\ c \in NoDir => Stray(k, y, u)
  <2> SUFFICES ASSUME y.state # "Gone", c \in NoDir PROVE Stray(k, y, t \o p)
    BY DEF u, Reached
  <2> QED
    BY ONLY <1>1, <1>7, y.state # "Gone", c \in NoDir, StrayMore
<1>16. y.state # "Gone" /\ c \notin NoDir => y.want = Answer(type) /\ r = <<>> /\ u = p
  <2> SUFFICES ASSUME y.state # "Gone", c \notin NoDir PROVE y.want = Answer(type) /\ r = <<>> /\ u = p
    OBVIOUS
  <2>1. OneRequest(y, w, s, t)
    BY <1>1, <1>8 DEF Step
  <2>2. 1 \in 1 .. Len(s) /\ type # "FILE_DATA"
    BY ONLY <1>1, <1>4, <1>7, TailOf DEF Requests
  <2>3. y.want = Answer(type) /\ t = <<>> /\ 1 + s[1].size = Len(s)
    BY ONLY <1>4, <1>10, <2>1, <2>2 DEF OneRequest
  <2>4. r = <<>>
    <3>1. Taken(type) = Len(s)
      BY ONLY <1>10, <2>3 DEF Taken
    <3> QED
      BY ONLY <1>10, <3>1
  <2>5. <<>> \o p = p
    BY ONLY <1>7
  <2> QED
    BY <2>3, <2>4, <2>5 DEF u, Reached
<1>17. y.state # "Gone" /\ c \notin NoDir => Answers(y, u) /\ Step(y, v, r, u)
  <2> SUFFICES ASSUME y.state # "Gone", c \notin NoDir PROVE Answers(y, p) /\ Step(y, v, <<>>, p)
    BY <1>16
  <2>1. Answers(y, p) /\ Uploads(y, v, <<>>, p) /\ Downloads(y, v, p)
    BY <1>1, <1>5, <1>16
  <2> QED
    BY <2>1, Nothing DEF Step
<1> QED
  BY ONLY <1>2, <1>3, <1>6, <1>10, <1>12, <1>14, <1>15, <1>17, ServerMoves

LEMMA PairOf ==
    ASSUME NEW h \in Units, NEW g \in Units
    PROVE  <<h, g>> \in Seq(Units) /\ Len(<<h, g>>) = 2 /\ <<h, g>>[1] = h /\ <<h, g>>[2] = g
OBVIOUS

LEMMA Queried ==
    ASSUME FtpInv, NEW k \in Conns, NEW type, Requested(k, type)
    PROVE  /\ serving /\ worker[k].at = "service" /\ worker[k] \in WorkerStates /\ WorkerInv(k)
           /\ toServer[k] # <<>> /\ toServer[k] \in Seq(Units) /\ toServer[k][1].type = type
           /\ type \in {"GET_REQUEST", "PUT_REQUEST"} => toServer[k][2].what \in Names
           /\ TypeInv
<1>1. serving /\ worker[k].at = "service" /\ toServer[k] # <<>> /\ Head(toServer[k]).type = type
  BY Had DEF Requested, At, Message
<1>2. /\ TypeInv /\ worker[k] \in WorkerStates /\ toServer[k] \in Seq(Units)
      /\ Sent(client[owner[k]], worker[k], toServer[k]) /\ WorkerInv(k)
  BY <1>1, ServerFacts
<1>3. Head(toServer[k]) = toServer[k][1]
  BY <1>1, <1>2, TailOf
<1>4. Framed(toServer[k], 0, 0) /\ Loaded(toServer[k])
  BY <1>1, <1>2 DEF Sent, Serves, Main, Owed, Offset
<1>5. type \in {"GET_REQUEST", "PUT_REQUEST"} => toServer[k][2].what \in Names
  <2> SUFFICES ASSUME type \in {"GET_REQUEST", "PUT_REQUEST"} PROVE toServer[k][2].what \in Names
    OBVIOUS
  <2>1. type \in Requests /\ Taken(type) = 2
    BY DEF Requests, Taken
  <2> QED
    BY <1>1, <1>2, <1>3, <1>4, <2>1, RequestTaken
<1> QED
  BY <1>1, <1>2, <1>3, <1>5

LEMMA ServiceGoesOn ==
    ASSUME FtpInv, NEW k \in Conns, worker[k].at = "service", UNCHANGED worker, FilesGrow
    PROVE  /\ WorkerInv(k)' /\ worker[k] \in WorkerStates /\ worker' = [worker EXCEPT ![k] = worker[k]]
<1>1. TypeInv /\ WorkerInv(k) /\ worker[k] \in WorkerStates
  BY DEF FtpInv, TypeInv
<1>2. WorkerInv(k)'
  BY <1>1 DEF WorkerInv
<1> QED
  BY <1>1, <1>2 DEF TypeInv

LEMMA Lists ==
    ASSUME FtpInv, NEW k \in Conns, listFile(k)
    PROVE  FtpInv'
<1> DEFINE names == {n \in Names : file[n] # None}
           h == Header("LIST_REPLY", TRUE, 1)
           g == Payload(names)
           p == <<h, g>>
           v == worker[k]
<1>1. /\ serving /\ v.at = "service" /\ v \in WorkerStates
      /\ toServer[k] # <<>> /\ toServer[k][1].type = "LIST_REQUEST"
  BY Queried DEF listFile
<1>2. CASE SendError(k)
  BY <1>2, Ends DEF SendError
<1>3. CASE Take(k, 1) /\ Send(k, p) /\ UNCHANGED <<clientVars, worker, file>>
  <2>1. h \in Units /\ h.type = "LIST_REPLY" /\ h.size = 1
    <3>1. "LIST_REPLY" \in Kinds /\ TRUE \in BOOLEAN /\ 1 \in Nat
      BY DEF Kinds
    <3> QED
      BY ONLY <3>1, HeaderUnit, ZenonT(40) DEF h
  <2>2. g \in Units /\ ~ IsHeader(g) /\ g.type = "payload"
    <3>1. names \in Things
      BY DEF Things
    <3> HIDE DEF names
    <3> QED
      BY <3>1, PayloadUnit
  <2> HIDE DEF h, g
  <2>3. p \in Seq(Units) /\ Len(p) = 2 /\ p[1] = h /\ p[2] = g
    BY <2>1, <2>2, PairOf
  <2> HIDE DEF p
  <2>4. Listings(p)
    <3>1. \A i \in 1 .. Len(p) : i = 1 \/ i = 2
      BY <2>3
    <3>2. 1 + 1 <= Len(p) /\ 1 + 1 = 2
      BY <2>3
    <3> QED
      BY <2>1, <2>2, <2>3, <3>1, <3>2 DEF Listings
  <2>5. FilesGrow
    BY <1>3, FilesKept
  <2>6. WorkerInv(k)' /\ worker' = [worker EXCEPT ![k] = v]
    BY <1>1, <1>3, <2>5, ServiceGoesOn
  <2>7. ASSUME NEW x \in ClientStates, x.want = "LIST_REPLY"
        PROVE  Answers(x, p) /\ Uploads(x, v, <<>>, p) /\ Downloads(x, v, p)
    <3>1. InPlace(g, 1)
      BY <2>2 DEF InPlace
    <3>2. Answers(x, p)
      BY <2>1, <2>3, <2>7, <3>1 DEF Answers
    <3> QED
      BY <1>1, <2>7, <3>2 DEF Uploads, Put, Downloads
  <2>8. "LIST_REQUEST" \in Requests /\ Taken("LIST_REQUEST") = 1 /\ Answer("LIST_REQUEST") = "LIST_REPLY"
    BY DEF Requests, Taken, Answer
  <2>9. v.at \in {"service", "download", "upload"} /\ UNCHANGED clientVars
    BY <1>1, <1>3
  <2> HIDE DEF v
  <2>10. worker[k].at = "service"
    BY <1>1 DEF v
  <2> QED
    BY <1>1, <1>3, <2>3, <2>4, <2>5, <2>6, <2>7, <2>8, <2>9, <2>10, RequestServed
<1> QED
  BY <1>2, <1>3 DEF listFile

LEMMA GetServed ==
    ASSUME FtpInv, NEW k \in Conns, beDownload(k)
    PROVE  FtpInv'
<1> DEFINE n == toServer[k][2].what
           w == worker[k]
<1>1. /\ serving /\ w.at = "service" /\ w \in WorkerStates /\ n \in Names /\ TypeInv
      /\ toServer[k] # <<>> /\ toServer[k][1].type = "GET_REQUEST"
  BY Queried DEF beDownload
<1>2. CASE SendError(k)
  BY <1>2, Ends DEF SendError
<1>3. "GET_REQUEST" \in Requests /\ Taken("GET_REQUEST") = 2 /\ Answer("GET_REQUEST") = "GET_REPLY"
  BY DEF Requests, Taken, Answer
<1>4. "GET_REPLY" \in Kinds /\ "FILE_DATA" \in Kinds /\ TRUE \in BOOLEAN /\ FALSE \in BOOLEAN /\ 0 \in Nat
  BY DEF Kinds
<1>5. CASE /\ Take(k, 2) /\ Send(k, <<Header("GET_REPLY", FALSE, 0)>>)
           /\ UNCHANGED <<worker, clientVars, file>>
  <2> DEFINE h == Header("GET_REPLY", FALSE, 0)
             p == <<h>>
             v == worker[k]
  <2>1. h \in Units /\ h.type = "GET_REPLY" /\ h.status = FALSE
    BY ONLY <1>4, HeaderUnit, ZenonT(40) DEF h
  <2>2. ~ h.status
    BY <2>1
  <2> HIDE DEF h
  <2>3. p \in Seq(Units) /\ Len(p) = 1 /\ p[1] = h
    BY <2>1, OneUnit
  <2>4. Send(k, p)
    BY <1>5 DEF h
  <2> HIDE DEF p
  <2>5. Listings(p)
    BY <2>1, <2>3 DEF Listings
  <2>6. FilesGrow
    BY <1>5, FilesKept
  <2>7. WorkerInv(k)' /\ worker' = [worker EXCEPT ![k] = v]
    BY <1>1, <1>5, <2>6, ServiceGoesOn
  <2>8. ASSUME NEW x \in ClientStates, x.want = "GET_REPLY"
        PROVE  Answers(x, p) /\ Uploads(x, v, <<>>, p) /\ Downloads(x, v, p)
    <3>1. OneHeader(p, "GET_REPLY")
      BY <2>1, <2>3 DEF OneHeader
    <3>2. ~ p[1].status
      BY <2>2, <2>3, Zenon
    <3>3. Answers(x, p)
      <4>1. OneHeader(p, "GET_REPLY") /\ ~ p[1].status
        BY <3>1, <3>2
      <4>2. x.want \notin {"nothing", "header", "sending", "OPEN_CONN_REPLY", "AUTH_REPLY", "PUT_REPLY",
                           "QUIT_REPLY", "LIST_REPLY", "FILE_DATA", "data"}
        BY <2>8
      <4> QED
        BY <4>1, <4>2, Zenon DEF Answers
    <3> QED
      BY <1>1, <2>8, <3>3 DEF Uploads, Put, Downloads
  <2>9. v.at \in {"service", "download", "upload"} /\ UNCHANGED clientVars /\ v \in WorkerStates
    BY <1>1, <1>5
  <2> HIDE DEF v, w
  <2>10. worker[k].at = "service"
    BY <1>1 DEF w
  <2> HIDE DEF n
  <2> QED
    BY <1>1, <1>3, <1>5, <2>3, <2>4, <2>5, <2>6, <2>7, <2>8, <2>9, <2>10, RequestServed
<1>6. CASE /\ Take(k, 2) /\ file[n] # None
           /\ Send(k, <<Header("GET_REPLY", TRUE, 0), Header("FILE_DATA", TRUE, Len(file[n]))>>)
           /\ worker' = [worker EXCEPT ![k] = [at |-> "download", name |-> n,
                                              size |-> Len(file[n]), offset |-> 0]]
           /\ UNCHANGED <<clientVars, file>>
  <2> DEFINE L == Len(file[n])
             h == Header("GET_REPLY", TRUE, 0)
             g == Header("FILE_DATA", TRUE, L)
             p == <<h, g>>
             v == [at |-> "download", name |-> n, size |-> L, offset |-> 0]
  <2>1. file[n] \in Seq(Units) /\ L \in Nat
    BY <1>1, <1>6 DEF TypeInv
  <2>2. h \in Units /\ h.type = "GET_REPLY" /\ h.status = TRUE
    BY <1>4, HeaderUnit
  <2>3. g \in Units /\ g.type = "FILE_DATA" /\ g.size = L
    BY <1>4, <2>1, HeaderUnit
  <2>4. h.status
    BY <2>2
  <2>5. v \in WorkerStates /\ v.at = "download" /\ v.name = n /\ v.size = L /\ v.offset = 0
    <3>1. "download" \in Places /\ n \in Names \cup {None} /\ 0 \in Nat
      BY <1>1 DEF Places
    <3> HIDE DEF n
    <3> QED
      BY <2>1, <3>1 DEF WorkerStates
  <2>6. worker' = [worker EXCEPT ![k] = v] /\ Send(k, p)
    BY <1>6
  <2> HIDE DEF h, g, v
  <2>7. p \in Seq(Units) /\ Len(p) = 2 /\ p[1] = h /\ p[2] = g
    BY <2>2, <2>3, PairOf
  <2> HIDE DEF p
  <2>8. Listings(p)
    <3>1. \A i \in 1 .. Len(p) : i = 1 \/ i = 2
      BY <2>7
    <3> QED
      BY <2>2, <2>3, <2>7, <3>1 DEF Listings
  <2>9. FilesGrow
    BY <1>6, FilesKept
  <2>10. WorkerInv(k)'
    <3>1. worker'[k] = v /\ file' = file
      BY <1>1, <1>6, <2>6 DEF TypeInv
    <3>2. L <= L /\ 0 <= L /\ (L = 0 \/ 0 < L)
      BY <2>1
    <3> HIDE DEF n
    <3> QED
      BY <1>1, <1>6, <2>5, <3>1, <3>2 DEF WorkerInv
  <2> HIDE DEF L
  <2>11. ASSUME NEW x \in ClientStates, x.want = "GET_REPLY"
         PROVE  Answers(x, p) /\ Uploads(x, v, <<>>, p) /\ Downloads(x, v, p)
    <3>1. p[1].status
      BY <2>4, <2>7, Zenon
    <3>2. Begun(p, 2, p[2].size)
      <4>1. Len(p) <= 2 + L /\ \A j \in 1 .. Len(p) : ~ (j > 2)
        BY <2>1, <2>7
      <4> QED
        BY <2>3, <2>7, <4>1 DEF Begun
    <3>3. /\ Len(p) >= 2 /\ p[1].type = "GET_REPLY" /\ p[2].type = "FILE_DATA"
      BY <2>2, <2>3, <2>7
    <3>4. x.want \notin {"nothing", "header", "sending", "OPEN_CONN_REPLY", "AUTH_REPLY", "PUT_REPLY",
                         "QUIT_REPLY", "LIST_REPLY", "FILE_DATA", "data"}
      BY <2>11
    <3>5. Answers(x, p)
      BY <3>1, <3>2, <3>3, <3>4, Zenon DEF Answers
    <3>6. Uploads(x, v, <<>>, p)
      BY <2>5, <2>11 DEF Uploads, Put
    <3>7. Downloads(x, v, p)
      <4>1. Len(p) = 2 + v.offset /\ p[2].size = v.size
        BY <2>3, <2>5, <2>7
      <4> QED
        BY <2>11, <3>1, <4>1, Zenon DEF Downloads
    <3> QED
      BY <3>5, <3>6, <3>7
  <2>12. v.at \in {"service", "download", "upload"} /\ UNCHANGED clientVars
    BY <1>6, <2>5
  <2> HIDE DEF w
  <2>13. worker[k].at = "service"
    BY <1>1 DEF w
  <2> HIDE DEF n
  <2> QED
    BY <1>1, <1>3, <1>6, <2>5, <2>6, <2>7, <2>8, <2>9, <2>10, <2>11, <2>12, <2>13, RequestServed, ZenonT(40)
<1>7. CASE Fail(k, "fstat", <<Header("GET_REPLY", TRUE, 0)>>)
  <2> DEFINE h == Header("GET_REPLY", TRUE, 0)
             p == <<h>>
             c == owner[k]
             y == client[c]
             s == toServer[k]
             t == toClient[k]
  <2>1. h \in Units /\ h.type = "GET_REPLY"
    BY <1>4, HeaderUnit
  <2> HIDE DEF h
  <2>2. p \in Seq(Units) /\ Len(p) = 1 /\ p[1] = h /\ <<>> \o p = p
    BY <2>1, OneUnit
  <2>3. Fail(k, "fstat", p)
    BY <1>7 DEF h
  <2> HIDE DEF p
  <2>4. Listings(p)
    BY <2>1, <2>2 DEF Listings
  <2>5. OneHeader(p, "GET_REPLY")
    BY <2>1, <2>2 DEF OneHeader
  <2>6. worker[k].at # "none" /\ c = owner[k] /\ y = client[c] /\ w.at # "none"
    BY <1>1
  <2>7. /\ s \in Seq(Units) /\ t \in Seq(Units) /\ Sent(y, w, s)
        /\ y.state # "Gone" /\ c \notin NoDir => Step(y, w, s, t)
    BY <1>1, <2>6, ServerFacts
  <2>8. Serves(w) /\ Owed(w) = 0 /\ Offset(w) = 0
    BY <1>1 DEF Serves, Main, Owed, Offset
  <2>9. y.state # "Gone" /\ c \notin NoDir => y.want = "GET_REPLY" /\ t = <<>>
    <3> SUFFICES ASSUME y.state # "Gone", c \notin NoDir PROVE y.want = "GET_REPLY" /\ t = <<>>
      OBVIOUS
    <3>1. OneRequest(y, w, s, t) /\ Framed(s, 0, 0)
      BY <2>7, <2>8 DEF Step, Sent
    <3>2. s # <<>> /\ s[1].type = "GET_REQUEST" /\ 1 \in 1 .. Len(s)
      BY <1>1, <2>7, TailOf
    <3>3. IsHeader(s[1])
      BY <3>2 DEF IsHeader
    <3> QED
      BY <1>3, <3>1, <3>2, <3>3 DEF OneRequest
  <2>10. y.state # "Gone" /\ c \notin NoDir /\ y.fd = k => Answers(y, t \o p)
    <3> SUFFICES ASSUME y.want = "GET_REPLY", t = <<>> PROVE Answers(y, t \o p)
      BY <2>9
    <3>1. t \o p = p
      BY <2>2
    <3> QED
      BY <2>5, <3>1 DEF Answers
  <2> HIDE DEF c, y, s, w
  <2> QED
    BY <1>1, <2>2, <2>3, <2>4, <2>6, <2>10, FailMoves
<1>8. CASE RecvError(k, 2)
  BY <1>8, Ends DEF RecvError
<1> QED
  BY ONLY beDownload(k), <1>2, <1>5, <1>6, <1>7, <1>8 DEF beDownload

LEMMA PutServed ==
    ASSUME FtpInv, NEW k \in Conns, beUpload(k)
    PROVE  FtpInv'
<1> DEFINE n == toServer[k][2].what
           w == worker[k]
<1>1. /\ serving /\ w.at = "service" /\ w \in WorkerStates /\ n \in Names /\ TypeInv
      /\ toServer[k] # <<>> /\ toServer[k][1].type = "PUT_REQUEST"
  BY Queried DEF beUpload
<1>2. CASE SendError(k)
  BY <1>2, Ends DEF SendError
<1>3. "PUT_REQUEST" \in Requests /\ Taken("PUT_REQUEST") = 2 /\ Answer("PUT_REQUEST") = "PUT_REPLY"
  BY DEF Requests, Taken, Answer
<1>4. CASE /\ Take(k, 2)
           /\ file' = [file EXCEPT ![n] = IF @ = None THEN <<>> ELSE @]
           /\ worker' = [worker EXCEPT ![k] = [at |-> "upload", name |-> n, size |-> 0, offset |-> 0]]
           /\ Send(k, <<Header("PUT_REPLY", TRUE, 0)>>)
           /\ UNCHANGED clientVars
  <2> DEFINE h == Header("PUT_REPLY", TRUE, 0)
             p == <<h>>
             v == [at |-> "upload", name |-> n, size |-> 0, offset |-> 0]
  <2>1. h \in Units /\ h.type = "PUT_REPLY"
    <3>1. "PUT_REPLY" \in Kinds /\ TRUE \in BOOLEAN /\ 0 \in Nat
      BY DEF Kinds
    <3> QED
      BY <3>1, HeaderUnit
  <2>2. v \in WorkerStates /\ v.at = "upload" /\ v.name = n /\ v.size = 0 /\ v.offset = 0
    <3>1. "upload" \in Places /\ n \in Names \cup {None} /\ 0 \in Nat
      BY <1>1 DEF Places
    <3> HIDE DEF n
    <3> QED
      BY <3>1 DEF WorkerStates
  <2>3. worker' = [worker EXCEPT ![k] = v] /\ Send(k, p)
    BY <1>4
  <2> HIDE DEF h, v
  <2>4. p \in Seq(Units) /\ Len(p) = 1 /\ p[1] = h
    BY <2>1, OneUnit
  <2> HIDE DEF p
  <2>5. Listings(p)
    BY <2>1, <2>4 DEF Listings
  <2>6. /\ file' \in [Names -> Seq(Units) \cup {None}] /\ file'[n] # None
        /\ \A m \in Names : file'[m] = file[m] \/ (file[m] = None /\ file'[m] = <<>>)
    <3>1. file \in [Names -> Seq(Units) \cup {None}]
      BY <1>1 DEF TypeInv
    <3> DEFINE f == IF file[n] = None THEN <<>> ELSE file[n]
    <3>2. f \in Seq(Units) \cup {None} /\ f # None /\ (f = file[n] \/ (file[n] = None /\ f = <<>>))
      <4>1. <<>> \in Seq(Units)
        BY NoUnits
      <4>2. <<>> # None
        BY <4>1, FtpAssumption
      <4> QED
        BY <1>1, <3>1, <4>1, <4>2
    <3>3. file' = [file EXCEPT ![n] = f]
      BY <1>4
    <3> HIDE DEF f, n
    <3> QED
      BY <1>1, <3>1, <3>2, <3>3
  <2>7. FilesGrow
    <3>1. \A m \in Names : FileInv(m)'
      <4> SUFFICES ASSUME NEW m \in Names PROVE FileInv(m)'
        OBVIOUS
      <4>1. CASE file'[m] = file[m]
        BY <4>1 DEF FileInv, FtpInv
      <4>2. CASE file'[m] = <<>>
        BY <4>2, NoUnits, Zenon DEF FileInv
      <4> QED
        BY <2>6, <4>1, <4>2
    <3>2. \A m \in Names : file[m] # None => file'[m] # None /\ Len(file'[m]) >= Len(file[m])
      <4> SUFFICES ASSUME NEW m \in Names, file[m] # None
                   PROVE  file'[m] # None /\ Len(file'[m]) >= Len(file[m])
        OBVIOUS
      <4>1. file'[m] = file[m] /\ Len(file[m]) \in Nat
        BY <1>1, <2>6 DEF TypeInv
      <4>2. Len(file[m]) >= Len(file[m])
        BY <4>1
      <4> QED
        BY <4>1, <4>2
    <3> QED
      BY <2>6, <3>1, <3>2 DEF FilesGrow
  <2>8. WorkerInv(k)'
    <3>1. worker'[k] = v
      BY <1>1, <2>3 DEF TypeInv
    <3> HIDE DEF n
    <3> QED
      BY <1>1, <2>2, <2>6, <3>1 DEF WorkerInv
  <2>9. ASSUME NEW x \in ClientStates, x.want = "PUT_REPLY"
        PROVE  Answers(x, p) /\ Uploads(x, v, <<>>, p) /\ Downloads(x, v, p)
    <3>0. p # <<>>
      <4> SUFFICES ASSUME p = <<>> PROVE FALSE
        OBVIOUS
      <4>1. Len(p) = 0
        BY NoUnits, Zenon
      <4> QED
        BY ONLY <2>4, <4>1
    <3>1. OneHeader(p, "PUT_REPLY") /\ p # <<>>
      BY <2>1, <2>4, <3>0 DEF OneHeader
    <3>2. Answers(x, p)
      BY <2>9, <3>1 DEF Answers
    <3> QED
      BY <2>2, <2>9, <3>1, <3>2 DEF Uploads, Put, Downloads
  <2>10. v.at \in {"service", "download", "upload"} /\ UNCHANGED clientVars
    BY <1>4, <2>2
  <2> HIDE DEF w
  <2>11. worker[k].at = "service"
    BY <1>1 DEF w
  <2> HIDE DEF n
  <2> QED
    BY <1>1, <1>3, <1>4, <2>2, <2>3, <2>4, <2>5, <2>7, <2>8, <2>9, <2>10, <2>11, RequestServed
<1>5. CASE Fail(k, "open", <<>>)
  BY <1>1, <1>5, FailsSilently
<1>6. CASE RecvError(k, 2)
  BY <1>6, Ends DEF RecvError
<1> QED
  BY ONLY beUpload(k), <1>2, <1>4, <1>5, <1>6 DEF beUpload
-----------------------------------------------------------------------------
(* The end of a session, and uploads *)

LEMMA Closes ==
    ASSUME FtpInv, NEW k \in Conns, client_close(k)
    PROVE  FtpInv'
<1> DEFINE c == owner[k]
           y == client[c]
           w == worker[k]
           s == toServer[k]
           t == toClient[k]
           v == Idle("closed")
           h == Header("QUIT_REPLY", TRUE, 0)
           p == <<h>>
           u == Reached(y, t, p)
           Others == {"LIST_REQUEST", "GET_REQUEST", "PUT_REQUEST"}
<1>1. serving /\ w.at = "service"
  BY DEF client_close, At
<1>2. /\ TypeInv /\ s \in Seq(Units) /\ t \in Seq(Units) /\ Phase(k, c, y, w, s, t) /\ c # None
      /\ Sent(y, w, s)
      /\ (PeerGone(k) <=> y.state = "Gone")
      /\ y.state # "Gone" /\ c \in NoDir => Stray(k, y, t)
      /\ y.state # "Gone" /\ c \notin NoDir => Step(y, w, s, t)
  BY <1>1, ServerFacts
<1>3. CASE Down /\ k \in reset
  BY <1>3, Ends
<1>4. CASE /\ \/ Ended(k, 1) /\ UNCHANGED toServer
              \/ Has(k, 1) /\ Take(k, 1) /\ Head(s).type \notin Others
           /\ Send(k, p) /\ Goto(k, "closed") /\ UNCHANGED <<clientVars, file>>
  <2>1. h \in Units /\ h.type = "QUIT_REPLY"
    <3>1. "QUIT_REPLY" \in Kinds /\ TRUE \in BOOLEAN /\ 0 \in Nat
      BY DEF Kinds
    <3> QED
      BY <3>1, HeaderUnit
  <2> HIDE DEF h
  <2>2. p \in Seq(Units) /\ Len(p) = 1 /\ p[1] = h /\ <<>> \o p = p
    BY <2>1, OneUnit
  <2> HIDE DEF p
  <2>3. toClient' = [toClient EXCEPT ![k] = u] /\ u \in Seq(Units) /\ Resets(k) /\ UNCHANGED serving
    BY <1>1, <1>4, <2>2, Sends
  <2>4. PICK r \in Seq(Units) : toServer' = [toServer EXCEPT ![k] = r]
    <3>1. CASE UNCHANGED toServer
      BY <1>2, <3>1 DEF TypeInv
    <3>2. CASE Take(k, 1)
      <4>1. Rest(s, 1) \in Seq(Units)
        BY <1>2 DEF Rest
      <4>2. toServer' = [toServer EXCEPT ![k] = Rest(s, 1)]
        BY <1>2, <3>2 DEF Take, TypeInv, Rest
      <4> QED
        BY <4>1, <4>2
    <3> QED
      BY <1>4, <3>1, <3>2
  <2>5. v \in WorkerStates /\ v.at = "closed" /\ v.offset = 0 /\ v.size = 0
    BY IdleWorker DEF Places
  <2>6. worker' = [worker EXCEPT ![k] = v] /\ worker'[k] = v
    BY <1>2, <1>4 DEF Goto, TypeInv
  <2> HIDE DEF v
  <2>7. FilesGrow /\ WorkerInv(k)'
    BY <1>4, <2>5, <2>6, FilesKept, IdleInv
  <2>8. serving /\ worker[k].at # "none" /\ c = owner[k] /\ y = client[c] /\ v.at # "none"
    BY <1>1, <2>5
  <2>9. FtpInv /\ k \in Conns /\ UNCHANGED <<clientVars, serving>>
    BY <1>4, <2>3
  <2>10. y.state # "Gone" => s # <<>> /\ s[1].type \notin Others
    <3>1. Has(k, 1) => s # <<>>
      BY Had
    <3> QED
      BY <1>2, <1>4, <3>1, TailOf DEF Ended
  <2> HIDE DEF c, y, w, s, t, u
  <2>11. Authenticated(k, y, w, s, t)
    BY <1>1, <1>2 DEF Phase, Main
  <2>12. y.state # "Gone" => y.fd = k /\ y.state = "IS_MAIN"
    BY <2>10, <2>11, Zenon DEF Authenticated
  <2>13. Phase(k, c, y, v, r, u)
    BY <1>2, <2>5, <2>12 DEF Phase, Main, Authenticated
  <2>14. Sent(y, v, r) /\ Step(y, v, r, u)
    BY <2>5 DEF Sent, Step, Serves, Main
  <2>15. y.state # "Gone" /\ c \in NoDir => Stray(k, y, u)
    <3>1. Listings(p)
      BY <2>1, <2>2 DEF Listings
    <3> QED
      BY <1>2, <2>2, <3>1, StrayMore DEF u, Reached
  <2>16. y.state # "Gone" /\ c \notin NoDir => y.want = "QUIT_REPLY" /\ u = p
    <3> SUFFICES ASSUME y.state # "Gone", c \notin NoDir PROVE y.want = "QUIT_REPLY" /\ u = p
      OBVIOUS
    <3>1. Serves(w) /\ Owed(w) = 0 /\ Offset(w) = 0
      BY <1>1 DEF Serves, Main, Owed, Offset
    <3>2. OneRequest(y, w, s, t) /\ Framed(s, 0, 0)
      BY <1>2, <3>1 DEF Step, Sent
    <3>3. s # <<>> /\ s[1].type \notin Others /\ 1 \in 1 .. Len(s)
      BY <1>2, <2>10, TailOf
    <3>4. IsHeader(s[1])
      BY <1>2, <3>2, <3>3, TakeHeader
    <3>5. y.want = Answer(s[1].type) /\ t = <<>>
      BY <1>1, <3>2, <3>3, <3>4 DEF OneRequest
    <3>6. Answer(s[1].type) = "QUIT_REPLY"
      BY <3>3 DEF Answer
    <3> QED
      BY <2>2, <3>5, <3>6 DEF u, Reached
  <2>17. y.state # "Gone" /\ c \notin NoDir /\ y.fd = k => Answers(y, u)
    <3>1. OneHeader(p, "QUIT_REPLY")
      BY <2>1, <2>2 DEF OneHeader
    <3> QED
      BY <2>16, <3>1 DEF Answers
  <2> QED
    BY ONLY <2>3, <2>4, <2>5, <2>6, <2>7, <2>8, <2>9, <2>13, <2>14, <2>15, <2>17, ServerMoves
<1> QED
  BY ONLY client_close(k), <1>3, <1>4 DEF client_close, RecvError, SendError

\* An authenticated session goes on with what it was sent, and sends nothing.
LEMMA TakesOn ==
    ASSUME FtpInv, serving, NEW k \in Conns, Serves(worker[k]), worker[k].at # "service",
           NEW v \in WorkerStates, worker' = [worker EXCEPT ![k] = v], Serves(v),
           NEW s \in Seq(Units), toServer' = [toServer EXCEPT ![k] = s],
           UNCHANGED <<clientVars, toClient, serving, reset>>, FilesGrow, WorkerInv(k)',
           NEW c, c = owner[k], NEW y, y = client[c], NEW t, t = toClient[k],
           Framed(s, Owed(v), Offset(v)), Loaded(s),
           y.state # "Gone" => Lacks(s, Owed(v), Offset(v), 0),
           y.state # "Gone" /\ c \notin NoDir =>
               OneRequest(y, v, s, t) /\ Uploads(y, v, s, t) /\ Downloads(y, v, t)
    PROVE  FtpInv'
<1> DEFINE w == worker[k]
           q == toServer[k]
<1>1. w.at \in Main /\ w.at # "none" /\ v.at \in Main /\ v.at # "none"
  BY DEF Serves, Main
<1>2. /\ TypeInv /\ q \in Seq(Units) /\ t \in Seq(Units) /\ Phase(k, c, y, w, q, t) /\ c # None
      /\ Sent(y, w, q)
      /\ y.state # "Gone" /\ c \in NoDir => Stray(k, y, t)
      /\ y.state # "Gone" /\ c \notin NoDir /\ y.fd = k => Answers(y, t)
  BY <1>1, ServerFacts
<1>3. toClient' = [toClient EXCEPT ![k] = t] /\ Resets(k)
  BY <1>2 DEF TypeInv, Resets
<1>4. Authenticated(k, y, w, q, t) /\ w.at # "service"
  BY <1>1, <1>2 DEF Phase
<1>5. Sent(y, v, s)
  BY DEF Sent
<1>6. y.state # "Gone" /\ c \notin NoDir => Step(y, v, s, t)
  BY DEF Step
<1>7. /\ FtpInv /\ k \in Conns /\ UNCHANGED <<clientVars, serving>> /\ FilesGrow /\ WorkerInv(k)'
      /\ serving /\ worker[k].at # "none" /\ c = owner[k] /\ y = client[c]
      /\ worker' = [worker EXCEPT ![k] = v] /\ v \in WorkerStates
      /\ s \in Seq(Units) /\ toServer' = [toServer EXCEPT ![k] = s]
  BY <1>1
<1> HIDE DEF w, q
<1>8. Phase(k, c, y, v, s, t)
  <2>1. Authenticated(k, y, v, s, t)
    BY ONLY <1>4, Zenon DEF Authenticated
  <2>2. v.at \notin {"queue", "connection", "authentication", "failed"}
    BY ONLY <1>1 DEF Main
  <2> QED
    BY ONLY <1>1, <1>2, <2>1, <2>2 DEF Phase
<1> QED
  BY ONLY <1>1, <1>2, <1>3, <1>5, <1>6, <1>7, <1>8, ServerMoves

\* What a client in step has under way, when the first n units have been taken.
LEMMA RestRequests ==
    ASSUME NEW y, NEW w, NEW v, NEW s \in Seq(Units), NEW t, NEW n \in 1 .. Len(s),
           OneRequest(y, w, s, t)
    PROVE  OneRequest(y, v, Rest(s, n), t)
<1> DEFINE r == Rest(s, n)
<1>1. n \in 0 .. Len(s) /\ n \in Nat /\ n >= 1 /\ Len(s) \in Nat
  OBVIOUS
<1>2. /\ Len(r) = Len(s) - n /\ r \in Seq(Units)
      /\ \A j \in 1 .. Len(r) : r[j] = s[j + n] /\ j + n \in 1 .. Len(s)
  BY <1>1, RestOf
<1> HIDE DEF r
<1> SUFFICES ASSUME NEW i \in 1 .. Len(r), IsHeader(r[i])
             PROVE  IF r[i].type = "FILE_DATA" THEN i = 1 /\ v.at = "upload"
                    ELSE y.want = Answer(r[i].type) /\ t = <<>> /\ i + r[i].size = Len(r)
  BY DEF OneRequest, r
<1>3. r[i] = s[i + n] /\ i + n \in 1 .. Len(s) /\ r[i] \in Units
  BY <1>2
<1>4. i + n # 1
  BY <1>1
<1>5. PICK z \in Nat : z = r[i].size
  BY <1>3, HeaderSize
<1>6. r[i].type # "FILE_DATA" /\ y.want = Answer(r[i].type) /\ t = <<>> /\ (i + n) + z = Len(s)
  BY <1>3, <1>4, <1>5 DEF OneRequest
<1>7. i + z = Len(r)
  <2>1. i \in Nat /\ (i + n) + z = Len(s)
    BY <1>6
  <2>2. i + z = Len(s) - n
    BY ONLY <1>1, <1>5, <2>1
  <2> QED
    BY <1>2, <2>2
<1> QED
  BY <1>5, <1>6, <1>7

LEMMA SizeTaken ==
    ASSUME FtpInv, NEW k \in Conns, UploadSize(k)
    PROVE  FtpInv'
<1> DEFINE c == owner[k]
           y == client[c]
           w == worker[k]
           s == toServer[k]
           t == toClient[k]
<1>1. serving /\ w.at = "upload"
  BY DEF UploadSize, At
<1>2. Serves(w) /\ w.at # "service" /\ Owed(w) = 0 /\ Offset(w) = 0 /\ w.at # "none"
  BY <1>1 DEF Serves, Main, Owed, Offset
<1>3. /\ TypeInv /\ s \in Seq(Units) /\ t \in Seq(Units) /\ c # None /\ w \in WorkerStates
      /\ y \in ClientStates
      /\ Framed(s, 0, 0) /\ Loaded(s) /\ (y.state # "Gone" => Lacks(s, 0, 0, 0))
      /\ (PeerGone(k) <=> y.state = "Gone") /\ WorkerInv(k)
      /\ y.state # "Gone" /\ c \notin NoDir => Step(y, w, s, t)
  BY <1>1, <1>2, ServerFacts DEF Sent
<1>4. w.offset = 0 /\ w.size = 0 /\ w.name \in Names /\ file[w.name] # None
  BY <1>1, <1>3 DEF WorkerInv
<1>5. CASE RecvError(k, 1)
  BY <1>5, Ends DEF RecvError
<1> DEFINE a == Idle("service")
<1>6. a \in WorkerStates /\ a.at = "service" /\ a.offset = 0 /\ a.size = 0
  BY IdleWorker DEF Places
<1>7. Serves(a) /\ Owed(a) = 0 /\ Offset(a) = 0
  BY <1>6 DEF Serves, Main, Owed, Offset
<1>8. CASE /\ Ended(k, 1) /\ Goto(k, "service")
           /\ UNCHANGED <<clientVars, toServer, toClient, file, serving, reset>>
  <2>1. y.state = "Gone"
    BY <1>3, <1>8 DEF Ended
  <2>2. worker' = [worker EXCEPT ![k] = a] /\ worker'[k] = a /\ toServer' = [toServer EXCEPT ![k] = s]
    BY <1>3, <1>8 DEF Goto, TypeInv
  <2> HIDE DEF a
  <2>3. FilesGrow /\ WorkerInv(k)'
    BY <1>6, <1>8, <2>2, FilesKept, IdleInv
  <2>4. /\ FtpInv /\ serving /\ k \in Conns /\ Serves(worker[k]) /\ worker[k].at # "service"
        /\ c = owner[k] /\ y = client[c] /\ t = toClient[k]
        /\ Framed(s, Owed(a), Offset(a)) /\ Loaded(s)
    BY <1>1, <1>2, <1>3, <1>7
  <2> HIDE DEF c, y, w, s, t
  <2> QED
    BY ONLY <1>3, <1>6, <1>7, <1>8, <2>1, <2>2, <2>3, <2>4, TakesOn
<1>9. CASE /\ s # <<>> /\ Take(k, 1)
           /\ IF Head(s).size = 0 THEN Goto(k, "service")
              ELSE worker' = [worker EXCEPT ![k].size = Head(s).size, ![k].at = "blocks"]
           /\ UNCHANGED <<clientVars, toClient, file, serving, reset>>
  <2> DEFINE z == s[1].size
             r == Rest(s, 1)
             b == [w EXCEPT !.size = z, !.at = "blocks"]
             v == IF z = 0 THEN a ELSE b
  <2>1. /\ Head(s) = s[1] /\ IsHeader(s[1]) /\ z \in Nat /\ Framed(r, z, 0)
        /\ y.state # "Gone" => Lacks(r, z, 0, 0)
        /\ 1 \in 1 .. Len(s) /\ 1 \in 0 .. Len(s)
    <3>1. Head(s) = s[1] /\ 1 \in 1 .. Len(s) /\ 1 \in 0 .. Len(s)
      BY <1>3, <1>9, TailOf
    <3>2. 0 \in Nat
      BY <1>3
    <3> HIDE DEF c, y, s, r
    <3>3. IsHeader(s[1]) /\ z \in Nat /\ Framed(r, z, 0)
      BY <1>3, <1>9, TakeHeader DEF r
    <3>4. y.state # "Gone" => Lacks(r, z, 0, 0)
      BY <1>3, <1>9, <3>2, <3>3, LacksHeader DEF r
    <3> QED
      BY <3>1, <3>3, <3>4
  <2>2. r \in Seq(Units) /\ Loaded(r)
    BY <1>3, <2>1, RestOf, RestLoaded
  <2>3. toServer' = [toServer EXCEPT ![k] = r]
    BY <1>3, <1>9 DEF Take, TypeInv, Rest
  <2>4. /\ b \in WorkerStates /\ b.at = "blocks" /\ b.size = z /\ b.offset = 0 /\ b.name = w.name
    <3>1. "blocks" \in Places
      BY DEF Places
    <3> HIDE DEF z
    <3> QED
      BY <1>3, <1>4, <2>1, <3>1 DEF WorkerStates
  <2>5. worker' = [worker EXCEPT ![k] = v] /\ worker'[k] = v
    <3>1. z = 0 => worker' = [worker EXCEPT ![k] = a]
      BY <1>9, <2>1 DEF Goto
    <3>2. z # 0 => worker' = [worker EXCEPT ![k] = b]
      BY <1>3, <1>9, <2>1 DEF TypeInv, WorkerStates
    <3> HIDE DEF a, b, z
    <3> QED
      BY <1>3, <3>1, <3>2 DEF TypeInv
  <2> HIDE DEF a, b, z
  <2>6. /\ v \in WorkerStates /\ Serves(v) /\ v.at # "upload" /\ v.at # "download"
        /\ Owed(v) = z /\ Offset(v) = 0
    <3>1. Serves(b) /\ Owed(b) = z /\ Offset(b) = 0
      <4>1. z - 0 = z
        BY <2>1
      <4> QED
        BY <2>4, <4>1 DEF Serves, Main, Owed, Offset
    <3> QED
      BY <1>6, <1>7, <2>4, <3>1
  <2>7. FilesGrow /\ WorkerInv(k)'
    <3>1. FilesGrow /\ file' = file
      BY <1>9, FilesKept
    <3>2. CASE z = 0
      BY <1>6, <2>5, <3>1, <3>2, IdleInv
    <3>3. CASE z # 0
      <4>1. worker'[k] = b
        BY <2>5, <3>3
      <4>2. Len(file[w.name]) \in Nat
        BY <1>3, <1>4 DEF TypeInv
      <4>3. 0 <= Len(file[w.name]) /\ 0 < z
        BY <2>1, <3>3, <4>2
      <4> QED
        BY <1>4, <2>4, <3>1, <4>1, <4>3 DEF WorkerInv
    <3> QED
      BY <3>1, <3>2, <3>3
  <2> HIDE DEF v
  <2>8. /\ FtpInv /\ serving /\ k \in Conns /\ Serves(worker[k]) /\ worker[k].at # "service"
        /\ c = owner[k] /\ y = client[c] /\ t = toClient[k]
        /\ Framed(r, Owed(v), Offset(v)) /\ (y.state # "Gone" => Lacks(r, Owed(v), Offset(v), 0))
        /\ UNCHANGED <<clientVars, toClient, serving, reset>>
        /\ worker' = [worker EXCEPT ![k] = v]
    BY <1>1, <1>2, <1>9, <2>1, <2>5, <2>6
  <2>9. y.state # "Gone" /\ c \notin NoDir =>
            OneRequest(y, v, r, t) /\ Uploads(y, v, r, t) /\ Downloads(y, v, t)
    <3> SUFFICES ASSUME y.state # "Gone", c \notin NoDir
                 PROVE  OneRequest(y, v, r, t) /\ Uploads(y, v, r, t) /\ Downloads(y, v, t)
      OBVIOUS
    <3>1. OneRequest(y, w, s, t) /\ Uploads(y, w, s, t)
      BY <1>2, <1>3 DEF Step
    <3> HIDE DEF y, w, s, t, c
    <3>2. OneRequest(y, v, r, t)
      BY <1>3, <2>1, <3>1, RestRequests DEF r
    <3>3. ~ Put(y, t)
      BY <1>9, <3>1 DEF Uploads
    <3> QED
      BY <2>6, <3>2, <3>3 DEF Uploads, Downloads
  <2> HIDE DEF c, y, w, s, t, r
  <2> QED
    BY ONLY <2>2, <2>3, <2>6, <2>7, <2>8, <2>9, TakesOn
<1>10. Has(k, 1) => s # <<>>
  BY Had
<1> QED
  BY ONLY UploadSize(k), <1>5, <1>8, <1>9, <1>10 DEF UploadSize
-----------------------------------------------------------------------------
(* Blocks *)

LEMMA SmallerOf ==
    ASSUME NEW size \in Nat, NEW offset \in Nat, offset <= size
    PROVE  LET n == Smaller(Block, size - offset) IN
           /\ n \in Nat /\ offset + n <= size /\ n <= size - offset /\ size - offset \in Nat
           /\ offset < size => n >= 1
BY FtpAssumption DEF Smaller

\* A block of n units has been done, by worker w, that goes on as v.
Proceeds(w, v, n) ==
    \/ w.offset + n = w.size /\ v.at = "service" /\ v.offset = 0 /\ v.size = 0
    \/ w.offset + n < w.size /\ v.at = w.at /\ v.offset = w.offset + n /\ v.size = w.size /\ v.name = w.name

LEMMA Progresses ==
    ASSUME TypeInv, NEW k \in Conns, worker[k].offset <= worker[k].size, Progress(k)
    PROVE  \E v \in WorkerStates :
               worker' = [worker EXCEPT ![k] = v] /\ worker'[k] = v /\ Proceeds(worker[k], v, NextBlock(k))
<1> DEFINE w == worker[k]
           n == NextBlock(k)
<1>1. w \in WorkerStates /\ w.size \in Nat /\ w.offset \in Nat
  BY DEF TypeInv, WorkerStates
<1>2. n \in Nat /\ w.offset + n <= w.size /\ w.offset + n \in Nat
  <2>1. n \in Nat /\ w.offset + n <= w.size
    BY <1>1, SmallerOf DEF NextBlock
  <2> QED
    BY <1>1, <2>1
<1>3. CASE w.offset + n = w.size
  <2> DEFINE v == Idle("service")
  <2>1. v \in WorkerStates /\ v.at = "service" /\ v.offset = 0 /\ v.size = 0
    BY IdleWorker DEF Places
  <2>2. worker' = [worker EXCEPT ![k] = v]
    BY <1>3 DEF Progress, Goto
  <2> HIDE DEF v
  <2>3. worker'[k] = v
    BY <2>2 DEF TypeInv
  <2>4. Proceeds(w, v, n)
    BY <1>3, <2>1 DEF Proceeds
  <2> QED
    BY <2>1, <2>2, <2>3, <2>4
<1>4. CASE w.offset + n # w.size
  <2> DEFINE v == [w EXCEPT !.offset = w.offset + n]
  <2>1. worker' = [worker EXCEPT ![k].offset = @ + n]
    BY <1>4 DEF Progress
  <2>2. worker' = [worker EXCEPT ![k] = v]
    BY <1>1, <2>1 DEF TypeInv, WorkerStates
  <2> HIDE DEF n
  <2>3. v \in WorkerStates /\ v.offset = w.offset + n /\ v.at = w.at /\ v.size = w.size /\ v.name = w.name
    BY <1>1, <1>2 DEF WorkerStates
  <2> HIDE DEF v
  <2>4. worker'[k] = v
    BY <2>2 DEF TypeInv
  <2>5. Proceeds(w, v, n)
    <3>1. w.offset + n < w.size
      BY <1>1, <1>2, <1>4
    <3> QED
      BY <2>3, <3>1 DEF Proceeds
  <2> QED
    BY <2>2, <2>3, <2>4, <2>5 DEF n
<1> QED
  BY <1>3, <1>4

LEMMA OverwriteOf ==
    ASSUME NEW f \in Seq(Units), NEW offset \in 0 .. Len(f), NEW p \in Seq(Units),
           \A i \in 1 .. Len(f) : InPlace(f[i], i),
           \A j \in 1 .. Len(p) : InPlace(p[j], offset + j)
    PROVE  LET g == Overwrite(f, offset, p) IN
           /\ g \in Seq(Units) /\ Len(g) >= Len(f) /\ Len(g) >= offset + Len(p)
           /\ \A i \in 1 .. Len(g) : InPlace(g[i], i)
<1> DEFINE m == offset + Len(p)
           a == [i \in 1 .. m |-> IF i > offset THEN p[i - offset]
                                  ELSE IF i <= Len(f) THEN f[i] ELSE FileUnit(None, 0)]
           b == SubSeq(f, m + 1, Len(f))
           g == a \o b
<1>1. m \in Nat /\ offset \in Nat /\ Len(p) \in Nat /\ Len(f) \in Nat /\ offset <= Len(f)
  OBVIOUS
<1>2. ASSUME NEW i \in 1 .. m
      PROVE  a[i] \in Units /\ InPlace(a[i], i)
  <2>1. CASE i > offset
    <3>1. i - offset \in 1 .. Len(p) /\ offset + (i - offset) = i
      BY <1>1, <2>1
    <3>2. a[i] = p[i - offset]
      BY <2>1
    <3> QED
      BY <3>1, <3>2
  <2>2. CASE ~ (i > offset)
    <3>1. i \in 1 .. Len(f) /\ i <= Len(f)
      BY <1>1, <2>2
    <3>2. a[i] = f[i]
      BY <2>2, <3>1
    <3> QED
      BY <3>1, <3>2
  <2> QED
    BY <2>1, <2>2
<1>3. a \in Seq(Units) /\ Len(a) = m
  BY <1>1, <1>2
<1> HIDE DEF a, m
<1>4. /\ b \in Seq(Units) /\ Len(b) = IF m <= Len(f) THEN Len(f) - m ELSE 0
      /\ \A j \in 1 .. Len(b) : b[j] = f[j + m] /\ j + m \in 1 .. Len(f)
  <2>1. CASE m <= Len(f)
    <3>1. m \in 0 .. Len(f) /\ b = Rest(f, m)
      BY <1>1, <2>1 DEF Rest
    <3> QED
      BY <2>1, <3>1, RestOf
  <2>2. CASE m > Len(f)
    <3>1. b \in Seq(Units) /\ Len(b) = 0
      BY <1>1, <2>2
    <3> HIDE DEF b
    <3> QED
      BY <1>1, <2>2, <3>1
  <2> QED
    BY <1>1, <2>1, <2>2, SMTT(30)
<1> HIDE DEF b
<1>5. /\ g \in Seq(Units) /\ Len(g) = m + Len(b)
      /\ \A j \in 1 .. m : g[j] = a[j]
      /\ \A j \in 1 .. Len(b) : g[m + j] = b[j]
  <2>1. a \in Seq(Units) /\ b \in Seq(Units)
    BY <1>3, <1>4
  <2>2. /\ a \o b \in Seq(Units) /\ Len(a \o b) = Len(a) + Len(b)
        /\ \A j \in 1 .. Len(a) : (a \o b)[j] = a[j]
        /\ \A j \in 1 .. Len(b) : (a \o b)[Len(a) + j] = b[j]
    BY ONLY <2>1, JoinOf
  <2>3. Len(a) = m
    BY <1>3
  <2> QED
    BY ONLY <2>2, <2>3, Zenon DEF g
<1> HIDE DEF g
<1>6. Len(b) \in Nat
  BY <1>4
<1>7. Len(g) >= Len(f) /\ Len(g) >= m
  BY <1>1, <1>4, <1>5, <1>6
<1>8. ASSUME NEW i \in 1 .. Len(g) PROVE InPlace(g[i], i)
  <2>1. CASE i \in 1 .. m
    BY <1>2, <1>5, <2>1
  <2>2. CASE i > m
    <3>1. i - m \in 1 .. Len(b) /\ m + (i - m) = i /\ (i - m) + m = i
      BY <1>1, <1>5, <1>6, <2>2
    <3>2. g[i] = b[i - m]
      BY <1>5, <3>1
    <3>3. b[i - m] = f[i] /\ i \in 1 .. Len(f)
      BY <1>4, <3>1
    <3> QED
      BY <3>2, <3>3
  <2> QED
    BY <1>1, <2>1, <2>2
<1>9. g = Overwrite(f, offset, p)
  BY DEF g, a, b, m, Overwrite
<1> QED
  BY <1>5, <1>7, <1>8, <1>9 DEF m

LEMMA BlockTaken ==
    ASSUME FtpInv, NEW k \in Conns, UploadBlock(k)
    PROVE  FtpInv'
<1> DEFINE c == owner[k]
           y == client[c]
           w == worker[k]
           s == toServer[k]
           t == toClient[k]
           n == NextBlock(k)
           p == SubSeq(s, 1, n)
           r == Rest(s, n)
           f == file[w.name]
           g == Overwrite(f, w.offset, p)
<1>1. serving /\ w.at = "blocks"
  BY DEF UploadBlock, At
<1>2. CASE RecvError(k, n)
  BY <1>2, Ends DEF RecvError
<1>3. CASE /\ Has(k, n) /\ Take(k, n)
           /\ file' = [file EXCEPT ![w.name] = Overwrite(@, w.offset, p)]
           /\ Progress(k)
           /\ UNCHANGED <<clientVars, toClient, serving, reset>>
  <2>1. Serves(w) /\ w.at # "service" /\ w.at # "none" /\ Owed(w) = w.size - w.offset /\ Offset(w) = w.offset
    BY <1>1 DEF Serves, Main, Owed, Offset
  <2>2. /\ TypeInv /\ s \in Seq(Units) /\ w \in WorkerStates /\ y \in ClientStates
        /\ Framed(s, w.size - w.offset, w.offset) /\ Loaded(s)
        /\ y.state # "Gone" => Lacks(s, w.size - w.offset, w.offset, 0)
        /\ WorkerInv(k)
        /\ y.state # "Gone" /\ c \notin NoDir => Step(y, w, s, t)
    BY <1>1, <2>1, ServerFacts DEF Sent
  <2>3. /\ w.size \in Nat /\ w.offset \in Nat /\ w.name \in Names /\ f # None /\ w.offset <= Len(f)
        /\ w.offset < w.size
    BY <1>1, <2>2 DEF WorkerInv, WorkerStates
  <2>4. f \in Seq(Units) /\ \A i \in 1 .. Len(f) : InPlace(f[i], i)
    BY <2>2, <2>3 DEF TypeInv, FtpInv, FileInv
  <2>5. n \in Nat /\ n >= 1 /\ w.offset + n <= w.size /\ n <= w.size - w.offset /\ w.size - w.offset \in Nat
    <3>1. w.offset <= w.size
      BY <2>3
    <3> QED
      BY <2>3, <3>1, SmallerOf DEF NextBlock
  <2>7. PICK v \in WorkerStates : worker' = [worker EXCEPT ![k] = v] /\ worker'[k] = v /\ Proceeds(w, v, n)
    <3>1. w.offset <= w.size
      BY <2>3
    <3> QED
      BY <1>3, <2>2, <3>1, Progresses
  <2>8. toServer' = [toServer EXCEPT ![k] = r]
    BY <1>3, <2>2 DEF Take, TypeInv, Rest
  <2>9. file' = [file EXCEPT ![w.name] = g]
    BY <1>3
  <2> HIDE DEF n
  <2>10. n \in 1 .. Len(s) /\ n \in 0 .. Len(s) /\ n <= Len(s)
    <3>1. Len(s) >= n
      BY <1>3, <2>5, Had
    <3> QED
      BY <2>2, <2>5, <3>1
  <2>11. p \in Seq(Units) /\ Len(p) = n /\ \A j \in 1 .. n : p[j] = s[j] /\ j \in 1 .. Len(s)
    BY <2>2, <2>10
  <2>12. \A j \in 1 .. Len(p) : InPlace(p[j], w.offset + j)
    <3> SUFFICES ASSUME NEW j \in 1 .. Len(p) PROVE InPlace(p[j], w.offset + j)
      OBVIOUS
    <3>1. p[j] = s[j] /\ j \in 1 .. Len(s) /\ j <= w.size - w.offset
      BY <2>5, <2>11
    <3> QED
      BY <2>2, <3>1 DEF Framed
  <2>13. r \in Seq(Units) /\ Loaded(r)
    BY <2>2, <2>10, RestOf, RestLoaded
  <2>14. /\ Framed(r, (w.size - w.offset) - n, w.offset + n)
         /\ y.state # "Gone" => Lacks(r, (w.size - w.offset) - n, w.offset + n, 0)
    <3>1. n \in Nat \ {0}
      BY <2>5
    <3> QED
      BY <2>2, <2>3, <2>5, <2>10, <3>1, TakePayload, LacksPayload
  <2> HIDE DEF p, r, f
  <2>15. /\ g \in Seq(Units) /\ Len(g) >= Len(f) /\ Len(g) >= w.offset + n
         /\ \A i \in 1 .. Len(g) : InPlace(g[i], i)
    <3>1. w.offset \in 0 .. Len(f)
      BY <2>3, <2>4
    <3> QED
      BY <2>4, <2>11, <2>12, <3>1, OverwriteOf
  <2> HIDE DEF g
  <2>16. g # None
    BY <2>15, FtpAssumption
  <2>17. /\ file' \in [Names -> Seq(Units) \cup {None}] /\ file'[w.name] = g
         /\ \A m \in Names \ {w.name} : file'[m] = file[m]
    BY <2>2, <2>3, <2>9, <2>15 DEF TypeInv
  <2>18. FilesGrow
    <3>1. ASSUME NEW m \in Names
          PROVE  FileInv(m)' /\ (file[m] # None => file'[m] # None /\ Len(file'[m]) >= Len(file[m]))
      <4>1. CASE m = w.name
        <5>1. FileInv(m)'
          BY <2>15, <2>17, <4>1 DEF FileInv
        <5> QED
          BY <2>15, <2>16, <2>17, <4>1, <5>1 DEF f
      <4>2. CASE m # w.name
        <5>1. file'[m] = file[m] /\ FileInv(m)
          BY <2>17, <4>2 DEF FtpInv
        <5>2. file[m] # None => Len(file[m]) \in Nat
          BY <2>2 DEF TypeInv
        <5>3. file[m] # None => Len(file[m]) >= Len(file[m])
          BY <5>2
        <5> QED
          BY <5>1, <5>3 DEF FileInv
      <4> QED
        BY <4>1, <4>2
    <3> QED
      BY <2>17, <3>1 DEF FilesGrow
  <2>19. /\ Serves(v) /\ v.at # "upload" /\ v.at # "download"
         /\ Framed(r, Owed(v), Offset(v))
         /\ y.state # "Gone" => Lacks(r, Owed(v), Offset(v), 0)
         /\ WorkerInv(k)'
    <3>1. CASE w.offset + n = w.size /\ v.at = "service" /\ v.offset = 0 /\ v.size = 0
      <4>1. Owed(v) = 0 /\ Offset(v) = 0 /\ Serves(v)
        BY <3>1 DEF Owed, Offset, Serves, Main
      <4>2. (w.size - w.offset) - n = 0
        BY <2>3, <2>5, <3>1
      <4>3. Framed(r, 0, 0)
        <5>1. \A j \in 1 .. Len(r) : ~ (j <= 0)
          OBVIOUS
        <5> QED
          BY <2>14, <4>2, <5>1 DEF Framed
      <4>4. y.state # "Gone" => Lacks(r, 0, 0, 0)
        <5>1. ASSUME y.state # "Gone", 0 >= Len(r)
              PROVE  0 = Len(r) + 0 /\ ~ (0 > 0)
          <6>1. 0 = Len(r) + 0 /\ Len(r) \in Nat
            BY <2>13, <2>14, <4>2, <5>1 DEF Lacks
          <6> QED
            BY <6>1
        <5> QED
          BY <2>14, <5>1 DEF Lacks
      <4>5. WorkerInv(k)'
        BY <2>7, <3>1 DEF WorkerInv
      <4> QED
        BY <3>1, <4>1, <4>3, <4>4, <4>5
    <3>2. CASE /\ w.offset + n < w.size /\ v.at = w.at /\ v.offset = w.offset + n
               /\ v.size = w.size /\ v.name = w.name
      <4>1. w.size - (w.offset + n) = (w.size - w.offset) - n
        BY <2>3, <2>5
      <4>2. Owed(v) = (w.size - w.offset) - n /\ Offset(v) = w.offset + n /\ Serves(v)
        BY <1>1, <3>2, <4>1 DEF Owed, Offset, Serves, Main
      <4>3. WorkerInv(k)'
        <5>1. w.offset + n <= Len(g)
          BY <2>3, <2>5, <2>15
        <5>2. worker'[k] = v /\ v.at = "blocks" /\ file'[v.name] = g
          BY <1>1, <2>7, <2>17, <3>2
        <5> QED
          BY <2>3, <2>16, <3>2, <5>1, <5>2 DEF WorkerInv
      <4> QED
        BY <1>1, <2>14, <3>2, <4>2, <4>3
    <3> QED
      BY <2>7, <3>1, <3>2 DEF Proceeds
  <2>20. /\ FtpInv /\ serving /\ k \in Conns /\ Serves(worker[k]) /\ worker[k].at # "service"
         /\ c = owner[k] /\ y = client[c] /\ t = toClient[k]
         /\ UNCHANGED <<clientVars, toClient, serving, reset>>
         /\ worker' = [worker EXCEPT ![k] = v]
    BY <1>1, <1>3, <2>1, <2>7
  <2>21. y.state # "Gone" /\ c \notin NoDir =>
            OneRequest(y, v, r, t) /\ Uploads(y, v, r, t) /\ Downloads(y, v, t)
    <3> SUFFICES ASSUME y.state # "Gone", c \notin NoDir
                 PROVE  OneRequest(y, v, r, t) /\ Uploads(y, v, r, t) /\ Downloads(y, v, t)
      OBVIOUS
    <3>1. OneRequest(y, w, s, t) /\ Uploads(y, w, s, t)
      BY <2>1, <2>2 DEF Step
    <3> HIDE DEF y, w, s, t, c
    <3>2. OneRequest(y, v, r, t)
      BY <2>2, <2>10, <3>1, RestRequests DEF r
    <3>3. ~ Put(y, t)
      BY <1>1, <3>1 DEF Uploads
    <3> QED
      BY <2>19, <3>2, <3>3 DEF Uploads, Downloads
  <2> HIDE DEF c, y, w, s, t
  <2> QED
    BY ONLY <2>7, <2>8, <2>13, <2>18, <2>19, <2>20, <2>21, TakesOn
<1>4. CASE Fail(k, "write", <<>>)
  BY <1>1, <1>4, FailsSilently
<1> QED
  BY ONLY UploadBlock(k), <1>2, <1>3, <1>4 DEF UploadBlock
-----------------------------------------------------------------------------
(* Downloads *)

\* A client in step that is sent the block after the ones it has been sent.
LEMMA MoreArrived ==
    ASSUME NEW x \in ClientStates, NEW w \in WorkerStates, NEW v \in WorkerStates,
           NEW t \in Seq(Units), NEW p \in Seq(Units),
           w.at = "download", w.size > 0, Downloads(x, w, t), Answers(x, t),
           w.offset + Len(p) <= w.size, \A j \in 1 .. Len(p) : InPlace(p[j], w.offset + j),
           Proceeds(w, v, Len(p))
    PROVE  /\ x.want \in {"GET_REPLY", "FILE_DATA", "data"} /\ (x.want = "data" \/ t # <<>>)
           /\ Answers(x, t \o p) /\ Downloads(x, v, t \o p)
<1> DEFINE u == t \o p
           n == Len(p)
           L == Len(t)
<1>1. /\ L \in Nat /\ n \in Nat /\ Len(u) = L + n
      /\ \A j \in 1 .. L : u[j] = t[j]
      /\ \A j \in 1 .. n : u[L + j] = p[j]
  BY JoinOf
<1>2. PICK z \in Nat : z = w.size
  BY DEF WorkerStates
<1>3. PICK d \in Nat : d = w.offset
  BY DEF WorkerStates
<1>4. d + n <= z /\ z > 0 /\ \A j \in 1 .. n : InPlace(p[j], d + j)
  BY <1>2, <1>3
<1> HIDE DEF u
<1>5. \A j \in 1 .. Len(u) : j > L => j - L \in 1 .. n /\ u[j] = p[j - L]
  <2> SUFFICES ASSUME NEW j \in 1 .. Len(u), j > L PROVE j - L \in 1 .. n /\ u[j] = p[j - L]
    OBVIOUS
  <2>1. j - L \in 1 .. n /\ L + (j - L) = j
    BY <1>1
  <2> QED
    BY <1>1, <2>1
<1> HIDE DEF n
<1>6. \/ d + n = z /\ v.at = "service"
      \/ v.at = "download" /\ v.offset = d + n /\ v.size = z
  BY <1>2, <1>3 DEF Proceeds, n
\* Units of the file that were there and that follow, the first at offset i of the stream.
<1>7. ASSUME NEW i \in Nat, NEW a \in Nat, L = i + (d - a), a <= d,
             \A j \in 1 .. L : j > i => InPlace(t[j], a + (j - i))
      PROVE  \A j \in 1 .. Len(u) : j > i => InPlace(u[j], a + (j - i))
  <2> SUFFICES ASSUME NEW j \in 1 .. Len(u), j > i PROVE InPlace(u[j], a + (j - i))
    OBVIOUS
  <2>1. CASE j \in 1 .. L
    BY <1>1, <1>7, <2>1
  <2>2. CASE j > L
    <3>1. j - L \in 1 .. n /\ u[j] = p[j - L]
      BY <1>5, <2>2
    <3>2. d + (j - L) = a + (j - i)
      BY <1>1, <1>7
    <3> QED
      BY <1>4, <3>1, <3>2
  <2> QED
    BY <1>1, <2>1, <2>2
<1>8. CASE x.want = "GET_REPLY" /\ L = 2 + d /\ t[1].status /\ t[2].size = z
  <2>1. /\ t # <<>> /\ 1 \in 1 .. L /\ 2 \in 1 .. L /\ L # 1
    <3>1. L >= 2
      BY <1>8
    <3>2. L # 0
      BY <1>1, <3>1
    <3>3. t # <<>>
      BY <3>2, NoUnits, Zenon
    <3>4. 1 \in 1 .. L /\ 2 \in 1 .. L /\ L # 1
      BY <1>1, <3>1
    <3> QED
      BY <3>3, <3>4
  <2>2. t[1].type = "GET_REPLY" /\ t[2].type = "FILE_DATA" /\ Begun(t, 2, t[2].size)
    <3>1. ~ OneHeader(t, "GET_REPLY")
      BY <2>1 DEF OneHeader
    <3> QED
      BY <1>8, <2>1, <3>1, Zenon DEF Answers
  <2>3. u[1] = t[1] /\ u[2] = t[2]
    BY <1>1, <2>1
  <2>4. \A j \in 1 .. Len(u) : j > 2 => InPlace(u[j], j - 2)
    <3>1. \A j \in 1 .. L : j > 2 => InPlace(t[j], 0 + (j - 2))
      BY <2>2 DEF Begun
    <3>2. L = 2 + (d - 0) /\ 0 <= d
      BY <1>8
    <3>3. \A j \in 1 .. Len(u) : j > 2 => InPlace(u[j], 0 + (j - 2))
      BY <1>7, <3>1, <3>2
    <3> QED
      BY <1>1, <3>3
  <2>5. Len(u) <= 2 + z /\ Len(u) >= 2 /\ Len(u) = 2 + (d + n)
    BY <1>1, <1>4, <1>8 DEF n
  <2>6. Begun(u, 2, z)
    BY <2>4, <2>5 DEF Begun
  <2>7. Begun(u, 2, u[2].size) /\ u[2].size = z /\ u[2].type = "FILE_DATA" /\ u[1].type = "GET_REPLY"
    BY <1>8, <2>2, <2>3, <2>6
  <2>8. u[1].status
    BY <1>8, <2>3, Zenon
  <2>9. x.want \notin {"nothing", "header", "sending", "OPEN_CONN_REPLY", "AUTH_REPLY", "PUT_REPLY",
                       "QUIT_REPLY", "LIST_REPLY", "FILE_DATA", "data"}
    BY <1>8
  <2>10. Answers(x, u)
    BY <2>5, <2>7, <2>8, <2>9, Zenon DEF Answers
  <2>11. Downloads(x, v, u)
    <3>1. v.at = "download" => Len(u) = 2 + v.offset /\ u[2].size = v.size
      BY <1>6, <2>5, <2>7
    <3> QED
      BY <1>8, <2>8, <3>1, Zenon DEF Downloads
  <2> QED
    BY <1>8, <2>1, <2>10, <2>11 DEF u
<1>9. CASE x.want = "FILE_DATA" /\ L = 1 + d /\ t[1].size = z
  <2>1. t # <<>> /\ 1 \in 1 .. L
    <3>1. L >= 1 /\ L # 0
      BY <1>9
    <3>2. t # <<>>
      BY <3>1, NoUnits, Zenon
    <3> QED
      BY <1>1, <3>1, <3>2
  <2>2. t[1].type = "FILE_DATA" /\ Begun(t, 1, t[1].size) /\ u[1] = t[1]
    BY <1>1, <1>9, <2>1 DEF Answers
  <2>3. \A j \in 1 .. Len(u) : j > 1 => InPlace(u[j], j - 1)
    <3>1. \A j \in 1 .. L : j > 1 => InPlace(t[j], 0 + (j - 1))
      BY <2>2 DEF Begun
    <3>2. L = 1 + (d - 0) /\ 0 <= d
      BY <1>9
    <3>3. \A j \in 1 .. Len(u) : j > 1 => InPlace(u[j], 0 + (j - 1))
      BY <1>7, <3>1, <3>2
    <3> QED
      BY <1>1, <3>3
  <2>4. Len(u) <= 1 + z /\ Len(u) >= 1 /\ Len(u) = 1 + (d + n)
    BY <1>1, <1>4, <1>9 DEF n
  <2>5. Begun(u, 1, z)
    BY <2>3, <2>4 DEF Begun
  <2>6. Begun(u, 1, u[1].size) /\ u[1].size = z /\ u[1].type = "FILE_DATA"
    BY <1>9, <2>2, <2>5
  <2>7. Answers(x, u)
    BY <1>9, <2>4, <2>6 DEF Answers
  <2>8. Downloads(x, v, u)
    <3>1. v.at = "download" => Len(u) = 1 + v.offset /\ u[1].size = v.size
      BY <1>6, <2>4, <2>6
    <3> QED
      BY <1>9, <3>1, Zenon DEF Downloads
  <2> QED
    BY <1>9, <2>1, <2>7, <2>8 DEF u
<1>10. CASE x.want = "data" /\ Len(x.got) + L = d /\ x.size = z
  <2> DEFINE a == Len(x.got)
  <2>1. a \in Nat
    BY DEF ClientStates
  <2>2. \A j \in 1 .. L : InPlace(t[j], a + j)
    BY <1>10 DEF Answers
  <2> HIDE DEF a
  <2>3. a + L = d
    BY <1>10 DEF a
  <2>4. \A j \in 1 .. Len(u) : InPlace(u[j], a + j)
    <3>1. \A j \in 1 .. L : j > 0 => InPlace(t[j], a + (j - 0))
      BY <2>2
    <3>2. L = 0 + (d - a) /\ a <= d
      BY <1>1, <2>1, <2>3
    <3>3. \A j \in 1 .. Len(u) : j > 0 => InPlace(u[j], a + (j - 0))
      BY <1>7, <2>1, <3>1, <3>2
    <3> QED
      BY <1>1, <3>3
  <2>5. a + Len(u) <= z /\ a + Len(u) = d + n
    BY <1>1, <1>4, <2>1, <2>3 DEF n
  <2>6. Answers(x, u)
    BY <1>10, <2>4, <2>5 DEF Answers, a
  <2>7. Downloads(x, v, u)
    <3>1. v.at = "download" => a + Len(u) = v.offset /\ x.size = v.size
      BY <1>6, <1>10, <2>5
    <3> QED
      BY <1>10, <3>1, Zenon DEF Downloads, a
  <2> QED
    BY <1>10, <2>6, <2>7 DEF u
<1> QED
  <2>1. \/ x.want = "GET_REPLY" /\ L = 2 + d /\ t[1].status /\ t[2].size = z
        \/ x.want = "FILE_DATA" /\ L = 1 + d /\ t[1].size = z
        \/ x.want = "data" /\ Len(x.got) + L = d /\ x.size = z
    BY <1>2, <1>3, Zenon DEF Downloads
  <2> QED
    BY <1>8, <1>9, <1>10, <2>1

LEMMA BlockSent ==
    ASSUME FtpInv, NEW k \in Conns, DownloadBlock(k)
    PROVE  FtpInv'
<1> DEFINE c == owner[k]
           y == client[c]
           w == worker[k]
           s == toServer[k]
           t == toClient[k]
           n == NextBlock(k)
           f == file[w.name]
           p == [i \in 1 .. n |-> IF w.offset + i \in 1 .. Len(f) THEN f[w.offset + i] ELSE FileUnit(None, 0)]
           u == Reached(y, t, p)
<1>1. serving /\ w.at = "download"
  BY DEF DownloadBlock, At
<1>2. CASE SendError(k)
  BY <1>2, Ends DEF SendError
<1>3. CASE /\ Progress(k) /\ Send(k, p) /\ UNCHANGED <<clientVars, toServer, file>>
  <2>1. w.at # "none" /\ Serves(w) /\ Owed(w) = 0 /\ Offset(w) = 0
    BY <1>1 DEF Serves, Main, Owed, Offset
  <2>2. /\ TypeInv /\ s \in Seq(Units) /\ t \in Seq(Units) /\ w \in WorkerStates /\ y \in ClientStates
        /\ c # None /\ WorkerInv(k) /\ Sent(y, w, s) /\ Phase(k, c, y, w, s, t)
        /\ y.state # "Gone" /\ c \in NoDir => Stray(k, y, t)
        /\ y.state # "Gone" /\ c \notin NoDir => Step(y, w, s, t)
        /\ y.state # "Gone" /\ c \notin NoDir /\ y.fd = k => Answers(y, t)
    BY <1>1, <2>1, ServerFacts
  <2>3. /\ w.size \in Nat /\ w.offset \in Nat /\ w.name \in Names /\ f # None /\ w.size <= Len(f)
        /\ w.offset <= w.size /\ (w.size = 0 \/ w.offset < w.size)
    BY <1>1, <2>2 DEF WorkerInv, WorkerStates
  <2>4. f \in Seq(Units) /\ \A i \in 1 .. Len(f) : InPlace(f[i], i)
    BY <2>2, <2>3 DEF TypeInv, FtpInv, FileInv
  <2>5. n \in Nat /\ w.offset + n <= w.size
    BY <2>3, SmallerOf DEF NextBlock
  <2>6. PICK v \in WorkerStates : worker' = [worker EXCEPT ![k] = v] /\ worker'[k] = v /\ Proceeds(w, v, n)
    BY <1>3, <2>2, <2>3, Progresses
  <2> HIDE DEF n
  <2>7. p \in Seq(Units) /\ Len(p) = n /\ \A i \in 1 .. Len(p) : InPlace(p[i], w.offset + i)
    <3>1. ASSUME NEW i \in 1 .. n PROVE p[i] \in Units /\ InPlace(p[i], w.offset + i)
      <4>1. w.offset + i \in 1 .. Len(f)
        <5>1. Len(f) \in Nat
          BY <2>4
        <5> QED
          BY <2>3, <2>5, <5>1, SMTT(30)
      <4>2. p[i] = f[w.offset + i]
        BY <4>1
      <4> QED
        BY <2>4, <4>1, <4>2
    <3> QED
      BY <2>5, <3>1
  <2> HIDE DEF p, f
  <2>8. Listings(p)
    BY <2>7 DEF Listings, InPlace, IsHeader
  <2>9. toClient' = [toClient EXCEPT ![k] = u] /\ u \in Seq(Units) /\ Resets(k) /\ UNCHANGED serving
    BY <1>1, <1>3, <2>1, <2>7, Sends
  <2>10. FilesGrow
    BY <1>3, FilesKept
  <2>11. /\ Serves(v) /\ Owed(v) = 0 /\ Offset(v) = 0 /\ v.at \in {"service", "download"} /\ WorkerInv(k)'
    <3>1. CASE w.offset + n = w.size /\ v.at = "service" /\ v.offset = 0 /\ v.size = 0
      <4>1. WorkerInv(k)'
        BY <2>6, <3>1, IdleInv
      <4> QED
        BY <3>1, <4>1 DEF Serves, Main, Owed, Offset
    <3>2. CASE /\ w.offset + n < w.size /\ v.at = w.at /\ v.offset = w.offset + n
               /\ v.size = w.size /\ v.name = w.name
      <4>1. WorkerInv(k)'
        <5>1. worker'[k] = v /\ file' = file /\ v.at = "download"
          BY <1>1, <1>3, <2>6, <3>2
        <5>2. v.offset <= v.size /\ v.offset < v.size
          BY <2>3, <2>5, <3>2
        <5> QED
          BY <2>3, <3>2, <5>1, <5>2 DEF WorkerInv, f
      <4> QED
        BY <1>1, <3>2, <4>1 DEF Serves, Main, Owed, Offset
    <3> QED
      BY <2>6, <3>1, <3>2 DEF Proceeds
  <2>12. Sent(y, v, s)
    BY <2>1, <2>2, <2>11 DEF Sent
  <2>13. y.state = "Gone" \/ (y.fd = k /\ y.state = "IS_MAIN")
    <3>1. Authenticated(k, y, w, s, t) /\ w.at # "service"
      BY <1>1, <2>2 DEF Phase, Main
    <3> QED
      BY ONLY <3>1, Zenon DEF Authenticated
  <2>14. Phase(k, c, y, v, s, u)
    <3>1. Authenticated(k, y, v, s, u)
      BY ONLY <2>13, Zenon DEF Authenticated
    <3>2. v.at \notin {"none", "queue", "connection", "authentication", "failed"}
      BY <2>11
    <3> QED
      BY ONLY <2>2, <3>1, <3>2 DEF Phase
  <2>15. y.state # "Gone" /\ c \in NoDir => Stray(k, y, u)
    BY <2>2, <2>7, <2>8, StrayMore DEF Reached
  <2>16. y.state # "Gone" /\ c \notin NoDir => Step(y, v, s, u) /\ Answers(y, u)
    <3> SUFFICES ASSUME y.state # "Gone", c \notin NoDir PROVE Step(y, v, s, u) /\ Answers(y, u)
      OBVIOUS
    <3>1. /\ OneRequest(y, w, s, t) /\ Uploads(y, w, s, t) /\ Downloads(y, w, t) /\ Answers(y, t)
          /\ u = t \o p
      BY <2>1, <2>2, <2>13 DEF Step, Reached
    <3> HIDE DEF u, c, y, w, s, t
    <3>2. ~ Put(y, t)
      BY <1>1, <3>1 DEF Uploads
    <3>3. CASE w.size = 0
      <4>1. Len(p) = 0
        BY <2>3, <2>5, <2>7, <3>3
      <4>2. p = <<>>
        BY <2>7, <4>1, NoUnits
      <4>3. u = t
        BY <2>2, <3>1, <4>2
      <4>4. v.at = "service"
        BY <2>3, <2>5, <2>6, <3>3 DEF Proceeds
      <4>5. OneRequest(y, v, s, t)
        BY <1>1, <3>1 DEF OneRequest
      <4>6. Uploads(y, v, s, t) /\ Downloads(y, v, t)
        BY <3>2, <4>4 DEF Uploads, Downloads
      <4> QED
        BY <3>1, <4>3, <4>5, <4>6 DEF Step
    <3>4. CASE w.size # 0
      <4>1. w.size > 0
        BY <2>3, <3>4
      <4>2. /\ y.want \in {"GET_REPLY", "FILE_DATA", "data"} /\ (y.want = "data" \/ t # <<>>)
            /\ Answers(y, u) /\ Downloads(y, v, u)
        <5>1. w.offset + Len(p) <= w.size /\ Proceeds(w, v, Len(p))
          BY <2>5, <2>6, <2>7
        <5> QED
          BY ONLY <1>1, <2>2, <2>6, <2>7, <3>1, <4>1, <5>1, MoreArrived
      <4>3. OneRequest(y, v, s, u)
        <5>1. \A type : Answer(type) \in {"LIST_REPLY", "GET_REPLY", "PUT_REPLY", "QUIT_REPLY"}
          BY DEF Answer
        <5>2. ASSUME NEW i \in 1 .. Len(s), IsHeader(s[i]) PROVE FALSE
          <6>1. s[i].type # "FILE_DATA"
            BY <1>1, <3>1, <5>2 DEF OneRequest
          <6>2. y.want = Answer(s[i].type) /\ t = <<>>
            BY <3>1, <5>2, <6>1 DEF OneRequest
          <6>3. y.want # "data"
            BY <5>1, <6>2
          <6> QED
            BY <4>2, <6>2, <6>3
        <5> QED
          BY <5>2 DEF OneRequest
      <4>4. Uploads(y, v, s, u)
        BY <2>11, <4>2 DEF Uploads, Put
      <4> QED
        BY <4>2, <4>3, <4>4 DEF Step
    <3> QED
      BY <3>3, <3>4
  <2>17. /\ FtpInv /\ serving /\ k \in Conns /\ worker[k].at # "none"
         /\ c = owner[k] /\ y = client[c]
         /\ UNCHANGED <<clientVars, serving>> /\ toServer' = [toServer EXCEPT ![k] = s]
    BY <1>1, <1>3, <2>1, <2>2, <2>9 DEF TypeInv
  <2>18. v.at # "none"
    BY <2>11
  <2> HIDE DEF c, y, w, s, t, u
  <2> QED
    BY ONLY <2>2, <2>6, <2>9, <2>10, <2>11, <2>12, <2>14, <2>15, <2>16, <2>17, <2>18, ServerMoves
<1>4. CASE Fail(k, "read", <<>>)
  BY <1>1, <1>4, FailsSilently
<1> QED
  BY ONLY DownloadBlock(k), <1>2, <1>3, <1>4 DEF DownloadBlock
-----------------------------------------------------------------------------
(* Every step *)

LEMMA WorkerSteps ==
    ASSUME FtpInv, NEW k \in Conns, Worker(k)
    PROVE  FtpInv'
<1>1. CASE Accept(k)
  BY <1>1, Accepts
<1>2. CASE connection(k)
  BY <1>2, Connects
<1>3. CASE authentication(k)
  BY <1>3, Authenticates
<1>4. CASE listFile(k)
  BY <1>4, Lists
<1>5. CASE beDownload(k)
  BY <1>5, GetServed
<1>6. CASE DownloadBlock(k)
  BY <1>6, BlockSent
<1>7. CASE beUpload(k)
  BY <1>7, PutServed
<1>8. CASE UploadSize(k)
  BY <1>8, SizeTaken
<1>9. CASE UploadBlock(k)
  BY <1>9, BlockTaken
<1>10. CASE client_close(k)
  BY <1>10, Closes
<1> QED
  BY ONLY Worker(k), <1>1, <1>2, <1>3, <1>4, <1>5, <1>6, <1>7, <1>8, <1>9, <1>10 DEF Worker

LEMMA Stutters ==
    ASSUME FtpInv, UNCHANGED vars
    PROVE  FtpInv'
<1>1. /\ client' = client /\ owner' = owner /\ toServer' = toServer /\ toClient' = toClient
      /\ worker' = worker /\ file' = file /\ serving' = serving /\ reset' = reset
  BY DEF vars
<1>2. TypeInv'
  BY <1>1 DEF FtpInv, TypeInv
<1>3. \A c \in Clients : ClientInv(c)' /\ ArrivedInv(c)'
  BY <1>1 DEF FtpInv, ClientInv, ArrivedInv, Gone
<1>4. \A n \in Names : FileInv(n)'
  BY <1>1 DEF FtpInv, FileInv
<1>5. ASSUME NEW k \in Conns
      PROVE  WorkerInv(k)' /\ SentInv(k)' /\ PhaseInv(k)' /\ StrayInv(k)' /\ StepInv(k)'
  <2>1. WorkerInv(k) /\ SentInv(k) /\ PhaseInv(k) /\ StrayInv(k) /\ StepInv(k)
    BY DEF FtpInv
  <2>2. WorkerInv(k)'
    BY <1>1, <2>1 DEF WorkerInv
  <2>3. SentInv(k)' /\ PhaseInv(k)'
    BY <1>1, <2>1 DEF SentInv, PhaseInv
  <2>4. StrayInv(k)' /\ StepInv(k)'
    BY <1>1, <2>1 DEF StrayInv, StepInv, Gone
  <2> QED
    BY <2>2, <2>3, <2>4
<1>6. EndInv'
  BY <1>1 DEF FtpInv, EndInv, ServerEndsFor, PeerGone, Gone
<1> QED
  BY <1>2, <1>3, <1>4, <1>5, <1>6 DEF FtpInv

\* The inductive invariant: streams are framed, a client in step has at most one request
\* under way and gets a beginning of the answer to it, files keep what was announced.
THEOREM FtpInvariant == Spec => []FtpInv
<1>1. Init => FtpInv
  BY Starts
<1>2. FtpInv /\ [Next]_vars => FtpInv'
  <2> SUFFICES ASSUME FtpInv, [Next]_vars PROVE FtpInv'
    OBVIOUS
  <2>1. ASSUME NEW c \in Clients, Client(c) PROVE FtpInv'
    BY <2>1, ClientSteps
  <2>2. ASSUME NEW c \in Clients, User(c) PROVE FtpInv'
    BY <2>2, UserSteps
  <2>3. ASSUME NEW k \in Conns, Worker(k) PROVE FtpInv'
    BY <2>3, WorkerSteps
  <2>4. CASE UNCHANGED vars
    BY <2>4, Stutters
  <2> QED
    BY <2>1, <2>2, <2>3, <2>4 DEF Next
<1> QED
  BY <1>1, <1>2, PTL DEF Spec

\* The states of clients and workers; no transfer of any length goes past its end.
THEOREM FtpTypes == Spec => []TypeOK
<1>1. FtpInv => TypeOK
  <2> SUFFICES ASSUME FtpInv PROVE TypeOK
    OBVIOUS
  <2>1. TypeInv
    BY DEF FtpInv
  <2>2. ASSUME NEW c \in Clients
        PROVE  /\ client[c].state \in {"IDLE", "IS_AUTH", "IS_MAIN", "Gone"}
               /\ client[c].want \in Waits /\ client[c].fd \in {0} \cup Conns
               /\ Len(client[c].got) <= client[c].size /\ client[c].unsent \in Nat
    <3>1. client[c] \in ClientStates /\ Len(client[c].got) <= client[c].size
      BY <2>1 DEF TypeInv, FtpInv, ClientInv
    <3> QED
      BY <3>1 DEF ClientStates
  <2>3. ASSUME NEW k \in Conns
        PROVE  worker[k].at \in Places /\ worker[k].offset <= worker[k].size
    <3>1. worker[k] \in WorkerStates /\ WorkerInv(k)
      BY <2>1 DEF TypeInv, FtpInv
    <3>2. worker[k].at \in Places /\ worker[k].offset \in Nat /\ worker[k].size \in Nat
      BY <3>1 DEF WorkerStates
    <3>3. CASE worker[k].at \in {"download", "blocks"}
      BY <3>1, <3>2, <3>3 DEF WorkerInv
    <3>4. CASE worker[k].at \notin {"download", "blocks"}
      BY <3>1, <3>2, <3>4 DEF WorkerInv
    <3> QED
      BY <3>2, <3>3, <3>4
  <2> QED
    BY <2>1, <2>2, <2>3 DEF TypeOK, TypeInv, Places
<1> QED
  BY <1>1, FtpInvariant, PTL

\* The server reads headers where it expects headers, requests that belong to the state
\* of the session, and payload where dataReceiver reads it.
THEOREM ServerStaysInStep == Spec => []ServerInStep
<1>1. FtpInv => ServerInStep
  <2> SUFFICES ASSUME FtpInv, serving, NEW k \in Conns, toServer[k] # <<>>
               PROVE  /\ worker[k].at \in {"service", "upload"} => IsHeader(Head(toServer[k]))
                      /\ worker[k].at = "connection" => Head(toServer[k]).type = "OPEN_CONN_REQUEST"
                      /\ worker[k].at = "authentication" => Head(toServer[k]).type = "AUTH_REQUEST"
                      /\ worker[k].at = "blocks" =>
                          \A i \in 1 .. Smaller(Len(toServer[k]), worker[k].size - worker[k].offset) :
                              ~ IsHeader(toServer[k][i])
    BY DEF ServerInStep
  <2> DEFINE w == worker[k]
             s == toServer[k]
  <2>1. /\ s \in Seq(Units) /\ w \in WorkerStates /\ SentInv(k) /\ PhaseInv(k) /\ WorkerInv(k)
    BY DEF FtpInv, TypeInv
  <2>2. Head(s) = s[1] /\ Len(s) \in Nat /\ Len(s) >= 1
    BY <2>1, TailOf
  <2>3. w.at \in {"service", "upload"} => IsHeader(Head(s))
    <3> SUFFICES ASSUME w.at \in {"service", "upload"} PROVE IsHeader(Head(s))
      OBVIOUS
    <3>1. Framed(s, 0, 0)
      BY <2>1 DEF SentInv, Sent, Serves, Main, Owed, Offset
    <3>2. 0 < Len(s) /\ 0 + 1 = 1
      BY <2>2
    <3> QED
      BY <2>2, <3>1, <3>2 DEF Framed
  <2>4. w.at = "connection" => Head(s).type = "OPEN_CONN_REQUEST"
    BY <2>1, <2>2 DEF PhaseInv, Phase, Opening, OneHeader
  <2>5. w.at = "authentication" => Head(s).type = "AUTH_REQUEST"
    BY <2>1, <2>2 DEF PhaseInv, Phase, Authenticating, AuthMessage
  <2>6. ASSUME w.at = "blocks", NEW i \in 1 .. Smaller(Len(s), w.size - w.offset)
        PROVE  ~ IsHeader(s[i])
    <3>1. Framed(s, w.size - w.offset, w.offset)
      BY <2>1, <2>6 DEF SentInv, Sent, Serves, Main, Owed, Offset
    <3>2. w.size \in Nat /\ w.offset \in Nat
      BY <2>1 DEF WorkerStates
    <3>3. i \in 1 .. Len(s) /\ i <= w.size - w.offset
      <4> HIDE DEF s, w
      <4> QED
        BY <2>2, <3>2 DEF Smaller
    <3> QED
      BY <3>1, <3>3 DEF Framed, InPlace
  <2> QED
    BY <2>3, <2>4, <2>5, <2>6
<1> QED
  BY <1>1, FtpInvariant, PTL

\* exit(0) and SIGPIPE end the server only on account of a call the system has refused, or
\* of a client that has gone: unauthenticated, or on a connection that was reset.  Whatever
\* is received, also a message that breaks off, does not end it.
THEOREM ServerEndsForAReason == Spec => []ServerEndsFor
<1>1. FtpInv => ServerEndsFor
  BY DEF FtpInv, EndInv
<1> QED
  BY <1>1, FtpInvariant, PTL

\* A client that can store what it gets finds the reply to its request where it reads one.
THEOREM RepliesMatch == Spec => []ReplyMatches
<1>1. FtpInv => ReplyMatches
  <2> SUFFICES ASSUME FtpInv, NEW c \in Clients \ NoDir, ~ Gone(c), client[c].fd # 0, Arrived(c) # <<>>
               PROVE  IF client[c].want = "data" THEN ~ IsHeader(Head(Arrived(c)))
                      ELSE Head(Arrived(c)).type = client[c].want
    BY DEF ReplyMatches
  <2> DEFINE x == client[c]
             t == Arrived(c)
  <2>1. Answers(x, t) /\ TypeInv /\ x \in ClientStates
    BY DEF FtpInv, ArrivedInv, Arrived, TypeInv
  <2>2. x.want \in Waits /\ x.fd \in Conns
    BY <2>1 DEF ClientStates
  <2>3. t \in Seq(Units)
    BY <2>1, <2>2 DEF TypeInv, Arrived
  <2>4. Head(t) = t[1] /\ 1 \in 1 .. Len(t)
    BY <2>3, TailOf
  <2> HIDE DEF x, t
  <2>5. t # <<>>
    BY DEF t
  <2>6. CASE x.want = "data"
    <3>1. InPlace(t[1], Len(x.got) + 1)
      BY <2>1, <2>4, <2>6 DEF Answers
    <3> QED
      BY <2>4, <2>6, <3>1 DEF InPlace, x, t
  <2>7. CASE x.want # "data"
    <3>1. t[1].type = x.want
      <4>1. x.want \notin {"nothing", "header", "sending"}
        BY <2>1, <2>5 DEF Answers
      <4>2. CASE x.want \in {"OPEN_CONN_REPLY", "AUTH_REPLY", "PUT_REPLY", "QUIT_REPLY"}
        BY <2>1, <2>5, <4>2 DEF Answers, OneHeader
      <4>3. CASE x.want = "LIST_REPLY"
        BY <2>1, <2>5, <4>3 DEF Answers
      <4>4. CASE x.want = "GET_REPLY"
        <5>1. OneHeader(t, "GET_REPLY") \/ t[1].type = "GET_REPLY"
          BY <2>1, <2>5, <4>4, Zenon DEF Answers
        <5> QED
          BY <4>4, <5>1 DEF OneHeader
      <4>5. CASE x.want = "FILE_DATA"
        BY <2>1, <2>5, <4>5 DEF Answers
      <4> QED
        BY <2>2, <2>7, <4>1, <4>2, <4>3, <4>4, <4>5 DEF Waits, x
    <3> QED
      BY <2>4, <2>7, <3>1 DEF x, t
  <2> QED
    BY <2>6, <2>7
<1> QED
  BY <1>1, FtpInvariant, PTL

\* What any client has received of a file are units that were put, each at its place,
\* however many puts and gets of the file overlap and however long it is.
THEOREM UnitsStayInPlace == Spec => []UnitsInPlace
<1>1. FtpInv => UnitsInPlace
  BY DEF FtpInv, ClientInv, InPlace, UnitsInPlace
<1> QED
  BY <1>1, FtpInvariant, PTL
=============================================================================
