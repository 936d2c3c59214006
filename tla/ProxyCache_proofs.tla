------------------------- MODULE ProxyCache_proofs -------------------------
(***************************************************************************)
(* Proofs about ProxyCache for any number of workers, versions and         *)
(* requests: a worker that answers from the cache finds the header file,   *)
(* the file has the time of what it holds, and a 304 of the origin's is    *)
(* about the browser's own copy, for bodies of any length; bodies from the *)
(* cache do not mix versions, for the lengths the loop stores rightly.     *)
(***************************************************************************)
EXTENDS ProxyCache, WellOrder, SequenceTheorems

\* What a worker that stores a response knows of it: the units that have come and
\* those outstanding are the body, the next are written within the file or right
\* behind it, and the first unit that was written is the version's.
ResponseInv(w) ==
    LET r == resp[w] IN
    /\ pc[w] \in {"header", "open"} =>
        r.v \in Versions /\ r.got <= BodyLen[r.v] /\ r.got <= THROUGHPUT
    /\ pc[w] = "block" =>
        /\ mutex = w
        /\ r.v \in Versions /\ BodyLen[r.v] > 0
        /\ r.count = BodyLen[r.v] - r.got - THROUGHPUT /\ r.count >= - THROUGHPUT
        /\ r.off <= Len(content)
        /\ r.off > 0 => content[1][1] = r.v
        /\ r.off = 0 => r.got = 0
    /\ pc[w] = "utime" =>
        /\ mutex = w
        /\ r.v \in Versions /\ r.got = BodyLen[r.v]
        /\ exists /\ content # <<>> /\ content[1][1] = r.v

\* Whoever relies on the header may: the body file is made after it, a worker
\* that saw the body file saw it after that, and the header is never removed.
ReliesOnHeader(w) ==
    \/ pc[w] \in {"open", "block", "utime", "msgGenerator"}
    \/ req[w].fileExist
HeaderInv ==
    /\ exists => header # 0
    /\ \A w \in Workers : ReliesOnHeader(w) => header # 0

\* A worker that asks the origin has answered nothing yet; the file's time is in a
\* request only of a worker that saw the file, and in place of no time at all only of
\* a no-cache request.
AskInv(w) ==
    /\ pc[w] \in {"stat", "decide", "ask"} => out[w].status = 0
    /\ req[w].modified # 0 => req[w].fileExist
    /\ req[w].modified = 1 => Unconditional(w)

\* Nothing shortens the file.
SizeInv(w) == pc[w] = "cache_out" => size[w] <= Len(content)

TimeInv == mutex = Nobody /\ exists => content # <<>> /\ mtime = content[1][1]

CacheInv ==
    /\ TypeOK
    /\ \A w \in Workers : ResponseInv(w) /\ AskInv(w) /\ SizeInv(w)
    /\ HeaderInv
    /\ TimeInv

\* What follows the leading units of a body is at most one block, or exactly two.
WholeBlocks ==
    \A v \in Versions :
        /\ BodyLen[v] = BodyLen[1]
        /\ \A leading \in 0 .. THROUGHPUT :
             leading <= BodyLen[v] =>
                 BodyLen[v] - leading <= THROUGHPUT \/ BodyLen[v] - leading = 2 * THROUGHPUT

\* Between the sections the file holds one version; within one, that version up to
\* where the worker has written, each unit at its place.
UniformInv ==
    /\ Len(content) <= BodyLen[1]
    /\ ~ exists => content = <<>>
    /\ mutex = Nobody /\ exists => Len(content) = BodyLen[1] /\ Uniform(content)
    /\ \A w \in Workers : pc[w] = "block" =>
        /\ resp[w].off = resp[w].got
        /\ resp[w].count <= 0 \/ resp[w].count = THROUGHPUT
        /\ \A i \in 1 .. resp[w].off : content[i] = <<resp[w].v, i>>
    /\ \A w \in Workers : pc[w] = "utime" => Len(content) = BodyLen[1] /\ Uniform(content)
    /\ CachedBodyUniform
-----------------------------------------------------------------------------
(* Units and the file *)

LEMMA VersionsAreTimes ==
    /\ Versions \subseteq Nat
    /\ 0 \notin Versions
    /\ 1 \in Versions
    /\ Versions \subseteq Times
    /\ 0 \in Times
    /\ Times \subseteq Nat
BY ProxyCacheAssumption DEF Versions, Times

LEMMA MaxOfTwo ==
    ASSUME NEW a \in Int, NEW b \in Int
    PROVE  Max({a, b}) = IF a >= b THEN a ELSE b
BY DEF Max

LEMMA MinOfTwo ==
    ASSUME NEW a \in Int, NEW b \in Int
    PROVE  Min({a, b}) = IF a <= b THEN a ELSE b
BY DEF Min

\* Some version has the longest body.
LEMMA LongestBody ==
    ASSUME NEW v \in Versions
    PROVE  /\ Max({BodyLen[u] : u \in Versions}) \in Nat
           /\ BodyLen[v] <= Max({BodyLen[u] : u \in Versions})
<1> DEFINE Longest(n) == n = 0 \/ \E x \in 1 .. n : \A y \in 1 .. n : BodyLen[y] <= BodyLen[x]
           S == {n \in Nat : n <= MaxVersion => Longest(n)}
<1>1. MaxVersion \in Nat \ {0} /\ \A x \in 1 .. MaxVersion : BodyLen[x] \in Nat
  BY ProxyCacheAssumption DEF Versions
<1>2. 0 \in S
  OBVIOUS
<1>3. ASSUME NEW n \in Nat, n \in S PROVE n + 1 \in S
  <2> SUFFICES ASSUME n + 1 <= MaxVersion PROVE Longest(n + 1)
    OBVIOUS
  <2>1. CASE n = 0
    BY <2>1, <1>1
  <2>2. CASE n # 0
    <3>1. PICK x \in 1 .. n : \A y \in 1 .. n : BodyLen[y] <= BodyLen[x]
      BY <2>2, <1>1, <1>3
    <3>2. CASE BodyLen[n + 1] <= BodyLen[x]
      BY <3>1, <3>2
    <3>3. CASE ~ (BodyLen[n + 1] <= BodyLen[x])
      <4>1. \A y \in 1 .. n + 1 : BodyLen[y] <= BodyLen[n + 1]
        BY <3>1, <3>3, <1>1
      <4> QED
        BY <4>1
    <3> QED
      BY <3>2, <3>3
  <2> QED
    BY <2>1, <2>2
<1>4. MaxVersion \in S
  <2> HIDE DEF S
  <2> QED
    BY <1>1, <1>2, <1>3, FromZeroOn
<1>5. PICK x \in Versions : \A y \in Versions : BodyLen[y] <= BodyLen[x]
  BY <1>1, <1>4 DEF Versions
<1>6. \A y \in {BodyLen[u] : u \in Versions} : BodyLen[x] >= y
  BY <1>1, <1>5 DEF Versions
<1>7. /\ Max({BodyLen[u] : u \in Versions}) \in {BodyLen[u] : u \in Versions}
      /\ \A y \in {BodyLen[u] : u \in Versions} : Max({BodyLen[u] : u \in Versions}) >= y
  BY <1>6 DEF Max
<1> QED
  BY <1>1, <1>7 DEF Versions

LEMMA UnitsOfVersion ==
    ASSUME NEW v \in Versions, NEW i \in 1 .. BodyLen[v]
    PROVE  <<v, i>> \in Units
<1>1. BodyLen[v] \in Nat
  BY ProxyCacheAssumption
<1> QED
  BY <1>1, LongestBody DEF Units

LEMMA StretchUnits ==
    ASSUME NEW v \in Versions, NEW from \in Nat \ {0}, NEW n \in Nat,
           from + n <= BodyLen[v] + 1
    PROVE  /\ Stretch(v, from, n) \in Seq(Units)
           /\ Len(Stretch(v, from, n)) = n
           /\ \A i \in 1 .. n : Stretch(v, from, n)[i] = <<v, from + i - 1>>
<1>1. \A i \in 1 .. n : from + i - 1 \in 1 .. BodyLen[v]
  BY ProxyCacheAssumption
<1>2. \A i \in 1 .. n : <<v, from + i - 1>> \in Units
  BY <1>1, UnitsOfVersion
<1>3. Stretch(v, from, n) \in [1 .. n -> Units]
  BY <1>2 DEF Stretch
<1> QED
  BY <1>3 DEF Stretch

LEMMA BufferHasUnits ==
    ASSUME NEW v \in Versions, NEW from \in Nat \ {0}, NEW n \in Nat,
           from + n <= BodyLen[v] + 1
    PROVE  /\ BufferUnits(v, from, n) \in Seq(Units)
           /\ Len(BufferUnits(v, from, n)) = n
           /\ \A i \in 1 .. n : i <= THROUGHPUT =>
                BufferUnits(v, from, n)[i] = <<v, from + i - 1>>
<1>1. \A i \in 1 .. n : from + i - 1 \in 1 .. BodyLen[v]
  BY ProxyCacheAssumption
<1>2. \A i \in 1 .. n : <<v, from + i - 1>> \in Units
  BY <1>1, UnitsOfVersion
<1>3. BufferUnits(v, from, n) \in [1 .. n -> Units]
  BY <1>2 DEF BufferUnits, Units
<1> QED
  BY <1>3 DEF BufferUnits

\* Writing within the file or right behind it leaves no hole and shortens nothing.
LEMMA OverlayFile ==
    ASSUME NEW old \in Seq(Units), NEW new \in Seq(Units), NEW at \in Nat, at <= Len(old)
    PROVE  /\ Overlay(old, new, at) \in Seq(Units)
           /\ Len(Overlay(old, new, at))
                = IF Len(old) >= at + Len(new) THEN Len(old) ELSE at + Len(new)
           /\ \A i \in at + 1 .. at + Len(new) : Overlay(old, new, at)[i] = new[i - at]
           /\ \A i \in 1 .. at : Overlay(old, new, at)[i] = old[i]
<1> DEFINE n == IF Len(old) >= at + Len(new) THEN Len(old) ELSE at + Len(new)
           all == [i \in 1 .. n |->
                     IF i \in at + 1 .. at + Len(new) THEN new[i - at] ELSE old[i]]
<1>1. Len(old) \in Nat /\ Len(new) \in Nat /\ n \in Nat /\ n >= at + Len(new) /\ n >= at
  OBVIOUS
<1>2. Overlay(old, new, at) = all
  <2>1. Max({Len(old), at + Len(new)}) = n
    BY MaxOfTwo
  <2> QED
    BY <2>1 DEF Overlay
<1>3. ASSUME NEW i \in 1 .. n
      PROVE  (IF i \in at + 1 .. at + Len(new) THEN new[i - at] ELSE old[i]) \in Units
  <2>1. CASE i \in at + 1 .. at + Len(new)
    <3>1. i - at \in 1 .. Len(new)
      BY <2>1
    <3> QED
      BY <2>1, <3>1
  <2>2. CASE i \notin at + 1 .. at + Len(new)
    <3>1. i \in 1 .. Len(old)
      BY <2>2
    <3> QED
      BY <2>2, <3>1
  <2> QED
    BY <2>1, <2>2
<1>4. all \in [1 .. n -> Units]
  BY <1>3
<1> HIDE DEF n
<1>5. all \in Seq(Units) /\ Len(all) = n
  BY <1>1, <1>4
<1>6. \A i \in at + 1 .. at + Len(new) : all[i] = new[i - at]
  BY <1>1
<1>7. \A i \in 1 .. at : all[i] = old[i]
  BY <1>1
<1> HIDE DEF all
<1> QED
  BY <1>2, <1>5, <1>6, <1>7 DEF n
-----------------------------------------------------------------------------
(* The steps keep the invariant *)

Requests == [ims : Times, nocache : BOOLEAN, fileExist : BOOLEAN, lTime : Times,
             modified : {-1, 0, 1}]
Responses == [v : {0} \cup Versions, got : Nat, off : Nat, count : Int]
Answers == [status : {0, 200, 304, 404}, from : {"nowhere", "proxy", "origin", "cache"},
            header : {0} \cup Versions, body : Seq(Units)]

\* TypeOK in two parts: what the workers share, and each one's own.
LEMMA TypesAre ==
    TypeOK <=>
        /\ origin \in Versions /\ header \in {0} \cup Versions
        /\ exists \in BOOLEAN /\ content \in Seq(Units) /\ mtime \in Times
        /\ mutex \in {Nobody} \cup Workers
        /\ pc \in [Workers -> PCs] /\ req \in [Workers -> Requests]
        /\ resp \in [Workers -> Responses] /\ out \in [Workers -> Answers]
        /\ size \in [Workers -> Nat] /\ asked \in [Workers -> 0 .. MaxRequests]
BY DEF TypeOK, Requests, Responses, Answers

\* What an earlier process left is a body of one version, with its time, and a header.
LEMMA FoundIs ==
    ASSUME origin \in Versions, Found
    PROVE  /\ header \in {0} \cup Versions /\ exists \in BOOLEAN /\ mtime \in Times
           /\ content \in Seq(Units)
           /\ exists => /\ header # 0 /\ mtime \in Versions /\ content # <<>>
                        /\ Len(content) = BodyLen[mtime]
                        /\ \A i \in 1 .. BodyLen[mtime] : content[i] = <<mtime, i>>
           /\ ~ exists => content = <<>>
<1>1. 1 .. origin \subseteq Versions /\ 0 .. origin \subseteq {0} \cup Versions
  BY ProxyCacheAssumption DEF Versions
<1>2. CASE exists
  <2>1. /\ header \in 1 .. origin /\ mtime \in 1 .. origin /\ BodyLen[mtime] > 0
        /\ content = Stretch(mtime, 1, BodyLen[mtime])
    BY <1>2 DEF Found
  <2>2. mtime \in Versions /\ BodyLen[mtime] \in Nat /\ header \in Versions /\ header # 0
    BY <2>1, <1>1, VersionsAreTimes, ProxyCacheAssumption
  <2>3. 1 \in Nat \ {0} /\ 1 + BodyLen[mtime] <= BodyLen[mtime] + 1
    BY <2>2
  <2>4. /\ content \in Seq(Units) /\ Len(content) = BodyLen[mtime]
        /\ \A i \in 1 .. BodyLen[mtime] : content[i] = <<mtime, 1 + i - 1>>
    BY <2>1, <2>2, <2>3, StretchUnits
  <2>5. content # <<>> /\ \A i \in 1 .. BodyLen[mtime] : 1 + i - 1 = i
    BY <2>1, <2>2, <2>4
  <2> QED
    BY <1>2, <2>2, <2>4, <2>5, VersionsAreTimes
<1>3. CASE ~ exists
  <2>1. header \in 0 .. origin /\ exists = FALSE /\ content = <<>> /\ mtime = 0
    BY <1>3 DEF Found
  <2>2. mtime \in Times /\ content \in Seq(Units)
    BY <2>1, VersionsAreTimes
  <2> QED
    BY <2>1, <2>2, <1>1
<1> QED
  BY <1>2, <1>3

LEMMA CacheInit == Init => CacheInv
<1> SUFFICES ASSUME Init PROVE CacheInv
  OBVIOUS
<1> USE DEF Init
<1>1. pc \in [Workers -> PCs] /\ asked \in [Workers -> 0 .. MaxRequests]
  BY ProxyCacheAssumption DEF PCs
<1>2. req \in [Workers -> Requests] /\ resp \in [Workers -> Responses]
  BY VersionsAreTimes DEF Requests, Responses
<1>3. out \in [Workers -> Answers]
  BY DEF Answers, NoAnswer
<1>4. TypeOK
  <2>1. size \in [Workers -> Nat] /\ mutex \in {Nobody} \cup Workers /\ origin \in Versions
    OBVIOUS
  <2> QED
    BY <1>1, <1>2, <1>3, <2>1, FoundIs, TypesAre
<1>5. \A w \in Workers : ResponseInv(w) /\ AskInv(w) /\ SizeInv(w)
  BY DEF ResponseInv, AskInv, SizeInv
<1>6. exists => /\ header # 0 /\ content # <<>> /\ content[1] = <<mtime, 1>>
  <2> SUFFICES ASSUME exists PROVE header # 0 /\ content # <<>> /\ content[1] = <<mtime, 1>>
    OBVIOUS
  <2>1. /\ header # 0 /\ content # <<>> /\ content \in Seq(Units) /\ Len(content) = BodyLen[mtime]
        /\ \A i \in 1 .. BodyLen[mtime] : content[i] = <<mtime, i>>
    BY FoundIs
  <2>2. 1 \in 1 .. BodyLen[mtime]
    BY <2>1
  <2> QED
    BY <2>1, <2>2
<1>7. HeaderInv /\ TimeInv
  BY <1>6 DEF HeaderInv, TimeInv, ReliesOnHeader
<1> QED
  BY <1>4, <1>5, <1>7 DEF CacheInv

\* A worker that takes no part in a step keeps its part of the invariant: the file
\* does not become shorter, and while the worker stores a body no other writes.
LEMMA OthersKeep ==
    ASSUME CacheInv, NEW u \in Workers,
           pc'[u] = pc[u], req'[u] = req[u], resp'[u] = resp[u],
           out'[u] = out[u], size'[u] = size[u],
           Len(content') >= Len(content), Len(content') \in Nat,
           (content' = content /\ mutex' = mutex /\ exists' = exists) \/ mutex # u
    PROVE  ResponseInv(u)' /\ AskInv(u)' /\ SizeInv(u)'
<1>1. ResponseInv(u) /\ AskInv(u) /\ SizeInv(u)
  BY DEF CacheInv
<1>2. ResponseInv(u)'
  BY <1>1 DEF ResponseInv
<1>3. AskInv(u)'
  BY <1>1 DEF AskInv, Unconditional
<1>4. SizeInv(u)'
  <2>1. Len(content) \in Nat /\ size[u] \in Nat
    BY TypesAre DEF CacheInv
  <2> QED
    BY <1>1, <2>1 DEF SizeInv
<1> QED
  BY <1>2, <1>3, <1>4

\* The file, the mutex and the header untouched, as in most steps: what is left to
\* show is about the worker that takes it.
LEMMA FileUntouched ==
    ASSUME CacheInv, NEW w \in Workers, UNCHANGED <<header, exists, content, mtime, mutex>>,
           NEW pcw, NEW reqw, NEW respw, NEW outw, NEW sizew,
           pc' = [pc EXCEPT ![w] = pcw], req' = [req EXCEPT ![w] = reqw],
           resp' = [resp EXCEPT ![w] = respw], out' = [out EXCEPT ![w] = outw],
           size' = [size EXCEPT ![w] = sizew],
           origin' \in Versions, asked' \in [Workers -> 0 .. MaxRequests],
           pcw \in PCs, reqw \in Requests, respw \in Responses, outw \in Answers, sizew \in Nat,
           ReliesOnHeader(w)' => header # 0,
           ResponseInv(w)' /\ AskInv(w)' /\ SizeInv(w)'
    PROVE  CacheInv'
<1>1. /\ content \in Seq(Units) /\ pc \in [Workers -> PCs] /\ req \in [Workers -> Requests]
      /\ resp \in [Workers -> Responses] /\ out \in [Workers -> Answers]
      /\ size \in [Workers -> Nat]
  BY TypesAre DEF CacheInv
<1>2. TypeOK'
  <2>1. /\ pc' \in [Workers -> PCs] /\ req' \in [Workers -> Requests]
        /\ resp' \in [Workers -> Responses] /\ out' \in [Workers -> Answers]
        /\ size' \in [Workers -> Nat]
    BY <1>1
  <2>2. /\ header' \in {0} \cup Versions /\ exists' \in BOOLEAN
        /\ content' \in Seq(Units) /\ mtime' \in Times
        /\ mutex' \in {Nobody} \cup Workers
    BY TypesAre DEF CacheInv
  <2> QED
    BY <2>1, <2>2 DEF TypeOK, Requests, Responses, Answers
<1>3. \A u \in Workers \ {w} : /\ pc'[u] = pc[u] /\ req'[u] = req[u] /\ resp'[u] = resp[u]
                               /\ out'[u] = out[u] /\ size'[u] = size[u]
  BY <1>1
<1>4. \A u \in Workers \ {w} : ResponseInv(u)' /\ AskInv(u)' /\ SizeInv(u)'
  BY <1>1, <1>3, OthersKeep
<1>5. HeaderInv'
  BY <1>3 DEF CacheInv, HeaderInv, ReliesOnHeader
<1>6. TimeInv'
  BY DEF CacheInv, TimeInv
<1> QED
  BY <1>2, <1>4, <1>5, <1>6 DEF CacheInv

\* What a worker's fields hold, and a record of each with nothing changed.
LEMMA WorkerTypes ==
    ASSUME CacheInv, NEW w \in Workers
    PROVE  /\ pc[w] \in PCs /\ req[w] \in Requests /\ resp[w] \in Responses
           /\ out[w] \in Answers /\ size[w] \in Nat /\ asked[w] \in 0 .. MaxRequests
           /\ ResponseInv(w) /\ AskInv(w) /\ SizeInv(w)
           /\ ReliesOnHeader(w) => header # 0
           /\ pc = [pc EXCEPT ![w] = pc[w]] /\ req = [req EXCEPT ![w] = req[w]]
           /\ resp = [resp EXCEPT ![w] = resp[w]] /\ out = [out EXCEPT ![w] = out[w]]
           /\ size = [size EXCEPT ![w] = size[w]]
           /\ asked \in [Workers -> 0 .. MaxRequests]
           /\ DOMAIN pc = Workers /\ DOMAIN req = Workers /\ DOMAIN resp = Workers
           /\ DOMAIN out = Workers /\ DOMAIN size = Workers
           /\ header \in {0} \cup Versions /\ mtime \in Times /\ origin \in Versions
           /\ exists \in BOOLEAN /\ content \in Seq(Units)
<1>1. ResponseInv(w) /\ AskInv(w) /\ SizeInv(w) /\ (ReliesOnHeader(w) => header # 0)
  BY DEF CacheInv, HeaderInv
<1>2. /\ pc \in [Workers -> PCs] /\ req \in [Workers -> Requests]
      /\ resp \in [Workers -> Responses] /\ out \in [Workers -> Answers]
      /\ size \in [Workers -> Nat] /\ asked \in [Workers -> 0 .. MaxRequests]
      /\ header \in {0} \cup Versions /\ mtime \in Times /\ origin \in Versions
      /\ exists \in BOOLEAN /\ content \in Seq(Units)
  BY TypesAre DEF CacheInv
<1> QED
  BY <1>1, <1>2

LEMMA RequestKeeps ==
    ASSUME CacheInv, NEW w \in Workers, NEW ims \in Times, NEW nocache \in BOOLEAN,
           Request(w, ims, nocache)
    PROVE  CacheInv'
<1> DEFINE r == [ims |-> ims, nocache |-> nocache, fileExist |-> exists, lTime |-> mtime,
                 modified |-> 0]
           next == IF exists /\ ims # 0 THEN "stat" ELSE "decide"
<1> USE WorkerTypes
<1>1. /\ pc' = [pc EXCEPT ![w] = next] /\ req' = [req EXCEPT ![w] = r]
      /\ out' = [out EXCEPT ![w] = NoAnswer]
      /\ resp' = [resp EXCEPT ![w] = resp[w]] /\ size' = [size EXCEPT ![w] = size[w]]
      /\ UNCHANGED <<origin, header, exists, content, mtime, mutex>>
  BY DEF Request, Goto, file
<1>2. next \in PCs /\ r \in Requests /\ NoAnswer \in Answers
  BY DEF PCs, Requests, Answers, NoAnswer
<1>3. asked' \in [Workers -> 0 .. MaxRequests]
  BY ProxyCacheAssumption DEF Request
<1>4. ReliesOnHeader(w)' => header # 0
  BY <1>1 DEF ReliesOnHeader, CacheInv, HeaderInv
<1>5. ResponseInv(w)' /\ AskInv(w)' /\ SizeInv(w)'
  BY <1>1 DEF ResponseInv, AskInv, SizeInv, NoAnswer
<1> HIDE DEF r, next
<1> QED
  BY <1>1, <1>2, <1>3, <1>4, <1>5, FileUntouched

LEMMA GetIMTKeeps ==
    ASSUME CacheInv, NEW w \in Workers, GetIMT(w) PROVE CacheInv'
<1> DEFINE r == [req[w] EXCEPT !.lTime = mtime]
<1> USE WorkerTypes
<1>1. /\ pc[w] = "stat" /\ pc' = [pc EXCEPT ![w] = "decide"] /\ req' = [req EXCEPT ![w] = r]
      /\ out' = [out EXCEPT ![w] = out[w]] /\ resp' = [resp EXCEPT ![w] = resp[w]]
      /\ size' = [size EXCEPT ![w] = size[w]]
      /\ UNCHANGED <<origin, header, exists, content, mtime, mutex, asked>>
  BY DEF GetIMT, Goto, file
<1>2. "decide" \in PCs /\ r \in Requests
  BY ZenonT(40) DEF PCs, Requests
<1>3. /\ r.ims = req[w].ims /\ r.nocache = req[w].nocache
      /\ r.fileExist = req[w].fileExist /\ r.modified = req[w].modified
  BY DEF Requests
<1> HIDE DEF r
<1>4. ReliesOnHeader(w)' => header # 0
  BY <1>1, <1>3 DEF ReliesOnHeader
<1>5. ResponseInv(w)' /\ AskInv(w)' /\ SizeInv(w)'
  BY <1>1, <1>3 DEF ResponseInv, AskInv, SizeInv, Unconditional
<1> QED
  BY <1>1, <1>2, <1>4, <1>5, FileUntouched

LEMMA AskOriginKeeps ==
    ASSUME CacheInv, NEW w \in Workers, AskOrigin(w) PROVE CacheInv'
<1> DEFINE marked == IF ~ req[w].fileExist THEN 0
                     ELSE IF req[w].ims = 0 THEN 1
                     ELSE IF BrowserOlder(w) THEN -1 ELSE 0
           r == [req[w] EXCEPT !.modified = marked]
<1> USE WorkerTypes
<1>1. /\ pc[w] = "decide" /\ pc' = [pc EXCEPT ![w] = "ask"] /\ req' = [req EXCEPT ![w] = r]
      /\ out' = [out EXCEPT ![w] = out[w]] /\ resp' = [resp EXCEPT ![w] = resp[w]]
      /\ size' = [size EXCEPT ![w] = size[w]]
      /\ ~ req[w].fileExist \/ req[w].nocache
      /\ UNCHANGED <<origin, header, exists, content, mtime, mutex, asked>>
  BY DEF AskOrigin, Goto, file
<1>2. "ask" \in PCs /\ r \in Requests
  <2>1. marked \in {-1, 0, 1}
    OBVIOUS
  <2> HIDE DEF marked
  <2> QED
    BY <2>1, ZenonT(40) DEF PCs, Requests
<1>3. /\ r.ims = req[w].ims /\ r.nocache = req[w].nocache
      /\ r.fileExist = req[w].fileExist /\ r.modified = marked
  BY DEF Requests
<1> HIDE DEF r
<1>4. ReliesOnHeader(w)' => header # 0
  BY <1>1, <1>3 DEF ReliesOnHeader
<1>5. ResponseInv(w)' /\ AskInv(w)' /\ SizeInv(w)'
  BY <1>1, <1>3 DEF ResponseInv, AskInv, SizeInv, Unconditional
<1> QED
  BY <1>1, <1>2, <1>4, <1>5, FileUntouched

\* Turning to another step, to wait for the origin or to answer from the cache.
LEMMA TurnsKeep ==
    ASSUME CacheInv, NEW w \in Workers,
           AnswerFromCache(w) \/ OriginSilent(w) \/ OriginConfirmsFile(w)
    PROVE  CacheInv'
<1> DEFINE next == pc'[w]
<1> USE WorkerTypes
<1>1. /\ pc[w] \in {"decide", "ask"} /\ next \in {"idle", "msgGenerator"}
      /\ next = "msgGenerator" => req[w].fileExist
      /\ pc' = [pc EXCEPT ![w] = next] /\ req' = [req EXCEPT ![w] = req[w]]
      /\ out' = [out EXCEPT ![w] = out[w]] /\ resp' = [resp EXCEPT ![w] = resp[w]]
      /\ size' = [size EXCEPT ![w] = size[w]]
      /\ UNCHANGED <<origin, header, exists, content, mtime, mutex, asked>>
  BY DEF AnswerFromCache, OriginSilent, OriginConfirmsFile, Goto, file, AskInv
<1>2. next \in PCs
  BY <1>1 DEF PCs
<1> HIDE DEF next
<1>3. ReliesOnHeader(w)' => header # 0
  BY <1>1 DEF ReliesOnHeader
<1>4. ResponseInv(w)' /\ AskInv(w)' /\ SizeInv(w)'
  BY <1>1 DEF ResponseInv, AskInv, SizeInv, Unconditional
<1> QED
  BY <1>1, <1>2, <1>3, <1>4, FileUntouched

\* The end of a request without a body from the file.
LEMMA AnswersKeep ==
    ASSUME CacheInv, NEW w \in Workers,
           AnswerNotModified(w) \/ OriginRefuses(w) \/ OriginNotModified(w)
    PROVE  CacheInv'
<1> DEFINE answer == out'[w]
<1> USE WorkerTypes
<1>1. /\ answer \in Answers
      /\ pc' = [pc EXCEPT ![w] = "idle"] /\ req' = [req EXCEPT ![w] = req[w]]
      /\ out' = [out EXCEPT ![w] = answer] /\ resp' = [resp EXCEPT ![w] = resp[w]]
      /\ size' = [size EXCEPT ![w] = size[w]]
      /\ UNCHANGED <<origin, header, exists, content, mtime, mutex, asked>>
  <2> DEFINE made(status, from) ==
        [status |-> status, from |-> from, header |-> 0, body |-> <<>>]
  <2>1. answer \in {made(304, "proxy"), made(404, "origin"), made(304, "origin")}
        /\ out' = [out EXCEPT ![w] = answer]
    BY DEF AnswerNotModified, OriginRefuses, OriginNotModified, Answer
  <2>2. answer \in Answers
    <3>1. <<>> \in Seq(Units)
      OBVIOUS
    <3>2. /\ made(304, "proxy") \in Answers /\ made(404, "origin") \in Answers
          /\ made(304, "origin") \in Answers
      BY <3>1 DEF Answers
    <3> HIDE DEF answer, made
    <3> QED
      BY <2>1, <3>2
  <2> QED
    BY <2>1, <2>2
    DEF AnswerNotModified, OriginRefuses, OriginNotModified, Answer, Goto, file
<1>2. "idle" \in PCs
  BY DEF PCs
<1> HIDE DEF answer
<1>3. ReliesOnHeader(w)' => header # 0
  BY <1>1 DEF ReliesOnHeader
<1>4. ResponseInv(w)' /\ AskInv(w)' /\ SizeInv(w)'
  BY <1>1 DEF ResponseInv, AskInv, SizeInv, Unconditional
<1> QED
  BY <1>1, <1>2, <1>3, <1>4, FileUntouched

LEMMA OriginSendsKeeps ==
    ASSUME CacheInv, NEW w \in Workers, NEW leading \in 0 .. THROUGHPUT, OriginSends(w, leading)
    PROVE  CacheInv'
<1> DEFINE r == [v |-> origin, got |-> leading, off |-> 0, count |-> 0]
<1> USE WorkerTypes
<1>1. /\ pc' = [pc EXCEPT ![w] = "header"] /\ req' = [req EXCEPT ![w] = req[w]]
      /\ out' = [out EXCEPT ![w] = out[w]] /\ resp' = [resp EXCEPT ![w] = r]
      /\ size' = [size EXCEPT ![w] = size[w]]
      /\ UNCHANGED <<origin, header, exists, content, mtime, mutex, asked>>
  BY DEF OriginSends, Goto, file
<1>2. leading \in Nat /\ leading <= BodyLen[origin] /\ leading <= THROUGHPUT
  <2>1. BodyLen[origin] \in Int /\ THROUGHPUT \in Int
    BY ProxyCacheAssumption
  <2>2. leading <= Min({BodyLen[origin], THROUGHPUT})
    BY DEF OriginSends
  <2>3. Min({BodyLen[origin], THROUGHPUT})
          = IF BodyLen[origin] <= THROUGHPUT THEN BodyLen[origin] ELSE THROUGHPUT
    BY <2>1, MinOfTwo, Zenon
  <2> QED
    BY <2>1, <2>2, <2>3
<1>3. "header" \in PCs /\ r \in Responses
  BY <1>2 DEF PCs, Responses
<1>4. ReliesOnHeader(w)' => header # 0
  BY <1>1 DEF ReliesOnHeader
<1>5. ResponseInv(w)' /\ AskInv(w)' /\ SizeInv(w)'
  BY <1>1, <1>2 DEF ResponseInv, AskInv, SizeInv, Unconditional
<1> HIDE DEF r
<1> QED
  BY <1>1, <1>3, <1>4, <1>5, FileUntouched

LEMMA CacheStatKeeps ==
    ASSUME CacheInv, NEW w \in Workers, CacheStat(w) PROVE CacheInv'
<1> USE WorkerTypes
<1>1. /\ pc' = [pc EXCEPT ![w] = "cache_out"] /\ req' = [req EXCEPT ![w] = req[w]]
      /\ out' = [out EXCEPT ![w] = out[w]] /\ resp' = [resp EXCEPT ![w] = resp[w]]
      /\ size' = [size EXCEPT ![w] = Len(content)]
      /\ UNCHANGED <<origin, header, exists, content, mtime, mutex, asked>>
  BY DEF CacheStat, Goto, file
<1>2. "cache_out" \in PCs /\ Len(content) \in Nat
  BY DEF PCs
<1>3. ReliesOnHeader(w)' => header # 0
  BY <1>1 DEF ReliesOnHeader
<1>4. ResponseInv(w)' /\ AskInv(w)' /\ SizeInv(w)'
  BY <1>1, <1>2 DEF ResponseInv, AskInv, SizeInv, Unconditional
<1> QED
  BY <1>1, <1>2, <1>3, <1>4, FileUntouched

LEMMA MsgGeneratorKeeps ==
    ASSUME CacheInv, NEW w \in Workers, MsgGenerator(w) PROVE CacheInv'
<1> DEFINE answer == [status |-> 200, from |-> "cache", header |-> header, body |-> <<>>]
<1> USE WorkerTypes
<1>1. /\ pc' = [pc EXCEPT ![w] = "fstat"] /\ req' = [req EXCEPT ![w] = req[w]]
      /\ out' = [out EXCEPT ![w] = answer] /\ resp' = [resp EXCEPT ![w] = resp[w]]
      /\ size' = [size EXCEPT ![w] = size[w]]
      /\ UNCHANGED <<origin, header, exists, content, mtime, mutex, asked>>
  BY DEF MsgGenerator, Goto, file
<1>2. "fstat" \in PCs /\ answer \in Answers
  <2>1. <<>> \in Seq(Units)
    OBVIOUS
  <2> QED
    BY <2>1 DEF PCs, Answers
<1> HIDE DEF answer
<1>3. ReliesOnHeader(w)' => header # 0
  BY <1>1 DEF ReliesOnHeader
<1>4. ResponseInv(w)' /\ AskInv(w)' /\ SizeInv(w)'
  BY <1>1 DEF ResponseInv, AskInv, SizeInv, Unconditional
<1> QED
  BY <1>1, <1>2, <1>3, <1>4, FileUntouched

LEMMA CacheOutKeeps ==
    ASSUME CacheInv, NEW w \in Workers, CacheOut(w) PROVE CacheInv'
<1> DEFINE answer == [status |-> 200, from |-> "cache", header |-> out[w].header,
                      body |-> SubSeq(content, 1, size[w])]
<1> USE WorkerTypes
<1>1. /\ pc[w] = "cache_out"
      /\ pc' = [pc EXCEPT ![w] = "idle"] /\ req' = [req EXCEPT ![w] = req[w]]
      /\ out' = [out EXCEPT ![w] = answer] /\ resp' = [resp EXCEPT ![w] = resp[w]]
      /\ size' = [size EXCEPT ![w] = size[w]]
      /\ UNCHANGED <<origin, header, exists, content, mtime, mutex, asked>>
  BY DEF CacheOut, Answer, Goto, file
<1>2. size[w] <= Len(content)
  BY <1>1 DEF SizeInv
<1>3. SubSeq(content, 1, size[w]) \in Seq(Units)
  BY <1>2, SubSeqProperties
<1>4. "idle" \in PCs /\ answer \in Answers
  BY <1>3 DEF PCs, Answers
<1> HIDE DEF answer
<1>5. ReliesOnHeader(w)' => header # 0
  BY <1>1 DEF ReliesOnHeader
<1>6. ResponseInv(w)' /\ AskInv(w)' /\ SizeInv(w)'
  BY <1>1 DEF ResponseInv, AskInv, SizeInv, Unconditional
<1> QED
  BY <1>1, <1>4, <1>5, <1>6, FileUntouched

\* The steps that store a response.  The header comes first.
LEMMA HeaderInKeeps ==
    ASSUME CacheInv, NEW w \in Workers, NEW lengthKnown \in BOOLEAN, HeaderIn(w, lengthKnown)
    PROVE  CacheInv'
<1> DEFINE next == IF lengthKnown THEN "open" ELSE "idle"
           answer == out'[w]
<1> USE WorkerTypes
<1>1. resp[w].v \in Versions /\ resp[w].v # 0 /\ header' = resp[w].v
  BY VersionsAreTimes DEF HeaderIn, ResponseInv
<1>2. /\ pc[w] = "header" /\ pc' = [pc EXCEPT ![w] = next]
      /\ UNCHANGED <<origin, exists, content, mtime, mutex, req, resp, size, asked>>
  BY DEF HeaderIn, Answer, Goto, file
<1>3. out' = [out EXCEPT ![w] = answer] /\ answer \in Answers
  <2>1. CASE lengthKnown
    BY <2>1 DEF HeaderIn
  <2>2. CASE ~ lengthKnown
    <3> DEFINE made == [status |-> 200, from |-> "origin", header |-> resp[w].v,
                        body |-> <<>>]
    <3>1. out' = [out EXCEPT ![w] = made]
      BY <2>2 DEF HeaderIn, Answer
    <3>2. <<>> \in Seq(Units)
      OBVIOUS
    <3>3. made \in Answers
      BY <1>1, <3>2 DEF Answers
    <3> HIDE DEF made
    <3> QED
      BY <3>1, <3>3
  <2> QED
    BY <2>1, <2>2
<1> HIDE DEF answer
<1>4. \A u \in Workers \ {w} : pc'[u] = pc[u] /\ out'[u] = out[u]
  BY <1>2, <1>3
<1>5. TypeOK'
  <2>1. next \in PCs
    BY DEF PCs
  <2>2. pc' \in [Workers -> PCs] /\ out' \in [Workers -> Answers]
    BY <2>1, <1>2, <1>3, TypesAre DEF CacheInv
  <2> QED
    BY <2>2, <1>1, <1>2, TypesAre DEF CacheInv, TypeOK, Answers
<1>6. \A u \in Workers \ {w} : ResponseInv(u)' /\ AskInv(u)' /\ SizeInv(u)'
  <2>1. Len(content) \in Nat
    BY TypesAre DEF CacheInv
  <2> QED
    BY <2>1, <1>2, <1>4, OthersKeep
<1>7. ResponseInv(w)' /\ AskInv(w)' /\ SizeInv(w)'
  BY <1>2 DEF ResponseInv, AskInv, SizeInv, Unconditional
<1>8. HeaderInv'
  BY <1>1 DEF HeaderInv
<1>9. TimeInv'
  BY <1>2 DEF CacheInv, TimeInv
<1> QED
  BY <1>5, <1>6, <1>7, <1>8, <1>9 DEF CacheInv

\* What a write does to the file, within it or right behind it.
LEMMA WriteKeeps ==
    ASSUME CacheInv, NEW data \in Seq(Units), NEW at \in Nat, at <= Len(content),
           WriteAt(data, at)
    PROVE  /\ content' \in Seq(Units) /\ exists' = TRUE /\ mtime' \in Times
           /\ Len(content') >= Len(content) /\ Len(content') >= at + Len(data)
           /\ Len(content') \in Nat
           /\ Len(content') = IF Len(content) >= at + Len(data) THEN Len(content)
                              ELSE at + Len(data)
           /\ \A i \in at + 1 .. at + Len(data) : content'[i] = data[i - at]
           /\ \A i \in 1 .. at : content'[i] = content[i]
<1>1. content \in Seq(Units) /\ mtime \in Times /\ origin \in Times
  BY VersionsAreTimes, TypesAre DEF CacheInv
<1>2. content' = Overlay(content, data, at) /\ exists' = TRUE /\ mtime' \in {origin, mtime}
  BY DEF WriteAt
<1>3. /\ content' \in Seq(Units)
      /\ Len(content') = IF Len(content) >= at + Len(data) THEN Len(content)
                         ELSE at + Len(data)
      /\ \A i \in at + 1 .. at + Len(data) : content'[i] = data[i - at]
      /\ \A i \in 1 .. at : content'[i] = content[i]
  BY <1>1, <1>2, OverlayFile
<1>4. Len(content) \in Nat /\ Len(data) \in Nat
  BY <1>1
<1> QED
  BY <1>1, <1>2, <1>3, <1>4

LEMMA BodyOpenKeeps ==
    ASSUME CacheInv, NEW w \in Workers, BodyOpen(w) PROVE CacheInv'
<1> DEFINE v == resp[w].v
           leading == resp[w].got
           r == [resp[w] EXCEPT !.off = leading, !.count = BodyLen[v] - leading - THROUGHPUT]
           next == IF BodyLen[v] > 0 THEN "block" ELSE "idle"
           answer == out'[w]
<1>1. /\ pc[w] \in PCs /\ req[w] \in Requests /\ resp[w] \in Responses
      /\ out[w] \in Answers /\ size[w] \in Nat /\ header # 0
      /\ ResponseInv(w) /\ AskInv(w)
      /\ pc \in [Workers -> PCs] /\ resp \in [Workers -> Responses]
      /\ out \in [Workers -> Answers] /\ content \in Seq(Units)
  BY WorkerTypes, TypesAre DEF BodyOpen, CacheInv, HeaderInv, ReliesOnHeader
<1>2. /\ pc[w] = "open" /\ mutex = Nobody /\ mutex' = w
      /\ WriteAt(Stretch(v, 1, leading), 0)
      /\ resp' = [resp EXCEPT ![w] = r]
      /\ pc' = [pc EXCEPT ![w] = next]
      /\ UNCHANGED <<origin, header, req, size, asked>>
  BY <1>1 DEF BodyOpen, Answer, Goto
<1>3. /\ v \in Versions /\ leading \in Nat /\ leading <= BodyLen[v] /\ leading <= THROUGHPUT
      /\ BodyLen[v] \in Nat /\ THROUGHPUT \in Nat
  BY <1>1, <1>2, ProxyCacheAssumption DEF ResponseInv, Responses
<1>4. /\ Stretch(v, 1, leading) \in Seq(Units) /\ Len(Stretch(v, 1, leading)) = leading
      /\ \A i \in 1 .. leading : Stretch(v, 1, leading)[i] = <<v, 1 + i - 1>>
  <2> HIDE DEF v, leading
  <2> QED
    BY <1>3, StretchUnits
<1>5. /\ content' \in Seq(Units) /\ exists' = TRUE /\ mtime' \in Times
      /\ Len(content') >= Len(content) /\ Len(content') >= leading
      /\ Len(content') \in Nat
      /\ \A i \in 1 .. leading : content'[i] = <<v, 1 + i - 1>>
  <2> HIDE DEF v, leading
  <2>1. 0 <= Len(content)
    BY <1>1
  <2>2. /\ content' \in Seq(Units) /\ exists' = TRUE /\ mtime' \in Times
        /\ Len(content') >= Len(content) /\ Len(content') >= 0 + leading
        /\ Len(content') \in Nat
        /\ \A i \in 0 + 1 .. 0 + leading : content'[i] = Stretch(v, 1, leading)[i - 0]
    BY <2>1, <1>2, <1>4, WriteKeeps
  <2> QED
    BY <2>2, <1>3, <1>4
<1>6. leading > 0 => content'[1][1] = v
  BY <1>3, <1>5
<1>7. out' = [out EXCEPT ![w] = answer] /\ answer \in Answers
  <2>1. CASE BodyLen[v] > 0
    BY <2>1, <1>1 DEF BodyOpen
  <2>2. CASE ~ (BodyLen[v] > 0)
    <3> DEFINE made == [status |-> 200, from |-> "origin", header |-> v, body |-> <<>>]
    <3>1. out' = [out EXCEPT ![w] = made]
      BY <2>2 DEF BodyOpen, Answer
    <3>2. <<>> \in Seq(Units)
      OBVIOUS
    <3>3. made \in Answers
      BY <1>3, <3>2 DEF Answers
    <3> HIDE DEF made
    <3> QED
      BY <1>1, <3>1, <3>3
  <2> QED
    BY <2>1, <2>2
<1>8. /\ r \in Responses /\ r.v = v /\ r.got = leading /\ r.off = leading
      /\ r.count = BodyLen[v] - leading - THROUGHPUT
  <2> DEFINE count == BodyLen[v] - leading - THROUGHPUT
  <2>1. count \in Int
    BY <1>3
  <2> HIDE DEF count
  <2>2. [resp[w] EXCEPT !.off = leading, !.count = count] \in Responses
    BY <2>1, <1>1 DEF Responses
  <2> QED
    BY <2>2, <1>1 DEF count, Responses
<1> HIDE DEF r, answer, leading, v
<1>9. resp'[w] = r /\ pc'[w] = next
  BY <1>1, <1>2
<1>10. \A u \in Workers \ {w} : /\ pc'[u] = pc[u] /\ resp'[u] = resp[u] /\ out'[u] = out[u]
                                /\ req'[u] = req[u] /\ size'[u] = size[u]
  BY <1>1, <1>2, <1>7
<1>11. TypeOK'
  <2>1. pc' \in [Workers -> PCs] /\ resp' \in [Workers -> Responses]
        /\ out' \in [Workers -> Answers]
    BY <1>1, <1>2, <1>7, <1>8 DEF PCs
  <2> QED
    BY <2>1, <1>2, <1>5, TypesAre DEF CacheInv, TypeOK, Responses, Answers
<1>12. \A u \in Workers \ {w} : ResponseInv(u)' /\ AskInv(u)' /\ SizeInv(u)'
  <2>1. mutex \notin Workers
    BY <1>2, ProxyCacheAssumption
  <2> QED
    BY <2>1, <1>5, <1>10, OthersKeep
<1>13. ResponseInv(w)'
  <2>1. r.count >= - THROUGHPUT
    BY <1>3, <1>8
  <2> QED
    BY <2>1, <1>2, <1>3, <1>5, <1>6, <1>8, <1>9 DEF ResponseInv
<1>14. AskInv(w)' /\ SizeInv(w)'
  BY <1>1, <1>2, <1>9 DEF AskInv, SizeInv, Unconditional
<1>15. HeaderInv'
  BY <1>1, <1>2 DEF HeaderInv
<1>16. TimeInv'
  BY <1>2, ProxyCacheAssumption DEF TimeInv
<1> QED
  BY <1>11, <1>12, <1>13, <1>14, <1>15, <1>16 DEF CacheInv

LEMMA BodyBlockKeeps ==
    ASSUME CacheInv, NEW w \in Workers, BodyBlock(w) PROVE CacheInv'
<1> DEFINE v == resp[w].v
           got == resp[w].got
           off == resp[w].off
           count == resp[w].count
           data == BufferUnits(v, got + 1, count)
           r == [resp[w] EXCEPT !.got = @ + THROUGHPUT, !.off = @ + count,
                                !.count = @ - THROUGHPUT]
<1>1. /\ resp[w] \in Responses /\ header # 0 /\ ResponseInv(w)
      /\ resp \in [Workers -> Responses] /\ content \in Seq(Units)
  BY WorkerTypes, TypesAre DEF BodyBlock, CacheInv, HeaderInv, ReliesOnHeader
<1>2. /\ pc[w] = "block" /\ count > 0 /\ WriteAt(data, off)
      /\ resp' = [resp EXCEPT ![w] = r]
      /\ UNCHANGED <<origin, header, mutex, pc, req, out, size, asked>>
  BY DEF BodyBlock
<1>3. /\ v \in Versions /\ got \in Nat /\ off \in Nat /\ count \in Nat /\ mutex = w
      /\ count = BodyLen[v] - got - THROUGHPUT /\ off <= Len(content)
      /\ BodyLen[v] > 0 /\ (off > 0 => content[1][1] = v)
      /\ BodyLen[v] \in Nat /\ THROUGHPUT \in Nat \ {0}
  BY <1>1, <1>2, ProxyCacheAssumption DEF ResponseInv, Responses
<1>4. /\ r \in Responses /\ r.v = v /\ r.got = got + THROUGHPUT /\ r.off = off + count
      /\ r.count = count - THROUGHPUT
  <2> DEFINE got1 == got + THROUGHPUT
             off1 == off + count
             count1 == count - THROUGHPUT
  <2>1. got1 \in Nat /\ off1 \in Nat /\ count1 \in Int
    BY <1>3, SMTT(30)
  <2>2. r = [resp[w] EXCEPT !.got = got1, !.off = off1, !.count = count1]
    OBVIOUS
  <2> HIDE DEF r, got1, off1, count1
  <2>3. /\ r \in Responses /\ r.v = resp[w].v
        /\ r.got = got1 /\ r.off = off1 /\ r.count = count1
    BY <2>1, <2>2, <1>1 DEF Responses
  <2> QED
    BY <2>3 DEF got1, off1, count1
<1> HIDE DEF v, got, off, count, r
<1>5. /\ data \in Seq(Units) /\ Len(data) = count
      /\ \A i \in 1 .. count : i <= THROUGHPUT => data[i] = <<v, got + 1 + i - 1>>
  <2>1. got + 1 \in Nat \ {0} /\ (got + 1) + count <= BodyLen[v] + 1
    BY <1>3
  <2> QED
    BY <2>1, <1>3, BufferHasUnits
<1> HIDE DEF data
<1>6. /\ content' \in Seq(Units) /\ exists' = TRUE /\ mtime' \in Times
      /\ Len(content') >= Len(content) /\ Len(content') >= off + count
      /\ Len(content') \in Nat
      /\ \A i \in off + 1 .. off + count : content'[i] = data[i - off]
      /\ \A i \in 1 .. off : content'[i] = content[i]
  BY <1>2, <1>3, <1>5, WriteKeeps, ZenonT(40)
<1>7. content'[1][1] = v
  <2>1. CASE off > 0
    <3>1. 1 \in 1 .. off
      BY <2>1, <1>3
    <3> QED
      BY <2>1, <3>1, <1>3, <1>6
  <2>2. CASE off = 0
    <3>1. content'[1] = data[1]
      <4>1. 1 \in off + 1 .. off + count /\ 1 - off = 1
        BY <2>2, <1>2, <1>3
      <4> QED
        BY <4>1, <1>6
    <3>2. data[1] = <<v, got + 1 + 1 - 1>>
      <4>1. 1 \in 1 .. count /\ 1 <= THROUGHPUT
        BY <1>2, <1>3
      <4> QED
        BY <4>1, <1>5
    <3> QED
      BY <3>1, <3>2
  <2> QED
    BY <2>1, <2>2, <1>3
<1>8. resp'[w] = r
  BY <1>1, <1>2
<1>9. \A u \in Workers \ {w} : resp'[u] = resp[u]
  BY <1>1, <1>2
<1>10. TypeOK'
  <2>1. resp' \in [Workers -> Responses]
    BY <1>1, <1>2, <1>4
  <2> QED
    BY <2>1, <1>2, <1>6, TypesAre DEF CacheInv, TypeOK, Responses
<1>11. \A u \in Workers \ {w} : ResponseInv(u)' /\ AskInv(u)' /\ SizeInv(u)'
  BY <1>2, <1>3, <1>6, <1>9, OthersKeep
<1>12. ResponseInv(w)'
  <2>1. /\ r.count >= - THROUGHPUT /\ r.off > 0
        /\ r.count = BodyLen[r.v] - r.got - THROUGHPUT
    BY <1>2, <1>3, <1>4, SMTT(30)
  <2> QED
    <3>1. r.off <= Len(content') /\ BodyLen[r.v] > 0 /\ r.v \in Versions
      BY <1>3, <1>4, <1>6
    <3>2. mutex' = w /\ pc'[w] = "block"
      BY <1>2, <1>3
    <3>3. r.off # 0 /\ content'[1][1] = r.v
      BY <2>1, <1>4, <1>7
    <3> QED
      BY <2>1, <3>1, <3>2, <3>3, <1>8 DEF ResponseInv
<1>13. AskInv(w)' /\ SizeInv(w)'
  BY <1>2, WorkerTypes DEF AskInv, SizeInv, Unconditional
<1>14. HeaderInv'
  BY <1>1, <1>2 DEF HeaderInv
<1>15. TimeInv'
  BY <1>2, <1>3, ProxyCacheAssumption DEF TimeInv
<1> QED
  BY <1>10, <1>11, <1>12, <1>13, <1>14, <1>15 DEF CacheInv

\* The last units: the version is complete.
LEMMA BodyRestWrites ==
    ASSUME CacheInv, NEW w \in Workers, BodyRest(w)
    PROVE  LET r == resp[w]
               rest == r.count + THROUGHPUT IN
           /\ pc[w] = "block" /\ mutex = w /\ rest \in Nat /\ r.v \in Versions
           /\ r.got \in Nat /\ r.off \in Nat /\ r.got + rest = BodyLen[r.v]
           /\ exists' = TRUE /\ mtime' \in Times
           /\ content' \in Seq(Units) /\ Len(content') >= Len(content) /\ Len(content') \in Nat
           /\ Len(content') = IF Len(content) >= r.off + rest THEN Len(content)
                              ELSE r.off + rest
           /\ \A i \in r.off + 1 .. r.off + rest : content'[i] = <<r.v, r.got + i - r.off>>
           /\ \A i \in 1 .. r.off : content'[i] = content[i]
           /\ content' # <<>> /\ content'[1][1] = r.v
<1> DEFINE v == resp[w].v
           got == resp[w].got
           off == resp[w].off
           rest == resp[w].count + THROUGHPUT
           data == Stretch(v, got + 1, rest)
<1>1. resp[w] \in Responses /\ ResponseInv(w) /\ content \in Seq(Units)
  BY WorkerTypes
<1>2. pc[w] = "block" /\ WriteAt(data, off)
  BY DEF BodyRest
<1>3. /\ v \in Versions /\ got \in Nat /\ off \in Nat /\ mutex = w /\ rest \in Nat
      /\ got + rest = BodyLen[v] /\ off <= Len(content)
      /\ BodyLen[v] > 0 /\ (off > 0 => content[1][1] = v) /\ (off = 0 => got = 0)
      /\ BodyLen[v] \in Nat
  BY <1>1, <1>2, ProxyCacheAssumption DEF ResponseInv, Responses
<1> HIDE DEF v, got, off, rest
<1>4. /\ data \in Seq(Units) /\ Len(data) = rest
      /\ \A i \in 1 .. rest : data[i] = <<v, got + 1 + i - 1>>
  <2>1. got + 1 \in Nat \ {0} /\ (got + 1) + rest <= BodyLen[v] + 1
    BY <1>3
  <2> QED
    BY <2>1, <1>3, StretchUnits
<1> HIDE DEF data
<1>5. /\ content' \in Seq(Units) /\ exists' = TRUE /\ mtime' \in Times
      /\ Len(content') = IF Len(content) >= off + rest THEN Len(content) ELSE off + rest
      /\ \A i \in off + 1 .. off + rest : content'[i] = data[i - off]
      /\ \A i \in 1 .. off : content'[i] = content[i]
  BY <1>1, <1>2, <1>3, <1>4, WriteKeeps
<1>6. Len(content') >= Len(content) /\ Len(content') >= off + rest /\ Len(content') \in Nat
  BY <1>1, <1>3, <1>5
<1>7. \A i \in off + 1 .. off + rest : content'[i] = <<v, got + i - off>>
  <2> SUFFICES ASSUME NEW i \in off + 1 .. off + rest PROVE content'[i] = <<v, got + i - off>>
    OBVIOUS
  <2>1. i - off \in 1 .. rest /\ got + 1 + (i - off) - 1 = got + i - off
    BY <1>3
  <2> QED
    BY <2>1, <1>4, <1>5
<1>8. content' # <<>> /\ content'[1][1] = v
  <2>1. CASE off > 0
    <3>1. 1 \in 1 .. off
      BY <2>1, <1>3
    <3> QED
      BY <2>1, <3>1, <1>3, <1>5, <1>6
  <2>2. CASE off = 0
    <3>1. 1 \in off + 1 .. off + rest
      BY <2>2, <1>3
    <3>2. content'[1] = <<v, got + 1 - off>>
      BY <3>1, <1>7
    <3> QED
      BY <2>2, <3>1, <3>2, <1>3, <1>5, <1>6
  <2> QED
    BY <2>1, <2>2, <1>3
<1> QED
  BY <1>2, <1>3, <1>5, <1>6, <1>7, <1>8 DEF v, got, off, rest

LEMMA BodyRestKeeps ==
    ASSUME CacheInv, NEW w \in Workers, BodyRest(w) PROVE CacheInv'
<1> DEFINE v == resp[w].v
           all == resp[w].got + (resp[w].count + THROUGHPUT)
           r == [resp[w] EXCEPT !.got = all]
<1>1. /\ pc[w] = "block" /\ mutex = w /\ v \in Versions /\ all = BodyLen[v]
      /\ exists' = TRUE /\ mtime' \in Times
      /\ content' \in Seq(Units) /\ Len(content') >= Len(content) /\ Len(content') \in Nat
      /\ content' # <<>> /\ content'[1][1] = v
  BY BodyRestWrites
<1>2. /\ pc' = [pc EXCEPT ![w] = "utime"] /\ resp' = [resp EXCEPT ![w] = r]
      /\ UNCHANGED <<origin, header, mutex, req, out, size, asked>>
  BY DEF BodyRest, Goto
<1>3. /\ pc \in [Workers -> PCs] /\ resp \in [Workers -> Responses] /\ header # 0
  BY <1>1, TypesAre DEF CacheInv, HeaderInv, ReliesOnHeader
<1>4. r \in Responses /\ r.v = v /\ r.got = all
  <2>1. all \in Nat /\ resp[w] \in Responses
    BY <1>1, <1>3, ProxyCacheAssumption
  <2> HIDE DEF all
  <2> QED
    BY <2>1 DEF Responses
<1> HIDE DEF v, all, r
<1>5. /\ pc'[w] = "utime" /\ resp'[w] = r
      /\ \A u \in Workers \ {w} : pc'[u] = pc[u] /\ resp'[u] = resp[u]
  BY <1>2, <1>3
<1>6. TypeOK'
  <2>1. pc' \in [Workers -> PCs] /\ resp' \in [Workers -> Responses]
    BY <1>2, <1>3, <1>4 DEF PCs
  <2> QED
    BY <2>1, <1>1, <1>2, TypesAre DEF CacheInv, TypeOK, Responses
<1>7. \A u \in Workers \ {w} : ResponseInv(u)' /\ AskInv(u)' /\ SizeInv(u)'
  BY <1>1, <1>2, <1>5, OthersKeep
<1>8. ResponseInv(w)' /\ AskInv(w)' /\ SizeInv(w)'
  BY <1>1, <1>2, <1>4, <1>5, WorkerTypes DEF ResponseInv, AskInv, SizeInv, Unconditional
<1>9. HeaderInv' /\ TimeInv'
  BY <1>1, <1>2, <1>3, ProxyCacheAssumption DEF HeaderInv, TimeInv
<1> QED
  BY <1>6, <1>7, <1>8, <1>9 DEF CacheInv

\* The time of the version that is now complete, and its answer.
LEMMA BodyEndKeeps ==
    ASSUME CacheInv, NEW w \in Workers, BodyEnd(w) PROVE CacheInv'
<1> DEFINE v == resp[w].v
           answer == [status |-> 200, from |-> "origin", header |-> v,
                      body |-> Stretch(v, 1, resp[w].got)]
<1>1. /\ pc[w] = "utime" /\ mutex = w /\ v \in Versions /\ resp[w].got = BodyLen[v]
      /\ exists /\ content \in Seq(Units) /\ Len(content) \in Nat
      /\ content # <<>> /\ content[1][1] = v
  BY WorkerTypes DEF BodyEnd, ResponseInv
<1>2. /\ mtime' = v /\ mutex' = Nobody
      /\ pc' = [pc EXCEPT ![w] = "idle"] /\ out' = [out EXCEPT ![w] = answer]
      /\ UNCHANGED <<origin, header, exists, content, req, resp, size, asked>>
  BY DEF BodyEnd, Answer, Goto, SetModificationTime, Unlock
<1>3. answer \in Answers
  <2>1. 1 \in Nat \ {0} /\ BodyLen[v] \in Nat /\ 1 + BodyLen[v] <= BodyLen[v] + 1
    BY <1>1, ProxyCacheAssumption
  <2>2. Stretch(v, 1, BodyLen[v]) \in Seq(Units)
    BY <2>1, <1>1, StretchUnits
  <2> HIDE DEF v
  <2> QED
    BY <2>2, <1>1 DEF Answers
<1> HIDE DEF v, answer
<1>4. /\ pc \in [Workers -> PCs] /\ out \in [Workers -> Answers] /\ header # 0
  BY <1>1, TypesAre DEF CacheInv, HeaderInv, ReliesOnHeader
<1>5. pc'[w] = "idle" /\ \A u \in Workers \ {w} : pc'[u] = pc[u] /\ out'[u] = out[u]
  BY <1>2, <1>4
<1>6. TypeOK'
  <2>1. pc' \in [Workers -> PCs] /\ out' \in [Workers -> Answers]
    BY <1>2, <1>3, <1>4 DEF PCs
  <2> QED
    BY <2>1, <1>1, <1>2, VersionsAreTimes, TypesAre DEF CacheInv, TypeOK, Answers
<1>7. \A u \in Workers \ {w} : ResponseInv(u)' /\ AskInv(u)' /\ SizeInv(u)'
  BY <1>1, <1>2, <1>5, OthersKeep
<1>8. ResponseInv(w)' /\ AskInv(w)' /\ SizeInv(w)'
  BY <1>2, <1>5, WorkerTypes DEF ResponseInv, AskInv, SizeInv, Unconditional
<1>9. HeaderInv' /\ TimeInv'
  BY <1>1, <1>2, <1>4 DEF HeaderInv, TimeInv
<1> QED
  BY <1>6, <1>7, <1>8, <1>9 DEF CacheInv

LEMMA CacheStep == CacheInv /\ [Next]_vars => CacheInv'
<1> SUFFICES ASSUME CacheInv, [Next]_vars PROVE CacheInv'
  OBVIOUS
<1>1. CASE Publish
  <2>1. /\ origin' \in Versions
        /\ UNCHANGED <<header, exists, content, mtime, mutex, pc, req, resp, out, size, asked>>
    BY <1>1, TypesAre, ProxyCacheAssumption DEF Publish, file, Versions, CacheInv
  <2> QED
    BY <2>1 DEF CacheInv, TypeOK, ResponseInv, AskInv, SizeInv, HeaderInv, TimeInv,
       ReliesOnHeader, Unconditional
<1>2. CASE UNCHANGED vars
  BY <1>2 DEF vars, file, CacheInv, TypeOK, ResponseInv, AskInv, SizeInv, HeaderInv, TimeInv,
     ReliesOnHeader, Unconditional
<1>3. ASSUME NEW w \in Workers, NEW ims \in Times, NEW nocache \in BOOLEAN,
             Request(w, ims, nocache)
      PROVE  CacheInv'
  BY <1>3, RequestKeeps
<1>4. ASSUME NEW w \in Workers, Proceed(w) PROVE CacheInv'
  <2>1. CASE GetIMT(w)
    BY <2>1, GetIMTKeeps
  <2>2. CASE AskOrigin(w)
    BY <2>2, AskOriginKeeps
  <2>3. CASE AnswerFromCache(w) \/ OriginSilent(w) \/ OriginConfirmsFile(w)
    BY <2>3, TurnsKeep
  <2>4. CASE AnswerNotModified(w) \/ OriginRefuses(w) \/ OriginNotModified(w)
    BY <2>4, AnswersKeep
  <2>5. CASE \E leading \in 0 .. THROUGHPUT : OriginSends(w, leading)
    BY <2>5, OriginSendsKeeps
  <2>6. CASE \E lengthKnown \in BOOLEAN : HeaderIn(w, lengthKnown)
    BY <2>6, HeaderInKeeps
  <2>7. CASE BodyOpen(w)
    BY <2>7, BodyOpenKeeps
  <2>8. CASE BodyBlock(w)
    BY <2>8, BodyBlockKeeps
  <2>9. CASE BodyEnd(w)
    BY <2>9, BodyEndKeeps
  <2>10. CASE MsgGenerator(w)
    BY <2>10, MsgGeneratorKeeps
  <2>11. CASE CacheStat(w)
    BY <2>11, CacheStatKeeps
  <2>12. CASE CacheOut(w)
    BY <2>12, CacheOutKeeps
  <2>13. CASE BodyRest(w)
    BY <2>13, BodyRestKeeps
  <2> QED
    BY <1>4, <2>1, <2>2, <2>3, <2>4, <2>5, <2>6, <2>7, <2>8, <2>9, <2>10, <2>11, <2>12, <2>13
    DEF Proceed
<1> QED
  BY <1>1, <1>2, <1>3, <1>4 DEF Next

THEOREM CacheInvariant == Spec => []CacheInv
BY CacheInit, CacheStep, PTL DEF Spec

\* The cache's files, the workers and what browsers receive have their types: no write
\* leaves a hole in the file, and no worker reads beyond its end.
THEOREM CacheTypes == Spec => []TypeOK
<1>1. CacheInv => TypeOK
  BY DEF CacheInv
<1> QED
  BY <1>1, CacheInvariant, PTL

\* A worker that makes a header from the cache finds the header file, on
\* whatever it read without the mutex it decided to.
THEOREM HeaderIsFound == Spec => []HeaderFound
<1>1. CacheInv => HeaderFound
  BY DEF CacheInv, HeaderInv, ReliesOnHeader, HeaderFound
<1> QED
  BY <1>1, CacheInvariant, PTL

\* Outside the sections that store it the file carries the time of the version its
\* first unit is of, for bodies of any length.
THEOREM TimeIsContents == Spec => []TimeFitsContent
<1>1. CacheInv => TimeFitsContent
  BY DEF CacheInv, TimeInv, TimeFitsContent
<1> QED
  BY <1>1, CacheInvariant, PTL

\* A step of a worker that asks the origin answers 304 only if the browser's own time
\* is as late as the origin's, or the file's time was sent for lack of one.
LEMMA NotModifiedStep ==
    CacheInv /\ [Next]_vars =>
        \A w \in Workers :
            pc[w] = "ask" /\ pc'[w] = "idle" /\ out'[w].status = 304 =>
                req[w].ims >= origin \/ Unconditional(w)
<1> SUFFICES ASSUME CacheInv, [Next]_vars, NEW w \in Workers,
                    pc[w] = "ask", pc'[w] = "idle", out'[w].status = 304
             PROVE  req[w].ims >= origin \/ Unconditional(w)
  OBVIOUS
<1>1. out[w].status = 0 /\ (req[w].modified = 1 => Unconditional(w)) /\ req[w] \in Requests
  BY WorkerTypes DEF AskInv
<1>2. /\ pc \in [Workers -> PCs] /\ out \in [Workers -> Answers]
      /\ req \in [Workers -> Requests]
  BY TypesAre DEF CacheInv
<1>3. CASE OriginNotModified(w)
  BY <1>1, <1>3 DEF OriginNotModified, Validator, Requests
<1>4. ASSUME NEW u \in Workers, Proceed(u), u # w PROVE pc'[w] = pc[w]
  BY <1>2, <1>4
  DEF Proceed, GetIMT, AnswerFromCache, AnswerNotModified, AskOrigin, OriginSilent,
      OriginRefuses, OriginConfirmsFile, OriginNotModified, OriginSends, HeaderIn, BodyOpen,
      BodyBlock, BodyRest, BodyEnd, MsgGenerator, CacheStat, CacheOut, Answer, Goto
<1>5. ASSUME NEW u \in Workers, NEW ims \in Times, NEW nocache \in BOOLEAN,
             Request(u, ims, nocache)
      PROVE  pc[w] # "ask" \/ pc'[w] = pc[w]
  BY <1>2, <1>5 DEF Request, Goto
<1>6. CASE OriginRefuses(w)
  BY <1>2, <1>6 DEF OriginRefuses, Answer
<1>7. ASSUME Proceed(w), ~ OriginNotModified(w), ~ OriginRefuses(w) PROVE FALSE
  <2>1. \/ OriginSilent(w) \/ OriginConfirmsFile(w)
        \/ \E leading \in 0 .. THROUGHPUT : OriginSends(w, leading)
    BY <1>7
    DEF Proceed, GetIMT, AnswerFromCache, AnswerNotModified, AskOrigin, HeaderIn, BodyOpen,
        BodyBlock, BodyRest, BodyEnd, MsgGenerator, CacheStat, CacheOut
  <2> QED
    BY <2>1, <1>1, <1>2 DEF OriginSilent, OriginConfirmsFile, OriginSends, Goto
<1>8. CASE Publish
  BY <1>8 DEF Publish
<1>9. CASE UNCHANGED vars
  BY <1>9 DEF vars
<1> QED
  BY <1>3, <1>4, <1>5, <1>6, <1>7, <1>8, <1>9 DEF Next

\* A 304 of the origin's that reaches a browser is about the browser's own copy, except
\* for a no-cache request without a time of its own.
THEOREM NotModifiedFits == Spec => NotModifiedIsOwn
BY NotModifiedStep, CacheInvariant, PTL DEF Spec, NotModifiedIsOwn
-----------------------------------------------------------------------------
(* Bodies that the loop stores rightly *)

\* The start of a uniform body is uniform, and so is what a worker has written of a
\* version from the first unit on.
LEMMA StartIsUniform ==
    ASSUME NEW body \in Seq(Units), Uniform(body), NEW n \in Nat, n <= Len(body)
    PROVE  Uniform(SubSeq(body, 1, n))
<1> DEFINE start == SubSeq(body, 1, n)
<1>1. Len(start) = n /\ start \in Seq(Units) /\ \A i \in 1 .. n : start[i] = body[i]
  BY SubSeqProperties
<1>2. DOMAIN start = 1 .. n
  BY <1>1
<1>3. \A i \in 1 .. n : body[i] = <<body[1][1], i>>
  BY DEF Uniform
<1>4. \A i \in 1 .. n : 1 \in 1 .. n
  OBVIOUS
<1> HIDE DEF start
<1> QED
  BY <1>1, <1>2, <1>3, <1>4 DEF Uniform

\* The block that has come is all that is outstanding, or all but the last one.
LEMMA BlockIsWhole ==
    ASSUME WholeBlocks, NEW v \in Versions, NEW leading \in Nat,
           leading <= BodyLen[v], leading <= THROUGHPUT
    PROVE  /\ BodyLen[v] = BodyLen[1] /\ BodyLen[v] \in Nat
           /\ \/ BodyLen[v] - leading - THROUGHPUT <= 0
              \/ BodyLen[v] - leading - THROUGHPUT = THROUGHPUT
<1>1. BodyLen[v] \in Nat /\ THROUGHPUT \in Nat /\ leading \in 0 .. THROUGHPUT
  BY ProxyCacheAssumption
<1>2. \/ BodyLen[v] - leading <= THROUGHPUT
      \/ BodyLen[v] - leading = 2 * THROUGHPUT
  BY <1>1 DEF WholeBlocks
<1>3. BodyLen[v] = BodyLen[1]
  BY DEF WholeBlocks
<1> QED
  BY <1>1, <1>2, <1>3

LEMMA InitUniform == ASSUME WholeBlocks, Init PROVE UniformInv
<1>1. BodyLen[1] \in Nat
  BY ProxyCacheAssumption, VersionsAreTimes
<1>2. origin \in Versions /\ Found
  BY DEF Init
<1>3. ~ exists => content = <<>>
  BY <1>2, FoundIs
<1>4. ASSUME exists PROVE Len(content) = BodyLen[1] /\ Uniform(content)
  <2>1. /\ mtime \in Versions /\ content \in Seq(Units) /\ Len(content) = BodyLen[mtime]
        /\ content # <<>> /\ \A i \in 1 .. BodyLen[mtime] : content[i] = <<mtime, i>>
    BY <1>2, <1>4, FoundIs
  <2>2. BodyLen[mtime] = BodyLen[1]
    BY <2>1 DEF WholeBlocks
  <2>3. DOMAIN content = 1 .. BodyLen[mtime] /\ 1 \in DOMAIN content
    BY <2>1
  <2> QED
    BY <2>1, <2>2, <2>3 DEF Uniform
<1>5. \A w \in Workers : pc[w] = "idle" /\ out[w] = NoAnswer
  BY DEF Init
<1>6. Len(content) <= BodyLen[1]
  BY <1>1, <1>3, <1>4
<1> QED
  BY <1>3, <1>4, <1>5, <1>6 DEF UniformInv, CachedBodyUniform, NoAnswer

\* What a worker receives without storing or reading the body keeps it.
LEMMA FileUniform ==
    ASSUME CacheInv, UniformInv, NEW w \in Workers,
           UNCHANGED <<exists, content, mutex>>,
           pc'[w] \notin {"block", "utime"} \/ UNCHANGED <<pc, resp>>,
           \A u \in Workers \ {w} : pc'[u] = pc[u] /\ resp'[u] = resp[u] /\ out'[u] = out[u],
           out'[w].from = "cache" => Uniform(out'[w].body)
    PROVE  UniformInv'
<1>1. CachedBodyUniform'
  BY DEF UniformInv, CachedBodyUniform
<1>2. \A u \in Workers : /\ pc'[u] = "block" => pc[u] = "block" /\ resp'[u] = resp[u]
                         /\ pc'[u] = "utime" => pc[u] = "utime"
  OBVIOUS
<1> QED
  BY <1>1, <1>2 DEF UniformInv

LEMMA BodyOpenUniform ==
    ASSUME WholeBlocks, CacheInv, UniformInv, NEW w \in Workers, BodyOpen(w)
    PROVE  UniformInv'
<1> DEFINE v == resp[w].v
           leading == resp[w].got
<1>1. /\ resp[w] \in Responses /\ ResponseInv(w) /\ pc[w] = "open"
      /\ DOMAIN resp = Workers /\ DOMAIN pc = Workers /\ DOMAIN out = Workers
      /\ content \in Seq(Units)
  BY WorkerTypes DEF BodyOpen
<1>2. /\ v \in Versions /\ leading \in Nat /\ leading <= BodyLen[v] /\ leading <= THROUGHPUT
  BY <1>1 DEF ResponseInv, Responses
<1>3. /\ mutex = Nobody /\ mutex' = w /\ WriteAt(Stretch(v, 1, leading), 0)
      /\ resp'[w].v = v /\ resp'[w].got = leading /\ resp'[w].off = leading
      /\ resp'[w].count = BodyLen[v] - leading - THROUGHPUT
  BY <1>1 DEF BodyOpen, Responses
<1>4. \A u \in Workers \ {w} : pc'[u] = pc[u] /\ resp'[u] = resp[u] /\ out'[u] = out[u]
  BY <1>1 DEF BodyOpen, Answer, Goto
<1>5. \A u \in Workers \ {w} : pc[u] \notin {"block", "utime"}
  BY <1>3, ProxyCacheAssumption DEF CacheInv, ResponseInv
<1> HIDE DEF v, leading
<1>6. /\ Stretch(v, 1, leading) \in Seq(Units) /\ Len(Stretch(v, 1, leading)) = leading
      /\ \A i \in 1 .. leading : Stretch(v, 1, leading)[i] = <<v, 1 + i - 1>>
  <2>1. 1 \in Nat \ {0} /\ 1 + leading <= BodyLen[v] + 1
    BY <1>2, ProxyCacheAssumption
  <2> QED
    BY <2>1, <1>2, StretchUnits
<1>7. BodyLen[v] = BodyLen[1] /\ BodyLen[v] \in Nat
      /\ (resp'[w].count <= 0 \/ resp'[w].count = THROUGHPUT)
  BY <1>2, <1>3, BlockIsWhole
<1>8. /\ exists' = TRUE
      /\ Len(content') = IF Len(content) >= 0 + leading THEN Len(content) ELSE 0 + leading
      /\ \A i \in 0 + 1 .. 0 + leading : content'[i] = Stretch(v, 1, leading)[i - 0]
  <2>1. 0 <= Len(content)
    BY <1>1
  <2> QED
    BY <2>1, <1>3, <1>6, WriteKeeps
<1>9. Len(content') <= BodyLen[1]
  BY <1>2, <1>7, <1>8 DEF UniformInv
<1>10. \A i \in 1 .. leading : content'[i] = <<v, i>>
  BY <1>2, <1>6, <1>8
<1>11. CachedBodyUniform'
  <2>1. out'[w].from = "cache" => out'[w] = out[w]
    BY <1>1 DEF BodyOpen, Answer
  <2> QED
    BY <2>1, <1>4 DEF UniformInv, CachedBodyUniform
<1>12. \A u \in Workers : pc'[u] # "utime"
  <2>1. pc'[w] # "utime"
    BY <1>1 DEF BodyOpen, Answer, Goto
  <2> QED
    BY <2>1, <1>4, <1>5
<1> QED
  BY <1>3, <1>4, <1>5, <1>7, <1>8, <1>9, <1>10, <1>11, <1>12, ProxyCacheAssumption
     DEF UniformInv

LEMMA BodyBlockUniform ==
    ASSUME WholeBlocks, CacheInv, UniformInv, NEW w \in Workers, BodyBlock(w)
    PROVE  UniformInv'
<1> DEFINE v == resp[w].v
           got == resp[w].got
           data == BufferUnits(v, got + 1, THROUGHPUT)
<1>1. /\ resp[w] \in Responses /\ ResponseInv(w) /\ pc[w] = "block"
      /\ DOMAIN resp = Workers /\ content \in Seq(Units)
  BY WorkerTypes DEF BodyBlock
<1>2. /\ resp[w].count > 0 /\ resp[w].count = THROUGHPUT /\ resp[w].off = got
      /\ \A i \in 1 .. got : content[i] = <<v, i>>
  BY <1>1, ProxyCacheAssumption DEF UniformInv, BodyBlock, Responses
<1>3. /\ v \in Versions /\ got \in Nat /\ mutex = w /\ THROUGHPUT \in Nat
      /\ THROUGHPUT = BodyLen[v] - got - THROUGHPUT /\ got <= Len(content)
      /\ BodyLen[v] \in Nat /\ BodyLen[v] = BodyLen[1]
  BY <1>1, <1>2, ProxyCacheAssumption DEF ResponseInv, Responses, WholeBlocks
<1>4. /\ WriteAt(data, got) /\ mutex' = mutex /\ pc' = pc /\ out' = out
      /\ resp'[w].v = v /\ resp'[w].got = got + THROUGHPUT
      /\ resp'[w].off = got + THROUGHPUT /\ resp'[w].count = THROUGHPUT - THROUGHPUT
      /\ \A u \in Workers \ {w} : resp'[u] = resp[u]
  BY <1>1, <1>2 DEF BodyBlock, Responses
<1> HIDE DEF v, got
<1>5. /\ data \in Seq(Units) /\ Len(data) = THROUGHPUT
      /\ \A i \in 1 .. THROUGHPUT : i <= THROUGHPUT => data[i] = <<v, got + 1 + i - 1>>
  <2>1. got + 1 \in Nat \ {0} /\ (got + 1) + THROUGHPUT <= BodyLen[v] + 1
    BY <1>3
  <2> QED
    BY <2>1, <1>3, BufferHasUnits
<1> HIDE DEF data
<1>6. /\ exists' = TRUE
      /\ Len(content') = IF Len(content) >= got + THROUGHPUT THEN Len(content)
                         ELSE got + THROUGHPUT
      /\ \A i \in got + 1 .. got + THROUGHPUT : content'[i] = data[i - got]
      /\ \A i \in 1 .. got : content'[i] = content[i]
  BY <1>3, <1>4, <1>5, WriteKeeps
<1>7. Len(content') <= BodyLen[1]
  BY <1>1, <1>3, <1>6 DEF UniformInv
<1>8. ASSUME NEW i \in 1 .. got + THROUGHPUT PROVE content'[i] = <<v, i>>
  <2>1. CASE i <= got
    BY <2>1, <1>2, <1>3, <1>6
  <2>2. CASE ~ (i <= got)
    <3>1. i \in got + 1 .. got + THROUGHPUT /\ i - got \in 1 .. THROUGHPUT
          /\ i - got <= THROUGHPUT /\ got + 1 + (i - got) - 1 = i
      BY <2>2, <1>3
    <3> QED
      BY <3>1, <1>5, <1>6
  <2> QED
    BY <2>1, <2>2
<1>9. \A u \in Workers \ {w} : pc[u] \notin {"block", "utime"}
  BY <1>3 DEF CacheInv, ResponseInv
<1>10. CachedBodyUniform'
  BY <1>4 DEF UniformInv, CachedBodyUniform
<1>11. resp'[w].count <= 0
  BY <1>3, <1>4
<1>12. \A u \in Workers : pc'[u] # "utime"
  BY <1>1, <1>4, <1>9
<1> QED
  BY <1>3, <1>4, <1>6, <1>7, <1>8, <1>9, <1>10, <1>11, <1>12, ProxyCacheAssumption
     DEF UniformInv

LEMMA BodyRestUniform ==
    ASSUME WholeBlocks, CacheInv, UniformInv, NEW w \in Workers, BodyRest(w)
    PROVE  UniformInv'
<1> DEFINE v == resp[w].v
           got == resp[w].got
           rest == resp[w].count + THROUGHPUT
<1>1. /\ DOMAIN pc = Workers /\ DOMAIN out = Workers /\ content \in Seq(Units)
      /\ content' \in Seq(Units)
  BY WorkerTypes, BodyRestWrites
<1>2. /\ pc[w] = "block" /\ mutex = w /\ rest \in Nat /\ v \in Versions /\ got \in Nat
      /\ got + rest = BodyLen[v] /\ Len(content') \in Nat
      /\ Len(content') = IF Len(content) >= resp[w].off + rest THEN Len(content)
                         ELSE resp[w].off + rest
      /\ \A i \in resp[w].off + 1 .. resp[w].off + rest :
           content'[i] = <<v, got + i - resp[w].off>>
      /\ \A i \in 1 .. resp[w].off : content'[i] = content[i]
      /\ content'[1][1] = v
  BY BodyRestWrites
<1>3. /\ resp[w].off = got /\ \A i \in 1 .. got : content[i] = <<v, i>>
  BY <1>2 DEF UniformInv
<1>4. exists' = TRUE /\ mutex' = mutex /\ pc' = [pc EXCEPT ![w] = "utime"] /\ out' = out
  BY <1>1, BodyRestWrites DEF BodyRest, Goto
<1>5. BodyLen[v] = BodyLen[1] /\ BodyLen[v] \in Nat /\ Len(content) <= BodyLen[v]
      /\ Len(content) \in Nat
  BY <1>1, <1>2, ProxyCacheAssumption DEF UniformInv, WholeBlocks
<1> HIDE DEF v, got, rest
<1>6. Len(content') = BodyLen[1]
  BY <1>2, <1>3, <1>5
<1>7. ASSUME NEW i \in DOMAIN content' PROVE content'[i] = <<v, i>>
  <2>1. i \in 1 .. got + rest
    BY <1>1, <1>2, <1>5, <1>6
  <2>2. CASE i <= got
    <3>1. i \in 1 .. got
      BY <2>1, <2>2, <1>2
    <3>2. content'[i] = content[i]
      BY <3>1, <1>2, <1>3
    <3> QED
      BY <3>1, <3>2, <1>3
  <2>3. CASE ~ (i <= got)
    <3>1. i \in got + 1 .. got + rest /\ got + i - got = i
      BY <2>1, <2>3, <1>2
    <3> QED
      BY <3>1, <1>2, <1>3
  <2> QED
    BY <2>2, <2>3
<1>8. Uniform(content')
  BY <1>2, <1>7 DEF Uniform
<1>9. \A u \in Workers : pc'[u] # "block"
  BY <1>1, <1>2, <1>4 DEF CacheInv, ResponseInv
<1>10. CachedBodyUniform'
  BY <1>4 DEF UniformInv, CachedBodyUniform
<1> QED
  BY <1>2, <1>4, <1>6, <1>8, <1>9, <1>10, <1>5, ProxyCacheAssumption DEF UniformInv

LEMMA BodyEndUniform ==
    ASSUME CacheInv, UniformInv, NEW w \in Workers, BodyEnd(w)
    PROVE  UniformInv'
<1>1. /\ pc \in [Workers -> PCs] /\ out \in [Workers -> Answers]
      /\ \A u \in Workers : ResponseInv(u)
  BY TypesAre DEF CacheInv
<1>2. /\ pc[w] = "utime" /\ pc' = [pc EXCEPT ![w] = "idle"] /\ mutex = w
      /\ UNCHANGED <<exists, content, resp>> /\ exists
      /\ out'[w].from = "origin" /\ \A u \in Workers \ {w} : out'[u] = out[u]
  BY <1>1 DEF BodyEnd, Answer, Goto, ResponseInv
<1>3. Len(content) = BodyLen[1] /\ Uniform(content) /\ Len(content) <= BodyLen[1]
  BY <1>2 DEF UniformInv
<1>4. \A u \in Workers : pc'[u] \notin {"block", "utime"}
  BY <1>1, <1>2 DEF ResponseInv
<1>5. CachedBodyUniform'
  BY <1>2 DEF UniformInv, CachedBodyUniform
<1> QED
  BY <1>2, <1>3, <1>4, <1>5 DEF UniformInv

LEMMA StepUniform ==
    ASSUME WholeBlocks, CacheInv, UniformInv, [Next]_vars PROVE UniformInv'
<1>1. CASE Publish \/ UNCHANGED vars
  BY <1>1 DEF Publish, vars, file, UniformInv, CachedBodyUniform
<1>2. ASSUME NEW w \in Workers, NEW ims \in Times, NEW nocache \in BOOLEAN,
             Request(w, ims, nocache)
      PROVE  UniformInv'
  <2>1. /\ UNCHANGED <<exists, content, mutex>> /\ pc'[w] \notin {"block", "utime"}
        /\ out'[w].from # "cache"
        /\ \A u \in Workers \ {w} : pc'[u] = pc[u] /\ resp'[u] = resp[u] /\ out'[u] = out[u]
    BY <1>2, WorkerTypes DEF Request, Goto, file, NoAnswer
  <2> QED
    BY <2>1, FileUniform
<1>3. ASSUME NEW w \in Workers, Proceed(w) PROVE UniformInv'
  <2>1. CASE BodyOpen(w)
    BY <2>1, BodyOpenUniform
  <2>2. CASE BodyBlock(w)
    BY <2>2, BodyBlockUniform
  <2>3. CASE BodyEnd(w)
    BY <2>3, BodyEndUniform
  <2>8. CASE BodyRest(w)
    BY <2>8, BodyRestUniform
  <2>4. out[w].from = "cache" => Uniform(out[w].body)
    BY DEF UniformInv, CachedBodyUniform
  <2>5. CASE CacheOut(w)
    <3>1. /\ UNCHANGED <<exists, content, mutex>> /\ pc'[w] \notin {"block", "utime"}
          /\ out'[w].body = SubSeq(content, 1, size[w]) /\ pc[w] = "cache_out"
          /\ mutex = Nobody
          /\ \A u \in Workers \ {w} : pc'[u] = pc[u] /\ resp'[u] = resp[u] /\ out'[u] = out[u]
      BY <2>5, WorkerTypes DEF CacheOut, Answer, Goto, file
    <3>2. size[w] \in Nat /\ size[w] <= Len(content) /\ content \in Seq(Units)
      BY <3>1, WorkerTypes DEF SizeInv
    <3>3. Uniform(content)
      <4>1. Uniform(<<>>)
        BY DEF Uniform
      <4> QED
        BY <4>1, <3>1 DEF UniformInv
    <3>4. Uniform(out'[w].body)
      BY <3>1, <3>2, <3>3, StartIsUniform
    <3> QED
      BY <3>1, <3>4, FileUniform
  <2>6. CASE MsgGenerator(w)
    <3>1. /\ UNCHANGED <<exists, content, mutex>> /\ pc'[w] \notin {"block", "utime"} /\ out'[w].body = <<>>
          /\ \A u \in Workers \ {w} : pc'[u] = pc[u] /\ resp'[u] = resp[u] /\ out'[u] = out[u]
      BY <2>6, WorkerTypes DEF MsgGenerator, Goto, file
    <3>2. Uniform(<<>>)
      BY DEF Uniform
    <3> QED
      BY <3>1, <3>2, FileUniform
  <2>7. CASE \/ GetIMT(w) \/ AnswerFromCache(w) \/ AnswerNotModified(w) \/ AskOrigin(w)
             \/ OriginSilent(w) \/ OriginRefuses(w)
             \/ OriginConfirmsFile(w) \/ OriginNotModified(w)
             \/ \E leading \in 0 .. THROUGHPUT : OriginSends(w, leading)
             \/ \E lengthKnown \in BOOLEAN : HeaderIn(w, lengthKnown)
             \/ CacheStat(w)
    <3>1. UNCHANGED <<exists, content, mutex>> /\ pc'[w] \notin {"block", "utime"}
      BY <2>7, WorkerTypes
      DEF GetIMT, AnswerFromCache, AnswerNotModified, AskOrigin, OriginSilent, OriginRefuses,
          OriginConfirmsFile, OriginNotModified, OriginSends, HeaderIn, CacheStat, Answer,
          Goto, file
    <3>2. \A u \in Workers \ {w} : pc'[u] = pc[u] /\ resp'[u] = resp[u] /\ out'[u] = out[u]
      BY <2>7, WorkerTypes
      DEF GetIMT, AnswerFromCache, AnswerNotModified, AskOrigin, OriginSilent, OriginRefuses,
          OriginConfirmsFile, OriginNotModified, OriginSends, HeaderIn, CacheStat, Answer,
          Goto
    <3>3. out'[w] = out[w] \/ out'[w].from # "cache"
      BY <2>7, WorkerTypes
      DEF GetIMT, AnswerFromCache, AnswerNotModified, AskOrigin, OriginSilent, OriginRefuses,
          OriginConfirmsFile, OriginNotModified, OriginSends, HeaderIn, CacheStat, Answer
    <3> QED
      BY <2>4, <3>1, <3>2, <3>3, FileUniform
  <2> QED
    BY <1>3, <2>1, <2>2, <2>3, <2>5, <2>6, <2>7, <2>8 DEF Proceed
<1> QED
  BY <1>1, <1>2, <1>3 DEF Next

\* If all versions have the same length, and what follows their leading units is at most
\* one block or exactly two, then no body sent from the cache mixes versions or units,
\* whatever other workers store meanwhile.  The loop's count makes the assumption needed.
THEOREM CachedBodiesAreUniform ==
    ASSUME WholeBlocks PROVE Spec => []CachedBodyUniform
<1>1. Init => UniformInv
  BY InitUniform
<1>2. CacheInv /\ UniformInv /\ [Next]_vars => UniformInv'
  BY StepUniform
<1>3. UniformInv => CachedBodyUniform
  BY DEF UniformInv
<1> QED
  BY <1>1, <1>2, <1>3, CacheInvariant, PTL DEF Spec
=============================================================================
