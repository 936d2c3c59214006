----------------------------- MODULE ProxyCache -----------------------------
(***************************************************************************)
(* The proxy's object cache (milestone 3): how the workers of myproxy.c    *)
(* look up, revalidate, fill in and serve one cached object.  The object   *)
(* is two files, header/<name>.tmp and cache/<name>, and one mutex for     *)
(* both directories; existence, size and modification time are read        *)
(* without it.                                                             *)
(*                                                                         *)
(* The origin server publishes version after version.  Time is counted in  *)
(* versions: Last-Modified of version v is v, the clock between the        *)
(* publication of v and of v + 1 shows v, and 0 is before the first.  Data *)
(* is counted in units <<v, i>>, unit i of version v.                      *)
(***************************************************************************)
EXTENDS Integers, Sequences, FiniteSetsExt

CONSTANTS
    Workers,      \* threads that serve browsers
    Nobody,       \* not a worker
    MaxVersion,   \* bound: the origin publishes this many versions
    BodyLen,      \* BodyLen[v]: Content-Length of version v, in units
    THROUGHPUT,   \* units transferred at a time
    MaxRequests   \* bound: requests each browser makes

Versions == 1 .. MaxVersion

ASSUME ProxyCacheAssumption ==
    /\ Nobody \notin Workers
    /\ MaxVersion \in Nat \ {0}
    /\ BodyLen \in [Versions -> Nat]
    /\ THROUGHPUT \in Nat \ {0}
    /\ MaxRequests \in Nat

VARIABLES
    origin,   \* the version the origin server publishes now
    header,   \* the version whose header is in header/, 0 if there is none
    exists,   \* does the file cache/<name> exist?
    content,  \* its units
    mtime,    \* its modification time
    mutex,    \* the worker that holds the mutex, or Nobody
    pc,       \* what each worker does next
    req,      \* its struct request: ims (0: no If-Modified-Since), nocache, fileExist, lTime, modified
    resp,     \* the response it stores: version v, units got, offset off, loop count
    out,      \* what its browser received last
    size,     \* cache_out's payload, from fstat
    asked     \* requests made so far

vars == <<origin, header, exists, content, mtime, mutex, pc, req, resp, out,
          size, asked>>

file == <<exists, content, mtime>>

PCs == {"idle", "stat", "decide", "ask", "header", "open", "block", "utime",
        "msgGenerator", "fstat", "cache_out"}

Times == 0 .. MaxVersion
Junk == <<0, 0>>
Units == {Junk} \cup (Versions \X (1 .. Max({BodyLen[v] : v \in Versions})))

\* What a browser can have received: a header and the units that followed it.
NoAnswer == [status |-> 0, from |-> "nowhere", header |-> 0, body |-> <<>>]

-----------------------------------------------------------------------------
\* The content of a file of units old after new is written at offset at.
Overlay(old, new, at) ==
    [i \in 1 .. Max({Len(old), at + Len(new)}) |->
        IF i \in at + 1 .. at + Len(new) THEN new[i - at] ELSE old[i]]

\* Plausible bug: counts units from 0 in one place and from 1 in another.
StretchOffByOne(v, from, n) == [i \in 1 .. n |-> <<v, from + i>>]

\* Units from .. from + n - 1 of version v.
Stretch(v, from, n) == [i \in 1 .. n |-> <<v, from + i - 1>>]

\* write(fd, buf, n) when buf holds THROUGHPUT units of which the first is
\* unit from of version v: past the buffer's end it writes what lies there.
BufferUnits(v, from, n) ==
    [i \in 1 .. n |-> IF i <= THROUGHPUT THEN <<v, from + i - 1>> ELSE Junk]

-----------------------------------------------------------------------------
\* "./cache found", "./header found": what an earlier process left stays.  It left no
\* body, or one that it had stored to its end, with any version's header.  (One that
\* ended while it stored a body, by exit(0) or a kill, left a part of it.)
Found ==
    \/ /\ header \in 0 .. origin
       /\ exists = FALSE /\ content = <<>> /\ mtime = 0
    \/ /\ header \in 1 .. origin
       /\ exists = TRUE
       /\ mtime \in {v \in 1 .. origin : BodyLen[v] > 0}
       /\ content = Stretch(mtime, 1, BodyLen[mtime])

Init ==
    /\ origin \in Versions
    /\ Found
    /\ mutex = Nobody
    /\ pc = [w \in Workers |-> "idle"]
    /\ req = [w \in Workers |-> [ims |-> 0, nocache |-> FALSE, fileExist |-> FALSE,
                                 lTime |-> 0, modified |-> 0]]
    /\ resp = [w \in Workers |-> [v |-> 0, got |-> 0, off |-> 0, count |-> 0]]
    /\ out = [w \in Workers |-> NoAnswer]
    /\ size = [w \in Workers |-> 0]
    /\ asked = [w \in Workers |-> 0]

\* The origin's owner edits the object.
Publish ==
    /\ origin < MaxVersion
    /\ origin' = origin + 1
    /\ UNCHANGED <<header, file, mutex, pc, req, resp, out, size, asked>>

\* Plausible bug: a way out of the section without pthread_mutex_unlock.
UnlockForgotten == UNCHANGED mutex

Unlock == mutex' = Nobody

Goto(w, label) == pc' = [pc EXCEPT ![w] = label]

\* The request has been answered; the worker reads the next one.
Answer(w, status, from, h, body) ==
    /\ Goto(w, "idle")
    /\ out' = [out EXCEPT ![w] = [status |-> status, from |-> from,
                                  header |-> h, body |-> body]]

-----------------------------------------------------------------------------
(* parseRequest *)

\* A browser asks: checkFile and the first getIMT, without the mutex.  A
\* browser can only have a time it was given: not after the present.
Request(w, ims, nocache) ==
    /\ pc[w] = "idle"
    /\ asked[w] < MaxRequests
    /\ ims <= origin
    /\ asked' = [asked EXCEPT ![w] = @ + 1]
    /\ req' = [req EXCEPT ![w] = [ims |-> ims, nocache |-> nocache,
                                  fileExist |-> exists, lTime |-> mtime,
                                  modified |-> 0]]
    /\ out' = [out EXCEPT ![w] = NoAnswer]
    /\ Goto(w, IF exists /\ ims # 0 THEN "stat" ELSE "decide")
    /\ UNCHANGED <<origin, header, file, mutex, resp, size>>

\* The file exists and the request is conditional: getIMT again.
GetIMT(w) ==
    /\ pc[w] = "stat"
    /\ req' = [req EXCEPT ![w].lTime = mtime]
    /\ Goto(w, "decide")
    /\ UNCHANGED <<origin, header, file, mutex, resp, out, size, asked>>

\* compareIMS(path, reqIMS) == -1, the time of the file read once more.
BrowserOlder(w) == req[w].ims < mtime

\* Cases 1 and 2: the file answers a request that does not say no-cache.
AnswerFromCache(w) ==
    /\ pc[w] = "decide"
    /\ req[w].fileExist /\ ~ req[w].nocache
    /\ req[w].ims = 0 \/ BrowserOlder(w)
    /\ Goto(w, "msgGenerator")
    /\ UNCHANGED <<origin, header, file, mutex, req, resp, out, size, asked>>

\* Case 2: the browser's copy is as new as the file; the proxy makes the 304.
AnswerNotModified(w) ==
    /\ pc[w] = "decide"
    /\ req[w].fileExist /\ ~ req[w].nocache
    /\ req[w].ims # 0 /\ ~ BrowserOlder(w)
    /\ Answer(w, 304, "proxy", 0, <<>>)
    /\ UNCHANGED <<origin, header, file, mutex, req, resp, size, asked>>

\* Plausible bug: no difference is made of a browser that has an older copy.
AskOriginUnmarked(w) ==
    /\ pc[w] = "decide"
    /\ ~ req[w].fileExist \/ req[w].nocache
    /\ req' = [req EXCEPT ![w].modified =
                 IF req[w].fileExist /\ BrowserOlder(w) THEN 1 ELSE 0]
    /\ Goto(w, "ask")
    /\ UNCHANGED <<origin, header, file, mutex, resp, out, size, asked>>

\* No file, or no-cache (cases 3 and 4): ask the origin.  modified says whether
\* the file's time is put into the request, as a new If-Modified-Since (1) or
\* for the browser's older one (-1).
AskOrigin(w) ==
    /\ pc[w] = "decide"
    /\ ~ req[w].fileExist \/ req[w].nocache
    /\ req' = [req EXCEPT ![w].modified =
                 IF ~ req[w].fileExist THEN 0
                 ELSE IF req[w].ims = 0 THEN 1
                 ELSE IF BrowserOlder(w) THEN -1 ELSE 0]
    /\ Goto(w, "ask")
    /\ UNCHANGED <<origin, header, file, mutex, resp, out, size, asked>>

-----------------------------------------------------------------------------
(* forwardToServer, the origin's answer, parseResponse *)

\* The If-Modified-Since the origin gets: the browser's, or the file's time.
Validator(w) == IF req[w].modified = 0 THEN req[w].ims ELSE req[w].lTime

\* No connection, or none of the answer comes: the browser gets nothing.
OriginSilent(w) ==
    /\ pc[w] = "ask"
    /\ Goto(w, "idle")
    /\ UNCHANGED <<origin, header, file, mutex, req, resp, out, size, asked>>

\* 200: the header comes with the first units of the body (leading).
OriginSends(w, leading) ==
    /\ pc[w] = "ask"
    /\ Validator(w) < origin
    /\ leading <= Min({BodyLen[origin], THROUGHPUT})
    /\ resp' = [resp EXCEPT ![w] = [v |-> origin, got |-> leading, off |-> 0,
                                    count |-> 0]]
    /\ Goto(w, "header")
    /\ UNCHANGED <<origin, header, file, mutex, req, out, size, asked>>

\* 304 to a time of the file's: the proxy has the up-to-date object.
OriginConfirmsFile(w) ==
    /\ pc[w] = "ask"
    /\ Validator(w) >= origin
    /\ req[w].modified = -1
    /\ Goto(w, "msgGenerator")
    /\ UNCHANGED <<origin, header, file, mutex, req, resp, out, size, asked>>

\* Any other 304 is forwarded.
OriginNotModified(w) ==
    /\ pc[w] = "ask"
    /\ Validator(w) >= origin
    /\ req[w].modified # -1
    /\ Answer(w, 304, "origin", 0, <<>>)
    /\ UNCHANGED <<origin, header, file, mutex, req, resp, size, asked>>

\* Any other status, or an object the proxy does not cache, is forwarded.
OriginRefuses(w) ==
    /\ pc[w] = "ask"
    /\ Answer(w, 404, "origin", 0, <<>>)
    /\ UNCHANGED <<origin, header, file, mutex, req, resp, size, asked>>

-----------------------------------------------------------------------------
(* backToBrowser: a 200 is stored, header first, while it is forwarded *)

\* Plausible bug: the header is stored with the body, only when there is one.
HeaderInExisting(w, lengthKnown) ==
    /\ pc[w] = "header"
    /\ mutex = Nobody
    /\ header' = IF exists THEN resp[w].v ELSE header
    /\ IF lengthKnown
         THEN Goto(w, "open") /\ UNCHANGED out
         ELSE Answer(w, 200, "origin", resp[w].v, <<>>)
    /\ UNCHANGED <<origin, file, mutex, req, resp, size, asked>>

\* header_in, one section of the mutex; without a Content-Length the worker
\* returns before it touches the body.
HeaderIn(w, lengthKnown) ==
    /\ pc[w] = "header"
    /\ mutex = Nobody
    /\ header' = resp[w].v
    /\ IF lengthKnown
         THEN Goto(w, "open") /\ UNCHANGED out
         ELSE Answer(w, 200, "origin", resp[w].v, <<>>)
    /\ UNCHANGED <<origin, file, mutex, req, resp, size, asked>>

\* What write(u_fd, data) at the worker's offset does: the file is opened with
\* O_CREAT and without O_TRUNC, and writing sets its time to the present.
WriteAt(data, at) ==
    /\ exists' = TRUE
    /\ content' = Overlay(content, data, at)
    /\ mtime' = IF ~ exists \/ data # <<>> THEN origin ELSE mtime

\* The mutex is taken, the file opened and the leading units written.  With a
\* payload of 0 the code that ends the section is skipped.
BodyOpen(w) ==
    LET v == resp[w].v
        leading == resp[w].got IN
    /\ pc[w] = "open"
    /\ mutex = Nobody
    /\ mutex' = w
    /\ WriteAt(Stretch(v, 1, leading), 0)
    /\ resp' = [resp EXCEPT ![w].off = leading,
                            ![w].count = BodyLen[v] - leading - THROUGHPUT]
    /\ IF BodyLen[v] > 0
         THEN Goto(w, "block") /\ UNCHANGED out
         ELSE Answer(w, 200, "origin", v, <<>>)
    /\ UNCHANGED <<origin, header, req, size, asked>>

\* The loop: THROUGHPUT units are received, and count units are written.
BodyBlock(w) ==
    LET r == resp[w] IN
    /\ pc[w] = "block"
    /\ r.count > 0
    /\ WriteAt(BufferUnits(r.v, r.got + 1, r.count), r.off)
    /\ resp' = [resp EXCEPT ![w].got = @ + THROUGHPUT,
                            ![w].off = @ + r.count,
                            ![w].count = @ - THROUGHPUT]
    /\ UNCHANGED <<origin, header, mutex, pc, req, out, size, asked>>

\* Plausible bug: the file keeps the time of its last write.
SetModificationTimeForgotten(v) == mtime' = origin

\* utime(path, &AMT), AMT from Last-Modified.
SetModificationTime(v) == mtime' = v

\* The units that remain, THROUGHPUT at most; the file has the time of this write.
BodyRest(w) ==
    LET r == resp[w]
        rest == r.count + THROUGHPUT IN
    /\ pc[w] = "block"
    /\ r.count <= 0
    /\ WriteAt(Stretch(r.v, r.got + 1, rest), r.off)
    /\ resp' = [resp EXCEPT ![w].got = @ + rest]
    /\ Goto(w, "utime")
    /\ UNCHANGED <<origin, header, mutex, req, out, size, asked>>

\* utime() to Last-Modified, and the end of the section.
BodyEnd(w) ==
    LET r == resp[w] IN
    /\ pc[w] = "utime"
    /\ SetModificationTime(r.v)
    /\ Unlock
    /\ Answer(w, 200, "origin", r.v, Stretch(r.v, 1, r.got))
    /\ UNCHANGED <<origin, header, exists, content, req, resp, size, asked>>

-----------------------------------------------------------------------------
(* A 200 made from the cache: msgGenerator, then cache_out *)

\* The stored header, in a section of its own.
MsgGenerator(w) ==
    /\ pc[w] = "msgGenerator"
    /\ mutex = Nobody
    /\ out' = [out EXCEPT ![w] = [status |-> 200, from |-> "cache",
                                  header |-> header, body |-> <<>>]]
    /\ Goto(w, "fstat")
    /\ UNCHANGED <<origin, header, file, mutex, req, resp, size, asked>>

\* open() and fstat(), without the mutex.
CacheStat(w) ==
    /\ pc[w] = "fstat"
    /\ size' = [size EXCEPT ![w] = Len(content)]
    /\ Goto(w, "cache_out")
    /\ UNCHANGED <<origin, header, file, mutex, req, resp, out, asked>>

\* Plausible bug: the file is read without the mutex.
CacheOutUnlocked(w) ==
    /\ pc[w] = "cache_out"
    /\ Answer(w, 200, "cache", out[w].header, SubSeq(content, 1, size[w]))
    /\ UNCHANGED <<origin, header, file, mutex, req, resp, size, asked>>

\* size units are read and sent, with the mutex.
CacheOut(w) ==
    /\ pc[w] = "cache_out"
    /\ mutex = Nobody
    /\ Answer(w, 200, "cache", out[w].header, SubSeq(content, 1, size[w]))
    /\ UNCHANGED <<origin, header, file, mutex, req, resp, size, asked>>

-----------------------------------------------------------------------------
\* What a worker does by itself once it has a request.
Proceed(w) ==
    \/ GetIMT(w) \/ AnswerFromCache(w) \/ AnswerNotModified(w) \/ AskOrigin(w)
    \/ OriginSilent(w) \/ OriginRefuses(w)
    \/ OriginConfirmsFile(w) \/ OriginNotModified(w)
    \/ \E leading \in 0 .. THROUGHPUT : OriginSends(w, leading)
    \/ \E lengthKnown \in BOOLEAN : HeaderIn(w, lengthKnown)
    \/ BodyOpen(w) \/ BodyBlock(w) \/ BodyRest(w) \/ BodyEnd(w)
    \/ MsgGenerator(w) \/ CacheStat(w) \/ CacheOut(w)

Next ==
    \/ Publish
    \/ \E w \in Workers :
         \/ \E ims \in Times, nocache \in BOOLEAN : Request(w, ims, nocache)
         \/ Proceed(w)

Spec == Init /\ [][Next]_vars

\* Workers run, and the origin answers or fails: it does not keep a worker waiting.
\* Browsers need not ask, and the origin need not publish.
FairSpec == Spec /\ \A w \in Workers : WF_vars(Proceed(w))

-----------------------------------------------------------------------------
TypeOK ==
    /\ origin \in Versions
    /\ header \in {0} \cup Versions
    /\ exists \in BOOLEAN
    /\ content \in Seq(Units)
    /\ mtime \in Times
    /\ mutex \in {Nobody} \cup Workers
    /\ pc \in [Workers -> PCs]
    /\ req \in [Workers -> [ims : Times, nocache : BOOLEAN, fileExist : BOOLEAN,
                            lTime : Times, modified : {-1, 0, 1}]]
    /\ resp \in [Workers -> [v : {0} \cup Versions, got : Nat, off : Nat, count : Int]]
    /\ out \in [Workers -> [status : {0, 200, 304, 404},
                            from : {"nowhere", "proxy", "origin", "cache"},
                            header : {0} \cup Versions, body : Seq(Units)]]
    /\ size \in [Workers -> Nat]
    /\ asked \in [Workers -> 0 .. MaxRequests]

\* A worker that makes a header from the cache finds a header file (msgGenerator
\* ends the whole process otherwise).  It decided to on the existence of the
\* BODY file, without the mutex, perhaps while another worker stores both.
HeaderFound == \A w \in Workers : pc[w] = "msgGenerator" => header # 0

\* A body sent from the cache never mixes versions, although it is stored in
\* steps and sent while other workers store newer, or older, ones.  True of
\* versions of the same length of which what follows the leading units is at most
\* one block, or exactly two: the file is not truncated when it is opened, and see
\* HeaderFitsBody for what the loop writes otherwise.
Uniform(body) == \A i \in DOMAIN body : body[i] = <<body[1][1], i>>
CachedBodyUniform ==
    \A w \in Workers : out[w].from = "cache" => Uniform(out[w].body)

\* Outside the sections that store it the file carries the time of the version
\* it holds: later requests compare their If-Modified-Since with that time.
TimeFitsContent == mutex = Nobody /\ exists => mtime = content[1][1]

\* Every request ends, although workers wait for the origin with the mutex held.
RequestsEnd == \A w \in Workers : pc[w] # "idle" ~> pc[w] = "idle"

\* When a worker turns to its next request it has released the mutex.
MutexReleased == \A w \in Workers : pc[w] = "idle" => mutex # w

\* A 304 of the origin's that reaches a browser is about the browser's own copy,
\* which is then as new as the origin's, also where the proxy had the newer one of
\* the two and asked with its file's time.  The one exception: the origin was asked
\* with the file's time for a no-cache request that had no time at all.
Unconditional(w) == req[w].ims = 0 /\ req[w].nocache /\ req[w].fileExist
NotModifiedIsOwn ==
    [][\A w \in Workers :
          pc[w] = "ask" /\ pc'[w] = "idle" /\ out'[w].status = 304 =>
              req[w].ims >= origin \/ Unconditional(w)]_vars

\* "cache first then forward it": a 200 made from the cache has the body the
\* origin sent with that header.  The loop of backToBrowser receives THROUGHPUT
\* units a time but writes all that are outstanding.
HeaderFitsBody ==
    \A w \in Workers : pc[w] = "idle" /\ out[w].from = "cache" =>
        out[w].body = Stretch(out[w].header, 1, BodyLen[out[w].header])
=============================================================================
