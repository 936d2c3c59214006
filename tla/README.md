# Verification of Master-projects in TLA+

The repository holds several programs that share nothing but a style: an HTTP
proxy, a distance-vector router, an FTP server and client, a deduplicating file
store, a shell, a parallel breadth-first search on Hadoop and the beginning of
a FAT32 tool. The three servers contain the same accept loop, line for line.
This directory models the parts whose correctness depends on the order of
events, checks them with TLC and proves theorems about them with TLAPS.

## 1. Inventory

### Accept loop and worker slots — `proxy server/myproxy.c`, `router/router.c`, `ftp/myftpserver.c`

*State.* `args[MAX]` (one entry per worker: its index, socket and address),
`available[MAX]` (1 means TAKEN; `available2` in the router), the counter `m`,
the index `ind`, one mutex, one condition variable `full`; in the kernel, the
queue of completed connections.
*Operations.* Main: test `m`, wait, accept, search a vacancy, fill in the entry
and start a worker. Worker: serve until its client leaves, close, vacate the
slot, signal if the table was full, count down.
*Interaction.* Main and workers share the table; a worker reads its entry
through a pointer until it ends.
*Hard.* Main drops the mutex between the test, the search and the filling-in,
and blocks in `accept`; the signal is conditional; the wait is guarded by `if`.
*Correct when* a worker's entry stays its own, the counter agrees with the
table, the search finds a vacancy, no wakeup is lost, every connection is
served, first come first served.

### Proxy: object cache — `proxy server/myproxy.c` (milestone 3)

*State.* Per object, `header/<name>.tmp` and `cache/<name>` with its size and
modification time; per worker a `struct request` and a `struct response`; one
mutex for both directories (the accept loop's).
*Operations.* `parseRequest` (which of browser, cache and origin answers),
`forwardToServer` (which If-Modified-Since the origin sees), `parseResponse`,
`backToBrowser` (store and forward), `msgGenerator` and `cache_out` (serve).
*Hard.* Existence, size and time are read outside the mutex; header and body
are stored in two sections; the file is rewritten in place while others hold it
open; the origin is awaited with the mutex held; the folders outlive the process,
also one that ends in the middle of a store.
*Correct when* a browser gets one version, whole, with its header; a 304 goes to
a browser that asked for it; the times compared are those of the content; every
request ends.

### Proxy: connections to origins — `myproxy.c` 286-403, 412-425

*State.* `server_set`, `server_avail`, `server_num`, indexed by the worker's slot.
*Hard.* Reuse of sockets across requests, their closing, and the reuse of a slot.

### Distance-vector router — `router/router.c`

*State.* `router_set[].linkCost`, `DVTable`, `routing_table` with `available`,
`connected`, `numDV`; one mutex; one TCP connection per direction of a link.
*Operations.* `dv_func` (connect, close, send the own row), `update_func`,
`routing` (receive a row, recompute, notify), `recompute`/`min_DV`, `show_func`,
`reset_func`.
*Interaction.* Routers send rows; an operator's agent sends UPDATE, DV, SHOW and
RESET.
*Hard.* Asynchronous convergence, counting up after a cut, two tables written
under different conditions.
*Correct when* the own row is the minimum over what is known, distances are exact
once all is quiet, quiet is reached, and the routing table follows.

### MyDedup — `cloud storage with de-duplication/MyDedup.java`

*State.* `mydedup.meta` (chunk records: size, reference count, backend; file
records: list of checksums), the chunks of the local and the remote backend;
while a file is cut: the buffer, `RFPhead`, the fingerprint, `chunk_buf`,
`chunkhead`, `backup`.
*Operations.* `upload` (chunk, count, store what is new), `download`, `delete`
(count down, remove what is no longer used), `Update` (rewrite the metadata);
`chunking` with `getRFP`, `isInterestedRFP`, `uploadChunk`.
*Hard.* Every command is a process; chunks are shared within and between files;
chunks change at once, records at the end; the index arithmetic of chunking at
both ends of a chunk, of a block and of the file; Java's signed remainder.
*Correct when* a file is given back as it was uploaded, until it is deleted, and
equal contents are cut at equal places.

### FTP sessions — `ftp/myftpserver.c`, `ftp/myftpclient.c`

*State.* Server: per worker the state of its session (connection, authentication,
service) and the offset of its transfer; the files of `filedir`. Client: the
state of `fsm_control`, the descriptor `fd`, the local file. Between them two
byte streams per connection.
*Operations.* OPEN, AUTH, LIST, GET, PUT, QUIT, each with a reply; the loops that
send and receive a file.
*Interaction.* Sessions share `filedir` without a lock, and the process:
`exit(0)` in one thread ends all.
*Hard.* Clients vanish while they wait and between two sends of one message; the
system may refuse a call, and the server then exits; a `recv` returns any part of what was sent;
end of stream, reset and SIGPIPE are different things; files are overwritten
while others read them.
*Correct when* both ends stay in step, no message and no message that breaks off
ends the server, requests are answered, slots come back, and bytes stay at their
place.

### Shell — `shell/osShell.c`

*State.* The automaton of `checkSyntax` (state, pipes, files, last token); the
job table (`jobnum`, `jobpid`); in the kernel, processes and who holds which
pipe open.
*Operations.* `checkSyntax`, `builtInCMD` (cd, exit, jobs, fg), `cmdExe`
(pipes, forks, waits), `processCreation` (redirect, close, exec).
*Hard.* Every process inherits the pipes that are open at its fork; a process
may stop or end before the shell waits for it; waits come one after the other;
the job table is shifted when a job ends or stops again; it has ten rows, and no
line checks for an eleventh job.
*Correct when* the lines of the grammar are accepted, a pipeline ends,
nothing runs behind the prompt, and the table lists the stopped processes.

### Parallel BFS — `ParallelBF/ParallelBfs.java`

*State.* The table of nodes (neighbours, distance, colour) in a file; the records
in flight; the counter of gray nodes; the static `sourceNode` of each JVM.
*Operations.* The parser, `Map_Iteration`, `Reduce_Iteration`, the loop of the
driver, the output.
*Hard.* Tasks run in any order and each sees one line, or one key; the source is
painted gray again in every round; the static is set in one JVM and read in
another, where it is 0.
*Correct when* the output is the distances, cut at `INFINITE` (100000), and the
rounds end. The first holds only where the mappers know the source: in the
local runner, or when the source is node 0. On a cluster of several JVMs the
mappers paint node 0, whatever the source is, and the output is wrong.

### FAT32 recovery — `FAT32_recovery/recovery.c`

`recovery()` is empty; the rest reads and prints. Nothing to model.

## 2. Modules

| module | what it is |
|---|---|
| `Admission` | abstract: connections are admitted in order, each to a free slot |
| `SlotPool` | the accept loop and the workers; refines `Admission` |
| `SlotPool_proofs` | theorems about `SlotPool` |
| `ProxyCache`, `MCProxyCache` | the object cache |
| `ProxyCache_proofs` | theorems about `ProxyCache` |
| `Router`, `MCRouter` | the routers and the vectors between them |
| `Router_proofs` | theorems about `Router` |
| `FileStore` | abstract: upload once, get back unchanged, delete |
| `DedupStore` | chunks, reference counts, commands |
| `DedupChunking` | `chunking`, as functions of a file |
| `MyDedup`, `MCMyDedup` | both together; refines `FileStore` byte for byte |
| `MyDedup_proofs` | theorems about `MyDedup`, and the refinement |
| `FtpSession` | clients, workers and their streams |
| `FtpSession_proofs` | theorems about `FtpSession` |
| `ShellSyntax` | the automaton of `checkSyntax`, the grammar, and what is accepted besides |
| `Shell` | prompt, pipelines, job table; extends `ShellSyntax` |
| `Shell_proofs` | theorems about `Shell` |
| `ParallelBfs` | the jobs of the breadth-first search |
| `ParallelBfs_proofs` | theorems about `ParallelBfs` |
| `WellOrder` | the least-number principle the proofs use in place of induction |

Definitions marked "Plausible bug" are not part of a specification: each is a
variant of the definition that follows it, and makes a property fail when it
takes its place.

### SlotPool

One action per mutex section of main (`CheckVacancy`, `Resume`, `FindVacancy`,
`Spawn`), `Accept` for what main does between them, and for a worker
`ClientClose` (serviceHandler ends and closes the socket it finds in its entry)
and `Release` (the section at the end of `client`). A section never blocks, so
it is one action; `pthread_cond_wait` is a state of main that only `Signal`
changes. `Connect` is the kernel's. What a session does is left out: it reads its
own entry and nothing else of the table. The socket that `client_close` closes is
`args[slot[c]]`, not `c`, so that a wrong entry would close another's socket.

### ProxyCache

One object. Its versions are numbers, and time is counted in versions:
Last-Modified of version v is v, and the clock shows v until v + 1 is published.
A unit of data is `THROUGHPUT` bytes when `THROUGHPUT = 1`; a header is one value,
read and written in one section. An action is what happens between two points at
which another worker can act on what it reads: `Request` (checkFile and getIMT),
`GetIMT` (getIMT again), then one action per outcome of `parseRequest`, of which
each reads the time once more; one action per answer of the origin; `HeaderIn`;
`BodyOpen`, `BodyBlock`, `BodyRest`, `BodyEnd` for the section that stores, in
steps, because times and sizes are read without the mutex meanwhile; `MsgGenerator`,
`CacheStat`, `CacheOut`. A stored time is the present while a file is written and
Last-Modified after `utime`. Bytes that `write` takes from beyond the block in
`buf` are `Junk`.

`Found` is the cache an earlier process has left, which the code takes over when
`mkdir` says EEXIST: no body, or one that was stored to its end, with the header of
any version. A process that ends in the middle of a store (any worker's `exit(0)`, a
kill) leaves a body that is cut off or mixed, or one dated with the present; the next
process serves it. That is not modelled: `CachedBodyUniform` and `TimeFitsContent`
would be false from the start.

Assumed: answers with status 200 carry Last-Modified; the origin sends what
Content-Length says; the bytes that arrive with the header fit in `buf`; the
clock of the proxy agrees with the origin's; the headers of all versions have the
same length (`header_in` does not truncate the file it overwrites). Answers to URLs that are not
cacheable, and other statuses, are `OriginRefuses`: they are forwarded and leave
the cache alone.

### Router

A handler holds the mutex from the message it read to the last vector it sent, so
it is one action. `wire[r][n]` is the connection r opened to n, in order and
without loss, as TCP gives it. `Update` sets one direction of a link at one router
and recomputes; `Notify` is the agent's DV. `owed` is a ghost: the routers whose
links the agent has set and not yet told to notify. `dv_func` is `connection` and
the sending. `NoRoute` stands for `available[d] = 0`. Links of 1000 mean none, and
a path of cost `Cap` or more is none.

Left out: `SHOW`, `RESET` and `numDV`; failing connects; blocking sends; and the
restoring of a link while messages of its old connection are unread, which would
need two wires for it (see the hazards in `PROJECT.json`).

### DedupStore, DedupChunking, MyDedup

`StartUpload`/`StartDelete` is the start of a process: it loads the metadata.
`UploadChunk` and `DeleteChunk` handle one chunk each, `Update` ends the process
and writes the metadata. `Interrupt` is a process that is killed before: its
memory is lost, what it has stored or removed stays stored or removed.
`download` is a state function: what a process that starts now would give back.
The history variable `taken` holds the chunks that deletes which were killed have
removed while `mydedup.meta` still lists them; `visible` is `download` with those
excused, and no others.

`DedupChunking` has no variables: `chunking(file)` is the whole loop over the
reads of a file, with one operator per part of its body (`FirstWindow`,
`Windows`, `Window`, `MoveToFront`, `Remainder`) and the positions of the code.
Files and chunks are sequences of bytes. `MyDedup` gives `DedupStore` the chunk lists that `chunking`
makes of `Files`; a chunk stands for its checksum (SHA-1 is taken to be
injective).

### FtpSession

A unit of a stream is a header or the payload of a message, or a part of a file
(`Units`): one record, whose `type` says which fields count, and a file's unit
carries who put it and its place. `Kinds` are the message types of `myftp.h`.
A client sends a message in several sends: the header first, then a name or a
password (one unit, whatever sends it takes: what counts is whether its last byte is
there), or a file in a loop that sends any part at a time. `Request` and
`UploadHeader` put the whole message on the stream and count in `unsent` the units
behind the header that are still to come; `SendRest` sends one or more of them, and a
server's `recv` sees none before (`Has`). A client that is killed between two sends
leaves them unsent for ever: the server's `dataReceiver` then loops over `recv` = 0
(`LeftSending`). A file leaves the server block by block, and a `recv` of the client
takes any part of what is there (`Receive`). The server's `dataReceiver` loops until
it has what it wants, so an action of `Worker(k)` is one message, or one block. A
header is taken to arrive whole at both ends (`receiver` does one `recv` for it).
`client[c].want` is what the client waits for; `Client(c)` is what it does by itself,
`User(c)` what is typed. `Leave` is a client that ends in any way: the kernel closes
its sockets, and resets those with data unread; a `send` of the server to a client
that has gone draws a reset, the next one SIGPIPE, which ends the server (`Down`).
`Fail` is a call of the server that the system refuses, with every client alive:
`accept`, `fopen` of the password file, `open` and `write` of an upload, `fstat` and
`read` of a download (`get .` reads a directory) end the server as well, after what
the handler has already sent; `open` of a download is a refusal. `Faults` says which
of them may happen. `Accept` is `SlotPool` in one step.

### ShellSyntax and Shell

`Edges` is the automaton's `switch`, `Allowed` its conditions on counters and on
the last token, `checkSyntax` the tests after its loop. `>>` is `>`. The grammar
(`Intended`) knows no automaton: it says which parts of a line, by their positions,
are commands, redirections and built-in commands. Two other kinds of lines slip
through and have definitions of their own: a first command whose output and then
input is redirected, before a pipe (`IsDropping`), and a built-in command at the end
of a pipeline, which is then not run (`IsUnrunnable`).

`Type` adds a token; `Rejected`, `Exit`, `NoEffect`, `Foreground` and `Launch`
are what `main` does with a line. `Launch` makes the pipes, `Fork` one process at
a time with every pipe end the shell has open, `processCreation` is the child up
to `exec`, `ClosePipes` the shell's own closing, `Wait` one `waitpid`,
`EndOfLine` the test of the last status. `Continue`, `WaitContinued` and `FgEnds`
are the loop of `fg`. A child ignores Ctrl-Z until it sets its signals to default
(`SignalsDefault`), before it opens its files and closes pipe ends. The table has
`MaxJobs` rows, ten in the code. C does not say what a shell does that enters a job
behind the last row, or continues one of a row there is not: `WaitTableFull` and
`ForegroundOutside` lead to the mode `undefined`, which has no further step.
`orderly` records whether all jobs so far have stopped or ended as a
whole, and fg was given jobs of the list.

### ParallelBfs

`input_parsing` is the first job. A round is one `Map` per line and one `Reduce`
per key, in any order, between `Shuffle` and `iteration`, the driver's test.
`seen` is the value the mappers find in the static `sourceNode`: what the
parser's reducer has set when they share a JVM, and 0 otherwise; `Rooted` says that
it is the source, and that the source has a line. `dist` is a history variable with
the distances; `Shown` cuts them at `INFINITE`, as the reducer's comparison does.

## 3. What TLC checks

| run | instance | states | shows |
|---|---|---|---|
| `pool` | 4 connections, 2 slots, a queue of 3 | 85 010 | `OwnEntry`, `VacancyCounted`, `AcceptHasVacancy`, `NoLostWakeup`; `Served`; `Implements` |
| `proxy_cache` | 2 workers, 2 requests each, 2 versions of 2 blocks, a cache found | 442 621 | `HeaderFound`, `CachedBodyUniform`, `TimeFitsContent`; `NotModifiedIsOwn`; `RequestsEnd` |
| `proxy_long_body` | 1 worker, 1 version of 3 blocks | violation | `HeaderFitsBody` fails |
| `proxy_empty_body` | the first version empty | violation | `MutexReleased` fails |
| `router` | 3 routers in a line, 2 UPDATEs | 179 055 | `OwnRowIsMinimum`, `RouteCostIsDistance`, `QuietMeansExact`; `Converges` |
| `dedup` | 3 paths, 5 files of 2 chunk values; all files of up to 10 bytes | 51 808 | `RefCountsExact`, `ChunksAreTheFile`, `AnchorsByContent`, `ChunkSizes`; `KeepsFiles` |
| `dedup_blocks` | files one byte longer than the buffer | violation | `ReportedIsFileSize` fails |
| `ftp` | 2 clients, 2 connections, 2 slots, 1 file of up to 2 blocks, all faults | 551 780 | `ServerInStep`, `ServerEndsFor`, `ReplyMatches`, `UnitsInPlace`; `SlotsReturn`, `Answered` |
| `ftp_download` | the same | violation | `DownloadComplete` fails |
| `shell` | 4 processes, 2 rows, 3 Ctrl-Z, 2 fg, lines of up to 9 tokens | 470 434 | `GrammarIsAccepted`, `PromptIsQuiet`, `JobTableExact`; `LineEnds` |
| `shell_syntax` | lines of up to 9 tokens | violation | `PipeBehindInputOnly` fails |
| `bfs` | all graphs of 4 nodes and at most 5 edges | 703 778 | `FrontierIsLevel`, `OutputIsDistance`; `Terminates` |

Each passing run checks its module's `TypeOK` too.

*Bounds.* `pool`: two slots let one worker leave while another stays and while
main waits; the fourth connection waits while a third is in main's hand and the
table is full. Connections come back, so slots are reused without limit.
`proxy_cache`: two requests each let a worker be the first to store, then to
serve, revalidate or overwrite, against another in any phase; two versions are an
old and a new one; two blocks are one of the loop and one at the end. Longer
objects are corrupted (`proxy_long_body`), and objects of different lengths keep
a stale tail, so `CachedBodyUniform` is about versions of one length, stored in at
most two blocks: `WholeBlocks` in `ProxyCache_proofs` says exactly which. `router`: two
updates cut a link in both directions, which starts the count to `Cap` (5 instead
of 10000: links cost 1 or 2), close the triangle, or change a cost in both
directions.

`dedup`: two chunks in a file allow repetition in one file and both orders; three
paths allow three users of a chunk and a delete between two uploads. Paths are
interchangeable, so symmetry on them is sound; the run has no liveness property.
Chunking runs with a window of 3 bytes, base 3, modulus 8, anchors at two zero
bits, chunks of at most 5 bytes and a buffer of 20: a file of 10 bytes has
several chunks, ended by an anchor, by the maximum and by the end of the file,
and anchors before the minimum. Two limits of the code guard the properties of
`dedup` (`Fits`). Files of more than a buffer are stored wrong (`dedup_blocks`, where
windows of 1 byte, chunks of 3 and a buffer of 12 keep the files short). And a maximum
chunk size that is not above the window, which `upload` does not refuse, cuts no chunk
by its size and overruns `chunk_buf`. That the buffer holds four chunks of the
maximum size is `upload`'s own choice; `maximum_chunk_size*4` (line 483) is taken
not to overflow, and `b`, the bits of the anchor mask, not to exceed 32.

`ftp`: `c2` is a client that cannot create files, so that its stream falls out of
step; `c1` is an ordinary one. Two connections are one each, or two of one client
whose password was rejected. Two commands let a put and a get of both clients
meet on one file; two blocks of one unit let the other client come in between.
With two slots for two connections nobody queues: the full table is `pool`'s
matter.

`shell`: four processes are a pipeline of three and a single one, or two jobs of
two; three Ctrl-Z stop a job, another, and the first again. Before the first job
all lines of words and `|`, `<`, `>` up to nine tokens are typed, which is what the
code's array of tokens holds, and of any tokens up to four. With nine a line can name
a third file behind a pipe (`a > f < g | b > h`), which `fileQuota` refuses. Later only the lines in
`Shapes` are typed, one for each effect on jobs. Two rows instead of ten: the third
job that stops finds the table full.

`bfs`: four nodes and five edges give paths of three edges, diamonds, cycles
through the source, and nodes without a line of their own; `INFINITE` is 2, so that
some nodes are nearer, some at it and some beyond. `Default` (0) is a node other than `Source` (1).

*Deadlock* is checked in `pool` and `dedup`. The cache's browsers stop after
`MaxRequests`, routers fall silent, the users of FTP and of the shell stop typing
at their bounds or when the program has ended, and a search ends: these runs do
not check it, and `RequestsEnd`, `Converges`, `Answered`, `LineEnds` and
`Terminates` say what must not be left undone.

*Fairness.* `pool`: weak fairness of main's steps, which the scheduler gives (the
mutex sections are short), and of `ClientClose` and `Release`: every session ends.
This is an assumption on clients: nothing in the code times a client out. No
fairness of `Connect`. `proxy_cache`: weak fairness of `Proceed` for each worker,
which includes that the origin answers or closes. A worker that waits for the
mutex can only be overtaken by finitely many requests, so weak fairness is enough;
starvation by an endless stream of others is not covered. `router`: weak fairness
of reading messages and of the agent's DV to each router it has updated; none of
`Update`.
`ftp`: weak fairness of each client's own steps and of each worker, which the
schedulers of both machines give; none of `User`: nobody has to type.
`dataReceiver` at the server never gives up on a client that was killed between the
sends of one message: the slot is lost, and `SlotsReturn` excuses that state
(`LeftSending`) and no other. `shell`:
weak fairness of the shell, of `processCreation` and of `FinishAtEnd`: a program
ends when its input has an end and its output is taken, which is what filters do;
none of Ctrl-Z, of typing, or of other endings. `bfs`: weak fairness of the next
step: the framework runs the tasks it has.

## 4. What disagrees with the code's own comments

`PROJECT.json` lists each under `findings` with the line quoted.

- `proxy_long_body`: blocks are written with the length of all that is
  outstanding, so objects of more than two blocks are stored wrong.
- `proxy_empty_body`: an empty body leaves the mutex locked.
- `dedup_blocks`: a chunk that spans two reads is uploaded with the wrong length.
- `ftp_download`: a download that arrives in two `recv`s counts as cut short.
- `shell_syntax`: `a > f < g | b` is accepted, though the branch is "for
  <cmd><inpput redirect> | only": it looks at the last file alone.

Seen while modelling, without a run of their own:

- the condition wait of the accept loop is guarded by `if` (`myproxy.c:1416`), so
  a wakeup without a signal would let main take a connection with a full table.
  In `SlotPool` only `Signal` wakes main;
- a request with no-cache and no time of its own, for an object the proxy has, is
  asked with the file's time, and the 304 is forwarded to a browser that has
  nothing: the exception `Unconditional` of `NotModifiedIsOwn`. While a file is
  being written its time is the present, and a request that reads it then is
  compared with that; `TimeFitsContent` speaks of the times outside the writing;
- a pipeline that ends in a built-in command is accepted and then not run
  (`IsUnrunnable`);
- the routing table is written only when the cost changes, and never when a
  destination is lost (`router.c:297-300`): a route outlives its distance, and a next
  hop that changes at equal cost is not recorded. `RouteCostIsDistance` is about the
  costs of destinations that can be reached;
- a chunk that a killed delete has removed, but that the metadata still count, is not
  stored again when a later upload has it: that file cannot be given back either.
  `KeepsFiles` excuses both files, by the chunks in `taken`;
- where the mappers are in JVMs of their own, `sourceNode` is 0 in them: the search
  starts at node 0, with distance `INFINITE`, and its output is wrong;
- one file that the FTP server cannot create, read or write (a `get .` is enough)
  ends it for all clients;
- when only some processes of a job stop, `exit` may end the shell and leave them
  behind, and the table may list processes that have ended: `JobTableExact` is
  about orderly jobs;
- an FTP client whose password is rejected keeps its connection, and its slot,
  until it ends; one that is killed between two sends of a message costs its slot
  for ever.

## 5. What is proved

TLC checks the instances of section 3; the theorems hold for every value of the
constants that satisfies the module's assumption. `PROJECT.json` lists them under
`theorems`. Each proof module states its inductive invariant at the top, has one
lemma per action for it, and derives the properties. All invariants and action properties
that the passing runs check are proved, and so are the refinements of both abstract
specifications.

### SlotPool, for any `Conns`, `MAX >= 1` and `Backlog >= 1`

`TypeOK`, `OwnEntry`, `VacancyCounted`, `AcceptHasVacancy`, `NoLostWakeup`, and that
`SlotPool` implements `Admission`. None of these is inductive. `IInv` adds
- `PeerInv`: a connection in the backlog is queued, one that is away or queued has
  no worker, and the one in main's hand has none yet;
- `BacklogInv`: the queue holds each connection once;
- `TableInv`: the taken slots are exactly those of the live workers and the one
  main has reserved, which is no worker's;
- `MainInv`: m < MAX where main goes on to accept, m >= MAX where it waits.

`VacancyCounted` with `MainInv` gives the vacancy: fewer than MAX slots are taken
when main searches. Where main waits, m >= MAX >= 1 slots are taken and none is
reserved, so by `TableInv` each has a worker; the first of them to leave finds
m >= MAX and signals, which is `NoLostWakeup`. The
refinement maps the queue to the connection in main's hand followed by the
backlog, and a slot to what its entry holds unless it is vacant or just reserved.

### ProxyCache, for any workers, versions and lengths

`TypeOK`, `HeaderFound`, `TimeFitsContent` and the action property
`NotModifiedIsOwn` follow from `CacheInv`: a worker that stores knows how much has
come and where it writes (`ResponseInv`); the body file exists only when the header
file does (also in the cache an earlier process has left, `Found`), and a worker past `HeaderIn`, or one that has seen the body file, can
rely on the header, which is overwritten but never removed (`HeaderInv`); between
the mutex sections the file's time is that of the version of its first unit
(`TimeInv`); the file's time gets into a request only of a worker that saw the file
(`AskInv`); and nothing shortens the file (`SizeInv`).

`CachedBodyUniform` is false for bodies of any length, because `myproxy.c:1175-1177`
writes `count` bytes, all that is outstanding, where `THROUGHPUT` have come
(`proxy_long_body`). It is proved under `WholeBlocks`: all versions have one length,
and what follows the units that came with the header is at most one block, or
exactly two. `UniformInv` says how far the file is the version being written.

### Router, for any finite set of routers and any topology

`RouterAssumption` asks that every cost of the topology file is below `Cap` and none
is of a link from a router to itself. `OwnRowIsMinimum` and `RouteCostIsDistance`
rest on `RowInv`: `min_DV` reads the rows of the neighbours and never the row it is
about to write, so one `recompute` establishes the minimum, and a row from a
neighbour cannot land on the own one. An entry of the row that changed was copied to
the routing table in the same step, and one that did not change was right before.

`QuietMeansExact` says that once no vector is under way, nobody is owed a
notification and both ends of each link agree on it, every row has the true distances. `HeardInv` says what each router has
heard: the last vector on a wire, or else the row in the table, is the sender's
row. From it, in a quiet state the rows satisfy the equations of shortest paths. That
they are exact is then shown both ways: no path is cheaper than the row, by the
least place along the path at which it would be, and each finite entry has a path,
by the least cost without one; costs are positive, so the path cannot return.

### MyDedup, for any paths, files and parameters of the chunking

`RefCountsExact` and `TypeOK` follow from `DedupInv`, where `UploadInv` and
`DeleteInv` relate the memory of a process to the metadata it started from, and
`StoredInv` says where chunks are. References are counted as pairs of a path and a
position, so that an append adds one pair and a deletion takes one away.

`StoreKeepsLists`: the store implements `FileStore` with the chunk list as a file's
contents. `ChunksMakeTheFile` and `ChunksHaveSizes`: if the maximum is above the
window (`WindowFits`), which `upload` does not check and without which both are false,
`chunking` makes of any file
that one read of the buffer takes chunks that are the file, in order, of at most
`MaxChunkSize` bytes and, but for the last, at least `m`. The argument follows the
loop: before each window (`Sliding`) what is cut off is the beginning of the file up
to `RFPhead`, and what is not, together with the window, is shorter than the maximum;
`MoveToFront` splits the rest into what `chunk_buf` holds and what `front` holds
(`Moved`); `Remainder` joins the two. Nothing is assumed of the fingerprint: where
the anchors are does not matter for these two. Both together give `FilesComeBack`: `MyDedup`
implements `FileStore` with the files themselves, of one buffer each, whatever chunks
they share and whatever commands are killed.

`AnchorsAreByContent`: the fingerprint that is rolled from window to window has the
mask's bits 0 exactly where the polynomial of the window's own bytes has. Java's `%`
takes the sign of the dividend, so the rolled value may be negative and differ from
the polynomial; the two are congruent modulo `AnchorMod` (`Same`), because `%` by `q`
changes a number by a multiple of `q` and `AnchorMod` divides `q` (2^32 and a power of
two). Congruence survives sums and products (`SameSums`, `SameProducts`), squaring
gives the power that is taken away (`d_powerIs`), one step turns the fingerprint of a
window into the next one's (`FingerprintRolls`), and so do all of them
(`RolledIsFingerprint`). It holds for bytes of either sign.

Assumed: the set of paths is finite, files are sequences of bytes that one read takes,
the maximum chunk size is above the window where files are stored (`Fits`), the anchor
mask has at most 32 bits, and equal checksums mean equal chunks.

### FtpSession, for any clients, connections and files of any length

`TypeOK`, `ServerInStep`, `ServerEndsFor`, `ReplyMatches` and `UnitsInPlace` follow
from `FtpInv`. What a client sends is framed: a header and as much payload as it
announces (`Framed`), sent or still unsent, also when the client has lost step; the
server takes a message at a time and waits until all of it has come, so it finds
headers where it reads headers, and a message that breaks off leaves it waiting.
`ServerEndsForAReason` then leaves, of all the ways to `exit(0)` and SIGPIPE, the calls
the system refuses (`Faults`, any set of them) and clients that left before they were
authenticated, or with data unread or replies unsent. A client in step has at most
one request under way, and what comes back on its connection is the beginning of the
answer to that request. A file keeps at least the length that was announced when it
was opened, because it is overwritten in place and never shortened while a worker
reads it, and each unit stays at the place a client put it. Assumed: `None`, which
stands for a file that is not there, is not a file's content.

### Shell, for any number of processes, rows, lines, Ctrl-Z and fg

`TypeOK`, `PromptIsQuiet` and `JobTableExact` follow from `ShellInv`: processes get
their numbers in order and are waited for in that order, so all below the one that
is waited for rest (`QuietInv`); only what rests is listed, once (`ListInv`); and
between lines the table lists exactly the stopped processes as long as jobs stop
and end as a whole (`StoppedInv`, under `orderly`). Nothing is claimed of a shell that
has gone past its table (mode `undefined`).

`CheckSyntaxAccepts` is about lines of any length: `checkSyntax` accepts those of the
grammar, the two other kinds that slip through, and no others (`Accepted`). `Scan` is a recursive function, whose values are those of a run
of the automaton (`ScanIs`). A line of the grammar leads the run along its parts:
behind a command, a redirection, a pipe, a built-in command it is in a known state with
known counters (`CommandRuns`, `RedirectedRuns`, `PipeRuns`, `BuiltInRuns`). Back, an
invariant of the run (`Stands`) says for each state which parts the tokens so far are,
as long as some continuation can still be accepted (`Lost` is the rest); the
transitions keep it one by one (`StandsNext`), and at the end it says which line of the
grammar this is. A reference grammar that let a line of three parts name a third
file (`a > f < g | b > h`) differed from the code first on nine tokens, beyond what
the run then typed; the proof asked for the bound on files, and the run now types lines
of nine. `LinesAreAccepted` carries the first part to the
shell; `PipeBehindInputOnly`, which the second part contradicts, is what `shell_syntax` refutes.

### ParallelBfs, for any graph, any INFINITE and any order of tasks

`TypeOK`, `FrontierIsLevel` and `OutputIsDistance` follow from `BfsInv`: what is
emitted in a round comes from the lines mapped, what is written from the keys
reduced (`RoundInv`), and after k rounds the gray nodes are those at distance k
(`LevelInv`). A round without a gray node has reached everything. `FrontierIsLevel` and
`OutputIsDistance` are about mappers that know the source (`Rooted`): the local runner,
or node 0 as the source. Distances of `INFINITE` and more are shown as `INFINITE`.

### What is only model-checked

- everything under fairness: `Served`, `RequestsEnd`, `Converges`, `SlotsReturn`,
  `Answered`, `LineEnds`, `Terminates`. TLAPS does not prove liveness;
- the disagreements of section 4, which are single behaviours.

The proofs cannot use induction with a predicate as parameter. Where one is needed,
`WellOrder` has two forms that take a set: of the numbers at which a claim fails
there is a least, and a set with 0 that is closed under the successor has all
numbers. They also give the recursive functions of the models their values.

## 6. Not modelled

- the proxy's connections to origins (`myproxy.c` 286-403, 412-425) and an origin
  that closes early: planned below;
- the router's SHOW and RESET, neighbours that cannot be connected to, and sends
  that block with the mutex held;
- `router/mile2.c`, an earlier milestone of `router.c`, and `agent.c`, whose one
  message is `Notify`;
- `Update` killed half-way, which loses `mydedup.meta`, and backends whose store
  fails: both lose files for reasons that are plain from the code;
- FAT32 recovery, handouts and samples: no behaviour of their own;
- a proxy's cache that an earlier process left in the middle of a store;
- undefined behaviour by buffers that are too small: the shell's tables beyond ten jobs,
  `buf` in the proxy, and, as an exception, `chunk_buf` when `x` is not above `m`.

## 7. Plan

1. `ProxyConns`: `server_set` and the descriptors of two workers, with slot reuse
   and an origin that closes early.
2. `Router`: SHOW, RESET and `numDV`.
