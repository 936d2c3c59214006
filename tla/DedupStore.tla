----------------------------- MODULE DedupStore -----------------------------
(***************************************************************************)
(* MyDedup's chunk store.  Every command is a process of its own: it loads *)
(* mydedup.meta, works on chunks and their reference counts in memory and  *)
(* on the stored chunks directly, and rewrites mydedup.meta at its end.    *)
(* Two equal chunks are stored once, on the backend that had one first.    *)
(*                                                                         *)
(* A file is the sequence of its chunks' checksums; a total function with  *)
(* Absent (NoChunk) for the keys it does not hold stands for each HashMap. *)
(***************************************************************************)
EXTENDS Integers, Sequences, FiniteSets

CONSTANTS
    Paths,      \* pathnames
    Checksums,  \* the SHA-1 values of the chunks there are
    MaxChunks,  \* bound: chunks in a file
    Uploads,    \* the chunk lists of the files there are
    Absent      \* no file record

ASSUME DedupAssumption ==
    /\ IsFiniteSet(Paths)
    /\ MaxChunks \in Nat
    /\ Uploads \subseteq UNION {[1 .. n -> Checksums] : n \in 0 .. MaxChunks}
    /\ Absent \notin UNION {[1 .. n -> Checksums] : n \in 0 .. MaxChunks}

Backends == {0, 1}  \* local, remote
Lists == UNION {[1 .. n -> Checksums] : n \in 0 .. MaxChunks}

VARIABLES
    disk,    \* mydedup.meta: its chunk and file records
    stored,  \* stored[b]: the chunks backend b holds
    chunks,  \* chunks[h]: reference count and backend of chunk h, in memory
    files,   \* files[p]: the chunk list of path p, in memory
    cmd,     \* the command that runs, and its path and backend
    todo,    \* the chunks it has still to handle
    taken    \* history: the chunks that deletes which were cut off have removed

vars == <<disk, stored, chunks, files, cmd, todo, taken>>

NoChunk == [refCount |-> 0, backend |-> 0]
NoChunks == [h \in Checksums |-> NoChunk]
NoFiles == [p \in Paths |-> Absent]
Idle == [op |-> "none", path |-> Absent, backend |-> 0]

\* chunks.containsKey: a record whose count reaches 0 is removed.
Known(h) == chunks[h].refCount # 0

Init ==
    /\ disk = [chunks |-> NoChunks, files |-> NoFiles]
    /\ stored = [b \in Backends |-> {}]
    /\ chunks = NoChunks
    /\ files = NoFiles
    /\ cmd = Idle
    /\ todo = <<>>
    /\ taken = {}

\* The constructor reads the metadata; a command with nothing to do rewrites it.
Start(op, p, b, list) ==
    /\ cmd = Idle
    /\ chunks' = disk.chunks
    /\ cmd' = [op |-> op, path |-> p, backend |-> b]
    /\ todo' = list
    /\ UNCHANGED <<disk, stored, taken>>

\* A new file's record is there before its chunks, with a list that is still empty.
insertFileRecord(p) ==
    IF disk.files[p] = Absent THEN [disk.files EXCEPT ![p] = <<>>] ELSE disk.files

\* Plausible bug: an upload to a path that is stored goes on with its list.
StartUploadAppends(p, content, b) ==
    /\ Start("upload", p, b, content)
    /\ files' = insertFileRecord(p)

\* upload: the file is read only if its path is new.
StartUpload(p, content, b) ==
    /\ Start("upload", p, b, IF disk.files[p] = Absent THEN content ELSE <<>>)
    /\ files' = insertFileRecord(p)

\* Plausible bug: a chunk that is known already is not counted again.
CountedOnce(record, b) ==
    IF record.refCount = 0 THEN [refCount |-> 1, backend |-> b] ELSE record

\* insertChunkRecord: one reference more, on the backend that has the chunk.
Counted(record, b) ==
    IF record.refCount = 0 THEN [refCount |-> 1, backend |-> b]
    ELSE [record EXCEPT !.refCount = @ + 1]

\* Plausible bug: the record names the backend of the last upload.
UploadChunkMoves ==
    LET h == Head(todo) IN
    /\ cmd.op = "upload" /\ todo # <<>>
    /\ files' = [files EXCEPT ![cmd.path] = Append(@, h)]
    /\ chunks' = [chunks EXCEPT ![h] = [Counted(@, cmd.backend) EXCEPT !.backend = cmd.backend]]
    /\ stored' = IF Known(h) THEN stored
                 ELSE [stored EXCEPT ![cmd.backend] = @ \cup {h}]
    /\ todo' = Tail(todo)
    /\ UNCHANGED <<disk, cmd, taken>>

\* uploadChunk: only a new chunk is written to the backend.
UploadChunk ==
    LET h == Head(todo) IN
    /\ cmd.op = "upload" /\ todo # <<>>
    /\ files' = [files EXCEPT ![cmd.path] = Append(@, h)]
    /\ chunks' = [chunks EXCEPT ![h] = Counted(@, cmd.backend)]
    /\ stored' = IF Known(h) THEN stored
                 ELSE [stored EXCEPT ![cmd.backend] = @ \cup {h}]
    /\ todo' = Tail(todo)
    /\ UNCHANGED <<disk, cmd, taken>>

\* delete: a path that is not stored has no chunks to give up.
StartDelete(p) ==
    /\ Start("delete", p, 0, IF disk.files[p] = Absent THEN <<>> ELSE disk.files[p])
    /\ files' = disk.files

\* Plausible bug: the chunk goes when ONE other reference is left.
LastReferenceOffByOne(record) == record.refCount <= 2

LastReference(record) == record.refCount = 1

\* One reference less; with the last one the stored chunk and the record go.
DeleteChunk ==
    LET h == Head(todo)
        b == chunks[h].backend IN
    /\ cmd.op = "delete" /\ todo # <<>>
    /\ \/ /\ ~ Known(h)
          /\ UNCHANGED <<chunks, stored>>
       \/ /\ Known(h) /\ LastReference(chunks[h])
          /\ stored' = [stored EXCEPT ![b] = @ \ {h}]
          /\ chunks' = [chunks EXCEPT ![h] = NoChunk]
       \/ /\ Known(h) /\ ~ LastReference(chunks[h])
          /\ chunks' = [chunks EXCEPT ![h].refCount = @ - 1]
          /\ UNCHANGED stored
    /\ todo' = Tail(todo)
    /\ UNCHANGED <<disk, files, cmd, taken>>

\* The end of the command: delete's file record goes, Update() rewrites the file.
Update ==
    /\ cmd.op # "none" /\ todo = <<>>
    /\ disk' = [chunks |-> chunks,
                files |-> IF cmd.op = "delete" THEN [files EXCEPT ![cmd.path] = Absent]
                          ELSE files]
    /\ chunks' = NoChunks
    /\ files' = NoFiles
    /\ cmd' = Idle
    /\ taken' = {h \in taken : Known(h)}
    /\ UNCHANGED <<stored, todo>>

\* The chunks the running delete has removed although mydedup.meta has them.
Removed == {h \in Checksums : cmd.op = "delete" /\ disk.chunks[h].refCount # 0 /\ ~ Known(h)}

\* Plausible bug: a delete that is told to stop saves its counts on the way out.
InterruptSaves ==
    /\ cmd.op # "none"
    /\ disk' = [disk EXCEPT !.chunks = chunks]
    /\ chunks' = NoChunks
    /\ files' = NoFiles
    /\ cmd' = Idle
    /\ todo' = <<>>
    /\ taken' = taken \cup Removed
    /\ UNCHANGED stored

\* The process is killed before Update: memory is lost, stored chunks stay.
Interrupt ==
    /\ cmd.op # "none"
    /\ chunks' = NoChunks
    /\ files' = NoFiles
    /\ cmd' = Idle
    /\ todo' = <<>>
    /\ taken' = taken \cup Removed
    /\ UNCHANGED <<disk, stored>>

Next ==
    \/ \E p \in Paths, content \in Uploads, b \in Backends : StartUpload(p, content, b)
    \/ \E p \in Paths : StartDelete(p)
    \/ UploadChunk \/ DeleteChunk \/ Update \/ Interrupt

Spec == Init /\ [][Next]_vars

-----------------------------------------------------------------------------
\* download(p) as a process that starts now would do it: a chunk without a
\* record or without data is missing.
Lost == <<Absent>>
download(p) ==
    [i \in DOMAIN disk.files[p] |->
        LET h == disk.files[p][i] IN
        IF disk.chunks[h].refCount # 0 /\ h \in stored[disk.chunks[h].backend]
        THEN h ELSE Lost]

Records == [Checksums -> [refCount : Nat, backend : Backends]]
FileRecords == [Paths -> Lists \cup {Absent}]

TypeOK ==
    /\ disk \in [chunks : Records, files : FileRecords]
    /\ stored \in [Backends -> SUBSET Checksums]
    /\ chunks \in Records
    /\ files \in FileRecords
    /\ cmd \in [op : {"none", "upload", "delete"}, path : Paths \cup {Absent},
                backend : Backends]
    /\ todo \in Lists
    /\ taken \subseteq {h \in Checksums : disk.chunks[h].refCount # 0}

\* The places at which file records refer to h.
Places(h, records) ==
    {at \in Paths \X (1 .. MaxChunks) :
       /\ records[at[1]] # Absent
       /\ at[2] \in DOMAIN records[at[1]]
       /\ records[at[1]][at[2]] = h}
References(h, records) == Cardinality(Places(h, records))

\* A chunk's reference count is the number of places that refer to it, counted
\* with their repetitions over all the files; while delete runs, without the
\* places it has handled.
RefCountsExact ==
    \A h \in Checksums :
        /\ disk.chunks[h].refCount = References(h, disk.files)
        /\ cmd.op = "upload" => chunks[h].refCount = References(h, files)
        /\ cmd.op = "delete" /\ files[cmd.path] # Absent =>
             chunks[h].refCount = References(h, [files EXCEPT ![cmd.path] = todo])

\* What download gives back, but for the chunks that a delete which is running or
\* was cut off has removed while mydedup.meta still had them.
visible(p) ==
    LET given == download(p)
        list == disk.files[p]
        Excused(i) == given[i] = Lost /\ list[i] \in taken \cup Removed
    IN  IF list = Absent THEN Absent
        ELSE [i \in DOMAIN list |-> IF Excused(i) THEN list[i] ELSE given[i]]
=============================================================================
