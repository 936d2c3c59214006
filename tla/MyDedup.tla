------------------------------ MODULE MyDedup ------------------------------
(***************************************************************************)
(* MyDedup as its user sees it: files of bytes go through DedupChunking's  *)
(* chunking into DedupStore's chunks and come back from download.  A chunk *)
(* stands for its SHA-1 checksum: different chunks have different ones.    *)
(***************************************************************************)
EXTENDS DedupStore, DedupChunking

CONSTANTS
    Files,     \* the files that are uploaded
    AllFiles   \* the files whose chunking is checked

\* The cfg gives these to Checksums and Uploads.
ChunkLists == {chunking(f).chunks : f \in Files}
ChunkValues == UNION {ToSet(list) : list \in ChunkLists}

ASSUME MyDedupAssumption ==
    /\ Absent \notin Files
    /\ \A f \in Files \cup AllFiles : f \in Seq(Int)
    /\ \A f \in Files : Fits(f)
    /\ Uploads = ChunkLists

\* getChunk appends every chunk to the file.
Joined(list) == IF list = Absent THEN Absent ELSE FlattenSeq(list)

F == INSTANCE FileStore WITH
       Contents <- Files, contents <- [p \in Paths |-> Joined(visible(p))]

\* Every file that fits comes back byte for byte as it was uploaded, whatever chunks it
\* shares with files that were uploaded to either backend or deleted since, and
\* after commands that were killed; a chunk is missing only where a delete was
\* killed after it removed that chunk and before it saved its metadata, and is then
\* missing in every file that has it, one uploaded later included, as its count is kept.
KeepsFiles == F!Spec

\* What any file's first upload, to an empty store, would make of it.
FirstUpload(IsRight(_)) == Init => \A f \in AllFiles : IsRight(f)

\* The chunks of a file, put together, are the file: chunking neither loses nor
\* repeats a byte of a file that fits: one that a single read of the buffer takes, with
\* a maximum chunk size greater than the window.
ChunksAreTheFile == FirstUpload(LAMBDA f : Fits(f) => RestoredFrom(f))

\* The rolled fingerprint, which may be negative, marks the same windows as the
\* polynomial of the window's own bytes: equal contents are cut at equal places.
AnchorsByContent == FirstUpload(AnchorsFit)

\* "Minimum chunk size requirement" and maximum_chunk_size hold for every chunk of a
\* file that fits, the minimum not for its last.
ChunkSizes == FirstUpload(LAMBDA f : Fits(f) => SizesFit(f))

\* What main reports as "Number of bytes without deduplication(file size)" is
\* the size of the file.
ReportedIsFileSize == FirstUpload(LAMBDA f : chunking(f).totalSize = Len(f))
=============================================================================
