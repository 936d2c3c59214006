--------------------------- MODULE MyDedup_proofs ---------------------------
(***************************************************************************)
(* Proofs about MyDedup for any paths, and any files that fit: of one read *)
(* of the buffer at most, with a maximum chunk size greater than the       *)
(* window.  Reference counts are exact, the chunk store implements         *)
(* FileStore with chunk lists as the contents, chunking makes of a file    *)
(* chunks that are the file, the rolled fingerprint is the windows' own,   *)
(* and so MyDedup implements FileStore with files, whatever commands were  *)
(* killed.                                                                 *)
(***************************************************************************)
EXTENDS MyDedup, FiniteSetTheorems, SequenceTheorems, WellOrder, TLAPS

\* Files as the store has them: a content is a list of chunks.
L == INSTANCE FileStore WITH
       Contents <- Uploads, contents <- [p \in Paths |-> visible(p)]

\* mydedup.meta counts the chunk.
Recorded(h) == disk.chunks[h].refCount # 0

\* An upload appends to a list that began empty, and gives up no record.
UploadInv ==
    cmd.op = "upload" =>
        /\ cmd.path \in Paths
        /\ \/ /\ disk.files[cmd.path] = Absent
              /\ files[cmd.path] \in Lists
              /\ files[cmd.path] \o todo \in Uploads
              /\ files = [disk.files EXCEPT ![cmd.path] = files[cmd.path]]
           \/ /\ disk.files[cmd.path] # Absent
              /\ todo = <<>> /\ files = disk.files /\ chunks = disk.chunks
        /\ \A h \in Checksums : Recorded(h) =>
              Known(h) /\ chunks[h].backend = disk.chunks[h].backend

\* A delete gives up references and moves no chunk.
DeleteInv ==
    cmd.op = "delete" =>
        /\ cmd.path \in Paths /\ files = disk.files
        /\ files[cmd.path] = Absent => todo = <<>> /\ chunks = disk.chunks
        /\ \A h \in Checksums : Known(h) =>
              Recorded(h) /\ chunks[h].backend = disk.chunks[h].backend

\* The backend of a record holds the chunk, unless a delete has removed it.
StoredInv ==
    \A h \in Checksums :
        /\ Recorded(h) => h \in stored[disk.chunks[h].backend] \/ h \in taken \cup Removed
        /\ cmd.op # "none" /\ Known(h) => h \in stored[chunks[h].backend] \/ h \in taken

\* What is stored at a path was uploaded.
StoredUploads == \A p \in Paths : disk.files[p] \in Uploads \cup {Absent}

DedupInv == TypeOK /\ RefCountsExact /\ UploadInv /\ DeleteInv /\ StoredInv /\ StoredUploads
-----------------------------------------------------------------------------
(* Lists and places *)

LEMMA ListsAreSequences ==
    ASSUME NEW list
    PROVE  list \in Lists <=> list \in Seq(Checksums) /\ Len(list) <= MaxChunks
<1>1. ASSUME list \in Lists PROVE list \in Seq(Checksums) /\ Len(list) <= MaxChunks
  <2>1. PICK n \in 0 .. MaxChunks : list \in [1 .. n -> Checksums]
    BY <1>1 DEF Lists
  <2> QED
    BY <2>1, DedupAssumption
<1>2. ASSUME list \in Seq(Checksums), Len(list) <= MaxChunks PROVE list \in Lists
  <2>1. list \in [1 .. Len(list) -> Checksums] /\ Len(list) \in 0 .. MaxChunks
    BY <1>2, DedupAssumption
  <2> QED
    BY <2>1 DEF Lists
<1> QED
  BY <1>1, <1>2

LEMMA ListFacts ==
    /\ Uploads \subseteq Lists
    /\ Absent \notin Lists
    /\ <<>> \in Lists
<1>1. <<>> \in Seq(Checksums) /\ Len(<<>>) = 0 /\ 0 <= MaxChunks
  BY DedupAssumption
<1>2. <<>> \in Lists
  BY <1>1, ListsAreSequences
<1> QED
  BY <1>2, DedupAssumption DEF Lists

\* There are finitely many places, and References counts them.
LEMMA PlacesFinite ==
    ASSUME NEW h, NEW records
    PROVE  /\ IsFiniteSet(Places(h, records))
           /\ References(h, records) = Cardinality(Places(h, records))
           /\ References(h, records) \in Nat
<1>1. IsFiniteSet(Paths \X (1 .. MaxChunks))
  <2>1. IsFiniteSet(1 .. MaxChunks)
    BY FS_Interval, DedupAssumption
  <2> QED
    BY <2>1, FS_Product, DedupAssumption
<1>2. Places(h, records) \in SUBSET (Paths \X (1 .. MaxChunks))
  BY DEF Places
<1>3. IsFiniteSet(Places(h, records))
  BY <1>1, <1>2, FS_Subset
<1>4. References(h, records) = Cardinality(Places(h, records))
  BY DEF References
<1> QED
  BY <1>3, <1>4, FS_CardinalityType

LEMMA IsPlace ==
    ASSUME NEW h, NEW records, NEW p, NEW i
    PROVE  <<p, i>> \in Places(h, records) <=>
             /\ p \in Paths /\ i \in 1 .. MaxChunks
             /\ records[p] # Absent /\ i \in DOMAIN records[p] /\ records[p][i] = h
BY DEF Places

LEMMA PlacesArePairs ==
    ASSUME NEW h, NEW records, NEW x \in Places(h, records)
    PROVE  x = <<x[1], x[2]>> /\ x[1] \in Paths /\ x[2] \in 1 .. MaxChunks
BY DEF Places

\* A list without a chunk and no list at all refer to nothing.
LEMMA PlacesOfNothing ==
    ASSUME NEW h, NEW records \in FileRecords, NEW p \in Paths, records[p] \in {Absent, <<>>},
           NEW none \in {Absent, <<>>}
    PROVE  References(h, [records EXCEPT ![p] = none]) = References(h, records)
<1> DEFINE changed == [records EXCEPT ![p] = none]
<1>1. \A i : i \notin DOMAIN <<>>
  OBVIOUS
<1>2. ASSUME NEW x PROVE x \in Places(h, changed) <=> x \in Places(h, records)
  <2>1. ASSUME NEW r \in Paths, NEW i
        PROVE  <<r, i>> \in Places(h, changed) <=> <<r, i>> \in Places(h, records)
    <3>1. changed[r] = IF r = p THEN none ELSE records[r]
      BY DEF FileRecords
    <3> HIDE DEF changed
    <3> QED
      BY <3>1, <1>1, IsPlace
  <2> HIDE DEF changed
  <2> QED
    BY <2>1, PlacesArePairs
<1>3. Places(h, changed) = Places(h, records)
  BY <1>2
<1> QED
  BY <1>3, PlacesFinite

\* A chunk more at the end of a list is one place more for that chunk.
LEMMA PlacesOfAppend ==
    ASSUME NEW h, NEW records \in FileRecords, NEW p \in Paths, NEW g \in Checksums,
           records[p] \in Lists, Len(records[p]) < MaxChunks
    PROVE  References(h, [records EXCEPT ![p] = Append(@, g)])
             = References(h, records) + IF h = g THEN 1 ELSE 0
<1> DEFINE list == records[p]
           longer == Append(list, g)
           changed == [records EXCEPT ![p] = longer]
           place == <<p, Len(list) + 1>>
<1>1. list \in Seq(Checksums)
  BY ListsAreSequences
<1>2. /\ longer \in Seq(Checksums) /\ Len(longer) = Len(list) + 1
      /\ DOMAIN longer = 1 .. Len(list) + 1 /\ DOMAIN list = 1 .. Len(list)
      /\ \A i \in 1 .. Len(list) : longer[i] = list[i]
      /\ longer[Len(list) + 1] = g
  BY <1>1, AppendProperties
<1>3. longer \in Lists /\ longer # Absent /\ list # Absent
  <2>1. Len(longer) <= MaxChunks
    BY <1>1, <1>2, DedupAssumption
  <2> HIDE DEF longer
  <2> QED
    BY <2>1, <1>1, <1>2, ListsAreSequences, ListFacts
<1>4. place \notin Places(h, records)
  BY <1>1, <1>2, IsPlace
<1>5. \A r \in Paths : changed[r] = IF r = p THEN longer ELSE records[r]
  BY DEF FileRecords
<1>6. Len(list) \in Nat /\ Len(list) + 1 \in 1 .. MaxChunks
  BY <1>1, DedupAssumption
<1> HIDE DEF longer, changed
<1>7. ASSUME NEW r \in Paths, NEW i
      PROVE  <<r, i>> \in Places(h, changed) <=>
               \/ <<r, i>> \in Places(h, records)
               \/ h = g /\ r = p /\ i = Len(list) + 1
  <2>1. CASE r # p
    BY <2>1, <1>5, IsPlace
  <2>2. CASE r = p
    <3>1. <<r, i>> \in Places(h, changed) <=>
            i \in 1 .. MaxChunks /\ i \in 1 .. Len(list) + 1 /\ longer[i] = h
      BY <2>2, <1>5, <1>3, <1>2, IsPlace
    <3>2. <<r, i>> \in Places(h, records) <=>
            i \in 1 .. MaxChunks /\ i \in 1 .. Len(list) /\ list[i] = h
      BY <2>2, <1>3, <1>2, IsPlace
    <3> HIDE DEF list
    <3> QED
      BY <3>1, <3>2, <1>2, <1>6, <2>2
  <2> QED
    BY <2>1, <2>2
<1>8. Places(h, changed) = IF h = g THEN Places(h, records) \cup {place} ELSE Places(h, records)
  <2>1. ASSUME NEW x PROVE x \in Places(h, changed) <=>
                             x \in Places(h, records) \/ (h = g /\ x = place)
    BY <1>7, PlacesArePairs
  <2> QED
    BY <2>1
<1>9. Cardinality(Places(h, changed)) = Cardinality(Places(h, records)) + IF h = g THEN 1 ELSE 0
  <2>1. CASE h = g
    <3>1. IsFiniteSet(Places(h, records)) /\ place \notin Places(h, records)
      BY <1>4, PlacesFinite
    <3>2. Cardinality(Places(h, records) \cup {place}) = Cardinality(Places(h, records)) + 1
      BY <3>1, FS_AddElement
    <3> QED
      BY <2>1, <1>8, <3>2
  <2>2. CASE h # g
    BY <2>2, <1>8, PlacesFinite
  <2> QED
    BY <2>1, <2>2
<1> QED
  BY <1>9, PlacesFinite DEF changed, longer

\* A list without its first chunk is one place less for that chunk: the places behind
\* it move up by one.
LEMMA PlacesOfTail ==
    ASSUME NEW h, NEW records \in FileRecords, NEW p \in Paths,
           records[p] \in Lists, records[p] # <<>>
    PROVE  References(h, records) = References(h, [records EXCEPT ![p] = Tail(@)])
             + IF h = Head(records[p]) THEN 1 ELSE 0
<1> DEFINE list == records[p]
           shorter == Tail(list)
           changed == [records EXCEPT ![p] = shorter]
           first == <<p, 1>>
           Before == Places(h, changed)
           After == Places(h, records) \ {first}
           up == [x \in Before |-> IF x[1] = p THEN <<p, x[2] + 1>> ELSE x]
<1>1. list \in Seq(Checksums) /\ Len(list) <= MaxChunks
  BY ListsAreSequences
<1>2. /\ Len(list) \in Nat /\ Len(list) >= 1 /\ DOMAIN list = 1 .. Len(list)
      /\ shorter \in Seq(Checksums) /\ Len(shorter) = Len(list) - 1
      /\ DOMAIN shorter = 1 .. Len(list) - 1
      /\ \A i \in 1 .. Len(list) - 1 : shorter[i] = list[i + 1]
      /\ Head(list) = list[1]
  BY <1>1, HeadTailProperties
<1>3. MaxChunks \in Nat
  BY DedupAssumption
<1>4. shorter \in Lists /\ shorter # Absent /\ list # Absent
  <2>1. Len(shorter) <= MaxChunks
    BY <1>1, <1>2, <1>3
  <2> HIDE DEF shorter
  <2> QED
    BY <2>1, <1>1, <1>2, ListsAreSequences, ListFacts
<1>5. \A r \in Paths : changed[r] = IF r = p THEN shorter ELSE records[r]
  BY DEF FileRecords
<1>6. Head(list) = list[1]
  BY <1>2
<1> HIDE DEF shorter, changed
<1>7. ASSUME NEW i
      PROVE  <<p, i>> \in Before <=> i \in 1 .. Len(list) - 1 /\ list[i + 1] = h
  <2>1. <<p, i>> \in Before <=> i \in 1 .. MaxChunks /\ i \in DOMAIN shorter /\ shorter[i] = h
    BY <1>4, <1>5, IsPlace
  <2> HIDE DEF list, Before
  <2> QED
    BY <2>1, <1>1, <1>2, <1>3
<1>8. ASSUME NEW i
      PROVE  <<p, i>> \in After <=> i \in 2 .. Len(list) /\ list[i] = h
  <2>1. <<p, i>> \in Places(h, records) <=> i \in 1 .. MaxChunks /\ i \in DOMAIN list /\ list[i] = h
    BY <1>4, IsPlace
  <2>2. <<p, i>> \in After <=> <<p, i>> \in Places(h, records) /\ i # 1
    OBVIOUS
  <2> HIDE DEF list, After
  <2> QED
    BY <2>1, <2>2, <1>1, <1>2, <1>3
<1>9. ASSUME NEW r \in Paths, NEW i, r # p
      PROVE  <<r, i>> \in Before <=> <<r, i>> \in After
  BY <1>9, <1>5, IsPlace
<1>10. \A x \in Before : x = <<x[1], x[2]>> /\ x[1] \in Paths /\ x[2] \in Nat
  BY PlacesArePairs, <1>3
<1>11. \A x \in After : x = <<x[1], x[2]>> /\ x[1] \in Paths /\ x[2] \in Nat
  BY PlacesArePairs, <1>3
<1>12. first \in Places(h, records) <=> h = Head(list)
  BY <1>2, <1>3, <1>4, <1>1, IsPlace
<1> HIDE DEF Before, After, list
<1>13. ASSUME NEW x \in Before PROVE up[x] \in After
  <2>1. CASE x[1] = p
    <3>1. <<p, x[2]>> \in Before
      BY <2>1, <1>10
    <3>2. x[2] \in 1 .. Len(list) - 1 /\ list[x[2] + 1] = h
      BY <3>1, <1>7
    <3>3. x[2] + 1 \in 2 .. Len(list)
      BY <3>2, <1>2
    <3>4. <<p, x[2] + 1>> \in After
      BY <3>2, <3>3, <1>8
    <3> QED
      BY <2>1, <3>4
  <2>2. CASE x[1] # p
    BY <2>2, <1>9, <1>10
  <2> QED
    BY <2>1, <2>2
<1>14. ASSUME NEW y \in After PROVE \E x \in Before : up[x] = y
  <2>1. CASE y[1] = p
    <3>1. <<p, y[2]>> \in After
      BY <2>1, <1>11
    <3>2. y[2] \in 2 .. Len(list) /\ list[y[2]] = h
      BY <3>1, <1>8
    <3>3. y[2] - 1 \in 1 .. Len(list) - 1 /\ (y[2] - 1) + 1 = y[2]
      BY <3>2, <1>2
    <3>4. <<p, y[2] - 1>> \in Before
      BY <3>2, <3>3, <1>7
    <3>5. up[<<p, y[2] - 1>>] = y
      BY <3>3, <3>4, <2>1, <1>11
    <3> QED
      BY <3>4, <3>5
  <2>2. CASE y[1] # p
    <3>1. y \in Before
      BY <2>2, <1>9, <1>11
    <3> QED
      BY <2>2, <3>1
  <2> QED
    BY <2>1, <2>2
<1>15. ASSUME NEW x \in Before, NEW y \in Before, up[x] = up[y] PROVE x = y
  <2>1. up[x][1] = x[1] /\ up[y][1] = y[1]
    OBVIOUS
  <2>2. CASE x[1] = p
    <3>1. up[x][2] = x[2] + 1 /\ up[y][2] = y[2] + 1
      BY <1>15, <2>1, <2>2
    <3>2. x[2] = y[2] /\ x[1] = y[1]
      BY <3>1, <2>1, <1>15, <1>10
    <3> QED
      BY <3>2, <1>10
  <2>3. CASE x[1] # p
    BY <2>1, <2>3, <1>15
  <2> QED
    BY <2>2, <2>3
<1>16. up \in [Before -> After]
  BY <1>13
<1>17. up \in Bijection(Before, After)
  <2> HIDE DEF up
  <2> QED
    BY <1>14, <1>15, <1>16 DEF Bijection, Injection, Surjection, IsInjective
<1>18. Cardinality(After) = Cardinality(Before)
  <2>1. ExistsBijection(Before, After)
    BY <1>17 DEF ExistsBijection
  <2>2. IsFiniteSet(Before)
    BY PlacesFinite DEF Before
  <2> QED
    BY <2>1, <2>2, FS_Bijection
<1>19. Cardinality(After) = Cardinality(Places(h, records)) - IF h = Head(list) THEN 1 ELSE 0
  <2>1. IsFiniteSet(Places(h, records)) /\ Cardinality(Places(h, records)) \in Nat
    BY PlacesFinite
  <2>2. Cardinality(Places(h, records) \ {first})
          = IF first \in Places(h, records) THEN Cardinality(Places(h, records)) - 1
            ELSE Cardinality(Places(h, records))
    BY <2>1, FS_RemoveElement
  <2> QED
    BY <2>1, <2>2, <1>12 DEF After
<1>20. References(h, records) = Cardinality(Places(h, records))
       /\ References(h, records) \in Nat /\ References(h, changed) \in Nat
       /\ References(h, changed) = Cardinality(Before)
  BY PlacesFinite DEF Before
<1>21. References(h, records) = References(h, changed) + IF h = Head(list) THEN 1 ELSE 0
  <2>1. CASE h = Head(list)
    BY <2>1, <1>18, <1>19, <1>20
  <2>2. CASE h # Head(list)
    <3>1. Cardinality(After) = Cardinality(Places(h, records)) - 0
      BY <2>2, <1>19
    <3>2. References(h, records) = References(h, changed)
      BY <3>1, <1>18, <1>20
    <3> QED
      BY <2>2, <3>2, <1>20
  <2> QED
    BY <2>1, <2>2
<1> QED
  BY <1>21 DEF changed, shorter, list
-----------------------------------------------------------------------------
(* The steps keep the invariant *)

RecordType == [refCount : Nat, backend : Backends]

LEMMA InitInv == Init => DedupInv
<1> SUFFICES ASSUME Init PROVE DedupInv
  OBVIOUS
<1> USE DEF Init, NoChunks, NoChunk, NoFiles, Idle
<1>1. NoChunk \in RecordType
  BY DEF RecordType, Backends
<1>2. ASSUME NEW h PROVE References(h, NoFiles) = 0
  <2>1. Places(h, NoFiles) = {}
    BY DEF Places
  <2> QED
    BY <2>1, FS_EmptySet DEF References
<1>3. TypeOK
  <2>1. NoChunks \in Records /\ NoFiles \in FileRecords
    BY <1>1 DEF Records, RecordType, FileRecords
  <2>2. stored \in [Backends -> SUBSET Checksums] /\ todo \in Lists /\ taken = {}
    BY ListFacts
  <2>3. cmd \in [op : {"none", "upload", "delete"}, path : Paths \cup {Absent},
                 backend : Backends]
    BY DEF Backends
  <2> QED
    BY <2>1, <2>2, <2>3 DEF TypeOK
<1>4. RefCountsExact
  BY <1>2 DEF RefCountsExact
<1>5. UploadInv /\ DeleteInv
  BY DEF UploadInv, DeleteInv
<1>6. StoredInv
  BY DEF StoredInv, Recorded
<1>7. StoredUploads
  BY DEF StoredUploads
<1> QED
  BY <1>3, <1>4, <1>5, <1>6, <1>7 DEF DedupInv

\* The parts of the invariant, as the steps use them.
LEMMA RecordTypes ==
    ASSUME TypeOK
    PROVE  /\ \A h \in Checksums : chunks[h] \in RecordType /\ disk.chunks[h] \in RecordType
           /\ \A p \in Paths : files[p] \in Lists \cup {Absent}
           /\ \A p \in Paths : disk.files[p] \in Lists \cup {Absent}
           /\ disk = [chunks |-> disk.chunks, files |-> disk.files]
           /\ disk.chunks \in Records /\ disk.files \in FileRecords
BY DEF TypeOK, Records, FileRecords, RecordType

LEMMA StartUploadKeeps ==
    ASSUME DedupInv, NEW p \in Paths, NEW content \in Uploads, NEW b \in Backends,
           StartUpload(p, content, b)
    PROVE  DedupInv'
<1> USE DEF DedupInv, StartUpload, Start
<1>1. content \in Lists /\ <<>> \in Lists /\ content \in Seq(Checksums) /\ Absent \notin Lists
  BY ListFacts, ListsAreSequences
<1>2. disk.files \in FileRecords /\ disk.chunks \in Records
  BY RecordTypes
<1>3. /\ files' \in FileRecords
      /\ disk.files[p] = Absent =>
            files' = [disk.files EXCEPT ![p] = <<>>] /\ files'[p] = <<>> /\ todo' = content
      /\ disk.files[p] # Absent => files' = disk.files /\ todo' = <<>>
  BY <1>1, <1>2 DEF insertFileRecord, FileRecords
<1>4. TypeOK'
  BY <1>1, <1>2, <1>3 DEF TypeOK
<1>5. RefCountsExact'
  <2> SUFFICES ASSUME NEW h \in Checksums
               PROVE  disk.chunks[h].refCount = References(h, files')
    BY <1>4 DEF RefCountsExact
  <2>1. disk.chunks[h].refCount = References(h, disk.files)
    BY DEF RefCountsExact
  <2>2. CASE disk.files[p] = Absent
    <3>1. References(h, [disk.files EXCEPT ![p] = <<>>]) = References(h, disk.files)
      BY <2>2, <1>2, PlacesOfNothing
    <3> QED
      BY <3>1, <2>1, <2>2, <1>3
  <2> QED
    BY <2>1, <2>2, <1>3
<1>6. UploadInv'
  <2>1. <<>> \o content = content
    BY <1>1
  <2> QED
    BY <2>1, <1>1, <1>3 DEF UploadInv, Recorded, Known
<1>7. DeleteInv'
  BY DEF DeleteInv
<1>8. StoredInv'
  BY DEF StoredInv, Recorded, Known, Removed, Idle
<1>9. StoredUploads'
  BY DEF StoredUploads
<1> QED
  BY <1>4, <1>5, <1>6, <1>7, <1>8, <1>9

LEMMA StartDeleteKeeps ==
    ASSUME DedupInv, NEW p \in Paths, StartDelete(p)
    PROVE  DedupInv'
<1> USE DEF DedupInv, StartDelete, Start
<1>1. <<>> \in Lists /\ Absent \notin Lists
  BY ListFacts
<1>2. disk.files \in FileRecords /\ disk.chunks \in Records
      /\ disk.files[p] \in Lists \cup {Absent}
  BY RecordTypes
<1>3. TypeOK'
  BY <1>1, <1>2 DEF TypeOK, Backends
<1>4. RefCountsExact'
  <2>1. disk.files[p] # Absent => [disk.files EXCEPT ![p] = todo'] = disk.files
    BY <1>2 DEF FileRecords
  <2> QED
    BY <2>1 DEF RefCountsExact
<1>5. UploadInv'
  BY DEF UploadInv
<1>6. DeleteInv'
  BY DEF DeleteInv, Recorded, Known
<1>7. StoredInv'
  BY DEF StoredInv, Recorded, Known, Removed, Idle
<1>8. StoredUploads'
  BY DEF StoredUploads
<1> QED
  BY <1>3, <1>4, <1>5, <1>6, <1>7, <1>8

LEMMA UploadChunkKeeps == ASSUME DedupInv, UploadChunk PROVE DedupInv'
<1> DEFINE g == Head(todo)
           p == cmd.path
<1> USE DEF DedupInv
<1>1. /\ cmd.op = "upload" /\ todo # <<>> /\ todo' = Tail(todo)
      /\ files' = [files EXCEPT ![p] = Append(@, g)]
      /\ chunks' = [chunks EXCEPT ![g] = Counted(@, cmd.backend)]
      /\ stored' = IF Known(g) THEN stored ELSE [stored EXCEPT ![cmd.backend] = @ \cup {g}]
      /\ disk' = disk /\ cmd' = cmd /\ taken' = taken
  BY DEF UploadChunk
<1>2. /\ p \in Paths /\ disk.files[p] = Absent /\ files[p] \in Lists
      /\ files[p] \o todo \in Uploads
      /\ files = [disk.files EXCEPT ![p] = files[p]]
  BY <1>1 DEF UploadInv
<1>3. /\ todo \in Seq(Checksums) /\ files[p] \in Seq(Checksums)
      /\ Len(files[p] \o todo) <= MaxChunks
  BY <1>2, ListFacts, ListsAreSequences DEF TypeOK
<1>4. /\ g \in Checksums /\ Tail(todo) \in Seq(Checksums)
      /\ Len(Tail(todo)) = Len(todo) - 1 /\ Len(todo) >= 1
  BY <1>1, <1>3, HeadTailProperties
<1>5. Len(files[p]) < MaxChunks /\ Len(todo) <= MaxChunks /\ MaxChunks \in Nat
  BY <1>3, <1>4, DedupAssumption
<1>6. Tail(todo) \in Lists
  <2>1. Len(Tail(todo)) <= MaxChunks
    BY <1>4, <1>5, <1>3
  <2> QED
    BY <2>1, <1>4, ListsAreSequences
<1>7. Append(files[p], g) \in Seq(Checksums) /\ Len(Append(files[p], g)) = Len(files[p]) + 1
  BY <1>3, <1>4, AppendProperties
<1>8. Append(files[p], g) \in Lists
  <2>1. Len(Append(files[p], g)) <= MaxChunks
    BY <1>5, <1>7, <1>3
  <2> QED
    BY <2>1, <1>7, ListsAreSequences
<1>9. Append(files[p], g) \o Tail(todo) = files[p] \o todo
  BY <1>1, <1>3, <1>4, SMTT(30)
<1>10. /\ files \in FileRecords /\ chunks \in Records /\ cmd.backend \in Backends
       /\ stored \in [Backends -> SUBSET Checksums]
  BY DEF TypeOK
<1>11. /\ \A h \in Checksums : chunks[h] \in RecordType /\ disk.chunks[h] \in RecordType
  BY RecordTypes
<1>12. /\ Counted(chunks[g], cmd.backend).refCount = chunks[g].refCount + 1
       /\ Counted(chunks[g], cmd.backend).backend
            = IF Known(g) THEN chunks[g].backend ELSE cmd.backend
       /\ Counted(chunks[g], cmd.backend) \in RecordType
  BY <1>4, <1>10, <1>11 DEF Counted, RecordType, Known
<1>13. \A h \in Checksums : chunks'[h] = IF h = g THEN Counted(chunks[g], cmd.backend) ELSE chunks[h]
  BY <1>1, <1>4, <1>10 DEF Records
<1>14. files'[p] = Append(files[p], g)
  BY <1>1, <1>2, <1>10 DEF FileRecords
<1>15. \A h \in Checksums : Known(h) => Known(h)' /\ chunks'[h].backend = chunks[h].backend
  BY <1>11, <1>12, <1>13 DEF Known, RecordType
<1> HIDE DEF DedupInv, g, p
<1>16. TypeOK'
  <2>1. files' \in FileRecords
    BY <1>1, <1>8, <1>10 DEF FileRecords
  <2>2. chunks' \in Records
    BY <1>1, <1>12, <1>10 DEF Records, RecordType
  <2>3. stored' \in [Backends -> SUBSET Checksums]
    BY <1>1, <1>4, <1>10
  <2> QED
    BY <2>1, <2>2, <2>3, <1>1, <1>6 DEF TypeOK, DedupInv
<1>17. RefCountsExact'
  <2>1. ASSUME NEW h \in Checksums
        PROVE  chunks'[h].refCount = References(h, files')
    <3>1. References(h, files') = References(h, files) + IF h = g THEN 1 ELSE 0
      <4>1. References(h, [files EXCEPT ![p] = Append(@, g)])
              = References(h, files) + IF h = g THEN 1 ELSE 0
        BY <1>2, <1>4, <1>5, <1>10, PlacesOfAppend
      <4> QED
        BY <4>1, <1>1
    <3>2. chunks[h].refCount = References(h, files) /\ References(h, files) \in Nat
      BY <1>1, PlacesFinite DEF RefCountsExact, DedupInv
    <3>3. CASE h = g
      BY <3>1, <3>2, <3>3, <1>12, <1>13
    <3>4. CASE h # g
      BY <3>1, <3>2, <3>4, <1>13
    <3> QED
      BY <3>3, <3>4
  <2> QED
    BY <2>1, <1>1 DEF RefCountsExact, DedupInv
<1>18. UploadInv'
  <2>1. files' = [disk.files EXCEPT ![p] = files'[p]]
    BY <1>1, <1>2, <1>14
  <2>2. files'[p] \in Lists /\ files'[p] \o todo' \in Uploads
    BY <1>1, <1>2, <1>8, <1>9, <1>14
  <2>3. \A h \in Checksums : Recorded(h) =>
              Known(h)' /\ chunks'[h].backend = disk.chunks[h].backend
    BY <1>1, <1>15 DEF DedupInv, UploadInv
  <2> QED
    BY <2>1, <2>2, <2>3, <1>1, <1>2 DEF UploadInv, Recorded, p
<1>19. DeleteInv'
  BY <1>1 DEF DeleteInv
<1>20. StoredInv'
  <2>1. Removed = {} /\ Removed' = {}
    BY <1>1 DEF Removed
  <2>2. \A b \in Backends : stored[b] \subseteq stored'[b]
    BY <1>1, <1>10
  <2>3. ASSUME NEW h \in Checksums, Recorded(h)
        PROVE  h \in stored'[disk.chunks[h].backend] \/ h \in taken
    BY <2>1, <2>2, <2>3, <1>11 DEF DedupInv, StoredInv, RecordType
  <2>4. ASSUME NEW h \in Checksums, Known(h)'
        PROVE  h \in stored'[chunks'[h].backend] \/ h \in taken
    <3>1. CASE Known(h)
      BY <3>1, <2>2, <1>1, <1>11, <1>15 DEF DedupInv, StoredInv, RecordType
    <3>2. CASE ~ Known(h)
      <4>1. h = g
        BY <3>2, <2>4, <1>13 DEF Known
      <4>2. chunks'[h].backend = cmd.backend
        BY <4>1, <3>2, <1>4, <1>12, <1>13
      <4> QED
        BY <4>1, <4>2, <3>2, <1>1, <1>10
    <3> QED
      BY <3>1, <3>2
  <2> QED
    BY <2>1, <2>3, <2>4, <1>1 DEF StoredInv, Recorded
<1>21. StoredUploads'
  BY <1>1 DEF StoredUploads, DedupInv
<1> QED
  BY <1>16, <1>17, <1>18, <1>19, <1>20, <1>21 DEF DedupInv

LEMMA DeleteChunkKeeps == ASSUME DedupInv, DeleteChunk PROVE DedupInv'
<1> DEFINE g == Head(todo)
           p == cmd.path
           b == chunks[g].backend
           last == LastReference(chunks[g])
           handled == [files EXCEPT ![p] = todo]
<1> USE DEF DedupInv
<1>1. /\ cmd.op = "delete" /\ todo # <<>> /\ todo' = Tail(todo)
      /\ disk' = disk /\ files' = files /\ cmd' = cmd /\ taken' = taken
  BY DEF DeleteChunk
<1>2. p \in Paths /\ files = disk.files /\ files[p] # Absent
  BY <1>1 DEF DeleteInv
<1>3. todo \in Seq(Checksums) /\ Len(todo) <= MaxChunks /\ todo \in Lists
  BY ListsAreSequences DEF TypeOK
<1>4. /\ g \in Checksums /\ Tail(todo) \in Seq(Checksums)
      /\ Len(Tail(todo)) = Len(todo) - 1 /\ Len(todo) >= 1
  BY <1>1, <1>3, HeadTailProperties
<1>5. Tail(todo) \in Lists
  <2>1. Len(Tail(todo)) <= MaxChunks
    BY <1>3, <1>4, DedupAssumption
  <2> QED
    BY <2>1, <1>4, ListsAreSequences
<1>6. /\ files \in FileRecords /\ chunks \in Records
      /\ stored \in [Backends -> SUBSET Checksums]
  BY DEF TypeOK
<1>7. \A h \in Checksums : chunks[h] \in RecordType /\ disk.chunks[h] \in RecordType
  BY RecordTypes
<1>8. handled \in FileRecords /\ handled[p] = todo
      /\ [handled EXCEPT ![p] = Tail(@)] = [files EXCEPT ![p] = Tail(todo)]
  BY <1>2, <1>3, <1>6 DEF FileRecords
<1>9. \A h \in Checksums : chunks[h].refCount = References(h, handled)
  BY <1>1, <1>2 DEF RefCountsExact
<1> HIDE DEF handled
<1>10. ASSUME NEW h \in Checksums
       PROVE  /\ chunks[h].refCount = References(h, [files EXCEPT ![p] = Tail(todo)])
                                        + IF h = g THEN 1 ELSE 0
              /\ References(h, [files EXCEPT ![p] = Tail(todo)]) \in Nat
  <2>1. References(h, handled) = References(h, [handled EXCEPT ![p] = Tail(@)])
                                   + IF h = Head(handled[p]) THEN 1 ELSE 0
    <3>1. p \in Paths /\ handled[p] \in Lists /\ handled[p] # <<>> /\ handled \in FileRecords
      BY <1>1, <1>2, <1>3, <1>8
    <3> HIDE DEF p
    <3> QED
      BY <3>1, PlacesOfTail
  <2>2. References(h, handled) = References(h, [files EXCEPT ![p] = Tail(todo)])
                                   + IF h = g THEN 1 ELSE 0
    BY <2>1, <1>8
  <2> QED
    BY <2>2, <1>9, PlacesFinite
<1>11. Known(g) /\ chunks[g].refCount >= 1
  BY <1>4, <1>10 DEF Known
<1>12. /\ last => /\ stored' = [stored EXCEPT ![b] = @ \ {g}]
                  /\ chunks' = [chunks EXCEPT ![g] = NoChunk]
       /\ ~ last => /\ stored' = stored
                    /\ chunks' = [chunks EXCEPT ![g].refCount = @ - 1]
  BY <1>11 DEF DeleteChunk
<1>13. /\ chunks' \in Records
       /\ \A h \in Checksums : h # g => chunks'[h] = chunks[h]
       /\ chunks'[g].refCount = chunks[g].refCount - 1
       /\ ~ last => chunks'[g].backend = chunks[g].backend
       /\ last <=> chunks'[g].refCount = 0
  <2>1. chunks[g] \in RecordType
    BY <1>4, <1>7
  <2>2. CASE last
    <3>1. chunks' = [chunks EXCEPT ![g] = NoChunk] /\ chunks[g].refCount = 1
      BY <2>2, <1>12 DEF LastReference
    <3>2. NoChunk \in RecordType /\ NoChunk.refCount = 0
      BY DEF NoChunk, RecordType, Backends
    <3> HIDE DEF g, last
    <3> QED
      BY <2>2, <3>1, <3>2, <1>4, <1>6 DEF Records, RecordType
  <2>3. CASE ~ last
    BY <2>1, <2>3, <1>4, <1>6, <1>11, <1>12 DEF Records, RecordType, LastReference
  <2> QED
    BY <2>2, <2>3
<1>14. b \in Backends
  BY <1>4, <1>7 DEF RecordType
<1>15. \A h \in Checksums : Known(h)' <=> Known(h) /\ ~ (h = g /\ last)
  BY <1>11, <1>13 DEF Known
<1> HIDE DEF DedupInv, g, p, b, last
<1>16. TypeOK'
  <2>1. stored' \in [Backends -> SUBSET Checksums]
    BY <1>6, <1>12, <1>14
  <2> QED
    BY <2>1, <1>1, <1>5, <1>13 DEF TypeOK, DedupInv
<1>17. RefCountsExact'
  <2>1. ASSUME NEW h \in Checksums
        PROVE  chunks'[h].refCount = References(h, [files EXCEPT ![p] = Tail(todo)])
    <3>1. CASE h = g
      <4>1. chunks[g].refCount = References(g, [files EXCEPT ![p] = Tail(todo)]) + 1
            /\ References(g, [files EXCEPT ![p] = Tail(todo)]) \in Nat
        BY <1>4, <1>10
      <4> QED
        BY <3>1, <4>1, <1>13
    <3>2. CASE h # g
      <4>1. chunks[h].refCount = References(h, [files EXCEPT ![p] = Tail(todo)]) + 0
            /\ References(h, [files EXCEPT ![p] = Tail(todo)]) \in Nat
        BY <3>2, <1>10
      <4> QED
        BY <3>2, <4>1, <1>13
    <3> QED
      BY <3>1, <3>2
  <2> QED
    BY <2>1, <1>1 DEF RefCountsExact, DedupInv, p
<1>18. UploadInv'
  BY <1>1 DEF UploadInv
<1>19. DeleteInv'
  <2>1. \A h \in Checksums : Known(h)' => Recorded(h) /\ chunks'[h].backend = disk.chunks[h].backend
    BY <1>1, <1>13, <1>15 DEF DedupInv, DeleteInv
  <2> QED
    BY <2>1, <1>1, <1>2 DEF DeleteInv, Recorded, p
<1>20. StoredInv'
  <2>1. \A h \in Removed : h \in Removed'
    BY <1>1, <1>15 DEF Removed
  <2>2. ASSUME NEW h \in Checksums, ~ (h = g /\ last), NEW c \in Backends, h \in stored[c]
        PROVE  h \in stored'[c]
    BY <2>2, <1>6, <1>12, <1>14
  <2>3. ASSUME NEW h \in Checksums, Recorded(h)
        PROVE  h \in stored'[disk.chunks[h].backend] \/ h \in taken \cup Removed'
    <3>1. CASE h = g /\ last
      BY <3>1, <2>3, <1>1, <1>15 DEF Removed, Recorded
    <3>2. CASE ~ (h = g /\ last)
      BY <3>2, <2>1, <2>2, <2>3, <1>7 DEF DedupInv, StoredInv, RecordType
    <3> QED
      BY <3>1, <3>2
  <2>4. ASSUME NEW h \in Checksums, Known(h)'
        PROVE  h \in stored'[chunks'[h].backend] \/ h \in taken
    <3>1. Known(h) /\ ~ (h = g /\ last)
      BY <2>4, <1>15
    <3>2. chunks'[h].backend = chunks[h].backend
      BY <3>1, <1>13
    <3>3. h \in stored[chunks[h].backend] \/ h \in taken
      BY <3>1, <1>1 DEF DedupInv, StoredInv
    <3> QED
      BY <3>1, <3>2, <3>3, <2>2, <1>7 DEF RecordType
  <2> QED
    BY <2>3, <2>4, <1>1 DEF StoredInv, Recorded
<1>21. StoredUploads'
  BY <1>1 DEF StoredUploads, DedupInv
<1> QED
  BY <1>16, <1>17, <1>18, <1>19, <1>20, <1>21 DEF DedupInv

LEMMA UpdateKeeps == ASSUME DedupInv, Update PROVE DedupInv'
<1> USE DEF DedupInv
<1>1. /\ cmd.op \in {"upload", "delete"} /\ cmd.path \in Paths /\ todo = <<>> /\ todo' = todo
      /\ disk'.chunks = chunks
      /\ disk'.files = IF cmd.op = "delete" THEN [files EXCEPT ![cmd.path] = Absent] ELSE files
      /\ disk' = [chunks |-> disk'.chunks, files |-> disk'.files]
      /\ chunks' = NoChunks /\ files' = NoFiles /\ cmd' = Idle /\ stored' = stored
      /\ taken' = {h \in taken : Known(h)}
  BY DEF Update, TypeOK, UploadInv, DeleteInv
<1>2. /\ files \in FileRecords /\ chunks \in Records /\ disk.files \in FileRecords
      /\ taken \subseteq Checksums
  BY DEF TypeOK
<1>3. cmd'.op = "none"
  BY <1>1 DEF Idle
<1>4. disk'.files \in FileRecords
  BY <1>1, <1>2 DEF FileRecords
<1>5. TypeOK'
  <2>1. NoChunks \in Records /\ NoFiles \in FileRecords
    BY DEF Records, FileRecords, NoChunks, NoChunk, NoFiles, Backends
  <2>2. disk' \in [chunks : Records, files : FileRecords]
    BY <1>1, <1>2, <1>4
  <2>3. Idle \in [op : {"none", "upload", "delete"}, path : Paths \cup {Absent},
                  backend : Backends]
    BY DEF Idle, Backends
  <2>4. taken' \subseteq {h \in Checksums : disk'.chunks[h].refCount # 0}
    BY <1>1, <1>2 DEF Known
  <2> QED
    BY <2>1, <2>2, <2>3, <2>4, <1>1 DEF TypeOK
<1>6. RefCountsExact'
  <2> SUFFICES ASSUME NEW h \in Checksums
               PROVE  chunks[h].refCount = References(h, disk'.files)
    BY <1>1, <1>3 DEF RefCountsExact
  <2>1. CASE cmd.op = "upload"
    BY <2>1, <1>1 DEF RefCountsExact
  <2>2. CASE cmd.op = "delete" /\ files[cmd.path] = Absent
    <3>1. files = disk.files /\ chunks = disk.chunks
      BY <2>2 DEF DeleteInv
    <3>2. [files EXCEPT ![cmd.path] = Absent] = files
      BY <2>2, <1>1, <1>2 DEF FileRecords
    <3> QED
      BY <3>1, <3>2, <2>2, <1>1 DEF RefCountsExact
  <2>3. CASE cmd.op = "delete" /\ files[cmd.path] # Absent
    <3> DEFINE handled == [files EXCEPT ![cmd.path] = <<>>]
    <3>1. chunks[h].refCount = References(h, handled)
      BY <2>3, <1>1 DEF RefCountsExact
    <3>2. handled \in FileRecords /\ handled[cmd.path] = <<>>
          /\ [handled EXCEPT ![cmd.path] = Absent] = [files EXCEPT ![cmd.path] = Absent]
      BY <1>1, <1>2, ListFacts DEF FileRecords
    <3> HIDE DEF handled
    <3>3. References(h, [handled EXCEPT ![cmd.path] = Absent]) = References(h, handled)
      BY <3>2, <1>1, PlacesOfNothing
    <3> QED
      BY <3>1, <3>2, <3>3, <2>3, <1>1
  <2> QED
    BY <2>1, <2>2, <2>3, <1>1
<1>7. UploadInv' /\ DeleteInv'
  BY <1>3 DEF UploadInv, DeleteInv
<1>8. StoredInv'
  <2>1. ASSUME NEW h \in Checksums, Known(h)
        PROVE  h \in stored[chunks[h].backend] \/ h \in taken'
    BY <2>1, <1>1 DEF StoredInv
  <2> QED
    BY <2>1, <1>1, <1>3 DEF StoredInv, Recorded, Known
<1>9. StoredUploads'
  <2>1. CASE cmd.op = "delete"
    BY <2>1, <1>1, <1>2 DEF StoredUploads, FileRecords, DeleteInv
  <2>2. CASE cmd.op = "upload" /\ disk.files[cmd.path] = Absent
    <3>1. files[cmd.path] \in Lists /\ files[cmd.path] \o <<>> \in Uploads
          /\ files = [disk.files EXCEPT ![cmd.path] = files[cmd.path]]
      BY <2>2, <1>1 DEF UploadInv
    <3>2. files[cmd.path] \o <<>> = files[cmd.path]
      BY <3>1, ListsAreSequences
    <3>3. files[cmd.path] \in Uploads
      BY <3>1, <3>2
    <3>4. \A p \in Paths : files[p] = IF p = cmd.path THEN files[cmd.path] ELSE disk.files[p]
      BY <3>1, <1>2 DEF FileRecords
    <3> QED
      BY <2>2, <3>3, <3>4, <1>1 DEF StoredUploads
  <2>3. CASE cmd.op = "upload" /\ disk.files[cmd.path] # Absent
    BY <2>3, <1>1 DEF StoredUploads, UploadInv
  <2> QED
    BY <2>1, <2>2, <2>3, <1>1
<1> QED
  BY <1>5, <1>6, <1>7, <1>8, <1>9

LEMMA InterruptKeeps == ASSUME DedupInv, Interrupt PROVE DedupInv'
<1> USE DEF DedupInv, Interrupt
<1>1. cmd'.op = "none"
  BY DEF Idle
<1>2. TypeOK'
  <2>1. NoChunks \in Records /\ NoFiles \in FileRecords
    BY DEF Records, FileRecords, NoChunks, NoChunk, NoFiles, Backends
  <2>2. Idle \in [op : {"none", "upload", "delete"}, path : Paths \cup {Absent},
                  backend : Backends]
    BY DEF Idle, Backends
  <2>3. taken' \subseteq {h \in Checksums : disk.chunks[h].refCount # 0}
    BY DEF TypeOK, Removed
  <2> QED
    BY <2>1, <2>2, <2>3, ListFacts DEF TypeOK
<1>3. RefCountsExact'
  BY <1>1 DEF RefCountsExact
<1>4. UploadInv' /\ DeleteInv'
  BY <1>1 DEF UploadInv, DeleteInv
<1>5. StoredInv'
  BY <1>1 DEF StoredInv, Recorded
<1>6. StoredUploads'
  BY DEF StoredUploads
<1> QED
  BY <1>2, <1>3, <1>4, <1>5, <1>6

LEMMA StepInv == DedupInv /\ [Next]_vars => DedupInv'
<1> SUFFICES ASSUME DedupInv, [Next]_vars PROVE DedupInv'
  OBVIOUS
<1>1. CASE \E p \in Paths, content \in Uploads, b \in Backends : StartUpload(p, content, b)
  BY <1>1, StartUploadKeeps
<1>2. CASE \E p \in Paths : StartDelete(p)
  BY <1>2, StartDeleteKeeps
<1>3. CASE UploadChunk
  BY <1>3, UploadChunkKeeps
<1>4. CASE DeleteChunk
  BY <1>4, DeleteChunkKeeps
<1>5. CASE Update
  BY <1>5, UpdateKeeps
<1>6. CASE Interrupt
  BY <1>6, InterruptKeeps
<1>7. CASE UNCHANGED vars
  BY <1>7 DEF vars, DedupInv, TypeOK, RefCountsExact, UploadInv, DeleteInv, StoredInv,
     StoredUploads, Recorded, Known, Removed
<1> QED
  BY <1>1, <1>2, <1>3, <1>4, <1>5, <1>6, <1>7 DEF Next

\* The invariant holds in every reachable state.
THEOREM DedupInvariant == Spec => []DedupInv
BY InitInv, StepInv, PTL DEF Spec

\* Records, lists and the command have their types, and only chunks that mydedup.meta
\* has are held to be removed.
THEOREM DedupTypes == Spec => []TypeOK
<1>1. DedupInv => TypeOK
  BY DEF DedupInv
<1> QED
  BY <1>1, DedupInvariant, PTL

\* The count of a chunk is the number of places that refer to it, on disk and in the
\* memory of the command that runs, whatever was uploaded, deleted or killed.
THEOREM CountsAreExact == Spec => []RefCountsExact
<1>1. DedupInv => RefCountsExact
  BY DEF DedupInv
<1> QED
  BY <1>1, DedupInvariant, PTL
-----------------------------------------------------------------------------
(* The store implements FileStore *)

\* But for what a delete that was cut off has removed, download gives back the chunk
\* list of the file record.
AllVisible == \A p \in Paths : visible(p) = disk.files[p]

LEMMA VisibleIsStored == DedupInv => AllVisible
<1> SUFFICES ASSUME DedupInv, NEW p \in Paths PROVE visible(p) = disk.files[p]
  BY DEF AllVisible
<1> DEFINE list == disk.files[p]
           given == download(p)
           Excused(i) == given[i] = Lost /\ list[i] \in taken \cup Removed
<1>1. list \in Lists \cup {Absent} /\ disk.files \in FileRecords
  BY RecordTypes DEF DedupInv
<1>2. CASE list = Absent
  BY <1>2 DEF visible
<1>3. CASE list # Absent
  <2>1. list \in Seq(Checksums) /\ Len(list) <= MaxChunks /\ DOMAIN list = 1 .. Len(list)
    BY <1>1, <1>3, ListsAreSequences
  <2>2. ASSUME NEW i \in DOMAIN list
        PROVE  (IF Excused(i) THEN list[i] ELSE given[i]) = list[i]
    <3>1. list[i] \in Checksums /\ i \in 1 .. MaxChunks
      BY <2>1, DedupAssumption
    <3>2. <<p, i>> \in Places(list[i], disk.files)
      BY <3>1, <1>3, IsPlace
    <3>3. References(list[i], disk.files) # 0
      BY <3>2, PlacesFinite, FS_EmptySet
    <3>4. Recorded(list[i])
      BY <3>1, <3>3 DEF DedupInv, RefCountsExact, Recorded
    <3>5. list[i] \in stored[disk.chunks[list[i]].backend] \/ list[i] \in taken \cup Removed
      BY <3>1, <3>4 DEF DedupInv, StoredInv
    <3>6. given[i] = IF list[i] \in stored[disk.chunks[list[i]].backend] THEN list[i] ELSE Lost
      BY <3>4 DEF download, Recorded
    <3> HIDE DEF given, list
    <3> QED
      BY <3>5, <3>6
  <2>3. visible(p) = [i \in DOMAIN list |-> IF Excused(i) THEN list[i] ELSE given[i]]
    BY <1>3 DEF visible
  <2>4. list = [i \in DOMAIN list |-> list[i]]
    BY <2>1
  <2> HIDE DEF given, list, Excused
  <2>5. visible(p) = list
    BY <2>2, <2>3, <2>4
  <2> QED
    BY <2>5 DEF list
<1> QED
  BY <1>2, <1>3

\* A step stores one uploaded list at one new path, or gives one path up, or changes
\* nothing that download gives back.
LEMMA StepRefines ==
    DedupInv /\ AllVisible /\ AllVisible' /\ [Next]_vars =>
        [L!Next]_[p \in Paths |-> visible(p)]
<1> SUFFICES ASSUME DedupInv, AllVisible, AllVisible', [Next]_vars
             PROVE  [L!Next]_[p \in Paths |-> visible(p)]
  OBVIOUS
<1> DEFINE contents == [p \in Paths |-> visible(p)]
<1>1. disk.files \in FileRecords /\ files \in FileRecords
  BY DEF DedupInv, TypeOK
<1>2. contents = disk.files
  BY <1>1 DEF AllVisible, FileRecords
<1>3. contents' = [p \in Paths |-> disk'.files[p]]
  BY DEF AllVisible
<1>4. CASE disk' = disk
  BY <1>1, <1>2, <1>3, <1>4 DEF FileRecords
<1>5. CASE Update
  <2> DEFINE path == cmd.path
  <2>1. /\ cmd.op \in {"upload", "delete"} /\ path \in Paths /\ todo = <<>>
        /\ disk'.files = IF cmd.op = "delete" THEN [files EXCEPT ![path] = Absent] ELSE files
    BY <1>5 DEF Update, DedupInv, TypeOK, UploadInv, DeleteInv
  <2>2. contents' = disk'.files
    BY <2>1, <1>1, <1>3 DEF FileRecords
  <2>3. CASE cmd.op = "delete" /\ files[path] = Absent
    <3>1. files = disk.files /\ [files EXCEPT ![path] = Absent] = files
      BY <2>1, <2>3, <1>1 DEF DedupInv, DeleteInv, FileRecords
    <3> QED
      BY <3>1, <2>1, <2>2, <2>3, <1>2
  <2>4. CASE cmd.op = "delete" /\ files[path] # Absent
    <3>1. files = disk.files
      BY <2>4 DEF DedupInv, DeleteInv
    <3>2. contents[path] # Absent /\ contents' = [contents EXCEPT ![path] = Absent]
      BY <3>1, <2>1, <2>2, <2>4, <1>2
    <3>3. L!Delete(path)
      BY <3>2 DEF L!Delete
    <3> QED
      BY <3>3, <2>1 DEF L!Next
  <2>5. CASE cmd.op = "upload" /\ disk.files[path] # Absent
    <3>1. files = disk.files
      BY <2>5 DEF DedupInv, UploadInv
    <3> QED
      BY <3>1, <2>1, <2>2, <2>5, <1>2
  <2>6. CASE cmd.op = "upload" /\ disk.files[path] = Absent
    <3>1. files[path] \in Lists /\ files[path] \o <<>> \in Uploads
          /\ files = [disk.files EXCEPT ![path] = files[path]]
      BY <2>1, <2>6 DEF DedupInv, UploadInv
    <3>2. files[path] \in Uploads
      BY <3>1, ListsAreSequences
    <3>3. contents[path] = Absent /\ contents' = [contents EXCEPT ![path] = files[path]]
      BY <3>1, <2>1, <2>2, <2>6, <1>2
    <3>4. L!Upload(path, files[path])
      BY <3>3 DEF L!Upload
    <3> QED
      BY <3>2, <3>4, <2>1 DEF L!Next
  <2> QED
    BY <2>1, <2>3, <2>4, <2>5, <2>6
<1> QED
  BY <1>4, <1>5
  DEF Next, vars, StartUpload, StartDelete, Start, UploadChunk, DeleteChunk, Interrupt

LEMMA InitRefines == Init => L!Init
<1> SUFFICES ASSUME Init PROVE L!Init
  OBVIOUS
<1>1. \A p \in Paths : visible(p) = Absent
  BY DEF Init, NoFiles, visible
<1> QED
  BY <1>1 DEF L!Init

\* Deduplication is invisible: whatever files share chunks, and whatever commands are
\* killed, every path holds the chunk list that was uploaded to it until it is deleted,
\* and no command on one path changes another.
THEOREM StoreKeepsLists == Spec => L!Spec
<1>1. Spec => [](DedupInv /\ AllVisible)
  BY DedupInvariant, VisibleIsStored, PTL
<1> QED
  BY <1>1, InitRefines, StepRefines, PTL DEF Spec, L!Spec

-----------------------------------------------------------------------------
(* Chunks put together *)

\* The recursive definition of FlattenSeq has a value.
LEMMA FlattenIs ==
    ASSUME NEW list \in Seq(Seq(Int)), list # <<>>
    PROVE  \E f : /\ f \in [1 .. Len(list) -> Seq(Int)]
                  /\ f[1] = list[1]
                  /\ \A i \in 1 .. Len(list) - 1 : f[i + 1] = f[i] \o list[i + 1]
                  /\ FlattenSeq(list) = f[Len(list)]
<1> DEFINE n == Len(list)
           Good(f, k) == /\ f \in [1 .. k -> Seq(Int)]
                         /\ \A i \in 1 .. k : f[i] = IF i = 1 THEN list[1] ELSE f[i - 1] \o list[i]
           G == {k \in Nat : k <= n => \E f : Good(f, k)}
<1>1. n \in Nat /\ n >= 1 /\ \A i \in 1 .. n : list[i] \in Seq(Int)
  OBVIOUS
<1> HIDE DEF n
<1>2. Good([i \in 1 .. 0 |-> <<>>], 0)
  OBVIOUS
<1>3. ASSUME NEW k \in Nat, NEW f, Good(f, k), k + 1 <= n
      PROVE  \E g : Good(g, k + 1)
  <2> DEFINE e == IF k = 0 THEN list[1] ELSE f[k] \o list[k + 1]
             g == [i \in 1 .. k + 1 |-> IF i = k + 1 THEN e ELSE f[i]]
  <2>1. e \in Seq(Int)
    BY <1>1, <1>3
  <2>2. g \in [1 .. k + 1 -> Seq(Int)]
    BY <1>3, <2>1
  <2>3. \A i \in 1 .. k : g[i] = f[i]
    OBVIOUS
  <2>4. g[k + 1] = e
    OBVIOUS
  <2> HIDE DEF g
  <2>5. ASSUME NEW i \in 1 .. k + 1
        PROVE  g[i] = IF i = 1 THEN list[1] ELSE g[i - 1] \o list[i]
    <3>1. CASE i \in 1 .. k
      <4>1. f[i] = IF i = 1 THEN list[1] ELSE f[i - 1] \o list[i]
        BY <1>3, <3>1
      <4>2. g[i] = f[i] /\ (i # 1 => g[i - 1] = f[i - 1])
        BY <2>3, <3>1
      <4> QED
        BY ONLY <4>1, <4>2
    <3>2. CASE i = k + 1
      BY <2>3, <2>4, <3>2
    <3> QED
      BY <3>1, <3>2
  <2> QED
    BY <2>2, <2>5
<1> HIDE DEF Good
<1>4. 0 \in G
  BY <1>2
<1>5. \A k \in Nat : k \in G => k + 1 \in G
  BY <1>1, <1>3
<1> HIDE DEF G
<1>6. Nat \subseteq G
  BY <1>4, <1>5, FromZeroOn
<1>7. PICK h : Good(h, n)
  <2>1. n \in G
    BY <1>1, <1>6
  <2> QED
    BY <2>1 DEF G
<1> DEFINE flatten[i \in 1 .. n] == IF i = 1 THEN list[i] ELSE flatten[i - 1] \o list[i]
<1>8. h = [i \in 1 .. n |-> IF i = 1 THEN list[i] ELSE h[i - 1] \o list[i]]
  BY <1>7 DEF Good
<1>9. flatten = [i \in 1 .. n |-> IF i = 1 THEN list[i] ELSE flatten[i - 1] \o list[i]]
  BY <1>8
<1>10. FlattenSeq(list) = flatten[n]
  <2>1. FlattenSeq(list) = IF n = 0 THEN list ELSE flatten[n]
    BY Zenon DEF FlattenSeq, n
  <2> HIDE DEF flatten
  <2> QED
    BY <1>1, <2>1
<1> HIDE DEF flatten
<1>11. flatten[1] = list[1] /\ \A i \in 1 .. n - 1 : flatten[i + 1] = flatten[i] \o list[i + 1]
  <2>1. flatten[1] = list[1]
    BY <1>1, <1>9
  <2>2. ASSUME NEW i \in 1 .. n - 1 PROVE flatten[i + 1] = flatten[i] \o list[i + 1]
    <3>1. i + 1 \in 1 .. n /\ i + 1 # 1 /\ (i + 1) - 1 = i
      BY <1>1
    <3> QED
      BY <1>9, <3>1
  <2> QED
    BY <2>1, <2>2
<1>12. flatten \in [1 .. n -> Seq(Int)]
  <2> DEFINE N == {k \in Nat : k + 1 <= n => flatten[k + 1] \in Seq(Int)}
  <2>1. 0 \in N
    BY <1>1, <1>11
  <2>2. ASSUME NEW k \in Nat, k \in N PROVE k + 1 \in N
    <3> SUFFICES ASSUME k + 2 <= n PROVE flatten[(k + 1) + 1] \in Seq(Int)
      BY <2>2
    <3>1. k + 1 \in 1 .. n - 1
      BY <1>1
    <3>2. flatten[k + 1] \in Seq(Int) /\ list[(k + 1) + 1] \in Seq(Int)
      BY <1>1, <2>2
    <3>3. flatten[(k + 1) + 1] = flatten[k + 1] \o list[(k + 1) + 1]
      BY <1>11, <3>1
    <3> QED
      BY ONLY <3>2, <3>3
  <2> HIDE DEF N
  <2>3. Nat \subseteq N
    BY <2>1, <2>2, FromZeroOn
  <2>4. ASSUME NEW i \in 1 .. n PROVE flatten[i] \in Seq(Int)
    <3>1. i - 1 \in N /\ (i - 1) + 1 = i
      BY <2>3
    <3> QED
      BY <1>1, <3>1 DEF N
  <2>5. flatten = [i \in 1 .. n |-> flatten[i]]
    BY <1>9
  <2> QED
    BY <2>4, <2>5
<1> QED
  BY <1>10, <1>11, <1>12 DEF n

\* One more chunk goes to the end.
LEMMA FlattenOfAppend ==
    ASSUME NEW list \in Seq(Seq(Int)), NEW c \in Seq(Int)
    PROVE  FlattenSeq(list) \in Seq(Int) /\ FlattenSeq(Append(list, c)) = FlattenSeq(list) \o c
<1> DEFINE more == Append(list, c)
<1>1. /\ more \in Seq(Seq(Int)) /\ more # <<>> /\ Len(more) = Len(list) + 1
      /\ more[Len(list) + 1] = c /\ \A i \in 1 .. Len(list) : more[i] = list[i]
  BY AppendProperties
<1> HIDE DEF more
<1>2. PICK g : /\ g[1] = more[1]
               /\ \A i \in 1 .. Len(more) - 1 : g[i + 1] = g[i] \o more[i + 1]
               /\ FlattenSeq(more) = g[Len(more)]
  BY <1>1, FlattenIs
<1>3. CASE list = <<>>
  <2>1. FlattenSeq(list) = <<>>
    BY <1>3 DEF FlattenSeq
  <2>2. FlattenSeq(more) = c
    BY <1>1, <1>2, <1>3
  <2> QED
    BY <2>1, <2>2 DEF more
<1>4. CASE list # <<>>
  <2>1. PICK f : /\ f \in [1 .. Len(list) -> Seq(Int)]
                 /\ f[1] = list[1]
                 /\ \A i \in 1 .. Len(list) - 1 : f[i + 1] = f[i] \o list[i + 1]
                 /\ FlattenSeq(list) = f[Len(list)]
    BY <1>4, FlattenIs
  <2> DEFINE N == {k \in Nat : k + 1 <= Len(list) => g[k + 1] = f[k + 1]}
  <2>2. Len(list) \in Nat /\ Len(list) >= 1
    BY <1>4
  <2>3. 0 \in N
    BY <1>1, <1>2, <2>1, <2>2
  <2>4. ASSUME NEW k \in Nat, k \in N PROVE k + 1 \in N
    <3> SUFFICES ASSUME k + 2 <= Len(list) PROVE g[(k + 1) + 1] = f[(k + 1) + 1]
      BY <2>4
    <3>1. k + 1 \in 1 .. Len(list) - 1 /\ k + 1 \in 1 .. Len(more) - 1
      BY <1>1, <2>2
    <3>2. g[(k + 1) + 1] = g[k + 1] \o more[(k + 1) + 1]
      BY <1>2, <3>1
    <3>3. f[(k + 1) + 1] = f[k + 1] \o list[(k + 1) + 1]
      BY <2>1, <3>1
    <3>4. more[(k + 1) + 1] = list[(k + 1) + 1]
      BY <1>1, <2>2
    <3>5. g[k + 1] = f[k + 1]
      BY <2>4, <2>2
    <3> QED
      BY <3>2, <3>3, <3>4, <3>5
  <2> HIDE DEF N
  <2>5. Nat \subseteq N
    BY <2>3, <2>4, FromZeroOn
  <2>6. Len(list) - 1 \in N
    BY <2>2, <2>5
  <2>7. g[Len(list)] = f[Len(list)]
    BY <2>2, <2>6 DEF N
  <2>8. g[Len(list) + 1] = g[Len(list)] \o more[Len(list) + 1]
    <3>1. Len(list) \in 1 .. Len(more) - 1
      BY <1>1, <2>2
    <3> QED
      BY ONLY <1>2, <3>1
  <2>9. FlattenSeq(list) \in Seq(Int)
    <3>1. Len(list) \in 1 .. Len(list)
      BY <2>2
    <3>2. f[Len(list)] \in Seq(Int)
      BY ONLY <2>1, <3>1
    <3> QED
      BY ONLY <2>1, <3>2
  <2> QED
    BY ONLY <1>1, <1>2, <2>1, <2>7, <2>8, <2>9 DEF more
<1> QED
  BY <1>3, <1>4

-----------------------------------------------------------------------------
(* A file that is cut: one operator of chunking after the other *)

\* What chunking keeps has these fields, and room for a chunk.
Fields == {"front", "RFPhead", "rfp", "chunk_buf", "chunkhead", "backup", "chunks",
           "totalSize", "left"}

IsKept(s) == DOMAIN s = Fields /\ s.chunk_buf \in [1 .. MaxChunkSize -> Int]

\* The chunks cut so far are the first n bytes of buf, and none is too small or too large.
CutUpTo(chs, buf, n) ==
    /\ chs \in Seq(Seq(Int))
    /\ FlattenSeq(chs) = SubSeq(buf, 1, n)
    /\ \A i \in 1 .. Len(chs) : Len(chs[i]) \in m .. MaxChunkSize

LEMMA Sizes ==
    /\ m \in Nat /\ m >= 1 /\ MaxChunkSize \in Nat /\ (WindowFits => MaxChunkSize > m)
    /\ BUFFER_SIZE \in Nat /\ BUFFER_SIZE >= 1
  BY ChunkingAssumption DEF WindowFits

\* s after length bytes of buf were put behind those that chunk_buf has.
Flushed(t, s, buf, length) ==
    /\ IsKept(t)
    /\ \A x \in Fields \ {"chunk_buf"} : t[x] = s[x]
    /\ \A i \in 1 .. s.chunkhead : t.chunk_buf[i] = s.chunk_buf[i]
    /\ \A i \in 1 .. length : t.chunk_buf[s.chunkhead + i] = buf[s.RFPhead + i]

\* s after a chunk of the first size bytes of data was uploaded.
Uploaded(t, s, data, size) ==
    /\ IsKept(t)
    /\ \A x \in Fields \ {"totalSize", "chunks"} : t[x] = s[x]
    /\ t.chunks = Append(s.chunks, SubSeq(data, 1, size))

\* s after the next length bytes of buf have become a chunk.
CutOff(t, s, buf, length) ==
    /\ IsKept(t)
    /\ t.left = "no" /\ t.chunkhead = 0 /\ t.front = s.front /\ t.backup = s.backup
    /\ t.RFPhead = s.RFPhead + length
    /\ \E c \in Seq(Int) : Len(c) = length /\ t.chunks = Append(s.chunks, c)
    /\ t.chunks \in Seq(Seq(Int))
    /\ FlattenSeq(t.chunks) = SubSeq(buf, 1, s.RFPhead + length)

\* flush puts length bytes behind those that chunk_buf has, and does nothing else.
LEMMA FlushAdds ==
    ASSUME WindowFits, NEW s, IsKept(s), NEW buf \in Seq(Int), NEW length \in Nat,
           s.chunkhead \in Nat, s.RFPhead \in Nat,
           s.chunkhead + length <= MaxChunkSize, s.RFPhead + length <= Len(buf)
    PROVE  Flushed(flush(s, buf, length), s, buf, length)
<1> SUFFICES ASSUME NEW t, t = flush(s, buf, length) PROVE Flushed(t, s, buf, length)
  OBVIOUS
<1> DEFINE h == s.chunkhead
           r == s.RFPhead
           old == s.chunk_buf
           new == [i \in DOMAIN old |->
                     IF i \in h + 1 .. h + length THEN buf[r + i - h] ELSE old[i]]
<1>1. t = [s EXCEPT !.chunk_buf = new]
  BY Sizes DEF flush
<1>2. DOMAIN s = Fields /\ old \in [1 .. MaxChunkSize -> Int]
  BY DEF IsKept
<1>3. DOMAIN t = Fields /\ t.chunk_buf = new /\ \A x \in Fields \ {"chunk_buf"} : t[x] = s[x]
  <2> HIDE DEF new, old
  <2>1. "chunk_buf" \in Fields
    BY DEF Fields
  <2> QED
    BY <1>1, <1>2, <2>1
<1>4. h \in Nat /\ r \in Nat /\ h + length <= MaxChunkSize /\ r + length <= Len(buf)
  OBVIOUS
<1> HIDE DEF h, r, old
<1>5. \A i \in h + 1 .. h + length : r + i - h \in 1 .. Len(buf)
  BY <1>4
<1>6. new \in [1 .. MaxChunkSize -> Int]
  <2>1. ASSUME NEW i \in 1 .. MaxChunkSize PROVE new[i] \in Int
    <3>1. CASE i \in h + 1 .. h + length
      <4>1. new[i] = buf[r + i - h]
        BY <1>2, <3>1
      <4>2. buf[r + i - h] \in Int
        BY <1>5, <3>1
      <4> QED
        BY <4>1, <4>2
    <3>2. CASE i \notin h + 1 .. h + length
      BY <1>2, <3>2
    <3> QED
      BY <3>1, <3>2
  <2> QED
    BY <1>2, <2>1
<1>7. \A i \in 1 .. h : new[i] = old[i]
  BY <1>2, <1>4, Sizes
<1>8. ASSUME NEW i \in 1 .. length PROVE new[h + i] = buf[r + i]
  <2>1. h + i \in 1 .. MaxChunkSize /\ h + i \in h + 1 .. h + length /\ r + (h + i) - h = r + i
    BY <1>4, Sizes
  <2> QED
    BY <1>2, <2>1
<1> HIDE DEF new
<1>9. IsKept(t)
  BY <1>3, <1>6 DEF IsKept
<1>10. /\ \A i \in 1 .. h : t.chunk_buf[i] = old[i]
       /\ \A i \in 1 .. length : t.chunk_buf[h + i] = buf[r + i]
  BY <1>3, <1>7, <1>8
<1> USE DEF h, r, old
<1> QED
  BY <1>3, <1>9, <1>10 DEF Flushed

\* What uploadChunk does with a chunk that fits its buffer.
LEMMA UploadAdds ==
    ASSUME WindowFits, NEW s, IsKept(s), s.chunks \in Seq(Seq(Int)), NEW data \in Seq(Int),
           NEW size \in 0 .. Len(data)
    PROVE  Uploaded(uploadChunk(s, data, size), s, data, size)
<1> SUFFICES ASSUME NEW t, t = uploadChunk(s, data, size) PROVE Uploaded(t, s, data, size)
  OBVIOUS
<1> DEFINE c == SubSeq(data, 1, size)
<1>1. size <= Len(data) /\ Slice(data, 0, size) = c
  BY DEF Slice
<1> HIDE DEF c
<1> DEFINE total == s.totalSize + size
           more == Append(s.chunks, c)
<1>2. t = [s EXCEPT !.totalSize = total, !.chunks = more]
  BY <1>1 DEF uploadChunk
<1>3. DOMAIN s = Fields /\ "totalSize" \in Fields /\ "chunks" \in Fields /\ "chunk_buf" \in Fields
  BY DEF IsKept, Fields
<1> HIDE DEF total, more
<1>4. /\ DOMAIN t = Fields /\ t.chunks = more
      /\ \A x \in Fields \ {"totalSize", "chunks"} : t[x] = s[x]
  BY <1>2, <1>3
<1>5. IsKept(t)
  BY <1>3, <1>4 DEF IsKept
<1> USE DEF more, c
<1> QED
  BY <1>4, <1>5 DEF Uploaded

\* cut makes a chunk of the next length bytes.
LEMMA CutTakes ==
    ASSUME WindowFits, NEW s, IsKept(s), NEW buf \in Seq(Int), NEW length \in 1 .. MaxChunkSize,
           s.left = "no", s.chunkhead = 0, s.RFPhead \in Nat, s.RFPhead + length <= Len(buf),
           s.chunks \in Seq(Seq(Int)), FlattenSeq(s.chunks) = SubSeq(buf, 1, s.RFPhead)
    PROVE  CutOff(cut(s, buf, length), s, buf, length)
<1> SUFFICES ASSUME NEW t, t = cut(s, buf, length) PROVE CutOff(t, s, buf, length)
  OBVIOUS
<1> DEFINE r == s.RFPhead
           u == flush(s, buf, length)
           v == uploadChunk(u, u.chunk_buf, length)
           c == SubSeq(buf, r + 1, r + length)
<1>1. r \in Nat /\ r + length <= Len(buf) /\ length \in Nat /\ 0 + length <= MaxChunkSize
  BY Sizes
<1>15. u = flush(s, buf, length) /\ v = uploadChunk(u, u.chunk_buf, length)
  OBVIOUS
<1>2. /\ IsKept(u)
      /\ \A x \in Fields \ {"chunk_buf"} : u[x] = s[x]
      /\ \A i \in 1 .. length : u.chunk_buf[i] = buf[r + i]
  <2>1. /\ s.chunkhead \in Nat /\ s.RFPhead \in Nat /\ length \in Nat
        /\ s.chunkhead + length <= MaxChunkSize /\ s.RFPhead + length <= Len(buf)
    BY <1>1
  <2> HIDE DEF u, r
  <2>2. Flushed(u, s, buf, length)
    BY <1>15, <2>1, FlushAdds
  <2> QED
    BY <2>2 DEF r, Flushed
<1> HIDE DEF u
<1>3. /\ u.left = "no" /\ u.chunkhead = 0 /\ u.front = s.front /\ u.backup = s.backup
      /\ u.RFPhead = r /\ u.chunks = s.chunks
  BY <1>2 DEF Fields
<1>4. u.chunk_buf \in Seq(Int) /\ Len(u.chunk_buf) = MaxChunkSize
  <2> DEFINE w == u.chunk_buf
  <2>1. w \in [1 .. MaxChunkSize -> Int]
    BY <1>2, Zenon DEF IsKept
  <2> HIDE DEF w
  <2>2. w \in Seq(Int) /\ Len(w) = MaxChunkSize
    BY <2>1, Sizes
  <2> QED
    BY <2>2 DEF w
<1>5. /\ IsKept(v)
      /\ \A x \in Fields \ {"totalSize", "chunks"} : v[x] = u[x]
      /\ v.chunks = Append(u.chunks, SubSeq(u.chunk_buf, 1, length))
  <2>1. u.chunks \in Seq(Seq(Int)) /\ length \in 0 .. Len(u.chunk_buf)
    BY <1>1, <1>3, <1>4
  <2> HIDE DEF v
  <2>2. Uploaded(v, u, u.chunk_buf, length)
    BY <1>2, <1>4, <1>15, <2>1, UploadAdds
  <2> QED
    BY <2>2 DEF Uploaded
<1>6. t = [v EXCEPT !.RFPhead = @ + length, !.chunkhead = 0]
  BY <1>3 DEF cut, u
<1> HIDE DEF v
<1>7. SubSeq(u.chunk_buf, 1, length) = c
  <2> DEFINE b == SubSeq(u.chunk_buf, 1, length)
  <2>1. /\ b \in Seq(Int) /\ Len(b) = length /\ \A i \in 1 .. length : b[i] = u.chunk_buf[i]
    <3>1. length <= Len(u.chunk_buf) /\ length \in Int /\ 1 \in Int /\ 1 <= length
      BY ONLY WindowFits, <1>1, <1>4, length \in 1 .. MaxChunkSize, Sizes
    <3>2. \A i \in 1 .. length : u.chunk_buf[i] \in Int
      BY ONLY <1>4, <3>1
    <3>3. /\ b \in Seq(Int) /\ Len(b) = (IF 1 <= length THEN length - 1 + 1 ELSE 0)
          /\ \A i \in 1 .. length - 1 + 1 : b[i] = u.chunk_buf[1 + i - 1]
      BY <3>1, <3>2, SubSeqProperties
    <3> HIDE DEF b
    <3>4. length - 1 + 1 = length /\ \A i \in 1 .. length : 1 + i - 1 = i
      BY <3>1
    <3> QED
      BY ONLY <3>1, <3>3, <3>4
  <2>2. /\ c \in Seq(Int) /\ Len(c) = length /\ \A i \in 1 .. length : c[i] = buf[r + i]
    <3>1. \A i \in r + 1 .. r + length : buf[i] \in Int
      BY <1>1
    <3>2. r + 1 \in Int /\ r + length \in Int /\ r + 1 <= r + length
      BY <1>1
    <3> HIDE DEF r, c
    <3>3. /\ c \in Seq(Int)
          /\ Len(c) = IF r + 1 <= r + length THEN (r + length) - (r + 1) + 1 ELSE 0
          /\ \A i \in 1 .. (r + length) - (r + 1) + 1 : c[i] = buf[(r + 1) + i - 1]
      BY <3>1, <3>2, SubSeqProperties, SMTT(30) DEF c
    <3>4. (r + length) - (r + 1) + 1 = length /\ \A i \in 1 .. length : (r + 1) + i - 1 = r + i
      BY <1>1
    <3> QED
      BY ONLY <3>2, <3>3, <3>4
  <2> HIDE DEF b, c
  <2>3. \A i \in 1 .. length : b[i] = c[i]
    BY <1>2, <2>1, <2>2
  <2>4. b = c
    BY <2>1, <2>2, <2>3, SeqEqual
  <2> QED
    BY <2>4 DEF b
<1>8. c \in Seq(Int) /\ Len(c) = length
  <2>1. \A i \in r + 1 .. r + length : buf[i] \in Int
    BY <1>1
  <2>2. r + 1 \in Int /\ r + length \in Int /\ r + 1 <= r + length
    BY <1>1
  <2>3. c \in Seq(Int) /\ Len(c) = (r + length) - (r + 1) + 1
    BY <2>1, <2>2, SubSeqProperties
  <2> HIDE DEF c
  <2> QED
    BY <1>1, <2>3
<1>9. SubSeq(buf, 1, r) \o c = SubSeq(buf, 1, r + length)
  <2>1. 1 \in 1 .. Len(buf) + 1 /\ r \in 1 - 1 .. Len(buf) /\ r + length \in r .. Len(buf)
    BY <1>1
  <2> QED
    BY <2>1, ConcatAdjacentSubSeq
<1> HIDE DEF c
<1>10. /\ DOMAIN v = Fields /\ v.left = "no" /\ v.front = s.front /\ v.backup = s.backup
       /\ v.RFPhead = r /\ v.chunks = Append(s.chunks, c)
  BY <1>3, <1>5, <1>7 DEF IsKept, Fields
<1>11. /\ DOMAIN t = Fields /\ t.left = "no" /\ t.front = s.front /\ t.backup = s.backup
       /\ t.RFPhead = r + length /\ t.chunkhead = 0 /\ t.chunks = Append(s.chunks, c)
       /\ t.chunk_buf = v.chunk_buf
  BY <1>6, <1>10 DEF Fields
<1>12. IsKept(t)
  <2>1. v.chunk_buf \in [1 .. MaxChunkSize -> Int]
    BY <1>5 DEF IsKept
  <2>2. DOMAIN t = Fields /\ t.chunk_buf = v.chunk_buf
    BY <1>11
  <2> QED
    BY ONLY <2>1, <2>2 DEF IsKept
<1>13. t.chunks \in Seq(Seq(Int)) /\ FlattenSeq(t.chunks) = FlattenSeq(s.chunks) \o c
  <2>1. /\ FlattenSeq(Append(s.chunks, c)) = FlattenSeq(s.chunks) \o c
        /\ Append(s.chunks, c) \in Seq(Seq(Int))
    BY <1>8, FlattenOfAppend, AppendProperties, Zenon
  <2> QED
    BY <1>11, <2>1, Zenon
<1>14. FlattenSeq(t.chunks) = SubSeq(buf, 1, r + length)
  BY <1>9, <1>13
<1> USE DEF c
<1> QED
  BY <1>8, <1>11, <1>12, <1>13, <1>14 DEF CutOff

\* Before the window that starts behind i: what is not cut off yet is shorter than a chunk
\* may be, and nothing was flushed or moved.
Sliding(s, buf, i) ==
    /\ IsKept(s)
    /\ s.left = "no" /\ s.front = <<>> /\ s.chunkhead = 0 /\ s.backup = 0
    /\ s.RFPhead \in 0 .. i + m /\ i + m - s.RFPhead < MaxChunkSize
    /\ CutUpTo(s.chunks, buf, s.RFPhead)

\* A file's chunks.
WellCut(chs, file) ==
    /\ FlattenSeq(chs) = file
    /\ \A i \in DOMAIN chs :
          /\ Len(chs[i]) <= MaxChunkSize
          /\ i < Len(chs) => Len(chs[i]) >= m

\* The fingerprint may be anything.
LEMMA RollKeeps ==
    ASSUME WindowFits, NEW s, NEW buf, NEW i, Sliding(s, buf, i), NEW rfp
    PROVE  LET t == [s EXCEPT !.rfp = rfp] IN Sliding(t, buf, i) /\ t.RFPhead = s.RFPhead
<1> DEFINE t == [s EXCEPT !.rfp = rfp]
<1>1. DOMAIN s = Fields /\ s.chunk_buf \in [1 .. MaxChunkSize -> Int]
  BY DEF Sliding, IsKept
<1>2. /\ DOMAIN t = Fields /\ t.chunk_buf = s.chunk_buf /\ t.left = s.left /\ t.front = s.front
      /\ t.chunkhead = s.chunkhead /\ t.backup = s.backup /\ t.RFPhead = s.RFPhead
      /\ t.chunks = s.chunks
  BY <1>1 DEF Fields
<1> HIDE DEF t
<1>3. IsKept(t)
  BY <1>1, <1>2 DEF IsKept
<1>4. Sliding(t, buf, i)
  BY <1>2, <1>3, Zenon DEF Sliding
<1> USE DEF t
<1> QED
  BY <1>2, <1>4

\* A chunk of at least a window can be cut off.
LEMMA CutKeeps ==
    ASSUME WindowFits, NEW buf \in Seq(Int), NEW i \in Nat, i + m <= Len(buf), NEW s, IsKept(s),
           s.left = "no", s.front = <<>>, s.chunkhead = 0, s.backup = 0,
           s.RFPhead \in 0 .. i + m, CutUpTo(s.chunks, buf, s.RFPhead),
           i + m - s.RFPhead \in m .. MaxChunkSize
    PROVE  Sliding(cut(s, buf, i + m - s.RFPhead), buf, i)
<1> DEFINE length == i + m - s.RFPhead
           t == cut(s, buf, length)
<1>1. length \in 1 .. MaxChunkSize /\ s.RFPhead \in Nat /\ s.RFPhead + length = i + m
  BY Sizes
<1>2. s.chunks \in Seq(Seq(Int)) /\ FlattenSeq(s.chunks) = SubSeq(buf, 1, s.RFPhead)
  BY DEF CutUpTo
<1>3. s.RFPhead + length <= Len(buf)
  BY ONLY <1>1, i + m <= Len(buf)
<1>4. CutOff(t, s, buf, length)
  <2> HIDE DEF length
  <2> QED
    BY <1>1, <1>2, <1>3, CutTakes
<1> HIDE DEF t, length
<1>5. PICK c \in Seq(Int) : Len(c) = length /\ t.chunks = Append(s.chunks, c)
  BY <1>4 DEF CutOff
<1>6. \A k \in 1 .. Len(t.chunks) : Len(t.chunks[k]) \in m .. MaxChunkSize
  <2>1. /\ Len(t.chunks) = Len(s.chunks) + 1 /\ t.chunks[Len(s.chunks) + 1] = c
        /\ \A k \in 1 .. Len(s.chunks) : t.chunks[k] = s.chunks[k]
    BY <1>2, <1>5, AppendProperties
  <2>2. \A k \in 1 .. Len(s.chunks) : Len(s.chunks[k]) \in m .. MaxChunkSize
    BY DEF CutUpTo
  <2>3. Len(c) \in m .. MaxChunkSize
    BY <1>5 DEF length
  <2>4. Len(s.chunks) \in Nat
    BY <1>2
  <2>5. ASSUME NEW k \in 1 .. Len(t.chunks) PROVE Len(t.chunks[k]) \in m .. MaxChunkSize
    <3>1. CASE k \in 1 .. Len(s.chunks)
      BY <3>1, <2>1, <2>2, Zenon
    <3>2. CASE k = Len(s.chunks) + 1
      BY <3>2, <2>1, <2>3, Zenon
    <3>3. k \in 1 .. Len(s.chunks) \/ k = Len(s.chunks) + 1
      <4>1. k \in 1 .. Len(s.chunks) + 1
        BY <2>1, <2>5, Zenon
      <4> QED
        BY ONLY <4>1, <2>4
    <3> QED
      BY <3>1, <3>2, <3>3, Zenon
  <2> QED
    BY <2>5
<1>7. CutUpTo(t.chunks, buf, i + m)
  BY <1>1, <1>4, <1>6, Zenon DEF CutUpTo, CutOff
<1>8. t.RFPhead = i + m
  BY <1>1, <1>4, Zenon DEF CutOff
<1>9. i + m \in 0 .. i + m /\ (i + m) - (i + m) < MaxChunkSize
  BY Sizes
<1>10. IsKept(t) /\ t.left = "no" /\ t.front = <<>> /\ t.chunkhead = 0 /\ t.backup = 0
  BY <1>4, Zenon DEF CutOff
<1>11. Sliding(t, buf, i)
  <2>1. t.RFPhead \in 0 .. i + m /\ i + m - t.RFPhead < MaxChunkSize
    BY ONLY WindowFits, <1>8, <1>9, Sizes, i \in Nat
  <2>2. CutUpTo(t.chunks, buf, t.RFPhead)
    BY ONLY <1>7, <1>8
  <2> QED
    BY ONLY <1>10, <2>1, <2>2, Zenon DEF Sliding
<1> USE DEF t, length
<1> QED
  BY <1>11

\* The window that starts at i.
LEMMA WindowSlides ==
    ASSUME WindowFits, NEW buf \in Seq(Int), NEW i \in Nat, i >= 1, i + m <= Len(buf), NEW s,
           Sliding(s, buf, i - 1)
    PROVE  Sliding(Window(s, buf, i), buf, i)
<1> DEFINE rolled == [s EXCEPT !.rfp = getRFP(@, buf[i], buf[i + m])]
           length == i + m - s.RFPhead
<1>1. Sliding(rolled, buf, i - 1) /\ rolled.RFPhead = s.RFPhead
  BY RollKeeps
<1>2. s.left = "no"
  BY DEF Sliding
<1>3. s.RFPhead \in 0 .. (i - 1) + m /\ (i - 1) + m - s.RFPhead < MaxChunkSize
  BY DEF Sliding
<1>4. /\ s.RFPhead \in 0 .. i + m /\ length \in Nat /\ length <= MaxChunkSize
  BY ONLY WindowFits, <1>3, Sizes, i \in Nat, i >= 1
<1>5. CASE (isInterestedRFP(rolled.rfp) \/ length = MaxChunkSize) /\ length >= m
  <2>1. Window(s, buf, i) = cut(rolled, buf, length)
    BY <1>2, <1>5, Zenon DEF Window
  <2> HIDE DEF rolled
  <2>2. length \in m .. MaxChunkSize
    BY <1>4, <1>5, Sizes
  <2>3. /\ IsKept(rolled) /\ rolled.left = "no" /\ rolled.front = <<>> /\ rolled.chunkhead = 0
        /\ rolled.backup = 0 /\ CutUpTo(rolled.chunks, buf, rolled.RFPhead)
    BY <1>1, Zenon DEF Sliding
  <2>4. /\ rolled.RFPhead \in 0 .. i + m /\ length = i + m - rolled.RFPhead
        /\ i + m - rolled.RFPhead \in m .. MaxChunkSize
    BY <1>1, <1>4, <2>2, Zenon
  <2>5. Sliding(cut(rolled, buf, i + m - rolled.RFPhead), buf, i)
    BY <2>3, <2>4, CutKeeps
  <2> QED
    BY <2>1, <2>4, <2>5, Zenon
<1>6. CASE ~ ((isInterestedRFP(rolled.rfp) \/ length = MaxChunkSize) /\ length >= m)
  <2>1. Window(s, buf, i) = rolled
    BY <1>2, <1>6, Zenon DEF Window
  <2> HIDE DEF rolled
  <2>2. length < MaxChunkSize
    BY <1>4, <1>6, Sizes
  <2>3. rolled.RFPhead \in 0 .. i + m /\ i + m - rolled.RFPhead < MaxChunkSize
    BY <1>1, <1>4, <2>2, Zenon
  <2>4. Sliding(rolled, buf, i)
    BY <1>1, <2>3, Zenon DEF Sliding
  <2> QED
    BY <2>1, <2>4
<1> QED
  BY <1>5, <1>6, Zenon

\* All windows of a block, one after the other.
LEMMA WindowsSlide ==
    ASSUME WindowFits, NEW buf \in Seq(Int), NEW last \in Nat, last + m <= Len(buf), NEW begun,
           Sliding(begun, buf, 0)
    PROVE  Sliding(Windows(begun, buf, last), buf, last)
<1> DEFINE Good(g, k) == g = [i \in 0 .. k |-> IF i = 0 THEN begun ELSE Window(g[i - 1], buf, i)]
           G == {k \in Nat : \E g : Good(g, k)}
<1>1. 0 \in G
  <2> DEFINE g == [i \in 0 .. 0 |-> begun]
  <2>1. Good(g, 0)
    OBVIOUS
  <2> QED
    BY <2>1
<1>2. ASSUME NEW k \in Nat, NEW f, Good(f, k) PROVE \E g : Good(g, k + 1)
  <2> DEFINE e == Window(f[k], buf, k + 1)
             g == [i \in 0 .. k + 1 |-> IF i = k + 1 THEN e ELSE f[i]]
  <2>1. /\ DOMAIN g = 0 .. k + 1 /\ g = [i \in 0 .. k + 1 |-> g[i]]
        /\ g[k + 1] = e /\ \A i \in 0 .. k : g[i] = f[i]
    OBVIOUS
  <2>2. \A i \in 0 .. k : f[i] = IF i = 0 THEN begun ELSE Window(f[i - 1], buf, i)
    BY <1>2
  <2> HIDE DEF g
  <2>3. ASSUME NEW i \in 0 .. k + 1
        PROVE  g[i] = IF i = 0 THEN begun ELSE Window(g[i - 1], buf, i)
    <3>1. CASE i \in 0 .. k
      <4>1. f[i] = IF i = 0 THEN begun ELSE Window(f[i - 1], buf, i)
        BY <2>2, <3>1
      <4>2. g[i] = f[i]
        BY <2>1, <3>1
      <4>3. i # 0 => i - 1 \in 0 .. k
        BY <3>1
      <4>4. i # 0 => g[i - 1] = f[i - 1]
        BY <2>1, <4>3, Zenon
      <4> QED
        BY ONLY <4>1, <4>2, <4>4
    <3>2. CASE i = k + 1
      <4>1. i # 0 /\ i - 1 = k /\ k \in 0 .. k
        BY <3>2
      <4>2. g[k] = f[k] /\ g[k + 1] = e
        BY ONLY <2>1, <4>1
      <4> QED
        BY ONLY <3>2, <4>1, <4>2
    <3> QED
      BY <3>1, <3>2
  <2>4. Good(g, k + 1)
    BY <2>1, <2>3
  <2> QED
    BY <2>4
<1> HIDE DEF Good
<1>3. \A k \in Nat : k \in G => k + 1 \in G
  BY <1>2
<1> HIDE DEF G
<1>4. last \in G
  BY <1>1, <1>3, FromZeroOn
<1>5. PICK h : Good(h, last)
  BY <1>4 DEF G
<1> DEFINE slid[i \in 0 .. last] == IF i = 0 THEN begun ELSE Window(slid[i - 1], buf, i)
<1>6. slid = [i \in 0 .. last |-> IF i = 0 THEN begun ELSE Window(slid[i - 1], buf, i)]
  BY <1>5 DEF Good
<1>7. Windows(begun, buf, last) = slid[last]
  BY DEF Windows
<1> HIDE DEF slid
<1>8. slid[0] = begun /\ \A i \in 1 .. last : slid[i] = Window(slid[i - 1], buf, i)
  BY <1>6
<1> DEFINE N == {k \in Nat : k <= last => Sliding(slid[k], buf, k)}
<1>9. 0 \in N
  BY <1>8
<1>10. ASSUME NEW k \in Nat, k \in N PROVE k + 1 \in N
  <2> SUFFICES ASSUME k + 1 <= last PROVE Sliding(slid[k + 1], buf, k + 1)
    BY <1>10
  <2>1. k + 1 \in 1 .. last /\ (k + 1) - 1 = k /\ k + 1 >= 1 /\ k + 1 \in Nat /\ k <= last
    OBVIOUS
  <2>2. (k + 1) + m <= Len(buf)
    BY Sizes
  <2>3. Sliding(slid[k], buf, (k + 1) - 1)
    BY <1>10, <2>1
  <2>4. Sliding(Window(slid[k], buf, k + 1), buf, k + 1)
    BY <2>1, <2>2, <2>3, WindowSlides
  <2>5. slid[k + 1] = Window(slid[k], buf, k + 1)
    BY <1>8, <2>1
  <2> QED
    BY <2>4, <2>5
<1> HIDE DEF N
<1>11. last \in N
  BY <1>9, <1>10, FromZeroOn
<1>12. Sliding(slid[last], buf, last)
  BY <1>11 DEF N
<1> QED
  BY <1>7, <1>12

\* With one more chunk, of any size that is allowed, the chunks are the file's.
LEMMA LastChunk ==
    ASSUME WindowFits, NEW buf \in Seq(Int), NEW n \in 0 .. Len(buf), NEW chs, CutUpTo(chs, buf, n),
           NEW c \in Seq(Int), Len(c) = Len(buf) - n, Len(c) <= MaxChunkSize,
           \A i \in 1 .. Len(c) : c[i] = buf[n + i]
    PROVE  WellCut(Append(chs, c), buf)
<1> DEFINE more == Append(chs, c)
<1>1. chs \in Seq(Seq(Int)) /\ FlattenSeq(chs) = SubSeq(buf, 1, n)
  BY DEF CutUpTo
<1>2. /\ more \in Seq(Seq(Int)) /\ Len(more) = Len(chs) + 1 /\ more[Len(chs) + 1] = c
      /\ \A i \in 1 .. Len(chs) : more[i] = chs[i]
  BY <1>1, AppendProperties
<1>3. FlattenSeq(more) = SubSeq(buf, 1, n) \o c
  BY <1>1, FlattenOfAppend
<1> HIDE DEF more
<1>4. SubSeq(buf, 1, n) \o c = buf
  <2> DEFINE b == SubSeq(buf, 1, n)
  <2>1. b \in Seq(Int) /\ Len(b) = n /\ \A i \in 1 .. n : b[i] = buf[i]
    <3>1. \A i \in 1 .. n : buf[i] \in Int
      OBVIOUS
    <3>2. /\ b \in Seq(Int) /\ Len(b) = (IF 1 <= n THEN n - 1 + 1 ELSE 0)
          /\ \A i \in 1 .. n - 1 + 1 : b[i] = buf[1 + i - 1]
      BY <3>1, SubSeqProperties
    <3> HIDE DEF b
    <3> QED
      BY <3>2
  <2> HIDE DEF b
  <2>2. /\ b \o c \in Seq(Int) /\ Len(b \o c) = Len(b) + Len(c)
        /\ \A i \in 1 .. Len(b) + Len(c) : (b \o c)[i] = IF i <= Len(b) THEN b[i] ELSE c[i - Len(b)]
    BY <2>1, ConcatProperties
  <2> DEFINE w == b \o c
  <2>3. w \in Seq(Int) /\ Len(w) = Len(buf)
    BY <2>1, <2>2
  <2>4. ASSUME NEW i \in 1 .. Len(buf) PROVE (b \o c)[i] = buf[i]
    <3>1. CASE i <= n
      <4>1. (b \o c)[i] = b[i]
        BY <2>1, <2>2, <3>1
      <4> QED
        BY <2>1, <3>1, <4>1
    <3>2. CASE ~(i <= n)
      <4>1. (b \o c)[i] = c[i - n]
        BY <2>1, <2>2, <3>2, SMTT(30)
      <4>2. i - n \in 1 .. Len(c) /\ n + (i - n) = i
        BY <3>2
      <4>3. c[i - n] = buf[n + (i - n)]
        BY <4>2
      <4> QED
        BY ONLY <4>1, <4>2, <4>3
    <3> QED
      BY <3>1, <3>2
  <2>5. \A i \in 1 .. Len(w) : w[i] = buf[i]
    BY <2>3, <2>4
  <2> HIDE DEF w
  <2>6. w = buf
    BY <2>3, <2>5, SeqEqual
  <2> QED
    BY <2>6 DEF w, b
<1>5. DOMAIN more = 1 .. Len(chs) + 1 /\ Len(chs) \in Nat
  BY <1>1, <1>2
<1>6. ASSUME NEW i \in 1 .. Len(chs) + 1
      PROVE  Len(more[i]) <= MaxChunkSize /\ (i < Len(more) => Len(more[i]) >= m)
  <2>1. CASE i = Len(chs) + 1
    <3>1. more[i] = c /\ ~(i < Len(more))
      BY <1>2, <1>5, <2>1
    <3> QED
      BY <3>1
  <2>2. CASE i \in 1 .. Len(chs)
    <3>1. more[i] = chs[i]
      BY <1>2, <2>2
    <3>2. Len(chs[i]) \in m .. MaxChunkSize
      BY <2>2, Zenon DEF CutUpTo
    <3>3. Len(chs[i]) <= MaxChunkSize /\ Len(chs[i]) >= m
      BY ONLY WindowFits, <3>2, Sizes
    <3> QED
      BY ONLY <3>1, <3>3
  <2>3. i = Len(chs) + 1 \/ i \in 1 .. Len(chs)
    BY <1>5
  <2> QED
    BY ONLY <2>1, <2>2, <2>3, Zenon
<1>7. WellCut(more, buf)
  BY <1>3, <1>4, <1>5, <1>6, Zenon DEF WellCut
<1> USE DEF more
<1> QED
  BY <1>7

LEMMA NewFileIs ==
    /\ IsKept(NewFile)
    /\ NewFile.front = <<>> /\ NewFile.RFPhead = 0 /\ NewFile.chunkhead = 0 /\ NewFile.backup = 0
    /\ NewFile.chunks = <<>> /\ NewFile.left = "no"
    /\ \A buf \in Seq(Int) : CutUpTo(NewFile.chunks, buf, 0)
<1>1. DOMAIN NewFile = Fields /\ NewFile.chunk_buf = [i \in 1 .. MaxChunkSize |-> 0]
  BY DEF NewFile, Fields
<1>2. IsKept(NewFile)
  BY <1>1 DEF IsKept
<1>3. /\ NewFile.front = <<>> /\ NewFile.RFPhead = 0 /\ NewFile.chunkhead = 0
      /\ NewFile.backup = 0 /\ NewFile.chunks = <<>> /\ NewFile.left = "no"
  BY DEF NewFile
<1>4. ASSUME NEW buf \in Seq(Int) PROVE CutUpTo(<<>>, buf, 0)
  <2>1. FlattenSeq(<<>>) = <<>>
    BY DEF FlattenSeq
  <2>2. SubSeq(buf, 1, 0) = <<>>
    BY SubSeqEmpty
  <2>3. <<>> \in Seq(Seq(Int)) /\ \A i \in 1 .. Len(<<>>) : Len(<<>>[i]) \in m .. MaxChunkSize
    OBVIOUS
  <2> QED
    BY <2>1, <2>2, <2>3 DEF CutUpTo
<1> QED
  BY <1>2, <1>3, <1>4

\* The first window of a file.
LEMMA FirstWindowSlides ==
    ASSUME WindowFits, NEW buf \in Seq(Int), Len(buf) >= m + 1
    PROVE  \E first : /\ Sliding(first, buf, 0)
                      /\ FirstWindow(NewFile, buf) =
                           IF Len(buf) # m + 1 THEN first
                           ELSE [cut(first, buf, m - first.RFPhead + 1) EXCEPT !.left = "break"]
<1> DEFINE rfp == set_firstRFP(Slice(buf, 0, m))
           begun == [NewFile EXCEPT !.rfp = rfp]
           first == IF isInterestedRFP(rfp) THEN cut(begun, buf, m) ELSE begun
<1>1. Sliding(NewFile, buf, 0)
  <2>1. 0 \in 0 .. 0 + m /\ 0 + m - 0 < MaxChunkSize
    BY Sizes
  <2> QED
    BY NewFileIs, <2>1 DEF Sliding
<1>2. Sliding(begun, buf, 0) /\ begun.RFPhead = 0
  <2> HIDE DEF rfp
  <2> QED
    BY <1>1, NewFileIs, RollKeeps
<1>3. FirstWindow(NewFile, buf) =
        IF Len(buf) # m + 1 THEN first
        ELSE [cut(first, buf, m - first.RFPhead + 1) EXCEPT !.left = "break"]
  BY Zenon DEF FirstWindow
<1>4. Sliding(cut(begun, buf, m), buf, 0)
  <2> HIDE DEF begun
  <2>1. 0 \in Nat /\ 0 + m <= Len(buf) /\ 0 + m - 0 = m /\ m \in m .. MaxChunkSize
    BY Sizes
  <2>2. begun.RFPhead \in 0 .. 0 + m /\ 0 + m - begun.RFPhead = m
    BY <1>2, <2>1, Sizes
  <2>3. Sliding(cut(begun, buf, 0 + m - begun.RFPhead), buf, 0)
    BY <1>2, <2>1, <2>2, CutKeeps DEF Sliding
  <2> QED
    BY <2>2, <2>3
<1>5. Sliding(first, buf, 0)
  <2> HIDE DEF begun, rfp
  <2> QED
    BY <1>2, <1>4
<1> HIDE DEF first
<1> QED
  BY <1>3, <1>5

\* At the end of the only block: the r bytes before the open chunk are cut off; of the rest,
\* chunk_buf has what was flushed and front, from RFPhead on, what was not.
Moved(t, buf, r) ==
    /\ IsKept(t) /\ t.left = "no"
    /\ r \in 0 .. Len(buf) /\ Len(buf) - r <= MaxChunkSize
    /\ t.chunkhead \in Nat /\ t.backup = t.chunkhead /\ t.RFPhead \in 0 .. m
    /\ r + t.chunkhead + (m - t.RFPhead + 1) = Len(buf)
    /\ t.front \in Seq(Int) /\ Len(t.front) = m + 1
    /\ \A i \in 1 .. t.chunkhead : t.chunk_buf[i] = buf[r + i]
    /\ \A i \in 1 .. m - t.RFPhead + 1 : t.front[t.RFPhead + i] = buf[r + t.chunkhead + i]
    /\ CutUpTo(t.chunks, buf, r)

LEMMA FrontIs ==
    ASSUME WindowFits, NEW buf \in Seq(Int), NEW last \in Nat, Len(buf) = last + m + 1
    PROVE  LET front == Slice(buf, last, m + 1) IN
           /\ front \in Seq(Int) /\ Len(front) = m + 1
           /\ \A i \in 1 .. m + 1 : front[i] = buf[last + i]
<1> DEFINE a == last + 1
           b == last + (m + 1)
           front == SubSeq(buf, a, b)
<1>1. \A i \in a .. b : buf[i] \in Int
  BY Sizes
<1>2. a \in Int /\ b \in Int
  BY Sizes
<1>4. a <= b /\ b - a + 1 = m + 1 /\ \A i \in 1 .. m + 1 : a + i - 1 = last + i
  BY Sizes
<1> HIDE DEF a, b
<1>3. /\ front \in Seq(Int)
      /\ Len(front) = (IF a <= b THEN b - a + 1 ELSE 0)
      /\ \A i \in 1 .. b - a + 1 : front[i] = buf[a + i - 1]
  BY <1>1, <1>2, SubSeqProperties
<1> HIDE DEF front
<1>5. Len(front) = m + 1 /\ \A i \in 1 .. m + 1 : front[i] = buf[last + i]
  BY ONLY <1>3, <1>4
<1> USE DEF a, b, front
<1> QED
  BY <1>3, <1>5 DEF Slice

\* The window and the byte after it move to the front.
LEMMA FrontMoves ==
    ASSUME WindowFits, NEW buf \in Seq(Int), NEW last \in Nat, Len(buf) = last + m + 1, NEW s,
           Sliding(s, buf, last)
    PROVE  Moved(MoveToFront(s, buf, last), buf, s.RFPhead)
<1> DEFINE r == s.RFPhead
           length == last - r
           front == Slice(buf, last, m + 1)
           t == MoveToFront(s, buf, last)
<1>1. front \in Seq(Int) /\ Len(front) = m + 1 /\ \A i \in 1 .. m + 1 : front[i] = buf[last + i]
  BY FrontIs
<1>2. /\ IsKept(s) /\ s.left = "no" /\ s.chunkhead = 0 /\ s.backup = 0
      /\ r \in 0 .. last + m /\ last + m - r < MaxChunkSize /\ CutUpTo(s.chunks, buf, r)
  BY Zenon DEF Sliding
<1>3. DOMAIN s = Fields /\ s.chunk_buf \in [1 .. MaxChunkSize -> Int]
  BY <1>2 DEF IsKept
<1>4. r \in 0 .. Len(buf) /\ Len(buf) - r <= MaxChunkSize /\ r \in Nat
  BY <1>2, Sizes, SMTT(30)
<1>5. CASE length > 0
  <2> DEFINE u == flush(s, buf, length)
  <2>1. t = [[u EXCEPT !.chunkhead = @ + length, !.backup = @ + length, !.RFPhead = 0]
               EXCEPT !.front = front]
    BY <1>2, <1>5, Zenon DEF MoveToFront
  <2>2. Flushed(u, s, buf, length)
    <3>1. /\ length \in Nat /\ s.chunkhead \in Nat /\ s.RFPhead \in Nat
          /\ s.chunkhead + length <= MaxChunkSize /\ s.RFPhead + length <= Len(buf)
      <4>1. s.chunkhead = 0 /\ r + length = last /\ length \in Nat
        BY <1>2, <1>4, <1>5
      <4>2. length <= MaxChunkSize
        <5> HIDE DEF r
        <5> QED
          BY ONLY WindowFits, <1>2, <1>4, <1>5, Sizes, last \in Nat
      <4>3. last <= Len(buf)
        BY Sizes
      <4> HIDE DEF length
      <4> QED
        BY <1>4, <4>1, <4>2, <4>3, Sizes
    <3> HIDE DEF length
    <3> QED
      BY <1>2, <3>1, FlushAdds
  <2> HIDE DEF u, t, front
  <2>3. /\ DOMAIN u = Fields /\ u.chunk_buf \in [1 .. MaxChunkSize -> Int]
        /\ u.left = "no" /\ u.chunkhead = 0 /\ u.backup = 0 /\ u.chunks = s.chunks
    BY <1>2, <2>2 DEF Flushed, Fields, IsKept
  <2>4. \A i \in 1 .. length : u.chunk_buf[i] = buf[r + i]
    <3>1. \A i \in 1 .. length : u.chunk_buf[s.chunkhead + i] = buf[s.RFPhead + i]
      BY <2>2, Zenon DEF Flushed
    <3> QED
      BY <3>1, <1>2
  <2>5. /\ DOMAIN t = Fields /\ t.chunk_buf = u.chunk_buf /\ t.left = "no"
        /\ t.chunkhead = length /\ t.backup = length /\ t.RFPhead = 0
        /\ t.chunks = s.chunks /\ t.front = front
    BY <2>1, <2>3, <1>4 DEF Fields
  <2>6. IsKept(t)
    BY <2>3, <2>5 DEF IsKept
  <2>7. r + length + (m - 0 + 1) = Len(buf) /\ length \in Nat /\ 0 \in 0 .. m
    BY <1>4, <1>5, Sizes, SMTT(30)
  <2>8. \A i \in 1 .. m - 0 + 1 : front[0 + i] = buf[r + length + i]
    <3>1. \A i \in 1 .. m + 1 : r + length + i = last + i
      BY <1>4
    <3>2. m - 0 + 1 = m + 1 /\ \A i \in 1 .. m + 1 : 0 + i = i
      BY Sizes
    <3> HIDE DEF length
    <3> QED
      BY ONLY <1>1, <3>1, <3>2
  <2> HIDE DEF length, r
  <2>9. Moved(t, buf, r)
    BY ONLY <1>1, <1>2, <1>4, <2>4, <2>5, <2>6, <2>7, <2>8 DEF Moved
  <2> USE DEF t, r
  <2> QED
    BY <2>9
<1>6. CASE ~(length > 0)
  <2>1. t = [[s EXCEPT !.RFPhead = @ - last] EXCEPT !.front = front]
    BY <1>2, <1>6, Zenon DEF MoveToFront
  <2> DEFINE p == r - last
  <2> HIDE DEF t, front
  <2>2. /\ DOMAIN t = Fields /\ t.chunk_buf = s.chunk_buf /\ t.left = "no"
        /\ t.chunkhead = 0 /\ t.backup = 0 /\ t.RFPhead = p
        /\ t.chunks = s.chunks /\ t.front = front
    BY <1>2, <1>3, <2>1 DEF Fields
  <2>3. IsKept(t)
    BY <1>3, <2>2 DEF IsKept
  <2>4. p \in 0 .. m /\ r + 0 + (m - p + 1) = Len(buf) /\ 0 \in Nat
    <3>1. r \in 0 .. last + m
      BY <1>2
    <3> HIDE DEF r
    <3> QED
      BY ONLY WindowFits, <3>1, <1>6, Sizes, last \in Nat, Len(buf) = last + m + 1
  <2>5. \A i \in 1 .. m - p + 1 : front[p + i] = buf[r + 0 + i]
    <3>2. p \in Nat /\ p <= m /\ last + p = r
      BY <1>4, <2>4, Sizes
    <3>1. \A i \in 1 .. m - p + 1 : p + i \in 1 .. m + 1 /\ last + (p + i) = r + 0 + i
      <4> HIDE DEF p, r
      <4> QED
        BY ONLY WindowFits, <3>2, <1>4, Sizes, last \in Nat
    <3> HIDE DEF p
    <3> QED
      BY ONLY <1>1, <3>1
  <2>6. \A i \in 1 .. 0 : s.chunk_buf[i] = buf[r + i]
    OBVIOUS
  <2> HIDE DEF p, r
  <2>7. Moved(t, buf, r)
    BY ONLY <1>1, <1>2, <1>4, <2>2, <2>3, <2>4, <2>5, <2>6 DEF Moved
  <2> USE DEF t, r
  <2> QED
    BY <2>7
<1> QED
  BY <1>5, <1>6, Zenon

\* What is left becomes the last chunk.
LEMMA RemainderFits ==
    ASSUME WindowFits, NEW buf \in Seq(Int), NEW r, NEW t, Moved(t, buf, r)
    PROVE  WellCut(Remainder(t).chunks, buf)
<1> DEFINE h == t.chunkhead
           p == t.RFPhead
           length == m - p + 1
           u == flush(t, t.front, length)
           n == length + h
           v == uploadChunk(u, u.chunk_buf, length + t.backup)
<1>1. /\ IsKept(t) /\ t.left = "no" /\ r \in 0 .. Len(buf) /\ Len(buf) - r <= MaxChunkSize
      /\ h \in Nat /\ t.backup = h /\ p \in 0 .. m /\ r + h + length = Len(buf)
      /\ t.front \in Seq(Int) /\ Len(t.front) = m + 1 /\ CutUpTo(t.chunks, buf, r)
  BY Zenon DEF Moved
<1>2. \A i \in 1 .. h : t.chunk_buf[i] = buf[r + i]
  BY Zenon DEF Moved
<1>3. \A i \in 1 .. length : t.front[p + i] = buf[r + h + i]
  BY Zenon DEF Moved
<1>4. /\ length \in Nat /\ p \in Nat /\ h + length <= MaxChunkSize /\ p + length <= Len(t.front)
      /\ n \in Nat /\ n = Len(buf) - r /\ n <= MaxChunkSize
  <2>1. Len(buf) \in Nat
    OBVIOUS
  <2> HIDE DEF h, p
  <2> QED
    BY ONLY WindowFits, <1>1, <2>1, Sizes
<1> HIDE DEF length
<1>5. Flushed(u, t, t.front, length)
  <2>1. t.chunkhead \in Nat /\ t.RFPhead \in Nat
    BY <1>1, <1>4
  <2>2. t.chunkhead + length <= MaxChunkSize /\ t.RFPhead + length <= Len(t.front) /\ length \in Nat
    BY <1>4, Zenon
  <2> QED
    BY <1>1, <2>1, <2>2, FlushAdds
<1>6. Remainder(t) = IF u.left # "no" THEN u ELSE v
  BY Zenon DEF Remainder, length
<1>7. v = uploadChunk(u, u.chunk_buf, length + t.backup)
  OBVIOUS
<1> HIDE DEF u, v
<1>8. /\ IsKept(u) /\ u.left = "no" /\ u.backup = h /\ u.chunks = t.chunks
      /\ u.chunk_buf \in [1 .. MaxChunkSize -> Int]
  BY <1>1, <1>5 DEF Flushed, Fields, IsKept
<1>9. u.chunk_buf \in Seq(Int) /\ Len(u.chunk_buf) = MaxChunkSize
  BY <1>8, Sizes, SMTT(30)
<1>10. Uploaded(v, u, u.chunk_buf, n)
  <2>1. v = uploadChunk(u, u.chunk_buf, n)
    BY <1>1, <1>7
  <2>2. n \in 0 .. Len(u.chunk_buf)
    BY <1>4, <1>9
  <2>3. u.chunks \in Seq(Seq(Int))
    BY <1>1, <1>8 DEF CutUpTo
  <2> HIDE DEF n
  <2> QED
    BY <1>8, <1>9, <2>1, <2>2, <2>3, UploadAdds
<1> DEFINE c == SubSeq(u.chunk_buf, 1, n)
<1>11. v.chunks = Append(t.chunks, c)
  BY <1>8, <1>10 DEF Uploaded
<1>12. c \in Seq(Int) /\ Len(c) = n /\ \A i \in 1 .. n : c[i] = u.chunk_buf[i]
  <2> HIDE DEF n
  <2>0. 1 .. n \subseteq 1 .. MaxChunkSize
    BY ONLY <1>4, Sizes
  <2>1. \A i \in 1 .. n : u.chunk_buf[i] \in Int
    BY ONLY <1>8, <2>0
  <2>2. 1 \in Int /\ n \in Int
    BY <1>4
  <2>3. /\ c \in Seq(Int) /\ Len(c) = (IF 1 <= n THEN n - 1 + 1 ELSE 0)
        /\ \A i \in 1 .. n - 1 + 1 : c[i] = u.chunk_buf[1 + i - 1]
    BY <2>1, <2>2, SubSeqProperties
  <2> HIDE DEF c
  <2>4. n - 1 + 1 = n /\ (IF 1 <= n THEN n - 1 + 1 ELSE 0) = n /\ \A i \in 1 .. n : 1 + i - 1 = i
    BY <1>4
  <2> QED
    BY ONLY <2>3, <2>4
<1> HIDE DEF c
<1>13. ASSUME NEW i \in 1 .. n PROVE u.chunk_buf[i] = buf[r + i]
  <2>1. CASE i <= h
    <3>1. i \in 1 .. h
      BY <1>1, <1>4, <2>1
    <3>2. u.chunk_buf[i] = t.chunk_buf[i]
      BY <1>5, <3>1 DEF Flushed
    <3> QED
      BY <1>2, <3>1, <3>2
  <2>2. CASE ~(i <= h)
    <3> DEFINE j == i - h
    <3>1. j \in 1 .. length /\ h + j = i /\ r + h + j = r + i
      <4>1. /\ h \in Nat /\ length \in Nat /\ i \in 1 .. length + h
            /\ r \in 0 .. Len(buf) /\ Len(buf) \in Nat
        BY <1>1, <1>4
      <4> HIDE DEF h
      <4> QED
        BY ONLY <4>1, <2>2
    <3> HIDE DEF j
    <3>2. u.chunk_buf[h + j] = t.front[p + j]
      BY <1>5, <3>1 DEF Flushed
    <3>3. t.front[p + j] = buf[r + h + j]
      BY <1>3, <3>1
    <3> QED
      BY ONLY <3>1, <3>2, <3>3
  <2> QED
    BY <2>1, <2>2, Zenon
<1>14. /\ Len(c) = Len(buf) - r /\ Len(c) <= MaxChunkSize
       /\ \A i \in 1 .. Len(c) : c[i] = buf[r + i]
  <2>1. \A i \in 1 .. n : c[i] = buf[r + i]
    BY <1>12, <1>13, Zenon
  <2> HIDE DEF n
  <2> QED
    BY ONLY <1>4, <1>12, <2>1
<1>15. WellCut(Append(t.chunks, c), buf)
  BY <1>1, <1>12, <1>14, LastChunk
<1> QED
  BY <1>6, <1>8, <1>11, <1>15

\* A file of at most a window's bytes is one chunk.
LEMMA ShortFile ==
    ASSUME WindowFits, NEW file \in Seq(Int), file # <<>>, Len(file) <= m
    PROVE  LET t == Block(NewFile, file) IN
           t.left = "no" /\ t.front = <<>> /\ WellCut(t.chunks, file)
<1> DEFINE t == uploadChunk(NewFile, file, Len(file))
           c == SubSeq(file, 1, Len(file))
<1>1. Block(NewFile, file) = t
  <2>1. <<>> \o file = file
    BY ConcatEmptySeq
  <2> QED
    BY <2>1, NewFileIs DEF Block
<1>2. Uploaded(t, NewFile, file, Len(file))
  <2>1. Len(file) \in 0 .. Len(file) /\ NewFile.chunks \in Seq(Seq(Int))
    BY NewFileIs
  <2> QED
    BY <2>1, NewFileIs, UploadAdds
<1> HIDE DEF t
<1>3. t.left = "no" /\ t.front = <<>> /\ t.chunks = Append(<<>>, c)
  BY <1>2, NewFileIs DEF Uploaded, Fields
<1>4. c = file
  BY SubSeqFull
<1>5. WellCut(Append(<<>>, file), file)
  <2>1. CutUpTo(<<>>, file, 0)
    BY NewFileIs
  <2>2. /\ 0 \in 0 .. Len(file) /\ Len(file) = Len(file) - 0 /\ Len(file) <= MaxChunkSize
        /\ \A i \in 1 .. Len(file) : file[i] = file[0 + i]
    BY Sizes
  <2> QED
    BY <2>1, <2>2, LastChunk
<1> QED
  BY <1>1, <1>3, <1>4, <1>5

\* There is nothing to slide over.
LEMMA NoWindows == ASSUME NEW s, NEW buf PROVE Windows(s, buf, 0) = s
<1> DEFINE slid[i \in 0 .. 0] == IF i = 0 THEN s ELSE Window(slid[i - 1], buf, i)
           g == [i \in 0 .. 0 |-> s]
<1>1. g = [i \in 0 .. 0 |-> IF i = 0 THEN s ELSE Window(g[i - 1], buf, i)]
  OBVIOUS
<1>2. slid = [i \in 0 .. 0 |-> IF i = 0 THEN s ELSE Window(slid[i - 1], buf, i)]
  <2> HIDE DEF g
  <2> QED
    BY <1>1
<1>3. Windows(s, buf, 0) = slid[0]
  BY DEF Windows
<1> HIDE DEF slid
<1> QED
  BY <1>2, <1>3

\* A file of a window and one byte ends at its first window.
LEMMA BreakingFile ==
    ASSUME WindowFits, NEW file \in Seq(Int), Len(file) = m + 1
    PROVE  LET t == Block(NewFile, file) IN
           t.left = "break" /\ t.front = <<>> /\ WellCut(t.chunks, file)
<1>1. PICK first : /\ Sliding(first, file, 0)
                   /\ FirstWindow(NewFile, file) =
                        IF Len(file) # m + 1 THEN first
                        ELSE [cut(first, file, m - first.RFPhead + 1) EXCEPT !.left = "break"]
  BY FirstWindowSlides
<1> DEFINE length == m - first.RFPhead + 1
           u == cut(first, file, length)
           t == [u EXCEPT !.left = "break"]
<1>2. FirstWindow(NewFile, file) = t
  BY <1>1
<1>3. Windows(t, file, 0) = t
  BY NoWindows
<1>4. Block(NewFile, file) = MoveToFront(t, file, 0)
  <2>1. <<>> \o file = file
    BY ConcatEmptySeq
  <2>2. Len(file) - m - 1 = 0 /\ ~(Len(file) <= m)
    BY Sizes
  <2> HIDE DEF t
  <2> QED
    BY <1>2, <1>3, <2>1, <2>2, NewFileIs DEF Block
<1>5. /\ IsKept(first) /\ first.left = "no" /\ first.front = <<>> /\ first.chunkhead = 0
      /\ first.RFPhead \in 0 .. 0 + m /\ CutUpTo(first.chunks, file, first.RFPhead)
  BY <1>1, Zenon DEF Sliding
<1>6. /\ length \in 1 .. MaxChunkSize /\ first.RFPhead \in Nat /\ first.RFPhead <= Len(file)
      /\ first.RFPhead + length = Len(file)
  BY <1>5, Sizes
<1>7. first.chunks \in Seq(Seq(Int)) /\ FlattenSeq(first.chunks) = SubSeq(file, 1, first.RFPhead)
  BY <1>5 DEF CutUpTo
<1>8. CutOff(u, first, file, length)
  <2>1. first.RFPhead + length <= Len(file)
    BY <1>6
  <2> HIDE DEF length
  <2> QED
    BY <1>5, <1>6, <1>7, <2>1, CutTakes
<1> HIDE DEF u, length
<1>9. DOMAIN u = Fields /\ u.front = <<>>
  BY <1>5, <1>8 DEF CutOff, IsKept
<1>10. t.left = "break" /\ t.front = <<>> /\ t.chunks = u.chunks
  BY <1>9 DEF Fields
<1> HIDE DEF t
<1>11. MoveToFront(t, file, 0) = t
  BY <1>10 DEF MoveToFront
<1>12. WellCut(u.chunks, file)
  <2>1. PICK c \in Seq(Int) : Len(c) = length /\ u.chunks = Append(first.chunks, c)
    BY <1>8 DEF CutOff
  <2>2. FlattenSeq(u.chunks) = file
    <3>1. FlattenSeq(u.chunks) = SubSeq(file, 1, Len(file))
      BY <1>6, <1>8 DEF CutOff
    <3> QED
      BY <3>1, SubSeqFull
  <2>3. Len(u.chunks) = Len(first.chunks) + 1 /\ u.chunks \in Seq(Seq(Int))
    BY <1>7, <2>1, AppendProperties
  <2>4. u.chunks[Len(first.chunks) + 1] = c
        /\ \A i \in 1 .. Len(first.chunks) : u.chunks[i] = first.chunks[i]
    BY <1>7, <2>1, AppendProperties
  <2>5. Len(first.chunks) \in Nat /\ DOMAIN u.chunks = 1 .. Len(first.chunks) + 1
    BY <1>7, <2>3
  <2>6. ASSUME NEW i \in 1 .. Len(first.chunks) + 1
        PROVE  Len(u.chunks[i]) <= MaxChunkSize /\ (i < Len(u.chunks) => Len(u.chunks[i]) >= m)
    <3>1. CASE i = Len(first.chunks) + 1
      <4>1. Len(u.chunks[i]) = length /\ ~(i < Len(u.chunks))
        BY <2>1, <2>3, <2>4, <2>5, <3>1
      <4> QED
        BY <1>6, <4>1, Sizes
    <3>2. CASE i \in 1 .. Len(first.chunks)
      <4>1. u.chunks[i] = first.chunks[i]
        BY <2>4, <3>2
      <4>2. Len(first.chunks[i]) \in m .. MaxChunkSize
        BY <1>5, <3>2, Zenon DEF CutUpTo
      <4>3. Len(first.chunks[i]) <= MaxChunkSize /\ Len(first.chunks[i]) >= m
        BY ONLY WindowFits, <4>2, Sizes
      <4> QED
        BY ONLY <4>1, <4>3
    <3>3. i = Len(first.chunks) + 1 \/ i \in 1 .. Len(first.chunks)
      BY <2>5
    <3> QED
      BY ONLY <3>1, <3>2, <3>3, Zenon
  <2> QED
    BY <2>2, <2>5, <2>6, Zenon DEF WellCut
<1> QED
  BY <1>4, <1>10, <1>11, <1>12, Zenon

\* A longer file leaves a remainder.
LEMMA LongFile ==
    ASSUME WindowFits, NEW file \in Seq(Int), Len(file) > m + 1
    PROVE  LET t == Block(NewFile, file) IN
           t.left = "no" /\ t.front # <<>> /\ WellCut(Remainder(t).chunks, file)
<1> DEFINE last == Len(file) - m - 1
           begun == FirstWindow(NewFile, file)
           s == Windows(begun, file, last)
           t == MoveToFront(s, file, last)
<1>1. last \in Nat /\ Len(file) = last + m + 1 /\ last + m <= Len(file) /\ Len(file) >= m + 1
      /\ Len(file) # m + 1 /\ ~(Len(file) <= m)
  BY Sizes
<1>2. Block(NewFile, file) = t
  <2>1. <<>> \o file = file
    BY ConcatEmptySeq
  <2> QED
    BY <1>1, <2>1, NewFileIs DEF Block
<1>3. Sliding(begun, file, 0)
  BY <1>1, FirstWindowSlides
<1> HIDE DEF last, begun
<1>4. Sliding(s, file, last)
  BY <1>1, <1>3, WindowsSlide
<1> HIDE DEF s
<1>5. Moved(t, file, s.RFPhead)
  BY <1>1, <1>4, FrontMoves
<1> HIDE DEF t
<1>6. WellCut(Remainder(t).chunks, file)
  BY <1>5, RemainderFits
<1>7. t.left = "no" /\ Len(t.front) = m + 1
  BY <1>5, Zenon DEF Moved
<1>8. t.front # <<>>
  BY <1>7, Sizes
<1> QED
  BY <1>2, <1>6, <1>7, <1>8, Zenon

\* chunking cuts any file that one read of the buffer takes into chunks that are the file.
LEMMA FileIsWellCut ==
    ASSUME NEW file \in Seq(Int), Fits(file)
    PROVE  WellCut(chunking(file).chunks, file)
<1> DEFINE reads == Reads(file)
           after[k \in 0 .. Len(reads)] == IF k = 0 THEN NewFile ELSE Block(after[k - 1], reads[k])
           read == after[Len(reads)]
<1>0. WindowFits
  BY DEF Fits
<1>1. chunking(file) = IF read.front = <<>> \/ read.left = "exception" THEN read
                       ELSE Remainder(read)
  BY Zenon DEF chunking
<1>2. CASE file = <<>>
  <2>1. reads = <<>> /\ Len(reads) = 0
    BY <1>2 DEF Reads
  <2> DEFINE g == [k \in 0 .. 0 |-> NewFile]
  <2>2. g = [k \in 0 .. 0 |-> IF k = 0 THEN NewFile ELSE Block(g[k - 1], reads[k])]
    OBVIOUS
  <2> HIDE DEF g, reads
  <2>3. after = [k \in 0 .. 0 |-> IF k = 0 THEN NewFile ELSE Block(after[k - 1], reads[k])]
    BY <2>1, <2>2
  <2> HIDE DEF after
  <2>4. read = NewFile
    BY <2>1, <2>3
  <2> HIDE DEF read
  <2>5. chunking(file).chunks = <<>>
    BY <1>1, <1>0, <2>4, NewFileIs
  <2>6. FlattenSeq(<<>>) = <<>>
    BY DEF FlattenSeq
  <2> QED
    BY <1>2, <2>5, <2>6 DEF WellCut
<1>3. CASE file # <<>>
  <2>1. Slice(file, 0, Len(file)) = file
    BY SubSeqFull DEF Slice
  <2>2. reads = <<file>>
    <3> DEFINE step == BUFFER_SIZE - (m + 1)
               at(k) == BUFFER_SIZE + (k - 1) * step
               none == [k \in 1 .. 0 |->
                          SubSeq(file, at(k) + 1, IF k = 0 THEN Len(file) ELSE at(k) + step)]
    <3>1. reads = <<Slice(file, 0, Len(file))>> \o none
      BY <1>3 DEF Reads, Fits
    <3>2. none = <<>>
      OBVIOUS
    <3> HIDE DEF none
    <3> QED
      BY <2>1, <3>1, <3>2
  <2>3. Len(reads) = 1 /\ reads[1] = file
    BY <2>2
  <2> HIDE DEF reads
  <2> DEFINE t == Block(NewFile, file)
             g == [k \in 0 .. 1 |-> IF k = 0 THEN NewFile ELSE t]
  <2>4. g = [k \in 0 .. 1 |-> IF k = 0 THEN NewFile ELSE Block(g[k - 1], reads[k])]
    <3>1. g[0] = NewFile /\ \A k \in 0 .. 1 : k # 0 => k = 1 /\ k - 1 = 0
      OBVIOUS
    <3>2. \A k \in 0 .. 1 : k # 0 => t = Block(g[k - 1], reads[k])
      BY <2>3, <3>1
    <3> QED
      BY <3>2
  <2> HIDE DEF g, t
  <2>5. after = [k \in 0 .. 1 |-> IF k = 0 THEN NewFile ELSE Block(after[k - 1], reads[k])]
    BY <2>3, <2>4
  <2> HIDE DEF after
  <2>6. read = t
    BY <2>3, <2>5 DEF t
  <2> HIDE DEF read
  <2>7. Len(file) \in Nat /\ m \in Nat
    BY <1>0, Sizes
  <2>8. CASE Len(file) <= m
    <3>1. t.front = <<>> /\ WellCut(t.chunks, file)
      BY <1>3, <1>0, <2>8, ShortFile DEF t
    <3> QED
      BY <1>1, <2>6, <3>1
  <2>9. CASE Len(file) = m + 1
    <3>1. t.front = <<>> /\ WellCut(t.chunks, file)
      BY <1>0, <2>9, BreakingFile DEF t
    <3> QED
      BY <1>1, <2>6, <3>1
  <2>10. CASE Len(file) > m + 1
    <3>1. t.left = "no" /\ t.front # <<>> /\ WellCut(Remainder(t).chunks, file)
      BY <1>0, <2>10, LongFile DEF t
    <3> QED
      BY <1>1, <2>6, <3>1
  <2> QED
    BY <2>7, <2>8, <2>9, <2>10
<1> QED
  BY <1>2, <1>3

\* ChunksAreTheFile: of any file that one read of the buffer takes, for any fingerprint and
\* any maximum chunk size greater than the window, the chunks in their order are the file,
\* byte for byte.
THEOREM ChunksMakeTheFile == Spec => []ChunksAreTheFile
<1>1. ChunksAreTheFile
  <2>1. ASSUME NEW f \in AllFiles, Fits(f) PROVE RestoredFrom(f)
    <3>1. f \in Seq(Int)
      BY MyDedupAssumption
    <3> QED
      BY <2>1, <3>1, FileIsWellCut DEF RestoredFrom, WellCut
  <2> QED
    BY <2>1 DEF ChunksAreTheFile, FirstUpload
<1> QED
  BY <1>1, PTL

\* ChunkSizes: under the same two conditions no chunk of a file exceeds maximum_chunk_size, and only the last one
\* may be smaller than the window.
THEOREM ChunksHaveSizes == Spec => []ChunkSizes
<1>1. ChunkSizes
  <2>1. ASSUME NEW f \in AllFiles, Fits(f) PROVE SizesFit(f)
    <3>1. f \in Seq(Int)
      BY MyDedupAssumption
    <3> QED
      BY <2>1, <3>1, FileIsWellCut DEF SizesFit, WellCut
  <2> QED
    BY <2>1 DEF ChunkSizes, FirstUpload
<1> QED
  BY <1>1, PTL

-----------------------------------------------------------------------------
(* Functions that are made value by value *)

\* A sequence of numbers, each made from the one before.
LEMMA Iterates ==
    ASSUME NEW a \in Int, NEW Turn \in [Nat -> [Int -> Int]]
    PROVE  \E f \in [Nat -> Int] : f[0] = a /\ \A k \in Nat : f[k + 1] = Turn[k][f[k]]
<1> DEFINE Good(g, k) == /\ g \in [0 .. k -> Int]
                         /\ g[0] = a
                         /\ \A i \in 0 .. k - 1 : g[i + 1] = Turn[i][g[i]]
           G == {k \in Nat : \E g : Good(g, k)}
<1>1. 0 \in G
  <2>1. Good([i \in 0 .. 0 |-> a], 0)
    OBVIOUS
  <2> QED
    BY <2>1
<1>2. ASSUME NEW k \in Nat, NEW h, Good(h, k) PROVE \E g : Good(g, k + 1)
  <2> DEFINE e == Turn[k][h[k]]
             g == [i \in 0 .. k + 1 |-> IF i = k + 1 THEN e ELSE h[i]]
  <2>1. e \in Int
    <3>1. h[k] \in Int /\ Turn[k] \in [Int -> Int]
      BY <1>2
    <3> QED
      BY <3>1
  <2> HIDE DEF e
  <2>2. g \in [0 .. k + 1 -> Int] /\ g[k + 1] = e /\ \A i \in 0 .. k : g[i] = h[i]
    <3>1. h \in [0 .. k -> Int]
      BY <1>2
    <3>2. \A i \in 0 .. k : i \in 0 .. k + 1 /\ i # k + 1
      OBVIOUS
    <3>3. \A i \in 0 .. k + 1 : i # k + 1 => i \in 0 .. k
      OBVIOUS
    <3>4. k + 1 \in 0 .. k + 1
      OBVIOUS
    <3>5. g[k + 1] = e
      BY <3>4
    <3>6. \A i \in 0 .. k : g[i] = h[i]
      BY <3>2
    <3>7. \A i \in 0 .. k + 1 : g[i] \in Int
      BY <2>1, <3>1, <3>3
    <3> QED
      BY <3>5, <3>6, <3>7
  <2> HIDE DEF g
  <2>3. g[0] = a
    BY <1>2, <2>2
  <2>4. ASSUME NEW i \in 0 .. (k + 1) - 1 PROVE g[i + 1] = Turn[i][g[i]]
    <3>1. CASE i \in 0 .. k - 1
      <4>1. h[i + 1] = Turn[i][h[i]]
        BY <1>2, <3>1
      <4>2. i \in 0 .. k /\ i + 1 \in 0 .. k
        BY ONLY <3>1, k \in Nat
      <4>3. g[i + 1] = h[i + 1] /\ g[i] = h[i]
        BY <2>2, <4>2, Zenon
      <4> QED
        BY ONLY <4>1, <4>3
    <3>2. CASE i = k
      <4>1. g[i + 1] = e /\ g[i] = h[i] /\ e = Turn[i][h[i]]
        BY <2>2, <3>2 DEF e
      <4> QED
        BY ONLY <4>1
    <3> QED
      BY <3>1, <3>2
  <2>5. Good(g, k + 1)
    BY <2>2, <2>3, <2>4
  <2> QED
    BY <2>5
<1>3. ASSUME NEW k \in Nat, NEW l \in Nat, NEW g, NEW h, Good(g, k), Good(h, l),
             NEW i \in Nat, i <= k, i <= l
      PROVE  g[i] = h[i]
  <2> DEFINE N == {j \in Nat : j <= k /\ j <= l => g[j] = h[j]}
  <2>1. 0 \in N
    BY <1>3
  <2>2. ASSUME NEW j \in Nat, j \in N PROVE j + 1 \in N
    <3> SUFFICES ASSUME j + 1 <= k, j + 1 <= l PROVE g[j + 1] = h[j + 1]
      BY <2>2, SMTT(30)
    <3>1. g[j] = h[j] /\ j \in 0 .. k - 1 /\ j \in 0 .. l - 1
      BY <2>2
    <3>2. g[j + 1] = Turn[j][g[j]] /\ h[j + 1] = Turn[j][h[j]]
      BY <1>3, <3>1
    <3> QED
      BY <3>1, <3>2
  <2> HIDE DEF N
  <2>3. i \in N
    BY <2>1, <2>2, FromZeroOn
  <2> QED
    BY <1>3, <2>3 DEF N
<1>4. \A k \in Nat : k \in G => k + 1 \in G
  <2> HIDE DEF Good
  <2> QED
    BY <1>2
<1> HIDE DEF G
<1>5. Nat \subseteq G
  BY <1>1, <1>4, FromZeroOn
<1> DEFINE best(k) == CHOOSE g : Good(g, k)
           f == [k \in Nat |-> best(k)[k]]
<1>6. ASSUME NEW k \in Nat PROVE Good(best(k), k)
  <2> HIDE DEF Good
  <2>1. \E g : Good(g, k)
    BY <1>5 DEF G
  <2> QED
    BY <2>1, Zenon
<1> HIDE DEF best
<1>7. \A k \in Nat : best(k) \in [0 .. k -> Int] /\ f[k] \in Int
  BY <1>6
<1>8. f[0] = a
  BY <1>6
<1>9. ASSUME NEW k \in Nat PROVE f[k + 1] = Turn[k][f[k]]
  <2>1. best(k + 1)[k + 1] = Turn[k][best(k + 1)[k]]
    <3>1. Good(best(k + 1), k + 1) /\ k \in 0 .. (k + 1) - 1
      BY <1>6
    <3> QED
      BY <3>1
  <2>2. best(k + 1)[k] = best(k)[k]
    <3>1. Good(best(k + 1), k + 1) /\ Good(best(k), k)
      <4>1. k + 1 \in Nat
        OBVIOUS
      <4> HIDE DEF Good
      <4> QED
        BY <4>1, <1>6, Zenon
    <3>2. k <= k + 1 /\ k + 1 \in Nat
      OBVIOUS
    <3>3. k <= k
      OBVIOUS
    <3> HIDE DEF Good
    <3>4. \A g, h : Good(g, k + 1) /\ Good(h, k) => g[k] = h[k]
      BY <3>2, <3>3, <1>3
    <3> QED
      BY <3>1, <3>4, Zenon
  <2> QED
    BY <2>1, <2>2
<1> HIDE DEF f
<1>10. f \in [Nat -> Int]
  BY <1>7 DEF f
<1> QED
  BY <1>8, <1>9, <1>10

-----------------------------------------------------------------------------
(* Numbers that the anchor mask does not tell apart *)

Same(a, b) == \E k \in Int : a = b + k * AnchorMod

\* The numbers of the fingerprint, and that the mask divides its modulus.
LEMMA Moduli ==
    /\ AnchorMod \in Nat /\ AnchorMod >= 1 /\ q \in Nat /\ q >= 1 /\ d \in Nat
    /\ \E c \in Nat : q = c * AnchorMod
<1>1. AnchorMod \in Nat /\ AnchorMod >= 1 /\ q \in Nat /\ q >= 1 /\ d \in Nat /\ q % AnchorMod = 0
  BY ChunkingAssumption
<1>2. q \div AnchorMod \in Nat /\ q = (q \div AnchorMod) * AnchorMod
  BY <1>1
<1> QED
  BY <1>1, <1>2

\* This is an equivalence.
LEMMA SameIsEquivalence ==
    ASSUME NEW a \in Int, NEW b \in Int, NEW c \in Int
    PROVE  /\ Same(a, a)
           /\ Same(a, b) => Same(b, a)
           /\ Same(a, b) /\ Same(b, c) => Same(a, c)
<1>0. AnchorMod \in Int
  BY Moduli
<1>1. a = a + 0 * AnchorMod
  BY <1>0
<1>2. ASSUME NEW k \in Int, a = b + k * AnchorMod PROVE b = a + (- k) * AnchorMod /\ - k \in Int
  BY <1>0, <1>2
<1>3. ASSUME NEW k \in Int, NEW l \in Int, a = b + k * AnchorMod, b = c + l * AnchorMod
      PROVE  a = c + (k + l) * AnchorMod /\ k + l \in Int
  BY <1>0, <1>3
<1>4. Same(a, a)
  BY <1>1 DEF Same
<1>5. Same(a, b) => Same(b, a)
  BY <1>2 DEF Same
<1>6. Same(a, b) /\ Same(b, c) => Same(a, c)
  BY <1>3 DEF Same
<1> QED
  BY <1>4, <1>5, <1>6

\* Sums and differences keep it.
LEMMA SameSums ==
    ASSUME NEW a \in Int, NEW b \in Int, NEW x \in Int, NEW y \in Int, Same(a, b), Same(x, y)
    PROVE  /\ Same(a + x, b + y)
           /\ Same(a - x, b - y)
<1>0. AnchorMod \in Int
  BY Moduli
<1>1. PICK k \in Int : a = b + k * AnchorMod
  BY DEF Same
<1>2. PICK l \in Int : x = y + l * AnchorMod
  BY DEF Same
<1>3. a + x = (b + y) + (k + l) * AnchorMod /\ a - x = (b - y) + (k - l) * AnchorMod
  BY <1>0, <1>1, <1>2
<1>4. k + l \in Int /\ k - l \in Int
  OBVIOUS
<1> QED
  BY <1>3, <1>4 DEF Same

\* Products keep it.
LEMMA SameProducts ==
    ASSUME NEW a \in Int, NEW b \in Int, NEW c \in Int, Same(a, b)
    PROVE  Same(c * a, c * b) /\ Same(a * c, b * c)
<1>0. AnchorMod \in Int
  BY Moduli
<1>1. PICK k \in Int : a = b + k * AnchorMod
  BY DEF Same
<1>2. c * a = c * b + (c * k) * AnchorMod /\ a * c = b * c + (c * k) * AnchorMod
  BY <1>0, <1>1
<1>3. c * k \in Int
  OBVIOUS
<1> QED
  BY <1>2, <1>3 DEF Same

\* Java's % keeps it, of a negative number too.
LEMMA RemIsSame ==
    ASSUME NEW a \in Int
    PROVE  Rem(a) \in Int /\ Same(Rem(a), a) /\ (a >= 0 => Rem(a) \in Nat)
<1>1. PICK c \in Nat : q = c * AnchorMod
  BY Moduli
<1>0. AnchorMod \in Int /\ q \in Nat /\ q >= 1
  BY Moduli
<1>2. ASSUME NEW n \in Nat PROVE n % q \in Nat /\ n \div q \in Int /\ n % q = n - q * (n \div q)
  BY <1>0
<1>3. ASSUME NEW n \in Nat, NEW z \in Int PROVE q * z = (c * z) * AnchorMod /\ c * z \in Int
  BY <1>0, <1>1
<1>4. CASE a >= 0
  <2>1. a \in Nat /\ Rem(a) = a % q
    BY <1>4 DEF Rem
  <2>2. a \div q \in Int /\ a % q \in Nat /\ a % q = a - q * (a \div q)
    BY <1>2, <2>1
  <2> DEFINE z == a \div q
             r == a % q
  <2> HIDE DEF z, r
  <2>3. r = a - q * z /\ z \in Int /\ r \in Nat
    BY <2>2 DEF z, r
  <2>4. r = a + (- (c * z)) * AnchorMod /\ - (c * z) \in Int
    BY ONLY <2>3, <1>0, <1>1, a \in Int
  <2>5. Same(r, a)
    BY <2>4 DEF Same
  <2> QED
    BY <2>1, <2>3, <2>5 DEF r
<1>5. CASE a < 0
  <2>1. - a \in Nat /\ Rem(a) = - ((- a) % q)
    BY <1>5 DEF Rem
  <2>2. (- a) \div q \in Int /\ (- a) % q \in Nat /\ (- a) % q = (- a) - q * ((- a) \div q)
    BY <1>2, <2>1
  <2> DEFINE z == (- a) \div q
             r == (- a) % q
  <2> HIDE DEF z, r
  <2>3. r = (- a) - q * z /\ z \in Int /\ r \in Nat
    BY <2>2 DEF z, r
  <2>4. - r = a + (c * z) * AnchorMod /\ c * z \in Int
    BY ONLY <2>3, <1>0, <1>1, a \in Int
  <2>5. Same(- r, a)
    BY <2>4 DEF Same
  <2> QED
    BY <1>5, <2>1, <2>3, <2>5 DEF r
<1> QED
  BY <1>4, <1>5

\* What isInterestedRFP asks has the same answer for both.
LEMMA SameRemainders ==
    ASSUME NEW a \in Int, NEW b \in Int, Same(a, b)
    PROVE  a % AnchorMod = 0 <=> b % AnchorMod = 0
<1>0. AnchorMod \in Nat /\ AnchorMod >= 1
  BY Moduli
<1>1. ASSUME NEW x \in Int, NEW y \in Int, NEW k \in Int, x = y + k * AnchorMod, y % AnchorMod = 0
      PROVE  x % AnchorMod = 0
  <2> DEFINE z == y \div AnchorMod
             w == x \div AnchorMod
             r == x % AnchorMod
  <2>1. z \in Int /\ y = z * AnchorMod
    BY <1>0, <1>1
  <2>2. w \in Int /\ r \in Int /\ 0 <= r /\ r < AnchorMod /\ x = w * AnchorMod + r
    BY <1>0
  <2> HIDE DEF z, w, r
  <2>3. r = (z + k - w) * AnchorMod
    BY ONLY <1>0, <1>1, <2>1, <2>2, k \in Int, x \in Int, y \in Int
  <2>4. PICK n \in Int : n = z + k - w
    BY <2>1, <2>2
  <2>5. r = n * AnchorMod
    BY <2>3, <2>4
  <2>6. n >= 1 => n * AnchorMod >= AnchorMod
    BY ONLY <1>0, n \in Int
  <2>7. n <= -1 => n * AnchorMod <= - AnchorMod
    BY ONLY <1>0, n \in Int
  <2>8. n = 0
    BY ONLY <1>0, <2>2, <2>5, <2>6, <2>7, n \in Int
  <2>9. r = 0
    BY ONLY <1>0, <2>5, <2>8
  <2> QED
    BY <2>9 DEF r
<1>2. PICK k \in Int : a = b + k * AnchorMod
  BY DEF Same
<1>3. Same(b, a)
  BY SameIsEquivalence
<1>4. PICK l \in Int : b = a + l * AnchorMod
  BY <1>3 DEF Same
<1> QED
  BY <1>1, <1>2, <1>4

\* The same, of n more numbers.
LEMMA IteratesUpTo ==
    ASSUME NEW n \in Nat, NEW a \in Int, NEW Turn \in [0 .. n - 1 -> [Int -> Int]]
    PROVE  \E f \in [0 .. n -> Int] : f[0] = a /\ \A k \in 0 .. n - 1 : f[k + 1] = Turn[k][f[k]]
<1> DEFINE G == [k \in Nat |-> IF k \in 0 .. n - 1 THEN Turn[k] ELSE [x \in Int |-> x]]
<1>1. G \in [Nat -> [Int -> Int]] /\ \A k \in 0 .. n - 1 : G[k] = Turn[k]
  OBVIOUS
<1> HIDE DEF G
<1>2. PICK g \in [Nat -> Int] : g[0] = a /\ \A k \in Nat : g[k + 1] = G[k][g[k]]
  BY <1>1, Iterates
<1> DEFINE f == [i \in 0 .. n |-> g[i]]
<1>3. f \in [0 .. n -> Int] /\ \A i \in 0 .. n : f[i] = g[i]
  OBVIOUS
<1> HIDE DEF f
<1>4. f[0] = a
  BY <1>2, <1>3
<1>5. ASSUME NEW k \in 0 .. n - 1 PROVE f[k + 1] = Turn[k][f[k]]
  <2>1. k \in Nat /\ k \in 0 .. n /\ k + 1 \in 0 .. n
    OBVIOUS
  <2>2. g[k + 1] = G[k][g[k]]
    BY <1>2, <2>1
  <2>3. f[k + 1] = g[k + 1] /\ f[k] = g[k] /\ G[k] = Turn[k]
    BY <1>1, <1>3, <2>1
  <2> QED
    BY ONLY <2>2, <2>3
<1> QED
  BY <1>3, <1>4, <1>5

-----------------------------------------------------------------------------
(* Powers *)

\* Power has the values its recursive definition says.
LEMMA PowerIs ==
    ASSUME NEW base \in Int
    PROVE  /\ Power(base)[0] = 1
           /\ \A k \in Nat : Power(base)[k] \in Int /\ Power(base)[k + 1] = base * Power(base)[k]
<1> DEFINE Turn == [k \in Nat |-> [x \in Int |-> base * x]]
<1>1. Turn \in [Nat -> [Int -> Int]] /\ \A k \in Nat, x \in Int : Turn[k][x] = base * x
  OBVIOUS
<1> HIDE DEF Turn
<1>2. PICK f \in [Nat -> Int] : f[0] = 1 /\ \A k \in Nat : f[k + 1] = Turn[k][f[k]]
  <2>1. 1 \in Int
    OBVIOUS
  <2> QED
    BY <1>1, <2>1, Iterates, Zenon
<1>3. \A k \in Nat : f[k + 1] = base * f[k]
  BY <1>1, <1>2
<1>4. ASSUME NEW k \in Nat PROVE f[k] = IF k = 0 THEN 1 ELSE base * f[k - 1]
  <2>1. CASE k = 0
    BY <1>2, <2>1
  <2>2. CASE k # 0
    <3>1. k - 1 \in Nat /\ (k - 1) + 1 = k
      BY <2>2
    <3>2. f[(k - 1) + 1] = base * f[k - 1]
      BY <1>3, <3>1
    <3> QED
      BY <2>2, <3>1, <3>2
  <2> QED
    BY <2>1, <2>2
<1>5. f = [k \in Nat |-> IF k = 0 THEN 1 ELSE base * f[k - 1]]
  BY <1>4
<1> DEFINE power[k \in Nat] == IF k = 0 THEN 1 ELSE base * power[k - 1]
<1>6. power = [k \in Nat |-> IF k = 0 THEN 1 ELSE base * power[k - 1]]
  BY <1>5
<1>7. Power(base) = power
  BY Zenon DEF Power
<1> HIDE DEF power
<1>8. power[0] = 1
  BY <1>6
<1>9. ASSUME NEW k \in Nat PROVE power[k + 1] = base * power[k]
  <2>1. k + 1 \in Nat /\ k + 1 # 0 /\ (k + 1) - 1 = k
    OBVIOUS
  <2> QED
    BY <1>6, <2>1
<1> DEFINE N == {k \in Nat : power[k] \in Int}
<1>10. 0 \in N
  BY <1>8
<1>11. ASSUME NEW k \in Nat, k \in N PROVE k + 1 \in N
  BY <1>9, <1>11
<1>12. Nat \subseteq N
  <2> HIDE DEF N
  <2> QED
    BY <1>10, <1>11, FromZeroOn
<1> QED
  BY <1>7, <1>8, <1>9, <1>12

\* Squaring the base doubles the exponent.
LEMMA PowerOfSquare ==
    ASSUME NEW base \in Int, NEW n \in Nat
    PROVE  Power(base * base)[n] = Power(base)[n + n]
<1> DEFINE p == Power(base)
           s == Power(base * base)
           N == {k \in Nat : s[k] = p[k + k]}
<1>1. base * base \in Int
  OBVIOUS
<1>2. p[0] = 1 /\ \A k \in Nat : p[k] \in Int /\ p[k + 1] = base * p[k]
  BY PowerIs
<1>3. s[0] = 1 /\ \A k \in Nat : s[k] \in Int /\ s[k + 1] = (base * base) * s[k]
  BY <1>1, PowerIs
<1> HIDE DEF p, s
<1>4. 0 \in N
  BY <1>2, <1>3
<1>5. ASSUME NEW k \in Nat, k \in N PROVE k + 1 \in N
  <2>1. s[k] = p[k + k] /\ k + k \in Nat /\ (k + k) + 1 \in Nat
    BY <1>5
  <2>2. p[(k + k) + 1] = base * p[k + k] /\ p[((k + k) + 1) + 1] = base * p[(k + k) + 1]
    BY <1>2, <2>1
  <2>3. PICK x \in Int : x = p[k + k]
    BY <1>2, <2>1
  <2>4. base * (base * x) = (base * base) * x
    OBVIOUS
  <2>5. s[k + 1] = (base * base) * s[k]
    BY <1>3
  <2>6. s[k + 1] = p[((k + k) + 1) + 1]
    BY ONLY <2>1, <2>2, <2>3, <2>4, <2>5
  <2>7. ((k + k) + 1) + 1 = (k + 1) + (k + 1)
    OBVIOUS
  <2> QED
    BY <2>6, <2>7
<1> HIDE DEF N
<1>6. n \in N
  BY <1>4, <1>5, FromZeroOn
<1> QED
  BY <1>6 DEF N, s, p

\* Powers keep it.
LEMMA SamePowers ==
    ASSUME NEW a \in Int, NEW b \in Int, Same(a, b), NEW n \in Nat
    PROVE  Same(Power(a)[n], Power(b)[n])
<1> DEFINE p == Power(a)
           s == Power(b)
           N == {k \in Nat : Same(p[k], s[k])}
<1>1. p[0] = 1 /\ \A k \in Nat : p[k] \in Int /\ p[k + 1] = a * p[k]
  BY PowerIs
<1>2. s[0] = 1 /\ \A k \in Nat : s[k] \in Int /\ s[k + 1] = b * s[k]
  BY PowerIs
<1> HIDE DEF p, s
<1>3. 0 \in N
  BY <1>1, <1>2, SameIsEquivalence
<1>4. ASSUME NEW k \in Nat, k \in N PROVE k + 1 \in N
  <2>1. p[k] \in Int /\ s[k] \in Int /\ Same(p[k], s[k])
    BY <1>1, <1>2, <1>4
  <2> DEFINE x == p[k]
             y == s[k]
  <2>2. x \in Int /\ y \in Int /\ Same(x, y)
    BY <2>1
  <2>3. p[k + 1] = a * x /\ s[k + 1] = b * y
    BY <1>1, <1>2
  <2> HIDE DEF x, y
  <2>4. Same(a * x, a * y)
    BY <2>2, SameProducts
  <2>5. Same(a * y, b * y)
    BY <2>2, SameProducts
  <2>6. a * x \in Int /\ a * y \in Int /\ b * y \in Int
    BY <2>2
  <2>7. Same(a * x, b * y)
    BY ONLY <2>4, <2>5, <2>6, SameIsEquivalence
  <2> QED
    BY <2>3, <2>7
<1> HIDE DEF N
<1>5. n \in N
  BY <1>3, <1>4, FromZeroOn
<1> QED
  BY <1>5 DEF N, s, p

\* set_d_power_m_mod squares the base and halves the exponent; what it returns is as good
\* as d^m.
LEMMA d_powerIs == set_d_power_m_mod \in Int /\ Same(set_d_power_m_mod, Power(d)[m])
<1> DEFINE Entry(g, n) ==
             [base \in Nat |->
                IF n = 0 THEN 1
                ELSE LET rest == g[n \div 2][Rem(base * base)] IN
                     IF n % 2 = 1 THEN Rem(rest * base) ELSE rest]
           Good(g, k) == g = [n \in 0 .. k |-> Entry(g, n)]
           G == {k \in Nat : \E g : Good(g, k)}
<1>1. \A g, h : Entry(g, 0) = Entry(h, 0)
  OBVIOUS
<1>2. ASSUME NEW g, NEW h, NEW n, g[n \div 2] = h[n \div 2] PROVE Entry(g, n) = Entry(h, n)
  BY <1>2
<1>3. \A n \in Nat : n # 0 => n \div 2 \in 0 .. n - 1
  OBVIOUS
<1>4. ASSUME NEW g, NEW n \in Nat, NEW base \in Nat
      PROVE  Entry(g, n)[base] =
                IF n = 0 THEN 1
                ELSE IF n % 2 = 1 THEN Rem(g[n \div 2][Rem(base * base)] * base)
                                  ELSE g[n \div 2][Rem(base * base)]
  OBVIOUS
<1> HIDE DEF Entry
<1>5. 0 \in G
  <2> DEFINE g == [n \in 0 .. 0 |-> Entry(<<>>, 0)]
  <2>1. g[0] = Entry(<<>>, 0) /\ g = [n \in 0 .. 0 |-> g[n]]
    OBVIOUS
  <2> HIDE DEF g
  <2>2. \A n \in 0 .. 0 : g[n] = Entry(g, n)
    BY <1>1, <2>1
  <2>3. Good(g, 0)
    BY <2>1, <2>2
  <2> QED
    BY <2>3
<1>6. ASSUME NEW k \in Nat, NEW h, Good(h, k) PROVE \E g : Good(g, k + 1)
  <2> DEFINE e == Entry(h, k + 1)
             g == [n \in 0 .. k + 1 |-> IF n = k + 1 THEN e ELSE h[n]]
  <2> HIDE DEF e
  <2>1. g = [n \in 0 .. k + 1 |-> g[n]] /\ g[k + 1] = e /\ \A n \in 0 .. k : g[n] = h[n]
    OBVIOUS
  <2>2. \A n \in 0 .. k : h[n] = Entry(h, n)
    BY <1>6
  <2> HIDE DEF g
  <2>3. ASSUME NEW n \in 0 .. k + 1 PROVE g[n] = Entry(g, n)
    <3>1. CASE n = k + 1
      <4>1. n \div 2 \in 0 .. k
        BY <1>3, <3>1
      <4>2. g[n \div 2] = h[n \div 2]
        BY <2>1, <4>1, Zenon
      <4>3. Entry(g, n) = Entry(h, n)
        BY <1>2, <4>2, Zenon
      <4> QED
        BY <2>1, <3>1, <4>3 DEF e
    <3>2. CASE n # k + 1 /\ n # 0
      <4>1. n \in 0 .. k /\ n \div 2 \in 0 .. k
        <5>1. n \div 2 \in 0 .. n - 1
          BY <1>3, <3>2
        <5> QED
          BY <3>2, <5>1
      <4>2. g[n \div 2] = h[n \div 2]
        BY <2>1, <4>1, Zenon
      <4>3. Entry(g, n) = Entry(h, n)
        BY <1>2, <4>2, Zenon
      <4> QED
        BY <2>1, <2>2, <4>1, <4>3
    <3>3. CASE n # k + 1 /\ n = 0
      <4>1. 0 \in 0 .. k
        OBVIOUS
      <4>2. g[0] = h[0] /\ h[0] = Entry(h, 0) /\ Entry(g, 0) = Entry(h, 0)
        BY <1>1, <2>1, <2>2, <4>1, Zenon
      <4> QED
        BY <3>3, <4>2
    <3> QED
      BY <3>1, <3>2, <3>3
  <2>4. Good(g, k + 1)
    BY <2>1, <2>3
  <2> QED
    BY <2>4
<1> HIDE DEF Good
<1>7. \A k \in Nat : k \in G => k + 1 \in G
  BY <1>6
<1> HIDE DEF G
<1>8. m \in Nat /\ m >= 1
  BY Sizes
<1>9. m \in G
  BY <1>5, <1>7, <1>8, FromZeroOn
<1>10. PICK h : Good(h, m)
  BY <1>9 DEF G
<1> DEFINE pow[n \in 0 .. m] ==
             [base \in Nat |->
                IF n = 0 THEN 1
                ELSE LET rest == pow[n \div 2][Rem(base * base)] IN
                     IF n % 2 = 1 THEN Rem(rest * base) ELSE rest]
<1>11. pow = [n \in 0 .. m |-> Entry(pow, n)]
  BY <1>10 DEF Good, Entry
<1>12. set_d_power_m_mod = pow[m][d]
  BY Zenon DEF set_d_power_m_mod
<1> HIDE DEF pow
<1> DEFINE Right(n, base) == pow[n][base] \in Int /\ Same(pow[n][base], Power(base)[n])
           N == {k \in Nat : \A n \in 0 .. m, base \in Nat : n <= k => Right(n, base)}
<1>13. \A n \in 0 .. m : pow[n] = Entry(pow, n)
  BY <1>11
<1>14. 0 \in N
  <2> SUFFICES ASSUME NEW base \in Nat PROVE Right(0, base)
    OBVIOUS
  <2>1. 0 \in 0 .. m
    BY <1>8
  <2>2. pow[0][base] = 1
    BY <1>4, <1>13, <2>1
  <2>3. Power(base)[0] = 1
    BY PowerIs
  <2>4. Same(1, 1)
    BY SameIsEquivalence
  <2> QED
    BY <2>2, <2>3, <2>4
<1>15. ASSUME NEW k \in Nat, k \in N PROVE k + 1 \in N
  <2> SUFFICES ASSUME NEW base \in Nat, k + 1 \in 0 .. m PROVE Right(k + 1, base)
    BY <1>15
  <2> DEFINE n == k + 1
             half == n \div 2
             sq == Rem(base * base)
             rest == pow[half][sq]
  <2>1. n \in Nat /\ n # 0 /\ n \in 0 .. m
    OBVIOUS
  <2>2. half \in 0 .. k /\ half \in 0 .. m /\ half \in Nat
    <3>1. n \div 2 \in 0 .. n - 1
      BY <1>3, <2>1, Zenon
    <3> HIDE DEF half
    <3>2. half \in 0 .. n - 1
      BY <3>1 DEF half
    <3> QED
      BY <3>2, <1>8
  <2>3. base * base \in Nat
    OBVIOUS
  <2>4. sq \in Nat /\ Same(sq, base * base)
    BY <2>3, RemIsSame
  <2>5. rest \in Int /\ Same(rest, Power(sq)[half])
    BY <1>15, <2>2, <2>4
  <2>6. Same(Power(sq)[half], Power(base * base)[half])
    BY <2>2, <2>3, <2>4, SamePowers
  <2>7. Power(base * base)[half] = Power(base)[half + half]
    BY <2>2, PowerOfSquare
  <2>8. Power(sq)[half] \in Int /\ Power(base * base)[half] \in Int
    BY <2>2, <2>3, <2>4, PowerIs
  <2>9. Same(rest, Power(base)[half + half])
    <3> DEFINE x == Power(sq)[half]
               y == Power(base * base)[half]
    <3>1. x \in Int /\ y \in Int /\ rest \in Int /\ Same(rest, x) /\ Same(x, y)
      BY <2>5, <2>6, <2>8
    <3> HIDE DEF x, y, rest
    <3>2. Same(rest, y)
      BY ONLY <3>1, SameIsEquivalence
    <3> QED
      BY <2>7, <3>2 DEF y
  <2>10. pow[n][base] = IF n % 2 = 1 THEN Rem(rest * base) ELSE rest
    BY <1>4, <1>13, <2>1
  <2>11. n % 2 = 1 => n = (half + half) + 1
    BY <2>1
  <2>12. n % 2 # 1 => n = half + half
    BY <2>1
  <2> HIDE DEF n, half, sq, rest
  <2>13. half + half \in Nat
    BY <2>2
  <2>14. CASE n % 2 # 1
    BY <2>5, <2>9, <2>10, <2>12, <2>14 DEF n
  <2>15. CASE n % 2 = 1
    <3>1. rest * base \in Int
      BY <2>5
    <3>2. Rem(rest * base) \in Int /\ Same(Rem(rest * base), rest * base)
      BY <3>1, RemIsSame
    <3> DEFINE y == Power(base)[half + half]
    <3>3. y \in Int /\ Power(base)[(half + half) + 1] = base * y
      BY <2>13, PowerIs
    <3> HIDE DEF y
    <3>4. Same(rest, y)
      BY <2>9 DEF y
    <3>5. Same(rest * base, y * base) /\ y * base = base * y /\ base * y \in Int
      BY <2>5, <3>3, <3>4, SameProducts
    <3>6. Same(Rem(rest * base), base * y)
      BY <3>1, <3>2, <3>5, SameIsEquivalence
    <3> QED
      BY <2>10, <2>11, <2>15, <3>2, <3>3, <3>6 DEF n
  <2> QED
    BY <2>14, <2>15
<1> HIDE DEF N
<1>16. m \in N
  BY <1>8, <1>14, <1>15, FromZeroOn
<1>17. Right(m, d)
  <2>1. d \in Nat /\ m \in 0 .. m /\ m <= m
    BY <1>8, Moduli
  <2> QED
    BY <1>16, <2>1 DEF N
<1> QED
  BY <1>12, <1>17

-----------------------------------------------------------------------------
(* The fingerprint of a window *)

\* The powers of d.
LEMMA dPowers ==
    /\ d \in Nat /\ Power(d)[0] = 1
    /\ \A k \in Nat : Power(d)[k] \in Int /\ Power(d)[k + 1] = d * Power(d)[k]
  BY PowerIs, Moduli

\* The sum is made term by term.
LEMMA SumIs ==
    ASSUME NEW terms \in Seq(Int)
    PROVE  \E f \in [0 .. Len(terms) -> Int] :
             /\ f[0] = 0
             /\ \A k \in 0 .. Len(terms) - 1 :
                  f[k + 1] = f[k] + terms[k + 1] * Power(d)[Len(terms) - (k + 1)]
             /\ Fingerprint(terms) = f[Len(terms)]
<1> DEFINE l == Len(terms)
           add(k) == terms[k + 1] * Power(d)[l - (k + 1)]
           Turn == [k \in 0 .. l - 1 |-> [x \in Int |-> x + add(k)]]
<1>1. l \in Nat /\ \A k \in 1 .. l : terms[k] \in Int
  OBVIOUS
<1> HIDE DEF l
<1>2. ASSUME NEW k \in 0 .. l - 1 PROVE add(k) \in Int
  <2>1. l - (k + 1) \in Nat /\ k + 1 \in 1 .. l
    BY <1>1
  <2>2. Power(d)[l - (k + 1)] \in Int /\ terms[k + 1] \in Int
    BY <1>1, <2>1, dPowers, Zenon
  <2> QED
    BY ONLY <2>2
<1> HIDE DEF add
<1>3. Turn \in [0 .. l - 1 -> [Int -> Int]] /\ \A k \in 0 .. l - 1, x \in Int : Turn[k][x] = x + add(k)
  BY <1>2
<1> HIDE DEF Turn
<1>4. PICK f \in [0 .. l -> Int] : f[0] = 0 /\ \A k \in 0 .. l - 1 : f[k + 1] = Turn[k][f[k]]
  <2>1. 0 \in Int
    OBVIOUS
  <2> QED
    BY <1>1, <1>3, <2>1, IteratesUpTo, Zenon
<1>5. ASSUME NEW k \in 0 .. l - 1 PROVE f[k + 1] = f[k] + add(k)
  <2>1. f[k] \in Int /\ f[k + 1] = Turn[k][f[k]]
    BY <1>1, <1>4
  <2> QED
    BY <1>3, <2>1
<1>6. ASSUME NEW n \in 0 .. l
      PROVE  f[n] = IF n = 0 THEN 0 ELSE f[n - 1] + terms[n] * Power(d)[l - n]
  <2>1. CASE n = 0
    BY <1>4, <2>1
  <2>2. CASE n # 0
    <3>1. n - 1 \in 0 .. l - 1 /\ (n - 1) + 1 = n
      BY <1>1, <2>2
    <3>2. f[(n - 1) + 1] = f[n - 1] + add(n - 1)
      BY <1>5, <3>1
    <3>3. add(n - 1) = terms[n] * Power(d)[l - n]
      BY <3>1 DEF add
    <3> QED
      BY <2>2, <3>1, <3>2, <3>3
  <2> QED
    BY <2>1, <2>2
<1> DEFINE sum[n \in 0 .. l] == IF n = 0 THEN 0 ELSE sum[n - 1] + terms[n] * Power(d)[l - n]
<1>7. f = [n \in 0 .. l |-> IF n = 0 THEN 0 ELSE f[n - 1] + terms[n] * Power(d)[l - n]]
  BY <1>6
<1>8. sum = [n \in 0 .. l |-> IF n = 0 THEN 0 ELSE sum[n - 1] + terms[n] * Power(d)[l - n]]
  BY <1>7
<1>9. Fingerprint(terms) = sum[l]
  BY Zenon DEF Fingerprint, l
<1> HIDE DEF sum
<1>10. sum[0] = 0
  BY <1>1, <1>8
<1>11. ASSUME NEW k \in 0 .. l - 1 PROVE sum[k + 1] = sum[k] + add(k)
  <2>1. k + 1 \in 0 .. l /\ k + 1 # 0 /\ (k + 1) - 1 = k
    BY <1>1
  <2>2. sum[k + 1] = sum[k] + terms[k + 1] * Power(d)[l - (k + 1)]
    BY <1>8, <2>1
  <2> QED
    BY <2>2 DEF add
<1> DEFINE N == {k \in Nat : k <= l => sum[k] = f[k]}
<1>12. 0 \in N
  BY <1>4, <1>10
<1>13. ASSUME NEW k \in Nat, k \in N PROVE k + 1 \in N
  <2> SUFFICES ASSUME k + 1 <= l PROVE sum[k + 1] = f[k + 1]
    BY <1>13
  <2>1. k \in 0 .. l - 1 /\ sum[k] = f[k]
    BY <1>1, <1>13
  <2>2. sum[k + 1] = sum[k] + add(k) /\ f[k + 1] = f[k] + add(k)
    BY <1>5, <1>11, <2>1
  <2> QED
    BY <2>1, <2>2
<1> HIDE DEF N
<1>14. l \in N
  BY <1>1, <1>12, <1>13, FromZeroOn
<1>15. sum[l] = f[l]
  BY <1>1, <1>14 DEF N
<1> QED
  BY <1>4, <1>5, <1>9, <1>15 DEF l, add

\* set_firstRFP computes it, up to what the mask looks at.
LEMMA FirstIsFingerprint ==
    ASSUME NEW terms \in Seq(Int), terms # <<>>
    PROVE  /\ set_firstRFP(terms) \in Int /\ Fingerprint(terms) \in Int
           /\ Same(set_firstRFP(terms), Fingerprint(terms))
<1> DEFINE l == Len(terms)
           next(x, t) == Rem(Rem(x * d) + t)
           Turn == [k \in 0 .. (l - 1) - 1 |-> [x \in Int |-> next(x, terms[k + 2])]]
<1>1. l \in Nat /\ l - 1 \in Nat /\ \A k \in 1 .. l : terms[k] \in Int
  OBVIOUS
<1>2. d \in Int
  BY Moduli
<1>3. ASSUME NEW x \in Int, NEW t \in Int
      PROVE  next(x, t) \in Int /\ Same(next(x, t), d * x + t)
  <2>1. x * d \in Int /\ x * d = d * x
    BY <1>2
  <2>2. Rem(x * d) \in Int /\ Same(Rem(x * d), d * x)
    BY <2>1, RemIsSame
  <2> DEFINE r == Rem(x * d)
             y == d * x
  <2>3. r \in Int /\ y \in Int /\ Same(r, y)
    BY <2>1, <2>2
  <2>4. Same(t, t)
    BY SameIsEquivalence
  <2>5. next(x, t) = Rem(r + t) /\ d * x + t = y + t
    OBVIOUS
  <2> HIDE DEF r, y, next
  <2>6. Same(r + t, y + t) /\ r + t \in Int /\ y + t \in Int
    BY <2>3, <2>4, SameSums
  <2>7. Rem(r + t) \in Int /\ Same(Rem(r + t), r + t)
    BY <2>6, RemIsSame
  <2>8. Same(Rem(r + t), y + t)
    BY <2>6, <2>7, SameIsEquivalence
  <2> QED
    BY <2>5, <2>7, <2>8
<1> HIDE DEF l, next
<1>4. /\ Turn \in [0 .. (l - 1) - 1 -> [Int -> Int]]
      /\ \A k \in 0 .. (l - 1) - 1, x \in Int : Turn[k][x] = next(x, terms[k + 2])
  <2>1. ASSUME NEW k \in 0 .. (l - 1) - 1, NEW x \in Int PROVE next(x, terms[k + 2]) \in Int
    <3>1. k + 2 \in 1 .. l
      BY <1>1
    <3> QED
      BY <1>1, <1>3, <3>1
  <2> QED
    BY <2>1
<1> HIDE DEF Turn
<1>5. terms[1] \in Int
  BY <1>1
<1>6. PICK f \in [0 .. l - 1 -> Int] :
        f[0] = terms[1] /\ \A k \in 0 .. (l - 1) - 1 : f[k + 1] = Turn[k][f[k]]
  BY <1>1, <1>4, <1>5, IteratesUpTo, Zenon
<1> DEFINE g == [n \in 1 .. l |-> f[n - 1]]
<1>7. g \in [1 .. l -> Int] /\ \A n \in 1 .. l : g[n] = f[n - 1]
  <2>1. \A n \in 1 .. l : n - 1 \in 0 .. l - 1
    BY <1>1
  <2> QED
    BY <1>6, <2>1
<1> HIDE DEF g
<1>8. g[1] = terms[1]
  BY <1>1, <1>6, <1>7
<1>9. ASSUME NEW n \in 1 .. l, n # 1 PROVE g[n] = next(g[n - 1], terms[n])
  <2>1. /\ n - 2 \in 0 .. (l - 1) - 1 /\ n - 2 \in 0 .. l - 1 /\ (n - 2) + 1 = n - 1
        /\ (n - 2) + 2 = n /\ n - 1 \in 1 .. l /\ (n - 1) - 1 = n - 2
    BY <1>1, <1>9
  <2>2. f[(n - 2) + 1] = Turn[n - 2][f[n - 2]] /\ f[n - 2] \in Int
    BY <1>6, <2>1
  <2>3. Turn[n - 2][f[n - 2]] = next(f[n - 2], terms[(n - 2) + 2])
    BY <1>4, <2>1, <2>2
  <2>4. g[n] = f[n - 1] /\ g[n - 1] = f[n - 2]
    BY <1>7, <2>1
  <2> QED
    BY <2>1, <2>2, <2>3, <2>4
<1>10. \A n \in 1 .. l : g[n] = IF n = 1 THEN terms[n] ELSE Rem(Rem(g[n - 1] * d) + terms[n])
  BY <1>8, <1>9 DEF next
<1>11. g = [n \in 1 .. l |-> IF n = 1 THEN terms[n] ELSE Rem(Rem(g[n - 1] * d) + terms[n])]
  BY <1>7, <1>10
<1> DEFINE rfp[n \in 1 .. l] == IF n = 1 THEN terms[n] ELSE Rem(Rem(rfp[n - 1] * d) + terms[n])
<1>12. rfp = [n \in 1 .. l |-> IF n = 1 THEN terms[n] ELSE Rem(Rem(rfp[n - 1] * d) + terms[n])]
  BY <1>11
<1>13. set_firstRFP(terms) = rfp[l]
  BY Zenon DEF set_firstRFP, l
<1> HIDE DEF rfp
<1>14. rfp[1] = terms[1]
  BY <1>1, <1>12
<1>15. ASSUME NEW n \in 1 .. l, n # 1 PROVE rfp[n] = next(rfp[n - 1], terms[n])
  BY <1>12, <1>15 DEF next
<1>16. PICK sum \in [0 .. l -> Int] :
         /\ sum[0] = 0
         /\ \A k \in 0 .. l - 1 : sum[k + 1] = sum[k] + terms[k + 1] * Power(d)[l - (k + 1)]
         /\ Fingerprint(terms) = sum[l]
  BY SumIs DEF l
<1> DEFINE N == {k \in Nat : k + 1 <= l =>
                   /\ rfp[k + 1] \in Int
                   /\ Same(Power(d)[l - (k + 1)] * rfp[k + 1], sum[k + 1])}
<1>17. 0 \in N
  <2>1. 0 \in 0 .. l - 1 /\ l - (0 + 1) \in Nat
    BY <1>1
  <2> DEFINE p == Power(d)[l - (0 + 1)]
  <2>2. p \in Int
    BY <2>1, dPowers
  <2>3. sum[0 + 1] = sum[0] + terms[0 + 1] * p
    BY <1>16, <2>1
  <2>4. 0 + 1 = 1
    OBVIOUS
  <2> HIDE DEF p
  <2>5. sum[1] = p * terms[1] /\ p * terms[1] \in Int
    BY ONLY <1>5, <1>16, <2>2, <2>3, <2>4
  <2>6. Same(p * rfp[1], sum[1])
    BY <1>14, <2>5, SameIsEquivalence
  <2> QED
    BY <1>5, <1>14, <2>4, <2>6 DEF p
<1>18. ASSUME NEW k \in Nat, k \in N PROVE k + 1 \in N
  <2> SUFFICES ASSUME (k + 1) + 1 <= l
               PROVE  /\ rfp[(k + 1) + 1] \in Int
                      /\ Same(Power(d)[l - ((k + 1) + 1)] * rfp[(k + 1) + 1], sum[(k + 1) + 1])
    BY <1>18
  <2> DEFINE n == (k + 1) + 1
             p == Power(d)[l - n]
             x == rfp[k + 1]
             t == terms[n]
             s == sum[k + 1]
  <2>1. /\ n \in 1 .. l /\ n # 1 /\ n - 1 = k + 1 /\ l - n \in Nat /\ k + 1 \in 0 .. l - 1
        /\ (l - n) + 1 = l - (k + 1) /\ k + 1 <= l /\ k + 1 \in 0 .. l
    BY <1>1
  <2>2. x \in Int /\ Same(Power(d)[l - (k + 1)] * x, s)
    BY <1>18, <2>1
  <2>3. p \in Int /\ Power(d)[(l - n) + 1] = d * p
    BY <2>1, dPowers
  <2>4. rfp[n] = next(x, t)
    BY <1>15, <2>1
  <2>5. sum[n] = s + t * p
    BY <1>16, <2>1
  <2>6. s \in Int /\ t \in Int
    BY <1>1, <1>16, <2>1
  <2>7. Same((d * p) * x, s)
    BY <2>1, <2>2, <2>3
  <2> HIDE DEF n, p, x, t, s
  <2>8. next(x, t) \in Int /\ Same(next(x, t), d * x + t)
    BY <1>3, <2>2, <2>6
  <2>9. d * x + t \in Int
    BY ONLY <1>2, <2>2, <2>6
  <2>10. Same(p * next(x, t), p * (d * x + t))
    BY <2>3, <2>8, <2>9, SameProducts
  <2>11. p * (d * x + t) = (d * p) * x + t * p
    BY ONLY <1>2, <2>2, <2>3, <2>6
  <2>12. (d * p) * x \in Int /\ t * p \in Int /\ p * next(x, t) \in Int
    BY ONLY <1>2, <2>2, <2>3, <2>6, <2>8
  <2>13. Same(t * p, t * p)
    BY <2>12, SameIsEquivalence
  <2>14. Same((d * p) * x + t * p, s + t * p)
    BY <2>6, <2>7, <2>12, <2>13, SameSums
  <2> DEFINE u == p * next(x, t)
             v == (d * p) * x + t * p
             w == s + t * p
  <2>15. u \in Int /\ v \in Int /\ w \in Int /\ Same(u, v) /\ Same(v, w)
    <3>1. v \in Int /\ w \in Int
      BY ONLY <2>6, <2>12
    <3> QED
      BY <2>10, <2>11, <2>12, <2>14, <3>1
  <2> HIDE DEF u, v, w
  <2>16. Same(u, w)
    BY <2>15, SameIsEquivalence
  <2>17. Same(p * rfp[n], sum[n]) /\ rfp[n] \in Int
    BY <2>4, <2>5, <2>8, <2>16 DEF u, w
  <2> QED
    BY <2>17 DEF n, p
<1> HIDE DEF N
<1>19. l - 1 \in N
  BY <1>1, <1>17, <1>18, FromZeroOn
<1>20. rfp[l] \in Int /\ Same(Power(d)[0] * rfp[l], sum[l])
  <2>1. (l - 1) + 1 = l /\ l - ((l - 1) + 1) = 0 /\ (l - 1) + 1 <= l
    BY <1>1
  <2>2. /\ rfp[(l - 1) + 1] \in Int
        /\ Same(Power(d)[l - ((l - 1) + 1)] * rfp[(l - 1) + 1], sum[(l - 1) + 1])
    BY <1>19, <2>1 DEF N
  <2> QED
    BY ONLY <2>1, <2>2
<1>21. Power(d)[0] * rfp[l] = rfp[l]
  <2>1. Power(d)[0] = 1
    BY dPowers
  <2>2. PICK x \in Int : x = rfp[l]
    BY <1>20
  <2>3. 1 * x = x
    OBVIOUS
  <2> QED
    BY ONLY <2>1, <2>2, <2>3
<1>22. sum[l] \in Int
  BY <1>1, <1>16
<1> QED
  BY <1>13, <1>16, <1>20, <1>21, <1>22

\* The bytes of a window.
LEMMA WindowOf ==
    ASSUME NEW bytes \in Seq(Int), NEW i \in Nat, i + m <= Len(bytes)
    PROVE  /\ Slice(bytes, i, m) \in Seq(Int) /\ Len(Slice(bytes, i, m)) = m
           /\ \A k \in 1 .. m : Slice(bytes, i, m)[k] = bytes[i + k] /\ bytes[i + k] \in Int
<1>1. m \in Nat /\ m >= 1 /\ Len(bytes) \in Nat
  BY Sizes
<1>2. ASSUME NEW k \in 1 .. m PROVE i + k \in 1 .. Len(bytes)
  BY <1>1
<1>3. /\ SubSeq(bytes, i + 1, i + m) \in Seq(Int) /\ Len(SubSeq(bytes, i + 1, i + m)) = m
      /\ \A k \in 1 .. m : SubSeq(bytes, i + 1, i + m)[k] = bytes[i + k]
  BY <1>1, <1>2
<1>4. \A k \in 1 .. m : bytes[i + k] \in Int
  BY <1>1, <1>2
<1> QED
  BY <1>3, <1>4 DEF Slice

\* The window moves by one byte: its fingerprint is d times the old one, without the byte
\* that leaves and with the one that enters.
LEMMA FingerprintRolls ==
    ASSUME NEW bytes \in Seq(Int), NEW i \in Nat, (i + 1) + m <= Len(bytes)
    PROVE  /\ Fingerprint(Slice(bytes, i, m)) \in Int
           /\ bytes[i + 1] \in Int /\ bytes[(i + 1) + m] \in Int
           /\ Fingerprint(Slice(bytes, i + 1, m)) =
                d * Fingerprint(Slice(bytes, i, m)) - bytes[i + 1] * Power(d)[m]
                  + bytes[(i + 1) + m]
<1> DEFINE old == Slice(bytes, i, m)
           new == Slice(bytes, i + 1, m)
<1>1. m \in Nat /\ m >= 1 /\ Len(bytes) \in Nat /\ i + 1 \in Nat /\ i + m <= Len(bytes) /\ d \in Nat
  BY Sizes, Moduli
<1>2. old \in Seq(Int) /\ Len(old) = m /\ \A k \in 1 .. m : old[k] = bytes[i + k] /\ old[k] \in Int
  BY <1>1, WindowOf
<1>3. new \in Seq(Int) /\ Len(new) = m
      /\ \A k \in 1 .. m : new[k] = bytes[(i + 1) + k] /\ new[k] \in Int
  BY <1>1, WindowOf
<1> HIDE DEF old, new
<1>4. PICK f \in [0 .. m -> Int] :
        /\ f[0] = 0
        /\ \A k \in 0 .. m - 1 : f[k + 1] = f[k] + old[k + 1] * Power(d)[m - (k + 1)]
        /\ Fingerprint(old) = f[m]
  BY <1>2, SumIs
<1>5. PICK g \in [0 .. m -> Int] :
        /\ g[0] = 0
        /\ \A k \in 0 .. m - 1 : g[k + 1] = g[k] + new[k + 1] * Power(d)[m - (k + 1)]
        /\ Fingerprint(new) = g[m]
  BY <1>3, SumIs
<1>6. ASSUME NEW k \in 1 .. m - 1 PROVE new[k] = old[k + 1]
  <2>1. k \in 1 .. m /\ k + 1 \in 1 .. m /\ (i + 1) + k = i + (k + 1)
    BY <1>1
  <2> QED
    BY <1>2, <1>3, <2>1
<1>7. old[1] = bytes[i + 1] /\ old[1] \in Int
  BY <1>1, <1>2
<1>8. new[m] = bytes[(i + 1) + m] /\ new[m] \in Int
  BY <1>1, <1>3
<1> DEFINE top == Power(d)[m]
           N == {k \in Nat : k + 1 <= m => g[k] = d * f[k + 1] - old[1] * top}
<1>9. top \in Int
  BY <1>1, dPowers
<1>10. 0 \in N
  <2> DEFINE p == Power(d)[m - (0 + 1)]
  <2>1. m - (0 + 1) \in Nat /\ (m - (0 + 1)) + 1 = m /\ 0 \in 0 .. m - 1 /\ 0 + 1 = 1
    BY <1>1
  <2>2. p \in Int /\ top = d * p
    BY <2>1, dPowers
  <2>3. f[0 + 1] = f[0] + old[0 + 1] * p
    BY <1>4, <2>1
  <2> HIDE DEF p, top
  <2>4. d * f[1] - old[1] * top = 0
    <3>1. f[1] = old[1] * p
      BY ONLY <1>4, <1>7, <2>1, <2>2, <2>3
    <3> DEFINE h == old[1]
    <3>2. h \in Int
      BY <1>7
    <3> HIDE DEF h
    <3>3. d * (h * p) - h * (d * p) = 0
      BY ONLY <1>1, <2>2, <3>2
    <3> QED
      BY ONLY <2>2, <3>1, <3>3 DEF h
  <2> QED
    BY <1>5, <2>1, <2>4
<1>11. ASSUME NEW k \in Nat, k \in N PROVE k + 1 \in N
  <2> SUFFICES ASSUME (k + 1) + 1 <= m PROVE g[k + 1] = d * f[(k + 1) + 1] - old[1] * top
    BY <1>11
  <2> DEFINE p == Power(d)[m - ((k + 1) + 1)]
             b == old[(k + 1) + 1]
  <2>1. /\ m - ((k + 1) + 1) \in Nat /\ (m - ((k + 1) + 1)) + 1 = m - (k + 1)
        /\ k \in 0 .. m - 1 /\ k + 1 \in 0 .. m - 1 /\ k + 1 \in 1 .. m - 1 /\ k + 1 <= m
        /\ (k + 1) + 1 \in 1 .. m /\ k \in 0 .. m /\ k + 1 \in 0 .. m
    BY <1>1
  <2>2. p \in Int /\ Power(d)[m - (k + 1)] = d * p
    BY <2>1, dPowers
  <2>3. b \in Int /\ new[k + 1] = b
    BY <1>2, <1>6, <2>1
  <2>4. g[k + 1] = g[k] + b * (d * p)
    <3>1. g[k + 1] = g[k] + new[k + 1] * Power(d)[m - (k + 1)]
      BY <1>5, <2>1
    <3> QED
      BY ONLY <2>2, <2>3, <3>1
  <2>5. f[(k + 1) + 1] = f[k + 1] + b * p
    BY <1>4, <2>1
  <2>6. g[k] = d * f[k + 1] - old[1] * top
    BY <1>11, <2>1
  <2> DEFINE x == f[k + 1]
             h == old[1]
  <2>7. x \in Int /\ h \in Int
    BY <1>4, <1>7, <2>1
  <2> HIDE DEF p, b, top, x, h
  <2>8. (d * x - h * top) + b * (d * p) = d * (x + b * p) - h * top
    BY ONLY <1>1, <1>9, <2>2, <2>3, <2>7
  <2> QED
    <3>1. g[k + 1] = (d * x - h * top) + b * (d * p)
      BY ONLY <2>4, <2>6 DEF x, h
    <3>2. f[(k + 1) + 1] = x + b * p
      BY ONLY <2>5 DEF x
    <3> QED
      BY ONLY <2>8, <3>1, <3>2 DEF h
<1> HIDE DEF N
<1>12. m - 1 \in N
  <2>1. m - 1 \in Nat
    BY <1>1
  <2>2. Nat \subseteq N
    BY <1>10, <1>11, FromZeroOn
  <2> QED
    BY <2>1, <2>2, Zenon
<1>13. (m - 1) + 1 = m /\ m - 1 \in 0 .. m - 1 /\ m \in 0 .. m /\ m - ((m - 1) + 1) = 0 /\ m <= m
  BY <1>1
<1>14. g[m - 1] = d * f[m] - old[1] * top
  <2> HIDE DEF top
  <2>1. (m - 1) + 1 <= m => g[m - 1] = d * f[(m - 1) + 1] - old[1] * top
    BY <1>12 DEF N
  <2> QED
    BY ONLY <1>13, <2>1
<1>15. g[m] = g[m - 1] + new[m]
  <2>1. g[(m - 1) + 1] = g[m - 1] + new[(m - 1) + 1] * Power(d)[m - ((m - 1) + 1)]
    BY <1>5, <1>13
  <2>2. Power(d)[0] = 1
    BY dPowers
  <2>3. new[m] * 1 = new[m]
    BY <1>8
  <2> QED
    BY ONLY <1>13, <2>1, <2>2, <2>3
<1>16. f[m] \in Int
  BY <1>4, <1>13
<1> QED
  BY <1>4, <1>5, <1>7, <1>8, <1>14, <1>15, <1>16 DEF old, new

\* One step of getRFP keeps a fingerprint right.
LEMMA RollIsFingerprint ==
    ASSUME NEW bytes \in Seq(Int), NEW i \in Nat, (i + 1) + m <= Len(bytes), NEW rfp \in Int,
           Same(rfp, Fingerprint(Slice(bytes, i, m)))
    PROVE  /\ getRFP(rfp, bytes[i + 1], bytes[(i + 1) + m]) \in Int
           /\ Same(getRFP(rfp, bytes[i + 1], bytes[(i + 1) + m]),
                   Fingerprint(Slice(bytes, i + 1, m)))
<1> DEFINE h == bytes[i + 1]
           t == bytes[(i + 1) + m]
           old == Fingerprint(Slice(bytes, i, m))
           new == Fingerprint(Slice(bytes, i + 1, m))
           top == Power(d)[m]
           w == set_d_power_m_mod
<1>1. old \in Int /\ h \in Int /\ t \in Int /\ new = d * old - h * top + t
  BY FingerprintRolls
<1>2. top \in Int /\ d \in Int
  <2>1. m \in Nat
    BY Sizes
  <2> QED
    BY <2>1, dPowers
<1>3. w \in Int /\ Same(w, top)
  BY d_powerIs
<1>4. Same(rfp, old)
  OBVIOUS
<1>5. getRFP(rfp, h, t) = Rem(Rem(Rem(d * rfp) - Rem(h * w)) + t)
  BY DEF getRFP
<1> HIDE DEF h, t, old, new, top, w
<1> DEFINE a == Rem(d * rfp)
           b == Rem(h * w)
<1>6. a \in Int /\ Same(a, d * old)
  <2>1. d * rfp \in Int /\ d * old \in Int
    BY <1>1, <1>2
  <2>2. Same(d * rfp, d * old)
    BY <1>1, <1>2, <1>4, SameProducts
  <2>3. a \in Int /\ Same(a, d * rfp)
    BY <2>1, RemIsSame
  <2> HIDE DEF a
  <2> QED
    BY <2>1, <2>2, <2>3, SameIsEquivalence
<1>7. b \in Int /\ Same(b, h * top)
  <2>1. h * w \in Int /\ h * top \in Int
    BY <1>1, <1>2, <1>3
  <2>2. Same(h * w, h * top)
    BY <1>1, <1>2, <1>3, SameProducts
  <2>3. b \in Int /\ Same(b, h * w)
    BY <2>1, RemIsSame
  <2> HIDE DEF b
  <2> QED
    BY <2>1, <2>2, <2>3, SameIsEquivalence
<1> HIDE DEF a, b
<1> DEFINE x == d * old
           y == h * top
<1>8. x \in Int /\ y \in Int
  BY <1>1, <1>2
<1>9. Same(a, x) /\ Same(b, y) /\ new = x - y + t
  BY <1>1, <1>6, <1>7
<1>10. getRFP(rfp, h, t) = Rem(Rem(a - b) + t)
  BY <1>5 DEF a, b
<1> HIDE DEF x, y
<1>11. a - b \in Int /\ x - y \in Int /\ Same(a - b, x - y)
  BY <1>6, <1>7, <1>8, <1>9, SameSums
<1> DEFINE c == Rem(a - b)
           z == x - y
<1>12. c \in Int /\ Same(c, z)
  <2>1. Rem(a - b) \in Int /\ Same(Rem(a - b), a - b)
    BY <1>11, RemIsSame
  <2> QED
    BY <1>11, <2>1, SameIsEquivalence
<1>13. z \in Int
  BY <1>11
<1>14. getRFP(rfp, h, t) = Rem(c + t) /\ new = z + t
  BY <1>9, <1>10
<1> HIDE DEF c, z
<1>15. Same(t, t)
  BY <1>1, SameIsEquivalence
<1>16. c + t \in Int /\ z + t \in Int /\ Same(c + t, z + t)
  BY <1>1, <1>12, <1>13, <1>15, SameSums
<1>17. Rem(c + t) \in Int /\ Same(Rem(c + t), c + t)
  BY <1>16, RemIsSame
<1>18. Same(Rem(c + t), z + t)
  BY <1>16, <1>17, SameIsEquivalence
<1> QED
  BY <1>14, <1>17, <1>18 DEF h, t, new

\* The fingerprint rolled over any number of windows is that of the window it comes to.
LEMMA RolledIsFingerprint ==
    ASSUME NEW bytes \in Seq(Int), NEW i \in Nat, i + m <= Len(bytes)
    PROVE  /\ Rolled(bytes, i) \in Int /\ Fingerprint(Slice(bytes, i, m)) \in Int
           /\ Same(Rolled(bytes, i), Fingerprint(Slice(bytes, i, m)))
<1> DEFINE begun == set_firstRFP(Slice(bytes, 0, m))
           Turn == [k \in 0 .. i - 1 |-> [x \in Int |-> getRFP(x, bytes[k + 1], bytes[(k + 1) + m])]]
<1>1. m \in Nat /\ m >= 1 /\ Len(bytes) \in Nat
  BY Sizes
<1>2. ASSUME NEW n \in 0 .. i PROVE n \in Nat /\ n + m <= Len(bytes)
  BY <1>1
<1>3. ASSUME NEW n \in 0 .. i
      PROVE  Slice(bytes, n, m) \in Seq(Int) /\ Slice(bytes, n, m) # <<>>
  <2>1. Slice(bytes, n, m) \in Seq(Int) /\ Len(Slice(bytes, n, m)) = m
    BY <1>2, WindowOf
  <2> QED
    BY <1>1, <2>1
<1>4. begun \in Int /\ Same(begun, Fingerprint(Slice(bytes, 0, m)))
  BY <1>3, FirstIsFingerprint
<1> HIDE DEF begun
<1>5. ASSUME NEW x \in Int, NEW y \in Int, NEW z \in Int PROVE getRFP(x, y, z) \in Int
  <2>1. set_d_power_m_mod \in Int /\ d \in Int
    BY d_powerIs, Moduli
  <2> DEFINE w == set_d_power_m_mod
  <2> HIDE DEF w
  <2>2. d * x \in Int /\ y * w \in Int
    BY <2>1 DEF w
  <2>3. Rem(d * x) \in Int /\ Rem(y * w) \in Int
    BY <2>2, RemIsSame
  <2>4. Rem(d * x) - Rem(y * w) \in Int
    BY <2>3
  <2>5. Rem(Rem(d * x) - Rem(y * w)) \in Int
    BY <2>4, RemIsSame
  <2>6. Rem(Rem(d * x) - Rem(y * w)) + z \in Int
    BY <2>5
  <2>7. Rem(Rem(Rem(d * x) - Rem(y * w)) + z) \in Int
    BY <2>6, RemIsSame
  <2> QED
    BY <2>7 DEF getRFP, w
<1>6. ASSUME NEW k \in 0 .. i - 1 PROVE bytes[k + 1] \in Int /\ bytes[(k + 1) + m] \in Int
  BY <1>1
<1>7. /\ Turn \in [0 .. i - 1 -> [Int -> Int]]
      /\ \A k \in 0 .. i - 1, x \in Int : Turn[k][x] = getRFP(x, bytes[k + 1], bytes[(k + 1) + m])
  BY <1>5, <1>6
<1> HIDE DEF Turn
<1>8. PICK f \in [0 .. i -> Int] : f[0] = begun /\ \A k \in 0 .. i - 1 : f[k + 1] = Turn[k][f[k]]
  BY <1>4, <1>7, IteratesUpTo, Zenon
<1>9. ASSUME NEW k \in 0 .. i - 1
      PROVE  f[k + 1] = getRFP(f[k], bytes[k + 1], bytes[(k + 1) + m])
  <2>1. f[k] \in Int /\ f[k + 1] = Turn[k][f[k]]
    BY <1>8
  <2> QED
    BY <1>7, <2>1
<1>10. \A k \in 0 .. i : f[k] = IF k = 0 THEN begun ELSE getRFP(f[k - 1], bytes[k], bytes[k + m])
  <2> SUFFICES ASSUME NEW k \in 0 .. i, k # 0
               PROVE  f[k] = getRFP(f[k - 1], bytes[k], bytes[k + m])
    BY <1>8
  <2>1. k - 1 \in 0 .. i - 1 /\ (k - 1) + 1 = k
    OBVIOUS
  <2>2. f[(k - 1) + 1] = getRFP(f[k - 1], bytes[(k - 1) + 1], bytes[((k - 1) + 1) + m])
    BY <1>9, <2>1
  <2> QED
    BY ONLY <2>1, <2>2
<1>11. f = [k \in 0 .. i |-> IF k = 0 THEN begun ELSE getRFP(f[k - 1], bytes[k], bytes[k + m])]
  BY <1>8, <1>10
<1> DEFINE rolled[k \in 0 .. i] ==
             IF k = 0 THEN begun ELSE getRFP(rolled[k - 1], bytes[k], bytes[k + m])
<1>12. rolled = [k \in 0 .. i |->
                   IF k = 0 THEN begun ELSE getRFP(rolled[k - 1], bytes[k], bytes[k + m])]
  BY <1>11
<1>13. Rolled(bytes, i) = rolled[i]
  BY Zenon DEF Rolled, begun
<1> HIDE DEF rolled
<1>14. rolled[0] = begun
  BY <1>12
<1>15. ASSUME NEW k \in 0 .. i - 1
       PROVE  rolled[k + 1] = getRFP(rolled[k], bytes[k + 1], bytes[(k + 1) + m])
  <2>1. k + 1 \in 0 .. i /\ k + 1 # 0 /\ (k + 1) - 1 = k
    OBVIOUS
  <2> QED
    BY <1>12, <2>1
<1> DEFINE N == {k \in Nat : k <= i => /\ rolled[k] \in Int
                                       /\ Same(rolled[k], Fingerprint(Slice(bytes, k, m)))}
<1>16. 0 \in N
  BY <1>4, <1>14
<1>17. ASSUME NEW k \in Nat, k \in N PROVE k + 1 \in N
  <2> SUFFICES ASSUME k + 1 <= i
               PROVE  /\ rolled[k + 1] \in Int
                      /\ Same(rolled[k + 1], Fingerprint(Slice(bytes, k + 1, m)))
    BY <1>17
  <2>1. k \in 0 .. i - 1 /\ (k + 1) + m <= Len(bytes) /\ k <= i
    BY <1>1
  <2>2. rolled[k] \in Int /\ Same(rolled[k], Fingerprint(Slice(bytes, k, m)))
    BY <1>17, <2>1
  <2>3. rolled[k + 1] = getRFP(rolled[k], bytes[k + 1], bytes[(k + 1) + m])
    BY <1>15, <2>1
  <2> QED
    BY <2>1, <2>2, <2>3, RollIsFingerprint
<1> HIDE DEF N
<1>18. i \in N
  BY <1>16, <1>17, FromZeroOn
<1>19. rolled[i] \in Int /\ Same(rolled[i], Fingerprint(Slice(bytes, i, m)))
  BY <1>18 DEF N
<1>20. Fingerprint(Slice(bytes, i, m)) \in Int
  BY <1>3, FirstIsFingerprint
<1> QED
  BY <1>13, <1>19, <1>20

\* AnchorsByContent: for any window, base and modulus, the fingerprint that is rolled from
\* window to window and may be negative has the mask's bits 0 exactly where the polynomial
\* of the window's own bytes has.
THEOREM AnchorsAreByContent == Spec => []AnchorsByContent
<1>1. ASSUME NEW f \in AllFiles PROVE AnchorsFit(f)
  <2>1. f \in Seq(Int) /\ Len(f) \in Nat
    BY MyDedupAssumption
  <2> SUFFICES ASSUME NEW i \in 0 .. Len(f) - m
               PROVE  isInterestedRFP(Rolled(f, i))
                        <=> Fingerprint(Slice(f, i, m)) % AnchorMod = 0
    BY DEF AnchorsFit
  <2>2. i \in Nat /\ i + m <= Len(f)
    BY <2>1, Sizes
  <2>3. /\ Rolled(f, i) \in Int /\ Fingerprint(Slice(f, i, m)) \in Int
        /\ Same(Rolled(f, i), Fingerprint(Slice(f, i, m)))
    BY <2>1, <2>2, RolledIsFingerprint
  <2> QED
    BY <2>3, SameRemainders DEF isInterestedRFP
<1>2. AnchorsByContent
  BY <1>1 DEF AnchorsByContent, FirstUpload
<1> QED
  BY <1>2, PTL

-----------------------------------------------------------------------------
(* Files for lists *)

\* A chunk list that is stored is some file's, and joins to that file.
LEMMA ListsJoin == \A list \in Uploads : Joined(list) \in Files /\ Joined(list) # Absent
<1> SUFFICES ASSUME NEW list \in Uploads PROVE Joined(list) \in Files
  BY MyDedupAssumption
<1>1. PICK f \in Files : list = chunking(f).chunks
  BY MyDedupAssumption DEF ChunkLists
<1>2. list # Absent
  BY ListFacts
<1>3. FlattenSeq(list) = f
  BY <1>1, MyDedupAssumption, FileIsWellCut DEF WellCut
<1> QED
  BY <1>2, <1>3 DEF Joined

\* A step of the store with lists is one of the store with files.
LEMMA StepJoins ==
    ASSUME \A p \in Paths : visible(p) \in Uploads \cup {Absent},
           [L!Next]_[p \in Paths |-> visible(p)]
    PROVE  [F!Next]_[p \in Paths |-> Joined(visible(p))]
<1> DEFINE lists == [p \in Paths |-> visible(p)]
           contents == [p \in Paths |-> Joined(visible(p))]
<1>1. \A list \in Uploads : Joined(list) \in Files /\ Joined(list) # Absent
  BY ListsJoin
<1>2. Joined(Absent) = Absent
  BY DEF Joined
<1>3. \A p \in Paths : contents[p] = Joined(lists[p])
  OBVIOUS
<1>4. \A p \in Paths : contents'[p] = Joined(lists'[p])
  OBVIOUS
<1>5. lists \in [Paths -> Uploads \cup {Absent}] /\ DOMAIN lists' = Paths
      /\ contents = [p \in Paths |-> contents[p]] /\ contents' = [p \in Paths |-> contents'[p]]
  OBVIOUS
<1>6. \A p \in Paths : lists[p] \in Uploads \cup {Absent}
  OBVIOUS
<1>7. CASE lists' = lists
  <2>1. contents' = contents
    BY <1>7, <1>3, <1>4, <1>5
  <2> QED
    BY <2>1
<1>8. ASSUME NEW p \in Paths, L!Delete(p) PROVE F!Next
  <2>1. lists[p] # Absent /\ lists' = [lists EXCEPT ![p] = Absent]
    BY <1>8 DEF L!Delete
  <2> HIDE DEF lists, contents
  <2>2. contents[p] # Absent
    BY <2>1, <1>1, <1>3, <1>6
  <2>3. contents' = [contents EXCEPT ![p] = Absent]
    BY <2>1, <1>2, <1>3, <1>4, <1>5
  <2> USE DEF contents
  <2> QED
    BY <2>2, <2>3 DEF F!Next, F!Delete
<1>9. ASSUME NEW p \in Paths, NEW c \in Uploads, L!Upload(p, c) PROVE F!Next
  <2>1. lists[p] = Absent /\ lists' = [lists EXCEPT ![p] = c]
    BY <1>9 DEF L!Upload
  <2> HIDE DEF lists, contents
  <2>2. contents[p] = Absent
    BY <2>1, <1>2, <1>3
  <2>3. contents' = [contents EXCEPT ![p] = Joined(c)]
    BY <2>1, <1>3, <1>4, <1>5
  <2> USE DEF contents
  <2> QED
    BY <2>2, <2>3, <1>1 DEF F!Next, F!Upload
<1> QED
  BY <1>7, <1>8, <1>9 DEF L!Next

\* KeepsFiles: when the files uploaded are of one read of the buffer at most and the maximum
\* chunk size is greater than the window (MyDedupAssumption), every file comes back byte for
\* byte as it was uploaded, whatever chunks it shares with others; after a delete that was
\* killed, but for the chunks it had removed.
THEOREM FilesComeBack == Spec => KeepsFiles
<1>1. DedupInv /\ AllVisible => \A p \in Paths : visible(p) \in Uploads \cup {Absent}
  BY DEF DedupInv, StoredUploads, AllVisible
<1>2. Init => F!Init
  <2> SUFFICES ASSUME Init PROVE F!Init
    OBVIOUS
  <2>1. \A p \in Paths : Joined(visible(p)) = Absent
    BY DEF Init, NoFiles, visible, Joined
  <2> QED
    BY <2>1 DEF F!Init
<1>3. DedupInv /\ AllVisible /\ AllVisible' /\ [Next]_vars =>
        [F!Next]_[p \in Paths |-> Joined(visible(p))]
  BY <1>1, StepRefines, StepJoins
<1>4. Spec => [](DedupInv /\ AllVisible)
  BY DedupInvariant, VisibleIsStored, PTL
<1> QED
  BY <1>2, <1>3, <1>4, PTL DEF Spec, KeepsFiles, F!Spec
=============================================================================
