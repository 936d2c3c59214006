--------------------------- MODULE DedupChunking ---------------------------
(***************************************************************************)
(* How MyDedup cuts a file into chunks.  The file is read in blocks; a     *)
(* window of m bytes slides over a block, its Rabin fingerprint is rolled  *)
(* from one place to the next, and a chunk ends where the fingerprint's    *)
(* low bits are 0 or the chunk is as long as allowed.  The last m + 1      *)
(* bytes of a block move to the front of the next one.                     *)
(*                                                                         *)
(* Positions are the code's: they start at 0, in sequences that start at 1.*)
(***************************************************************************)
EXTENDS Integers, SequencesExt

CONSTANTS
    m,            \* the window, in bytes
    d, q,         \* base and modulus of the fingerprint
    AnchorMod,    \* anchor_mask + 1
    MaxChunkSize, \* maximum_chunk_size
    BUFFER_SIZE

ASSUME ChunkingAssumption ==
    /\ {m, d, q, AnchorMod, MaxChunkSize, BUFFER_SIZE} \subseteq Nat \ {0}
    /\ q % AnchorMod = 0    \* q = 2^32, AnchorMod = 2^b with b <= 32
    /\ BUFFER_SIZE >= 4 * MaxChunkSize

Slice(bytes, at, n) == SubSeq(bytes, at + 1, at + n)

\* Java's %: the sign is the dividend's.
Rem(a) == IF a < 0 THEN - ((- a) % q) ELSE a % q

\* d^m modulo q: the base is squared, and used at the 1 bits of the exponent.
set_d_power_m_mod ==
    LET pow[n \in 0 .. m] ==
          [base \in Nat |->
             IF n = 0 THEN 1
             ELSE LET rest == pow[n \div 2][Rem(base * base)] IN
                  IF n % 2 = 1 THEN Rem(rest * base) ELSE rest]
    IN  pow[m][d]

set_firstRFP(terms) ==
    LET rfp[n \in 1 .. Len(terms)] ==
          IF n = 1 THEN terms[n] ELSE Rem(Rem(rfp[n - 1] * d) + terms[n])
    IN  rfp[Len(terms)]

\* Plausible bug: what leaves the window is taken away with one power too few.
getRFPWeak(rfp, head, tail) == Rem(Rem(d * rfp - Rem(head)) + tail)

\* One byte leaves the window and one enters it; the result may be negative.
getRFP(rfp, head, tail) ==
    Rem(Rem(Rem(d * rfp) - Rem(head * set_d_power_m_mod)) + tail)

isInterestedRFP(rfp) == rfp % AnchorMod = 0

-----------------------------------------------------------------------------
\* What chunking keeps from one block to the next: the bytes moved to the front
\* (shift of them), where the chunk begins, what of it is flushed to chunk_buf,
\* the fingerprint, the chunks uploaded, the bytes they count for, and whether
\* the loop was left, at the end of the file or by an exception.
NewFile ==
    [front |-> <<>>, RFPhead |-> 0, rfp |-> 0, chunk_buf |-> [i \in 1 .. MaxChunkSize |-> 0],
     chunkhead |-> 0, backup |-> 0, chunks |-> <<>>, totalSize |-> 0, left |-> "no"]

\* uploadChunk: the size is counted first; a chunk that exceeds its buffer fails
\* in getChecksum, and that exception is printed and forgotten.
uploadChunk(s, data, size) ==
    [s EXCEPT !.totalSize = @ + size,
              !.chunks = IF size <= Len(data) THEN Append(@, Slice(data, 0, size)) ELSE @]

\* System.arraycopy to chunk_buf at chunkhead; out of bounds ends the upload.
flush(s, buf, length) ==
    IF s.chunkhead + length > MaxChunkSize THEN [s EXCEPT !.left = "exception"]
    ELSE [s EXCEPT !.chunk_buf = [i \in DOMAIN @ |->
            IF i \in s.chunkhead + 1 .. s.chunkhead + length
            THEN buf[s.RFPhead + i - s.chunkhead] ELSE @[i]]]

\* The chunk of length bytes at RFPhead is cut off.
cut(s, buf, length) ==
    LET copied == flush(s, buf, length) IN
    IF copied.left # "no" THEN copied
    ELSE [uploadChunk(copied, copied.chunk_buf, length)
            EXCEPT !.RFPhead = @ + length, !.chunkhead = 0]

\* The first window of a file, and the file of m + 1 bytes, which ends here.
FirstWindow(s, buf) ==
    LET rfp == set_firstRFP(Slice(buf, 0, m))
        first == IF isInterestedRFP(rfp) THEN cut([s EXCEPT !.rfp = rfp], buf, m)
                 ELSE [s EXCEPT !.rfp = rfp]
    IN  IF Len(buf) # m + 1 THEN first
        ELSE [cut(first, buf, m - first.RFPhead + 1) EXCEPT !.left = "break"]

\* Plausible bug: an anchor ends a chunk however short it is.
WindowAnySize(s, buf, i) ==
    LET rolled == [s EXCEPT !.rfp = getRFP(@, buf[i], buf[i + m])]
        length == i + m - s.RFPhead
    IN  IF s.left = "no" /\ length > 0 /\ (isInterestedRFP(rolled.rfp) \/ length = MaxChunkSize)
        THEN cut(rolled, buf, length)
        ELSE rolled

\* The window that starts at i: its fingerprint decides over a chunk that ends
\* with the byte at i + m - 1.
Window(s, buf, i) ==
    LET rolled == [s EXCEPT !.rfp = getRFP(@, buf[i], buf[i + m])]
        length == i + m - s.RFPhead
    IN  IF s.left # "no" THEN s
        ELSE IF /\ isInterestedRFP(rolled.rfp) \/ length = MaxChunkSize
                /\ length >= m
             THEN cut(rolled, buf, length)
             ELSE rolled

\* The end of a block: an open chunk is flushed up to the window, and the
\* window and the byte after it move to the front.
MoveToFront(s, buf, i) ==
    LET length == i - s.RFPhead
        kept == IF length > 0
                THEN [flush(s, buf, length)
                        EXCEPT !.chunkhead = @ + length, !.backup = @ + length, !.RFPhead = 0]
                ELSE [s EXCEPT !.RFPhead = @ - i]
    IN  IF s.left # "no" THEN s ELSE [kept EXCEPT !.front = Slice(buf, i, m + 1)]

\* The windows of a block, from the one that starts at 1 to the one at last.
Windows(begun, buf, last) ==
    LET slid[i \in 0 .. last] == IF i = 0 THEN begun ELSE Window(slid[i - 1], buf, i)
    IN  slid[last]

Block(s, bytesRead) ==
    LET buf == s.front \o bytesRead
        last == Len(buf) - m - 1
        begun == IF s.front = <<>> THEN FirstWindow(s, buf) ELSE s
    IN  IF s.left # "no" THEN s
        ELSE IF Len(buf) <= m THEN uploadChunk(s, bytesRead, Len(bytesRead))
        ELSE MoveToFront(Windows(begun, buf, last), buf, last)

\* Plausible bug: the bytes flushed before are not counted in the last chunk.
RemainderShort(s) ==
    LET length == m - s.RFPhead + 1
        copied == flush(s, s.front, length)
    IN  IF copied.left # "no" THEN copied ELSE uploadChunk(copied, copied.chunk_buf, length)

\* What is left after the last block.
Remainder(s) ==
    LET length == m - s.RFPhead + 1
        copied == flush(s, s.front, length)
    IN  IF copied.left # "no" THEN copied
        ELSE uploadChunk(copied, copied.chunk_buf, length + s.backup)

\* in.read: the first read fills the buffer, the others what is behind the front.
Reads(file) ==
    LET step == BUFFER_SIZE - (m + 1)
        more == IF Len(file) <= BUFFER_SIZE THEN 0
                ELSE (Len(file) - BUFFER_SIZE + step - 1) \div step
        at(k) == BUFFER_SIZE + (k - 1) * step
    IN  IF file = <<>> THEN <<>>
        ELSE <<Slice(file, 0, IF more = 0 THEN Len(file) ELSE BUFFER_SIZE)>>
               \o [k \in 1 .. more |->
                     SubSeq(file, at(k) + 1, IF k = more THEN Len(file) ELSE at(k) + step)]

chunking(file) ==
    LET reads == Reads(file)
        after[k \in 0 .. Len(reads)] == IF k = 0 THEN NewFile ELSE Block(after[k - 1], reads[k])
        read == after[Len(reads)]
    IN  IF read.front = <<>> \/ read.left = "exception" THEN read ELSE Remainder(read)

-----------------------------------------------------------------------------
\* Reference definitions, over the files of at most n bytes.
FilesUpTo(n, Bytes) == UNION {[1 .. k -> Bytes] : k \in 0 .. n}

Power(base) == LET power[k \in Nat] == IF k = 0 THEN 1 ELSE base * power[k - 1] IN power

\* The fingerprint of a window, as the polynomial it is defined by.
Fingerprint(terms) ==
    LET sum[n \in 0 .. Len(terms)] ==
          IF n = 0 THEN 0 ELSE sum[n - 1] + terms[n] * Power(d)[Len(terms) - n]
    IN  sum[Len(terms)]

\* The fingerprint rolled over the first i windows.
Rolled(bytes, i) ==
    LET rolled[k \in 0 .. i] ==
          IF k = 0 THEN set_firstRFP(Slice(bytes, 0, m))
          ELSE getRFP(rolled[k - 1], bytes[k], bytes[k + m])
    IN  rolled[i]

\* upload takes any x for maximum_chunk_size; only one greater than the window leaves
\* room for a chunk of the minimum size and a limit that an open chunk can still reach.
WindowFits == m < MaxChunkSize

\* The files, for parameters that go together, that one read of the buffer takes.
Fits(file) == WindowFits /\ Len(file) <= BUFFER_SIZE

RestoredFrom(file) == FlattenSeq(chunking(file).chunks) = file

\* Anchors by content: whether a cut may be made behind a window is decided by
\* the m bytes in it alone, wherever in a file and behind whatever bytes they are.
AnchorsFit(bytes) ==
    \A i \in 0 .. Len(bytes) - m :
        isInterestedRFP(Rolled(bytes, i)) <=> Fingerprint(Slice(bytes, i, m)) % AnchorMod = 0

\* "Minimum chunk size requirement" and maximum_chunk_size; the last chunk may
\* be shorter than the minimum.
SizesFit(file) ==
    LET chunks == chunking(file).chunks IN
    \A i \in DOMAIN chunks :
        /\ Len(chunks[i]) <= MaxChunkSize
        /\ i < Len(chunks) => Len(chunks[i]) >= m
=============================================================================
