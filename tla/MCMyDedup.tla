----------------------------- MODULE MCMyDedup -----------------------------
(***************************************************************************)
(* Files of two chunk values that occur once, twice and in both orders;    *)
(* all files of at most ten bytes, or of more than a buffer, for chunking. *)
(***************************************************************************)
EXTENDS MyDedup

MCFiles ==
    LET A == <<0, 0, 0>> B == <<1, 1, 0>> IN {<<>>, A, A \o A, A \o B, B \o A}
MCAllFiles == FilesUpTo(10, {0, 1})
\* One byte more than one read of the buffer takes.
MCLongFiles == [1 .. BUFFER_SIZE + 1 -> {0, 1}]
Symmetry == Permutations(Paths)
=============================================================================
