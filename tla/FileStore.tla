----------------------------- MODULE FileStore -----------------------------
(***************************************************************************)
(* What MyDedup promises its user, without chunks or reference counts: a   *)
(* path is uploaded once, can be downloaded unchanged until it is deleted, *)
(* and no command on one path changes what another path holds.  MyDedup    *)
(* implements this specification.                                          *)
(***************************************************************************)
EXTENDS Sequences

CONSTANTS
    Paths,     \* pathnames
    Contents,  \* what a file can contain
    Absent     \* the path is not stored

VARIABLE contents  \* contents[p]: what download(p) gives back

Init == contents = [p \in Paths |-> Absent]

Upload(p, c) ==
    /\ contents[p] = Absent
    /\ contents' = [contents EXCEPT ![p] = c]

Delete(p) ==
    /\ contents[p] # Absent
    /\ contents' = [contents EXCEPT ![p] = Absent]

Next == \E p \in Paths : Delete(p) \/ \E c \in Contents : Upload(p, c)

Spec == Init /\ [][Next]_contents
=============================================================================
