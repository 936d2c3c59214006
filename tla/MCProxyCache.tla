---------------------------- MODULE MCProxyCache ----------------------------
(* ProxyCache on small instances. *)
EXTENDS ProxyCache

\* Every version has two units: the second comes in the loop's last block.
SameLen == [v \in Versions |-> 2]

\* One unit more than the leading block and the last one.
ThreeBlocks == [v \in Versions |-> 3]

\* The first version is empty.
EmptyFirst == [v \in Versions |-> IF v = 1 THEN 0 ELSE 1]
=============================================================================
