------------------------------ MODULE MCRouter ------------------------------
(* Router on three routers. *)
EXTENDS Router

\* 1 - 2 - 3, each link of cost 1.  Two UPDATEs can cut a link in both
\* directions (and make the others count to the cap), close the triangle, or
\* change a cost in both directions.
Line ==
    [r \in Routers |-> [n \in Routers |-> IF r - n \in {1, -1} THEN 1 ELSE None]]
=============================================================================
