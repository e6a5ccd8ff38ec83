----------------------------- MODULE MCRouting ------------------------------
(***************************************************************************)
(* Instances of Routing for TLC.  The state space is finite as it is: a    *)
(* request makes at most MaxTries selections, which bounds rr and load.    *)
(***************************************************************************)
EXTENDS Routing, TLC

(* Requests are interchangeable; used in runs without liveness only.       *)
RequestSymmetry == Permutations(Request)

(* Nodes announce themselves and nobody else writes to the table: what     *)
(* goes wrong here goes wrong without any help from the health loop.       *)
CalmNext == \/ \E n \in NodeId : UpdateNode(n)
            \/ \E r \in Request : RequestNext(r)

CalmSpec == Init /\ [][CalmNext]_vars
=============================================================================
