------------------------------ MODULE Balancer ------------------------------
(***************************************************************************)
(* What the node pool promises to the connections it spreads: as long as   *)
(* the set of selectable nodes does not change, every connection goes to a *)
(* node that has carried a least share so far.  The README states it as    *)
(* a stable one-to-one alternation over the nodes that are online.         *)
(*                                                                         *)
(* This module is the abstract specification; Routing, which has the       *)
(* shared counter, the sorted node list and the concurrent requests of the *)
(* code, is shown to implement it.                                         *)
(***************************************************************************)
EXTENDS Naturals

CONSTANT Node

VARIABLES
    pool,   \* the nodes a connection may be sent to
    load    \* connections sent to each node since pool last changed

vars == <<pool, load>>

NoLoad == [n \in Node |-> 0]

TypeOK == /\ pool \in SUBSET Node
          /\ load \in [Node -> Nat]

Init == /\ pool \in SUBSET Node
        /\ load = NoLoad

Pick(n) ==
    /\ n \in pool
    /\ \A m \in pool : load[n] <= load[m]
    /\ load' = [load EXCEPT ![n] = @ + 1]
    /\ UNCHANGED pool

Repool ==
    /\ pool' \in SUBSET Node
    /\ pool' # pool
    /\ load' = NoLoad

Next == Repool \/ \E n \in Node : Pick(n)

Spec == Init /\ [][Next]_vars

(* No selectable node is ever more than one connection ahead of another:   *)
(* the outbound bandwidth of the cluster is shared evenly.                 *)
Balanced == \A m, n \in pool : load[m] <= load[n] + 1
=============================================================================
