----------------------------- MODULE MCRowHandle -----------------------------
(* Values for the constants of RowHandle that a configuration cannot write *)
(* down.                                                                   *)
EXTENDS RowHandle

CONSTANTS page, turn, seeded, shared, own, queue, v

(* Every handle reads `seeded` from the seed; the rows a turn retrieved    *)
(* for itself hold `shared` too.                                           *)
SeedAndSubgraph ==
  [h \in Handle |->
    [k \in Key |-> IF k = seeded \/ (k = shared /\ h = turn) THEN v ELSE Gone]]

=============================================================================
