------------------------- MODULE FactGroupRefinement -------------------------
(***************************************************************************)
(* FactGroup implements FactRegister for the sources whose tags carry an   *)
(* instant, as long as no head summary is written and the stores' clocks   *)
(* agree.  The run rollup_cut shows why the first condition is there; a    *)
(* store whose clock runs behind stamps a retraction earlier than the      *)
(* assertion it removes; and a tag without an instant is refused by ingest *)
(* where the sweep on arrival would have let it stand.                     *)
(***************************************************************************)
EXTENDS FactGroup

(* The newest instant of the record a store holds.                         *)
RowInstants ==
  [r \in Store |-> [s \in Stamped |-> Latest(payload[r].head[s].tags)]]

OfStamped(h) == [r \in Store |-> [s \in Stamped |-> h[r][s]]]

Register ==
  INSTANCE FactRegister WITH
    Source <- Stamped,
    heard <- OfStamped(heard),
    cut <- OfStamped(cut),
    row <- RowInstants

(* Whatever is delivered, twice, late or in any order, a store's row is    *)
(* the newest assertion after the last retraction it was told of: the      *)
(* plan, the version chain, its compaction, the ingest filter and the      *)
(* sweep of appendRetractions add up to a last-writer-wins register.       *)
RegisterSpec == Register!Spec

=============================================================================
