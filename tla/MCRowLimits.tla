----------------------------- MODULE MCRowLimits -----------------------------
(* RowLimits with its requests and rows given in the configuration; they   *)
(* take part in a liveness property, so they are not exchanged.            *)
EXTENDS RowLimits

=============================================================================
