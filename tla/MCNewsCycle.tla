----------------------------- MODULE MCNewsCycle -----------------------------
(* NewsCycle with its cycles and turns given in the configuration; they    *)
(* take part in a liveness property, so they are not exchanged.            *)
EXTENDS NewsCycle

=============================================================================
