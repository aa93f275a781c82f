---------------------------- MODULE MCSourceLookup ----------------------------
(* SourceLookup with its lookups given in the configurations; they take    *)
(* part in a liveness property, so they are not exchanged.                 *)
EXTENDS SourceLookup

=============================================================================
