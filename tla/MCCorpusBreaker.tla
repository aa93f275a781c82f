--------------------------- MODULE MCCorpusBreaker ---------------------------
(* CorpusBreaker with its turns given in the configurations; they take     *)
(* part in a liveness property, so they are not exchanged.                 *)
EXTENDS CorpusBreaker

=============================================================================
