----------------------------- MODULE MCFactGroup -----------------------------
(* Values for the constants of FactGroup that a configuration cannot       *)
(* write down.                                                             *)
EXTENDS FactGroupRefinement, TLC

CONSTANTS teach, corpus

(* Source 0 is src:none; 1 to 6 are chat sessions; 7 to 9 are corpora.     *)
TypeOfSource == [s \in Source \ {NoSource} |-> IF s > 6 THEN corpus ELSE teach]

(* Two stores with the same clock may be exchanged.                        *)
StoreSymmetry == Permutations(Store)

NoLag == [r \in Store |-> 0]

(* One store's clock runs an instant slow.                                 *)
OneSlowStore == [r \in Store |-> IF r = CHOOSE q \in Store : TRUE THEN 1 ELSE 0]

=============================================================================
