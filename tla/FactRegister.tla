---------------------------- MODULE FactRegister ----------------------------
(***************************************************************************)
(* What a replicated fact promises its readers, one source at a time: a    *)
(* store's row is a function of what was delivered to it, never of the     *)
(* order of delivery.  The row holds the newest instant the source was     *)
(* heard to assert after the last retraction the store knows of, or        *)
(* nothing.                                                                *)
(***************************************************************************)
EXTENDS Integers

CONSTANTS Store, Source, Instant

VARIABLES
  heard,   \* heard[r][s]: the instants at which r heard s assert the fact
  cut,     \* cut[r][s]: the latest retraction of s that r knows of
  row      \* row[r][s]: what a reader at r sees of s, 0 for nothing

vars == <<heard, cut, row>>

Newest(T) == CHOOSE t \in T \cup {0} : \A u \in T : u <= t

Later(a, b) == IF b > a THEN b ELSE a

Read(H, C) ==
  [r \in Store |-> [s \in Source |-> Newest({t \in H[r][s] : t > C[r][s]})]]

Init ==
  /\ heard = [r \in Store |-> [s \in Source |-> {}]]
  /\ cut = [r \in Store |-> [s \in Source |-> 0]]
  /\ row = Read(heard, cut)

Assert(r, s, T) ==
  /\ heard' = [heard EXCEPT ![r][s] = @ \cup T]
  /\ UNCHANGED cut

Retract(r, C) ==
  /\ cut' = [cut EXCEPT ![r] = [s \in Source |-> Later(@[s], C[s])]]
  /\ UNCHANGED heard

Next ==
  /\ \/ \E r \in Store, s \in Source, T \in SUBSET Instant : Assert(r, s, T)
     \/ \E r \in Store, C \in [Source -> Instant] : Retract(r, C)
  /\ row' = Read(heard', cut')

Spec == Init /\ [][Next]_vars

=============================================================================
