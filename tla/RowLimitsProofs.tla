--------------------------- MODULE RowLimitsProofs ---------------------------
(* Theorems about RowLimits, for any number of requests and rows, any cap  *)
(* and rate, and any number of rows the news worker writes.                *)
EXTENDS RowLimits, FiniteSetTheorems, TLAPS

-----------------------------------------------------------------------------
(* Types.                                                                  *)

(* Raising a counter by an amount keeps it a counter.                      *)
LEMMA AddedType ==
  ASSUME NEW item \in Nat \cup {NoItem}, NEW amount \in Nat
  PROVE  Added(item, amount) \in Nat /\ Added(item, amount) >= amount
BY DEF Added, NoItem

(* A batch is a set of rows, and its size a number.                        *)
LEMMA BatchType ==
  ASSUME NEW batch \in Batches
  PROVE  batch \subseteq Key /\ IsFiniteSet(batch) /\ Cardinality(batch) \in Nat
BY RowLimitsAssumption, FS_Subset, FS_CardinalityType DEF Batches

(* A rate that is spent stays within its limit.                            *)
LEMMA SpentRateType ==
  ASSUME TypeOK, NEW r \in Request, SpendRate(r)
  PROVE  rate' \in [Request -> 1..RateLimit \cup {NoItem}]
BY RowLimitsAssumption DEF TypeOK, SpendRate, MayAdd, Added, NoItem

(* Every step keeps the types.                                             *)
LEMMA TypeStep == TypeOK /\ [Next]_vars => TypeOK'
<1> SUFFICES ASSUME TypeOK, [Next]_vars PROVE TypeOK'
  OBVIOUS
<1> USE RowLimitsAssumption DEF TypeOK, reconcile, table, calls
<1>1. ASSUME NEW r \in Request, NEW batch \in Batches, Count(r, batch) PROVE TypeOK'
  <2>1. count' \in Nat \cup {NoItem}
    <3>1. Added(count, Cardinality(batch)) \in Nat BY BatchType, AddedType
    <3>2. QED BY <1>1, <3>1 DEF Count
  <2>2. rate' \in [Request -> 1..RateLimit \cup {NoItem}]
    BY <1>1, SpentRateType DEF Count
  <2>3. outstanding' \in [Request -> SUBSET Key]
    BY <1>1, BatchType DEF Count
  <2>4. QED BY <1>1, <2>1, <2>2, <2>3 DEF Count
<1>2. ASSUME NEW r \in Request, NEW k \in Key, Put(r, k) \/ PutFails(r, k) PROVE TypeOK'
  BY <1>2 DEF Put, PutFails
<1>d. ASSUME NEW r \in Request, NEW batch \in Batches, ReadToDelete(r, batch) PROVE TypeOK'
  <2>1. rate' \in [Request -> 1..RateLimit \cup {NoItem}]
    BY <1>d, SpentRateType DEF ReadToDelete
  <2>2. deleting' \in [Request -> SUBSET Key]
    BY <1>d, BatchType DEF ReadToDelete
  <2>3. QED BY <1>d, <2>1, <2>2 DEF ReadToDelete
<1>m. ASSUME NEW r \in Request, NEW k \in Key, MarkDeleted(r, k) \/ MarkFails(r, k)
      PROVE  TypeOK'
  BY <1>m DEF MarkDeleted, MarkFails
<1>3. ASSUME NEW r \in Request, RateExpires(r) PROVE TypeOK'
  BY <1>3 DEF RateExpires
<1>4. ASSUME NEW k \in Key, WorkerPut(k) PROVE TypeOK'
  BY <1>4 DEF WorkerPut
<1>5. ASSUME NEW k \in Key, Expire(k) PROVE TypeOK'
  BY <1>5 DEF Expire
<1>6. CASE ScanBegin
  BY <1>6 DEF ScanBegin
<1>7. ASSUME NEW k \in Key, Scan(k) PROVE TypeOK'
  BY <1>7 DEF Scan
<1>8. CASE SetRowCount
  BY <1>8 DEF SetRowCount
<1>9. CASE ReconcileDies
  <2>1. deaths' \in 0..MaxDeaths BY <1>9 DEF ReconcileDies
  <2>2. QED BY <1>9, <2>1 DEF ReconcileDies
<1>10. CASE UNCHANGED vars
  BY <1>10 DEF vars
<1>11. QED
  BY <1>1, <1>2, <1>d, <1>m, <1>3, <1>4, <1>5, <1>6, <1>7, <1>8, <1>9, <1>10
     DEF Next, Outcome, Reconcile

(* Every reachable state is well typed: in particular no session passes    *)
(* its rate and every row the counter misses is in the table.              *)
THEOREM RowLimitsTypeCorrect == Spec => []TypeOK
<1>1. Init => TypeOK
  <2> SUFFICES ASSUME Init PROVE TypeOK
    OBVIOUS
  <2>1. worker \in 0..MaxUncounted /\ deaths \in 0..MaxDeaths
    BY RowLimitsAssumption DEF Init
  <2>2. rate \in [Request -> 1..RateLimit \cup {NoItem}]
        /\ outstanding \in [Request -> SUBSET Key] /\ deleting \in [Request -> SUBSET Key]
    BY DEF Init
  <2>3. total \in Nat /\ count \in Nat \cup {NoItem}
    BY DEF Init
  <2>4. /\ rows \subseteq Key /\ lasting \subseteq rows /\ unseen \subseteq Key /\ uncounted \subseteq rows
        /\ scanning \in BOOLEAN /\ met \in BOOLEAN /\ missed \in BOOLEAN
    BY DEF Init
  <2>5. QED BY <2>1, <2>2, <2>3, <2>4 DEF TypeOK
<1>2. QED BY <1>1, TypeStep, PTL DEF Spec

-----------------------------------------------------------------------------
(* The counter.                                                            *)

(* The rows the counter has to cover.                                      *)
Counted == (rows \ uncounted) \cup Pending

CountValue == IF count = NoItem THEN 0 ELSE count

(* The strengthening: a reconcile that met no write has counted every row  *)
(* its scan has come to, and none is on its way.                           *)
ScanCovers ==
  scanning /\ ~met => /\ Pending = {}
                      /\ Cardinality(rows \ unseen) <= total

(* Fewer rows are not more.                                                *)
LEMMA FewerRows ==
  ASSUME NEW S \in SUBSET Key, NEW T \in SUBSET S
  PROVE  /\ IsFiniteSet(S) /\ IsFiniteSet(T)
         /\ Cardinality(S) \in Nat /\ Cardinality(T) \in Nat
         /\ Cardinality(T) <= Cardinality(S)
BY RowLimitsAssumption, FS_Subset, FS_CardinalityType

(* What a request has outstanding is pending.                              *)
LEMMA PendingRows ==
  ASSUME TypeOK
  PROVE  /\ Counted \subseteq Key
         /\ \A r \in Request : outstanding[r] \subseteq Pending
BY DEF TypeOK, Counted, Pending

(* Taking a row of one request away from it leaves all other rows pending. *)
LEMMA PendingLess ==
  ASSUME TypeOK, NEW r \in Request, NEW k \in outstanding[r],
         outstanding' = [outstanding EXCEPT ![r] = @ \ {k}]
  PROVE  Pending' \subseteq Pending /\ Pending \subseteq Pending' \cup {k}
BY DEF TypeOK, Pending

(* Every step of a scan under way, or beside it, keeps it covering.        *)
LEMMA ScanCoversStep == TypeOK /\ ScanCovers /\ [Next]_vars => ScanCovers'
<1> SUFFICES ASSUME TypeOK, ScanCovers, [Next]_vars, scanning', ~met'
             PROVE  Pending' = {} /\ Cardinality(rows' \ unseen') <= total'
  BY DEF ScanCovers
<1> USE DEF reconcile, table, calls, TypeOK
<1>1. ASSUME NEW r \in Request, NEW batch \in Batches, Count(r, batch)
      PROVE  Pending' = {} /\ Cardinality(rows' \ unseen') <= total'
  BY <1>1 DEF Count, ScanCovers, Pending
<1>2. ASSUME NEW r \in Request, NEW k \in Key, Put(r, k) \/ PutFails(r, k)
      PROVE  FALSE
  <2>1. k \in Pending BY <1>2, PendingRows DEF Put, PutFails
  <2>2. scanning /\ ~met BY <1>2 DEF Put, PutFails
  <2>3. QED BY <2>1, <2>2 DEF ScanCovers
<1>m. ASSUME NEW r \in Request, NEW k \in Key, MarkDeleted(r, k)
      PROVE  Pending' = {} /\ Cardinality(rows' \ unseen') <= total'
  <2>1. k \in rows BY <1>m DEF MarkDeleted
  <2>2. UNCHANGED <<rows, outstanding, reconcile>> BY <1>m, <2>1 DEF MarkDeleted
  <2>3. QED BY <2>2 DEF ScanCovers, Pending
<1>3. ASSUME NEW k \in Key, WorkerPut(k) PROVE FALSE
  BY <1>3 DEF WorkerPut
<1>4. ASSUME NEW k \in Key, Expire(k)
      PROVE  Pending' = {} /\ Cardinality(rows' \ unseen') <= total'
  <2>1. Pending' = Pending /\ rows' \ unseen' \subseteq rows \ unseen /\ total' = total
    BY <1>4 DEF Expire, Pending
  <2>2. Cardinality(rows' \ unseen') <= Cardinality(rows \ unseen)
        /\ Cardinality(rows' \ unseen') \in Nat /\ Cardinality(rows \ unseen) \in Nat
    BY <2>1, FewerRows
  <2>3. scanning /\ ~met BY <1>4 DEF Expire
  <2>4. QED BY <2>1, <2>2, <2>3 DEF ScanCovers
<1>5. CASE ScanBegin
  <2>1. rows' \ unseen' = {} BY <1>5 DEF ScanBegin
  <2>2. Pending' = {} BY <1>5 DEF ScanBegin, Pending
  <2>3. total' >= 0 BY <1>5 DEF ScanBegin
  <2>4. QED BY <2>1, <2>2, <2>3, FS_EmptySet
<1>6. ASSUME NEW k \in Key, Scan(k)
      PROVE  Pending' = {} /\ Cardinality(rows' \ unseen') <= total'
  <2>0. scanning /\ ~met /\ Pending' = Pending BY <1>6 DEF Scan, Pending
  <2>1. IsFiniteSet(rows \ unseen) /\ Cardinality(rows \ unseen) \in Nat
    BY FewerRows
  <2>2. CASE k \in rows
    <3>1. rows' \ unseen' = (rows \ unseen) \cup {k} /\ k \notin rows \ unseen
      BY <1>6, <2>2 DEF Scan
    <3>2. Cardinality(rows' \ unseen') = Cardinality(rows \ unseen) + 1
      BY <2>1, <3>1, FS_AddElement
    <3>3. QED BY <1>6, <2>0, <2>1, <2>2, <3>2 DEF Scan, ScanCovers
  <2>3. CASE k \notin rows
    <3>1. rows' \ unseen' = rows \ unseen BY <1>6, <2>3 DEF Scan
    <3>2. total' = total BY <1>6, <2>3 DEF Scan
    <3>3. QED BY <2>0, <3>1, <3>2 DEF ScanCovers
  <2>4. QED BY <2>2, <2>3
<1>7. CASE SetRowCount \/ ReconcileDies
  BY <1>7 DEF SetRowCount, ReconcileDies
<1>8. CASE \/ UNCHANGED vars
           \/ \E r \in Request : \/ RateExpires(r) \/ \E k \in Key : MarkFails(r, k)
                               \/ \E batch \in Batches : ReadToDelete(r, batch)
  <2>1. UNCHANGED <<outstanding, reconcile, rows>>
    BY <1>8 DEF vars, RateExpires, MarkFails, ReadToDelete
  <2>2. Pending' = Pending BY <2>1 DEF Pending
  <2>3. QED BY <2>1, <2>2 DEF ScanCovers
<1>9. QED
  BY <1>1, <1>2, <1>m, <1>3, <1>4, <1>5, <1>6, <1>7, <1>8 DEF Next, Outcome, Reconcile

(* Every step keeps the counter over the rows.                             *)
LEMMA CoverStep ==
  TypeOK /\ ScanCovers /\ CountCoversRows /\ [Next]_vars => CountCoversRows'
<1> SUFFICES ASSUME TypeOK, ScanCovers, CountCoversRows, [Next]_vars, ~missed'
             PROVE  Cardinality(Counted') <= CountValue'
  BY DEF CountCoversRows, Counted, CountValue
<1> USE DEF reconcile, table, calls, TypeOK
<1>k. Counted \subseteq Key /\ CountValue \in Nat
  BY PendingRows DEF CountValue
<1>f. IsFiniteSet(Counted) /\ Cardinality(Counted) \in Nat
  BY <1>k, FewerRows
<1>l. ASSUME missed' = missed, CountValue' = CountValue, Counted' \subseteq Counted
      PROVE  Cardinality(Counted') <= CountValue'
  <2>1. Cardinality(Counted') <= Cardinality(Counted) /\ Cardinality(Counted') \in Nat
    BY <1>k, <1>l, FewerRows
  <2>2. Cardinality(Counted) <= CountValue
    BY <1>l DEF CountCoversRows, Counted, CountValue
  <2>3. QED BY <1>f, <1>k, <1>l, <2>1, <2>2
<1>1. ASSUME NEW r \in Request, NEW batch \in Batches, Count(r, batch)
      PROVE  Cardinality(Counted') <= CountValue'
  <2>1. CASE MayAdd(count, Cardinality(batch), Cap)
    <3>1. Counted' \subseteq Counted \cup batch
      BY <1>1, <2>1, BatchType DEF Count, Counted, Pending
    <3>2. IsFiniteSet(Counted \cup batch)
          /\ Cardinality(Counted \cup batch) <= Cardinality(Counted) + Cardinality(batch)
      <4>1. IsFiniteSet(Counted \cup batch)
            /\ Cardinality(Counted \cup batch)
                 = Cardinality(Counted) + Cardinality(batch) - Cardinality(Counted \cap batch)
        BY <1>f, BatchType, FS_Union
      <4>2. Cardinality(Counted \cap batch) \in Nat
        BY <1>k, FewerRows
      <4>3. QED BY <1>f, <4>1, <4>2, BatchType
    <3>3. /\ Cardinality(Counted') <= Cardinality(Counted \cup batch)
          /\ Cardinality(Counted') \in Nat /\ Cardinality(Counted \cup batch) \in Nat
      <4>1. Counted \cup batch \in SUBSET Key BY <1>k, BatchType
      <4>2. Counted' \in SUBSET (Counted \cup batch) BY <3>1
      <4>3. QED BY <4>1, <4>2, FewerRows
    <3>4. CountValue' = CountValue + Cardinality(batch)
      BY <1>1, <2>1, BatchType DEF Count, Added, CountValue, NoItem
    <3>5. Cardinality(Counted) <= CountValue
      BY <1>1 DEF Count, CountCoversRows, Counted, CountValue
    <3>6. QED BY <1>f, <1>k, <3>2, <3>3, <3>4, <3>5, BatchType
  <2>2. CASE ~MayAdd(count, Cardinality(batch), Cap)
    BY <1>1, <1>l, <2>2 DEF Count, Counted, Pending, CountValue
  <2>3. QED BY <2>1, <2>2
<1>2. ASSUME NEW r \in Request, NEW k \in Key, Put(r, k)
      PROVE  Cardinality(Counted') <= CountValue'
  <2>1. Pending' \subseteq Pending /\ k \in Pending
    BY <1>2, PendingLess, PendingRows DEF Put
  <2>2. Counted' \subseteq Counted
    BY <1>2, <2>1 DEF Put, Counted
  <2>3. QED BY <1>2, <1>l, <2>2 DEF Put, CountValue
<1>3. ASSUME NEW r \in Request, NEW k \in Key, PutFails(r, k)
      PROVE  Cardinality(Counted') <= CountValue'
  <2>1. Counted' \subseteq Counted
    BY <1>3, PendingLess DEF PutFails, Counted
  <2>2. QED BY <1>3, <1>l, <2>1 DEF PutFails, CountValue
<1>m. ASSUME NEW r \in Request, NEW k \in Key, MarkDeleted(r, k)
      PROVE  Cardinality(Counted') <= CountValue'
  <2>1. Counted' \subseteq Counted
    BY <1>m DEF MarkDeleted, Counted, Pending
  <2>2. QED BY <1>m, <1>l, <2>1 DEF MarkDeleted, CountValue
<1>4. ASSUME NEW k \in Key, WorkerPut(k) \/ Expire(k)
      PROVE  Cardinality(Counted') <= CountValue'
  <2>1. Counted' \subseteq Counted
    BY <1>4 DEF WorkerPut, Expire, Counted, Pending
  <2>2. QED BY <1>4, <1>l, <2>1 DEF WorkerPut, Expire, CountValue
<1>5. CASE SetRowCount
  <2>1. scanning /\ ~met /\ unseen = {} BY <1>5 DEF SetRowCount
  <2>2. Counted' = rows \ unseen
    BY <1>5, <2>1 DEF SetRowCount, Counted, Pending, ScanCovers
  <2>3. CountValue' = total BY <1>5 DEF SetRowCount, CountValue, NoItem
  <2>4. QED BY <2>1, <2>2, <2>3 DEF ScanCovers
<1>6. CASE \/ ScanBegin \/ ReconcileDies \/ UNCHANGED vars
           \/ \E k \in Key : Scan(k)
           \/ \E r \in Request : \/ RateExpires(r) \/ \E k \in Key : MarkFails(r, k)
                               \/ \E batch \in Batches : ReadToDelete(r, batch)
  BY <1>6, <1>l
     DEF ScanBegin, ReconcileDies, Scan, RateExpires, MarkFails, ReadToDelete, vars,
         Counted, Pending, CountValue
<1>7. QED
  BY <1>1, <1>2, <1>3, <1>m, <1>4, <1>5, <1>6 DEF Next, Outcome, Reconcile

(* The drift only pushes the counter up: however many puts are under way,  *)
(* fail or expire, every row the counter was raised for is in it, until a  *)
(* reconcile meets a write.                                                *)
THEOREM CounterCoversRows == Spec => []CountCoversRows
<1>1. Init => ScanCovers
  BY DEF Init, ScanCovers
<1>2. Init => CountCoversRows
  <2> SUFFICES ASSUME Init PROVE Cardinality({}) <= 0 /\ (rows \ uncounted) \cup Pending = {}
    BY DEF Init, CountCoversRows
  <2>1. Cardinality({}) <= 0 BY FS_EmptySet
  <2>2. QED BY <2>1 DEF Init, Pending
<1>3. Spec => []ScanCovers
  BY <1>1, ScanCoversStep, RowLimitsTypeCorrect, PTL DEF Spec
<1>4. QED
  BY <1>2, <1>3, CoverStep, RowLimitsTypeCorrect, PTL DEF Spec

=============================================================================
