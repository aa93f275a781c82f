------------------------------ MODULE RowLimits ------------------------------
(***************************************************************************)
(* The limits on what sessions may write to the table they share: the      *)
(* table-wide row cap, kept as a counter that every counted write raises   *)
(* first and that a daily reconcile sets back to what it scanned, and each *)
(* session's rate (server/row-service/handler.mjs; a turn's writes pass    *)
(* the same cap, server/turn-service/handler.mjs).  Each call to the table *)
(* is a step.                                                              *)
(*                                                                         *)
(* The table's backend gives a row the time to live it was itself opened   *)
(* with.  Turns and the news worker open theirs with one, the row service  *)
(* without, and the one it stamps on a row is not written: what it puts    *)
(* stands for good.  A delete only marks a row, which goes on counting.    *)
(*                                                                         *)
(* The rows of the other counters and markers are left out: like the       *)
(* counter's own, they only add to what a scan counts.                     *)
(***************************************************************************)
EXTENDS Integers, FiniteSets

CONSTANTS
  Request,      \* the requests that can be under way at once
  Turn,         \* those that are turns; the others come to the row service
  Key,
  Cap,          \* tableRowCap
  RateLimit,    \* the requests of one session in a window
  MaxUncounted, \* bound on the rows the news worker writes
  MaxDeaths     \* bound on the reconciles cut off

ASSUME RowLimitsAssumption ==
  /\ Turn \subseteq Request
  /\ IsFiniteSet(Key)
  /\ Cap \in Nat /\ RateLimit \in Nat \ {0}
  /\ MaxUncounted \in Nat /\ MaxDeaths \in Nat

VARIABLES
  rows,         \* the rows in the table, those marked deleted included
  lasting,      \* the rows without a time to live
  count,        \* the counter's item
  rate,         \* each session's rate item
  outstanding,  \* the rows each request has counted and not yet put
  deleting,     \* the rows each request has read and not yet marked deleted
  scanning,     \* a reconcile is under way
  unseen,       \* the rows its scan has not come to
  total,        \* what it has counted
  uncounted,    \* history: the rows the counter was never raised for
  met,          \* history: the reconcile under way met a write
  missed,       \* history: the counter comes from a reconcile that met one
  worker,       \* the rows the news worker has written
  deaths

reconcile == <<scanning, unseen, total, met>>
table == <<rows, lasting>>
calls == <<outstanding, deleting>>
vars == <<table, count, rate, calls, reconcile, uncounted, missed, worker, deaths>>

NoItem == -1

Init ==
  /\ rows = {}
  /\ lasting = {}
  /\ count = NoItem
  /\ rate = [r \in Request |-> NoItem]
  /\ outstanding = [r \in Request |-> {}]
  /\ deleting = [r \in Request |-> {}]
  /\ scanning = FALSE
  /\ unseen = {}
  /\ total = 0
  /\ uncounted = {}
  /\ met = FALSE
  /\ missed = FALSE
  /\ worker = 0
  /\ deaths = 0

(* conditionalAdd.  An item that is not there yet is made whatever the     *)
(* amount.                                                                 *)
Added(item, amount) == IF item = NoItem THEN amount ELSE item + amount

(* Mutant: the threshold leaves the amount itself out.                     *)
MayAddPast(item, amount, limit) == item = NoItem \/ item <= limit

MayAdd(item, amount, limit) == item = NoItem \/ item <= limit - amount

-----------------------------------------------------------------------------
(* A put of some rows, or a turn that learns them.                         *)

Idle(r) == outstanding[r] = {} /\ deleting[r] = {}

SpendRate(r) ==
  /\ MayAdd(rate[r], 1, RateLimit)
  /\ rate' = [rate EXCEPT ![r] = Added(@, 1)]

(* Within its rate, the request raises the counter; or the counter is at   *)
(* the cap, and the rate is spent for nothing.                             *)
Count(r, batch) ==
  /\ Idle(r)
  /\ SpendRate(r)
  /\ IF MayAdd(count, Cardinality(batch), Cap)
     THEN /\ count' = Added(count, Cardinality(batch))
          /\ outstanding' = [outstanding EXCEPT ![r] = batch]
          /\ met' = scanning
     ELSE UNCHANGED <<count, outstanding, met>>
  /\ UNCHANGED <<table, deleting, scanning, unseen, total, uncounted, missed, worker, deaths>>

(* Rows are put one call each, and whole: a row put again has the time to  *)
(* live of its last put.                                                   *)
Put(r, k) ==
  /\ k \in outstanding[r]
  /\ rows' = rows \cup {k}
  /\ lasting' = IF r \in Turn THEN lasting \ {k} ELSE lasting \cup {k}
  /\ outstanding' = [outstanding EXCEPT ![r] = @ \ {k}]
  /\ uncounted' = uncounted \ {k}
  /\ UNCHANGED <<count, rate, deleting, reconcile, missed, worker, deaths>>

(* Mutant: a failed put gives back all that its request counted.           *)
PutFailsBack(r, k) ==
  /\ k \in outstanding[r]
  /\ outstanding' = [outstanding EXCEPT ![r] = @ \ {k}]
  /\ count' = count - Cardinality(outstanding[r])
  /\ UNCHANGED <<table, rate, deleting, reconcile, uncounted, missed, worker, deaths>>

(* A call fails, or the request ends before it; what was counted is not    *)
(* given back.                                                             *)
PutFails(r, k) ==
  /\ k \in outstanding[r]
  /\ outstanding' = [outstanding EXCEPT ![r] = @ \ {k}]
  /\ UNCHANGED <<table, count, rate, deleting, reconcile, uncounted, missed, worker, deaths>>

(* A session's window ends when its item's time to live takes it.          *)
RateExpires(r) ==
  /\ rate[r] # NoItem
  /\ rate' = [rate EXCEPT ![r] = NoItem]
  /\ UNCHANGED <<table, count, calls, reconcile, uncounted, missed, worker, deaths>>

-----------------------------------------------------------------------------
(* A delete of some rows.  Those of a turn or of the worker are the same   *)
(* calls.                                                                  *)

(* Rows are read before they are marked.                                   *)
ReadToDelete(r, batch) ==
  /\ r \notin Turn
  /\ Idle(r)
  /\ batch \subseteq rows
  /\ SpendRate(r)
  /\ deleting' = [deleting EXCEPT ![r] = batch]
  /\ UNCHANGED <<table, count, outstanding, reconcile, uncounted, missed, worker, deaths>>

(* The mark is an update: of a row that has expired meanwhile it makes a   *)
(* new one, which no counter was raised for and which has no time to live. *)
MarkDeleted(r, k) ==
  /\ k \in deleting[r]
  /\ deleting' = [deleting EXCEPT ![r] = @ \ {k}]
  /\ rows' = rows \cup {k}
  /\ IF k \in rows
     THEN UNCHANGED <<lasting, uncounted, met>>
     ELSE /\ lasting' = lasting \cup {k}
          /\ uncounted' = uncounted \cup {k}
          /\ met' = scanning
  /\ UNCHANGED <<count, rate, outstanding, scanning, unseen, total, missed, worker, deaths>>

MarkFails(r, k) ==
  /\ k \in deleting[r]
  /\ deleting' = [deleting EXCEPT ![r] = @ \ {k}]
  /\ UNCHANGED <<table, count, rate, outstanding, reconcile, uncounted, missed, worker, deaths>>

-----------------------------------------------------------------------------

(* The news worker's writes pass no counter.                               *)
WorkerPut(k) ==
  /\ worker < MaxUncounted
  /\ worker' = worker + 1
  /\ rows' = rows \cup {k}
  /\ lasting' = lasting \ {k}
  /\ uncounted' = IF k \in rows THEN uncounted ELSE uncounted \cup {k}
  /\ met' = scanning
  /\ UNCHANGED <<count, rate, calls, scanning, unseen, total, missed, deaths>>

Expire(k) ==
  /\ k \in rows \ lasting
  /\ rows' = rows \ {k}
  /\ uncounted' = uncounted \ {k}
  /\ UNCHANGED <<lasting, count, rate, calls, reconcile, missed, worker, deaths>>

-----------------------------------------------------------------------------
(* reconcileTableRowCount.                                                 *)

ScanBegin ==
  /\ ~scanning
  /\ scanning' = TRUE
  /\ unseen' = Key
  /\ total' = IF count = NoItem THEN 0 ELSE 1
  /\ met' = \E r \in Request : outstanding[r] # {}
  /\ UNCHANGED <<table, count, rate, calls, uncounted, missed, worker, deaths>>

(* One page, here one row's place, in the scan's own order.                *)
Scan(k) ==
  /\ scanning /\ k \in unseen
  /\ unseen' = unseen \ {k}
  /\ total' = total + (IF k \in rows THEN 1 ELSE 0)
  /\ UNCHANGED <<table, count, rate, calls, scanning, uncounted, met, missed,
                 worker, deaths>>


(* setGlobalRowCount, without a condition.                                 *)
SetRowCount ==
  /\ scanning /\ unseen = {}
  /\ count' = total
  /\ uncounted' = {}
  /\ missed' = met
  /\ scanning' = FALSE /\ met' = FALSE /\ total' = 0
  /\ UNCHANGED <<table, rate, calls, unseen, worker, deaths>>

ReconcileDies ==
  /\ scanning
  /\ deaths < MaxDeaths
  /\ deaths' = deaths + 1
  /\ scanning' = FALSE /\ met' = FALSE /\ unseen' = {} /\ total' = 0
  /\ UNCHANGED <<table, count, rate, calls, uncounted, missed, worker>>

-----------------------------------------------------------------------------

Batches == {batch \in SUBSET Key : Cardinality(batch) \in 1..Cap}

Outcome(r) ==
  \E k \in Key : Put(r, k) \/ PutFails(r, k) \/ MarkDeleted(r, k) \/ MarkFails(r, k)

Reconcile == ScanBegin \/ SetRowCount \/ \E k \in Key : Scan(k)

Next ==
  \/ \E r \in Request :
       \/ RateExpires(r) \/ Outcome(r)
       \/ \E batch \in Batches : Count(r, batch) \/ ReadToDelete(r, batch)
  \/ \E k \in Key : WorkerPut(k) \/ Expire(k)
  \/ Reconcile \/ ReconcileDies

Spec == Init /\ [][Next]_vars

(* A call ends, a row that has a time to live lives no longer, and the     *)
(* reconcile is run every day.                                             *)
FairSpec ==
  /\ Spec
  /\ \A r \in Request : WF_vars(Outcome(r))
  /\ \A k \in Key : WF_vars(Expire(k))
  /\ WF_vars(Reconcile)

-----------------------------------------------------------------------------
(* Correctness.                                                            *)

TypeOK ==
  /\ rows \subseteq Key
  /\ lasting \subseteq rows
  /\ count \in Nat \cup {NoItem}
  /\ rate \in [Request -> 1..RateLimit \cup {NoItem}]
  /\ outstanding \in [Request -> SUBSET Key]
  /\ deleting \in [Request -> SUBSET Key]
  /\ scanning \in BOOLEAN
  /\ unseen \subseteq Key
  /\ total \in Nat
  /\ uncounted \subseteq rows
  /\ met \in BOOLEAN /\ missed \in BOOLEAN
  /\ worker \in 0..MaxUncounted
  /\ deaths \in 0..MaxDeaths

Pending == UNION {outstanding[r] : r \in Request}

(* Drift only ever pushes the counter up: every row in the table or on its *)
(* way there is in the count, except those the news worker put, or a late  *)
(* mark made, since the last reconcile; unless that reconcile met a write. *)
CountCoversRows ==
  ~missed => Cardinality((rows \ uncounted) \cup Pending) <= (IF count = NoItem THEN 0 ELSE count)

Full == ~MayAdd(count, 1, Cap)


=============================================================================
