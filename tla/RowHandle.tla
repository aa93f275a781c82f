------------------------------ MODULE RowHandle ------------------------------
(***************************************************************************)
(* The handles that read and write one session's rows                      *)
(* (src/adapters/memory/core.mjs, "Backend D").  A handle assembles the    *)
(* session's rows over a read-only seed once, answers every read from that *)
(* assembly, and writes only what a mutation changed in it.  A page, a     *)
(* turn and a worker cycle hold handles of one session at the same time,   *)
(* and no handle is told what another one writes.                          *)
(*                                                                         *)
(* A batch of rows is one call per row, none of them atomic with another   *)
(* (row-backend-dynamo.mjs); a failed batch is given up while its other    *)
(* calls are still out.  A handle's mutations follow one another here.     *)
(***************************************************************************)
EXTENDS Integers, FiniteSets

CONSTANTS
  Handle,
  Key,           \* row keys
  Bookkeeping,   \* the keys of rows that never compose into a payload
  Audited,       \* the keys of records whose audit stamp a recompute moves
  Content,       \* what a row says, the stamp left out
  Oversized,     \* the contents that serialize over MAX_ROW_BYTES
  Gone,          \* no row
  Base,          \* Base[h]: the read-only rows under handle h
  Dropping,      \* the handles opened with onOversizedRow: "drop"
  Retrying,      \* the handles whose backend repeats a failed call once
  MaxTouched,    \* bound on the rows one mutation changes
  MaxMutations,  \* bound on the mutations begun
  MaxFailures    \* bound on the batches that fail

Row == Content \cup {Gone}

ASSUME RowHandleAssumption ==
  /\ Handle # {}
  /\ Bookkeeping \subseteq Key /\ Audited \subseteq Key \ Bookkeeping
  /\ Gone \notin Content /\ Oversized \subseteq Content
  /\ Base \in [Handle -> [Key -> Row]]
  /\ \A h \in Handle, k \in Bookkeeping : Base[h][k] = Gone
  /\ Dropping \subseteq Handle /\ Retrying \subseteq Handle
  /\ MaxTouched \in Nat /\ MaxMutations \in Nat /\ MaxFailures \in Nat

VARIABLES
  store,      \* the session's rows
  loaded,     \* the handles that hold an assembled payload
  baseline,   \* storedRows: the rows each handle takes the store to hold
  assembled,  \* cachedPayload
  pc,         \* how far each handle's write is
  delta,      \* the calls that write is made of
  pending,    \* those of them under way
  late,       \* calls given up by their handle and still out
  unseen,     \* history: the rows written behind each handle's back
  mutations, failures

vars == <<store, loaded, baseline, assembled, pc, delta, pending, late, unseen,
          mutations, failures>>

NoRows == [k \in Key |-> Gone]

Storable == Row \ Oversized

(* A call that writes a row, or deletes it; `meant` records whether the    *)
(* mutation behind it changed that row to what the call leaves.            *)
Call == [key: Key, row: Storable, meant: BOOLEAN]

(* The keys every handle reads from the seed.                              *)
Seeded == {k \in Key : \A h \in Handle : Base[h][k] # Gone}

(* overlayRows and rowsToPayload: a session row with a base row's key      *)
(* wins, and bookkeeping never composes.                                   *)
Assembly(h, rows) ==
  [k \in Key |-> IF k \in Bookkeeping THEN Gone
                 ELSE IF rows[k] # Gone THEN rows[k] ELSE Base[h][k]]

(* What earlier handles of the session left is anything they could store.  *)
Init ==
  /\ store \in [Key -> Storable]
  /\ \A k \in Seeded : store[k] = Gone
  /\ loaded = {}
  /\ baseline = [h \in Handle |-> NoRows]
  /\ assembled = [h \in Handle |-> NoRows]
  /\ pc = [h \in Handle |-> "idle"]
  /\ delta = [h \in Handle |-> {}]
  /\ pending = [h \in Handle |-> {}]
  /\ late = {}
  /\ unseen = [h \in Handle |-> {}]
  /\ mutations = 0
  /\ failures = 0

-----------------------------------------------------------------------------

(* Mutant: bookkeeping rows are taken into the baseline.                   *)
AllRows(rows) == rows

SessionRows(rows) == [k \in Key |-> IF k \in Bookkeeping THEN Gone ELSE rows[k]]

(* ensureRowPayload on a cold handle.  A session's rows fit one page, so   *)
(* the read is one step.                                                   *)
Load(h) ==
  /\ h \notin loaded
  /\ loaded' = loaded \cup {h}
  /\ baseline' = [baseline EXCEPT ![h] = SessionRows(store)]
  /\ assembled' = [assembled EXCEPT ![h] = Assembly(h, SessionRows(store))]
  /\ unseen' = [unseen EXCEPT ![h] = {}]
  /\ UNCHANGED <<store, pc, delta, pending, late, mutations, failures>>

SeedOnlyKeys(h) == {k \in Key : Base[h][k] # Gone /\ baseline[h][k] = Gone}

(* Mutant: a row over the cap is written.                                  *)
RefusedNever(h, payload) == FALSE

(* payloadToRows: a row over the cap fails the write, or is left out.      *)
Refused(h, payload) ==
  /\ h \notin Dropping
  /\ \E k \in Key \ SeedOnlyKeys(h) : payload[k] \in Oversized

Projected(h, payload) ==
  [k \in Key |-> IF \/ k \in SeedOnlyKeys(h)
                    \/ h \in Dropping /\ payload[k] \in Oversized
                 THEN Gone ELSE payload[k]]

(* Mutant: a row whose audit stamp moved is written.                       *)
WrittenWithStamp(h, rows) ==
  {k \in Key : rows[k] # Gone /\ (rows[k] # baseline[h][k] \/ k \in Audited)}

(* diffRows less what differs by its audit stamp alone: the stamp moves on *)
(* every record a trust recompute touches.                                 *)
Written(h, rows) ==
  {k \in Key : rows[k] # Gone /\ rows[k] # baseline[h][k]}

Removed(h, rows) ==
  {k \in Key : baseline[h][k] # Gone /\ rows[k] = Gone}

Calls(h, payload) ==
  LET rows == Projected(h, payload) IN
  {[key |-> k, row |-> rows[k],
    meant |-> payload[k] = rows[k] /\ rows[k] # assembled[h][k]] :
     k \in Written(h, rows) \cup Removed(h, rows)}

PutsOf(calls) == {c \in calls : c.row # Gone}
DeletesOf(calls) == calls \ PutsOf(calls)

(* dropAssembledRowPayload.                                                *)
Dropped(h) ==
  /\ loaded' = loaded \ {h}
  /\ baseline' = [baseline EXCEPT ![h] = NoRows]
  /\ assembled' = [assembled EXCEPT ![h] = NoRows]

(* mutateMemory: fn works on a copy of the assembled payload, and the      *)
(* write is what the copy differs in.                                      *)
Mutate(h) ==
  /\ h \in loaded /\ pc[h] = "idle"
  /\ mutations < MaxMutations
  /\ mutations' = mutations + 1
  /\ \E T \in {S \in SUBSET (Key \ Bookkeeping) : Cardinality(S) <= MaxTouched} :
     \E new \in [T -> Row] :
       LET payload == [k \in Key |-> IF k \in T THEN new[k] ELSE assembled[h][k]] IN
       IF Refused(h, payload)
       THEN Dropped(h) /\ UNCHANGED <<pc, delta, pending>>
       ELSE /\ delta' = [delta EXCEPT ![h] = Calls(h, payload)]
            /\ pending' = [pending EXCEPT ![h] = PutsOf(Calls(h, payload))]
            /\ pc' = [pc EXCEPT ![h] = "putting"]
            /\ UNCHANGED <<loaded, baseline, assembled>>
  /\ UNCHANGED <<store, late, unseen, failures>>

-----------------------------------------------------------------------------

Apply(c) == store' = [store EXCEPT ![c.key] = c.row]

(* One call of a batch lands.                                              *)
Land(h) ==
  /\ \E c \in pending[h] :
       /\ Apply(c)
       /\ pending' = [pending EXCEPT ![h] = @ \ {c}]
       /\ unseen' = [g \in Handle |-> IF g = h THEN unseen[g] \ {c.key}
                                      ELSE unseen[g] \cup {c.key}]
  /\ UNCHANGED <<loaded, baseline, assembled, pc, delta, late, mutations, failures>>

(* The puts are durable; deleteRows looks its keys up and deletes what it  *)
(* finds.                                                                  *)
StartDeletes(h) ==
  /\ pc[h] = "putting" /\ pending[h] = {}
  /\ pc' = [pc EXCEPT ![h] = "deleting"]
  /\ pending' = [pending EXCEPT ![h] = {c \in DeletesOf(delta[h]) : store[c.key] # Gone}]
  /\ UNCHANGED <<store, loaded, baseline, assembled, delta, late, unseen,
                 mutations, failures>>

Landed(h) ==
  [k \in Key |-> IF \E c \in delta[h] : c.key = k
                 THEN (CHOOSE c \in delta[h] : c.key = k).row
                 ELSE baseline[h][k]]

(* Mutant: a removed row leaves the assembly, whatever it shadowed.        *)
PatchedOnly(h) ==
  [k \in Key |-> IF \E c \in delta[h] : c.key = k THEN Landed(h)[k]
                 ELSE assembled[h][k]]

(* patchAssembledPayload changes the rows the write carried; a removal     *)
(* that uncovers a read-only row has the payload assembled again.          *)
Patched(h) ==
  IF \E c \in DeletesOf(delta[h]) : Base[h][c.key] # Gone
  THEN Assembly(h, Landed(h))
  ELSE [k \in Key |-> IF \E c \in delta[h] : c.key = k THEN Landed(h)[k]
                      ELSE assembled[h][k]]

(* Both batches and the sidecar values landed.                             *)
Finish(h) ==
  /\ pc[h] = "deleting" /\ pending[h] = {}
  /\ baseline' = [baseline EXCEPT ![h] = Landed(h)]
  /\ assembled' = [assembled EXCEPT ![h] = Patched(h)]
  /\ pc' = [pc EXCEPT ![h] = "idle"]
  /\ delta' = [delta EXCEPT ![h] = {}]
  /\ UNCHANGED <<store, loaded, pending, late, unseen, mutations, failures>>

(* A call of the write fails, or its answer is lost, and the write is      *)
(* given up.  The calls still out may land later, or never.                *)
Fail(h) ==
  /\ pc[h] # "idle"
  /\ failures < MaxFailures
  /\ failures' = failures + 1
  /\ late' = late \cup pending[h]
  /\ pending' = [pending EXCEPT ![h] = {}]
  /\ pc' = [pc EXCEPT ![h] = "idle"]
  /\ delta' = [delta EXCEPT ![h] = {}]
  /\ Dropped(h)
  /\ UNCHANGED <<store, unseen, mutations>>

(* withOneRetryOnUnavailable sends the whole batch once more.              *)
Retry(h) ==
  /\ h \in Retrying /\ pc[h] # "idle"
  /\ failures < MaxFailures
  /\ failures' = failures + 1
  /\ late' = late \cup pending[h]
  /\ pending' = [pending EXCEPT
       ![h] = IF pc[h] = "putting" THEN PutsOf(delta[h])
              ELSE {c \in DeletesOf(delta[h]) : store[c.key] # Gone}]
  /\ UNCHANGED <<store, loaded, baseline, assembled, pc, delta, unseen, mutations>>

(* A call that was given up lands after all.                               *)
LandLate ==
  /\ \E c \in late :
       /\ Apply(c)
       /\ late' = late \ {c}
       /\ unseen' = [h \in Handle |-> unseen[h] \cup {c.key}]
  /\ UNCHANGED <<loaded, baseline, assembled, pc, delta, pending, mutations, failures>>

(* Bookkeeping rows go through the backend, past every handle: the         *)
(* research queue, the terms already researched.                           *)
Bookkeep ==
  /\ \E k \in Bookkeeping, row \in Storable : store' = [store EXCEPT ![k] = row]
  /\ UNCHANGED <<loaded, baseline, assembled, pc, delta, pending, late, unseen,
                 mutations, failures>>

Next ==
  \/ \E h \in Handle : \/ Load(h) \/ Mutate(h) \/ Land(h) \/ StartDeletes(h)
                       \/ Finish(h) \/ Fail(h) \/ Retry(h)
  \/ LandLate
  \/ Bookkeep

Spec == Init /\ [][Next]_vars

-----------------------------------------------------------------------------
(* Correctness.                                                            *)

TypeOK ==
  /\ store \in [Key -> Storable]
  /\ loaded \subseteq Handle
  /\ baseline \in [Handle -> [Key -> Row]]
  /\ assembled \in [Handle -> [Key -> Row]]
  /\ pc \in [Handle -> {"idle", "putting", "deleting"}]
  /\ delta \in [Handle -> SUBSET Call]
  /\ pending \in [Handle -> SUBSET Call]
  /\ late \subseteq Call
  /\ unseen \in [Handle -> SUBSET Key]
  /\ mutations \in Nat /\ failures \in Nat

(* A handle reads what a fresh handle over the same seed would assemble,   *)
(* row for row, unless the row was written behind its back: whatever was   *)
(* refused, patched, uncovered or given up on the way.                     *)
ReadsWhatAFreshHandleWould ==
  \A h \in loaded :
    pc[h] = "idle" =>
      \A k \in Key \ unseen[h] : assembled[h][k] = Assembly(h, store)[k]

(* Two handles on one session both land and neither undoes the other: a    *)
(* row moves only when a mutation changed that very row, and to what that  *)
(* mutation left; a handle with a stale read writes no no-op over a row    *)
(* another handle changed, and deletes no row it was not asked to.         *)
OnlyMeantRowsMove ==
  [][\A k \in Key \ Bookkeeping :
       store'[k] # store[k] =>
         \E c \in late \cup UNION {pending[h] : h \in Handle} :
           c.key = k /\ c.row = store'[k] /\ c.meant]_store

(* A handle writes none but the session's own rows: it never touches those *)
(* kept beside the payload, and a row every handle reads from the seed     *)
(* never reaches the store, however often a mutation changes it.           *)
OnlySessionRowsAreWritten ==
  /\ \A h \in Handle : \A c \in delta[h] \cup pending[h] \cup late :
       c.key \notin Bookkeeping
  /\ \A k \in Seeded : store[k] = Gone

=============================================================================
