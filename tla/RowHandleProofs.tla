--------------------------- MODULE RowHandleProofs ---------------------------
(* Theorems about RowHandle, for any number of handles and rows, any seeds *)
(* under them, and any number of mutations, failures and repeated calls.   *)
EXTENDS RowHandle, TLAPS

-----------------------------------------------------------------------------
(* Types.                                                                  *)

(* What a handle assembles from rows is made of rows.                      *)
LEMMA AssemblyType ==
  ASSUME NEW h \in Handle, NEW rows \in [Key -> Row]
  PROVE  Assembly(h, rows) \in [Key -> Row]
BY RowHandleAssumption DEF Assembly, Row

(* The payload a mutation of h leaves when it puts new in place of the     *)
(* rows of T.                                                              *)
Mutated(h, T, new) == [k \in Key |-> IF k \in T THEN new[k] ELSE assembled[h][k]]

(* The mutation is refused, or its write begins.                           *)
Wrote(h, T, new) ==
  IF Refused(h, Mutated(h, T, new))
  THEN Dropped(h) /\ UNCHANGED <<pc, delta, pending>>
  ELSE /\ delta' = [delta EXCEPT ![h] = Calls(h, Mutated(h, T, new))]
       /\ pending' = [pending EXCEPT ![h] = PutsOf(Calls(h, Mutated(h, T, new)))]
       /\ pc' = [pc EXCEPT ![h] = "putting"]
       /\ UNCHANGED <<loaded, baseline, assembled>>

(* What a mutation that is not refused writes can be stored.               *)
LEMMA CallsType ==
  ASSUME TypeOK, NEW h \in Handle, NEW payload \in [Key -> Row], ~Refused(h, payload)
  PROVE  Calls(h, payload) \subseteq Call
<1>1. ASSUME NEW k \in Key PROVE Projected(h, payload)[k] \in Storable
  BY RowHandleAssumption DEF Projected, Storable, Row, Refused
<1>2. Written(h, Projected(h, payload)) \cup Removed(h, Projected(h, payload)) \subseteq Key
  BY DEF Written, Removed
<1>3. ASSUME NEW c \in Calls(h, payload) PROVE c \in Call
  <2>1. PICK k \in Written(h, Projected(h, payload)) \cup Removed(h, Projected(h, payload)) :
          c = [key |-> k, row |-> Projected(h, payload)[k],
               meant |-> payload[k] = Projected(h, payload)[k]
                         /\ Projected(h, payload)[k] # assembled[h][k]]
    BY DEF Calls
  <2>2. k \in Key /\ Projected(h, payload)[k] \in Storable BY <1>1, <1>2
  <2>3. (payload[k] = Projected(h, payload)[k] /\ Projected(h, payload)[k] # assembled[h][k])
          \in BOOLEAN
    OBVIOUS
  <2>4. QED BY <2>1, <2>2, <2>3 DEF Call
<1>4. QED BY <1>3

(* What a write leaves of its handle's rows, and of its payload.           *)
LEMMA LandedType ==
  ASSUME TypeOK, NEW h \in Handle
  PROVE  Landed(h) \in [Key -> Row] /\ Patched(h) \in [Key -> Row]
<1>1. ASSUME NEW k \in Key PROVE Landed(h)[k] \in Row
  <2>1. CASE \E c \in delta[h] : c.key = k
    <3>1. (CHOOSE c \in delta[h] : c.key = k) \in Call
      BY <2>1 DEF TypeOK
    <3>2. QED BY <2>1, <3>1 DEF Landed, Call, Storable
  <2>2. CASE ~(\E c \in delta[h] : c.key = k)
    BY <2>2 DEF Landed, TypeOK
  <2>3. QED BY <2>1, <2>2
<1>2. Landed(h) \in [Key -> Row] BY <1>1 DEF Landed
<1>3. QED BY <1>1, <1>2, AssemblyType DEF Patched, TypeOK

(* Every step keeps the types.                                             *)
LEMMA TypeStep == TypeOK /\ [Next]_vars => TypeOK'
<1> SUFFICES ASSUME TypeOK, [Next]_vars PROVE TypeOK'
  OBVIOUS
<1> USE DEF TypeOK
<1>n. NoRows \in [Key -> Row] BY DEF NoRows, Row
<1>1. ASSUME NEW h \in Handle, Load(h) PROVE TypeOK'
  <2>1. SessionRows(store) \in [Key -> Row] BY DEF SessionRows, Storable, Row
  <2>2. Assembly(h, SessionRows(store)) \in [Key -> Row] BY <2>1, AssemblyType
  <2>3. QED BY <1>1, <2>1, <2>2 DEF Load
<1>2. ASSUME NEW h \in Handle, Mutate(h) PROVE TypeOK'
  <2>0. PICK T \in SUBSET (Key \ Bookkeeping) : \E new \in [T -> Row] : Wrote(h, T, new)
    BY <1>2 DEF Mutate, Mutated, Wrote
  <2>1. PICK new \in [T -> Row] : Wrote(h, T, new)
    BY <2>0
  <2>2. Mutated(h, T, new) \in [Key -> Row] BY <2>1 DEF Mutated
  <2>3. store' = store /\ late' = late /\ unseen' = unseen
        /\ mutations' = mutations + 1 /\ failures' = failures
    BY <1>2 DEF Mutate
  <2>4. CASE Refused(h, Mutated(h, T, new))
    <3>1. Dropped(h) /\ UNCHANGED <<pc, delta, pending>> BY <2>1, <2>4 DEF Wrote
    <3>2. /\ loaded' \subseteq Handle /\ baseline' \in [Handle -> [Key -> Row]]
          /\ assembled' \in [Handle -> [Key -> Row]]
      BY <1>n, <3>1 DEF Dropped
    <3>3. QED BY <2>3, <3>1, <3>2
  <2>5. CASE ~Refused(h, Mutated(h, T, new))
    <3>1. Calls(h, Mutated(h, T, new)) \subseteq Call BY <2>2, <2>5, CallsType
    <3>2. PutsOf(Calls(h, Mutated(h, T, new))) \subseteq Call BY <3>1 DEF PutsOf
    <3>3. /\ delta' = [delta EXCEPT ![h] = Calls(h, Mutated(h, T, new))]
          /\ pending' = [pending EXCEPT ![h] = PutsOf(Calls(h, Mutated(h, T, new)))]
          /\ pc' = [pc EXCEPT ![h] = "putting"]
          /\ UNCHANGED <<loaded, baseline, assembled>>
      BY <2>1, <2>5 DEF Wrote
    <3>4. delta' \in [Handle -> SUBSET Call] /\ pending' \in [Handle -> SUBSET Call]
      BY <3>1, <3>2, <3>3
    <3>5. QED BY <2>3, <3>3, <3>4
  <2>6. QED BY <2>4, <2>5
<1>3. ASSUME NEW h \in Handle, Land(h) PROVE TypeOK'
  <2>1. PICK c \in pending[h] :
          /\ Apply(c) /\ pending' = [pending EXCEPT ![h] = @ \ {c}]
          /\ unseen' = [g \in Handle |-> IF g = h THEN unseen[g] \ {c.key}
                                         ELSE unseen[g] \cup {c.key}]
    BY <1>3 DEF Land
  <2>2. c.key \in Key /\ c.row \in Storable BY DEF Call
  <2>3. QED BY <1>3, <2>1, <2>2 DEF Land, Apply
<1>4. ASSUME NEW h \in Handle, StartDeletes(h) PROVE TypeOK'
  BY <1>4 DEF StartDeletes, DeletesOf
<1>5. ASSUME NEW h \in Handle, Finish(h) PROVE TypeOK'
  BY <1>5, LandedType DEF Finish
<1>6. ASSUME NEW h \in Handle, Fail(h) PROVE TypeOK'
  BY <1>6, <1>n DEF Fail, Dropped
<1>7. ASSUME NEW h \in Handle, Retry(h) PROVE TypeOK'
  BY <1>7 DEF Retry, PutsOf, DeletesOf
<1>8. CASE LandLate
  <2>1. PICK c \in late :
          /\ Apply(c) /\ late' = late \ {c}
          /\ unseen' = [h \in Handle |-> unseen[h] \cup {c.key}]
    BY <1>8 DEF LandLate
  <2>2. c.key \in Key /\ c.row \in Storable BY DEF Call
  <2>3. QED BY <1>8, <2>1, <2>2 DEF LandLate, Apply
<1>9. CASE Bookkeep
  BY <1>9, RowHandleAssumption DEF Bookkeep
<1>10. CASE UNCHANGED vars
  BY <1>10 DEF vars
<1>11. QED
  BY <1>1, <1>2, <1>3, <1>4, <1>5, <1>6, <1>7, <1>8, <1>9, <1>10 DEF Next

(* Every reachable state is well typed: in particular no row over the cap  *)
(* is ever stored or on its way.                                           *)
THEOREM HandleTypeCorrect == Spec => []TypeOK
<1>1. Init => TypeOK
  BY DEF Init, TypeOK, NoRows, Row
<1>2. QED BY <1>1, TypeStep, PTL DEF Spec

-----------------------------------------------------------------------------
(* What a handle writes.                                                   *)

NotOwn == Seeded \cup Bookkeeping

(* The strengthening, in parts.  A handle's assembly is the one its        *)
(* baseline makes: nothing it was ever patched with says otherwise.        *)
AssembledFromBaseline ==
  \A h \in loaded : assembled[h] = Assembly(h, baseline[h])

(* No handle takes the store to hold a row that is not the session's, and  *)
(* no call is about one.                                                   *)
OwnRowsOnly ==
  /\ \A k \in Seeded : store[k] = Gone
  /\ \A h \in Handle, k \in NotOwn : baseline[h][k] = Gone
  /\ \A h \in Handle : \A c \in delta[h] \cup pending[h] : c.key \notin NotOwn
  /\ \A c \in late : c.key \notin NotOwn

(* Every call is one its mutation meant.                                   *)
AllMeant ==
  /\ \A h \in Handle : \A c \in delta[h] \cup pending[h] : c.meant
  /\ \A c \in late : c.meant

(* What a mutation writes is the session's own, and, where no row is       *)
(* dropped for its size, what it meant.                                    *)
LEMMA CallsAreMeant ==
  ASSUME TypeOK, AssembledFromBaseline, OwnRowsOnly, NEW h \in loaded,
         NEW T \in SUBSET (Key \ Bookkeeping), NEW new \in [T -> Row],
         NEW c \in Calls(h, Mutated(h, T, new))
  PROVE  c.key \notin NotOwn /\ (Dropping = {} => c.meant)
<1> DEFINE payload == Mutated(h, T, new)
           rows == Projected(h, payload)
<1>1. PICK k \in Written(h, rows) \cup Removed(h, rows) :
        c = [key |-> k, row |-> rows[k],
             meant |-> payload[k] = rows[k] /\ rows[k] # assembled[h][k]]
  BY DEF Calls
<1>2. k \in Key /\ h \in Handle /\ Gone \notin Content /\ Bookkeeping \subseteq Key
  BY <1>1, RowHandleAssumption DEF Written, Removed, TypeOK
<1>3. assembled[h][k] = IF k \in Bookkeeping THEN Gone
                        ELSE IF baseline[h][k] # Gone THEN baseline[h][k] ELSE Base[h][k]
  BY <1>2 DEF AssembledFromBaseline, Assembly
<1>4. k \in SeedOnlyKeys(h) <=> Base[h][k] # Gone /\ baseline[h][k] = Gone
  BY <1>2 DEF SeedOnlyKeys
<1>5. rows[k] = IF \/ k \in SeedOnlyKeys(h)
                   \/ h \in Dropping /\ payload[k] \in Oversized
                THEN Gone ELSE payload[k]
  BY <1>2 DEF Projected
<1>6. rows[k] # baseline[h][k]
  BY <1>1 DEF Written, Removed
<1>7. ~(k \in SeedOnlyKeys(h))
  BY <1>4, <1>5, <1>6
<1>8. k \notin NotOwn
  <2>1. CASE k \in Bookkeeping
    <3>1. payload[k] = Gone BY <1>2, <1>3, <2>1 DEF Mutated
    <3>2. baseline[h][k] = Gone BY <1>2, <2>1 DEF OwnRowsOnly, NotOwn
    <3>3. QED BY <1>5, <1>6, <3>1, <3>2
  <2>2. CASE k \in Seeded
    BY <1>2, <1>4, <1>7, <2>2 DEF OwnRowsOnly, NotOwn, Seeded
  <2>3. QED BY <2>1, <2>2 DEF NotOwn
<1>9. Dropping = {} => payload[k] = rows[k] /\ rows[k] # assembled[h][k]
  BY <1>3, <1>4, <1>5, <1>6, <1>7, <1>8 DEF NotOwn
<1>10. c.key = k /\ c.meant = (payload[k] = rows[k] /\ rows[k] # assembled[h][k])
  BY <1>1
<1>11. QED BY <1>8, <1>9, <1>10

(* The write a mutation begins is the session's own, and meant.            *)
LEMMA MutateWrites ==
  ASSUME TypeOK, AssembledFromBaseline, OwnRowsOnly, NEW h \in Handle, Mutate(h)
  PROVE  /\ \A g \in Handle \ {h} :
              delta'[g] = delta[g] /\ pending'[g] = pending[g] /\ pc'[g] = pc[g]
         /\ UNCHANGED <<store, late, unseen>>
         /\ \/ Dropped(h) /\ UNCHANGED <<pc, delta, pending>>
            \/ /\ UNCHANGED <<loaded, baseline, assembled>>
               /\ pc'[h] = "putting" /\ pending'[h] = PutsOf(delta'[h])
               /\ \A c \in delta'[h] : c.key \notin NotOwn /\ (Dropping = {} => c.meant)
               /\ \A c, d \in delta'[h] : c.key = d.key => c = d
<1>1. PICK T \in SUBSET (Key \ Bookkeeping) : \E new \in [T -> Row] : Wrote(h, T, new)
  BY DEF Mutate, Mutated, Wrote
<1>2. PICK new \in [T -> Row] : Wrote(h, T, new)
  BY <1>1
<1>3. h \in loaded BY DEF Mutate
<1>4. UNCHANGED <<store, late, unseen>> BY DEF Mutate
<1>5. CASE Refused(h, Mutated(h, T, new))
  BY <1>2, <1>4, <1>5 DEF Wrote
<1>6. CASE ~Refused(h, Mutated(h, T, new))
  <2>1. /\ delta' = [delta EXCEPT ![h] = Calls(h, Mutated(h, T, new))]
        /\ pending' = [pending EXCEPT ![h] = PutsOf(Calls(h, Mutated(h, T, new)))]
        /\ pc' = [pc EXCEPT ![h] = "putting"]
        /\ UNCHANGED <<loaded, baseline, assembled>>
    BY <1>2, <1>6 DEF Wrote
  <2>2. \A c \in Calls(h, Mutated(h, T, new)) : c.key \notin NotOwn /\ (Dropping = {} => c.meant)
    BY <1>3, CallsAreMeant
  <2>3. \A c, d \in Calls(h, Mutated(h, T, new)) : c.key = d.key => c = d
    BY DEF Calls
  <2>4. delta'[h] = Calls(h, Mutated(h, T, new)) /\ pc'[h] = "putting"
        /\ pending'[h] = PutsOf(delta'[h])
    BY <2>1 DEF TypeOK
  <2>5. \A g \in Handle \ {h} :
          delta'[g] = delta[g] /\ pending'[g] = pending[g] /\ pc'[g] = pc[g]
    BY <2>1 DEF TypeOK
  <2>6. QED BY <1>4, <2>1, <2>2, <2>3, <2>4, <2>5
<1>7. QED BY <1>5, <1>6

(* The rows of h as its write leaves them.                                 *)
LEMMA LandedRow ==
  ASSUME TypeOK, NEW h \in Handle, NEW k \in Key
  PROVE  \/ Landed(h)[k] = baseline[h][k] /\ ~(\E c \in delta[h] : c.key = k)
         \/ \E c \in delta[h] : c.key = k /\ Landed(h)[k] = c.row
BY DEF Landed

(* Patching the payload is as good as assembling it again.                 *)
LEMMA PatchedIsAssembly ==
  ASSUME TypeOK, OwnRowsOnly, NEW h \in Handle, assembled[h] = Assembly(h, baseline[h])
  PROVE  Patched(h) = Assembly(h, Landed(h))
<1>1. CASE \E c \in DeletesOf(delta[h]) : Base[h][c.key] # Gone
  BY <1>1 DEF Patched
<1>2. CASE ~(\E c \in DeletesOf(delta[h]) : Base[h][c.key] # Gone)
  <2>1. Patched(h) = [k \in Key |-> IF \E c \in delta[h] : c.key = k THEN Landed(h)[k]
                                   ELSE assembled[h][k]]
    BY <1>2 DEF Patched
  <2>2. ASSUME NEW k \in Key
        PROVE  (IF \E c \in delta[h] : c.key = k THEN Landed(h)[k] ELSE assembled[h][k])
                 = Assembly(h, Landed(h))[k]
    <3>1. CASE \E c \in delta[h] : c.key = k
      <4>1. PICK c \in delta[h] : c.key = k /\ Landed(h)[k] = c.row
        BY <3>1, LandedRow
      <4>2. k \notin Bookkeeping BY <4>1 DEF OwnRowsOnly, NotOwn
      <4>3. c.row = Gone => Base[h][k] = Gone
        BY <1>2, <4>1 DEF DeletesOf, PutsOf
      <4>4. QED BY <3>1, <4>1, <4>2, <4>3 DEF Assembly
    <3>2. CASE ~(\E c \in delta[h] : c.key = k)
      <4>1. Landed(h)[k] = baseline[h][k] BY <3>2, LandedRow
      <4>2. QED BY <3>2, <4>1 DEF Assembly
    <3>3. QED BY <3>1, <3>2
  <2>3. QED BY <2>1, <2>2 DEF Assembly
<1>3. QED BY <1>1, <1>2

(* Every step keeps each handle's assembly its baseline's.                 *)
LEMMA AssembledStep ==
  TypeOK /\ AssembledFromBaseline /\ OwnRowsOnly /\ [Next]_vars => AssembledFromBaseline'
<1> SUFFICES ASSUME TypeOK, AssembledFromBaseline, OwnRowsOnly, [Next]_vars
             PROVE  AssembledFromBaseline'
  OBVIOUS
<1>k. ASSUME UNCHANGED <<loaded, baseline, assembled>> PROVE AssembledFromBaseline'
  BY <1>k DEF AssembledFromBaseline, Assembly
<1>d. ASSUME NEW h \in Handle, Dropped(h) PROVE AssembledFromBaseline'
  BY <1>d DEF Dropped, AssembledFromBaseline, Assembly, TypeOK
<1>1. ASSUME NEW h \in Handle, Load(h) PROVE AssembledFromBaseline'
  <2>1. \A g \in loaded : g # h /\ baseline'[g] = baseline[g] /\ assembled'[g] = assembled[g]
    BY <1>1 DEF Load, TypeOK
  <2>2. assembled'[h] = Assembly(h, baseline'[h]) /\ loaded' = loaded \cup {h}
    BY <1>1 DEF Load, TypeOK
  <2>3. QED BY <2>1, <2>2 DEF AssembledFromBaseline, Assembly
<1>2. ASSUME NEW h \in Handle, Mutate(h) PROVE AssembledFromBaseline'
  BY <1>2, <1>k, <1>d, MutateWrites
<1>3. ASSUME NEW h \in Handle, Finish(h) PROVE AssembledFromBaseline'
  <2>1. \A g \in Handle \ {h} : baseline'[g] = baseline[g] /\ assembled'[g] = assembled[g]
    BY <1>3 DEF Finish, TypeOK
  <2>2. loaded' = loaded /\ baseline'[h] = Landed(h) /\ assembled'[h] = Patched(h)
    BY <1>3 DEF Finish, TypeOK
  <2>3. h \in loaded => Patched(h) = Assembly(h, Landed(h))
    BY PatchedIsAssembly DEF AssembledFromBaseline
  <2>4. \A g \in loaded \ {h} : assembled'[g] = Assembly(g, baseline'[g])
    BY <2>1 DEF AssembledFromBaseline, TypeOK
  <2>5. \A g \in loaded' : assembled'[g] = Assembly(g, baseline'[g])
    BY <2>2, <2>3, <2>4
  <2>6. QED BY <2>5 DEF AssembledFromBaseline, Assembly
<1>4. ASSUME NEW h \in Handle, Fail(h) PROVE AssembledFromBaseline'
  BY <1>4, <1>d DEF Fail
<1>5. ASSUME \/ \E h \in Handle : Land(h) \/ StartDeletes(h) \/ Retry(h)
             \/ LandLate \/ Bookkeep \/ UNCHANGED vars
      PROVE  AssembledFromBaseline'
  BY <1>5, <1>k DEF Land, StartDeletes, Retry, LandLate, Bookkeep, vars
<1>6. QED BY <1>1, <1>2, <1>3, <1>4, <1>5 DEF Next

(* A key that is not the session's own is either seeded or bookkeeping.    *)
LEMMA SeededIsNotBookkeeping == Seeded \cap Bookkeeping = {}
BY RowHandleAssumption DEF Seeded

(* Every step writes the session's own rows and takes none but those for   *)
(* stored.                                                                 *)
LEMMA OwnStep ==
  TypeOK /\ AssembledFromBaseline /\ OwnRowsOnly /\ [Next]_vars => OwnRowsOnly'
<1> SUFFICES ASSUME TypeOK, AssembledFromBaseline, OwnRowsOnly, [Next]_vars
             PROVE  /\ \A k \in Seeded : store'[k] = Gone
                    /\ \A h \in Handle, k \in NotOwn : baseline'[h][k] = Gone
                    /\ \A h \in Handle : \A c \in delta'[h] \cup pending'[h] : c.key \notin NotOwn
                    /\ \A c \in late' : c.key \notin NotOwn
  BY DEF OwnRowsOnly
<1> DEFINE StoreKept == \A k \in Seeded : store'[k] = Gone
           BaselineKept == \A h \in Handle, k \in NotOwn : baseline'[h][k] = Gone
           CallsKept == \A h \in Handle : \A c \in delta'[h] \cup pending'[h] : c.key \notin NotOwn
           LateKept == \A c \in late' : c.key \notin NotOwn
<1>n. NotOwn \subseteq Key BY RowHandleAssumption DEF NotOwn, Seeded
<1>s. store' = store => StoreKept BY DEF OwnRowsOnly
<1>b. baseline' = baseline => BaselineKept BY DEF OwnRowsOnly
<1>l. late' = late => LateKept BY DEF OwnRowsOnly
<1>a. ASSUME NEW c, Apply(c), c.key \in Key \ NotOwn PROVE StoreKept
  BY <1>a DEF Apply, OwnRowsOnly, TypeOK, NotOwn
<1>d. ASSUME NEW h \in Handle, Dropped(h) PROVE BaselineKept
  BY <1>d, <1>n DEF Dropped, OwnRowsOnly, NoRows, TypeOK
<1>c. ASSUME NEW h \in Handle,
             \A g \in Handle \ {h} : delta'[g] = delta[g] /\ pending'[g] = pending[g],
             \A c \in delta'[h] \cup pending'[h] : c.key \notin NotOwn
      PROVE  CallsKept
  BY <1>c DEF OwnRowsOnly
<1>1. ASSUME NEW h \in Handle, Load(h) PROVE BaselineKept
  <2>1. \A k \in NotOwn : SessionRows(store)[k] = Gone
    BY <1>n DEF SessionRows, OwnRowsOnly, NotOwn
  <2>2. \A g \in Handle : baseline'[g] = IF g = h THEN SessionRows(store) ELSE baseline[g]
    BY <1>1 DEF Load, TypeOK
  <2>3. QED BY <2>1, <2>2 DEF OwnRowsOnly
<1>2. ASSUME NEW h \in Handle, Mutate(h)
      PROVE  StoreKept /\ BaselineKept /\ CallsKept /\ LateKept
  <2>1. StoreKept /\ LateKept BY <1>2, <1>s, <1>l, MutateWrites
  <2>2. BaselineKept BY <1>2, <1>b, <1>d, MutateWrites
  <2>3. CASE Dropped(h) /\ UNCHANGED <<pc, delta, pending>>
    BY <2>1, <2>2, <2>3 DEF OwnRowsOnly
  <2>4. CASE ~(Dropped(h) /\ UNCHANGED <<pc, delta, pending>>)
    <3>1. pending'[h] = PutsOf(delta'[h]) /\ \A c \in delta'[h] : c.key \notin NotOwn
      BY <1>2, <2>4, MutateWrites
    <3>2. \A c \in delta'[h] \cup pending'[h] : c.key \notin NotOwn
      BY <3>1 DEF PutsOf
    <3>3. CallsKept BY <1>2, <1>c, <3>2, MutateWrites
    <3>4. QED BY <2>1, <2>2, <3>3
  <2>5. QED BY <2>3, <2>4
<1>3. ASSUME NEW h \in Handle, Land(h) PROVE StoreKept /\ BaselineKept /\ CallsKept /\ LateKept
  <2>1. PICK c \in pending[h] : Apply(c) /\ pending' = [pending EXCEPT ![h] = @ \ {c}]
    BY <1>3 DEF Land
  <2>2. c.key \in Key \ NotOwn BY DEF OwnRowsOnly, TypeOK, Call
  <2>3. StoreKept BY <1>a, <2>1, <2>2
  <2>4. CallsKept BY <1>3, <2>1 DEF Land, OwnRowsOnly, TypeOK
  <2>5. QED BY <1>3, <1>b, <1>l, <2>3, <2>4 DEF Land
<1>4. ASSUME NEW h \in Handle, StartDeletes(h) PROVE CallsKept
  BY <1>4 DEF StartDeletes, DeletesOf, OwnRowsOnly, TypeOK
<1>5. ASSUME NEW h \in Handle, Finish(h) PROVE BaselineKept /\ CallsKept
  <2>1. ASSUME NEW k \in NotOwn PROVE Landed(h)[k] = Gone
    BY <1>n, LandedRow DEF OwnRowsOnly
  <2>2. \A g \in Handle : baseline'[g] = IF g = h THEN Landed(h) ELSE baseline[g]
    BY <1>5 DEF Finish, TypeOK
  <2>3. BaselineKept BY <2>1, <2>2 DEF OwnRowsOnly
  <2>4. CallsKept BY <1>5 DEF Finish, OwnRowsOnly, TypeOK
  <2>5. QED BY <2>3, <2>4
<1>6. ASSUME NEW h \in Handle, Fail(h) PROVE BaselineKept /\ CallsKept /\ LateKept
  <2>1. BaselineKept BY <1>6, <1>d DEF Fail
  <2>2. CallsKept BY <1>6 DEF Fail, OwnRowsOnly, TypeOK
  <2>3. LateKept BY <1>6 DEF Fail, OwnRowsOnly
  <2>4. QED BY <2>1, <2>2, <2>3
<1>7. ASSUME NEW h \in Handle, Retry(h) PROVE CallsKept /\ LateKept
  <2>1. pending'[h] \subseteq delta[h] /\ delta' = delta
        /\ \A g \in Handle \ {h} : pending'[g] = pending[g]
    BY <1>7 DEF Retry, PutsOf, DeletesOf, TypeOK
  <2>2. CallsKept BY <2>1 DEF OwnRowsOnly
  <2>3. LateKept BY <1>7 DEF Retry, OwnRowsOnly
  <2>4. QED BY <2>2, <2>3
<1>8. CASE LandLate
  <2>1. PICK c \in late : Apply(c) /\ late' = late \ {c} BY <1>8 DEF LandLate
  <2>2. c.key \in Key \ NotOwn BY DEF OwnRowsOnly, TypeOK, Call
  <2>3. StoreKept BY <1>a, <2>1, <2>2
  <2>4. LateKept BY <2>1 DEF OwnRowsOnly
  <2>5. QED BY <1>8, <1>b, <2>3, <2>4 DEF LandLate, OwnRowsOnly
<1>9. CASE Bookkeep
  <2>1. StoreKept
    BY <1>9, SeededIsNotBookkeeping, RowHandleAssumption DEF Bookkeep, OwnRowsOnly, TypeOK
  <2>2. QED BY <1>9, <2>1 DEF Bookkeep, OwnRowsOnly
<1>10. CASE UNCHANGED vars
  BY <1>10 DEF vars, OwnRowsOnly
<1>11. QED
  BY <1>1, <1>2, <1>3, <1>4, <1>5, <1>6, <1>7, <1>8, <1>9, <1>10, <1>s, <1>b, <1>l
     DEF Next, Load, StartDeletes, Finish, Fail, Retry, OwnRowsOnly

(* Every step keeps every call one that was meant, where nothing is        *)
(* dropped for its size.                                                   *)
LEMMA MeantStep ==
  ASSUME Dropping = {}
  PROVE  TypeOK /\ AssembledFromBaseline /\ OwnRowsOnly /\ AllMeant /\ [Next]_vars => AllMeant'
<1> SUFFICES ASSUME TypeOK, AssembledFromBaseline, OwnRowsOnly, AllMeant, [Next]_vars
             PROVE  AllMeant'
  OBVIOUS
<1>1. ASSUME NEW h \in Handle, Mutate(h) PROVE AllMeant'
  <2>1. late' = late /\ \A g \in Handle \ {h} : delta'[g] = delta[g] /\ pending'[g] = pending[g]
    BY <1>1, MutateWrites
  <2>2. \/ delta'[h] = delta[h] /\ pending'[h] = pending[h]
        \/ pending'[h] \subseteq delta'[h] /\ \A c \in delta'[h] : c.meant
    BY <1>1, MutateWrites DEF PutsOf
  <2>3. QED BY <2>1, <2>2 DEF AllMeant
<1>2. ASSUME NEW h \in Handle,
             Land(h) \/ StartDeletes(h) \/ Finish(h) \/ Fail(h) \/ Retry(h)
      PROVE  AllMeant'
  <2>1. delta'[h] \subseteq delta[h] /\ pending'[h] \subseteq delta[h] \cup pending[h]
    BY <1>2 DEF Land, StartDeletes, Finish, Fail, Retry, PutsOf, DeletesOf, TypeOK
  <2>2. \A g \in Handle \ {h} : delta'[g] = delta[g] /\ pending'[g] = pending[g]
    BY <1>2 DEF Land, StartDeletes, Finish, Fail, Retry, TypeOK
  <2>3. late' \subseteq late \cup pending[h]
    BY <1>2 DEF Land, StartDeletes, Finish, Fail, Retry
  <2>4. QED BY <2>1, <2>2, <2>3 DEF AllMeant
<1>3. ASSUME \/ LandLate \/ Bookkeep \/ UNCHANGED vars \/ \E h \in Handle : Load(h)
      PROVE  AllMeant'
  BY <1>3 DEF LandLate, Bookkeep, Load, vars, AllMeant
<1>4. QED BY <1>1, <1>2, <1>3 DEF Next

(* What holds of every handle.                                             *)
LEMMA HandlesSound == Spec => [](AssembledFromBaseline /\ OwnRowsOnly)
<1>1. Init => AssembledFromBaseline /\ OwnRowsOnly
  BY RowHandleAssumption DEF Init, AssembledFromBaseline, OwnRowsOnly, NoRows, NotOwn, Seeded
<1>2. QED BY <1>1, AssembledStep, OwnStep, HandleTypeCorrect, PTL DEF Spec

(* No handle, whatever it and the others went through, writes a            *)
(* bookkeeping row, and no seeded row is ever stored.                      *)
THEOREM OnlyOwnRowsWritten == Spec => []OnlySessionRowsAreWritten
<1>1. OwnRowsOnly => OnlySessionRowsAreWritten
  BY DEF OwnRowsOnly, OnlySessionRowsAreWritten, NotOwn
<1>2. QED BY <1>1, HandlesSound, PTL

(* Where no row is dropped for its size, a row moves only when a mutation  *)
(* changed that very row, however many handles write one session through   *)
(* each other and whatever is repeated or comes late.                      *)
THEOREM RowsMoveAsMeant == ASSUME Dropping = {} PROVE Spec => OnlyMeantRowsMove
<1>1. Init => AllMeant
  BY DEF Init, AllMeant
<1>2. Spec => []AllMeant
  BY <1>1, MeantStep, HandlesSound, HandleTypeCorrect, PTL DEF Spec
<1>3. ASSUME TypeOK, AllMeant, [Next]_vars, NEW k \in Key \ Bookkeeping, store'[k] # store[k]
      PROVE  \E c \in late \cup UNION {pending[h] : h \in Handle} :
               c.key = k /\ c.row = store'[k] /\ c.meant
  <2>1. ASSUME NEW c \in late \cup UNION {pending[h] : h \in Handle}, Apply(c)
        PROVE  c.key = k /\ c.row = store'[k] /\ c.meant
    BY <1>3, <2>1 DEF Apply, AllMeant, TypeOK
  <2>2. CASE Bookkeep
    BY <1>3, <2>2, RowHandleAssumption DEF Bookkeep, TypeOK
  <2>3. CASE \/ LandLate \/ \E h \in Handle : Land(h)
    BY <2>1, <2>3 DEF LandLate, Land
  <2>4. CASE ~(\/ Bookkeep \/ LandLate \/ \E h \in Handle : Land(h))
    <3>1. store' = store
      BY <1>3, <2>4 DEF Next, Load, Mutate, StartDeletes, Finish, Fail, Retry, vars
    <3>2. QED BY <1>3, <3>1
  <2>5. QED BY <2>2, <2>3, <2>4
<1>4. TypeOK /\ AllMeant /\ [Next]_vars =>
        [\A k \in Key \ Bookkeeping :
           store'[k] # store[k] =>
             \E c \in late \cup UNION {pending[h] : h \in Handle} :
               c.key = k /\ c.row = store'[k] /\ c.meant]_store
  BY <1>3
<1>5. QED BY <1>2, <1>4, HandleTypeCorrect, PTL DEF Spec, OnlyMeantRowsMove

-----------------------------------------------------------------------------
(* What a handle reads.                                                    *)

(* A write is a batch of puts and then a batch of deletes, one call a row, *)
(* of a handle that holds its payload.                                     *)
WriteInOrder ==
  \A h \in Handle :
    /\ pc[h] = "idle" => delta[h] = {}
    /\ pc[h] # "idle" => h \in loaded
    /\ pending[h] \subseteq delta[h]
    /\ pc[h] = "putting" => pending[h] \subseteq PutsOf(delta[h])
    /\ pc[h] = "deleting" => pending[h] \subseteq DeletesOf(delta[h])
    /\ \A c, d \in delta[h] : c.key = d.key => c = d

(* Every step keeps a write in order.                                      *)
LEMMA WriteInOrderStep ==
  TypeOK /\ AssembledFromBaseline /\ OwnRowsOnly /\ WriteInOrder /\ [Next]_vars => WriteInOrder'
<1> SUFFICES ASSUME TypeOK, AssembledFromBaseline, OwnRowsOnly, WriteInOrder, [Next]_vars
             PROVE  WriteInOrder'
  OBVIOUS
<1> DEFINE InOrder(g) ==
             /\ pc'[g] = "idle" => delta'[g] = {}
             /\ pc'[g] # "idle" => g \in loaded'
             /\ pending'[g] \subseteq delta'[g]
             /\ pc'[g] = "putting" => pending'[g] \subseteq PutsOf(delta'[g])
             /\ pc'[g] = "deleting" => pending'[g] \subseteq DeletesOf(delta'[g])
             /\ \A c, d \in delta'[g] : c.key = d.key => c = d
<1>s. SUFFICES \A g \in Handle : InOrder(g)
  BY DEF WriteInOrder, PutsOf, DeletesOf
<1>k. ASSUME NEW g \in Handle, pc'[g] = pc[g], delta'[g] = delta[g], pending'[g] = pending[g],
             g \in loaded => g \in loaded'
      PROVE  InOrder(g)
  BY <1>k DEF WriteInOrder
<1>1. ASSUME NEW h \in Handle, Load(h) PROVE \A g \in Handle : InOrder(g)
  BY <1>1, <1>k DEF Load
<1>2. ASSUME NEW h \in Handle, Mutate(h) PROVE \A g \in Handle : InOrder(g)
  <2>1. pc[h] = "idle" /\ delta[h] = {} /\ h \in loaded BY <1>2 DEF Mutate, WriteInOrder
  <2>2. ASSUME NEW g \in Handle \ {h} PROVE InOrder(g)
    <3>1. g \in loaded => g \in loaded' BY <1>2, MutateWrites DEF Dropped
    <3>2. QED BY <1>2, <1>k, <3>1, MutateWrites
  <2>3. InOrder(h)
    <3>1. CASE UNCHANGED <<pc, delta, pending>>
      BY <2>1, <3>1 DEF WriteInOrder
    <3>2. CASE ~(UNCHANGED <<pc, delta, pending>>)
      BY <1>2, <2>1, <3>2, MutateWrites DEF PutsOf
    <3>3. QED BY <3>1, <3>2
  <2>4. QED BY <2>2, <2>3
<1>3. ASSUME NEW h \in Handle, Land(h) PROVE \A g \in Handle : InOrder(g)
  <2>1. pending'[h] \subseteq pending[h] /\ UNCHANGED <<pc, delta, loaded>>
    BY <1>3 DEF Land, TypeOK
  <2>2. InOrder(h) BY <2>1 DEF WriteInOrder
  <2>3. \A g \in Handle \ {h} : pending'[g] = pending[g] BY <1>3 DEF Land, TypeOK
  <2>4. QED BY <1>k, <2>1, <2>2, <2>3
<1>4. ASSUME NEW h \in Handle, StartDeletes(h) PROVE \A g \in Handle : InOrder(g)
  <2>1. pc'[h] = "deleting" /\ pending'[h] \subseteq DeletesOf(delta[h]) /\ h \in loaded
        /\ UNCHANGED <<delta, loaded>>
    BY <1>4 DEF StartDeletes, TypeOK, WriteInOrder
  <2>2. InOrder(h) BY <2>1 DEF WriteInOrder, DeletesOf
  <2>3. \A g \in Handle \ {h} : pending'[g] = pending[g] /\ pc'[g] = pc[g]
    BY <1>4 DEF StartDeletes, TypeOK
  <2>4. QED BY <1>k, <2>1, <2>2, <2>3
<1>5. ASSUME NEW h \in Handle, Finish(h) \/ Fail(h) PROVE \A g \in Handle : InOrder(g)
  <2>1. pc'[h] = "idle" /\ delta'[h] = {} /\ pending'[h] = {}
    BY <1>5 DEF Finish, Fail, TypeOK
  <2>2. InOrder(h) BY <2>1
  <2>3. \A g \in Handle \ {h} :
          /\ pending'[g] = pending[g] /\ pc'[g] = pc[g] /\ delta'[g] = delta[g]
          /\ g \in loaded => g \in loaded'
    BY <1>5 DEF Finish, Fail, Dropped, TypeOK
  <2>4. QED BY <1>k, <2>2, <2>3
<1>6. ASSUME NEW h \in Handle, Retry(h) PROVE \A g \in Handle : InOrder(g)
  <2>1. /\ pc[h] = "putting" => pending'[h] = PutsOf(delta[h])
        /\ pc[h] # "putting" => pending'[h] \subseteq DeletesOf(delta[h])
        /\ UNCHANGED <<pc, delta, loaded>> /\ pc[h] # "idle"
    BY <1>6 DEF Retry, TypeOK
  <2>2. InOrder(h) BY <2>1 DEF WriteInOrder, PutsOf, DeletesOf
  <2>3. \A g \in Handle \ {h} : pending'[g] = pending[g]
    BY <1>6 DEF Retry, TypeOK
  <2>4. QED BY <1>k, <2>1, <2>2, <2>3
<1>7. CASE LandLate \/ Bookkeep \/ UNCHANGED vars
  BY <1>7, <1>k DEF LandLate, Bookkeep, vars
<1>8. QED BY <1>1, <1>2, <1>3, <1>4, <1>5, <1>6, <1>7 DEF Next

(* The store holds what the handle takes it to hold and what its write has *)
(* made of it so far, but for the rows others wrote.  A call that is out   *)
(* may have landed before, in the batch that is being repeated.            *)
Follows(h, k) ==
  /\ (\A c \in delta[h] : c.key # k) => store[k] = baseline[h][k]
  /\ \A c \in delta[h] :
       c.key = k =>
         /\ store[k] \in {baseline[h][k], c.row}
         /\ c \notin pending[h] /\ (c.row = Gone => pc[h] = "deleting") => store[k] = c.row

StoreFollows ==
  \A h \in loaded, k \in Key \ Bookkeeping : k \notin unseen[h] => Follows(h, k)

(* Every step keeps it.                                                    *)
LEMMA FollowsStep ==
  TypeOK /\ AssembledFromBaseline /\ OwnRowsOnly /\ WriteInOrder /\ StoreFollows /\ [Next]_vars
    => StoreFollows'
<1> SUFFICES ASSUME TypeOK, AssembledFromBaseline, OwnRowsOnly, WriteInOrder, StoreFollows,
                    [Next]_vars, NEW g \in loaded', NEW k \in Key \ Bookkeeping,
                    k \notin unseen'[g]
             PROVE  Follows(g, k)'
  BY DEF StoreFollows
<1>g. g \in Handle
  BY DEF Next, Load, Mutate, Land, StartDeletes, Finish, Fail, Retry, LandLate, Bookkeep, Dropped,
         vars, TypeOK, Wrote
<1>k. ASSUME g \in loaded, k \notin unseen[g], store'[k] = store[k], pc'[g] = pc[g],
             baseline'[g] = baseline[g], delta'[g] = delta[g], pending'[g] = pending[g]
      PROVE  Follows(g, k)'
  BY <1>k DEF StoreFollows, Follows
<1>1. ASSUME NEW h \in Handle, Load(h) PROVE Follows(g, k)'
  <2>1. CASE g = h
    <3>1. delta'[g] = {} BY <1>1, <2>1 DEF Load, WriteInOrder
    <3>2. baseline'[g][k] = store'[k] BY <1>1, <2>1 DEF Load, SessionRows, TypeOK
    <3>3. QED BY <3>1, <3>2 DEF Follows
  <2>2. CASE g # h
    BY <1>1, <1>g, <1>k, <2>2 DEF Load, TypeOK
  <2>3. QED BY <2>1, <2>2
<1>2. ASSUME NEW h \in Handle, Mutate(h) PROVE Follows(g, k)'
  <2>1. UNCHANGED <<store, unseen>> BY <1>2, MutateWrites
  <2>2. CASE Dropped(h) /\ UNCHANGED <<pc, delta, pending>>
    <3>1. g # h /\ g \in loaded /\ baseline'[g] = baseline[g]
      BY <1>g, <2>2 DEF Dropped, TypeOK
    <3>2. QED BY <1>k, <2>1, <2>2, <3>1
  <2>3. CASE ~(Dropped(h) /\ UNCHANGED <<pc, delta, pending>>)
    <3>1. UNCHANGED <<loaded, baseline, assembled>>
          /\ pc'[h] = "putting" /\ pending'[h] = PutsOf(delta'[h])
      BY <1>2, <2>3, MutateWrites
    <3>2. CASE g = h
      <4>1. delta[g] = {} /\ g \in loaded BY <1>2, <3>2 DEF Mutate, WriteInOrder
      <4>2. store[k] = baseline[g][k] BY <2>1, <4>1 DEF StoreFollows, Follows
      <4>3. QED BY <2>1, <3>1, <3>2, <4>2 DEF Follows, PutsOf
    <3>3. CASE g # h
      BY <1>2, <1>g, <1>k, <2>1, <3>1, <3>3, MutateWrites
    <3>4. QED BY <3>2, <3>3
  <2>4. QED BY <2>2, <2>3
<1>3. ASSUME NEW h \in Handle, Land(h) PROVE Follows(g, k)'
  <2>1. PICK c \in pending[h] :
          /\ Apply(c) /\ pending' = [pending EXCEPT ![h] = @ \ {c}]
          /\ unseen' = [f \in Handle |-> IF f = h THEN unseen[f] \ {c.key}
                                         ELSE unseen[f] \cup {c.key}]
    BY <1>3 DEF Land
  <2>2. UNCHANGED <<loaded, baseline, pc, delta>> BY <1>3 DEF Land
  <2>3. c \in delta[h] /\ c.key \in Key BY DEF WriteInOrder, TypeOK, Call
  <2>4. \A f \in Handle : pending'[f] = IF f = h THEN pending[f] \ {c} ELSE pending[f]
    BY <2>1 DEF TypeOK
  <2>5. CASE k = c.key
    <3>1. g = h BY <1>g, <2>1, <2>5
    <3>2. store'[k] = c.row BY <2>1, <2>3, <2>5 DEF Apply, TypeOK
    <3>3. \A d \in delta[g] : d.key = k => d = c BY <2>3, <2>5, <3>1 DEF WriteInOrder
    <3>4. QED BY <2>2, <2>3, <2>5, <3>1, <3>2, <3>3 DEF Follows
  <2>6. CASE k # c.key
    <3>1. k \notin unseen[g] /\ store'[k] = store[k]
      BY <1>g, <2>1, <2>6 DEF Apply, TypeOK
    <3>2. \A d \in delta[g] : d.key = k => (d \in pending'[g] <=> d \in pending[g])
      BY <1>g, <2>4, <2>6
    <3>3. Follows(g, k) BY <2>2, <3>1 DEF StoreFollows
    <3>4. QED BY <2>2, <3>1, <3>2, <3>3 DEF Follows
  <2>7. QED BY <2>5, <2>6
<1>4. ASSUME NEW h \in Handle, StartDeletes(h) PROVE Follows(g, k)'
  <2>1. UNCHANGED <<store, loaded, baseline, delta, unseen>> BY <1>4 DEF StartDeletes
  <2>2. CASE g = h
    <3>1. /\ pc[g] = "putting" /\ pending[g] = {} /\ pc'[g] = "deleting"
          /\ pending'[g] = {c \in DeletesOf(delta[g]) : store[c.key] # Gone}
      BY <1>4, <2>2 DEF StartDeletes, TypeOK
    <3>2. Follows(g, k) BY <2>1 DEF StoreFollows
    <3>3. QED BY <2>1, <3>1, <3>2 DEF Follows, DeletesOf, PutsOf
  <2>3. CASE g # h
    BY <1>4, <1>g, <1>k, <2>1, <2>3 DEF StartDeletes, TypeOK
  <2>4. QED BY <2>2, <2>3
<1>5. ASSUME NEW h \in Handle, Finish(h) PROVE Follows(g, k)'
  <2>1. UNCHANGED <<store, loaded, unseen>> BY <1>5 DEF Finish
  <2>2. CASE g = h
    <3>1. /\ pc[g] = "deleting" /\ pending[g] = {} /\ delta'[g] = {}
          /\ baseline'[g] = Landed(g)
      BY <1>5, <2>2 DEF Finish, TypeOK
    <3>2. Follows(g, k) BY <2>1 DEF StoreFollows
    <3>3. Landed(g)[k] = store[k] BY <1>g, <3>1, <3>2, LandedRow DEF Follows
    <3>4. QED BY <2>1, <3>1, <3>3 DEF Follows
  <2>3. CASE g # h
    BY <1>5, <1>g, <1>k, <2>1, <2>3 DEF Finish, TypeOK
  <2>4. QED BY <2>2, <2>3
<1>6. ASSUME NEW h \in Handle, Fail(h) PROVE Follows(g, k)'
  BY <1>6, <1>g, <1>k DEF Fail, Dropped, TypeOK
<1>7. ASSUME NEW h \in Handle, Retry(h) PROVE Follows(g, k)'
  <2>1. UNCHANGED <<store, loaded, baseline, pc, delta, unseen>> BY <1>7 DEF Retry
  <2>2. CASE g = h
    <3>1. Follows(g, k) BY <2>1 DEF StoreFollows
    <3>2. CASE pc[g] = "putting"
      <4>1. pending'[g] = PutsOf(delta[g]) BY <1>7, <2>2, <3>2 DEF Retry, TypeOK
      <4>2. QED BY <2>1, <3>1, <3>2, <4>1 DEF Follows, PutsOf
    <3>3. CASE pc[g] # "putting"
      <4>1. pending'[g] = {c \in DeletesOf(delta[g]) : store[c.key] # Gone}
        BY <1>7, <2>2, <3>3 DEF Retry, TypeOK
      <4>2. pc[g] = "deleting" /\ pending[g] \subseteq DeletesOf(delta[g])
        BY <1>7, <1>g, <2>2, <3>3 DEF Retry, TypeOK, WriteInOrder
      <4>3. QED BY <2>1, <3>1, <4>1, <4>2 DEF Follows, DeletesOf, PutsOf
    <3>4. QED BY <3>2, <3>3
  <2>3. CASE g # h
    BY <1>7, <1>g, <1>k, <2>1, <2>3 DEF Retry, TypeOK
  <2>4. QED BY <2>2, <2>3
<1>8. CASE LandLate
  <2>1. PICK c \in late : Apply(c) /\ unseen' = [h \in Handle |-> unseen[h] \cup {c.key}]
    BY <1>8 DEF LandLate
  <2>2. k # c.key /\ k \notin unseen[g] BY <1>g, <2>1
  <2>3. store'[k] = store[k] BY <2>1, <2>2 DEF Apply, TypeOK
  <2>4. QED BY <1>8, <1>k, <2>2, <2>3 DEF LandLate
<1>9. CASE Bookkeep
  BY <1>9, <1>k DEF Bookkeep, TypeOK
<1>10. CASE UNCHANGED vars
  BY <1>10, <1>k DEF vars
<1>11. QED
  BY <1>1, <1>2, <1>3, <1>4, <1>5, <1>6, <1>7, <1>8, <1>9, <1>10 DEF Next

(* An idle handle reads what a fresh one would, row for row, but for the   *)
(* rows written behind its back: patching the payload after a write, a     *)
(* refusal, a failure half way or a repeated batch never leaves it with    *)
(* anything else.                                                          *)
THEOREM ReadsAreFresh == Spec => []ReadsWhatAFreshHandleWould
<1>1. Init => WriteInOrder /\ StoreFollows
  BY DEF Init, WriteInOrder, StoreFollows, PutsOf, DeletesOf
<1>2. Spec => [](WriteInOrder /\ StoreFollows)
  BY <1>1, WriteInOrderStep, FollowsStep, HandlesSound, HandleTypeCorrect, PTL DEF Spec
<1>3. ASSUME TypeOK, AssembledFromBaseline, WriteInOrder, StoreFollows,
             NEW h \in loaded, pc[h] = "idle", NEW k \in Key \ unseen[h]
      PROVE  assembled[h][k] = Assembly(h, store)[k]
  <2>1. h \in Handle /\ delta[h] = {} BY <1>3 DEF TypeOK, WriteInOrder
  <2>2. k \notin Bookkeeping => store[k] = baseline[h][k]
    BY <1>3, <2>1 DEF StoreFollows, Follows
  <2>3. assembled[h] = Assembly(h, baseline[h]) BY <1>3 DEF AssembledFromBaseline
  <2>4. Assembly(h, baseline[h])[k] = Assembly(h, store)[k] BY <2>2 DEF Assembly
  <2>5. QED BY <2>3, <2>4
<1>4. TypeOK /\ AssembledFromBaseline /\ WriteInOrder /\ StoreFollows
        => ReadsWhatAFreshHandleWould
  BY <1>3 DEF ReadsWhatAFreshHandleWould
<1>5. QED BY <1>2, <1>4, HandlesSound, HandleTypeCorrect, PTL

=============================================================================
