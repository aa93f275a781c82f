--------------------------- MODULE FactGroupProofs ---------------------------
(***************************************************************************)
(* Theorems about FactGroup for every set of stores and sources, every     *)
(* threshold of either compaction, every lag and every bound: the types,   *)
(* the two enforcement points, what a reader sees vouching for the fact,   *)
(* and each source's chain.  As long as no head summary is written and the *)
(* stores' clocks agree, FactGroup implements FactRegister, and what a     *)
(* store is told again changes nothing it shows.                           *)
(***************************************************************************)
EXTENDS FactGroupRefinement, FiniteSetTheorems, WellFoundedInduction, TLAPS

-----------------------------------------------------------------------------
(* Instants.                                                               *)

(* A set of naturals that is not empty has a least element.                *)
LEMMA LeastExists ==
  ASSUME NEW T, T \subseteq Nat, T # {}
  PROVE  \E t \in T : \A u \in T : t <= u
<1> DEFINE Below == {pair \in Nat \X Nat : pair[1] < pair[2]}
<1>1. Below = OpToRel(<, Nat)
  BY Zenon DEF OpToRel
<1>2. IsWellFoundedOn(Below, Nat)
  BY <1>1, NatLessThanWellFounded, Zenon
<1> HIDE DEF Below
<1>3. PICK x \in T : \A y \in T : ~(<<y, x>> \in Below)
  BY <1>2, WFMin, Zenon
<1>4. ASSUME NEW y \in T PROVE x <= y
  <2>1. <<y, x>> \in Nat \X Nat
    OBVIOUS
  <2>2. ~(<<y, x>>[1] < <<y, x>>[2])
    BY <1>3, <2>1, Zenon DEF Below
  <2> QED
    BY <2>2
<1> QED
  BY <1>4

(* A bounded one has a greatest.                                           *)
LEMMA GreatestExists ==
  ASSUME NEW T, T \subseteq Nat, T # {}, NEW b \in Nat, \A u \in T : u <= b
  PROVE  \E t \in T : \A u \in T : u <= t
<1> DEFINE D == {b - u : u \in T}
<1>1. D \subseteq Nat
  <2>1. ASSUME NEW u \in T PROVE b - u \in Nat
    OBVIOUS
  <2> QED
    BY <2>1
<1>2. D # {}
  OBVIOUS
<1>3. PICK d \in D : \A e \in D : d <= e
  <2> HIDE DEF D
  <2> QED
    BY <1>1, <1>2, LeastExists
<1>4. PICK t \in T : d = b - t
  OBVIOUS
<1>5. ASSUME NEW u \in T PROVE u <= t
  <2>1. b - u \in D
    OBVIOUS
  <2>2. b - t <= b - u
    BY <1>3, <1>4, <2>1
  <2>3. u \in Nat /\ t \in Nat
    OBVIOUS
  <2> HIDE DEF D
  <2> QED
    BY <2>2, <2>3
<1> QED
  BY <1>5

LEMMA InstantIsNat == Instant \subseteq Nat /\ 0 \in Instant /\ MaxTime \in Nat
BY BoundAssumption DEF Instant

(* Latest is the greatest of the instants, 0 when there is none.           *)
LEMMA LatestIsGreatest ==
  ASSUME NEW tags \in SUBSET Instant
  PROVE  /\ Latest(tags) \in Instant
         /\ Latest(tags) \in tags \cup {0}
         /\ \A u \in tags : u <= Latest(tags)
<1>1. tags \cup {0} \subseteq Nat
  BY InstantIsNat
<1>2. \A u \in tags \cup {0} : u <= MaxTime
  BY InstantIsNat DEF Instant
<1>3. \E t \in tags \cup {0} : \A u \in tags \cup {0} : u <= t
  <2> DEFINE T == tags \cup {0}
  <2>1. T \subseteq Nat /\ T # {} /\ \A u \in T : u <= MaxTime
    BY <1>1, <1>2
  <2> HIDE DEF T
  <2>2. \E t \in T : \A u \in T : u <= t
    BY <2>1, GreatestExists, InstantIsNat
  <2> QED
    BY <2>2 DEF T
<1>4. \E t \in tags \cup {0} : \A u \in tags : u <= t
  BY <1>3
<1>5. Latest(tags) \in tags \cup {0} /\ \A u \in tags : u <= Latest(tags)
  BY <1>4 DEF Latest
<1> QED
  BY <1>5, InstantIsNat

(* The latest instant of a union is the later of the two.                  *)
LEMMA LatestOfUnion ==
  ASSUME NEW A \in SUBSET Instant, NEW B \in SUBSET Instant
  PROVE  Latest(A \cup B) = LaterOf(Latest(A), Latest(B))
<1>1. A \cup B \in SUBSET Instant
  OBVIOUS
<1>2. /\ Latest(A \cup B) \in Nat /\ Latest(A) \in Nat /\ Latest(B) \in Nat
      /\ Latest(A \cup B) \in (A \cup B) \cup {0}
      /\ \A u \in A \cup B : u <= Latest(A \cup B)
  BY <1>1, LatestIsGreatest, InstantIsNat
<1>3. Latest(A) \in A \cup {0} /\ \A u \in A : u <= Latest(A)
  BY LatestIsGreatest
<1>4. Latest(B) \in B \cup {0} /\ \A u \in B : u <= Latest(B)
  BY LatestIsGreatest
<1> HIDE DEF Latest
<1> QED
  BY <1>2, <1>3, <1>4 DEF LaterOf

LEMMA LaterOfType ==
  ASSUME NEW a \in Instant, NEW b \in Instant
  PROVE  /\ LaterOf(a, b) \in Instant
         /\ a <= LaterOf(a, b) /\ b <= LaterOf(a, b)
         /\ LaterOf(a, b) = a \/ LaterOf(a, b) = b
         /\ (LaterOf(a, b) = 0) <=> (a = 0 /\ b = 0)
BY InstantIsNat DEF LaterOf

LEMMA EarlierOfType ==
  ASSUME NEW a \in Instant, NEW b \in Instant
  PROVE  EarlierOf(a, b) \in Instant
BY DEF EarlierOf

LEMMA AssertedAtType ==
  ASSUME NEW tags \in SUBSET Instant, NEW fallback \in Instant
  PROVE  AssertedAt(tags, fallback) \in Instant
BY LatestIsGreatest DEF AssertedAt

LEMMA NowType ==
  ASSUME TypeOK, NEW r \in Store
  PROVE  Now(r) \in Instant \ {0}
<1>1. clock \in Nat /\ clock <= MaxTime /\ clock >= 1 /\ Lag[r] \in Nat /\ MaxTime \in Nat
  BY BoundAssumption DEF TypeOK, Instant
<1> QED
  BY <1>1 DEF Now, LaterOf, Instant

LEMMA EarliestOfType ==
  ASSUME NEW entries, entries # {}, \A e \in entries : e.at \in Instant,
         NEW seed \in Instant
  PROVE  EarliestOf(entries, seed) \in Instant
<1> DEFINE times == {e.at : e \in entries}
           first == CHOOSE t \in times : \A u \in times : t <= u
<1>1. times \subseteq Nat /\ times # {} /\ times \subseteq Instant
  BY InstantIsNat
<1>2. first \in times
  <2> HIDE DEF times
  <2>1. \E t \in times : \A u \in times : t <= u
    BY <1>1, LeastExists
  <2> QED
    BY <2>1
<1>3. first \in Instant
  BY <1>1, <1>2
<1>4. EarliestOf(entries, seed) = EarlierOf(seed, first)
  BY DEF EarliestOf
<1> HIDE DEF first
<1> QED
  BY <1>3, <1>4, EarlierOfType

-----------------------------------------------------------------------------
(* Typing of the operations on a store's payload.                          *)

LEMMA RecordTimeType ==
  ASSUME NEW rec \in Rec
  PROVE  RecordTime(rec) \in Instant
BY AssertedAtType DEF RecordTime, Rec

LEMMA NoRecType == NoRec \in Rec
BY InstantIsNat DEF NoRec, Rec

LEMMA EmptyPayloadType == EmptyPayload \in Payload
<1>1. [ids |-> {}, at |-> 0] \in Tombstone
  BY InstantIsNat DEF Tombstone
<1> QED
  BY <1>1, InstantIsNat, NoRecType DEF EmptyPayload, Payload, Summary

LEMMA HeadsToAbsorbType ==
  ASSUME NEW p \in Payload, NEW t \in Type
  PROVE  \A e \in HeadsToAbsorb(p, t) : e.id \in Source \ {NoSource} /\ e.at \in Instant
<1>1. \A s \in Source : RecordTime(p.head[s]) \in Instant
  BY RecordTimeType DEF Payload
<1>2. \A e \in HeadsOfType(p, t) : e.id \in Source \ {NoSource} /\ e.at \in Instant
  BY <1>1 DEF HeadsOfType
<1> QED
  BY <1>2 DEF HeadsToAbsorb

LEMMA HeadsAbsorbedType ==
  ASSUME NEW p \in Payload
  PROVE  HeadsAbsorbed(p) \in Payload
<1> DEFINE gone == {e.id : e \in UNION {HeadsToAbsorb(p, t) : t \in Type}}
           h == [s \in Source |-> IF s \in gone THEN NoRec ELSE p.head[s]]
           l == {x \in p.leaf : x.src \notin gone}
           c == [s \in Source |-> IF s \in gone THEN [ids |-> {}, earliest |-> 0]
                                                ELSE p.chain[s]]
           u == [t \in Type |->
                  IF HeadsToAbsorb(p, t) = {} THEN p.rollup[t]
                  ELSE [ids |-> p.rollup[t].ids \cup {e.id : e \in HeadsToAbsorb(p, t)},
                        earliest |-> EarliestOf(HeadsToAbsorb(p, t),
                                                p.rollup[t].earliest)]]
<1>1. h \in [Source -> Rec]
  BY NoRecType DEF Payload
<1>2. l \in SUBSET Leaf
  BY DEF Payload
<1>3. c \in [Source -> Summary(Nat)]
  BY InstantIsNat DEF Payload, Summary
<1>4. u \in [Type -> Summary(Source)]
  <2> SUFFICES ASSUME NEW t \in Type PROVE u[t] \in Summary(Source)
    OBVIOUS
  <2>1. p.rollup[t] \in Summary(Source)
    BY DEF Payload
  <2>2. CASE HeadsToAbsorb(p, t) = {}
    BY <2>1, <2>2
  <2>3. CASE HeadsToAbsorb(p, t) # {}
    <3>1. EarliestOf(HeadsToAbsorb(p, t), p.rollup[t].earliest) \in Instant
      BY <2>1, <2>3, HeadsToAbsorbType, EarliestOfType DEF Summary
    <3>2. p.rollup[t].ids \cup {e.id : e \in HeadsToAbsorb(p, t)} \in SUBSET Source
      BY <2>1, HeadsToAbsorbType DEF Summary
    <3> QED
      BY <2>3, <3>1, <3>2 DEF Summary
  <2> QED
    BY <2>2, <2>3
<1>5. HeadsAbsorbed(p) = [p EXCEPT !.head = h, !.leaf = l, !.chain = c, !.rollup = u]
  BY DEF HeadsAbsorbed
<1> HIDE DEF gone, h, l, c, u
<1>6. [p EXCEPT !.head = h, !.leaf = l, !.chain = c, !.rollup = u] \in Payload
  BY <1>1, <1>2, <1>3, <1>4 DEF Payload
<1> QED
  BY <1>5, <1>6

LEMMA LeavesToAbsorbType ==
  ASSUME NEW p \in Payload, NEW s \in Source
  PROVE  \A e \in LeavesToAbsorb(p, s) : e.id \in Nat /\ e.at \in Instant
<1>1. \A l \in p.leaf : l.n \in Nat /\ RecordTime(l.rec) \in Instant
  BY RecordTimeType DEF Payload, Leaf
<1>2. \A e \in LeafEntries(p, s) : e.id \in Nat /\ e.at \in Instant
  BY <1>1 DEF LeafEntries, LeavesOf
<1> QED
  BY <1>2 DEF LeavesToAbsorb

LEMMA LeavesAbsorbedType ==
  ASSUME NEW p \in Payload
  PROVE  LeavesAbsorbed(p) \in Payload
<1> DEFINE kept == {l \in p.leaf :
                      l.n \notin {e.id : e \in LeavesToAbsorb(p, l.src)}}
           m == {IF IsRewired(p, l) THEN [l EXCEPT !.rec.behind = ChainSummary]
                                    ELSE l : l \in kept}
           c == [s \in Source |->
                  IF LeavesToAbsorb(p, s) = {} THEN p.chain[s]
                  ELSE [ids |-> p.chain[s].ids \cup {e.id : e \in LeavesToAbsorb(p, s)},
                        earliest |-> EarliestOf(LeavesToAbsorb(p, s),
                                                p.chain[s].earliest)]]
<1>1. m \in SUBSET Leaf
  <2>1. ASSUME NEW l \in p.leaf PROVE [l EXCEPT !.rec.behind = ChainSummary] \in Leaf
    BY DEF Payload, Leaf, Rec
  <2>2. p.leaf \subseteq Leaf
    BY DEF Payload
  <2> QED
    BY <2>1, <2>2
<1>2. c \in [Source -> Summary(Nat)]
  <2> SUFFICES ASSUME NEW s \in Source PROVE c[s] \in Summary(Nat)
    OBVIOUS
  <2>1. p.chain[s] \in Summary(Nat)
    BY DEF Payload
  <2>2. CASE LeavesToAbsorb(p, s) = {}
    BY <2>1, <2>2
  <2>3. CASE LeavesToAbsorb(p, s) # {}
    <3>1. EarliestOf(LeavesToAbsorb(p, s), p.chain[s].earliest) \in Instant
      BY <2>1, <2>3, LeavesToAbsorbType, EarliestOfType DEF Summary
    <3>2. p.chain[s].ids \cup {e.id : e \in LeavesToAbsorb(p, s)} \in SUBSET Nat
      BY <2>1, LeavesToAbsorbType DEF Summary
    <3> QED
      BY <2>3, <3>1, <3>2 DEF Summary
  <2> QED
    BY <2>2, <2>3
<1>3. LeavesAbsorbed(p) = [p EXCEPT !.leaf = m, !.chain = c]
  BY DEF LeavesAbsorbed
<1> HIDE DEF m, c
<1>4. [p EXCEPT !.leaf = m, !.chain = c] \in Payload
  BY <1>1, <1>2 DEF Payload
<1> QED
  BY <1>3, <1>4

LEMMA CompactedType ==
  ASSUME NEW p \in Payload
  PROVE  Compacted(p) \in Payload
BY HeadsAbsorbedType, LeavesAbsorbedType DEF Compacted

LEMMA PlannedType ==
  ASSUME NEW rec \in Rec, NEW tags \in SUBSET Instant, NEW obs \in BOOLEAN,
         NEW now \in Instant
  PROVE  Planned(rec, tags, obs, now) \in Rec
<1>1. AssertedAt(tags, now) \in Instant
  BY AssertedAtType
<1>2. NextChainVersion(rec) \in Nat \ {0}
  BY DEF NextChainVersion, Rec, ChainSummary
<1>3. [tags |-> tags, obs |-> obs, created |-> AssertedAt(tags, now), behind |-> 0] \in Rec
  BY <1>1 DEF Rec
<1>4. [tags |-> tags, obs |-> obs, created |-> AssertedAt(tags, now),
       behind |-> NextChainVersion(rec)] \in Rec
  BY <1>1, <1>2 DEF Rec
<1>5. [rec EXCEPT !.tags = @ \cup tags, !.obs = @ \/ obs] \in Rec
  BY DEF Rec
<1> QED
  BY <1>3, <1>4, <1>5 DEF Planned

LEMMA AssertedType ==
  ASSUME NEW p \in Payload, NEW s \in Source, NEW tags \in SUBSET Instant,
         NEW obs \in BOOLEAN, NEW now \in Instant
  PROVE  Asserted(p, s, tags, obs, now) \in Payload
<1> DEFINE h == [x \in Source |-> IF x = s THEN Planned(p.head[s], tags, obs, now)
                                 ELSE IF x = NoSource THEN NoRec ELSE p.head[x]]
<1>1. h \in [Source -> Rec]
  BY NoRecType, PlannedType DEF Payload
<1>2. Demoted(p, s, tags, obs) \in SUBSET Leaf
  <2>1. p.head[s] \in Rec /\ p.leaf \in SUBSET Leaf
    BY DEF Payload
  <2>2. NextChainVersion(p.head[s]) \in Nat \ {0}
    BY <2>1 DEF NextChainVersion, Rec, ChainSummary
  <2>3. [src |-> s, n |-> NextChainVersion(p.head[s]), rec |-> p.head[s]] \in Leaf
    BY <2>1, <2>2 DEF Leaf
  <2> QED
    BY <2>1, <2>3 DEF Demoted
<1>3. Asserted(p, s, tags, obs, now)
        = [p EXCEPT !.head = h, !.leaf = Demoted(p, s, tags, obs)]
  BY DEF Asserted
<1> HIDE DEF h
<1> QED
  BY <1>1, <1>2, <1>3 DEF Payload

LEMMA AppendedType ==
  ASSUME NEW p \in Payload, NEW s \in Source, NEW tags \in SUBSET Instant,
         NEW obs \in BOOLEAN, NEW now \in Instant
  PROVE  Appended(p, s, tags, obs, now) \in Payload
BY AssertedType, CompactedType DEF Appended

LEMMA MergeRetractionsType ==
  ASSUME NEW a \in Tombstone, NEW b \in Tombstone
  PROVE  /\ MergeRetractions(a, b) \in Tombstone
         /\ a.at <= MergeRetractions(a, b).at
         /\ b.at <= MergeRetractions(a, b).at
<1>1. /\ a.at \in Instant /\ b.at \in Instant
      /\ a.ids \in SUBSET (Nat \cup {ChainSummary})
      /\ b.ids \in SUBSET (Nat \cup {ChainSummary})
      /\ a.ids = {} <=> a.at = 0
      /\ b.ids = {} <=> b.at = 0
  BY DEF Tombstone
<1>2. /\ LaterOf(a.at, b.at) \in Instant
      /\ a.at <= LaterOf(a.at, b.at) /\ b.at <= LaterOf(a.at, b.at)
      /\ (LaterOf(a.at, b.at) = 0) <=> (a.at = 0 /\ b.at = 0)
  BY <1>1, LaterOfType
<1>3. a.ids \cup b.ids = {} <=> (a.ids = {} /\ b.ids = {})
  OBVIOUS
<1> QED
  BY <1>1, <1>2, <1>3 DEF MergeRetractions, Tombstone

LEMMA TombstoneType ==
  ASSUME NEW S \in SUBSET (Nat \cup {ChainSummary}), S # {}, NEW at \in Instant \ {0}
  PROVE  [ids |-> S, at |-> at] \in Tombstone
BY DEF Tombstone

LEMMA RecordsOfType ==
  ASSUME NEW p \in Payload, NEW s \in Source
  PROVE  RecordsOf(p, s) \in SUBSET (Nat \cup {ChainSummary})
<1>1. \A l \in LeavesOf(p, s) : l.n \in Nat
  BY DEF LeavesOf, Payload, Leaf
<1> QED
  BY <1>1 DEF RecordsOf, Head

LEMMA GroupRemovedType ==
  ASSUME NEW p \in Payload, NEW at \in Instant \ {0}
  PROVE  GroupRemoved(p, at) \in Payload
<1> DEFINE tomb == [s \in Source |->
                     IF RecordsOf(p, s) = {} THEN p.tomb[s]
                     ELSE MergeRetractions(p.tomb[s],
                                           [ids |-> RecordsOf(p, s), at |-> at])]
           rollupTomb == [t \in Type |->
                           IF p.rollup[t].ids = {} THEN p.rollupTomb[t]
                           ELSE LaterOf(p.rollupTomb[t], at)]
<1>1. tomb \in [Source -> Tombstone]
  <2> SUFFICES ASSUME NEW s \in Source PROVE tomb[s] \in Tombstone
    OBVIOUS
  <2>1. p.tomb[s] \in Tombstone
    BY DEF Payload
  <2>2. CASE RecordsOf(p, s) = {}
    BY <2>1, <2>2
  <2>3. CASE RecordsOf(p, s) # {}
    <3>1. [ids |-> RecordsOf(p, s), at |-> at] \in Tombstone
      BY <2>3, RecordsOfType, TombstoneType
    <3> QED
      BY <2>1, <2>3, <3>1, MergeRetractionsType
  <2> QED
    BY <2>2, <2>3
<1>2. rollupTomb \in [Type -> Instant]
  <2>1. \A t \in Type : p.rollupTomb[t] \in Instant
    BY DEF Payload
  <2> QED
    BY <2>1, LaterOfType
<1>3. GroupRemoved(p, at) = [EmptyPayload EXCEPT !.tomb = tomb, !.rollupTomb = rollupTomb]
  BY DEF GroupRemoved
<1> HIDE DEF tomb, rollupTomb
<1>4. [EmptyPayload EXCEPT !.tomb = tomb, !.rollupTomb = rollupTomb] \in Payload
  BY <1>1, <1>2, EmptyPayloadType DEF Payload
<1> QED
  BY <1>3, <1>4

LEMMA RecordRemovedType ==
  ASSUME NEW p \in Payload, NEW s \in Source, NEW at \in Instant \ {0}
  PROVE  RecordRemoved(p, s, at) \in Payload
<1>1. [ids |-> {Head}, at |-> at] \in Tombstone
  BY TombstoneType DEF Head
<1>2. MergeRetractions(p.tomb[s], [ids |-> {Head}, at |-> at]) \in Tombstone
  BY <1>1, MergeRetractionsType DEF Payload
<1> QED
  BY <1>2, NoRecType DEF RecordRemoved, Payload

LEMMA RetractionAppendedType ==
  ASSUME NEW p \in Payload, NEW s \in Source, NEW tombstone \in Tombstone
  PROVE  RetractionAppended(p, s, tombstone) \in Payload
<1> DEFINE merged == MergeRetractions(p.tomb[s], tombstone)
           h == IF Suppresses(merged, Head, RecordTime(p.head[s])) THEN NoRec ELSE p.head[s]
           l == {x \in p.leaf : ~(x.src = s /\ Suppresses(merged, x.n, RecordTime(x.rec)))}
           c == IF Suppresses(merged, ChainSummary, p.chain[s].earliest)
                THEN [ids |-> {}, earliest |-> 0] ELSE p.chain[s]
<1>1. merged \in Tombstone
  BY MergeRetractionsType DEF Payload
<1>2. h \in Rec
  BY NoRecType DEF Payload
<1>3. l \in SUBSET Leaf
  BY DEF Payload
<1>4. c \in Summary(Nat)
  BY InstantIsNat DEF Payload, Summary
<1>5. RetractionAppended(p, s, tombstone)
        = [p EXCEPT !.tomb[s] = merged, !.head[s] = h, !.leaf = l, !.chain[s] = c]
  BY DEF RetractionAppended
<1> HIDE DEF merged, h, l, c
<1>6. [p EXCEPT !.tomb[s] = merged, !.head[s] = h, !.leaf = l, !.chain[s] = c] \in Payload
  BY <1>1, <1>2, <1>3, <1>4 DEF Payload
<1> QED
  BY <1>5, <1>6

LEMMA RollupRetractionAppendedType ==
  ASSUME NEW p \in Payload, NEW t \in Type, NEW at \in Instant
  PROVE  RollupRetractionAppended(p, t, at) \in Payload
<1> DEFINE merged == LaterOf(p.rollupTomb[t], at)
           u == IF NotLaterThan(p.rollup[t].earliest, merged)
                THEN [ids |-> {}, earliest |-> 0] ELSE p.rollup[t]
<1>1. merged \in Instant
  BY LaterOfType DEF Payload
<1>2. u \in Summary(Source)
  BY InstantIsNat DEF Payload, Summary
<1>3. RollupRetractionAppended(p, t, at)
        = [p EXCEPT !.rollupTomb[t] = merged, !.rollup[t] = u]
  BY DEF RollupRetractionAppended
<1> HIDE DEF merged, u
<1>4. [p EXCEPT !.rollupTomb[t] = merged, !.rollup[t] = u] \in Payload
  BY <1>1, <1>2 DEF Payload
<1> QED
  BY <1>3, <1>4

-----------------------------------------------------------------------------
(* Type correctness.                                                       *)

LEMMA SendableType ==
  ASSUME TypeOK
  PROVE  Sendable \subseteq Message
<1>1. ASSUME NEW q \in Store, NEW s \in Source PROVE RowOf(q, s) \in Message
  BY DEF TypeOK, Payload, Rec, RowOf, Message
<1>2. PeerRows \subseteq Message
  BY <1>1 DEF PeerRows
<1> QED
  BY <1>2 DEF Sendable, TypeOK

LEMMA WriteType ==
  ASSUME TypeOK, NEW r \in Store, NEW s \in Source, NEW tags \in SUBSET Instant,
         NEW obs \in BOOLEAN, Write(r, s, tags, obs)
  PROVE  /\ payload' \in [Store -> Payload]
         /\ heard' \in [Store -> [Source -> SUBSET Instant]]
<1>1. Appended(payload[r], s, tags, obs, Now(r)) \in Payload
  BY NowType, AppendedType DEF TypeOK
<1> QED
  BY <1>1 DEF Write, TypeOK

LEMMA TypeInit == Init => TypeOK
BY EmptyPayloadType, InstantIsNat, BoundAssumption DEF Init, TypeOK, Instant

LEMMA TypeNext == TypeOK /\ [Next]_vars => TypeOK'
<1> SUFFICES ASSUME TypeOK, [Next]_vars PROVE TypeOK'
  OBVIOUS
<1>1. CASE Tick
  BY <1>1, BoundAssumption DEF Tick, TypeOK, Instant
<1>2. ASSUME NEW r \in Store, NEW s \in Source, NEW obs \in BOOLEAN, Say(r, s, obs)
      PROVE  TypeOK'
  <2> DEFINE at == IF s \in Stamped THEN Now(r) ELSE 0
  <2>1. at \in Instant
    BY NowType, InstantIsNat
  <2>2. [src |-> s, tags |-> {at}, obs |-> obs] \in Message
    BY <2>1 DEF Message
  <2>3. /\ said' = said \cup {[src |-> s, tags |-> {at}, obs |-> obs]}
        /\ Write(r, s, {at}, obs)
        /\ UNCHANGED <<clock, cut, removals>>
    BY <1>2 DEF Say
  <2> HIDE DEF at
  <2>4. /\ payload' \in [Store -> Payload]
        /\ heard' \in [Store -> [Source -> SUBSET Instant]]
    BY <2>1, <2>3, WriteType
  <2> QED
    BY <2>2, <2>3, <2>4 DEF TypeOK
<1>3. ASSUME NEW r \in Store, NEW m \in Sendable, Deliver(r, m)
      PROVE  TypeOK'
  <2>1. m.src \in Source /\ m.tags \in SUBSET Instant /\ m.obs \in BOOLEAN
    BY SendableType DEF Message
  <2>2. /\ payload' \in [Store -> Payload]
        /\ heard' \in [Store -> [Source -> SUBSET Instant]]
    BY <1>3, <2>1, WriteType DEF Deliver
  <2> QED
    BY <1>3, <2>2 DEF Deliver, TypeOK
<1>4. ASSUME NEW r \in Store, RemoveGroup(r)
      PROVE  TypeOK'
  <2>1. GroupRemoved(payload[r], Now(r)) \in Payload
    BY NowType, GroupRemovedType DEF TypeOK
  <2>2. payload' \in [Store -> Payload]
    BY <1>4, <2>1 DEF RemoveGroup, TypeOK
  <2>3. \A s \in Source : LaterOf(cut[r][s], Now(r)) \in Instant
    BY NowType, LaterOfType DEF TypeOK
  <2>4. cut' \in [Store -> [Source -> Instant]]
    BY <1>4, <2>3 DEF RemoveGroup, TypeOK
  <2> QED
    BY <1>4, <2>2, <2>4 DEF RemoveGroup, TypeOK
<1>5. ASSUME NEW r \in Store, NEW s \in Source, RemoveRecord(r, s)
      PROVE  TypeOK'
  <2>1. RecordRemoved(payload[r], s, Now(r)) \in Payload
    BY NowType, RecordRemovedType DEF TypeOK
  <2>2. LaterOf(cut[r][s], Now(r)) \in Instant
    BY NowType, LaterOfType DEF TypeOK
  <2> QED
    BY <1>5, <2>1, <2>2 DEF RemoveRecord, TypeOK
<1>6. ASSUME NEW r \in Store, NEW q \in Store, NEW s \in Source, DeliverRetraction(r, q, s)
      PROVE  TypeOK'
  <2>1. payload[q].tomb[s] \in Tombstone
    BY DEF TypeOK, Payload
  <2>2. RetractionAppended(payload[r], s, payload[q].tomb[s]) \in Payload
    BY <2>1, RetractionAppendedType DEF TypeOK
  <2>3. LaterOf(cut[r][s], payload[q].tomb[s].at) \in Instant
    BY <2>1, LaterOfType DEF TypeOK, Tombstone
  <2> QED
    BY <1>6, <2>2, <2>3 DEF DeliverRetraction, TypeOK
<1>7. ASSUME NEW r \in Store, NEW q \in Store, NEW t \in Type,
             DeliverRollupRetraction(r, q, t)
      PROVE  TypeOK'
  <2>1. payload[q].rollupTomb[t] \in Instant
    BY DEF TypeOK, Payload
  <2>2. RollupRetractionAppended(payload[r], t, payload[q].rollupTomb[t]) \in Payload
    BY <2>1, RollupRetractionAppendedType DEF TypeOK
  <2> QED
    BY <1>7, <2>2 DEF DeliverRollupRetraction, TypeOK
<1>8. CASE UNCHANGED vars
  BY <1>8 DEF vars, TypeOK
<1> QED
  BY <1>1, <1>2, <1>3, <1>4, <1>5, <1>6, <1>7, <1>8 DEF Next

(* Every reachable state is well typed: instants stay within the bound,    *)
(* each store's payload keeps its shape through compaction, and no         *)
(* tombstone is written that names no record.                              *)
THEOREM TypeCorrect == Spec => []TypeOK
<1>1. Init => TypeOK
  BY TypeInit
<1>2. TypeOK /\ [Next]_vars => TypeOK'
  BY TypeNext
<1> QED
  BY <1>1, <1>2, PTL DEF Spec

-----------------------------------------------------------------------------
(* The two enforcement points agree.                                       *)

(* Compaction drops heads and changes none, and leaves every tombstone.    *)
LEMMA CompactedHeads ==
  ASSUME NEW p \in Payload
  PROVE  /\ \A s \in Source : Compacted(p).head[s] = p.head[s]
                             \/ Compacted(p).head[s] = NoRec
         /\ Compacted(p).tomb = p.tomb
<1>1. /\ HeadsAbsorbed(p).tomb = p.tomb
      /\ \A s \in Source : HeadsAbsorbed(p).head[s] = p.head[s]
                          \/ HeadsAbsorbed(p).head[s] = NoRec
  BY DEF HeadsAbsorbed, Payload
<1>2. ASSUME NEW q \in Payload
      PROVE  LeavesAbsorbed(q).head = q.head /\ LeavesAbsorbed(q).tomb = q.tomb
  BY DEF LeavesAbsorbed, Payload
<1> QED
  BY <1>1, <1>2, HeadsAbsorbedType DEF Compacted

(* The head a write plans is at least as new as what it carries.           *)
LEMMA PlannedLatest ==
  ASSUME NEW rec \in Rec, NEW tags \in SUBSET Instant, NEW obs \in BOOLEAN,
         NEW now \in Instant
  PROVE  Latest(tags) <= Latest(Planned(rec, tags, obs, now).tags)
<1>1. CASE ~Held(rec) \/ SupersedesPrior(tags, obs, rec)
  <2>1. Planned(rec, tags, obs, now).tags = tags
    BY <1>1 DEF Planned
  <2>2. Latest(tags) \in Nat
    BY LatestIsGreatest, InstantIsNat
  <2>3. Latest(tags) <= Latest(tags)
    BY <2>2
  <2> QED
    BY <2>1, <2>3, Zenon
<1>2. CASE Held(rec) /\ ~SupersedesPrior(tags, obs, rec)
  <2>1. rec.tags \in SUBSET Instant
    BY DEF Rec
  <2>2. Planned(rec, tags, obs, now).tags = rec.tags \cup tags
    <3>1. Planned(rec, tags, obs, now) = [rec EXCEPT !.tags = @ \cup tags, !.obs = @ \/ obs]
      BY <1>2 DEF Planned
    <3> QED
      BY <3>1 DEF Rec
  <2>3. Latest(rec.tags \cup tags) = LaterOf(Latest(rec.tags), Latest(tags))
    BY <2>1, LatestOfUnion
  <2>4. Latest(rec.tags) \in Instant /\ Latest(tags) \in Instant
    BY <2>1, LatestIsGreatest
  <2>5. Latest(tags) <= LaterOf(Latest(rec.tags), Latest(tags))
    BY <2>4, LaterOfType
  <2> QED
    BY <2>2, <2>3, <2>5, Zenon
<1> QED
  BY <1>1, <1>2

LEMMA AppendedEnforced ==
  ASSUME NEW p \in Payload, NEW s \in Source, NEW tags \in SUBSET Instant,
         NEW obs \in BOOLEAN, NEW now \in Instant, PayloadEnforced(p)
  PROVE  PayloadEnforced(Appended(p, s, tags, obs, now))
<1>1. ASSUME NEW q \in Payload, PayloadEnforced(q) PROVE PayloadEnforced(Compacted(q))
  BY <1>1, CompactedHeads DEF PayloadEnforced, Held, NoRec
<1>2. CASE Refused(p, s, tags)
  BY <1>1, <1>2 DEF Appended
<1>3. CASE ~Refused(p, s, tags)
  <2> DEFINE a == Asserted(p, s, tags, obs, now)
             planned == Planned(p.head[s], tags, obs, now)
  <2>1. a \in Payload
    BY AssertedType
  <2>2. /\ a.tomb = p.tomb
        /\ a.head[s] = planned
        /\ \A x \in Source \ {s} : a.head[x] = p.head[x] \/ a.head[x] = NoRec
    BY DEF Asserted, Payload
  <2>3. ~Suppresses(p.tomb[s], Head, Latest(tags))
    BY <1>3 DEF Refused
  <2>4. ~Suppresses(p.tomb[s], Head, RecordTime(planned))
    <3>1. CASE Head \notin p.tomb[s].ids
      BY <3>1 DEF Suppresses
    <3>2. CASE Head \in p.tomb[s].ids
      <4>1. Latest(tags) # 0 /\ p.tomb[s].at # 0 /\ ~(Latest(tags) <= p.tomb[s].at)
        BY <2>3, <3>2 DEF Suppresses, NotLaterThan
      <4>2. planned \in Rec /\ p.tomb[s].at \in Nat
        BY PlannedType, InstantIsNat DEF Payload, Tombstone
      <4>3. /\ Latest(tags) <= Latest(planned.tags)
            /\ Latest(planned.tags) \in Nat /\ Latest(tags) \in Nat
        BY <4>2, PlannedLatest, LatestIsGreatest, InstantIsNat DEF Payload, Rec
      <4>4. RecordTime(planned) = Latest(planned.tags)
        BY <4>1, <4>3 DEF RecordTime, AssertedAt
      <4> QED
        BY <4>1, <4>2, <4>3, <4>4 DEF Suppresses, NotLaterThan
    <3> QED
      BY <3>1, <3>2
  <2>5. PayloadEnforced(a)
    <3> SUFFICES ASSUME NEW x \in Source, Held(a.head[x])
                 PROVE  ~Suppresses(a.tomb[x], Head, RecordTime(a.head[x]))
      BY DEF PayloadEnforced
    <3>1. CASE x = s
      BY <2>2, <2>4, <3>1
    <3>2. CASE x # s
      <4>1. a.head[x] = p.head[x]
        BY <2>2, <3>2 DEF Held, NoRec
      <4> QED
        BY <2>2, <4>1 DEF PayloadEnforced
    <3> QED
      BY <3>1, <3>2
  <2> QED
    BY <1>1, <1>3, <2>1, <2>5 DEF Appended
<1> QED
  BY <1>2, <1>3

LEMMA RemovedEnforced ==
  ASSUME NEW p \in Payload, PayloadEnforced(p), NEW at \in Instant \ {0}
  PROVE  /\ PayloadEnforced(GroupRemoved(p, at))
         /\ \A s \in Source : PayloadEnforced(RecordRemoved(p, s, at))
<1>1. \A s \in Source : GroupRemoved(p, at).head[s] = NoRec
  BY DEF GroupRemoved, EmptyPayload
<1>2. ASSUME NEW s \in Source PROVE PayloadEnforced(RecordRemoved(p, s, at))
  <2>1. /\ RecordRemoved(p, s, at).head[s] = NoRec
        /\ \A x \in Source \ {s} : /\ RecordRemoved(p, s, at).head[x] = p.head[x]
                                  /\ RecordRemoved(p, s, at).tomb[x] = p.tomb[x]
    BY DEF RecordRemoved, Payload
  <2> QED
    BY <2>1 DEF PayloadEnforced, Held, NoRec
<1> QED
  BY <1>1, <1>2 DEF PayloadEnforced, Held, NoRec

LEMMA RetractionEnforced ==
  ASSUME NEW p \in Payload, PayloadEnforced(p)
  PROVE  /\ \A s \in Source, x \in Tombstone : PayloadEnforced(RetractionAppended(p, s, x))
         /\ \A t \in Type, at \in Instant : PayloadEnforced(RollupRetractionAppended(p, t, at))
<1>1. ASSUME NEW s \in Source, NEW x \in Tombstone
      PROVE  PayloadEnforced(RetractionAppended(p, s, x))
  <2> DEFINE merged == MergeRetractions(p.tomb[s], x)
             q == RetractionAppended(p, s, x)
  <2>1. /\ q.tomb[s] = merged
        /\ q.head[s] = IF Suppresses(merged, Head, RecordTime(p.head[s]))
                       THEN NoRec ELSE p.head[s]
        /\ \A y \in Source \ {s} : q.head[y] = p.head[y] /\ q.tomb[y] = p.tomb[y]
    BY DEF RetractionAppended, Payload
  <2> HIDE DEF merged, q
  <2>2. ASSUME NEW y \in Source, Held(q.head[y])
        PROVE  ~Suppresses(q.tomb[y], Head, RecordTime(q.head[y]))
    <3>1. CASE y = s
      <4>1. ~Suppresses(merged, Head, RecordTime(p.head[s])) /\ q.head[s] = p.head[s]
        BY <2>1, <2>2, <3>1 DEF Held, NoRec
      <4> QED
        BY <2>1, <3>1, <4>1
    <3>2. CASE y # s
      BY <2>1, <2>2, <3>2 DEF PayloadEnforced
    <3> QED
      BY <3>1, <3>2
  <2>3. PayloadEnforced(q)
    BY <2>2 DEF PayloadEnforced
  <2> QED
    BY <2>3 DEF q
<1>2. ASSUME NEW t \in Type, NEW at \in Instant
      PROVE  PayloadEnforced(RollupRetractionAppended(p, t, at))
  <2>1. /\ RollupRetractionAppended(p, t, at).head = p.head
        /\ RollupRetractionAppended(p, t, at).tomb = p.tomb
    BY DEF RollupRetractionAppended, Payload
  <2> QED
    BY <2>1 DEF PayloadEnforced
<1> QED
  BY <1>1, <1>2

LEMMA EnforcedNext == TypeOK /\ EnforcedOnHeads /\ [Next]_vars => EnforcedOnHeads'
<1> SUFFICES ASSUME TypeOK, EnforcedOnHeads, [Next]_vars PROVE EnforcedOnHeads'
  OBVIOUS
<1>0. payload \in [Store -> Payload] /\ \A r \in Store : PayloadEnforced(payload[r])
  BY DEF TypeOK, EnforcedOnHeads
<1>1. ASSUME NEW r \in Store, NEW q, PayloadEnforced(q), payload' = [payload EXCEPT ![r] = q]
      PROVE  EnforcedOnHeads'
  BY <1>0, <1>1 DEF EnforcedOnHeads
<1>2. CASE payload' = payload
  BY <1>0, <1>2 DEF EnforcedOnHeads
<1>3. ASSUME NEW r \in Store, NEW s \in Source, NEW tags \in SUBSET Instant,
             NEW obs \in BOOLEAN, Write(r, s, tags, obs)
      PROVE  EnforcedOnHeads'
  <2>1. PayloadEnforced(Appended(payload[r], s, tags, obs, Now(r)))
    BY <1>0, NowType, AppendedEnforced
  <2> QED
    BY <1>1, <1>3, <2>1 DEF Write
<1>4. ASSUME NEW r \in Store, NEW s \in Source, NEW obs \in BOOLEAN, Say(r, s, obs)
      PROVE  EnforcedOnHeads'
  <2>1. {IF s \in Stamped THEN Now(r) ELSE 0} \in SUBSET Instant
    BY NowType, InstantIsNat
  <2> QED
    BY <1>3, <1>4, <2>1 DEF Say
<1>5. ASSUME NEW r \in Store, NEW m \in Sendable, Deliver(r, m)
      PROVE  EnforcedOnHeads'
  <2>1. m.src \in Source /\ m.tags \in SUBSET Instant /\ m.obs \in BOOLEAN
    BY SendableType DEF Message
  <2> QED
    BY <1>3, <1>5, <2>1 DEF Deliver
<1>6. ASSUME NEW r \in Store, RemoveGroup(r)
      PROVE  EnforcedOnHeads'
  BY <1>0, <1>1, <1>6, NowType, RemovedEnforced DEF RemoveGroup
<1>7. ASSUME NEW r \in Store, NEW s \in Source, RemoveRecord(r, s)
      PROVE  EnforcedOnHeads'
  BY <1>0, <1>1, <1>7, NowType, RemovedEnforced DEF RemoveRecord
<1>8. ASSUME NEW r \in Store, NEW q \in Store, NEW s \in Source, DeliverRetraction(r, q, s)
      PROVE  EnforcedOnHeads'
  <2>1. payload[q].tomb[s] \in Tombstone
    BY <1>0 DEF Payload
  <2> QED
    BY <1>0, <1>1, <1>8, <2>1, RetractionEnforced DEF DeliverRetraction
<1>9. ASSUME NEW r \in Store, NEW q \in Store, NEW t \in Type,
             DeliverRollupRetraction(r, q, t)
      PROVE  EnforcedOnHeads'
  <2>1. payload[q].rollupTomb[t] \in Instant
    BY <1>0 DEF Payload
  <2> QED
    BY <1>0, <1>1, <1>9, <2>1, RetractionEnforced DEF DeliverRollupRetraction
<1>10. CASE Tick \/ UNCHANGED vars
  BY <1>2, <1>10 DEF Tick, vars
<1> QED
  BY <1>4, <1>5, <1>6, <1>7, <1>8, <1>9, <1>10 DEF Next

(* For every number of stores and sources, with either kind of compaction, *)
(* clocks that disagree and retractions that cross: no store ever holds a  *)
(* head its own tombstones suppress, so a reader never depends on the      *)
(* strip in factFoldContext to hide one.                                   *)
THEOREM EnforcementAgrees == Spec => []EnforcedOnHeads
<1>1. Init => EnforcedOnHeads
  BY DEF Init, EnforcedOnHeads, PayloadEnforced, EmptyPayload, Held, NoRec
<1>2. TypeOK /\ EnforcedOnHeads /\ [Next]_vars => EnforcedOnHeads'
  BY EnforcedNext
<1> QED
  BY <1>1, <1>2, TypeCorrect, PTL DEF Spec

-----------------------------------------------------------------------------
(* Retractions and readers.                                                *)

LEMMA RemovedStanding ==
  ASSUME NEW p \in Payload, NEW at \in Instant
  PROVE  /\ Standing(GroupRemoved(p, at)) = {}
         /\ \A s \in Source : Standing(RecordRemoved(p, s, at)) \subseteq Standing(p)
<1>1. Standing(GroupRemoved(p, at)) = {}
  BY DEF GroupRemoved, EmptyPayload, Standing, Held, NoRec
<1>2. ASSUME NEW s \in Source
      PROVE  Standing(RecordRemoved(p, s, at)) \subseteq Standing(p)
  <2> DEFINE q == RecordRemoved(p, s, at)
  <2>1. /\ q.head[s] = NoRec
        /\ \A x \in Source \ {s} : q.head[x] = p.head[x] /\ q.tomb[x] = p.tomb[x]
        /\ q.rollup = p.rollup /\ q.rollupTomb = p.rollupTomb
    BY DEF RecordRemoved, Payload
  <2>2. ~Held(q.head[s])
    BY <2>1 DEF Held, NoRec
  <2> HIDE DEF q
  <2>3. Standing(q) \subseteq Standing(p)
    BY <2>1, <2>2 DEF Standing
  <2> QED
    BY <2>3 DEF q
<1> QED
  BY <1>1, <1>2

(* A joined tombstone suppresses all that either one did.                  *)
LEMMA MergedSuppresses ==
  ASSUME NEW a \in Tombstone, NEW b \in Tombstone, NEW n, NEW t \in Instant,
         Suppresses(a, n, t)
  PROVE  Suppresses(MergeRetractions(a, b), n, t)
<1> DEFINE m == MergeRetractions(a, b)
<1>1. n \in m.ids
  BY DEF MergeRetractions, Suppresses
<1>2. m.at \in Nat /\ a.at \in Nat /\ a.at <= m.at /\ t \in Nat /\ a.at # 0
  BY MergeRetractionsType, InstantIsNat DEF Tombstone, Suppresses
<1>3. t = 0 \/ t <= a.at
  BY <1>2 DEF Suppresses, NotLaterThan
<1> HIDE DEF m
<1>4. Suppresses(m, n, t)
  BY <1>1, <1>2, <1>3 DEF Suppresses, NotLaterThan
<1> QED
  BY <1>4 DEF m

LEMMA RetractionStanding ==
  ASSUME NEW p \in Payload
  PROVE  /\ \A s \in Source, x \in Tombstone :
              Standing(RetractionAppended(p, s, x)) \subseteq Standing(p)
         /\ \A t \in Type, at \in Instant :
              Standing(RollupRetractionAppended(p, t, at)) \subseteq Standing(p)
<1>1. ASSUME NEW s \in Source, NEW x \in Tombstone
      PROVE  Standing(RetractionAppended(p, s, x)) \subseteq Standing(p)
  <2> DEFINE merged == MergeRetractions(p.tomb[s], x)
             q == RetractionAppended(p, s, x)
  <2>1. /\ q.tomb[s] = merged
        /\ q.head[s] = IF Suppresses(merged, Head, RecordTime(p.head[s]))
                       THEN NoRec ELSE p.head[s]
        /\ \A y \in Source \ {s} : q.head[y] = p.head[y] /\ q.tomb[y] = p.tomb[y]
        /\ q.rollup = p.rollup /\ q.rollupTomb = p.rollupTomb
    BY DEF RetractionAppended, Payload
  <2>2. p.tomb[s] \in Tombstone /\ RecordTime(p.head[s]) \in Instant
    BY RecordTimeType DEF Payload
  <2>3. Suppresses(p.tomb[s], Head, RecordTime(p.head[s]))
          => Suppresses(merged, Head, RecordTime(p.head[s]))
    BY <2>2, MergedSuppresses
  <2> HIDE DEF q, merged
  <2>4. Held(q.head[s]) => /\ Held(p.head[s])
                           /\ ~Suppresses(p.tomb[s], Head, RecordTime(p.head[s]))
    BY <2>1, <2>3 DEF Held, NoRec
  <2>5. Standing(q) \subseteq Standing(p)
    BY <2>1, <2>4 DEF Standing
  <2> QED
    BY <2>5 DEF q
<1>2. ASSUME NEW t \in Type, NEW at \in Instant
      PROVE  Standing(RollupRetractionAppended(p, t, at)) \subseteq Standing(p)
  <2> DEFINE merged == LaterOf(p.rollupTomb[t], at)
             q == RollupRetractionAppended(p, t, at)
  <2>1. /\ q.head = p.head /\ q.tomb = p.tomb
        /\ q.rollupTomb[t] = merged
        /\ q.rollup[t] = IF NotLaterThan(p.rollup[t].earliest, merged)
                         THEN [ids |-> {}, earliest |-> 0] ELSE p.rollup[t]
        /\ \A u \in Type \ {t} : q.rollup[u] = p.rollup[u] /\ q.rollupTomb[u] = p.rollupTomb[u]
    BY DEF RollupRetractionAppended, Payload
  <2>2. /\ p.rollupTomb[t] \in Nat /\ at \in Nat /\ p.rollup[t].earliest \in Nat
    BY InstantIsNat DEF Payload, Summary
  <2>3. merged \in Nat /\ p.rollupTomb[t] <= merged
    BY <2>2 DEF LaterOf
  <2> HIDE DEF q, merged
  <2>4. ASSUME q.rollupTomb[t] = 0 \/ q.rollup[t].earliest > q.rollupTomb[t],
               NEW s \in q.rollup[t].ids
        PROVE  /\ p.rollupTomb[t] = 0 \/ p.rollup[t].earliest > p.rollupTomb[t]
               /\ s \in p.rollup[t].ids
    <3>1. q.rollup[t] = p.rollup[t]
      BY <2>1, <2>4
    <3> QED
      BY <2>1, <2>2, <2>3, <2>4, <3>1
  <2>5. Standing(q) \subseteq Standing(p)
    <3>1. ASSUME NEW u \in Type, q.rollupTomb[u] = 0 \/ q.rollup[u].earliest > q.rollupTomb[u],
                 NEW s \in q.rollup[u].ids
          PROVE  s \in Standing(p)
      <4>1. CASE u = t
        BY <2>4, <3>1, <4>1 DEF Standing
      <4>2. CASE u # t
        BY <2>1, <3>1, <4>2 DEF Standing
      <4> QED
        BY <4>1, <4>2
    <3> QED
      BY <2>1, <3>1 DEF Standing
  <2> QED
    BY <2>5 DEF q
<1> QED
  BY <1>1, <1>2

(* A write touches no tombstone.                                           *)
LEMMA AppendedTombs ==
  ASSUME NEW p \in Payload, NEW s \in Source, NEW tags \in SUBSET Instant,
         NEW obs \in BOOLEAN, NEW now \in Instant
  PROVE  /\ Appended(p, s, tags, obs, now).tomb = p.tomb
         /\ Appended(p, s, tags, obs, now).rollupTomb = p.rollupTomb
<1>1. \A q \in Payload : Compacted(q).tomb = q.tomb /\ Compacted(q).rollupTomb = q.rollupTomb
  <2>1. \A q \in Payload : /\ HeadsAbsorbed(q).tomb = q.tomb
                           /\ HeadsAbsorbed(q).rollupTomb = q.rollupTomb
    BY DEF HeadsAbsorbed, Payload
  <2>2. \A q \in Payload : /\ LeavesAbsorbed(q).tomb = q.tomb
                           /\ LeavesAbsorbed(q).rollupTomb = q.rollupTomb
    BY DEF LeavesAbsorbed, Payload
  <2> QED
    BY <2>1, <2>2, HeadsAbsorbedType DEF Compacted
<1>2. /\ Asserted(p, s, tags, obs, now).tomb = p.tomb
      /\ Asserted(p, s, tags, obs, now).rollupTomb = p.rollupTomb
  BY DEF Asserted, Payload
<1> QED
  BY <1>1, <1>2, AssertedType DEF Appended

LEMMA StandingStep ==
  ASSUME TypeOK, Next, NEW r \in Store,
         \/ removals' # removals
         \/ payload'[r].tomb # payload[r].tomb
         \/ payload'[r].rollupTomb # payload[r].rollupTomb
  PROVE  Standing(payload'[r]) \subseteq Standing(payload[r])
<1>t. payload \in [Store -> Payload]
  BY DEF TypeOK
<1>w. ASSUME NEW q \in Store, NEW s \in Source, NEW tags \in SUBSET Instant,
             NEW obs \in BOOLEAN, Write(q, s, tags, obs), removals' = removals
      PROVE  FALSE
  <2>1. /\ Appended(payload[q], s, tags, obs, Now(q)).tomb = payload[q].tomb
        /\ Appended(payload[q], s, tags, obs, Now(q)).rollupTomb = payload[q].rollupTomb
    BY <1>t, NowType, AppendedTombs
  <2>2. payload'[r].tomb = payload[r].tomb /\ payload'[r].rollupTomb = payload[r].rollupTomb
    BY <1>t, <1>w, <2>1 DEF Write
  <2> QED
    BY <1>w, <2>2
<1>r. ASSUME NEW q \in Store, NEW p, payload' = [payload EXCEPT ![q] = p],
             Standing(p) \subseteq Standing(payload[q])
      PROVE  Standing(payload'[r]) \subseteq Standing(payload[r])
  BY <1>t, <1>r
<1>1. CASE Tick
  BY <1>1 DEF Tick
<1>2. ASSUME NEW q \in Store, NEW s \in Source, NEW obs \in BOOLEAN, Say(q, s, obs)
      PROVE  FALSE
  <2>1. {IF s \in Stamped THEN Now(q) ELSE 0} \in SUBSET Instant
    BY NowType, InstantIsNat
  <2> QED
    BY <1>2, <1>w, <2>1 DEF Say
<1>3. ASSUME NEW q \in Store, NEW m \in Sendable, Deliver(q, m)
      PROVE  FALSE
  <2>1. m.src \in Source /\ m.tags \in SUBSET Instant /\ m.obs \in BOOLEAN
    BY SendableType DEF Message
  <2> QED
    BY <1>3, <1>w, <2>1 DEF Deliver
<1>4. ASSUME NEW q \in Store, RemoveGroup(q)
      PROVE  Standing(payload'[r]) \subseteq Standing(payload[r])
  BY <1>4, <1>r, <1>t, NowType, RemovedStanding DEF RemoveGroup
<1>5. ASSUME NEW q \in Store, NEW s \in Source, RemoveRecord(q, s)
      PROVE  Standing(payload'[r]) \subseteq Standing(payload[r])
  BY <1>5, <1>r, <1>t, NowType, RemovedStanding DEF RemoveRecord
<1>6. ASSUME NEW q \in Store, NEW o \in Store, NEW s \in Source, DeliverRetraction(q, o, s)
      PROVE  Standing(payload'[r]) \subseteq Standing(payload[r])
  <2>1. payload[o].tomb[s] \in Tombstone
    BY <1>t DEF Payload
  <2> QED
    BY <1>6, <1>r, <1>t, <2>1, RetractionStanding DEF DeliverRetraction
<1>7. ASSUME NEW q \in Store, NEW o \in Store, NEW t \in Type,
             DeliverRollupRetraction(q, o, t)
      PROVE  Standing(payload'[r]) \subseteq Standing(payload[r])
  <2>1. payload[o].rollupTomb[t] \in Instant
    BY <1>t DEF Payload
  <2> QED
    BY <1>7, <1>r, <1>t, <2>1, RetractionStanding DEF DeliverRollupRetraction
<1> QED
  BY <1>1, <1>2, <1>3, <1>4, <1>5, <1>6, <1>7 DEF Next

(* A removal, or a retraction record that arrives, older or newer than the *)
(* one held, never shows a reader a source it did not see before.          *)
THEOREM RetractionOnlyTakesAway == Spec => RetractionNeverRevives
<1> DEFINE NoneRevived == \A r \in Store :
             (\/ removals' # removals
              \/ payload'[r].tomb # payload[r].tomb
              \/ payload'[r].rollupTomb # payload[r].rollupTomb)
             => Standing(payload'[r]) \subseteq Standing(payload[r])
<1>1. TypeOK /\ [Next]_vars => [NoneRevived]_vars
  BY StandingStep
<1> HIDE DEF NoneRevived
<1>2. Spec => [][NoneRevived]_vars
  BY <1>1, TypeCorrect, PTL DEF Spec
<1> QED
  BY <1>2 DEF RetractionNeverRevives, NoneRevived

-----------------------------------------------------------------------------
(* Votes.                                                                  *)

(* A summary stands for sources of its own type that hold no head.         *)
AbsorbsOwn(p) ==
  \A t \in Type : \A s \in p.rollup[t].ids :
    /\ s \in RealSource /\ TypeOf[s] = t
    /\ ~Held(p.head[s])

Absorbed(p, s) == \E t \in Type : s \in p.rollup[t].ids

Counted(p, H) == \A s \in RealSource : H[s] # {} => Held(p.head[s]) \/ Absorbed(p, s)

Untouched(p) ==
  /\ \A s \in Source : p.tomb[s].ids = {}
  /\ \A t \in Type : p.rollupTomb[t] = 0

Votes ==
  \A r \in Store :
    /\ AbsorbsOwn(payload[r])
    /\ removals = 0 => Untouched(payload[r]) /\ Counted(payload[r], heard[r])

LEMMA CompactedVotes ==
  ASSUME NEW p \in Payload, AbsorbsOwn(p)
  PROVE  /\ AbsorbsOwn(Compacted(p))
         /\ \A s \in RealSource : Held(p.head[s]) \/ Absorbed(p, s)
              => Held(Compacted(p).head[s]) \/ Absorbed(Compacted(p), s)
<1> DEFINE gone == {e.id : e \in UNION {HeadsToAbsorb(p, t) : t \in Type}}
           h == HeadsAbsorbed(p)
<1>1. /\ \A s \in Source : h.head[s] = IF s \in gone THEN NoRec ELSE p.head[s]
      /\ \A t \in Type : h.rollup[t].ids = p.rollup[t].ids \cup {e.id : e \in HeadsToAbsorb(p, t)}
  BY DEF HeadsAbsorbed, Payload
<1>2. h \in Payload
  BY HeadsAbsorbedType
<1>3. \A t \in Type : \A e \in HeadsToAbsorb(p, t) :
        e.id \in RealSource /\ TypeOf[e.id] = t /\ e.id \in gone
  <2>1. \A t \in Type : \A e \in HeadsOfType(p, t) : e.id \in RealSource /\ TypeOf[e.id] = t
    BY DEF HeadsOfType, RealSource
  <2>2. \A t \in Type : HeadsToAbsorb(p, t) \subseteq HeadsOfType(p, t)
    BY DEF HeadsToAbsorb
  <2>3. \A t \in Type : \A e \in HeadsToAbsorb(p, t) : e.id \in gone
    OBVIOUS
  <2> QED
    BY <2>1, <2>2, <2>3
<1>4. \A s \in gone : \E t \in Type : \E e \in HeadsToAbsorb(p, t) : e.id = s
  OBVIOUS
<1> HIDE DEF gone, h
<1>5. AbsorbsOwn(h)
  <2> SUFFICES ASSUME NEW t \in Type, NEW s \in h.rollup[t].ids
               PROVE  s \in RealSource /\ TypeOf[s] = t /\ ~Held(h.head[s])
    BY DEF AbsorbsOwn
  <2>1. CASE s \in p.rollup[t].ids
    <3>1. s \in RealSource /\ TypeOf[s] = t /\ ~Held(p.head[s])
      BY <2>1 DEF AbsorbsOwn
    <3> QED
      BY <1>1, <3>1 DEF RealSource, Held, NoRec
  <2>2. CASE s \notin p.rollup[t].ids
    <3>1. s \in RealSource /\ TypeOf[s] = t /\ s \in gone
      BY <1>1, <1>3, <2>2
    <3> QED
      BY <1>1, <3>1 DEF RealSource, Held, NoRec
  <2> QED
    BY <2>1, <2>2
<1>6. ASSUME NEW s \in RealSource, Held(p.head[s]) \/ Absorbed(p, s)
      PROVE  Held(h.head[s]) \/ Absorbed(h, s)
  <2>1. CASE s \in gone
    BY <1>1, <1>4, <2>1 DEF Absorbed
  <2>2. CASE s \notin gone
    BY <1>1, <1>6, <2>2 DEF Absorbed, RealSource
  <2> QED
    BY <2>1, <2>2
<1>7. Compacted(p).head = h.head /\ Compacted(p).rollup = h.rollup
  BY <1>2 DEF Compacted, LeavesAbsorbed, Payload, h
<1> QED
  BY <1>5, <1>6, <1>7 DEF AbsorbsOwn, Absorbed

LEMMA PlannedHeld ==
  ASSUME NEW rec \in Rec, NEW tags \in SUBSET Instant, NEW obs \in BOOLEAN,
         NEW now \in Instant, Held(rec) \/ tags # {}
  PROVE  Held(Planned(rec, tags, obs, now))
<1>1. SupersedesPrior(tags, obs, rec) => tags # {}
  <2>1. tags = {} => Latest(tags) = 0
    BY LatestIsGreatest
  <2> QED
    BY <2>1 DEF SupersedesPrior
<1> QED
  BY <1>1 DEF Planned, Held, Rec

LEMMA WriteVotes ==
  ASSUME NEW p \in Payload, AbsorbsOwn(p), NEW s \in Source, NEW tags \in SUBSET Instant,
         NEW obs \in BOOLEAN, NEW now \in Instant
  PROVE  /\ AbsorbsOwn(Appended(p, s, tags, obs, now))
         /\ \A x \in RealSource : Held(p.head[x]) \/ Absorbed(p, x)
              => \/ Held(Appended(p, s, tags, obs, now).head[x])
                 \/ Absorbed(Appended(p, s, tags, obs, now), x)
         /\ s \in RealSource /\ Untouched(p) /\ tags # {}
              => \/ Held(Appended(p, s, tags, obs, now).head[s])
                 \/ Absorbed(Appended(p, s, tags, obs, now), s)
<1> DEFINE q == Appended(p, s, tags, obs, now)
           a == Asserted(p, s, tags, obs, now)
<1>1. CASE Refused(p, s, tags)
  <2>1. q = Compacted(p)
    BY <1>1 DEF Appended
  <2>2. s \in RealSource /\ Untouched(p) => Absorbed(p, s)
    BY <1>1 DEF Refused, Untouched, Suppresses, Absorbed, RealSource
  <2> HIDE DEF q
  <2>3. /\ AbsorbsOwn(q)
        /\ \A x \in RealSource : Held(p.head[x]) \/ Absorbed(p, x)
             => Held(q.head[x]) \/ Absorbed(q, x)
    BY <2>1, CompactedVotes
  <2> QED
    BY <2>2, <2>3 DEF q
<1>2. CASE ~Refused(p, s, tags)
  <2>0. q = Compacted(a) /\ a \in Payload
    BY <1>2, AssertedType DEF Appended
  <2>1. /\ a.rollup = p.rollup
        /\ a.head[s] = Planned(p.head[s], tags, obs, now)
        /\ \A x \in Source \ {s} : a.head[x] = IF x = NoSource THEN NoRec ELSE p.head[x]
    BY DEF Asserted, Payload
  <2>2. ~Absorbed(p, s)
    BY <1>2 DEF Refused, Absorbed
  <2>3. Held(p.head[s]) \/ tags # {} => Held(a.head[s])
    <3>1. p.head[s] \in Rec
      BY DEF Payload
    <3>2. Held(p.head[s]) \/ tags # {} => Held(Planned(p.head[s], tags, obs, now))
      BY <3>1, PlannedHeld
    <3> QED
      BY <2>1, <3>2, Zenon
  <2> HIDE DEF a, q
  <2>4. AbsorbsOwn(a)
    <3> SUFFICES ASSUME NEW t \in Type, NEW x \in a.rollup[t].ids
                 PROVE  x \in RealSource /\ TypeOf[x] = t /\ ~Held(a.head[x])
      BY DEF AbsorbsOwn
    <3>1. x \in RealSource /\ TypeOf[x] = t /\ ~Held(p.head[x]) /\ x # s
      BY <2>1, <2>2 DEF AbsorbsOwn, Absorbed
    <3>2. a.head[x] = p.head[x]
      BY <2>1, <3>1 DEF RealSource
    <3> QED
      BY <3>1, <3>2
  <2>5. ASSUME NEW x \in RealSource, Held(p.head[x]) \/ Absorbed(p, x)
        PROVE  Held(a.head[x]) \/ Absorbed(a, x)
    <3>1. CASE x = s
      BY <2>2, <2>3, <2>5, <3>1
    <3>2. CASE x # s
      BY <2>1, <2>5, <3>2 DEF Absorbed, RealSource
    <3> QED
      BY <3>1, <3>2
  <2>6. /\ AbsorbsOwn(q)
        /\ \A x \in RealSource : Held(a.head[x]) \/ Absorbed(a, x)
             => Held(q.head[x]) \/ Absorbed(q, x)
    BY <2>0, <2>4, CompactedVotes
  <2> QED
    BY <2>3, <2>5, <2>6 DEF q
<1> QED
  BY <1>1, <1>2

LEMMA RemovalVotes ==
  ASSUME NEW p \in Payload, AbsorbsOwn(p)
  PROVE  /\ \A at \in Instant : AbsorbsOwn(GroupRemoved(p, at))
         /\ \A s \in Source, at \in Instant : AbsorbsOwn(RecordRemoved(p, s, at))
         /\ \A s \in Source, x \in Tombstone : AbsorbsOwn(RetractionAppended(p, s, x))
         /\ \A t \in Type, at \in Instant : AbsorbsOwn(RollupRetractionAppended(p, t, at))
<1>1. \A at \in Instant : AbsorbsOwn(GroupRemoved(p, at))
  BY DEF GroupRemoved, EmptyPayload, AbsorbsOwn
<1>2. ASSUME NEW q, \A t \in Type : q.rollup[t].ids \subseteq p.rollup[t].ids,
             \A s \in Source : q.head[s] = p.head[s] \/ q.head[s] = NoRec
      PROVE  AbsorbsOwn(q)
  <2> SUFFICES ASSUME NEW t \in Type, NEW s \in q.rollup[t].ids
               PROVE  s \in RealSource /\ TypeOf[s] = t /\ ~Held(q.head[s])
    BY DEF AbsorbsOwn
  <2>1. s \in RealSource /\ TypeOf[s] = t /\ ~Held(p.head[s])
    BY <1>2 DEF AbsorbsOwn
  <2> QED
    BY <1>2, <2>1 DEF RealSource, Held, NoRec
<1>3. ASSUME NEW s \in Source, NEW at \in Instant PROVE AbsorbsOwn(RecordRemoved(p, s, at))
  <2> DEFINE q == RecordRemoved(p, s, at)
  <2>1. q.rollup = p.rollup /\ \A x \in Source : q.head[x] = p.head[x] \/ q.head[x] = NoRec
    BY DEF RecordRemoved, Payload
  <2> HIDE DEF q
  <2>2. AbsorbsOwn(q)
    BY <1>2, <2>1
  <2> QED
    BY <2>2 DEF q
<1>4. ASSUME NEW s \in Source, NEW y \in Tombstone PROVE AbsorbsOwn(RetractionAppended(p, s, y))
  <2> DEFINE q == RetractionAppended(p, s, y)
  <2>1. q.rollup = p.rollup /\ \A x \in Source : q.head[x] = p.head[x] \/ q.head[x] = NoRec
    BY DEF RetractionAppended, Payload
  <2> HIDE DEF q
  <2>2. AbsorbsOwn(q)
    BY <1>2, <2>1
  <2> QED
    BY <2>2 DEF q
<1>5. ASSUME NEW t \in Type, NEW at \in Instant
      PROVE  AbsorbsOwn(RollupRetractionAppended(p, t, at))
  <2> DEFINE q == RollupRetractionAppended(p, t, at)
  <2>1. q.head = p.head /\ \A u \in Type : q.rollup[u].ids \subseteq p.rollup[u].ids
    BY DEF RollupRetractionAppended, Payload
  <2> HIDE DEF q
  <2>2. AbsorbsOwn(q)
    BY <1>2, <2>1
  <2> QED
    BY <2>2 DEF q
<1> QED
  BY <1>1, <1>3, <1>4, <1>5

LEMMA VotesNext == TypeOK /\ Votes /\ [Next]_vars => Votes'
<1> SUFFICES ASSUME TypeOK, Votes, [Next]_vars PROVE Votes'
  OBVIOUS
<1>t. /\ payload \in [Store -> Payload] /\ removals \in Nat
      /\ heard \in [Store -> [Source -> SUBSET Instant]]
  BY DEF TypeOK
<1>v. \A r \in Store : AbsorbsOwn(payload[r])
  BY DEF Votes
<1>u. CASE UNCHANGED <<payload, heard, removals>>
  BY <1>u DEF Votes
<1>w. ASSUME NEW r \in Store, NEW s \in Source, NEW tags \in SUBSET Instant,
             NEW obs \in BOOLEAN, Write(r, s, tags, obs), removals' = removals
      PROVE  Votes'
  <2> DEFINE p == Appended(payload[r], s, tags, obs, Now(r))
  <2>0. payload[r] \in Payload /\ Now(r) \in Instant
    BY <1>t, NowType
  <2>1. /\ payload' = [payload EXCEPT ![r] = p]
        /\ heard' = [heard EXCEPT ![r][s] = @ \cup tags]
    BY <1>w DEF Write
  <2>2. /\ AbsorbsOwn(p)
        /\ \A x \in RealSource : Held(payload[r].head[x]) \/ Absorbed(payload[r], x)
             => Held(p.head[x]) \/ Absorbed(p, x)
        /\ s \in RealSource /\ Untouched(payload[r]) /\ tags # {}
             => Held(p.head[s]) \/ Absorbed(p, s)
    BY <1>v, <2>0, WriteVotes
  <2>3. Untouched(payload[r]) => Untouched(p)
    BY <2>0, AppendedTombs DEF Untouched
  <2> HIDE DEF p
  <2>4. /\ payload'[r] = p /\ \A q \in Store \ {r} : payload'[q] = payload[q]
        /\ \A x \in Source : heard'[r][x] = IF x = s THEN heard[r][s] \cup tags ELSE heard[r][x]
        /\ \A q \in Store \ {r} : heard'[q] = heard[q]
    BY <1>t, <2>1
  <2>5. ASSUME removals = 0 PROVE Counted(p, heard'[r]) /\ Untouched(p)
    <3>1. Untouched(payload[r]) /\ Counted(payload[r], heard[r])
      BY <2>5 DEF Votes
    <3>2. ASSUME NEW x \in RealSource, heard'[r][x] # {}
          PROVE  Held(p.head[x]) \/ Absorbed(p, x)
      <4>1. CASE heard[r][x] # {}
        BY <2>2, <3>1, <4>1 DEF Counted
      <4>2. CASE heard[r][x] = {}
        <5>1. x = s /\ tags # {}
          BY <2>4, <3>2, <4>2 DEF RealSource
        <5> QED
          BY <2>2, <3>1, <5>1
      <4> QED
        BY <4>1, <4>2
    <3> QED
      BY <2>3, <3>1, <3>2 DEF Counted
  <2>6. ASSUME NEW q \in Store
        PROVE  /\ AbsorbsOwn(payload'[q])
               /\ removals' = 0 => Untouched(payload'[q]) /\ Counted(payload'[q], heard'[q])
    <3>1. CASE q = r
      BY <1>w, <2>2, <2>4, <2>5, <3>1
    <3>2. CASE q # r
      BY <1>w, <2>4, <3>2 DEF Votes
    <3> QED
      BY <3>1, <3>2
  <2> QED
    BY <2>6 DEF Votes
<1>1. CASE Tick
  BY <1>1, <1>u DEF Tick
<1>2. ASSUME NEW r \in Store, NEW s \in Source, NEW obs \in BOOLEAN, Say(r, s, obs)
      PROVE  Votes'
  <2>1. {IF s \in Stamped THEN Now(r) ELSE 0} \in SUBSET Instant
    BY NowType, InstantIsNat
  <2> QED
    BY <1>2, <1>w, <2>1 DEF Say
<1>3. ASSUME NEW r \in Store, NEW m \in Sendable, Deliver(r, m) PROVE Votes'
  <2>1. m.src \in Source /\ m.tags \in SUBSET Instant /\ m.obs \in BOOLEAN
    BY SendableType DEF Message
  <2> QED
    BY <1>3, <1>w, <2>1 DEF Deliver
<1>r. ASSUME NEW r \in Store, NEW p, AbsorbsOwn(p), payload' = [payload EXCEPT ![r] = p],
             removals' # 0
      PROVE  Votes'
  <2>1. payload'[r] = p /\ \A q \in Store \ {r} : payload'[q] = payload[q]
    BY <1>t, <1>r
  <2>2. ASSUME NEW q \in Store PROVE AbsorbsOwn(payload'[q])
    BY <1>r, <1>v, <2>1
  <2> QED
    BY <1>r, <2>2 DEF Votes
<1>4. ASSUME NEW r \in Store, RemoveGroup(r) PROVE Votes'
  <2>1. AbsorbsOwn(GroupRemoved(payload[r], Now(r)))
    BY <1>t, <1>v, NowType, RemovalVotes
  <2>2. payload' = [payload EXCEPT ![r] = GroupRemoved(payload[r], Now(r))] /\ removals' # 0
    BY <1>4, <1>t DEF RemoveGroup
  <2> QED
    BY <1>r, <2>1, <2>2
<1>5. ASSUME NEW r \in Store, NEW s \in Source, RemoveRecord(r, s) PROVE Votes'
  <2>1. AbsorbsOwn(RecordRemoved(payload[r], s, Now(r)))
    BY <1>t, <1>v, NowType, RemovalVotes
  <2>2. payload' = [payload EXCEPT ![r] = RecordRemoved(payload[r], s, Now(r))] /\ removals' # 0
    BY <1>5, <1>t DEF RemoveRecord
  <2> QED
    BY <1>r, <2>1, <2>2
<1>6. ASSUME NEW r \in Store, NEW q \in Store, NEW s \in Source, DeliverRetraction(r, q, s)
      PROVE  Votes'
  <2>1. payload[q].tomb[s] \in Tombstone /\ payload[q].tomb[s].ids # {}
    BY <1>6, <1>t DEF DeliverRetraction, Payload
  <2>2. removals # 0
    BY <2>1 DEF Votes, Untouched
  <2>3. AbsorbsOwn(RetractionAppended(payload[r], s, payload[q].tomb[s]))
    BY <1>t, <1>v, <2>1, RemovalVotes
  <2> QED
    BY <1>6, <1>r, <2>2, <2>3 DEF DeliverRetraction
<1>7. ASSUME NEW r \in Store, NEW q \in Store, NEW t \in Type,
             DeliverRollupRetraction(r, q, t)
      PROVE  Votes'
  <2>1. payload[q].rollupTomb[t] \in Instant /\ payload[q].rollupTomb[t] # 0
    BY <1>7, <1>t, InstantIsNat DEF DeliverRollupRetraction, Payload
  <2>2. removals # 0
    BY <2>1 DEF Votes, Untouched
  <2>3. AbsorbsOwn(RollupRetractionAppended(payload[r], t, payload[q].rollupTomb[t]))
    BY <1>t, <1>v, <2>1, RemovalVotes
  <2> QED
    BY <1>7, <1>r, <2>2, <2>3 DEF DeliverRollupRetraction
<1>8. CASE UNCHANGED vars
  BY <1>8, <1>u DEF vars
<1> QED
  BY <1>1, <1>2, <1>3, <1>4, <1>5, <1>6, <1>7, <1>8 DEF Next

LEMMA VotesInit == Init => Votes
BY DEF Init, Votes, AbsorbsOwn, Untouched, Counted, EmptyPayload, RealSource

(* Every source votes once: until something is removed a reader of a store *)
(* sees every source the store heard, compacted or not, and a source a     *)
(* summary stands for holds no head beside it and sits in no other one.    *)
THEOREM VotesAreKept == Spec => []EverySourceVotesOnce
<1>1. Init => Votes
  BY VotesInit
<1>2. ASSUME Votes PROVE EverySourceVotesOnce
  <2> SUFFICES ASSUME NEW r \in Store, NEW s \in Source
               PROVE  LET in == {t \in Type : s \in payload[r].rollup[t].ids} IN
                      /\ s \in RealSource /\ heard[r][s] # {} /\ removals = 0
                           => s \in Standing(payload[r])
                      /\ Cardinality(in) <= 1
                      /\ in # {} => ~Held(payload[r].head[s])
    BY DEF EverySourceVotesOnce
  <2> DEFINE in == {t \in Type : s \in payload[r].rollup[t].ids}
  <2>1. \A t \in in : t = TypeOf[s] /\ ~Held(payload[r].head[s])
    BY <1>2 DEF Votes, AbsorbsOwn
  <2>2. Cardinality(in) <= 1
    <3>1. in = {} \/ in = {TypeOf[s]}
      BY <2>1
    <3>2. Cardinality({}) = 0 /\ Cardinality({TypeOf[s]}) = 1
      BY FS_EmptySet, FS_Singleton
    <3> HIDE DEF in
    <3> QED
      BY <3>1, <3>2
  <2>3. ASSUME s \in RealSource, heard[r][s] # {}, removals = 0
        PROVE  s \in Standing(payload[r])
    BY <1>2, <2>3 DEF Votes, Untouched, Counted, Absorbed, Standing, Suppresses, RealSource
  <2> QED
    BY <2>1, <2>2, <2>3
<1> QED
  BY <1>1, <1>2, VotesNext, TypeCorrect, PTL DEF Spec

-----------------------------------------------------------------------------
(* A chain is a history: the invariant.                                    *)

(* What payload p has of source s when its leaves up to m were absorbed:   *)
(* every later version up to the one the head stands on, once each, dated  *)
(* in the order of the numbers and all before the head, each pointing at   *)
(* the one before it, the first of them at the summary.                    *)
History(p, s, m) ==
  LET top == p.head[s].behind IN
  /\ top \in Nat /\ m <= top
  /\ m > 0 => m < top /\ p.chain[s].ids # {}
  /\ top > 0 => Latest(p.head[s].tags) > 0
  /\ \A l \in LeavesOf(p, s) :
       /\ l.n \in m + 1..top
       /\ RecordTime(l.rec) < RecordTime(p.head[s])
       /\ l.rec.behind = IF l.n = m + 1 /\ m > 0 THEN ChainSummary ELSE l.n - 1
       /\ \A k \in LeavesOf(p, s) :
            /\ l.n = k.n => l = k
            /\ l.n < k.n => RecordTime(l.rec) < RecordTime(k.rec)
  /\ \A n \in m + 1..top : \E l \in LeavesOf(p, s) : l.n = n

Chained(p) == \A s \in Source : \E m \in Nat : History(p, s, m)

(* A source with no instant of its own demotes nothing, and no head is an  *)
(* observation.                                                            *)
Plain(p) ==
  /\ \A s \in Source : ~p.head[s].obs
  /\ \A s \in Source \ Stamped : p.head[s].tags \subseteq {0}

PlainMessage(m) == ~m.obs /\ (m.src \notin Stamped => m.tags \subseteq {0})

AllPlain ==
  /\ \A m \in said : PlainMessage(m)
  /\ \A r \in Store : Plain(payload[r])

-----------------------------------------------------------------------------
(* Plain messages and heads.                                               *)

LEMMA AppendedPlain ==
  ASSUME NEW p \in Payload, Plain(p), NEW s \in Source, NEW tags \in SUBSET Instant,
         s \notin Stamped => tags \subseteq {0}, NEW now \in Instant
  PROVE  Plain(Appended(p, s, tags, FALSE, now))
<1> DEFINE a == Asserted(p, s, tags, FALSE, now)
<1>1. ASSUME NEW q \in Payload, Plain(q) PROVE Plain(Compacted(q))
  BY <1>1, CompactedHeads DEF Plain, NoRec
<1>2. Plain(a)
  <2>1. /\ ~Planned(p.head[s], tags, FALSE, now).obs
        /\ s \notin Stamped => Planned(p.head[s], tags, FALSE, now).tags \subseteq {0}
    BY DEF Planned, Plain, Payload, Rec
  <2>2. \A x \in Source : a.head[x] = IF x = s THEN Planned(p.head[s], tags, FALSE, now)
                                      ELSE IF x = NoSource THEN NoRec ELSE p.head[x]
    BY DEF Asserted, Payload
  <2>3. NoRec.obs = FALSE /\ NoRec.tags = {}
    BY DEF NoRec
  <2> HIDE DEF a
  <2>4. ASSUME NEW x \in Source
        PROVE  ~a.head[x].obs /\ (x \notin Stamped => a.head[x].tags \subseteq {0})
    <3>1. CASE x = s
      BY <2>1, <2>2, <3>1
    <3>2. CASE x # s /\ x = NoSource
      BY <2>2, <2>3, <3>2
    <3>3. CASE x # s /\ x # NoSource
      BY <2>2, <3>3 DEF Plain
    <3> QED
      BY <3>1, <3>2, <3>3
  <2> QED
    BY <2>4 DEF Plain
<1>3. a \in Payload
  BY AssertedType
<1> QED
  BY <1>1, <1>2, <1>3 DEF Appended

LEMMA SendablePlain ==
  ASSUME TypeOK, AllPlain, NEW m \in Sendable
  PROVE  PlainMessage(m)
<1>1. CASE m \in said
  BY <1>1 DEF AllPlain
<1>2. CASE m \in PeerRows
  <2>1. PICK q \in Store, s \in Source : m = RowOf(q, s)
    BY <1>2 DEF PeerRows
  <2> QED
    BY <2>1 DEF RowOf, AllPlain, Plain, PlainMessage
<1> QED
  BY <1>1, <1>2 DEF Sendable

(* Removals only take heads away.                                          *)
LEMMA RemovalPlain ==
  ASSUME NEW p \in Payload, Plain(p)
  PROVE  /\ \A at \in Instant : Plain(GroupRemoved(p, at))
         /\ \A s \in Source, at \in Instant : Plain(RecordRemoved(p, s, at))
         /\ \A s \in Source, x \in Tombstone : Plain(RetractionAppended(p, s, x))
         /\ \A t \in Type, at \in Instant : Plain(RollupRetractionAppended(p, t, at))
<1>0. ASSUME NEW q, \A s \in Source : q.head[s] = p.head[s] \/ q.head[s] = NoRec
      PROVE  Plain(q)
  BY <1>0 DEF Plain, NoRec
<1>1. \A at \in Instant : Plain(GroupRemoved(p, at))
  BY <1>0 DEF GroupRemoved, EmptyPayload
<1>2. ASSUME NEW s \in Source, NEW at \in Instant PROVE Plain(RecordRemoved(p, s, at))
  BY <1>0 DEF RecordRemoved, Payload
<1>3. ASSUME NEW s \in Source, NEW x \in Tombstone PROVE Plain(RetractionAppended(p, s, x))
  <2>1. \A y \in Source : \/ RetractionAppended(p, s, x).head[y] = p.head[y]
                          \/ RetractionAppended(p, s, x).head[y] = NoRec
    BY DEF RetractionAppended, Payload
  <2> QED
    BY <1>0, <2>1
<1>4. ASSUME NEW t \in Type, NEW at \in Instant PROVE Plain(RollupRetractionAppended(p, t, at))
  BY <1>0 DEF RollupRetractionAppended, Payload
<1> QED
  BY <1>1, <1>2, <1>3, <1>4

LEMMA PlainNext ==
  ASSUME Witnesses = {}, TypeOK, AllPlain, [Next]_vars
  PROVE  AllPlain'
<1>t. payload \in [Store -> Payload] /\ \A r \in Store : Plain(payload[r])
  BY DEF TypeOK, AllPlain
<1>1. ASSUME NEW r \in Store, NEW q, Plain(q), payload' = [payload EXCEPT ![r] = q],
             said' = said
      PROVE  AllPlain'
  BY <1>t, <1>1 DEF AllPlain
<1>2. CASE UNCHANGED <<payload, said>>
  BY <1>2 DEF AllPlain
<1>3. ASSUME NEW r \in Store, NEW s \in Source, NEW obs \in BOOLEAN,
             obs => s \in Witnesses, Say(r, s, obs)
      PROVE  AllPlain'
  <2> DEFINE at == IF s \in Stamped THEN Now(r) ELSE 0
             m == [src |-> s, tags |-> {at}, obs |-> obs]
  <2>1. obs = FALSE
    BY <1>3
  <2>2. {at} \in SUBSET Instant /\ (s \notin Stamped => {at} \subseteq {0})
    BY NowType, InstantIsNat
  <2>3. said' = said \cup {m} /\ payload' = [payload EXCEPT ![r] = Appended(@, s, {at}, FALSE, Now(r))]
    BY <1>3, <2>1 DEF Say, Write
  <2> HIDE DEF at
  <2>4. Plain(Appended(payload[r], s, {at}, FALSE, Now(r)))
    BY <1>t, <2>2, AppendedPlain, NowType
  <2>5. PlainMessage(m)
    BY <2>1, <2>2 DEF PlainMessage
  <2> HIDE DEF m
  <2> QED
    BY <1>t, <2>3, <2>4, <2>5 DEF AllPlain
<1>4. ASSUME NEW r \in Store, NEW m \in Sendable, Deliver(r, m)
      PROVE  AllPlain'
  <2>1. m.src \in Source /\ m.tags \in SUBSET Instant /\ m.obs \in BOOLEAN
    BY SendableType DEF Message
  <2>2. m.obs = FALSE /\ (m.src \notin Stamped => m.tags \subseteq {0})
    BY <2>1, SendablePlain DEF PlainMessage
  <2>3. Plain(Appended(payload[r], m.src, m.tags, FALSE, Now(r)))
    BY <1>t, <2>1, <2>2, AppendedPlain, NowType
  <2> QED
    BY <1>1, <1>4, <2>2, <2>3 DEF Deliver, Write
<1>5. ASSUME NEW r \in Store, RemoveGroup(r) PROVE AllPlain'
  BY <1>t, <1>1, <1>5, NowType, RemovalPlain DEF RemoveGroup
<1>6. ASSUME NEW r \in Store, NEW s \in Source, RemoveRecord(r, s) PROVE AllPlain'
  BY <1>t, <1>1, <1>6, NowType, RemovalPlain DEF RemoveRecord
<1>7. ASSUME NEW r \in Store, NEW q \in Store, NEW s \in Source, DeliverRetraction(r, q, s)
      PROVE  AllPlain'
  <2>1. payload[q].tomb[s] \in Tombstone
    BY <1>t DEF Payload
  <2> QED
    BY <1>t, <1>1, <1>7, <2>1, RemovalPlain DEF DeliverRetraction
<1>8. ASSUME NEW r \in Store, NEW q \in Store, NEW t \in Type,
             DeliverRollupRetraction(r, q, t)
      PROVE  AllPlain'
  <2>1. payload[q].rollupTomb[t] \in Instant
    BY <1>t DEF Payload
  <2> QED
    BY <1>t, <1>1, <1>8, <2>1, RemovalPlain DEF DeliverRollupRetraction
<1> QED
  BY <1>2, <1>3, <1>4, <1>5, <1>6, <1>7, <1>8 DEF Next, vars, Tick

-----------------------------------------------------------------------------
(* Compaction of a chain.                                                  *)

(* Entries numbered a + 1 to b, once each, are b - a.                      *)
LEMMA NumberedSize ==
  ASSUME NEW E, NEW a \in Nat, NEW b \in Nat, a <= b,
         \A e \in E : e.id \in a + 1..b,
         \A n \in a + 1..b : \E e \in E : e.id = n,
         \A e, f \in E : e.id = f.id => e = f
  PROVE  IsFiniteSet(E) /\ Cardinality(E) = b - a
<1> DEFINE N == a + 1..b
           f == [n \in N |-> CHOOSE e \in E : e.id = n]
<1>1. \A n \in N : f[n] \in E /\ f[n].id = n
  OBVIOUS
<1>2. f \in [N -> E]
  BY <1>1
<1>3. f \in Injection(N, E)
  <2> HIDE DEF f, N
  <2> QED
    BY <1>1, <1>2 DEF Injection, IsInjective
<1>4. f \in Surjection(N, E)
  <2>1. ASSUME NEW e \in E PROVE \E n \in N : f[n] = e
    <3>1. e.id \in N
      OBVIOUS
    <3>2. f[e.id] \in E /\ f[e.id].id = e.id
      BY <1>1, <3>1
    <3> HIDE DEF f
    <3>3. f[e.id] = e
      BY <3>2
    <3> QED
      BY <3>1, <3>3
  <2> HIDE DEF f, N
  <2> QED
    BY <1>2, <2>1 DEF Surjection
<1>5. ExistsBijection(N, E)
  BY <1>3, <1>4, Zenon DEF ExistsBijection, Bijection
<1>6. IsFiniteSet(N) /\ Cardinality(N) = b - a
  <2>1. /\ IsFiniteSet(N)
        /\ Cardinality(N) = IF a + 1 > b THEN 0 ELSE b - (a + 1) + 1
    BY FS_Interval
  <2> HIDE DEF N
  <2> QED
    BY <2>1
<1> QED
  BY <1>5, <1>6, FS_Bijection, Zenon

EntryOf(l) == [id |-> l.n, at |-> RecordTime(l.rec)]

LEMMA LeafType ==
  ASSUME NEW p \in Payload, NEW s \in Source, NEW l \in LeavesOf(p, s)
  PROVE  /\ l.n \in Nat \ {0} /\ RecordTime(l.rec) \in Nat /\ l.rec \in Rec
         /\ l \in p.leaf /\ l.src = s /\ l \in Leaf
         /\ EntryOf(l) \in LeafEntries(p, s)
<1>1. l \in Leaf /\ l \in p.leaf /\ l.src = s
  BY DEF LeavesOf, Payload
<1>2. l.rec \in Rec /\ l.n \in Nat \ {0}
  BY <1>1 DEF Leaf
<1>3. RecordTime(l.rec) \in Nat
  BY <1>2, RecordTimeType, InstantIsNat
<1>4. EntryOf(l) \in LeafEntries(p, s)
  BY DEF EntryOf, LeafEntries
<1> QED
  BY <1>1, <1>2, <1>3, <1>4

(* The version of a leaf says how many are newer.                          *)
LEMMA LeafRank ==
  ASSUME NEW p \in Payload, NEW s \in Source, NEW m \in Nat, History(p, s, m)
  PROVE  /\ Cardinality(LeafEntries(p, s)) = p.head[s].behind - m
         /\ \A l \in LeavesOf(p, s) :
              Cardinality({e \in LeafEntries(p, s) : NewestFirst(e, EntryOf(l))})
                = p.head[s].behind - l.n
<1> DEFINE top == p.head[s].behind
           E == LeafEntries(p, s)
<1>1. top \in Nat /\ m <= top
  BY DEF History
<1>2. \A e \in E : \E l \in LeavesOf(p, s) : e = EntryOf(l)
  BY DEF LeafEntries, EntryOf
<1>3. \A l \in LeavesOf(p, s) : /\ EntryOf(l) \in E /\ EntryOf(l).id = l.n
                                /\ EntryOf(l).at = RecordTime(l.rec)
                                /\ l.n \in Nat /\ RecordTime(l.rec) \in Nat
  BY LeafType DEF EntryOf
<1>4. \A l, k \in LeavesOf(p, s) : /\ l.n \in m + 1..top
                                   /\ l.n = k.n => l = k
                                   /\ l.n < k.n => RecordTime(l.rec) < RecordTime(k.rec)
  BY DEF History
<1>5. \A n \in m + 1..top : \E l \in LeavesOf(p, s) : l.n = n
  BY DEF History
<1> HIDE DEF top, E
<1>6. \A e, f \in E : e.id = f.id => e = f
  BY <1>2, <1>3, <1>4
<1>7. \A n \in m + 1..top : \E e \in E : e.id = n
  BY <1>3, <1>5
<1>8. \A e \in E : e.id \in m + 1..top
  BY <1>2, <1>3, <1>4
<1>9. Cardinality(E) = top - m
  BY <1>1, <1>6, <1>7, <1>8, NumberedSize
<1>10. ASSUME NEW l \in LeavesOf(p, s)
       PROVE  Cardinality({e \in E : NewestFirst(e, EntryOf(l))}) = top - l.n
  <2> DEFINE F == {e \in E : NewestFirst(e, EntryOf(l))}
  <2>1. \A e \in E : NewestFirst(e, EntryOf(l)) <=> e.id > l.n
    <3> SUFFICES ASSUME NEW k \in LeavesOf(p, s)
                 PROVE  NewestFirst(EntryOf(k), EntryOf(l)) <=> k.n > l.n
      BY <1>2, <1>3
    <3>1. NewestFirst(EntryOf(k), EntryOf(l))
            <=> \/ RecordTime(k.rec) > RecordTime(l.rec)
                \/ RecordTime(k.rec) = RecordTime(l.rec) /\ k.n < l.n
      BY <1>3 DEF NewestFirst
    <3>2. /\ k.n = l.n => k = l
          /\ k.n < l.n => RecordTime(k.rec) < RecordTime(l.rec)
          /\ l.n < k.n => RecordTime(l.rec) < RecordTime(k.rec)
      BY <1>4
    <3>3. /\ l.n \in Nat /\ RecordTime(l.rec) \in Nat
          /\ k.n \in Nat /\ RecordTime(k.rec) \in Nat
      BY <1>3
    <3> QED
      BY <3>1, <3>2, <3>3
  <2>2. l.n \in Nat /\ m < l.n /\ l.n <= top
    BY <1>1, <1>3, <1>4
  <2>3. /\ \A e \in F : e.id \in l.n + 1..top
        /\ \A e, f \in F : e.id = f.id => e = f
        /\ \A n \in l.n + 1..top : \E e \in F : e.id = n
    BY <1>1, <1>6, <1>7, <1>8, <2>1, <2>2
  <2> HIDE DEF F
  <2>4. Cardinality(F) = top - l.n
    BY <1>1, <2>2, <2>3, NumberedSize
  <2> QED
    BY <2>4 DEF F
<1> QED
  BY <1>9, <1>10 DEF top, E

(* What pool 2 takes from a chain: nothing from a short one, and from the  *)
(* others all but the last ChainKeep versions.                             *)
LEMMA ChainCut ==
  ASSUME NEW p \in Payload, NEW s \in Source, NEW m \in Nat, History(p, s, m)
  PROVE  LET top == p.head[s].behind IN
         /\ top - m < ChainThreshold =>
              /\ LeavesToAbsorb(p, s) = {}
              /\ \A l \in LeavesOf(p, s) : ~IsRewired(p, l)
         /\ top - m >= ChainThreshold =>
              /\ LeavesToAbsorb(p, s) # {}
              /\ \A l \in LeavesOf(p, s) :
                   /\ l.n \in {e.id : e \in LeavesToAbsorb(p, s)} <=> l.n <= top - ChainKeep
                   /\ IsRewired(p, l) <=> l.n = top - ChainKeep + 1
<1> DEFINE top == p.head[s].behind
           E == LeafEntries(p, s)
<1>1. top \in Nat /\ m <= top
  BY DEF History
<1>2. \A l \in LeavesOf(p, s) : /\ EntryOf(l) \in E /\ EntryOf(l).id = l.n
                                /\ l.n \in Nat /\ l.src = s
                                /\ EntryOf(l) = [id |-> l.n, at |-> RecordTime(l.rec)]
  BY LeafType DEF EntryOf
<1>3. /\ Cardinality(E) = top - m
      /\ \A l \in LeavesOf(p, s) :
           Cardinality({e \in E : NewestFirst(e, EntryOf(l))}) = top - l.n
  BY LeafRank
<1>4. \A e \in E : \E l \in LeavesOf(p, s) : e = EntryOf(l)
  BY DEF LeafEntries, EntryOf
<1>5. \A n \in m + 1..top : \E l \in LeavesOf(p, s) : l.n = n
  BY DEF History
<1>k. ChainKeep \in Nat /\ ChainKeep >= 1 /\ ChainThreshold \in Nat /\ ChainKeep < ChainThreshold
  BY BoundAssumption, ThresholdAssumption
<1>6. ASSUME top - m < ChainThreshold
      PROVE  /\ LeavesToAbsorb(p, s) = {}
             /\ \A l \in LeavesOf(p, s) : ~IsRewired(p, l)
  <2>1. LeavesToAbsorb(p, s) = {}
    BY <1>3, <1>6 DEF LeavesToAbsorb
  <2> QED
    BY <1>2, <2>1 DEF IsRewired
<1>7. ASSUME top - m >= ChainThreshold
      PROVE  /\ LeavesToAbsorb(p, s) # {}
             /\ \A l \in LeavesOf(p, s) :
                   /\ l.n \in {e.id : e \in LeavesToAbsorb(p, s)} <=> l.n <= top - ChainKeep
                   /\ IsRewired(p, l) <=> l.n = top - ChainKeep + 1
  <2>1. LeavesToAbsorb(p, s) = E \ Newest(E, ChainKeep)
    <3>1. ~(Cardinality(E) < ChainThreshold)
      BY <1>1, <1>3, <1>7, <1>k
    <3> QED
      BY <3>1 DEF LeavesToAbsorb
  <2>2. \A l \in LeavesOf(p, s) : EntryOf(l) \in LeavesToAbsorb(p, s) <=> l.n <= top - ChainKeep
    <3>1. ASSUME NEW l \in LeavesOf(p, s)
          PROVE  EntryOf(l) \in Newest(E, ChainKeep) <=> top - l.n < ChainKeep
      BY <1>2, <1>3 DEF Newest
    <3>2. \A l \in LeavesOf(p, s) : top - l.n < ChainKeep <=> ~(l.n <= top - ChainKeep)
      BY <1>1, <1>2, <1>k
    <3> HIDE DEF E
    <3> QED
      BY <1>2, <2>1, <3>1, <3>2
  <2>3. \A l \in LeavesOf(p, s) :
          l.n \in {e.id : e \in LeavesToAbsorb(p, s)} <=> l.n <= top - ChainKeep
    <3>1. ASSUME NEW l \in LeavesOf(p, s), NEW e \in LeavesToAbsorb(p, s), e.id = l.n
          PROVE  l.n <= top - ChainKeep
      <4>1. PICK k \in LeavesOf(p, s) : e = EntryOf(k)
        BY <1>4, <2>1
      <4>2. k.n = l.n
        BY <1>2, <3>1, <4>1
      <4> QED
        BY <2>2, <4>1, <4>2
    <3> QED
      BY <1>2, <2>2, <3>1
  <2>4. LeavesToAbsorb(p, s) # {}
    <3>1. m + 1 \in m + 1..top /\ m + 1 <= top - ChainKeep
      BY <1>1, <1>7, <1>k
    <3> QED
      BY <1>5, <2>2, <3>1
  <2>5. ASSUME NEW l \in LeavesOf(p, s)
        PROVE  IsRewired(p, l) <=> l.n = top - ChainKeep + 1
    <3>1. IsRewired(p, l) <=> top - l.n = ChainKeep - 1
      BY <1>2, <1>3, <2>4 DEF IsRewired
    <3> QED
      BY <1>1, <1>2, <1>k, <3>1
  <2> QED
    BY <2>3, <2>4, <2>5
<1> QED
  BY <1>6, <1>7

Rewired(p, l) ==
  IF IsRewired(p, l) THEN [l EXCEPT !.rec.behind = ChainSummary] ELSE l

LEMMA RewiredLeaf ==
  ASSUME NEW p, NEW l \in Leaf
  PROVE  /\ Rewired(p, l).src = l.src /\ Rewired(p, l).n = l.n
         /\ Rewired(p, l).rec.tags = l.rec.tags
         /\ RecordTime(Rewired(p, l).rec) = RecordTime(l.rec)
         /\ Rewired(p, l).rec.behind
              = IF IsRewired(p, l) THEN ChainSummary ELSE l.rec.behind
<1>1. CASE IsRewired(p, l)
  <2>1. Rewired(p, l) = [l EXCEPT !.rec.behind = ChainSummary]
    BY <1>1 DEF Rewired
  <2>2. /\ Rewired(p, l).src = l.src /\ Rewired(p, l).n = l.n
        /\ Rewired(p, l).rec = [l.rec EXCEPT !.behind = ChainSummary]
    BY <2>1 DEF Leaf
  <2>3. l.rec \in Rec
    BY DEF Leaf
  <2>4. /\ Rewired(p, l).rec.tags = l.rec.tags
        /\ Rewired(p, l).rec.created = l.rec.created
        /\ Rewired(p, l).rec.behind = ChainSummary
    BY <2>2, <2>3 DEF Rec
  <2> QED
    BY <1>1, <2>2, <2>4 DEF RecordTime
<1>2. CASE ~IsRewired(p, l)
  <2>1. Rewired(p, l) = l
    BY <1>2 DEF Rewired
  <2> QED
    BY <1>2, <2>1
<1> QED
  BY <1>1, <1>2

LEMMA KeptLeaves ==
  ASSUME NEW p \in Payload, NEW s \in Source
  PROVE  /\ \A k \in LeavesOf(LeavesAbsorbed(p), s) :
              \E l \in LeavesOf(p, s) : /\ k = Rewired(p, l)
                                        /\ l.n \notin {e.id : e \in LeavesToAbsorb(p, s)}
         /\ \A l \in LeavesOf(p, s) :
              l.n \notin {e.id : e \in LeavesToAbsorb(p, s)}
                => Rewired(p, l) \in LeavesOf(LeavesAbsorbed(p), s)
<1> DEFINE kept == {l \in p.leaf : l.n \notin {e.id : e \in LeavesToAbsorb(p, l.src)}}
<1>1. LeavesAbsorbed(p).leaf = {Rewired(p, l) : l \in kept}
  BY DEF LeavesAbsorbed, Payload, Rewired
<1>2. \A l \in p.leaf : Rewired(p, l).src = l.src
  BY RewiredLeaf DEF Payload
<1> QED
  BY <1>1, <1>2 DEF LeavesOf

LEMMA AbsorbedHistory ==
  ASSUME NEW p \in Payload, NEW s \in Source, NEW m \in Nat, History(p, s, m)
  PROVE  \E n \in Nat : History(LeavesAbsorbed(p), s, n)
<1> DEFINE top == p.head[s].behind
           q == LeavesAbsorbed(p)
           cutAt == IF top - m < ChainThreshold THEN m ELSE top - ChainKeep
<1>1. /\ top \in Nat /\ m <= top
      /\ m > 0 => m < top /\ p.chain[s].ids # {}
      /\ top > 0 => Latest(p.head[s].tags) > 0
  BY DEF History
<1>k. ChainKeep \in Nat /\ ChainKeep >= 1 /\ ChainThreshold \in Nat /\ ChainKeep < ChainThreshold
  BY BoundAssumption, ThresholdAssumption
<1>2. \A l \in LeavesOf(p, s) :
        /\ l.n \in m + 1..top
        /\ RecordTime(l.rec) < RecordTime(p.head[s])
        /\ l.rec.behind = IF l.n = m + 1 /\ m > 0 THEN ChainSummary ELSE l.n - 1
        /\ \A k \in LeavesOf(p, s) :
             /\ l.n = k.n => l = k
             /\ l.n < k.n => RecordTime(l.rec) < RecordTime(k.rec)
  BY DEF History
<1>3. \A n \in m + 1..top : \E l \in LeavesOf(p, s) : l.n = n
  BY DEF History
<1>4. /\ q.head = p.head
      /\ q.chain[s].ids = p.chain[s].ids \cup {e.id : e \in LeavesToAbsorb(p, s)}
  BY DEF LeavesAbsorbed, Payload
<1>5. /\ cutAt \in Nat /\ m <= cutAt /\ cutAt <= top
      /\ cutAt > 0 => cutAt < top
  BY <1>1, <1>k
<1>6. \A l \in LeavesOf(p, s) :
        /\ l.n \in {e.id : e \in LeavesToAbsorb(p, s)} <=> l.n <= cutAt
        /\ IsRewired(p, l) <=> top - m >= ChainThreshold /\ l.n = cutAt + 1
  <2>1. CASE top - m < ChainThreshold
    <3>1. \A l \in LeavesOf(p, s) : ~(l.n <= m)
      BY <1>1, <1>2
    <3> QED
      BY <1>1, <1>k, <2>1, <3>1, ChainCut
  <2>2. CASE top - m >= ChainThreshold
    BY <1>1, <1>k, <2>2, ChainCut
  <2> QED
    BY <1>1, <1>k, <2>1, <2>2
<1>7. cutAt > 0 => q.chain[s].ids # {}
  <2>1. CASE top - m < ChainThreshold
    BY <1>1, <1>4, <2>1
  <2>2. CASE top - m >= ChainThreshold
    BY <1>4, <2>2, ChainCut
  <2> QED
    BY <1>1, <1>k, <2>1, <2>2
<1>8. \A l \in LeavesOf(p, s) : /\ Rewired(p, l).n = l.n
                                /\ RecordTime(Rewired(p, l).rec) = RecordTime(l.rec)
                                /\ Rewired(p, l).rec.behind
                                     = IF IsRewired(p, l) THEN ChainSummary ELSE l.rec.behind
                                /\ l.n \in Nat
  BY LeafType, RewiredLeaf
<1> HIDE DEF top, q
<1>9. ASSUME NEW k \in LeavesOf(q, s)
      PROVE  /\ k.n \in cutAt + 1..top
             /\ RecordTime(k.rec) < RecordTime(q.head[s])
             /\ k.rec.behind = IF k.n = cutAt + 1 /\ cutAt > 0 THEN ChainSummary ELSE k.n - 1
             /\ \A j \in LeavesOf(q, s) :
                  /\ k.n = j.n => k = j
                  /\ k.n < j.n => RecordTime(k.rec) < RecordTime(j.rec)
  <2>1. PICK l \in LeavesOf(p, s) : k = Rewired(p, l) /\ ~(l.n <= cutAt)
    BY <1>6, KeptLeaves DEF q
  <2>2. l.n \in cutAt + 1..top
    <3> HIDE DEF cutAt
    <3> QED
      BY <1>1, <1>2, <1>5, <1>8, <2>1
  <2>3. RecordTime(k.rec) < RecordTime(q.head[s])
    BY <1>2, <1>4, <1>8, <2>1
  <2>4. k.rec.behind = IF k.n = cutAt + 1 /\ cutAt > 0 THEN ChainSummary ELSE k.n - 1
    <3>1. k.n = l.n /\ l.rec.behind = IF l.n = m + 1 /\ m > 0 THEN ChainSummary ELSE l.n - 1
      BY <1>2, <1>8, <2>1
    <3>2. k.rec.behind = IF top - m >= ChainThreshold /\ l.n = cutAt + 1
                         THEN ChainSummary ELSE l.rec.behind
      BY <1>6, <1>8, <2>1
    <3>3. top - m >= ChainThreshold => cutAt > 0 /\ cutAt > m
      BY <1>1, <1>k
    <3>4. ~(top - m >= ChainThreshold) => cutAt = m
      BY <1>1, <1>k
    <3> HIDE DEF cutAt
    <3> QED
      BY <1>1, <1>5, <2>2, <3>1, <3>2, <3>3, <3>4
  <2>5. ASSUME NEW j \in LeavesOf(q, s)
        PROVE  /\ k.n = j.n => k = j
               /\ k.n < j.n => RecordTime(k.rec) < RecordTime(j.rec)
    <3>1. PICK i \in LeavesOf(p, s) : j = Rewired(p, i)
      BY KeptLeaves DEF q
    <3> QED
      BY <1>2, <1>8, <2>1, <3>1
  <2>6. k.n \in cutAt + 1..top
    BY <1>8, <2>1, <2>2
  <2> QED
    BY <2>3, <2>4, <2>5, <2>6
<1>10. ASSUME NEW n \in cutAt + 1..top PROVE \E k \in LeavesOf(q, s) : k.n = n
  <2>1. n \in m + 1..top /\ ~(n <= cutAt)
    <3> HIDE DEF cutAt
    <3> QED
      BY <1>1, <1>5
  <2>2. PICK l \in LeavesOf(p, s) : l.n = n
    BY <1>3, <2>1
  <2>3. Rewired(p, l) \in LeavesOf(q, s)
    BY <1>6, <2>1, <2>2, KeptLeaves DEF q
  <2> QED
    BY <1>8, <2>2, <2>3
<1> HIDE DEF cutAt
<1>11. History(q, s, cutAt)
  <2>1. q.head[s].behind = top /\ q.head[s] = p.head[s]
    BY <1>4 DEF top
  <2> QED
    BY <1>1, <1>5, <1>7, <1>9, <1>10, <2>1 DEF History
<1> QED
  BY <1>5, <1>11 DEF q

LEMMA CompactedChained ==
  ASSUME NEW p \in Payload, Chained(p)
  PROVE  Chained(Compacted(p))
<1> DEFINE gone == {e.id : e \in UNION {HeadsToAbsorb(p, t) : t \in Type}}
           h == HeadsAbsorbed(p)
<1>1. \A s \in Source :
        /\ h.head[s] = IF s \in gone THEN NoRec ELSE p.head[s]
        /\ LeavesOf(h, s) = IF s \in gone THEN {} ELSE LeavesOf(p, s)
        /\ h.chain[s].ids = IF s \in gone THEN {} ELSE p.chain[s].ids
  BY DEF HeadsAbsorbed, Payload, LeavesOf
<1>2. h \in Payload
  BY HeadsAbsorbedType
<1> HIDE DEF gone, h
<1>3. ASSUME NEW s \in Source PROVE \E m \in Nat : History(h, s, m)
  <2>1. CASE s \in gone
    <3>1. h.head[s].behind = 0 /\ LeavesOf(h, s) = {}
      BY <1>1, <2>1 DEF NoRec
    <3>2. History(h, s, 0)
      BY <3>1 DEF History
    <3> QED
      BY <3>2
  <2>2. CASE s \notin gone
    <3>1. PICK m \in Nat : History(p, s, m)
      BY DEF Chained
    <3>2. History(h, s, m)
      BY <1>1, <2>2, <3>1 DEF History
    <3> QED
      BY <3>2
  <2> QED
    BY <2>1, <2>2
<1> QED
  BY <1>2, <1>3, AbsorbedHistory DEF Chained, Compacted, h

-----------------------------------------------------------------------------
(* A write.                                                                *)

LEMMA TimedRecord ==
  ASSUME NEW rec, Latest(rec.tags) > 0
  PROVE  RecordTime(rec) = Latest(rec.tags)
BY DEF RecordTime, AssertedAt

(* The head a superseding assertion demotes gets the next version; any     *)
(* other assertion leaves the chain, and the time of a head that has one.  *)
LEMMA AssertedHistory ==
  ASSUME NEW p \in Payload, NEW s \in Source, NEW m \in Nat, History(p, s, m),
         NEW tags \in SUBSET Instant, NEW now \in Instant
  PROVE  History(Asserted(p, s, tags, FALSE, now), s, m)
<1> DEFINE rec == p.head[s]
           top == rec.behind
           a == Asserted(p, s, tags, FALSE, now)
           new == Planned(rec, tags, FALSE, now)
<1>1. /\ top \in Nat /\ m <= top
      /\ m > 0 => m < top /\ p.chain[s].ids # {}
      /\ top > 0 => Latest(rec.tags) > 0
  BY DEF History
<1>2. \A l \in LeavesOf(p, s) :
        /\ l.n \in m + 1..top
        /\ RecordTime(l.rec) < RecordTime(rec)
        /\ l.rec.behind = IF l.n = m + 1 /\ m > 0 THEN ChainSummary ELSE l.n - 1
        /\ \A k \in LeavesOf(p, s) :
             /\ l.n = k.n => l = k
             /\ l.n < k.n => RecordTime(l.rec) < RecordTime(k.rec)
  BY DEF History
<1>3. \A n \in m + 1..top : \E l \in LeavesOf(p, s) : l.n = n
  BY DEF History
<1>4. a.head[s] = new /\ a.chain = p.chain /\ a.leaf = Demoted(p, s, tags, FALSE)
  BY DEF Asserted, Payload
<1>5. /\ rec \in Rec /\ rec.tags \in SUBSET Instant
      /\ Latest(rec.tags) \in Nat /\ Latest(tags) \in Nat
      /\ RecordTime(rec) \in Nat
  BY LatestIsGreatest, InstantIsNat, RecordTimeType DEF Payload, Rec
<1>6. \A l \in LeavesOf(p, s) : l.n \in Nat /\ RecordTime(l.rec) \in Nat
  BY LeafType
<1>7. ~Held(rec) => Latest(rec.tags) = 0
  BY <1>5, LatestIsGreatest DEF Held
<1>8. CASE Held(rec) /\ SupersedesPrior(tags, FALSE, rec)
  <2> DEFINE demoted == [src |-> s, n |-> top + 1, rec |-> rec]
  <2>1. NextChainVersion(rec) = top + 1
    BY <1>1 DEF NextChainVersion
  <2>2. /\ new.tags = tags /\ new.behind = top + 1
    BY <1>8, <2>1 DEF Planned
  <2>3. Latest(rec.tags) > 0 /\ Latest(tags) > Latest(rec.tags)
    BY <1>8 DEF SupersedesPrior
  <2>4. RecordTime(rec) = Latest(rec.tags) /\ RecordTime(new) = Latest(tags)
    <3>1. Latest(tags) > 0
      BY <1>5, <2>3
    <3> HIDE DEF new
    <3>2. Latest(new.tags) = Latest(tags)
      BY <2>2
    <3> HIDE DEF rec
    <3> QED
      BY <2>3, <3>1, <3>2, TimedRecord
  <2>5. a.leaf = {l \in p.leaf : ~(l.src = s /\ l.n = top + 1)} \cup {demoted}
    BY <1>4, <1>8, <2>1 DEF Demoted
  <2>6. LeavesOf(a, s) = LeavesOf(p, s) \cup {demoted}
    <3>1. \A l \in LeavesOf(p, s) : l.n # top + 1
      BY <1>1, <1>2, <1>6
    <3> HIDE DEF a
    <3> QED
      BY <2>5, <3>1 DEF LeavesOf
  <2>7. /\ demoted.n = top + 1 /\ demoted.rec = rec
    OBVIOUS
  <2> HIDE DEF a, new, top, rec, demoted
  <2>8. ASSUME NEW l \in LeavesOf(a, s)
        PROVE  /\ l.n \in m + 1..top + 1
               /\ RecordTime(l.rec) < RecordTime(new)
               /\ l.rec.behind = IF l.n = m + 1 /\ m > 0 THEN ChainSummary ELSE l.n - 1
               /\ \A k \in LeavesOf(a, s) :
                    /\ l.n = k.n => l = k
                    /\ l.n < k.n => RecordTime(l.rec) < RecordTime(k.rec)
    <3>1. CASE l \in LeavesOf(p, s)
      <4>1. /\ l.n \in m + 1..top + 1
            /\ RecordTime(l.rec) < RecordTime(new)
        BY <1>1, <1>2, <1>5, <1>6, <2>3, <2>4, <3>1
      <4>2. ASSUME NEW k \in LeavesOf(a, s)
            PROVE  /\ l.n = k.n => l = k
                   /\ l.n < k.n => RecordTime(l.rec) < RecordTime(k.rec)
        <5>1. CASE k \in LeavesOf(p, s)
          BY <1>2, <3>1, <5>1
        <5>2. CASE k = demoted
          BY <1>1, <1>2, <1>6, <2>7, <3>1, <5>2
        <5> QED
          BY <2>6, <5>1, <5>2
      <4> QED
        BY <1>2, <3>1, <4>1, <4>2
    <3>2. CASE l = demoted
      <4>1. /\ l.n \in m + 1..top + 1
            /\ RecordTime(l.rec) < RecordTime(new)
        BY <1>1, <1>5, <2>3, <2>4, <2>7, <3>2
      <4>2. l.rec.behind = top
        BY <2>7, <3>2 DEF top
      <4>3. l.rec.behind = IF l.n = m + 1 /\ m > 0 THEN ChainSummary ELSE l.n - 1
        BY <1>1, <2>7, <3>2, <4>2
      <4>4. ASSUME NEW k \in LeavesOf(a, s)
            PROVE  /\ l.n = k.n => l = k
                   /\ l.n < k.n => RecordTime(l.rec) < RecordTime(k.rec)
        <5>1. CASE k \in LeavesOf(p, s)
          BY <1>1, <1>2, <1>6, <2>7, <3>2, <5>1
        <5>2. CASE k = demoted
          BY <1>1, <2>7, <3>2, <5>2
        <5> QED
          BY <2>6, <5>1, <5>2
      <4> QED
        BY <4>1, <4>3, <4>4
    <3> QED
      BY <2>6, <3>1, <3>2
  <2>9. ASSUME NEW n \in m + 1..top + 1 PROVE \E l \in LeavesOf(a, s) : l.n = n
    <3>1. CASE n = top + 1
      BY <2>6, <2>7, <3>1
    <3>2. CASE n # top + 1
      <4>1. n \in m + 1..top
        BY <1>1, <3>2
      <4> QED
        BY <1>3, <2>6, <4>1
    <3> QED
      BY <3>1, <3>2
  <2>10. /\ a.head[s].behind = top + 1 /\ Latest(a.head[s].tags) > 0
         /\ a.chain[s].ids = p.chain[s].ids
    BY <1>4, <1>5, <2>2, <2>3
  <2>11. top + 1 \in Nat /\ m <= top + 1 /\ (m > 0 => m < top + 1)
    BY <1>1
  <2>12. History(a, s, m)
    BY <1>1, <1>4, <2>8, <2>9, <2>10, <2>11 DEF History
  <2> QED
    BY <2>12 DEF a
<1>9. CASE ~(Held(rec) /\ SupersedesPrior(tags, FALSE, rec))
  <2>1. LeavesOf(a, s) = LeavesOf(p, s)
    BY <1>4, <1>9 DEF Demoted, LeavesOf
  <2>2. CASE ~Held(rec)
    <3>1. top = 0
      BY <1>1, <1>7, <2>2
    <3>2. new.behind = 0
      BY <2>2 DEF Planned
    <3>3. LeavesOf(p, s) = {} /\ m = 0
      BY <1>1, <1>2, <1>6, <3>1
    <3> HIDE DEF a, new
    <3>4. History(a, s, m)
      BY <1>4, <2>1, <3>2, <3>3 DEF History
    <3> QED
      BY <3>4 DEF a
  <2>3. CASE Held(rec)
    <3>1. new = [rec EXCEPT !.tags = @ \cup tags, !.obs = @ \/ FALSE]
      BY <1>9, <2>3 DEF Planned
    <3>2. /\ new.tags = rec.tags \cup tags /\ new.behind = top
          /\ new.created = rec.created
      BY <1>5, <3>1 DEF Rec
    <3>3. Latest(new.tags) = LaterOf(Latest(rec.tags), Latest(tags))
      BY <1>5, <3>2, LatestOfUnion
    <3>4. Latest(rec.tags) > 0 => Latest(tags) <= Latest(rec.tags)
      BY <1>5, <1>9, <2>3 DEF SupersedesPrior
    <3> HIDE DEF a, new, rec
    <3>5. Latest(rec.tags) > 0 => Latest(new.tags) = Latest(rec.tags)
      BY <1>5, <3>3, <3>4 DEF LaterOf
    <3>6. top > 0 => /\ Latest(new.tags) > 0
                     /\ RecordTime(new) = RecordTime(rec)
      BY <1>1, <3>5, TimedRecord
    <3>7. \A l \in LeavesOf(p, s) : RecordTime(l.rec) < RecordTime(new)
      <4>1. ASSUME NEW l \in LeavesOf(p, s) PROVE top > 0
        BY <1>1, <1>2, <1>6
      <4> QED
        BY <1>2, <3>6, <4>1
    <3>8. a.head[s].behind = top /\ a.chain[s] = p.chain[s] /\ top = rec.behind
      BY <1>4, <3>2
    <3> HIDE DEF top
    <3>9. History(a, s, m)
      BY <1>1, <1>2, <1>3, <1>4, <2>1, <3>6, <3>7, <3>8 DEF History
    <3> QED
      BY <3>9 DEF a
  <2> QED
    BY <2>2, <2>3
<1> QED
  BY <1>8, <1>9

LEMMA AppendedChained ==
  ASSUME NEW p \in Payload, Plain(p), Chained(p), NEW s \in Source,
         NEW tags \in SUBSET Instant, NEW now \in Instant
  PROVE  Chained(Appended(p, s, tags, FALSE, now))
<1> DEFINE a == Asserted(p, s, tags, FALSE, now)
<1>1. a \in Payload
  BY AssertedType
<1>2. ASSUME NEW x \in Source PROVE \E m \in Nat : History(a, x, m)
  <2>1. PICK m \in Nat : History(p, x, m)
    BY DEF Chained
  <2>2. CASE x = s
    BY <2>1, <2>2, AssertedHistory
  <2>3. CASE x # s
    <3>1. LeavesOf(a, x) = LeavesOf(p, x) /\ a.chain = p.chain
      <4>1. a.leaf = Demoted(p, s, tags, FALSE) /\ a.chain = p.chain
        BY DEF Asserted, Payload
      <4> HIDE DEF a
      <4>2. \A l \in a.leaf : l.src = x => l \in p.leaf
        <5> DEFINE demoted == [src |-> s, n |-> NextChainVersion(p.head[s]),
                               rec |-> p.head[s]]
        <5>1. a.leaf \subseteq p.leaf \cup {demoted}
          BY <4>1 DEF Demoted
        <5>2. demoted.src # x
          BY <2>3
        <5> HIDE DEF demoted
        <5> QED
          BY <5>1, <5>2
      <4>3. \A l \in p.leaf : l.src = x => l \in a.leaf
        BY <2>3, <4>1 DEF Demoted
      <4> QED
        BY <4>1, <4>2, <4>3 DEF LeavesOf
    <3>2. CASE x = NoSource
      <4>1. a.head[x] = NoRec
        BY <2>3, <3>2 DEF Asserted, Payload
      <4>2. p.head[x].tags \subseteq {0}
        BY <3>2, SourceAssumption DEF Plain
      <4>3. ~(Latest(p.head[x].tags) > 0)
        <5>1. p.head[x].tags \in SUBSET Instant
          BY DEF Payload, Rec
        <5> QED
          BY <4>2, <5>1, LatestIsGreatest
      <4>4. p.head[x].behind = 0 /\ m = 0
        BY <2>1, <4>3 DEF History
      <4>5. LeavesOf(p, x) = {}
        BY <2>1, <4>4 DEF History
      <4> HIDE DEF a
      <4>6. History(a, x, 0)
        BY <3>1, <4>1, <4>5 DEF History, NoRec
      <4> QED
        BY <4>6
    <3>3. CASE x # NoSource
      <4>1. a.head[x] = p.head[x]
        BY <2>3, <3>3 DEF Asserted, Payload
      <4> HIDE DEF a
      <4> QED
        BY <2>1, <3>1, <4>1 DEF History
    <3> QED
      BY <3>2, <3>3
  <2> QED
    BY <2>2, <2>3
<1> HIDE DEF a
<1>3. Chained(a)
  BY <1>2 DEF Chained
<1> QED
  BY <1>1, <1>3, CompactedChained DEF Appended, a

(* The leaves a write leaves: those that stood, and one of a new version.  *)
LEMMA AppendedLeaves ==
  ASSUME NEW p \in Payload, Chained(p), NEW s \in Source,
         NEW tags \in SUBSET Instant, NEW now \in Instant
  PROVE  \A l \in p.leaf, k \in Appended(p, s, tags, FALSE, now).leaf :
           l.src = k.src /\ l.n = k.n => l.rec.tags = k.rec.tags
<1> DEFINE a == Asserted(p, s, tags, FALSE, now)
           demoted == [src |-> s, n |-> NextChainVersion(p.head[s]), rec |-> p.head[s]]
<1>1. ASSUME NEW q \in Payload, NEW k \in Compacted(q).leaf
      PROVE  \E l \in q.leaf : /\ l.src = k.src /\ l.n = k.n
                               /\ l.rec.tags = k.rec.tags
  <2> DEFINE h == HeadsAbsorbed(q)
  <2>1. h \in Payload /\ h.leaf \subseteq q.leaf
    BY HeadsAbsorbedType DEF HeadsAbsorbed, Payload
  <2>2. k \in LeavesAbsorbed(h).leaf /\ k.src \in Source
    BY <1>1, CompactedType DEF Compacted, Payload, Leaf
  <2>3. k \in LeavesOf(LeavesAbsorbed(h), k.src)
    BY <2>2 DEF LeavesOf
  <2> HIDE DEF h
  <2>4. PICK l \in LeavesOf(h, k.src) : k = Rewired(h, l)
    BY <2>1, <2>2, <2>3, KeptLeaves
  <2>5. l \in q.leaf /\ l \in Leaf
    BY <2>1, <2>4, LeafType, <2>2
  <2>6. /\ Rewired(h, l).src = l.src /\ Rewired(h, l).n = l.n
        /\ Rewired(h, l).rec.tags = l.rec.tags
    BY <2>5, RewiredLeaf
  <2> QED
    BY <2>4, <2>5, <2>6
<1>2. ASSUME NEW l \in p.leaf, NEW j \in p.leaf, l.src = j.src, l.n = j.n PROVE l = j
  <2>1. l.src \in Source
    BY DEF Payload, Leaf
  <2>2. l \in LeavesOf(p, l.src) /\ j \in LeavesOf(p, l.src)
    BY <1>2 DEF LeavesOf
  <2>3. PICK m \in Nat : History(p, l.src, m)
    BY <2>1 DEF Chained
  <2> QED
    BY <1>2, <2>2, <2>3 DEF History
<1>3. ASSUME NEW l \in p.leaf, l.src = s PROVE l.n # NextChainVersion(p.head[s])
  <2>1. l \in LeavesOf(p, s)
    BY <1>3 DEF LeavesOf
  <2>2. PICK m \in Nat : History(p, s, m)
    BY DEF Chained
  <2>3. l.n \in m + 1..p.head[s].behind /\ p.head[s].behind \in Nat /\ l.n \in Nat
    BY <2>1, <2>2, LeafType DEF History
  <2> QED
    BY <2>3 DEF NextChainVersion
<1>4. a \in Payload /\ a.leaf \subseteq p.leaf \cup {demoted}
  <2>1. a.leaf = Demoted(p, s, tags, FALSE)
    BY DEF Asserted, Payload
  <2>2. Demoted(p, s, tags, FALSE) \subseteq p.leaf \cup {demoted}
    BY DEF Demoted
  <2> QED
    BY <2>1, <2>2, AssertedType
<1>5. demoted.src = s /\ demoted.n = NextChainVersion(p.head[s])
  OBVIOUS
<1> HIDE DEF a, demoted
<1>6. \A l \in p.leaf, j \in p.leaf \cup {demoted} : l.src = j.src /\ l.n = j.n => l = j
  BY <1>2, <1>3, <1>5
<1>7. ASSUME NEW k \in Appended(p, s, tags, FALSE, now).leaf
      PROVE  \E j \in p.leaf \cup {demoted} : /\ j.src = k.src /\ j.n = k.n
                                             /\ j.rec.tags = k.rec.tags
  BY <1>1, <1>4, <1>7 DEF Appended, a
<1>8. ASSUME NEW l \in p.leaf, NEW k \in Appended(p, s, tags, FALSE, now).leaf,
             l.src = k.src, l.n = k.n
      PROVE  l.rec.tags = k.rec.tags
  <2>1. PICK j \in p.leaf \cup {demoted} : /\ j.src = k.src /\ j.n = k.n
                                           /\ j.rec.tags = k.rec.tags
    BY <1>7
  <2>2. l = j
    BY <1>6, <1>8, <2>1
  <2> QED
    BY <2>1, <2>2
<1> QED
  BY <1>8

-----------------------------------------------------------------------------
(* Every step.                                                             *)

Histories == removals = 0 => \A r \in Store : Chained(payload[r])

HistoryInvariant == TypeOK /\ Votes /\ AllPlain /\ Histories

(* While nothing was removed a step is a write, or leaves every payload.   *)
LEMMA UnremovedStep ==
  ASSUME TypeOK, Votes, AllPlain, Witnesses = {}, Next, removals = 0, removals' = 0
  PROVE  \/ UNCHANGED payload
         \/ \E r \in Store, s \in Source, tags \in SUBSET Instant :
              payload' = [payload EXCEPT ![r] = Appended(@, s, tags, FALSE, Now(r))]
<1>1. CASE Tick
  BY <1>1 DEF Tick
<1>2. ASSUME NEW r \in Store, NEW s \in Source, NEW obs \in BOOLEAN,
             obs => s \in Witnesses, Say(r, s, obs)
      PROVE  \E x \in Store, y \in Source, tags \in SUBSET Instant :
               payload' = [payload EXCEPT ![x] = Appended(@, y, tags, FALSE, Now(x))]
  <2> DEFINE at == IF s \in Stamped THEN Now(r) ELSE 0
  <2>1. {at} \in SUBSET Instant /\ obs = FALSE
    BY <1>2, NowType, InstantIsNat
  <2>2. payload' = [payload EXCEPT ![r] = Appended(@, s, {at}, FALSE, Now(r))]
    BY <1>2, <2>1 DEF Say, Write
  <2> HIDE DEF at
  <2> QED
    BY <2>1, <2>2
<1>3. ASSUME NEW r \in Store, NEW m \in Sendable, Deliver(r, m)
      PROVE  \E x \in Store, y \in Source, tags \in SUBSET Instant :
               payload' = [payload EXCEPT ![x] = Appended(@, y, tags, FALSE, Now(x))]
  <2>1. m.src \in Source /\ m.tags \in SUBSET Instant /\ m.obs \in BOOLEAN
    BY SendableType DEF Message
  <2>2. m.obs = FALSE
    BY <2>1, SendablePlain DEF PlainMessage
  <2>3. payload' = [payload EXCEPT ![r] = Appended(@, m.src, m.tags, FALSE, Now(r))]
    BY <1>3, <2>2 DEF Deliver, Write
  <2> QED
    BY <2>1, <2>3
<1>4. ASSUME NEW r \in Store, NEW q \in Store, NEW s \in Source PROVE ~DeliverRetraction(r, q, s)
  BY DEF DeliverRetraction, Votes, Untouched
<1>5. ASSUME NEW r \in Store, NEW q \in Store, NEW t \in Type
      PROVE  ~DeliverRollupRetraction(r, q, t)
  BY DEF DeliverRollupRetraction, Votes, Untouched
<1>6. (\A r \in Store : ~RemoveGroup(r)) /\ (\A r \in Store, s \in Source : ~RemoveRecord(r, s))
  BY DEF RemoveGroup, RemoveRecord
<1> QED
  BY <1>1, <1>2, <1>3, <1>4, <1>5, <1>6 DEF Next

(* Removals are counted.                                                   *)
LEMMA RemovalsGrow ==
  ASSUME TypeOK, [Next]_vars, removals' = 0
  PROVE  removals = 0
<1>1. removals' = removals \/ removals' = removals + 1
  <2>1. ASSUME NEW r \in Store, RemoveGroup(r) PROVE removals' = removals + 1
    BY <2>1 DEF RemoveGroup
  <2>2. ASSUME NEW r \in Store, NEW s \in Source, RemoveRecord(r, s)
        PROVE  removals' = removals + 1
    BY <2>2 DEF RemoveRecord
  <2>3. ASSUME NEW r \in Store, NEW m \in Sendable, Deliver(r, m)
        PROVE  removals' = removals
    BY <2>3 DEF Deliver
  <2>4. ASSUME NEW r \in Store, NEW s \in Source, NEW obs \in BOOLEAN, Say(r, s, obs)
        PROVE  removals' = removals
    BY <2>4 DEF Say
  <2>5. ASSUME NEW r \in Store, NEW q \in Store, NEW s \in Source,
               DeliverRetraction(r, q, s)
        PROVE  removals' = removals
    BY <2>5 DEF DeliverRetraction
  <2>6. ASSUME NEW r \in Store, NEW q \in Store, NEW t \in Type,
               DeliverRollupRetraction(r, q, t)
        PROVE  removals' = removals
    BY <2>6 DEF DeliverRollupRetraction
  <2> QED
    BY <2>1, <2>2, <2>3, <2>4, <2>5, <2>6 DEF Next, Tick, vars
<1> QED
  BY <1>1 DEF TypeOK

LEMMA HistoriesNext ==
  ASSUME Witnesses = {}, TypeOK, Votes, AllPlain, Histories, [Next]_vars
  PROVE  Histories'
<1> SUFFICES ASSUME removals' = 0 PROVE \A r \in Store : Chained(payload'[r])
  BY DEF Histories
<1>1. /\ removals = 0 /\ payload \in [Store -> Payload]
      /\ \A r \in Store : Chained(payload[r]) /\ Plain(payload[r])
  BY RemovalsGrow DEF Histories, TypeOK, AllPlain
<1>2. CASE UNCHANGED payload
  BY <1>1, <1>2
<1>3. ASSUME NEW r \in Store, NEW s \in Source, NEW tags \in SUBSET Instant,
             payload' = [payload EXCEPT ![r] = Appended(@, s, tags, FALSE, Now(r))]
      PROVE  \A x \in Store : Chained(payload'[x])
  <2>1. Chained(Appended(payload[r], s, tags, FALSE, Now(r)))
    BY <1>1, NowType, AppendedChained
  <2> QED
    BY <1>1, <1>3, <2>1
<1> QED
  BY <1>1, <1>2, <1>3, UnremovedStep DEF vars

LEMMA HistoryAlways ==
  ASSUME Witnesses = {}
  PROVE  Spec => []HistoryInvariant
<1>1. Init => Votes
  BY VotesInit
<1>2. Init => AllPlain
  BY DEF Init, AllPlain, Plain, EmptyPayload, NoRec
<1>3. Init => Histories
  <2>1. ASSUME NEW s \in Source PROVE History(EmptyPayload, s, 0)
    BY DEF History, EmptyPayload, NoRec, LeavesOf
  <2> QED
    BY <2>1 DEF Init, Histories, Chained
<1>4. HistoryInvariant /\ [Next]_vars => HistoryInvariant'
  BY TypeNext, VotesNext, PlainNext, HistoriesNext DEF HistoryInvariant
<1> QED
  BY <1>1, <1>2, <1>3, <1>4, TypeInit, PTL DEF Spec, HistoryInvariant

(* For every set of sources and stores, every threshold of either          *)
(* compaction and every order of delivery: until something is removed, and *)
(* when no two assertions of one instant differ by an observation, each    *)
(* source's chain can be walked from its head to its first version or to   *)
(* the summary of the older ones, and version numbers follow the instants. *)
THEOREM ChainIsHistory ==
  ASSUME Witnesses = {}
  PROVE  Spec => [](removals = 0 => ChainIsAHistory)
<1>1. ASSUME HistoryInvariant, removals = 0 PROVE ChainIsAHistory
  <2>1. ASSUME NEW r \in Store, NEW s \in Source
        PROVE  LET p == payload[r] IN
               /\ Held(p.head[s]) => Linked(p, s, p.head[s].behind)
               /\ \A l \in LeavesOf(p, s) :
                 /\ Linked(p, s, l.rec.behind)
                 /\ \A k \in LeavesOf(p, s) :
                      l.n < k.n => RecordTime(l.rec) <= RecordTime(k.rec)
                 /\ Held(p.head[s]) => RecordTime(l.rec) <= RecordTime(p.head[s])
    <3> DEFINE p == payload[r]
    <3>1. p \in Payload
      BY <1>1 DEF HistoryInvariant, TypeOK
    <3>2. PICK m \in Nat : History(p, s, m)
      BY <1>1 DEF HistoryInvariant, Histories, Chained
    <3>3. \A l \in LeavesOf(p, s) : l.n \in Nat \ {0} /\ RecordTime(l.rec) \in Nat
      BY <3>1, LeafType
    <3>4. RecordTime(p.head[s]) \in Nat
      BY <3>1, RecordTimeType, InstantIsNat DEF Payload
    <3> HIDE DEF p
    <3>5. Linked(p, s, p.head[s].behind)
      BY <3>2 DEF Linked, History
    <3>6. ASSUME NEW l \in LeavesOf(p, s) PROVE Linked(p, s, l.rec.behind)
      <4>1. /\ l.n \in m + 1..p.head[s].behind /\ p.head[s].behind \in Nat
            /\ l.rec.behind = IF l.n = m + 1 /\ m > 0 THEN ChainSummary ELSE l.n - 1
            /\ m > 0 => p.chain[s].ids # {}
            /\ \A n \in m + 1..p.head[s].behind : \E k \in LeavesOf(p, s) : k.n = n
        BY <3>2 DEF History
      <4>2. CASE l.n = m + 1
        BY <3>3, <4>1, <4>2 DEF Linked
      <4>3. CASE l.n # m + 1
        <5>1. l.n - 1 \in m + 1..p.head[s].behind
          BY <3>3, <4>1, <4>3
        <5> QED
          BY <4>1, <4>3, <5>1 DEF Linked
      <4> QED
        BY <4>2, <4>3
    <3>7. ASSUME NEW l \in LeavesOf(p, s)
          PROVE  /\ \A k \in LeavesOf(p, s) :
                      l.n < k.n => RecordTime(l.rec) <= RecordTime(k.rec)
                 /\ RecordTime(l.rec) <= RecordTime(p.head[s])
      BY <3>2, <3>3, <3>4 DEF History
    <3> QED
      BY <3>5, <3>6, <3>7 DEF p
  <2> QED
    BY <2>1 DEF ChainIsAHistory
<1> QED
  BY <1>1, HistoryAlways, PTL

(* Under the same conditions no demoted record is ever overwritten:        *)
(* compaction rewires and absorbs leaves, and a demotion takes a version   *)
(* number no leaf has.                                                     *)
THEOREM LeavesAreKept ==
  ASSUME Witnesses = {}
  PROVE  Spec /\ [](removals = 0) => LeafNeverRewritten
<1> DEFINE Unwritten == \A r \in Store :
             \A l \in payload[r].leaf, k \in payload'[r].leaf :
               (l.src = k.src /\ l.n = k.n) => l.rec.tags = k.rec.tags
<1>1. ASSUME HistoryInvariant, removals = 0, (removals = 0)', Next PROVE Unwritten
  <2>1. /\ payload \in [Store -> Payload]
        /\ \A r \in Store : Chained(payload[r]) /\ Plain(payload[r])
    BY <1>1 DEF HistoryInvariant, Histories, TypeOK, AllPlain
  <2>2. \A r \in Store : \A l, k \in payload[r].leaf :
          (l.src = k.src /\ l.n = k.n) => l.rec.tags = k.rec.tags
    <3> SUFFICES ASSUME NEW r \in Store, NEW l \in payload[r].leaf, NEW k \in payload[r].leaf,
                        l.src = k.src, l.n = k.n
                 PROVE  l = k
      BY Zenon
    <3>1. l.src \in Source
      BY <2>1 DEF Payload, Leaf
    <3>2. l \in LeavesOf(payload[r], l.src) /\ k \in LeavesOf(payload[r], l.src)
      BY DEF LeavesOf
    <3>3. PICK m \in Nat : History(payload[r], l.src, m)
      BY <2>1, <3>1 DEF Chained
    <3> QED
      BY <3>2, <3>3 DEF History
  <2>3. CASE UNCHANGED payload
    BY <2>2, <2>3
  <2>4. ASSUME NEW r \in Store, NEW s \in Source, NEW tags \in SUBSET Instant,
               payload' = [payload EXCEPT ![r] = Appended(@, s, tags, FALSE, Now(r))]
        PROVE  Unwritten
    <3>1. \A l \in payload[r].leaf, k \in payload'[r].leaf :
            l.src = k.src /\ l.n = k.n => l.rec.tags = k.rec.tags
      <4>1. Now(r) \in Instant
        BY <1>1, NowType DEF HistoryInvariant
      <4>2. payload'[r] = Appended(payload[r], s, tags, FALSE, Now(r))
        BY <2>1, <2>4
      <4>3. payload[r] \in Payload /\ Chained(payload[r])
        BY <2>1
      <4>4. \A l \in payload[r].leaf, k \in Appended(payload[r], s, tags, FALSE, Now(r)).leaf :
              l.src = k.src /\ l.n = k.n => l.rec.tags = k.rec.tags
        BY <4>1, <4>3, AppendedLeaves
      <4> QED
        BY <4>2, <4>4, Zenon
    <3>2. \A x \in Store \ {r} : payload'[x] = payload[x]
      BY <2>1, <2>4
    <3> QED
      BY <2>2, <3>1, <3>2
  <2> QED
    BY <1>1, <2>3, <2>4, UnremovedStep DEF HistoryInvariant
<1> HIDE DEF Unwritten
<1>2. HistoryInvariant /\ removals = 0 /\ (removals = 0)' /\ [Next]_vars => [Unwritten]_vars
  BY <1>1
<1>3. Spec /\ [](removals = 0) => [][Unwritten]_vars
  BY <1>2, HistoryAlways, PTL DEF Spec
<1> QED
  BY <1>3 DEF LeafNeverRewritten, Unwritten

-----------------------------------------------------------------------------
(* Without head summaries, and with clocks that agree.                     *)

(* A group with fewer sources than the threshold never compacts its heads. *)
NoHeadSummary == IsFiniteSet(Source) /\ Cardinality(Source) < HeadThreshold

ClocksAgree == \A r \in Store : Lag[r] = 0

-----------------------------------------------------------------------------
(* The invariant.                                                          *)

(* The source has left something besides its head.                         *)
Trace(p, s) == LeavesOf(p, s) # {} \/ p.chain[s].ids # {}

(* What payload p has of source s, once H was heard of it and c is its     *)
(* latest retraction: the tombstone is of that retraction and names the    *)
(* head, if there is one; the head is the newest of H after c.             *)
Cell(p, s, H, c) ==
  /\ p.tomb[s].at = c
  /\ p.tomb[s].ids # {} => Head \in p.tomb[s].ids
  /\ Trace(p, s) => Held(p.head[s]) \/ Head \in p.tomb[s].ids
  /\ Held(p.head[s]) =>
       /\ Latest(p.head[s].tags) \in H
       /\ Latest(p.head[s].tags) > c
  /\ \A t \in H : t > c => t <= Latest(p.head[s].tags)

NoRollup(p) == \A t \in Type : p.rollup[t].ids = {}

(* No stamped source was heard before the first instant, or after now.     *)
Dated ==
  /\ \A m \in said : m.src \in Stamped => m.tags # {} /\ m.tags \subseteq 1..clock
  /\ \A r \in Store, s \in Stamped :
       /\ heard[r][s] \subseteq 1..clock
       /\ payload[r].head[s].tags \subseteq 1..clock

Kept ==
  /\ \A r \in Store : NoRollup(payload[r])
  /\ \A r \in Store, s \in Stamped : Cell(payload[r], s, heard[r][s], cut[r][s])

-----------------------------------------------------------------------------
(* Instants and heads.                                                     *)

LEMMA HeldLatest ==
  ASSUME NEW tags \in SUBSET (Instant \ {0})
  PROVE  /\ Latest(tags) \in Instant
         /\ tags # {} => Latest(tags) \in tags /\ Latest(tags) > 0
         /\ tags = {} => Latest(tags) = 0
         /\ \A u \in tags : u <= Latest(tags)
<1>1. /\ Latest(tags) \in Instant
      /\ Latest(tags) \in tags \cup {0}
      /\ \A u \in tags : u <= Latest(tags)
  BY LatestIsGreatest
<1>2. tags \subseteq Nat \ {0} /\ Latest(tags) \in Nat
  BY <1>1, InstantIsNat
<1>3. ASSUME NEW u \in tags PROVE Latest(tags) > 0
  <2>1. u \in Nat /\ u # 0 /\ u <= Latest(tags)
    BY <1>1, <1>2
  <2> QED
    BY <1>2, <2>1
<1>4. ASSUME tags # {} PROVE Latest(tags) \in tags /\ Latest(tags) > 0
  <2>1. PICK u \in tags : TRUE
    BY <1>4
  <2>2. Latest(tags) > 0
    BY <1>3, <2>1
  <2>3. Latest(tags) # 0
    BY <1>2, <2>2
  <2> QED
    BY <1>1, <2>2, <2>3
<1> QED
  BY <1>1, <1>4

(* Few sources have few heads, and none is absorbed.                       *)
LEMMA NoneAbsorbed ==
  ASSUME NoHeadSummary, NEW p \in Payload, NEW t \in Type
  PROVE  HeadsToAbsorb(p, t) = {}
<1> DEFINE heads == HeadsOfType(p, t)
           f == [e \in heads |-> e.id]
<1>1. f \in [heads -> Source]
  BY DEF HeadsOfType
<1>2. \A e, d \in heads : e.id = d.id => e = d
  BY DEF HeadsOfType
<1>3. f \in Injection(heads, Source)
  BY <1>1, <1>2 DEF Injection, IsInjective
<1> HIDE DEF heads, f
<1>4. IsFiniteSet(heads) /\ Cardinality(heads) <= Cardinality(Source)
  BY <1>3, FS_Injection DEF NoHeadSummary
<1>5. Cardinality(heads) \in Nat /\ Cardinality(Source) \in Nat
  BY <1>4, FS_CardinalityType DEF NoHeadSummary
<1>6. Cardinality(heads) < HeadThreshold
  BY <1>4, <1>5, BoundAssumption DEF NoHeadSummary
<1> QED
  BY <1>6 DEF HeadsToAbsorb, heads

(* Then compaction only moves leaves into chain summaries.                 *)
LEMMA CompactedCell ==
  ASSUME NoHeadSummary, NEW p \in Payload
  PROVE  /\ Compacted(p).head = p.head
         /\ Compacted(p).tomb = p.tomb
         /\ Compacted(p).rollup = p.rollup
         /\ \A s \in Source : Trace(Compacted(p), s) => Trace(p, s)
<1> DEFINE h == HeadsAbsorbed(p)
<1>1. {e.id : e \in UNION {HeadsToAbsorb(p, t) : t \in Type}} = {}
  BY NoneAbsorbed
<1>2. /\ h.head = p.head /\ h.tomb = p.tomb /\ h.rollup = p.rollup
      /\ h.leaf = p.leaf /\ h.chain = p.chain
  BY <1>1, NoneAbsorbed DEF HeadsAbsorbed, Payload
<1>3. h \in Payload
  BY HeadsAbsorbedType
<1> HIDE DEF h
<1>4. /\ LeavesAbsorbed(h).head = h.head /\ LeavesAbsorbed(h).tomb = h.tomb
      /\ LeavesAbsorbed(h).rollup = h.rollup
  BY <1>3 DEF LeavesAbsorbed, Payload
<1>5. ASSUME NEW s \in Source, Trace(LeavesAbsorbed(h), s) PROVE Trace(h, s)
  <2>1. ASSUME NEW l \in LeavesAbsorbed(h).leaf PROVE \E k \in h.leaf : k.src = l.src
    <3>1. h.leaf \subseteq Leaf
      BY <1>3 DEF Payload
    <3>2. PICK k \in h.leaf : l = k \/ l = [k EXCEPT !.rec.behind = ChainSummary]
      BY <1>3 DEF LeavesAbsorbed, Payload
    <3> QED
      BY <3>1, <3>2 DEF Leaf
  <2>2. CASE LeavesOf(LeavesAbsorbed(h), s) # {}
    BY <2>1, <2>2 DEF LeavesOf, Trace
  <2>3. CASE LeavesAbsorbed(h).chain[s].ids # {}
    <3>1. CASE LeavesToAbsorb(h, s) = {}
      <4>1. LeavesAbsorbed(h).chain[s] = h.chain[s]
        BY <1>3, <3>1 DEF LeavesAbsorbed, Payload
      <4> QED
        BY <2>3, <4>1 DEF Trace
    <3>2. CASE LeavesToAbsorb(h, s) # {}
      <4>1. LeafEntries(h, s) # {}
        BY <3>2 DEF LeavesToAbsorb
      <4> QED
        BY <4>1 DEF LeafEntries, Trace
    <3> QED
      BY <3>1, <3>2
  <2> QED
    BY <1>5, <2>2, <2>3 DEF Trace
<1>6. \A s \in Source : Trace(h, s) => Trace(p, s)
  BY <1>2 DEF Trace, LeavesOf
<1> QED
  BY <1>2, <1>4, <1>5, <1>6 DEF Compacted, h

(* An assertion planned over a head is as new as the newer of the two.     *)
LEMMA PlannedIsLater ==
  ASSUME NEW rec \in Rec, NEW tags \in SUBSET (Instant \ {0}), tags # {},
         rec.tags \subseteq Instant \ {0}, NEW obs \in BOOLEAN, NEW now \in Instant
  PROVE  /\ Held(Planned(rec, tags, obs, now))
         /\ Planned(rec, tags, obs, now).tags \subseteq rec.tags \cup tags
         /\ Latest(Planned(rec, tags, obs, now).tags) = LaterOf(Latest(rec.tags), Latest(tags))
<1>1. /\ Latest(tags) \in Nat /\ Latest(rec.tags) \in Nat /\ Latest(tags) > 0
      /\ rec.tags = {} => Latest(rec.tags) = 0
  BY HeldLatest, InstantIsNat
<1>2. CASE ~Held(rec)
  <2>1. Planned(rec, tags, obs, now).tags = tags
    BY <1>2 DEF Planned
  <2> QED
    BY <1>1, <1>2, <2>1 DEF Held, LaterOf
<1>3. CASE Held(rec) /\ SupersedesPrior(tags, obs, rec)
  <2>1. Planned(rec, tags, obs, now).tags = tags
    BY <1>3 DEF Planned
  <2>2. Latest(tags) >= Latest(rec.tags)
    BY <1>1, <1>3 DEF SupersedesPrior
  <2> QED
    BY <1>1, <2>1, <2>2 DEF Held, LaterOf
<1>4. CASE Held(rec) /\ ~SupersedesPrior(tags, obs, rec)
  <2>1. Planned(rec, tags, obs, now).tags = rec.tags \cup tags
    BY <1>4 DEF Planned, Rec
  <2>2. Latest(rec.tags \cup tags) = LaterOf(Latest(rec.tags), Latest(tags))
    BY LatestOfUnion
  <2> QED
    BY <2>1, <2>2 DEF Held
<1> QED
  BY <1>2, <1>3, <1>4

-----------------------------------------------------------------------------
(* What each operation does to a cell.                                     *)

(* A write of s, refused or planned.                                       *)
LEMMA WriteCell ==
  ASSUME NoHeadSummary, NEW p \in Payload, NoRollup(p), NEW s \in Stamped,
         NEW tags \in SUBSET (Instant \ {0}), tags # {},
         NEW obs \in BOOLEAN, NEW now \in Instant,
         p.head[s].tags \subseteq Instant \ {0},
         NEW H \in SUBSET Instant, NEW c \in Instant, Cell(p, s, H, c)
  PROVE  Cell(Appended(p, s, tags, obs, now), s, H \cup tags, c)
<1> DEFINE q == Appended(p, s, tags, obs, now)
           a == Asserted(p, s, tags, obs, now)
           top == Latest(p.head[s].tags)
           new == Latest(tags)
<1>s. s \in Source /\ s # NoSource
  BY SourceAssumption
<1>n. /\ top \in Nat /\ new \in Nat /\ c \in Nat /\ H \subseteq Nat
      /\ new \in tags /\ \A t \in tags : t \in Nat /\ t <= new
      /\ p.head[s].tags = {} => top = 0
      /\ p.head[s].tags # {} => top > 0
  BY HeldLatest, InstantIsNat
<1>t. c > 0 => Head \in p.tomb[s].ids
  BY <1>s DEF Cell, Payload, Tombstone
<1>1. CASE Refused(p, s, tags)
  <2>1. c > 0 /\ new <= c
    BY <1>1, <1>s, <1>n DEF Refused, Suppresses, NotLaterThan, NoRollup, Cell, Payload, Tombstone
  <2>2. q = Compacted(p)
    BY <1>1 DEF Appended
  <2>3. \A t \in tags : ~(t > c)
    BY <1>n, <2>1
  <2> HIDE DEF q
  <2>4. q.head = p.head /\ q.tomb = p.tomb /\ (Trace(q, s) => Trace(p, s))
    BY <1>s, <2>2, CompactedCell
  <2> QED
    BY <2>3, <2>4 DEF Cell, q
<1>2. CASE ~Refused(p, s, tags)
  <2>1. new > c
    <3>1. CASE c = 0
      BY <1>n, <3>1, HeldLatest
    <3>2. CASE c > 0
      BY <1>2, <1>t, <1>n, <3>2 DEF Refused, Suppresses, NotLaterThan, Cell
    <3> QED
      BY <1>n, <3>1, <3>2
  <2>a. a \in Payload
    BY <1>s, AssertedType
  <2>2. /\ a.tomb = p.tomb
        /\ a.head[s] = Planned(p.head[s], tags, obs, now)
    BY <1>s DEF Asserted, Payload
  <2>3. q = Compacted(a)
    BY <1>2 DEF Appended
  <2> HIDE DEF q, a
  <2>4. q.tomb = p.tomb /\ q.head[s] = Planned(p.head[s], tags, obs, now)
    BY <2>a, <2>2, <2>3, CompactedCell
  <2>5. p.head[s] \in Rec
    BY <1>s DEF Payload
  <2>6. /\ Held(q.head[s])
        /\ Latest(q.head[s].tags) = LaterOf(top, new)
    <3>1. /\ Held(Planned(p.head[s], tags, obs, now))
          /\ Latest(Planned(p.head[s], tags, obs, now).tags) = LaterOf(top, new)
      BY <2>5, PlannedIsLater
    <3> QED
      BY <2>4, <3>1, Zenon
  <2>7. LaterOf(top, new) \in H \cup tags /\ LaterOf(top, new) > c
    BY <1>n, <2>1 DEF Cell, Held, LaterOf
  <2>8. ASSUME NEW t \in H \cup tags, t > c PROVE t <= LaterOf(top, new)
    <3>1. t \in Nat /\ (t <= top \/ t <= new)
      BY <1>n, <2>8 DEF Cell
    <3> QED
      BY <1>n, <3>1 DEF LaterOf
  <2> HIDE DEF top, new
  <2> QED
    BY <2>4, <2>6, <2>7, <2>8 DEF Cell, q
<1> QED
  BY <1>1, <1>2

(* A write leaves every other stamped source's cell alone.                 *)
LEMMA WriteElsewhere ==
  ASSUME NoHeadSummary, NEW p \in Payload, NEW s \in Source, NEW x \in Stamped, x # s,
         NEW tags \in SUBSET Instant, NEW obs \in BOOLEAN, NEW now \in Instant,
         NEW H, NEW c, Cell(p, x, H, c)
  PROVE  /\ Cell(Appended(p, s, tags, obs, now), x, H, c)
         /\ Appended(p, s, tags, obs, now).head[x] = p.head[x]
<1> DEFINE q == Appended(p, s, tags, obs, now)
           a == Asserted(p, s, tags, obs, now)
<1>s. x \in Source /\ x # NoSource
  BY SourceAssumption
<1>1. CASE Refused(p, s, tags)
  <2>1. q = Compacted(p)
    BY <1>1 DEF Appended
  <2> HIDE DEF q
  <2>2. q.head = p.head /\ q.tomb = p.tomb /\ (Trace(q, x) => Trace(p, x))
    BY <1>s, <2>1, CompactedCell
  <2> QED
    BY <2>2 DEF Cell, q
<1>2. CASE ~Refused(p, s, tags)
  <2>a. a \in Payload
    BY AssertedType
  <2>1. /\ a.tomb = p.tomb /\ a.chain = p.chain
        /\ a.head[x] = p.head[x]
        /\ a.leaf = Demoted(p, s, tags, obs)
    BY <1>s DEF Asserted, Payload
  <2>2. Trace(a, x) => Trace(p, x)
    BY <2>1 DEF Trace, LeavesOf, Demoted
  <2>3. q = Compacted(a)
    BY <1>2 DEF Appended
  <2> HIDE DEF q, a
  <2>4. q.head[x] = p.head[x] /\ q.tomb = p.tomb /\ (Trace(q, x) => Trace(p, x))
    BY <1>s, <2>a, <2>1, <2>2, <2>3, CompactedCell
  <2> QED
    BY <2>4 DEF Cell, q
<1> QED
  BY <1>1, <1>2

LEMMA WriteNoRollup ==
  ASSUME NoHeadSummary, NEW p \in Payload, NoRollup(p), NEW s \in Source,
         NEW tags \in SUBSET Instant, NEW obs \in BOOLEAN, NEW now \in Instant
  PROVE  NoRollup(Appended(p, s, tags, obs, now))
<1>1. Asserted(p, s, tags, obs, now) \in Payload
  BY AssertedType
<1>2. Asserted(p, s, tags, obs, now).rollup = p.rollup
  BY DEF Asserted, Payload
<1> QED
  BY <1>1, <1>2, CompactedCell DEF Appended, NoRollup

(* The triple is removed, at an instant nothing heard is later than.       *)
LEMMA GroupRemovedCell ==
  ASSUME NEW p \in Payload, NEW s \in Stamped, NEW at \in Instant \ {0},
         NEW H \in SUBSET Instant, NEW c \in Instant, Cell(p, s, H, c),
         p.head[s].tags \subseteq Instant \ {0},
         \A t \in H : t <= at
  PROVE  Cell(GroupRemoved(p, at), s, H,
              IF RecordsOf(p, s) # {} THEN LaterOf(c, at) ELSE c)
<1> DEFINE q == GroupRemoved(p, at)
<1>s. s \in Source
  BY SourceAssumption
<1>1. /\ q.head[s] = NoRec /\ ~Trace(q, s)
      /\ q.tomb[s] = IF RecordsOf(p, s) = {} THEN p.tomb[s]
                     ELSE MergeRetractions(p.tomb[s], [ids |-> RecordsOf(p, s), at |-> at])
  BY <1>s DEF GroupRemoved, EmptyPayload, Trace, LeavesOf
<1>2. ~Held(q.head[s]) /\ Latest(q.head[s].tags) = 0
  BY <1>1, HeldLatest DEF NoRec, Held
<1>n. H \subseteq Nat /\ c \in Nat /\ at \in Nat
  BY InstantIsNat
<1> HIDE DEF q
<1>3. CASE RecordsOf(p, s) = {}
  <2>1. ~Held(p.head[s])
    BY <1>3 DEF RecordsOf
  <2>2. Latest(p.head[s].tags) = 0
    BY <2>1, HeldLatest DEF Held
  <2> QED
    BY <1>1, <1>2, <1>3, <2>2 DEF Cell, q
<1>4. CASE RecordsOf(p, s) # {}
  <2>1. /\ q.tomb[s].at = LaterOf(c, at)
        /\ q.tomb[s].ids = p.tomb[s].ids \cup RecordsOf(p, s)
    BY <1>1, <1>4 DEF MergeRetractions, Cell
  <2>2. Head \in q.tomb[s].ids
    <3>1. CASE Held(p.head[s])
      BY <2>1, <3>1 DEF RecordsOf
    <3>2. CASE ~Held(p.head[s])
      <4>1. Trace(p, s)
        BY <1>4, <3>2 DEF RecordsOf, Trace
      <4> QED
        BY <2>1, <3>2, <4>1 DEF Cell
    <3> QED
      BY <3>1, <3>2
  <2>3. \A t \in H : ~(t > LaterOf(c, at))
    BY <1>n DEF LaterOf
  <2> QED
    BY <1>1, <1>2, <1>4, <2>1, <2>2, <2>3 DEF Cell, q
<1> QED
  BY <1>3, <1>4

(* One record of s is removed, and another source's.                       *)
LEMMA RecordRemovedCell ==
  ASSUME NEW p \in Payload, NEW s \in Stamped, NEW at \in Instant \ {0},
         NEW H \in SUBSET Instant, NEW c \in Instant, Cell(p, s, H, c),
         \A t \in H : t <= at
  PROVE  /\ Cell(RecordRemoved(p, s, at), s, H, LaterOf(c, at))
         /\ \A x \in Source \ {s} : Cell(RecordRemoved(p, x, at), s, H, c)
<1>s. s \in Source
  BY SourceAssumption
<1>n. H \subseteq Nat /\ c \in Nat /\ at \in Nat
  BY InstantIsNat
<1>1. Cell(RecordRemoved(p, s, at), s, H, LaterOf(c, at))
  <2> DEFINE q == RecordRemoved(p, s, at)
  <2>1. /\ q.head[s] = NoRec
        /\ q.tomb[s].at = LaterOf(c, at)
        /\ q.tomb[s].ids = p.tomb[s].ids \cup {Head}
    BY <1>s DEF RecordRemoved, Payload, MergeRetractions, Cell
  <2>2. ~Held(q.head[s]) /\ Latest(q.head[s].tags) = 0
    BY <2>1, HeldLatest DEF NoRec, Held
  <2>3. \A t \in H : ~(t > LaterOf(c, at))
    BY <1>n DEF LaterOf
  <2> HIDE DEF q
  <2> QED
    BY <2>1, <2>2, <2>3 DEF Cell, q
<1>2. ASSUME NEW x \in Source \ {s} PROVE Cell(RecordRemoved(p, x, at), s, H, c)
  <2>1. /\ RecordRemoved(p, x, at).head[s] = p.head[s]
        /\ RecordRemoved(p, x, at).tomb[s] = p.tomb[s]
        /\ RecordRemoved(p, x, at).leaf = p.leaf
        /\ RecordRemoved(p, x, at).chain = p.chain
    BY <1>s DEF RecordRemoved, Payload
  <2> QED
    BY <2>1 DEF Cell, Trace, LeavesOf
<1> QED
  BY <1>1, <1>2

(* A retraction that names the head arrives for s, and for another source. *)
LEMMA RetractionCell ==
  ASSUME NEW p \in Payload, NEW s \in Stamped,
         NEW H \in SUBSET Instant, NEW c \in Instant, Cell(p, s, H, c),
         p.head[s].tags \subseteq Instant \ {0}, NEW y \in Tombstone
  PROVE  /\ Head \in y.ids =>
              Cell(RetractionAppended(p, s, y), s, H, LaterOf(c, y.at))
         /\ \A x \in Source \ {s} : Cell(RetractionAppended(p, x, y), s, H, c)
<1>s. s \in Source
  BY SourceAssumption
<1>n. H \subseteq Nat /\ c \in Nat /\ y.at \in Nat
  BY InstantIsNat DEF Tombstone
<1>1. ASSUME Head \in y.ids
      PROVE  Cell(RetractionAppended(p, s, y), s, H, LaterOf(c, y.at))
  <2> DEFINE q == RetractionAppended(p, s, y)
             top == Latest(p.head[s].tags)
             merged == MergeRetractions(p.tomb[s], y)
  <2>0. /\ top \in Nat
        /\ p.head[s].tags = {} => top = 0
        /\ p.head[s].tags # {} => top > 0
    BY HeldLatest, InstantIsNat
  <2>1. /\ q.tomb[s] = merged
        /\ q.head[s] = IF Suppresses(merged, Head, RecordTime(p.head[s]))
                       THEN NoRec ELSE p.head[s]
    BY <1>s DEF RetractionAppended, Payload
  <2>2. merged.at = LaterOf(c, y.at) /\ Head \in merged.ids
    BY <1>1 DEF MergeRetractions, Cell
  <2>a. y.at > 0
    BY <1>1, <1>n DEF Tombstone
  <2>3. LaterOf(c, y.at) \in Nat /\ LaterOf(c, y.at) >= c /\ LaterOf(c, y.at) > 0
    BY <1>n, <2>a DEF LaterOf
  <2> HIDE DEF q, top, merged
  <2>4. CASE ~Held(p.head[s])
    <3>1. ~Held(q.head[s]) /\ Latest(q.head[s].tags) = 0
      <4>1. p.head[s].tags = {}
        BY <2>4 DEF Held
      <4>2. q.head[s].tags = {}
        BY <2>1, <4>1 DEF NoRec
      <4> QED
        BY <4>2, HeldLatest DEF Held
    <3>2. \A t \in H : ~(t > LaterOf(c, y.at))
      <4>1. \A t \in H : t > c => t <= 0
        BY <2>0, <2>4 DEF Cell, Held, top
      <4> QED
        BY <1>n, <2>3, <4>1
    <3> QED
      BY <2>1, <2>2, <3>1, <3>2 DEF Cell, q
  <2>5. CASE Held(p.head[s])
    <3>1. RecordTime(p.head[s]) = top /\ top > 0
      BY <2>0, <2>5 DEF RecordTime, AssertedAt, Held, top
    <3>2. Suppresses(merged, Head, RecordTime(p.head[s])) <=> top <= LaterOf(c, y.at)
      BY <2>0, <2>2, <2>3, <3>1 DEF Suppresses, NotLaterThan
    <3>3. \A t \in H : t > c => t <= top
      BY DEF Cell, top
    <3>4. CASE top <= LaterOf(c, y.at)
      <4>1. ~Held(q.head[s]) /\ Latest(q.head[s].tags) = 0
        BY <2>1, <3>2, <3>4, HeldLatest DEF NoRec, Held
      <4>2. \A t \in H : ~(t > LaterOf(c, y.at))
        BY <1>n, <2>0, <2>3, <3>3, <3>4
      <4> QED
        BY <2>1, <2>2, <4>1, <4>2 DEF Cell, q
    <3>5. CASE ~(top <= LaterOf(c, y.at))
      <4>1. q.head[s] = p.head[s]
        BY <2>1, <3>2, <3>5
      <4>2. top \in H /\ top > LaterOf(c, y.at)
        BY <2>0, <2>3, <2>5, <3>5 DEF Cell, top
      <4>3. \A t \in H : t > LaterOf(c, y.at) => t <= top
        BY <1>n, <2>3, <3>3
      <4> QED
        BY <2>1, <2>2, <4>1, <4>2, <4>3 DEF Cell, q, top
    <3> QED
      BY <3>4, <3>5
  <2> QED
    BY <2>4, <2>5
<1>2. ASSUME NEW x \in Source \ {s} PROVE Cell(RetractionAppended(p, x, y), s, H, c)
  <2> DEFINE q == RetractionAppended(p, x, y)
  <2>1. /\ q.head[s] = p.head[s] /\ q.tomb[s] = p.tomb[s]
        /\ q.leaf \subseteq p.leaf /\ q.chain[s] = p.chain[s]
    BY <1>s DEF RetractionAppended, Payload
  <2> HIDE DEF q
  <2>2. Trace(q, s) => Trace(p, s)
    BY <2>1 DEF Trace, LeavesOf
  <2> QED
    BY <2>1, <2>2 DEF Cell, q
<1> QED
  BY <1>1, <1>2

(* Removals and retractions write no summary of heads.                     *)
LEMMA RemovalNoRollup ==
  ASSUME NEW p \in Payload, NoRollup(p)
  PROVE  /\ \A at \in Instant : NoRollup(GroupRemoved(p, at))
         /\ \A s \in Source, at \in Instant : NoRollup(RecordRemoved(p, s, at))
         /\ \A s \in Source, y \in Tombstone : NoRollup(RetractionAppended(p, s, y))
         /\ \A t \in Type, at \in Instant : NoRollup(RollupRetractionAppended(p, t, at))
<1>1. \A at \in Instant : NoRollup(GroupRemoved(p, at))
  BY DEF GroupRemoved, EmptyPayload, NoRollup
<1>2. \A s \in Source, at \in Instant : RecordRemoved(p, s, at).rollup = p.rollup
  BY DEF RecordRemoved, Payload
<1>3. \A s \in Source, y \in Tombstone : RetractionAppended(p, s, y).rollup = p.rollup
  BY DEF RetractionAppended, Payload
<1>4. ASSUME NEW t \in Type, NEW at \in Instant
      PROVE  NoRollup(RollupRetractionAppended(p, t, at))
  BY DEF RollupRetractionAppended, Payload, NoRollup
<1> QED
  BY <1>1, <1>2, <1>3, <1>4 DEF NoRollup

-----------------------------------------------------------------------------
(* The invariant is kept.                                                  *)

LEMMA NowIsPast ==
  ASSUME TypeOK, NEW r \in Store
  PROVE  /\ Now(r) \in 1..clock
         /\ Lag[r] = 0 => Now(r) = clock
         /\ 1..clock \subseteq Instant \ {0}
<1>1. clock \in Nat /\ clock <= MaxTime /\ clock >= 1 /\ Lag[r] \in Nat /\ MaxTime \in Nat
  BY BoundAssumption DEF TypeOK, Instant
<1> QED
  BY <1>1 DEF Now, LaterOf, Instant

LEMMA StampedIsSource == Stamped \subseteq Source /\ NoSource \notin Stamped
BY SourceAssumption

(* Whatever a store can be sent of a stamped source is dated.              *)
LEMMA SendableDated ==
  ASSUME TypeOK, Dated, NEW m \in Sendable, m.src \in Stamped
  PROVE  m.tags # {} /\ m.tags \subseteq 1..clock
<1>1. CASE m \in said
  BY <1>1 DEF Dated
<1>2. CASE m \in PeerRows
  <2>1. PICK q \in Store, s \in Source : /\ Held(payload[q].head[s])
                                        /\ m = RowOf(q, s)
    BY <1>2 DEF PeerRows
  <2>2. m.tags = payload[q].head[s].tags /\ m.src = s
    BY <2>1 DEF RowOf
  <2> QED
    BY <2>1, <2>2 DEF Dated, Held
<1> QED
  BY <1>1, <1>2 DEF Sendable

(* A head's tags after an operation are some it had, or some it was given. *)
LEMMA HeadTags ==
  ASSUME NEW p \in Payload, NEW s \in Stamped
  PROVE  /\ \A x \in Source, tags \in SUBSET Instant, obs \in BOOLEAN, now \in Instant :
              Appended(p, x, tags, obs, now).head[s].tags
                \subseteq p.head[s].tags \cup (IF x = s THEN tags ELSE {})
         /\ \A at \in Instant : GroupRemoved(p, at).head[s].tags = {}
         /\ \A x \in Source, at \in Instant :
              RecordRemoved(p, x, at).head[s].tags \subseteq p.head[s].tags
         /\ \A x \in Source, y \in Tombstone :
              RetractionAppended(p, x, y).head[s].tags \subseteq p.head[s].tags
         /\ \A t \in Type, at \in Instant :
              RollupRetractionAppended(p, t, at).head = p.head
<1>s. s \in Source /\ s # NoSource
  BY StampedIsSource
<1>1. ASSUME NEW x \in Source, NEW tags \in SUBSET Instant, NEW obs \in BOOLEAN,
             NEW now \in Instant
      PROVE  Appended(p, x, tags, obs, now).head[s].tags
               \subseteq p.head[s].tags \cup (IF x = s THEN tags ELSE {})
  <2> DEFINE a == Asserted(p, x, tags, obs, now)
  <2>1. \A q \in Payload : Compacted(q).head[s].tags \subseteq q.head[s].tags
    BY <1>s, CompactedHeads DEF NoRec
  <2>2. a \in Payload
    BY AssertedType
  <2>3. a.head[s].tags \subseteq p.head[s].tags \cup (IF x = s THEN tags ELSE {})
    <3>1. a.head[s] = IF s = x THEN Planned(p.head[x], tags, obs, now) ELSE p.head[s]
      BY <1>s DEF Asserted, Payload
    <3>2. Planned(p.head[s], tags, obs, now).tags \subseteq p.head[s].tags \cup tags
      BY <1>s DEF Planned, Payload, Rec
    <3> QED
      BY <3>1, <3>2
  <2> HIDE DEF a
  <2> QED
    BY <2>1, <2>2, <2>3 DEF Appended, a
<1>2. \A at \in Instant : GroupRemoved(p, at).head[s].tags = {}
  BY <1>s DEF GroupRemoved, EmptyPayload, NoRec
<1>3. \A x \in Source, at \in Instant :
        RecordRemoved(p, x, at).head[s].tags \subseteq p.head[s].tags
  BY <1>s DEF RecordRemoved, Payload, NoRec
<1>4. \A x \in Source, y \in Tombstone :
        RetractionAppended(p, x, y).head[s].tags \subseteq p.head[s].tags
  BY <1>s DEF RetractionAppended, Payload, NoRec
<1>5. \A t \in Type, at \in Instant : RollupRetractionAppended(p, t, at).head = p.head
  BY DEF RollupRetractionAppended, Payload
<1> QED
  BY <1>1, <1>2, <1>3, <1>4, <1>5

LEMMA DatedNext == TypeOK /\ Dated /\ [Next]_vars => Dated'
<1> SUFFICES ASSUME TypeOK, Dated, [Next]_vars PROVE Dated'
  OBVIOUS
<1>s. Stamped \subseteq Source /\ payload \in [Store -> Payload]
  BY StampedIsSource DEF TypeOK
<1>c. clock \in Nat
  BY InstantIsNat DEF TypeOK
<1>1. CASE Tick
  <2>1. 1..clock \subseteq 1..clock'
    BY <1>1, <1>c DEF Tick
  <2> QED
    BY <1>1, <2>1 DEF Tick, Dated
<1>w. ASSUME NEW r \in Store, NEW s \in Source, NEW tags \in SUBSET Instant,
             NEW obs \in BOOLEAN, Write(r, s, tags, obs), clock' = clock,
             s \in Stamped => tags \subseteq 1..clock,
             NEW q \in Store, NEW x \in Stamped
      PROVE  /\ heard'[q][x] \subseteq 1..clock'
             /\ payload'[q].head[x].tags \subseteq 1..clock'
  <2>1. heard'[q][x] = IF q = r /\ x = s THEN heard[q][x] \cup tags ELSE heard[q][x]
    BY <1>s, <1>w DEF Write, TypeOK
  <2>2. payload'[q] = IF q = r THEN Appended(payload[r], s, tags, obs, Now(r)) ELSE payload[q]
    BY <1>s, <1>w DEF Write
  <2>3. Appended(payload[r], s, tags, obs, Now(r)).head[x].tags
          \subseteq payload[r].head[x].tags \cup (IF s = x THEN tags ELSE {})
    BY <1>s, NowType, HeadTags
  <2> QED
    BY <1>w, <2>1, <2>2, <2>3 DEF Dated
<1>2. ASSUME NEW r \in Store, NEW s \in Source, NEW obs \in BOOLEAN, Say(r, s, obs)
      PROVE  Dated'
  <2> DEFINE at == IF s \in Stamped THEN Now(r) ELSE 0
  <2>1. {at} \in SUBSET Instant /\ (s \in Stamped => {at} \subseteq 1..clock)
    BY NowType, NowIsPast, InstantIsNat
  <2>2. /\ said' = said \cup {[src |-> s, tags |-> {at}, obs |-> obs]}
        /\ Write(r, s, {at}, obs) /\ clock' = clock
    BY <1>2 DEF Say
  <2> HIDE DEF at
  <2>3. \A q \in Store, x \in Stamped :
          heard'[q][x] \subseteq 1..clock' /\ payload'[q].head[x].tags \subseteq 1..clock'
    BY <1>w, <2>1, <2>2
  <2>4. ASSUME NEW m \in said', m.src \in Stamped PROVE m.tags # {} /\ m.tags \subseteq 1..clock'
    BY <2>1, <2>2, <2>4 DEF Dated
  <2> QED
    BY <2>3, <2>4 DEF Dated
<1>3. ASSUME NEW r \in Store, NEW m \in Sendable, Deliver(r, m)
      PROVE  Dated'
  <2>1. m.src \in Source /\ m.tags \in SUBSET Instant /\ m.obs \in BOOLEAN
    BY SendableType DEF Message
  <2>2. m.src \in Stamped => m.tags \subseteq 1..clock
    BY SendableDated
  <2>3. Write(r, m.src, m.tags, m.obs) /\ clock' = clock /\ said' = said
    BY <1>3 DEF Deliver
  <2>4. \A q \in Store, x \in Stamped :
          heard'[q][x] \subseteq 1..clock' /\ payload'[q].head[x].tags \subseteq 1..clock'
    BY <1>w, <2>1, <2>2, <2>3
  <2> QED
    BY <2>3, <2>4 DEF Dated
<1>r. ASSUME NEW r \in Store, NEW p, payload' = [payload EXCEPT ![r] = p],
             \A s \in Stamped : p.head[s].tags \subseteq payload[r].head[s].tags,
             UNCHANGED <<clock, said, heard>>
      PROVE  Dated'
  <2>1. ASSUME NEW q \in Store, NEW s \in Stamped
        PROVE  payload'[q].head[s].tags \subseteq payload[q].head[s].tags
    BY <1>s, <1>r
  <2> QED
    BY <1>r, <2>1 DEF Dated
<1>4. ASSUME NEW r \in Store, RemoveGroup(r) PROVE Dated'
  <2>1. \A s \in Stamped : GroupRemoved(payload[r], Now(r)).head[s].tags = {}
    BY <1>s, NowType, HeadTags
  <2>2. /\ payload' = [payload EXCEPT ![r] = GroupRemoved(payload[r], Now(r))]
        /\ UNCHANGED <<clock, said, heard>>
    BY <1>4 DEF RemoveGroup
  <2> QED
    BY <1>r, <2>1, <2>2
<1>5. ASSUME NEW r \in Store, NEW s \in Source, RemoveRecord(r, s) PROVE Dated'
  <2>1. \A x \in Stamped :
          RecordRemoved(payload[r], s, Now(r)).head[x].tags \subseteq payload[r].head[x].tags
    BY <1>s, NowType, HeadTags
  <2>2. /\ payload' = [payload EXCEPT ![r] = RecordRemoved(payload[r], s, Now(r))]
        /\ UNCHANGED <<clock, said, heard>>
    BY <1>5 DEF RemoveRecord
  <2> QED
    BY <1>r, <2>1, <2>2
<1>6. ASSUME NEW r \in Store, NEW q \in Store, NEW s \in Source, DeliverRetraction(r, q, s)
      PROVE  Dated'
  <2>1. payload[q].tomb[s] \in Tombstone
    BY <1>s DEF Payload
  <2>2. \A x \in Stamped :
          RetractionAppended(payload[r], s, payload[q].tomb[s]).head[x].tags
            \subseteq payload[r].head[x].tags
    BY <1>s, <2>1, HeadTags
  <2>3. /\ payload' = [payload EXCEPT ![r] = RetractionAppended(payload[r], s, payload[q].tomb[s])]
        /\ UNCHANGED <<clock, said, heard>>
    BY <1>6 DEF DeliverRetraction
  <2> QED
    BY <1>r, <2>2, <2>3
<1>7. ASSUME NEW r \in Store, NEW q \in Store, NEW t \in Type,
             DeliverRollupRetraction(r, q, t)
      PROVE  Dated'
  <2>1. payload[q].rollupTomb[t] \in Instant
    BY <1>s DEF Payload
  <2>2. RollupRetractionAppended(payload[r], t, payload[q].rollupTomb[t]).head
          = payload[r].head
    BY <1>s DEF RollupRetractionAppended, Payload
  <2>3. /\ payload' = [payload EXCEPT
                        ![r] = RollupRetractionAppended(payload[r], t, payload[q].rollupTomb[t])]
        /\ UNCHANGED <<clock, said, heard>>
    BY <1>7 DEF DeliverRollupRetraction
  <2> QED
    BY <1>r, <2>2, <2>3
<1>8. CASE UNCHANGED vars
  BY <1>8 DEF vars, Dated
<1> QED
  BY <1>1, <1>2, <1>3, <1>4, <1>5, <1>6, <1>7, <1>8 DEF Next

LEMMA KeptNext ==
  ASSUME NoHeadSummary, ClocksAgree, TypeOK, Dated, Kept, [Next]_vars
  PROVE  Kept'
<1>t. /\ Stamped \subseteq Source /\ payload \in [Store -> Payload]
      /\ heard \in [Store -> [Source -> SUBSET Instant]]
      /\ cut \in [Store -> [Source -> Instant]]
  BY StampedIsSource DEF TypeOK
<1>d. ASSUME NEW r \in Store, NEW s \in Stamped
      PROVE  /\ heard[r][s] \in SUBSET Instant /\ cut[r][s] \in Instant
             /\ payload[r].head[s].tags \subseteq Instant \ {0}
             /\ \A t \in heard[r][s] : t <= Now(r)
             /\ Now(r) \in Instant \ {0}
             /\ Cell(payload[r], s, heard[r][s], cut[r][s])
  <2>1. 1..clock \subseteq Instant \ {0} /\ Now(r) = clock /\ clock \in Nat
    BY NowIsPast, InstantIsNat DEF ClocksAgree, TypeOK
  <2>2. heard[r][s] \subseteq 1..clock /\ payload[r].head[s].tags \subseteq 1..clock
    BY DEF Dated
  <2>3. \A t \in heard[r][s] : t <= clock
    BY <2>1, <2>2
  <2> QED
    BY <1>t, <2>1, <2>2, <2>3, NowType DEF Kept
<1>r. ASSUME NEW r \in Store, NEW p, payload' = [payload EXCEPT ![r] = p], NoRollup(p),
             \A s \in Stamped : Cell(p, s, heard'[r][s], cut'[r][s]),
             \A q \in Store \ {r}, s \in Stamped :
               heard'[q][s] = heard[q][s] /\ cut'[q][s] = cut[q][s]
      PROVE  Kept'
  <2>1. payload'[r] = p /\ \A q \in Store \ {r} : payload'[q] = payload[q]
    BY <1>t, <1>r
  <2>2. ASSUME NEW q \in Store PROVE NoRollup(payload'[q])
    BY <1>r, <2>1 DEF Kept
  <2>3. ASSUME NEW q \in Store, NEW s \in Stamped
        PROVE  Cell(payload'[q], s, heard'[q][s], cut'[q][s])
    <3>1. CASE q = r
      BY <1>r, <2>1, <3>1
    <3>2. CASE q # r
      <4>1. Cell(payload[q], s, heard[q][s], cut[q][s])
        BY <1>d
      <4>2. payload'[q] = payload[q] /\ heard'[q][s] = heard[q][s] /\ cut'[q][s] = cut[q][s]
        BY <1>r, <2>1, <3>2
      <4> QED
        BY <4>1, <4>2, Zenon
    <3> QED
      BY <3>1, <3>2
  <2> QED
    BY <2>2, <2>3 DEF Kept
<1>u. CASE UNCHANGED <<payload, heard, cut>>
  BY <1>u DEF Kept
<1>1. CASE Tick
  BY <1>1, <1>u DEF Tick
<1>w. ASSUME NEW r \in Store, NEW s \in Source, NEW tags \in SUBSET Instant,
             NEW obs \in BOOLEAN, Write(r, s, tags, obs), cut' = cut,
             s \in Stamped => tags # {} /\ tags \subseteq 1..clock
      PROVE  Kept'
  <2> DEFINE p == Appended(payload[r], s, tags, obs, Now(r))
  <2>0. payload[r] \in Payload /\ NoRollup(payload[r]) /\ Now(r) \in Instant
    BY <1>t, NowType DEF Kept
  <2>1. payload' = [payload EXCEPT ![r] = p]
    BY <1>w DEF Write
  <2>2. NoRollup(p)
    BY <2>0, WriteNoRollup
  <2>3. \A q \in Store, x \in Stamped :
          heard'[q][x] = IF q = r /\ x = s THEN heard[q][x] \cup tags ELSE heard[q][x]
    BY <1>t, <1>w DEF Write
  <2>4. ASSUME NEW x \in Stamped PROVE Cell(p, x, heard'[r][x], cut'[r][x])
    <3>1. CASE x = s
      <4>1. s \in Stamped /\ tags # {} /\ tags \in SUBSET (Instant \ {0})
        BY <1>w, <3>1, NowIsPast
      <4>2. Cell(p, s, heard[r][s] \cup tags, cut[r][s])
        BY <1>d, <2>0, <4>1, WriteCell
      <4>3. heard'[r][x] = heard[r][s] \cup tags /\ cut'[r][x] = cut[r][s]
        BY <1>w, <2>3, <3>1
      <4> QED
        BY <3>1, <4>2, <4>3, Zenon
    <3>2. CASE x # s
      <4>1. Cell(p, x, heard[r][x], cut[r][x])
        BY <1>d, <2>0, <3>2, WriteElsewhere
      <4>2. heard'[r][x] = heard[r][x] /\ cut'[r][x] = cut[r][x]
        BY <1>w, <2>3, <3>2
      <4> QED
        BY <4>1, <4>2, Zenon
    <3> QED
      BY <3>1, <3>2
  <2> HIDE DEF p
  <2> QED
    BY <1>r, <1>w, <2>1, <2>2, <2>3, <2>4
<1>2. ASSUME NEW r \in Store, NEW s \in Source, NEW obs \in BOOLEAN, Say(r, s, obs)
      PROVE  Kept'
  <2> DEFINE at == IF s \in Stamped THEN Now(r) ELSE 0
  <2>1. {at} \in SUBSET Instant /\ (s \in Stamped => {at} # {} /\ {at} \subseteq 1..clock)
    BY NowType, NowIsPast, InstantIsNat
  <2>2. Write(r, s, {at}, obs) /\ cut' = cut
    BY <1>2 DEF Say
  <2> HIDE DEF at
  <2> QED
    BY <1>w, <2>1, <2>2
<1>3. ASSUME NEW r \in Store, NEW m \in Sendable, Deliver(r, m)
      PROVE  Kept'
  <2>1. m.src \in Source /\ m.tags \in SUBSET Instant /\ m.obs \in BOOLEAN
    BY SendableType DEF Message
  <2>2. m.src \in Stamped => m.tags # {} /\ m.tags \subseteq 1..clock
    BY SendableDated
  <2>3. Write(r, m.src, m.tags, m.obs) /\ cut' = cut
    BY <1>3 DEF Deliver
  <2> QED
    BY <1>w, <2>1, <2>2, <2>3
<1>4. ASSUME NEW r \in Store, RemoveGroup(r) PROVE Kept'
  <2> DEFINE p == GroupRemoved(payload[r], Now(r))
  <2>1. payload' = [payload EXCEPT ![r] = p] /\ heard' = heard
    BY <1>4 DEF RemoveGroup
  <2>2. NoRollup(p)
    BY <1>t, NowType, RemovalNoRollup DEF Kept
  <2>3. \A q \in Store, x \in Stamped :
          cut'[q][x] = IF q = r /\ RecordsOf(payload[r], x) # {}
                       THEN LaterOf(cut[r][x], Now(r)) ELSE cut[q][x]
    <3>1. \A t \in Type : payload[r].rollup[t].ids = {}
      BY DEF Kept, NoRollup
    <3>2. cut' = [cut EXCEPT ![r] = [s \in Source |->
                    IF RecordsOf(payload[r], s) # {} THEN LaterOf(cut[r][s], Now(r))
                    ELSE cut[r][s]]]
      BY <1>4, <3>1 DEF RemoveGroup
    <3> QED
      BY <1>t, <3>2
  <2>4. ASSUME NEW x \in Stamped PROVE Cell(p, x, heard'[r][x], cut'[r][x])
    <3>1. Cell(p, x, heard[r][x], IF RecordsOf(payload[r], x) # {}
                                  THEN LaterOf(cut[r][x], Now(r)) ELSE cut[r][x])
      BY <1>d, <1>t, GroupRemovedCell
    <3>2. cut'[r][x] = IF RecordsOf(payload[r], x) # {}
                       THEN LaterOf(cut[r][x], Now(r)) ELSE cut[r][x]
      BY <2>3
    <3> QED
      BY <2>1, <3>1, <3>2, Zenon
  <2>5. \A q \in Store \ {r}, x \in Stamped :
          heard'[q][x] = heard[q][x] /\ cut'[q][x] = cut[q][x]
    BY <2>1, <2>3
  <2> HIDE DEF p
  <2> QED
    BY <1>r, <2>1, <2>2, <2>4, <2>5
<1>5. ASSUME NEW r \in Store, NEW s \in Source, RemoveRecord(r, s) PROVE Kept'
  <2> DEFINE p == RecordRemoved(payload[r], s, Now(r))
  <2>1. payload' = [payload EXCEPT ![r] = p] /\ heard' = heard
    BY <1>5 DEF RemoveRecord
  <2>2. NoRollup(p)
    BY <1>t, NowType, RemovalNoRollup DEF Kept
  <2>3. \A q \in Store, x \in Stamped :
          cut'[q][x] = IF q = r /\ x = s THEN LaterOf(cut[r][s], Now(r)) ELSE cut[q][x]
    BY <1>5, <1>t DEF RemoveRecord
  <2>4. ASSUME NEW x \in Stamped PROVE Cell(p, x, heard'[r][x], cut'[r][x])
    <3>1. CASE x = s
      <4>1. Cell(p, x, heard[r][x], LaterOf(cut[r][x], Now(r)))
        BY <1>d, <1>t, <3>1, RecordRemovedCell
      <4>2. cut'[r][x] = LaterOf(cut[r][x], Now(r))
        BY <2>3, <3>1
      <4> QED
        BY <2>1, <4>1, <4>2, Zenon
    <3>2. CASE x # s
      <4>1. Cell(p, x, heard[r][x], cut[r][x])
        BY <1>d, <1>t, <3>2, RecordRemovedCell
      <4>2. cut'[r][x] = cut[r][x]
        BY <2>3, <3>2
      <4> QED
        BY <2>1, <4>1, <4>2, Zenon
    <3> QED
      BY <3>1, <3>2
  <2> HIDE DEF p
  <2> QED
    BY <1>r, <2>1, <2>2, <2>3, <2>4
<1>6. ASSUME NEW r \in Store, NEW q \in Store, NEW s \in Source, DeliverRetraction(r, q, s)
      PROVE  Kept'
  <2> DEFINE y == payload[q].tomb[s]
             p == RetractionAppended(payload[r], s, y)
  <2>0. y \in Tombstone /\ y.ids # {}
    BY <1>6, <1>t DEF DeliverRetraction, Payload
  <2>1. payload' = [payload EXCEPT ![r] = p] /\ heard' = heard
    BY <1>6 DEF DeliverRetraction
  <2>2. NoRollup(p)
    BY <1>t, <2>0, RemovalNoRollup DEF Kept
  <2>3. \A o \in Store, x \in Stamped :
          cut'[o][x] = IF o = r /\ x = s THEN LaterOf(cut[r][s], y.at) ELSE cut[o][x]
    BY <1>6, <1>t DEF DeliverRetraction
  <2>4. ASSUME NEW x \in Stamped PROVE Cell(p, x, heard'[r][x], cut'[r][x])
    <3>1. CASE x = s
      <4>1. Head \in y.ids
        <5>1. Cell(payload[q], x, heard[q][x], cut[q][x])
          BY <1>d
        <5> QED
          BY <2>0, <3>1, <5>1 DEF Cell
      <4>2. Cell(p, x, heard[r][x], LaterOf(cut[r][x], y.at))
        BY <1>d, <1>t, <2>0, <3>1, <4>1, RetractionCell
      <4>3. cut'[r][x] = LaterOf(cut[r][x], y.at)
        BY <2>3, <3>1
      <4> QED
        BY <2>1, <4>2, <4>3, Zenon
    <3>2. CASE x # s
      <4>1. Cell(p, x, heard[r][x], cut[r][x])
        BY <1>d, <1>t, <2>0, <3>2, RetractionCell
      <4>2. cut'[r][x] = cut[r][x]
        BY <2>3, <3>2
      <4> QED
        BY <2>1, <4>1, <4>2, Zenon
    <3> QED
      BY <3>1, <3>2
  <2> HIDE DEF p, y
  <2> QED
    BY <1>r, <2>1, <2>2, <2>3, <2>4
<1>7. ASSUME NEW r \in Store, NEW q \in Store, NEW t \in Type,
             DeliverRollupRetraction(r, q, t)
      PROVE  Kept'
  <2> DEFINE at == payload[q].rollupTomb[t]
             p == RollupRetractionAppended(payload[r], t, at)
  <2>0. at \in Instant
    BY <1>t DEF Payload
  <2>1. payload' = [payload EXCEPT ![r] = p] /\ heard' = heard /\ cut' = cut
    BY <1>7 DEF DeliverRollupRetraction
  <2>2. NoRollup(p)
    BY <1>t, <2>0, RemovalNoRollup DEF Kept
  <2>3. /\ p.head = payload[r].head /\ p.tomb = payload[r].tomb
        /\ p.leaf = payload[r].leaf /\ p.chain = payload[r].chain
    BY <1>t DEF RollupRetractionAppended, Payload
  <2> HIDE DEF p
  <2>4. ASSUME NEW x \in Stamped PROVE Cell(p, x, heard'[r][x], cut'[r][x])
    <3>1. Cell(payload[r], x, heard[r][x], cut[r][x])
      BY <1>d
    <3> QED
      BY <2>1, <2>3, <3>1 DEF Cell, Trace, LeavesOf
  <2> QED
    BY <1>r, <2>1, <2>2, <2>4
<1>8. CASE UNCHANGED vars
  BY <1>8, <1>u DEF vars
<1> QED
  BY <1>1, <1>2, <1>3, <1>4, <1>5, <1>6, <1>7, <1>8 DEF Next

LEMMA DatedKeptInit == Init => Dated /\ Kept
<1> SUFFICES ASSUME Init PROVE Dated /\ Kept
  OBVIOUS
<1>1. \A r \in Store : payload[r] = EmptyPayload
  BY DEF Init
<1>2. \A r \in Store, s \in Stamped : heard[r][s] = {} /\ cut[r][s] = 0
  BY StampedIsSource DEF Init
<1>3. \A s \in Stamped : Cell(EmptyPayload, s, {}, 0)
  BY StampedIsSource DEF Cell, EmptyPayload, Trace, LeavesOf, Held, NoRec
<1>4. NoRollup(EmptyPayload)
  BY DEF NoRollup, EmptyPayload
<1>5. \A s \in Stamped : EmptyPayload.head[s].tags = {}
  BY StampedIsSource DEF EmptyPayload, NoRec
<1> QED
  BY <1>1, <1>2, <1>3, <1>4, <1>5 DEF Init, Dated, Kept

LEMMA KeptAlways ==
  ASSUME NoHeadSummary, ClocksAgree
  PROVE  Spec => [](TypeOK /\ Dated /\ Kept)
<1>1. Init => TypeOK /\ Dated /\ Kept
  BY TypeInit, DatedKeptInit
<1>2. (TypeOK /\ Dated /\ Kept) /\ [Next]_vars => (TypeOK /\ Dated /\ Kept)'
  BY TypeNext, DatedNext, KeptNext
<1> QED
  BY <1>1, <1>2, PTL DEF Spec

-----------------------------------------------------------------------------
(* What a reader sees.                                                     *)

LEMMA CellRead ==
  ASSUME NEW p \in Payload, NEW s \in Stamped, p.head[s].tags \subseteq Instant \ {0},
         NEW H \in SUBSET Instant, NEW c \in Instant, Cell(p, s, H, c)
  PROVE  Register!Newest({t \in H : t > c}) = Latest(p.head[s].tags)
<1> DEFINE T == {t \in H : t > c}
           top == Latest(p.head[s].tags)
           new == Register!Newest(T)
<1>n. /\ top \in Nat /\ c \in Nat /\ H \subseteq Nat /\ T \subseteq Nat
      /\ p.head[s].tags = {} => top = 0
      /\ p.head[s].tags # {} => top > 0
  BY HeldLatest, InstantIsNat
<1>1. \A t \in T : t <= top
  BY DEF Cell
<1>2. top \in T \cup {0}
  BY <1>n DEF Cell, Held
<1>3. new \in T \cup {0} /\ \A u \in T : u <= new
  BY <1>1, <1>2 DEF Register!Newest
<1> HIDE DEF T, top, new
<1>4. CASE top \in T
  <2>1. new \in Nat /\ top <= new /\ (new = 0 \/ new <= top)
    BY <1>1, <1>3, <1>4, <1>n
  <2> QED
    BY <1>n, <2>1 DEF T, top, new
<1>5. CASE top \notin T
  <2>1. top = 0
    BY <1>2, <1>5
  <2>2. T = {}
    BY <1>1, <1>n, <2>1 DEF T
  <2> QED
    BY <1>3, <2>1, <2>2 DEF T, top, new
<1> QED
  BY <1>4, <1>5

RowRead == RowInstants = Register!Read(OfStamped(heard), OfStamped(cut))

LEMMA RowIsRead == TypeOK /\ Dated /\ Kept => RowRead
<1> SUFFICES ASSUME TypeOK, Dated, Kept PROVE RowRead
  OBVIOUS
<1>1. ASSUME NEW r \in Store, NEW s \in Stamped
      PROVE  Latest(payload[r].head[s].tags)
               = Register!Newest({t \in heard[r][s] : t > cut[r][s]})
  <2>1. /\ payload[r] \in Payload
        /\ heard[r][s] \in SUBSET Instant /\ cut[r][s] \in Instant
    BY StampedIsSource DEF TypeOK
  <2>2. payload[r].head[s].tags \subseteq Instant \ {0}
    BY NowIsPast DEF Dated
  <2>3. Cell(payload[r], s, heard[r][s], cut[r][s])
    BY DEF Kept
  <2> QED
    BY <2>1, <2>2, <2>3, CellRead
<1> QED
  BY <1>1 DEF RowRead, RowInstants, OfStamped, Register!Read

-----------------------------------------------------------------------------
(* The theorems.                                                           *)

LEMMA RegisterStep ==
  TypeOK /\ RowRead /\ RowRead' /\ [Next]_vars => [Register!Next]_(Register!vars)
<1> SUFFICES ASSUME TypeOK, RowRead, RowRead', [Next]_vars
             PROVE  [Register!Next]_(Register!vars)
  OBVIOUS
<1>t. /\ Stamped \subseteq Source /\ payload \in [Store -> Payload]
      /\ heard \in [Store -> [Source -> SUBSET Instant]]
      /\ cut \in [Store -> [Source -> Instant]]
  BY StampedIsSource DEF TypeOK
<1>p. RowInstants' = Register!Read(OfStamped(heard'), OfStamped(cut'))
  BY DEF RowRead, OfStamped, Register!Read
<1>q. ASSUME OfStamped(heard') = OfStamped(heard), OfStamped(cut') = OfStamped(cut)
      PROVE  UNCHANGED Register!vars
  BY <1>p, <1>q DEF RowRead, Register!vars, OfStamped
<1>u. ASSUME UNCHANGED <<heard, cut>> PROVE UNCHANGED Register!vars
  BY <1>q, <1>u
<1>w. ASSUME NEW r \in Store, NEW s \in Source, NEW tags \in SUBSET Instant,
             NEW obs \in BOOLEAN, Write(r, s, tags, obs), cut' = cut
      PROVE  [Register!Next]_(Register!vars)
  <2>1. heard' = [heard EXCEPT ![r][s] = @ \cup tags]
    BY <1>w DEF Write
  <2>2. CASE s \in Stamped
    <3>1. OfStamped(heard') = [OfStamped(heard) EXCEPT ![r][s] = @ \cup tags]
      BY <1>t, <2>1, <2>2 DEF OfStamped
    <3>2. OfStamped(cut') = OfStamped(cut)
      BY <1>w
    <3>3. Register!Assert(r, s, tags)
      BY <3>1, <3>2 DEF Register!Assert, OfStamped
    <3> QED
      BY <1>p, <2>2, <3>3 DEF Register!Next, OfStamped
  <2>3. CASE s \notin Stamped
    <3>1. OfStamped(heard') = OfStamped(heard)
      BY <1>t, <2>1, <2>3 DEF OfStamped
    <3> QED
      BY <1>q, <1>w, <3>1
  <2> QED
    BY <2>2, <2>3
<1>c. ASSUME NEW r \in Store, NEW C \in [Stamped -> Instant], heard' = heard,
             \A q \in Store, x \in Stamped :
               cut'[q][x] = IF q = r THEN LaterOf(cut[r][x], C[x]) ELSE cut[q][x]
      PROVE  [Register!Next]_(Register!vars)
  <2>1. OfStamped(cut') = [OfStamped(cut) EXCEPT
                             ![r] = [x \in Stamped |-> Register!Later(@[x], C[x])]]
    BY <1>c DEF OfStamped, LaterOf, Register!Later
  <2>2. OfStamped(heard') = OfStamped(heard)
    BY <1>c
  <2>3. Register!Retract(r, C)
    BY <2>1, <2>2 DEF Register!Retract, OfStamped
  <2> QED
    BY <1>p, <2>3 DEF Register!Next, OfStamped
<1>z. \A a \in Instant : LaterOf(a, 0) = a /\ 0 \in Instant
  BY InstantIsNat DEF LaterOf
<1>1. CASE Tick
  BY <1>1, <1>u DEF Tick
<1>2. ASSUME NEW r \in Store, NEW s \in Source, NEW obs \in BOOLEAN, Say(r, s, obs)
      PROVE  [Register!Next]_(Register!vars)
  <2> DEFINE at == IF s \in Stamped THEN Now(r) ELSE 0
  <2>1. {at} \in SUBSET Instant
    BY NowType, InstantIsNat
  <2>2. Write(r, s, {at}, obs) /\ cut' = cut
    BY <1>2 DEF Say
  <2> HIDE DEF at
  <2> QED
    BY <1>w, <2>1, <2>2
<1>3. ASSUME NEW r \in Store, NEW m \in Sendable, Deliver(r, m)
      PROVE  [Register!Next]_(Register!vars)
  <2>1. m.src \in Source /\ m.tags \in SUBSET Instant /\ m.obs \in BOOLEAN
    BY SendableType DEF Message
  <2>2. Write(r, m.src, m.tags, m.obs) /\ cut' = cut
    BY <1>3 DEF Deliver
  <2> QED
    BY <1>w, <2>1, <2>2
<1>4. ASSUME NEW r \in Store, RemoveGroup(r) PROVE [Register!Next]_(Register!vars)
  <2> DEFINE gone(x) == RecordsOf(payload[r], x) # {}
                        \/ \E t \in Type : x \in payload[r].rollup[t].ids
             C == [x \in Stamped |-> IF gone(x) THEN Now(r) ELSE 0]
  <2>1. C \in [Stamped -> Instant]
    BY NowType, <1>z
  <2>2. \A q \in Store, x \in Stamped :
          cut'[q][x] = IF q = r THEN IF gone(x) THEN LaterOf(cut[r][x], Now(r)) ELSE cut[r][x]
                                ELSE cut[q][x]
    BY <1>4, <1>t DEF RemoveGroup
  <2>3. heard' = heard
    BY <1>4 DEF RemoveGroup
  <2> HIDE DEF gone
  <2>4. \A x \in Stamped :
          LaterOf(cut[r][x], C[x]) = IF gone(x) THEN LaterOf(cut[r][x], Now(r)) ELSE cut[r][x]
    BY <1>t, <1>z
  <2> HIDE DEF C
  <2>5. \A q \in Store, x \in Stamped :
          cut'[q][x] = IF q = r THEN LaterOf(cut[r][x], C[x]) ELSE cut[q][x]
    BY <2>2, <2>4
  <2> QED
    BY <1>c, <2>1, <2>3, <2>5
<1>5. ASSUME NEW r \in Store, NEW s \in Source, NEW at \in Instant, heard' = heard,
             \A q \in Store, x \in Source :
               cut'[q][x] = IF q = r /\ x = s THEN LaterOf(cut[r][s], at) ELSE cut[q][x]
      PROVE  [Register!Next]_(Register!vars)
  <2> DEFINE C == [x \in Stamped |-> IF x = s THEN at ELSE 0]
  <2>1. C \in [Stamped -> Instant]
    BY <1>z
  <2>2. \A x \in Stamped : LaterOf(cut[r][x], C[x]) = IF x = s THEN LaterOf(cut[r][s], at)
                                                             ELSE cut[r][x]
    BY <1>t, <1>z
  <2> HIDE DEF C
  <2>3. \A q \in Store, x \in Stamped :
          cut'[q][x] = IF q = r THEN LaterOf(cut[r][x], C[x]) ELSE cut[q][x]
    BY <1>5, <1>t, <2>2
  <2> QED
    BY <1>5, <1>c, <2>1, <2>3
<1>6. ASSUME NEW r \in Store, NEW s \in Source, RemoveRecord(r, s)
      PROVE  [Register!Next]_(Register!vars)
  <2>1. \A q \in Store, x \in Source :
          cut'[q][x] = IF q = r /\ x = s THEN LaterOf(cut[r][s], Now(r)) ELSE cut[q][x]
    BY <1>6, <1>t DEF RemoveRecord
  <2>2. heard' = heard /\ Now(r) \in Instant
    BY <1>6, NowType DEF RemoveRecord
  <2> QED
    BY <1>5, <2>1, <2>2
<1>7. ASSUME NEW r \in Store, NEW q \in Store, NEW s \in Source, DeliverRetraction(r, q, s)
      PROVE  [Register!Next]_(Register!vars)
  <2>1. \A o \in Store, x \in Source :
          cut'[o][x] = IF o = r /\ x = s THEN LaterOf(cut[r][s], payload[q].tomb[s].at)
                       ELSE cut[o][x]
    BY <1>7, <1>t DEF DeliverRetraction
  <2>2. heard' = heard /\ payload[q].tomb[s].at \in Instant
    BY <1>7, <1>t DEF DeliverRetraction, Payload, Tombstone
  <2> QED
    BY <1>5, <2>1, <2>2
<1>8. ASSUME NEW r \in Store, NEW q \in Store, NEW t \in Type,
             DeliverRollupRetraction(r, q, t)
      PROVE  [Register!Next]_(Register!vars)
  BY <1>8, <1>u DEF DeliverRollupRetraction
<1>9. CASE UNCHANGED vars
  BY <1>9, <1>u DEF vars
<1> QED
  BY <1>1, <1>2, <1>3, <1>4, <1>6, <1>7, <1>8, <1>9 DEF Next

(* Whatever is delivered, twice, late, in any order or never, what a store *)
(* holds of a source whose tags carry an instant is the newest assertion   *)
(* it heard after the latest retraction it knows of, and nothing when      *)
(* there is none: plan, version chain, chain compaction, ingest filter and *)
(* sweep add up to a last-writer-wins register.                            *)
THEOREM GroupImplementsRegister ==
  ASSUME NoHeadSummary, ClocksAgree
  PROVE  Spec => RegisterSpec
<1>1. Init => Register!Init
  BY TypeInit, DatedKeptInit, RowIsRead, StampedIsSource
     DEF Init, Register!Init, RowRead, OfStamped
<1>2. Spec => [](TypeOK /\ RowRead)
  BY KeptAlways, RowIsRead, PTL
<1> QED
  BY <1>1, <1>2, RegisterStep, PTL DEF Spec, RegisterSpec, Register!Spec

(* A retraction survives the next sync: a source that stands at a store    *)
(* was heard there to say the fact after the last retraction of it the     *)
(* store made or received, whatever older copies arrived since.            *)
THEOREM RetractionSurvives ==
  ASSUME NoHeadSummary, ClocksAgree
  PROVE  Spec => []RetractionSurvivesSync
<1>1. ASSUME TypeOK, Kept PROVE RetractionSurvivesSync
  <2>1. ASSUME NEW r \in Store, NEW s \in Standing(payload[r]) \cap Stamped
        PROVE  SaidSinceCut(r, s)
    <3>1. \A t \in Type : payload[r].rollup[t].ids = {}
      BY <1>1 DEF Kept, NoRollup
    <3>2. Held(payload[r].head[s])
      BY <3>1 DEF Standing
    <3>3. Cell(payload[r], s, heard[r][s], cut[r][s])
      BY <1>1 DEF Kept
    <3> QED
      BY <3>2, <3>3 DEF Cell, SaidSinceCut
  <2> QED
    BY <2>1 DEF RetractionSurvivesSync
<1> QED
  BY <1>1, KeptAlways, PTL

LEMMA RemovalStep ==
  ASSUME ClocksAgree, TypeOK, Dated, Next, NEW r \in Store, NEW s \in Stamped,
         removals' # removals, Held(payload[r].head[s]), ~Held(payload'[r].head[s])
  PROVE  Refused(payload'[r], s, payload[r].head[s].tags)
<1> DEFINE tags == payload[r].head[s].tags
<1>t. s \in Source /\ payload \in [Store -> Payload] /\ payload[r].tomb[s] \in Tombstone
  BY StampedIsSource DEF TypeOK, Payload
<1>1. Latest(tags) <= Now(r) /\ Latest(tags) \in Nat /\ Now(r) \in Nat
  <2>1. Now(r) = clock /\ clock \in Nat /\ tags \subseteq 1..clock
    BY NowIsPast, InstantIsNat DEF ClocksAgree, TypeOK, Dated
  <2>2. tags # {} /\ tags \subseteq Instant \ {0}
    BY <2>1, NowIsPast DEF Held
  <2>3. Latest(tags) \in tags /\ Latest(tags) \in Instant
    BY <2>2, HeldLatest
  <2> QED
    BY <2>1, <2>3, InstantIsNat
<1>2. ASSUME NEW ids, Head \in ids,
             payload'[r].tomb[s] = MergeRetractions(payload[r].tomb[s], [ids |-> ids, at |-> Now(r)])
      PROVE  Refused(payload'[r], s, tags)
  <2>1. payload[r].tomb[s].at \in Nat
    BY <1>t, InstantIsNat DEF Tombstone
  <2>2. Head \in payload'[r].tomb[s].ids
    BY <1>2 DEF MergeRetractions
  <2>3. payload'[r].tomb[s].at \in Nat /\ Latest(tags) <= payload'[r].tomb[s].at
    BY <1>1, <1>2, <2>1 DEF MergeRetractions, LaterOf
  <2> QED
    BY <2>2, <2>3 DEF Refused, Suppresses, NotLaterThan
<1> HIDE DEF tags
<1>3. ASSUME NEW q \in Store, RemoveGroup(q) PROVE Refused(payload'[r], s, tags)
  <2>1. q = r
    BY <1>3, <1>t DEF RemoveGroup
  <2>2. Head \in RecordsOf(payload[r], s)
    BY DEF RecordsOf
  <2>3. payload'[r] = GroupRemoved(payload[r], Now(r))
    BY <1>3, <1>t, <2>1 DEF RemoveGroup
  <2>4. payload'[r].tomb[s] = MergeRetractions(payload[r].tomb[s],
                                [ids |-> RecordsOf(payload[r], s), at |-> Now(r)])
    BY <1>t, <2>2, <2>3 DEF GroupRemoved, EmptyPayload
  <2> QED
    BY <1>2, <2>2, <2>4
<1>4. ASSUME NEW q \in Store, NEW x \in Source, RemoveRecord(q, x)
      PROVE  Refused(payload'[r], s, tags)
  <2>1. q = r
    BY <1>4, <1>t DEF RemoveRecord
  <2>2. payload'[r] = RecordRemoved(payload[r], x, Now(r))
    BY <1>4, <1>t, <2>1 DEF RemoveRecord
  <2>3. x = s
    BY <1>t, <2>2 DEF RecordRemoved, Payload
  <2>4. payload'[r].tomb[s] = MergeRetractions(payload[r].tomb[s],
                                               [ids |-> {Head}, at |-> Now(r)])
    BY <1>t, <2>2, <2>3 DEF RecordRemoved, Payload
  <2> QED
    BY <1>2, <2>4
<1>5. \/ \E q \in Store : RemoveGroup(q)
      \/ \E q \in Store, x \in Source : RemoveRecord(q, x)
  BY DEF Next, Tick, Say, Deliver, DeliverRetraction, DeliverRollupRetraction
<1> QED
  BY <1>3, <1>4, <1>5 DEF tags

(* The store that removed a record of a source refuses to take the same    *)
(* record again, so what it took out does not come back with a late copy.  *)
THEOREM RemovalRefuses ==
  ASSUME ClocksAgree
  PROVE  Spec => RemovalRefusesWhatItRemoved
<1> DEFINE Refusal == \A r \in Store, s \in Stamped :
             LET rec == payload[r].head[s] IN
             removals' # removals /\ Held(rec) /\ ~Held(payload'[r].head[s]) =>
               Refused(payload'[r], s, rec.tags)
<1>1. Init => TypeOK /\ Dated
  BY TypeInit, DatedKeptInit
<1>2. TypeOK /\ Dated /\ [Next]_vars => (TypeOK /\ Dated)'
  BY TypeNext, DatedNext
<1>3. TypeOK /\ Dated /\ [Next]_vars => [Refusal]_vars
  BY RemovalStep
<1> HIDE DEF Refusal
<1>4. Spec => [][Refusal]_vars
  BY <1>1, <1>2, <1>3, PTL DEF Spec
<1> QED
  BY <1>4 DEF RemovalRefusesWhatItRemoved, Refusal

-----------------------------------------------------------------------------
(* No chain a store holds is long enough to be compacted again.            *)

FiniteChains(p) == \A s \in Source : IsFiniteSet(LeafEntries(p, s))

Short(p) ==
  \A s \in Source : /\ IsFiniteSet(LeafEntries(p, s))
                    /\ Cardinality(LeafEntries(p, s)) < ChainThreshold

LEMMA LeafEntriesType ==
  ASSUME NEW p \in Payload, NEW s \in Source
  PROVE  \A e \in LeafEntries(p, s) : /\ e.id \in Nat /\ e.at \in Nat
                                      /\ e = [id |-> e.id, at |-> e.at]
<1>1. \A l \in LeavesOf(p, s) : l.n \in Nat /\ RecordTime(l.rec) \in Nat
  BY LeafType
<1> QED
  BY <1>1 DEF LeafEntries

(* Newest(E, k) has at most k entries: no two have as many newer ones.     *)
LEMMA NewestSize ==
  ASSUME NEW E, IsFiniteSet(E), NEW k \in Nat,
         \A e \in E : e.id \in Nat /\ e.at \in Nat /\ e = [id |-> e.id, at |-> e.at]
  PROVE  IsFiniteSet(Newest(E, k)) /\ Cardinality(Newest(E, k)) <= k
<1> DEFINE Newer(e) == {f \in E : NewestFirst(f, e)}
           N == Newest(E, k)
           rank == [e \in N |-> Cardinality(Newer(e)) + 1]
<1>1. N \subseteq E /\ \A e \in N : Cardinality(Newer(e)) < k
  BY DEF Newest
<1>2. \A e \in E : IsFiniteSet(Newer(e)) /\ Cardinality(Newer(e)) \in Nat
  <2>1. ASSUME NEW e \in E PROVE IsFiniteSet(Newer(e)) /\ Cardinality(Newer(e)) \in Nat
    <3>1. Newer(e) \in SUBSET E
      OBVIOUS
    <3> HIDE DEF Newer
    <3>2. IsFiniteSet(Newer(e))
      BY <3>1, FS_Subset
    <3> QED
      BY <3>2, FS_CardinalityType
  <2> QED
    BY <2>1
<1>3. ASSUME NEW e \in E, NEW d \in E, NewestFirst(e, d)
      PROVE  Cardinality(Newer(e)) # Cardinality(Newer(d))
  <2>1. Newer(e) \in SUBSET Newer(d)
    <3>1. ASSUME NEW f \in E, NewestFirst(f, e) PROVE NewestFirst(f, d)
      BY <1>3, <3>1 DEF NewestFirst
    <3> QED
      BY <3>1
  <2>2. e \in Newer(d) /\ e \notin Newer(e)
    BY <1>3 DEF NewestFirst
  <2> HIDE DEF Newer
  <2> QED
    BY <1>2, <2>1, <2>2, FS_Subset
<1>4. \A e, d \in E : e # d => NewestFirst(e, d) \/ NewestFirst(d, e)
  <2> SUFFICES ASSUME NEW e \in E, NEW d \in E, e # d
               PROVE  NewestFirst(e, d) \/ NewestFirst(d, e)
    OBVIOUS
  <2>1. e.id # d.id \/ e.at # d.at
    OBVIOUS
  <2> QED
    BY <2>1 DEF NewestFirst
<1> HIDE DEF Newer, N
<1>5. rank \in [N -> 1..k]
  BY <1>1, <1>2
<1>6. \A e, d \in N : rank[e] = rank[d] => e = d
  BY <1>1, <1>2, <1>3, <1>4
<1>7. rank \in Injection(N, 1..k)
  BY <1>5, <1>6 DEF Injection, IsInjective
<1>8. IsFiniteSet(1..k) /\ Cardinality(1..k) = k
  <2>1. Cardinality(1..k) = IF 1 > k THEN 0 ELSE k - 1 + 1
    BY FS_Interval
  <2> QED
    BY <2>1, FS_Interval
<1> HIDE DEF rank
<1>9. IsFiniteSet(N) /\ Cardinality(N) <= k
  BY <1>7, <1>8, FS_Injection
<1> QED
  BY <1>9 DEF N

LEMMA SubsetShort ==
  ASSUME NEW p, NEW q, Short(p), q.leaf \subseteq p.leaf
  PROVE  Short(q)
<1>1. ASSUME NEW s \in Source PROVE LeafEntries(q, s) \in SUBSET LeafEntries(p, s)
  BY DEF LeafEntries, LeavesOf
<1>2. ASSUME NEW s \in Source
      PROVE  /\ IsFiniteSet(LeafEntries(q, s))
             /\ Cardinality(LeafEntries(q, s)) < ChainThreshold
  <2>1. /\ IsFiniteSet(LeafEntries(p, s))
        /\ Cardinality(LeafEntries(p, s)) < ChainThreshold
    BY DEF Short
  <2>2. /\ IsFiniteSet(LeafEntries(q, s))
        /\ Cardinality(LeafEntries(q, s)) <= Cardinality(LeafEntries(p, s))
    BY <1>1, <2>1, FS_Subset
  <2>3. Cardinality(LeafEntries(q, s)) \in Nat /\ Cardinality(LeafEntries(p, s)) \in Nat
    BY <2>1, <2>2, FS_CardinalityType
  <2> QED
    BY <2>1, <2>2, <2>3, BoundAssumption
<1> QED
  BY <1>2 DEF Short

LEMMA CompactedShort ==
  ASSUME NEW p \in Payload, FiniteChains(p)
  PROVE  Short(Compacted(p))
<1> DEFINE h == HeadsAbsorbed(p)
<1>1. h \in Payload /\ h.leaf \subseteq p.leaf
  BY HeadsAbsorbedType DEF HeadsAbsorbed, Payload
<1> HIDE DEF h
<1>2. ASSUME NEW s \in Source
      PROVE  /\ IsFiniteSet(LeafEntries(LeavesAbsorbed(h), s))
             /\ Cardinality(LeafEntries(LeavesAbsorbed(h), s)) < ChainThreshold
  <2> DEFINE E == LeafEntries(h, s)
             F == LeafEntries(LeavesAbsorbed(h), s)
  <2>1. IsFiniteSet(E)
    <3>1. E \in SUBSET LeafEntries(p, s)
      BY <1>1 DEF LeafEntries, LeavesOf
    <3> QED
      BY <3>1, FS_Subset DEF FiniteChains
  <2>2. ASSUME NEW e \in F PROVE e \in E /\ e \notin LeavesToAbsorb(h, s)
    <3>1. PICK j \in LeavesOf(LeavesAbsorbed(h), s) : e = [id |-> j.n, at |-> RecordTime(j.rec)]
      BY DEF LeafEntries
    <3>2. PICK l \in LeavesOf(h, s) : /\ j = Rewired(h, l)
                                      /\ l.n \notin {d.id : d \in LeavesToAbsorb(h, s)}
      BY <1>1, KeptLeaves
    <3>3. e = EntryOf(l) /\ e.id = l.n
      BY <1>1, <3>1, <3>2, LeafType, RewiredLeaf DEF EntryOf
    <3>4. e \in E
      BY <1>1, <3>3, LeafType
    <3> QED
      BY <3>2, <3>3, <3>4
  <2> HIDE DEF E, F
  <2>k. ChainKeep \in Nat /\ ChainThreshold \in Nat /\ ChainKeep < ChainThreshold
    BY BoundAssumption, ThresholdAssumption
  <2>3. CASE Cardinality(E) < ChainThreshold
    <3>1. F \in SUBSET E
      BY <2>2
    <3>2. IsFiniteSet(F) /\ Cardinality(F) <= Cardinality(E)
      BY <2>1, <3>1, FS_Subset
    <3>3. Cardinality(F) \in Nat /\ Cardinality(E) \in Nat
      BY <2>1, <3>2, FS_CardinalityType
    <3> QED
      BY <2>3, <2>k, <3>2, <3>3 DEF F
  <2>4. CASE ~(Cardinality(E) < ChainThreshold)
    <3>1. F \in SUBSET Newest(E, ChainKeep)
      BY <2>2, <2>4 DEF LeavesToAbsorb, E
    <3>2. IsFiniteSet(Newest(E, ChainKeep)) /\ Cardinality(Newest(E, ChainKeep)) <= ChainKeep
      BY <1>1, <2>1, <2>k, LeafEntriesType, NewestSize DEF E
    <3>3. IsFiniteSet(F) /\ Cardinality(F) <= Cardinality(Newest(E, ChainKeep))
      BY <3>1, <3>2, FS_Subset
    <3>4. Cardinality(F) \in Nat /\ Cardinality(Newest(E, ChainKeep)) \in Nat
      BY <3>2, <3>3, FS_CardinalityType
    <3> QED
      BY <2>k, <3>2, <3>3, <3>4 DEF F
  <2> QED
    BY <2>3, <2>4
<1> QED
  BY <1>2 DEF Short, Compacted, h

LEMMA AppendedShort ==
  ASSUME NEW p \in Payload, Short(p), NEW s \in Source, NEW tags \in SUBSET Instant,
         NEW obs \in BOOLEAN, NEW now \in Instant
  PROVE  Short(Appended(p, s, tags, obs, now))
<1> DEFINE a == Asserted(p, s, tags, obs, now)
           demoted == [src |-> s, n |-> NextChainVersion(p.head[s]), rec |-> p.head[s]]
<1>1. a \in Payload /\ a.leaf \subseteq p.leaf \cup {demoted}
  <2>1. a.leaf = Demoted(p, s, tags, obs)
    BY DEF Asserted, Payload
  <2>2. Demoted(p, s, tags, obs) \subseteq p.leaf \cup {demoted}
    BY DEF Demoted
  <2> QED
    BY <2>1, <2>2, AssertedType
<1> HIDE DEF a, demoted
<1>2. ASSUME NEW x \in Source PROVE IsFiniteSet(LeafEntries(a, x))
  <2>1. LeafEntries(a, x) \in SUBSET (LeafEntries(p, x) \cup {EntryOf(demoted)})
    BY <1>1 DEF LeafEntries, LeavesOf, EntryOf
  <2>2. IsFiniteSet(LeafEntries(p, x) \cup {EntryOf(demoted)})
    BY FS_AddElement DEF Short
  <2> QED
    BY <2>1, <2>2, FS_Subset
<1>3. FiniteChains(a) /\ FiniteChains(p)
  BY <1>2 DEF FiniteChains, Short
<1> QED
  BY <1>1, <1>3, CompactedShort DEF Appended, a

LEMMA RemovalShort ==
  ASSUME NEW p \in Payload, Short(p)
  PROVE  /\ \A at \in Instant : Short(GroupRemoved(p, at))
         /\ \A s \in Source, at \in Instant : Short(RecordRemoved(p, s, at))
         /\ \A s \in Source, x \in Tombstone : Short(RetractionAppended(p, s, x))
         /\ \A t \in Type, at \in Instant : Short(RollupRetractionAppended(p, t, at))
<1>1. ASSUME NEW at \in Instant PROVE Short(GroupRemoved(p, at))
  <2>1. GroupRemoved(p, at).leaf \subseteq p.leaf
    BY DEF GroupRemoved, EmptyPayload
  <2> QED
    BY <2>1, SubsetShort
<1>2. ASSUME NEW s \in Source, NEW at \in Instant PROVE Short(RecordRemoved(p, s, at))
  <2>1. RecordRemoved(p, s, at).leaf \subseteq p.leaf
    BY DEF RecordRemoved, Payload
  <2> QED
    BY <2>1, SubsetShort
<1>3. ASSUME NEW s \in Source, NEW x \in Tombstone PROVE Short(RetractionAppended(p, s, x))
  <2>1. RetractionAppended(p, s, x).leaf \subseteq p.leaf
    BY DEF RetractionAppended, Payload
  <2> QED
    BY <2>1, SubsetShort
<1>4. ASSUME NEW t \in Type, NEW at \in Instant PROVE Short(RollupRetractionAppended(p, t, at))
  <2>1. RollupRetractionAppended(p, t, at).leaf \subseteq p.leaf
    BY DEF RollupRetractionAppended, Payload
  <2> QED
    BY <2>1, SubsetShort
<1> QED
  BY <1>1, <1>2, <1>3, <1>4

(* A payload with short chains is already compacted.                       *)
LEMMA SettledPayload ==
  ASSUME NoHeadSummary, NEW p \in Payload, Short(p)
  PROVE  /\ Compacted(p).leaf = p.leaf
         /\ Compacted(p).head = p.head
         /\ Compacted(p).tomb = p.tomb
         /\ Compacted(p).rollup = p.rollup
         /\ Compacted(p).rollupTomb = p.rollupTomb
<1> DEFINE h == HeadsAbsorbed(p)
<1>1. {e.id : e \in UNION {HeadsToAbsorb(p, t) : t \in Type}} = {}
  BY NoneAbsorbed
<1>2. h.leaf = p.leaf /\ h.rollupTomb = p.rollupTomb /\ h \in Payload
  BY <1>1, HeadsAbsorbedType DEF HeadsAbsorbed, Payload
<1> HIDE DEF h
<1>3. \A s \in Source : LeavesToAbsorb(h, s) = {}
  <2>1. \A s \in Source : LeafEntries(h, s) = LeafEntries(p, s)
    BY <1>2 DEF LeafEntries, LeavesOf
  <2> QED
    BY <2>1 DEF LeavesToAbsorb, Short
<1>4. \A l \in h.leaf : l.src \in Source /\ ~IsRewired(h, l)
  BY <1>2, <1>3 DEF Payload, Leaf, IsRewired
<1>5. LeavesAbsorbed(h).leaf = h.leaf
  <2> DEFINE kept == {l \in h.leaf : l.n \notin {e.id : e \in LeavesToAbsorb(h, l.src)}}
  <2>1. LeavesAbsorbed(h).leaf = {IF IsRewired(h, l) THEN [l EXCEPT !.rec.behind = ChainSummary]
                                                     ELSE l : l \in kept}
    BY <1>2 DEF LeavesAbsorbed, Payload
  <2>2. kept = h.leaf
    BY <1>3, <1>4
  <2> HIDE DEF kept
  <2> QED
    BY <1>4, <2>1, <2>2
<1>6. LeavesAbsorbed(h).rollupTomb = h.rollupTomb
  BY <1>2 DEF LeavesAbsorbed, Payload
<1> QED
  BY <1>2, <1>5, <1>6, CompactedCell DEF Compacted, h

-----------------------------------------------------------------------------
(* What was heard is held, or a tombstone names it.                        *)

Recorded(p, H) ==
  \A s \in RealSource : H[s] # {} => Held(p.head[s]) \/ Head \in p.tomb[s].ids

Settled ==
  /\ \A m \in said : m.tags # {}
  /\ \A r \in Store : Short(payload[r]) /\ Recorded(payload[r], heard[r])

LEMMA SendableTagged ==
  ASSUME Settled, NEW m \in Sendable
  PROVE  m.tags # {}
<1>1. CASE m \in said
  BY <1>1 DEF Settled
<1>2. CASE m \in PeerRows
  <2>1. PICK q \in Store, s \in Source : Held(payload[q].head[s]) /\ m = RowOf(q, s)
    BY <1>2 DEF PeerRows
  <2> QED
    BY <2>1 DEF RowOf, Held
<1> QED
  BY <1>1, <1>2 DEF Sendable

LEMMA AppendedRecorded ==
  ASSUME NoHeadSummary, NEW p \in Payload, NoRollup(p), NEW H \in [Source -> SUBSET Instant],
         Recorded(p, H), NEW s \in Source, NEW tags \in SUBSET Instant, tags # {},
         NEW obs \in BOOLEAN, NEW now \in Instant
  PROVE  Recorded(Appended(p, s, tags, obs, now), [H EXCEPT ![s] = @ \cup tags])
<1> DEFINE q == Appended(p, s, tags, obs, now)
           a == Asserted(p, s, tags, obs, now)
<1>1. q.tomb = p.tomb
  BY AppendedTombs
<1>2. CASE Refused(p, s, tags)
  <2>1. q.head = p.head
    BY <1>2, CompactedCell DEF Appended
  <2>2. s \in RealSource => Head \in p.tomb[s].ids
    BY <1>2 DEF Refused, RealSource, NoRollup, Suppresses
  <2>3. \A x \in RealSource \ {s} : [H EXCEPT ![s] = @ \cup tags][x] = H[x]
    BY DEF RealSource
  <2> HIDE DEF q
  <2>4. Recorded(q, [H EXCEPT ![s] = @ \cup tags])
    BY <1>1, <2>1, <2>2, <2>3 DEF Recorded
  <2> QED
    BY <2>4 DEF q
<1>3. CASE ~Refused(p, s, tags)
  <2>1. a \in Payload
    BY AssertedType
  <2>2. q.head = a.head
    BY <1>3, <2>1, CompactedCell DEF Appended
  <2>3. \A x \in RealSource : a.head[x] = IF x = s THEN Planned(p.head[s], tags, obs, now)
                                                   ELSE p.head[x]
    BY DEF Asserted, Payload, RealSource
  <2>4. Held(Planned(p.head[s], tags, obs, now))
    BY PlannedHeld DEF Payload
  <2>5. \A x \in RealSource \ {s} : [H EXCEPT ![s] = @ \cup tags][x] = H[x]
    BY DEF RealSource
  <2> HIDE DEF q, a
  <2>6. ASSUME NEW x \in RealSource, [H EXCEPT ![s] = @ \cup tags][x] # {}
        PROVE  Held(q.head[x]) \/ Head \in q.tomb[x].ids
    <3>1. CASE x = s
      BY <2>2, <2>3, <2>4, <3>1
    <3>2. CASE x # s
      BY <1>1, <2>2, <2>3, <2>5, <2>6, <3>2 DEF Recorded
    <3> QED
      BY <3>1, <3>2
  <2>7. Recorded(q, [H EXCEPT ![s] = @ \cup tags])
    BY <2>6 DEF Recorded
  <2> QED
    BY <2>7 DEF q
<1> QED
  BY <1>2, <1>3

LEMMA RemovalRecorded ==
  ASSUME NEW p \in Payload, NEW H, Recorded(p, H)
  PROVE  /\ \A at \in Instant : Recorded(GroupRemoved(p, at), H)
         /\ \A s \in Source, at \in Instant : Recorded(RecordRemoved(p, s, at), H)
         /\ \A s \in Source, x \in Tombstone : Recorded(RetractionAppended(p, s, x), H)
         /\ \A t \in Type, at \in Instant : Recorded(RollupRetractionAppended(p, t, at), H)
<1>0. ASSUME NEW q, \A s \in RealSource :
                      /\ Head \in p.tomb[s].ids => Head \in q.tomb[s].ids
                      /\ Held(p.head[s]) => Held(q.head[s]) \/ Head \in q.tomb[s].ids
      PROVE  Recorded(q, H)
  BY <1>0 DEF Recorded
<1>r. RealSource \subseteq Source
  BY DEF RealSource
<1>1. ASSUME NEW at \in Instant PROVE Recorded(GroupRemoved(p, at), H)
  <2>1. ASSUME NEW s \in RealSource
        PROVE  /\ Head \in p.tomb[s].ids => Head \in GroupRemoved(p, at).tomb[s].ids
               /\ Held(p.head[s]) => Head \in GroupRemoved(p, at).tomb[s].ids
    <3>1. GroupRemoved(p, at).tomb[s]
            = IF RecordsOf(p, s) = {} THEN p.tomb[s]
              ELSE MergeRetractions(p.tomb[s], [ids |-> RecordsOf(p, s), at |-> at])
      BY <1>r DEF GroupRemoved, EmptyPayload
    <3>2. Held(p.head[s]) => Head \in RecordsOf(p, s)
      BY DEF RecordsOf
    <3> QED
      BY <3>1, <3>2 DEF MergeRetractions
  <2> QED
    BY <1>0, <2>1
<1>2. ASSUME NEW s \in Source, NEW at \in Instant PROVE Recorded(RecordRemoved(p, s, at), H)
  <2>1. /\ RecordRemoved(p, s, at).tomb[s].ids = p.tomb[s].ids \cup {Head}
        /\ \A x \in Source \ {s} : /\ RecordRemoved(p, s, at).tomb[x] = p.tomb[x]
                                  /\ RecordRemoved(p, s, at).head[x] = p.head[x]
    BY DEF RecordRemoved, Payload, MergeRetractions
  <2> QED
    BY <1>0, <1>r, <2>1
<1>3. ASSUME NEW s \in Source, NEW x \in Tombstone PROVE Recorded(RetractionAppended(p, s, x), H)
  <2> DEFINE merged == MergeRetractions(p.tomb[s], x)
             q == RetractionAppended(p, s, x)
  <2>1. /\ q.tomb[s] = merged
        /\ q.head[s] = IF Suppresses(merged, Head, RecordTime(p.head[s]))
                       THEN NoRec ELSE p.head[s]
        /\ \A y \in Source \ {s} : q.head[y] = p.head[y] /\ q.tomb[y] = p.tomb[y]
    BY DEF RetractionAppended, Payload
  <2>2. p.tomb[s].ids \subseteq merged.ids
    BY DEF MergeRetractions
  <2>3. Suppresses(merged, Head, RecordTime(p.head[s])) => Head \in merged.ids
    BY DEF Suppresses
  <2> HIDE DEF merged, q
  <2>4. Recorded(q, H)
    BY <1>0, <1>r, <2>1, <2>2, <2>3
  <2> QED
    BY <2>4 DEF q
<1>4. ASSUME NEW t \in Type, NEW at \in Instant PROVE Recorded(RollupRetractionAppended(p, t, at), H)
  <2>1. /\ RollupRetractionAppended(p, t, at).tomb = p.tomb
        /\ RollupRetractionAppended(p, t, at).head = p.head
    BY DEF RollupRetractionAppended, Payload
  <2> QED
    BY <1>0, <2>1
<1> QED
  BY <1>1, <1>2, <1>3, <1>4

LEMMA SettledNext ==
  ASSUME NoHeadSummary, TypeOK, \A r \in Store : NoRollup(payload[r]), Settled, [Next]_vars
  PROVE  Settled'
<1>t. /\ payload \in [Store -> Payload]
      /\ heard \in [Store -> [Source -> SUBSET Instant]]
      /\ \A r \in Store : Short(payload[r]) /\ Recorded(payload[r], heard[r])
  BY DEF TypeOK, Settled
<1>1. ASSUME NEW r \in Store, NEW q, Short(q), Recorded(q, heard[r]),
             payload' = [payload EXCEPT ![r] = q], heard' = heard, said' = said
      PROVE  Settled'
  <2>1. \A x \in Store : payload'[x] = IF x = r THEN q ELSE payload[x]
    BY <1>t, <1>1
  <2>2. \A x \in Store : Short(payload'[x]) /\ Recorded(payload'[x], heard'[x])
    BY <1>t, <1>1, <2>1
  <2> QED
    BY <1>1, <2>2 DEF Settled
<1>2. CASE UNCHANGED <<payload, said, heard>>
  BY <1>2 DEF Settled
<1>3. ASSUME NEW r \in Store, NEW s \in Source, NEW tags \in SUBSET Instant, tags # {},
             NEW obs \in BOOLEAN, Write(r, s, tags, obs)
      PROVE  \A x \in Store : Short(payload'[x]) /\ Recorded(payload'[x], heard'[x])
  <2>1. /\ Short(Appended(payload[r], s, tags, obs, Now(r)))
        /\ Recorded(Appended(payload[r], s, tags, obs, Now(r)),
                    [heard[r] EXCEPT ![s] = @ \cup tags])
    BY <1>t, <1>3, NowType, AppendedShort, AppendedRecorded
  <2>2. /\ payload'[r] = Appended(payload[r], s, tags, obs, Now(r))
        /\ heard'[r] = [heard[r] EXCEPT ![s] = @ \cup tags]
        /\ \A x \in Store \ {r} : payload'[x] = payload[x] /\ heard'[x] = heard[x]
    BY <1>t, <1>3 DEF Write
  <2> QED
    BY <1>t, <2>1, <2>2
<1>4. ASSUME NEW r \in Store, NEW s \in Source, NEW obs \in BOOLEAN, Say(r, s, obs)
      PROVE  Settled'
  <2> DEFINE at == IF s \in Stamped THEN Now(r) ELSE 0
             m == [src |-> s, tags |-> {at}, obs |-> obs]
  <2>1. {at} \in SUBSET Instant /\ {at} # {}
    BY NowType, InstantIsNat
  <2>2. said' = said \cup {m} /\ m.tags = {at} /\ Write(r, s, {at}, obs)
    BY <1>4 DEF Say
  <2> HIDE DEF at
  <2>3. \A x \in Store : Short(payload'[x]) /\ Recorded(payload'[x], heard'[x])
    BY <1>3, <2>1, <2>2
  <2> HIDE DEF m
  <2> QED
    BY <2>1, <2>2, <2>3 DEF Settled
<1>5. ASSUME NEW r \in Store, NEW m \in Sendable, Deliver(r, m)
      PROVE  Settled'
  <2>1. m.src \in Source /\ m.tags \in SUBSET Instant /\ m.obs \in BOOLEAN
    BY SendableType DEF Message
  <2>2. \A x \in Store : Short(payload'[x]) /\ Recorded(payload'[x], heard'[x])
    BY <1>3, <1>5, <2>1, SendableTagged DEF Deliver
  <2> QED
    BY <1>5, <2>2 DEF Settled, Deliver
<1>6. ASSUME NEW r \in Store, RemoveGroup(r) PROVE Settled'
  BY <1>t, <1>1, <1>6, NowType, RemovalShort, RemovalRecorded DEF RemoveGroup
<1>7. ASSUME NEW r \in Store, NEW s \in Source, RemoveRecord(r, s) PROVE Settled'
  BY <1>t, <1>1, <1>7, NowType, RemovalShort, RemovalRecorded DEF RemoveRecord
<1>8. ASSUME NEW r \in Store, NEW q \in Store, NEW s \in Source, DeliverRetraction(r, q, s)
      PROVE  Settled'
  <2>1. payload[q].tomb[s] \in Tombstone
    BY <1>t DEF Payload
  <2>2. /\ Short(RetractionAppended(payload[r], s, payload[q].tomb[s]))
        /\ Recorded(RetractionAppended(payload[r], s, payload[q].tomb[s]), heard[r])
    BY <1>t, <2>1, RemovalShort, RemovalRecorded
  <2> QED
    BY <1>1, <1>8, <2>2 DEF DeliverRetraction
<1>9. ASSUME NEW r \in Store, NEW q \in Store, NEW t \in Type,
             DeliverRollupRetraction(r, q, t)
      PROVE  Settled'
  <2>1. payload[q].rollupTomb[t] \in Instant
    BY <1>t DEF Payload
  <2>2. /\ Short(RollupRetractionAppended(payload[r], t, payload[q].rollupTomb[t]))
        /\ Recorded(RollupRetractionAppended(payload[r], t, payload[q].rollupTomb[t]), heard[r])
    BY <1>t, <2>1, RemovalShort, RemovalRecorded
  <2> QED
    BY <1>1, <1>9, <2>2 DEF DeliverRollupRetraction
<1> QED
  BY <1>2, <1>4, <1>5, <1>6, <1>7, <1>8, <1>9 DEF Next, vars, Tick

LEMMA SettledInit == Init => Settled
<1> SUFFICES ASSUME Init PROVE Settled
  OBVIOUS
<1>1. \A s \in Source : LeafEntries(EmptyPayload, s) = {}
  BY DEF LeafEntries, LeavesOf, EmptyPayload
<1>2. 0 < ChainThreshold
  BY BoundAssumption, ThresholdAssumption
<1>3. Short(EmptyPayload)
  BY <1>1, <1>2, FS_EmptySet DEF Short
<1> QED
  BY <1>3 DEF Init, Settled, Recorded, RealSource

-----------------------------------------------------------------------------
(* A re-delivery.                                                          *)

LEMMA RedeliveredAsserted ==
  ASSUME NoHeadSummary, TypeOK, Dated, Kept, AllPlain, Settled,
         NEW r \in Store, NEW m \in Redelivered(r), ~Refused(payload[r], m.src, m.tags)
  PROVE  /\ Held(payload[r].head[m.src])
         /\ ~SupersedesPrior(m.tags, m.obs, payload[r].head[m.src])
         /\ Latest(payload[r].head[m.src].tags \cup m.tags)
              = Latest(payload[r].head[m.src].tags)
<1> DEFINE p == payload[r]
           s == m.src
           tags == m.tags
           head == p.head[s].tags
<1>1. /\ m \in said /\ s \in RealSource /\ tags \subseteq heard[r][s]
      /\ s \in Source /\ tags \in SUBSET Instant /\ tags # {} /\ m.obs = FALSE
      /\ s \notin Stamped => tags \subseteq {0}
  BY DEF Redelivered, TypeOK, Message, RealSource, Settled, AllPlain, PlainMessage
<1>2. p \in Payload /\ head \in SUBSET Instant /\ p.tomb[s] \in Tombstone
  BY <1>1 DEF TypeOK, Payload, Rec
<1>3. ~Suppresses(p.tomb[s], Head, Latest(tags))
  BY DEF Refused
<1>4. Latest(tags) \in Nat /\ Latest(head) \in Nat
  BY <1>1, <1>2, LatestIsGreatest, InstantIsNat
<1>5. CASE s \in Stamped
  <2>1. /\ Cell(p, s, heard[r][s], cut[r][s])
        /\ heard[r][s] \subseteq 1..clock /\ cut[r][s] \in Nat
    BY <1>1, <1>5, InstantIsNat DEF Kept, Dated, TypeOK
  <2>2. tags \in SUBSET (Instant \ {0})
    <3>1. 1..clock \subseteq Instant \ {0}
      BY NowIsPast
    <3> QED
      BY <1>1, <2>1, <3>1
  <2>3. Latest(tags) \in tags /\ Latest(tags) > 0
    BY <1>1, <2>2, HeldLatest
  <2>4. Latest(tags) > cut[r][s]
    <3>1. p.tomb[s].at = cut[r][s] /\ (p.tomb[s].ids # {} => Head \in p.tomb[s].ids)
      BY <2>1 DEF Cell
    <3>2. CASE p.tomb[s].ids = {}
      <4>1. cut[r][s] = 0
        BY <1>2, <3>1, <3>2 DEF Tombstone
      <4> QED
        BY <2>3, <4>1
    <3>3. CASE p.tomb[s].ids # {}
      BY <1>3, <1>4, <2>1, <3>1, <3>3 DEF Suppresses, NotLaterThan
    <3> QED
      BY <3>2, <3>3
  <2>5. Latest(tags) <= Latest(head)
    BY <1>1, <2>1, <2>3, <2>4 DEF Cell
  <2>6. Held(p.head[s])
    <3>1. head = {} => Latest(head) = 0
      BY <1>2, LatestIsGreatest
    <3> QED
      BY <1>4, <2>3, <2>5, <3>1 DEF Held
  <2>7. ~SupersedesPrior(tags, m.obs, p.head[s])
    BY <1>1, <1>4, <2>5 DEF SupersedesPrior
  <2>8. Latest(head \cup tags) = LaterOf(Latest(head), Latest(tags))
    BY <1>1, <1>2, LatestOfUnion
  <2>9. LaterOf(Latest(head), Latest(tags)) = Latest(head)
    BY <1>4, <2>5 DEF LaterOf
  <2> QED
    BY <2>6, <2>7, <2>8, <2>9
<1>6. CASE s \notin Stamped
  <2>1. Latest(tags) = 0
    BY <1>1, <1>6, LatestIsGreatest
  <2>2. Head \notin p.tomb[s].ids
    BY <1>3, <2>1 DEF Suppresses, NotLaterThan
  <2>3. heard[r][s] # {}
    BY <1>1
  <2>4. Held(p.head[s])
    BY <1>1, <2>2, <2>3 DEF Settled, Recorded
  <2>5. ~SupersedesPrior(tags, m.obs, p.head[s])
    BY <2>1 DEF SupersedesPrior
  <2>6. Latest(head \cup tags) = LaterOf(Latest(head), Latest(tags))
    BY <1>1, <1>2, LatestOfUnion
  <2>7. LaterOf(Latest(head), Latest(tags)) = Latest(head)
    BY <1>4, <2>1 DEF LaterOf
  <2> QED
    BY <2>4, <2>5, <2>6, <2>7
<1> QED
  BY <1>5, <1>6

LEMMA RedeliveryStep ==
  ASSUME NoHeadSummary, TypeOK, Dated, Kept, AllPlain, Settled,
         NEW r \in Store, NEW m \in Redelivered(r)
  PROVE  /\ Standing(After(r, m)) \cap RealSource = Standing(payload[r]) \cap RealSource
         /\ After(r, m).leaf = payload[r].leaf
         /\ Latest(After(r, m).head[m.src].tags) = Latest(payload[r].head[m.src].tags)
<1> DEFINE p == payload[r]
           s == m.src
           a == Asserted(p, s, m.tags, m.obs, Now(r))
           q == After(r, m)
<1>1. /\ p \in Payload /\ Short(p) /\ s \in Source /\ s \in RealSource
      /\ m.tags \in SUBSET Instant /\ m.obs \in BOOLEAN /\ Now(r) \in Instant
  BY NowType DEF TypeOK, Settled, Redelivered, Message, RealSource
<1>2. CASE Refused(p, s, m.tags)
  <2>1. q = Compacted(p)
    BY <1>2 DEF After, Appended
  <2>2. /\ q.leaf = p.leaf /\ q.head = p.head /\ q.tomb = p.tomb
        /\ q.rollup = p.rollup /\ q.rollupTomb = p.rollupTomb
    BY <1>1, <2>1, SettledPayload
  <2> HIDE DEF q
  <2>3. Standing(q) = Standing(p)
    BY <2>2 DEF Standing
  <2> QED
    BY <2>2, <2>3 DEF q
<1>3. CASE ~Refused(p, s, m.tags)
  <2>1. /\ Held(p.head[s]) /\ ~SupersedesPrior(m.tags, m.obs, p.head[s])
        /\ Latest(p.head[s].tags \cup m.tags) = Latest(p.head[s].tags)
    BY <1>3, RedeliveredAsserted
  <2>2. /\ a \in Payload /\ a.leaf = p.leaf /\ a.tomb = p.tomb
        /\ a.rollup = p.rollup /\ a.rollupTomb = p.rollupTomb
        /\ a.head[s] = [p.head[s] EXCEPT !.tags = @ \cup m.tags, !.obs = @ \/ m.obs]
        /\ \A x \in RealSource \ {s} : a.head[x] = p.head[x]
    <3>1. Demoted(p, s, m.tags, m.obs) = p.leaf
      BY <2>1 DEF Demoted
    <3>2. Planned(p.head[s], m.tags, m.obs, Now(r))
            = [p.head[s] EXCEPT !.tags = @ \cup m.tags, !.obs = @ \/ m.obs]
      BY <2>1 DEF Planned
    <3>3. /\ a.leaf = Demoted(p, s, m.tags, m.obs) /\ a.tomb = p.tomb
          /\ a.rollup = p.rollup /\ a.rollupTomb = p.rollupTomb
          /\ a.head[s] = Planned(p.head[s], m.tags, m.obs, Now(r))
          /\ \A x \in RealSource \ {s} : a.head[x] = p.head[x]
      BY <1>1 DEF Asserted, Payload, RealSource
    <3> QED
      BY <1>1, <3>1, <3>2, <3>3, AssertedType
  <2>3. p.head[s] \in Rec
    BY <1>1 DEF Payload
  <2>4. /\ a.head[s].tags = p.head[s].tags \cup m.tags
        /\ a.head[s].created = p.head[s].created
    BY <2>2, <2>3 DEF Rec
  <2>5. RecordTime(a.head[s]) = RecordTime(p.head[s]) /\ Held(a.head[s])
    BY <2>1, <2>4 DEF RecordTime, AssertedAt, Held
  <2>6. Short(a)
    BY <1>1, <2>2, SubsetShort
  <2>7. q = Compacted(a)
    BY <1>3 DEF After, Appended
  <2> HIDE DEF a
  <2>8. /\ q.leaf = a.leaf /\ q.head = a.head /\ q.tomb = a.tomb
        /\ q.rollup = a.rollup /\ q.rollupTomb = a.rollupTomb
    BY <2>2, <2>6, <2>7, SettledPayload
  <2> HIDE DEF q, p
  <2>9. ASSUME NEW x \in RealSource
        PROVE  /\ Held(q.head[x]) <=> Held(p.head[x])
               /\ RecordTime(q.head[x]) = RecordTime(p.head[x])
    <3>1. CASE x = s
      BY <2>1, <2>5, <2>8, <3>1
    <3>2. CASE x # s
      BY <2>2, <2>8, <3>2
    <3> QED
      BY <3>1, <3>2
  <2>10. Standing(q) \cap RealSource = Standing(p) \cap RealSource
    BY <2>2, <2>8, <2>9 DEF Standing
  <2>11. q.leaf = p.leaf /\ Latest(q.head[s].tags) = Latest(p.head[s].tags)
    BY <2>1, <2>2, <2>4, <2>8
  <2> QED
    BY <2>10, <2>11 DEF p, q
<1> QED
  BY <1>2, <1>3

(* For every number of stores and sources and both thresholds of a chain,  *)
(* while no pool of heads fills, the stores' clocks agree and no assertion *)
(* carries an observation: an assertion a store heard may be delivered to  *)
(* it again at any later moment, before or after a removal, and moves no   *)
(* source's vote, no newest instant and no leaf.                           *)
THEOREM RedeliveryIsIdle ==
  ASSUME NoHeadSummary, ClocksAgree, Witnesses = {}
  PROVE  Spec => []RedeliveryKeepsBelief
<1>1. Init => AllPlain
  BY DEF Init, AllPlain, Plain, EmptyPayload, NoRec
<1>2. Spec => [](AllPlain /\ Settled)
  <2>1. TypeOK /\ Dated /\ Kept /\ AllPlain /\ Settled /\ [Next]_vars
          => (AllPlain /\ Settled)'
    BY PlainNext, SettledNext DEF Kept
  <2> QED
    BY <1>1, <2>1, SettledInit, KeptAlways, PTL DEF Spec
<1>3. ASSUME TypeOK, Dated, Kept, AllPlain, Settled PROVE RedeliveryKeepsBelief
  BY <1>3, RedeliveryStep DEF RedeliveryKeepsBelief
<1> QED
  BY <1>2, <1>3, KeptAlways, PTL

=============================================================================
