------------------------------ MODULE FactGroup ------------------------------
(***************************************************************************)
(* One fact (one triple) as every store that replicates it holds it: the   *)
(* head record of each source that asserts it, the demoted leaves of each  *)
(* source's revision chain, the two compaction summaries, and the          *)
(* retraction records.  src/adapters/memory/core.mjs owns the payload;     *)
(* compaction.mjs and retraction.mjs plan and join the records.            *)
(*                                                                         *)
(* A store's payload is changed only inside mutateMemory, one whole call   *)
(* at a time, so one call is one action.  Between stores anything goes: an *)
(* assertion or a retraction record is delivered late, twice, in any       *)
(* order, or never.                                                        *)
(***************************************************************************)
EXTENDS Integers, FiniteSets

CONSTANTS
  Store,            \* the stores that replicate the fact
  Source,           \* Source ids, numbered in the order their record ids sort
  NoSource,         \* src:none, the key of a record nobody can be credited for
  Stamped,          \* the sources whose provenance tags embed an instant
  Witnesses,        \* the sources whose assertions may carry an observation time
  Type,             \* source types
  TypeOf,           \* the type of each source
  Lag,              \* how far each store's clock is behind
  HeadThreshold,    \* GROUP_ROLLUP_THRESHOLD
  HeadKeep,         \* ROLLUP_KEEP_PER_TYPE
  ChainThreshold,   \* CHAIN_ROLLUP_THRESHOLD
  ChainKeep,        \* CHAIN_KEEP_DEPTH
  MaxTime,          \* bound on the instants explored
  MaxSaid,          \* bound on the assertions made
  MaxRemovals,      \* bound on the retractions made
  ScopedRemovals    \* whether a single source's record is retracted too

ASSUME SourceAssumption ==
  /\ Source \subseteq Int
  /\ Stamped \subseteq Source \ {NoSource}
  /\ Witnesses \subseteq Stamped
  /\ TypeOf \in [Source \ {NoSource} -> Type]

ASSUME BoundAssumption ==
  /\ Lag \in [Store -> Nat]
  /\ HeadThreshold \in Nat /\ HeadKeep \in Nat /\ ChainThreshold \in Nat
  /\ ChainKeep \in Nat \ {0}
  /\ MaxTime \in Nat \ {0} /\ MaxSaid \in Nat /\ MaxRemovals \in Nat
  /\ ScopedRemovals \in BOOLEAN

(* The early return of compactFactGroup counts records against             *)
(* CHAIN_ROLLUP_THRESHOLD before either pool; it is silent because the     *)
(* head pool's threshold is the larger one.                                *)
ASSUME ThresholdAssumption ==
  /\ HeadKeep < HeadThreshold
  /\ ChainKeep < ChainThreshold
  /\ ChainThreshold <= HeadThreshold

VARIABLES
  clock,     \* real time, which a store's own clock may lag
  said,      \* every assertion any source has made
  payload,   \* payload[r]: the records store r holds for this fact
  heard,     \* history: the assertions a call at r has carried, landed or not
  cut,       \* history: the latest retraction of s that r made or received
  removals   \* how many retractions have been made

vars == <<clock, said, payload, heard, cut, removals>>

-----------------------------------------------------------------------------
(* Instants.  0 stands for a tag or a field with no readable instant.      *)

Instant == 0..MaxTime

(* The instant a set of tags embeds, the latest of them; 0 when none does. *)
Latest(tags) == CHOOSE t \in tags \cup {0} : \A u \in tags : u <= t

AssertedAt(tags, fallback) ==
  IF Latest(tags) > 0 THEN Latest(tags) ELSE fallback

LaterOf(a, b) == IF b > a THEN b ELSE a

EarlierOf(a, b) == IF a = 0 \/ (b > 0 /\ b < a) THEN b ELSE a

(* What a store's clock reads.                                             *)
Now(r) == LaterOf(1, clock - Lag[r])

-----------------------------------------------------------------------------
(* Records.  A record's place in its source's chain is its number: 0 the   *)
(* head, n the leaf #v<n>, ChainSummary the summary #rollup.  `behind` is  *)
(* mgx:supersedes, 0 when the record replaces nothing.                     *)

Head == 0
ChainSummary == -1

Rec == [tags: SUBSET Instant, obs: BOOLEAN, created: Instant,
        behind: Nat \cup {ChainSummary}]

NoRec == [tags |-> {}, obs |-> FALSE, created |-> 0, behind |-> 0]

Leaf == [src: Source, n: Nat \ {0}, rec: Rec]

Summary(S) == [ids: SUBSET S, earliest: Instant]

(* A tombstone names the records it suppresses; one that names none is     *)
(* never written.                                                          *)
Tombstone ==
  {x \in [ids: SUBSET (Nat \cup {ChainSummary}), at: Instant] :
     x.ids = {} <=> x.at = 0}

Payload ==
  [head: [Source -> Rec],
   leaf: SUBSET Leaf,
   chain: [Source -> Summary(Nat)],
   rollup: [Type -> Summary(Source)],
   tomb: [Source -> Tombstone],
   rollupTomb: [Type -> Instant]]

Message == [src: Source, tags: SUBSET Instant, obs: BOOLEAN]

EmptyPayload ==
  [head |-> [s \in Source |-> NoRec],
   leaf |-> {},
   chain |-> [s \in Source |-> [ids |-> {}, earliest |-> 0]],
   rollup |-> [t \in Type |-> [ids |-> {}, earliest |-> 0]],
   tomb |-> [s \in Source |-> [ids |-> {}, at |-> 0]],
   rollupTomb |-> [t \in Type |-> 0]]

Held(rec) == rec.tags # {}

LeavesOf(p, s) == {l \in p.leaf : l.src = s}

(* The numbers of the records one source holds here.                       *)
RecordsOf(p, s) ==
  (IF Held(p.head[s]) THEN {Head} ELSE {})
    \cup {l.n : l \in LeavesOf(p, s)}
    \cup (IF p.chain[s].ids # {} THEN {ChainSummary} ELSE {})

HasRecord(p) ==
  \/ \E s \in Source : RecordsOf(p, s) # {}
  \/ \E t \in Type : p.rollup[t].ids # {}

RecordTime(rec) == AssertedAt(rec.tags, rec.created)

-----------------------------------------------------------------------------

(* Mutant: a retraction spares what was asserted at its own instant.       *)
NotLaterThanStrict(asserted, retracted) ==
  asserted = 0 \/ retracted = 0 \/ asserted < retracted

(* Retraction.                                                             *)
NotLaterThan(asserted, retracted) ==
  asserted = 0 \/ retracted = 0 \/ asserted <= retracted

Suppresses(tombstone, n, asserted) ==
  n \in tombstone.ids /\ NotLaterThan(asserted, tombstone.at)

(* Mutant: the last retraction to arrive wins.                             *)
MergeRetractionsLastWins(a, b) == [ids |-> a.ids \cup b.ids, at |-> b.at]

MergeRetractions(a, b) ==
  [ids |-> a.ids \cup b.ids, at |-> LaterOf(a.at, b.at)]

(* The read half: the sources a reader of store payload p sees vouching    *)
(* for the fact, a summary standing for every source it absorbed.          *)
Standing(p) ==
  {s \in Source : Held(p.head[s])
                  /\ ~Suppresses(p.tomb[s], Head, RecordTime(p.head[s]))}
    \cup UNION {p.rollup[t].ids :
                  t \in {u \in Type : p.rollupTomb[u] = 0
                                      \/ p.rollup[u].earliest > p.rollupTomb[u]}}

(* The ingest half: what assertionGroupsFor filters out of a write.  No    *)
(* caller passes a createdAt, so a tag with no instant has no time here.   *)
Refused(p, s, tags) ==
  \/ s = NoSource /\ HasRecord(p)
  \/ Suppresses(p.tomb[s], Head, Latest(tags))
  \/ \E t \in Type : s \in p.rollup[t].ids

-----------------------------------------------------------------------------

(* Mutant: an assertion of the same instant is a new version.              *)
SupersedesPriorAtTie(tags, obs, rec) ==
  Latest(tags) > 0 /\ Latest(rec.tags) > 0 /\ Latest(tags) >= Latest(rec.tags)

(* Mutant: what arrives last is the newer version.                         *)
SupersedesPriorOnArrival(tags, obs, rec) ==
  Latest(tags) > 0 /\ Latest(rec.tags) > 0 /\ Latest(tags) # Latest(rec.tags)

(* One source's assertion, planned and applied.                            *)
SupersedesPrior(tags, obs, rec) ==
  /\ Latest(tags) > 0
  /\ Latest(rec.tags) > 0
  /\ \/ Latest(tags) > Latest(rec.tags)
     \/ Latest(tags) = Latest(rec.tags) /\ obs /\ ~rec.obs

(* Mutant: the version is not advanced.                                    *)
NextChainVersionStuck(rec) == IF rec.behind > 0 THEN rec.behind ELSE 1

NextChainVersion(rec) == IF rec.behind > 0 THEN rec.behind + 1 ELSE 1

Planned(rec, tags, obs, now) ==
  LET created == AssertedAt(tags, now) IN
  IF ~Held(rec)
  THEN [tags |-> tags, obs |-> obs, created |-> created, behind |-> 0]
  ELSE IF SupersedesPrior(tags, obs, rec)
  THEN [tags |-> tags, obs |-> obs, created |-> created,
        behind |-> NextChainVersion(rec)]
  ELSE [rec EXCEPT !.tags = @ \cup tags, !.obs = @ \/ obs]

(* The demoted record moves to its own id, over whatever stood there.      *)
Demoted(p, s, tags, obs) ==
  LET rec == p.head[s]
      n == NextChainVersion(rec) IN
  IF Held(rec) /\ SupersedesPrior(tags, obs, rec)
  THEN {l \in p.leaf : ~(l.src = s /\ l.n = n)}
         \cup {[src |-> s, n |-> n, rec |-> rec]}
  ELSE p.leaf

(* A real source's write also absorbs the src:none record.                 *)
Asserted(p, s, tags, obs, now) ==
  [p EXCEPT
    !.head = [x \in Source |->
                IF x = s THEN Planned(p.head[s], tags, obs, now)
                ELSE IF x = NoSource THEN NoRec
                ELSE p.head[x]],
    !.leaf = Demoted(p, s, tags, obs)]

-----------------------------------------------------------------------------
(* Compaction, on the write that grew the group.                           *)

(* The newest k of a set of entries, ties in record id order.              *)
NewestFirst(a, b) == a.at > b.at \/ (a.at = b.at /\ a.id < b.id)

Newest(entries, k) ==
  {e \in entries : Cardinality({f \in entries : NewestFirst(f, e)}) < k}

EarliestOf(entries, seed) ==
  LET times == {e.at : e \in entries}
      first == CHOOSE t \in times : \A u \in times : t <= u IN
  EarlierOf(seed, first)

HeadsOfType(p, t) ==
  {[id |-> s, at |-> RecordTime(p.head[s])] :
     s \in {x \in Source \ {NoSource} : TypeOf[x] = t /\ Held(p.head[x])}}

HeadsToAbsorb(p, t) ==
  LET heads == HeadsOfType(p, t) IN
  IF Cardinality(heads) < HeadThreshold THEN {}
  ELSE heads \ Newest(heads, HeadKeep)

(* Mutant: a second summary forgets whom the first one stood for.          *)
HeadsAbsorbedAfresh(p) ==
  LET gone == {e.id : e \in UNION {HeadsToAbsorb(p, t) : t \in Type}} IN
  [p EXCEPT
    !.head = [s \in Source |-> IF s \in gone THEN NoRec ELSE p.head[s]],
    !.rollup = [t \in Type |->
                  LET old == HeadsToAbsorb(p, t) IN
                  IF old = {} THEN p.rollup[t]
                  ELSE [ids |-> {e.id : e \in old},
                        earliest |-> EarliestOf(old, 0)]]]

(* Pool 1.  An absorbed head takes its own chain with it.                  *)
HeadsAbsorbed(p) ==
  LET gone == {e.id : e \in UNION {HeadsToAbsorb(p, t) : t \in Type}} IN
  [p EXCEPT
    !.head = [s \in Source |-> IF s \in gone THEN NoRec ELSE p.head[s]],
    !.leaf = {l \in p.leaf : l.src \notin gone},
    !.chain = [s \in Source |-> IF s \in gone
                                THEN [ids |-> {}, earliest |-> 0]
                                ELSE p.chain[s]],
    !.rollup = [t \in Type |->
                  LET old == HeadsToAbsorb(p, t) IN
                  IF old = {} THEN p.rollup[t]
                  ELSE [ids |-> p.rollup[t].ids \cup {e.id : e \in old},
                        earliest |-> EarliestOf(old, p.rollup[t].earliest)]]]

LeafEntries(p, s) ==
  {[id |-> l.n, at |-> RecordTime(l.rec)] : l \in LeavesOf(p, s)}

LeavesToAbsorb(p, s) ==
  LET leaves == LeafEntries(p, s) IN
  IF Cardinality(leaves) < ChainThreshold THEN {}
  ELSE leaves \ Newest(leaves, ChainKeep)

(* Mutant: no kept leaf is pointed at the summary.                         *)
IsRewiredNever(p, l) == FALSE

(* The oldest leaf kept, the last of the keep window, points at the        *)
(* summary.                                                                *)
IsRewired(p, l) ==
  LET leaves == LeafEntries(p, l.src)
      entry == [id |-> l.n, at |-> RecordTime(l.rec)] IN
  /\ LeavesToAbsorb(p, l.src) # {}
  /\ Cardinality({e \in leaves : NewestFirst(e, entry)}) = ChainKeep - 1

(* Pool 2.                                                                 *)
LeavesAbsorbed(p) ==
  LET kept == {l \in p.leaf :
                 l.n \notin {e.id : e \in LeavesToAbsorb(p, l.src)}} IN
  [p EXCEPT
    !.leaf = {IF IsRewired(p, l) THEN [l EXCEPT !.rec.behind = ChainSummary]
                                 ELSE l : l \in kept},
    !.chain = [s \in Source |->
                 LET old == LeavesToAbsorb(p, s) IN
                 IF old = {} THEN p.chain[s]
                 ELSE [ids |-> p.chain[s].ids \cup {e.id : e \in old},
                       earliest |-> EarliestOf(old, p.chain[s].earliest)]]]

Compacted(p) == LeavesAbsorbed(HeadsAbsorbed(p))

(* appendFact and appendFacts over one triple and one source's tags.       *)
Appended(p, s, tags, obs, now) ==
  Compacted(IF Refused(p, s, tags) THEN p ELSE Asserted(p, s, tags, obs, now))

-----------------------------------------------------------------------------

(* Mutant: a tombstone for every source, records or none.                  *)
GroupRemovedForAll(p, at) ==
  [EmptyPayload EXCEPT
    !.tomb = [s \in Source |->
                MergeRetractions(p.tomb[s], [ids |-> RecordsOf(p, s), at |-> at])]]

(* removeFacts and appendRetractions.                                      *)
GroupRemoved(p, at) ==
  [EmptyPayload EXCEPT
    !.tomb = [s \in Source |->
                IF RecordsOf(p, s) = {} THEN p.tomb[s]
                ELSE MergeRetractions(p.tomb[s],
                                      [ids |-> RecordsOf(p, s), at |-> at])],
    !.rollupTomb = [t \in Type |->
                      IF p.rollup[t].ids = {} THEN p.rollupTomb[t]
                      ELSE LaterOf(p.rollupTomb[t], at)]]

RecordRemoved(p, s, at) ==
  [p EXCEPT
    !.head[s] = NoRec,
    !.tomb[s] = MergeRetractions(@, [ids |-> {Head}, at |-> at])]

(* Mutant: the record is joined and nothing is swept.                      *)
RetractionAppendedUnswept(p, s, tombstone) ==
  [p EXCEPT !.tomb[s] = MergeRetractions(@, tombstone)]

RetractionAppended(p, s, tombstone) ==
  LET merged == MergeRetractions(p.tomb[s], tombstone) IN
  [p EXCEPT
    !.tomb[s] = merged,
    !.head[s] = IF Suppresses(merged, Head, RecordTime(@)) THEN NoRec ELSE @,
    !.leaf = {l \in @ : ~(l.src = s /\ Suppresses(merged, l.n, RecordTime(l.rec)))},
    !.chain[s] = IF Suppresses(merged, ChainSummary, @.earliest)
                 THEN [ids |-> {}, earliest |-> 0] ELSE @]

(* Mutant: the last retraction of a summary to arrive wins.                *)
RollupRetractionLastWins(p, t, at) ==
  [p EXCEPT
    !.rollupTomb[t] = at,
    !.rollup[t] = IF NotLaterThan(@.earliest, at)
                  THEN [ids |-> {}, earliest |-> 0] ELSE @]

RollupRetractionAppended(p, t, at) ==
  LET merged == LaterOf(p.rollupTomb[t], at) IN
  [p EXCEPT
    !.rollupTomb[t] = merged,
    !.rollup[t] = IF NotLaterThan(@.earliest, merged)
                  THEN [ids |-> {}, earliest |-> 0] ELSE @]

-----------------------------------------------------------------------------
(* The system.                                                             *)

Init ==
  /\ clock = 1
  /\ said = {}
  /\ payload = [r \in Store |-> EmptyPayload]
  /\ heard = [r \in Store |-> [s \in Source |-> {}]]
  /\ cut = [r \in Store |-> [s \in Source |-> 0]]
  /\ removals = 0

Tick ==
  /\ clock < MaxTime
  /\ clock' = clock + 1
  /\ UNCHANGED <<said, payload, heard, cut, removals>>

(* A write reaches r with the tags it carries for s.                       *)
Write(r, s, tags, obs) ==
  /\ payload' = [payload EXCEPT ![r] = Appended(@, s, tags, obs, Now(r))]
  /\ heard' = [heard EXCEPT ![r][s] = @ \cup tags]

(* A source says the fact, at one store.  A session's tag embeds the       *)
(* moment off that store's clock; a corpus or a rule has none.             *)
Say(r, s, obs) ==
  LET at == IF s \in Stamped THEN Now(r) ELSE 0
      m == [src |-> s, tags |-> {at}, obs |-> obs] IN
  /\ m \notin said
  /\ Cardinality(said) < MaxSaid
  /\ said' = said \cup {m}
  /\ Write(r, s, {at}, obs)
  /\ UNCHANGED <<clock, cut, removals>>

(* What a store can be sent: anything ever said, or a peer's own row.      *)
RowOf(q, s) ==
  [src |-> s, tags |-> payload[q].head[s].tags, obs |-> payload[q].head[s].obs]

PeerRows ==
  {RowOf(x[1], x[2]) :
     x \in {y \in Store \X Source : /\ y[2] \in Standing(payload[y[1]])
                                     /\ Held(payload[y[1]].head[y[2]])}}

Sendable == said \cup PeerRows

Deliver(r, m) ==
  /\ Write(r, m.src, m.tags, m.obs)
  /\ UNCHANGED <<clock, said, cut, removals>>

RemoveGroup(r) ==
  /\ removals < MaxRemovals
  /\ HasRecord(payload[r])
  /\ payload' = [payload EXCEPT ![r] = GroupRemoved(@, Now(r))]
  /\ cut' = [cut EXCEPT ![r] = [s \in Source |->
               IF RecordsOf(payload[r], s) # {}
                  \/ \E t \in Type : s \in payload[r].rollup[t].ids
               THEN LaterOf(@[s], Now(r)) ELSE @[s]]]
  /\ removals' = removals + 1
  /\ UNCHANGED <<clock, said, heard>>

RemoveRecord(r, s) ==
  /\ ScopedRemovals
  /\ removals < MaxRemovals
  /\ Held(payload[r].head[s])
  /\ payload' = [payload EXCEPT ![r] = RecordRemoved(@, s, Now(r))]
  /\ cut' = [cut EXCEPT ![r][s] = LaterOf(@, Now(r))]
  /\ removals' = removals + 1
  /\ UNCHANGED <<clock, said, heard>>

DeliverRetraction(r, q, s) ==
  LET tombstone == payload[q].tomb[s] IN
  /\ tombstone.ids # {}
  /\ payload' = [payload EXCEPT ![r] = RetractionAppended(@, s, tombstone)]
  /\ cut' = [cut EXCEPT ![r][s] = LaterOf(@, tombstone.at)]
  /\ UNCHANGED <<clock, said, heard, removals>>

DeliverRollupRetraction(r, q, t) ==
  LET at == payload[q].rollupTomb[t] IN
  /\ at > 0
  /\ payload' = [payload EXCEPT ![r] = RollupRetractionAppended(@, t, at)]
  /\ UNCHANGED <<clock, said, heard, cut, removals>>

Next ==
  \/ Tick
  \/ \E r \in Store, s \in Source, obs \in BOOLEAN :
       (obs => s \in Witnesses) /\ Say(r, s, obs)
  \/ \E r \in Store : \E m \in Sendable : Deliver(r, m)
  \/ \E r \in Store : RemoveGroup(r)
  \/ \E r \in Store, s \in Source : RemoveRecord(r, s)
  \/ \E r, q \in Store, s \in Source : DeliverRetraction(r, q, s)
  \/ \E r, q \in Store, t \in Type : DeliverRollupRetraction(r, q, t)

Spec == Init /\ [][Next]_vars

-----------------------------------------------------------------------------
(* Correctness.                                                            *)

TypeOK ==
  /\ clock \in Instant \ {0}
  /\ said \subseteq Message
  /\ payload \in [Store -> Payload]
  /\ heard \in [Store -> [Source -> SUBSET Instant]]
  /\ cut \in [Store -> [Source -> Instant]]
  /\ removals \in Nat

RealSource == Source \ {NoSource}

(* Source s has said the fact, as far as r has heard, since the last       *)
(* retraction of it that r knows of.                                       *)
SaidSinceCut(r, s) ==
  /\ heard[r][s] # {}
  /\ cut[r][s] = 0 \/ \E t \in heard[r][s] : t > cut[r][s]

(* No head of payload p is one the tombstones of p suppress.               *)
PayloadEnforced(p) ==
  \A s \in Source :
    Held(p.head[s]) => ~Suppresses(p.tomb[s], Head, RecordTime(p.head[s]))

(* The two enforcement points agree: no head a store holds is one its own  *)
(* tombstones suppress, so the strip on read (factFoldContext) never has   *)
(* to hide what ingest (assertionGroupsFor) and the sweep on arrival       *)
(* (appendRetractions) let stand.                                          *)
EnforcedOnHeads == \A r \in Store : PayloadEnforced(payload[r])

(* A retraction survives the next sync: a source whose tags carry an       *)
(* instant stands at a store only if it was heard to say the fact after    *)
(* the last retraction of it the store made or received, whatever older    *)
(* copies are delivered afterwards.                                        *)
RetractionSurvivesSync ==
  \A r \in Store : \A s \in Standing(payload[r]) \cap Stamped : SaidSinceCut(r, s)

(* What a removal takes out does not come back with the next copy of it:   *)
(* the store that removed a record refuses to take the same record again.  *)
RemovalRefusesWhatItRemoved ==
  [][\A r \in Store, s \in Stamped :
       LET rec == payload[r].head[s] IN
       removals' # removals /\ Held(rec) /\ ~Held(payload'[r].head[s]) =>
         Refused(payload'[r], s, rec.tags)]_vars

(* A retraction never brings a source back: whatever a removal or a        *)
(* retraction record that arrives does to the tombstones, older or newer   *)
(* than the ones held, a store reads no source it did not read before.     *)
RetractionNeverRevives ==
  [][\A r \in Store :
       (\/ removals' # removals
        \/ payload'[r].tomb # payload[r].tomb
        \/ payload'[r].rollupTomb # payload[r].rollupTomb)
       => Standing(payload'[r]) \subseteq Standing(payload[r])]_vars

(* Every source votes once.  A vote nobody retracted is never lost: until  *)
(* something is removed a store reads every source it heard, compaction    *)
(* carrying forward the vote of each head it absorbs.  And none is doubled *)
(* by a re-delivery: a source a summary stands for holds no head beside it *)
(* and sits in no second summary.                                          *)
EverySourceVotesOnce ==
  \A r \in Store, s \in Source :
    LET in == {t \in Type : s \in payload[r].rollup[t].ids} IN
    /\ s \in RealSource /\ heard[r][s] # {} /\ removals = 0
         => s \in Standing(payload[r])
    /\ Cardinality(in) <= 1
    /\ in # {} => ~Held(payload[r].head[s])

(* What a leaf or a head points back at stands: a leaf, or the summary of  *)
(* the leaves that were absorbed.                                          *)
Linked(p, s, behind) ==
  \/ behind = 0
  \/ behind = ChainSummary /\ p.chain[s].ids # {}
  \/ \E l \in LeavesOf(p, s) : l.n = behind

(* A chain is a source's history.  It can be walked backward, compaction   *)
(* or not, and its version numbers follow the instants whatever order the  *)
(* assertions arrived in: a higher leaf was never asserted before a lower  *)
(* one, and none of them after the head.                                   *)
ChainIsAHistory ==
  \A r \in Store, s \in Source :
    /\ Held(payload[r].head[s]) => Linked(payload[r], s, payload[r].head[s].behind)
    /\ \A l \in LeavesOf(payload[r], s) :
      /\ Linked(payload[r], s, l.rec.behind)
      /\ \A k \in LeavesOf(payload[r], s) :
           l.n < k.n => RecordTime(l.rec) <= RecordTime(k.rec)
      /\ Held(payload[r].head[s]) =>
           RecordTime(l.rec) <= RecordTime(payload[r].head[s])

(* A demoted record is never rewritten: a leaf keeps what was asserted     *)
(* under its number for as long as it stands.                              *)
LeafNeverRewritten ==
  [][\A r \in Store :
       \A l \in payload[r].leaf, k \in payload'[r].leaf :
         (l.src = k.src /\ l.n = k.n) => l.rec.tags = k.rec.tags]_vars

(* What store r would hold were m delivered to it now.                     *)
After(r, m) == Appended(payload[r], m.src, m.tags, m.obs, Now(r))

Redelivered(r) == {m \in said : m.src # NoSource /\ m.tags \subseteq heard[r][m.src]}

(* A source's assertion delivered again moves no belief: the same sources  *)
(* stand, with the same newest instant and the same history behind them.   *)
RedeliveryKeepsBelief ==
  \A r \in Store : \A m \in Redelivered(r) :
    LET after == After(r, m) IN
    /\ Standing(after) \cap RealSource = Standing(payload[r]) \cap RealSource
    /\ after.leaf = payload[r].leaf
    /\ Latest(after.head[m.src].tags) = Latest(payload[r].head[m.src].tags)

=============================================================================
