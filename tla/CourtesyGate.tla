----------------------------- MODULE CourtesyGate -----------------------------
(***************************************************************************)
(* The courtesy gate in front of one external source: its one slot, its    *)
(* interval and cool-off, its cache and the fetch budget of a turn         *)
(* (src/adapters/corpus/courtesy.mjs).  What happens between two awaits is *)
(* one step.                                                               *)
(*                                                                         *)
(* Instants are held as in SourceBreaker.  A remembered term stands for    *)
(* its answer or its miss.  Conditional requests, and the feed polls,      *)
(* which remember nothing, are left out.                                   *)
(***************************************************************************)
EXTENDS Integers

CONSTANTS
  Term,         \* the cache keys
  MinInterval,  \* minIntervalMs
  CoolOffs,     \* how long a cool-off may last
  MaxFetches    \* maxFetchesPerTurn

ASSUME CourtesyGateAssumption ==
  /\ Term # {}
  /\ MinInterval \in Nat /\ MaxFetches \in Nat
  /\ CoolOffs \subseteq Nat \ {0} /\ CoolOffs # {}

VARIABLES
  waitForSlot,      \* the throttle posture
  cache,            \* the terms remembered
  sinceLookup,      \* the time since lastLookupAt, up to MinInterval
  coolOff,          \* the time until coolOffUntil
  inFlight,
  fetchesThisTurn   \* counted up to MaxFetches

gate == <<waitForSlot, cache, sinceLookup, coolOff, inFlight, fetchesThisTurn>>

GateInit ==
  /\ waitForSlot \in BOOLEAN
  /\ cache = {}
  /\ sinceLookup = MinInterval
  /\ coolOff = 0
  /\ inFlight = FALSE
  /\ fetchesThisTurn = 0

GateAges ==
  /\ sinceLookup' = IF sinceLookup < MinInterval THEN sinceLookup + 1 ELSE MinInterval
  /\ coolOff' = IF coolOff > 0 THEN coolOff - 1 ELSE 0
  /\ UNCHANGED <<waitForSlot, cache, inFlight, fetchesThisTurn>>

(* Mutant: a slot opens by the clock alone.                                *)
SlotIsOpenByTime == coolOff = 0 /\ sinceLookup = MinInterval

(* slotOpensAt, and nothing in flight.                                     *)
SlotIsOpen == ~inFlight /\ coolOff = 0 /\ sinceLookup = MinInterval

(* beginTurn, and cachedFetch as far as its first await.                   *)
BeginTurn == fetchesThisTurn' = 0

AnsweredFromCache(t) == t \in cache

TakeSlot ==
  /\ SlotIsOpen
  /\ sinceLookup' = 0
  /\ inFlight' = TRUE
  /\ UNCHANGED <<waitForSlot, cache, coolOff>>

NoSlot == ~SlotIsOpen /\ UNCHANGED <<waitForSlot, cache, sinceLookup, coolOff, inFlight>>

OverBudget == fetchesThisTurn = MaxFetches

(* Mutant: the turn's budget is not looked at.                             *)
SendFetchAnyway ==
  /\ fetchesThisTurn' = fetchesThisTurn + 1
  /\ UNCHANGED <<waitForSlot, cache, sinceLookup, coolOff, inFlight>>

(* fetchRaw, as far as the request.                                        *)
SendFetch ==
  /\ ~OverBudget
  /\ fetchesThisTurn' = fetchesThisTurn + 1
  /\ UNCHANGED <<waitForSlot, cache, sinceLookup, coolOff, inFlight>>

(* fetchRaw, from the response: a 429 or a maxlag rejection opens a        *)
(* cool-off, which may cut a longer one short.                             *)
HearFetch(throttled) ==
  /\ coolOff' \in IF throttled THEN CoolOffs ELSE {coolOff}
  /\ UNCHANGED <<waitForSlot, cache, sinceLookup, inFlight, fetchesThisTurn>>

(* Mutant: a slot is held for good by work that was refused its fetches.   *)
GiveSlotBackIfFetched(t) ==
  /\ inFlight' = OverBudget
  /\ cache' = cache \cup {t}
  /\ UNCHANGED <<waitForSlot, sinceLookup, coolOff, fetchesThisTurn>>

(* Mutant: a miss is not remembered.                                       *)
GiveSlotBackForgetting(t) ==
  /\ inFlight' = FALSE
  /\ cache' \in {cache, cache \cup {t}}
  /\ UNCHANGED <<waitForSlot, sinceLookup, coolOff, fetchesThisTurn>>

(* The end of cachedFetch: whatever the work came to is remembered.        *)
GiveSlotBack(t) ==
  /\ inFlight' = FALSE
  /\ cache' = cache \cup {t}
  /\ UNCHANGED <<waitForSlot, sinceLookup, coolOff, fetchesThisTurn>>

GateTypeOK ==
  /\ waitForSlot \in BOOLEAN
  /\ cache \subseteq Term
  /\ sinceLookup \in 0..MinInterval
  /\ coolOff \in {0} \cup UNION {0..n : n \in CoolOffs}
  /\ inFlight \in BOOLEAN
  /\ fetchesThisTurn \in 0..MaxFetches

=============================================================================
