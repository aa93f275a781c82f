----------------------------- MODULE SourceLookup -----------------------------
(***************************************************************************)
(* Lookups of one source, each through the source's breaker and then its   *)
(* courtesy gate (throughSourceBreaker, src/domain/source-breaker.mjs; the *)
(* lookup of a live provider, src/adapters/corpus/wikipedia-live.mjs and   *)
(* wikidata-live.mjs; their callers in src/services/chat.mjs and           *)
(* news.mjs).  A lookup awaits its slot and each of its fetches, and other *)
(* lookups go on meanwhile; what it reports to the breaker is what the     *)
(* gate's counter of systemic failures rose by, and every lookup of the    *)
(* source raises it.                                                       *)
(***************************************************************************)
EXTENDS SourceBreaker, CourtesyGate

CONSTANTS
  Caller,   \* the lookups that can be under way at once
  MaxTrips  \* the most fetches one lookup makes

ASSUME SourceLookupAssumption == MaxTrips \in Nat \ {0}

VARIABLES
  place,   \* how far each lookup is
  probing, \* the lookups let through as the breaker's probe
  term,    \* what each looks up
  trips,   \* the fetches each has made
  earned,  \* the systemic failures since each began, up to Threshold
  settled  \* history: the terms some lookup went to the source for

lookups == <<place, probing, term, trips, earned, settled>>
vars == <<breaker, gate, lookups>>

(* The term of a lookup that is not under way is not read.                 *)
NoTerm == CHOOSE t \in Term : TRUE

Init ==
  /\ BreakerInit
  /\ GateInit
  /\ place = [c \in Caller |-> "out"]
  /\ probing = {}
  /\ term = [c \in Caller |-> NoTerm]
  /\ trips = [c \in Caller |-> 0]
  /\ earned = [c \in Caller |-> 0]
  /\ settled = {}

(* Time does not wait for a fetch, but no fetch outlives its timeout.      *)
Tick ==
  /\ BreakerAges
  /\ GateAges
  /\ UNCHANGED lookups

Move(c, from, to) == place[c] = from /\ place' = [place EXCEPT ![c] = to]

(* A research run begins a turn once, for all the lookups it will make.    *)
NewTurn ==
  /\ BeginTurn
  /\ UNCHANGED <<breaker, waitForSlot, cache, sinceLookup, coolOff, inFlight, lookups>>

(* From decide to the first await: a turn of the lookup's own begins, or   *)
(* it is one of a research run's; and the term is remembered, or the slot  *)
(* is taken, or the lookup has nothing or waits.                           *)
Begin(c, t) ==
  /\ \/ LetThrough /\ UNCHANGED probing
     \/ LetProbe /\ probing' = probing \cup {c}
  /\ BeginTurn \/ UNCHANGED fetchesThisTurn
  /\ \/ /\ AnsweredFromCache(t)
        /\ Move(c, "out", "back")
        /\ UNCHANGED <<waitForSlot, cache, sinceLookup, coolOff, inFlight>>
     \/ /\ ~AnsweredFromCache(t)
        /\ TakeSlot
        /\ Move(c, "out", "holding")
     \/ /\ ~AnsweredFromCache(t)
        /\ NoSlot
        /\ Move(c, "out", IF waitForSlot THEN "waiting" ELSE "back")
  /\ term' = [term EXCEPT ![c] = t]
  /\ UNCHANGED <<trips, earned, settled>>

(* The slot opened while the lookup waited.                                *)
Slot(c) ==
  /\ Move(c, "waiting", "holding")
  /\ TakeSlot
  /\ UNCHANGED <<breaker, fetchesThisTurn, probing, term, trips, earned, settled>>

Send(c) ==
  /\ Move(c, "holding", "fetching")
  /\ trips[c] < MaxTrips
  /\ SendFetch
  /\ trips' = [trips EXCEPT ![c] = @ + 1]
  /\ UNCHANGED <<breaker, probing, term, earned, settled>>

(* An answer, empty or not; a failure of the source; or a throttle, which  *)
(* is one too.                                                             *)
Hear(c, outcome) ==
  /\ Move(c, "fetching", "holding")
  /\ HearFetch(outcome = "throttled")
  /\ earned' = IF outcome = "answered" THEN earned
               ELSE [d \in Caller |-> IF place[d] = "out" THEN 0
                                      ELSE Least(earned[d] + 1, Threshold)]
  /\ UNCHANGED <<breaker, probing, term, trips, settled>>

(* The work comes back, having fetched, or having been refused to.         *)
Finish(c) ==
  /\ Move(c, "holding", "back")
  /\ trips[c] > 0 \/ OverBudget
  /\ GiveSlotBack(term[c])
  /\ settled' = settled \cup {term[c]}
  /\ UNCHANGED <<breaker, probing, term, trips, earned>>

Report(c) ==
  /\ Move(c, "back", "out")
  /\ IF c \in probing THEN ResolveProbe(earned[c] > 0)
     ELSE IF earned[c] > 0 THEN RecordSystemicFailure(earned[c])
     ELSE UNCHANGED breaker
  /\ probing' = probing \ {c}
  /\ term' = [term EXCEPT ![c] = NoTerm]
  /\ trips' = [trips EXCEPT ![c] = 0]
  /\ earned' = [earned EXCEPT ![c] = 0]
  /\ UNCHANGED <<gate, settled>>

Goes(c) ==
  \/ Slot(c) \/ Send(c) \/ Finish(c) \/ Report(c)
  \/ \E outcome \in {"answered", "failed", "throttled"} : Hear(c, outcome)

Next ==
  \/ Tick \/ NewTurn
  \/ \E c \in Caller : Goes(c)
  \/ \E c \in Caller, t \in Term : Begin(c, t)

Spec == Init /\ [][Next]_vars

(* Time passes, and a lookup goes on: a fetch ends within its timeout, a   *)
(* waiting lookup wakes when the slot opens.                               *)
FairSpec == Spec /\ WF_vars(Tick) /\ \A c \in Caller : WF_vars(Goes(c))

-----------------------------------------------------------------------------
(* Correctness.                                                            *)

TypeOK ==
  /\ BreakerTypeOK
  /\ GateTypeOK
  /\ place \in [Caller -> {"out", "waiting", "holding", "fetching", "back"}]
  /\ probing \subseteq Caller
  /\ term \in [Caller -> Term]
  /\ trips \in [Caller -> 0..MaxTrips]
  /\ earned \in [Caller -> 0..Threshold]
  /\ settled \subseteq Term

HasSlot(c) == place[c] \in {"holding", "fetching"}

(* Crossing the threshold opens the breaker: whichever lookup's report     *)
(* brought the count there, and whatever the other lookups did since they  *)
(* were let through, a closed breaker's count is below the threshold.      *)
ClosedBelowThreshold == state = Closed => failures < Threshold

(* The gate sends one fetch at a time, and no lookup, however it ends,     *)
(* leaves without giving its slot back.                                    *)
OneFetchAtATime ==
  /\ inFlight <=> \E c \in Caller : HasSlot(c)
  /\ \A c, d \in Caller : HasSlot(c) /\ HasSlot(d) => c = d

(* A gate that never waits never asks for a term a second time, whatever   *)
(* the first lookup of it came to and whoever it met on the way.  One that *)
(* waits may: the wait comes after the look into the cache.                *)
NeverAskedTwice ==
  ~waitForSlot => \A c \in Caller : HasSlot(c) => term[c] \notin settled

(* The probe's outcome decides: a half-open breaker does not stay so,      *)
(* however long the gate keeps the probe waiting.                          *)
HalfOpenEnds == state = HalfOpen ~> state # HalfOpen

=============================================================================
