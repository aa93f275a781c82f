---------------------------- MODULE CircuitBreaker ----------------------------
(***************************************************************************)
(* What the program's two circuit breakers promise, in the words of their  *)
(* headers: open refuses every caller until a cooldown has elapsed, then   *)
(* exactly one caller runs a probe, and the probe's own outcome decides    *)
(* closed or open again.                                                   *)
(***************************************************************************)
EXTENDS Integers

CONSTANTS
  Caller,    \* the callers the breaker stands in front of
  Cooldown   \* how long an open breaker refuses everyone

Closed == "closed"
Open == "open"
HalfOpen == "half-open"

VARIABLES
  clock,
  state,
  openedAt,  \* when the breaker opened; -1 while it is closed
  prober     \* the caller whose probe is out, as a set of at most one

vars == <<clock, state, openedAt, prober>>

Init ==
  /\ clock = 0
  /\ state = Closed
  /\ openedAt = -1
  /\ prober = {}

Tick ==
  /\ clock' = clock + 1
  /\ UNCHANGED <<state, openedAt, prober>>

(* The instant is the one the failure was seen at, which may have passed.  *)
Trip ==
  /\ state = Closed
  /\ state' = Open
  /\ openedAt' \in 0..clock
  /\ UNCHANGED <<clock, prober>>

Probe(c) ==
  /\ state = Open
  /\ clock - openedAt >= Cooldown
  /\ state' = HalfOpen
  /\ prober' = {c}
  /\ UNCHANGED <<clock, openedAt>>

Succeed(c) ==
  /\ state = HalfOpen
  /\ prober = {c}
  /\ state' = Closed
  /\ openedAt' = -1
  /\ prober' = {}
  /\ UNCHANGED clock

(* A failed probe opens the breaker for a cooldown of its own.             *)
Fail(c) ==
  /\ state = HalfOpen
  /\ prober = {c}
  /\ state' = Open
  /\ openedAt' \in (openedAt + Cooldown)..clock
  /\ prober' = {}
  /\ UNCHANGED clock

(* A caller may die with its probe out; nothing takes its place.           *)
Vanish(c) ==
  /\ prober = {c}
  /\ prober' = {}
  /\ UNCHANGED <<clock, state, openedAt>>

Next ==
  \/ Tick
  \/ Trip
  \/ \E c \in Caller : Probe(c) \/ Succeed(c) \/ Fail(c) \/ Vanish(c)

Spec == Init /\ [][Next]_vars

=============================================================================
