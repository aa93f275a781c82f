---------------------------- MODULE CorpusBreaker ----------------------------
(***************************************************************************)
(* The breaker in front of the turn service's corpus reads                 *)
(* (src/adapters/memory/dynamo-circuit-breaker.mjs).  Its whole state is   *)
(* one item of a shared table.  Turns run in Lambda invocations that share *)
(* nothing else; each call to the table is atomic and anything may happen  *)
(* between two calls of one turn, including the end of the invocation.     *)
(*                                                                         *)
(* An instant is read off the clock before the call that carries it, so a  *)
(* write can land later than the instant it writes.                        *)
(***************************************************************************)
EXTENDS Integers, FiniteSets

CONSTANTS
  Turn,         \* the invocations that can be under way at once
  Threshold,    \* failureThreshold
  Window,       \* windowMs
  Cooldown,     \* cooldownMs
  MostFailures, \* how many systemic failures one turn can report
  MaxTime,      \* bound on the clock
  MaxReported,  \* bound on the failures reported
  MaxCrashes    \* bound on the invocations that die

ASSUME ThresholdAssumption ==
  /\ Threshold \in Nat \ {0}
  /\ Window \in Nat /\ Cooldown \in Nat
  /\ MostFailures \in Nat

ASSUME BoundAssumption ==
  MaxTime \in Nat /\ MaxReported \in Nat /\ MaxCrashes \in Nat

Closed == "closed"
Open == "open"
HalfOpen == "half-open"

(* Stands for an attribute the item does not have.                         *)
Absent == -1

VARIABLES
  clock,
  state, failures, windowStart, openedAt,  \* the item
  pc,        \* where each turn is
  at,        \* the instant a turn's pending write carries
  seen,      \* the openedAt a turn read
  count,     \* the systemic failures a turn is reporting
  reported,  \* how many failures turns have reported
  crashes    \* how many invocations have died

item == <<state, failures, windowStart, openedAt>>
vars == <<clock, state, failures, windowStart, openedAt,
          pc, at, seen, count, reported, crashes>>

(* idle: no turn is being served here.  open: the read found the breaker   *)
(* open.  retrieving, probing: decide() has answered.  adding, resetting,  *)
(* opening: inside recordSystemicFailure.  settling: inside resolveProbe.  *)
Place == {"idle", "open", "retrieving", "probing",
          "adding", "resetting", "opening", "settling"}

Init ==
  /\ clock = 0
  /\ state = Closed
  /\ failures = 0
  /\ windowStart = Absent
  /\ openedAt = Absent
  /\ pc = [t \in Turn |-> "idle"]
  /\ at = [t \in Turn |-> 0]
  /\ seen = [t \in Turn |-> Absent]
  /\ count = [t \in Turn |-> 0]
  /\ reported = 0
  /\ crashes = 0

(* Turn t goes on to place p and takes nothing with it.                    *)
GoTo(t, p) ==
  /\ pc' = [pc EXCEPT ![t] = p]
  /\ at' = [at EXCEPT ![t] = 0]
  /\ seen' = [seen EXCEPT ![t] = Absent]
  /\ count' = [count EXCEPT ![t] = 0]

Tick ==
  /\ clock < MaxTime
  /\ clock' = clock + 1
  /\ UNCHANGED <<item, pc, at, seen, count, reported, crashes>>

-----------------------------------------------------------------------------
(* decide.                                                                 *)

(* A turn that finds the breaker half-open skips, and leaves no trace.     *)
Found(s) == IF s = Closed THEN "retrieving" ELSE IF s = Open THEN "open" ELSE "idle"

Read(t) ==
  /\ pc[t] = "idle"
  /\ pc' = [pc EXCEPT ![t] = Found(state)]
  /\ seen' = [seen EXCEPT ![t] = IF state = Open THEN openedAt ELSE Absent]
  /\ UNCHANGED <<clock, item, at, count, reported, crashes>>

CooledDown(opened) == opened # Absent /\ clock - opened >= Cooldown

Skip(t) ==
  /\ pc[t] = "open"
  /\ ~CooledDown(seen[t])
  /\ GoTo(t, "idle")
  /\ UNCHANGED <<clock, item, reported, crashes>>

(* Mutant: the write is keyed to the instant alone.                        *)
MayProbeByInstant(opened) == openedAt = opened

(* Mutant: the write is keyed to the state alone.                          *)
MayProbeByState(opened) == state = Open

(* The conditional write of attemptHalfOpenTransition.                     *)
MayProbe(opened) == state = Open /\ openedAt = opened

AttemptHalfOpen(t) ==
  /\ pc[t] = "open"
  /\ CooledDown(seen[t])
  /\ IF MayProbe(seen[t])
     THEN state' = HalfOpen /\ GoTo(t, "probing")
     ELSE state' = state /\ GoTo(t, "idle")
  /\ UNCHANGED <<clock, failures, windowStart, openedAt, reported, crashes>>

-----------------------------------------------------------------------------
(* report.                                                                 *)

(* A retrieval without a systemic failure writes nothing.                  *)
Succeed(t) ==
  /\ pc[t] = "retrieving"
  /\ GoTo(t, "idle")
  /\ UNCHANGED <<clock, item, reported, crashes>>

Fail(t, n) ==
  /\ pc[t] = "retrieving"
  /\ reported + n <= MaxReported
  /\ pc' = [pc EXCEPT ![t] = "adding"]
  /\ at' = [at EXCEPT ![t] = clock]
  /\ count' = [count EXCEPT ![t] = n]
  /\ reported' = reported + n
  /\ UNCHANGED <<clock, item, seen, crashes>>

(* Mutant: the count must pass the threshold.                              *)
CountedPast(t, total) ==
  IF total > Threshold
  THEN /\ pc' = [pc EXCEPT ![t] = "opening"]
       /\ count' = [count EXCEPT ![t] = 0]
       /\ UNCHANGED <<at, seen>>
  ELSE GoTo(t, "idle")

(* A write of a report has left the count at total.                        *)
Counted(t, total) ==
  IF total >= Threshold
  THEN /\ pc' = [pc EXCEPT ![t] = "opening"]
       /\ count' = [count EXCEPT ![t] = 0]
       /\ UNCHANGED <<at, seen>>
  ELSE GoTo(t, "idle")

InWindow(instant) == windowStart = Absent \/ windowStart > instant - Window

(* Mutant: the item holds when the window ends, not when it began.         *)
AddFailuresUntil(t) ==
  /\ pc[t] = "adding"
  /\ IF InWindow(at[t])
     THEN /\ failures' = failures + count[t]
          /\ windowStart' = IF windowStart = Absent THEN at[t] + Window ELSE windowStart
          /\ Counted(t, failures')
     ELSE /\ pc' = [pc EXCEPT ![t] = "resetting"]
          /\ UNCHANGED <<failures, windowStart, at, seen, count>>
  /\ UNCHANGED <<clock, state, openedAt, reported, crashes>>

AddFailures(t) ==
  /\ pc[t] = "adding"
  /\ IF InWindow(at[t])
     THEN /\ failures' = failures + count[t]
          /\ windowStart' = IF windowStart = Absent THEN at[t] ELSE windowStart
          /\ Counted(t, failures')
     ELSE /\ pc' = [pc EXCEPT ![t] = "resetting"]
          /\ UNCHANGED <<failures, windowStart, at, seen, count>>
  /\ UNCHANGED <<clock, state, openedAt, reported, crashes>>

(* The second write has no condition.                                      *)
ResetWindow(t) ==
  /\ pc[t] = "resetting"
  /\ failures' = count[t]
  /\ windowStart' = at[t]
  /\ Counted(t, count[t])
  /\ UNCHANGED <<clock, state, openedAt, reported, crashes>>

OpenBreaker(t) ==
  /\ pc[t] = "opening"
  /\ IF state = Closed
     THEN state' = Open /\ openedAt' = at[t]
     ELSE UNCHANGED <<state, openedAt>>
  /\ GoTo(t, "idle")
  /\ UNCHANGED <<clock, failures, windowStart, reported, crashes>>

(* The probe has returned, having failed if n > 0.                         *)
ProbeReturns(t, n) ==
  /\ pc[t] = "probing"
  /\ pc' = [pc EXCEPT ![t] = "settling"]
  /\ at' = [at EXCEPT ![t] = clock]
  /\ count' = [count EXCEPT ![t] = n]
  /\ UNCHANGED <<clock, item, seen, reported, crashes>>

(* Mutant: a probe that failed reports nothing.                            *)
ResolveProbeOnSuccess(t) ==
  /\ pc[t] = "settling"
  /\ IF state = HalfOpen /\ count[t] = 0
     THEN state' = Closed /\ failures' = 0
     ELSE UNCHANGED <<state, failures>>
  /\ GoTo(t, "idle")
  /\ UNCHANGED <<clock, windowStart, openedAt, reported, crashes>>

ResolveProbe(t) ==
  /\ pc[t] = "settling"
  /\ IF state # HalfOpen THEN UNCHANGED <<state, failures, openedAt>>
     ELSE IF count[t] > 0
     THEN state' = Open /\ openedAt' = at[t] /\ failures' = failures
     ELSE state' = Closed /\ failures' = 0 /\ openedAt' = openedAt
  /\ GoTo(t, "idle")
  /\ UNCHANGED <<clock, windowStart, reported, crashes>>

-----------------------------------------------------------------------------
(* The invocation ends where it stands: it timed out, it was killed, or a  *)
(* call to the table failed for another reason than its condition and the  *)
(* turn answered 500.                                                      *)
Crash(t) ==
  /\ crashes < MaxCrashes
  /\ pc[t] # "idle"
  /\ crashes' = crashes + 1
  /\ GoTo(t, "idle")
  /\ UNCHANGED <<clock, item, reported>>

(* A turn under way takes its next step.                                   *)
Proceed(t) ==
  \/ Skip(t) \/ AttemptHalfOpen(t) \/ Succeed(t)
  \/ \E n \in 1..MostFailures : Fail(t, n)
  \/ AddFailures(t) \/ ResetWindow(t) \/ OpenBreaker(t)
  \/ \E n \in {0, 1} : ProbeReturns(t, n)
  \/ ResolveProbe(t)

Next ==
  \/ Tick
  \/ \E t \in Turn : Read(t) \/ Proceed(t) \/ Crash(t)

Spec == Init /\ [][Next]_vars

(* An invocation that is not killed runs to its end.                       *)
FairSpec == Spec /\ \A t \in Turn : WF_vars(Proceed(t))

-----------------------------------------------------------------------------
(* Correctness.                                                            *)

Instant == 0..MaxTime

TypeOK ==
  /\ clock \in Instant
  /\ state \in {Closed, Open, HalfOpen}
  /\ failures \in Nat
  /\ windowStart \in Instant \cup {Absent}
  /\ openedAt \in Instant \cup {Absent}
  /\ pc \in [Turn -> Place]
  /\ at \in [Turn -> Instant]
  /\ seen \in [Turn -> Instant \cup {Absent}]
  /\ count \in [Turn -> Nat]
  /\ reported \in Nat
  /\ crashes \in Nat

(* The turns that won the race and have not reported.                      *)
Probers == {t \in Turn : pc[t] \in {"probing", "settling"}}

(* Exactly one turn runs the probe: however many turns read the same open  *)
(* breaker, no two ever hold the probe at once, and while one does nobody  *)
(* else's report moves the breaker from under it.                          *)
OneProbe ==
  /\ \A t, u \in Probers : t = u
  /\ Probers # {} => state = HalfOpen

(* Crossing the threshold opens the breaker: if a closed breaker's count   *)
(* has reached the threshold, some turn is about to write it open, unless  *)
(* a turn died.  Counts are added to, started over and cleared by          *)
(* different turns meanwhile.                                              *)
CrossingIsFollowedUp ==
  (state = Closed /\ failures >= Threshold /\ crashes = 0)
    => \E t \in Turn : pc[t] = "opening"

(* The probe's own outcome decides closed or open again, sooner or later,  *)
(* for as long as no invocation has died.                                  *)
LiveProbeIsSettled ==
  (state = HalfOpen /\ crashes = 0) ~> (state # HalfOpen \/ crashes > 0)

(* A closed breaker's instant is never read again.                         *)
OpenSince == IF state = Closed THEN Absent ELSE openedAt

(* The shared item, raced for by any number of turns some of which die, is *)
(* a circuit breaker.                                                      *)
Breaker ==
  INSTANCE CircuitBreaker WITH
    Caller <- Turn, openedAt <- OpenSince, prober <- Probers

ImplementsBreaker == Breaker!Spec

=============================================================================
