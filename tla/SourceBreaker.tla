---------------------------- MODULE SourceBreaker ----------------------------
(***************************************************************************)
(* The breaker in front of one external source, kept in a process          *)
(* (src/domain/source-breaker.mjs).  Its calls run whole.  An instant is   *)
(* held as the time since it, up to the value beyond which it is not told  *)
(* apart.                                                                  *)
(***************************************************************************)
EXTENDS Integers

CONSTANTS
  Threshold,  \* failureThreshold
  Window,     \* windowMs
  Cooldown    \* cooldownMs

ASSUME SourceBreakerAssumption ==
  /\ Threshold \in Nat \ {0}
  /\ Window \in Nat /\ Cooldown \in Nat

Closed == "closed"
Open == "open"
HalfOpen == "half-open"

(* Stands for null.                                                        *)
Absent == -1

VARIABLES
  state,
  failures,   \* counted up to Threshold
  windowAge,  \* the time since windowStart, up to Window
  openAge     \* the time since openedAt, up to Cooldown

breaker == <<state, failures, windowAge, openAge>>

Least(m, n) == IF m < n THEN m ELSE n

BreakerInit ==
  /\ state = Closed
  /\ failures = 0
  /\ windowAge = Absent
  /\ openAge = Absent

Older(age, limit) == IF age = Absent THEN Absent ELSE Least(age + 1, limit)

BreakerAges ==
  /\ windowAge' = Older(windowAge, Window)
  /\ openAge' = Older(openAge, Cooldown)
  /\ UNCHANGED <<state, failures>>

(* decide; any other caller is skipped, and reports nothing.               *)
LetThrough == state = Closed /\ UNCHANGED breaker

LetProbe ==
  /\ state = Open /\ openAge = Cooldown
  /\ state' = HalfOpen
  /\ UNCHANGED <<failures, windowAge, openAge>>

(* Mutant: the count must pass the threshold.                              *)
OpensPast(total) == total > Threshold

Opens(total) == total >= Threshold

OpenBreaker == state' = Open /\ openAge' = 0

(* recordSystemicFailure: whatever the state is by now.                    *)
RecordSystemicFailure(count) ==
  LET aged == windowAge = Absent \/ windowAge = Window
      total == IF aged THEN count ELSE failures + count IN
  /\ failures' = Least(total, Threshold)
  /\ windowAge' = IF aged THEN 0 ELSE windowAge
  /\ IF Opens(total) THEN OpenBreaker ELSE UNCHANGED <<state, openAge>>

ResolveProbe(failed) ==
  IF state # HalfOpen THEN UNCHANGED breaker
  ELSE IF failed THEN OpenBreaker /\ UNCHANGED <<failures, windowAge>>
  ELSE state' = Closed /\ failures' = 0 /\ windowAge' = Absent /\ openAge' = Absent

BreakerTypeOK ==
  /\ state \in {Closed, Open, HalfOpen}
  /\ failures \in 0..Threshold
  /\ windowAge \in 0..Window \cup {Absent}
  /\ openAge \in 0..Cooldown \cup {Absent}

=============================================================================
