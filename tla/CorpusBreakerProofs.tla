------------------------- MODULE CorpusBreakerProofs -------------------------
(* Theorems about CorpusBreaker, for any number of turns, any threshold,   *)
(* window and cooldown, and any number of deaths.                          *)
EXTENDS CorpusBreaker, TLAPS

-----------------------------------------------------------------------------
(* Types.                                                                  *)

(* Going to a place keeps the types of what a turn carries.                *)
LEMMA GoToTypes ==
  ASSUME TypeOK, NEW t \in Turn, NEW p \in Place, GoTo(t, p)
  PROVE  /\ pc' \in [Turn -> Place]
         /\ at' \in [Turn -> Instant]
         /\ seen' \in [Turn -> Instant \cup {Absent}]
         /\ count' \in [Turn -> Nat]
  BY BoundAssumption DEF TypeOK, GoTo, Instant

(* So does settling what a write of the count was followed by.             *)
LEMMA CountedTypes ==
  ASSUME TypeOK, NEW t \in Turn, NEW total, Counted(t, total)
  PROVE  /\ pc' \in [Turn -> Place]
         /\ at' \in [Turn -> Instant]
         /\ seen' \in [Turn -> Instant \cup {Absent}]
         /\ count' \in [Turn -> Nat]
<1>1. CASE total >= Threshold
  <2>1. "opening" \in Place BY DEF Place
  <2>2. QED BY <1>1, <2>1 DEF TypeOK, Counted
<1>2. CASE ~(total >= Threshold)
  <2>1. GoTo(t, "idle") BY <1>2 DEF Counted
  <2>2. "idle" \in Place BY DEF Place
  <2>3. QED BY <2>1, <2>2, GoToTypes
<1>3. QED BY <1>1, <1>2

(* Every step keeps every variable in its type.                            *)
LEMMA TypeStep == TypeOK /\ [Next]_vars => TypeOK'
<1> SUFFICES ASSUME TypeOK, [Next]_vars PROVE TypeOK'
  OBVIOUS
<1> USE DEF item
<1>i. "idle" \in Place BY DEF Place
<1>1. CASE Tick
  BY <1>1, BoundAssumption DEF TypeOK, Tick, Instant
<1>2. ASSUME NEW t \in Turn, Read(t) PROVE TypeOK'
  <2>1. Found(state) \in Place
    BY DEF TypeOK, Found, Place, Closed, Open, HalfOpen
  <2>2. QED BY <1>2, <2>1 DEF TypeOK, Read
<1>3. ASSUME NEW t \in Turn, Skip(t) PROVE TypeOK'
  BY <1>3, <1>i, GoToTypes DEF TypeOK, Skip
<1>4. ASSUME NEW t \in Turn, AttemptHalfOpen(t) PROVE TypeOK'
  <2>1. "probing" \in Place BY DEF Place
  <2>2. QED BY <1>4, <1>i, <2>1, GoToTypes DEF TypeOK, AttemptHalfOpen
<1>5. ASSUME NEW t \in Turn, Succeed(t) PROVE TypeOK'
  BY <1>5, <1>i, GoToTypes DEF TypeOK, Succeed
<1>6. ASSUME NEW t \in Turn, NEW n \in 1..MostFailures, Fail(t, n) PROVE TypeOK'
  <2>1. "adding" \in Place BY DEF Place
  <2>2. n \in Nat BY ThresholdAssumption
  <2>3. QED BY <1>6, <2>1, <2>2 DEF TypeOK, Fail
<1>7. ASSUME NEW t \in Turn, AddFailures(t) PROVE TypeOK'
  <2>1. CASE InWindow(at[t])
    BY <1>7, <2>1, CountedTypes DEF TypeOK, AddFailures
  <2>2. CASE ~InWindow(at[t])
    <3>1. "resetting" \in Place BY DEF Place
    <3>2. QED BY <1>7, <2>2, <3>1 DEF TypeOK, AddFailures
  <2>3. QED BY <2>1, <2>2
<1>8. ASSUME NEW t \in Turn, ResetWindow(t) PROVE TypeOK'
  BY <1>8, CountedTypes DEF TypeOK, ResetWindow
<1>9. ASSUME NEW t \in Turn, OpenBreaker(t) PROVE TypeOK'
  BY <1>9, <1>i, GoToTypes DEF TypeOK, OpenBreaker
<1>10. ASSUME NEW t \in Turn, NEW n \in {0, 1}, ProbeReturns(t, n) PROVE TypeOK'
  <2>1. "settling" \in Place BY DEF Place
  <2>2. n \in Nat OBVIOUS
  <2>3. QED BY <1>10, <2>1, <2>2 DEF TypeOK, ProbeReturns
<1>11. ASSUME NEW t \in Turn, ResolveProbe(t) PROVE TypeOK'
  BY <1>11, <1>i, GoToTypes DEF TypeOK, ResolveProbe
<1>12. ASSUME NEW t \in Turn, Crash(t) PROVE TypeOK'
  BY <1>12, <1>i, GoToTypes DEF TypeOK, Crash
<1>13. CASE UNCHANGED vars
  BY <1>13 DEF TypeOK, vars
<1>14. QED
  BY <1>1, <1>2, <1>3, <1>4, <1>5, <1>6, <1>7, <1>8, <1>9, <1>10, <1>11, <1>12,
     <1>13 DEF Next, Proceed

(* Every variable keeps its type: the instants written to the item were    *)
(* read off the clock, and what a turn carries is what it read or counted. *)
THEOREM BreakerTypeCorrect == Spec => []TypeOK
<1>1. Init => TypeOK
  BY BoundAssumption DEF Init, TypeOK, Instant, Place
<1>2. QED BY <1>1, TypeStep, PTL DEF Spec

-----------------------------------------------------------------------------
(* One probe.                                                              *)

ProbePlaces == {"probing", "settling"}

(* Only a turn that moves can enter or leave the probers.                  *)
LEMMA ProbersMove ==
  ASSUME TypeOK, NEW t \in Turn, NEW p, pc' = [pc EXCEPT ![t] = p]
  PROVE  Probers' = IF p \in ProbePlaces THEN Probers \cup {t} ELSE Probers \ {t}
  BY DEF TypeOK, Probers, ProbePlaces

(* A turn that is not at a probe's place is not a prober.                  *)
LEMMA NotProber ==
  ASSUME NEW t \in Turn, pc[t] \notin ProbePlaces
  PROVE  Probers \ {t} = Probers
  BY DEF Probers, ProbePlaces

(* Outside its probe, no step of a turn but the claim moves the probers.   *)
LEMMA ReportsKeepProbers ==
  ASSUME TypeOK, NEW t \in Turn,
         \/ Read(t) \/ Skip(t) \/ Succeed(t) \/ \E n \in 1..MostFailures : Fail(t, n)
         \/ AddFailures(t) \/ ResetWindow(t) \/ OpenBreaker(t)
         \/ \E n \in {0, 1} : ProbeReturns(t, n)
  PROVE  Probers' = Probers
<1>1. ASSUME NEW p, pc' = [pc EXCEPT ![t] = p],
             p \notin ProbePlaces, pc[t] \notin ProbePlaces
      PROVE  Probers' = Probers
  BY <1>1, ProbersMove, NotProber
<1>2. CASE Read(t)
  <2>1. Found(state) \notin ProbePlaces
    BY DEF TypeOK, Found, ProbePlaces, Closed, Open, HalfOpen
  <2>2. QED BY <1>1, <1>2, <2>1 DEF Read, ProbePlaces
<1>3. CASE Skip(t) \/ Succeed(t) \/ OpenBreaker(t)
  BY <1>1, <1>3 DEF Skip, Succeed, OpenBreaker, GoTo, ProbePlaces
<1>4. CASE \E n \in 1..MostFailures : Fail(t, n)
  BY <1>1, <1>4 DEF Fail, ProbePlaces
<1>5. CASE AddFailures(t) \/ ResetWindow(t)
  BY <1>1, <1>5 DEF AddFailures, ResetWindow, Counted, GoTo, ProbePlaces
<1>6. CASE \E n \in {0, 1} : ProbeReturns(t, n)
  <2>1. Probers' = Probers \cup {t}
    BY <1>6, ProbersMove DEF ProbeReturns, ProbePlaces
  <2>2. t \in Probers
    BY <1>6 DEF ProbeReturns, Probers
  <2>3. QED BY <2>1, <2>2
<1>7. QED BY <1>2, <1>3, <1>4, <1>5, <1>6

(* Every step keeps the probe single.                                      *)
LEMMA OneProbeStep == TypeOK /\ OneProbe /\ [Next]_vars => OneProbe'
<1> SUFFICES ASSUME TypeOK, OneProbe, [Next]_vars PROVE OneProbe'
  OBVIOUS
<1> USE DEF item
<1>1. ASSUME Probers' = Probers, state' = state PROVE OneProbe'
  BY <1>1 DEF OneProbe
<1>2. CASE Tick
  BY <1>1, <1>2 DEF Tick, Probers
<1>3. ASSUME NEW t \in Turn,
             \/ Read(t) \/ Skip(t) \/ Succeed(t) \/ \E n \in 1..MostFailures : Fail(t, n)
             \/ AddFailures(t) \/ ResetWindow(t)
             \/ \E n \in {0, 1} : ProbeReturns(t, n)
      PROVE  OneProbe'
  <2>1. Probers' = Probers BY <1>3, ReportsKeepProbers
  <2>2. state' = state
    BY <1>3 DEF Read, Skip, Succeed, Fail, AddFailures, ResetWindow, ProbeReturns
  <2>3. QED BY <1>1, <2>1, <2>2
<1>4. ASSUME NEW t \in Turn, OpenBreaker(t) PROVE OneProbe'
  <2>1. Probers' = Probers BY <1>4, ReportsKeepProbers
  <2>2. CASE state = Closed
    BY <2>1, <2>2 DEF OneProbe, Closed, HalfOpen
  <2>3. CASE state # Closed
    BY <1>1, <1>4, <2>1, <2>3 DEF OpenBreaker
  <2>4. QED BY <2>2, <2>3
<1>5. ASSUME NEW t \in Turn, AttemptHalfOpen(t) PROVE OneProbe'
  <2>1. CASE MayProbe(seen[t])
    <3>1. Probers = {}
      BY <2>1 DEF OneProbe, MayProbe, Open, HalfOpen
    <3>2. Probers' = {t}
      BY <1>5, <2>1, <3>1, ProbersMove DEF AttemptHalfOpen, GoTo, ProbePlaces
    <3>3. QED BY <1>5, <2>1, <3>2 DEF AttemptHalfOpen, OneProbe
  <2>2. CASE ~MayProbe(seen[t])
    <3>1. Probers' = Probers
      BY <1>5, <2>2, ProbersMove, NotProber DEF AttemptHalfOpen, GoTo, ProbePlaces
    <3>2. QED BY <1>1, <1>5, <2>2, <3>1 DEF AttemptHalfOpen
  <2>3. QED BY <2>1, <2>2
<1>6. ASSUME NEW t \in Turn, ResolveProbe(t) PROVE OneProbe'
  <2>1. Probers' = Probers \ {t}
    BY <1>6, ProbersMove DEF ResolveProbe, GoTo, ProbePlaces
  <2>2. t \in Probers
    BY <1>6 DEF ResolveProbe, Probers
  <2>3. Probers' = {}
    BY <2>1, <2>2 DEF OneProbe
  <2>4. QED BY <2>3 DEF OneProbe
<1>7. ASSUME NEW t \in Turn, Crash(t) PROVE OneProbe'
  <2>1. Probers' = Probers \ {t}
    BY <1>7, ProbersMove DEF Crash, GoTo, ProbePlaces
  <2>2. state' = state BY <1>7 DEF Crash
  <2>3. QED BY <2>1, <2>2 DEF OneProbe
<1>8. CASE UNCHANGED vars
  BY <1>1, <1>8 DEF vars, Probers
<1>9. QED
  BY <1>2, <1>3, <1>4, <1>5, <1>6, <1>7, <1>8 DEF Next, Proceed

(* However many turns race for a cooled-down breaker, and however many of  *)
(* them die, at most one runs the probe, and the breaker is half-open for  *)
(* as long as it runs.                                                     *)
THEOREM AtMostOneProbe == Spec => []OneProbe
<1>1. Init => OneProbe
  BY DEF Init, OneProbe, Probers
<1>2. QED BY <1>1, OneProbeStep, BreakerTypeCorrect, PTL DEF Spec

-----------------------------------------------------------------------------
(* Crossing the threshold.                                                 *)

(* A turn about to open stays there through another turn's step.           *)
LEMMA OpeningStays ==
  ASSUME TypeOK, NEW t \in Turn, NEW p, pc' = [pc EXCEPT ![t] = p],
         pc[t] # "opening", \E u \in Turn : pc[u] = "opening"
  PROVE  \E u \in Turn : pc'[u] = "opening"
<1>1. PICK u \in Turn : pc[u] = "opening" OBVIOUS
<1>2. pc'[u] = "opening" BY <1>1 DEF TypeOK
<1>3. QED BY <1>2

(* A write of the count that crosses the threshold is followed up.         *)
LEMMA CountedIsFollowedUp ==
  ASSUME TypeOK, NEW t \in Turn, NEW total \in Nat, Counted(t, total), failures' = total
  PROVE  CrossingIsFollowedUp'
<1>1. CASE total >= Threshold
  <2>1. pc'[t] = "opening" BY <1>1 DEF Counted, TypeOK
  <2>2. QED BY <2>1 DEF CrossingIsFollowedUp
<1>2. CASE ~(total >= Threshold)
  BY <1>2 DEF CrossingIsFollowedUp
<1>3. QED BY <1>1, <1>2

(* Every step keeps a crossed threshold followed up.                       *)
LEMMA CrossingStep == TypeOK /\ CrossingIsFollowedUp /\ [Next]_vars => CrossingIsFollowedUp'
<1> SUFFICES ASSUME TypeOK, CrossingIsFollowedUp, [Next]_vars
             PROVE  CrossingIsFollowedUp'
  OBVIOUS
<1> USE DEF item
<1>1. ASSUME state' = state, failures' = failures, crashes' = crashes, NEW t \in Turn, NEW p,
             pc' = [pc EXCEPT ![t] = p], pc[t] # "opening"
      PROVE  CrossingIsFollowedUp'
  BY <1>1, OpeningStays DEF CrossingIsFollowedUp
<1>2. CASE Tick
  BY <1>2 DEF Tick, CrossingIsFollowedUp
<1>3. ASSUME NEW t \in Turn,
             \/ Read(t) \/ Skip(t) \/ Succeed(t) \/ \E n \in 1..MostFailures : Fail(t, n)
             \/ \E n \in {0, 1} : ProbeReturns(t, n)
      PROVE  CrossingIsFollowedUp'
  <2>1. state' = state /\ failures' = failures /\ crashes' = crashes /\ pc[t] # "opening"
    BY <1>3 DEF Read, Skip, Succeed, Fail, ProbeReturns
  <2>2. \E p : pc' = [pc EXCEPT ![t] = p]
    BY <1>3 DEF Read, Skip, Succeed, Fail, ProbeReturns, GoTo
  <2>3. QED BY <1>1, <2>1, <2>2
<1>4. ASSUME NEW t \in Turn, AttemptHalfOpen(t) PROVE CrossingIsFollowedUp'
  <2>1. CASE MayProbe(seen[t])
    BY <1>4, <2>1 DEF AttemptHalfOpen, CrossingIsFollowedUp, Closed, HalfOpen
  <2>2. CASE ~MayProbe(seen[t])
    BY <1>1, <1>4, <2>2 DEF AttemptHalfOpen, GoTo
  <2>3. QED BY <2>1, <2>2
<1>5. ASSUME NEW t \in Turn, AddFailures(t) PROVE CrossingIsFollowedUp'
  <2>1. CASE InWindow(at[t])
    <3>1. failures' \in Nat BY <1>5, <2>1 DEF AddFailures, TypeOK
    <3>2. Counted(t, failures') BY <1>5, <2>1 DEF AddFailures
    <3>3. QED BY <3>1, <3>2, CountedIsFollowedUp
  <2>2. CASE ~InWindow(at[t])
    BY <1>1, <1>5, <2>2 DEF AddFailures
  <2>3. QED BY <2>1, <2>2
<1>6. ASSUME NEW t \in Turn, ResetWindow(t) PROVE CrossingIsFollowedUp'
  BY <1>6, CountedIsFollowedUp DEF ResetWindow, TypeOK
<1>7. ASSUME NEW t \in Turn, OpenBreaker(t) PROVE CrossingIsFollowedUp'
  BY <1>7 DEF OpenBreaker, CrossingIsFollowedUp, Closed, Open
<1>8. ASSUME NEW t \in Turn, ResolveProbe(t) PROVE CrossingIsFollowedUp'
  <2>1. CASE state # HalfOpen
    BY <1>1, <1>8, <2>1 DEF ResolveProbe, GoTo
  <2>2. CASE state = HalfOpen /\ count[t] > 0
    BY <1>8, <2>2 DEF ResolveProbe, CrossingIsFollowedUp, Open, Closed
  <2>3. CASE state = HalfOpen /\ ~(count[t] > 0)
    BY <1>8, <2>3, ThresholdAssumption DEF ResolveProbe, CrossingIsFollowedUp
  <2>4. QED BY <2>1, <2>2, <2>3
<1>9. ASSUME NEW t \in Turn, Crash(t) PROVE CrossingIsFollowedUp'
  BY <1>9 DEF Crash, TypeOK, CrossingIsFollowedUp
<1>10. CASE UNCHANGED vars
  BY <1>10 DEF vars, CrossingIsFollowedUp
<1>11. QED
  BY <1>2, <1>3, <1>4, <1>5, <1>6, <1>7, <1>8, <1>9, <1>10 DEF Next, Proceed

(* As long as no invocation has died, a count that has crossed the         *)
(* threshold always has a turn on its way to open the breaker, however the *)
(* counts of other turns are added, started over and cleared in between.   *)
THEOREM CrossingAlwaysFollowedUp == Spec => []CrossingIsFollowedUp
<1>1. Init => CrossingIsFollowedUp
  BY ThresholdAssumption DEF Init, CrossingIsFollowedUp
<1>2. QED BY <1>1, CrossingStep, BreakerTypeCorrect, PTL DEF Spec

-----------------------------------------------------------------------------
(* The refinement.                                                         *)

(* The strengthening: a pending write carries a past instant, the breaker  *)
(* had cooled down when the probe was won, and the probe's report carries  *)
(* an instant after that.                                                  *)
Stamped ==
  /\ \A t \in Turn : at[t] <= clock
  /\ \A t \in Probers : /\ openedAt # Absent
                        /\ clock - openedAt >= Cooldown
                        /\ pc[t] = "settling" => at[t] >= openedAt + Cooldown

(* A step that leaves the clock, the opening instant and the probers alone *)
(* and takes t's instant from the clock or drops it keeps the stamps.      *)
LEMMA StampedKept ==
  ASSUME TypeOK, Stamped, clock' = clock, openedAt' = openedAt,
         NEW t \in Turn, NEW p, NEW i \in {0, at[t], clock},
         pc' = [pc EXCEPT ![t] = p], at' = [at EXCEPT ![t] = i],
         p # "probing", p = "settling" => t \in Probers /\ i = clock
  PROVE  Stamped'
<1>1. at' \in [Turn -> Int] BY DEF TypeOK, Instant
<1>2. ASSUME NEW u \in Turn PROVE at'[u] <= clock'
  BY DEF TypeOK, Instant, Stamped
<1>3. ASSUME NEW u \in Probers'
      PROVE  /\ openedAt' # Absent
             /\ clock' - openedAt' >= Cooldown
             /\ pc'[u] = "settling" => at'[u] >= openedAt' + Cooldown
  <2>1. u \in Probers
    BY ProbersMove DEF ProbePlaces
  <2>2. u \in Turn BY <2>1 DEF Probers
  <2>3. openedAt # Absent /\ clock - openedAt >= Cooldown
    BY <2>1 DEF Stamped
  <2>4. CASE u = t
    <3>1. pc'[u] = p /\ at'[u] = i BY <2>4 DEF TypeOK
    <3>2. pc'[u] = "settling" => at'[u] >= openedAt' + Cooldown
      BY <3>1, <2>3, ThresholdAssumption DEF TypeOK, Instant, Absent
    <3>3. QED BY <2>3, <3>2
  <2>5. CASE u # t
    BY <2>1, <2>2, <2>5 DEF Stamped, TypeOK
  <2>6. QED BY <2>4, <2>5
<1>4. QED BY <1>2, <1>3 DEF Stamped

(* Every step keeps the stamps.                                            *)
LEMMA StampedStep == TypeOK /\ OneProbe /\ Stamped /\ [Next]_vars => Stamped'
<1> SUFFICES ASSUME TypeOK, OneProbe, Stamped, [Next]_vars PROVE Stamped'
  OBVIOUS
<1> USE DEF item
<1>g. ASSUME NEW t \in Turn, GoTo(t, "idle"), clock' = clock, openedAt' = openedAt
      PROVE  Stamped'
  BY <1>g, StampedKept DEF GoTo
<1>c. ASSUME NEW t \in Turn, NEW total, Counted(t, total),
             clock' = clock, openedAt' = openedAt
      PROVE  Stamped'
  <2>1. CASE total >= Threshold
    <3>1. at' = [at EXCEPT ![t] = at[t]] BY <1>c, <2>1 DEF Counted, TypeOK
    <3>2. QED BY <1>c, <2>1, <3>1, StampedKept DEF Counted
  <2>2. CASE ~(total >= Threshold)
    BY <1>c, <1>g, <2>2 DEF Counted
  <2>3. QED BY <2>1, <2>2
<1>1. CASE Tick
  <2>1. Probers' = Probers BY <1>1 DEF Tick, Probers
  <2>2. clock' = clock + 1 /\ openedAt' = openedAt /\ at' = at /\ pc' = pc
    BY <1>1 DEF Tick
  <2>3. \A t \in Turn : at[t] \in Int /\ at[t] <= clock BY DEF Stamped, TypeOK, Instant
  <2>4. clock \in Int /\ openedAt \in Int /\ Cooldown \in Int
    BY ThresholdAssumption DEF TypeOK, Instant, Absent
  <2>5. \A t \in Turn : at'[t] <= clock' BY <2>2, <2>3, <2>4
  <2>6. ASSUME NEW t \in Probers
        PROVE  /\ openedAt' # Absent
               /\ clock' - openedAt' >= Cooldown
               /\ pc'[t] = "settling" => at'[t] >= openedAt' + Cooldown
    BY <2>2, <2>4 DEF Stamped
  <2>7. QED BY <2>1, <2>5, <2>6 DEF Stamped
<1>2. ASSUME NEW t \in Turn, Read(t) PROVE Stamped'
  <2>1. Found(state) \notin ProbePlaces
    BY DEF TypeOK, Found, ProbePlaces, Closed, Open, HalfOpen
  <2>2. at' = [at EXCEPT ![t] = at[t]] BY <1>2 DEF Read, TypeOK
  <2>3. QED BY <1>2, <2>1, <2>2, StampedKept DEF Read, ProbePlaces
<1>3. ASSUME NEW t \in Turn, Skip(t) \/ Succeed(t) \/ Crash(t) PROVE Stamped'
  BY <1>3, <1>g DEF Skip, Succeed, Crash
<1>4. ASSUME NEW t \in Turn, AttemptHalfOpen(t) PROVE Stamped'
  <2>1. CASE MayProbe(seen[t])
    <3>1. Probers' = {t}
      <4>1. Probers = {} BY <2>1 DEF OneProbe, MayProbe, Open, HalfOpen
      <4>2. QED BY <1>4, <2>1, <4>1, ProbersMove DEF AttemptHalfOpen, GoTo, ProbePlaces
    <3>2. pc'[t] = "probing"
      BY <1>4, <2>1 DEF AttemptHalfOpen, GoTo, TypeOK
    <3>3. openedAt # Absent /\ clock - openedAt >= Cooldown
      BY <1>4, <2>1 DEF AttemptHalfOpen, CooledDown, MayProbe
    <3>4. \A u \in Turn : at'[u] <= clock'
      BY <1>4, <2>1 DEF AttemptHalfOpen, GoTo, TypeOK, Stamped, Instant
    <3>5. clock' = clock /\ openedAt' = openedAt BY <1>4 DEF AttemptHalfOpen
    <3>6. QED BY <3>1, <3>2, <3>3, <3>4, <3>5 DEF Stamped
  <2>2. CASE ~MayProbe(seen[t])
    BY <1>4, <1>g, <2>2 DEF AttemptHalfOpen
  <2>3. QED BY <2>1, <2>2
<1>5. ASSUME NEW t \in Turn, NEW n \in 1..MostFailures, Fail(t, n) PROVE Stamped'
  BY <1>5, StampedKept DEF Fail
<1>6. ASSUME NEW t \in Turn, AddFailures(t) PROVE Stamped'
  <2>1. CASE InWindow(at[t])
    BY <1>6, <1>c, <2>1 DEF AddFailures
  <2>2. CASE ~InWindow(at[t])
    <3>1. at' = [at EXCEPT ![t] = at[t]] BY <1>6, <2>2 DEF AddFailures, TypeOK
    <3>2. QED BY <1>6, <2>2, <3>1, StampedKept DEF AddFailures
  <2>3. QED BY <2>1, <2>2
<1>7. ASSUME NEW t \in Turn, ResetWindow(t) PROVE Stamped'
  BY <1>7, <1>c DEF ResetWindow
<1>8. ASSUME NEW t \in Turn, OpenBreaker(t) PROVE Stamped'
  <2>1. CASE state = Closed
    <3>1. Probers' = {}
      <4>1. Probers = {} BY <2>1 DEF OneProbe, Closed, HalfOpen
      <4>2. QED BY <1>8, <4>1, ReportsKeepProbers
    <3>2. \A u \in Turn : at'[u] <= clock'
      BY <1>8 DEF OpenBreaker, GoTo, TypeOK, Stamped, Instant
    <3>3. QED BY <3>1, <3>2 DEF Stamped
  <2>2. CASE state # Closed
    BY <1>8, <1>g, <2>2 DEF OpenBreaker
  <2>3. QED BY <2>1, <2>2
<1>9. ASSUME NEW t \in Turn, NEW n \in {0, 1}, ProbeReturns(t, n) PROVE Stamped'
  <2>1. t \in Probers BY <1>9 DEF ProbeReturns, Probers
  <2>2. QED BY <1>9, <2>1, StampedKept DEF ProbeReturns
<1>10. ASSUME NEW t \in Turn, ResolveProbe(t) PROVE Stamped'
  <2>1. Probers' = {}
    <3>1. t \in Probers BY <1>10 DEF ResolveProbe, Probers
    <3>2. Probers' = Probers \ {t}
      BY <1>10, ProbersMove DEF ResolveProbe, GoTo, ProbePlaces
    <3>3. QED BY <3>1, <3>2 DEF OneProbe
  <2>2. \A u \in Turn : at'[u] <= clock'
    BY <1>10 DEF ResolveProbe, GoTo, TypeOK, Stamped, Instant
  <2>3. QED BY <2>1, <2>2 DEF Stamped
<1>11. CASE UNCHANGED vars
  BY <1>11 DEF vars, Stamped, Probers
<1>12. QED
  BY <1>1, <1>2, <1>3, <1>4, <1>5, <1>6, <1>7, <1>8, <1>9, <1>10, <1>11
     DEF Next, Proceed

(* Every step of the shared item is a step of a circuit breaker, or none.  *)
LEMMA BreakerStep ==
  TypeOK /\ OneProbe /\ Stamped /\ [Next]_vars => [Breaker!Next]_(Breaker!vars)
<1> SUFFICES ASSUME TypeOK, OneProbe, Stamped, [Next]_vars
             PROVE  [Breaker!Next]_(Breaker!vars)
  OBVIOUS
<1> USE DEF item
<1>s. ASSUME clock' = clock, state' = state, openedAt' = openedAt, Probers' = Probers
      PROVE  UNCHANGED Breaker!vars
  BY <1>s DEF Breaker!vars, OpenSince
<1>1. CASE Tick
  <2>1. Probers' = Probers BY <1>1 DEF Tick, Probers
  <2>2. Breaker!Tick BY <1>1, <2>1 DEF Tick, Breaker!Tick, OpenSince
  <2>3. QED BY <2>2 DEF Breaker!Next
<1>2. ASSUME NEW t \in Turn,
             \/ Read(t) \/ Skip(t) \/ Succeed(t) \/ \E n \in 1..MostFailures : Fail(t, n)
             \/ AddFailures(t) \/ ResetWindow(t)
             \/ \E n \in {0, 1} : ProbeReturns(t, n)
      PROVE  UNCHANGED Breaker!vars
  <2>1. Probers' = Probers BY <1>2, ReportsKeepProbers
  <2>2. clock' = clock /\ state' = state /\ openedAt' = openedAt
    BY <1>2 DEF Read, Skip, Succeed, Fail, AddFailures, ResetWindow, ProbeReturns
  <2>3. QED BY <1>s, <2>1, <2>2
<1>3. ASSUME NEW t \in Turn, AttemptHalfOpen(t) PROVE [Breaker!Next]_(Breaker!vars)
  <2>1. CASE MayProbe(seen[t])
    <3>1. Probers' = {t}
      <4>1. Probers = {} BY <2>1 DEF OneProbe, MayProbe, Open, HalfOpen
      <4>2. QED BY <1>3, <2>1, <4>1, ProbersMove DEF AttemptHalfOpen, GoTo, ProbePlaces
    <3>2. state = Open /\ clock - openedAt >= Cooldown
      BY <1>3, <2>1 DEF AttemptHalfOpen, CooledDown, MayProbe
    <3>3. Breaker!Probe(t)
      BY <1>3, <2>1, <3>1, <3>2
         DEF AttemptHalfOpen, Breaker!Probe, OpenSince, Closed, Open, HalfOpen,
             Breaker!Open, Breaker!HalfOpen
    <3>4. QED BY <3>3 DEF Breaker!Next
  <2>2. CASE ~MayProbe(seen[t])
    <3>1. Probers' = Probers
      BY <1>3, <2>2, ProbersMove, NotProber DEF AttemptHalfOpen, GoTo, ProbePlaces
    <3>2. QED BY <1>3, <1>s, <2>2, <3>1 DEF AttemptHalfOpen
  <2>3. QED BY <2>1, <2>2
<1>4. ASSUME NEW t \in Turn, OpenBreaker(t) PROVE [Breaker!Next]_(Breaker!vars)
  <2>1. Probers' = Probers BY <1>4, ReportsKeepProbers
  <2>2. CASE state = Closed
    <3>1. at[t] \in 0..clock BY DEF Stamped, TypeOK, Instant
    <3>2. Breaker!Trip
      BY <1>4, <2>1, <2>2, <3>1
         DEF OpenBreaker, Breaker!Trip, OpenSince, Closed, Open, Breaker!Closed, Breaker!Open
    <3>3. QED BY <3>2 DEF Breaker!Next
  <2>3. CASE state # Closed
    BY <1>4, <1>s, <2>1, <2>3 DEF OpenBreaker
  <2>4. QED BY <2>2, <2>3
<1>5. ASSUME NEW t \in Turn, ResolveProbe(t) PROVE [Breaker!Next]_(Breaker!vars)
  <2>1. t \in Probers BY <1>5 DEF ResolveProbe, Probers
  <2>2. Probers = {t} /\ state = HalfOpen BY <2>1 DEF OneProbe
  <2>3. Probers' = {}
    BY <1>5, <2>2, ProbersMove DEF ResolveProbe, GoTo, ProbePlaces
  <2>4. CASE count[t] > 0
    <3>1. at[t] \in (openedAt + Cooldown)..clock
      <4>1. at[t] \in Int /\ at[t] <= clock BY DEF Stamped, TypeOK, Instant
      <4>2. openedAt + Cooldown \in Int /\ clock \in Int
        BY ThresholdAssumption DEF TypeOK, Instant, Absent
      <4>3. at[t] >= openedAt + Cooldown
        BY <1>5, <2>1 DEF Stamped, ResolveProbe
      <4>4. QED BY <4>1, <4>2, <4>3
    <3>2. Breaker!Fail(t)
      BY <1>5, <2>2, <2>3, <2>4, <3>1
         DEF ResolveProbe, Breaker!Fail, OpenSince, Closed, HalfOpen, Open,
             Breaker!HalfOpen, Breaker!Open
    <3>3. QED BY <3>2 DEF Breaker!Next
  <2>5. CASE ~(count[t] > 0)
    <3>1. Breaker!Succeed(t)
      BY <1>5, <2>2, <2>3, <2>5
         DEF ResolveProbe, Breaker!Succeed, OpenSince, Absent, HalfOpen, Closed,
             Breaker!HalfOpen, Breaker!Closed
    <3>2. QED BY <3>1 DEF Breaker!Next
  <2>6. QED BY <2>4, <2>5
<1>6. ASSUME NEW t \in Turn, Crash(t) PROVE [Breaker!Next]_(Breaker!vars)
  <2>1. Probers' = Probers \ {t}
    BY <1>6, ProbersMove DEF Crash, GoTo, ProbePlaces
  <2>2. clock' = clock /\ state' = state /\ openedAt' = openedAt BY <1>6 DEF Crash
  <2>o. OpenSince' = OpenSince BY <2>2 DEF OpenSince
  <2>3. CASE t \in Probers
    <3>1. Probers = {t} BY <2>3 DEF OneProbe
    <3>2. Breaker!Vanish(t) BY <2>1, <2>2, <2>o, <3>1 DEF Breaker!Vanish
    <3>3. QED BY <3>2 DEF Breaker!Next
  <2>4. CASE t \notin Probers
    BY <1>s, <2>1, <2>2, <2>4
  <2>5. QED BY <2>3, <2>4
<1>7. CASE UNCHANGED vars
  BY <1>7, <1>s DEF vars, Probers
<1>8. QED
  BY <1>1, <1>2, <1>3, <1>4, <1>5, <1>6, <1>7 DEF Next, Proceed, Breaker!Next

(* The item of a shared table, read and written by turns that share        *)
(* nothing else and may die between two calls, is a circuit breaker: it    *)
(* opens from closed only, is probed by one caller after a whole cooldown, *)
(* and only that probe's report ends half-open.                            *)
THEOREM CorpusBreakerImplementsBreaker == Spec => ImplementsBreaker
<1>1. Init => Breaker!Init
  BY DEF Init, Breaker!Init, OpenSince, Probers, Closed, Breaker!Closed, Absent
<1>2. Init => Stamped
  BY DEF Init, Stamped, Probers
<1>3. Spec => []Stamped
  BY <1>2, StampedStep, BreakerTypeCorrect, AtMostOneProbe, PTL DEF Spec
<1>4. QED
  BY <1>1, <1>3, BreakerStep, BreakerTypeCorrect, AtMostOneProbe, PTL
     DEF Spec, ImplementsBreaker, Breaker!Spec

=============================================================================
