-------------------------- MODULE SourceLookupProofs --------------------------
(* Theorems about SourceLookup, for any number of lookups and terms, any   *)
(* threshold, windows, intervals and budgets, in either throttle posture.  *)
EXTENDS SourceLookup, TLAPS

-----------------------------------------------------------------------------
(* Types.                                                                  *)

(* Every call of the breaker keeps its types.                              *)
LEMMA BreakerCallTypes ==
  ASSUME BreakerTypeOK, NEW n \in Nat,
         \/ BreakerAges \/ LetThrough \/ LetProbe \/ RecordSystemicFailure(n)
         \/ \E failed \in BOOLEAN : ResolveProbe(failed)
         \/ UNCHANGED breaker
  PROVE  BreakerTypeOK'
<1> USE SourceBreakerAssumption
        DEF BreakerTypeOK, breaker, Absent, Least, Closed, Open, HalfOpen
<1>1. CASE BreakerAges
  BY <1>1 DEF BreakerAges, Older
<1>2. CASE LetThrough
  BY <1>2 DEF LetThrough
<1>3. CASE LetProbe
  BY <1>3 DEF LetProbe
<1>4. CASE RecordSystemicFailure(n)
  BY <1>4 DEF RecordSystemicFailure, OpenBreaker
<1>5. ASSUME NEW failed \in BOOLEAN, ResolveProbe(failed) PROVE BreakerTypeOK'
  BY <1>5 DEF ResolveProbe, OpenBreaker
<1>6. CASE UNCHANGED breaker
  BY <1>6
<1>7. QED BY <1>1, <1>2, <1>3, <1>4, <1>5, <1>6

(* Every step of the gate keeps its types.                                 *)
LEMMA GateStepTypes ==
  ASSUME GateTypeOK, NEW t \in Term,
         \/ GateAges
         \/ (BeginTurn \/ UNCHANGED fetchesThisTurn)
            /\ (\/ TakeSlot \/ NoSlot
                \/ UNCHANGED <<waitForSlot, cache, sinceLookup, coolOff, inFlight>>)
         \/ SendFetch
         \/ \E throttled \in BOOLEAN : HearFetch(throttled)
         \/ GiveSlotBack(t)
         \/ UNCHANGED gate
  PROVE  GateTypeOK'
<1> DEFINE Cool == {0} \cup UNION {0..n : n \in CoolOffs}
<1>a. MinInterval \in Nat /\ MaxFetches \in Nat
  BY CourtesyGateAssumption
<1>b. /\ waitForSlot \in BOOLEAN /\ cache \subseteq Term /\ sinceLookup \in 0..MinInterval
      /\ coolOff \in Cool /\ inFlight \in BOOLEAN /\ fetchesThisTurn \in 0..MaxFetches
  BY DEF GateTypeOK
<1>c. ASSUME waitForSlot' \in BOOLEAN, cache' \subseteq Term, sinceLookup' \in 0..MinInterval,
             coolOff' \in Cool, inFlight' \in BOOLEAN, fetchesThisTurn' \in 0..MaxFetches
      PROVE  GateTypeOK'
  BY <1>c DEF GateTypeOK
<1>1. CASE GateAges
  <2>1. coolOff' \in Cool
    <3>1. CASE coolOff = 0 BY <1>1, <3>1 DEF GateAges
    <3>2. CASE coolOff # 0
      <4>1. PICK n \in CoolOffs : coolOff \in 0..n BY <1>b, <3>2
      <4>2. n \in Nat BY CourtesyGateAssumption
      <4>3. coolOff' \in 0..n BY <1>1, <4>1, <4>2, <3>2 DEF GateAges
      <4>4. QED BY <4>3
    <3>3. QED BY <3>1, <3>2
  <2>2. sinceLookup' \in 0..MinInterval BY <1>1, <1>a, <1>b DEF GateAges
  <2>3. QED BY <1>1, <1>b, <1>c, <2>1, <2>2 DEF GateAges
<1>5. ASSUME NEW throttled \in BOOLEAN, HearFetch(throttled) PROVE GateTypeOK'
  <2>1. coolOff' \in Cool
    <3>1. CASE throttled
      <4>1. coolOff' \in CoolOffs /\ coolOff' \in Nat
        BY <1>5, <3>1, CourtesyGateAssumption DEF HearFetch
      <4>2. coolOff' \in 0..coolOff' BY <4>1
      <4>3. QED BY <4>1, <4>2
    <3>2. CASE ~throttled
      BY <1>5, <1>b, <3>2 DEF HearFetch
    <3>3. QED BY <3>1, <3>2
  <2>2. QED BY <1>5, <1>b, <1>c, <2>1 DEF HearFetch
<1> HIDE DEF Cool
<1>0. 0 \in 0..MinInterval /\ 0 \in 0..MaxFetches BY <1>a
<1>2. CASE (BeginTurn \/ UNCHANGED fetchesThisTurn)
           /\ (\/ TakeSlot \/ NoSlot
               \/ UNCHANGED <<waitForSlot, cache, sinceLookup, coolOff, inFlight>>)
  <2>1. fetchesThisTurn' \in 0..MaxFetches BY <1>0, <1>2, <1>b DEF BeginTurn
  <2>2. /\ waitForSlot' \in BOOLEAN /\ cache' \subseteq Term /\ sinceLookup' \in 0..MinInterval
        /\ coolOff' \in Cool /\ inFlight' \in BOOLEAN
    BY <1>0, <1>2, <1>b DEF TakeSlot, NoSlot
  <2>3. QED BY <1>c, <2>1, <2>2
<1>4. CASE SendFetch
  BY <1>4, <1>a, <1>b, <1>c DEF SendFetch, OverBudget
<1>6. CASE GiveSlotBack(t)
  BY <1>6, <1>b, <1>c DEF GiveSlotBack
<1>7. CASE UNCHANGED gate
  BY <1>7, <1>b, <1>c DEF gate
<1>8. QED BY <1>1, <1>2, <1>4, <1>5, <1>6, <1>7

(* Every step keeps the types.                                             *)
LEMMA TypeStep == TypeOK /\ [Next]_vars => TypeOK'
<1> SUFFICES ASSUME TypeOK, [Next]_vars PROVE TypeOK'
  OBVIOUS
<1> USE SourceLookupAssumption, SourceBreakerAssumption DEF TypeOK, lookups
<1>n. NoTerm \in Term BY CourtesyGateAssumption DEF NoTerm
<1>1. CASE Tick
  BY <1>1, <1>n, BreakerCallTypes, GateStepTypes DEF Tick
<1>t. CASE NewTurn
  BY <1>t, <1>n, BreakerCallTypes, GateStepTypes DEF NewTurn
<1>2. ASSUME NEW c \in Caller, NEW t \in Term, Begin(c, t) PROVE TypeOK'
  <2>1. BreakerTypeOK' BY <1>2, BreakerCallTypes DEF Begin
  <2>2. GateTypeOK' BY <1>2, GateStepTypes DEF Begin
  <2>3. QED BY <1>2, <2>1, <2>2 DEF Begin, Move
<1>3. ASSUME NEW c \in Caller, Slot(c) PROVE TypeOK'
  <2>1. BreakerTypeOK' BY <1>3, BreakerCallTypes DEF Slot
  <2>2. GateTypeOK' BY <1>3, <1>n, GateStepTypes DEF Slot
  <2>3. QED BY <1>3, <2>1, <2>2 DEF Slot, Move
<1>4. ASSUME NEW c \in Caller, Send(c) PROVE TypeOK'
  <2>1. BreakerTypeOK' BY <1>4, BreakerCallTypes DEF Send
  <2>2. GateTypeOK' BY <1>4, <1>n, GateStepTypes DEF Send
  <2>3. trips' \in [Caller -> 0..MaxTrips] BY <1>4 DEF Send
  <2>4. QED BY <1>4, <2>1, <2>2, <2>3 DEF Send, Move
<1>5. ASSUME NEW c \in Caller, NEW outcome, Hear(c, outcome) PROVE TypeOK'
  <2>1. BreakerTypeOK' BY <1>5, BreakerCallTypes DEF Hear
  <2>2. GateTypeOK' BY <1>5, <1>n, GateStepTypes DEF Hear
  <2>3. earned' \in [Caller -> 0..Threshold] BY <1>5 DEF Hear, Least
  <2>4. QED BY <1>5, <2>1, <2>2, <2>3 DEF Hear, Move
<1>6. ASSUME NEW c \in Caller, Finish(c) PROVE TypeOK'
  <2>1. BreakerTypeOK' BY <1>6, BreakerCallTypes DEF Finish
  <2>2. GateTypeOK' BY <1>6, GateStepTypes DEF Finish
  <2>3. QED BY <1>6, <2>1, <2>2 DEF Finish, Move
<1>7. ASSUME NEW c \in Caller, Report(c) PROVE TypeOK'
  <2>1. BreakerTypeOK'
    <3>1. earned[c] \in Nat /\ (earned[c] > 0) \in BOOLEAN OBVIOUS
    <3>2. QED BY <1>7, <3>1, BreakerCallTypes DEF Report
  <2>2. GateTypeOK' BY <1>7, <1>n, GateStepTypes DEF Report
  <2>3. QED BY <1>7, <1>n, <2>1, <2>2 DEF Report, Move
<1>8. CASE UNCHANGED vars
  BY <1>8, <1>n, BreakerCallTypes, GateStepTypes DEF vars
<1>9. QED
  BY <1>1, <1>t, <1>2, <1>3, <1>4, <1>5, <1>6, <1>7, <1>8 DEF Next, Goes

(* Every reachable state is well typed: in particular a turn's fetches     *)
(* never pass its budget, however the lookups of a source overlap.         *)
THEOREM LookupTypeCorrect == Spec => []TypeOK
<1>1. Init => BreakerTypeOK
  BY SourceBreakerAssumption DEF Init, BreakerInit, BreakerTypeOK, Closed, Absent
<1>2. Init => GateTypeOK
  <2>1. 0 \in 0..MaxFetches /\ MinInterval \in 0..MinInterval
    BY CourtesyGateAssumption
  <2>2. 0 \in {0} \cup UNION {0..n : n \in CoolOffs} OBVIOUS
  <2>3. QED BY ZenonT(30), <2>1, <2>2 DEF Init, GateInit, GateTypeOK
<1>3. Init => TypeOK
  BY <1>1, <1>2, CourtesyGateAssumption, SourceBreakerAssumption, SourceLookupAssumption
     DEF Init, TypeOK, NoTerm
<1>4. QED BY <1>3, TypeStep, PTL DEF Spec

-----------------------------------------------------------------------------
(* The breaker.                                                            *)

(* Every call of the breaker keeps a closed breaker below its threshold.   *)
LEMMA CallsKeepClosedBelow ==
  ASSUME BreakerTypeOK, ClosedBelowThreshold, NEW n \in Nat,
         \/ BreakerAges \/ LetThrough \/ LetProbe \/ RecordSystemicFailure(n)
         \/ \E failed \in BOOLEAN : ResolveProbe(failed)
         \/ UNCHANGED breaker
  PROVE  ClosedBelowThreshold'
<1> USE SourceBreakerAssumption
        DEF BreakerTypeOK, ClosedBelowThreshold, breaker, Closed, Open, HalfOpen
<1>1. CASE BreakerAges
  BY <1>1 DEF BreakerAges
<1>2. CASE LetThrough
  BY <1>2 DEF LetThrough
<1>3. CASE LetProbe
  BY <1>3 DEF LetProbe
<1>4. CASE RecordSystemicFailure(n)
  BY <1>4 DEF RecordSystemicFailure, OpenBreaker, Opens, Least
<1>5. ASSUME NEW failed \in BOOLEAN, ResolveProbe(failed) PROVE ClosedBelowThreshold'
  BY <1>5 DEF ResolveProbe, OpenBreaker
<1>6. CASE UNCHANGED breaker
  BY <1>6
<1>7. QED BY <1>1, <1>2, <1>3, <1>4, <1>5, <1>6

(* A step of a lookup is one of the breaker's calls, or none.              *)
LEMMA StepIsABreakerCall ==
  ASSUME TypeOK, [Next]_vars
  PROVE  \E n \in Nat : \/ BreakerAges \/ LetThrough \/ LetProbe \/ RecordSystemicFailure(n)
                       \/ \E failed \in BOOLEAN : ResolveProbe(failed)
                       \/ UNCHANGED breaker
<1>1. ASSUME NEW c \in Caller, Report(c)
      PROVE  \E n \in Nat : \/ RecordSystemicFailure(n)
                           \/ \E failed \in BOOLEAN : ResolveProbe(failed)
                           \/ UNCHANGED breaker
  <2>1. earned[c] \in Nat /\ (earned[c] > 0) \in BOOLEAN
    BY SourceBreakerAssumption DEF TypeOK
  <2>2. \/ RecordSystemicFailure(earned[c]) \/ ResolveProbe(earned[c] > 0)
        \/ UNCHANGED breaker
    BY <1>1 DEF Report
  <2>3. QED BY <2>1, <2>2
<1>2. ASSUME ~(\E c \in Caller : Report(c))
      PROVE  BreakerAges \/ LetThrough \/ LetProbe \/ UNCHANGED breaker
  BY <1>2 DEF Next, Goes, Tick, NewTurn, Begin, Slot, Send, Hear, Finish, vars
<1>3. 0 \in Nat OBVIOUS
<1>4. QED BY <1>1, <1>2, <1>3

(* Whatever lookups overlap, and however late one reports, a closed        *)
(* breaker's count is below the threshold.                                 *)
THEOREM ClosedStaysBelowThreshold == Spec => []ClosedBelowThreshold
<1>1. Init => ClosedBelowThreshold
  BY SourceBreakerAssumption DEF Init, BreakerInit, ClosedBelowThreshold
<1>2. TypeOK /\ ClosedBelowThreshold /\ [Next]_vars => ClosedBelowThreshold'
  <2> SUFFICES ASSUME TypeOK, ClosedBelowThreshold, [Next]_vars
               PROVE  ClosedBelowThreshold'
    OBVIOUS
  <2>1. PICK n \in Nat : \/ BreakerAges \/ LetThrough \/ LetProbe
                         \/ RecordSystemicFailure(n)
                         \/ \E failed \in BOOLEAN : ResolveProbe(failed)
                         \/ UNCHANGED breaker
    BY StepIsABreakerCall
  <2>2. QED BY <2>1, CallsKeepClosedBelow DEF TypeOK
<1>3. QED BY <1>1, <1>2, LookupTypeCorrect, PTL DEF Spec

-----------------------------------------------------------------------------
(* The gate.                                                               *)

(* Moving from one place to another changes who holds the slot by c alone. *)
LEMMA MoveChangesOne ==
  ASSUME TypeOK, NEW c \in Caller, NEW from, NEW to, Move(c, from, to)
  PROVE  /\ \A d \in Caller \ {c} : HasSlot(d)' <=> HasSlot(d)
         /\ HasSlot(c) <=> from \in {"holding", "fetching"}
         /\ HasSlot(c)' <=> to \in {"holding", "fetching"}
BY DEF TypeOK, Move, HasSlot

(* Taking the slot and giving it back, and nothing else, change who holds  *)
(* it.                                                                     *)
LEMMA OneFetchStep == TypeOK /\ OneFetchAtATime /\ [Next]_vars => OneFetchAtATime'
<1> SUFFICES ASSUME TypeOK, OneFetchAtATime, [Next]_vars PROVE OneFetchAtATime'
  OBVIOUS
<1> DEFINE Kept == inFlight' = inFlight /\ \A c \in Caller : HasSlot(c)' <=> HasSlot(c)
<1>k. Kept => OneFetchAtATime'
  BY DEF OneFetchAtATime
<1>t. ASSUME NEW c \in Caller, TakeSlot, HasSlot(c)',
             \A d \in Caller \ {c} : HasSlot(d)' <=> HasSlot(d)
      PROVE  OneFetchAtATime'
  <2>1. \A d \in Caller : ~HasSlot(d) BY <1>t DEF OneFetchAtATime, TakeSlot, SlotIsOpen
  <2>2. inFlight' BY <1>t DEF TakeSlot
  <2>3. QED BY <1>t, <2>1, <2>2 DEF OneFetchAtATime
<1>1. CASE Tick \/ NewTurn
  <2>1. Kept BY <1>1 DEF Tick, NewTurn, GateAges, lookups, HasSlot
  <2>2. QED BY <1>k, <2>1
<1>2. ASSUME NEW c \in Caller, NEW t \in Term, Begin(c, t) PROVE OneFetchAtATime'
  <2>1. CASE TakeSlot /\ Move(c, "out", "holding")
    BY <2>1, <1>t, MoveChangesOne
  <2>2. CASE ~(TakeSlot /\ Move(c, "out", "holding"))
    <3>1. inFlight' = inFlight /\ (Move(c, "out", "back") \/ Move(c, "out", "waiting"))
      BY <1>2, <2>2 DEF Begin, NoSlot
    <3>2. Kept BY <3>1, MoveChangesOne
    <3>3. QED BY <1>k, <3>2
  <2>3. QED BY <2>1, <2>2
<1>3. ASSUME NEW c \in Caller, Slot(c) PROVE OneFetchAtATime'
  BY <1>3, <1>t, MoveChangesOne DEF Slot
<1>4. ASSUME NEW c \in Caller, Send(c) \/ (\E outcome : Hear(c, outcome)) \/ Report(c)
      PROVE  OneFetchAtATime'
  <2>1. Kept
    BY <1>4, MoveChangesOne DEF Send, Hear, Report, SendFetch, HearFetch, gate
  <2>2. QED BY <1>k, <2>1
<1>5. ASSUME NEW c \in Caller, Finish(c) PROVE OneFetchAtATime'
  <2>1. HasSlot(c) /\ ~HasSlot(c)' /\ \A d \in Caller \ {c} : HasSlot(d)' <=> HasSlot(d)
    BY <1>5, MoveChangesOne DEF Finish
  <2>2. \A d \in Caller : ~HasSlot(d)' BY <2>1 DEF OneFetchAtATime
  <2>3. ~inFlight' BY <1>5 DEF Finish, GiveSlotBack
  <2>4. QED BY <2>2, <2>3 DEF OneFetchAtATime
<1>6. CASE UNCHANGED vars
  <2>1. Kept BY <1>6 DEF vars, gate, lookups, HasSlot
  <2>2. QED BY <1>k, <2>1
<1>7. QED BY <1>1, <1>2, <1>3, <1>4, <1>5, <1>6 DEF Next, Goes

(* However many lookups overlap, and however each ends, the slot is held   *)
(* by the one that fetches and by nobody when nobody does.                 *)
THEOREM SlotIsHeldByOne == Spec => []OneFetchAtATime
<1>1. Init => OneFetchAtATime
  BY DEF Init, GateInit, OneFetchAtATime, HasSlot
<1>2. QED BY <1>1, OneFetchStep, LookupTypeCorrect, PTL DEF Spec

(* The strengthening: what was settled is remembered, and in a gate that   *)
(* never waits nobody holds a look into the cache older than its slot.     *)
SettledIsRemembered ==
  /\ settled \subseteq cache
  /\ ~waitForSlot => \A c \in Caller : /\ place[c] # "waiting"
                                       /\ HasSlot(c) => term[c] \notin settled

(* Every step keeps it.                                                    *)
LEMMA SettledStep ==
  TypeOK /\ OneFetchAtATime /\ SettledIsRemembered /\ [Next]_vars => SettledIsRemembered'
<1> SUFFICES ASSUME TypeOK, OneFetchAtATime, SettledIsRemembered, [Next]_vars
             PROVE  SettledIsRemembered'
  OBVIOUS
<1>1. CASE Tick \/ NewTurn
  BY <1>1 DEF Tick, NewTurn, GateAges, lookups, SettledIsRemembered, HasSlot
<1>2. ASSUME NEW c \in Caller, NEW t \in Term, Begin(c, t) PROVE SettledIsRemembered'
  <2>1. waitForSlot' = waitForSlot /\ cache' = cache /\ settled' = settled
    BY <1>2 DEF Begin, TakeSlot, NoSlot
  <2>2. \A d \in Caller \ {c} : place'[d] = place[d] /\ term'[d] = term[d]
    BY <1>2 DEF Begin, Move, TypeOK
  <2>3. term'[c] = t /\ (HasSlot(c)' => t \notin cache)
    BY <1>2 DEF Begin, Move, TypeOK, HasSlot, AnsweredFromCache
  <2>4. ~waitForSlot => place'[c] # "waiting"
    BY <1>2 DEF Begin, Move, TypeOK
  <2>5. QED BY <2>1, <2>2, <2>3, <2>4 DEF SettledIsRemembered, HasSlot
<1>3. ASSUME NEW c \in Caller, Slot(c) PROVE SettledIsRemembered'
  <2>1. place[c] = "waiting" BY <1>3 DEF Slot, Move
  <2>2. waitForSlot BY <2>1 DEF SettledIsRemembered
  <2>3. QED BY <1>3, <2>2 DEF Slot, TakeSlot, SettledIsRemembered
<1>4. ASSUME NEW c \in Caller, Send(c) \/ (\E outcome : Hear(c, outcome))
      PROVE  SettledIsRemembered'
  <2>1. /\ waitForSlot' = waitForSlot /\ cache' = cache /\ settled' = settled
        /\ term' = term
    BY <1>4 DEF Send, Hear, SendFetch, HearFetch
  <2>2. \A d \in Caller : (HasSlot(d)' => HasSlot(d))
                        /\ (place'[d] = "waiting" => place[d] = "waiting")
    BY <1>4 DEF Send, Hear, Move, TypeOK, HasSlot
  <2>3. QED BY <2>1, <2>2 DEF SettledIsRemembered
<1>5. ASSUME NEW c \in Caller, Finish(c) PROVE SettledIsRemembered'
  <2>1. waitForSlot' = waitForSlot /\ cache' = cache \cup {term[c]}
        /\ settled' = settled \cup {term[c]} /\ term' = term
    BY <1>5 DEF Finish, GiveSlotBack
  <2>2. \A d \in Caller : ~HasSlot(d)'
    BY <1>5, MoveChangesOne DEF Finish, OneFetchAtATime
  <2>3. \A d \in Caller : place'[d] = "waiting" => place[d] = "waiting"
    BY <1>5 DEF Finish, Move, TypeOK
  <2>4. QED BY <2>1, <2>2, <2>3 DEF SettledIsRemembered
<1>6. ASSUME NEW c \in Caller, Report(c) PROVE SettledIsRemembered'
  <2>1. waitForSlot' = waitForSlot /\ cache' = cache /\ settled' = settled
    BY <1>6 DEF Report, gate
  <2>2. \A d \in Caller \ {c} : place'[d] = place[d] /\ term'[d] = term[d]
    BY <1>6 DEF Report, Move, TypeOK
  <2>3. place'[c] = "out" BY <1>6 DEF Report, Move, TypeOK
  <2>4. QED BY <2>1, <2>2, <2>3 DEF SettledIsRemembered, HasSlot
<1>7. CASE UNCHANGED vars
  BY <1>7 DEF vars, gate, lookups, SettledIsRemembered, HasSlot
<1>8. QED BY <1>1, <1>2, <1>3, <1>4, <1>5, <1>6, <1>7 DEF Next, Goes

(* A gate that never waits asks its source for no term twice, however many *)
(* lookups of however many terms overlap.                                  *)
THEOREM NoTermIsAskedTwice == Spec => []NeverAskedTwice
<1>1. Init => SettledIsRemembered
  BY DEF Init, GateInit, SettledIsRemembered, HasSlot
<1>2. Spec => []SettledIsRemembered
  BY <1>1, SettledStep, LookupTypeCorrect, SlotIsHeldByOne, PTL DEF Spec
<1>3. SettledIsRemembered => NeverAskedTwice
  BY DEF SettledIsRemembered, NeverAskedTwice
<1>4. QED BY <1>2, <1>3, PTL

=============================================================================
