--------------------------- MODULE NewsCycleProofs ---------------------------
(* Theorems about NewsCycle, for any number of triggers and teaching turns, *)
(* any age at which a lock is stale and any number of deaths, in either     *)
(* wiring.                                                                  *)
EXTENDS NewsCycle, TLAPS

-----------------------------------------------------------------------------
(* Types.                                                                  *)

(* Every step of a request keeps the types.                                *)
LEMMA RequestTypes ==
  ASSUME TypeOK, NEW c \in Cycle,
         Acquire(c) \/ RequestStep(c) \/ RequestFails(c) \/ RequestDies(c)
  PROVE  TypeOK'
<1> USE NewsCycleAssumption DEF TypeOK, Request, lock, trigger, run, session
<1>w. c \in Worker BY DEF Worker
<1>d. Trouble => deaths' \in 0..MaxDeaths BY DEF Trouble
<1>1. CASE Acquire(c)
  BY <1>1 DEF Acquire, Takes
<1>2. CASE TurnAway(c) \/ Release(c) \/ InvocationSettles(c)
  BY <1>2 DEF TurnAway, Release, InvocationSettles
<1>3. CASE PutRunning(c)
  BY <1>3 DEF PutRunning
<1>4. CASE Invoke(c)
  BY <1>4, <1>w DEF Invoke
<1>5. CASE RequestDies(c)
  BY <1>5, <1>d DEF RequestDies
<1>6. CASE AcquireUnheard(c)
  BY <1>6, <1>d DEF AcquireUnheard, Takes
<1>7. CASE CounterFails(c) \/ ReleaseFails(c)
  BY <1>7, <1>d DEF CounterFails, ReleaseFails
<1>8. CASE InvokeFails(c)
  BY <1>8, <1>d DEF InvokeFails
<1>9. CASE PutUnheard(c)
  BY <1>9, <1>d DEF PutUnheard
<1>10. QED BY <1>1, <1>2, <1>3, <1>4, <1>5, <1>6, <1>7, <1>8, <1>9 DEF RequestStep, RequestFails

(* Every step of a worker run keeps the types.                             *)
LEMMA WorkerTypes ==
  ASSUME TypeOK, NEW w \in Worker, WorkerStep(w) \/ MaterializeFails(w) \/ WorkerDies(w)
  PROVE  TypeOK'
<1> USE NewsCycleAssumption DEF TypeOK, Work, lock, trigger, run, session
<1>c. w \in Cycle <=> w \notin Teaching BY DEF Worker
<1>f. ASSUME Forget(w), rows' = rows
      PROVE  /\ failed' \subseteq Worker /\ known' \in [Worker -> SUBSET Cycle]
             /\ view' \in [Worker -> SUBSET rows'] /\ version' \in [Worker -> Nat]
  BY <1>f DEF Forget
<1>1. CASE Start(w)
  BY <1>1, <1>c DEF Start, Worker
<1>2. CASE Phase(w)
  <2>1. rows' \subseteq Worker /\ rows \subseteq rows' /\ failed' \subseteq Worker
    BY <1>2 DEF Phase
  <2>2. view' \in [Worker -> SUBSET rows'] BY <1>2, <2>1 DEF Phase
  <2>3. w \in Cycle BY <1>2, <1>c DEF Phase
  <2>4. known' \in [Worker -> SUBSET Cycle] BY <1>2, <2>3 DEF Phase
  <2>5. QED BY <1>2, <2>1, <2>2, <2>4 DEF Phase, Worker
<1>3. CASE PutState(w)
  BY <1>3 DEF PutState, Worker
<1>4. CASE PutFeed(w)
  BY <1>4 DEF PutFeed, Worker
<1>5. CASE ReadVersion(w) \/ WriteVersion(w)
  <2>1. version' \in [Worker -> Nat] /\ feedVersion' \in Nat
    BY <1>5 DEF ReadVersion, WriteVersion
  <2>2. QED BY <1>5, <2>1 DEF ReadVersion, WriteVersion, Worker
<1>6. CASE Settle(w)
  <2>1. marker' \in [cycle: Cycle, state: {"running", "done", "failed"}] \cup {NoMarker}
    BY <1>6 DEF Settle
  <2>2. QED BY <1>6, <1>f, <2>1 DEF Settle, Worker
<1>7. CASE MaterializeFails(w)
  <2>1. deaths' \in 0..MaxDeaths BY <1>7 DEF MaterializeFails, Trouble
  <2>2. QED BY <1>7, <2>1 DEF MaterializeFails, Worker
<1>8. CASE WorkerDies(w)
  <2>1. deaths' \in 0..MaxDeaths BY <1>8 DEF WorkerDies, Trouble
  <2>2. QED BY <1>8, <1>f, <2>1 DEF WorkerDies, Worker
<1>9. QED BY <1>1, <1>2, <1>3, <1>4, <1>5, <1>6, <1>7, <1>8 DEF WorkerStep

(* Every step keeps the types.                                             *)
LEMMA TypeStep == TypeOK /\ [Next]_vars => TypeOK'
<1> SUFFICES ASSUME TypeOK, [Next]_vars PROVE TypeOK'
  OBVIOUS
<1> USE NewsCycleAssumption DEF TypeOK, lock, trigger, run, session
<1>1. ASSUME NEW m \in Teaching, Teach(m) PROVE TypeOK'
  BY <1>1 DEF Teach, Work, Worker
<1>2. CASE Tick
  BY <1>2 DEF Tick
<1>3. CASE UNCHANGED vars
  BY <1>3 DEF vars
<1>4. QED BY <1>1, <1>2, <1>3, RequestTypes, WorkerTypes DEF Next

(* Every reachable state is well typed: in particular a run a turn asked   *)
(* for has no phase of its own, and no feed shows a fact that is not there.*)
THEOREM NewsCycleTypeCorrect == Spec => []TypeOK
<1>1. Init => TypeOK
  <2>1. 0 \in 0..MaxDeaths /\ 0 \in Nat BY NewsCycleAssumption
  <2>2. Init => /\ lockAge \in 0..Stale \cup {Unlocked}
                /\ marker \in [cycle: Cycle, state: {"running", "done", "failed"}] \cup {NoMarker}
    BY DEF Init
  <2>3. QED BY <2>1, <2>2 DEF Init, TypeOK, Worker
<1>2. QED BY <1>1, TypeStep, PTL DEF Spec

-----------------------------------------------------------------------------
(* What is left behind.                                                    *)

(* In either wiring the lock that stands is of a request that has yet to   *)
(* release it, or that was cut off, or failed, before it could; in one     *)
(* process of the former only.  Being turned away leaves none behind, and  *)
(* neither does a lock that was taken over or released by another.         *)
THEOREM LockAlwaysAccountedFor == Spec => []LockIsAccountedFor
<1>1. Init => LockIsAccountedFor
  BY DEF Init, LockIsAccountedFor
<1>2. TypeOK /\ LockIsAccountedFor /\ [Next]_vars => LockIsAccountedFor'
  <2> SUFFICES ASSUME TypeOK, LockIsAccountedFor, [Next]_vars PROVE LockIsAccountedFor'
    OBVIOUS
  <2> USE DEF lock, trigger, UnderWay
  <2>1. ASSUME lock' = lock, request' = request, deployed' = deployed
        PROVE  LockIsAccountedFor'
    BY <2>1 DEF LockIsAccountedFor
  <2>2. ASSUME NEW c \in Cycle, NEW from, NEW to, Request(c, from, to), lock' = lock,
               deployed' = deployed,
               from = "new" \/ to \notin {"new", "over", "cut"} \/ (deployed /\ to = "cut")
        PROVE  LockIsAccountedFor'
    BY <2>2 DEF LockIsAccountedFor, Request, TypeOK
  <2>3. ASSUME NEW c \in Cycle, NEW to, Request(c, "new", to), Takes(c),
               deployed' = deployed, to = "locked" \/ (deployed /\ to = "cut")
        PROVE  LockIsAccountedFor'
    BY <2>3 DEF Request, Takes, TypeOK, LockIsAccountedFor
  <2>4. ASSUME NEW c \in Cycle, Acquire(c) PROVE LockIsAccountedFor'
    BY <2>2, <2>3, <2>4 DEF Acquire
  <2>5. ASSUME NEW c \in Cycle, RequestStep(c) PROVE LockIsAccountedFor'
    <3>1. CASE Release(c)
      BY <3>1 DEF Release, LockIsAccountedFor
    <3>2. CASE ~Release(c)
      BY <2>2, <2>5, <3>2
         DEF RequestStep, TurnAway, PutRunning, Invoke, InvokeFails, InvocationSettles
    <3>3. QED BY <3>1, <3>2
  <2>6. ASSUME NEW c \in Cycle, RequestFails(c) PROVE LockIsAccountedFor'
    BY <2>2, <2>3, <2>6 DEF RequestFails, AcquireUnheard, CounterFails, PutUnheard, ReleaseFails
  <2>7. ASSUME NEW c \in Cycle, RequestDies(c) PROVE LockIsAccountedFor'
    BY <2>7 DEF RequestDies, LockIsAccountedFor, TypeOK
  <2>8. CASE Tick
    BY <2>8, NewsCycleAssumption DEF Tick, LockIsAccountedFor
  <2>9. QED
    BY <2>1, <2>4, <2>5, <2>6, <2>7, <2>8
       DEF Next, Teach, WorkerStep, Start, Phase, PutState, PutFeed, ReadVersion, WriteVersion,
           Settle, MaterializeFails, WorkerDies, vars
<1>3. QED BY <1>1, <1>2, NewsCycleTypeCorrect, PTL DEF Spec

(* What accounts for the marker of cycle c.                                *)
Accounted(c) ==
  \/ request[c] = "answered" \/ c \in lost
  \/ Running(c) \/ worker[c] = "dead"

(* Nothing but the last word of a cycle takes that away.                   *)
LEMMA AccountedStep ==
  ASSUME TypeOK, [Next]_vars, NEW c \in Cycle, Accounted(c), ~Settle(c)
  PROVE  Accounted(c)'
<1> USE DEF Accounted, Running, lock, trigger, run, Request, Work, TypeOK
<1>w. c \in Worker BY DEF Worker
<1>1. ASSUME NEW d \in Cycle,
             Acquire(d) \/ RequestStep(d) \/ RequestFails(d) \/ RequestDies(d)
      PROVE  Accounted(c)'
  <2>1. CASE Invoke(d)
    BY <2>1, <1>w DEF Invoke
  <2>2. CASE ~Invoke(d)
    BY <1>1, <2>2
       DEF RequestStep, Acquire, TurnAway, PutRunning, InvokeFails, InvocationSettles,
           Release, RequestFails, AcquireUnheard, CounterFails, PutUnheard, ReleaseFails,
           RequestDies
  <2>3. QED BY <2>1, <2>2
<1>2. ASSUME NEW w \in Worker, WorkerStep(w) \/ MaterializeFails(w) \/ WorkerDies(w)
      PROVE  Accounted(c)'
  <2>1. request' = request /\ lost' = lost
    BY <1>2 DEF WorkerStep, Start, Phase, PutState, PutFeed, ReadVersion, WriteVersion,
                Settle, MaterializeFails, WorkerDies
  <2>2. CASE w = c
    <3>1. Running(c)' \/ worker'[c] = "dead"
      BY <1>2, <1>w, <2>2
         DEF WorkerStep, Start, Phase, PutState, PutFeed, ReadVersion, WriteVersion,
             MaterializeFails, WorkerDies
    <3>2. QED BY <2>1, <3>1
  <2>3. CASE w # c
    <3>1. worker'[c] = worker[c]
      BY <1>2, <1>w, <2>3
         DEF WorkerStep, Start, Phase, PutState, PutFeed, ReadVersion, WriteVersion,
             Settle, MaterializeFails, WorkerDies
    <3>2. QED BY <2>1, <3>1
  <2>4. QED BY <2>2, <2>3
<1>3. ASSUME NEW m \in Teaching, Teach(m) PROVE Accounted(c)'
  BY <1>3, <1>w, NewsCycleAssumption DEF Teach, Worker
<1>4. CASE Tick
  BY <1>4 DEF Tick
<1>5. CASE UNCHANGED vars
  BY <1>5 DEF vars
<1>6. QED BY <1>1, <1>2, <1>3, <1>4, <1>5 DEF Next

(* The marker tells the truth in either wiring: what it names as running   *)
(* was answered for and is about to be invoked, or runs, or was cut off or *)
(* lost; a run that failed says so.                                        *)
THEOREM MarkerIsAlwaysTrue == Spec => []RunningMarkerIsTrue
<1>1. Init => RunningMarkerIsTrue
  BY DEF Init, RunningMarkerIsTrue, NoMarker
<1>2. TypeOK /\ RunningMarkerIsTrue /\ [Next]_vars => RunningMarkerIsTrue'
  <2> SUFFICES ASSUME TypeOK, RunningMarkerIsTrue, [Next]_vars, marker'.state = "running"
               PROVE  Accounted(marker.cycle)'
    BY DEF RunningMarkerIsTrue, Accounted, Running
  <2>1. CASE \E c \in Cycle : PutRunning(c)
    BY <2>1 DEF PutRunning, Request, TypeOK, Accounted
  <2>2. CASE \E c \in Cycle : PutUnheard(c)
    BY <2>2 DEF PutUnheard, Accounted
  <2>3. CASE ~(\E c \in Cycle : PutRunning(c) \/ PutUnheard(c))
    <3>1. \A w \in Cycle : ~Settle(w)
      BY DEF Settle
    <3>2. marker' = marker
      BY <2>3, <3>1
         DEF Next, Acquire, RequestStep, TurnAway, Invoke, InvokeFails, InvocationSettles,
             Release, RequestFails, AcquireUnheard, CounterFails, ReleaseFails, RequestDies, Teach, WorkerStep, Start, Phase, PutState, PutFeed,
             ReadVersion, WriteVersion, Settle, MaterializeFails, WorkerDies, Tick, vars
    <3>3. marker.cycle \in Cycle /\ Accounted(marker.cycle)
      BY <3>2 DEF TypeOK, NoMarker, RunningMarkerIsTrue, Accounted
    <3>4. QED BY <3>1, <3>2, <3>3, AccountedStep
  <2>4. QED BY <2>1, <2>2, <2>3
<1>3. QED BY <1>1, <1>2, NewsCycleTypeCorrect, PTL DEF Spec

-----------------------------------------------------------------------------
(* One process.                                                            *)

(* The strengthening.  The lock is fresh for as long as the one request it *)
(* was taken by is under way; that request waits for the cycle it invoked; *)
(* and nothing else invokes the worker.                                    *)
LockIsKept ==
  ~deployed =>
    /\ \A c \in Cycle : UnderWay(c) => lockAge \in 0 .. Stale - 1
    /\ \A c, d \in Cycle : UnderWay(c) /\ UnderWay(d) => c = d
    /\ \A c \in Cycle : Running(c) => request[c] = "invoked"
    /\ \A m \in Teaching : worker[m] = "idle"

(* Every step keeps it.                                                    *)
LEMMA LockIsKeptStep == TypeOK /\ LockIsKept /\ [Next]_vars => LockIsKept'
<1> SUFFICES ASSUME TypeOK, LockIsKept, [Next]_vars, ~deployed PROVE LockIsKept'
  BY DEF LockIsKept, Next, Acquire, RequestStep, TurnAway, PutRunning, Invoke, InvokeFails,
         InvocationSettles, Release, RequestFails, AcquireUnheard, CounterFails, PutUnheard,
         ReleaseFails, RequestDies, Teach, WorkerStep, Start, Phase, PutState, PutFeed, ReadVersion, WriteVersion, Settle, MaterializeFails, WorkerDies, Tick, vars
<1> USE DEF UnderWay, Running, lock, trigger, run, Request, Work, TypeOK
<1>d. \A c \in Cycle : c \in Worker /\ c \notin Teaching
  BY NewsCycleAssumption DEF Worker
<1>1. ASSUME NEW c \in Cycle, Acquire(c) PROVE LockIsKept'
  <2>1. CASE MayAcquire
    <3>1. \A d \in Cycle : ~UnderWay(d)
      BY <2>1, NewsCycleAssumption DEF MayAcquire, LockIsKept
    <3>2. \A d \in Cycle \ {c} : request'[d] = request[d]
      BY <1>1, <2>1 DEF Acquire
    <3>3. lockAge' = 0 /\ worker' = worker /\ request[c] = "new"
      BY <1>1, <2>1 DEF Acquire, Takes
    <3>4. 0 \in 0 .. Stale - 1 BY NewsCycleAssumption
    <3>5. QED BY <3>1, <3>2, <3>3, <3>4 DEF LockIsKept
  <2>2. CASE ~MayAcquire
    BY <1>1, <2>2 DEF Acquire, LockIsKept
  <2>3. QED BY <2>1, <2>2
<1>2. ASSUME NEW c \in Cycle, TurnAway(c) \/ PutRunning(c) PROVE LockIsKept'
  BY <1>2 DEF TurnAway, PutRunning, LockIsKept
<1>3. ASSUME NEW c \in Cycle, Invoke(c) PROVE LockIsKept'
  BY <1>3, <1>d DEF Invoke, LockIsKept
<1>4. ASSUME NEW c \in Cycle, InvocationSettles(c) PROVE LockIsKept'
  BY <1>4 DEF InvocationSettles, LockIsKept
<1>5. ASSUME NEW c \in Cycle, Release(c) PROVE LockIsKept'
  <2>1. \A d \in Cycle : ~UnderWay(d)' BY <1>5 DEF Release, LockIsKept
  <2>2. worker' = worker /\ \A d \in Cycle : request[d] = "invoked" => request'[d] = "invoked"
    BY <1>5 DEF Release
  <2>3. QED BY <2>1, <2>2 DEF LockIsKept
<1>6. ASSUME NEW w \in Worker, WorkerStep(w) PROVE LockIsKept'
  <2>1. lockAge' = lockAge /\ request' = request /\ worker[w] # "idle"
        /\ \A v \in Worker \ {w} : worker'[v] = worker[v]
    BY <1>6 DEF WorkerStep, Start, Phase, PutState, PutFeed, ReadVersion, WriteVersion, Settle
  <2>2. w \notin Teaching BY <2>1 DEF LockIsKept
  <2>3. Running(w)
    BY <1>6 DEF WorkerStep, Start, Phase, PutState, PutFeed, ReadVersion, WriteVersion, Settle
  <2>4. QED BY <2>1, <2>2, <2>3, <1>d DEF LockIsKept, Worker
<1>7. CASE Tick
  <2>1. (\E c \in Cycle : UnderWay(c)) => lockAge' \in 0 .. Stale - 1
    BY <1>7, NewsCycleAssumption DEF Tick, WithinBudget
  <2>2. QED BY <1>7, <2>1 DEF Tick, LockIsKept
<1>8. CASE UNCHANGED vars
  BY <1>8 DEF vars, LockIsKept
<1>9. QED
  BY <1>1, <1>2, <1>3, <1>4, <1>5, <1>6, <1>7, <1>8
     DEF Next, RequestStep, InvokeFails, RequestFails, AcquireUnheard, CounterFails, PutUnheard,
         ReleaseFails, RequestDies, Teach, MaterializeFails, WorkerDies

(* In one process the lock is kept.                                        *)
LEMMA LockAlwaysKept == Spec => []LockIsKept
<1>1. Init => LockIsKept
  BY DEF Init, LockIsKept, UnderWay, Running, Worker
<1>2. QED BY <1>1, LockIsKeptStep, NewsCycleTypeCorrect, PTL DEF Spec

(* However many triggers arrive, one cycle of a session runs at a time     *)
(* where the lock is kept until its cycle has ended.                       *)
THEOREM AtMostOneCycle == Spec => []OneRunningCycle
<1>1. LockIsKept => OneRunningCycle
  BY DEF LockIsKept, OneRunningCycle, UnderWay
<1>2. QED BY <1>1, LockAlwaysKept, PTL

(* The strengthening: what the running cycle holds is what the session     *)
(* holds, and more.                                                        *)
RunIsCurrent ==
  ~deployed =>
    \A c \in Cycle :
      /\ worker[c] \in {"phase", "phased"} => newsState \subseteq known[c]
      /\ worker[c] \in {"phased", "built"} => view[c] = rows
      /\ worker[c] = "bumping" => version[c] = feedVersion

(* In one process no worker step is another's than the running cycle's.    *)
LEMMA RunsAlone ==
  ASSUME LockIsKept, ~deployed, NEW w \in Worker, worker[w] # "idle"
  PROVE  w \in Cycle /\ \A c \in Cycle \ {w} : Running(w) => ~Running(c)
BY DEF LockIsKept, Worker, UnderWay

(* Every step keeps it.                                                    *)
LEMMA RunIsCurrentStep ==
  TypeOK /\ LockIsKept /\ RunIsCurrent /\ [Next]_vars => RunIsCurrent'
<1> SUFFICES ASSUME TypeOK, LockIsKept, RunIsCurrent, [Next]_vars, ~deployed
             PROVE  RunIsCurrent'
  BY DEF RunIsCurrent, Next, Acquire, RequestStep, TurnAway, PutRunning, Invoke, InvokeFails,
         InvocationSettles, Release, RequestFails, AcquireUnheard, CounterFails, PutUnheard,
         ReleaseFails, RequestDies, Teach, WorkerStep, Start, Phase, PutState, PutFeed, ReadVersion, WriteVersion, Settle, MaterializeFails, WorkerDies, Tick, vars
<1> USE DEF lock, trigger, run, session, Request, Work, TypeOK, Running
<1>c. Cycle \subseteq Worker BY DEF Worker
<1>1. ASSUME NEW c \in Cycle, Acquire(c) \/ RequestStep(c) PROVE RunIsCurrent'
  <2>1. CASE Invoke(c)
    BY <2>1, <1>c DEF Invoke, RunIsCurrent
  <2>2. CASE ~Invoke(c)
    <3>1. UNCHANGED <<run, session>>
      BY <1>1, <2>2
         DEF RequestStep, Acquire, TurnAway, PutRunning, InvokeFails, InvocationSettles, Release
    <3>2. QED BY <3>1 DEF RunIsCurrent
  <2>3. QED BY <2>1, <2>2
<1>2. ASSUME NEW w \in Worker, WorkerStep(w) PROVE RunIsCurrent'
  <2>1. w \in Cycle /\ \A c \in Cycle \ {w} : ~Running(c)'
    <3>1. worker[w] # "idle" /\ Running(w) /\ \A c \in Worker \ {w} : worker'[c] = worker[c]
      BY <1>2 DEF WorkerStep, Start, Phase, PutState, PutFeed, ReadVersion, WriteVersion, Settle
    <3>2. w \in Cycle /\ \A c \in Cycle \ {w} : ~Running(c)
      BY <3>1, RunsAlone
    <3>3. QED BY <3>1, <3>2, <1>c
  <2>2. SUFFICES
          /\ worker'[w] \in {"phase", "phased"} => newsState' \subseteq known'[w]
          /\ worker'[w] \in {"phased", "built"} => view'[w] = rows'
          /\ worker'[w] = "bumping" => version'[w] = feedVersion'
    BY <2>1 DEF RunIsCurrent
  <2>3. CASE Start(w) BY <2>1, <2>3 DEF Start
  <2>4. CASE Phase(w) BY <2>1, <2>4 DEF Phase, RunIsCurrent
  <2>5. CASE PutState(w)
    BY <2>1, <2>5, NewsCycleAssumption DEF PutState, RunIsCurrent
  <2>6. CASE PutFeed(w) BY <2>6 DEF PutFeed
  <2>7. CASE ReadVersion(w) BY <2>7 DEF ReadVersion
  <2>8. CASE WriteVersion(w) BY <2>8 DEF WriteVersion
  <2>9. CASE Settle(w) BY <2>9 DEF Settle
  <2>10. QED BY <1>2, <2>3, <2>4, <2>5, <2>6, <2>7, <2>8, <2>9 DEF WorkerStep
<1>3. CASE Tick
  BY <1>3 DEF Tick, RunIsCurrent
<1>4. CASE UNCHANGED vars
  BY <1>4 DEF vars, RunIsCurrent
<1>5. QED
  BY <1>1, <1>2, <1>3, <1>4
     DEF Next, RequestFails, AcquireUnheard, CounterFails, PutUnheard, ReleaseFails, RequestDies,
         Teach, MaterializeFails, WorkerDies

(* Where the lock is kept no cycle undoes another: none takes out of the   *)
(* news state, of the feed or of the version what an earlier one put in.   *)
THEOREM NoCycleUndoesAnother == Spec => CyclesBuildOnEachOther
<1>1. Init => RunIsCurrent
  BY DEF Init, RunIsCurrent, Worker
<1>2. Spec => []RunIsCurrent
  BY <1>1, RunIsCurrentStep, NewsCycleTypeCorrect, LockAlwaysKept, PTL DEF Spec
<1>3. ASSUME TypeOK, LockIsKept, RunIsCurrent, [Next]_vars, ~deployed
      PROVE  newsState \subseteq newsState' /\ feed \subseteq feed' /\ feedVersion <= feedVersion'
  <2>1. ASSUME NEW w \in Worker, WorkerStep(w)
        PROVE  newsState \subseteq newsState' /\ feed \subseteq feed' /\ feedVersion <= feedVersion'
    <3>1. w \in Cycle
      BY <1>3, <2>1, RunsAlone
         DEF WorkerStep, Start, Phase, PutState, PutFeed, ReadVersion, WriteVersion, Settle, Work
    <3>2. CASE PutState(w)
      BY <1>3, <3>1, <3>2 DEF PutState, Work, RunIsCurrent, TypeOK
    <3>3. CASE PutFeed(w)
      BY <1>3, <3>1, <3>3 DEF PutFeed, Work, RunIsCurrent, TypeOK
    <3>4. CASE WriteVersion(w)
      BY <1>3, <3>1, <3>4 DEF WriteVersion, Work, RunIsCurrent, TypeOK
    <3>5. CASE Start(w) \/ Phase(w) \/ ReadVersion(w) \/ Settle(w)
      BY <1>3, <3>5 DEF Start, Phase, ReadVersion, Settle, session, TypeOK
    <3>6. QED BY <2>1, <3>2, <3>3, <3>4, <3>5 DEF WorkerStep
  <2>2. ASSUME ~(\E w \in Worker : WorkerStep(w)) PROVE UNCHANGED session
    BY <1>3, <2>2
       DEF Next, RequestStep, Acquire, TurnAway, PutRunning, Invoke, InvokeFails,
           InvocationSettles, Release, RequestFails, AcquireUnheard, CounterFails, PutUnheard,
           ReleaseFails, RequestDies, Teach, MaterializeFails, WorkerDies, Tick, vars
  <2>3. UNCHANGED session => feedVersion <= feedVersion'
    BY <1>3 DEF session, TypeOK
  <2>4. QED BY <2>1, <2>2, <2>3 DEF session
<1>4. TypeOK /\ LockIsKept /\ RunIsCurrent /\ [Next]_vars
        => [~deployed => /\ newsState \subseteq newsState'
                         /\ feed \subseteq feed'
                         /\ feedVersion <= feedVersion']_session
  BY <1>3
<1>5. QED
  BY <1>2, <1>4, NewsCycleTypeCorrect, LockAlwaysKept, PTL DEF Spec, CyclesBuildOnEachOther

=============================================================================
