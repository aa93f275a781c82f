------------------------------ MODULE NewsCycle ------------------------------
(***************************************************************************)
(* One session's news cycles: the trigger routes and the lock they share   *)
(* (server/row-service/handler.mjs), the worker they invoke                *)
(* (server/news-worker/handler.mjs) and the turns that have the feed built *)
(* again after a fact was taught (server/turn-service/handler.mjs).        *)
(*                                                                         *)
(* The program comes in two wirings.  In one process (local.mjs) the       *)
(* invocation settles when the cycle it started has ended, and nothing     *)
(* else invokes the worker.  Deployed, it settles once the request is      *)
(* accepted, turns invoke the worker too, and an invocation may be cut off *)
(* anywhere: a route answers before it invokes, so what is left of it may  *)
(* come late or not at all.  There the calls to the table may fail too,    *)
(* and one that failed may have landed; in one process the lock, the       *)
(* counters and the rows are in memory.                                    *)
(*                                                                         *)
(* Left out: graphVersion, a counter kept like feedVersion that nothing    *)
(* reads, and the purge of a session that was seeded from another build.   *)
(***************************************************************************)
EXTENDS Integers, FiniteSets

CONSTANTS
  Cycle,      \* triggers, each with the cycle it would start, numbered as they come
  Teaching,   \* turns that teach a fact
  Stale,      \* CYCLE_LOCK_STALE_MS
  Unlocked,   \* no lock row
  MaxDeaths   \* bound on the invocations cut off and on the other calls that fail

Worker == Cycle \cup Teaching

ASSUME NewsCycleAssumption ==
  /\ Cycle \subseteq Nat \ {0}
  /\ Cycle \cap Teaching = {}
  /\ Stale \in Nat \ {0} /\ Unlocked \notin Nat
  /\ MaxDeaths \in Nat

VARIABLES
  deployed,     \* which wiring this is
  lockAge,      \* how long ago the lock row was written, saturating at Stale
  holder,       \* history: who wrote it; the row does not say
  request,      \* how far each trigger request is
  worker,       \* how far each worker run is
  failed,       \* the worker runs that met a failure
  known,        \* the news state each run works on
  view,         \* the rows each run has assembled
  version,      \* the feedVersion each run is about to raise
  rows,         \* the session's facts, by who wrote them
  newsState,    \* the ledger and log, by whose work is in it
  feed,         \* the feed document, by whose facts it shows
  feedVersion,
  marker,       \* the cycle marker
  lost,         \* cycles whose marker was written and that were never invoked
  deaths

lock == <<lockAge, holder>>
trigger == <<lock, request, lost>>
run == <<worker, failed, known, view, version>>
session == <<rows, newsState, feed, feedVersion>>
vars == <<deployed, trigger, run, session, marker, deaths>>

NoCycle == 0

NoMarker == [cycle |-> NoCycle, state |-> "none"]

Init ==
  /\ deployed \in BOOLEAN
  /\ lockAge = Unlocked
  /\ holder = NoCycle
  /\ request = [c \in Cycle |-> "new"]
  /\ worker = [w \in Worker |-> "idle"]
  /\ failed = {}
  /\ known = [w \in Worker |-> {}]
  /\ view = [w \in Worker |-> {}]
  /\ version = [w \in Worker |-> 0]
  /\ rows = {}
  /\ newsState = {}
  /\ feed = {}
  /\ feedVersion = 0
  /\ marker = NoMarker
  /\ lost = {}
  /\ deaths = 0

-----------------------------------------------------------------------------
(* The trigger routes.                                                     *)

Request(c, from, to) == request[c] = from /\ request' = [request EXCEPT ![c] = to]

(* Mutant: a lock is never taken over.                                     *)
MayAcquireFree == lockAge = Unlocked

(* Mutant: the age of a lock is not looked at.                             *)
MayAcquireAny == TRUE

(* acquireCycleLock's condition.                                           *)
MayAcquire == lockAge # Unlocked => lockAge >= Stale

(* One thing more goes wrong.                                              *)
Trouble == deaths < MaxDeaths /\ deaths' = deaths + 1

Takes(c) == lockAge' = 0 /\ holder' = c

(* Triggers are numbered in the order they reach the lock.                 *)
ItsTurn(c) == \A d \in Cycle : d < c => request[d] # "new"

Acquire(c) ==
  /\ ItsTurn(c)
  /\ IF MayAcquire THEN Request(c, "new", "locked") /\ Takes(c)
                   ELSE Request(c, "new", "over") /\ UNCHANGED lock
  /\ UNCHANGED <<deployed, lost, run, session, marker, deaths>>

(* The lock is written, and the call is taken to have failed: it throws,   *)
(* or is sent again and finds the lock taken.                              *)
AcquireUnheard(c) ==
  /\ deployed /\ Trouble
  /\ ItsTurn(c) /\ MayAcquire
  /\ Request(c, "new", "cut") /\ Takes(c)
  /\ UNCHANGED <<deployed, lost, run, session, marker>>

(* Mutant: a request turned away at a rate limit keeps the lock.           *)
TurnAwayLocked(c) ==
  /\ Request(c, "locked", "over")
  /\ UNCHANGED <<deployed, lock, lost, run, session, marker, deaths>>

(* A rate counter cannot be raised: the request ends there and nobody is   *)
(* left to release the lock.                                               *)
CounterFails(c) ==
  /\ deployed /\ Trouble
  /\ Request(c, "locked", "cut")
  /\ UNCHANGED <<deployed, lock, lost, run, session, marker>>

(* A rate limit is reached, or the marker cannot be written.               *)
TurnAway(c) ==
  /\ Request(c, "locked", "releasing")
  /\ UNCHANGED <<deployed, lock, lost, run, session, marker, deaths>>

PutRunning(c) ==
  /\ Request(c, "locked", "answered")
  /\ marker' = [cycle |-> c, state |-> "running"]
  /\ UNCHANGED <<deployed, lock, lost, run, session, deaths>>

(* The marker was written, and the call is taken to have failed.           *)
PutUnheard(c) ==
  /\ deployed /\ Trouble
  /\ Request(c, "locked", "releasing")
  /\ marker' = [cycle |-> c, state |-> "running"]
  /\ lost' = lost \cup {c}
  /\ UNCHANGED <<deployed, lock, run, session>>

(* Mutant: the invocation settles when it is accepted.                     *)
InvokeEvent(c) ==
  /\ Request(c, "answered", "releasing")
  /\ worker' = [worker EXCEPT ![c] = "queued"]
  /\ UNCHANGED <<deployed, lock, lost, failed, known, view, version, session,
                 marker, deaths>>

Invoke(c) ==
  /\ Request(c, "answered", IF deployed THEN "releasing" ELSE "invoked")
  /\ worker' = [worker EXCEPT ![c] = "queued"]
  /\ UNCHANGED <<deployed, lock, lost, failed, known, view, version, session,
                 marker, deaths>>

InvokeFails(c) ==
  /\ deployed /\ Trouble
  /\ Request(c, "answered", "releasing")
  /\ lost' = lost \cup {c}
  /\ UNCHANGED <<deployed, lock, run, session, marker>>

InvocationSettles(c) ==
  /\ Request(c, "invoked", "releasing")
  /\ worker[c] = "over"
  /\ UNCHANGED <<deployed, lock, lost, run, session, marker, deaths>>

(* releaseCycleLock deletes the row, whoever wrote it.                     *)
Release(c) ==
  /\ Request(c, "releasing", "over")
  /\ lockAge' = Unlocked /\ holder' = NoCycle
  /\ UNCHANGED <<deployed, lost, run, session, marker, deaths>>

(* The delete fails, and is not tried again.                               *)
ReleaseFails(c) ==
  /\ deployed /\ Trouble
  /\ Request(c, "releasing", "cut")
  /\ UNCHANGED <<deployed, lock, lost, run, session, marker>>

(* A route's process is not kept for it once it has answered, and may end  *)
(* before that.                                                            *)
RequestDies(c) ==
  /\ deployed /\ Trouble
  /\ request[c] \in {"locked", "answered", "releasing"}
  /\ request' = [request EXCEPT ![c] = "cut"]
  /\ lost' = IF request[c] = "answered" THEN lost \cup {c} ELSE lost
  /\ UNCHANGED <<deployed, lock, run, session, marker>>

-----------------------------------------------------------------------------
(* The worker: runWatchedCycle and, at its end, materializeFeed.           *)

Work(w, from, to) == worker[w] = from /\ worker' = [worker EXCEPT ![w] = to]

(* What a run held is gone with it; earlier, once it is not read again.    *)
Forget(w) ==
  /\ failed' = failed \ {w}
  /\ known' = [known EXCEPT ![w] = {}]
  /\ view' = [view EXCEPT ![w] = {}]
  /\ version' = [version EXCEPT ![w] = 0]

(* A turn has written what it was taught, and asks for the feed.           *)
Teach(m) ==
  /\ deployed
  /\ Work(m, "idle", "queued")
  /\ rows' = rows \cup {m}
  /\ UNCHANGED <<deployed, trigger, failed, known, view, version, newsState, feed,
                 feedVersion, marker, deaths>>

(* The news state is read once, as the run begins.  A run that a turn asks *)
(* for has no phase.                                                       *)
Start(w) ==
  /\ Work(w, "queued", IF w \in Cycle THEN "phase" ELSE "phased")
  /\ known' = [known EXCEPT ![w] = newsState]
  /\ UNCHANGED <<deployed, trigger, failed, view, version, session, marker, deaths>>

(* Poll, enrich or ingest: facts of its own over the rows the handle has   *)
(* assembled.  It may fail half way; what it had written stays.            *)
Phase(w) ==
  /\ Work(w, "phase", "phased")
  /\ rows' = rows \cup {w}
  /\ failed' \in {failed, failed \cup {w}}
  /\ view' = [view EXCEPT ![w] = rows']
  /\ known' = [known EXCEPT ![w] = @ \cup {w}]
  /\ UNCHANGED <<deployed, trigger, version, newsState, feed, feedVersion, marker, deaths>>

(* The news state is written whole.  A run without a phase assembles the   *)
(* rows only now.                                                          *)
PutState(w) ==
  /\ Work(w, "phased", IF w \in failed THEN "settling" ELSE "built")
  /\ newsState' = known[w]
  /\ known' = [known EXCEPT ![w] = {}]
  /\ view' = [view EXCEPT ![w] = IF w \in Teaching THEN rows
                                 ELSE IF w \in failed THEN {} ELSE @]
  /\ UNCHANGED <<deployed, trigger, failed, version, rows, feed, feedVersion,
                 marker, deaths>>

PutFeed(w) ==
  /\ Work(w, "built", "shown")
  /\ feed' = view[w]
  /\ view' = [view EXCEPT ![w] = {}]
  /\ UNCHANGED <<deployed, trigger, failed, known, version, rows, newsState,
                 feedVersion, marker, deaths>>

(* bumpIntMeta: a read, and then a write of one more.                      *)
ReadVersion(w) ==
  /\ Work(w, "shown", "bumping")
  /\ version' = [version EXCEPT ![w] = feedVersion]
  /\ UNCHANGED <<deployed, trigger, failed, known, view, session, marker, deaths>>

WriteVersion(w) ==
  /\ Work(w, "bumping", "settling")
  /\ feedVersion' = version[w] + 1
  /\ version' = [version EXCEPT ![w] = 0]
  /\ UNCHANGED <<deployed, trigger, failed, known, view, rows, newsState,
                 feed, marker, deaths>>

(* The document or its version cannot be read or written.                  *)
MaterializeFails(w) ==
  /\ deployed /\ Trouble
  /\ worker[w] \in {"built", "shown", "bumping"}
  /\ worker' = [worker EXCEPT ![w] = "settling"]
  /\ failed' = failed \cup {w}
  /\ view' = [view EXCEPT ![w] = {}]
  /\ version' = [version EXCEPT ![w] = 0]
  /\ UNCHANGED <<deployed, trigger, known, session, marker>>

(* Mutant: a run that failed leaves the marker alone.                      *)
SettleDone(w) ==
  /\ Work(w, "settling", "over")
  /\ marker' = IF w \in Cycle \ failed THEN [cycle |-> w, state |-> "done"] ELSE marker
  /\ Forget(w)
  /\ UNCHANGED <<deployed, trigger, session, deaths>>

(* Mutant: a run that a turn asked for has a marker too.                   *)
SettleEvery(w) ==
  /\ Work(w, "settling", "over")
  /\ marker' = [cycle |-> w, state |-> IF w \in failed THEN "failed" ELSE "done"]
  /\ Forget(w)
  /\ UNCHANGED <<deployed, trigger, session, deaths>>

(* The marker's last word.  A run a turn asked for has none.               *)
Settle(w) ==
  /\ Work(w, "settling", "over")
  /\ marker' = IF w \in Cycle
               THEN [cycle |-> w, state |-> IF w \in failed THEN "failed" ELSE "done"]
               ELSE marker
  /\ Forget(w)
  /\ UNCHANGED <<deployed, trigger, session, deaths>>

WorkerDies(w) ==
  /\ deployed /\ Trouble
  /\ worker[w] \notin {"idle", "over", "dead"}
  /\ worker' = [worker EXCEPT ![w] = "dead"]
  /\ Forget(w)
  /\ UNCHANGED <<deployed, trigger, session, marker>>

WorkerStep(w) ==
  \/ Start(w) \/ Phase(w) \/ PutState(w) \/ PutFeed(w)
  \/ ReadVersion(w) \/ WriteVersion(w) \/ Settle(w)

-----------------------------------------------------------------------------

Running(w) == worker[w] \notin {"idle", "over", "dead"}

RequestStep(c) ==
  \/ TurnAway(c) \/ PutRunning(c) \/ Invoke(c) \/ InvokeFails(c)
  \/ InvocationSettles(c) \/ Release(c)

RequestFails(c) == AcquireUnheard(c) \/ CounterFails(c) \/ PutUnheard(c) \/ ReleaseFails(c)

UnderWay(c) == request[c] \notin {"new", "over", "cut"}

(* In one process nothing holds a request up but its cycle, whose budget   *)
(* ends long before the lock is stale.                                     *)
WithinBudget == lockAge + 1 = Stale => deployed \/ \A c \in Cycle : ~UnderWay(c)

Tick ==
  /\ lockAge \in 0 .. Stale - 1
  /\ WithinBudget
  /\ lockAge' = lockAge + 1
  /\ UNCHANGED <<deployed, holder, request, lost, run, session, marker, deaths>>

Next ==
  \/ \E c \in Cycle : Acquire(c) \/ RequestStep(c) \/ RequestFails(c) \/ RequestDies(c)
  \/ \E m \in Teaching : Teach(m)
  \/ \E w \in Worker : WorkerStep(w) \/ MaterializeFails(w) \/ WorkerDies(w)
  \/ Tick

Spec == Init /\ [][Next]_vars

(* Time passes, and one process goes on while it has something to do.      *)
(* Deployed, nothing says when the rest of an answered request is run.     *)
FairSpec ==
  /\ Spec
  /\ WF_vars(Tick)
  /\ WF_vars(/\ ~deployed
             /\ \/ \E w \in Worker : WorkerStep(w)
                \/ \E c \in Cycle : RequestStep(c))

-----------------------------------------------------------------------------
(* Correctness.                                                            *)

TypeOK ==
  /\ deployed \in BOOLEAN
  /\ lockAge \in 0..Stale \cup {Unlocked}
  /\ holder \in Cycle \cup {NoCycle}
  /\ request \in [Cycle -> {"new", "locked", "answered", "invoked", "releasing",
                            "over", "cut"}]
  /\ worker \in [Worker -> {"idle", "queued", "phase", "phased", "built", "shown",
                            "bumping", "settling", "over", "dead"}]
  /\ \A m \in Teaching : worker[m] # "phase"
  /\ failed \subseteq Worker
  /\ known \in [Worker -> SUBSET Cycle]
  /\ view \in [Worker -> SUBSET rows]
  /\ version \in [Worker -> Nat]
  /\ rows \subseteq Worker
  /\ newsState \subseteq Cycle
  /\ feed \subseteq rows
  /\ feedVersion \in Nat
  /\ marker \in [cycle: Cycle, state: {"running", "done", "failed"}] \cup {NoMarker}
  /\ lost \subseteq Cycle
  /\ deaths \in 0..MaxDeaths

(* One running cycle per session, as the trigger routes promise: it holds  *)
(* where the lock is kept until the cycle it was taken for has ended.      *)
OneRunningCycle ==
  ~deployed => \A c, d \in Cycle : Running(c) /\ Running(d) => c = d

(* Then no run undoes an earlier one: the news state is read and written   *)
(* whole and the feed is built from a copy of the rows, yet neither loses  *)
(* what a cycle put there, and the version the page watches never returns  *)
(* to one it has seen.                                                     *)
CyclesBuildOnEachOther ==
  [][~deployed => /\ newsState \subseteq newsState'
                  /\ feed \subseteq feed'
                  /\ feedVersion <= feedVersion']_session

(* In either wiring, a marker that says a cycle is running tells the       *)
(* truth, unless that cycle was cut off or never came to be invoked.       *)
RunningMarkerIsTrue ==
  marker.state = "running" =>
    \/ request[marker.cycle] = "answered" \/ marker.cycle \in lost
    \/ Running(marker.cycle) \/ worker[marker.cycle] = "dead"

(* The lock that stands was taken by a request that has yet to release it, *)
(* whoever else took one over or released one meanwhile.  In one process   *)
(* that is all; deployed, it is also left by its own request where that    *)
(* was cut off, or a counter, the lock's own call or its release failed:   *)
(* those answer 500, 409 or nothing more, and release nothing.  A request  *)
(* turned away, or whose release went through, leaves no lock of its own.  *)
LockIsAccountedFor ==
  lockAge # Unlocked =>
    /\ holder \in Cycle
    /\ \/ UnderWay(holder)
       \/ deployed /\ request[holder] = "cut"

(* However the lock was left, it never wedges the session.                 *)
SessionNeverWedged == ~MayAcquire ~> MayAcquire

=============================================================================
