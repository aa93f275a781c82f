--------------------------- MODULE ResearchQueue ---------------------------
(***************************************************************************)
(* A research run: a topic is grounded, the titles its article links to    *)
(* are queued, and each later turn grounds one of them                     *)
(* (src/services/research.mjs).  The queue stands in the session that runs *)
(* it and, one row per title, in the store                                 *)
(* (src/adapters/research-queue-store.mjs), where another session of the   *)
(* same store, or the same one after a restart, takes it up.  A turn ends  *)
(* with a save: it reads the queue's rows, puts its own and deletes what   *)
(* is left over, and other sessions' saves fall in between.                *)
(*                                                                         *)
(* A title is a number, a run is named by its topic.  The sidecar file of  *)
(* the stores without rows, the facts of a grounded title and the ranking  *)
(* of the linked titles are left out.                                      *)
(***************************************************************************)
EXTENDS Integers, FiniteSets, SequencesExt

CONSTANTS
  Session,
  Title,
  Topic,       \* the titles a run is started with
  Article,     \* Article[t]: the title of the article that t leads to
  Links,       \* Links[a]: the titles that article links to, ranked
  Fanout, MaxDepth, MaxTopics,  \* the run's knobs
  NoRun,       \* no queue
  MaxEvents    \* bound on starts, looks, failures and restarts, taken together

ASSUME ResearchQueueAssumption ==
  /\ Title \subseteq Nat \ {0} /\ IsFiniteSet(Title) /\ Topic \subseteq Title
  /\ Article \in [Title -> Title] /\ Links \in [Title -> Seq(Title)]
  /\ {Fanout, MaxDepth, MaxTopics, MaxEvents} \subseteq Nat
  /\ NoRun \notin Session

VARIABLES
  store,     \* the queue's rows
  held,      \* each session's queue
  pc,        \* how far each session's turn is
  plan,      \* the rows its save puts and the keys it deletes
  behind,    \* history: what others settled since the save read the rows
  writer,    \* history: the session whose save is the last, if it ran alone
  events

vars == <<store, held, pc, plan, behind, writer, events>>

RunRow == 0
NoDepth == -1
NoRow == [status |-> "none", ord |-> 0, depth |-> NoDepth, capped |-> FALSE]

RowKey == [run: Topic, entry: Title \cup {RunRow}]

NoPlan == [puts |-> {}, deletes |-> {}]

(* The members of S in an order, given as the set of its pairs.            *)
InOrder(S, order) ==
  [n \in 1..Cardinality(S) |->
     CHOOSE t \in S : Cardinality({u \in S : <<u, t>> \in order}) = n - 1]

Below == {mn \in Nat \X Nat : mn[1] < mn[2]}

(* What is left of list with the positions in kept.                        *)
Picked(list, kept) == [n \in DOMAIN InOrder(kept, Below) |-> list[InOrder(kept, Below)[n]]]

Init ==
  /\ store = [k \in RowKey |-> NoRow]
  /\ held = [s \in Session |-> NoRun]
  /\ pc = [s \in Session |-> "idle"]
  /\ plan = [s \in Session |-> NoPlan]
  /\ behind = [s \in Session |-> {}]
  /\ writer = NoRun
  /\ events = 0

-----------------------------------------------------------------------------
(* The queue in a session.                                                 *)

DoneTitles(q) == {q.done[i].title : i \in DOMAIN q.done}

QueuedFolds(q) ==
  {q.key} \cup DoneTitles(q) \cup ToSet(q.skipped) \cup ToSet(q.pending)

Topics(q) == Len(q.done) + Len(q.pending)

Least(m, n) == IF m < n THEN m ELSE n

Want(q) == Least(Fanout, MaxTopics - Topics(q))

(* enqueueFrom, with the links fetched or not.                             *)
EnqueueFrom(q, article, depth) ==
  IF depth + 1 > MaxDepth \/ Fanout = 0 THEN {q}
  ELSE IF Want(q) <= 0 THEN {[q EXCEPT !.capped = TRUE]}
  ELSE {LET fresh == Picked(linked, {i \in DOMAIN linked :
                       /\ linked[i] \notin QueuedFolds(q)
                       /\ \A j \in 1..i - 1 : linked[j] # linked[i]})
            added == SubSeq(fresh, 1, Least(Want(q), Len(fresh))) IN
        [q EXCEPT !.pending = @ \o added,
                  !.depths = [t \in Title |-> IF t \in ToSet(added) THEN depth + 1
                                              ELSE @[t]],
                  !.capped = @ \/ (Want(q) < Fanout /\ Len(added) >= Want(q))] :
         linked \in {<<>>, SubSeq(Links[article], 1, Least(Want(q) + 2, Len(Links[article])))}}

(* startRun: the topic's article is not found, or is grounded.             *)
StartRun(topic) ==
  {NoRun} \cup
  EnqueueFrom([key |-> topic, pending |-> <<>>, depths |-> [t \in Title |-> NoDepth],
               done |-> <<[title |-> Article[topic], depth |-> 0]>>,
               skipped |-> <<>>, capped |-> FALSE], Article[topic], 0)

(* A queue resumed without a title's depth has it at 1.                    *)
PendingDepth(q, title) == IF q.depths[title] = NoDepth THEN 1 ELSE q.depths[title]

(* stepRun: the first queued title's article is not found, or is grounded. *)
StepRun(q) ==
  LET title == Head(q.pending)
      depth == PendingDepth(q, title)
      taken == [q EXCEPT !.pending = Tail(@), !.depths[title] = NoDepth]
      grounded == [taken EXCEPT
        !.done = Append(@, [title |-> Article[title], depth |-> depth])] IN
  {[taken EXCEPT !.skipped = Append(@, title)]} \cup
  (IF depth < MaxDepth THEN EnqueueFrom(grounded, Article[title], depth) ELSE {grounded})

-----------------------------------------------------------------------------
(* The queue in the store.                                                 *)

Settled(row) == row.status \in {"done", "skipped"}

EntryRow(status, ord, depth) ==
  [status |-> status, ord |-> ord, depth |-> depth, capped |-> FALSE]

(* Mutant: a grounded title's row leaves its depth out.                    *)
DoneRowBare(q, i) == EntryRow("done", i, NoDepth)

DoneRow(q, i) == EntryRow("done", i, q.done[i].depth)

(* queueRows.                                                              *)
QueueRows(q) ==
  LET Put(entry, row) == [at |-> [run |-> q.key, entry |-> entry], row |-> row] IN
  {Put(RunRow, [status |-> "run", ord |-> 0, depth |-> NoDepth, capped |-> q.capped])}
  \cup {Put(q.pending[i], EntryRow("pending", i, q.depths[q.pending[i]])) :
          i \in DOMAIN q.pending}
  \cup {Put(q.done[i].title, DoneRow(q, i)) : i \in DOMAIN q.done}
  \cup {Put(q.skipped[i], EntryRow("skipped", i, NoDepth)) : i \in DOMAIN q.skipped}

(* queueStateFrom: the rows of one run, each list in its recorded order.   *)
QueueOf(rows, key) ==
  LET RowAt(t) == rows[[run |-> key, entry |-> t]]
      Earlier == {tu \in Title \X Title :
                    \/ RowAt(tu[1]).ord < RowAt(tu[2]).ord
                    \/ RowAt(tu[1]).ord = RowAt(tu[2]).ord /\ tu[1] < tu[2]}
      Of(status) == InOrder({t \in Title : RowAt(t).status = status}, Earlier) IN
  [key |-> key, pending |-> Of("pending"),
   depths |-> [t \in Title |-> IF RowAt(t).status = "pending" THEN RowAt(t).depth ELSE NoDepth],
   done |-> [i \in DOMAIN Of("done") |->
               [title |-> Of("done")[i], depth |-> RowAt(Of("done")[i]).depth]],
   skipped |-> Of("skipped"), capped |-> rows[[run |-> key, entry |-> RunRow]].capped]

Runs(rows) == {k \in Topic : rows[[run |-> k, entry |-> RunRow]] # NoRow}

(* loadResearchQueue: of several runs, the one a read meets first.         *)
Load(rows) ==
  IF Runs(rows) = {} THEN {NoRun} ELSE {QueueOf(rows, k) : k \in Runs(rows)}

Stored == {k \in RowKey : store[k] # NoRow}

(* Mutant: a save takes no notice of what another writer has settled.      *)
SettledOfNone(q) == {}

SettledOf(q) == {k \in Stored : k.run = q.key /\ Settled(store[k])}

(* Mutant: a save deletes the rows of its own run only.                    *)
SavePlanOwn(q) ==
  IF q = NoRun THEN [puts |-> {}, deletes |-> Stored]
  ELSE [puts |-> QueueRows(q),
        deletes |-> {k \in Stored : k.run = q.key} \ {p.at : p \in QueueRows(q)}]

(* saveRowQueue, as far as its read; or clearRowQueue.                     *)
SavePlan(q) ==
  IF q = NoRun THEN [puts |-> {}, deletes |-> Stored]
  ELSE LET puts == {p \in QueueRows(q) : p.row.status = "pending" => p.at \notin SettledOf(q)}
           kept == {p.at : p \in puts} IN
       [puts |-> puts,
        deletes |-> {k \in Stored \ (kept \cup SettledOf(q)) :
                       k.run # q.key \/ k.entry # RunRow}]

-----------------------------------------------------------------------------

Event == events < MaxEvents /\ events' = events + 1

(* researchTurn, from the load of a session that holds no queue to its     *)
(* save.  Between the two only articles are fetched, and facts written.    *)
Prior(s) == IF held[s] # NoRun THEN {held[s]} ELSE Load(store)

Turn(s, q) ==
  /\ pc[s] = "idle"
  /\ held' = [held EXCEPT ![s] = q]
  /\ pc' = [pc EXCEPT ![s] = "saving"]
  /\ UNCHANGED <<store, plan, behind, writer>>

Start(s) ==
  /\ Event
  /\ \E topic \in Topic : \E q \in StartRun(topic) : Turn(s, q)

HasPending(q) == q # NoRun /\ q.pending # <<>>

Step(s) ==
  /\ \E prior \in Prior(s) : HasPending(prior) /\ \E q \in StepRun(prior) : Turn(s, q)
  /\ UNCHANGED events

Stop(s) ==
  /\ \E prior \in Prior(s) : prior # NoRun /\ Turn(s, NoRun)
  /\ UNCHANGED events

(* The status line, and a step with nothing to step: they save too.        *)
Look(s) ==
  /\ Event
  /\ \E prior \in Prior(s) : Turn(s, prior)

SaveRead(s) ==
  /\ pc[s] = "saving"
  /\ plan' = [plan EXCEPT ![s] = SavePlan(held[s])]
  /\ behind' = [behind EXCEPT ![s] = {}]
  /\ pc' = [pc EXCEPT ![s] = IF held[s] = NoRun THEN "deleting" ELSE "putting"]
  /\ writer' = IF \A r \in Session \ {s} : pc[r] \in {"idle", "saving"} THEN s ELSE NoRun
  /\ UNCHANGED <<store, held, events>>

(* Of two calls of a batch for one row either may be the last.             *)
Batches(puts) ==
  LET doubled == {p \in puts : \E q \in puts : p.at = q.at /\ p # q} IN
  {P \in {puts \ D : D \in SUBSET doubled} :
     /\ \A p, q \in P : p.at = q.at => p = q
     /\ {p.at : p \in P} = {p.at : p \in puts}}

Landed(s, rows) ==
  /\ store' = rows
  /\ behind' = [r \in Session |->
       IF r = s THEN IF pc[s] = "putting" THEN behind[s] ELSE {}
       ELSE IF pc[r] \notin {"putting", "deleting"} THEN {}
       ELSE behind[r] \cup {k \in RowKey : Settled(rows[k]) /\ rows[k] # store[k]}]

WithPuts(P) == [k \in RowKey |-> IF \E p \in P : p.at = k
                                 THEN (CHOOSE p \in P : p.at = k).row ELSE store[k]]

WithDeletes(D) == [k \in RowKey |-> IF k \in D THEN NoRow ELSE store[k]]

Overtaken(s) == IF writer = s THEN s ELSE NoRun

SavePut(s) ==
  /\ pc[s] = "putting"
  /\ \E P \in Batches(plan[s].puts) : Landed(s, WithPuts(P))
  /\ pc' = [pc EXCEPT ![s] = "deleting"]
  /\ writer' = Overtaken(s)
  /\ UNCHANGED <<held, plan, events>>

SaveDelete(s) ==
  /\ pc[s] = "deleting"
  /\ Landed(s, WithDeletes(plan[s].deletes))
  /\ plan' = [plan EXCEPT ![s] = NoPlan]
  /\ pc' = [pc EXCEPT ![s] = "idle"]
  /\ writer' = Overtaken(s)
  /\ UNCHANGED <<held, events>>

(* A call of a batch fails: the save is given up, and the turn goes on.    *)
SaveFails(s) ==
  /\ pc[s] \in {"putting", "deleting"}
  /\ Event
  /\ IF pc[s] = "putting"
     THEN \E P \in Batches(plan[s].puts) : \E Q \in SUBSET P : Landed(s, WithPuts(Q))
     ELSE \E D \in SUBSET plan[s].deletes : Landed(s, WithDeletes(D))
  /\ plan' = [plan EXCEPT ![s] = NoPlan]
  /\ pc' = [pc EXCEPT ![s] = "idle"]
  /\ writer' = NoRun
  /\ UNCHANGED held

(* The session's process ends, within a turn or between two.               *)
Restart(s) ==
  /\ Event
  /\ held' = [held EXCEPT ![s] = NoRun]
  /\ pc' = [pc EXCEPT ![s] = "idle"]
  /\ plan' = [plan EXCEPT ![s] = NoPlan]
  /\ behind' = [behind EXCEPT ![s] = {}]
  /\ writer' = IF writer = s THEN NoRun ELSE writer
  /\ UNCHANGED store

Save(s) == SaveRead(s) \/ SavePut(s) \/ SaveDelete(s)

Next ==
  \E s \in Session :
    Start(s) \/ Step(s) \/ Stop(s) \/ Look(s) \/ Save(s) \/ SaveFails(s) \/ Restart(s)

Spec == Init /\ [][Next]_vars

-----------------------------------------------------------------------------
(* Correctness.                                                            *)

Queue ==
  [key: Topic, pending: Seq(Title), depths: [Title -> 1..MaxDepth \cup {NoDepth}],
   done: Seq([title: Title, depth: 0..MaxDepth]), skipped: Seq(Title), capped: BOOLEAN]

Row == [status: {"none", "run", "pending", "done", "skipped"}, ord: Nat,
        depth: 0..MaxDepth \cup {NoDepth}, capped: BOOLEAN]

TypeOK ==
  /\ store \in [RowKey -> Row]
  /\ \A s \in Session : held[s] = NoRun \/ held[s] \in Queue
  /\ pc \in [Session -> {"idle", "saving", "putting", "deleting"}]
  /\ \A s \in Session : /\ plan[s].puts \subseteq [at: RowKey, row: Row]
                        /\ plan[s].deletes \subseteq RowKey
  /\ behind \in [Session -> SUBSET RowKey]
  /\ writer \in Session \cup {NoRun}

(* A title only ever moves forward: a save of the run never takes a        *)
(* finished title's row back or away, however old the queue it writes;     *)
(* unless the title was finished after that save had read the rows.        *)
ForwardUnlessRaced ==
  [][\A s \in Session, k \in RowKey :
       /\ pc[s] \in {"putting", "deleting"} /\ pc'[s] # pc[s]
       /\ held[s] # NoRun /\ held[s].key = k.run
       /\ Settled(store[k]) /\ ~Settled(store'[k])
       => k \in behind[s]]_<<store, pc>>

(* Each title has one row: a redirect that grounds a queued title puts it  *)
(* in two lists.                                                           *)
Listed(q) ==
  q.pending \o q.skipped \o [i \in DOMAIN q.done |-> q.done[i].title]

(* What a restart would resume is what the session was running, less what  *)
(* others have finished meanwhile, as long as its save met no other save   *)
(* and no failure.                                                         *)
ResumesWhereItStood ==
  \A s \in Session :
    writer = s /\ pc[s] = "idle" /\ (held[s] = NoRun \/ IsInjective(Listed(held[s]))) =>
      IF held[s] = NoRun THEN Load(store) = {NoRun}
      ELSE \E q \in Load(store) :
             /\ Load(store) = {q}
             /\ q.key = held[s].key /\ q.capped = held[s].capped
             /\ DoneTitles(held[s]) \subseteq DoneTitles(q)
             /\ ToSet(held[s].skipped) \subseteq ToSet(q.skipped)
             /\ q.pending = Picked(held[s].pending, {i \in DOMAIN held[s].pending :
                  held[s].pending[i] \notin DoneTitles(q) \cup ToSet(q.skipped)})
             /\ \A t \in ToSet(q.pending) : q.depths[t] = held[s].depths[t]

=============================================================================
