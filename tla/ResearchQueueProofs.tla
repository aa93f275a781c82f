------------------------- MODULE ResearchQueueProofs -------------------------
(***************************************************************************)
(* Theorems about ResearchQueue for every set of sessions, every           *)
(* encyclopedia and every setting of the run's knobs: the types, that a    *)
(* save never takes a finished title back, and what a restart resumes.     *)
(***************************************************************************)
EXTENDS ResearchQueue, FiniteSetTheorems, SequenceTheorems, TLAPS

-----------------------------------------------------------------------------
(* Lists in an order.                                                      *)

(* R is a strict order in which any two members of S compare.              *)
Orders(R, S) ==
  /\ \A t \in S : <<t, t>> \notin R
  /\ \A t, u \in S : t # u => <<t, u>> \in R \/ <<u, t>> \in R
  /\ \A t, u, v \in S : <<t, u>> \in R /\ <<u, v>> \in R => <<t, v>> \in R

Ahead(S, R, t) == {u \in S : <<u, t>> \in R}

Rank(S, R, t) == Cardinality(Ahead(S, R, t))

(* list runs through S, from its first member in the order to its last.    *)
Lists(list, S, R) ==
  /\ list \in [1..Cardinality(S) -> S]
  /\ \A t \in S : \E n \in 1..Cardinality(S) : list[n] = t
  /\ \A m, n \in 1..Cardinality(S) : m < n => <<list[m], list[n]>> \in R

(* A member's rank counts those ahead of it, and tells any two apart.      *)
LEMMA Ranks ==
  ASSUME NEW S, NEW R, IsFiniteSet(S), Orders(R, S)
  PROVE  /\ \A t \in S : Rank(S, R, t) \in 0..Cardinality(S) - 1
         /\ \A t, u \in S : <<t, u>> \in R => Rank(S, R, t) < Rank(S, R, u)
         /\ \A t, u \in S : Rank(S, R, t) = Rank(S, R, u) => t = u
<1>1. \A t \in S : IsFiniteSet(Ahead(S, R, t)) /\ Rank(S, R, t) \in Nat
  <2>1. ASSUME NEW t \in S PROVE Ahead(S, R, t) \in SUBSET S
    BY DEF Ahead
  <2>2. ASSUME NEW t \in S PROVE IsFiniteSet(Ahead(S, R, t))
    BY <2>1, FS_Subset
  <2> QED
    BY <2>2, FS_CardinalityType DEF Rank
<1>2. Cardinality(S) \in Nat
  BY FS_CardinalityType
<1>3. ASSUME NEW t \in S PROVE Rank(S, R, t) < Cardinality(S)
  <2>1. Ahead(S, R, t) \in SUBSET S
    BY DEF Ahead
  <2>2. Ahead(S, R, t) # S
    BY DEF Ahead, Orders
  <2>3. Rank(S, R, t) <= Cardinality(S) /\ Rank(S, R, t) # Cardinality(S)
    BY <2>1, <2>2, FS_Subset DEF Rank
  <2> QED
    BY <2>3, <1>1, <1>2
<1>4. ASSUME NEW t \in S, NEW u \in S, <<t, u>> \in R
      PROVE  Rank(S, R, t) < Rank(S, R, u)
  <2>1. Ahead(S, R, t) \in SUBSET Ahead(S, R, u)
    BY <1>4 DEF Ahead, Orders
  <2>2. Ahead(S, R, t) # Ahead(S, R, u)
    BY <1>4 DEF Ahead, Orders
  <2>3. IsFiniteSet(Ahead(S, R, u))
    BY <1>1
  <2>4. Rank(S, R, t) <= Rank(S, R, u) /\ Rank(S, R, t) # Rank(S, R, u)
    BY <2>1, <2>2, <2>3, FS_Subset DEF Rank
  <2> QED
    BY <2>4, <1>1
<1>5. ASSUME NEW t \in S, NEW u \in S, Rank(S, R, t) = Rank(S, R, u) PROVE t = u
  <2>1. <<t, u>> \notin R /\ <<u, t>> \notin R
    BY <1>1, <1>4, <1>5
  <2> QED
    BY <2>1 DEF Orders
<1> QED
  BY <1>1, <1>2, <1>3, <1>4, <1>5

(* Every place up to the number of members is some member's rank.          *)
LEMMA RanksAreTaken ==
  ASSUME NEW S, NEW R, IsFiniteSet(S), Orders(R, S)
  PROVE  \A n \in 1..Cardinality(S) : \E t \in S : Rank(S, R, t) = n - 1
<1> DEFINE N == Cardinality(S)
           rank == [t \in S |-> Rank(S, R, t)]
<1>1. N \in Nat
  BY FS_CardinalityType
<1>2. rank \in Injection(S, 0..N - 1)
  <2>1. rank \in [S -> 0..N - 1]
    BY Ranks, Zenon
  <2>2. \A t, u \in S : rank[t] = rank[u] => t = u
    BY Ranks, Zenon
  <2> QED
    BY <2>1, <2>2 DEF Injection, IsInjective
<1>3. IsFiniteSet(0..N - 1) /\ Cardinality(0..N - 1) = N
  <2>1. 0 \in Int /\ N - 1 \in Int
    BY <1>1
  <2>2. IsFiniteSet(0..N - 1) /\ Cardinality(0..N - 1) = IF 0 > N - 1 THEN 0 ELSE N - 1 - 0 + 1
    BY <2>1, FS_Interval
  <2> QED
    BY <1>1, <2>2
<1>4. rank \in Surjection(S, 0..N - 1)
  BY <1>2, <1>3, FS_Injection
<1>5. \A m \in 0..N - 1 : \E t \in S : rank[t] = m
  BY <1>4 DEF Surjection
<1> QED
  BY <1>1, <1>5

(* InOrder lists its set.                                                  *)
LEMMA InOrderLists ==
  ASSUME NEW S, NEW R, IsFiniteSet(S), Orders(R, S)
  PROVE  Lists(InOrder(S, R), S, R)
<1> DEFINE N == Cardinality(S)
           list == InOrder(S, R)
<1>1. N \in Nat
  BY FS_CardinalityType
<1>2. list = [n \in 1..N |-> CHOOSE t \in S : Rank(S, R, t) = n - 1]
  BY Zenon DEF InOrder, Rank, Ahead
<1>3. ASSUME NEW n \in 1..N PROVE list[n] \in S /\ Rank(S, R, list[n]) = n - 1
  <2>1. \E t \in S : Rank(S, R, t) = n - 1
    BY RanksAreTaken, Zenon
  <2>2. list[n] = CHOOSE t \in S : Rank(S, R, t) = n - 1
    BY <1>2, Zenon
  <2> QED
    BY <2>1, <2>2, Zenon
<1> HIDE DEF list
<1>4. list \in [1..N -> S]
  BY <1>2, <1>3, Zenon
<1>5. ASSUME NEW t \in S PROVE \E n \in 1..N : list[n] = t
  <2>1. Rank(S, R, t) \in 0..N - 1
    BY Ranks, Zenon
  <2> DEFINE n == Rank(S, R, t) + 1
  <2>2. n \in 1..N /\ n - 1 = Rank(S, R, t)
    BY <1>1, <2>1
  <2> HIDE DEF n
  <2>3. list[n] \in S /\ Rank(S, R, list[n]) = Rank(S, R, t)
    BY <1>3, <2>2
  <2>4. list[n] = t
    BY <2>3, Ranks, Zenon
  <2> QED
    BY <2>2, <2>4
<1>6. ASSUME NEW m \in 1..N, NEW n \in 1..N, m < n
      PROVE  <<list[m], list[n]>> \in R
  <2>1. /\ list[m] \in S /\ Rank(S, R, list[m]) = m - 1
        /\ list[n] \in S /\ Rank(S, R, list[n]) = n - 1
    BY <1>3
  <2>2. list[m] # list[n]
    BY <1>6, <2>1, <1>1
  <2>3. ASSUME <<list[n], list[m]>> \in R PROVE FALSE
    <3>1. Rank(S, R, list[n]) < Rank(S, R, list[m])
      BY <2>1, <2>3, Ranks
    <3> QED
      BY <3>1, <2>1, <1>6, <1>1
  <2> QED
    BY <2>1, <2>2, <2>3 DEF Orders
<1> QED
  BY <1>4, <1>5, <1>6 DEF Lists, list

(* And is the only list that runs through the set in the order.            *)
LEMMA ListedOnce ==
  ASSUME NEW S, NEW R, IsFiniteSet(S), Orders(R, S),
         NEW M \in Nat, NEW list \in [1..M -> S],
         \A t \in S : \E n \in 1..M : list[n] = t,
         \A m, n \in 1..M : m < n => <<list[m], list[n]>> \in R
  PROVE  list = InOrder(S, R)
<1> DEFINE N == Cardinality(S)
<1>1. ASSUME NEW m \in 1..M, NEW n \in 1..M, list[m] = list[n] PROVE m = n
  <2>1. <<list[m], list[m]>> \notin R /\ <<list[n], list[n]>> \notin R
    BY DEF Orders
  <2>2. ~(m < n) /\ ~(n < m)
    BY <1>1, <2>1
  <2> QED
    BY <2>2
<1>2. IsFiniteSet(1..M) /\ Cardinality(1..M) = M
  <2>1. IsFiniteSet(1..M) /\ Cardinality(1..M) = IF 1 > M THEN 0 ELSE M - 1 + 1
    BY FS_Interval
  <2> QED
    BY <2>1
<1>3. N = M
  <2>1. list \in Surjection(1..M, S) /\ list \in Injection(1..M, S)
    BY <1>1 DEF Surjection, Injection, IsInjective
  <2> QED
    BY <1>2, <2>1, FS_Surjection
<1>4. ASSUME NEW n \in 1..M PROVE Rank(S, R, list[n]) = n - 1
  <2> DEFINE A == Ahead(S, R, list[n])
             upto == [m \in 1..n - 1 |-> list[m]]
  <2>1. ASSUME NEW m \in 1..M PROVE list[m] \in A <=> m < n
    <3>1. m < n => list[m] \in A
      BY DEF Ahead
    <3>2. m = n => list[m] \notin A
      BY DEF Ahead, Orders
    <3>3. n < m => list[m] \notin A
      BY DEF Ahead, Orders
    <3> QED
      BY <3>1, <3>2, <3>3
  <2>2. upto \in [1..n - 1 -> A]
    BY <2>1
  <2>3. \A t \in A : \E m \in 1..n - 1 : upto[m] = t
    <3>1. ASSUME NEW t \in A PROVE \E m \in 1..n - 1 : upto[m] = t
      <4>1. PICK m \in 1..M : list[m] = t
        BY DEF Ahead
      <4> QED
        BY <2>1, <4>1
    <3> QED
      BY <3>1
  <2>4. upto \in Surjection(1..n - 1, A) /\ upto \in Injection(1..n - 1, A)
    <3> HIDE DEF A
    <3>1. \A k, m \in 1..n - 1 : upto[k] = upto[m] => k = m
      BY <1>1
    <3> QED
      BY <2>2, <2>3, <3>1 DEF Surjection, Injection, IsInjective
  <2>5. IsFiniteSet(1..n - 1) /\ Cardinality(1..n - 1) = n - 1
    <3>1. IsFiniteSet(1..n - 1) /\ Cardinality(1..n - 1) = IF 1 > n - 1 THEN 0 ELSE n - 1 - 1 + 1
      BY FS_Interval
    <3> QED
      BY <3>1
  <2> HIDE DEF A, upto
  <2>6. Cardinality(A) = n - 1
    BY <2>4, <2>5, FS_Surjection
  <2> QED
    BY <2>6 DEF Rank, A
<1>5. ASSUME NEW n \in 1..M PROVE list[n] = CHOOSE t \in S : Rank(S, R, t) = n - 1
  <2>1. list[n] \in S /\ Rank(S, R, list[n]) = n - 1
    BY <1>4
  <2>2. \A t \in S : Rank(S, R, t) = n - 1 => t = list[n]
    BY <2>1, Ranks, Zenon
  <2> QED
    BY <2>1, <2>2, Zenon
<1>6. InOrder(S, R) = [n \in 1..N |-> CHOOSE t \in S : Rank(S, R, t) = n - 1]
  BY Zenon DEF InOrder, Rank, Ahead
<1> QED
  BY <1>3, <1>5, <1>6, Zenon

(* out holds the places of list that are kept, each once and in line.      *)
Picks(out, list, kept) ==
  \E place \in [1..Len(out) -> kept] :
    /\ \A n \in 1..Len(out) : out[n] = list[place[n]]
    /\ \A i \in kept : \E n \in 1..Len(out) : place[n] = i
    /\ \A m, n \in 1..Len(out) : m < n => place[m] < place[n]

(* Picked picks.                                                           *)
LEMMA PickedPicks ==
  ASSUME NEW T, NEW list \in Seq(T), NEW kept \in SUBSET (1..Len(list))
  PROVE  Picked(list, kept) \in Seq(T) /\ Picks(Picked(list, kept), list, kept)
<1> DEFINE N == Cardinality(kept)
           place == InOrder(kept, Below)
           out == Picked(list, kept)
<1>1. IsFiniteSet(kept)
  <2>1. 1 \in Int /\ Len(list) \in Int
    BY LenProperties
  <2>2. IsFiniteSet(1..Len(list))
    BY <2>1, FS_Interval
  <2> QED
    BY <2>2, FS_Subset
<1>2. \A m, n \in kept : <<m, n>> \in Below <=> m < n
  BY LenProperties DEF Below
<1>3. Orders(Below, kept)
  BY <1>2, LenProperties DEF Orders
<1>4. Lists(place, kept, Below)
  BY <1>1, <1>3, InOrderLists
<1>5. N \in Nat
  BY <1>1, FS_CardinalityType
<1> HIDE DEF N, place
<1>6. /\ place \in [1..N -> kept]
      /\ \A i \in kept : \E n \in 1..N : place[n] = i
      /\ \A m, n \in 1..N : m < n => <<place[m], place[n]>> \in Below
  BY <1>4 DEF Lists, N
<1>7. out = [n \in 1..N |-> list[place[n]]]
  BY <1>6, Zenon DEF Picked, place
<1>8. \A n \in 1..N : list[place[n]] \in T
  BY <1>6, LenProperties
<1> HIDE DEF out
<1>9. out \in [1..N -> T]
  BY <1>7, <1>8, Zenon
<1>10. out \in Seq(T) /\ Len(out) = N
  BY <1>5, <1>9, SeqDef, LenProperties
<1>11. Picks(out, list, kept)
  <2>1. \A n \in 1..N : out[n] = list[place[n]]
    BY <1>7
  <2>2. \A m, n \in 1..N : m < n => place[m] < place[n]
    BY <1>2, <1>6
  <2> QED
    BY <1>6, <1>10, <2>1, <2>2 DEF Picks
<1> QED
  BY <1>10, <1>11 DEF out

-----------------------------------------------------------------------------
(* The shape of queues, rows and plans.                                    *)

(* A title waits only in a run that follows links.                         *)
SoundQueue == {q \in Queue : q.pending # <<>> => MaxDepth >= 1}

(* A row that can stand at k: the run's own row or a title's.              *)
RowFits(k, row) ==
  /\ row \in Row
  /\ row.status = "none" => row = NoRow
  /\ row.status = "run" <=> k.entry = RunRow /\ row # NoRow
  /\ row.status = "pending" => row.depth # 0 /\ MaxDepth >= 1
  /\ row.status = "done" => row.depth # NoDepth

RowsFit(rows) ==
  /\ rows \in [RowKey -> Row]
  /\ \A k \in RowKey : RowFits(k, rows[k])

FittingPut ==
  {p \in [at: RowKey, row: Row] : RowFits(p.at, p.row) /\ p.row # NoRow}

(* What the assumption says of the numbers.                                *)
LEMMA Numbers ==
  /\ MaxDepth \in Nat /\ Fanout \in Nat /\ MaxTopics \in Nat /\ MaxEvents \in Nat
  /\ Title \subseteq Nat /\ RunRow \notin Title /\ Topic \subseteq Title
  /\ IsFiniteSet(Title)
  BY ResearchQueueAssumption DEF RunRow

(* A queue given links at a sound depth stays sound.                       *)
LEMMA EnqueueSound ==
  ASSUME NEW q \in SoundQueue, NEW article \in Title, NEW depth \in 0..MaxDepth
  PROVE  EnqueueFrom(q, article, depth) \subseteq SoundQueue
<1> DEFINE fanned == EnqueueFrom(q, article, depth)
           Fresh(linked) == Picked(linked, {i \in DOMAIN linked :
                       /\ linked[i] \notin QueuedFolds(q)
                       /\ \A j \in 1..i - 1 : linked[j] # linked[i]})
           Added(linked) == SubSeq(Fresh(linked), 1, Least(Want(q), Len(Fresh(linked))))
           Grown(linked) ==
             [q EXCEPT !.pending = @ \o Added(linked),
                  !.depths = [t \in Title |-> IF t \in ToSet(Added(linked)) THEN depth + 1
                                              ELSE @[t]],
                  !.capped = @ \/ (Want(q) < Fanout /\ Len(Added(linked)) >= Want(q))]
           some == SubSeq(Links[article], 1, Least(Want(q) + 2, Len(Links[article])))
<1>1. CASE depth + 1 > MaxDepth \/ Fanout = 0
  BY <1>1 DEF EnqueueFrom
<1>2. CASE ~(depth + 1 > MaxDepth \/ Fanout = 0) /\ Want(q) <= 0
  <2>1. fanned = {[q EXCEPT !.capped = TRUE]}
    BY <1>2 DEF EnqueueFrom
  <2>2. [q EXCEPT !.capped = TRUE] \in SoundQueue
    BY DEF SoundQueue, Queue
  <2> QED
    BY <2>1, <2>2
<1>3. CASE ~(depth + 1 > MaxDepth \/ Fanout = 0) /\ ~(Want(q) <= 0)
  <2>1. fanned = {Grown(linked) : linked \in {<<>>, some}}
    BY <1>3, Zenon DEF EnqueueFrom
  <2>2. Want(q) \in Int /\ depth + 1 \in 1..MaxDepth /\ MaxDepth >= 1
    BY <1>3, Numbers, LenProperties DEF Want, Least, Topics, SoundQueue, Queue
  <2>3. {<<>>, some} \subseteq Seq(Title)
    <3>1. Links[article] \in Seq(Title)
      BY ResearchQueueAssumption
    <3>2. /\ Len(Links[article]) \in Nat
          /\ \A i \in 1..Len(Links[article]) : Links[article][i] \in Title
      BY <3>1, LenProperties
    <3>3. Least(Want(q) + 2, Len(Links[article])) \in Int
          /\ Least(Want(q) + 2, Len(Links[article])) <= Len(Links[article])
      BY <2>2, <3>2 DEF Least
    <3> QED
      BY <3>2, <3>3, SubSeqProperties
  <2>4. ASSUME NEW linked \in Seq(Title) PROVE Grown(linked) \in SoundQueue
    <3>1. Fresh(linked) \in Seq(Title)
      BY PickedPicks, LenProperties
    <3> HIDE DEF Fresh
    <3>2. Added(linked) \in Seq(Title)
      <4>1. Len(Fresh(linked)) \in Nat
            /\ \A i \in 1..Len(Fresh(linked)) : Fresh(linked)[i] \in Title
        BY <3>1, LenProperties
      <4>2. Least(Want(q), Len(Fresh(linked))) \in Int
            /\ Least(Want(q), Len(Fresh(linked))) <= Len(Fresh(linked))
        BY <2>2, <4>1 DEF Least
      <4> QED
        BY <4>1, <4>2, SubSeqProperties
    <3> HIDE DEF Added
    <3>3. q.pending \o Added(linked) \in Seq(Title)
      BY <3>2, ConcatProperties DEF SoundQueue, Queue
    <3>4. [t \in Title |-> IF t \in ToSet(Added(linked)) THEN depth + 1 ELSE q.depths[t]]
            \in [Title -> 1..MaxDepth \cup {NoDepth}]
      BY <2>2 DEF SoundQueue, Queue
    <3>5. (q.capped \/ (Want(q) < Fanout /\ Len(Added(linked)) >= Want(q))) \in BOOLEAN
      OBVIOUS
    <3> DEFINE grown == Grown(linked)
    <3>6. grown \in [key: Topic, pending: Seq(Title),
                     depths: [Title -> 1..MaxDepth \cup {NoDepth}],
                     done: Seq([title: Title, depth: 0..MaxDepth]),
                     skipped: Seq(Title), capped: BOOLEAN]
      BY <3>3, <3>4, <3>5 DEF SoundQueue, Queue
    <3> QED
      BY <2>2, <3>6 DEF SoundQueue, Queue
  <2> HIDE DEF Grown, some
  <2>5. fanned \subseteq SoundQueue
    <3> HIDE DEF fanned
    <3> QED
      BY <2>1, <2>3, <2>4, Zenon
  <2> QED
    BY <2>5
<1> QED
  BY <1>1, <1>2, <1>3

(* A run starts with a sound queue, or with none.                          *)
LEMMA StartSound ==
  ASSUME NEW topic \in Topic
  PROVE  StartRun(topic) \subseteq {NoRun} \cup SoundQueue
<1> DEFINE q == [key |-> topic, pending |-> <<>>, depths |-> [t \in Title |-> NoDepth],
               done |-> <<[title |-> Article[topic], depth |-> 0]>>,
               skipped |-> <<>>, capped |-> FALSE]
<1>1. Article[topic] \in Title /\ 0 \in 0..MaxDepth
  BY Numbers, ResearchQueueAssumption
<1>2. q \in SoundQueue
  BY <1>1 DEF SoundQueue, Queue
<1> HIDE DEF q
<1>3. StartRun(topic) = {NoRun} \cup EnqueueFrom(q, Article[topic], 0)
  BY Zenon DEF StartRun, q
<1> QED
  BY <1>1, <1>2, <1>3, EnqueueSound

(* A step leaves a sound queue sound.                                      *)
LEMMA StepSound ==
  ASSUME NEW q \in SoundQueue, q.pending # <<>>
  PROVE  StepRun(q) \subseteq SoundQueue
<1> DEFINE title == Head(q.pending)
           depth == PendingDepth(q, title)
           taken == [q EXCEPT !.pending = Tail(@), !.depths[title] = NoDepth]
           grounded == [taken EXCEPT
             !.done = Append(@, [title |-> Article[title], depth |-> depth])]
           skip == [taken EXCEPT !.skipped = Append(@, title)]
<1>1. title \in Title /\ Tail(q.pending) \in Seq(Title) /\ MaxDepth >= 1
  BY HeadTailProperties DEF SoundQueue, Queue
<1>2. Article[title] \in Title
  BY <1>1, ResearchQueueAssumption
<1>3. depth \in 1..MaxDepth
  <2>1. q.depths[title] \in 1..MaxDepth \cup {NoDepth}
    BY <1>1 DEF SoundQueue, Queue
  <2>2. 1 \in 1..MaxDepth
    BY <1>1, Numbers
  <2> QED
    BY <2>1, <2>2 DEF PendingDepth
<1>4. StepRun(q) = {skip} \cup
        (IF depth < MaxDepth THEN EnqueueFrom(grounded, Article[title], depth) ELSE {grounded})
  BY Zenon DEF StepRun
<1> HIDE DEF title, depth
<1>5. taken \in SoundQueue
  BY <1>1 DEF SoundQueue, Queue, NoDepth
<1> HIDE DEF taken
<1>6. skip \in SoundQueue
  <2>1. Append(taken.skipped, title) \in Seq(Title)
    BY <1>1, <1>5 DEF SoundQueue, Queue
  <2> QED
    BY <2>1, <1>5 DEF SoundQueue, Queue
<1>7. grounded \in SoundQueue
  <2>1. Append(taken.done, [title |-> Article[title], depth |-> depth])
          \in Seq([title: Title, depth: 0..MaxDepth])
    BY <1>2, <1>3, <1>5 DEF SoundQueue, Queue
  <2> QED
    BY <2>1, <1>5 DEF SoundQueue, Queue
<1> HIDE DEF grounded, skip
<1>8. depth \in 0..MaxDepth
  BY <1>3, Numbers
<1> QED
  BY <1>2, <1>4, <1>6, <1>7, <1>8, EnqueueSound

-----------------------------------------------------------------------------
(* The rows of a queue, and the queue of rows.                             *)

At(key, entry) == [run |-> key, entry |-> entry]

Put(key, entry, row) == [at |-> At(key, entry), row |-> row]

RunPut(q) ==
  Put(q.key, RunRow, [status |-> "run", ord |-> 0, depth |-> NoDepth, capped |-> q.capped])

(* A queue's rows, one for the run and one for each place in its lists.    *)
LEMMA QueueRowCases ==
  ASSUME NEW q, NEW p
  PROVE  p \in QueueRows(q) <=>
         \/ p = RunPut(q)
         \/ \E i \in DOMAIN q.pending :
              p = Put(q.key, q.pending[i], EntryRow("pending", i, q.depths[q.pending[i]]))
         \/ \E i \in DOMAIN q.done : p = Put(q.key, q.done[i].title, DoneRow(q, i))
         \/ \E i \in DOMAIN q.skipped :
              p = Put(q.key, q.skipped[i], EntryRow("skipped", i, NoDepth))
  BY Zenon DEF QueueRows, RunPut, Put, At

(* A sound queue's rows fit, each at a key of its run.                     *)
LEMMA QueueRowsFit ==
  ASSUME NEW q \in SoundQueue
  PROVE  QueueRows(q) \subseteq FittingPut /\ \A p \in QueueRows(q) : p.at.run = q.key
<1> SUFFICES ASSUME NEW p \in QueueRows(q) PROVE p \in FittingPut /\ p.at.run = q.key
  OBVIOUS
<1>1. /\ q.key \in Topic /\ q.pending \in Seq(Title) /\ q.skipped \in Seq(Title)
      /\ q.depths \in [Title -> 1..MaxDepth \cup {NoDepth}]
      /\ q.done \in Seq([title: Title, depth: 0..MaxDepth])
      /\ q.capped \in BOOLEAN /\ (q.pending # <<>> => MaxDepth >= 1)
  BY DEF SoundQueue, Queue
<1>2. CASE p = RunPut(q)
  <2>1. p.at \in RowKey /\ p.at.entry = RunRow /\ p.at.run = q.key
    BY <1>1, <1>2 DEF RunPut, Put, At, RowKey
  <2>2. p.row \in Row /\ p.row.status = "run" /\ p.row # NoRow
    BY <1>1, <1>2, Numbers DEF RunPut, Put, Row, NoRow, NoDepth
  <2>3. p \in [at: RowKey, row: Row]
    BY <1>2, <2>1, <2>2 DEF RunPut, Put
  <2> QED
    BY <2>1, <2>2, <2>3 DEF FittingPut, RowFits
<1>3. ASSUME NEW i \in DOMAIN q.pending,
             p = Put(q.key, q.pending[i], EntryRow("pending", i, q.depths[q.pending[i]]))
      PROVE  p \in FittingPut /\ p.at.run = q.key
  <2>1. q.pending[i] \in Title /\ i \in Nat /\ MaxDepth >= 1
    BY <1>1
  <2>2. p.at \in RowKey /\ p.at.entry # RunRow /\ p.at.run = q.key
    BY <1>1, <1>3, <2>1, Numbers DEF Put, At, RowKey
  <2>3. /\ p.row \in Row /\ p.row.status = "pending" /\ p.row # NoRow /\ p.row.depth # 0
    <3>1. q.depths[q.pending[i]] \in 1..MaxDepth \cup {NoDepth}
      BY <1>1, <2>1
    <3>2. p.row = [status |-> "pending", ord |-> i, depth |-> q.depths[q.pending[i]],
                   capped |-> FALSE]
      BY <1>3 DEF Put, EntryRow
    <3> QED
      BY <3>1, <3>2, <2>1, Numbers DEF Row, NoRow, NoDepth
  <2>4. p \in [at: RowKey, row: Row]
    BY <1>3, <2>2, <2>3 DEF Put
  <2> QED
    BY <2>1, <2>2, <2>3, <2>4 DEF FittingPut, RowFits
<1>4. ASSUME NEW i \in DOMAIN q.done, p = Put(q.key, q.done[i].title, DoneRow(q, i))
      PROVE  p \in FittingPut /\ p.at.run = q.key
  <2>1. q.done[i].title \in Title /\ q.done[i].depth \in 0..MaxDepth /\ i \in Nat
    <3>1. i \in 1..Len(q.done) /\ Len(q.done) \in Nat
      BY <1>1, LenProperties
    <3>2. q.done[i] \in [title: Title, depth: 0..MaxDepth]
      BY <1>1, <3>1, ElementOfSeq
    <3> QED
      BY <3>1, <3>2
  <2>2. p.at \in RowKey /\ p.at.entry # RunRow /\ p.at.run = q.key
    BY <1>1, <1>4, <2>1, Numbers DEF Put, At, RowKey
  <2>3. p.row \in Row /\ p.row.status = "done" /\ p.row # NoRow /\ p.row.depth # NoDepth
    <3>1. p.row = [status |-> "done", ord |-> i, depth |-> q.done[i].depth, capped |-> FALSE]
      BY <1>4 DEF Put, DoneRow, EntryRow
    <3> QED
      BY <3>1, <2>1, Numbers DEF Row, NoRow, NoDepth
  <2>4. p \in [at: RowKey, row: Row]
    BY <1>4, <2>2, <2>3 DEF Put
  <2> QED
    BY <2>2, <2>3, <2>4 DEF FittingPut, RowFits
<1>5. ASSUME NEW i \in DOMAIN q.skipped,
             p = Put(q.key, q.skipped[i], EntryRow("skipped", i, NoDepth))
      PROVE  p \in FittingPut /\ p.at.run = q.key
  <2>1. q.skipped[i] \in Title /\ i \in Nat
    BY <1>1
  <2>2. p.at \in RowKey /\ p.at.entry # RunRow /\ p.at.run = q.key
    BY <1>1, <1>5, <2>1, Numbers DEF Put, At, RowKey
  <2>3. p.row \in Row /\ p.row.status = "skipped" /\ p.row # NoRow
    <3>1. p.row = [status |-> "skipped", ord |-> i, depth |-> NoDepth, capped |-> FALSE]
      BY <1>5 DEF Put, EntryRow
    <3> QED
      BY <3>1, <2>1, Numbers DEF Row, NoRow, NoDepth
  <2>4. p \in [at: RowKey, row: Row]
    BY <1>5, <2>2, <2>3 DEF Put
  <2> QED
    BY <2>2, <2>3, <2>4 DEF FittingPut, RowFits
<1> QED
  BY <1>2, <1>3, <1>4, <1>5, QueueRowCases, Zenon

(* The titles of a run that stand so in the rows, and their order.         *)
WithStatus(rows, key, status) == {t \in Title : rows[At(key, t)].status = status}

Earlier(rows, key) ==
  {tu \in Title \X Title :
     \/ rows[At(key, tu[1])].ord < rows[At(key, tu[2])].ord
     \/ rows[At(key, tu[1])].ord = rows[At(key, tu[2])].ord /\ tu[1] < tu[2]}

Of(rows, key, status) == InOrder(WithStatus(rows, key, status), Earlier(rows, key))

(* The queue read back, in these terms.                                    *)
LEMMA QueueOfIs ==
  ASSUME NEW rows, NEW key
  PROVE  QueueOf(rows, key) =
    [key |-> key, pending |-> Of(rows, key, "pending"),
     depths |-> [t \in Title |-> IF rows[At(key, t)].status = "pending"
                                 THEN rows[At(key, t)].depth ELSE NoDepth],
     done |-> [i \in DOMAIN Of(rows, key, "done") |->
                 [title |-> Of(rows, key, "done")[i],
                  depth |-> rows[At(key, Of(rows, key, "done")[i])].depth]],
     skipped |-> Of(rows, key, "skipped"), capped |-> rows[At(key, RunRow)].capped]
  BY Zenon DEF QueueOf, Of, WithStatus, Earlier, At

(* Any two titles of a run compare.                                        *)
LEMMA EarlierOrders ==
  ASSUME NEW rows, RowsFit(rows), NEW key \in Topic, NEW S \in SUBSET Title
  PROVE  Orders(Earlier(rows, key), S)
<1> DEFINE ord(t) == rows[At(key, t)].ord
<1>1. ASSUME NEW t \in Title PROVE ord(t) \in Nat /\ t \in Nat
  <2>1. At(key, t) \in RowKey
    BY DEF At, RowKey
  <2>2. rows[At(key, t)] \in Row
    BY <2>1 DEF RowsFit
  <2> QED
    BY <2>2, Numbers DEF Row
<1>2. ASSUME NEW t \in Title, NEW u \in Title
      PROVE  <<t, u>> \in Earlier(rows, key) <=> ord(t) < ord(u) \/ (ord(t) = ord(u) /\ t < u)
  BY DEF Earlier
<1> HIDE DEF ord
<1>3. \A t \in S : <<t, t>> \notin Earlier(rows, key)
  BY <1>1, <1>2
<1>4. \A t, u \in S : t # u => <<t, u>> \in Earlier(rows, key) \/ <<u, t>> \in Earlier(rows, key)
  BY <1>1, <1>2
<1>5. ASSUME NEW t \in S, NEW u \in S, NEW v \in S,
             <<t, u>> \in Earlier(rows, key), <<u, v>> \in Earlier(rows, key)
      PROVE  <<t, v>> \in Earlier(rows, key)
  <2>1. /\ ord(t) \in Nat /\ ord(u) \in Nat /\ ord(v) \in Nat
        /\ t \in Nat /\ u \in Nat /\ v \in Nat
    BY <1>1
  <2>2. /\ ord(t) < ord(u) \/ (ord(t) = ord(u) /\ t < u)
        /\ ord(u) < ord(v) \/ (ord(u) = ord(v) /\ u < v)
    BY <1>2, <1>5
  <2>3. ord(t) < ord(v) \/ (ord(t) = ord(v) /\ t < v)
    BY <2>1, <2>2
  <2> QED
    BY <1>2, <2>3
<1> QED
  BY <1>3, <1>4, <1>5 DEF Orders

(* A list read back holds the titles that stand so.                        *)
LEMMA OfRuns ==
  ASSUME NEW rows, RowsFit(rows), NEW key \in Topic, NEW status
  PROVE  /\ Of(rows, key, status) \in Seq(Title)
         /\ ToSet(Of(rows, key, status)) = WithStatus(rows, key, status)
<1> DEFINE S == WithStatus(rows, key, status)
           list == Of(rows, key, status)
           N == Cardinality(S)
<1>1. S \in SUBSET Title
  BY DEF WithStatus
<1> HIDE DEF S
<1>2. IsFiniteSet(S)
  BY <1>1, Numbers, FS_Subset
<1>3. N \in Nat
  BY <1>2, FS_CardinalityType
<1>4. Orders(Earlier(rows, key), S)
  BY <1>1, EarlierOrders
<1>5. Lists(list, S, Earlier(rows, key))
  BY <1>2, <1>4, InOrderLists, Zenon DEF Of, S
<1> HIDE DEF list, N
<1>6. list \in [1..N -> S] /\ \A t \in S : \E n \in 1..N : list[n] = t
  BY <1>5 DEF Lists, N
<1>7. list \in Seq(Title)
  <2>1. list \in [1..N -> Title]
    BY <1>1, <1>6
  <2> QED
    BY <1>3, <2>1, SeqDef
<1>8. ToSet(list) = S
  BY <1>6 DEF ToSet
<1> QED
  BY <1>7, <1>8 DEF list, S

(* Fitting rows are read back as a sound queue.                            *)
LEMMA LoadSound ==
  ASSUME NEW rows, RowsFit(rows)
  PROVE  Load(rows) \subseteq {NoRun} \cup SoundQueue
<1> SUFFICES ASSUME NEW key \in Topic PROVE QueueOf(rows, key) \in SoundQueue
  BY DEF Load, Runs
<1> DEFINE pending == Of(rows, key, "pending")
           done == Of(rows, key, "done")
           skipped == Of(rows, key, "skipped")
           depths == [t \in Title |-> IF rows[At(key, t)].status = "pending"
                                      THEN rows[At(key, t)].depth ELSE NoDepth]
           dones == [i \in DOMAIN done |->
                       [title |-> done[i], depth |-> rows[At(key, done[i])].depth]]
<1>1. ASSUME NEW t \in Title
      PROVE  /\ At(key, t) \in RowKey /\ rows[At(key, t)] \in Row
             /\ RowFits(At(key, t), rows[At(key, t)])
  BY DEF RowsFit, RowKey, At
<1>2. /\ pending \in Seq(Title) /\ ToSet(pending) = WithStatus(rows, key, "pending")
      /\ done \in Seq(Title) /\ ToSet(done) = WithStatus(rows, key, "done")
      /\ skipped \in Seq(Title)
  BY OfRuns
<1> HIDE DEF pending, done, skipped
<1>3. ASSUME pending # <<>> PROVE MaxDepth >= 1
  <2>1. pending[1] \in ToSet(pending)
    BY <1>2, <1>3, EmptySeq DEF ToSet
  <2>2. PICK t \in Title : rows[At(key, t)].status = "pending"
    BY <1>2, <2>1 DEF WithStatus
  <2> QED
    BY <1>1, <2>2 DEF RowFits
<1>4. depths \in [Title -> 1..MaxDepth \cup {NoDepth}]
  <2>1. ASSUME NEW t \in Title, rows[At(key, t)].status = "pending"
        PROVE  rows[At(key, t)].depth \in 1..MaxDepth \cup {NoDepth}
    BY <1>1, <2>1, Numbers DEF RowFits, Row
  <2> QED
    BY <2>1
<1>5. dones \in Seq([title: Title, depth: 0..MaxDepth])
  <2>1. ASSUME NEW i \in 1..Len(done)
        PROVE  done[i] \in Title /\ rows[At(key, done[i])].depth \in 0..MaxDepth
    <3>1. done[i] \in Title /\ done[i] \in ToSet(done)
      BY <1>2, LenProperties DEF ToSet
    <3>2. rows[At(key, done[i])].status = "done"
      BY <1>2, <3>1 DEF WithStatus
    <3> QED
      BY <1>1, <3>1, <3>2 DEF RowFits, Row
  <2>2. DOMAIN done = 1..Len(done) /\ Len(done) \in Nat
    BY <1>2, LenProperties
  <2>3. dones \in [1..Len(done) -> [title: Title, depth: 0..MaxDepth]]
    BY <2>1, <2>2
  <2> QED
    BY <2>2, <2>3, SeqDef
<1>6. rows[At(key, RunRow)].capped \in BOOLEAN
  <2>1. At(key, RunRow) \in RowKey
    BY DEF At, RowKey
  <2>2. rows[At(key, RunRow)] \in Row
    BY <2>1 DEF RowsFit
  <2> QED
    BY <2>2 DEF Row
<1>7. QueueOf(rows, key) =
        [key |-> key, pending |-> pending, depths |-> depths, done |-> dones,
         skipped |-> skipped, capped |-> rows[At(key, RunRow)].capped]
  BY QueueOfIs, Zenon DEF pending, done, skipped
<1> HIDE DEF depths, dones
<1> QED
  BY <1>2, <1>3, <1>4, <1>5, <1>6, <1>7 DEF SoundQueue, Queue

PlanShape == [puts: SUBSET FittingPut, deletes: SUBSET RowKey]

(* The inductive form of the type invariant.                               *)
Shape ==
  /\ RowsFit(store)
  /\ held \in [Session -> {NoRun} \cup SoundQueue]
  /\ pc \in [Session -> {"idle", "saving", "putting", "deleting"}]
  /\ plan \in [Session -> PlanShape]
  /\ behind \in [Session -> SUBSET RowKey]
  /\ writer \in Session \cup {NoRun}

(* A row that is not there fits anywhere.                                  *)
LEMMA NoRowFits ==
  ASSUME NEW k \in RowKey
  PROVE  RowFits(k, NoRow)
  BY DEF RowFits, NoRow, Row, NoDepth

(* The empty plan fits.                                                    *)
LEMMA NoPlanFits == NoPlan \in PlanShape
  BY DEF NoPlan, PlanShape

(* A sound queue's plan fits.                                              *)
LEMMA SavePlanFits ==
  ASSUME NEW q \in {NoRun} \cup SoundQueue
  PROVE  SavePlan(q) \in PlanShape
<1>1. CASE q = NoRun
  BY <1>1 DEF SavePlan, PlanShape, Stored
<1>2. CASE q # NoRun
  <2>1. QueueRows(q) \subseteq FittingPut
    BY <1>2, QueueRowsFit
  <2> QED
    BY <1>2, <2>1 DEF SavePlan, PlanShape, Stored
<1> QED
  BY <1>1, <1>2

(* A batch holds one put for every key that has one.                       *)
LEMMA BatchesFit ==
  ASSUME NEW puts, NEW P \in Batches(puts)
  PROVE  /\ P \subseteq puts
         /\ \A p, q \in P : p.at = q.at => p = q
         /\ \A p \in puts : \E q \in P : q.at = p.at
<1>1. P \subseteq puts
  BY DEF Batches
<1>2. \A p, q \in P : p.at = q.at => p = q
  BY Zenon DEF Batches
<1>3. {p.at : p \in P} = {p.at : p \in puts}
  BY Zenon DEF Batches
<1> QED
  BY <1>1, <1>2, <1>3, Zenon

(* After a batch of puts a key holds one of them or what it held.          *)
LEMMA PutsAt ==
  ASSUME NEW P, NEW k \in RowKey
  PROVE  /\ (\A p \in P : p.at # k) => WithPuts(P)[k] = store[k]
         /\ \A p \in P : p.at = k => \E q \in P : q.at = k /\ WithPuts(P)[k] = q.row
  BY DEF WithPuts

(* Fitting puts leave fitting rows.                                        *)
LEMMA WithPutsFit ==
  ASSUME RowsFit(store), NEW P \in SUBSET FittingPut
  PROVE  RowsFit(WithPuts(P))
<1>1. ASSUME NEW k \in RowKey
      PROVE  RowFits(k, WithPuts(P)[k])
  <2>1. CASE \A p \in P : p.at # k
    <3>1. WithPuts(P)[k] = store[k]
      BY <2>1, PutsAt
    <3> QED
      BY <3>1 DEF RowsFit
  <2>2. CASE \E p \in P : p.at = k
    <3>1. PICK q \in P : q.at = k /\ WithPuts(P)[k] = q.row
      BY <2>2, PutsAt
    <3> QED
      BY <3>1 DEF FittingPut
  <2> QED
    BY <2>1, <2>2
<1>2. \A k \in RowKey : WithPuts(P)[k] \in Row
  BY <1>1 DEF RowFits
<1>3. WithPuts(P) \in [RowKey -> Row]
  <2> DEFINE f == WithPuts(P)
  <2>1. f = [k \in RowKey |-> f[k]]
    BY DEF WithPuts
  <2> HIDE DEF f
  <2> QED
    BY <1>2, <2>1 DEF f
<1> QED
  BY <1>1, <1>3 DEF RowsFit

(* And so do deletes.                                                      *)
LEMMA WithDeletesFit ==
  ASSUME RowsFit(store), NEW D
  PROVE  RowsFit(WithDeletes(D))
<1>1. NoRow \in Row
  BY DEF NoRow, Row, NoDepth
<1>2. \A k \in RowKey : RowFits(k, WithDeletes(D)[k])
  BY NoRowFits DEF WithDeletes, RowsFit
<1>3. WithDeletes(D) \in [RowKey -> Row]
  BY <1>1 DEF WithDeletes, RowsFit
<1> QED
  BY <1>2, <1>3 DEF RowsFit

(* The shapes hold at the start.                                           *)
LEMMA InitShape ==
  ASSUME Init
  PROVE  Shape
<1>1. RowsFit(store)
  <2>1. NoRow \in Row
    BY DEF NoRow, Row, NoDepth
  <2> QED
    BY <2>1, NoRowFits DEF Init, RowsFit
<1>2. plan \in [Session -> PlanShape]
  BY NoPlanFits DEF Init
<1> QED
  BY <1>1, <1>2 DEF Init, Shape

(* A turn's new queue is a sound one.                                      *)
LEMMA TurnSound ==
  ASSUME Shape, NEW s \in Session, NEW q, Turn(s, q),
         Start(s) \/ Step(s) \/ Stop(s) \/ Look(s)
  PROVE  held'[s] \in {NoRun} \cup SoundQueue
<1>1. \A prior \in Prior(s) : prior \in {NoRun} \cup SoundQueue
  <2>1. held[s] \in {NoRun} \cup SoundQueue
    BY DEF Shape
  <2>2. Load(store) \subseteq {NoRun} \cup SoundQueue
    BY LoadSound DEF Shape
  <2> QED
    BY <2>1, <2>2 DEF Prior
<1>2. \A p : Turn(s, p) => held'[s] = p
  BY DEF Turn, Shape
<1>3. ASSUME Start(s) PROVE held'[s] \in {NoRun} \cup SoundQueue
  <2>1. PICK topic \in Topic : \E p \in StartRun(topic) : Turn(s, p)
    BY <1>3 DEF Start
  <2>2. PICK p \in StartRun(topic) : Turn(s, p)
    BY <2>1
  <2>3. p \in {NoRun} \cup SoundQueue
    BY <2>2, StartSound
  <2> QED
    BY <2>2, <2>3, <1>2
<1>4. ASSUME Step(s) PROVE held'[s] \in {NoRun} \cup SoundQueue
  <2>1. PICK prior \in Prior(s) : HasPending(prior) /\ \E p \in StepRun(prior) : Turn(s, p)
    BY <1>4 DEF Step
  <2>2. PICK p \in StepRun(prior) : Turn(s, p)
    BY <2>1
  <2>3. prior \in SoundQueue /\ prior.pending # <<>>
    BY <1>1, <2>1 DEF HasPending
  <2>4. p \in SoundQueue
    BY <2>2, <2>3, StepSound
  <2> QED
    BY <2>2, <2>4, <1>2
<1>5. ASSUME Stop(s) PROVE held'[s] \in {NoRun} \cup SoundQueue
  <2>1. Turn(s, NoRun)
    BY <1>5 DEF Stop
  <2> QED
    BY <2>1, <1>2
<1>6. ASSUME Look(s) PROVE held'[s] \in {NoRun} \cup SoundQueue
  <2>1. PICK prior \in Prior(s) : Turn(s, prior)
    BY <1>6 DEF Look
  <2> QED
    BY <2>1, <1>1, <1>2
<1> QED
  BY <1>3, <1>4, <1>5, <1>6

(* The four turns differ only in the queue they leave.                     *)
LEMMA TurnShape ==
  ASSUME Shape, NEW s \in Session, Start(s) \/ Step(s) \/ Stop(s) \/ Look(s)
  PROVE  Shape'
<1>1. PICK q : Turn(s, q)
  BY Zenon DEF Start, Step, Stop, Look
<1>2. held'[s] \in {NoRun} \cup SoundQueue
  BY <1>1, TurnSound
<1>3. held' \in [Session -> {NoRun} \cup SoundQueue]
  <2>1. held' = [held EXCEPT ![s] = q] /\ held'[s] = q
    BY <1>1 DEF Turn, Shape
  <2> QED
    BY <1>2, <2>1 DEF Shape
<1>4. pc' \in [Session -> {"idle", "saving", "putting", "deleting"}]
  BY <1>1 DEF Turn, Shape
<1> QED
  BY <1>1, <1>3, <1>4 DEF Turn, Shape

(* A batch that lands fitting rows keeps the store and the history fit.    *)
LEMMA LandedShape ==
  ASSUME Shape, NEW s \in Session, NEW rows, RowsFit(rows), Landed(s, rows)
  PROVE  RowsFit(store') /\ behind' \in [Session -> SUBSET RowKey]
  BY DEF Landed, Shape

(* A save cut short has written fitting rows.                              *)
LEMMA FailureLands ==
  ASSUME Shape, NEW s \in Session, SaveFails(s)
  PROVE  \E rows : RowsFit(rows) /\ Landed(s, rows)
<1>1. RowsFit(store) /\ plan[s].puts \subseteq FittingPut
  <2>1. plan[s] \in PlanShape
    BY DEF Shape
  <2> QED
    BY <2>1 DEF Shape, PlanShape
<1>2. CASE pc[s] = "putting"
  <2>1. PICK P \in Batches(plan[s].puts) : \E Q \in SUBSET P : Landed(s, WithPuts(Q))
    BY <1>2 DEF SaveFails
  <2>2. PICK Q \in SUBSET P : Landed(s, WithPuts(Q))
    BY <2>1
  <2>3. Q \in SUBSET FittingPut
    BY <1>1, <2>1, <2>2, BatchesFit
  <2> QED
    BY <1>1, <2>2, <2>3, WithPutsFit
<1>3. CASE pc[s] # "putting"
  <2>1. PICK D \in SUBSET plan[s].deletes : Landed(s, WithDeletes(D))
    BY <1>3 DEF SaveFails
  <2> QED
    BY <1>1, <2>1, WithDeletesFit
<1> QED
  BY <1>2, <1>3

(* So does every step of a save, a failed one and a restart.               *)
LEMMA SaveShape ==
  ASSUME Shape, NEW s \in Session, Save(s) \/ SaveFails(s) \/ Restart(s)
  PROVE  Shape'
<1>1. /\ held[s] \in {NoRun} \cup SoundQueue
      /\ plan[s] \in PlanShape /\ RowsFit(store)
      /\ plan[s].puts \subseteq FittingPut
  BY DEF Shape, PlanShape
<1>2. ASSUME SaveRead(s) PROVE Shape'
  <2>1. SavePlan(held[s]) \in PlanShape
    BY <1>1, SavePlanFits
  <2> QED
    BY <1>2, <2>1 DEF SaveRead, Shape
<1>3. ASSUME SavePut(s) PROVE Shape'
  <2>1. PICK P \in Batches(plan[s].puts) : Landed(s, WithPuts(P))
    BY <1>3 DEF SavePut
  <2>2. P \in SUBSET FittingPut
    BY <1>1, <2>1, BatchesFit
  <2>3. RowsFit(WithPuts(P))
    BY <1>1, <2>2, WithPutsFit
  <2>4. RowsFit(store') /\ behind' \in [Session -> SUBSET RowKey]
    BY <2>1, <2>3, LandedShape
  <2> QED
    BY <1>3, <2>4 DEF SavePut, Shape, RowsFit, Overtaken
<1>4. ASSUME SaveDelete(s) PROVE Shape'
  <2>1. RowsFit(WithDeletes(plan[s].deletes))
    BY <1>1, WithDeletesFit
  <2>2. RowsFit(store') /\ behind' \in [Session -> SUBSET RowKey]
    BY <1>4, <2>1, LandedShape DEF SaveDelete
  <2> QED
    BY <1>4, <2>2, NoPlanFits DEF SaveDelete, Shape, RowsFit, Overtaken
<1>5. ASSUME SaveFails(s) PROVE Shape'
  <2>1. PICK rows : RowsFit(rows) /\ Landed(s, rows)
    BY <1>5, FailureLands
  <2>2. RowsFit(store') /\ behind' \in [Session -> SUBSET RowKey]
    BY <2>1, LandedShape
  <2> QED
    BY <1>5, <2>2, NoPlanFits DEF SaveFails, Shape, RowsFit
<1>6. ASSUME Restart(s) PROVE Shape'
  BY <1>6, NoPlanFits DEF Restart, Shape, RowsFit
<1> QED
  BY <1>2, <1>3, <1>4, <1>5, <1>6 DEF Save

(* Every step keeps the shapes.                                            *)
LEMMA NextShape ==
  ASSUME Shape, [Next]_vars
  PROVE  Shape'
<1>1. CASE UNCHANGED vars
  BY <1>1 DEF vars, Shape, RowsFit
<1>2. ASSUME NEW s \in Session, Start(s) \/ Step(s) \/ Stop(s) \/ Look(s) PROVE Shape'
  BY <1>2, TurnShape
<1>3. ASSUME NEW s \in Session, Save(s) \/ SaveFails(s) \/ Restart(s) PROVE Shape'
  BY <1>3, SaveShape
<1> QED
  BY <1>1, <1>2, <1>3 DEF Next

(* So they always hold.                                                    *)
LEMMA ShapeAlways == Spec => []Shape
<1>1. Shape /\ [Next]_vars => Shape'
  BY NextShape
<1> QED
  BY InitShape, <1>1, PTL DEF Spec

(* Queues, rows and plans keep their types.                                *)
THEOREM QueueTypes == Spec => []TypeOK
<1>1. ASSUME Shape PROVE TypeOK
  <2>1. \A s \in Session : held[s] = NoRun \/ held[s] \in Queue
    BY <1>1 DEF Shape, SoundQueue
  <2>2. ASSUME NEW s \in Session
        PROVE  /\ plan[s].puts \subseteq [at: RowKey, row: Row]
               /\ plan[s].deletes \subseteq RowKey
    <3>1. plan[s] \in PlanShape
      BY <1>1 DEF Shape
    <3> QED
      BY <3>1 DEF PlanShape, FittingPut
  <2> QED
    BY <1>1, <2>1, <2>2 DEF Shape, RowsFit, TypeOK
<1> QED
  BY ShapeAlways, <1>1, PTL

-----------------------------------------------------------------------------
(* What a save leaves alone.                                               *)

(* A save in progress puts no waiting row over a finished one of its run,  *)
(* deletes none, and deletes nothing it puts; but for those finished since *)
(* it read the rows.                                                       *)
Guarded(s) ==
  held[s] # NoRun /\ pc[s] \in {"putting", "deleting"} =>
    /\ \A k \in plan[s].deletes :
         k.run = held[s].key /\ Settled(store[k]) => k \in behind[s]
    /\ pc[s] = "putting" =>
         /\ \A p \in plan[s].puts : p.at.run = held[s].key /\ p.at \notin plan[s].deletes
         /\ \A p \in plan[s].puts :
              Settled(store[p.at]) => Settled(p.row) \/ p.at \in behind[s]

Careful == Shape /\ \A s \in Session : Guarded(s)

(* The plan a save makes is careful of the rows it has just read.          *)
LEMMA PlanGuards ==
  ASSUME RowsFit(store), NEW q \in SoundQueue, q # NoRun
  PROVE  /\ \A k \in SavePlan(q).deletes : k.run = q.key => ~Settled(store[k])
         /\ \A p \in SavePlan(q).puts :
              /\ p.at.run = q.key /\ p.at \notin SavePlan(q).deletes
              /\ Settled(store[p.at]) => Settled(p.row)
<1> DEFINE puts == {p \in QueueRows(q) : p.row.status = "pending" => p.at \notin SettledOf(q)}
           kept == {p.at : p \in puts}
           deletes == {k \in Stored \ (kept \cup SettledOf(q)) :
                         k.run # q.key \/ k.entry # RunRow}
<1>1. SavePlan(q).puts = puts /\ SavePlan(q).deletes = deletes
  BY DEF SavePlan
<1>2. ASSUME NEW k \in deletes, k.run = q.key PROVE ~Settled(store[k])
  BY <1>2 DEF SettledOf
<1>3. ASSUME NEW p \in puts
      PROVE  /\ p.at.run = q.key /\ p.at \notin deletes
             /\ Settled(store[p.at]) => Settled(p.row)
  <2>1. p \in FittingPut /\ p.at.run = q.key /\ p.at \notin deletes
    BY QueueRowsFit
  <2>2. p.at \in RowKey /\ RowFits(p.at, p.row) /\ RowFits(p.at, store[p.at])
    BY <2>1 DEF FittingPut, RowsFit
  <2>3. ASSUME Settled(store[p.at]) PROVE Settled(p.row)
    <3>1. store[p.at] # NoRow
      BY <2>3 DEF Settled, NoRow
    <3>2. p.at \in SettledOf(q)
      BY <2>1, <2>2, <2>3, <3>1 DEF SettledOf, Stored
    <3>3. p.row.status # "pending"
      BY <3>2
    <3>4. p.row.status # "none"
      BY <2>1, <2>2 DEF FittingPut, RowFits
    <3>5. p.row.status # "run"
      BY <2>2, <2>3, <3>1 DEF RowFits, Settled
    <3>6. p.row.status \in {"none", "run", "pending", "done", "skipped"}
      BY <2>2 DEF RowFits, Row
    <3> QED
      BY <3>3, <3>4, <3>5, <3>6 DEF Settled
  <2> QED
    BY <2>1, <2>3
<1> QED
  BY <1>1, <1>2, <1>3

(* What s writes leaves every other save guarded: what it finishes is      *)
(* noted as finished behind the other's back.                              *)
LEMMA OthersStayGuarded ==
  ASSUME Shape, NEW s \in Session, NEW r \in Session \ {s}, Guarded(r),
         NEW rows, RowsFit(rows), Landed(s, rows),
         held'[r] = held[r], pc'[r] = pc[r], plan'[r] = plan[r]
  PROVE  Guarded(r)'
<1> SUFFICES ASSUME held[r] # NoRun, pc[r] \in {"putting", "deleting"}
             PROVE  Guarded(r)'
  BY DEF Guarded
<1>1. /\ store' = rows
      /\ behind'[r] = behind[r] \cup {k \in RowKey : Settled(rows[k]) /\ rows[k] # store[k]}
  BY DEF Landed
<1>2. \A k \in RowKey : Settled(store'[k]) => k \in behind'[r] \/ Settled(store[k])
  BY <1>1
<1>3. plan[r] \in PlanShape
  BY DEF Shape
<1>4. plan[r].deletes \subseteq RowKey /\ \A p \in plan[r].puts : p.at \in RowKey
  BY <1>3 DEF PlanShape, FittingPut
<1> QED
  BY <1>1, <1>2, <1>4 DEF Guarded

(* Every step keeps every save guarded.                                    *)
LEMMA NextCareful ==
  ASSUME Careful, [Next]_vars
  PROVE  Careful'
<1>1. Shape /\ Shape'
  BY NextShape DEF Careful
<1>2. CASE UNCHANGED vars
  BY <1>2, <1>1 DEF vars, Careful, Guarded
<1> SUFFICES ASSUME NEW s \in Session, NEW r \in Session,
                    \/ Start(s) \/ Step(s) \/ Stop(s) \/ Look(s)
                    \/ Save(s) \/ SaveFails(s) \/ Restart(s)
             PROVE  Guarded(r)'
  BY <1>1, <1>2 DEF Next, Careful
<1>3. Guarded(r) /\ Guarded(s)
  BY DEF Careful
<1>4. /\ held[s] \in {NoRun} \cup SoundQueue
      /\ plan[s] \in PlanShape /\ RowsFit(store)
      /\ plan[s].puts \subseteq FittingPut
  BY <1>1 DEF Shape, PlanShape
<1>5. CASE Start(s) \/ Step(s) \/ Stop(s) \/ Look(s)
  <2>1. PICK q : Turn(s, q)
    BY <1>5, Zenon DEF Start, Step, Stop, Look
  <2>2. pc'[s] = "saving" /\ (r # s => held'[r] = held[r] /\ pc'[r] = pc[r])
    BY <2>1, <1>1 DEF Turn, Shape
  <2>3. UNCHANGED <<store, plan, behind>>
    BY <2>1 DEF Turn
  <2> QED
    BY <1>3, <2>2, <2>3 DEF Guarded
<1>6. CASE SaveRead(s)
  <2>1. CASE r # s
    <3>1. /\ held'[r] = held[r] /\ pc'[r] = pc[r] /\ plan'[r] = plan[r]
          /\ behind'[r] = behind[r] /\ store' = store
      BY <1>6, <2>1, <1>1 DEF SaveRead, Shape
    <3> QED
      BY <1>3, <3>1 DEF Guarded
  <2>2. CASE r = s /\ held[s] # NoRun
    <3>1. /\ held'[s] = held[s] /\ plan'[s] = SavePlan(held[s]) /\ store' = store
      BY <1>6, <1>1 DEF SaveRead, Shape
    <3>2. held[s] \in SoundQueue
      BY <1>4, <2>2
    <3> QED
      BY <1>4, <2>2, <3>1, <3>2, PlanGuards DEF Guarded
  <2>3. CASE r = s /\ held[s] = NoRun
    BY <1>6, <2>3 DEF SaveRead, Guarded
  <2> QED
    BY <2>1, <2>2, <2>3
<1>7. CASE SavePut(s)
  <2>1. PICK P \in Batches(plan[s].puts) : Landed(s, WithPuts(P))
    BY <1>7 DEF SavePut
  <2>2. P \subseteq plan[s].puts /\ P \in SUBSET FittingPut
    BY <1>4, <2>1, BatchesFit
  <2>3. RowsFit(WithPuts(P))
    BY <1>4, <2>2, WithPutsFit
  <2>4. CASE r # s
    <3>1. held'[r] = held[r] /\ pc'[r] = pc[r] /\ plan'[r] = plan[r] /\ r \in Session \ {s}
      BY <1>7, <2>4, <1>1 DEF SavePut, Shape
    <3> QED
      BY <1>1, <1>3, <2>1, <2>3, <3>1, OthersStayGuarded
  <2>5. CASE r = s /\ held[s] # NoRun
    <3>1. /\ held'[s] = held[s] /\ plan'[s] = plan[s] /\ pc'[s] = "deleting" /\ pc[s] = "putting"
          /\ behind'[s] = behind[s] /\ store' = WithPuts(P)
      BY <1>7, <2>1, <1>1 DEF SavePut, Landed, Shape
    <3>2. ASSUME NEW k \in plan[s].deletes PROVE store'[k] = store[k]
      <4>1. k \in RowKey
        BY <1>4 DEF PlanShape
      <4>2. \A p \in P : p.at # k
        BY <1>3, <2>2, <2>5, <3>1 DEF Guarded
      <4> QED
        BY <3>1, <4>1, <4>2, PutsAt
    <3> QED
      BY <1>3, <2>5, <3>1, <3>2 DEF Guarded
  <2>6. CASE r = s /\ held[s] = NoRun
    BY <1>7, <2>6 DEF SavePut, Guarded
  <2> QED
    BY <2>4, <2>5, <2>6
<1>8. CASE SaveDelete(s) \/ SaveFails(s)
  <2>1. pc'[s] = "idle"
    BY <1>8, <1>1 DEF SaveDelete, SaveFails, Shape
  <2>2. PICK rows : RowsFit(rows) /\ Landed(s, rows)
    <3>1. CASE SaveDelete(s)
      BY <1>4, <3>1, WithDeletesFit DEF SaveDelete
    <3>2. CASE SaveFails(s)
      BY <1>1, <3>2, FailureLands
    <3> QED
      BY <1>8, <3>1, <3>2
  <2>3. CASE r # s
    <3>1. held'[r] = held[r] /\ pc'[r] = pc[r] /\ plan'[r] = plan[r] /\ r \in Session \ {s}
      BY <1>8, <2>3, <1>1 DEF SaveDelete, SaveFails, Shape
    <3> QED
      BY <1>1, <1>3, <2>2, <3>1, OthersStayGuarded
  <2>4. CASE r = s
    BY <2>1, <2>4 DEF Guarded
  <2> QED
    BY <2>3, <2>4
<1>9. CASE Restart(s)
  <2>1. CASE r # s
    <3>1. /\ held'[r] = held[r] /\ pc'[r] = pc[r] /\ plan'[r] = plan[r]
          /\ behind'[r] = behind[r] /\ store' = store
      BY <1>9, <2>1, <1>1 DEF Restart, Shape
    <3> QED
      BY <1>3, <3>1 DEF Guarded
  <2>2. CASE r = s
    BY <1>9, <2>2, <1>1 DEF Restart, Shape, Guarded
  <2> QED
    BY <2>1, <2>2
<1> QED
  BY <1>5, <1>6, <1>7, <1>8, <1>9 DEF Save

(* So they are guarded always.                                             *)
LEMMA CarefulAlways == Spec => []Careful
<1>1. ASSUME Init PROVE Careful
  <2>1. \A s \in Session : Guarded(s)
    BY <1>1 DEF Init, Guarded
  <2> QED
    BY <1>1, <2>1, InitShape DEF Careful
<1>2. Careful /\ [Next]_vars => Careful'
  BY NextCareful
<1> QED
  BY <1>1, <1>2, PTL DEF Spec

(* No batch of a guarded save takes a finished row back.                   *)
LEMMA PutsGoForward ==
  ASSUME Careful, NEW s \in Session, held[s] # NoRun, pc[s] = "putting",
         NEW P \in SUBSET plan[s].puts,
         NEW k \in RowKey, Settled(store[k]), ~Settled(WithPuts(P)[k])
  PROVE  k \in behind[s]
<1>1. PICK p \in P : p.at = k /\ WithPuts(P)[k] = p.row
  BY PutsAt
<1>2. Guarded(s)
  BY DEF Careful
<1> QED
  BY <1>1, <1>2 DEF Guarded

(* None of its deletes does either.                                        *)
LEMMA DeletesGoForward ==
  ASSUME Careful, NEW s \in Session, held[s] # NoRun, pc[s] \in {"putting", "deleting"},
         NEW D \in SUBSET plan[s].deletes,
         NEW k \in RowKey, held[s].key = k.run,
         Settled(store[k]), ~Settled(WithDeletes(D)[k])
  PROVE  k \in behind[s]
<1>1. k \in D
  BY DEF WithDeletes
<1>2. Guarded(s)
  BY DEF Careful
<1> QED
  BY <1>1, <1>2 DEF Guarded

(* A step that moves a save of a run takes nothing finished in it back.    *)
LEMMA StepsGoForward ==
  ASSUME Careful, Next, NEW s \in Session, NEW k \in RowKey,
         pc[s] \in {"putting", "deleting"}, pc'[s] # pc[s],
         held[s] # NoRun, held[s].key = k.run,
         Settled(store[k]), ~Settled(store'[k])
  PROVE  k \in behind[s]
<1>1. Shape
  BY DEF Careful
<1>2. PICK r \in Session :
        Start(r) \/ Step(r) \/ Stop(r) \/ Look(r) \/ Save(r) \/ SaveFails(r) \/ Restart(r)
  BY DEF Next
<1>3. store' # store
  OBVIOUS
<1>4. Save(r) \/ SaveFails(r)
  <2>1. Start(r) \/ Step(r) \/ Stop(r) \/ Look(r) => store' = store
    BY DEF Start, Step, Stop, Look, Turn
  <2>2. Restart(r) => store' = store
    BY DEF Restart
  <2> QED
    BY <1>2, <1>3, <2>1, <2>2
<1>5. r = s
  BY <1>1, <1>4 DEF Save, SaveRead, SavePut, SaveDelete, SaveFails, Shape
<1>6. CASE SavePut(s)
  <2>1. PICK P \in Batches(plan[s].puts) : Landed(s, WithPuts(P))
    BY <1>6 DEF SavePut
  <2>2. P \in SUBSET plan[s].puts /\ store' = WithPuts(P) /\ pc[s] = "putting"
    BY <1>6, <2>1, BatchesFit DEF Landed, SavePut
  <2> QED
    BY <2>2, PutsGoForward
<1>7. CASE SaveDelete(s)
  <2>1. store' = WithDeletes(plan[s].deletes)
    BY <1>7 DEF SaveDelete, Landed
  <2> QED
    BY <2>1, DeletesGoForward
<1>8. CASE SaveFails(s) /\ pc[s] = "putting"
  <2>1. PICK P \in Batches(plan[s].puts) : \E Q \in SUBSET P : Landed(s, WithPuts(Q))
    BY <1>8 DEF SaveFails
  <2>2. PICK Q \in SUBSET P : Landed(s, WithPuts(Q))
    BY <2>1
  <2>3. Q \in SUBSET plan[s].puts /\ store' = WithPuts(Q)
    BY <2>1, <2>2, BatchesFit DEF Landed
  <2> QED
    BY <1>8, <2>3, PutsGoForward
<1>9. CASE SaveFails(s) /\ pc[s] # "putting"
  <2>1. PICK D \in SUBSET plan[s].deletes : Landed(s, WithDeletes(D))
    BY <1>9 DEF SaveFails
  <2>2. store' = WithDeletes(D)
    BY <2>1 DEF Landed
  <2> QED
    BY <2>2, DeletesGoForward
<1>10. ~SaveRead(s)
  BY <1>3 DEF SaveRead
<1> QED
  BY <1>4, <1>5, <1>6, <1>7, <1>8, <1>9, <1>10 DEF Save

(* No save of a run, whole or cut short, takes a finished title back or    *)
(* away, unless it was finished after that save had read the rows.         *)
THEOREM SavesGoForward == Spec => ForwardUnlessRaced
<1> DEFINE Forward ==
      \A s \in Session, k \in RowKey :
       /\ pc[s] \in {"putting", "deleting"} /\ pc'[s] # pc[s]
       /\ held[s] # NoRun /\ held[s].key = k.run
       /\ Settled(store[k]) /\ ~Settled(store'[k])
       => k \in behind[s]
<1>1. Careful /\ [Next]_vars => [Forward]_<<store, pc>>
  <2> SUFFICES ASSUME Careful, [Next]_vars PROVE Forward \/ UNCHANGED <<store, pc>>
    OBVIOUS
  <2>1. CASE Next
    BY <2>1, StepsGoForward
  <2>2. CASE UNCHANGED vars
    BY <2>2 DEF vars
  <2> QED
    BY <2>1, <2>2
<1>2. ForwardUnlessRaced <=> [][Forward]_<<store, pc>>
  BY PTL DEF ForwardUnlessRaced
<1> HIDE DEF Forward
<1> QED
  BY CarefulAlways, <1>1, <1>2, PTL DEF Spec

-----------------------------------------------------------------------------
(* What an undisturbed save leaves in the store.                           *)

(* No title stands in two places of the queue's lists.                     *)
Apart(q) ==
  /\ \A i, j \in DOMAIN q.pending : q.pending[i] = q.pending[j] => i = j
  /\ \A i, j \in DOMAIN q.skipped : q.skipped[i] = q.skipped[j] => i = j
  /\ \A i, j \in DOMAIN q.done : q.done[i].title = q.done[j].title => i = j
  /\ \A i \in DOMAIN q.pending : \A j \in DOMAIN q.skipped : q.pending[i] # q.skipped[j]
  /\ \A i \in DOMAIN q.pending : \A j \in DOMAIN q.done : q.pending[i] # q.done[j].title
  /\ \A i \in DOMAIN q.skipped : \A j \in DOMAIN q.done : q.skipped[i] # q.done[j].title

(* That is what an injective list of the three says.                       *)
LEMMA InjectiveIsApart ==
  ASSUME NEW q \in SoundQueue, IsInjective(Listed(q))
  PROVE  Apart(q)
<1> DEFINE a == q.pending
           b == q.skipped
           c == [i \in DOMAIN q.done |-> q.done[i].title]
           L == Listed(q)
<1>1. a \in Seq(Title) /\ b \in Seq(Title) /\ q.done \in Seq([title: Title, depth: 0..MaxDepth])
  BY DEF SoundQueue, Queue
<1>2. c \in Seq(Title) /\ Len(c) = Len(q.done)
  <2>1. DOMAIN q.done = 1..Len(q.done) /\ Len(q.done) \in Nat
    BY <1>1, LenProperties
  <2>2. \A i \in 1..Len(q.done) : q.done[i].title \in Title
    <3>1. \A i \in 1..Len(q.done) : q.done[i] \in [title: Title, depth: 0..MaxDepth]
      BY <1>1, ElementOfSeq
    <3> QED
      BY <3>1
  <2>3. c \in [1..Len(q.done) -> Title]
    BY <2>1, <2>2
  <2> HIDE DEF c
  <2>4. c \in Seq(Title)
    BY <2>1, <2>3, SeqDef
  <2> QED
    BY <2>1, <2>3, <2>4, LenProperties
<1>3. DOMAIN q.done = DOMAIN c /\ \A i \in DOMAIN c : q.done[i].title = c[i]
  OBVIOUS
<1>4. L = a \o b \o c
  BY DEF Listed
<1>5. \A i, j \in DOMAIN L : L[i] = L[j] => i = j
  BY DEF IsInjective
<1> DEFINE ab == a \o b
<1>6. /\ ab \in Seq(Title) /\ Len(ab) = Len(a) + Len(b)
      /\ \A i \in 1..Len(a) + Len(b) : ab[i] = IF i <= Len(a) THEN a[i] ELSE b[i - Len(a)]
  BY <1>1, ConcatProperties
<1>7. /\ Len(a) \in Nat /\ DOMAIN a = 1..Len(a) /\ Len(b) \in Nat /\ DOMAIN b = 1..Len(b)
      /\ Len(c) \in Nat /\ DOMAIN c = 1..Len(c)
  BY <1>1, <1>2, LenProperties
<1> HIDE DEF a, b, c, L
<1>8. /\ DOMAIN L = 1..Len(a) + Len(b) + Len(c)
      /\ \A i \in 1..Len(ab) + Len(c) : L[i] = IF i <= Len(ab) THEN ab[i] ELSE c[i - Len(ab)]
  <2> HIDE DEF ab
  <2>1. L = ab \o c
    BY <1>4 DEF ab
  <2>2. /\ ab \o c \in Seq(Title) /\ Len(ab \o c) = Len(ab) + Len(c)
        /\ \A i \in 1..Len(ab) + Len(c) :
             (ab \o c)[i] = IF i <= Len(ab) THEN ab[i] ELSE c[i - Len(ab)]
    <3>1. ab \in Seq(Title) /\ c \in Seq(Title)
      BY <1>2, <1>6
    <3> QED
      BY <3>1, ConcatProperties, Zenon
  <2>3. DOMAIN L = 1..Len(L)
    BY <2>1, <2>2, LenProperties
  <2> QED
    BY <1>6, <2>1, <2>2, <2>3
<1> HIDE DEF ab
<1>9. /\ \A i \in DOMAIN a : i \in DOMAIN L /\ L[i] = a[i]
      /\ \A i \in DOMAIN b : i + Len(a) \in DOMAIN L /\ L[i + Len(a)] = b[i]
      /\ \A i \in DOMAIN c : i + Len(a) + Len(b) \in DOMAIN L /\ L[i + Len(a) + Len(b)] = c[i]
  <2>1. ASSUME NEW i \in DOMAIN a PROVE i \in DOMAIN L /\ L[i] = a[i]
    <3>1. i \in 1..Len(ab) + Len(c) /\ i <= Len(ab) /\ i \in 1..Len(a) + Len(b) /\ i <= Len(a)
      BY <1>6, <1>7
    <3> QED
      BY <1>6, <1>7, <1>8, <3>1
  <2>2. ASSUME NEW i \in DOMAIN b
        PROVE  i + Len(a) \in DOMAIN L /\ L[i + Len(a)] = b[i]
    <3> DEFINE j == i + Len(a)
    <3>1. /\ j \in 1..Len(ab) + Len(c) /\ j <= Len(ab) /\ j \in 1..Len(a) + Len(b)
          /\ ~(j <= Len(a)) /\ j - Len(a) = i
      BY <1>6, <1>7
    <3> HIDE DEF j
    <3>2. L[j] = ab[j] /\ ab[j] = b[j - Len(a)]
      BY <1>6, <1>8, <3>1
    <3>3. j \in DOMAIN L
      BY <1>6, <1>8, <3>1
    <3> QED
      BY <3>1, <3>2, <3>3 DEF j
  <2>3. ASSUME NEW i \in DOMAIN c
        PROVE  i + Len(a) + Len(b) \in DOMAIN L /\ L[i + Len(a) + Len(b)] = c[i]
    <3> DEFINE j == i + Len(a) + Len(b)
    <3>1. j \in 1..Len(ab) + Len(c) /\ ~(j <= Len(ab)) /\ j - Len(ab) = i
      BY <1>6, <1>7
    <3> HIDE DEF j
    <3>2. L[j] = c[j - Len(ab)]
      BY <1>8, <3>1
    <3>3. j \in DOMAIN L
      BY <1>6, <1>8, <3>1
    <3> QED
      BY <3>1, <3>2, <3>3 DEF j
  <2> QED
    BY <2>1, <2>2, <2>3
<1>10. /\ \A i, j \in DOMAIN a : a[i] = a[j] => i = j
       /\ \A i, j \in DOMAIN b : b[i] = b[j] => i = j
       /\ \A i, j \in DOMAIN c : c[i] = c[j] => i = j
  BY <1>5, <1>7, <1>9
<1>11. /\ \A i \in DOMAIN a : \A j \in DOMAIN b : a[i] # b[j]
       /\ \A i \in DOMAIN a : \A j \in DOMAIN c : a[i] # c[j]
       /\ \A i \in DOMAIN b : \A j \in DOMAIN c : b[i] # c[j]
  BY <1>5, <1>7, <1>9
<1> QED
  BY <1>3, <1>10, <1>11 DEF Apart, a, b

(* Then no two of its rows are for one key.                                *)
LEMMA OneRowEach ==
  ASSUME NEW q \in SoundQueue, Apart(q),
         NEW p \in QueueRows(q), NEW r \in QueueRows(q), p.at = r.at
  PROVE  p = r
<1>1. /\ \A i \in DOMAIN q.pending : q.pending[i] # RunRow
      /\ \A i \in DOMAIN q.skipped : q.skipped[i] # RunRow
      /\ \A i \in DOMAIN q.done : q.done[i].title # RunRow
  <2>1. /\ q.pending \in Seq(Title) /\ q.skipped \in Seq(Title)
        /\ q.done \in Seq([title: Title, depth: 0..MaxDepth])
    BY DEF SoundQueue, Queue
  <2>2. \A i \in DOMAIN q.done : q.done[i] \in [title: Title, depth: 0..MaxDepth]
    BY <2>1, LenProperties, ElementOfSeq
  <2> QED
    BY <2>1, <2>2, Numbers
<1>2. p.at.entry = r.at.entry
  OBVIOUS
<1>3. /\ RunPut(q).at.entry = RunRow
      /\ \A key, entry, row : Put(key, entry, row).at.entry = entry
  BY DEF RunPut, Put, At
<1>4. CASE p = RunPut(q)
  BY <1>1, <1>2, <1>3, <1>4, QueueRowCases
<1>5. ASSUME NEW i \in DOMAIN q.pending,
             p = Put(q.key, q.pending[i], EntryRow("pending", i, q.depths[q.pending[i]]))
      PROVE  p = r
  BY <1>1, <1>2, <1>3, <1>5, QueueRowCases DEF Apart
<1>6. ASSUME NEW i \in DOMAIN q.done, p = Put(q.key, q.done[i].title, DoneRow(q, i))
      PROVE  p = r
  BY <1>1, <1>2, <1>3, <1>6, QueueRowCases DEF Apart
<1>7. ASSUME NEW i \in DOMAIN q.skipped,
             p = Put(q.key, q.skipped[i], EntryRow("skipped", i, NoDepth))
      PROVE  p = r
  BY <1>1, <1>2, <1>3, <1>7, QueueRowCases DEF Apart
<1> QED
  BY <1>4, <1>5, <1>6, <1>7, QueueRowCases

(* The rows are those of the queue, but for titles finished by others and  *)
(* finished titles that the queue does not hold.                           *)
Mirrors(rows, q) ==
  /\ \A k \in Topic \ {q.key} : rows[At(k, RunRow)] = NoRow
  /\ rows[At(q.key, RunRow)] = RunPut(q).row
  /\ \A i \in DOMAIN q.done : rows[At(q.key, q.done[i].title)] = DoneRow(q, i)
  /\ \A i \in DOMAIN q.skipped :
       rows[At(q.key, q.skipped[i])] = EntryRow("skipped", i, NoDepth)
  /\ \A i \in DOMAIN q.pending :
       \/ rows[At(q.key, q.pending[i])] = EntryRow("pending", i, q.depths[q.pending[i]])
       \/ Settled(rows[At(q.key, q.pending[i])])
  /\ \A t \in Title \ ToSet(q.pending) : rows[At(q.key, t)].status # "pending"

(* The rows once D is deleted.                                             *)
Without(rows, D) == [k \in RowKey |-> IF k \in D THEN NoRow ELSE rows[k]]

(* A save that meets no other leaves the queue's own rows.                 *)
LEMMA SavedMirrors ==
  ASSUME RowsFit(store), NEW q \in SoundQueue, q # NoRun, Apart(q),
         NEW P \in Batches(SavePlan(q).puts)
  PROVE  Mirrors(Without(WithPuts(P), SavePlan(q).deletes), q)
<1> DEFINE puts == {p \in QueueRows(q) : p.row.status = "pending" => p.at \notin SettledOf(q)}
           kept == {p.at : p \in puts}
           deletes == {k \in Stored \ (kept \cup SettledOf(q)) :
                         k.run # q.key \/ k.entry # RunRow}
           rows == Without(WithPuts(P), deletes)
<1>1. SavePlan(q).puts = puts /\ SavePlan(q).deletes = deletes
  BY DEF SavePlan
<1>2. /\ q.key \in Topic /\ q.pending \in Seq(Title) /\ q.skipped \in Seq(Title)
      /\ q.done \in Seq([title: Title, depth: 0..MaxDepth])
  BY DEF SoundQueue, Queue
<1>3. \A key \in Topic : \A t \in Title \cup {RunRow} :
        At(key, t) \in RowKey /\ At(key, t).run = key /\ At(key, t).entry = t
  BY DEF At, RowKey
<1>4. ASSUME NEW p \in puts PROVE rows[p.at] = p.row
  <2>1. p \in QueueRows(q) /\ p.at \in RowKey
    BY QueueRowsFit DEF FittingPut
  <2>2. PICK r \in P : r.at = p.at
    BY <1>1, BatchesFit
  <2>3. PICK w \in P : w.at = p.at /\ WithPuts(P)[p.at] = w.row
    BY <2>1, <2>2, PutsAt
  <2>4. w \in QueueRows(q)
    BY <1>1, <2>3, BatchesFit
  <2>5. w = p
    BY <2>1, <2>3, <2>4, OneRowEach
  <2>6. p.at \notin deletes
    OBVIOUS
  <2> QED
    BY <2>1, <2>3, <2>5, <2>6 DEF Without
<1>5. ASSUME NEW k \in RowKey, \A p \in puts : p.at # k
      PROVE  rows[k] = IF k \in deletes THEN NoRow ELSE store[k]
  <2>1. \A p \in P : p.at # k
    BY <1>1, <1>5, BatchesFit
  <2>2. WithPuts(P)[k] = store[k]
    BY <2>1, PutsAt
  <2> QED
    BY <2>2 DEF Without
<1>6. \A p \in puts : p \in QueueRows(q) /\ p.at.run = q.key
  BY QueueRowsFit
<1>7. \A p \in QueueRows(q) : p.row.status = "pending" => p.at \in SettledOf(q) \/ p \in puts
  OBVIOUS
<1>8. \A p \in QueueRows(q) : p.row.status # "pending" => p \in puts
  OBVIOUS
<1>9. \A k \in RowKey : store[k] # NoRow => k \in Stored
  BY DEF Stored
<1>10. \A k \in SettledOf(q) :
         k \in RowKey /\ k.run = q.key /\ Settled(store[k]) /\ k \notin deletes
  BY DEF SettledOf, Stored
<1>11. \A k \in Stored :
         /\ k \notin kept /\ k \notin SettledOf(q) /\ (k.run # q.key \/ k.entry # RunRow)
         => k \in deletes
  OBVIOUS
<1>12. \A k : (\A p \in puts : p.at # k) => k \notin kept
  OBVIOUS
<1> HIDE DEF puts, deletes, rows, kept
<1>13. ASSUME NEW k \in Topic \ {q.key} PROVE rows[At(k, RunRow)] = NoRow
  <2>1. At(k, RunRow) \in RowKey /\ At(k, RunRow).run # q.key
    BY <1>3
  <2>2. \A p \in puts : p.at # At(k, RunRow)
    BY <1>6, <2>1
  <2>3. At(k, RunRow) \notin SettledOf(q)
    BY <1>10, <2>1
  <2>4. CASE store[At(k, RunRow)] = NoRow
    BY <1>5, <2>1, <2>2, <2>4
  <2>5. CASE store[At(k, RunRow)] # NoRow
    <3>1. At(k, RunRow) \in deletes
      BY <1>9, <1>11, <1>12, <2>1, <2>2, <2>3, <2>5
    <3> QED
      BY <1>5, <2>1, <2>2, <3>1
  <2> QED
    BY <2>4, <2>5
<1>14. rows[At(q.key, RunRow)] = RunPut(q).row
  <2>1. RunPut(q) \in QueueRows(q)
    BY QueueRowCases
  <2>2. RunPut(q).row.status # "pending" /\ RunPut(q).at = At(q.key, RunRow)
    BY DEF RunPut, Put
  <2>3. RunPut(q) \in puts
    BY <1>8, <2>1, <2>2
  <2> QED
    BY <1>4, <2>2, <2>3
<1>15. ASSUME NEW i \in DOMAIN q.done
       PROVE  rows[At(q.key, q.done[i].title)] = DoneRow(q, i)
  <2> DEFINE p == Put(q.key, q.done[i].title, DoneRow(q, i))
  <2>1. p \in QueueRows(q)
    BY QueueRowCases
  <2>2. p.row = DoneRow(q, i) /\ p.row.status # "pending" /\ p.at = At(q.key, q.done[i].title)
    BY DEF Put, DoneRow, EntryRow
  <2> HIDE DEF p
  <2>3. p \in puts
    BY <1>8, <2>1, <2>2
  <2> QED
    BY <1>4, <2>2, <2>3
<1>16. ASSUME NEW i \in DOMAIN q.skipped
       PROVE  rows[At(q.key, q.skipped[i])] = EntryRow("skipped", i, NoDepth)
  <2> DEFINE p == Put(q.key, q.skipped[i], EntryRow("skipped", i, NoDepth))
  <2>1. p \in QueueRows(q)
    BY QueueRowCases
  <2>2. /\ p.row = EntryRow("skipped", i, NoDepth) /\ p.row.status # "pending"
        /\ p.at = At(q.key, q.skipped[i])
    BY DEF Put, EntryRow
  <2> HIDE DEF p
  <2>3. p \in puts
    BY <1>8, <2>1, <2>2
  <2> QED
    BY <1>4, <2>2, <2>3
<1>17. ASSUME NEW i \in DOMAIN q.pending
       PROVE  \/ rows[At(q.key, q.pending[i])] = EntryRow("pending", i, q.depths[q.pending[i]])
              \/ Settled(rows[At(q.key, q.pending[i])])
  <2> DEFINE p == Put(q.key, q.pending[i], EntryRow("pending", i, q.depths[q.pending[i]]))
  <2>1. p \in QueueRows(q)
    BY QueueRowCases
  <2>2. /\ p.row = EntryRow("pending", i, q.depths[q.pending[i]]) /\ p.row.status = "pending"
        /\ p.at = At(q.key, q.pending[i])
    BY DEF Put, EntryRow
  <2> HIDE DEF p
  <2>3. CASE p \in puts
    BY <1>4, <2>2, <2>3
  <2>4. CASE p \notin puts
    <3>1. p.at \in SettledOf(q)
      BY <1>7, <2>1, <2>2, <2>4
    <3>2. \A r \in puts : r.at # p.at
      BY <1>6, <2>1, <2>4, OneRowEach
    <3>3. rows[p.at] = store[p.at]
      BY <1>5, <1>10, <3>1, <3>2
    <3> QED
      BY <1>10, <2>2, <3>1, <3>3
  <2> QED
    BY <2>3, <2>4
<1>18. ASSUME NEW t \in Title \ ToSet(q.pending)
       PROVE  rows[At(q.key, t)].status # "pending"
  <2>1. At(q.key, t) \in RowKey /\ At(q.key, t).run = q.key /\ At(q.key, t).entry = t
    BY <1>2, <1>3
  <2>2. CASE \E p \in puts : p.at = At(q.key, t)
    <3>1. PICK p \in puts : p.at = At(q.key, t)
      BY <2>2
    <3>2. p \in QueueRows(q) /\ p.at.entry = t
      BY <1>6, <2>1, <3>1
    <3>3. p.row.status # "pending"
      <4>1. \A i \in DOMAIN q.pending : q.pending[i] # t
        BY DEF ToSet
      <4>2. t # RunRow
        BY Numbers
      <4> QED
        BY <3>2, <4>1, <4>2, QueueRowCases DEF RunPut, Put, At, DoneRow, EntryRow
    <3> QED
      BY <1>4, <3>1, <3>3
  <2>3. CASE \A p \in puts : p.at # At(q.key, t)
    <3> DEFINE k == At(q.key, t)
    <3>1. rows[k] = IF k \in deletes THEN NoRow ELSE store[k]
      BY <1>5, <2>1, <2>3
    <3>2. ASSUME store[k].status = "pending" PROVE k \in deletes
      <4>1. k \in Stored
        BY <1>9, <2>1, <3>2 DEF NoRow
      <4>2. k \notin SettledOf(q)
        BY <1>10, <3>2 DEF Settled
      <4> QED
        BY <1>11, <1>12, <2>1, <2>3, <4>1, <4>2, Numbers
    <3> QED
      BY <3>1, <3>2 DEF NoRow
  <2> QED
    BY <2>2, <2>3
<1> QED
  BY <1>1, <1>13, <1>14, <1>15, <1>16, <1>17, <1>18 DEF Mirrors, rows

(* The queue's waiting titles that the rows do not call finished.          *)
Pends(rows, q) ==
  Picked(q.pending, {i \in DOMAIN q.pending : ~Settled(rows[At(q.key, q.pending[i])])})

(* Read back, the waiting rows are the queue's own, in its own order.      *)
LEMMA PendingAgain ==
  ASSUME NEW rows, RowsFit(rows), NEW q \in SoundQueue, Mirrors(rows, q)
  PROVE  Of(rows, q.key, "pending") = Pends(rows, q)
<1> DEFINE kept == {i \in DOMAIN q.pending : ~Settled(rows[At(q.key, q.pending[i])])}
           out == Picked(q.pending, kept)
           W == WithStatus(rows, q.key, "pending")
           E == Earlier(rows, q.key)
           M == Len(out)
<1>1. q.key \in Topic /\ q.pending \in Seq(Title)
  BY DEF SoundQueue, Queue
<1>2. DOMAIN q.pending = 1..Len(q.pending) /\ Len(q.pending) \in Nat
  BY <1>1, LenProperties
<1>3. out \in Seq(Title) /\ Picks(out, q.pending, kept)
  <2>1. kept \in SUBSET (1..Len(q.pending))
    BY <1>2
  <2> HIDE DEF kept
  <2> QED
    BY <1>1, <2>1, PickedPicks
<1>4. ASSUME NEW i \in kept
      PROVE  /\ i \in DOMAIN q.pending /\ q.pending[i] \in W
             /\ rows[At(q.key, q.pending[i])].ord = i
  <2>1. rows[At(q.key, q.pending[i])] = EntryRow("pending", i, q.depths[q.pending[i]])
    BY DEF Mirrors
  <2>2. q.pending[i] \in Title
    BY <1>1
  <2> QED
    BY <2>1, <2>2 DEF EntryRow, WithStatus
<1>5. ASSUME NEW t \in W PROVE \E i \in kept : q.pending[i] = t
  <2>1. t \in Title /\ rows[At(q.key, t)].status = "pending"
    BY DEF WithStatus
  <2>2. PICK i \in DOMAIN q.pending : q.pending[i] = t
    BY <2>1 DEF Mirrors, ToSet
  <2> QED
    BY <2>1, <2>2 DEF Settled
<1>6. ASSUME NEW i \in kept, NEW j \in kept, i < j
      PROVE  <<q.pending[i], q.pending[j]>> \in E
  <2>1. /\ q.pending[i] \in Title /\ q.pending[j] \in Title
        /\ rows[At(q.key, q.pending[i])].ord < rows[At(q.key, q.pending[j])].ord
    BY <1>1, <1>4, <1>6
  <2> QED
    BY <2>1 DEF Earlier
<1>7. W \in SUBSET Title
  BY DEF WithStatus
<1> HIDE DEF kept, W, E
<1>8. IsFiniteSet(W)
  BY <1>7, Numbers, FS_Subset
<1>9. Orders(E, W)
  BY <1>1, <1>7, EarlierOrders DEF E
<1> HIDE DEF out
<1>10. M \in Nat /\ out \in [1..M -> Title]
  BY <1>3, LenProperties
<1> HIDE DEF M
<1>11. PICK place \in [1..M -> kept] :
         /\ \A n \in 1..M : out[n] = q.pending[place[n]]
         /\ \A i \in kept : \E n \in 1..M : place[n] = i
         /\ \A m, n \in 1..M : m < n => place[m] < place[n]
  BY <1>3 DEF Picks, M
<1>12. \A n \in 1..M : place[n] \in kept
  BY <1>11
<1>13. out \in [1..M -> W]
  <2>1. \A n \in 1..M : out[n] \in W
    BY <1>4, <1>11, <1>12
  <2> QED
    BY <1>10, <2>1
<1>14. \A t \in W : \E n \in 1..M : out[n] = t
  BY <1>5, <1>11
<1>15. \A m, n \in 1..M : m < n => <<out[m], out[n]>> \in E
  BY <1>6, <1>11, <1>12
<1>16. out = InOrder(W, E)
  BY <1>8, <1>9, <1>10, <1>13, <1>14, <1>15, ListedOnce
<1> QED
  BY <1>16, Zenon DEF Of, Pends, out, kept, W, E

(* What a store that mirrors a queue resumes.                              *)
Resumes(rows, q) ==
  \E r \in Load(rows) :
    /\ Load(rows) = {r}
    /\ r.key = q.key /\ r.capped = q.capped
    /\ DoneTitles(q) \subseteq DoneTitles(r)
    /\ ToSet(q.skipped) \subseteq ToSet(r.skipped)
    /\ r.pending = Picked(q.pending, {i \in DOMAIN q.pending :
         q.pending[i] \notin DoneTitles(r) \cup ToSet(r.skipped)})
    /\ \A t \in ToSet(r.pending) : r.depths[t] = q.depths[t]

(* Mirrored rows resume the queue.                                         *)
LEMMA MirrorResumes ==
  ASSUME NEW rows, RowsFit(rows), NEW q \in SoundQueue, Mirrors(rows, q)
  PROVE  Resumes(rows, q)
<1> DEFINE r == QueueOf(rows, q.key)
           done == Of(rows, q.key, "done")
           skipped == Of(rows, q.key, "skipped")
           pending == Of(rows, q.key, "pending")
<1>1. /\ q.key \in Topic /\ q.pending \in Seq(Title) /\ q.skipped \in Seq(Title)
      /\ q.done \in Seq([title: Title, depth: 0..MaxDepth])
  BY DEF SoundQueue, Queue
<1>2. rows[At(q.key, RunRow)] =
        [status |-> "run", ord |-> 0, depth |-> NoDepth, capped |-> q.capped]
  BY DEF Mirrors, RunPut, Put
<1>3. Load(rows) = {r}
  <2>1. Runs(rows) = {q.key}
    <3>1. rows[At(q.key, RunRow)] # NoRow
      BY <1>2 DEF NoRow
    <3>2. \A k \in Topic \ {q.key} : rows[At(k, RunRow)] = NoRow
      BY DEF Mirrors
    <3> QED
      BY <1>1, <3>1, <3>2 DEF Runs, At
  <2> QED
    BY <2>1 DEF Load
<1>4. /\ done \in Seq(Title) /\ ToSet(done) = WithStatus(rows, q.key, "done")
      /\ skipped \in Seq(Title) /\ ToSet(skipped) = WithStatus(rows, q.key, "skipped")
      /\ ToSet(pending) = WithStatus(rows, q.key, "pending")
  BY <1>1, OfRuns
<1>5. /\ r.key = q.key /\ r.capped = q.capped /\ r.skipped = skipped /\ r.pending = pending
      /\ r.depths = [t \in Title |-> IF rows[At(q.key, t)].status = "pending"
                                     THEN rows[At(q.key, t)].depth ELSE NoDepth]
      /\ r.done = [i \in DOMAIN done |->
           [title |-> done[i], depth |-> rows[At(q.key, done[i])].depth]]
  BY <1>2, QueueOfIs
<1> HIDE DEF r, done, skipped, pending
<1>6. DoneTitles(r) = WithStatus(rows, q.key, "done")
  <2>1. DOMAIN r.done = DOMAIN done /\ \A i \in DOMAIN done : r.done[i].title = done[i]
    BY <1>5
  <2>2. DoneTitles(r) = {done[i] : i \in DOMAIN done}
    BY <2>1 DEF DoneTitles
  <2> QED
    BY <1>4, <2>2 DEF ToSet
<1>7. DoneTitles(q) \subseteq DoneTitles(r)
  <2>1. ASSUME NEW i \in DOMAIN q.done
        PROVE  q.done[i].title \in WithStatus(rows, q.key, "done")
    <3>1. q.done[i].title \in Title
      <4>1. q.done[i] \in [title: Title, depth: 0..MaxDepth]
        BY <1>1, LenProperties, ElementOfSeq
      <4> QED
        BY <4>1
    <3>2. rows[At(q.key, q.done[i].title)] = DoneRow(q, i)
      BY Zenon DEF Mirrors
    <3>3. rows[At(q.key, q.done[i].title)].status = "done"
      BY <3>2 DEF DoneRow, EntryRow
    <3> QED
      BY <3>1, <3>3 DEF WithStatus
  <2> QED
    BY <1>6, <2>1 DEF DoneTitles
<1>8. ToSet(q.skipped) \subseteq ToSet(r.skipped)
  <2>1. ASSUME NEW i \in DOMAIN q.skipped
        PROVE  q.skipped[i] \in WithStatus(rows, q.key, "skipped")
    <3>1. q.skipped[i] \in Title
      BY <1>1
    <3>2. rows[At(q.key, q.skipped[i])] = EntryRow("skipped", i, NoDepth)
      BY Zenon DEF Mirrors
    <3>3. rows[At(q.key, q.skipped[i])].status = "skipped"
      BY <3>2 DEF EntryRow
    <3> QED
      BY <3>1, <3>3 DEF WithStatus
  <2> QED
    BY <1>4, <1>5, <2>1 DEF ToSet
<1>9. r.pending = Picked(q.pending, {i \in DOMAIN q.pending :
         q.pending[i] \notin DoneTitles(r) \cup ToSet(r.skipped)})
  <2>1. ASSUME NEW i \in DOMAIN q.pending
        PROVE  q.pending[i] \notin DoneTitles(r) \cup ToSet(r.skipped) <=>
               ~Settled(rows[At(q.key, q.pending[i])])
    <3>1. q.pending[i] \in Title
      BY <1>1
    <3> QED
      BY <1>4, <1>5, <1>6, <3>1 DEF WithStatus, Settled
  <2>2. {i \in DOMAIN q.pending : q.pending[i] \notin DoneTitles(r) \cup ToSet(r.skipped)} =
        {i \in DOMAIN q.pending : ~Settled(rows[At(q.key, q.pending[i])])}
    BY <2>1
  <2>3. pending = Pends(rows, q)
    BY PendingAgain DEF pending
  <2> QED
    BY <1>5, <2>2, <2>3, Zenon DEF Pends
<1>10. ASSUME NEW t \in ToSet(r.pending) PROVE r.depths[t] = q.depths[t]
  <2>1. t \in Title /\ rows[At(q.key, t)].status = "pending"
    BY <1>4, <1>5 DEF WithStatus
  <2>2. PICK i \in DOMAIN q.pending : q.pending[i] = t
    BY <2>1 DEF Mirrors, ToSet
  <2>3. rows[At(q.key, t)] = EntryRow("pending", i, q.depths[t])
    BY <2>1, <2>2 DEF Mirrors, Settled
  <2> QED
    BY <1>5, <2>1, <2>3 DEF EntryRow
<1> QED
  BY <1>3, <1>5, <1>7, <1>8, <1>9, <1>10 DEF Resumes

-----------------------------------------------------------------------------

(* rows are what a save of q alone leaves.                                 *)
Fits(rows, q) ==
  IF q = NoRun THEN \A k \in RowKey : rows[k] = NoRow
  ELSE Apart(q) => Mirrors(rows, q)

(* While a session is the last to save, no other save is in progress, and  *)
(* its own is on the way to the rows of its queue.                         *)
Undisturbed(s) ==
  writer = s =>
    /\ \A r \in Session \ {s} : pc[r] \in {"idle", "saving"}
    /\ pc[s] = "putting" => held[s] # NoRun /\ plan[s] = SavePlan(held[s])
    /\ pc[s] = "deleting" => Fits(Without(store, plan[s].deletes), held[s])
    /\ pc[s] = "idle" => Fits(store, held[s])

Resumable == Shape /\ \A s \in Session : Undisturbed(s)

(* Every step keeps an undisturbed save on its way.                        *)
LEMMA NextResumable ==
  ASSUME Resumable, [Next]_vars
  PROVE  Resumable'
<1>1. Shape /\ Shape'
  BY NextShape DEF Resumable
<1>2. CASE UNCHANGED vars
  <2>1. \A s \in Session : SavePlan(held[s])' = SavePlan(held[s])
    BY <1>2 DEF vars, SavePlan, Stored, SettledOf
  <2> QED
    BY <1>1, <1>2, <2>1 DEF vars, Resumable, Undisturbed
<1> SUFFICES ASSUME NEW s \in Session, NEW r \in Session, writer' = r,
                    \/ Start(s) \/ Step(s) \/ Stop(s) \/ Look(s)
                    \/ Save(s) \/ SaveFails(s) \/ Restart(s)
             PROVE  Undisturbed(r)'
  BY <1>1, <1>2 DEF Next, Resumable, Undisturbed
<1>3. Undisturbed(r)
  BY DEF Resumable
<1>4. NoRun # r
  BY ResearchQueueAssumption
<1>5. CASE Start(s) \/ Step(s) \/ Stop(s) \/ Look(s)
  <2>1. PICK q : Turn(s, q)
    BY <1>5, Zenon DEF Start, Step, Stop, Look
  <2>2. /\ pc'[s] = "saving" /\ pc[s] = "idle"
        /\ \A t \in Session \ {s} : held'[t] = held[t] /\ pc'[t] = pc[t]
    BY <2>1, <1>1 DEF Turn, Shape
  <2>3. UNCHANGED <<store, plan, writer>>
    BY <2>1 DEF Turn
  <2>4. CASE r = s
    BY <1>3, <2>2, <2>3, <2>4 DEF Undisturbed
  <2>5. CASE r # s
    <3>1. held'[r] = held[r]
      BY <2>2, <2>5
    <3>2. SavePlan(held[r])' = SavePlan(held[r])
      BY <2>3, <3>1 DEF SavePlan, Stored, SettledOf
    <3> QED
      BY <1>3, <2>2, <2>3, <2>5, <3>1, <3>2 DEF Undisturbed
  <2> QED
    BY <2>4, <2>5
<1>6. CASE SaveRead(s)
  <2>1. r = s /\ \A t \in Session \ {s} : pc[t] \in {"idle", "saving"}
    BY <1>4, <1>6 DEF SaveRead
  <2>2. /\ store' = store /\ held' = held /\ plan'[s] = SavePlan(held[s])
        /\ \A t \in Session \ {s} : pc'[t] = pc[t]
        /\ pc'[s] = IF held[s] = NoRun THEN "deleting" ELSE "putting"
    BY <1>6, <1>1 DEF SaveRead, Shape
  <2>3. CASE held[s] # NoRun
    <3>1. SavePlan(held[s])' = SavePlan(held[s])
      BY <2>2 DEF SavePlan, Stored, SettledOf
    <3> QED
      BY <2>1, <2>2, <2>3, <3>1 DEF Undisturbed
  <2>4. CASE held[s] = NoRun
    <3>1. plan'[s].deletes = Stored
      BY <2>2, <2>4 DEF SavePlan
    <3>2. \A k \in RowKey : Without(store, Stored)[k] = NoRow
      BY DEF Without, Stored
    <3> QED
      BY <2>1, <2>2, <2>4, <3>1, <3>2 DEF Undisturbed, Fits
  <2> QED
    BY <2>3, <2>4
<1>7. CASE SavePut(s)
  <2>1. r = s /\ writer = s
    BY <1>4, <1>7 DEF SavePut, Overtaken
  <2>2. PICK P \in Batches(plan[s].puts) : Landed(s, WithPuts(P))
    BY <1>7 DEF SavePut
  <2>3. /\ held'[s] = held[s] /\ plan'[s] = plan[s] /\ pc'[s] = "deleting" /\ pc[s] = "putting"
        /\ store' = WithPuts(P) /\ \A t \in Session \ {s} : pc'[t] = pc[t]
    BY <1>7, <2>2, <1>1 DEF SavePut, Landed, Shape
  <2>4. held[s] # NoRun /\ plan[s] = SavePlan(held[s])
    BY <1>3, <2>1, <2>3 DEF Undisturbed
  <2>5. held[s] \in SoundQueue /\ RowsFit(store)
    BY <1>1, <2>4 DEF Shape
  <2>6. Apart(held[s]) => Mirrors(Without(WithPuts(P), plan[s].deletes), held[s])
    BY <2>2, <2>4, <2>5, SavedMirrors
  <2>7. Fits(Without(store', plan'[s].deletes), held'[s])
    BY <2>3, <2>4, <2>6 DEF Fits
  <2> QED
    BY <1>3, <2>1, <2>3, <2>7 DEF Undisturbed
<1>8. CASE SaveDelete(s)
  <2>1. r = s /\ writer = s
    BY <1>4, <1>8 DEF SaveDelete, Overtaken
  <2>2. /\ held'[s] = held[s] /\ pc'[s] = "idle" /\ pc[s] = "deleting"
        /\ store' = WithDeletes(plan[s].deletes) /\ \A t \in Session \ {s} : pc'[t] = pc[t]
    BY <1>8, <1>1 DEF SaveDelete, Landed, Shape
  <2>3. store' = Without(store, plan[s].deletes)
    BY <2>2 DEF WithDeletes, Without
  <2> QED
    BY <1>3, <2>1, <2>2, <2>3 DEF Undisturbed
<1>9. CASE SaveFails(s)
  BY <1>4, <1>9 DEF SaveFails
<1>10. CASE Restart(s)
  <2>1. r # s /\ writer = r
    BY <1>4, <1>10 DEF Restart
  <2>2. /\ store' = store /\ held'[r] = held[r] /\ plan'[r] = plan[r]
        /\ pc'[s] = "idle" /\ \A t \in Session \ {s} : pc'[t] = pc[t]
    BY <1>10, <1>1, <2>1 DEF Restart, Shape
  <2>3. SavePlan(held[r])' = SavePlan(held[r])
    BY <2>2 DEF SavePlan, Stored, SettledOf
  <2> QED
    BY <1>3, <2>1, <2>2, <2>3 DEF Undisturbed
<1> QED
  BY <1>5, <1>6, <1>7, <1>8, <1>9, <1>10 DEF Save

(* So the last undisturbed save is always there to resume from.            *)
LEMMA ResumableAlways == Spec => []Resumable
<1>1. ASSUME Init PROVE Resumable
  <2>1. Shape
    BY <1>1, InitShape
  <2>2. \A s \in Session : writer # s
    BY <1>1, ResearchQueueAssumption DEF Init
  <2> QED
    BY <2>1, <2>2 DEF Resumable, Undisturbed
<1>2. Resumable /\ [Next]_vars => Resumable'
  BY NextResumable
<1> QED
  BY <1>1, <1>2, PTL DEF Spec

(* A restart resumes what the session was running, less what others have   *)
(* finished, if its last save ran alone and whole.                         *)
THEOREM RestartResumes == Spec => []ResumesWhereItStood
<1>1. ASSUME Resumable PROVE ResumesWhereItStood
  <2> SUFFICES ASSUME NEW s \in Session, writer = s, pc[s] = "idle",
                      held[s] = NoRun \/ IsInjective(Listed(held[s]))
               PROVE  IF held[s] = NoRun THEN Load(store) = {NoRun}
                      ELSE Resumes(store, held[s])
    BY Zenon DEF ResumesWhereItStood, Resumes
  <2>1. Fits(store, held[s]) /\ RowsFit(store) /\ held[s] \in {NoRun} \cup SoundQueue
    BY <1>1 DEF Resumable, Undisturbed, Shape
  <2>2. CASE held[s] = NoRun
    <3>1. \A k \in Topic : [run |-> k, entry |-> RunRow] \in RowKey
      BY DEF RowKey
    <3>2. Runs(store) = {}
      BY <2>1, <2>2, <3>1 DEF Fits, Runs
    <3> QED
      BY <2>2, <3>2 DEF Load
  <2>3. CASE held[s] # NoRun
    <3>1. held[s] \in SoundQueue /\ Apart(held[s])
      BY <2>1, <2>3, InjectiveIsApart
    <3>2. Mirrors(store, held[s])
      BY <2>1, <2>3, <3>1 DEF Fits
    <3>3. Resumes(store, held[s])
      BY <2>1, <3>1, <3>2, MirrorResumes
    <3> QED
      BY <2>3, <3>3
  <2> QED
    BY <2>2, <2>3
<1> QED
  BY ResumableAlways, <1>1, PTL

=============================================================================
