--------------------------- MODULE TownSquareProofs ---------------------------
(***************************************************************************)
(* Theorems about TownSquare for every board, every roster and every bound *)
(* on turns, recasts and morsels: what is gone stays gone, a recast opens  *)
(* on a fresh roster, and a catch rides with its one captor.               *)
(***************************************************************************)
EXTENDS TownSquare, FiniteSetTheorems, WellFoundedInduction, TLAPS

-----------------------------------------------------------------------------
(* Numbers.                                                                *)

(* A set of naturals that is not empty has a least element.                *)
LEMMA LeastNatural ==
  ASSUME NEW T, T \subseteq Nat, T # {}
  PROVE  \E t \in T : \A u \in T : t <= u
<1> DEFINE Below == {pair \in Nat \X Nat : pair[1] < pair[2]}
<1>1. Below = OpToRel(<, Nat)
  BY Zenon DEF OpToRel
<1>2. IsWellFoundedOn(Below, Nat)
  BY <1>1, NatLessThanWellFounded, Zenon
<1> HIDE DEF Below
<1>3. PICK x \in T : \A y \in T : ~(<<y, x>> \in Below)
  BY <1>2, WFMin, Zenon
<1>4. ASSUME NEW y \in T PROVE x <= y
  <2>1. <<y, x>> \in Nat \X Nat
    OBVIOUS
  <2>2. ~(<<y, x>>[1] < <<y, x>>[2])
    BY <1>3, <2>1, Zenon DEF Below
  <2> QED
    BY <2>2
<1> QED
  BY <1>4

(* A finite one has a greatest: the smallest set without one would lose    *)
(* one element and have it.                                                *)
LEMMA GreatestOfFinite ==
  ASSUME NEW S \in SUBSET Nat, IsFiniteSet(S), S # {}
  PROVE  \E t \in S : \A u \in S : u <= t
<1> DEFINE HasGreatest(T) == \E t \in T : \A u \in T : u <= t
           Bad(T) == IsFiniteSet(T) /\ T # {} /\ ~HasGreatest(T)
           Sizes == {n \in Nat : \E T \in SUBSET Nat : Bad(T) /\ Cardinality(T) = n}
<1> SUFFICES ASSUME ~HasGreatest(S) PROVE FALSE
  OBVIOUS
<1>1. Sizes # {}
  <2>1. Bad(S) /\ Cardinality(S) \in Nat
    BY FS_CardinalityType
  <2> HIDE DEF Bad
  <2> QED
    BY <2>1
<1>2. PICK n \in Sizes : \A k \in Sizes : n <= k
  <2>1. Sizes \subseteq Nat
    OBVIOUS
  <2> HIDE DEF Sizes
  <2> QED
    BY <1>1, <2>1, LeastNatural
<1>3. PICK T \in SUBSET Nat : Bad(T) /\ Cardinality(T) = n
  BY <1>2
<1>4. PICK x \in T : TRUE
  BY <1>3
<1>5. /\ IsFiniteSet(T \ {x}) /\ Cardinality(T \ {x}) = n - 1
      /\ Cardinality(T \ {x}) \in Nat /\ n \in Nat
  BY <1>3, FS_RemoveElement, FS_CardinalityType
<1>6. CASE T \ {x} = {}
  <2>1. \A u \in T : u <= x
    BY <1>6
  <2> QED
    BY <1>3, <2>1
<1>7. CASE T \ {x} # {}
  <2>1. HasGreatest(T \ {x})
    <3>1. n - 1 \notin Sizes
      BY <1>2, <1>5
    <3>2. T \ {x} \in SUBSET Nat
      OBVIOUS
    <3> QED
      BY <1>5, <1>7, <3>1, <3>2
  <2>2. PICK y \in T \ {x} : \A u \in T \ {x} : u <= y
    BY <2>1
  <2>3. \A u \in T : u <= IF x <= y THEN y ELSE x
    BY <2>2
  <2>4. HasGreatest(T)
    BY <2>3
  <2> QED
    BY <1>3, <2>4
<1> QED
  BY <1>6, <1>7

LEMMA MaxOfFinite ==
  ASSUME NEW S \in SUBSET Nat, IsFiniteSet(S), S # {}
  PROVE  Max(S) \in S /\ \A u \in S : u <= Max(S)
<1>1. \E t \in S : \A u \in S : t >= u
  BY GreatestOfFinite
<1> QED
  BY <1>1 DEF Max

-----------------------------------------------------------------------------
(* The fold.                                                               *)

NoneNewer(fold, e, k) ==
  \A i \in DOMAIN fold :
    /\ fold[i].epoch \in Nat /\ fold[i].turn \in Nat
    /\ fold[i].epoch < e \/ (fold[i].epoch = e /\ fold[i].turn <= k)

Overwrites(new, fold, f, e, k) ==
  /\ DOMAIN new = DOMAIN fold \union DOMAIN f
  /\ \A i \in DOMAIN f : new[i] = [val |-> f[i], epoch |-> e, turn |-> k]
  /\ \A i \in DOMAIN fold \ DOMAIN f : new[i] = fold[i]

(* Rows that outrank what was folded win, and nothing else changes.        *)
LEMMA NewestRows ==
  ASSUME NEW fold, NEW f, NEW e \in Nat, NEW k \in Nat, NoneNewer(fold, e, k)
  PROVE  Overwrites(Appended(fold, Stamped(f, e, k)), fold, f, e, k)
<1> DEFINE rows == Stamped(f, e, k)
<1>1. /\ DOMAIN rows = DOMAIN f
      /\ \A i \in DOMAIN f : rows[i] = [val |-> f[i], epoch |-> e, turn |-> k]
  BY DEF Stamped
<1>2. \A i \in DOMAIN f \intersect DOMAIN fold : Outranks(rows[i], fold[i])
  BY <1>1 DEF Outranks, NoneNewer
<1> HIDE DEF rows
<1> QED
  BY <1>1, <1>2 DEF Appended, Overwrites, rows

-----------------------------------------------------------------------------
(* What every state keeps.                                                 *)

Kind == {"predator", "prey", "crumb", "morsel", "egg", "web"}

(* No row is of a later run, or of a later turn than the next.             *)
Timely(rows) ==
  \A i \in DOMAIN rows :
    /\ rows[i].epoch \in Nat /\ rows[i].turn \in Nat
    /\ rows[i].epoch <= epoch
    /\ rows[i].epoch = epoch => rows[i].turn <= Turn

Ledger ==
  /\ spins \in BOOLEAN /\ epoch \in Nat
  /\ played.epoch \in Nat /\ played.turn \in Nat /\ played.epoch <= epoch
  /\ IsFiniteSet(DOMAIN place) /\ DOMAIN place \subseteq Kind \X Nat
  /\ Timely(place) /\ Timely(mass)
  /\ DOMAIN mass = {i \in DOMAIN place : i[1] # "web"}
  /\ DOMAIN gone \subseteq DOMAIN mass
  /\ \A i \in DOMAIN gone : gone[i] \in Nat /\ gone[i] <= epoch
  /\ DOMAIN holds \subseteq DOMAIN place
  /\ <<"predator", 1>> \in DOMAIN place
  /\ spins => epoch = 0
  /\ ~spins => DOMAIN holds = {}

LEMMA TurnType ==
  ASSUME Ledger
  PROVE  TickCount \in Nat /\ Turn \in Nat /\ Turn = TickCount + 1
BY DEF Ledger, TickCount, Turn

(* A number NewId gives was never used, by the living or by the gone.      *)
LEMMA FreshId ==
  ASSUME Ledger, NEW kind \in Kind, NEW n \in Nat \ {0}
  PROVE  /\ MaxSuffix(kind) \in Nat
         /\ NewId(kind, n) \in Kind \X Nat
         /\ NewId(kind, n)[1] = kind
         /\ NewId(kind, n) \notin DOMAIN place
<1> DEFINE D == {j \in DOMAIN place : j[1] = kind}
           N == {0} \union {i[2] : i \in D}
           num == [i \in D |-> i[2]]
<1>1. DOMAIN place \subseteq Kind \X Nat /\ IsFiniteSet(DOMAIN place)
  BY DEF Ledger
<1>2. IsFiniteSet({i[2] : i \in D})
  <2>1. D \in SUBSET DOMAIN place
    OBVIOUS
  <2>2. IsFiniteSet(D)
    <3> HIDE DEF D
    <3> QED
      BY <1>1, <2>1, FS_Subset
  <2>3. num \in Surjection(D, {i[2] : i \in D})
    <3> HIDE DEF D
    <3> QED
      BY DEF Surjection
  <2> HIDE DEF D, num
  <2> QED
    BY <2>2, <2>3, FS_Surjection
<1>3. IsFiniteSet(N)
  <2>1. N = {i[2] : i \in D} \union {0}
    OBVIOUS
  <2> HIDE DEF D, N
  <2> QED
    BY <1>2, <2>1, FS_AddElement
<1>4. N \in SUBSET Nat /\ N # {}
  BY <1>1
<1>5. Max(N) \in N /\ \A u \in N : u <= Max(N)
  <2> HIDE DEF N
  <2> QED
    BY <1>3, <1>4, MaxOfFinite
<1>6. MaxSuffix(kind) = Max(N)
  BY DEF MaxSuffix
<1>7. MaxSuffix(kind) \in Nat /\ \A i \in D : i[2] <= MaxSuffix(kind)
  <2>1. \A i \in D : i[2] \in N
    OBVIOUS
  <2> HIDE DEF N, D
  <2> QED
    BY <1>4, <1>5, <1>6, <2>1
<1>8. NewId(kind, n) = <<kind, MaxSuffix(kind) + n>>
  BY DEF NewId
<1>9. ASSUME NewId(kind, n) \in DOMAIN place PROVE FALSE
  <2>1. NewId(kind, n) \in D
    BY <1>8, <1>9
  <2> HIDE DEF D
  <2> QED
    BY <1>7, <1>8, <2>1
<1> QED
  BY <1>7, <1>8, <1>9

(* So are the ids a batch takes one after another.                         *)
FreshIds(kind, m) == {NewId(kind, n) : n \in 1..m}

Fresh(new) ==
  IsFiniteSet(new) /\ new \subseteq Kind \X Nat /\ new \intersect DOMAIN place = {}

LEMMA FreshBatch ==
  ASSUME Ledger, NEW kind \in Kind, NEW m \in Nat
  PROVE  Fresh(FreshIds(kind, m)) /\ \A i \in FreshIds(kind, m) : i[1] = kind
<1> DEFINE id == [n \in 1..m |-> NewId(kind, n)]
<1>1. IsFiniteSet(FreshIds(kind, m))
  <2>1. IsFiniteSet(1..m)
    BY FS_Interval
  <2>2. id \in Surjection(1..m, FreshIds(kind, m))
    BY DEF FreshIds, Surjection
  <2> HIDE DEF id
  <2> QED
    BY <2>1, <2>2, FS_Surjection
<1>2. \A n \in 1..m : n \in Nat \ {0}
  OBVIOUS
<1>3. ASSUME NEW i \in FreshIds(kind, m)
      PROVE  i \in Kind \X Nat /\ i \notin DOMAIN place /\ i[1] = kind
  <2>1. PICK n \in 1..m : i = NewId(kind, n)
    BY DEF FreshIds
  <2> QED
    BY <1>2, <2>1, FreshId
<1> QED
  BY <1>1, <1>3 DEF Fresh

(* An egg hatches at most EggHatchCount spiders, under fresh ids.          *)
LEMMA HatchlingIds ==
  Hatchlings \subseteq FreshIds("predator", EggHatchCount)
<1> SUFFICES ASSUME NEW e \in Due
             PROVE  DOMAIN Brood(e) \subseteq FreshIds("predator", EggHatchCount)
  BY DEF Hatchlings
<1> DEFINE S == {k \in 1..EggHatchCount : k = 1 \/ k * MinHatchlingMass <= Mass(e)}
<1>1. EggHatchCount \in Nat \ {0}
  BY TownSquareAssumption
<1>2. S \in SUBSET Nat /\ S # {} /\ S \subseteq 1..EggHatchCount
  <2>1. 1 \in S /\ S \subseteq 1..EggHatchCount
    BY <1>1
  <2> HIDE DEF S
  <2> QED
    BY <1>1, <2>1
<1>3. IsFiniteSet(S)
  <2>1. IsFiniteSet(1..EggHatchCount)
    BY <1>1, FS_Interval
  <2> HIDE DEF S
  <2> QED
    BY <1>2, <2>1, FS_Subset
<1>4. Max(S) \in 1..EggHatchCount
  <2> HIDE DEF S
  <2> QED
    BY <1>2, <1>3, MaxOfFinite
<1>5. DOMAIN Brood(e) = {NewId("predator", j) : j \in 1..Max(S)}
  BY DEF Brood
<1> HIDE DEF S
<1>6. 1..Max(S) \subseteq 1..EggHatchCount
  BY <1>1, <1>4
<1> QED
  BY <1>5, <1>6 DEF FreshIds

LEMMA AnimalsHaveRows ==
  ASSUME Ledger
  PROVE  /\ Animals \subseteq DOMAIN mass /\ Items \subseteq DOMAIN mass
         /\ Eggs \subseteq DOMAIN mass /\ DOMAIN mass \subseteq DOMAIN place
         /\ \A i \in Predators : i \in DOMAIN place /\ i[1] = "predator"
         /\ \A i \in Prey : i \in DOMAIN place /\ i[1] = "prey"
         /\ IsFiniteSet(Predators) /\ IsFiniteSet(Prey)
<1>1. \A kind : LiveOf(kind) \in SUBSET DOMAIN place
  BY DEF LiveOf
<1>2. IsFiniteSet(LiveOf("predator")) /\ IsFiniteSet(LiveOf("prey"))
  BY <1>1, FS_Subset DEF Ledger
<1> QED
  BY <1>2 DEF Ledger, Animals, Items, Eggs, Predators, Prey, LiveOf

-----------------------------------------------------------------------------
(* What a tick writes.                                                     *)

(* The rows of one batch: a place for every animal and every newcomer `new',*)
(* a mass for survivors and for newcomers that are not webs, and a removal  *)
(* for each of `out'.                                                       *)
Batch(to, new, f, g, out) ==
  /\ Fresh(new)
  /\ DOMAIN f = Animals \union new /\ \A i \in Animals : f[i] = to[i]
  /\ DOMAIN g \subseteq Animals \union new
  /\ \A i \in new : i \in DOMAIN g <=> i[1] # "web"
  /\ out \subseteq DOMAIN mass
  /\ place' = Appended(place, Stamped(f, epoch, Turn))
  /\ mass' = Appended(mass, Stamped(g, epoch, Turn))
  /\ gone' = [i \in out |-> epoch] ++ gone

Carried(to) ==
  \E kept \in SUBSET (Caught(to) \ Kills(to)) :
    /\ holds' = IF spins THEN HoldsAfter(kept) ELSE holds

LEMMA Layering ==
  ASSUME NEW f, NEW g
  PROVE  /\ DOMAIN (f ++ g) = DOMAIN f \union DOMAIN g
         /\ \A i \in DOMAIN f : (f ++ g)[i] = f[i]
BY DEF ++

LEMMA TickRows ==
  ASSUME Ledger, Tick
  PROVE  /\ \E to \in Moves : \E new, f, g, out :
               Batch(to, new, f, g, out) /\ Carried(to)
         /\ played' = [epoch |-> epoch, turn |-> Turn]
         /\ UNCHANGED <<spins, epoch>>
<1> DEFINE lost(survivors) == Animals \ survivors
           eaten(bites) == {qf[2] : qf \in bites}
           eggs(layers) == [e \in {NewId("egg", 1) : p \in layers} |-> First(layers)]
           prey(cell) == [q \in {NewId("prey", 1) : c \in cell} |-> CHOOSE c \in cell : TRUE]
           food(cell) == [f \in {NewId("crumb", 1) : c \in cell} |-> CHOOSE c \in cell : TRUE]
           places(to, layers, spinners, preyCell, foodCell) ==
             to ++ NewWebs(to, spinners) ++ [e \in DOMAIN eggs(layers) |-> to[eggs(layers)[e]]]
                ++ [h \in Hatchlings |-> At(First(Due))] ++ prey(preyCell) ++ food(foodCell)
           masses(fed, survivors, layers, preyCell, foodCell) ==
             [i \in survivors |-> IF i \in layers THEN InitialMass["predator"] ELSE fed[i]]
               ++ [e \in DOMAIN eggs(layers) |-> fed[eggs(layers)[e]] - InitialMass["predator"]]
               ++ [h \in Hatchlings |-> Brood(First(Due))[h]]
               ++ [q \in DOMAIN prey(preyCell) |-> InitialMass["prey"]]
               ++ [f \in DOMAIN food(foodCell) |-> FoodMass]
           leaving(survivors, bites) == lost(survivors) \union eaten(bites) \union Due
           wrote(to, kills, bites, fed, survivors, spinners, preyCell, foodCell) ==
             /\ place' = Appended(place, Stamped(
                  places(to, Layers(to, survivors, fed), spinners, preyCell, foodCell), epoch, Turn))
             /\ mass' = Appended(mass, Stamped(
                  masses(fed, survivors, Layers(to, survivors, fed), preyCell, foodCell), epoch, Turn))
             /\ gone' = [i \in leaving(survivors, bites) |-> epoch] ++ gone
             /\ holds' = IF spins
                         THEN HoldsAfter({pq \in Caught(to) \ kills : pq[2] \notin lost(survivors)})
                         ELSE holds
<1> DEFINE left(k) == Prey \ {pq[2] : pq \in k}
           living(k, w) == {i \in DOMAIN w : w[i] > 0 /\ \A pq \in k : i # pq[2]}
<1> HIDE DEF left, living
<1>1. PICK to, kills, bites, fed, survivors, spinners, preyCell, foodCell :
        /\ to \in Moves /\ kills = Kills(to)
        /\ bites = Bites(to, left(kills)) /\ fed = Fed(kills, bites)
        /\ survivors = living(kills, fed)
        /\ spinners \in SUBSET MaySpin(to)
        /\ wrote(to, kills, bites, fed, survivors, spinners, preyCell, foodCell)
  <2>1. PICK m \in Moves :
          \E k \in {Kills(m)} : \E b \in {Bites(m, left(k))} : \E w \in {Fed(k, b)} :
          \E s \in {living(k, w)} : Passed(m, k, b, w, s)
    BY Zenon DEF Tick, left, living
  <2>2. PICK k \in {Kills(m)} : \E b \in {Bites(m, left(k))} : \E w \in {Fed(k, b)} :
          \E s \in {living(k, w)} : Passed(m, k, b, w, s)
    BY <2>1, Zenon
  <2>3. PICK b \in {Bites(m, left(k))} : \E w \in {Fed(k, b)} :
          \E s \in {living(k, w)} : Passed(m, k, b, w, s)
    BY <2>2, Zenon
  <2>4. PICK w \in {Fed(k, b)}, s \in {living(k, Fed(k, b))} : Passed(m, k, b, w, s)
    BY <2>3
  <2>5. /\ k = Kills(m) /\ b = Bites(m, left(k)) /\ w = Fed(k, b) /\ s = living(k, w)
        /\ Passed(m, k, b, w, s)
    BY <2>4
  <2>6. PICK spinners \in SUBSET MaySpin(m) :
          \E preyCell \in OneOf(PreyCells(m, s)) :
          \E foodCell \in OneOf(FoodCells(Occupied(m, s) \union preyCell, Items \ eaten(b))) :
            wrote(m, k, b, w, s, spinners, preyCell, foodCell)
    BY <2>5, Zenon DEF Passed
  <2> HIDE DEF wrote
  <2>7. PICK preyCell \in OneOf(PreyCells(m, s)) :
          \E foodCell \in OneOf(FoodCells(Occupied(m, s) \union preyCell, Items \ eaten(b))) :
            wrote(m, k, b, w, s, spinners, preyCell, foodCell)
    BY <2>6, Zenon
  <2>8. PICK foodCell : wrote(m, k, b, w, s, spinners, preyCell, foodCell)
    BY <2>7, Zenon
  <2> QED
    BY <2>1, <2>5, <2>6, <2>8, Zenon
<1>2. /\ to \in Moves /\ kills = Kills(to)
      /\ DOMAIN fed = Animals
      /\ survivors \subseteq DOMAIN fed
  BY <1>1, Zenon DEF living, Fed
<1> DEFINE layers == Layers(to, survivors, fed)
           out == leaving(survivors, bites)
<1> DEFINE f == places(to, layers, spinners, preyCell, foodCell)
           g == masses(fed, survivors, layers, preyCell, foodCell)
           webs == DOMAIN NewWebs(to, spinners)
           rest == DOMAIN eggs(layers) \union Hatchlings \union DOMAIN prey(preyCell)
                     \union DOMAIN food(foodCell)
           new == webs \union rest
<1>3. Fresh(webs) /\ \A i \in webs : i[1] = "web"
  <2>1. Cardinality(spinners) \in Nat
    <3>1. spinners \in SUBSET Predators
      BY <1>1 DEF MaySpin
    <3> QED
      BY <3>1, AnimalsHaveRows, FS_Subset, FS_CardinalityType
  <2>2. webs = FreshIds("web", Cardinality(spinners))
    BY DEF NewWebs, FreshIds
  <2> QED
    BY <2>1, <2>2, FreshBatch, "web" \in Kind DEF Kind
<1>4. Fresh(rest) /\ \A i \in rest : i[1] # "web"
  <2> DEFINE A == FreshIds("egg", 1)
             B == FreshIds("predator", EggHatchCount)
             C == FreshIds("prey", 1)
             D == FreshIds("crumb", 1)
  <2>1. Fresh(A) /\ \A i \in A : i[1] = "egg"
    BY FreshBatch DEF Kind
  <2>2. Fresh(B) /\ \A i \in B : i[1] = "predator"
    BY FreshBatch, TownSquareAssumption DEF Kind
  <2>3. Fresh(C) /\ \A i \in C : i[1] = "prey"
    BY FreshBatch DEF Kind
  <2>4. Fresh(D) /\ \A i \in D : i[1] = "crumb"
    BY FreshBatch DEF Kind
  <2>5. Fresh(A \union B \union C \union D)
    <3>1. IsFiniteSet(A \union B \union C \union D)
      BY <2>1, <2>2, <2>3, <2>4, FS_Union DEF Fresh
    <3> HIDE DEF A, B, C, D
    <3> QED
      BY <2>1, <2>2, <2>3, <2>4, <3>1 DEF Fresh
  <2>6. rest \subseteq A \union B \union C \union D
    <3>1. /\ DOMAIN eggs(layers) \subseteq A /\ DOMAIN prey(preyCell) \subseteq C
          /\ DOMAIN food(foodCell) \subseteq D
      BY DEF FreshIds
    <3>2. Hatchlings \subseteq B
      BY HatchlingIds
    <3> QED
      BY <3>1, <3>2
  <2> HIDE DEF A, B, C, D, rest
  <2>7. \A i \in rest : i \in A \/ i \in B \/ i \in C \/ i \in D
    BY <2>6
  <2>8. rest \in SUBSET (A \union B \union C \union D)
    BY <2>6
  <2>9. IsFiniteSet(rest)
    BY <2>5, <2>8, FS_Subset DEF Fresh
  <2> QED
    BY <2>1, <2>2, <2>3, <2>4, <2>5, <2>7, <2>8, <2>9 DEF Fresh
<1>5. Fresh(new)
  <2>1. IsFiniteSet(webs \union rest)
    BY <1>3, <1>4, FS_Union DEF Fresh
  <2> HIDE DEF webs, rest
  <2> QED
    BY <1>3, <1>4, <2>1 DEF Fresh
<1>6. DOMAIN to = Animals
  BY <1>2 DEF Moves
<1>7. DOMAIN f = Animals \union new /\ \A i \in Animals : f[i] = to[i]
  <2> DEFINE f1 == to ++ NewWebs(to, spinners)
             f2 == f1 ++ [e \in DOMAIN eggs(layers) |-> to[eggs(layers)[e]]]
             f3 == f2 ++ [h \in Hatchlings |-> At(First(Due))]
             f4 == f3 ++ prey(preyCell)
  <2>1. f = f4 ++ food(foodCell)
    OBVIOUS
  <2>2. DOMAIN f1 = Animals \union webs /\ \A i \in Animals : f1[i] = to[i]
    BY <1>6, Layering
  <2>3. DOMAIN f2 = DOMAIN f1 \union DOMAIN eggs(layers) /\ \A i \in DOMAIN f1 : f2[i] = f1[i]
    <3> HIDE DEF f1, eggs
    <3> QED
      BY Layering
  <2>4. DOMAIN f3 = DOMAIN f2 \union Hatchlings /\ \A i \in DOMAIN f2 : f3[i] = f2[i]
    <3> HIDE DEF f2
    <3> QED
      BY Layering
  <2>5. /\ DOMAIN f4 = DOMAIN f3 \union DOMAIN prey(preyCell)
        /\ \A i \in DOMAIN f3 : f4[i] = f3[i]
    <3> HIDE DEF f3, prey
    <3> QED
      BY Layering
  <2>6. DOMAIN f = DOMAIN f4 \union DOMAIN food(foodCell) /\ \A i \in DOMAIN f4 : f[i] = f4[i]
    <3> HIDE DEF f4, food, f
    <3> QED
      BY <2>1, Layering
  <2> HIDE DEF f, f1, f2, f3, f4, eggs, prey, food, webs
  <2> QED
    BY <2>2, <2>3, <2>4, <2>5, <2>6
<1>8. DOMAIN g = survivors \union rest
  <2> DEFINE g1 == [i \in survivors |-> IF i \in layers THEN InitialMass["predator"] ELSE fed[i]]
             g2 == g1 ++ [e \in DOMAIN eggs(layers) |-> fed[eggs(layers)[e]] - InitialMass["predator"]]
             g3 == g2 ++ [h \in Hatchlings |-> Brood(First(Due))[h]]
             g4 == g3 ++ [q \in DOMAIN prey(preyCell) |-> InitialMass["prey"]]
  <2>1. g = g4 ++ [i \in DOMAIN food(foodCell) |-> FoodMass]
    OBVIOUS
  <2>2. DOMAIN g1 = survivors
    OBVIOUS
  <2>3. DOMAIN g2 = DOMAIN g1 \union DOMAIN eggs(layers)
    <3> HIDE DEF g1, eggs
    <3> QED
      BY Layering
  <2>4. DOMAIN g3 = DOMAIN g2 \union Hatchlings
    <3> HIDE DEF g2
    <3> QED
      BY Layering
  <2>5. DOMAIN g4 = DOMAIN g3 \union DOMAIN prey(preyCell)
    <3> HIDE DEF g3, prey
    <3> QED
      BY Layering
  <2>6. DOMAIN g = DOMAIN g4 \union DOMAIN food(foodCell)
    <3> HIDE DEF g4, food, g
    <3> QED
      BY <2>1, Layering
  <2> HIDE DEF g, g1, g2, g3, g4, eggs, prey, food
  <2> QED
    BY <2>2, <2>3, <2>4, <2>5, <2>6
<1>9. survivors \subseteq Animals
  BY <1>2
<1>10. out \subseteq DOMAIN mass
  <2>1. eaten(bites) \subseteq Items
    BY <1>1 DEF Bites
  <2>2. Due \subseteq Eggs
    BY DEF Due
  <2> QED
    BY <2>1, <2>2, AnimalsHaveRows
<1>11. Batch(to, new, f, g, out)
  <2>1. /\ place' = Appended(place, Stamped(f, epoch, Turn))
        /\ mass' = Appended(mass, Stamped(g, epoch, Turn))
        /\ gone' = [i \in out |-> epoch] ++ gone
    BY <1>1, Zenon
  <2> HIDE DEF webs, rest, f, g, out
  <2> QED
    BY <2>1, <1>3, <1>4, <1>5, <1>7, <1>8, <1>9, <1>10, AnimalsHaveRows DEF Batch, Fresh
<1>12. Carried(to)
  <2> DEFINE kept == {pq \in Caught(to) \ kills : pq[2] \notin lost(survivors)}
  <2>1. kept \in SUBSET (Caught(to) \ Kills(to))
    BY <1>1
  <2> QED
    BY <1>1, <2>1 DEF Carried
<1>13. played' = [epoch |-> epoch, turn |-> Turn] /\ UNCHANGED <<spins, epoch>>
  BY DEF Tick
<1> HIDE DEF new, f, g, out
<1> QED
  BY <1>2, <1>11, <1>12, <1>13

-----------------------------------------------------------------------------
(* The ledger is an invariant.                                             *)

(* One operation's rows, none older than what the fold holds: what they    *)
(* leave in the two folds.                                                 *)
Written(f, g, e, k) ==
  Overwrites(place', place, f, e, k) /\ Overwrites(mass', mass, g, e, k)

LEMMA RowsWritten ==
  ASSUME Ledger, NEW f, NEW g, NEW e \in Nat, NEW k \in Nat,
         (e = epoch /\ k = Turn) \/ e = epoch + 1,
         place' = Appended(place, Stamped(f, e, k)),
         mass' = Appended(mass, Stamped(g, e, k)),
         epoch' = e, Turn' \in Nat, k <= Turn'
  PROVE  Written(f, g, e, k) /\ Timely(place)' /\ Timely(mass)'
<1>1. NoneNewer(place, e, k) /\ NoneNewer(mass, e, k)
  BY TurnType DEF Ledger, Timely, NoneNewer
<1>2. Overwrites(place', place, f, e, k)
  BY <1>1, NewestRows
<1>3. Overwrites(mass', mass, g, e, k)
  BY <1>1, NewestRows
<1>4. Timely(place)'
  <2>1. ASSUME NEW i \in DOMAIN place'
        PROVE  /\ place'[i].epoch \in Nat /\ place'[i].turn \in Nat
               /\ place'[i].epoch <= e
               /\ place'[i].epoch = e => place'[i].turn <= Turn'
    <3>1. CASE i \in DOMAIN f
      BY <1>2, <3>1 DEF Overwrites
    <3>2. CASE i \in DOMAIN place \ DOMAIN f
      BY <1>1, <1>2, <3>2 DEF NoneNewer, Overwrites
    <3> QED
      BY <1>2, <2>1, <3>1, <3>2 DEF Overwrites
  <2> QED
    BY <2>1 DEF Timely
<1>5. Timely(mass)'
  <2>1. ASSUME NEW i \in DOMAIN mass'
        PROVE  /\ mass'[i].epoch \in Nat /\ mass'[i].turn \in Nat
               /\ mass'[i].epoch <= e
               /\ mass'[i].epoch = e => mass'[i].turn <= Turn'
    <3>1. CASE i \in DOMAIN g
      BY <1>3, <3>1 DEF Overwrites
    <3>2. CASE i \in DOMAIN mass \ DOMAIN g
      BY <1>1, <1>3, <3>2 DEF NoneNewer, Overwrites
    <3> QED
      BY <1>3, <2>1, <3>1, <3>2 DEF Overwrites
  <2> QED
    BY <2>1 DEF Timely
<1> QED
  BY <1>2, <1>3, <1>4, <1>5 DEF Written

(* The turns of the state after each operation.                            *)
LEMMA TickCounts ==
  ASSUME Ledger, played' = [epoch |-> epoch, turn |-> Turn], epoch' = epoch
  PROVE  TickCount' = Turn /\ Turn' = Turn + 1
BY DEF TickCount, Turn

LEMMA RecastCounts ==
  ASSUME Ledger, played' = played, epoch' = epoch + 1
  PROVE  TickCount' = 0 /\ Turn' = 1
BY DEF Ledger, TickCount, Turn

LEMMA RosterShape ==
  ASSUME NEW foxes \in Nat \ {0}, NEW goblins \in Nat, NEW r \in Rosters(foxes, goblins)
  PROVE  /\ IsFiniteSet(DOMAIN r)
         /\ DOMAIN r \subseteq {"predator", "prey"} \X Nat
         /\ <<"predator", 1>> \in DOMAIN r
<1> DEFINE predators == {<<"predator", n>> : n \in 1..foxes}
           prey == {<<"prey", n>> : n \in 1..goblins}
<1>1. DOMAIN r = predators \union prey
  BY DEF Rosters
<1>2. IsFiniteSet(predators)
  <2> DEFINE id == [n \in 1..foxes |-> <<"predator", n>>]
  <2>1. IsFiniteSet(1..foxes)
    BY FS_Interval
  <2>2. id \in Surjection(1..foxes, predators)
    BY DEF Surjection
  <2> HIDE DEF id, predators
  <2> QED
    BY <2>1, <2>2, FS_Surjection
<1>3. IsFiniteSet(prey)
  <2> DEFINE id == [n \in 1..goblins |-> <<"prey", n>>]
  <2>1. IsFiniteSet(1..goblins)
    BY FS_Interval
  <2>2. id \in Surjection(1..goblins, prey)
    BY DEF Surjection
  <2> HIDE DEF id, prey
  <2> QED
    BY <2>1, <2>2, FS_Surjection
<1>4. /\ predators \subseteq {"predator"} \X Nat /\ <<"predator", 1>> \in predators
      /\ prey \subseteq {"prey"} \X Nat
  OBVIOUS
<1>5. IsFiniteSet(predators \union prey)
  <2> HIDE DEF predators, prey
  <2> QED
    BY <1>2, <1>3, FS_Union
<1> HIDE DEF predators, prey
<1> QED
  BY <1>1, <1>4, <1>5

LEMMA LedgerInit ==
  ASSUME Init
  PROVE  Ledger
<1>1. PICK foxes \in Nat \ {0}, goblins \in Nat : \E r \in Rosters(foxes, goblins) : Opened(r)
  <2>1. CASE spins
    <3>1. PICK n \in FlyCounts : \E r \in Rosters(1, n) : Opened(r)
      BY <2>1 DEF Init
    <3>2. 1 \in Nat \ {0} /\ n \in Nat
      BY TownSquareAssumption
    <3> QED
      BY <3>1, <3>2
  <2>2. CASE ~spins
    <3>1. PICK size \in CastSizes : \E r \in Rosters(size[1], size[2]) : Opened(r)
      BY <2>2 DEF Init
    <3>2. size[1] \in Nat \ {0} /\ size[2] \in Nat
      BY TownSquareAssumption
    <3> QED
      BY <3>1, <3>2
  <2> QED
    BY <2>1, <2>2
<1>2. PICK r \in Rosters(foxes, goblins) : Opened(r)
  BY <1>1
<1>3. /\ IsFiniteSet(DOMAIN r) /\ DOMAIN r \subseteq {"predator", "prey"} \X Nat
      /\ <<"predator", 1>> \in DOMAIN r
  BY RosterShape
<1>4. /\ DOMAIN place = DOMAIN r /\ DOMAIN mass = DOMAIN r
      /\ \A i \in DOMAIN r : place[i].epoch = 0 /\ place[i].turn = 0
      /\ \A i \in DOMAIN r : mass[i].epoch = 0 /\ mass[i].turn = 0
  BY <1>2 DEF Opened, Stamped, RosterMass
<1>5. /\ spins \in BOOLEAN /\ epoch = 0 /\ played.epoch = 0 /\ played.turn = 0
      /\ DOMAIN gone = {}
      /\ DOMAIN holds = IF spins THEN {<<"predator", 1>>} ELSE {}
  BY DEF Init
<1>6. Turn = 1
  BY <1>5 DEF Turn, TickCount
<1>7. Timely(place) /\ Timely(mass)
  BY <1>4, <1>5, <1>6 DEF Timely
<1>8. \A i \in DOMAIN r : i \in Kind \X Nat /\ i[1] # "web"
  BY <1>3 DEF Kind
<1>9. DOMAIN mass = {i \in DOMAIN place : i[1] # "web"}
  BY <1>4, <1>8
<1>10. /\ IsFiniteSet(DOMAIN place) /\ DOMAIN place \subseteq Kind \X Nat
       /\ <<"predator", 1>> \in DOMAIN place
  BY <1>3, <1>4, <1>8
<1>11. /\ DOMAIN holds \subseteq DOMAIN place
       /\ ~spins => DOMAIN holds = {}
  BY <1>5, <1>10
<1> QED
  BY <1>5, <1>7, <1>9, <1>10, <1>11 DEF Ledger

(* The rows each operation writes, and the turn it writes them for.        *)
LEMMA BatchWritten ==
  ASSUME Ledger, NEW to, NEW new, NEW f, NEW g, NEW out, Batch(to, new, f, g, out),
         played' = [epoch |-> epoch, turn |-> Turn], epoch' = epoch
  PROVE  Written(f, g, epoch, Turn) /\ Timely(place)' /\ Timely(mass)'
<1>1. epoch \in Nat /\ Turn \in Nat /\ Turn' = Turn + 1
  BY TurnType, TickCounts DEF Ledger
<1>2. Turn' \in Nat /\ Turn <= Turn'
  BY <1>1
<1>3. /\ place' = Appended(place, Stamped(f, epoch, Turn))
      /\ mass' = Appended(mass, Stamped(g, epoch, Turn))
  BY DEF Batch
<1> QED
  BY <1>1, <1>2, <1>3, RowsWritten

LEMMA MorselWritten ==
  ASSUME Ledger, NEW c, PlaceFood(c)
  PROVE  LET morsel == {NewId("morsel", 1)} IN
         /\ Written([i \in morsel |-> c], [i \in morsel |-> FoodMass], epoch, Turn)
         /\ Timely(place)' /\ Timely(mass)'
<1>1. epoch \in Nat /\ Turn \in Nat /\ Turn' = Turn
  BY TurnType DEF Ledger, PlaceFood, Turn, TickCount
<1>2. epoch' = epoch /\ Turn' \in Nat /\ Turn <= Turn'
  BY <1>1 DEF PlaceFood
<1> DEFINE f == [i \in {NewId("morsel", 1)} |-> c]
           g == [i \in {NewId("morsel", 1)} |-> FoodMass]
<1>3. /\ place' = Appended(place, Stamped(f, epoch, Turn))
      /\ mass' = Appended(mass, Stamped(g, epoch, Turn))
  BY DEF PlaceFood
<1> HIDE DEF f, g
<1>4. Written(f, g, epoch, Turn) /\ Timely(place)' /\ Timely(mass)'
  BY <1>1, <1>2, <1>3, RowsWritten
<1> QED
  BY <1>4 DEF f, g

(* A run just opened has no roster yet, so a recast always writes one.     *)
LEMMA RosterWritten ==
  ASSUME Ledger, Recast
  PROVE  \E size \in CastSizes : \E r \in Rosters(size[1], size[2]) :
           /\ Written(r, RosterMass(r), epoch + 1, 0)
           /\ Timely(place)' /\ Timely(mass)'
<1>1. PICK size \in CastSizes : \E r \in Rosters(size[1], size[2]) : Reopened(r)
  BY DEF Recast
<1>2. PICK r \in Rosters(size[1], size[2]) : Reopened(r)
  BY <1>1
<1>3. ~HasRoster(epoch + 1)
  BY DEF Ledger, Timely, HasRoster
<1>4. /\ place' = Appended(place, Stamped(r, epoch + 1, 0))
      /\ mass' = Appended(mass, Stamped(RosterMass(r), epoch + 1, 0))
  BY <1>2, <1>3 DEF Reopened
<1>5. /\ epoch + 1 \in Nat /\ 0 \in Nat /\ epoch' = epoch + 1
      /\ Turn' \in Nat /\ 0 <= Turn'
  BY RecastCounts DEF Ledger, Recast
<1>6. /\ Written(r, RosterMass(r), epoch + 1, 0)
      /\ Timely(place)' /\ Timely(mass)'
  BY <1>4, <1>5, RowsWritten
<1> QED
  BY <1>6

LEMMA LedgerNext ==
  ASSUME Ledger, [Next]_vars
  PROVE  Ledger'
<1>1. CASE Tick
  <2>1. PICK to \in Moves : \E new, f, g, out : Batch(to, new, f, g, out) /\ Carried(to)
    BY <1>1, TickRows
  <2>2. PICK new, f, g, out : Batch(to, new, f, g, out) /\ Carried(to)
    BY <2>1
  <2>3. played' = [epoch |-> epoch, turn |-> Turn] /\ UNCHANGED <<spins, epoch>>
    BY <1>1, TickRows
  <2>4. Written(f, g, epoch, Turn) /\ Timely(place)' /\ Timely(mass)'
    BY <2>2, <2>3, BatchWritten
  <2>5. DOMAIN place' = DOMAIN place \union new /\ DOMAIN mass' = DOMAIN mass \union DOMAIN g
    BY <2>2, <2>4, AnimalsHaveRows DEF Batch, Written, Overwrites
  <2>6. IsFiniteSet(DOMAIN place') /\ DOMAIN place' \subseteq Kind \X Nat
    <3>1. IsFiniteSet(new) /\ new \subseteq Kind \X Nat
      BY <2>2 DEF Batch, Fresh
    <3>2. IsFiniteSet(DOMAIN place) /\ DOMAIN place \subseteq Kind \X Nat
      BY DEF Ledger
    <3>3. IsFiniteSet(DOMAIN place \union new)
      BY <3>1, <3>2, FS_Union
    <3> QED
      BY <2>5, <3>1, <3>2, <3>3
  <2>7. DOMAIN mass' = {i \in DOMAIN place' : i[1] # "web"}
    BY <2>2, <2>5, AnimalsHaveRows DEF Batch, Ledger
  <2>8. DOMAIN gone' = out \union DOMAIN gone /\ \A i \in out : gone'[i] = epoch
    <3> DEFINE now == [i \in out |-> epoch]
    <3>1. gone' = now ++ gone
      BY <2>2 DEF Batch
    <3>2. DOMAIN now = out /\ \A i \in out : now[i] = epoch
      OBVIOUS
    <3> HIDE DEF now
    <3> QED
      BY <3>1, <3>2, Layering
  <2>9. \A i \in DOMAIN gone \ out : gone'[i] = gone[i]
    BY <2>2 DEF Batch, ++
  <2>10. DOMAIN gone' \subseteq DOMAIN mass' /\ \A i \in DOMAIN gone' : gone'[i] \in Nat /\ gone'[i] <= epoch
    BY <2>2, <2>5, <2>8, <2>9 DEF Batch, Ledger
  <2>11. DOMAIN holds' \subseteq DOMAIN holds \union Predators /\ (~spins => holds' = holds)
    BY <2>2 DEF Carried, HoldsAfter
  <2>12. DOMAIN holds' \subseteq DOMAIN place' /\ (~spins => DOMAIN holds' = {})
    BY <2>5, <2>11, AnimalsHaveRows DEF Ledger
  <2>13. played'.epoch = epoch /\ played'.turn \in Nat
    BY <2>3, TurnType
  <2>14. /\ <<"predator", 1>> \in DOMAIN place' /\ played'.epoch \in Nat /\ epoch' \in Nat
         /\ spins' \in BOOLEAN /\ (spins' => epoch' = 0)
    BY <2>3, <2>5, <2>13 DEF Ledger
  <2> QED
    BY <2>3, <2>4, <2>6, <2>7, <2>10, <2>12, <2>13, <2>14 DEF Ledger
<1>2. ASSUME NEW c \in Cell, PlaceFood(c) PROVE Ledger'
  <2> DEFINE m == NewId("morsel", 1)
  <2>1. m \in Kind \X Nat /\ m[1] # "web"
    BY FreshId DEF Kind
  <2>2. /\ Timely(place)' /\ Timely(mass)'
        /\ DOMAIN place' = DOMAIN place \union {m} /\ DOMAIN mass' = DOMAIN mass \union {m}
    BY <1>2, MorselWritten DEF Written, Overwrites
  <2> HIDE DEF m
  <2>3. IsFiniteSet(DOMAIN place') /\ DOMAIN place' \subseteq Kind \X Nat
    BY <2>1, <2>2, FS_AddElement DEF Ledger
  <2>4. DOMAIN mass' = {i \in DOMAIN place' : i[1] # "web"}
    BY <2>1, <2>2 DEF Ledger
  <2>5. UNCHANGED <<spins, epoch, played, gone, holds>>
    BY <1>2 DEF PlaceFood
  <2> QED
    BY <2>2, <2>3, <2>4, <2>5 DEF Ledger
<1>3. CASE Recast
  <2>1. PICK size \in CastSizes : \E r \in Rosters(size[1], size[2]) :
           /\ Written(r, RosterMass(r), epoch + 1, 0)
           /\ Timely(place)' /\ Timely(mass)'
    BY <1>3, RosterWritten
  <2>2. PICK r \in Rosters(size[1], size[2]) :
           /\ Written(r, RosterMass(r), epoch + 1, 0)
           /\ Timely(place)' /\ Timely(mass)'
    BY <2>1
  <2>3. IsFiniteSet(DOMAIN r) /\ DOMAIN r \subseteq {"predator", "prey"} \X Nat
    BY RosterShape, TownSquareAssumption
  <2>4. /\ DOMAIN place' = DOMAIN place \union DOMAIN r
        /\ DOMAIN mass' = DOMAIN mass \union DOMAIN r
    BY <2>2 DEF Written, Overwrites, RosterMass
  <2>5. \A i \in DOMAIN r : i \in Kind \X Nat /\ i[1] # "web"
    BY <2>3 DEF Kind
  <2>6. IsFiniteSet(DOMAIN place') /\ DOMAIN place' \subseteq Kind \X Nat
    <3>1. IsFiniteSet(DOMAIN place) /\ DOMAIN place \subseteq Kind \X Nat
      BY DEF Ledger
    <3>2. IsFiniteSet(DOMAIN place \union DOMAIN r)
      BY <2>3, <3>1, FS_Union
    <3> QED
      BY <2>4, <2>5, <3>1, <3>2
  <2>7. DOMAIN mass' = {i \in DOMAIN place' : i[1] # "web"}
    BY <2>4, <2>5 DEF Ledger
  <2>8. ~spins /\ epoch' = epoch + 1 /\ UNCHANGED <<spins, played, gone, holds>>
    BY <1>3 DEF Recast
  <2>9. /\ <<"predator", 1>> \in DOMAIN place' /\ DOMAIN holds' \subseteq DOMAIN place'
        /\ epoch' \in Nat /\ played'.epoch <= epoch'
    BY <2>4, <2>8 DEF Ledger
  <2>10. DOMAIN gone' \subseteq DOMAIN mass' /\ \A i \in DOMAIN gone' : gone'[i] \in Nat /\ gone'[i] <= epoch'
    BY <2>4, <2>8 DEF Ledger
  <2> QED
    BY <2>2, <2>6, <2>7, <2>8, <2>9, <2>10 DEF Ledger
<1>4. CASE UNCHANGED vars
  BY <1>4 DEF vars, Ledger, Timely, Turn, TickCount
<1> QED
  BY <1>1, <1>2, <1>3, <1>4 DEF Next

LEMMA LedgerAlways == Spec => []Ledger
BY LedgerInit, LedgerNext, PTL DEF Spec

-----------------------------------------------------------------------------
(* The gone stay gone.                                                     *)

(* What a tick leaves of a row that is not an animal's: the row, and the   *)
(* removal of anything already removed.                                    *)
LEMMA Untouched ==
  ASSUME Ledger, Tick
  PROVE  /\ \A i \in DOMAIN place : i \notin Animals => place'[i] = place[i]
         /\ \A i \in DOMAIN mass : i \notin Animals => mass'[i] = mass[i]
         /\ \A i : Removed(i) => Removed(i)'
         /\ DOMAIN place \subseteq DOMAIN place'
<1>1. PICK to \in Moves : \E new, f, g, out : Batch(to, new, f, g, out) /\ Carried(to)
  BY TickRows
<1>2. PICK new, f, g, out : Batch(to, new, f, g, out) /\ Carried(to)
  BY <1>1
<1>3. played' = [epoch |-> epoch, turn |-> Turn] /\ UNCHANGED <<spins, epoch>>
  BY TickRows
<1>4. Written(f, g, epoch, Turn)
  BY <1>2, <1>3, BatchWritten
<1>5. /\ DOMAIN f = Animals \union new /\ DOMAIN g \subseteq Animals \union new
      /\ new \intersect DOMAIN place = {}
  BY <1>2 DEF Batch, Fresh
<1>6. /\ \A i \in DOMAIN place : i \notin Animals => place'[i] = place[i]
      /\ \A i \in DOMAIN mass : i \notin Animals => mass'[i] = mass[i]
      /\ DOMAIN place \subseteq DOMAIN place'
  BY <1>4, <1>5, AnimalsHaveRows DEF Written, Overwrites
<1>7. ASSUME NEW i, Removed(i) PROVE Removed(i)'
  <2>1. gone' = [j \in out |-> epoch] ++ gone
    BY <1>2 DEF Batch
  <2>2. i \in DOMAIN gone /\ gone[i] = epoch
    BY <1>7 DEF Removed
  <2>3. i \in DOMAIN gone' /\ gone'[i] = epoch
    BY <2>1, <2>2 DEF ++
  <2> QED
    BY <1>3, <2>3 DEF Removed
<1> QED
  BY <1>6, <1>7

(* Within a run nothing that was eaten, starved or hatched is heard of     *)
(* again: the ids of a batch are fresh, and only live animals move or eat. *)
THEOREM GoneStayGone == Spec => TheGoneStayGone
<1> DEFINE Stays == epoch' = epoch =>
             \A i \in DOMAIN place : Removed(i) =>
               Removed(i)' /\ place'[i] = place[i] /\ mass'[i] = mass[i]
<1>1. ASSUME Ledger, [Next]_vars PROVE [Stays]_vars
  <2>1. SUFFICES ASSUME NEW i \in DOMAIN place, Removed(i), epoch' = epoch
                 PROVE  Removed(i)' /\ place'[i] = place[i] /\ mass'[i] = mass[i]
    OBVIOUS
  <2>2. i \notin Animals /\ i \in DOMAIN mass
    BY <1>1, <2>1 DEF Animals, Predators, Prey, LiveOf, Removed, Ledger
  <2>3. CASE Tick
    BY <1>1, <2>1, <2>2, <2>3, Untouched
  <2>4. ASSUME NEW c \in Cell, PlaceFood(c)
        PROVE  Removed(i)' /\ place'[i] = place[i] /\ mass'[i] = mass[i]
    <3> DEFINE m == NewId("morsel", 1)
    <3>1. m \notin DOMAIN place
      BY <1>1, FreshId DEF Kind
    <3>2. Written([j \in {m} |-> c], [j \in {m} |-> FoodMass], epoch, Turn)
      BY <1>1, <2>4, MorselWritten
    <3> HIDE DEF m
    <3>3. place'[i] = place[i] /\ mass'[i] = mass[i]
      BY <2>1, <2>2, <3>1, <3>2 DEF Written, Overwrites
    <3> QED
      BY <2>1, <2>4, <3>3 DEF PlaceFood, Removed
  <2>5. CASE Recast
    BY <1>1, <2>1, <2>5 DEF Recast, Ledger
  <2>6. CASE UNCHANGED vars
    BY <2>1, <2>6 DEF vars, Removed
  <2> QED
    BY <1>1, <2>3, <2>4, <2>5, <2>6 DEF Next
<1> QED
  BY <1>1, LedgerAlways, PTL DEF Spec, TheGoneStayGone

(* A recast opens on a fresh roster whatever the last run left: its rows   *)
(* outrank every row of the runs before, and the removals of those are not *)
(* of this run.                                                            *)
THEOREM RecastsReopen == Spec => RecastReopens
<1> DEFINE Reopens == epoch' # epoch =>
             /\ TickCount' = 0
             /\ \E size \in CastSizes : \E r \in Rosters(size[1], size[2]) : \A i \in DOMAIN r :
                  i \in DOMAIN place' /\ ~Removed(i)' /\ place'[i].val = r[i]
                  /\ mass'[i].val = InitialMass[i[1]]
<1>1. ASSUME Ledger, [Next]_vars PROVE [Reopens]_vars
  <2>1. CASE Recast
    <3>1. PICK size \in CastSizes : \E r \in Rosters(size[1], size[2]) :
             Written(r, RosterMass(r), epoch + 1, 0)
      BY <1>1, <2>1, RosterWritten
    <3>2. PICK r \in Rosters(size[1], size[2]) : Written(r, RosterMass(r), epoch + 1, 0)
      BY <3>1
    <3>3. TickCount' = 0
      BY <1>1, <2>1, RecastCounts DEF Recast
    <3>4. ASSUME NEW i \in DOMAIN r
          PROVE  /\ i \in DOMAIN place' /\ ~Removed(i)' /\ place'[i].val = r[i]
                 /\ mass'[i].val = InitialMass[i[1]]
      <4>1. i \in DOMAIN place' /\ place'[i].val = r[i] /\ mass'[i].val = InitialMass[i[1]]
        BY <3>2 DEF Written, Overwrites, RosterMass
      <4>2. ~Removed(i)'
        BY <1>1, <2>1 DEF Removed, Recast, Ledger
      <4> QED
        BY <4>1, <4>2
    <3> QED
      BY <3>3, <3>4
  <2>2. CASE Tick
    BY <2>2, <1>1, TickRows
  <2>3. ASSUME NEW c \in Cell, PlaceFood(c) PROVE Reopens
    BY <2>3 DEF PlaceFood
  <2>4. CASE UNCHANGED vars
    BY <2>4
  <2> QED
    BY <1>1, <2>1, <2>2, <2>3, <2>4 DEF Next
<1> QED
  BY <1>1, LedgerAlways, PTL DEF Spec, RecastReopens

-----------------------------------------------------------------------------
(* A catch and its captor.                                                 *)

(* Two animals of one kind never have the same place in line.              *)
LEMMA PlacesInLine ==
  ASSUME NEW kind, NEW S, IsFiniteSet(S), S \subseteq {kind} \X Nat,
         NEW i \in S, NEW j \in S, Nth(i, S) = Nth(j, S)
  PROVE  i = j
<1>1. ASSUME NEW a \in S, NEW b \in S, a[2] < b[2] PROVE Nth(a, S) < Nth(b, S)
  <2> DEFINE A == {x \in S : x[2] < a[2]}
             B == {x \in S : x[2] < b[2]}
  <2>1. A \in SUBSET B /\ A # B
    <3>1. \A x \in S : x[2] \in Nat
      OBVIOUS
    <3>2. a \in B /\ a \notin A
      BY <1>1, <3>1
    <3> QED
      BY <1>1, <3>1, <3>2
  <2>2. B \in SUBSET S
    OBVIOUS
  <2>3. IsFiniteSet(B)
    <3> HIDE DEF B
    <3> QED
      BY <2>2, FS_Subset
  <2>4. /\ Cardinality(A) <= Cardinality(B) /\ Cardinality(A) # Cardinality(B)
        /\ Cardinality(A) \in Nat /\ Cardinality(B) \in Nat
    <3> HIDE DEF A, B
    <3>1. IsFiniteSet(A) /\ Cardinality(A) <= Cardinality(B)
      BY <2>1, <2>3, FS_Subset
    <3>2. Cardinality(A) # Cardinality(B)
      BY <2>1, <2>3, FS_Subset
    <3> QED
      BY <2>3, <3>1, <3>2, FS_CardinalityType
  <2>5. Nth(a, S) = Cardinality(A) /\ Nth(b, S) = Cardinality(B)
    BY DEF Nth
  <2> HIDE DEF A, B
  <2> QED
    BY <2>4, <2>5
<1>2. ~(Nth(i, S) < Nth(i, S))
  <2> DEFINE A == {x \in S : x[2] < i[2]}
  <2>1. A \in SUBSET S
    OBVIOUS
  <2>2. Cardinality(A) \in Nat
    <3> HIDE DEF A
    <3> QED
      BY <2>1, FS_Subset, FS_CardinalityType
  <2>3. Nth(i, S) = Cardinality(A)
    BY DEF Nth
  <2> HIDE DEF A
  <2> QED
    BY <2>2, <2>3
<1>3. ~(i[2] < j[2]) /\ ~(j[2] < i[2])
  BY <1>1, <1>2
<1> QED
  BY <1>3

(* A prey is with one captor after the moves: with the one that holds it,  *)
(* or with the one of its place in line.                                   *)
LEMMA OneCaptor ==
  ASSUME Ledger, HeldPreyRidesAlong, NEW to \in Moves,
         NEW p, NEW r, NEW q, <<p, q>> \in Caught(to), <<r, q>> \in Caught(to)
  PROVE  p = r
<1> DEFINE free == {a \in Predators : ~Carrying(a)}
           unclaimed == {b \in Prey : Captors(b) = {}}
           Met(a, b) == /\ a \in free /\ b \in unclaimed
                        /\ to[a] = to[b]
                        /\ Nth(a, Here(free, to[a], to)) = Nth(b, Here(unclaimed, to[b], to))
<1>1. ASSUME NEW a, <<a, q>> \in Caught(to)
      PROVE  <<a, q>> \in Held \/ Met(a, q)
  BY <1>1 DEF Caught
<1>2. ASSUME NEW a, <<a, q>> \in Held PROVE Captors(q) = {a}
  BY <1>2 DEF HeldPreyRidesAlong
<1>3. CASE <<p, q>> \in Held \/ <<r, q>> \in Held
  BY <1>1, <1>2, <1>3
<1>4. CASE Met(p, q) /\ Met(r, q)
  <2> DEFINE S == Here(free, to[q], to)
  <2>1. p \in S /\ r \in S /\ Nth(p, S) = Nth(r, S)
    BY <1>4 DEF Here
  <2>2. S \in SUBSET Predators /\ S \subseteq {"predator"} \X Nat
    <3>1. Predators \subseteq {"predator"} \X Nat
      BY AnimalsHaveRows DEF Ledger
    <3> QED
      BY <3>1 DEF Here
  <2>3. IsFiniteSet(S)
    <3> HIDE DEF S
    <3> QED
      BY <2>2, AnimalsHaveRows, FS_Subset
  <2> HIDE DEF S
  <2> QED
    BY <2>1, <2>2, <2>3, PlacesInLine
<1> QED
  BY <1>1, <1>3, <1>4

LEMMA CaughtTogether ==
  ASSUME NEW to \in Moves, NEW p, NEW q, <<p, q>> \in Caught(to)
  PROVE  p \in Predators /\ q \in Prey /\ to[p] = to[q]
<1>1. CASE <<p, q>> \in Held
  BY <1>1 DEF Moves, Held
<1>2. CASE <<p, q>> \notin Held
  BY <1>2 DEF Caught
<1> QED
  BY <1>1, <1>2

(* Whoever holds a prey after a tick caught it in that tick, and did not   *)
(* eat it: it stands with its captor, in no web.                           *)
LEMMA HeldWasCaught ==
  ASSUME Ledger, Tick, spins
  PROVE  \E to \in Moves : \A p, q : <<p, q>> \in Held' =>
           /\ <<p, q>> \in Caught(to) \ Kills(to)
           /\ place'[p].val = to[p] /\ place'[q].val = to[q]
<1>1. PICK to \in Moves : \E new, f, g, out : Batch(to, new, f, g, out) /\ Carried(to)
  BY TickRows
<1>2. PICK new, f, g, out : Batch(to, new, f, g, out) /\ Carried(to)
  BY <1>1
<1>3. played' = [epoch |-> epoch, turn |-> Turn] /\ UNCHANGED <<spins, epoch>>
  BY TickRows
<1>4. Written(f, g, epoch, Turn)
  BY <1>2, <1>3, BatchWritten
<1>5. PICK kept \in SUBSET (Caught(to) \ Kills(to)) : holds' = HoldsAfter(kept)
  BY <1>2 DEF Carried
<1>6. ASSUME NEW p, NEW q, <<p, q>> \in Held'
      PROVE  /\ <<p, q>> \in Caught(to) \ Kills(to)
             /\ place'[p].val = to[p] /\ place'[q].val = to[q]
  <2>1. /\ p \in DOMAIN holds' /\ ~Removed(p)' /\ p[1] = "predator"
        /\ q[1] = "prey" /\ holds'[p] = q
    BY <1>6 DEF Held, Predators, Prey, LiveOf
  <2>2. p \in DOMAIN place /\ p \in DOMAIN holds \union Predators
    BY <1>5, <2>1, AnimalsHaveRows DEF HoldsAfter, Ledger
  <2>3. p \in Predators
    BY <2>1, <2>2, Untouched DEF Predators, LiveOf
  <2>4. CASE \E x \in Prey : <<p, x>> \in kept
    <3>1. q = CHOOSE x \in Prey : <<p, x>> \in kept
      BY <1>5, <2>1, <2>2, <2>3, <2>4 DEF HoldsAfter
    <3>2. q \in Prey /\ <<p, q>> \in kept
      BY <2>4, <3>1
    <3>3. place'[p] = [val |-> f[p], epoch |-> epoch, turn |-> Turn]
      BY <1>2, <1>4, <2>3 DEF Written, Overwrites, Batch, Animals
    <3>4. place'[q] = [val |-> f[q], epoch |-> epoch, turn |-> Turn]
      BY <1>2, <1>4, <3>2 DEF Written, Overwrites, Batch, Animals
    <3>5. f[p] = to[p] /\ f[q] = to[q]
      BY <1>2, <2>3, <3>2 DEF Batch, Animals
    <3> QED
      BY <3>2, <3>3, <3>4, <3>5
  <2>5. CASE ~\E x \in Prey : <<p, x>> \in kept
    <3>1. q = None
      BY <1>5, <2>1, <2>2, <2>3, <2>5 DEF HoldsAfter
    <3> QED
      BY <2>1, <3>1 DEF None
  <2> QED
    BY <2>4, <2>5
<1> QED
  BY <1>6

(* A web there is after a tick was spun by it, or stood there before it    *)
(* and in the same run.                                                    *)
LEMMA WebsAfter ==
  ASSUME Ledger, Tick, spins, NEW w \in LiveOf("web")'
  PROVE  \/ place'[w].turn = Turn
         \/ w \in LiveOf("web") /\ place'[w] = place[w] /\ place[w].epoch = epoch
<1>1. PICK to \in Moves : \E new, f, g, out : Batch(to, new, f, g, out) /\ Carried(to)
  BY TickRows
<1>2. PICK new, f, g, out : Batch(to, new, f, g, out) /\ Carried(to)
  BY <1>1
<1>3. played' = [epoch |-> epoch, turn |-> Turn] /\ UNCHANGED <<spins, epoch>>
  BY TickRows
<1>4. Written(f, g, epoch, Turn)
  BY <1>2, <1>3, BatchWritten
<1>5. w \in DOMAIN place' /\ w[1] = "web" /\ ~Removed(w)'
  BY DEF LiveOf
<1>6. CASE w \in DOMAIN place
  <2>1. w \notin Animals
    BY <1>5, AnimalsHaveRows DEF Animals
  <2>2. place'[w] = place[w] /\ ~Removed(w)
    BY <1>5, <1>6, <2>1, Untouched
  <2>3. place[w].epoch = epoch
    BY <1>6 DEF Ledger, Timely
  <2> QED
    BY <1>5, <1>6, <2>2, <2>3 DEF LiveOf
<1>7. CASE w \notin DOMAIN place
  <2>1. w \in DOMAIN f
    BY <1>4, <1>5, <1>7 DEF Written, Overwrites
  <2>2. place'[w] = [val |-> f[w], epoch |-> epoch, turn |-> Turn]
    BY <1>4, <2>1 DEF Written, Overwrites
  <2> QED
    BY <2>2
<1> QED
  BY <1>6, <1>7

LEMMA HeldTick ==
  ASSUME Ledger, HeldPreyRidesAlong, Tick, spins
  PROVE  HeldPreyRidesAlong'
<1>1. PICK to \in Moves : \A p, q : <<p, q>> \in Held' =>
           /\ <<p, q>> \in Caught(to) \ Kills(to)
           /\ place'[p].val = to[p] /\ place'[q].val = to[q]
  BY HeldWasCaught
<1>2. TickCount' = Turn
  BY TickRows, TickCounts
<1>3. ASSUME NEW p, NEW q, <<p, q>> \in Held'
      PROVE  /\ Captors(q)' = {p}
             /\ At(p)' = At(q)'
             /\ At(p)' \notin StaticWeb
             /\ \A w \in LiveOf("web")' :
                  At(w)' = At(p)' =>
                    place'[w].turn = TickCount' \/ place'[w].turn + WebDuration <= TickCount'
  <2>1. /\ <<p, q>> \in Caught(to) \ Kills(to)
        /\ At(p)' = to[p] /\ At(q)' = to[q]
    BY <1>1, <1>3 DEF At
  <2>2. At(p)' = At(q)'
    BY <2>1, CaughtTogether
  <2>3. ~Webbed(to[p])
    BY <2>1 DEF Kills
  <2>4. At(p)' \notin StaticWeb
    BY <2>1, <2>3 DEF Webbed
  <2>5. ASSUME NEW w \in LiveOf("web")', At(w)' = At(p)'
        PROVE  place'[w].turn = TickCount' \/ place'[w].turn + WebDuration <= TickCount'
    <3>1. CASE place'[w].turn = Turn
      BY <1>2, <3>1
    <3>2. CASE w \in LiveOf("web") /\ place'[w] = place[w] /\ place[w].epoch = epoch
      <4>1. At(w) = to[p]
        BY <2>1, <2>5, <3>2 DEF At
      <4>2. ~(place[w].turn + WebDuration > Turn)
        BY <2>3, <3>2, <4>1 DEF Webbed
      <4>3. place[w].turn \in Nat /\ Turn \in Nat /\ WebDuration \in Nat
        BY <3>2, TurnType, TownSquareAssumption DEF LiveOf, Ledger, Timely
      <4> QED
        BY <1>2, <3>2, <4>2, <4>3
    <3> QED
      BY <3>1, <3>2, WebsAfter
  <2>6. Captors(q)' = {p}
    <3>1. ASSUME NEW r, <<r, q>> \in Held' PROVE r = p
      BY <1>1, <2>1, <3>1, OneCaptor
    <3>2. p \in Predators'
      BY <1>3 DEF Held
    <3> QED
      BY <1>3, <3>1, <3>2 DEF Captors
  <2> QED
    BY <2>2, <2>4, <2>5, <2>6
<1>4. ASSUME NEW pq \in Held' PROVE pq = <<pq[1], pq[2]>>
  BY DEF Held
<1> QED
  BY <1>3, <1>4 DEF HeldPreyRidesAlong

(* A catch is where its one captor is, and does not outlast the first tick *)
(* that finds the two in a web spun before it.                             *)
THEOREM CatchesRideAlong == Spec => []HeldPreyRidesAlong
<1>1. Init => HeldPreyRidesAlong
  <2>1. ASSUME Init PROVE Held = {}
    <3>1. ASSUME NEW p \in DOMAIN holds PROVE holds[p] = None
      BY <2>1, <3>1 DEF Init
    <3>2. \A q \in Prey : q # None
      BY DEF Prey, LiveOf, None
    <3> QED
      BY <3>1, <3>2 DEF Held
  <2> QED
    BY <2>1 DEF HeldPreyRidesAlong
<1>2. ASSUME Ledger, Ledger', HeldPreyRidesAlong, [Next]_vars PROVE HeldPreyRidesAlong'
  <2>1. CASE ~spins'
    <3>1. Held' = {}
      BY <1>2, <2>1 DEF Ledger, Held
    <3> QED
      BY <3>1 DEF HeldPreyRidesAlong
  <2>2. CASE spins' /\ Tick
    BY <1>2, <2>2, TickRows, HeldTick
  <2>3. ASSUME NEW c \in Cell, PlaceFood(c) PROVE ~spins'
    BY <2>3 DEF PlaceFood
  <2>4. CASE Recast
    BY <2>1, <2>4 DEF Recast
  <2>5. CASE UNCHANGED vars
    BY <1>2, <2>5 DEF vars, HeldPreyRidesAlong, Held, Captors, Predators, Prey, LiveOf,
                      Removed, At, TickCount
  <2> QED
    BY <1>2, <2>1, <2>2, <2>3, <2>4, <2>5 DEF Next
<1> QED
  BY <1>1, <1>2, LedgerAlways, PTL DEF Spec

=============================================================================
